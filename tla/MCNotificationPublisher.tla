----------------------- MODULE MCNotificationPublisher -----------------------
(* NotificationPublisher on small instances: two Sessions whose executions *)
(* publish in turn, each with a partition of its own.                      *)
EXTENDS NotificationPublisher

MCPartitions == {0, 1}
MCPartitionOf == [n \in 1..MaxOffered |-> n % 2]
=============================================================================
