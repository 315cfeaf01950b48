------------------------ MODULE NotificationPublisher ------------------------
(***************************************************************************)
(* The Kafka notification publisher: publish() puts a notification into a  *)
(* bounded queue and never waits, one task drains the queue into Kafka,    *)
(* and close() waits for it, but not for ever.                             *)
(*                                                                         *)
(* Source: adapters/kafka/publisher.py; control/plane.py starts and closes *)
(* it once.  The Kafka client and the brokers are external, and known only *)
(* by how the code uses them: a message goes to the partition of its key,  *)
(* which is the tenant and the Session.  Each partition has a connection   *)
(* of its own, which keeps the order in which the client writes.  What the *)
(* client has written may be lost, and the client may write it again after *)
(* it has arrived: the producer is not idempotent.                         *)
(*                                                                         *)
(* Data.  A notification is the number of its publish().                   *)
(***************************************************************************)
EXTENDS Naturals, Sequences, FiniteSets

CONSTANTS
    MaxOffered,     \* bound: calls of publish
    Capacity,       \* queue_capacity
    Partitions,     \* of the topic
    PartitionOf,    \* the partition of a notification's key
    MaxArrivals     \* bound: a partition with so many messages gets none twice

ASSUME ConstantsAssumption ==
    /\ MaxOffered \in Nat /\ Capacity \in Nat \ {0} /\ MaxArrivals \in Nat
    /\ PartitionOf \in [1..MaxOffered -> Partitions]

VARIABLES
    phase,          \* how far start() and close() are
    accepting,      \* _accepting
    queue,          \* _queue
    unfinished,     \* its count of items without task_done
    worker,         \* the task of publish_notifications
    stats,          \* PublisherStats
    offered,        \* calls of publish so far
    producerErrors, \* failures of the producer's start and stop
    timedOut,       \* close() has given up on the queue
    wire,           \* per partition: written by the Kafka client, not arrived
    broker          \* per partition: what has arrived, in this order

clientVars == <<wire, broker>>
publisherVars == <<phase, accepting, queue, unfinished, worker, stats, offered,
                   producerErrors, timedOut, clientVars>>

Sentinel == 0       \* None

(* starting: producer.start() is awaited; dead: it has failed and was not  *)
(* required.  joining, joined: close() waits for the queue, the queue is   *)
(* done; awaiting: close() waits for the task; raised: close() has failed. *)
Phase == {"new", "starting", "open", "dead", "joining", "joined", "awaiting",
          "stopping", "closed", "raised"}

NoItem == [pc |-> "none", item |-> Sentinel]
Waiting == [pc |-> "waiting", item |-> Sentinel]
Done == [pc |-> "done", item |-> Sentinel]

PublisherInit ==
    /\ phase = "new" /\ accepting = FALSE
    /\ queue = << >> /\ unfinished = 0
    /\ worker = NoItem
    /\ stats = [accepted |-> 0, published |-> 0, failed |-> 0, dropped |-> 0]
    /\ offered = 0 /\ producerErrors = 0 /\ timedOut = FALSE
    /\ wire = [p \in Partitions |-> << >>] /\ broker = [p \in Partitions |-> << >>]

-----------------------------------------------------------------------------
(* start().                                                                *)

StartBegins ==
    /\ phase = "new"
    /\ phase' = "starting"
    /\ UNCHANGED <<accepting, queue, unfinished, worker, stats, offered,
                   producerErrors, timedOut, clientVars>>

ProducerStarts ==
    /\ phase = "starting"
    /\ phase' = "open" /\ accepting' = TRUE /\ worker' = Waiting
    /\ UNCHANGED <<queue, unfinished, stats, offered, producerErrors,
                   timedOut, clientVars>>

(* Not required: the process goes on without notifications.  (When it is,  *)
(* the process does not start.)                                            *)
ProducerStartFails ==
    /\ phase = "starting"
    /\ phase' = "dead"
    /\ stats' = [stats EXCEPT !.failed = @ + 1]
    /\ producerErrors' = producerErrors + 1
    /\ UNCHANGED <<accepting, queue, unfinished, worker, offered, timedOut,
                   clientVars>>

-----------------------------------------------------------------------------
(* publish(), called by every execution's on_notification.                 *)

Publish ==
    /\ phase # "new" /\ offered < MaxOffered
    /\ offered' = offered + 1
    /\ IF accepting /\ Len(queue) < Capacity
         THEN /\ queue' = Append(queue, offered + 1)
              /\ unfinished' = unfinished + 1
              /\ stats' = [stats EXCEPT !.accepted = @ + 1]
         ELSE /\ stats' = [stats EXCEPT !.dropped = @ + 1]
              /\ UNCHANGED <<queue, unfinished>>
    /\ UNCHANGED <<phase, accepting, worker, producerErrors, timedOut, clientVars>>

-----------------------------------------------------------------------------
(* publish_notifications.                                                  *)

Takes ==
    /\ worker.pc = "waiting" /\ queue # << >>
    /\ queue' = Tail(queue)
    /\ IF Head(queue) = Sentinel
         THEN worker' = Done /\ unfinished' = unfinished - 1
         ELSE /\ worker' = [pc |-> "sending", item |-> Head(queue)]
              /\ UNCHANGED unfinished
    /\ UNCHANGED <<phase, accepting, stats, offered, producerErrors, timedOut,
                   clientVars>>

Written == wire' = [wire EXCEPT ![PartitionOf[worker.item]] = Append(@, worker.item)]
MayBeWritten == Written \/ UNCHANGED wire

(* acks=0: send_and_wait returns when the client has written the message.  *)
SendReturns ==
    /\ worker.pc = "sending"
    /\ Written
    /\ worker' = Waiting /\ unfinished' = unfinished - 1
    /\ stats' = [stats EXCEPT !.published = @ + 1]
    /\ UNCHANGED <<phase, accepting, queue, offered, producerErrors, timedOut, broker>>

(* Fault: a message that fails is queued again.                            *)
SendRaisesRequeues ==
    /\ worker.pc = "sending" /\ Len(queue) < Capacity
    /\ MayBeWritten
    /\ worker' = Waiting
    /\ queue' = Append(queue, worker.item)
    /\ UNCHANGED <<phase, accepting, unfinished, stats, offered,
                   producerErrors, timedOut, broker>>

SendRaises ==
    /\ worker.pc = "sending"
    /\ MayBeWritten
    /\ worker' = Waiting /\ unfinished' = unfinished - 1
    /\ stats' = [stats EXCEPT !.failed = @ + 1]
    /\ UNCHANGED <<phase, accepting, queue, offered, producerErrors, timedOut, broker>>

(* close() has cancelled the task: the message it was sending is given up  *)
(* and counted nowhere.                                                    *)
Cancelled ==
    /\ worker.pc = "cancelled"
    /\ IF worker.item # Sentinel
         THEN MayBeWritten /\ unfinished' = unfinished - 1
         ELSE UNCHANGED <<wire, unfinished>>
    /\ worker' = Done
    /\ UNCHANGED <<phase, accepting, queue, stats, offered, producerErrors,
                   timedOut, broker>>

-----------------------------------------------------------------------------
(* close().                                                                *)

(* Fault: the publisher accepts notifications while it closes.             *)
CloseBeginsAccepting ==
    /\ phase \in {"open", "dead"}
    /\ phase' = IF worker.pc = "none" THEN "closed" ELSE "joining"
    /\ UNCHANGED <<accepting, queue, unfinished, worker, stats, offered,
                   producerErrors, timedOut, clientVars>>

CloseBegins ==
    /\ phase \in {"open", "dead"}
    /\ accepting' = FALSE
    /\ phase' = IF worker.pc = "none" THEN "closed" ELSE "joining"
    /\ UNCHANGED <<queue, unfinished, worker, stats, offered, producerErrors,
                   timedOut, clientVars>>

(* queue.join() is done, and close() will be resumed.                      *)
QueueJoined ==
    /\ phase = "joining" /\ unfinished = 0
    /\ phase' = "joined"
    /\ UNCHANGED <<accepting, queue, unfinished, worker, stats, offered,
                   producerErrors, timedOut, clientVars>>

(* put_nowait(None), which raises QueueFull when there is no room.         *)
SentinelPut ==
    /\ phase = "joined"
    /\ IF Len(queue) < Capacity
         THEN /\ queue' = Append(queue, Sentinel)
              /\ unfinished' = unfinished + 1
              /\ phase' = "awaiting"
         ELSE phase' = "raised" /\ UNCHANGED <<queue, unfinished>>
    /\ UNCHANGED <<accepting, worker, stats, offered, producerErrors, timedOut,
                   clientVars>>

(* Fault: what is still queued is not counted.                             *)
JoinTimesOutUncounted ==
    /\ phase = "joining"
    /\ timedOut' = TRUE
    /\ worker' = [worker EXCEPT !.pc = "cancelled"]
    /\ phase' = "awaiting"
    /\ UNCHANGED <<accepting, queue, unfinished, stats, offered,
                   producerErrors, clientVars>>

(* close_timeout_seconds are over.                                         *)
JoinTimesOut ==
    /\ phase = "joining"
    /\ timedOut' = TRUE
    /\ stats' = [stats EXCEPT !.dropped = @ + Len(queue)]
    /\ worker' = [worker EXCEPT !.pc = "cancelled"]
    /\ phase' = "awaiting"
    /\ UNCHANGED <<accepting, queue, unfinished, offered, producerErrors, clientVars>>

WorkerAwaited ==
    /\ phase = "awaiting" /\ worker.pc = "done"
    /\ phase' = "stopping"
    /\ UNCHANGED <<accepting, queue, unfinished, worker, stats, offered,
                   producerErrors, timedOut, clientVars>>

ProducerStops ==
    /\ phase = "stopping"
    /\ phase' = "closed"
    /\ UNCHANGED <<accepting, queue, unfinished, worker, stats, offered,
                   producerErrors, timedOut, clientVars>>

ProducerStopFails ==
    /\ phase = "stopping"
    /\ phase' = "closed"
    /\ stats' = [stats EXCEPT !.failed = @ + 1]
    /\ producerErrors' = producerErrors + 1
    /\ UNCHANGED <<accepting, queue, unfinished, worker, offered, timedOut, clientVars>>

-----------------------------------------------------------------------------
(* The connections to the brokers.                                         *)

(* The first k messages that are under way to a partition arrive ...       *)
Arrive(p, k) ==
    /\ k \in 1..Len(wire[p])
    /\ broker' = [broker EXCEPT ![p] = @ \o SubSeq(wire[p], 1, k)]
    /\ UNCHANGED <<phase, accepting, queue, unfinished, worker, stats, offered,
                   producerErrors, timedOut>>

(* ... and that is all ...                                                 *)
Arrives ==
    \E p \in Partitions, k \in 1..MaxOffered :
        /\ Arrive(p, k)
        /\ wire' = [wire EXCEPT ![p] = SubSeq(@, k + 1, Len(@))]

(* ... or the client does not know it and writes them again.               *)
ArrivesAndIsResent ==
    \E p \in Partitions, k \in 1..MaxOffered :
        /\ Len(broker[p]) < MaxArrivals
        /\ Arrive(p, k)
        /\ UNCHANGED wire

ConnectionBreaks ==
    /\ \E p \in Partitions :
        /\ wire[p] # << >>
        /\ wire' = [wire EXCEPT ![p] = << >>]
    /\ UNCHANGED <<phase, accepting, queue, unfinished, worker, stats, offered,
                   producerErrors, timedOut, broker>>

Close == QueueJoined \/ SentinelPut \/ JoinTimesOut \/ WorkerAwaited \/ ProducerStops

PublisherNext ==
    \/ StartBegins \/ ProducerStarts \/ ProducerStartFails
    \/ Publish
    \/ Takes \/ SendReturns \/ SendRaises \/ Cancelled
    \/ CloseBegins \/ Close \/ ProducerStopFails
    \/ Arrives \/ ArrivesAndIsResent \/ ConnectionBreaks

PublisherSpec == PublisherInit /\ [][PublisherNext]_publisherVars

(* The event loop resumes the task and close(), and the timeout of close() *)
(* fires.  Nothing is assumed of Kafka: a send may hang for ever, but not  *)
(* the producer's stop(), which close() waits for without a timeout.       *)
FairSpec ==
    /\ PublisherSpec
    /\ WF_publisherVars(Takes) /\ WF_publisherVars(Cancelled) /\ WF_publisherVars(Close)

-----------------------------------------------------------------------------
(* The variables have their types.                                         *)
PublisherTypeOK ==
    /\ phase \in Phase /\ accepting \in BOOLEAN /\ timedOut \in BOOLEAN
    /\ queue \in Seq(0..MaxOffered) /\ Len(queue) <= Capacity
    /\ unfinished \in 0..Capacity + 1
    /\ worker \in [pc: {"none", "waiting", "sending", "cancelled", "done"},
                   item: 0..MaxOffered]
    /\ stats \in [{"accepted", "published", "failed", "dropped"} -> Nat]
    /\ offered \in 0..MaxOffered /\ producerErrors \in 0..2
    /\ wire \in [Partitions -> Seq(1..MaxOffered)]
    /\ broker \in [Partitions -> Seq(1..MaxOffered)]

(* The notifications that are neither sent nor given up.                   *)
Open == IF timedOut THEN 0
        ELSE Cardinality({i \in 1..Len(queue) : queue[i] # Sentinel})
             + (IF worker.item # Sentinel THEN 1 ELSE 0)

(* The statistics account for every notification that was ever offered: it *)
(* is published, failed, dropped or still open, and counted once.  The one *)
(* exception is the message that is being sent when close() times out.     *)
CountsAddUp ==
    LET counted == stats.published + (stats.failed - producerErrors) + stats.dropped
        missing == offered - (counted + Open)
    IN  missing = 0 \/ (timedOut /\ missing = 1)

(* Each message of a sequence comes after everything below it, or for the  *)
(* second time.                                                            *)
FirstArrivalsRise(s) ==
    \A j \in 1..Len(s) :
        \/ \A i \in 1..(j - 1) : s[i] < s[j]
        \/ \E i \in 1..(j - 1) : s[i] = s[j]

(* Once its repetitions are left out, what a partition has, and so what it *)
(* has of any one Session, is in the order in which it was published,      *)
(* although messages fail, are dropped, are given up and are written again *)
(* by the client: the publisher never sends one after a later one.         *)
DeliveredInOrder == \A p \in Partitions : FirstArrivalsRise(broker[p])

(* close() comes to its end, whatever Kafka does and however many          *)
(* executions still publish: it never finds the queue full.                *)
CloseEnds == phase = "joining" ~> phase = "closed"

(* A notification counts as published only when the broker has it.         *)
PublishedIsAcknowledged ==
    stats.published <= Cardinality({n \in 1..offered : \E p \in Partitions :
                                        \E i \in 1..Len(broker[p]) : broker[p][i] = n})

=============================================================================
