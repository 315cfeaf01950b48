SPECIFICATION FairSpec
CONSTANTS
    MaxOffered = 5
    Capacity = 2
    MaxArrivals = 2
    Partitions <- MCPartitions
    PartitionOf <- MCPartitionOf
INVARIANTS
    CountsAddUp
    DeliveredInOrder
PROPERTIES
    CloseEnds
CHECK_DEADLOCK FALSE
