SPECIFICATION RingSpec
CONSTANTS
    q1 = q1
    q2 = q2
    v1 = v1
    v2 = v2
    a1 = a1
    a2 = a2
    Queues <- MCQueues
    Values <- MCValues
    Allocators <- MCAllocators
    Raw = Raw
    Gone = Gone
    NoAllocator = NoAllocator
    MinCapacity = 1
    MaxDoublings = 2
    MaxLength = 3
INVARIANT RingTypeOK
INVARIANT LiveSlots
INVARIANT StorageHome
PROPERTY ImplementsFifo
