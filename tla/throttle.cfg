CONSTANTS
    MaxRequests = 3
    Unknown = {3}
    MaxConcurrent = 1
    MaxTrouble = 2
    MaxBacklog = 1
SPECIFICATION FairSpec
CHECK_DEADLOCK FALSE
INVARIANTS TypeOK SlotHolders QueueStored CapHolds NoLeakedSlot 
  
