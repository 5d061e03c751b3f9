\* One pod at a time, whose consumer and requests race on a key; three failures,
\* signals or crashes.
CONSTANTS
    Relays = {"r1"}
    Keys <- MCKeys
    KeyOf <- MCKeyOf
    MaxRows = 3
    BatchSize = 2
    MaxFaults = 3
SPECIFICATION FairServeSpec
INVARIANTS ServeTypeOK OutboxFaithful RepublishBounded OrderPreserved PoolClosedLast
PROPERTIES EventuallyPublished
