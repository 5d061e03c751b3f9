\* Two replicas, each with its relay; nothing fails.
CONSTANTS
    Relays = {"r1", "r2"}
    Keys = {"k1", "k2"}
    KeyOf <- MCKeyOf
    MaxRows = 3
    BatchSize = 1
    MaxFaults = 0
SPECIFICATION Spec
INVARIANTS OrderPreserved
