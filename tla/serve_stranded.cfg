\* One pod that stops on a signal; nothing else fails.
CONSTANTS
    Relays = {"r1"}
    Keys <- MCKeys
    KeyOf <- MCKeyOf
    MaxRows = 2
    BatchSize = 2
    MaxFaults = 1
SPECIFICATION ServeSpec
INVARIANTS NoEventStranded
