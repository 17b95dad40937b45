SPECIFICATION Spec
CONSTANTS
    MaxSaves = 4
    MaxDamages = 2
    MaxRestarts = 2
INVARIANTS
    SaveInv
PROPERTIES
    ImplementsStore
CHECK_DEADLOCK FALSE
