CONSTANTS
    MaxRow = 3
    MaxLog = 5
    MaxCkpt = 4
    MaxUpgrades = 0
    MaxRefusals = 0
SPECIFICATION Spec
CHECK_DEADLOCK FALSE
INVARIANTS
    TypeOK
    RecoveredExact
PROPERTY
    ImplementsDurableTable
