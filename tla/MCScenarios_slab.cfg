SPECIFICATION Spec

CONSTANTS
    None = None
    Alias = Alias
    Bad = Bad
    SeedOrgs <- DefaultOrgs
    SeedTree <- DefaultTree
    Targets <- SomeTargets
    MaxTurns = 3
    MaxPasses = 1

INVARIANTS
    TypeOK
    ScenariosSucceed
    EventsTold
PROPERTIES
    HonestCommands

CHECK_DEADLOCK FALSE
