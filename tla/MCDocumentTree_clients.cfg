SPECIFICATION Spec
CONSTANTS
    Dirs = {d1, d2, d3}
    Orgs = {o1, o2}
    Clients = {c1, c2}
    Alias = Alias
    MaxVersion = 3
    None = None
SYMMETRY Symmetry
INVARIANTS
    TypeOK
    Hierarchies
    RootsBound
    ConsumerSeesTree
    FirstMarkTells
PROPERTY ImplementsBranches
CHECK_DEADLOCK FALSE
