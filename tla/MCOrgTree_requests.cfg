SPECIFICATION FairSpec
CONSTANTS
    Orgs = {o1, o2}
    k1 = k1
    k2 = k2
    Codes = {k1, k2}
    Clients = {c1, c2}
    Seeders = {s1}
    SeedFile <- RootAndChild
    MaxVersion = 3
    None = None
INVARIANTS TypeOK Forest PathsDistinct EventsReplay
PROPERTIES NoLostUpdate ImplementsForest TransfersEnd
CHECK_DEADLOCK FALSE
