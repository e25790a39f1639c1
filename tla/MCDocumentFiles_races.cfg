SPECIFICATION FairSpec
CONSTANTS
    Dirs = {sd, d, e}
    Files = {sf, f}
    SeedDir = sd
    SeedFile = sf
    Clients = {c1, c2}
    Seeders = {}
    MaxVersion = 3
    MaxFaults = 1
    None = none
INVARIANTS TypeOK Downloadable NoOrphans
PROPERTIES Swept ImplementsShelf
CHECK_DEADLOCK FALSE
