SPECIFICATION Spec
CONSTANTS
    Dirs = {sd, d}
    Files = {sf, f}
    SeedDir = sd
    SeedFile = sf
    Clients = {c}
    Seeders = {s1, s2}
    MaxVersion = 1
    MaxFaults = 0
    None = none
SYMMETRY Symmetry
INVARIANTS ConsumerSeesFiles OneRerunSuffices
 
CHECK_DEADLOCK FALSE
