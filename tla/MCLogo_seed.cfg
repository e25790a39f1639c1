SPECIFICATION Spec
CONSTANTS
    Orgs = {o1}
    Files = {f0, f1, f2}
    Clients = {c1}
    Seeders = {s1, s2}
    SeedOrg = o1
    SeedFile = f0
    None = None
    MaxFaults = 1
SYMMETRY Symmetry
INVARIANTS
    TypeOK
    
    ReplayIsCurrent
    LeaksNeedFaults
CHECK_DEADLOCK FALSE
