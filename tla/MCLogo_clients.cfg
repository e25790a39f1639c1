SPECIFICATION FairSpec
CONSTANTS
    Orgs = {o1, o2}
    Files = {f0, f1, f2}
    Clients = {c1, c2}
    Seeders = {}
    SeedOrg = o1
    SeedFile = f0
    None = None
    MaxFaults = 1

    
    
PROPERTIES
    Settles
    
    
CHECK_DEADLOCK FALSE
