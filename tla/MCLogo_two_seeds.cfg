SPECIFICATION Spec
CONSTANTS
    Orgs = {o1}
    Files = {f0, f1}
    Clients = {c1}
    Seeders = {s1, s2}
    SeedOrg = o1
    SeedFile = f0
    None = None
    MaxFaults = 0

PROPERTY SparesReferenced
CHECK_DEADLOCK FALSE
