SPECIFICATION Spec
CONSTANTS
    Orgs = {o1}
    Files = {f0, f1, f2}
    Clients = {c1, c2}
    Seeders = {}
    SeedOrg = o1
    SeedFile = f0
    None = None
    MaxFaults = 0

INVARIANT EventIsAChange
CHECK_DEADLOCK FALSE
