SPECIFICATION Spec
CONSTANTS
    Dirs = {d1, d2}
    Orgs = {o1}
    Clients = {c1, c2}
    Alias = Alias
    MaxVersion = 2
    None = None
PROPERTIES
    StaleDeleteRefused
CHECK_DEADLOCK FALSE
