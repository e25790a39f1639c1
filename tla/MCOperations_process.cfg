SPECIFICATION FairSpec
CONSTANTS
    None = None
    row = row
    f1 = f1
    b1 = b1
    b2 = b2
    a1 = a1
    a2 = a2
    SeedRow = row
    SeedFiles <- OneFile
    Branches = {b1}
    Admins = {a1, a2}
    MaxWrites = 2
    MaxVerbs = 2
    MaxTrouble = 1
INVARIANTS TypeOK ConsumerConverges DrainPublishesAll
PROPERTIES SchemaChangesAlone VerbEnds MarksSwept
