SPECIFICATION Spec
CONSTANTS
    Threads = {t1, t2}
    NoThread = NoThread
    FixtureLength = 3
    MaxErrors = 2
    MaxStops = 1
INVARIANTS
    HistoryIsSchema
    SeedingIsWhole
PROPERTIES
    GetsMigrated
