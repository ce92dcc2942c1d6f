SPECIFICATION MCSpec
CONSTANTS
    None = None
    Releases = {10, 17, 23, 36}
    MaxEvents = 2
    Databases <- MCDatabases
INVARIANTS
    DriftConfined
PROPERTIES
    BackfillsMeet
    NothingLost
