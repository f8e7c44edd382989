SPECIFICATION Spec
CONSTANTS
    None = None
    Workers = {w1, w2}
    Users = {u1}
    Databases <- MCDatabases
    MaxStarts = 4
CHECK_DEADLOCK FALSE
INVARIANTS
    ServesMigrated CalmStartsRepair
PROPERTIES
    TokensStay
