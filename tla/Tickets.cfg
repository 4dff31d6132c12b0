SPECIFICATION TicketsSpec
CONSTANTS
    Ids = {1, 2}
    Statuses = {"backlog", "ready", "running", "done", "failed"}
    Workers = {w1, w2}
    Dispatchers = {d1, d2}
    IoErrors = TRUE
SYMMETRY Symmetry
INVARIANTS
    TicketsTypeOK
    SecondRunHasACause
PROPERTIES
    EditKeepsStatus
