SPECIFICATION KanbanSpec
CONSTANTS
    Ids = {1, 2}
    Statuses = {"backlog", "done"}
    Workers = {s1, w1}
    Sessions = {s1}
    CiTickets = {2}
    Dispatchers = {}
    MaxDepth = 1
    IoErrors = TRUE
INVARIANTS
    KanbanTypeOK
    CursorIsOnATicket
    TextStaysInItsTicket
    DialogsAreInFront
    ReadersOnlyRead
PROPERTIES
    BoardImplementsTickets
