SPECIFICATION MCSpec
CHECK_DEADLOCK FALSE
CONSTANTS
    Pushes = {p1, p2}
    Contents = {"none", "template", "bad"}
    Issues = {i1}
    MaxAttempts = 2
    MaxCrashes = 1
    Deletes = TRUE
    NoTicket = NoTicket
INVARIANTS
    TypeOK
    ReadsGoForward
PROPERTIES
    
    EveryPushAnswered
    DispatchersShareAQueue
