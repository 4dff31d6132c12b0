SPECIFICATION Spec
CHECK_DEADLOCK FALSE
CONSTANTS
    Pushes = {p1, p2}
    Contents = {"none", "template", "bad"}
    Issues = {}
    MaxAttempts = 2
    MaxCrashes = 0
    Deletes = FALSE
    NoTicket = NoTicket
INVARIANT TicketIsAboutItsPush
