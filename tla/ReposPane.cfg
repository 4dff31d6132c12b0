SPECIFICATION PaneSpec
CHECK_DEADLOCK FALSE
CONSTANTS
    own = own
    out = out
    root = root
    ghost = ghost
    r1 = r1
    Usernames <- MCUsernames
    Fingerprints = {}
    RepoNames = {r1}
    Users0 <- MCUsers
    Keys0 = {}
    UserSeq0 = 3
    KeySeq0 = 0
    MaxUserId = 3
    MaxKeyId = 0
    MaxRepoId = 3
    NoUser = NoUser
    Workers = {s1, w1}
    Sessions = {s1}
    Place <- MCPlace
    Visitors <- MCVisitors
    Targets <- OneTarget
    Ops = {"clone", "push", "create", "delete"}
    Failures = TRUE
    Crashes = TRUE
INVARIANTS
    PaneTypeOK
    FreshListing
    PushHasBothHalves
    DeletedIsGone
PROPERTIES
    OnlyOwnersDelete
