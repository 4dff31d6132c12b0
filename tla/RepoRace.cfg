SPECIFICATION Spec
CHECK_DEADLOCK FALSE
CONSTANTS
    own = own
    out = out
    root = root
    ghost = ghost
    r1 = r1
    Usernames <- MCUsernames
    Fingerprints = {}
    RepoNames = {r1}
    Users0 <- MCUsers
    Keys0 = {}
    UserSeq0 = 3
    KeySeq0 = 0
    MaxUserId = 3
    MaxKeyId = 0
    MaxRepoId = 1
    NoUser = NoUser
    Workers = {w1, w2}
    Targets <- OneTarget
    Ops = {"push", "create"}
    Failures = FALSE
    Crashes = FALSE
INVARIANTS
    PushFindsRepository
