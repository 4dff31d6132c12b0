SPECIFICATION Spec
CONSTANTS
    own = own
    out = out
    root = root
    r1 = r1
    kOut = kOut
    kRoot = kRoot
    kNone = kNone
    c1 = c1
    Usernames <- MCUsernames
    Fingerprints <- MCFingerprints
    RepoNames = {r1}
    Users0 <- MCUsers
    Keys0 <- MCKeys
    UserSeq0 = 3
    KeySeq0 = 2
    MaxUserId = 3
    MaxKeyId = 2
    MaxRepoId = 3
    Conns = {c1}
    Targets <- MCTargets
    NoUser = NoUser
    NoRepo = NoRepo
    StoreErrors = TRUE
INVARIANTS
    TypeOK
    StoreIntegrity
    AccessNeverExceeds
    RefusalWasTrue
    ListingMatchesCanRead
