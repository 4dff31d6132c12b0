SPECIFICATION Spec
CONSTANTS
    ann = ann
    bob = bob
    s1 = s1
    s2 = s2
    s3 = s3
    k1 = k1
    k2 = k2
    k3 = k3
    k4 = k4
    Usernames = {ann, bob}
    Fingerprints = {k1, k2, k3, k4}
    RepoNames = {}
    Users0 <- MCUsers
    Keys0 <- MCKeys
    UserSeq0 = 2
    KeySeq0 = 3
    MaxUserId = 2
    MaxKeyId = 5
    MaxRepoId = 0
    Sessions = {s1, s2, s3}
    SessionUser <- MCSessionUser
    StoreErrors = TRUE
SYMMETRY SameUserSessions
INVARIANTS
    TypeOK
PROPERTIES
    RemovedIsConfirmed
    KeysStayWithTheirUser
    LastKeyKeptAlone
