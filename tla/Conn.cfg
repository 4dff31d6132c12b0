SPECIFICATION MCSpec
CHECK_DEADLOCK FALSE
CONSTANTS
    ExecChans = {e1}
    ShellChans = {s1}
    NoChan = NoChan
    QueueSize = 4
    PipeSize = 1
    MaxMade = 2
    MaxFrames = 1
    MaxKeys = 3
    MaxText = 5
INVARIANTS
    ConnTypeOK
    CutSpoilsOneKey
PROPERTIES
    ChannelsKeepOrder
    EditsLikeAnEditor
    GitCommandEnds
    NothingOutlivesConnection
    WritesEndUnlessStuck
    QuitEndsWhenItFits
