CONSTANTS
    p1 = p1
    u1 = u1
    t1 = t1
    t2 = t2
    DeleteKey = DeleteKey
    NoPost = NoPost
    PostIds <- MCOnePost
    Users <- MCOneUser
    Threads <- MCThreads
    Light <- MCLight
    Feed <- MCFeed
    Requests <- NoRequests
    Retention = 1
    Skew = 0
    StartTime = 1
    EndTime = 5
    MaxOriginal = 1
    MaxReply = 1
    MaxVideo = 2
    MaxScan = 2
CHECK_DEADLOCK FALSE
SPECIFICATION FairSpec
INVARIANTS PostsReferenced FlagsBuried NoDoubleReference
PROPERTIES FlagOutlivesPost EverythingReclaimed
