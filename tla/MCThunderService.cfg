CONSTANTS
    p1 = p1
    p2 = p2
    u1 = u1
    t1 = t1
    t2 = t2
    c1 = c1
    c2 = c2
    NoCall = NoCall
    DeleteKey = DeleteKey
    NoPost = NoPost
    PostIds <- MCPosts
    Users <- MCUsers
    Threads <- MCThreads
    Calls <- MCCalls
    Leaving <- MCLeaving
    Light <- MCLight
    Feed <- MCFeed
    Asked <- MCAsked
    Follows <- MCFollows
    Requests <- MCRequests
    MaxConcurrent = 1
    MaxInput = 1
    MaxPosts = 2
    MaxVideos = 1
    Retention = 2
    Skew = 0
    StartTime = 3
    EndTime = 3
    MaxOriginal = 2
    MaxReply = 1
    MaxVideo = 1
    MaxScan = 3
CHECK_DEADLOCK FALSE
SPECIFICATION ServiceSpec
INVARIANTS AnswerHidesDeleted NothingNewerMissed PermitsAreBack
