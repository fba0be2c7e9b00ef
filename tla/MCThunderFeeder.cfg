CONSTANTS
    p = p
    q = q
    t1 = t1
    t2 = t2
    Threads = {t1, t2}
    Posts = {p, q}
    Log <- MCLog
    BatchSize = 2
    PollSize = 3
    MaxRestarts = 1
CHECK_DEADLOCK FALSE
SPECIFICATION Spec
INVARIANTS CommittedIsHandled
PROPERTIES FullBatchesGetThrough
