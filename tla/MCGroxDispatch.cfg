CONSTANTS
    p1 = p1
    p2 = p2
    p3 = p3
    pm = pm
    g1 = g1
    g2 = g2
    NoPayload = NoPayload
    Payloads <- MCPayloads
    Streams <- MCStreams
    StreamOf <- MCStreamOf
    Faulty <- MCFaulty
    Malformed <- MCMalformed
    MaxInFlight = 1
    MaxAttempts = 1
    PrefetchThreshold = 1
    PrefetchBatch = 2
CHECK_DEADLOCK FALSE
SPECIFICATION LiveSpec
PROPERTIES EveryMessageResolves LosslessShutdownEnds ResolvedOnce ImplementsJobs
INVARIANTS TypeOK  InFlightBound InFlightTracked RunsMatchAttempt
