--------------------------- MODULE ThunderStartup ---------------------------
(***************************************************************************)
(* How a serving Thunder starts (main.rs, kafka_utils.rs and               *)
(* tweet_events_listener_v2.rs): main starts the listener threads, waits   *)
(* for as many catch-up signals as it asked for threads, finalizes the     *)
(* post store and declares itself ready, while the threads poll Kafka,     *)
(* measure their lag, put batches into the store and signal once.          *)
(*                                                                         *)
(* Messages are counted, not named; what a batch does to the store is      *)
(* PostStore's matter.  A message that cannot be parsed is skipped alone   *)
(* and counts as handled; one without an event takes its whole batch with  *)
(* it.  A failed poll sleeps and changes nothing.                          *)
(***************************************************************************)
EXTENDS Naturals, FiniteSets

CONSTANTS
    NumThreads,         \* kafka_num_threads: threads asked for, channel capacity, signals awaited
    PartitionCounts,    \* values of kafka_tweet_events_v2_num_partitions
    BatchSize,          \* kafka_batch_size
    Permits,            \* permits of the semaphore: 3
    MaxBacklog,         \* bound of the model: messages a thread's partitions hold at the start
    MaxProduced,        \* bound of the model: messages produced meanwhile
    MaxPanics           \* bound of the model: batches of a thread with a message without an event

ASSUME CountsAssumption ==
    /\ NumThreads \in Nat /\ NumThreads >= 1 /\ BatchSize \in Nat /\ BatchSize >= 1
    /\ Permits \in Nat /\ Permits >= 1 /\ MaxBacklog \in Nat /\ MaxProduced \in Nat
    /\ MaxPanics \in Nat
    /\ \A n \in PartitionCounts : n \in Nat /\ n >= 1

Threads == 0 .. NumThreads - 1

VARIABLES
    partitions, \* partitions of the topic
    backlog,    \* messages each thread's partitions held at the start
    left,       \* total lag of each thread: messages it has not polled
    produced,   \* messages produced since the start
    thr,        \* each thread: where it is, its buffer, its permit and its catch-up signal
    done,       \* messages of each thread that went into the store
    panics,     \* batches of each thread that panicked: nothing of them is in the store
    permits,    \* free permits
    signals,    \* messages in the channel to main
    main        \* where main is, and the signals it received

vars == <<partitions, backlog, left, produced, thr, done, panics, permits, signals, main>>

Least(a, b) == IF a < b THEN a ELSE b

\* Thread t gets the t-th block of div_ceil(partitions, threads) partitions.
PerThread == (partitions + NumThreads - 1) \div NumThreads
Spawned(t) == t * PerThread < partitions
PartitionsOf(t) == IF Spawned(t) THEN Least((t + 1) * PerThread, partitions) - t * PerThread ELSE 0

Stages == {"unspawned", "connect", "poll", "lag", "permit", "work", "send", "dead"}

TypeOK ==
    /\ partitions \in PartitionCounts
    /\ backlog \in [Threads -> 0 .. MaxBacklog]
    /\ left \in [Threads -> 0 .. MaxBacklog + MaxProduced] /\ produced \in 0 .. MaxProduced
    /\ thr \in [Threads -> [at : Stages, buffer : 0 .. 2 * BatchSize - 1,
                            catchup : {"no", "held", "sent", "lost"}, permit : BOOLEAN]]
    /\ done \in [Threads -> 0 .. MaxBacklog + MaxProduced]
    /\ panics \in [Threads -> 0 .. MaxPanics]
    /\ permits \in 0 .. Permits
    /\ signals \in 0 .. NumThreads
    /\ main \in [at : {"wait", "finalized", "ready"}, got : 0 .. NumThreads]

Init ==
    /\ partitions \in PartitionCounts
    /\ backlog \in {b \in [Threads -> 0 .. MaxBacklog] : \A t \in Threads : Spawned(t) \/ b[t] = 0}
    /\ left = backlog
    /\ produced = 0
    /\ thr = [t \in Threads |-> [at |-> IF Spawned(t) THEN "connect" ELSE "unspawned", buffer |-> 0,
                                 catchup |-> "no", permit |-> FALSE]]
    /\ done = [t \in Threads |-> 0] /\ panics = [t \in Threads |-> 0]
    /\ permits = Permits /\ signals = 0
    /\ main = [at |-> "wait", got |-> 0]

\* init_data_downloaded.
Downloaded(t) == thr[t].catchup # "no"
At(t, stage) == thr[t].at = stage
Alive(t) == thr[t].at \notin {"unspawned", "dead"}

-----------------------------------------------------------------------------
(* The topic and the listener threads *)

\* A message arrives on a partition of a thread.
Produce ==
    \E t \in Threads :
        /\ Spawned(t) /\ produced < MaxProduced
        /\ left' = [left EXCEPT ![t] = @ + 1]
        /\ produced' = produced + 1
        /\ UNCHANGED <<partitions, backlog, thr, done, panics, permits, signals, main>>

Go(t, stage) == thr' = [thr EXCEPT ![t].at = stage]

Connect(t) ==
    /\ At(t, "connect") /\ Go(t, "poll")
    /\ UNCHANGED <<partitions, backlog, left, produced, done, panics, permits, signals, main>>

\* The task panics; nobody awaits it.
ConnectFails(t) ==
    /\ At(t, "connect") /\ Go(t, "dead")
    /\ UNCHANGED <<partitions, backlog, left, produced, done, panics, permits, signals, main>>

\* At most a batch, possibly less than there is.
Poll(t, n) ==
    /\ At(t, "poll") /\ n <= Least(BatchSize, left[t])
    /\ left' = [left EXCEPT ![t] = @ - n]
    /\ thr' = [thr EXCEPT ![t].at = "lag", ![t].buffer = @ + n]
    /\ UNCHANGED <<partitions, backlog, produced, done, panics, permits, signals, main>>

\* Mutant: the lag allowed to all threads together.
CaughtUpTogether(t) == left[t] < NumThreads * PartitionsOf(t) * BatchSize

CaughtUp(t) == left[t] < PartitionsOf(t) * BatchSize

NextStage(full, downloaded) ==
    IF ~full THEN "poll" ELSE IF downloaded THEN "permit" ELSE "work"

BufferFull(t) == thr[t].buffer >= BatchSize

\* The signal of a thread that has just caught up is kept only if the batch is full.
AfterLag(t, caughtUp) ==
    LET full == BufferFull(t)
    IN  thr' = [thr EXCEPT ![t].at = NextStage(full, caughtUp \/ Downloaded(t)),
                           ![t].catchup = IF ~caughtUp THEN @ ELSE IF full THEN "held" ELSE "lost"]

\* Mutant: the thread asks although it has caught up before.
CheckLagAgain(t) ==
    /\ At(t, "lag") /\ AfterLag(t, CaughtUp(t))
    /\ UNCHANGED <<partitions, backlog, left, produced, done, panics, permits, signals, main>>

CheckLag(t) ==
    /\ At(t, "lag") /\ AfterLag(t, ~Downloaded(t) /\ CaughtUp(t))
    /\ UNCHANGED <<partitions, backlog, left, produced, done, panics, permits, signals, main>>

\* get_partition_lags fails before the thread has caught up.
LagUnknown(t) ==
    /\ At(t, "lag") /\ ~Downloaded(t) /\ AfterLag(t, FALSE)
    /\ UNCHANGED <<partitions, backlog, left, produced, done, panics, permits, signals, main>>

AcquirePermit(t) ==
    /\ At(t, "permit") /\ permits > 0
    /\ permits' = permits - 1
    /\ thr' = [thr EXCEPT ![t].at = "work", ![t].permit = TRUE]
    /\ UNCHANGED <<partitions, backlog, left, produced, done, panics, signals, main>>

\* Mutant: the permit is not given back.
ReleaseNothing(t) == UNCHANGED permits

Release(t) == permits' = permits + (IF thr[t].permit THEN 1 ELSE 0)

\* The blocking task is over and its permit gone; nobody looks at how it ended.
BatchOver(t) ==
    /\ At(t, "work")
    /\ Release(t)
    /\ thr' = [thr EXCEPT ![t].at = IF thr[t].catchup = "held" THEN "send" ELSE "poll",
                          ![t].buffer = 0, ![t].permit = FALSE]
    /\ UNCHANGED <<partitions, backlog, left, produced, signals, main>>

FinishBatch(t) ==
    /\ BatchOver(t)
    /\ done' = [done EXCEPT ![t] = @ + thr[t].buffer]
    /\ UNCHANGED panics

\* A message without an event panics the task before it has inserted anything.
BatchPanics(t) ==
    /\ BatchOver(t) /\ panics[t] < MaxPanics
    /\ panics' = [panics EXCEPT ![t] = @ + 1]
    /\ UNCHANGED done

Send(t) ==
    /\ At(t, "send") /\ signals < NumThreads
    /\ signals' = signals + 1
    /\ thr' = [thr EXCEPT ![t].at = "poll", ![t].catchup = "sent"]
    /\ UNCHANGED <<partitions, backlog, left, produced, done, panics, permits, main>>

-----------------------------------------------------------------------------
(* main *)

Awaited == NumThreads

Recv ==
    /\ main.at = "wait" /\ main.got < Awaited /\ signals > 0
    /\ signals' = signals - 1
    /\ main' = [main EXCEPT !.got = @ + 1]
    /\ UNCHANGED <<partitions, backlog, left, produced, thr, done, panics, permits>>

\* recv answers None, and the loop counts it, once every sender is gone: each thread
\* owns one and main has given its own away.
RecvNone ==
    /\ main.at = "wait" /\ main.got < Awaited /\ signals = 0
    /\ \A t \in Threads : ~Alive(t)
    /\ main' = [main EXCEPT !.got = @ + 1]
    /\ UNCHANGED <<partitions, backlog, left, produced, thr, done, panics, permits, signals>>

FinalizeInit ==
    /\ main.at = "wait" /\ main.got = Awaited
    /\ main' = [main EXCEPT !.at = "finalized"]
    /\ UNCHANGED <<partitions, backlog, left, produced, thr, done, panics, permits, signals>>

SetReadiness ==
    /\ main.at = "finalized"
    /\ main' = [main EXCEPT !.at = "ready"]
    /\ UNCHANGED <<partitions, backlog, left, produced, thr, done, panics, permits, signals>>

Next ==
    \/ Produce
    \/ \E t \in Threads :
          \/ Connect(t) \/ ConnectFails(t)
          \/ \E n \in 0 .. BatchSize : Poll(t, n)
          \/ CheckLag(t) \/ LagUnknown(t)
          \/ AcquirePermit(t) \/ FinishBatch(t) \/ BatchPanics(t) \/ Send(t)
    \/ Recv \/ RecvNone \/ FinalizeInit \/ SetReadiness

Spec == Init /\ [][Next]_vars

\* Every task gets to run, tokio's semaphore is fair, and a broker that is asked again
\* and again delivers what there is and tells the lag.
Fairness ==
    /\ \A t \in Threads :
          /\ WF_vars(Connect(t) \/ ConnectFails(t)) /\ WF_vars(\E n \in 0 .. BatchSize : Poll(t, n))
          /\ SF_vars(\E n \in 1 .. BatchSize : Poll(t, n))
          /\ WF_vars(CheckLag(t) \/ LagUnknown(t)) /\ SF_vars(CheckLag(t))
          /\ SF_vars(AcquirePermit(t)) /\ WF_vars(FinishBatch(t) \/ BatchPanics(t))
          /\ WF_vars(Send(t))
    /\ WF_vars(Recv \/ RecvNone \/ FinalizeInit \/ SetReadiness)

FairSpec == Spec /\ Fairness

-----------------------------------------------------------------------------
(* Properties *)

Signalled == {t \in Threads : thr[t].catchup = "sent"}
SomeAlive == \E t \in Threads : Alive(t)

\* While a listener lives, main counts signals of catching up and nothing else, one
\* signal for a thread at most, so their channel never fills up.
SignalsAccount == SomeAlive => main.got + signals = Cardinality(Signalled)

\* The most a thread's buffer ever holds, so what the store misses of the batches of
\* thread t that panicked is at most this for each.
LargestBatch == 2 * BatchSize - 1
Missing(t) == panics[t] * LargestBatch

\* While a listener lives, main leaves its wait only when every thread it asked for has
\* caught up, and then the store has what each thread's partitions held at the start,
\* but for less than a batch per partition and for the batches that panicked: those
\* threads count as caught up like the others.
FinalizedAfterCatchUp ==
    main.at # "wait" /\ SomeAlive =>
        \A t \in Threads : /\ t \in Signalled
                           /\ done[t] + Missing(t) + PartitionsOf(t) * BatchSize > backlog[t]

\* The server gets ready if every thread was spawned, connects and does not lose its
\* signal: neither permits nor the channel nor late messages keep it from it.
ServesAfterCatchUp ==
    [](\A t \in Threads : thr[t].at \notin {"unspawned", "dead"} /\ thr[t].catchup # "lost")
        => <>(main.at = "ready")

\* Main waits for the catch-up signals ("Wait for Kafka catchup signal", main.rs:71), so
\* a thread that has caught up has sent its signal or is about to.
CaughtUpIsSignalled == \A t \in Threads : thr[t].catchup # "lost"
=============================================================================
