------------------------ MODULE ThunderStartupProofs ------------------------
(***************************************************************************)
(* Main's count of catch-up signals, and what is in the store when it      *)
(* finalizes, for any number of threads, partitions, messages and permits. *)
(*                                                                         *)
(* Neither is inductive.  That a signal counts one thread needs to know    *)
(* that a thread about to send has not sent before (StageOK); what is in   *)
(* the store needs to know that every message of a thread is in its        *)
(* partitions, its buffer, the store or a batch that panicked (Conserved)  *)
(* and how far a thread was when it caught up (Stored).                    *)
(***************************************************************************)
EXTENDS ThunderStartup, TLAPS, FiniteSetTheorems

\* The lag with which a thread counts as caught up.
Allowance(t) == PartitionsOf(t) * BatchSize

StageOK(t) ==
    /\ thr[t].at \in {"unspawned", "connect", "dead"} => thr[t].catchup = "no"
    /\ thr[t].at \in {"connect", "poll"} => thr[t].buffer < BatchSize
    /\ thr[t].at = "send" => thr[t].catchup = "held" /\ thr[t].buffer = 0
    /\ thr[t].catchup = "held" => thr[t].at \in {"permit", "work", "send"}
    /\ thr[t].permit => thr[t].at = "work"

Conserved(t) ==
    /\ backlog[t] <= done[t] + Missing(t) + thr[t].buffer + left[t]
    /\ done[t] + thr[t].buffer + left[t] <= backlog[t] + produced

Stored(t) ==
    /\ thr[t].catchup = "held" => done[t] + Missing(t) + thr[t].buffer + Allowance(t) > backlog[t]
    /\ thr[t].catchup = "sent" => done[t] + Missing(t) + Allowance(t) > backlog[t]

ThreadOK(t) == StageOK(t) /\ Conserved(t) /\ Stored(t)

\* A permit is free or with a thread.
Holders == {t \in Threads : thr[t].permit}
PermitsAccount == permits + Cardinality(Holders) = Permits

MainCounted == main.at # "wait" => main.got = NumThreads

Accounts ==
    /\ \A t \in Threads : ThreadOK(t)
    /\ PermitsAccount /\ SignalsAccount /\ MainCounted

IInv == TypeOK /\ Accounts

USE DEF At, Go, Accounts

-----------------------------------------------------------------------------
(* Facts *)

LEMMA ThreadsAreFinite ==
    /\ IsFiniteSet(Threads) /\ Cardinality(Threads) = NumThreads
    /\ \A S \in SUBSET Threads :
          /\ IsFiniteSet(S) /\ Cardinality(S) \in Nat /\ Cardinality(S) <= NumThreads
          /\ Cardinality(S) = NumThreads => S = Threads
<1>1. NumThreads \in Nat /\ NumThreads >= 1
  BY CountsAssumption
<1>2. IsFiniteSet(Threads) /\ Cardinality(Threads) = NumThreads
  BY <1>1, FS_Interval DEF Threads
<1>3. ASSUME NEW S \in SUBSET Threads
      PROVE  /\ IsFiniteSet(S) /\ Cardinality(S) \in Nat /\ Cardinality(S) <= NumThreads
             /\ Cardinality(S) = NumThreads => S = Threads
  BY <1>2, FS_Subset, FS_CardinalityType
<1> QED BY <1>2, <1>3

LEMMA AllowanceIsInt ==
    ASSUME partitions \in PartitionCounts, NEW t \in Threads
    PROVE  Allowance(t) \in Int
<1>1. partitions \in Nat /\ NumThreads \in Nat /\ NumThreads >= 1 /\ BatchSize \in Nat /\ t \in Nat
  BY CountsAssumption DEF Threads
<1>2. PerThread \in Int
  BY <1>1 DEF PerThread
<1>3. t * PerThread \in Int /\ (t + 1) * PerThread \in Int
  BY <1>1, <1>2
<1>4. PartitionsOf(t) \in Int
  BY <1>1, <1>3 DEF PartitionsOf, Least
<1> QED BY <1>1, <1>4 DEF Allowance

LEMMA AllowanceStays ==
    ASSUME NEW t, UNCHANGED partitions, panics'[t] = panics[t]
    PROVE  Allowance(t)' = Allowance(t) /\ Missing(t)' = Missing(t)
BY DEF Allowance, PartitionsOf, Spawned, PerThread, Missing, LargestBatch

\* What a thread's variables are, as facts about numbers.
LEMMA ThreadTypes ==
    ASSUME IInv, NEW t \in Threads
    PROVE  /\ done[t] \in Nat /\ Missing(t) \in Nat /\ left[t] \in Nat /\ backlog[t] \in Nat
           /\ produced \in Nat
           /\ thr[t].buffer \in Nat /\ thr[t].buffer <= 2 * BatchSize - 1
           /\ thr[t].permit \in BOOLEAN /\ thr[t].at \in Stages
           /\ thr[t].catchup \in {"no", "held", "sent", "lost"}
           /\ thr[t] = [at |-> thr[t].at, buffer |-> thr[t].buffer,
                        catchup |-> thr[t].catchup, permit |-> thr[t].permit]
           /\ BatchSize \in Nat /\ BatchSize >= 1 /\ Allowance(t) \in Int
           /\ ThreadOK(t)
<1>1. Allowance(t) \in Int
  BY AllowanceIsInt DEF IInv, TypeOK
<1>2. Missing(t) \in Nat
  <2>1. panics[t] \in Nat /\ LargestBatch \in Nat
    BY CountsAssumption DEF IInv, TypeOK, LargestBatch
  <2> QED BY <2>1 DEF Missing
<1> QED BY <1>1, <1>2, CountsAssumption DEF IInv, TypeOK

\* A thread that a step leaves alone.
LEMMA OthersStay ==
    ASSUME IInv, NEW u \in Threads, UNCHANGED <<partitions, backlog>>,
           produced' \in Nat, produced <= produced',
           thr'[u] = thr[u], done'[u] = done[u], panics'[u] = panics[u], left'[u] = left[u]
    PROVE  ThreadOK(u)'
<1>1. Allowance(u)' = Allowance(u) /\ Missing(u)' = Missing(u)
  BY AllowanceStays
<1>2. ThreadOK(u)
  BY DEF IInv
<1>3. /\ done[u] \in Nat /\ Missing(u) \in Nat /\ left[u] \in Nat /\ thr[u].buffer \in Nat /\ backlog[u] \in Nat
      /\ produced \in Nat
  BY ThreadTypes
<1>4. StageOK(u)'
  BY <1>2 DEF ThreadOK, StageOK
<1>5. Conserved(u)'
  BY <1>1, <1>2, <1>3 DEF ThreadOK, Conserved
<1>6. Stored(u)'
  BY <1>1, <1>2 DEF ThreadOK, Stored
<1> QED BY <1>4, <1>5, <1>6 DEF ThreadOK

\* What thread t's step has to say for the invariants about all threads.
LEMMA OneThreadMoves ==
    ASSUME IInv, NEW t \in Threads, UNCHANGED <<partitions, backlog, produced>>,
           \A u \in Threads \ {t} :
               thr'[u] = thr[u] /\ done'[u] = done[u] /\ panics'[u] = panics[u] /\ left'[u] = left[u],
           ThreadOK(t)'
    PROVE  \A u \in Threads : ThreadOK(u)'
<1>1. produced' \in Nat /\ produced <= produced'
  BY CountsAssumption DEF IInv, TypeOK
<1> QED BY <1>1, OthersStay

\* The thread's permit and its signal stay what they are.
LEMMA CountsStay ==
    ASSUME IInv, UNCHANGED <<permits, signals, main>>,
           \A u \in Threads :
               /\ thr'[u].permit = thr[u].permit
               /\ thr'[u].catchup = "sent" <=> thr[u].catchup = "sent"
               /\ thr'[u].at \notin {"unspawned", "dead"} => thr[u].at \notin {"unspawned", "dead"}
    PROVE  PermitsAccount' /\ SignalsAccount' /\ MainCounted'
<1>1. Holders' = Holders
  BY DEF Holders
<1>2. Signalled' = Signalled
  BY DEF Signalled
<1>3. SomeAlive' => SomeAlive
  BY DEF SomeAlive, Alive
<1>4. PermitsAccount'
  BY <1>1 DEF IInv, PermitsAccount
<1>5. SignalsAccount'
  BY <1>2, <1>3 DEF IInv, SignalsAccount
<1>6. MainCounted'
  BY DEF IInv, MainCounted
<1> QED BY <1>4, <1>5, <1>6

-----------------------------------------------------------------------------
(* The initial states, and the types *)

LEMMA Initially == Init => IInv
<1> SUFFICES ASSUME Init PROVE IInv
  OBVIOUS
<1>0. /\ NumThreads \in Nat /\ BatchSize \in Nat /\ BatchSize >= 1 /\ Permits \in Nat
      /\ MaxBacklog \in Nat /\ MaxProduced \in Nat /\ MaxPanics \in Nat
  BY CountsAssumption
<1>1. TypeOK
  BY <1>0 DEF Init, TypeOK, Stages
<1>2. ASSUME NEW t \in Threads PROVE ThreadOK(t)
  <2>1. /\ thr[t].at \in {"connect", "unspawned"} /\ thr[t].buffer = 0
        /\ thr[t].catchup = "no" /\ thr[t].permit = FALSE
    BY DEF Init
  <2>2. done[t] = 0 /\ Missing(t) = 0 /\ left[t] = backlog[t] /\ backlog[t] \in Nat /\ produced = 0
    BY <1>0 DEF Init, Missing, LargestBatch
  <2> QED BY <1>0, <2>1, <2>2 DEF ThreadOK, StageOK, Conserved, Stored
<1>3. Holders = {} /\ Signalled = {}
  BY DEF Init, Holders, Signalled
<1>4. PermitsAccount /\ SignalsAccount /\ MainCounted
  BY <1>0, <1>3, FS_EmptySet DEF Init, PermitsAccount, SignalsAccount, MainCounted
<1> QED BY <1>1, <1>2, <1>4 DEF IInv

\* The types follow from the bounds that ThreadOK gives each thread.
ThreadRec == [at : Stages, buffer : 0 .. 2 * BatchSize - 1,
              catchup : {"no", "held", "sent", "lost"}, permit : BOOLEAN]

LEMMA TypesAfter ==
    ASSUME IInv, [Next]_vars
    PROVE  TypeOK'
<1>0. /\ NumThreads \in Nat /\ BatchSize \in Nat /\ BatchSize >= 1 /\ Permits \in Nat
      /\ MaxBacklog \in Nat /\ MaxProduced \in Nat /\ MaxPanics \in Nat
  BY CountsAssumption
<1>t. TypeOK /\ thr \in [Threads -> ThreadRec]
  BY DEF IInv, TypeOK, ThreadRec
<1>1. CASE Produce
  <2>1. PICK t \in Threads : produced < MaxProduced /\ left' = [left EXCEPT ![t] = @ + 1]
    BY <1>1 DEF Produce
  <2>2. left[t] + 1 \in 0 .. MaxBacklog + MaxProduced
    BY <1>0, <1>t, <2>1, ThreadTypes DEF ThreadOK, Conserved, TypeOK
  <2> QED BY <1>0, <1>1, <1>t, <2>1, <2>2 DEF Produce, TypeOK
<1>2. ASSUME NEW t \in Threads, NEW stage \in Stages, Go(t, stage),
             UNCHANGED <<partitions, backlog, left, produced, done, panics, permits, signals, main>>
      PROVE  TypeOK'
  BY <1>2, <1>t DEF TypeOK, Stages
<1>3. ASSUME NEW t \in Threads, NEW n \in 0 .. BatchSize, Poll(t, n) PROVE TypeOK'
  <2>1. n <= Least(BatchSize, left[t]) /\ At(t, "poll")
    BY <1>3 DEF Poll
  <2>2. n \in Nat /\ n <= BatchSize /\ n <= left[t]
    <3>1. left[t] \in Nat
      BY ThreadTypes
    <3> QED BY <1>0, <2>1, <3>1 DEF Least
  <2>3. left[t] - n \in 0 .. MaxBacklog + MaxProduced
    BY <1>0, <1>t, <2>2 DEF TypeOK
  <2>4. thr[t].buffer + n \in 0 .. 2 * BatchSize - 1
    <3>1. thr[t].buffer \in Nat /\ thr[t].buffer < BatchSize
      BY <2>1, ThreadTypes DEF ThreadOK, StageOK
    <3> QED BY <1>0, <2>2, <3>1
  <2>5. left' \in [Threads -> 0 .. MaxBacklog + MaxProduced]
    BY <1>3, <1>t, <2>3 DEF Poll, TypeOK
  <2>6. thr' \in [Threads -> ThreadRec]
    BY <1>3, <1>t, <2>4 DEF Poll, ThreadRec, Stages
  <2> QED BY <1>3, <1>t, <2>5, <2>6 DEF Poll, TypeOK, ThreadRec
<1>4. ASSUME NEW t \in Threads, NEW caughtUp \in BOOLEAN, AfterLag(t, caughtUp),
             UNCHANGED <<partitions, backlog, left, produced, done, panics, permits, signals, main>>
      PROVE  TypeOK'
  <2>1. NextStage(BufferFull(t), caughtUp \/ Downloaded(t)) \in Stages
    BY DEF NextStage, Stages
  <2>2. (IF ~caughtUp THEN thr[t].catchup ELSE IF BufferFull(t) THEN "held" ELSE "lost")
            \in {"no", "held", "sent", "lost"}
    BY ThreadTypes
  <2>3. thr' \in [Threads -> ThreadRec]
    <3>1. PICK stage \in Stages, catchup \in {"no", "held", "sent", "lost"} :
             thr' = [thr EXCEPT ![t].at = stage, ![t].catchup = catchup]
      BY <1>4, <2>1, <2>2 DEF AfterLag
    <3> QED BY <1>t, <3>1 DEF ThreadRec
  <2> QED BY <1>4, <1>t, <2>3 DEF TypeOK, ThreadRec
<1>5. ASSUME NEW t \in Threads, AcquirePermit(t) PROVE TypeOK'
  <2>1. thr' \in [Threads -> ThreadRec]
    BY <1>5, <1>t DEF AcquirePermit, ThreadRec, Stages
  <2> QED BY <1>0, <1>5, <1>t, <2>1 DEF AcquirePermit, TypeOK, ThreadRec
<1>6. ASSUME NEW t \in Threads, FinishBatch(t) \/ BatchPanics(t) PROVE TypeOK'
  <2>1. done[t] + thr[t].buffer \in 0 .. MaxBacklog + MaxProduced
    BY <1>0, <1>t, ThreadTypes DEF ThreadOK, Conserved, TypeOK
  <2>2. permits' \in 0 .. Permits
    <3>1. CASE thr[t].permit
      <4>1. t \in Holders
        BY <3>1 DEF Holders
      <4>2. Cardinality(Holders) \in Nat /\ Cardinality(Holders) # 0
        BY <4>1, ThreadsAreFinite, FS_EmptySet DEF Holders
      <4>3. permits \in Nat /\ permits + Cardinality(Holders) = Permits
        BY <1>0, <1>t DEF IInv, PermitsAccount, TypeOK
      <4>4. permits + 1 \in 0 .. Permits
        BY <1>0, <4>2, <4>3
      <4>5. permits' = permits + 1
        BY <1>6, <3>1 DEF FinishBatch, BatchPanics, BatchOver, Release
      <4> QED BY <4>4, <4>5
    <3>2. CASE ~thr[t].permit
      <4>1. permits' = permits + 0
        BY <1>6, <3>2 DEF FinishBatch, BatchPanics, BatchOver, Release
      <4> QED BY <1>t, <4>1, <1>0 DEF TypeOK
    <3> QED BY <3>1, <3>2
  <2>3. (IF thr[t].catchup = "held" THEN "send" ELSE "poll") \in Stages
    BY DEF Stages
  <2>4. thr' \in [Threads -> ThreadRec]
    <3>1. 0 \in 0 .. 2 * BatchSize - 1
      BY <1>0
    <3>2. PICK stage \in Stages :
             thr' = [thr EXCEPT ![t].at = stage, ![t].buffer = 0, ![t].permit = FALSE]
      BY <1>6, <2>3 DEF FinishBatch, BatchPanics, BatchOver
    <3> QED BY <1>t, <3>1, <3>2 DEF ThreadRec
  <2>5. done' \in [Threads -> 0 .. MaxBacklog + MaxProduced]
    BY <1>6, <1>t, <2>1 DEF FinishBatch, BatchPanics, TypeOK
  <2>6. panics' \in [Threads -> 0 .. MaxPanics]
    <3>1. CASE FinishBatch(t)
      BY <1>t, <3>1 DEF FinishBatch, TypeOK
    <3>2. CASE BatchPanics(t)
      <4>1. panics[t] + 1 \in 0 .. MaxPanics
        BY <1>0, <1>t, <3>2 DEF BatchPanics, TypeOK
      <4> QED BY <1>t, <3>2, <4>1 DEF BatchPanics, TypeOK
    <3> QED BY <1>6, <3>1, <3>2
  <2>7. UNCHANGED <<partitions, backlog, left, produced, signals, main>>
    BY <1>6 DEF FinishBatch, BatchPanics, BatchOver
  <2> QED BY <1>t, <2>2, <2>4, <2>5, <2>6, <2>7 DEF TypeOK, ThreadRec
<1>7. ASSUME NEW t \in Threads, Send(t) PROVE TypeOK'
  <2>1. thr' \in [Threads -> ThreadRec]
    BY <1>7, <1>t DEF Send, ThreadRec, Stages
  <2> QED BY <1>0, <1>7, <1>t, <2>1 DEF Send, TypeOK, ThreadRec
<1>8. CASE Recv \/ RecvNone \/ FinalizeInit \/ SetReadiness
  BY <1>0, <1>8, <1>t DEF Recv, RecvNone, FinalizeInit, SetReadiness, Awaited, TypeOK
<1>9. CASE UNCHANGED vars
  BY <1>9, <1>t DEF vars, TypeOK
<1>10. "poll" \in Stages /\ "dead" \in Stages
  BY DEF Stages
<1>11. \A t \in Threads : (~Downloaded(t) /\ CaughtUp(t)) \in BOOLEAN
  BY DEF Downloaded
<1> QED BY <1>1, <1>2, <1>3, <1>4, <1>5, <1>6, <1>7, <1>8, <1>9, <1>10, <1>11
        DEF Next, Connect, ConnectFails, CheckLag, LagUnknown

-----------------------------------------------------------------------------
(* One step of a thread *)

LEMMA ProduceStep ==
    ASSUME IInv, Produce
    PROVE  Accounts'
<1>1. PICK t \in Threads : left' = [left EXCEPT ![t] = @ + 1]
  BY DEF Produce
<1>2. /\ produced' = produced + 1 /\ produced \in Nat
      /\ UNCHANGED <<partitions, backlog, thr, done, panics, permits, signals, main>>
  BY CountsAssumption DEF Produce, IInv, TypeOK
<1>3. left \in [Threads -> Nat] /\ left'[t] = left[t] + 1
  BY <1>1, CountsAssumption DEF IInv, TypeOK
<1>4. ThreadOK(t)'
  <2>1. Allowance(t)' = Allowance(t) /\ Missing(t)' = Missing(t)
    BY <1>2, AllowanceStays
  <2>2. StageOK(t)' /\ Stored(t)'
    BY <1>2, <2>1, ThreadTypes DEF ThreadOK, StageOK, Stored
  <2>3. /\ done[t] \in Nat /\ Missing(t) \in Nat /\ left[t] \in Nat /\ thr[t].buffer \in Nat /\ backlog[t] \in Nat
        /\ Conserved(t)
    BY ThreadTypes DEF ThreadOK
  <2>4. Conserved(t)'
    BY <1>2, <1>3, <2>1, <2>3 DEF Conserved
  <2> QED BY <2>2, <2>4 DEF ThreadOK
<1>5. ASSUME NEW u \in Threads, u # t PROVE ThreadOK(u)'
  BY <1>1, <1>2, <1>3, <1>5, OthersStay
<1>6. PermitsAccount' /\ SignalsAccount' /\ MainCounted'
  BY <1>2, CountsStay
<1> QED BY <1>4, <1>5, <1>6

LEMMA GoStep ==
    ASSUME IInv, NEW t \in Threads, At(t, "connect"), NEW stage \in {"poll", "dead"}, Go(t, stage),
           UNCHANGED <<partitions, backlog, left, produced, done, panics, permits, signals, main>>
    PROVE  Accounts'
<1>1. thr \in [Threads -> ThreadRec]
  BY DEF IInv, TypeOK, ThreadRec
<1>2. /\ thr'[t] = [thr[t] EXCEPT !.at = stage]
      /\ \A u \in Threads \ {t} : thr'[u] = thr[u]
  BY <1>1
<1>0. thr[t].buffer < BatchSize /\ thr[t].catchup = "no" /\ thr[t].permit # TRUE
  BY ThreadTypes DEF ThreadOK, StageOK
<1>3. /\ thr'[t].at = stage /\ thr'[t].buffer = thr[t].buffer
      /\ thr'[t].catchup = thr[t].catchup /\ thr'[t].permit = thr[t].permit
  BY <1>1, <1>2 DEF ThreadRec
<1>4. ThreadOK(t)'
  <2>1. Allowance(t)' = Allowance(t) /\ Missing(t)' = Missing(t)
    BY AllowanceStays
  <2>2. StageOK(t)'
    BY <1>3, <1>0 DEF StageOK
  <2>3. Conserved(t)' /\ Stored(t)'
    BY <1>3, <2>1, ThreadTypes DEF ThreadOK, Conserved, Stored
  <2> QED BY <2>2, <2>3 DEF ThreadOK
<1>5. \A u \in Threads : ThreadOK(u)'
  BY <1>2, <1>4, OneThreadMoves
<1>6. PermitsAccount' /\ SignalsAccount' /\ MainCounted'
  BY <1>2, <1>3, CountsStay
<1> QED BY <1>5, <1>6

LEMMA PollStep ==
    ASSUME IInv, NEW t \in Threads, NEW n \in 0 .. BatchSize, Poll(t, n)
    PROVE  Accounts'
<1>1. thr \in [Threads -> ThreadRec] /\ left \in [Threads -> Nat] /\ n \in Nat
  BY CountsAssumption DEF IInv, TypeOK, ThreadRec
<1>2. /\ thr'[t] = [thr[t] EXCEPT !.at = "lag", !.buffer = @ + n]
      /\ left'[t] = left[t] - n
      /\ \A u \in Threads \ {t} : thr'[u] = thr[u] /\ left'[u] = left[u]
      /\ UNCHANGED <<partitions, backlog, produced, done, panics, permits, signals, main>>
      /\ thr[t].at = "poll" /\ n <= Least(BatchSize, left[t])
  BY <1>1 DEF Poll
<1>3. /\ thr'[t].at = "lag" /\ thr'[t].buffer = thr[t].buffer + n
      /\ thr'[t].catchup = thr[t].catchup /\ thr'[t].permit = thr[t].permit
  BY <1>1, <1>2 DEF ThreadRec
<1>4. ThreadOK(t)'
  <2>1. Allowance(t)' = Allowance(t) /\ Missing(t)' = Missing(t)
    BY <1>2, AllowanceStays
  <2>2. thr[t].catchup # "held" /\ thr[t].permit # TRUE
    BY <1>2, ThreadTypes DEF ThreadOK, StageOK
  <2>3. StageOK(t)'
    BY <1>3, <2>2 DEF StageOK
  <2>4. /\ done[t] \in Nat /\ Missing(t) \in Nat /\ thr[t].buffer \in Nat /\ backlog[t] \in Nat /\ produced \in Nat
        /\ Conserved(t) /\ Stored(t)
    BY ThreadTypes DEF ThreadOK
  <2>5. Conserved(t)'
    BY <1>1, <1>2, <1>3, <2>1, <2>4 DEF Conserved
  <2>6. Stored(t)'
    BY <1>2, <1>3, <2>1, <2>2, <2>4 DEF Stored
  <2> QED BY <2>3, <2>5, <2>6 DEF ThreadOK
<1>5. \A u \in Threads : ThreadOK(u)'
  BY <1>2, <1>4, OneThreadMoves
<1>6. PermitsAccount' /\ SignalsAccount' /\ MainCounted'
  BY <1>2, <1>3, CountsStay
<1> QED BY <1>5, <1>6

\* A thread catches up when its lag is below the allowance, and its batch is not yet stored.
LEMMA LagStep ==
    ASSUME IInv, NEW t \in Threads, NEW caughtUp \in BOOLEAN, AfterLag(t, caughtUp),
           caughtUp => ~Downloaded(t) /\ CaughtUp(t), At(t, "lag"),
           UNCHANGED <<partitions, backlog, left, produced, done, panics, permits, signals, main>>
    PROVE  Accounts'
<1>1. thr \in [Threads -> ThreadRec]
  BY DEF IInv, TypeOK, ThreadRec
<1> DEFINE stage == NextStage(BufferFull(t), caughtUp \/ Downloaded(t))
           catchup == IF ~caughtUp THEN thr[t].catchup ELSE IF BufferFull(t) THEN "held" ELSE "lost"
<1>2. /\ thr'[t] = [thr[t] EXCEPT !.at = stage, !.catchup = catchup]
      /\ \A u \in Threads \ {t} : thr'[u] = thr[u]
  BY <1>1 DEF AfterLag
<1>3. /\ thr'[t].at = stage /\ thr'[t].buffer = thr[t].buffer
      /\ thr'[t].catchup = catchup /\ thr'[t].permit = thr[t].permit
  BY <1>1, <1>2 DEF ThreadRec
<1>4. /\ done[t] \in Nat /\ Missing(t) \in Nat /\ left[t] \in Nat /\ thr[t].buffer \in Nat /\ backlog[t] \in Nat
      /\ BatchSize \in Nat /\ Allowance(t) \in Int /\ StageOK(t) /\ Conserved(t) /\ Stored(t)
  BY ThreadTypes DEF ThreadOK
<1>5. thr[t].catchup # "held" /\ thr[t].permit # TRUE
  BY <1>4 DEF StageOK
<1>6. catchup = "held" => caughtUp /\ stage = "permit"
  BY <1>5 DEF NextStage
<1>7. stage = "poll" => thr[t].buffer < BatchSize
  BY <1>4 DEF NextStage, BufferFull
<1>8. stage \in {"poll", "permit", "work"}
  BY DEF NextStage
<1>9. catchup = "sent" <=> thr[t].catchup = "sent"
  BY DEF Downloaded
<1>10. ThreadOK(t)'
  <2>1. Allowance(t)' = Allowance(t) /\ Missing(t)' = Missing(t)
    BY AllowanceStays
  <2>2. StageOK(t)'
    BY <1>3, <1>5, <1>6, <1>7, <1>8 DEF StageOK
  <2>3. Conserved(t)'
    BY <1>3, <1>4, <2>1 DEF Conserved
  <2>4. caughtUp => left[t] < Allowance(t)
    BY DEF CaughtUp, Allowance
  <2>5. catchup = "held" => done[t] + Missing(t) + thr[t].buffer + Allowance(t) > backlog[t]
    BY <1>4, <1>6, <2>4 DEF Conserved
  <2>6. Stored(t)'
    BY <1>3, <1>4, <1>9, <2>1, <2>5 DEF Stored
  <2> QED BY <2>2, <2>3, <2>6 DEF ThreadOK
<1>11. \A u \in Threads : ThreadOK(u)'
  BY <1>2, <1>10, OneThreadMoves
<1>12. PermitsAccount' /\ SignalsAccount' /\ MainCounted'
  BY <1>2, <1>3, <1>9, CountsStay
<1> QED BY <1>11, <1>12

LEMMA AcquireStep ==
    ASSUME IInv, NEW t \in Threads, AcquirePermit(t)
    PROVE  Accounts'
<1>1. thr \in [Threads -> ThreadRec] /\ permits \in Nat /\ Permits \in Nat
  BY CountsAssumption DEF IInv, TypeOK, ThreadRec
<1>2. /\ thr'[t] = [thr[t] EXCEPT !.at = "work", !.permit = TRUE]
      /\ \A u \in Threads \ {t} : thr'[u] = thr[u]
      /\ UNCHANGED <<partitions, backlog, left, produced, done, panics, signals, main>>
      /\ thr[t].at = "permit" /\ permits' = permits - 1
  BY <1>1 DEF AcquirePermit
<1>3. /\ thr'[t].at = "work" /\ thr'[t].buffer = thr[t].buffer
      /\ thr'[t].catchup = thr[t].catchup /\ thr'[t].permit = TRUE
  BY <1>1, <1>2 DEF ThreadRec
<1>4. ThreadOK(t)'
  <2>1. Allowance(t)' = Allowance(t) /\ Missing(t)' = Missing(t)
    BY <1>2, AllowanceStays
  <2>2. StageOK(t)'
    BY <1>3 DEF StageOK
  <2>3. Conserved(t)' /\ Stored(t)'
    BY <1>2, <1>3, <2>1, ThreadTypes DEF ThreadOK, Conserved, Stored
  <2> QED BY <2>2, <2>3 DEF ThreadOK
<1>5. \A u \in Threads : ThreadOK(u)'
  BY <1>2, <1>4, OneThreadMoves
<1>6. PermitsAccount'
  <2>1. t \notin Holders
    BY <1>2, ThreadTypes DEF ThreadOK, StageOK, Holders
  <2>2. Holders' = Holders \cup {t}
    BY <1>2, <1>3 DEF Holders
  <2>3. Cardinality(Holders') = Cardinality(Holders) + 1 /\ Cardinality(Holders) \in Nat
    BY <2>1, <2>2, ThreadsAreFinite, FS_AddElement DEF Holders
  <2>4. permits + Cardinality(Holders) = Permits
    BY DEF IInv, PermitsAccount
  <2>5. permits' + Cardinality(Holders') = Permits
    BY <1>1, <1>2, <2>3, <2>4
  <2> QED BY <2>5 DEF PermitsAccount
<1>7. SignalsAccount' /\ MainCounted'
  <2>1. Signalled' = Signalled
    <3>1. \A u \in Threads : thr'[u].catchup = thr[u].catchup
      BY <1>2, <1>3
    <3> QED BY <3>1 DEF Signalled
  <2>2. SomeAlive' => SomeAlive
    BY <1>2, <1>3 DEF SomeAlive, Alive
  <2> QED BY <1>2, <2>1, <2>2 DEF IInv, SignalsAccount, MainCounted
<1> QED BY <1>5, <1>6, <1>7

\* What was in the buffer is in the store or its batch has panicked, so a thread that has
\* caught up misses no more than its allowance and such batches there before it sends.
LEMMA FinishStep ==
    ASSUME IInv, NEW t \in Threads, FinishBatch(t) \/ BatchPanics(t)
    PROVE  Accounts'
<1>1. /\ thr \in [Threads -> ThreadRec] /\ done \in [Threads -> Nat]
      /\ panics \in [Threads -> Nat] /\ permits \in Nat /\ Permits \in Nat
  BY CountsAssumption DEF IInv, TypeOK, ThreadRec
<1> DEFINE stage == IF thr[t].catchup = "held" THEN "send" ELSE "poll"
<1>2. /\ thr'[t] = [thr[t] EXCEPT !.at = stage, !.buffer = 0, !.permit = FALSE]
      /\ \A u \in Threads \ {t} :
            thr'[u] = thr[u] /\ done'[u] = done[u] /\ panics'[u] = panics[u]
      /\ UNCHANGED <<partitions, backlog, left, produced, signals, main>>
      /\ thr[t].at = "work" /\ permits' = permits + (IF thr[t].permit THEN 1 ELSE 0)
  BY <1>1 DEF FinishBatch, BatchPanics, BatchOver, Release
<1>3. /\ thr'[t].at = stage /\ thr'[t].buffer = 0
      /\ thr'[t].catchup = thr[t].catchup /\ thr'[t].permit = FALSE
  BY <1>1, <1>2 DEF ThreadRec
<1>4. /\ done[t] \in Nat /\ left[t] \in Nat /\ thr[t].buffer \in Nat /\ backlog[t] \in Nat
      /\ produced \in Nat /\ BatchSize \in Nat /\ BatchSize >= 1 /\ Allowance(t) \in Int
      /\ Missing(t) \in Nat /\ thr[t].buffer <= 2 * BatchSize - 1
      /\ StageOK(t) /\ Conserved(t) /\ Stored(t)
  BY ThreadTypes DEF ThreadOK
<1>5. ThreadOK(t)'
  <2>1. /\ Allowance(t)' = Allowance(t)
        /\ \/ done'[t] = done[t] + thr[t].buffer /\ Missing(t)' = Missing(t)
           \/ done'[t] = done[t] /\ Missing(t)' = Missing(t) + LargestBatch
    <3>1. Allowance(t)' = Allowance(t)
      BY <1>2 DEF Allowance, PartitionsOf, Spawned, PerThread
    <3>2. CASE FinishBatch(t)
      BY <1>1, <3>1, <3>2 DEF FinishBatch, Missing, LargestBatch
    <3>3. CASE BatchPanics(t)
      <4>1. panics[t] \in Nat /\ panics'[t] = panics[t] + 1 /\ done' = done
        BY <1>1, <3>3 DEF BatchPanics
      <4>2. LargestBatch \in Int /\ LargestBatch' = LargestBatch
        BY <1>4 DEF LargestBatch
      <4>3. (panics[t] + 1) * LargestBatch = panics[t] * LargestBatch + LargestBatch
        BY <4>1, <4>2
      <4> QED BY <3>1, <4>1, <4>2, <4>3 DEF Missing
    <3> QED BY <3>2, <3>3
  <2>2. StageOK(t)'
    BY <1>3, <1>4 DEF StageOK
  <2>3. LargestBatch = 2 * BatchSize - 1
    BY DEF LargestBatch
  <2>4. Conserved(t)'
    BY <1>2, <1>3, <1>4, <2>1, <2>3 DEF Conserved
  <2>5. Stored(t)'
    BY <1>2, <1>3, <1>4, <2>1, <2>3 DEF Stored
  <2> QED BY <2>2, <2>4, <2>5 DEF ThreadOK
<1>6. \A u \in Threads : ThreadOK(u)'
  BY <1>2, <1>5, OneThreadMoves
<1>7. PermitsAccount'
  <2>1. Holders' = Holders \ {t}
    BY <1>2, <1>3 DEF Holders
  <2>2. permits + Cardinality(Holders) = Permits /\ Cardinality(Holders) \in Nat
    BY ThreadsAreFinite DEF IInv, PermitsAccount, Holders
  <2>3. Cardinality(Holders') = IF t \in Holders THEN Cardinality(Holders) - 1 ELSE Cardinality(Holders)
    BY <2>1, ThreadsAreFinite, FS_RemoveElement DEF Holders
  <2>4. CASE thr[t].permit
    <3>1. t \in Holders /\ permits' = permits + 1
      BY <1>2, <2>4 DEF Holders
    <3>2. permits' + Cardinality(Holders') = Permits
      BY <1>1, <2>2, <2>3, <3>1
    <3> QED BY <3>2 DEF PermitsAccount
  <2>5. CASE ~thr[t].permit
    <3>1. t \notin Holders /\ permits' = permits + 0
      BY <1>2, <2>5 DEF Holders
    <3>2. permits' + Cardinality(Holders') = Permits
      BY <1>1, <2>2, <2>3, <3>1
    <3> QED BY <3>2 DEF PermitsAccount
  <2> QED BY <2>4, <2>5
<1>8. SignalsAccount' /\ MainCounted'
  <2>1. Signalled' = Signalled
    <3>1. \A u \in Threads : thr'[u].catchup = thr[u].catchup
      BY <1>2, <1>3
    <3> QED BY <3>1 DEF Signalled
  <2>2. SomeAlive' => SomeAlive
    BY <1>2 DEF SomeAlive, Alive
  <2> QED BY <1>2, <2>1, <2>2 DEF IInv, SignalsAccount, MainCounted
<1> QED BY <1>6, <1>7, <1>8

\* A thread that sends has not been counted before.
LEMMA SendStep ==
    ASSUME IInv, NEW t \in Threads, Send(t)
    PROVE  Accounts'
<1>1. thr \in [Threads -> ThreadRec] /\ signals \in Nat /\ main.got \in Nat
  BY CountsAssumption DEF IInv, TypeOK, ThreadRec
<1>2. /\ thr'[t] = [thr[t] EXCEPT !.at = "poll", !.catchup = "sent"]
      /\ \A u \in Threads \ {t} : thr'[u] = thr[u]
      /\ UNCHANGED <<partitions, backlog, left, produced, done, panics, permits, main>>
      /\ thr[t].at = "send" /\ signals' = signals + 1
  BY <1>1 DEF Send
<1>3. /\ thr'[t].at = "poll" /\ thr'[t].buffer = thr[t].buffer
      /\ thr'[t].catchup = "sent" /\ thr'[t].permit = thr[t].permit
  BY <1>1, <1>2 DEF ThreadRec
<1>4. /\ done[t] \in Nat /\ Missing(t) \in Nat /\ left[t] \in Nat /\ backlog[t] \in Nat /\ BatchSize \in Nat
      /\ BatchSize >= 1 /\ Allowance(t) \in Int /\ StageOK(t) /\ Conserved(t) /\ Stored(t)
  BY ThreadTypes DEF ThreadOK
<1>5. thr[t].catchup = "held" /\ thr[t].buffer = 0 /\ thr[t].permit # TRUE
  BY <1>2, <1>4 DEF StageOK
<1>6. ThreadOK(t)'
  <2>1. Allowance(t)' = Allowance(t) /\ Missing(t)' = Missing(t)
    BY <1>2, AllowanceStays
  <2>2. thr'[t].buffer < BatchSize
    BY <1>3, <1>4, <1>5
  <2>3. StageOK(t)'
    BY <1>3, <1>5, <2>2 DEF StageOK
  <2>4. Conserved(t)' /\ Stored(t)'
    BY <1>2, <1>3, <1>4, <1>5, <2>1 DEF Conserved, Stored
  <2> QED BY <2>3, <2>4 DEF ThreadOK
<1>7. \A u \in Threads : ThreadOK(u)'
  BY <1>2, <1>6, OneThreadMoves
<1>8. PermitsAccount'
  <2>1. Holders' = Holders
    BY <1>2, <1>3 DEF Holders
  <2> QED BY <1>2, <2>1 DEF IInv, PermitsAccount
<1>9. SignalsAccount'
  <2>1. t \notin Signalled /\ Signalled' = Signalled \cup {t}
    BY <1>2, <1>3, <1>5 DEF Signalled
  <2>2. Cardinality(Signalled') = Cardinality(Signalled) + 1 /\ Cardinality(Signalled) \in Nat
    BY <2>1, ThreadsAreFinite, FS_AddElement DEF Signalled
  <2>3. SomeAlive
    BY <1>2 DEF SomeAlive, Alive
  <2>4. main.got + signals = Cardinality(Signalled)
    BY <2>3 DEF IInv, SignalsAccount
  <2>5. main'.got + signals' = Cardinality(Signalled')
    BY <1>1, <1>2, <2>2, <2>4
  <2> QED BY <2>5 DEF SignalsAccount
<1>10. MainCounted'
  BY <1>2 DEF IInv, MainCounted
<1> QED BY <1>7, <1>8, <1>9, <1>10

-----------------------------------------------------------------------------
(* main, and the theorems *)

LEMMA MainStep ==
    ASSUME IInv, Recv \/ RecvNone \/ FinalizeInit \/ SetReadiness
    PROVE  Accounts'
<1>1. UNCHANGED <<partitions, backlog, left, produced, thr, done, panics, permits>>
  BY DEF Recv, RecvNone, FinalizeInit, SetReadiness
<1>2. /\ signals \in Nat /\ produced \in Nat
      /\ main \in [at : {"wait", "finalized", "ready"}, got : 0 .. NumThreads]
  BY CountsAssumption DEF IInv, TypeOK
<1>3. \A u \in Threads : ThreadOK(u)'
  BY <1>1, <1>2, OthersStay
<1>4. PermitsAccount'
  <2>1. Holders' = Holders
    BY <1>1 DEF Holders
  <2> QED BY <1>1, <2>1 DEF IInv, PermitsAccount
<1>5. SignalsAccount'
  <2>1. Signalled' = Signalled /\ SomeAlive' = SomeAlive
    BY <1>1 DEF Signalled, SomeAlive, Alive
  <2>2. SomeAlive => main'.got + signals' = main.got + signals
    BY <1>2 DEF Recv, RecvNone, FinalizeInit, SetReadiness, SomeAlive
  <2> QED BY <2>1, <2>2 DEF IInv, SignalsAccount
<1>6. MainCounted'
  BY <1>2 DEF Recv, RecvNone, FinalizeInit, SetReadiness, Awaited, IInv, MainCounted
<1> QED BY <1>3, <1>4, <1>5, <1>6

LEMMA InductiveStep == ASSUME IInv, [Next]_vars PROVE IInv'
<1>0. TypeOK'
  BY TypesAfter
<1> SUFFICES Accounts'
  BY <1>0 DEF IInv
<1>1. ASSUME NEW t \in Threads, Connect(t) \/ ConnectFails(t)
      PROVE  Accounts'
  BY <1>1, GoStep DEF Connect, ConnectFails
<1>2. ASSUME NEW t \in Threads, CheckLag(t)
      PROVE  Accounts'
  <2>1. PICK caughtUp \in BOOLEAN : /\ caughtUp = (~Downloaded(t) /\ CaughtUp(t))
                                    /\ AfterLag(t, caughtUp)
    BY <1>2 DEF CheckLag
  <2> QED BY <1>2, <2>1, LagStep DEF CheckLag
<1>3. ASSUME NEW t \in Threads, LagUnknown(t)
      PROVE  Accounts'
  BY <1>3, LagStep DEF LagUnknown
<1>4. CASE UNCHANGED vars
  <2>1. produced \in Nat
    BY CountsAssumption DEF IInv, TypeOK
  <2> QED BY <1>4, <2>1, OthersStay, CountsStay DEF vars
<1> QED BY <1>1, <1>2, <1>3, <1>4, ProduceStep, PollStep, AcquireStep, FinishStep, SendStep, MainStep
        DEF Next

LEMMA Invariance == Spec => []IInv
<1> QED BY Initially, InductiveStep, PTL DEF Spec

\* What every variable holds, for any number of threads and messages.
THEOREM TypeCorrect == Spec => []TypeOK
<1>1. IInv => TypeOK
  BY DEF IInv
<1> QED BY Invariance, <1>1, PTL

\* While a listener lives, main counts signals of catching up and nothing else.
THEOREM SignalsCounted == Spec => []SignalsAccount
<1>1. IInv => SignalsAccount
  BY DEF IInv
<1> QED BY Invariance, <1>1, PTL

\* While a listener lives, main finalizes only a store into which every thread has put its
\* backlog but for its allowance and for batches that panicked: all signals it waited for
\* came from different threads.
THEOREM NoEarlyFinalize == Spec => []FinalizedAfterCatchUp
<1>1. ASSUME IInv PROVE FinalizedAfterCatchUp
  <2> SUFFICES ASSUME main.at # "wait", SomeAlive, NEW t \in Threads
               PROVE  t \in Signalled /\ done[t] + Missing(t) + PartitionsOf(t) * BatchSize > backlog[t]
    BY DEF FinalizedAfterCatchUp
  <2>1. main.got = NumThreads /\ main.got + signals = Cardinality(Signalled)
    BY <1>1 DEF IInv, MainCounted, SignalsAccount
  <2>2. Cardinality(Signalled) \in Nat /\ Cardinality(Signalled) <= NumThreads /\ signals \in Nat
    BY <1>1, ThreadsAreFinite, CountsAssumption DEF Signalled, IInv, TypeOK
  <2>3. Cardinality(Signalled) = NumThreads
    BY <2>1, <2>2, CountsAssumption
  <2>4. Signalled = Threads
    BY <2>3, ThreadsAreFinite DEF Signalled
  <2>5. Stored(t) /\ thr[t].catchup = "sent"
    BY <1>1, <2>4 DEF IInv, ThreadOK, Signalled
  <2> QED BY <2>4, <2>5 DEF Stored, Allowance
<1> QED BY Invariance, <1>1, PTL
=============================================================================
