------------------------- MODULE GroxDispatchProofs -------------------------
(***************************************************************************)
(* Proofs about GroxDispatch, for every value of its constants.            *)
(***************************************************************************)
EXTENDS GroxDispatch, TLAPS, FiniteSetTheorems

\* UNCHANGED of these tuples is UNCHANGED of every variable in them.
USE DEF mainVars, loaderVars, poolVars, fillVars, queueVars, engineVars, history

-----------------------------------------------------------------------------
(* Sequences as sets of entries *)

\* Append adds its entry to the entries of a queue.
LEMMA AppendElems ==
    ASSUME NEW S, NEW q \in Seq(S), NEW e \in S
    PROVE  SeqElems(Append(q, e)) = SeqElems(q) \cup {e}
<1>1. DOMAIN Append(q, e) = DOMAIN q \cup {Len(q) + 1}
  OBVIOUS
<1>2. \A i \in DOMAIN q : Append(q, e)[i] = q[i]
  OBVIOUS
<1>3. Append(q, e)[Len(q) + 1] = e
  OBVIOUS
<1> QED BY <1>1, <1>2, <1>3 DEF SeqElems

\* The entries of a queue are its head and the entries of its tail.
LEMMA TailElems ==
    ASSUME NEW S, NEW q \in Seq(S), q # <<>>
    PROVE  SeqElems(q) = SeqElems(Tail(q)) \cup {Head(q)}
<1>1. \A i \in DOMAIN Tail(q) : i + 1 \in DOMAIN q /\ Tail(q)[i] = q[i + 1]
  OBVIOUS
<1>2. \A i \in DOMAIN q : i = 1 \/ (i - 1 \in DOMAIN Tail(q) /\ q[i] = Tail(q)[i - 1])
  OBVIOUS
<1>3. Head(q) = q[1] /\ 1 \in DOMAIN q
  OBVIOUS
<1>4. SeqElems(q) \subseteq SeqElems(Tail(q)) \cup {Head(q)}
  BY <1>2, <1>3 DEF SeqElems
<1>5. SeqElems(Tail(q)) \cup {Head(q)} \subseteq SeqElems(q)
  BY <1>1, <1>3 DEF SeqElems
<1> QED BY <1>4, <1>5

\* No two entries of a queue share an id: of a queue of tasks, of a queue of
\* results.
UniqueTasks(q) == \A i, j \in DOMAIN q : q[i].id = q[j].id => i = j
UniqueResults(q) == \A i, j \in DOMAIN q : q[i].task.id = q[j].task.id => i = j
ResultIds(results) == {r.task.id : r \in results}

\* Appending a task whose id is new keeps the ids distinct.
LEMMA AppendTask ==
    ASSUME NEW q \in Seq(Task), NEW t \in Task, UniqueTasks(q),
           t.id \notin Ids(SeqElems(q))
    PROVE  /\ UniqueTasks(Append(q, t))
           /\ Ids(SeqElems(Append(q, t))) = Ids(SeqElems(q)) \cup {t.id}
<1>1. \A i \in DOMAIN q : q[i].id # t.id
  BY DEF Ids, SeqElems
<1>2. DOMAIN Append(q, t) = DOMAIN q \cup {Len(q) + 1}
  OBVIOUS
<1>3. \A i \in DOMAIN q : Append(q, t)[i] = q[i]
  OBVIOUS
<1>4. Append(q, t)[Len(q) + 1] = t
  OBVIOUS
<1>5. UniqueTasks(Append(q, t))
  BY <1>1, <1>2, <1>3, <1>4 DEF UniqueTasks
<1>6. Ids(SeqElems(Append(q, t))) = Ids(SeqElems(q)) \cup {t.id}
  BY AppendElems DEF Ids
<1> QED BY <1>5, <1>6

\* Removing the head of a queue of distinct ids removes exactly its id.
LEMMA TailTask ==
    ASSUME NEW q \in Seq(Task), q # <<>>, UniqueTasks(q)
    PROVE  /\ UniqueTasks(Tail(q))
           /\ Head(q) \in Task /\ Head(q) \in SeqElems(q)
           /\ Ids(SeqElems(Tail(q))) = Ids(SeqElems(q)) \ {Head(q).id}
<1>1. \A i \in DOMAIN Tail(q) : i + 1 \in DOMAIN q /\ Tail(q)[i] = q[i + 1] /\ i + 1 # 1
  OBVIOUS
<1>2. Head(q) = q[1] /\ 1 \in DOMAIN q /\ Head(q) \in Task
  OBVIOUS
<1>3. UniqueTasks(Tail(q))
  <2> SUFFICES ASSUME NEW i \in DOMAIN Tail(q), NEW j \in DOMAIN Tail(q),
                      Tail(q)[i].id = Tail(q)[j].id
               PROVE  i = j
    BY DEF UniqueTasks
  <2>1. i + 1 = j + 1
    BY <1>1 DEF UniqueTasks
  <2> QED BY <2>1
<1>4. Head(q).id \notin Ids(SeqElems(Tail(q)))
  BY <1>1, <1>2 DEF UniqueTasks, Ids, SeqElems
<1>5. Ids(SeqElems(q)) = Ids(SeqElems(Tail(q))) \cup {Head(q).id}
  BY TailElems DEF Ids
<1>6. Head(q) \in SeqElems(q)
  BY <1>2 DEF SeqElems
<1> QED BY <1>2, <1>3, <1>4, <1>5, <1>6

\* The same two facts for a queue of results.
LEMMA AppendResult ==
    ASSUME NEW q \in Seq(Result), NEW r \in Result, UniqueResults(q),
           r.task.id \notin ResultIds(SeqElems(q))
    PROVE  /\ UniqueResults(Append(q, r))
           /\ ResultIds(SeqElems(Append(q, r))) = ResultIds(SeqElems(q)) \cup {r.task.id}
<1>1. \A i \in DOMAIN q : q[i].task.id # r.task.id
  BY DEF ResultIds, SeqElems
<1>2. DOMAIN Append(q, r) = DOMAIN q \cup {Len(q) + 1}
  OBVIOUS
<1>3. \A i \in DOMAIN q : Append(q, r)[i] = q[i]
  OBVIOUS
<1>4. Append(q, r)[Len(q) + 1] = r
  OBVIOUS
<1>5. UniqueResults(Append(q, r))
  BY <1>1, <1>2, <1>3, <1>4 DEF UniqueResults
<1>6. ResultIds(SeqElems(Append(q, r))) = ResultIds(SeqElems(q)) \cup {r.task.id}
  BY AppendElems DEF ResultIds
<1> QED BY <1>5, <1>6

LEMMA TailResult ==
    ASSUME NEW q \in Seq(Result), q # <<>>, UniqueResults(q)
    PROVE  /\ UniqueResults(Tail(q))
           /\ Head(q) \in Result /\ Head(q) \in SeqElems(q)
           /\ ResultIds(SeqElems(Tail(q))) = ResultIds(SeqElems(q)) \ {Head(q).task.id}
<1>1. \A i \in DOMAIN Tail(q) : i + 1 \in DOMAIN q /\ Tail(q)[i] = q[i + 1] /\ i + 1 # 1
  OBVIOUS
<1>2. Head(q) = q[1] /\ 1 \in DOMAIN q /\ Head(q) \in Result
  OBVIOUS
<1>3. UniqueResults(Tail(q))
  <2> SUFFICES ASSUME NEW i \in DOMAIN Tail(q), NEW j \in DOMAIN Tail(q),
                      Tail(q)[i].task.id = Tail(q)[j].task.id
               PROVE  i = j
    BY DEF UniqueResults
  <2>1. i + 1 = j + 1
    BY <1>1 DEF UniqueResults
  <2> QED BY <2>1
<1>4. Head(q).task.id \notin ResultIds(SeqElems(Tail(q)))
  BY <1>1, <1>2 DEF UniqueResults, ResultIds, SeqElems
<1>5. ResultIds(SeqElems(q)) = ResultIds(SeqElems(Tail(q))) \cup {Head(q).task.id}
  BY TailElems DEF ResultIds
<1>6. Head(q) \in SeqElems(q)
  BY <1>2 DEF SeqElems
<1> QED BY <1>2, <1>3, <1>4, <1>5, <1>6

-----------------------------------------------------------------------------
(* Types *)

\* The tasks the dispatcher submits.
LEMMA FirstAttemptIsTask ==
    ASSUME NEW p \in Payloads
    PROVE  /\ FirstAttempt(p) \in Task
           /\ FirstAttempt(p).id = p /\ FirstAttempt(p).attempt = 0
BY LimitsAssumption DEF FirstAttempt, Task

LEMMA NextAttemptIsTask ==
    ASSUME NEW t \in Task, t.attempt < MaxAttempts
    PROVE  /\ NextAttempt(t) \in Task
           /\ NextAttempt(t).id = t.id /\ NextAttempt(t).id \in Payloads
           /\ NextAttempt(t).attempt = t.attempt + 1
BY LimitsAssumption DEF NextAttempt, Task

\* The pipeline holds only ids of payloads.
LEMMA PipelineIds ==
    ASSUME TypeOK
    PROVE  InTaskQ \subseteq Payloads /\ InRespQ \subseteq Payloads /\ InEngine \subseteq Payloads
<1> USE DEF TypeOK
<1>1. SeqElems(taskQ) \subseteq Task /\ SeqElems(respQ) \subseteq Result
  BY DEF SeqElems
<1>2. \A t \in Task : t.id \in Payloads
  BY DEF Task
<1>3. \A r \in Result : r.task.id \in Payloads
  BY DEF Result, Task
<1> QED BY <1>1, <1>2, <1>3 DEF InTaskQ, InRespQ, InEngine, Ids

\* Every step keeps the types, and a held payload exactly while one waits.
LEMMA TypeStep == TypeOK /\ HoldingOK /\ [Next]_vars => TypeOK' /\ HoldingOK'
<1> SUFFICES ASSUME TypeOK, HoldingOK, [Next]_vars
             PROVE  TypeOK' /\ HoldingOK'
  OBVIOUS
<1> USE PayloadsAssumption, StreamsAssumption, LimitsAssumption DEF TypeOK, HoldingOK
<1>1. CASE MainNext
  <2>1. CASE Signal \/ SetShutdown \/ JoinDispatcher
    BY <2>1 DEF Signal, SetShutdown, JoinDispatcher
  <2>2. CASE Cleanup
    BY <2>2, PipelineIds DEF Cleanup
  <2> QED BY <1>1, <2>1, <2>2 DEF MainNext
<1>2. CASE LoaderNext
  <2>1. CASE StopGenerators
    BY <2>1 DEF StopGenerators
  <2>2. ASSUME NEW s \in Streams, PrefetchStart(s) PROVE TypeOK' /\ HoldingOK'
    <3>1. OfStream(backlog, s) \subseteq Payloads
      BY DEF OfStream
    <3> QED BY <2>2, <3>1 DEF PrefetchStart
  <2>3. ASSUME NEW s \in Streams, PrefetchEnd(s) \/ PrefetchFails(s) \/ PrefetchCancelled(s)
        PROVE  TypeOK' /\ HoldingOK'
    BY <2>3 DEF PrefetchEnd, PrefetchFails, PrefetchCancelled, OfStream
  <2> QED BY <1>2, <2>1, <2>2, <2>3 DEF LoaderNext
<1>3. CASE FillNext
  <2>0. ASSUME NEW p \in Payloads, SubmitPolled(p)
        PROVE  /\ held' = NoPayload /\ fill' \in {"polling", "done"}
               /\ inFlight' \subseteq Payloads /\ lost' \subseteq Payloads
               /\ taskQ' \in Seq(Task)
    <3>1. FirstAttempt(p) \in Task /\ FirstAttempt(p).id = p
      BY FirstAttemptIsTask
    <3>2. Append(taskQ, FirstAttempt(p)) \in Seq(Task)
      BY <3>1
    <3>3. CASE ManagerUp
      BY <2>0, <3>1, <3>2, <3>3 DEF SubmitPolled, SubmitTask
    <3>4. CASE ~ManagerUp
      BY <2>0, <3>4 DEF SubmitPolled
    <3> QED BY <3>3, <3>4
  <2>1. ASSUME NEW p \in Payloads, PollPayload(p) PROVE TypeOK' /\ HoldingOK'
    <3>1. CASE SubmitPolled(p)
      BY <2>0, <2>1, <3>1 DEF PollPayload
    <3>2. CASE held' = p /\ fill' = "holding" /\ UNCHANGED <<inFlight, taskQ, lost>>
      BY <2>1, <3>2 DEF PollPayload
    <3> QED BY <2>1, <3>1, <3>2 DEF PollPayload
  <2>2. CASE SubmitHeld
    BY <2>0, <2>2 DEF SubmitHeld
  <2>3. ASSUME NEW p \in Payloads, PollRaises(p) PROVE TypeOK' /\ HoldingOK'
    BY <2>3 DEF PollRaises
  <2>4. CASE (\E s \in Streams : ExhaustStream(s)) \/ PollEnds \/ SpinEnds
    BY <2>4 DEF ExhaustStream, PollEnds, SpinEnds
  <2> QED BY <1>3, <2>1, <2>2, <2>3, <2>4 DEF FillNext
<1>4. CASE EngineNext
  <2>1. CASE StartTask
    <3>1. Head(taskQ) \in Task /\ Tail(taskQ) \in Seq(Task)
      BY <2>1 DEF StartTask
    <3>2. [runs EXCEPT ![Head(taskQ).id] = @ + 1] \in [Payloads -> Nat]
      BY <3>1 DEF Task
    <3> QED BY <2>1, <3>1, <3>2 DEF StartTask
  <2>2. ASSUME NEW t \in running, NEW ok \in BOOLEAN, FinishTask(t, ok)
        PROVE  TypeOK' /\ HoldingOK'
    BY <2>2 DEF FinishTask, Result
  <2>3. CASE EngineExits
    BY <2>3, PipelineIds DEF EngineExits
  <2> QED BY <1>4, <2>1, <2>2, <2>3 DEF EngineNext
<1>5. CASE ResultNext
  <2>1. respQ # <<>> => Head(respQ) \in Result /\ Tail(respQ) \in Seq(Result)
    OBVIOUS
  <2>2. CASE HandleSuccess
    BY <2>1, <2>2 DEF HandleSuccess, ResultReady, Ack, Result, Task
  <2>3. CASE HandleFinalFailure
    BY <2>1, <2>3 DEF HandleFinalFailure, ResultReady, Ack, Result, Task
  <2>4. CASE HandleRetry
    <3> DEFINE t == Head(respQ).task
    <3>1. t \in Task /\ t.attempt < MaxAttempts
      BY <2>1, <2>4 DEF HandleRetry, ResultReady, Result
    <3>2. NextAttempt(t) \in Task /\ NextAttempt(t).id \in Payloads
      BY <3>1, NextAttemptIsTask
    <3>3. /\ inFlight' = inFlight \cup {NextAttempt(t).id}
          /\ taskQ' = Append(taskQ, NextAttempt(t))
      BY <2>4 DEF HandleRetry, SubmitTask
    <3> HIDE DEF t
    <3> QED BY <2>1, <2>4, <3>2, <3>3 DEF HandleRetry, ResultReady
  <2>5. CASE ResultLoopEnds
    BY <2>5 DEF ResultLoopEnds
  <2> QED BY <1>5, <2>2, <2>3, <2>4, <2>5 DEF ResultNext
<1>6. CASE UNCHANGED vars
  BY <1>6 DEF vars
<1> QED BY <1>1, <1>2, <1>3, <1>4, <1>5, <1>6 DEF Next

-----------------------------------------------------------------------------
(* The inductive invariant, one lemma per group of actions *)

\* Where the pipeline's variables do not change, neither do the statements
\* about them alone.
LEMMA PipelineUnchanged ==
    ASSUME UNCHANGED <<taskQ, respQ, running>>
    PROVE  /\ InTaskQ' = InTaskQ /\ InRespQ' = InRespQ /\ InEngine' = InEngine
           /\ SingleCopy' = SingleCopy
           /\ UNCHANGED runs => RunsMatchAttempt' = RunsMatchAttempt
BY DEF InTaskQ, InRespQ, InEngine, SingleCopy, RunsMatchAttempt

\* The steps of main that only advance it.
LEMMA MainStep ==
    ASSUME PipelineInv, TypeOK', HoldingOK', Signal \/ SetShutdown \/ JoinDispatcher
    PROVE  PipelineInv'
<1> USE DEF Signal, SetShutdown, JoinDispatcher
<1>1. UNCHANGED <<loaderVars, poolVars, cache, fillVars, inFlight, queueVars,
                  engineVars, looping, history>>
  OBVIOUS
<1>2. (ConnectionShutdown => ConnectionShutdown') /\ (Shutdown => Shutdown')
  BY DEF ConnectionShutdown, Shutdown
<1>3. ManagerUp
  BY DEF ManagerUp
<1>4. StopAfterSignal' /\ SubmittedSafe'
  BY <1>1, <1>2, <1>3 DEF PipelineInv, StopAfterSignal, SubmittedSafe
<1>5. SingleCopy' /\ InFlightTracked' /\ RunsMatchAttempt'
  BY <1>1, PipelineUnchanged DEF PipelineInv, InFlightTracked
<1>6. CacheCovers' /\ Undelivered' /\ ResolvedGone' /\ InFlightBound'
  BY <1>1 DEF PipelineInv, CacheCovers, Held, Undelivered, Fresh, ResolvedGone, InFlightBound
<1> QED BY <1>4, <1>5, <1>6 DEF PipelineInv

\* The prefetchers only move fresh messages, or lose them after the signal; a
\* raising generator loses one.
LEMMA FreshStep ==
    ASSUME PipelineInv, TypeOK', HoldingOK',
           UNCHANGED <<main, cache, held, inFlight, taskQ, running, respQ, resolved, runs,
                       engineUp>>,
           Fresh' \cup (lost' \ lost) \subseteq Fresh,
           lost \subseteq lost', Fresh' \cap lost' = {},
           backlog' \cap fetching' = {}, backlog' \cap loaded' = {}, fetching' \cap loaded' = {},
           StopAfterSignal'
    PROVE  PipelineInv'
<1>1. SingleCopy' /\ RunsMatchAttempt' /\ InTaskQ' = InTaskQ /\ InRespQ' = InRespQ
      /\ InEngine' = InEngine
  BY PipelineUnchanged DEF PipelineInv
<1>2. Fresh \cap inFlight = {} /\ Fresh \cap Held = {}
  BY DEF PipelineInv, Undelivered, CacheCovers
<1>3. InFlightTracked'
  BY <1>1, <1>2 DEF PipelineInv, InFlightTracked
<1>4. CacheCovers' /\ ResolvedGone' /\ InFlightBound'
  BY DEF PipelineInv, CacheCovers, Held, ResolvedGone, InFlightBound
<1>5. Undelivered'
  BY <1>2 DEF PipelineInv, Undelivered, Held
<1>6. SubmittedSafe'
  <2>1. lost' \cap inFlight' = lost \cap inFlight /\ lost' \cap resolved' = {}
    BY <1>2 DEF PipelineInv, SubmittedSafe, Undelivered
  <2>2. Shutdown' = Shutdown /\ ManagerUp' = ManagerUp
    BY DEF Shutdown, ManagerUp
  <2> QED BY <2>1, <2>2 DEF PipelineInv, SubmittedSafe
<1> QED BY <1>1, <1>3, <1>4, <1>5, <1>6 DEF PipelineInv

LEMMA LoaderStep ==
    ASSUME PipelineInv, TypeOK', HoldingOK', LoaderNext
    PROVE  PipelineInv'
<1> USE DEF PipelineInv, TypeOK
<1>0. Fresh \cap lost = {} /\ backlog \cap fetching = {} /\ backlog \cap loaded = {}
      /\ fetching \cap loaded = {}
  BY DEF Undelivered
<1>1. CASE StopGenerators
  <2>1. UNCHANGED <<main, cache, held, inFlight, taskQ, running, respQ, resolved, runs,
                    backlog, fetching, loaded, lost, engineUp>>
    BY <1>1 DEF StopGenerators
  <2>2. Fresh' = Fresh /\ StopAfterSignal'
    BY <1>1 DEF StopGenerators, Fresh, StopAfterSignal, ConnectionShutdown
  <2> QED BY <1>0, <2>1, <2>2, FreshStep
<1>2. ASSUME NEW s \in Streams, PrefetchStart(s) PROVE PipelineInv'
  <2>1. UNCHANGED <<main, cache, held, inFlight, taskQ, running, respQ, resolved, runs,
                    loaded, loaderDown, lost, engineUp>>
    BY <1>2 DEF PrefetchStart
  <2>2. PICK batch \in SUBSET backlog : /\ backlog' = backlog \ batch
                                        /\ fetching' = fetching \cup batch
    BY <1>2 DEF PrefetchStart, OfStream
  <2>3. Fresh' = Fresh /\ StopAfterSignal'
    BY <2>1, <2>2 DEF Fresh, StopAfterSignal, ConnectionShutdown
  <2> QED BY <1>0, <2>1, <2>2, <2>3, FreshStep
<1>3. ASSUME NEW s \in Streams, PrefetchEnd(s) PROVE PipelineInv'
  <2>1. UNCHANGED <<main, cache, held, inFlight, taskQ, running, respQ, resolved, runs,
                    backlog, loaderDown, lost, engineUp>>
    BY <1>3 DEF PrefetchEnd
  <2>2. /\ OfStream(fetching, s) \subseteq fetching
        /\ fetching' = fetching \ OfStream(fetching, s)
        /\ loaded' = loaded \cup OfStream(fetching, s)
    BY <1>3 DEF PrefetchEnd, OfStream
  <2>3. Fresh' = Fresh /\ StopAfterSignal'
    BY <2>1, <2>2 DEF Fresh, StopAfterSignal, ConnectionShutdown
  <2> QED BY <1>0, <2>1, <2>2, <2>3, FreshStep
<1>5. ASSUME NEW s \in Streams, PrefetchFails(s) PROVE PipelineInv'
  <2>1. UNCHANGED <<main, cache, held, inFlight, taskQ, running, respQ, resolved, runs,
                    backlog, loaded, loaderDown, engineUp>>
    BY <1>5 DEF PrefetchFails
  <2>2. /\ OfStream(fetching, s) \subseteq fetching
        /\ fetching' = fetching \ OfStream(fetching, s)
        /\ lost' = lost \cup OfStream(fetching, s)
    BY <1>5 DEF PrefetchFails, OfStream
  <2>3. StopAfterSignal'
    BY <2>1 DEF StopAfterSignal, ConnectionShutdown
  <2>4. /\ Fresh' \cup (lost' \ lost) \subseteq Fresh
        /\ lost \subseteq lost' /\ Fresh' \cap lost' = {}
    BY <1>0, <2>1, <2>2 DEF Fresh
  <2> QED BY <1>0, <2>1, <2>2, <2>3, <2>4, FreshStep
<1>4. ASSUME NEW s \in Streams, PrefetchCancelled(s) PROVE PipelineInv'
  <2>1. UNCHANGED <<main, cache, held, inFlight, taskQ, running, respQ, resolved, runs,
                    backlog, loaded, loaderDown, engineUp>>
    BY <1>4 DEF PrefetchCancelled
  <2>2. /\ OfStream(fetching, s) \subseteq fetching
        /\ fetching' = fetching \ OfStream(fetching, s)
        /\ lost' = lost \cup OfStream(fetching, s)
    BY <1>4 DEF PrefetchCancelled, OfStream
  <2>3. StopAfterSignal'
    BY <2>1 DEF StopAfterSignal, ConnectionShutdown
  <2>4. /\ Fresh' \cup (lost' \ lost) \subseteq Fresh
        /\ lost \subseteq lost' /\ Fresh' \cap lost' = {}
    BY <1>0, <2>1, <2>2 DEF Fresh
  <2> QED BY <1>0, <2>1, <2>2, <2>3, <2>4, FreshStep
<1> QED BY <1>1, <1>2, <1>3, <1>4, <1>5 DEF LoaderNext

\* A payload that was never submitted enters the pipeline once, in a free slot.
LEMMA SubmitStep ==
    ASSUME PipelineInv, NEW p \in Payloads, SubmitPolled(p), RoomInFlight,
           p \notin inFlight \cup resolved \cup lost, runs[p] = 0,
           UNCHANGED <<main, respQ, running, resolved, runs, engineUp>>
    PROVE  /\ SingleCopy' /\ InFlightTracked' /\ RunsMatchAttempt'
           /\ ResolvedGone' /\ InFlightBound' /\ SubmittedSafe'
           /\ inFlight' = inFlight \cup {p} /\ held' = NoPayload
           /\ lost' \subseteq lost \cup {p} /\ lost \subseteq lost'
<1> USE DEF PipelineInv, TypeOK
<1>1. inFlight' = inFlight \cup {p} /\ held' = NoPayload
  BY FirstAttemptIsTask DEF SubmitPolled, SubmitTask
<1>2. ResolvedGone'
  BY <1>1 DEF ResolvedGone
<1>3. InFlightBound'
  <2>1. IsFiniteSet(inFlight)
    BY PayloadsAssumption, FS_Subset
  <2>2. Cardinality(inFlight \cup {p}) = Cardinality(inFlight) + 1
    BY <2>1, FS_AddElement
  <2>3. Cardinality(inFlight) \in Nat
    BY <2>1, FS_CardinalityType
  <2> QED BY <1>1, <2>2, <2>3, LimitsAssumption DEF InFlightBound, RoomInFlight
<1>4. InEngine' = InEngine /\ InRespQ' = InRespQ
  BY DEF InEngine, InRespQ
<1>5. p \notin InTaskQ \cup InEngine \cup InRespQ
  BY DEF InFlightTracked
<1>6. CASE ManagerUp
  <2> DEFINE t == FirstAttempt(p)
  <2>1. t \in Task /\ t.id = p /\ t.attempt = 0
    BY FirstAttemptIsTask
  <2>2. taskQ' = Append(taskQ, t) /\ lost' = lost
    BY <1>6, SubmitPolled(p) DEF SubmitPolled, SubmitTask
  <2>3. UniqueTasks(taskQ) /\ t.id \notin Ids(SeqElems(taskQ))
    BY <1>5, <2>1 DEF SingleCopy, UniqueTasks, InTaskQ
  <2> HIDE DEF t
  <2>4. UniqueTasks(taskQ') /\ InTaskQ' = InTaskQ \cup {p}
    BY <2>1, <2>2, <2>3, AppendTask DEF InTaskQ
  <2>5. SingleCopy'
    BY <1>4, <1>5, <2>4 DEF SingleCopy, UniqueTasks
  <2>6. InFlightTracked'
    BY <1>1, <1>4, <2>2, <2>4 DEF InFlightTracked
  <2>7. SeqElems(taskQ') = SeqElems(taskQ) \cup {t}
    BY <2>1, <2>2, AppendElems
  <2>8. RunsMatchAttempt'
    BY <2>1, <2>7 DEF RunsMatchAttempt
  <2>9. SubmittedSafe'
    BY <1>1, <2>2 DEF SubmittedSafe, Shutdown, ManagerUp
  <2> QED BY <1>1, <1>2, <1>3, <2>2, <2>5, <2>6, <2>8, <2>9
<1>7. CASE ~ManagerUp
  <2>1. taskQ' = taskQ /\ lost' = lost \cup {p}
    BY <1>7 DEF SubmitPolled
  <2>2. SingleCopy' /\ RunsMatchAttempt' /\ InTaskQ' = InTaskQ
    BY <2>1, PipelineUnchanged
  <2>3. InFlightTracked'
    BY <1>1, <1>4, <1>5, <2>1, <2>2 DEF InFlightTracked
  <2>4. SubmittedSafe'
    <3>1. Shutdown' /\ ~ManagerUp' /\ lost' \cap resolved' = {}
      BY <1>7, <2>1 DEF SubmittedSafe, Shutdown, ManagerUp
    <3> QED BY <3>1 DEF SubmittedSafe
  <2> QED BY <1>1, <1>2, <1>3, <2>1, <2>2, <2>3, <2>4
<1> QED BY <1>6, <1>7

LEMMA FillStep ==
    ASSUME PipelineInv, TypeOK', HoldingOK', FillNext
    PROVE  PipelineInv'
<1> USE DEF PipelineInv, TypeOK
<1>1. ASSUME NEW p \in Payloads, PollPayload(p) PROVE PipelineInv'
  <2>1. /\ held = NoPayload /\ Held = {} /\ p \in loaded
        /\ UNCHANGED <<main, backlog, fetching, loaderDown, respQ, running, resolved, runs,
                       engineUp>>
        /\ loaded' = loaded \ {p} /\ cache' = cache \cup {p}
    BY <1>1 DEF PollPayload, HoldingOK, Held
  <2>2. p \notin inFlight \cup resolved \cup lost /\ runs[p] = 0
    BY <2>1 DEF Undelivered, Fresh, CacheCovers
  <2>3. StopAfterSignal'
    BY <2>1 DEF StopAfterSignal, ConnectionShutdown
  <2>4. Fresh' = Fresh \ {p}
    BY <2>1 DEF Fresh, Undelivered
  <2>5. CASE RoomInFlight /\ SubmitPolled(p)
    <3>1. /\ SingleCopy' /\ InFlightTracked' /\ RunsMatchAttempt'
          /\ ResolvedGone' /\ InFlightBound' /\ SubmittedSafe'
          /\ inFlight' = inFlight \cup {p} /\ held' = NoPayload
          /\ lost' \subseteq lost \cup {p}
      BY <2>1, <2>2, <2>5, SubmitStep
    <3>2. CacheCovers'
      BY <2>1, <3>1 DEF CacheCovers, Held
    <3>3. Undelivered'
      BY <2>1, <2>4, <3>1 DEF Undelivered, Held
    <3> QED BY <2>3, <3>1, <3>2, <3>3
  <2>6. CASE /\ ~RoomInFlight /\ held' = p /\ fill' = "holding"
             /\ UNCHANGED <<inFlight, taskQ, lost>>
    <3>1. SingleCopy' /\ RunsMatchAttempt' /\ InFlightTracked'
      BY <2>1, <2>6, PipelineUnchanged DEF InFlightTracked
    <3>2. CacheCovers'
      BY <2>1, <2>6, PayloadsAssumption DEF CacheCovers, Held
    <3>3. Undelivered'
      BY <2>1, <2>2, <2>4, <2>6 DEF Undelivered, Held
    <3>4. ResolvedGone' /\ InFlightBound' /\ SubmittedSafe'
      BY <2>1, <2>6 DEF ResolvedGone, InFlightBound, SubmittedSafe, Shutdown, ManagerUp
    <3> QED BY <2>3, <3>1, <3>2, <3>3, <3>4
  <2> QED BY <1>1, <2>5, <2>6 DEF PollPayload
<1>2. CASE SubmitHeld
  <2>1. /\ held \in Payloads /\ Held = {held}
        /\ UNCHANGED <<main, backlog, fetching, loaded, loaderDown, cache, respQ, running,
                       resolved, runs, engineUp>>
    BY <1>2 DEF SubmitHeld, HoldingOK, Held
  <2>2. held \notin inFlight \cup resolved \cup lost /\ runs[held] = 0
    BY <2>1 DEF Undelivered
  <2>3. /\ SingleCopy' /\ InFlightTracked' /\ RunsMatchAttempt'
        /\ ResolvedGone' /\ InFlightBound' /\ SubmittedSafe'
        /\ inFlight' = inFlight \cup {held} /\ held' = NoPayload
        /\ lost' \subseteq lost \cup {held}
    BY <1>2, <2>1, <2>2, SubmitStep DEF SubmitHeld
  <2>4. CacheCovers'
    BY <2>1, <2>3 DEF CacheCovers, Held
  <2>5. Undelivered'
    BY <2>1, <2>3 DEF Undelivered, Fresh, Held, CacheCovers
  <2>6. StopAfterSignal'
    BY <2>1 DEF StopAfterSignal, ConnectionShutdown
  <2> QED BY <2>3, <2>4, <2>5, <2>6
<1>3. ASSUME NEW p \in Payloads, PollRaises(p) PROVE PipelineInv'
  <2>1. /\ p \in loaded /\ StreamOf[p] \in Faulty
        /\ loaded' = loaded \ {p} /\ lost' = lost \cup {p}
        /\ UNCHANGED <<main, cache, held, inFlight, taskQ, running, respQ, resolved, runs,
                       backlog, fetching, loaderDown, engineUp>>
    BY <1>3 DEF PollRaises
  <2>2. StopAfterSignal'
    BY <2>1 DEF StopAfterSignal, ConnectionShutdown
  <2>3. Fresh' = Fresh \ {p} /\ p \in Fresh
    BY <2>1 DEF Fresh, Undelivered
  <2>4. /\ Fresh' \cup (lost' \ lost) \subseteq Fresh /\ lost \subseteq lost'
        /\ Fresh' \cap lost' = {}
        /\ backlog' \cap fetching' = {} /\ backlog' \cap loaded' = {}
        /\ fetching' \cap loaded' = {}
    BY <2>1, <2>3 DEF Undelivered
  <2> QED BY <2>1, <2>2, <2>4, FreshStep
<1>4. CASE (\E s \in Streams : ExhaustStream(s)) \/ PollEnds \/ SpinEnds
  <2>1. UNCHANGED <<main, cache, held, inFlight, taskQ, running, respQ, resolved, runs,
                    loaderVars, lost, engineUp>>
    BY <1>4 DEF ExhaustStream, PollEnds, SpinEnds
  <2>2. StopAfterSignal' /\ Fresh' = Fresh
    BY <2>1 DEF StopAfterSignal, ConnectionShutdown, Fresh
  <2> QED BY <2>1, <2>2, FreshStep DEF Undelivered
<1> QED BY <1>1, <1>2, <1>3, <1>4 DEF FillNext

\* The engine takes a task, answers it, or exits with what it still runs.
LEMMA EngineStep ==
    ASSUME PipelineInv, TypeOK', HoldingOK', EngineNext
    PROVE  PipelineInv'
<1> USE DEF PipelineInv, TypeOK
<1>0. UNCHANGED <<main, loaderVars, cache, held, inFlight, resolved>>
  BY DEF EngineNext, StartTask, FinishTask, EngineExits
<1>1. CacheCovers' /\ InFlightBound' /\ StopAfterSignal'
  BY <1>0 DEF CacheCovers, Held, InFlightBound, StopAfterSignal, ConnectionShutdown
<1>2. CASE StartTask
  <2> DEFINE t == Head(taskQ)
  <2>1. /\ taskQ # <<>> /\ taskQ' = Tail(taskQ) /\ running' = running \cup {t}
        /\ runs' = [runs EXCEPT ![t.id] = @ + 1]
        /\ UNCHANGED <<respQ, lost, engineUp>>
    BY <1>2 DEF StartTask
  <2>2. UniqueTasks(taskQ)
    BY DEF SingleCopy, UniqueTasks
  <2>3. /\ t \in Task /\ t \in SeqElems(taskQ) /\ UniqueTasks(taskQ')
        /\ InTaskQ' = InTaskQ \ {t.id}
    BY <2>1, <2>2, TailTask DEF InTaskQ
  <2>4. SeqElems(taskQ) = SeqElems(taskQ') \cup {t}
    BY <2>1, TailElems
  <2>5. t.id \in Payloads /\ t.id \in InTaskQ
    BY <2>3 DEF Task, InTaskQ, Ids
  <2> HIDE DEF t
  <2>6. t.id \notin InEngine /\ t.id \notin InRespQ
    BY <2>5 DEF SingleCopy
  <2>7. InEngine' = InEngine \cup {t.id} /\ InRespQ' = InRespQ
    BY <2>1 DEF InEngine, InRespQ, Ids
  <2>8. SingleCopy'
    BY <2>1, <2>3, <2>6, <2>7 DEF SingleCopy, UniqueTasks, InEngine, Ids
  <2>9. InFlightTracked'
    BY <1>0, <2>1, <2>3, <2>5, <2>7 DEF InFlightTracked
  <2>10. t.id \in inFlight /\ t.id \notin lost
    BY <2>5 DEF InFlightTracked
  <2>11. Undelivered'
    BY <1>0, <2>1, <2>10 DEF Undelivered, Fresh, Held, CacheCovers
  <2>12. ResolvedGone'
    BY <1>0, <2>1 DEF ResolvedGone
  <2>13. RunsMatchAttempt'
    <3>1. \A u \in SeqElems(taskQ') : u.id # t.id /\ u.id \in Payloads /\ runs[u.id] = u.attempt
      BY <2>3, <2>4, PipelineIds DEF RunsMatchAttempt, InTaskQ, Ids
    <3>2. \A u \in running : u.id # t.id /\ u.id \in Payloads /\ runs[u.id] = u.attempt + 1
      BY <2>6, PipelineIds DEF RunsMatchAttempt, InEngine, Ids
    <3>3. \A q \in SeqElems(respQ) : /\ q.task.id # t.id /\ q.task.id \in Payloads
                                     /\ runs[q.task.id] = q.task.attempt + 1
      BY <2>6, PipelineIds DEF RunsMatchAttempt, InRespQ
    <3>4. runs[t.id] = t.attempt
      BY <2>3 DEF RunsMatchAttempt
    <3> QED BY <2>1, <2>5, <3>1, <3>2, <3>3, <3>4 DEF RunsMatchAttempt
  <2>14. SubmittedSafe'
    BY <1>0, <2>1 DEF SubmittedSafe, Shutdown, ManagerUp
  <2> QED BY <1>1, <2>8, <2>9, <2>11, <2>12, <2>13, <2>14
<1>3. ASSUME NEW t \in running, NEW ok \in BOOLEAN, FinishTask(t, ok) PROVE PipelineInv'
  <2> DEFINE r == [task |-> t, success |-> ok]
  <2>1. /\ running' = running \ {t} /\ respQ' = Append(respQ, r)
        /\ UNCHANGED <<taskQ, lost, runs, engineUp>>
    BY <1>3 DEF FinishTask
  <2>2. t \in Task /\ r \in Result /\ r.task = t
    BY DEF Result
  <2>3. t.id \in InEngine /\ t.id \notin InRespQ /\ t.id \notin InTaskQ
    BY DEF InEngine, Ids, SingleCopy
  <2> HIDE DEF r
  <2>4. UniqueResults(respQ) /\ r.task.id \notin ResultIds(SeqElems(respQ))
    BY <2>2, <2>3 DEF SingleCopy, UniqueResults, InRespQ, ResultIds
  <2>5. UniqueResults(respQ') /\ InRespQ' = InRespQ \cup {t.id}
    BY <2>1, <2>2, <2>4, AppendResult DEF InRespQ, ResultIds
  <2>6. InEngine' = InEngine \ {t.id} /\ InTaskQ' = InTaskQ
    BY <2>1 DEF InEngine, InTaskQ, Ids, SingleCopy
  <2>7. SingleCopy'
    BY <2>1, <2>3, <2>5, <2>6 DEF SingleCopy, UniqueResults
  <2>8. InFlightTracked'
    BY <1>0, <2>1, <2>3, <2>5, <2>6 DEF InFlightTracked
  <2>9. SeqElems(respQ') = SeqElems(respQ) \cup {r}
    BY <2>1, <2>2, AppendElems
  <2>10. RunsMatchAttempt'
    BY <2>1, <2>2, <2>9 DEF RunsMatchAttempt
  <2>11. Undelivered' /\ ResolvedGone' /\ SubmittedSafe'
    BY <1>0, <2>1 DEF Undelivered, Fresh, Held, ResolvedGone, SubmittedSafe, Shutdown,
                    ManagerUp
  <2> QED BY <1>1, <2>7, <2>8, <2>10, <2>11
<1>4. CASE EngineExits
  <2>1. /\ Shutdown /\ ~engineUp' /\ running' = {} /\ lost' = lost \cup InEngine
        /\ UNCHANGED <<taskQ, respQ, runs>>
    BY <1>4 DEF EngineExits
  <2>2. InEngine' = {} /\ InTaskQ' = InTaskQ /\ InRespQ' = InRespQ
    BY <2>1 DEF InEngine, InTaskQ, InRespQ, Ids
  <2>3. SingleCopy' /\ RunsMatchAttempt'
    BY <2>1, <2>2 DEF SingleCopy, RunsMatchAttempt
  <2>4. InFlightTracked'
    BY <1>0, <2>1, <2>2 DEF InFlightTracked, SingleCopy
  <2>5. InEngine \subseteq inFlight
    BY DEF InFlightTracked
  <2>6. Undelivered' /\ ResolvedGone'
    BY <1>0, <2>1, <2>5 DEF Undelivered, Fresh, Held, ResolvedGone, CacheCovers
  <2>7. SubmittedSafe'
    BY <1>0, <2>1, <2>5 DEF SubmittedSafe, Shutdown, ManagerUp, ResolvedGone
  <2> QED BY <1>1, <2>3, <2>4, <2>6, <2>7
<1> QED BY <1>2, <1>3, <1>4 DEF EngineNext

\* cleanup() loses what both queues hold.
LEMMA CleanupStep ==
    ASSUME PipelineInv, TypeOK', HoldingOK', Cleanup
    PROVE  PipelineInv'
<1> USE DEF PipelineInv, TypeOK
<1>1. /\ main = "joinEngine" /\ main' = "cleaned" /\ taskQ' = <<>> /\ respQ' = <<>>
      /\ lost' = lost \cup InTaskQ \cup InRespQ
      /\ UNCHANGED <<loaderVars, cache, held, inFlight, running, resolved, runs>>
  BY DEF Cleanup
<1>2. InTaskQ' = {} /\ InRespQ' = {} /\ InEngine' = InEngine
  BY <1>1 DEF InTaskQ, InRespQ, InEngine, SeqElems, Ids
<1>3. SingleCopy' /\ RunsMatchAttempt'
  BY <1>1, <1>2 DEF SingleCopy, RunsMatchAttempt, SeqElems
<1>4. InFlightTracked'
  BY <1>1, <1>2 DEF InFlightTracked, SingleCopy
<1>5. InTaskQ \cup InRespQ \subseteq inFlight
  BY DEF InFlightTracked
<1>6. Undelivered' /\ ResolvedGone' /\ CacheCovers' /\ InFlightBound'
  BY <1>1, <1>5 DEF Undelivered, Fresh, Held, ResolvedGone, CacheCovers, InFlightBound
<1>7. SubmittedSafe' /\ StopAfterSignal'
  BY <1>1 DEF SubmittedSafe, StopAfterSignal, Shutdown, ConnectionShutdown, ManagerUp,
              InFlightTracked, ResolvedGone
<1> QED BY <1>3, <1>4, <1>6, <1>7

\* The result loop takes one result: its payload leaves the pipeline resolved,
\* or goes back to the task queue with the next attempt.
LEMMA ResultStep ==
    ASSUME PipelineInv, TypeOK', HoldingOK', ResultNext
    PROVE  PipelineInv'
<1> USE DEF PipelineInv, TypeOK
<1>0. UNCHANGED <<main, loaderVars, held, running, engineUp, runs, lost>>
  BY DEF ResultNext, HandleSuccess, HandleRetry, HandleFinalFailure, ResultLoopEnds
<1>1. StopAfterSignal' /\ InEngine' = InEngine
  BY <1>0 DEF StopAfterSignal, ConnectionShutdown, InEngine
<1>2. CASE ResultLoopEnds
  <2>1. UNCHANGED <<taskQ, respQ, inFlight, cache, resolved>>
    BY <1>2 DEF ResultLoopEnds
  <2>2. SingleCopy' /\ RunsMatchAttempt' /\ InFlightTracked'
    BY <1>0, <2>1, PipelineUnchanged DEF InFlightTracked
  <2>3. Undelivered' /\ ResolvedGone' /\ CacheCovers' /\ InFlightBound' /\ SubmittedSafe'
    BY <1>0, <2>1 DEF Undelivered, Fresh, Held, ResolvedGone, CacheCovers, InFlightBound,
                      SubmittedSafe, Shutdown, ManagerUp
  <2> QED BY <1>1, <2>2, <2>3
<1> DEFINE t == Head(respQ).task
<1>3. ASSUME respQ # <<>>, respQ' = Tail(respQ)
      PROVE  /\ t \in Task /\ t.id \in InRespQ /\ Head(respQ) \in SeqElems(respQ)
             /\ UniqueResults(respQ') /\ InRespQ' = InRespQ \ {t.id}
             /\ SeqElems(respQ') \subseteq SeqElems(respQ)
             /\ runs[t.id] = t.attempt + 1
             /\ t.id \in inFlight /\ t.id \notin lost
  <2>1. UniqueResults(respQ)
    BY DEF SingleCopy, UniqueResults
  <2>2. /\ Head(respQ) \in Result /\ Head(respQ) \in SeqElems(respQ)
        /\ UniqueResults(respQ') /\ InRespQ' = InRespQ \ {t.id}
    BY <1>3, <2>1, TailResult DEF InRespQ, ResultIds
  <2>3. SeqElems(respQ') \subseteq SeqElems(respQ)
    BY <1>3, TailElems
  <2>4. t \in Task /\ t.id \in InRespQ /\ runs[t.id] = t.attempt + 1
    BY <2>2 DEF Result, InRespQ, RunsMatchAttempt
  <2> QED BY <2>2, <2>3, <2>4 DEF InFlightTracked
<1>4. CASE HandleSuccess \/ HandleFinalFailure
  <2>1. /\ respQ # <<>> /\ respQ' = Tail(respQ) /\ taskQ' = taskQ
        /\ inFlight' = inFlight \ {t.id} /\ resolved' = resolved \cup {t.id}
        /\ cache' = cache \ {t.id}
    BY <1>4 DEF HandleSuccess, HandleFinalFailure, ResultReady, Ack
  <2>2. /\ t \in Task /\ t.id \in InRespQ
        /\ UniqueResults(respQ') /\ InRespQ' = InRespQ \ {t.id}
        /\ SeqElems(respQ') \subseteq SeqElems(respQ)
        /\ runs[t.id] = t.attempt + 1 /\ t.id \in inFlight /\ t.id \notin lost
    BY <1>3, <2>1
  <2> HIDE DEF t
  <2>3. InTaskQ' = InTaskQ /\ t.id \notin InTaskQ /\ t.id \notin InEngine
    BY <2>1, <2>2 DEF InTaskQ, SingleCopy
  <2>4. SingleCopy'
    BY <1>0, <1>1, <2>1, <2>2, <2>3 DEF SingleCopy, UniqueResults
  <2>5. InFlightTracked'
    BY <1>0, <1>1, <2>1, <2>2, <2>3 DEF InFlightTracked
  <2>6. t.id \notin Held
    BY <2>2 DEF Undelivered
  <2>7. CacheCovers'
    BY <1>0, <2>1, <2>2, <2>6 DEF CacheCovers, Held
  <2>8. t.id \notin Fresh
    BY <2>2 DEF Undelivered, CacheCovers
  <2>9. Undelivered'
    BY <1>0, <2>1, <2>6, <2>8 DEF Undelivered, Fresh, Held
  <2>10. ResolvedGone'
    BY <1>0, <2>1, <2>2, LimitsAssumption DEF ResolvedGone, Task
  <2>11. RunsMatchAttempt'
    BY <1>0, <2>1, <2>2 DEF RunsMatchAttempt
  <2>12. SubmittedSafe'
    BY <1>0, <2>1, <2>2 DEF SubmittedSafe, Shutdown, ManagerUp
  <2>13. InFlightBound'
    <3>1. IsFiniteSet(inFlight)
      BY PayloadsAssumption, FS_Subset
    <3>2. /\ Cardinality(inFlight) \in Nat /\ Cardinality(inFlight') \in Nat
          /\ Cardinality(inFlight') <= Cardinality(inFlight)
      BY <2>1, <3>1, FS_Subset, FS_CardinalityType
    <3> QED BY <3>2, LimitsAssumption DEF InFlightBound
  <2> QED BY <1>1, <2>4, <2>5, <2>7, <2>9, <2>10, <2>11, <2>12, <2>13
<1>5. CASE HandleRetry
  <2> DEFINE u == NextAttempt(t)
  <2>1. /\ respQ # <<>> /\ respQ' = Tail(respQ) /\ t.attempt < MaxAttempts
        /\ inFlight' = inFlight \cup {u.id} /\ taskQ' = Append(taskQ, u)
        /\ UNCHANGED <<cache, resolved>>
    BY <1>5 DEF HandleRetry, ResultReady, SubmitTask
  <2>2. /\ t \in Task /\ t.id \in InRespQ
        /\ UniqueResults(respQ') /\ InRespQ' = InRespQ \ {t.id}
        /\ SeqElems(respQ') \subseteq SeqElems(respQ)
        /\ runs[t.id] = t.attempt + 1 /\ t.id \in inFlight /\ t.id \notin lost
    BY <1>3, <2>1
  <2>3. u \in Task /\ u.id = t.id /\ u.attempt = t.attempt + 1
    BY <2>1, <2>2, NextAttemptIsTask
  <2> HIDE DEF t, u
  <2>4. inFlight' = inFlight
    BY <2>1, <2>2, <2>3
  <2>5. UniqueTasks(taskQ) /\ u.id \notin Ids(SeqElems(taskQ)) /\ t.id \notin InEngine
    BY <2>2, <2>3 DEF SingleCopy, UniqueTasks, InTaskQ
  <2>6. UniqueTasks(taskQ') /\ InTaskQ' = InTaskQ \cup {t.id}
    BY <2>1, <2>3, <2>5, AppendTask DEF InTaskQ
  <2>7. SingleCopy'
    BY <1>0, <1>1, <2>2, <2>5, <2>6 DEF SingleCopy, UniqueTasks, UniqueResults
  <2>8. InFlightTracked'
    BY <1>0, <1>1, <2>2, <2>4, <2>6 DEF InFlightTracked
  <2>9. SeqElems(taskQ') = SeqElems(taskQ) \cup {u}
    BY <2>1, <2>3, AppendElems
  <2>10. RunsMatchAttempt'
    BY <1>0, <2>2, <2>3, <2>9 DEF RunsMatchAttempt
  <2>11. Undelivered' /\ ResolvedGone' /\ CacheCovers' /\ InFlightBound' /\ SubmittedSafe'
    BY <1>0, <2>1, <2>4 DEF Undelivered, Fresh, Held, ResolvedGone, CacheCovers,
                            InFlightBound, SubmittedSafe, Shutdown, ManagerUp
  <2> QED BY <1>1, <2>7, <2>8, <2>10, <2>11
<1> QED BY <1>2, <1>4, <1>5 DEF ResultNext

LEMMA InitPipeline == Init => PipelineInv
<1> SUFFICES ASSUME Init PROVE PipelineInv
  OBVIOUS
<1> USE PayloadsAssumption, StreamsAssumption, LimitsAssumption DEF Init
<1>1. TypeOK /\ HoldingOK
  BY DEF TypeOK, HoldingOK
<1>2. InTaskQ = {} /\ InRespQ = {} /\ InEngine = {} /\ Held = {}
  BY DEF InTaskQ, InRespQ, InEngine, Ids, SeqElems, Held
<1>3. SingleCopy /\ InFlightTracked /\ CacheCovers /\ RunsMatchAttempt
  BY <1>2 DEF SingleCopy, InFlightTracked, CacheCovers, RunsMatchAttempt, SeqElems
<1>4. Undelivered /\ ResolvedGone /\ StopAfterSignal /\ SubmittedSafe
  BY <1>2 DEF Undelivered, Fresh, ResolvedGone, StopAfterSignal, SubmittedSafe
<1>5. InFlightBound
  BY FS_EmptySet DEF InFlightBound
<1> QED BY <1>1, <1>3, <1>4, <1>5 DEF PipelineInv

LEMMA PipelineStep == PipelineInv /\ [Next]_vars => PipelineInv'
<1> SUFFICES ASSUME PipelineInv, [Next]_vars PROVE PipelineInv'
  OBVIOUS
<1>1. TypeOK' /\ HoldingOK'
  BY TypeStep DEF PipelineInv
<1>2. CASE MainNext
  BY <1>1, <1>2, MainStep, CleanupStep DEF MainNext
<1>3. CASE UNCHANGED vars
  <2>1. SingleCopy' /\ RunsMatchAttempt' /\ InFlightTracked'
    BY <1>3, PipelineUnchanged DEF vars, PipelineInv, InFlightTracked
  <2> QED BY <1>1, <1>3, <2>1 DEF vars, PipelineInv, CacheCovers, Held, Undelivered, Fresh,
             ResolvedGone, InFlightBound, StopAfterSignal, SubmittedSafe,
             ConnectionShutdown, Shutdown, ManagerUp
<1> QED BY <1>1, <1>2, <1>3, LoaderStep, FillStep, EngineStep, ResultStep DEF Next

-----------------------------------------------------------------------------
(* What the loaders drop *)

\* A bigger multiple, and one that is bigger by a whole factor.
LEMMA Multiples ==
    ASSUME NEW k \in Nat, NEW m \in Nat, NEW n \in Nat
    PROVE  /\ k * m \in Nat
           /\ m <= n => k * m <= k * n
           /\ m < n => k * m + k <= k * n
<1>1. k * m \in Nat /\ k * n \in Nat
  OBVIOUS
<1>2. ASSUME m <= n PROVE k * m <= k * n
  <2>1. PICK d \in Nat : n = m + d
    <3>1. n - m \in Nat /\ n = m + (n - m)
      BY <1>2
    <3> QED BY <3>1
  <2>2. k * n = k * m + k * d /\ k * d \in Nat
    BY <2>1
  <2> QED BY <1>1, <2>2
<1>3. ASSUME m < n PROVE k * m + k <= k * n
  <2>1. PICK d \in Nat : n = m + 1 + d
    <3>1. n - m - 1 \in Nat /\ n = m + 1 + (n - m - 1)
      BY <1>3
    <3> QED BY <3>1
  <2>2. k * n = k * m + k + k * d /\ k * d \in Nat
    BY <2>1
  <2> QED BY <1>1, <2>2
<1> QED BY <1>1, <1>2, <1>3

\* The batches a stream may drop.
Batches(s) == Cardinality(OfStream(LostUnsubmitted \cap Malformed, s)) + OneIf(s \in loaderDown)

\* What the loaders' invariant counts is finite.
LEMMA CountsAreNat ==
    ASSUME TypeOK, NEW s
    PROVE  /\ IsFiniteSet(AtRisk(s)) /\ Cardinality(AtRisk(s)) \in Nat
           /\ IsFiniteSet(OfStream(LostUnsubmitted \cap Malformed, s))
           /\ Batches(s) \in Nat /\ OneIf(s \in dead) \in 0..1
           /\ Allowance(s) = PrefetchBatch * Batches(s) + OneIf(s \in dead)
           /\ Allowance(s) \in Nat
<1>1. /\ AtRisk(s) \subseteq Payloads
      /\ OfStream(LostUnsubmitted \cap Malformed, s) \subseteq Payloads
  BY DEF AtRisk, Dropped, Stranded, LostUnsubmitted, OfStream, TypeOK
<1>2. /\ IsFiniteSet(AtRisk(s)) /\ IsFiniteSet(OfStream(LostUnsubmitted \cap Malformed, s))
  BY <1>1, PayloadsAssumption, FS_Subset
<1>3. /\ Cardinality(AtRisk(s)) \in Nat
      /\ Cardinality(OfStream(LostUnsubmitted \cap Malformed, s)) \in Nat
  BY <1>2, FS_CardinalityType
<1>4. OneIf(s \in loaderDown) \in 0..1 /\ OneIf(s \in dead) \in 0..1
  BY DEF OneIf
<1>5. Batches(s) \in Nat
  BY <1>3, <1>4 DEF Batches
<1>6. Allowance(s) = PrefetchBatch * Batches(s) + OneIf(s \in dead)
  BY DEF Allowance, Batches
<1>7. PrefetchBatch * Batches(s) \in Nat
  BY <1>5, LimitsAssumption, Multiples
<1> QED BY <1>2, <1>3, <1>4, <1>5, <1>6, <1>7

\* What is dropped is at risk, so it is within the allowance.
LEMMA WithinAllowance ==
    ASSUME TypeOK, LoadersOK
    PROVE  \A s \in Streams : Cardinality(Dropped(s)) <= Allowance(s)
<1> TAKE s \in Streams
<1>1. Dropped(s) \subseteq AtRisk(s)
  BY DEF AtRisk
<1>2. /\ IsFiniteSet(AtRisk(s)) /\ Cardinality(AtRisk(s)) \in Nat /\ Allowance(s) \in Nat
  BY CountsAreNat
<1>3. /\ Cardinality(Dropped(s)) <= Cardinality(AtRisk(s))
      /\ Cardinality(Dropped(s)) \in Nat
  BY <1>1, <1>2, FS_Subset, FS_CardinalityType
<1>4. Cardinality(AtRisk(s)) <= Allowance(s)
  BY DEF LoadersOK
<1> HIDE DEF Dropped, AtRisk, Allowance
<1> QED BY <1>2, <1>3, <1>4

\* The allowance is kept when nothing more is at risk ...
LEMMA RiskKept ==
    ASSUME TypeOK, TypeOK', NEW s \in Streams, Cardinality(AtRisk(s)) <= Allowance(s),
           AtRisk(s)' \subseteq AtRisk(s),
           LostUnsubmitted \subseteq LostUnsubmitted',
           loaderDown \subseteq loaderDown', dead \subseteq dead'
    PROVE  Cardinality(AtRisk(s))' <= Allowance(s)'
<1>1. /\ Cardinality(AtRisk(s)') <= Cardinality(AtRisk(s))
      /\ Cardinality(AtRisk(s)) \in Nat /\ Cardinality(AtRisk(s)') \in Nat
  BY CountsAreNat, FS_Subset, FS_CardinalityType
<1>2. /\ IsFiniteSet(OfStream(LostUnsubmitted \cap Malformed, s)')
      /\ OfStream(LostUnsubmitted \cap Malformed, s)
           \subseteq OfStream(LostUnsubmitted \cap Malformed, s)'
  <2>1. IsFiniteSet(OfStream(LostUnsubmitted \cap Malformed, s)')
    <3>1. OfStream(LostUnsubmitted \cap Malformed, s)' \subseteq Payloads
      BY DEF OfStream, LostUnsubmitted, TypeOK
    <3> QED BY <3>1, PayloadsAssumption, FS_Subset
  <2> QED BY <2>1 DEF OfStream
<1>3. /\ Cardinality(OfStream(LostUnsubmitted \cap Malformed, s))
            <= Cardinality(OfStream(LostUnsubmitted \cap Malformed, s)')
      /\ Cardinality(OfStream(LostUnsubmitted \cap Malformed, s)) \in Nat
      /\ Cardinality(OfStream(LostUnsubmitted \cap Malformed, s)') \in Nat
  BY <1>2, CountsAreNat, FS_Subset, FS_CardinalityType
<1>4. /\ OneIf(s \in loaderDown) <= OneIf(s \in loaderDown)'
      /\ OneIf(s \in dead) <= OneIf(s \in dead)'
      /\ OneIf(s \in loaderDown) \in 0..1 /\ OneIf(s \in loaderDown)' \in 0..1
      /\ OneIf(s \in dead) \in 0..1 /\ OneIf(s \in dead)' \in 0..1
  BY DEF OneIf
<1>5. Batches(s) \in Nat /\ Batches(s)' \in Nat /\ Batches(s) <= Batches(s)'
  BY <1>3, <1>4 DEF Batches
<1>6. /\ Allowance(s) = PrefetchBatch * Batches(s) + OneIf(s \in dead)
      /\ Allowance(s)' = PrefetchBatch * Batches(s)' + OneIf(s \in dead)'
  BY DEF Allowance, Batches
<1>7. /\ PrefetchBatch * Batches(s) <= PrefetchBatch * Batches(s)'
      /\ PrefetchBatch * Batches(s) \in Nat /\ PrefetchBatch * Batches(s)' \in Nat
  BY <1>5, LimitsAssumption, Multiples
<1>8. Allowance(s) <= Allowance(s)' /\ Allowance(s) \in Nat /\ Allowance(s)' \in Nat
  BY <1>4, <1>6, <1>7
<1> HIDE DEF AtRisk, Allowance
<1> QED BY <1>1, <1>8

\* ... and when a batch more is at risk and one more batch is allowed.
LEMMA RiskOfBatch ==
    ASSUME TypeOK, TypeOK', NEW s \in Streams, Cardinality(AtRisk(s)) <= Allowance(s),
           NEW B, IsFiniteSet(B), Cardinality(B) <= PrefetchBatch,
           AtRisk(s)' \subseteq AtRisk(s) \cup B,
           Batches(s) < Batches(s)', dead' = dead
    PROVE  Cardinality(AtRisk(s))' <= Allowance(s)'
<1>1. /\ IsFiniteSet(AtRisk(s)) /\ Cardinality(AtRisk(s)) \in Nat /\ Cardinality(B) \in Nat
      /\ Batches(s) \in Nat
      /\ OneIf(s \in dead) \in 0..1
      /\ Allowance(s) = PrefetchBatch * Batches(s) + OneIf(s \in dead)
  BY CountsAreNat, FS_CardinalityType
<1>2. /\ IsFiniteSet(AtRisk(s) \cup B)
      /\ Cardinality(AtRisk(s) \cup B) <= Cardinality(AtRisk(s)) + Cardinality(B)
      /\ Cardinality(AtRisk(s) \cup B) \in Nat
  <2>1. IsFiniteSet(AtRisk(s) \cup B) /\ IsFiniteSet(AtRisk(s) \cap B)
    BY <1>1, FS_Union, FS_Subset
  <2>2. Cardinality(AtRisk(s) \cup B)
          = Cardinality(AtRisk(s)) + Cardinality(B) - Cardinality(AtRisk(s) \cap B)
    BY <1>1, FS_Union
  <2>3. Cardinality(AtRisk(s) \cap B) \in Nat /\ Cardinality(AtRisk(s) \cup B) \in Nat
    BY <2>1, FS_CardinalityType
  <2> HIDE DEF AtRisk
  <2> QED BY <1>1, <2>1, <2>2, <2>3
<1>3. /\ Cardinality(AtRisk(s)') <= Cardinality(AtRisk(s) \cup B)
      /\ Cardinality(AtRisk(s)') \in Nat
  BY <1>2, FS_Subset, FS_CardinalityType
<1>4. Batches(s)' \in Nat
  <2>1. OfStream(LostUnsubmitted \cap Malformed, s)' \subseteq Payloads
    BY DEF OfStream, LostUnsubmitted, TypeOK
  <2>2. Cardinality(OfStream(LostUnsubmitted \cap Malformed, s)') \in Nat
    BY <2>1, PayloadsAssumption, FS_Subset, FS_CardinalityType
  <2>3. OneIf(s \in loaderDown)' \in 0..1
    BY DEF OneIf
  <2> QED BY <2>2, <2>3 DEF Batches
<1>5. Allowance(s)' = PrefetchBatch * Batches(s)' + OneIf(s \in dead)
  BY DEF Allowance, Batches
<1>6. /\ PrefetchBatch * Batches(s) + PrefetchBatch <= PrefetchBatch * Batches(s)'
      /\ PrefetchBatch * Batches(s) \in Nat /\ PrefetchBatch * Batches(s)' \in Nat
  BY <1>1, <1>4, LimitsAssumption, Multiples
<1> HIDE DEF AtRisk, Allowance, Batches
<1> QED BY <1>1, <1>2, <1>3, <1>5, <1>6, LimitsAssumption


\* Initially nothing is at risk.
LEMMA InitLoaders == Init => LoadersOK
<1> SUFFICES ASSUME Init PROVE LoadersOK
  OBVIOUS
<1> USE DEF Init
<1>0. TypeOK
  BY InitPipeline DEF PipelineInv
<1>1. \A s \in Streams : OfStream(fetching, s) = {} /\ AtRisk(s) = {}
  BY DEF OfStream, AtRisk, Dropped, Stranded, LostUnsubmitted
<1>2. \A s \in Streams : 0 <= PrefetchBatch /\ 0 <= Allowance(s)
  BY <1>0, CountsAreNat, LimitsAssumption
<1> QED BY <1>1, <1>2, FS_EmptySet DEF LoadersOK

\* A step that leaves the loaders and what is lost before submission alone.
LEMMA LoadersKept ==
    ASSUME TypeOK, TypeOK', LoadersOK,
           LostUnsubmitted' = LostUnsubmitted, UNCHANGED <<fetching, loaderDown, dead>>,
           Streams \ (weights' \cup dead) \subseteq loaderDown,
           \A s \in Streams : Stranded(s)' \subseteq Stranded(s)
    PROVE  LoadersOK'
<1>1. \A s \in Streams : OfStream(fetching, s)' = OfStream(fetching, s)
  BY DEF OfStream
<1>2. ASSUME NEW s \in Streams PROVE Cardinality(AtRisk(s))' <= Allowance(s)'
  <2>1. AtRisk(s)' \subseteq AtRisk(s)
    BY DEF AtRisk, Dropped, OfStream
  <2>2. Cardinality(AtRisk(s)) <= Allowance(s)
    BY DEF LoadersOK
  <2> QED BY <2>1, <2>2, RiskKept
<1> QED BY <1>1, <1>2 DEF LoadersOK

\* No step takes a stream, a message or a batch out of the account.
LEMMA LoadersStep == IInv /\ [Next]_vars /\ PipelineInv' => LoadersOK'
<1> SUFFICES ASSUME IInv, [Next]_vars, PipelineInv' PROVE LoadersOK'
  OBVIOUS
<1>0. /\ TypeOK /\ TypeOK' /\ LoadersOK /\ PipelineInv
      /\ \A s \in Streams : Cardinality(AtRisk(s)) <= Allowance(s)
  BY DEF IInv, PipelineInv, LoadersOK
<1>p. InTaskQ \cup InEngine \cup InRespQ \subseteq inFlight \ lost
  BY <1>0 DEF PipelineInv, InFlightTracked
<1>1. ASSUME NEW s \in Streams, PrefetchStart(s) PROVE LoadersOK'
  <2>1. PICK batch \in SUBSET OfStream(backlog, s) :
           /\ Cardinality(batch) <= PrefetchBatch /\ fetching' = fetching \cup batch
    BY <1>1 DEF PrefetchStart
  <2>2. /\ OfStream(fetching, s) = {} /\ loaderDown = {}
        /\ UNCHANGED <<loaded, loaderDown, dead, weights, lost, inFlight>>
    BY <1>0, <1>1 DEF PrefetchStart, TypeOK
  <2>3. ASSUME NEW r \in Streams
        PROVE  /\ Cardinality(OfStream(fetching, r))' <= PrefetchBatch
               /\ Cardinality(AtRisk(r))' <= Allowance(r)'
    <3>1. OfStream(fetching, r)' = IF r = s THEN batch ELSE OfStream(fetching, r)
      BY <2>1, <2>2 DEF OfStream
    <3>2. Cardinality(OfStream(fetching, r))' <= PrefetchBatch
      BY <1>0, <2>1, <3>1 DEF LoadersOK
    <3>3. AtRisk(r)' \subseteq AtRisk(r)
      BY <2>2 DEF AtRisk, Dropped, Stranded, LostUnsubmitted, OfStream
    <3>4. LostUnsubmitted \subseteq LostUnsubmitted'
      BY <2>2 DEF LostUnsubmitted
    <3> QED BY <1>0, <2>2, <3>2, <3>3, <3>4, RiskKept
  <2> QED BY <1>0, <2>2, <2>3 DEF LoadersOK
<1>2. ASSUME NEW s \in Streams, PrefetchEnd(s) \/ PrefetchCancelled(s) PROVE LoadersOK'
  <2>1. /\ fetching' = fetching \ OfStream(fetching, s)
        /\ UNCHANGED <<loaderDown, dead, weights, inFlight>>
        /\ \/ loaded' = loaded \cup OfStream(fetching, s) /\ lost' = lost
           \/ loaded' = loaded /\ lost' = lost \cup OfStream(fetching, s) /\ s \in loaderDown
    BY <1>2 DEF PrefetchEnd, PrefetchCancelled
  <2>2. ASSUME NEW r \in Streams
        PROVE  /\ Cardinality(OfStream(fetching, r))' <= PrefetchBatch
               /\ Cardinality(AtRisk(r))' <= Allowance(r)'
    <3>1. OfStream(fetching, r)' = IF r = s THEN {} ELSE OfStream(fetching, r)
      BY <2>1 DEF OfStream
    <3>2. Cardinality(OfStream(fetching, r))' <= PrefetchBatch
      BY <1>0, <3>1, FS_EmptySet, LimitsAssumption DEF LoadersOK
    <3>3. AtRisk(r)' \subseteq AtRisk(r)
      <4>1. CASE r = s
        <5>1. s \in weights \cup dead \/ s \in loaderDown
          BY <1>0 DEF LoadersOK
        <5> QED BY <2>1, <4>1, <5>1
                DEF AtRisk, Dropped, Stranded, LostUnsubmitted, OfStream
      <4>2. CASE r # s
        BY <2>1, <4>2 DEF AtRisk, Dropped, Stranded, LostUnsubmitted, OfStream
      <4> QED BY <4>1, <4>2
    <3>4. LostUnsubmitted \subseteq LostUnsubmitted'
      BY <2>1 DEF LostUnsubmitted
    <3> QED BY <1>0, <2>1, <3>2, <3>3, <3>4, RiskKept
  <2> QED BY <1>0, <2>1, <2>2 DEF LoadersOK
<1>3. ASSUME NEW s \in Streams, PrefetchFails(s) PROVE LoadersOK'
  <2> DEFINE B == OfStream(fetching, s)
  <2>1. /\ fetching' = fetching \ B /\ lost' = lost \cup B /\ B \cap Malformed # {}
        /\ UNCHANGED <<loaderDown, dead, weights, inFlight, loaded>>
    BY <1>3 DEF PrefetchFails
  <2>2. B \subseteq fetching /\ \A p \in B : StreamOf[p] = s
    BY DEF OfStream
  <2>3. B \cap lost = {} /\ B \cap inFlight = {} /\ B \subseteq Payloads
    BY <1>0, <2>2 DEF PipelineInv, Undelivered, Fresh, CacheCovers, TypeOK
  <2>4. IsFiniteSet(B) /\ Cardinality(B) <= PrefetchBatch
    BY <1>0, <2>3, PayloadsAssumption, FS_Subset DEF LoadersOK
  <2>5. LostUnsubmitted' = LostUnsubmitted \cup B
    BY <2>1, <2>3 DEF LostUnsubmitted
  <2>6. ASSUME NEW r \in Streams
        PROVE  /\ Cardinality(OfStream(fetching, r))' <= PrefetchBatch
               /\ Cardinality(AtRisk(r))' <= Allowance(r)'
    <3>1. OfStream(fetching, r)' = IF r = s THEN {} ELSE OfStream(fetching, r)
      BY <2>1 DEF OfStream
    <3>2. Cardinality(OfStream(fetching, r))' <= PrefetchBatch
      BY <1>0, <3>1, FS_EmptySet, LimitsAssumption DEF LoadersOK
    <3>3. CASE r # s
      <4>1. AtRisk(r)' \subseteq AtRisk(r)
        BY <2>1, <2>2, <2>5, <3>1, <3>3 DEF AtRisk, Dropped, Stranded, OfStream
      <4> QED BY <1>0, <2>1, <2>5, <3>2, <4>1, RiskKept
    <3>4. CASE r = s
      <4>1. AtRisk(s)' \subseteq AtRisk(s) \cup B
        BY <2>1, <2>5 DEF AtRisk, Dropped, Stranded, OfStream
      <4> DEFINE D == OfStream(LostUnsubmitted \cap Malformed, s)
      <4>2. D' = D \cup (B \cap Malformed) /\ D \cap B = {}
        BY <2>2, <2>3, <2>5 DEF OfStream, LostUnsubmitted
      <4>3. IsFiniteSet(D) /\ IsFiniteSet(D') /\ Cardinality(D) \in Nat /\ Cardinality(D') \in Nat
        <5>1. IsFiniteSet(D) /\ IsFiniteSet(B \cap Malformed)
          BY <1>0, <2>4, CountsAreNat, FS_Subset
        <5>2. IsFiniteSet(D')
          BY <4>2, <5>1, FS_Union
        <5> QED BY <5>1, <5>2, FS_CardinalityType
      <4>4. Cardinality(D) <= Cardinality(D') /\ Cardinality(D) # Cardinality(D')
        BY <2>1, <4>2, <4>3, FS_Subset
      <4>5. OneIf(s \in loaderDown)' = OneIf(s \in loaderDown) /\ OneIf(s \in loaderDown) \in 0..1
        BY <2>1 DEF OneIf
      <4>6. /\ Batches(s) = Cardinality(D) + OneIf(s \in loaderDown)
            /\ Batches(s)' = Cardinality(D') + OneIf(s \in loaderDown)'
        BY DEF Batches
      <4> HIDE DEF B, D
      <4>7. Batches(s) < Batches(s)'
        BY <4>3, <4>4, <4>5, <4>6
      <4>8. Cardinality(AtRisk(s))' <= Allowance(s)'
        BY <1>0, <2>1, <2>4, <4>1, <4>7, RiskOfBatch
      <4> QED BY <3>2, <3>4, <4>8
    <3> QED BY <3>3, <3>4
  <2> QED BY <1>0, <2>1, <2>6 DEF LoadersOK
<1>4. CASE StopGenerators
  <2>1. /\ loaderDown = {} /\ loaderDown' = Streams
        /\ UNCHANGED <<fetching, dead, weights, inFlight, loaded, lost>>
    BY <1>4 DEF StopGenerators
  <2>2. ASSUME NEW s \in Streams
        PROVE  /\ Cardinality(OfStream(fetching, s))' <= PrefetchBatch
               /\ Cardinality(AtRisk(s))' <= Allowance(s)'
    <3> DEFINE B == OfStream(fetching, s)
    <3>1. B' = B /\ B \subseteq Payloads /\ Cardinality(B) <= PrefetchBatch
      BY <1>0, <2>1 DEF OfStream, TypeOK, LoadersOK
    <3>2. IsFiniteSet(B)
      BY <3>1, PayloadsAssumption, FS_Subset
    <3>3. AtRisk(s)' \subseteq AtRisk(s) \cup B
      BY <2>1 DEF AtRisk, Dropped, Stranded, OfStream, LostUnsubmitted
    <3> DEFINE c == Cardinality(OfStream(LostUnsubmitted \cap Malformed, s))
    <3>4. c' = c /\ c \in Nat
      BY <1>0, <2>1, CountsAreNat, FS_CardinalityType DEF OfStream, LostUnsubmitted
    <3>5. Batches(s) = c + 0 /\ Batches(s)' = c' + 1
      BY <2>1 DEF Batches, OneIf
    <3> HIDE DEF c, B
    <3>6. Batches(s) < Batches(s)'
      BY <3>4, <3>5
    <3>7. Cardinality(AtRisk(s))' <= Allowance(s)'
      BY <1>0, <2>1, <3>1, <3>2, <3>3, <3>6, RiskOfBatch
    <3> QED BY <3>1, <3>7 DEF B
  <2> QED BY <2>1, <2>2 DEF LoadersOK
<1>5. ASSUME NEW p \in Payloads, PollRaises(p) PROVE LoadersOK'
  <2> DEFINE s == StreamOf[p]
  <2>1. /\ p \in loaded /\ s \in weights /\ s \notin dead /\ s \in Streams
        /\ loaded' = loaded \ {p} /\ dead' = dead \cup {s} /\ lost' = lost \cup {p}
        /\ UNCHANGED <<fetching, weights, loaderDown, inFlight>>
    BY <1>5, StreamsAssumption DEF PollRaises
  <2>2. p \notin lost /\ p \notin inFlight
    BY <1>0, <2>1 DEF PipelineInv, Undelivered, Fresh, CacheCovers
  <2>3. LostUnsubmitted' = LostUnsubmitted \cup {p}
    BY <2>1, <2>2 DEF LostUnsubmitted
  <2>4. ASSUME NEW r \in Streams
        PROVE  /\ OfStream(fetching, r)' = OfStream(fetching, r)
               /\ Cardinality(AtRisk(r))' <= Allowance(r)'
    <3>1. OfStream(fetching, r)' = OfStream(fetching, r)
      BY <2>1 DEF OfStream
    <3>2. CASE r # s
      <4>1. AtRisk(r)' \subseteq AtRisk(r)
        BY <2>1, <2>3, <3>2 DEF AtRisk, Dropped, Stranded, OfStream
      <4> QED BY <1>0, <2>1, <2>3, <3>1, <4>1, RiskKept
    <3>3. CASE r = s
      <4> USE <3>3
      <4>1. AtRisk(r)' \subseteq AtRisk(r) \cup {p}
        BY <2>1, <2>3 DEF AtRisk, Dropped, Stranded, OfStream
      <4>2. /\ IsFiniteSet(AtRisk(r)) /\ Cardinality(AtRisk(r)) \in Nat
            /\ Cardinality(AtRisk(r)) <= Allowance(r)
        BY <1>0, CountsAreNat
      <4>3. /\ IsFiniteSet(AtRisk(r) \cup {p})
            /\ Cardinality(AtRisk(r) \cup {p}) \in Nat
            /\ Cardinality(AtRisk(r) \cup {p}) <= Cardinality(AtRisk(r)) + 1
        <5>1. /\ IsFiniteSet(AtRisk(r) \cup {p})
              /\ \/ Cardinality(AtRisk(r) \cup {p}) = Cardinality(AtRisk(r)) + 1
                 \/ AtRisk(r) \cup {p} = AtRisk(r)
          BY <4>2, FS_AddElement
        <5> HIDE DEF s
        <5>2. Cardinality(AtRisk(r) \cup {p}) \in Nat
          BY <5>1, FS_CardinalityType
        <5>3. Cardinality(AtRisk(r) \cup {p}) <= Cardinality(AtRisk(r)) + 1
          <6> DEFINE a == Cardinality(AtRisk(r))
                     u == Cardinality(AtRisk(r) \cup {p})
          <6>1. a \in Nat /\ (u = a + 1 \/ u = a)
            BY <4>2, <5>1
          <6>2. u <= a + 1
            <7> HIDE DEF a, u
            <7> QED BY <6>1
          <6> QED BY <6>2
        <5> QED BY <5>1, <5>2, <5>3
      <4>4. /\ Cardinality(AtRisk(r)') <= Cardinality(AtRisk(r) \cup {p})
            /\ Cardinality(AtRisk(r)') \in Nat
        BY <4>1, <4>3, FS_Subset, FS_CardinalityType
      <4> DEFINE D == OfStream(LostUnsubmitted \cap Malformed, r)
      <4>5. IsFiniteSet(D') /\ D \subseteq D'
        <5>1. D' \subseteq Payloads
          BY <1>0 DEF OfStream, LostUnsubmitted, TypeOK
        <5> QED BY <2>3, <5>1, PayloadsAssumption, FS_Subset DEF OfStream
      <4>6. Cardinality(D) \in Nat /\ Cardinality(D') \in Nat /\ Cardinality(D) <= Cardinality(D')
        BY <4>5, FS_Subset, FS_CardinalityType
      <4>7. /\ OneIf(r \in loaderDown)' = OneIf(r \in loaderDown)
            /\ OneIf(r \in loaderDown) \in 0..1
            /\ OneIf(r \in dead) = 0 /\ OneIf(r \in dead)' = 1
        BY <2>1 DEF OneIf
      <4>8. /\ Batches(r) = Cardinality(D) + OneIf(r \in loaderDown)
            /\ Batches(r)' = Cardinality(D') + OneIf(r \in loaderDown)'
        BY DEF Batches
      <4>9. /\ Allowance(r) = PrefetchBatch * Batches(r) + OneIf(r \in dead)
            /\ Allowance(r)' = PrefetchBatch * Batches(r)' + OneIf(r \in dead)'
        BY DEF Allowance, Batches
      <4> HIDE DEF D, s
      <4>10. Batches(r) \in Nat /\ Batches(r)' \in Nat /\ Batches(r) <= Batches(r)'
        BY <4>6, <4>7, <4>8
      <4>11. /\ PrefetchBatch * Batches(r) <= PrefetchBatch * Batches(r)'
             /\ PrefetchBatch * Batches(r) \in Nat /\ PrefetchBatch * Batches(r)' \in Nat
        BY <4>10, LimitsAssumption, Multiples
      <4>12. Allowance(r) + 1 <= Allowance(r)' /\ Allowance(r) \in Nat /\ Allowance(r)' \in Nat
        BY <4>7, <4>9, <4>11
      <4> HIDE DEF AtRisk, Allowance
      <4> QED BY <3>1, <4>2, <4>3, <4>4, <4>12
    <3> QED BY <3>2, <3>3
  <2> QED BY <1>0, <2>1, <2>4 DEF LoadersOK
<1>6. ASSUME NEW s \in Streams, ExhaustStream(s) PROVE LoadersOK'
  <2>1. /\ weights' = weights \ {s} /\ (s \in dead \/ (s \in loaderDown /\ OfStream(loaded, s) = {}))
        /\ UNCHANGED <<fetching, dead, loaderDown, inFlight, loaded, lost>>
    BY <1>6 DEF ExhaustStream
  <2>2. LostUnsubmitted' = LostUnsubmitted
    BY <2>1 DEF LostUnsubmitted
  <2>3. \A r \in Streams : Stranded(r)' \subseteq Stranded(r)
    BY <2>1 DEF Stranded, OfStream
  <2>4. Streams \ (weights' \cup dead) \subseteq loaderDown
    BY <1>0, <2>1 DEF LoadersOK
  <2> QED BY <1>0, <2>1, <2>2, <2>3, <2>4, LoadersKept
<1>7. ASSUME NEW p \in Payloads, PollPayload(p) PROVE LoadersOK'
  <2>1. /\ loaded' = loaded \ {p} /\ UNCHANGED <<fetching, dead, weights, loaderDown>>
        /\ SubmitPolled(p) \/ UNCHANGED <<inFlight, lost>>
    BY <1>7 DEF PollPayload
  <2>2. p \notin lost /\ p \notin inFlight
    BY <1>0, <1>7 DEF PollPayload, PipelineInv, Undelivered, Fresh, CacheCovers
  <2>3. LostUnsubmitted' = LostUnsubmitted
    BY <2>1, <2>2, FirstAttemptIsTask DEF LostUnsubmitted, SubmitPolled, SubmitTask
  <2>4. \A r \in Streams : Stranded(r)' \subseteq Stranded(r)
    BY <2>1 DEF Stranded, OfStream
  <2> QED BY <1>0, <2>1, <2>3, <2>4, LoadersKept DEF LoadersOK
<1>8. ASSUME UNCHANGED <<loaded, fetching, dead, weights, loaderDown>>,
             LostUnsubmitted' = LostUnsubmitted
      PROVE  LoadersOK'
  <2>1. \A r \in Streams : Stranded(r)' \subseteq Stranded(r)
    BY <1>8 DEF Stranded
  <2> QED BY <1>0, <1>8, <2>1, LoadersKept DEF LoadersOK
<1>9. CASE SubmitHeld
  <2>1. held \in Payloads /\ held \notin lost /\ held \notin inFlight
    BY <1>0, <1>9 DEF SubmitHeld, PipelineInv, HoldingOK, Undelivered, Held, TypeOK
  <2>2. LostUnsubmitted' = LostUnsubmitted
    BY <1>9, <2>1, FirstAttemptIsTask DEF SubmitHeld, SubmitPolled, SubmitTask, LostUnsubmitted
  <2> QED BY <1>8, <1>9, <2>2 DEF SubmitHeld
<1>10. CASE Cleanup \/ EngineExits
  <2>1. LostUnsubmitted' = LostUnsubmitted
    BY <1>p, <1>10 DEF Cleanup, EngineExits, LostUnsubmitted
  <2> QED BY <1>8, <1>10, <2>1 DEF Cleanup, EngineExits
<1>11. CASE HandleSuccess \/ HandleFinalFailure \/ HandleRetry
  <2>1. respQ # <<>>
    BY <1>11 DEF HandleSuccess, HandleFinalFailure, HandleRetry, ResultReady
  <2>2. Head(respQ) \in Result /\ Head(respQ) \in SeqElems(respQ)
    BY <1>0, <2>1 DEF SeqElems, TypeOK
  <2> DEFINE t == Head(respQ).task
  <2>3. t \in Task /\ t.id \in inFlight /\ t.id \notin lost
    BY <1>p, <2>2 DEF Result, InRespQ
  <2>4. inFlight' = inFlight \ {t.id} \/ (inFlight' = inFlight \cup {NextAttempt(t).id}
                                           /\ NextAttempt(t).id = t.id)
    BY <1>11, <2>3 DEF HandleSuccess, HandleFinalFailure, HandleRetry, SubmitTask, NextAttempt
  <2>5. LostUnsubmitted' = LostUnsubmitted
    BY <1>11, <2>3, <2>4 DEF HandleSuccess, HandleFinalFailure, HandleRetry, LostUnsubmitted
  <2> QED BY <1>8, <1>11, <2>5 DEF HandleSuccess, HandleFinalFailure, HandleRetry
<1>12. CASE \/ Signal \/ SetShutdown \/ JoinDispatcher \/ PollEnds \/ SpinEnds \/ StartTask
            \/ ResultLoopEnds \/ UNCHANGED vars
            \/ \E t \in running, ok \in BOOLEAN : FinishTask(t, ok)
  <2>1. UNCHANGED <<loaded, fetching, dead, weights, loaderDown, lost, inFlight>>
    BY <1>12 DEF Signal, SetShutdown, JoinDispatcher, PollEnds, SpinEnds, StartTask,
                 ResultLoopEnds, FinishTask, vars
  <2> QED BY <1>8, <2>1 DEF LostUnsubmitted
<1> QED BY <1>1, <1>2, <1>3, <1>4, <1>5, <1>6, <1>7, <1>9, <1>10, <1>11, <1>12
        DEF Next, MainNext, LoaderNext, FillNext, EngineNext, ResultNext

-----------------------------------------------------------------------------
(* The theorems *)

LEMMA InitInv == Init => IInv
BY InitPipeline, InitLoaders DEF IInv

LEMMA InvStep == IInv /\ [Next]_vars => IInv'
BY PipelineStep, LoadersStep DEF IInv

\* IInv is an invariant of the dispatcher, whatever the payloads, streams and
\* limits.
THEOREM Inductive == Spec => []IInv
BY InitInv, InvStep, PTL DEF Spec

\* dispatcher.py and engine.py keep every variable in its type; in particular no
\* task ever carries an attempt beyond max_attempts.
THEOREM TypeCorrect == Spec => []TypeOK
<1>1. IInv => TypeOK
  BY DEF IInv, PipelineInv
<1> QED BY <1>1, Inductive, PTL

\* At most max_in_flight payloads are in flight: the fill loop's wait bounds them
\* although retries are resubmitted without a check.
THEOREM InFlightBounded == Spec => []InFlightBound
<1>1. IInv => InFlightBound
  BY DEF IInv, PipelineInv
<1> QED BY <1>1, Inductive, PTL

\* No payload is twice in the queues and the engine, and _in_flights and the
\* result cache describe exactly what is there or was lost.
THEOREM Conservation == Spec => [](SingleCopy /\ InFlightTracked /\ CacheCovers)
<1>1. IInv => SingleCopy /\ InFlightTracked /\ CacheCovers
  BY DEF IInv, PipelineInv
<1> QED BY <1>1, Inductive, PTL

\* The attempt of a task counts the executions of its payload, across both queues
\* and every retry (Dispatcher._result_loop).
THEOREM Accounting == Spec => []RunsMatchAttempt
<1>1. IInv => RunsMatchAttempt
  BY DEF IInv, PipelineInv
<1> QED BY <1>1, Inductive, PTL

\* Whatever is malformed, raises, fails or is cut short by a shutdown: what was
\* submitted is lost only with the engine or the manager (Engine._run, main.serve),
\* and what each stream drops before that stays within its allowance (KafkaLoader).
THEOREM BoundedLoss == Spec => []LossesBounded
<1>1. IInv => LossesBounded
  BY WithinAllowance DEF IInv, PipelineInv, LossesBounded
<1> QED BY <1>1, Inductive, PTL

\* A resolved payload never comes back, so no payload is acknowledged twice.
THEOREM ResolvedForGood == Spec => ResolvedOnce
<1> DEFINE A == /\ resolved \subseteq resolved'
                /\ resolved \cap (inFlight' \cup cache') = {}
<1>1. IInv /\ IInv' /\ [Next]_vars => [A]_vars
  <2> SUFFICES ASSUME IInv, IInv', Next PROVE A
    OBVIOUS
  <2>1. resolved \subseteq resolved'
    BY DEF Next, MainNext, LoaderNext, FillNext, EngineNext, ResultNext,
           Signal, SetShutdown, JoinDispatcher, Cleanup, StopGenerators, PrefetchStart,
           PrefetchEnd, PrefetchFails, PrefetchCancelled, PollPayload, PollRaises, ExhaustStream,
           SubmitHeld, PollEnds, SpinEnds, StartTask, FinishTask, EngineExits,
           HandleSuccess, HandleRetry, HandleFinalFailure, ResultLoopEnds
  <2>2. resolved' \cap (inFlight' \cup cache') = {}
    BY DEF IInv, PipelineInv, ResolvedGone, CacheCovers, Undelivered, Held
  <2> QED BY <2>1, <2>2
<1> QED BY <1>1, Inductive, PTL DEF Spec, ResolvedOnce

-----------------------------------------------------------------------------
(* Refinement *)

\* The abstract status of a payload, as the mapping of Jobs gives it.
StatusOf == [p \in Payloads |-> IF p \in resolved THEN "resolved"
                               ELSE IF p \in inFlight THEN "inFlight"
                               ELSE "waiting"]

\* The instance's Cardinality is Cardinality.
LEMMA SameCardinality == \A S : Jobs!Cardinality(S) = Cardinality(S)
BY Zenon DEF Jobs!Cardinality, Cardinality

\* A submission admits a payload.
LEMMA AdmitMaps ==
    ASSUME IInv, NEW p \in Payloads, p \notin inFlight \cup resolved, RoomInFlight,
           inFlight' = inFlight \cup {p}, UNCHANGED <<resolved, runs>>
    PROVE  Jobs!Admit(p)
<1>1. {q \in Payloads : StatusOf[q] = "inFlight"} = inFlight
  BY DEF StatusOf, IInv, PipelineInv, ResolvedGone, TypeOK
<1>2. StatusOf' = [StatusOf EXCEPT ![p] = "inFlight"] /\ StatusOf[p] = "waiting"
  BY DEF StatusOf
<1>3. Jobs!Cardinality(Jobs!Admitted) < MaxInFlight
  BY <1>1, SameCardinality DEF Jobs!Admitted, StatusOf, RoomInFlight
<1> QED BY <1>2, <1>3 DEF Jobs!Admit, StatusOf

\* A result that is handled for good resolves its payload.
LEMMA ResolveMaps ==
    ASSUME IInv, NEW p \in inFlight, runs[p] > 0,
           inFlight' = inFlight \ {p}, resolved' = resolved \cup {p}, UNCHANGED runs
    PROVE  Jobs!Resolve(p)
<1>1. p \in Payloads /\ p \notin resolved
  BY DEF IInv, PipelineInv, TypeOK, ResolvedGone
<1>2. StatusOf' = [StatusOf EXCEPT ![p] = "resolved"] /\ StatusOf[p] = "inFlight"
  BY <1>1 DEF StatusOf
<1> QED BY <1>2 DEF Jobs!Resolve, StatusOf

LEMMA StepMaps == IInv /\ [Next]_vars => [Jobs!Next]_(Jobs!vars)
<1> SUFFICES ASSUME IInv, [Next]_vars PROVE Jobs!Next \/ UNCHANGED <<inFlight, resolved, runs>>
  BY DEF Jobs!vars
<1>1. ASSUME NEW p \in Payloads, PollPayload(p)
      PROVE  Jobs!Next \/ UNCHANGED <<inFlight, resolved, runs>>
  <2>1. p \notin inFlight \cup resolved
    BY <1>1 DEF PollPayload, IInv, PipelineInv, Undelivered, Fresh, CacheCovers
  <2>2. CASE RoomInFlight /\ SubmitPolled(p)
    <3>1. inFlight' = inFlight \cup {p}
      BY <2>2, FirstAttemptIsTask DEF SubmitPolled, SubmitTask
    <3>2. Jobs!Admit(p)
      BY <1>1, <2>1, <2>2, <3>1, AdmitMaps DEF PollPayload
    <3> QED BY <3>2 DEF Jobs!Next
  <2> QED BY <1>1, <2>2 DEF PollPayload
<1>2. CASE SubmitHeld
  <2>1. PICK p \in Payloads : p = held /\ p \notin inFlight \cup resolved
    BY <1>2 DEF SubmitHeld, IInv, PipelineInv, TypeOK, HoldingOK, Undelivered, Held
  <2>2. inFlight' = inFlight \cup {p}
    BY <1>2, <2>1, FirstAttemptIsTask DEF SubmitHeld, SubmitPolled, SubmitTask
  <2>3. Jobs!Admit(p)
    BY <1>2, <2>1, <2>2, AdmitMaps DEF SubmitHeld
  <2> QED BY <2>3 DEF Jobs!Next
<1>3. CASE StartTask
  <2> DEFINE t == Head(taskQ)
  <2>1. t \in Task /\ t \in SeqElems(taskQ)
    BY <1>3, TailTask DEF StartTask, IInv, PipelineInv, TypeOK, SingleCopy, UniqueTasks
  <2>2. t.id \in Payloads /\ runs[t.id] = t.attempt /\ t.attempt <= MaxAttempts
    BY <2>1, LimitsAssumption DEF IInv, PipelineInv, RunsMatchAttempt, Task
  <2>3. t.id \in inFlight /\ t.id \notin resolved
    BY <2>1 DEF IInv, PipelineInv, InFlightTracked, InTaskQ, Ids, ResolvedGone
  <2>4. PICK p \in Payloads : p = t.id
    BY <2>2
  <2>5. /\ runs' = [runs EXCEPT ![p] = @ + 1] /\ StatusOf' = StatusOf
        /\ StatusOf[p] = "inFlight" /\ runs[p] <= MaxAttempts
    BY <1>3, <2>2, <2>3, <2>4 DEF StartTask, StatusOf
  <2>6. Jobs!Start(p)
    BY <2>5 DEF Jobs!Start, StatusOf
  <2> QED BY <2>6 DEF Jobs!Next
<1>4. CASE HandleSuccess \/ HandleFinalFailure
  <2> DEFINE r == Head(respQ)
  <2>1. r \in Result /\ r \in SeqElems(respQ)
    BY <1>4, TailResult DEF HandleSuccess, HandleFinalFailure, ResultReady, IInv, PipelineInv, TypeOK,
                            SingleCopy, UniqueResults
  <2>2. r.task.id \in inFlight /\ r.task.id \in Payloads
    BY <2>1 DEF IInv, PipelineInv, InFlightTracked, InRespQ, TypeOK
  <2>3. runs[r.task.id] > 0
    BY <2>1, LimitsAssumption DEF IInv, PipelineInv, RunsMatchAttempt, Result, Task
  <2>4. PICK p \in Payloads : p = r.task.id
    BY <2>2
  <2>5. /\ inFlight' = inFlight \ {p} /\ resolved' = resolved \cup {p}
        /\ UNCHANGED runs
    BY <1>4, <2>4 DEF HandleSuccess, HandleFinalFailure
  <2>6. Jobs!Resolve(p)
    BY <2>2, <2>3, <2>4, <2>5, ResolveMaps
  <2> QED BY <2>6 DEF Jobs!Next
<1>5. CASE HandleRetry
  <2> DEFINE r == Head(respQ)
  <2>1. r \in Result /\ r \in SeqElems(respQ) /\ r.task.attempt < MaxAttempts
    BY <1>5, TailResult DEF HandleRetry, ResultReady, IInv, PipelineInv, TypeOK, SingleCopy, UniqueResults
  <2>2. r.task.id \in inFlight /\ NextAttempt(r.task).id = r.task.id
    BY <2>1, NextAttemptIsTask DEF IInv, PipelineInv, InFlightTracked, InRespQ, Result
  <2>3. inFlight' = inFlight /\ UNCHANGED <<resolved, runs>>
    BY <1>5, <2>2 DEF HandleRetry, SubmitTask
  <2> QED BY <2>3
<1>6. CASE UNCHANGED vars
  BY <1>6 DEF vars
<1>7. CASE \/ MainNext \/ LoaderNext \/ PollEnds \/ SpinEnds \/ EngineExits \/ ResultLoopEnds
           \/ \E p \in Payloads : PollRaises(p)
           \/ \E s \in Streams : ExhaustStream(s)
           \/ \E t \in running, ok \in BOOLEAN : FinishTask(t, ok)
  BY <1>7 DEF MainNext, Signal, SetShutdown, JoinDispatcher, Cleanup, LoaderNext,
              StopGenerators, PrefetchStart, PrefetchEnd, PrefetchFails, PrefetchCancelled, PollEnds,
              SpinEnds, EngineExits, ResultLoopEnds, PollRaises, ExhaustStream, FinishTask
<1> QED BY <1>1, <1>2, <1>3, <1>4, <1>5, <1>6, <1>7 DEF Next, FillNext, EngineNext, ResultNext

\* The dispatcher, its queues and the engine implement the abstract job service:
\* bounded admission, bounded executions, one resolution per payload.
THEOREM Refinement == Spec => ImplementsJobs
<1>1. Init => Jobs!Init
  BY DEF Init, Jobs!Init
<1>2. IInv /\ [Next]_vars => [Jobs!Next]_(Jobs!vars)
  BY StepMaps
<1> QED BY <1>1, <1>2, Inductive, PTL DEF Spec, ImplementsJobs, Jobs!Spec
=============================================================================
