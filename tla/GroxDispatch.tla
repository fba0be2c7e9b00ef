---------------------------- MODULE GroxDispatch ----------------------------
(***************************************************************************)
(* The grox content-understanding service: the dispatcher process          *)
(* (dispatcher.py), the engine process (engine.py), the task generators    *)
(* and Kafka loaders the dispatcher polls (task_generator.py,              *)
(* stream_generator.py, kafka_loader.py), the two manager queues between   *)
(* the processes, and the shutdown sequence of main.py.                    *)
(*                                                                         *)
(* One action is one uninterrupted stretch of a coroutine: the dispatcher  *)
(* runs its fill loop, its result loop, its shutdown waiter and the        *)
(* prefetchers on one event loop, so they interleave only where they await *)
(* something that really suspends.  The engine is another process.         *)
(*                                                                         *)
(* A payload carries a fresh uuid4 hex as its id (kafka_loader.py), so a   *)
(* payload is identified with its id.  All timeouts may fire at any time.  *)
(***************************************************************************)
EXTENDS Naturals, Sequences, FiniteSets

CONSTANTS
    Payloads,           \* ids of the messages Kafka will ever deliver
    Streams,            \* labels GEN_0, GEN_1, ... of the generator pool
    StreamOf,           \* the generator a payload arrives on
    Faulty,             \* generators that raise when they build a TaskPayload
    Malformed,          \* messages whose conversion to a payload raises
    MaxInFlight,        \* config.max_in_flight
    MaxAttempts,        \* config.max_attempts
    PrefetchThreshold,  \* loader_config.prefetching_threshold
    PrefetchBatch,      \* loader_config.prefetching_batch_size
    NoPayload           \* Python's None, where a payload is expected

ASSUME PayloadsAssumption  == IsFiniteSet(Payloads) /\ NoPayload \notin Payloads
ASSUME StreamsAssumption   == StreamOf \in [Payloads -> Streams] /\ Faulty \subseteq Streams
                              /\ Malformed \subseteq Payloads
ASSUME LimitsAssumption    == /\ MaxInFlight \in Nat \ {0}
                              /\ MaxAttempts \in Nat
                              /\ PrefetchThreshold \in Nat
                              /\ PrefetchBatch \in Nat

VARIABLES
    main,       \* how far main.serve() is in its shutdown sequence
    backlog,    \* messages still in Kafka
    fetching,   \* messages a prefetcher has polled and not yet queued
    loaded,     \* messages in a KafkaLoader.queue
    loaderDown, \* streams whose loader._shutdown_event is set
    dead,       \* streams whose generator object was killed by an exception
    weights,    \* keys of PriorityTaskGenerator._weights: the pool
    cache,      \* keys of PriorityTaskGenerator._result_cache
    fill,       \* where _fill_loop is
    held,       \* the payload _fill_loop waits to submit, or NoPayload
    inFlight,   \* Dispatcher._in_flights
    taskQ,      \* context["task_queue"]
    running,    \* tasks the engine has created a coroutine for
    respQ,      \* context["resp_queue"]
    looping,    \* TRUE until _result_loop returns
    engineUp,   \* TRUE until the engine process exits
    resolved,   \* history: payloads acknowledged or finally failed
    runs,       \* history: how often the engine started each payload
    lost        \* history: payloads that no process holds any more

mainVars   == <<main>>
loaderVars == <<backlog, fetching, loaded, loaderDown>>
poolVars   == <<dead, weights>>
fillVars   == <<fill, held>>
queueVars  == <<taskQ, respQ>>
engineVars == <<running, engineUp>>
history    == <<resolved, runs, lost>>
vars == <<mainVars, loaderVars, poolVars, cache, fillVars, inFlight,
          queueVars, engineVars, looping, history>>

Task   == [id : Payloads, attempt : 0..MaxAttempts]
Result == [task : Task, success : BOOLEAN]

Ids(tasks) == {t.id : t \in tasks}
SeqElems(q) == {q[i] : i \in DOMAIN q}
InTaskQ == Ids(SeqElems(taskQ))
InRespQ == {q.task.id : q \in SeqElems(respQ)}
InEngine == Ids(running)

\* The events and the manager process are functions of main's progress.
ConnectionShutdown == main # "serving"
Shutdown           == main \notin {"serving", "draining"}
ManagerUp          == main # "cleaned"

\* While every generator is exhausted and the shutdown event is not set, the
\* fill loop iterates without ever suspending: nothing else runs on the
\* dispatcher's event loop.
LoopFree == fill # "spinning"

TypeOK ==
    /\ main \in {"serving", "draining", "joinDispatcher", "joinEngine", "cleaned"}
    /\ backlog \subseteq Payloads /\ fetching \subseteq Payloads /\ loaded \subseteq Payloads
    /\ loaderDown \in {{}, Streams}
    /\ dead \subseteq Streams /\ weights \subseteq Streams
    /\ cache \subseteq Payloads
    /\ fill \in {"polling", "holding", "spinning", "done"}
    /\ held \in Payloads \cup {NoPayload}
    /\ inFlight \subseteq Payloads
    /\ taskQ \in Seq(Task) /\ running \subseteq Task /\ respQ \in Seq(Result)
    /\ looping \in BOOLEAN /\ engineUp \in BOOLEAN
    /\ resolved \subseteq Payloads /\ lost \subseteq Payloads
    /\ runs \in [Payloads -> Nat]

Init ==
    /\ main = "serving"
    /\ backlog = Payloads /\ fetching = {} /\ loaded = {} /\ loaderDown = {}
    /\ dead = {} /\ weights = Streams /\ cache = {}
    /\ fill = "polling" /\ held = NoPayload /\ inFlight = {}
    /\ taskQ = <<>> /\ running = {} /\ respQ = <<>>
    /\ looping = TRUE /\ engineUp = TRUE
    /\ resolved = {} /\ lost = {} /\ runs = [p \in Payloads |-> 0]

-----------------------------------------------------------------------------
(* main.serve() *)

\* SIGINT or SIGTERM: queue_connection_shutdown_event is set, then a long sleep.
Signal ==
    /\ main = "serving"
    /\ main' = "draining"
    /\ UNCHANGED <<loaderVars, poolVars, cache, fillVars, inFlight, queueVars,
                   engineVars, looping, history>>

\* The sleep is over: shutdown_event is set and main joins the dispatcher.
SetShutdown ==
    /\ main = "draining"
    /\ main' = "joinDispatcher"
    /\ UNCHANGED <<loaderVars, poolVars, cache, fillVars, inFlight, queueVars,
                   engineVars, looping, history>>

\* Process.join blocks the whole main loop, so the two joins run one after the
\* other; each returns when its process exits or when its timeout is over.
JoinDispatcher ==
    /\ main = "joinDispatcher"
    /\ main' = "joinEngine"
    /\ UNCHANGED <<loaderVars, poolVars, cache, fillVars, inFlight, queueVars,
                   engineVars, looping, history>>

\* The engine join is over; cleanup() shuts the manager down, and with it the
\* queues and whatever they hold.
Cleanup ==
    /\ main = "joinEngine"
    /\ main' = "cleaned"
    /\ taskQ' = <<>> /\ respQ' = <<>>
    /\ lost' = lost \cup InTaskQ \cup InRespQ
    /\ UNCHANGED <<loaderVars, poolVars, cache, fillVars, inFlight, engineVars,
                   looping, resolved, runs>>

-----------------------------------------------------------------------------
(* KafkaLoader: the prefetcher of each stream, and stop() *)

OfStream(S, s) == {p \in S : StreamOf[p] = s}

\* The inventory is low: await consumer.poll(batch size).
PrefetchStart(s) ==
    /\ LoopFree /\ s \notin loaderDown
    /\ OfStream(fetching, s) = {}
    /\ Cardinality(OfStream(loaded, s)) < PrefetchThreshold
    /\ \E batch \in SUBSET OfStream(backlog, s) :
          /\ batch # {} /\ Cardinality(batch) <= PrefetchBatch
          /\ backlog' = backlog \ batch
          /\ fetching' = fetching \cup batch
    /\ UNCHANGED <<mainVars, loaded, loaderDown, poolVars, cache, fillVars, inFlight,
                   queueVars, engineVars, looping, history>>

\* The poll answers, possibly after stop() has set the shutdown event, and the
\* whole batch is converted before any of it is queued.
PrefetchEnd(s) ==
    /\ LoopFree /\ OfStream(fetching, s) # {}
    /\ OfStream(fetching, s) \cap Malformed = {}
    /\ fetching' = fetching \ OfStream(fetching, s)
    /\ loaded' = loaded \cup OfStream(fetching, s)
    /\ UNCHANGED <<mainVars, backlog, loaderDown, poolVars, cache, fillVars, inFlight,
                   queueVars, engineVars, looping, history>>

\* Converting one message raises: the error is logged and the prefetcher goes on
\* with its next poll; nothing of the batch was queued.
PrefetchFails(s) ==
    /\ LoopFree /\ OfStream(fetching, s) \cap Malformed # {}
    /\ fetching' = fetching \ OfStream(fetching, s)
    /\ lost' = lost \cup OfStream(fetching, s)
    /\ UNCHANGED <<mainVars, backlog, loaded, loaderDown, poolVars, cache, fillVars,
                   inFlight, queueVars, engineVars, looping, resolved, runs>>

\* stop() gives the prefetcher five seconds; wait_for then cancels it.
PrefetchCancelled(s) ==
    /\ LoopFree /\ s \in loaderDown /\ OfStream(fetching, s) # {}
    /\ fetching' = fetching \ OfStream(fetching, s)
    /\ lost' = lost \cup OfStream(fetching, s)
    /\ UNCHANGED <<mainVars, backlog, loaded, loaderDown, poolVars, cache, fillVars,
                   inFlight, queueVars, engineVars, looping, resolved, runs>>

\* _wait_for_queue_connection_shutdown: PriorityTaskGenerator.stop sets the
\* shutdown event of every loader before it waits for any of them.
StopGenerators ==
    /\ LoopFree /\ ConnectionShutdown /\ loaderDown = {}
    /\ loaderDown' = Streams
    /\ UNCHANGED <<mainVars, backlog, fetching, loaded, poolVars, cache, fillVars,
                   inFlight, queueVars, engineVars, looping, history>>

-----------------------------------------------------------------------------
(* Dispatcher._fill_loop over PriorityTaskGenerator._poll *)

\* _submit_task: the id enters _in_flights, then the payload enters the queue.
SubmitTask(task) ==
    /\ inFlight' = inFlight \cup {task.id}
    /\ taskQ' = Append(taskQ, task)

FirstAttempt(p) == [id |-> p, attempt |-> 0]

\* The fill loop submits what it polled.  Once the manager is gone, put raises
\* after _in_flights.add, the error is logged and the loop condition then reads
\* as a shutdown.
SubmitPolled(p) ==
    /\ held' = NoPayload
    /\ \/ /\ ManagerUp
          /\ SubmitTask(FirstAttempt(p))
          /\ fill' = "polling"
          /\ UNCHANGED lost
       \/ /\ ~ManagerUp
          /\ inFlight' = inFlight \cup {p}
          /\ lost' = lost \cup {p}
          /\ fill' = "done"
          /\ UNCHANGED taskQ

\* Mutant: the wait compares with > instead of >=.
RoomInFlightOffByOne == Cardinality(inFlight) <= MaxInFlight

\* while len(self._in_flights) >= max_in_flight: sleep
RoomInFlight == Cardinality(inFlight) < MaxInFlight

\* _poll draws a stream and gets a payload from it: the payload enters the
\* result cache before it is yielded, and is submitted without a suspension
\* unless max_in_flight payloads are in flight.
PollPayload(p) ==
    /\ fill = "polling" /\ p \in loaded
    /\ StreamOf[p] \in weights \ (dead \cup Faulty)
    /\ loaded' = loaded \ {p}
    /\ cache' = cache \cup {p}
    /\ \/ RoomInFlight /\ SubmitPolled(p)
       \/ ~RoomInFlight /\ held' = p /\ fill' = "holding" /\ UNCHANGED <<inFlight, taskQ, lost>>
    /\ UNCHANGED <<mainVars, backlog, fetching, loaderDown, poolVars, respQ, engineVars,
                   looping, resolved, runs>>

\* A wake-up of the wait finds room.
SubmitHeld ==
    /\ fill = "holding" /\ RoomInFlight
    /\ SubmitPolled(held)
    /\ UNCHANGED <<mainVars, loaderVars, poolVars, cache, respQ, engineVars, looping,
                   resolved, runs>>

\* Building the TaskPayload raises: the message is gone and so is the generator.
PollRaises(p) ==
    /\ fill = "polling" /\ p \in loaded
    /\ StreamOf[p] \in (weights \cap Faulty) \ dead
    /\ loaded' = loaded \ {p}
    /\ dead' = dead \cup {StreamOf[p]}
    /\ lost' = lost \cup {p}
    /\ UNCHANGED <<mainVars, backlog, fetching, loaderDown, weights, cache, fillVars,
                   inFlight, queueVars, engineVars, looping, resolved, runs>>

\* Mutant: an empty queue is taken for the end of the stream.
ExhaustStreamOnEmpty(s) ==
    /\ fill = "polling" /\ s \in weights
    /\ s \in dead \/ OfStream(loaded, s) = {}
    /\ weights' = weights \ {s}
    /\ UNCHANGED <<mainVars, loaderVars, dead, cache, fillVars, inFlight, queueVars,
                   engineVars, looping, history>>

\* StopAsyncIteration: a killed generator, or a loader that is shut down and
\* whose queue is empty, leaves the pool for good.
ExhaustStream(s) ==
    /\ fill = "polling" /\ s \in weights
    /\ s \in dead \/ (s \in loaderDown /\ OfStream(loaded, s) = {})
    /\ weights' = weights \ {s}
    /\ UNCHANGED <<mainVars, loaderVars, dead, cache, fillVars, inFlight, queueVars,
                   engineVars, looping, history>>

\* poll() ends only when the pool is empty; only then is shutdown consulted.
PollEnds ==
    /\ fill = "polling" /\ weights = {}
    /\ fill' = IF Shutdown THEN "done" ELSE "spinning"
    /\ UNCHANGED <<mainVars, loaderVars, poolVars, cache, held, inFlight, queueVars,
                   engineVars, looping, history>>

SpinEnds ==
    /\ fill = "spinning" /\ Shutdown
    /\ fill' = "done"
    /\ UNCHANGED <<mainVars, loaderVars, poolVars, cache, held, inFlight, queueVars,
                   engineVars, looping, history>>

-----------------------------------------------------------------------------
(* Engine *)

\* Mutant: the task is looked at but stays in the queue.
StartTaskPeek ==
    /\ engineUp /\ taskQ # <<>>
    /\ running' = running \cup {Head(taskQ)}
    /\ runs' = [runs EXCEPT ![Head(taskQ).id] = @ + 1]
    /\ UNCHANGED <<mainVars, loaderVars, poolVars, cache, fillVars, inFlight, queueVars,
                   engineUp, looping, resolved, lost>>

\* _poll_task and create_task(_run_task).
StartTask ==
    /\ engineUp /\ taskQ # <<>>
    /\ taskQ' = Tail(taskQ)
    /\ running' = running \cup {Head(taskQ)}
    /\ runs' = [runs EXCEPT ![Head(taskQ).id] = @ + 1]
    /\ UNCHANGED <<mainVars, loaderVars, poolVars, cache, fillVars, inFlight, respQ,
                   engineUp, looping, resolved, lost>>

\* Mutant: something raises after the result was put, and the handler puts a
\* failure for the same task.
FinishTaskTwice(t, ok) ==
    /\ engineUp /\ t \in running /\ ManagerUp
    /\ running' = running \ {t}
    /\ respQ' = respQ \o <<[task |-> t, success |-> ok], [task |-> t, success |-> FALSE]>>
    /\ UNCHANGED <<mainVars, loaderVars, poolVars, cache, fillVars, inFlight, taskQ,
                   engineUp, looping, history>>

\* _run_task puts one result: the plans' merged result, or a failure when they
\* raise.
FinishTask(t, ok) ==
    /\ engineUp /\ t \in running /\ ManagerUp
    /\ running' = running \ {t}
    /\ respQ' = Append(respQ, [task |-> t, success |-> ok])
    /\ UNCHANGED <<mainVars, loaderVars, poolVars, cache, fillVars, inFlight, taskQ,
                   engineUp, looping, history>>

\* Mutant: the engine watches queue_connection_shutdown_event instead.
EngineExitsEarly ==
    /\ engineUp /\ ConnectionShutdown /\ taskQ = <<>>
    /\ engineUp' = FALSE
    /\ running' = {}
    /\ lost' = lost \cup InEngine
    /\ UNCHANGED <<mainVars, loaderVars, poolVars, cache, fillVars, inFlight, queueVars,
                   looping, resolved, runs>>

\* The loop is left once the shutdown event is set and the queue is empty (or
\* cannot be reached any more): asyncio.run cancels the tasks still running,
\* and a cancelled task puts no result.
EngineExits ==
    /\ engineUp /\ Shutdown /\ taskQ = <<>>
    /\ engineUp' = FALSE
    /\ running' = {}
    /\ lost' = lost \cup InEngine
    /\ UNCHANGED <<mainVars, loaderVars, poolVars, cache, fillVars, inFlight, queueVars,
                   looping, resolved, runs>>

-----------------------------------------------------------------------------
(* Dispatcher._result_loop *)

\* The loop runs its body and _poll_result returns a result.
ResultReady ==
    /\ looping /\ LoopFree /\ respQ # <<>>
    /\ ~Shutdown \/ inFlight # {}

\* PriorityTaskGenerator.ack pops the label.
Ack(p) == cache' = cache \ {p}

\* Mutant: success acknowledges without leaving _in_flights.
HandleSuccessKeepsInFlight ==
    /\ ResultReady /\ Head(respQ).success
    /\ Ack(Head(respQ).task.id)
    /\ resolved' = resolved \cup {Head(respQ).task.id}
    /\ respQ' = Tail(respQ)
    /\ UNCHANGED <<mainVars, loaderVars, poolVars, fillVars, inFlight, taskQ, engineVars,
                   looping, runs, lost>>

HandleSuccess ==
    /\ ResultReady /\ Head(respQ).success
    /\ LET p == Head(respQ).task.id IN
          /\ inFlight' = inFlight \ {p}
          /\ Ack(p)
          /\ resolved' = resolved \cup {p}
    /\ respQ' = Tail(respQ)
    /\ UNCHANGED <<mainVars, loaderVars, poolVars, fillVars, taskQ, engineVars, looping,
                   runs, lost>>

\* Mutant: the retry forgets task.attempt += 1.
SameAttempt(t) == t

NextAttempt(t) == [id |-> t.id, attempt |-> t.attempt + 1]

\* Mutant: every failure is retried.
HandleRetryAlways ==
    /\ ResultReady /\ ~Head(respQ).success
    /\ SubmitTask(NextAttempt(Head(respQ).task))
    /\ respQ' = Tail(respQ)
    /\ UNCHANGED <<mainVars, loaderVars, poolVars, cache, fillVars, engineVars, looping,
                   history>>

\* A failed task goes straight back to the queue, with no look at max_in_flight.
HandleRetry ==
    /\ ResultReady /\ ~Head(respQ).success
    /\ Head(respQ).task.attempt < MaxAttempts
    /\ SubmitTask(NextAttempt(Head(respQ).task))
    /\ respQ' = Tail(respQ)
    /\ UNCHANGED <<mainVars, loaderVars, poolVars, cache, fillVars, engineVars, looping,
                   history>>

\* Mutant: a final failure leaves _in_flights and is never acknowledged.
HandleFinalFailureNoAck ==
    /\ ResultReady /\ ~Head(respQ).success
    /\ Head(respQ).task.attempt >= MaxAttempts
    /\ inFlight' = inFlight \ {Head(respQ).task.id}
    /\ resolved' = resolved \cup {Head(respQ).task.id}
    /\ respQ' = Tail(respQ)
    /\ UNCHANGED <<mainVars, loaderVars, poolVars, cache, fillVars, taskQ, engineVars,
                   looping, runs, lost>>

\* identify_task_origin finds an origin exactly when the cache has the id; only
\* then is the task acknowledged.
HandleFinalFailure ==
    /\ ResultReady /\ ~Head(respQ).success
    /\ Head(respQ).task.attempt >= MaxAttempts
    /\ LET p == Head(respQ).task.id IN
          /\ inFlight' = inFlight \ {p}
          /\ IF p \in cache THEN Ack(p) ELSE UNCHANGED cache
          /\ resolved' = resolved \cup {p}
    /\ respQ' = Tail(respQ)
    /\ UNCHANGED <<mainVars, loaderVars, poolVars, fillVars, taskQ, engineVars, looping,
                   runs, lost>>

\* The loop condition is false: shutdown is set and nothing is in flight now.
ResultLoopEnds ==
    /\ looping /\ LoopFree /\ Shutdown /\ inFlight = {}
    /\ looping' = FALSE
    /\ UNCHANGED <<mainVars, loaderVars, poolVars, cache, fillVars, inFlight, queueVars,
                   engineVars, history>>

-----------------------------------------------------------------------------
MainNext == Signal \/ SetShutdown \/ JoinDispatcher \/ Cleanup

LoaderNext == \/ StopGenerators
              \/ \E s \in Streams : \/ PrefetchStart(s) \/ PrefetchEnd(s)
                                    \/ PrefetchFails(s) \/ PrefetchCancelled(s)

FillNext == \/ \E p \in Payloads : PollPayload(p) \/ PollRaises(p)
            \/ \E s \in Streams : ExhaustStream(s)
            \/ SubmitHeld \/ PollEnds \/ SpinEnds

EngineNext == \/ StartTask
              \/ \E t \in running, ok \in BOOLEAN : FinishTask(t, ok)
              \/ EngineExits

ResultNext == HandleSuccess \/ HandleRetry \/ HandleFinalFailure \/ ResultLoopEnds

Next == MainNext \/ LoaderNext \/ FillNext \/ EngineNext \/ ResultNext

Spec == Init /\ [][Next]_vars

-----------------------------------------------------------------------------
(* Safety *)

\* _fill_loop's wait keeps at most max_in_flight payloads between submission and
\* resolution, although retries are resubmitted without any check.
InFlightBound == Cardinality(inFlight) <= MaxInFlight

\* A payload is never in two places of the pipeline at once: two entries of a
\* queue, two coroutines of the engine, or a queue and a coroutine.  Otherwise
\* one payload would be answered twice and removed from _in_flights too early.
SingleCopy ==
    /\ \A i, j \in DOMAIN taskQ : taskQ[i].id = taskQ[j].id => i = j
    /\ \A i, j \in DOMAIN respQ : respQ[i].task.id = respQ[j].task.id => i = j
    /\ \A t, u \in running : t.id = u.id => t = u
    /\ InTaskQ \cap InEngine = {} /\ InTaskQ \cap InRespQ = {} /\ InEngine \cap InRespQ = {}

\* _in_flights is exactly what the pipeline holds, except for what it lost:
\* an entry that left the pipeline unresolved would block a slot for ever.
InFlightTracked ==
    /\ InTaskQ \cup InEngine \cup InRespQ \subseteq inFlight \ lost
    /\ inFlight \ lost \subseteq InTaskQ \cup InEngine \cup InRespQ

\* The result cache holds a label for exactly the payloads that are in flight or
\* about to be: every ack finds its label, and no label is leaked.
Held == {held} \ {NoPayload}
CacheCovers == cache = inFlight \cup Held

\* The attempt a task carries counts the executions of its payload, across
\* both queues and every retry.
RunsMatchAttempt ==
    /\ \A t \in SeqElems(taskQ) : runs[t.id] = t.attempt
    /\ \A t \in running : runs[t.id] = t.attempt + 1
    /\ \A q \in SeqElems(respQ) : runs[q.task.id] = q.task.attempt + 1

\* What was lost without ever being submitted, and what no generator will yield
\* any more although it is in a loader's queue: the stream has left the pool.
LostUnsubmitted == lost \ inFlight
Stranded(s) == IF s \in weights \cup dead THEN {} ELSE OfStream(loaded, s)
Dropped(s)  == OfStream(LostUnsubmitted, s) \cup Stranded(s)

OneIf(b) == IF b THEN 1 ELSE 0

\* What a stream may drop in its life: a batch for each malformed message, the
\* batch that was being polled when its loader was stopped, and the message its
\* generator raised on.
Allowance(s) ==
    PrefetchBatch * (Cardinality(OfStream(LostUnsubmitted \cap Malformed, s))
                       + OneIf(s \in loaderDown)) + OneIf(s \in dead)

\* What was submitted is lost only once the shutdown event is set and the engine
\* has exited or the manager is gone, and nothing lost was ever acknowledged.
SubmittedSafe ==
    /\ lost \cap inFlight # {} => Shutdown /\ ~(engineUp /\ ManagerUp)
    /\ lost \cap resolved = {}

\* Before, during and after a shutdown: what was submitted is safe as long as the
\* engine and the manager are up, and what is dropped before its submission stays
\* within each stream's allowance.
LossesBounded ==
    /\ SubmittedSafe
    /\ \A s \in Streams : Cardinality(Dropped(s)) <= Allowance(s)

\* A resolved payload is out of the pipeline and never enters it again, so no
\* payload is acknowledged twice.
ResolvedOnce == [][/\ resolved \subseteq resolved'
                   /\ resolved \cap (inFlight' \cup cache') = {}]_vars

\* The dispatcher implements the abstract job service.
Jobs == INSTANCE GroxJobs WITH
            status  <- [p \in Payloads |-> IF p \in resolved THEN "resolved"
                                          ELSE IF p \in inFlight THEN "inFlight"
                                          ELSE "waiting"],
            started <- runs
ImplementsJobs == Jobs!Spec

-----------------------------------------------------------------------------
(* The inductive invariant of the proofs *)

\* What Kafka has not delivered to the dispatcher's fill loop yet.
Fresh == backlog \cup fetching \cup loaded

\* The fill loop holds a payload exactly while it waits for room.
HoldingOK == fill = "holding" <=> held # NoPayload

\* A payload that is still on its way to the fill loop, or held by it, was never
\* submitted, started, resolved or lost.
Undelivered ==
    /\ backlog \cap fetching = {} /\ backlog \cap loaded = {} /\ fetching \cap loaded = {}
    /\ Fresh \cap (cache \cup resolved \cup lost) = {}
    /\ Held \cap (inFlight \cup resolved \cup lost) = {}
    /\ \A p \in Fresh \cup Held : runs[p] = 0

\* A resolved payload has left the dispatcher and was run.
ResolvedGone ==
    /\ resolved \cap inFlight = {}
    /\ \A p \in resolved : runs[p] > 0

\* Loaders are stopped only after the signal.
StopAfterSignal == loaderDown # {} => ConnectionShutdown

\* No conjunct of the two invariants is preserved without some of the others.
PipelineInv == /\ TypeOK /\ HoldingOK
               /\ SingleCopy /\ InFlightTracked /\ CacheCovers
               /\ Undelivered /\ ResolvedGone /\ RunsMatchAttempt
               /\ InFlightBound /\ StopAfterSignal /\ SubmittedSafe

\* A live stream leaves the pool only once its loader is stopped; a loader polls
\* one batch at a time; and the batch a stopped loader still polls is already
\* within the allowance.
AtRisk(s) == Dropped(s) \cup (IF s \in loaderDown THEN OfStream(fetching, s) ELSE {})
LoadersOK ==
    /\ Streams \ (weights \cup dead) \subseteq loaderDown
    /\ \A s \in Streams : Cardinality(OfStream(fetching, s)) <= PrefetchBatch
    /\ \A s \in Streams : Cardinality(AtRisk(s)) <= Allowance(s)

IInv == PipelineInv /\ LoadersOK

-----------------------------------------------------------------------------
(* Liveness *)

\* The event loops and the engine's coroutines make progress; random.choices
\* gives every stream of the pool a positive weight, so a stream that keeps
\* having a payload (or being exhausted) is drawn at some point; an asyncio
\* queue is first in, first out, so no payload in it is overtaken for ever.
\* PlanMaster.exec is assumed to return or raise.
Fairness ==
    /\ \A s \in Streams : /\ WF_vars(PrefetchStart(s))
                          /\ WF_vars(PrefetchEnd(s) \/ PrefetchFails(s) \/ PrefetchCancelled(s))
                          /\ SF_vars(ExhaustStream(s))
    /\ \A p \in Payloads : SF_vars(PollPayload(p) \/ PollRaises(p))
    /\ WF_vars(SubmitHeld) /\ WF_vars(PollEnds) /\ WF_vars(SpinEnds) /\ WF_vars(StopGenerators)
    /\ WF_vars(StartTask) /\ WF_vars(EngineExits)
    /\ \A p \in Payloads : WF_vars(\E t \in running, ok \in BOOLEAN : t.id = p /\ FinishTask(t, ok))
    /\ WF_vars(ResultNext)

\* Somebody may signal the service or not; after that main's timers all expire.
LiveSpec == Spec /\ Fairness /\ WF_vars(SetShutdown \/ JoinDispatcher \/ Cleanup)

\* While nobody signals the service, every message of a stream whose generator
\* does not raise is polled, run, retried as needed and resolved, whatever the
\* tasks answer and whatever other streams do, unless it was dropped with a
\* batch that held a malformed message of the same stream.
EveryMessageResolves ==
    [](main = "serving") =>
       \A p \in Payloads : StreamOf[p] \notin Faulty =>
          <>(\/ p \in resolved
             \/ p \in LostUnsubmitted
                /\ OfStream(LostUnsubmitted \cap Malformed, StreamOf[p]) # {})

DispatcherDone == fill = "done" /\ ~looping /\ loaderDown = Streams

\* A shutdown that loses nothing ends the dispatcher with nothing in flight and
\* an empty result cache.
LosslessShutdownEnds ==
    <>(main # "serving") /\ [](lost = {}) => <>(DispatcherDone /\ cache = {})
=============================================================================
