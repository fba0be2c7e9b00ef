# Verification of x-algorithm-simulator

TLA+ models of the programs in this repository, model-checked with TLC, and
theorems about them proved with TLAPS.

The repository holds two things. `src/xsim` and `src/simulator` are a runnable
simulator of a social feed with a Streamlit cockpit. `src/references` holds the
services the simulator is about: **thunder** (in-memory store of recent posts),
**candidate-pipeline** and **home-mixer** (a feed request), **grox** (content
understanding) and **phoenix** (models). The references import crates that are
not in the repository; where the code calls them, the models describe what the
calling code relies on.

Contents

1. Inventory: components, their state, operations, interaction, hard behaviour
2. The modules and their correspondence to the code
3. The runs: what each shows, its bounds
4. Fairness
5. Findings and observations
6. Theorems and how they are proved
7. Only model-checked, and not modelled

## 1. Inventory

### grox (`src/references/grox`)

| part | state | operations | talks to |
|---|---|---|---|
| `main.py` | two shutdown events, two processes, a manager | start, signal, drain, join, cleanup | everybody, through `context` |
| `dispatcher.py` | `_in_flights`, fill and result loops | poll, wait for room, submit, retry, resolve, shut down | generators, both queues |
| `generators/*` | `_weights` (the pool), `_result_cache` | weighted poll, ack, fail, stop | loaders |
| `data_loaders/kafka_loader.py` | a queue and a prefetcher | prefetch, poll, stop | Kafka |
| `engine.py` | running coroutines | take a task, run it, answer | both queues, `PlanMaster` |
| `plans/*`, `tasks/*` | one `TaskContext` per plan and payload, one future per task; marks of the rate limits | execute the graph, skip, fail, cancel, merge | model clients, sinks, the ASR processor |
| `data_loaders/asr_processor.py` | a cache, a future per post, worker processes | transcribe once for all who ask | media tasks |
| `classifiers`, `embedder`, `summarizer`, `lib` | none of their own | prompts, calls to models | external services |

Hard: two processes that share only queues which die with a third; loops that
are left on conditions the other loop changes; retries that bypass the in-flight
limit; a shutdown in five stages, each with a time-out; prefetched messages that
nobody will poll; a message that takes the whole batch it was polled with along.
In the plans: a failed task ends its plan while other tasks of it run on, a sink
that raised halfway is run again from its first write, a retry meets the marks of
the execution before, and several plans await one transcript.
Correct when: a payload is in one place at a time, is resolved once, is retried a
bounded number of times, never occupies a slot after it left, what is dropped on
the way stays within bounds, and a shutdown ends; a plan publishes what its filters
let through, from one execution per rate-limit window, and every success can be
accounted for.

### thunder (`src/references/thunder`)

| part | state | operations | talks to |
|---|---|---|---|
| `posts/post_store.rs` | five DashMaps: posts, three timelines per author, deleted ids | insert, delete, finalize, sort, trim, two kinds of read | listener threads, gRPC handlers, auto-trim task |
| `kafka/tweet_events_listener_v2.rs` | per thread: buffer, catch-up flag, semaphore permit | poll, measure lag, process a batch, signal | Kafka, post store, main |
| `main.rs`, `kafka_utils.rs` | channel of catch-up signals | start threads, await signals, finalize, set readiness | listeners, post store |
| `thunder_service.rs` | a semaphore of requests | reject or serve a request, score by recency | post store, Strato |
| `kafka/tweet_events_listener.rs` | per thread: buffer, offsets | read tweet events, publish in-network events, commit | Kafka on both sides |

Hard: every DashMap operation is atomic and no sequence of them is; references
and posts live in different maps; time comes from several clocks; creates are
redelivered; a batch whose task panicked is gone and nobody looks; a signal that is sent
once or never.
Correct when: no map leaks, a post is referenced once, a deletion sticks, a read
shows nothing that was deleted before it began, and the server becomes ready
exactly when its threads have caught up; an answer holds the newest of what was
there; a permit comes back on every way out of the handler; the feeder commits no
event it did not announce.

### candidate-pipeline (`src/references/candidate-pipeline`)

State: a query and a candidate list that go through the stages of one request;
a cache shared by the requests of a hydrator. Operations: hydrate the query
(in parallel, then the dependent hydrators), fetch from all sources, hydrate,
filter, score, select, hydrate and filter again, cut to `result_size`, spawn the
side effects behind the response. Hard: components that fail, are disabled or
answer with the wrong length; a cache that is written by one request and read by
another; side effects that run after the caller has its answer. Correct when: no
candidate is lost or doubled between the stages (retrieved = selected + not
selected + filtered, the hydration apart), an answer never reaches the wrong
candidate, and side effects see what was returned.

### home-mixer (`src/references/home-mixer`)

Two pipelines over candidate-pipeline: `phoenix_candidate_pipeline.rs` ranks
posts (six sources, ten hydrators, fourteen filters, three scorers, top-k,
post-selection visibility filters) and `for_you_candidate_pipeline.rs` blends
the ranked posts with ads, prompts and modules. State outside a request: served
history, past request timestamps, seen ids, cached posts, all in external stores
that a request reads through query hydrators and writes through side effects.
Hard: overlapping requests of one user; filters that trust fields a failed
hydrator left unset; position arithmetic in the two ads blenders. Correct when:
no duplicate, own, blocked, muted, already served or invisible post is shown
where the inputs were there to know it, ads keep their distance and stay away
from posts they must avoid, and no post is lost by blending.

### phoenix (`src/references/phoenix`)

Transformer retrieval and ranking: array code with no concurrency or state
machine.

### xsim and the cockpit (`src/xsim`, `src/simulator/app.py`)

| part | state | operations |
|---|---|---|
| `core/state.py` | agents, posts, scenarios, engagements, ticks, counters | create society, inject scenario, clear, reset, save, restore |
| `core/engine.py` | the tick in progress | per agent: rank, decide, materialize; file the tick |
| `core/behavior.py` | the RNG of a behavior | deterministic and LLM decisions |
| `core/comparison.py` | two clones | run both for the same number of ticks |
| `core/simulation.py` | none | feed ranking, first wave of a scenario |
| `simulator/app.py` | the session | one click, one operation |

Hard: posts enter the state during a tick and engagements after it; ids in six
places that must resolve after any sequence of clears, saves and restores; two
clones beside the live experiment. Correct when: every id resolves and a
comparison changes nothing but its clones.

## 2. Modules and code

| module | component | lines it stands for |
|---|---|---|
| `GroxJobs` | what the dispatcher promises (abstract) | - |
| `GroxDispatch` | dispatcher, engine, generators, Kafka loader, main's shutdown | `grox/*.py`, `generators/`, `data_loaders/kafka_loader.py` |
| `GroxDispatchProofs` | theorems about `GroxDispatch` | - |
| `GroxAsr` | the transcriber that media tasks share | `data_loaders/asr_processor.py` |
| `GroxPlans` (extends `GroxAsr`) | plan master, plans, tasks, retries, rate limits | `plans/`, `tasks/` |
| `GroxPlansProofs` | theorems about `GroxPlans` | - |
| `PostStore` | the store, the listeners' use of it, finalize, trim, reads | `thunder/posts/post_store.rs`, `config.rs` |
| `ThunderService` (extends `PostStore`) | the gRPC handler over the store | `thunder/thunder_service.rs` |
| `ThunderServiceProofs` | theorems about the store (`PostStore`), the handler, and the store while it is read | - |
| `ThunderStartup` | listener threads and main up to readiness | `tweet_events_listener_v2.rs`, `main.rs`, `kafka_utils.rs` |
| `ThunderFeeder` | the listener that feeds the in-network topic | `tweet_events_listener.rs`, `kafka/utils.rs` |
| `ThunderFeederProofs` | the theorem about `ThunderFeeder` | - |
| `ThunderStartupProofs` | theorems about `ThunderStartup` | - |
| `CandidatePipeline` | stages and components of any pipeline | `candidate-pipeline/*.rs` |
| `HomeData` | records of posts, queries, candidates, items | `home-mixer/models`, the conversions |
| `HomeQuery` | servers' building of a query, query hydrators | `server.rs`, `query_hydrators/` |
| `HomeSources` | sources of both pipelines | `sources/` |
| `HomeHydrators` | candidate hydrators, cached or not | `candidate_hydrators/` |
| `HomeRanking` | filters, scorers, top-k | `filters/`, `scorers/`, `selectors/` |
| `AdsBlender` | both ads blenders | `ads/` and the blender selector |
| `HomeOperatorProofs` | what the blenders make of posts and ads, and the other operators of candidates | - |
| `HomeEffects` | side effects | `side_effects/` |
| `HomeMixer` | both pipelines, requests, stores, caches | `candidate_pipeline/*.rs`, `for_you_server.rs` |
| `HomeMixerProofs` (extends `HomeOperatorProofs`) | theorems about `HomeMixer` | - |
| `Experiment` | state, engine, behaviors, comparison, buttons | `xsim/core/*.py`, `simulator/app.py` |
| `ExperimentProofs` | theorems about `Experiment` | - |
| `MC...` | values of the constants for TLC | - |

The modules of home-mixer form a chain, `CandidatePipeline`, `HomeData`,
`HomeQuery`, `HomeSources` (with `AdsBlender`), `HomeHydrators`, `HomeRanking`,
`HomeEffects`, `HomeMixer`, each extending the one before. Only the last has
variables; the others are operators, one for each component of the code, from a
query and candidates to what the component makes of them.

Operators marked `Mutant:` in a comment are variants of the definition after
them with a plausible bug. They are used by no specification; substituted for
the original they make a property fail, and so show what it depends on.

### GroxDispatch

The dispatcher process is an asyncio event loop, so an action is one stretch of a
coroutine between two awaits that really suspend; the engine process is separate
and its actions interleave freely. `main` is the progress of `main.serve()`
through its shutdown; both shutdown events and the life of the manager process
are functions of it.

| variable | code |
|---|---|
| `backlog`, `fetching`, `loaded` | Kafka, a poll in progress, `KafkaLoader.queue` |
| `loaderDown`, `dead`, `weights` | a loader's shutdown event, a generator killed by an exception, keys of `_weights` |
| `cache`, `inFlight` | keys of `_result_cache`; `_in_flights` |
| `fill`, `held` | where `_fill_loop` is, and the payload it waits with |
| `taskQ`, `running`, `respQ`, `engineUp` | the queues and the engine's coroutines |
| `looping` | `_result_loop` has not returned |
| `resolved`, `runs`, `lost` | history for the properties |

A poll in progress ends in `PrefetchEnd`, which queues the batch, or, when one of its
messages is `Malformed`, in `PrefetchFails`: `_process_messages` raises, the error is
logged and the whole batch is gone while the stream goes on.

Points a reader may stumble over: `PollPayload` submits in the same step when
there is room because nothing suspends in between; `fill = "spinning"` is the
loop over an empty pool, which awaits nothing that suspends and starves every
other coroutine (`LoopFree`); `HandleRetry` does not look at `max_in_flight`;
`EngineExits` is possible while tasks run, which are then cancelled without an
answer; `Cleanup` drops whatever the queues hold. The weights of the random
draw are not modelled, only that every stream in the pool may be drawn. A
payload's id is a fresh uuid, so payload and id are one value. The rate limiter
delays a stream and is part of the choice of when it is drawn.

`ImplementsJobs` states that all this implements `GroxJobs`: a payload is
`waiting`, `inFlight` or `resolved`, it is admitted below the limit, started at
most `MaxAttempts + 1` times and resolved once. The mapping takes `status` from
`resolved` and `inFlight` and `started` from `runs`; everything about queues,
loaders and shutdown is a stutter.

### GroxPlans and GroxAsr

These open the box that `GroxDispatch` calls running a task. An execution is a pair
of payload and attempt, since the dispatcher hands a failed payload to an engine
again (`Execute`). `plans` says of each eligible plan whether it runs, succeeded or
raised; `tasks` has the state of each task, "waiting" to "success", "skipped" or
"failed". `Graph` has the edges that each plan class lists, and `TASK_DEPENDENCIES`
makes of them, as `plan.py` does, the dependencies of each task; `Ancestors`, which
only a property uses, is the smallest set that holds a task's dependencies and is
`Closed` under them. A step is what one
coroutine does between awaits that others can observe: `FilterTask` decides by
what the filter of that plan looks at, `RateLimitTask` takes or meets the mark of
its post, `Work` stands for a task whose only effect is a call that answers or
fails (the retries of tenacity are inside it), `Publish` for one attempt of a sink.
`Stores` says which stores a sink writes to and in which order, from the plan, the post
and what the plan's model found of it (`finding`). An attempt that raises leaves what it
had written, with a store in `LosingAnswers` also the write whose answer did not come,
and tenacity runs the task again while it has `Tries` left; `published` keeps each write
with its execution and attempt, so none hides another. `PlanFails` is
`asyncio.gather` raising the first exception while the other tasks run on, and
`Conclude` is `merge_results` and what `engine.py` makes of it. `Expire` ends a mark
of 60 seconds.

In `GroxAsr` a post is transcribed once for all who ask: the future in `_inflights`
is shared, the answer goes to the cache, a failure to all waiters.

`GroxPlans` is not an INSTANCE inside `GroxDispatch`: the two meet in the outcome of
a task, which `GroxDispatch` leaves open, and in `MaxAttempts`. That any sequence of
outcomes is possible there includes all that `GroxPlans` produces.

### PostStore

One action does at most one DashMap operation. A listener thread takes a batch
(`TakeBatch`: `insert_posts` filters and sorts it) and then goes through
`CheckDeleted`, `StorePost`, `ReferPost`, `DecideVideo`, `PushVideo` for a create
and `RemovePost`, `FlagDeleted`, `BuryPost` for a delete. `finalize_init` sorts,
trims and sweeps; afterwards the auto-trim task repeats the trim. `Guarded` is
the DashMap guard that a scan or a trim keeps on the deque of one user: others
that want to write to it wait. A read is two stages for posts and one for videos,
each post looked up and then checked; `request_timeout` may strike before any
user.

A post id stands for the post, and `Light` gives its fields. Deques are
sequences of (id, time), `Tinies` of what was polled. `Orders` are the ways to take
some places of a sequence one after the other and `Arrange` what one of them gives:
`Sortings` are those that ascend in time, all of them, since the sort is unstable,
and `InOrder` those that keep the order of the batch. The trimmer's `u64` subtraction
is modelled with its wrap: `Expired`. `early` is history: the posts that a trim took
for old because of the wrap, which the properties except and finding 3 is about.
Tombstones are filed under `DeleteKey` as in the code. `clear()` has no caller in
the repository.

### ThunderService

The handler is composed with the store: its reads are the reads of `PostStore`,
and the listeners and the trimmer go on beside it. `handler` is where the future
of a call is ("strato" while it awaits the following list, "await" while its
blocking task is queued or runs, "gone" when its client hung up), `task` where the
blocking task is. `Hangup` drops the future and with it the permit; the task, once
started, runs to its end for nobody (`EndTask`). `Accept` takes a permit or, in
`Reject`, sheds the call. `ScoreRecent` is `score_recent`: the newest first, cut to the maximum.
`flagged` and `due` are history: what was deleted when a call came in, and what was
there to read from then on.

### ThunderStartup

Messages are counted: `backlog`, `left`, `buffer`, `done`. A thread connects (or
panics), polls up to a batch, measures its lag, takes a permit once it has caught
up, works a batch off and may send its signal. `catchup` says what became of the
signal: "lost" is the case that `init_data_downloaded` is set at a poll whose
batch is not full. A poll may return less than a batch although there is more:
the consumer fetches with a time-out (`kafka_utils.rs`). A failed poll only sleeps
and is a stutter. A message that cannot be parsed is skipped and counts as handled. One
without an event makes the blocking task panic before it has inserted anything
(`BatchPanics`): the batch is in `panics` and not in `done`, and since nobody looks at
how the task ended the thread goes on, signal included, as after `FinishBatch`. `RecvNone` is the answer of a channel all of whose senders are gone,
which main's loop counts like a signal. This is the serving mode; the other mode
sets its readiness at once.

### ThunderFeeder

`Log` is what lies on the partitions of each thread. `position` is where the consumer
polls next, `committed` what is committed; the message buffer is the part of the
log between. `ProcessBatch` turns a full buffer into its set of in-network events
and starts a task for each, `sends`, which come back in any order and either reach
the topic (`network`) or fail and are logged (`failed`). `Commit` waits for all of
them. `Panics` collects the ways a thread dies: no consumer, a message without the
fields the code unwraps, offsets that cannot be committed; the process goes on
without it. `Restart` starts the process again at the committed offsets. `expired`
holds the posts so old that their deletion is announced to nobody.

### home-mixer

`reqs[r]` is one request: `stage` goes from "idle" through "built", "asked",
"hydrated", "fetched", "enriched", "ranked" and "selected" to "answered". The
actions are the stages of the two pipelines: `Build`, `HydrateForYou`,
`HydratePhoenix`, `Fetch`, `Hydrate`, `Rank`, `PostSelect`, `Respond`; a request for
scored posts starts at "asked" and ends after `PostSelect`. Within a stage the
components run in parallel on the same input and are joined before the next one,
so what they read is read at the beginning of the stage. What other requests can
change is the state outside: `history`, `timestamps`, `posts_cache` and the
`caches` of the process, which are read when a stage begins and written when it
ends, so another request's step may fall between lookup and insert (`found` is
what the lookup gave). `CachePosts`, `RecordServed`, `ForgetServed` and
`StampRequest` are the side effects that write; they run behind the response in
any order and after any delay. Those that only publish are values of `published`.

A scenario fixes a request: what the client asks, the surface, the data of the
viewer, feature switches, ads, and `faults`, the set of calls that fail. A fault of a
whole client is `<<call, 0>>`, of one key `<<call, id>>`. An Option is a set of at most
one element (`None`, `Some`, `Get`), so a field that a failed hydrator leaves unset
is there to be seen by the filters after it. `Partition`, `HydrateEach`,
`CachedHydrate`, `SplitOff` and `Select` are the stages of `candidate_pipeline.rs`, of
its default methods and of `hydrator.rs`: a hydrator with an answer of the wrong
length changes no candidate, a filter that is disabled removes none, `non_selected`
gets what is cut. Scores are integers in percent of the weights; their order is
what the selector uses, ties included (the sort is stable). `AdsBlender` has both
blenders as functions from posts and ads to items; `HomeRanking` all the filters.

### Experiment

A session is one thread, a click runs to its end before the next one, so the
buttons are actions that need `Idle` and `run` is the `engine.run(steps)` in
progress. A tick is split into `Decide` (one agent's turn), one
`MaterializeOriginal` or `MaterializeEngagement` for each action decided on, and
`EndTick`, because a post is visible to the agents that come later in the same
tick while its engagement is filed at the end. `exps` holds the live experiment
and, during and after a comparison, its two clones; `saved` is the JSON file
downloaded last.

Abstractions: dice, scores and clocks decide which post an agent comes to, and
the model offers all; "like" stands for every engagement without a post; texts,
personas, follow edges and timestamps are left out; a uuid is the next number;
the result of a comparison is forgotten at the next click, as nothing reads it
back into the experiment.

## 3. Runs

| run | instance | question |
|---|---|---|
| `grox_dispatch` | 4 payloads, one of them malformed, a stream that goes on and one that raises, 1 slot, 1 retry, fairness | safety, refinement, liveness, what may be lost when |
| `grox_plans` | 16 arrivals of one or two payloads of a post, 1 retry, 1 expiry, Kafka may lose an answer | what is published, what is reported |
| `post_store_races` | a video created, deleted and delivered again, 2 threads, seconds 1 to 5, retention 1, fairness | leaks, doubles, reclamation |
| `post_store_wrap` | the same, seconds 0 to 2 | finding 3 |
| `thunder_service` | an original and a reply to it, 2 threads, 2 calls, 1 permit | what an answer holds, permits |
| `thunder_startup` | 2 threads, 1 or 2 partitions, batch 2, 1 permit, backlog up to 4, 1 late message, 1 panic per thread, fairness | signals, readiness |
| `thunder_lost_signal` | the same, smaller | finding 2 |
| `thunder_feeder` | 2 threads, 5 and 3 events of every kind, batch 2, poll 3, 1 restart | commits |
| `home_mixer` | 2 overlapping requests, 8 posts, caches on | what requests do to each other |
| `for_you` | 1 request, 13 posts, both blenders, seven sets of ads, failing lookups | the blended feed |
| `home_quote_cache` | 2 requests, one failing lookup | finding 1 |
| `experiment` | 2 agents, 5 ids, 2 ticks, 1 scenario, LLM on | the log, its history, saves and comparisons |

What the passing runs show:

* `grox_dispatch`. `TypeOK`. `InFlightBound`: the limit holds although only the
  fill loop checks it. `InFlightTracked`: `_in_flights` is exactly what is on its way
  through queues and engine, so no slot leaks. `RunsMatchAttempt`: the attempt
  counts executions through both queues. `ResolvedOnce`: a resolved payload does not
  come back. `ImplementsJobs`. `EveryMessageResolves` under no signal, whatever tasks
  answer and although the other stream raises, but for what was polled together with a
  malformed message. `LosslessShutdownEnds`: a signalled dispatcher that loses nothing
  comes to an end with an empty cache. `LossesBounded`, before, during and after the
  shutdown: what was submitted is lost only once the shutdown event is set and the
  engine or the manager is gone, nothing acknowledged is lost, and a stream drops no
  more than a batch for each malformed message, the batch its loader was stopped in and
  the message its generator raised on. One slot
  makes a payload wait for room while another is run and retried; two streams, one
  with three payloads and one whose generator raises, give a live stream beside a dead
  one; one retry distinguishes first, last and no attempt; the shutdown may begin
  anywhere and all its stages interleave with the rest. Several slots and several
  healthy streams are what the theorems of section 6 add.
* `grox_plans`. `OnlyEligiblePublished`: nothing gets past a filter, neither by the
  tasks a failed plan leaves behind nor by a retry. `PublishedPerWindow`:
  duplicates, retries and left-over tasks together publish from one execution per mark,
  and that one writes to a store no more often than its task is tried.
  `SuccessAccountsForPlans`: each plan of a reported success did all its tasks, or its
  filter stops the post, or another execution had the limit, which may itself have
  failed (see section 5). `EveryExecutionEnds`: with a verdict, and with no task waiting
  for ever. The arrivals contain every plan; for every filter a post that passes, for
  those of the banger, spam and ranking plans one that is stopped, and for the summary
  of replies one at which it raises; no finding, a plain one and spam; and for the two
  plans that share something two payloads of one post. Several marks, posts and
  expiries are what the theorems of section 6 add.
* `post_store_races`. `PostsReferenced` and `FlagsBuried`: whatever is in `posts` or
  `deleted_posts` will be found by the trimmer, or somebody is between two steps
  that make it so. `NoDoubleReference`: a redelivered create adds no reference
  unless a deletion is under way. `FlagOutlivesPost`: a deletion is forgotten only
  when the post is too old to come back. `EverythingReclaimed`: in the end the
  store is empty. Two threads are what a race takes; the post is old enough to be
  inserted in second 2, when it may be deleted as well, and expires in second 3 with
  a retention of 1, its tombstone a second later; main may finalize or trim in any of
  them, with a clock it read in an earlier one. Replies are in `thunder_service`;
  retweets, and what any number of posts, threads and seconds can do, are in the
  theorems of section 6.
* `thunder_service`. `AnswerHidesDeleted`: no answer has a post that was flagged
  when the call came in. `NothingNewerMissed`: what an answer leaves out (an original, or
  a reply to an original that was there as well) is cut off by posts at least as new,
  provided that nobody wrote more than a read takes and scans of one author
  (`RoomForAll`, true of this instance). `PermitsAreBack`: every way out
  of the handler gives its permit back once. One permit for two calls makes one wait outside; the client of
  one may leave at any time; a debug call that asks Strato and a video call take all
  paths through the handler. The run lasts one second and its posts are younger than
  the retention, so the trimmer walks beside the reads and pops nothing, and no create
  comes twice; reads beside trims and redeliveries are in the theorems.
* `thunder_startup`. `SignalsAccount`: main counts real signals while a listener
  lives. `FinalizedAfterCatchUp`: then every thread has caught up and its initial
  backlog is in the store but for less than a batch per partition and for the batches
  that panicked, of which it misses no more than a full buffer each. `ServesAfterCatchUp`:
  without a lost signal or a dead thread the server gets ready. A backlog of 4 with
  batches of 2 gives full, partial and several batches; one permit for two threads
  makes them wait; with one partition the second thread is not spawned.
* `thunder_feeder`. `CommittedIsHandled`: no event below a committed offset is
  forgotten. `FullBatchesGetThrough`: only a dead thread, or a buffer short of a
  batch, keeps events back for ever. A poll of 3 with batches of 2 gives a buffer
  that overshoots; the log of one thread ends in a message that kills it; the
  deletions lie on another thread's partitions than the posts.
* `home_mixer`. `NothingRepeats`: a request further down repeats nothing of the
  response it read from the history, not even as a retweet's original or from the
  cache, unless there was more to read than `served_number` ids, which the hydrator
  cuts off. `AskedForOnly`: a cache filled by one request gives another only what that
  one asks for; a video may get through only where its look-up failed, in the request or
  in the one that filled the cache. `BestOfConversation`: one post of a conversation, the best scored that
  visibility leaves. `KeepsNewestHistory`: truncation behind one response does not
  delete what another recorded meanwhile. `CachedFromOneRequest`: no mixture of
  requests in Redis, and serving it does not keep it alive. `ModulesRest`:
  who-to-follow pauses. Two requests, since each property is about one request and
  what another left; three first and six second scenarios, with times between them
  on both sides of the expiries.
* `for_you`. `AdsSafe`, `AdSpacing`, `NoClashBesideAds`, `FeedKeepsPosts`: the feed
  that comes out of filters, scores and a blender, for each set of ads, each subset of
  four failing label lookups, either blender, each brand-safety setting, and all the
  optional sources, scorers and effects. A feed of at most 13 items cuts some of them short. `EveryRequestAnswered`, `EffectsEnd`: whatever
  fails. Nine posts in the network are enough for three ads with their distance and
  a tail; one post is low risk, one quotes a medium one and one is a retweet. The caches
  are empty: a verdict that another request cached is not met here, but in `AdsStandSafely`.
* `experiment`. `EverythingResolves`: every id resolves after any sequence of
  clicks. `ComparisonBranchesLive`: a comparison starts from what is live and leaves
  it alone. Five ids are two agents and three posts: an original, a reply and a reply
  to the reply by the first author. Two ticks make a history. `MaxKept = 1` keeps
  saves and comparisons to runs of at most one tick; both then meet a live
  experiment that is ahead of or behind them; clones of a longer history, which must keep
  it as their beginning, are left to `ComparisonAside`.

Every bound is a constant of a configuration: `MaxBacklog`, `MaxProduced`, `MaxPanics`
(ThunderStartup), `StartTime`, `EndTime`, `Skew`, `Feed`, `Requests` (PostStore), `Asked`,
`Leaving` (ThunderService), `Log`, `MaxRestarts` (ThunderFeeder), `Arrivals`,
`MaxExpiries` (GroxPlans), `Scenarios`, `Past`, `World` (HomeMixer), `MaxId`,
`MaxTicks`, `MaxScenarios`, `MaxKept` (Experiment). GroxDispatch is finite by its
payloads. `Limits` of HomeMixer are not bounds of the model but the sizes of
`params.rs`, which the repository does not have; they are chosen small enough that
every cut, expiry and threshold is met.

Deadlock checking is off where the system really stops: grox after its shutdown;
an engine with nothing to do; the store after its last second with nothing left to
poll; a Thunder whose listeners have all panicked and whose main is ready; a feeder
whose log is exhausted; a home-mixer that has answered. It is on for `experiment`
and `thunder_lost_signal`.

## 4. Fairness

* GroxDispatch. Weak fairness for each loop and coroutine: event loops run what is
  ready, and `PlanMaster.exec` is assumed to return or raise. Strong fairness for
  drawing a stream and a payload, because `random.choices` gives every stream in
  the pool a positive weight and the queue is first in, first out; weak fairness for
  each poll of a loader, which ends in a batch, an error or its cancellation. No fairness for
  the signal, which may never come, and none for the outcome of a task, which may
  fail every time. `LiveSpec` adds that main's sleeps and joins time out.
* GroxPlans. Weak fairness for the engine as a whole (`EngineStep`): its event loop
  goes on as long as a coroutine can, and clients and transcribers answer or fail.
  None for arrivals, retries or expiries. Every run of the engine is finite between
  two of those, so no coroutine is starved by it.
* PostStore. Threads and trimmer are tasks nothing stops; strong fairness since a
  guard they wait for is held for one user only and comes free.
* ThunderStartup. Tasks run; tokio's semaphore is fair, hence strong fairness for
  a permit; a broker asked again and again delivers what it has and tells the lag,
  hence strong fairness for a poll that returns something and for `CheckLag`.
* ThunderFeeder. Weak fairness for each thread, whose poll delivers something in
  the end. None for restarts, for the success of a send, or against panics.
* HomeMixer. Weak fairness for the stages of each request and for its side effects:
  the runtime polls every task that can go on and every client call answers, fails
  or times out. It is written with the guards in place of ENABLED (`Working`,
  `CanFinish`), which is the same because what follows a guard assigns every variable.
* ThunderService and Experiment have no liveness property of their own: a client
  need not call, a user need not click.

## 5. Findings and observations

Each finding is a run that TLC refutes, and the counterexample follows the code.

1. **A cached quote outlives a failed lookup** (`home_quote_cache`,
   `quote_hydrator.rs:112`). `AuthorSocialgraphFilter` is documented to remove posts
   of blocked authors, quoted ones included. The quote hydrator caches what it found
   under the id of the post, also when the lookup of the quoted post or of the
   relation to its author had failed; a later request in which every call answers
   takes the gap from the cache, and the filter lets the post through.
2. **Lost signal** (`thunder_lost_signal`, `tweet_events_listener_v2.rs:194`). The flag
   is set at a poll with a small lag whether or not the batch is full, the signal
   is sent only for a full batch and never again. Main then waits for ever, for
   instance on a topic that holds less than a batch.
3. **A trim takes a new post for an old one** (`post_store_wrap`,
   `post_store.rs:438`). `trim_old_posts` reads the clock once (line 418) and is
   documented to trim "posts older than retention period from all users" (line 407).
   The age is a difference of `u64`; for a post created after that reading and inserted
   while the trim goes on it wraps, the post counts as older than anything and leaves
   its author's timeline and `posts` at once. With overflow checks the task panics.
   The same happens to a tombstone stamped ahead of the trim's clock, on another
   host or since: the deletion is forgotten while its post is young.

Seen while modelling, not stated as runs. In grox:

* After a broken pipe the log says "shutting down" (`dispatcher.py:277`), but
  `_poll_result` returns `None`, which the loop takes for an empty queue; what the
  engine or the queues lost keeps `_in_flights` non-empty, and the loop polls for
  ever.
* A task "failed after {max_attempts} attempts" was run `max_attempts + 1` times
  (`dispatcher.py:313`).
* A payload no plan is eligible for, such as those of POST_STREAM_DELAYED, makes
  `merge_results` take `min` of nothing and is retried as a failure.
* A retry meets the rate-limit mark its first execution took, is skipped, reported as a
  success and acknowledged with nothing published, although the first execution failed
  after the mark. `SuccessAccountsForPlans` names this case, no property denies it.
* Sinks write to one store, raise at the next and are run again from the first
  (`task_write_mm_embedding_sink.py:34`, `task.py:31`): labels, scores and embeddings are
  written up to two or three times by one execution, and stay when all its attempts fail.
* One message that cannot be converted costs its stream the whole polled batch
  (`kafka_loader.py:122`); the stream goes on and only the log knows.
* The PTOS sink reads `ctx.safemodel_sex_nudity`, which no context has: it raises
  every time, its results are never written, and the retry is rate-limited.
* An exception out of a task's dependency leaves that task's own future unresolved;
  its dependents end only by the plan's cancellation.
* Transcripts are cached by post, so the second video of a post gets the first's.

In thunder:

* `sort_all_user_posts` is documented "newest first" (`post_store.rs:478`) and sorts
  ascending; the scan from the back is right for that order.
* A redelivered create that passed the check before a delete finds no post
  afterwards and adds a second reference (`post_store.rs:122`).
* Deques are in order of arrival, not of creation, once listeners append after
  `finalize_init`, so an old reference behind a young one is trimmed late and the
  capped scan need not see the newest posts.
* A post created in the current second is dropped by the retention filter. A retweet
  inserted before its source never gets into the video timeline.
* The join error of a batch's blocking task is dropped (`tweet_events_listener_v2.rs:222`),
  so a message without an event costs the store its whole batch, at the start too.
* With all consumers dead, `recv` answers `None` and the server gets ready on an
  empty store. With fewer threads spawned than asked for (5 threads on 8
  partitions give 4 blocks) it never gets ready.
* Messages that do not fill a batch stay in a thread's buffer until more arrive.
* The permit of a call whose client hangs up is free while its blocking task runs
  on, so more than `max_concurrent_requests` reads may be at work.
* `thunder_service.rs` fetches the following list only if `req.debug` is set, which
  the comment above does not say.
* The feeder logs a failed send and commits all the same. A listener that panics
  leaves the process up, though its message calls it critical; after a restart the
  same message kills it again and its partitions stand still.

In home-mixer:

* A post that TES does not know is cached as such by the core-data hydrator.
* Verdicts of brand safety are cached by the id of the post though they depend on
  the quoted one.
* The hydrator of impressed posts is built and handed to no pipeline.

In the simulator:

* A wave nobody joins leaves the size of an earlier one on display (`state.py:87`).
* The cockpit makes a new behavior for each click, so ten clicks of one tick and
  one click of ten ticks differ; a scenario's first wave is seeded with a fresh
  uuid and cannot be reproduced from the seed; `feed_diversity_window = 0` slices
  `[-0:]`, the whole list; the comparison stays on display after a reset; a click
  during a long run starts a second script run on the same session.

## 6. Theorems

`GroxDispatchProofs` proves, for any finite set of payloads, any streams and any
limits (`PayloadsAssumption`, `StreamsAssumption`, `LimitsAssumption`, all evaluated
by TLC on its instance):

| theorem | statement |
|---|---|
| `TypeCorrect` | `Spec => []TypeOK` |
| `InFlightBounded` | `Spec => []InFlightBound` |
| `Conservation` | `Spec => [](SingleCopy /\ InFlightTracked /\ CacheCovers)` |
| `Accounting` | `Spec => []RunsMatchAttempt` |
| `BoundedLoss` | `Spec => []LossesBounded` |
| `ResolvedForGood` | `Spec => ResolvedOnce` |
| `Refinement` | `Spec => ImplementsJobs` |

None of the safety properties is inductive. `InFlightBound` needs to know that a
retried payload is in `inFlight` already (`InFlightTracked`); that in turn needs
`SingleCopy`, or resolving one copy would untrack another; `SingleCopy` needs that
a payload on its way in was never submitted (`Undelivered`) and that what is
resolved has left (`ResolvedGone`); `CacheCovers` needs to know what the fill loop
holds (`HoldingOK`); that nothing submitted is lost early needs that loaders stop only
after a signal (`StopAfterSignal`). `PipelineInv` is the conjunction of these, and also
the type invariant, which carries the bound on the attempt of a task. `SingleCopy` and
`CacheCovers` are checked by no run on their own: they are part of what is proved.
What is dropped before it is submitted needs `LoadersOK` besides: a stream that did not
raise leaves the pool only once its loader is stopped, a poll in progress is at most a
batch, and when the loader is stopped this batch is already within what the stream may
drop (`AtRisk`). `IInv` is both.

Layout: lemmas on queues (what `Append` and `Tail` do to the set of entries and to
the distinctness of ids), types per group of actions, one lemma that leaves the
pipeline alone, one for the loaders, one for submitting, then one per process, the
losses on their own (`RiskKept` for a step that drops nothing, `RiskOfBatch` for a batch),
and the induction in `PTL`. `ResolvedOnce` is an action property from `IInv`. The
refinement maps the initial state, shows for each action that it is an `Admit`, a
`Start`, a `Resolve` or a stutter, and takes the bounds for `Admit` and `Start` from
`RoomInFlight` and `RunsMatchAttempt`.

`ThunderFeederProofs` proves, for any threads, posts, log, sizes and number of
restarts (`LogAssumption`, `SizeAssumption`):

| theorem | statement |
|---|---|
| `CommitsForgetNothing` | `Spec => []CommittedIsHandled` |

`CommittedIsHandled` is about offsets below the committed one, and a commit moves
that: it needs to know what became of the events between, while their sends come
back in any order and time makes deletions unnecessary. `BatchesUnderWay` says so
for a thread that is about to commit: each event of its buffer needs no sending,
is still being sent, was sent, or failed and was logged. With the order of
the offsets (`Offsets`) that is inductive. The lemmas `StaysHandled`,
`CommittedStays`, `UnderWayStays` and `QuietStep` take care of everything that
neither announces nor commits, so that only `ProcessBatch` and `Commit` are left
to argue about.

`ThunderStartupProofs` proves, for any number of threads, partitions, permits and
messages (`CountsAssumption`):

| theorem | statement |
|---|---|
| `TypeCorrect` | `Spec => []TypeOK` |
| `SignalsCounted` | `Spec => []SignalsAccount` |
| `NoEarlyFinalize` | `Spec => []FinalizedAfterCatchUp` |

That a message in the channel counts a new thread needs to know that a thread about
to send holds its signal (`StageOK`). That the store is full enough when main leaves
its wait needs three things: main has counted as many signals as there are threads
(`MainCounted`), so by `SignalsCounted` each thread has signalled; every message of a
thread is on its partitions, in its buffer, in the store or in a batch that panicked,
and such a batch was at most a full buffer (`Conserved`, `Missing`);
and at the poll at which a thread caught up, its lag was below its allowance, so what
it held and had stored was more than the rest (`Stored`, which follows the batch from
the buffer into the store or into a panic). `PermitsAccount`, a permit is free or with a thread, is
what bounds the permits. `Conserved` is also what bounds the counters, so types and
invariant are one induction. Cardinalities of sets of threads come from the library's theorems
on finite sets. The last two theorems are about a time at which a listener lives; without one
main counts closed channels, see section 5.

The first part of `ThunderServiceProofs` proves, for any posts, users, feeds of any number of threads, seconds
and retention, under what the constants of `PostStore` are assumed to be
(`FeedAssumption`: a create carries the time of its post, a delete is stamped later):

| theorem | statement |
|---|---|
| `TypeCorrect` | `Spec => []TypeOK` |
| `PostsStayReferenced` | `Spec => []PostsReferenced` |
| `FlagsStayBuried` | `Spec => []FlagsBuried` |
| `ReferredOnce` | `Spec => []NoDoubleReference` |
| `FlagsOutlivePosts` | `Spec => FlagOutlivesPost` |

`TypeOK` is about the maps, the listeners and the trim; a read writes none of them and its
own variables are left out. With types, the two theorems after it are inductive: a step that takes a post's only reference
away is that of the trimmer, and leaves the trimmer about to remove the post.
`NoDoubleReference` speaks of deques only, and says nothing of a thread that is about
to push. `PlacedOnce` does: a post that is not excused (deleted, about to be, too old,
or trimmed early) is placed by at most one thread, which has not referred to it yet
where it is about to, and by nobody while it is not stored; so the answer of
`posts.insert` decides who refers to it. A post that the trimmer removes is no longer
excused by its flag, hence `TrimmedExcused`: what the trimmer has popped is too old, or
was popped early. Excuses last (`ExcusedStep`) because nothing but the trimmer takes a
flag away, which is `FlagOutlivesPost`, an action property from the same invariant.
The lemmas below it (`SortingKeeps`, `PushKeeps`, `PopKeeps`) say what a
sort, a push and a pop leave in a deque.

The rest of it proves, of the store with its handlers, for any calls, permits,
following lists and sizes:

| theorem | statement |
|---|---|
| `StoreWhileRead` | `ServiceSpec => [](PostsReferenced /\ FlagsBuried)` |
| `PermitsComeBack` | `ServiceSpec => []PermitsAreBack` |
| `DeletedStayHidden` | `ServiceSpec => []AnswerHidesDeleted` |
| `NewestAnswered` | `ServiceSpec => []NothingNewerMissed` |

The steps of the store are those of the first part, and a read writes none of its
variables, so `IInv` carries over. `PermitsCounted` adds that the handlers at work are
finitely many. `HiddenFrom` follows a call's deleted posts from its arrival to the
answer: each is still flagged, or has become excepted; what the read has collected,
and what it has checked and is about to take, holds none that is not excepted; and
what the finished task has found holds none either. That needs to know whose read it
is (`TaskTypeOK`), since a client may leave and its task read on, and that the flag
is looked at after the post is found.

`NewestAnswered` has a second invariant, `NewerInv`, on top of `SInv`. A read that takes
so many posts of an author misses none only if no timeline gets longer, however creates
are delivered again, raced or trimmed. `Accounted` says so: there is an injection of the
`Slots` of an author's timeline (creates still to poll, creates a thread holds and has
not referred to yet, references in the timeline) into the creates of the feed. Each step
of a writer moves slots or drops some (`SlotsStep`: a batch is taken, a post is referred
to, a reference popped), so the injection composes, and `TimelineBound` bounds the
timeline by what was written; this takes a finite number of listener threads
(`FeedAssumption`). `Dues` says that what was there when the call came in still is,
unless it is excused; `Seeks` that a read in time has every such post behind it in what
it collected, or before it (`Pending`): in the scan it is in, in a timeline still to
scan or in the second stage; with room left for all of the scan it is in. `SeekRead`
goes through the steps of a read, `ScanHasAll` says what a scan contains, and
`CutsKeepNewest` what sorting and cutting leave. A reply is looked up with its parent,
so `Shown` asks for the parent to be there all the while too.

`GroxPlansProofs` proves, for any payloads, arrivals, retries and expiries:

| theorem | statement |
|---|---|
| `EligibleOnly` | `Spec => []OnlyEligiblePublished` |
| `BoundedPerWindow` | `Spec => []PublishedPerWindow` |
| `SuccessAccounted` | `Spec => []SuccessAccountsForPlans` |

First the graphs, which are facts about the code alone: in each plan, whatever
publishes has the filter and the rate limit before it on every way to it (`GuardsFirst`,
from one lemma per plan class). Then the invariant: along each graph a task that
succeeded has dependencies that all did, and a filter that succeeded had a post to let
through (`EachInOrder`); whatever was written belongs to a task all of whose
dependencies succeeded, in an attempt it has made (`PublishedByTask`), and no task has
more attempts than its tries (`AttemptsLeft`); the executions that a limit let through
for a key are no more than its marks that have expired and the one it has (`LimitKeeps`);
a mark was set by one of them (`MarksAreSet`), so that a limit that skipped an execution
had let through another (`SkipsAccounted`); a plan that is reported
as a success has no task that failed (`SuccessMeansDone`); whoever awaits a transcript
is an ASR task of that post that listens (`ListenersListen`), without which the step
that answers all listeners could move a task that is already over. Every step is a
`Moves`: tasks keep their verdicts once they have one, and take one only when their
dependencies allow it. `EligibleOnly` then follows along the graph from a published
task to its filter, and `BoundedPerWindow` from its rate limit to the count of executions
and, as the writes to one store differ in execution or attempt, to the count of writes.
`SuccessAccounted` is that a success has only tasks that succeeded or were skipped, and
every skip its reason.

`ExperimentProofs` proves, for any topics, interests of the society, ticks of a run,
posts per agent, and any bounds of the model, with and without language model:

| theorem | statement |
|---|---|
| `TypeCorrect` | `Spec => []TypeOK` |
| `IdsResolve` | `Spec => []EverythingResolves` |
| `ComparisonAside` | `Spec => ComparisonBranchesLive` |

`InterestsAssumption`, `LimitsAssumption` and `NoIdAssumption` say that an archetype has
an interest, that limits are numbers and that `None` is no id. The types of the proof
have natural numbers for ids; the bound on uuids only keeps TLC's instance finite.
That every id resolves is not inductive, as an action decided on earlier in a tick
turns into an engagement or a reply later (`Resolving`): the posts that pending actions
refer to must still be there, the posts that the tick has made must be in the
experiment before the tick record names them, and the file must resolve, since
`ReplaceRun` makes it the live experiment. The lemmas are about sequences (what
`Append`, concatenation and `Tail` do to the set of entries, and what is a prefix of
what) and about `Resolves`: it survives whatever keeps the agents, adds posts and
adds entries that resolve (`ResolvesGrows`). `RestStep` is the step of a click that
leaves one experiment, `TickStep` that of a running engine. No more agents are reached
than there are, since each is at a position of the list (`ReachedBound`). For the
comparison, `Comparing` adds that both clones extend the live experiment at every
step, that the ticks run and the ticks left make the ticks asked for, and that the
variant is untouched until the baseline is done.

`HomeOperatorProofs` is about operators, not about steps. Next to the lemmas on filters,
hydrators, sources, scorers and selectors which `HomeMixerProofs` needs it proves, for any
posts and any ads whose requested positions are numbers:

| theorem | statement |
|---|---|
| `SafeGapBlended` | what `SafeGapBlend` makes of posts and ads is `Blended` |
| `PartitionBlended` | so is what `PartitionOrganicBlend` makes of them |

`Blended` says all that is known of a feed without looking at the blender again: its
posts are drawn from the given ones and in their order where the blender keeps it
(`Drawn`), none is missing while there was room; its ads are drawn from the given ones;
each ad has a post on both sides that is not to be avoided and, in the partition blender,
does not clash with it (`Guarded`; the other blender does not look at keywords); and two ads are as far apart as the blender promises (`SpacedBy`). Both
blenders are recursions over ads, in one of which the gap taken last decides which gaps
are still far enough away, in the other the triples of two posts and an ad
that were formed take posts from those that follow. `AdsPlaced` goes through the first
and `TriplesPaired` through the second; `FindSafeGaps` only has gaps between two safe
posts and `SplitByAvoid` only pairs posts that are safe. What flattening rows into a
strip leaves in which place is `FlattenPlaces` and the lemmas `GroupsLaidOut` and
`Interleaved` on it: an item's place determines its row and its place in that row, so
neighbours in the strip are neighbours in a row or the end and the beginning of two.
The end of the feed is cut (`Finish` takes `ResultSize`, then drops an ad that would be last), and
`BeginsGuarded` and `BeginsSpaced` say what that leaves.

`HomeMixerProofs` proves, for any requests with any scenarios, any services, limits and
past of the viewer:

| theorem | statement |
|---|---|
| `NewestHistoryKept` | `Spec => []KeepsNewestHistory` |
| `CachedPostsHaveOneOrigin` | `Spec => []CachedFromOneRequest` |
| `BestOfConversationShown` | `Spec => []BestOfConversation` |
| `AdsAreSpaced` | `Spec => []AdSpacing` |
| `NoAdClashes` | `Spec => []NoClashBesideAds` |
| `NoPostIsLost` | `Spec => []FeedKeepsPosts` |
| `OnlyWhatWasAskedFor` | `Spec => []AskedForOnly` |
| `AdsStandSafely` | `Spec => []AdsSafe` |
| `ModulesAreRested` | `Spec => []ModulesRest` |
| `PagesDoNotRepeat` | `Spec => []NothingRepeats` |

`LimitsAssumption` and `RequestsAssumption` say that limits, times and the gaps between
requests are numbers and that the history is finite, and that a past response is a
sequence of entries with a sequence of ids each. Requests delete from the history
what they read themselves, after others have recorded and deleted. What they read stays
in order and out of what was recorded (`ReadInOrder`), and what was recorded only grows;
so what is behind as many responses in what a request read is behind as many in all that
was recorded since (`SkippedAreOld`). The lemmas before the theorem sort: a finite set
with a total order has its elements at the ranks from 1 (`RanksNumber`), so a set of
numbers has an `Ascending` sequence, and the client's answer is the history, newest
first (`ReadingSorts`). `BecomesMeans` says what a stage leaves of a request.

`CachedFromOneRequest` compares what one request carries with what another carried when it
ended, so its invariant follows candidates through the whole pipeline. `WorkInv` says
that a request fetches for itself or carries what Redis held under its key (`Backed`);
that until the cache is asked it carries nothing, and from then on candidates which,
unless they came from the cache, bear its own prediction or none (`InShape`, `Own`);
that every entry in Redis is from a request which ended and fetched for itself
(`FromOther`); and that the hydrators' caches hold nothing that names another post or
scores one (`CachesHarmless`). The last is needed because what one request caches, a
hydrator merges into another's candidates. What ended stays as it is (`Stays`), so an
origin is not lost while requests overlap. The rest are lemmas on each stage, for any
list of candidates: merging, scoring under a prediction, filtering, sorting and
selecting leave candidates to their owner (`HydratorsKeep`, `Scored`, `FiltersSift`,
`Chosen`). That sorting rearranges needs scores that are numbers, hence `Weights` and
the relevances of `WorldAssumption`; that a request served from the cache has posts at
all needs `min_cached > 0` (500 in the code). Where the code loops and the
model recurses along the numbers, `Iterates` says that the recursion has a value and
`StaysIn` what it ends in.

`BestOfConversation` is about the last stage, but not even that originals are shown once
follows from that stage alone: posts from the cache come with the scores they had, and
the conversation filter compares what the filters before it left. `BestInv`, on top of
the other two invariants, says that candidates of which two are one post have no score
yet (`Once`), as fresh ones have none and those in Redis are different posts; that what
the selector chose and what it left are different posts (`TwoParts`), which is why what
a request writes into Redis names no post twice; that what was removed before the
selection has no score or is not of the selection (`Out`); and that no verdict in the
cache of brand safety speaks of a retweet (`QuietEntries`), or a hydrator behind the
selection could make two posts share an original. `Drawn` (elements of a list, each
taken once) is what filters, sorting and cuts have in common, `Parted` what a filter
does with its two results, and `BestStays` the loop of the conversation filter: of every
conversation it has seen it keeps a candidate that is below none it removed.

The three theorems on feeds add to those invariants that an answered request still
carries the candidates its posts were made of and the items that were blended from
those posts (`FedInv`); what each action changes in a request is stated once
(`BuildMoves` to `FinishMoves`). `StripBegins` takes the blended feed through what
follows it, the modules and the cut at `for_you_size`: without the modules, what is shown is the
beginning of what the blender laid out, and all of it unless the cut was made. So
`CutShort` is part of the properties: a cut may leave an ad at the end and drop posts,
which is what the code does when `for_you_size` is small.

`AskedForOnly` and `AdsSafe` speak of what is known of a post, by whom and since when: a
candidate may be what another request fetched, with the author, the video and the
verdict that request found; and what one request learnt of a post, the process's caches
tell another. `TruthInv` says that all of it is true. A candidate is `Sound`: its author
is followed if its key is one for the followed (`Meant`), it is without a video only if
its post is, or if the look-up failed in a request of that key (`Filmed`), what it
quotes is what the post quotes unless that look-up failed (`Quotes`), and a verdict
better than medium means that requests which ended have cleared the post and what it
quotes (`Judged`). What the filters passed, `Passed` says again; and the caches of
hydrators say nothing untrue (`CachesTrue`), since whatever a hydrator inserts in them
it was told by a service (`InsertedTrue`, `AfterSelectionCaches`). A reason once given
lasts (`ReasonsStay`), as scenarios and keys stay and what ended stays ended
(`Grown`); that is why `Judged` waits for the end of the request: until then its
verdicts are in no other's hands. `ToldInv` follows what a query was told of its viewer,
of which hydrators change nothing but what they are there for. A step then has to show
it for what it changes (`OneTruthful`), hydrators for what they merge
(`NovelBecomesSound`: core data, quote, video and subscription of a fresh candidate make
it sound, whichever of them failed or was cached). `WorldAssumption` says of replies
that they name posts by number.

`ModulesRest` and `NothingRepeats` follow a response into the history and out of it
again. `KeptInv` says that what any request or the past has recorded can be read: a
list of entries with a list of ids each (`Entered`), as they are written
(`EntriesOfFeed`) and as a request reads them (`ReadingReads`, `ReadingKeeps`). It also
says that only an answered request with a feed has a history to write, so that what is
written are the items of that feed. `EntriesOfItem` says what is written of an item: a post's
entries name the post and its original, also when it is a retweet in a conversation;
and a module of people to follow that is shown is not empty, so it is written as such.
What a recent response names is among the recent ids, wherever in the joined lists it
stands (`RecentNames`), and none of them is cut away when a request takes at least as
many (`AllTaken`). The rest comes from invariants above: from `ToldInv`, that what was
read is what the filters and the module's source were told (`HasRead`), as no later
hydrator overwrites it; and from `Passed`, that the filter ran on fresh candidates and
cached ones alike.

## 7. Only model-checked, and not modelled

Only model-checked: liveness (`EveryMessageResolves`, `LosslessShutdownEnds`,
`EveryExecutionEnds`, `EverythingReclaimed`, `ServesAfterCatchUp`,
`FullBatchesGetThrough`, `EveryRequestAnswered`, `EffectsEnd`), which is outside the
prover's reach. The safety properties the passing runs check are all theorems.

Not modelled:

* phoenix: array code without state machine; the models' answers are relevances of
  the world's posts.
* grox: classifiers, embedders, summarizers, prompts and clients, whose answer or
  failure is a choice; the crash of an ASR worker process and `stop()` of its
  processor; loaders other than Kafka's, which share its interface.
* thunder: metrics, arguments, wire formats beyond the cases a message can be;
  `skip_to_latest`, which is off; a panic of the blocking task of a read;
  `PostStore.clear()`, which nobody calls.
* home-mixer: query hydrators of demographics, IP, gender, starter packs and inferred
  topics, and candidate hydrators of media, language, gizmoduck, jaccard and tweet
  type, which fill fields that only scorers' inputs and metrics read; engagement
  counts and the statistics on mutual follows; the old scorers and
  `cache_request_info`, which are in no pipeline. The sizes of `params.rs` are not in
  the repository, hence `Limits`; `for_you_size` is taken to be larger than
  `result_size`.
* xsim: the ranking of a feed, a deterministic score in floating point, of which
  `Experiment` needs only that any visible post may be come to; analytics and
  clients of language models, which only read or whose answer is a choice.
* HTTP clients, metrics, rendering, and what Streamlit does with concurrent script
  runs.
