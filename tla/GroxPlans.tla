------------------------------ MODULE GroxPlans ------------------------------
(***************************************************************************)
(* What an engine does with one payload: PlanMaster.exec runs every plan   *)
(* the payload is eligible for (plan_master.py), a plan runs its tasks     *)
(* along a graph of dependencies (plan.py), and a task filters, limits,    *)
(* loads, asks a model or publishes (tasks/).  Payloads of one post arrive *)
(* on several streams, and the dispatcher hands a payload that failed to   *)
(* an engine again, so several executions share the rate limits and the    *)
(* transcriber.                                                            *)
(*                                                                         *)
(* A step is what one coroutine does between two awaits that others can    *)
(* observe.  Clients answer or fail; prompts, scores and the content of    *)
(* what is published are left out, but not which stores it goes to and how *)
(* often.  The environment is production, where no task is disabled, and   *)
(* the follower threshold, "" in the source, is taken for a number.        *)
(***************************************************************************)
EXTENDS Naturals, Sequences, FiniteSets, GroxAsr

CONSTANTS
    Payloads,
    Arrivals,       \* what may arrive: a set of functions from some of the payloads to Payload
    MaxAttempts,    \* executions after the first the dispatcher grants a payload
    MaxExpiries,    \* bound of the model: marks that run out of their 60 seconds
    LosingAnswers   \* the stores that may carry a call out and not answer: it raises

\* What the filters look at; "target" is the post replied to, and the root of its thread.
Post == [id : Posts, reply : BOOLEAN, protected : BOOLEAN, toSelf : BOOLEAN,
         popularTarget : BOOLEAN, targetKnown : BOOLEAN, videos : 0 .. 2]

-----------------------------------------------------------------------------
(* The plans *)

\* The dependencies of a plan as pairs: a task and one that depends on it.
Chain(s) == {<<s[i], s[i + 1]>> : i \in 1 .. Len(s) - 1}

SummaryTasks == <<"rate_limit", "filter", "media", "summarizer", "embedding", "mm_sink">>

Graph ==
    [PlanInitialBanger |->
        Chain(<<"filter", "rate_limit", "media", "banger_screen", "annotations", "kafka">>)
            \cup {<<"banger_screen", "upa_action">>},
     PlanPostSafety |->
        Chain(<<"filter", "rate_limit", "media", "safety_screen", "bool_metadata">>)
            \cup {<<"safety_screen", "upa_action">>},
     PlanSpamComment |->
        Chain(<<"filter", "rate_limit", "media", "spam_detection", "spam_manhattan">>)
            \cup {<<"spam_detection", "kafka">>},
     PlanReplyRanking |->
        Chain(<<"filter", "rate_limit", "media", "rank_replies", "ranking_manhattan">>),
     PlanSafetyPtos |->
        Chain(<<"filter", "rate_limit", "media", "ptos_category", "ptos_policy", "ptos_sink">>),
     PlanPostEmbeddingWithSummary |-> Chain(SummaryTasks),
     PlanPostEmbeddingWithSummaryForReply |-> Chain(SummaryTasks),
     PlanPostEmbeddingV5 |->
        Chain(<<"rate_limit", "media", "asr", "embedding", "mm_sink">>),
     PlanPostEmbeddingV5ForReply |->
        Chain(<<"rate_limit", "filter", "media", "asr", "embedding", "mm_sink">>)]

ALL_PLANS == DOMAIN Graph
TASK_DEPENDENCIES ==
    [plan \in ALL_PLANS |->
        [t \in UNION {{edge[1], edge[2]} : edge \in Graph[plan]} |->
            {edge[1] : edge \in {e \in Graph[plan] : e[2] = t}}]]
Tasks(plan) == DOMAIN TASK_DEPENDENCIES[plan]
Deps(plan, t) == TASK_DEPENDENCIES[plan][t]

Publishing == {"annotations", "kafka", "upa_action", "bool_metadata", "spam_manhattan",
               "ranking_manhattan", "ptos_sink", "mm_sink"}

\* The tasks that may raise before they have done anything another execution could see:
\* tenacity makes the attempt again (not for those that ask a model), and a step of one
\* of these is its last attempt.  Those that publish are not among them.
AskingModels == {"banger_screen", "safety_screen", "spam_detection", "rank_replies",
                 "ptos_category", "ptos_policy", "summarizer"}
Working == AskingModels \cup {"media", "embedding"}

\* How often tenacity tries a task that publishes.
Tries(t) == IF t = "mm_sink" THEN 3 ELSE 2

-----------------------------------------------------------------------------
(* What a task publishes *)

\* What the model a plan asks may find; a post that is spam also earns a label.
Findings == {"nothing", "plain", "spam"}
Finding  == {"banger_screen", "safety_screen", "spam_detection", "rank_replies", "ptos_category"}

SummaryPlans == {"PlanPostEmbeddingWithSummary", "PlanPostEmbeddingWithSummaryForReply"}

\* The stores one attempt writes to, in this order.  A task that finds nothing in its
\* context to publish returns at once.
Stores(plan, t, post, found) ==
    CASE t = "mm_sink" -> IF plan \in SummaryPlans THEN <<"summary", "embedding", "topic">>
                          ELSE IF plan = "PlanPostEmbeddingV5" /\ post.reply THEN <<"embedding">>
                          ELSE <<"embedding", "kafka">>
      [] t # "mm_sink" /\ found = "nothing" -> <<>>
      [] t = "ranking_manhattan" /\ found = "plain" -> <<"score", "kafka">>
      [] t = "ranking_manhattan" /\ found = "spam"  -> <<"labels", "score", "kafka">>
      [] t = "spam_manhattan" /\ found = "spam"     -> <<"labels", "annotation">>
      [] t = "ptos_sink" /\ found # "nothing"        -> <<"labels", "result">>
      [] OTHER -> <<t>>

-----------------------------------------------------------------------------
(* The filters *)

TargetsOther(post) == post.reply /\ post.targetKnown /\ ~post.toSelf

\* What a filter says of a post: it passes, it stops the plan, or it raises because it
\* reads the author of a target that has none.
Passes(plan, post) ==
    CASE plan \in {"PlanInitialBanger", "PlanPostSafety", "PlanPostEmbeddingWithSummary"} ->
            ~post.reply /\ ~post.protected
      [] plan = "PlanSpamComment"  -> TargetsOther(post) /\ ~post.popularTarget
      [] plan = "PlanReplyRanking" -> TargetsOther(post) /\ post.popularTarget
      [] plan \in {"PlanPostEmbeddingWithSummaryForReply", "PlanPostEmbeddingV5ForReply"} ->
            post.reply /\ ~post.protected
      [] OTHER -> TRUE
FilterRaises(plan, post) ==
    /\ plan \in {"PlanPostEmbeddingWithSummaryForReply", "PlanPostEmbeddingV5ForReply"}
    /\ post.reply /\ ~post.targetKnown

-----------------------------------------------------------------------------
(* Executions *)

\* "findings" is what the models may find of the post.
Payload == [post : Post, eligibilities : SUBSET ALL_PLANS, deluxe : BOOLEAN,
            findings : SUBSET Findings]

ASSUME ArrivalsAssumption ==
    \A arrival \in Arrivals : /\ DOMAIN arrival \subseteq Payloads
                             /\ arrival \in [DOMAIN arrival -> Payload]
ASSUME BoundsAssumption == MaxAttempts \in Nat /\ MaxExpiries \in Nat

VARIABLES
    payload,    \* [payloads that arrive -> Payload]
    verdict,    \* what PlanMaster.exec has come to for an execution
    plans,      \* [execution -> [eligible plans -> "running", "ok" or "error"]]
    tasks,      \* [execution -> [eligible plans -> [tasks -> TaskState]]]
    video,      \* [execution -> [eligible plans -> videos the transcription has handled]]
    marks,      \* the keys in the TTL caches of the rate limits
    expiries,   \* how often each key has expired
    finding,    \* [execution -> [eligible plans -> what the model of the plan found]]
    raised,     \* [execution -> [eligible plans -> [tasks -> attempts to publish that raised]]]
    published   \* the writes: plan, key, task, store, execution and attempt

vars == <<payload, verdict, plans, tasks, video, marks, expiries, finding, raised, published,
          asrVars>>

Executions == Payloads \X (0 .. MaxAttempts)

Settled == {"success", "skipped", "failed", "cancelled"}
\* "listening": awaits a transcript; "heard": has one and has not resumed yet.
TaskState == {"waiting", "listening", "heard"} \cup Settled
NoTasks == <<>>

\* One cache per plan and, for the PTOS plan, per kind of stream.
RateLimit(e, plan) == <<plan, plan = "PlanSafetyPtos" /\ payload[e[1]].deluxe>>
PostIn(e) == payload[e[1]].post
Key(e, plan) == <<RateLimit(e, plan), PostIn(e).id>>
Keys == {<<<<plan, deluxe>>, post>> : plan \in ALL_PLANS, deluxe \in BOOLEAN, post \in Posts}

Init ==
    /\ payload \in Arrivals
    /\ verdict = [e \in Executions |-> "none"]
    /\ plans = [e \in Executions |-> NoTasks]
    /\ tasks = [e \in Executions |-> NoTasks]
    /\ video = [e \in Executions |-> NoTasks]
    /\ marks = {}
    /\ expiries = [k \in Keys |-> 0]
    /\ finding = [e \in Executions |-> NoTasks]
    /\ raised = [e \in Executions |-> NoTasks]
    /\ published = {}
    /\ AsrInit

State(e, plan, t) == tasks[e][plan][t]
EndTask(e, plan, t, st) == tasks' = [tasks EXCEPT ![e][plan][t] = st]

\* PlanMaster.exec: the payload enters every plan it is eligible for.
Execute(e) ==
    LET eligible == payload[e[1]].eligibilities
    IN  /\ verdict[e] = "none" /\ e[1] \in DOMAIN payload
        /\ e[2] > 0 => verdict[<<e[1], e[2] - 1>>] = "failure"
        /\ verdict' = [verdict EXCEPT ![e] = "running"]
        /\ plans' = [plans EXCEPT ![e] = [plan \in eligible |-> "running"]]
        /\ tasks' = [tasks EXCEPT ![e] =
                        [plan \in eligible |-> [t \in Tasks(plan) |-> "waiting"]]]
        /\ video' = [video EXCEPT ![e] = [plan \in eligible |-> 0]]
        /\ finding' = [finding EXCEPT ![e] = [plan \in eligible |-> "nothing"]]
        /\ raised' = [raised EXCEPT ![e] = [plan \in eligible |-> [t \in Tasks(plan) |-> 0]]]
        /\ UNCHANGED <<payload, marks, expiries, published, asrVars>>

-----------------------------------------------------------------------------
(* A task, once its dependencies have answered *)

Waiting(e, plan, t) == State(e, plan, t) = "waiting"
DepStates(e, plan, t) == {State(e, plan, d) : d \in Deps(plan, t)}
Ready(e, plan, t) == Waiting(e, plan, t) /\ DepStates(e, plan, t) \subseteq {"success"}

\* Mutant: a dependency that was skipped counts as one that succeeded.
SkipPasses(e, plan, t) ==
    /\ Waiting(e, plan, t) /\ "skipped" \in DepStates(e, plan, t)
    /\ EndTask(e, plan, t, "success")
    /\ UNCHANGED <<payload, verdict, plans, video, marks, expiries, finding, raised, published, asrVars>>

SkipTask(e, plan, t) ==
    /\ Waiting(e, plan, t) /\ "skipped" \in DepStates(e, plan, t)
    /\ EndTask(e, plan, t, "skipped")
    /\ UNCHANGED <<payload, verdict, plans, video, marks, expiries, finding, raised, published, asrVars>>

\* The exception of a dependency goes through this task too, but not into its future:
\* what depends on it waits on, until the plan ends.
PassFailureOn(e, plan, t) ==
    /\ Waiting(e, plan, t) /\ "failed" \in DepStates(e, plan, t)
    /\ EndTask(e, plan, t, "cancelled")
    /\ UNCHANGED <<payload, verdict, plans, video, marks, expiries, finding, raised, published, asrVars>>

FilterTask(e, plan) ==
    /\ "filter" \in Tasks(plan) /\ Ready(e, plan, "filter")
    /\ EndTask(e, plan, "filter",
               IF FilterRaises(plan, PostIn(e)) THEN "failed"
               ELSE IF Passes(plan, PostIn(e)) THEN "success" ELSE "skipped")
    /\ UNCHANGED <<payload, verdict, plans, video, marks, expiries, finding, raised, published, asrVars>>

\* Mutant: the limit does not remember the post.
AdmitUnmarked(e, plan) == UNCHANGED marks
\* The post is marked before the work it is marked for.
Admit(e, plan) == marks' = marks \cup {Key(e, plan)}

RateLimitTask(e, plan) ==
    /\ Ready(e, plan, "rate_limit")
    /\ \/ /\ Key(e, plan) \in marks
          /\ EndTask(e, plan, "rate_limit", "skipped")
          /\ UNCHANGED marks
       \/ /\ Key(e, plan) \notin marks
          /\ EndTask(e, plan, "rate_limit", "success")
          /\ Admit(e, plan)
    /\ UNCHANGED <<payload, verdict, plans, video, expiries, finding, raised, published, asrVars>>

\* Sixty seconds after it was set, a mark is gone.
Expire(k) ==
    /\ k \in marks /\ expiries[k] < MaxExpiries
    /\ marks' = marks \ {k}
    /\ expiries' = [expiries EXCEPT ![k] = @ + 1]
    /\ UNCHANGED <<payload, verdict, plans, tasks, video, finding, raised, published, asrVars>>

\* Hydration, models and embedders: they answer or raise.
Work(e, plan, t) ==
    /\ t \in Working /\ Ready(e, plan, t)
    /\ \/ /\ EndTask(e, plan, t, "success")
          /\ IF t \in Finding
             THEN \E f \in payload[e[1]].findings : finding' = [finding EXCEPT ![e][plan] = f]
             ELSE UNCHANGED finding
       \/ /\ EndTask(e, plan, t, "failed")
          /\ UNCHANGED finding
    /\ UNCHANGED <<payload, verdict, plans, video, marks, expiries, raised, published, asrVars>>

\* An attempt that got as far as its first n writes.
Write(e, plan, t, stores, n) ==
    published' = published \cup
        {[plan |-> plan, key |-> Key(e, plan), task |-> t, store |-> stores[i], by |-> e,
          attempt |-> raised[e][plan][t] + 1] : i \in 1 .. n}

\* An attempt writes to its stores one after the other.  When it raises, what was written
\* stays, a call whose answer was lost stays too, and tenacity tries again from the first
\* store.  The PTOS sink never gets past its labels: it then reads
\* ctx.safemodel_sex_nudity, an attribute no TaskContext has.
Publish(e, plan, t) ==
    /\ t \in Publishing /\ Ready(e, plan, t)
    /\ LET stores == Stores(plan, t, PostIn(e), finding[e][plan])
       IN  \/ /\ t = "ptos_sink" => stores = <<>>
              /\ Write(e, plan, t, stores, Len(stores))
              /\ EndTask(e, plan, t, "success")
              /\ UNCHANGED raised
           \/ /\ stores # <<>>
              /\ \E n \in 0 .. Len(stores) :
                    /\ n = Len(stores) => stores[n] \in LosingAnswers /\ t # "ptos_sink"
                    /\ Write(e, plan, t, stores, n)
              /\ raised' = [raised EXCEPT ![e][plan][t] = @ + 1]
              /\ EndTask(e, plan, t, IF raised[e][plan][t] + 1 < Tries(t) THEN "waiting" ELSE "failed")
    /\ UNCHANGED <<payload, verdict, plans, video, marks, expiries, finding, asrVars>>

-----------------------------------------------------------------------------
(* The transcription task: the videos of the post one after the other *)

NextVideo(e, plan) ==
    /\ video' = [video EXCEPT ![e][plan] = @ + 1]
    /\ EndTask(e, plan, "asr", "waiting")

Transcribe(e, plan) ==
    /\ "asr" \in Tasks(plan) /\ Ready(e, plan, "asr")
    /\ LET post == PostIn(e)
       IN  \/ /\ video[e][plan] = post.videos
              /\ EndTask(e, plan, "asr", "success")
              /\ UNCHANGED <<video, asrVars>>
           \/ /\ video[e][plan] < post.videos /\ post.id \in asrCache
              /\ NextVideo(e, plan)
              /\ UNCHANGED asrVars
           \/ /\ video[e][plan] < post.videos /\ post.id \notin asrCache
              /\ EndTask(e, plan, "asr", "listening")
              /\ Submit(post.id, <<e, plan>>)
              /\ UNCHANGED video
    /\ UNCHANGED <<payload, verdict, plans, marks, expiries, finding, raised, published>>

\* Without a transcript a listener goes on at once, for it has nothing to keep.
Wake(listeners, heard) ==
    LET woken(e, plan) == <<e, plan>> \in listeners
    IN  /\ tasks' = [e \in Executions |-> [plan \in DOMAIN tasks[e] |->
                        IF ~woken(e, plan) THEN tasks[e][plan]
                        ELSE [tasks[e][plan] EXCEPT !["asr"] = IF heard THEN "heard" ELSE "waiting"]]]
        /\ video' = [e \in Executions |-> [plan \in DOMAIN video[e] |->
                        IF woken(e, plan) /\ ~heard THEN video[e][plan] + 1 ELSE video[e][plan]]]

AsrAnswer(p) ==
    /\ TakeResult(p)
    /\ \E heard \in BOOLEAN : Wake(Woken(p), heard)
    /\ UNCHANGED <<payload, verdict, plans, marks, expiries, finding, raised, published>>

KeepTranscript(e, plan) ==
    /\ "asr" \in Tasks(plan) /\ State(e, plan, "asr") = "heard"
    /\ Keep(PostIn(e).id)
    /\ NextVideo(e, plan)
    /\ UNCHANGED <<payload, verdict, plans, marks, expiries, finding, raised, published>>

-----------------------------------------------------------------------------
(* The end of a plan and of an execution *)

\* gather has a result of every task.
PlanSucceeds(e, plan) ==
    /\ plans[e][plan] = "running"
    /\ \A t \in Tasks(plan) : State(e, plan, t) \in {"success", "skipped"}
    /\ plans' = [plans EXCEPT ![e][plan] = "ok"]
    /\ UNCHANGED <<payload, verdict, tasks, video, marks, expiries, finding, raised, published, asrVars>>

\* Mutant: the futures nobody resolved stay as they are.
LeaveWaiting(e, plan) == UNCHANGED tasks
\* A future that is cancelled ends the tasks that await it.
CancelWaiting(e, plan) ==
    tasks' = [tasks EXCEPT ![e][plan] = [t \in Tasks(plan) |->
                IF Waiting(e, plan, t) /\ ~(DepStates(e, plan, t) \subseteq {"success", "skipped", "failed"})
                THEN "cancelled" ELSE @[t]]]

\* gather raises the first exception; the tasks that run, or are about to, go on.
PlanFails(e, plan) ==
    /\ plans[e][plan] = "running"
    /\ \E t \in Tasks(plan) : State(e, plan, t) = "failed"
    /\ plans' = [plans EXCEPT ![e][plan] = "error"]
    /\ CancelWaiting(e, plan)
    /\ UNCHANGED <<payload, verdict, video, marks, expiries, finding, raised, published, asrVars>>

\* Mutant: an execution is a success when one of its plans is.
OneSucceeds(e) == \E plan \in DOMAIN plans[e] : plans[e][plan] = "ok"
\* merge_results: without a result min() raises, and the engine reports a failure.
AllSucceed(e) == plans[e] # NoTasks /\ \A plan \in DOMAIN plans[e] : plans[e][plan] = "ok"

Conclude(e) ==
    /\ verdict[e] = "running"
    /\ \A plan \in DOMAIN plans[e] : plans[e][plan] \in {"ok", "error"}
    /\ verdict' = [verdict EXCEPT ![e] = IF AllSucceed(e) THEN "success" ELSE "failure"]
    /\ UNCHANGED <<payload, plans, tasks, video, marks, expiries, finding, raised, published, asrVars>>

TaskStep(e, plan) ==
    \/ \E t \in Tasks(plan) : \/ SkipTask(e, plan, t) \/ PassFailureOn(e, plan, t)
                              \/ Work(e, plan, t) \/ Publish(e, plan, t)
    \/ FilterTask(e, plan) \/ RateLimitTask(e, plan)
    \/ Transcribe(e, plan) \/ KeepTranscript(e, plan)

PlanStep(e, plan) == TaskStep(e, plan) \/ PlanSucceeds(e, plan) \/ PlanFails(e, plan)

EngineStep ==
    \/ \E e \in Executions : Conclude(e) \/ \E plan \in DOMAIN plans[e] : PlanStep(e, plan)
    \/ \E p \in Posts : AsrAnswer(p)

Next ==
    \/ \E e \in Executions : Execute(e)
    \/ \E k \in Keys : Expire(k)
    \/ EngineStep

Spec == Init /\ [][Next]_vars /\ WF_vars(EngineStep)

-----------------------------------------------------------------------------
(* Properties *)

\* Everything a task depends on, directly or not: what is in every set that has its
\* dependencies and those of its members.
Closed(plan, S) == \A u \in S : Deps(plan, u) \subseteq S
Ancestors ==
    [plan \in ALL_PLANS |-> [t \in Tasks(plan) |->
        {u \in Tasks(plan) : \A S \in SUBSET Tasks(plan) :
                                 Deps(plan, t) \subseteq S /\ Closed(plan, S) => u \in S}]]

\* Whatever is published comes from an execution that was eligible for the plan, whose
\* post the plan's filter lets through, and in which every task on the way there
\* succeeded: neither a failed plan's leftover tasks nor a retry publish past a filter.
OnlyEligiblePublished ==
    \A w \in published :
        /\ w.plan \in payload[w.by[1]].eligibilities
        /\ "filter" \in Tasks(w.plan) => Passes(w.plan, PostIn(w.by))
        /\ \A t \in Ancestors[w.plan][w.task] : State(w.by, w.plan, t) = "success"

\* Duplicates of a post on several streams, retries by the dispatcher and leftover tasks
\* of a failed plan together publish a post from one execution per minute; that execution
\* repeats a write only as often as tenacity tries its task, so a store sees no more than
\* that many writes of it in a minute.
PublishedPerWindow ==
    \A w \in published :
        LET same == {v \in published : v.key = w.key /\ v.task = w.task}
        IN  /\ Cardinality({v.by : v \in same}) <= 1 + expiries[w.key]
            /\ Cardinality({v \in same : v.store = w.store}) <= Tries(w.task) * (1 + expiries[w.key])

\* What a reported success, acknowledged to the stream, stands for: each plan did all of
\* its tasks, or its filter does not let the post through, or another execution had taken
\* the plan's limit for this post.  That one may have failed: the retry of an execution
\* whose model did not answer skips the plan and is a success with nothing published.
StoppedByFilter(e, plan) ==
    /\ "filter" \in Tasks(plan) /\ State(e, plan, "filter") = "skipped"
    /\ ~Passes(plan, PostIn(e))
TakenByAnother(e, plan) ==
    /\ State(e, plan, "rate_limit") = "skipped"
    /\ \E o \in Executions \ {e} :
          /\ plan \in DOMAIN tasks[o] /\ Key(o, plan) = Key(e, plan)
          /\ State(o, plan, "rate_limit") = "success"
SuccessAccountsForPlans ==
    \A e \in Executions : verdict[e] = "success" =>
        \A plan \in DOMAIN tasks[e] :
            \/ \A t \in Tasks(plan) : State(e, plan, t) = "success"
            \/ StoppedByFilter(e, plan) \/ TakenByAnother(e, plan)

\* An execution comes to a verdict and leaves no task behind that waits for ever, on a
\* future nobody resolves or on a transcript that went to somebody else.
AllSettled(e) == \A plan \in DOMAIN tasks[e] : \A t \in Tasks(plan) : State(e, plan, t) \in Settled
EveryExecutionEnds ==
    \A e \in Executions :
        verdict[e] = "running" ~> (verdict[e] \in {"success", "failure"} /\ AllSettled(e))
=============================================================================
