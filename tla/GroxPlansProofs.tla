---------------------------- MODULE GroxPlansProofs ----------------------------
(***************************************************************************)
(* Proofs about GroxPlans: what is published, how often, and what a        *)
(* success stands for, for every value of the constants.                   *)
(***************************************************************************)
EXTENDS GroxPlans, TLAPS, FiniteSetTheorems

-----------------------------------------------------------------------------
(* The graphs of the plans *)

LEMMA Chain5 ==
    ASSUME NEW a, NEW b, NEW c, NEW d, NEW e
    PROVE  Chain(<<a, b, c, d, e>>) = {<<a, b>>, <<b, c>>, <<c, d>>, <<d, e>>}
<1> DEFINE s == <<a, b, c, d, e>>
<1>1. Len(s) = 5 /\ s[1] = a /\ s[2] = b /\ s[3] = c /\ s[4] = d /\ s[5] = e
  OBVIOUS
<1>2. 1 .. 5 - 1 = {1, 2, 3, 4} /\ 1 + 1 = 2 /\ 2 + 1 = 3 /\ 3 + 1 = 4 /\ 4 + 1 = 5
  OBVIOUS
<1> HIDE DEF s
<1>3. Chain(s) = {<<s[i], s[i + 1]>> : i \in {1, 2, 3, 4}}
  BY <1>1, <1>2 DEF Chain
<1> QED BY <1>1, <1>2, <1>3 DEF s

LEMMA Chain6 ==
    ASSUME NEW a, NEW b, NEW c, NEW d, NEW e, NEW f
    PROVE  Chain(<<a, b, c, d, e, f>>) = {<<a, b>>, <<b, c>>, <<c, d>>, <<d, e>>, <<e, f>>}
<1> DEFINE s == <<a, b, c, d, e, f>>
<1>1. Len(s) = 6 /\ s[1] = a /\ s[2] = b /\ s[3] = c /\ s[4] = d /\ s[5] = e /\ s[6] = f
  OBVIOUS
<1>2. /\ 1 .. 6 - 1 = {1, 2, 3, 4, 5}
      /\ 1 + 1 = 2 /\ 2 + 1 = 3 /\ 3 + 1 = 4 /\ 4 + 1 = 5 /\ 5 + 1 = 6
  OBVIOUS
<1> HIDE DEF s
<1>3. Chain(s) = {<<s[i], s[i + 1]>> : i \in {1, 2, 3, 4, 5}}
  BY <1>1, <1>2 DEF Chain
<1> QED BY <1>1, <1>2, <1>3 DEF s

LEMMA AllPlans ==
    ALL_PLANS = {"PlanInitialBanger", "PlanPostSafety", "PlanSpamComment", "PlanReplyRanking",
                 "PlanSafetyPtos", "PlanPostEmbeddingWithSummary",
                 "PlanPostEmbeddingWithSummaryForReply", "PlanPostEmbeddingV5",
                 "PlanPostEmbeddingV5ForReply"}
BY DEF ALL_PLANS, Graph

\* The tasks of a plan are the ends of its edges, and an edge is a dependency.
LEMMA Edges ==
    ASSUME NEW plan \in ALL_PLANS
    PROVE  /\ Tasks(plan) = UNION {{edge[1], edge[2]} : edge \in Graph[plan]}
           /\ \A t \in Tasks(plan) : Deps(plan, t) = {edge[1] : edge \in {e \in Graph[plan] : e[2] = t}}
           /\ \A a, b : <<a, b>> \in Graph[plan] =>
                 a \in Tasks(plan) /\ b \in Tasks(plan) /\ a \in Deps(plan, b)
<1>1. Tasks(plan) = UNION {{edge[1], edge[2]} : edge \in Graph[plan]}
  BY DEF Tasks, TASK_DEPENDENCIES
<1>2. \A t \in Tasks(plan) : Deps(plan, t) = {edge[1] : edge \in {e \in Graph[plan] : e[2] = t}}
  BY <1>1 DEF Deps, TASK_DEPENDENCIES
<1>3. ASSUME NEW a, NEW b, <<a, b>> \in Graph[plan]
      PROVE  a \in Tasks(plan) /\ b \in Tasks(plan) /\ a \in Deps(plan, b)
  <2>1. a \in Tasks(plan) /\ b \in Tasks(plan)
    BY <1>1, <1>3
  <2> QED BY <1>2, <1>3, <2>1
<1> QED BY <1>1, <1>2, <1>3

\* What comes before a task on every way to it.
Precedes(plan, t, u) ==
    \A S \in SUBSET Tasks(plan) : Deps(plan, t) \subseteq S /\ Closed(plan, S) => u \in S

LEMMA EdgePrecedes ==
    ASSUME NEW plan \in ALL_PLANS, NEW a, NEW b, <<a, b>> \in Graph[plan]
    PROVE  Precedes(plan, b, a) /\ \A t : Precedes(plan, t, b) => Precedes(plan, t, a)
<1>1. a \in Tasks(plan) /\ a \in Deps(plan, b)
  BY Edges
<1> QED BY <1>1 DEF Precedes, Closed

LEMMA BangerGraph ==
    LET plan == "PlanInitialBanger"
    IN  /\ Tasks(plan) = {"filter", "rate_limit", "media", "banger_screen", "annotations",
                          "kafka", "upa_action"}
        /\ \A t \in Publishing \cap Tasks(plan) :
              Precedes(plan, t, "rate_limit") /\ Precedes(plan, t, "filter")
<1> DEFINE plan == "PlanInitialBanger"
<1>1. plan \in ALL_PLANS
  BY AllPlans
<1>2. Graph[plan] = {<<"filter", "rate_limit">>, <<"rate_limit", "media">>,
                     <<"media", "banger_screen">>, <<"banger_screen", "annotations">>,
                     <<"annotations", "kafka">>, <<"banger_screen", "upa_action">>}
  BY Chain6 DEF Graph
<1> HIDE DEF plan
<1>3. Tasks(plan) = {"filter", "rate_limit", "media", "banger_screen", "annotations",
                     "kafka", "upa_action"}
  <2> DEFINE T == {"filter", "rate_limit", "media", "banger_screen", "annotations", "kafka",
                  "upa_action"}
  <2>1. \A edge \in Graph[plan] : {edge[1], edge[2]} \subseteq T
    BY <1>2
  <2>2. Tasks(plan) \subseteq T
    BY <1>1, <2>1, Edges
  <2>3. T \subseteq Tasks(plan)
    BY <1>1, <1>2, Edges
  <2> QED BY <2>2, <2>3
<1>4. \A a, b : <<a, b>> \in Graph[plan] =>
         Precedes(plan, b, a) /\ \A t : Precedes(plan, t, b) => Precedes(plan, t, a)
  BY <1>1, EdgePrecedes
<1>5. \A t \in {"annotations", "kafka", "upa_action"} :
         Precedes(plan, t, "rate_limit") /\ Precedes(plan, t, "filter")
  BY <1>2, <1>4
<1>6. Publishing \cap Tasks(plan) = {"annotations", "kafka", "upa_action"}
  BY <1>3 DEF Publishing
<1> QED BY <1>3, <1>5, <1>6 DEF plan

LEMMA SafetyGraph ==
    LET plan == "PlanPostSafety"
    IN  /\ Tasks(plan) = {"filter", "rate_limit", "media", "safety_screen", "bool_metadata",
                          "upa_action"}
        /\ \A t \in Publishing \cap Tasks(plan) :
              Precedes(plan, t, "rate_limit") /\ Precedes(plan, t, "filter")
<1> DEFINE plan == "PlanPostSafety"
<1>1. plan \in ALL_PLANS
  BY AllPlans
<1>2. Graph[plan] = {<<"filter", "rate_limit">>, <<"rate_limit", "media">>,
                     <<"media", "safety_screen">>, <<"safety_screen", "bool_metadata">>,
                     <<"safety_screen", "upa_action">>}
  BY Chain5 DEF Graph
<1> HIDE DEF plan
<1>3. Tasks(plan) = {"filter", "rate_limit", "media", "safety_screen", "bool_metadata",
                     "upa_action"}
  <2> DEFINE T == {"filter", "rate_limit", "media", "safety_screen", "bool_metadata",
                  "upa_action"}
  <2>1. \A edge \in Graph[plan] : {edge[1], edge[2]} \subseteq T
    BY <1>2
  <2>2. Tasks(plan) \subseteq T
    BY <1>1, <2>1, Edges
  <2>3. T \subseteq Tasks(plan)
    BY <1>1, <1>2, Edges
  <2> QED BY <2>2, <2>3
<1>4. \A a, b : <<a, b>> \in Graph[plan] =>
         Precedes(plan, b, a) /\ \A t : Precedes(plan, t, b) => Precedes(plan, t, a)
  BY <1>1, EdgePrecedes
<1>5. \A t \in {"bool_metadata", "upa_action"} :
         Precedes(plan, t, "rate_limit") /\ Precedes(plan, t, "filter")
  BY <1>2, <1>4
<1>6. Publishing \cap Tasks(plan) = {"bool_metadata", "upa_action"}
  BY <1>3 DEF Publishing
<1> QED BY <1>3, <1>5, <1>6 DEF plan

LEMMA SpamGraph ==
    LET plan == "PlanSpamComment"
    IN  /\ Tasks(plan) = {"filter", "rate_limit", "media", "spam_detection",
                          "spam_manhattan", "kafka"}
        /\ \A t \in Publishing \cap Tasks(plan) :
              Precedes(plan, t, "rate_limit") /\ Precedes(plan, t, "filter")
<1> DEFINE plan == "PlanSpamComment"
<1>1. plan \in ALL_PLANS
  BY AllPlans
<1>2. Graph[plan] = {<<"filter", "rate_limit">>, <<"rate_limit", "media">>,
                     <<"media", "spam_detection">>, <<"spam_detection", "spam_manhattan">>,
                     <<"spam_detection", "kafka">>}
  BY Chain5 DEF Graph
<1> HIDE DEF plan
<1>3. Tasks(plan) = {"filter", "rate_limit", "media", "spam_detection", "spam_manhattan",
                     "kafka"}
  <2> DEFINE T == {"filter", "rate_limit", "media", "spam_detection", "spam_manhattan",
                  "kafka"}
  <2>1. \A edge \in Graph[plan] : {edge[1], edge[2]} \subseteq T
    BY <1>2
  <2>2. Tasks(plan) \subseteq T
    BY <1>1, <2>1, Edges
  <2>3. T \subseteq Tasks(plan)
    BY <1>1, <1>2, Edges
  <2> QED BY <2>2, <2>3
<1>4. \A a, b : <<a, b>> \in Graph[plan] =>
         Precedes(plan, b, a) /\ \A t : Precedes(plan, t, b) => Precedes(plan, t, a)
  BY <1>1, EdgePrecedes
<1>5. \A t \in {"spam_manhattan", "kafka"} :
         Precedes(plan, t, "rate_limit") /\ Precedes(plan, t, "filter")
  BY <1>2, <1>4
<1>6. Publishing \cap Tasks(plan) = {"spam_manhattan", "kafka"}
  BY <1>3 DEF Publishing
<1> QED BY <1>3, <1>5, <1>6 DEF plan

LEMMA RankingGraph ==
    LET plan == "PlanReplyRanking"
    IN  /\ Tasks(plan) = {"filter", "rate_limit", "media", "rank_replies",
                          "ranking_manhattan"}
        /\ \A t \in Publishing \cap Tasks(plan) :
              Precedes(plan, t, "rate_limit") /\ Precedes(plan, t, "filter")
<1> DEFINE plan == "PlanReplyRanking"
<1>1. plan \in ALL_PLANS
  BY AllPlans
<1>2. Graph[plan] = {<<"filter", "rate_limit">>, <<"rate_limit", "media">>,
                     <<"media", "rank_replies">>, <<"rank_replies", "ranking_manhattan">>}
  BY Chain5 DEF Graph
<1> HIDE DEF plan
<1>3. Tasks(plan) = {"filter", "rate_limit", "media", "rank_replies", "ranking_manhattan"}
  <2> DEFINE T == {"filter", "rate_limit", "media", "rank_replies", "ranking_manhattan"}
  <2>1. \A edge \in Graph[plan] : {edge[1], edge[2]} \subseteq T
    BY <1>2
  <2>2. Tasks(plan) \subseteq T
    BY <1>1, <2>1, Edges
  <2>3. T \subseteq Tasks(plan)
    BY <1>1, <1>2, Edges
  <2> QED BY <2>2, <2>3
<1>4. \A a, b : <<a, b>> \in Graph[plan] =>
         Precedes(plan, b, a) /\ \A t : Precedes(plan, t, b) => Precedes(plan, t, a)
  BY <1>1, EdgePrecedes
<1>5. \A t \in {"ranking_manhattan"} :
         Precedes(plan, t, "rate_limit") /\ Precedes(plan, t, "filter")
  BY <1>2, <1>4
<1>6. Publishing \cap Tasks(plan) = {"ranking_manhattan"}
  BY <1>3 DEF Publishing
<1> QED BY <1>3, <1>5, <1>6 DEF plan

LEMMA PtosGraph ==
    LET plan == "PlanSafetyPtos"
    IN  /\ Tasks(plan) = {"filter", "rate_limit", "media", "ptos_category", "ptos_policy",
                          "ptos_sink"}
        /\ \A t \in Publishing \cap Tasks(plan) :
              Precedes(plan, t, "rate_limit") /\ Precedes(plan, t, "filter")
<1> DEFINE plan == "PlanSafetyPtos"
<1>1. plan \in ALL_PLANS
  BY AllPlans
<1>2. Graph[plan] = {<<"filter", "rate_limit">>, <<"rate_limit", "media">>,
                     <<"media", "ptos_category">>, <<"ptos_category", "ptos_policy">>,
                     <<"ptos_policy", "ptos_sink">>}
  BY Chain6 DEF Graph
<1> HIDE DEF plan
<1>3. Tasks(plan) = {"filter", "rate_limit", "media", "ptos_category", "ptos_policy",
                     "ptos_sink"}
  <2> DEFINE T == {"filter", "rate_limit", "media", "ptos_category", "ptos_policy",
                  "ptos_sink"}
  <2>1. \A edge \in Graph[plan] : {edge[1], edge[2]} \subseteq T
    BY <1>2
  <2>2. Tasks(plan) \subseteq T
    BY <1>1, <2>1, Edges
  <2>3. T \subseteq Tasks(plan)
    BY <1>1, <1>2, Edges
  <2> QED BY <2>2, <2>3
<1>4. \A a, b : <<a, b>> \in Graph[plan] =>
         Precedes(plan, b, a) /\ \A t : Precedes(plan, t, b) => Precedes(plan, t, a)
  BY <1>1, EdgePrecedes
<1>5. \A t \in {"ptos_sink"} :
         Precedes(plan, t, "rate_limit") /\ Precedes(plan, t, "filter")
  BY <1>2, <1>4
<1>6. Publishing \cap Tasks(plan) = {"ptos_sink"}
  BY <1>3 DEF Publishing
<1> QED BY <1>3, <1>5, <1>6 DEF plan

LEMMA SummaryGraph ==
    LET plan == "PlanPostEmbeddingWithSummary"
    IN  /\ Tasks(plan) = {"rate_limit", "filter", "media", "summarizer", "embedding",
                          "mm_sink"}
        /\ \A t \in Publishing \cap Tasks(plan) :
              Precedes(plan, t, "rate_limit") /\ Precedes(plan, t, "filter")
<1> DEFINE plan == "PlanPostEmbeddingWithSummary"
<1>1. plan \in ALL_PLANS
  BY AllPlans
<1>2. Graph[plan] = {<<"rate_limit", "filter">>, <<"filter", "media">>,
                     <<"media", "summarizer">>, <<"summarizer", "embedding">>,
                     <<"embedding", "mm_sink">>}
  BY Chain6 DEF Graph, SummaryTasks
<1> HIDE DEF plan
<1>3. Tasks(plan) = {"rate_limit", "filter", "media", "summarizer", "embedding", "mm_sink"}
  <2> DEFINE T == {"rate_limit", "filter", "media", "summarizer", "embedding", "mm_sink"}
  <2>1. \A edge \in Graph[plan] : {edge[1], edge[2]} \subseteq T
    BY <1>2
  <2>2. Tasks(plan) \subseteq T
    BY <1>1, <2>1, Edges
  <2>3. T \subseteq Tasks(plan)
    BY <1>1, <1>2, Edges
  <2> QED BY <2>2, <2>3
<1>4. \A a, b : <<a, b>> \in Graph[plan] =>
         Precedes(plan, b, a) /\ \A t : Precedes(plan, t, b) => Precedes(plan, t, a)
  BY <1>1, EdgePrecedes
<1>5. \A t \in {"mm_sink"} :
         Precedes(plan, t, "rate_limit") /\ Precedes(plan, t, "filter")
  BY <1>2, <1>4
<1>6. Publishing \cap Tasks(plan) = {"mm_sink"}
  BY <1>3 DEF Publishing
<1> QED BY <1>3, <1>5, <1>6 DEF plan

LEMMA ReplySummaryGraph ==
    LET plan == "PlanPostEmbeddingWithSummaryForReply"
    IN  /\ Tasks(plan) = {"rate_limit", "filter", "media", "summarizer", "embedding",
                          "mm_sink"}
        /\ \A t \in Publishing \cap Tasks(plan) :
              Precedes(plan, t, "rate_limit") /\ Precedes(plan, t, "filter")
<1> DEFINE plan == "PlanPostEmbeddingWithSummaryForReply"
<1>1. plan \in ALL_PLANS
  BY AllPlans
<1>2. Graph[plan] = {<<"rate_limit", "filter">>, <<"filter", "media">>,
                     <<"media", "summarizer">>, <<"summarizer", "embedding">>,
                     <<"embedding", "mm_sink">>}
  BY Chain6 DEF Graph, SummaryTasks
<1> HIDE DEF plan
<1>3. Tasks(plan) = {"rate_limit", "filter", "media", "summarizer", "embedding", "mm_sink"}
  <2> DEFINE T == {"rate_limit", "filter", "media", "summarizer", "embedding", "mm_sink"}
  <2>1. \A edge \in Graph[plan] : {edge[1], edge[2]} \subseteq T
    BY <1>2
  <2>2. Tasks(plan) \subseteq T
    BY <1>1, <2>1, Edges
  <2>3. T \subseteq Tasks(plan)
    BY <1>1, <1>2, Edges
  <2> QED BY <2>2, <2>3
<1>4. \A a, b : <<a, b>> \in Graph[plan] =>
         Precedes(plan, b, a) /\ \A t : Precedes(plan, t, b) => Precedes(plan, t, a)
  BY <1>1, EdgePrecedes
<1>5. \A t \in {"mm_sink"} :
         Precedes(plan, t, "rate_limit") /\ Precedes(plan, t, "filter")
  BY <1>2, <1>4
<1>6. Publishing \cap Tasks(plan) = {"mm_sink"}
  BY <1>3 DEF Publishing
<1> QED BY <1>3, <1>5, <1>6 DEF plan

LEMMA EmbeddingGraph ==
    LET plan == "PlanPostEmbeddingV5"
    IN  /\ Tasks(plan) = {"rate_limit", "media", "asr", "embedding", "mm_sink"}
        /\ \A t \in Publishing \cap Tasks(plan) :
              Precedes(plan, t, "rate_limit")
<1> DEFINE plan == "PlanPostEmbeddingV5"
<1>1. plan \in ALL_PLANS
  BY AllPlans
<1>2. Graph[plan] = {<<"rate_limit", "media">>, <<"media", "asr">>, <<"asr", "embedding">>,
                     <<"embedding", "mm_sink">>}
  BY Chain5 DEF Graph
<1> HIDE DEF plan
<1>3. Tasks(plan) = {"rate_limit", "media", "asr", "embedding", "mm_sink"}
  <2> DEFINE T == {"rate_limit", "media", "asr", "embedding", "mm_sink"}
  <2>1. \A edge \in Graph[plan] : {edge[1], edge[2]} \subseteq T
    BY <1>2
  <2>2. Tasks(plan) \subseteq T
    BY <1>1, <2>1, Edges
  <2>3. T \subseteq Tasks(plan)
    BY <1>1, <1>2, Edges
  <2> QED BY <2>2, <2>3
<1>4. \A a, b : <<a, b>> \in Graph[plan] =>
         Precedes(plan, b, a) /\ \A t : Precedes(plan, t, b) => Precedes(plan, t, a)
  BY <1>1, EdgePrecedes
<1>5. \A t \in {"mm_sink"} :
         Precedes(plan, t, "rate_limit")
  BY <1>2, <1>4
<1>6. Publishing \cap Tasks(plan) = {"mm_sink"}
  BY <1>3 DEF Publishing
<1> QED BY <1>3, <1>5, <1>6 DEF plan

LEMMA ReplyEmbeddingGraph ==
    LET plan == "PlanPostEmbeddingV5ForReply"
    IN  /\ Tasks(plan) = {"rate_limit", "filter", "media", "asr", "embedding", "mm_sink"}
        /\ \A t \in Publishing \cap Tasks(plan) :
              Precedes(plan, t, "rate_limit") /\ Precedes(plan, t, "filter")
<1> DEFINE plan == "PlanPostEmbeddingV5ForReply"
<1>1. plan \in ALL_PLANS
  BY AllPlans
<1>2. Graph[plan] = {<<"rate_limit", "filter">>, <<"filter", "media">>, <<"media", "asr">>,
                     <<"asr", "embedding">>, <<"embedding", "mm_sink">>}
  BY Chain6 DEF Graph
<1> HIDE DEF plan
<1>3. Tasks(plan) = {"rate_limit", "filter", "media", "asr", "embedding", "mm_sink"}
  <2> DEFINE T == {"rate_limit", "filter", "media", "asr", "embedding", "mm_sink"}
  <2>1. \A edge \in Graph[plan] : {edge[1], edge[2]} \subseteq T
    BY <1>2
  <2>2. Tasks(plan) \subseteq T
    BY <1>1, <2>1, Edges
  <2>3. T \subseteq Tasks(plan)
    BY <1>1, <1>2, Edges
  <2> QED BY <2>2, <2>3
<1>4. \A a, b : <<a, b>> \in Graph[plan] =>
         Precedes(plan, b, a) /\ \A t : Precedes(plan, t, b) => Precedes(plan, t, a)
  BY <1>1, EdgePrecedes
<1>5. \A t \in {"mm_sink"} :
         Precedes(plan, t, "rate_limit") /\ Precedes(plan, t, "filter")
  BY <1>2, <1>4
<1>6. Publishing \cap Tasks(plan) = {"mm_sink"}
  BY <1>3 DEF Publishing
<1> QED BY <1>3, <1>5, <1>6 DEF plan

\* Whatever is published, the limit was asked before, and so was the filter of a
\* plan that has one.
LEMMA GuardsFirst ==
    ASSUME NEW plan \in ALL_PLANS
    PROVE  /\ "rate_limit" \in Tasks(plan)
           /\ \A t \in Publishing \cap Tasks(plan) :
                 Precedes(plan, t, "rate_limit") /\ ("filter" \in Tasks(plan) => Precedes(plan, t, "filter"))
BY AllPlans, BangerGraph, SafetyGraph, SpamGraph, RankingGraph, PtosGraph, SummaryGraph,
   ReplySummaryGraph, EmbeddingGraph, ReplyEmbeddingGraph

-----------------------------------------------------------------------------
(* The inductive invariant *)

\* An execution works through the plans its payload is eligible for, along the
\* tasks of each.
TypeOK ==
    /\ payload \in Arrivals
    /\ DOMAIN tasks = Executions /\ DOMAIN plans = Executions
    /\ verdict \in [Executions -> {"none", "running", "success", "failure"}]
    /\ marks \subseteq Keys /\ expiries \in [Keys -> Nat]
    /\ \A e \in Executions :
          /\ DOMAIN plans[e] = DOMAIN tasks[e]
          /\ verdict[e] = "none" => DOMAIN tasks[e] = {}
          /\ \A plan \in DOMAIN tasks[e] :
                /\ e[1] \in DOMAIN payload /\ plan \in payload[e[1]].eligibilities
                /\ DOMAIN tasks[e][plan] = Tasks(plan)
                /\ \A t \in Tasks(plan) : State(e, plan, t) \in TaskState

\* Whoever awaits a transcript is listening for it, and asked for its post.
ListenersListen ==
    \A p \in DOMAIN asrInflights : \A listener \in asrInflights[p] :
       \E e \in Executions : \E plan \in DOMAIN tasks[e] :
          /\ listener = <<e, plan>> /\ "asr" \in Tasks(plan)
          /\ State(e, plan, "asr") = "listening" /\ PostIn(e).id = p

\* What the states of a plan's tasks say of each other.
InOrder(e, plan) ==
    \A t \in Tasks(plan) :
       /\ State(e, plan, t) = "success" => DepStates(e, plan, t) \subseteq {"success"}
       /\ State(e, plan, t) = "success" /\ t = "filter" => Passes(plan, PostIn(e))
EachInOrder == \A e \in Executions : \A plan \in DOMAIN tasks[e] : InOrder(e, plan)

SuccessMeansDone ==
    \A e \in Executions : \A plan \in DOMAIN tasks[e] :
       /\ verdict[e] = "success" => plans[e][plan] = "ok"
       /\ plans[e][plan] = "ok" => \A t \in Tasks(plan) : State(e, plan, t) \in {"success", "skipped"}

\* A task that publishes and has not failed has an attempt left.
AttemptsLeft ==
    /\ DOMAIN raised = Executions
    /\ \A e \in Executions :
          /\ DOMAIN raised[e] = DOMAIN tasks[e]
          /\ \A plan \in DOMAIN tasks[e] :
                /\ DOMAIN raised[e][plan] = Tasks(plan)
                /\ \A t \in Tasks(plan) :
                      /\ raised[e][plan][t] \in Nat
                      /\ State(e, plan, t) # "failed" => raised[e][plan][t] < Tries(t)

\* A write was made by an attempt that was granted, of a task whose dependencies
\* succeeded.
PublishedByTask ==
    \A w \in published :
       /\ w = [plan |-> w.plan, key |-> w.key, task |-> w.task, store |-> w.store, by |-> w.by,
               attempt |-> w.attempt]
       /\ w.by \in Executions /\ w.plan \in DOMAIN tasks[w.by]
       /\ w.task \in Publishing \cap Tasks(w.plan) /\ w.key = Key(w.by, w.plan)
       /\ w.attempt \in 1 .. Tries(w.task)
       /\ DepStates(w.by, w.plan, w.task) \subseteq {"success"}

\* The executions a limit has let through for a key.
LetThrough(k) ==
    {e \in Executions : \E plan \in DOMAIN tasks[e] :
        Key(e, plan) = k /\ State(e, plan, "rate_limit") = "success"}
LimitKeeps ==
    \A k \in Keys :
       /\ IsFiniteSet(LetThrough(k))
       /\ Cardinality(LetThrough(k)) <= expiries[k] + (IF k \in marks THEN 1 ELSE 0)

\* Who set a mark got past the limit, and what is skipped is so for the filter or for
\* somebody's mark.
MarksAreSet == \A k \in marks : LetThrough(k) # {}
SkipsAccounted ==
    \A e \in Executions : \A plan \in DOMAIN tasks[e] : \A t \in Tasks(plan) :
       State(e, plan, t) = "skipped" => StoppedByFilter(e, plan) \/ TakenByAnother(e, plan)

IInv == /\ TypeOK /\ ListenersListen /\ EachInOrder /\ SuccessMeansDone /\ AttemptsLeft
        /\ PublishedByTask /\ LimitKeeps /\ MarksAreSet /\ SkipsAccounted

-----------------------------------------------------------------------------
(* One step of a task *)

LEMMA PlanTypes ==
    ASSUME TypeOK, NEW e \in Executions, NEW plan \in DOMAIN tasks[e]
    PROVE  /\ plan \in ALL_PLANS /\ "rate_limit" \in Tasks(plan)
           /\ \A t \in Tasks(plan) : Deps(plan, t) \subseteq Tasks(plan)
           /\ PostIn(e) \in Post /\ Key(e, plan) \in Keys
<1>1. payload \in [DOMAIN payload -> Payload] /\ e[1] \in DOMAIN payload
      /\ plan \in payload[e[1]].eligibilities
  BY ArrivalsAssumption DEF TypeOK
<1>2. payload[e[1]] \in Payload
  BY <1>1
<1>3. plan \in ALL_PLANS /\ PostIn(e) \in Post /\ payload[e[1]].deluxe \in BOOLEAN
  BY <1>1, <1>2 DEF Payload, PostIn
<1>4. "rate_limit" \in Tasks(plan)
  BY <1>3, GuardsFirst
<1>5. \A t \in Tasks(plan) : Deps(plan, t) \subseteq Tasks(plan)
  <2> SUFFICES ASSUME NEW t \in Tasks(plan), NEW d \in Deps(plan, t) PROVE d \in Tasks(plan)
    OBVIOUS
  <2>1. PICK edge \in Graph[plan] : edge[1] = d
    BY <1>3, Edges
  <2> QED BY <1>3, <2>1, Edges
<1>6. PostIn(e).id \in Posts
  BY <1>3 DEF Post
<1> DEFINE deluxe == plan = "PlanSafetyPtos" /\ payload[e[1]].deluxe
<1>7. deluxe \in BOOLEAN /\ Key(e, plan) = <<<<plan, deluxe>>, PostIn(e).id>>
  BY <1>3 DEF Key, RateLimit
<1> HIDE DEF deluxe
<1>8. Key(e, plan) \in Keys
  <2>1. <<<<plan, deluxe>>, PostIn(e).id>> \in Keys
    BY <1>3, <1>6, <1>7 DEF Keys
  <2> QED BY <1>7, <2>1
<1> QED BY <1>3, <1>4, <1>5, <1>8

\* What a step may do to a task: what is settled stays, a task succeeds after
\* what it depends on, and is skipped after a skip or by a guard.
TaskMove(e, plan, t) ==
    LET before == State(e, plan, t)
        after  == tasks'[e][plan][t]
    IN  /\ after \in TaskState
        /\ before \in Settled => after = before
        /\ after = "success" => \/ before = "success"
                                \/ /\ DepStates(e, plan, t) \subseteq {"success"}
                                   /\ t = "filter" => Passes(plan, PostIn(e))
                                   /\ t = "rate_limit" => RateLimitTask(e, plan)
        /\ after = "skipped" => \/ before = "skipped"
                                \/ "skipped" \in DepStates(e, plan, t)
                                \/ t = "filter" /\ ~Passes(plan, PostIn(e))
                                \/ t = "rate_limit" /\ Key(e, plan) \in marks
\* The plans of an execution stay, and those it enters wait.
Moves ==
    /\ DOMAIN tasks' = Executions
    /\ \A e \in Executions :
          /\ DOMAIN tasks[e] \subseteq DOMAIN tasks'[e]
          /\ \A plan \in DOMAIN tasks'[e] : DOMAIN tasks'[e][plan] = Tasks(plan)
          /\ \A plan \in DOMAIN tasks[e] : \A t \in Tasks(plan) : TaskMove(e, plan, t)
          /\ \A plan \in DOMAIN tasks'[e] \ DOMAIN tasks[e] : \A t \in Tasks(plan) :
                tasks'[e][plan][t] = "waiting"
StillListening ==
    \A e \in Executions : \A plan \in DOMAIN tasks[e] : \A t \in Tasks(plan) :
       State(e, plan, t) = "listening" => tasks'[e][plan][t] = "listening"
SamePlans == \A e \in Executions : DOMAIN tasks'[e] = DOMAIN tasks[e]

LEMMA OneTask ==
    ASSUME TypeOK, NEW e \in Executions, NEW plan \in DOMAIN tasks[e], NEW t \in Tasks(plan),
           NEW st, EndTask(e, plan, t, st)
    PROVE  /\ DOMAIN tasks' = Executions /\ SamePlans
           /\ \A f \in Executions : \A q \in DOMAIN tasks[f] :
                 /\ DOMAIN tasks'[f][q] = Tasks(q)
                 /\ \A u \in Tasks(q) :
                       tasks'[f][q][u] = IF f = e /\ q = plan /\ u = t THEN st ELSE State(f, q, u)
<1>1. DOMAIN tasks = Executions /\ DOMAIN tasks[e][plan] = Tasks(plan)
  BY DEF TypeOK
<1>2. tasks' = [tasks EXCEPT ![e][plan][t] = st]
  BY DEF EndTask
<1>3. DOMAIN tasks' = Executions
  BY <1>1, <1>2
<1>4. \A f \in Executions : f # e => tasks'[f] = tasks[f]
  BY <1>1, <1>2
<1>5. tasks'[e] = [tasks[e] EXCEPT ![plan][t] = st]
  BY <1>1, <1>2
<1>6. DOMAIN tasks'[e] = DOMAIN tasks[e]
  BY <1>5
<1>7. /\ \A q \in DOMAIN tasks[e] : q # plan => tasks'[e][q] = tasks[e][q]
      /\ tasks'[e][plan] = [tasks[e][plan] EXCEPT ![t] = st]
  BY <1>5
<1>8. \A f \in Executions : \A q \in DOMAIN tasks[f] : DOMAIN tasks[f][q] = Tasks(q)
  BY DEF TypeOK
<1> QED BY <1>1, <1>3, <1>4, <1>6, <1>7, <1>8 DEF SamePlans, State

LEMMA OneMove ==
    ASSUME TypeOK, NEW e \in Executions, NEW plan \in DOMAIN tasks[e], NEW t \in Tasks(plan),
           NEW st \in TaskState, EndTask(e, plan, t, st), State(e, plan, t) \in {"waiting", "heard"},
           st = "success" => /\ DepStates(e, plan, t) \subseteq {"success"}
                             /\ t = "filter" => Passes(plan, PostIn(e))
                             /\ t = "rate_limit" => RateLimitTask(e, plan),
           st = "skipped" => \/ "skipped" \in DepStates(e, plan, t)
                             \/ t = "filter" /\ ~Passes(plan, PostIn(e))
                             \/ t = "rate_limit" /\ Key(e, plan) \in marks
    PROVE  Moves /\ SamePlans /\ StillListening
<1>1. /\ DOMAIN tasks' = Executions /\ SamePlans
      /\ \A f \in Executions : \A q \in DOMAIN tasks[f] :
            /\ DOMAIN tasks'[f][q] = Tasks(q)
            /\ \A u \in Tasks(q) :
                  tasks'[f][q][u] = IF f = e /\ q = plan /\ u = t THEN st ELSE State(f, q, u)
  BY OneTask
<1>2. StillListening
  BY <1>1 DEF StillListening
<1>3. ASSUME NEW f \in Executions, NEW q \in DOMAIN tasks[f], NEW u \in Tasks(q)
      PROVE  TaskMove(f, q, u)
  <2>1. CASE f = e /\ q = plan /\ u = t
    BY <1>1, <2>1 DEF TaskMove, Settled
  <2>2. CASE ~(f = e /\ q = plan /\ u = t)
    <3>1. tasks'[f][q][u] = State(f, q, u) /\ State(f, q, u) \in TaskState
      BY <1>1, <2>2 DEF TypeOK
    <3> QED BY <3>1 DEF TaskMove
  <2> QED BY <2>1, <2>2
<1> QED BY <1>1, <1>2, <1>3 DEF Moves, SamePlans

LEMMA NoMove ==
    ASSUME TypeOK, UNCHANGED tasks
    PROVE  Moves /\ SamePlans /\ StillListening
<1>1. SamePlans /\ StillListening
  BY DEF SamePlans, StillListening, State
<1>2. \A e \in Executions : \A plan \in DOMAIN tasks[e] : \A t \in Tasks(plan) : TaskMove(e, plan, t)
  BY DEF TaskMove, State, TypeOK
<1> QED BY <1>1, <1>2 DEF Moves, TypeOK

LEMMA SkipMoves ==
    ASSUME TypeOK, NEW e \in Executions, NEW plan \in DOMAIN tasks[e], NEW t \in Tasks(plan),
           SkipTask(e, plan, t) \/ PassFailureOn(e, plan, t)
    PROVE  Moves /\ SamePlans /\ StillListening
BY OneMove DEF SkipTask, PassFailureOn, Waiting, TaskState, Settled

LEMMA FilterMoves ==
    ASSUME TypeOK, NEW e \in Executions, NEW plan \in DOMAIN tasks[e], FilterTask(e, plan)
    PROVE  Moves /\ SamePlans /\ StillListening
<1> DEFINE st == IF FilterRaises(plan, PostIn(e)) THEN "failed"
                 ELSE IF Passes(plan, PostIn(e)) THEN "success" ELSE "skipped"
<1>1. /\ "filter" \in Tasks(plan) /\ State(e, plan, "filter") = "waiting"
      /\ DepStates(e, plan, "filter") \subseteq {"success"} /\ EndTask(e, plan, "filter", st)
  BY DEF FilterTask, Ready, Waiting
<1>2. /\ st \in TaskState /\ (st = "success" => Passes(plan, PostIn(e)))
      /\ st = "skipped" => ~Passes(plan, PostIn(e))
  BY DEF TaskState, Settled
<1> HIDE DEF st
<1> QED BY <1>1, <1>2, OneMove

LEMMA LimitMoves ==
    ASSUME TypeOK, NEW e \in Executions, NEW plan \in DOMAIN tasks[e], RateLimitTask(e, plan)
    PROVE  Moves /\ SamePlans /\ StillListening
<1>1. "rate_limit" \in Tasks(plan)
  BY PlanTypes
<1>2. Ready(e, plan, "rate_limit")
  BY DEF RateLimitTask
<1>3. \/ EndTask(e, plan, "rate_limit", "success")
      \/ EndTask(e, plan, "rate_limit", "skipped") /\ Key(e, plan) \in marks
  BY DEF RateLimitTask
<1> QED BY <1>1, <1>2, <1>3, OneMove DEF Ready, Waiting, TaskState, Settled

LEMMA WorkMoves ==
    ASSUME TypeOK, NEW e \in Executions, NEW plan \in DOMAIN tasks[e], NEW t \in Tasks(plan),
           Work(e, plan, t) \/ Publish(e, plan, t)
    PROVE  Moves /\ SamePlans /\ StillListening
<1>1. Ready(e, plan, t) /\ t \notin {"filter", "rate_limit"}
  BY DEF Work, Publish, Working, AskingModels, Publishing
<1>2. \/ EndTask(e, plan, t, "success") \/ EndTask(e, plan, t, "failed")
      \/ EndTask(e, plan, t, "waiting")
  <2>1. CASE Work(e, plan, t)
    BY <2>1 DEF Work
  <2>2. CASE Publish(e, plan, t)
    <3> DEFINE left == raised[e][plan][t] + 1 < Tries(t)
    <3>1. \/ EndTask(e, plan, t, "success")
          \/ EndTask(e, plan, t, IF left THEN "waiting" ELSE "failed")
      BY <2>2 DEF Publish
    <3> HIDE DEF left
    <3>2. CASE left
      BY <3>1, <3>2
    <3>3. CASE ~left
      BY <3>1, <3>3
    <3> QED BY <3>2, <3>3
  <2> QED BY <2>1, <2>2
<1> QED BY <1>1, <1>2, OneMove DEF Ready, Waiting, TaskState, Settled

LEMMA AsrMoves ==
    ASSUME TypeOK, NEW e \in Executions, NEW plan \in DOMAIN tasks[e],
           Transcribe(e, plan) \/ KeepTranscript(e, plan)
    PROVE  Moves /\ SamePlans /\ StillListening
<1>1. "asr" \in Tasks(plan)
  BY DEF Transcribe, KeepTranscript
<1>2. CASE Transcribe(e, plan)
  <2>1. \/ EndTask(e, plan, "asr", "success") \/ EndTask(e, plan, "asr", "waiting")
        \/ EndTask(e, plan, "asr", "listening")
    BY <1>2 DEF Transcribe, NextVideo
  <2>2. Ready(e, plan, "asr")
    BY <1>2 DEF Transcribe
  <2> QED BY <1>1, <2>1, <2>2, OneMove DEF Ready, Waiting, TaskState, Settled
<1>3. CASE KeepTranscript(e, plan)
  <2>1. EndTask(e, plan, "asr", "waiting") /\ State(e, plan, "asr") = "heard"
    BY <1>3 DEF KeepTranscript, NextVideo
  <2> QED BY <1>1, <2>1, OneMove DEF TaskState, Settled
<1> QED BY <1>2, <1>3

LEMMA ExecuteMoves ==
    ASSUME TypeOK, NEW e \in Executions, Execute(e)
    PROVE  Moves /\ StillListening
<1> DEFINE eligible == payload[e[1]].eligibilities
           fresh == [plan \in eligible |-> [t \in Tasks(plan) |-> "waiting"]]
<1>1. verdict[e] = "none" /\ tasks' = [tasks EXCEPT ![e] = fresh]
  BY DEF Execute
<1>2. DOMAIN tasks = Executions /\ DOMAIN tasks[e] = {}
  BY <1>1 DEF TypeOK
<1>3. /\ DOMAIN tasks' = Executions /\ tasks'[e] = fresh
      /\ \A f \in Executions : f # e => tasks'[f] = tasks[f]
  BY <1>1, <1>2
<1>4. \A f \in Executions : \A q \in DOMAIN tasks[f] : f # e
  BY <1>2
<1>5. StillListening
  BY <1>3, <1>4 DEF StillListening, State
<1>6. ASSUME NEW f \in Executions, NEW q \in DOMAIN tasks[f], NEW t \in Tasks(q)
      PROVE  TaskMove(f, q, t)
  <2>1. tasks'[f][q][t] = State(f, q, t) /\ State(f, q, t) \in TaskState
    BY <1>3, <1>4 DEF State, TypeOK
  <2> QED BY <2>1 DEF TaskMove
<1>7. ASSUME NEW f \in Executions
      PROVE  /\ DOMAIN tasks[f] \subseteq DOMAIN tasks'[f]
             /\ \A q \in DOMAIN tasks'[f] : DOMAIN tasks'[f][q] = Tasks(q)
             /\ \A q \in DOMAIN tasks'[f] \ DOMAIN tasks[f] : \A t \in Tasks(q) :
                   tasks'[f][q][t] = "waiting"
  <2>1. CASE f = e
    BY <1>2, <1>3, <2>1
  <2>2. CASE f # e
    BY <1>3, <2>2 DEF TypeOK
  <2> QED BY <2>1, <2>2
<1> QED BY <1>3, <1>5, <1>6, <1>7 DEF Moves

\* An answer wakes who listens for it, and nobody else.
LEMMA WakeMoves ==
    ASSUME TypeOK, ListenersListen, NEW p \in Posts, AsrAnswer(p)
    PROVE  /\ Moves /\ SamePlans
           /\ \A e \in Executions : \A plan \in DOMAIN tasks[e] :
                 State(e, plan, "asr") = "listening" /\ "asr" \in Tasks(plan) /\ PostIn(e).id # p
                    => tasks'[e][plan]["asr"] = "listening"
<1>1. PICK heard \in BOOLEAN : Wake(Woken(p), heard)
  BY DEF AsrAnswer
<1> DEFINE woken(e, plan) == <<e, plan>> \in Woken(p)
           st == IF heard THEN "heard" ELSE "waiting"
<1>2. tasks' = [e \in Executions |-> [plan \in DOMAIN tasks[e] |->
                   IF ~woken(e, plan) THEN tasks[e][plan]
                   ELSE [tasks[e][plan] EXCEPT !["asr"] = st]]]
  BY <1>1 DEF Wake
<1>3. ASSUME NEW e, NEW plan, woken(e, plan)
      PROVE  /\ "asr" \in Tasks(plan) /\ State(e, plan, "asr") = "listening" /\ PostIn(e).id = p
  <2>1. p \in DOMAIN asrInflights /\ <<e, plan>> \in asrInflights[p]
    BY <1>3 DEF Woken, InFlight
  <2>2. PICK f \in Executions : \E q \in DOMAIN tasks[f] :
           /\ <<e, plan>> = <<f, q>> /\ "asr" \in Tasks(q)
           /\ State(f, q, "asr") = "listening" /\ PostIn(f).id = p
    BY <2>1 DEF ListenersListen
  <2> QED BY <2>2
<1>4. st \in {"heard", "waiting"}
  OBVIOUS
<1> HIDE DEF woken, st
<1>5. DOMAIN tasks' = Executions /\ SamePlans
  BY <1>2 DEF SamePlans
<1>6. ASSUME NEW e \in Executions, NEW plan \in DOMAIN tasks[e]
      PROVE  /\ DOMAIN tasks'[e][plan] = Tasks(plan)
             /\ \A t \in Tasks(plan) :
                   tasks'[e][plan][t] = IF woken(e, plan) /\ t = "asr" THEN st ELSE State(e, plan, t)
  <2>1. DOMAIN tasks[e][plan] = Tasks(plan)
    BY DEF TypeOK
  <2>2. CASE woken(e, plan)
    <3>1. tasks'[e][plan] = [tasks[e][plan] EXCEPT !["asr"] = st]
      BY <1>2, <2>2
    <3> QED BY <2>1, <2>2, <3>1 DEF State
  <2>3. CASE ~woken(e, plan)
    <3>1. tasks'[e][plan] = tasks[e][plan]
      BY <1>2, <2>3
    <3> QED BY <2>1, <2>3, <3>1 DEF State
  <2> QED BY <2>2, <2>3
<1>7. ASSUME NEW e \in Executions, NEW plan \in DOMAIN tasks[e], NEW t \in Tasks(plan)
      PROVE  TaskMove(e, plan, t)
  <2>1. CASE woken(e, plan) /\ t = "asr"
    BY <1>3, <1>4, <1>6, <2>1 DEF TaskMove, TaskState, Settled
  <2>2. CASE ~(woken(e, plan) /\ t = "asr")
    <3>1. tasks'[e][plan][t] = State(e, plan, t) /\ State(e, plan, t) \in TaskState
      BY <1>6, <2>2 DEF TypeOK
    <3> QED BY <3>1 DEF TaskMove
  <2> QED BY <2>1, <2>2
<1>8. Moves
  BY <1>5, <1>6, <1>7 DEF Moves, SamePlans
<1>9. ASSUME NEW e \in Executions, NEW plan \in DOMAIN tasks[e],
             State(e, plan, "asr") = "listening", "asr" \in Tasks(plan), PostIn(e).id # p
      PROVE  tasks'[e][plan]["asr"] = "listening"
  BY <1>3, <1>6, <1>9
<1> QED BY <1>5, <1>8, <1>9

LEMMA PlanFailsMoves ==
    ASSUME TypeOK, NEW e \in Executions, NEW plan \in DOMAIN tasks[e], PlanFails(e, plan)
    PROVE  Moves /\ SamePlans /\ StillListening
<1> DEFINE cancelled(t) == /\ Waiting(e, plan, t)
                           /\ ~(DepStates(e, plan, t) \subseteq {"success", "skipped", "failed"})
           after == [t \in Tasks(plan) |-> IF cancelled(t) THEN "cancelled" ELSE tasks[e][plan][t]]
<1>1. tasks' = [tasks EXCEPT ![e][plan] = after]
  BY DEF PlanFails, CancelWaiting
<1>2. DOMAIN tasks = Executions /\ \A f \in Executions : \A q \in DOMAIN tasks[f] :
         DOMAIN tasks[f][q] = Tasks(q)
  BY DEF TypeOK
<1>3. DOMAIN after = Tasks(plan)
      /\ \A t \in Tasks(plan) : after[t] = IF cancelled(t) THEN "cancelled" ELSE State(e, plan, t)
  BY DEF State
<1>4. \A t \in Tasks(plan) : cancelled(t) => State(e, plan, t) = "waiting"
  BY DEF Waiting
<1> HIDE DEF cancelled, after
<1>5. /\ DOMAIN tasks' = Executions /\ tasks'[e] = [tasks[e] EXCEPT ![plan] = after]
      /\ \A f \in Executions : f # e => tasks'[f] = tasks[f]
  BY <1>1, <1>2
<1>6. /\ SamePlans /\ tasks'[e][plan] = after
      /\ \A f \in Executions : \A q \in DOMAIN tasks[f] :
            ~(f = e /\ q = plan) => tasks'[f][q] = tasks[f][q]
  BY <1>5 DEF SamePlans
<1>7. ASSUME NEW f \in Executions, NEW q \in DOMAIN tasks[f], NEW t \in Tasks(q)
      PROVE  \/ tasks'[f][q][t] = State(f, q, t)
             \/ tasks'[f][q][t] = "cancelled" /\ State(f, q, t) = "waiting"
  BY <1>3, <1>4, <1>6 DEF State
<1>8. \A f \in Executions : \A q \in DOMAIN tasks[f] : DOMAIN tasks'[f][q] = Tasks(q)
  BY <1>2, <1>3, <1>6
<1>9. StillListening
  BY <1>7 DEF StillListening
<1>10. ASSUME NEW f \in Executions, NEW q \in DOMAIN tasks[f], NEW t \in Tasks(q)
       PROVE  TaskMove(f, q, t)
  <2>1. State(f, q, t) \in TaskState
    BY DEF TypeOK
  <2> QED BY <1>7, <2>1 DEF TaskMove, TaskState, Settled
<1> QED BY <1>5, <1>6, <1>8, <1>9, <1>10 DEF Moves, SamePlans

-----------------------------------------------------------------------------
(* Every step moves the tasks in this way *)

LEMMA PlanStepMoves ==
    ASSUME TypeOK, NEW e \in Executions, NEW plan \in DOMAIN plans[e], PlanStep(e, plan)
    PROVE  Moves /\ SamePlans /\ StillListening /\ plan \in DOMAIN tasks[e]
<1>1. plan \in DOMAIN tasks[e]
  BY DEF TypeOK
<1>2. CASE PlanSucceeds(e, plan)
  BY <1>1, <1>2, NoMove DEF PlanSucceeds
<1> QED BY <1>1, <1>2, SkipMoves, FilterMoves, LimitMoves, WorkMoves, AsrMoves, PlanFailsMoves
        DEF PlanStep, TaskStep

LEMMA StepMoves ==
    ASSUME TypeOK, ListenersListen, [Next]_vars
    PROVE  /\ Moves /\ UNCHANGED payload
           /\ SamePlans \/ \E e \in Executions : Execute(e)
           /\ StillListening \/ \E p \in Posts : AsrAnswer(p)
<1>1. ASSUME NEW e \in Executions, Execute(e) PROVE Moves /\ StillListening /\ UNCHANGED payload
  BY <1>1, ExecuteMoves DEF Execute
<1>2. ASSUME NEW p \in Posts, AsrAnswer(p) PROVE Moves /\ SamePlans /\ UNCHANGED payload
  BY <1>2, WakeMoves DEF AsrAnswer
<1>3. ASSUME NEW e \in Executions, NEW plan \in DOMAIN plans[e], PlanStep(e, plan)
      PROVE  Moves /\ SamePlans /\ StillListening /\ UNCHANGED payload
  <2>1. UNCHANGED payload
    BY <1>3 DEF PlanStep, TaskStep, SkipTask, PassFailureOn, FilterTask, RateLimitTask, Work, Publish,
                Transcribe, KeepTranscript, PlanSucceeds, PlanFails
  <2> QED BY <1>3, <2>1, PlanStepMoves
<1>4. ASSUME UNCHANGED <<tasks, payload>>
      PROVE  Moves /\ SamePlans /\ StillListening /\ UNCHANGED payload
  BY <1>4, NoMove
<1> QED BY <1>1, <1>2, <1>3, <1>4 DEF Next, EngineStep, Expire, Conclude, vars

-----------------------------------------------------------------------------
(* Types *)

\* The steps that leave verdicts, plans and publications alone.
LEMMA TaskStepKeeps ==
    ASSUME NEW e, NEW plan, TaskStep(e, plan)
    PROVE  UNCHANGED <<verdict, plans, payload, expiries>>
BY DEF TaskStep, SkipTask, PassFailureOn, FilterTask, RateLimitTask, Work, Publish, Transcribe,
       KeepTranscript

LEMMA ExecutePlans ==
    ASSUME TypeOK, NEW e \in Executions, Execute(e)
    PROVE  /\ DOMAIN plans' = Executions /\ UNCHANGED payload
           /\ \A f \in Executions :
                 /\ DOMAIN plans'[f] = DOMAIN tasks'[f]
                 /\ f # e => verdict'[f] = verdict[f] /\ plans'[f] = plans[f] /\ tasks'[f] = tasks[f]
           /\ verdict[e] = "none" /\ verdict'[e] = "running" /\ e[1] \in DOMAIN payload
           /\ DOMAIN tasks[e] = {} /\ DOMAIN tasks'[e] = payload[e[1]].eligibilities
           /\ \A plan \in DOMAIN plans'[e] : plans'[e][plan] = "running"
           /\ verdict' \in [Executions -> {"none", "running", "success", "failure"}]
<1>1. /\ verdict[e] = "none" /\ e[1] \in DOMAIN payload /\ UNCHANGED payload
      /\ verdict' = [verdict EXCEPT ![e] = "running"]
      /\ plans' = [plans EXCEPT ![e] = [plan \in payload[e[1]].eligibilities |-> "running"]]
      /\ tasks' = [tasks EXCEPT ![e] =
                      [plan \in payload[e[1]].eligibilities |-> [t \in Tasks(plan) |-> "waiting"]]]
  BY DEF Execute
<1>2. /\ DOMAIN plans = Executions /\ DOMAIN tasks = Executions
      /\ \A f \in Executions : DOMAIN plans[f] = DOMAIN tasks[f]
      /\ verdict \in [Executions -> {"none", "running", "success", "failure"}]
      /\ DOMAIN tasks[e] = {}
  BY <1>1 DEF TypeOK
<1>3. /\ plans'[e] = [plan \in payload[e[1]].eligibilities |-> "running"]
      /\ DOMAIN plans' = Executions
      /\ DOMAIN tasks'[e] = payload[e[1]].eligibilities
      /\ \A f \in Executions : f # e => plans'[f] = plans[f] /\ tasks'[f] = tasks[f]
  BY <1>1, <1>2
<1>4. /\ \A f \in Executions : f # e => verdict'[f] = verdict[f]
      /\ verdict'[e] = "running"
      /\ verdict' \in [Executions -> {"none", "running", "success", "failure"}]
  BY <1>1, <1>2
<1> QED BY <1>1, <1>2, <1>3, <1>4

\* The end of a plan.
LEMMA EndOfPlan ==
    ASSUME TypeOK, NEW e \in Executions, NEW plan \in DOMAIN plans[e],
           PlanSucceeds(e, plan) \/ PlanFails(e, plan)
    PROVE  /\ DOMAIN plans' = Executions /\ UNCHANGED <<verdict, payload, published, marks, expiries>>
           /\ plans[e][plan] = "running"
           /\ plans'[e][plan] = IF PlanSucceeds(e, plan) THEN "ok" ELSE "error"
           /\ \A f \in Executions : DOMAIN plans'[f] = DOMAIN plans[f]
           /\ \A f \in Executions : \A q \in DOMAIN plans[f] :
                 ~(f = e /\ q = plan) => plans'[f][q] = plans[f][q]
<1>1. PICK st \in {"ok", "error"} :
         /\ plans' = [plans EXCEPT ![e][plan] = st]
         /\ st = IF PlanSucceeds(e, plan) THEN "ok" ELSE "error"
  BY DEF PlanSucceeds, PlanFails
<1>2. DOMAIN plans = Executions
  BY DEF TypeOK
<1>3. plans'[e] = [plans[e] EXCEPT ![plan] = st] /\ DOMAIN plans' = Executions
      /\ \A f \in Executions : f # e => plans'[f] = plans[f]
  BY <1>1, <1>2
<1>4. plans'[e][plan] = st
  BY <1>3
<1>5. \A f \in Executions : DOMAIN plans'[f] = DOMAIN plans[f]
  BY <1>3
<1>6. \A f \in Executions : \A q \in DOMAIN plans[f] :
         ~(f = e /\ q = plan) => plans'[f][q] = plans[f][q]
  BY <1>3
<1>7. plans[e][plan] = "running" /\ UNCHANGED <<verdict, payload, published, marks, expiries>>
  BY DEF PlanSucceeds, PlanFails
<1> QED BY <1>1, <1>3, <1>4, <1>5, <1>6, <1>7

LEMMA PlansType ==
    ASSUME TypeOK, ListenersListen, [Next]_vars
    PROVE  /\ DOMAIN plans' = Executions
           /\ verdict' \in [Executions -> {"none", "running", "success", "failure"}]
           /\ \A e \in Executions :
                 /\ DOMAIN plans'[e] = DOMAIN tasks'[e]
                 /\ verdict'[e] = "none" => DOMAIN tasks'[e] = {}
                 /\ \A plan \in DOMAIN tasks'[e] :
                       e[1] \in DOMAIN payload' /\ plan \in payload'[e[1]].eligibilities
<1>1. CASE \E e \in Executions : Execute(e)
  <2>1. PICK e \in Executions : Execute(e)
    BY <1>1
  <2> QED BY <2>1, ExecutePlans DEF TypeOK
<1>2. CASE ~\E e \in Executions : Execute(e)
  <2>1. SamePlans /\ UNCHANGED payload
    BY <1>2, StepMoves
  <2>2. /\ DOMAIN plans' = Executions /\ \A e \in Executions : DOMAIN plans'[e] = DOMAIN plans[e]
        /\ verdict' \in [Executions -> {"none", "running", "success", "failure"}]
        /\ \A e \in Executions : verdict'[e] = "none" => verdict[e] = "none"
    <3>1. ASSUME NEW e \in Executions, NEW plan \in DOMAIN plans[e],
                 PlanSucceeds(e, plan) \/ PlanFails(e, plan)
          PROVE  <2>2
      BY <3>1, EndOfPlan DEF TypeOK
    <3>2. ASSUME NEW e \in Executions, Conclude(e)
          PROVE  <2>2
      BY <3>2 DEF TypeOK, Conclude
    <3>3. ASSUME UNCHANGED <<plans, verdict>>
          PROVE  <2>2
      BY <3>3 DEF TypeOK
    <3> QED BY <1>2, <3>1, <3>2, <3>3, TaskStepKeeps
            DEF Next, EngineStep, PlanStep, Expire, AsrAnswer, vars
  <2> QED BY <2>1, <2>2 DEF TypeOK, SamePlans
<1> QED BY <1>1, <1>2

LEMMA OnlyLimitsMark ==
    ASSUME [Next]_vars
    PROVE  \/ \E k \in Keys : Expire(k)
           \/ \E e \in Executions : \E plan \in DOMAIN plans[e] : RateLimitTask(e, plan)
           \/ UNCHANGED <<marks, expiries>>
<1>1. ASSUME NEW e, NEW plan, PlanStep(e, plan), ~RateLimitTask(e, plan)
      PROVE  UNCHANGED <<marks, expiries>>
  BY <1>1 DEF PlanStep, TaskStep, SkipTask, PassFailureOn, FilterTask, Work, Publish, Transcribe,
              KeepTranscript, PlanSucceeds, PlanFails
<1>2. ASSUME NEW e, Execute(e) \/ Conclude(e)
      PROVE  UNCHANGED <<marks, expiries>>
  BY <1>2 DEF Execute, Conclude
<1>3. ASSUME NEW p, AsrAnswer(p)
      PROVE  UNCHANGED <<marks, expiries>>
  BY <1>3 DEF AsrAnswer
<1> QED BY <1>1, <1>2, <1>3 DEF Next, EngineStep, vars

LEMMA MarksType ==
    ASSUME TypeOK, [Next]_vars
    PROVE  marks' \subseteq Keys /\ expiries' \in [Keys -> Nat]
<1>1. marks \subseteq Keys /\ expiries \in [Keys -> Nat]
  BY DEF TypeOK
<1>2. ASSUME NEW k \in Keys, Expire(k)
      PROVE  marks' \subseteq Keys /\ expiries' \in [Keys -> Nat]
  BY <1>1, <1>2 DEF Expire
<1>3. ASSUME NEW e \in Executions, NEW plan \in DOMAIN plans[e], RateLimitTask(e, plan)
      PROVE  marks' \subseteq Keys /\ expiries' \in [Keys -> Nat]
  <2>1. Key(e, plan) \in Keys
    BY PlanTypes DEF TypeOK
  <2> QED BY <1>1, <1>3, <2>1 DEF RateLimitTask, Admit
<1> QED BY <1>1, <1>2, <1>3, OnlyLimitsMark

LEMMA TypeStep ==
    ASSUME TypeOK, ListenersListen, [Next]_vars
    PROVE  TypeOK'
<1>1. Moves /\ UNCHANGED payload
  BY StepMoves
<1>2. \A e \in Executions : \A plan \in DOMAIN tasks'[e] :
         /\ DOMAIN tasks'[e][plan] = Tasks(plan)
         /\ \A t \in Tasks(plan) : tasks'[e][plan][t] \in TaskState
  BY <1>1 DEF Moves, TaskMove, TaskState
<1>3. payload' \in Arrivals /\ DOMAIN tasks' = Executions
  BY <1>1 DEF TypeOK, Moves
<1> QED BY <1>2, <1>3, PlansType, MarksType DEF TypeOK, State

-----------------------------------------------------------------------------
(* The order of the tasks, what a success means, and what is published *)

\* A task that has settled stays as it is, in its plan.
LEMMA SettledStays ==
    ASSUME TypeOK, ListenersListen, [Next]_vars, NEW e \in Executions, NEW plan \in DOMAIN tasks[e],
           NEW t \in Tasks(plan), State(e, plan, t) \in Settled
    PROVE  plan \in DOMAIN tasks'[e] /\ tasks'[e][plan][t] = State(e, plan, t)
BY StepMoves DEF Moves, TaskMove

LEMMA OrderStep ==
    ASSUME TypeOK, ListenersListen, EachInOrder, [Next]_vars
    PROVE  EachInOrder'
<1>1. Moves /\ UNCHANGED payload
  BY StepMoves
<1> SUFFICES ASSUME NEW e \in Executions, NEW plan \in DOMAIN tasks'[e] PROVE InOrder(e, plan)'
  BY DEF EachInOrder
<1>2. CASE plan \notin DOMAIN tasks[e]
  <2>1. \A t \in Tasks(plan) : tasks'[e][plan][t] = "waiting"
    BY <1>1, <1>2 DEF Moves
  <2> QED BY <2>1 DEF InOrder, State
<1>3. CASE plan \in DOMAIN tasks[e]
  <2>1. /\ \A t \in Tasks(plan) : Deps(plan, t) \subseteq Tasks(plan)
        /\ PostIn(e)' = PostIn(e) /\ InOrder(e, plan)
    BY <1>1, <1>3, PlanTypes DEF PostIn, EachInOrder
  <2>2. \A t \in Tasks(plan) : State(e, plan, t) \in {"success", "skipped"} =>
           tasks'[e][plan][t] = State(e, plan, t)
    BY <1>3, SettledStays DEF Settled
  <2> SUFFICES ASSUME NEW t \in Tasks(plan)
               PROVE  /\ State(e, plan, t)' = "success" => DepStates(e, plan, t)' \subseteq {"success"}
                      /\ State(e, plan, t)' = "success" /\ t = "filter" => Passes(plan, PostIn(e))
    BY <2>1 DEF InOrder
  <2>3. TaskMove(e, plan, t)
    BY <1>1, <1>3 DEF Moves
  <2>4. ASSUME State(e, plan, t)' = "success"
        PROVE  /\ DepStates(e, plan, t) \subseteq {"success"}
               /\ t = "filter" => Passes(plan, PostIn(e))
    BY <2>1, <2>3, <2>4 DEF TaskMove, InOrder, State
  <2>5. DepStates(e, plan, t) \subseteq {"success"} => DepStates(e, plan, t)' \subseteq {"success"}
    BY <2>1, <2>2 DEF DepStates, State
  <2> QED BY <2>4, <2>5
<1> QED BY <1>2, <1>3

LEMMA SuccessStep ==
    ASSUME TypeOK, ListenersListen, SuccessMeansDone, [Next]_vars
    PROVE  SuccessMeansDone'
<1> DEFINE Done(e, plan) ==
              /\ verdict[e] = "success" => plans[e][plan] = "ok"
              /\ plans[e][plan] = "ok" => \A t \in Tasks(plan) : State(e, plan, t) \in {"success", "skipped"}
<1>1. \A e \in Executions : DOMAIN plans[e] = DOMAIN tasks[e]
  BY DEF TypeOK
<1>2. ASSUME NEW e \in Executions, NEW plan \in DOMAIN tasks[e],
             plans'[e][plan] = "ok" => plans[e][plan] = "ok",
             verdict'[e] = "success" => plans'[e][plan] = "ok"
      PROVE  Done(e, plan)'
  <2>1. \A t \in Tasks(plan) : State(e, plan, t) \in {"success", "skipped"} =>
           tasks'[e][plan][t] = State(e, plan, t)
    BY SettledStays DEF Settled
  <2> QED BY <1>2, <2>1 DEF SuccessMeansDone, State
<1>3. CASE \E e \in Executions : Execute(e)
  <2>1. PICK e \in Executions : Execute(e)
    BY <1>3
  <2>2. /\ \A f \in Executions :
              f # e => verdict'[f] = verdict[f] /\ plans'[f] = plans[f] /\ tasks'[f] = tasks[f]
        /\ verdict'[e] = "running" /\ DOMAIN plans'[e] = DOMAIN tasks'[e]
        /\ \A plan \in DOMAIN plans'[e] : plans'[e][plan] = "running"
    BY <2>1, ExecutePlans
  <2> SUFFICES ASSUME NEW f \in Executions, NEW plan \in DOMAIN tasks'[f] PROVE Done(f, plan)'
    BY DEF SuccessMeansDone
  <2>3. CASE f = e
    BY <2>2, <2>3
  <2>4. CASE f # e
    BY <2>2, <2>4, <1>2 DEF SuccessMeansDone
  <2> QED BY <2>3, <2>4
<1>4. CASE ~\E e \in Executions : Execute(e)
  <2>1. \A e \in Executions : DOMAIN tasks'[e] = DOMAIN tasks[e]
    BY <1>4, StepMoves DEF SamePlans
  <2> SUFFICES ASSUME NEW f \in Executions, NEW q \in DOMAIN tasks[f] PROVE Done(f, q)'
    BY <2>1 DEF SuccessMeansDone
  <2>2. ASSUME NEW e \in Executions, NEW plan \in DOMAIN plans[e], PlanSucceeds(e, plan)
        PROVE  Done(f, q)'
    <3>1. /\ UNCHANGED <<verdict, tasks>> /\ plans[e][plan] = "running" /\ plans'[e][plan] = "ok"
          /\ ~(f = e /\ q = plan) => plans'[f][q] = plans[f][q]
          /\ \A t \in Tasks(plan) : State(e, plan, t) \in {"success", "skipped"}
      BY <1>1, <2>2, EndOfPlan DEF PlanSucceeds
    <3>2. CASE f = e /\ q = plan
      BY <3>1, <3>2 DEF State
    <3>3. CASE ~(f = e /\ q = plan)
      BY <3>1, <3>3, <1>2 DEF SuccessMeansDone
    <3> QED BY <3>2, <3>3
  <2>3. ASSUME NEW e \in Executions, NEW plan \in DOMAIN plans[e], PlanFails(e, plan),
               ~PlanSucceeds(e, plan)
        PROVE  Done(f, q)'
    <3>1. /\ UNCHANGED verdict /\ plans[e][plan] = "running" /\ plans'[e][plan] = "error"
          /\ ~(f = e /\ q = plan) => plans'[f][q] = plans[f][q]
      BY <1>1, <2>3, EndOfPlan
    <3>2. plans'[f][q] = "ok" => plans[f][q] = "ok"
      BY <3>1
    <3>3. verdict'[f] = "success" => plans'[f][q] = "ok"
      BY <3>1 DEF SuccessMeansDone
    <3> QED BY <3>2, <3>3, <1>2
  <2>4. ASSUME NEW e \in Executions, Conclude(e)
        PROVE  Done(f, q)'
    <3>1. UNCHANGED plans /\ (verdict'[f] = "success" => verdict[f] = "success" \/ (f = e /\ AllSucceed(e)))
      BY <2>4 DEF Conclude, TypeOK
    <3>2. verdict'[f] = "success" => plans'[f][q] = "ok"
      BY <1>1, <3>1 DEF AllSucceed, SuccessMeansDone
    <3> QED BY <3>1, <3>2, <1>2
  <2>5. ASSUME UNCHANGED <<verdict, plans>>
        PROVE  Done(f, q)'
    BY <2>5, <1>2 DEF SuccessMeansDone
  <2> QED BY <1>4, <2>2, <2>3, <2>4, <2>5, TaskStepKeeps
          DEF Next, EngineStep, PlanStep, Expire, AsrAnswer, vars
<1> QED BY <1>3, <1>4

\* Where a step publishes, a task that is ready makes an attempt.
LEMMA OnlyTasksPublish ==
    ASSUME [Next]_vars
    PROVE  \/ UNCHANGED <<published, raised>>
           \/ \E e \in Executions : Execute(e) /\ UNCHANGED published
           \/ \E e \in Executions : \E plan \in DOMAIN plans[e] : \E t \in Tasks(plan) : Publish(e, plan, t)
<1>1. ASSUME NEW e, NEW plan, PlanStep(e, plan)
      PROVE  UNCHANGED <<published, raised>> \/ \E t \in Tasks(plan) : Publish(e, plan, t)
  BY <1>1 DEF PlanStep, TaskStep, SkipTask, PassFailureOn, FilterTask, RateLimitTask, Work, Transcribe,
              KeepTranscript, PlanSucceeds, PlanFails
<1>2. ASSUME NEW e, Conclude(e)
      PROVE  UNCHANGED <<published, raised>>
  BY <1>2 DEF Conclude
<1>3. ASSUME NEW e, Execute(e)
      PROVE  UNCHANGED published
  BY <1>3 DEF Execute
<1>4. ASSUME NEW p, AsrAnswer(p) \/ Expire(p)
      PROVE  UNCHANGED <<published, raised>>
  BY <1>4 DEF AsrAnswer, Expire
<1> QED BY <1>1, <1>2, <1>3, <1>4 DEF Next, EngineStep, vars

\* An attempt either is the last, or counts as raised and leaves the task waiting for
\* another one, if there is one.
LEMMA OneAttempt ==
    ASSUME TypeOK, AttemptsLeft, NEW e \in Executions, NEW plan \in DOMAIN tasks[e],
           NEW t \in Tasks(plan), Publish(e, plan, t)
    PROVE  /\ raised[e][plan][t] + 1 \in 1 .. Tries(t)
           /\ \/ UNCHANGED raised
              \/ /\ raised' = [raised EXCEPT ![e][plan][t] = @ + 1]
                 /\ raised[e][plan][t] + 1 < Tries(t) \/ EndTask(e, plan, t, "failed")
<1> DEFINE r == raised[e][plan][t]
           left == r + 1 < Tries(t)
<1>1. State(e, plan, t) = "waiting"
  BY DEF Publish, Ready, Waiting
<1>2. r \in Nat /\ r < Tries(t) /\ Tries(t) \in Nat
  BY <1>1 DEF AttemptsLeft, Tries
<1>3. \/ UNCHANGED raised
      \/ /\ raised' = [raised EXCEPT ![e][plan][t] = @ + 1]
         /\ EndTask(e, plan, t, IF left THEN "waiting" ELSE "failed")
  BY DEF Publish
<1>4. r + 1 \in 1 .. Tries(t)
  <2> HIDE DEF r
  <2> QED BY <1>2
<1>5. UNCHANGED raised \/ (raised' = [raised EXCEPT ![e][plan][t] = @ + 1] /\ (left \/ EndTask(e, plan, t, "failed")))
  <2> HIDE DEF left
  <2>1. CASE left
    BY <1>3, <2>1
  <2>2. CASE ~left
    BY <1>3, <2>2
  <2> QED BY <2>1, <2>2
<1> QED BY <1>4, <1>5

LEMMA AttemptsStep ==
    ASSUME TypeOK, ListenersListen, AttemptsLeft, [Next]_vars
    PROVE  AttemptsLeft'
<1> DEFINE Left(e, ts, rs) ==
              /\ DOMAIN rs[e] = DOMAIN ts[e]
              /\ \A plan \in DOMAIN ts[e] :
                    /\ DOMAIN rs[e][plan] = Tasks(plan)
                    /\ \A t \in Tasks(plan) :
                          /\ rs[e][plan][t] \in Nat
                          /\ ts[e][plan][t] # "failed" => rs[e][plan][t] < Tries(t)
<1>1. DOMAIN raised = Executions /\ \A e \in Executions : Left(e, tasks, raised)
  BY DEF AttemptsLeft, State
<1>2. \A e \in Executions : \A plan \in DOMAIN tasks[e] : \A t \in Tasks(plan) :
         tasks[e][plan][t] = "failed" => tasks'[e][plan][t] = "failed"
  BY SettledStays DEF Settled, State
<1> SUFFICES DOMAIN raised' = Executions /\ \A e \in Executions : Left(e, tasks', raised')
  BY DEF AttemptsLeft, State
<1>3. CASE UNCHANGED raised /\ SamePlans
  BY <1>1, <1>2, <1>3 DEF SamePlans
<1>4. ASSUME NEW e \in Executions, Execute(e)
      PROVE  DOMAIN raised' = Executions /\ \A f \in Executions : Left(f, tasks', raised')
  <2> DEFINE eligible == payload[e[1]].eligibilities
             none == [plan \in eligible |-> [t \in Tasks(plan) |-> 0]]
  <2>1. raised' = [raised EXCEPT ![e] = none]
    BY <1>4 DEF Execute
  <2>2. /\ DOMAIN raised' = Executions /\ raised'[e] = none
        /\ \A f \in Executions : f # e => raised'[f] = raised[f]
    BY <1>1, <2>1
  <2>3. DOMAIN tasks'[e] = eligible /\ \A f \in Executions : f # e => tasks'[f] = tasks[f]
    BY <1>4, ExecutePlans
  <2>4. \A t : 0 < Tries(t)
    BY DEF Tries
  <2>5. Left(e, tasks', raised')
    BY <2>2, <2>3, <2>4
  <2>6. ASSUME NEW f \in Executions, f # e PROVE Left(f, tasks', raised')
    <3>1. raised'[f] = raised[f] /\ tasks'[f] = tasks[f] /\ Left(f, tasks, raised)
      BY <1>1, <2>2, <2>3, <2>6
    <3> QED BY <3>1
  <2> HIDE DEF Left
  <2> QED BY <2>2, <2>5, <2>6
<1>5. ASSUME NEW e \in Executions, NEW plan \in DOMAIN plans[e], NEW t \in Tasks(plan), Publish(e, plan, t)
      PROVE  DOMAIN raised' = Executions /\ \A f \in Executions : Left(f, tasks', raised')
  <2>1. plan \in DOMAIN tasks[e]
    BY DEF TypeOK
  <2>2. SamePlans
    BY <1>5, <2>1, WorkMoves
  <2>3. CASE UNCHANGED raised
    BY <1>3, <2>2, <2>3
  <2>4. CASE /\ raised' = [raised EXCEPT ![e][plan][t] = @ + 1]
             /\ raised[e][plan][t] + 1 < Tries(t) \/ EndTask(e, plan, t, "failed")
    <3>1. /\ DOMAIN raised' = Executions /\ DOMAIN raised'[e] = DOMAIN raised[e]
          /\ raised'[e][plan] = [raised[e][plan] EXCEPT ![t] = @ + 1]
          /\ \A f \in Executions : f # e => raised'[f] = raised[f]
          /\ \A q \in DOMAIN raised[e] : q # plan => raised'[e][q] = raised[e][q]
      <4>1. raised'[e] = [raised[e] EXCEPT ![plan][t] = @ + 1]
        BY <1>1, <2>4
      <4> QED BY <1>1, <2>1, <2>4, <4>1
    <3>2. /\ DOMAIN raised'[e][plan] = Tasks(plan)
          /\ raised'[e][plan][t] = raised[e][plan][t] + 1
          /\ \A u \in Tasks(plan) : u # t => raised'[e][plan][u] = raised[e][plan][u]
      BY <1>1, <2>1, <3>1
    <3>3. raised[e][plan][t] + 1 < Tries(t) \/ tasks'[e][plan][t] = "failed"
      BY <2>1, <2>4, OneTask
    <3>4. raised[e][plan][t] \in Nat
      BY <1>1, <2>1
    <3>5. ASSUME NEW f \in Executions, NEW q \in DOMAIN tasks[f], NEW u \in Tasks(q)
          PROVE  /\ DOMAIN raised'[f][q] = Tasks(q)
                 /\ raised'[f][q][u] \in Nat
                 /\ tasks'[f][q][u] # "failed" => raised'[f][q][u] < Tries(u)
      <4>1. CASE f = e /\ q = plan /\ u = t
        BY <3>2, <3>3, <3>4, <4>1
      <4>2. CASE ~(f = e /\ q = plan /\ u = t)
        <5>1. raised'[f][q][u] = raised[f][q][u] /\ DOMAIN raised'[f][q] = Tasks(q)
          BY <1>1, <3>1, <3>2, <4>2
        <5> QED BY <1>1, <1>2, <5>1
      <4> QED BY <4>1, <4>2
    <3>6. \A f \in Executions : DOMAIN raised'[f] = DOMAIN tasks'[f]
      BY <1>1, <2>2, <3>1 DEF SamePlans
    <3>7. \A f \in Executions : \A q \in DOMAIN tasks'[f] : DOMAIN raised'[f][q] = Tasks(q)
      BY <1>1, <2>1, <2>2, <3>1, <3>2 DEF SamePlans
    <3> QED BY <2>2, <3>1, <3>5, <3>6, <3>7 DEF SamePlans
  <2> HIDE DEF Left
  <2> QED BY <1>5, <2>1, <2>3, <2>4, OneAttempt
<1> HIDE DEF Left
<1>6. CASE \E e \in Executions : Execute(e)
  BY <1>4, <1>6
<1>7. CASE ~\E e \in Executions : Execute(e)
  <2>1. SamePlans
    BY <1>7, StepMoves
  <2> QED BY <1>3, <1>5, <1>7, <2>1, OnlyTasksPublish
<1> QED BY <1>6, <1>7

LEMMA PublishedStep ==
    ASSUME TypeOK, ListenersListen, AttemptsLeft, PublishedByTask, [Next]_vars
    PROVE  PublishedByTask'
<1> DEFINE P(w, ts) == /\ w = [plan |-> w.plan, key |-> w.key, task |-> w.task, store |-> w.store,
                               by |-> w.by, attempt |-> w.attempt]
                        /\ w.by \in Executions /\ w.plan \in DOMAIN ts[w.by]
                        /\ w.task \in Publishing \cap Tasks(w.plan) /\ w.key = Key(w.by, w.plan)
                        /\ w.attempt \in 1 .. Tries(w.task)
                        /\ {ts[w.by][w.plan][d] : d \in Deps(w.plan, w.task)} \subseteq {"success"}
<1>1. UNCHANGED payload
  BY StepMoves
<1>2. \A e, plan : Key(e, plan)' = Key(e, plan)
  BY <1>1 DEF Key, RateLimit, PostIn
<1>3. ASSUME NEW e \in Executions, NEW plan \in DOMAIN tasks[e], NEW t \in Tasks(plan),
             DepStates(e, plan, t) \subseteq {"success"}
      PROVE  plan \in DOMAIN tasks'[e] /\ {tasks'[e][plan][d] : d \in Deps(plan, t)} \subseteq {"success"}
  <2>1. \A d \in Deps(plan, t) : d \in Tasks(plan) /\ State(e, plan, d) = "success"
    BY <1>3, PlanTypes DEF DepStates
  <2>2. plan \in DOMAIN tasks'[e]
    BY StepMoves DEF Moves
  <2>3. \A d \in Deps(plan, t) : tasks'[e][plan][d] = "success"
    BY <2>1, SettledStays DEF Settled
  <2> QED BY <2>2, <2>3
<1>4. ASSUME NEW w \in published PROVE P(w, tasks')
  BY <1>3 DEF PublishedByTask
<1>5. ASSUME NEW e \in Executions, NEW plan \in DOMAIN plans[e], NEW t \in Tasks(plan), Publish(e, plan, t),
             NEW w \in published', w \notin published
      PROVE  P(w, tasks')
  <2>1. plan \in DOMAIN tasks[e]
    BY DEF TypeOK
  <2> DEFINE stores == Stores(plan, t, PostIn(e), finding[e][plan])
  <2>2. t \in Publishing /\ DepStates(e, plan, t) \subseteq {"success"}
        /\ \E n : Write(e, plan, t, stores, n)
    BY <1>5 DEF Publish, Ready
  <2> HIDE DEF stores
  <2>3. \E i : w = [plan |-> plan, key |-> Key(e, plan), task |-> t, store |-> stores[i], by |-> e,
                     attempt |-> raised[e][plan][t] + 1]
    BY <1>5, <2>2 DEF Write
  <2>4. raised[e][plan][t] + 1 \in 1 .. Tries(t)
    BY <1>5, <2>1, OneAttempt
  <2> QED BY <1>3, <2>1, <2>2, <2>3, <2>4
<1> HIDE DEF P
<1>6. ASSUME NEW w \in published' PROVE P(w, tasks')
  BY <1>4, <1>5, OnlyTasksPublish
<1> QED BY <1>2, <1>6 DEF PublishedByTask, P, State, DepStates

-----------------------------------------------------------------------------
(* Who awaits a transcript *)

\* A task that asks for a transcript listens from then on.
LEMMA AskerListens ==
    ASSUME TypeOK, NEW e \in Executions, NEW plan \in DOMAIN tasks[e], "asr" \in Tasks(plan),
           EndTask(e, plan, "asr", "listening")
    PROVE  plan \in DOMAIN tasks'[e] /\ tasks'[e][plan]["asr"] = "listening"
BY OneTask DEF SamePlans

LEMMA WhoAsks ==
    ASSUME [Next]_vars
    PROVE  \/ UNCHANGED asrInflights
           \/ \E p \in Posts : AsrAnswer(p)
           \/ \E e \in Executions : \E plan \in DOMAIN plans[e] :
                 /\ "asr" \in Tasks(plan) /\ EndTask(e, plan, "asr", "listening")
                 /\ PlanStep(e, plan) /\ Submit(PostIn(e).id, <<e, plan>>)
<1>1. ASSUME NEW e, NEW plan, PlanStep(e, plan)
      PROVE  \/ UNCHANGED asrInflights
             \/ /\ "asr" \in Tasks(plan) /\ EndTask(e, plan, "asr", "listening")
                /\ Submit(PostIn(e).id, <<e, plan>>)
  <2>1. CASE Transcribe(e, plan)
    BY <2>1 DEF Transcribe, asrVars
  <2>2. CASE KeepTranscript(e, plan)
    BY <2>2 DEF KeepTranscript, Keep
  <2>3. CASE ~Transcribe(e, plan) /\ ~KeepTranscript(e, plan)
    BY <1>1, <2>3 DEF PlanStep, TaskStep, SkipTask, PassFailureOn, FilterTask, RateLimitTask, Work,
                      Publish, PlanSucceeds, PlanFails, asrVars
  <2> QED BY <2>1, <2>2, <2>3
<1>2. ASSUME NEW e, Execute(e) \/ Conclude(e) \/ Expire(e)
      PROVE  UNCHANGED asrInflights
  BY <1>2 DEF Execute, Conclude, Expire, asrVars
<1>3. UNCHANGED vars => UNCHANGED asrInflights
  BY DEF vars, asrVars
<1> QED BY <1>1, <1>2, <1>3 DEF Next, EngineStep

LEMMA ListenStep ==
    ASSUME TypeOK, ListenersListen, [Next]_vars
    PROVE  ListenersListen'
<1> DEFINE Listens(p, listener, ts) ==
              \E e \in Executions : \E plan \in DOMAIN ts[e] :
                 /\ listener = <<e, plan>> /\ "asr" \in Tasks(plan)
                 /\ ts[e][plan]["asr"] = "listening" /\ PostIn(e).id = p
<1>1. Moves /\ UNCHANGED payload
  BY StepMoves
<1>2. \A e : PostIn(e)' = PostIn(e)
  BY <1>1 DEF PostIn
<1>3. \A p \in DOMAIN asrInflights : \A listener \in asrInflights[p] : Listens(p, listener, tasks)
  BY DEF ListenersListen, State
<1>4. ASSUME StillListening, NEW p, NEW listener, Listens(p, listener, tasks)
      PROVE  Listens(p, listener, tasks')
  <2>1. PICK e \in Executions : \E plan \in DOMAIN tasks[e] :
           /\ listener = <<e, plan>> /\ "asr" \in Tasks(plan)
           /\ tasks[e][plan]["asr"] = "listening" /\ PostIn(e).id = p
    BY <1>4
  <2>2. PICK plan \in DOMAIN tasks[e] :
           /\ listener = <<e, plan>> /\ "asr" \in Tasks(plan)
           /\ tasks[e][plan]["asr"] = "listening" /\ PostIn(e).id = p
    BY <2>1
  <2>3. plan \in DOMAIN tasks'[e] /\ tasks'[e][plan]["asr"] = "listening"
    BY <1>1, <1>4, <2>2 DEF Moves, StillListening, State
  <2> QED BY <2>2, <2>3
<1>5. CASE UNCHANGED asrInflights /\ ~\E p \in Posts : AsrAnswer(p)
  <2>1. \A p \in DOMAIN asrInflights' : \A listener \in asrInflights'[p] : Listens(p, listener, tasks')
    BY <1>3, <1>4, <1>5, StepMoves
  <2> QED BY <1>2, <2>1 DEF ListenersListen, State
<1>6. CASE \E p \in Posts : AsrAnswer(p)
  <2>1. PICK p \in Posts : AsrAnswer(p)
    BY <1>6
  <2>2. asrInflights' = [q \in DOMAIN asrInflights \ {p} |-> asrInflights[q]]
    BY <2>1 DEF AsrAnswer, TakeResult
  <2> SUFFICES ASSUME NEW q \in DOMAIN asrInflights \ {p}, NEW listener \in asrInflights[q]
               PROVE  Listens(q, listener, tasks')
    BY <1>2, <2>2 DEF ListenersListen, State
  <2>3. PICK e \in Executions : \E plan \in DOMAIN tasks[e] :
           /\ listener = <<e, plan>> /\ "asr" \in Tasks(plan)
           /\ tasks[e][plan]["asr"] = "listening" /\ PostIn(e).id = q
    BY <1>3
  <2>4. PICK plan \in DOMAIN tasks[e] :
           /\ listener = <<e, plan>> /\ "asr" \in Tasks(plan)
           /\ State(e, plan, "asr") = "listening" /\ PostIn(e).id = q
    BY <2>3 DEF State
  <2>5. plan \in DOMAIN tasks'[e] /\ tasks'[e][plan]["asr"] = "listening"
    BY <1>1, <2>1, <2>4, WakeMoves DEF Moves
  <2> QED BY <2>4, <2>5
<1>7. ASSUME NEW e \in Executions, NEW plan \in DOMAIN plans[e],
             "asr" \in Tasks(plan), EndTask(e, plan, "asr", "listening"),
             PlanStep(e, plan), Submit(PostIn(e).id, <<e, plan>>)
      PROVE  ListenersListen'
  <2>1. plan \in DOMAIN tasks[e] /\ StillListening
    BY <1>7, PlanStepMoves
  <2>2. Listens(PostIn(e).id, <<e, plan>>, tasks')
    BY <1>7, <2>1, AskerListens
  <2> DEFINE p == PostIn(e).id
  <2>3. asrInflights' = Awaiting(p, {<<e, plan>>})
    BY <1>7 DEF Submit
  <2>4. ASSUME NEW q \in DOMAIN asrInflights', NEW listener \in asrInflights'[q]
        PROVE  Listens(q, listener, tasks')
    <3>1. \/ q \in DOMAIN asrInflights /\ listener \in asrInflights[q]
          \/ q = p /\ listener = <<e, plan>>
      BY <2>3, <2>4 DEF Awaiting, InFlight
    <3>2. CASE q \in DOMAIN asrInflights /\ listener \in asrInflights[q]
      BY <1>3, <1>4, <2>1, <3>2
    <3>3. CASE q = p /\ listener = <<e, plan>>
      BY <2>2, <3>3
    <3> QED BY <3>1, <3>2, <3>3
  <2> QED BY <1>2, <2>4 DEF ListenersListen, State
<1> QED BY <1>5, <1>6, <1>7, WhoAsks

-----------------------------------------------------------------------------
(* The limits *)

\* An execution that gets past the limit for a key got past it before, or asks now.
LEMMA LetThroughMoves ==
    ASSUME TypeOK, ListenersListen, [Next]_vars, NEW k, NEW f \in LetThrough(k)', f \notin LetThrough(k)
    PROVE  \E plan \in DOMAIN tasks[f] :
              /\ RateLimitTask(f, plan) /\ Key(f, plan) = k
              /\ State(f, plan, "rate_limit") # "success"
              /\ tasks'[f][plan]["rate_limit"] = "success"
<1>1. Moves /\ UNCHANGED payload
  BY StepMoves
<1>2. \A plan : Key(f, plan)' = Key(f, plan)
  BY <1>1 DEF Key, RateLimit, PostIn
<1>3. f \in Executions /\ \E plan \in DOMAIN tasks'[f] :
         Key(f, plan) = k /\ tasks'[f][plan]["rate_limit"] = "success"
  BY <1>2 DEF LetThrough, State
<1>4. PICK plan \in DOMAIN tasks'[f] :
         Key(f, plan) = k /\ tasks'[f][plan]["rate_limit"] = "success"
  BY <1>3
<1>5. TypeOK'
  BY TypeStep
<1>6. plan \in ALL_PLANS
  <2>1. payload \in [DOMAIN payload -> Payload] /\ f[1] \in DOMAIN payload
        /\ plan \in payload[f[1]].eligibilities
    BY <1>1, <1>3, <1>4, <1>5, ArrivalsAssumption DEF TypeOK
  <2> QED BY <2>1 DEF Payload
<1>7. "rate_limit" \in Tasks(plan)
  BY <1>6, GuardsFirst
<1>8. plan \in DOMAIN tasks[f]
  BY <1>1, <1>3, <1>4, <1>7 DEF Moves
<1>9. State(f, plan, "rate_limit") # "success"
  BY <1>3, <1>4, <1>8 DEF LetThrough
<1>10. RateLimitTask(f, plan)
  BY <1>1, <1>3, <1>4, <1>7, <1>8, <1>9 DEF Moves, TaskMove
<1> QED BY <1>4, <1>8, <1>9, <1>10

LEMMA LimitStep ==
    ASSUME TypeOK, ListenersListen, LimitKeeps, [Next]_vars
    PROVE  LimitKeeps'
<1> DEFINE Bound(k, m, n) == n[k] + (IF k \in m THEN 1 ELSE 0)
<1>1. marks \subseteq Keys /\ expiries \in [Keys -> Nat]
  BY DEF TypeOK
<1>2. ASSUME NEW k \in Keys, LetThrough(k)' \subseteq LetThrough(k),
             Bound(k, marks, expiries) <= Bound(k, marks', expiries'),
             Bound(k, marks', expiries') \in Nat
      PROVE  IsFiniteSet(LetThrough(k)') /\ Cardinality(LetThrough(k)') <= Bound(k, marks', expiries')
  <2>1. IsFiniteSet(LetThrough(k)) /\ Cardinality(LetThrough(k)) <= Bound(k, marks, expiries)
    BY DEF LimitKeeps
  <2>2. IsFiniteSet(LetThrough(k)') /\ Cardinality(LetThrough(k)') <= Cardinality(LetThrough(k))
    BY <1>2, <2>1, FS_Subset
  <2>3. Cardinality(LetThrough(k)) \in Nat /\ Cardinality(LetThrough(k)') \in Nat
    BY <2>1, <2>2, FS_CardinalityType
  <2>4. Bound(k, marks, expiries) \in Nat
    BY <1>1
  <2> HIDE DEF Bound
  <2> QED BY <1>2, <2>1, <2>2, <2>3, <2>4
<1>3. ASSUME NEW k \in Keys,
             \A e \in Executions : \A plan \in DOMAIN plans[e] : ~RateLimitTask(e, plan)
      PROVE  IsFiniteSet(LetThrough(k)') /\ Cardinality(LetThrough(k)') <= Bound(k, marks', expiries')
  <2>1. LetThrough(k)' \subseteq LetThrough(k)
    <3> SUFFICES ASSUME NEW f \in LetThrough(k)', f \notin LetThrough(k) PROVE FALSE
      OBVIOUS
    <3>1. f \in Executions
      BY DEF LetThrough
    <3> QED BY <1>3, <3>1, LetThroughMoves DEF TypeOK
  <2>2. Bound(k, marks, expiries) <= Bound(k, marks', expiries') /\ Bound(k, marks', expiries') \in Nat
    <3>1. CASE UNCHANGED <<marks, expiries>>
      BY <1>1, <3>1
    <3>2. ASSUME NEW j \in Keys, Expire(j) PROVE <2>2
      <4>1. /\ j \in marks /\ marks' = marks \ {j} /\ expiries' = [expiries EXCEPT ![j] = @ + 1]
        BY <3>2 DEF Expire
      <4> QED BY <1>1, <4>1
    <3> QED BY <1>3, <3>1, <3>2, OnlyLimitsMark
  <2> HIDE DEF Bound
  <2> QED BY <1>2, <2>1, <2>2
<1>4. ASSUME NEW e \in Executions, NEW plan \in DOMAIN plans[e], RateLimitTask(e, plan), NEW k \in Keys
      PROVE  IsFiniteSet(LetThrough(k)') /\ Cardinality(LetThrough(k)') <= Bound(k, marks', expiries')
  <2>1. plan \in DOMAIN tasks[e] /\ "rate_limit" \in Tasks(plan) /\ Key(e, plan) \in Keys
    BY PlanTypes DEF TypeOK
  <2>2. PICK st : EndTask(e, plan, "rate_limit", st)
    BY <1>4 DEF RateLimitTask
  <2>3. ASSUME NEW f \in LetThrough(k)', f \notin LetThrough(k)
        PROVE  f = e /\ k = Key(e, plan) /\ tasks'[e][plan]["rate_limit"] = "success"
    <3>1. f \in Executions
      BY DEF LetThrough
    <3>2. PICK q \in DOMAIN tasks[f] : /\ Key(f, q) = k /\ State(f, q, "rate_limit") # "success"
                                       /\ tasks'[f][q]["rate_limit"] = "success"
      BY <2>3, LetThroughMoves
    <3>3. "rate_limit" \in Tasks(q)
      BY <3>1, PlanTypes
    <3> QED BY <2>1, <2>2, <3>1, <3>2, <3>3, OneTask
  <2>4. UNCHANGED expiries
    BY <1>4 DEF RateLimitTask
  <2>5. CASE k # Key(e, plan) \/ Key(e, plan) \in marks
    <3>1. LetThrough(k)' \subseteq LetThrough(k)
      <4>1. CASE k # Key(e, plan)
        BY <2>3, <4>1
      <4>2. CASE Key(e, plan) \in marks
        <5>1. EndTask(e, plan, "rate_limit", "skipped")
          BY <1>4, <4>2 DEF RateLimitTask
        <5>2. tasks'[e][plan]["rate_limit"] = "skipped"
          BY <2>1, <5>1, OneTask
        <5> QED BY <2>3, <5>2
      <4> QED BY <2>5, <4>1, <4>2
    <3>2. Bound(k, marks, expiries) <= Bound(k, marks', expiries') /\ Bound(k, marks', expiries') \in Nat
      <4>1. marks \subseteq marks'
        BY <1>4 DEF RateLimitTask, Admit
      <4> QED BY <1>1, <2>4, <4>1
    <3> HIDE DEF Bound
    <3> QED BY <1>2, <3>1, <3>2
  <2>6. CASE k = Key(e, plan) /\ Key(e, plan) \notin marks
    <3>1. k \notin marks /\ k \in marks'
      BY <1>4, <2>6 DEF RateLimitTask, Admit
    <3>2. IsFiniteSet(LetThrough(k)) /\ Cardinality(LetThrough(k)) <= expiries[k]
      BY <1>1, <3>1 DEF LimitKeeps
    <3>3. LetThrough(k)' \subseteq LetThrough(k) \cup {e}
      BY <2>3
    <3>4. /\ IsFiniteSet(LetThrough(k) \cup {e})
          /\ Cardinality(LetThrough(k) \cup {e}) <= Cardinality(LetThrough(k)) + 1
      <4>1. Cardinality(LetThrough(k)) \in Nat
        BY <3>2, FS_CardinalityType
      <4> QED BY <3>2, <4>1, FS_AddElement
    <3>5. /\ IsFiniteSet(LetThrough(k)')
          /\ Cardinality(LetThrough(k)') <= Cardinality(LetThrough(k) \cup {e})
      BY <3>3, <3>4, FS_Subset
    <3>6. /\ Cardinality(LetThrough(k)) \in Nat /\ Cardinality(LetThrough(k) \cup {e}) \in Nat
          /\ Cardinality(LetThrough(k)') \in Nat
      BY <3>2, <3>4, <3>5, FS_CardinalityType
    <3>7. Bound(k, marks', expiries') = expiries[k] + 1 /\ expiries[k] \in Nat
      BY <1>1, <2>4, <3>1
    <3> HIDE DEF Bound
    <3> QED BY <3>2, <3>4, <3>5, <3>6, <3>7
  <2> QED BY <2>5, <2>6
<1>5. ASSUME NEW k \in Keys
      PROVE  IsFiniteSet(LetThrough(k)') /\ Cardinality(LetThrough(k)') <= Bound(k, marks', expiries')
  <2> HIDE DEF Bound
  <2> QED BY <1>3, <1>4
<1>6. Keys' = Keys
  BY DEF Keys
<1> QED BY <1>5, <1>6 DEF LimitKeeps

\* Who got past a limit stays so.
LEMMA LetThroughGrows ==
    ASSUME TypeOK, ListenersListen, [Next]_vars, NEW k
    PROVE  LetThrough(k) \subseteq LetThrough(k)'
<1> SUFFICES ASSUME NEW e \in LetThrough(k) PROVE e \in LetThrough(k)'
  OBVIOUS
<1>1. UNCHANGED payload
  BY StepMoves
<1>2. \A plan : Key(e, plan)' = Key(e, plan)
  BY <1>1 DEF Key, RateLimit, PostIn
<1>3. e \in Executions
  BY DEF LetThrough
<1>4. PICK plan \in DOMAIN tasks[e] : Key(e, plan) = k /\ State(e, plan, "rate_limit") = "success"
  BY DEF LetThrough
<1>5. "rate_limit" \in Tasks(plan)
  BY <1>3, PlanTypes
<1>6. plan \in DOMAIN tasks'[e] /\ tasks'[e][plan]["rate_limit"] = "success"
  BY <1>3, <1>4, <1>5, SettledStays DEF Settled
<1> QED BY <1>2, <1>3, <1>4, <1>6 DEF LetThrough, State

LEMMA MarksStep ==
    ASSUME TypeOK, ListenersListen, MarksAreSet, [Next]_vars
    PROVE  MarksAreSet'
<1> SUFFICES ASSUME NEW k \in marks' PROVE LetThrough(k)' # {}
  BY DEF MarksAreSet
<1>1. CASE k \in marks
  BY <1>1, LetThroughGrows DEF MarksAreSet
<1>2. CASE k \notin marks
  <2>1. PICK e \in Executions : \E plan \in DOMAIN plans[e] : RateLimitTask(e, plan)
    BY <1>2, OnlyLimitsMark DEF Expire
  <2>2. PICK plan \in DOMAIN plans[e] : RateLimitTask(e, plan)
    BY <2>1
  <2>3. plan \in DOMAIN tasks[e] /\ "rate_limit" \in Tasks(plan)
    BY PlanTypes DEF TypeOK
  <2>4. Key(e, plan) = k /\ EndTask(e, plan, "rate_limit", "success")
    BY <1>2, <2>2 DEF RateLimitTask, Admit
  <2>5. plan \in DOMAIN tasks'[e] /\ tasks'[e][plan]["rate_limit"] = "success"
    BY <2>3, <2>4, OneTask DEF SamePlans
  <2>6. Key(e, plan)' = k
    BY <2>4, StepMoves DEF Key, RateLimit, PostIn
  <2>7. e \in LetThrough(k)'
    BY <2>5, <2>6 DEF LetThrough, State
  <2> QED BY <2>7
<1> QED BY <1>1, <1>2

LEMMA SkipsStep ==
    ASSUME TypeOK, ListenersListen, MarksAreSet, SkipsAccounted, [Next]_vars
    PROVE  SkipsAccounted'
<1> DEFINE Filtered(e, plan, ts) ==
              /\ "filter" \in Tasks(plan) /\ ts[e][plan]["filter"] = "skipped"
              /\ ~Passes(plan, PostIn(e))
           Taken(e, plan, ts) ==
              /\ ts[e][plan]["rate_limit"] = "skipped"
              /\ \E o \in Executions \ {e} :
                    /\ plan \in DOMAIN ts[o] /\ Key(o, plan) = Key(e, plan)
                    /\ ts[o][plan]["rate_limit"] = "success"
<1>1. Moves /\ UNCHANGED payload
  BY StepMoves
<1>2. \A e, plan : Key(e, plan)' = Key(e, plan) /\ PostIn(e)' = PostIn(e)
  BY <1>1 DEF Key, RateLimit, PostIn
<1> SUFFICES ASSUME NEW e \in Executions, NEW plan \in DOMAIN tasks'[e], NEW t \in Tasks(plan),
                    tasks'[e][plan][t] = "skipped"
             PROVE  Filtered(e, plan, tasks') \/ Taken(e, plan, tasks')
  BY <1>2 DEF SkipsAccounted, StoppedByFilter, TakenByAnother, State
<1>3. plan \in DOMAIN tasks[e]
  BY <1>1 DEF Moves
<1>4. /\ plan \in ALL_PLANS /\ "rate_limit" \in Tasks(plan)
      /\ \A u \in Tasks(plan) : Deps(plan, u) \subseteq Tasks(plan)
  BY <1>3, PlanTypes
<1>5. ASSUME NEW f \in Executions, NEW q \in DOMAIN tasks[f], NEW u \in Tasks(q),
             tasks[f][q][u] \in {"success", "skipped"}
      PROVE  q \in DOMAIN tasks'[f] /\ tasks'[f][q][u] = tasks[f][q][u]
  BY <1>5, SettledStays DEF Settled, State
<1>6. ASSUME Filtered(e, plan, tasks) \/ Taken(e, plan, tasks)
      PROVE  Filtered(e, plan, tasks') \/ Taken(e, plan, tasks')
  BY <1>3, <1>4, <1>5, <1>6
<1>7. CASE \E u \in Tasks(plan) : State(e, plan, u) = "skipped"
  <2>1. Filtered(e, plan, tasks) \/ Taken(e, plan, tasks)
    BY <1>3, <1>7 DEF SkipsAccounted, StoppedByFilter, TakenByAnother, State
  <2> QED BY <1>6, <2>1
<1>8. CASE t = "filter" /\ ~Passes(plan, PostIn(e))
  BY <1>8
<1>9. CASE t = "rate_limit" /\ Key(e, plan) \in marks
  <2>1. PICK o \in Executions : \E q \in DOMAIN tasks[o] :
           Key(o, q) = Key(e, plan) /\ State(o, q, "rate_limit") = "success"
    BY <1>9 DEF MarksAreSet, LetThrough
  <2>2. PICK q \in DOMAIN tasks[o] : Key(o, q) = Key(e, plan) /\ State(o, q, "rate_limit") = "success"
    BY <2>1
  <2>3. q = plan
    BY <2>2 DEF Key, RateLimit
  <2>4. plan \in DOMAIN tasks'[o] /\ tasks'[o][plan]["rate_limit"] = "success"
    BY <1>4, <1>5, <2>2, <2>3 DEF State
  <2>5. o # e
    BY <1>9, <2>4
  <2> QED BY <1>9, <2>2, <2>3, <2>4, <2>5
<1>10. TaskMove(e, plan, t)
  BY <1>1, <1>3 DEF Moves
<1>11. \/ \E u \in Tasks(plan) : State(e, plan, u) = "skipped"
       \/ t = "filter" /\ ~Passes(plan, PostIn(e))
       \/ t = "rate_limit" /\ Key(e, plan) \in marks
  BY <1>4, <1>10 DEF TaskMove, DepStates
<1> QED BY <1>7, <1>8, <1>9, <1>11

-----------------------------------------------------------------------------
(* The invariant, and what follows from it *)

LEMMA InitInv == Init => IInv
<1> SUFFICES ASSUME Init PROVE IInv
  OBVIOUS
<1> USE DEF Init, NoTasks
<1>1. /\ DOMAIN tasks = Executions /\ DOMAIN plans = Executions
      /\ \A e \in Executions : DOMAIN tasks[e] = {} /\ DOMAIN plans[e] = {}
  OBVIOUS
<1>2. TypeOK
  BY <1>1 DEF TypeOK
<1>3. ListenersListen
  BY DEF ListenersListen, AsrInit
<1>4. /\ EachInOrder /\ SuccessMeansDone /\ AttemptsLeft /\ PublishedByTask
      /\ MarksAreSet /\ SkipsAccounted
  BY <1>1 DEF EachInOrder, SuccessMeansDone, AttemptsLeft, PublishedByTask, MarksAreSet, SkipsAccounted
<1>5. LimitKeeps
  <2>1. \A k \in Keys : LetThrough(k) = {} /\ expiries[k] = 0
    BY <1>1 DEF LetThrough
  <2>2. IsFiniteSet({}) /\ Cardinality({}) = 0 /\ marks = {}
    BY FS_EmptySet
  <2> SUFFICES ASSUME NEW k \in Keys
               PROVE  /\ IsFiniteSet(LetThrough(k))
                      /\ Cardinality(LetThrough(k)) <= expiries[k] + (IF k \in marks THEN 1 ELSE 0)
    BY DEF LimitKeeps
  <2>3. k \notin marks /\ IsFiniteSet(LetThrough(k)) /\ Cardinality(LetThrough(k)) = 0 /\ expiries[k] = 0
    BY <2>1, <2>2
  <2> HIDE DEF Init
  <2> QED BY <2>3
<1> QED BY <1>2, <1>3, <1>4, <1>5 DEF IInv

LEMMA NextInv == IInv /\ [Next]_vars => IInv'
BY TypeStep, ListenStep, OrderStep, SuccessStep, AttemptsStep, PublishedStep, LimitStep, MarksStep,
   SkipsStep DEF IInv

\* The tasks of every execution follow the graph of their plan, transcripts wake who asked
\* for them, and a limit lets one execution through for each time its mark ran out.
THEOREM Inductive == Spec => []IInv
BY InitInv, NextInv, PTL DEF Spec

\* When what a task depends on succeeded, so did everything on the way to it.
LEMMA AncestorsSucceed ==
    ASSUME TypeOK, EachInOrder, NEW e \in Executions, NEW plan \in DOMAIN tasks[e],
           NEW t \in Tasks(plan), DepStates(e, plan, t) \subseteq {"success"},
           NEW u, Precedes(plan, t, u)
    PROVE  State(e, plan, u) = "success"
<1> DEFINE S == {v \in Tasks(plan) : State(e, plan, v) = "success"}
<1>1. ASSUME NEW v \in S PROVE Deps(plan, v) \subseteq S
  BY PlanTypes DEF EachInOrder, InOrder, DepStates
<1>2. Closed(plan, S) /\ Deps(plan, t) \subseteq S
  BY <1>1, PlanTypes DEF Closed, DepStates
<1> QED BY <1>2 DEF Precedes

\* OnlyEligiblePublished (plan.py, task.py): a publication comes from an eligible
\* execution, behind the plan's filter and all the tasks it depends on.
THEOREM EligibleOnly == Spec => []OnlyEligiblePublished
<1>1. IInv => OnlyEligiblePublished
  <2> SUFFICES ASSUME IInv, NEW w \in published
               PROVE  /\ w.plan \in payload[w.by[1]].eligibilities
                      /\ "filter" \in Tasks(w.plan) => Passes(w.plan, PostIn(w.by))
                      /\ \A t \in Ancestors[w.plan][w.task] : State(w.by, w.plan, t) = "success"
    BY DEF OnlyEligiblePublished
  <2>1. /\ TypeOK /\ EachInOrder /\ w.by \in Executions /\ w.plan \in DOMAIN tasks[w.by]
        /\ w.task \in Publishing \cap Tasks(w.plan)
        /\ DepStates(w.by, w.plan, w.task) \subseteq {"success"}
    BY DEF IInv, PublishedByTask
  <2>2. w.plan \in ALL_PLANS
    BY <2>1, PlanTypes
  <2>3. w.plan \in payload[w.by[1]].eligibilities
    BY <2>1 DEF TypeOK
  <2>4. ASSUME "filter" \in Tasks(w.plan)
        PROVE  Passes(w.plan, PostIn(w.by))
    <3>1. State(w.by, w.plan, "filter") = "success"
      BY <2>1, <2>2, <2>4, GuardsFirst, AncestorsSucceed
    <3> QED BY <2>1, <2>4, <3>1 DEF EachInOrder, InOrder
  <2>5. ASSUME NEW t \in Ancestors[w.plan][w.task]
        PROVE  State(w.by, w.plan, t) = "success"
    <3>1. Precedes(w.plan, w.task, t)
      BY <2>1, <2>2 DEF Ancestors, Precedes
    <3> QED BY <2>1, <3>1, AncestorsSucceed
  <2> QED BY <2>3, <2>4, <2>5
<1> QED BY <1>1, Inductive, PTL

\* PublishedPerWindow (task_rate_limit.py, task.py, the dispatcher's retries): however many
\* streams, retries and leftover tasks there are, one execution publishes per mark, and
\* each writes a store at most once in every attempt tenacity grants its task.
THEOREM BoundedPerWindow == Spec => []PublishedPerWindow
<1>1. IInv => PublishedPerWindow
  <2> SUFFICES ASSUME IInv, NEW w \in published
               PROVE  LET same == {v \in published : v.key = w.key /\ v.task = w.task}
                      IN  /\ Cardinality({v.by : v \in same}) <= 1 + expiries[w.key]
                          /\ Cardinality({v \in same : v.store = w.store})
                                <= Tries(w.task) * (1 + expiries[w.key])
    BY DEF PublishedPerWindow
  <2> DEFINE same == {v \in published : v.key = w.key /\ v.task = w.task}
             By == {v.by : v \in same}
             S == {v \in same : v.store = w.store}
             L == LetThrough(w.key)
             tries == Tries(w.task)
             Pairs == L \X (1 .. tries)
             pair == [v \in S |-> <<v.by, v.attempt>>]
             exp == expiries[w.key]
  <2>1. TypeOK /\ EachInOrder /\ LimitKeeps
    BY DEF IInv
  <2>2. ASSUME NEW v \in published
        PROVE  /\ v = [plan |-> v.plan, key |-> v.key, task |-> v.task, store |-> v.store,
                       by |-> v.by, attempt |-> v.attempt]
               /\ v.by \in Executions /\ v.plan \in DOMAIN tasks[v.by]
               /\ v.task \in Publishing \cap Tasks(v.plan) /\ v.key = Key(v.by, v.plan)
               /\ v.attempt \in 1 .. Tries(v.task)
               /\ DepStates(v.by, v.plan, v.task) \subseteq {"success"}
    BY DEF IInv, PublishedByTask
  <2>3. ASSUME NEW v \in published
        PROVE  v.by \in LetThrough(v.key) /\ v.key \in Keys
    <3>1. v.plan \in ALL_PLANS /\ v.key \in Keys
      BY <2>1, <2>2, PlanTypes
    <3>2. State(v.by, v.plan, "rate_limit") = "success"
      BY <2>1, <2>2, <3>1, GuardsFirst, AncestorsSucceed
    <3> QED BY <2>2, <3>1, <3>2 DEF LetThrough
  <2>4. ASSUME NEW u \in S, NEW v \in S, u.by = v.by, u.attempt = v.attempt
        PROVE  u = v
    <3>1. Key(u.by, u.plan) = Key(v.by, v.plan)
      BY <2>2
    <3>2. u.plan = v.plan
      BY <3>1 DEF Key, RateLimit
    <3> QED BY <2>2, <2>4, <3>2
  <2>5. /\ IsFiniteSet(L) /\ exp \in Nat /\ tries \in {2, 3}
        /\ Cardinality(L) \in Nat /\ Cardinality(L) <= 1 + exp
    <3>1. /\ w.key \in Keys /\ IsFiniteSet(L) /\ exp \in Nat
          /\ Cardinality(L) <= exp + (IF w.key \in marks THEN 1 ELSE 0)
      BY <2>1, <2>3 DEF LimitKeeps, TypeOK
    <3>2. Cardinality(L) \in Nat
      BY <3>1, FS_CardinalityType
    <3>3. tries \in {2, 3}
      BY DEF Tries
    <3> HIDE DEF L, exp, tries
    <3> QED BY <3>1, <3>2, <3>3
  <2>6. Cardinality(By) <= 1 + exp
    <3>1. By \subseteq L
      BY <2>3
    <3> HIDE DEF By, L, exp
    <3>2. IsFiniteSet(By) /\ Cardinality(By) <= Cardinality(L)
      BY <2>5, <3>1, FS_Subset
    <3>3. Cardinality(By) \in Nat
      BY <3>2, FS_CardinalityType
    <3> QED BY <2>5, <3>2, <3>3
  <2>7. pair \in Injection(S, Pairs)
    <3>1. ASSUME NEW v \in S PROVE <<v.by, v.attempt>> \in Pairs
      BY <2>2, <2>3
    <3>2. pair \in [S -> Pairs]
      BY <3>1
    <3>3. ASSUME NEW u \in S, NEW v \in S, pair[u] = pair[v] PROVE u = v
      BY <2>4, <3>3
    <3> HIDE DEF pair, S, Pairs
    <3> QED BY <3>2, <3>3 DEF Injection, IsInjective
  <2>8. Cardinality(S) <= tries * (1 + exp)
    <3> DEFINE T == 1 .. tries
    <3>1. IsFiniteSet(T) /\ Cardinality(T) = tries
      <4>1. IsFiniteSet(1 .. tries) /\ Cardinality(1 .. tries) = IF 1 > tries THEN 0 ELSE tries - 1 + 1
        <5>1. 1 \in Int /\ tries \in Int
          BY <2>5
        <5> HIDE DEF tries
        <5> QED BY <5>1, FS_Interval
      <4>2. (IF 1 > tries THEN 0 ELSE tries - 1 + 1) = tries
        <5> HIDE DEF tries
        <5> QED BY <2>5
      <4> QED BY <4>1, <4>2
    <3> HIDE DEF T
    <3>2. IsFiniteSet(L \X T) /\ Cardinality(L \X T) = Cardinality(L) * Cardinality(T)
      BY <2>5, <3>1, FS_Product
    <3>3. Pairs = L \X T
      BY DEF T
    <3> HIDE DEF pair, S, Pairs, L, exp, tries
    <3>4. IsFiniteSet(S) /\ Cardinality(S) <= Cardinality(Pairs)
      BY <2>7, <3>2, <3>3, FS_Injection
    <3>5. Cardinality(S) \in Nat
      BY <3>4, FS_CardinalityType
    <3> DEFINE s == Cardinality(S)
               l == Cardinality(L)
    <3>6. s \in Nat /\ l \in Nat /\ s <= l * tries /\ l <= 1 + exp /\ exp \in Nat
      BY <2>5, <3>1, <3>2, <3>3, <3>4, <3>5
    <3> HIDE DEF s, l
    <3>7. CASE tries = 2
      BY <3>6, <3>7 DEF s
    <3>8. CASE tries = 3
      BY <3>6, <3>8 DEF s
    <3> QED BY <2>5, <3>7, <3>8
  <2> QED BY <2>6, <2>8
<1> QED BY <1>1, Inductive, PTL

\* SuccessAccountsForPlans (plan_master.py, merge_results): when an execution reports
\* success, each of its plans did all of its tasks, or its filter stops the post, or
\* another execution had taken its limit.  Nothing is said of how that one ended.
THEOREM SuccessAccounted == Spec => []SuccessAccountsForPlans
<1>1. IInv => SuccessAccountsForPlans
  <2> SUFFICES ASSUME IInv, NEW e \in Executions, verdict[e] = "success", NEW plan \in DOMAIN tasks[e]
               PROVE  \/ \A t \in Tasks(plan) : State(e, plan, t) = "success"
                      \/ StoppedByFilter(e, plan) \/ TakenByAnother(e, plan)
    BY DEF SuccessAccountsForPlans
  <2>1. \A t \in Tasks(plan) : State(e, plan, t) \in {"success", "skipped"}
    BY DEF IInv, SuccessMeansDone
  <2> QED BY <2>1 DEF IInv, SkipsAccounted
<1> QED BY <1>1, Inductive, PTL
=============================================================================
