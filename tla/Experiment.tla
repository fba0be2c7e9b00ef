----------------------------- MODULE Experiment -----------------------------
(***************************************************************************)
(* The simulator: the ExperimentState of a session (state.py), the engine  *)
(* that advances it tick by tick (engine.py), what an agent may decide     *)
(* and how a decision becomes posts and engagements (behavior.py), the     *)
(* first wave of a scenario (simulation.py), the two branches of a         *)
(* comparison (comparison.py) and the buttons of the cockpit (app.py).     *)
(*                                                                         *)
(* A session is one thread: a click runs to its end before the next one.   *)
(* A tick is split into the turns of the agents and a turn into its        *)
(* decisions, because a post enters the state at once and an engagement    *)
(* only when the tick is over.  The dice, and with them the order of a     *)
(* feed, are a nondeterministic choice.  A uuid is the next free number.   *)
(***************************************************************************)
EXTENDS Naturals, Sequences, FiniteSets, SequencesExt

CONSTANTS
    Topics,
    Interests,      \* interests of the agent at each position: the society's archetypes
    MaxSteps,       \* upper end of the "Ticks" number input
    UseLLM,         \* the agent-decisions role is enabled
    MaxPosts,       \* config.max_posts_per_agent_per_step
    NoId,           \* None, where an id is expected
    MaxId, MaxTicks, MaxScenarios,  \* bounds of the model: uuids, ticks and scenarios of a run,
    MaxKept                         \* and ticks of a run that is saved or of a branch

Branches == {"live", "baseline", "variant"}
Ids == 1 .. MaxId

ASSUME InterestsAssumption ==
    /\ Interests \in Seq(Seq(Topics)) /\ Interests # <<>>
    /\ \A i \in DOMAIN Interests : Interests[i] # <<>>
ASSUME LimitsAssumption ==
    /\ MaxSteps \in Nat /\ MaxSteps >= 1 /\ MaxPosts \in Nat /\ UseLLM \in BOOLEAN
    /\ MaxId \in Nat /\ MaxTicks \in Nat /\ MaxScenarios \in Nat
    /\ MaxKept \in Nat
ASSUME NoIdAssumption == NoId \notin Ids /\ NoId \notin Branches

VARIABLES
    exps,       \* the experiments in memory: the session's and a comparison's two
    saved,      \* the run JSON downloaded last, or None
    fresh,      \* the next uuid
    run         \* the engine.run(steps) in progress: agents that had their turn, what the tick made

vars == <<exps, saved, fresh, run>>

\* "like" stands for every action that leaves an engagement and no post: like, repost,
\* quote, dwell and click.
ActionTypes == {"like", "reply"}

Post       == [id : Ids, author : Ids, replyTo : Ids \cup {NoId}, topics : SUBSET Topics]
Engagement == [agent : Ids, post : Ids, action : ActionTypes]
Agent      == [id : Ids, interests : Seq(Topics), memory : Seq(Ids), recent : Seq(Engagement)]
TickRecord == [index : Nat, newPosts : Seq(Ids), newEngagements : Nat]
Experiment == [agents : Seq(Agent), posts : Seq(Post), scenarios : Seq(SUBSET Topics),
               engagements : Seq(Engagement), ticks : Seq(TickRecord),
               currentTick : Nat, lastReaction : Nat]
\* What a behavior answers: what to do to which post, with a text or not.
Action == [kind : ActionTypes \cup {"original"}, post : Ids \cup {NoId}, text : BOOLEAN]

Absent == [none |-> NoId]
NewExperiment == [agents |-> <<>>, posts |-> <<>>, scenarios |-> <<>>, engagements |-> <<>>,
                  ticks |-> <<>>, currentTick |-> 0, lastReaction |-> 0]
NotRunning == [on |-> NoId, steps |-> 0, left |-> 0, turn |-> 0, pending |-> <<>>,
               newPosts |-> <<>>, newEngagements |-> <<>>]

Init ==
    /\ exps = [b \in Branches |-> IF b = "live" THEN NewExperiment ELSE Absent]
    /\ saved = Absent
    /\ fresh = 1
    /\ run = NotRunning

Idle == run.on = NoId
live == exps["live"]
Elems(q) == {q[i] : i \in DOMAIN q}

-----------------------------------------------------------------------------
(* ExperimentState *)

\* add_posts: an empty wave leaves last_reaction_count as it was.
AddPosts(x, new) ==
    [x EXCEPT !.posts = @ \o new,
              !.lastReaction = IF new = <<>> THEN @ ELSE Len(new)]

ResetSociety(x) == NewExperiment

\* Mutant: the engagements of the posts that go away stay.
ClearKeepsEngagements(x) ==
    [x EXCEPT !.posts = <<>>, !.ticks = <<>>, !.currentTick = 0, !.lastReaction = 0]

\* The agents and the scenarios stay, and so does what the agents remember.
ClearPostsOf(x) ==
    [x EXCEPT !.posts = <<>>, !.engagements = <<>>, !.ticks = <<>>,
              !.currentTick = 0, !.lastReaction = 0]

RecordTick(x, record) == [x EXCEPT !.ticks = Append(@, record), !.currentTick = record.index]

\* populate_society adds a society of fresh agents to whatever agents there are.
Society == [i \in DOMAIN Interests |->
               [id |-> fresh + i - 1, interests |-> Interests[i], memory |-> <<>>, recent |-> <<>>]]
Populated(x) == IF x.agents = <<>> THEN [x EXCEPT !.agents = Society] ELSE x
AfterPopulate(x) == IF x.agents = <<>> THEN fresh + Len(Interests) ELSE fresh

-----------------------------------------------------------------------------
(* The buttons of the cockpit *)

\* Nothing reads the result of a comparison back, so the next click forgets it.
Alone(x) == [b \in Branches |-> IF b = "live" THEN x ELSE Absent]
SetLive(x) == exps' = Alone(x)

CreateSociety ==
    /\ Idle
    /\ fresh + Len(Interests) <= MaxId + 1
    /\ SetLive([ResetSociety(live) EXCEPT !.agents = Society])
    /\ fresh' = fresh + Len(Interests)
    /\ UNCHANGED <<saved, run>>

\* The interest an agent reacts with: one the scenario is about if there is one.
ReactsWith(agent, topics) ==
    LET own == Elems(agent.interests)
    IN  IF own \cap topics # {} THEN {CHOOSE t \in own \cap topics : TRUE} ELSE own

\* Any of the agents react, in their order: no chance to react is above 0.9 or is 0.
Reacting(agents) ==
    UNION {{f \in [1 .. k -> DOMAIN agents] : \A i, j \in 1 .. k : i < j => f[i] < f[j]}
              : k \in 0 .. Len(agents)}

\* The posts of those who react, each with its interest.
Reactions(agents, reacting, interest, topics, first) ==
    [k \in DOMAIN reacting |->
        [id |-> first + k - 1, author |-> agents[reacting[k]].id, replyTo |-> NoId,
         topics |-> topics \cup {interest[k]}]]

InjectScenario ==
    /\ Idle
    /\ Len(live.scenarios) < MaxScenarios
    /\ AfterPopulate(live) <= MaxId + 1
    /\ LET society == Populated(live)
           agents  == society.agents
           first   == AfterPopulate(live)
       IN  \E topics \in (SUBSET Topics) \ {{}}, reacting \in Reacting(agents) :
              /\ first + Len(reacting) <= MaxId + 1
              /\ \E interest \in [DOMAIN reacting -> Topics] :
                    /\ \A k \in DOMAIN reacting :
                          interest[k] \in ReactsWith(agents[reacting[k]], topics)
                    /\ SetLive(AddPosts([society EXCEPT !.scenarios = Append(@, topics)],
                                        Reactions(agents, reacting, interest, topics, first)))
              /\ fresh' = first + Len(reacting)
    /\ UNCHANGED <<saved, run>>

ClearPosts ==
    /\ Idle
    /\ SetLive(ClearPostsOf(live))
    /\ UNCHANGED <<saved, fresh, run>>

\* "Reset Run" clears the session: the comparison goes, the file stays.
ResetRun ==
    /\ Idle
    /\ SetLive(NewExperiment)
    /\ UNCHANGED <<saved, fresh, run>>

DownloadRun ==
    /\ Idle /\ live.currentTick <= MaxKept
    /\ saved' = live
    /\ SetLive(live)
    /\ UNCHANGED <<fresh, run>>

ReplaceRun ==
    /\ Idle /\ saved # Absent
    /\ SetLive(saved)
    /\ UNCHANGED <<saved, fresh, run>>

Start(b, steps) == run' = [NotRunning EXCEPT !.on = b, !.steps = steps, !.left = steps]

StepSimulation ==
    /\ Idle /\ live.agents # <<>>
    /\ \E steps \in 1 .. MaxSteps :
          /\ live.currentTick + steps <= MaxTicks
          /\ Start("live", steps)
    /\ SetLive(live)
    /\ UNCHANGED <<saved, fresh>>

\* Both branches are copies of the session's experiment, made through its JSON;
\* the baseline runs first.
RunComparison ==
    /\ Idle /\ live.agents # <<>> /\ live.posts # <<>>
    /\ exps' = [b \in Branches |-> live]
    /\ \E steps \in 1 .. MaxSteps :
          /\ live.currentTick + steps <= MaxKept
          /\ Start("baseline", steps)
    /\ UNCHANGED <<saved, fresh>>

-----------------------------------------------------------------------------
(* A tick *)

\* rank_feed offers every post of somebody else; which one the behavior comes to
\* depends on scores, the clock and the dice.
Feed(x, me) == {p \in Elems(x.posts) : p.author # me.id}

Do(kind, p)   == [kind |-> kind, post |-> p.id, text |-> FALSE]
DoReply(p)    == [kind |-> "reply", post |-> p.id, text |-> TRUE]
MakeOriginal  == [kind |-> "original", post |-> NoId, text |-> TRUE]

\* DeterministicBehavior: pass over the post, or like it or dwell on it; with a shared
\* interest a like may be followed by a repost, by a reply, or by both.
ReactTo(me, p) ==
    {<<>>, <<Do("like", p)>>}
        \cup IF Elems(me.interests) \cap p.topics = {} THEN {}
             ELSE {<<Do("like", p), Do("like", p)>>, <<Do("like", p), DoReply(p)>>,
                   <<Do("like", p), Do("like", p), DoReply(p)>>}

Deterministic(me, feed) ==
    LET reactions == UNION {ReactTo(me, p) : p \in feed}
    IN  IF feed = {} THEN {<<>>}
        ELSE reactions \cup (IF MaxPosts = 0 THEN {}
                             ELSE {Append(r, MakeOriginal) : r \in reactions})

\* LLMAgentBehavior: at most one action on one post; a reply may come without text.
\* It falls back to the deterministic behavior whenever the model fails.
FromLLM(feed) == UNION {{<<>>, <<DoReply(p)>>} \cup {<<Do(kind, p)>> : kind \in ActionTypes}
                           : p \in feed}

Decisions(b, me, feed) ==
    Deterministic(me, feed) \cup (IF UseLLM /\ b = "live" THEN FromLLM(feed) ELSE {})

MakesPost(action) == action.kind = "original" \/ (action.kind = "reply" /\ action.text)
Made(actions) == Cardinality({i \in DOMAIN actions : MakesPost(actions[i])})

Running == exps[run.on]

Decide ==
    /\ ~Idle /\ run.pending = <<>> /\ run.turn < Len(Running.agents)
    /\ LET me == Running.agents[run.turn + 1]
       IN  \E actions \in Decisions(run.on, me, Feed(Running, me)) :
              /\ fresh + Made(actions) <= MaxId + 1
              /\ run' = [run EXCEPT !.turn = @ + 1, !.pending = actions]
    /\ UNCHANGED <<exps, saved, fresh>>

\* Mutant: a branch shares the posts and the log of the session.
SetRunningShared(x) == exps' = [exps EXCEPT ![run.on] = x, !["live"] = x]
SetRunning(x) == exps' = [exps EXCEPT ![run.on] = x]
Me == Running.agents[run.turn]
NextAction == Head(run.pending)

\* The own interest and a topic of the latest scenario, a shared one if there is one.
OriginalTopics ==
    LET own == Me.interests[1]
        hot == Running.scenarios[Len(Running.scenarios)]
        common == Elems(Me.interests) \cap hot
    IN  IF Running.scenarios = <<>> THEN {own}
        ELSE {own, CHOOSE t \in (IF common # {} THEN common ELSE hot) : TRUE}

\* An original is logged as a reply of its author to itself; the agent does not remember it.
MaterializeOriginal ==
    /\ ~Idle /\ run.pending # <<>> /\ NextAction.kind = "original"
    /\ SetRunning(AddPosts(Running, <<[id |-> fresh, author |-> Me.id, replyTo |-> NoId,
                                       topics |-> OriginalTopics]>>))
    /\ run' = [run EXCEPT !.pending = Tail(@), !.newPosts = Append(@, fresh),
           !.newEngagements = Append(@, [agent |-> Me.id, post |-> fresh, action |-> "reply"])]
    /\ fresh' = fresh + 1
    /\ UNCHANGED saved

\* The state in which the acting agent remembers this engagement.
Remember(x, e) ==
    [x EXCEPT !.agents[run.turn].memory = Append(@, e.post),
              !.agents[run.turn].recent = Append(@, e)]

ReplyPost(e) ==
    LET parents == {p \in Elems(Running.posts) : p.id = e.post}
    IN  [id |-> fresh, author |-> e.agent, replyTo |-> e.post,
         topics |-> IF parents = {} THEN {} ELSE (CHOOSE p \in parents : TRUE).topics]

MaterializeEngagement ==
    /\ ~Idle /\ run.pending # <<>> /\ NextAction.kind # "original"
    /\ LET e == [agent |-> Me.id, post |-> NextAction.post, action |-> NextAction.kind]
           logged == [run EXCEPT !.pending = Tail(@), !.newEngagements = Append(@, e)]
       IN  IF MakesPost(NextAction)
           THEN /\ SetRunning(AddPosts(Remember(Running, e), <<ReplyPost(e)>>))
                /\ run' = [logged EXCEPT !.newPosts = Append(@, fresh)]
                /\ fresh' = fresh + 1
           ELSE /\ SetRunning(Remember(Running, e))
                /\ run' = logged
                /\ UNCHANGED fresh
    /\ UNCHANGED saved

NextTick == [NotRunning EXCEPT !.on = run.on, !.steps = run.steps, !.left = run.left - 1]

EndTick ==
    /\ ~Idle /\ run.pending = <<>> /\ run.turn = Len(Running.agents)
    /\ SetRunning(RecordTick([Running EXCEPT !.engagements = @ \o run.newEngagements],
                             [index |-> Running.currentTick + 1, newPosts |-> run.newPosts,
                              newEngagements |-> Len(run.newEngagements)]))
    /\ \/ /\ run.left > 1
          /\ run' = NextTick
       \/ /\ run.left = 1 /\ run.on = "baseline"
          /\ Start("variant", run.steps)
       \/ /\ run.left = 1 /\ run.on # "baseline"
          /\ run' = NotRunning
    /\ UNCHANGED <<saved, fresh>>

Next ==
    \/ CreateSociety \/ InjectScenario \/ ClearPosts \/ ResetRun
    \/ DownloadRun \/ ReplaceRun \/ StepSimulation \/ RunComparison
    \/ Decide \/ MaterializeOriginal \/ MaterializeEngagement \/ EndTick

Spec == Init /\ [][Next]_vars

-----------------------------------------------------------------------------
(* Properties *)

Present == {exps[b] : b \in {c \in Branches : exps[c] # Absent}} \cup ({saved} \ {Absent})
IdsOf(q) == {r.id : r \in Elems(q)}

\* What the tick in progress has made in a branch and not yet filed.
Unfiled(b) == IF run.on = b THEN run.newEngagements ELSE <<>>
Log(b) == exps[b].engagements \o Unfiled(b)
HasBranch == {b \in Branches : exps[b] # Absent}

\* reach_summary: who has posted or is logged to have engaged.
Reached(x) == {p.author : p \in Elems(x.posts)} \cup {e.agent : e \in Elems(x.engagements)}

\* Every id an experiment holds resolves inside it: the author and the parent of a
\* post, the agent and the post of an engagement, the posts of a tick.  So no more
\* agents are reached than there are: the cockpit's progress bar takes a ratio up to 1.
Resolves(x, log) ==
    /\ \A p \in Elems(x.posts) : /\ p.author \in IdsOf(x.agents)
                                 /\ p.replyTo \in IdsOf(x.posts) \cup {NoId}
    /\ \A e \in Elems(log) : e.agent \in IdsOf(x.agents) /\ e.post \in IdsOf(x.posts)
    /\ \A t \in Elems(x.ticks) : Elems(t.newPosts) \subseteq IdsOf(x.posts)
EverythingResolves ==
    /\ \A b \in HasBranch : Resolves(exps[b], Log(b))
    /\ saved # Absent => Resolves(saved, saved.engagements)
    /\ \A x \in Present : Cardinality(Reached(x)) <= Len(x.agents)

\* A comparison leaves the session's experiment alone, and its two branches extend it:
\* what the base had comes first in both, and both end the same number of ticks later.
Extends(x, base) ==
    /\ IsPrefix(base.posts, x.posts) /\ IsPrefix(base.engagements, x.engagements)
    /\ IsPrefix(base.ticks, x.ticks)
ComparisonBranchesLive ==
    [][/\ run.on \in {"baseline", "variant"} => UNCHANGED live
       /\ run.on = "variant" /\ run'.on = NoId =>
             /\ Extends(exps'["baseline"], live) /\ Extends(exps'["variant"], live)
             /\ \A b \in {"baseline", "variant"} :
                   exps'[b].currentTick = live.currentTick + run.steps]_vars
=============================================================================
