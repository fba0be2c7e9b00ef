--------------------------- MODULE ExperimentProofs ---------------------------
(***************************************************************************)
(* Proofs about Experiment: whatever the clicks of a session, every id     *)
(* resolves, and a comparison only extends copies of the live experiment;  *)
(* for every value of the constants.                                       *)
(***************************************************************************)
EXTENDS Experiment, TLAPS, FiniteSetTheorems

-----------------------------------------------------------------------------
(* The inductive invariant *)

\* The types of Experiment without the bound on the number of uuids.
PostT       == [id : Nat, author : Nat, replyTo : Nat \cup {NoId}, topics : SUBSET Topics]
EngagementT == [agent : Nat, post : Nat, action : ActionTypes]
AgentT      == [id : Nat, interests : Seq(Topics) \ {<<>>}, memory : Seq(Nat),
                recent : Seq(EngagementT)]
TickT       == [index : Nat, newPosts : Seq(Nat), newEngagements : Nat]
ExperimentT == [agents : Seq(AgentT), posts : Seq(PostT), scenarios : Seq((SUBSET Topics) \ {{}}),
                engagements : Seq(EngagementT), ticks : Seq(TickT),
                currentTick : Nat, lastReaction : Nat]
ActionT     == [kind : ActionTypes \cup {"original"}, post : Nat \cup {NoId}, text : BOOLEAN]
RunT        == [on : Branches \cup {NoId}, steps : Nat, left : Nat, turn : Nat,
                pending : Seq(ActionT), newPosts : Seq(Nat), newEngagements : Seq(EngagementT)]

Clones == {"baseline", "variant"}

TypeOK ==
    /\ exps \in [Branches -> ExperimentT \cup {Absent}] /\ live # Absent
    /\ saved \in ExperimentT \cup {Absent}
    /\ fresh \in Nat
    /\ run \in RunT
    /\ ~Idle => /\ Running # Absent
                /\ run.left >= 1 /\ run.steps >= 1 /\ run.turn <= Len(Running.agents)
                /\ run.pending # <<>> => run.turn >= 1
    /\ run.on \in Clones => \A b \in Clones : exps[b] # Absent

\* The ids of an experiment resolve, and so do those that a tick in progress
\* holds: of the posts it has made, and of those it is about to act on.
PendingResolves ==
    ~Idle => /\ \A i \in DOMAIN run.pending :
                   run.pending[i].kind # "original" => run.pending[i].post \in IdsOf(Running.posts)
             /\ Elems(run.newPosts) \subseteq IdsOf(Running.posts)
Resolving ==
    /\ \A b \in HasBranch : Resolves(exps[b], Log(b))
    /\ saved # Absent => Resolves(saved, saved.engagements)
    /\ PendingResolves

\* While a comparison runs, both clones extend the live experiment, each by the
\* ticks it has run.
Comparing ==
    run.on \in Clones =>
       /\ \A b \in Clones : Extends(exps[b], live)
       /\ Running.currentTick + run.left = live.currentTick + run.steps
       /\ run.on = "baseline" => exps["variant"] = live
       /\ run.on = "variant"  => exps["baseline"].currentTick = live.currentTick + run.steps

IInv == TypeOK /\ Resolving /\ Comparing

-----------------------------------------------------------------------------
(* Sequences *)

LEMMA ElemsIn == ASSUME NEW S, NEW q \in Seq(S) PROVE Elems(q) \subseteq S
BY DEF Elems

LEMMA ElemsEmpty == Elems(<<>>) = {} /\ IdsOf(<<>>) = {}
<1>1. Elems(<<>>) = {}
  BY DEF Elems
<1> QED BY <1>1 DEF IdsOf

LEMMA ElemsAppend ==
    ASSUME NEW S, NEW q \in Seq(S), NEW e \in S
    PROVE  Append(q, e) \in Seq(S) /\ Elems(Append(q, e)) = Elems(q) \cup {e}
<1>1. Append(q, e) \in Seq(S) /\ DOMAIN Append(q, e) = 1 .. Len(q) + 1 /\ DOMAIN q = 1 .. Len(q)
  OBVIOUS
<1>2. \A i \in 1 .. Len(q) : Append(q, e)[i] = q[i]
  OBVIOUS
<1>3. Append(q, e)[Len(q) + 1] = e
  OBVIOUS
<1>4. Elems(Append(q, e)) \subseteq Elems(q) \cup {e}
  BY <1>1, <1>2, <1>3 DEF Elems
<1>5. Elems(q) \cup {e} \subseteq Elems(Append(q, e))
  <2>1. \A i \in DOMAIN q : i \in DOMAIN Append(q, e)
    BY <1>1
  <2>2. Len(q) + 1 \in DOMAIN Append(q, e)
    BY <1>1
  <2> QED BY <1>1, <1>2, <1>3, <2>1, <2>2 DEF Elems
<1> QED BY <1>1, <1>4, <1>5

LEMMA ElemsConcat ==
    ASSUME NEW S, NEW q \in Seq(S), NEW r \in Seq(S)
    PROVE  q \o r \in Seq(S) /\ Elems(q \o r) = Elems(q) \cup Elems(r)
<1>1. /\ q \o r \in Seq(S) /\ DOMAIN (q \o r) = 1 .. Len(q) + Len(r)
      /\ DOMAIN q = 1 .. Len(q) /\ DOMAIN r = 1 .. Len(r)
  OBVIOUS
<1>2. \A i \in 1 .. Len(q) + Len(r) : (q \o r)[i] = IF i <= Len(q) THEN q[i] ELSE r[i - Len(q)]
  OBVIOUS
<1>3. Elems(q \o r) \subseteq Elems(q) \cup Elems(r)
  <2> SUFFICES ASSUME NEW i \in 1 .. Len(q) + Len(r)
               PROVE  (q \o r)[i] \in Elems(q) \cup Elems(r)
    BY <1>1 DEF Elems
  <2>1. CASE i <= Len(q)
    BY <1>1, <1>2, <2>1 DEF Elems
  <2>2. CASE i > Len(q)
    <3>1. i - Len(q) \in DOMAIN r /\ (q \o r)[i] = r[i - Len(q)]
      BY <1>1, <1>2, <2>2
    <3> QED BY <3>1 DEF Elems
  <2> QED BY <2>1, <2>2
<1>4. Elems(q) \subseteq Elems(q \o r)
  <2> SUFFICES ASSUME NEW i \in DOMAIN q PROVE q[i] \in Elems(q \o r)
    BY DEF Elems
  <2>1. i \in DOMAIN (q \o r) /\ (q \o r)[i] = q[i]
    BY <1>1, <1>2
  <2> QED BY <2>1 DEF Elems
<1>5. Elems(r) \subseteq Elems(q \o r)
  <2> SUFFICES ASSUME NEW i \in DOMAIN r PROVE r[i] \in Elems(q \o r)
    BY DEF Elems
  <2>1. Len(q) + i \in DOMAIN (q \o r) /\ (q \o r)[Len(q) + i] = r[i]
    BY <1>1, <1>2
  <2> QED BY <2>1 DEF Elems
<1> QED BY <1>1, <1>3, <1>4, <1>5

LEMMA TailIn ==
    ASSUME NEW S, NEW q \in Seq(S), q # <<>>
    PROVE  /\ Tail(q) \in Seq(S) /\ Head(q) \in S /\ Head(q) = q[1] /\ 1 \in DOMAIN q
           /\ \A i \in DOMAIN Tail(q) : i + 1 \in DOMAIN q /\ Tail(q)[i] = q[i + 1]
OBVIOUS

\* A prefix, element by element.
LEMMA PrefixMeans ==
    ASSUME NEW S, NEW q \in Seq(S), NEW r \in Seq(S)
    PROVE  IsPrefix(q, r) <=> Len(q) <= Len(r) /\ \A i \in 1 .. Len(q) : r[i] = q[i]
<1>1. SubSeq(q, 1, Len(q)) = q
  OBVIOUS
<1>2. Len(q) <= Len(r) => SubSeq(r, 1, Len(q)) = [i \in 1 .. Len(q) |-> r[i]]
  OBVIOUS
<1>3. q = [i \in 1 .. Len(q) |-> q[i]]
  OBVIOUS
<1> QED BY <1>1, <1>2, <1>3 DEF IsPrefix

LEMMA PrefixSelf == ASSUME NEW S, NEW q \in Seq(S) PROVE IsPrefix(q, q)
BY PrefixMeans

LEMMA PrefixGrows ==
    ASSUME NEW S, NEW q \in Seq(S), NEW r \in Seq(S), NEW t \in Seq(S), IsPrefix(q, r)
    PROVE  IsPrefix(q, r \o t)
<1>1. Len(q) <= Len(r) /\ \A i \in 1 .. Len(q) : r[i] = q[i]
  BY PrefixMeans
<1>2. r \o t \in Seq(S) /\ Len(r) <= Len(r \o t) /\ \A i \in 1 .. Len(r) : (r \o t)[i] = r[i]
  OBVIOUS
<1>3. Len(q) <= Len(r \o t) /\ \A i \in 1 .. Len(q) : (r \o t)[i] = q[i]
  BY <1>1, <1>2
<1> QED BY <1>2, <1>3, PrefixMeans

LEMMA PrefixAppended ==
    ASSUME NEW S, NEW q \in Seq(S), NEW r \in Seq(S), NEW e \in S, IsPrefix(q, r)
    PROVE  IsPrefix(q, Append(r, e))
<1>1. Append(r, e) = r \o <<e>> /\ <<e>> \in Seq(S)
  OBVIOUS
<1> QED BY <1>1, PrefixGrows

-----------------------------------------------------------------------------
(* Experiments *)

LEMMA AbsentIsNone == Absent \notin ExperimentT
BY DEF Absent, ExperimentT

LEMMA EmptyExperiment ==
    /\ NewExperiment \in ExperimentT /\ NewExperiment # Absent
    /\ Resolves(NewExperiment, NewExperiment.engagements)
<1>1. NewExperiment \in ExperimentT
  BY DEF NewExperiment, ExperimentT
<1>2. Resolves(NewExperiment, NewExperiment.engagements)
  BY ElemsEmpty DEF NewExperiment, Resolves
<1> QED BY <1>1, <1>2, AbsentIsNone

\* Posts are added to the others, and nothing else that ids refer to changes.
LEMMA AddPostsType ==
    ASSUME NEW x \in ExperimentT, NEW new \in Seq(PostT)
    PROVE  /\ AddPosts(x, new) \in ExperimentT
           /\ AddPosts(x, new).posts = x.posts \o new
           /\ AddPosts(x, new).agents = x.agents /\ AddPosts(x, new).ticks = x.ticks
           /\ AddPosts(x, new).engagements = x.engagements
           /\ AddPosts(x, new).currentTick = x.currentTick
<1>1. x.posts \o new \in Seq(PostT) /\ Len(new) \in Nat
  BY DEF ExperimentT
<1> QED BY <1>1 DEF AddPosts, ExperimentT

\* The agent at a position remembers an engagement and stays who it is.
LEMMA RememberType ==
    ASSUME NEW x \in ExperimentT, NEW e \in EngagementT, run.turn \in 1 .. Len(x.agents)
    PROVE  /\ Remember(x, e) \in ExperimentT
           /\ IdsOf(Remember(x, e).agents) = IdsOf(x.agents)
           /\ Len(Remember(x, e).agents) = Len(x.agents)
           /\ Remember(x, e).posts = x.posts /\ Remember(x, e).ticks = x.ticks
           /\ Remember(x, e).engagements = x.engagements
           /\ Remember(x, e).currentTick = x.currentTick
<1> DEFINE k == run.turn
           a == [x.agents[k] EXCEPT !.memory = Append(@, e.post), !.recent = Append(@, e)]
<1>1. x.agents \in Seq(AgentT) /\ k \in DOMAIN x.agents /\ x.agents[k] \in AgentT /\ e.post \in Nat
  BY DEF ExperimentT, EngagementT
<1>2. a \in AgentT /\ a.id = x.agents[k].id
  <2>1. x.agents[k].memory \in Seq(Nat) /\ x.agents[k].recent \in Seq(EngagementT)
    BY <1>1 DEF AgentT
  <2>2. /\ Append(x.agents[k].memory, e.post) \in Seq(Nat)
        /\ Append(x.agents[k].recent, e) \in Seq(EngagementT)
    BY <1>1, <2>1
  <2> QED BY <1>1, <2>2 DEF AgentT
<1>3. Remember(x, e) = [x EXCEPT !.agents = [@ EXCEPT ![k] = a]]
  BY <1>1 DEF Remember, ExperimentT, AgentT
<1> HIDE DEF a
<1>4. /\ [x.agents EXCEPT ![k] = a] \in Seq(AgentT)
      /\ Len([x.agents EXCEPT ![k] = a]) = Len(x.agents)
      /\ DOMAIN [x.agents EXCEPT ![k] = a] = DOMAIN x.agents
  BY <1>1, <1>2
<1>5. Remember(x, e) \in ExperimentT /\ Remember(x, e).agents = [x.agents EXCEPT ![k] = a]
  BY <1>3, <1>4 DEF ExperimentT
<1>6. \A i \in DOMAIN x.agents : Remember(x, e).agents[i].id = x.agents[i].id
  BY <1>1, <1>2, <1>5
<1>7. IdsOf(Remember(x, e).agents) = IdsOf(x.agents)
  BY <1>4, <1>5, <1>6 DEF IdsOf, Elems
<1> QED BY <1>3, <1>4, <1>5, <1>7 DEF ExperimentT

\* An experiment that keeps its agents and loses no post goes on resolving if
\* its new posts and the new entries of its log do.
LEMMA ResolvesGrows ==
    ASSUME NEW x, NEW y, NEW log, NEW longer,
           Resolves(x, log), IdsOf(y.agents) = IdsOf(x.agents),
           IdsOf(x.posts) \subseteq IdsOf(y.posts), y.ticks = x.ticks,
           \A p \in Elems(y.posts) : \/ p \in Elems(x.posts)
                                     \/ /\ p.author \in IdsOf(x.agents)
                                        /\ p.replyTo \in IdsOf(y.posts) \cup {NoId},
           \A e \in Elems(longer) : \/ e \in Elems(log)
                                    \/ e.agent \in IdsOf(x.agents) /\ e.post \in IdsOf(y.posts)
    PROVE  Resolves(y, longer)
BY DEF Resolves

LEMMA IdsAdded ==
    ASSUME NEW q \in Seq(PostT), NEW new \in Seq(PostT)
    PROVE  /\ Elems(q \o new) = Elems(q) \cup Elems(new)
           /\ IdsOf(q \o new) = IdsOf(q) \cup IdsOf(new)
           /\ IdsOf(q) \subseteq Nat
<1>1. Elems(q \o new) = Elems(q) \cup Elems(new) /\ Elems(q) \subseteq PostT
  BY ElemsConcat, ElemsIn
<1> QED BY <1>1 DEF IdsOf, PostT

LEMMA SocietyType == fresh \in Nat => Society \in Seq(AgentT) /\ Society # <<>>
<1> SUFFICES ASSUME fresh \in Nat PROVE Society \in Seq(AgentT) /\ Society # <<>>
  OBVIOUS
<1>1. Interests \in Seq(Seq(Topics)) /\ DOMAIN Interests = 1 .. Len(Interests) /\ Len(Interests) >= 1
  BY InterestsAssumption
<1>2. ASSUME NEW i \in 1 .. Len(Interests)
      PROVE  [id |-> fresh + i - 1, interests |-> Interests[i], memory |-> <<>>, recent |-> <<>>]
                \in AgentT
  <2>1. Interests[i] \in Seq(Topics) /\ Interests[i] # <<>> /\ fresh + i - 1 \in Nat
    BY <1>1, InterestsAssumption
  <2> QED BY <2>1 DEF AgentT
<1>3. Society \in [1 .. Len(Interests) -> AgentT]
  BY <1>1, <1>2 DEF Society
<1>4. Society \in Seq(AgentT) /\ Len(Society) = Len(Interests)
  BY <1>1, <1>3
<1> QED BY <1>1, <1>4

-----------------------------------------------------------------------------
(* Between two clicks *)

LEMMA LiveType == TypeOK => live \in ExperimentT
BY DEF TypeOK, Branches, live

\* Nothing is unfiled, so the live experiment resolves with its own log.
LEMMA LiveResolves ==
    ASSUME IInv, Idle
    PROVE  Resolves(live, live.engagements)
<1>1. live \in ExperimentT /\ "live" \in HasBranch
  BY LiveType DEF IInv, TypeOK, HasBranch, Branches, live
<1>2. Log("live") = live.engagements
  <2>1. Unfiled("live") = <<>>
    BY NoIdAssumption DEF Idle, Unfiled, Branches
  <2>2. live.engagements \o <<>> = live.engagements
    BY <1>1 DEF ExperimentT
  <2> QED BY <2>1, <2>2 DEF Log, live
<1>3. Resolves(exps["live"], Log("live"))
  BY <1>1 DEF IInv, Resolving
<1> QED BY <1>2, <1>3 DEF live

LEMMA SettingLive ==
    ASSUME NEW x \in ExperimentT, SetLive(x)
    PROVE  /\ exps' \in [Branches -> ExperimentT \cup {Absent}] /\ exps'["live"] = x
           /\ live' = x /\ x # Absent
           /\ \A b \in Clones : exps'[b] = Absent
           /\ HasBranch' = {"live"}
<1>1. exps' = [b \in Branches |-> IF b = "live" THEN x ELSE Absent]
  BY DEF SetLive, Alone
<1>2. x # Absent
  BY AbsentIsNone
<1>3. exps' \in [Branches -> ExperimentT \cup {Absent}] /\ exps'["live"] = x /\ live' = x
  BY <1>1 DEF Branches, live
<1>4. \A b \in Clones : exps'[b] = Absent
  BY <1>1 DEF Branches, Clones
<1>5. HasBranch' = {"live"}
  BY <1>1, <1>2 DEF HasBranch, Branches
<1> QED BY <1>2, <1>3, <1>4, <1>5

\* A click that starts no run.
LEMMA RestStep ==
    ASSUME IInv, Idle, NEW x \in ExperimentT, Resolves(x, x.engagements), SetLive(x),
           fresh' \in Nat, UNCHANGED run,
           saved' \in ExperimentT \cup {Absent},
           saved' # Absent => Resolves(saved', saved'.engagements)
    PROVE  IInv'
<1>1. /\ exps' \in [Branches -> ExperimentT \cup {Absent}] /\ exps'["live"] = x
      /\ live' = x /\ x # Absent /\ HasBranch' = {"live"}
  BY SettingLive
<1>2. run' = run /\ run' \in RunT /\ Idle' /\ run'.on = NoId /\ run'.on \notin Branches
  BY NoIdAssumption DEF IInv, TypeOK, Idle
<1>3. run'.on \notin Clones
  BY <1>2 DEF Clones, Branches
<1>4. TypeOK'
  BY <1>1, <1>2, <1>3 DEF TypeOK, live
<1>5. Log("live")' = x.engagements
  <2>1. Unfiled("live")' = <<>>
    BY <1>2 DEF Unfiled, Branches
  <2>2. x.engagements \o <<>> = x.engagements
    BY DEF ExperimentT
  <2> QED BY <1>1, <2>1, <2>2 DEF Log
<1>6. Resolving'
  <2>1. \A b \in HasBranch' : Resolves(exps'[b], Log(b)')
    BY <1>1, <1>5
  <2>2. PendingResolves'
    BY <1>2 DEF PendingResolves
  <2> QED BY <2>1, <2>2 DEF Resolving
<1>7. Comparing'
  BY <1>3 DEF Comparing
<1> QED BY <1>4, <1>6, <1>7 DEF IInv

LEMMA SavedKept ==
    ASSUME IInv, UNCHANGED saved
    PROVE  /\ saved' \in ExperimentT \cup {Absent}
           /\ saved' # Absent => Resolves(saved', saved'.engagements)
BY DEF IInv, TypeOK, Resolving

LEMMA ClickStep ==
    ASSUME IInv, CreateSociety \/ ClearPosts \/ ResetRun \/ DownloadRun \/ ReplaceRun
    PROVE  IInv'
<1>1. live \in ExperimentT /\ fresh \in Nat /\ saved \in ExperimentT \cup {Absent}
  BY LiveType DEF IInv, TypeOK
<1>2. CASE CreateSociety
  <2> DEFINE x == [NewExperiment EXCEPT !.agents = Society]
  <2>1. Society \in Seq(AgentT)
    BY <1>1, SocietyType
  <2>2. x \in ExperimentT
    <3>1. x = [agents |-> Society, posts |-> <<>>, scenarios |-> <<>>, engagements |-> <<>>,
               ticks |-> <<>>, currentTick |-> 0, lastReaction |-> 0]
      BY DEF NewExperiment
    <3> HIDE DEF x
    <3> QED BY <2>1, <3>1 DEF ExperimentT
  <2>3. Resolves(x, x.engagements)
    BY ElemsEmpty DEF Resolves, NewExperiment
  <2>4. SetLive(x) /\ Idle /\ UNCHANGED <<saved, run>> /\ fresh' \in Nat
    BY <1>1, <1>2, InterestsAssumption DEF CreateSociety, ResetSociety
  <2> HIDE DEF x
  <2> QED BY <2>2, <2>3, <2>4, SavedKept, RestStep
<1>3. CASE ClearPosts
  <2> DEFINE x == ClearPostsOf(live)
  <2>1. x \in ExperimentT
    <3>1. x = [live EXCEPT !.posts = <<>>, !.engagements = <<>>, !.ticks = <<>>,
                           !.currentTick = 0, !.lastReaction = 0]
      BY DEF ClearPostsOf
    <3>2. <<>> \in Seq(PostT) /\ <<>> \in Seq(EngagementT) /\ <<>> \in Seq(TickT)
      OBVIOUS
    <3> HIDE DEF x
    <3> QED BY <1>1, <3>1, <3>2 DEF ExperimentT
  <2>2. x.posts = <<>> /\ x.engagements = <<>> /\ x.ticks = <<>>
    BY <1>1 DEF ClearPostsOf, ExperimentT
  <2>3. Resolves(x, x.engagements)
    BY <2>2, ElemsEmpty DEF Resolves
  <2>4. SetLive(x) /\ Idle /\ UNCHANGED <<saved, run>> /\ fresh' \in Nat
    BY <1>1, <1>3 DEF ClearPosts
  <2> HIDE DEF x
  <2> QED BY <2>1, <2>3, <2>4, SavedKept, RestStep
<1>4. CASE ResetRun
  <2>1. SetLive(NewExperiment) /\ Idle /\ UNCHANGED <<saved, run>> /\ fresh' \in Nat
    BY <1>1, <1>4 DEF ResetRun
  <2> QED BY <2>1, EmptyExperiment, SavedKept, RestStep
<1>5. CASE DownloadRun
  <2>1. SetLive(live) /\ Idle /\ saved' = live /\ UNCHANGED run /\ fresh' \in Nat
    BY <1>1, <1>5 DEF DownloadRun
  <2>2. Resolves(live, live.engagements)
    BY <2>1, LiveResolves
  <2> QED BY <1>1, <2>1, <2>2, RestStep
<1>6. CASE ReplaceRun
  <2>1. SetLive(saved) /\ Idle /\ saved # Absent /\ UNCHANGED <<saved, run>> /\ fresh' \in Nat
    BY <1>1, <1>6 DEF ReplaceRun
  <2>2. saved \in ExperimentT /\ Resolves(saved, saved.engagements)
    BY <1>1, <2>1 DEF IInv, Resolving
  <2> QED BY <2>1, <2>2, SavedKept, RestStep
<1> QED BY <1>2, <1>3, <1>4, <1>5, <1>6

\* Who reacts to a scenario posts about it and refers to no other post.
LEMMA ReactionsType ==
    ASSUME NEW agents \in Seq(AgentT), NEW reacting \in Reacting(agents),
           NEW interest \in [DOMAIN reacting -> Topics], NEW topics \in SUBSET Topics,
           NEW first \in Nat
    PROVE  LET new == Reactions(agents, reacting, interest, topics, first)
           IN  /\ new \in Seq(PostT) /\ Len(reacting) \in Nat
               /\ \A p \in Elems(new) : p.author \in IdsOf(agents) /\ p.replyTo = NoId
<1> DEFINE new == Reactions(agents, reacting, interest, topics, first)
<1>1. PICK n \in 0 .. Len(agents) : reacting \in [1 .. n -> DOMAIN agents]
  BY DEF Reacting
<1>2. DOMAIN reacting = 1 .. n /\ Len(reacting) = n /\ n \in Nat
  BY <1>1
<1>3. ASSUME NEW k \in 1 .. n
      PROVE  /\ new[k] \in PostT /\ new[k].author \in IdsOf(agents) /\ new[k].replyTo = NoId
  <2>1. reacting[k] \in DOMAIN agents /\ interest[k] \in Topics /\ first + k - 1 \in Nat
    BY <1>1, <1>2
  <2>2. agents[reacting[k]] \in AgentT /\ agents[reacting[k]] \in Elems(agents)
    BY <2>1 DEF Elems
  <2>3. agents[reacting[k]].id \in Nat /\ agents[reacting[k]].id \in IdsOf(agents)
    BY <2>2 DEF AgentT, IdsOf
  <2>4. new[k] = [id |-> first + k - 1, author |-> agents[reacting[k]].id, replyTo |-> NoId,
                  topics |-> topics \cup {interest[k]}]
    BY <1>2 DEF Reactions
  <2> HIDE DEF new
  <2> QED BY <2>1, <2>3, <2>4 DEF PostT
<1>4. DOMAIN new = 1 .. n
  BY <1>2 DEF Reactions
<1>5. new \in [1 .. n -> PostT]
  BY <1>2, <1>3 DEF Reactions
<1>6. new \in Seq(PostT)
  BY <1>2, <1>5
<1> HIDE DEF new
<1>7. \A p \in Elems(new) : p.author \in IdsOf(agents) /\ p.replyTo = NoId
  BY <1>3, <1>4 DEF Elems
<1> QED BY <1>2, <1>6, <1>7 DEF new

LEMMA InjectStep == IInv /\ InjectScenario => IInv'
<1> SUFFICES ASSUME IInv, InjectScenario PROVE IInv'
  OBVIOUS
<1> DEFINE society == Populated(live)
           first   == AfterPopulate(live)
<1>1. live \in ExperimentT /\ fresh \in Nat /\ Idle /\ UNCHANGED <<saved, run>>
  BY LiveType DEF IInv, TypeOK, InjectScenario
<1>2. first \in Nat
  BY <1>1, InterestsAssumption DEF AfterPopulate
<1>3. /\ society \in ExperimentT /\ society.posts = live.posts /\ society.ticks = live.ticks
      /\ society.engagements = live.engagements
      /\ live.agents = <<>> \/ society = live
  BY <1>1, SocietyType DEF Populated, ExperimentT
<1>4. Resolves(live, live.engagements)
  BY <1>1, LiveResolves
<1>5. Resolves(society, society.engagements)
  <2>1. CASE society = live
    BY <1>4, <2>1
  <2>2. CASE live.agents = <<>>
    <3>1. Elems(live.posts) = {} /\ Elems(live.engagements) = {}
      BY <1>4, <2>2, ElemsEmpty DEF Resolves
    <3> QED BY <1>3, <1>4, <3>1 DEF Resolves
  <2> QED BY <1>3, <2>1, <2>2
<1> HIDE DEF society, first
<1>6. PICK topics \in (SUBSET Topics) \ {{}}, reacting \in Reacting(society.agents) :
         /\ \E interest \in [DOMAIN reacting -> Topics] :
               SetLive(AddPosts([society EXCEPT !.scenarios = Append(@, topics)],
                                Reactions(society.agents, reacting, interest, topics, first)))
         /\ fresh' = first + Len(reacting)
  BY DEF InjectScenario, society, first
<1>7. PICK interest \in [DOMAIN reacting -> Topics] :
         SetLive(AddPosts([society EXCEPT !.scenarios = Append(@, topics)],
                          Reactions(society.agents, reacting, interest, topics, first)))
  BY <1>6
<1> DEFINE new == Reactions(society.agents, reacting, interest, topics, first)
           y   == [society EXCEPT !.scenarios = Append(@, topics)]
           x   == AddPosts(y, new)
<1>8. society.agents \in Seq(AgentT) /\ society.scenarios \in Seq((SUBSET Topics) \ {{}})
      /\ society.posts \in Seq(PostT)
  BY <1>3 DEF ExperimentT
<1>9. /\ new \in Seq(PostT) /\ Len(reacting) \in Nat
      /\ \A p \in Elems(new) : p.author \in IdsOf(society.agents) /\ p.replyTo = NoId
  BY <1>2, <1>8, ReactionsType
<1> HIDE DEF new
<1>10. /\ y \in ExperimentT /\ y.posts = society.posts /\ y.agents = society.agents
       /\ y.ticks = society.ticks /\ y.engagements = society.engagements
  <2>1. Append(society.scenarios, topics) \in Seq((SUBSET Topics) \ {{}})
    BY <1>8
  <2> QED BY <1>3, <2>1 DEF ExperimentT
<1> HIDE DEF y
<1>11. /\ x \in ExperimentT /\ x.posts = society.posts \o new /\ x.agents = society.agents
       /\ x.ticks = society.ticks /\ x.engagements = society.engagements
  BY <1>9, <1>10, AddPostsType
<1>12. SetLive(x)
  BY <1>7 DEF new, y
<1> HIDE DEF x
<1>13. Resolves(x, x.engagements)
  <2>1. /\ Elems(x.posts) = Elems(society.posts) \cup Elems(new)
        /\ IdsOf(society.posts) \subseteq IdsOf(x.posts)
    BY <1>8, <1>9, <1>11, IdsAdded
  <2> QED BY <1>5, <1>9, <1>11, <2>1, ResolvesGrows
<1>14. fresh' \in Nat
  BY <1>2, <1>6, <1>9
<1> QED BY <1>1, <1>11, <1>12, <1>13, <1>14, SavedKept, RestStep

-----------------------------------------------------------------------------
(* Runs begin *)

\* A run that has just begun holds no ids.
LEMMA StartType ==
    ASSUME NEW b \in Branches, NEW steps \in Nat, Start(b, steps)
    PROVE  /\ run' \in RunT /\ run'.on = b /\ run'.steps = steps /\ run'.left = steps
           /\ run'.turn = 0 /\ run'.pending = <<>> /\ run'.newPosts = <<>>
           /\ run'.newEngagements = <<>> /\ ~Idle'
<1>1. run' = [on |-> b, steps |-> steps, left |-> steps, turn |-> 0, pending |-> <<>>,
              newPosts |-> <<>>, newEngagements |-> <<>>]
  BY DEF Start, NotRunning
<1>2. b # NoId
  BY NoIdAssumption
<1> QED BY <1>1, <1>2 DEF RunT, Idle

\* When nothing is unfiled, a log is what the experiment has.
LEMMA NothingUnfiled ==
    ASSUME NEW x \in ExperimentT
    PROVE  x.engagements \o <<>> = x.engagements
BY DEF ExperimentT

LEMMA ExtendsSelf == ASSUME NEW x \in ExperimentT PROVE Extends(x, x)
BY PrefixSelf DEF Extends, ExperimentT

LEMMA ExtendsBy ==
    ASSUME NEW x \in ExperimentT, NEW y \in ExperimentT, NEW new \in Seq(PostT),
           y.posts = x.posts \o new, y.ticks = x.ticks, y.engagements = x.engagements
    PROVE  Extends(y, x)
<1>1. /\ x.posts \in Seq(PostT) /\ x.ticks \in Seq(TickT)
      /\ x.engagements \in Seq(EngagementT)
  BY DEF ExperimentT
<1>2. IsPrefix(x.posts, x.posts \o new)
  BY <1>1, PrefixSelf, PrefixGrows
<1>3. IsPrefix(x.ticks, x.ticks) /\ IsPrefix(x.engagements, x.engagements)
  BY <1>1, PrefixSelf
<1> QED BY <1>2, <1>3 DEF Extends

LEMMA StepStep == IInv /\ StepSimulation => IInv'
<1> SUFFICES ASSUME IInv, StepSimulation PROVE IInv'
  OBVIOUS
<1>1. /\ live \in ExperimentT /\ Idle /\ SetLive(live) /\ UNCHANGED <<saved, fresh>>
  BY LiveType DEF IInv, TypeOK, StepSimulation
<1>2. PICK steps \in 1 .. MaxSteps : Start("live", steps)
  BY DEF StepSimulation
<1>3. steps \in Nat /\ steps >= 1
  BY LimitsAssumption
<1>4. /\ run' \in RunT /\ run'.on = "live" /\ run'.steps = steps /\ run'.left = steps /\ run'.turn = 0
      /\ run'.pending = <<>> /\ run'.newPosts = <<>> /\ run'.newEngagements = <<>> /\ ~Idle'
  BY <1>2, <1>3, StartType DEF Branches
<1>5. /\ exps' \in [Branches -> ExperimentT \cup {Absent}] /\ exps'["live"] = live
      /\ live' = live /\ live # Absent /\ HasBranch' = {"live"}
  BY <1>1, SettingLive
<1>6. Running' = live /\ run'.on \notin Clones
  BY <1>4, <1>5 DEF Running, Clones
<1>7. TypeOK'
  <2>1. Len(live.agents) \in Nat
    BY <1>1 DEF ExperimentT
  <2> QED BY <1>1, <1>3, <1>4, <1>5, <1>6, <2>1 DEF IInv, TypeOK
<1>8. Resolving'
  <2>1. Log("live")' = live.engagements
    BY <1>1, <1>4, <1>5, NothingUnfiled DEF Log, Unfiled
  <2>2. \A b \in HasBranch' : Resolves(exps'[b], Log(b)')
    BY <1>1, <1>5, <2>1, LiveResolves
  <2>3. PendingResolves'
    BY <1>4, ElemsEmpty DEF PendingResolves
  <2> QED BY <1>1, <2>2, <2>3, SavedKept DEF Resolving
<1>9. Comparing'
  BY <1>6 DEF Comparing
<1> QED BY <1>7, <1>8, <1>9 DEF IInv

LEMMA CompareStep == IInv /\ RunComparison => IInv'
<1> SUFFICES ASSUME IInv, RunComparison PROVE IInv'
  OBVIOUS
<1>1. /\ live \in ExperimentT /\ Idle /\ exps' = [b \in Branches |-> live]
      /\ UNCHANGED <<saved, fresh>>
  BY LiveType DEF IInv, TypeOK, RunComparison
<1>2. PICK steps \in 1 .. MaxSteps : Start("baseline", steps)
  BY DEF RunComparison
<1>3. steps \in Nat /\ steps >= 1
  BY LimitsAssumption
<1>4. /\ run' \in RunT /\ run'.on = "baseline" /\ run'.steps = steps /\ run'.left = steps
      /\ run'.turn = 0 /\ run'.pending = <<>> /\ run'.newPosts = <<>>
      /\ run'.newEngagements = <<>> /\ ~Idle'
  BY <1>2, <1>3, StartType DEF Branches
<1>5. /\ exps' \in [Branches -> ExperimentT \cup {Absent}] /\ \A b \in Branches : exps'[b] = live
      /\ live' = live /\ live # Absent
  BY <1>1, AbsentIsNone DEF live, Branches
<1>6. Running' = live
  BY <1>4, <1>5 DEF Running, Branches
<1>7. TypeOK'
  <2>1. Len(live.agents) \in Nat
    BY <1>1 DEF ExperimentT
  <2> QED BY <1>1, <1>3, <1>4, <1>5, <1>6, <2>1 DEF IInv, TypeOK, Clones, Branches
<1>8. Resolving'
  <2>1. ASSUME NEW b \in Branches PROVE Log(b)' = live.engagements
    BY <1>1, <1>4, <1>5, NothingUnfiled DEF Log, Unfiled
  <2>2. \A b \in HasBranch' : Resolves(exps'[b], Log(b)')
    BY <1>1, <1>5, <2>1, LiveResolves DEF HasBranch
  <2>3. PendingResolves'
    BY <1>4, ElemsEmpty DEF PendingResolves
  <2> QED BY <1>1, <2>2, <2>3, SavedKept DEF Resolving
<1>9. Comparing'
  <2>1. \A b \in Clones : Extends(exps'[b], live')
    BY <1>1, <1>5, ExtendsSelf DEF Clones, Branches
  <2> QED BY <1>4, <1>5, <1>6, <2>1 DEF Comparing, Branches
<1> QED BY <1>7, <1>8, <1>9 DEF IInv

-----------------------------------------------------------------------------
(* Runs go on *)

LEMMA RunningType ==
    ASSUME TypeOK, ~Idle
    PROVE  /\ run.on \in Branches /\ Running \in ExperimentT /\ run.on \in HasBranch
           /\ run.pending \in Seq(ActionT) /\ run.newPosts \in Seq(Nat)
           /\ run.newEngagements \in Seq(EngagementT)
           /\ run.steps \in Nat /\ run.left \in Nat /\ run.turn \in Nat /\ Len(Running.agents) \in Nat
<1>1. run \in RunT /\ run.on \in Branches
  BY DEF TypeOK, RunT, Idle
<1>2. Running \in ExperimentT /\ Running # Absent
  BY <1>1 DEF TypeOK, Running
<1>3. Len(Running.agents) \in Nat
  BY <1>2 DEF ExperimentT
<1> QED BY <1>1, <1>2, <1>3 DEF RunT, HasBranch, Running

LEMMA SettingRunning ==
    ASSUME TypeOK, ~Idle, NEW y \in ExperimentT, SetRunning(y)
    PROVE  /\ exps' \in [Branches -> ExperimentT \cup {Absent}] /\ exps'[run.on] = y
           /\ \A b \in Branches \ {run.on} : exps'[b] = exps[b]
           /\ HasBranch' = HasBranch /\ live' # Absent
           /\ run.on # "live" => live' = live
<1>1. run.on \in Branches /\ y # Absent /\ Running # Absent
  BY RunningType, AbsentIsNone DEF TypeOK
<1>2. exps \in [Branches -> ExperimentT \cup {Absent}] /\ "live" \in Branches
  BY DEF TypeOK, Branches
<1>3. /\ exps' \in [Branches -> ExperimentT \cup {Absent}] /\ exps'[run.on] = y
      /\ \A b \in Branches \ {run.on} : exps'[b] = exps[b]
  BY <1>1, <1>2 DEF SetRunning
<1>4. HasBranch' = HasBranch
  BY <1>1, <1>2, <1>3 DEF HasBranch, Running
<1>5. live' # Absent /\ (run.on # "live" => live' = live)
  BY <1>1, <1>2, <1>3 DEF live, TypeOK
<1> QED BY <1>3, <1>4, <1>5

LEMMA ExtendsOn ==
    ASSUME NEW base \in ExperimentT, NEW x \in ExperimentT, NEW y \in ExperimentT,
           Extends(x, base), Extends(y, x)
    PROVE  Extends(y, base)
<1>1. ASSUME NEW S, NEW q \in Seq(S), NEW r \in Seq(S), NEW t \in Seq(S),
             IsPrefix(q, r), IsPrefix(r, t)
      PROVE  IsPrefix(q, t)
  <2>1. Len(q) <= Len(r) /\ \A i \in 1 .. Len(q) : r[i] = q[i]
    BY <1>1, PrefixMeans
  <2>2. Len(r) <= Len(t) /\ \A i \in 1 .. Len(r) : t[i] = r[i]
    BY <1>1, PrefixMeans
  <2>3. Len(q) <= Len(t) /\ \A i \in 1 .. Len(q) : t[i] = q[i]
    BY <2>1, <2>2
  <2> QED BY <2>3, PrefixMeans
<1>2. \A z \in {base, x, y} : /\ z.posts \in Seq(PostT) /\ z.ticks \in Seq(TickT)
                              /\ z.engagements \in Seq(EngagementT)
  BY DEF ExperimentT
<1> QED BY <1>1, <1>2 DEF Extends

\* The experiments in which no tick is in progress keep their logs.
LEMMA OthersResolve ==
    ASSUME IInv, ~Idle, NEW y \in ExperimentT, SetRunning(y),
           run'.on = run.on \/ Idle' \/ run'.newEngagements = <<>>
    PROVE  \A b \in HasBranch' \ {run.on} : Resolves(exps'[b], Log(b)')
<1> SUFFICES ASSUME NEW b \in HasBranch', b # run.on PROVE Resolves(exps'[b], Log(b)')
  OBVIOUS
<1>1. b \in Branches /\ b \in HasBranch /\ exps'[b] = exps[b]
  BY SettingRunning DEF IInv, HasBranch
<1>2. Unfiled(b) = <<>>
  BY DEF Unfiled
<1>3. Unfiled(b)' = <<>>
  BY <1>1, NoIdAssumption DEF Unfiled, Idle
<1>4. Log(b)' = Log(b)
  BY <1>1, <1>2, <1>3 DEF Log
<1> QED BY <1>1, <1>4 DEF IInv, Resolving

\* A step within a tick, or from a tick to the next one of the run.
LEMMA TickStep ==
    ASSUME IInv, ~Idle, NEW y \in ExperimentT, SetRunning(y), fresh' \in Nat, UNCHANGED saved,
           run' \in RunT, run'.on = run.on, run'.steps = run.steps, run'.left >= 1,
           run'.turn <= Len(y.agents), run'.pending # <<>> => run'.turn >= 1,
           Resolves(y, y.engagements \o run'.newEngagements),
           \A i \in DOMAIN run'.pending :
              run'.pending[i].kind # "original" => run'.pending[i].post \in IdsOf(y.posts),
           Elems(run'.newPosts) \subseteq IdsOf(y.posts),
           Extends(y, Running), y.currentTick + run'.left = Running.currentTick + run.left
    PROVE  IInv'
<1>1. /\ run.on \in Branches /\ Running \in ExperimentT /\ live \in ExperimentT
  BY RunningType, LiveType DEF IInv
<1>2. /\ exps' \in [Branches -> ExperimentT \cup {Absent}] /\ exps'[run.on] = y
      /\ \A b \in Branches \ {run.on} : exps'[b] = exps[b]
      /\ HasBranch' = HasBranch /\ live' # Absent
      /\ run.on # "live" => live' = live
  BY SettingRunning DEF IInv
<1>3. Running' = y /\ y # Absent /\ ~Idle'
  BY <1>2, AbsentIsNone DEF Running, Idle
<1>4. TypeOK'
  <2>1. run'.on \in Clones => \A b \in Clones : exps'[b] # Absent
    BY <1>2, <1>3 DEF IInv, TypeOK, Clones, Branches
  <2>2. run'.steps >= 1
    BY DEF IInv, TypeOK
  <2> QED BY <1>2, <1>3, <2>1, <2>2, SavedKept DEF TypeOK
<1>5. Resolving'
  <2>1. Log(run.on)' = y.engagements \o run'.newEngagements
    BY <1>2 DEF Log, Unfiled
  <2>2. \A b \in HasBranch' : Resolves(exps'[b], Log(b)')
    BY <1>2, <2>1, OthersResolve
  <2>3. PendingResolves'
    BY <1>3 DEF PendingResolves
  <2> QED BY <2>2, <2>3, SavedKept DEF Resolving
<1>6. Comparing'
  <2> SUFFICES ASSUME run.on \in Clones
               PROVE  /\ \A b \in Clones : Extends(exps'[b], live)
                      /\ y.currentTick + run'.left = live.currentTick + run.steps
                      /\ run.on = "baseline" => exps'["variant"] = live
                      /\ run.on = "variant" =>
                            exps'["baseline"].currentTick = live.currentTick + run.steps
    BY <1>2, <1>3 DEF Comparing, Clones
  <2>1. /\ \A b \in Clones : Extends(exps[b], live)
        /\ Running.currentTick + run.left = live.currentTick + run.steps
        /\ run.on = "baseline" => exps["variant"] = live
        /\ run.on = "variant" => exps["baseline"].currentTick = live.currentTick + run.steps
    BY DEF IInv, Comparing
  <2>2. Extends(y, live)
    BY <1>1, <2>1, ExtendsOn DEF Running
  <2> QED BY <1>2, <2>1, <2>2 DEF Clones, Branches
<1> QED BY <1>4, <1>5, <1>6 DEF IInv

\* A behavior acts on posts of the feed it is given.
OnFeed(feed) ==
    {a \in ActionT : a.kind # "original" => a.post \in {p.id : p \in feed}}

LEMMA DecisionsType ==
    ASSUME NEW b, NEW me, NEW feed \in SUBSET PostT, NEW actions \in Decisions(b, me, feed)
    PROVE  actions \in Seq(OnFeed(feed))
<1> DEFINE A == OnFeed(feed)
<1>1. \A p \in feed : p.id \in Nat
  BY DEF PostT
<1>2. ASSUME NEW p \in feed, NEW kind \in ActionTypes PROVE Do(kind, p) \in A
  BY <1>1 DEF Do, OnFeed, ActionT
<1>3. ASSUME NEW p \in feed PROVE DoReply(p) \in A /\ Do("like", p) \in A
  BY <1>1, <1>2 DEF DoReply, OnFeed, ActionT, ActionTypes
<1>4. MakeOriginal \in A
  BY DEF MakeOriginal, OnFeed, ActionT
<1> HIDE DEF A
<1>5. ASSUME NEW p \in feed PROVE ReactTo(me, p) \subseteq Seq(A)
  <2>1. DoReply(p) \in A /\ Do("like", p) \in A
    BY <1>3
  <2>2. /\ <<>> \in Seq(A) /\ <<Do("like", p)>> \in Seq(A)
        /\ <<Do("like", p), Do("like", p)>> \in Seq(A) /\ <<Do("like", p), DoReply(p)>> \in Seq(A)
        /\ <<Do("like", p), Do("like", p), DoReply(p)>> \in Seq(A)
    BY <2>1
  <2> QED BY <2>2 DEF ReactTo
<1>6. Deterministic(me, feed) \subseteq Seq(A)
  <2> DEFINE reactions == UNION {ReactTo(me, p) : p \in feed}
  <2>1. reactions \subseteq Seq(A)
    BY <1>5
  <2> HIDE DEF reactions
  <2>2. \A r \in reactions : Append(r, MakeOriginal) \in Seq(A)
    BY <1>4, <2>1
  <2>3. <<>> \in Seq(A)
    OBVIOUS
  <2>4. {Append(r, MakeOriginal) : r \in reactions} \subseteq Seq(A)
    BY <2>2
  <2> QED BY <2>1, <2>3, <2>4 DEF Deterministic, reactions
<1>7. FromLLM(feed) \subseteq Seq(A)
  <2> SUFFICES ASSUME NEW p \in feed
               PROVE  {<<>>, <<DoReply(p)>>} \cup {<<Do(kind, p)>> : kind \in ActionTypes}
                         \subseteq Seq(A)
    BY DEF FromLLM
  <2>1. <<>> \in Seq(A) /\ <<DoReply(p)>> \in Seq(A)
    BY <1>3
  <2>2. \A kind \in ActionTypes : <<Do(kind, p)>> \in Seq(A)
    BY <1>2
  <2> QED BY <2>1, <2>2
<1> QED BY <1>6, <1>7 DEF Decisions, A

LEMMA DecideStep == IInv /\ Decide => IInv'
<1> SUFFICES ASSUME IInv, Decide PROVE IInv'
  OBVIOUS
<1>1. ~Idle /\ run.turn < Len(Running.agents) /\ UNCHANGED <<exps, saved, fresh>>
  BY DEF Decide
<1>2. /\ run.on \in Branches /\ Running \in ExperimentT /\ run.on \in HasBranch
      /\ run.turn \in Nat /\ Len(Running.agents) \in Nat /\ fresh \in Nat /\ run \in RunT
      /\ run.left \in Nat /\ run.left >= 1
  BY <1>1, RunningType DEF IInv, TypeOK
<1> DEFINE me   == Running.agents[run.turn + 1]
           feed == Feed(Running, me)
<1>3. PICK actions \in Decisions(run.on, me, feed) :
         run' = [run EXCEPT !.turn = @ + 1, !.pending = actions]
  BY DEF Decide
<1>4. feed \subseteq Elems(Running.posts) /\ feed \subseteq PostT
  <2>1. Running.posts \in Seq(PostT)
    BY <1>2 DEF ExperimentT
  <2> QED BY <2>1, ElemsIn DEF Feed
<1>5. actions \in Seq(OnFeed(feed))
  BY <1>3, <1>4, DecisionsType
<1>6. /\ actions \in Seq(ActionT)
      /\ \A i \in DOMAIN actions :
            actions[i].kind # "original" => actions[i].post \in IdsOf(Running.posts)
  <2>1. \A i \in DOMAIN actions : actions[i] \in OnFeed(feed)
    BY <1>5
  <2>2. OnFeed(feed) \subseteq ActionT
    BY DEF OnFeed
  <2>3. {p.id : p \in feed} \subseteq IdsOf(Running.posts)
    BY <1>4 DEF IdsOf
  <2>4. \A i \in DOMAIN actions :
            actions[i].kind # "original" => actions[i].post \in {p.id : p \in feed}
    BY <2>1 DEF OnFeed
  <2> QED BY <1>5, <2>2, <2>3, <2>4
<1> HIDE DEF feed, me
<1>7. /\ run' \in RunT
      /\ run'.on = run.on /\ run'.steps = run.steps /\ run'.left = run.left
      /\ run'.turn = run.turn + 1 /\ run'.pending = actions
      /\ run'.newPosts = run.newPosts /\ run'.newEngagements = run.newEngagements
  <2>1. run.turn + 1 \in Nat /\ actions \in Seq(ActionT)
    BY <1>2, <1>6
  <2> HIDE <1>6
  <2> QED BY <1>2, <1>3, <2>1 DEF RunT
<1>8. SetRunning(Running)
  BY <1>1, <1>2 DEF SetRunning, Running, IInv, TypeOK
<1>9. /\ Resolves(Running, Running.engagements \o run.newEngagements)
      /\ Elems(run.newPosts) \subseteq IdsOf(Running.posts)
  BY <1>1, <1>2 DEF IInv, Resolving, PendingResolves, Log, Unfiled, Running
<1>10. Extends(Running, Running)
  BY <1>2, ExtendsSelf
<1>11. run'.turn <= Len(Running.agents) /\ run'.turn >= 1 /\ run'.left >= 1 /\ fresh' \in Nat
  BY <1>1, <1>2, <1>7
<1> QED BY <1>1, <1>2, <1>6, <1>7, <1>8, <1>9, <1>10, <1>11, TickStep

\* The agent whose turn it is.
LEMMA MeType ==
    ASSUME TypeOK, ~Idle, run.pending # <<>>
    PROVE  /\ run.turn \in 1 .. Len(Running.agents) /\ Me \in AgentT
           /\ Me.id \in IdsOf(Running.agents) /\ Me.id \in Nat
<1>1. run.turn \in 1 .. Len(Running.agents) /\ Running.agents \in Seq(AgentT)
  <2>1. Running \in ExperimentT /\ run.turn \in Nat /\ Len(Running.agents) \in Nat
    BY RunningType
  <2>2. run.turn <= Len(Running.agents) /\ run.turn >= 1
    BY DEF TypeOK
  <2> QED BY <2>1, <2>2 DEF ExperimentT
<1>2. Me \in AgentT /\ Me \in Elems(Running.agents)
  BY <1>1 DEF Me, Elems
<1> QED BY <1>1, <1>2 DEF IdsOf, AgentT

\* One action less is pending, and no post is gone.
LEMMA PendingGoesOn ==
    ASSUME IInv, ~Idle, run.pending # <<>>, NEW ids, IdsOf(Running.posts) \subseteq ids
    PROVE  /\ Tail(run.pending) \in Seq(ActionT) /\ NextAction \in ActionT
           /\ NextAction.kind # "original" => NextAction.post \in IdsOf(Running.posts)
           /\ \A i \in DOMAIN Tail(run.pending) :
                 Tail(run.pending)[i].kind # "original" => Tail(run.pending)[i].post \in ids
<1>1. run.pending \in Seq(ActionT)
  BY RunningType DEF IInv
<1>2. \A i \in DOMAIN run.pending :
         run.pending[i].kind # "original" => run.pending[i].post \in IdsOf(Running.posts)
  BY DEF IInv, Resolving, PendingResolves
<1>3. /\ Tail(run.pending) \in Seq(ActionT) /\ Head(run.pending) \in ActionT
      /\ Head(run.pending) = run.pending[1] /\ 1 \in DOMAIN run.pending
      /\ \A i \in DOMAIN Tail(run.pending) :
            i + 1 \in DOMAIN run.pending /\ Tail(run.pending)[i] = run.pending[i + 1]
  BY <1>1, TailIn
<1> QED BY <1>2, <1>3 DEF NextAction

\* The log of the running experiment and what it grows by.
LEMMA LogGrows ==
    ASSUME IInv, ~Idle, NEW y \in ExperimentT, NEW e \in EngagementT,
           IdsOf(y.agents) = IdsOf(Running.agents), y.ticks = Running.ticks,
           y.engagements = Running.engagements, IdsOf(Running.posts) \subseteq IdsOf(y.posts),
           \A p \in Elems(y.posts) : \/ p \in Elems(Running.posts)
                                     \/ /\ p.author \in IdsOf(Running.agents)
                                        /\ p.replyTo \in IdsOf(y.posts) \cup {NoId},
           e.agent \in IdsOf(Running.agents), e.post \in IdsOf(y.posts)
    PROVE  Resolves(y, y.engagements \o Append(run.newEngagements, e))
<1> DEFINE log    == Running.engagements \o run.newEngagements
           longer == y.engagements \o Append(run.newEngagements, e)
<1>1. /\ run.newEngagements \in Seq(EngagementT) /\ Running.engagements \in Seq(EngagementT)
      /\ run.on \in HasBranch
  BY RunningType DEF IInv, ExperimentT
<1>2. Resolves(Running, log)
  BY <1>1 DEF IInv, Resolving, Log, Unfiled, Running
<1>3. /\ Append(run.newEngagements, e) \in Seq(EngagementT)
      /\ Elems(Append(run.newEngagements, e)) = Elems(run.newEngagements) \cup {e}
  BY <1>1, ElemsAppend
<1>4. Elems(log) = Elems(Running.engagements) \cup Elems(run.newEngagements)
  BY <1>1, ElemsConcat
<1>5. Elems(longer) = Elems(Running.engagements) \cup Elems(Append(run.newEngagements, e))
  <2>1. \A more \in Seq(EngagementT) :
           Elems(Running.engagements \o more) = Elems(Running.engagements) \cup Elems(more)
    BY <1>1, ElemsConcat
  <2> QED BY <1>3, <2>1
<1>6. Elems(longer) = Elems(log) \cup {e}
  BY <1>3, <1>4, <1>5
<1> HIDE DEF log, longer
<1>7. Resolves(y, longer)
  BY <1>2, <1>6, ResolvesGrows
<1> QED BY <1>7 DEF longer

\* The topics of an original are topics.
LEMMA OriginalTopicsType ==
    ASSUME TypeOK, ~Idle, run.pending # <<>>
    PROVE  OriginalTopics \subseteq Topics
<1>1. Me.interests \in Seq(Topics) /\ Me.interests # <<>>
  BY MeType DEF AgentT
<1>2. Me.interests[1] \in Topics /\ Elems(Me.interests) \subseteq Topics
  BY <1>1, ElemsIn
<1>3. Running.scenarios \in Seq((SUBSET Topics) \ {{}})
  BY RunningType DEF ExperimentT
<1>4. CASE Running.scenarios = <<>>
  BY <1>2, <1>4 DEF OriginalTopics
<1>5. CASE Running.scenarios # <<>>
  <2> DEFINE hot == Running.scenarios[Len(Running.scenarios)]
             common == Elems(Me.interests) \cap hot
             pool == IF common # {} THEN common ELSE hot
  <2>1. hot \in (SUBSET Topics) \ {{}}
    BY <1>3, <1>5
  <2>2. pool # {} /\ pool \subseteq Topics
    BY <2>1
  <2>3. OriginalTopics = {Me.interests[1], CHOOSE t \in pool : TRUE}
    BY <1>5 DEF OriginalTopics
  <2> HIDE DEF pool
  <2>4. (CHOOSE t \in pool : TRUE) \in pool
    BY <2>2
  <2> QED BY <1>2, <2>2, <2>3, <2>4
<1> QED BY <1>4, <1>5

LEMMA OriginalStep == IInv /\ MaterializeOriginal => IInv'
<1> SUFFICES ASSUME IInv, MaterializeOriginal PROVE IInv'
  OBVIOUS
<1> DEFINE p == [id |-> fresh, author |-> Me.id, replyTo |-> NoId, topics |-> OriginalTopics]
           e == [agent |-> Me.id, post |-> fresh, action |-> "reply"]
           y == AddPosts(Running, <<p>>)
<1>1. ~Idle /\ run.pending # <<>> /\ SetRunning(y) /\ fresh' = fresh + 1 /\ UNCHANGED saved
  BY DEF MaterializeOriginal
<1>2. run' = [run EXCEPT !.pending = Tail(@), !.newPosts = Append(@, fresh),
                         !.newEngagements = Append(@, e)]
  BY DEF MaterializeOriginal
<1>3. /\ Running \in ExperimentT /\ fresh \in Nat /\ run \in RunT
      /\ run.newPosts \in Seq(Nat) /\ run.newEngagements \in Seq(EngagementT)
      /\ run.left \in Nat /\ run.left >= 1
  BY <1>1, RunningType DEF IInv, TypeOK
<1>4. /\ run.turn \in 1 .. Len(Running.agents) /\ Me.id \in IdsOf(Running.agents) /\ Me.id \in Nat
  BY <1>1, MeType DEF IInv
<1>5. p \in PostT /\ <<p>> \in Seq(PostT) /\ e \in EngagementT
  <2>1. OriginalTopics \subseteq Topics
    BY <1>1, OriginalTopicsType DEF IInv
  <2>2. p \in PostT /\ e \in EngagementT
    BY <1>3, <1>4, <2>1 DEF PostT, EngagementT, ActionTypes
  <2> HIDE DEF p, e
  <2> QED BY <2>2
<1>6. Elems(<<p>>) = {p} /\ p.id = fresh /\ p.author = Me.id /\ p.replyTo = NoId
  BY DEF Elems
<1>7. e.agent = Me.id /\ e.post = fresh
  OBVIOUS
<1> HIDE DEF p, e
<1>8. /\ y \in ExperimentT /\ y.posts = Running.posts \o <<p>> /\ y.agents = Running.agents
      /\ y.ticks = Running.ticks /\ y.engagements = Running.engagements
      /\ y.currentTick = Running.currentTick
  BY <1>3, <1>5, AddPostsType
<1> HIDE DEF y
<1>9. /\ Elems(y.posts) = Elems(Running.posts) \cup {p}
      /\ IdsOf(Running.posts) \subseteq IdsOf(y.posts) /\ fresh \in IdsOf(y.posts)
  <2>1. Running.posts \in Seq(PostT)
    BY <1>3 DEF ExperimentT
  <2>2. /\ Elems(y.posts) = Elems(Running.posts) \cup {p}
        /\ IdsOf(Running.posts) \subseteq IdsOf(y.posts)
    BY <1>5, <1>6, <1>8, <2>1, IdsAdded
  <2> QED BY <1>6, <2>2 DEF IdsOf
<1>10. Resolves(y, y.engagements \o Append(run.newEngagements, e))
  BY <1>1, <1>4, <1>5, <1>6, <1>7, <1>8, <1>9, LogGrows
<1>11. Extends(y, Running)
  BY <1>3, <1>5, <1>8, ExtendsBy
<1>12. /\ Tail(run.pending) \in Seq(ActionT)
       /\ \A i \in DOMAIN Tail(run.pending) :
             Tail(run.pending)[i].kind # "original" => Tail(run.pending)[i].post \in IdsOf(y.posts)
  BY <1>1, <1>9, PendingGoesOn
<1>13. /\ Append(run.newPosts, fresh) \in Seq(Nat)
       /\ Elems(Append(run.newPosts, fresh)) = Elems(run.newPosts) \cup {fresh}
       /\ Append(run.newEngagements, e) \in Seq(EngagementT)
  BY <1>3, <1>5, ElemsAppend
<1>14. /\ run' \in RunT
       /\ run'.on = run.on /\ run'.steps = run.steps /\ run'.left = run.left
       /\ run'.turn = run.turn /\ run'.pending = Tail(run.pending)
       /\ run'.newPosts = Append(run.newPosts, fresh)
       /\ run'.newEngagements = Append(run.newEngagements, e)
  <2>1. Tail(run.pending) \in Seq(ActionT)
    BY <1>12
  <2> QED BY <1>2, <1>3, <1>13, <2>1 DEF RunT
<1>15. Elems(run'.newPosts) \subseteq IdsOf(y.posts)
  BY <1>1, <1>9, <1>13, <1>14 DEF IInv, Resolving, PendingResolves
<1>16. /\ run'.turn <= Len(y.agents) /\ run'.turn >= 1 /\ run'.left >= 1 /\ fresh' \in Nat
       /\ y.currentTick + run'.left = Running.currentTick + run.left
  BY <1>1, <1>3, <1>4, <1>8, <1>14
<1> QED BY <1>1, <1>8, <1>10, <1>11, <1>12, <1>14, <1>15, <1>16, TickStep

LEMMA EngagementStep == IInv /\ MaterializeEngagement => IInv'
<1> SUFFICES ASSUME IInv, MaterializeEngagement PROVE IInv'
  OBVIOUS
<1> DEFINE e == [agent |-> Me.id, post |-> NextAction.post, action |-> NextAction.kind]
           x == Remember(Running, e)
<1>1. ~Idle /\ run.pending # <<>> /\ NextAction.kind # "original" /\ UNCHANGED saved
  BY DEF MaterializeEngagement
<1>2. /\ Running \in ExperimentT /\ fresh \in Nat /\ run \in RunT
      /\ run.newPosts \in Seq(Nat) /\ run.newEngagements \in Seq(EngagementT)
      /\ run.left \in Nat /\ run.left >= 1
  BY <1>1, RunningType DEF IInv, TypeOK
<1>3. /\ run.turn \in 1 .. Len(Running.agents) /\ Me.id \in IdsOf(Running.agents) /\ Me.id \in Nat
  BY <1>1, MeType DEF IInv
<1>4. NextAction \in ActionT /\ NextAction.post \in IdsOf(Running.posts)
  BY <1>1, PendingGoesOn
<1>5. Running.posts \in Seq(PostT) /\ IdsOf(Running.posts) \subseteq Nat
  BY <1>2, IdsAdded DEF ExperimentT
<1>6. e \in EngagementT /\ e.agent = Me.id /\ e.post = NextAction.post
  BY <1>1, <1>3, <1>4, <1>5 DEF EngagementT, ActionT
<1> HIDE DEF e
<1>7. /\ x \in ExperimentT /\ IdsOf(x.agents) = IdsOf(Running.agents)
      /\ Len(x.agents) = Len(Running.agents)
      /\ x.posts = Running.posts /\ x.ticks = Running.ticks
      /\ x.engagements = Running.engagements /\ x.currentTick = Running.currentTick
  BY <1>2, <1>3, <1>6, RememberType
<1> HIDE DEF x
<1>8. Append(run.newEngagements, e) \in Seq(EngagementT)
  BY <1>2, <1>6
<1>9. Tail(run.pending) \in Seq(ActionT)
  BY <1>1, PendingGoesOn
<1>10. CASE MakesPost(NextAction)
  <2> DEFINE p == ReplyPost(e)
             y == AddPosts(x, <<p>>)
  <2>1. SetRunning(y) /\ fresh' = fresh + 1
    BY <1>10 DEF MaterializeEngagement, e, x
  <2>2. run' = [run EXCEPT !.pending = Tail(@), !.newEngagements = Append(@, e),
                           !.newPosts = Append(@, fresh)]
    BY <1>10 DEF MaterializeEngagement, e
  <2>3. p \in PostT /\ p.author = Me.id /\ p.replyTo = NextAction.post /\ p.id = fresh
    <3> DEFINE parents == {q \in Elems(Running.posts) : q.id = e.post}
               topics  == IF parents = {} THEN {} ELSE (CHOOSE q \in parents : TRUE).topics
    <3>1. parents \subseteq PostT
      BY <1>5, ElemsIn
    <3>2. p = [id |-> fresh, author |-> e.agent, replyTo |-> e.post, topics |-> topics]
      BY DEF ReplyPost
    <3>3. topics \subseteq Topics
      <4>1. CASE parents = {}
        BY <4>1
      <4>2. CASE parents # {}
        <5> HIDE DEF parents
        <5>1. (CHOOSE q \in parents : TRUE) \in PostT
          BY <3>1, <4>2
        <5> QED BY <4>2, <5>1 DEF PostT
      <4> QED BY <4>1, <4>2
    <3> HIDE DEF topics, p
    <3> QED BY <1>2, <1>3, <1>4, <1>5, <1>6, <3>2, <3>3 DEF PostT
  <2> HIDE DEF p
  <2>4. <<p>> \in Seq(PostT) /\ Elems(<<p>>) = {p}
    BY <2>3 DEF Elems
  <2>5. /\ y \in ExperimentT /\ y.posts = Running.posts \o <<p>> /\ y.agents = x.agents
        /\ y.ticks = Running.ticks /\ y.engagements = Running.engagements
        /\ y.currentTick = Running.currentTick
    <3>1. /\ y \in ExperimentT /\ y.posts = x.posts \o <<p>> /\ y.agents = x.agents
          /\ y.ticks = x.ticks /\ y.engagements = x.engagements /\ y.currentTick = x.currentTick
      BY <1>7, <2>4, AddPostsType
    <3> HIDE DEF y
    <3> QED BY <1>7, <3>1
  <2> HIDE DEF y
  <2>6. /\ Elems(y.posts) = Elems(Running.posts) \cup {p}
        /\ IdsOf(Running.posts) \subseteq IdsOf(y.posts)
    BY <1>5, <2>4, <2>5, IdsAdded
  <2>7. fresh \in IdsOf(y.posts)
    BY <2>3, <2>6 DEF IdsOf
  <2>8. Resolves(y, y.engagements \o Append(run.newEngagements, e))
    BY <1>1, <1>3, <1>4, <1>6, <1>7, <2>3, <2>5, <2>6, LogGrows
  <2>9. Extends(y, Running)
    BY <1>2, <2>4, <2>5, ExtendsBy
  <2>10. \A i \in DOMAIN Tail(run.pending) :
            Tail(run.pending)[i].kind # "original" => Tail(run.pending)[i].post \in IdsOf(y.posts)
    BY <1>1, <2>6, PendingGoesOn
  <2>11. /\ Append(run.newPosts, fresh) \in Seq(Nat)
         /\ Elems(Append(run.newPosts, fresh)) = Elems(run.newPosts) \cup {fresh}
    BY <1>2, ElemsAppend
  <2>12. /\ run' \in RunT
         /\ run'.on = run.on /\ run'.steps = run.steps /\ run'.left = run.left
         /\ run'.turn = run.turn /\ run'.pending = Tail(run.pending)
         /\ run'.newPosts = Append(run.newPosts, fresh)
         /\ run'.newEngagements = Append(run.newEngagements, e)
    BY <1>2, <1>8, <1>9, <2>2, <2>11 DEF RunT
  <2>13. Elems(run'.newPosts) \subseteq IdsOf(y.posts)
    BY <1>1, <2>6, <2>7, <2>11, <2>12 DEF IInv, Resolving, PendingResolves
  <2>14. /\ run'.turn <= Len(y.agents) /\ run'.turn >= 1 /\ run'.left >= 1 /\ fresh' \in Nat
         /\ y.currentTick + run'.left = Running.currentTick + run.left
    BY <1>2, <1>3, <1>7, <2>1, <2>5, <2>12
  <2> QED BY <1>1, <2>1, <2>5, <2>8, <2>9, <2>10, <2>12, <2>13, <2>14, TickStep
<1>11. CASE ~MakesPost(NextAction)
  <2>1. SetRunning(x) /\ UNCHANGED fresh
    BY <1>11 DEF MaterializeEngagement, e, x
  <2>2. run' = [run EXCEPT !.pending = Tail(@), !.newEngagements = Append(@, e)]
    BY <1>11 DEF MaterializeEngagement, e
  <2>3. Resolves(x, x.engagements \o Append(run.newEngagements, e))
    BY <1>1, <1>3, <1>4, <1>6, <1>7, LogGrows
  <2>4. Extends(x, Running)
    BY <1>2, <1>7, PrefixSelf DEF Extends, ExperimentT
  <2>5. \A i \in DOMAIN Tail(run.pending) :
            Tail(run.pending)[i].kind # "original" => Tail(run.pending)[i].post \in IdsOf(x.posts)
    BY <1>1, <1>7, PendingGoesOn
  <2>6. /\ run' \in RunT
        /\ run'.on = run.on /\ run'.steps = run.steps /\ run'.left = run.left
        /\ run'.turn = run.turn /\ run'.pending = Tail(run.pending)
        /\ run'.newPosts = run.newPosts
        /\ run'.newEngagements = Append(run.newEngagements, e)
    BY <1>2, <1>8, <1>9, <2>2 DEF RunT
  <2>7. Elems(run'.newPosts) \subseteq IdsOf(x.posts)
    BY <1>1, <1>7, <2>6 DEF IInv, Resolving, PendingResolves
  <2>8. /\ run'.turn <= Len(x.agents) /\ run'.turn >= 1 /\ run'.left >= 1 /\ fresh' \in Nat
        /\ x.currentTick + run'.left = Running.currentTick + run.left
    BY <1>2, <1>3, <1>7, <2>1, <2>6
  <2> QED BY <1>1, <1>7, <2>1, <2>3, <2>4, <2>5, <2>6, <2>7, <2>8, TickStep
<1> QED BY <1>10, <1>11

\* What a tick leaves in its experiment.
Ticked == RecordTick([Running EXCEPT !.engagements = @ \o run.newEngagements],
                     [index |-> Running.currentTick + 1, newPosts |-> run.newPosts,
                      newEngagements |-> Len(run.newEngagements)])

LEMMA TickedType ==
    ASSUME IInv, ~Idle
    PROVE  /\ Ticked \in ExperimentT /\ Extends(Ticked, Running)
           /\ Ticked.currentTick = Running.currentTick + 1
           /\ Resolves(Ticked, Ticked.engagements)
<1> DEFINE record == [index |-> Running.currentTick + 1, newPosts |-> run.newPosts,
                      newEngagements |-> Len(run.newEngagements)]
<1>1. /\ Running \in ExperimentT /\ run.newPosts \in Seq(Nat) /\ run.on \in HasBranch
      /\ run.newEngagements \in Seq(EngagementT)
  BY RunningType DEF IInv
<1>2. /\ Running.engagements \in Seq(EngagementT) /\ Running.ticks \in Seq(TickT)
      /\ Running.posts \in Seq(PostT) /\ Running.currentTick \in Nat
  BY <1>1 DEF ExperimentT
<1>3. record \in TickT /\ record.newPosts = run.newPosts /\ record.index = Running.currentTick + 1
  BY <1>1, <1>2 DEF TickT
<1> HIDE DEF record
<1>4. /\ Running.engagements \o run.newEngagements \in Seq(EngagementT)
      /\ Append(Running.ticks, record) \in Seq(TickT)
      /\ Elems(Append(Running.ticks, record)) = Elems(Running.ticks) \cup {record}
  BY <1>1, <1>2, <1>3, ElemsAppend
<1>5. Ticked = [Running EXCEPT !.engagements = Running.engagements \o run.newEngagements,
                              !.ticks = Append(Running.ticks, record),
                              !.currentTick = Running.currentTick + 1]
  BY <1>1, <1>3 DEF Ticked, RecordTick, record, ExperimentT
<1>6. /\ Ticked \in ExperimentT
      /\ Ticked.agents = Running.agents /\ Ticked.posts = Running.posts
      /\ Ticked.engagements = Running.engagements \o run.newEngagements
      /\ Ticked.ticks = Append(Running.ticks, record)
      /\ Ticked.currentTick = Running.currentTick + 1
  <2> DEFINE log   == Running.engagements \o run.newEngagements
             ticks == Append(Running.ticks, record)
             tick  == Running.currentTick + 1
  <2>1. log \in Seq(EngagementT) /\ ticks \in Seq(TickT) /\ tick \in Nat
    BY <1>2, <1>4
  <2>2. Ticked = [Running EXCEPT !.engagements = log, !.ticks = ticks, !.currentTick = tick]
    BY <1>5
  <2> HIDE DEF log, ticks, tick
  <2>3. /\ Ticked \in ExperimentT
        /\ Ticked.agents = Running.agents /\ Ticked.posts = Running.posts
        /\ Ticked.engagements = log /\ Ticked.ticks = ticks /\ Ticked.currentTick = tick
    BY <1>1, <2>1, <2>2 DEF ExperimentT
  <2> QED BY <2>3 DEF log, ticks, tick
<1>7. Extends(Ticked, Running)
  <2>1. IsPrefix(Running.posts, Running.posts)
    BY <1>2, PrefixSelf
  <2>2. IsPrefix(Running.engagements, Running.engagements \o run.newEngagements)
    BY <1>1, <1>2, PrefixSelf, PrefixGrows
  <2>3. IsPrefix(Running.ticks, Append(Running.ticks, record))
    BY <1>2, <1>3, PrefixSelf, PrefixAppended
  <2> QED BY <1>6, <2>1, <2>2, <2>3 DEF Extends
<1>8. Resolves(Ticked, Ticked.engagements)
  <2>1. Resolves(Running, Running.engagements \o run.newEngagements)
    BY <1>1 DEF IInv, Resolving, Log, Unfiled, Running
  <2>2. Elems(run.newPosts) \subseteq IdsOf(Running.posts)
    BY DEF IInv, Resolving, PendingResolves
  <2> QED BY <1>3, <1>4, <1>6, <2>1, <2>2 DEF Resolves
<1> QED BY <1>6, <1>7, <1>8

LEMMA EndTickStep == IInv /\ EndTick => IInv'
<1> SUFFICES ASSUME IInv, EndTick PROVE IInv'
  OBVIOUS
<1>1. ~Idle /\ run.pending = <<>> /\ SetRunning(Ticked) /\ UNCHANGED <<saved, fresh>>
  BY DEF EndTick, Ticked
<1>2. /\ run.on \in Branches /\ Running \in ExperimentT /\ fresh \in Nat /\ run \in RunT
      /\ run.left \in Nat /\ run.left >= 1 /\ run.steps \in Nat /\ run.steps >= 1
      /\ live \in ExperimentT /\ fresh' \in Nat
  BY <1>1, RunningType, LiveType DEF IInv, TypeOK
<1>3. /\ Ticked \in ExperimentT /\ Extends(Ticked, Running)
      /\ Ticked.currentTick = Running.currentTick + 1
      /\ Resolves(Ticked, Ticked.engagements)
      /\ Running.currentTick \in Nat /\ Len(Ticked.agents) \in Nat
  BY <1>1, <1>2, TickedType DEF ExperimentT
<1>4. /\ exps' \in [Branches -> ExperimentT \cup {Absent}] /\ exps'[run.on] = Ticked
      /\ \A b \in Branches \ {run.on} : exps'[b] = exps[b]
      /\ HasBranch' = HasBranch /\ live' # Absent
      /\ run.on # "live" => live' = live
  BY <1>1, <1>3, SettingRunning DEF IInv
<1>5. CASE run.left > 1 /\ run' = NextTick
  <2>1. /\ run'.on = run.on /\ run'.steps = run.steps /\ run'.left = run.left - 1
        /\ run'.turn = 0 /\ run'.pending = <<>> /\ run'.newPosts = <<>>
        /\ run'.newEngagements = <<>> /\ run' \in RunT
    <3>1. run' = [on |-> run.on, steps |-> run.steps, left |-> run.left - 1, turn |-> 0,
                  pending |-> <<>>, newPosts |-> <<>>, newEngagements |-> <<>>]
      BY <1>5 DEF NextTick, NotRunning
    <3>2. run.left - 1 \in Nat
      BY <1>2, <1>5
    <3> QED BY <1>2, <3>1, <3>2 DEF RunT
  <2>2. /\ run'.left >= 1 /\ run'.turn <= Len(Ticked.agents)
        /\ Ticked.currentTick + run'.left = Running.currentTick + run.left
    BY <1>2, <1>3, <1>5, <2>1
  <2>3. Resolves(Ticked, Ticked.engagements \o run'.newEngagements)
    BY <1>3, <2>1, NothingUnfiled
  <2>4. /\ Elems(run'.newPosts) \subseteq IdsOf(Ticked.posts)
        /\ \A i \in DOMAIN run'.pending : run'.pending[i].kind # "original" =>
               run'.pending[i].post \in IdsOf(Ticked.posts)
    BY <2>1, ElemsEmpty
  <2> QED BY <1>1, <1>2, <1>3, <2>1, <2>2, <2>3, <2>4, TickStep
<1>6. CASE run.left = 1 /\ run.on = "baseline" /\ Start("variant", run.steps)
  <2>1. /\ run' \in RunT /\ run'.on = "variant" /\ run'.steps = run.steps /\ run'.left = run.steps
        /\ run'.turn = 0 /\ run'.pending = <<>> /\ run'.newPosts = <<>>
        /\ run'.newEngagements = <<>> /\ ~Idle'
    BY <1>2, <1>6, StartType DEF Branches
  <2>2. /\ \A b \in Clones : Extends(exps[b], live) /\ exps[b] # Absent
        /\ Running.currentTick + 1 = live.currentTick + run.steps
        /\ exps["variant"] = live
    BY <1>6 DEF IInv, Comparing, Clones, TypeOK
  <2>3. /\ exps'["baseline"] = Ticked /\ exps'["variant"] = live /\ live' = live
        /\ Running' = live /\ live # Absent /\ Ticked # Absent
    BY <1>3, <1>4, <1>6, <2>1, <2>2, AbsentIsNone DEF Running, Branches, IInv, TypeOK
  <2>4. TypeOK'
    <3>1. Len(live.agents) \in Nat
      BY <1>2 DEF ExperimentT
    <3>2. \A b \in Clones : exps'[b] # Absent
      BY <2>3 DEF Clones
    <3> QED BY <1>1, <1>2, <1>4, <2>1, <2>3, <3>1, <3>2, SavedKept DEF TypeOK
  <2>5. Resolving'
    <3>1. Log("baseline")' = Ticked.engagements
      BY <1>3, <2>1, <2>3, NothingUnfiled DEF Log, Unfiled
    <3>2. \A b \in HasBranch' : Resolves(exps'[b], Log(b)')
      BY <1>1, <1>3, <1>6, <2>1, <2>3, <3>1, OthersResolve
    <3>3. PendingResolves'
      BY <2>1, ElemsEmpty DEF PendingResolves
    <3> QED BY <1>1, <3>2, <3>3, SavedKept DEF Resolving
  <2>6. Comparing'
    <3>1. Extends(Ticked, live)
      BY <1>2, <1>3, <1>6, <2>2, ExtendsOn DEF Running, Clones
    <3>2. Extends(live, live)
      BY <1>2, ExtendsSelf
    <3>3. \A b \in Clones : Extends(exps'[b], live')
      BY <2>3, <3>1, <3>2 DEF Clones
    <3> QED BY <1>3, <2>1, <2>2, <2>3, <3>3 DEF Comparing
  <2> QED BY <2>4, <2>5, <2>6 DEF IInv
<1>7. CASE run.left = 1 /\ run.on # "baseline" /\ run' = NotRunning
  <2>1. run' \in RunT /\ run'.on = NoId /\ Idle' /\ NoId \notin Branches
    BY <1>7, NoIdAssumption DEF NotRunning, RunT, Idle
  <2>2. run'.on \notin Clones
    BY <2>1 DEF Clones, Branches
  <2>3. TypeOK'
    BY <1>1, <1>2, <1>4, <2>1, <2>2, SavedKept DEF TypeOK
  <2>4. Resolving'
    <3>1. ASSUME NEW b \in Branches, b = run.on PROVE Log(b)' = Ticked.engagements
      <4>1. Unfiled(b)' = <<>>
        BY <2>1 DEF Unfiled
      <4> QED BY <1>3, <1>4, <3>1, <4>1, NothingUnfiled DEF Log
    <3>2. \A b \in HasBranch' : Resolves(exps'[b], Log(b)')
      BY <1>1, <1>2, <1>3, <1>4, <2>1, <3>1, OthersResolve
    <3>3. PendingResolves'
      BY <2>1 DEF PendingResolves
    <3> QED BY <1>1, <3>2, <3>3, SavedKept DEF Resolving
  <2>5. Comparing'
    BY <2>2 DEF Comparing
  <2> QED BY <2>3, <2>4, <2>5 DEF IInv
<1> QED BY <1>5, <1>6, <1>7 DEF EndTick

-----------------------------------------------------------------------------
(* The theorems *)

LEMMA InitInv == Init => IInv
<1> SUFFICES ASSUME Init PROVE IInv
  OBVIOUS
<1>1. /\ exps = [b \in Branches |-> IF b = "live" THEN NewExperiment ELSE Absent]
      /\ saved = Absent /\ fresh = 1 /\ run = NotRunning
  BY DEF Init
<1>2. run \in RunT /\ run.on = NoId /\ Idle /\ NoId \notin Branches
  BY <1>1, NoIdAssumption DEF NotRunning, RunT, Idle
<1>3. run.on \notin Clones
  BY <1>2 DEF Clones, Branches
<1>4. /\ exps \in [Branches -> ExperimentT \cup {Absent}] /\ live = NewExperiment
      /\ HasBranch = {"live"}
  BY <1>1, EmptyExperiment DEF live, HasBranch, Branches
<1>5. TypeOK
  BY <1>1, <1>2, <1>3, <1>4, EmptyExperiment DEF TypeOK
<1>6. Log("live") = NewExperiment.engagements
  <2>1. Unfiled("live") = <<>>
    BY <1>2 DEF Unfiled, Branches
  <2> QED BY <1>4, <2>1, EmptyExperiment, NothingUnfiled DEF Log, live
<1>7. Resolving
  BY <1>1, <1>2, <1>4, <1>6, EmptyExperiment DEF Resolving, PendingResolves, live
<1> QED BY <1>3, <1>5, <1>7 DEF IInv, Comparing

LEMMA InvUnchanged == IInv /\ UNCHANGED vars => IInv'
BY DEF vars, IInv, TypeOK, Resolving, PendingResolves, Comparing, HasBranch, Log, Unfiled, live,
       Idle, Running

THEOREM Inductive == Spec => []IInv
<1>1. IInv /\ [Next]_vars => IInv'
  BY ClickStep, InjectStep, StepStep, CompareStep, DecideStep, OriginalStep, EngagementStep,
     EndTickStep, InvUnchanged DEF Next
<1> QED BY <1>1, InitInv, PTL DEF Spec

THEOREM TypeCorrect == Spec => []TypeOK
<1>1. IInv => TypeOK
  BY DEF IInv
<1> QED BY <1>1, Inductive, PTL

\* Whoever is reached is an agent, so no more are reached than there are.
LEMMA ReachedBound ==
    ASSUME NEW x \in ExperimentT, NEW log, Resolves(x, log), Elems(x.engagements) \subseteq Elems(log)
    PROVE  Cardinality(Reached(x)) <= Len(x.agents)
<1> DEFINE n == Len(x.agents)
           f == [i \in 1 .. n |-> x.agents[i].id]
<1>1. n \in Nat /\ DOMAIN x.agents = 1 .. n
  BY DEF ExperimentT
<1>2. f \in Surjection(1 .. n, IdsOf(x.agents))
  <2>1. IdsOf(x.agents) = {x.agents[i].id : i \in 1 .. n}
    BY <1>1 DEF IdsOf, Elems
  <2> QED BY <2>1 DEF Surjection
<1>3. IsFiniteSet(1 .. n) /\ Cardinality(1 .. n) = n
  BY <1>1, FS_Interval
<1> HIDE DEF n, f
<1>4. IsFiniteSet(IdsOf(x.agents)) /\ Cardinality(IdsOf(x.agents)) <= n
  BY <1>2, <1>3, FS_Surjection
<1>5. Reached(x) \in SUBSET IdsOf(x.agents)
  BY DEF Reached, Resolves
<1>6. /\ IsFiniteSet(Reached(x))
      /\ Cardinality(Reached(x)) <= Cardinality(IdsOf(x.agents))
  BY <1>4, <1>5, FS_Subset
<1>7. Cardinality(Reached(x)) \in Nat /\ Cardinality(IdsOf(x.agents)) \in Nat
  BY <1>4, <1>6, FS_CardinalityType
<1> QED BY <1>1, <1>4, <1>6, <1>7 DEF n

\* After any sequence of clicks, and at any point of a tick, every id that an
\* experiment in memory or in the file holds resolves in it (clear_posts,
\* from_dict, materialize_actions, clone_experiment_state).
THEOREM IdsResolve == Spec => []EverythingResolves
<1>1. IInv => EverythingResolves
  <2> SUFFICES ASSUME IInv PROVE EverythingResolves
    OBVIOUS
  <2>1. ASSUME NEW b \in HasBranch
        PROVE  Cardinality(Reached(exps[b])) <= Len(exps[b].agents)
    <3>1. /\ exps[b] \in ExperimentT /\ Resolves(exps[b], Log(b))
          /\ Unfiled(b) \in Seq(EngagementT)
      BY DEF IInv, TypeOK, Resolving, HasBranch, Unfiled, RunT
    <3>2. exps[b].engagements \in Seq(EngagementT)
      BY <3>1 DEF ExperimentT
    <3>3. Elems(exps[b].engagements) \subseteq Elems(Log(b))
      BY <3>1, <3>2, ElemsConcat DEF Log
    <3> QED BY <3>1, <3>3, ReachedBound
  <2>2. saved # Absent => Cardinality(Reached(saved)) <= Len(saved.agents)
    BY ReachedBound DEF IInv, TypeOK, Resolving
  <2>3. \A x \in Present : Cardinality(Reached(x)) <= Len(x.agents)
    BY <2>1, <2>2 DEF Present, HasBranch
  <2> QED BY <2>3 DEF IInv, Resolving, EverythingResolves
<1> QED BY <1>1, Inductive, PTL

\* A comparison changes nothing but its clones, and ends with both as many ticks
\* ahead of the live experiment as it was told to run (run_comparison).
THEOREM ComparisonAside == Spec => ComparisonBranchesLive
<1> DEFINE Aside ==
       /\ run.on \in {"baseline", "variant"} => UNCHANGED live
       /\ run.on = "variant" /\ run'.on = NoId =>
             /\ Extends(exps'["baseline"], live) /\ Extends(exps'["variant"], live)
             /\ \A b \in {"baseline", "variant"} :
                   exps'[b].currentTick = live.currentTick + run.steps
<1>1. IInv /\ [Next]_vars => [Aside]_vars
  <2> SUFFICES ASSUME IInv, Next, run.on \in Clones
               PROVE  /\ UNCHANGED live
                      /\ run.on = "variant" /\ run'.on = NoId =>
                            /\ Extends(exps'["baseline"], live) /\ Extends(exps'["variant"], live)
                            /\ \A b \in Clones : exps'[b].currentTick = live.currentTick + run.steps
    BY DEF Clones
  <2>1. ~Idle /\ run.on # "live" /\ run.on # NoId /\ run.on \in Branches
    BY NoIdAssumption DEF Clones, Branches, Idle
  <2>2. Decide \/ MaterializeOriginal \/ MaterializeEngagement \/ EndTick
    BY <2>1 DEF Next, CreateSociety, InjectScenario, ClearPosts, ResetRun, DownloadRun, ReplaceRun,
                StepSimulation, RunComparison
  <2>3. exps' = exps \/ \E x : SetRunning(x)
    BY <2>2 DEF Decide, MaterializeOriginal, MaterializeEngagement, EndTick
  <2>4. exps'["live"] = exps["live"]
    BY <2>1, <2>3 DEF SetRunning, IInv, TypeOK, Branches
  <2>5. ASSUME run.on = "variant", run'.on = NoId
        PROVE  /\ Extends(exps'["baseline"], live) /\ Extends(exps'["variant"], live)
               /\ \A b \in Clones : exps'[b].currentTick = live.currentTick + run.steps
    <3>1. EndTick
      <4>1. run \in RunT
        BY DEF IInv, TypeOK
      <4>2. Decide \/ MaterializeOriginal \/ MaterializeEngagement => run'.on = run.on
        BY <4>1 DEF Decide, MaterializeOriginal, MaterializeEngagement, RunT
      <4> QED BY <2>1, <2>2, <2>5, <4>2
    <3>2. /\ Ticked \in ExperimentT /\ Extends(Ticked, Running)
          /\ Ticked.currentTick = Running.currentTick + 1
      BY <2>1, TickedType
    <3>3. run.left = 1 /\ SetRunning(Ticked)
      BY <2>1, <2>5, <3>1 DEF EndTick, Ticked, NextTick, NotRunning, Start
    <3>4. exps'["variant"] = Ticked /\ exps'["baseline"] = exps["baseline"]
      BY <2>1, <2>5, <3>2, <3>3, SettingRunning DEF IInv, Branches
    <3>5. /\ Extends(exps["baseline"], live) /\ Extends(Running, live)
          /\ Running.currentTick + 1 = live.currentTick + run.steps
          /\ exps["baseline"].currentTick = live.currentTick + run.steps
      BY <2>5, <3>3 DEF IInv, Comparing, Clones, Running
    <3>6. Extends(Ticked, live)
      BY <2>1, <3>2, <3>5, RunningType, LiveType, ExtendsOn DEF IInv
    <3> QED BY <3>2, <3>4, <3>5, <3>6 DEF Clones
  <2> QED BY <2>4, <2>5 DEF live
<1> QED BY <1>1, Inductive, PTL DEF Spec, ComparisonBranchesLive
=============================================================================
