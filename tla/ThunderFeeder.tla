---------------------------- MODULE ThunderFeeder ----------------------------
(***************************************************************************)
(* Thunder as a feeder (tweet_events_listener.rs, kafka/utils.rs): each    *)
(* thread polls its partitions of the tweet events, turns a batch into     *)
(* in-network events, sends these all at once, and commits its offsets     *)
(* when every send has come back.  Serving processes read the in-network   *)
(* events and start from ThunderStartup.                                   *)
(*                                                                         *)
(* A thread that fails panics and stays dead, while the process goes on;   *)
(* a process that is started again resumes at the committed offsets, as    *)
(* skip_to_latest is off.  A poll that fails sleeps and changes nothing.   *)
(***************************************************************************)
EXTENDS Naturals, Sequences, FiniteSets

CONSTANTS
    Threads,
    Posts,
    Log,            \* the tweet events on each thread's partitions: [Threads -> Seq(Event)]
    BatchSize,      \* kafka_batch_size
    PollSize,       \* messages a poll asks for: 100
    MaxRestarts     \* bound of the model: starts of the process after the first

\* "garbled" cannot be parsed, "malformed" lacks a field the code unwraps, "other" neither
\* creates nor deletes.
Kinds == {"create", "nullcast", "delete", "quoted_delete", "other", "garbled", "malformed"}
Event == [kind : Kinds, post : Posts]

ASSUME LogAssumption  == Log \in [Threads -> Seq(Event)]
ASSUME SizeAssumption == BatchSize \in Nat \ {0} /\ PollSize \in Nat \ {0} /\ MaxRestarts \in Nat

VARIABLES
    committed,  \* committed offset of each thread
    position,   \* where the consumer of each thread polls next
    at,         \* what each thread does
    sends,      \* send tasks of each thread's batch that are under way
    expired,    \* posts older than the retention period
    network,    \* in-network events that reached their topic
    failed,     \* in-network events a send of which failed and was logged
    restarts

vars == <<committed, position, at, sends, expired, network, failed, restarts>>

InNetworkEvent == [delete : BOOLEAN, post : Posts]

\* The message buffer: what was polled since the last commit.
Buffer(t) == {Log[t][i] : i \in committed[t] + 1 .. position[t]}
Malformed(t) == \E e \in Buffer(t) : e.kind = "malformed"

Init ==
    /\ committed = [t \in Threads |-> 0] /\ position = committed
    /\ at = [t \in Threads |-> "connect"]
    /\ sends = [t \in Threads |-> {}]
    /\ expired = {} /\ network = {} /\ failed = {}
    /\ restarts = 0

At(t, stage) == at[t] = stage
Go(t, stage) == at' = [at EXCEPT ![t] = stage]

Connect(t) ==
    /\ At(t, "connect") /\ Go(t, "poll")
    /\ UNCHANGED <<committed, position, sends, expired, network, failed, restarts>>

\* No consumer, a message without its fields, or offsets that cannot be committed.
Panics(t) ==
    /\ \/ At(t, "connect")
       \/ At(t, "commit") /\ sends[t] = {}
       \/ At(t, "batch") /\ Malformed(t)
    /\ Go(t, "dead")
    /\ UNCHANGED <<committed, position, sends, expired, network, failed, restarts>>

\* Mutant: the batch waits for one message more.
BufferOverfull(n) == n > BatchSize
BufferFull(n) == n >= BatchSize

Poll(t, n) ==
    /\ At(t, "poll") /\ n <= PollSize /\ position[t] + n <= Len(Log[t])
    /\ position' = [position EXCEPT ![t] = @ + n]
    /\ Go(t, IF BufferFull(position'[t] - committed[t]) THEN "batch" ELSE "poll")
    /\ UNCHANGED <<committed, sends, expired, network, failed, restarts>>

\* Time passes.
Age(p) ==
    /\ expired' = expired \cup {p}
    /\ UNCHANGED <<committed, position, at, sends, network, failed, restarts>>

\* The in-network event that announces a tweet event, and whether there is one.
InNetwork(e) == [delete |-> e.kind # "create", post |-> e.post]
Announced(e) ==
    \/ e.kind \in {"create", "quoted_delete"}
    \/ e.kind = "delete" /\ e.post \notin expired

\* Mutant: offsets are committed before the sends have come back.
CommitAhead(t) == committed' = [committed EXCEPT ![t] = position[t]]
CommitLater(t) == UNCHANGED committed

ProcessBatch(t) ==
    /\ At(t, "batch") /\ ~Malformed(t)
    /\ sends' = [sends EXCEPT ![t] = {InNetwork(e) : e \in {f \in Buffer(t) : Announced(f)}}]
    /\ Go(t, "commit")
    /\ CommitLater(t)
    /\ UNCHANGED <<position, expired, network, failed, restarts>>

\* Every send is a task of its own, so they come back in any order.
Send(t, e) ==
    /\ e \in sends[t]
    /\ sends' = [sends EXCEPT ![t] = @ \ {e}]
    /\ \/ network' = network \cup {e} /\ UNCHANGED failed
       \/ failed' = failed \cup {e} /\ UNCHANGED network
    /\ UNCHANGED <<committed, position, at, expired, restarts>>

Commit(t) ==
    /\ At(t, "commit") /\ sends[t] = {}
    /\ committed' = [committed EXCEPT ![t] = position[t]]
    /\ Go(t, "poll")
    /\ UNCHANGED <<position, sends, expired, network, failed, restarts>>

\* The process ends, with its buffers and sends, and is started again.
Restart ==
    /\ restarts < MaxRestarts
    /\ restarts' = restarts + 1
    /\ position' = committed
    /\ at' = [t \in Threads |-> "connect"]
    /\ sends' = [t \in Threads |-> {}]
    /\ UNCHANGED <<committed, expired, network, failed>>

ThreadStep(t) ==
    \/ Connect(t) \/ Panics(t) \/ ProcessBatch(t) \/ Commit(t)
    \/ \E n \in 1 .. PollSize : Poll(t, n)
    \/ \E e \in sends[t] : Send(t, e)

Next ==
    \/ \E t \in Threads : ThreadStep(t)
    \/ \E p \in Posts : Age(p)
    \/ Restart

\* tokio runs every task, and a broker that is asked again and again delivers.
Spec == Init /\ [][Next]_vars /\ \A t \in Threads : WF_vars(ThreadStep(t))

-----------------------------------------------------------------------------
(* Properties *)

\* What the feeder owes nobody any more: it was sent, a send of it failed and was logged,
\* it concerns nobody, or it deletes a post nobody serves any more.
Handled(e) == ~Announced(e) \/ InNetwork(e) \in network \cup failed

\* However often the process is started again and its threads die, no event below a
\* committed offset is forgotten (process_tweet_events).
CommittedIsHandled ==
    \A t \in Threads : \A i \in 1 .. committed[t] :
        Log[t][i].kind # "malformed" /\ Handled(Log[t][i])

\* In the end only a dead thread, or a buffer short of a batch, keeps events from the
\* network: restarts, redeliveries and failed sends do not.
Behind(t) == Len(Log[t]) - committed[t]
FullBatchesGetThrough == \A t \in Threads : <>[](At(t, "dead") \/ Behind(t) < BatchSize)
=============================================================================
