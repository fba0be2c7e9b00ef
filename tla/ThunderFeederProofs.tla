------------------------ MODULE ThunderFeederProofs ------------------------
(***************************************************************************)
(* The feeder forgets no event, for any log, batch size and number of      *)
(* restarts.  CommittedIsHandled is not inductive: a commit needs to know  *)
(* that the batch it commits was announced, so the invariant also says     *)
(* what has become of the batch of a thread that is about to commit.       *)
(***************************************************************************)
EXTENDS ThunderFeeder, TLAPS

Stages == {"connect", "poll", "batch", "commit", "dead"}

Offsets ==
    /\ committed \in [Threads -> Nat] /\ position \in [Threads -> Nat]
    /\ at \in [Threads -> Stages]
    /\ sends \in [Threads -> SUBSET InNetworkEvent]
    /\ \A t \in Threads : committed[t] <= position[t] /\ position[t] <= Len(Log[t])

\* What is true of an event between its batch's turn and the commit.
UnderWay(t, e) ==
    /\ e.kind # "malformed"
    /\ ~Announced(e) \/ InNetwork(e) \in sends[t] \cup network \cup failed

BatchesUnderWay == \A t \in Threads : at[t] = "commit" => \A e \in Buffer(t) : UnderWay(t, e)

IInv == Offsets /\ BatchesUnderWay /\ CommittedIsHandled

USE DEF At, Go

\* Time only makes deletions unnecessary, and nothing leaves the topic or the log.
LEMMA StaysHandled ==
    ASSUME expired \subseteq expired', network \subseteq network', failed \subseteq failed',
           NEW e, Handled(e)
    PROVE  Handled(e)'
BY DEF Handled, Announced, InNetwork

LEMMA CommittedStays ==
    ASSUME CommittedIsHandled, UNCHANGED committed,
           expired \subseteq expired', network \subseteq network', failed \subseteq failed'
    PROVE  CommittedIsHandled'
<1> SUFFICES ASSUME NEW t \in Threads, NEW i \in 1 .. committed[t]
             PROVE  Log[t][i].kind # "malformed" /\ Handled(Log[t][i])'
  BY DEF CommittedIsHandled
<1>1. Log[t][i].kind # "malformed" /\ Handled(Log[t][i])
  BY DEF CommittedIsHandled
<1> QED BY <1>1, StaysHandled

\* A thread's batch stays under way while its sends come back.
LEMMA UnderWayStays ==
    ASSUME NEW t \in Threads, NEW e, UnderWay(t, e),
           expired \subseteq expired', network \subseteq network', failed \subseteq failed',
           sends[t] \subseteq sends'[t] \cup network' \cup failed'
    PROVE  UnderWay(t, e)'
BY DEF UnderWay, Announced, InNetwork

LEMMA Initially == Init => IInv
<1> SUFFICES ASSUME Init PROVE IInv
  OBVIOUS
<1>1. Offsets
  BY LogAssumption DEF Init, Offsets, Stages
<1>2. BatchesUnderWay /\ CommittedIsHandled
  BY DEF Init, BatchesUnderWay, CommittedIsHandled
<1> QED BY <1>1, <1>2 DEF IInv

LEMMA EventsAnnounced ==
    ASSUME NEW t \in Threads, Offsets, NEW e \in Buffer(t)
    PROVE  e \in Event /\ InNetwork(e) \in InNetworkEvent
<1>1. PICK i \in committed[t] + 1 .. position[t] : e = Log[t][i]
  BY DEF Buffer
<1>2. Log[t] \in Seq(Event) /\ i \in 1 .. Len(Log[t])
  BY LogAssumption DEF Offsets
<1>3. e \in Event
  BY <1>1, <1>2
<1> QED BY <1>3 DEF Event, InNetwork, InNetworkEvent

LEMMA OffsetsStep == ASSUME IInv, [Next]_vars PROVE Offsets'
<1> USE DEF IInv, Offsets, Stages
<1>1. ASSUME NEW t \in Threads, Connect(t) PROVE Offsets'
  BY <1>1 DEF Connect
<1>2. ASSUME NEW t \in Threads, Panics(t) PROVE Offsets'
  BY <1>2 DEF Panics
<1>3. ASSUME NEW t \in Threads, ProcessBatch(t) PROVE Offsets'
  <2>1. sends'[t] \subseteq InNetworkEvent
    BY <1>3, EventsAnnounced DEF ProcessBatch
  <2> QED BY <1>3, <2>1 DEF ProcessBatch, CommitLater
<1>4. ASSUME NEW t \in Threads, Commit(t) PROVE Offsets'
  BY <1>4 DEF Commit
<1>5. ASSUME NEW t \in Threads, NEW n \in 1 .. PollSize, Poll(t, n) PROVE Offsets'
  <2>1. n \in Nat
    BY SizeAssumption
  <2>2. position'[t] \in Nat /\ committed[t] <= position'[t] /\ position'[t] <= Len(Log[t])
    BY <1>5, <2>1 DEF Poll
  <2> QED BY <1>5, <2>1, <2>2 DEF Poll
<1>6. ASSUME NEW t \in Threads, NEW e \in sends[t], Send(t, e) PROVE Offsets'
  BY <1>6 DEF Send
<1>7. ASSUME NEW p \in Posts, Age(p) PROVE Offsets'
  BY <1>7 DEF Age
<1>8. CASE Restart
  BY <1>8, LogAssumption DEF Restart
<1>9. CASE UNCHANGED vars
  BY <1>9 DEF vars
<1> QED BY <1>1, <1>2, <1>3, <1>4, <1>5, <1>6, <1>7, <1>8, <1>9 DEF Next, ThreadStep

\* Steps that neither announce nor commit: the batches under way are those of before.
LEMMA QuietStep ==
    ASSUME IInv, UNCHANGED committed,
           expired \subseteq expired', network \subseteq network', failed \subseteq failed',
           \A t \in Threads : at'[t] = "commit" =>
               /\ at[t] = "commit" /\ position'[t] = position[t]
               /\ sends[t] \subseteq sends'[t] \cup network' \cup failed'
    PROVE  BatchesUnderWay' /\ CommittedIsHandled'
<1>1. CommittedIsHandled'
  BY CommittedStays DEF IInv
<1>2. ASSUME NEW t \in Threads, at'[t] = "commit", NEW e \in Buffer(t)'
      PROVE  UnderWay(t, e)'
  <2>1. e \in Buffer(t) /\ at[t] = "commit"
    BY <1>2 DEF Buffer
  <2>2. UnderWay(t, e)
    BY <2>1 DEF IInv, BatchesUnderWay
  <2> QED BY <1>2, <2>2, UnderWayStays
<1> QED BY <1>1, <1>2 DEF BatchesUnderWay

LEMMA InductiveStep == ASSUME IInv, [Next]_vars PROVE IInv'
<1>0. Offsets'
  BY OffsetsStep
<1> SUFFICES BatchesUnderWay' /\ CommittedIsHandled'
  BY <1>0 DEF IInv
<1> USE DEF IInv
<1>1. ASSUME NEW t \in Threads, Connect(t) PROVE BatchesUnderWay' /\ CommittedIsHandled'
  BY <1>1, QuietStep DEF Connect, Offsets
<1>2. ASSUME NEW t \in Threads, Panics(t) PROVE BatchesUnderWay' /\ CommittedIsHandled'
  BY <1>2, QuietStep DEF Panics, Offsets
<1>3. ASSUME NEW t \in Threads, ProcessBatch(t) PROVE BatchesUnderWay' /\ CommittedIsHandled'
  <2>1. CommittedIsHandled'
    BY <1>3, CommittedStays DEF ProcessBatch, CommitLater
  <2>2. ASSUME NEW u \in Threads, at'[u] = "commit", NEW e \in Buffer(u)'
        PROVE  UnderWay(u, e)'
    <3>1. e \in Buffer(u)
      BY <1>3, <2>2 DEF ProcessBatch, CommitLater, Buffer
    <3>2. CASE u = t
      <4>1. e.kind # "malformed"
        BY <1>3, <3>1, <3>2 DEF ProcessBatch, Malformed
      <4>2. Announced(e) => InNetwork(e) \in sends'[t]
        BY <1>3, <3>1, <3>2 DEF ProcessBatch, Offsets
      <4>3. Announced(e)' = Announced(e)
        BY <1>3 DEF ProcessBatch, Announced
      <4> QED BY <3>2, <4>1, <4>2, <4>3 DEF UnderWay, InNetwork
    <3>3. CASE u # t
      <4>1. at[u] = "commit" /\ sends'[u] = sends[u]
        BY <1>3, <2>2, <3>3 DEF ProcessBatch, Offsets
      <4>2. UnderWay(u, e)
        BY <3>1, <4>1 DEF BatchesUnderWay
      <4> QED BY <1>3, <4>1, <4>2, UnderWayStays DEF ProcessBatch
    <3> QED BY <3>2, <3>3
  <2> QED BY <2>1, <2>2 DEF BatchesUnderWay
<1>4. ASSUME NEW t \in Threads, Commit(t) PROVE BatchesUnderWay' /\ CommittedIsHandled'
  <2>1. ASSUME NEW u \in Threads, NEW i \in 1 .. committed'[u]
        PROVE  Log[u][i].kind # "malformed" /\ Handled(Log[u][i])'
    <3>1. Log[u][i].kind # "malformed" /\ Handled(Log[u][i])
      <4>1. CASE i \in 1 .. committed[u]
        BY <4>1 DEF CommittedIsHandled
      <4>2. CASE i \notin 1 .. committed[u]
        <5>1. u = t /\ i \in committed[t] + 1 .. position[t]
          BY <1>4, <2>1, <4>2 DEF Commit, Offsets
        <5>2. UnderWay(t, Log[t][i])
          BY <1>4, <5>1 DEF Commit, BatchesUnderWay, Buffer
        <5> QED BY <1>4, <5>1, <5>2 DEF Commit, UnderWay, Handled
      <4> QED BY <4>1, <4>2
    <3> QED BY <1>4, <3>1, StaysHandled DEF Commit
  <2>2. CommittedIsHandled'
    BY <2>1 DEF CommittedIsHandled
  <2>3. ASSUME NEW u \in Threads, at'[u] = "commit", NEW e \in Buffer(u)'
        PROVE  UnderWay(u, e)'
    <3>1. u # t /\ at[u] = "commit" /\ e \in Buffer(u)
      BY <1>4, <2>3 DEF Commit, Buffer, Offsets
    <3>2. UnderWay(u, e)
      BY <3>1 DEF BatchesUnderWay
    <3> QED BY <1>4, <3>2, UnderWayStays DEF Commit
  <2> QED BY <2>2, <2>3 DEF BatchesUnderWay
<1>5. ASSUME NEW t \in Threads, NEW n \in 1 .. PollSize, Poll(t, n)
      PROVE BatchesUnderWay' /\ CommittedIsHandled'
  <2>1. \A u \in Threads : at'[u] = "commit" => at[u] = "commit" /\ position'[u] = position[u]
    BY <1>5 DEF Poll, Offsets
  <2> QED BY <1>5, <2>1, QuietStep DEF Poll
<1>6. ASSUME NEW t \in Threads, NEW e \in sends[t], Send(t, e)
      PROVE BatchesUnderWay' /\ CommittedIsHandled'
  <2>1. \A u \in Threads : sends[u] \subseteq sends'[u] \cup network' \cup failed'
    BY <1>6 DEF Send, Offsets
  <2>2. network \subseteq network' /\ failed \subseteq failed'
    BY <1>6 DEF Send
  <2> QED BY <1>6, <2>1, <2>2, QuietStep DEF Send
<1>7. ASSUME NEW p \in Posts, Age(p) PROVE BatchesUnderWay' /\ CommittedIsHandled'
  BY <1>7, QuietStep DEF Age
<1>8. CASE Restart
  BY <1>8, QuietStep DEF Restart
<1>9. CASE UNCHANGED vars
  BY <1>9, QuietStep DEF vars
<1> QED BY <1>1, <1>2, <1>3, <1>4, <1>5, <1>6, <1>7, <1>8, <1>9 DEF Next, ThreadStep

\* However often the process is started again and whatever fails, every event below a
\* committed offset was sent, had a failed send logged, or needed none.
THEOREM CommitsForgetNothing == Spec => []CommittedIsHandled
<1>1. IInv /\ [Next]_vars => IInv'
  BY InductiveStep
<1>2. IInv => CommittedIsHandled
  BY DEF IInv
<1> QED BY Initially, <1>1, <1>2, PTL DEF Spec
=============================================================================
