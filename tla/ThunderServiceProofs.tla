------------------------- MODULE ThunderServiceProofs -------------------------
(***************************************************************************)
(* Proofs about PostStore and ThunderService, for every value of their     *)
(* constants.  First the store: there readers are left open, as an         *)
(* invariant of what the writers do holds whoever reads.  Then the service *)
(* over it: the permits, the deleted posts and the newest posts.           *)
(***************************************************************************)
EXTENDS ThunderService, TLAPS, FiniteSetTheorems, FunctionTheorems

-----------------------------------------------------------------------------
(* The store: the inductive invariant *)

\* A reference carries the second its post was created in or, for a tombstone,
\* a later one.
Ref == {r \in Tiny : Light[r.id].created <= r.at}
Delivery == {e \in Event : Light[e.id].created <= e.at}

Creates == {"check", "store", "refer", "video", "push"}
Deletes == {"remove", "flag", "bury"}
\* A thread works on a post only while its batch has one.
ThreadState ==
    {st \in [pc : {"poll"} \cup Creates \cup Deletes, creates : Seq(Ref), deletes : Seq(Ref)] :
        /\ st.pc \in Creates => st.creates # <<>>
        /\ st.pc \in Deletes => st.deletes # <<>>}
MaintState == [pc : {"idle", "sort", "trim", "pop", "drop", "unflag", "sweep"}, kind : Kinds,
               todo : SUBSET (AllUsers \cup PostIds), user : AllUsers,
               id : PostIds \cup {NoPost}, at : Nat]

StoreTypeOK ==
    /\ posts \subseteq PostIds /\ deleted \subseteq PostIds /\ early \subseteq PostIds
    /\ refs \in [Kinds -> [AllUsers -> Seq(Ref)]]

WorkTypeOK ==
    /\ now \in Nat
    /\ topic \in [Threads -> Seq(Delivery)]
    /\ thr \in [Threads -> ThreadState]
    /\ phase \in {"loading", "finalizing", "serving"}
    /\ maint \in MaintState /\ maint.at <= now
    /\ phase = "loading" => maint.pc = "idle"
    /\ maint.pc \in {"drop", "unflag"} => maint.id \in PostIds

TypeOK == StoreTypeOK /\ WorkTypeOK

\* What the properties except: such a post may come back or be referred to twice.
Excused(p) == p \in deleted \cup early \/ TooOld(p) \/ BeingFlagged(p)

\* What the trimmer has taken out of a timeline is excused.
TrimmedExcused ==
    maint.pc \in {"drop", "unflag"} => TooOld(maint.id) \/ maint.id \in early

Unique(q, p) == \A i, j \in DOMAIN q : q[i].id = p /\ q[j].id = p => i = j
Placing(t, p) == thr[t].pc \in {"refer", "video", "push"} /\ Creating(t).id = p
NoRefs(k, p) == \A u \in Users : ~Refers(refs[k][u], p)

\* A post that is not excused is placed once: by one thread, which has not
\* referred to it yet where it is about to, and not at all when it is not stored.
PlacedOnce(p) ==
    /\ p \notin posts => /\ \A k \in Kinds : NoRefs(k, p)
                         /\ \A t \in Threads : ~Placing(t, p)
    /\ \A t, s \in Threads : Placing(t, p) /\ Placing(s, p) => t = s
    /\ \A t \in Threads : /\ At(t, "refer") /\ Placing(t, p) => \A k \in Kinds : NoRefs(k, p)
                          /\ Placing(t, p) => NoRefs("video", p)
    /\ \A k \in Kinds, u \in Users : Unique(refs[k][u], p)

EachPlacedOnce == \A p \in PostIds : Excused(p) \/ PlacedOnce(p)

IInv == TypeOK /\ PostsReferenced /\ FlagsBuried /\ TrimmedExcused /\ EachPlacedOnce

-----------------------------------------------------------------------------
(* What the model's operators do to sequences *)

\* What is taken out of a sequence is a sequence of its entries.
LEMMA ArrangeType ==
    ASSUME NEW S, NEW q \in Seq(S), NEW places \in SUBSET DOMAIN q, NEW f \in Orders(places)
    PROVE  Arrange(q, f) \in Seq(S)
<1>1. IsFiniteSet(places)
  BY FS_Interval, FS_Subset
<1>2. Cardinality(places) \in Nat
  BY <1>1, FS_CardinalityType
<1>3. DOMAIN f = 1 .. Cardinality(places) /\ \A i \in DOMAIN f : f[i] \in DOMAIN q
  BY DEF Orders
<1>4. \A i \in DOMAIN f : q[f[i]] \in S
  BY <1>3
<1> QED BY <1>2, <1>3, <1>4 DEF Arrange

\* An order of all places of a sequence takes each of them.
LEMMA OrderCovers ==
    ASSUME NEW S, NEW q \in Seq(S), NEW f \in Orders(DOMAIN q)
    PROVE  /\ DOMAIN f = DOMAIN q
           /\ \A i \in DOMAIN q : f[i] \in DOMAIN q
           /\ \A k \in DOMAIN q : \E i \in DOMAIN q : f[i] = k
           /\ \A i, j \in DOMAIN q : f[i] = f[j] => i = j
<1> DEFINE n == Len(q)
<1>1. n \in Nat /\ DOMAIN q = 1 .. n
  OBVIOUS
<1>2. IsFiniteSet(1 .. n) /\ Cardinality(1 .. n) = n
  BY <1>1, FS_Interval
<1>3. /\ f \in [1 .. n -> 1 .. n]
      /\ \A i, j \in 1 .. n : f[i] = f[j] => i = j
  BY <1>1, <1>2 DEF Orders
<1>4. f \in Injection(1 .. n, 1 .. n)
  BY <1>3 DEF Injection, IsInjective
<1>5. f \in Surjection(1 .. n, 1 .. n)
  BY <1>2, <1>4, FS_Injection
<1> QED BY <1>1, <1>3, <1>5 DEF Surjection

\* Sorting keeps the references, and how often each post is referred to.
LEMMA SortingKeeps ==
    ASSUME NEW q \in Seq(Ref), NEW s \in Sortings(q, DOMAIN q)
    PROVE  /\ s \in Seq(Ref)
           /\ \A p : Refers(s, p) <=> Refers(q, p)
           /\ \A p : Unique(q, p) => Unique(s, p)
<1>1. PICK f \in Orders(DOMAIN q) : s = Arrange(q, f)
  BY DEF Sortings
<1>2. s \in Seq(Ref)
  BY <1>1, ArrangeType
<1>3. /\ DOMAIN s = DOMAIN q
      /\ \A i \in DOMAIN q : f[i] \in DOMAIN q /\ s[i] = q[f[i]]
      /\ \A k \in DOMAIN q : \E i \in DOMAIN q : f[i] = k
      /\ \A i, j \in DOMAIN q : f[i] = f[j] => i = j
  BY <1>1, OrderCovers DEF Arrange
<1>4. ASSUME NEW p, Refers(s, p) PROVE Refers(q, p)
  <2>1. PICK i \in DOMAIN q : s[i].id = p
    BY <1>3, <1>4 DEF Refers
  <2>2. f[i] \in DOMAIN q /\ q[f[i]].id = p
    BY <1>3, <2>1
  <2> QED BY <2>2 DEF Refers
<1>5. ASSUME NEW p, Refers(q, p) PROVE Refers(s, p)
  <2>1. PICK k \in DOMAIN q : q[k].id = p
    BY <1>5 DEF Refers
  <2>2. PICK i \in DOMAIN q : f[i] = k
    BY <1>3
  <2> QED BY <1>3, <2>1, <2>2 DEF Refers
<1>6. ASSUME NEW p, Unique(q, p) PROVE Unique(s, p)
  <2> SUFFICES ASSUME NEW i \in DOMAIN q, NEW j \in DOMAIN q, s[i].id = p, s[j].id = p
               PROVE  i = j
    BY <1>3 DEF Unique
  <2>1. f[i] \in DOMAIN q /\ f[j] \in DOMAIN q /\ q[f[i]].id = p /\ q[f[j]].id = p
    BY <1>3
  <2>2. f[i] = f[j]
    BY <1>6, <2>1 DEF Unique
  <2> QED BY <1>3, <2>2
<1> QED BY <1>2, <1>4, <1>5, <1>6

\* A push adds one reference.
LEMMA PushKeeps ==
    ASSUME NEW q \in Seq(Ref), NEW r \in Ref
    PROVE  /\ Append(q, r) \in Seq(Ref)
           /\ \A p : Refers(Append(q, r), p) <=> Refers(q, p) \/ p = r.id
           /\ \A p : Unique(q, p) /\ (p = r.id => ~Refers(q, p)) => Unique(Append(q, r), p)
<1>1. /\ DOMAIN Append(q, r) = DOMAIN q \cup {Len(q) + 1}
      /\ \A i \in DOMAIN q : Append(q, r)[i] = q[i]
      /\ Append(q, r)[Len(q) + 1] = r
  OBVIOUS
<1>2. Append(q, r) \in Seq(Ref)
  OBVIOUS
<1>3. \A p : Refers(Append(q, r), p) <=> Refers(q, p) \/ p = r.id
  BY <1>1 DEF Refers
<1>4. \A p : Unique(q, p) /\ (p = r.id => ~Refers(q, p)) => Unique(Append(q, r), p)
  BY <1>1 DEF Refers, Unique
<1> QED BY <1>2, <1>3, <1>4

\* A pop takes the front reference away.
LEMMA PopKeeps ==
    ASSUME NEW q \in Seq(Ref), q # <<>>
    PROVE  /\ Tail(q) \in Seq(Ref) /\ Head(q) \in Ref
           /\ \A p : Refers(Tail(q), p) => Refers(q, p)
           /\ \A p : Refers(q, p) => Refers(Tail(q), p) \/ p = Head(q).id
           /\ \A p : Unique(q, p) => Unique(Tail(q), p)
<1>1. /\ \A i \in DOMAIN Tail(q) : i + 1 \in DOMAIN q /\ Tail(q)[i] = q[i + 1]
      /\ \A i \in DOMAIN q : i = 1 \/ (i - 1 \in DOMAIN Tail(q) /\ q[i] = Tail(q)[i - 1])
      /\ Head(q) = q[1] /\ 1 \in DOMAIN q
  OBVIOUS
<1>2. Tail(q) \in Seq(Ref) /\ Head(q) \in Ref
  OBVIOUS
<1>3. \A p : Refers(Tail(q), p) => Refers(q, p)
  BY <1>1 DEF Refers
<1>4. \A p : Refers(q, p) => Refers(Tail(q), p) \/ p = Head(q).id
  BY <1>1 DEF Refers
<1>5. ASSUME NEW p, Unique(q, p) PROVE Unique(Tail(q), p)
  <2> SUFFICES ASSUME NEW i \in DOMAIN Tail(q), NEW j \in DOMAIN Tail(q),
                      Tail(q)[i].id = p, Tail(q)[j].id = p
               PROVE  i = j
    BY DEF Unique
  <2>1. i + 1 = j + 1
    BY <1>1, <1>5 DEF Unique
  <2> QED BY <2>1
<1> QED BY <1>2, <1>3, <1>4, <1>5

-----------------------------------------------------------------------------
(* Types *)

\* What the assumptions say of the constants.
LEMMA PostTypes ==
    ASSUME NEW p \in PostIds
    PROVE  /\ Light[p].created \in Nat /\ Light[p].author \in Users
           /\ Light[p].author \in AllUsers /\ Light[p].author # DeleteKey
           /\ PrimaryKind(p) \in Kinds /\ PrimaryKind(p) # "video"
BY LightAssumption, IdsAssumption, TimesAssumption
   DEF LightPost, Times, AllUsers, PrimaryKind, Kinds

LEMMA RefTypes ==
    ASSUME NEW r \in Ref
    PROVE  r.id \in PostIds /\ r.at \in Nat /\ Light[r.id].created <= r.at
BY TimesAssumption DEF Ref, Tiny, Times

LEMMA FeedType == Feed \in [Threads -> Seq(Delivery)]
<1>1. ASSUME NEW t \in Threads, NEW i \in 1 .. Len(Feed[t])
      PROVE  Feed[t][i] \in Delivery
  <2> DEFINE e == Feed[t][i]
  <2>1. Feed[t] \in Seq(Event)
    BY FeedAssumption
  <2>2. e \in Event
    BY <2>1
  <2>3. Light[e.id].created \in Nat /\ e.at \in Nat
    BY <2>2, PostTypes, TimesAssumption DEF Event, Times
  <2>4. IF e.delete THEN e.at >= Light[e.id].created ELSE e.at = Light[e.id].created
    BY FeedAssumption
  <2>5. Light[e.id].created <= e.at
    BY <2>3, <2>4
  <2> QED BY <2>2, <2>5 DEF Delivery
<1>2. \A t \in Threads : Feed[t] \in Seq(Delivery)
  <2> TAKE t \in Threads
  <2>1. Feed[t] \in Seq(Event)
    BY FeedAssumption
  <2> QED BY <1>1, <2>1
<1> QED BY <1>2, FeedAssumption

\* Between two posts of its batch a thread has referred to nothing.
LEMMA ResumeType ==
    ASSUME NEW c \in Seq(Ref), NEW d \in Seq(Ref)
    PROVE  Resume(c, d) \in ThreadState /\ Resume(c, d).pc \in {"check", "remove", "poll"}
BY DEF Resume, ThreadState, Creates, Deletes

\* What the thread works on, and where it goes on.
LEMMA CreatingType ==
    ASSUME TypeOK, NEW t \in Threads, thr[t].pc \in Creates
    PROVE  /\ Creating(t) \in Ref
           /\ Resume(Tail(thr[t].creates), thr[t].deletes) \in ThreadState
           /\ Resume(Tail(thr[t].creates), thr[t].deletes).pc \in {"check", "remove", "poll"}
           /\ \A pc \in Creates : [thr[t] EXCEPT !.pc = pc] \in ThreadState
<1>1. thr[t] \in ThreadState
  BY DEF TypeOK, WorkTypeOK
<1>2. thr[t].creates \in Seq(Ref) /\ thr[t].deletes \in Seq(Ref) /\ thr[t].creates # <<>>
  BY <1>1 DEF ThreadState
<1>3. Tail(thr[t].creates) \in Seq(Ref) /\ Creating(t) \in Ref
  BY <1>2 DEF Creating
<1>4. \A pc \in Creates : [thr[t] EXCEPT !.pc = pc] \in ThreadState
  BY <1>1, <1>2 DEF ThreadState, Creates, Deletes
<1> QED BY <1>2, <1>3, <1>4, ResumeType

LEMMA DeletingType ==
    ASSUME TypeOK, NEW t \in Threads, thr[t].pc \in Deletes
    PROVE  /\ Deleting(t) \in Ref
           /\ Resume(thr[t].creates, Tail(thr[t].deletes)) \in ThreadState
           /\ Resume(thr[t].creates, Tail(thr[t].deletes)).pc \in {"check", "remove", "poll"}
           /\ \A pc \in Deletes : [thr[t] EXCEPT !.pc = pc] \in ThreadState
<1>1. thr[t] \in ThreadState
  BY DEF TypeOK, WorkTypeOK
<1>2. thr[t].creates \in Seq(Ref) /\ thr[t].deletes \in Seq(Ref) /\ thr[t].deletes # <<>>
  BY <1>1 DEF ThreadState
<1>3. Tail(thr[t].deletes) \in Seq(Ref) /\ Deleting(t) \in Ref
  BY <1>2 DEF Deleting
<1>4. \A pc \in Deletes : [thr[t] EXCEPT !.pc = pc] \in ThreadState
  BY <1>1, <1>2 DEF ThreadState, Creates, Deletes
<1> QED BY <1>2, <1>3, <1>4, ResumeType

\* A batch a thread takes is a batch of references.
LEMMA BatchType ==
    ASSUME NEW q \in Seq(Delivery), NEW n \in 1 .. Len(q), NEW places \in SUBSET (1 .. n)
    PROVE  LET tiny == Tinies(SubSeq(q, 1, n))
           IN  /\ SubSeq(q, n + 1, Len(q)) \in Seq(Delivery)
               /\ Sortings(tiny, places) \subseteq Seq(Ref)
               /\ InOrder(tiny, places) \subseteq Seq(Ref)
<1> DEFINE b == SubSeq(q, 1, n)
           tiny == Tinies(b)
<1>1. b \in Seq(Delivery) /\ Len(b) = n /\ SubSeq(q, n + 1, Len(q)) \in Seq(Delivery)
  OBVIOUS
<1>2. \A i \in DOMAIN b : [id |-> b[i].id, at |-> b[i].at] \in Ref
  <2> SUFFICES ASSUME NEW i \in DOMAIN b PROVE [id |-> b[i].id, at |-> b[i].at] \in Ref
    OBVIOUS
  <2>1. b[i] \in Delivery
    BY <1>1
  <2> QED BY <2>1 DEF Delivery, Event, Ref, Tiny
<1>3. tiny \in Seq(Ref) /\ DOMAIN tiny = 1 .. n
  <2>1. DOMAIN b = 1 .. n /\ n \in Nat
    BY <1>1
  <2>2. tiny = [i \in 1 .. n |-> [id |-> b[i].id, at |-> b[i].at]]
    BY <2>1 DEF Tinies
  <2>3. tiny \in [1 .. n -> Ref]
    BY <1>2, <2>1, <2>2
  <2> QED BY <2>1, <2>3
<1> HIDE DEF tiny
<1>4. Sortings(tiny, places) \subseteq Seq(Ref)
  BY <1>3, ArrangeType DEF Sortings
<1>5. InOrder(tiny, places) \subseteq Seq(Ref)
  BY <1>3, ArrangeType DEF InOrder
<1> QED BY <1>1, <1>4, <1>5 DEF tiny

\* One thread moves: the others stay where they are.
LEMMA ThreadMoves ==
    ASSUME TypeOK, NEW t \in Threads, NEW st \in ThreadState, thr' = [thr EXCEPT ![t] = st]
    PROVE  thr' \in [Threads -> ThreadState] /\ thr'[t] = st
           /\ \A s \in Threads \ {t} : thr'[s] = thr[s]
BY DEF TypeOK, WorkTypeOK

\* A push to one timeline.
LEMMA PushMoves ==
    ASSUME TypeOK, NEW k \in Kinds, NEW u \in AllUsers, NEW r \in Ref,
           refs' = [refs EXCEPT ![k][u] = Append(@, r)]
    PROVE  /\ refs' \in [Kinds -> [AllUsers -> Seq(Ref)]]
           /\ refs'[k][u] = Append(refs[k][u], r)
           /\ \A l \in Kinds, v \in AllUsers : l # k \/ v # u => refs'[l][v] = refs[l][v]
           /\ refs[k][u] \in Seq(Ref)
<1>1. refs \in [Kinds -> [AllUsers -> Seq(Ref)]] /\ refs[k][u] \in Seq(Ref)
  BY DEF TypeOK, StoreTypeOK
<1>2. Append(refs[k][u], r) \in Seq(Ref)
  BY <1>1
<1> QED BY <1>1, <1>2

\* Another sequence of references in the place of one timeline.
LEMMA TimelineReplaced ==
    ASSUME TypeOK, NEW k \in Kinds, NEW u \in AllUsers, NEW q \in Seq(Ref),
           refs' = [refs EXCEPT ![k][u] = q]
    PROVE  /\ refs' \in [Kinds -> [AllUsers -> Seq(Ref)]]
           /\ refs'[k][u] = q
           /\ \A l \in Kinds, v \in AllUsers : l # k \/ v # u => refs'[l][v] = refs[l][v]
BY DEF TypeOK, StoreTypeOK

LEMMA DeleteKeyIsUser == DeleteKey \in AllUsers /\ "original" \in Kinds /\ "video" \in Kinds
BY DEF AllUsers, Kinds

\* Every step of a listener thread keeps the types.
LEMMA ListenType ==
    ASSUME TypeOK, NEW t \in Threads, Listen(t)
    PROVE  TypeOK'
<1>1. CASE TakeBatch(t)
  <2>1. PICK n \in 1 .. Len(topic[t]) :
           LET tiny == Tinies(SubSeq(topic[t], 1, n))
           IN  /\ topic' = [topic EXCEPT ![t] = SubSeq(@, n + 1, Len(@))]
               /\ \E creates \in Sortings(tiny, {i \in 1 .. n : ~SubSeq(topic[t], 1, n)[i].delete
                                                                 /\ Retained(tiny[i])}),
                     deletes \in InOrder(tiny, {i \in 1 .. n : SubSeq(topic[t], 1, n)[i].delete}) :
                        thr' = [thr EXCEPT ![t] = Resume(creates, deletes)]
    BY <1>1 DEF TakeBatch
  <2>2. topic[t] \in Seq(Delivery)
    BY DEF TypeOK, WorkTypeOK
  <2>3. PICK c \in Seq(Ref), d \in Seq(Ref) : thr' = [thr EXCEPT ![t] = Resume(c, d)]
    BY <2>1, <2>2, BatchType
  <2>4. thr' \in [Threads -> ThreadState]
    BY <2>3, ResumeType, ThreadMoves
  <2>5. topic' \in [Threads -> Seq(Delivery)]
    BY <2>1, <2>2, BatchType DEF TypeOK, WorkTypeOK
  <2> QED BY <1>1, <2>4, <2>5 DEF TakeBatch, TypeOK, StoreTypeOK, WorkTypeOK, store
<1>2. CASE CheckDeleted(t)
  <2>1. thr' \in [Threads -> ThreadState]
    BY <1>2, CreatingType, ThreadMoves DEF CheckDeleted, At, NextCreate, Goto, Creates
  <2> QED BY <1>2, <2>1 DEF CheckDeleted, TypeOK, StoreTypeOK, WorkTypeOK, store
<1>3. CASE StorePost(t)
  <2>1. thr' \in [Threads -> ThreadState]
    BY <1>3, CreatingType, ThreadMoves DEF StorePost, At, NextCreate, Goto, Creates
  <2>2. Creating(t).id \in PostIds
    BY <1>3, CreatingType, RefTypes DEF StorePost, At, Creates
  <2> QED BY <1>3, <2>1, <2>2 DEF StorePost, TypeOK, StoreTypeOK, WorkTypeOK
<1>4. CASE ReferPost(t)
  <2>1. thr' \in [Threads -> ThreadState]
    BY <1>4, CreatingType, ThreadMoves DEF ReferPost, At, Goto, Creates
  <2>2. Creating(t) \in Ref
    BY <1>4, CreatingType DEF ReferPost, At, Creates
  <2>3. refs' \in [Kinds -> [AllUsers -> Seq(Ref)]]
    BY <1>4, <2>2, RefTypes, PostTypes, PushMoves DEF ReferPost, Push
  <2> QED BY <1>4, <2>1, <2>3 DEF ReferPost, TypeOK, StoreTypeOK, WorkTypeOK
<1>5. CASE DecideVideo(t)
  <2>1. thr' \in [Threads -> ThreadState]
    BY <1>5, CreatingType, ThreadMoves DEF DecideVideo, At, NextCreate, Goto, Creates
  <2> QED BY <1>5, <2>1 DEF DecideVideo, TypeOK, StoreTypeOK, WorkTypeOK, store
<1>6. CASE PushVideo(t)
  <2>1. thr' \in [Threads -> ThreadState]
    BY <1>6, CreatingType, ThreadMoves DEF PushVideo, At, NextCreate, Creates
  <2>2. Creating(t) \in Ref
    BY <1>6, CreatingType DEF PushVideo, At, Creates
  <2>3. refs' \in [Kinds -> [AllUsers -> Seq(Ref)]]
    BY <1>6, <2>2, RefTypes, PostTypes, PushMoves, DeleteKeyIsUser DEF PushVideo, Push
  <2> QED BY <1>6, <2>1, <2>3 DEF PushVideo, TypeOK, StoreTypeOK, WorkTypeOK
<1>7. CASE RemovePost(t)
  <2>1. thr' \in [Threads -> ThreadState]
    BY <1>7, DeletingType, ThreadMoves DEF RemovePost, At, Goto, Deletes
  <2> QED BY <1>7, <2>1 DEF RemovePost, TypeOK, StoreTypeOK, WorkTypeOK
<1>8. CASE FlagDeleted(t)
  <2>1. thr' \in [Threads -> ThreadState]
    BY <1>8, DeletingType, ThreadMoves DEF FlagDeleted, At, Goto, Deletes
  <2>2. Deleting(t).id \in PostIds
    BY <1>8, DeletingType, RefTypes DEF FlagDeleted, At, Deletes
  <2> QED BY <1>8, <2>1, <2>2 DEF FlagDeleted, TypeOK, StoreTypeOK, WorkTypeOK
<1>9. CASE BuryPost(t)
  <2>1. thr' \in [Threads -> ThreadState]
    BY <1>9, DeletingType, ThreadMoves DEF BuryPost, At, NextDelete, Deletes
  <2>2. Deleting(t) \in Ref
    BY <1>9, DeletingType DEF BuryPost, At, Deletes
  <2>3. refs' \in [Kinds -> [AllUsers -> Seq(Ref)]]
    BY <1>9, <2>2, PushMoves, DeleteKeyIsUser DEF BuryPost, Push
  <2> QED BY <1>9, <2>1, <2>3 DEF BuryPost, TypeOK, StoreTypeOK, WorkTypeOK
<1> QED BY <1>1, <1>2, <1>3, <1>4, <1>5, <1>6, <1>7, <1>8, <1>9 DEF Listen

\* What a walk is at and what it turns to next.
LEMMA WalkTypes ==
    ASSUME TypeOK
    PROVE  /\ \A pc \in {"sort", "trim"}, kind \in Kinds :
                 [pc |-> pc, kind |-> kind, todo |-> AllUsers, user |-> DeleteKey, id |-> NoPost,
                  at |-> now] \in MaintState
           /\ NoMaint \in MaintState /\ NoMaint.at <= now
           /\ [NoMaint EXCEPT !.pc = "sweep", !.todo = PostIds] \in MaintState
           /\ maint.kind \in Kinds /\ Following(maint.kind) \in Kinds
           /\ maint.user \in AllUsers /\ maint.at \in Nat /\ maint.at <= now /\ now \in Nat
<1>1. maint \in MaintState /\ maint.at <= now /\ now \in Nat
  BY DEF TypeOK, WorkTypeOK
<1>2. maint.kind \in Kinds /\ maint.user \in AllUsers /\ maint.at \in Nat
  BY <1>1 DEF MaintState
<1>3. Following(maint.kind) \in Kinds
  BY DEF Following, Kinds
<1>4. ASSUME NEW pc \in {"sort", "trim"}, NEW kind \in Kinds
      PROVE  [pc |-> pc, kind |-> kind, todo |-> AllUsers, user |-> DeleteKey, id |-> NoPost,
              at |-> now] \in MaintState
  BY <1>1, <1>4, DeleteKeyIsUser DEF MaintState
<1>5. NoMaint \in MaintState /\ NoMaint.at <= now
  BY <1>1, DeleteKeyIsUser DEF NoMaint, MaintState
<1>6. [NoMaint EXCEPT !.pc = "sweep", !.todo = PostIds] \in MaintState
  BY DeleteKeyIsUser DEF NoMaint, MaintState
<1> QED BY <1>1, <1>2, <1>3, <1>4, <1>5, <1>6

\* Every step of finalize_init and of the trim keeps the types.
LEMMA MaintainType ==
    ASSUME TypeOK, Maintain
    PROVE  TypeOK'
<1> USE DEF TypeOK, StoreTypeOK, WorkTypeOK, store
<1>1. CASE FinalizeInit
  BY <1>1, WalkTypes, DeleteKeyIsUser DEF FinalizeInit, StartWalk
<1>2. ASSUME NEW u \in AllUsers, SortUser(u) PROVE TypeOK'
  <2>1. maint.kind \in Kinds /\ refs[maint.kind][u] \in Seq(Ref)
    BY WalkTypes
  <2>2. PICK sorted \in Sortings(refs[maint.kind][u], DOMAIN refs[maint.kind][u]) :
           refs' = [refs EXCEPT ![maint.kind][u] = sorted]
    BY <1>2 DEF SortUser
  <2>3. refs' \in [Kinds -> [AllUsers -> Seq(Ref)]]
    BY <2>1, <2>2, SortingKeeps, TimelineReplaced
  <2>4. maint' = [maint EXCEPT !.todo = @ \ {u}] /\ maint.pc = "sort"
    BY <1>2 DEF SortUser
  <2>5. maint' \in MaintState /\ maint'.at = maint.at /\ maint'.pc = "sort"
    BY <2>4 DEF MaintState
  <2> QED BY <1>2, <2>3, <2>5 DEF SortUser
<1>3. CASE SortNext
  BY <1>3, WalkTypes, DeleteKeyIsUser DEF SortNext, StartWalk
<1>4. CASE AutoTrim
  BY <1>4, WalkTypes, DeleteKeyIsUser DEF AutoTrim, StartWalk
<1>5. ASSUME NEW u \in AllUsers, TrimUser(u) PROVE TypeOK'
  BY <1>5 DEF TrimUser, MaintState
<1>6. CASE PopOld
  <2>1. refs[maint.kind][maint.user] \in Seq(Ref) /\ refs[maint.kind][maint.user] # <<>>
    BY <1>6, WalkTypes DEF PopOld, OldFront
  <2>2. Front \in Ref /\ Tail(refs[maint.kind][maint.user]) \in Seq(Ref)
    BY <2>1, PopKeeps DEF Front
  <2>3. refs' \in [Kinds -> [AllUsers -> Seq(Ref)]]
    BY <1>6, <2>2, WalkTypes, TimelineReplaced DEF PopOld
  <2>4. maint' \in MaintState /\ maint'.at = maint.at /\ maint'.id \in PostIds
    BY <1>6, <2>2, RefTypes DEF PopOld, MaintState
  <2>5. early' \subseteq PostIds
    BY <1>6, <2>2, RefTypes DEF PopOld
  <2> QED BY <1>6, <2>3, <2>4, <2>5 DEF PopOld
<1>7. CASE DropPost
  BY <1>7 DEF DropPost, MaintState
<1>8. CASE Unflag
  BY <1>8 DEF Unflag, MaintState
<1>9. CASE LeaveUser
  BY <1>9, DeleteKeyIsUser DEF LeaveUser, MaintState
<1>10. CASE TrimNext
  <2>1. CASE maint.kind # "video"
    <3>1. maint' = [maint EXCEPT !.kind = Following(@), !.todo = AllUsers] /\ maint.pc = "trim"
      BY <1>10, <2>1 DEF TrimNext
    <3>2. maint' \in MaintState /\ maint'.at = maint.at /\ maint'.pc = "trim"
      BY <3>1, WalkTypes DEF MaintState
    <3> QED BY <1>10, <3>2 DEF TrimNext
  <2>2. CASE maint.kind = "video"
    <3>1. maint' = NoMaint \/ maint' = [NoMaint EXCEPT !.pc = "sweep", !.todo = PostIds]
      BY <1>10, <2>2 DEF TrimNext
    <3>2. maint' \in MaintState
      BY <3>1, WalkTypes
    <3>3. maint'.at = 0 /\ maint'.pc \in {"idle", "sweep"}
      <4>1. CASE maint' = NoMaint
        BY <4>1 DEF NoMaint
      <4>2. CASE maint' = [NoMaint EXCEPT !.pc = "sweep", !.todo = PostIds]
        BY <4>2 DEF NoMaint
      <4> QED BY <3>1, <4>1, <4>2
    <3> QED BY <1>10, <3>2, <3>3, WalkTypes DEF TrimNext
  <2> QED BY <2>1, <2>2
<1>11. ASSUME NEW p \in PostIds, SweepFlag(p) PROVE TypeOK'
  BY <1>11 DEF SweepFlag, MaintState
<1>12. CASE FinalizeEnds
  BY <1>12, WalkTypes DEF FinalizeEnds, NoMaint
<1> QED BY <1>1, <1>2, <1>3, <1>4, <1>5, <1>6, <1>7, <1>8, <1>9, <1>10, <1>11, <1>12 DEF Maintain

LEMMA TypeInit == Init => TypeOK
<1> SUFFICES ASSUME Init PROVE TypeOK
  OBVIOUS
<1>1. StoreTypeOK
  BY DEF Init, StoreTypeOK, AllUsers
<1>2. topic \in [Threads -> Seq(Delivery)]
  BY FeedType DEF Init
<1>3. thr \in [Threads -> ThreadState]
  BY DEF Init, ThreadState, Creates, Deletes
<1>4. maint \in MaintState /\ maint.at <= now /\ now \in Nat
  BY TimesAssumption, DeleteKeyIsUser DEF Init, NoMaint, MaintState
<1> QED BY <1>1, <1>2, <1>3, <1>4 DEF TypeOK, WorkTypeOK, Init, NoMaint

\* A second passes.
LEMMA TickType == TypeOK /\ Tick => TypeOK'
BY DEF TypeOK, StoreTypeOK, WorkTypeOK, MaintState, Tick, store

\* What readers do leaves all of this alone.
writing == <<now, posts, refs, deleted, topic, thr, phase, maint, early>>
LEMMA TypeUnchanged == TypeOK /\ UNCHANGED writing => TypeOK'
BY DEF TypeOK, StoreTypeOK, WorkTypeOK, writing

LEMMA TypeStep == TypeOK /\ [Next]_vars => TypeOK'
BY ListenType, MaintainType, TickType, TypeUnchanged DEF Next, vars, store, writing

-----------------------------------------------------------------------------
(* How threads move and timelines change *)

\* A thread goes on with the same post ...
LEMMA GotoEffect ==
    ASSUME TypeOK, NEW t \in Threads, NEW pc, Goto(t, pc)
    PROVE  /\ \A s \in Threads \ {t} : thr'[s] = thr[s]
           /\ thr'[t].pc = pc
           /\ thr'[t].creates = thr[t].creates /\ thr'[t].deletes = thr[t].deletes
<1>1. thr[t] \in ThreadState
  BY DEF TypeOK, WorkTypeOK
<1> QED BY <1>1 DEF Goto, TypeOK, WorkTypeOK, ThreadState

\* ... or to the next one, of which it has done nothing.
LEMMA NextEffect ==
    ASSUME TypeOK, NEW t \in Threads,
           \/ thr[t].pc \in Creates /\ NextCreate(t)
           \/ thr[t].pc \in Deletes /\ NextDelete(t)
    PROVE  /\ \A s \in Threads \ {t} : thr'[s] = thr[s]
           /\ thr'[t].pc \in {"check", "remove", "poll"}
BY CreatingType, DeletingType, ThreadMoves DEF NextCreate, NextDelete

LEMMA BatchEffect ==
    ASSUME TypeOK, NEW t \in Threads, TakeBatch(t)
    PROVE  /\ \A s \in Threads \ {t} : thr'[s] = thr[s]
           /\ thr'[t].pc \in {"check", "remove", "poll"}
BY DEF TakeBatch, Resume, TypeOK, WorkTypeOK

\* Only a pop takes a reference away.
Kept == \A k \in Kinds, u \in AllUsers : \A p : Refers(refs[k][u], p) => Refers(refs'[k][u], p)

LEMMA PushKept ==
    ASSUME TypeOK, NEW k \in Kinds, NEW u \in AllUsers, NEW r \in Ref, Push(k, u, r)
    PROVE  Kept /\ Refers(refs'[k][u], r.id)
<1>1. refs' = [refs EXCEPT ![k][u] = Append(@, r)]
  BY DEF Push
<1>2. /\ refs'[k][u] = Append(refs[k][u], r)
      /\ \A l \in Kinds, v \in AllUsers : l # k \/ v # u => refs'[l][v] = refs[l][v]
      /\ refs[k][u] \in Seq(Ref)
  BY <1>1, PushMoves
<1>3. \A p : Refers(refs'[k][u], p) <=> Refers(refs[k][u], p) \/ p = r.id
  BY <1>2, PushKeeps
<1> QED BY <1>2, <1>3 DEF Kept

LEMMA SortKept ==
    ASSUME TypeOK, NEW u \in AllUsers, SortUser(u)
    PROVE  /\ Kept
           /\ \A k \in Kinds, v \in AllUsers : \A p :
                 /\ Refers(refs'[k][v], p) => Refers(refs[k][v], p)
                 /\ Unique(refs[k][v], p) => Unique(refs'[k][v], p)
<1> DEFINE q == refs[maint.kind][u]
<1>1. PICK sorted \in Sortings(q, DOMAIN q) : refs' = [refs EXCEPT ![maint.kind][u] = sorted]
  BY DEF SortUser
<1>2. q \in Seq(Ref) /\ maint.kind \in Kinds
  BY WalkTypes DEF TypeOK, StoreTypeOK
<1>3. /\ sorted \in Seq(Ref)
      /\ \A p : Refers(sorted, p) <=> Refers(q, p)
      /\ \A p : Unique(q, p) => Unique(sorted, p)
  BY <1>2, SortingKeeps
<1>4. /\ refs'[maint.kind][u] = sorted
      /\ \A l \in Kinds, v \in AllUsers : l # maint.kind \/ v # u => refs'[l][v] = refs[l][v]
  BY <1>1, <1>2 DEF TypeOK, StoreTypeOK
<1> QED BY <1>3, <1>4 DEF Kept

LEMMA PopKept ==
    ASSUME TypeOK, PopOld
    PROVE  /\ Front \in Ref /\ Expired(maint.at, Front.at)
           /\ maint'.id = Front.id /\ maint'.pc = "drop" /\ maint'.user = maint.user
           /\ \A k \in Kinds, v \in AllUsers : \A p :
                 /\ Refers(refs'[k][v], p) => Refers(refs[k][v], p)
                 /\ Unique(refs[k][v], p) => Unique(refs'[k][v], p)
                 /\ Refers(refs[k][v], p) =>
                       Refers(refs'[k][v], p) \/ (k = maint.kind /\ v = maint.user /\ p = Front.id)
<1> DEFINE q == refs[maint.kind][maint.user]
<1>1. q \in Seq(Ref) /\ maint.kind \in Kinds /\ maint.user \in AllUsers
  BY WalkTypes DEF TypeOK, StoreTypeOK
<1>2. q # <<>> /\ Expired(maint.at, Front.at)
  BY DEF PopOld, OldFront, Front
<1>3. /\ Tail(q) \in Seq(Ref) /\ Front \in Ref
      /\ \A p : Refers(Tail(q), p) => Refers(q, p)
      /\ \A p : Refers(q, p) => Refers(Tail(q), p) \/ p = Front.id
      /\ \A p : Unique(q, p) => Unique(Tail(q), p)
  BY <1>1, <1>2, PopKeeps DEF Front
<1>4. /\ refs'[maint.kind][maint.user] = Tail(q)
      /\ \A l \in Kinds, v \in AllUsers :
            l # maint.kind \/ v # maint.user => refs'[l][v] = refs[l][v]
  BY <1>1 DEF PopOld, TypeOK, StoreTypeOK
<1>5. maint'.id = Front.id /\ maint'.pc = "drop" /\ maint'.user = maint.user
  BY DEF PopOld, TypeOK, WorkTypeOK, MaintState
<1> QED BY <1>2, <1>3, <1>4, <1>5

LEMMA ListenKept ==
    ASSUME TypeOK, NEW t \in Threads, Listen(t)
    PROVE  Kept /\ UNCHANGED <<now, maint, phase, early>> /\ \A s \in Threads \ {t} : thr'[s] = thr[s]
<1>1. refs' = refs => Kept
  BY DEF Kept
<1>2. Kept
  <2>1. CASE ReferPost(t)
    BY <2>1, CreatingType, RefTypes, PostTypes, PushKept DEF ReferPost, At, Creates
  <2>2. CASE PushVideo(t)
    BY <2>2, CreatingType, RefTypes, PostTypes, PushKept, DeleteKeyIsUser DEF PushVideo, At, Creates
  <2>3. CASE BuryPost(t)
    BY <2>3, DeletingType, PushKept, DeleteKeyIsUser DEF BuryPost, At, Deletes
  <2> QED BY <1>1, <2>1, <2>2, <2>3
          DEF Listen, TakeBatch, CheckDeleted, StorePost, DecideVideo, RemovePost, FlagDeleted, store
<1>3. UNCHANGED <<now, maint, phase, early>>
  BY DEF Listen, TakeBatch, CheckDeleted, StorePost, ReferPost, DecideVideo, PushVideo, RemovePost,
         FlagDeleted, BuryPost
<1>4. \A s \in Threads \ {t} : thr'[s] = thr[s]
  BY GotoEffect, NextEffect, BatchEffect
     DEF Listen, TakeBatch, CheckDeleted, StorePost, ReferPost, DecideVideo, PushVideo, RemovePost,
         FlagDeleted, BuryPost, At, Creates, Deletes
<1> QED BY <1>2, <1>3, <1>4

LEMMA MaintainKept ==
    ASSUME TypeOK, Maintain
    PROVE  /\ PopOld \/ Kept
           /\ UNCHANGED <<now, thr>> /\ posts' \subseteq posts /\ deleted' \subseteq deleted
<1>1. refs' = refs => Kept
  BY DEF Kept
<1>2. PopOld \/ Kept
  BY <1>1, SortKept
     DEF Maintain, FinalizeInit, SortNext, AutoTrim, DropPost, Unflag, LeaveUser, TrimNext,
         FinalizeEnds, TrimUser, SweepFlag, store
<1>3. UNCHANGED <<now, thr>> /\ posts' \subseteq posts /\ deleted' \subseteq deleted
  BY DEF Maintain, FinalizeInit, SortNext, AutoTrim, DropPost, Unflag, LeaveUser, TrimNext,
         FinalizeEnds, TrimUser, SweepFlag, SortUser, PopOld, store
<1> QED BY <1>2, <1>3

-----------------------------------------------------------------------------
(* Nothing leaks *)

Backed(p) ==
    \/ Refers(refs[PrimaryKind(p)][Light[p].author], p)
    \/ \E t \in Threads : At(t, "refer") /\ Creating(t).id = p
    \/ maint.pc = "drop" /\ maint.id = p

\* A stored post stays backed by a reference, or by who is about to make it.
LEMMA ReferencedStep == TypeOK /\ PostsReferenced /\ [Next]_vars => PostsReferenced'
<1> SUFFICES ASSUME TypeOK, PostsReferenced, [Next]_vars, NEW p \in posts'
             PROVE  Backed(p)'
  BY DEF PostsReferenced, Backed
<1>1. p \in PostIds /\ (p \in posts => Backed(p))
  BY TypeStep DEF TypeOK, StoreTypeOK, PostsReferenced, Backed
<1>2. ASSUME NEW t \in Threads, Listen(t) PROVE Backed(p)'
  <2>1. Kept /\ UNCHANGED maint
    BY <1>2, ListenKept
  <2>2. \A s \in Threads \ {t} : thr'[s] = thr[s]
    BY <1>2, ListenKept
  <2>3. CASE p \notin posts
    <3>1. StorePost(t) /\ p = Creating(t).id
      BY <1>2, <2>3
         DEF Listen, TakeBatch, CheckDeleted, StorePost, ReferPost, DecideVideo, PushVideo, RemovePost,
             FlagDeleted, BuryPost, store
    <3>2. Goto(t, "refer")
      BY <2>3, <3>1 DEF StorePost
    <3>3. At(t, "refer")' /\ Creating(t)' = Creating(t)
      BY <3>2, GotoEffect DEF At, Creating
    <3> QED BY <3>1, <3>3 DEF Backed
  <2>4. CASE Refers(refs[PrimaryKind(p)][Light[p].author], p)
    BY <1>1, <2>1, <2>4, PostTypes DEF Kept, Backed, PrimaryKind
  <2>5. CASE maint.pc = "drop" /\ maint.id = p
    BY <2>1, <2>5 DEF Backed
  <2>6. ASSUME NEW s \in Threads, At(s, "refer"), Creating(s).id = p PROVE Backed(p)'
    <3>1. CASE s # t
      BY <2>2, <2>6, <3>1 DEF Backed, At, Creating
    <3>2. CASE s = t
      <4>1. ReferPost(t)
        BY <1>2, <2>6, <3>2
           DEF Listen, TakeBatch, CheckDeleted, StorePost, DecideVideo, PushVideo, RemovePost,
               FlagDeleted, BuryPost, At
      <4>2. Refers(refs'[PrimaryKind(p)][Light[p].author], p)
        <5>1. Creating(t) \in Ref /\ Creating(t).id = p
          BY <2>6, <3>2, CreatingType DEF At, Creates
        <5>2. Push(PrimaryKind(p), Light[p].author, Creating(t))
          BY <4>1, <5>1 DEF ReferPost
        <5> QED BY <1>1, <5>1, <5>2, PostTypes, PushKept
      <4> QED BY <4>2 DEF Backed, PrimaryKind
    <3> QED BY <3>1, <3>2
  <2> QED BY <1>1, <2>3, <2>4, <2>5, <2>6 DEF Backed
<1>3. ASSUME Maintain PROVE Backed(p)'
  <2>1. p \in posts /\ UNCHANGED thr
    BY <1>3, MaintainKept
  <2>2. CASE \E t \in Threads : At(t, "refer") /\ Creating(t).id = p
    BY <2>1, <2>2 DEF Backed, At, Creating
  <2>3. CASE Refers(refs[PrimaryKind(p)][Light[p].author], p)
    <3>1. CASE PopOld
      BY <1>1, <2>3, <3>1, PopKept, PostTypes DEF Backed, PrimaryKind
    <3>2. CASE Kept
      BY <1>1, <2>3, <3>2, PostTypes DEF Backed, PrimaryKind, Kept
    <3> QED BY <1>3, <3>1, <3>2, MaintainKept
  <2>4. ASSUME maint.pc = "drop", maint.id = p PROVE FALSE
    BY <1>3, <2>4
       DEF Maintain, FinalizeInit, SortNext, AutoTrim, DropPost, Unflag, LeaveUser, TrimNext,
           FinalizeEnds, TrimUser, SweepFlag, SortUser, PopOld, store, TypeOK, WorkTypeOK
  <2> QED BY <1>1, <2>1, <2>2, <2>3, <2>4 DEF Backed
<1>4. CASE Tick \/ UNCHANGED vars
  BY <1>1, <1>4 DEF Tick, vars, store, Backed, At, Creating, PrimaryKind
<1> QED BY <1>2, <1>3, <1>4 DEF Next

Buried(p) ==
    \/ Refers(refs["original"][DeleteKey], p)
    \/ \E t \in Threads : At(t, "bury") /\ Deleting(t).id = p
    \/ maint.pc \in {"drop", "unflag"} /\ maint.user = DeleteKey /\ maint.id = p

\* A flag keeps its tombstone until it is taken away.
LEMMA BuriedStep == TypeOK /\ FlagsBuried /\ [Next]_vars => FlagsBuried'
<1> SUFFICES ASSUME TypeOK, FlagsBuried, [Next]_vars, NEW p \in deleted'
             PROVE  Buried(p)'
  BY DEF FlagsBuried, Buried
<1>1. p \in PostIds /\ (p \in deleted => Buried(p))
  BY TypeStep DEF TypeOK, StoreTypeOK, FlagsBuried, Buried
<1>2. ASSUME NEW t \in Threads, Listen(t) PROVE Buried(p)'
  <2>1. Kept /\ UNCHANGED maint
    BY <1>2, ListenKept
  <2>2. \A s \in Threads \ {t} : thr'[s] = thr[s]
    BY <1>2, ListenKept
  <2>3. CASE p \notin deleted
    <3>1. FlagDeleted(t) /\ p = Deleting(t).id
      BY <1>2, <2>3
         DEF Listen, TakeBatch, CheckDeleted, StorePost, ReferPost, DecideVideo, PushVideo, RemovePost,
             FlagDeleted, BuryPost, store
    <3>2. At(t, "bury")' /\ Deleting(t)' = Deleting(t)
      BY <3>1, GotoEffect DEF FlagDeleted, At, Deleting
    <3> QED BY <3>1, <3>2 DEF Buried
  <2>4. CASE Refers(refs["original"][DeleteKey], p)
    BY <2>1, <2>4, DeleteKeyIsUser DEF Kept, Buried
  <2>5. CASE maint.pc \in {"drop", "unflag"} /\ maint.user = DeleteKey /\ maint.id = p
    BY <2>1, <2>5 DEF Buried
  <2>6. ASSUME NEW s \in Threads, At(s, "bury"), Deleting(s).id = p PROVE Buried(p)'
    <3>1. CASE s # t
      BY <2>2, <2>6, <3>1 DEF Buried, At, Deleting
    <3>2. CASE s = t
      <4>1. BuryPost(t)
        BY <1>2, <2>6, <3>2
           DEF Listen, TakeBatch, CheckDeleted, StorePost, ReferPost, DecideVideo, PushVideo, RemovePost,
               FlagDeleted, At
      <4>2. Deleting(t) \in Ref /\ Deleting(t).id = p
        BY <2>6, <3>2, DeletingType DEF At, Deletes
      <4>3. Refers(refs'["original"][DeleteKey], p)
        BY <4>1, <4>2, DeleteKeyIsUser, PushKept DEF BuryPost
      <4> QED BY <4>3 DEF Buried
    <3> QED BY <3>1, <3>2
  <2> QED BY <1>1, <2>3, <2>4, <2>5, <2>6 DEF Buried
<1>3. ASSUME Maintain PROVE Buried(p)'
  <2>1. p \in deleted /\ UNCHANGED thr
    BY <1>3, MaintainKept
  <2>2. CASE \E t \in Threads : At(t, "bury") /\ Deleting(t).id = p
    BY <2>1, <2>2 DEF Buried, At, Deleting
  <2>3. CASE Refers(refs["original"][DeleteKey], p)
    <3>1. CASE PopOld
      BY <2>3, <3>1, PopKept, DeleteKeyIsUser DEF Buried
    <3>2. CASE Kept
      BY <2>3, <3>2, DeleteKeyIsUser DEF Buried, Kept
    <3> QED BY <1>3, <3>1, <3>2, MaintainKept
  <2>4. ASSUME maint.pc \in {"drop", "unflag"}, maint.user = DeleteKey, maint.id = p
        PROVE  Buried(p)'
    <3>1. CASE DropPost
      <4>1. maint' = [maint EXCEPT !.pc = "unflag"]
        BY <2>4, <3>1 DEF DropPost
      <4>2. maint'.pc = "unflag" /\ maint'.user = DeleteKey /\ maint'.id = p
        BY <2>4, <4>1 DEF TypeOK, WorkTypeOK, MaintState
      <4> QED BY <4>2 DEF Buried
    <3>2. CASE Unflag
      BY <2>4, <3>2 DEF Unflag
    <3>3. DropPost \/ Unflag
      BY <1>3, <2>4
         DEF Maintain, FinalizeInit, SortNext, AutoTrim, LeaveUser, TrimNext,
             FinalizeEnds, TrimUser, SweepFlag, SortUser, PopOld, store, TypeOK, WorkTypeOK
    <3> QED BY <3>1, <3>2, <3>3
  <2> QED BY <1>1, <2>1, <2>2, <2>3, <2>4 DEF Buried
<1>4. CASE Tick \/ UNCHANGED vars
  BY <1>1, <1>4 DEF Tick, vars, store, Buried, At, Deleting
<1> QED BY <1>2, <1>3, <1>4 DEF Next

-----------------------------------------------------------------------------
(* What is excused stays excused *)

\* The arithmetic of the trim: what it pops is too old now, unless it was
\* stamped after the trim had read the clock.
LEMMA PoppedExcused ==
    ASSUME TypeOK, NEW r \in Ref, Expired(maint.at, r.at), ~(maint.at < r.at)
    PROVE  TooOld(r.id)
<1>1. maint.at \in Nat /\ now \in Nat /\ maint.at <= now /\ Retention \in Nat
  BY TimesAssumption, WalkTypes
<1>2. r.at \in Nat /\ Light[r.id].created \in Nat /\ Light[r.id].created <= r.at
  BY RefTypes, PostTypes
<1>3. maint.at - r.at > Retention /\ maint.at >= r.at
  BY <1>1, <1>2 DEF Expired
<1> QED BY <1>1, <1>2, <1>3 DEF TooOld

\* Time and history only move on.
LEMMA Onward ==
    ASSUME TypeOK, [Next]_vars
    PROVE  /\ early \subseteq early' /\ \A p \in PostIds : TooOld(p) => TooOld(p)'
<1>1. early \subseteq early'
  BY ListenKept
     DEF Next, Tick, vars, store, Maintain, FinalizeInit, SortNext, AutoTrim, DropPost, Unflag, LeaveUser,
         TrimNext, FinalizeEnds, TrimUser, SweepFlag, SortUser, PopOld
<1>2. now' \in {now, now + 1}
  BY ListenKept, MaintainKept DEF Next, Tick, vars
<1>3. \A p \in PostIds : TooOld(p) => TooOld(p)'
  BY <1>2, PostTypes, TimesAssumption DEF TooOld, TypeOK, WorkTypeOK
<1> QED BY <1>1, <1>3

LEMMA TrimStep == TypeOK /\ TrimmedExcused /\ [Next]_vars => TrimmedExcused'
<1> SUFFICES ASSUME TypeOK, TrimmedExcused, [Next]_vars, maint'.pc \in {"drop", "unflag"}
             PROVE  TooOld(maint.id)' \/ maint'.id \in early'
  BY DEF TrimmedExcused
<1>1. ASSUME PopOld PROVE TooOld(maint.id)' \/ maint'.id \in early'
  <2>1. Front \in Ref /\ Expired(maint.at, Front.at) /\ maint'.id = Front.id /\ now' = now
    BY <1>1, PopKept, MaintainKept DEF Maintain
  <2>2. CASE maint.at < Front.at
    BY <1>1, <2>1, <2>2 DEF PopOld
  <2>3. CASE ~(maint.at < Front.at)
    BY <2>1, <2>3, PoppedExcused DEF TooOld
  <2> QED BY <2>2, <2>3
<1>2. ASSUME maint.pc \in {"drop", "unflag"}, maint'.id = maint.id
      PROVE  TooOld(maint.id)' \/ maint'.id \in early'
  BY <1>2, Onward DEF TrimmedExcused, TypeOK, WorkTypeOK, TooOld
<1>3. PopOld \/ (maint.pc \in {"drop", "unflag"} /\ maint'.id = maint.id)
  <2>1. CASE Maintain
    <3>1. CASE DropPost
      BY <3>1 DEF DropPost, TypeOK, WorkTypeOK, MaintState
    <3>2. CASE Unflag
      BY <3>2 DEF Unflag, TypeOK, WorkTypeOK, MaintState
    <3>3. ASSUME \/ LeaveUser
                 \/ \E u \in AllUsers : SortUser(u) \/ TrimUser(u)
                 \/ \E q \in PostIds : SweepFlag(q)
          PROVE  FALSE
      BY <3>3 DEF LeaveUser, TrimUser, SweepFlag, SortUser, TypeOK, WorkTypeOK, MaintState
    <3>4. ASSUME FinalizeInit \/ SortNext \/ AutoTrim \/ FinalizeEnds PROVE FALSE
      BY <3>4 DEF FinalizeInit, SortNext, AutoTrim, FinalizeEnds, StartWalk, NoMaint
    <3>5. ASSUME TrimNext PROVE FALSE
      <4>1. CASE maint.kind # "video"
        BY <3>5, <4>1 DEF TrimNext, TypeOK, WorkTypeOK, MaintState
      <4>2. CASE maint.kind = "video"
        BY <3>5, <4>2 DEF TrimNext, NoMaint
      <4> QED BY <4>1, <4>2
    <3> QED BY <2>1, <3>1, <3>2, <3>3, <3>4, <3>5, DeleteKeyIsUser DEF Maintain
  <2>2. CASE UNCHANGED maint
    BY <2>2
  <2>3. Maintain \/ UNCHANGED maint
    BY ListenKept DEF Next, Tick, vars
  <2> QED BY <2>1, <2>2, <2>3
<1> QED BY <1>1, <1>2, <1>3

\* A flag that is taken away is the flag of a post that is excused anyway, and
\* an announced flag is set.
LEMMA ExcusedStep ==
    ASSUME TypeOK, TrimmedExcused, [Next]_vars, NEW p \in PostIds, Excused(p)
    PROVE  Excused(p)'
<1>1. CASE TooOld(p) \/ p \in early
  BY <1>1, Onward DEF Excused
<1>2. CASE p \in deleted
  <2>1. ASSUME p \notin deleted' PROVE Unflag /\ p = maint.id
    BY <1>2, <2>1
       DEF Next, Tick, vars, store, Maintain, FinalizeInit, SortNext, AutoTrim, DropPost, Unflag,
           LeaveUser, TrimNext, FinalizeEnds, TrimUser, SweepFlag, SortUser, PopOld,
           Listen, TakeBatch, CheckDeleted, StorePost, ReferPost, DecideVideo, PushVideo, RemovePost,
           FlagDeleted, BuryPost
  <2>2. ASSUME Unflag, p = maint.id PROVE TooOld(p) \/ p \in early
    BY <2>2 DEF Unflag, TrimmedExcused
  <2> QED BY <2>1, <2>2, Onward DEF Excused
<1>3. ASSUME NEW t \in Threads, At(t, "flag"), Deleting(t).id = p PROVE Excused(p)'
  <2>1. ASSUME NEW s \in Threads, Listen(s) PROVE Excused(p)'
    <3>1. CASE s = t
      <4>1. FlagDeleted(t)
        BY <1>3, <2>1, <3>1
           DEF Listen, TakeBatch, CheckDeleted, StorePost, ReferPost, DecideVideo, PushVideo, RemovePost,
               BuryPost, At
      <4> QED BY <1>3, <4>1 DEF FlagDeleted, Excused
    <3>2. CASE s # t
      BY <1>3, <2>1, <3>2, ListenKept DEF Excused, BeingFlagged, At, Deleting
    <3> QED BY <3>1, <3>2
  <2>2. CASE UNCHANGED thr
    BY <1>3, <2>2 DEF Excused, BeingFlagged, At, Deleting
  <2> QED BY <2>1, <2>2, MaintainKept DEF Next, Tick, vars
<1> QED BY <1>1, <1>2, <1>3 DEF Excused, BeingFlagged

-----------------------------------------------------------------------------
(* Posts are placed once *)

LEMMA UsersTimelines == \A u \in Users : u \in AllUsers /\ u # DeleteKey
BY IdsAssumption DEF AllUsers

\* A step that takes away references to p, or threads that place p, does no harm.
LEMMA PlacedLess ==
    ASSUME NEW p, PlacedOnce(p),
           p \in posts => p \in posts',
           \A t \in Threads : /\ Placing(t, p)' => Placing(t, p)
                              /\ Placing(t, p)' /\ At(t, "refer")' => At(t, "refer"),
           \A k \in Kinds, u \in Users : /\ Refers(refs'[k][u], p) => Refers(refs[k][u], p)
                                         /\ Unique(refs[k][u], p) => Unique(refs'[k][u], p)
    PROVE  PlacedOnce(p)'
<1>1. \A k \in Kinds : NoRefs(k, p) => NoRefs(k, p)'
  BY DEF NoRefs
<1>2. p \notin posts' => /\ \A k \in Kinds : NoRefs(k, p)'
                         /\ \A t \in Threads : ~Placing(t, p)'
  BY <1>1 DEF PlacedOnce
<1>3. \A t, s \in Threads : Placing(t, p)' /\ Placing(s, p)' => t = s
  BY DEF PlacedOnce
<1>4. \A t \in Threads : /\ At(t, "refer")' /\ Placing(t, p)' => \A k \in Kinds : NoRefs(k, p)'
                         /\ Placing(t, p)' => NoRefs("video", p)'
  BY <1>1, DeleteKeyIsUser DEF PlacedOnce
<1>5. \A k \in Kinds, u \in Users : Unique(refs'[k][u], p)
  BY DEF PlacedOnce
<1> HIDE DEF NoRefs, Placing, At, Unique
<1> QED BY <1>2, <1>3, <1>4, <1>5 DEF PlacedOnce

\* A push refers to one post, in one timeline.
LEMMA PushOnce ==
    ASSUME TypeOK, NEW k \in Kinds, NEW u \in AllUsers, NEW r \in Ref, Push(k, u, r),
           NEW l \in Kinds, NEW v \in AllUsers, NEW p
    PROVE  /\ Refers(refs'[l][v], p) => Refers(refs[l][v], p) \/ (l = k /\ p = r.id)
           /\ Unique(refs[l][v], p) /\ (l = k /\ p = r.id => ~Refers(refs[l][v], p))
                 => Unique(refs'[l][v], p)
<1>1. refs' = [refs EXCEPT ![k][u] = Append(@, r)]
  BY DEF Push
<1>2. /\ refs'[k][u] = Append(refs[k][u], r)
      /\ \A a \in Kinds, b \in AllUsers : a # k \/ b # u => refs'[a][b] = refs[a][b]
      /\ refs[k][u] \in Seq(Ref)
  BY <1>1, PushMoves
<1>3. /\ \A x : Refers(refs'[k][u], x) <=> Refers(refs[k][u], x) \/ x = r.id
      /\ \A x : Unique(refs[k][u], x) /\ (x = r.id => ~Refers(refs[k][u], x))
                   => Unique(refs'[k][u], x)
  BY <1>2, PushKeeps
<1>4. CASE l = k /\ v = u
  BY <1>3, <1>4
<1>5. CASE l # k \/ v # u
  BY <1>2, <1>5
<1> QED BY <1>4, <1>5

\* The thread that finds a post not yet stored is the one that places it.
LEMMA StorePlaces ==
    ASSUME TypeOK, NEW t \in Threads, StorePost(t), NEW p \in PostIds, PlacedOnce(p)
    PROVE  PlacedOnce(p)'
<1>1. \A s \in Threads \ {t} : thr'[s] = thr[s]
  BY ListenKept DEF Listen
<1>2. refs' = refs /\ posts' = posts \cup {Creating(t).id}
  BY DEF StorePost
<1>3. CASE Creating(t).id \in posts
  <2>1. thr'[t].pc \in {"check", "remove", "poll"}
    BY <1>3, NextEffect DEF StorePost, At, Creates
  <2> QED BY <1>1, <1>2, <2>1, PlacedLess DEF Placing, Creating, At
<1>4. CASE Creating(t).id \notin posts
  <2>1. thr'[t].pc = "refer" /\ Creating(t)' = Creating(t)
    BY <1>4, GotoEffect DEF StorePost, Creating
  <2>2. CASE Creating(t).id # p
    BY <1>1, <1>2, <2>1, <2>2, PlacedLess DEF Placing, Creating, At
  <2>3. CASE Creating(t).id = p
    <3>1. /\ \A k \in Kinds : NoRefs(k, p)
          /\ \A s \in Threads : ~Placing(s, p)
          /\ \A k \in Kinds, u \in Users : Unique(refs[k][u], p)
      BY <1>4, <2>3 DEF PlacedOnce
    <3>2. \A s \in Threads : Placing(s, p)' => s = t
      BY <1>1, <3>1 DEF Placing, Creating
    <3>3. \A k \in Kinds : NoRefs(k, p)'
      BY <1>2, <3>1 DEF NoRefs
    <3>4. p \in posts'
      BY <1>2, <2>3
    <3>5. \A k \in Kinds, u \in Users : Unique(refs'[k][u], p)
      BY <1>2, <3>1
    <3> QED BY <3>2, <3>3, <3>4, <3>5, DeleteKeyIsUser DEF PlacedOnce
  <2> QED BY <2>2, <2>3
<1> QED BY <1>3, <1>4

\* It refers to the post where nobody else has ...
LEMMA ReferPlaces ==
    ASSUME TypeOK, NEW t \in Threads, ReferPost(t), NEW p \in PostIds, PlacedOnce(p)
    PROVE  PlacedOnce(p)'
<1> DEFINE r == Creating(t)
           k == PrimaryKind(r.id)
           u == Light[r.id].author
<1>1. /\ \A s \in Threads \ {t} : thr'[s] = thr[s]
      /\ thr'[t].pc = "video" /\ Creating(t)' = r /\ posts' = posts /\ thr[t].pc = "refer"
  BY GotoEffect DEF ReferPost, Creating, At
<1>2. r \in Ref /\ r.id \in PostIds
  BY <1>1, CreatingType, RefTypes DEF Creates
<1>3. k \in Kinds /\ k # "video" /\ u \in AllUsers /\ Push(k, u, r)
  BY <1>2, PostTypes DEF ReferPost
<1> HIDE DEF r, k, u
<1>4. /\ \A l \in Kinds, v \in Users :
            Refers(refs'[l][v], p) => Refers(refs[l][v], p) \/ (l = k /\ p = r.id)
      /\ \A l \in Kinds, v \in Users :
            Unique(refs[l][v], p) /\ (p = r.id => ~Refers(refs[l][v], p)) => Unique(refs'[l][v], p)
  BY <1>2, <1>3, PushOnce, UsersTimelines
<1>5. CASE r.id # p
  BY <1>1, <1>4, <1>5, PlacedLess DEF Placing, Creating, At, r
<1>6. CASE r.id = p
  <2>1. Placing(t, p) /\ At(t, "refer")
    BY <1>1, <1>6 DEF Placing, At, r
  <2>2. /\ p \in posts /\ \A l \in Kinds : NoRefs(l, p)
        /\ \A s \in Threads : Placing(s, p) => s = t
        /\ \A l \in Kinds, v \in Users : Unique(refs[l][v], p)
    BY <2>1 DEF PlacedOnce
  <2>3. \A l \in Kinds, v \in Users : Unique(refs'[l][v], p)
    BY <1>4, <2>2 DEF NoRefs
  <2>4. NoRefs("video", p)'
    BY <1>3, <1>4, <2>2, DeleteKeyIsUser DEF NoRefs
  <2>5. \A s \in Threads : Placing(s, p)' => s = t /\ ~At(s, "refer")'
    BY <1>1, <2>2 DEF Placing, Creating, At
  <2>6. p \in posts'
    BY <1>1, <2>2
  <2> QED BY <2>3, <2>4, <2>5, <2>6 DEF PlacedOnce
<1> QED BY <1>5, <1>6

\* ... and so it does in the timeline of videos.
LEMMA VideoPlaces ==
    ASSUME TypeOK, NEW t \in Threads, PushVideo(t), NEW p \in PostIds, PlacedOnce(p)
    PROVE  PlacedOnce(p)'
<1> DEFINE r == Creating(t)
           u == Light[r.id].author
<1>1. /\ \A s \in Threads \ {t} : thr'[s] = thr[s]
      /\ thr'[t].pc \in {"check", "remove", "poll"} /\ posts' = posts /\ thr[t].pc = "push"
  BY NextEffect, ListenKept DEF PushVideo, At, Creates, Listen
<1>2. r \in Ref /\ r.id \in PostIds
  BY <1>1, CreatingType, RefTypes DEF Creates
<1>3. u \in AllUsers /\ Push("video", u, r)
  BY <1>2, PostTypes DEF PushVideo
<1> HIDE DEF r, u
<1>4. /\ \A l \in Kinds, v \in Users :
            Refers(refs'[l][v], p) => Refers(refs[l][v], p) \/ (l = "video" /\ p = r.id)
      /\ \A l \in Kinds, v \in Users :
            Unique(refs[l][v], p) /\ (l = "video" /\ p = r.id => ~Refers(refs[l][v], p))
               => Unique(refs'[l][v], p)
  BY <1>2, <1>3, PushOnce, UsersTimelines, DeleteKeyIsUser
<1>5. CASE r.id # p
  BY <1>1, <1>4, <1>5, PlacedLess DEF Placing, Creating, At
<1>6. CASE r.id = p
  <2>1. Placing(t, p)
    BY <1>1, <1>6 DEF Placing, r
  <2>2. /\ p \in posts /\ NoRefs("video", p)
        /\ \A s \in Threads : Placing(s, p) => s = t
        /\ \A l \in Kinds, v \in Users : Unique(refs[l][v], p)
    BY <2>1 DEF PlacedOnce
  <2>3. \A l \in Kinds, v \in Users : Unique(refs'[l][v], p)
    BY <1>4, <2>2 DEF NoRefs
  <2>4. \A s \in Threads : ~Placing(s, p)'
    BY <1>1, <2>2 DEF Placing, Creating
  <2>5. p \in posts'
    BY <1>1, <2>2
  <2> QED BY <2>3, <2>4, <2>5 DEF PlacedOnce
<1> QED BY <1>5, <1>6

LEMMA ListenPlaces ==
    ASSUME TypeOK, NEW t \in Threads, Listen(t), NEW p \in PostIds, PlacedOnce(p), ~Excused(p)'
    PROVE  PlacedOnce(p)'
<1>1. \A s \in Threads \ {t} : thr'[s] = thr[s]
  BY ListenKept
<1>2. ASSUME refs' = refs, posts' = posts, thr'[t].pc \notin {"refer", "video", "push"}
      PROVE  PlacedOnce(p)'
  BY <1>1, <1>2, PlacedLess DEF Placing, Creating, At
<1>3. CASE TakeBatch(t)
  BY <1>2, <1>3, BatchEffect DEF TakeBatch, store
<1>4. CASE CheckDeleted(t)
  BY <1>2, <1>4, NextEffect, GotoEffect DEF CheckDeleted, At, Creates, store
<1>5. CASE DecideVideo(t)
  <2>1. refs' = refs /\ posts' = posts /\ thr[t].pc = "video"
    BY <1>5 DEF DecideVideo, At, store
  <2>2. CASE NextCreate(t)
    BY <1>2, <2>1, <2>2, NextEffect DEF Creates
  <2>3. CASE Goto(t, "push")
    <3>1. thr'[t].pc = "push" /\ Creating(t)' = Creating(t)
      BY <2>3, GotoEffect DEF Creating
    <3> QED BY <1>1, <2>1, <3>1, PlacedLess DEF Placing, Creating, At
  <2> QED BY <1>5, <2>2, <2>3 DEF DecideVideo
<1>6. CASE RemovePost(t)
  <2>1. thr'[t].pc = "flag" /\ Deleting(t)' = Deleting(t)
    BY <1>6, GotoEffect DEF RemovePost, Deleting
  <2>2. p # Deleting(t).id
    BY <2>1 DEF Excused, BeingFlagged, At
  <2> QED BY <1>1, <1>6, <2>1, <2>2, PlacedLess DEF RemovePost, Placing, Creating, At
<1>7. CASE FlagDeleted(t)
  BY <1>2, <1>7, GotoEffect DEF FlagDeleted
<1>8. CASE BuryPost(t)
  <2>1. thr'[t].pc \in {"check", "remove", "poll"} /\ posts' = posts
    BY <1>8, NextEffect DEF BuryPost, At, Deletes
  <2>2. Deleting(t) \in Ref /\ Push("original", DeleteKey, Deleting(t))
    BY <1>8, DeletingType DEF BuryPost, At, Deletes
  <2>3. \A k \in Kinds, u \in Users : refs'[k][u] = refs[k][u]
    BY <2>2, PushMoves, DeleteKeyIsUser, UsersTimelines DEF Push
  <2> QED BY <1>1, <2>1, <2>3, PlacedLess DEF Placing, Creating, At
<1> QED BY <1>3, <1>4, <1>5, <1>6, <1>7, <1>8, StorePlaces, ReferPlaces, VideoPlaces DEF Listen

\* Whatever the trimmer or the sweep removes is excused.
LEMMA MaintainPlaces ==
    ASSUME TypeOK, TrimmedExcused, Maintain, NEW p \in PostIds, PlacedOnce(p), ~Excused(p)
    PROVE  PlacedOnce(p)'
<1>1. thr' = thr
  BY MaintainKept
<1>2. \A k \in Kinds, u \in Users : /\ Refers(refs'[k][u], p) => Refers(refs[k][u], p)
                                    /\ Unique(refs[k][u], p) => Unique(refs'[k][u], p)
  BY SortKept, PopKept, UsersTimelines
     DEF Maintain, FinalizeInit, SortNext, AutoTrim, DropPost, Unflag, LeaveUser, TrimNext,
         FinalizeEnds, TrimUser, SweepFlag, store
<1>3. p \in posts => p \in posts'
  BY DEF Maintain, FinalizeInit, SortNext, AutoTrim, DropPost, Unflag, LeaveUser, TrimNext,
         FinalizeEnds, TrimUser, SweepFlag, SortUser, PopOld, store, TrimmedExcused, Excused
<1> QED BY <1>1, <1>2, <1>3, PlacedLess DEF Placing, Creating, At

LEMMA PlacedStep == TypeOK /\ TrimmedExcused /\ EachPlacedOnce /\ [Next]_vars => EachPlacedOnce'
<1> SUFFICES ASSUME TypeOK, TrimmedExcused, EachPlacedOnce, [Next]_vars, NEW p \in PostIds,
                    ~Excused(p)'
             PROVE  PlacedOnce(p)'
  BY DEF EachPlacedOnce
<1>1. ~Excused(p) /\ PlacedOnce(p)
  BY ExcusedStep DEF EachPlacedOnce
<1>2. CASE Tick \/ UNCHANGED vars
  <2>1. posts' = posts /\ refs' = refs /\ thr' = thr
    BY <1>2 DEF Tick, vars, store
  <2> QED BY <1>1, <2>1, PlacedLess DEF Placing, Creating, At
<1>3. CASE Maintain
  BY <1>1, <1>3, MaintainPlaces
<1>4. ASSUME NEW t \in Threads, Listen(t) PROVE PlacedOnce(p)'
  BY <1>1, <1>4, ListenPlaces
<1> QED BY <1>2, <1>3, <1>4 DEF Next

-----------------------------------------------------------------------------
(* The theorems *)

LEMMA InitInv == Init => IInv
<1> SUFFICES ASSUME Init PROVE IInv
  OBVIOUS
<1>1. TypeOK
  BY TypeInit
<1>2. PostsReferenced /\ FlagsBuried
  BY DEF Init, PostsReferenced, FlagsBuried
<1>3. TrimmedExcused
  BY DEF Init, NoMaint, TrimmedExcused
<1>4. \A k \in Kinds, u \in AllUsers : refs[k][u] = <<>>
  BY DEF Init, AllUsers
<1>5. ASSUME NEW p \in PostIds PROVE PlacedOnce(p)
  <2>1. \A t \in Threads : ~Placing(t, p)
    BY DEF Init, Placing
  <2>2. \A k \in Kinds, u \in Users : ~Refers(refs[k][u], p) /\ Unique(refs[k][u], p)
    BY <1>4, UsersTimelines DEF Refers, Unique
  <2> QED BY <2>1, <2>2, DeleteKeyIsUser DEF PlacedOnce, NoRefs
<1> QED BY <1>1, <1>2, <1>3, <1>5 DEF IInv, EachPlacedOnce

\* Every step of the writers keeps the invariant ...
LEMMA InvStep == IInv /\ [Next]_vars => IInv'
BY TypeStep, ReferencedStep, BuriedStep, TrimStep, PlacedStep DEF IInv

\* ... and so does whatever leaves what they write alone, a read say.
LEMMA InvUnchanged == IInv /\ UNCHANGED writing => IInv'
<1> SUFFICES ASSUME IInv, UNCHANGED writing PROVE IInv'
  OBVIOUS
<1>1. TypeOK'
  BY TypeUnchanged DEF IInv
<1>2. PostsReferenced' /\ FlagsBuried' /\ TrimmedExcused'
  BY DEF IInv, writing, PostsReferenced, FlagsBuried, TrimmedExcused, TooOld, At, Creating, Deleting
<1>3. \A p \in PostIds : (Excused(p)' <=> Excused(p)) /\ (PlacedOnce(p)' <=> PlacedOnce(p))
  BY DEF writing, Excused, TooOld, BeingFlagged, PlacedOnce, Placing, NoRefs, At, Creating, Deleting
<1> QED BY <1>1, <1>2, <1>3 DEF IInv, EachPlacedOnce

THEOREM Inductive == Spec => []IInv
BY InitInv, InvStep, PTL DEF Spec

\* The state of the store, of its writers and of the trim keeps its types; in
\* particular a thread works on a post of its batch, and a trim is removing a
\* post of PostIds (post_store.rs, tweet_events_listener_v2.rs).
THEOREM TypeCorrect == Spec => []TypeOK
BY Inductive, PTL DEF IInv

\* Every stored post has a reference that the trimmer will find, however the
\* insertions, deletions, sorts and trims interleave (insert_post_internal,
\* trim_old_posts).
THEOREM PostsStayReferenced == Spec => []PostsReferenced
BY Inductive, PTL DEF IInv

\* Every deletion flag has a tombstone that the trimmer will find
\* (mark_as_deleted, trim_old_posts).
THEOREM FlagsStayBuried == Spec => []FlagsBuried
BY Inductive, PTL DEF IInv

\* A timeline refers twice only to a post that is deleted, about to be, too old
\* or trimmed too early, whatever is redelivered (insert_posts_internal).
THEOREM ReferredOnce == Spec => []NoDoubleReference
<1>1. IInv => NoDoubleReference
  <2> SUFFICES ASSUME IInv, NEW k \in Kinds, NEW u \in Users,
                      NEW i \in DOMAIN refs[k][u], NEW j \in DOMAIN refs[k][u],
                      i # j, refs[k][u][i].id = refs[k][u][j].id
               PROVE  Excused(refs[k][u][i].id)
    BY DEF NoDoubleReference, Excused
  <2> DEFINE p == refs[k][u][i].id
  <2>1. refs[k][u] \in Seq(Ref)
    BY UsersTimelines DEF IInv, TypeOK, StoreTypeOK
  <2>2. p \in PostIds
    BY <2>1, RefTypes
  <2>3. ~Unique(refs[k][u], p)
    BY DEF Unique
  <2> QED BY <2>2, <2>3 DEF IInv, EachPlacedOnce, PlacedOnce
<1> QED BY <1>1, Inductive, PTL

\* A deletion flag is taken away only when the post is too old to come back, or
\* its tombstone was trimmed too early (trim_old_posts).
THEOREM FlagsOutlivePosts == Spec => FlagOutlivesPost
<1>1. IInv /\ [Next]_vars => [\A p \in deleted \ deleted' : TooOld(p) \/ p \in early]_vars
  <2> SUFFICES ASSUME IInv, Next, NEW p \in deleted, p \notin deleted'
               PROVE  TooOld(p) \/ p \in early
    OBVIOUS
  <2>1. Unflag /\ p = maint.id
    BY DEF Next, Tick, store, Maintain, FinalizeInit, SortNext, AutoTrim, DropPost, Unflag,
           LeaveUser, TrimNext, FinalizeEnds, TrimUser, SweepFlag, SortUser, PopOld,
           Listen, TakeBatch, CheckDeleted, StorePost, ReferPost, DecideVideo, PushVideo, RemovePost,
           FlagDeleted, BuryPost
  <2> QED BY <2>1 DEF Unflag, IInv, TrimmedExcused
<1> QED BY <1>1, Inductive, PTL DEF Spec, FlagOutlivesPost
-----------------------------------------------------------------------------
(* The service: the inductive invariant *)

AtWork == {c \in Calls : handler[c] \in {"strato", "await"}}
OnPool == {"queued", "running", "over"}

\* The fields of the read in progress.
ReadRecord ==
    rd \in [pc : {"idle", "user", "post", "check", "reply"}, kind : Kinds, req : {rd.req},
            users : {rd.users}, ids : {rd.ids}, taken : {rd.taken}, late : BOOLEAN]

ReadTypeOK ==
    /\ ReadRecord
    /\ result \in Seq(PostIds)
    /\ rd.pc \in {"check", "reply"} => Head(rd.ids) \in PostIds
    /\ rd.pc = "idle" => result = <<>>

\* The task of a call is on the pool only while its handler awaits it or is
\* gone, and the read in progress is for a call whose task runs.
TaskTypeOK ==
    /\ handler \in [Calls -> {"new", "strato", "await", "gone", "done"}]
    /\ task \in [Calls -> {"none"} \cup OnPool]
    /\ found \in [Calls -> [posts : Seq(PostIds), late : BOOLEAN]]
    /\ flagged \in [Calls -> SUBSET PostIds]
    /\ \A c \in Calls : /\ task[c] \in OnPool => handler[c] \in {"await", "gone"}
                        /\ task[c] = "over" \/ found[c] = Nothing
    /\ rd.pc = "idle" => scan = NoCall
    /\ rd.pc # "idle" => scan \in Calls /\ task[scan] = "running"

PermitsCounted ==
    /\ IsFiniteSet(AtWork)
    /\ permits \in Nat /\ permits + Cardinality(AtWork) = MaxConcurrent

\* May be in an answer although it was flagged; may not be flagged any more.
Excepted(p) == TooOld(p) \/ p \in early
Hidden(p) == p \in deleted \/ Excepted(p)

\* What was flagged when a call came in is hidden from its read, and is neither
\* in what the read has collected so far nor in what it is about to take.
Hides(S) ==
    /\ \A i \in DOMAIN result : result[i] \in S => Excepted(result[i])
    /\ rd.pc = "reply" /\ Head(rd.ids) \in S => Excepted(Head(rd.ids))
HiddenFrom(c) ==
    /\ \A p \in flagged[c] : Hidden(p)
    /\ \A i \in DOMAIN found[c].posts : found[c].posts[i] \in flagged[c] => Excepted(found[c].posts[i])
    /\ scan = c => Hides(flagged[c])

SInv ==
    /\ IInv /\ ReadTypeOK /\ TaskTypeOK /\ PermitsCounted
    /\ \A c \in Calls : HiddenFrom(c)

-----------------------------------------------------------------------------
(* What is hidden stays hidden *)

\* Whatever the writers do, what is hidden stays hidden.
LEMMA StillHidden ==
    ASSUME IInv, [Next]_vars, NEW p \in PostIds
    PROVE  (Excepted(p) => Excepted(p)') /\ (Hidden(p) => Hidden(p)')
<1>1. Excepted(p) => Excepted(p)'
  BY Onward DEF IInv, Excepted
<1>2. ASSUME p \in deleted, p \notin deleted' PROVE Excepted(p)
  <2>1. Unflag /\ p = maint.id
    BY <1>2
       DEF Next, Tick, vars, store, Maintain, FinalizeInit, SortNext, AutoTrim, DropPost, Unflag,
           LeaveUser, TrimNext, FinalizeEnds, TrimUser, SweepFlag, SortUser, PopOld,
           Listen, TakeBatch, CheckDeleted, StorePost, ReferPost, DecideVideo, PushVideo, RemovePost,
           FlagDeleted, BuryPost
  <2> QED BY <2>1 DEF Unflag, IInv, TrimmedExcused, Excepted
<1> QED BY <1>1, <1>2 DEF Hidden

\* A step that writes nothing hides and shows nothing.
LEMMA SameHidden ==
    ASSUME UNCHANGED writing
    PROVE  \A p : (Excepted(p)' <=> Excepted(p)) /\ (Hidden(p)' <=> Hidden(p))
BY DEF writing, Excepted, Hidden, TooOld

\* The writers of the store leave the read alone.
LEMMA WritersReadNothing == Next => UNCHANGED <<rd, result>>
BY DEF Next, Tick, reader, Maintain, FinalizeInit, SortNext, AutoTrim, DropPost, Unflag,
       LeaveUser, TrimNext, FinalizeEnds, TrimUser, SweepFlag, SortUser, PopOld,
       Listen, TakeBatch, CheckDeleted, StorePost, ReferPost, DecideVideo, PushVideo, RemovePost,
       FlagDeleted, BuryPost

-----------------------------------------------------------------------------
(* The read *)

\* A read writes nothing.
LEMMA ReadWritesNothing == ReadOn \/ BeginRead => UNCHANGED writing
BY DEF ReadOn, BeginRead, ScanUser, TimeOut, LookUp, FilterPost, FilterReply, LeaveScan, EndStage,
       writing, store

\* A read takes only posts it has just found not flagged, and it is over once
\* its last stage has ended.
LEMMA ReadStep ==
    ASSUME IInv, ReadTypeOK, ReadOn, NEW S \in SUBSET PostIds, \A p \in S : Hidden(p), Hides(S)
    PROVE  /\ ReadTypeOK' /\ Hides(S)'
           /\ rd.pc # "idle" /\ rd'.pc \in {"idle", "user", "post", "check", "reply"}
<1> USE DEF ReadTypeOK, ReadRecord, Hides
<1>1. \A p : Excepted(p)' <=> Excepted(p)
  BY SameHidden, ReadWritesNothing
<1>2. posts \subseteq PostIds
  BY DEF IInv, TypeOK, StoreTypeOK
<1> DEFINE p == Head(rd.ids)
<1>3. ASSUME Skip, rd.pc \in {"post", "check", "reply"} PROVE ReadTypeOK' /\ Hides(S)'
  BY <1>1, <1>3 DEF Skip
<1>4. ASSUME Take, p \in PostIds, p \in S => Excepted(p) PROVE ReadTypeOK' /\ Hides(S)'
  <2>1. result' = Append(result, p)
    BY <1>4 DEF Take
  <2>2. result' \in Seq(PostIds)
    BY <1>4, <2>1
  <2>3. \A i \in DOMAIN result' : result'[i] \in S => Excepted(result'[i])
    BY <1>4, <2>1
  <2>4. rd'.pc = "post" /\ ReadRecord'
    BY <1>4 DEF Take
  <2> QED BY <1>1, <2>2, <2>3, <2>4
<1>5. CASE ScanUser
  BY <1>1, <1>5 DEF ScanUser
<1>6. CASE TimeOut
  BY <1>1, <1>6 DEF TimeOut
<1>7. CASE LookUp
  <2>1. CASE p \in posts
    BY <1>1, <1>2, <1>7, <2>1 DEF LookUp
  <2>2. CASE p \notin posts
    BY <1>3, <1>7, <2>2 DEF LookUp, Skip
  <2> QED BY <2>1, <2>2
<1>8. CASE FilterPost
  <2>1. rd.pc = "check" /\ p \in PostIds
    BY <1>8 DEF FilterPost
  <2>2. CASE Skip
    BY <1>3, <2>1, <2>2 DEF Skip
  <2>3. ASSUME p \notin deleted PROVE p \in S => Excepted(p)
    BY <2>3 DEF Hidden
  <2>4. CASE p \notin deleted /\ Take
    BY <1>4, <2>1, <2>3, <2>4 DEF Take
  <2>5. CASE p \notin deleted /\ rd' = [rd EXCEPT !.pc = "reply"] /\ UNCHANGED result
    BY <1>1, <2>1, <2>3, <2>5
  <2> QED BY <1>8, <2>1, <2>2, <2>4, <2>5 DEF FilterPost
<1>9. CASE FilterReply
  BY <1>3, <1>4, <1>9 DEF FilterReply, Skip, Take
<1>10. CASE LeaveScan
  BY <1>1, <1>10 DEF LeaveScan
<1>11. CASE EndStage
  <2>1. CASE rd.kind = "original"
    BY <1>1, <1>11, <2>1 DEF EndStage, Kinds
  <2>2. CASE rd.kind # "original"
    <3>1. rd' = NoRead /\ result' = <<>> /\ rd.pc # "idle"
      BY <1>11, <2>2 DEF EndStage
    <3>2. ReadRecord'
      BY <3>1 DEF NoRead, Kinds
    <3> QED BY <3>1, <3>2 DEF NoRead
  <2> QED BY <2>1, <2>2
<1> QED BY <1>5, <1>6, <1>7, <1>8, <1>9, <1>10, <1>11 DEF ReadOn

\* A read begins with nothing collected.
LEMMA ReadBegins ==
    ASSUME ReadTypeOK, BeginRead
    PROVE  ReadTypeOK' /\ rd'.pc = "user" /\ result' = <<>> /\ rd.pc = "idle"
BY DEF ReadTypeOK, ReadRecord, BeginRead, NoRead, Kinds

\* The scored answer is made of what was read.
LEMMA CutsType ==
    ASSUME NEW read \in Seq(PostIds), NEW max \in Nat, NEW scored \in ScoreRecent(read, max)
    PROVE  /\ scored \in Seq(PostIds)
           /\ \A i \in DOMAIN scored : \E j \in DOMAIN read : scored[i] = read[j]
<1>1. PICK f \in Orders(DOMAIN read) :
         LET s == Arrange(read, f)
         IN  scored = SubSeq(s, 1, IF Len(s) < max THEN Len(s) ELSE max)
  BY DEF ScoreRecent, Cuts
<1> DEFINE s == Arrange(read, f)
           n == IF Len(s) < max THEN Len(s) ELSE max
<1>2. /\ DOMAIN f = DOMAIN read
      /\ \A i \in DOMAIN read : f[i] \in DOMAIN read
  BY OrderCovers
<1>3. s \in Seq(PostIds) /\ \A i \in DOMAIN s : \E j \in DOMAIN read : s[i] = read[j]
  BY <1>2, ArrangeType DEF Arrange
<1> HIDE DEF s
<1>4. n \in 0 .. Len(s) /\ scored = SubSeq(s, 1, n)
  BY <1>1, <1>3 DEF s
<1>5. scored \in Seq(PostIds) /\ \A i \in DOMAIN scored : i \in DOMAIN s /\ scored[i] = s[i]
  BY <1>3, <1>4
<1> QED BY <1>3, <1>5

-----------------------------------------------------------------------------
(* The handler *)

\* A handler at work returns, or goes away, and its permit is free again.
LEMMA PermitBack ==
    ASSUME TaskTypeOK, PermitsCounted, NEW c \in AtWork, NEW state \in {"gone", "done"},
           Becomes(c, state), permits' = permits + 1
    PROVE  PermitsCounted'
<1>1. AtWork' = AtWork \ {c}
  BY DEF AtWork, Becomes, TaskTypeOK
<1>2. IsFiniteSet(AtWork') /\ Cardinality(AtWork') = Cardinality(AtWork) - 1
  BY <1>1, FS_RemoveElement DEF PermitsCounted
<1>3. Cardinality(AtWork) \in Nat /\ MaxConcurrent \in Nat
  BY FS_CardinalityType, ServiceLimitsAssumption DEF PermitsCounted
<1> QED BY <1>2, <1>3 DEF PermitsCounted

\* A call that comes in takes a permit.
LEMMA PermitTaken ==
    ASSUME TaskTypeOK, PermitsCounted, NEW c \in Calls \ AtWork, NEW state \in {"strato", "await"},
           Becomes(c, state), permits > 0, permits' = permits - 1
    PROVE  PermitsCounted'
<1>1. AtWork' = AtWork \cup {c}
  BY DEF AtWork, Becomes, TaskTypeOK
<1>2. IsFiniteSet(AtWork') /\ Cardinality(AtWork') = Cardinality(AtWork) + 1
  BY <1>1, FS_AddElement DEF PermitsCounted
<1>3. Cardinality(AtWork) \in Nat /\ MaxConcurrent \in Nat
  BY FS_CardinalityType, ServiceLimitsAssumption DEF PermitsCounted
<1> QED BY <1>2, <1>3 DEF PermitsCounted

\* Where no call comes in or goes, the permits are as they were.
LEMMA PermitKept ==
    ASSUME PermitsCounted, AtWork' = AtWork, permits' = permits
    PROVE  PermitsCounted'
BY DEF PermitsCounted

\* Every step keeps the count of the permits.
LEMMA PermitsStep == SInv /\ [ServiceNext]_svars => PermitsCounted'
<1> SUFFICES ASSUME SInv, [ServiceNext]_svars PROVE PermitsCounted'
  OBVIOUS
<1>1. TaskTypeOK /\ PermitsCounted /\ ReadTypeOK
  BY DEF SInv
<1>2. CASE UNCHANGED <<permits, handler>>
  BY <1>1, <1>2, PermitKept DEF AtWork
<1>3. ASSUME NEW c \in Calls, Accept(c) PROVE PermitsCounted'
  <2>1. c \notin AtWork /\ permits > 0 /\ permits' = permits - 1
    BY <1>3 DEF Accept, TryAcquire, AtWork
  <2>2. Becomes(c, "strato") \/ Becomes(c, "await")
    BY <1>3 DEF Accept, Spawn
  <2> QED BY <1>1, <2>1, <2>2, PermitTaken
<1>4. ASSUME NEW c \in Calls, Reject(c) PROVE PermitsCounted'
  <2>1. AtWork' = AtWork /\ permits' = permits
    BY <1>1, <1>4 DEF Reject, Return, Becomes, AtWork, TaskTypeOK
  <2> QED BY <1>1, <2>1, PermitKept
<1>5. ASSUME NEW c \in Calls, Answer(c) \/ StratoFails(c) PROVE PermitsCounted'
  BY <1>1, <1>5, PermitBack DEF Answer, StratoFails, Return, AtWork
<1>6. ASSUME NEW c \in Calls, StratoAnswers(c) PROVE PermitsCounted'
  <2>1. AtWork' = AtWork /\ permits' = permits
    BY <1>1, <1>6 DEF StratoAnswers, Spawn, Becomes, AtWork, TaskTypeOK
  <2> QED BY <1>1, <2>1, PermitKept
<1>7. ASSUME NEW c \in Calls, Hangup(c) PROVE PermitsCounted'
  BY <1>1, <1>7, PermitBack DEF Hangup, Return, AtWork
<1>8. CASE RunTask
  <2>1. CASE UNCHANGED service
    BY <1>2, <2>1 DEF service
  <2>2. CASE EndTask
    <3>1. scan \in Calls /\ task[scan] = "running"
      <4>1. rd.pc # "idle"
        BY <1>8 DEF RunTask, ReadOn, ScanUser, TimeOut, LookUp, FilterPost, FilterReply, LeaveScan,
                    EndStage
      <4> QED BY <1>1, <4>1 DEF TaskTypeOK
    <3>2. CASE handler[scan] = "gone"
      <4>1. AtWork' = AtWork /\ permits' = permits
        BY <1>1, <2>2, <3>1, <3>2 DEF EndTask, Return, Becomes, AtWork, TaskTypeOK
      <4> QED BY <1>1, <4>1, PermitKept
    <3>3. CASE handler[scan] # "gone"
      BY <1>2, <2>2, <3>3 DEF EndTask
    <3> QED BY <3>2, <3>3
  <2> QED BY <1>8, <2>1, <2>2 DEF RunTask
<1>9. ASSUME NEW c \in Calls, StartTask(c) PROVE PermitsCounted'
  BY <1>2, <1>9 DEF StartTask
<1> QED BY <1>2, <1>3, <1>4, <1>5, <1>6, <1>7, <1>8, <1>9
        DEF ServiceNext, Store, Handle, svars, service

-----------------------------------------------------------------------------
(* Handlers and tasks keep in step *)

\* A call that has returned has left nothing behind.
LEMMA ReturnEffect ==
    ASSUME TaskTypeOK, NEW c \in Calls, Return(c)
    PROVE  /\ handler' \in [Calls -> {"new", "strato", "await", "gone", "done"}]
           /\ task' \in [Calls -> {"none"} \cup OnPool]
           /\ found' \in [Calls -> [posts : Seq(PostIds), late : BOOLEAN]]
           /\ flagged' \in [Calls -> SUBSET PostIds]
           /\ handler'[c] = "done" /\ task'[c] = "none" /\ flagged'[c] = {}
           /\ \A d \in Calls : /\ task'[d] \in OnPool => handler'[d] \in {"await", "gone"}
                               /\ task'[d] = "over" \/ found'[d] = Nothing
           /\ \A d \in Calls \ {c} : /\ handler'[d] = handler[d] /\ task'[d] = task[d]
                                     /\ found'[d] = found[d] /\ flagged'[d] = flagged[d]
<1>1. Nothing \in [posts : Seq(PostIds), late : BOOLEAN]
  BY DEF Nothing
<1>2. /\ handler' \in [Calls -> {"new", "strato", "await", "gone", "done"}]
      /\ task' \in [Calls -> {"none"} \cup OnPool]
      /\ found' \in [Calls -> [posts : Seq(PostIds), late : BOOLEAN]]
      /\ flagged' \in [Calls -> SUBSET PostIds]
  BY <1>1 DEF Return, Becomes, TaskTypeOK
<1>3. /\ handler'[c] = "done" /\ task'[c] = "none" /\ flagged'[c] = {} /\ found'[c] = Nothing
      /\ \A d \in Calls \ {c} : /\ handler'[d] = handler[d] /\ task'[d] = task[d]
                                /\ found'[d] = found[d] /\ flagged'[d] = flagged[d]
  BY DEF Return, Becomes, TaskTypeOK
<1> QED BY <1>2, <1>3 DEF TaskTypeOK, OnPool

\* A handler returns while no read runs for it.
LEMMA ReturnType ==
    ASSUME TaskTypeOK, NEW c \in Calls, Return(c), task[c] # "running", UNCHANGED <<rd, scan>>
    PROVE  TaskTypeOK'
<1>1. scan = c => rd.pc = "idle"
  BY DEF TaskTypeOK
<1> QED BY <1>1, ReturnEffect DEF TaskTypeOK

\* A step of a handler leaves the store and the read alone.
LEMMA HandlerType ==
    ASSUME SInv, NEW c \in Calls, Handle(c) \/ Hangup(c)
    PROVE  TaskTypeOK' /\ UNCHANGED vars /\ scan' = scan
<1>1. TaskTypeOK
  BY DEF SInv
<1>2. CASE Accept(c)
  <2>1. handler[c] = "new" /\ UNCHANGED <<vars, scan, found>>
    BY <1>2 DEF Accept
  <2>2. task[c] \notin OnPool /\ (rd.pc # "idle" => scan # c)
    BY <1>1, <2>1 DEF TaskTypeOK, OnPool
  <2>3. flagged' \in [Calls -> SUBSET PostIds]
    BY <1>1, <1>2 DEF Accept, Wanted, TaskTypeOK
  <2>4. CASE Becomes(c, "strato") /\ UNCHANGED task
    BY <1>1, <2>1, <2>2, <2>3, <2>4 DEF Becomes, TaskTypeOK, vars, reader
  <2>5. CASE Spawn(c)
    BY <1>1, <2>1, <2>2, <2>3, <2>5 DEF Spawn, Becomes, TaskTypeOK, OnPool, vars, reader
  <2> QED BY <1>2, <2>1, <2>4, <2>5 DEF Accept
<1>3. CASE Reject(c)
  <2>1. task[c] # "running" /\ UNCHANGED <<vars, scan>> /\ Return(c)
    BY <1>1, <1>3 DEF Reject, TaskTypeOK, OnPool
  <2> QED BY <1>1, <2>1, ReturnType DEF vars, reader
<1>4. CASE Answer(c)
  <2>1. task[c] # "running" /\ UNCHANGED <<vars, scan>> /\ Return(c)
    BY <1>4 DEF Answer
  <2> QED BY <1>1, <2>1, ReturnType DEF vars, reader
<1>5. CASE StratoFails(c)
  <2>1. task[c] # "running" /\ UNCHANGED <<vars, scan>> /\ Return(c)
    BY <1>1, <1>5 DEF StratoFails, TaskTypeOK, OnPool
  <2> QED BY <1>1, <2>1, ReturnType DEF vars, reader
<1>6. CASE StratoAnswers(c)
  <2>1. handler[c] = "strato" /\ Spawn(c) /\ UNCHANGED <<vars, scan, found, flagged>>
    BY <1>6 DEF StratoAnswers
  <2>2. rd.pc # "idle" => scan # c
    BY <1>1, <2>1 DEF TaskTypeOK, OnPool
  <2> QED BY <1>1, <2>1, <2>2 DEF Spawn, Becomes, TaskTypeOK, OnPool, vars, reader
<1>7. CASE Hangup(c)
  <2>1. UNCHANGED <<vars, scan>>
    BY <1>7 DEF Hangup
  <2>2. CASE task[c] \in {"queued", "running"}
    <3>1. Becomes(c, "gone") /\ flagged' = [flagged EXCEPT ![c] = {}] /\ UNCHANGED <<task, found>>
      BY <1>7, <2>2 DEF Hangup
    <3> QED BY <1>1, <2>1, <3>1 DEF Becomes, TaskTypeOK, OnPool, vars, reader
  <2>3. CASE task[c] \notin {"queued", "running"}
    <3>1. Return(c)
      BY <1>7, <2>3 DEF Hangup
    <3> QED BY <1>1, <2>1, <2>3, <3>1, ReturnType DEF vars, reader
  <2> QED BY <2>1, <2>2, <2>3
<1> QED BY <1>2, <1>3, <1>4, <1>5, <1>6, <1>7 DEF Handle

\* A read ends: its task is over.
LEMMA EndEffect ==
    ASSUME TaskTypeOK, ReadTypeOK, rd.pc # "idle", EndTask
    PROVE  TaskTypeOK'
<1>1. scan \in Calls /\ task[scan] = "running" /\ handler[scan] \in {"await", "gone"}
  BY DEF TaskTypeOK, OnPool
<1>2. rd'.pc = "idle" /\ scan' = NoCall
  BY DEF EndTask
<1>3. CASE handler[scan] = "gone"
  <2>1. Return(scan)
    BY <1>3 DEF EndTask
  <2> QED BY <1>1, <1>2, <2>1, ReturnEffect DEF TaskTypeOK
<1>4. CASE handler[scan] # "gone"
  <2>1. MaxResults(scan) \in Nat
    BY <1>1, CallsAssumption, ServiceLimitsAssumption DEF MaxResults, AskType
  <2>2. PICK scored \in ScoreRecent(result, MaxResults(scan)) :
           found' = [found EXCEPT ![scan] = [posts |-> scored, late |-> rd.late]]
    BY <1>4 DEF EndTask
  <2>3. [posts |-> scored, late |-> rd.late] \in [posts : Seq(PostIds), late : BOOLEAN]
    BY <2>1, CutsType DEF ReadTypeOK, ReadRecord
  <2>4. found' \in [Calls -> [posts : Seq(PostIds), late : BOOLEAN]]
    BY <2>2, <2>3 DEF TaskTypeOK
  <2>5. task' = [task EXCEPT ![scan] = "over"] /\ UNCHANGED <<handler, flagged>>
    BY <1>4 DEF EndTask
  <2>6. /\ task'[scan] = "over"
        /\ \A c \in Calls \ {scan} : task'[c] = task[c] /\ found'[c] = found[c]
    BY <1>1, <2>2, <2>5 DEF TaskTypeOK
  <2>7. \A c \in Calls : /\ task'[c] \in OnPool => handler'[c] \in {"await", "gone"}
                         /\ task'[c] = "over" \/ found'[c] = Nothing
    BY <1>1, <2>5, <2>6 DEF TaskTypeOK
  <2>8. task' \in [Calls -> {"none"} \cup OnPool]
    BY <2>5 DEF TaskTypeOK, OnPool
  <2> QED BY <1>2, <2>4, <2>5, <2>7, <2>8 DEF TaskTypeOK
<1> QED BY <1>3, <1>4

\* Every step keeps handlers, tasks and the read in step.
LEMMA TaskStep == SInv /\ [ServiceNext]_svars => ReadTypeOK' /\ TaskTypeOK'
<1> SUFFICES ASSUME SInv, [ServiceNext]_svars PROVE ReadTypeOK' /\ TaskTypeOK'
  OBVIOUS
<1>1. IInv /\ ReadTypeOK /\ TaskTypeOK
  BY DEF SInv
<1>2. UNCHANGED <<rd, result>> => ReadTypeOK'
  BY <1>1 DEF ReadTypeOK, ReadRecord
<1>3. UNCHANGED service /\ (rd'.pc = "idle" <=> rd.pc = "idle") => TaskTypeOK'
  BY <1>1 DEF service, TaskTypeOK
<1>4. CASE Store
  <2>1. UNCHANGED <<rd, result>>
    BY <1>4, WritersReadNothing DEF Store, Next
  <2> QED BY <1>2, <1>3, <1>4, <2>1 DEF Store
<1>5. CASE RunTask
  <2>1. ReadOn
    BY <1>5 DEF RunTask
  <2>2. ReadTypeOK' /\ rd.pc # "idle"
    <3>1. Hides({})
      BY DEF Hides
    <3> QED BY <1>1, <2>1, <3>1, ReadStep
  <2>3. CASE EndTask
    BY <1>1, <2>2, <2>3, EndEffect
  <2>4. CASE rd'.pc # "idle" /\ UNCHANGED service
    BY <1>3, <2>2, <2>4
  <2> QED BY <1>5, <2>2, <2>3, <2>4 DEF RunTask
<1>6. ASSUME NEW c \in Calls, Handle(c) \/ Hangup(c) PROVE ReadTypeOK' /\ TaskTypeOK'
  BY <1>2, <1>6, HandlerType DEF vars, reader
<1>7. ASSUME NEW c \in Calls, StartTask(c) PROVE ReadTypeOK' /\ TaskTypeOK'
  <2>1. ReadTypeOK' /\ rd'.pc = "user"
    BY <1>1, <1>7, ReadBegins DEF StartTask
  <2>2. task' = [task EXCEPT ![c] = "running"] /\ scan' = c /\ task[c] = "queued"
        /\ UNCHANGED <<handler, found, flagged>>
    BY <1>7 DEF StartTask
  <2> QED BY <1>1, <2>1, <2>2 DEF TaskTypeOK, OnPool
<1>8. CASE UNCHANGED svars
  BY <1>2, <1>3, <1>8 DEF svars, vars, reader
<1> QED BY <1>4, <1>5, <1>6, <1>7, <1>8 DEF ServiceNext

-----------------------------------------------------------------------------
(* What was flagged stays out of the answer *)

\* Every step keeps what was flagged out of the answers.
LEMMA HiddenStep == SInv /\ [ServiceNext]_svars => \A d \in Calls : HiddenFrom(d)'
<1> SUFFICES ASSUME SInv, [ServiceNext]_svars, NEW d \in Calls PROVE HiddenFrom(d)'
  OBVIOUS
<1>1. IInv /\ ReadTypeOK /\ TaskTypeOK /\ HiddenFrom(d)
  BY DEF SInv
<1>2. flagged[d] \subseteq PostIds /\ d # NoCall
  BY <1>1, CallsAssumption DEF TaskTypeOK
\* Nothing happens to this call.
<1>3. ASSUME \A p \in PostIds : (Excepted(p) => Excepted(p)') /\ (Hidden(p) => Hidden(p)'),
             UNCHANGED <<rd, result, scan>>, flagged'[d] = flagged[d], found'[d] = found[d]
      PROVE  HiddenFrom(d)'
  BY <1>1, <1>2, <1>3 DEF HiddenFrom, Hides
<1>4. CASE Store
  <2>1. Next /\ UNCHANGED service
    BY <1>4 DEF Store, Next
  <2>2. \A p \in PostIds : (Excepted(p) => Excepted(p)') /\ (Hidden(p) => Hidden(p)')
    BY <1>1, <2>1, StillHidden
  <2> QED BY <1>3, <2>1, <2>2, WritersReadNothing DEF service
<1>5. ASSUME UNCHANGED vars
      PROVE  /\ \A p : (Excepted(p)' <=> Excepted(p)) /\ (Hidden(p)' <=> Hidden(p))
             /\ UNCHANGED <<rd, result>>
  BY <1>5, SameHidden DEF vars, store, reader, writing
<1>6. ASSUME NEW c \in Calls, Handle(c) \/ Hangup(c) PROVE HiddenFrom(d)'
  <2>1. UNCHANGED vars /\ scan' = scan /\ TaskTypeOK'
    BY <1>6, HandlerType
  <2>2. CASE flagged'[d] = {}
    BY <2>2 DEF HiddenFrom, Hides
  <2>3. CASE flagged'[d] = flagged[d] /\ found'[d] = found[d]
    BY <1>3, <1>5, <2>1, <2>3
  <2>4. CASE c = d /\ Accept(c)
    <3>1. handler[d] = "new" /\ found' = found
          /\ flagged' = [flagged EXCEPT ![d] = deleted \cap Wanted(d)]
      BY <2>4 DEF Accept
    <3>2. task[d] \notin OnPool
      BY <1>1, <3>1 DEF TaskTypeOK
    <3>3. found[d].posts = <<>> /\ scan # d
      BY <1>1, <1>2, <3>2 DEF TaskTypeOK, OnPool, Nothing
    <3>4. flagged'[d] \subseteq deleted
      BY <1>1, <3>1 DEF TaskTypeOK
    <3>5. \A p \in flagged'[d] : Hidden(p)'
      BY <1>5, <2>1, <3>4 DEF Hidden
    <3> QED BY <2>1, <3>1, <3>3, <3>5 DEF HiddenFrom
  <2>5. ASSUME c # d PROVE flagged'[d] = flagged[d] /\ found'[d] = found[d]
    BY <1>1, <1>6, <2>5
       DEF Handle, Accept, Reject, Answer, StratoAnswers, StratoFails, Hangup, Return, TaskTypeOK
  <2>6. ASSUME c = d, ~Accept(c)
        PROVE  flagged'[d] = {} \/ (flagged'[d] = flagged[d] /\ found'[d] = found[d])
    <3>1. CASE Return(c)
      BY <1>1, <2>6, <3>1, ReturnEffect
    <3>2. CASE StratoAnswers(c)
      BY <3>2 DEF StratoAnswers
    <3>3. CASE Hangup(c) /\ ~Return(c)
      BY <1>1, <2>6, <3>3 DEF Hangup, TaskTypeOK
    <3> QED BY <1>6, <2>6, <3>1, <3>2, <3>3 DEF Handle, Reject, Answer, StratoFails
  <2> QED BY <2>2, <2>3, <2>4, <2>5, <2>6
<1>7. CASE RunTask
  <2>1. ReadOn /\ UNCHANGED writing
    BY <1>7, ReadWritesNothing DEF RunTask
  <2>2. \A p : (Excepted(p)' <=> Excepted(p)) /\ (Hidden(p)' <=> Hidden(p))
    BY <2>1, SameHidden
  <2>3. rd.pc # "idle"
    BY <2>1 DEF ReadOn, ScanUser, TimeOut, LookUp, FilterPost, FilterReply, LeaveScan, EndStage
  <2>4. CASE UNCHANGED service
    <3>1. scan = d => Hides(flagged[d])'
      <4>1. ASSUME scan = d PROVE Hides(flagged[d])'
        <5> DEFINE S == flagged[d]
        <5>1. S' = S
          BY <2>4 DEF service
        <5>2. Hides(S) /\ \A p \in S : Hidden(p)
          BY <1>1, <4>1 DEF HiddenFrom
        <5> QED BY <1>1, <1>2, <2>1, <2>2, <5>1, <5>2, ReadStep
      <4> QED BY <4>1
    <3> QED BY <1>1, <2>2, <2>4, <3>1 DEF HiddenFrom, service
  <2>5. CASE EndTask
    <3>1. scan' = NoCall /\ scan \in Calls
      BY <1>1, <2>3, <2>5 DEF EndTask, TaskTypeOK
    <3>2. CASE handler[scan] = "gone"
      <4>1. Return(scan)
        BY <2>5, <3>2 DEF EndTask
      <4>2. flagged'[d] = {} \/ (flagged'[d] = flagged[d] /\ found'[d] = found[d])
        BY <1>1, <3>1, <4>1, ReturnEffect
      <4> QED BY <1>1, <1>2, <2>2, <3>1, <4>2 DEF HiddenFrom
    <3>3. CASE handler[scan] # "gone"
      <4>1. PICK scored \in ScoreRecent(result, MaxResults(scan)) :
               found' = [found EXCEPT ![scan] = [posts |-> scored, late |-> rd.late]]
        BY <2>5, <3>3 DEF EndTask
      <4>2. flagged' = flagged
        BY <2>5, <3>3 DEF EndTask
      <4>3. CASE scan # d
        <5>1. found'[d] = found[d]
          BY <1>1, <4>1, <4>3 DEF TaskTypeOK
        <5> QED BY <1>1, <1>2, <2>2, <3>1, <4>2, <5>1 DEF HiddenFrom
      <4>4. CASE scan = d
        <5>1. found'[d].posts = scored
          BY <1>1, <4>1, <4>4 DEF TaskTypeOK
        <5>2. MaxResults(scan) \in Nat
          BY <3>1, CallsAssumption, ServiceLimitsAssumption DEF MaxResults, AskType
        <5>3. \A i \in DOMAIN scored : \E j \in DOMAIN result : scored[i] = result[j]
          BY <1>1, <5>2, CutsType DEF ReadTypeOK
        <5>4. \A j \in DOMAIN result : result[j] \in flagged[d] => Excepted(result[j])
          BY <1>1, <4>4 DEF HiddenFrom, Hides
        <5> QED BY <1>1, <1>2, <2>2, <3>1, <4>2, <5>1, <5>3, <5>4 DEF HiddenFrom
      <4> QED BY <4>3, <4>4
    <3> QED BY <3>2, <3>3
  <2> QED BY <1>7, <2>4, <2>5 DEF RunTask
<1>8. ASSUME NEW c \in Calls, StartTask(c) PROVE HiddenFrom(d)'
  <2>1. BeginRead /\ UNCHANGED <<found, flagged>>
    BY <1>8 DEF StartTask
  <2>2. \A p : (Excepted(p)' <=> Excepted(p)) /\ (Hidden(p)' <=> Hidden(p))
    BY <2>1, SameHidden, ReadWritesNothing
  <2>3. rd'.pc = "user" /\ result' = <<>>
    BY <1>1, <2>1, ReadBegins
  <2> QED BY <1>1, <2>1, <2>2, <2>3 DEF HiddenFrom, Hides
<1>9. CASE UNCHANGED svars
  BY <1>3, <1>5, <1>9 DEF svars, service
<1> QED BY <1>4, <1>6, <1>7, <1>8, <1>9 DEF ServiceNext

-----------------------------------------------------------------------------
(* The theorems *)

\* The invariant holds at the start.
LEMMA ServiceInitInv == ServiceInit => SInv
<1> SUFFICES ASSUME ServiceInit PROVE SInv
  OBVIOUS
<1>1. IInv
  BY InitInv DEF ServiceInit
<1>2. ReadTypeOK
  BY DEF ServiceInit, Init, NoRead, ReadTypeOK, ReadRecord, Kinds
<1>3. TaskTypeOK
  BY DEF ServiceInit, Init, NoRead, TaskTypeOK, OnPool, Nothing
<1>4. AtWork = {}
  BY DEF ServiceInit, AtWork
<1>5. PermitsCounted
  BY <1>4, FS_EmptySet, ServiceLimitsAssumption DEF ServiceInit, PermitsCounted
<1>6. \A c \in Calls : HiddenFrom(c)
  BY CallsAssumption DEF ServiceInit, HiddenFrom
<1> QED BY <1>1, <1>2, <1>3, <1>5, <1>6 DEF SInv

\* The invariant of the store holds for the service too.
LEMMA StoreStep == IInv /\ [ServiceNext]_svars => IInv'
<1> SUFFICES ASSUME IInv, [ServiceNext]_svars PROVE IInv'
  OBVIOUS
<1>1. CASE Store
  BY <1>1, InvStep DEF Store, Next
<1>2. CASE RunTask
  BY <1>2, ReadWritesNothing, InvUnchanged DEF RunTask
<1>3. ASSUME NEW c \in Calls, StartTask(c) PROVE IInv'
  BY <1>3, ReadWritesNothing, InvUnchanged DEF StartTask
<1>4. ASSUME NEW c \in Calls, Handle(c) \/ Hangup(c) PROVE IInv'
  <2>1. UNCHANGED vars
    BY <1>4 DEF Handle, Accept, Reject, Answer, StratoAnswers, StratoFails, Hangup
  <2> QED BY <2>1, InvStep
<1>5. CASE UNCHANGED svars
  BY <1>5, InvStep DEF svars
<1> QED BY <1>1, <1>2, <1>3, <1>4, <1>5 DEF ServiceNext

\* The invariant of the service holds: permits, tasks and the hidden posts.
THEOREM ServiceInductive == ServiceSpec => []SInv
<1>1. SInv /\ [ServiceNext]_svars => SInv'
  BY StoreStep, TaskStep, PermitsStep, HiddenStep DEF SInv
<1> QED BY <1>1, ServiceInitInv, PTL DEF ServiceSpec

\* What the writers of the store guarantee they guarantee while it is read:
\* readers change none of the maps (get_posts_from_map).
THEOREM StoreWhileRead ==
    ServiceSpec => [](PostsReferenced /\ FlagsBuried)
<1>1. SInv => PostsReferenced /\ FlagsBuried
  BY DEF SInv, IInv
<1> QED BY <1>1, ServiceInductive, PTL

\* Every permit is free or with a handler at work, whatever number of clients
\* go away and however often Strato fails (get_in_network_posts).
THEOREM PermitsComeBack == ServiceSpec => []PermitsAreBack
<1>1. SInv => PermitsAreBack
  BY DEF SInv, PermitsCounted, PermitsAreBack, AtWork
<1> QED BY <1>1, ServiceInductive, PTL

\* No answer has a post that was flagged as deleted when the call came in,
\* unless the post is excepted (get_posts_from_map, score_recent).
THEOREM DeletedStayHidden == ServiceSpec => []AnswerHidesDeleted
<1>1. SInv => AnswerHidesDeleted
  BY DEF SInv, HiddenFrom, AnswerHidesDeleted, Excepted
<1> QED BY <1>1, ServiceInductive, PTL

-----------------------------------------------------------------------------
(* No timeline is longer than what was written *)

\* The creates of an author's posts of a kind that the topic holds, and where
\* the model has them: still to poll, held by a thread that has not referred to
\* them yet, or referred to.
Created(u, k) == UNION {{t} \X CreatesOf(t, u, k) : t \in Threads}
Of(p, u, k) == Light[p].author = u /\ PrimaryKind(p) = k
Waiting(t, i, u, k) ==
    LET q == topic[t] IN i \in DOMAIN q /\ ~q[i].delete /\ Of(q[i].id, u, k)
Holding(t, j, u, k) ==
    LET q == thr[t].creates
    IN  /\ j \in DOMAIN q /\ Of(q[j].id, u, k)
        /\ j = 1 => thr[t].pc \notin {"video", "push"}
Pollable(u, k) == {s \in {"poll"} \X Threads \X Nat : Waiting(s[2], s[3], u, k)}
Held(u, k)     == {s \in {"held"} \X Threads \X Nat : Holding(s[2], s[3], u, k)}
Referred(u, k) == {s \in {"ref"} \X {u} \X Nat : s[3] \in DOMAIN refs[k][u]}
Slots(u, k) == Pollable(u, k) \cup Held(u, k) \cup Referred(u, k)

Written == Kinds \ {"video"}
Accounted == \A u \in Users, k \in Written : ExistsInjection(Slots(u, k), Created(u, k))

\* Taking slots away leaves as many places for the others.
LEMMA SlotsFewer ==
    ASSUME NEW u, NEW k, Slots(u, k)' \subseteq Slots(u, k)
    PROVE  ExistsInjection(Slots(u, k)', Slots(u, k))
<1> DEFINE f == [s \in Slots(u, k)' |-> s]
<1>1. f \in Injection(Slots(u, k)', Slots(u, k))
  BY DEF Injection, IsInjective
<1> QED BY <1>1 DEF ExistsInjection

\* A thread drops the first post it holds, of which it has referred to nothing.
LEMMA SlotsNext ==
    ASSUME TypeOK, NEW t \in Threads, thr[t].pc \in Creates, NextCreate(t),
           NEW u \in Users, NEW k \in Kinds, topic' = topic, refs'[k][u] = refs[k][u]
    PROVE  ExistsInjection(Slots(u, k)', Slots(u, k))
<1> DEFINE f == [s \in Slots(u, k)' |-> IF s[1] = "held" /\ s[2] = t THEN <<"held", t, s[3] + 1>> ELSE s]
<1>1. /\ \A s \in Threads \ {t} : thr'[s] = thr[s]
      /\ thr'[t].creates = Tail(thr[t].creates)
  BY CreatingType, ThreadMoves DEF NextCreate, Resume
<1>2. thr[t].creates \in Seq(Ref) /\ thr[t].creates # <<>>
  BY DEF TypeOK, WorkTypeOK, ThreadState
<1>3. ASSUME NEW s \in Slots(u, k)' PROVE f[s] \in Slots(u, k)
  <2>1. CASE s \in Held(u, k)' /\ s[2] = t
    <3>1. s[3] \in Nat /\ s[1] = "held" /\ Holding(t, s[3], u, k)'
      BY <2>1 DEF Held
    <3>2. Holding(t, s[3] + 1, u, k)
      BY <1>1, <1>2, <3>1 DEF Holding, Of, PrimaryKind
    <3>3. f[s] = <<"held", t, s[3] + 1>>
      BY <2>1, <3>1
    <3> QED BY <3>1, <3>2, <3>3 DEF Slots, Held
  <2>2. CASE s \in Held(u, k)' /\ s[2] # t
    <3>1. s \in Held(u, k)
      BY <1>1, <2>2 DEF Held, Holding, Of, PrimaryKind
    <3> QED BY <2>2, <3>1 DEF Slots
  <2>3. CASE s \in Pollable(u, k)' \cup Referred(u, k)'
    <3>1. s \in Pollable(u, k) \cup Referred(u, k) /\ s[1] # "held"
      BY <2>3 DEF Pollable, Waiting, Referred, Of, PrimaryKind
    <3> QED BY <3>1 DEF Slots
  <2> QED BY <2>1, <2>2, <2>3 DEF Slots
<1>4. ASSUME NEW a \in Slots(u, k)', NEW b \in Slots(u, k)', f[a] = f[b] PROVE a = b
  <2>1. a \in {"poll", "held", "ref"} \X (Threads \cup {u}) \X Nat
        /\ b \in {"poll", "held", "ref"} \X (Threads \cup {u}) \X Nat
    BY DEF Slots, Held, Pollable, Referred
  <2> QED BY <1>4, <2>1
<1> HIDE DEF f
<1>5. f \in Injection(Slots(u, k)', Slots(u, k))
  <2>1. f \in [Slots(u, k)' -> Slots(u, k)]
    BY <1>3 DEF f
  <2> QED BY <1>4, <2>1 DEF Injection, IsInjective, f
<1> QED BY <1>5 DEF ExistsInjection

\* A thread refers to the post: the reference takes the place of what was held.
LEMMA SlotsRefer ==
    ASSUME TypeOK, NEW t \in Threads, ReferPost(t), NEW u \in Users, NEW k \in Kinds
    PROVE  ExistsInjection(Slots(u, k)', Slots(u, k))
<1> DEFINE r == Creating(t)
           last == Len(refs[k][u]) + 1
           f == [s \in Slots(u, k)' |-> IF s = <<"ref", u, last>> THEN <<"held", t, 1>> ELSE s]
<1>1. /\ \A s \in Threads \ {t} : thr'[s] = thr[s]
      /\ thr[t].pc = "refer" /\ thr'[t].pc = "video" /\ thr'[t].creates = thr[t].creates
      /\ topic' = topic
  BY GotoEffect DEF ReferPost, At
<1>2. /\ r \in Ref /\ r.id \in PostIds /\ r = thr[t].creates[1]
      /\ 1 \in DOMAIN thr[t].creates
  <2>1. thr[t].creates \in Seq(Ref) /\ thr[t].creates # <<>>
    BY <1>1 DEF TypeOK, WorkTypeOK, ThreadState, Creates
  <2> QED BY <1>1, <2>1, CreatingType, RefTypes DEF Creates, Creating
<1> DEFINE l == PrimaryKind(r.id)
           v == Light[r.id].author
<1>3. l \in Kinds /\ v \in AllUsers /\ Push(l, v, r) /\ (Of(r.id, u, k) <=> v = u /\ l = k)
  BY <1>2, PostTypes DEF ReferPost, Of
<1> HIDE DEF r, l, v
<1>4. /\ DOMAIN refs'[k][u] \subseteq DOMAIN refs[k][u] \cup {last}
      /\ ~Of(r.id, u, k) => refs'[k][u] = refs[k][u]
      /\ last \notin DOMAIN refs[k][u]
  <2>1. refs[k][u] \in Seq(Ref) /\ u \in AllUsers
    BY UsersTimelines DEF TypeOK, StoreTypeOK
  <2>2. refs' = [refs EXCEPT ![l][v] = Append(@, r)]
    BY <1>3 DEF Push
  <2>3. /\ refs'[l][v] = Append(refs[l][v], r)
        /\ \A m \in Kinds, w \in AllUsers : m # l \/ w # v => refs'[m][w] = refs[m][w]
    <3>1. l \in Kinds /\ v \in AllUsers
      BY <1>3
    <3> QED BY <2>2, <3>1 DEF TypeOK, StoreTypeOK
  <2>4. DOMAIN Append(refs[k][u], r) = DOMAIN refs[k][u] \cup {last}
        /\ last \notin DOMAIN refs[k][u]
    BY <1>2, <2>1
  <2>5. CASE v = u /\ l = k
    BY <1>3, <2>3, <2>4, <2>5
  <2>6. CASE ~(v = u /\ l = k)
    <3>1. refs'[k][u] = refs[k][u]
      BY <2>1, <2>3, <2>6
    <3> QED BY <1>3, <2>4, <2>6, <3>1
  <2> QED BY <2>5, <2>6
<1>5. Pollable(u, k)' \subseteq Pollable(u, k) /\ Held(u, k)' \subseteq Held(u, k)
  <2>1. \A s \in Threads, i \in Nat : Waiting(s, i, u, k)' => Waiting(s, i, u, k)
    BY <1>1 DEF Waiting, Of, PrimaryKind
  <2>2. \A s \in Threads, j \in Nat : Holding(s, j, u, k)' => Holding(s, j, u, k)
    BY <1>1 DEF Holding, Of, PrimaryKind
  <2> QED BY <2>1, <2>2 DEF Pollable, Held
<1>6. <<"held", t, 1>> \notin Slots(u, k)'
  BY <1>1 DEF Slots, Held, Holding, Pollable, Referred
<1>7. <<"ref", u, last>> \in Slots(u, k)' => <<"held", t, 1>> \in Slots(u, k)
  <2>1. ASSUME Of(r.id, u, k) PROVE <<"held", t, 1>> \in Held(u, k)
    BY <1>1, <1>2, <2>1 DEF Held, Holding
  <2>2. ASSUME <<"ref", u, last>> \in Slots(u, k)' PROVE last \in DOMAIN refs'[k][u]
    BY <2>2 DEF Slots, Held, Pollable, Referred
  <2> QED BY <1>4, <2>1, <2>2 DEF Slots
<1>8. ASSUME NEW s \in Slots(u, k)' PROVE f[s] \in Slots(u, k)
  <2>1. CASE s = <<"ref", u, last>>
    BY <1>7, <2>1
  <2>2. CASE s # <<"ref", u, last>> /\ s \in Referred(u, k)'
    <3>1. s = <<"ref", u, s[3]>> /\ s[3] \in DOMAIN refs'[k][u] /\ s[3] \in Nat
      BY <2>2 DEF Referred
    <3>2. s \in Referred(u, k)
      BY <1>4, <2>2, <3>1 DEF Referred
    <3> QED BY <2>2, <3>2 DEF Slots
  <2>3. CASE s # <<"ref", u, last>> /\ s \in Pollable(u, k)' \cup Held(u, k)'
    BY <1>5, <2>3 DEF Slots
  <2> QED BY <2>1, <2>2, <2>3 DEF Slots
<1>9. ASSUME NEW a \in Slots(u, k)', NEW b \in Slots(u, k)', f[a] = f[b] PROVE a = b
  BY <1>6, <1>9
<1> HIDE DEF f
<1>10. f \in Injection(Slots(u, k)', Slots(u, k))
  <2>1. f \in [Slots(u, k)' -> Slots(u, k)]
    BY <1>8 DEF f
  <2> QED BY <1>9, <2>1 DEF Injection, IsInjective, f
<1> QED BY <1>10 DEF ExistsInjection

\* A thread takes a batch: what it holds then it could poll.
LEMMA SlotsBatch ==
    ASSUME TypeOK, NEW t \in Threads, TakeBatch(t), NEW u \in Users, NEW k \in Kinds
    PROVE  ExistsInjection(Slots(u, k)', Slots(u, k))
<1> DEFINE q == topic[t]
<1>1. q \in Seq(Delivery)
  BY DEF TypeOK, WorkTypeOK
<1>2. PICK n \in 1 .. Len(q) :
         LET tiny == Tinies(SubSeq(q, 1, n))
         IN  /\ topic' = [topic EXCEPT ![t] = SubSeq(@, n + 1, Len(@))]
             /\ \E creates \in Sortings(tiny, {i \in 1 .. n : ~SubSeq(q, 1, n)[i].delete
                                                               /\ Retained(tiny[i])}),
                   deletes \in InOrder(tiny, {i \in 1 .. n : SubSeq(q, 1, n)[i].delete}) :
                      thr' = [thr EXCEPT ![t] = Resume(creates, deletes)]
  BY DEF TakeBatch
<1> DEFINE b == SubSeq(q, 1, n)
           tiny == Tinies(b)
           places == {i \in 1 .. n : ~b[i].delete /\ Retained(tiny[i])}
<1>3. /\ n \in Nat /\ DOMAIN b = 1 .. n /\ \A i \in 1 .. n : b[i] = q[i]
      /\ DOMAIN q = 1 .. Len(q) /\ 1 .. n \subseteq DOMAIN q /\ Len(q) \in Nat
  BY <1>1
<1>4. \A i \in 1 .. n : tiny[i].id = q[i].id
  BY <1>3 DEF Tinies
<1>5. PICK creates \in Sortings(tiny, places), deletes \in InOrder(tiny, {i \in 1 .. n : b[i].delete}) :
         thr' = [thr EXCEPT ![t] = Resume(creates, deletes)]
  BY <1>2
<1>6. PICK g \in Orders(places) : creates = Arrange(tiny, g)
  BY <1>5 DEF Sortings
<1>7. /\ DOMAIN creates = DOMAIN g
      /\ \A j \in DOMAIN g : g[j] \in places /\ creates[j] = tiny[g[j]]
      /\ \A i, j \in DOMAIN g : g[i] = g[j] => i = j
  BY <1>6 DEF Orders, Arrange
<1>8. \A j \in DOMAIN g : /\ g[j] \in 1 .. n /\ ~q[g[j]].delete /\ creates[j].id = q[g[j]].id
  BY <1>3, <1>4, <1>7
<1>9. /\ thr'[t].creates = creates
      /\ \A s \in Threads \ {t} : thr'[s] = thr[s] /\ topic'[s] = topic[s]
      /\ topic'[t] = SubSeq(q, n + 1, Len(q))
  BY <1>2, <1>5 DEF TypeOK, WorkTypeOK, Resume
<1>10. \A i \in DOMAIN topic'[t] : i + n \in DOMAIN q /\ topic'[t][i] = q[i + n] /\ i >= 1
  BY <1>1, <1>3, <1>9
<1>11. refs' = refs
  BY DEF TakeBatch, store
<1> HIDE DEF q, b, tiny, places
<1> DEFINE f == [s \in Slots(u, k)' |->
                    IF s[1] = "held" /\ s[2] = t THEN <<"poll", t, g[s[3]]>>
                    ELSE IF s[1] = "poll" /\ s[2] = t THEN <<"poll", t, s[3] + n>> ELSE s]
<1>12. \A s \in Slots(u, k)' :
          /\ s[1] \in {"poll", "held", "ref"} /\ s[3] \in Nat /\ s = <<s[1], s[2], s[3]>>
          /\ s[1] = "held" /\ s[2] = t => s[3] \in DOMAIN g /\ Of(q[g[s[3]]].id, u, k)
          /\ s[1] = "poll" /\ s[2] = t => /\ s[3] + n \in DOMAIN q /\ ~q[s[3] + n].delete
                                          /\ Of(q[s[3] + n].id, u, k) /\ s[3] >= 1
          /\ s[2] # t \/ s[1] = "ref" => s \in Slots(u, k)
  <2> SUFFICES ASSUME NEW s \in Slots(u, k)'
               PROVE  /\ s[1] \in {"poll", "held", "ref"} /\ s[3] \in Nat /\ s = <<s[1], s[2], s[3]>>
                      /\ s[1] = "held" /\ s[2] = t => s[3] \in DOMAIN g /\ Of(q[g[s[3]]].id, u, k)
                      /\ s[1] = "poll" /\ s[2] = t => /\ s[3] + n \in DOMAIN q /\ ~q[s[3] + n].delete
                                                      /\ Of(q[s[3] + n].id, u, k) /\ s[3] >= 1
                      /\ s[2] # t \/ s[1] = "ref" => s \in Slots(u, k)
    OBVIOUS
  <2>1. CASE s \in Held(u, k)'
    <3>1. s[1] = "held" /\ s[3] \in Nat /\ s = <<s[1], s[2], s[3]>> /\ Holding(s[2], s[3], u, k)'
      BY <2>1 DEF Held
    <3>2. s[2] = t => s[3] \in DOMAIN g /\ Of(q[g[s[3]]].id, u, k)
      BY <1>7, <1>8, <1>9, <3>1 DEF Holding, Of, PrimaryKind
    <3>3. s[2] # t => s \in Held(u, k)
      BY <1>9, <2>1 DEF Held, Holding, Of, PrimaryKind
    <3> QED BY <3>1, <3>2, <3>3 DEF Slots
  <2>2. CASE s \in Pollable(u, k)'
    <3>1. s[1] = "poll" /\ s[3] \in Nat /\ s = <<s[1], s[2], s[3]>> /\ Waiting(s[2], s[3], u, k)'
      BY <2>2 DEF Pollable
    <3>2. s[2] = t => /\ s[3] + n \in DOMAIN q /\ ~q[s[3] + n].delete
                      /\ Of(q[s[3] + n].id, u, k) /\ s[3] >= 1
      BY <1>10, <3>1 DEF Waiting, Of, PrimaryKind
    <3>3. s[2] # t => s \in Pollable(u, k)
      BY <1>9, <2>2 DEF Pollable, Waiting, Of, PrimaryKind
    <3> QED BY <3>1, <3>2, <3>3 DEF Slots
  <2>3. CASE s \in Referred(u, k)'
    <3>1. s[1] = "ref" /\ s[3] \in Nat /\ s = <<s[1], s[2], s[3]>> /\ s \in Referred(u, k)
      BY <1>11, <2>3 DEF Referred
    <3> QED BY <3>1 DEF Slots
  <2> QED BY <2>1, <2>2, <2>3 DEF Slots
<1>13. \A i : i \in DOMAIN q /\ ~q[i].delete /\ Of(q[i].id, u, k) => <<"poll", t, i>> \in Slots(u, k)
  BY <1>3 DEF Slots, Pollable, Waiting, q
<1>14. ASSUME NEW s \in Slots(u, k)' PROVE f[s] \in Slots(u, k)
  <2>1. CASE s[1] = "held" /\ s[2] = t
    BY <1>3, <1>8, <1>12, <1>13, <2>1
  <2>2. CASE s[1] = "poll" /\ s[2] = t
    BY <1>12, <1>13, <2>2
  <2>3. CASE s[2] # t \/ s[1] = "ref"
    BY <1>12, <2>3
  <2> QED BY <1>12, <2>1, <2>2, <2>3
<1>15. ASSUME NEW s \in Slots(u, k)', NEW v \in Slots(u, k)', f[s] = f[v] PROVE s = v
  <2>1. CASE s[1] = "held" /\ s[2] = t
    <3>1. f[s] = <<"poll", t, g[s[3]]>> /\ s[3] \in DOMAIN g /\ g[s[3]] \in 1 .. n
      BY <1>8, <1>12, <2>1
    <3>2. v[1] = "held" /\ v[2] = t
      BY <1>3, <1>12, <1>15, <3>1
    <3>3. g[s[3]] = g[v[3]] /\ v[3] \in DOMAIN g
      BY <1>12, <1>15, <3>1, <3>2
    <3> QED BY <1>7, <1>12, <2>1, <3>1, <3>2, <3>3
  <2>2. CASE s[1] = "poll" /\ s[2] = t
    <3>1. f[s] = <<"poll", t, s[3] + n>> /\ s[3] \in Nat /\ s[3] >= 1
      BY <1>12, <2>2
    <3>2. ~(v[1] = "held" /\ v[2] = t)
      BY <1>3, <1>8, <1>12, <1>15, <3>1
    <3> QED BY <1>3, <1>12, <1>15, <2>2, <3>1, <3>2
  <2>3. CASE s[2] # t \/ s[1] = "ref"
    BY <1>12, <1>15, <2>3
  <2> QED BY <1>12, <2>1, <2>2, <2>3
<1> HIDE DEF f
<1>16. f \in Injection(Slots(u, k)', Slots(u, k))
  <2>1. f \in [Slots(u, k)' -> Slots(u, k)]
    BY <1>14 DEF f
  <2> QED BY <1>15, <2>1 DEF Injection, IsInjective, f
<1> QED BY <1>16 DEF ExistsInjection

\* Whatever the writers do, no slot appears out of nothing.
LEMMA SlotsStep ==
    ASSUME TypeOK, [Next]_vars, NEW u \in Users, NEW k \in Written
    PROVE  ExistsInjection(Slots(u, k)', Slots(u, k))
<1>1. k \in Kinds /\ k # "video" /\ u \in AllUsers /\ u # DeleteKey
  BY UsersTimelines DEF Written
<1>2. ASSUME topic' = topic, DOMAIN refs'[k][u] \subseteq DOMAIN refs[k][u],
             \A s \in Threads :
                /\ thr'[s].creates = thr[s].creates
                /\ thr[s].pc \in {"video", "push"} => thr'[s].pc \in {"video", "push"}
      PROVE  ExistsInjection(Slots(u, k)', Slots(u, k))
  <2>1. \A s \in Threads, i \in Nat : Waiting(s, i, u, k)' => Waiting(s, i, u, k)
    BY <1>2 DEF Waiting, Of, PrimaryKind
  <2>2. \A s \in Threads, j \in Nat : Holding(s, j, u, k)' => Holding(s, j, u, k)
    BY <1>2 DEF Holding, Of, PrimaryKind
  <2>3. Pollable(u, k)' \subseteq Pollable(u, k) /\ Held(u, k)' \subseteq Held(u, k)
    BY <2>1, <2>2 DEF Pollable, Held
  <2>4. Referred(u, k)' \subseteq Referred(u, k)
    BY <1>2 DEF Referred
  <2> QED BY <2>3, <2>4, SlotsFewer DEF Slots
<1>3. CASE Tick \/ UNCHANGED vars
  BY <1>2, <1>3 DEF Tick, vars, store
<1>4. CASE Maintain
  <2>1. thr' = thr /\ topic' = topic
    BY <1>4, MaintainKept
       DEF Maintain, FinalizeInit, SortNext, AutoTrim, DropPost, Unflag, LeaveUser, TrimNext,
           FinalizeEnds, TrimUser, SweepFlag, SortUser, PopOld
  <2>2. refs[k][u] \in Seq(Ref) /\ maint.kind \in Kinds /\ maint.user \in AllUsers
    BY <1>1, WalkTypes DEF TypeOK, StoreTypeOK
  <2>3. DOMAIN refs'[k][u] \subseteq DOMAIN refs[k][u]
    <3>1. CASE PopOld
      <4>1. refs' = [refs EXCEPT ![maint.kind][maint.user] = Tail(@)]
            /\ refs[maint.kind][maint.user] # <<>>
        BY <3>1 DEF PopOld, OldFront
      <4>2. CASE maint.kind = k /\ maint.user = u
        <5>1. refs'[k][u] = Tail(refs[k][u]) /\ refs[k][u] # <<>>
          BY <1>1, <4>1, <4>2 DEF TypeOK, StoreTypeOK
        <5> QED BY <2>2, <5>1
      <4>3. CASE ~(maint.kind = k /\ maint.user = u)
        <5>1. refs'[k][u] = refs[k][u]
          BY <1>1, <2>2, <4>1, <4>3 DEF TypeOK, StoreTypeOK
        <5> QED BY <5>1
      <4> QED BY <4>2, <4>3
    <3>2. ASSUME NEW v \in AllUsers, SortUser(v) PROVE DOMAIN refs'[k][u] \subseteq DOMAIN refs[k][u]
      <4>1. PICK sorted \in Sortings(refs[maint.kind][v], DOMAIN refs[maint.kind][v]) :
               refs' = [refs EXCEPT ![maint.kind][v] = sorted]
        BY <3>2 DEF SortUser
      <4>2. CASE maint.kind = k /\ v = u
        <5>1. PICK f \in Orders(DOMAIN refs[k][u]) : sorted = Arrange(refs[k][u], f)
          BY <4>1, <4>2 DEF Sortings
        <5>2. DOMAIN f = DOMAIN refs[k][u]
          BY <2>2, <5>1, OrderCovers
        <5>3. DOMAIN sorted = DOMAIN f
          BY <5>1 DEF Arrange
        <5>4. refs'[k][u] = sorted
          BY <1>1, <4>1, <4>2 DEF TypeOK, StoreTypeOK
        <5> QED BY <5>2, <5>3, <5>4
      <4>3. CASE ~(maint.kind = k /\ v = u)
        <5>1. refs'[k][u] = refs[k][u]
          BY <1>1, <2>2, <4>1, <4>3 DEF TypeOK, StoreTypeOK
        <5> QED BY <5>1
      <4> QED BY <4>2, <4>3
    <3>3. PopOld \/ (\E v \in AllUsers : SortUser(v)) \/ refs' = refs
      BY <1>4 DEF Maintain, FinalizeInit, SortNext, AutoTrim, DropPost, Unflag, LeaveUser, TrimNext,
                  FinalizeEnds, TrimUser, SweepFlag, store
    <3> QED BY <3>1, <3>2, <3>3
  <2> QED BY <1>2, <2>1, <2>3
<1>5. ASSUME NEW t \in Threads, Listen(t) PROVE ExistsInjection(Slots(u, k)', Slots(u, k))
  <2>1. \A s \in Threads \ {t} : thr'[s] = thr[s]
    BY <1>5, ListenKept
  <2>2. ASSUME NEW pc, thr[t].pc \notin {"video", "push"} \/ pc \in {"video", "push"}, Goto(t, pc),
               topic' = topic, refs'[k][u] = refs[k][u]
        PROVE  ExistsInjection(Slots(u, k)', Slots(u, k))
    BY <1>2, <2>1, <2>2, GotoEffect
  <2>3. ASSUME thr[t].pc \in Creates, NextCreate(t), topic' = topic, refs'[k][u] = refs[k][u]
        PROVE  ExistsInjection(Slots(u, k)', Slots(u, k))
    BY <1>1, <2>3, SlotsNext
  <2>4. CASE CheckDeleted(t) \/ StorePost(t) \/ DecideVideo(t) \/ RemovePost(t) \/ FlagDeleted(t)
    BY <2>2, <2>3, <2>4
       DEF CheckDeleted, StorePost, DecideVideo, RemovePost, FlagDeleted, At, Creates, store
  <2>5. CASE PushVideo(t)
    <3>1. thr[t].pc \in Creates /\ NextCreate(t) /\ topic' = topic
      BY <2>5 DEF PushVideo, At, Creates
    <3>2. refs'[k][u] = refs[k][u]
      <4>1. \E v, r : refs' = [refs EXCEPT !["video"][v] = Append(@, r)]
        BY <2>5 DEF PushVideo, Push
      <4> QED BY <1>1, <4>1 DEF TypeOK, StoreTypeOK
    <3> QED BY <2>3, <3>1, <3>2
  <2>6. CASE BuryPost(t)
    <3>1. thr[t].pc = "bury" /\ NextDelete(t) /\ topic' = topic
      BY <2>6 DEF BuryPost, At
    <3>2. refs'[k][u] = refs[k][u]
      <4>1. \E r : refs' = [refs EXCEPT !["original"][DeleteKey] = Append(@, r)]
        BY <2>6 DEF BuryPost, Push
      <4> QED BY <1>1, <4>1, DeleteKeyIsUser DEF TypeOK, StoreTypeOK
    <3>3. thr'[t].creates = thr[t].creates
      BY <3>1 DEF NextDelete, Resume, TypeOK, WorkTypeOK
    <3> QED BY <1>2, <2>1, <3>1, <3>2, <3>3
  <2> QED BY <1>1, <1>5, <2>4, <2>5, <2>6, SlotsRefer, SlotsBatch DEF Listen
<1> QED BY <1>3, <1>4, <1>5 DEF Next

\* The account stays right at every step of the writers.
LEMMA AccountedStep == TypeOK /\ Accounted /\ [Next]_vars => Accounted'
<1> SUFFICES ASSUME TypeOK, Accounted, [Next]_vars, NEW u \in Users, NEW k \in Written
             PROVE  ExistsInjection(Slots(u, k)', Created(u, k))
  BY DEF Accounted, Created, CreatesOf, PrimaryKind
<1>1. ExistsInjection(Slots(u, k)', Slots(u, k))
  BY SlotsStep
<1>2. ExistsInjection(Slots(u, k), Created(u, k))
  BY DEF Accounted
<1> HIDE DEF Slots, Created
<1> QED BY <1>1, <1>2, Fun_ExistsInjTransitive

\* A step that writes nothing leaves the account as it is.
LEMMA AccountedSame == Accounted /\ UNCHANGED writing => Accounted'
<1> SUFFICES ASSUME Accounted, UNCHANGED writing, NEW u \in Users, NEW k \in Written
             PROVE  ExistsInjection(Slots(u, k)', Created(u, k))
  BY DEF Accounted, Created, CreatesOf, PrimaryKind
<1>1. UNCHANGED <<refs, topic, thr>>
  BY DEF writing
<1>2. \A t \in Threads, i \in Nat : /\ Waiting(t, i, u, k)' = Waiting(t, i, u, k)
                                   /\ Holding(t, i, u, k)' = Holding(t, i, u, k)
  BY <1>1 DEF Waiting, Holding, Of, PrimaryKind
<1>3. Slots(u, k)' = Slots(u, k)
  <2>1. Pollable(u, k)' = Pollable(u, k) /\ Held(u, k)' = Held(u, k)
    BY <1>2 DEF Pollable, Held
  <2>2. Referred(u, k)' = Referred(u, k)
    BY <1>1 DEF Referred
  <2> QED BY <2>1, <2>2 DEF Slots
<1> QED BY <1>3 DEF Accounted

\* At the start every create is still to poll.
LEMMA AccountedInit == Init => Accounted
<1> SUFFICES ASSUME Init, NEW u \in Users, NEW k \in Written
             PROVE  ExistsInjection(Slots(u, k), Created(u, k))
  BY DEF Accounted
<1> DEFINE f == [s \in Slots(u, k) |-> <<s[2], s[3]>>]
<1>1. Held(u, k) = {}
  BY DEF Init, Held, Holding
<1>2. Referred(u, k) = {}
  BY UsersTimelines DEF Init, Referred, Written
<1>3. \A s \in Slots(u, k) : /\ s = <<"poll", s[2], s[3]>> /\ s[2] \in Threads
                              /\ Waiting(s[2], s[3], u, k)
  BY <1>1, <1>2 DEF Slots, Pollable
<1>4. \A s \in Slots(u, k) : <<s[2], s[3]>> \in Created(u, k)
  <2> SUFFICES ASSUME NEW s \in Slots(u, k) PROVE <<s[2], s[3]>> \in Created(u, k)
    OBVIOUS
  <2>1. s[2] \in Threads /\ s[3] \in CreatesOf(s[2], u, k)
    BY <1>3 DEF Init, Waiting, Of, CreatesOf
  <2>2. <<s[2], s[3]>> \in {s[2]} \X CreatesOf(s[2], u, k)
    BY <2>1
  <2> QED BY <2>1, <2>2 DEF Created
<1>5. f \in Injection(Slots(u, k), Created(u, k))
  <2>1. f \in [Slots(u, k) -> Created(u, k)]
    BY <1>4
  <2>2. \A a, b \in Slots(u, k) : f[a] = f[b] => a = b
    BY <1>3
  <2> QED BY <2>1, <2>2 DEF Injection, IsInjective
<1> QED BY <1>5 DEF ExistsInjection

\* The topic holds finitely many creates.
LEMMA CreatedFinite ==
    ASSUME NEW u, NEW k
    PROVE  IsFiniteSet(Created(u, k))
<1> DEFINE S == {{t} \X CreatesOf(t, u, k) : t \in Threads}
           f == [t \in Threads |-> {t} \X CreatesOf(t, u, k)]
<1>1. f \in Surjection(Threads, S)
  BY DEF Surjection
<1>2. IsFiniteSet(S)
  BY <1>1, FS_Surjection, FeedAssumption
<1>3. ASSUME NEW T \in S PROVE IsFiniteSet(T)
  <2>1. PICK t \in Threads : T = {t} \X CreatesOf(t, u, k)
    OBVIOUS
  <2>2. Len(Feed[t]) \in Nat /\ DOMAIN Feed[t] = 1 .. Len(Feed[t])
    BY FeedAssumption
  <2>3. IsFiniteSet(DOMAIN Feed[t])
    BY <2>2, FS_Interval
  <2>4. CreatesOf(t, u, k) \subseteq DOMAIN Feed[t]
    BY DEF CreatesOf
  <2>5. IsFiniteSet(CreatesOf(t, u, k)) /\ IsFiniteSet({t})
    BY <2>3, <2>4, FS_Subset, FS_Singleton
  <2> QED BY <2>1, <2>5, FS_Product
<1>4. IsFiniteSet(UNION S)
  BY <1>2, <1>3, FS_UNION
<1> QED BY <1>4 DEF Created

\* So no timeline of posts is longer than what its author wrote.
LEMMA TimelineBound ==
    ASSUME TypeOK, Accounted, RoomForAll, NEW u \in Users, NEW k \in Written
    PROVE  Len(refs[k][u]) <= Cap[k] /\ Len(refs[k][u]) <= MaxScan
<1> DEFINE n == Len(refs[k][u])
           C == Created(u, k)
           R == Referred(u, k)
           f == [i \in 1 .. n |-> <<"ref", u, i>>]
<1>1. n \in Nat /\ DOMAIN refs[k][u] = 1 .. n
  BY UsersTimelines DEF TypeOK, StoreTypeOK, Written
<1>2. PICK g \in Injection(Slots(u, k), C) : TRUE
  BY DEF Accounted, ExistsInjection
<1>3. \A i \in 1 .. n : <<"ref", u, i>> \in Slots(u, k)
  BY <1>1 DEF Slots, Referred
<1> DEFINE h == [i \in 1 .. n |-> g[<<"ref", u, i>>]]
<1>4. h \in Injection(1 .. n, C)
  <2>1. h \in [1 .. n -> C]
    BY <1>2, <1>3 DEF Injection
  <2>2. \A i, j \in 1 .. n : h[i] = h[j] => i = j
    <3>1. \A a, b \in Slots(u, k) : g[a] = g[b] => a = b
      BY <1>2 DEF Injection, IsInjective
    <3> QED BY <1>3, <3>1
  <2> QED BY <2>1, <2>2 DEF Injection, IsInjective
<1>5. IsFiniteSet(C)
  BY CreatedFinite
<1> HIDE DEF h, C, n
<1>6. IsFiniteSet(1 .. n) /\ Cardinality(1 .. n) = n
  BY <1>1, FS_Interval
<1>7. n <= Cardinality(C)
  BY <1>4, <1>5, <1>6, FS_Injection
<1>8. Cardinality(C) <= Cap[k] /\ Cardinality(C) <= MaxScan
  BY DEF RoomForAll, Written, C, Created
<1>9. Cap[k] \in Nat /\ MaxScan \in Nat /\ Cardinality(C) \in Nat
  BY <1>5, LimitsAssumption, FS_CardinalityType DEF Cap, Written, Kinds
<1> QED BY <1>1, <1>7, <1>8, <1>9 DEF n

-----------------------------------------------------------------------------
(* What was there to read when a call came in *)

\* A post of a call is there to read until it is excused.
Stored(p) == p \in posts /\ Refers(refs[PrimaryKind(p)][Light[p].author], p)
Dues(c) ==
    /\ due[c] \subseteq Wanted(c)
    /\ task[c] # "over" => \A p \in due[c] : Excused(p) \/ Stored(p)

\* A post leaves the store and its timeline only after it is excused.
LEMMA StoredStep ==
    ASSUME IInv, [Next]_vars, NEW p \in PostIds, Excused(p) \/ Stored(p)
    PROVE  Excused(p)' \/ Stored(p)'
<1> SUFFICES ASSUME ~Excused(p)' PROVE Stored(p)'
  OBVIOUS
<1> DEFINE k == PrimaryKind(p)
           u == Light[p].author
<1>1. TypeOK /\ TrimmedExcused /\ ~Excused(p) /\ Stored(p)
  BY ExcusedStep DEF IInv
<1>2. k \in Kinds /\ u \in AllUsers
  BY PostTypes
<1>3. (Stored(p)' <=> p \in posts' /\ Refers(refs'[k][u], p)) /\ Refers(refs[k][u], p)
  BY <1>1 DEF Stored, PrimaryKind
<1> HIDE DEF k, u
<1>4. CASE Tick \/ UNCHANGED vars
  BY <1>1, <1>3, <1>4 DEF Tick, vars, store, Stored
<1>5. CASE Maintain
  <2>1. Refers(refs'[k][u], p)
    <3>1. CASE PopOld
      <4>1. p # Front.id
        <5>1. maint'.pc = "drop" /\ maint'.id = Front.id /\ TrimmedExcused'
          BY <1>1, <3>1, PopKept, TrimStep
        <5>2. TooOld(maint.id)' \/ maint'.id \in early'
          BY <5>1 DEF TrimmedExcused
        <5> QED BY <5>1, <5>2 DEF Excused, TooOld
      <4> QED BY <1>1, <1>2, <1>3, <3>1, <4>1, PopKept
    <3>2. CASE Kept
      BY <1>2, <1>3, <3>2 DEF Kept
    <3> QED BY <1>1, <1>5, <3>1, <3>2, MaintainKept
  <2>2. p \in posts'
    BY <1>1, <1>5
       DEF Maintain, FinalizeInit, SortNext, AutoTrim, DropPost, Unflag, LeaveUser, TrimNext, Stored,
           FinalizeEnds, TrimUser, SweepFlag, SortUser, PopOld, store, TrimmedExcused, Excused
  <2> QED BY <1>3, <2>1, <2>2
<1>6. ASSUME NEW t \in Threads, Listen(t) PROVE Stored(p)'
  <2>1. Refers(refs'[k][u], p)
    BY <1>1, <1>2, <1>3, <1>6, ListenKept DEF Kept
  <2>2. p \in posts'
    <3>1. CASE RemovePost(t)
      <4>1. thr'[t].pc = "flag" /\ Deleting(t)' = Deleting(t)
        BY <1>1, <3>1, GotoEffect DEF RemovePost, Deleting
      <4>2. p # Deleting(t).id
        BY <4>1 DEF Excused, BeingFlagged, At
      <4> QED BY <1>1, <3>1, <4>2 DEF RemovePost, Stored
    <3>2. CASE ~RemovePost(t)
      BY <1>1, <1>6, <3>2
         DEF Listen, TakeBatch, CheckDeleted, StorePost, ReferPost, DecideVideo, PushVideo,
             FlagDeleted, BuryPost, store, Stored
    <3> QED BY <3>1, <3>2
  <2> QED BY <1>3, <2>1, <2>2
<1> QED BY <1>4, <1>5, <1>6 DEF Next

\* A step that writes nothing excuses nothing.
LEMMA SameStored ==
    ASSUME UNCHANGED writing
    PROVE  \A p : (Excused(p)' <=> Excused(p)) /\ (Stored(p)' <=> Stored(p))
BY DEF writing, Excused, Stored, TooOld, BeingFlagged, At, Deleting, PrimaryKind

-----------------------------------------------------------------------------
(* The scan of a timeline *)

\* A scan that is not cut short has every post of the timeline that is not excluded.
LEMMA ScanHasAll ==
    ASSUME NEW q \in Seq(Ref), NEW exclude, NEW ids \in Scan(q, exclude)
    PROVE  /\ ids \in Seq(PostIds)
           /\ Len(ids) <= Len(q)
           /\ Len(q) <= MaxScan => \A p : Refers(q, p) /\ p \notin exclude => p \in SeqSet(ids)
<1> DEFINE places == {i \in DOMAIN q : q[i].id \notin exclude}
           Ids(s) == [i \in DOMAIN s |-> s[i].id]
           Cut(s) == SubSeq(s, 1, IF Len(s) < MaxScan THEN Len(s) ELSE MaxScan)
           m == Cardinality(places)
<1>1. PICK s \in Backwards(q, places) : ids = Cut(Ids(s))
  BY DEF Scan
<1>2. PICK f \in Orders(places) : s = Arrange(q, f)
  BY <1>1 DEF Backwards
<1>3. Len(q) \in Nat /\ DOMAIN q = 1 .. Len(q) /\ \A i \in DOMAIN q : q[i].id \in PostIds
  BY RefTypes
<1>4. IsFiniteSet(1 .. Len(q)) /\ Cardinality(1 .. Len(q)) = Len(q)
  <2> DEFINE n == Len(q)
  <2>1. n \in Nat
    BY <1>3
  <2> HIDE DEF n
  <2>2. IsFiniteSet(1 .. n) /\ Cardinality(1 .. n) = n
    BY <2>1, FS_Interval
  <2> QED BY <2>2 DEF n
<1>5. IsFiniteSet(places) /\ m \in Nat /\ m <= Len(q)
  BY <1>3, <1>4, FS_Subset, FS_CardinalityType
<1> HIDE DEF places, m
<1>6. f \in [1 .. m -> places] /\ \A i, j \in 1 .. m : f[i] = f[j] => i = j
  BY <1>2 DEF Orders, m
<1>7. \A i \in 1 .. m : f[i] \in DOMAIN q
  BY <1>6 DEF places
<1>8. f \in Surjection(1 .. m, places)
  <2>1. f \in Injection(1 .. m, places)
    BY <1>6 DEF Injection, IsInjective
  <2>2. Cardinality(1 .. m) = m
    BY <1>5, FS_Interval
  <2> QED BY <1>5, <2>1, <2>2, FS_Injection DEF m
<1> DEFINE r == Ids(s)
<1>9. r = [i \in 1 .. m |-> q[f[i]].id]
  BY <1>2, <1>6, <1>7 DEF Arrange
<1>10. r \in Seq(PostIds) /\ Len(r) = m /\ DOMAIN r = 1 .. m
  <2>1. r \in [1 .. m -> PostIds]
    BY <1>3, <1>7, <1>9
  <2> QED BY <1>5, <2>1
<1>11. ids = SubSeq(r, 1, IF m < MaxScan THEN m ELSE MaxScan)
  BY <1>1, <1>10
<1>12. ASSUME NEW p, Refers(q, p), p \notin exclude PROVE \E i \in 1 .. m : r[i] = p
  <2>1. PICK j \in DOMAIN q : q[j].id = p
    BY <1>12 DEF Refers
  <2>2. j \in places
    BY <1>12, <2>1 DEF places
  <2>3. PICK i \in 1 .. m : f[i] = j
    BY <1>8, <2>2 DEF Surjection
  <2> QED BY <1>9, <2>1, <2>3
<1> HIDE DEF r
<1>13. ids \in Seq(PostIds) /\ Len(ids) <= m
  BY <1>5, <1>10, <1>11, LimitsAssumption
<1>14. ASSUME Len(q) <= MaxScan PROVE ids = r
  <2>1. (IF m < MaxScan THEN m ELSE MaxScan) = m
    BY <1>3, <1>5, <1>14, LimitsAssumption
  <2> QED BY <1>10, <1>11, <2>1
<1>15. ASSUME Len(q) <= MaxScan, NEW p, Refers(q, p), p \notin exclude PROVE p \in SeqSet(ids)
  BY <1>10, <1>12, <1>14, <1>15 DEF SeqSet
<1> QED BY <1>3, <1>5, <1>13, <1>15

-----------------------------------------------------------------------------
(* What a read has still to take *)

InScan == rd.pc \in {"post", "check", "reply"}

\* The read in progress, for the call it is made for.
ReadShape ==
    rd.pc # "idle" =>
       /\ rd.req = ReadOf(scan)
       /\ rd.users \in Seq(Users) /\ rd.ids \in Seq(PostIds) /\ rd.taken \in Nat
       /\ rd.kind = "video" <=> Asked[scan].video
       /\ rd.pc = "user" => rd.ids = <<>>
       /\ InScan => rd.users # <<>>
       /\ rd.pc \in {"check", "reply"} => rd.ids # <<>>
       /\ rd.pc = "reply" => rd.kind = "secondary"

\* The users whose timelines are still to scan, and the posts of a read that it
\* has or is still to come to.
Ahead == IF InScan THEN Tail(rd.users) ELSE rd.users
Pending(p) ==
    \/ p \in SeqSet(result)
    \/ PrimaryKind(p) = rd.kind /\ p \in SeqSet(rd.ids)
    \/ PrimaryKind(p) = rd.kind /\ Light[p].author \in SeqSet(Ahead)
    \/ PrimaryKind(p) = "secondary" /\ rd.kind = "original"

\* A read that is not late takes whatever it comes to: there is room for it, and
\* none of what its answer is to hold is behind.
Sought(c, p) == p \in due[c] /\ ~Excused(p) /\ Shown(p, {q \in due[c] : ~Excused(q)})
Seeks(c) ==
    (scan = c /\ rd.pc # "idle" /\ ~rd.late /\ ~Asked[c].video /\ RoomForAll) =>
       /\ InScan => rd.taken + Len(rd.ids) <= Cap[rd.kind]
       /\ \A p \in PostIds : Sought(c, p) => Pending(p)

\* What a call asks the store for is a list of users.
LEMMA ReadOfType ==
    ASSUME NEW c \in Calls
    PROVE  /\ ReadOf(c).users \in Seq(Users) /\ Asked[c].video \in BOOLEAN
           /\ ReadOf(c).video = Asked[c].video
<1>1. Asked[c] \in AskType
  BY CallsAssumption
<1>2. Followed(c) \in Seq(Users)
  BY <1>1, FollowsAssumption DEF Followed, UsesStrato, AskType
<1>3. FirstK(Followed(c)) \in Seq(Users)
  BY <1>2, ServiceLimitsAssumption DEF FirstK
<1> QED BY <1>1, <1>3 DEF ReadOf, AskType

\* Only the end of the last stage ends a read, with nothing left to scan.
LEMMA ReadEnds ==
    ASSUME ReadTypeOK, ReadOn, rd'.pc = "idle"
    PROVE  rd.pc = "user" /\ rd.users = <<>> /\ rd.kind # "original"
BY DEF ReadOn, ScanUser, TimeOut, LookUp, FilterPost, FilterReply, LeaveScan, EndStage, Skip, Take,
       ReadTypeOK, ReadRecord

\* What the steps of a scan change.
LEMMA SkipEffect ==
    ASSUME ReadTypeOK, ReadShape, Skip \/ Take, InScan, rd.ids # <<>>
    PROVE  /\ rd'.pc = "post" /\ rd'.ids = Tail(rd.ids) /\ rd'.taken \in {rd.taken, rd.taken + 1}
           /\ rd'.req = rd.req /\ rd'.users = rd.users /\ rd'.kind = rd.kind /\ rd'.late = rd.late
BY DEF Skip, Take, ReadTypeOK, ReadRecord

\* A read keeps its shape until it ends.
LEMMA ShapeRead ==
    ASSUME SInv, ReadShape, ReadOn, rd'.pc # "idle", scan' = scan
    PROVE  ReadShape'
<1>1. ReadTypeOK /\ TypeOK /\ rd.pc # "idle" /\ scan \in Calls
  <2>1. rd.pc # "idle"
    BY DEF ReadOn, ScanUser, TimeOut, LookUp, FilterPost, FilterReply, LeaveScan, EndStage
  <2> QED BY <2>1 DEF SInv, IInv, TaskTypeOK
<1>2. /\ rd.req = ReadOf(scan)
      /\ rd.users \in Seq(Users) /\ rd.ids \in Seq(PostIds) /\ rd.taken \in Nat
      /\ rd.kind = "video" <=> Asked[scan].video
  BY <1>1 DEF ReadShape
<1>3. ReadOf(scan)' = ReadOf(scan)
  BY DEF ReadOf, Followed, UsesStrato
<1>4. ASSUME InScan, rd.ids # <<>>, Skip \/ Take PROVE ReadShape'
  <2>1. Tail(rd.ids) \in Seq(PostIds)
    BY <1>2, <1>4
  <2>2. /\ rd'.pc = "post" /\ rd'.ids = Tail(rd.ids) /\ rd'.taken \in {rd.taken, rd.taken + 1}
        /\ rd'.req = rd.req /\ rd'.users = rd.users /\ rd'.kind = rd.kind
    BY <1>1, <1>4, SkipEffect
  <2>3. rd.users # <<>>
    BY <1>1, <1>4 DEF ReadShape
  <2> QED BY <1>2, <1>3, <2>1, <2>2, <2>3 DEF ReadShape, InScan
<1>5. CASE ScanUser
  <2>1. PICK ids \in Scan(refs[rd.kind][Head(rd.users)], rd.req.exclude) :
           rd' = [rd EXCEPT !.pc = "post", !.taken = 0, !.ids = ids]
    BY <1>5 DEF ScanUser
  <2>2. rd.users # <<>> /\ Head(rd.users) \in Users /\ rd.kind \in Kinds
    BY <1>1, <1>2, <1>5 DEF ScanUser, ReadTypeOK, ReadRecord
  <2>3. refs[rd.kind][Head(rd.users)] \in Seq(Ref)
    BY <1>1, <2>2, UsersTimelines DEF TypeOK, StoreTypeOK
  <2>4. ids \in Seq(PostIds)
    BY <2>3, ScanHasAll
  <2>5. /\ rd'.pc = "post" /\ rd'.ids = ids /\ rd'.taken = 0 /\ rd'.users = rd.users
        /\ rd'.req = rd.req /\ rd'.kind = rd.kind
    BY <1>1, <2>1 DEF ReadTypeOK, ReadRecord
  <2> QED BY <1>2, <1>3, <2>2, <2>4, <2>5 DEF ReadShape, InScan
<1>6. CASE TimeOut
  <2>1. /\ rd'.pc = "user" /\ rd'.ids = rd.ids /\ rd'.taken = rd.taken /\ rd'.users = <<>>
        /\ rd'.req = rd.req /\ rd'.kind = rd.kind /\ rd.pc = "user"
    BY <1>1, <1>6 DEF TimeOut, ReadTypeOK, ReadRecord
  <2> QED BY <1>1, <1>2, <1>3, <2>1 DEF ReadShape, InScan
<1>7. CASE LookUp
  <2>1. InScan /\ rd.ids # <<>>
    BY <1>7 DEF LookUp, ScanOver, InScan
  <2>2. CASE rd' = [rd EXCEPT !.pc = "check"]
    <3>1. /\ rd'.pc = "check" /\ rd'.ids = rd.ids /\ rd'.taken = rd.taken /\ rd'.users = rd.users
          /\ rd'.req = rd.req /\ rd'.kind = rd.kind
      BY <1>1, <2>2 DEF ReadTypeOK, ReadRecord
    <3> QED BY <1>1, <1>2, <1>3, <2>1, <3>1 DEF ReadShape, InScan
  <2> QED BY <1>4, <1>7, <2>1, <2>2 DEF LookUp
<1>8. CASE FilterPost
  <2>1. InScan /\ rd.ids # <<>>
    BY <1>1, <1>8 DEF FilterPost, InScan, ReadShape
  <2>2. CASE rd' = [rd EXCEPT !.pc = "reply"] /\ rd.kind = "secondary"
    <3>1. /\ rd'.pc = "reply" /\ rd'.ids = rd.ids /\ rd'.taken = rd.taken /\ rd'.users = rd.users
          /\ rd'.req = rd.req /\ rd'.kind = rd.kind
      BY <1>1, <2>2 DEF ReadTypeOK, ReadRecord
    <3> QED BY <1>1, <1>2, <1>3, <2>1, <2>2, <3>1 DEF ReadShape, InScan
  <2>3. Skip \/ Take \/ (rd' = [rd EXCEPT !.pc = "reply"] /\ rd.kind = "secondary")
    BY <1>8 DEF FilterPost
  <2> QED BY <1>4, <2>1, <2>2, <2>3
<1>9. CASE FilterReply
  <2>1. InScan /\ rd.ids # <<>>
    BY <1>1, <1>9 DEF FilterReply, InScan, ReadShape
  <2> QED BY <1>4, <1>9, <2>1 DEF FilterReply
<1>10. CASE LeaveScan
  <2>1. /\ rd'.pc = "user" /\ rd'.ids = <<>> /\ rd'.taken = 0 /\ rd'.users = Tail(rd.users)
        /\ rd'.req = rd.req /\ rd'.kind = rd.kind /\ rd.users # <<>>
    BY <1>1, <1>10 DEF LeaveScan, ReadTypeOK, ReadRecord, ReadShape, InScan
  <2>2. Tail(rd.users) \in Seq(Users) /\ <<>> \in Seq(PostIds)
    BY <1>2, <1>3, <2>1
  <2> QED BY <1>2, <1>3, <2>1, <2>2 DEF ReadShape, InScan
<1>11. CASE EndStage
  <2>1. rd.kind = "original" /\ rd.pc = "user"
    BY <1>11 DEF EndStage, NoRead
  <2>2. /\ rd'.pc = "user" /\ rd'.ids = rd.ids /\ rd'.taken = rd.taken /\ rd'.kind = "secondary"
        /\ rd'.users \in {<<>>, rd.req.users} /\ rd'.req = rd.req
    BY <1>1, <1>11, <2>1 DEF EndStage, ReadTypeOK, ReadRecord
  <2>3. rd'.users \in Seq(Users)
    <3>1. ReadOf(scan).users \in Seq(Users)
      BY <1>1, ReadOfType
    <3>2. rd.req.users = ReadOf(scan).users
      BY <1>2
    <3>3. <<>> \in Seq(Users)
      OBVIOUS
    <3> QED BY <2>2, <3>1, <3>2, <3>3
  <2>4. ~Asked[scan].video /\ rd.ids = <<>>
    BY <1>1, <1>2, <2>1 DEF ReadShape
  <2>5. rd'.kind # "video" /\ ~InScan' /\ rd'.pc \notin {"check", "reply"}
    BY <2>2 DEF InScan
  <2> QED BY <1>2, <1>3, <2>2, <2>3, <2>4, <2>5 DEF ReadShape
<1> QED BY <1>5, <1>6, <1>7, <1>8, <1>9, <1>10, <1>11 DEF ReadOn

\* A read begins in shape, with the users its call asks for.
LEMMA ShapeBegins ==
    ASSUME ReadTypeOK, BeginRead, NEW c \in Calls, rd'.req = ReadOf(c), scan' = c
    PROVE  ReadShape' /\ rd'.users = ReadOf(c).users /\ rd'.pc = "user" /\ result' = <<>>
           /\ rd'.kind \in {"original", "video"}
<1>1. /\ rd'.pc = "user" /\ rd'.ids = <<>> /\ rd'.taken = 0 /\ rd'.users = rd'.req.users
      /\ rd'.kind = (IF rd'.req.video THEN "video" ELSE "original") /\ result' = <<>>
  BY DEF BeginRead, NoRead
<1>2. <<>> \in Seq(PostIds)
  OBVIOUS
<1>3. ReadOf(scan)' = ReadOf(c)
  BY DEF ReadOf, Followed, UsesStrato
<1> QED BY <1>1, <1>2, <1>3, ReadOfType DEF ReadShape, InScan

-----------------------------------------------------------------------------
(* A read that is not late comes to all of it *)

\* A sequence has its first element and the others.
LEMMA HeadAndTail ==
    ASSUME NEW S, NEW q \in Seq(S), q # <<>>
    PROVE  /\ SeqSet(q) = {Head(q)} \cup SeqSet(Tail(q))
           /\ Len(Tail(q)) = Len(q) - 1 /\ Len(q) \in Nat /\ Len(q) >= 1
<1>1. /\ DOMAIN q = 1 .. Len(q) /\ Len(q) \in Nat /\ Len(q) >= 1
      /\ DOMAIN Tail(q) = 1 .. (Len(q) - 1) /\ Len(Tail(q)) = Len(q) - 1
      /\ \A i \in 1 .. (Len(q) - 1) : Tail(q)[i] = q[i + 1]
      /\ Head(q) = q[1]
  OBVIOUS
<1>2. ASSUME NEW x \in SeqSet(q) PROVE x \in {Head(q)} \cup SeqSet(Tail(q))
  <2>1. PICK i \in 1 .. Len(q) : q[i] = x
    BY <1>1 DEF SeqSet
  <2>2. CASE i = 1
    BY <1>1, <2>1, <2>2
  <2>3. CASE i # 1
    <3>1. i - 1 \in 1 .. (Len(q) - 1) /\ Tail(q)[i - 1] = x
      BY <1>1, <2>1, <2>3
    <3> QED BY <1>1, <3>1 DEF SeqSet
  <2> QED BY <2>2, <2>3
<1>3. ASSUME NEW x \in {Head(q)} \cup SeqSet(Tail(q)) PROVE x \in SeqSet(q)
  <2>1. CASE x = Head(q)
    BY <1>1, <2>1 DEF SeqSet
  <2>2. CASE x \in SeqSet(Tail(q))
    <3>1. PICK i \in 1 .. (Len(q) - 1) : Tail(q)[i] = x
      BY <1>1, <2>2 DEF SeqSet
    <3>2. i + 1 \in 1 .. Len(q) /\ q[i + 1] = x
      BY <1>1, <3>1
    <3> QED BY <1>1, <3>2 DEF SeqSet
  <2> QED BY <1>3, <2>1, <2>2
<1> QED BY <1>1, <1>2, <1>3

\* An appended element is in the sequence.
LEMMA AppendSet ==
    ASSUME NEW S, NEW q \in Seq(S), NEW x \in S
    PROVE  SeqSet(Append(q, x)) = SeqSet(q) \cup {x}
<1>1. /\ DOMAIN q = 1 .. Len(q) /\ Len(q) \in Nat
      /\ DOMAIN Append(q, x) = 1 .. (Len(q) + 1)
      /\ \A i \in 1 .. (Len(q) + 1) : Append(q, x)[i] = (IF i = Len(q) + 1 THEN x ELSE q[i])
  OBVIOUS
<1>2. ASSUME NEW y \in SeqSet(Append(q, x)) PROVE y \in SeqSet(q) \cup {x}
  BY <1>1, <1>2 DEF SeqSet
<1>3. ASSUME NEW y \in SeqSet(q) PROVE y \in SeqSet(Append(q, x))
  <2>1. PICK i \in 1 .. Len(q) : q[i] = y
    BY <1>1, <1>3 DEF SeqSet
  <2>2. i \in 1 .. (Len(q) + 1) /\ Append(q, x)[i] = y
    BY <1>1, <2>1
  <2> QED BY <1>1, <2>2 DEF SeqSet
<1>4. x \in SeqSet(Append(q, x))
  <2>1. Len(q) + 1 \in 1 .. (Len(q) + 1) /\ Append(q, x)[Len(q) + 1] = x
    BY <1>1
  <2> QED BY <1>1, <2>1 DEF SeqSet
<1> QED BY <1>2, <1>3, <1>4

\* What is sought is there, and the filters let it through.
LEMMA SoughtPosts ==
    ASSUME SInv, NEW c \in Calls, Dues(c), task[c] # "over", NEW p \in PostIds, Sought(c, p)
    PROVE  /\ Stored(p) /\ p \in posts /\ p \notin deleted
           /\ Light[p].author \in SeqSet(ReadOf(c).users) /\ p \notin ReadOf(c).exclude
           /\ PrimaryKind(p) \in Written /\ ~Light[p].isRetweet
           /\ PrimaryKind(p) = "secondary" =>
                 /\ Light[p].replyTo \in posts
                 /\ ~Light[Light[p].replyTo].isRetweet /\ ~Light[Light[p].replyTo].isReply
<1>1. \A q \in due[c] : ~Excused(q) => Stored(q) /\ q \in posts /\ q \notin deleted
  BY DEF Dues, Stored, Excused
<1>2. p \in due[c] /\ ~Excused(p) /\ p \in Wanted(c)
  BY DEF Sought, Dues
<1>3. PrimaryKind(p) \in Written
  BY PostTypes DEF Written
<1>4. CASE PrimaryKind(p) = "original"
  <2>1. ~Light[p].isRetweet
    BY <1>4 DEF PrimaryKind
  <2> QED BY <1>1, <1>2, <1>3, <1>4, <2>1 DEF Wanted
<1>5. CASE PrimaryKind(p) # "original"
  <2>1. /\ ~Light[p].isRetweet /\ PrimaryKind(Light[p].replyTo) = "original"
        /\ Light[p].replyTo \in {q \in due[c] : ~Excused(q)}
    BY <1>5 DEF Sought, Shown
  <2>2. ~Light[Light[p].replyTo].isRetweet /\ ~Light[Light[p].replyTo].isReply
    BY <2>1 DEF PrimaryKind
  <2> QED BY <1>1, <1>2, <1>3, <2>1, <2>2 DEF Wanted
<1> QED BY <1>4, <1>5

\* The step of a read for a call, as Seeks has it.
LEMMA SeekRead ==
    ASSUME SInv, Accounted, ReadShape, NEW c \in Calls, scan = c, Dues(c), Seeks(c),
           ReadOn, rd'.pc # "idle", UNCHANGED service
    PROVE  Seeks(c)'
<1> SUFFICES ASSUME ~rd'.late, ~Asked[c].video, RoomForAll
             PROVE  /\ InScan' => rd'.taken + Len(rd'.ids) <= Cap[rd'.kind]
                    /\ \A p \in PostIds : Sought(c, p) => Pending(p)'
  <2>1. due' = due /\ UNCHANGED writing
    BY ReadWritesNothing DEF service
  <2>2. \A p : Excused(p)' <=> Excused(p)
    BY <2>1, SameStored
  <2>3. \A p \in PostIds : Sought(c, p)' => Sought(c, p)
    BY <2>1, <2>2 DEF Sought, Shown, PrimaryKind
  <2>4. RoomForAll' => RoomForAll
    BY DEF RoomForAll, CreatesOf, PrimaryKind
  <2>5. Cap' = Cap
    BY DEF Cap
  <2> QED BY <2>3, <2>4, <2>5 DEF Seeks
<1>1. /\ ReadTypeOK /\ TypeOK /\ rd.pc # "idle" /\ task[c] = "running"
      /\ result \in Seq(PostIds)
  <2>1. rd.pc # "idle"
    BY DEF ReadOn, ScanUser, TimeOut, LookUp, FilterPost, FilterReply, LeaveScan, EndStage
  <2> QED BY <2>1 DEF SInv, IInv, TaskTypeOK, ReadTypeOK
<1>2. /\ rd.req = ReadOf(c)
      /\ rd.users \in Seq(Users) /\ rd.ids \in Seq(PostIds) /\ rd.taken \in Nat
      /\ rd.kind \in Written
      /\ rd.pc = "user" => rd.ids = <<>>
      /\ InScan => rd.users # <<>>
      /\ rd.pc \in {"check", "reply"} => rd.ids # <<>>
      /\ rd.pc = "reply" => rd.kind = "secondary"
  BY <1>1 DEF ReadShape, ReadTypeOK, ReadRecord, Written
<1>3. ~rd.late
  <2>1. Skip \/ Take => rd'.late = rd.late
    BY <1>1 DEF Skip, Take, ReadTypeOK, ReadRecord
  <2>2. LookUp \/ FilterPost \/ FilterReply => rd'.late = rd.late
    BY <1>1, <2>1 DEF LookUp, FilterPost, FilterReply, ReadTypeOK, ReadRecord
  <2>3. LeaveScan \/ ScanUser => rd'.late = rd.late
    BY <1>1 DEF LeaveScan, ScanUser, ReadTypeOK, ReadRecord
  <2>4. TimeOut => rd'.late
    BY <1>1 DEF TimeOut, ReadTypeOK, ReadRecord
  <2>5. EndStage => rd'.late = rd.late
    <3>1. ASSUME EndStage PROVE rd'.late = rd.late
      <4>1. rd.kind = "original"
        BY <3>1 DEF EndStage, NoRead
      <4>2. rd' = [rd EXCEPT !.kind = "secondary",
                            !.users = IF rd.late THEN <<>> ELSE rd.req.users]
        BY <3>1, <4>1 DEF EndStage
      <4> DEFINE users == IF rd.late THEN <<>> ELSE rd.req.users
      <4> HIDE DEF users
      <4>3. rd' = [rd EXCEPT !.kind = "secondary", !.users = users]
        BY <4>2 DEF users
      <4> QED BY <1>1, <4>3 DEF ReadTypeOK, ReadRecord
    <3> QED BY <3>1
  <2> QED BY <2>2, <2>3, <2>4, <2>5 DEF ReadOn
<1>4. /\ InScan => rd.taken + Len(rd.ids) <= Cap[rd.kind]
      /\ \A p \in PostIds : Sought(c, p) => Pending(p)
  BY <1>1, <1>3 DEF Seeks
<1>5. \A p \in PostIds : Sought(c, p) =>
         /\ Stored(p) /\ p \in posts /\ p \notin deleted
         /\ Light[p].author \in SeqSet(rd.req.users) /\ p \notin rd.req.exclude
         /\ PrimaryKind(p) \in Written /\ ~Light[p].isRetweet
         /\ PrimaryKind(p) = "secondary" =>
               /\ Light[p].replyTo \in posts
               /\ ~Light[Light[p].replyTo].isRetweet /\ ~Light[Light[p].replyTo].isReply
  BY <1>1, <1>2, SoughtPosts
<1>6. \A k \in Written : Cap[k] \in Nat
  BY LimitsAssumption DEF Cap, Written, Kinds
\* The post in hand is passed over, or taken.
<1>7. ASSUME InScan, rd.ids # <<>>, Skip, Sought(c, Head(rd.ids)) => PrimaryKind(Head(rd.ids)) # rd.kind
      PROVE  /\ InScan' => rd'.taken + Len(rd'.ids) <= Cap[rd'.kind]
             /\ \A p \in PostIds : Sought(c, p) => Pending(p)'
  <2>1. /\ rd'.pc = "post" /\ rd'.ids = Tail(rd.ids) /\ rd'.taken = rd.taken
        /\ rd'.users = rd.users /\ rd'.kind = rd.kind /\ result' = result
    BY <1>1, <1>7 DEF Skip, ReadTypeOK, ReadRecord
  <2>2. /\ SeqSet(rd.ids) = {Head(rd.ids)} \cup SeqSet(Tail(rd.ids))
        /\ Len(Tail(rd.ids)) = Len(rd.ids) - 1 /\ Len(rd.ids) \in Nat
    BY <1>2, <1>7, HeadAndTail
  <2>3. rd'.taken + Len(rd'.ids) <= Cap[rd'.kind]
    BY <1>2, <1>4, <1>6, <1>7, <2>1, <2>2
  <2>4. ASSUME NEW p \in PostIds, Sought(c, p) PROVE Pending(p)'
    <3>1. Pending(p) /\ (p = Head(rd.ids) => PrimaryKind(p) # rd.kind)
      BY <1>4, <1>7, <2>4
    <3>2. Ahead' = Ahead
      BY <1>7, <2>1 DEF Ahead, InScan
    <3> QED BY <2>1, <2>2, <3>1, <3>2 DEF Pending, SeqSet, PrimaryKind
  <2> QED BY <2>3, <2>4
<1>8. ASSUME InScan, rd.ids # <<>>, Take
      PROVE  /\ InScan' => rd'.taken + Len(rd'.ids) <= Cap[rd'.kind]
             /\ \A p \in PostIds : Sought(c, p) => Pending(p)'
  <2>1. /\ rd'.pc = "post" /\ rd'.ids = Tail(rd.ids) /\ rd'.taken = rd.taken + 1
        /\ rd'.users = rd.users /\ rd'.kind = rd.kind /\ result' = Append(result, Head(rd.ids))
    BY <1>1, <1>8 DEF Take, ReadTypeOK, ReadRecord
  <2>2. /\ SeqSet(rd.ids) = {Head(rd.ids)} \cup SeqSet(Tail(rd.ids))
        /\ Len(Tail(rd.ids)) = Len(rd.ids) - 1 /\ Len(rd.ids) \in Nat
        /\ Head(rd.ids) \in PostIds
    BY <1>2, <1>8, HeadAndTail
  <2>3. rd'.taken + Len(rd'.ids) <= Cap[rd'.kind]
    BY <1>2, <1>4, <1>6, <1>8, <2>1, <2>2
  <2>4. SeqSet(result') = SeqSet(result) \cup {Head(rd.ids)}
    BY <1>1, <2>1, <2>2, AppendSet
  <2>5. ASSUME NEW p \in PostIds, Sought(c, p) PROVE Pending(p)'
    <3>1. Pending(p)
      BY <1>4, <2>5
    <3>2. Ahead' = Ahead
      BY <1>8, <2>1 DEF Ahead, InScan
    <3>3. SeqSet(result)' = SeqSet(result') /\ SeqSet(rd.ids)' = SeqSet(rd'.ids)
          /\ SeqSet(Ahead)' = SeqSet(Ahead) /\ PrimaryKind(p)' = PrimaryKind(p)
      BY <3>2 DEF SeqSet, PrimaryKind
    <3> QED BY <2>1, <2>2, <2>4, <3>1, <3>3 DEF Pending
  <2> QED BY <2>3, <2>5
\* Only what is asked of the post in hand changes.
<1>9. ASSUME InScan, NEW pc \in {"check", "reply"}, rd' = [rd EXCEPT !.pc = pc], result' = result
      PROVE  /\ InScan' => rd'.taken + Len(rd'.ids) <= Cap[rd'.kind]
             /\ \A p \in PostIds : Sought(c, p) => Pending(p)'
  <2>1. /\ rd'.pc = pc /\ rd'.ids = rd.ids /\ rd'.taken = rd.taken
        /\ rd'.users = rd.users /\ rd'.kind = rd.kind
    BY <1>1, <1>9 DEF ReadTypeOK, ReadRecord
  <2>2. Ahead' = Ahead
    BY <1>9, <2>1 DEF Ahead, InScan
  <2> QED BY <1>4, <1>9, <2>1, <2>2 DEF Pending, SeqSet, PrimaryKind
<1>10. CASE ScanUser
  <2> DEFINE k == rd.kind
             u == Head(rd.users)
  <2>1. rd.users # <<>> /\ u \in Users /\ k \in Written /\ ~InScan /\ rd.ids = <<>>
    BY <1>2, <1>10 DEF ScanUser, InScan
  <2>2. refs[k][u] \in Seq(Ref) /\ Len(refs[k][u]) <= Cap[k] /\ Len(refs[k][u]) <= MaxScan
    BY <1>1, <2>1, UsersTimelines, TimelineBound DEF TypeOK, StoreTypeOK, Written
  <2>3. PICK ids \in Scan(refs[k][u], rd.req.exclude) :
           rd' = [rd EXCEPT !.pc = "post", !.taken = 0, !.ids = ids]
    BY <1>10 DEF ScanUser
  <2>4. /\ rd'.pc = "post" /\ rd'.ids = ids /\ rd'.taken = 0 /\ rd'.users = rd.users
        /\ rd'.kind = k /\ result' = result
    BY <1>1, <1>10, <2>3 DEF ScanUser, ReadTypeOK, ReadRecord
  <2>5. /\ ids \in Seq(PostIds) /\ Len(ids) <= Len(refs[k][u])
        /\ \A p : Refers(refs[k][u], p) /\ p \notin rd.req.exclude => p \in SeqSet(ids)
    BY <2>2, <2>3, ScanHasAll
  <2>6. SeqSet(rd.users) = {u} \cup SeqSet(Tail(rd.users))
    BY <1>2, <2>1, HeadAndTail
  <2> HIDE DEF k, u
  <2>7. rd'.taken + Len(rd'.ids) <= Cap[rd'.kind]
    BY <1>6, <2>1, <2>2, <2>4, <2>5
  <2>8. ASSUME NEW p \in PostIds, Sought(c, p) PROVE Pending(p)'
    <3>1. Pending(p) /\ Stored(p) /\ p \notin rd.req.exclude
      BY <1>4, <1>5, <2>8
    <3>2. Ahead' = Tail(rd.users) /\ Ahead = rd.users
      BY <2>1, <2>4 DEF Ahead, InScan
    <3>3. PrimaryKind(p) = k /\ Light[p].author = u => p \in SeqSet(ids)
      BY <2>5, <3>1 DEF Stored
    <3>4. SeqSet(rd.ids) = {}
      BY <2>1 DEF SeqSet
    <3>5. SeqSet(result)' = SeqSet(result) /\ SeqSet(rd.ids)' = SeqSet(ids)
          /\ SeqSet(Ahead)' = SeqSet(Tail(rd.users)) /\ PrimaryKind(p)' = PrimaryKind(p)
      BY <2>4, <3>2 DEF SeqSet, PrimaryKind
    <3> QED BY <2>4, <2>6, <3>1, <3>2, <3>3, <3>4, <3>5 DEF Pending, k
  <2> QED BY <2>7, <2>8
<1>11. CASE TimeOut
  BY <1>1, <1>11 DEF TimeOut, ReadTypeOK, ReadRecord
<1>12. CASE LookUp
  <2>1. InScan /\ rd.ids # <<>> /\ rd.pc = "post"
    BY <1>12 DEF LookUp, ScanOver, InScan
  <2>2. CASE Head(rd.ids) \in posts
    <3>1. rd' = [rd EXCEPT !.pc = "check"] /\ result' = result
      BY <1>12, <2>2 DEF LookUp
    <3> QED BY <1>9, <2>1, <3>1
  <2>3. CASE Head(rd.ids) \notin posts
    <3>1. Skip /\ Head(rd.ids) \in PostIds
      BY <1>2, <1>12, <2>1, <2>3 DEF LookUp
    <3> QED BY <1>5, <1>7, <2>1, <2>3, <3>1
  <2> QED BY <2>2, <2>3
<1>13. CASE FilterPost
  <2>1. InScan /\ rd.ids # <<>> /\ Head(rd.ids) \in PostIds
    BY <1>1, <1>2, <1>13 DEF FilterPost, InScan, ReadTypeOK
  <2>2. CASE Head(rd.ids) \in deleted \/ OwnRetweet(Head(rd.ids))
    <3>1. Skip
      BY <1>13, <2>2 DEF FilterPost
    <3>2. ~Sought(c, Head(rd.ids))
      BY <1>5, <2>1, <2>2 DEF OwnRetweet
    <3> QED BY <1>7, <2>1, <3>1, <3>2
  <2>3. CASE ~(Head(rd.ids) \in deleted \/ OwnRetweet(Head(rd.ids)))
    <3>1. Take \/ (rd' = [rd EXCEPT !.pc = "reply"] /\ result' = result)
      BY <1>13, <2>3 DEF FilterPost
    <3> QED BY <1>8, <1>9, <2>1, <3>1
  <2> QED BY <2>2, <2>3
<1>14. CASE FilterReply
  <2>1. InScan /\ rd.ids # <<>> /\ Head(rd.ids) \in PostIds /\ rd.kind = "secondary"
    BY <1>1, <1>2, <1>14 DEF FilterReply, InScan, ReadTypeOK
  <2>2. CASE ReplyShown(Head(rd.ids))
    BY <1>8, <1>14, <2>1, <2>2 DEF FilterReply
  <2>3. CASE ~ReplyShown(Head(rd.ids))
    <3>1. Skip
      BY <1>14, <2>3 DEF FilterReply
    <3>2. Sought(c, Head(rd.ids)) => PrimaryKind(Head(rd.ids)) # "secondary"
      BY <1>5, <2>1, <2>3 DEF ReplyShown
    <3> QED BY <1>7, <2>1, <3>1, <3>2
  <2> QED BY <2>2, <2>3
<1>15. CASE LeaveScan
  <2>1. InScan /\ ScanOver /\ rd.users # <<>>
    BY <1>2, <1>15 DEF LeaveScan, InScan
  <2>2. rd.ids = <<>>
    BY <1>2, <1>4, <1>6, <2>1 DEF ScanOver
  <2>3. /\ rd'.pc = "user" /\ rd'.ids = <<>> /\ rd'.users = Tail(rd.users)
        /\ rd'.kind = rd.kind /\ result' = result
    BY <1>1, <1>15 DEF LeaveScan, ReadTypeOK, ReadRecord
  <2>4. Ahead' = Ahead /\ ~InScan'
    BY <2>1, <2>3 DEF Ahead, InScan
  <2> QED BY <1>4, <2>2, <2>3, <2>4 DEF Pending, SeqSet, PrimaryKind
<1>16. CASE EndStage
  <2>1. rd.kind = "original" /\ rd.pc = "user" /\ rd.users = <<>> /\ rd.ids = <<>>
    BY <1>2, <1>16 DEF EndStage, NoRead
  <2>2. /\ rd'.pc = "user" /\ rd'.ids = <<>> /\ rd'.kind = "secondary"
        /\ rd'.users = rd.req.users /\ result' = result
    BY <1>1, <1>3, <1>16, <2>1 DEF EndStage, ReadTypeOK, ReadRecord
  <2>3. Ahead = <<>> /\ Ahead' = rd.req.users /\ ~InScan'
    BY <2>1, <2>2 DEF Ahead, InScan
  <2>4. ASSUME NEW p \in PostIds, Sought(c, p) PROVE Pending(p)'
    <3>1. Pending(p) /\ Light[p].author \in SeqSet(rd.req.users)
      BY <1>4, <1>5, <2>4
    <3>2. SeqSet(<<>>) = {}
      BY DEF SeqSet
    <3>3. SeqSet(result)' = SeqSet(result) /\ SeqSet(Ahead)' = SeqSet(rd.req.users)
          /\ PrimaryKind(p)' = PrimaryKind(p)
      BY <2>2, <2>3 DEF SeqSet, PrimaryKind
    <3>4. p \in SeqSet(result) \/ PrimaryKind(p) = "secondary"
      BY <2>1, <2>3, <3>1, <3>2 DEF Pending
    <3> QED BY <2>2, <3>1, <3>3, <3>4 DEF Pending
  <2> QED BY <2>3, <2>4
<1> QED BY <1>10, <1>11, <1>12, <1>13, <1>14, <1>15, <1>16 DEF ReadOn

-----------------------------------------------------------------------------
(* The answer holds the newest *)

\* What the cut leaves out is no newer than what it keeps.
LEMMA CutsKeepNewest ==
    ASSUME NEW read \in Seq(PostIds), NEW max \in Nat, NEW scored \in ScoreRecent(read, max),
           NEW p \in SeqSet(read) \ SeqSet(scored)
    PROVE  /\ Len(scored) = max
           /\ \A i \in DOMAIN scored : Light[scored[i]].created >= Light[p].created
<1> DEFINE Newer(x, y) == Light[x].created > Light[y].created
<1>1. PICK f \in Orders(DOMAIN read) :
         LET s == Arrange(read, f)
         IN  /\ scored = SubSeq(s, 1, IF Len(s) < max THEN Len(s) ELSE max)
             /\ \A i, j \in DOMAIN s : i < j => ~Newer(s[j], s[i])
  BY DEF ScoreRecent, Cuts
<1> DEFINE s == Arrange(read, f)
           n == IF Len(s) < max THEN Len(s) ELSE max
<1>2. /\ DOMAIN f = DOMAIN read
      /\ \A k \in DOMAIN read : \E i \in DOMAIN read : f[i] = k
  BY OrderCovers
<1>3. s \in Seq(PostIds) /\ DOMAIN s = DOMAIN read /\ \A i \in DOMAIN s : s[i] = read[f[i]]
  BY <1>2, ArrangeType DEF Arrange
<1>4. \A i, j \in DOMAIN s : i < j => ~Newer(s[j], s[i])
  BY <1>1
<1> HIDE DEF s
<1>5. n \in 0 .. Len(s) /\ scored = SubSeq(s, 1, n) /\ Len(s) \in Nat /\ DOMAIN s = 1 .. Len(s)
  BY <1>1, <1>3 DEF s
<1>6. /\ DOMAIN scored = 1 .. n /\ Len(scored) = n
      /\ \A i \in 1 .. n : scored[i] = s[i] /\ i \in DOMAIN s
  BY <1>3, <1>5
<1>7. PICK k \in DOMAIN s : s[k] = p
  <2>1. PICK j \in DOMAIN read : read[j] = p
    BY DEF SeqSet
  <2> QED BY <1>2, <1>3, <2>1
<1>8. k > n /\ n = max
  <2>1. k \notin 1 .. n
    BY <1>6, <1>7 DEF SeqSet
  <2>2. k \in Nat /\ 1 <= k /\ k <= Len(s) /\ n \in Nat /\ Len(s) \in Nat
    BY <1>5
  <2> HIDE DEF n
  <2>3. k > n
    BY <2>1, <2>2
  <2> QED BY <2>2, <2>3 DEF n
<1>9. ASSUME NEW i \in DOMAIN scored PROVE Light[scored[i]].created >= Light[p].created
  <2> HIDE DEF n
  <2>1. i \in 1 .. n /\ n \in Nat /\ k \in Nat
    BY <1>5, <1>6, <1>7, <1>8
  <2>2. i \in DOMAIN s /\ i < k /\ scored[i] = s[i]
    BY <1>6, <1>8, <2>1
  <2>3. s[i] \in PostIds /\ p \in PostIds
    BY <1>3, <1>7, <2>2
  <2>4. ~(Light[p].created > Light[scored[i]].created)
    BY <1>4, <1>7, <2>2
  <2>5. Light[p].created \in Nat /\ Light[scored[i]].created \in Nat
    BY <2>2, <2>3, PostTypes
  <2> QED BY <2>4, <2>5
<1> QED BY <1>6, <1>8, <1>9

Answered(c) ==
    (Answering(c) /\ ~found[c].late /\ ~Asked[c].video /\ RoomForAll) =>
       \A p \in due[c] \ SeqSet(found[c].posts) : Shown(p, due[c]) =>
          /\ Len(found[c].posts) = MaxResults(c)
          /\ \A i \in DOMAIN found[c].posts : Light[found[c].posts[i]].created >= Light[p].created

\* A read that has come to its end has taken all that is sought.
LEMMA AnswerComplete ==
    ASSUME SInv, ReadShape, NEW c \in Calls, scan = c, Dues(c), Seeks(c), ReadOn, EndTask,
           due \in [Calls -> SUBSET PostIds], handler[c] # "gone"
    PROVE  Answered(c)' /\ Dues(c)' /\ due' \in [Calls -> SUBSET PostIds]
<1>1. ReadTypeOK /\ TaskTypeOK /\ rd'.pc = "idle" /\ task' = [task EXCEPT ![c] = "over"]
  BY DEF SInv, EndTask
<1>2. PICK scored \in ScoreRecent(result, MaxResults(c)) :
         found' = [found EXCEPT ![c] = [posts |-> scored, late |-> rd.late]]
  BY DEF EndTask
<1>3. /\ due' = [due EXCEPT ![c] = {p \in due[c] : Readable(p) /\ ~TooOld(p) /\ p \notin early}]
      /\ due[c] \subseteq Wanted(c)
  BY DEF EndTask, Dues
<1>4. /\ due'[c] = {p \in due[c] : Readable(p) /\ ~TooOld(p) /\ p \notin early}
      /\ found'[c].posts = scored /\ found'[c].late = rd.late /\ task'[c] = "over"
  BY <1>1, <1>2, <1>3 DEF TaskTypeOK
<1>5. due' \in [Calls -> SUBSET PostIds]
  BY <1>3
<1>6. rd.pc = "user" /\ rd.users = <<>> /\ rd.kind # "original" /\ rd.ids = <<>>
  BY <1>1, ReadEnds DEF ReadShape
<1>7. task[c] # "over" /\ MaxResults(c) \in Nat /\ result \in Seq(PostIds)
  <2>1. task[c] = "running"
    BY <1>1, <1>6 DEF TaskTypeOK
  <2> QED BY <1>1, <2>1, CallsAssumption, ServiceLimitsAssumption DEF ReadTypeOK, MaxResults, AskType
<1>8. ASSUME NEW p \in due'[c] PROVE p \in due[c] /\ ~Excused(p)
  BY <1>4 DEF Excused, Readable, BeingFlagged
<1>9. Dues(c)'
  <2>1. Wanted(c)' = Wanted(c)
    BY DEF Wanted, ReadOf, Followed, UsesStrato
  <2> QED BY <1>3, <1>4, <2>1 DEF Dues
<1>10. ASSUME ~rd.late, ~Asked[c].video, RoomForAll, NEW p \in due'[c] \ SeqSet(scored),
              Shown(p, due'[c])
       PROVE  /\ Len(scored) = MaxResults(c)
              /\ \A i \in DOMAIN scored : Light[scored[i]].created >= Light[p].created
  <2>1. p \in PostIds /\ p \in due[c] /\ ~Excused(p)
    BY <1>5, <1>8, <1>10
  <2>2. Shown(p, {q \in due[c] : ~Excused(q)})
    BY <1>8, <1>10 DEF Shown
  <2>3. Pending(p)
    BY <1>6, <1>10, <2>1, <2>2 DEF Seeks, Sought
  <2>4. SeqSet(rd.ids) = {} /\ SeqSet(Ahead) = {}
    BY <1>6 DEF Ahead, InScan, SeqSet
  <2>5. p \in SeqSet(result)
    BY <1>6, <2>3, <2>4 DEF Pending
  <2> QED BY <1>7, <1>10, <2>5, CutsKeepNewest
<1>11. Answered(c)'
  <2>1. RoomForAll' => RoomForAll
    BY DEF RoomForAll, CreatesOf, PrimaryKind
  <2>2. \A p : Shown(p, due[c])' <=> Shown(p, due'[c])
    BY DEF Shown, PrimaryKind
  <2>3. MaxResults(c)' = MaxResults(c) /\ SeqSet(found[c].posts)' = SeqSet(scored)
    BY <1>4 DEF MaxResults, SeqSet
  <2> QED BY <1>4, <1>10, <2>1, <2>2, <2>3 DEF Answered
<1> QED BY <1>5, <1>9, <1>11

-----------------------------------------------------------------------------
(* The second inductive invariant *)

NewerInv ==
    /\ Accounted /\ ReadShape
    /\ due \in [Calls -> SUBSET PostIds]
    /\ \A c \in Calls : Dues(c) /\ Seeks(c) /\ Answered(c)

\* A call that nothing happens to, while the store stays as it is.
LEMMA CallKept ==
    ASSUME NEW c \in Calls, Dues(c), Seeks(c), Answered(c), UNCHANGED writing,
           scan' = c => scan = c /\ UNCHANGED <<rd, result>>, due'[c] = due[c],
           task'[c] # "over" => task[c] # "over",
           Answering(c)' => Answering(c) /\ found'[c] = found[c]
    PROVE  Dues(c)' /\ Seeks(c)' /\ Answered(c)'
<1>1. /\ \A p : (Excused(p)' <=> Excused(p)) /\ (Stored(p)' <=> Stored(p))
      /\ Wanted(c)' = Wanted(c) /\ MaxResults(c)' = MaxResults(c)
      /\ RoomForAll' => RoomForAll
      /\ Cap' = Cap
  BY SameStored DEF Wanted, ReadOf, Followed, UsesStrato, MaxResults, RoomForAll, CreatesOf,
                    PrimaryKind, Cap
<1>2. \A p, here : Shown(p, here)' <=> Shown(p, here)
  BY DEF Shown, PrimaryKind
<1>3. Dues(c)'
  BY <1>1 DEF Dues
<1>4. Seeks(c)'
  <2>1. \A p \in PostIds : Sought(c, p)' => Sought(c, p)
    BY <1>1 DEF Sought, Shown, PrimaryKind
  <2>2. UNCHANGED <<rd, result>> => \A p : (Pending(p)' <=> Pending(p)) /\ (InScan' <=> InScan)
    BY DEF Pending, InScan, Ahead, SeqSet, PrimaryKind
  <2> QED BY <1>1, <2>1, <2>2 DEF Seeks
<1>5. Answered(c)'
  BY <1>1 DEF Answered, Shown, PrimaryKind, SeqSet
<1> QED BY <1>3, <1>4, <1>5

\* A call whose client is answered or gone: nothing is due to it any more.
LEMMA CallReturns ==
    ASSUME NEW c \in Calls, Seeks(c), due'[c] = {}, ~Answering(c)',
           scan' = c => scan = c /\ rd' = rd
    PROVE  Dues(c)' /\ Seeks(c)' /\ Answered(c)'
<1>1. Dues(c)'
  BY DEF Dues
<1>2. \A p : ~Sought(c, p)'
  BY DEF Sought
<1>3. (RoomForAll' => RoomForAll) /\ Cap' = Cap
  BY DEF RoomForAll, CreatesOf, PrimaryKind, Cap
<1>4. Seeks(c)'
  BY <1>2, <1>3 DEF Seeks, InScan
<1>5. Answered(c)'
  BY DEF Answered
<1> QED BY <1>1, <1>4, <1>5

\* The shape of a read depends on the read and its call only.
LEMMA ShapeSame == ReadShape /\ UNCHANGED <<rd, scan>> => ReadShape'
BY DEF ReadShape, InScan, ReadOf, Followed, UsesStrato

\* The writers change nothing of a call, except that posts become excused.
LEMMA StoreNewer ==
    ASSUME SInv, NewerInv, Store
    PROVE  NewerInv'
<1>1. /\ Next /\ UNCHANGED <<rd, result>> /\ UNCHANGED service
      /\ IInv /\ TypeOK /\ TrimmedExcused
  BY WritersReadNothing DEF Store, Next, SInv, IInv
<1>2. Accounted' /\ ReadShape' /\ due' \in [Calls -> SUBSET PostIds]
  BY <1>1, AccountedStep, ShapeSame DEF NewerInv, service
<1>3. ASSUME NEW c \in Calls PROVE Dues(c)' /\ Seeks(c)' /\ Answered(c)'
  <2>1. Dues(c) /\ Seeks(c) /\ Answered(c) /\ due[c] \subseteq PostIds
    BY DEF NewerInv
  <2>2. /\ due'[c] = due[c] /\ task'[c] = task[c] /\ found'[c] = found[c]
        /\ handler'[c] = handler[c] /\ scan' = scan
    BY <1>1 DEF service
  <2>3. /\ Wanted(c)' = Wanted(c) /\ MaxResults(c)' = MaxResults(c)
        /\ RoomForAll' => RoomForAll
        /\ Cap' = Cap
    BY DEF Wanted, ReadOf, Followed, UsesStrato, MaxResults, RoomForAll, CreatesOf, PrimaryKind, Cap
  <2>4. \A p \in PostIds : /\ Excused(p) => Excused(p)'
                           /\ Excused(p) \/ Stored(p) => Excused(p)' \/ Stored(p)'
    BY <1>1, ExcusedStep, StoredStep
  <2>5. Dues(c)'
    BY <2>1, <2>2, <2>3, <2>4 DEF Dues
  <2>6. \A p \in PostIds : Sought(c, p)' => Sought(c, p)
    BY <2>1, <2>2, <2>4 DEF Sought, Shown, PrimaryKind
  <2>7. \A p : (Pending(p)' <=> Pending(p)) /\ (InScan' <=> InScan)
    BY <1>1 DEF Pending, InScan, Ahead, SeqSet, PrimaryKind
  <2>8. Seeks(c)'
    BY <1>1, <2>1, <2>2, <2>3, <2>6, <2>7 DEF Seeks
  <2>9. Answered(c)'
    BY <2>1, <2>2, <2>3 DEF Answered, Answering, Shown, PrimaryKind, SeqSet
  <2> QED BY <2>5, <2>8, <2>9
<1> QED BY <1>2, <1>3 DEF NewerInv

\* What is due to a call is what it can read when it comes in.
LEMMA AcceptNewer ==
    ASSUME SInv, NewerInv, NEW c \in Calls, Accept(c)
    PROVE  /\ due' \in [Calls -> SUBSET PostIds]
           /\ Dues(c)' /\ Seeks(c)' /\ Answered(c)'
           /\ \A d \in Calls \ {c} : due'[d] = due[d]
<1>1. /\ handler[c] = "new" /\ UNCHANGED <<vars, scan, found>> /\ TaskTypeOK
      /\ due' = [due EXCEPT ![c] = {p \in Wanted(c) : Readable(p)}]
  BY DEF Accept, SInv
<1>2. due' \in [Calls -> SUBSET PostIds] /\ due'[c] = {p \in Wanted(c) : Readable(p)}
      /\ \A d \in Calls \ {c} : due'[d] = due[d]
  BY <1>1 DEF NewerInv, Wanted
<1>3. task[c] \notin OnPool /\ task'[c] # "over"
  <2>1. task[c] \notin OnPool
    BY <1>1 DEF TaskTypeOK
  <2>2. task'[c] = task[c] \/ task'[c] = "queued"
    BY <1>1 DEF Accept, Spawn, TaskTypeOK
  <2> QED BY <2>1, <2>2 DEF OnPool
<1>4. UNCHANGED writing
  BY <1>1 DEF vars, store, writing
<1>5. Dues(c)'
  <2>1. Wanted(c)' = Wanted(c)
    BY DEF Wanted, ReadOf, Followed, UsesStrato
  <2>2. \A p \in due'[c] : Stored(p)
    BY <1>2 DEF Readable, Stored, Refers
  <2>3. \A p \in due'[c] : Stored(p)'
    BY <1>4, <2>2, SameStored
  <2> QED BY <1>2, <2>1, <2>3 DEF Dues
<1>6. Seeks(c)'
  <2>1. ~(scan = c /\ rd.pc # "idle")
    BY <1>1, <1>3 DEF TaskTypeOK, OnPool
  <2> QED BY <1>1, <2>1 DEF Seeks, vars, reader
<1>7. Answered(c)'
  BY <1>3 DEF Answered, Answering
<1> QED BY <1>2, <1>5, <1>6, <1>7

\* A step of a handler: the call comes in, waits for the pool, or is over.
LEMMA HandlerNewer ==
    ASSUME SInv, NewerInv, NEW c \in Calls, Handle(c) \/ Hangup(c)
    PROVE  NewerInv'
<1>1. UNCHANGED vars /\ scan' = scan /\ TaskTypeOK /\ TaskTypeOK'
  BY HandlerType DEF SInv
<1>2. UNCHANGED <<rd, result>> /\ UNCHANGED writing
  BY <1>1 DEF vars, store, reader, writing
<1>3. Accounted' /\ ReadShape'
  BY <1>1, <1>2, AccountedSame, ShapeSame DEF NewerInv
<1>4. \/ Accept(c)
      \/ due' = [due EXCEPT ![c] = {}] /\ handler'[c] # "await"
      \/ StratoAnswers(c)
  <2>1. Return(c) => due' = [due EXCEPT ![c] = {}] /\ handler'[c] # "await"
    BY <1>1 DEF Return, Becomes, TaskTypeOK
  <2>2. Hangup(c) /\ ~Return(c) => due' = [due EXCEPT ![c] = {}] /\ handler'[c] # "await"
    BY <1>1 DEF Hangup, Becomes, TaskTypeOK
  <2> QED BY <2>1, <2>2 DEF Handle, Reject, Answer, StratoFails
<1>5. ASSUME NEW d \in Calls \ {c}
      PROVE  handler'[d] = handler[d] /\ task'[d] = task[d] /\ found'[d] = found[d]
  <2>1. Return(c) => handler'[d] = handler[d] /\ task'[d] = task[d] /\ found'[d] = found[d]
    BY <1>1, ReturnEffect
  <2>2. ~Return(c) => handler'[d] = handler[d] /\ task'[d] = task[d] /\ found'[d] = found[d]
    BY <1>1 DEF Handle, Accept, Reject, Answer, StratoAnswers, StratoFails, Hangup, Spawn, Becomes,
                TaskTypeOK
  <2> QED BY <2>1, <2>2
<1>6. due' \in [Calls -> SUBSET PostIds] /\ \A d \in Calls \ {c} : due'[d] = due[d]
  <2>1. CASE Accept(c)
    BY <2>1, AcceptNewer
  <2>2. CASE due' = [due EXCEPT ![c] = {}]
    BY <2>2 DEF NewerInv
  <2>3. CASE StratoAnswers(c)
    BY <2>3 DEF StratoAnswers, NewerInv
  <2> QED BY <1>4, <2>1, <2>2, <2>3
<1>7. ASSUME NEW d \in Calls \ {c} PROVE Dues(d)' /\ Seeks(d)' /\ Answered(d)'
  <2>1. Dues(d) /\ Seeks(d) /\ Answered(d)
    BY DEF NewerInv
  <2>2. Answering(d)' => Answering(d) /\ found'[d] = found[d]
    BY <1>5 DEF Answering
  <2> QED BY <1>1, <1>2, <1>5, <1>6, <2>1, <2>2, CallKept
<1>8. Dues(c)' /\ Seeks(c)' /\ Answered(c)'
  <2>1. CASE Accept(c)
    BY <2>1, AcceptNewer
  <2>2. CASE due' = [due EXCEPT ![c] = {}] /\ handler'[c] # "await"
    <3>1. due'[c] = {} /\ ~Answering(c)' /\ Seeks(c)
      BY <2>2 DEF NewerInv, Answering
    <3> QED BY <1>1, <1>2, <3>1, CallReturns
  <2>3. CASE StratoAnswers(c)
    <3>1. handler[c] = "strato" /\ due' = due /\ task'[c] = "queued"
      BY <1>1, <2>3 DEF StratoAnswers, Spawn, TaskTypeOK
    <3>2. task[c] # "over" /\ ~Answering(c)'
      BY <1>1, <3>1 DEF TaskTypeOK, OnPool, Answering
    <3>3. Dues(c) /\ Seeks(c) /\ Answered(c)
      BY DEF NewerInv
    <3> QED BY <1>1, <1>2, <3>1, <3>2, <3>3, CallKept
  <2> QED BY <1>4, <2>1, <2>2, <2>3
<1> QED BY <1>3, <1>6, <1>7, <1>8 DEF NewerInv

\* A read starts with everything ahead of it.
LEMMA StartNewer ==
    ASSUME SInv, NewerInv, NEW c \in Calls, StartTask(c)
    PROVE  NewerInv'
<1>1. /\ BeginRead /\ rd'.req = ReadOf(c) /\ scan' = c /\ task[c] = "queued"
      /\ task' = [task EXCEPT ![c] = "running"] /\ UNCHANGED <<permits, handler, found, flagged, due>>
      /\ UNCHANGED writing /\ ReadTypeOK /\ TaskTypeOK
  BY ReadWritesNothing DEF StartTask, SInv
<1>2. /\ ReadShape' /\ rd'.users = ReadOf(c).users /\ rd'.pc = "user" /\ result' = <<>>
      /\ rd'.kind \in {"original", "video"}
  BY <1>1, ShapeBegins
<1>3. Accounted' /\ due' \in [Calls -> SUBSET PostIds]
  BY <1>1, AccountedSame DEF NewerInv
<1>4. ASSUME NEW d \in Calls \ {c} PROVE Dues(d)' /\ Seeks(d)' /\ Answered(d)'
  <2>1. Dues(d) /\ Seeks(d) /\ Answered(d)
    BY DEF NewerInv
  <2>2. task'[d] = task[d] /\ scan' # d /\ found'[d] = found[d] /\ due'[d] = due[d]
        /\ handler'[d] = handler[d]
    BY <1>1 DEF TaskTypeOK
  <2>3. Answering(d)' => Answering(d) /\ found'[d] = found[d]
    BY <2>2 DEF Answering
  <2> QED BY <1>1, <2>1, <2>2, <2>3, CallKept
<1>5. task'[c] = "running" /\ task[c] # "over" /\ Dues(c)
  BY <1>1 DEF TaskTypeOK, NewerInv
<1>6. /\ \A p : (Excused(p)' <=> Excused(p)) /\ (Stored(p)' <=> Stored(p))
      /\ Wanted(c)' = Wanted(c)
  BY <1>1, SameStored DEF Wanted, ReadOf, Followed, UsesStrato
<1>7. Dues(c)'
  BY <1>1, <1>5, <1>6 DEF Dues
<1>8. Answered(c)'
  BY <1>5 DEF Answered, Answering
<1>9. Seeks(c)'
  <2>1. ~InScan'
    BY <1>2 DEF InScan
  <2>2. ASSUME NEW p \in PostIds, Sought(c, p)', ~Asked[c].video PROVE Pending(p)'
    <3>1. Sought(c, p)
      BY <1>1, <1>6, <2>2 DEF Sought, Shown, PrimaryKind
    <3>2. Light[p].author \in SeqSet(ReadOf(c).users) /\ PrimaryKind(p) \in Written
      BY <1>5, <3>1, SoughtPosts
    <3>3. rd'.kind = "original"
      BY <1>1, <1>2, <2>2 DEF ReadShape
    <3>4. SeqSet(Ahead)' = SeqSet(ReadOf(c).users) /\ PrimaryKind(p)' = PrimaryKind(p)
      BY <1>2, <2>1 DEF Ahead, SeqSet, PrimaryKind
    <3> QED BY <3>2, <3>3, <3>4 DEF Pending, Written, Kinds
  <2> QED BY <2>1, <2>2 DEF Seeks
<1> QED BY <1>2, <1>3, <1>4, <1>7, <1>8, <1>9 DEF NewerInv

\* A step of the read, or its end.
LEMMA TaskNewer ==
    ASSUME SInv, NewerInv, RunTask
    PROVE  NewerInv'
<1>1. ReadOn /\ UNCHANGED writing /\ ReadTypeOK /\ TaskTypeOK
  BY ReadWritesNothing DEF RunTask, SInv
<1>2. rd.pc # "idle" /\ scan \in Calls /\ task[scan] = "running"
  <2>1. rd.pc # "idle"
    BY <1>1 DEF ReadOn, ScanUser, TimeOut, LookUp, FilterPost, FilterReply, LeaveScan, EndStage
  <2> QED BY <1>1, <2>1 DEF TaskTypeOK
<1>3. Accounted'
  BY <1>1, AccountedSame DEF NewerInv
<1>4. CASE rd'.pc # "idle" /\ UNCHANGED service
  <2>1. ReadShape' /\ due' \in [Calls -> SUBSET PostIds]
    BY <1>1, <1>4, ShapeRead DEF NewerInv, service
  <2>2. ASSUME NEW d \in Calls PROVE Dues(d)' /\ Seeks(d)' /\ Answered(d)'
    <3>1. Dues(d) /\ Seeks(d) /\ Answered(d) /\ Accounted /\ ReadShape
      BY DEF NewerInv
    <3>2. due'[d] = due[d] /\ task'[d] = task[d] /\ found'[d] = found[d] /\ scan' = scan
          /\ handler'[d] = handler[d]
      BY <1>4 DEF service
    <3>3. Answering(d)' => Answering(d) /\ found'[d] = found[d]
      BY <3>2 DEF Answering
    <3>4. CASE scan # d
      BY <1>1, <3>1, <3>2, <3>3, <3>4, CallKept
    <3>5. CASE scan = d
      <4>1. Seeks(d)'
        BY <1>1, <1>4, <3>1, <3>5, SeekRead
      <4>2. Dues(d)'
        <5>1. \A p : (Excused(p)' <=> Excused(p)) /\ (Stored(p)' <=> Stored(p))
          BY <1>1, SameStored
        <5>2. Wanted(d)' = Wanted(d)
          BY DEF Wanted, ReadOf, Followed, UsesStrato
        <5> QED BY <3>1, <3>2, <5>1, <5>2 DEF Dues
      <4>3. Answered(d)'
        BY <1>2, <3>2, <3>5 DEF Answered, Answering
      <4> QED BY <4>1, <4>2, <4>3
    <3> QED BY <3>4, <3>5
  <2> QED BY <1>3, <2>1, <2>2 DEF NewerInv
<1>5. CASE EndTask
  <2>1. rd'.pc = "idle" /\ scan' = NoCall /\ ReadShape'
    BY <1>5 DEF EndTask, ReadShape
  <2>2. \A d \in Calls : scan' # d
    BY <2>1, CallsAssumption
  <2>3. PICK c \in Calls : c = scan
    BY <1>2
  <2>4. CASE handler[c] = "gone"
    <3>1. Return(c)
      BY <1>5, <2>3, <2>4 DEF EndTask
    <3>2. /\ due' \in [Calls -> SUBSET PostIds] /\ due'[c] = {} /\ handler'[c] = "done"
          /\ \A d \in Calls \ {c} : due'[d] = due[d]
      BY <1>1, <3>1 DEF Return, Becomes, NewerInv, TaskTypeOK
    <3>3. ASSUME NEW d \in Calls \ {c} PROVE Dues(d)' /\ Seeks(d)' /\ Answered(d)'
      <4>1. Dues(d) /\ Seeks(d) /\ Answered(d)
        BY DEF NewerInv
      <4>2. handler'[d] = handler[d] /\ task'[d] = task[d] /\ found'[d] = found[d]
        BY <1>1, <3>1, ReturnEffect
      <4>3. Answering(d)' => Answering(d) /\ found'[d] = found[d]
        BY <4>2 DEF Answering
      <4> QED BY <1>1, <2>2, <3>2, <4>1, <4>2, <4>3, CallKept
    <3>4. ~Answering(c)' /\ Seeks(c)
      BY <3>2 DEF Answering, NewerInv
    <3>5. Dues(c)' /\ Seeks(c)' /\ Answered(c)'
      BY <2>2, <3>2, <3>4, CallReturns
    <3> QED BY <1>3, <2>1, <3>2, <3>3, <3>5 DEF NewerInv
  <2>5. CASE handler[c] # "gone"
    <3>1. Answered(c)' /\ Dues(c)' /\ due' \in [Calls -> SUBSET PostIds]
      BY <1>1, <1>5, <2>3, <2>5, AnswerComplete DEF NewerInv
    <3>2. Seeks(c)'
      BY <2>2 DEF Seeks
    <3>3. ASSUME NEW d \in Calls \ {c} PROVE Dues(d)' /\ Seeks(d)' /\ Answered(d)'
      <4>1. Dues(d) /\ Seeks(d) /\ Answered(d)
        BY DEF NewerInv
      <4>2. /\ task' = [task EXCEPT ![c] = "over"] /\ handler' = handler
            /\ \E answer : found' = [found EXCEPT ![c] = answer]
            /\ \E left : due' = [due EXCEPT ![c] = left]
        BY <1>5, <2>3, <2>5 DEF EndTask
      <4>3. /\ handler'[d] = handler[d] /\ task'[d] = task[d] /\ found'[d] = found[d]
            /\ due'[d] = due[d]
        BY <1>1, <4>2 DEF TaskTypeOK, NewerInv
      <4>4. Answering(d)' => Answering(d) /\ found'[d] = found[d]
        BY <4>3 DEF Answering
      <4> QED BY <1>1, <2>2, <4>1, <4>3, <4>4, CallKept
    <3> QED BY <1>3, <2>1, <3>1, <3>2, <3>3 DEF NewerInv
  <2> QED BY <2>4, <2>5
<1> QED BY <1>4, <1>5 DEF RunTask

\* At the start nothing is due.
LEMMA NewerInit == ServiceInit => NewerInv
<1> SUFFICES ASSUME ServiceInit PROVE NewerInv
  OBVIOUS
<1>1. Accounted
  BY AccountedInit DEF ServiceInit
<1>2. rd.pc = "idle" /\ due = [c \in Calls |-> {}] /\ handler = [c \in Calls |-> "new"]
  BY DEF ServiceInit, Init, NoRead
<1>3. \A c \in Calls : Dues(c) /\ Seeks(c) /\ Answered(c)
  BY <1>2 DEF Dues, Seeks, Answered, Answering
<1> QED BY <1>1, <1>2, <1>3 DEF NewerInv, ReadShape

\* The second invariant is inductive relative to the first.
LEMMA NewerStep == SInv /\ NewerInv /\ [ServiceNext]_svars => NewerInv'
<1> SUFFICES ASSUME SInv, NewerInv, [ServiceNext]_svars PROVE NewerInv'
  OBVIOUS
<1>1. CASE UNCHANGED svars
  <2>1. UNCHANGED writing /\ UNCHANGED <<rd, result>> /\ UNCHANGED service
    BY <1>1 DEF svars, vars, store, reader, writing
  <2>2. Accounted' /\ ReadShape' /\ due' \in [Calls -> SUBSET PostIds]
    BY <2>1, AccountedSame, ShapeSame DEF NewerInv, service
  <2>3. ASSUME NEW d \in Calls PROVE Dues(d)' /\ Seeks(d)' /\ Answered(d)'
    <3>1. Dues(d) /\ Seeks(d) /\ Answered(d)
      BY DEF NewerInv
    <3>2. due'[d] = due[d] /\ task'[d] = task[d] /\ found'[d] = found[d] /\ scan' = scan
          /\ (Answering(d)' => Answering(d))
      BY <2>1 DEF service, Answering
    <3> QED BY <2>1, <3>1, <3>2, CallKept
  <2> QED BY <2>2, <2>3 DEF NewerInv
<1> QED BY <1>1, StoreNewer, TaskNewer, HandlerNewer, StartNewer DEF ServiceNext

\* Unless its time ran out, an answer holds the newest of what was there to read
\* all the while, whatever the writers do meanwhile (get_in_network_posts,
\* get_posts_from_map, score_recent).
THEOREM NewestAnswered == ServiceSpec => []NothingNewerMissed
<1>1. NewerInv => NothingNewerMissed
  BY DEF NewerInv, Answered, NothingNewerMissed
<1>2. SInv /\ NewerInv /\ [ServiceNext]_svars => NewerInv'
  BY NewerStep
<1>3. ServiceSpec => []SInv
  BY ServiceInductive
<1>4. ServiceInit => NewerInv
  BY NewerInit
<1> QED BY <1>1, <1>2, <1>3, <1>4, PTL DEF ServiceSpec
=============================================================================
