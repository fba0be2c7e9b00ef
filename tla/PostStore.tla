------------------------------ MODULE PostStore ------------------------------
(***************************************************************************)
(* Thunder's in-memory post store (post_store.rs) with everybody who works *)
(* on it at once: the Kafka listener threads that insert and delete posts  *)
(* batch by batch (tweet_events_listener_v2.rs), the gRPC handlers that    *)
(* read it, and the maintenance done first by main (finalize_init) and     *)
(* then by the auto-trim task.                                             *)
(*                                                                         *)
(* The store is five DashMaps.  Only one operation on one of them is       *)
(* atomic, so one action does at most one such operation.  A guard that an *)
(* operation keeps on the deque of a user (the reader while it scans it,   *)
(* the trimmer while it pops it) blocks the others: see Guarded.           *)
(*                                                                         *)
(* A post id stands for the post: Light gives the fields it was created    *)
(* with, the same at every delivery.  Times are whole seconds.             *)
(***************************************************************************)
EXTENDS Naturals, Sequences, FiniteSets

CONSTANTS
    PostIds,
    Users,          \* author ids
    DeleteKey,      \* DELETE_EVENT_KEY, the user the tombstones are filed under
    NoPost,         \* None, where a post id is expected
    Threads,        \* kafka listener threads
    Light,          \* [PostIds -> LightPost]
    Feed,           \* what each thread's partitions hold: [Threads -> Seq(Event)]
    Requests,       \* the requests a reader may make
    Retention,      \* retention_seconds
    Skew,           \* how far a feeder's clock may be ahead of the server's
    StartTime, EndTime,     \* bound of the model: the seconds it runs through
    MaxOriginal, MaxReply, MaxVideo,    \* posts returned per author
    MaxScan         \* MAX_TINY_POSTS_PER_USER_SCAN

Kinds == {"original", "secondary", "video"}
Times == 0 .. EndTime + Skew
Tiny  == [id : PostIds, at : Times]
Event == [delete : BOOLEAN, id : PostIds, at : Times]
LightPost == [author : Users, created : Times, isReply : BOOLEAN, isRetweet : BOOLEAN,
              hasVideo : BOOLEAN, source : PostIds \cup {NoPost}, sourceUser : Users \cup {DeleteKey},
              replyTo : PostIds \cup {NoPost}, replyUser : Users \cup {DeleteKey},
              conversation : PostIds \cup {NoPost}]
Request == [users : Seq(Users), viewer : Users, exclude : SUBSET PostIds, video : BOOLEAN]

ASSUME IdsAssumption     == DeleteKey \notin Users /\ NoPost \notin PostIds
ASSUME LightAssumption   == Light \in [PostIds -> LightPost]
ASSUME TimesAssumption   == /\ Retention \in Nat /\ Skew \in Nat
                            /\ StartTime \in Nat /\ EndTime \in Nat /\ StartTime <= EndTime
\* A create event carries the created_at of its post, and the feeder stamps a
\* delete event when it reads it, after the post was created.
ASSUME FeedAssumption    ==
    /\ IsFiniteSet(Threads) /\ Feed \in [Threads -> Seq(Event)]
    /\ \A t \in Threads : \A i \in 1 .. Len(Feed[t]) :
          LET e == Feed[t][i] IN IF e.delete THEN e.at >= Light[e.id].created
                                             ELSE e.at = Light[e.id].created
ASSUME RequestsAssumption == Requests \subseteq Request
ASSUME LimitsAssumption  == /\ MaxOriginal \in Nat /\ MaxReply \in Nat
                            /\ MaxVideo \in Nat /\ MaxScan \in Nat

VARIABLES
    now,        \* SystemTime::now() in seconds
    posts,      \* keys of PostStore.posts
    refs,       \* the three timelines by user: original, secondary and video
    deleted,    \* keys of PostStore.deleted_posts
    topic,      \* what each thread has still to poll
    thr,        \* each listener thread: where it is and what is left of its batch
    phase,      \* main: "loading" until the catch-up signals, then "finalizing", "serving"
    maint,      \* the sort, trim or sweep in progress
    rd,         \* the read in progress
    result,     \* light_posts of that read
    early       \* history: posts a trim took for old although they were from its future

store == <<posts, refs, deleted>>
reader == <<rd, result>>
vars == <<now, store, topic, thr, phase, maint, reader, early>>

NoMaint == [pc |-> "idle", kind |-> "original", todo |-> {}, user |-> DeleteKey,
            id |-> NoPost, at |-> 0]
NoRead  == [pc |-> "idle", kind |-> "original", req |-> NoPost, users |-> <<>>, ids |-> <<>>,
            taken |-> 0, late |-> FALSE]

Init ==
    /\ now = StartTime
    /\ posts = {} /\ deleted = {}
    /\ refs = [k \in Kinds |-> [u \in Users \cup {DeleteKey} |-> <<>>]]
    /\ topic = Feed
    /\ thr = [t \in Threads |-> [pc |-> "poll", creates |-> <<>>, deletes |-> <<>>]]
    /\ phase = "loading" /\ maint = NoMaint
    /\ rd = NoRead /\ result = <<>>
    /\ early = {}

-----------------------------------------------------------------------------
(* Time, guards and sorting *)

Tick ==
    /\ now < EndTime
    /\ now' = now + 1
    /\ UNCHANGED <<store, topic, thr, phase, maint, reader, early>>

\* The trimmer subtracts in u64: a reference from the future wraps around and
\* counts as older than any retention period.
Expired(time, at) == time < at \/ time - at > Retention

\* The DashMap guard a scan keeps on the deque of user u in timeline k.
Guarded(k, u) ==
    \/ rd.pc \in {"post", "check", "reply"} /\ rd.kind = k /\ Head(rd.users) = u
    \/ maint.pc \in {"pop", "drop", "unflag"} /\ maint.kind = k /\ maint.user = u

\* What is at some places of a sequence, taken out in some order.
Orders(places) == {f \in [1 .. Cardinality(places) -> places] :
                      \A i, j \in DOMAIN f : f[i] = f[j] => i = j}
Arrange(q, order) == [i \in DOMAIN order |-> q[order[i]]]

\* sort_unstable_by_key(created_at): any ascending rearrangement.
Ascending(q) == \A i, j \in DOMAIN q : i < j => q[i].at <= q[j].at
Sortings(q, places) == {s \in {Arrange(q, order) : order \in Orders(places)} : Ascending(s)}

Push(k, u, tiny) ==
    /\ ~Guarded(k, u)
    /\ refs' = [refs EXCEPT ![k][u] = Append(@, tiny)]

-----------------------------------------------------------------------------
(* A listener thread: insert_posts, then mark_as_deleted, for every batch *)

\* Where a thread goes on with what is left of its batch.
Resume(creates, deletes) ==
    [pc |-> IF creates # <<>> THEN "check" ELSE IF deletes # <<>> THEN "remove" ELSE "poll",
     creates |-> creates, deletes |-> deletes]

At(t, pc) == thr[t].pc = pc
Goto(t, pc) == thr' = [thr EXCEPT ![t] = [@ EXCEPT !.pc = pc]]
Creating(t) == Head(thr[t].creates)
Deleting(t) == Head(thr[t].deletes)
NextCreate(t) == thr' = [thr EXCEPT ![t] = Resume(Tail(thr[t].creates), thr[t].deletes)]
NextDelete(t) == thr' = [thr EXCEPT ![t] = Resume(thr[t].creates, Tail(thr[t].deletes))]

\* A batch is split into posts to create and posts to delete, in its order.
Tinies(batch) == [i \in DOMAIN batch |-> [id |-> batch[i].id, at |-> batch[i].at]]
InOrder(q, places) ==
    {Arrange(q, f) : f \in {g \in Orders(places) : \A i, j \in DOMAIN g : i < j => g[i] < g[j]}}

\* insert_posts keeps what is younger than the retention period and was not
\* created in this second or later.
Retained(tiny) == tiny.at < now /\ now - tiny.at <= Retention

\* The thread polls a batch, splits it, and insert_posts filters and sorts it.
\* Nothing is polled that was stamped more than Skew seconds ahead of here.
TakeBatch(t) ==
    /\ At(t, "poll")
    /\ \E n \in 1 .. Len(topic[t]) :
          LET batch == SubSeq(topic[t], 1, n)
              tiny  == Tinies(batch)
          IN  /\ \A i \in 1 .. n : batch[i].at <= now + Skew
              /\ topic' = [topic EXCEPT ![t] = SubSeq(@, n + 1, Len(@))]
              /\ \E creates \in Sortings(tiny, {i \in 1 .. n : ~batch[i].delete /\ Retained(tiny[i])}),
                    deletes \in InOrder(tiny, {i \in 1 .. n : batch[i].delete}) :
                       thr' = [thr EXCEPT ![t] = Resume(creates, deletes)]
    /\ UNCHANGED <<now, store, phase, maint, reader, early>>

CheckDeleted(t) ==
    /\ At(t, "check")
    /\ IF Creating(t).id \in deleted THEN NextCreate(t) ELSE Goto(t, "store")
    /\ UNCHANGED <<now, store, topic, phase, maint, reader, early>>

\* Mutant: ignore what posts.insert returns.
StoreIgnoresOld(t) ==
    /\ At(t, "store")
    /\ posts' = posts \cup {Creating(t).id}
    /\ Goto(t, "refer")
    /\ UNCHANGED <<now, refs, deleted, topic, phase, maint, reader, early>>

StorePost(t) ==
    /\ At(t, "store")
    /\ posts' = posts \cup {Creating(t).id}
    /\ IF Creating(t).id \in posts THEN NextCreate(t) ELSE Goto(t, "refer")
    /\ UNCHANGED <<now, refs, deleted, topic, phase, maint, reader, early>>

PrimaryKind(p) == IF ~Light[p].isReply /\ ~Light[p].isRetweet THEN "original" ELSE "secondary"

ReferPost(t) ==
    /\ At(t, "refer")
    /\ LET p == Creating(t).id IN Push(PrimaryKind(p), Light[p].author, Creating(t))
    /\ Goto(t, "video")
    /\ UNCHANGED <<now, posts, deleted, topic, phase, maint, reader, early>>

\* A retweet is a video when its source is in the store at this moment.
VideoEligible(p) ==
    /\ ~Light[p].isReply
    /\ \/ Light[p].hasVideo
       \/ /\ Light[p].isRetweet
          /\ Light[p].source \in posts
          /\ ~Light[Light[p].source].isReply /\ Light[Light[p].source].hasVideo

DecideVideo(t) ==
    /\ At(t, "video")
    /\ IF VideoEligible(Creating(t).id) THEN Goto(t, "push") ELSE NextCreate(t)
    /\ UNCHANGED <<now, store, topic, phase, maint, reader, early>>

PushVideo(t) ==
    /\ At(t, "push")
    /\ Push("video", Light[Creating(t).id].author, Creating(t))
    /\ NextCreate(t)
    /\ UNCHANGED <<now, posts, deleted, topic, phase, maint, reader, early>>

RemovePost(t) ==
    /\ At(t, "remove")
    /\ posts' = posts \ {Deleting(t).id}
    /\ Goto(t, "flag")
    /\ UNCHANGED <<now, refs, deleted, topic, phase, maint, reader, early>>

\* Mutant: set the flag and go on without the tombstone.
FlagOnly(t) ==
    /\ At(t, "flag")
    /\ deleted' = deleted \cup {Deleting(t).id}
    /\ NextDelete(t)
    /\ UNCHANGED <<now, posts, refs, topic, phase, maint, reader, early>>

FlagDeleted(t) ==
    /\ At(t, "flag")
    /\ deleted' = deleted \cup {Deleting(t).id}
    /\ Goto(t, "bury")
    /\ UNCHANGED <<now, posts, refs, topic, phase, maint, reader, early>>

\* The tombstone goes to the timeline of originals under DELETE_EVENT_KEY.
BuryPost(t) ==
    /\ At(t, "bury")
    /\ Push("original", DeleteKey, Deleting(t))
    /\ NextDelete(t)
    /\ UNCHANGED <<now, posts, deleted, topic, phase, maint, reader, early>>

Listen(t) ==
    \/ TakeBatch(t) \/ CheckDeleted(t) \/ StorePost(t) \/ ReferPost(t) \/ DecideVideo(t)
    \/ PushVideo(t) \/ RemovePost(t) \/ FlagDeleted(t) \/ BuryPost(t)

-----------------------------------------------------------------------------
(* Maintenance: finalize_init by main, then the auto-trim task *)

AllUsers == Users \cup {DeleteKey}
Following(kind) == IF kind = "original" THEN "secondary" ELSE "video"

\* A walk over the DashMap of timelines visits every slot once, in hash order;
\* what other threads add is seen or not depending on where it lands.
StartWalk(pc, kind) ==
    maint' = [pc |-> pc, kind |-> kind, todo |-> AllUsers, user |-> DeleteKey, id |-> NoPost,
              at |-> now]

\* main has received a catch-up signal for every thread.
FinalizeInit ==
    /\ phase = "loading"
    /\ phase' = "finalizing"
    /\ StartWalk("sort", "original")
    /\ UNCHANGED <<now, store, topic, thr, reader, early>>

SortUser(u) ==
    /\ maint.pc = "sort" /\ u \in maint.todo
    /\ ~Guarded(maint.kind, u)
    /\ \E sorted \in Sortings(refs[maint.kind][u], DOMAIN refs[maint.kind][u]) :
          refs' = [refs EXCEPT ![maint.kind][u] = sorted]
    /\ maint' = [maint EXCEPT !.todo = @ \ {u}]
    /\ UNCHANGED <<now, posts, deleted, topic, thr, phase, reader, early>>

SortNext ==
    /\ maint.pc = "sort" /\ maint.todo = {}
    /\ IF maint.kind = "video" THEN StartWalk("trim", "original")
                               ELSE StartWalk("sort", Following(maint.kind))
    /\ UNCHANGED <<now, store, topic, thr, phase, reader, early>>

\* The interval of the auto-trim task ticks: trim_old_posts reads the time.
AutoTrim ==
    /\ phase = "serving" /\ maint.pc = "idle"
    /\ StartWalk("trim", "original")
    /\ UNCHANGED <<now, store, topic, thr, phase, reader, early>>

\* The trimmer takes the guard of the next user and keeps it while it pops.
TrimUser(u) ==
    /\ maint.pc = "trim" /\ u \in maint.todo
    /\ ~Guarded(maint.kind, u)
    /\ maint' = [maint EXCEPT !.pc = "pop", !.user = u, !.todo = @ \ {u}]
    /\ UNCHANGED <<now, store, topic, thr, phase, reader, early>>

OldFront == LET q == refs[maint.kind][maint.user] IN q # <<>> /\ Expired(maint.at, Head(q).at)
Front == Head(refs[maint.kind][maint.user])

\* Mutant: pop the reference and leave the post.
PopWithoutDrop ==
    /\ maint.pc = "pop" /\ OldFront
    /\ refs' = [refs EXCEPT ![maint.kind][maint.user] = Tail(@)]
    /\ UNCHANGED <<now, posts, deleted, topic, thr, phase, maint, reader, early>>

PopOld ==
    /\ maint.pc = "pop" /\ OldFront
    /\ refs' = [refs EXCEPT ![maint.kind][maint.user] = Tail(@)]
    /\ maint' = [maint EXCEPT !.pc = "drop", !.id = Front.id]
    /\ early' = IF maint.at < Front.at THEN early \cup {Front.id} ELSE early
    /\ UNCHANGED <<now, posts, deleted, topic, thr, phase, reader>>

DropPost ==
    /\ maint.pc = "drop"
    /\ posts' = posts \ {maint.id}
    /\ maint' = [maint EXCEPT !.pc = IF maint.user = DeleteKey THEN "unflag" ELSE "pop"]
    /\ UNCHANGED <<now, refs, deleted, topic, thr, phase, reader, early>>

Unflag ==
    /\ maint.pc = "unflag"
    /\ deleted' = deleted \ {maint.id}
    /\ maint' = [maint EXCEPT !.pc = "pop"]
    /\ UNCHANGED <<now, posts, refs, topic, thr, phase, reader, early>>

\* An empty deque is the same as no deque, so removing it changes nothing.
LeaveUser ==
    /\ maint.pc = "pop" /\ ~OldFront
    /\ maint' = [maint EXCEPT !.pc = "trim", !.user = DeleteKey, !.id = NoPost]
    /\ UNCHANGED <<now, store, topic, thr, phase, reader, early>>

\* Mutant: do not trim the timeline of videos.
TrimSkipsVideo ==
    /\ maint.pc = "trim" /\ maint.todo = {}
    /\ maint' = IF maint.kind = "original"
                THEN [maint EXCEPT !.kind = "secondary", !.todo = AllUsers]
                ELSE IF phase = "serving" THEN NoMaint
                ELSE [NoMaint EXCEPT !.pc = "sweep", !.todo = PostIds]
    /\ UNCHANGED <<now, store, topic, thr, phase, reader, early>>

\* finalize_init goes on with the sweep; an auto-trim is over.
TrimNext ==
    /\ maint.pc = "trim" /\ maint.todo = {}
    /\ maint' = IF maint.kind # "video"
                THEN [maint EXCEPT !.kind = Following(@), !.todo = AllUsers]
                ELSE IF phase = "serving" THEN NoMaint
                ELSE [NoMaint EXCEPT !.pc = "sweep", !.todo = PostIds]
    /\ UNCHANGED <<now, store, topic, thr, phase, reader, early>>

\* Mutant: the sweep takes the flag away with the post.
SweepForgets(p) ==
    /\ maint.pc = "sweep" /\ p \in maint.todo
    /\ posts' = IF p \in deleted THEN posts \ {p} ELSE posts
    /\ deleted' = deleted \ {p}
    /\ maint' = [maint EXCEPT !.todo = @ \ {p}]
    /\ UNCHANGED <<now, refs, topic, thr, phase, reader, early>>

\* One slot of deleted_posts.
SweepFlag(p) ==
    /\ maint.pc = "sweep" /\ p \in maint.todo
    /\ posts' = IF p \in deleted THEN posts \ {p} ELSE posts
    /\ maint' = [maint EXCEPT !.todo = @ \ {p}]
    /\ UNCHANGED <<now, refs, deleted, topic, thr, phase, reader, early>>

FinalizeEnds ==
    /\ maint.pc = "sweep" /\ maint.todo = {}
    /\ maint' = NoMaint
    /\ phase' = "serving"
    /\ UNCHANGED <<now, store, topic, thr, reader, early>>

Maintain ==
    \/ FinalizeInit \/ SortNext \/ AutoTrim \/ PopOld \/ DropPost \/ Unflag
    \/ LeaveUser \/ TrimNext \/ FinalizeEnds
    \/ \E u \in AllUsers : SortUser(u) \/ TrimUser(u)
    \/ \E p \in PostIds : SweepFlag(p)

-----------------------------------------------------------------------------
(* A read: get_videos_by_users, or get_all_posts_by_users in two stages *)

Cap == [original |-> MaxOriginal, secondary |-> MaxReply, video |-> MaxVideo]

\* The scan of a deque, from its back: what is not excluded, MaxScan at most.
Backwards(q, places) ==
    {Arrange(q, f) : f \in {g \in Orders(places) : \A i, j \in DOMAIN g : i < j => g[i] > g[j]}}
Scan(q, exclude) ==
    LET Cut(s) == SubSeq(s, 1, IF Len(s) < MaxScan THEN Len(s) ELSE MaxScan)
        Ids(s) == [i \in DOMAIN s |-> s[i].id]
    IN  {Cut(Ids(s)) : s \in Backwards(q, {i \in DOMAIN q : q[i].id \notin exclude})}

BeginRead ==
    /\ rd.pc = "idle"
    /\ \E req \in Requests :
          rd' = [NoRead EXCEPT !.pc = "user", !.req = req, !.users = req.users,
                               !.kind = IF req.video THEN "video" ELSE "original"]
    /\ result' = <<>>
    /\ UNCHANGED <<now, store, topic, thr, phase, maint, early>>

ScanUser ==
    /\ rd.pc = "user" /\ rd.users # <<>> /\ ~rd.late
    /\ ~Guarded(rd.kind, Head(rd.users))
    /\ \E ids \in Scan(refs[rd.kind][Head(rd.users)], rd.req.exclude) :
          rd' = [rd EXCEPT !.pc = "post", !.taken = 0, !.ids = ids]
    /\ UNCHANGED <<now, store, topic, thr, phase, maint, result, early>>

\* request_timeout has elapsed: the rest of the users is left out, and so is
\* the second stage, which is measured from the same start.
TimeOut ==
    /\ rd.pc = "user" /\ rd.users # <<>>
    /\ rd' = [rd EXCEPT !.late = TRUE, !.users = <<>>]
    /\ UNCHANGED <<now, store, topic, thr, phase, maint, result, early>>

Skip == rd' = [rd EXCEPT !.pc = "post", !.ids = Tail(@)] /\ UNCHANGED result
Take ==
    /\ rd' = [rd EXCEPT !.pc = "post", !.ids = Tail(@), !.taken = @ + 1]
    /\ result' = Append(result, Head(rd.ids))

ScanOver == rd.ids = <<>> \/ rd.taken = Cap[rd.kind]

LookUp ==
    /\ rd.pc = "post" /\ ~ScanOver
    /\ IF Head(rd.ids) \in posts THEN rd' = [rd EXCEPT !.pc = "check"] /\ UNCHANGED result
                                 ELSE Skip
    /\ UNCHANGED <<now, store, topic, thr, phase, maint, early>>

OwnRetweet(p) == Light[p].isRetweet /\ Light[p].sourceUser = rd.req.viewer

\* Mutant: trust posts and do not look at deleted_posts.
FilterTrustsPosts ==
    /\ rd.pc = "check"
    /\ LET p == Head(rd.ids)
       IN  IF OwnRetweet(p) THEN Skip
           ELSE IF rd.kind = "secondary" /\ Light[p].replyTo # NoPost
           THEN rd' = [rd EXCEPT !.pc = "reply"] /\ UNCHANGED result
           ELSE Take
    /\ UNCHANGED <<now, store, topic, thr, phase, maint, early>>

FilterPost ==
    /\ rd.pc = "check"
    /\ LET p == Head(rd.ids)
       IN  IF p \in deleted \/ OwnRetweet(p) THEN Skip
           ELSE IF rd.kind = "secondary" /\ Light[p].replyTo # NoPost
           THEN rd' = [rd EXCEPT !.pc = "reply"] /\ UNCHANGED result
           ELSE Take
    /\ UNCHANGED <<now, store, topic, thr, phase, maint, early>>

\* A reply is shown below an original post, or below a reply to the root of
\* the conversation when that reply is by a followed user.
ReplyShown(p) ==
    LET parent == Light[p].replyTo
    IN  /\ parent \in posts
        /\ \/ ~Light[parent].isRetweet /\ ~Light[parent].isReply
           \/ /\ Light[p].conversation # NoPost
              /\ Light[parent].replyTo = Light[p].conversation
              /\ \E i \in DOMAIN rd.req.users : rd.req.users[i] = Light[p].replyUser

FilterReply ==
    /\ rd.pc = "reply"
    /\ IF ReplyShown(Head(rd.ids)) THEN Take ELSE Skip
    /\ UNCHANGED <<now, store, topic, thr, phase, maint, early>>

LeaveScan ==
    /\ rd.pc = "post" /\ ScanOver
    /\ rd' = [rd EXCEPT !.pc = "user", !.users = Tail(@), !.ids = <<>>, !.taken = 0]
    /\ UNCHANGED <<now, store, topic, thr, phase, maint, result, early>>

EndStage ==
    /\ rd.pc = "user" /\ rd.users = <<>>
    /\ IF rd.kind = "original"
       THEN rd' = [rd EXCEPT !.kind = "secondary",
                             !.users = IF rd.late THEN <<>> ELSE rd.req.users]
            /\ UNCHANGED result
       ELSE rd' = NoRead /\ result' = <<>>
    /\ UNCHANGED <<now, store, topic, thr, phase, maint, early>>

ReadOn ==
    \/ ScanUser \/ TimeOut \/ LookUp \/ FilterPost \/ FilterReply \/ LeaveScan \/ EndStage

-----------------------------------------------------------------------------
\* Who writes.  Readers come in through ThunderService; they change none of the maps.
Next == Tick \/ Maintain \/ \E t \in Threads : Listen(t)

Spec == Init /\ [][Next]_vars

\* The listeners and the trimmer are tasks that are never stopped.  Whoever waits
\* for a guard gets it in the end, as a guard is kept for one user only: hence the
\* strong fairness.
Fairness ==
    /\ WF_vars(Tick)
    /\ \A t \in Threads : SF_vars(Listen(t))
    /\ SF_vars(Maintain)
FairSpec == Spec /\ Fairness

-----------------------------------------------------------------------------
(* Properties *)

Refers(q, p) == \E i \in DOMAIN q : q[i].id = p
TooOld(p) == now > Light[p].created + Retention
BeingFlagged(p) == \E t \in Threads : At(t, "flag") /\ Deleting(t).id = p

\* Nothing leaks from posts: only a timeline reference makes the trimmer remove
\* a post, so every stored post has one with its author, or a thread is about
\* to push it, or the trimmer has just popped it and is about to remove the post.
PostsReferenced ==
    \A p \in posts :
       \/ Refers(refs[PrimaryKind(p)][Light[p].author], p)
       \/ \E t \in Threads : At(t, "refer") /\ Creating(t).id = p
       \/ maint.pc = "drop" /\ maint.id = p

\* Nothing leaks from deleted_posts: every flag has a tombstone that the trimmer
\* will find, or is between the two steps that set it or take it away.
FlagsBuried ==
    \A p \in deleted :
       \/ Refers(refs["original"][DeleteKey], p)
       \/ \E t \in Threads : At(t, "bury") /\ Deleting(t).id = p
       \/ maint.pc \in {"drop", "unflag"} /\ maint.user = DeleteKey /\ maint.id = p

\* However creates are redelivered, a timeline refers twice to a post only when
\* the post is deleted, about to be flagged, older than the retention period, or
\* was trimmed too early: posts.insert tells a thread that the post is already there.
NoDoubleReference ==
    \A k \in Kinds, u \in Users :
       \A i, j \in DOMAIN refs[k][u] :
          i # j /\ refs[k][u][i].id = refs[k][u][j].id =>
             LET p == refs[k][u][i].id IN p \in deleted \cup early \/ TooOld(p) \/ BeingFlagged(p)

\* A deletion outlives the post: trim_old_posts takes a flag away only when the
\* post is too old for insert_posts, so no late or repeated create brings it back;
\* except for a tombstone that was stamped after the trim had read the clock.
FlagOutlivesPost == [][\A p \in deleted \ deleted' : TooOld(p) \/ p \in early]_vars

\* "Manually trim posts older than retention period from all users": a post that a
\* trim takes out of a timeline of its author is too old.
TrimsOnlyOld == [][maint.pc = "pop" /\ maint.user \in Users /\ maint'.pc = "drop" => TooOld(maint'.id)]_vars

\* Once everything has expired, the trimmer empties the store for good: nothing
\* that the races of the listeners left behind stays in memory.
Empty == posts = {} /\ deleted = {} /\ \A k \in Kinds, u \in AllUsers : refs[k][u] = <<>>
EverythingReclaimed == <>[]Empty

=============================================================================
