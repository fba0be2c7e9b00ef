---------------------------- MODULE ThunderService ----------------------------
(***************************************************************************)
(* Thunder's gRPC handler (thunder_service.rs) on top of the post store:   *)
(* the semaphore that sheds load, the following list that is fetched from  *)
(* Strato when a debug request brings none, the read on the blocking pool, *)
(* and a client that goes away while its call is worked on.                *)
(*                                                                         *)
(* A handler is a future: when its client is gone the future is dropped    *)
(* and with it the permit, but a task on the blocking pool runs on.  The   *)
(* pool runs one read at a time here (a bound of the model): which reads   *)
(* overlap with each other makes no difference to the store.               *)
(***************************************************************************)
EXTENDS PostStore

CONSTANTS
    Calls,
    NoCall,
    Asked,              \* what each call asks: [Calls -> Ask]
    Follows,            \* the following lists in Strato: [Users -> Seq(Users)]
    Leaving,            \* bound of the model: the calls whose client may go away
    MaxConcurrent,      \* max_concurrent_requests
    MaxInput,           \* MAX_INPUT_LIST_SIZE
    MaxPosts, MaxVideos \* MAX_POSTS_TO_RETURN, MAX_VIDEOS_TO_RETURN

AskType == [viewer : Users, following : Seq(Users), exclude : Seq(PostIds), video : BOOLEAN,
            debug : BOOLEAN, max : Nat]

ASSUME CallsAssumption ==
    NoCall \notin Calls /\ Leaving \subseteq Calls /\ Asked \in [Calls -> AskType]
ASSUME FollowsAssumption == Follows \in [Users -> Seq(Users)]
ASSUME ServiceLimitsAssumption ==
    /\ MaxConcurrent \in Nat /\ MaxInput \in Nat /\ MaxPosts \in Nat /\ MaxVideos \in Nat

VARIABLES
    permits,    \* of request_semaphore that are free
    handler,    \* of each call: "new", "strato", "await", "gone" or "done"
    task,       \* on the blocking pool, of each call: "none", "queued", "running" or "over"
    scan,       \* the call the read in progress is for
    found,      \* what the task returns: [posts, late]
    flagged,    \* history: what was deleted when the call came in
    due         \* history: what has been there to read ever since

service == <<permits, handler, task, scan, found, flagged, due>>
svars == <<vars, service>>

Nothing == [posts |-> <<>>, late |-> FALSE]

ServiceInit ==
    /\ Init
    /\ permits = MaxConcurrent
    /\ handler = [c \in Calls |-> "new"] /\ task = [c \in Calls |-> "none"]
    /\ scan = NoCall
    /\ found = [c \in Calls |-> Nothing]
    /\ flagged = [c \in Calls |-> {}] /\ due = [c \in Calls |-> {}]

Becomes(c, state) == handler' = [handler EXCEPT ![c] = state]
SeqSet(s) == {s[i] : i \in DOMAIN s}
UsesStrato(c) == Asked[c].following = <<>> /\ Asked[c].debug
Followed(c) == IF UsesStrato(c) THEN Follows[Asked[c].viewer] ELSE Asked[c].following
FirstK(s) == SubSeq(s, 1, IF Len(s) < MaxInput THEN Len(s) ELSE MaxInput)

\* What the task asks the store for.
ReadOf(c) == [users |-> FirstK(Followed(c)), viewer |-> Asked[c].viewer,
              exclude |-> SeqSet(FirstK(Asked[c].exclude)), video |-> Asked[c].video]
MaxResults(c) == IF Asked[c].max > 0 THEN Asked[c].max
                 ELSE IF Asked[c].video THEN MaxVideos ELSE MaxPosts

\* What call c asks for: the posts of the users it follows.
Wanted(c) == {p \in PostIds : /\ Light[p].author \in SeqSet(ReadOf(c).users)
                              /\ p \notin ReadOf(c).exclude}

\* A post a read may return: stored, in its timeline, and neither deleted nor
\* on the way to it.
Readable(p) ==
    /\ p \in posts \ deleted
    /\ \E i \in DOMAIN refs[PrimaryKind(p)][Light[p].author] :
          refs[PrimaryKind(p)][Light[p].author][i].id = p
    /\ ~\E t \in Threads : At(t, "flag") /\ Deleting(t).id = p

-----------------------------------------------------------------------------
(* The handler *)

\* The handler returns.  What was kept of the call is of no more use.
Return(c) ==
    /\ Becomes(c, "done") /\ task' = [task EXCEPT ![c] = "none"]
    /\ found' = [found EXCEPT ![c] = Nothing]
    /\ flagged' = [flagged EXCEPT ![c] = {}] /\ due' = [due EXCEPT ![c] = {}]

TryAcquire == permits > 0

Reject(c) ==
    /\ handler[c] = "new" /\ ~TryAcquire
    /\ Return(c)
    /\ UNCHANGED <<vars, permits, scan>>

Spawn(c) == Becomes(c, "await") /\ task' = [task EXCEPT ![c] = "queued"]

Accept(c) ==
    /\ handler[c] = "new" /\ TryAcquire
    /\ permits' = permits - 1
    /\ IF UsesStrato(c) THEN Becomes(c, "strato") /\ UNCHANGED task ELSE Spawn(c)
    /\ flagged' = [flagged EXCEPT ![c] = deleted \cap Wanted(c)]
    /\ due' = [due EXCEPT ![c] = {p \in Wanted(c) : Readable(p)}]
    /\ UNCHANGED <<vars, scan, found>>

StratoAnswers(c) ==
    /\ handler[c] = "strato"
    /\ Spawn(c)
    /\ UNCHANGED <<vars, permits, scan, found, flagged, due>>

\* Mutant: the early return keeps the permit.
StratoFailsHolding(c) ==
    /\ handler[c] = "strato"
    /\ Return(c)
    /\ UNCHANGED <<vars, permits, scan>>

StratoFails(c) ==
    /\ handler[c] = "strato"
    /\ Return(c) /\ permits' = permits + 1
    /\ UNCHANGED <<vars, scan>>

Answer(c) ==
    /\ handler[c] = "await" /\ task[c] = "over"
    /\ Return(c) /\ permits' = permits + 1
    /\ UNCHANGED <<vars, scan>>

\* The client goes away: the future is dropped where it awaits, but a task on
\* the blocking pool is still to run.
Hangup(c) ==
    /\ c \in Leaving /\ handler[c] \in {"strato", "await"}
    /\ permits' = permits + 1
    /\ IF task[c] \in {"queued", "running"}
       THEN /\ Becomes(c, "gone") /\ flagged' = [flagged EXCEPT ![c] = {}]
            /\ due' = [due EXCEPT ![c] = {}] /\ UNCHANGED <<task, found>>
       ELSE Return(c)
    /\ UNCHANGED <<vars, scan>>

-----------------------------------------------------------------------------
(* The task on the blocking pool *)

StartTask(c) ==
    /\ task[c] = "queued"
    /\ BeginRead /\ rd'.req = ReadOf(c)
    /\ task' = [task EXCEPT ![c] = "running"] /\ scan' = c
    /\ UNCHANGED <<permits, handler, found, flagged, due>>

\* The answers that Before puts in order and cuts at max: sort_unstable_by_key
\* leaves posts of one second in any order.
Cuts(read, max, Before(_, _)) ==
    LET orders == {Arrange(read, f) : f \in Orders(DOMAIN read)}
    IN  {SubSeq(s, 1, IF Len(s) < max THEN Len(s) ELSE max) :
            s \in {o \in orders : \A i, j \in DOMAIN o : i < j => ~Before(o[j], o[i])}}

\* Mutant: the oldest first.
ScoreOldest(read, max) == Cuts(read, max, LAMBDA p, q : Light[p].created < Light[q].created)

\* The newest first.
ScoreRecent(read, max) == Cuts(read, max, LAMBDA p, q : Light[p].created > Light[q].created)

\* The read ends: its posts are scored, for a client that may be gone.
EndTask ==
    /\ rd'.pc = "idle" /\ scan' = NoCall
    /\ IF handler[scan] = "gone" THEN Return(scan) /\ UNCHANGED permits
       ELSE /\ task' = [task EXCEPT ![scan] = "over"]
            /\ \E scored \in ScoreRecent(result, MaxResults(scan)) :
                  found' = [found EXCEPT ![scan] = [posts |-> scored, late |-> rd.late]]
            /\ due' = [due EXCEPT ![scan] = {p \in @ : Readable(p) /\ ~TooOld(p) /\ p \notin early}]
            /\ UNCHANGED <<permits, handler, flagged>>

RunTask ==
    /\ ReadOn
    /\ \/ EndTask
       \/ rd'.pc # "idle" /\ UNCHANGED service

Store == (Tick \/ Maintain \/ \E t \in Threads : Listen(t)) /\ UNCHANGED service

Handle(c) == Accept(c) \/ Reject(c) \/ Answer(c) \/ StratoAnswers(c) \/ StratoFails(c)

ServiceNext ==
    \/ Store \/ RunTask
    \/ \E c \in Calls : Handle(c) \/ Hangup(c) \/ StartTask(c)

ServiceSpec == ServiceInit /\ [][ServiceNext]_svars

-----------------------------------------------------------------------------
(* Properties *)

\* The answer is there, about to be sent.
Answering(c) == handler[c] = "await" /\ task[c] = "over"

\* No answer has a post that was flagged as deleted when the call came in,
\* however the read interleaves with the trimmer and with creates delivered
\* again, unless the post is too old by itself or was trimmed too early.
AnswerHidesDeleted ==
    \A c \in Calls : Answering(c) =>
       \A i \in DOMAIN found[c].posts :
          LET p == found[c].posts[i] IN p \in flagged[c] => TooOld(p) \/ p \in early

\* A read takes and scans so many posts of an author: nobody wrote more of a kind.
CreatesOf(t, u, k) == {i \in DOMAIN Feed[t] : /\ ~Feed[t][i].delete
                                               /\ Light[Feed[t][i].id].author = u
                                               /\ PrimaryKind(Feed[t][i].id) = k}
RoomForAll ==
    \A u \in Users, k \in Kinds \ {"video"} :
       LET created == Cardinality(UNION {{t} \X CreatesOf(t, u, k) : t \in Threads})
       IN  created <= Cap[k] /\ created <= MaxScan

\* Unless its time ran out, an answer holds the newest of what was there to
\* read all the while by the first users asked for, if nobody wrote more than a
\* read takes of an author: an original of theirs that it misses, or a reply of
\* theirs to one, was cut off by as many posts, none of them older.
Shown(p, here) ==
    \/ PrimaryKind(p) = "original"
    \/ /\ ~Light[p].isRetweet
       /\ Light[p].replyTo \in here /\ PrimaryKind(Light[p].replyTo) = "original"
NothingNewerMissed ==
    \A c \in Calls : (Answering(c) /\ ~found[c].late /\ ~Asked[c].video /\ RoomForAll) =>
       \A p \in due[c] \ SeqSet(found[c].posts) : Shown(p, due[c]) =>
          /\ Len(found[c].posts) = MaxResults(c)
          /\ \A i \in DOMAIN found[c].posts : Light[found[c].posts[i]].created >= Light[p].created

\* Each permit is with a handler at work or free: every way out of the handler,
\* also when Strato fails and when the client goes away, gives it back once.
PermitsAreBack ==
    /\ permits >= 0
    /\ permits + Cardinality({c \in Calls : handler[c] \in {"strato", "await"}}) = MaxConcurrent
=============================================================================
