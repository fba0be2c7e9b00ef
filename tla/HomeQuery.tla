------------------------------ MODULE HomeQuery ------------------------------
(***************************************************************************)
(* home-mixer's query hydrators: what a request learns about its viewer    *)
(* before it fetches candidates.  Each is the Option of the fields it      *)
(* updates; faults are the calls of the request that fail or time out.     *)
(***************************************************************************)
EXTENDS HomeData

(* The Phoenix pipeline's. *)

BlockedUserIds(faults) == Answered(faults, "blocked", [blocked |-> World.blocked])
MutedUserIds(faults) == Answered(faults, "muted", [muted |-> World.muted])
FollowedUserIds(faults) == Answered(faults, "followed", [followed |-> World.followed])
SubscribedUserIds(faults) == Answered(faults, "subscribed", [subscribed |-> World.subscribed])

ScoringSequence(faults) == Answered(faults, "scoring", [scoring_sequence |-> Some("actions")])
RetrievalSequence(faults) == Answered(faults, "retrieval", [retrieval_sequence |-> Some("actions")])
ImpressionBloomFilter(faults) == Answered(faults, "bloom", [bloom |-> World.seen])

\* Mutant: leave in_network_only out of the key.
CachedPostsKeyAnyNetwork(q) == <<q.topic_ids, q.exclude_videos>>

CachedPostsKey(q) == <<q.topic_ids, q.in_network_only, q.exclude_videos>>

\* stored: what Redis holds for the key.  Too few posts are not used, but the
\* query keeps them.
CachedPosts(q, faults, stored) ==
    When(q.params.cached,
         Answered(faults, "redis_get",
                  [cached_posts |-> stored, has_cached_posts |-> Len(stored) >= Limits.min_cached]))

\* The topics followed are used for a new viewer of the plain feed only; an
\* empty answer leaves the query's.
NewUserTopicIds(q) ==
    IF /\ q.params.new_user_retrieval \/ q.params.new_user_filtering
       /\ ~IsTopicRequest(q) /\ ~q.in_network_only /\ World.new_user
    THEN World.followed_topics ELSE {}
FollowedGrokTopics(q, faults) ==
    When(\/ q.params.context \/ q.shadow
         \/ q.params.new_user_retrieval \/ q.params.new_user_filtering,
         Answered(faults, "followed_topics",
                  [new_user_topic_ids |-> IF NewUserTopicIds(q) = {} THEN q.new_user_topic_ids
                                          ELSE NewUserTopicIds(q)]))

HydratePhoenixQuery(q, faults, stored) ==
    HydrateQuery(q, <<ScoringSequence(faults), RetrievalSequence(faults), BlockedUserIds(faults),
                      MutedUserIds(faults), FollowedUserIds(faults), SubscribedUserIds(faults),
                      CachedPosts(q, faults, stored), ImpressionBloomFilter(faults),
                      FollowedGrokTopics(q, faults)>>)
-----------------------------------------------------------------------------
(* The For You pipeline's.  A history is the responses served, newest      *)
(* first, as [time, entries]; an entry is [type, ids, users].              *)

RecentIds(history, now) ==
    LET recent == Those(history, LAMBDA h : h.time >= now - Limits.served_duration)
    IN  FlattenSeq(MapSeq(recent, LAMBDA h : FlattenSeq(MapSeq(h.entries, LAMBDA e : e.ids))))
RecentlyServedIds(history, now) == Range1(Take(RecentIds(history, now), Limits.served_number))

\* Mutant: look at the oldest response only.
IsModuleEligibleByLast(history, type, now) ==
    LET oldest == {history[i] : i \in {Len(history)} \ {0}}
    IN  \A h \in oldest : (\E e \in Range1(h.entries) : e.type = type)
                             => now - h.time >= Limits.wtf_fatigue

IsModuleEligible(history, type, now) ==
    \A i \in 1..Len(history) :
        (\E e \in Range1(history[i].entries) : e.type = type)
            => now - history[i].time >= Limits.wtf_fatigue

ServedHistory(q, faults, history) ==
    When(q.params.urt,
         Answered(faults, "history_get",
                  [served_history |-> history,
                   served_ids |-> RecentlyServedIds(history, q.request_time),
                   wtf_eligible |-> IsModuleEligible(history, "who_to_follow", q.request_time)]))

PastRequestTimestamps(q, faults, timestamps) ==
    When(q.params.urt, Answered(faults, "timestamps_get", [timestamps |-> timestamps]))

HydrateForYouQuery(q, faults, history, timestamps) ==
    HydrateQuery(q, <<ServedHistory(q, faults, history),
                      PastRequestTimestamps(q, faults, timestamps)>>)
=============================================================================
