---------------------------- MODULE HomeHydrators ----------------------------
(***************************************************************************)
(* The candidate hydrators of the Phoenix pipeline.  The parallel stage    *)
(* works on candidates as the sources delivered them: what one hydrator    *)
(* learns another does not see.  caches are the in-process caches as the   *)
(* stage looks them up, key -> the fields an answer updates.               *)
(*                                                                         *)
(* The hydrators of metrics, media, languages, screen names and followers  *)
(* are left out: no filter or scorer of a feed reads what they add.        *)
(***************************************************************************)
EXTENDS HomeSources

CacheNames == {"core", "quote", "video", "subscription", "brand"}

TweetIds(cs) == MapSeq(cs, LAMBDA c : c.tweet_id)
OriginalTweetIds(cs) == MapSeq(cs, OriginalTweetId)

\* Not in the posts a request took from its cache: these ran when it was filled.
Fresh(q) == ~q.has_cached_posts

InNetworkHydrator(q, cs) ==
    HydrateEach(Fresh(q), MapSeq(cs, LAMBDA c :
        Some([in_network |-> Some(c.author_id = Viewer \/ c.author_id \in q.followed)])))

BlockedByHydrator(q, faults, cs) ==
    HydrateEach(Fresh(q), MapSeq(cs, LAMBDA c :
        Answered(faults, "blocked_by",
                 [blocks_viewer |-> Some(c.author_id \in World.blocks_viewer)])))
-----------------------------------------------------------------------------
(* Cached hydrators *)

\* A post TES does not have is hydrated with nothing, and cached that way.
CoreData(id, faults) ==
    IF Known(id) /\ ~Fails(faults, "tes_missing", id)
    THEN [tweet_text |-> Post(id).words, in_reply_to |-> NonZero(Post(id).reply_to),
          retweeted_id |-> NonZero(Post(id).source),
          retweeted_user |-> NonZero(Post(id).source_author)]
    ELSE [tweet_text |-> {}, in_reply_to |-> None, retweeted_id |-> None, retweeted_user |-> None]

CoreDataHydrator(q, faults, cs, found) ==
    CachedHydrate(Fresh(q), found, TweetIds(cs), MapSeq(TweetIds(cs), LAMBDA id :
        AnsweredFor(faults, "tes_core", id, CoreData(id, faults))))

SubscriptionHydrator(q, faults, cs, found) ==
    CachedHydrate(Fresh(q), found, TweetIds(cs), MapSeq(TweetIds(cs), LAMBDA id :
        AnsweredFor(faults, "tes_subscription", id,
                    [subscription |-> NonZero(Post(id).subscription)])))

\* The key is what the source took for the original post.
VideoDurationHydrator(q, faults, cs, found) ==
    CachedHydrate(Fresh(q), found, OriginalTweetIds(cs), MapSeq(OriginalTweetIds(cs), LAMBDA id :
        AnsweredFor(faults, "tes_video", id, [video |-> NonZero(Post(id).video)])))
-----------------------------------------------------------------------------
(* QuoteHydrator keeps its cache itself: whatever came back is cached. *)

Quote(id, faults) ==
    IF Fails(faults, "tes_quoted", id) THEN [quoted_id |-> None, quoted_user |-> None]
    ELSE [quoted_id |-> NonZero(Post(id).quoted), quoted_user |-> NonZero(Post(id).quoted_author)]

QuotedVideo(q, faults, id) ==
    IF q.params.quoted_duration /\ Known(id) /\ ~Fails(faults, "quoted_video", id)
    THEN NonZero(Post(id).video) ELSE None

QuoteHydrator(q, faults, cs, found) ==
    LET missed == {c.tweet_id : c \in Range1(cs)} \ DOMAIN found
        Of(id) == IF id \in missed THEN Quote(id, faults) ELSE found[id]
        \* a failed check blocks nobody
        Blocks(user) == user \in World.blocks_viewer /\ ~Fails(faults, "quoted_blocked_by", 0)
        Answer(c) ==
            Over([quoted_blocks_viewer |-> Some(\E u \in Of(c.tweet_id).quoted_user : Blocks(u)),
                  quoted_video |-> UNION {QuotedVideo(q, faults, id) : id \in Of(c.tweet_id).quoted_id}],
                 Of(c.tweet_id))
    IN  [results |-> HydrateEach(Fresh(q), MapSeq(cs, LAMBDA c : Some(Answer(c)))),
         inserts |-> [id \in IF Fresh(q) THEN missed ELSE {} |-> Quote(id, faults)]]
-----------------------------------------------------------------------------
(* FilteredTopicsHydrator *)

TopicExperiment(q) ==
    LET overridden == q.topic_ids \cap DOMAIN q.params.topic_overrides
    IN  IF IsBulkTopicRequest(q) \/ HasExcludedTopics(q) THEN "unfiltered"
        ELSE IF overridden = {} THEN q.params.topic_filtering
        ELSE q.params.topic_overrides[CHOOSE t \in overridden : TRUE]

\* A retweet has the topics of the original.
FilteredTopics(q, faults, c) ==
    LET id == OriginalTweetId(c)
        known == Known(id) /\ ~Fails(faults, "strato_topics", id)
    IN  [topics |-> IF ~known THEN None
                    ELSE IF TopicExperiment(q) = "unfiltered" THEN Some(Post(id).unfiltered)
                    ELSE Some(Post(id).topics),
         unfiltered |-> IF known /\ TopicExperiment(q) # "unfiltered"
                        THEN Some(Post(id).unfiltered) ELSE None]

FilteredTopicsHydrator(q, faults, cs) ==
    HydrateEach(\/ IsTopicRequest(q) \/ HasExcludedTopics(q)
                \/ q.params.new_user_filtering /\ HasNewUserTopicIds(q),
                MapSeq(cs, LAMBDA c : Some(FilteredTopics(q, faults, c))))
-----------------------------------------------------------------------------
(* The stage: candidates and what the in-process caches gain. *)

HydrateCandidates(q, faults, cs, caches) ==
    LET core  == CoreDataHydrator(q, faults, cs, caches.core)
        quote == QuoteHydrator(q, faults, cs, caches.quote)
        video == VideoDurationHydrator(q, faults, cs, caches.video)
        subs  == SubscriptionHydrator(q, faults, cs, caches.subscription)
    IN  [candidates |->
             RunHydrators(cs, <<InNetworkHydrator(q, cs), core.results, quote.results,
                                video.results, subs.results, BlockedByHydrator(q, faults, cs),
                                FilteredTopicsHydrator(q, faults, cs)>>),
         inserts |-> [core |-> core.inserts, quote |-> quote.inserts, video |-> video.inserts,
                      subscription |-> subs.inserts, brand |-> <<>>]]

Inserted(caches, inserts) == [n \in CacheNames |-> Over(inserts[n], caches[n])]
-----------------------------------------------------------------------------
(* VFCandidateHydrator (after the selection).  A post's reason is that of  *)
(* the level it is asked for at; "recommended" hides it from              *)
(* recommendations only, "limited" is a SafetyResult that does not drop.   *)

Reason(id, level) ==
    IF ~Known(id) \/ Post(id).hidden = "none" THEN None
    ELSE IF Post(id).hidden = "recommended" /\ level = "home" THEN None
    ELSE Some(Post(id).hidden)

VfIds(cs, level) ==
    LET Asked(c) ==
            IF level = "home"
            THEN (IF Get(c.in_network, FALSE) THEN {c.tweet_id} ELSE {}) \cup c.retweeted_id
            ELSE (IF Get(c.in_network, FALSE) THEN {} ELSE {c.tweet_id})
                 \cup Range1(c.ancestors) \cup c.quoted_id
    IN  UNION {Asked(c) : c \in Range1(cs)}

\* id -> the answer; that of the recommendations level replaces the other.
VfResults(cs, faults) ==
    LET Of(level, call) == [id \in VfIds(cs, level) |->
                                AnsweredFor(faults, call, id, Reason(id, level))]
    IN  Over(Of("recommendations", "vf_recommendations"), Of("home", "vf_home"))

ShouldDropReason(reason) == reason \notin {None, Some("limited")}
ShouldDropAncillary(c, results) ==
    \E id \in (Range1(c.ancestors) \cup c.quoted_id \cup c.retweeted_id) \cap DOMAIN results :
        results[id] # None /\ ShouldDropReason(Get(results[id], None))

VFHydrator(faults, cs) ==
    LET results == VfResults(cs, faults)
    IN  MapSeq(cs, LAMBDA c :
            IF results[c.tweet_id] = None THEN None
            ELSE Some([visibility |-> Get(results[c.tweet_id], None),
                       drop_ancillary |-> Some(ShouldDropAncillary(c, results))]))
-----------------------------------------------------------------------------
(* The two brand-safety hydrators judge alike; the first caches by the id  *)
(* of the candidate, for a time (see Dated and Live in HomeMixer). *)

Verdict(call, faults, id) ==
    IF Fails(faults, call, id) THEN "medium"
    ELSE ComputeVerdict(IF Known(id) THEN Post(id).labels ELSE {}, id)

BrandSafety(call, faults, c) ==
    LET own == OriginalTweetId(c)
        quoted == {Verdict(call, faults, id) : id \in c.quoted_id}
    IN  IF Fails(faults, call, own) THEN None
        ELSE Some([verdict |-> Some(WorstVerdict(Verdict(call, faults, own),
                                                 Get(quoted, "safe")))])

AdsBrandSafetyHydrator(q, faults, cs, found) ==
    CachedHydrate(q.params.brand_safety = "labels", found, TweetIds(cs),
                  MapSeq(cs, LAMBDA c : BrandSafety("labels", faults, c)))

AdsBrandSafetyVfHydrator(q, faults, cs) ==
    HydrateEach(q.params.brand_safety = "vf",
                MapSeq(cs, LAMBDA c : BrandSafety("vf_labels", faults, c)))
-----------------------------------------------------------------------------
(* FollowingRepliedUsersHydrator: root posts with enough repliers among    *)
(* those the viewer follows, the first few of the list.                    *)

Repliers(q, c) == {r.author : r \in {x \in q.network_replies : x.to = c.tweet_id}} \ {c.author_id}

FollowingRepliedUsers(q, cs) ==
    LET Eligible(c) == c.in_reply_to = None /\ Cardinality(Repliers(q, c)) >= Limits.facepile_min
        Before(i) == Cardinality({j \in 1..i - 1 : Eligible(cs[j])})
    IN  [i \in 1..Len(cs) |->
            IF ~q.params.facepile THEN None
            ELSE Some([replied |-> IF Eligible(cs[i]) /\ Before(i) < Limits.facepile_max
                                   THEN Repliers(q, cs[i]) ELSE {}])]

HydratePostSelection(q, faults, cs, caches) ==
    LET brand == AdsBrandSafetyHydrator(q, faults, cs, caches.brand)
    IN  [candidates |-> RunHydrators(cs, <<VFHydrator(faults, cs), brand.results,
                                           AdsBrandSafetyVfHydrator(q, faults, cs),
                                           FollowingRepliedUsers(q, cs)>>),
         inserts |-> [n \in CacheNames |-> IF n = "brand" THEN brand.inserts ELSE <<>>]]
=============================================================================
