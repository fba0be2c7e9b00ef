------------------------------ MODULE HomeMixer ------------------------------
(***************************************************************************)
(* home-mixer answering overlapping requests of one viewer.  A For You     *)
(* request reads the viewer's served history, runs the whole Phoenix       *)
(* pipeline as one of its sources and blends what comes back; a request    *)
(* for scored posts is the Phoenix pipeline alone.  Each stage is a step,  *)
(* each side effect a step of its own behind the response, in any order    *)
(* and after any delay.  What requests share: the stores of the viewer     *)
(* (served history, request timestamps, cached posts) and the caches of    *)
(* the process.                                                            *)
(***************************************************************************)
EXTENDS HomeEffects

CONSTANTS
    Requests,    \* the requests, numbered in the order they arrive
    Scenarios,   \* request -> what it may be: [request, surface, data, params, faults, ads,
                 \* blender, sampled, shadow, gap]; gap is the time since the last
    Past         \* what was served to the viewer before: time -> entries

Surfaces == {"scored_posts", "for_you", "for_you_urt"}
Weights == [total : Nat, negative : Int, offset : Int, floor : Int, decay : Nat,
            topic_oon : Int, new_user_oon : Int, oon : Int]

ASSUME RequestsAssumption ==
    /\ Requests \subseteq Nat /\ DOMAIN Past \subseteq Nat /\ IsFiniteSet(DOMAIN Past)
    /\ \A t \in DOMAIN Past :
          /\ Past[t] \in Seq(Range1(Past[t]))
          /\ \A i \in 1..Len(Past[t]) : Past[t][i].ids \in Seq(Range1(Past[t][i].ids))
    /\ \A r \in Requests : \A sc \in Scenarios[r] :
          /\ sc.surface \in Surfaces /\ sc.gap \in Nat /\ sc.params.weights \in Weights
          /\ sc.ads \in Seq(Range1(sc.ads))
          /\ \A i \in 1..Len(sc.ads) : sc.ads[i].insert_position \in Int

ASSUME SizesAssumption == Limits.result_size = ResultSize

VARIABLES
    now,          \* the clock of the stores and of the requests
    reqs,         \* request -> how far it is and what it carries
    history,      \* the served history: time of the request -> entries
    timestamps,   \* the Option of the times of past requests
    posts_cache,  \* Redis: key -> [posts, expires]
    caches,       \* the process's caches of hydrators
    landed        \* history: the times whose response was ever recorded

vars == <<now, reqs, history, timestamps, posts_cache, caches, landed>>

NoCaches == [n \in CacheNames |-> <<>>]

Idle ==
    [stage |-> "idle", scenario |-> <<>>, outer |-> <<>>, query |-> <<>>, found |-> NoCaches,
     retrieved |-> <<>>, shortlist |-> <<>>, candidates |-> <<>>, filtered |-> <<>>, non_selected |-> <<>>,
     posts |-> None, items |-> <<>>, pending |-> {}, published |-> <<>>]

Init ==
    /\ now = CHOOSE t \in DOMAIN Past \cup {0} : \A u \in DOMAIN Past : u <= t
    /\ reqs = [r \in Requests |-> Idle]
    /\ history = Past
    /\ timestamps = None
    /\ posts_cache = <<>>
    /\ caches = NoCaches
    /\ landed = DOMAIN Past

Ids(cs) == MapSeq(cs, LAMBDA c : c.tweet_id)
At(r, stage) == reqs[r].stage = stage
Faults(r) == reqs[r].scenario.faults
ForYou(r) == reqs[r].scenario.surface # "scored_posts"
Becomes(r, change) == reqs' = [reqs EXCEPT ![r] = Over(change, @)]
StoresUnchanged == UNCHANGED <<history, timestamps, posts_cache, landed>>

\* What is in the cache of brand-safety verdicts at a time, and what goes in.
Live(cs, t) ==
    [cs EXCEPT !.brand = [k \in {b \in DOMAIN cs.brand : cs.brand[b].expires > t} |->
                              cs.brand[k].fields]]
\* A verdict on a young post is kept for less time.
Dated(inserts, t) ==
    LET Ttl(id) == IF Known(id) /\ t - Post(id).created < Limits.brand_age
                   THEN Limits.brand_new ELSE Limits.brand_old
    IN  [inserts EXCEPT !.brand = [k \in DOMAIN inserts.brand |->
                                       [fields |-> inserts.brand[k], expires |-> t + Ttl(k)]]]
-----------------------------------------------------------------------------
(* Building the query *)

Build(r) ==
    /\ At(r, "idle")
    /\ \A s \in Requests : s < r => ~At(s, "idle")
    /\ \E sc \in Scenarios[r] :
          LET data == FetchViewerData(sc.faults, sc.data)
              query == [NewQuery(sc.request, sc.params, data, now + sc.gap)
                           EXCEPT !.shadow = sc.shadow]
              asked == IF sc.surface = "for_you_urt" THEN UrtQuery(query, sc.request) ELSE query
          IN  /\ now' = now + sc.gap
              /\ Becomes(r, [stage |-> IF sc.surface = "scored_posts" THEN "asked" ELSE "built",
                             scenario |-> sc, outer |-> asked, query |-> asked])
    /\ UNCHANGED caches /\ StoresUnchanged

HydrateForYou(r) ==
    /\ At(r, "built")
    /\ LET q == HydrateForYouQuery(reqs[r].outer, Faults(r), Responses(history), timestamps)
       IN  Becomes(r, [stage |-> "asked", outer |-> q, query |-> q])
    /\ UNCHANGED <<now, caches>> /\ StoresUnchanged
-----------------------------------------------------------------------------
(* The Phoenix pipeline *)

\* What Redis holds under a key: nothing once it is expired.
Stored(key) ==
    IF key \in DOMAIN posts_cache /\ posts_cache[key].expires > now
    THEN posts_cache[key].posts ELSE <<>>

HydratePhoenix(r) ==
    /\ At(r, "asked")
    /\ Becomes(r, [stage |-> "hydrated",
                   query |-> HydratePhoenixQuery(reqs[r].query, Faults(r),
                                                 Stored(CachedPostsKey(reqs[r].query)))])
    /\ UNCHANGED <<now, caches>> /\ StoresUnchanged

\* The hydrators look into the caches as soon as the candidates are there.
Fetch(r) ==
    /\ At(r, "hydrated")
    /\ LET q == reqs[r].query
       IN  Becomes(r, [stage |-> "fetched",
                       candidates |-> PhoenixCandidatesOf(q, Faults(r), now),
                       query |-> [q EXCEPT !.network_replies = NetworkReplies(q, Faults(r))],
                       found |-> Live(caches, now)])
    /\ UNCHANGED <<now, caches>> /\ StoresUnchanged

Hydrate(r) ==
    /\ At(r, "fetched")
    /\ \E h \in {HydrateCandidates(reqs[r].query, Faults(r), reqs[r].candidates, reqs[r].found)} :
          /\ Becomes(r, [stage |-> "enriched", found |-> NoCaches,
                         candidates |-> h.candidates, retrieved |-> Ids(h.candidates)])
          /\ caches' = Inserted(caches, h.inserts)
    /\ UNCHANGED now /\ StoresUnchanged

\* Filters, scorers and the selector
Rank(r) ==
    /\ At(r, "enriched")
    /\ \E f \in {Filter(reqs[r].query, now, reqs[r].candidates)} :
       \E s \in {TopK(Score(reqs[r].query, Faults(r), now, f.kept))} :
          Becomes(r, [stage |-> "ranked", candidates |-> s.selected,
                      shortlist |-> Ids(s.selected),
                      non_selected |-> s.non_selected, filtered |-> f.removed,
                      found |-> Live(caches, now)])
    /\ UNCHANGED <<now, caches>> /\ StoresUnchanged

PhoenixEffects(q) == IF CachesPosts(q) THEN {"post_cache"} ELSE {}

\* The rest of the pipeline's execute, up to the start of its effects.  What
\* effects publish nothing here reads: they publish as they start.
PostSelect(r) ==
    /\ At(r, "ranked")
    /\ \E q \in {reqs[r].query} :
       \E h \in {HydratePostSelection(q, Faults(r), reqs[r].candidates, reqs[r].found)} :
       \E f \in {FilterPostSelection(q, now, h.candidates)} :
          LET s == SplitOff(f.kept, Limits.result_size)
              others == reqs[r].non_selected \o s.non_selected
          IN  /\ Becomes(r, [stage |-> IF ForYou(r) THEN "selected" ELSE "answered",
                             found |-> NoCaches, candidates |-> s.selected,
                             non_selected |-> others,
                             filtered |-> reqs[r].filtered \o f.removed,
                             posts |-> Some(MapSeq(s.selected, ToScoredPost)),
                             pending |-> PhoenixEffects(q),
                             published |-> PhoenixPublishes(q, Faults(r), reqs[r].scenario.sampled,
                                                            s.selected, others)])
              /\ caches' = Inserted(caches, Dated(h.inserts, now))
    /\ UNCHANGED now /\ StoresUnchanged
-----------------------------------------------------------------------------
(* The rest of the For You pipeline: the other sources, and the blender *)

ForYouEffects(q) ==
    (IF q.params.urt THEN {"history"} ELSE {})
    \cup (IF UpdatesTimestamps(q) THEN {"timestamps"} ELSE {})
    \cup (IF TruncatesHistory(q) THEN {"truncate"} ELSE {})

\* Mutant: wait for the source of ads to succeed.
SourcesJoinedIfNoneFails(r) == At(r, "selected") /\ ~Fails(Faults(r), "ads", 0)

\* A source that fails ends as one that succeeds does.
SourcesJoined(r) == At(r, "selected")

Respond(r) ==
    /\ SourcesJoined(r)
    /\ \E q \in {reqs[r].outer}, sc \in {reqs[r].scenario} :
       \E blended \in {BlenderSelect(sc.blender, ForYouCandidates(q, sc.faults, reqs[r].posts, sc.ads))} :
          LET s == SplitOff(blended.selected, Limits.for_you_size)
              others == blended.non_selected \o s.non_selected
          IN  Becomes(r, [stage |-> "answered", items |-> s.selected,
                          pending |-> reqs[r].pending \cup ForYouEffects(q),
                          published |-> Over(ForYouPublishes(q, sc.faults, s.selected, others),
                                             reqs[r].published)])
    /\ UNCHANGED <<now, caches>> /\ StoresUnchanged
-----------------------------------------------------------------------------
(* Side effects.  A write that fails is not tried again. *)

\* Mutant: end the effect only when its write is done.
CanFinishWritten(r, effect) ==
    effect \in reqs[r].pending /\ ~(effect = "history" /\ Fails(Faults(r), "history_put", 0))

CanFinish(r, effect) == effect \in reqs[r].pending

Finishes(r, effect) ==
    /\ CanFinish(r, effect)
    /\ reqs' = [reqs EXCEPT ![r].pending = @ \ {effect}]
    /\ UNCHANGED <<now, caches>>

CachePosts(r) ==
    /\ Finishes(r, "post_cache")
    /\ posts_cache' = IF Fails(Faults(r), "redis_set", 0) THEN posts_cache
                      ELSE RedisPostCandidateCache(reqs[r].query, now, reqs[r].candidates,
                                                   reqs[r].non_selected, posts_cache)
    /\ UNCHANGED <<history, timestamps, landed>>

RecordServed(r) ==
    /\ Finishes(r, "history")
    /\ IF Fails(Faults(r), "history_put", 0) \/ ServedEntries(reqs[r].items) = <<>>
       THEN UNCHANGED <<history, landed>>
       ELSE /\ history' = UpdateServedHistory(reqs[r].outer, reqs[r].items, history)
            /\ landed' = landed \cup {reqs[r].outer.request_time}
    /\ UNCHANGED <<timestamps, posts_cache>>

ForgetServed(r) ==
    /\ Finishes(r, "truncate")
    /\ history' = IF Fails(Faults(r), "history_delete", 0) THEN history
                  ELSE TruncateServedHistory(reqs[r].outer, history)
    /\ UNCHANGED <<timestamps, posts_cache, landed>>

StampRequest(r) ==
    /\ Finishes(r, "timestamps")
    /\ timestamps' = IF Fails(Faults(r), "timestamps_put", 0) THEN timestamps
                     ELSE UpdatePastRequestTimestamps(reqs[r].outer)
    /\ UNCHANGED <<history, posts_cache, landed>>

Effect(r) == CachePosts(r) \/ RecordServed(r) \/ ForgetServed(r) \/ StampRequest(r)

Stage(r) ==
    \/ HydrateForYou(r) \/ HydratePhoenix(r) \/ Fetch(r) \/ Hydrate(r)
    \/ Rank(r) \/ PostSelect(r) \/ Respond(r)

Next == \E r \in Requests : Build(r) \/ Stage(r) \/ Effect(r)

\* The runtime polls every task that can go on, and every call of a client
\* answers, fails or times out: weak fairness of Stage(r) and of Effect(r).
\* Working and CanFinish are their guards (what follows a guard assigns
\* every variable), written out because to TLC ENABLED means a whole
\* pipeline.
Working(r) ==
    \/ reqs[r].stage \in {"built", "asked", "hydrated", "fetched", "enriched", "ranked"}
    \/ SourcesJoined(r)
Advances(r) == reqs'[r].stage # reqs[r].stage
Settles(r) == reqs'[r].pending # reqs[r].pending /\ ~Advances(r)
Fairness ==
    \A r \in Requests :
        /\ []<>~Working(r) \/ []<><<Advances(r)>>_vars
        /\ []<>(\A effect \in reqs[r].pending : ~CanFinish(r, effect)) \/ []<><<Settles(r)>>_vars

Spec == Init /\ [][Next]_vars /\ Fairness
-----------------------------------------------------------------------------
(* What must hold *)

Responded(r) == At(r, "answered")
ShownPosts(r) == IF ForYou(r) THEN Bodies(OfKind(reqs[r].items, "post"))
                 ELSE Get(reqs[r].posts, <<>>)
IdsOf(p) == {p.id, p.retweeted_id} \ {0}

\* Request r read the response to s in the served history.  (Of two requests
\* of one time the history keeps the later one's.)
Knew(r, s) ==
    /\ Responded(r) /\ Responded(s) /\ r # s /\ ForYou(r) /\ ForYou(s)
    /\ [time |-> reqs[s].outer.request_time, entries |-> ServedEntries(reqs[s].items)]
           \in Range1(reqs[r].outer.served_history)
Since(r, s) == reqs[r].outer.request_time - reqs[s].outer.request_time

\* A page further down repeats nothing of a response the request read from
\* the served history: not a post, not the original of a retweet, not under
\* another retweet, whether the candidates are fresh or from the cache;
\* unless there was more to read than a request takes.
NothingRepeats ==
    \A r, s \in Requests :
        (/\ Knew(r, s) /\ Since(r, s) <= Limits.served_duration
         /\ Len(RecentIds(reqs[r].outer.served_history, reqs[r].outer.request_time))
                <= Limits.served_number
         /\ reqs[r].outer.is_bottom /\ reqs[r].outer.context # "foreground_truncate")
        => \A p \in Range1(ShownPosts(r)), o \in Range1(ShownPosts(s)) : IdsOf(p) \cap IdsOf(o) = {}

\* The post whose video was asked for: the original of a retweet, if the
\* source knows of retweets.
WatchedId(p) ==
    IF p.served_type = "tweet_mixer" \/ Post(p.id).source = 0 THEN p.id ELSE Post(p.id).source

\* A request for the people followed only, or for no videos, gets nothing
\* else out of what another request fetched and left in Redis.  (A video is
\* let through when its look-up fails, by the request or by the one that
\* fetched the post under the same key.)
AskedForOnly ==
    \A r \in Requests : Responded(r) =>
        \A p \in Range1(ShownPosts(r)) :
            /\ reqs[r].query.in_network_only => p.author \in World.followed
            /\ reqs[r].query.exclude_videos =>
                  \/ Post(WatchedId(p)).video = 0
                  \/ \E s \in Requests :
                        /\ ~At(s, "idle") /\ Fails(Faults(s), "tes_video", WatchedId(p))
                        /\ CachedPostsKey(reqs[s].query) = CachedPostsKey(reqs[r].query)

\* A conversation and an original post are shown once, and the conversation
\* by the best of the selected posts the visibility filters left.  (A copy
\* removed before the scorers has no score, and was not selected.)
BestOfConversation ==
    \A r \in Requests : reqs[r].stage \in {"selected", "answered"} =>
        LET shown == reqs[r].candidates
        IN  /\ \A i, j \in 1..Len(shown) : i # j =>
                  /\ ConversationId(shown[i]) # ConversationId(shown[j])
                  /\ OriginalTweetId(shown[i]) # OriginalTweetId(shown[j])
            /\ \A c \in Range1(reqs[r].filtered), d \in Range1(shown) :
                  (/\ c.tweet_id \in Range1(reqs[r].shortlist) /\ c.score # None
                   /\ ConversationId(c) = ConversationId(d)
                   /\ ~ShouldDropReason(c.visibility) /\ ~Get(c.drop_ancillary, FALSE))
                  => Get(c.score, 0) <= Get(d.score, 0)

\* Deleting old responses never deletes one of the newest of all recorded,
\* whatever was recorded since the request read the history.
KeepsNewestHistory ==
    \A t \in landed :
        Cardinality({u \in landed : u > t}) < Limits.history => t \in DOMAIN history

\* Cached posts are the work of one other request on the same key, under its
\* prediction, and that one was not itself served from the cache: what is
\* cached is never kept alive by serving it.
CachedFromOneRequest ==
    \A r \in Requests : (~At(r, "idle") /\ reqs[r].query.has_cached_posts) =>
        \E s \in Requests \ {r} :
            /\ reqs[s].stage \in {"selected", "answered"}
            /\ CachedPostsKey(reqs[s].query) = CachedPostsKey(reqs[r].query)
            /\ ~reqs[s].query.has_cached_posts
            /\ \A c \in Range1(reqs[r].query.cached_posts) :
                  /\ c.prediction \in {None, Some(reqs[s].query.prediction)}
                  /\ c \in Range1(reqs[s].candidates \o reqs[s].non_selected)

\* Who-to-follow is not shown again while the viewer rests from it, as far
\* as the request could read.
ModulesRest ==
    \A r, s \in Requests :
        (Knew(r, s) /\ Since(r, s) < Limits.wtf_fatigue)
        => ~(CountOf(reqs[r].items, "wtf") > 0 /\ CountOf(reqs[s].items, "wtf") > 0)

-----------------------------------------------------------------------------
(* What must hold of the feed a For You request is answered with *)

\* The posts and ads of the feed; a module between them parts nothing.
Strip(r) == OfKinds(reqs[r].items, {"post", "ad"})
AdsAt(strip) == {i \in 1..Len(strip) : strip[i].kind = "ad"}
Fed(r) == Responded(r) /\ ForYou(r)
Delivered(r) ==
    LET q == reqs[r].outer
    IN  [posts |-> Get(reqs[r].posts, <<>>),
         ads |-> IF q.params.ads /\ ~q.is_preview /\ ~Fails(Faults(r), "ads", 0)
                 THEN reqs[r].scenario.ads ELSE <<>>]

\* Request s looked up the labels of a post, and none speaks against an ad.
Cleared(s, id) ==
    LET safety == reqs[s].query.params.brand_safety
    IN  /\ Known(id) /\ ComputeVerdict(Post(id).labels, id) # "medium"
        /\ \/ safety = "labels" /\ ~Fails(Faults(s), "labels", id)
           \/ safety = "vf" /\ ~Fails(Faults(s), "vf_labels", id)

\* Some request, this one or one whose verdict it found in a cache, cleared
\* the post or the original it retweets and, if the quote is known, what it quotes.
RiskFree(p) ==
    \E s \in Requests :
        /\ reqs[s].stage \in {"selected", "answered"}
        /\ \E id \in {p.id, Post(p.id).source} : Cleared(s, id)
        /\ \/ Post(p.id).quoted = 0
           \/ Cleared(s, Post(p.id).quoted)
           \/ \E u \in Requests : ~At(u, "idle") /\ Fails(Faults(u), "tes_quoted", p.id)

\* The end of the feed was cut off, so that an ad may be left there.
CutShort(r) == Len(reqs[r].items) = Limits.for_you_size

\* An ad stands between two posts, and each is known to be no risk for it.
AdsSafe ==
    \A r \in Requests : Fed(r) =>
        LET strip == Strip(r)
        IN  \A i \in AdsAt(strip) :
                /\ i > 1 /\ (i < Len(strip) \/ CutShort(r))
                /\ \A n \in {i - 1, i + 1} \cap DOMAIN strip :
                      strip[n].kind = "post" /\ RiskFree(strip[n].body)

\* From one ad to the next there are as many posts as the blender spaces by.
AdSpacing ==
    \A r \in Requests : Fed(r) =>
        LET strip == Strip(r)
            gap == IF reqs[r].scenario.blender = "safe_gap" THEN DefaultSpacing.min
                   ELSE ComputeSpacing(Delivered(r).ads).requested
        IN  \A i, j \in AdsAt(strip) : i < j => j - i > gap

\* The partition blender puts no ad beside an author or a word its adjacency
\* control excludes, nor beside a low risk it does not take.
NoClashBesideAds ==
    \A r \in Requests : (Fed(r) /\ reqs[r].scenario.blender = "partition") =>
        LET strip == Strip(r)
        IN  \A i \in AdsAt(strip) :
                i < Len(strip) => ~Clashes(strip[i].body, strip[i - 1].body, strip[i + 1].body)

\* Blending loses and repeats no post: what does not fit is cut off, and the
\* safe-gap blender leaves the order as it was ranked.
FeedKeepsPosts ==
    \A r \in Requests : Fed(r) =>
        LET posts == Delivered(r).posts
            shown == Bodies(OfKind(Strip(r), "post"))
            Ranks(p) == {i \in 1..Len(posts) : posts[i] = p}
        IN  /\ \A p \in Range1(shown) : Ranks(p) # {}
            /\ \A i, j \in 1..Len(shown) : i # j => shown[i] # shown[j]
            /\ Len(shown) + Len(Delivered(r).ads) < ResultSize /\ ~CutShort(r)
                  => Len(shown) = Len(posts)
            /\ reqs[r].scenario.blender = "safe_gap" => shown = Take(posts, Len(shown))

\* A request in which every call answers shows nothing of an author the
\* viewer has blocked: no post, no retweet and no quote.  (The doc comment of
\* AuthorSocialgraphFilter; the quotes come from a cache.)
HealthyRequestHidesBlocked ==
    \A r \in Requests : (Responded(r) /\ Faults(r) = {}) =>
        \A p \in Range1(ShownPosts(r)) :
            {p.author, p.retweeted_user, Post(p.id).quoted_author} \cap World.blocked = {}

\* Every request that is started is answered, whatever fails in it.
EveryRequestAnswered ==
    \A r \in Requests : ~At(r, "idle") ~> Responded(r)

\* Every side effect ends.
EffectsEnd == \A r \in Requests : Responded(r) ~> (reqs[r].pending = {})
=============================================================================
