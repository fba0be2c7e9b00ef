----------------------------- MODULE HomeEffects -----------------------------
(***************************************************************************)
(* The side effects both pipelines start behind a response: what each      *)
(* writes to the stores of the viewer, and what each publishes.  A query   *)
(* is the hydrated one, selected and nonSelected are what the pipeline     *)
(* gave the effects.  is_prod() holds.                                     *)
(*                                                                         *)
(* The request info cache and the mutual-follow metric are left out: the   *)
(* first is in no pipeline, the second only observes a score left out here.*)
(***************************************************************************)
EXTENDS HomeRanking

CountOf(items, kind) == Len(OfKind(items, kind))
-----------------------------------------------------------------------------
(* The Phoenix pipeline's.  Only RedisPostCandidateCacheSideEffect and     *)
(* PhoenixRequestCacheSideEffect write something home-mixer's services     *)
(* read.                                                                   *)

CandidatesToCache(selected, nonSelected) ==
    LET weighed == Those(selected \o nonSelected, LAMBDA c : Get(c.weighted, 0) > 0)
    IN  Take(SortByScore(weighed, MapSeq(weighed, LAMBDA c : Get(c.weighted, 0))),
             Limits.max_cached)

CachesPosts(q) == ~q.has_cached_posts

\* Mutant: write every answer under the key of the wide network.
RedisPostCandidateCacheOneKey(q, now, selected, nonSelected, cache) ==
    Over([key \in {<<q.topic_ids, FALSE, q.exclude_videos>>} |->
             [posts |-> CandidatesToCache(selected, nonSelected), expires |-> now + Limits.cache_ttl]],
         cache)

\* The posts of the key are replaced, by an empty list too, for a time.
RedisPostCandidateCache(q, now, selected, nonSelected, cache) ==
    Over([key \in {CachedPostsKey(q)} |->
             [posts |-> CandidatesToCache(selected, nonSelected), expires |-> now + Limits.cache_ttl]],
         cache)

\* The keys written in both datacenters.
PhoenixRequestCache(q, selected) ==
    LET predicted == UNION {c.prediction : c \in Range1(selected)}
        id == CHOOSE p \in predicted : TRUE
    IN  IF predicted = {} THEN {}
        ELSE {<<dc, id, post>> :
                 dc \in {"atla", "pdxa"},
                 post \in {c.tweet_id : c \in Range1(selected)}
                          \cup (IF q.has_cached_posts THEN {} ELSE {0})}

\* The batch is the best of all that was scored.
RerankingBatch(selected, nonSelected) ==
    LET scored == selected \o nonSelected
        ranked == SortByScore(scored, MapSeq(scored, LAMBDA c : Get(c.score, 0)))
    IN  [total |-> Len(ranked), ids |-> MapSeq(Take(ranked, Limits.rerank_top), LAMBDA c : c.tweet_id)]

\* A cluster that fails leaves its scores out, every selected post is sent.
PhoenixExperiments(q, faults, selected) ==
    IF q.scoring_sequence = None THEN {}
    ELSE {[id |-> c.tweet_id, source |-> OriginalTweetId(c),
           scores |-> IF Fails(faults, "experiments", 0) THEN None
                      ELSE Some(Post(OriginalTweetId(c)).relevance)] : c \in Range1(selected)}

\* How many of the best scored and of the selected posts a retrieval brought.
RetrievalStats(type, selected, nonSelected) ==
    LET scored == selected \o nonSelected
        ranked == SortByScore(scored, MapSeq(scored, LAMBDA c : Get(c.weighted, -1)))
        Of(cs) == Len(Those(cs, LAMBDA c : c.served_type = type))
    IN  [type |-> type, top |-> [k \in Limits.stats_top |-> Of(Take(ranked, k))], served |-> Of(selected)]

\* topic -> the messages on it; sampled is the draw of the sampled effects
PhoenixPublishes(q, faults, sampled, selected, nonSelected) ==
    LET Sent(condition, messages) == IF condition THEN messages ELSE {}
    IN  [reranking |->
             Sent(sampled /\ selected \o nonSelected # <<>> /\ ~Fails(faults, "kafka", 0),
                  {RerankingBatch(selected, nonSelected)}),
         retrieval |->
             Sent(sampled /\ selected # <<>> /\ ~q.has_cached_posts,
                  {RetrievalStats(type, selected, nonSelected) : type \in {"phoenix", "phoenix_moe"}}),
         experiments |->
             Sent(q.shadow /\ ~Fails(faults, "kafka", 0), PhoenixExperiments(q, faults, selected)),
         request_cache |->
             Sent(q.params.request_cache /\ ~Fails(faults, "request_cache_set", 0),
                  PhoenixRequestCache(q, selected))]
-----------------------------------------------------------------------------
(* The For You pipeline's, on the viewer's stores *)

\* An entry for the post and each ancestor, with the post's source.
PostEntries(p) ==
    MapSeq(Ascending({p.id} \cup Range1(p.ancestors)), LAMBDA id :
        [type |-> "tweet",
         ids |-> <<id>> \o (IF p.retweeted_id = 0 THEN <<>> ELSE <<p.retweeted_id>>),
         users |-> <<>>])

EntriesOf(item) ==
    CASE item.kind = "post" -> PostEntries(item.body)
      [] item.kind = "ad" -> <<[type |-> "promoted", ids |-> <<item.body.id>>, users |-> <<>>]>>
      [] item.kind = "wtf" ->
             IF item.body = <<>> THEN <<>>
             ELSE <<[type |-> "who_to_follow", ids |-> <<>>, users |-> item.body]>>
      [] item.kind = "prompt" -> <<[type |-> "prompt", ids |-> <<>>, users |-> <<>>]>>
      [] item.kind = "pth" -> <<[type |-> "tweet", ids |-> <<item.body.id>>, users |-> <<>>]>>

ServedEntries(items) == FlattenSeq(MapSeq(items, EntriesOf))

\* The store keeps a response under the time of its request.
UpdateServedHistory(q, items, history) ==
    IF ServedEntries(items) = <<>> THEN history
    ELSE Over([t \in {q.request_time} |-> ServedEntries(items)], history)

\* What the client reads: newest first.
Responses(history) ==
    MapSeq(Reverse(Ascending(DOMAIN history)), LAMBDA t : [time |-> t, entries |-> history[t]])

TruncatesHistory(q) == q.params.urt /\ Len(q.served_history) > Limits.history
\* Mutant: delete from the newest end.
TruncateServedHistoryFront(q, history) ==
    LET old == {h.time : h \in Range1(Take(q.served_history, Len(q.served_history) - Limits.history))}
    IN  [t \in DOMAIN history \ old |-> history[t]]

TruncateServedHistory(q, history) ==
    LET old == {h.time : h \in Range1(Skip(q.served_history, Limits.history))}
    IN  [t \in DOMAIN history \ old |-> history[t]]

\* What the request read, not what is stored by now, goes behind its time.
UpdatesTimestamps(q) == q.params.urt /\ ~q.is_polling /\ q.context # "background_fetch"
UpdatePastRequestTimestamps(q) ==
    Some(Take(<<q.request_time>> \o Get(q.timestamps, <<>>), Limits.timestamps))
-----------------------------------------------------------------------------
(* The For You pipeline's, on Kafka and on the metrics *)

AdsInjectedTimeline(items, nonSelected) ==
    [retrieved_posts |-> CountOf(items, "post") + CountOf(nonSelected, "post"),
     retrieved_ads |-> CountOf(items, "ad") + CountOf(nonSelected, "ad"),
     response_posts |-> CountOf(items, "post"), response_ads |-> CountOf(items, "ad"),
     promoted |-> {i \in 1..Len(items) : items[i].kind = "ad"}]

\* The position is the one the item got in the blender.
ServedCandidates(items) == {[kind |-> i.kind, position |-> i.position] : i \in Range1(items)}

\* An event of value 0 is not sent, so neither is "empty",
\* whose value is never set.
ClientEvents(q, items) ==
    LET posts == CountOf(items, "post")
        matches == {"request"} \cup (IF q.is_bottom THEN {"get_older"} ELSE {})
                   \cup (IF q.is_top THEN {"get_newer"} ELSE {})
                   \cup (IF q.cursor = "none" THEN {"get_initial"} ELSE {})
                   \cup ({q.context} \cap {"pull_to_refresh", "launch", "foreground"})
        sizes == {n \in Limits.event_sizes : posts <= n}
        types == {b.served_type : b \in Range1(Bodies(OfKind(items, "post")))}
        Count(name, n) == [event |-> name, value |-> n]
        counts == {Count("served", posts + CountOf(items, "ad")), Count("injected", posts),
                   Count("promoted", CountOf(items, "ad")),
                   Count("who_to_follow", CountOf(items, "wtf")), Count("empty", 0)}
                  \cup {Count(t, Len(Those(Bodies(OfKind(items, "post")),
                                               LAMBDA b : b.served_type = t))) : t \in types}
    IN  {e \in counts : e.value > 0} \cup {[request |-> m, size |-> n] : m \in matches, n \in sizes}

ResponseStats(items, nonSelected) ==
    LET Counts(is) == [posts |-> CountOf(is, "post"), ads |-> CountOf(is, "ad")]
    IN  [response |-> Counts(items), fetched |-> Counts(items \o nonSelected)]

ForYouPublishes(q, faults, items, nonSelected) ==
    LET Sent(condition, messages) ==
            IF condition /\ ~Fails(faults, "kafka", 0) THEN messages ELSE {}
    IN  [ads |-> Sent(q.params.ads_logging /\ items # <<>>,
                      {AdsInjectedTimeline(items, nonSelected)}),
         seen |-> Sent(q.params.seen_kafka, q.seen_ids),
         served |-> Sent(q.params.urt /\ q.shadow, ServedCandidates(items)),
         client |-> Sent(q.params.urt, ClientEvents(q, items)),
         stats |-> {ResponseStats(items, nonSelected)}]
=============================================================================
