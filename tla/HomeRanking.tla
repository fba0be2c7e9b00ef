----------------------------- MODULE HomeRanking -----------------------------
(***************************************************************************)
(* From the hydrated candidates to the selected ones: the filters, the     *)
(* scorers and the selector of the Phoenix pipeline, and the filters that  *)
(* follow the selection.                                                   *)
(***************************************************************************)
EXTENDS HomeHydrators

(* TopicIdExpansion: the tables are the world's. *)

CategoryIds(topic) ==
    IF topic \in DOMAIN World.categories THEN World.categories[topic] ELSE {topic}
Expand(topics) == UNION {CategoryIds(t) : t \in topics}
AllProductionTopicIds == Expand(World.production_topics)
Supertopic(topic) == IF topic \in DOMAIN World.supertopic THEN World.supertopic[topic] ELSE topic
ExpandSupertopic(topic) == CategoryIds(Supertopic(topic))

\* A bulk request drops what has only topics that were not asked for; a post
\* without topics stays.
BulkTopicKept(q, c) ==
    LET topics == Get(c.topics, {})
    IN  topics = {} \/ ~topics \subseteq AllProductionTopicIds \ Expand(q.topic_ids)

TopicKept(q, c) ==
    \E t \in q.topic_ids :
        \/ Get(c.topics, {}) \cap CategoryIds(t) # {}
        \/ /\ Get(c.unfiltered, {}) \cap CategoryIds(t) # {}
           /\ Get(c.topics, {}) \cap ExpandSupertopic(t) # {}

\* With snoozed topics a post whose topics are not known goes.
SnoozedKept(q, c) ==
    /\ Get(c.topics, {}) # {}
    /\ Get(c.topics, {}) \cap (Expand(q.excluded_topic_ids) \cup q.excluded_topic_ids) = {}

TopicIdsFilter(q, cs) ==
    LET asked == IF ~IsTopicRequest(q) THEN KeepAll(cs)
                 ELSE Partition(cs, {i \in DOMAIN cs : IF IsBulkTopicRequest(q)
                                                      THEN BulkTopicKept(q, cs[i])
                                                      ELSE TopicKept(q, cs[i])})
        snoozed == Partition(asked.kept,
                             {i \in DOMAIN asked.kept : SnoozedKept(q, asked.kept[i])})
    IN  IF ~HasExcludedTopics(q) THEN asked
        ELSE [kept |-> snoozed.kept, removed |-> asked.removed \o snoozed.removed]

NewUserTopicKept(q, c) ==
    \/ c.in_network = Some(TRUE)
    \/ Get(c.topics, {}) \cap Expand(q.new_user_topic_ids) # {}
-----------------------------------------------------------------------------
(* Filters that judge a candidate by itself *)

SubscriptionEligible(q, c) == c.subscription \subseteq q.subscribed

\* The bloom filter may hold more than what was seen; here it is exact.
PreviouslySeen(q, c) == RelatedPostIds(c) \cap (q.seen_ids \cup q.bloom) # {}
PreviouslySeenBackup(q, c) == RelatedPostIds(c) \cap q.impressed_ids # {}
\* Mutant: compare the id of the post alone.
PreviouslyServedItself(q, c) == c.tweet_id \in q.served_ids

PreviouslyServed(q, c) == RelatedPostIds(c) \cap q.served_ids # {}
MutedKeyword(q, c) == c.tweet_text \cap q.muted_words # {}

SocialgraphDropped(q, c) ==
    \/ c.author_id \in q.muted \cup q.blocked
    \/ Get(c.blocks_viewer, FALSE)
    \/ Get(c.quoted_blocks_viewer, FALSE)
    \/ (c.quoted_user \cup c.retweeted_user) \cap q.blocked # {}

\* Which filters a request runs, and which candidates each keeps.
FilterEnabled(q, filter) ==
    CASE filter = "previously_served" -> \/ q.params.served_all
                                         \/ q.is_bottom /\ q.context # "foreground_truncate"
      [] filter = "video" -> q.exclude_videos
      [] filter = "topic_ids" -> IsTopicRequest(q) \/ HasExcludedTopics(q)
      [] filter = "new_user_topic_ids" -> /\ q.params.new_user_filtering /\ HasNewUserTopicIds(q)
                                          /\ ~IsTopicRequest(q)
      [] OTHER -> TRUE

Keeps(q, now, filter, c) ==
    CASE filter = "core_data" -> c.author_id # 0
      [] filter = "age" -> WithinAge(c.tweet_id, now)
      [] filter = "self_tweet" -> c.author_id # Viewer
      [] filter = "subscription" -> SubscriptionEligible(q, c)
      [] filter = "previously_seen" -> ~PreviouslySeen(q, c)
      [] filter = "previously_seen_backup" -> ~PreviouslySeenBackup(q, c)
      [] filter = "previously_served" -> ~PreviouslyServed(q, c)
      [] filter = "muted_keyword" -> ~MutedKeyword(q, c)
      [] filter = "author_socialgraph" -> ~SocialgraphDropped(q, c)
      [] filter = "video" -> c.video = None
      [] filter = "new_user_topic_ids" -> NewUserTopicKept(q, c)
      [] filter = "vf" -> ~ShouldDropReason(c.visibility)
      [] filter = "ancillary_vf" -> ~Get(c.drop_ancillary, FALSE)
-----------------------------------------------------------------------------
(* Filters that judge a candidate by those before it *)

\* The first candidate of each key stays.
FirstOfEach(cs, keys) ==
    Partition(cs, {i \in DOMAIN cs : \A j \in 1..i - 1 : keys[j] # keys[i]})

DropDuplicates(cs) == FirstOfEach(cs, TweetIds(cs))
RetweetDeduplication(cs) == FirstOfEach(cs, OriginalTweetIds(cs))

ConversationId(c) ==
    IF c.ancestors = <<>> THEN c.tweet_id
    ELSE CHOOSE a \in Range1(c.ancestors) : \A b \in Range1(c.ancestors) : a <= b

\* Mutant: keep the worst of a conversation.
OutranksIfWorse(c, d) == Get(c.score, 0) < Get(d.score, 0)

Outranks(c, d) == Get(c.score, 0) > Get(d.score, 0)

\* The best of a conversation takes the place of the first of it.
DedupConversation(cs) ==
    LET See(acc, c) ==
            LET at == {i \in 1..Len(acc.kept) : ConversationId(acc.kept[i]) = ConversationId(c)}
                i  == CHOOSE j \in at : TRUE
            IN  IF at = {} THEN [acc EXCEPT !.kept = Append(@, c)]
                ELSE IF Outranks(c, acc.kept[i])
                THEN [kept |-> [acc.kept EXCEPT ![i] = c],
                      removed |-> Append(acc.removed, acc.kept[i])]
                ELSE [acc EXCEPT !.removed = Append(@, c)]
        seen[n \in 0..Len(cs)] == IF n = 0 THEN KeepAll(<<>>) ELSE See(seen[n - 1], cs[n])
    IN  seen[Len(cs)]

RunFilter(q, now, filter, cs) ==
    IF ~FilterEnabled(q, filter) THEN KeepAll(cs)
    ELSE CASE filter = "drop_duplicates" -> DropDuplicates(cs)
           [] filter = "retweet_dedup" -> RetweetDeduplication(cs)
           [] filter = "topic_ids" -> TopicIdsFilter(q, cs)
           [] filter = "dedup_conversation" -> DedupConversation(cs)
           [] OTHER -> Partition(cs, {i \in DOMAIN cs : Keeps(q, now, filter, cs[i])})

PhoenixFilters ==
    <<"drop_duplicates", "core_data", "age", "self_tweet", "retweet_dedup", "subscription",
      "previously_seen", "previously_seen_backup", "previously_served", "muted_keyword",
      "author_socialgraph", "video", "topic_ids", "new_user_topic_ids">>
PostSelectionFilters == <<"vf", "ancillary_vf", "dedup_conversation">>

RunFilters(q, now, filters, cs) ==
    LET Pass(acc, filter) == [RunFilter(q, now, filter, acc.kept) EXCEPT !.removed = acc.removed \o @]
        passed[n \in 0..Len(filters)] ==
            IF n = 0 THEN KeepAll(cs) ELSE Pass(passed[n - 1], filters[n])
    IN  passed[Len(filters)]

Filter(q, now, cs) == RunFilters(q, now, PhoenixFilters, cs)
FilterPostSelection(q, now, cs) == RunFilters(q, now, PostSelectionFilters, cs)
-----------------------------------------------------------------------------
(* Scorers.  A model score stands for the weighted sum of the model's      *)
(* predictions; weights are percents in q.params.weights.                  *)

\* Without the viewer's actions nothing is predicted and nobody is asked; a
\* failed egress sidecar is tried again without it.
PhoenixScorer(q, faults, now, cs) ==
    LET failed == /\ Fails(faults, "predict", 0)
                  /\ q.params.egress => Fails(faults, "predict_direct", 0)
        predicted == q.scoring_sequence # None
    IN  HydrateEach(Fresh(q) /\ (predicted => ~failed), MapSeq(cs, LAMBDA c :
            Some([phoenix_score |-> IF predicted THEN Some(Post(OriginalTweetId(c)).relevance)
                                    ELSE None,
                  prediction |-> IF predicted THEN Some(q.prediction) ELSE None,
                  last_scored_at |-> IF predicted THEN Some(now) ELSE None])))

OffsetScore(combined, w) ==
    IF w.total = 0 THEN Greatest(combined, 0)
    ELSE IF combined < 0 THEN ((combined + w.negative) * w.offset) \div w.total
    ELSE combined + w.offset

Power(base, exponent) ==
    LET power[n \in 0..exponent] == IF n = 0 THEN 1 ELSE base * power[n - 1]
    IN  power[exponent]

\* percent; decay to the power of the posts of the author that rank higher
DiversityMultiplier(w, position) ==
    ((100 - w.floor) * Power(w.decay, position)) \div Power(100, position) + w.floor

AuthorPosition(weighted, cs, i) ==
    Cardinality({j \in 1..Len(cs) : /\ cs[j].author_id = cs[i].author_id
                                    /\ \/ weighted[j] > weighted[i]
                                       \/ weighted[j] = weighted[i] /\ j < i})

EffectiveOonWeight(q) ==
    IF IsTopicRequest(q) THEN q.params.weights.topic_oon
    ELSE IF World.new_user /\ Cardinality(q.followed) >= Limits.new_user_following
    THEN q.params.weights.new_user_oon
    ELSE q.params.weights.oon

RankingScorer(q, cs) ==
    LET w == q.params.weights
        weighted == MapSeq(cs, LAMBDA c : OffsetScore(Get(c.phoenix_score, 0), w))
        diverse == [i \in 1..Len(cs) |->
                       weighted[i] * DiversityMultiplier(w, AuthorPosition(weighted, cs, i))]
        Factor(c) == IF c.in_network = Some(FALSE) THEN EffectiveOonWeight(q) ELSE 100
    IN  [i \in 1..Len(cs) |->
            Some([weighted |-> Some(weighted[i]), score |-> Some(diverse[i] * Factor(cs[i]))])]

\* The ranking service may score again what it is sent (here it reverses the
\* order); what it leaves out keeps its score.
VMRanker(q, faults, cs) ==
    HydrateEach(q.params.vm_ranker /\ ~Fails(faults, "vm_ranker", 0), MapSeq(cs, LAMBDA c :
        Some([score |-> IF Fails(faults, "vm_missing", c.tweet_id) THEN c.score
                        ELSE {0 - s : s \in c.score}])))

\* Each scorer sees what those before it scored.
Score(q, faults, now, cs) ==
    LET predicted == UpdateAll(cs, PhoenixScorer(q, faults, now, cs))
        ranked    == UpdateAll(predicted, RankingScorer(q, predicted))
    IN  UpdateAll(ranked, VMRanker(q, faults, ranked))

\* Every candidate has a score here: RankingScorer answers for all.
TopK(cs) == Select(cs, MapSeq(cs, LAMBDA c : Get(c.score, 0)), Limits.top_k)
-----------------------------------------------------------------------------
(* candidates_to_scored_posts *)

\* Mutant: default to the safe verdict.
ShownVerdictOrSafe(c) == Get(c.verdict, "safe")

\* A verdict nobody reached is a risk.
ShownVerdict(c) == Get(c.verdict, "medium")

ToScoredPost(c) ==
    [id |-> c.tweet_id, author |-> c.author_id, words |-> c.tweet_text,
     retweeted_id |-> Get(c.retweeted_id, 0), retweeted_user |-> Get(c.retweeted_user, 0),
     reply_to |-> Get(c.in_reply_to, 0), score |-> Get(c.score, 0),
     in_network |-> Get(c.in_network, FALSE), served_type |-> c.served_type,
     last_scored_at |-> Get(c.last_scored_at, 0), prediction |-> Get(c.prediction, 0),
     ancestors |-> c.ancestors, replied |-> c.replied, verdict |-> ShownVerdict(c)]
=============================================================================
