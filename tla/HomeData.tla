------------------------------ MODULE HomeData ------------------------------
(***************************************************************************)
(* What a home-mixer request works on: the candidate and the query, the    *)
(* world its clients answer from, and the calls that fail in it.           *)
(*                                                                         *)
(* Ids are natural numbers and 0 is "no id"; a post id grows with the time *)
(* the post was made.  A text is the set of its words, a score a rank.     *)
(* A request's faults are the calls that fail, as <<call, id>>; id 0 is    *)
(* the call as a whole.                                                    *)
(***************************************************************************)
EXTENDS CandidatePipeline

CONSTANTS
    World,    \* what the services around home-mixer know, see WorldAssumption
    Limits    \* the sizes and durations of params.rs and of the modules

PostCore == {"author", "words", "reply_to", "root", "source", "source_author", "quoted",
             "quoted_author", "subscription", "video", "created", "hidden", "labels", "topics",
             "unfiltered", "relevance"}
SourceNames == {"thunder", "tweet_mixer", "phoenix", "topics", "moe"}

ASSUME WorldAssumption ==
    /\ DOMAIN World = {"viewer", "new_user", "posts", "blocked", "muted", "followed",
                       "subscribed", "blocks_viewer", "muted_words", "seen", "sources", "ads",
                       "prompts", "recommended", "repliers", "followed_topics", "categories",
                       "supertopic", "production_topics"}
    /\ World.viewer \in Nat \ {0}
    /\ DOMAIN World.posts \subseteq Nat \ {0}
    /\ \A id \in DOMAIN World.posts : DOMAIN World.posts[id] = PostCore
    /\ \A id \in DOMAIN World.posts :
          /\ World.posts[id].source \in DOMAIN World.posts \cup {0}
          /\ World.posts[id].reply_to \in Nat /\ World.posts[id].root \in Nat
          /\ World.posts[id].relevance \in Int
    /\ DOMAIN World.sources = SourceNames
    /\ \A name \in SourceNames : World.sources[name] \in Seq(DOMAIN World.posts)
    /\ World.prompts \in Seq(Range1(World.prompts))
    /\ World.recommended \in Seq(Range1(World.recommended))

ASSUME LimitsAssumption ==
    /\ DOMAIN Limits = {"min_cached", "max_cached", "cache_ttl", "max_age", "top_k", "result_size",
                        "for_you_size", "served_duration", "served_number", "wtf_fatigue",
                        "bulk_topics", "history", "timestamps", "new_user_following",
                        "ptos_cutoff", "brand_age", "brand_new",
                        "brand_old", "max_repliers", "max_wtf", "facepile_min",
                        "facepile_max", "wtf_excluded", "rerank_top", "stats_top", "event_sizes"}
    /\ \A l \in DOMAIN Limits \ {"stats_top", "event_sizes"} : Limits[l] \in Nat
    /\ Limits.min_cached > 0
    /\ Limits.stats_top \subseteq Nat /\ Limits.event_sizes \subseteq Nat

Viewer == World.viewer
Known(id) == id \in DOMAIN World.posts
Post(id) == World.posts[id]
NonZero(id) == IF id = 0 THEN None ELSE Some(id)
Fails(faults, call, id) == <<call, id>> \in faults \/ <<call, 0>> \in faults
AnsweredFor(faults, call, id, value) == IF Fails(faults, call, id) THEN None ELSE Some(value)
Answered(faults, call, value) == AnsweredFor(faults, call, 0, value)
-----------------------------------------------------------------------------
(* models/candidate.rs *)

NoCandidate ==
    [tweet_id |-> 0, author_id |-> 0, tweet_text |-> {}, in_reply_to |-> None,
     retweeted_id |-> None, retweeted_user |-> None, quoted_id |-> None, quoted_user |-> None,
     phoenix_score |-> None, prediction |-> None, last_scored_at |-> None, weighted |-> None,
     score |-> None, served_type |-> "undefined", in_network |-> None, ancestors |-> <<>>,
     video |-> None, quoted_video |-> None, visibility |-> None, drop_ancillary |-> None,
     subscription |-> None, blocks_viewer |-> None, quoted_blocks_viewer |-> None,
     topics |-> None, unfiltered |-> None, replied |-> {}, verdict |-> None]

OriginalTweetId(c) == Get(c.retweeted_id, c.tweet_id)
OriginalAuthorId(c) == Get(c.retweeted_user, c.author_id)

\* get_related_post_ids: the post, what it retweets and what it answers
RelatedPostIds(c) == {c.tweet_id} \cup c.retweeted_id \cup c.in_reply_to

WithinAge(id, now) == Known(id) /\ now - Post(id).created <= Limits.max_age
-----------------------------------------------------------------------------
(* models/brand_safety.rs *)

\* The labels of one kind stand for all of them.
MediumLabels == {"nsfw_high_precision"}
LowLabels == {"grok_nsfa_limited", "nsfa_high_recall"}
ScoredByGrok == {"grok_sfa", "grok_nsfa_limited"}

\* A post grok has not scored, or one past the cutoff nobody reviewed, is a risk.
ComputeVerdict(labels, id) ==
    IF \/ labels \cap MediumLabels # {}
       \/ labels \cap ScoredByGrok = {}
       \/ id >= Limits.ptos_cutoff /\ "ptos_reviewed" \notin labels
    THEN "medium"
    ELSE IF labels \cap LowLabels # {} THEN "low" ELSE "safe"

WorstVerdict(a, b) ==
    IF "medium" \in {a, b} THEN "medium" ELSE IF "low" \in {a, b} THEN "low" ELSE "safe"
-----------------------------------------------------------------------------
(* models/query.rs *)

IsTopicRequest(q) == q.topic_ids # {}
IsBulkTopicRequest(q) == Cardinality(q.topic_ids) > Limits.bulk_topics
HasExcludedTopics(q) == q.excluded_topic_ids # {}
HasNewUserTopicIds(q) == q.new_user_topic_ids # {}

\* The viewer data of a failed or late lookup.
DefaultViewerData == [recommendations_off |-> FALSE, muted_words |-> {}]
FetchViewerData(faults, data) ==
    IF Fails(faults, "viewer_data", 0) THEN DefaultViewerData ELSE data

NewQuery(request, params, data, now) ==
    [params |-> params, request_time |-> now, prediction |-> now,
     seen_ids |-> request.seen_ids, served_ids |-> request.served_ids,
     in_network_only |-> request.in_network_only \/ data.recommendations_off,
     is_bottom |-> request.is_bottom, is_top |-> FALSE, context |-> "", is_polling |-> FALSE,
     is_preview |-> request.is_preview, cursor |-> "none",
     topic_ids |-> request.topic_ids, excluded_topic_ids |-> request.excluded_topic_ids,
     exclude_videos |-> request.exclude_videos, push_to_home |-> request.push_to_home,
     muted_words |-> data.muted_words, shadow |-> FALSE,
     blocked |-> {}, muted |-> {}, followed |-> {}, subscribed |-> {}, bloom |-> {},
     scoring_sequence |-> None, retrieval_sequence |-> None,
     cached_posts |-> <<>>, has_cached_posts |-> FALSE, new_user_topic_ids |-> {},
     served_history |-> <<>>, wtf_eligible |-> FALSE, timestamps |-> None,
     impressed_ids |-> {}, network_replies |-> {}]

\* get_for_you_feed_urt: the context and the cursor of the request go over
\* the query the builder made; a cursor that is none or does not decode
\* leaves the request's own is_bottom.
UrtQuery(query, request) ==
    LET q == [query EXCEPT !.context = request.context, !.is_polling = request.is_polling]
    IN  IF request.cursor \in {"none", "broken"} THEN q
        ELSE [q EXCEPT !.is_bottom = request.cursor = "bottom",
                       !.is_top = request.cursor = "top",
                       !.cursor = request.cursor]
=============================================================================
