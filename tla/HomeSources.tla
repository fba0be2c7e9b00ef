----------------------------- MODULE HomeSources -----------------------------
(***************************************************************************)
(* The sources of both pipelines: the candidates a Phoenix request fetches *)
(* and the posts, ads and modules a For You request puts together.  Each   *)
(* is the Option of what it delivers.                                      *)
(***************************************************************************)
EXTENDS HomeQuery, AdsBlender

Wide(q) == ~q.in_network_only /\ ~q.has_cached_posts
FromNetwork(q) == ~q.has_cached_posts
-----------------------------------------------------------------------------
(* ThunderSource.  The service answers with posts of those followed, less  *)
(* the excluded ones.                                                      *)

GetInNetworkPosts(q) ==
    Those(World.sources.thunder,
              LAMBDA id : Post(id).author \in q.followed /\ id \notin q.seen_ids)

ThunderAncestors(id) ==
    IF Post(id).reply_to = 0 THEN <<>>
    ELSE IF Post(id).root \in {0, Post(id).reply_to} THEN <<Post(id).reply_to>>
    ELSE <<Post(id).reply_to, Post(id).root>>

ThunderSource(q, faults) ==
    When(FromNetwork(q),
         Answered(faults, "thunder", MapSeq(GetInNetworkPosts(q), LAMBDA id :
             [NoCandidate EXCEPT
                 !.tweet_id = id, !.author_id = Post(id).author,
                 !.in_reply_to = NonZero(Post(id).reply_to),
                 !.retweeted_id = NonZero(Post(id).source),
                 !.ancestors = ThunderAncestors(id),
                 !.served_type = IF q.in_network_only THEN "ranked_following"
                                 ELSE "in_network"])))

\* The replies the source leaves in the query's OnceLock.
NetworkReplies(q, faults) ==
    IF FromNetwork(q) /\ ~Fails(faults, "thunder", 0)
    THEN {[author |-> Post(id).author, to |-> Post(id).reply_to] :
              id \in {i \in Range1(GetInNetworkPosts(q)) : Post(i).reply_to # 0}}
    ELSE {}
-----------------------------------------------------------------------------
(* TweetMixerSource: no retweets; an author it does not know is 0. *)

TweetMixerSource(q, faults, now) ==
    LET ids == Those(World.sources.tweet_mixer,
                         LAMBDA id : id \notin q.seen_ids /\ WithinAge(id, now))
    IN  When(Wide(q), Answered(faults, "tweet_mixer", MapSeq(ids, LAMBDA id :
            [NoCandidate EXCEPT
                !.tweet_id = id,
                !.author_id = IF Fails(faults, "mixer_author", id) THEN 0 ELSE Post(id).author,
                !.in_reply_to = NonZero(Post(id).reply_to),
                !.served_type = "tweet_mixer"])))
-----------------------------------------------------------------------------
(* The three Phoenix retrievals need the viewer's actions.  They put what  *)
(* a post answers into an Option even when it is 0.                        *)

PhoenixCandidates(ids, type) ==
    MapSeq(ids, LAMBDA id : [NoCandidate EXCEPT
        !.tweet_id = id, !.author_id = Post(id).author,
        !.in_reply_to = Some(Post(id).reply_to),
        !.retweeted_id = NonZero(Post(id).source),
        !.served_type = type])

Retrieve(q, faults, call, candidates) ==
    When(q.retrieval_sequence # None, Answered(faults, call, candidates))

PhoenixSource(q, faults) ==
    When(/\ ~IsTopicRequest(q) \/ IsBulkTopicRequest(q)
         /\ ~q.params.new_user_retrieval \/ ~HasNewUserTopicIds(q)
         /\ Wide(q),
         Retrieve(q, faults, "phoenix", PhoenixCandidates(World.sources.phoenix, "phoenix")))

PhoenixMOESource(q, faults) ==
    When(/\ q.params.moe
         /\ ~IsTopicRequest(q) \/ IsBulkTopicRequest(q)
         /\ Wide(q),
         Retrieve(q, faults, "moe", PhoenixCandidates(World.sources.moe, "phoenix_moe")))

\* The retrieval for topics answers with posts of the topics asked for.
EffectiveTopicIds(q) == IF IsTopicRequest(q) THEN q.topic_ids ELSE q.new_user_topic_ids
PhoenixTopicsSource(q, faults) ==
    LET ids == Those(World.sources.topics,
                         LAMBDA id : Post(id).topics \cap EffectiveTopicIds(q) # {})
    IN  When(/\ \/ IsTopicRequest(q) /\ ~IsBulkTopicRequest(q)
                \/ q.params.new_user_retrieval /\ HasNewUserTopicIds(q)
             /\ Wide(q),
             Retrieve(q, faults, "topics", PhoenixCandidates(ids, "phoenix")))

CachedPostsSource(q) == When(q.has_cached_posts, Some(q.cached_posts))

PhoenixCandidatesOf(q, faults, now) ==
    FetchCandidates(<<ThunderSource(q, faults), TweetMixerSource(q, faults, now),
                      PhoenixSource(q, faults), PhoenixTopicsSource(q, faults),
                      PhoenixMOESource(q, faults), CachedPostsSource(q)>>)
-----------------------------------------------------------------------------
(* The sources of the For You pipeline.  An item is [kind, body, position].*)

Items(kind, bodies) == MapSeq(bodies, LAMBDA b : Item(kind, b))

\* posts: the Option of the whole Phoenix request
ScoredPostsSource(posts) == IF posts = None THEN None ELSE Some(Items("post", Get(posts, <<>>)))

AdsSource(q, faults, ads) ==
    When(q.params.ads /\ ~q.is_preview, Answered(faults, "ads", Items("ad", ads)))

\* The users the served history has already recommended are not asked for
\* again, up to a number of them.
ExcludedUserIds(q) ==
    LET entries == FlattenSeq(MapSeq(q.served_history, LAMBDA h : h.entries))
        users == FlattenSeq(MapSeq(Those(entries, LAMBDA e : e.type = "who_to_follow"),
                                   LAMBDA e : e.users))
    IN  Range1(Take(users, Limits.wtf_excluded))

WhoToFollowSource(q, faults) ==
    LET users == Take(Those(World.recommended, LAMBDA u : u \notin ExcludedUserIds(q)),
                      Limits.max_wtf)
    IN  When(q.params.wtf /\ q.wtf_eligible,
             Answered(faults, "wtf", IF users = <<>> THEN <<>> ELSE <<Item("wtf", users)>>))

PromptsSource(q, faults) ==
    When(q.params.prompts, Answered(faults, "prompts", Items("prompt", World.prompts)))

\* Repliers are shown for a root post only, without its author; a failed
\* lookup of them shows none.
FetchTopRepliers(id, faults) ==
    IF Fails(faults, "repliers", 0) THEN <<>>
    ELSE Take(Those(World.repliers, LAMBDA u : u # Post(id).author), Limits.max_repliers)

PushToHomeSource(q, faults) ==
    IF q.push_to_home = None THEN None
    ELSE LET id == Get(q.push_to_home, 0)
         IN  IF Fails(faults, "tes_core", id) THEN None
             ELSE IF ~Known(id) THEN Some(<<>>)
             ELSE Some(<<Item("pth", [id |-> id, author |-> Post(id).author,
                                      reply_to |-> Post(id).reply_to,
                                      facepile |-> IF Post(id).reply_to = 0
                                                   THEN FetchTopRepliers(id, faults)
                                                   ELSE <<>>])>>)

ForYouCandidates(q, faults, posts, ads) ==
    FetchCandidates(<<ScoredPostsSource(posts), AdsSource(q, faults, ads),
                      WhoToFollowSource(q, faults), PromptsSource(q, faults),
                      PushToHomeSource(q, faults)>>)
=============================================================================
