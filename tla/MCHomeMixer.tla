---------------------------- MODULE MCHomeMixer ----------------------------
(* A small world for HomeMixer: viewer 1 follows 11 and 12, has blocked 31 *)
(* and gets posts of 21 to 24 recommended.                                 *)
EXTENDS HomeMixer

APost == [author |-> 0, words |-> {}, reply_to |-> 0, root |-> 0, source |-> 0,
          source_author |-> 0, quoted |-> 0, quoted_author |-> 0, subscription |-> 0, video |-> 0,
          created |-> 8, hidden |-> "none", labels |-> {"grok_sfa"}, topics |-> {},
          unfiltered |-> {}, relevance |-> 1]

\* 2 answers 1, 4 retweets 5, 7 quotes a post of the blocked 31.
MCWorld ==
    [viewer |-> 1, new_user |-> FALSE,
     posts |-> 1 :> [APost EXCEPT !.author = 11, !.relevance = 5, !.topics = {101}, !.unfiltered = {101}]
            @@ 2 :> [APost EXCEPT !.author = 12, !.reply_to = 1, !.root = 1, !.relevance = 7]
            @@ 3 :> [APost EXCEPT !.author = 21, !.relevance = 6, !.topics = {102}, !.unfiltered = {102}]
            @@ 4 :> [APost EXCEPT !.author = 22, !.source = 5, !.source_author = 23, !.created = 11]
            @@ 5 :> [APost EXCEPT !.author = 23, !.relevance = 9, !.created = 6, !.video = 9]
            @@ 6 :> [APost EXCEPT !.author = 31, !.relevance = 9]
            @@ 7 :> [APost EXCEPT !.author = 24, !.quoted = 6, !.quoted_author = 31, !.relevance = 8]
            @@ 8 :> [APost EXCEPT !.author = 12, !.relevance = 3, !.topics = {103}, !.unfiltered = {103}],
     blocked |-> {31}, muted |-> {}, followed |-> {11, 12}, subscribed |-> {},
     blocks_viewer |-> {}, muted_words |-> {}, seen |-> {},
     sources |-> [thunder |-> <<2, 1, 8>>, tweet_mixer |-> <<5, 7>>, phoenix |-> <<6, 3, 4>>,
                  topics |-> <<>>, moe |-> <<>>],
     ads |-> <<>>, prompts |-> <<>>, recommended |-> <<41>>, repliers |-> <<>>,
     followed_topics |-> {}, categories |-> 100 :> {102, 103}, supertopic |-> 103 :> 100,
     production_topics |-> {100, 101}]

MCLimits ==
    [min_cached |-> 2, max_cached |-> 5, cache_ttl |-> 4, max_age |-> 8, top_k |-> 4,
     result_size |-> 2, for_you_size |-> 4, served_duration |-> 8, served_number |-> 8,
     wtf_fatigue |-> 3, bulk_topics |-> 1, history |-> 1, timestamps |-> 1,
     new_user_following |-> 1, ptos_cutoff |-> 100, brand_age |-> 1, brand_new |-> 1,
     brand_old |-> 5, max_repliers |-> 1, max_wtf |-> 1, facepile_min |-> 1, facepile_max |-> 1,
     wtf_excluded |-> 0, rerank_top |-> 2, stats_top |-> {1}, event_sizes |-> {0, 5}]

MCSpacing == [requested |-> 2, min |-> 1]

Params ==
    [cached |-> TRUE, urt |-> TRUE, context |-> FALSE, new_user_retrieval |-> FALSE,
     new_user_filtering |-> FALSE, moe |-> FALSE, ads |-> FALSE, wtf |-> TRUE, prompts |-> FALSE,
     quoted_duration |-> FALSE, topic_overrides |-> <<>>, topic_filtering |-> "filtered",
     brand_safety |-> "labels", facepile |-> FALSE, served_all |-> FALSE, egress |-> FALSE,
     vm_ranker |-> FALSE, request_cache |-> FALSE, ads_logging |-> FALSE, seen_kafka |-> FALSE,
     weights |-> [total |-> 10, negative |-> 2, offset |-> 1, floor |-> 50, decay |-> 50,
                  topic_oon |-> 100, new_user_oon |-> 100, oon |-> 90]]

Request ==
    [seen_ids |-> {}, served_ids |-> {}, in_network_only |-> FALSE, is_bottom |-> FALSE,
     is_preview |-> FALSE, topic_ids |-> {}, excluded_topic_ids |-> {}, exclude_videos |-> FALSE,
     push_to_home |-> None, context |-> "launch", is_polling |-> FALSE, cursor |-> "none"]

Scenario ==
    [request |-> Request, surface |-> "for_you_urt", data |-> DefaultViewerData,
     params |-> Params, faults |-> {}, ads |-> <<>>, blender |-> "safe_gap",
     sampled |-> FALSE, shadow |-> FALSE, gap |-> 1]

Bottom == [Request EXCEPT !.cursor = "bottom", !.context = "foreground"]
Following == [DefaultViewerData EXCEPT !.recommendations_off = TRUE]
Tweet(id) == <<[type |-> "tweet", ids |-> <<id>>, users |-> <<>>]>>
ScrollPast == 10 :> Tweet(91)
ScrollRequests == {1, 2}
Later(gap, scenario) == [scenario EXCEPT !.gap = gap]
ScrollScenarios ==
    <<{Scenario,
       [Scenario EXCEPT !.data = Following],
       [Scenario EXCEPT !.faults = {<<"tes_quoted", 7>>, <<"tes_missing", 4>>, <<"history_put", 0>>}]},
      {[Scenario EXCEPT !.request = Bottom],
       Later(5, [Scenario EXCEPT !.request = Bottom]),
       [Scenario EXCEPT !.request = [Bottom EXCEPT !.excluded_topic_ids = {100}]],
       Later(2, [Scenario EXCEPT !.request = Bottom, !.data = Following, !.faults = {<<"redis_set", 0>>}]),
       [Scenario EXCEPT !.request = [Request EXCEPT !.exclude_videos = TRUE],
                        !.surface = "scored_posts"],
       [Scenario EXCEPT !.request = [Request EXCEPT !.exclude_videos = TRUE],
                        !.surface = "scored_posts", !.faults = {<<"tes_video", 5>>}]}>>
-----------------------------------------------------------------------------
(* Two requests on fresh candidates: in the first some lookups fail, or    *)
(* none; in the second none.                                               *)
QuoteScenarios ==
    <<{[Scenario EXCEPT !.faults = faults] : faults \in
          {{}, {<<"tes_core", 7>>}, {<<"tes_quoted", 7>>}, {<<"quoted_blocked_by", 0>>}}},
      {[Scenario EXCEPT !.params.cached = FALSE]}>>
-----------------------------------------------------------------------------
(* One request that fills a feed: nine posts of those the viewer follows,  *)
(* ads and modules.  Post 4 is a low risk, 7 quotes 10, which is a medium  *)
(* one, 9 retweets 11.                                                     *)

FeedWorld ==
    [MCWorld EXCEPT
        !.new_user = TRUE, !.followed_topics = {101},
        !.posts = [id \in 1..13 |->
                      [APost EXCEPT !.author = 10 + id, !.relevance = id, !.words = {"w" \o ToString(id)},
                                    !.labels = IF id = 4 THEN {"grok_sfa", "nsfa_high_recall"}
                                               ELSE IF id = 10 THEN {"nsfw_high_precision"}
                                               ELSE {"grok_sfa"},
                                    !.topics = IF id > 11 THEN {101} ELSE {},
                                    !.unfiltered = IF id > 11 THEN {101, 102} ELSE {102},
                                    !.reply_to = IF id = 3 THEN 1 ELSE 0,
                                    !.root = IF id = 3 THEN 1 ELSE 0,
                                    !.quoted = IF id = 7 THEN 10 ELSE 0,
                                    !.quoted_author = IF id = 7 THEN 20 ELSE 0,
                                    !.source = IF id = 9 THEN 11 ELSE 0,
                                    !.source_author = IF id = 9 THEN 21 ELSE 0]],
        !.followed = 11..21,
        !.sources = [thunder |-> [i \in 1..9 |-> i], tweet_mixer |-> <<>>, phoenix |-> <<12>>,
                     topics |-> <<12, 13>>, moe |-> <<13>>],
        !.prompts = <<"p">>, !.repliers = <<51, 12>>]

FeedLimits == [MCLimits EXCEPT !.top_k = 9, !.result_size = 12, !.for_you_size = 13]
FeedSpacing == [requested |-> 3, min |-> 2]

AnAd == [id |-> 70, insert_position |-> 1, bsr_low |-> FALSE, handles |-> {}, keywords |-> {}]
AdAt(n, position) == [AnAd EXCEPT !.id = 70 + n, !.insert_position = position]
FeedAds ==
    {<<>>, <<AnAd>>, <<AdAt(0, 2), AdAt(1, 5)>>, <<AdAt(0, 3), AdAt(1, 3), AdAt(2, 7)>>,
     <<[AdAt(0, 1) EXCEPT !.handles = {19}], AdAt(1, 4)>>,
     <<[AdAt(0, 1) EXCEPT !.bsr_low = TRUE], [AdAt(1, 4) EXCEPT !.keywords = {"w1", "w5", "w9"}], AdAt(2, 7)>>,
     <<AdAt(0, 1), AdAt(1, 4), AdAt(2, 8), AdAt(3, 11)>>}

FeedParams == [Params EXCEPT !.ads = TRUE, !.ads_logging = TRUE, !.cached = FALSE]
Feed == [Scenario EXCEPT !.params = FeedParams]
RiskyFeeds ==
    {[Feed EXCEPT !.ads = ads, !.blender = blender, !.faults = {<<"labels", id>> : id \in failing}] :
        ads \in FeedAds, blender \in {"safe_gap", "partition"}, failing \in SUBSET {2, 6, 8, 11}}
MixedFeeds ==
    {[Feed EXCEPT !.ads = ads, !.faults = faults, !.blender = blender,
                  !.params.brand_safety = safety, !.params.prompts = TRUE,
                  !.request.push_to_home = push] :
        ads \in {<<AnAd>>, <<AdAt(0, 2), AdAt(1, 6)>>}, blender \in {"safe_gap", "partition"},
        safety \in {"vf", "none"}, push \in {None, Some(5)},
        faults \in {{}, {<<"ads", 0>>}, {<<"wtf", 0>>, <<"vf_labels", 6>>}, {<<"kafka", 0>>},
                    {<<"thunder", 0>>}, {<<"history_put", 0>>, <<"prompts", 0>>}}}
\* Feeds out of the other sources, scorers and topic filters, all published.
Published == [FeedParams EXCEPT !.seen_kafka = TRUE, !.request_cache = TRUE, !.facepile = TRUE]
OtherFeeds ==
    {[Feed EXCEPT !.ads = <<AdAt(0, 2), AdAt(1, 5)>>, !.sampled = TRUE, !.shadow = TRUE,
                  !.request = request, !.params = params, !.faults = faults] :
        request \in {[Bottom EXCEPT !.seen_ids = {2}], [Request EXCEPT !.topic_ids = {101}],
                     [Request EXCEPT !.topic_ids = {101, 102}], [Request EXCEPT !.in_network_only = TRUE],
                     [Request EXCEPT !.excluded_topic_ids = {100}, !.context = "background_fetch"]},
        params \in {[Published EXCEPT !.moe = TRUE, !.topic_overrides = 101 :> "unfiltered"],
                    [Published EXCEPT !.new_user_retrieval = TRUE, !.new_user_filtering = TRUE],
                    [Published EXCEPT !.vm_ranker = TRUE, !.context = TRUE]},
        faults \in {{}, {<<"predict", 0>>}, {<<"retrieval", 0>>, <<"vm_missing", 5>>},
                    {<<"scoring", 0>>}, {<<"vf_home", 3>>, <<"followed", 0>>}}}
FeedRequests == {1}
FeedScenarios == <<RiskyFeeds \cup MixedFeeds \cup OtherFeeds>>
============================================================================
