----------------------------- MODULE MCGroxPlans -----------------------------
(***************************************************************************)
(* GroxPlans on small instances: one or two payloads about one post, as    *)
(* the streams of stream_generator.py label them.                          *)
(***************************************************************************)
EXTENDS GroxPlans, TLC

CONSTANTS p1, p2, x

MCPosts    == {x}
MCPayloads == {p1, p2}

Original  == [id |-> x, reply |-> FALSE, protected |-> FALSE, toSelf |-> FALSE,
              popularTarget |-> FALSE, targetKnown |-> FALSE, videos |-> 0]
Protected == [Original EXCEPT !.protected = TRUE]
Reply     == [Original EXCEPT !.reply = TRUE, !.targetKnown = TRUE]
ToSelf    == [Reply EXCEPT !.toSelf = TRUE]
Popular   == [Reply EXCEPT !.popularTarget = TRUE]
Orphan    == [Reply EXCEPT !.targetKnown = FALSE]
Film      == [Reply EXCEPT !.videos = 2]

Labelled(post, eligibilities) ==
    [post |-> post, eligibilities |-> eligibilities, deluxe |-> FALSE, findings |-> {"plain"}]
Found(findings, arrival) == [p \in DOMAIN arrival |-> [arrival[p] EXCEPT !.findings = findings]]
Both(first, second) == (p1 :> first) @@ (p2 :> second)
Once(first) == p1 :> first
Alone(post, plan) == Once(Labelled(post, {plan}))
Twice(post, plan) == Both(Labelled(post, {plan}), Labelled(post, {plan}))

\* POST_STREAM asks for two plans, POST_STREAM_DELAYED for none; every other stream for one.
PostStream(post) == Labelled(post, {"PlanSpamComment", "PlanReplyRanking"})
Delayed(post)    == Labelled(post, {})
Deluxe(post)     == [Labelled(post, {"PlanSafetyPtos"}) EXCEPT !.deluxe = TRUE]

MCArrivals ==
    {Found({"nothing", "plain"}, Alone(Original, "PlanPostSafety")),
     Twice(Popular, "PlanReplyRanking"),
     Twice(Film, "PlanPostEmbeddingV5"), Alone(Original, "PlanPostEmbeddingV5"),
     Alone(Film, "PlanPostEmbeddingV5ForReply"),
     Alone(Original, "PlanInitialBanger"), Alone(Protected, "PlanInitialBanger"),
     Alone(Original, "PlanPostEmbeddingWithSummary"),
     Alone(Reply, "PlanPostEmbeddingWithSummaryForReply"),
     Alone(Orphan, "PlanPostEmbeddingWithSummaryForReply"),
     Once(PostStream(Reply)), Once(PostStream(ToSelf)),
     Found({"spam"}, Once(PostStream(Popular))),
     Once(Delayed(Reply)), Alone(Reply, "PlanSafetyPtos"),
     Found({"nothing"}, Once(Deluxe(Reply)))}
=============================================================================
