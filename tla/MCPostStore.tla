---------------------------- MODULE MCPostStore ----------------------------
(***************************************************************************)
(* PostStore on a small instance: a video (p1) is created, deleted a       *)
(* second later and delivered again by another thread, while main          *)
(* finalizes or trims with a clock it may have read before the deletion.   *)
(***************************************************************************)
EXTENDS PostStore, TLC

CONSTANTS p1, u1, t1, t2

MCOnePost  == {p1}
MCOneUser  == {u1}
MCThreads  == {t1, t2}
NoRequests == {}

Video == [author |-> u1, created |-> 1, isReply |-> FALSE, isRetweet |-> FALSE,
          hasVideo |-> TRUE, source |-> NoPost, sourceUser |-> DeleteKey, replyTo |-> NoPost,
          replyUser |-> DeleteKey, conversation |-> NoPost]
MCLight == p1 :> Video

Create(p) == [delete |-> FALSE, id |-> p, at |-> Light[p].created]
Delete(p, at) == [delete |-> TRUE, id |-> p, at |-> at]
MCFeed == (t1 :> <<Create(p1), Delete(p1, 2)>>) @@ (t2 :> <<Create(p1)>>)
=============================================================================
