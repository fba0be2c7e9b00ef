-------------------------- MODULE MCThunderService --------------------------
(***************************************************************************)
(* ThunderService on a small instance: an original of u1 (p1) and a reply  *)
(* to it (p2) that is deleted by one thread while the other inserts it.  A *)
(* debug call without a following list (c1) and a video call that follows  *)
(* nobody (c2) compete for one permit.                                     *)
(***************************************************************************)
EXTENDS ThunderService, TLC

CONSTANTS p1, p2, u1, t1, t2, c1, c2

MCPosts   == {p1, p2}
MCUsers   == {u1}
MCThreads == {t1, t2}
MCCalls   == {c1, c2}
MCLeaving == {c1}

Original(created) ==
    [author |-> u1, created |-> created, isReply |-> FALSE, isRetweet |-> FALSE,
     hasVideo |-> FALSE, source |-> NoPost, sourceUser |-> DeleteKey, replyTo |-> NoPost,
     replyUser |-> DeleteKey, conversation |-> NoPost]
MCLight == (p1 :> Original(1))
           @@ (p2 :> [Original(2) EXCEPT !.isReply = TRUE, !.replyTo = p1, !.replyUser = u1,
                                         !.conversation = p1])
Create(p) == [delete |-> FALSE, id |-> p, at |-> MCLight[p].created]
Delete(p, at) == [delete |-> TRUE, id |-> p, at |-> at]
MCFeed == (t1 :> <<Create(p1), Create(p2)>>) @@ (t2 :> <<Delete(p2, 2)>>)

MCAsked ==
    (c1 :> [viewer |-> u1, following |-> <<>>, exclude |-> <<>>, video |-> FALSE,
            debug |-> TRUE, max |-> 1])
    @@ (c2 :> [viewer |-> u1, following |-> <<>>, exclude |-> <<>>, video |-> TRUE,
               debug |-> FALSE, max |-> 0])
MCFollows == (u1 :> <<u1>>)
MCRequests == {ReadOf(c) : c \in Calls}
=============================================================================
