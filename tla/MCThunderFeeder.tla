--------------------------- MODULE MCThunderFeeder ---------------------------
(* Small instance of ThunderFeeder for TLC: two posts, their deletions on   *)
(* the partitions of another thread, and events of every kind.              *)
EXTENDS ThunderFeeder, TLC

CONSTANTS p, q, t1, t2

An(kind, post) == [kind |-> kind, post |-> post]
MCLog ==
    (t1 :> <<An("create", p), An("garbled", q), An("create", q), An("other", p), An("malformed", q)>>) @@
    (t2 :> <<An("delete", p), An("nullcast", q), An("quoted_delete", q)>>)
============================================================================
