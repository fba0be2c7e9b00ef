-------------------------- MODULE MCThunderStartup --------------------------
(* Small instances of ThunderStartup for TLC. *)
EXTENDS ThunderStartup

\* With one partition only the first of two threads is spawned.
OneOrTwo == {1, 2}
OneEach  == {2}
=============================================================================
