--------------------------- MODULE MCGroxDispatch ---------------------------
(***************************************************************************)
(* GroxDispatch on small instances: p1, p2 and the malformed pm arrive on  *)
(* the first stream, p3 on the second, whose generator raises when it      *)
(* builds a TaskPayload.                                                   *)
(***************************************************************************)
EXTENDS GroxDispatch, TLC

CONSTANTS p1, p2, p3, pm, g1, g2

MCPayloads == {p1, p2, p3, pm}
MCStreams  == {g1, g2}
MCStreamOf == (p1 :> g1) @@ (p2 :> g1) @@ (p3 :> g2) @@ (pm :> g1)
MCFaulty   == {g2}
MCMalformed == {pm}
=============================================================================
