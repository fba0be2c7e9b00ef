------------------------------ MODULE GroxJobs ------------------------------
(***************************************************************************)
(* What the grox dispatcher promises its streams, without its queues and   *)
(* processes: a payload is admitted once, while fewer than MaxInFlight are *)
(* admitted and unresolved; it is started at most MaxAttempts + 1 times,   *)
(* only between its admission and its resolution; it is resolved once, and *)
(* only after it was started.  Nothing promises that it is resolved: a     *)
(* shutdown may lose it.                                                   *)
(***************************************************************************)
EXTENDS Naturals, FiniteSets

CONSTANTS Payloads, MaxInFlight, MaxAttempts

VARIABLES status, started

vars == <<status, started>>

Admitted == {p \in Payloads : status[p] = "inFlight"}

Init == /\ status = [p \in Payloads |-> "waiting"]
        /\ started = [p \in Payloads |-> 0]

Admit(p) == /\ status[p] = "waiting"
            /\ Cardinality(Admitted) < MaxInFlight
            /\ status' = [status EXCEPT ![p] = "inFlight"]
            /\ UNCHANGED started

Start(p) == /\ status[p] = "inFlight"
            /\ started[p] <= MaxAttempts
            /\ started' = [started EXCEPT ![p] = @ + 1]
            /\ UNCHANGED status

Resolve(p) == /\ status[p] = "inFlight"
              /\ started[p] > 0
              /\ status' = [status EXCEPT ![p] = "resolved"]
              /\ UNCHANGED started

Next == \E p \in Payloads : Admit(p) \/ Start(p) \/ Resolve(p)

Spec == Init /\ [][Next]_vars
=============================================================================
