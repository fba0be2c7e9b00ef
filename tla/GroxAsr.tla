------------------------------- MODULE GroxAsr -------------------------------
(***************************************************************************)
(* The transcriber of an engine (asr_processor.py): requests go through a  *)
(* queue to worker processes, one future per post is awaited by everyone   *)
(* who asks for the post meanwhile, and a transcript is kept in a cache,   *)
(* whose five minutes outlast what is modelled.  Queue, worker and result  *)
(* loop are one step: no coroutine sees a request on its way.              *)
(***************************************************************************)
EXTENDS Naturals

CONSTANT Posts

VARIABLES
    asrJobs,        \* [Posts -> requests on their way through the workers]
    asrInflights,   \* [posts in _inflights -> who awaits the future]
    asrCache        \* posts with a transcript

asrVars == <<asrJobs, asrInflights, asrCache>>

AsrInit ==
    /\ asrJobs = [p \in Posts |-> 0]
    /\ asrInflights = [p \in {} |-> {}]
    /\ asrCache = {}

InFlight(p) == p \in DOMAIN asrInflights
Awaiting(p, who) == [q \in DOMAIN asrInflights \cup {p} |->
                        IF q # p THEN asrInflights[q]
                        ELSE who \cup (IF InFlight(p) THEN asrInflights[p] ELSE {})]

\* A request for a post that is on its way joins the future of the first one.
Submit(p, asker) ==
    /\ asrJobs' = [asrJobs EXCEPT ![p] = IF InFlight(p) THEN @ ELSE @ + 1]
    /\ asrInflights' = Awaiting(p, {asker})
    /\ UNCHANGED asrCache

\* A result comes back and wakes those who await the future in _inflights.
TakeResult(p) ==
    /\ asrJobs[p] > 0
    /\ asrJobs' = [asrJobs EXCEPT ![p] = @ - 1]
    /\ asrInflights' = [q \in DOMAIN asrInflights \ {p} |-> asrInflights[q]]
    /\ UNCHANGED asrCache
Woken(p) == IF InFlight(p) THEN asrInflights[p] ELSE {}

Keep(p) == asrCache' = asrCache \cup {p} /\ UNCHANGED <<asrJobs, asrInflights>>
=============================================================================
