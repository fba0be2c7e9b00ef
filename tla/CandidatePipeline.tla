------------------------- MODULE CandidatePipeline -------------------------
(***************************************************************************)
(* The candidate-pipeline framework home-mixer runs on: what each stage of *)
(* a request makes of what its components answer.                          *)
(*                                                                         *)
(* An Option, and the Result of a component, is a set of at most one       *)
(* value: Err and None are empty.  What a hydrator or scorer answers for a *)
(* candidate is a record with exactly the fields its update() copies, so   *)
(* that update is Over.  A disabled component answers nothing.  Candidates *)
(* and queries are records.  No component of home-mixer answers with a     *)
(* wrong number of results, so the length checks never fire.               *)
(***************************************************************************)
EXTENDS Integers, Sequences, SequencesExt, FiniteSets

None == {}
Some(v) == {v}
Get(option, default) == IF option = None THEN default ELSE CHOOSE v \in option : TRUE
When(enabled, option) == IF enabled THEN option ELSE None

Least(a, b) == IF a < b THEN a ELSE b
Greatest(a, b) == IF a > b THEN a ELSE b
Upto(n) == [i \in 1..n |-> i]
Take(s, n) == SubSeq(s, 1, Least(n, Len(s)))
Skip(s, n) == SubSeq(s, n + 1, Len(s))
Range1(s) == {s[i] : i \in 1..Len(s)}
MapSeq(s, F(_)) == [i \in 1..Len(s) |-> F(s[i])]

\* A set of numbers in its order, and what a sequence has at some places or of some kind.
Nth(S, k) == CHOOSE n \in S : Cardinality({m \in S : m <= n}) = k
Ascending(S) == [k \in 1..Cardinality(S) |-> Nth(S, k)]
PickAt(s, places) == MapSeq(Ascending(places), LAMBDA i : s[i])
Those(s, Test(_)) == PickAt(s, {i \in DOMAIN s : Test(s[i])})

\* The fields of a change go over those of a record.
Over(change, record) ==
    [f \in DOMAIN change \cup DOMAIN record |->
        IF f \in DOMAIN change THEN change[f] ELSE record[f]]
-----------------------------------------------------------------------------
(* Query hydrators and sources *)

\* Answers are merged in the order of the list: the last that has a field counts.
Merged(record, answers) ==
    LET Having(f) == {i \in DOMAIN answers : f \in DOMAIN Get(answers[i], <<>>)}
    IN  [f \in DOMAIN record |->
            IF Having(f) = {} THEN record[f] ELSE Get(answers[Max(Having(f))], <<>>)[f]]

\* All read the same query.
HydrateQuery(query, results) == Merged(query, results)

\* A source that fails or is disabled gives no candidates.
FetchCandidates(results) == FlattenSeq(MapSeq(results, LAMBDA r : Get(r, <<>>)))
-----------------------------------------------------------------------------
(* Candidate hydrators *)

UpdateAll(candidates, results) ==
    [i \in 1..Len(candidates) |-> Over(Get(results[i], <<>>), candidates[i])]

\* Every hydrator has seen the candidates as they entered the stage.
RunHydrators(candidates, answers) ==
    [i \in 1..Len(candidates) |->
        Merged(candidates[i], MapSeq(answers, LAMBDA results : results[i]))]

HydrateEach(enabled, answers) ==
    [i \in DOMAIN answers |-> IF enabled THEN answers[i] ELSE None]

\* found: the cache as the stage looked it up; keys and client: the key of each
\* candidate and what the client answers for it when asked.  Only an Ok is
\* inserted; of two answers for one key the later one stays.
CachedHydrate(enabled, found, keys, client) ==
    LET missed == {i \in DOMAIN keys : enabled /\ keys[i] \notin DOMAIN found}
        fetched == {i \in missed : client[i] # None}
        LastOf(k) == CHOOSE i \in fetched :
                        keys[i] = k /\ \A j \in fetched : keys[j] = k => j <= i
    IN  [results |-> HydrateEach(enabled, [i \in DOMAIN keys |->
                        IF keys[i] \in DOMAIN found THEN Some(found[keys[i]]) ELSE client[i]]),
         inserts |-> [k \in {keys[i] : i \in fetched} |-> Get(client[LastOf(k)], <<>>)]]
-----------------------------------------------------------------------------
(* Filters, scorers and the selector *)

\* places: where the candidates are that a filter keeps.
Partition(candidates, places) ==
    [kept |-> PickAt(candidates, places), removed |-> PickAt(candidates, DOMAIN candidates \ places)]
KeepAll(candidates) == [kept |-> candidates, removed |-> <<>>]

\* Stable, highest score first.
SortByScore(candidates, scores) ==
    LET Rank(i) == Cardinality({j \in DOMAIN candidates :
                                  scores[j] > scores[i] \/ (scores[j] = scores[i] /\ j <= i)})
    IN  [k \in 1..Len(candidates) |-> candidates[CHOOSE i \in DOMAIN candidates : Rank(i) = k]]

SplitOff(candidates, limit) ==
    [selected |-> Take(candidates, limit), non_selected |-> Skip(candidates, limit)]

Select(candidates, scores, limit) == SplitOff(SortByScore(candidates, scores), limit)
=============================================================================
