--------------------------- MODULE HomeMixerProofs ---------------------------
(***************************************************************************)
(* What the home mixer promises of the responses, the caches and the       *)
(* served history, for any world, any requests and any order of their      *)
(* stages and side effects.                                                *)
(***************************************************************************)
EXTENDS HomeMixer, HomeOperatorProofs

(* ---------- The history of the viewer ----------------------------------- *)

\* A request is a record of these fields.
Records ==
    /\ reqs = [r \in Requests |-> reqs[r]]
    /\ \A r \in Requests : DOMAIN reqs[r] = Fields

\* What a request took with it from the history has been recorded, and is in order.
ReadInOrder ==
    \A r \in Requests :
        /\ At(r, "idle") => reqs[r].pending = {}
        /\ ~At(r, "idle") => /\ {"request_time", "served_history"} \subseteq DOMAIN reqs[r].outer
                             /\ reqs[r].outer.request_time \in Nat
                             /\ NewestFirst(reqs[r].outer.served_history, landed)

Recorded ==
    /\ now \in Nat
    /\ landed \subseteq Nat /\ IsFiniteSet(landed)
    /\ DOMAIN history \subseteq landed

HistoryInv == Records /\ Recorded /\ ReadInOrder /\ KeepsNewestHistory

\* What a stage leaves of the requests: the fields it changes, and nothing else.
LEMMA BecomesMeans ==
    ASSUME Records, NEW r \in Requests, NEW change, DOMAIN change \subseteq Fields, Becomes(r, change)
    PROVE  /\ Records'
           /\ \A x \in Requests \ {r} : reqs'[x] = reqs[x]
           /\ \A f \in DOMAIN change : reqs'[r][f] = change[f]
           /\ \A f \in Fields \ DOMAIN change : reqs'[r][f] = reqs[r][f]
<1>1. reqs' = [reqs EXCEPT ![r] = Over(change, reqs[r])]
  BY DEF Becomes
<1>2. reqs = [x \in Requests |-> reqs[x]] /\ \A x \in Requests : DOMAIN reqs[x] = Fields
  BY DEF Records
<1>3. /\ DOMAIN Over(change, reqs[r]) = Fields
      /\ \A f \in DOMAIN change : Over(change, reqs[r])[f] = change[f]
      /\ \A f \in Fields \ DOMAIN change : Over(change, reqs[r])[f] = reqs[r][f]
  BY <1>2 DEF Over
<1>4. reqs' = [x \in Requests |-> IF x = r THEN Over(change, reqs[r]) ELSE reqs[x]]
  BY <1>1, <1>2
<1>5. Records'
  BY <1>2, <1>3, <1>4 DEF Records
<1> QED BY <1>3, <1>4, <1>5

\* Reading the history gives what is in it, the newest first.
LEMMA ReadingSorts ==
    ASSUME Recorded
    PROVE  NewestFirst(Responses(history), landed)
<1> DEFINE S == DOMAIN history
           n == Cardinality(S)
           a == Ascending(S)
           h == Responses(history)
<1>1. S \subseteq landed /\ landed \subseteq Nat /\ IsFiniteSet(landed)
  BY DEF Recorded
<1> HIDE DEF S
<1>2. S \subseteq Nat /\ S \subseteq Int /\ IsFiniteSet(S)
  <2>1. IsFiniteSet(S)
    BY <1>1, FS_Subset
  <2>2. S \subseteq Nat
    BY <1>1
  <2>3. S \subseteq Int
    BY <2>2
  <2> QED BY <2>1, <2>2, <2>3
<1>3. /\ n \in Nat /\ a \in [1 .. n -> S]
      /\ \A j, k \in 1 .. n : j < k => a[j] < a[k]
  BY <1>2, AscendingSorts
<1> HIDE DEF n, a
<1>4. a \in Seq(S) /\ Len(a) = n
  BY <1>3, AsSequence
<1>5. Len(Reverse(a)) = n /\ \A i \in 1 .. n : Reverse(a)[i] = a[(n - i) + 1]
  <2>1. Reverse(a) = [i \in 1 .. n |-> a[(n - i) + 1]]
    BY <1>4 DEF Reverse
  <2>2. \A i \in 1 .. n : (n - i) + 1 \in 1 .. n
    BY <1>3
  <2>3. Reverse(a) \in [1 .. n -> S]
    BY <1>3, <2>1, <2>2
  <2>4. Reverse(a) \in Seq(S) /\ Len(Reverse(a)) = n
    BY <1>3, <2>3, AsSequence
  <2> QED BY <2>1, <2>4
<1>6. h = [i \in 1 .. n |-> [time |-> a[(n - i) + 1], entries |-> history[a[(n - i) + 1]]]]
  BY <1>5 DEF Responses, MapSeq, S, a
<1> HIDE DEF h
<1>7. DOMAIN h = 1 .. n
  BY <1>6
<1>8. h \in Seq({h[i] : i \in 1 .. n}) /\ Len(h) = n
  <2>1. h \in [1 .. n -> {h[i] : i \in 1 .. n}]
    BY <1>6, <1>7
  <2> QED BY <1>3, <2>1, AsSequence
<1>9. \A i \in 1 .. n : h[i].time = a[(n - i) + 1] /\ (n - i) + 1 \in 1 .. n
  BY <1>3, <1>6
<1>10. \A i \in 1 .. n : h[i].time \in landed
  <2> SUFFICES ASSUME NEW i \in 1 .. n PROVE h[i].time \in landed
    OBVIOUS
  <2>1. a[(n - i) + 1] \in S
    BY <1>3, <1>9
  <2> QED BY <1>1, <1>9, <2>1
<1>11. \A i, j \in 1 .. n : i < j => h[i].time > h[j].time
  <2> SUFFICES ASSUME NEW i \in 1 .. n, NEW j \in 1 .. n, i < j PROVE h[i].time > h[j].time
    OBVIOUS
  <2>1. (n - j) + 1 < (n - i) + 1
    BY <1>3
  <2>2. a[(n - j) + 1] < a[(n - i) + 1]
    BY <1>3, <1>9, <2>1
  <2>3. a[(n - j) + 1] \in Nat /\ a[(n - i) + 1] \in Nat
    BY <1>2, <1>3, <1>9
  <2> QED BY <1>9, <2>2, <2>3
<1> QED BY <1>8, <1>10, <1>11 DEF NewestFirst, h

(* What each step leaves of it *)

\* A stage after the query is there.
LEMMA StageKeeps ==
    ASSUME HistoryInv, NEW r \in Requests, ~At(r, "idle"),
           NEW change, DOMAIN change \subseteq Fields \ {"outer"},
           "stage" \in DOMAIN change, change.stage # "idle",
           Becomes(r, change), UNCHANGED now, StoresUnchanged
    PROVE  HistoryInv'
<1>1. /\ Records'
      /\ \A x \in Requests \ {r} : reqs'[x] = reqs[x]
      /\ reqs'[r].stage # "idle" /\ reqs'[r].outer = reqs[r].outer
  BY BecomesMeans DEF HistoryInv, Fields
<1>2. Recorded'
  BY DEF HistoryInv, Recorded, StoresUnchanged
<1>3. KeepsNewestHistory'
  BY DEF HistoryInv, KeepsNewestHistory, StoresUnchanged
<1>4. ReadInOrder'
  <2> SUFFICES ASSUME NEW x \in Requests
               PROVE  /\ reqs'[x].stage = "idle" => reqs'[x].pending = {}
                      /\ reqs'[x].stage # "idle" =>
                            /\ {"request_time", "served_history"} \subseteq DOMAIN reqs'[x].outer
                            /\ reqs'[x].outer.request_time \in Nat
                            /\ NewestFirst(reqs'[x].outer.served_history, landed')
    BY DEF ReadInOrder, At
  <2>1. CASE x = r
    BY <1>1, <2>1 DEF HistoryInv, ReadInOrder, StoresUnchanged, At
  <2>2. CASE x # r
    BY <1>1, <2>2 DEF HistoryInv, ReadInOrder, StoresUnchanged, At
  <2> QED BY <2>1, <2>2
<1> QED BY <1>1, <1>2, <1>3, <1>4 DEF HistoryInv

\* The stages behind the hydration of the query leave the history alone.
LEMMA StagesKeep ==
    ASSUME HistoryInv, NEW r \in Requests,
           HydratePhoenix(r) \/ Fetch(r) \/ Hydrate(r) \/ Rank(r) \/ PostSelect(r) \/ Respond(r)
    PROVE  HistoryInv'
<1>1. CASE HydratePhoenix(r)
  <2> DEFINE change == [stage |-> "hydrated",
                        query |-> HydratePhoenixQuery(reqs[r].query, Faults(r),
                                                      Stored(CachedPostsKey(reqs[r].query)))]
  <2>1. /\ At(r, "asked") /\ Becomes(r, change) /\ UNCHANGED now /\ StoresUnchanged
    BY <1>1 DEF HydratePhoenix
  <2>2. DOMAIN change \subseteq Fields \ {"outer"} /\ "stage" \in DOMAIN change /\ change.stage # "idle"
    BY DEF Fields
  <2> HIDE DEF change
  <2> QED BY <2>1, <2>2, StageKeeps DEF At
<1>2. CASE Fetch(r)
  <2> DEFINE q == reqs[r].query
             change == [stage |-> "fetched",
                        candidates |-> PhoenixCandidatesOf(q, Faults(r), now),
                        query |-> [q EXCEPT !.network_replies = NetworkReplies(q, Faults(r))],
                        found |-> Live(caches, now)]
  <2>1. /\ At(r, "hydrated") /\ Becomes(r, change) /\ UNCHANGED now /\ StoresUnchanged
    BY <1>2 DEF Fetch
  <2>2. DOMAIN change \subseteq Fields \ {"outer"} /\ "stage" \in DOMAIN change /\ change.stage # "idle"
    BY DEF Fields
  <2> HIDE DEF change
  <2> QED BY <2>1, <2>2, StageKeeps DEF At
<1>3. CASE Hydrate(r)
  <2>1. PICK h : Becomes(r, [stage |-> "enriched", found |-> NoCaches,
                             candidates |-> h.candidates, retrieved |-> Ids(h.candidates)])
    BY <1>3 DEF Hydrate
  <2> DEFINE change == [stage |-> "enriched", found |-> NoCaches,
                        candidates |-> h.candidates, retrieved |-> Ids(h.candidates)]
  <2>2. /\ At(r, "fetched") /\ Becomes(r, change) /\ UNCHANGED now /\ StoresUnchanged
    BY <1>3, <2>1 DEF Hydrate
  <2>3. DOMAIN change \subseteq Fields \ {"outer"} /\ "stage" \in DOMAIN change /\ change.stage # "idle"
    BY DEF Fields
  <2> HIDE DEF change
  <2> QED BY <2>2, <2>3, StageKeeps DEF At
<1>4. CASE Rank(r)
  <2>1. PICK f, s : Becomes(r, [stage |-> "ranked", candidates |-> s.selected,
                                shortlist |-> Ids(s.selected),
                                non_selected |-> s.non_selected, filtered |-> f.removed,
                                found |-> Live(caches, now)])
    BY <1>4 DEF Rank
  <2> DEFINE change == [stage |-> "ranked", candidates |-> s.selected,
                        shortlist |-> Ids(s.selected),
                        non_selected |-> s.non_selected, filtered |-> f.removed,
                        found |-> Live(caches, now)]
  <2>2. /\ At(r, "enriched") /\ Becomes(r, change) /\ UNCHANGED now /\ StoresUnchanged
    BY <1>4, <2>1 DEF Rank
  <2>3. DOMAIN change \subseteq Fields \ {"outer"} /\ "stage" \in DOMAIN change /\ change.stage # "idle"
    BY DEF Fields
  <2> HIDE DEF change
  <2> QED BY <2>2, <2>3, StageKeeps DEF At
<1>5. CASE PostSelect(r)
  <2>1. PICK q, h, f :
          LET s == SplitOff(f.kept, Limits.result_size)
              others == reqs[r].non_selected \o s.non_selected
          IN  Becomes(r, [stage |-> IF ForYou(r) THEN "selected" ELSE "answered",
                          found |-> NoCaches, candidates |-> s.selected,
                          non_selected |-> others,
                          filtered |-> reqs[r].filtered \o f.removed,
                          posts |-> Some(MapSeq(s.selected, ToScoredPost)),
                          pending |-> PhoenixEffects(q),
                          published |-> PhoenixPublishes(q, Faults(r), reqs[r].scenario.sampled,
                                                         s.selected, others)])
    BY <1>5 DEF PostSelect
  <2> DEFINE s == SplitOff(f.kept, Limits.result_size)
             others == reqs[r].non_selected \o s.non_selected
             change == [stage |-> IF ForYou(r) THEN "selected" ELSE "answered",
                        found |-> NoCaches, candidates |-> s.selected,
                        non_selected |-> others,
                        filtered |-> reqs[r].filtered \o f.removed,
                        posts |-> Some(MapSeq(s.selected, ToScoredPost)),
                        pending |-> PhoenixEffects(q),
                        published |-> PhoenixPublishes(q, Faults(r), reqs[r].scenario.sampled,
                                                       s.selected, others)]
  <2>2. /\ At(r, "ranked") /\ Becomes(r, change) /\ UNCHANGED now /\ StoresUnchanged
    BY <1>5, <2>1 DEF PostSelect
  <2>3. DOMAIN change \subseteq Fields \ {"outer"} /\ "stage" \in DOMAIN change /\ change.stage # "idle"
    BY DEF Fields
  <2> HIDE DEF change
  <2> QED BY <2>2, <2>3, StageKeeps DEF At
<1>6. CASE Respond(r)
  <2>1. PICK q, sc, blended :
          LET s == SplitOff(blended.selected, Limits.for_you_size)
              others == blended.non_selected \o s.non_selected
          IN  Becomes(r, [stage |-> "answered", items |-> s.selected,
                          pending |-> reqs[r].pending \cup ForYouEffects(q),
                          published |-> Over(ForYouPublishes(q, sc.faults, s.selected, others),
                                             reqs[r].published)])
    BY <1>6 DEF Respond
  <2> DEFINE s == SplitOff(blended.selected, Limits.for_you_size)
             others == blended.non_selected \o s.non_selected
             change == [stage |-> "answered", items |-> s.selected,
                        pending |-> reqs[r].pending \cup ForYouEffects(q),
                        published |-> Over(ForYouPublishes(q, sc.faults, s.selected, others),
                                           reqs[r].published)]
  <2>2. /\ At(r, "selected") /\ Becomes(r, change) /\ UNCHANGED now /\ StoresUnchanged
    BY <1>6, <2>1 DEF Respond, SourcesJoined
  <2>3. DOMAIN change \subseteq Fields \ {"outer"} /\ "stage" \in DOMAIN change /\ change.stage # "idle"
    BY DEF Fields
  <2> HIDE DEF change
  <2> QED BY <2>2, <2>3, StageKeeps DEF At
<1> QED BY <1>1, <1>2, <1>3, <1>4, <1>5, <1>6

\* The hydrators of a For You query bring it the history and leave its time.
LEMMA HistoryHydrated ==
    ASSUME NEW query, {"request_time", "served_history"} \subseteq DOMAIN query,
           NEW faults, NEW read, NEW times
    PROVE  LET q == HydrateForYouQuery(query, faults, read, times)
           IN  /\ DOMAIN q = DOMAIN query
               /\ \A f \in DOMAIN query \ {"served_history", "served_ids", "wtf_eligible", "timestamps"} :
                     q[f] = query[f]
               /\ q.request_time = query.request_time
               /\ q.served_history \in {query.served_history, read}
               /\ \/ \A f \in DOMAIN query \ {"timestamps"} : q[f] = query[f]
                  \/ {"served_ids", "wtf_eligible"} \subseteq DOMAIN query => ReadFrom(q, read)
<1> DEFINE first == ServedHistory(query, faults, read)
           second == PastRequestTimestamps(query, faults, times)
           answers == <<first, second>>
           q == HydrateForYouQuery(query, faults, read, times)
<1>1. \/ Get(first, <<>>) = <<>>
      \/ /\ DOMAIN Get(first, <<>>) = {"served_history", "served_ids", "wtf_eligible"}
         /\ Get(first, <<>>).served_history = read
         /\ Get(first, <<>>).served_ids = RecentlyServedIds(read, query.request_time)
         /\ Get(first, <<>>).wtf_eligible
                = IsModuleEligible(read, "who_to_follow", query.request_time)
  <2> DEFINE value == [served_history |-> read,
                       served_ids |-> RecentlyServedIds(read, query.request_time),
                       wtf_eligible |-> IsModuleEligible(read, "who_to_follow", query.request_time)]
  <2>1. /\ DOMAIN value = {"served_history", "served_ids", "wtf_eligible"} /\ value.served_history = read
        /\ value.served_ids = RecentlyServedIds(read, query.request_time)
        /\ value.wtf_eligible = IsModuleEligible(read, "who_to_follow", query.request_time)
    OBVIOUS
  <2> HIDE DEF value
  <2>2. first = When(query.params.urt, Answered(faults, "history_get", value))
    BY DEF ServedHistory, value
  <2> HIDE DEF first
  <2> QED BY <2>1, <2>2, Answers
<1>2. Get(second, <<>>) = <<>> \/ DOMAIN Get(second, <<>>) = {"timestamps"}
  <2> DEFINE value == [timestamps |-> times]
  <2>1. DOMAIN value = {"timestamps"}
    OBVIOUS
  <2> HIDE DEF value
  <2>2. second = When(query.params.urt, Answered(faults, "timestamps_get", value))
    BY DEF PastRequestTimestamps, value
  <2> HIDE DEF second
  <2> QED BY <2>1, <2>2, Answers
<1>3. q = Merged(query, answers)
  BY DEF HydrateForYouQuery, HydrateQuery
<1> HIDE DEF first, second, q
<1>4. DOMAIN answers = 1 .. 2 /\ answers[1] = first /\ answers[2] = second
  OBVIOUS
<1> HIDE DEF answers
<1>5. DOMAIN answers \subseteq Int /\ IsFiniteSet(DOMAIN answers)
  <2>1. IsFiniteSet(1 .. 2)
    <3>1. \A k \in Nat : IsFiniteSet(1 .. k)
      BY FS_Interval
    <3> QED BY <3>1
  <2>2. 1 .. 2 \subseteq Int
    OBVIOUS
  <2> QED BY <1>4, <2>1, <2>2
<1>6. /\ DOMAIN q = DOMAIN query
      /\ \A f \in DOMAIN query \ {"served_history", "served_ids", "wtf_eligible", "timestamps"} :
            q[f] = query[f]
  <2>1. ASSUME NEW f \in DOMAIN query \ {"served_history", "served_ids", "wtf_eligible", "timestamps"}
        PROVE  q[f] = query[f]
    <3>1. \A i \in DOMAIN answers : f \notin DOMAIN Get(answers[i], <<>>)
      BY <1>1, <1>2, <1>4
    <3> QED BY <1>3, <1>5, <3>1, MergedField
  <2>2. DOMAIN q = DOMAIN query
    BY <1>3, <1>5, MergedField
  <2> QED BY <2>1, <2>2
<1>7. q.served_history \in {query.served_history, read}
  <2>1. \A i \in DOMAIN answers : "served_history" \in DOMAIN Get(answers[i], <<>>)
                                    => Get(answers[i], <<>>).served_history = read
    BY <1>1, <1>2, <1>4
  <2> QED BY <1>3, <1>5, <2>1, MergedField
<1>8. \/ \A f \in DOMAIN query \ {"timestamps"} : q[f] = query[f]
      \/ {"served_ids", "wtf_eligible"} \subseteq DOMAIN query => ReadFrom(q, read)
  <2>1. CASE Get(first, <<>>) = <<>>
    <3>1. ASSUME NEW f \in DOMAIN query \ {"timestamps"} PROVE q[f] = query[f]
      <4>1. \A i \in DOMAIN answers : f \notin DOMAIN Get(answers[i], <<>>)
        BY <1>2, <1>4, <2>1
      <4> QED BY <1>3, <1>5, <4>1, MergedField
    <3> QED BY <3>1
  <2>2. CASE Get(first, <<>>) # <<>>
    <3>1. ASSUME NEW f \in DOMAIN query, f \in {"served_history", "served_ids", "wtf_eligible"}
          PROVE  q[f] = Get(first, <<>>)[f]
      <4>1. 1 \in DOMAIN answers /\ f \in DOMAIN Get(answers[1], <<>>)
        BY <1>1, <1>4, <2>2, <3>1
      <4>2. \A i \in DOMAIN answers : f \in DOMAIN Get(answers[i], <<>>) => answers[i] = first
        BY <1>2, <1>4, <3>1
      <4> QED BY <1>3, <1>5, <3>1, <4>1, <4>2, MergedField
    <3> QED BY <1>1, <1>6, <2>2, <3>1 DEF ReadFrom
  <2> QED BY <2>1, <2>2
<1> QED BY <1>6, <1>7, <1>8 DEF q

\* A new request has read nothing yet.
LEMMA BuildKeeps ==
    ASSUME HistoryInv, NEW r \in Requests, Build(r)
    PROVE  HistoryInv'
<1>1. PICK sc \in Scenarios[r] :
          LET data == FetchViewerData(sc.faults, sc.data)
              query == [NewQuery(sc.request, sc.params, data, now + sc.gap)
                           EXCEPT !.shadow = sc.shadow]
              asked == IF sc.surface = "for_you_urt" THEN UrtQuery(query, sc.request) ELSE query
          IN  /\ now' = now + sc.gap
              /\ Becomes(r, [stage |-> IF sc.surface = "scored_posts" THEN "asked" ELSE "built",
                             scenario |-> sc, outer |-> asked, query |-> asked])
  BY DEF Build
<1> DEFINE data == FetchViewerData(sc.faults, sc.data)
           query == [NewQuery(sc.request, sc.params, data, now + sc.gap)
                        EXCEPT !.shadow = sc.shadow]
           asked == IF sc.surface = "for_you_urt" THEN UrtQuery(query, sc.request) ELSE query
           change == [stage |-> IF sc.surface = "scored_posts" THEN "asked" ELSE "built",
                      scenario |-> sc, outer |-> asked, query |-> asked]
<1>2. now' = now + sc.gap /\ Becomes(r, change) /\ StoresUnchanged
  BY <1>1 DEF Build
<1>3. now' \in Nat
  BY <1>2, RequestsAssumption DEF HistoryInv, Recorded
<1>4. /\ {"request_time", "served_history"} \subseteq DOMAIN query
      /\ query.request_time = now' /\ query.served_history = <<>>
  BY <1>2 DEF NewQuery
<1> HIDE DEF query
<1>5. /\ {"request_time", "served_history"} \subseteq DOMAIN asked
      /\ asked.request_time = now' /\ asked.served_history = <<>>
  <2>1. /\ {"request_time", "served_history"} \subseteq DOMAIN UrtQuery(query, sc.request)
        /\ UrtQuery(query, sc.request).request_time = query.request_time
        /\ UrtQuery(query, sc.request).served_history = query.served_history
    BY <1>4 DEF UrtQuery
  <2> QED BY <1>4, <2>1
<1> HIDE DEF asked
<1>6. DOMAIN change = {"stage", "scenario", "outer", "query"} /\ change.stage # "idle" /\ change.outer = asked
  OBVIOUS
<1> HIDE DEF change
<1>7. /\ Records'
      /\ \A x \in Requests \ {r} : reqs'[x] = reqs[x]
      /\ reqs'[r].stage # "idle" /\ reqs'[r].outer = asked
  BY <1>2, <1>6, BecomesMeans DEF HistoryInv, Fields
<1>8. Recorded' /\ KeepsNewestHistory'
  BY <1>2, <1>3 DEF HistoryInv, Recorded, KeepsNewestHistory, StoresUnchanged
<1>9. NewestFirst(<<>>, landed')
  BY DEF NewestFirst
<1>10. ReadInOrder'
  <2> SUFFICES ASSUME NEW x \in Requests
               PROVE  /\ reqs'[x].stage = "idle" => reqs'[x].pending = {}
                      /\ reqs'[x].stage # "idle" =>
                            /\ {"request_time", "served_history"} \subseteq DOMAIN reqs'[x].outer
                            /\ reqs'[x].outer.request_time \in Nat
                            /\ NewestFirst(reqs'[x].outer.served_history, landed')
    BY DEF ReadInOrder, At
  <2>1. CASE x = r
    BY <1>3, <1>5, <1>7, <1>9, <2>1
  <2>2. CASE x # r
    BY <1>2, <1>7, <2>2 DEF HistoryInv, ReadInOrder, StoresUnchanged, At
  <2> QED BY <2>1, <2>2
<1> QED BY <1>7, <1>8, <1>10 DEF HistoryInv

\* The history is read: what is taken along is in it, the newest first.
LEMMA HydrateForYouKeeps ==
    ASSUME HistoryInv, NEW r \in Requests, HydrateForYou(r)
    PROVE  HistoryInv'
<1> DEFINE q == HydrateForYouQuery(reqs[r].outer, Faults(r), Responses(history), timestamps)
           change == [stage |-> "asked", outer |-> q, query |-> q]
<1>1. At(r, "built") /\ Becomes(r, change) /\ now' = now /\ StoresUnchanged
  BY DEF HydrateForYou
<1>2. /\ {"request_time", "served_history"} \subseteq DOMAIN reqs[r].outer
      /\ reqs[r].outer.request_time \in Nat
      /\ NewestFirst(reqs[r].outer.served_history, landed)
  BY <1>1 DEF HistoryInv, ReadInOrder, At
<1>3. /\ {"request_time", "served_history"} \subseteq DOMAIN q
      /\ q.request_time = reqs[r].outer.request_time
      /\ q.served_history \in {reqs[r].outer.served_history, Responses(history)}
  BY <1>2, HistoryHydrated
<1>4. NewestFirst(q.served_history, landed)
  BY <1>2, <1>3, ReadingSorts DEF HistoryInv
<1> HIDE DEF q
<1>5. DOMAIN change = {"stage", "outer", "query"} /\ change.stage # "idle" /\ change.outer = q
  OBVIOUS
<1> HIDE DEF change
<1>6. /\ Records'
      /\ \A x \in Requests \ {r} : reqs'[x] = reqs[x]
      /\ reqs'[r].stage # "idle" /\ reqs'[r].outer = q
  BY <1>1, <1>5, BecomesMeans DEF HistoryInv, Fields
<1>7. Recorded' /\ KeepsNewestHistory'
  BY <1>1 DEF HistoryInv, Recorded, KeepsNewestHistory, StoresUnchanged
<1>8. ReadInOrder'
  <2> SUFFICES ASSUME NEW x \in Requests
               PROVE  /\ reqs'[x].stage = "idle" => reqs'[x].pending = {}
                      /\ reqs'[x].stage # "idle" =>
                            /\ {"request_time", "served_history"} \subseteq DOMAIN reqs'[x].outer
                            /\ reqs'[x].outer.request_time \in Nat
                            /\ NewestFirst(reqs'[x].outer.served_history, landed')
    BY DEF ReadInOrder, At
  <2>1. CASE x = r
    BY <1>1, <1>2, <1>3, <1>4, <1>6, <2>1 DEF StoresUnchanged
  <2>2. CASE x # r
    BY <1>1, <1>6, <2>2 DEF HistoryInv, ReadInOrder, StoresUnchanged, At
  <2> QED BY <2>1, <2>2
<1> QED BY <1>6, <1>7, <1>8 DEF HistoryInv

\* The end of an effect, that leaves in landed all that was in it.
LEMMA EffectKeeps ==
    ASSUME HistoryInv, NEW r \in Requests, NEW effect, Finishes(r, effect), landed \subseteq landed'
    PROVE  /\ Records' /\ ReadInOrder' /\ ~At(r, "idle") /\ now' = now
           /\ reqs[r].outer.request_time \in Nat
<1>1. /\ effect \in reqs[r].pending /\ now' = now
      /\ reqs' = [reqs EXCEPT ![r].pending = @ \ {effect}]
  BY DEF Finishes, CanFinish
<1>2. reqs = [x \in Requests |-> reqs[x]] /\ \A x \in Requests : DOMAIN reqs[x] = Fields
  BY DEF HistoryInv, Records
<1>3. /\ reqs' = [x \in Requests |-> IF x = r THEN [reqs[r] EXCEPT !.pending = @ \ {effect}] ELSE reqs[x]]
  BY <1>1, <1>2
<1>4. /\ Records'
      /\ \A x \in Requests : reqs'[x].stage = reqs[x].stage /\ reqs'[x].outer = reqs[x].outer
      /\ \A x \in Requests \ {r} : reqs'[x] = reqs[x]
  BY <1>2, <1>3 DEF Records, Fields
<1>5. ~At(r, "idle")
  BY <1>1 DEF HistoryInv, ReadInOrder
<1>6. ReadInOrder'
  <2> SUFFICES ASSUME NEW x \in Requests
               PROVE  /\ reqs'[x].stage = "idle" => reqs'[x].pending = {}
                      /\ reqs'[x].stage # "idle" =>
                            /\ {"request_time", "served_history"} \subseteq DOMAIN reqs'[x].outer
                            /\ reqs'[x].outer.request_time \in Nat
                            /\ NewestFirst(reqs'[x].outer.served_history, landed')
    BY DEF ReadInOrder, At
  <2>1. reqs[x].stage = "idle" => x # r /\ reqs[x].pending = {}
    BY <1>5 DEF HistoryInv, ReadInOrder, At
  <2>2. reqs[x].stage # "idle" =>
            /\ {"request_time", "served_history"} \subseteq DOMAIN reqs[x].outer
            /\ reqs[x].outer.request_time \in Nat
            /\ NewestFirst(reqs[x].outer.served_history, landed)
    BY DEF HistoryInv, ReadInOrder, At
  <2> QED BY <1>4, <2>1, <2>2, NewestFirstGrows
<1> QED BY <1>1, <1>4, <1>5, <1>6 DEF HistoryInv, ReadInOrder

\* A response is recorded under the time of its request.
LEMMA RecordServedKeeps ==
    ASSUME HistoryInv, NEW r \in Requests, RecordServed(r)
    PROVE  HistoryInv'
<1> DEFINE t == reqs[r].outer.request_time
<1>1. \/ UNCHANGED <<history, landed>>
      \/ DOMAIN history' = {t} \cup DOMAIN history /\ landed' = landed \cup {t}
  <2>1. CASE Fails(Faults(r), "history_put", 0) \/ ServedEntries(reqs[r].items) = <<>>
    BY <2>1 DEF RecordServed
  <2>2. CASE ~(Fails(Faults(r), "history_put", 0) \/ ServedEntries(reqs[r].items) = <<>>)
    <3>1. /\ history' = Over([u \in {t} |-> ServedEntries(reqs[r].items)], history)
          /\ landed' = landed \cup {t}
      BY <2>2 DEF RecordServed, UpdateServedHistory
    <3> QED BY <3>1 DEF Over
  <2> QED BY <2>1, <2>2
<1>2. landed \subseteq landed' /\ DOMAIN history \subseteq DOMAIN history'
  BY <1>1
<1>3. /\ Records' /\ ReadInOrder' /\ now' = now /\ t \in Nat
  BY <1>2, EffectKeeps DEF RecordServed
<1> HIDE DEF t
<1>4. Recorded'
  <2>1. IsFiniteSet(landed \cup {t})
    BY FS_AddElement DEF HistoryInv, Recorded
  <2> QED BY <1>1, <1>3, <2>1 DEF HistoryInv, Recorded
<1>5. KeepsNewestHistory'
  <2> SUFFICES ASSUME NEW u \in landed', Cardinality({v \in landed' : v > u}) < Limits.history
               PROVE  u \in DOMAIN history'
    BY DEF KeepsNewestHistory
  <2>1. CASE u \in landed
    <3> DEFINE before == {v \in landed : v > u}
               after == {v \in landed' : v > u}
    <3>1. IsFiniteSet(after) /\ before \subseteq after
      BY <1>2, <1>4, FS_Subset DEF Recorded
    <3>2. /\ Cardinality(before) \in Nat /\ Cardinality(after) \in Nat
          /\ Cardinality(before) <= Cardinality(after)
      BY <3>1, FS_Subset, FS_CardinalityType
    <3>3. Limits.history \in Nat
      BY LimitsAssumption
    <3>4. Cardinality(before) < Limits.history
      BY <3>2, <3>3
    <3> QED BY <1>2, <2>1, <3>4 DEF HistoryInv, KeepsNewestHistory
  <2>2. CASE u \notin landed
    BY <1>1, <2>2
  <2> QED BY <2>1, <2>2
<1> QED BY <1>3, <1>4, <1>5 DEF HistoryInv

\* The heart of the matter: what is deleted was, when it was read, behind as many
\* newer responses as the history keeps, and these are recorded.
LEMMA ForgetServedKeeps ==
    ASSUME HistoryInv, NEW r \in Requests, ForgetServed(r)
    PROVE  HistoryInv'
<1> DEFINE h == reqs[r].outer.served_history
           old == {e.time : e \in Range1(Skip(h, Limits.history))}
<1>1. landed' = landed /\ (DOMAIN history' = DOMAIN history \/ DOMAIN history' = DOMAIN history \ old)
  BY DEF ForgetServed, TruncateServedHistory
<1>2. Records' /\ ReadInOrder' /\ ~At(r, "idle") /\ now' = now
  BY <1>1, EffectKeeps DEF ForgetServed
<1>3. Recorded'
  BY <1>1, <1>2 DEF HistoryInv, Recorded
<1>4. Limits.history \in Nat /\ NewestFirst(h, landed)
  BY <1>2, LimitsAssumption DEF HistoryInv, ReadInOrder
<1> HIDE DEF h
<1>5. \A t \in old : ~(Cardinality({u \in landed : u > t}) < Limits.history)
  <2> SUFFICES ASSUME NEW e \in Range1(Skip(h, Limits.history))
               PROVE  ~(Cardinality({u \in landed : u > e.time}) < Limits.history)
    OBVIOUS
  <2> QED BY <1>4, SkippedAreOld DEF HistoryInv, Recorded
<1> HIDE DEF old
<1>6. KeepsNewestHistory'
  BY <1>1, <1>5 DEF HistoryInv, KeepsNewestHistory
<1> QED BY <1>2, <1>3, <1>6 DEF HistoryInv

\* The other effects write to other stores.
LEMMA OtherEffectsKeep ==
    ASSUME HistoryInv, NEW r \in Requests, CachePosts(r) \/ StampRequest(r)
    PROVE  HistoryInv'
<1>1. /\ \E effect : Finishes(r, effect)
      /\ history' = history /\ landed' = landed
  BY DEF CachePosts, StampRequest
<1>2. Records' /\ ReadInOrder' /\ now' = now
  BY <1>1, EffectKeeps
<1> QED BY <1>1, <1>2 DEF HistoryInv, Recorded, KeepsNewestHistory

\* The past of the viewer is in the history.
LEMMA InitialHistory ==
    ASSUME Init
    PROVE  HistoryInv
<1>1. Records
  BY DEF Init, Idle, Records, Fields
<1>2. ReadInOrder
  BY DEF Init, Idle, ReadInOrder, At
<1>3. KeepsNewestHistory
  BY DEF Init, KeepsNewestHistory
<1>4. now \in Nat
  <2> DEFINE S == DOMAIN Past \cup {0}
  <2>1. S \subseteq Int /\ S \subseteq Nat /\ IsFiniteSet(S) /\ S # {}
    BY RequestsAssumption, FS_AddElement
  <2> HIDE DEF S
  <2>2. \E t \in S : \A u \in S : u <= t
    <3>1. Max(S) \in S /\ \A u \in S : Max(S) >= u
      BY <2>1, Largest
    <3> QED BY <2>1, <3>1
  <2>3. \E t \in S : \A u \in DOMAIN Past : u <= t
    BY <2>2 DEF S
  <2>4. now \in S
    BY <2>3 DEF Init, S
  <2> QED BY <2>1, <2>4
<1>5. Recorded
  BY <1>4, RequestsAssumption DEF Init, Recorded
<1> QED BY <1>1, <1>2, <1>3, <1>5 DEF HistoryInv

\* Every step keeps the invariant.
LEMMA HistoryGoesOn ==
    ASSUME HistoryInv, [Next]_vars
    PROVE  HistoryInv'
<1>1. CASE UNCHANGED vars
  BY <1>1 DEF vars, HistoryInv, Records, Recorded, ReadInOrder, At, KeepsNewestHistory
<1>2. ASSUME NEW r \in Requests, Build(r) \/ Stage(r) \/ Effect(r) PROVE HistoryInv'
  BY <1>2, BuildKeeps, HydrateForYouKeeps, StagesKeep, RecordServedKeeps, ForgetServedKeeps,
     OtherEffectsKeep DEF Stage, Effect
<1> QED BY <1>1, <1>2 DEF Next

\* The newest responses recorded are all in the history, as many as it keeps:
\* what a request deletes was already behind that many when it read it.
THEOREM NewestHistoryKept == Spec => []KeepsNewestHistory
<1>1. Init => HistoryInv
  BY InitialHistory
<1>2. HistoryInv /\ [Next]_vars => HistoryInv'
  BY HistoryGoesOn
<1>3. HistoryInv => KeepsNewestHistory
  BY DEF HistoryInv
<1> QED BY <1>1, <1>2, <1>3, PTL DEF Spec

(* ---------- Candidates through hydrators, sources, scorers and selectors  *)

(* What the scorers and the selector make of the candidates *)

\* Offsets and diversity multipliers are numbers, for all weights.
LEMMA Weighing ==
    ASSUME NEW w \in Weights
    PROVE  /\ \A n \in Int : OffsetScore(n, w) \in Int
           /\ \A position \in Nat : DiversityMultiplier(w, position) \in Int
<1>1. /\ w.total \in Nat /\ w.negative \in Int /\ w.offset \in Int /\ w.floor \in Int /\ w.decay \in Nat
  BY DEF Weights
<1>2. ASSUME NEW n \in Int PROVE OffsetScore(n, w) \in Int
  <2>1. Greatest(n, 0) \in Int
    BY DEF Greatest
  <2>2. ((n + w.negative) * w.offset) \in Int /\ n + w.offset \in Int
    BY <1>1
  <2>3. w.total # 0 => ((n + w.negative) * w.offset) \div w.total \in Int
    <3> DEFINE a == (n + w.negative) * w.offset
    <3>1. a \in Int
      BY <2>2
    <3> HIDE DEF a
    <3>2. w.total # 0 => w.total > 0
      BY <1>1
    <3>3. w.total # 0 => a \div w.total \in Int
      BY <1>1, <3>1, <3>2
    <3> QED BY <3>3 DEF a
  <2> QED BY <2>1, <2>2, <2>3 DEF OffsetScore
<1>3. ASSUME NEW position \in Nat PROVE DiversityMultiplier(w, position) \in Int
  <2> DEFINE a == Power(w.decay, position)
             b == Power(100, position)
  <2>1. a \in Nat /\ b \in Nat /\ b # 0
    <3>1. a \in Nat
      BY <1>1, PowerType
    <3>2. 100 \in Nat /\ 100 # 0
      OBVIOUS
    <3>3. b \in Nat /\ b # 0
      BY <3>2, PowerType
    <3> QED BY <3>1, <3>3
  <2> HIDE DEF a, b
  <2>2. (100 - w.floor) * a \in Int
    BY <1>1, <2>1
  <2> DEFINE c == (100 - w.floor) * a
  <2> HIDE DEF c
  <2>3. c \div b \in Int
    BY <2>1, <2>2 DEF c
  <2>4. c \div b + w.floor \in Int
    BY <1>1, <2>3
  <2> QED BY <2>4 DEF DiversityMultiplier, a, b, c
<1> QED BY <1>2, <1>3

\* The three scorers write scores that are numbers, and only this prediction.
LEMMA Scored ==
    ASSUME NEW q, q.params.weights \in Weights, NEW faults, NEW time, NEW cs, Listed(cs), NEW p
    PROVE  /\ Listed(Score(q, faults, time, cs))
           /\ (Fresh(q) => p = q.prediction) /\ Candidates(p, cs)
                 => /\ Candidates(p, Score(q, faults, time, cs))
                    /\ SamePosts(cs, Score(q, faults, time, cs))
<1> DEFINE first == PhoenixScorer(q, faults, time, cs)
           predicted == UpdateAll(cs, first)
           second == RankingScorer(q, predicted)
           ranked == UpdateAll(predicted, second)
           third == VMRanker(q, faults, ranked)
           n == Len(cs)
<1>1. Score(q, faults, time, cs) = UpdateAll(ranked, third)
  BY DEF Score
<1> HIDE DEF first, second, third
<1>2. Listed(predicted) /\ Len(predicted) = n /\ n \in Nat
  BY Updated DEF Listed
<1> HIDE DEF predicted
<1>3. Listed(ranked) /\ Len(ranked) = n
  BY <1>2, Updated
<1> HIDE DEF ranked
<1>4. Listed(UpdateAll(ranked, third))
  BY <1>3, Updated
<1>5. SUFFICES ASSUME Fresh(q) => p = q.prediction, Candidates(p, cs)
               PROVE  Candidates(p, UpdateAll(ranked, third)) /\ SamePosts(cs, UpdateAll(ranked, third))
  BY <1>1, <1>4
<1>6. Scores(p, <<>>) /\ \A e : Scores(p, e) => Scores(p, Get(Some(e), <<>>)) /\ Scores(p, Get(None, <<>>))
  <2>1. DOMAIN <<>> = {}
    OBVIOUS
  <2>2. Scores(p, <<>>)
    BY <2>1 DEF Scores
  <2> QED BY <2>2, Gets
<1>7. \A i \in 1 .. n : Scores(p, Get(first[i], <<>>))
  <2> SUFFICES ASSUME NEW i \in 1 .. n PROVE Scores(p, Get(first[i], <<>>))
    OBVIOUS
  <2> DEFINE has == q.scoring_sequence # None
             relevance == Post(OriginalTweetId(cs[i])).relevance
             e == [phoenix_score |-> IF has THEN Some(relevance) ELSE None,
                   prediction |-> IF has THEN Some(q.prediction) ELSE None,
                   last_scored_at |-> IF has THEN Some(time) ELSE None]
  <2>1. first[i] = None \/ (first[i] = Some(e) /\ p = q.prediction)
    BY <1>5 DEF first, PhoenixScorer, HydrateEach, MapSeq
  <2>2. OriginalTweetId(cs[i]) \in DOMAIN World.posts
    <3>1. cs[i].tweet_id \in DOMAIN World.posts /\ cs[i].retweeted_id \in Maybe(DOMAIN World.posts)
      BY <1>5 DEF Candidates, Candidate
    <3> QED BY <3>1, Gets DEF OriginalTweetId, Maybe
  <2>3. relevance \in Int
    BY <2>2, WorldAssumption DEF Post
  <2> HIDE DEF relevance, has
  <2>4. CASE p = q.prediction
    <3> SUFFICES Scores(p, e)
      BY <1>6, <2>1, Gets
    <3>1. Some(relevance) \in Maybe(Int) /\ None \in Maybe(Int)
      BY <2>3, MaybeInt
    <3>2. e.phoenix_score \in Maybe(Int) /\ e.prediction \in {None, Some(p)}
      BY <2>4, <3>1
    <3>3. DOMAIN e = {"phoenix_score", "prediction", "last_scored_at"}
      OBVIOUS
    <3> HIDE DEF e
    <3> QED BY <3>2, <3>3 DEF Scores
  <2> HIDE DEF e
  <2> QED BY <1>6, <2>1, <2>4, Gets
<1>8. Candidates(p, predicted) /\ SamePosts(cs, predicted)
  BY <1>5, <1>7, ScoringKeeps DEF predicted
<1>9. \A i \in 1 .. n : Scores(p, Get(second[i], <<>>))
  <2> DEFINE w == q.params.weights
             weighted == MapSeq(predicted, LAMBDA c : OffsetScore(Get(c.phoenix_score, 0), w))
             position(i) == AuthorPosition(weighted, predicted, i)
             diverse == [i \in 1 .. n |-> weighted[i] * DiversityMultiplier(w, position(i))]
             Factor(c) == IF c.in_network = Some(FALSE) THEN EffectiveOonWeight(q) ELSE 100
             e(i) == [weighted |-> Some(weighted[i]), score |-> Some(diverse[i] * Factor(predicted[i]))]
  <2>1. second = [i \in 1 .. n |-> Some(e(i))]
    BY <1>2 DEF second, RankingScorer
  <2> SUFFICES ASSUME NEW i \in 1 .. n PROVE Scores(p, Get(second[i], <<>>))
    OBVIOUS
  <2>2. weighted[i] \in Int
    <3>1. weighted[i] = OffsetScore(Get(predicted[i].phoenix_score, 0), w)
      BY <1>2 DEF MapSeq
    <3>2. Get(predicted[i].phoenix_score, 0) \in Int
      BY <1>2, <1>8, MaybeInt DEF Candidates, Candidate
    <3> QED BY <3>1, <3>2, Weighing
  <2>3. position(i) \in Nat
    <3> DEFINE S == {j \in 1 .. Len(predicted) : /\ predicted[j].author_id = predicted[i].author_id
                                    /\ \/ weighted[j] > weighted[i]
                                       \/ weighted[j] = weighted[i] /\ j < i}
    <3>1. position(i) = Cardinality(S)
      BY DEF AuthorPosition
    <3>2. S \subseteq 1 .. n
      BY <1>2
    <3>3. IsFiniteSet(1 .. n)
      BY <1>2, FS_Interval
    <3> HIDE DEF S
    <3> QED BY <3>1, <3>2, <3>3, FS_Subset, FS_CardinalityType
  <2>4. Factor(predicted[i]) \in Int
    <3>1. EffectiveOonWeight(q) \in Int
      BY DEF EffectiveOonWeight, Weights
    <3>2. Factor(predicted[i]) = EffectiveOonWeight(q) \/ Factor(predicted[i]) = 100
      OBVIOUS
    <3> HIDE DEF Factor
    <3> QED BY <3>1, <3>2
  <2>5. DiversityMultiplier(w, position(i)) \in Int
    BY <2>3, Weighing
  <2>6. diverse[i] = weighted[i] * DiversityMultiplier(w, position(i))
    OBVIOUS
  <2> HIDE DEF position, weighted, Factor, diverse
  <2>7. diverse[i] \in Int
    BY <2>2, <2>5, <2>6
  <2>8. diverse[i] * Factor(predicted[i]) \in Int
    BY <2>4, <2>7
  <2>9. Scores(p, e(i))
    BY <2>2, <2>8, MaybeInt DEF Scores
  <2> HIDE DEF e
  <2> QED BY <1>6, <2>1, <2>9
<1>10. Candidates(p, ranked) /\ SamePosts(predicted, ranked)
  BY <1>2, <1>8, <1>9, ScoringKeeps DEF ranked
<1>11. \A i \in 1 .. n : Scores(p, Get(third[i], <<>>))
  <2> SUFFICES ASSUME NEW i \in 1 .. n PROVE Scores(p, Get(third[i], <<>>))
    OBVIOUS
  <2> DEFINE c == ranked[i]
             e == [score |-> IF Fails(faults, "vm_missing", c.tweet_id) THEN c.score
                             ELSE {0 - s : s \in c.score}]
  <2>1. third[i] = None \/ third[i] = Some(e)
    BY <1>3 DEF third, VMRanker, HydrateEach, MapSeq
  <2>2. c.score \in Maybe(Int)
    BY <1>3, <1>10 DEF Candidates, Candidate
  <2> HIDE DEF c
  <2>3. DOMAIN e = {"score"} /\ e.score \in Maybe(Int)
    BY <2>2, MaybeInt
  <2> HIDE DEF e
  <2>4. Scores(p, e)
    BY <2>3 DEF Scores
  <2> QED BY <1>6, <2>1, <2>4, Gets
<1>12. /\ Candidates(p, UpdateAll(ranked, third))
       /\ SamePosts(ranked, UpdateAll(ranked, third))
  BY <1>3, <1>10, <1>11, ScoringKeeps
<1> QED BY <1>8, <1>10, <1>12 DEF SamePosts

(* ---------- The posts in Redis ------------------------------------------ *)

\* The posts are those of a request that ended and worked for itself.
FromOther(rs, key, posts) ==
    /\ Listed(posts)
    /\ \E s \in Requests :
          /\ rs[s].stage \in Ended
          /\ CachedPostsKey(rs[s].query) = key /\ ~rs[s].query.has_cached_posts
          /\ Range1(posts) \subseteq Range1(rs[s].candidates \o rs[s].non_selected)

Asks(q) == QueryFields \subseteq DOMAIN q /\ q.params.weights \in Weights

\* How far a request is, and what it carries by then.
InShape(v) ==
    /\ v.stage # "idle" => Asks(v.query)
    /\ v.stage = "idle" => v.pending = {}
    /\ v.stage = "built" => v.query = v.outer
    /\ v.stage \in {"built", "asked"} => ~v.query.has_cached_posts
    /\ v.stage \in {"fetched", "enriched", "ranked"} \cup Ended => Own(v.query, v.candidates)
    /\ v.stage \in {"ranked"} \cup Ended => Own(v.query, v.non_selected)
    /\ v.stage = "fetched" => /\ DOMAIN v.found = CacheNames
                              /\ \A n \in CacheNames \ {"brand"} : HarmlessCache(v.found[n])
    /\ v.stage = "ranked" => HarmlessCache(v.found.brand)
    /\ "post_cache" \in v.pending => v.stage \in Ended /\ ~v.query.has_cached_posts

Backed(rs, r) ==
    rs[r].stage \notin {"idle", "built", "asked"} /\ rs[r].query.has_cached_posts
        => FromOther(rs, CachedPostsKey(rs[r].query), rs[r].query.cached_posts)

WorkInv ==
    /\ Records
    /\ \A r \in Requests : InShape(reqs[r]) /\ Backed(reqs, r)
    /\ CachesHarmless(caches)
    /\ \A key \in DOMAIN posts_cache : FromOther(reqs, key, posts_cache[key].posts)

\* What ended stays as it is.
Stays(rs, rt) ==
    \A s \in Requests : rs[s].stage \in Ended =>
        /\ rt[s].stage \in Ended /\ rt[s].query = rs[s].query
        /\ rt[s].candidates = rs[s].candidates /\ rt[s].non_selected = rs[s].non_selected

\* Posts stay the work of the request they came from.
LEMMA FromOtherStays ==
    ASSUME NEW rs, NEW rt, Stays(rs, rt), NEW key, NEW posts, FromOther(rs, key, posts)
    PROVE  FromOther(rt, key, posts)
<1>1. PICK s \in Requests :
          /\ rs[s].stage \in Ended
          /\ CachedPostsKey(rs[s].query) = key /\ ~rs[s].query.has_cached_posts
          /\ Range1(posts) \subseteq Range1(rs[s].candidates \o rs[s].non_selected)
  BY DEF FromOther
<1>2. /\ rt[s].stage \in Ended /\ rt[s].query = rs[s].query
      /\ rt[s].candidates = rs[s].candidates /\ rt[s].non_selected = rs[s].non_selected
  BY <1>1 DEF Stays
<1>3. CachedPostsKey(rt[s].query) = key
  BY <1>1, <1>2
<1> QED BY <1>1, <1>2, <1>3 DEF FromOther

\* A step of one request, that touches neither what is in Redis nor what ended.
LEMMA WorkGoesOn ==
    ASSUME WorkInv, NEW r \in Requests, Records',
           \A x \in Requests \ {r} : reqs'[x] = reqs[x],
           Stays(reqs, reqs'), InShape(reqs'[r]), CachesHarmless(caches'),
           posts_cache' = posts_cache,
           reqs'[r].stage \notin {"idle", "built", "asked"} /\ reqs'[r].query.has_cached_posts
               => FromOther(reqs, CachedPostsKey(reqs'[r].query), reqs'[r].query.cached_posts)
    PROVE  WorkInv'
<1>1. \A key, posts : FromOther(reqs, key, posts) => FromOther(reqs', key, posts)
  BY FromOtherStays
<1>2. ASSUME NEW x \in Requests PROVE InShape(reqs'[x]) /\ Backed(reqs', x)
  <2>1. CASE x = r
    BY <1>1, <2>1 DEF Backed
  <2>2. CASE x # r
    BY <1>1, <2>2 DEF Backed, WorkInv
  <2> QED BY <2>1, <2>2
<1>3. \A key \in DOMAIN posts_cache' : FromOther(reqs', key, posts_cache'[key].posts)
  BY <1>1 DEF WorkInv
<1> QED BY <1>2, <1>3 DEF WorkInv

\* What a stage has to show of its own request to keep the invariant.
LEMMA StageWorks ==
    ASSUME WorkInv, NEW r \in Requests, reqs[r].stage \notin Ended,
           NEW change, DOMAIN change \subseteq Fields, Becomes(r, change),
           InShape(reqs'[r]), CachesHarmless(caches'), StoresUnchanged,
           reqs'[r].stage \notin {"idle", "built", "asked"} /\ reqs'[r].query.has_cached_posts
               => FromOther(reqs, CachedPostsKey(reqs'[r].query), reqs'[r].query.cached_posts)
    PROVE  WorkInv'
<1>1. Records' /\ \A x \in Requests \ {r} : reqs'[x] = reqs[x]
  BY BecomesMeans DEF WorkInv
<1>2. Stays(reqs, reqs')
  BY <1>1 DEF Stays
<1>3. posts_cache' = posts_cache
  BY DEF StoresUnchanged
<1> QED BY <1>1, <1>2, <1>3, WorkGoesOn

\* Expiry takes entries away and adds none,
LEMMA LiveHarmless ==
    ASSUME NEW cs, CachesHarmless(cs), NEW t
    PROVE  /\ DOMAIN Live(cs, t) = CacheNames
           /\ \A n \in CacheNames : HarmlessCache(Live(cs, t)[n])
<1> DEFINE brand == [k \in {b \in DOMAIN cs.brand : cs.brand[b].expires > t} |-> cs.brand[k].fields]
<1>1. Live(cs, t) = [cs EXCEPT !.brand = brand]
  BY DEF Live
<1>2. HarmlessCache(brand)
  BY DEF CachesHarmless, HarmlessCache
<1> HIDE DEF brand
<1> QED BY <1>1, <1>2 DEF CachesHarmless, CacheNames

\* A new request carries no candidates.
LEMMA BuildWorks ==
    ASSUME WorkInv, NEW r \in Requests, Build(r)
    PROVE  WorkInv'
<1>1. PICK sc \in Scenarios[r] :
          LET data == FetchViewerData(sc.faults, sc.data)
              query == [NewQuery(sc.request, sc.params, data, now + sc.gap)
                           EXCEPT !.shadow = sc.shadow]
              asked == IF sc.surface = "for_you_urt" THEN UrtQuery(query, sc.request) ELSE query
          IN  /\ now' = now + sc.gap
              /\ Becomes(r, [stage |-> IF sc.surface = "scored_posts" THEN "asked" ELSE "built",
                             scenario |-> sc, outer |-> asked, query |-> asked])
  BY DEF Build
<1> DEFINE data == FetchViewerData(sc.faults, sc.data)
           query == [NewQuery(sc.request, sc.params, data, now + sc.gap)
                        EXCEPT !.shadow = sc.shadow]
           asked == IF sc.surface = "for_you_urt" THEN UrtQuery(query, sc.request) ELSE query
           change == [stage |-> IF sc.surface = "scored_posts" THEN "asked" ELSE "built",
                      scenario |-> sc, outer |-> asked, query |-> asked]
<1>2. At(r, "idle") /\ Becomes(r, change) /\ StoresUnchanged /\ caches' = caches
  BY <1>1 DEF Build
<1>3. QueryFields \subseteq DOMAIN query /\ query.params = sc.params /\ query.has_cached_posts = FALSE
  BY DEF NewQuery, QueryFields
<1> HIDE DEF query
<1>4. QueryFields \subseteq DOMAIN asked /\ asked.params = sc.params /\ asked.has_cached_posts = FALSE
  <2>1. LET u == UrtQuery(query, sc.request)
        IN  DOMAIN u = DOMAIN query /\ u.params = query.params /\ u.has_cached_posts = query.has_cached_posts
    BY DEF UrtQuery
  <2> QED BY <1>3, <2>1
<1>5. Asks(asked)
  BY <1>4, RequestsAssumption DEF Asks
<1> HIDE DEF asked
<1>6. /\ DOMAIN change = {"stage", "scenario", "outer", "query"} /\ change.stage \in {"built", "asked"}
      /\ change.outer = asked /\ change.query = asked
  OBVIOUS
<1> HIDE DEF change
<1>7. DOMAIN change \subseteq Fields
  BY <1>6 DEF Fields
<1>8. /\ reqs'[r].stage \in {"built", "asked"} /\ reqs'[r].outer = asked /\ reqs'[r].query = asked
      /\ reqs'[r].pending = reqs[r].pending
  BY <1>2, <1>6, <1>7, BecomesMeans DEF WorkInv, Fields
<1>9. reqs[r].pending = {} /\ reqs[r].stage \notin Ended
  BY <1>2 DEF WorkInv, InShape, At, Ended
<1>10. InShape(reqs'[r])
  BY <1>4, <1>5, <1>8, <1>9 DEF InShape, Ended
<1>11. CachesHarmless(caches')
  BY <1>2 DEF WorkInv
<1> QED BY <1>2, <1>7, <1>8, <1>9, <1>10, <1>11, StageWorks

\* The For You query learns about the viewer, and knows nothing of cached posts.
LEMMA HydrateForYouWorks ==
    ASSUME WorkInv, HistoryInv, NEW r \in Requests, HydrateForYou(r)
    PROVE  WorkInv'
<1> DEFINE old == reqs[r].outer
           q == HydrateForYouQuery(old, Faults(r), Responses(history), timestamps)
           change == [stage |-> "asked", outer |-> q, query |-> q]
<1>1. At(r, "built") /\ Becomes(r, change) /\ StoresUnchanged /\ caches' = caches
  BY DEF HydrateForYou
<1>2. {"request_time", "served_history"} \subseteq DOMAIN old
  BY <1>1 DEF HistoryInv, ReadInOrder, At
<1>3. Asks(old) /\ ~old.has_cached_posts /\ "post_cache" \notin reqs[r].pending /\ reqs[r].stage \notin Ended
  BY <1>1 DEF WorkInv, InShape, At, Ended
<1>4. /\ DOMAIN q = DOMAIN old
      /\ \A f \in DOMAIN old \ {"served_history", "served_ids", "wtf_eligible", "timestamps"} :
            q[f] = old[f]
  BY <1>2, HistoryHydrated
<1> HIDE DEF q
<1>5. \A f \in QueryFields : f \in DOMAIN q /\ q[f] = old[f]
  BY <1>3, <1>4 DEF Asks, QueryFields
<1>6. Asks(q) /\ ~q.has_cached_posts
  BY <1>3, <1>5 DEF Asks, QueryFields
<1>7. DOMAIN change = {"stage", "outer", "query"} /\ change.stage = "asked" /\ change.query = q
  OBVIOUS
<1> HIDE DEF change
<1>8. DOMAIN change \subseteq Fields
  BY <1>7 DEF Fields
<1>9. reqs'[r].stage = "asked" /\ reqs'[r].query = q /\ reqs'[r].pending = reqs[r].pending
  BY <1>1, <1>7, <1>8, BecomesMeans DEF WorkInv, Fields
<1>10. InShape(reqs'[r])
  BY <1>3, <1>6, <1>9 DEF InShape, Ended
<1>11. CachesHarmless(caches')
  BY <1>1 DEF WorkInv
<1> QED BY <1>1, <1>3, <1>8, <1>9, <1>10, <1>11, StageWorks

\* The hydrators of a Phoenix query bring it what Redis holds, if enough.
LEMMA PhoenixHydrated ==
    ASSUME NEW query, Asks(query), ~query.has_cached_posts, NEW faults, NEW stored
    PROVE  LET q == HydratePhoenixQuery(query, faults, stored)
           IN  /\ Asks(q) /\ q.prediction = query.prediction /\ CachedPostsKey(q) = CachedPostsKey(query)
               /\ DOMAIN q = DOMAIN query
               /\ \A f \in DOMAIN query \ Learned : q[f] = query[f]
               /\ "followed" \in DOMAIN query => q.followed \in {query.followed, World.followed}
               /\ q.has_cached_posts => q.cached_posts = stored /\ Len(stored) >= Limits.min_cached
<1> DEFINE v1 == [scoring_sequence |-> Some("actions")]
           v2 == [retrieval_sequence |-> Some("actions")]
           v3 == [blocked |-> World.blocked]
           v4 == [muted |-> World.muted]
           v5 == [followed |-> World.followed]
           v6 == [subscribed |-> World.subscribed]
           v7 == [cached_posts |-> stored, has_cached_posts |-> Len(stored) >= Limits.min_cached]
           v8 == [bloom |-> World.seen]
           v9 == [new_user_topic_ids |-> IF NewUserTopicIds(query) = {} THEN query.new_user_topic_ids
                                         ELSE NewUserTopicIds(query)]
           answers == <<ScoringSequence(faults), RetrievalSequence(faults), BlockedUserIds(faults),
                        MutedUserIds(faults), FollowedUserIds(faults), SubscribedUserIds(faults),
                        CachedPosts(query, faults, stored), ImpressionBloomFilter(faults),
                        FollowedGrokTopics(query, faults)>>
           q == HydratePhoenixQuery(query, faults, stored)
           New == {"scoring_sequence", "retrieval_sequence", "blocked", "muted", "followed",
                   "subscribed", "bloom", "new_user_topic_ids"}
<1>1. \A call, value : Get(Answered(faults, call, value), <<>>) \in {<<>>, value}
  BY DEF Get, Answered, AnsweredFor, None, Some
<1>2. /\ Get(answers[1], <<>>) \in {<<>>, v1} /\ Get(answers[2], <<>>) \in {<<>>, v2}
      /\ Get(answers[3], <<>>) \in {<<>>, v3} /\ Get(answers[4], <<>>) \in {<<>>, v4}
      /\ Get(answers[5], <<>>) \in {<<>>, v5} /\ Get(answers[6], <<>>) \in {<<>>, v6}
      /\ Get(answers[8], <<>>) \in {<<>>, v8}
  BY <1>1 DEF ScoringSequence, RetrievalSequence, BlockedUserIds, MutedUserIds, FollowedUserIds,
              SubscribedUserIds, ImpressionBloomFilter
<1>3. Get(answers[7], <<>>) \in {<<>>, v7}
  <2>1. answers[7] = When(query.params.cached, Answered(faults, "redis_get", v7))
    BY DEF CachedPosts
  <2> HIDE DEF answers, v7
  <2> QED BY <2>1, Answers
<1>4. Get(answers[9], <<>>) \in {<<>>, v9}
  <2>1. answers[9] = When(\/ query.params.context \/ query.shadow
                          \/ query.params.new_user_retrieval \/ query.params.new_user_filtering,
                          Answered(faults, "followed_topics", v9))
    BY DEF FollowedGrokTopics
  <2> HIDE DEF answers, v9
  <2> QED BY <2>1, Answers
<1>5. q = Merged(query, answers)
  BY DEF HydratePhoenixQuery, HydrateQuery
<1>6. DOMAIN answers = 1 .. 9
  OBVIOUS
<1> HIDE DEF answers, q
<1>7. /\ DOMAIN v1 \subseteq New /\ DOMAIN v2 \subseteq New /\ DOMAIN v3 \subseteq New
      /\ DOMAIN v4 \subseteq New /\ DOMAIN v5 \subseteq New /\ DOMAIN v6 \subseteq New
      /\ DOMAIN v8 \subseteq New /\ DOMAIN v9 \subseteq New /\ DOMAIN <<>> \subseteq New
  OBVIOUS
<1>8. DOMAIN v7 = {"cached_posts", "has_cached_posts"}
      /\ v7.cached_posts = stored /\ v7.has_cached_posts = (Len(stored) >= Limits.min_cached)
  OBVIOUS
<1>20. /\ \A v \in {v1, v2, v3, v4, v6, v7, v8, v9, <<>>} : "followed" \notin DOMAIN v
       /\ v5.followed = World.followed
  OBVIOUS
<1> HIDE DEF v1, v2, v3, v4, v5, v6, v7, v8, v9
<1>9. \A i \in 1 .. 9 : i # 7 => DOMAIN Get(answers[i], <<>>) \subseteq New
  BY <1>2, <1>4, <1>7
<1>10. Get(answers[7], <<>>) = <<>> \/ Get(answers[7], <<>>) = v7
  BY <1>3
<1>11. DOMAIN answers \subseteq Int /\ IsFiniteSet(DOMAIN answers)
  <2>1. \A k \in Nat : IsFiniteSet(1 .. k)
    BY FS_Interval
  <2>2. IsFiniteSet(1 .. 9)
    BY <2>1
  <2>3. 1 .. 9 \subseteq Int
    OBVIOUS
  <2> QED BY <1>6, <2>2, <2>3
<1>12. DOMAIN q = DOMAIN query
  <2>1. "params" \in DOMAIN query
    BY DEF Asks, QueryFields
  <2> QED BY <1>5, <1>11, <2>1, MergedField
<1>13. ASSUME NEW f \in DOMAIN query \ Learned
       PROVE  q[f] = query[f]
  <2>1. \A i \in DOMAIN answers : f \notin DOMAIN Get(answers[i], <<>>)
    <3> SUFFICES ASSUME NEW i \in 1 .. 9 PROVE f \notin DOMAIN Get(answers[i], <<>>)
      BY <1>6
    <3>1. CASE i = 7
      BY <1>7, <1>8, <1>10, <3>1 DEF Learned
    <3>2. CASE i # 7
      BY <1>9, <3>2 DEF Learned
    <3> QED BY <3>1, <3>2
  <2> QED BY <1>5, <1>11, <2>1, MergedField
<1>18. {"params", "prediction", "topic_ids", "in_network_only", "exclude_videos"} \subseteq DOMAIN query \ Learned
  BY DEF Asks, QueryFields, Learned
<1>19. ASSUME "followed" \in DOMAIN query PROVE q.followed \in {query.followed, World.followed}
  <2>1. \A i \in DOMAIN answers : "followed" \in DOMAIN Get(answers[i], <<>>)
                                    => Get(answers[i], <<>>).followed = World.followed
    <3> SUFFICES ASSUME NEW i \in 1 .. 9, "followed" \in DOMAIN Get(answers[i], <<>>)
                 PROVE  Get(answers[i], <<>>).followed = World.followed
      BY <1>6
    <3>1. i = 5
      BY <1>2, <1>4, <1>10, <1>20
    <3> QED BY <1>2, <1>20, <3>1
  <2> QED BY <1>5, <1>11, <1>19, <2>1, MergedField
<1>14. ASSUME NEW f \in {"cached_posts", "has_cached_posts"}
       PROVE  \/ Get(answers[7], <<>>) = <<>> /\ q[f] = query[f]
              \/ Get(answers[7], <<>>) = v7 /\ q[f] = v7[f]
  <2>1. f \in DOMAIN query
    BY DEF Asks, QueryFields
  <2>2. \A i \in 1 .. 9 : f \in DOMAIN Get(answers[i], <<>>) => i = 7 /\ Get(answers[7], <<>>) = v7
    <3> SUFFICES ASSUME NEW i \in 1 .. 9, f \in DOMAIN Get(answers[i], <<>>)
                 PROVE  i = 7 /\ Get(answers[7], <<>>) = v7
      OBVIOUS
    <3>1. i = 7
      BY <1>9
    <3>2. Get(answers[7], <<>>) # <<>>
      BY <1>7, <3>1
    <3> QED BY <1>10, <3>1, <3>2
  <2>3. CASE \A i \in DOMAIN answers : f \notin DOMAIN Get(answers[i], <<>>)
    <3>1. f \notin DOMAIN Get(answers[7], <<>>)
      <4>1. 7 \in DOMAIN answers
        BY <1>6
      <4> QED BY <2>3, <4>1
    <3>2. Get(answers[7], <<>>) = <<>>
      BY <1>8, <1>10, <3>1
    <3>3. q[f] = query[f]
      BY <1>5, <1>11, <2>1, <2>3, MergedField
    <3> QED BY <3>2, <3>3
  <2>4. CASE \E i \in DOMAIN answers : f \in DOMAIN Get(answers[i], <<>>)
    <3>1. PICK i \in DOMAIN answers : /\ f \in DOMAIN Get(answers[i], <<>>)
                                      /\ q[f] = Get(answers[i], <<>>)[f]
      BY <1>5, <1>11, <2>1, <2>4, MergedField
    <3>2. i = 7 /\ Get(answers[7], <<>>) = v7
      BY <1>6, <2>2, <3>1
    <3> QED BY <3>1, <3>2
  <2> QED BY <2>3, <2>4
<1>15. Asks(q)
  BY <1>12, <1>13, <1>18 DEF Asks
<1>16. q.has_cached_posts => q.cached_posts = stored /\ Len(stored) >= Limits.min_cached
  <2> SUFFICES ASSUME q.has_cached_posts
               PROVE  q.cached_posts = stored /\ Len(stored) >= Limits.min_cached
    OBVIOUS
  <2>1. Get(answers[7], <<>>) = v7 /\ q.has_cached_posts = v7.has_cached_posts
    BY <1>14
  <2>2. v7 # <<>>
    BY <1>7, <1>8
  <2>3. q.cached_posts = v7.cached_posts
    BY <1>14, <2>1, <2>2
  <2> QED BY <1>8, <2>1, <2>3
<1>17. CachedPostsKey(q) = CachedPostsKey(query)
  BY <1>13, <1>18 DEF CachedPostsKey
<1> QED BY <1>12, <1>13, <1>15, <1>16, <1>17, <1>18, <1>19 DEF q

\* Only here a request may come by cached posts: those under its key.
LEMMA HydratePhoenixWorks ==
    ASSUME WorkInv, NEW r \in Requests, HydratePhoenix(r)
    PROVE  WorkInv'
<1> DEFINE old == reqs[r].query
           stored == Stored(CachedPostsKey(old))
           q == HydratePhoenixQuery(old, Faults(r), stored)
           change == [stage |-> "hydrated", query |-> q]
<1>1. At(r, "asked") /\ Becomes(r, change) /\ StoresUnchanged /\ caches' = caches
  BY DEF HydratePhoenix
<1>2. Asks(old) /\ ~old.has_cached_posts /\ "post_cache" \notin reqs[r].pending /\ reqs[r].stage \notin Ended
  BY <1>1 DEF WorkInv, InShape, At, Ended
<1>3. /\ Asks(q) /\ CachedPostsKey(q) = CachedPostsKey(old)
      /\ q.has_cached_posts => q.cached_posts = stored /\ Len(stored) >= Limits.min_cached
  BY <1>2, PhoenixHydrated
<1> HIDE DEF q
<1>4. q.has_cached_posts => FromOther(reqs, CachedPostsKey(q), q.cached_posts)
  <2> SUFFICES ASSUME q.has_cached_posts PROVE FromOther(reqs, CachedPostsKey(old), stored)
    BY <1>3
  <2>1. Limits.min_cached \in Nat /\ Limits.min_cached > 0
    BY LimitsAssumption
  <2>2. stored # <<>>
    BY <1>3, <2>1
  <2> QED BY <2>2 DEF Stored, WorkInv
<1>5. DOMAIN change = {"stage", "query"} /\ change.stage = "hydrated" /\ change.query = q
  OBVIOUS
<1> HIDE DEF change
<1>6. DOMAIN change \subseteq Fields
  BY <1>5 DEF Fields
<1>7. reqs'[r].stage = "hydrated" /\ reqs'[r].query = q /\ reqs'[r].pending = reqs[r].pending
  BY <1>1, <1>5, <1>6, BecomesMeans DEF WorkInv, Fields
<1>8. InShape(reqs'[r])
  BY <1>2, <1>3, <1>7 DEF InShape, Ended
<1>9. CachesHarmless(caches')
  BY <1>1 DEF WorkInv
<1> QED BY <1>1, <1>2, <1>4, <1>6, <1>7, <1>8, <1>9, StageWorks

\* What the sources bring is the request's own, or all from the cache.
LEMMA FetchWorks ==
    ASSUME WorkInv, NEW r \in Requests, Fetch(r)
    PROVE  WorkInv'
<1> DEFINE old == reqs[r].query
           q == [old EXCEPT !.network_replies = NetworkReplies(old, Faults(r))]
           cs == PhoenixCandidatesOf(old, Faults(r), now)
           live == Live(caches, now)
           change == [stage |-> "fetched", candidates |-> cs, query |-> q, found |-> live]
<1>1. At(r, "hydrated") /\ Becomes(r, change) /\ StoresUnchanged /\ caches' = caches
  BY DEF Fetch
<1>2. Asks(old) /\ "post_cache" \notin reqs[r].pending /\ reqs[r].stage \notin Ended
  BY <1>1 DEF WorkInv, InShape, At, Ended
<1>3. old.has_cached_posts => FromOther(reqs, CachedPostsKey(old), old.cached_posts)
  BY <1>1 DEF WorkInv, Backed, At
<1>4. \A f \in QueryFields : f \in DOMAIN q /\ q[f] = old[f]
  BY <1>2 DEF Asks, QueryFields
<1> HIDE DEF q
<1>5. /\ Asks(q) /\ q.has_cached_posts = old.has_cached_posts /\ q.prediction = old.prediction
      /\ q.cached_posts = old.cached_posts /\ CachedPostsKey(q) = CachedPostsKey(old)
  BY <1>2, <1>4 DEF Asks, QueryFields, CachedPostsKey
<1>6. Own(q, cs)
  <2>1. old.has_cached_posts => Listed(old.cached_posts)
    BY <1>3 DEF FromOther
  <2>2. Listed(cs) /\ (~old.has_cached_posts => Candidates(old.prediction, cs))
    BY <2>1, Fetched DEF NewCandidates
  <2> HIDE DEF cs
  <2> QED BY <1>5, <2>2 DEF Own
<1>7. CachesHarmless(caches') /\ DOMAIN live = CacheNames /\ \A n \in CacheNames : HarmlessCache(live[n])
  BY <1>1, LiveHarmless DEF WorkInv
<1> HIDE DEF cs, live
<1>8. /\ DOMAIN change = {"stage", "candidates", "query", "found"} /\ change.stage = "fetched"
      /\ change.candidates = cs /\ change.query = q /\ change.found = live
  OBVIOUS
<1> HIDE DEF change
<1>9. DOMAIN change \subseteq Fields
  BY <1>8 DEF Fields
<1>10. /\ reqs'[r].stage = "fetched" /\ reqs'[r].query = q /\ reqs'[r].candidates = cs
       /\ reqs'[r].found = live /\ reqs'[r].pending = reqs[r].pending
  BY <1>1, <1>8, <1>9, BecomesMeans DEF WorkInv, Fields
<1>11. InShape(reqs'[r])
  BY <1>2, <1>5, <1>6, <1>7, <1>10 DEF InShape, Ended
<1>12. reqs'[r].query.has_cached_posts => FromOther(reqs, CachedPostsKey(reqs'[r].query), reqs'[r].query.cached_posts)
  BY <1>3, <1>5, <1>10
<1> QED BY <1>1, <1>2, <1>7, <1>9, <1>11, <1>12, StageWorks

\* Hydration keeps candidates and caches,
LEMMA HydrateWorks ==
    ASSUME WorkInv, NEW r \in Requests, Hydrate(r)
    PROVE  WorkInv'
<1> DEFINE q == reqs[r].query
           cs == reqs[r].candidates
           h == HydrateCandidates(q, Faults(r), cs, reqs[r].found)
           change == [stage |-> "enriched", found |-> NoCaches,
                      candidates |-> h.candidates, retrieved |-> Ids(h.candidates)]
<1>1. At(r, "fetched") /\ Becomes(r, change) /\ StoresUnchanged /\ caches' = Inserted(caches, h.inserts)
  BY DEF Hydrate
<1>2. /\ Asks(q) /\ Own(q, cs) /\ "post_cache" \notin reqs[r].pending /\ reqs[r].stage \notin Ended
      /\ DOMAIN reqs[r].found = CacheNames
      /\ \A n \in CacheNames \ {"brand"} : HarmlessCache(reqs[r].found[n])
  BY <1>1 DEF WorkInv, InShape, At, Ended
<1>3. q.has_cached_posts => FromOther(reqs, CachedPostsKey(q), q.cached_posts)
  BY <1>1 DEF WorkInv, Backed, At
<1>4. /\ Listed(h.candidates) /\ (Candidates(q.prediction, cs) => Candidates(q.prediction, h.candidates))
      /\ DOMAIN h.inserts = CacheNames /\ \A n \in CacheNames : HarmlessCache(h.inserts[n])
      /\ h.inserts.brand = <<>>
  <2> DEFINE found == reqs[r].found
             p == q.prediction
  <2>1. /\ Listed(cs) /\ DOMAIN found = CacheNames
        /\ \A n \in CacheNames \ {"brand"} : HarmlessCache(found[n])
    BY <1>2 DEF Own
  <2> HIDE DEF found, cs, p, q
  <2> QED BY <2>1, StageAnswers DEF found, p
<1> HIDE DEF h
<1>5. Own(q, h.candidates)
  BY <1>2, <1>4 DEF Own
<1>6. CachesHarmless(caches')
  <2>1. CachesHarmless(h.inserts)
    BY <1>4 DEF CachesHarmless
  <2> QED BY <1>1, <2>1, InsertsHarmless DEF WorkInv
<1>7. /\ DOMAIN change = {"stage", "found", "candidates", "retrieved"} /\ change.stage = "enriched"
      /\ change.candidates = h.candidates
  OBVIOUS
<1> HIDE DEF change
<1>8. DOMAIN change \subseteq Fields
  BY <1>7 DEF Fields
<1>9. /\ reqs'[r].stage = "enriched" /\ reqs'[r].query = q /\ reqs'[r].candidates = h.candidates
      /\ reqs'[r].pending = reqs[r].pending
  BY <1>1, <1>7, <1>8, BecomesMeans DEF WorkInv, Fields
<1>10. InShape(reqs'[r])
  BY <1>2, <1>5, <1>9 DEF InShape, Ended
<1>11. reqs'[r].query.has_cached_posts => FromOther(reqs, CachedPostsKey(reqs'[r].query), reqs'[r].query.cached_posts)
  BY <1>3, <1>9
<1> QED BY <1>1, <1>2, <1>6, <1>8, <1>10, <1>11, StageWorks

\* and so do filters, scorers and the selector,
LEMMA RankWorks ==
    ASSUME WorkInv, NEW r \in Requests, Rank(r)
    PROVE  WorkInv'
<1> DEFINE q == reqs[r].query
           cs == reqs[r].candidates
           f == Filter(q, now, cs)
           scored == Score(q, Faults(r), now, f.kept)
           s == TopK(scored)
           live == Live(caches, now)
           change == [stage |-> "ranked", candidates |-> s.selected,
                      shortlist |-> Ids(s.selected),
                      non_selected |-> s.non_selected, filtered |-> f.removed,
                      found |-> live]
           p == q.prediction
<1>1. At(r, "enriched") /\ Becomes(r, change) /\ StoresUnchanged /\ caches' = caches
  BY DEF Rank
<1>2. Asks(q) /\ Own(q, cs) /\ "post_cache" \notin reqs[r].pending /\ reqs[r].stage \notin Ended
  BY <1>1 DEF WorkInv, InShape, At, Ended
<1>3. q.has_cached_posts => FromOther(reqs, CachedPostsKey(q), q.cached_posts)
  BY <1>1 DEF WorkInv, Backed, At
<1>4. Listed(f.kept) /\ (Candidates(p, cs) => Candidates(p, f.kept))
  BY <1>2, FilterKeeps DEF Own
<1> HIDE DEF f
<1>5. Listed(scored) /\ (Fresh(q) /\ Candidates(p, f.kept) => Candidates(p, scored))
  BY <1>2, <1>4, Scored DEF Asks
<1> HIDE DEF scored
<1>6. /\ Listed(s.selected) /\ Listed(s.non_selected)
      /\ Candidates(p, scored) => Candidates(p, s.selected) /\ Candidates(p, s.non_selected)
  BY <1>5, Chosen
<1> HIDE DEF s
<1>7. Own(q, s.selected) /\ Own(q, s.non_selected)
  BY <1>2, <1>4, <1>5, <1>6 DEF Own, Fresh
<1>8. CachesHarmless(caches') /\ HarmlessCache(live.brand)
  <2>1. "brand" \in CacheNames
    BY DEF CacheNames
  <2> QED BY <1>1, <2>1, LiveHarmless DEF WorkInv
<1> HIDE DEF live
<1>9. /\ DOMAIN change = {"stage", "candidates", "shortlist", "non_selected", "filtered", "found"}
      /\ change.stage = "ranked" /\ change.candidates = s.selected
      /\ change.non_selected = s.non_selected /\ change.found = live
  OBVIOUS
<1> HIDE DEF change
<1>10. DOMAIN change \subseteq Fields
  BY <1>9 DEF Fields
<1>11. /\ reqs'[r].stage = "ranked" /\ reqs'[r].query = q /\ reqs'[r].candidates = s.selected
       /\ reqs'[r].non_selected = s.non_selected /\ reqs'[r].found = live
       /\ reqs'[r].pending = reqs[r].pending
  BY <1>1, <1>9, <1>10, BecomesMeans DEF WorkInv, Fields
<1>12. InShape(reqs'[r])
  BY <1>2, <1>7, <1>8, <1>11 DEF InShape, Ended
<1>13. reqs'[r].query.has_cached_posts => FromOther(reqs, CachedPostsKey(reqs'[r].query), reqs'[r].query.cached_posts)
  BY <1>3, <1>11
<1> QED BY <1>1, <1>2, <1>8, <1>10, <1>12, <1>13, StageWorks

\* and what is behind the selection. From here on the request is done with its posts.
LEMMA PostSelectWorks ==
    ASSUME WorkInv, NEW r \in Requests, PostSelect(r)
    PROVE  WorkInv'
<1> DEFINE q == reqs[r].query
           cs == reqs[r].candidates
           h == HydratePostSelection(q, Faults(r), cs, reqs[r].found)
           f == FilterPostSelection(q, now, h.candidates)
           s == SplitOff(f.kept, Limits.result_size)
           others == reqs[r].non_selected \o s.non_selected
           change == [stage |-> IF ForYou(r) THEN "selected" ELSE "answered",
                      found |-> NoCaches, candidates |-> s.selected,
                      non_selected |-> others,
                      filtered |-> reqs[r].filtered \o f.removed,
                      posts |-> Some(MapSeq(s.selected, ToScoredPost)),
                      pending |-> PhoenixEffects(q),
                      published |-> PhoenixPublishes(q, Faults(r), reqs[r].scenario.sampled,
                                                     s.selected, others)]
           p == q.prediction
<1>1. /\ At(r, "ranked") /\ Becomes(r, change) /\ StoresUnchanged
      /\ caches' = Inserted(caches, Dated(h.inserts, now))
  BY DEF PostSelect
<1>2. /\ Asks(q) /\ Own(q, cs) /\ Own(q, reqs[r].non_selected) /\ reqs[r].stage \notin Ended
      /\ HarmlessCache(reqs[r].found.brand)
  BY <1>1 DEF WorkInv, InShape, At, Ended
<1>3. q.has_cached_posts => FromOther(reqs, CachedPostsKey(q), q.cached_posts)
  BY <1>1 DEF WorkInv, Backed, At
<1>4. /\ Listed(h.candidates) /\ (Candidates(p, cs) => Candidates(p, h.candidates))
      /\ DOMAIN h.inserts = CacheNames /\ \A n \in CacheNames : HarmlessCache(h.inserts[n])
  BY <1>2, PostSelectionAnswers DEF Own
<1> HIDE DEF h
<1>5. Listed(f.kept) /\ (Candidates(p, h.candidates) => Candidates(p, f.kept))
  BY <1>4, FilterKeeps
<1> HIDE DEF f
<1>6. /\ Listed(s.selected) /\ Listed(s.non_selected)
      /\ Candidates(p, f.kept) => Candidates(p, s.selected) /\ Candidates(p, s.non_selected)
  <2>1. Limits.result_size \in Nat
    BY LimitsAssumption
  <2> QED BY <1>5, <2>1, SplitKeeps
<1> HIDE DEF s
<1>7. /\ Listed(others)
      /\ Candidates(p, reqs[r].non_selected) /\ Candidates(p, s.non_selected) => Candidates(p, others)
  BY <1>2, <1>6, Joined DEF Own
<1> HIDE DEF others
<1>8. Own(q, s.selected) /\ Own(q, others)
  BY <1>2, <1>4, <1>5, <1>6, <1>7 DEF Own
<1>9. CachesHarmless(caches')
  <2> DEFINE ins == h.inserts
             Ttl(id) == IF Known(id) /\ now - Post(id).created < Limits.brand_age
                        THEN Limits.brand_new ELSE Limits.brand_old
             brand == [k \in DOMAIN ins.brand |->
                           [fields |-> ins.brand[k], expires |-> now + Ttl(k)]]
  <2>1. Dated(ins, now) = [ins EXCEPT !.brand = brand]
    BY DEF Dated
  <2>2. \A k \in DOMAIN brand : Harmless(brand[k].fields)
    <3>1. "brand" \in CacheNames
      BY DEF CacheNames
    <3>2. \A k \in DOMAIN ins.brand : Harmless(ins.brand[k])
      BY <1>4, <3>1 DEF HarmlessCache
    <3>3. \A k \in DOMAIN brand : k \in DOMAIN ins.brand /\ brand[k].fields = ins.brand[k]
      OBVIOUS
    <3> QED BY <3>2, <3>3
  <2> HIDE DEF brand
  <2>3. CachesHarmless(Dated(ins, now))
    BY <1>4, <2>1, <2>2 DEF CachesHarmless, CacheNames
  <2> QED BY <1>1, <2>3, InsertsHarmless DEF WorkInv
<1>10. /\ DOMAIN change = {"stage", "found", "candidates", "non_selected", "filtered", "posts",
                           "pending", "published"}
       /\ change.stage \in Ended /\ change.candidates = s.selected
       /\ change.non_selected = others /\ change.pending = PhoenixEffects(q)
  BY DEF Ended
<1> HIDE DEF change
<1>11. DOMAIN change \subseteq Fields
  BY <1>10 DEF Fields
<1>12. /\ reqs'[r].stage \in Ended /\ reqs'[r].query = q /\ reqs'[r].candidates = s.selected
       /\ reqs'[r].non_selected = others /\ reqs'[r].pending = PhoenixEffects(q)
  BY <1>1, <1>10, <1>11, BecomesMeans DEF WorkInv, Fields
<1>13. "post_cache" \in PhoenixEffects(q) => ~q.has_cached_posts
  BY DEF PhoenixEffects, CachesPosts
<1>14. InShape(reqs'[r])
  BY <1>2, <1>8, <1>12, <1>13 DEF InShape, Ended
<1>15. reqs'[r].query.has_cached_posts => FromOther(reqs, CachedPostsKey(reqs'[r].query), reqs'[r].query.cached_posts)
  BY <1>3, <1>12
<1> QED BY <1>1, <1>2, <1>9, <1>11, <1>14, <1>15, StageWorks

\* The feed is made from the posts without touching them.
LEMMA RespondWorks ==
    ASSUME WorkInv, NEW r \in Requests, Respond(r)
    PROVE  WorkInv'
<1>1. PICK q, sc, blended :
        LET s == SplitOff(blended.selected, Limits.for_you_size)
            others == blended.non_selected \o s.non_selected
        IN  Becomes(r, [stage |-> "answered", items |-> s.selected,
                        pending |-> reqs[r].pending \cup ForYouEffects(q),
                        published |-> Over(ForYouPublishes(q, sc.faults, s.selected, others),
                                           reqs[r].published)])
  BY DEF Respond
<1> DEFINE s == SplitOff(blended.selected, Limits.for_you_size)
           others == blended.non_selected \o s.non_selected
           change == [stage |-> "answered", items |-> s.selected,
                      pending |-> reqs[r].pending \cup ForYouEffects(q),
                      published |-> Over(ForYouPublishes(q, sc.faults, s.selected, others),
                                         reqs[r].published)]
<1>2. At(r, "selected") /\ Becomes(r, change) /\ StoresUnchanged /\ caches' = caches
  BY <1>1 DEF Respond, SourcesJoined
<1>3. /\ DOMAIN change = {"stage", "items", "pending", "published"} /\ change.stage = "answered"
      /\ change.pending = reqs[r].pending \cup ForYouEffects(q)
  OBVIOUS
<1> HIDE DEF change
<1>4. DOMAIN change \subseteq Fields
  BY <1>3 DEF Fields
<1>5. /\ Records' /\ \A x \in Requests \ {r} : reqs'[x] = reqs[x]
      /\ reqs'[r].stage = "answered" /\ reqs'[r].query = reqs[r].query
      /\ reqs'[r].candidates = reqs[r].candidates /\ reqs'[r].non_selected = reqs[r].non_selected
      /\ reqs'[r].pending = reqs[r].pending \cup ForYouEffects(q)
  BY <1>2, <1>3, <1>4, BecomesMeans DEF WorkInv, Fields
<1>6. "post_cache" \notin ForYouEffects(q)
  BY DEF ForYouEffects
<1>7. InShape(reqs[r]) /\ Backed(reqs, r) /\ reqs[r].stage = "selected"
  BY <1>2 DEF WorkInv, At
<1>8. InShape(reqs'[r])
  BY <1>5, <1>6, <1>7 DEF InShape, Ended
<1>9. Stays(reqs, reqs')
  BY <1>5 DEF Stays, Ended
<1>10. reqs'[r].query.has_cached_posts => FromOther(reqs, CachedPostsKey(reqs'[r].query), reqs'[r].query.cached_posts)
  BY <1>5, <1>7 DEF Backed
<1>11. CachesHarmless(caches') /\ posts_cache' = posts_cache
  BY <1>2 DEF WorkInv, StoresUnchanged
<1> QED BY <1>5, <1>8, <1>9, <1>10, <1>11, WorkGoesOn

\* What the end of an effect leaves of the requests.
LEMMA FinishWorks ==
    ASSUME WorkInv, NEW r \in Requests, NEW effect, Finishes(r, effect)
    PROVE  /\ Records' /\ Stays(reqs, reqs') /\ CachesHarmless(caches')
           /\ \A x \in Requests : InShape(reqs'[x])
           /\ \A x \in Requests : /\ reqs'[x].stage = reqs[x].stage /\ reqs'[x].query = reqs[x].query
                                  /\ reqs'[x].candidates = reqs[x].candidates
                                  /\ reqs'[x].non_selected = reqs[x].non_selected
           /\ \A x \in Requests : Backed(reqs', x)
<1>1. /\ effect \in reqs[r].pending /\ caches' = caches
      /\ reqs' = [reqs EXCEPT ![r].pending = @ \ {effect}]
  BY DEF Finishes, CanFinish
<1>2. reqs = [x \in Requests |-> reqs[x]] /\ \A x \in Requests : DOMAIN reqs[x] = Fields
  BY DEF WorkInv, Records
<1>3. reqs' = [x \in Requests |-> IF x = r THEN [reqs[r] EXCEPT !.pending = @ \ {effect}] ELSE reqs[x]]
  BY <1>1, <1>2
<1>4. /\ Records'
      /\ \A x \in Requests \ {r} : reqs'[x] = reqs[x]
      /\ \A f \in Fields \ {"pending"} : reqs'[r][f] = reqs[r][f]
      /\ reqs'[r].pending = reqs[r].pending \ {effect}
  BY <1>2, <1>3 DEF Records, Fields
<1>5. /\ reqs'[r].stage = reqs[r].stage /\ reqs'[r].query = reqs[r].query
      /\ reqs'[r].candidates = reqs[r].candidates /\ reqs'[r].non_selected = reqs[r].non_selected
      /\ reqs'[r].outer = reqs[r].outer /\ reqs'[r].found = reqs[r].found
  BY <1>4 DEF Fields
<1>6. \A x \in Requests : /\ reqs'[x].stage = reqs[x].stage /\ reqs'[x].query = reqs[x].query
                          /\ reqs'[x].candidates = reqs[x].candidates
                          /\ reqs'[x].non_selected = reqs[x].non_selected
  BY <1>4, <1>5
<1>7. Stays(reqs, reqs')
  BY <1>6 DEF Stays
<1>8. InShape(reqs'[r])
  <2>1. InShape(reqs[r])
    BY DEF WorkInv
  <2> QED BY <1>4, <1>5, <2>1 DEF InShape
<1>9. \A x \in Requests : InShape(reqs'[x])
  BY <1>4, <1>8 DEF WorkInv
<1>10. ASSUME NEW x \in Requests PROVE Backed(reqs', x)
  <2>1. \A key, posts : FromOther(reqs, key, posts) => FromOther(reqs', key, posts)
    BY <1>7, FromOtherStays
  <2>2. Backed(reqs, x)
    BY DEF WorkInv
  <2> QED BY <1>6, <2>1, <2>2 DEF Backed
<1>11. CachesHarmless(caches')
  BY <1>1 DEF WorkInv
<1> QED BY <1>4, <1>6, <1>7, <1>9, <1>10, <1>11

\* The one write to Redis: candidates of a request that fetched them itself.
LEMMA CachePostsWorks ==
    ASSUME WorkInv, NEW r \in Requests, CachePosts(r)
    PROVE  WorkInv'
<1> DEFINE q == reqs[r].query
           cached == CandidatesToCache(reqs[r].candidates, reqs[r].non_selected)
<1>1. Finishes(r, "post_cache") /\ "post_cache" \in reqs[r].pending
  BY DEF CachePosts, Finishes, CanFinish
<1>2. reqs[r].stage \in Ended /\ ~q.has_cached_posts /\ InShape(reqs[r])
  BY <1>1 DEF WorkInv, InShape
<1>3. Own(q, reqs[r].candidates) /\ Own(q, reqs[r].non_selected)
  BY <1>2 DEF InShape
<1>4. Listed(cached) /\ Range1(cached) \subseteq Range1(reqs[r].candidates \o reqs[r].non_selected)
  BY <1>2, <1>3, CachedAreKnown DEF Own
<1> HIDE DEF cached
<1>5. FromOther(reqs, CachedPostsKey(q), cached)
  BY <1>2, <1>4 DEF FromOther
<1>6. /\ Records' /\ Stays(reqs, reqs') /\ CachesHarmless(caches')
      /\ \A x \in Requests : InShape(reqs'[x]) /\ Backed(reqs', x)
  BY <1>1, FinishWorks
<1>7. \A key, posts : FromOther(reqs, key, posts) => FromOther(reqs', key, posts)
  BY <1>6, FromOtherStays
<1>8. ASSUME NEW key \in DOMAIN posts_cache' PROVE FromOther(reqs, key, posts_cache'[key].posts)
  <2>1. CASE Fails(Faults(r), "redis_set", 0)
    BY <1>8, <2>1 DEF CachePosts, WorkInv
  <2>2. CASE ~Fails(Faults(r), "redis_set", 0)
    <3> DEFINE entry == [posts |-> cached, expires |-> now + Limits.cache_ttl]
    <3>1. posts_cache' = Over([k \in {CachedPostsKey(q)} |-> entry], posts_cache)
      BY <2>2 DEF CachePosts, RedisPostCandidateCache, cached
    <3>2. entry.posts = cached
      OBVIOUS
    <3> HIDE DEF entry
    <3>3. CASE key = CachedPostsKey(q)
      <4>1. posts_cache'[key] = entry
        BY <1>8, <3>1, <3>3 DEF Over
      <4> QED BY <1>5, <3>2, <3>3, <4>1
    <3>4. CASE key # CachedPostsKey(q)
      <4>1. key \in DOMAIN posts_cache /\ posts_cache'[key] = posts_cache[key]
        BY <1>8, <3>1, <3>4 DEF Over
      <4> QED BY <4>1 DEF WorkInv
    <3> QED BY <3>3, <3>4
  <2> QED BY <2>1, <2>2
<1> QED BY <1>6, <1>7, <1>8 DEF WorkInv

\* The other effects leave Redis alone.
LEMMA EffectWorks ==
    ASSUME WorkInv, NEW r \in Requests, RecordServed(r) \/ ForgetServed(r) \/ StampRequest(r)
    PROVE  WorkInv'
<1>1. posts_cache' = posts_cache /\ \E effect : Finishes(r, effect)
  BY DEF RecordServed, ForgetServed, StampRequest
<1>2. /\ Records' /\ Stays(reqs, reqs') /\ CachesHarmless(caches')
      /\ \A x \in Requests : InShape(reqs'[x]) /\ Backed(reqs', x)
  BY <1>1, FinishWorks
<1>3. \A key, posts : FromOther(reqs, key, posts) => FromOther(reqs', key, posts)
  BY <1>2, FromOtherStays
<1> QED BY <1>1, <1>2, <1>3 DEF WorkInv

\* The invariant says what is claimed.
LEMMA WorkShows ==
    ASSUME WorkInv
    PROVE  CachedFromOneRequest
<1> SUFFICES ASSUME NEW r \in Requests, ~At(r, "idle"), reqs[r].query.has_cached_posts
             PROVE  \E s \in Requests \ {r} :
                       /\ reqs[s].stage \in {"selected", "answered"}
                       /\ CachedPostsKey(reqs[s].query) = CachedPostsKey(reqs[r].query)
                       /\ ~reqs[s].query.has_cached_posts
                       /\ \A c \in Range1(reqs[r].query.cached_posts) :
                             /\ c.prediction \in {None, Some(reqs[s].query.prediction)}
                             /\ c \in Range1(reqs[s].candidates \o reqs[s].non_selected)
  BY DEF CachedFromOneRequest
<1>1. reqs[r].stage \notin {"idle", "built", "asked"}
  BY DEF WorkInv, InShape, At
<1>2. FromOther(reqs, CachedPostsKey(reqs[r].query), reqs[r].query.cached_posts)
  BY <1>1 DEF WorkInv, Backed
<1>3. PICK s \in Requests :
          /\ reqs[s].stage \in Ended
          /\ CachedPostsKey(reqs[s].query) = CachedPostsKey(reqs[r].query)
          /\ ~reqs[s].query.has_cached_posts
          /\ Range1(reqs[r].query.cached_posts) \subseteq Range1(reqs[s].candidates \o reqs[s].non_selected)
  BY <1>2 DEF FromOther
<1> DEFINE all == reqs[s].candidates \o reqs[s].non_selected
           p == reqs[s].query.prediction
<1>4. Own(reqs[s].query, reqs[s].candidates) /\ Own(reqs[s].query, reqs[s].non_selected)
  BY <1>3 DEF WorkInv, InShape
<1>5. Candidates(p, all)
  BY <1>3, <1>4, Joined DEF Own
<1> HIDE DEF all
<1>6. \A c \in Range1(all) : c.prediction \in {None, Some(p)}
  BY <1>5 DEF Candidates, Candidate, Range1
<1>7. s # r
  BY <1>3
<1> QED BY <1>3, <1>6, <1>7 DEF Ended, all

\* Nothing is under way at first.
LEMMA InitialWork == Init => HistoryInv /\ WorkInv
<1> SUFFICES ASSUME Init PROVE WorkInv
  BY InitialHistory
<1>1. reqs = [r \in Requests |-> Idle] /\ caches = NoCaches /\ posts_cache = <<>>
  BY DEF Init
<1>2. Records
  BY DEF Init, Idle, Records, Fields
<1>3. \A r \in Requests : InShape(reqs[r]) /\ Backed(reqs, r)
  BY <1>1 DEF Idle, InShape, Backed, Ended
<1>4. CachesHarmless(caches)
  <2>1. DOMAIN <<>> = {}
    OBVIOUS
  <2> QED BY <1>1, <2>1 DEF NoCaches, CachesHarmless, HarmlessCache, CacheNames
<1>5. DOMAIN posts_cache = {}
  BY <1>1
<1> QED BY <1>2, <1>3, <1>4, <1>5 DEF WorkInv

\* Every step keeps both invariants.
LEMMA EveryStepWorks == HistoryInv /\ WorkInv /\ [Next]_vars => (HistoryInv /\ WorkInv)'
<1> SUFFICES ASSUME HistoryInv, WorkInv, [Next]_vars PROVE WorkInv'
  BY HistoryGoesOn
<1>1. CASE UNCHANGED vars
  BY <1>1 DEF vars, WorkInv, Records
<1>2. ASSUME NEW r \in Requests, Build(r) \/ Stage(r) \/ Effect(r) PROVE WorkInv'
  BY <1>2, BuildWorks, HydrateForYouWorks, HydratePhoenixWorks, FetchWorks, HydrateWorks, RankWorks,
     PostSelectWorks, RespondWorks, CachePostsWorks, EffectWorks DEF Stage, Effect
<1> QED BY <1>1, <1>2 DEF Next

\* Cached posts are the work of one other request on the same key, under its
\* prediction, that was not itself served from the cache: whatever overlaps,
\* the entry of a key is written from one request at the end of its pipeline.
THEOREM CachedPostsHaveOneOrigin == Spec => []CachedFromOneRequest
<1>1. HistoryInv /\ WorkInv => CachedFromOneRequest
  BY WorkShows
<1> QED BY InitialWork, EveryStepWorks, <1>1, PTL DEF Spec

(* ---------- The invariant ------------------------------------------------ *)

BestInv ==
    /\ \A r \in Requests : Sorts(reqs[r])
    /\ QuietEntries(caches)
    /\ \A key \in DOMAIN posts_cache : Apart(TweetIds(posts_cache[key].posts))

\* What a stage has to show of its own request to keep the invariant.
LEMMA StageSorts ==
    ASSUME WorkInv, BestInv, NEW r \in Requests, NEW change, DOMAIN change \subseteq Fields,
           Becomes(r, change), Sorts(reqs'[r]), QuietEntries(caches'), StoresUnchanged
    PROVE  BestInv'
<1>1. \A x \in Requests \ {r} : reqs'[x] = reqs[x]
  BY BecomesMeans DEF WorkInv
<1>2. \A x \in Requests : Sorts(reqs'[x])
  BY <1>1 DEF BestInv
<1>3. posts_cache' = posts_cache
  BY DEF StoresUnchanged
<1> QED BY <1>2, <1>3 DEF BestInv

\* Expired verdicts leave, and what comes in says nothing of retweets.
LEMMA LiveQuiet ==
    ASSUME NEW cs, CachesHarmless(cs), QuietEntries(cs), NEW t
    PROVE  QuietCache(Live(cs, t).brand)
<1> DEFINE brand == [k \in {b \in DOMAIN cs.brand : cs.brand[b].expires > t} |-> cs.brand[k].fields]
<1>1. Live(cs, t) = [cs EXCEPT !.brand = brand]
  BY DEF Live
<1>2. QuietCache(brand)
  BY DEF QuietEntries, QuietCache
<1> HIDE DEF brand
<1> QED BY <1>1, <1>2 DEF CachesHarmless, CacheNames

\* Dated entries are quiet if what goes in is.
LEMMA DatedQuiet ==
    ASSUME NEW inserts, DOMAIN inserts = CacheNames, QuietCache(inserts.brand), NEW t
    PROVE  QuietEntries(Dated(inserts, t))
<1> DEFINE Ttl(id) == IF Known(id) /\ t - Post(id).created < Limits.brand_age
                      THEN Limits.brand_new ELSE Limits.brand_old
           brand == [k \in DOMAIN inserts.brand |->
                         [fields |-> inserts.brand[k], expires |-> t + Ttl(k)]]
<1>1. Dated(inserts, t) = [inserts EXCEPT !.brand = brand]
  BY DEF Dated
<1>2. \A k \in DOMAIN brand : k \in DOMAIN inserts.brand /\ brand[k].fields = inserts.brand[k]
  OBVIOUS
<1> HIDE DEF brand
<1>3. "brand" \in DOMAIN inserts
  BY DEF CacheNames
<1>4. Dated(inserts, t).brand = brand
  BY <1>1, <1>3
<1> QED BY <1>2, <1>4 DEF QuietEntries, QuietCache

\* Posts from Redis are somebody's.
LEMMA OthersAreTyped ==
    ASSUME WorkInv, NEW key, NEW posts, FromOther(reqs, key, posts)
    PROVE  Typed(posts)
<1>1. PICK s \in Requests :
          /\ reqs[s].stage \in Ended
          /\ CachedPostsKey(reqs[s].query) = key /\ ~reqs[s].query.has_cached_posts
          /\ Range1(posts) \subseteq Range1(reqs[s].candidates \o reqs[s].non_selected)
  BY DEF FromOther
<1> DEFINE all == reqs[s].candidates \o reqs[s].non_selected
           p == reqs[s].query.prediction
<1>2. Own(reqs[s].query, reqs[s].candidates) /\ Own(reqs[s].query, reqs[s].non_selected)
  BY <1>1 DEF WorkInv, InShape
<1>3. Candidates(p, all) /\ Listed(posts)
  BY <1>1, <1>2, Joined DEF Own, FromOther
<1>4. posts \in Seq(Range1(all))
  BY <1>1, <1>3 DEF Listed
<1> HIDE DEF all
<1>5. Candidates(p, posts)
  BY <1>3, <1>4, PartOf
<1> QED BY <1>5 DEF Typed

\* A new request has no posts.
LEMMA BuildSorts ==
    ASSUME WorkInv, BestInv, NEW r \in Requests, Build(r)
    PROVE  BestInv'
<1>1. PICK sc \in Scenarios[r] :
          LET data == FetchViewerData(sc.faults, sc.data)
              query == [NewQuery(sc.request, sc.params, data, now + sc.gap)
                           EXCEPT !.shadow = sc.shadow]
              asked == IF sc.surface = "for_you_urt" THEN UrtQuery(query, sc.request) ELSE query
          IN  /\ now' = now + sc.gap
              /\ Becomes(r, [stage |-> IF sc.surface = "scored_posts" THEN "asked" ELSE "built",
                             scenario |-> sc, outer |-> asked, query |-> asked])
  BY DEF Build
<1> DEFINE data == FetchViewerData(sc.faults, sc.data)
           query == [NewQuery(sc.request, sc.params, data, now + sc.gap)
                        EXCEPT !.shadow = sc.shadow]
           asked == IF sc.surface = "for_you_urt" THEN UrtQuery(query, sc.request) ELSE query
           change == [stage |-> IF sc.surface = "scored_posts" THEN "asked" ELSE "built",
                      scenario |-> sc, outer |-> asked, query |-> asked]
<1>2. Becomes(r, change) /\ StoresUnchanged /\ caches' = caches
  BY <1>1 DEF Build
<1> HIDE DEF asked
<1>3. DOMAIN change = {"stage", "scenario", "outer", "query"} /\ change.stage \in {"built", "asked"}
  OBVIOUS
<1> HIDE DEF change
<1>4. DOMAIN change \subseteq Fields
  BY <1>3 DEF Fields
<1>5. reqs'[r].stage \in {"built", "asked"}
  BY <1>2, <1>3, <1>4, BecomesMeans DEF WorkInv
<1>6. Sorts(reqs'[r])
  BY <1>5 DEF Sorts, Ended
<1> QED BY <1>2, <1>4, <1>6, StageSorts DEF BestInv

\* Reading the stores of the viewer disorders nothing.
LEMMA HydrateForYouSorts ==
    ASSUME WorkInv, BestInv, NEW r \in Requests, HydrateForYou(r)
    PROVE  BestInv'
<1> DEFINE q == HydrateForYouQuery(reqs[r].outer, Faults(r), Responses(history), timestamps)
           change == [stage |-> "asked", outer |-> q, query |-> q]
<1>1. Becomes(r, change) /\ StoresUnchanged /\ caches' = caches
  BY DEF HydrateForYou
<1> HIDE DEF q
<1>2. DOMAIN change = {"stage", "outer", "query"} /\ change.stage = "asked"
  OBVIOUS
<1> HIDE DEF change
<1>3. DOMAIN change \subseteq Fields
  BY <1>2 DEF Fields
<1>4. reqs'[r].stage = "asked"
  BY <1>1, <1>2, <1>3, BecomesMeans DEF WorkInv
<1>5. Sorts(reqs'[r])
  BY <1>4 DEF Sorts, Ended
<1> QED BY <1>1, <1>3, <1>5, StageSorts DEF BestInv

\* What a request reads in Redis names no post twice.
LEMMA HydratePhoenixSorts ==
    ASSUME WorkInv, BestInv, NEW r \in Requests, HydratePhoenix(r)
    PROVE  BestInv'
<1> DEFINE old == reqs[r].query
           stored == Stored(CachedPostsKey(old))
           q == HydratePhoenixQuery(old, Faults(r), stored)
           change == [stage |-> "hydrated", query |-> q]
<1>1. At(r, "asked") /\ Becomes(r, change) /\ StoresUnchanged /\ caches' = caches
  BY DEF HydratePhoenix
<1>2. Asks(old) /\ ~old.has_cached_posts
  BY <1>1 DEF WorkInv, InShape, At
<1>3. q.has_cached_posts => q.cached_posts = stored /\ Len(stored) >= Limits.min_cached
  BY <1>2, PhoenixHydrated
<1> HIDE DEF q
<1>4. q.has_cached_posts => Apart(TweetIds(q.cached_posts))
  <2> SUFFICES ASSUME q.has_cached_posts PROVE Apart(TweetIds(stored))
    BY <1>3
  <2>1. Limits.min_cached \in Nat /\ Limits.min_cached > 0
    BY LimitsAssumption
  <2>2. stored # <<>>
    BY <1>3, <2>1
  <2> QED BY <2>2 DEF Stored, BestInv
<1>5. DOMAIN change = {"stage", "query"} /\ change.stage = "hydrated" /\ change.query = q
  OBVIOUS
<1> HIDE DEF change
<1>6. DOMAIN change \subseteq Fields
  BY <1>5 DEF Fields
<1>7. reqs'[r].stage = "hydrated" /\ reqs'[r].query = q
  BY <1>1, <1>5, <1>6, BecomesMeans DEF WorkInv, Fields
<1>8. Sorts(reqs'[r])
  BY <1>4, <1>7 DEF Sorts, Ended
<1> QED BY <1>1, <1>6, <1>8, StageSorts DEF BestInv

\* New candidates have no score, and cached ones are different posts.
LEMMA FetchSorts ==
    ASSUME WorkInv, BestInv, NEW r \in Requests, Fetch(r)
    PROVE  BestInv'
<1> DEFINE old == reqs[r].query
           q == [old EXCEPT !.network_replies = NetworkReplies(old, Faults(r))]
           cs == PhoenixCandidatesOf(old, Faults(r), now)
           live == Live(caches, now)
           change == [stage |-> "fetched", candidates |-> cs, query |-> q, found |-> live]
<1>1. At(r, "hydrated") /\ Becomes(r, change) /\ StoresUnchanged /\ caches' = caches
  BY DEF Fetch
<1>2. Asks(old)
  BY <1>1 DEF WorkInv, InShape, At
<1>3. old.has_cached_posts => /\ FromOther(reqs, CachedPostsKey(old), old.cached_posts)
                              /\ Apart(TweetIds(old.cached_posts))
  BY <1>1 DEF WorkInv, Backed, At, BestInv, Sorts
<1>4. q.has_cached_posts = old.has_cached_posts /\ q.cached_posts = old.cached_posts
  BY <1>2 DEF Asks, QueryFields
<1> HIDE DEF q
<1>5. Typed(cs) /\ Once(cs)
  <2>1. CASE old.has_cached_posts
    <3>1. Listed(old.cached_posts)
      BY <1>3, <2>1 DEF FromOther
    <3>2. cs = old.cached_posts
      BY <2>1, <3>1, CachedFetched
    <3> HIDE DEF cs
    <3> QED BY <1>3, <2>1, <3>2, OthersAreTyped DEF Once
  <2>2. CASE ~old.has_cached_posts
    <3>1. NewCandidates(old.prediction, cs)
      BY <2>2, Fetched
    <3> HIDE DEF cs
    <3> QED BY <3>1 DEF NewCandidates, Typed, Once
  <2> QED BY <2>1, <2>2
<1> HIDE DEF cs, live
<1>6. /\ DOMAIN change = {"stage", "candidates", "query", "found"} /\ change.stage = "fetched"
      /\ change.candidates = cs /\ change.query = q
  OBVIOUS
<1> HIDE DEF change
<1>7. DOMAIN change \subseteq Fields
  BY <1>6 DEF Fields
<1>8. reqs'[r].stage = "fetched" /\ reqs'[r].query = q /\ reqs'[r].candidates = cs
  BY <1>1, <1>6, <1>7, BecomesMeans DEF WorkInv, Fields
<1>9. Sorts(reqs'[r])
  BY <1>3, <1>4, <1>5, <1>8 DEF Sorts, Ended
<1> QED BY <1>1, <1>7, <1>9, StageSorts DEF BestInv

\* Hydration neither scores nor renames a post,
LEMMA HydrateSorts ==
    ASSUME WorkInv, BestInv, NEW r \in Requests, Hydrate(r)
    PROVE  BestInv'
<1> DEFINE q == reqs[r].query
           cs == reqs[r].candidates
           h == HydrateCandidates(q, Faults(r), cs, reqs[r].found)
           change == [stage |-> "enriched", found |-> NoCaches,
                      candidates |-> h.candidates, retrieved |-> Ids(h.candidates)]
<1>1. At(r, "fetched") /\ Becomes(r, change) /\ StoresUnchanged /\ caches' = Inserted(caches, h.inserts)
  BY DEF Hydrate
<1>2. /\ Listed(cs) /\ DOMAIN reqs[r].found = CacheNames
      /\ \A n \in CacheNames \ {"brand"} : HarmlessCache(reqs[r].found[n])
  BY <1>1 DEF WorkInv, InShape, At, Own
<1>3. /\ Typed(cs) /\ Once(cs)
      /\ q.has_cached_posts => Apart(TweetIds(q.cached_posts))
  BY <1>1 DEF BestInv, Sorts, At
<1>4. PICK p : Candidates(p, cs)
  BY <1>3 DEF Typed
<1>5. /\ Listed(h.candidates) /\ Candidates(p, h.candidates) /\ Spared(cs, h.candidates)
      /\ h.inserts.brand = <<>> /\ DOMAIN h.inserts = CacheNames
  <2> DEFINE found == reqs[r].found
  <2> HIDE DEF found, cs, q
  <2> QED BY <1>2, <1>4, StageAnswers DEF found
<1> HIDE DEF h
<1>6. Typed(h.candidates) /\ Once(h.candidates)
  BY <1>2, <1>3, <1>5, SparedOnce DEF Typed
<1>7. QuietEntries(caches')
  <2>1. QuietEntries(h.inserts)
    BY <1>5 DEF QuietEntries
  <2>2. DOMAIN caches = CacheNames
    BY DEF WorkInv, CachesHarmless
  <2> QED BY <1>1, <2>1, <2>2, InsertsQuiet DEF BestInv
<1>8. /\ DOMAIN change = {"stage", "found", "candidates", "retrieved"} /\ change.stage = "enriched"
      /\ change.candidates = h.candidates
  OBVIOUS
<1> HIDE DEF change
<1>9. DOMAIN change \subseteq Fields
  BY <1>8 DEF Fields
<1>10. reqs'[r].stage = "enriched" /\ reqs'[r].query = q /\ reqs'[r].candidates = h.candidates
  BY <1>1, <1>8, <1>9, BecomesMeans DEF WorkInv, Fields
<1>11. Sorts(reqs'[r])
  BY <1>3, <1>6, <1>10 DEF Sorts, Ended
<1> QED BY <1>1, <1>7, <1>9, <1>11, StageSorts

\* What a filter removes has no score, or is not in what is chosen of the rest.
LEMMA RemovedIsOut ==
    ASSUME NEW cs, Listed(cs), Once(cs), NEW f, Parted(f, cs),
           NEW scored, Listed(scored), SamePosts(f.kept, scored),
           NEW chosen, Listed(chosen), Drawn(chosen, scored)
    PROVE  Out(f.removed, Ids(chosen))
<1> SUFFICES ASSUME NEW c \in Range1(f.removed), c.score # None
             PROVE  c.tweet_id \notin Range1(Ids(chosen))
  BY DEF Out
<1>1. Range1(f.removed) \subseteq Range1(cs) /\ Listed(f.kept)
  BY DEF Parted
<1>2. ~(\A i \in 1 .. Len(cs) : cs[i].score = None)
  BY <1>1 DEF Range1
<1>3. NoneShared(f.removed, f.kept)
  BY <1>2 DEF Once, Parted
<1>4. NoneShared(f.kept, f.removed)
  BY <1>3, NoneSharedWithParts
<1>5. NoneShared(scored, f.removed)
  BY <1>1, <1>4, SameDiffers
<1>6. Range1(chosen) \subseteq Range1(scored)
  BY DrawnDiffers
<1>7. \A d \in Range1(chosen) : d.tweet_id # c.tweet_id
  BY <1>5, <1>6 DEF NoneShared
<1>8. Range1(Ids(chosen)) \subseteq {d.tweet_id : d \in Range1(chosen)}
  <2>1. Ids(chosen) = TweetIds(chosen)
    BY DEF Ids, TweetIds
  <2>2. /\ Len(TweetIds(chosen)) = Len(chosen)
        /\ \A i \in 1 .. Len(chosen) : TweetIds(chosen)[i] = chosen[i].tweet_id /\ chosen[i] \in Range1(chosen)
    BY KeysOf
  <2>3. ASSUME NEW k \in Range1(TweetIds(chosen)) PROVE \E d \in Range1(chosen) : k = d.tweet_id
    <3>1. PICK i \in 1 .. Len(chosen) : k = TweetIds(chosen)[i]
      BY <2>2, <2>3 DEF Range1
    <3> QED BY <2>2, <3>1
  <2> QED BY <2>1, <2>3
<1> QED BY <1>7, <1>8

\* Ranking chooses among posts that differ,
LEMMA RankSorts ==
    ASSUME WorkInv, BestInv, NEW r \in Requests, Rank(r)
    PROVE  BestInv'
<1> DEFINE q == reqs[r].query
           cs == reqs[r].candidates
           f == Filter(q, now, cs)
           scored == Score(q, Faults(r), now, f.kept)
           s == TopK(scored)
           live == Live(caches, now)
           change == [stage |-> "ranked", candidates |-> s.selected,
                      shortlist |-> Ids(s.selected),
                      non_selected |-> s.non_selected, filtered |-> f.removed,
                      found |-> live]
<1>1. At(r, "enriched") /\ Becomes(r, change) /\ StoresUnchanged /\ caches' = caches
  BY DEF Rank
<1>2. Own(q, cs) /\ q.params.weights \in Weights
  BY <1>1 DEF WorkInv, InShape, At, Asks
<1>3. /\ Typed(cs) /\ Once(cs)
      /\ q.has_cached_posts => Apart(TweetIds(q.cached_posts))
  BY <1>1 DEF BestInv, Sorts, At
<1>4. PICK p : Candidates(p, cs) /\ (Fresh(q) => p = q.prediction)
  BY <1>2, <1>3, PredictionOf
<1>5. /\ Listed(cs) /\ Listed(f.kept) /\ Candidates(p, f.kept)
      /\ Parted(f, cs) /\ Apart(TweetIds(f.kept)) /\ Apart(OriginalTweetIds(f.kept))
  BY <1>2, <1>4, FilterKeeps, Filtered DEF Own
<1> HIDE DEF f
<1>6. Listed(scored) /\ Candidates(p, scored) /\ SamePosts(f.kept, scored)
  BY <1>2, <1>4, <1>5, Scored
<1> HIDE DEF scored
<1>7. Apart(TweetIds(scored)) /\ Apart(OriginalTweetIds(scored))
  BY <1>5, <1>6, SameDiffers
<1>8. /\ Listed(s.selected) /\ Listed(s.non_selected) /\ Drawn(s.selected, scored)
      /\ TwoParts(s.selected, s.non_selected) /\ Apart(OriginalTweetIds(s.selected))
      /\ Candidates(p, s.selected)
  BY <1>6, <1>7, Selected, Chosen
<1> HIDE DEF s
<1>9. Out(f.removed, Ids(s.selected)) /\ Listed(f.removed)
  BY <1>3, <1>5, <1>6, <1>8, RemovedIsOut DEF Parted
<1>10. QuietCache(live.brand)
  BY LiveQuiet DEF WorkInv, BestInv
<1> HIDE DEF live, cs
<1>11. /\ DOMAIN change = {"stage", "candidates", "shortlist", "non_selected", "filtered", "found"}
       /\ change.stage = "ranked" /\ change.candidates = s.selected /\ change.shortlist = Ids(s.selected)
       /\ change.non_selected = s.non_selected /\ change.filtered = f.removed /\ change.found = live
  OBVIOUS
<1> HIDE DEF change
<1>12. DOMAIN change \subseteq Fields
  BY <1>11 DEF Fields
<1>13. /\ reqs'[r].stage = "ranked" /\ reqs'[r].query = q /\ reqs'[r].candidates = s.selected
       /\ reqs'[r].shortlist = Ids(s.selected) /\ reqs'[r].non_selected = s.non_selected
       /\ reqs'[r].filtered = f.removed /\ reqs'[r].found = live
  BY <1>1, <1>11, <1>12, BecomesMeans DEF WorkInv, Fields
<1>14. Sorts(reqs'[r])
  <2>1. Typed(s.selected)
    BY <1>8 DEF Typed
  <2> QED BY <1>3, <1>8, <1>9, <1>10, <1>13, <2>1 DEF Sorts, Ended
<1> QED BY <1>1, <1>12, <1>14, StageSorts DEF BestInv

\* and behind the selection the best of each conversation is left.
LEMMA PostSelectSorts ==
    ASSUME WorkInv, BestInv, NEW r \in Requests, PostSelect(r)
    PROVE  BestInv'
<1> DEFINE q == reqs[r].query
           cs == reqs[r].candidates
           h == HydratePostSelection(q, Faults(r), cs, reqs[r].found)
           f == FilterPostSelection(q, now, h.candidates)
           s == SplitOff(f.kept, Limits.result_size)
           others == reqs[r].non_selected \o s.non_selected
           early == reqs[r].filtered
           shortlist == reqs[r].shortlist
           change == [stage |-> IF ForYou(r) THEN "selected" ELSE "answered",
                      found |-> NoCaches, candidates |-> s.selected,
                      non_selected |-> others,
                      filtered |-> early \o f.removed,
                      posts |-> Some(MapSeq(s.selected, ToScoredPost)),
                      pending |-> PhoenixEffects(q),
                      published |-> PhoenixPublishes(q, Faults(r), reqs[r].scenario.sampled,
                                                     s.selected, others)]
<1>1. /\ At(r, "ranked") /\ Becomes(r, change) /\ StoresUnchanged
      /\ caches' = Inserted(caches, Dated(h.inserts, now))
  BY DEF PostSelect
<1>2. /\ Listed(cs) /\ Listed(reqs[r].non_selected) /\ HarmlessCache(reqs[r].found.brand)
  BY <1>1 DEF WorkInv, InShape, At, Own
<1>3. /\ Typed(cs) /\ Apart(OriginalTweetIds(cs))
      /\ Listed(early) /\ Out(early, shortlist)
      /\ QuietCache(reqs[r].found.brand)
      /\ ~q.has_cached_posts => TwoParts(cs, reqs[r].non_selected)
      /\ q.has_cached_posts => Apart(TweetIds(q.cached_posts))
  BY <1>1 DEF BestInv, Sorts, At
<1>4. PICK p : Candidates(p, cs)
  BY <1>3 DEF Typed
<1>5. /\ Listed(h.candidates) /\ Candidates(p, h.candidates) /\ SamePosts(cs, h.candidates)
      /\ QuietCache(h.inserts.brand) /\ DOMAIN h.inserts = CacheNames
  BY <1>2, <1>3, <1>4, PostSelectionSpares, PostSelectionAnswers
<1> HIDE DEF h
<1>6. /\ Listed(f.kept) /\ Listed(f.removed) /\ Drawn(f.kept, h.candidates) /\ Differing(f.kept)
      /\ \A c \in Range1(f.removed) : Hidden(c) \/ \E d \in Range1(f.kept) : Under(c, d)
  BY <1>5, PostSelected
<1> HIDE DEF f
<1>7. Apart(OriginalTweetIds(f.kept))
  <2>1. Apart(OriginalTweetIds(h.candidates))
    BY <1>2, <1>3, <1>5, SameDiffers
  <2> QED BY <1>5, <1>6, <2>1, DrawnDiffers
<1>8. Limits.result_size \in Nat
  BY LimitsAssumption
<1>9. Listed(s.selected) /\ Drawn(s.selected, f.kept)
  BY <1>6, <1>8, SplitDrawn
<1>10. ~q.has_cached_posts => TwoParts(s.selected, others)
  <2> SUFFICES ASSUME ~q.has_cached_posts PROVE TwoParts(s.selected, others)
    OBVIOUS
  <2>1. TwoParts(h.candidates, reqs[r].non_selected)
    BY <1>2, <1>3, <1>5, SameDiffers DEF TwoParts
  <2> QED BY <1>2, <1>5, <1>6, <1>8, <2>1, PartsJoin
<1> HIDE DEF s, others, cs, early, shortlist
<1>11. BestShown([candidates |-> s.selected, filtered |-> early \o f.removed, shortlist |-> shortlist])
  BY <1>3, <1>6, <1>7, <1>9, BestAfterFilters
<1>12. QuietEntries(caches')
  <2>1. QuietEntries(Dated(h.inserts, now)) /\ DOMAIN caches = CacheNames
    BY <1>5, DatedQuiet DEF WorkInv, CachesHarmless
  <2> QED BY <1>1, <2>1, InsertsQuiet DEF BestInv
<1>13. /\ DOMAIN change = {"stage", "found", "candidates", "non_selected", "filtered", "posts",
                           "pending", "published"}
       /\ change.stage \in Ended /\ change.candidates = s.selected
       /\ change.non_selected = others /\ change.filtered = early \o f.removed
  BY DEF Ended
<1> HIDE DEF change
<1>14. DOMAIN change \subseteq Fields
  BY <1>13 DEF Fields
<1>15. /\ reqs'[r].stage \in Ended /\ reqs'[r].query = q /\ reqs'[r].candidates = s.selected
       /\ reqs'[r].non_selected = others /\ reqs'[r].filtered = early \o f.removed
       /\ reqs'[r].shortlist = shortlist
  BY <1>1, <1>13, <1>14, BecomesMeans DEF WorkInv, Fields, shortlist
<1>16. BestShown(reqs'[r])
  <2> DEFINE w == [candidates |-> s.selected, filtered |-> early \o f.removed, shortlist |-> shortlist]
  <2>1. w.candidates = s.selected /\ w.filtered = early \o f.removed /\ w.shortlist = shortlist
    OBVIOUS
  <2>2. BestShown(w)
    BY <1>11
  <2> HIDE DEF w
  <2> QED BY <1>15, <2>1, <2>2 DEF BestShown
<1>17. Sorts(reqs'[r])
  BY <1>3, <1>10, <1>15, <1>16 DEF Sorts, Ended
<1> QED BY <1>1, <1>12, <1>14, <1>17, StageSorts

\* The feed is made without touching what was selected.
LEMMA RespondSorts ==
    ASSUME WorkInv, BestInv, NEW r \in Requests, Respond(r)
    PROVE  BestInv'
<1>1. PICK q, sc, blended :
        LET s == SplitOff(blended.selected, Limits.for_you_size)
            others == blended.non_selected \o s.non_selected
        IN  Becomes(r, [stage |-> "answered", items |-> s.selected,
                        pending |-> reqs[r].pending \cup ForYouEffects(q),
                        published |-> Over(ForYouPublishes(q, sc.faults, s.selected, others),
                                           reqs[r].published)])
  BY DEF Respond
<1> DEFINE s == SplitOff(blended.selected, Limits.for_you_size)
           others == blended.non_selected \o s.non_selected
           change == [stage |-> "answered", items |-> s.selected,
                      pending |-> reqs[r].pending \cup ForYouEffects(q),
                      published |-> Over(ForYouPublishes(q, sc.faults, s.selected, others),
                                         reqs[r].published)]
<1>2. At(r, "selected") /\ Becomes(r, change) /\ StoresUnchanged /\ caches' = caches
  BY <1>1 DEF Respond, SourcesJoined
<1>3. DOMAIN change = {"stage", "items", "pending", "published"} /\ change.stage = "answered"
  OBVIOUS
<1> HIDE DEF change
<1>4. DOMAIN change \subseteq Fields
  BY <1>3 DEF Fields
<1>5. /\ reqs'[r].stage = "answered" /\ reqs'[r].query = reqs[r].query
      /\ reqs'[r].candidates = reqs[r].candidates /\ reqs'[r].non_selected = reqs[r].non_selected
      /\ reqs'[r].filtered = reqs[r].filtered /\ reqs'[r].shortlist = reqs[r].shortlist
  BY <1>2, <1>3, <1>4, BecomesMeans DEF WorkInv, Fields
<1>6. Sorts(reqs[r]) /\ reqs[r].stage = "selected"
  BY <1>2 DEF BestInv, At
<1>7. BestShown(reqs'[r])
  BY <1>5, <1>6 DEF Sorts, BestShown, Ended
<1>8. Sorts(reqs'[r])
  BY <1>5, <1>6, <1>7 DEF Sorts, Ended
<1> QED BY <1>2, <1>4, <1>8, StageSorts DEF BestInv

\* What the end of an effect leaves.
LEMMA FinishSorts ==
    ASSUME WorkInv, BestInv, NEW r \in Requests, NEW effect, Finishes(r, effect)
    PROVE  (\A x \in Requests : Sorts(reqs'[x])) /\ QuietEntries(caches')
<1>1. /\ caches' = caches
      /\ reqs' = [reqs EXCEPT ![r].pending = @ \ {effect}]
  BY DEF Finishes
<1>2. reqs = [x \in Requests |-> reqs[x]] /\ \A x \in Requests : DOMAIN reqs[x] = Fields
  BY DEF WorkInv, Records
<1>3. reqs' = [x \in Requests |-> IF x = r THEN [reqs[r] EXCEPT !.pending = @ \ {effect}] ELSE reqs[x]]
  BY <1>1, <1>2
<1>4. \A x \in Requests, field \in Fields \ {"pending"} : reqs'[x][field] = reqs[x][field]
  BY <1>2, <1>3
<1>5. \A x \in Requests :
          /\ reqs'[x].stage = reqs[x].stage /\ reqs'[x].query = reqs[x].query
          /\ reqs'[x].candidates = reqs[x].candidates /\ reqs'[x].non_selected = reqs[x].non_selected
          /\ reqs'[x].filtered = reqs[x].filtered /\ reqs'[x].shortlist = reqs[x].shortlist
          /\ reqs'[x].found = reqs[x].found
  BY <1>4 DEF Fields
<1>6. ASSUME NEW x \in Requests PROVE Sorts(reqs'[x])
  <2>1. Sorts(reqs[x])
    BY DEF BestInv
  <2>2. BestShown(reqs[x]) => BestShown(reqs'[x])
    BY <1>5 DEF BestShown
  <2> QED BY <1>5, <2>1, <2>2 DEF Sorts
<1> QED BY <1>1, <1>6 DEF BestInv

\* The one write to Redis names no post twice.
LEMMA CachePostsSorts ==
    ASSUME WorkInv, BestInv, NEW r \in Requests, CachePosts(r)
    PROVE  BestInv'
<1> DEFINE q == reqs[r].query
           cs == reqs[r].candidates
           others == reqs[r].non_selected
           cached == CandidatesToCache(cs, others)
<1>1. Finishes(r, "post_cache") /\ "post_cache" \in reqs[r].pending
  BY DEF CachePosts, Finishes, CanFinish
<1>2. reqs[r].stage \in Ended /\ ~q.has_cached_posts /\ InShape(reqs[r]) /\ Sorts(reqs[r])
  BY <1>1 DEF WorkInv, InShape, BestInv
<1>3. /\ Listed(cs) /\ Candidates(q.prediction, cs)
      /\ Listed(others) /\ Candidates(q.prediction, others)
  BY <1>2 DEF InShape, Own
<1>4. TwoParts(cs, others)
  BY <1>2 DEF Sorts
<1>5. Apart(TweetIds(cs \o others)) /\ Listed(cs \o others)
  BY <1>3, <1>4, JoinedDiffers, Joined DEF TwoParts
<1>6. Listed(cached) /\ Drawn(cached, cs \o others)
  BY <1>3, CacheDrawn
<1> HIDE DEF cached
<1>7. Apart(TweetIds(cached))
  BY <1>5, <1>6, DrawnDiffers
<1>8. (\A x \in Requests : Sorts(reqs'[x])) /\ QuietEntries(caches')
  BY <1>1, FinishSorts
<1>9. ASSUME NEW key \in DOMAIN posts_cache' PROVE Apart(TweetIds(posts_cache'[key].posts))
  <2>1. CASE Fails(Faults(r), "redis_set", 0)
    BY <1>9, <2>1 DEF CachePosts, BestInv
  <2>2. CASE ~Fails(Faults(r), "redis_set", 0)
    <3> DEFINE entry == [posts |-> cached, expires |-> now + Limits.cache_ttl]
    <3>1. posts_cache' = Over([k \in {CachedPostsKey(q)} |-> entry], posts_cache)
      BY <2>2 DEF CachePosts, RedisPostCandidateCache, cached
    <3>2. entry.posts = cached
      OBVIOUS
    <3> HIDE DEF entry
    <3>3. CASE key = CachedPostsKey(q)
      <4>1. posts_cache'[key] = entry
        BY <1>9, <3>1, <3>3 DEF Over
      <4> QED BY <1>7, <3>2, <4>1
    <3>4. CASE key # CachedPostsKey(q)
      <4>1. key \in DOMAIN posts_cache /\ posts_cache'[key] = posts_cache[key]
        BY <1>9, <3>1, <3>4 DEF Over
      <4> QED BY <4>1 DEF BestInv
    <3> QED BY <3>3, <3>4
  <2> QED BY <2>1, <2>2
<1> QED BY <1>8, <1>9 DEF BestInv

\* An effect disorders nothing.
LEMMA EffectSorts ==
    ASSUME WorkInv, BestInv, NEW r \in Requests, RecordServed(r) \/ ForgetServed(r) \/ StampRequest(r)
    PROVE  BestInv'
<1>1. posts_cache' = posts_cache /\ \E effect : Finishes(r, effect)
  BY DEF RecordServed, ForgetServed, StampRequest
<1>2. (\A x \in Requests : Sorts(reqs'[x])) /\ QuietEntries(caches')
  BY <1>1, FinishSorts
<1> QED BY <1>1, <1>2 DEF BestInv

\* Every step keeps the three invariants.
LEMMA BestGoesOn ==
    ASSUME WorkInv, BestInv, [Next]_vars
    PROVE  BestInv'
<1>1. CASE UNCHANGED vars
  BY <1>1 DEF vars, BestInv, QuietEntries
<1>2. ASSUME NEW r \in Requests, Build(r) \/ Stage(r) \/ Effect(r) PROVE BestInv'
  BY <1>2, BuildSorts, HydrateForYouSorts, HydratePhoenixSorts, FetchSorts, HydrateSorts, RankSorts,
     PostSelectSorts, RespondSorts, CachePostsSorts, EffectSorts DEF Stage, Effect
<1> QED BY <1>1, <1>2 DEF Next

\* The invariant says what is claimed.
LEMMA BestShows ==
    ASSUME BestInv
    PROVE  BestOfConversation
<1> SUFFICES ASSUME NEW r \in Requests, reqs[r].stage \in {"selected", "answered"}
             PROVE  LET shown == reqs[r].candidates
                    IN  /\ \A i, j \in 1..Len(shown) : i # j =>
                              /\ ConversationId(shown[i]) # ConversationId(shown[j])
                              /\ OriginalTweetId(shown[i]) # OriginalTweetId(shown[j])
                        /\ \A c \in Range1(reqs[r].filtered), d \in Range1(shown) :
                              (/\ c.tweet_id \in Range1(reqs[r].shortlist) /\ c.score # None
                               /\ ConversationId(c) = ConversationId(d)
                               /\ ~ShouldDropReason(c.visibility) /\ ~Get(c.drop_ancillary, FALSE))
                              => Get(c.score, 0) <= Get(d.score, 0)
  BY DEF BestOfConversation
<1>1. BestShown(reqs[r])
  BY DEF BestInv, Sorts, Ended
<1> QED BY <1>1 DEF BestShown, Differing, Hidden

\* At first there is no post.
LEMMA InitialBest == Init => BestInv
<1> SUFFICES ASSUME Init PROVE BestInv
  OBVIOUS
<1>1. reqs = [r \in Requests |-> Idle] /\ caches = NoCaches /\ posts_cache = <<>>
  BY DEF Init
<1>2. \A r \in Requests : Sorts(reqs[r])
  BY <1>1 DEF Idle, Sorts, Ended
<1>3. DOMAIN <<>> = {}
  OBVIOUS
<1>4. QuietEntries(caches)
  BY <1>1, <1>3 DEF NoCaches, QuietEntries, CacheNames
<1>5. DOMAIN posts_cache = {}
  BY <1>1, <1>3
<1> QED BY <1>2, <1>4, <1>5 DEF BestInv

\* A conversation and an original post are shown once, and the conversation by
\* the best of the posts that were selected and not hidden: neither a cache,
\* a failed call nor what a filter behind the selection removes changes that.
THEOREM BestOfConversationShown == Spec => []BestOfConversation
<1>1. Init => HistoryInv /\ WorkInv /\ BestInv
  BY InitialWork, InitialBest
<1>2. HistoryInv /\ WorkInv /\ BestInv /\ [Next]_vars => (HistoryInv /\ WorkInv /\ BestInv)'
  BY EveryStepWorks, BestGoesOn
<1>3. HistoryInv /\ WorkInv /\ BestInv => BestOfConversation
  BY BestShows
<1> QED BY <1>1, <1>2, <1>3, PTL DEF Spec

(* ---------- What each step makes of a request ---------------------------- *)

\* A step leaves the other requests, and of this one all but some fields.
Changes(r, F) ==
    /\ \A x \in Requests \ {r} : reqs'[x] = reqs[x]
    /\ \A f \in Fields \ F : reqs'[r][f] = reqs[r][f]

\* A request that comes in takes one of its scenarios and the query of it.
LEMMA BuildMoves ==
    ASSUME Records, NEW r \in Requests, Build(r)
    PROVE  /\ At(r, "idle") /\ Changes(r, {"stage", "scenario", "outer", "query"})
           /\ \E sc \in Scenarios[r] :
                 /\ reqs'[r].stage = IF sc.surface = "scored_posts" THEN "asked" ELSE "built"
                 /\ reqs'[r].scenario = sc /\ reqs'[r].outer = AskedAt(sc, now + sc.gap)
                 /\ reqs'[r].query = AskedAt(sc, now + sc.gap)
           /\ StoresUnchanged /\ caches' = caches
<1>1. PICK sc \in Scenarios[r] :
          Becomes(r, [stage |-> IF sc.surface = "scored_posts" THEN "asked" ELSE "built",
                      scenario |-> sc, outer |-> AskedAt(sc, now + sc.gap),
                      query |-> AskedAt(sc, now + sc.gap)])
  BY DEF Build, AskedAt
<1> DEFINE q == AskedAt(sc, now + sc.gap)
           change == [stage |-> IF sc.surface = "scored_posts" THEN "asked" ELSE "built",
                      scenario |-> sc, outer |-> q, query |-> q]
<1>2. Becomes(r, change) /\ At(r, "idle") /\ StoresUnchanged /\ caches' = caches
  BY <1>1 DEF Build
<1> HIDE DEF q
<1>3. /\ DOMAIN change = {"stage", "scenario", "outer", "query"}
      /\ change.stage = IF sc.surface = "scored_posts" THEN "asked" ELSE "built"
      /\ change.scenario = sc /\ change.outer = q /\ change.query = q
  OBVIOUS
<1> HIDE DEF change
<1>4. DOMAIN change \subseteq Fields
  BY <1>3 DEF Fields
<1>5. /\ Changes(r, DOMAIN change)
      /\ \A f \in DOMAIN change : reqs'[r][f] = change[f]
  BY <1>2, <1>4, BecomesMeans DEF Changes
<1> QED BY <1>2, <1>3, <1>5 DEF q

\* A For You request reads the stores of the viewer.
LEMMA HydrateForYouMoves ==
    ASSUME Records, NEW r \in Requests, HydrateForYou(r)
    PROVE  /\ At(r, "built") /\ Changes(r, {"stage", "outer", "query"}) /\ reqs'[r].stage = "asked"
           /\ reqs'[r].outer = HydrateForYouQuery(reqs[r].outer, Faults(r), Responses(history), timestamps)
           /\ reqs'[r].query = reqs'[r].outer
           /\ StoresUnchanged /\ caches' = caches
<1> DEFINE q == HydrateForYouQuery(reqs[r].outer, Faults(r), Responses(history), timestamps)
           change == [stage |-> "asked", outer |-> q, query |-> q]
<1>1. At(r, "built") /\ Becomes(r, change) /\ StoresUnchanged /\ caches' = caches
  BY DEF HydrateForYou
<1> HIDE DEF q
<1>2. /\ DOMAIN change = {"stage", "outer", "query"} /\ change.stage = "asked"
      /\ change.outer = q /\ change.query = q
  OBVIOUS
<1> HIDE DEF change
<1>3. DOMAIN change \subseteq Fields
  BY <1>2 DEF Fields
<1>4. Changes(r, DOMAIN change) /\ \A f \in DOMAIN change : reqs'[r][f] = change[f]
  BY <1>1, <1>3, BecomesMeans DEF Changes
<1> QED BY <1>1, <1>2, <1>4 DEF q

\* The Phoenix pipeline completes the query.
LEMMA HydratePhoenixMoves ==
    ASSUME Records, NEW r \in Requests, HydratePhoenix(r)
    PROVE  /\ At(r, "asked") /\ Changes(r, {"stage", "query"}) /\ reqs'[r].stage = "hydrated"
           /\ reqs'[r].query = HydratePhoenixQuery(reqs[r].query, Faults(r),
                                                   Stored(CachedPostsKey(reqs[r].query)))
           /\ StoresUnchanged /\ caches' = caches
<1> DEFINE q == HydratePhoenixQuery(reqs[r].query, Faults(r), Stored(CachedPostsKey(reqs[r].query)))
           change == [stage |-> "hydrated", query |-> q]
<1>1. At(r, "asked") /\ Becomes(r, change) /\ StoresUnchanged /\ caches' = caches
  BY DEF HydratePhoenix
<1> HIDE DEF q
<1>2. DOMAIN change = {"stage", "query"} /\ change.stage = "hydrated" /\ change.query = q
  OBVIOUS
<1> HIDE DEF change
<1>3. DOMAIN change \subseteq Fields
  BY <1>2 DEF Fields
<1>4. Changes(r, DOMAIN change) /\ \A f \in DOMAIN change : reqs'[r][f] = change[f]
  BY <1>1, <1>3, BecomesMeans DEF Changes
<1> QED BY <1>1, <1>2, <1>4 DEF q

\* The sources deliver the candidates, and the hydrators look into the caches.
LEMMA FetchMoves ==
    ASSUME Records, NEW r \in Requests, Fetch(r)
    PROVE  LET q == reqs[r].query
           IN  /\ At(r, "hydrated") /\ Changes(r, {"stage", "candidates", "query", "found"})
               /\ reqs'[r].stage = "fetched"
               /\ reqs'[r].candidates = PhoenixCandidatesOf(q, Faults(r), now)
               /\ reqs'[r].query = [q EXCEPT !.network_replies = NetworkReplies(q, Faults(r))]
               /\ reqs'[r].found = Live(caches, now)
               /\ StoresUnchanged /\ caches' = caches
<1> DEFINE old == reqs[r].query
           q == [old EXCEPT !.network_replies = NetworkReplies(old, Faults(r))]
           cs == PhoenixCandidatesOf(old, Faults(r), now)
           live == Live(caches, now)
           change == [stage |-> "fetched", candidates |-> cs, query |-> q, found |-> live]
<1>1. At(r, "hydrated") /\ Becomes(r, change) /\ StoresUnchanged /\ caches' = caches
  BY DEF Fetch
<1> HIDE DEF q, cs, live
<1>2. /\ DOMAIN change = {"stage", "candidates", "query", "found"} /\ change.stage = "fetched"
      /\ change.candidates = cs /\ change.query = q /\ change.found = live
  OBVIOUS
<1> HIDE DEF change
<1>3. DOMAIN change \subseteq Fields
  BY <1>2 DEF Fields
<1>4. Changes(r, DOMAIN change) /\ \A f \in DOMAIN change : reqs'[r][f] = change[f]
  BY <1>1, <1>3, BecomesMeans DEF Changes
<1> QED BY <1>1, <1>2, <1>4 DEF q, cs, live

\* Candidates and caches gain what the hydrators learn.
LEMMA HydrateMoves ==
    ASSUME Records, NEW r \in Requests, Hydrate(r)
    PROVE  LET h == HydrateCandidates(reqs[r].query, Faults(r), reqs[r].candidates, reqs[r].found)
           IN  /\ At(r, "fetched") /\ Changes(r, {"stage", "found", "candidates", "retrieved"})
               /\ reqs'[r].stage = "enriched" /\ reqs'[r].candidates = h.candidates
               /\ caches' = Inserted(caches, h.inserts) /\ StoresUnchanged
<1> DEFINE h == HydrateCandidates(reqs[r].query, Faults(r), reqs[r].candidates, reqs[r].found)
           change == [stage |-> "enriched", found |-> NoCaches,
                      candidates |-> h.candidates, retrieved |-> Ids(h.candidates)]
<1>1. At(r, "fetched") /\ Becomes(r, change) /\ StoresUnchanged /\ caches' = Inserted(caches, h.inserts)
  BY DEF Hydrate
<1> HIDE DEF h
<1>2. /\ DOMAIN change = {"stage", "found", "candidates", "retrieved"} /\ change.stage = "enriched"
      /\ change.candidates = h.candidates
  OBVIOUS
<1> HIDE DEF change
<1>3. DOMAIN change \subseteq Fields
  BY <1>2 DEF Fields
<1>4. Changes(r, DOMAIN change) /\ \A f \in DOMAIN change : reqs'[r][f] = change[f]
  BY <1>1, <1>3, BecomesMeans DEF Changes
<1> QED BY <1>1, <1>2, <1>4 DEF h

\* The candidates become the selected ones.
LEMMA RankMoves ==
    ASSUME Records, NEW r \in Requests, Rank(r)
    PROVE  LET f == Filter(reqs[r].query, now, reqs[r].candidates)
               s == TopK(Score(reqs[r].query, Faults(r), now, f.kept))
           IN  /\ At(r, "enriched")
               /\ Changes(r, {"stage", "candidates", "shortlist", "non_selected", "filtered", "found"})
               /\ reqs'[r].stage = "ranked" /\ reqs'[r].candidates = s.selected
               /\ reqs'[r].non_selected = s.non_selected /\ reqs'[r].found = Live(caches, now)
               /\ StoresUnchanged /\ caches' = caches
<1> DEFINE f == Filter(reqs[r].query, now, reqs[r].candidates)
           s == TopK(Score(reqs[r].query, Faults(r), now, f.kept))
           live == Live(caches, now)
           change == [stage |-> "ranked", candidates |-> s.selected,
                      shortlist |-> Ids(s.selected),
                      non_selected |-> s.non_selected, filtered |-> f.removed,
                      found |-> live]
<1>1. At(r, "enriched") /\ Becomes(r, change) /\ StoresUnchanged /\ caches' = caches
  BY DEF Rank
<1> HIDE DEF s, f, live
<1>2. /\ DOMAIN change = {"stage", "candidates", "shortlist", "non_selected", "filtered", "found"}
      /\ change.stage = "ranked" /\ change.candidates = s.selected
      /\ change.non_selected = s.non_selected /\ change.found = live
  OBVIOUS
<1> HIDE DEF change
<1>3. DOMAIN change \subseteq Fields
  BY <1>2 DEF Fields
<1>4. Changes(r, DOMAIN change) /\ \A x \in DOMAIN change : reqs'[r][x] = change[x]
  BY <1>1, <1>3, BecomesMeans DEF Changes
<1> QED BY <1>1, <1>2, <1>4 DEF s, f, live

\* The posts of the response are the selected ones that the last filters leave.
LEMMA PostSelectMoves ==
    ASSUME Records, NEW r \in Requests, PostSelect(r)
    PROVE  LET q == reqs[r].query
               h == HydratePostSelection(q, Faults(r), reqs[r].candidates, reqs[r].found)
               s == SplitOff(FilterPostSelection(q, now, h.candidates).kept, Limits.result_size)
           IN  /\ At(r, "ranked")
               /\ Changes(r, {"stage", "found", "candidates", "non_selected", "filtered", "posts",
                              "pending", "published"})
               /\ reqs'[r].stage = IF ForYou(r) THEN "selected" ELSE "answered"
               /\ reqs'[r].candidates = s.selected
               /\ reqs'[r].non_selected = reqs[r].non_selected \o s.non_selected
               /\ reqs'[r].posts = Some(MapSeq(s.selected, ToScoredPost))
               /\ reqs'[r].pending \subseteq {"post_cache"}
               /\ StoresUnchanged /\ caches' = Inserted(caches, Dated(h.inserts, now))
<1> DEFINE q == reqs[r].query
           h == HydratePostSelection(q, Faults(r), reqs[r].candidates, reqs[r].found)
           f == FilterPostSelection(q, now, h.candidates)
           s == SplitOff(f.kept, Limits.result_size)
           others == reqs[r].non_selected \o s.non_selected
           posts == Some(MapSeq(s.selected, ToScoredPost))
           change == [stage |-> IF ForYou(r) THEN "selected" ELSE "answered",
                      found |-> NoCaches, candidates |-> s.selected,
                      non_selected |-> others,
                      filtered |-> reqs[r].filtered \o f.removed,
                      posts |-> posts,
                      pending |-> PhoenixEffects(q),
                      published |-> PhoenixPublishes(q, Faults(r), reqs[r].scenario.sampled,
                                                     s.selected, others)]
<1>1. /\ At(r, "ranked") /\ Becomes(r, change) /\ StoresUnchanged
      /\ caches' = Inserted(caches, Dated(h.inserts, now))
  BY DEF PostSelect
<1> HIDE DEF q, h, f, s, others, posts
<1>2. /\ DOMAIN change = {"stage", "found", "candidates", "non_selected", "filtered", "posts",
                          "pending", "published"}
      /\ change.stage = IF ForYou(r) THEN "selected" ELSE "answered"
      /\ change.candidates = s.selected /\ change.non_selected = others /\ change.posts = posts
      /\ change.pending = PhoenixEffects(q)
  OBVIOUS
<1> HIDE DEF change
<1>3. DOMAIN change \subseteq Fields
  BY <1>2 DEF Fields
<1>4. Changes(r, DOMAIN change) /\ \A x \in DOMAIN change : reqs'[r][x] = change[x]
  BY <1>1, <1>3, BecomesMeans DEF Changes
<1>5. /\ reqs'[r].stage = change.stage /\ reqs'[r].candidates = change.candidates
      /\ reqs'[r].non_selected = change.non_selected /\ reqs'[r].posts = change.posts
      /\ reqs'[r].pending = change.pending
  BY <1>2, <1>4
<1>6. PhoenixEffects(q) \subseteq {"post_cache"}
  BY DEF PhoenixEffects
<1> QED BY <1>1, <1>2, <1>4, <1>5, <1>6 DEF q, h, f, s, others, posts

\* A For You request is answered with the items that are blended.
LEMMA RespondMoves ==
    ASSUME Records, NEW r \in Requests, Respond(r)
    PROVE  /\ At(r, "selected") /\ Changes(r, {"stage", "items", "pending", "published"})
           /\ reqs'[r].stage = "answered" /\ reqs'[r].items = Feeds(reqs[r])
           /\ StoresUnchanged /\ caches' = caches
<1> DEFINE q == reqs[r].outer
           sc == reqs[r].scenario
           blended == BlenderSelect(sc.blender, ForYouCandidates(q, sc.faults, reqs[r].posts, sc.ads))
           s == SplitOff(blended.selected, Limits.for_you_size)
           others == blended.non_selected \o s.non_selected
           change == [stage |-> "answered", items |-> s.selected,
                      pending |-> reqs[r].pending \cup ForYouEffects(q),
                      published |-> Over(ForYouPublishes(q, sc.faults, s.selected, others),
                                         reqs[r].published)]
<1>1. At(r, "selected") /\ Becomes(r, change) /\ StoresUnchanged /\ caches' = caches
  BY DEF Respond, SourcesJoined
<1>2. s.selected = Feeds(reqs[r])
  BY DEF Feeds
<1> HIDE DEF s
<1>3. /\ DOMAIN change = {"stage", "items", "pending", "published"} /\ change.stage = "answered"
      /\ change.items = s.selected
  OBVIOUS
<1> HIDE DEF change
<1>4. DOMAIN change \subseteq Fields
  BY <1>3 DEF Fields
<1>5. Changes(r, DOMAIN change) /\ \A x \in DOMAIN change : reqs'[r][x] = change[x]
  BY <1>1, <1>4, BecomesMeans DEF Changes
<1> QED BY <1>1, <1>2, <1>3, <1>5

\* The end of an effect takes it off the list of pending ones.
LEMMA FinishMoves ==
    ASSUME Records, NEW r \in Requests, NEW effect, Finishes(r, effect)
    PROVE  Changes(r, {"pending"}) /\ effect \in reqs[r].pending
           /\ reqs'[r].pending = reqs[r].pending \ {effect} /\ caches' = caches
<1>1. /\ caches' = caches /\ effect \in reqs[r].pending
      /\ reqs' = [reqs EXCEPT ![r].pending = @ \ {effect}]
  BY DEF Finishes, CanFinish
<1>2. reqs = [x \in Requests |-> reqs[x]] /\ \A x \in Requests : DOMAIN reqs[x] = Fields
  BY DEF Records
<1>3. reqs' = [x \in Requests |-> IF x = r THEN [reqs[r] EXCEPT !.pending = @ \ {effect}] ELSE reqs[x]]
  BY <1>1, <1>2
<1>4. "pending" \in Fields
  BY DEF Fields
<1> QED BY <1>1, <1>2, <1>3, <1>4 DEF Changes

(* ---------- What a For You request blends -------------------------------- *)

\* A request is one of those that may come; its posts are its candidates, and
\* its items are blended from them.
Carries(r, v) ==
    /\ v.stage # "idle" => v.scenario \in Scenarios[r]
    /\ v.stage \in Ended => /\ Typed(v.candidates)
                            /\ v.posts = Some(MapSeq(v.candidates, ToScoredPost))
    /\ v.stage = "answered" /\ v.scenario.surface # "scored_posts" => v.items = Feeds(v)

FedInv == \A r \in Requests : Carries(r, reqs[r])

\* A stage before the response adds nothing to this.
LEMMA OnTheWay ==
    ASSUME FedInv, NEW r \in Requests, NEW F, Changes(r, F), "scenario" \notin F,
           reqs[r].stage # "idle", reqs'[r].stage \notin Ended
    PROVE  FedInv'
<1>1. reqs'[r].scenario = reqs[r].scenario
  BY DEF Changes, Fields
<1>2. Carries(r, reqs'[r])
  BY <1>1 DEF FedInv, Carries, Ended
<1>3. \A x \in Requests \ {r} : reqs'[x] = reqs[x]
  BY DEF Changes
<1> QED BY <1>2, <1>3 DEF FedInv

\* What comes before the response takes nothing of this away.
LEMMA StageFeeds ==
    ASSUME WorkInv, FedInv, NEW r \in Requests,
           HydrateForYou(r) \/ HydratePhoenix(r) \/ Fetch(r) \/ Hydrate(r) \/ Rank(r)
    PROVE  FedInv'
<1>1. Records
  BY DEF WorkInv
<1>2. CASE HydrateForYou(r)
  <2>1. /\ At(r, "built") /\ Changes(r, {"stage", "outer", "query"}) /\ reqs'[r].stage = "asked"
    BY <1>1, <1>2, HydrateForYouMoves
  <2> QED BY <2>1, OnTheWay DEF At, Ended
<1>3. CASE HydratePhoenix(r)
  <2>1. At(r, "asked") /\ Changes(r, {"stage", "query"}) /\ reqs'[r].stage = "hydrated"
    BY <1>1, <1>3, HydratePhoenixMoves
  <2> QED BY <2>1, OnTheWay DEF At, Ended
<1>4. CASE Fetch(r)
  <2>1. /\ At(r, "hydrated") /\ Changes(r, {"stage", "candidates", "query", "found"})
        /\ reqs'[r].stage = "fetched"
    BY <1>1, <1>4, FetchMoves
  <2> QED BY <2>1, OnTheWay DEF At, Ended
<1>5. CASE Hydrate(r)
  <2>1. /\ At(r, "fetched") /\ Changes(r, {"stage", "found", "candidates", "retrieved"})
        /\ reqs'[r].stage = "enriched"
    BY <1>1, <1>5, HydrateMoves
  <2> QED BY <2>1, OnTheWay DEF At, Ended
<1>6. CASE Rank(r)
  <2>1. /\ At(r, "enriched") /\ reqs'[r].stage = "ranked"
        /\ Changes(r, {"stage", "candidates", "shortlist", "non_selected", "filtered", "found"})
    BY <1>1, <1>6, RankMoves
  <2> QED BY <2>1, OnTheWay DEF At, Ended
<1> QED BY <1>2, <1>3, <1>4, <1>5, <1>6

\* A request that comes in is one of its scenarios.
LEMMA BuildFeeds ==
    ASSUME WorkInv, FedInv, NEW r \in Requests, Build(r)
    PROVE  FedInv'
<1>1. Records
  BY DEF WorkInv
<1>2. Changes(r, {"stage", "scenario", "outer", "query"})
  BY <1>1, BuildMoves
<1>3. PICK sc \in Scenarios[r] :
          /\ reqs'[r].stage = IF sc.surface = "scored_posts" THEN "asked" ELSE "built"
          /\ reqs'[r].scenario = sc
  BY <1>1, BuildMoves
<1>4. Carries(r, reqs'[r])
  BY <1>3 DEF Carries, Ended
<1> QED BY <1>2, <1>4 DEF FedInv, Changes

\* The posts of the response are the candidates selected.
LEMMA PostSelectFeeds ==
    ASSUME WorkInv, BestInv, FedInv, NEW r \in Requests, PostSelect(r)
    PROVE  FedInv'
<1> DEFINE q == reqs[r].query
           cs == reqs[r].candidates
           h == HydratePostSelection(q, Faults(r), cs, reqs[r].found)
           kept == FilterPostSelection(q, now, h.candidates).kept
           s == SplitOff(kept, Limits.result_size)
<1>1. Records
  BY DEF WorkInv
<1>2. /\ At(r, "ranked")
      /\ Changes(r, {"stage", "found", "candidates", "non_selected", "filtered", "posts",
                     "pending", "published"})
      /\ reqs'[r].stage = IF ForYou(r) THEN "selected" ELSE "answered"
      /\ reqs'[r].candidates = s.selected
      /\ reqs'[r].posts = Some(MapSeq(s.selected, ToScoredPost))
  BY <1>1, PostSelectMoves
<1>3. Typed(cs) /\ QuietCache(reqs[r].found.brand)
  BY <1>2 DEF BestInv, Sorts, At
<1>4. Listed(cs) /\ HarmlessCache(reqs[r].found.brand)
  BY <1>2 DEF WorkInv, InShape, At, Own
<1>5. PICK p : Candidates(p, cs)
  BY <1>3 DEF Typed
<1>6. Listed(h.candidates) /\ Candidates(p, h.candidates)
  <2> DEFINE found == reqs[r].found
  <2> HIDE DEF found, cs, q
  <2> QED BY <1>3, <1>4, <1>5, PostSelectionSpares DEF found
<1> HIDE DEF h
<1>7. Listed(kept) /\ Candidates(p, kept)
  BY <1>6, FilterKeeps
<1> HIDE DEF kept
<1>8. Typed(s.selected)
  <2>1. Limits.result_size \in Nat
    BY LimitsAssumption
  <2> QED BY <1>7, <2>1, SplitKeeps DEF Typed
<1>9. reqs'[r].scenario = reqs[r].scenario
  BY <1>2 DEF Changes, Fields
<1> HIDE DEF s
<1>10. reqs[r].scenario \in Scenarios[r]
  BY <1>2 DEF FedInv, Carries, At
<1>11. Carries(r, reqs'[r])
  BY <1>2, <1>8, <1>9, <1>10 DEF Carries, ForYou
<1> QED BY <1>2, <1>11 DEF FedInv, Changes

\* The items are blended from the posts.
LEMMA RespondFeeds ==
    ASSUME WorkInv, FedInv, NEW r \in Requests, Respond(r)
    PROVE  FedInv'
<1>1. Records
  BY DEF WorkInv
<1>2. /\ At(r, "selected") /\ Changes(r, {"stage", "items", "pending", "published"})
      /\ reqs'[r].stage = "answered" /\ reqs'[r].items = Feeds(reqs[r])
  BY <1>1, RespondMoves
<1>3. /\ reqs'[r].scenario = reqs[r].scenario /\ reqs'[r].outer = reqs[r].outer
      /\ reqs'[r].posts = reqs[r].posts /\ reqs'[r].candidates = reqs[r].candidates
  BY <1>2 DEF Changes, Fields
<1>4. Feeds(reqs'[r]) = Feeds(reqs[r])
  BY <1>3 DEF Feeds
<1>5. Carries(r, reqs[r])
  BY DEF FedInv
<1>6. Carries(r, reqs'[r])
  BY <1>2, <1>3, <1>4, <1>5 DEF Carries, At, Ended
<1> QED BY <1>2, <1>6 DEF FedInv, Changes

\* An effect leaves what was answered.
LEMMA EffectFeeds ==
    ASSUME WorkInv, FedInv, NEW r \in Requests, Effect(r)
    PROVE  FedInv'
<1>1. PICK effect : Finishes(r, effect)
  BY DEF Effect, CachePosts, RecordServed, ForgetServed, StampRequest
<1>2. Changes(r, {"pending"})
  BY <1>1, FinishMoves DEF WorkInv
<1>3. /\ reqs'[r].scenario = reqs[r].scenario /\ reqs'[r].outer = reqs[r].outer
      /\ reqs'[r].posts = reqs[r].posts /\ reqs'[r].candidates = reqs[r].candidates
      /\ reqs'[r].stage = reqs[r].stage /\ reqs'[r].items = reqs[r].items
  BY <1>2 DEF Changes, Fields
<1>4. Feeds(reqs'[r]) = Feeds(reqs[r])
  BY <1>3 DEF Feeds
<1>5. Carries(r, reqs[r])
  BY DEF FedInv
<1>6. Carries(r, reqs'[r])
  BY <1>3, <1>4, <1>5 DEF Carries
<1> QED BY <1>2, <1>6 DEF FedInv, Changes

\* Every step keeps it.
LEMMA FeedGoesOn ==
    ASSUME WorkInv, BestInv, FedInv, [Next]_vars
    PROVE  FedInv'
<1>1. CASE UNCHANGED vars
  BY <1>1 DEF vars, FedInv
<1>2. ASSUME NEW r \in Requests, Build(r) \/ Stage(r) \/ Effect(r) PROVE FedInv'
  BY <1>2, BuildFeeds, StageFeeds, PostSelectFeeds, RespondFeeds, EffectFeeds DEF Stage
<1> QED BY <1>1, <1>2 DEF Next

\* It holds before the first request.
LEMMA InitialFeed == Init => FedInv
<1> SUFFICES ASSUME Init PROVE FedInv
  OBVIOUS
<1>1. reqs = [r \in Requests |-> Idle]
  BY DEF Init
<1> QED BY <1>1 DEF Idle, FedInv, Carries, Ended

\* The three invariants together.
LEMMA FedAlways == Spec => [](HistoryInv /\ WorkInv /\ BestInv /\ FedInv)
<1>1. Init => HistoryInv /\ WorkInv /\ BestInv /\ FedInv
  BY InitialWork, InitialBest, InitialFeed
<1>2. HistoryInv /\ WorkInv /\ BestInv /\ FedInv /\ [Next]_vars
         => (HistoryInv /\ WorkInv /\ BestInv /\ FedInv)'
  BY EveryStepWorks, BestGoesOn, FeedGoesOn
<1> QED BY <1>1, <1>2, PTL DEF Spec

(* ---------- The feed a For You request is answered with ------------------ *)

\* The strip of a response begins what a blender made of its posts and ads.
BlendedFrom(b, r) ==
    Blended(b, Delivered(r).posts, Delivered(r).ads,
            IF reqs[r].scenario.blender = "safe_gap" THEN DefaultSpacing.min
            ELSE ComputeSpacing(Delivered(r).ads).requested,
            reqs[r].scenario.blender # "safe_gap", reqs[r].scenario.blender = "safe_gap")

\* What is shown of posts and ads is the beginning of what a blender laid out.
LEMMA StripBegins ==
    ASSUME WorkInv, BestInv, FedInv, NEW r \in Requests, Fed(r)
    PROVE  /\ Feed(reqs[r].items) /\ Ranked(Delivered(r).posts)
           /\ Delivered(r).posts = MapSeq(reqs[r].candidates, ToScoredPost)
           /\ \A i \in 1 .. Len(reqs[r].items) :
                 /\ reqs[r].items[i].kind \in {"post", "ad", "wtf", "prompt", "pth"}
                 /\ reqs[r].items[i].kind = "wtf" =>
                       reqs[r].outer.wtf_eligible /\ reqs[r].items[i].body # <<>>
           /\ \E b, t : /\ BlendedFrom(b, r) /\ Parts(b, Strip(r), t)
                        /\ ~CutShort(r) => Len(t) = 0
<1> DEFINE v == reqs[r]
           sc == v.scenario
           cs == v.candidates
           ps == MapSeq(cs, ToScoredPost)
           ads == AdsOf(v.outer, sc.faults, sc.ads)
           items == ForYouCandidates(v.outer, sc.faults, Some(ps), sc.ads)
           b == Blend(sc.blender, ps, ads)
           n == Limits.for_you_size
           s == Take(Arrange(items, b).selected, n)
<1>1. v.stage = "answered" /\ sc.surface # "scored_posts"
  BY DEF Fed, Responded, At, ForYou
<1>2. /\ sc \in Scenarios[r] /\ Typed(cs) /\ v.posts = Some(ps) /\ v.items = Feeds(v)
  BY <1>1 DEF FedInv, Carries, Ended
<1>3. Listed(cs)
  BY <1>1 DEF WorkInv, InShape, Own, Ended
<1>4. Differing(cs)
  BY <1>1 DEF BestInv, Sorts, BestShown, Ended
<1>5. Ranked(ps) /\ Listed(ps)
  BY <1>2, <1>3, <1>4, ShownRanked DEF Ranked
<1>6. Positioned(sc.ads)
  BY <1>2, RequestsAssumption DEF Positioned, Listed
<1>7. Positioned(ads)
  <2>1. Positioned(<<>>)
    BY DEF Positioned, Listed
  <2> QED BY <1>6, <2>1 DEF AdsOf
<1> HIDE DEF ps, ads
<1>8. /\ Feed(items)
      /\ Bodies(OfKind(items, "post")) = ps
      /\ Bodies(OfKind(items, "ad")) = ads
      /\ \A body \in Recommended(items) : v.outer.wtf_eligible /\ body # <<>>
  BY <1>5, <1>6, Gathered DEF Positioned, ads
<1>9. v.items = s
  <2>1. Feeds(v) = SplitOff(BlenderSelect(sc.blender, ForYouCandidates(v.outer, sc.faults, v.posts, sc.ads)).selected,
                            Limits.for_you_size).selected
    BY DEF Feeds
  <2>2. v.items = SplitOff(BlenderSelect(sc.blender, items).selected, n).selected
    BY <1>2, <2>1
  <2> HIDE DEF items
  <2>3. BlenderSelect(sc.blender, items) = Arrange(items, b)
    BY <1>8 DEF BlenderSelect
  <2> HIDE DEF b
  <2> QED BY <2>2, <2>3 DEF SplitOff
<1> HIDE DEF items
<1>10. Delivered(r).posts = ps /\ Delivered(r).ads = ads
  BY <1>2, Gets DEF Delivered, ads, AdsOf, Faults
<1>11. BlendedFrom(b, r)
  <2>1. CASE sc.blender = "safe_gap"
    <3>1. b = SafeGapBlend(ps, ads)
      BY <2>1 DEF Blend
    <3> HIDE DEF b
    <3> QED BY <1>5, <1>7, <1>10, <2>1, <3>1, SafeGapBlended DEF BlendedFrom
  <2>2. CASE sc.blender # "safe_gap"
    <3>1. b = PartitionOrganicBlend(ps, ads)
      BY <2>2 DEF Blend
    <3> HIDE DEF b
    <3> QED BY <1>5, <1>7, <1>10, <2>2, <3>1, PartitionBlended DEF BlendedFrom
  <2> QED BY <2>1, <2>2
<1> HIDE DEF b
<1>12. Mixed(b)
  BY <1>11 DEF BlendedFrom, Blended
<1>13. n \in Nat
  BY LimitsAssumption
<1> HIDE DEF n
<1>14. /\ Retains(s, OfKinds(s, Blends), Recommended(items))
       /\ \E t : Parts(b, OfKinds(s, Blends), t) /\ (Len(s) # n => Len(t) = 0)
  BY <1>8, <1>12, <1>13, Arranged
<1> HIDE DEF s
<1>15. Strip(r) = OfKinds(s, Blends)
  BY <1>9 DEF Strip, Blends
<1>16. PICK t : Parts(b, Strip(r), t) /\ (Len(s) # n => Len(t) = 0)
  BY <1>14, <1>15
<1>17. ~CutShort(r) => Len(s) # n
  BY <1>9 DEF CutShort, n
<1>18. Feed(v.items) /\ \A i \in 1 .. Len(v.items) : Suits(v.items[i], Recommended(items))
  BY <1>9, <1>14 DEF Retains
<1>19. Delivered(r).posts = MapSeq(cs, ToScoredPost)
  BY <1>10 DEF ps
<1>20. \E c, u : BlendedFrom(c, r) /\ Parts(c, Strip(r), u) /\ (~CutShort(r) => Len(u) = 0)
  BY <1>11, <1>16, <1>17
<1> QED BY <1>5, <1>8, <1>10, <1>18, <1>19, <1>20 DEF Suits

\* Between two ads there are as many posts as asked for.
LEMMA FeedIsSpaced ==
    ASSUME WorkInv, BestInv, FedInv
    PROVE  AdSpacing
<1> SUFFICES ASSUME NEW r \in Requests, Fed(r),
                    NEW i \in AdsAt(Strip(r)), NEW j \in AdsAt(Strip(r)), i < j
             PROVE  j - i > (IF reqs[r].scenario.blender = "safe_gap" THEN DefaultSpacing.min
                             ELSE ComputeSpacing(Delivered(r).ads).requested)
  BY DEF AdSpacing
<1> DEFINE gap == IF reqs[r].scenario.blender = "safe_gap" THEN DefaultSpacing.min
                  ELSE ComputeSpacing(Delivered(r).ads).requested
           strip == Strip(r)
<1>1. PICK b, t : BlendedFrom(b, r) /\ Parts(b, strip, t)
  BY StripBegins
<1>2. Mixed(b) /\ SpacedBy(b, gap)
  BY <1>1 DEF BlendedFrom, Blended
<1> HIDE DEF gap, strip
<1>3. Listed(b) /\ Listed(strip) /\ Begins(strip, b)
  BY <1>1, <1>2, StripOf
<1>4. SpacedBy(strip, gap)
  BY <1>2, <1>3, BeginsSpaced
<1> QED BY <1>4 DEF SpacedBy, AdsAt, strip, gap

\* No ad stands beside a post its controls exclude.
LEMMA FeedDoesNotClash ==
    ASSUME WorkInv, BestInv, FedInv
    PROVE  NoClashBesideAds
<1> SUFFICES ASSUME NEW r \in Requests, Fed(r), reqs[r].scenario.blender = "partition",
                    NEW i \in AdsAt(Strip(r)), i < Len(Strip(r))
             PROVE  ~Clashes(Strip(r)[i].body, Strip(r)[i - 1].body, Strip(r)[i + 1].body)
  BY DEF NoClashBesideAds
<1> DEFINE strip == Strip(r)
<1>1. PICK b, t : BlendedFrom(b, r) /\ Parts(b, strip, t)
  BY StripBegins
<1>2. reqs[r].scenario.blender # "safe_gap"
  OBVIOUS
<1>3. Mixed(b) /\ Guarded(b, TRUE)
  BY <1>1, <1>2 DEF BlendedFrom, Blended
<1> HIDE DEF strip
<1>4. Listed(b) /\ Listed(strip) /\ Begins(strip, b)
  BY <1>1, <1>3, StripOf
<1>5. i \in 1 .. Len(strip) /\ strip[i].kind = "ad" /\ i < Len(strip)
  BY DEF AdsAt, strip
<1>6. Neighbours(strip, i, TRUE)
  BY <1>3, <1>4, <1>5, BeginsGuarded
<1> QED BY <1>6 DEF Neighbours, strip

\* The posts of the feed are those of the response.
LEMMA FeedLosesNoPost ==
    ASSUME WorkInv, BestInv, FedInv
    PROVE  FeedKeepsPosts
<1> SUFFICES ASSUME NEW r \in Requests, Fed(r)
             PROVE  LET posts == Delivered(r).posts
                        shown == Bodies(OfKind(Strip(r), "post"))
                        Ranks(p) == {i \in 1..Len(posts) : posts[i] = p}
                    IN  /\ \A p \in Range1(shown) : Ranks(p) # {}
                        /\ \A i, j \in 1..Len(shown) : i # j => shown[i] # shown[j]
                        /\ Len(shown) + Len(Delivered(r).ads) < ResultSize /\ ~CutShort(r)
                              => Len(shown) = Len(posts)
                        /\ reqs[r].scenario.blender = "safe_gap" => shown = Take(posts, Len(shown))
  BY DEF FeedKeepsPosts
<1> DEFINE posts == Delivered(r).posts
           ads == Delivered(r).ads
           strip == Strip(r)
           shown == ShownOf(strip)
           Ranks(p) == {i \in 1..Len(posts) : posts[i] = p}
<1>1. PICK b, t : BlendedFrom(b, r) /\ Parts(b, strip, t) /\ (~CutShort(r) => Len(t) = 0)
  BY StripBegins
<1>2. Ranked(posts)
  BY StripBegins
<1>3. Listed(posts) /\ Apart(posts) /\ Len(posts) \in Nat
  BY <1>2, ListedOver DEF Ranked
<1> DEFINE all == ShownOf(b)
<1>4. /\ Mixed(b) /\ Drawn(all, posts)
      /\ Len(all) + Len(ads) < ResultSize => Len(all) = Len(posts)
      /\ reqs[r].scenario.blender = "safe_gap" => all = Take(posts, Len(all))
  BY <1>1 DEF BlendedFrom, Blended
<1> HIDE DEF posts, ads, strip
<1>5. /\ Listed(shown) /\ Listed(all) /\ Len(shown) \in Nat /\ Len(all) \in Nat
      /\ Len(shown) <= Len(all) /\ Drawn(shown, all) /\ shown = Take(all, Len(shown))
  BY <1>1, <1>4, StripShows
<1>6. ~CutShort(r) => shown = all
  <2> SUFFICES ASSUME ~CutShort(r) PROVE shown = all
    OBVIOUS
  <2>1. Listed(b) /\ Listed(strip) /\ Begins(strip, b) /\ Len(strip) = Len(b) /\ Len(strip) \in Nat
    BY <1>1, <1>4, StripOf
  <2>2. Listed(strip) /\ Listed(t) /\ b = strip \o t
    BY <1>1 DEF Parts
  <2>3. t = <<>>
    BY <1>1, <2>2 DEF Listed
  <2>4. b = strip
    BY <2>2, <2>3 DEF Listed
  <2> QED BY <2>4
<1> HIDE DEF shown, all
<1>7. Drawn(shown, posts)
  BY <1>4, <1>5, DrawnTwice
<1>8. PICK at \in [1 .. Len(shown) -> 1 .. Len(posts)] :
          /\ \A k \in 1 .. Len(shown) : shown[k] = posts[at[k]]
          /\ \A j, k \in 1 .. Len(shown) : j # k => at[j] # at[k]
  BY <1>7 DEF Drawn
<1>9. \A p \in Range1(shown) : Ranks(p) # {}
  <2> SUFFICES ASSUME NEW p \in Range1(shown) PROVE Ranks(p) # {}
    OBVIOUS
  <2>1. PICK k \in 1 .. Len(shown) : p = shown[k]
    BY DEF Range1
  <2>2. at[k] \in Ranks(p)
    BY <1>8, <2>1
  <2> QED BY <2>2
<1>10. \A i, j \in 1 .. Len(shown) : i # j => shown[i] # shown[j]
  <2> SUFFICES ASSUME NEW i \in 1 .. Len(shown), NEW j \in 1 .. Len(shown), i # j
               PROVE  shown[i] # shown[j]
    OBVIOUS
  <2>1. at[i] \in 1 .. Len(posts) /\ at[j] \in 1 .. Len(posts) /\ at[i] # at[j]
    BY <1>8
  <2>2. posts[at[i]] # posts[at[j]]
    BY <1>3, <2>1 DEF Apart
  <2> QED BY <1>8, <2>2
<1>11. Len(shown) + Len(ads) < ResultSize /\ ~CutShort(r) => Len(shown) = Len(posts)
  BY <1>4, <1>6
<1>12. reqs[r].scenario.blender = "safe_gap" => shown = Take(posts, Len(shown))
  <2> SUFFICES ASSUME reqs[r].scenario.blender = "safe_gap" PROVE shown = Take(posts, Len(shown))
    OBVIOUS
  <2> DEFINE m == Len(all)
             k == Len(shown)
  <2>1. m \in Nat /\ k \in Nat /\ k <= m
    BY <1>5
  <2>2. m <= Len(posts)
    <3>1. Len(all) = Least(m, Len(posts))
      BY <1>3, <1>4, <2>1, CutInTwo
    <3> HIDE DEF m
    <3>2. m = Least(m, Len(posts))
      BY <3>1 DEF m
    <3> QED BY <1>3, <2>1, <3>2 DEF Least
  <2> HIDE DEF m, k
  <2>3. all = Take(posts, m) /\ shown = Take(all, k)
    BY <1>4, <1>5 DEF m, k
  <2>4. Take(Take(posts, m), k) = Take(posts, k)
    BY <1>3, <2>1, <2>2, TakenTwice
  <2>5. shown = Take(posts, k)
    BY <2>3, <2>4
  <2> QED BY <2>5 DEF k
<1> QED BY <1>9, <1>10, <1>11, <1>12 DEF posts, ads, strip, shown, ShownOf

\* From one ad to the next there are as many posts as the blender spaces by,
\* whatever modules stand between and wherever the answer is cut.
THEOREM AdsAreSpaced == Spec => []AdSpacing
<1>1. HistoryInv /\ WorkInv /\ BestInv /\ FedInv => AdSpacing
  BY FeedIsSpaced
<1> QED BY <1>1, FedAlways, PTL

\* What the partition blender puts beside an ad, its adjacency control allows.
THEOREM NoAdClashes == Spec => []NoClashBesideAds
<1>1. HistoryInv /\ WorkInv /\ BestInv /\ FedInv => NoClashBesideAds
  BY FeedDoesNotClash
<1> QED BY <1>1, FedAlways, PTL

\* Blending loses and repeats no post, and the safe-gap blender reorders none.
THEOREM NoPostIsLost == Spec => []FeedKeepsPosts
<1>1. HistoryInv /\ WorkInv /\ BestInv /\ FedInv => FeedKeepsPosts
  BY FeedLosesNoPost
<1> QED BY <1>1, FedAlways, PTL

(* ---------- What a query is told ------------------------------------------ *)

\* What of a query no hydrator changes.
Standing == {"params", "topic_ids", "in_network_only", "exclude_videos", "is_bottom", "context",
             "request_time"}

\* A query has read its history, if it has one.
HasRead(q) == q.served_history = <<>> \/ ReadFrom(q, q.served_history)

\* What a request was told of its viewer.
TellsOf == Standing \cup {"served_history", "served_ids", "wtf_eligible", "followed"}

Told(v) ==
    /\ TellsOf \subseteq DOMAIN v.outer /\ TellsOf \subseteq DOMAIN v.query
    /\ HasRead(v.outer) /\ v.outer.followed = {}
    /\ v.stage \in {"built", "asked"} => v.query = v.outer
    /\ \A f \in Standing \cup {"served_ids"} : v.query[f] = v.outer[f]
    /\ v.query.followed \in {{}, World.followed}

ToldInv == \A r \in Requests : reqs[r].stage # "idle" => Told(reqs[r])

\* What goes on keeps its scenario and what it asks, and what ended stays so.
GoesOn(v, w) ==
    v.stage # "idle" =>
        /\ w.stage # "idle" /\ w.scenario = v.scenario
        /\ \A f \in Standing : w.query[f] = v.query[f]
        /\ v.stage \in Ended => w.stage \in Ended

Grown(rs, rt) == \A s \in Requests : GoesOn(rs[s], rt[s])

\* One request goes on while the others wait.
LEMMA OneGoesOn ==
    ASSUME ToldInv, NEW r \in Requests, NEW F, Changes(r, F),
           Told(reqs'[r]), GoesOn(reqs[r], reqs'[r])
    PROVE  ToldInv' /\ Grown(reqs, reqs')
<1>1. \A x \in Requests \ {r} : reqs'[x] = reqs[x]
  BY DEF Changes
<1>2. \A x \in Requests \ {r} : GoesOn(reqs[x], reqs'[x])
  BY <1>1 DEF GoesOn
<1> QED BY <1>1, <1>2 DEF ToldInv, Grown

\* Stages that leave the query alone.
LEMMA QueryStays ==
    ASSUME ToldInv, NEW r \in Requests, NEW F, Changes(r, F), F \cap {"scenario", "outer", "query"} = {},
           reqs[r].stage # "idle", reqs'[r].stage \notin {"idle", "built", "asked"},
           reqs[r].stage \in Ended => reqs'[r].stage \in Ended
    PROVE  ToldInv' /\ Grown(reqs, reqs')
<1>1. /\ reqs'[r].scenario = reqs[r].scenario /\ reqs'[r].outer = reqs[r].outer
      /\ reqs'[r].query = reqs[r].query
  BY DEF Changes, Fields
<1>2. Told(reqs'[r]) /\ GoesOn(reqs[r], reqs'[r])
  BY <1>1 DEF ToldInv, Told, GoesOn
<1> QED BY <1>2, OneGoesOn

\* A new request knows what it asks.
LEMMA AskedKnows ==
    ASSUME NEW sc, NEW time
    PROVE  LET q == AskedAt(sc, time)
           IN  TellsOf \subseteq DOMAIN q /\ q.served_history = <<>> /\ q.followed = {}
<1> DEFINE data == FetchViewerData(sc.faults, sc.data)
           first == NewQuery(sc.request, sc.params, data, time)
           query == [first EXCEPT !.shadow = sc.shadow]
<1>1. TellsOf \subseteq DOMAIN first /\ first.served_history = <<>> /\ first.followed = {}
  BY DEF NewQuery, TellsOf, Standing
<1> HIDE DEF first
<1>2. TellsOf \subseteq DOMAIN query /\ query.served_history = <<>> /\ query.followed = {}
  BY <1>1
<1> HIDE DEF query
<1>3. LET q == UrtQuery(query, sc.request)
      IN  TellsOf \subseteq DOMAIN q /\ q.served_history = <<>> /\ q.followed = {}
  BY <1>2 DEF UrtQuery
<1>4. AskedAt(sc, time) \in {query, UrtQuery(query, sc.request)}
  BY DEF AskedAt, query, first
<1> QED BY <1>2, <1>3, <1>4

\* Building a query tells it what the history and the request say.
LEMMA BuildTells ==
    ASSUME Records, ToldInv, NEW r \in Requests, Build(r)
    PROVE  ToldInv' /\ Grown(reqs, reqs')
<1>1. At(r, "idle") /\ Changes(r, {"stage", "scenario", "outer", "query"})
  BY BuildMoves
<1>2. PICK sc \in Scenarios[r] :
          /\ reqs'[r].stage = IF sc.surface = "scored_posts" THEN "asked" ELSE "built"
          /\ reqs'[r].outer = AskedAt(sc, now + sc.gap) /\ reqs'[r].query = AskedAt(sc, now + sc.gap)
  BY BuildMoves
<1> DEFINE q == AskedAt(sc, now + sc.gap)
<1>3. TellsOf \subseteq DOMAIN q /\ q.served_history = <<>> /\ q.followed = {}
  BY AskedKnows
<1> HIDE DEF q
<1>4. reqs'[r].outer = q /\ reqs'[r].query = q
  BY <1>2 DEF q
<1>5. Told(reqs'[r])
  BY <1>3, <1>4 DEF Told, HasRead
<1>6. GoesOn(reqs[r], reqs'[r])
  BY <1>1 DEF GoesOn, At
<1> QED BY <1>1, <1>5, <1>6, OneGoesOn

\* The history tells the outer query what it read.
LEMMA HydrateForYouTells ==
    ASSUME Records, ToldInv, NEW r \in Requests, HydrateForYou(r)
    PROVE  ToldInv' /\ Grown(reqs, reqs')
<1> DEFINE old == reqs[r].outer
           read == Responses(history)
           q == HydrateForYouQuery(old, Faults(r), read, timestamps)
<1>1. /\ At(r, "built") /\ Changes(r, {"stage", "outer", "query"}) /\ reqs'[r].stage = "asked"
      /\ reqs'[r].outer = q /\ reqs'[r].query = q
  BY HydrateForYouMoves
<1>2. Told(reqs[r]) /\ reqs[r].query = old /\ reqs[r].stage # "idle"
  BY <1>1 DEF ToldInv, Told, At
<1>3. TellsOf \subseteq DOMAIN old /\ old.followed = {} /\ HasRead(old)
  BY <1>2 DEF Told
<1>4. {"request_time", "served_history"} \subseteq DOMAIN old /\ {"served_ids", "wtf_eligible"} \subseteq DOMAIN old
  BY <1>3 DEF TellsOf, Standing
<1>5. /\ DOMAIN q = DOMAIN old
      /\ \A f \in DOMAIN old \ {"served_history", "served_ids", "wtf_eligible", "timestamps"} : q[f] = old[f]
      /\ (\A f \in DOMAIN old \ {"timestamps"} : q[f] = old[f]) \/ ReadFrom(q, read)
  BY <1>4, HistoryHydrated
<1> HIDE DEF q, old, read
<1>6. (\A f \in DOMAIN old \ {"timestamps"} : q[f] = old[f]) => HasRead(q)
  <2>1. {"request_time", "served_history", "served_ids", "wtf_eligible"} \subseteq DOMAIN old \ {"timestamps"}
    BY <1>4
  <2> QED BY <1>3, <2>1 DEF HasRead, ReadFrom
<1>7. ReadFrom(q, read) => HasRead(q)
  BY DEF HasRead, ReadFrom
<1>8. HasRead(q)
  BY <1>5, <1>6, <1>7
<1>9. Standing \cup {"followed"} \subseteq DOMAIN old \ {"served_history", "served_ids", "wtf_eligible", "timestamps"}
  BY <1>3 DEF TellsOf, Standing
<1>10. TellsOf \subseteq DOMAIN q /\ q.followed = {} /\ \A f \in Standing : q[f] = old[f]
  BY <1>3, <1>5, <1>9
<1>11. Told(reqs'[r])
  BY <1>1, <1>8, <1>10 DEF Told
<1>12. GoesOn(reqs[r], reqs'[r])
  <2>1. reqs'[r].scenario = reqs[r].scenario
    BY <1>1 DEF Changes, Fields
  <2> QED BY <1>1, <1>2, <1>10, <2>1 DEF GoesOn, At, Ended
<1> QED BY <1>1, <1>11, <1>12, OneGoesOn

\* The Phoenix pipeline keeps what the query was told.
LEMMA HydratePhoenixTells ==
    ASSUME WorkInv, ToldInv, NEW r \in Requests, HydratePhoenix(r)
    PROVE  ToldInv' /\ Grown(reqs, reqs')
<1> DEFINE old == reqs[r].query
           q == HydratePhoenixQuery(old, Faults(r), Stored(CachedPostsKey(old)))
<1>1. /\ At(r, "asked") /\ Changes(r, {"stage", "query"}) /\ reqs'[r].stage = "hydrated"
      /\ reqs'[r].query = q
  BY HydratePhoenixMoves DEF WorkInv
<1>2. Told(reqs[r]) /\ Asks(old) /\ ~old.has_cached_posts
  BY <1>1 DEF ToldInv, At, WorkInv, InShape
<1>3. TellsOf \subseteq DOMAIN old
  BY <1>2 DEF Told
<1>4. /\ DOMAIN q = DOMAIN old /\ \A f \in DOMAIN old \ Learned : q[f] = old[f]
      /\ "followed" \in DOMAIN old => q.followed \in {old.followed, World.followed}
  BY <1>2, PhoenixHydrated
<1> HIDE DEF q, old
<1>5. Standing \cup {"served_ids"} \subseteq DOMAIN old \ Learned /\ "followed" \in DOMAIN old
  BY <1>3 DEF TellsOf, Standing, Learned
<1>6. \A f \in Standing \cup {"served_ids"} : q[f] = old[f]
  BY <1>4, <1>5
<1>7. reqs'[r].scenario = reqs[r].scenario /\ reqs'[r].outer = reqs[r].outer
  BY <1>1 DEF Changes, Fields
<1>8. Told(reqs'[r])
  BY <1>1, <1>2, <1>3, <1>4, <1>5, <1>6, <1>7 DEF Told, old
<1>9. GoesOn(reqs[r], reqs'[r])
  BY <1>1, <1>6, <1>7 DEF GoesOn, At, Ended, old
<1> QED BY <1>1, <1>8, <1>9, OneGoesOn

\* Fetching only adds who replied.
LEMMA FetchTells ==
    ASSUME Records, ToldInv, NEW r \in Requests, Fetch(r)
    PROVE  ToldInv' /\ Grown(reqs, reqs')
<1> DEFINE old == reqs[r].query
           replies == NetworkReplies(old, Faults(r))
           q == [old EXCEPT !.network_replies = replies]
<1>1. /\ At(r, "hydrated") /\ Changes(r, {"stage", "candidates", "query", "found"})
      /\ reqs'[r].stage = "fetched" /\ reqs'[r].query = q
  BY FetchMoves
<1>2. Told(reqs[r])
  BY <1>1 DEF ToldInv, At
<1> HIDE DEF replies
<1>3. DOMAIN q = DOMAIN old /\ \A f \in DOMAIN old \ {"network_replies"} : q[f] = old[f]
  OBVIOUS
<1> HIDE DEF q, old
<1>4. TellsOf \subseteq DOMAIN old \ {"network_replies"} /\ Standing \cup {"served_ids", "followed"} \subseteq TellsOf
  BY <1>2 DEF Told, TellsOf, Standing, old
<1>5. \A f \in Standing \cup {"served_ids", "followed"} : q[f] = old[f]
  BY <1>3, <1>4
<1>6. reqs'[r].scenario = reqs[r].scenario /\ reqs'[r].outer = reqs[r].outer
  BY <1>1 DEF Changes, Fields
<1>7. Told(reqs'[r])
  BY <1>1, <1>2, <1>3, <1>4, <1>5, <1>6 DEF Told, old
<1>8. GoesOn(reqs[r], reqs'[r])
  BY <1>1, <1>5, <1>6 DEF GoesOn, At, Ended, old
<1> QED BY <1>1, <1>7, <1>8, OneGoesOn

\* What is told goes on being so, and so do the requests.
LEMMA TellingGoesOn ==
    ASSUME WorkInv, ToldInv, [Next]_vars
    PROVE  ToldInv' /\ Grown(reqs, reqs')
<1>1. CASE UNCHANGED vars
  BY <1>1 DEF vars, ToldInv, Grown, GoesOn
<1>2. ASSUME NEW r \in Requests, Stage(r) PROVE ToldInv' /\ Grown(reqs, reqs')
  <2>1. CASE HydrateForYou(r)
    BY <2>1, HydrateForYouTells DEF WorkInv
  <2>2. CASE HydratePhoenix(r)
    BY <2>2, HydratePhoenixTells
  <2>3. CASE Fetch(r)
    BY <2>3, FetchTells DEF WorkInv
  <2>4. CASE Hydrate(r)
    BY <2>4, HydrateMoves, QueryStays DEF WorkInv, At, Ended
  <2>5. CASE Rank(r)
    BY <2>5, RankMoves, QueryStays DEF WorkInv, At, Ended
  <2>6. CASE PostSelect(r)
    BY <2>6, PostSelectMoves, QueryStays DEF WorkInv, At, Ended
  <2>7. CASE Respond(r)
    BY <2>7, RespondMoves, QueryStays DEF WorkInv, At, Ended
  <2> QED BY <1>2, <2>1, <2>2, <2>3, <2>4, <2>5, <2>6, <2>7 DEF Stage
<1>3. ASSUME NEW r \in Requests, Effect(r) PROVE ToldInv' /\ Grown(reqs, reqs')
  <2>1. PICK effect : Finishes(r, effect)
    BY <1>3 DEF Effect, CachePosts, RecordServed, ForgetServed, StampRequest
  <2>2. Changes(r, {"pending"}) /\ effect \in reqs[r].pending
    BY <2>1, FinishMoves DEF WorkInv
  <2>3. /\ reqs'[r].stage = reqs[r].stage /\ reqs'[r].scenario = reqs[r].scenario
        /\ reqs'[r].outer = reqs[r].outer /\ reqs'[r].query = reqs[r].query
    BY <2>2 DEF Changes, Fields
  <2>4. reqs[r].stage # "idle"
    BY <2>2 DEF WorkInv, InShape
  <2>5. Told(reqs'[r]) /\ GoesOn(reqs[r], reqs'[r])
    BY <2>3, <2>4 DEF ToldInv, Told, GoesOn
  <2> QED BY <2>2, <2>5, OneGoesOn
<1> QED BY <1>1, <1>2, <1>3, BuildTells DEF Next, WorkInv

(* ---------- What is true of a candidate ---------------------------------- *)

\* Whom the key of a request is for.
Meant(key, c) == key[2] => c.author_id \in World.followed

\* The look-up of a video failed in a request of the key.
Unseen(rs, key, id) ==
    \E s \in Requests : /\ rs[s].stage # "idle" /\ Fails(rs[s].scenario.faults, "tes_video", id)
                        /\ CachedPostsKey(rs[s].query) = key

Filmed(rs, key, c) == c.video = None => Post(Watched(c)).video = 0 \/ Unseen(rs, key, Watched(c))

\* What a post is known to quote is what it quotes, unless the look-up failed.
Unquoted(rs, id) == \E s \in Requests : rs[s].stage # "idle" /\ Fails(rs[s].scenario.faults, "tes_quoted", id)

Quotes(rs, id, quoted) ==
    /\ quoted \in {None, NonZero(Post(id).quoted)}
    /\ quoted = None => Post(id).quoted = 0 \/ Unquoted(rs, id)

\* A request that ended has cleared the post for an ad.
Clears(v, id) ==
    /\ Known(id) /\ ComputeVerdict(Post(id).labels, id) # "medium"
    /\ \/ v.query.params.brand_safety = "labels" /\ ~Fails(v.scenario.faults, "labels", id)
       \/ v.query.params.brand_safety = "vf" /\ ~Fails(v.scenario.faults, "vf_labels", id)

NoRisk(rs, id) ==
    \E s \in Requests :
        /\ rs[s].stage \in Ended
        /\ \E own \in {id, Post(id).source} : Clears(rs[s], own)
        /\ Post(id).quoted = 0 \/ Clears(rs[s], Post(id).quoted) \/ Unquoted(rs, id)

Judged(rs, id, verdict) == verdict \in {None, Some("medium")} \/ NoRisk(rs, id)

\* All of it.
Sound(rs, key, c) ==
    /\ Formed(c) /\ Meant(key, c) /\ Filmed(rs, key, c)
    /\ Quotes(rs, c.tweet_id, c.quoted_id) /\ Judged(rs, c.tweet_id, c.verdict)

\* The filters on what was asked for have passed a candidate.
Passed(q, c) ==
    /\ q.exclude_videos => c.video = None
    /\ q.params.served_all \/ (q.is_bottom /\ q.context # "foreground_truncate")
          => RelatedPostIds(c) \cap q.served_ids = {}

\* What the caches of the process hold is true.
CoreTrue(cache) ==
    \A k \in DOMAIN cache :
        /\ DOMAIN cache[k] = {"tweet_text", "in_reply_to", "retweeted_id", "retweeted_user"}
        /\ cache[k].retweeted_id \in {None, NonZero(Post(k).source)}

QuoteTrue(rs, cache) ==
    \A k \in DOMAIN cache : /\ DOMAIN cache[k] = {"quoted_id", "quoted_user"}
                            /\ Quotes(rs, k, cache[k].quoted_id)

VideoTrue(cache) ==
    \A k \in DOMAIN cache : DOMAIN cache[k] = {"video"} /\ cache[k].video = NonZero(Post(k).video)

SubsTrue(cache) == \A k \in DOMAIN cache : DOMAIN cache[k] = {"subscription"}

BrandTrue(rs, cache) ==
    \A k \in DOMAIN cache : DOMAIN cache[k] = {"verdict"} /\ Judged(rs, k, cache[k].verdict)

LooksUp(rs, cached) ==
    /\ CoreTrue(cached.core) /\ QuoteTrue(rs, cached.quote) /\ VideoTrue(cached.video)
    /\ SubsTrue(cached.subscription)

\* What is true of the posts of a request, as far as it is.
Truthful(rs, v) ==
    LET key == CachedPostsKey(v.query)
    IN  /\ v.stage = "fetched" =>
              /\ LooksUp(rs, v.found)
              /\ \A c \in Range1(v.candidates) :
                    IF v.query.has_cached_posts THEN Sound(rs, key, c) ELSE Novel(c) /\ Meant(key, c)
        /\ v.stage \in {"enriched", "ranked"} \cup Ended =>
              \A c \in Range1(v.candidates) : Sound(rs, key, c)
        /\ v.stage \in {"ranked"} \cup Ended =>
              /\ \A c \in Range1(v.non_selected) : Sound(rs, key, c)
              /\ \A c \in Range1(v.candidates) : Passed(v.query, c)
        /\ v.stage = "ranked" => BrandTrue(rs, v.found.brand)

CachesTrue(rs, cs) ==
    /\ LooksUp(rs, cs)
    /\ \A k \in DOMAIN cs.brand : /\ DOMAIN cs.brand[k].fields = {"verdict"}
                                  /\ Judged(rs, k, cs.brand[k].fields.verdict)

TruthInv == (\A r \in Requests : Truthful(reqs, reqs[r])) /\ CachesTrue(reqs, caches)

(* ---------- Truth lasts --------------------------------------------------- *)

\* What failed and what was cleared stays so as requests go on.
LEMMA ReasonsStay ==
    ASSUME NEW rs, NEW rt, Grown(rs, rt)
    PROVE  /\ \A key, id : Unseen(rs, key, id) => Unseen(rt, key, id)
           /\ \A id : Unquoted(rs, id) => Unquoted(rt, id)
           /\ \A id : NoRisk(rs, id) => NoRisk(rt, id)
<1>1. \A s \in Requests : rs[s].stage # "idle" =>
          /\ rt[s].stage # "idle" /\ rt[s].scenario = rs[s].scenario
          /\ rt[s].query.params = rs[s].query.params
          /\ CachedPostsKey(rt[s].query) = CachedPostsKey(rs[s].query)
          /\ rs[s].stage \in Ended => rt[s].stage \in Ended
  <2> SUFFICES ASSUME NEW s \in Requests, rs[s].stage # "idle"
               PROVE  /\ rt[s].stage # "idle" /\ rt[s].scenario = rs[s].scenario
                      /\ rt[s].query.params = rs[s].query.params
                      /\ CachedPostsKey(rt[s].query) = CachedPostsKey(rs[s].query)
                      /\ rs[s].stage \in Ended => rt[s].stage \in Ended
    OBVIOUS
  <2>1. /\ rt[s].stage # "idle" /\ rt[s].scenario = rs[s].scenario
        /\ \A f \in Standing : rt[s].query[f] = rs[s].query[f]
        /\ rs[s].stage \in Ended => rt[s].stage \in Ended
    BY DEF Grown, GoesOn
  <2>2. {"params", "topic_ids", "in_network_only", "exclude_videos"} \subseteq Standing
    BY DEF Standing
  <2>3. rt[s].query.params = rs[s].query.params /\ rt[s].query.topic_ids = rs[s].query.topic_ids
        /\ rt[s].query.in_network_only = rs[s].query.in_network_only
        /\ rt[s].query.exclude_videos = rs[s].query.exclude_videos
    BY <2>1, <2>2
  <2> QED BY <2>1, <2>3 DEF CachedPostsKey
<1>2. \A id : Unquoted(rs, id) => Unquoted(rt, id)
  BY <1>1 DEF Unquoted
<1>3. \A key, id : Unseen(rs, key, id) => Unseen(rt, key, id)
  BY <1>1 DEF Unseen
<1>4. "idle" \notin Ended
  BY DEF Ended
<1>5. \A s \in Requests : \A id : rs[s].stage \in Ended /\ Clears(rs[s], id) => rt[s].stage \in Ended /\ Clears(rt[s], id)
  BY <1>1, <1>4 DEF Clears
<1>6. \A id : NoRisk(rs, id) => NoRisk(rt, id)
  BY <1>2, <1>5 DEF NoRisk
<1> QED BY <1>2, <1>3, <1>6

\* And so does what is true of candidates and caches.
LEMMA TruthStays ==
    ASSUME NEW rs, NEW rt, Grown(rs, rt)
    PROVE  /\ \A key, c : Sound(rs, key, c) => Sound(rt, key, c)
           /\ \A id, v : Judged(rs, id, v) => Judged(rt, id, v)
           /\ \A cached : LooksUp(rs, cached) => LooksUp(rt, cached)
           /\ \A cached : BrandTrue(rs, cached) => BrandTrue(rt, cached)
           /\ \A cs : CachesTrue(rs, cs) => CachesTrue(rt, cs)
           /\ \A v : Truthful(rs, v) => Truthful(rt, v)
<1>1. \A id, quoted : Quotes(rs, id, quoted) => Quotes(rt, id, quoted)
  BY ReasonsStay DEF Quotes
<1>2. \A id, v : Judged(rs, id, v) => Judged(rt, id, v)
  BY ReasonsStay DEF Judged
<1>3. \A key, c : Sound(rs, key, c) => Sound(rt, key, c)
  BY <1>1, <1>2, ReasonsStay DEF Sound, Filmed
<1>4. \A cached : LooksUp(rs, cached) => LooksUp(rt, cached)
  BY <1>1 DEF LooksUp, QuoteTrue
<1>5. \A cached : BrandTrue(rs, cached) => BrandTrue(rt, cached)
  BY <1>2 DEF BrandTrue
<1>6. \A cs : CachesTrue(rs, cs) => CachesTrue(rt, cs)
  BY <1>2, <1>4 DEF CachesTrue
<1>7. \A v : Truthful(rs, v) => Truthful(rt, v)
  BY <1>3, <1>4, <1>5 DEF Truthful
<1> QED BY <1>2, <1>3, <1>4, <1>5, <1>6, <1>7

(* ---------- What the hydrators learn -------------------------------------- *)

\* What a candidate becomes when answers are merged into it.
Learnt(c, d, e, f) == d[f] = IF f \in DOMAIN e THEN e[f] ELSE c[f]

\* A field comes from an answer that has it, or stays.
Merges(c, d, answers, i, f) ==
    \/ d[f] = c[f] /\ \A b \in DOMAIN answers : f \notin DOMAIN Get(answers[b][i], <<>>)
    \/ \E b \in DOMAIN answers : /\ f \in DOMAIN Get(answers[b][i], <<>>)
                                  /\ d[f] = Get(answers[b][i], <<>>)[f]

\* What hydrators make of a candidate, field by field.
LEMMA RanHydrators ==
    ASSUME NEW cs, NEW answers, NEW n \in Nat, DOMAIN answers = 1 .. n, Len(answers) = n,
           NEW i \in 1 .. Len(cs), NEW f \in DOMAIN cs[i]
    PROVE  /\ DOMAIN RunHydrators(cs, answers)[i] = DOMAIN cs[i]
           /\ Merges(cs[i], RunHydrators(cs, answers)[i], answers, i, f)
<1> DEFINE at(j) == MapSeq(answers, LAMBDA results : results[j])
           of == at(i)
           m == RunHydrators(cs, answers)[i]
<1>1. m = Merged(cs[i], of)
  <2>1. RunHydrators(cs, answers) = [j \in 1 .. Len(cs) |-> Merged(cs[j], at(j))]
    BY DEF RunHydrators
  <2> HIDE DEF at
  <2> QED BY <2>1
<1>2. DOMAIN of = 1 .. n /\ \A b \in 1 .. n : of[b] = answers[b][i]
  BY DEF MapSeq
<1> HIDE DEF m, of
<1>3. IsFiniteSet(DOMAIN of) /\ DOMAIN of \subseteq Int
  <2>1. IsFiniteSet(1 .. n) /\ 1 .. n \subseteq Int
    <3>1. IsFiniteSet(1 .. n)
      BY FS_Interval
    <3>2. 1 .. n \subseteq Int
      OBVIOUS
    <3> QED BY <3>1, <3>2
  <2> QED BY ONLY <1>2, <2>1
<1>4. /\ DOMAIN Merged(cs[i], of) = DOMAIN cs[i]
      /\ \/ /\ \A b \in DOMAIN of : f \notin DOMAIN Get(of[b], <<>>)
            /\ Merged(cs[i], of)[f] = cs[i][f]
         \/ \E b \in DOMAIN of : /\ f \in DOMAIN Get(of[b], <<>>)
                                 /\ Merged(cs[i], of)[f] = Get(of[b], <<>>)[f]
  BY <1>3, MergedField
<1>5. \A b \in 1 .. n : Get(of[b], <<>>) = Get(answers[b][i], <<>>)
  BY <1>2
<1> QED BY <1>1, <1>2, <1>4, <1>5 DEF Merges, m

\* A field that one hydrator alone answers with is this one's, or as it was.
LEMMA Learns ==
    ASSUME NEW cs, NEW answers, NEW n \in Nat, DOMAIN answers = 1 .. n, Len(answers) = n,
           NEW i \in 1 .. Len(cs), NEW f \in DOMAIN cs[i], NEW a \in 1 .. n,
           \A b \in 1 .. n \ {a} : f \notin DOMAIN Get(answers[b][i], <<>>)
    PROVE  /\ DOMAIN RunHydrators(cs, answers)[i] = DOMAIN cs[i]
           /\ Learnt(cs[i], RunHydrators(cs, answers)[i], Get(answers[a][i], <<>>), f)
<1> DEFINE m == RunHydrators(cs, answers)[i]
<1>1. DOMAIN m = DOMAIN cs[i] /\ Merges(cs[i], m, answers, i, f)
  BY RanHydrators
<1> HIDE DEF m
<1>2. Learnt(cs[i], m, Get(answers[a][i], <<>>), f)
  BY <1>1 DEF Merges, Learnt
<1> QED BY <1>1, <1>2 DEF m

\* What a cached hydrator answers, by the key of the candidate.
ByKey(h, n, enabled, found, keys, client) ==
    /\ \A i \in 1 .. n : h.results[i] = IF ~enabled THEN None
                                       ELSE IF keys[i] \in DOMAIN found THEN Some(found[keys[i]])
                                       ELSE client[i]
    /\ \A k \in DOMAIN h.inserts : \E i \in 1 .. n :
          enabled /\ keys[i] = k /\ client[i] # None /\ h.inserts[k] = Get(client[i], <<>>)

\* A cached hydrator answers from its cache under the key, or what the client
\* answers, and caches under the key what the client answered for it.
LEMMA CachedByKey ==
    ASSUME NEW enabled, NEW n \in Nat, NEW found, NEW keys, DOMAIN keys = 1 .. n, NEW client
    PROVE  ByKey(CachedHydrate(enabled, found, keys, client), n, enabled, found, keys, client)
<1> DEFINE missed == {i \in DOMAIN keys : enabled /\ keys[i] \notin DOMAIN found}
           fetched == {i \in missed : client[i] # None}
           LastOf(k) == CHOOSE i \in fetched :
                           keys[i] = k /\ \A j \in fetched : keys[j] = k => j <= i
           answers == [i \in DOMAIN keys |-> IF keys[i] \in DOMAIN found THEN Some(found[keys[i]])
                                             ELSE client[i]]
           inserts == [k \in {keys[i] : i \in fetched} |-> Get(client[LastOf(k)], <<>>)]
           h == CachedHydrate(enabled, found, keys, client)
<1>1. h.results = HydrateEach(enabled, answers) /\ h.inserts = inserts
  BY DEF CachedHydrate
<1>2. \A i \in 1 .. n : HydrateEach(enabled, answers)[i]
          = IF ~enabled THEN None ELSE IF keys[i] \in DOMAIN found THEN Some(found[keys[i]]) ELSE client[i]
  BY DEF HydrateEach
<1>3. fetched \subseteq 1 .. n /\ IsFiniteSet(1 .. n) /\ \A i \in fetched : enabled /\ client[i] # None
  BY FS_Interval
<1> HIDE DEF fetched
<1>4. ASSUME NEW k \in {keys[i] : i \in fetched} PROVE LastOf(k) \in fetched /\ keys[LastOf(k)] = k
  <2> DEFINE S == {i \in fetched : keys[i] = k}
  <2>1. S # {} /\ S \subseteq 1 .. n
    BY <1>3, <1>4
  <2>2. IsFiniteSet(S) /\ S \subseteq Int
    <3>1. 1 .. n \subseteq Int
      OBVIOUS
    <3> QED BY <1>3, <2>1, <3>1, FS_Subset
  <2>3. Max(S) \in S /\ \A j \in S : Max(S) >= j
    <3> HIDE DEF S
    <3> QED BY <2>1, <2>2, Largest
  <2>4. \A j \in S : j <= Max(S)
    BY <2>2, <2>3
  <2>5. \E i \in fetched : keys[i] = k /\ \A j \in fetched : keys[j] = k => j <= i
    BY <2>3, <2>4
  <2> QED BY <2>5
<1>5. \A k \in DOMAIN inserts : LastOf(k) \in 1 .. n /\ keys[LastOf(k)] = k
          /\ enabled /\ client[LastOf(k)] # None /\ inserts[k] = Get(client[LastOf(k)], <<>>)
  BY <1>3, <1>4
<1> HIDE DEF answers, inserts, h, LastOf
<1> QED BY <1>1, <1>2, <1>5 DEF h, ByKey

\* What these proofs read of a candidate.
Telling == {"tweet_id", "author_id", "served_type", "ancestors", "verdict", "retweeted_id",
            "quoted_id", "video", "in_reply_to"}

SameTale(c, d) == DOMAIN d = DOMAIN c /\ \A f \in Telling : d[f] = c[f]

\* They tell the same of candidates that tell the same.
LEMMA SameTales ==
    ASSUME NEW c, NEW d, SameTale(c, d)
    PROVE  /\ \A rs, key : Sound(rs, key, c) => Sound(rs, key, d)
           /\ \A q : Passed(q, c) => Passed(q, d)
<1>1. /\ d.tweet_id = c.tweet_id /\ d.author_id = c.author_id /\ d.served_type = c.served_type
      /\ d.ancestors = c.ancestors /\ d.verdict = c.verdict /\ d.retweeted_id = c.retweeted_id
      /\ d.quoted_id = c.quoted_id /\ d.video = c.video /\ d.in_reply_to = c.in_reply_to
      /\ DOMAIN d = DOMAIN c
  BY DEF SameTale, Telling
<1> QED BY <1>1 DEF Sound, Formed, Meant, Filmed, Watched, Passed, RelatedPostIds

\* Every candidate has these fields.
LEMMA TellingFields == Telling \subseteq DOMAIN NoCandidate
BY DEF Telling, NoCandidate

(* ---------- The hydrators before the filters -------------------------------- *)

\* A look-up that fails is one the requests know of.
Accounted(rs, key, faults) ==
    /\ \A id : Fails(faults, "tes_quoted", id) => Unquoted(rs, id)
    /\ \A id : Fails(faults, "tes_video", id) => Unseen(rs, key, id)

CoreFields == {"tweet_text", "in_reply_to", "retweeted_id", "retweeted_user"}

QuoteFields == {"quoted_id", "quoted_user", "quoted_blocks_viewer", "quoted_video"}

\* What is learnt of the core of a candidate, of its quote and of its video.
CoreLearnt(e, c) ==
    DOMAIN e \subseteq CoreFields
    /\ ("retweeted_id" \in DOMAIN e => e.retweeted_id \in {None, NonZero(Post(c.tweet_id).source)})

QuoteLearnt(rs, e, c) ==
    DOMAIN e \subseteq QuoteFields /\ "quoted_id" \in DOMAIN e /\ Quotes(rs, c.tweet_id, e.quoted_id)

VideoLearnt(faults, e, c) ==
    \/ DOMAIN e = {"video"} /\ e.video = NonZero(Post(OriginalTweetId(c)).video)
    \/ DOMAIN e = {} /\ Fails(faults, "tes_video", OriginalTweetId(c))

\* What nobody answers has no field.
LEMMA NothingAnswered == DOMAIN Get(None, <<>>) = {}
<1>1. Get(None, <<>>) = <<>>
  BY Gets
<1>2. DOMAIN <<>> = {}
  OBVIOUS
<1> QED BY <1>1, <1>2

\* A hydrator that answers, if enabled, with given fields.
LEMMA EachTells ==
    ASSUME NEW enabled, NEW n \in Nat, NEW answers, DOMAIN answers = 1 .. n, NEW F,
           \A i \in 1 .. n : DOMAIN Get(answers[i], <<>>) \subseteq F
    PROVE  \A i \in 1 .. n : /\ DOMAIN Get(HydrateEach(enabled, answers)[i], <<>>) \subseteq F
                             /\ ~enabled => HydrateEach(enabled, answers)[i] = None
BY NothingAnswered DEF HydrateEach

\* The core data of a post is true of it.
LEMMA CoreTells ==
    ASSUME NEW q, NEW faults, NEW cs, Listed(cs), NEW found, CoreTrue(found)
    PROVE  LET h == CoreDataHydrator(q, faults, cs, found)
           IN  /\ \A i \in 1 .. Len(cs) : /\ CoreLearnt(Get(h.results[i], <<>>), cs[i])
                                          /\ ~Fresh(q) => h.results[i] = None
               /\ CoreTrue(h.inserts)
<1> DEFINE n == Len(cs)
           keys == TweetIds(cs)
           client == MapSeq(keys, LAMBDA id : AnsweredFor(faults, "tes_core", id, CoreData(id, faults)))
           h == CoreDataHydrator(q, faults, cs, found)
<1>1. n \in Nat /\ DOMAIN keys = 1 .. n /\ Len(keys) = n /\ \A i \in 1 .. n : keys[i] = cs[i].tweet_id
  BY DEF TweetIds, MapSeq, Listed
<1> HIDE DEF n, keys
<1>2. \A i \in 1 .. n : client[i] \in {None, Some(CoreData(keys[i], faults))}
  BY <1>1 DEF MapSeq, AnsweredFor
<1>3. h = CachedHydrate(Fresh(q), found, keys, client)
  BY DEF CoreDataHydrator, keys
<1> HIDE DEF client, h
<1>4. ByKey(h, n, Fresh(q), found, keys, client)
  BY <1>1, <1>3, CachedByKey
<1>5. \A id : /\ DOMAIN CoreData(id, faults) = CoreFields
              /\ CoreData(id, faults).retweeted_id \in {None, NonZero(Post(id).source)}
  BY DEF CoreData, CoreFields
<1>6. ASSUME NEW i \in 1 .. n
      PROVE  CoreLearnt(Get(h.results[i], <<>>), cs[i]) /\ (~Fresh(q) => h.results[i] = None)
  <2>1. h.results[i] = IF ~Fresh(q) THEN None ELSE IF keys[i] \in DOMAIN found THEN Some(found[keys[i]]) ELSE client[i]
    BY <1>4 DEF ByKey
  <2>2. CASE h.results[i] = None
    BY <2>2, NothingAnswered DEF CoreLearnt
  <2>3. CASE keys[i] \in DOMAIN found /\ h.results[i] = Some(found[keys[i]])
    BY <1>1, <2>3, <2>1, Gets DEF CoreTrue, CoreLearnt, CoreFields
  <2>4. CASE h.results[i] = Some(CoreData(keys[i], faults))
    BY <1>1, <1>5, <2>1, <2>4, Gets DEF CoreLearnt
  <2> QED BY <1>2, <2>1, <2>2, <2>3, <2>4
<1>7. CoreTrue(h.inserts)
  <2> SUFFICES ASSUME NEW k \in DOMAIN h.inserts
               PROVE  DOMAIN h.inserts[k] = CoreFields /\ h.inserts[k].retweeted_id \in {None, NonZero(Post(k).source)}
    BY DEF CoreTrue, CoreFields
  <2>1. PICK i \in 1 .. n : keys[i] = k /\ client[i] # None /\ h.inserts[k] = Get(client[i], <<>>)
    BY <1>4 DEF ByKey
  <2>2. h.inserts[k] = CoreData(k, faults)
    BY <1>2, <2>1, Gets
  <2> QED BY <1>5, <2>2
<1> QED BY <1>6, <1>7 DEF h, n

\* The subscription of a post says nothing else.
LEMMA SubsTells ==
    ASSUME NEW q, NEW faults, NEW cs, Listed(cs), NEW found, SubsTrue(found)
    PROVE  LET h == SubscriptionHydrator(q, faults, cs, found)
           IN  /\ \A i \in 1 .. Len(cs) : /\ DOMAIN Get(h.results[i], <<>>) \subseteq {"subscription"}
                                          /\ ~Fresh(q) => h.results[i] = None
               /\ SubsTrue(h.inserts)
<1> DEFINE n == Len(cs)
           keys == TweetIds(cs)
           of(id) == [subscription |-> NonZero(Post(id).subscription)]
           client == MapSeq(keys, LAMBDA id : AnsweredFor(faults, "tes_subscription", id, of(id)))
           h == SubscriptionHydrator(q, faults, cs, found)
<1>1. n \in Nat /\ DOMAIN keys = 1 .. n /\ Len(keys) = n
  BY DEF TweetIds, MapSeq, Listed
<1> HIDE DEF n, keys
<1>2. \A i \in 1 .. n : client[i] \in {None, Some(of(keys[i]))}
  BY <1>1 DEF MapSeq, AnsweredFor
<1>3. h = CachedHydrate(Fresh(q), found, keys, client)
  BY DEF SubscriptionHydrator, keys
<1>4. \A id : DOMAIN of(id) = {"subscription"}
  OBVIOUS
<1> HIDE DEF client, h, of
<1>5. ByKey(h, n, Fresh(q), found, keys, client)
  BY <1>1, <1>3, CachedByKey
<1>6. ASSUME NEW i \in 1 .. n
      PROVE  DOMAIN Get(h.results[i], <<>>) \subseteq {"subscription"} /\ (~Fresh(q) => h.results[i] = None)
  <2>1. h.results[i] = IF ~Fresh(q) THEN None ELSE IF keys[i] \in DOMAIN found THEN Some(found[keys[i]]) ELSE client[i]
    BY <1>5 DEF ByKey
  <2>2. CASE h.results[i] = None
    BY <2>2, NothingAnswered
  <2>3. CASE keys[i] \in DOMAIN found /\ h.results[i] = Some(found[keys[i]])
    BY <2>1, <2>3, Gets DEF SubsTrue
  <2>4. CASE h.results[i] = Some(of(keys[i]))
    BY <1>4, <2>1, <2>4, Gets
  <2> QED BY <1>2, <2>1, <2>2, <2>3, <2>4
<1>7. SubsTrue(h.inserts)
  <2> SUFFICES ASSUME NEW k \in DOMAIN h.inserts PROVE DOMAIN h.inserts[k] = {"subscription"}
    BY DEF SubsTrue
  <2>1. PICK i \in 1 .. n : keys[i] = k /\ client[i] # None /\ h.inserts[k] = Get(client[i], <<>>)
    BY <1>5 DEF ByKey
  <2>2. h.inserts[k] = of(k)
    BY <1>2, <2>1, Gets
  <2> QED BY <1>4, <2>2
<1> QED BY <1>6, <1>7 DEF h, n

\* The video of the original post is what the source says, unless the look-up failed.
LEMMA VideoTells ==
    ASSUME NEW q, NEW faults, NEW cs, Listed(cs), NEW found, VideoTrue(found)
    PROVE  LET h == VideoDurationHydrator(q, faults, cs, found)
           IN  /\ \A i \in 1 .. Len(cs) : IF Fresh(q) THEN VideoLearnt(faults, Get(h.results[i], <<>>), cs[i])
                                          ELSE h.results[i] = None
               /\ VideoTrue(h.inserts)
<1> DEFINE n == Len(cs)
           keys == OriginalTweetIds(cs)
           of(id) == [video |-> NonZero(Post(id).video)]
           client == MapSeq(keys, LAMBDA id : AnsweredFor(faults, "tes_video", id, of(id)))
           h == VideoDurationHydrator(q, faults, cs, found)
<1>1. n \in Nat /\ DOMAIN keys = 1 .. n /\ Len(keys) = n /\ \A i \in 1 .. n : keys[i] = OriginalTweetId(cs[i])
  BY DEF OriginalTweetIds, MapSeq, Listed
<1> HIDE DEF n, keys
<1>2. \A i \in 1 .. n : client[i] = IF Fails(faults, "tes_video", keys[i]) THEN None ELSE Some(of(keys[i]))
  BY <1>1 DEF MapSeq, AnsweredFor
<1>3. h = CachedHydrate(Fresh(q), found, keys, client)
  BY DEF VideoDurationHydrator, keys
<1>4. \A id : DOMAIN of(id) = {"video"} /\ of(id).video = NonZero(Post(id).video)
  OBVIOUS
<1> HIDE DEF client, h, of
<1>5. ByKey(h, n, Fresh(q), found, keys, client)
  BY <1>1, <1>3, CachedByKey
<1>6. ASSUME NEW i \in 1 .. n
      PROVE  IF Fresh(q) THEN VideoLearnt(faults, Get(h.results[i], <<>>), cs[i]) ELSE h.results[i] = None
  <2>1. h.results[i] = IF ~Fresh(q) THEN None ELSE IF keys[i] \in DOMAIN found THEN Some(found[keys[i]]) ELSE client[i]
    BY <1>5 DEF ByKey
  <2>2. CASE ~Fresh(q)
    BY <2>1, <2>2
  <2>3. CASE Fresh(q) /\ keys[i] \in DOMAIN found
    <3>1. Get(h.results[i], <<>>) = found[keys[i]]
      BY <2>1, <2>3, Gets
    <3> QED BY <1>1, <2>3, <3>1 DEF VideoTrue, VideoLearnt
  <2>4. CASE Fresh(q) /\ keys[i] \notin DOMAIN found /\ Fails(faults, "tes_video", keys[i])
    BY <1>1, <1>2, <2>1, <2>4, NothingAnswered DEF VideoLearnt
  <2>5. CASE Fresh(q) /\ keys[i] \notin DOMAIN found /\ ~Fails(faults, "tes_video", keys[i])
    <3>1. Get(h.results[i], <<>>) = of(keys[i])
      BY <1>2, <2>1, <2>5, Gets
    <3> QED BY <1>1, <1>4, <2>5, <3>1 DEF VideoLearnt
  <2> QED BY <2>2, <2>3, <2>4, <2>5
<1>7. VideoTrue(h.inserts)
  <2> SUFFICES ASSUME NEW k \in DOMAIN h.inserts
               PROVE  DOMAIN h.inserts[k] = {"video"} /\ h.inserts[k].video = NonZero(Post(k).video)
    BY DEF VideoTrue
  <2>1. PICK i \in 1 .. n : keys[i] = k /\ client[i] # None /\ h.inserts[k] = Get(client[i], <<>>)
    BY <1>5 DEF ByKey
  <2>2. h.inserts[k] = of(k)
    BY <1>2, <2>1, Gets
  <2> QED BY <1>4, <2>2
<1> QED BY <1>6, <1>7 DEF h, n

\* The quote of a post is what the source says, unless the look-up failed.
LEMMA QuoteTells ==
    ASSUME NEW rs, NEW key, NEW q, NEW faults, Accounted(rs, key, faults), NEW cs, Listed(cs),
           NEW found, QuoteTrue(rs, found)
    PROVE  LET h == QuoteHydrator(q, faults, cs, found)
           IN  /\ \A i \in 1 .. Len(cs) : IF Fresh(q) THEN QuoteLearnt(rs, Get(h.results[i], <<>>), cs[i])
                                          ELSE h.results[i] = None
               /\ QuoteTrue(rs, h.inserts)
<1> DEFINE n == Len(cs)
           missed == {c.tweet_id : c \in Range1(cs)} \ DOMAIN found
           Of(id) == IF id \in missed THEN Quote(id, faults) ELSE found[id]
           Blocks(user) == user \in World.blocks_viewer /\ ~Fails(faults, "quoted_blocked_by", 0)
           Extra(c) == [quoted_blocks_viewer |-> Some(\E u \in Of(c.tweet_id).quoted_user : Blocks(u)),
                        quoted_video |-> UNION {QuotedVideo(q, faults, id) : id \in Of(c.tweet_id).quoted_id}]
           Answer(c) == Over(Extra(c), Of(c.tweet_id))
           f == [i \in 1 .. n |-> Some(Answer(cs[i]))]
           h == QuoteHydrator(q, faults, cs, found)
<1>1. h.results = HydrateEach(Fresh(q), f)
  BY DEF QuoteHydrator, MapSeq
<1>2. h.inserts = [id \in IF Fresh(q) THEN missed ELSE {} |-> Quote(id, faults)]
  BY DEF QuoteHydrator
<1>3. \A id : DOMAIN Quote(id, faults) = {"quoted_id", "quoted_user"} /\ Quotes(rs, id, Quote(id, faults).quoted_id)
  <2> SUFFICES ASSUME NEW id
               PROVE  DOMAIN Quote(id, faults) = {"quoted_id", "quoted_user"} /\ Quotes(rs, id, Quote(id, faults).quoted_id)
    OBVIOUS
  <2>1. CASE Fails(faults, "tes_quoted", id)
    BY <2>1 DEF Quote, Quotes, Accounted
  <2>2. CASE ~Fails(faults, "tes_quoted", id)
    <3>1. /\ DOMAIN Quote(id, faults) = {"quoted_id", "quoted_user"}
          /\ Quote(id, faults).quoted_id = NonZero(Post(id).quoted)
      BY <2>2 DEF Quote
    <3>2. NonZero(Post(id).quoted) = None => Post(id).quoted = 0
      BY Gets DEF NonZero
    <3> QED BY <3>1, <3>2 DEF Quotes
  <2> QED BY <2>1, <2>2
<1>4. \A c : DOMAIN Extra(c) = {"quoted_blocks_viewer", "quoted_video"}
  OBVIOUS
<1>5. ASSUME NEW i \in 1 .. n
      PROVE  /\ DOMAIN Of(cs[i].tweet_id) = {"quoted_id", "quoted_user"}
             /\ Quotes(rs, cs[i].tweet_id, Of(cs[i].tweet_id).quoted_id)
  <2>1. cs[i].tweet_id \in missed \/ cs[i].tweet_id \in DOMAIN found
    BY DEF Range1
  <2> HIDE DEF missed
  <2> QED BY <1>3, <2>1 DEF QuoteTrue
<1> HIDE DEF Of, Extra, missed, h
<1>6. ASSUME NEW i \in 1 .. n PROVE QuoteLearnt(rs, Answer(cs[i]), cs[i])
  <2> DEFINE x == Extra(cs[i])
             o == Of(cs[i].tweet_id)
  <2>1. /\ DOMAIN x = {"quoted_blocks_viewer", "quoted_video"} /\ DOMAIN o = {"quoted_id", "quoted_user"}
        /\ Quotes(rs, cs[i].tweet_id, o.quoted_id)
    BY <1>4, <1>5
  <2>2. Answer(cs[i]) = Over(x, o)
    OBVIOUS
  <2> HIDE DEF x, o, Answer
  <2>3. DOMAIN Over(x, o) = QuoteFields
    BY <2>1 DEF Over, QuoteFields
  <2>4. Over(x, o).quoted_id = o.quoted_id
    BY <2>1 DEF Over
  <2> QED BY <2>1, <2>2, <2>3, <2>4 DEF QuoteLearnt, QuoteFields
<1> HIDE DEF Answer
<1>7. ASSUME NEW i \in 1 .. n
      PROVE  IF Fresh(q) THEN QuoteLearnt(rs, Get(h.results[i], <<>>), cs[i]) ELSE h.results[i] = None
  BY <1>1, <1>6, Gets DEF HydrateEach
<1>8. QuoteTrue(rs, h.inserts)
  BY <1>2, <1>3 DEF QuoteTrue
<1> QED BY <1>7, <1>8 DEF h

\* What the seven hydrators before the filters may answer with.
SpokenOf(e1, e2, e3, e4, e5, e6, e7) ==
    /\ DOMAIN e1 \subseteq {"in_network"} /\ DOMAIN e2 \subseteq CoreFields
    /\ DOMAIN e3 \subseteq QuoteFields /\ DOMAIN e4 \subseteq {"video"}
    /\ DOMAIN e5 \subseteq {"subscription"} /\ DOMAIN e6 \subseteq {"blocks_viewer"}
    /\ DOMAIN e7 \subseteq {"topics", "unfiltered"}

\* What comes of a candidate when they have answered.
LEMMA LearntOfSeven ==
    ASSUME NEW cs, NEW answers, DOMAIN answers = 1 .. 7, Len(answers) = 7,
           NEW i \in 1 .. Len(cs), Telling \subseteq DOMAIN cs[i],
           NEW e, \A b \in 1 .. 7 : Get(answers[b][i], <<>>) = e[b],
           SpokenOf(e[1], e[2], e[3], e[4], e[5], e[6], e[7])
    PROVE  LET d == RunHydrators(cs, answers)[i]
           IN  /\ DOMAIN d = DOMAIN cs[i]
               /\ \A f \in {"tweet_id", "author_id", "served_type", "ancestors", "verdict"} : d[f] = cs[i][f]
               /\ \A f \in {"retweeted_id", "in_reply_to"} : Learnt(cs[i], d, e[2], f)
               /\ Learnt(cs[i], d, e[3], "quoted_id") /\ Learnt(cs[i], d, e[4], "video")
<1> DEFINE c == cs[i]
           d == RunHydrators(cs, answers)[i]
           Fs == {"tweet_id", "author_id", "served_type", "ancestors", "verdict"}
<1>1. /\ DOMAIN e[1] \subseteq {"in_network"} /\ DOMAIN e[2] \subseteq CoreFields
      /\ DOMAIN e[3] \subseteq QuoteFields /\ DOMAIN e[4] \subseteq {"video"}
      /\ DOMAIN e[5] \subseteq {"subscription"} /\ DOMAIN e[6] \subseteq {"blocks_viewer"}
      /\ DOMAIN e[7] \subseteq {"topics", "unfiltered"}
  BY DEF SpokenOf
<1>2. \A b \in 1 .. 7 : b = 1 \/ b = 2 \/ b = 3 \/ b = 4 \/ b = 5 \/ b = 6 \/ b = 7
  OBVIOUS
<1>3. \A f \in Fs : f \in DOMAIN c /\ \A b \in 1 .. 7 : f \notin DOMAIN e[b]
  <2> DEFINE Others == {"in_network"} \cup CoreFields \cup QuoteFields \cup {"video"} \cup {"subscription"}
                         \cup {"blocks_viewer"} \cup {"topics", "unfiltered"}
  <2>1. \A b \in 1 .. 7 : DOMAIN e[b] \subseteq Others
    BY <1>1, <1>2
  <2>2. \A f \in Fs : f \in DOMAIN c /\ f \notin Others
    BY DEF CoreFields, QuoteFields, Telling
  <2> HIDE DEF Others, Fs
  <2> QED BY <2>1, <2>2
<1>4. \A f \in {"retweeted_id", "in_reply_to"} : f \in DOMAIN c /\ \A b \in 1 .. 7 \ {2} : f \notin DOMAIN e[b]
  <2> DEFINE Others == {"in_network"} \cup QuoteFields \cup {"video"} \cup {"subscription"} \cup {"blocks_viewer"} \cup {"topics", "unfiltered"}
  <2>1. \A b \in 1 .. 7 \ {2} : DOMAIN e[b] \subseteq Others
    BY <1>1, <1>2
  <2>2. \A f \in {"retweeted_id", "in_reply_to"} : f \in DOMAIN c /\ f \notin Others
    BY DEF CoreFields, QuoteFields, Telling
  <2> HIDE DEF Others
  <2> QED BY <2>1, <2>2
<1>5. "quoted_id" \in DOMAIN c /\ \A b \in 1 .. 7 \ {3} : "quoted_id" \notin DOMAIN e[b]
  <2> DEFINE Others == {"in_network"} \cup CoreFields \cup {"video"} \cup {"subscription"} \cup {"blocks_viewer"} \cup {"topics", "unfiltered"}
  <2>1. \A b \in 1 .. 7 \ {3} : DOMAIN e[b] \subseteq Others
    BY <1>1, <1>2
  <2>2. "quoted_id" \in DOMAIN c /\ "quoted_id" \notin Others
    BY DEF CoreFields, QuoteFields, Telling
  <2> HIDE DEF Others
  <2> QED BY <2>1, <2>2
<1>6. "video" \in DOMAIN c /\ \A b \in 1 .. 7 \ {4} : "video" \notin DOMAIN e[b]
  <2> DEFINE Others == {"in_network"} \cup CoreFields \cup QuoteFields \cup {"subscription"} \cup {"blocks_viewer"} \cup {"topics", "unfiltered"}
  <2>1. \A b \in 1 .. 7 \ {4} : DOMAIN e[b] \subseteq Others
    BY <1>1, <1>2
  <2>2. "video" \in DOMAIN c /\ "video" \notin Others
    BY DEF CoreFields, QuoteFields, Telling
  <2> HIDE DEF Others
  <2> QED BY <2>1, <2>2
<1>7. 7 \in Nat /\ 7 \in 1 .. 7 /\ 2 \in 1 .. 7 /\ 3 \in 1 .. 7 /\ 4 \in 1 .. 7
  OBVIOUS
<1> HIDE DEF Fs
<1>8. \A f \in Fs : Learnt(c, d, e[7], f) /\ DOMAIN d = DOMAIN c
  <2> SUFFICES ASSUME NEW f \in Fs PROVE Learnt(c, d, e[7], f) /\ DOMAIN d = DOMAIN c
    OBVIOUS
  <2>1. f \in DOMAIN cs[i] /\ \A b \in 1 .. 7 \ {7} : f \notin DOMAIN Get(answers[b][i], <<>>)
    BY <1>3
  <2>2. Get(answers[7][i], <<>>) = e[7]
    BY <1>7
  <2>3. DOMAIN RunHydrators(cs, answers)[i] = DOMAIN cs[i]
        /\ Learnt(cs[i], RunHydrators(cs, answers)[i], Get(answers[7][i], <<>>), f)
    BY <1>7, <2>1, Learns
  <2> QED BY <2>2, <2>3
<1>9. \A f \in {"retweeted_id", "in_reply_to"} : Learnt(c, d, e[2], f)
  <2> SUFFICES ASSUME NEW f \in {"retweeted_id", "in_reply_to"} PROVE Learnt(c, d, e[2], f)
    OBVIOUS
  <2>1. f \in DOMAIN cs[i] /\ \A b \in 1 .. 7 \ {2} : f \notin DOMAIN Get(answers[b][i], <<>>)
    BY <1>4
  <2>2. Get(answers[2][i], <<>>) = e[2]
    BY <1>7
  <2>3. Learnt(cs[i], RunHydrators(cs, answers)[i], Get(answers[2][i], <<>>), f)
    BY <1>7, <2>1, Learns
  <2> QED BY <2>2, <2>3
<1>10. Learnt(c, d, e[3], "quoted_id")
  <2>1. \A b \in 1 .. 7 \ {3} : "quoted_id" \notin DOMAIN Get(answers[b][i], <<>>)
    BY <1>5
  <2>2. Get(answers[3][i], <<>>) = e[3]
    BY <1>7
  <2>3. Learnt(cs[i], RunHydrators(cs, answers)[i], Get(answers[3][i], <<>>), "quoted_id")
    BY <1>5, <1>7, <2>1, Learns
  <2> QED BY <2>2, <2>3
<1>11. Learnt(c, d, e[4], "video")
  <2>1. \A b \in 1 .. 7 \ {4} : "video" \notin DOMAIN Get(answers[b][i], <<>>)
    BY <1>6
  <2>2. Get(answers[4][i], <<>>) = e[4]
    BY <1>7
  <2>3. Learnt(cs[i], RunHydrators(cs, answers)[i], Get(answers[4][i], <<>>), "video")
    BY <1>6, <1>7, <2>1, Learns
  <2> QED BY <2>2, <2>3
<1>12. \A f \in Fs : d[f] = c[f] /\ DOMAIN d = DOMAIN c
  BY <1>3, <1>7, <1>8 DEF Learnt
<1>13. DOMAIN d = DOMAIN c
  BY <1>12 DEF Fs
<1> QED BY <1>9, <1>10, <1>11, <1>12, <1>13 DEF Fs

\* A candidate of which only its source is known becomes sound.
LEMMA NovelBecomesSound ==
    ASSUME NEW rs, NEW key, NEW faults, Accounted(rs, key, faults),
           NEW c, Novel(c), Meant(key, c), NEW e2, NEW e3, NEW e4,
           CoreLearnt(e2, c), QuoteLearnt(rs, e3, c), VideoLearnt(faults, e4, c),
           NEW d, DOMAIN d = DOMAIN c,
           \A f \in {"tweet_id", "author_id", "served_type", "ancestors", "verdict"} : d[f] = c[f],
           Learnt(c, d, e2, "retweeted_id"), Learnt(c, d, e3, "quoted_id"), Learnt(c, d, e4, "video")
    PROVE  Sound(rs, key, d)
<1>1. /\ d.tweet_id = c.tweet_id /\ d.author_id = c.author_id /\ d.served_type = c.served_type
      /\ d.ancestors = c.ancestors /\ d.verdict = c.verdict
  OBVIOUS
<1>2. /\ DOMAIN c = DOMAIN NoCandidate /\ Known(c.tweet_id) /\ c.ancestors \in Seq(Nat)
      /\ c.retweeted_id \in {None, NonZero(Post(c.tweet_id).source)}
      /\ OriginalTweetId(c) = Watched(c) /\ c.video = None /\ c.verdict = None
  BY DEF Novel, Formed
<1>3. d.retweeted_id \in {None, NonZero(Post(c.tweet_id).source)}
  BY <1>2 DEF Learnt, CoreLearnt
<1>4. Formed(d)
  BY <1>1, <1>2, <1>3 DEF Formed
<1>5. Meant(key, d)
  BY <1>1 DEF Meant
<1>6. Watched(d) = Watched(c)
  BY <1>1 DEF Watched
<1>7. Filmed(rs, key, d)
  <2>1. CASE DOMAIN e4 = {"video"} /\ e4.video = NonZero(Post(Watched(c)).video)
    <3>1. d.video = NonZero(Post(Watched(c)).video)
      BY <2>1 DEF Learnt
    <3>2. NonZero(Post(Watched(c)).video) = None => Post(Watched(c)).video = 0
      BY Gets DEF NonZero
    <3> QED BY <1>6, <3>1, <3>2 DEF Filmed
  <2>2. CASE Fails(faults, "tes_video", Watched(c))
    BY <1>6, <2>2 DEF Filmed, Accounted
  <2> QED BY <1>2, <2>1, <2>2 DEF VideoLearnt
<1>8. Quotes(rs, d.tweet_id, d.quoted_id)
  BY <1>1 DEF Learnt, QuoteLearnt
<1>9. Judged(rs, d.tweet_id, d.verdict)
  BY <1>1, <1>2 DEF Judged
<1> QED BY <1>4, <1>5, <1>7, <1>8, <1>9 DEF Sound

\* The hydrators that keep no cache.
LEMMA OthersTell ==
    ASSUME NEW q, NEW faults, NEW cs, Listed(cs)
    PROVE  /\ \A i \in 1 .. Len(cs) : DOMAIN Get(InNetworkHydrator(q, cs)[i], <<>>) \subseteq {"in_network"}
           /\ \A i \in 1 .. Len(cs) : DOMAIN Get(BlockedByHydrator(q, faults, cs)[i], <<>>) \subseteq {"blocks_viewer"}
           /\ \A i \in 1 .. Len(cs) : DOMAIN Get(FilteredTopicsHydrator(q, faults, cs)[i], <<>>)
                                          \subseteq {"topics", "unfiltered"}
<1> DEFINE n == Len(cs)
<1>1. n \in Nat
  BY DEF Listed
<1>2. \A i \in 1 .. n : DOMAIN Get(InNetworkHydrator(q, cs)[i], <<>>) \subseteq {"in_network"}
  <2> DEFINE f == MapSeq(cs, LAMBDA c : Some([in_network |-> Some(c.author_id = Viewer \/ c.author_id \in q.followed)]))
  <2>1. DOMAIN f = 1 .. n /\ \A i \in 1 .. n : \E v : f[i] = Some([in_network |-> v])
    BY DEF MapSeq
  <2>2. InNetworkHydrator(q, cs) = HydrateEach(Fresh(q), f)
    BY DEF InNetworkHydrator
  <2> HIDE DEF f
  <2> DEFINE F == {"in_network"}
  <2>3. \A i \in 1 .. n : DOMAIN Get(f[i], <<>>) \subseteq F
    <3> SUFFICES ASSUME NEW i \in 1 .. n PROVE DOMAIN Get(f[i], <<>>) \subseteq F
      OBVIOUS
    <3>1. f[i] = None \/ \E v : f[i] = Some([in_network |-> v])
      BY <2>1
    <3>2. CASE f[i] = None
      BY <3>2, NothingAnswered
    <3>3. ASSUME NEW v, f[i] = Some([in_network |-> v]) PROVE DOMAIN Get(f[i], <<>>) \subseteq F
      <4>1. Get(f[i], <<>>) = [in_network |-> v]
        BY <3>3, Gets
      <4> QED BY <4>1
    <3> QED BY <3>1, <3>2, <3>3
  <2> HIDE DEF F, n
  <2>4. \A i \in 1 .. n : DOMAIN Get(HydrateEach(Fresh(q), f)[i], <<>>) \subseteq F
    BY <1>1, <2>1, <2>3, EachTells
  <2> QED BY <2>2, <2>4 DEF F
<1>3. \A i \in 1 .. n : DOMAIN Get(BlockedByHydrator(q, faults, cs)[i], <<>>) \subseteq {"blocks_viewer"}
  <2> DEFINE f == MapSeq(cs, LAMBDA c : Answered(faults, "blocked_by", [blocks_viewer |-> Some(c.author_id \in World.blocks_viewer)]))
  <2>1. DOMAIN f = 1 .. n /\ \A i \in 1 .. n : f[i] = None \/ \E v : f[i] = Some([blocks_viewer |-> v])
    BY DEF MapSeq, Answered, AnsweredFor
  <2>2. BlockedByHydrator(q, faults, cs) = HydrateEach(Fresh(q), f)
    BY DEF BlockedByHydrator
  <2> HIDE DEF f
  <2> DEFINE F == {"blocks_viewer"}
  <2>3. \A i \in 1 .. n : DOMAIN Get(f[i], <<>>) \subseteq F
    <3> SUFFICES ASSUME NEW i \in 1 .. n PROVE DOMAIN Get(f[i], <<>>) \subseteq F
      OBVIOUS
    <3>1. f[i] = None \/ \E v : f[i] = Some([blocks_viewer |-> v])
      BY <2>1
    <3>2. CASE f[i] = None
      BY <3>2, NothingAnswered
    <3>3. ASSUME NEW v, f[i] = Some([blocks_viewer |-> v]) PROVE DOMAIN Get(f[i], <<>>) \subseteq F
      <4>1. Get(f[i], <<>>) = [blocks_viewer |-> v]
        BY <3>3, Gets
      <4> QED BY <4>1
    <3> QED BY <3>1, <3>2, <3>3
  <2> HIDE DEF F, n
  <2>4. \A i \in 1 .. n : DOMAIN Get(HydrateEach(Fresh(q), f)[i], <<>>) \subseteq F
    BY <1>1, <2>1, <2>3, EachTells
  <2> QED BY <2>2, <2>4 DEF F
<1>4. \A i \in 1 .. n : DOMAIN Get(FilteredTopicsHydrator(q, faults, cs)[i], <<>>) \subseteq {"topics", "unfiltered"}
  <2> DEFINE f == MapSeq(cs, LAMBDA c : Some(FilteredTopics(q, faults, c)))
             enabled == \/ IsTopicRequest(q) \/ HasExcludedTopics(q)
                        \/ q.params.new_user_filtering /\ HasNewUserTopicIds(q)
  <2>1. DOMAIN f = 1 .. n /\ \A i \in 1 .. n : \E v, w : f[i] = Some([topics |-> v, unfiltered |-> w])
    BY DEF MapSeq, FilteredTopics
  <2>2. FilteredTopicsHydrator(q, faults, cs) = HydrateEach(enabled, f)
    BY DEF FilteredTopicsHydrator
  <2> HIDE DEF f, enabled
  <2> DEFINE F == {"topics", "unfiltered"}
  <2>3. \A i \in 1 .. n : DOMAIN Get(f[i], <<>>) \subseteq F
    <3> SUFFICES ASSUME NEW i \in 1 .. n PROVE DOMAIN Get(f[i], <<>>) = F
      OBVIOUS
    <3>1. \E v, w : f[i] = Some([topics |-> v, unfiltered |-> w])
      BY <2>1
    <3>2. ASSUME NEW v, NEW w, f[i] = Some([topics |-> v, unfiltered |-> w]) PROVE DOMAIN Get(f[i], <<>>) = F
      <4>1. Get(f[i], <<>>) = [topics |-> v, unfiltered |-> w]
        BY <3>2, Gets
      <4> QED BY <4>1
    <3> QED BY <3>1, <3>2
  <2> HIDE DEF F, n
  <2>4. \A i \in 1 .. n : DOMAIN Get(HydrateEach(enabled, f)[i], <<>>) \subseteq F
    BY <1>1, <2>1, <2>3, EachTells
  <2> QED BY <2>2, <2>4 DEF F
<1> QED BY <1>2, <1>3, <1>4 DEF n

\* A candidate as it comes to the hydrators.
Comes(rs, key, q, c) == IF Fresh(q) THEN Novel(c) /\ Meant(key, c) ELSE Sound(rs, key, c)

\* The stage before the filters makes sound candidates, and caches what is true.
LEMMA StageTells ==
    ASSUME NEW rs, NEW key, NEW q, NEW faults, Accounted(rs, key, faults),
           NEW cs, Listed(cs), NEW cached, LooksUp(rs, cached),
           \A c \in Range1(cs) : Comes(rs, key, q, c)
    PROVE  LET h == HydrateCandidates(q, faults, cs, cached)
           IN  /\ \A c \in Range1(h.candidates) : Sound(rs, key, c)
               /\ LooksUp(rs, h.inserts) /\ h.inserts.brand = <<>>
<1> DEFINE n == Len(cs)
           core == CoreDataHydrator(q, faults, cs, cached.core)
           quote == QuoteHydrator(q, faults, cs, cached.quote)
           video == VideoDurationHydrator(q, faults, cs, cached.video)
           subs == SubscriptionHydrator(q, faults, cs, cached.subscription)
           network == InNetworkHydrator(q, cs)
           blocked == BlockedByHydrator(q, faults, cs)
           topics == FilteredTopicsHydrator(q, faults, cs)
           answers == <<network, core.results, quote.results, video.results, subs.results, blocked, topics>>
           h == HydrateCandidates(q, faults, cs, cached)
<1>1. n \in Nat
  BY DEF Listed
<1>2. h.candidates = RunHydrators(cs, answers)
  BY DEF HydrateCandidates
<1>3. h.inserts = [core |-> core.inserts, quote |-> quote.inserts, video |-> video.inserts,
                   subscription |-> subs.inserts, brand |-> <<>>]
  BY DEF HydrateCandidates
<1>4. CoreTrue(cached.core) /\ QuoteTrue(rs, cached.quote) /\ VideoTrue(cached.video) /\ SubsTrue(cached.subscription)
  BY DEF LooksUp
<1>5. /\ \A i \in 1 .. n : CoreLearnt(Get(core.results[i], <<>>), cs[i]) /\ (~Fresh(q) => core.results[i] = None)
      /\ CoreTrue(core.inserts)
  BY <1>4, CoreTells
<1>6. /\ \A i \in 1 .. n : IF Fresh(q) THEN QuoteLearnt(rs, Get(quote.results[i], <<>>), cs[i]) ELSE quote.results[i] = None
      /\ QuoteTrue(rs, quote.inserts)
  BY <1>4, QuoteTells
<1>7. /\ \A i \in 1 .. n : IF Fresh(q) THEN VideoLearnt(faults, Get(video.results[i], <<>>), cs[i]) ELSE video.results[i] = None
      /\ VideoTrue(video.inserts)
  BY <1>4, VideoTells
<1>8. /\ \A i \in 1 .. n : DOMAIN Get(subs.results[i], <<>>) \subseteq {"subscription"}
      /\ SubsTrue(subs.inserts)
  BY <1>4, SubsTells
<1>9. /\ \A i \in 1 .. n : DOMAIN Get(network[i], <<>>) \subseteq {"in_network"}
      /\ \A i \in 1 .. n : DOMAIN Get(blocked[i], <<>>) \subseteq {"blocks_viewer"}
      /\ \A i \in 1 .. n : DOMAIN Get(topics[i], <<>>) \subseteq {"topics", "unfiltered"}
  BY OthersTell
<1> HIDE DEF core, quote, video, subs, network, blocked, topics, h
<1>10. /\ DOMAIN answers = 1 .. 7 /\ Len(answers) = 7
       /\ answers[1] = network /\ answers[2] = core.results /\ answers[3] = quote.results
       /\ answers[4] = video.results /\ answers[5] = subs.results /\ answers[6] = blocked /\ answers[7] = topics
  OBVIOUS
<1> HIDE DEF answers
<1>11. LooksUp(rs, h.inserts) /\ h.inserts.brand = <<>>
  BY <1>3, <1>5, <1>6, <1>7, <1>8 DEF LooksUp
<1>12. ASSUME NEW i \in 1 .. n PROVE Sound(rs, key, h.candidates[i])
  <2> DEFINE c == cs[i]
             e == [b \in 1 .. 7 |-> Get(answers[b][i], <<>>)]
             d == RunHydrators(cs, answers)[i]
  <2>1. c \in Range1(cs)
    BY DEF Range1
  <2>2. /\ e[1] = Get(network[i], <<>>) /\ e[2] = Get(core.results[i], <<>>)
        /\ e[3] = Get(quote.results[i], <<>>) /\ e[4] = Get(video.results[i], <<>>)
        /\ e[5] = Get(subs.results[i], <<>>) /\ e[6] = Get(blocked[i], <<>>) /\ e[7] = Get(topics[i], <<>>)
    BY <1>10
  <2>3. \A b \in 1 .. 7 : Get(answers[b][i], <<>>) = e[b]
    OBVIOUS
  <2> HIDE DEF e
  <2>4. DOMAIN e[2] \subseteq CoreFields /\ (~Fresh(q) => DOMAIN e[2] = {})
    BY <1>5, <2>2, NothingAnswered DEF CoreLearnt
  <2>5. DOMAIN e[3] \subseteq QuoteFields /\ (~Fresh(q) => DOMAIN e[3] = {})
    BY <1>6, <2>2, NothingAnswered DEF QuoteLearnt
  <2>6. DOMAIN e[4] \subseteq {"video"} /\ (~Fresh(q) => DOMAIN e[4] = {})
    BY <1>7, <2>2, NothingAnswered DEF VideoLearnt
  <2>7. SpokenOf(e[1], e[2], e[3], e[4], e[5], e[6], e[7])
    <3>1. DOMAIN e[1] \subseteq {"in_network"} /\ DOMAIN e[5] \subseteq {"subscription"}
          /\ DOMAIN e[6] \subseteq {"blocks_viewer"} /\ DOMAIN e[7] \subseteq {"topics", "unfiltered"}
      BY <1>8, <1>9, <2>2
    <3> QED BY <2>4, <2>5, <2>6, <3>1 DEF SpokenOf
  <2>8. Formed(c)
    BY <2>1 DEF Comes, Novel, Sound
  <2>9. Telling \subseteq DOMAIN cs[i]
    BY <2>8, TellingFields DEF Formed
  <2>10. /\ DOMAIN d = DOMAIN c
         /\ \A f \in {"tweet_id", "author_id", "served_type", "ancestors", "verdict"} : d[f] = c[f]
         /\ \A f \in {"retweeted_id", "in_reply_to"} : Learnt(c, d, e[2], f)
         /\ Learnt(c, d, e[3], "quoted_id") /\ Learnt(c, d, e[4], "video")
    BY <1>10, <2>3, <2>7, <2>9, LearntOfSeven
  <2> HIDE DEF c, d
  <2>11. CASE Fresh(q)
    <3>1. CoreLearnt(e[2], c) /\ QuoteLearnt(rs, e[3], c) /\ VideoLearnt(faults, e[4], c)
      BY <1>5, <1>6, <1>7, <2>2, <2>11 DEF c
    <3>2. Novel(c) /\ Meant(key, c)
      BY <2>1, <2>11 DEF Comes
    <3>3. Learnt(c, d, e[2], "retweeted_id")
      BY <2>10
    <3>4. Sound(rs, key, d)
      BY <2>10, <3>1, <3>2, <3>3, NovelBecomesSound
    <3> QED BY <1>2, <3>4 DEF d
  <2>12. CASE ~Fresh(q)
    <3>1. d.retweeted_id = c.retweeted_id /\ d.in_reply_to = c.in_reply_to
          /\ d.quoted_id = c.quoted_id /\ d.video = c.video
      BY <2>4, <2>5, <2>6, <2>10, <2>12 DEF Learnt
    <3>2. /\ d.tweet_id = c.tweet_id /\ d.author_id = c.author_id /\ d.served_type = c.served_type
          /\ d.ancestors = c.ancestors /\ d.verdict = c.verdict
      BY <2>10
    <3>3. SameTale(c, d)
      BY <2>10, <3>1, <3>2 DEF SameTale, Telling
    <3>4. Sound(rs, key, c)
      BY <2>1, <2>12 DEF Comes
    <3> QED BY <1>2, <3>3, <3>4, SameTales DEF d
  <2> QED BY <2>11, <2>12
<1>13. Len(h.candidates) = n
  <2> DEFINE at(j) == MapSeq(answers, LAMBDA results : results[j])
             ran == [j \in 1 .. n |-> Merged(cs[j], at(j))]
  <2>1. RunHydrators(cs, answers) = ran
    BY DEF RunHydrators
  <2> HIDE DEF at
  <2>2. Len(ran) = n
    BY <1>1
  <2> QED BY <1>2, <2>1, <2>2
<1>14. \A c \in Range1(h.candidates) : Sound(rs, key, c)
  BY <1>12, <1>13 DEF Range1
<1> QED BY <1>11, <1>14 DEF h

(* ---------- Truth goes on: fetching and hydrating --------------------------- *)

\* One request goes on, true of itself, and the caches stay true.
LEMMA OneTruthful ==
    ASSUME TruthInv, Grown(reqs, reqs'), NEW r \in Requests, NEW F, Changes(r, F),
           Truthful(reqs', reqs'[r]), CachesTrue(reqs', caches')
    PROVE  TruthInv'
<1>1. \A x \in Requests : Truthful(reqs', reqs'[x])
  <2> SUFFICES ASSUME NEW x \in Requests, x # r PROVE Truthful(reqs', reqs'[x])
    OBVIOUS
  <2>1. reqs'[x] = reqs[x] /\ Truthful(reqs, reqs[x])
    BY DEF Changes, TruthInv
  <2> QED BY <2>1, TruthStays
<1> QED BY <1>1 DEF TruthInv

\* Stages at which nothing is said of posts, and steps that leave them as they are.
LEMMA NothingSaid ==
    ASSUME TruthInv, Grown(reqs, reqs'), NEW r \in Requests, NEW F, Changes(r, F), caches' = caches,
           \/ reqs'[r].stage \in {"built", "asked", "hydrated"}
           \/ /\ \/ reqs'[r].stage = reqs[r].stage
                 \/ reqs[r].stage = "selected" /\ reqs'[r].stage = "answered"
              /\ reqs'[r].query = reqs[r].query /\ reqs'[r].candidates = reqs[r].candidates
              /\ reqs'[r].non_selected = reqs[r].non_selected /\ reqs'[r].found = reqs[r].found
    PROVE  TruthInv'
<1>1. Truthful(reqs, reqs[r]) /\ CachesTrue(reqs, caches)
  BY DEF TruthInv
<1>2. Truthful(reqs, reqs'[r])
  BY <1>1 DEF Truthful, Ended
<1>3. Truthful(reqs', reqs'[r]) /\ CachesTrue(reqs', caches')
  BY <1>1, <1>2, TruthStays
<1> QED BY <1>3, OneTruthful

\* A request for those followed takes only candidates by them.
LEMMA OnlyFollowed ==
    ASSUME NEW q, NEW faults, NEW time, ~q.has_cached_posts, q.in_network_only
    PROVE  \A c \in Range1(PhoenixCandidatesOf(q, faults, time)) : c.author_id \in q.followed
<1> DEFINE results == <<ThunderSource(q, faults), TweetMixerSource(q, faults, time),
                        PhoenixSource(q, faults), PhoenixTopicsSource(q, faults),
                        PhoenixMOESource(q, faults), CachedPostsSource(q)>>
<1>1. PhoenixCandidatesOf(q, faults, time) = FetchCandidates(results)
  BY DEF PhoenixCandidatesOf
<1>2. /\ TweetMixerSource(q, faults, time) = None
      /\ PhoenixSource(q, faults) = None /\ PhoenixTopicsSource(q, faults) = None
      /\ PhoenixMOESource(q, faults) = None /\ CachedPostsSource(q) = None
  BY DEF TweetMixerSource, PhoenixSource, PhoenixTopicsSource, PhoenixMOESource, CachedPostsSource, Wide, When
<1>3. DOMAIN results = 1 .. 6 /\ Len(results) = 6 /\ results[1] = ThunderSource(q, faults)
      /\ \A k \in 1 .. 6 : k # 1 => results[k] = None
  BY <1>2
<1> HIDE DEF results
<1>4. /\ Listed(Get(results[1], <<>>))
      /\ \A c \in Range1(Get(results[1], <<>>)) : c.author_id \in q.followed
  BY <1>3, ThunderDelivers
<1>5. Listed(<<>>) /\ Range1(<<>>) = {}
  BY DEF Listed, Range1
<1>6. \A k \in 1 .. 6 : k # 1 => Get(results[k], <<>>) = <<>>
  BY <1>3, Gets
<1>7. 6 \in Nat /\ \A k \in 1 .. 6 : Listed(Get(results[k], <<>>))
  BY <1>4, <1>5, <1>6
<1>8. \A c \in Range1(FetchCandidates(results)) : \E k \in 1 .. 6 : c \in Range1(Get(results[k], <<>>))
  BY <1>3, <1>7, FetchedList
<1>9. \A c \in Range1(FetchCandidates(results)) : c \in Range1(Get(results[1], <<>>))
  BY <1>5, <1>6, <1>8
<1> QED BY <1>1, <1>4, <1>9

\* What a request found in Redis another one found true.
LEMMA CachedAreSound ==
    ASSUME WorkInv, TruthInv, NEW key, NEW posts, FromOther(reqs, key, posts)
    PROVE  \A c \in Range1(posts) : Sound(reqs, key, c)
<1>1. PICK s \in Requests :
          /\ reqs[s].stage \in Ended
          /\ CachedPostsKey(reqs[s].query) = key
          /\ Range1(posts) \subseteq Range1(reqs[s].candidates \o reqs[s].non_selected)
  BY DEF FromOther
<1>2. Listed(reqs[s].candidates) /\ Listed(reqs[s].non_selected)
  BY <1>1 DEF WorkInv, InShape, Own
<1>3. Range1(reqs[s].candidates \o reqs[s].non_selected)
          = Range1(reqs[s].candidates) \cup Range1(reqs[s].non_selected)
  BY <1>2, Joined
<1>4. Truthful(reqs, reqs[s])
  BY DEF TruthInv
<1>5. /\ \A c \in Range1(reqs[s].candidates) : Sound(reqs, key, c)
      /\ \A c \in Range1(reqs[s].non_selected) : Sound(reqs, key, c)
  BY <1>1, <1>4 DEF Truthful
<1> QED BY <1>1, <1>3, <1>5

\* What is fetched is true.
LEMMA FetchTruth ==
    ASSUME WorkInv, ToldInv, TruthInv, Grown(reqs, reqs'), NEW r \in Requests, Fetch(r)
    PROVE  TruthInv'
<1> DEFINE old == reqs[r].query
           replies == NetworkReplies(old, Faults(r))
           q == [old EXCEPT !.network_replies = replies]
           cs == PhoenixCandidatesOf(old, Faults(r), now)
           key == CachedPostsKey(old)
<1>1. /\ At(r, "hydrated") /\ Changes(r, {"stage", "candidates", "query", "found"})
      /\ reqs'[r].stage = "fetched" /\ reqs'[r].query = q /\ reqs'[r].candidates = cs
      /\ reqs'[r].found = Live(caches, now) /\ caches' = caches
  BY FetchMoves DEF WorkInv
<1>2. Asks(old) /\ Backed(reqs, r)
  BY <1>1 DEF WorkInv, InShape, At
<1>3. \A f \in {"topic_ids", "in_network_only", "exclude_videos", "has_cached_posts"} : q[f] = old[f]
  BY <1>2 DEF Asks, QueryFields
<1>4. Told(reqs[r])
  BY <1>1 DEF ToldInv, At
<1>5. old.followed \in {{}, World.followed}
  BY <1>4 DEF Told
<1> HIDE DEF replies, q
<1>6. q.has_cached_posts = old.has_cached_posts /\ CachedPostsKey(q) = key
  BY <1>3 DEF CachedPostsKey
<1>7. key[2] = old.in_network_only
  BY DEF CachedPostsKey
<1> HIDE DEF key, cs
<1>8. LooksUp(reqs, Live(caches, now))
  <2>1. LooksUp(reqs, caches) /\ DOMAIN caches = CacheNames
    BY DEF TruthInv, CachesTrue, WorkInv, CachesHarmless
  <2>2. \A n \in CacheNames \ {"brand"} : Live(caches, now)[n] = caches[n]
    BY <2>1 DEF Live
  <2>3. /\ Live(caches, now).core = caches.core /\ Live(caches, now).quote = caches.quote
        /\ Live(caches, now).video = caches.video /\ Live(caches, now).subscription = caches.subscription
    BY <2>2 DEF CacheNames
  <2> QED BY <2>1, <2>3 DEF LooksUp
<1>9. ASSUME old.has_cached_posts PROVE \A c \in Range1(cs) : Sound(reqs, key, c)
  <2>1. FromOther(reqs, key, old.cached_posts)
    BY <1>1, <1>2, <1>9 DEF Backed, At, key
  <2>2. cs = old.cached_posts
    BY <1>9, <2>1, CachedFetched DEF FromOther, cs
  <2> QED BY <2>1, <2>2, CachedAreSound
<1>10. ASSUME ~old.has_cached_posts PROVE \A c \in Range1(cs) : Novel(c) /\ Meant(key, c)
  <2>1. NewCandidates(old.prediction, cs)
    BY <1>10, Fetched DEF cs
  <2>2. \A c \in Range1(cs) : Novel(c)
    BY <2>1 DEF NewCandidates, Range1
  <2>3. old.in_network_only => \A c \in Range1(cs) : c.author_id \in old.followed
    BY <1>10, OnlyFollowed DEF cs
  <2> QED BY <1>5, <1>7, <2>2, <2>3 DEF Meant
<1>11. \A c \in Range1(cs) : IF q.has_cached_posts THEN Sound(reqs', key, c) ELSE Novel(c) /\ Meant(key, c)
  BY <1>6, <1>9, <1>10, TruthStays
<1>12. Truthful(reqs', reqs'[r])
  BY <1>1, <1>6, <1>8, <1>11, TruthStays DEF Truthful, Ended
<1>13. CachesTrue(reqs', caches')
  BY <1>1, TruthStays DEF TruthInv
<1> QED BY <1>1, <1>12, <1>13, OneTruthful

\* What is inserted into a cache is there, and what was there and is not replaced.
LEMMA OverTells ==
    ASSUME NEW change, NEW record
    PROVE  \A k \in DOMAIN Over(change, record) :
              \/ k \in DOMAIN change /\ Over(change, record)[k] = change[k]
              \/ k \in DOMAIN record /\ Over(change, record)[k] = record[k]
BY DEF Over

\* True answers keep a cache true.
LEMMA OverTrue ==
    /\ \A a, b : CoreTrue(a) /\ CoreTrue(b) => CoreTrue(Over(a, b))
    /\ \A rs, a, b : QuoteTrue(rs, a) /\ QuoteTrue(rs, b) => QuoteTrue(rs, Over(a, b))
    /\ \A a, b : VideoTrue(a) /\ VideoTrue(b) => VideoTrue(Over(a, b))
    /\ \A a, b : SubsTrue(a) /\ SubsTrue(b) => SubsTrue(Over(a, b))
<1>1. \A a, b : CoreTrue(a) /\ CoreTrue(b) => CoreTrue(Over(a, b))
  BY OverTells DEF CoreTrue
<1>2. \A rs, a, b : QuoteTrue(rs, a) /\ QuoteTrue(rs, b) => QuoteTrue(rs, Over(a, b))
  BY OverTells DEF QuoteTrue
<1>3. \A a, b : VideoTrue(a) /\ VideoTrue(b) => VideoTrue(Over(a, b))
  BY OverTells DEF VideoTrue
<1>4. \A a, b : SubsTrue(a) /\ SubsTrue(b) => SubsTrue(Over(a, b))
  BY OverTells DEF SubsTrue
<1> QED BY <1>1, <1>2, <1>3, <1>4

\* What the caches of the process gain is true, if it is of each of them.
LEMMA InsertedTrue ==
    ASSUME NEW rs, NEW cs, CachesTrue(rs, cs), NEW inserts, LooksUp(rs, inserts),
           \A k \in DOMAIN inserts.brand : /\ DOMAIN inserts.brand[k].fields = {"verdict"}
                                           /\ Judged(rs, k, inserts.brand[k].fields.verdict)
    PROVE  CachesTrue(rs, Inserted(cs, inserts))
<1> DEFINE new == Inserted(cs, inserts)
<1>1. /\ new.core = Over(inserts.core, cs.core) /\ new.quote = Over(inserts.quote, cs.quote)
      /\ new.video = Over(inserts.video, cs.video)
      /\ new.subscription = Over(inserts.subscription, cs.subscription)
      /\ new.brand = Over(inserts.brand, cs.brand)
  BY DEF Inserted, CacheNames
<1> HIDE DEF new
<1>2. LooksUp(rs, new)
  BY <1>1, OverTrue DEF LooksUp, CachesTrue
<1>3. \A k \in DOMAIN new.brand : /\ DOMAIN new.brand[k].fields = {"verdict"}
                                  /\ Judged(rs, k, new.brand[k].fields.verdict)
  <2>1. \A k \in DOMAIN new.brand : \/ k \in DOMAIN inserts.brand /\ new.brand[k] = inserts.brand[k]
                                    \/ k \in DOMAIN cs.brand /\ new.brand[k] = cs.brand[k]
    BY <1>1, OverTells
  <2> QED BY <2>1 DEF CachesTrue
<1> QED BY <1>2, <1>3 DEF CachesTrue, new

\* What hydrators learn is true.
LEMMA HydrateTruth ==
    ASSUME WorkInv, TruthInv, Grown(reqs, reqs'), NEW r \in Requests, Hydrate(r)
    PROVE  TruthInv'
<1> DEFINE q == reqs[r].query
           key == CachedPostsKey(q)
           h == HydrateCandidates(q, Faults(r), reqs[r].candidates, reqs[r].found)
<1>1. /\ At(r, "fetched") /\ Changes(r, {"stage", "found", "candidates", "retrieved"})
      /\ reqs'[r].stage = "enriched" /\ reqs'[r].candidates = h.candidates
      /\ caches' = Inserted(caches, h.inserts)
  BY HydrateMoves DEF WorkInv
<1>2. reqs'[r].query = q
  BY <1>1 DEF Changes, Fields
<1>3. /\ Truthful(reqs, reqs[r]) /\ Listed(reqs[r].candidates)
  BY <1>1 DEF TruthInv, WorkInv, InShape, Own, At
<1>4. LooksUp(reqs, reqs[r].found) /\ \A c \in Range1(reqs[r].candidates) : Comes(reqs, key, q, c)
  BY <1>1, <1>3 DEF Truthful, At, Fresh, Comes
<1>5. Accounted(reqs, key, Faults(r))
  <2>1. reqs[r].stage # "idle" /\ Faults(r) = reqs[r].scenario.faults
    BY <1>1 DEF At, Faults
  <2>2. \A id : Fails(Faults(r), "tes_quoted", id) => Unquoted(reqs, id)
    BY <2>1 DEF Unquoted
  <2>3. \A id : Fails(Faults(r), "tes_video", id) => Unseen(reqs, key, id)
    BY <2>1 DEF Unseen
  <2> QED BY <2>2, <2>3 DEF Accounted
<1> HIDE DEF key
<1>6. /\ \A c \in Range1(h.candidates) : Sound(reqs, key, c)
      /\ LooksUp(reqs, h.inserts) /\ h.inserts.brand = <<>>
  BY <1>3, <1>4, <1>5, StageTells
<1> HIDE DEF h
<1>7. CachesTrue(reqs, caches')
  <2>1. DOMAIN h.inserts.brand = {}
    BY <1>6
  <2> QED BY <1>1, <1>6, <2>1, InsertedTrue DEF TruthInv
<1>8. Truthful(reqs, reqs'[r])
  BY <1>1, <1>2, <1>6 DEF Truthful, Ended, key
<1> QED BY <1>1, <1>7, <1>8, TruthStays, OneTruthful

(* ---------- Truth goes on: ranking ------------------------------------------ *)

\* The two filters on what was asked for.
ServedOut(q, c) ==
    q.params.served_all \/ (q.is_bottom /\ q.context # "foreground_truncate")
        => RelatedPostIds(c) \cap q.served_ids = {}

VideoOut(q, c) == q.exclude_videos => c.video = None

\* What a filter keeps that judges candidates by themselves, it would keep.
LEMMA JudgesEach ==
    ASSUME NEW q, NEW time, NEW cs, Listed(cs)
    PROVE  /\ \A c \in Range1(RunFilter(q, time, "previously_served", cs).kept) : ServedOut(q, c)
           /\ \A c \in Range1(RunFilter(q, time, "video", cs).kept) : VideoOut(q, c)
<1>1. \A filter : \A c \in Range1(Partition(cs, {i \in DOMAIN cs : Keeps(q, time, filter, cs[i])}).kept) :
          Keeps(q, time, filter, c)
  <2> SUFFICES ASSUME NEW filter
               PROVE  \A c \in Range1(Partition(cs, {i \in DOMAIN cs : Keeps(q, time, filter, cs[i])}).kept) :
                          Keeps(q, time, filter, c)
    OBVIOUS
  <2> DEFINE places == {i \in DOMAIN cs : Keeps(q, time, filter, cs[i])}
             p == PickAt(cs, places)
             a == Ascending(places)
             T == Range1(cs)
  <2>1. Partition(cs, places).kept = p
    BY DEF Partition
  <2>2. cs \in Seq(T) /\ places \subseteq DOMAIN cs /\ \A i \in places : Keeps(q, time, filter, cs[i])
    BY DEF Listed
  <2> HIDE DEF places, T
  <2>3. \A i \in 1 .. Len(p) : a[i] \in places /\ p[i] = cs[a[i]]
    BY <2>2, Picked
  <2> HIDE DEF p, a
  <2>4. \A c \in Range1(p) : Keeps(q, time, filter, c)
    BY <2>2, <2>3 DEF Range1
  <2> QED BY <2>1, <2>4 DEF places
<1>2. \A c \in Range1(RunFilter(q, time, "previously_served", cs).kept) : ServedOut(q, c)
  <2> DEFINE on == FilterEnabled(q, "previously_served")
             part == Partition(cs, {i \in DOMAIN cs : Keeps(q, time, "previously_served", cs[i])})
  <2>1. on <=> q.params.served_all \/ (q.is_bottom /\ q.context # "foreground_truncate")
    BY DEF FilterEnabled
  <2>2. on => RunFilter(q, time, "previously_served", cs) = part
    BY DEF RunFilter
  <2>3. \A c : Keeps(q, time, "previously_served", c) => RelatedPostIds(c) \cap q.served_ids = {}
    BY DEF Keeps, PreviouslyServed
  <2>4. \A c \in Range1(part.kept) : Keeps(q, time, "previously_served", c)
    BY <1>1
  <2> HIDE DEF on, part
  <2> QED BY <2>1, <2>2, <2>3, <2>4 DEF ServedOut
<1>3. \A c \in Range1(RunFilter(q, time, "video", cs).kept) : VideoOut(q, c)
  <2> DEFINE on == FilterEnabled(q, "video")
             part == Partition(cs, {i \in DOMAIN cs : Keeps(q, time, "video", cs[i])})
  <2>1. on <=> q.exclude_videos
    BY DEF FilterEnabled
  <2>2. on => RunFilter(q, time, "video", cs) = part
    BY DEF RunFilter
  <2>3. \A c : Keeps(q, time, "video", c) => c.video = None
    BY DEF Keeps
  <2>4. \A c \in Range1(part.kept) : Keeps(q, time, "video", c)
    BY <1>1
  <2> HIDE DEF on, part
  <2> QED BY <2>1, <2>2, <2>3, <2>4 DEF VideoOut
<1> QED BY <1>2, <1>3

\* The filters before the selection let through what passes those two.
LEMMA FilterPasses ==
    ASSUME NEW q, NEW time, NEW cs, Listed(cs)
    PROVE  \A c \in Range1(Filter(q, time, cs).kept) : c \in Range1(cs) /\ Passed(q, c)
<1> DEFINE n == Len(PhoenixFilters)
<1>1. n = 14 /\ \A k \in 1 .. 14 : PhoenixFilters[k] # "dedup_conversation"
  BY DEF PhoenixFilters
<1>2. PhoenixFilters[9] = "previously_served" /\ PhoenixFilters[12] = "video"
  BY DEF PhoenixFilters
<1> DEFINE S == Range1(cs)
<1>3. cs \in Seq(S) /\ Len(PhoenixFilters) \in Nat
  BY <1>1 DEF Listed
<1> HIDE DEF S
<1>4. PICK passed : Passes(passed, q, time, PhoenixFilters, cs, S)
  BY <1>3, FilterSteps
<1> HIDE DEF n
<1> DEFINE Holds(k) == /\ Parted(passed[k], cs)
                       /\ k >= 9 => \A c \in Range1(passed[k].kept) : ServedOut(q, c)
                       /\ k >= 12 => \A c \in Range1(passed[k].kept) : VideoOut(q, c)
           T == {k \in 0 .. 14 : Holds(k)}
           g == [k \in 0 .. 14 |-> k]
<1>5. g[0] \in T
  BY <1>4, KeepAllParts DEF Passes
<1>6. ASSUME NEW k \in 1 .. 14, g[k - 1] \in T PROVE g[k] \in T
  <2> DEFINE acc == passed[k - 1]
             filter == PhoenixFilters[k]
             ran == RunFilter(q, time, filter, acc.kept)
  <2>1. k - 1 \in 0 .. 14 /\ k \in 0 .. 14 /\ k \in 1 .. Len(PhoenixFilters)
    BY <1>1 DEF n
  <2>2. /\ Parted(acc, cs)
        /\ k - 1 >= 9 => \A c \in Range1(acc.kept) : ServedOut(q, c)
        /\ k - 1 >= 12 => \A c \in Range1(acc.kept) : VideoOut(q, c)
    BY <1>6, <2>1
  <2>3. filter # "dedup_conversation" /\ Listed(acc.kept)
    BY <1>1, <2>2 DEF Parted
  <2>4. passed[k] = Pass(q, time, acc, filter)
    BY <1>4, <2>1 DEF Passes
  <2>5. Parted(ran, acc.kept)
    BY <2>3, FilterParts
  <2>6. Parted(passed[k], cs) /\ passed[k].kept = ran.kept
    <3> HIDE DEF acc, filter
    <3>1. Parted(acc, cs) /\ Parted(RunFilter(q, time, filter, acc.kept), acc.kept)
      BY <2>2, <2>5
    <3>2. Parted(Pass(q, time, acc, filter), cs)
      BY <3>1, PassParts
    <3>3. Pass(q, time, acc, filter).kept = RunFilter(q, time, filter, acc.kept).kept
      BY <3>1, PassParts
    <3> QED BY <2>4, <3>2, <3>3
  <2>7. Range1(ran.kept) \subseteq Range1(acc.kept)
    <3>1. Listed(ran.kept) /\ Drawn(ran.kept, acc.kept)
      BY <2>5 DEF Parted
    <3> HIDE DEF ran, acc
    <3> QED BY <2>3, <3>1, DrawnDiffers
  <2>8. k = 9 => \A c \in Range1(ran.kept) : ServedOut(q, c)
    BY <1>2, <2>3, JudgesEach
  <2>9. k = 12 => \A c \in Range1(ran.kept) : VideoOut(q, c)
    BY <1>2, <2>3, JudgesEach
  <2> HIDE DEF ran, acc
  <2>10. k >= 9 => \A c \in Range1(passed[k].kept) : ServedOut(q, c)
    BY <2>2, <2>6, <2>7, <2>8
  <2>11. k >= 12 => \A c \in Range1(passed[k].kept) : VideoOut(q, c)
    BY <2>2, <2>6, <2>7, <2>9
  <2> QED BY <2>1, <2>6, <2>10, <2>11
<1> HIDE DEF T, g
<1>7. \A k \in 0 .. 14 : g[k] \in T
  <2>1. 14 \in Nat
    OBVIOUS
  <2> QED BY <1>5, <1>6, <2>1, StaysIn
<1>8. Holds(14)
  BY <1>7 DEF g, T
<1>9. Filter(q, time, cs) = passed[14]
  BY <1>1, <1>4 DEF Filter, n, Passes
<1>10. Range1(passed[14].kept) \subseteq Range1(cs)
  BY <1>8, DrawnDiffers DEF Parted
<1> QED BY <1>8, <1>9, <1>10 DEF ServedOut, VideoOut, Passed

\* The fields scorers answer with.
ScoreFields == {"phoenix_score", "prediction", "last_scored_at", "weighted", "score"}

Scoring(results, n) == \A i \in 1 .. n : DOMAIN Get(results[i], <<>>) \subseteq ScoreFields

\* Candidates of one tale, one by one.
SameTaleOf(s, t) == Len(t) = Len(s) /\ \A i \in 1 .. Len(s) : SameTale(s[i], t[i])

Whole(s) == Listed(s) /\ \A i \in 1 .. Len(s) : DOMAIN s[i] = DOMAIN NoCandidate

\* A scorer tells nothing else of a candidate.
LEMMA ScorerTells ==
    ASSUME NEW cs, Whole(cs), NEW results, Scoring(results, Len(cs))
    PROVE  Whole(UpdateAll(cs, results)) /\ SameTaleOf(cs, UpdateAll(cs, results))
<1> DEFINE s == UpdateAll(cs, results)
<1>1. Listed(s) /\ Len(s) = Len(cs) /\ \A i \in 1 .. Len(cs) : s[i] = Over(Get(results[i], <<>>), cs[i])
  BY Updated DEF Whole
<1> HIDE DEF s
<1>2. ASSUME NEW i \in 1 .. Len(cs) PROVE DOMAIN s[i] = DOMAIN NoCandidate /\ SameTale(cs[i], s[i])
  <2> DEFINE e == Get(results[i], <<>>)
             c == cs[i]
  <2>1. DOMAIN e \subseteq ScoreFields /\ DOMAIN c = DOMAIN NoCandidate /\ s[i] = Over(e, c)
    BY <1>1 DEF Scoring, Whole
  <2>2. ScoreFields \subseteq DOMAIN NoCandidate /\ Telling \cap ScoreFields = {}
    BY DEF NoCandidate, ScoreFields, Telling
  <2> HIDE DEF e, c
  <2>3. DOMAIN s[i] = DOMAIN c /\ \A f \in Telling : s[i][f] = c[f]
    BY <2>1, <2>2, TellingFields DEF Over
  <2> QED BY <2>1, <2>3 DEF SameTale, c
<1> QED BY <1>1, <1>2 DEF Whole, SameTaleOf, s

\* Nor do all three of them.
LEMMA ScoresTell ==
    ASSUME NEW q, NEW faults, NEW time, NEW cs, Whole(cs)
    PROVE  SameTaleOf(cs, Score(q, faults, time, cs))
<1> DEFINE first == PhoenixScorer(q, faults, time, cs)
           predicted == UpdateAll(cs, first)
           second == RankingScorer(q, predicted)
           ranked == UpdateAll(predicted, second)
           third == VMRanker(q, faults, ranked)
<1>1. Score(q, faults, time, cs) = UpdateAll(ranked, third)
  BY DEF Score
<1>2. Scoring(first, Len(cs))
  <2> SUFFICES ASSUME NEW i \in 1 .. Len(cs) PROVE DOMAIN Get(first[i], <<>>) \subseteq ScoreFields
    BY DEF Scoring
  <2> DEFINE has == q.scoring_sequence # None
             relevance == Post(OriginalTweetId(cs[i])).relevance
             e == [phoenix_score |-> IF has THEN Some(relevance) ELSE None,
                   prediction |-> IF has THEN Some(q.prediction) ELSE None,
                   last_scored_at |-> IF has THEN Some(time) ELSE None]
  <2>1. first[i] = None \/ first[i] = Some(e)
    BY DEF PhoenixScorer, HydrateEach, MapSeq
  <2>2. DOMAIN e \subseteq ScoreFields
    BY DEF ScoreFields
  <2> HIDE DEF first, e
  <2> QED BY <2>1, <2>2, Gets, NothingAnswered
<1> HIDE DEF first
<1>3. Whole(predicted) /\ SameTaleOf(cs, predicted)
  BY <1>2, ScorerTells
<1> HIDE DEF predicted
<1>4. Scoring(second, Len(predicted))
  <2> SUFFICES ASSUME NEW i \in 1 .. Len(predicted) PROVE DOMAIN Get(second[i], <<>>) \subseteq ScoreFields
    BY DEF Scoring
  <2>1. \E v, w : second[i] = Some([weighted |-> v, score |-> w])
    BY DEF RankingScorer
  <2>2. ASSUME NEW v, NEW w, second[i] = Some([weighted |-> v, score |-> w])
        PROVE  DOMAIN Get(second[i], <<>>) \subseteq ScoreFields
    <3>1. Get(second[i], <<>>) = [weighted |-> v, score |-> w]
      BY <2>2, Gets
    <3> QED BY <3>1 DEF ScoreFields
  <2> QED BY <2>1, <2>2
<1> HIDE DEF second
<1>5. Whole(ranked) /\ SameTaleOf(predicted, ranked)
  BY <1>3, <1>4, ScorerTells
<1> HIDE DEF ranked
<1>6. Scoring(third, Len(ranked))
  <2> SUFFICES ASSUME NEW i \in 1 .. Len(ranked) PROVE DOMAIN Get(third[i], <<>>) \subseteq ScoreFields
    BY DEF Scoring
  <2> DEFINE c == ranked[i]
             e == [score |-> IF Fails(faults, "vm_missing", c.tweet_id) THEN c.score
                             ELSE {0 - s : s \in c.score}]
  <2>1. third[i] = None \/ third[i] = Some(e)
    BY DEF VMRanker, HydrateEach, MapSeq
  <2>2. DOMAIN e \subseteq ScoreFields
    BY DEF ScoreFields
  <2> HIDE DEF third, e
  <2> QED BY <2>1, <2>2, Gets, NothingAnswered
<1> HIDE DEF third
<1>7. SameTaleOf(ranked, UpdateAll(ranked, third))
  BY <1>5, <1>6, ScorerTells
<1> QED BY <1>1, <1>3, <1>5, <1>7 DEF SameTaleOf, SameTale

\* What the filters keep and the scorers rank is as true as it was.
LEMMA RankedTells ==
    ASSUME NEW rs, NEW key, NEW q, NEW faults, NEW time, NEW cs, Whole(cs),
           \A c \in Range1(cs) : Sound(rs, key, c) /\ Passed(q, c)
    PROVE  \A d \in Range1(Score(q, faults, time, cs)) : Sound(rs, key, d) /\ Passed(q, d)
<1> DEFINE scored == Score(q, faults, time, cs)
<1>1. Len(scored) = Len(cs) /\ \A i \in 1 .. Len(cs) : SameTale(cs[i], scored[i])
  BY ScoresTell DEF SameTaleOf
<1> HIDE DEF scored
<1>2. ASSUME NEW i \in 1 .. Len(scored) PROVE Sound(rs, key, scored[i]) /\ Passed(q, scored[i])
  <2>1. i \in 1 .. Len(cs) /\ cs[i] \in Range1(cs)
    BY <1>1 DEF Range1
  <2>2. Sound(rs, key, cs[i]) /\ Passed(q, cs[i]) /\ SameTale(cs[i], scored[i])
    BY <1>1, <2>1
  <2> QED BY <2>2, SameTales
<1> QED BY <1>2 DEF Range1, scored

\* What is in the cache of verdicts at a time is as true as the cache is.
LEMMA LiveIsTrue ==
    ASSUME NEW rs, NEW cs, CachesTrue(rs, cs), DOMAIN cs = CacheNames, NEW time
    PROVE  BrandTrue(rs, Live(cs, time).brand)
<1> DEFINE kept == {b \in DOMAIN cs.brand : cs.brand[b].expires > time}
           brand == [k \in kept |-> cs.brand[k].fields]
<1>1. Live(cs, time).brand = brand
  BY DEF Live, CacheNames
<1>2. \A k \in DOMAIN cs.brand : /\ DOMAIN cs.brand[k].fields = {"verdict"}
                                 /\ Judged(rs, k, cs.brand[k].fields.verdict)
  BY DEF CachesTrue
<1>3. DOMAIN brand = kept /\ kept \subseteq DOMAIN cs.brand /\ \A k \in kept : brand[k] = cs.brand[k].fields
  OBVIOUS
<1> HIDE DEF brand, kept
<1> QED BY <1>1, <1>2, <1>3 DEF BrandTrue

\* What is ranked is true.
LEMMA RankTruth ==
    ASSUME WorkInv, BestInv, TruthInv, Grown(reqs, reqs'), NEW r \in Requests, Rank(r)
    PROVE  TruthInv'
<1> DEFINE q == reqs[r].query
           key == CachedPostsKey(q)
           cs == reqs[r].candidates
           f == Filter(q, now, cs)
           scored == Score(q, Faults(r), now, f.kept)
           s == TopK(scored)
           live == Live(caches, now)
<1>1. /\ At(r, "enriched")
      /\ Changes(r, {"stage", "candidates", "shortlist", "non_selected", "filtered", "found"})
      /\ reqs'[r].stage = "ranked" /\ reqs'[r].candidates = s.selected
      /\ reqs'[r].non_selected = s.non_selected /\ reqs'[r].found = live
      /\ caches' = caches
  BY RankMoves DEF WorkInv
<1>2. Own(q, cs) /\ q.params.weights \in Weights
  BY <1>1 DEF WorkInv, InShape, At, Asks
<1>3. Typed(cs)
  BY <1>1 DEF BestInv, Sorts, At
<1>4. PICK p : Candidates(p, cs) /\ (Fresh(q) => p = q.prediction)
  BY <1>2, <1>3, PredictionOf
<1>5. \A c \in Range1(cs) : Sound(reqs, key, c)
  BY <1>1 DEF TruthInv, Truthful, At
<1>6. reqs'[r].query = q
  BY <1>1 DEF Changes, Fields
<1>7. BrandTrue(reqs, live.brand)
  BY LiveIsTrue DEF TruthInv, WorkInv, CachesHarmless
<1>8. /\ Listed(cs) /\ Listed(f.kept) /\ Candidates(p, f.kept)
      /\ Parted(f, cs) /\ Apart(TweetIds(f.kept)) /\ Apart(OriginalTweetIds(f.kept))
  BY <1>2, <1>4, FilterKeeps, Filtered DEF Own
<1>9. \A c \in Range1(f.kept) : c \in Range1(cs) /\ Passed(q, c)
  BY <1>8, FilterPasses
<1> HIDE DEF key, f, live, cs
<1>10. \A c \in Range1(f.kept) : Sound(reqs, key, c) /\ Passed(q, c)
  BY <1>5, <1>9
<1>11. Whole(f.kept)
  <2>1. \A c \in Range1(f.kept) : DOMAIN c = DOMAIN NoCandidate
    BY <1>10 DEF Sound, Formed
  <2> QED BY <1>8, <2>1 DEF Whole, Range1
<1>12. \A d \in Range1(scored) : Sound(reqs, key, d) /\ Passed(q, d)
  BY <1>10, <1>11, RankedTells
<1>13. Listed(scored) /\ Candidates(p, scored) /\ SamePosts(f.kept, scored)
  BY <1>2, <1>4, <1>8, Scored
<1> HIDE DEF scored
<1>14. Apart(TweetIds(scored)) /\ Apart(OriginalTweetIds(scored))
  BY <1>8, <1>13, SameDiffers
<1>15. /\ Listed(s.selected) /\ Listed(s.non_selected) /\ Drawn(s.selected, scored)
       /\ Drawn(s.non_selected, scored)
  BY <1>13, <1>14, Selected
<1> HIDE DEF s
<1>16. Range1(s.selected) \subseteq Range1(scored) /\ Range1(s.non_selected) \subseteq Range1(scored)
  BY <1>13, <1>15, DrawnDiffers
<1>17. /\ \A c \in Range1(s.selected) : Sound(reqs, key, c) /\ Passed(q, c)
       /\ \A c \in Range1(s.non_selected) : Sound(reqs, key, c)
  BY <1>12, <1>16
<1>18. Truthful(reqs, reqs'[r])
  BY <1>1, <1>6, <1>7, <1>17 DEF Truthful, Ended, key
<1>19. CachesTrue(reqs, caches')
  BY <1>1 DEF TruthInv
<1> QED BY <1>1, <1>18, <1>19, TruthStays, OneTruthful

(* ---------- Truth goes on: after the selection ------------------------------ *)

\* The call a request makes for the labels of posts.
CallFor == [labels |-> "labels", vf |-> "vf_labels"]

\* An ended request, and the call it makes.
Asked(rs, s, safety, faults) ==
    /\ s \in Requests /\ rs[s].stage \in Ended /\ rs[s].scenario.faults = faults
    /\ rs[s].query.params.brand_safety = safety

\* What a call clears, a request has cleared.
LEMMA CallClears ==
    ASSUME NEW rs, NEW s, NEW safety \in {"labels", "vf"}, NEW faults, Asked(rs, s, safety, faults),
           NEW id, Verdict(CallFor[safety], faults, id) # "medium"
    PROVE  Clears(rs[s], id)
<1>1. ~Fails(faults, CallFor[safety], id)
  BY DEF Verdict
<1>2. ComputeVerdict(IF Known(id) THEN Post(id).labels ELSE {}, id) # "medium"
  BY <1>1 DEF Verdict
<1>3. Known(id) /\ ComputeVerdict(Post(id).labels, id) # "medium"
  BY <1>2 DEF ComputeVerdict
<1>4. safety = "labels" => CallFor[safety] = "labels"
  BY DEF CallFor
<1>5. safety = "vf" => CallFor[safety] = "vf_labels"
  BY DEF CallFor
<1> QED BY <1>1, <1>3, <1>4, <1>5 DEF Clears, Asked

\* A verdict that is no medium risk was reached by looking at the post and what it quotes.
LEMMA VerdictIsTrue ==
    ASSUME NEW rs, NEW s, NEW safety \in {"labels", "vf"}, NEW faults, Asked(rs, s, safety, faults),
           NEW c, c.retweeted_id \in {None, NonZero(Post(c.tweet_id).source)},
           Quotes(rs, c.tweet_id, c.quoted_id),
           BrandSafety(CallFor[safety], faults, c) # None
    PROVE  /\ DOMAIN Get(BrandSafety(CallFor[safety], faults, c), <<>>) = {"verdict"}
           /\ Judged(rs, c.tweet_id, Get(BrandSafety(CallFor[safety], faults, c), <<>>).verdict)
<1> DEFINE call == CallFor[safety]
           id == c.tweet_id
           own == OriginalTweetId(c)
           quoted == {Verdict(call, faults, x) : x \in c.quoted_id}
           a == Verdict(call, faults, own)
           b == Get(quoted, "safe")
           v == Some(WorstVerdict(a, b))
           e == Get(BrandSafety(call, faults, c), <<>>)
<1>1. BrandSafety(call, faults, c) = Some([verdict |-> v])
  BY DEF BrandSafety
<1>2. e = [verdict |-> v]
  BY <1>1, Gets
<1>3. DOMAIN e = {"verdict"} /\ e.verdict = v
  <2> HIDE DEF e, v
  <2> QED BY <1>2
<1>4. ASSUME a # "medium", b # "medium" PROVE NoRisk(rs, id)
  <2>1. own \in {id, Post(id).source}
    BY Gets DEF NonZero, OriginalTweetId
  <2>2. Clears(rs[s], own)
    BY <1>4, CallClears
  <2>3. Post(id).quoted = 0 \/ Clears(rs[s], Post(id).quoted) \/ Unquoted(rs, id)
    <3>1. CASE c.quoted_id = None
      BY <3>1 DEF Quotes
    <3>2. CASE c.quoted_id # None
      <4>1. c.quoted_id = Some(Post(id).quoted)
        BY <3>2 DEF Quotes, NonZero
      <4>2. quoted = Some(Verdict(call, faults, Post(id).quoted))
        BY <4>1 DEF Some
      <4>3. b = Verdict(call, faults, Post(id).quoted)
        BY <4>2, Gets
      <4> QED BY <1>4, <4>3, CallClears
    <3> QED BY <3>1, <3>2
  <2>4. s \in Requests /\ rs[s].stage \in Ended
    BY DEF Asked
  <2> HIDE DEF own
  <2> QED BY <2>1, <2>2, <2>3, <2>4 DEF NoRisk
<1>5. a = "medium" \/ b = "medium" => v = Some("medium")
  BY DEF WorstVerdict
<1> HIDE DEF a, b, v
<1> QED BY <1>3, <1>4, <1>5 DEF Judged

\* What an answer tells of a candidate after the selection.
TellsAfter(rs, e, c) ==
    /\ DOMAIN e \subseteq {"verdict", "replied", "visibility", "drop_ancillary"}
    /\ "verdict" \in DOMAIN e => Judged(rs, c.tweet_id, e.verdict)

\* An answer that is none, or one without a verdict.
LEMMA TellsNothing ==
    ASSUME NEW rs, NEW c
    PROVE  /\ TellsAfter(rs, Get(None, <<>>), c)
           /\ \A v : TellsAfter(rs, Get(Some([replied |-> v]), <<>>), c)
           /\ \A v, w : TellsAfter(rs, Get(Some([visibility |-> v, drop_ancillary |-> w]), <<>>), c)
<1>1. TellsAfter(rs, Get(None, <<>>), c)
  BY NothingAnswered DEF TellsAfter
<1>2. ASSUME NEW v PROVE TellsAfter(rs, Get(Some([replied |-> v]), <<>>), c)
  <2>1. Get(Some([replied |-> v]), <<>>) = [replied |-> v]
    BY Gets
  <2>2. DOMAIN [replied |-> v] = {"replied"}
    OBVIOUS
  <2> QED BY <2>1, <2>2 DEF TellsAfter
<1>3. ASSUME NEW v, NEW w
      PROVE  TellsAfter(rs, Get(Some([visibility |-> v, drop_ancillary |-> w]), <<>>), c)
  <2>1. Get(Some([visibility |-> v, drop_ancillary |-> w]), <<>>) = [visibility |-> v, drop_ancillary |-> w]
    BY Gets
  <2>2. DOMAIN [visibility |-> v, drop_ancillary |-> w] = {"visibility", "drop_ancillary"}
    OBVIOUS
  <2> QED BY <2>1, <2>2 DEF TellsAfter
<1> QED BY <1>1, <1>2, <1>3

\* After the selection nothing else is learnt, and what is cached is true.
LEMMA AfterSelection ==
    ASSUME NEW rs, NEW s, NEW faults, NEW q, Asked(rs, s, q.params.brand_safety, faults),
           NEW key, NEW cs, Listed(cs), \A c \in Range1(cs) : Sound(rs, key, c),
           NEW cached, BrandTrue(rs, cached.brand)
    PROVE  LET h == HydratePostSelection(q, faults, cs, cached)
               brand == AdsBrandSafetyHydrator(q, faults, cs, cached.brand)
           IN  /\ \A i \in 1 .. Len(cs) :
                     /\ TellsAfter(rs, Get(VFHydrator(faults, cs)[i], <<>>), cs[i])
                     /\ TellsAfter(rs, Get(brand.results[i], <<>>), cs[i])
                     /\ TellsAfter(rs, Get(AdsBrandSafetyVfHydrator(q, faults, cs)[i], <<>>), cs[i])
                     /\ TellsAfter(rs, Get(FollowingRepliedUsers(q, cs)[i], <<>>), cs[i])
               /\ BrandTrue(rs, h.inserts.brand)
<1> DEFINE n == Len(cs)
           brand == AdsBrandSafetyHydrator(q, faults, cs, cached.brand)
           visible == VFHydrator(faults, cs)
           brandVf == AdsBrandSafetyVfHydrator(q, faults, cs)
           replied == FollowingRepliedUsers(q, cs)
           h == HydratePostSelection(q, faults, cs, cached)
           tells(e, i) == TellsAfter(rs, Get(e, <<>>), cs[i])
<1>1. \A i \in 1 .. n : cs[i] \in Range1(cs)
  BY DEF Range1
<1>2. \A i \in 1 .. n : Sound(rs, key, cs[i])
  BY <1>1
<1>3. \A i \in 1 .. n : tells(visible[i], i)
  <2>1. \A i \in 1 .. n : \/ visible[i] = None
                          \/ \E v, w : visible[i] = Some([visibility |-> v, drop_ancillary |-> w])
    BY DEF VFHydrator, MapSeq
  <2> HIDE DEF visible
  <2> SUFFICES ASSUME NEW i \in 1 .. n PROVE tells(visible[i], i)
    OBVIOUS
  <2>2. CASE visible[i] = None
    BY <2>2, TellsNothing
  <2>3. ASSUME NEW v, NEW w, visible[i] = Some([visibility |-> v, drop_ancillary |-> w])
        PROVE  tells(visible[i], i)
    BY <2>3, TellsNothing
  <2> QED BY <2>1, <2>2, <2>3
<1>4. \A i \in 1 .. n : tells(replied[i], i)
  <2>1. \A i \in 1 .. n : replied[i] = None \/ \E v : replied[i] = Some([replied |-> v])
    BY DEF FollowingRepliedUsers
  <2> HIDE DEF replied
  <2> SUFFICES ASSUME NEW i \in 1 .. n PROVE tells(replied[i], i)
    OBVIOUS
  <2>2. CASE replied[i] = None
    BY <2>2, TellsNothing
  <2>3. ASSUME NEW v, replied[i] = Some([replied |-> v]) PROVE tells(replied[i], i)
    BY <2>3, TellsNothing
  <2> QED BY <2>1, <2>2, <2>3
<1>5. ASSUME NEW safety \in {"labels", "vf"}, q.params.brand_safety = safety, NEW i \in 1 .. n,
             BrandSafety(CallFor[safety], faults, cs[i]) # None
      PROVE  LET e == Get(BrandSafety(CallFor[safety], faults, cs[i]), <<>>)
             IN  DOMAIN e = {"verdict"} /\ Judged(rs, cs[i].tweet_id, e.verdict)
  <2>1. Formed(cs[i]) /\ Quotes(rs, cs[i].tweet_id, cs[i].quoted_id)
    BY <1>2 DEF Sound
  <2>2. cs[i].retweeted_id \in {None, NonZero(Post(cs[i].tweet_id).source)}
    BY <2>1 DEF Formed
  <2> QED BY <1>5, <2>1, <2>2, VerdictIsTrue
<1>6. \A i \in 1 .. n : tells(brandVf[i], i)
  <2>1. \A i \in 1 .. n : brandVf[i] = IF q.params.brand_safety = "vf"
                                       THEN BrandSafety("vf_labels", faults, cs[i]) ELSE None
    BY DEF AdsBrandSafetyVfHydrator, HydrateEach, MapSeq
  <2> HIDE DEF brandVf
  <2> SUFFICES ASSUME NEW i \in 1 .. n PROVE tells(brandVf[i], i)
    OBVIOUS
  <2>2. CASE brandVf[i] = None
    BY <2>2, TellsNothing
  <2>3. CASE brandVf[i] # None
    <3>1. q.params.brand_safety = "vf" /\ brandVf[i] = BrandSafety(CallFor["vf"], faults, cs[i])
      BY <2>1, <2>3 DEF CallFor
    <3>2. "vf" \in {"labels", "vf"}
      OBVIOUS
    <3> QED BY <1>5, <2>3, <3>1, <3>2 DEF TellsAfter
  <2> QED BY <2>2, <2>3
<1>7. (\A i \in 1 .. n : tells(brand.results[i], i)) /\ BrandTrue(rs, brand.inserts)
  <2> DEFINE client == MapSeq(cs, LAMBDA c : BrandSafety("labels", faults, c))
             keys == TweetIds(cs)
             found == cached.brand
             enabled == q.params.brand_safety = "labels"
  <2>1. \A i \in 1 .. n : client[i] = BrandSafety(CallFor["labels"], faults, cs[i])
    BY DEF MapSeq, CallFor
  <2>2. DOMAIN keys = 1 .. n /\ n \in Nat /\ \A i \in 1 .. n : keys[i] = cs[i].tweet_id
    BY DEF TweetIds, MapSeq, Listed
  <2>3. brand = CachedHydrate(enabled, found, keys, client)
    BY DEF AdsBrandSafetyHydrator
  <2>4. \A k \in DOMAIN found : DOMAIN found[k] = {"verdict"} /\ Judged(rs, k, found[k].verdict)
    BY DEF BrandTrue
  <2>5. enabled => \A i \in 1 .. n : client[i] # None =>
            /\ DOMAIN Get(client[i], <<>>) = {"verdict"}
            /\ Judged(rs, keys[i], Get(client[i], <<>>).verdict)
    <3> SUFFICES ASSUME enabled, NEW i \in 1 .. n, client[i] # None
                 PROVE  /\ DOMAIN Get(client[i], <<>>) = {"verdict"}
                        /\ Judged(rs, keys[i], Get(client[i], <<>>).verdict)
      OBVIOUS
    <3> HIDE DEF client, keys
    <3>1. "labels" \in {"labels", "vf"}
      OBVIOUS
    <3> QED BY <1>5, <2>1, <2>2, <3>1
  <2> HIDE DEF client, brand, keys, found, enabled
  <2>6. ByKey(brand, n, enabled, found, keys, client)
    BY <2>2, <2>3, CachedByKey
  <2>7. ASSUME NEW i \in 1 .. n PROVE tells(brand.results[i], i)
    <3>1. brand.results[i] = IF ~enabled THEN None
                             ELSE IF keys[i] \in DOMAIN found THEN Some(found[keys[i]]) ELSE client[i]
      BY <2>6 DEF ByKey
    <3>2. CASE brand.results[i] = None
      BY <3>2, TellsNothing
    <3>3. CASE enabled /\ keys[i] \in DOMAIN found
      <4>1. Get(brand.results[i], <<>>) = found[keys[i]]
        BY <3>1, <3>3, Gets
      <4> QED BY <2>2, <2>4, <3>3, <4>1 DEF TellsAfter
    <3>4. CASE enabled /\ brand.results[i] = client[i] /\ client[i] # None
      BY <2>2, <2>5, <3>4 DEF TellsAfter
    <3> QED BY <3>1, <3>2, <3>3, <3>4
  <2>8. BrandTrue(rs, brand.inserts)
    <3>1. \A k \in DOMAIN brand.inserts : \E i \in 1 .. n :
              enabled /\ keys[i] = k /\ client[i] # None /\ brand.inserts[k] = Get(client[i], <<>>)
      BY <2>6 DEF ByKey
    <3> QED BY <2>5, <3>1 DEF BrandTrue
  <2> QED BY <2>7, <2>8
<1>8. h.inserts = [m \in CacheNames |-> IF m = "brand" THEN brand.inserts ELSE <<>>]
  BY DEF HydratePostSelection
<1> HIDE DEF h, brand, visible, brandVf, replied
<1>9. h.inserts.brand = brand.inserts
  BY <1>8 DEF CacheNames
<1> QED BY <1>3, <1>4, <1>6, <1>7, <1>9 DEF h, brand, visible, brandVf, replied

\* Candidates stay sound when they learn a true verdict and nothing else.
LEMMA JudgedStaysSound ==
    ASSUME NEW rs, NEW key, NEW c, Sound(rs, key, c), NEW d, DOMAIN d = DOMAIN c,
           \A f \in Telling \ {"verdict"} : d[f] = c[f], Judged(rs, d.tweet_id, d.verdict)
    PROVE  Sound(rs, key, d) /\ \A q : Passed(q, c) => Passed(q, d)
<1>1. /\ d.tweet_id = c.tweet_id /\ d.author_id = c.author_id /\ d.served_type = c.served_type
      /\ d.ancestors = c.ancestors /\ d.retweeted_id = c.retweeted_id
      /\ d.quoted_id = c.quoted_id /\ d.video = c.video /\ d.in_reply_to = c.in_reply_to
  BY DEF Telling
<1>2. Formed(d)
  BY <1>1 DEF Sound, Formed
<1>3. Watched(d) = Watched(c)
  BY <1>1 DEF Watched
<1>4. Meant(key, d) /\ Filmed(rs, key, d) /\ Quotes(rs, d.tweet_id, d.quoted_id)
  BY <1>1, <1>3 DEF Sound, Meant, Filmed
<1>5. RelatedPostIds(d) = RelatedPostIds(c)
  BY <1>1 DEF RelatedPostIds
<1>6. \A q : Passed(q, c) => Passed(q, d)
  BY <1>1, <1>5 DEF Passed
<1> QED BY <1>2, <1>4, <1>6 DEF Sound

\* Only verdicts are cached.
VerdictsOnly(inserts) == DOMAIN inserts = CacheNames /\ \A m \in CacheNames \ {"brand"} : inserts[m] = <<>>

\* What they cache is true.
LEMMA AfterSelectionCaches ==
    ASSUME NEW rs, NEW s, NEW faults, NEW q, Asked(rs, s, q.params.brand_safety, faults),
           NEW key, NEW cs, Listed(cs), \A c \in Range1(cs) : Sound(rs, key, c) /\ Passed(q, c),
           NEW cached, BrandTrue(rs, cached.brand)
    PROVE  /\ BrandTrue(rs, HydratePostSelection(q, faults, cs, cached).inserts.brand)
           /\ VerdictsOnly(HydratePostSelection(q, faults, cs, cached).inserts)
<1>1. \A c \in Range1(cs) : Sound(rs, key, c)
  OBVIOUS
<1>2. BrandTrue(rs, HydratePostSelection(q, faults, cs, cached).inserts.brand)
  BY <1>1, AfterSelection
<1> DEFINE brand == AdsBrandSafetyHydrator(q, faults, cs, cached.brand)
           inserts == HydratePostSelection(q, faults, cs, cached).inserts
<1>3. inserts = [m \in CacheNames |-> IF m = "brand" THEN brand.inserts ELSE <<>>]
  BY DEF HydratePostSelection
<1> HIDE DEF brand, inserts
<1>4. VerdictsOnly(inserts)
  BY <1>3 DEF VerdictsOnly
<1> QED BY <1>2, <1>4 DEF inserts

\* So the hydrators behind the selection keep candidates true.
LEMMA AfterSelectionSound ==
    ASSUME NEW rs, NEW s, NEW faults, NEW q, Asked(rs, s, q.params.brand_safety, faults),
           NEW key, NEW cs, Listed(cs), \A c \in Range1(cs) : Sound(rs, key, c) /\ Passed(q, c),
           NEW cached, BrandTrue(rs, cached.brand)
    PROVE  \A d \in Range1(HydratePostSelection(q, faults, cs, cached).candidates) :
              Sound(rs, key, d) /\ Passed(q, d)
<1> DEFINE n == Len(cs)
           brand == AdsBrandSafetyHydrator(q, faults, cs, cached.brand)
           visible == VFHydrator(faults, cs)
           brandVf == AdsBrandSafetyVfHydrator(q, faults, cs)
           replied == FollowingRepliedUsers(q, cs)
           answers == <<visible, brand.results, brandVf, replied>>
           h == HydratePostSelection(q, faults, cs, cached)
<1>1. h.candidates = RunHydrators(cs, answers)
  BY DEF HydratePostSelection
<1>2. \A i \in 1 .. n :
          /\ TellsAfter(rs, Get(visible[i], <<>>), cs[i])
          /\ TellsAfter(rs, Get(brand.results[i], <<>>), cs[i])
          /\ TellsAfter(rs, Get(brandVf[i], <<>>), cs[i])
          /\ TellsAfter(rs, Get(replied[i], <<>>), cs[i])
  BY AfterSelection
<1> HIDE DEF brand, visible, brandVf, replied, h
<1>3. /\ DOMAIN answers = 1 .. 4 /\ Len(answers) = 4
      /\ answers[1] = visible /\ answers[2] = brand.results
      /\ answers[3] = brandVf /\ answers[4] = replied
  OBVIOUS
<1> HIDE DEF answers
<1>4. \A i \in 1 .. n : \A b \in 1 .. 4 : TellsAfter(rs, Get(answers[b][i], <<>>), cs[i])
  BY <1>2, <1>3
<1>5. n \in Nat
  BY DEF Listed
<1>6. ASSUME NEW i \in 1 .. n PROVE Sound(rs, key, h.candidates[i]) /\ Passed(q, h.candidates[i])
  <2> DEFINE c == cs[i]
             d == RunHydrators(cs, answers)[i]
  <2>1. c \in Range1(cs)
    BY DEF Range1
  <2>2. Sound(rs, key, c) /\ Passed(q, c)
    BY <2>1
  <2>3. Telling \subseteq DOMAIN cs[i]
    BY <2>2, TellingFields DEF Sound, Formed
  <2>4. \A f \in Telling : DOMAIN d = DOMAIN c /\ Merges(c, d, answers, i, f)
    <3> SUFFICES ASSUME NEW f \in Telling PROVE DOMAIN d = DOMAIN c /\ Merges(c, d, answers, i, f)
      OBVIOUS
    <3>1. f \in DOMAIN cs[i]
      BY <2>3
    <3>2. 4 \in Nat
      OBVIOUS
    <3> QED BY <1>3, <3>1, <3>2, RanHydrators
  <2>5. DOMAIN d = DOMAIN c
    BY <2>4 DEF Telling
  <2> HIDE DEF c, d
  <2>6. \A f \in Telling \ {"verdict"} : d[f] = c[f]
    <3> SUFFICES ASSUME NEW f \in Telling \ {"verdict"} PROVE d[f] = c[f]
      OBVIOUS
    <3>1. f \notin {"verdict", "replied", "visibility", "drop_ancillary"}
      BY DEF Telling
    <3>2. \A b \in 1 .. 4 : f \notin DOMAIN Get(answers[b][i], <<>>)
      BY <1>4, <3>1 DEF TellsAfter
    <3>3. Merges(c, d, answers, i, f)
      BY <2>4
    <3> QED BY <1>3, <3>2, <3>3 DEF Merges
  <2>7. d.tweet_id = c.tweet_id
    BY <2>6 DEF Telling
  <2>8. Judged(rs, c.tweet_id, d.verdict)
    <3>1. Merges(c, d, answers, i, "verdict")
      BY <2>4 DEF Telling
    <3>2. CASE d["verdict"] = c["verdict"]
      BY <2>2, <3>2 DEF Sound
    <3>3. ASSUME NEW b \in 1 .. 4, "verdict" \in DOMAIN Get(answers[b][i], <<>>),
                 d["verdict"] = Get(answers[b][i], <<>>)["verdict"]
          PROVE  Judged(rs, c.tweet_id, d.verdict)
      <4>1. TellsAfter(rs, Get(answers[b][i], <<>>), c)
        BY <1>4 DEF c
      <4> QED BY <3>3, <4>1 DEF TellsAfter
    <3> QED BY <1>3, <3>1, <3>2, <3>3 DEF Merges
  <2>9. Sound(rs, key, d) /\ Passed(q, d)
    BY <2>2, <2>5, <2>6, <2>7, <2>8, JudgedStaysSound
  <2> QED BY <1>1, <2>9 DEF d
<1>7. Len(h.candidates) = n
  <2> DEFINE at(j) == MapSeq(answers, LAMBDA results : results[j])
             ran == [j \in 1 .. n |-> Merged(cs[j], at(j))]
  <2>1. RunHydrators(cs, answers) = ran
    BY DEF RunHydrators
  <2> HIDE DEF at
  <2>2. Len(ran) = n
    BY <1>5
  <2> QED BY <1>1, <2>1, <2>2
<1> QED BY <1>6, <1>7 DEF Range1, h

\* What goes into the cache of verdicts for a time is as true as it was.
LEMMA DatedIsTrue ==
    ASSUME NEW rs, NEW inserts, VerdictsOnly(inserts), BrandTrue(rs, inserts.brand), NEW t,
           NEW cs, CachesTrue(rs, cs)
    PROVE  CachesTrue(rs, Inserted(cs, Dated(inserts, t)))
<1> DEFINE Ttl(id) == IF Known(id) /\ t - Post(id).created < Limits.brand_age
                      THEN Limits.brand_new ELSE Limits.brand_old
           brand == [k \in DOMAIN inserts.brand |->
                         [fields |-> inserts.brand[k], expires |-> t + Ttl(k)]]
           dated == Dated(inserts, t)
<1>1. dated = [inserts EXCEPT !.brand = brand]
  BY DEF Dated
<1>2. \A k \in DOMAIN brand : k \in DOMAIN inserts.brand /\ brand[k].fields = inserts.brand[k]
  OBVIOUS
<1> HIDE DEF brand, dated
<1>3. dated.brand = brand /\ \A m \in CacheNames \ {"brand"} : dated[m] = <<>>
  BY <1>1 DEF CacheNames, VerdictsOnly
<1>4. dated.core = <<>> /\ dated.quote = <<>> /\ dated.video = <<>> /\ dated.subscription = <<>>
  BY <1>3 DEF CacheNames
<1>5. DOMAIN <<>> = {}
  OBVIOUS
<1>6. LooksUp(rs, dated)
  BY <1>4, <1>5 DEF LooksUp, CoreTrue, QuoteTrue, VideoTrue, SubsTrue
<1>7. \A k \in DOMAIN dated.brand : /\ DOMAIN dated.brand[k].fields = {"verdict"}
                                    /\ Judged(rs, k, dated.brand[k].fields.verdict)
  BY <1>2, <1>3 DEF BrandTrue
<1> QED BY <1>6, <1>7, InsertedTrue DEF dated

\* What the response is made of is true.
LEMMA PostSelectTruth ==
    ASSUME WorkInv, BestInv, TruthInv, Grown(reqs, reqs'), NEW r \in Requests, PostSelect(r)
    PROVE  TruthInv'
<1> DEFINE q == reqs[r].query
           key == CachedPostsKey(q)
           cs == reqs[r].candidates
           others == reqs[r].non_selected
           h == HydratePostSelection(q, Faults(r), cs, reqs[r].found)
           f == FilterPostSelection(q, now, h.candidates)
           s == SplitOff(f.kept, Limits.result_size)
<1>1. /\ At(r, "ranked")
      /\ Changes(r, {"stage", "found", "candidates", "non_selected", "filtered", "posts",
                     "pending", "published"})
      /\ reqs'[r].stage = IF ForYou(r) THEN "selected" ELSE "answered"
      /\ reqs'[r].candidates = s.selected
      /\ reqs'[r].non_selected = others \o s.non_selected
      /\ caches' = Inserted(caches, Dated(h.inserts, now))
  BY PostSelectMoves DEF WorkInv
<1>2. /\ Listed(cs) /\ Listed(others) /\ HarmlessCache(reqs[r].found.brand)
  BY <1>1 DEF WorkInv, InShape, At, Own
<1>3. PICK p : Candidates(p, cs)
  BY <1>1 DEF BestInv, Sorts, At, Typed
<1>4. /\ reqs'[r].query = q /\ reqs'[r].scenario = reqs[r].scenario /\ reqs'[r].stage \in Ended
  BY <1>1 DEF Changes, Fields, Ended
<1>5. Asked(reqs', r, q.params.brand_safety, Faults(r))
  BY <1>4 DEF Asked, Faults
<1>6. /\ \A c \in Range1(cs) : Sound(reqs, key, c) /\ Passed(q, c)
      /\ \A c \in Range1(others) : Sound(reqs, key, c)
      /\ BrandTrue(reqs, reqs[r].found.brand)
  BY <1>1 DEF TruthInv, Truthful, At
<1>7. /\ \A c \in Range1(cs) : Sound(reqs', key, c) /\ Passed(q, c)
      /\ \A c \in Range1(others) : Sound(reqs', key, c)
      /\ BrandTrue(reqs', reqs[r].found.brand)
  BY <1>6, TruthStays
<1>8. Listed(h.candidates) /\ Candidates(p, h.candidates)
  BY <1>2, <1>3, PostSelectionAnswers
<1> HIDE DEF key, cs, others
<1>9. \A d \in Range1(h.candidates) : Sound(reqs', key, d) /\ Passed(q, d)
  BY <1>2, <1>5, <1>7, AfterSelectionSound
<1>10. /\ BrandTrue(reqs', h.inserts.brand) /\ VerdictsOnly(h.inserts)
  BY <1>2, <1>5, <1>7, AfterSelectionCaches
<1> HIDE DEF h
<1>11. Listed(f.kept) /\ Drawn(f.kept, h.candidates)
  BY <1>8, PostSelected
<1> HIDE DEF f
<1>12. Limits.result_size \in Nat
  BY LimitsAssumption
<1>13. /\ Listed(s.selected) /\ Listed(s.non_selected)
       /\ Drawn(s.selected, f.kept) /\ Drawn(s.non_selected, f.kept)
  BY <1>11, <1>12, SplitDrawn
<1> HIDE DEF s
<1>14. Range1(s.selected) \subseteq Range1(h.candidates) /\ Range1(s.non_selected) \subseteq Range1(h.candidates)
  <2>1. Range1(f.kept) \subseteq Range1(h.candidates)
    BY <1>8, <1>11, DrawnDiffers
  <2>2. Range1(s.selected) \subseteq Range1(f.kept) /\ Range1(s.non_selected) \subseteq Range1(f.kept)
    BY <1>11, <1>13, DrawnDiffers
  <2> QED BY <2>1, <2>2
<1>15. Range1(others \o s.non_selected) = Range1(others) \cup Range1(s.non_selected)
  BY <1>2, <1>13, Joined
<1>16. Truthful(reqs', reqs'[r])
  <2>1. /\ \A c \in Range1(s.selected) : Sound(reqs', key, c) /\ Passed(q, c)
        /\ \A c \in Range1(others \o s.non_selected) : Sound(reqs', key, c)
    BY <1>7, <1>9, <1>14, <1>15
  <2> QED BY <1>1, <1>4, <2>1 DEF Truthful, Ended, key
<1>17. CachesTrue(reqs', caches')
  <2>1. CachesTrue(reqs', caches)
    BY TruthStays DEF TruthInv
  <2> QED BY <1>1, <1>10, <2>1, DatedIsTrue
<1> QED BY <1>1, <1>16, <1>17, OneTruthful

\* The stages that touch no candidate keep the truth.
LEMMA OtherStagesTruth ==
    ASSUME WorkInv, TruthInv, Grown(reqs, reqs'), NEW r \in Requests,
           Build(r) \/ HydrateForYou(r) \/ HydratePhoenix(r) \/ Respond(r) \/ Effect(r)
    PROVE  TruthInv'
<1>1. CASE Build(r)
  <2>1. /\ Changes(r, {"stage", "scenario", "outer", "query"}) /\ caches' = caches
        /\ reqs'[r].stage \in {"built", "asked"}
    BY <1>1, BuildMoves DEF WorkInv
  <2> QED BY <2>1, NothingSaid
<1>2. CASE HydrateForYou(r)
  <2>1. Changes(r, {"stage", "outer", "query"}) /\ caches' = caches /\ reqs'[r].stage = "asked"
    BY <1>2, HydrateForYouMoves DEF WorkInv
  <2> QED BY <2>1, NothingSaid
<1>3. CASE HydratePhoenix(r)
  <2>1. Changes(r, {"stage", "query"}) /\ caches' = caches /\ reqs'[r].stage = "hydrated"
    BY <1>3, HydratePhoenixMoves DEF WorkInv
  <2> QED BY <2>1, NothingSaid
<1>4. CASE Respond(r)
  <2>1. /\ reqs[r].stage = "selected" /\ reqs'[r].stage = "answered" /\ caches' = caches
        /\ Changes(r, {"stage", "items", "pending", "published"})
    BY <1>4, RespondMoves DEF WorkInv, At
  <2>2. /\ reqs'[r].query = reqs[r].query /\ reqs'[r].candidates = reqs[r].candidates
        /\ reqs'[r].non_selected = reqs[r].non_selected /\ reqs'[r].found = reqs[r].found
    BY <2>1 DEF Changes, Fields
  <2> QED BY <2>1, <2>2, NothingSaid
<1>5. CASE Effect(r)
  <2>1. PICK effect : Finishes(r, effect)
    BY <1>5 DEF Effect, CachePosts, RecordServed, ForgetServed, StampRequest
  <2>2. Changes(r, {"pending"}) /\ caches' = caches
    BY <2>1, FinishMoves DEF WorkInv
  <2>3. /\ reqs'[r].query = reqs[r].query /\ reqs'[r].candidates = reqs[r].candidates
        /\ reqs'[r].non_selected = reqs[r].non_selected /\ reqs'[r].found = reqs[r].found
        /\ reqs'[r].stage = reqs[r].stage
    BY <2>2 DEF Changes, Fields
  <2> QED BY <2>2, <2>3, NothingSaid
<1> QED BY <1>1, <1>2, <1>3, <1>4, <1>5

\* What is true goes on being true.
LEMMA TruthGoesOn ==
    ASSUME WorkInv, BestInv, ToldInv, TruthInv, [Next]_vars
    PROVE  TruthInv'
<1>1. CASE UNCHANGED vars
  <2>1. reqs' = reqs /\ caches' = caches
    BY <1>1 DEF vars
  <2> QED BY <2>1 DEF TruthInv
<1>2. ASSUME NEW r \in Requests, Build(r) \/ Stage(r) \/ Effect(r) PROVE TruthInv'
  <2>1. Grown(reqs, reqs')
    BY TellingGoesOn
  <2>2. CASE Fetch(r)
    BY <2>1, <2>2, FetchTruth
  <2>3. CASE Hydrate(r)
    BY <2>1, <2>3, HydrateTruth
  <2>4. CASE Rank(r)
    BY <2>1, <2>4, RankTruth
  <2>5. CASE PostSelect(r)
    BY <2>1, <2>5, PostSelectTruth
  <2>6. CASE Build(r) \/ HydrateForYou(r) \/ HydratePhoenix(r) \/ Respond(r) \/ Effect(r)
    BY <2>1, <2>6, OtherStagesTruth
  <2> QED BY <1>2, <2>2, <2>3, <2>4, <2>5, <2>6 DEF Stage
<1> QED BY <1>1, <1>2 DEF Next

\* Before the first request nothing is told and nothing said.
LEMMA InitialTruth == Init => ToldInv /\ TruthInv
<1> SUFFICES ASSUME Init PROVE ToldInv /\ TruthInv
  OBVIOUS
<1>1. reqs = [r \in Requests |-> Idle] /\ caches = NoCaches
  BY DEF Init
<1>2. Idle.stage = "idle"
  BY DEF Idle
<1>3. ToldInv
  BY <1>1, <1>2 DEF ToldInv
<1>4. \A r \in Requests : Truthful(reqs, reqs[r])
  BY <1>1, <1>2 DEF Truthful, Ended
<1>5. /\ caches.core = <<>> /\ caches.quote = <<>> /\ caches.video = <<>>
      /\ caches.subscription = <<>> /\ caches.brand = <<>>
  BY <1>1 DEF NoCaches, CacheNames
<1>6. DOMAIN <<>> = {}
  OBVIOUS
<1>7. CachesTrue(reqs, caches)
  BY <1>5, <1>6 DEF CachesTrue, LooksUp, CoreTrue, QuoteTrue, VideoTrue, SubsTrue
<1> QED BY <1>3, <1>4, <1>7 DEF TruthInv

\* All the invariants together.
LEMMA TrueAlways == Spec => [](HistoryInv /\ WorkInv /\ BestInv /\ FedInv /\ ToldInv /\ TruthInv)
<1>1. Init => ToldInv /\ TruthInv
  BY InitialTruth
<1>2. HistoryInv /\ WorkInv /\ BestInv /\ FedInv /\ ToldInv /\ TruthInv /\ [Next]_vars
         => (ToldInv /\ TruthInv)'
  BY TellingGoesOn, TruthGoesOn
<1> QED BY <1>1, <1>2, FedAlways, PTL DEF Spec

(* ---------- What is shown ---------------------------------------------------- *)

\* An item of a feed that is of a kind and has a body.
Holds(x, kind, body) == \E m \in 1 .. Len(x) : x[m].kind = kind /\ x[m].body = body

\* The bodies of a kind are those of the items of the kind.
LEMMA BodiesOfKind ==
    ASSUME NEW x, Listed(x), NEW kind, NEW body
    PROVE  body \in Range1(Bodies(OfKind(x, kind))) <=> Holds(x, kind, body)
<1> DEFINE kinds == {kind}
           p == OfKinds(x, kinds)
           a == Ascending(PlacesOf(x, kinds))
           bodies == Bodies(p)
<1> HIDE DEF kinds
<1>1. /\ Listed(p) /\ \A i \in 1 .. Len(p) : a[i] \in 1 .. Len(x) /\ x[a[i]].kind \in kinds /\ p[i] = x[a[i]]
      /\ \A m \in PlacesOf(x, kinds) : \E i \in 1 .. Len(p) : a[i] = m
  BY KindsPlaced
<1>2. \A k : k \in kinds <=> k = kind
  BY DEF kinds
<1>3. \A m \in 1 .. Len(x) : x[m].kind = kind => m \in PlacesOf(x, kinds)
  BY <1>2, ListedOver DEF PlacesOf
<1>4. p = OfKind(x, kind)
  BY DEF OfKind, kinds
<1> HIDE DEF p, a
<1>5. Len(bodies) = Len(p) /\ \A i \in 1 .. Len(p) : bodies[i] = p[i].body
  BY <1>1, BodiesOver
<1>6. bodies = Bodies(OfKind(x, kind))
  BY <1>4 DEF bodies
<1> HIDE DEF bodies
<1>7. body \in Range1(bodies) => Holds(x, kind, body)
  BY <1>1, <1>2, <1>5 DEF Range1, Holds
<1>8. ASSUME NEW m \in 1 .. Len(x), x[m].kind = kind, x[m].body = body PROVE body \in Range1(bodies)
  <2>1. PICK i \in 1 .. Len(p) : a[i] = m
    BY <1>1, <1>3, <1>8
  <2>2. bodies[i] = body
    BY <1>1, <1>5, <1>8, <2>1
  <2> QED BY <1>5, <2>2 DEF Range1
<1> QED BY <1>6, <1>7, <1>8 DEF Holds

\* Nothing of a kind is lost when several kinds are taken.
LEMMA KindsHold ==
    ASSUME NEW x, Listed(x), NEW kinds, NEW kind \in kinds, NEW body, Holds(x, kind, body)
    PROVE  Holds(OfKinds(x, kinds), kind, body)
<1> DEFINE p == OfKinds(x, kinds)
           a == Ascending(PlacesOf(x, kinds))
<1>1. /\ \A i \in 1 .. Len(p) : p[i] = x[a[i]]
      /\ \A m \in PlacesOf(x, kinds) : \E i \in 1 .. Len(p) : a[i] = m
  BY KindsPlaced
<1>2. PICK m \in 1 .. Len(x) : x[m].kind = kind /\ x[m].body = body
  BY DEF Holds
<1>3. m \in PlacesOf(x, kinds)
  BY <1>2, ListedOver DEF PlacesOf
<1> HIDE DEF p, a
<1> QED BY <1>1, <1>2, <1>3 DEF Holds, p

\* What is shown of a request are posts of its candidates.
ShownOfCandidates(r) ==
    \A p \in Range1(ShownPosts(r)) : \E c \in Range1(reqs[r].candidates) : p = ToScoredPost(c)

\* The posts of a feed are posts of the candidates.
LEMMA StripOfCandidates ==
    ASSUME WorkInv, BestInv, FedInv, NEW r \in Requests, Fed(r), NEW p, Holds(Strip(r), "post", p)
    PROVE  \E c \in Range1(reqs[r].candidates) : p = ToScoredPost(c)
<1> DEFINE posts == Delivered(r).posts
           strip == Strip(r)
<1>1. posts = MapSeq(reqs[r].candidates, ToScoredPost) /\ \E b, t : BlendedFrom(b, r) /\ Parts(b, strip, t)
  BY StripBegins
<1>2. PICK b, t : BlendedFrom(b, r) /\ Parts(b, strip, t)
  BY <1>1
<1>3. Listed(strip)
  BY <1>2 DEF Parts
<1>4. p \in Range1(Bodies(OfKind(strip, "post")))
  BY <1>3, BodiesOfKind
<1>5. \A o \in Range1(Bodies(OfKind(strip, "post"))) : {i \in 1 .. Len(posts) : posts[i] = o} # {}
  BY FeedLosesNoPost DEF FeedKeepsPosts
<1>6. PICK i \in 1 .. Len(posts) : posts[i] = p
  BY <1>4, <1>5
<1>7. Len(reqs[r].candidates) \in Nat
  BY ListedOver DEF WorkInv, InShape, Own, Ended, Fed, Responded, At
<1> DEFINE cs == reqs[r].candidates
<1>8. posts = [j \in 1 .. Len(cs) |-> ToScoredPost(cs[j])]
  BY <1>1 DEF MapSeq
<1> HIDE DEF posts, cs
<1>9. i \in 1 .. Len(cs) /\ p = ToScoredPost(cs[i])
  BY <1>6, <1>7, <1>8 DEF cs
<1> QED BY <1>9 DEF Range1, cs

\* What is shown is read off the candidates.
LEMMA ShownAreCandidates ==
    ASSUME WorkInv, BestInv, FedInv, NEW r \in Requests, Responded(r)
    PROVE  ShownOfCandidates(r)
<1> SUFFICES ASSUME NEW p \in Range1(ShownPosts(r))
             PROVE  \E c \in Range1(reqs[r].candidates) : p = ToScoredPost(c)
  BY DEF ShownOfCandidates
<1>1. CASE ForYou(r)
  <2>1. Fed(r)
    BY <1>1 DEF Fed
  <2>2. Listed(reqs[r].items)
    BY <2>1, StripBegins DEF Feed
  <2>3. p \in Range1(Bodies(OfKind(reqs[r].items, "post")))
    BY <1>1 DEF ShownPosts
  <2>4. Holds(reqs[r].items, "post", p)
    BY <2>2, <2>3, BodiesOfKind
  <2>5. Holds(OfKinds(reqs[r].items, {"post", "ad"}), "post", p)
    BY <2>2, <2>4, KindsHold
  <2> QED BY <2>1, <2>5, StripOfCandidates DEF Strip
<1>2. CASE ~ForYou(r)
  <2> DEFINE cs == reqs[r].candidates
  <2>1. /\ reqs[r].posts = Some(MapSeq(cs, ToScoredPost)) /\ Listed(cs)
    BY DEF FedInv, Carries, WorkInv, InShape, Own, Ended, Responded, At
  <2>2. ShownPosts(r) = [i \in 1 .. Len(cs) |-> ToScoredPost(cs[i])]
    <3>1. Get(reqs[r].posts, <<>>) = MapSeq(cs, ToScoredPost)
      BY <2>1, Gets
    <3> QED BY <1>2, <3>1 DEF ShownPosts, MapSeq
  <2>3. Len(cs) \in Nat
    BY <2>1, ListedOver
  <2> HIDE DEF cs
  <2>4. \E i \in 1 .. Len(cs) : p = ToScoredPost(cs[i])
    BY <2>2, <2>3 DEF Range1
  <2> QED BY <2>4 DEF Range1, cs
<1> QED BY <1>1, <1>2

\* What of a post is read off its candidate.
LEMMA ShownFields ==
    \A c : LET p == ToScoredPost(c)
           IN  /\ p.id = c.tweet_id /\ p.author = c.author_id /\ p.served_type = c.served_type
               /\ p.verdict = Get(c.verdict, "medium") /\ p.retweeted_id = Get(c.retweeted_id, 0)
               /\ p.ancestors = c.ancestors
BY DEF ToScoredPost, ShownVerdict

\* A request that asks for the followed, or for no videos, gets nothing else.
LEMMA AskedForIsShown ==
    ASSUME WorkInv, BestInv, FedInv, TruthInv
    PROVE  AskedForOnly
<1> SUFFICES ASSUME NEW r \in Requests, Responded(r), NEW p \in Range1(ShownPosts(r))
             PROVE  /\ reqs[r].query.in_network_only => p.author \in World.followed
                    /\ reqs[r].query.exclude_videos =>
                          \/ Post(WatchedId(p)).video = 0
                          \/ \E s \in Requests :
                                /\ ~At(s, "idle") /\ Fails(Faults(s), "tes_video", WatchedId(p))
                                /\ CachedPostsKey(reqs[s].query) = CachedPostsKey(reqs[r].query)
  BY DEF AskedForOnly
<1> DEFINE q == reqs[r].query
           key == CachedPostsKey(q)
<1>1. PICK c \in Range1(reqs[r].candidates) : p = ToScoredPost(c)
  BY ShownAreCandidates DEF ShownOfCandidates
<1>2. Sound(reqs, key, c) /\ Passed(q, c)
  BY DEF TruthInv, Truthful, Responded, At, Ended
<1>3. p.id = c.tweet_id /\ p.author = c.author_id /\ p.served_type = c.served_type
  BY <1>1, ShownFields
<1>4. WatchedId(p) = Watched(c)
  BY <1>3 DEF WatchedId, Watched
<1>5. q.in_network_only => p.author \in World.followed
  <2>1. key[2] = q.in_network_only
    BY DEF CachedPostsKey
  <2> QED BY <1>2, <1>3, <2>1 DEF Sound, Meant
<1>6. q.exclude_videos => c.video = None
  BY <1>2 DEF Passed
<1>7. c.video = None => Post(Watched(c)).video = 0 \/ Unseen(reqs, key, Watched(c))
  BY <1>2 DEF Sound, Filmed
<1> QED BY <1>4, <1>5, <1>6, <1>7 DEF Unseen, At, Faults

\* An ad stands between posts that somebody has cleared.
LEMMA AdsAreSafe ==
    ASSUME WorkInv, BestInv, FedInv, TruthInv
    PROVE  AdsSafe
<1> SUFFICES ASSUME NEW r \in Requests, Fed(r), NEW i \in AdsAt(Strip(r))
             PROVE  /\ i > 1 /\ (i < Len(Strip(r)) \/ CutShort(r))
                    /\ \A n \in {i - 1, i + 1} \cap DOMAIN Strip(r) :
                          Strip(r)[n].kind = "post" /\ RiskFree(Strip(r)[n].body)
  BY DEF AdsSafe
<1> DEFINE strip == Strip(r)
<1>1. PICK b, t : BlendedFrom(b, r) /\ Parts(b, strip, t) /\ (~CutShort(r) => Len(t) = 0)
  BY StripBegins
<1>2. Mixed(b) /\ Guarded(b, reqs[r].scenario.blender # "safe_gap")
  BY <1>1 DEF BlendedFrom, Blended
<1> HIDE DEF strip
<1>3. /\ Listed(b) /\ Listed(strip) /\ Len(strip) \in Nat /\ Begins(strip, b)
      /\ Len(t) = 0 => Len(strip) = Len(b)
  BY <1>1, <1>2, StripOf
<1>4. i \in 1 .. Len(strip) /\ strip[i].kind = "ad"
  BY DEF AdsAt, strip
<1>5. Len(b) \in Nat /\ Len(strip) <= Len(b) /\ DOMAIN strip = 1 .. Len(strip)
      /\ \A n \in 1 .. Len(strip) : strip[n].kind = b[n].kind /\ strip[n].body = b[n].body
  BY <1>3, ListedOver DEF Begins
<1>6. i \in 1 .. Len(b) /\ b[i].kind = "ad"
  BY <1>4, <1>5
<1>7. 1 < i /\ i < Len(b) /\ Neighbours(b, i, reqs[r].scenario.blender # "safe_gap")
  BY <1>2, <1>6 DEF Guarded
<1>8. \A n \in {i - 1, i + 1} : b[n].kind = "post" /\ ~HasAvoid(b[n].body)
  BY <1>7 DEF Neighbours
<1>9. ASSUME NEW n \in {i - 1, i + 1} \cap DOMAIN strip
      PROVE  strip[n].kind = "post" /\ RiskFree(strip[n].body)
  <2> DEFINE p == strip[n].body
  <2>1. strip[n].kind = "post" /\ ~HasAvoid(p) /\ n \in 1 .. Len(strip)
    BY <1>5, <1>8
  <2>2. Holds(strip, "post", p)
    BY <2>1 DEF Holds
  <2>3. PICK c \in Range1(reqs[r].candidates) : p = ToScoredPost(c)
    BY <2>2, StripOfCandidates DEF strip
  <2>4. p.id = c.tweet_id /\ p.verdict = Get(c.verdict, "medium")
    BY <2>3, ShownFields
  <2> HIDE DEF p
  <2>5. c.verdict \notin {None, Some("medium")}
    BY <2>1, <2>4, Gets DEF HasAvoid
  <2>6. Sound(reqs, CachedPostsKey(reqs[r].query), c)
    BY DEF TruthInv, Truthful, Fed, Responded, At, Ended
  <2>7. NoRisk(reqs, c.tweet_id)
    BY <2>5, <2>6 DEF Sound, Judged
  <2>8. \A s, id : Clears(reqs[s], id) => Cleared(s, id)
    BY DEF Clears, Cleared, Faults
  <2>9. RiskFree(p)
    BY <2>4, <2>7, <2>8 DEF NoRisk, RiskFree, Unquoted, Ended, At, Faults
  <2> QED BY <2>1, <2>9 DEF p
<1>10. i < Len(strip) \/ CutShort(r)
  BY <1>1, <1>3, <1>7
<1> QED BY <1>7, <1>9, <1>10 DEF strip

\* A request for the people followed only, or for no videos, gets nothing
\* else, whether the candidates are fresh or another request's.
THEOREM OnlyWhatWasAskedFor == Spec => []AskedForOnly
<1>1. HistoryInv /\ WorkInv /\ BestInv /\ FedInv /\ ToldInv /\ TruthInv => AskedForOnly
  BY AskedForIsShown
<1> QED BY <1>1, TrueAlways, PTL

\* An ad stands between two posts, each known to be no risk for it.
THEOREM AdsStandSafely == Spec => []AdsSafe
<1>1. HistoryInv /\ WorkInv /\ BestInv /\ FedInv /\ ToldInv /\ TruthInv => AdsSafe
  BY AdsAreSafe
<1> QED BY <1>1, TrueAlways, PTL

(* ---------- What is written of a response ---------------------------------- *)

\* Everything in lists joined is in one of them, and the other way round.
LEMMA AllJoined ==
    ASSUME NEW n \in Nat, NEW rows, DOMAIN rows = 1 .. n, rows = [k \in 1 .. n |-> rows[k]],
           \A k \in 1 .. n : Listed(rows[k])
    PROVE  /\ Listed(FlattenSeq(rows))
           /\ \A k \in 1 .. n : Range1(rows[k]) \subseteq Range1(FlattenSeq(rows))
           /\ \A e \in Range1(FlattenSeq(rows)) : \E k \in 1 .. n : e \in Range1(rows[k])
<1> DEFINE T == UNION {Range1(rows[k]) : k \in 1 .. n}
           L == Seq(T)
           f == FlattenSeq(rows)
<1>1. \A k \in 1 .. n : Range1(rows[k]) \subseteq T
  OBVIOUS
<1> HIDE DEF T
<1>2. \A k \in 1 .. n : rows[k] \in L
  <2> SUFFICES ASSUME NEW k \in 1 .. n PROVE rows[k] \in L
    OBVIOUS
  <2> DEFINE R == Range1(rows[k])
             x == rows[k]
  <2>1. x \in Seq(R) /\ R \subseteq T
    BY <1>1 DEF Listed
  <2> HIDE DEF R, x
  <2>2. x \in Seq(T)
    BY <2>1
  <2> QED BY <2>2 DEF x
<1> HIDE DEF L
<1>3. rows \in [1 .. n -> L]
  BY <1>2
<1>4. rows \in Seq(L) /\ Len(rows) = n
  BY <1>3, AsSequence
<1>5. f \in Seq(T) /\ \E start : Starts(start, rows, f)
  BY <1>4, FlattenPlaces DEF L
<1>6. PICK start : Starts(start, rows, f)
  BY <1>5
<1> HIDE DEF f
<1>7. Listed(f)
  BY <1>5, ListOf
<1>8. ASSUME NEW k \in 1 .. n, NEW e \in Range1(rows[k]) PROVE e \in Range1(f)
  <2>1. PICK m \in 1 .. Len(rows[k]) : e = rows[k][m]
    BY <1>8 DEF Range1
  <2>2. start[k - 1] + m \in 1 .. Len(f) /\ f[start[k - 1] + m] = rows[k][m]
    BY <1>4, <1>6 DEF Starts
  <2> QED BY <2>1, <2>2 DEF Range1
<1>9. ASSUME NEW e \in Range1(f) PROVE \E k \in 1 .. n : e \in Range1(rows[k])
  <2>1. PICK i \in 1 .. Len(f) : e = f[i]
    BY <1>9 DEF Range1
  <2>2. PICK k \in 1 .. n : \E m \in 1 .. Len(rows[k]) : i = start[k - 1] + m
    BY <1>4, <1>6 DEF Starts
  <2>3. PICK m \in 1 .. Len(rows[k]) : i = start[k - 1] + m
    BY <2>2
  <2>4. f[i] = rows[k][m]
    BY <1>4, <1>6, <2>3 DEF Starts
  <2> QED BY <2>1, <2>4 DEF Range1
<1> QED BY <1>7, <1>8, <1>9 DEF f

\* Entries as they are kept in the history.
Entered(x) == Listed(x) /\ \A i \in 1 .. Len(x) : Listed(x[i].ids)

\* One of the entries names the ids.
Names(x, ids) == \E e \in Range1(x) : ids \subseteq Range1(e.ids)

\* One entry.
LEMMA OneEntry ==
    ASSUME NEW e, Listed(e.ids)
    PROVE  Entered(<<e>>) /\ e \in Range1(<<e>>)
<1>1. <<e>> \in Seq({e}) /\ Len(<<e>>) = 1 /\ <<e>>[1] = e
  OBVIOUS
<1>2. Listed(<<e>>)
  BY <1>1, ListOf
<1> DEFINE a == <<e>>
<1> HIDE DEF a
<1>3. Listed(a) /\ Len(a) = 1 /\ a[1] = e
  BY <1>1, <1>2 DEF a
<1>4. Entered(a) /\ e \in Range1(a)
  BY <1>3 DEF Entered, Range1
<1> QED BY <1>4 DEF a

\* Lists of no, one and two ids.
LEMMA FewIds ==
    \A i, j : /\ Listed(<<>>) /\ Listed(<<i>>) /\ Listed(<<i, j>>)
              /\ Range1(<<i>>) = {i} /\ Range1(<<i, j>>) = {i, j}
<1> SUFFICES ASSUME NEW i, NEW j
             PROVE  /\ Listed(<<>>) /\ Listed(<<i>>) /\ Listed(<<i, j>>)
                    /\ Range1(<<i>>) = {i} /\ Range1(<<i, j>>) = {i, j}
  OBVIOUS
<1>1. <<>> \in Seq({i}) /\ <<i>> \in Seq({i}) /\ <<i, j>> \in Seq({i, j})
  OBVIOUS
<1>2. Listed(<<>>) /\ Listed(<<i>>) /\ Listed(<<i, j>>)
  BY <1>1, ListOf
<1>3. Range1(<<i>>) = {i} /\ Range1(<<i, j>>) = {i, j}
  BY DEF Range1
<1> QED BY <1>2, <1>3

\* Two lists of one element joined.
LEMMA PairJoined == \A i, j : <<i>> \o <<j>> = <<i, j>>
<1> SUFFICES ASSUME NEW i, NEW j PROVE <<i>> \o <<j>> = <<i, j>>
  OBVIOUS
<1> DEFINE T == {i, j}
           a == <<i>>
           b == <<j>>
           u == a \o b
           c == <<i, j>>
<1>1. a \in Seq(T) /\ b \in Seq(T) /\ Len(a) = 1 /\ Len(b) = 1 /\ a[1] = i /\ b[1] = j
  OBVIOUS
<1>2. c \in Seq(T) /\ Len(c) = 2 /\ c[1] = i /\ c[2] = j
  OBVIOUS
<1>3. Listed(a) /\ Listed(b)
  BY <1>1, ListOf
<1> HIDE DEF T, a, b, c
<1>4. u \in Seq(T) /\ Joins(u, a, b)
  BY <1>1, <1>3, ListsJoined
<1> HIDE DEF u
<1>5. Len(u) = 2 /\ u[1] = i /\ u[2] = j
  BY <1>1, <1>4 DEF Joins
<1>6. u = c
  BY <1>2, <1>4, <1>5, SameList
<1> QED BY <1>6 DEF u, a, b, c

\* The entries of a post name it and its original.
LEMMA EntriesOfPost ==
    ASSUME NEW p, p.id \in Nat, p.ancestors \in Seq(Nat)
    PROVE  Entered(PostEntries(p)) /\ Names(PostEntries(p), IdsOf(p))
<1> DEFINE S == {p.id} \cup Range1(p.ancestors)
           n == Cardinality(S)
           a == Ascending(S)
           rest == IF p.retweeted_id = 0 THEN <<>> ELSE <<p.retweeted_id>>
           x == PostEntries(p)
           ids == [k \in 1 .. n |-> <<a[k]>> \o rest]
<1>1. Range1(p.ancestors) \subseteq Nat /\ IsFiniteSet(Range1(p.ancestors))
  <2> DEFINE s == p.ancestors
             l == Len(s)
             g == [i \in 1 .. l |-> s[i]]
  <2>1. s \in Seq(Nat) /\ l \in Nat
    OBVIOUS
  <2>2. Range1(s) \subseteq Nat
    BY <2>1, ListOf
  <2>3. IsFiniteSet(1 .. l)
    BY <2>1, FS_Interval
  <2>4. Range1(s) = {s[i] : i \in 1 .. l}
    BY DEF Range1
  <2>5. IsFiniteSet({s[i] : i \in 1 .. l})
    <3> DEFINE T == {s[i] : i \in 1 .. l}
    <3>1. g \in Surjection(1 .. l, T)
      <4> HIDE DEF s, l
      <4>1. g \in [1 .. l -> T] /\ \A t \in T : \E i \in 1 .. l : g[i] = t
        OBVIOUS
      <4> QED BY <4>1 DEF Surjection
    <3> HIDE DEF T, g
    <3>2. IsFiniteSet(T)
      BY <2>3, <3>1, FS_Surjection
    <3> QED BY <3>2 DEF T
  <2> QED BY <2>2, <2>4, <2>5
<1>2. S \subseteq Int /\ IsFiniteSet(S) /\ p.id \in S
  <2>1. IsFiniteSet({p.id})
    BY FS_Singleton
  <2>2. IsFiniteSet(S)
    BY <1>1, <2>1, FS_Union
  <2> QED BY <1>1, <2>2
<1> HIDE DEF S
<1>3. n \in Nat /\ a \in [1 .. n -> S] /\ \A m \in S : \E k \in 1 .. n : a[k] = m
  BY <1>2, AscendingSorts
<1> HIDE DEF n, a
<1>4. a \in Seq(S) /\ Len(a) = n
  BY <1>3, AsSequence
<1>5. x = [k \in 1 .. n |-> [type |-> "tweet", ids |-> <<a[k]>> \o rest, users |-> <<>>]]
  BY <1>4 DEF PostEntries, MapSeq, S, a
<1> HIDE DEF x
<1>6. \A k \in 1 .. n : /\ Listed(<<a[k]>> \o rest)
                        /\ {a[k], p.retweeted_id} \ {0} \subseteq Range1(<<a[k]>> \o rest)
  <2> SUFFICES ASSUME NEW k \in 1 .. n
               PROVE  /\ Listed(<<a[k]>> \o rest)
                      /\ {a[k], p.retweeted_id} \ {0} \subseteq Range1(<<a[k]>> \o rest)
    OBVIOUS
  <2> DEFINE i == a[k]
             j == p.retweeted_id
  <2>1. CASE j = 0
    <3>1. <<i>> \o rest = <<i>>
      BY <2>1
    <3>2. Listed(<<i>>) /\ Range1(<<i>>) = {i}
      BY FewIds
    <3> QED BY <2>1, <3>1, <3>2
  <2>2. CASE j # 0
    <3>1. rest = <<j>>
      BY <2>2
    <3>4. <<i>> \o <<j>> = <<i, j>>
      BY PairJoined
    <3>2. Listed(<<i, j>>) /\ Range1(<<i, j>>) = {i, j}
      BY FewIds
    <3> HIDE DEF rest
    <3>3. <<i>> \o rest = <<i, j>>
      BY <3>1, <3>4
    <3> QED BY <3>2, <3>3
  <2> QED BY <2>1, <2>2
<1> HIDE DEF rest
<1>7. DOMAIN x = 1 .. n /\ \A k \in 1 .. n : x[k].ids = <<a[k]>> \o rest
  BY <1>5
<1>8. Len(x) = n /\ Listed(x)
  <2> DEFINE T == {x[k] : k \in 1 .. n}
  <2>1. x = [k \in 1 .. n |-> x[k]]
    BY <1>5
  <2>2. x \in [1 .. n -> T]
    BY <2>1
  <2> HIDE DEF T
  <2> QED BY <1>3, <2>2, AsSequence, ListOf
<1>9. Entered(x)
  BY <1>6, <1>7, <1>8 DEF Entered
<1>10. PICK k \in 1 .. n : a[k] = p.id
  BY <1>2, <1>3
<1>11. x[k] \in Range1(x) /\ IdsOf(p) \subseteq Range1(x[k].ids)
  BY <1>6, <1>7, <1>8, <1>10 DEF Range1, IdsOf
<1> QED BY <1>9, <1>11 DEF Names, x

\* What is written of an item.
Wrote(item, x) ==
    /\ Entered(x)
    /\ item.kind = "post" => Names(x, IdsOf(item.body))
    /\ (item.kind = "wtf" /\ item.body # <<>>) => \E e \in Range1(x) : e.type = "who_to_follow"

Writable(item) ==
    /\ item.kind \in {"post", "ad", "wtf", "prompt", "pth"}
    /\ item.kind = "post" => item.body.id \in Nat /\ item.body.ancestors \in Seq(Nat)

\* An item's entries.
LEMMA EntriesOfItem ==
    ASSUME NEW item, Writable(item)
    PROVE  Wrote(item, EntriesOf(item))
<1> DEFINE body == item.body
<1>1. CASE item.kind = "post"
  <2>1. EntriesOf(item) = PostEntries(body)
    BY <1>1 DEF EntriesOf
  <2>2. Entered(PostEntries(body)) /\ Names(PostEntries(body), IdsOf(body))
    BY <1>1, EntriesOfPost DEF Writable
  <2> QED BY <1>1, <2>1, <2>2 DEF Wrote
<1>2. CASE item.kind = "ad"
  <2> DEFINE e == [type |-> "promoted", ids |-> <<body.id>>, users |-> <<>>]
  <2>1. EntriesOf(item) = <<e>>
    BY <1>2 DEF EntriesOf
  <2>2. e.ids = <<body.id>>
    OBVIOUS
  <2> HIDE DEF e
  <2>3. Entered(<<e>>)
    BY <2>2, FewIds, OneEntry
  <2> QED BY <1>2, <2>1, <2>3 DEF Wrote
<1>3. CASE item.kind = "wtf"
  <2> DEFINE e == [type |-> "who_to_follow", ids |-> <<>>, users |-> body]
  <2>1. EntriesOf(item) = IF body = <<>> THEN <<>> ELSE <<e>>
    BY <1>3 DEF EntriesOf
  <2>2. e.ids = <<>> /\ e.type = "who_to_follow"
    OBVIOUS
  <2> HIDE DEF e
  <2>3. Entered(<<e>>) /\ e \in Range1(<<e>>)
    BY <2>2, FewIds, OneEntry
  <2>4. Entered(<<>>)
    <3>1. Listed(<<>>) /\ Len(<<>>) = 0
      BY FewIds
    <3> DEFINE x == <<>>
    <3> HIDE DEF x
    <3>2. Listed(x) /\ Len(x) = 0
      BY <3>1 DEF x
    <3>3. Entered(x)
      BY <3>2 DEF Entered
    <3> QED BY <3>3 DEF x
  <2>5. CASE body = <<>>
    <3>1. EntriesOf(item) = <<>>
      BY <2>1, <2>5
    <3> QED BY <1>3, <2>4, <2>5, <3>1 DEF Wrote
  <2>6. CASE body # <<>>
    <3>1. EntriesOf(item) = <<e>>
      BY <2>1, <2>6
    <3> QED BY <1>3, <2>2, <2>3, <3>1 DEF Wrote
  <2> QED BY <2>5, <2>6
<1>4. CASE item.kind = "prompt"
  <2> DEFINE e == [type |-> "prompt", ids |-> <<>>, users |-> <<>>]
  <2>1. EntriesOf(item) = <<e>>
    BY <1>4 DEF EntriesOf
  <2>2. e.ids = <<>>
    OBVIOUS
  <2> HIDE DEF e
  <2>3. Entered(<<e>>)
    BY <2>2, FewIds, OneEntry
  <2> QED BY <1>4, <2>1, <2>3 DEF Wrote
<1>5. CASE item.kind = "pth"
  <2> DEFINE e == [type |-> "tweet", ids |-> <<body.id>>, users |-> <<>>]
  <2>1. EntriesOf(item) = <<e>>
    BY <1>5 DEF EntriesOf
  <2>2. e.ids = <<body.id>>
    OBVIOUS
  <2> HIDE DEF e
  <2>3. Entered(<<e>>)
    BY <2>2, FewIds, OneEntry
  <2> QED BY <1>5, <2>1, <2>3 DEF Wrote
<1> QED BY <1>1, <1>2, <1>3, <1>4, <1>5 DEF Writable

\* What is written of a feed.
LEMMA EntriesOfFeed ==
    ASSUME NEW items, Listed(items), \A m \in 1 .. Len(items) : Writable(items[m])
    PROVE  LET x == ServedEntries(items)
           IN  /\ Entered(x)
               /\ \A m \in 1 .. Len(items) : items[m].kind = "post" => Names(x, IdsOf(items[m].body))
               /\ \A m \in 1 .. Len(items) : (items[m].kind = "wtf" /\ items[m].body # <<>>) =>
                     \E e \in Range1(x) : e.type = "who_to_follow"
<1> DEFINE n == Len(items)
           rows == [m \in 1 .. n |-> EntriesOf(items[m])]
           x == ServedEntries(items)
<1>1. n \in Nat
  BY ListedOver
<1>2. x = FlattenSeq(rows)
  BY DEF ServedEntries, MapSeq
<1>3. \A m \in 1 .. n : Wrote(items[m], rows[m])
  BY EntriesOfItem
<1>4. DOMAIN rows = 1 .. n /\ rows = [m \in 1 .. n |-> rows[m]]
  OBVIOUS
<1> HIDE DEF rows, x
<1>5. \A m \in 1 .. n : Entered(rows[m]) /\ Listed(rows[m])
  BY <1>3 DEF Wrote, Entered
<1>6. /\ Listed(FlattenSeq(rows))
      /\ \A k \in 1 .. n : Range1(rows[k]) \subseteq Range1(FlattenSeq(rows))
      /\ \A e \in Range1(FlattenSeq(rows)) : \E k \in 1 .. n : e \in Range1(rows[k])
  BY <1>1, <1>4, <1>5, AllJoined
<1>7. Listed(x) /\ \A k \in 1 .. n : Range1(rows[k]) \subseteq Range1(x)
  BY <1>2, <1>6
<1>8. ASSUME NEW i \in 1 .. Len(x) PROVE Listed(x[i].ids)
  <2>1. x[i] \in Range1(x)
    BY DEF Range1
  <2>2. PICK k \in 1 .. n : x[i] \in Range1(rows[k])
    BY <1>2, <1>6, <2>1
  <2>3. PICK j \in 1 .. Len(rows[k]) : x[i] = rows[k][j]
    BY <2>2 DEF Range1
  <2> QED BY <1>5, <2>3 DEF Entered
<1>9. Entered(x)
  BY <1>7, <1>8 DEF Entered
<1>10. \A m \in 1 .. n : items[m].kind = "post" => Names(x, IdsOf(items[m].body))
  BY <1>3, <1>7 DEF Wrote, Names
<1>11. \A m \in 1 .. n : (items[m].kind = "wtf" /\ items[m].body # <<>>) => \E e \in Range1(x) : e.type = "who_to_follow"
  BY <1>3, <1>7 DEF Wrote
<1> QED BY <1>9, <1>10, <1>11 DEF x

(* ---------- What the history holds ------------------------------------------- *)

\* All responses of a list can be read.
Readable(h) == \A i \in 1 .. Len(h) : Entered(h[i].entries)

\* What is kept of a request, and whose history is written.
Remembers(v) ==
    /\ v.stage # "idle" => Readable(v.outer.served_history)
    /\ v.stage = "selected" => v.scenario.surface # "scored_posts"
    /\ "history" \in v.pending => v.stage = "answered" /\ v.scenario.surface # "scored_posts"

KeptInv ==
    /\ \A t \in DOMAIN history : Entered(history[t])
    /\ \A r \in Requests : Remembers(reqs[r])

\* Every item of a feed can be written into the history.
LEMMA ItemsWritable ==
    ASSUME WorkInv, BestInv, FedInv, TruthInv, NEW r \in Requests, Fed(r)
    PROVE  /\ Listed(reqs[r].items)
           /\ \A m \in 1 .. Len(reqs[r].items) : Writable(reqs[r].items[m])
<1> DEFINE items == reqs[r].items
<1>1. /\ Listed(items)
      /\ \A m \in 1 .. Len(items) : items[m].kind \in {"post", "ad", "wtf", "prompt", "pth"}
  BY StripBegins DEF Feed
<1>2. ASSUME NEW m \in 1 .. Len(items), items[m].kind = "post"
      PROVE  items[m].body.id \in Nat /\ items[m].body.ancestors \in Seq(Nat)
  <2> DEFINE p == items[m].body
  <2>1. Holds(items, "post", p)
    BY <1>2 DEF Holds
  <2>2. Holds(OfKinds(items, {"post", "ad"}), "post", p)
    BY <1>1, <2>1, KindsHold
  <2>3. PICK c \in Range1(reqs[r].candidates) : p = ToScoredPost(c)
    BY <2>2, StripOfCandidates DEF Strip
  <2>4. p.id = c.tweet_id /\ p.ancestors = c.ancestors
    BY <2>3, ShownFields
  <2>5. Formed(c)
    BY DEF TruthInv, Truthful, Sound, Fed, Responded, At, Ended
  <2>6. c.tweet_id \in Nat /\ c.ancestors \in Seq(Nat)
    BY <2>5, WorldAssumption DEF Formed, Known
  <2> QED BY <2>4, <2>6
<1> QED BY <1>1, <1>2 DEF Writable

\* Reading the history gives what is in it.
LEMMA ReadingReads ==
    ASSUME Recorded
    PROVE  \A i \in 1 .. Len(Responses(history)) :
              \E t \in DOMAIN history : Responses(history)[i].entries = history[t]
<1> DEFINE S == DOMAIN history
           n == Cardinality(S)
           a == Ascending(S)
           h == Responses(history)
<1>1. S \subseteq Int /\ IsFiniteSet(S)
  <2>1. S \subseteq landed /\ landed \subseteq Nat /\ IsFiniteSet(landed)
    BY DEF Recorded
  <2> HIDE DEF S
  <2>2. IsFiniteSet(S)
    BY <2>1, FS_Subset
  <2>3. S \subseteq Int
    BY <2>1
  <2> QED BY <2>2, <2>3
<1> HIDE DEF S
<1>2. n \in Nat /\ a \in [1 .. n -> S]
  BY <1>1, AscendingSorts
<1> HIDE DEF n, a
<1>3. a \in Seq(S) /\ Len(a) = n
  BY <1>2, AsSequence
<1> DEFINE b == [i \in 1 .. n |-> a[(n - i) + 1]]
<1>4. Reverse(a) = b
  BY <1>3 DEF Reverse
<1>5. b \in [1 .. n -> S]
  BY <1>2
<1>6. Len(b) = n
  BY <1>2, <1>5, AsSequence
<1> HIDE DEF b
<1>7. h = [i \in 1 .. n |-> [time |-> b[i], entries |-> history[b[i]]]]
  BY <1>4, <1>6 DEF Responses, MapSeq, S, a
<1>8. Len(h) = n
  <2> DEFINE T == {h[i] : i \in 1 .. n}
  <2> HIDE DEF h
  <2>1. h \in [1 .. n -> T]
    BY <1>7
  <2> HIDE DEF T
  <2> QED BY <1>2, <2>1, AsSequence
<1> HIDE DEF h
<1>9. \A i \in 1 .. n : h[i].entries = history[b[i]] /\ b[i] \in S
  BY <1>5, <1>7
<1> QED BY <1>8, <1>9 DEF h, S

\* One request changes, and what is in the history can be read.
LEMMA OneKeeps ==
    ASSUME KeptInv, NEW r \in Requests, NEW F, Changes(r, F), Remembers(reqs'[r]),
           \A t \in DOMAIN history' : Entered(history'[t])
    PROVE  KeptInv'
BY DEF KeptInv, Changes

\* A stage on the way to a response.
LEMMA OnItsWayKeeps ==
    ASSUME KeptInv, NEW r \in Requests, NEW F, Changes(r, F), F \cap {"scenario", "outer", "pending"} = {},
           history' = history, reqs[r].stage \notin {"idle"} \cup Ended, reqs'[r].stage \notin {"idle"} \cup Ended
    PROVE  KeptInv'
<1>1. reqs'[r].scenario = reqs[r].scenario /\ reqs'[r].outer = reqs[r].outer /\ reqs'[r].pending = reqs[r].pending
  BY DEF Changes, Fields
<1>2. Remembers(reqs'[r])
  BY <1>1 DEF KeptInv, Remembers, Ended
<1> QED BY <1>2, OneKeeps DEF KeptInv

\* A new request has read nothing.
LEMMA BuildKeepsReadable ==
    ASSUME HistoryInv, KeptInv, NEW r \in Requests, Build(r)
    PROVE  KeptInv'
<1>1. At(r, "idle") /\ Changes(r, {"stage", "scenario", "outer", "query"}) /\ history' = history
  BY BuildMoves DEF HistoryInv, StoresUnchanged
<1>2. PICK sc \in Scenarios[r] :
          /\ reqs'[r].stage = IF sc.surface = "scored_posts" THEN "asked" ELSE "built"
          /\ reqs'[r].outer = AskedAt(sc, now + sc.gap)
  BY BuildMoves DEF HistoryInv
<1>3. reqs'[r].outer.served_history = <<>>
  BY <1>2, AskedKnows
<1>4. Readable(<<>>)
  <2> DEFINE x == <<>>
  <2>1. Len(x) = 0
    OBVIOUS
  <2> HIDE DEF x
  <2>2. Readable(x)
    BY <2>1 DEF Readable
  <2> QED BY <2>2 DEF x
<1>5. reqs'[r].pending = {}
  BY <1>1 DEF HistoryInv, ReadInOrder, Changes, Fields
<1>6. reqs'[r].stage \in {"asked", "built"}
  BY <1>2
<1>7. Remembers(reqs'[r])
  BY <1>3, <1>4, <1>5, <1>6 DEF Remembers
<1> QED BY <1>1, <1>7, OneKeeps DEF KeptInv

\* A request reads what the history holds.
LEMMA ReadingKeeps ==
    ASSUME HistoryInv, KeptInv, NEW r \in Requests, HydrateForYou(r)
    PROVE  KeptInv'
<1> DEFINE old == reqs[r].outer
           h == Responses(history)
           q == reqs'[r].outer
<1>1. /\ At(r, "built") /\ Changes(r, {"stage", "outer", "query"}) /\ history' = history
      /\ reqs'[r].stage = "asked" /\ q = HydrateForYouQuery(old, Faults(r), h, timestamps)
  BY HydrateForYouMoves DEF HistoryInv, StoresUnchanged
<1>2. {"request_time", "served_history"} \subseteq DOMAIN old
  BY <1>1 DEF HistoryInv, ReadInOrder, At
<1>3. \A i \in 1 .. Len(h) : \E t \in DOMAIN history : h[i].entries = history[t]
  BY ReadingReads DEF HistoryInv
<1> HIDE DEF h, q, old
<1>4. q.served_history \in {old.served_history, h}
  BY <1>1, <1>2, HistoryHydrated
<1>5. Readable(h)
  BY <1>3 DEF Readable, KeptInv
<1>6. Readable(old.served_history)
  BY <1>1 DEF KeptInv, Remembers, At, old
<1>7. reqs'[r].pending = reqs[r].pending /\ "history" \notin reqs[r].pending
  BY <1>1 DEF Changes, Fields, KeptInv, Remembers, At
<1>8. Remembers(reqs'[r])
  BY <1>1, <1>4, <1>5, <1>6, <1>7 DEF Remembers, q
<1> QED BY <1>1, <1>8, OneKeeps DEF KeptInv

\* The Phoenix pipeline's effects do not write the history, a feed's may.
LEMMA EndingKeeps ==
    ASSUME HistoryInv, KeptInv, NEW r \in Requests, PostSelect(r) \/ Respond(r)
    PROVE  KeptInv'
<1>1. CASE PostSelect(r)
  <2>1. /\ At(r, "ranked") /\ history' = history /\ reqs'[r].stage = IF ForYou(r) THEN "selected" ELSE "answered"
        /\ Changes(r, {"stage", "found", "candidates", "non_selected", "filtered", "posts",
                       "pending", "published"})
        /\ reqs'[r].pending \subseteq {"post_cache"}
    BY <1>1, PostSelectMoves DEF HistoryInv, StoresUnchanged
  <2>2. reqs'[r].scenario = reqs[r].scenario /\ reqs'[r].outer = reqs[r].outer
    BY <2>1 DEF Changes, Fields
  <2>3. Remembers(reqs'[r])
    BY <2>1, <2>2 DEF KeptInv, Remembers, At, ForYou
  <2> QED BY <2>1, <2>3, OneKeeps DEF KeptInv
<1>2. CASE Respond(r)
  <2>1. /\ At(r, "selected") /\ Changes(r, {"stage", "items", "pending", "published"})
        /\ reqs'[r].stage = "answered" /\ history' = history
    BY <1>2, RespondMoves DEF HistoryInv, StoresUnchanged
  <2>2. reqs'[r].scenario = reqs[r].scenario /\ reqs'[r].outer = reqs[r].outer
    BY <2>1 DEF Changes, Fields
  <2>3. Remembers(reqs'[r])
    BY <2>1, <2>2 DEF KeptInv, Remembers, At
  <2> QED BY <2>1, <2>3, OneKeeps DEF KeptInv
<1> QED BY <1>1, <1>2

\* What is written can be read.
LEMMA EffectsKeepReadable ==
    ASSUME HistoryInv, WorkInv, BestInv, FedInv, TruthInv, KeptInv, NEW r \in Requests, Effect(r)
    PROVE  KeptInv'
<1>1. PICK effect : Finishes(r, effect)
  BY DEF Effect, CachePosts, RecordServed, ForgetServed, StampRequest
<1>2. Changes(r, {"pending"}) /\ effect \in reqs[r].pending /\ reqs'[r].pending = reqs[r].pending \ {effect}
  BY <1>1, FinishMoves DEF HistoryInv
<1>3. /\ reqs'[r].stage = reqs[r].stage /\ reqs'[r].scenario = reqs[r].scenario
      /\ reqs'[r].outer = reqs[r].outer
  BY <1>2 DEF Changes, Fields
<1>4. Remembers(reqs'[r])
  BY <1>2, <1>3 DEF KeptInv, Remembers
<1>5. \A t \in DOMAIN history' : Entered(history'[t])
  <2>1. CASE CachePosts(r) \/ StampRequest(r)
    BY <2>1 DEF CachePosts, StampRequest, KeptInv
  <2>2. CASE ForgetServed(r)
    <3>1. history' = history \/ history' = TruncateServedHistory(reqs[r].outer, history)
      BY <2>2 DEF ForgetServed
    <3> QED BY <3>1 DEF TruncateServedHistory, KeptInv
  <2>3. CASE RecordServed(r)
    <3> DEFINE u == reqs[r].outer.request_time
               x == ServedEntries(reqs[r].items)
    <3>1. Fed(r)
      BY <2>3 DEF RecordServed, Finishes, CanFinish, KeptInv, Remembers, Fed, Responded, At, ForYou
    <3>2. /\ Listed(reqs[r].items) /\ \A m \in 1 .. Len(reqs[r].items) : Writable(reqs[r].items[m])
      BY <3>1, ItemsWritable
    <3>3. Entered(x)
      BY <3>2, EntriesOfFeed
    <3>4. history' = history \/ history' = Over([t \in {u} |-> x], history)
      BY <2>3 DEF RecordServed, UpdateServedHistory
    <3> HIDE DEF x, u
    <3>5. CASE history' = Over([t \in {u} |-> x], history)
      <4>1. /\ DOMAIN history' = {u} \cup DOMAIN history
            /\ \A t \in DOMAIN history' : history'[t] = IF t = u THEN x ELSE history[t]
        BY <3>5 DEF Over
      <4> QED BY <3>3, <4>1 DEF KeptInv
    <3> QED BY <3>4, <3>5 DEF KeptInv
  <2> QED BY <2>1, <2>2, <2>3 DEF Effect
<1> QED BY <1>2, <1>4, <1>5, OneKeeps

\* What can be read stays so.
LEMMA KeepingGoesOn ==
    ASSUME HistoryInv, WorkInv, BestInv, FedInv, TruthInv, KeptInv, [Next]_vars
    PROVE  KeptInv'
<1>1. CASE UNCHANGED vars
  BY <1>1 DEF vars, KeptInv
<1>2. ASSUME NEW r \in Requests, Stage(r) PROVE KeptInv'
  <2>1. CASE HydrateForYou(r)
    BY <2>1, ReadingKeeps
  <2>2. CASE HydratePhoenix(r)
    BY <2>2, HydratePhoenixMoves, OnItsWayKeeps DEF HistoryInv, At, Ended, StoresUnchanged
  <2>3. CASE Fetch(r)
    BY <2>3, FetchMoves, OnItsWayKeeps DEF HistoryInv, At, Ended, StoresUnchanged
  <2>4. CASE Hydrate(r)
    BY <2>4, HydrateMoves, OnItsWayKeeps DEF HistoryInv, At, Ended, StoresUnchanged
  <2>5. CASE Rank(r)
    BY <2>5, RankMoves, OnItsWayKeeps DEF HistoryInv, At, Ended, StoresUnchanged
  <2>6. CASE PostSelect(r) \/ Respond(r)
    BY <2>6, EndingKeeps
  <2> QED BY <1>2, <2>1, <2>2, <2>3, <2>4, <2>5, <2>6 DEF Stage
<1> QED BY <1>1, <1>2, BuildKeepsReadable, EffectsKeepReadable DEF Next

\* The history of the past can be read.
LEMMA InitialKeeping == Init => KeptInv
<1> SUFFICES ASSUME Init PROVE KeptInv
  OBVIOUS
<1>1. reqs = [r \in Requests |-> Idle] /\ history = Past
  BY DEF Init
<1>2. Idle.stage = "idle" /\ Idle.pending = {}
  BY DEF Idle
<1>3. \A t \in DOMAIN Past : Entered(Past[t])
  BY RequestsAssumption DEF Entered, Listed
<1> QED BY <1>1, <1>2, <1>3 DEF KeptInv, Remembers

\* All the invariants together.
LEMMA KeptAlways ==
    Spec => [](HistoryInv /\ WorkInv /\ BestInv /\ FedInv /\ ToldInv /\ TruthInv /\ KeptInv)
<1>1. Init => KeptInv
  BY InitialKeeping
<1>2. HistoryInv /\ WorkInv /\ BestInv /\ FedInv /\ TruthInv /\ KeptInv /\ [Next]_vars => KeptInv'
  BY KeepingGoesOn
<1> QED BY <1>1, <1>2, TrueAlways, PTL DEF Spec

(* ---------- What is read of the history -------------------------------------- *)

\* The ids of a response's entries.
EntryIds(x) == FlattenSeq(MapSeq(x, LAMBDA e : e.ids))

\* All that the entries name is among their ids.
LEMMA IdsOfEntries ==
    ASSUME NEW x, Entered(x)
    PROVE  Listed(EntryIds(x)) /\ \A S : Names(x, S) => S \subseteq Range1(EntryIds(x))
<1> DEFINE n == Len(x)
           rows == [k \in 1 .. n |-> x[k].ids]
           f == EntryIds(x)
<1>1. n \in Nat
  BY ListedOver DEF Entered
<1>2. f = FlattenSeq(rows)
  BY DEF EntryIds, MapSeq
<1>3. /\ DOMAIN rows = 1 .. n /\ rows = [k \in 1 .. n |-> rows[k]]
      /\ \A k \in 1 .. n : rows[k] = x[k].ids /\ Listed(rows[k])
  BY DEF Entered
<1> HIDE DEF rows, f
<1>4. Listed(f) /\ \A k \in 1 .. n : Range1(rows[k]) \subseteq Range1(f)
  BY <1>1, <1>2, <1>3, AllJoined
<1>5. ASSUME NEW S, Names(x, S) PROVE S \subseteq Range1(f)
  <2>1. PICK e \in Range1(x) : S \subseteq Range1(e.ids)
    BY <1>5 DEF Names
  <2>2. PICK k \in 1 .. n : e = x[k]
    BY DEF Range1
  <2> QED BY <1>3, <1>4, <2>1, <2>2
<1> QED BY <1>4, <1>5 DEF f

\* What a recent response names is among the recent ids.
LEMMA RecentNames ==
    ASSUME NEW h, Listed(h), Readable(h), NEW t
    PROVE  /\ Listed(RecentIds(h, t))
           /\ \A i \in 1 .. Len(h) : \A S :
                 h[i].time >= t - Limits.served_duration /\ Names(h[i].entries, S)
                     => S \subseteq Range1(RecentIds(h, t))
<1> DEFINE T == Range1(h)
           places == {i \in DOMAIN h : h[i].time >= t - Limits.served_duration}
           p == PickAt(h, places)
           a == Ascending(places)
           n == Len(p)
           rows == [k \in 1 .. n |-> EntryIds(p[k].entries)]
           f == RecentIds(h, t)
<1>1. h \in Seq(T) /\ DOMAIN h = 1 .. Len(h)
  BY ListedOver
<1>2. f = FlattenSeq(rows)
  BY DEF RecentIds, Those, MapSeq, EntryIds
<1>3. places \subseteq DOMAIN h
  OBVIOUS
<1>4. \A i \in 1 .. Len(h) : h[i].time >= t - Limits.served_duration => i \in places
  BY <1>1
<1>5. DOMAIN rows = 1 .. n /\ rows = [k \in 1 .. n |-> rows[k]] /\ \A k \in 1 .. n : rows[k] = EntryIds(p[k].entries)
  OBVIOUS
<1> HIDE DEF T, places, rows, f
<1>6. /\ n \in Nat
      /\ \A k \in 1 .. n : a[k] \in places /\ p[k] = h[a[k]]
      /\ \A m \in places : \E k \in 1 .. n : a[k] = m
  BY <1>1, <1>3, PickedPlaces
<1> HIDE DEF p, a
<1> HIDE DEF n
<1>7. \A k \in 1 .. n : Entered(p[k].entries)
  BY <1>1, <1>3, <1>6 DEF Readable
<1>8. \A k \in 1 .. n : Listed(rows[k]) /\ \A S : Names(p[k].entries, S) => S \subseteq Range1(rows[k])
  BY <1>5, <1>7, IdsOfEntries
<1>9. Listed(f) /\ \A k \in 1 .. n : Range1(rows[k]) \subseteq Range1(f)
  BY <1>2, <1>5, <1>6, <1>8, AllJoined
<1>10. ASSUME NEW i \in 1 .. Len(h), NEW S, h[i].time >= t - Limits.served_duration, Names(h[i].entries, S)
       PROVE  S \subseteq Range1(f)
  <2>1. PICK k \in 1 .. n : a[k] = i
    BY <1>4, <1>6, <1>10
  <2>2. Names(p[k].entries, S)
    BY <1>6, <1>10, <2>1
  <2> QED BY <1>8, <1>9, <2>2
<1> QED BY <1>9, <1>10 DEF f

\* A list no longer than what is taken is taken whole.
LEMMA AllTaken ==
    ASSUME NEW s, Listed(s), NEW n \in Nat, Len(s) <= n
    PROVE  Take(s, n) = s
<1> DEFINE T == Range1(s)
           l == Len(s)
<1>1. s \in Seq(T) /\ l \in Nat
  BY ListedOver
<1>2. Least(n, l) = l
  BY <1>1 DEF Least
<1> HIDE DEF T
<1>3. SubSeq(s, 1, l) = s
  BY <1>1
<1> QED BY <1>2, <1>3 DEF Take

\* An item of a kind that is counted.
LEMMA Counted ==
    ASSUME NEW x, Listed(x), NEW kind, CountOf(x, kind) > 0
    PROVE  \E m \in 1 .. Len(x) : x[m].kind = kind
<1> DEFINE kinds == {kind}
           p == OfKinds(x, kinds)
           a == Ascending(PlacesOf(x, kinds))
<1> HIDE DEF kinds
<1>1. /\ Listed(p) /\ \A i \in 1 .. Len(p) : a[i] \in 1 .. Len(x) /\ x[a[i]].kind \in kinds /\ p[i] = x[a[i]]
  BY KindsPlaced
<1>2. Len(p) > 0
  BY DEF CountOf, OfKind, kinds
<1> HIDE DEF p, a
<1>3. 1 \in 1 .. Len(p)
  BY <1>1, <1>2, ListedOver
<1>4. a[1] \in 1 .. Len(x) /\ x[a[1]].kind \in kinds
  BY <1>1, <1>3
<1> QED BY <1>4 DEF kinds

(* ---------- A later page --------------------------------------------------------- *)

\* What a request knew of another it had read.
LEMMA KnownWasRead ==
    ASSUME HistoryInv, WorkInv, BestInv, FedInv, ToldInv, TruthInv, KeptInv,
           NEW r \in Requests, NEW s \in Requests, Knew(r, s)
    PROVE  LET q == reqs[r].outer
               h == q.served_history
           IN  /\ Fed(r) /\ Fed(s)
               /\ Listed(h) /\ Readable(h) /\ ReadFrom(q, h)
               /\ q.request_time \in Nat /\ reqs[s].outer.request_time \in Nat
               /\ \E i \in 1 .. Len(h) : /\ h[i].time = reqs[s].outer.request_time
                                         /\ h[i].entries = ServedEntries(reqs[s].items)
<1> DEFINE q == reqs[r].outer
           h == q.served_history
           e == [time |-> reqs[s].outer.request_time, entries |-> ServedEntries(reqs[s].items)]
<1>1. Fed(r) /\ Fed(s) /\ e \in Range1(h)
  BY DEF Knew, Fed
<1>2. reqs[r].stage = "answered" /\ reqs[s].stage = "answered"
  BY <1>1 DEF Fed, Responded, At
<1>3. q.request_time \in Nat /\ reqs[s].outer.request_time \in Nat /\ NewestFirst(h, landed)
  BY <1>2 DEF HistoryInv, ReadInOrder, At
<1>4. Listed(h)
  BY <1>3 DEF NewestFirst, Listed, Range1
<1>5. Readable(h)
  BY <1>2 DEF KeptInv, Remembers
<1>6. e.time = reqs[s].outer.request_time /\ e.entries = ServedEntries(reqs[s].items)
  OBVIOUS
<1> HIDE DEF e
<1>7. PICK i \in 1 .. Len(h) : e = h[i]
  BY <1>1 DEF Range1
<1>8. HasRead(q)
  BY <1>2 DEF ToldInv, Told
<1>9. h # <<>>
  <2> SUFFICES ASSUME h = <<>> PROVE FALSE
    OBVIOUS
  <2>1. Len(h) = 0
    OBVIOUS
  <2> HIDE DEF h
  <2> QED BY <1>7, <2>1
<1>10. ReadFrom(q, h)
  BY <1>8, <1>9 DEF HasRead
<1> QED BY <1>1, <1>3, <1>4, <1>5, <1>6, <1>7, <1>10

\* Who-to-follow rests.
LEMMA FollowRests ==
    ASSUME HistoryInv, WorkInv, BestInv, FedInv, ToldInv, TruthInv, KeptInv
    PROVE  ModulesRest
<1> SUFFICES ASSUME NEW r \in Requests, NEW s \in Requests, Knew(r, s), Since(r, s) < Limits.wtf_fatigue,
                    CountOf(reqs[r].items, "wtf") > 0, CountOf(reqs[s].items, "wtf") > 0
             PROVE  FALSE
  BY DEF ModulesRest
<1> DEFINE q == reqs[r].outer
           h == q.served_history
           x == ServedEntries(reqs[s].items)
           u == reqs[s].outer.request_time
           t == q.request_time
<1>1. /\ Fed(r) /\ Fed(s) /\ ReadFrom(q, h) /\ t \in Nat /\ u \in Nat
      /\ \E i \in 1 .. Len(h) : h[i].time = u /\ h[i].entries = x
  BY KnownWasRead
<1>2. PICK i \in 1 .. Len(h) : h[i].time = u /\ h[i].entries = x
  BY <1>1
<1>3. Listed(reqs[r].items) /\ Listed(reqs[s].items)
  BY <1>1, StripBegins DEF Feed
<1>4. PICK m \in 1 .. Len(reqs[r].items) : reqs[r].items[m].kind = "wtf"
  BY <1>3, Counted
<1>5. PICK k \in 1 .. Len(reqs[s].items) : reqs[s].items[k].kind = "wtf"
  BY <1>3, Counted
<1>6. q.wtf_eligible
  BY <1>1, <1>4, StripBegins
<1>7. reqs[s].items[k].body # <<>>
  BY <1>1, <1>5, StripBegins
<1>8. \A j \in 1 .. Len(reqs[s].items) : Writable(reqs[s].items[j])
  BY <1>1, ItemsWritable
<1>9. \E e \in Range1(x) : e.type = "who_to_follow"
  BY <1>3, <1>5, <1>7, <1>8, EntriesOfFeed
<1>10. IsModuleEligible(h, "who_to_follow", t)
  BY <1>1, <1>6 DEF ReadFrom
<1> DEFINE fatigue == Limits.wtf_fatigue
<1>11. t - u >= fatigue
  BY <1>2, <1>9, <1>10 DEF IsModuleEligible
<1>12. t - u < fatigue
  BY DEF Since
<1>13. fatigue \in Nat
  BY LimitsAssumption
<1> HIDE DEF t, u, fatigue
<1> QED BY <1>1, <1>11, <1>12, <1>13

\* The ids of a post are among those its candidate relates to.
LEMMA IdsRelated ==
    ASSUME NEW c, NEW p, p = ToScoredPost(c)
    PROVE  IdsOf(p) \subseteq RelatedPostIds(c)
<1>1. p.id = c.tweet_id /\ p.retweeted_id = Get(c.retweeted_id, 0)
  BY ShownFields
<1>2. Get(c.retweeted_id, 0) = 0 \/ Get(c.retweeted_id, 0) \in c.retweeted_id
  BY DEF Get, None
<1> QED BY <1>1, <1>2 DEF IdsOf, RelatedPostIds

\* A page further down repeats nothing of a response it read.
LEMMA NothingIsRepeated ==
    ASSUME HistoryInv, WorkInv, BestInv, FedInv, ToldInv, TruthInv, KeptInv
    PROVE  NothingRepeats
<1> SUFFICES ASSUME NEW r \in Requests, NEW s \in Requests,
                    Knew(r, s), Since(r, s) <= Limits.served_duration,
                    Len(RecentIds(reqs[r].outer.served_history, reqs[r].outer.request_time))
                        <= Limits.served_number,
                    reqs[r].outer.is_bottom, reqs[r].outer.context # "foreground_truncate",
                    NEW p \in Range1(ShownPosts(r)), NEW o \in Range1(ShownPosts(s))
             PROVE  IdsOf(p) \cap IdsOf(o) = {}
  BY DEF NothingRepeats
<1> DEFINE v == reqs[r]
           q == v.outer
           h == q.served_history
           x == ServedEntries(reqs[s].items)
           u == reqs[s].outer.request_time
           t == q.request_time
           recent == RecentIds(h, t)
           items == reqs[s].items
<1>1. /\ Fed(r) /\ Fed(s) /\ Listed(h) /\ Readable(h) /\ ReadFrom(q, h) /\ t \in Nat /\ u \in Nat
      /\ \E i \in 1 .. Len(h) : h[i].time = u /\ h[i].entries = x
  BY KnownWasRead
<1>2. PICK i \in 1 .. Len(h) : h[i].time = u /\ h[i].entries = x
  BY <1>1
<1>3. h[i].time >= t - Limits.served_duration
  <2> DEFINE d == Limits.served_duration
  <2>1. d \in Nat
    BY LimitsAssumption
  <2>2. t - u <= d
    BY DEF Since
  <2> HIDE DEF d, t, u
  <2>3. u >= t - d
    BY <1>1, <2>1, <2>2
  <2> QED BY <1>2, <2>3 DEF d
<1>4. Names(x, IdsOf(o))
  <2>1. Listed(items) /\ \A m \in 1 .. Len(items) : Writable(items[m])
    BY <1>1, ItemsWritable
  <2>2. o \in Range1(Bodies(OfKind(items, "post")))
    BY <1>1 DEF ShownPosts, Fed
  <2>3. PICK m \in 1 .. Len(items) : items[m].kind = "post" /\ items[m].body = o
    BY <2>1, <2>2, BodiesOfKind DEF Holds
  <2> QED BY <2>1, <2>3, EntriesOfFeed
<1>5. Listed(recent) /\ IdsOf(o) \subseteq Range1(recent)
  BY <1>1, <1>2, <1>3, <1>4, RecentNames
<1>6. q.served_ids = Range1(recent)
  <2> DEFINE n == Limits.served_number
  <2>1. n \in Nat
    BY LimitsAssumption
  <2>2. Len(recent) <= n
    OBVIOUS
  <2> HIDE DEF n, recent
  <2>3. Take(recent, n) = recent
    BY <1>5, <2>1, <2>2, AllTaken
  <2> QED BY <1>1, <2>3 DEF ReadFrom, RecentlyServedIds, n, recent
<1>7. PICK c \in Range1(v.candidates) : p = ToScoredPost(c)
  BY <1>1, ShownAreCandidates DEF ShownOfCandidates, Fed
<1>8. v.stage = "answered"
  BY <1>1 DEF Fed, Responded, At
<1>9. Passed(v.query, c)
  BY <1>7, <1>8 DEF TruthInv, Truthful, Ended
<1>10. /\ v.query.is_bottom = q.is_bottom /\ v.query.context = q.context
       /\ v.query.served_ids = q.served_ids
  BY <1>8 DEF ToldInv, Told, Standing
<1>11. RelatedPostIds(c) \cap q.served_ids = {}
  BY <1>9, <1>10 DEF Passed
<1>12. IdsOf(p) \subseteq RelatedPostIds(c)
  BY <1>7, IdsRelated
<1> QED BY <1>5, <1>6, <1>11, <1>12

\* Who-to-follow is not shown again while the viewer rests from it, as far as
\* the request could read: whatever other requests record, delete or fail to.
THEOREM ModulesAreRested == Spec => []ModulesRest
<1>1. HistoryInv /\ WorkInv /\ BestInv /\ FedInv /\ ToldInv /\ TruthInv /\ KeptInv => ModulesRest
  BY FollowRests
<1> QED BY <1>1, KeptAlways, PTL

\* A page further down repeats nothing of a response the request read, be its
\* posts retweets, and be its candidates fresh or another request's.
THEOREM PagesDoNotRepeat == Spec => []NothingRepeats
<1>1. HistoryInv /\ WorkInv /\ BestInv /\ FedInv /\ ToldInv /\ TruthInv /\ KeptInv => NothingRepeats
  BY NothingIsRepeated
<1> QED BY <1>1, KeptAlways, PTL
=============================================================================
