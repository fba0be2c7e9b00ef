----------------------------- MODULE AdsBlender -----------------------------
(***************************************************************************)
(* The last stage of a For You request: home-mixer's two ads blenders and  *)
(* the BlenderSelector that puts posts, ads and modules into one feed.     *)
(*                                                                         *)
(* A post has an id, an author, the words of its text, a brand-safety      *)
(* verdict and a score.  An ad has an id, the position it asks for, its    *)
(* brand-safety risk and what its adjacency control excludes (authors and  *)
(* keywords).  Scores are ranks; a text is the set of its words.           *)
(***************************************************************************)
EXTENDS CandidatePipeline

CONSTANTS
    MinPostsForAds,     \* MIN_POSTS_FOR_ADS
    MinRequestedGap,    \* MIN_REQUESTED_GAP
    DefaultSpacing,     \* DEFAULT_SPACING: [requested, min]
    ResultSize,         \* RESULT_SIZE
    WhoToFollowPosition,
    PromptsPosition

ASSUME BlenderAssumption ==
    /\ MinPostsForAds \in Nat \ {0}
    /\ MinRequestedGap \in Nat \ {0}
    /\ DefaultSpacing \in [requested : Nat \ {0}, min : Nat \ {0}]
    /\ DefaultSpacing.min <= DefaultSpacing.requested
    /\ ResultSize \in Nat \ {0}
    /\ WhoToFollowPosition \in Nat

Verdicts == {"safe", "low", "medium"}

Item(kind, body) == [kind |-> kind, body |-> body, position |-> 0]
OfKinds(items, kinds) == Those(items, LAMBDA i : i.kind \in kinds)
OfKind(items, kind) == OfKinds(items, {kind})
Bodies(items) == MapSeq(items, LAMBDA i : i.body)

Numbered(items) == [i \in 1..Len(items) |-> [items[i] EXCEPT !.position = i - 1]]
PostsToFeedItems(posts) == Numbered(MapSeq(posts, LAMBDA p : Item("post", p)))

\* Mutant: pop the last item whatever it is.
FinishPopsAny(items) ==
    LET cut == Take(items, ResultSize)
    IN  Numbered(IF cut # <<>> THEN Front(cut) ELSE cut)

\* truncate, pop an ad left at the end, number
Finish(items) ==
    LET cut == Take(items, ResultSize)
    IN  Numbered(IF cut # <<>> /\ Last(cut).kind = "ad" THEN Front(cut) ELSE cut)
-----------------------------------------------------------------------------
(* What both blenders use. *)

HasAvoid(post) == post.verdict = "medium"

\* The gap g is between the posts g and g + 1 (from 1).
FindSafeGaps(posts) ==
    {g \in 1..Len(posts) - 1 : ~HasAvoid(posts[g]) /\ ~HasAvoid(posts[g + 1])}

\* The least positive distance of the positions the first four ads ask for.
ComputeSpacing(ads) ==
    LET positions == {ads[i].insert_position : i \in 1..Len(ads) \cap 1..4}
        diffs == {d \in {p - q : p, q \in positions} : d > 0}
        requested == CHOOSE d \in diffs : \A e \in diffs : d <= e
    IN  IF diffs # {} /\ requested >= MinRequestedGap
        THEN [requested |-> requested, min |-> (requested + 1) \div 2]
        ELSE DefaultSpacing

ShouldDropBsrLow(ad, above, below) == ad.bsr_low /\ "low" \in {above.verdict, below.verdict}
ShouldDropHandle(ad, above, below) == {above.author, below.author} \cap ad.handles # {}
ShouldDropKeyword(ad, above, below) == (above.words \cup below.words) \cap ad.keywords # {}

Clashes(ad, above, below) ==
    \/ ShouldDropBsrLow(ad, above, below)
    \/ ShouldDropHandle(ad, above, below)
    \/ ShouldDropKeyword(ad, above, below)
-----------------------------------------------------------------------------
(* SafeGapAdsBlender: the order of the posts stays, an ad goes into the    *)
(* safe gap nearest to its ideal place.                                    *)

\* Nearest to the ideal, the lower one of two; none if all are below min.
FindBestGap(gaps, ideal, min) ==
    LET Far(g) == IF g < ideal THEN ideal - g ELSE g - ideal
        usable == {g \in gaps : g >= min}
    IN  {g \in usable : \A h \in usable : Far(g) < Far(h) \/ (Far(g) = Far(h) /\ g <= h)}

\* The next ad is placed behind the last one, or this and all that follow are not.
PlaceAd(acc, gaps, spacing, firstIdeal) ==
    LET last  == Last(acc.placed)
        ideal == IF acc.placed = <<>> THEN firstIdeal ELSE acc.ideal + spacing.requested
        low   == IF acc.placed = <<>> THEN 1
                 ELSE Greatest(acc.ideal + spacing.min, last + DefaultSpacing.min)
        best  == FindBestGap({g \in gaps : acc.placed = <<>> \/ g > last}, ideal, low)
    IN  IF acc.stop \/ best = {} THEN [acc EXCEPT !.stop = TRUE]
        ELSE [placed |-> Append(acc.placed, CHOOSE g \in best : TRUE),
              ideal |-> ideal, stop |-> FALSE]

AssignAdsToGaps(gaps, numAds, spacing, firstIdeal) ==
    LET after[n \in 0..numAds] ==
            IF n = 0 THEN [placed |-> <<>>, ideal |-> firstIdeal, stop |-> FALSE]
            ELSE PlaceAd(after[n - 1], gaps, spacing, firstIdeal)
    IN  after[numAds].placed

\* placements[k] posts stand above the k-th ad
InterleaveAndFinalize(posts, ads, placements) ==
    LET At(i) == {k \in 1..Len(placements) : placements[k] = i - 1}
        Row(i) == (IF At(i) = {} THEN <<>> ELSE <<Item("ad", ads[CHOOSE k \in At(i) : TRUE])>>)
                  \o <<Item("post", posts[i])>>
    IN  Finish(FlattenSeq([i \in 1..Len(posts) |-> Row(i)]))

SafeGapBlend(posts, ads) ==
    IF ads = <<>> \/ Len(posts) < MinPostsForAds THEN PostsToFeedItems(posts)
    ELSE LET asked == ads[1].insert_position
             firstIdeal == IF asked < 0 THEN 0 ELSE asked
         IN  InterleaveAndFinalize(posts, ads,
                 AssignAdsToGaps(FindSafeGaps(posts), Len(ads), ComputeSpacing(ads), firstIdeal))
-----------------------------------------------------------------------------
(* PartitionOrganicAdsBlender: each ad stands between two safe posts that  *)
(* were set aside for it, the rest follows by score.                       *)

\* Mutant: space by the smallest distance asked for.
ActualAdsByMin(posts, ads) ==
    LET safe == Cardinality({i \in 1..Len(posts) : ~HasAvoid(posts[i])})
        bounds == {Len(ads), (Len(posts) - 1) \div ComputeSpacing(ads).min, safe \div 2}
    IN  CHOOSE b \in bounds : \A c \in bounds : b <= c

ActualAds(posts, ads) ==
    LET safe == Cardinality({i \in 1..Len(posts) : ~HasAvoid(posts[i])})
        bounds == {Len(ads), (Len(posts) - 1) \div ComputeSpacing(ads).requested, safe \div 2}
    IN  CHOOSE b \in bounds : \A c \in bounds : b <= c

\* Mutant: check the authors only.
TryPairHandlesOnly(done, ad, safe, actual) ==
    LET at == Len(done) * (Len(safe) \div actual)
    IN  IF Len(done) >= actual \/ ShouldDropHandle(ad, safe[at + 1], safe[at + 2]) THEN done
        ELSE Append(done, [ad |-> ad, above |-> safe[at + 1], below |-> safe[at + 2]])

\* An ad that clashes with its pair is dropped and the next one tries the pair.
TryPair(done, ad, safe, actual) ==
    LET at == Len(done) * (Len(safe) \div actual)
    IN  IF Len(done) >= actual \/ Clashes(ad, safe[at + 1], safe[at + 2]) THEN done
        ELSE Append(done, [ad |-> ad, above |-> safe[at + 1], below |-> safe[at + 2]])

Triples(safe, ads, actual) ==
    LET tried[n \in 0..Len(ads)] ==
            IF n = 0 THEN <<>> ELSE TryPair(tried[n - 1], ads[n], safe, actual)
    IN  tried[Len(ads)]

ByScore(posts) == SortByScore(posts, MapSeq(posts, LAMBDA p : p.score))

\* Each ad between its pair, and the fillers spread over the gaps: the last take one more.
LayOut(triples, filler) ==
    LET k      == Len(triples)
        perGap == Len(filler) \div k
        rest   == Len(filler) % k
        Above(i) == (i - 1) * perGap + (IF i > k - rest THEN i - 1 - (k - rest) ELSE 0)
        Group(i) == <<Item("post", triples[i].above), Item("ad", triples[i].ad),
                      Item("post", triples[i].below)>>
                    \o [j \in 1..Above(i + 1) - Above(i) |-> Item("post", filler[Above(i) + j])]
    IN  Finish(FlattenSeq([i \in 1..k |-> Group(i)]))

PartitionWith(safe, unsafe, triples) ==
    LET pairs == UNION {{triples[i].above, triples[i].below} : i \in 1..Len(triples)}
    IN  IF triples = <<>> THEN PostsToFeedItems(ByScore(safe \o unsafe))
        ELSE LayOut(triples, ByScore(Those(safe, LAMBDA p : p \notin pairs) \o unsafe))

PartitionOrganicBlend(posts, ads) ==
    IF ads = <<>> \/ Len(posts) < MinPostsForAds \/ ActualAds(posts, ads) = 0
    THEN PostsToFeedItems(posts)
    ELSE LET safe == Those(posts, LAMBDA p : ~HasAvoid(p))
         IN  PartitionWith(safe, Those(posts, HasAvoid), Triples(safe, ads, ActualAds(posts, ads)))
-----------------------------------------------------------------------------
(* BlenderSelector *)

Blend(blender, posts, ads) ==
    IF blender = "safe_gap" THEN SafeGapBlend(posts, ads) ELSE PartitionOrganicBlend(posts, ads)

InsertPrompts(blended, prompts) ==
    [i \in 1..Len(prompts) |-> [prompts[i] EXCEPT !.position = PromptsPosition]] \o blended

\* Only the first module is used.
InsertWhoToFollow(blended, wtf) ==
    LET at == IF WhoToFollowPosition = 0 THEN 0 ELSE WhoToFollowPosition - 1
        index == IF at < Len(blended) THEN at ELSE Len(blended)
    IN  IF wtf = <<>> THEN blended
        ELSE InsertAt(blended, index + 1, [Head(wtf) EXCEPT !.position = WhoToFollowPosition])

\* Only the last push-to-home post is kept.
PinPushToHome(blended, pth) == IF pth = <<>> THEN blended ELSE <<Last(pth)>> \o blended

\* The non-selected items are placeholders: only their number is right.
Placeholders(items, blended) ==
    LET Dropped(kind) == Len(OfKind(items, kind)) - Len(OfKind(blended, kind))
        Holes(kind) == [n \in 1..Dropped(kind) |-> Item(kind, "default")]
    IN  Holes("post") \o Holes("ad")

\* The other items go around what was blended.
Arrange(items, blended) ==
    [selected |-> PinPushToHome(
                      InsertWhoToFollow(InsertPrompts(blended, OfKind(items, "prompt")),
                                        OfKind(items, "wtf")),
                      OfKind(items, "pth")),
     non_selected |-> Placeholders(items, blended)]

BlenderSelect(blender, items) ==
    Arrange(items, Blend(blender, Bodies(OfKind(items, "post")), Bodies(OfKind(items, "ad"))))
=============================================================================
