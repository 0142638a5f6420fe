------------------------------ MODULE Ranking ------------------------------
(***************************************************************************)
(* Ranked lists: the recommended slots (forecast_service.py), the nearest  *)
(* lots (geo_service.py), the number plate read from a picture             *)
(* (anpr_service.py).  What a row, a distance or a text is made of is      *)
(* left out: only what the rankings compare is kept.                       *)
(***************************************************************************)
EXTENDS Integers, Sequences, FiniteSets, Functions

CONSTANTS
    VehicleTypes, \* members of the enumeration VehicleType
    MaxContours,  \* how many of the largest contours are looked at
    FrameWidth    \* of the picture

ASSUME RankingAssumption == MaxContours \in Nat \ {0} /\ FrameWidth \in Nat \ {0}

\* The elements of S in the order Precedes: the n-th has n - 1 before it.
Ranked(S, Precedes(_, _)) ==
    [n \in 1 .. Cardinality(S) |->
        CHOOSE s \in S : Cardinality({t \in S : Precedes(t, s)}) = n - 1]

\* What seq holds at the places listed in order.
Arranged(seq, order) == [n \in DOMAIN order |-> seq[order[n]]]

\* Python's sort by key: stable.
Sorted(seq, keys) ==
    LET Before(i, j) == keys[i] < keys[j] \/ (keys[i] = keys[j] /\ i < j)
    IN  Arranged(seq, Ranked(DOMAIN seq, Before))

\* Those elements that pass a test, as a comprehension keeps them.
Passing(seq, Test(_)) == Arranged(seq, Ranked({i \in DOMAIN seq : Test(seq[i])}, <))

\* Python's seq[:limit]: a negative limit counts from the end.
Slice(seq, limit) ==
    LET length == IF limit < 0 THEN Len(seq) + limit ELSE limit
    IN  SubSeq(seq, 1, IF length > Len(seq) THEN Len(seq) ELSE length)

-----------------------------------------------------------------------------
\* A bug: the list is ordered by block only.
CheapestBlock(s, t) == s.number < t.number

\* Cheapest current rate first, then by block.
Cheaper(s, t) == s.rate < t.rate \/ (s.rate = t.rate /\ s.number < t.number)

\* recommend_slots: a type that the enumeration does not know filters nothing.
RecommendSlots(slots, type, limit) ==
    LET available == {s \in slots : /\ s.status = "available"
                                    /\ type \in VehicleTypes => s.type = type}
    IN  Slice(Ranked(available, Cheaper), limit)

-----------------------------------------------------------------------------
\* nearest_lots, the lots in the order of the query's answer: it has no ORDER BY.
NearestLots(lots, limit) ==
    Slice(Sorted(lots, [i \in DOMAIN lots |-> lots[i].distance]), limit)

-----------------------------------------------------------------------------
\* The part of a picture inside a contour is taken for a plate.
PlateLike(c) ==
    /\ c.corners = 4 /\ c.height > 0
    /\ 2 * c.height <= c.width /\ c.width <= 6 * c.height
    /\ 100 * c.width > 15 * FrameWidth

\* _detect_candidates: among the largest contours only.
DetectCandidates(contours) ==
    LET largestFirst == Sorted(contours, [i \in DOMAIN contours |-> -contours[i].area])
    IN  Passing(Slice(largestFirst, MaxContours), PlateLike)

\* A text: its length once normalised, and whether it is a plate's.
Blank == [length |-> 0, valid |-> FALSE]

Better(text, best) == text.valid /\ text.length > best.length

\* The first of the longest, as the loop and max(key=len) take it.
FirstLongest(texts) ==
    LET Beaten(i) == \E j \in DOMAIN texts : Better(texts[j], texts[i])
        Longest(i) == \A j \in DOMAIN texts : texts[j].length <= texts[i].length
        plates == {i \in DOMAIN texts : texts[i].valid /\ ~Beaten(i)}
        guesses == {i \in DOMAIN texts : Longest(i)}
        best == IF plates # {} THEN plates ELSE guesses
    IN  texts[CHOOSE i \in best : \A j \in best : i <= j]

\* recognize_plate on a picture that could be decoded: the regions in their order,
\* then the whole frame.
RecognizePlate(contours, frameText, ocr) ==
    LET found == DetectCandidates(contours)
        texts == [i \in DOMAIN found |-> found[i].text] \o <<frameText>>
        candidates == Passing(texts, LAMBDA t : t.length > 0)
    IN  IF ~ocr \/ candidates = <<>> THEN Blank ELSE FirstLongest(candidates)

=============================================================================
