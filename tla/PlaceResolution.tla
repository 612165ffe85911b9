--------------------------- MODULE PlaceResolution ---------------------------
(***************************************************************************)
(* The hybrid place resolver (rag/resolve_place.py) over the indexed       *)
(* gazetteer (rag/gazetteer.py): four signals rank the entries, reciprocal *)
(* rank fusion merges the ranks, the caller's district and state re-rank.  *)
(*                                                                         *)
(* A text is a sequence of words and a word a sequence of pieces, each of  *)
(* PieceLetters letters; normalise_ascii leaves the pieces without their   *)
(* word boundaries. How a text sounds (Double Metaphone) and how alike two *)
(* texts are spelt (rapidfuzz's WRatio) are given. Weights are hundredths, *)
(* fused scores are exact multiples of 1/RankScale, signal scores are      *)
(* parts in 10000.                                                         *)
(***************************************************************************)
EXTENDS Integers, SequencesExt

CONSTANTS
    Kinds,         \* the tiers a place can belong to; one of them "district"
    PieceLetters,  \* letters in a piece
    SoundsOf(_),   \* the one or two phonetic keys of a cleaned text
    Spelt(_, _),   \* WRatio of two cleaned texts, 0 .. 100
    TopK           \* candidates returned (5 in the code)

Unset == <<>>
NoState == ""

\* A place of the curated files; district is Unset on the district tier.
Place(name, kind, district, state, variants) ==
    [name |-> name, matched |-> name, kind |-> kind, district |-> district,
     state |-> state, variants |-> variants]

Clean(text) == FlattenSeq(text)

IsInfix(a, b) == \E i \in 0 .. Len(b) - Len(a) : SubSeq(b, i + 1, i + Len(a)) = a

SameKey(a, b) == a.name = b.name /\ a.district = b.district /\ a.state = b.state

\* The elements of s in order of Before, equals in the order they had.
Ordered(s, Before(_, _)) ==
    LET Sooner(i, j) == Before(s[i], s[j]) \/ (~Before(s[j], s[i]) /\ i < j)
        at == SetToSortSeq(DOMAIN s, Sooner)
    IN  [k \in DOMAIN s |-> s[at[k]]]

\* The elements of s at the positions P, in their order.
Kept(s, P) == LET at == SetToSortSeq(P, <) IN [k \in 1 .. Len(at) |-> s[at[k]]]

\* Of entries with one key the first.
Distinct(s) ==
    Kept(s, {i \in DOMAIN s : \A j \in 1 .. i - 1 : ~SameKey(s[j], s[i])})

-----------------------------------------------------------------------------
(* The index: build_gazetteer. An entry is followed by its aliases. *)

Aliased(e, v) == [e EXCEPT !.matched = v, !.variants = <<>>]

Exploded(places) ==
    FlattenSeq([i \in DOMAIN places |->
        <<places[i]>> \o [v \in DOMAIN places[i].variants |->
                             Aliased(places[i], places[i].variants[v])]])

\* Mutant: a later registration of a name replaces the earlier one.
Names_LastWins(g) ==
    Kept(g, {i \in DOMAIN g :
        /\ Clean(g[i].matched) # <<>>
        /\ \A j \in i + 1 .. Len(g) : Clean(g[j].matched) # Clean(g[i].matched)})

\* name_index: the first registration of a name wins.
Names(g) ==
    Kept(g, {i \in DOMAIN g :
        /\ Clean(g[i].matched) # <<>>
        /\ \A j \in 1 .. i - 1 : Clean(g[j].matched) # Clean(g[i].matched)})

\* phonetic_index: every registration.
Sounding(g, key) ==
    Kept(g, {i \in DOMAIN g : key \in ToSet(SoundsOf(Clean(g[i].matched)))})

-----------------------------------------------------------------------------
(* The signals, each a sequence of entries, best first. *)

Exact(g, cleaned) == SelectSeq(Names(g), LAMBDA e : Clean(e.matched) = cleaned)

Substring(g, cleaned) ==
    LET hits == SelectSeq(Names(g), LAMBDA e : IsInfix(Clean(e.matched), cleaned))
    IN  Distinct(Ordered(hits, LAMBDA a, b :
            Len(Clean(a.matched)) > Len(Clean(b.matched))))

\* Only the last word is listened to.
Phonetic(g, fragment) ==
    IF fragment = <<>> THEN <<>>
    ELSE LET keys == SoundsOf(fragment[Len(fragment)])
         IN  Distinct(FlattenSeq([k \in DOMAIN keys |-> Sounding(g, keys[k])]))

FuzzyCutoff == 70

Spelling(e, cleaned) ==
    LET a == Spelt(cleaned, Clean(e.matched))
        b == Spelt(cleaned, Clean(e.name))
    IN  IF b > a THEN b ELSE a

\* Of one place the first of its names that reaches the cutoff is scored.
Fuzzy(g, cleaned) ==
    LET close == SelectSeq(g, LAMBDA e : Spelling(e, cleaned) >= FuzzyCutoff)
    IN  Ordered(Distinct(close), LAMBDA a, b :
            Spelling(a, cleaned) > Spelling(b, cleaned))

\* The four lists with their weights.
Signals(g, fragment) ==
    LET cleaned == Clean(fragment)
    IN  <<[weight |-> 100, list |-> Exact(g, cleaned)],
          [weight |-> 85, list |-> Substring(g, cleaned)],
          [weight |-> 75, list |-> Phonetic(g, fragment)],
          [weight |-> 60, list |-> Fuzzy(g, cleaned)]>>

-----------------------------------------------------------------------------
(* Fusion. *)

Least(a, b) == IF a < b THEN a ELSE b
Total(s) == FoldSeq(+, 0, s)
Listed(e, s) == \E i \in DOMAIN s : SameKey(s[i], e)
RankIn(e, s) == CHOOSE i \in DOMAIN s : SameKey(s[i], e)

\* 60 + rank divides RankScale for the ranks 1 to 4.
RankScale == 7624512
RrfK == 60

Fused(e, signals) ==
    Total([i \in DOMAIN signals |->
        IF Listed(e, signals[i].list)
          THEN signals[i].weight * (RankScale \div (RrfK + RankIn(e, signals[i].list)))
          ELSE 0])

\* The confidence of a substring hit: coverage, weighted by the name's length.
SubstringScore(e, cleaned) ==
    LET name == Len(Clean(e.matched)) * PieceLetters
        all == Len(cleaned) * PieceLetters
    IN  Least(9500, 6000 + (3500 * name * Least(name, 12)) \div (all * 12))

\* The best calibrated score of an entry over the signals.
SignalScore(e, signals, cleaned) ==
    LET In(i) == Listed(e, signals[i].list)
        Hit(i) == signals[i].list[RankIn(e, signals[i].list)]
        scores == {IF In(1) THEN 10000 ELSE 0,
                   IF In(2) THEN SubstringScore(Hit(2), cleaned) ELSE 0,
                   IF In(3) THEN 7500 ELSE 0,
                   IF In(4) THEN Least(9900, 100 * Spelling(Hit(4), cleaned)) ELSE 0}
    IN  CHOOSE m \in scores : \A x \in scores : x <= m

NoPrior == [district |-> Unset, state |-> NoState]

DistrictBump == 5 * RankScale
StateBump == 2 * RankScale

Bump(e, prior) ==
    LET d == Clean(prior.district)
    IN  (IF d # <<>> /\ (\/ Clean(e.district) = d
                         \/ e.kind = "district" /\ Clean(e.name) = d)
           THEN DistrictBump ELSE 0)
        + (IF prior.state # NoState /\ e.state = prior.state THEN StateBump ELSE 0)

\* resolve(): the candidates, best first, each with its signal score.
Resolution(g, fragment, prior) ==
    LET cleaned == Clean(fragment)
        signals == Signals(g, fragment)
        all == Distinct(FlattenSeq([i \in DOMAIN signals |-> signals[i].list]))
        scored == [i \in DOMAIN all |->
            [entry |-> all[i],
             rank |-> Fused(all[i], signals) + Bump(all[i], prior),
             score |-> SignalScore(all[i], signals, cleaned)]]
        Better(a, b) == a.rank > b.rank \/ (a.rank = b.rank /\ a.score > b.score)
        best == Ordered(scored, Better)
    IN  IF cleaned = <<>> THEN <<>> ELSE SubSeq(best, 1, Least(TopK, Len(best)))

\* top1_top2_margin.
Margin(candidates) ==
    IF candidates = <<>> THEN 0
    ELSE candidates[1].score - (IF Len(candidates) > 1 THEN candidates[2].score ELSE 0)
=============================================================================
