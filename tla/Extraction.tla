------------------------------ MODULE Extraction ------------------------------
(***************************************************************************)
(* How an utterance becomes the value of a slot: the phrase tables and     *)
(* their matching (extraction/normalize.py, keyword_rules.py), the model   *)
(* with its time limit in front of them (llm_extractor.py,                 *)
(* hybrid_extractor.py) and the nearest-neighbour hazard classifier        *)
(* (rag/taxonomy.py).  An utterance is the set of listed phrases that      *)
(* occur in it, "" is no value, scores are in hundredths.                  *)
(***************************************************************************)
EXTENDS Integers, Sequences, FiniteSets
LOCAL INSTANCE FiniteSetsExt
LOCAL INSTANCE SequencesExt

None == ""

-----------------------------------------------------------------------------
(* Tables: the values in the order of the source, with their phrases.      *)

Severity == <<
    <<"light", {"light", "small", "minor", "mild", "slight", "little", "not too bad", "not that bad"}>>,
    <<"moderate", {"moderate", "medium", "quite bad", "pretty bad", "fairly bad", "middling", "average"}>>,
    <<"extreme", {"extreme", "severe", "very bad", "very severe", "extremely bad", "extremely severe", "terrible",
                  "horrible", "awful", "worst", "life-threatening", "dangerous"}>> >>

HazardType == <<
    <<"storm", {"storm", "cyclone", "gale", "hurricane", "high wind", "strong wind", "tree fell", "tree down",
                "roof", "power line", "lightning", "thunderstorm"}>>,
    <<"sludge_oil", {"sludge", "slick", "oil", "spill", "petroleum", "diesel", "chemical", "black water"}>>,
    <<"abnormal_tide", {"tide", "tides", "king tide", "surge", "storm surge", "swell", "high water",
                        "flooding", "flood"}>>,
    <<"erosion", {"erosion", "cliff", "collapsed bank", "beach loss"}>>,
    <<"other", {"other", "something else", "not sure"}>> >>

Depth == <<
    <<"ankle", {"ankle", "ankles", "shin", "shoes", "shoe"}>>,
    <<"knee", {"knee", "knees", "thigh", "thighs"}>>,
    <<"waist", {"waist", "waist deep", "hip", "hips"}>>,
    <<"above_waist", {"above waist", "above the waist", "chest", "shoulder", "neck", "over head", "over my head",
                      "higher than waist", "higher than the waist"}>> >>

DepthBandCm == [ankle |-> 15, knee |-> 50, waist |-> 90, above_waist |-> 140]

YesNo == <<
    <<"yes", {"yes", "yeah", "yep", "yup", "correct", "right", "affirmative", "sure", "ok", "okay", "please do",
              "go ahead", "submit", "submit it", "reporting", "i am reporting", "i'm reporting",
              "i want to report", "wanted to report", "haan", "aan", "avunu"}>>,
    <<"no", {"no", "nope", "nah", "not reporting", "not now", "not sure", "unsure", "dunno", "don't know",
             "dont know", "wrong number", "cancel", "stop", "hang up", "goodbye", "bye"}>> >>

Restart == {"restart", "start over", "start again", "redo", "redo it", "change it", "change", "wrong",
            "that's wrong", "thats wrong", "not right"}

LOCAL Hits(table, said) == {<<i, p>> \in (DOMAIN table) \X said : p \in table[i][2]}

\* Mutant: the tables are asked one after the other.
Normalize_InOrder(table, said) ==
    LET hits == Hits(table, said) IN
    IF hits = {} THEN None ELSE table[Min({h[1] : h \in hits})][1]

\* The longest phrase decides; of two as long, the one listed first.
Normalize(table, said) ==
    LET hits == Hits(table, said)
        longest == {h \in hits : \A o \in hits : Len(o[2]) <= Len(h[2])}
    IN  IF hits = {} THEN None ELSE table[Min({h[1] : h \in longest})][1]

NormalizeConfirmation(said) == IF said \cap Restart # {} THEN "restart" ELSE Normalize(YesNo, said)

-----------------------------------------------------------------------------
(* The keyword rules, and the model in front of them.                      *)

KeywordHit == 75
KeywordSlots == {"intent", "hazard_type", "severity", "confirmation", "depth"}

Keyword(slot, said) ==
    CASE slot = "intent" -> Normalize(YesNo, said)
      [] slot = "hazard_type" -> Normalize(HazardType, said)
      [] slot = "severity" -> Normalize(Severity, said)
      [] slot = "depth" -> Normalize(Depth, said)
      [] slot = "confirmation" -> NormalizeConfirmation(said)

\* `words' is the utterance itself, what a slot without a table is filled with.
KeywordFallback(slot, said, words) ==
    IF slot \notin KeywordSlots THEN [value |-> words, confidence |-> 60, provider |-> "keyword_fallback"]
    ELSE LET hit == Keyword(slot, said) IN
         IF hit = None THEN [value |-> None, confidence |-> 0, provider |-> "keyword_fallback"]
         ELSE [value |-> hit, confidence |-> KeywordHit, provider |-> "keyword_fallback"]

Providers == {"none", "anthropic", "bedrock"}

\* A provider without its credential is left out.
BuildProvider(type, credential) == IF type \in {"anthropic", "bedrock"} /\ credential THEN type ELSE "none"

\* What a call of the provider comes to: a value, no value, a failure it owns up to (its
\* transport, its time limit, JSON that does not parse) and one it does not (a confidence
\* that is no number, a body that is no JSON).
Answers(values) == [kind : {"value"}, value : values] \cup [kind : {"none", "failed", "raised"}]

\* The keyword rules stand in for the failures the provider owns up to; the others reach
\* the caller of extract_slot.  The value is taken as it comes.
ExtractSlot(slot, said, words, provider, answer) ==
    CASE words = None -> [value |-> None, confidence |-> 0, provider |-> "keyword_fallback"]
      [] words # None /\ provider # "none" /\ answer.kind = "value" ->
             [value |-> answer.value, confidence |-> 90, provider |-> provider]
      [] words # None /\ provider # "none" /\ answer.kind = "raised" -> [raised |-> TRUE]
      [] OTHER -> KeywordFallback(slot, said, words)

-----------------------------------------------------------------------------
(* rag/taxonomy.py: `sims' gives each labelled example, in corpus order,   *)
(* <<label, similarity>>; the vectors themselves are left out.             *)

NeighbourCount == 5
Unlabelled == [label |-> None, score |-> 0, margin |-> 0]

LOCAL VotesOf(near, label) ==
    FoldLeft(LAMBDA a, n : a + (IF n[1] = label THEN n[2] ELSE 0), 0, near)

\* `score' and `margin' are shares of the votes of the nearest k.
Classify(sims, k) ==
    LET near == SubSeq(SortSeq(sims, LAMBDA a, b : a[2] > b[2]), 1, Min({k, Len(sims)}))
        labels == {near[i][1] : i \in DOMAIN near}
        total == FoldLeft(LAMBDA a, n : a + n[2], 0, near)
        top == CHOOSE l \in labels : \A o \in labels : VotesOf(near, o) <= VotesOf(near, l)
        second == Max({VotesOf(near, l) : l \in labels \ {top}} \cup {0})
    IN  IF total <= 0 THEN Unlabelled
        ELSE [label |-> top, score |-> (100 * VotesOf(near, top)) \div total,
              margin |-> (100 * (VotesOf(near, top) - second)) \div total]

-----------------------------------------------------------------------------
(* What the tables owe.                                                    *)

\* Phrases that are part of a longer one with another meaning.
Fragments == {<<"right", "not right">>, <<"reporting", "not reporting">>, <<"sure", "unsure">>,
              <<"sure", "not sure">>, <<"no", "not right">>, <<"wrong", "wrong number">>}

\* What occurs in an utterance that a phrase occurs in.
Closed(phrases) == phrases \cup {f[1] : f \in {x \in Fragments : x[2] \in phrases}}

\* A yes is never heard only in the words of a refusal: some affirmative was said that is
\* not part of a longer phrase of the tables asked that takes it back.
YesIsMeant(said) ==
    LET meant(refusals) == \E y \in said \cap YesNo[1][2] :
                              \A f \in Fragments : f[1] = y /\ f[2] \in refusals => f[2] \notin said
    IN  /\ Normalize(YesNo, said) = "yes" => meant(YesNo[2][2])
        /\ NormalizeConfirmation(said) = "yes" => meant(YesNo[2][2] \cup Restart)

\* A lead of a margin survives the loss of any one neighbour that counts for less.
LeadIsKept(sims, k) ==
    LET all == Classify(sims, k)
        near == SubSeq(SortSeq(sims, LAMBDA a, b : a[2] > b[2]), 1, Min({k, Len(sims)}))
        total == FoldLeft(LAMBDA a, n : a + n[2], 0, near)
    IN  \A i \in DOMAIN near :
            100 * near[i][2] < all.margin * total => Classify(RemoveAt(near, i), k).label = all.label
=============================================================================
