----------------------------- MODULE RiskEngine -----------------------------
(***************************************************************************)
(* How rain becomes a risk level: apps/risk/engine.py, the bias factor of  *)
(* apps/ingest/parsers/bias.py and the texts of apps/risk/plain_text.py.   *)
(* Rain is in tenths of a millimetre, a susceptibility score in            *)
(* hundredths, a multiplier in ten-thousandths (bias.py rounds to four     *)
(* decimals).                                                              *)
(***************************************************************************)
EXTENDS Integers, Sequences, FiniteSets
LOCAL S == INSTANCE SequencesExt

HazardLevels == <<"LOW", "MODERATE", "HIGH", "SEVERE">>
SusceptibilityBuckets == <<"LOW", "MED", "HIGH">>

HazardThresholds == <<75, 350, 645>>

RiskMatrix ==
    [LOW      |-> <<"LOW", "LOW", "MODERATE">>,
     MODERATE |-> <<"LOW", "MODERATE", "HIGH">>,
     HIGH     |-> <<"MODERATE", "HIGH", "SEVERE">>,
     SEVERE   |-> <<"HIGH", "SEVERE", "SEVERE">>]

LevelOrder(level) == CHOOSE i \in 1..4 : HazardLevels[i] = level

BucketHazard(rain) ==
    HazardLevels[1 + Cardinality({i \in 1..3 : rain >= HazardThresholds[i]})]

BucketSusceptibility(fsi) ==
    IF fsi < 33 THEN "LOW" ELSE IF fsi < 66 THEN "MED" ELSE "HIGH"

One == 10000

\* Python's max and min of a bound and a number.
AtLeast(low, x) == IF x < low THEN low ELSE x
AtMost(high, x) == IF high < x THEN high ELSE x

RainCorrected(raw, multiplier, offset) == AtLeast(0, (raw * multiplier) \div One + offset)

SuscIdx(fsi) == CHOOSE i \in 1..3 : SusceptibilityBuckets[i] = BucketSusceptibility(fsi)

RiskLevel(rain, fsi) == RiskMatrix[BucketHazard(rain)][SuscIdx(fsi)]

\* `lead' counts minutes ahead; int() cuts the loss of 5 an hour to whole points.
ComputeConfidence(lead, hasObs, nearby) ==
    LET score == 70 + (IF hasObs THEN 15 ELSE 0) + 5 * AtMost(3, nearby)
                    - (5 * AtLeast(0, lead - 60)) \div 60
    IN  AtLeast(10, AtMost(100, score))

ComputeRisk(raw, multiplier, offset, fsi, lead, hasObs, nearby) ==
    LET rain == RainCorrected(raw, multiplier, offset) IN
    [rain |-> rain, hazard |-> BucketHazard(rain), level |-> RiskLevel(rain, fsi),
     confidence |-> ComputeConfidence(lead, hasObs, nearby)]

-----------------------------------------------------------------------------
(* Bias: what the station saw over what was forecast for its cell.         *)

MinPairs == 3
ClampLow == One \div 10
ClampHigh == 10 * One

\* The null readings have been dropped; `mean_pred' < 0.01 mm says there was no rain.
BiasMultiplier(obs, pred) ==
    LET total(s) == S!FoldLeft(LAMBDA a, b : a + b, 0, s) IN
    IF \/ Len(obs) < MinPairs
       \/ Len(pred) < MinPairs
       \/ total(pred) * 10 < Len(pred)
    THEN One
    ELSE AtLeast(ClampLow, AtMost(ClampHigh,
              (2 * One * total(obs) * Len(pred) + total(pred) * Len(obs))
                  \div (2 * total(pred) * Len(obs))))

\* The factor a cell's forecast is corrected by: that of its station, else the region's.
BiasOf(latest, stationOf, cell) ==
    LET regional == IF "" \in DOMAIN latest THEN latest[""] ELSE One IN
    IF cell \in DOMAIN stationOf /\ stationOf[cell] \in DOMAIN latest
    THEN latest[stationOf[cell]]
    ELSE regional

-----------------------------------------------------------------------------
(* What the location view tells a resident (the wording itself is left out).*)

\* The pairs of a level and a hazard class that have a text of their own.
TextKeys ==
    {<<"LOW", "LOW">>, <<"LOW", "MODERATE">>, <<"MODERATE", "LOW">>, <<"MODERATE", "MODERATE">>,
     <<"MODERATE", "HIGH">>, <<"MODERATE", "SEVERE">>, <<"HIGH", "MODERATE">>, <<"HIGH", "HIGH">>,
     <<"HIGH", "SEVERE">>, <<"SEVERE", "HIGH">>, <<"SEVERE", "SEVERE">>}

\* The key of the text served: the pair, the level alone, or the general text.
Generate(level, hazard) ==
    CASE <<level, hazard>> \in TextKeys -> <<level, hazard>>
      [] <<level, hazard>> \notin TextKeys /\ level \in S!ToSet(HazardLevels) -> <<level>>
      [] OTHER -> <<>>
=============================================================================
