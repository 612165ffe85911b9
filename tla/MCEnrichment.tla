---- MODULE MCEnrichment ----
EXTENDS Enrichment, TLC
Vizag == [name |-> "vizag", state |-> "AP", district |-> None,
          forms |-> <<<<"vizag">>, <<"vizag", "city">>>>]
Gajuwaka == [name |-> "gajuwaka", state |-> "AP", district |-> "vizag",
             forms |-> <<<<"gajuwaka">>>>]
MCDistricts == <<Vizag>>
MCMandals == <<Gajuwaka>>
NoScore(f, raw) == 0
Slots(h, s, d) == [hazard |-> h, severity |-> s, depth |-> d]
MCSaid == <<
    [slots |-> Slots("flood", "moderate", 40), words |-> "w1",
     raw |-> <<"beach", "vizag">>, danger |-> FALSE, caller |-> "ann"],
    [slots |-> Slots("flood", None, -1), words |-> "w2",
     raw |-> <<"vizag">>, danger |-> TRUE, caller |-> "bob"],
    [slots |-> Slots("flood", "light", -1), words |-> "w3",
     raw |-> <<"vizag", "city">>, danger |-> FALSE, caller |-> "ann"]>>
MCProposals == {[slots |-> Slots("surge", None, 100), sure |-> 90],
                [slots |-> Slots(None, "extreme", -1), sure |-> 70],
                [slots |-> Slots("flood", "light", 5), sure |-> 69]}
Closer(a, b) == IF {a, b} = {"w1", "w3"} THEN 90 ELSE 85
Replicas == Permutations(Workers)
\* Two incidents at one place, told apart by their words; the fourth caller repeats the third.
OtherWords(said, words) == [said EXCEPT !.words = words]
MCSaidFour == <<MCSaid[1], MCSaid[2], OtherWords(MCSaid[3], "x3"), MCSaid[3]>>
SameIncident(a, b) == ((a = Erased) <=> (b = Erased)) /\ ((a = "x3") <=> (b = "x3"))
====
