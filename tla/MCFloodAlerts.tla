---------------------------- MODULE MCFloodAlerts ----------------------------
\* A small instance of FloodAlerts for TLC.
EXTENDS FloodAlerts

CONSTANTS bank, ridge,  \* a cell by the river and the one above it
          asha, ravi,   \* a resident of each
          r1            \* a report from the bank

BankAndRidge == {bank, ridge}
Neighbours == [h \in BankAndRidge |-> BankAndRidge]
HighOrSevere == {(bank :> level) @@ (ridge :> 1) : level \in {3, 4}}
Residents == {asha, ravi}
Homes == {<<asha, bank>>, <<ravi, ridge>>}
FromTheBank == (r1 :> bank)
KneeDeep == (r1 :> "KNEE")
=============================================================================
