--------------------------- MODULE MCOutboxRelay ---------------------------
\* Small instances of OutboxRelay for TLC.
EXTENDS OutboxRelay, TLC

ChainAE == <<"alert", "enrich">>
ChainC == <<"csv">>
SymmetricRelays == Permutations(Relays)
=============================================================================
