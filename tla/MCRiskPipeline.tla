---------------------------- MODULE MCRiskPipeline ----------------------------
\* A small instance of RiskPipeline for TLC.
EXTENDS RiskPipeline

CONSTANTS ridge, river      \* a cell of low susceptibility and one of high

RidgeAndRiver == {ridge, river}
TheirFsi == (ridge :> 20) @@ (river :> 80)
=============================================================================
