---------------------------- MODULE MCDlqMonitor ----------------------------
\* Small instances of DlqMonitor for TLC.
EXTENDS DlqMonitor

ChainC == <<"csv">>
=============================================================================
