-------------------------- MODULE MCStreamingCall --------------------------
\* Small instances of StreamingCall for TLC.
EXTENDS StreamingCall
=============================================================================
