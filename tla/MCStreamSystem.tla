---------------------------- MODULE MCStreamSystem ----------------------------
EXTENDS StreamSystem
=============================================================================
