------------------------------ MODULE MCKCPMux ------------------------------
EXTENDS KCPMux
=============================================================================
