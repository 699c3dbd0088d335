----------------------------- MODULE MCUDPServer -----------------------------
EXTENDS UDPServer, TLC
=============================================================================
