------------------------------- MODULE MCUDPTun -------------------------------
EXTENDS UDPTun
=============================================================================
