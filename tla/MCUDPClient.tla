----------------------------- MODULE MCUDPClient -----------------------------
EXTENDS UDPClient, TLC
MCConns == 1..MaxConns
=============================================================================
