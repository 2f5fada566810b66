---------------------------- MODULE MCDhcpClient ----------------------------
EXTENDS DhcpClient, TLC
CONSTANTS a1, a2
=============================================================================
