---------------------------- MODULE MCDhcpLeases ----------------------------
EXTENDS DhcpLeases, TLC
CONSTANTS c1, c2, c3
MCStatic == <<[ch |-> c3, ip |-> 12]>>
=============================================================================
