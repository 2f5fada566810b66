---------------------------- MODULE MCDnsForward ----------------------------
(* Two hosts that may ask for the same name, two servers and the proxy.    *)
EXTENDS DnsForward, TLC
MCSymmetry == Permutations(Host) \cup Permutations(Name)
=============================================================================
