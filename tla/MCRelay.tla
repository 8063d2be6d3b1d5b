------------------------------ MODULE MCRelay ------------------------------
(* Small instances of RelayIngress: two personas and a malformed key.       *)
EXTENDS RelayIngress, TLC

CONSTANTS k1, k2, bad, s1, s2

Interchange == Permutations(Key \ Malformed) \cup Permutations(Socket)
=============================================================================
