----------------------------- MODULE MCDelivery -----------------------------
(* Small instances of RelayDelivery: two recipients, two attempts.           *)
EXTENDS RelayDelivery

CONSTANTS r1, r2
=============================================================================
