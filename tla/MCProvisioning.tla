--------------------------- MODULE MCProvisioning ---------------------------
(* Instances of Provisioning for TLC. *)
EXTENDS Provisioning, TLC

CONSTANTS k1, k2, a1, a2, b1

\* Two tabs with one request, and another request of the same account.
KeysHere == a1 :> k1 @@ a2 :> k1 @@ b1 :> k2
=============================================================================
