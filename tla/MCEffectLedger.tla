--------------------------- MODULE MCEffectLedger ---------------------------
(* Instances of EffectLedger for TLC: attempts are interchangeable.        *)
EXTENDS EffectLedger, TLC

Symmetry == Permutations(Attempts)

=============================================================================
