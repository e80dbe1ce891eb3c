----------------------------- MODULE MCMttHead -----------------------------
(* Finite values for MttHead.  The senders are interchangeable, which the  *)
(* safety runs use; symmetry is not used where liveness is checked.        *)
EXTENDS MttHead, TLC

SenderSymmetry == Permutations(Senders)
=============================================================================
