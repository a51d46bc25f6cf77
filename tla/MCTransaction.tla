--------------------------- MODULE MCTransaction ---------------------------
(***************************************************************************)
(* Instance of Transaction for TLC.                                        *)
(***************************************************************************)
EXTENDS Transaction, TLC

ReceiverSymmetry == Permutations(Receivers)

=============================================================================
