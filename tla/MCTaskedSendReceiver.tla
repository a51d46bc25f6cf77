------------------------ MODULE MCTaskedSendReceiver ------------------------
(***************************************************************************)
(* Instance of TaskedSendReceiver for TLC.                                 *)
(***************************************************************************)
EXTENDS TaskedSendReceiver, TLC

Symmetry == Permutations(Messages) \cup Permutations(Receivers)

=============================================================================
