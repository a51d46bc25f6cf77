--------------------------- MODULE MCAWSCredentials ---------------------------
(***************************************************************************)
(* Instance of AWSCredentials for TLC.                                     *)
(***************************************************************************)
EXTENDS AWSCredentials, TLC
=============================================================================
