-------------------------- MODULE MCConnectionCache --------------------------
(***************************************************************************)
(* Instance of ConnectionCache for TLC.                                    *)
(***************************************************************************)
EXTENDS ConnectionCache

MCEndpoints == {<<443, TRUE>>}

\* A timestamp that is never in use.
MCGarbage == {99}

=============================================================================
