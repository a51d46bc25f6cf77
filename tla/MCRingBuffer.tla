---------------------------- MODULE MCRingBuffer ----------------------------
(***************************************************************************)
(* Instance of RingBuffer, with the observation of empty(), for TLC: spans *)
(* that fit, that fill the buffer, and that are too large for it.          *)
(***************************************************************************)
EXTENDS RingBufferEmpty

CONSTANTS a, b

MCBatches == {<<a>>, <<a, b>>, <<b, a, b>>}

=============================================================================
