--------------------------- MODULE QueueOperations ---------------------------
(***************************************************************************)
(* The calls of the RingBuffer's interface, shared by the queue it         *)
(* promises (BoundedQueue) and the queue it is (RingBuffer).               *)
(***************************************************************************)
EXTENDS Integers, Sequences

CONSTANTS
  Threads,  \* the threads that share the queue
  Values,   \* the elements
  NoValue,  \* the value part of an answer that carries none
  Batches,  \* the spans a thread may insert (a single tuple is a span of one)
  Size      \* the capacity

ASSUME QueueAssumption ==
  /\ Size \in Nat \ {0}
  /\ Batches \subseteq Seq(Values)
  /\ NoValue \notin Values

\* insert and insertAll; the wait flag is the functions' template parameter.
Inserts  == [kind : {"insert"}, batch : Batches, wait : BOOLEAN]
Consumes == [kind : {"consume"}, batch : {<<>>}, wait : BOOLEAN]
Empties  == [kind : {"empty"}, batch : {<<>>}, wait : {FALSE}]
Operations == Inserts \cup Consumes \cup Empties

Idle == [kind |-> "idle", batch |-> <<>>, wait |-> FALSE]

=============================================================================
