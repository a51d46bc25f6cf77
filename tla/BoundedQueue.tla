---------------------------- MODULE BoundedQueue ----------------------------
(***************************************************************************)
(* What a user of the RingBuffer relies on: a linearizable FIFO queue of   *)
(* at most Size elements.  Every call takes effect in one step between its *)
(* invocation and its return: a batch is inserted as a whole or not at     *)
(* all, a call that does not wait fails only when the queue has no room    *)
(* (or no element) at that step, and a call that waits never fails.        *)
(* empty() promises no answer: RingBufferEmpty says what its answer is     *)
(* worth.                                                                  *)
(***************************************************************************)
EXTENDS QueueOperations

VARIABLES
  queue,  \* the elements inserted and not yet consumed, oldest first
  call,   \* the operation a thread is in, or Idle
  answer  \* what the operation decided, or Undecided

vars == <<queue, call, answer>>

Undecided == [decided |-> FALSE, ok |-> FALSE, val |-> NoValue]
Decided(ok, val) == [decided |-> TRUE, ok |-> ok, val |-> val]

TypeOK ==
  /\ queue \in Seq(Values)
  /\ Len(queue) <= Size
  /\ call \in [Threads -> Operations \cup {Idle}]
  /\ answer \in [Threads -> [decided : BOOLEAN, ok : BOOLEAN, val : Values \cup {NoValue}]]

Init ==
  /\ queue = <<>>
  /\ call = [t \in Threads |-> Idle]
  /\ answer = [t \in Threads |-> Undecided]

Call(t) ==
  /\ call[t] = Idle
  /\ \E o \in Operations : call' = [call EXCEPT ![t] = o]
  /\ UNCHANGED <<queue, answer>>

Answer(t, kind, ok, val) ==
  /\ call[t].kind = kind
  /\ answer[t] = Undecided
  /\ answer' = [answer EXCEPT ![t] = Decided(ok, val)]
  /\ UNCHANGED call

Insert(t) ==
  /\ Answer(t, "insert", TRUE, NoValue)
  /\ Len(queue) + Len(call[t].batch) <= Size
  /\ queue' = queue \o call[t].batch

InsertFull(t) ==
  /\ Answer(t, "insert", FALSE, NoValue)
  /\ ~ call[t].wait
  /\ Len(queue) + Len(call[t].batch) > Size
  /\ UNCHANGED queue

Consume(t) ==
  /\ queue # <<>>
  /\ Answer(t, "consume", TRUE, Head(queue))
  /\ queue' = Tail(queue)

ConsumeEmpty(t) ==
  /\ queue = <<>>
  /\ Answer(t, "consume", FALSE, NoValue)
  /\ ~ call[t].wait
  /\ UNCHANGED queue

Empty(t) ==
  /\ \E ok \in BOOLEAN : Answer(t, "empty", ok, NoValue)
  /\ UNCHANGED queue

Return(t) ==
  /\ answer[t].decided
  /\ call' = [call EXCEPT ![t] = Idle]
  /\ answer' = [answer EXCEPT ![t] = Undecided]
  /\ UNCHANGED queue

Next ==
  \E t \in Threads :
    \/ Call(t)
    \/ Insert(t)
    \/ InsertFull(t)
    \/ Consume(t)
    \/ ConsumeEmpty(t)
    \/ Empty(t)
    \/ Return(t)

Spec == Init /\ [][Next]_vars

=============================================================================
