--------------------------- MODULE RingBufferEmpty ---------------------------
(***************************************************************************)
(* What the answer of RingBuffer::empty() is worth.  It loads the two      *)
(* counters one after the other without a mutex; this module remembers     *)
(* what was true while the call lasted and compares it with the answer.    *)
(***************************************************************************)
EXTENDS RingBuffer

VARIABLE observed  \* for each thread in empty(): was the queue empty, so far

IsEmpty == commited["insert"] = commited["seen"]

ObserveInit ==
  /\ Init
  /\ observed = [t \in Threads |-> {}]

\* A call observes every state from its invocation to its last load.
Observe ==
  observed' =
    [t \in Threads |->
       IF pc'[t] \in {"loadInsert", "loadSeen"} THEN observed[t] \cup {IsEmpty'}
       ELSE IF pc'[t] = "return" THEN observed[t] ELSE {}]

ObserveNext == Next /\ Observe

ObserveStep(t) == Step(t) /\ Observe

\* The fairness of FairSpec.
ObserveSpec ==
  /\ ObserveInit
  /\ [][ObserveNext]_<<vars, observed>>
  /\ \A t \in Threads : WF_<<vars, observed>>(ObserveStep(t))

EmptyAnswered(t) == op[t].kind = "empty" /\ pc[t] = "return"

\* When empty() says there is something, there was something at some moment
\* of the call (a receiver that polls with it is never sent off in vain).
NonEmptyAnswerIsTrue ==
  \A t \in Threads : EmptyAnswered(t) /\ ~ ok[t] => FALSE \in observed[t]

=============================================================================
