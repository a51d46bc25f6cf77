----------------------------- MODULE RingBuffer -----------------------------
(***************************************************************************)
(* utils::RingBuffer (include/utils/ring_buffer.hpp), the queue between    *)
(* user threads and the receivers of a TaskedSendReceiverGroup.            *)
(*                                                                         *)
(* One action per shared-memory access: the two atomic counters of a side, *)
(* its spin mutex, and each slot of the buffer.  The insert side and the   *)
(* seen side have the same shape, so they are indexed by Sides; insert()   *)
(* is insertAll() of a span of one (HasRoom is then the same condition).   *)
(* Every atomic is modelled as sequentially consistent: the counters of a  *)
(* side are written under its mutex and published by a release operation.  *)
(***************************************************************************)
EXTENDS QueueOperations

CONSTANT MaxInserts  \* bound: no insert is called once this many slots are reserved

ASSUME MaxInsertsAssumption == MaxInserts \in Nat

Sides == {"insert", "seen"}

VARIABLES
  buffer,    \* _buffer
  pending,   \* _insert.pending, _seen.pending
  commited,  \* _insert.commited, _seen.commited
  mutex,     \* _insert.mutex, _seen.mutex: TRUE while the bit is set
  pc,        \* where each thread is
  op,        \* the operation it is in
  other,     \* the counter it loaded from the other side (seenHead, curInsert)
  own,       \* the counter it loaded from its own side (curInsert, curSeen)
  off,       \* the slots of the batch already written
  val,       \* the value read from the slot
  ok         \* whether the attempt succeeded; for empty() its answer

sides == <<pending, commited, mutex>>
locals == <<other, own, off, val, ok>>
vars == <<buffer, sides, pc, op, locals>>

Side(t) == IF op[t].kind = "insert" THEN "insert" ELSE "seen"
OtherSide(t) == IF op[t].kind = "insert" THEN "seen" ELSE "insert"

\* The number of slots an operation takes on its side.
Amount(t) == IF op[t].kind = "insert" THEN Len(op[t].batch) ELSE 1

\* Mutant: one element too many is let in.
HasRoomOffByOne(cur, head, n) == Size >= n /\ cur - head <= Size + 1 - n

\* Whether n more elements fit, given the reserved end and the loaded head.
HasRoom(cur, head, n) == Size >= n /\ cur - head < Size + 1 - n

\* Whether an element past cur is committed, given the loaded insert counter.
HasElement(cur, inserted) == inserted > cur

Admits(t, cur, loaded) ==
  IF op[t].kind = "insert" THEN HasRoom(cur, loaded, Len(op[t].batch))
                           ELSE HasElement(cur, loaded)

Slot(position) == position % Size

Init ==
  /\ buffer = [i \in 0 .. Size - 1 |-> NoValue]
  /\ pending = [s \in Sides |-> 0]
  /\ commited = [s \in Sides |-> 0]
  /\ mutex = [s \in Sides |-> FALSE]
  /\ pc = [t \in Threads |-> "idle"]
  /\ op = [t \in Threads |-> Idle]
  /\ other = [t \in Threads |-> 0]
  /\ own = [t \in Threads |-> 0]
  /\ off = [t \in Threads |-> 0]
  /\ val = [t \in Threads |-> NoValue]
  /\ ok = [t \in Threads |-> FALSE]

Goto(t, from, to) ==
  /\ pc[t] = from
  /\ pc' = [pc EXCEPT ![t] = to]

Call(t) ==
  /\ \E o \in Operations :
       /\ o.kind = "insert" => pending["insert"] < MaxInserts
       /\ op' = [op EXCEPT ![t] = o]
       /\ Goto(t, "idle", IF o.kind = "empty" THEN "loadInsert" ELSE "lock")
  /\ UNCHANGED <<buffer, sides, locals>>

\* Mutant: the bit is stored without being compared.
LockUnguarded(t) ==
  /\ Goto(t, "lock", "loadOther")
  /\ mutex' = [mutex EXCEPT ![Side(t)] = TRUE]
  /\ UNCHANGED <<buffer, pending, commited, op, locals>>

\* The compare-exchange that finds the bit clear; a failed one spins.
Lock(t) ==
  /\ Goto(t, "lock", "loadOther")
  /\ ~ mutex[Side(t)]
  /\ mutex' = [mutex EXCEPT ![Side(t)] = TRUE]
  /\ UNCHANGED <<buffer, pending, commited, op, locals>>

\* Mutant: the reservations of the other side are taken for its progress.
LoadOtherPending(t) ==
  /\ Goto(t, "loadOther", "loadOwn")
  /\ other' = [other EXCEPT ![t] = pending[OtherSide(t)]]
  /\ UNCHANGED <<buffer, sides, op, own, off, val, ok>>

\* insert reads how far the readers are, consume how far the writers are.
LoadOther(t) ==
  /\ Goto(t, "loadOther", "loadOwn")
  /\ other' = [other EXCEPT ![t] = commited[OtherSide(t)]]
  /\ UNCHANGED <<buffer, sides, op, own, off, val, ok>>

\* Load the own counter and test for room or for an element.
LoadOwn(t) ==
  LET cur == pending[Side(t)] IN
  /\ Goto(t, "loadOwn", IF Admits(t, cur, other[t]) THEN "reserve" ELSE "unlock")
  /\ own' = [own EXCEPT ![t] = cur]
  /\ ok' = [ok EXCEPT ![t] = Admits(t, cur, other[t])]
  /\ UNCHANGED <<buffer, sides, op, other, off, val>>

Reserve(t) ==
  /\ Goto(t, "reserve", IF op[t].kind = "insert" THEN "write" ELSE "read")
  /\ pending' = [pending EXCEPT ![Side(t)] = @ + Amount(t)]
  /\ off' = [off EXCEPT ![t] = 0]
  /\ UNCHANGED <<buffer, commited, mutex, op, other, own, val, ok>>

WriteSlot(t) ==
  /\ pc[t] = "write"
  /\ off[t] < Amount(t)
  /\ buffer' = [buffer EXCEPT ![Slot(own[t] + off[t])] = op[t].batch[off[t] + 1]]
  /\ off' = [off EXCEPT ![t] = @ + 1]
  /\ UNCHANGED <<sides, pc, op, other, own, val, ok>>

ReadSlot(t) ==
  /\ Goto(t, "read", "commit")
  /\ val' = [val EXCEPT ![t] = buffer[Slot(own[t])]]
  /\ UNCHANGED <<buffer, sides, op, other, own, off, ok>>

\* Publish the batch, or give the slot back: the step at which the call counts.
Commit(t) ==
  /\ \/ Goto(t, "commit", "unlock")
     \/ Goto(t, "write", "unlock") /\ off[t] = Amount(t)
  /\ commited' = [commited EXCEPT ![Side(t)] = @ + Amount(t)]
  /\ UNCHANGED <<buffer, pending, mutex, op, locals>>

\* Mutant: the early return of a failed attempt keeps the mutex.
UnlockOnSuccess(t) ==
  /\ Goto(t, "unlock", IF op[t].wait /\ ~ ok[t] THEN "lock" ELSE "return")
  /\ mutex' = [mutex EXCEPT ![Side(t)] = ~ ok[t]]
  /\ other' = [other EXCEPT ![t] = 0]
  /\ own' = [own EXCEPT ![t] = 0]
  /\ off' = [off EXCEPT ![t] = 0]
  /\ UNCHANGED <<buffer, pending, commited, op, val, ok>>

\* Mutant: every failed attempt is retried, whether the call waits or not.
UnlockAlwaysRetry(t) ==
  /\ Goto(t, "unlock", IF ~ ok[t] THEN "lock" ELSE "return")
  /\ mutex' = [mutex EXCEPT ![Side(t)] = FALSE]
  /\ other' = [other EXCEPT ![t] = 0]
  /\ own' = [own EXCEPT ![t] = 0]
  /\ off' = [off EXCEPT ![t] = 0]
  /\ UNCHANGED <<buffer, pending, commited, op, val, ok>>

\* The guard leaves its scope, the attempt's locals with it: the caller returns,
\* or a waiting one tries again.
Unlock(t) ==
  /\ Goto(t, "unlock", IF op[t].wait /\ ~ ok[t] THEN "lock" ELSE "return")
  /\ mutex' = [mutex EXCEPT ![Side(t)] = FALSE]
  /\ other' = [other EXCEPT ![t] = 0]
  /\ own' = [own EXCEPT ![t] = 0]
  /\ off' = [off EXCEPT ![t] = 0]
  /\ UNCHANGED <<buffer, pending, commited, op, val, ok>>

\* Mutant: empty() counts slots that are reserved and not yet published.
LoadInsertPending(t) ==
  /\ Goto(t, "loadInsert", "loadSeen")
  /\ other' = [other EXCEPT ![t] = pending["insert"]]
  /\ UNCHANGED <<buffer, sides, op, own, off, val, ok>>

\* empty() loads the two counters without any mutex.
LoadInsert(t) ==
  /\ Goto(t, "loadInsert", "loadSeen")
  /\ other' = [other EXCEPT ![t] = commited["insert"]]
  /\ UNCHANGED <<buffer, sides, op, own, off, val, ok>>

LoadSeen(t) ==
  /\ Goto(t, "loadSeen", "return")
  /\ ok' = [ok EXCEPT ![t] = (other[t] = commited["seen"])]
  /\ other' = [other EXCEPT ![t] = 0]
  /\ UNCHANGED <<buffer, sides, op, own, off, val>>

Return(t) ==
  /\ Goto(t, "return", "idle")
  /\ op' = [op EXCEPT ![t] = Idle]
  /\ val' = [val EXCEPT ![t] = NoValue]
  /\ ok' = [ok EXCEPT ![t] = FALSE]
  /\ UNCHANGED <<buffer, sides, other, own, off>>

\* What a thread does once it has called; the steps its scheduler owes it.
Step(t) ==
  \/ Lock(t)
  \/ LoadOther(t)
  \/ LoadOwn(t)
  \/ Reserve(t)
  \/ WriteSlot(t)
  \/ ReadSlot(t)
  \/ Commit(t)
  \/ Unlock(t)
  \/ LoadInsert(t)
  \/ LoadSeen(t)
  \/ Return(t)

Next == \E t \in Threads : Call(t) \/ Step(t)

Spec == Init /\ [][Next]_vars

\* A thread that is in a call is scheduled; nobody is obliged to call.
FairSpec == Spec /\ \A t \in Threads : WF_vars(Step(t))

-----------------------------------------------------------------------------

Places == {"idle", "lock", "loadOther", "loadOwn", "reserve", "write", "read",
           "commit", "unlock", "loadInsert", "loadSeen", "return"}

\* Every variable holds a value of its type: the uint64_t counters, the
\* std::atomic<bool> of SpinMutex and the T slots of ring_buffer.hpp.
TypeOK ==
  /\ buffer \in [0 .. Size - 1 -> Values \cup {NoValue}]
  /\ pending \in [Sides -> Nat]
  /\ commited \in [Sides -> Nat]
  /\ mutex \in [Sides -> BOOLEAN]
  /\ pc \in [Threads -> Places]
  /\ op \in [Threads -> Operations \cup {Idle}]
  /\ other \in [Threads -> Nat]
  /\ own \in [Threads -> Nat]
  /\ off \in [Threads -> Nat]
  /\ val \in [Threads -> Values \cup {NoValue}]
  /\ ok \in [Threads -> BOOLEAN]

Holds(t) == pc[t] \in {"loadOther", "loadOwn", "reserve", "write", "read", "commit", "unlock"}

\* At most one thread is inside the critical section of a side: the spin
\* mutex excludes every other insert (or consume), waiting ones included.
MutualExclusion ==
  \A t, u \in Threads :
    Holds(t) /\ Holds(u) /\ Side(t) = Side(u) => t = u

\* No slot is written while a consumer copies out of it.  The sides have no
\* mutex in common: only the counters keep a producer off the slot, and only
\* because insert compares with the seen side's commited, not its pending.
NoSlotRace ==
  \A t, u \in Threads :
    pc[t] = "write" /\ off[t] < Amount(t) /\ pc[u] = "read" =>
      Slot(own[t] + off[t]) # Slot(own[u])

\* curInsert - seenHead is an unsigned subtraction of two loads made at
\* different moments: it must never wrap below zero.
NoWrap ==
  \A t \in Threads :
    pc[t] = "loadOwn" /\ op[t].kind = "insert" => other[t] <= pending["insert"]

-----------------------------------------------------------------------------
(* The inductive invariant behind these properties. *)

\* A thread that has reserved slots and not yet published them.
Working(t) == pc[t] \in {"write", "read", "commit"}

\* Where a thread may be in which operation.
ControlOf(t) ==
  /\ pc[t] = "idle" <=> op[t] = Idle
  /\ pc[t] \in {"loadInsert", "loadSeen"} => op[t].kind = "empty"
  /\ Holds(t) \/ pc[t] = "lock" => op[t].kind \in {"insert", "consume"}
  /\ pc[t] = "write" => op[t].kind = "insert"
  /\ pc[t] \in {"read", "commit"} => op[t].kind = "consume"
  /\ pc[t] = "reserve" \/ Working(t) => ok[t]
  /\ pc[t] = "return" => ok[t] \/ ~ op[t].wait

ControlOK == \A t \in Threads : ControlOf(t)

\* Holding a side's mutex is exclusive, and recorded in its bit.
MutexOK ==
  /\ MutualExclusion
  /\ \A t \in Threads : Holds(t) => mutex[Side(t)]

\* The order of the four counters, and the room between them.
CountersOK ==
  /\ commited["seen"] <= pending["seen"]
  /\ pending["seen"] <= commited["insert"]
  /\ commited["insert"] <= pending["insert"]
  /\ pending["insert"] <= commited["seen"] + Size
  /\ \A s \in Sides :
       pending[s] = commited[s] \/ \E t \in Threads : Working(t) /\ Side(t) = s

\* What a thread's locals still say of the counters it loaded.
LocalsOf(t) ==
  /\ pc[t] \in {"loadOwn", "reserve"} => other[t] <= commited[OtherSide(t)]
  /\ pc[t] = "reserve" => own[t] = pending[Side(t)] /\ Admits(t, own[t], other[t])
  /\ Working(t) => own[t] = commited[Side(t)] /\ pending[Side(t)] = own[t] + Amount(t)
  /\ pc[t] = "write" => off[t] <= Amount(t)

LocalsOK == \A t \in Threads : LocalsOf(t)

\* What the slots hold: the written part of a batch, the element a consumer
\* has just copied, and the published elements.
CopiesOf(t) ==
  /\ pc[t] = "write" =>
       \A k \in 0 .. off[t] - 1 : buffer[Slot(own[t] + k)] = op[t].batch[k + 1]
  /\ pc[t] = "commit" => val[t] = buffer[Slot(own[t])]

SlotsOK ==
  /\ \A i \in commited["seen"] .. commited["insert"] - 1 : buffer[Slot(i)] \in Values
  /\ \A t \in Threads : CopiesOf(t)

\* A waiting reader or writer never sees a state outside these relations: the
\* counters, mutexes, slots and every thread's locals agree at all times.
Invariant ==
  /\ TypeOK
  /\ ControlOK
  /\ MutexOK
  /\ CountersOK
  /\ LocalsOK
  /\ SlotsOK

-----------------------------------------------------------------------------
(* The queue that the ring buffer implements. *)

\* What is published and not yet consumed.
Contents ==
  [k \in 1 .. commited["insert"] - commited["seen"] |->
     buffer[Slot(commited["seen"] + k - 1)]]

\* A failing attempt is decided when it loads the other side's counter: it
\* holds its side's mutex, so its own counter can no longer move.
Failing(t) ==
  \/ pc[t] = "loadOwn" /\ ~ Admits(t, pending[Side(t)], other[t])
  \/ pc[t] \in {"unlock", "return"} /\ ~ ok[t]

HasAnswer(t) ==
  \/ Failing(t) /\ ~ op[t].wait
  \/ pc[t] \in {"unlock", "return"} /\ ok[t]

AnswerOf(t) ==
  [decided |-> HasAnswer(t),
   ok |-> HasAnswer(t) /\ ~ Failing(t),
   val |-> IF HasAnswer(t) /\ ~ Failing(t) /\ op[t].kind = "consume" THEN val[t] ELSE NoValue]

Answers == [t \in Threads |-> AnswerOf(t)]

Queue == INSTANCE BoundedQueue WITH queue <- Contents, call <- op, answer <- Answers

\* insert, insertAll and consume implement the linearizable bounded FIFO queue
\* of BoundedQueue: nothing is lost, duplicated or reordered, a batch is taken
\* as a whole, and a call gives up only when the queue was full (or empty).
ImplementsQueue == Queue!Spec

\* A spin mutex is always given back, on the early return of a full or empty
\* queue and between the attempts of a waiting call as well; and a call that
\* does not wait is never stuck behind a full or an empty queue: once it holds
\* the mutex it returns.
CallsReturn ==
  /\ \A s \in Sides : mutex[s] ~> ~ mutex[s]
  /\ \A t \in Threads : (Holds(t) /\ ~ op[t].wait) ~> pc[t] = "idle"

=============================================================================
