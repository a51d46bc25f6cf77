-------------------------- MODULE RingBuffer_proofs --------------------------
(***************************************************************************)
(* Proofs about RingBuffer, for every number of threads, capacity, set of  *)
(* values and set of batches.                                              *)
(***************************************************************************)
EXTENDS RingBufferEmpty, SequenceTheorems, TLAPS

-----------------------------------------------------------------------------
(* Arithmetic of slots. *)

\* Two positions less than Size apart are in different slots.
LEMMA SlotsDiffer ==
  ASSUME NEW i \in Nat, NEW j \in Nat, i < j, j < i + Size
  PROVE  Slot(i) # Slot(j)
<1> DEFINE qi == i \div Size
           qj == j \div Size
<1>1. Size \in Nat \ {0}
  BY QueueAssumption
<1>2. /\ qi \in Nat
      /\ i % Size \in Nat
      /\ i = Size * qi + (i % Size)
  BY <1>1, SMT
<1>3. /\ qj \in Nat
      /\ j % Size \in Nat
      /\ j = Size * qj + (j % Size)
  BY <1>1, SMT
<1> HIDE DEF qi, qj
<1> SUFFICES ASSUME i % Size = j % Size PROVE FALSE
  BY DEF Slot
<1>4. /\ 0 < Size * qj - Size * qi
      /\ Size * qj - Size * qi < Size
  BY <1>1, <1>2, <1>3, SMT
<1>5. Size * qj - Size * qi = Size * (qj - qi)
  BY <1>1, <1>2, <1>3, SMT
<1>6. CASE qj - qi <= 0
  BY <1>1, <1>2, <1>3, <1>4, <1>5, <1>6, SMT
<1>7. CASE qj - qi >= 1
  BY <1>1, <1>2, <1>3, <1>4, <1>5, <1>7, SMT
<1> QED BY <1>2, <1>3, <1>6, <1>7, SMT

\* A slot is one of the buffer's.
LEMMA SlotInBuffer ==
  ASSUME NEW i \in Nat
  PROVE  Slot(i) \in 0 .. Size - 1
BY QueueAssumption, SMT DEF Slot

-----------------------------------------------------------------------------
(* Types. *)

\* The fields of an operation.
LEMMA OperationFields ==
  ASSUME NEW o \in Operations \cup {Idle}
  PROVE  /\ o.kind \in {"insert", "consume", "empty", "idle"}
         /\ o.kind = "idle" <=> o = Idle
         /\ o.wait \in BOOLEAN
         /\ o.batch \in Seq(Values)
         /\ o.kind = "insert" => o.batch \in Batches
<1>1. CASE o \in Inserts
  BY <1>1, QueueAssumption DEF Inserts, Idle
<1>2. CASE o \in Consumes \cup Empties
  <2>1. o.batch = <<>> /\ o.wait \in BOOLEAN /\ o.kind \in {"consume", "empty"}
    BY <1>2 DEF Consumes, Empties
  <2>2. <<>> \in Seq(Values)
    OBVIOUS
  <2> QED BY <2>1, <2>2 DEF Idle
<1>4. CASE o = Idle
  <2>1. o.batch = <<>> /\ o.wait = FALSE /\ o.kind = "idle"
    BY <1>4 DEF Idle
  <2>2. <<>> \in Seq(Values)
    OBVIOUS
  <2> QED BY <1>4, <2>1, <2>2
<1> QED BY <1>1, <1>2, <1>4 DEF Operations

LEMMA OperationKind ==
  ASSUME NEW o \in Operations
  PROVE  o # Idle /\ o.kind \in {"insert", "consume", "empty"}
<1>1. o.kind \in {"insert", "consume", "empty"}
  BY DEF Operations, Inserts, Consumes, Empties
<1>2. Idle.kind = "idle"
  BY DEF Idle
<1> QED BY <1>1, <1>2

\* What the types say of a thread: its side and the size of its request.
LEMMA ThreadTypes ==
  ASSUME TypeOK, NEW t \in Threads
  PROVE  /\ op[t] \in Operations \cup {Idle}
         /\ Side(t) \in Sides
         /\ OtherSide(t) \in Sides
         /\ Amount(t) \in Nat
         /\ op[t].batch \in Seq(Values)
         /\ Admits(t, pending[Side(t)], other[t]) \in BOOLEAN
<1>1. op[t] \in Operations \cup {Idle}
  BY DEF TypeOK
<1>2. op[t].batch \in Seq(Values)
  BY <1>1, OperationFields
<1>3. Amount(t) \in Nat
  BY <1>2 DEF Amount
<1>4. Side(t) \in Sides /\ OtherSide(t) \in Sides
  BY DEF Side, OtherSide, Sides
<1>5. Admits(t, pending[Side(t)], other[t]) \in BOOLEAN
  <2>1. CASE op[t].kind = "insert"
    BY <2>1 DEF Admits, HasRoom
  <2>2. CASE op[t].kind # "insert"
    BY <2>2 DEF Admits, HasElement
  <2> QED BY <2>1, <2>2
<1> QED BY <1>1, <1>2, <1>3, <1>4, <1>5

\* Every variable keeps its type.
LEMMA TypeInit == Init => TypeOK
BY QueueAssumption DEF Init, TypeOK, Sides, Places, Operations

LEMMA TypeStep == TypeOK /\ ControlOK /\ [Next]_vars => TypeOK'
<1> SUFFICES ASSUME TypeOK, ControlOK, [Next]_vars PROVE TypeOK'
  OBVIOUS
<1> USE DEF TypeOK, Places, vars, sides, locals, Goto
<1>1. CASE UNCHANGED vars
  BY <1>1
<1>2. ASSUME NEW t \in Threads, Call(t) PROVE TypeOK'
  BY <1>2 DEF Call
<1>3. ASSUME NEW t \in Threads, Step(t) PROVE TypeOK'
  <2>0. /\ op[t] \in Operations \cup {Idle}
        /\ Side(t) \in Sides
        /\ OtherSide(t) \in Sides
        /\ Amount(t) \in Nat
        /\ op[t].batch \in Seq(Values)
        /\ Admits(t, pending[Side(t)], other[t]) \in BOOLEAN
    BY ThreadTypes
  <2>1. CASE Lock(t)
    BY <2>0, <2>1 DEF Lock
  <2>2. CASE LoadOther(t)
    BY <2>0, <2>2 DEF LoadOther
  <2>3. CASE LoadOwn(t)
    BY <2>0, <2>3 DEF LoadOwn
  <2>4. CASE Reserve(t)
    BY <2>0, <2>4 DEF Reserve
  <2>5. CASE WriteSlot(t)
    <3>1. op[t].batch[off[t] + 1] \in Values
      <4>1. off[t] \in Nat /\ off[t] < Len(op[t].batch)
        BY <2>5 DEF WriteSlot, Amount, ControlOK, ControlOf
      <4> QED BY <2>0, <4>1
    <3>2. buffer' \in [0 .. Size - 1 -> Values \cup {NoValue}]
      BY <2>5, <3>1 DEF WriteSlot
    <3>3. off' \in [Threads -> Nat]
      BY <2>5 DEF WriteSlot
    <3> QED BY <2>5, <3>2, <3>3 DEF WriteSlot
  <2>6. CASE ReadSlot(t)
    <3>1. Slot(own[t]) \in 0 .. Size - 1
      BY SlotInBuffer DEF TypeOK
    <3> QED BY <2>0, <2>6, <3>1 DEF ReadSlot
  <2>7. CASE Commit(t)
    <3>1. pc' \in [Threads -> Places]
      BY <2>7 DEF Commit
    <3>2. commited' \in [Sides -> Nat]
      BY <2>0, <2>7 DEF Commit
    <3> QED BY <2>7, <3>1, <3>2 DEF Commit
  <2>8. CASE Unlock(t)
    BY <2>0, <2>8 DEF Unlock
  <2>9. CASE LoadInsert(t)
    BY <2>0, <2>9 DEF LoadInsert, Sides
  <2>10. CASE LoadSeen(t)
    BY <2>0, <2>10 DEF LoadSeen
  <2>11. CASE Return(t)
    BY <2>0, <2>11 DEF Return
  <2> QED
    BY <1>3, <2>1, <2>2, <2>3, <2>4, <2>5, <2>6, <2>7, <2>8, <2>9, <2>10, <2>11 DEF Step
<1> HIDE DEF TypeOK, Places, vars, sides, locals, Goto
<1>4. (\E t \in Threads : Call(t) \/ Step(t)) \/ UNCHANGED vars
  BY DEF Next
<1> QED BY ONLY <1>1, <1>2, <1>3, <1>4

-----------------------------------------------------------------------------
(* Control. *)

\* A call of empty() does not wait.
LEMMA EmptyFields ==
  ASSUME NEW o \in Operations \cup {Idle}, o.kind = "empty"
  PROVE  o # Idle /\ ~ o.wait
<1>1. o # Idle
  BY DEF Idle
<1>2. o \notin Inserts /\ o \notin Consumes
  BY DEF Inserts, Consumes
<1>3. o \in Empties
  BY <1>1, <1>2 DEF Operations
<1>4. o.wait \in {FALSE}
  BY ONLY <1>3, Zenon DEF Empties
<1> QED BY <1>1, <1>4

LEMMA ControlInit == Init => ControlOK
<1> SUFFICES ASSUME Init PROVE ControlOK
  OBVIOUS
<1>1. \A t \in Threads : pc[t] = "idle" /\ op[t].kind = "idle"
  BY DEF Init, Idle
<1>2. \A t \in Threads : ~ Holds(t) /\ ~ Working(t)
  BY <1>1 DEF Holds, Working
<1> QED BY <1>1, <1>2 DEF Init, ControlOK, ControlOf

LEMMA ControlStep == TypeOK /\ ControlOK /\ [Next]_vars => ControlOK'
<1> SUFFICES ASSUME TypeOK, ControlOK, [Next]_vars, NEW u \in Threads
             PROVE  ControlOf(u)'
  BY DEF ControlOK
<1> ControlOf(u)
  BY DEF ControlOK
<1>1. CASE UNCHANGED vars
  BY <1>1 DEF ControlOf, Holds, Working, vars, locals
<1>2. ASSUME NEW t \in Threads, Call(t) PROVE ControlOf(u)'
  <2>1. PICK o \in Operations :
          /\ op' = [op EXCEPT ![t] = o]
          /\ Goto(t, "idle", IF o.kind = "empty" THEN "loadInsert" ELSE "lock")
    BY <1>2 DEF Call
  <2>2. o # Idle /\ o.kind \in {"insert", "consume", "empty"}
    BY OperationKind
  <2> QED
    BY <1>2, <2>1, <2>2 DEF Call, ControlOf, Holds, Working, Goto, TypeOK, locals
<1>3. ASSUME NEW t \in Threads, Step(t) PROVE ControlOf(u)'
  <2>0. ControlOf(t) /\ op[t] \in Operations \cup {Idle}
    BY DEF ControlOK, TypeOK
  <2> USE DEF ControlOf, Holds, Working, Goto, TypeOK, locals
  <2>1. CASE Lock(t)
    BY <2>0, <2>1 DEF Lock
  <2>2. CASE LoadOther(t)
    BY <2>0, <2>2 DEF LoadOther
  <2>3. CASE LoadOwn(t)
    BY <2>0, <2>3 DEF LoadOwn
  <2>4. CASE Reserve(t)
    BY <2>0, <2>4 DEF Reserve
  <2>5. CASE WriteSlot(t)
    BY <2>0, <2>5 DEF WriteSlot
  <2>6. CASE ReadSlot(t)
    BY <2>0, <2>6 DEF ReadSlot
  <2>7. CASE Commit(t)
    BY <2>0, <2>7 DEF Commit
  <2>8. CASE Unlock(t)
    BY <2>0, <2>8 DEF Unlock
  <2>9. CASE LoadInsert(t)
    BY <2>0, <2>9 DEF LoadInsert
  <2>10. CASE LoadSeen(t)
    <3>1. op' = op /\ op[t].kind = "empty"
      BY <2>0, <2>10 DEF LoadSeen
    <3>2. op[t] # Idle /\ ~ op[t].wait
      BY ONLY <2>0, <3>1, EmptyFields
    <3> QED BY <2>0, <2>10, <3>1, <3>2 DEF LoadSeen
  <2>11. CASE Return(t)
    BY <2>0, <2>11 DEF Return, Idle
  <2> QED
    BY <1>3, <2>1, <2>2, <2>3, <2>4, <2>5, <2>6, <2>7, <2>8, <2>9, <2>10, <2>11 DEF Step
<1> QED
  BY <1>1, <1>2, <1>3 DEF Next

-----------------------------------------------------------------------------
(* Mutual exclusion. *)

LEMMA MutexInit == Init => MutexOK
BY DEF Init, MutexOK, MutualExclusion, Holds

LEMMA MutexStep == TypeOK /\ ControlOK /\ MutexOK /\ [Next]_vars => MutexOK'
<1> SUFFICES ASSUME TypeOK, ControlOK, MutexOK, [Next]_vars PROVE MutexOK'
  OBVIOUS
<1> USE DEF MutexOK, MutualExclusion, Holds, Side, Goto, TypeOK, locals
<1>1. CASE UNCHANGED vars
  BY <1>1 DEF vars, sides
<1>2. ASSUME NEW t \in Threads, Call(t) PROVE MutexOK'
  BY <1>2 DEF Call, sides
<1>3. ASSUME NEW t \in Threads, Step(t) PROVE MutexOK'
  <2>1. CASE Lock(t)
    BY <2>1, SMTT(20) DEF Lock, Sides
  <2>2. CASE LoadOther(t)
    BY <2>2 DEF LoadOther, sides
  <2>3. CASE LoadOwn(t)
    BY <2>3 DEF LoadOwn, sides
  <2>4. CASE Reserve(t)
    BY <2>4 DEF Reserve
  <2>5. CASE WriteSlot(t)
    BY <2>5 DEF WriteSlot, sides
  <2>6. CASE ReadSlot(t)
    BY <2>6 DEF ReadSlot, sides
  <2>7. CASE Commit(t)
    BY <2>7 DEF Commit
  <2>8. CASE Unlock(t)
    BY <2>8 DEF Unlock, Sides
  <2>9. CASE LoadInsert(t)
    BY <2>9 DEF LoadInsert, sides
  <2>10. CASE LoadSeen(t)
    BY <2>10 DEF LoadSeen, sides
  <2>11. CASE Return(t)
    BY <2>11 DEF Return, sides
  <2> QED
    BY <1>3, <2>1, <2>2, <2>3, <2>4, <2>5, <2>6, <2>7, <2>8, <2>9, <2>10, <2>11 DEF Step
<1> QED
  BY <1>1, <1>2, <1>3 DEF Next

\* What a step of one thread leaves alone of another's: its locals, and, while
\* it holds its side's mutex, the counters of that side.
LEMMA Frame ==
  ASSUME TypeOK, ControlOK, MutexOK,
         NEW t \in Threads, NEW u \in Threads, t # u, Call(t) \/ Step(t)
  PROVE  /\ pc'[u] = pc[u] /\ op'[u] = op[u]
         /\ other'[u] = other[u] /\ own'[u] = own[u] /\ off'[u] = off[u]
         /\ val'[u] = val[u] /\ ok'[u] = ok[u]
         /\ Holds(u) => /\ pending'[Side(u)] = pending[Side(u)]
                        /\ commited'[Side(u)] = commited[Side(u)]
<1> USE DEF TypeOK, locals, sides, Goto
<1>1. CASE Call(t)
  BY <1>1 DEF Call
<1>2. CASE Lock(t)
  BY <1>2 DEF Lock
<1>3. CASE LoadOther(t)
  BY <1>3 DEF LoadOther
<1>4. CASE LoadOwn(t)
  BY <1>4 DEF LoadOwn
<1>5. CASE Reserve(t)
  BY <1>5 DEF Reserve, MutexOK, MutualExclusion, Holds
<1>6. CASE WriteSlot(t)
  BY <1>6 DEF WriteSlot
<1>7. CASE ReadSlot(t)
  BY <1>7 DEF ReadSlot
<1>8. CASE Commit(t)
  BY <1>8 DEF Commit, MutexOK, MutualExclusion, Holds
<1>9. CASE Unlock(t)
  BY <1>9 DEF Unlock
<1>10. CASE LoadInsert(t)
  BY <1>10 DEF LoadInsert
<1>11. CASE LoadSeen(t)
  BY <1>11 DEF LoadSeen
<1>12. CASE Return(t)
  BY <1>12 DEF Return
<1> QED
  BY <1>1, <1>2, <1>3, <1>4, <1>5, <1>6, <1>7, <1>8, <1>9, <1>10, <1>11, <1>12 DEF Step

-----------------------------------------------------------------------------
(* The counters. *)

\* While a thread holds a side's mutex and has reserved nothing, the counters of
\* that side are equal.
LEMMA QuietSide ==
  ASSUME TypeOK, MutexOK, CountersOK, NEW t \in Threads, Holds(t), ~ Working(t)
  PROVE  pending[Side(t)] = commited[Side(t)]
<1> SUFFICES ASSUME NEW u \in Threads, Working(u), Side(u) = Side(t) PROVE FALSE
  BY ThreadTypes DEF CountersOK
<1> QED
  BY DEF MutexOK, MutualExclusion, Holds, Working

\* A thread that is about to reserve finds its side's counters equal, and
\* reserves no more than there is.
LEMMA ReserveBound ==
  ASSUME TypeOK, ControlOK, MutexOK, CountersOK, LocalsOK,
         NEW t \in Threads, pc[t] = "reserve"
  PROVE  /\ pending[Side(t)] = commited[Side(t)]
         /\ op[t].kind = "insert" =>
              pending["insert"] + Amount(t) <= commited["seen"] + Size
         /\ op[t].kind = "consume" => pending["seen"] + 1 <= commited["insert"]
<1>1. pending[Side(t)] = commited[Side(t)]
  BY QuietSide DEF Holds, Working
<1>2. /\ own[t] = pending[Side(t)]
      /\ Admits(t, own[t], other[t])
      /\ other[t] <= commited[OtherSide(t)]
  BY DEF LocalsOK, LocalsOf
<1>3. CASE op[t].kind = "insert"
  <2>1. HasRoom(own[t], other[t], Amount(t))
    BY <1>2, <1>3 DEF Admits, Amount
  <2>2. own[t] \in Nat /\ other[t] \in Nat /\ Amount(t) \in Nat /\ Size \in Nat
    BY ThreadTypes, QueueAssumption DEF TypeOK
  <2>3. pending["insert"] \in Nat /\ commited["seen"] \in Nat
    BY DEF TypeOK, Sides
  <2> QED
    BY <1>1, <1>2, <1>3, <2>1, <2>2, <2>3 DEF HasRoom, Side, OtherSide
<1>4. CASE op[t].kind = "consume"
  <2>1. other[t] > own[t]
    BY <1>2, <1>4 DEF Admits, HasElement
  <2> QED
    BY <1>1, <1>2, <1>4, <2>1 DEF TypeOK, Sides, Side, OtherSide
<1>5. op[t].kind \in {"insert", "consume"}
  BY DEF ControlOK, ControlOf, Holds
<1> QED BY <1>1, <1>3, <1>4, <1>5

LEMMA CountersInit == Init => CountersOK
BY QueueAssumption DEF Init, CountersOK, Sides

LEMMA CountersStep ==
  TypeOK /\ ControlOK /\ MutexOK /\ CountersOK /\ LocalsOK /\ [Next]_vars => CountersOK'
<1> SUFFICES ASSUME TypeOK, ControlOK, MutexOK, CountersOK, LocalsOK, [Next]_vars
             PROVE  CountersOK'
  OBVIOUS
<1>0. /\ pending["insert"] \in Nat /\ pending["seen"] \in Nat
      /\ commited["insert"] \in Nat /\ commited["seen"] \in Nat
  BY DEF TypeOK, Sides
<1>1. ASSUME UNCHANGED <<pending, commited>>,
             \A u \in Threads : Working(u) => Working(u)' /\ Side(u)' = Side(u)
      PROVE  CountersOK'
  BY <1>1 DEF CountersOK
<1>2. CASE UNCHANGED vars
  BY <1>1, <1>2 DEF vars, sides, Working, Side
<1>3. ASSUME NEW t \in Threads, Call(t) PROVE CountersOK'
  BY <1>1, <1>3 DEF Call, Goto, sides, Working, Side, TypeOK
<1>4. ASSUME NEW t \in Threads, Step(t) PROVE CountersOK'
  <2> USE DEF Goto, sides, Working, Side, TypeOK
  <2>1. CASE Lock(t)
    BY <1>1, <2>1 DEF Lock
  <2>2. CASE LoadOther(t)
    BY <1>1, <2>2 DEF LoadOther
  <2>3. CASE LoadOwn(t)
    BY <1>1, <2>3 DEF LoadOwn
  <2>4. CASE Reserve(t)
    <3>1. /\ pending[Side(t)] = commited[Side(t)]
          /\ op[t].kind = "insert" =>
               pending["insert"] + Amount(t) <= commited["seen"] + Size
          /\ op[t].kind = "consume" => pending["seen"] + 1 <= commited["insert"]
      BY <2>4, ReserveBound DEF Reserve
    <3>2. Amount(t) \in Nat /\ Size \in Nat
      BY ThreadTypes, QueueAssumption
    <3>3. \A s \in Sides :
            pending'[s] = commited'[s] \/ \E u \in Threads : Working(u)' /\ Side(u)' = s
      <4> SUFFICES ASSUME NEW s \in Sides, pending'[s] # commited'[s]
                   PROVE  \E u \in Threads : Working(u)' /\ Side(u)' = s
        OBVIOUS
      <4>1. Working(t)' /\ Side(t)' = Side(t)
        BY <2>4 DEF Reserve
      <4>2. CASE s = Side(t)
        BY <4>1, <4>2
      <4>3. CASE s # Side(t)
        <5>1. pending[s] # commited[s]
          BY <2>4, <4>3 DEF Reserve
        <5> QED
          BY <2>4, <5>1 DEF Reserve, CountersOK
      <4> QED BY <4>2, <4>3
    <3>4. CASE op[t].kind = "insert"
      <4>1. /\ pending'["insert"] = pending["insert"] + Amount(t)
            /\ pending'["seen"] = pending["seen"] /\ commited' = commited
        BY <2>4, <3>4 DEF Reserve, Sides
      <4> QED BY <1>0, <3>1, <3>2, <3>3, <3>4, <4>1 DEF CountersOK
    <3>5. CASE op[t].kind # "insert"
      <4>1. /\ pending'["seen"] = pending["seen"] + 1
            /\ pending'["insert"] = pending["insert"] /\ commited' = commited
        BY <2>4, <3>5 DEF Reserve, Sides, Amount
      <4>2. op[t].kind = "consume"
        BY <2>4, <3>5 DEF Reserve, ControlOK, ControlOf, Holds
      <4> QED BY <1>0, <3>1, <3>2, <3>3, <4>1, <4>2 DEF CountersOK
    <3> QED BY <3>4, <3>5
  <2>5. CASE WriteSlot(t)
    BY <1>1, <2>5 DEF WriteSlot
  <2>6. CASE ReadSlot(t)
    BY <1>1, <2>6 DEF ReadSlot
  <2>7. CASE Commit(t)
    <3>1. /\ pending[Side(t)] = commited[Side(t)] + Amount(t)
          /\ pc[t] \in {"write", "commit"}
      BY <2>7 DEF Commit, LocalsOK, LocalsOf
    <3>2. commited'[Side(t)] = pending'[Side(t)] /\ pending' = pending
      BY <2>7, <3>1, ThreadTypes DEF Commit
    <3>3. \A s \in Sides : s # Side(t) => commited'[s] = commited[s]
      BY <2>7 DEF Commit
    <3>4. \A s \in Sides :
            pending'[s] = commited'[s] \/ \E u \in Threads : Working(u)' /\ Side(u)' = s
      <4> SUFFICES ASSUME NEW s \in Sides, pending'[s] # commited'[s]
                   PROVE  \E u \in Threads : Working(u)' /\ Side(u)' = s
        OBVIOUS
      <4>0. s # Side(t)
        BY <3>2
      <4>1. PICK u \in Threads : Working(u) /\ Side(u) = s
        BY <3>2, <3>3, <4>0 DEF CountersOK
      <4>2. u # t
        BY <4>0, <4>1
      <4> QED BY <2>7, <4>1, <4>2 DEF Commit
    <3>5. CASE Side(t) = "insert"
      BY <1>0, <3>1, <3>2, <3>3, <3>4, <3>5, QueueAssumption DEF CountersOK, Sides
    <3>6. CASE Side(t) = "seen"
      <4>1. Amount(t) \in Nat /\ Size \in Nat
        BY ThreadTypes, QueueAssumption
      <4>2. /\ commited'["seen"] = pending["seen"] /\ pending' = pending
            /\ commited'["insert"] = commited["insert"]
            /\ pending["seen"] = commited["seen"] + Amount(t)
        BY <3>1, <3>2, <3>3, <3>6 DEF Sides
      <4>3. /\ commited'["seen"] <= pending'["seen"]
            /\ pending'["seen"] <= commited'["insert"]
            /\ commited'["insert"] <= pending'["insert"]
            /\ pending'["insert"] <= commited'["seen"] + Size
        BY <1>0, <4>1, <4>2 DEF CountersOK
      <4> QED BY <3>4, <4>3 DEF CountersOK
    <3> QED BY <3>5, <3>6
  <2>8. CASE Unlock(t)
    BY <1>1, <2>8 DEF Unlock
  <2>9. CASE LoadInsert(t)
    BY <1>1, <2>9 DEF LoadInsert
  <2>10. CASE LoadSeen(t)
    BY <1>1, <2>10 DEF LoadSeen
  <2>11. CASE Return(t)
    BY <1>1, <2>11 DEF Return
  <2> QED
    BY <1>4, <2>1, <2>2, <2>3, <2>4, <2>5, <2>6, <2>7, <2>8, <2>9, <2>10, <2>11 DEF Step
<1> QED
  BY <1>2, <1>3, <1>4 DEF Next

-----------------------------------------------------------------------------
(* The locals of each thread. *)

\* A counter never goes back.
LEMMA CommitedGrows ==
  ASSUME TypeOK, NEW t \in Threads, Call(t) \/ Step(t), NEW s \in Sides
  PROVE  commited'[s] \in Nat /\ commited[s] \in Nat /\ commited[s] <= commited'[s]
<1>1. commited[s] \in Nat /\ Amount(t) \in Nat
  BY ThreadTypes DEF TypeOK
<1>2. CASE Commit(t)
  BY <1>1, <1>2 DEF Commit, TypeOK
<1>3. CASE ~ Commit(t)
  BY <1>1, <1>3 DEF Step, Call, Lock, LoadOther, LoadOwn, Reserve, WriteSlot, ReadSlot,
                    Unlock, LoadInsert, LoadSeen, Return, sides
<1> QED BY <1>2, <1>3

LEMMA LocalsInit == Init => LocalsOK
BY DEF Init, LocalsOK, LocalsOf, Working

LEMMA LocalsStep ==
  TypeOK /\ ControlOK /\ MutexOK /\ CountersOK /\ LocalsOK /\ [Next]_vars => LocalsOK'
<1> SUFFICES ASSUME TypeOK, ControlOK, MutexOK, CountersOK, LocalsOK, [Next]_vars,
                    NEW u \in Threads
             PROVE  LocalsOf(u)'
  BY DEF LocalsOK
<1> LocalsOf(u)
  BY DEF LocalsOK
<1>1. CASE UNCHANGED vars
  BY <1>1 DEF vars, sides, locals, LocalsOf, Working, Side, OtherSide, Amount, Admits
<1>2. ASSUME NEW t \in Threads, Call(t) \/ Step(t), t # u PROVE LocalsOf(u)'
  <2>1. /\ pc'[u] = pc[u] /\ op'[u] = op[u]
        /\ other'[u] = other[u] /\ own'[u] = own[u] /\ off'[u] = off[u]
        /\ Holds(u) => /\ pending'[Side(u)] = pending[Side(u)]
                       /\ commited'[Side(u)] = commited[Side(u)]
    BY <1>2, Frame
  <2>2. commited'[OtherSide(u)] \in Nat /\ commited[OtherSide(u)] <= commited'[OtherSide(u)]
    BY <1>2, CommitedGrows, ThreadTypes
  <2>3. other[u] \in Nat /\ commited[OtherSide(u)] \in Nat
    BY ThreadTypes DEF TypeOK
  <2>4. /\ Side(u)' = Side(u) /\ OtherSide(u)' = OtherSide(u) /\ Amount(u)' = Amount(u)
        /\ (Working(u))' = Working(u)
        /\ Admits(u, own[u], other[u])' = Admits(u, own[u], other[u])
    BY <2>1 DEF Side, OtherSide, Amount, Working, Admits
  <2> QED
    BY <2>1, <2>2, <2>3, <2>4 DEF LocalsOf, Holds, Working
<1>3. CASE Call(u)
  BY <1>3 DEF Call, LocalsOf, Working, Goto, TypeOK
<1>4. CASE Step(u)
  <2> USE DEF LocalsOf, Working, Goto, TypeOK, sides, locals
  <2>0. /\ Side(u) \in Sides /\ OtherSide(u) \in Sides /\ Amount(u) \in Nat
        /\ commited[OtherSide(u)] \in Nat
    BY ThreadTypes
  <2>1. CASE Lock(u)
    BY <2>1 DEF Lock
  <2>2. CASE LoadOther(u)
    BY <2>0, <2>2 DEF LoadOther, OtherSide
  <2>3. CASE LoadOwn(u)
    BY <2>3 DEF LoadOwn, Side, OtherSide, Admits
  <2>4. CASE Reserve(u)
    <3>1. pending[Side(u)] = commited[Side(u)] /\ own[u] = pending[Side(u)]
      BY <2>4, ReserveBound DEF Reserve
    <3>2. /\ off'[u] = 0 /\ own'[u] = own[u] /\ commited' = commited /\ op' = op
          /\ pending'[Side(u)] = own[u] + Amount(u) /\ pc'[u] \in {"write", "read"}
      BY <2>0, <2>4, <3>1 DEF Reserve
    <3> QED
      BY <2>0, <3>1, <3>2 DEF Side, Amount
  <2>5. CASE WriteSlot(u)
    BY <2>0, <2>5 DEF WriteSlot, Side, Amount
  <2>6. CASE ReadSlot(u)
    BY <2>6 DEF ReadSlot, Side, Amount
  <2>7. CASE Commit(u)
    BY <2>7 DEF Commit
  <2>8. CASE Unlock(u)
    BY <2>8 DEF Unlock
  <2>9. CASE LoadInsert(u)
    BY <2>9 DEF LoadInsert
  <2>10. CASE LoadSeen(u)
    BY <2>10 DEF LoadSeen
  <2>11. CASE Return(u)
    BY <2>11 DEF Return
  <2> QED
    BY <1>4, <2>1, <2>2, <2>3, <2>4, <2>5, <2>6, <2>7, <2>8, <2>9, <2>10, <2>11 DEF Step
<1> QED
  BY <1>1, <1>2, <1>3, <1>4 DEF Next

-----------------------------------------------------------------------------
(* The slots. *)

\* The slots a batch is written to are apart from every slot from the oldest
\* unreleased one up to them.
LEMMA WriteApart ==
  ASSUME TypeOK, CountersOK, LocalsOK, ControlOK,
         NEW t \in Threads, pc[t] = "write", off[t] < Amount(t),
         NEW i \in Nat, commited["seen"] <= i, i < own[t] + off[t]
  PROVE  Slot(i) # Slot(own[t] + off[t])
<1>1. op[t].kind = "insert"
  BY DEF ControlOK, ControlOf
<1>2. own[t] \in Nat /\ off[t] \in Nat /\ Amount(t) \in Nat /\ Size \in Nat
  BY ThreadTypes, QueueAssumption DEF TypeOK
<1>3. pending["insert"] = own[t] + Amount(t)
  BY <1>1 DEF LocalsOK, LocalsOf, Working, Side
<1>4. pending["insert"] <= commited["seen"] + Size /\ commited["seen"] \in Nat
  BY DEF CountersOK, TypeOK, Sides
<1>5. own[t] + off[t] \in Nat /\ own[t] + off[t] < i + Size
  BY <1>2, <1>3, <1>4
<1> QED BY <1>5, SlotsDiffer

\* A consumer in its slot has one element, published and not given back.
LEMMA ReadPublished ==
  ASSUME TypeOK, CountersOK, LocalsOK, ControlOK,
         NEW t \in Threads, pc[t] \in {"read", "commit"}
  PROVE  own[t] = commited["seen"] /\ own[t] < commited["insert"]
<1>1. op[t].kind = "consume"
  BY DEF ControlOK, ControlOf
<1>2. own[t] = commited["seen"] /\ pending["seen"] = own[t] + 1
  BY <1>1 DEF LocalsOK, LocalsOf, Working, Side, Amount
<1> QED BY <1>2 DEF CountersOK, TypeOK, Sides

LEMMA SlotsInit == Init => SlotsOK
BY DEF Init, SlotsOK, CopiesOf, Sides

LEMMA SlotsStep == Invariant /\ [Next]_vars => SlotsOK'
<1> SUFFICES ASSUME Invariant, [Next]_vars PROVE SlotsOK'
  OBVIOUS
<1> TypeOK /\ ControlOK /\ MutexOK /\ CountersOK /\ LocalsOK /\ SlotsOK
  BY DEF Invariant
<1>0. commited["seen"] \in Nat /\ commited["insert"] \in Nat
  BY DEF TypeOK, Sides
<1>1. ASSUME UNCHANGED <<buffer, commited>>,
             \A u \in Threads : CopiesOf(u)'
      PROVE  SlotsOK'
  BY <1>1 DEF SlotsOK
<1>2. CASE UNCHANGED vars
  BY <1>1, <1>2 DEF vars, sides, locals, SlotsOK, CopiesOf
<1>3. ASSUME NEW t \in Threads, Call(t) \/ Step(t), UNCHANGED <<buffer, commited>>,
             CopiesOf(t)'
      PROVE  SlotsOK'
  <2>1. ASSUME NEW u \in Threads, u # t PROVE CopiesOf(u)'
    <3>1. /\ pc'[u] = pc[u] /\ op'[u] = op[u]
          /\ own'[u] = own[u] /\ off'[u] = off[u] /\ val'[u] = val[u]
      BY <1>3, <2>1, Frame
    <3> QED BY <1>3, <3>1 DEF CopiesOf, SlotsOK
  <2> QED BY <1>1, <1>3, <2>1
<1>4. ASSUME NEW t \in Threads, Call(t) PROVE SlotsOK'
  BY <1>3, <1>4 DEF Call, CopiesOf, Goto, TypeOK, sides
<1>5. ASSUME NEW t \in Threads, Step(t) PROVE SlotsOK'
  <2> USE DEF CopiesOf, Goto, TypeOK, sides
  <2>1. CASE Lock(t)
    BY <1>3, <1>5, <2>1 DEF Lock
  <2>2. CASE LoadOther(t)
    BY <1>3, <1>5, <2>2 DEF LoadOther
  <2>3. CASE LoadOwn(t)
    BY <1>3, <1>5, <2>3 DEF LoadOwn
  <2>4. CASE Reserve(t)
    BY <1>3, <1>5, <2>4 DEF Reserve
  <2>5. CASE WriteSlot(t)
    <3> DEFINE p == own[t] + off[t]
    <3>1. /\ buffer' = [buffer EXCEPT ![Slot(p)] = op[t].batch[off[t] + 1]]
          /\ off' = [off EXCEPT ![t] = @ + 1]
          /\ UNCHANGED <<commited, pc, op, own, val>>
          /\ pc[t] = "write" /\ off[t] < Amount(t)
      BY <2>5 DEF WriteSlot
    <3>2. own[t] \in Nat /\ off[t] \in Nat /\ p \in Nat /\ own[t] = commited["insert"]
      BY <3>1 DEF LocalsOK, LocalsOf, Working, Side, ControlOK, ControlOf
    <3>3. \A i \in Nat : commited["seen"] <= i /\ i < p => buffer'[Slot(i)] = buffer[Slot(i)]
      BY <3>1, SlotInBuffer, WriteApart
    <3>4. \A i \in commited'["seen"] .. commited'["insert"] - 1 : buffer'[Slot(i)] \in Values
      <4> SUFFICES ASSUME NEW i \in commited["seen"] .. commited["insert"] - 1
                   PROVE  buffer'[Slot(i)] \in Values
        BY <3>1
      <4>1. i \in Nat /\ commited["seen"] <= i /\ i < own[t] + off[t]
        BY <1>0, <3>2
      <4>2. buffer[Slot(i)] \in Values
        BY DEF SlotsOK
      <4> QED BY <3>3, <4>1, <4>2
    <3>5. CopiesOf(t)'
      <4>1. commited["seen"] <= own[t]
        BY <1>0, <3>2 DEF CountersOK, Sides
      <4>2. \A k \in 0 .. off[t] - 1 : buffer'[Slot(own[t] + k)] = op[t].batch[k + 1]
        <5> SUFFICES ASSUME NEW k \in 0 .. off[t] - 1
                     PROVE  buffer'[Slot(own[t] + k)] = op[t].batch[k + 1]
          OBVIOUS
        <5>1. /\ own[t] + k \in Nat /\ commited["seen"] <= own[t] + k
              /\ own[t] + k < own[t] + off[t]
          BY <1>0, <3>2, <4>1
        <5>2. buffer[Slot(own[t] + k)] = op[t].batch[k + 1]
          BY <3>1 DEF SlotsOK
        <5> QED BY <3>3, <5>1, <5>2
      <4>3. buffer'[Slot(p)] = op[t].batch[off[t] + 1]
        BY <3>1, <3>2, SlotInBuffer
      <4>4. \A k \in 0 .. off[t] : buffer'[Slot(own[t] + k)] = op[t].batch[k + 1]
        BY <3>2, <4>2, <4>3
      <4> QED BY <3>1, <3>2, <4>4
    <3>6. ASSUME NEW u \in Threads, u # t PROVE CopiesOf(u)'
      <4>1. pc[u] # "write"
        BY <3>1, <3>6 DEF MutexOK, MutualExclusion, Holds, Side, ControlOK, ControlOf
      <4>2. CASE pc[u] = "commit"
        <5>1. own[u] \in Nat /\ own[u] = commited["seen"] /\ own[u] < p
          <6>1. own[u] = commited["seen"] /\ own[u] < commited["insert"]
            BY ONLY <4>2, ReadPublished, TypeOK, CountersOK, LocalsOK, ControlOK
          <6>2. commited["insert"] <= p
            BY ONLY <3>2
          <6> QED BY ONLY <1>0, <3>2, <6>1, <6>2
        <5>2. buffer'[Slot(own[u])] = buffer[Slot(own[u])]
          <6>1. commited["seen"] <= own[u]
            BY <1>0, <5>1
          <6> QED BY <3>3, <5>1, <6>1
        <5> QED BY <3>1, <4>1, <5>2 DEF SlotsOK
      <4> QED BY <3>1, <4>1, <4>2
    <3> QED BY <3>4, <3>5, <3>6 DEF SlotsOK
  <2>6. CASE ReadSlot(t)
    BY <1>3, <1>5, <2>6 DEF ReadSlot
  <2>7. CASE Commit(t)
    <3>1. UNCHANGED <<buffer, op, own, off, val>> /\ pc' = [pc EXCEPT ![t] = "unlock"]
      BY <2>7 DEF Commit, locals
    <3>2. \A u \in Threads : CopiesOf(u)'
      BY <3>1 DEF SlotsOK
    <3>3. \A i \in commited'["seen"] .. commited'["insert"] - 1 : buffer'[Slot(i)] \in Values
      <4>1. CASE pc[t] = "commit"
        <5>1. op[t].kind = "consume"
          BY <4>1 DEF ControlOK, ControlOf
        <5>2. /\ commited'["seen"] = commited["seen"] + 1
              /\ commited'["insert"] = commited["insert"]
          BY <2>7, <5>1 DEF Commit, Side, Amount, Sides
        <5> QED BY <1>0, <3>1, <5>2 DEF SlotsOK
      <4>2. CASE pc[t] # "commit"
        <5>1. pc[t] = "write" /\ op[t].kind = "insert" /\ off[t] = Amount(t)
          BY <2>7, <4>2 DEF Commit, ControlOK, ControlOf
        <5>2. own[t] = commited["insert"] /\ Amount(t) \in Nat /\ Amount(t) = Len(op[t].batch)
          BY <5>1, ThreadTypes DEF LocalsOK, LocalsOf, Working, Side, Amount
        <5>3. /\ commited'["seen"] = commited["seen"]
              /\ commited'["insert"] = commited["insert"] + Amount(t)
          BY <2>7, <5>1 DEF Commit, Side, Sides
        <5>4. ASSUME NEW k \in 0 .. Amount(t) - 1
              PROVE  buffer[Slot(own[t] + k)] \in Values
          <6>1. buffer[Slot(own[t] + k)] = op[t].batch[k + 1]
            BY <5>1 DEF SlotsOK
          <6>2. op[t].batch \in Seq(Values) /\ k + 1 \in 1 .. Len(op[t].batch)
            BY <5>2, ThreadTypes
          <6> QED BY <6>1, <6>2
        <5>5. ASSUME NEW i \in commited["insert"] .. commited["insert"] + Amount(t) - 1
              PROVE  buffer[Slot(i)] \in Values
          <6>1. i - own[t] \in 0 .. Amount(t) - 1 /\ own[t] + (i - own[t]) = i
            BY <1>0, <5>2
          <6> QED BY <5>4, <6>1
        <5> SUFFICES ASSUME NEW i \in commited'["seen"] .. commited'["insert"] - 1
                     PROVE  buffer[Slot(i)] \in Values
          BY <3>1
        <5>6. i \in Int /\ commited["seen"] <= i /\ i < commited["insert"] + Amount(t)
          BY <1>0, <5>2, <5>3
        <5>7. \/ i \in commited["seen"] .. commited["insert"] - 1
              \/ i \in commited["insert"] .. commited["insert"] + Amount(t) - 1
          BY <1>0, <5>2, <5>6
        <5> QED BY <5>5, <5>7 DEF SlotsOK
      <4> QED BY <4>1, <4>2
    <3> QED BY <3>2, <3>3 DEF SlotsOK
  <2>8. CASE Unlock(t)
    BY <1>3, <1>5, <2>8 DEF Unlock
  <2>9. CASE LoadInsert(t)
    BY <1>3, <1>5, <2>9 DEF LoadInsert
  <2>10. CASE LoadSeen(t)
    BY <1>3, <1>5, <2>10 DEF LoadSeen
  <2>11. CASE Return(t)
    BY <1>3, <1>5, <2>11 DEF Return
  <2> QED
    BY <1>5, <2>1, <2>2, <2>3, <2>4, <2>5, <2>6, <2>7, <2>8, <2>9, <2>10, <2>11 DEF Step
<1> QED
  BY <1>2, <1>4, <1>5 DEF Next

-----------------------------------------------------------------------------
(* The theorems. *)

\* The inductive invariant of ring_buffer.hpp: types, control, mutexes,
\* counters, locals and slots agree in every reachable state.
THEOREM Inductive == Spec => []Invariant
<1>1. Init => Invariant
  BY TypeInit, ControlInit, MutexInit, CountersInit, LocalsInit, SlotsInit DEF Invariant
<1>2. Invariant /\ [Next]_vars => Invariant'
  BY TypeStep, ControlStep, MutexStep, CountersStep, LocalsStep, SlotsStep DEF Invariant
<1> QED BY <1>1, <1>2, PTL DEF Spec

\* Every variable of the ring buffer keeps its type.
THEOREM TypeCorrect == Spec => []TypeOK
<1>1. Invariant => TypeOK
  BY DEF Invariant
<1> QED BY <1>1, Inductive, PTL

\* The spin mutex of a side admits one thread at a time.
THEOREM Exclusion == Spec => []MutualExclusion
<1>1. Invariant => MutualExclusion
  BY DEF Invariant, MutexOK
<1> QED BY <1>1, Inductive, PTL

\* No producer writes the slot a consumer is copying, for any capacity and any
\* number of threads.
THEOREM NoRace == Spec => []NoSlotRace
<1>1. Invariant => NoSlotRace
  <2> SUFFICES ASSUME Invariant,
                      NEW t \in Threads, NEW u \in Threads,
                      pc[t] = "write", off[t] < Amount(t), pc[u] = "read"
               PROVE  Slot(own[t] + off[t]) # Slot(own[u])
    BY DEF NoSlotRace
  <2> TypeOK /\ ControlOK /\ CountersOK /\ LocalsOK
    BY DEF Invariant
  <2>1. own[u] = commited["seen"] /\ own[u] < commited["insert"]
    BY ReadPublished
  <2>2. own[t] = commited["insert"]
    BY DEF LocalsOK, LocalsOf, Working, Side, ControlOK, ControlOf
  <2>3. /\ own[u] \in Nat /\ off[t] \in Nat /\ own[t] \in Nat
        /\ commited["seen"] <= own[u] /\ own[u] < own[t] + off[t]
    BY <2>1, <2>2 DEF TypeOK
  <2> QED BY <2>3, WriteApart
<1> QED BY <1>1, Inductive, PTL

\* The unsigned subtraction of insert never wraps.
THEOREM SubtractionNeverWraps == Spec => []NoWrap
<1>1. Invariant => NoWrap
  <2> SUFFICES ASSUME Invariant, NEW t \in Threads,
                      pc[t] = "loadOwn", op[t].kind = "insert"
               PROVE  other[t] <= pending["insert"]
    BY DEF NoWrap
  <2>1. other[t] <= commited["seen"]
    BY DEF Invariant, LocalsOK, LocalsOf, OtherSide
  <2>2. /\ commited["seen"] <= pending["seen"] /\ pending["seen"] <= commited["insert"]
        /\ commited["insert"] <= pending["insert"]
    BY DEF Invariant, CountersOK
  <2> QED BY <2>1, <2>2 DEF Invariant, TypeOK, Sides
<1> QED BY <1>1, Inductive, PTL

-----------------------------------------------------------------------------
(* The refinement of BoundedQueue. *)

\* The mapped queue is a sequence of values, one for each published slot.
ContentsOK ==
  /\ Contents \in Seq(Values)
  /\ commited["insert"] \in Nat /\ commited["seen"] \in Nat
  /\ Len(Contents) = commited["insert"] - commited["seen"]
  /\ commited["insert"] - commited["seen"] \in Nat
  /\ \A k \in 1 .. commited["insert"] - commited["seen"] :
       Contents[k] = buffer[Slot(commited["seen"] + k - 1)]

LEMMA ContentsFacts == Invariant => ContentsOK
<1> SUFFICES ASSUME Invariant PROVE ContentsOK
  OBVIOUS
<1> DEFINE n == commited["insert"] - commited["seen"]
<1>1. commited["insert"] \in Nat /\ commited["seen"] \in Nat /\ n \in Nat
  BY DEF Invariant, TypeOK, CountersOK, Sides
<1>2. ASSUME NEW k \in 1 .. n PROVE buffer[Slot(commited["seen"] + k - 1)] \in Values
  <2>1. commited["seen"] + k - 1 \in commited["seen"] .. commited["insert"] - 1
    BY <1>1
  <2> QED BY <2>1 DEF Invariant, SlotsOK
<1>3. Contents = [k \in 1 .. n |-> buffer[Slot(commited["seen"] + k - 1)]]
  BY DEF Contents
<1>4. Contents \in [1 .. n -> Values]
  BY <1>2, <1>3
<1>5. Contents \in Seq(Values)
  BY <1>1, <1>4, SeqDef
<1>6. Len(Contents) = n
  BY <1>1, <1>4, <1>5
<1> QED BY <1>1, <1>3, <1>5, <1>6 DEF ContentsOK

\* A step that moves no counter and writes only outside the published slots
\* leaves the mapped queue alone.
LEMMA ContentsSame ==
  ASSUME Invariant, commited' = commited,
         \A i \in commited["seen"] .. commited["insert"] - 1 : buffer'[Slot(i)] = buffer[Slot(i)]
  PROVE  Contents' = Contents
<1>1. /\ commited["insert"] \in Nat /\ commited["seen"] \in Nat
      /\ commited["insert"] - commited["seen"] \in Nat
  BY ContentsFacts DEF ContentsOK
<1>2. ASSUME NEW k \in 1 .. commited["insert"] - commited["seen"]
      PROVE  /\ buffer'[Slot(commited["seen"] + k - 1)] = buffer[Slot(commited["seen"] + k - 1)]
             /\ commited'["seen"] = commited["seen"]
  <2>1. commited["seen"] + k - 1 \in commited["seen"] .. commited["insert"] - 1
    BY <1>1
  <2> QED BY <2>1
<1> QED BY <1>2 DEF Contents, Slot

\* The answers of the other threads do not move.
LEMMA AnswersOfOthers ==
  ASSUME Invariant, NEW t \in Threads, Call(t) \/ Step(t), NEW u \in Threads, u # t
  PROVE  AnswerOf(u)' = AnswerOf(u)
<1>1. /\ pc'[u] = pc[u] /\ op'[u] = op[u] /\ other'[u] = other[u]
      /\ val'[u] = val[u] /\ ok'[u] = ok[u]
      /\ Holds(u) => pending'[Side(u)] = pending[Side(u)]
  BY Frame DEF Invariant
<1>2. Failing(u)' = Failing(u)
  BY <1>1 DEF Failing, Holds, Admits, Side
<1>3. HasAnswer(u)' = HasAnswer(u)
  BY <1>1, <1>2 DEF HasAnswer
<1> QED BY <1>1, <1>2, <1>3 DEF AnswerOf

\* How an answer of one thread shows in the mapped answers.
LEMMA AnswersUpdate ==
  ASSUME Invariant, NEW t \in Threads, Call(t) \/ Step(t)
  PROVE  Answers' = [Answers EXCEPT ![t] = AnswerOf(t)']
<1>1. \A u \in Threads : u # t => AnswerOf(u)' = AnswerOf(u)
  BY AnswersOfOthers
<1> HIDE DEF AnswerOf
<1> QED BY <1>1 DEF Answers

\* Publishing a batch appends it to the mapped queue, where there is room.
LEMMA InsertImplements ==
  ASSUME Invariant, Invariant', NEW t \in Threads, Commit(t), op[t].kind = "insert"
  PROVE  Len(Contents) + Len(op[t].batch) <= Size /\ Contents' = Contents \o op[t].batch
<1> DEFINE ci == commited["insert"]
           cs == commited["seen"]
           b == op[t].batch
<1> TypeOK /\ ControlOK /\ CountersOK /\ LocalsOK /\ SlotsOK
  BY DEF Invariant
<1>1. /\ Contents \in Seq(Values) /\ ci \in Nat /\ cs \in Nat /\ ci - cs \in Nat
      /\ Len(Contents) = ci - cs
      /\ \A k \in 1 .. ci - cs : Contents[k] = buffer[Slot(cs + k - 1)]
  BY ContentsFacts DEF ContentsOK
<1>2. b \in Seq(Values) /\ Len(b) \in Nat /\ Amount(t) = Len(b) /\ Size \in Nat
  BY ThreadTypes, QueueAssumption DEF Amount
<1>3. /\ pc[t] = "write" /\ off[t] = Len(b)
      /\ buffer' = buffer /\ commited' = [commited EXCEPT !["insert"] = @ + Len(b)]
  <2>1. pc[t] = "write" /\ off[t] = Amount(t)
    BY DEF Commit, Goto, ControlOK, ControlOf
  <2>2. Side(t) = "insert"
    BY DEF Side
  <2> QED BY <1>2, <2>1, <2>2 DEF Commit
<1>4. own[t] = ci /\ pending["insert"] = ci + Len(b)
  BY <1>2, <1>3 DEF LocalsOK, LocalsOf, Working, Side
<1>5. Len(Contents) + Len(b) <= Size
  <2>1. pending["insert"] <= cs + Size /\ Len(Contents) = ci - cs /\ ci \in Nat /\ cs \in Nat
    BY <1>1 DEF CountersOK, TypeOK, Sides
  <2> HIDE DEF ci, cs, b
  <2> QED BY ONLY <1>2, <1>4, <2>1
<1>6. commited'["insert"] = ci + Len(b) /\ commited'["seen"] = cs
  BY <1>3 DEF TypeOK, Sides
<1>7. /\ Contents' \in Seq(Values)
      /\ Len(Contents') = ci + Len(b) - cs
      /\ \A k \in 1 .. ci + Len(b) - cs : Contents'[k] = buffer[Slot(cs + k - 1)]
  <2>1. /\ Contents' \in Seq(Values)
        /\ Len(Contents') = commited'["insert"] - commited'["seen"]
        /\ \A k \in 1 .. commited'["insert"] - commited'["seen"] :
             Contents'[k] = buffer'[Slot(commited'["seen"] + k - 1)]
    <3>1. ContentsOK'
      BY ContentsFacts, PTL
    <3> QED BY <3>1 DEF ContentsOK
  <2>2. commited'["insert"] - commited'["seen"] = ci + Len(b) - cs
    BY <1>1, <1>2, <1>6
  <2> QED BY <1>3, <1>6, <2>1, <2>2
<1> HIDE DEF ci, cs, b
<1>8. /\ Contents \o b \in Seq(Values)
      /\ Len(Contents \o b) = ci - cs + Len(b)
      /\ \A k \in 1 .. ci - cs + Len(b) :
           (Contents \o b)[k] = IF k <= ci - cs THEN Contents[k] ELSE b[k - (ci - cs)]
  <2>1. /\ Contents \o b \in Seq(Values)
        /\ Len(Contents \o b) = Len(Contents) + Len(b)
        /\ \A k \in 1 .. Len(Contents) + Len(b) :
             (Contents \o b)[k] =
               IF k <= Len(Contents) THEN Contents[k] ELSE b[k - Len(Contents)]
    BY <1>1, <1>2, ConcatProperties
  <2> QED BY <1>1, <2>1
<1>9. ASSUME NEW k \in 1 .. ci + Len(b) - cs PROVE Contents'[k] = (Contents \o b)[k]
  <2>1. Contents'[k] = buffer[Slot(cs + k - 1)]
    BY <1>7
  <2>2. k \in 1 .. ci - cs + Len(b) /\ k \in Nat
    BY <1>1, <1>2
  <2>3. CASE k <= ci - cs
    <3>1. k \in 1 .. ci - cs
      BY <1>1, <2>2, <2>3
    <3> QED BY <1>1, <1>8, <2>1, <2>2, <2>3, <3>1
  <2>4. CASE ~ (k <= ci - cs)
    <3>1. k - (ci - cs) - 1 \in 0 .. off[t] - 1
      BY <1>1, <1>2, <1>3, <2>2, <2>4
    <3>2. buffer[Slot(own[t] + (k - (ci - cs) - 1))] = b[k - (ci - cs) - 1 + 1]
      BY <1>3, <3>1 DEF SlotsOK, CopiesOf, b
    <3>3. own[t] + (k - (ci - cs) - 1) = cs + k - 1 /\ k - (ci - cs) - 1 + 1 = k - (ci - cs)
      BY <1>1, <1>4, <2>2
    <3> QED BY <1>8, <2>1, <2>2, <2>4, <3>2, <3>3
  <2> QED BY <2>3, <2>4
<1>10. Len(Contents') = Len(Contents \o b)
  BY <1>1, <1>2, <1>7, <1>8
<1>11. Contents' = Contents \o b
  BY <1>7, <1>8, <1>9, <1>10, SeqEqual
<1> QED BY <1>5, <1>11 DEF b

\* Giving a slot back takes the element that was copied off the mapped queue.
LEMMA ConsumeImplements ==
  ASSUME Invariant, Invariant', NEW t \in Threads, Commit(t), op[t].kind = "consume"
  PROVE  Contents # <<>> /\ Head(Contents) = val[t] /\ Contents' = Tail(Contents)
<1> DEFINE ci == commited["insert"]
           cs == commited["seen"]
<1> TypeOK /\ ControlOK /\ CountersOK /\ LocalsOK /\ SlotsOK
  BY DEF Invariant
<1>1. /\ Contents \in Seq(Values) /\ ci \in Nat /\ cs \in Nat /\ ci - cs \in Nat
      /\ Len(Contents) = ci - cs
      /\ \A k \in 1 .. ci - cs : Contents[k] = buffer[Slot(cs + k - 1)]
  BY ContentsFacts DEF ContentsOK
<1>2. /\ pc[t] = "commit"
      /\ buffer' = buffer /\ commited' = [commited EXCEPT !["seen"] = @ + 1]
  <2>1. pc[t] = "commit"
    BY DEF Commit, Goto, ControlOK, ControlOf
  <2>2. Side(t) = "seen" /\ Amount(t) = 1
    BY DEF Side, Amount
  <2> QED BY <2>1, <2>2 DEF Commit
<1>3. own[t] = cs /\ cs < ci
  BY <1>2, ReadPublished
<1>4. val[t] = buffer[Slot(cs)]
  BY <1>2, <1>3 DEF SlotsOK, CopiesOf
<1>5. Contents # <<>> /\ Head(Contents) = val[t]
  <2>1. 1 \in 1 .. ci - cs /\ cs + 1 - 1 = cs
    BY <1>1, <1>3
  <2>2. Contents[1] = val[t]
    BY <1>1, <1>4, <2>1
  <2> QED BY <1>1, <1>3, <2>2
<1>6. commited'["seen"] = cs + 1 /\ commited'["insert"] = ci
  BY <1>2 DEF TypeOK, Sides
<1>7. /\ Contents' \in Seq(Values)
      /\ Len(Contents') = ci - (cs + 1)
      /\ \A k \in 1 .. ci - (cs + 1) : Contents'[k] = buffer[Slot(cs + 1 + k - 1)]
  <2>1. /\ Contents' \in Seq(Values)
        /\ Len(Contents') = commited'["insert"] - commited'["seen"]
        /\ \A k \in 1 .. commited'["insert"] - commited'["seen"] :
             Contents'[k] = buffer'[Slot(commited'["seen"] + k - 1)]
    <3>1. ContentsOK'
      BY ContentsFacts, PTL
    <3> QED BY <3>1 DEF ContentsOK
  <2> QED BY <1>2, <1>6, <2>1
<1> HIDE DEF ci, cs
<1>8. /\ Tail(Contents) \in Seq(Values)
      /\ Len(Tail(Contents)) = ci - cs - 1
      /\ \A k \in 1 .. ci - cs - 1 : Tail(Contents)[k] = Contents[k + 1]
  BY <1>1, <1>5, HeadTailProperties
<1>9. ASSUME NEW k \in 1 .. ci - (cs + 1) PROVE Contents'[k] = Tail(Contents)[k]
  <2>1. k + 1 \in 1 .. ci - cs /\ k \in 1 .. ci - cs - 1 /\ cs + (k + 1) - 1 = cs + 1 + k - 1
    BY <1>1
  <2> QED BY <1>1, <1>7, <1>8, <2>1
<1>10. Contents' = Tail(Contents)
  <2>1. Len(Contents') = Len(Tail(Contents)) /\ Len(Contents') = ci - (cs + 1)
    BY <1>1, <1>7, <1>8
  <2> QED BY <1>7, <1>8, <1>9, <2>1, SeqEqual
<1> QED BY <1>5, <1>10

\* The two modules speak of the same calls.
LEMMA SameCalls == Queue!Idle = Idle /\ Queue!Operations = Operations
BY DEF Idle, Queue!Idle, Operations, Queue!Operations, Inserts, Queue!Inserts,
       Consumes, Queue!Consumes, Empties, Queue!Empties

\* The empty buffer is the empty queue, and nobody has an answer.
LEMMA QueueInit == Init => Queue!Init
<1> SUFFICES ASSUME Init PROVE Queue!Init
  OBVIOUS
<1>1. Contents = <<>>
  <2>1. Invariant
    BY TypeInit, ControlInit, MutexInit, CountersInit, LocalsInit, SlotsInit DEF Invariant
  <2>2. Contents \in Seq(Values) /\ Len(Contents) = 0
    <3>1. commited["insert"] = 0 /\ commited["seen"] = 0
      BY DEF Init, Sides
    <3> QED BY <2>1, <3>1, ContentsFacts DEF ContentsOK
  <2> QED BY <2>2, EmptySeq
<1>2. op = [t \in Threads |-> Idle]
  BY DEF Init
<1>3. \A t \in Threads : AnswerOf(t) = Queue!Undecided
  BY DEF Init, AnswerOf, HasAnswer, Failing, Queue!Undecided
<1>4. Answers = [t \in Threads |-> Queue!Undecided]
  BY <1>3 DEF Answers
<1> QED BY <1>1, <1>2, <1>4, SameCalls DEF Queue!Init

\* A step that decides no call and moves no element is a stutter of the queue.
LEMMA QueueStutter ==
  ASSUME Invariant, NEW t \in Threads, Call(t) \/ Step(t),
         Contents' = Contents, op' = op, AnswerOf(t)' = AnswerOf(t)
  PROVE  UNCHANGED Queue!vars
<1>1. Answers' = [Answers EXCEPT ![t] = AnswerOf(t)]
  BY AnswersUpdate
<1>2. Answers' = Answers
  BY <1>1 DEF Answers
<1> QED BY <1>2 DEF Queue!vars

\* A step that decides a call.
LEMMA QueueAnswer ==
  ASSUME Invariant, NEW t \in Threads, Step(t), op' = op, NEW answered, NEW element,
         AnswerOf(t) = Queue!Undecided, AnswerOf(t)' = Queue!Decided(answered, element)
  PROVE  Queue!Answer(t, op[t].kind, answered, element)
<1>1. Answers' = [Answers EXCEPT ![t] = Queue!Decided(answered, element)]
  BY AnswersUpdate
<1>2. Answers[t] = Queue!Undecided
  BY DEF Answers
<1> QED BY <1>1, <1>2 DEF Queue!Answer

\* Every step of the ring buffer is a step of the queue, or a stutter.
LEMMA QueueStep == Invariant /\ Invariant' /\ [Next]_vars => [Queue!Next]_(Queue!vars)
<1> SUFFICES ASSUME Invariant, Invariant', [Next]_vars
             PROVE  [Queue!Next]_(Queue!vars)
  OBVIOUS
<1> TypeOK /\ ControlOK /\ MutexOK /\ CountersOK /\ LocalsOK /\ SlotsOK
  BY DEF Invariant
<1>1. CASE UNCHANGED vars
  <2>1. UNCHANGED <<Contents, op, Answers>>
    BY <1>1 DEF vars, sides, locals, Contents, Answers, AnswerOf, HasAnswer, Failing, Admits,
                Side, Slot
  <2> QED BY <2>1 DEF Queue!vars
<1>2. ASSUME NEW t \in Threads, Call(t) PROVE Queue!Call(t)
  <2>1. /\ op[t] = Idle /\ pc[t] = "idle" /\ pc'[t] \in {"lock", "loadInsert"}
        /\ UNCHANGED <<buffer, sides, locals>>
        /\ \E o \in Operations : op' = [op EXCEPT ![t] = o]
    BY <1>2 DEF Call, Goto, ControlOK, ControlOf, TypeOK
  <2>2. Contents' = Contents
    BY <2>1 DEF Contents, Slot, sides
  <2>3. AnswerOf(t)' = AnswerOf(t)
    BY <2>1 DEF AnswerOf, HasAnswer, Failing
  <2>4. Answers' = Answers
    <3>1. Answers' = [Answers EXCEPT ![t] = AnswerOf(t)]
      BY <1>2, <2>3, AnswersUpdate
    <3> QED BY <3>1 DEF Answers
  <2> QED BY <2>1, <2>2, <2>4, SameCalls DEF Queue!Call
<1>3. ASSUME NEW t \in Threads, Step(t) PROVE [Queue!Next]_(Queue!vars)
  <2>0. ControlOf(t) /\ LocalsOf(t) /\ op[t] \in Operations \cup {Idle} /\ t \in Threads
    BY DEF ControlOK, LocalsOK, TypeOK
  <2>a. ASSUME UNCHANGED <<buffer, commited>> PROVE Contents' = Contents
    BY <2>a DEF Contents, Slot
  <2>1. CASE Lock(t)
    <3>1. UNCHANGED <<buffer, commited, op, locals>> /\ pc[t] = "lock" /\ pc'[t] = "loadOther"
      BY <2>1 DEF Lock, Goto, TypeOK
    <3>2. AnswerOf(t)' = AnswerOf(t)
      BY <3>1 DEF AnswerOf, HasAnswer, Failing
    <3> QED BY <1>3, <2>a, <3>1, <3>2, QueueStutter
  <2>2. CASE LoadOther(t)
    <3>1. /\ UNCHANGED <<buffer, sides, op>> /\ pc[t] = "loadOther" /\ pc'[t] = "loadOwn"
          /\ other'[t] = commited[OtherSide(t)]
      BY <2>2 DEF LoadOther, Goto, TypeOK
    <3>2. AnswerOf(t) = Queue!Undecided
      BY <3>1 DEF AnswerOf, HasAnswer, Failing, Queue!Undecided
    <3>3. pending[Side(t)] = commited[Side(t)]
      BY <3>1, QuietSide DEF Holds, Working
    <3>4. Contents' = Contents
      BY <2>a, <3>1 DEF sides
    <3>5. Failing(t)' = ~ Admits(t, commited[Side(t)], commited[OtherSide(t)])
      BY <3>1, <3>3 DEF Failing, Admits, Side, OtherSide, sides
    <3>6. CASE Admits(t, commited[Side(t)], commited[OtherSide(t)]) \/ op[t].wait
      <4>1. AnswerOf(t)' = Queue!Undecided
        BY <3>1, <3>5, <3>6 DEF AnswerOf, HasAnswer, Queue!Undecided
      <4> QED BY <1>3, <3>1, <3>2, <3>4, <4>1, QueueStutter
    <3>7. CASE ~ Admits(t, commited[Side(t)], commited[OtherSide(t)]) /\ ~ op[t].wait
      <4>1. AnswerOf(t)' = Queue!Decided(FALSE, NoValue)
        BY <3>1, <3>5, <3>7 DEF AnswerOf, HasAnswer, Queue!Decided
      <4>2. Queue!Answer(t, op[t].kind, FALSE, NoValue)
        BY <1>3, <3>1, <3>2, <4>1, QueueAnswer
      <4>3. /\ Contents \in Seq(Values)
            /\ commited["insert"] \in Nat /\ commited["seen"] \in Nat
            /\ Len(Contents) = commited["insert"] - commited["seen"]
            /\ commited["insert"] - commited["seen"] \in Nat
        BY ContentsFacts DEF ContentsOK
      <4>4. CASE op[t].kind = "insert"
        <5>1. ~ HasRoom(commited["insert"], commited["seen"], Len(op[t].batch))
          BY <3>7, <4>4 DEF Admits, Side, OtherSide
        <5>2. Len(op[t].batch) \in Nat /\ Size \in Nat
          BY <2>0, OperationFields, QueueAssumption
        <5>3. Len(Contents) + Len(op[t].batch) > Size
          <6> DEFINE n == Len(op[t].batch)
                     l == Len(Contents)
          <6>1. ~ (Size >= n /\ l < Size + 1 - n) /\ l \in Nat /\ n \in Nat /\ Size \in Nat
            BY <4>3, <5>1, <5>2 DEF HasRoom
          <6> HIDE DEF n, l
          <6>2. l + n > Size
            BY <6>1
          <6> QED BY <6>2 DEF n, l
        <5> QED BY <3>4, <3>7, <4>2, <4>4, <5>3 DEF Queue!InsertFull, Queue!Next
      <4>5. CASE op[t].kind = "consume"
        <5>1. ~ (commited["insert"] > commited["seen"])
          BY <3>7, <4>5 DEF Admits, HasElement, Side, OtherSide
        <5>2. Contents = <<>>
          BY <4>3, <5>1, EmptySeq
        <5> QED BY <3>4, <3>7, <4>2, <4>5, <5>2 DEF Queue!ConsumeEmpty, Queue!Next
      <4> QED BY <2>0, <3>1, <4>4, <4>5 DEF ControlOf, Holds
    <3> QED BY <3>6, <3>7
  <2>3. CASE LoadOwn(t)
    <3>1. /\ UNCHANGED <<buffer, sides, op, other, val>> /\ pc[t] = "loadOwn"
          /\ pc'[t] = IF Admits(t, pending[Side(t)], other[t]) THEN "reserve" ELSE "unlock"
          /\ ok'[t] = Admits(t, pending[Side(t)], other[t])
      BY <2>3 DEF LoadOwn, Goto, TypeOK
    <3>2. Failing(t)' = Failing(t) /\ HasAnswer(t)' = HasAnswer(t)
      BY <3>1 DEF HasAnswer, Failing
    <3>3. HasAnswer(t) => Failing(t)
      BY <3>1 DEF HasAnswer, Failing
    <3>4. AnswerOf(t)' = AnswerOf(t)
      BY <3>1, <3>2, <3>3 DEF AnswerOf
    <3> QED BY <1>3, <2>a, <3>1, <3>4, QueueStutter DEF sides
  <2>4. CASE Reserve(t)
    <3>1. /\ UNCHANGED <<buffer, commited, op>>
          /\ pc[t] = "reserve" /\ pc'[t] \in {"read", "write"}
      BY <2>4 DEF Reserve, Goto, TypeOK
    <3>2. AnswerOf(t)' = AnswerOf(t)
      BY <3>1 DEF AnswerOf, HasAnswer, Failing
    <3> QED BY <1>3, <2>a, <3>1, <3>2, QueueStutter
  <2>5. CASE WriteSlot(t)
    <3>1. /\ UNCHANGED <<commited, pc, op>> /\ pc[t] = "write" /\ off[t] < Amount(t)
          /\ buffer' = [buffer EXCEPT ![Slot(own[t] + off[t])] = op[t].batch[off[t] + 1]]
      BY <2>5 DEF WriteSlot, sides
    <3>2. ASSUME NEW i \in commited["seen"] .. commited["insert"] - 1
          PROVE  buffer'[Slot(i)] = buffer[Slot(i)]
      <4>1. own[t] = commited["insert"] /\ own[t] \in Nat /\ off[t] \in Nat
        BY <2>0, <3>1 DEF LocalsOf, ControlOf, Working, Side, TypeOK
      <4>2. i \in Nat /\ commited["seen"] <= i /\ i < own[t] + off[t]
        BY <4>1 DEF TypeOK, Sides
      <4>3. Slot(i) # Slot(own[t] + off[t])
        BY <3>1, <4>2, WriteApart
      <4> QED BY <3>1, <4>2, <4>3, SlotInBuffer DEF TypeOK
    <3>3. Contents' = Contents
      BY <3>1, <3>2, ContentsSame
    <3>4. AnswerOf(t)' = AnswerOf(t)
      BY <3>1 DEF AnswerOf, HasAnswer, Failing
    <3> QED BY <1>3, <3>1, <3>3, <3>4, QueueStutter
  <2>6. CASE ReadSlot(t)
    <3>1. /\ UNCHANGED <<buffer, sides, op>> /\ pc[t] = "read" /\ pc'[t] = "commit"
      BY <2>6 DEF ReadSlot, Goto, TypeOK
    <3>2. AnswerOf(t)' = AnswerOf(t)
      BY <3>1 DEF AnswerOf, HasAnswer, Failing
    <3> QED BY <1>3, <2>a, <3>1, <3>2, QueueStutter DEF sides
  <2>7. CASE Commit(t)
    <3>1. /\ UNCHANGED <<op, val, ok>> /\ pc[t] \in {"write", "commit"} /\ pc'[t] = "unlock"
      BY <2>7 DEF Commit, Goto, TypeOK, locals
    <3>2. ok[t] /\ op[t].kind \in {"insert", "consume"}
      BY <2>0, <3>1 DEF ControlOf, Working
    <3>3. AnswerOf(t) = Queue!Undecided
      BY <3>1 DEF AnswerOf, HasAnswer, Failing, Queue!Undecided
    <3>4. CASE op[t].kind = "insert"
      <4>1. AnswerOf(t)' = Queue!Decided(TRUE, NoValue)
        BY <3>1, <3>2, <3>4 DEF AnswerOf, HasAnswer, Failing, Queue!Decided
      <4>2. Queue!Answer(t, "insert", TRUE, NoValue)
        BY <1>3, <3>1, <3>3, <3>4, <4>1, QueueAnswer
      <4>3. Len(Contents) + Len(op[t].batch) <= Size /\ Contents' = Contents \o op[t].batch
        BY <2>7, <3>4, InsertImplements
      <4> QED BY <4>2, <4>3 DEF Queue!Insert, Queue!Next
    <3>5. CASE op[t].kind = "consume"
      <4>1. AnswerOf(t)' = Queue!Decided(TRUE, val[t])
        BY <3>1, <3>2, <3>5 DEF AnswerOf, HasAnswer, Failing, Queue!Decided
      <4>2. Queue!Answer(t, "consume", TRUE, val[t])
        BY <1>3, <3>1, <3>3, <3>5, <4>1, QueueAnswer
      <4>3. Contents # <<>> /\ Head(Contents) = val[t] /\ Contents' = Tail(Contents)
        BY <2>7, <3>5, ConsumeImplements
      <4> QED BY <4>2, <4>3 DEF Queue!Consume, Queue!Next
    <3> QED BY <3>2, <3>4, <3>5
  <2>8. CASE Unlock(t)
    <3>1. /\ UNCHANGED <<buffer, commited, op, val, ok>> /\ pc[t] = "unlock"
          /\ pc'[t] = IF op[t].wait /\ ~ ok[t] THEN "lock" ELSE "return"
      BY <2>8 DEF Unlock, Goto, TypeOK
    <3>2. AnswerOf(t)' = AnswerOf(t)
      BY <3>1 DEF AnswerOf, HasAnswer, Failing
    <3> QED BY <1>3, <2>a, <3>1, <3>2, QueueStutter
  <2>9. CASE LoadInsert(t)
    <3>1. /\ UNCHANGED <<buffer, sides, op>> /\ pc[t] = "loadInsert" /\ pc'[t] = "loadSeen"
      BY <2>9 DEF LoadInsert, Goto, TypeOK
    <3>2. AnswerOf(t)' = AnswerOf(t)
      BY <3>1 DEF AnswerOf, HasAnswer, Failing
    <3> QED BY <1>3, <2>a, <3>1, <3>2, QueueStutter DEF sides
  <2>10. CASE LoadSeen(t)
    <3>1. /\ UNCHANGED <<buffer, sides, op>> /\ pc[t] = "loadSeen" /\ pc'[t] = "return"
          /\ ok'[t] \in BOOLEAN
      BY <2>10 DEF LoadSeen, Goto, TypeOK
    <3>2. op[t].kind = "empty" /\ ~ op[t].wait
      <4>1. op[t].kind = "empty"
        BY <2>0, <3>1 DEF ControlOf
      <4>2. op[t] \in Empties
        BY <2>0, <4>1 DEF Operations, Inserts, Consumes, Idle
      <4> QED BY <4>1, <4>2 DEF Empties
    <3>3. AnswerOf(t) = Queue!Undecided
      BY <3>1 DEF AnswerOf, HasAnswer, Failing, Queue!Undecided
    <3>4. AnswerOf(t)' = Queue!Decided(ok'[t], NoValue)
      BY <3>1, <3>2 DEF AnswerOf, HasAnswer, Failing, Queue!Decided
    <3>5. Queue!Answer(t, "empty", ok'[t], NoValue)
      BY <1>3, <3>1, <3>2, <3>3, <3>4, QueueAnswer
    <3>6. Contents' = Contents
      BY <2>a, <3>1 DEF sides
    <3> QED BY <3>1, <3>5, <3>6 DEF Queue!Empty, Queue!Next
  <2>11. CASE Return(t)
    <3>1. /\ UNCHANGED <<buffer, sides>> /\ pc[t] = "return" /\ pc'[t] = "idle"
          /\ op' = [op EXCEPT ![t] = Idle]
      BY <2>11 DEF Return, Goto, TypeOK
    <3>2. AnswerOf(t).decided
      BY <2>0, <3>1 DEF AnswerOf, HasAnswer, Failing, ControlOf
    <3>3. AnswerOf(t)' = Queue!Undecided
      BY <3>1 DEF AnswerOf, HasAnswer, Failing, Queue!Undecided
    <3>4. Answers' = [Answers EXCEPT ![t] = Queue!Undecided]
      BY <1>3, <3>3, AnswersUpdate
    <3>5. Contents' = Contents
      BY <2>a, <3>1 DEF sides
    <3>6. Answers[t].decided
      BY <3>2 DEF Answers
    <3> QED BY <3>1, <3>4, <3>5, <3>6, SameCalls DEF Queue!Return, Queue!Next
  <2> QED
    BY <1>3, <2>1, <2>2, <2>3, <2>4, <2>5, <2>6, <2>7, <2>8, <2>9, <2>10, <2>11 DEF Step
<1> QED
  BY <1>1, <1>2, <1>3 DEF Next, Queue!Next

\* insert, insertAll and consume implement the linearizable bounded FIFO queue,
\* for every capacity, number of threads and set of batches.
THEOREM Refinement == Spec => ImplementsQueue
<1>1. Init => Queue!Init
  BY QueueInit
<1>2. Invariant /\ Invariant' /\ [Next]_vars => [Queue!Next]_(Queue!vars)
  BY QueueStep
<1> QED BY <1>1, <1>2, Inductive, PTL DEF Spec, ImplementsQueue, Queue!Spec

-----------------------------------------------------------------------------
(* empty() never sees an element that was not there.  The observation is a  *)
(* history variable: it is carried along with the invariant of the ring     *)
(* buffer, which every observed step keeps.                                 *)

\* What a call knows while every state it has seen had an empty queue: nothing has moved
\* since it loaded the first counter.
AnswerOK(t) ==
  /\ pc[t] = "loadInsert" /\ FALSE \notin observed[t] => IsEmpty
  /\ pc[t] = "loadSeen" /\ FALSE \notin observed[t] => IsEmpty /\ other[t] = commited["insert"]
  /\ EmptyAnswered(t) /\ ~ ok[t] => FALSE \in observed[t]

ObserveInv == Invariant /\ \A t \in Threads : AnswerOK(t)

\* A step moves one of the two counters at most.
LEMMA OneCounterMoves ==
  ASSUME Invariant, [Next]_vars
  PROVE  commited'["insert"] = commited["insert"] \/ commited'["seen"] = commited["seen"]
<1>1. CASE UNCHANGED vars
  BY <1>1 DEF vars, sides
<1>2. ASSUME NEW t \in Threads, Call(t)
      PROVE  UNCHANGED commited
  BY <1>2 DEF Call, sides
<1>3. ASSUME NEW t \in Threads, Step(t), ~ Commit(t)
      PROVE  UNCHANGED commited
  BY <1>3 DEF Step, Lock, LoadOther, LoadOwn, Reserve, WriteSlot, ReadSlot, Unlock,
              LoadInsert, LoadSeen, Return, sides
<1>4. ASSUME NEW t \in Threads, Commit(t)
      PROVE  commited'["insert"] = commited["insert"] \/ commited'["seen"] = commited["seen"]
  <2>1. commited' = [commited EXCEPT ![Side(t)] = @ + Amount(t)]
    BY <1>4 DEF Commit
  <2>2. Side(t) # "insert" \/ Side(t) # "seen"
    OBVIOUS
  <2> QED BY <2>1, <2>2
<1> QED BY <1>1, <1>2, <1>3, <1>4 DEF Next

\* How a step moves a thread that asks whether the queue is empty, and the others.
LEMMA AskingMoves ==
  ASSUME Invariant, Next, NEW t \in Threads
  PROVE  /\ pc'[t] = "loadSeen" =>
              \/ pc[t] = "loadSeen" /\ other'[t] = other[t]
              \/ pc[t] = "loadInsert" /\ other'[t] = commited["insert"]
         /\ EmptyAnswered(t)' =>
              \/ EmptyAnswered(t) /\ ok'[t] = ok[t]
              \/ pc[t] = "loadSeen" /\ (ok'[t] <=> other[t] = commited["seen"])
<1>0. TypeOK /\ ControlOK
  BY DEF Invariant
<1>1. PICK u \in Threads : Call(u) \/ Step(u)
  BY DEF Next
<1>2. CASE u # t
  <2>1. pc'[t] = pc[t] /\ other'[t] = other[t] /\ ok'[t] = ok[t] /\ op'[t] = op[t]
    <3>1. CASE Call(u)
      BY <1>0, <1>2, <3>1 DEF Call, Goto, TypeOK, locals
    <3>2. CASE Lock(u) \/ LoadOther(u) \/ LoadOwn(u) \/ Reserve(u)
      BY <1>0, <1>2, <3>2 DEF Lock, LoadOther, LoadOwn, Reserve, Goto, TypeOK, locals
    <3>3. CASE WriteSlot(u) \/ ReadSlot(u) \/ Commit(u) \/ Unlock(u)
      BY <1>0, <1>2, <3>3 DEF WriteSlot, ReadSlot, Commit, Unlock, Goto, TypeOK, locals
    <3>4. CASE LoadInsert(u) \/ LoadSeen(u) \/ Return(u)
      BY <1>0, <1>2, <3>4 DEF LoadInsert, LoadSeen, Return, Goto, TypeOK
    <3> QED BY <1>1, <3>1, <3>2, <3>3, <3>4 DEF Step
  <2> QED BY <2>1 DEF EmptyAnswered
<1>3. CASE u = t
  <2>1. CASE Call(t)
    <3>1. pc'[t] \in {"loadInsert", "lock"}
      BY <1>0, <2>1 DEF Call, Goto, TypeOK
    <3> QED BY <3>1 DEF EmptyAnswered
  <2>2. CASE Lock(t) \/ LoadOther(t) \/ LoadOwn(t) \/ Reserve(t)
    <3>1. pc'[t] \in {"loadOther", "loadOwn", "reserve", "unlock", "write", "read"}
      BY <1>0, <2>2 DEF Lock, LoadOther, LoadOwn, Reserve, Goto, TypeOK
    <3> QED BY <3>1 DEF EmptyAnswered
  <2>3. CASE WriteSlot(t) \/ ReadSlot(t) \/ Commit(t) \/ Return(t)
    <3>1. pc'[t] \in {"write", "commit", "unlock", "idle"}
      BY <1>0, <2>3 DEF WriteSlot, ReadSlot, Commit, Return, Goto, TypeOK
    <3> QED BY <3>1 DEF EmptyAnswered
  <2>4. CASE Unlock(t)
    <3>1. op'[t].kind \in {"insert", "consume"}
      BY <1>0, <2>4 DEF Unlock, Goto, ControlOK, ControlOf, Holds
    <3>2. pc'[t] \in {"lock", "return"}
      BY <1>0, <2>4 DEF Unlock, Goto, TypeOK
    <3> QED BY <3>1, <3>2 DEF EmptyAnswered
  <2>5. CASE LoadInsert(t)
    BY <1>0, <2>5 DEF LoadInsert, Goto, TypeOK, EmptyAnswered
  <2>6. CASE LoadSeen(t)
    BY <1>0, <2>6 DEF LoadSeen, Goto, TypeOK, EmptyAnswered
  <2> QED BY <1>1, <1>3, <2>1, <2>2, <2>3, <2>4, <2>5, <2>6 DEF Step
<1> QED BY <1>2, <1>3

\* A call that observes a step has FALSE on record if it had, or if the queue is not empty.
LEMMA Observing ==
  ASSUME Observe, NEW t \in Threads
  PROVE  /\ pc'[t] \in {"loadInsert", "loadSeen"} /\ FALSE \notin observed'[t] =>
              FALSE \notin observed[t] /\ IsEmpty'
         /\ pc'[t] = "return" => observed'[t] = observed[t]
<1>1. pc'[t] \in {"loadInsert", "loadSeen"} => observed'[t] = observed[t] \cup {IsEmpty'}
  BY DEF Observe
<1>2. pc'[t] = "return" => observed'[t] = observed[t]
  BY DEF Observe
<1>3. ASSUME ~ IsEmpty' PROVE IsEmpty' = FALSE
  BY <1>3 DEF IsEmpty
<1> QED BY <1>1, <1>2, <1>3

LEMMA ObserveKeeps ==
  ASSUME ObserveInv, [ObserveNext]_<<vars, observed>>
  PROVE  ObserveInv'
<1>1. Invariant /\ [Next]_vars
  BY DEF ObserveInv, ObserveNext
<1>2. Invariant'
  BY <1>1, TypeStep, ControlStep, MutexStep, CountersStep, LocalsStep, SlotsStep DEF Invariant
<1>3. CASE UNCHANGED <<vars, observed>>
  BY <1>2, <1>3 DEF ObserveInv, AnswerOK, EmptyAnswered, IsEmpty, vars, sides, locals
<1>4. CASE ObserveNext
  <2> SUFFICES ASSUME NEW t \in Threads PROVE AnswerOK(t)'
    BY <1>2 DEF ObserveInv
  <2>1. Next /\ Observe /\ AnswerOK(t)
    BY <1>4 DEF ObserveNext, ObserveInv
  <2>2. pc'[t] = "loadInsert" /\ FALSE \notin observed'[t] => IsEmpty'
    BY <2>1, Observing
  <2>3. ASSUME pc'[t] = "loadSeen", FALSE \notin observed'[t]
        PROVE  IsEmpty' /\ other'[t] = commited'["insert"]
    <3>1. FALSE \notin observed[t] /\ IsEmpty'
      BY <2>1, <2>3, Observing
    <3>2. IsEmpty /\ other'[t] = commited["insert"]
      BY <1>1, <2>1, <2>3, <3>1, AskingMoves DEF AnswerOK
    <3>3. commited'["insert"] = commited["insert"] \/ commited'["seen"] = commited["seen"]
      BY <1>1, OneCounterMoves
    <3> QED BY <3>1, <3>2, <3>3 DEF IsEmpty
  <2>4. ASSUME EmptyAnswered(t)', ~ ok'[t]
        PROVE  FALSE \in observed'[t]
    <3>1. observed'[t] = observed[t]
      BY <2>1, <2>4, Observing DEF EmptyAnswered
    <3>2. CASE EmptyAnswered(t) /\ ok'[t] = ok[t]
      BY <2>1, <2>4, <3>1, <3>2 DEF AnswerOK
    <3>3. CASE pc[t] = "loadSeen" /\ other[t] # commited["seen"]
      BY <2>1, <3>1, <3>3 DEF AnswerOK, IsEmpty
    <3> QED BY <1>1, <2>1, <2>4, <3>2, <3>3, AskingMoves
  <2> QED BY <2>2, <2>3, <2>4 DEF AnswerOK
<1> QED BY <1>3, <1>4

\* When empty() says that there is something, there was something at some moment of the call:
\* for every number of threads that insert and take meanwhile, and every capacity.
THEOREM NonEmptyAnswers == ObserveSpec => []NonEmptyAnswerIsTrue
<1>1. ObserveInit => ObserveInv
  <2> SUFFICES ASSUME ObserveInit PROVE ObserveInv
    OBVIOUS
  <2>1. Invariant
    BY TypeInit, ControlInit, MutexInit, CountersInit, LocalsInit, SlotsInit
       DEF Invariant, ObserveInit
  <2>2. \A t \in Threads : pc[t] = "idle"
    BY DEF ObserveInit, Init
  <2> QED BY <2>1, <2>2 DEF ObserveInv, AnswerOK, EmptyAnswered
<1>2. ObserveInv /\ [ObserveNext]_<<vars, observed>> => ObserveInv'
  BY ObserveKeeps
<1>3. ObserveInv => NonEmptyAnswerIsTrue
  BY DEF ObserveInv, AnswerOK, NonEmptyAnswerIsTrue
<1> QED BY <1>1, <1>2, <1>3, PTL DEF ObserveSpec

=============================================================================
