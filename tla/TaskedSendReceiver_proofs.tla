---------------------- MODULE TaskedSendReceiver_proofs ----------------------
(***************************************************************************)
(* Proofs about TaskedSendReceiver, for any messages, receivers, capacity  *)
(* and number of concurrent requests: the books of every receiver are      *)
(* right, no message is worked on twice or lost, and a run until the queue *)
(* is empty serves what was there when it last looked.                     *)
(*                                                                         *)
(* Inv is inductive.  A step of one receiver leaves the books of the       *)
(* others alone (OthersKeepBooks), as a message has one receiver; so the   *)
(* proof has, for each action, its effect on the receiver's own count,     *)
(* tasks and entries, and on where the message is.                         *)
(***************************************************************************)
EXTENDS TaskedSendReceiver, SequenceTheorems, FiniteSetTheorems, TLAPS

-----------------------------------------------------------------------------
(* Types. *)

\* The places of the code a receiver can be at.
LEMMA Gone ==
  ASSUME TypeOK, NEW r \in Receivers, NEW from, NEW to \in Places, Goto(r, from, to)
  PROVE  /\ pc[r] = from /\ pc'[r] = to
         /\ \A q \in Receivers \ {r} : pc'[q] = pc[q]
         /\ pc' \in [Receivers -> Places]
BY DEF Goto, TypeOK

\* A message is taken from the front of a queue.
LEMMA TakenTypes ==
  ASSUME TypeOK, NEW r \in Receivers, NEW m \in Messages, Taken(r, m)
  PROVE  queue' \in Seq(Messages) /\ Len(queue') <= Capacity /\ local' \in [Receivers -> Seq(Messages)]
<1>1. CASE isLocal[r]
  <2>1. local[r] # <<>> /\ local[r] \in Seq(Messages)
    BY <1>1 DEF Taken, Source, TypeOK
  <2>2. Tail(local[r]) \in Seq(Messages)
    BY <2>1, HeadTailProperties
  <2> QED BY <1>1, <2>2 DEF Taken, TypeOK
<1>2. CASE ~ isLocal[r]
  <2>1. queue # <<>> /\ queue \in Seq(Messages)
    BY <1>2 DEF Taken, Source, TypeOK
  <2>2. Tail(queue) \in Seq(Messages) /\ Len(Tail(queue)) = Len(queue) - 1 /\ Len(queue) \in Nat
    BY <2>1, HeadTailProperties, LenProperties
  <2>3. Len(Tail(queue)) <= Capacity
    BY <2>2, TaskedAssumption DEF TypeOK, TaskedAssumption
  <2> QED BY <1>2, <2>2, <2>3 DEF Taken, TypeOK
<1> QED BY <1>1, <1>2

\* The entries of an operation.
LEMMA OperationTypes ==
  ASSUME NEW m \in Messages, NEW round \in 0 .. MaxRounds, NEW timed \in BOOLEAN
  PROVE  Operation(m, round, timed) \in SUBSET Entries /\ IsFiniteSet(Operation(m, round, timed))
<1> DEFINE e(kind) == [message |-> m, round |-> round, kind |-> kind]
<1>1. Operation(m, round, timed) = IF timed THEN {e("operation"), e("timeout")} ELSE {e("operation")}
  BY DEF Operation
<1>2. IsFiniteSet({e("operation")}) /\ IsFiniteSet({e("operation")} \cup {e("timeout")})
  <2>1. \A x : IsFiniteSet({x})
    BY FS_Singleton
  <2>2. \A x, y : IsFiniteSet({x} \cup {y})
    BY <2>1, FS_AddElement
  <2> QED BY <2>1, <2>2
<1>3. {e("operation"), e("timeout")} = {e("operation")} \cup {e("timeout")}
  OBVIOUS
<1>4. e("operation") \in Entries /\ e("timeout") \in Entries
  BY DEF Entries
<1> QED BY <1>1, <1>2, <1>3, <1>4

\* A receiver that completes something has something to wait for.
LEMMA CompletedTypes ==
  ASSUME Inv, NEW r \in Receivers, NEW to \in Places, Goto(r, "complete", to), NEW e,
         flying' = [flying EXCEPT ![r] = @ \ {e}],
         count' = [count EXCEPT ![r] = @ - 1]
  PROVE  /\ count' \in [Receivers -> Nat]
         /\ flying' \in [Receivers -> SUBSET Entries]
         /\ \A q \in Receivers : IsFiniteSet(flying'[q])
<1>1. count[r] > 0 /\ TypeOK
  BY DEF Inv, RoundsOrderly, Goto
<1>2. IsFiniteSet(flying[r] \ {e})
  BY <1>1, FS_RemoveElement DEF TypeOK
<1>3. flying'[r] = flying[r] \ {e} /\ \A q \in Receivers \ {r} : flying'[q] = flying[q]
  BY <1>1 DEF TypeOK
<1> QED BY <1>1, <1>2, <1>3 DEF TypeOK

\* What a receiver prepares is added to what it has prepared.
LEMMA PreparedTypes ==
  ASSUME TypeOK, NEW r \in Receivers, NEW es \in SUBSET Entries, IsFiniteSet(es),
         prepared' = [prepared EXCEPT ![r] = @ \cup es]
  PROVE  /\ prepared' \in [Receivers -> SUBSET Entries]
         /\ \A q \in Receivers : IsFiniteSet(prepared'[q])
<1>1. IsFiniteSet(prepared[r] \cup es)
  BY FS_Union DEF TypeOK
<1>2. prepared'[r] = prepared[r] \cup es /\ \A q \in Receivers \ {r} : prepared'[q] = prepared[q]
  BY DEF TypeOK
<1> QED BY <1>1, <1>2 DEF TypeOK

LEMMA TypeStep ==
  ASSUME Inv, [Next]_vars
  PROVE  TypeOK'
<1> USE DEF group, users, progress, arguments, ring, bounds
<1>0. TypeOK
  BY DEF Inv
<1>1. ASSUME NEW m \in Messages, Send(m)
      PROVE  TypeOK'
  <2>1. queue' \in Seq(Messages) /\ Len(queue') = Len(queue) + 1 /\ Len(queue) \in Nat
    BY <1>0, <1>1, AppendProperties, LenProperties DEF Send, TypeOK
  <2>2. Len(queue') <= Capacity /\ inserted' \in Nat /\ sent' \in SUBSET Messages
    BY <1>0, <1>1, <2>1, TaskedAssumption DEF Send, TypeOK, TaskedAssumption
  <2> QED BY <1>0, <1>1, <2>1, <2>2 DEF Send, TypeOK
<1>2. ASSUME NEW r \in Receivers, NEW m \in Messages, SendSync(r, m)
      PROVE  TypeOK'
  <2>1. Append(local[r], m) \in Seq(Messages)
    BY <1>0, AppendProperties DEF TypeOK
  <2>2. local' \in [Receivers -> Seq(Messages)] /\ sent' \in SUBSET Messages
    BY <1>0, <1>2, <2>1 DEF SendSync, TypeOK
  <2> QED BY <1>0, <1>2, <2>2 DEF SendSync, TypeOK
<1>3. ASSUME NEW r \in Receivers, Call(r)
      PROVE  TypeOK'
  <2>1. pc' \in [Receivers -> Places]
    BY <1>0, <1>3, Gone DEF Call, Places
  <2>2. /\ calls' \in [Receivers -> Nat] /\ isLocal' \in [Receivers -> BOOLEAN]
        /\ oneQueue' \in [Receivers -> BOOLEAN]
    BY <1>0, <1>3 DEF Call, TypeOK
  <2> QED BY <1>0, <1>3, <2>1, <2>2 DEF Call, TypeOK
<1>4. ASSUME NEW r \in Receivers, Stop(r)
      PROVE  TypeOK'
  <2>1. stops' \in [Receivers -> Nat] /\ stop' \in [Receivers -> BOOLEAN]
    BY <1>0, <1>4 DEF Stop, TypeOK
  <2> QED BY <1>0, <1>4, <2>1 DEF Stop, TypeOK
<1>5. ASSUME NEW r \in Receivers, Enter(r)
      PROVE  TypeOK'
  <2>1. pc' \in [Receivers -> Places]
    BY <1>0, <1>5, Gone DEF Enter, Places
  <2>2. /\ stop' \in [Receivers -> BOOLEAN] /\ thrown' \in [Receivers -> BOOLEAN]
        /\ count' \in [Receivers -> Nat]
    BY <1>0, <1>5 DEF Enter, TypeOK
  <2> QED BY <1>0, <1>5, <2>1, <2>2 DEF Enter, TypeOK
<1>6. ASSUME NEW r \in Receivers,
             Loop(r) \/ Fill(r) \/ EmplaceEnds(r) \/ AskInserted(r) \/ AskSeen(r)
      PROVE  TypeOK'
  <2>1. pc' \in [Receivers -> Places]
    BY <1>0, <1>6, Gone DEF Loop, Fill, EmplaceEnds, AskInserted, AskSeen, Places
  <2>2. asked' \in [Receivers -> Nat] /\ stop' \in [Receivers -> BOOLEAN]
    BY <1>0, <1>6 DEF Loop, Fill, EmplaceEnds, AskInserted, AskSeen, TypeOK
  <2> QED BY <1>0, <1>6, <2>1, <2>2 DEF Loop, Fill, EmplaceEnds, AskInserted, AskSeen, TypeOK
<1>7. ASSUME NEW r \in Receivers, CompleteTimeout(r)
      PROVE  TypeOK'
  <2>1. pc' \in [Receivers -> Places]
    BY <1>0, <1>7, Gone DEF CompleteTimeout, Places
  <2>2. /\ count' \in [Receivers -> Nat] /\ flying' \in [Receivers -> SUBSET Entries]
        /\ \A q \in Receivers : IsFiniteSet(flying'[q])
    BY <1>7, CompletedTypes DEF CompleteTimeout, Places
  <2> QED BY <1>0, <1>7, <2>1, <2>2 DEF CompleteTimeout, TypeOK
<1>8. ASSUME NEW r \in Receivers, NEW m \in Messages,
             TaskGoesOn(r, m) \/ TaskEnds(r, m) \/ TaskThrows(r, m)
      PROVE  TypeOK'
  <2>1. Completed(r, m)
    BY <1>8 DEF TaskGoesOn, TaskEnds, TaskThrows
  <2>2. pc' \in [Receivers -> Places]
    BY <1>0, <2>1, Gone DEF Completed, Places
  <2>3. /\ count' \in [Receivers -> Nat] /\ flying' \in [Receivers -> SUBSET Entries]
        /\ \A q \in Receivers : IsFiniteSet(flying'[q])
    BY <2>1, CompletedTypes DEF Completed, Places
  <2>4. CASE TaskGoesOn(r, m)
    <3>1. rounds[m] + 1 \in 0 .. MaxRounds
      BY <1>0, <2>4, TaskedAssumption DEF TaskGoesOn, TypeOK, TaskedAssumption
    <3>2. rounds' \in [Messages -> 0 .. MaxRounds]
      BY <1>0, <2>4, <3>1 DEF TaskGoesOn, TypeOK
    <3>3. /\ prepared' \in [Receivers -> SUBSET Entries]
          /\ \A q \in Receivers : IsFiniteSet(prepared'[q])
      BY <1>0, <2>4, <3>1, OperationTypes, PreparedTypes DEF TaskGoesOn
    <3>4. UNCHANGED <<queue, inserted, local, sent, told, isLocal, oneQueue, stop, thrown,
                      broken, tasks, asked, calls, stops, errors>>
      BY <2>4 DEF TaskGoesOn
    <3> QED BY <1>0, <2>2, <2>3, <3>2, <3>3, <3>4 DEF TypeOK
  <2>5. CASE TaskEnds(r, m)
    <3>1. told' \in [Messages -> Nat] /\ tasks' \in [Receivers -> SUBSET Messages]
      BY <1>0, <2>5 DEF TaskEnds, TypeOK
    <3>2. \A q \in Receivers : IsFiniteSet(tasks'[q])
      <4>1. IsFiniteSet(tasks[r] \ {m})
        BY <1>0, FS_RemoveElement DEF TypeOK
      <4>2. tasks'[r] = tasks[r] \ {m} /\ \A q \in Receivers \ {r} : tasks'[q] = tasks[q]
        BY <1>0, <2>5 DEF TaskEnds, TypeOK
      <4> QED BY <1>0, <4>1, <4>2 DEF TypeOK
    <3>3. UNCHANGED <<queue, inserted, local, sent, rounds, isLocal, oneQueue, stop, thrown,
                      broken, prepared, asked, calls, stops, errors>>
      BY <2>5 DEF TaskEnds
    <3> QED BY <1>0, <2>2, <2>3, <3>1, <3>2, <3>3 DEF TypeOK
  <2>6. CASE TaskThrows(r, m)
    <3>1. told' \in [Messages -> Nat] /\ thrown' \in [Receivers -> BOOLEAN]
      BY <1>0, <2>6 DEF TaskThrows, TypeOK
    <3>2. UNCHANGED <<queue, inserted, local, sent, rounds, isLocal, oneQueue, stop, broken,
                      tasks, prepared, asked, calls, stops, errors>>
      BY <2>6 DEF TaskThrows
    <3> QED BY <1>0, <2>2, <2>3, <3>1, <3>2 DEF TypeOK
  <2> QED BY <1>8, <2>4, <2>5, <2>6
<1>9. ASSUME NEW r \in Receivers, NEW m \in Messages, EmplaceStarts(r, m)
      PROVE  TypeOK'
  <2>1. /\ queue' \in Seq(Messages) /\ Len(queue') <= Capacity
        /\ local' \in [Receivers -> Seq(Messages)]
    BY <1>0, <1>9, TakenTypes DEF EmplaceStarts
  <2>2. pc' \in [Receivers -> Places]
    BY <1>0, <1>9, Gone DEF EmplaceStarts, Places
  <2>3. tasks' \in [Receivers -> SUBSET Messages]
    BY <1>0, <1>9 DEF EmplaceStarts, TypeOK
  <2>4. \A q \in Receivers : IsFiniteSet(tasks'[q])
    <3>1. IsFiniteSet(tasks[r] \cup {m})
      BY <1>0, FS_AddElement DEF TypeOK
    <3>2. tasks'[r] = tasks[r] \cup {m} /\ \A q \in Receivers \ {r} : tasks'[q] = tasks[q]
      BY <1>0, <1>9 DEF EmplaceStarts, TypeOK
    <3> QED BY <1>0, <3>1, <3>2 DEF TypeOK
  <2>5. /\ prepared' \in [Receivers -> SUBSET Entries]
        /\ \A q \in Receivers : IsFiniteSet(prepared'[q])
    <3>1. rounds[m] \in 0 .. MaxRounds
      BY <1>0 DEF TypeOK
    <3> QED BY <1>0, <1>9, <3>1, OperationTypes, PreparedTypes DEF EmplaceStarts
  <2> QED BY <1>0, <1>9, <2>1, <2>2, <2>3, <2>4, <2>5 DEF EmplaceStarts, TypeOK
<1>10. ASSUME NEW r \in Receivers, NEW m \in Messages, EmplaceAborts(r, m) \/ EmplaceThrows(r, m)
       PROVE  TypeOK'
  <2>1. /\ queue' \in Seq(Messages) /\ Len(queue') <= Capacity
        /\ local' \in [Receivers -> Seq(Messages)]
    BY <1>0, <1>10, TakenTypes DEF EmplaceAborts, EmplaceThrows
  <2>2. pc' \in [Receivers -> Places]
    BY <1>0, <1>10, Gone DEF EmplaceAborts, EmplaceThrows, Places
  <2>3. told' \in [Messages -> Nat] /\ thrown' \in [Receivers -> BOOLEAN]
    <3>1. CASE EmplaceAborts(r, m)
      BY <1>0, <3>1 DEF EmplaceAborts, TypeOK
    <3>2. CASE EmplaceThrows(r, m)
      BY <1>0, <3>2 DEF EmplaceThrows, TypeOK
    <3> QED BY <1>10, <3>1, <3>2
  <2> QED BY <1>0, <1>10, <2>1, <2>2, <2>3 DEF EmplaceAborts, EmplaceThrows, TypeOK
<1>11. ASSUME NEW r \in Receivers, Submit(r)
       PROVE  TypeOK'
  <2>1. pc' \in [Receivers -> Places]
    BY <1>0, <1>11, Gone DEF Submit, Places
  <2>2. /\ Cardinality(prepared[r]) \in Nat /\ IsFiniteSet({})
        /\ IsFiniteSet(flying[r] \cup prepared[r])
    BY <1>0, FS_CardinalityType, FS_Union, FS_EmptySet DEF TypeOK
  <2>3. /\ count' \in [Receivers -> Nat] /\ flying' \in [Receivers -> SUBSET Entries]
        /\ prepared' \in [Receivers -> SUBSET Entries]
    BY <1>0, <1>11, <2>2 DEF Submit, TypeOK
  <2>4. \A q \in Receivers : IsFiniteSet(flying'[q]) /\ IsFiniteSet(prepared'[q])
    BY <1>0, <1>11, <2>2 DEF Submit, TypeOK
  <2> QED BY <1>0, <1>11, <2>1, <2>3, <2>4 DEF Submit, TypeOK
<1>12. ASSUME NEW r \in Receivers, Leave(r) \/ SubmitFails(r)
       PROVE  TypeOK'
  <2>1. pc' \in [Receivers -> Places]
    BY <1>0, <1>12, Gone DEF Leave, SubmitFails, Places
  <2>2. /\ stop' \in [Receivers -> BOOLEAN] /\ broken' \in [Receivers -> BOOLEAN]
        /\ errors' \in Nat
    <3>1. CASE Leave(r)
      <4>1. (stop[r] /\ ~ oneQueue[r]) \in BOOLEAN /\ thrown[r] \in BOOLEAN
        BY <1>0 DEF TypeOK
      <4>2. stop' \in [Receivers -> BOOLEAN]
        BY <1>0, <3>1, <4>1 DEF Leave, TypeOK
      <4>3. broken' \in [Receivers -> BOOLEAN] /\ errors' \in Nat
        BY <1>0, <3>1, <4>1 DEF Leave, TypeOK
      <4> QED BY <4>2, <4>3
    <3>2. CASE SubmitFails(r)
      BY <1>0, <3>2 DEF SubmitFails, TypeOK
    <3> QED BY <1>12, <3>1, <3>2
  <2> QED BY <1>0, <1>12, <2>1, <2>2 DEF Leave, SubmitFails, TypeOK
<1>13. CASE UNCHANGED vars
  BY <1>0, <1>13 DEF vars, TypeOK
<1> QED BY <1>1, <1>2, <1>3, <1>4, <1>5, <1>6, <1>7, <1>8, <1>9, <1>10, <1>11, <1>12, <1>13 DEF Next, Step

-----------------------------------------------------------------------------
(* The books of the receivers.  What a receiver owns is split into what only depends on its
   tasks and entries, and what also depends on where it is.                               *)

\* The operations of a receiver belong to its tasks, one to each at most.
Claimed(r) ==
  \A m \in Messages :
    /\ \A d, e \in Operations(r, m) : d = e
    /\ Operations(r, m) # {} => m \in tasks[r] /\ told[m] = 0

\* Each of its tasks has one.
Awaited(r) ==
  NoSubmitFailed /\ ~ thrown[r] => \A m \in tasks[r] : Operations(r, m) # {}

Owned(r) == EntriesApart(r) /\ Claimed(r) /\ Cardinality(tasks[r]) <= ConcurrentRequests

Placed(r) == Awaited(r) /\ CountMatches(r) /\ ReturnsDrained(r) /\ RoundsOrderly(r)

\* Sets that have nothing in common.
LEMMA ApartCount ==
  ASSUME NEW S, NEW T, IsFiniteSet(S), IsFiniteSet(T), S \cap T = {}
  PROVE  /\ Cardinality(S \cup T) = Cardinality(S) + Cardinality(T)
         /\ Cardinality(S) \in Nat /\ Cardinality(T) \in Nat
<1>1. Cardinality(S \cup T) = Cardinality(S) + Cardinality(T) - Cardinality(S \cap T)
  BY FS_Union
<1>2. Cardinality(S) \in Nat /\ Cardinality(T) \in Nat /\ Cardinality(S \cap T) = 0
  BY FS_CardinalityType, FS_EmptySet
<1> QED BY <1>1, <1>2

\* The ring has room for the operations of all tasks and their timeouts.
LEMMA OwnedFits ==
  ASSUME TypeOK, NEW r \in Receivers, Owned(r)
  PROVE  RingFits(r)
<1> DEFINE Of(kind) == {e \in prepared[r] : e.kind = kind}
           ofTask == [e \in Of("operation") |-> e.message]
           linked == [e \in Of("timeout") |-> [e EXCEPT !.kind = "operation"]]
<1>1. /\ prepared[r] \in SUBSET Entries /\ IsFiniteSet(prepared[r])
      /\ tasks[r] \in SUBSET Messages /\ IsFiniteSet(tasks[r])
  BY DEF TypeOK
<1>2. Of("operation") \in SUBSET prepared[r] /\ Of("timeout") \in SUBSET prepared[r]
  OBVIOUS
<1>3. IsFiniteSet(Of("operation")) /\ IsFiniteSet(Of("timeout"))
  BY <1>1, <1>2, FS_Subset
<1>4. Cardinality(Of("operation")) <= Cardinality(tasks[r])
  <2>1. ASSUME NEW e \in Of("operation")
        PROVE  e.message \in tasks[r] /\ e \in Operations(r, e.message) /\ e.message \in Messages
    BY <1>1 DEF Owned, Claimed, Operations, Entries
  <2>2. \A d, e \in Of("operation") : d.message = e.message => d = e
    BY <2>1 DEF Owned, Claimed
  <2>3. ofTask \in Injection(Of("operation"), tasks[r])
    BY <2>1, <2>2 DEF Injection, IsInjective
  <2> QED BY <1>1, <2>3, FS_Injection
<1>5. Cardinality(Of("timeout")) <= Cardinality(Of("operation"))
  <2>1. \A e \in Of("timeout") : linked[e] \in Of("operation")
    BY <1>1 DEF Owned, EntriesApart, Entries
  <2>2. \A d, e \in Of("timeout") : linked[d] = linked[e] => d = e
    <3> SUFFICES ASSUME NEW d \in Of("timeout"), NEW e \in Of("timeout"), linked[d] = linked[e]
                 PROVE  d = e
      OBVIOUS
    <3>1. d \in Entries /\ e \in Entries
      BY <1>1
    <3>2. linked[d].message = d.message /\ linked[e].message = e.message
          /\ linked[d].round = d.round /\ linked[e].round = e.round
      BY <3>1 DEF Entries
    <3>3. d.message = e.message /\ d.round = e.round /\ d.kind = e.kind
      BY <3>2
    <3> QED BY <3>1, <3>3 DEF Entries
  <2>3. linked \in Injection(Of("timeout"), Of("operation"))
    BY <2>1, <2>2 DEF Injection, IsInjective
  <2> QED BY <1>3, <2>3, FS_Injection
<1>6. prepared[r] = Of("operation") \cup Of("timeout") /\ Of("operation") \cap Of("timeout") = {}
  BY <1>1 DEF Entries
<1> HIDE DEF Of
<1>7. Cardinality(prepared[r]) = Cardinality(Of("operation")) + Cardinality(Of("timeout"))
  BY <1>3, <1>6, ApartCount
<1>8. /\ Cardinality(Of("operation")) \in Nat /\ Cardinality(Of("timeout")) \in Nat
      /\ Cardinality(tasks[r]) \in Nat
  BY <1>1, <1>3, FS_CardinalityType
<1> QED BY <1>4, <1>5, <1>7, <1>8, TaskedAssumption DEF Owned, RingFits, RingEntries, TaskedAssumption

\* What Inv says of one receiver, and what has to be shown of it.
LEMMA BooksOf ==
  ASSUME Inv, NEW r \in Receivers
  PROVE  Owned(r) /\ Placed(r)
<1>1. /\ EntriesApart(r) /\ CountMatches(r) /\ ReturnsDrained(r) /\ RoundsOrderly(r)
      /\ Cardinality(tasks[r]) <= ConcurrentRequests
  BY DEF Inv, RingFits
<1>2. OneOperationPerTask(r) /\ tasks[r] \in SUBSET Messages
  BY DEF Inv, TypeOK
<1>3. Claimed(r)
  BY <1>2 DEF Claimed, OneOperationPerTask
<1>4. Awaited(r)
  BY <1>2 DEF Awaited, OneOperationPerTask
<1> QED BY <1>1, <1>3, <1>4 DEF Owned, Placed

LEMMA BooksKept ==
  ASSUME TypeOK', NEW r \in Receivers, Owned(r)', Placed(r)'
  PROVE  CountMatches(r)' /\ OneOperationPerTask(r)' /\ RingFits(r)' /\ ReturnsDrained(r)'
           /\ RoundsOrderly(r)' /\ EntriesApart(r)'
<1>1. RingFits(r)'
  BY OwnedFits, PTL
<1> QED BY <1>1 DEF Owned, Placed, Claimed, Awaited, OneOperationPerTask

\* The tasks and entries of a receiver stay, and no callback of its tasks runs.
LEMMA OwnedStays ==
  ASSUME TypeOK, NEW q \in Receivers, Owned(q),
         tasks'[q] = tasks[q], prepared'[q] = prepared[q], flying'[q] = flying[q],
         \A m \in Messages : rounds'[m] \in Int /\ rounds[m] <= rounds'[m],
         \A m \in tasks[q] : told[m] = 0 => told'[m] = 0
  PROVE  Owned(q)'
<1>1. EntriesApart(q)'
  <2>1. \A e \in prepared[q] \cup flying[q] : e.message \in Messages /\ e.round \in 0 .. MaxRounds
    BY DEF TypeOK, Entries
  <2>2. \A m \in Messages : rounds[m] \in 0 .. MaxRounds
    BY DEF TypeOK
  <2>3. prepared[q] \cap flying[q] = {}
    BY DEF Owned, EntriesApart
  <2>4. \A e \in prepared[q] \cup flying[q] : e.round <= rounds[e.message]
    BY DEF Owned, EntriesApart
  <2>5. \A e \in prepared[q] \cup flying[q] : e.round <= rounds'[e.message]
    <3> SUFFICES ASSUME NEW e \in prepared[q] \cup flying[q]
                 PROVE  e.round <= rounds'[e.message]
      OBVIOUS
    <3>1. /\ e.round \in Int /\ rounds[e.message] \in Int /\ rounds'[e.message] \in Int
          /\ rounds[e.message] <= rounds'[e.message]
      BY <2>1, <2>2
    <3> QED BY <2>4, <3>1
  <2>6. \A e \in prepared[q] : [e EXCEPT !.kind = "operation"] \in prepared[q]
    BY DEF Owned, EntriesApart
  <2> QED BY <2>3, <2>5, <2>6 DEF EntriesApart
<1>2. Claimed(q)'
  BY DEF Owned, Claimed, Operations
<1> QED BY <1>1, <1>2 DEF Owned

\* It stays where it is as well.
LEMMA PlacedStays ==
  ASSUME NEW q \in Receivers, Placed(q), NoSubmitFailed' => NoSubmitFailed,
         tasks'[q] = tasks[q], prepared'[q] = prepared[q], flying'[q] = flying[q],
         pc'[q] = pc[q], count'[q] = count[q], thrown'[q] = thrown[q], broken'[q] = broken[q]
  PROVE  Placed(q)'
BY DEF Placed, Awaited, Operations, CountMatches, Running, ReturnsDrained, RoundsOrderly

\* A message that is taken is no receiver's yet.
LEMMA TakenUntouched ==
  ASSUME Inv, NEW r \in Receivers, NEW m \in Messages, Taken(r, m)
  PROVE  Untouched(m)
<1>1. TypeOK /\ NothingDuplicated
  BY DEF Inv
<1>2. CASE isLocal[r]
  <2>1. local[r] \in Seq(Messages) /\ local[r] # <<>> /\ m = Head(local[r])
    BY <1>1, <1>2 DEF Taken, Source, TypeOK
  <2>2. 1 \in DOMAIN local[r] /\ local[r][1] = m
    BY <2>1, EmptySeq, LenProperties
  <2> QED BY <1>1, <2>2 DEF In, NothingDuplicated
<1>3. CASE ~ isLocal[r]
  <2>1. queue \in Seq(Messages) /\ queue # <<>> /\ m = Head(queue)
    BY <1>1, <1>3 DEF Taken, Source, TypeOK
  <2>2. 1 \in DOMAIN queue /\ queue[1] = m
    BY <2>1, EmptySeq, LenProperties
  <2> QED BY <1>1, <2>2 DEF In, NothingDuplicated
<1> QED BY <1>2, <1>3

-----------------------------------------------------------------------------
(* Each action keeps the books. *)

\* Nothing of a receiver's own changes, but perhaps where it is.
LEMMA OthersKeepBooks ==
  ASSUME Inv, TypeOK', NEW q \in Receivers, NoSubmitFailed' => NoSubmitFailed,
         tasks'[q] = tasks[q], prepared'[q] = prepared[q], flying'[q] = flying[q],
         pc'[q] = pc[q], count'[q] = count[q], thrown'[q] = thrown[q], broken'[q] = broken[q],
         \A m \in Messages : rounds[m] <= rounds'[m],
         \A m \in tasks[q] : told[m] = 0 => told'[m] = 0
  PROVE  Owned(q)' /\ Placed(q)'
<1>1. Owned(q) /\ Placed(q) /\ TypeOK
  BY BooksOf DEF Inv
<1>2. \A m \in Messages : rounds'[m] \in Int
  BY DEF TypeOK
<1> QED BY <1>1, <1>2, OwnedStays, PlacedStays

\* The callback of a task that has an operation is no one else's business.
LEMMA OwnTask ==
  ASSUME Inv, NEW r \in Receivers, NEW m \in Messages, Operations(r, m) # {}
  PROVE  m \in tasks[r] /\ told[m] = 0 /\ \A q \in Receivers \ {r} : m \notin tasks[q]
BY DEF Inv, OneOperationPerTask, NothingDuplicated

\* A completed operation is the one its task waited for.
LEMMA CompletedOperation ==
  ASSUME Inv, NEW r \in Receivers, NEW m \in Messages, NEW e \in flying[r],
         e.kind = "operation", e.message = m
  PROVE  /\ Operations(r, m) = {e}
         /\ m \in tasks[r] /\ told[m] = 0 /\ \A q \in Receivers \ {r} : m \notin tasks[q]
<1>1. e \in Operations(r, m)
  BY DEF Operations
<1>2. Operations(r, m) = {e}
  BY <1>1 DEF Inv, OneOperationPerTask
<1> QED BY <1>1, <1>2, OwnTask

LEMMA QuietBooks ==
  ASSUME Inv, TypeOK', NEW q \in Receivers,
         UNCHANGED <<rounds, told, pc, thrown, broken, count, tasks, ring, errors>>
  PROVE  Owned(q)' /\ Placed(q)'
<1>1. \A m \in Messages : rounds[m] <= rounds[m]
  BY DEF Inv, TypeOK
<1> QED BY <1>1, OthersKeepBooks DEF ring, NoSubmitFailed

LEMMA CallBooks ==
  ASSUME Inv, TypeOK', NEW r \in Receivers, Call(r) \/ Enter(r), NEW q \in Receivers
  PROVE  Owned(q)' /\ Placed(q)'
<1> USE DEF users, progress, ring
<1>1. TypeOK /\ Owned(r) /\ Placed(r)
  BY BooksOf DEF Inv
<1>2. \A m \in Messages : rounds'[m] \in Int /\ rounds[m] <= rounds'[m]
  BY <1>1 DEF Call, Enter, TypeOK
<1>3. Owned(q)'
  <2>1. Owned(q)
    BY BooksOf
  <2> QED BY <1>1, <1>2, <2>1, OwnedStays DEF Call, Enter
<1>4. CASE q # r
  <2>1. /\ pc'[q] = pc[q] /\ count'[q] = count[q] /\ thrown'[q] = thrown[q]
    BY <1>1, <1>4 DEF Call, Enter, Goto, TypeOK
  <2>2. Placed(q) /\ NoSubmitFailed' = NoSubmitFailed
    BY BooksOf DEF Call, Enter, NoSubmitFailed, bounds
  <2>3. UNCHANGED <<tasks, prepared, flying, broken>>
    BY DEF Call, Enter
  <2> QED BY <1>3, <2>1, <2>2, <2>3, PlacedStays
<1>5. CASE q = r /\ Call(r)
  <2>1. pc[r] = "idle" /\ pc'[r] = "called" /\ ~ broken[r]
    BY <1>1, <1>5 DEF Call, Goto, TypeOK
  <2>2. NoSubmitFailed => ~ thrown[r] /\ tasks[r] = {} /\ flying[r] = {}
    BY <1>1, <2>1 DEF Placed, ReturnsDrained, RoundsOrderly
  <2>3. NoSubmitFailed' = NoSubmitFailed /\ UNCHANGED <<tasks, prepared, flying, thrown>>
    BY <1>5 DEF Call, NoSubmitFailed
  <2>4. NoSubmitFailed => prepared[r] = {}
    BY <1>1, <2>1 DEF Placed, RoundsOrderly
  <2>5. Awaited(r)' /\ CountMatches(r)' /\ ReturnsDrained(r)' /\ RoundsOrderly(r)'
    BY <2>1, <2>2, <2>3, <2>4 DEF Awaited, CountMatches, Running, ReturnsDrained, RoundsOrderly
  <2> QED BY <1>3, <1>5, <2>5 DEF Placed
<1>6. CASE q = r /\ Enter(r)
  <2>1. pc[r] = "called" /\ pc'[r] = "loop" /\ count'[r] = 0 /\ ~ thrown'[r]
    BY <1>1, <1>6 DEF Enter, Goto, TypeOK
  <2>2. NoSubmitFailed => tasks[r] = {} /\ flying[r] = {} /\ prepared[r] = {}
    BY <1>1, <2>1 DEF Placed, RoundsOrderly
  <2>3. NoSubmitFailed' = NoSubmitFailed /\ UNCHANGED <<tasks, prepared, flying>>
    BY <1>6 DEF Enter, NoSubmitFailed, bounds
  <2>4. Cardinality({}) = 0
    BY FS_EmptySet
  <2>5. Awaited(r)' /\ CountMatches(r)' /\ ReturnsDrained(r)' /\ RoundsOrderly(r)'
    BY <2>1, <2>2, <2>3, <2>4 DEF Awaited, CountMatches, Running, ReturnsDrained, RoundsOrderly
  <2> QED BY <1>3, <1>6, <2>5 DEF Placed
<1> QED BY <1>4, <1>5, <1>6

\* The receiver goes from one place of its loop to another.
LEMMA MoveBooks ==
  ASSUME Inv, TypeOK', NEW r \in Receivers,
         Loop(r) \/ Leave(r) \/ Fill(r) \/ EmplaceEnds(r) \/ SubmitFails(r)
           \/ AskInserted(r) \/ AskSeen(r),
         NEW q \in Receivers
  PROVE  Owned(q)' /\ Placed(q)'
<1> USE DEF users, progress, ring, bounds
<1>1. TypeOK /\ Owned(r) /\ Placed(r) /\ Owned(q) /\ Placed(q)
  BY BooksOf DEF Inv
<1>2. UNCHANGED <<progress, thrown, count, tasks, ring>>
  BY DEF Loop, Leave, Fill, EmplaceEnds, SubmitFails, AskInserted, AskSeen
<1>3. \A m \in Messages : rounds'[m] \in Int /\ rounds[m] <= rounds'[m]
  BY <1>1, <1>2 DEF TypeOK
<1>4. Owned(q)'
  BY <1>1, <1>3, <1>2, OwnedStays
<1>5. NoSubmitFailed' => NoSubmitFailed
  <2>1. errors \in Nat
    BY <1>1 DEF TypeOK
  <2> QED BY <2>1 DEF Loop, Leave, Fill, EmplaceEnds, SubmitFails, AskInserted, AskSeen, NoSubmitFailed
<1>6. CASE q # r
  <2>1. pc'[q] = pc[q] /\ broken'[q] = broken[q]
    BY <1>1, <1>6 DEF Loop, Leave, Fill, EmplaceEnds, SubmitFails, AskInserted, AskSeen, Goto, TypeOK
  <2> QED BY <1>1, <1>2, <1>4, <1>5, <2>1, PlacedStays
<1>7. ASSUME q = r
      PROVE  Awaited(r)'
  BY <1>1, <1>2, <1>5 DEF Placed, Awaited, Operations
<1>8. ASSUME Running(r), pc'[r] # "idle", q = r
      PROVE  CountMatches(r)' /\ ReturnsDrained(r)'
  BY <1>1, <1>2, <1>5, <1>8 DEF Placed, CountMatches, ReturnsDrained
<1>9. CASE q = r /\ Loop(r)
  <2>1. pc[r] = "loop" /\ pc'[r] = IF count[r] > 0 THEN "complete" ELSE "fill"
    BY <1>1, <1>9 DEF Loop, Goto, TypeOK
  <2>2. RoundsOrderly(r)'
    BY <1>1, <1>2, <1>5, <2>1 DEF Placed, RoundsOrderly
  <2>3. Running(r) /\ pc'[r] # "idle"
    BY <2>1 DEF Running
  <2> QED BY <1>4, <1>7, <1>8, <1>9, <2>2, <2>3 DEF Placed
<1>10. CASE q = r /\ Fill(r)
  <2>1. pc[r] = "fill" /\ pc'[r] = IF MayAccept(r) THEN "emplace" ELSE "submit"
    BY <1>1, <1>10 DEF Fill, Goto, TypeOK
  <2>2. RoundsOrderly(r)'
    BY <1>1, <1>2, <1>5, <2>1 DEF Placed, RoundsOrderly, MayAccept
  <2>3. Running(r) /\ pc'[r] # "idle"
    BY <2>1 DEF Running
  <2> QED BY <1>4, <1>7, <1>8, <1>10, <2>2, <2>3 DEF Placed
<1>11. CASE q = r /\ (EmplaceEnds(r) \/ AskInserted(r) \/ AskSeen(r))
  <2>1. \/ pc[r] = "emplace" /\ pc'[r] = "submit"
        \/ pc[r] = "askInserted" /\ pc'[r] = "askSeen"
        \/ pc[r] = "askSeen" /\ pc'[r] = "loop"
    BY <1>1, <1>11 DEF EmplaceEnds, AskInserted, AskSeen, Goto, TypeOK
  <2>2. RoundsOrderly(r)'
    BY <1>1, <1>2, <1>5, <2>1 DEF Placed, RoundsOrderly
  <2>3. Running(r) /\ pc'[r] # "idle"
    BY <2>1 DEF Running
  <2> QED BY <1>4, <1>7, <1>8, <1>11, <2>2, <2>3 DEF Placed
<1>12. CASE q = r /\ Leave(r)
  <2>1. pc[r] = "loop" /\ pc'[r] = "idle" /\ broken'[r] = thrown[r] /\ ~ (count[r] > 0)
    BY <1>1, <1>12 DEF Leave, KeepsGoing, Goto, TypeOK
  <2>2. count[r] = 0
    <3>1. count[r] \in Nat
      BY <1>1 DEF TypeOK
    <3> QED BY <2>1, <3>1
  <2>3. NoSubmitFailed => flying[r] = {} /\ prepared[r] = {}
    <3>1. NoSubmitFailed => Cardinality(flying[r]) = 0 /\ prepared[r] = {}
      BY <1>1, <2>1, <2>2 DEF Placed, CountMatches, Running, RoundsOrderly
    <3> QED BY <1>1, <3>1, FS_EmptySet DEF TypeOK
  <2>4. NoSubmitFailed /\ ~ thrown[r] => tasks[r] = {}
    BY <1>1, <2>3 DEF Placed, Awaited, Operations
  <2>5. CountMatches(r)' /\ ReturnsDrained(r)' /\ RoundsOrderly(r)'
    BY <1>2, <1>5, <2>1, <2>3, <2>4 DEF CountMatches, Running, ReturnsDrained, RoundsOrderly
  <2> QED BY <1>4, <1>7, <1>12, <2>5 DEF Placed
<1>13. CASE q = r /\ SubmitFails(r)
  <2>1. pc'[r] = "idle" /\ ~ NoSubmitFailed'
    BY <1>1, <1>13 DEF SubmitFails, Goto, NoSubmitFailed, TypeOK
  <2> QED BY <1>4, <1>7, <1>13, <2>1
          DEF Placed, CountMatches, Running, ReturnsDrained, RoundsOrderly
<1> QED BY <1>6, <1>9, <1>10, <1>11, <1>12, <1>13

\* A linked timeout completes: nothing but the count notices.
LEMMA TimeoutBooks ==
  ASSUME Inv, TypeOK', NEW r \in Receivers, CompleteTimeout(r), NEW q \in Receivers
  PROVE  Owned(q)' /\ Placed(q)'
<1> USE DEF users, progress, bounds
<1>1. TypeOK /\ Owned(r) /\ Placed(r)
  BY BooksOf DEF Inv
<1>2. PICK e \in flying[r] : e.kind = "timeout" /\ flying' = [flying EXCEPT ![r] = @ \ {e}]
  BY DEF CompleteTimeout
<1>3. /\ UNCHANGED <<rounds, told, thrown, broken, tasks, prepared>>
      /\ NoSubmitFailed' = NoSubmitFailed
      /\ \A m \in Messages : rounds[m] <= rounds'[m]
  BY <1>1 DEF CompleteTimeout, NoSubmitFailed, TypeOK
<1>4. CASE q # r
  <2>1. pc'[q] = pc[q] /\ count'[q] = count[q] /\ flying'[q] = flying[q]
    BY <1>1, <1>2, <1>4 DEF CompleteTimeout, Goto, TypeOK
  <2> QED BY <1>3, <2>1, OthersKeepBooks
<1>5. CASE q = r
  <2>1. /\ pc[r] = "complete" /\ pc'[r] = "loop" /\ count'[r] = count[r] - 1
        /\ flying'[r] = flying[r] \ {e}
    BY <1>1, <1>2 DEF CompleteTimeout, Goto, TypeOK
  <2>2. \A m \in Messages : Operations(r, m)' = Operations(r, m)
    BY <1>2, <1>3, <2>1 DEF Operations
  <2>3. EntriesApart(r)'
    BY <1>1, <1>3, <2>1 DEF Owned, EntriesApart
  <2>4. Claimed(r)'
    BY <1>1, <1>3, <2>2 DEF Owned, Claimed
  <2>7. Awaited(r)'
    BY <1>1, <1>3, <2>2 DEF TypeOK, Placed, Awaited
  <2>5. CountMatches(r)'
    <3>1. Cardinality(flying[r] \ {e}) = Cardinality(flying[r]) - 1
      <4>1. IsFiniteSet(flying[r])
        BY <1>1 DEF TypeOK
      <4> QED BY <1>2, <4>1, FS_RemoveElement
    <3>2. NoSubmitFailed => count[r] = Cardinality(flying[r])
      BY <1>1, <2>1 DEF Placed, CountMatches, Running
    <3> QED BY <1>3, <2>1, <3>1, <3>2 DEF CountMatches
  <2>6. ReturnsDrained(r)' /\ RoundsOrderly(r)'
    BY <1>1, <1>3, <2>1 DEF Placed, ReturnsDrained, RoundsOrderly
  <2> QED BY <1>1, <1>3, <1>5, <2>3, <2>4, <2>5, <2>6, <2>7 DEF Owned, Placed
<1> QED BY <1>4, <1>5

\* A task goes on, ends or throws.  Its operation has completed, so it has none but the one
\* it may prepare now.
LEMMA TaskBooks ==
  ASSUME Inv, TypeOK', NEW r \in Receivers, NEW m \in Messages,
         TaskGoesOn(r, m) \/ TaskEnds(r, m) \/ TaskThrows(r, m), NEW q \in Receivers
  PROVE  Owned(q)' /\ Placed(q)'
<1> USE DEF users, bounds
<1>1. TypeOK /\ Owned(r) /\ Placed(r)
  BY BooksOf DEF Inv
<1>2. Completed(r, m)
  BY DEF TaskGoesOn, TaskEnds, TaskThrows
<1>3. PICK e \in flying[r] :
        e.kind = "operation" /\ e.message = m /\ flying' = [flying EXCEPT ![r] = @ \ {e}]
  BY <1>2 DEF Completed
<1>4. /\ Operations(r, m) = {e}
      /\ m \in tasks[r] /\ told[m] = 0 /\ \A p \in Receivers \ {r} : m \notin tasks[p]
  BY <1>3, CompletedOperation
<1>5. /\ pc[r] = "complete" /\ pc'[r] = "fill" /\ count'[r] = count[r] - 1
      /\ flying'[r] = flying[r] \ {e}
      /\ \A p \in Receivers \ {r} : pc'[p] = pc[p] /\ count'[p] = count[p] /\ flying'[p] = flying[p]
  <2>1. pc[r] = "complete" /\ pc'[r] = "fill" /\ \A p \in Receivers \ {r} : pc'[p] = pc[p]
    BY <1>1, <1>2 DEF Completed, Goto, TypeOK
  <2>2. count'[r] = count[r] - 1 /\ \A p \in Receivers \ {r} : count'[p] = count[p]
    BY <1>1, <1>2 DEF Completed, TypeOK
  <2>3. flying'[r] = flying[r] \ {e} /\ \A p \in Receivers \ {r} : flying'[p] = flying[p]
    BY <1>1, <1>3 DEF TypeOK
  <2> QED BY <2>1, <2>2, <2>3
<1>6. NoSubmitFailed' = NoSubmitFailed /\ UNCHANGED broken
  BY DEF TaskGoesOn, TaskEnds, TaskThrows, NoSubmitFailed
<1>7. \A k \in Messages : rounds[k] \in Int /\ rounds'[k] \in Int
  BY <1>1 DEF TypeOK
<1>8. \A k \in Messages : rounds[k] <= rounds'[k]
  <2>1. rounds' = rounds \/ rounds' = [rounds EXCEPT ![m] = @ + 1]
    <3>1. CASE TaskGoesOn(r, m)
      BY <3>1 DEF TaskGoesOn
    <3>2. CASE TaskEnds(r, m) \/ TaskThrows(r, m)
      BY <3>2 DEF TaskEnds, TaskThrows
    <3> QED BY <3>1, <3>2
  <2>2. \A k \in Messages : rounds'[k] = rounds[k] \/ rounds'[k] = rounds[k] + 1
    <3>1. DOMAIN rounds = Messages
      BY <1>1 DEF TypeOK
    <3> QED BY <2>1, <3>1
  <2> SUFFICES ASSUME NEW k \in Messages PROVE rounds[k] <= rounds'[k]
    OBVIOUS
  <2>3. rounds[k] \in Int
    BY <1>7
  <2> QED BY <2>2, <2>3
<1>9. \A k \in Messages \ {m} : told'[k] = told[k]
  BY <1>1 DEF TaskGoesOn, TaskEnds, TaskThrows, TypeOK
<1>10. CASE q # r
  <2>1. tasks'[q] = tasks[q] /\ prepared'[q] = prepared[q] /\ thrown'[q] = thrown[q]
    BY <1>1, <1>10 DEF TaskGoesOn, TaskEnds, TaskThrows, TypeOK
  <2>2. \A k \in tasks[q] : told'[k] = told[k]
    BY <1>1, <1>4, <1>9, <1>10 DEF TypeOK
  <2> QED BY <1>5, <1>6, <1>8, <1>10, <2>1, <2>2, OthersKeepBooks
<1>11. CountMatches(r)' /\ ReturnsDrained(r)' /\ RoundsOrderly(r)'
  <2>1. Cardinality(flying[r] \ {e}) = Cardinality(flying[r]) - 1
    <3>1. IsFiniteSet(flying[r])
      BY <1>1 DEF TypeOK
    <3> QED BY <1>3, <3>1, FS_RemoveElement
  <2>2. NoSubmitFailed => count[r] = Cardinality(flying[r])
    BY <1>1, <1>5 DEF Placed, CountMatches, Running
  <2>3. CountMatches(r)'
    BY <1>5, <1>6, <2>1, <2>2 DEF CountMatches
  <2> QED BY <1>5, <2>3 DEF ReturnsDrained, RoundsOrderly
<1>12. CASE q = r /\ TaskGoesOn(r, m)
  <2>1. PICK timed \in BOOLEAN :
          prepared' = [prepared EXCEPT ![r] = @ \cup Operation(m, rounds[m] + 1, timed)]
    BY <1>12 DEF TaskGoesOn
  <2> DEFINE es == Operation(m, rounds[m] + 1, timed)
             o == [message |-> m, round |-> rounds[m] + 1, kind |-> "operation"]
  <2>2. prepared'[r] = prepared[r] \cup es /\ rounds'[m] = rounds[m] + 1
    BY <1>1, <1>12, <2>1 DEF TaskGoesOn, TypeOK
  <2>3. o \in es /\ \A d \in es : d.message = m /\ d.round = rounds[m] + 1
          /\ [d EXCEPT !.kind = "operation"] = o /\ (d.kind = "operation" => d = o)
    BY DEF Operation
  <2>4. UNCHANGED <<told, tasks, thrown>>
    BY <1>12 DEF TaskGoesOn
  <2> HIDE DEF es, o
  <2>5. EntriesApart(r)'
    <3>1. \A d \in prepared[r] \cup flying[r] : d \in Entries /\ d.message \in Messages /\ d.round \in Int
      <4>1. prepared[r] \in SUBSET Entries /\ flying[r] \in SUBSET Entries
        BY <1>1 DEF TypeOK
      <4>2. \A d \in Entries : d.message \in Messages /\ d.round \in Int
        BY DEF Entries
      <4> QED BY <4>1, <4>2
    <3>2. \A d \in prepared[r] \cup flying[r] : d.round <= rounds[d.message]
      BY <1>1 DEF Owned, EntriesApart
    <3>3. \A d \in prepared[r] \cup flying[r] : d.round <= rounds'[d.message]
      BY <1>7, <1>8, <3>1, <3>2
    <3>4. \A d \in es : d \notin flying[r]
      BY <1>7, <2>3, <3>1, <3>2
    <3>5. prepared'[r] \cap flying'[r] = {}
      BY <1>1, <1>5, <2>2, <3>4 DEF Owned, EntriesApart
    <3>6. \A d \in es : d.round <= rounds'[d.message]
      BY <1>7, <2>2, <2>3
    <3>7. \A d \in prepared'[r] \cup flying'[r] : d.round <= rounds'[d.message]
      BY <1>5, <2>2, <3>3, <3>6
    <3>8. \A d \in prepared'[r] : [d EXCEPT !.kind = "operation"] \in prepared'[r]
      BY <1>1, <2>2, <2>3 DEF Owned, EntriesApart
    <3> QED BY <3>5, <3>7, <3>8 DEF EntriesApart
  <2>6. /\ Operations(r, m)' = {o}
        /\ \A k \in Messages \ {m} : Operations(r, k)' = Operations(r, k)
    <3>1. o.kind = "operation" /\ o.message = m
      BY DEF o
    <3>2. \A d \in prepared[r] \cup flying[r] : d.kind = "operation" /\ d.message = m => d = e
      BY <1>4 DEF Operations
    <3>3. e \notin prepared[r]
      BY <1>1, <1>3 DEF Owned, EntriesApart
    <3>4. Operations(r, m)' = {o}
      BY <1>5, <2>2, <2>3, <3>1, <3>2, <3>3 DEF Operations
    <3> QED BY <1>3, <1>5, <2>2, <2>3, <3>4 DEF Operations
  <2>7. Claimed(r)'
    BY <1>1, <1>4, <2>4, <2>6 DEF Owned, Claimed
  <2>8. Awaited(r)'
    BY <1>1, <1>6, <2>4, <2>6 DEF TypeOK, Placed, Awaited
  <2> QED BY <1>1, <1>11, <1>12, <2>4, <2>5, <2>7, <2>8 DEF Owned, Placed
<1>13. ASSUME UNCHANGED <<prepared, rounds>>
       PROVE  /\ EntriesApart(r)' /\ Operations(r, m)' = {}
              /\ \A k \in Messages \ {m} : Operations(r, k)' = Operations(r, k)
  <2>1. EntriesApart(r)'
    BY <1>1, <1>5, <1>13 DEF Owned, EntriesApart
  <2>2. e \notin prepared[r]
    BY <1>1, <1>3 DEF Owned, EntriesApart
  <2>3. \A d \in prepared[r] \cup flying[r] : d.kind = "operation" /\ d.message = m => d = e
    BY <1>4 DEF Operations
  <2> QED BY <1>3, <1>5, <1>13, <2>1, <2>2, <2>3 DEF Operations
<1>14. CASE q = r /\ TaskEnds(r, m)
  <2>1. UNCHANGED <<prepared, rounds, thrown>> /\ tasks'[r] = tasks[r] \ {m}
    BY <1>1, <1>14 DEF TaskEnds, TypeOK
  <2>2. Claimed(r)'
    BY <1>1, <1>9, <1>13, <2>1 DEF Owned, Claimed
  <2>3. Awaited(r)'
    BY <1>1, <1>6, <1>13, <2>1 DEF TypeOK, Placed, Awaited
  <2>4. Cardinality(tasks'[r]) <= ConcurrentRequests
    <3>1. Cardinality(tasks[r]) <= ConcurrentRequests /\ IsFiniteSet(tasks[r])
      BY <1>1 DEF Owned, TypeOK
    <3>2. Cardinality(tasks[r]) \in Nat /\ Cardinality(tasks[r] \ {m}) = Cardinality(tasks[r]) - 1
      BY <1>4, <3>1, FS_CardinalityType, FS_RemoveElement
    <3> QED BY <2>1, <3>1, <3>2, TaskedAssumption DEF TaskedAssumption
  <2> QED BY <1>11, <1>13, <1>14, <2>1, <2>2, <2>3, <2>4 DEF Owned, Placed
<1>15. CASE q = r /\ TaskThrows(r, m)
  <2>1. UNCHANGED <<prepared, rounds, tasks>> /\ thrown'[r]
    BY <1>1, <1>15 DEF TaskThrows, TypeOK
  <2>2. Claimed(r)'
    BY <1>1, <1>9, <1>13, <2>1 DEF Owned, Claimed
  <2>3. Awaited(r)'
    BY <2>1 DEF Awaited
  <2> QED BY <1>1, <1>11, <1>13, <1>15, <2>1, <2>2, <2>3 DEF Owned, Placed
<1> QED BY <1>10, <1>12, <1>14, <1>15

\* A message is taken from a queue.  No receiver has worked on it.
LEMMA EmplaceBooks ==
  ASSUME Inv, TypeOK', NEW r \in Receivers, NEW m \in Messages,
         EmplaceStarts(r, m) \/ EmplaceAborts(r, m) \/ EmplaceThrows(r, m), NEW q \in Receivers
  PROVE  Owned(q)' /\ Placed(q)'
<1>1. TypeOK /\ Owned(r) /\ Placed(r) /\ Owned(q) /\ Placed(q)
  BY BooksOf DEF Inv
<1>2. Untouched(m)
  BY TakenUntouched DEF EmplaceStarts, EmplaceAborts, EmplaceThrows
<1>3. UNCHANGED <<rounds, broken, count, flying>> /\ NoSubmitFailed' = NoSubmitFailed
  BY DEF EmplaceStarts, EmplaceAborts, EmplaceThrows, NoSubmitFailed, progress, ring, bounds
<1>4. \A k \in Messages : rounds[k] <= rounds'[k] /\ rounds'[k] \in Int
  BY <1>1, <1>3 DEF TypeOK
<1>5. \A k \in tasks[q] : told'[k] = told[k]
  <2>1. \A k \in Messages \ {m} : told'[k] = told[k]
    BY <1>1 DEF EmplaceStarts, EmplaceAborts, EmplaceThrows, progress, TypeOK
  <2> QED BY <1>1, <1>2, <2>1 DEF Untouched, TypeOK
<1>6. CASE q # r
  <2>1. pc'[q] = pc[q] /\ thrown'[q] = thrown[q]
    BY <1>1, <1>6 DEF EmplaceStarts, EmplaceAborts, EmplaceThrows, Goto, TypeOK
  <2>2. tasks'[q] = tasks[q] /\ prepared'[q] = prepared[q]
    BY <1>1, <1>6 DEF EmplaceStarts, EmplaceAborts, EmplaceThrows, ring, TypeOK
  <2> QED BY <1>3, <1>4, <1>5, <2>1, <2>2, OthersKeepBooks
<1>7. CASE EmplaceAborts(r, m)
  <2>1. UNCHANGED <<thrown, tasks, prepared>> /\ pc'[q] = pc[q]
    BY <1>1, <1>7 DEF EmplaceAborts, Goto, ring, TypeOK
  <2> QED BY <1>3, <1>4, <1>5, <2>1, OthersKeepBooks
<1>8. CASE q = r /\ EmplaceThrows(r, m)
  <2>1. /\ UNCHANGED <<tasks, prepared>> /\ thrown'[r]
        /\ pc[r] = "emplace" /\ pc'[r] = "submit"
    BY <1>1, <1>8 DEF EmplaceThrows, Goto, ring, TypeOK
  <2>2. Owned(r)'
    BY <1>1, <1>3, <1>4, <1>5, <1>8, <2>1, OwnedStays
  <2>3. Awaited(r)' /\ CountMatches(r)' /\ ReturnsDrained(r)' /\ RoundsOrderly(r)'
    BY <1>1, <1>3, <2>1
       DEF Placed, Awaited, CountMatches, Running, ReturnsDrained, RoundsOrderly
  <2> QED BY <1>8, <2>2, <2>3 DEF Placed
<1>9. CASE q = r /\ EmplaceStarts(r, m)
  <2>1. PICK timed \in BOOLEAN :
          prepared' = [prepared EXCEPT ![r] = @ \cup Operation(m, rounds[m], timed)]
    BY <1>9 DEF EmplaceStarts
  <2> DEFINE es == Operation(m, rounds[m], timed)
             o == [message |-> m, round |-> rounds[m], kind |-> "operation"]
  <2>2. prepared'[r] = prepared[r] \cup es /\ tasks'[r] = tasks[r] \cup {m}
    BY <1>1, <1>9, <2>1 DEF EmplaceStarts, TypeOK
  <2>3. o \in es /\ \A d \in es : d.message = m /\ d.round = rounds[m]
          /\ [d EXCEPT !.kind = "operation"] = o /\ (d.kind = "operation" => d = o)
    BY DEF Operation
  <2>4. o.kind = "operation" /\ o.message = m
    OBVIOUS
  <2>5. /\ UNCHANGED <<told, thrown>> /\ pc[r] = "emplace"
        /\ pc'[r] = IF Cardinality(tasks'[r]) >= ConcurrentRequests THEN "submit" ELSE "emplace"
    BY <1>1, <1>9 DEF EmplaceStarts, Goto, progress, TypeOK
  <2> HIDE DEF es, o
  <2>6. \A d \in prepared[r] \cup flying[r] : d.message # m
    BY <1>2 DEF Untouched
  <2>7. EntriesApart(r)'
    <3>1. prepared'[r] \cap flying'[r] = {}
      BY <1>1, <1>3, <2>2, <2>3, <2>6 DEF Owned, EntriesApart
    <3>2. \A d \in es : d.round <= rounds'[d.message]
      BY <1>3, <1>4, <2>3
    <3>3. \A d \in prepared'[r] \cup flying'[r] : d.round <= rounds'[d.message]
      BY <1>1, <1>3, <2>2, <3>2 DEF Owned, EntriesApart
    <3>4. \A d \in prepared'[r] : [d EXCEPT !.kind = "operation"] \in prepared'[r]
      BY <1>1, <2>2, <2>3 DEF Owned, EntriesApart
    <3> QED BY <3>1, <3>3, <3>4 DEF EntriesApart
  <2>8. /\ Operations(r, m)' = {o}
        /\ \A k \in Messages \ {m} : Operations(r, k)' = Operations(r, k)
    BY <1>3, <2>2, <2>3, <2>4, <2>6 DEF Operations
  <2>9. Claimed(r)'
    BY <1>1, <1>2, <2>2, <2>5, <2>8 DEF Owned, Claimed, Untouched
  <2>10. Awaited(r)'
    BY <1>1, <1>3, <2>2, <2>5, <2>8 DEF TypeOK, Placed, Awaited
  <2>11. Cardinality(tasks'[r]) \in Nat /\ Cardinality(tasks'[r]) <= ConcurrentRequests
    <3>1. /\ Cardinality(tasks[r]) < ConcurrentRequests /\ IsFiniteSet(tasks[r])
      BY <1>1, <2>5 DEF Placed, RoundsOrderly, TypeOK
    <3>2. /\ Cardinality(tasks[r]) \in Nat /\ m \notin tasks[r]
          /\ Cardinality(tasks[r] \cup {m}) = Cardinality(tasks[r]) + 1
      BY <1>2, <3>1, FS_CardinalityType, FS_AddElement DEF Untouched
    <3> QED BY <2>2, <3>1, <3>2, TaskedAssumption DEF TaskedAssumption
  <2>12. CountMatches(r)' /\ ReturnsDrained(r)'
    BY <1>1, <1>3, <2>5 DEF Placed, CountMatches, Running, ReturnsDrained
  <2>13. RoundsOrderly(r)'
    BY <2>5, <2>11, TaskedAssumption DEF RoundsOrderly, TaskedAssumption
  <2> QED BY <1>9, <2>7, <2>9, <2>10, <2>11, <2>12, <2>13 DEF Owned, Placed
<1> QED BY <1>6, <1>7, <1>8, <1>9

\* What is prepared goes to the kernel.
LEMMA SubmitBooks ==
  ASSUME Inv, TypeOK', NEW r \in Receivers, Submit(r), NEW q \in Receivers
  PROVE  Owned(q)' /\ Placed(q)'
<1>1. TypeOK /\ Owned(r) /\ Placed(r)
  BY BooksOf DEF Inv
<1>2. UNCHANGED <<rounds, told, thrown, broken, tasks>> /\ NoSubmitFailed' = NoSubmitFailed
  BY DEF Submit, NoSubmitFailed, progress, bounds
<1>3. \A k \in Messages : rounds[k] <= rounds'[k]
  BY <1>1, <1>2 DEF TypeOK
<1>4. CASE q # r
  <2>1. /\ pc'[q] = pc[q] /\ count'[q] = count[q]
        /\ prepared'[q] = prepared[q] /\ flying'[q] = flying[q]
    BY <1>1, <1>4 DEF Submit, Goto, TypeOK
  <2> QED BY <1>2, <1>3, <2>1, OthersKeepBooks
<1>5. CASE q = r
  <2>1. /\ prepared'[r] = {} /\ flying'[r] = flying[r] \cup prepared[r]
        /\ count'[r] = count[r] + Cardinality(prepared[r])
        /\ pc[r] = "submit" /\ pc'[r] \in {"askInserted", "loop"}
        /\ pc'[r] = "askInserted" => count'[r] = 0
    BY <1>1 DEF Submit, Goto, TypeOK
  <2>2. \A k \in Messages : Operations(r, k)' = Operations(r, k)
    BY <2>1 DEF Operations
  <2>3. EntriesApart(r)'
    BY <1>1, <1>2, <2>1 DEF Owned, EntriesApart
  <2>4. Claimed(r)'
    BY <1>1, <1>2, <2>2 DEF Owned, Claimed
  <2>7. Awaited(r)'
    BY <1>1, <1>2, <2>2 DEF TypeOK, Placed, Awaited
  <2>5. CountMatches(r)'
    <3>1. /\ IsFiniteSet(flying[r]) /\ IsFiniteSet(prepared[r]) /\ prepared[r] \cap flying[r] = {}
      BY <1>1 DEF TypeOK, Owned, EntriesApart
    <3>2. /\ Cardinality(flying'[r]) = Cardinality(flying[r]) + Cardinality(prepared[r])
      BY <2>1, <3>1, ApartCount
    <3>3. NoSubmitFailed => count[r] = Cardinality(flying[r])
      BY <1>1, <2>1 DEF Placed, CountMatches, Running
    <3> QED BY <1>2, <2>1, <3>2, <3>3 DEF CountMatches
  <2>6. ReturnsDrained(r)' /\ RoundsOrderly(r)'
    BY <2>1 DEF ReturnsDrained, RoundsOrderly
  <2> QED BY <1>1, <1>2, <1>5, <2>3, <2>4, <2>5, <2>6, <2>7 DEF Owned, Placed
<1> QED BY <1>4, <1>5

LEMMA BooksStep ==
  ASSUME Inv, TypeOK', [Next]_vars, NEW q \in Receivers
  PROVE  Owned(q)' /\ Placed(q)'
<1>1. CASE (\E m \in Messages : Send(m)) \/ UNCHANGED vars
  BY <1>1, QuietBooks DEF Send, vars, progress, ring, bounds
<1>2. CASE \E r \in Receivers : Stop(r) \/ \E m \in Messages : SendSync(r, m)
  BY <1>2, QuietBooks DEF Stop, SendSync, progress, ring, bounds
<1>3. CASE \E r \in Receivers : Call(r) \/ Step(r)
  BY <1>3, CallBooks, MoveBooks, TimeoutBooks, TaskBooks, EmplaceBooks, SubmitBooks DEF Step
<1> QED BY <1>1, <1>2, <1>3 DEF Next

-----------------------------------------------------------------------------
(* Each message is in one place. *)

\* A message joins the end of a queue.
LEMMA Appended ==
  ASSUME NEW s \in Seq(Messages), NEW n \in Messages
  PROVE  /\ \A m \in Messages : In(m, Append(s, n)) <=> In(m, s) \/ m = n
         /\ Once(s) /\ ~ In(n, s) => Once(Append(s, n))
<1>1. /\ DOMAIN s = 1 .. Len(s) /\ DOMAIN Append(s, n) = 1 .. Len(s) + 1 /\ Len(s) \in Nat
      /\ Append(s, n)[Len(s) + 1] = n
      /\ \A k \in 1 .. Len(s) : Append(s, n)[k] = s[k]
  BY AppendProperties, LenProperties
<1>2. DOMAIN Append(s, n) = DOMAIN s \cup {Len(s) + 1} /\ Len(s) + 1 \notin DOMAIN s
  BY <1>1
<1>3. \A k \in DOMAIN s : Append(s, n)[k] = s[k]
  BY <1>1
<1>4. \A m \in Messages : In(m, Append(s, n)) <=> In(m, s) \/ m = n
  BY <1>1, <1>2, <1>3 DEF In
<1>5. Once(s) /\ ~ In(n, s) => Once(Append(s, n))
  BY <1>1, <1>2, <1>3 DEF In, Once
<1> QED BY <1>4, <1>5

\* A message leaves the front of a queue.
LEMMA Popped ==
  ASSUME NEW s \in Seq(Messages), s # <<>>
  PROVE  /\ In(Head(s), s)
         /\ \A m : In(m, Tail(s)) => In(m, s)
         /\ Once(s) => Once(Tail(s)) /\ ~ In(Head(s), Tail(s))
<1>1. /\ DOMAIN s = 1 .. Len(s) /\ Len(s) \in Nat \ {0} /\ Head(s) = s[1]
      /\ DOMAIN Tail(s) = 1 .. Len(s) - 1
      /\ \A k \in 1 .. Len(s) - 1 : Tail(s)[k] = s[k + 1]
  <2>1. Len(s) \in Nat \ {0} /\ DOMAIN s = 1 .. Len(s)
    BY LenProperties, EmptySeq
  <2>2. Tail(s) \in Seq(Messages) /\ Len(Tail(s)) = Len(s) - 1
        /\ \A k \in 1 .. Len(Tail(s)) : Tail(s)[k] = s[k + 1]
    BY HeadTailProperties
  <2>3. DOMAIN Tail(s) = 1 .. Len(Tail(s))
    BY <2>2, LenProperties
  <2> QED BY <2>1, <2>2, <2>3
<1>2. 1 \in DOMAIN s /\ \A k \in DOMAIN Tail(s) : k + 1 \in DOMAIN s /\ k + 1 # 1
  BY <1>1
<1>3. \A j, k \in DOMAIN Tail(s) : j + 1 = k + 1 => j = k
  BY <1>1
<1>4. \A k \in DOMAIN Tail(s) : Tail(s)[k] = s[k + 1]
  BY <1>1
<1> QED BY <1>1, <1>2, <1>3, <1>4 DEF In, Once

\* The queues stay, and what a receiver works on now it worked on before.
LEMMA WorkDuplicatesNothing ==
  ASSUME NothingDuplicated, UNCHANGED <<queue, local, sent>>,
         \A k \in Messages : told'[k] <= 1 /\ (Untouched(k) => Untouched(k)'),
         \A q \in Receivers : tasks'[q] \subseteq tasks[q]
  PROVE  NothingDuplicated'
BY DEF NothingDuplicated

\* No message is begun, no callback runs.
LEMMA QuietDuplicatesNothing ==
  ASSUME NothingDuplicated, UNCHANGED <<queue, local, sent, told, tasks>>,
         \A q \in Receivers : \A d \in prepared'[q] \cup flying'[q] :
           \E e \in prepared[q] \cup flying[q] : e.message = d.message
  PROVE  NothingDuplicated'
<1>1. \A k \in Messages : Untouched(k) => Untouched(k)'
  BY DEF Untouched
<1>2. \A k \in Messages : told'[k] <= 1
  BY DEF NothingDuplicated
<1> QED BY <1>1, <1>2, WorkDuplicatesNothing

LEMMA SendDuplicatesNothing ==
  ASSUME Inv, NEW m \in Messages, Send(m) \/ \E r \in Receivers : SendSync(r, m)
  PROVE  NothingDuplicated'
<1>1. TypeOK /\ NothingDuplicated
  BY DEF Inv
<1>2. /\ m \notin sent /\ sent' = sent \cup {m}
      /\ UNCHANGED <<told, tasks, prepared, flying>>
  BY DEF Send, SendSync, progress, ring
<1>3. \A k \in Messages : Untouched(k)' <=> Untouched(k)
  BY <1>2 DEF Untouched
<1>4. Untouched(m) /\ ~ In(m, queue) /\ \A q \in Receivers : ~ In(m, local[q])
  BY <1>1, <1>2 DEF NothingDuplicated
<1>5. CASE Send(m)
  <2>1. queue' = Append(queue, m) /\ queue \in Seq(Messages) /\ UNCHANGED local
    BY <1>1, <1>5 DEF Send, TypeOK
  <2>2. /\ \A k \in Messages : In(k, queue') <=> In(k, queue) \/ k = m
        /\ Once(queue')
    BY <1>1, <1>4, <2>1, Appended DEF NothingDuplicated
  <2> QED BY <1>1, <1>2, <1>3, <1>4, <2>1, <2>2 DEF NothingDuplicated
<1>6. CASE \E r \in Receivers : SendSync(r, m)
  <2>1. PICK r \in Receivers : SendSync(r, m)
    BY <1>6
  <2>2. /\ local'[r] = Append(local[r], m) /\ local[r] \in Seq(Messages) /\ UNCHANGED queue
        /\ \A q \in Receivers \ {r} : local'[q] = local[q]
    BY <1>1, <2>1 DEF SendSync, group, TypeOK
  <2>3. /\ \A k \in Messages : In(k, local'[r]) <=> In(k, local[r]) \/ k = m
        /\ Once(local'[r])
    BY <1>1, <1>4, <2>2, Appended DEF NothingDuplicated
  <2>4. \A q \in Receivers, k \in Messages :
          In(k, local'[q]) <=> In(k, local[q]) \/ (k = m /\ q = r)
    BY <2>2, <2>3
  <2>5. \A q \in Receivers : Once(local'[q])
    BY <1>1, <2>2, <2>3 DEF NothingDuplicated
  <2> QED BY <1>1, <1>2, <1>3, <1>4, <2>2, <2>4, <2>5 DEF NothingDuplicated
<1> QED BY <1>5, <1>6

\* The task that goes on, ends or throws had an operation, so nothing waits under its name.
LEMMA TaskDuplicatesNothing ==
  ASSUME Inv, NEW r \in Receivers, NEW m \in Messages,
         TaskGoesOn(r, m) \/ TaskEnds(r, m) \/ TaskThrows(r, m)
  PROVE  NothingDuplicated'
<1>1. TypeOK /\ NothingDuplicated
  BY DEF Inv
<1>2. Completed(r, m) /\ UNCHANGED <<queue, local, sent>>
  BY DEF TaskGoesOn, TaskEnds, TaskThrows, group, users
<1>3. PICK e \in flying[r] :
        e.kind = "operation" /\ e.message = m /\ flying' = [flying EXCEPT ![r] = @ \ {e}]
  BY <1>2 DEF Completed
<1>4. told[m] = 0 /\ m \in tasks[r]
  BY <1>3, CompletedOperation
<1>5. /\ \A k \in Messages \ {m} : told'[k] = told[k]
      /\ told'[m] \in {told[m], told[m] + 1}
      /\ \A q \in Receivers : tasks'[q] \subseteq tasks[q]
  <2>1. told \in [Messages -> Nat] /\ tasks \in [Receivers -> SUBSET Messages]
    BY <1>1 DEF TypeOK
  <2>2. CASE TaskGoesOn(r, m)
    BY <2>1, <2>2 DEF TaskGoesOn
  <2>3. CASE TaskEnds(r, m)
    BY <2>1, <2>3 DEF TaskEnds
  <2>4. CASE TaskThrows(r, m)
    BY <2>1, <2>4 DEF TaskThrows
  <2> QED BY <2>2, <2>3, <2>4
<1>6. \A q \in Receivers : flying'[q] \subseteq flying[q]
  BY <1>1, <1>3 DEF TypeOK
<1>7. \A q \in Receivers : \A d \in prepared'[q] : d \in prepared[q] \/ d.message = m
  <2>1. CASE UNCHANGED prepared
    BY <2>1
  <2>2. CASE TaskGoesOn(r, m)
    <3>1. PICK timed \in BOOLEAN :
            prepared' = [prepared EXCEPT ![r] = @ \cup Operation(m, rounds[m] + 1, timed)]
      BY <2>2 DEF TaskGoesOn
    <3>2. \A d \in Operation(m, rounds[m] + 1, timed) : d.message = m
      BY DEF Operation
    <3> QED BY <1>1, <3>1, <3>2 DEF TypeOK
  <2> QED BY <2>1, <2>2 DEF TaskEnds, TaskThrows
<1>8. \A k \in Messages : Untouched(k) => Untouched(k)'
  BY <1>4, <1>5, <1>6, <1>7 DEF Untouched
<1>9. \A k \in Messages : told'[k] <= 1
  BY <1>1, <1>4, <1>5 DEF NothingDuplicated
<1> QED BY <1>1, <1>2, <1>5, <1>8, <1>9, WorkDuplicatesNothing

\* A message that is taken is in no queue any more.
LEMMA TakenLeaves ==
  ASSUME Inv, NEW r \in Receivers, NEW m \in Messages, Taken(r, m)
  PROVE  /\ m \in sent /\ Once(queue') /\ \A q \in Receivers : Once(local'[q])
         /\ \A k \in Messages :
              /\ In(k, queue') => In(k, queue) /\ k # m
              /\ \A q \in Receivers : In(k, local'[q]) => In(k, local[q]) /\ k # m
<1>1. TypeOK /\ NothingDuplicated
  BY DEF Inv
<1>2. CASE isLocal[r]
  <2>1. /\ local[r] \in Seq(Messages) /\ local[r] # <<>> /\ m = Head(local[r])
        /\ local'[r] = Tail(local[r]) /\ UNCHANGED queue
        /\ \A q \in Receivers \ {r} : local'[q] = local[q]
    BY <1>1, <1>2 DEF Taken, Source, TypeOK
  <2>2. /\ In(m, local[r]) /\ \A k \in Messages : In(k, local'[r]) => In(k, local[r])
        /\ Once(local'[r]) /\ ~ In(m, local'[r])
    BY <1>1, <2>1, Popped DEF NothingDuplicated
  <2>3. m \in sent /\ ~ In(m, queue) /\ \A q \in Receivers \ {r} : ~ In(m, local[q])
    BY <1>1, <2>2 DEF NothingDuplicated
  <2> QED BY <1>1, <2>1, <2>2, <2>3 DEF NothingDuplicated
<1>3. CASE ~ isLocal[r]
  <2>1. /\ queue \in Seq(Messages) /\ queue # <<>> /\ m = Head(queue)
        /\ queue' = Tail(queue) /\ UNCHANGED local
    BY <1>1, <1>3 DEF Taken, Source, TypeOK
  <2>2. /\ In(m, queue) /\ \A k \in Messages : In(k, queue') => In(k, queue)
        /\ Once(queue') /\ ~ In(m, queue')
    BY <1>1, <2>1, Popped DEF NothingDuplicated
  <2>3. m \in sent /\ \A q \in Receivers : ~ In(m, local[q])
    BY <1>1, <2>2 DEF NothingDuplicated
  <2> QED BY <1>1, <2>1, <2>2, <2>3 DEF NothingDuplicated
<1> QED BY <1>2, <1>3

LEMMA EmplaceDuplicatesNothing ==
  ASSUME Inv, NEW r \in Receivers, NEW m \in Messages,
         EmplaceStarts(r, m) \/ EmplaceAborts(r, m) \/ EmplaceThrows(r, m)
  PROVE  NothingDuplicated'
<1>1. TypeOK /\ NothingDuplicated /\ Untouched(m)
  BY TakenUntouched DEF Inv, EmplaceStarts, EmplaceAborts, EmplaceThrows
<1>2. /\ m \in sent /\ Once(queue') /\ \A q \in Receivers : Once(local'[q])
      /\ \A k \in Messages :
           /\ In(k, queue') => In(k, queue) /\ k # m
           /\ \A q \in Receivers : In(k, local'[q]) => In(k, local[q]) /\ k # m
  BY TakenLeaves DEF EmplaceStarts, EmplaceAborts, EmplaceThrows
<1>3. UNCHANGED <<sent, flying>>
  BY DEF EmplaceStarts, EmplaceAborts, EmplaceThrows, ring
<1>4. /\ \A k \in Messages \ {m} : told'[k] = told[k]
      /\ told'[m] \in {told[m], told[m] + 1}
      /\ \A q \in Receivers \ {r} : tasks'[q] = tasks[q]
      /\ tasks'[r] \subseteq tasks[r] \cup {m}
  BY <1>1 DEF EmplaceStarts, EmplaceAborts, EmplaceThrows, progress, TypeOK
<1>5. \A q \in Receivers : \A d \in prepared'[q] : d \in prepared[q] \/ d.message = m
  <2>1. CASE UNCHANGED prepared
    BY <2>1
  <2>2. CASE EmplaceStarts(r, m)
    <3>1. PICK timed \in BOOLEAN :
            prepared' = [prepared EXCEPT ![r] = @ \cup Operation(m, rounds[m], timed)]
      BY <2>2 DEF EmplaceStarts
    <3>2. \A d \in Operation(m, rounds[m], timed) : d.message = m
      BY DEF Operation
    <3> QED BY <1>1, <3>1, <3>2 DEF TypeOK
  <2> QED BY <2>1, <2>2 DEF EmplaceAborts, EmplaceThrows, ring
<1>6. \A k \in Messages \ {m} : Untouched(k) => Untouched(k)'
  BY <1>3, <1>4, <1>5 DEF Untouched
<1>7. \A k \in Messages : told'[k] <= 1
  BY <1>1, <1>4 DEF NothingDuplicated, Untouched
<1>8. \A k \in Messages : \A p, q \in Receivers :
        (In(k, local'[p]) /\ In(k, local'[q])) \/ (k \in tasks'[p] /\ k \in tasks'[q]) => p = q
  BY <1>1, <1>2, <1>4 DEF NothingDuplicated, Untouched
<1> QED BY <1>1, <1>2, <1>3, <1>6, <1>7, <1>8 DEF NothingDuplicated

LEMMA DuplicatedStep ==
  ASSUME Inv, [Next]_vars
  PROVE  NothingDuplicated'
<1> USE DEF group, users, progress, ring
<1>1. TypeOK /\ NothingDuplicated
  BY DEF Inv
<1>2. CASE \E m \in Messages : Send(m) \/ \E r \in Receivers : SendSync(r, m)
  BY <1>2, SendDuplicatesNothing
<1>3. ASSUME NEW r \in Receivers,
             Call(r) \/ Stop(r) \/ Enter(r) \/ Loop(r) \/ Leave(r) \/ Fill(r) \/ EmplaceEnds(r)
               \/ SubmitFails(r) \/ AskInserted(r) \/ AskSeen(r)
      PROVE  NothingDuplicated'
  <2>1. UNCHANGED <<queue, local, sent, told, tasks, prepared, flying>>
    BY <1>3 DEF Call, Stop, Enter, Loop, Leave, Fill, EmplaceEnds, SubmitFails, AskInserted, AskSeen
  <2> QED BY <1>1, <2>1, QuietDuplicatesNothing
<1>4. ASSUME NEW r \in Receivers, CompleteTimeout(r)
      PROVE  NothingDuplicated'
  <2>1. UNCHANGED <<queue, local, sent, told, tasks, prepared>>
    BY <1>4 DEF CompleteTimeout
  <2>2. \A q \in Receivers : flying'[q] \subseteq flying[q]
    BY <1>1, <1>4 DEF CompleteTimeout, TypeOK
  <2> QED BY <1>1, <2>1, <2>2, QuietDuplicatesNothing
<1>5. ASSUME NEW r \in Receivers, Submit(r)
      PROVE  NothingDuplicated'
  <2>1. UNCHANGED <<queue, local, sent, told, tasks>>
    BY <1>5 DEF Submit
  <2>2. \A q \in Receivers : prepared'[q] \cup flying'[q] = prepared[q] \cup flying[q]
    BY <1>1, <1>5 DEF Submit, TypeOK
  <2> QED BY <1>1, <2>1, <2>2, QuietDuplicatesNothing
<1>6. CASE \E r \in Receivers, m \in Messages :
             TaskGoesOn(r, m) \/ TaskEnds(r, m) \/ TaskThrows(r, m)
  BY <1>6, TaskDuplicatesNothing
<1>7. CASE \E r \in Receivers, m \in Messages :
             EmplaceStarts(r, m) \/ EmplaceAborts(r, m) \/ EmplaceThrows(r, m)
  BY <1>7, EmplaceDuplicatesNothing
<1>8. CASE UNCHANGED vars
  <2>1. UNCHANGED <<queue, local, sent, told, tasks, prepared, flying>>
    BY <1>8 DEF vars
  <2> QED BY <1>1, <2>1, QuietDuplicatesNothing
<1> QED BY <1>2, <1>3, <1>4, <1>5, <1>6, <1>7, <1>8 DEF Next, Step

-----------------------------------------------------------------------------
(* The theorems. *)

LEMMA InitInv ==
  ASSUME Init
  PROVE  Inv
<1> USE DEF Init
<1>1. /\ <<>> \in Seq(Messages) /\ Len(<<>>) = 0 /\ DOMAIN <<>> = {}
      /\ IsFiniteSet({}) /\ Cardinality({}) = 0
  BY EmptySeq, FS_EmptySet
<1>2. TypeOK
  BY <1>1, TaskedAssumption DEF TypeOK, TaskedAssumption, Places
<1>3. ASSUME NEW r \in Receivers
      PROVE  /\ CountMatches(r) /\ OneOperationPerTask(r) /\ RingFits(r) /\ ReturnsDrained(r)
             /\ RoundsOrderly(r) /\ EntriesApart(r)
  <2>1. pc[r] = "idle" /\ tasks[r] = {} /\ prepared[r] = {} /\ flying[r] = {} /\ ~ thrown[r]
    OBVIOUS
  <2>2. RingFits(r)
    BY <1>1, <2>1, TaskedAssumption DEF RingFits, RingEntries, TaskedAssumption
  <2> QED BY <2>1, <2>2
          DEF CountMatches, Running, OneOperationPerTask, Operations, ReturnsDrained,
              RoundsOrderly, EntriesApart
<1>4. NothingDuplicated
  BY <1>1 DEF NothingDuplicated, Untouched, In, Once
<1> QED BY <1>2, <1>3, <1>4 DEF Inv

LEMMA NextInv ==
  ASSUME Inv, [Next]_vars
  PROVE  Inv'
<1>1. TypeOK'
  BY TypeStep
<1>2. ASSUME NEW r \in Receivers
      PROVE  CountMatches(r)' /\ OneOperationPerTask(r)' /\ RingFits(r)' /\ ReturnsDrained(r)'
               /\ RoundsOrderly(r)' /\ EntriesApart(r)'
  BY <1>1, BooksStep, BooksKept
<1> QED BY <1>1, <1>2, DuplicatedStep DEF Inv

\* The receivers' books are right, whatever is sent, called, stopped, thrown and refused: the
\* count is what the kernel owes, each task waits for its one operation, the ring has room,
\* nothing is left behind a return, no message is worked on twice and no callback runs twice
\* (TaskedSendReceiver::sendReceive).
THEOREM BooksAreRight == Spec => []Inv
<1>1. Init => Inv
  BY InitInv
<1>2. Inv /\ [Next]_vars => Inv'
  BY NextInv
<1> QED BY <1>1, <1>2, PTL DEF Spec

-----------------------------------------------------------------------------
(* What becomes of messages, and what a run until the queue is empty has served. *)

\* Where a message can be, once it was sent.
Kept(m) ==
  told[m] > 0 \/ In(m, queue) \/ \E r \in Receivers : In(m, local[r]) \/ m \in tasks[r] \/ thrown[r]

\* All but the front of a queue stays.
LEMMA PoppedRest ==
  ASSUME NEW s \in Seq(Messages), s # <<>>, NEW m, In(m, s), m # Head(s)
  PROVE  In(m, Tail(s))
<1>1. PICK k \in DOMAIN s : s[k] = m
  BY DEF In
<1>2. Len(s) \in Nat \ {0} /\ DOMAIN s = 1 .. Len(s) /\ Head(s) = s[1]
  BY LenProperties, EmptySeq
<1>3. /\ Tail(s) \in Seq(Messages) /\ Len(Tail(s)) = Len(s) - 1
      /\ \A j \in 1 .. Len(Tail(s)) : Tail(s)[j] = s[j + 1]
  BY HeadTailProperties
<1>4. DOMAIN Tail(s) = 1 .. Len(s) - 1
  BY <1>3, LenProperties
<1>5. k \in 2 .. Len(s)
  BY <1>1, <1>2
<1>6. k - 1 \in DOMAIN Tail(s) /\ k - 1 + 1 = k
  BY <1>2, <1>4, <1>5
<1>7. Tail(s)[k - 1] = m
  BY <1>1, <1>3, <1>4, <1>6
<1> QED BY <1>6, <1>7 DEF In

\* The other messages stay in the queues when one is taken.
LEMMA TakenRest ==
  ASSUME TypeOK, NEW r \in Receivers, NEW m \in Messages, Taken(r, m), NEW k \in Messages, k # m
  PROVE  /\ In(k, queue) => In(k, queue')
         /\ \A q \in Receivers : In(k, local[q]) => In(k, local'[q])
<1>1. CASE isLocal[r]
  <2>1. /\ local[r] \in Seq(Messages) /\ local[r] # <<>> /\ m = Head(local[r])
        /\ local'[r] = Tail(local[r]) /\ UNCHANGED queue
        /\ \A q \in Receivers \ {r} : local'[q] = local[q]
    BY <1>1 DEF Taken, Source, TypeOK
  <2> QED BY <2>1, PoppedRest
<1>2. CASE ~ isLocal[r]
  <2>1. /\ queue \in Seq(Messages) /\ queue # <<>> /\ m = Head(queue)
        /\ queue' = Tail(queue) /\ UNCHANGED local
    BY <1>2 DEF Taken, Source, TypeOK
  <2> QED BY <2>1, PoppedRest
<1> QED BY <1>1, <1>2

\* No step forgets a message; an exception is only forgotten by a receiver that has none.
LEMMA KeptStays ==
  ASSUME Inv, [Next]_vars, NoSubmitFailed', NEW k \in Messages, Kept(k)
  PROVE  Kept(k)'
<1> USE DEF group, users, progress, ring
<1>1. TypeOK
  BY DEF Inv
<1>2. ASSUME told'[k] >= told[k],
             In(k, queue) => In(k, queue'),
             \A q \in Receivers : In(k, local[q]) => In(k, local'[q]),
             \A q \in Receivers : k \in tasks[q] => k \in tasks'[q],
             \A q \in Receivers : thrown[q] => thrown'[q],
             told[k] \in Nat, told'[k] \in Nat
      PROVE  Kept(k)'
  BY <1>2 DEF Kept
<1>3. told[k] \in Nat
  BY <1>1 DEF TypeOK
<1>4. ASSUME NEW m \in Messages, Send(m)
      PROVE  Kept(k)'
  <2>1. In(k, queue) => In(k, queue')
    BY <1>1, <1>4, Appended DEF Send, TypeOK
  <2> QED BY <1>2, <1>3, <1>4, <2>1 DEF Send
<1>5. ASSUME NEW m \in Messages, NEW r \in Receivers, SendSync(r, m)
      PROVE  Kept(k)'
  <2>1. \A q \in Receivers : In(k, local[q]) => In(k, local'[q])
    <3>1. local'[r] = Append(local[r], m) /\ \A q \in Receivers \ {r} : local'[q] = local[q]
      BY <1>1, <1>5 DEF SendSync, TypeOK
    <3>2. local[r] \in Seq(Messages)
      BY <1>1 DEF TypeOK
    <3>3. In(k, local[r]) => In(k, Append(local[r], m))
      BY <3>2, Appended
    <3> QED BY <3>1, <3>3
  <2> QED BY <1>2, <1>3, <1>5, <2>1 DEF SendSync
<1>6. ASSUME UNCHANGED <<told, queue, local, tasks, thrown>>
      PROVE  Kept(k)'
  BY <1>2, <1>3, <1>6
<1>7. ASSUME NEW r \in Receivers,
             Call(r) \/ Stop(r) \/ Loop(r) \/ Leave(r) \/ CompleteTimeout(r) \/ Fill(r)
               \/ EmplaceEnds(r) \/ Submit(r) \/ SubmitFails(r) \/ AskInserted(r) \/ AskSeen(r)
      PROVE  Kept(k)'
  BY <1>6, <1>7
     DEF Call, Stop, Loop, Leave, CompleteTimeout, Fill, EmplaceEnds, Submit, SubmitFails,
         AskInserted, AskSeen
<1>8. ASSUME NEW r \in Receivers, Enter(r)
      PROVE  Kept(k)'
  <2>1. ~ thrown[r]
    BY <1>8 DEF Inv, RoundsOrderly, Enter, Goto, NoSubmitFailed, bounds
  <2>2. \A q \in Receivers : thrown[q] => thrown'[q]
    BY <1>1, <1>8, <2>1 DEF Enter, TypeOK
  <2> QED BY <1>2, <1>3, <1>8, <2>2 DEF Enter
<1>9. ASSUME NEW r \in Receivers, NEW m \in Messages, TaskGoesOn(r, m)
      PROVE  Kept(k)'
  BY <1>6, <1>9 DEF TaskGoesOn
<1>10. ASSUME NEW r \in Receivers, NEW m \in Messages, TaskEnds(r, m)
       PROVE  Kept(k)'
  <2>1. CASE k = m
    BY <1>1, <1>3, <1>10, <2>1 DEF TaskEnds, Kept, TypeOK
  <2>2. CASE k # m
    <3>1. told'[k] = told[k] /\ \A q \in Receivers : k \in tasks[q] => k \in tasks'[q]
      BY <1>1, <1>10, <2>2 DEF TaskEnds, TypeOK
    <3> QED BY <1>2, <1>3, <1>10, <3>1 DEF TaskEnds
  <2> QED BY <2>1, <2>2
<1>11. ASSUME NEW r \in Receivers, NEW m \in Messages, TaskThrows(r, m) \/ EmplaceThrows(r, m)
       PROVE  Kept(k)'
  <2>1. thrown'[r]
    BY <1>1, <1>11 DEF TaskThrows, EmplaceThrows, TypeOK
  <2> QED BY <2>1 DEF Kept
<1>12. ASSUME NEW r \in Receivers, NEW m \in Messages, EmplaceStarts(r, m)
       PROVE  Kept(k)'
  <2>1. m \in tasks'[r] /\ \A q \in Receivers : k \in tasks[q] => k \in tasks'[q]
    BY <1>1, <1>12 DEF EmplaceStarts, TypeOK
  <2>2. CASE k = m
    BY <2>1, <2>2 DEF Kept
  <2>3. CASE k # m
    BY <1>1, <1>2, <1>3, <1>12, <2>1, <2>3, TakenRest DEF EmplaceStarts
  <2> QED BY <2>2, <2>3
<1>13. ASSUME NEW r \in Receivers, NEW m \in Messages, EmplaceAborts(r, m)
       PROVE  Kept(k)'
  <2>1. CASE k = m
    BY <1>1, <1>3, <1>13, <2>1 DEF EmplaceAborts, Kept, TypeOK
  <2>2. CASE k # m
    <3>1. told'[k] = told[k]
      BY <1>1, <1>13, <2>2 DEF EmplaceAborts, TypeOK
    <3> QED BY <1>1, <1>2, <1>3, <1>13, <2>2, <3>1, TakenRest DEF EmplaceAborts
  <2> QED BY <2>1, <2>2
<1>14. CASE UNCHANGED vars
  BY <1>6, <1>14 DEF vars
<1> QED BY <1>4, <1>5, <1>7, <1>8, <1>9, <1>10, <1>11, <1>12, <1>13, <1>14 DEF Next, Step

\* A submission that failed has failed.
LEMMA FailureStays ==
  ASSUME TypeOK, [Next]_vars, NoSubmitFailed'
  PROVE  NoSubmitFailed
<1> SUFFICES errors' = errors \/ (errors \in Nat /\ errors' = errors + 1)
  BY DEF NoSubmitFailed
<1>1. ASSUME NEW m \in Messages, Send(m) \/ \E r \in Receivers : SendSync(r, m)
      PROVE  errors' = errors
  BY <1>1 DEF Send, SendSync, bounds
<1>2. ASSUME NEW r \in Receivers,
             Call(r) \/ Stop(r) \/ Enter(r) \/ Loop(r) \/ Leave(r) \/ CompleteTimeout(r)
      PROVE  errors' = errors
  BY <1>2 DEF Call, Stop, Enter, Loop, Leave, CompleteTimeout, bounds
<1>3. ASSUME NEW r \in Receivers, NEW m \in Messages,
             TaskGoesOn(r, m) \/ TaskEnds(r, m) \/ TaskThrows(r, m) \/ EmplaceStarts(r, m)
               \/ EmplaceAborts(r, m) \/ EmplaceThrows(r, m)
      PROVE  errors' = errors
  BY <1>3 DEF TaskGoesOn, TaskEnds, TaskThrows, EmplaceStarts, EmplaceAborts, EmplaceThrows,
              bounds
<1>4. ASSUME NEW r \in Receivers,
             Fill(r) \/ EmplaceEnds(r) \/ Submit(r) \/ AskInserted(r) \/ AskSeen(r)
      PROVE  errors' = errors
  BY <1>4 DEF Fill, EmplaceEnds, Submit, AskInserted, AskSeen, bounds
<1>5. ASSUME NEW r \in Receivers, SubmitFails(r)
      PROVE  errors \in Nat /\ errors' = errors + 1
  BY <1>5 DEF SubmitFails, TypeOK
<1>6. CASE UNCHANGED vars
  BY <1>6 DEF vars, bounds
<1> QED BY <1>1, <1>2, <1>3, <1>4, <1>5, <1>6 DEF Next, Step

\* A message is sent by the step of its user, and by no other.
LEMMA SentByUsers ==
  ASSUME [Next]_vars, NEW k \in sent', k \notin sent
  PROVE  k \in Messages /\ (Send(k) \/ \E r \in Receivers : SendSync(r, k))
<1>1. ASSUME NEW m \in Messages, Send(m)
      PROVE  k \in Messages /\ Send(k)
  BY <1>1 DEF Send
<1>2. ASSUME NEW r \in Receivers, NEW m \in Messages, SendSync(r, m)
      PROVE  k \in Messages /\ SendSync(r, k)
  BY <1>2 DEF SendSync
<1>3. ASSUME NEW r \in Receivers,
             Call(r) \/ Stop(r) \/ Enter(r) \/ Loop(r) \/ Leave(r) \/ CompleteTimeout(r)
      PROVE  FALSE
  BY <1>3 DEF Call, Stop, Enter, Loop, Leave, CompleteTimeout, users
<1>4. ASSUME NEW r \in Receivers, NEW m \in Messages,
             TaskGoesOn(r, m) \/ TaskEnds(r, m) \/ TaskThrows(r, m)
      PROVE  FALSE
  BY <1>4 DEF TaskGoesOn, TaskEnds, TaskThrows, users
<1>5. ASSUME NEW r \in Receivers, NEW m \in Messages,
             EmplaceStarts(r, m) \/ EmplaceAborts(r, m) \/ EmplaceThrows(r, m)
      PROVE  FALSE
  BY <1>5 DEF EmplaceStarts, EmplaceAborts, EmplaceThrows
<1>6. ASSUME NEW r \in Receivers,
             Fill(r) \/ EmplaceEnds(r) \/ Submit(r) \/ SubmitFails(r) \/ AskInserted(r)
               \/ AskSeen(r)
      PROVE  FALSE
  BY <1>6 DEF Fill, EmplaceEnds, Submit, SubmitFails, AskInserted, AskSeen, users
<1>7. CASE UNCHANGED vars
  BY <1>7 DEF vars, users
<1> QED BY <1>1, <1>2, <1>3, <1>4, <1>5, <1>6, <1>7 DEF Next, Step

LEMMA LostStep ==
  ASSUME Inv, NothingLost, [Next]_vars
  PROVE  NothingLost'
<1> SUFFICES ASSUME NoSubmitFailed', NEW k \in sent'
             PROVE  Kept(k)'
  BY DEF NothingLost, Kept
<1>1. TypeOK
  BY DEF Inv
<1>2. NoSubmitFailed
  BY <1>1, FailureStays
<1>3. CASE k \in sent
  <2>1. k \in Messages /\ Kept(k)
    BY <1>1, <1>2, <1>3 DEF TypeOK, NothingLost, Kept
  <2> QED BY <2>1, KeptStays
<1>4. CASE k \notin sent
  <2>1. k \in Messages /\ (Send(k) \/ \E r \in Receivers : SendSync(r, k))
    BY <1>4, SentByUsers
  <2>2. CASE Send(k)
    BY <1>1, <2>1, <2>2, Appended DEF Send, TypeOK, Kept
  <2>3. CASE \E r \in Receivers : SendSync(r, k)
    <3>1. PICK r \in Receivers : SendSync(r, k)
      BY <2>3
    <3>2. local'[r] = Append(local[r], k) /\ local[r] \in Seq(Messages)
      BY <1>1, <3>1 DEF SendSync, TypeOK
    <3>3. In(k, Append(local[r], k))
      BY <2>1, <3>2, Appended
    <3> QED BY <3>2, <3>3 DEF Kept
  <2> QED BY <2>1, <2>2, <2>3
<1> QED BY <1>3, <1>4

\* How many messages were taken out of the group's queue: never less than before.
LEMMA TakenGrow ==
  ASSUME TypeOK, [Next]_vars
  PROVE  /\ inserted - Len(queue) \in Int /\ inserted' - Len(queue') \in Int
         /\ inserted' - Len(queue') >= inserted - Len(queue)
<1>1. queue \in Seq(Messages) /\ Len(queue) \in Nat /\ inserted \in Nat
  BY LenProperties DEF TypeOK
<1>2. ASSUME NEW m \in Messages, Send(m)
      PROVE  Len(queue') = Len(queue) + 1 /\ inserted' = inserted + 1
  BY <1>1, <1>2, AppendProperties, LenProperties DEF Send
<1>3. ASSUME NEW r \in Receivers, NEW m \in Messages, Taken(r, m)
      PROVE  Len(queue') \in {Len(queue), Len(queue) - 1}
  <2>1. queue' = queue \/ (queue # <<>> /\ queue' = Tail(queue))
    BY <1>3 DEF Taken, Source
  <2> QED BY <1>1, <2>1, HeadTailProperties, LenProperties
<1>4. CASE UNCHANGED <<queue, inserted>>
  BY <1>1, <1>4
<1>5. CASE \E m \in Messages : Send(m)
  BY <1>1, <1>2, <1>5
<1>6. CASE \E r \in Receivers, m \in Messages :
             EmplaceStarts(r, m) \/ EmplaceAborts(r, m) \/ EmplaceThrows(r, m)
  BY <1>1, <1>3, <1>6 DEF EmplaceStarts, EmplaceAborts, EmplaceThrows
<1> QED BY <1>4, <1>5, <1>6
        DEF vars, group, Next, Step, SendSync, Call, Stop, Enter, Loop, Leave, CompleteTimeout,
            TaskGoesOn, TaskEnds, TaskThrows, Fill, EmplaceEnds, Submit, SubmitFails,
            AskInserted, AskSeen

\* A run until the queue is empty stops itself only after it found it served.
Served(r) ==
  NoSubmitFailed /\ oneQueue[r] /\ ~ isLocal[r] /\ ~ thrown[r] /\ stops[r] = 0 =>
    /\ pc[r] = "idle" => inserted - Len(queue) >= asked[r]
    /\ Running(r) /\ stop[r] => pc[r] = "loop" /\ count[r] = 0 /\ inserted - Len(queue) >= asked[r]

LEMMA ServedStays ==
  ASSUME Inv, [Next]_vars, NEW q \in Receivers, Served(q), NoSubmitFailed' => NoSubmitFailed,
         \/ oneQueue'[q] = oneQueue[q] /\ isLocal'[q] = isLocal[q] /\ thrown'[q] = thrown[q]
            /\ stops'[q] = stops[q] /\ pc'[q] = pc[q] /\ asked'[q] = asked[q]
            /\ stop'[q] = stop[q] /\ count'[q] = count[q]
         \/ pc'[q] = "called"
         \/ pc'[q] # "idle" /\ ~ stop'[q]
         \/ thrown'[q]
         \/ stops'[q] # 0
         \/ ~ NoSubmitFailed'
  PROVE  Served(q)'
<1>1. TypeOK
  BY DEF Inv
<1>2. /\ inserted - Len(queue) \in Int /\ inserted' - Len(queue') \in Int
      /\ inserted' - Len(queue') >= inserted - Len(queue)
  BY <1>1, TakenGrow
<1>3. asked[q] \in Int
  BY <1>1 DEF TypeOK
<1>4. CASE \/ pc'[q] = "called" \/ (pc'[q] # "idle" /\ ~ stop'[q])
           \/ thrown'[q] \/ stops'[q] # 0 \/ ~ NoSubmitFailed'
  BY <1>4 DEF Served, Running
<1>5. CASE /\ oneQueue'[q] = oneQueue[q] /\ isLocal'[q] = isLocal[q] /\ thrown'[q] = thrown[q]
           /\ stops'[q] = stops[q] /\ pc'[q] = pc[q] /\ asked'[q] = asked[q]
           /\ stop'[q] = stop[q] /\ count'[q] = count[q]
  <2> SUFFICES ASSUME NoSubmitFailed', oneQueue'[q], ~ isLocal'[q], ~ thrown'[q], stops'[q] = 0
               PROVE  /\ pc'[q] = "idle" => inserted' - Len(queue') >= asked'[q]
                      /\ Running(q)' /\ stop'[q] =>
                           pc'[q] = "loop" /\ count'[q] = 0 /\ inserted' - Len(queue') >= asked'[q]
    BY DEF Served
  <2>1. /\ pc[q] = "idle" => inserted - Len(queue) >= asked[q]
        /\ Running(q) /\ stop[q] =>
             pc[q] = "loop" /\ count[q] = 0 /\ inserted - Len(queue) >= asked[q]
    BY <1>5 DEF Served
  <2>2. inserted - Len(queue) >= asked[q] => inserted' - Len(queue') >= asked'[q]
    BY <1>2, <1>3, <1>5
  <2> QED BY <1>5, <2>1, <2>2 DEF Running
<1> QED BY <1>4, <1>5


LEMMA ServedStep ==
  ASSUME Inv, \A r \in Receivers : Served(r), [Next]_vars, NEW q \in Receivers
  PROVE  Served(q)'
<1> USE DEF group, users, progress, arguments, ring, bounds
<1>1. TypeOK /\ Served(q) /\ (NoSubmitFailed' => NoSubmitFailed)
  BY FailureStays DEF Inv
<1>2. ASSUME UNCHANGED <<oneQueue, isLocal, thrown, stops, pc, asked, stop, count>>
      PROVE  Served(q)'
  BY <1>1, <1>2, ServedStays
<1>3. CASE (\E m \in Messages : Send(m) \/ \E r \in Receivers : SendSync(r, m)) \/ UNCHANGED vars
  BY <1>2, <1>3 DEF Send, SendSync, vars
<1>4. ASSUME NEW r \in Receivers, Call(r) \/ Stop(r) \/ Step(r), q # r
      PROVE  Served(q)'
  <2>1. /\ oneQueue'[q] = oneQueue[q] /\ isLocal'[q] = isLocal[q] /\ thrown'[q] = thrown[q]
        /\ stops'[q] = stops[q] /\ pc'[q] = pc[q] /\ asked'[q] = asked[q]
        /\ stop'[q] = stop[q] /\ count'[q] = count[q]
    <3>1. CASE Call(r) \/ Stop(r) \/ Enter(r) \/ Loop(r) \/ Leave(r) \/ Fill(r) \/ EmplaceEnds(r)
      BY <1>1, <1>4, <3>1
         DEF Call, Stop, Enter, Loop, Leave, Fill, EmplaceEnds, Goto, TypeOK
    <3>2. CASE CompleteTimeout(r) \/ Submit(r) \/ SubmitFails(r) \/ AskInserted(r) \/ AskSeen(r)
      BY <1>1, <1>4, <3>2
         DEF CompleteTimeout, Submit, SubmitFails, AskInserted, AskSeen, Goto, TypeOK
    <3>3. CASE \E m \in Messages : TaskGoesOn(r, m) \/ TaskEnds(r, m) \/ TaskThrows(r, m)
      BY <1>1, <1>4, <3>3 DEF TaskGoesOn, TaskEnds, TaskThrows, Completed, Goto, TypeOK
    <3>4. CASE \E m \in Messages :
                 EmplaceStarts(r, m) \/ EmplaceAborts(r, m) \/ EmplaceThrows(r, m)
      BY <1>1, <1>4, <3>4 DEF EmplaceStarts, EmplaceAborts, EmplaceThrows, Goto, TypeOK
    <3> QED BY <1>4, <3>1, <3>2, <3>3, <3>4 DEF Step
  <2> QED BY <1>1, <2>1, ServedStays
<1>5. CASE Call(q)
  <2>1. pc'[q] = "called"
    BY <1>1, <1>5 DEF Call, Goto, TypeOK
  <2> QED BY <1>1, <2>1, ServedStays
<1>6. CASE Stop(q)
  <2>1. stops'[q] # 0
    BY <1>1, <1>6 DEF Stop, TypeOK
  <2> QED BY <1>1, <2>1, ServedStays
<1>7. CASE Enter(q)
  <2>1. pc'[q] = "loop" /\ ~ stop'[q]
    BY <1>1, <1>7 DEF Enter, Goto, TypeOK
  <2> QED BY <1>1, <2>1, ServedStays
<1>8. CASE SubmitFails(q)
  <2>1. ~ NoSubmitFailed'
    BY <1>1, <1>8 DEF SubmitFails, NoSubmitFailed, TypeOK
  <2> QED BY <1>1, <2>1, ServedStays
<1>9. ASSUME NEW m \in Messages, TaskThrows(q, m) \/ EmplaceThrows(q, m)
      PROVE  Served(q)'
  <2>1. thrown'[q]
    BY <1>1, <1>9 DEF TaskThrows, EmplaceThrows, TypeOK
  <2> QED BY <1>1, <2>1, ServedStays
<1>10. ASSUME UNCHANGED <<oneQueue, isLocal, thrown, stops, stop, errors>>, pc'[q] # "idle", Running(q),
              pc[q] # "loop" \/ ~ (stop[q] /\ count[q] = 0)
       PROVE  Served(q)'
  <2>1. NoSubmitFailed' = NoSubmitFailed
    BY <1>10 DEF NoSubmitFailed
  <2>2. CASE ~ stop[q]
    BY <1>1, <1>10, <2>2, ServedStays
  <2>3. CASE stop[q]
    BY <1>1, <1>10, <2>1, <2>3 DEF Served
  <2> QED BY <2>2, <2>3
<1>11. ASSUME \/ CompleteTimeout(q) \/ Fill(q) \/ EmplaceEnds(q) \/ Submit(q)
              \/ \E m \in Messages :
                   TaskGoesOn(q, m) \/ TaskEnds(q, m) \/ EmplaceStarts(q, m) \/ EmplaceAborts(q, m)
       PROVE  Served(q)'
  <2>1. UNCHANGED <<oneQueue, isLocal, thrown, stops, stop, errors>>
    BY <1>11 DEF CompleteTimeout, Fill, EmplaceEnds, Submit, TaskGoesOn, TaskEnds, EmplaceStarts,
                 EmplaceAborts
  <2>2. pc[q] \in {"complete", "fill", "emplace", "submit"} /\ pc'[q] # "idle"
    BY <1>1, <1>11 DEF CompleteTimeout, Fill, EmplaceEnds, Submit, TaskGoesOn, TaskEnds,
                       EmplaceStarts, EmplaceAborts, Completed, Goto, TypeOK
  <2> QED BY <1>10, <2>1, <2>2 DEF Running
<1>12. CASE Loop(q)
  <2>1. pc[q] = "loop" /\ pc'[q] # "idle" /\ (~ stop[q] \/ count[q] > 0)
    BY <1>1, <1>12 DEF Loop, KeepsGoing, Goto, TypeOK
  <2>2. UNCHANGED <<oneQueue, isLocal, thrown, stops, stop, errors>>
    BY <1>12 DEF Loop
  <2>3. ~ (stop[q] /\ count[q] = 0)
    BY <2>1
  <2> QED BY <1>10, <2>1, <2>2, <2>3 DEF Running
<1>13. CASE Leave(q)
  <2>1. /\ pc[q] = "loop" /\ pc'[q] = "idle" /\ stop[q]
        /\ UNCHANGED <<queue, inserted, asked, oneQueue, isLocal, thrown, stops, errors>>
    BY <1>1, <1>13 DEF Leave, KeepsGoing, Goto, TypeOK
  <2> QED BY <1>1, <2>1 DEF Served, Running, NoSubmitFailed
<1>14. CASE AskInserted(q)
  <2>1. /\ pc[q] = "askInserted" /\ pc'[q] = "askSeen"
        /\ UNCHANGED <<oneQueue, isLocal, thrown, stops, stop, errors>>
    BY <1>1, <1>14 DEF AskInserted, Goto, TypeOK
  <2> QED BY <1>10, <2>1 DEF Running
<1>15. CASE AskSeen(q)
  <2>1. /\ pc[q] = "askSeen" /\ pc'[q] = "loop"
        /\ stop'[q] = (stop[q] \/ FoundEmpty(q) \/ thrown[q])
        /\ UNCHANGED <<queue, inserted, asked, oneQueue, isLocal, thrown, stops, errors, count>>
    BY <1>1, <1>15 DEF AskSeen, Goto, TypeOK
  <2> SUFFICES ASSUME NoSubmitFailed, oneQueue[q], ~ isLocal[q], ~ thrown[q], stops[q] = 0, stop'[q]
               PROVE  count[q] = 0 /\ inserted - Len(queue) >= asked[q]
    BY <2>1 DEF Served, Running, NoSubmitFailed
  <2>2. ~ stop[q]
    BY <1>1, <2>1 DEF Served, Running
  <2>3. asked[q] = inserted - Len(queue) /\ asked[q] \in Nat
    BY <1>1, <2>1, <2>2 DEF FoundEmpty, TypeOK
  <2>4. count[q] \in Nat /\ ~ (count[q] > 0)
    BY <1>1, <2>1 DEF Inv, RoundsOrderly, TypeOK
  <2> QED BY <2>3, <2>4
<1>16. ASSUME NEW r \in Receivers, Call(r) \/ Stop(r) \/ Step(r)
       PROVE  Served(q)'
  <2>1. CASE r # q
    BY <1>4, <1>16, <2>1
  <2>2. CASE r = q
    BY <1>5, <1>6, <1>7, <1>8, <1>9, <1>11, <1>12, <1>13, <1>14, <1>15, <1>16, <2>2 DEF Step
  <2> QED BY <2>1, <2>2
<1> QED BY <1>3, <1>16 DEF Next

\* No message is lost: until its callback has run it is in a queue or a task, unless an
\* exception cost it or a submission failed (TaskedSendReceiver::sendReceive).
THEOREM MessagesKept == Spec => []NothingLost
<1>1. Init => NothingLost
  BY DEF Init, NothingLost
<1>2. Inv /\ NothingLost /\ [Next]_vars => NothingLost'
  BY LostStep
<1> QED BY <1>1, <1>2, BooksAreRight, PTL DEF Spec

\* A run until the queue is empty has, at its return, served what was in the group's queue
\* when it last looked, though RingBuffer::empty may answer wrongly
\* (TaskedSendReceiver::sendReceive).
THEOREM QueueServed == Spec => []ServedOnReturn
<1> DEFINE All == \A r \in Receivers : Served(r)
<1>1. Init => All
  BY EmptySeq DEF Init, Served, Running
<1>2. Inv /\ All /\ [Next]_vars => All'
  BY ServedStep
<1>3. All => ServedOnReturn
  BY DEF Served, ServedOnReturn
<1> HIDE DEF All
<1> QED BY <1>1, <1>2, <1>3, BooksAreRight, PTL DEF Spec

=============================================================================
