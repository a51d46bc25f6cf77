-------------------------- MODULE Transaction_proofs --------------------------
(***************************************************************************)
(* Proofs about Transaction, for any number of uploads, parts, receivers    *)
(* and any capacity.                                                       *)
(*                                                                         *)
(* IndInv is inductive.  Its first half (types, and the control of the     *)
(* user's thread and of the callbacks, with _messageCounter) holds however *)
(* many sends fail; its second half ties the state of an upload to what    *)
(* was sent of it, and holds until a send fails: Whole.  There the state   *)
(* tells what is built and what waits, outstanding is the number of parts  *)
(* whose callback has not decremented it, so the callback that judges is   *)
(* the only one left, and _completedMultiparts is the number of uploads    *)
(* told of.                                                                *)
(*                                                                         *)
(* The order: sequences, types, control, frames (what a step leaves        *)
(* alone), requests, the steps of the user's thread, the callbacks, the    *)
(* induction and what follows.                                             *)
(***************************************************************************)
EXTENDS Transaction, FiniteSetTheorems, TLAPS

-----------------------------------------------------------------------------
(* Sequences of requests. *)

\* The elements of a concatenation are those of its parts.
LEMMA InConcat ==
  ASSUME NEW S, NEW s \in Seq(S), NEW t \in Seq(S), NEW m
  PROVE  In(m, s \o t) <=> In(m, s) \/ In(m, t)
<1> DEFINE c == s \o t
<1>1. /\ DOMAIN c = 1 .. Len(s) + Len(t)
      /\ \A k \in DOMAIN s : k \in DOMAIN c /\ c[k] = s[k]
      /\ \A k \in DOMAIN t : Len(s) + k \in DOMAIN c /\ c[Len(s) + k] = t[k]
  OBVIOUS
<1>2. \A k \in DOMAIN c : k \in DOMAIN s \/ (k - Len(s) \in DOMAIN t /\ c[k] = t[k - Len(s)])
  OBVIOUS
<1> QED BY <1>1, <1>2 DEF In

\* Two sequences without duplicates and common elements make one without duplicates.
LEMMA DistinctConcat ==
  ASSUME NEW S, NEW s \in Seq(S), NEW t \in Seq(S), Distinct(s), Distinct(t),
         \A m \in S : ~ (In(m, s) /\ In(m, t))
  PROVE  Distinct(s \o t)
<1> DEFINE c == s \o t
<1>1. \A k \in DOMAIN c : \/ k \in DOMAIN s /\ c[k] = s[k]
                          \/ k - Len(s) \in DOMAIN t /\ c[k] = t[k - Len(s)] /\ k \in Nat
  OBVIOUS
<1>2. \A j \in DOMAIN s, k \in DOMAIN t : s[j] # t[k]
  BY DEF In
<1>3. DOMAIN s \subseteq Nat /\ Len(s) \in Nat
  OBVIOUS
<1> QED BY <1>1, <1>2, <1>3 DEF Distinct

\* Taking the head removes one request.
LEMMA TailFacts ==
  ASSUME NEW S, NEW s \in Seq(S), s # <<>>
  PROVE  /\ Tail(s) \in Seq(S)
         /\ Head(s) \in S
         /\ In(Head(s), s)
         /\ \A m : In(m, Tail(s)) => In(m, s)
         /\ \A m : In(m, s) => m = Head(s) \/ In(m, Tail(s))
         /\ Distinct(s) => /\ Distinct(Tail(s))
                           /\ \A m : In(m, Tail(s)) <=> In(m, s) /\ m # Head(s)
<1>1. /\ DOMAIN s = 1 .. Len(s) /\ DOMAIN Tail(s) = 1 .. Len(s) - 1 /\ Len(s) \in Nat /\ Len(s) > 0
      /\ Head(s) = s[1]
      /\ \A k \in DOMAIN Tail(s) : Tail(s)[k] = s[k + 1] /\ k + 1 \in DOMAIN s
      /\ \A k \in DOMAIN s : k # 1 => k - 1 \in DOMAIN Tail(s) /\ s[k] = Tail(s)[k - 1]
  OBVIOUS
<1>2. Tail(s) \in Seq(S) /\ Head(s) \in S
  OBVIOUS
<1>3. In(Head(s), s)
  BY <1>1 DEF In
<1>4. \A m : In(m, Tail(s)) => In(m, s)
  BY <1>1 DEF In
<1>7. \A m : In(m, s) => m = Head(s) \/ In(m, Tail(s))
  BY <1>1 DEF In
<1>5. ASSUME Distinct(s) PROVE Distinct(Tail(s))
  BY <1>1, <1>5 DEF Distinct
<1>6. ASSUME Distinct(s), NEW m PROVE In(m, Tail(s)) <=> In(m, s) /\ m # Head(s)
  <2>1. In(m, s) /\ m # Head(s) => In(m, Tail(s))
    BY <1>1 DEF In
  <2>2. In(m, Tail(s)) => m # Head(s)
    BY <1>1, <1>6 DEF In, Distinct
  <2> QED BY <1>4, <2>1, <2>2
<1> QED BY <1>2, <1>3, <1>4, <1>5, <1>6, <1>7

\* The empty sequence holds no request.
LEMMA InEmpty == \A m : ~ In(m, <<>>)
BY DEF In

\* The requests that Begin and Scan collect.
LEMMA BegunFacts ==
  ASSUME TransactionAssumption, NEW from \in 0 .. N
  PROVE  LET s == [k \in 1 .. N - from |-> <<from + k, CreateId>>] IN
         /\ s \in Seq(Requests)
         /\ Distinct(s)
         /\ \A u \in Uploads, i \in CreateId .. FinalId :
              In(<<u, i>>, s) <=> i = CreateId /\ u > from
<1> USE TransactionAssumption DEF TransactionAssumption
<1> DEFINE s == [k \in 1 .. N - from |-> <<from + k, CreateId>>]
<1>1. \A k \in 1 .. N - from : from + k \in Uploads /\ <<from + k, CreateId>> \in Requests
  BY DEF Uploads, Requests, CreateId, FinalId
<1>2. s \in Seq(Requests)
  BY <1>1
<1>3. Distinct(s)
  BY DEF Distinct
<1>4. ASSUME NEW u \in Uploads, NEW i \in CreateId .. FinalId
      PROVE  In(<<u, i>>, s) <=> i = CreateId /\ u > from
  <2>1. i = CreateId /\ u > from => u - from \in 1 .. N - from /\ s[u - from] = <<u, i>>
    BY DEF Uploads
  <2>2. \A k \in DOMAIN s : s[k] = <<u, i>> => u = from + k /\ i = CreateId
    OBVIOUS
  <2>3. In(<<u, i>>, s) => i = CreateId /\ u > from
    <3> SUFFICES ASSUME NEW k \in DOMAIN s, s[k] = <<u, i>> PROVE i = CreateId /\ u > from
      BY DEF In
    <3>1. k \in 1 .. N - from
      OBVIOUS
    <3> QED BY <2>2, <3>1
  <2>4. i = CreateId /\ u > from => In(<<u, i>>, s)
    BY <2>1 DEF In
  <2> QED BY <2>3, <2>4
<1> QED BY <1>2, <1>3, <1>4

\* What Scan collects for an upload found in state s.
LEMMA DueFacts ==
  ASSUME TransactionAssumption, NEW u \in Uploads, NEW s \in States
  PROVE  /\ Due(u, s) \in Seq(Requests)
         /\ Distinct(Due(u, s))
         /\ \A v \in Uploads, i \in CreateId .. FinalId :
              In(<<v, i>>, Due(u, s)) <=>
                /\ v = u
                /\ \/ s = "Sending" /\ i \in PartIds
                   \/ s = "Validating" /\ i = FinalId
<1> USE TransactionAssumption DEF TransactionAssumption
<1>1. CASE s = "Sending"
  <2>1. Due(u, s) = [i \in PartIds |-> <<u, i>>] /\ PartIds = 1 .. Parts
    BY <1>1 DEF Due, PartIds
  <2>2. \A i \in PartIds : <<u, i>> \in Requests
    BY DEF Requests, PartIds, CreateId, FinalId
  <2>3. Due(u, s) \in Seq(Requests)
    BY <2>1, <2>2
  <2>4. Distinct(Due(u, s))
    BY <2>1 DEF Distinct
  <2>5. \A v \in Uploads, i \in CreateId .. FinalId : In(<<v, i>>, Due(u, s)) <=> v = u /\ i \in PartIds
    <3> SUFFICES ASSUME NEW v \in Uploads, NEW i \in CreateId .. FinalId
                 PROVE  In(<<v, i>>, Due(u, s)) <=> v = u /\ i \in PartIds
      OBVIOUS
    <3> DEFINE d == [k \in PartIds |-> <<u, k>>]
    <3>1. \A k \in DOMAIN d : d[k] = <<u, k>>
      OBVIOUS
    <3>2. In(<<v, i>>, d) => v = u /\ i \in PartIds
      BY <3>1 DEF In
    <3>3. v = u /\ i \in PartIds => In(<<v, i>>, d)
      BY <3>1 DEF In
    <3> QED BY <2>1, <3>2, <3>3
  <2> QED BY <1>1, <2>3, <2>4, <2>5
<1>2. CASE s = "Validating"
  <2>1. Due(u, s) = << <<u, FinalId>> >>
    BY <1>2 DEF Due
  <2>2. <<u, FinalId>> \in Requests
    BY DEF Requests, CreateId, FinalId
  <2> QED BY <1>2, <2>1, <2>2 DEF In, Distinct
<1>3. CASE s \notin {"Sending", "Validating"}
  <2>1. Due(u, s) = <<>>
    BY <1>3 DEF Due
  <2> QED BY <1>3, <2>1 DEF In, Distinct
<1> QED BY <1>1, <1>2, <1>3

-----------------------------------------------------------------------------
(* Types. *)

\* The upload and the part of a callback exist.
LEMMA JobTypes ==
  ASSUME TransactionAssumption, TypeOK, ControlOK, NEW r \in Receivers, job[r].at # "none"
  PROVE  /\ job[r].request \in Requests
         /\ UploadOf(r) \in Uploads
         /\ PartOf(r) \in CreateId .. FinalId
         /\ job[r].request = <<UploadOf(r), PartOf(r)>>
<1>1. JobOK(r)
  BY DEF ControlOK
<1> QED BY <1>1 DEF JobOK, Requests, UploadOf, PartOf

\* What becomes of the callbacks when one proceeds or returns.
LEMMA ProceedFacts ==
  ASSUME TypeOK, NEW r \in Receivers, NEW place \in Places \ {"none"}, Proceed(r, place)
  PROVE  /\ job'[r].at = place /\ job'[r].request = job[r].request /\ job'[r].ok = job[r].ok
         /\ job'[r] # NoJob
         /\ \A q \in Receivers : q # r => job'[q] = job[q]
BY DEF TypeOK, Jobs, Proceed, NoJob

\* ... and when one returns.
LEMMA ReturnFacts ==
  ASSUME TypeOK, NEW r \in Receivers, Return(r)
  PROVE  /\ job'[r] = NoJob /\ job'[r].at = "none"
         /\ \A q \in Receivers : q # r => job'[q] = job[q]
BY DEF TypeOK, Return, NoJob

\* The callbacks a callback step leaves alone.
LEMMA OthersStay ==
  ASSUME TypeOK, NEW r \in Receivers, CallbackStep(r), NEW q \in Receivers, q # r
  PROVE  job'[q] = job[q]
BY DEF TypeOK, CallbackStep, Finish, BuildParts, OfferParts, StoreTag, StoreError, StoreAborted,
       Decrement, BuildFinal, OfferFinal, Count, Tell, Proceed, Return

\* The initial values have their types.
LEMMA TypeInit == TransactionAssumption /\ Init => TypeOK
<1> SUFFICES ASSUME TransactionAssumption, Init PROVE TypeOK
  OBVIOUS
<1> USE DEF Init, TransactionAssumption
<1>1. /\ state \in [Uploads -> States]
      /\ outstanding \in [Uploads -> Int]
      /\ eTags \in [Uploads -> SUBSET PartIds]
      /\ errorId \in [Uploads -> 0 .. Parts]
      /\ built \in [Uploads -> SUBSET (CreateId .. FinalId)]
      /\ final \in [Uploads -> {"none", "complete", "delete"}]
  BY DEF States, CreateId, FinalId
<1>2. job \in [Receivers -> Jobs]
  BY DEF Jobs, NoJob, Places
<1>3. told \in [Uploads -> Seq(Verdicts)]
  OBVIOUS
<1>4. /\ counter \in 0 .. N /\ completed \in Nat /\ queue \in Seq(Requests)
      /\ inflight \in [Requests -> Nat] /\ sync \in BOOLEAN
      /\ cursor \in 0 .. N + 1 /\ seen \in States /\ collected \in Seq(Requests)
      /\ previous \in 0 .. N /\ failures \in Nat
      /\ answered \in [Requests -> {"no", "ok", "failed"}]
  BY DEF States
<1> QED BY <1>1, <1>2, <1>3, <1>4 DEF TypeOK

\* Every step keeps the types; the callbacks need the control to know their request.
LEMMA TypeStep == TransactionAssumption /\ TypeOK /\ ControlOK /\ [Next]_vars => TypeOK'
<1> SUFFICES ASSUME TransactionAssumption, TypeOK, ControlOK, [Next]_vars PROVE TypeOK'
  OBVIOUS
<1> USE DEF TypeOK, upload, user
<1>n. N \in Nat \ {0} /\ Parts \in Nat \ {0}
  BY DEF TransactionAssumption
<1>e. /\ <<>> \in Seq(Requests)
      /\ queue \o collected \in Seq(Requests)
      /\ \A u \in Uploads, s \in States : collected \o Due(u, s) \in Seq(Requests)
  BY DueFacts
<1>u. /\ pc \in {"scan", "claim", "rollback", "undo"} => cursor >= 1
      /\ pc \in {"claim", "undo"} => cursor <= N
  BY DEF ControlOK, UserOK
<1>1. CASE UNCHANGED vars
  BY <1>1 DEF vars
<1>2. CASE UserStep
  <2>0. UNCHANGED sync
    BY <1>2 DEF UserStep
  <2>1. CASE Begin
    <3>1. collected' \in Seq(Requests)
      BY <2>1, BegunFacts DEF Begin
    <3>2. /\ counter' = N /\ cursor' = 1 /\ previous' = counter /\ pc' = "scan"
          /\ UNCHANGED <<upload, completed, queue, inflight, job, seen, failures, answered, told>>
      BY <2>1 DEF Begin
    <3> QED BY <3>1, <3>2, <2>0, <1>n
  <2>2. CASE Scan
    <3>1. cursor \in Uploads
      BY <2>2, <1>u DEF Scan, Uploads
    <3>2. collected' \in Seq(Requests)
      BY <2>2, <3>1, <1>e DEF Scan
    <3>3. cursor' \in 0 .. N + 1
      <4>1. cursor' \in {cursor, cursor + 1}
        BY <2>2 DEF Scan
      <4> QED BY <3>1, <4>1, <1>n DEF Uploads
    <3>4. seen' \in States /\ pc' \in {"claim", "scan"}
      BY <2>2, <3>1, <1>u DEF Scan
    <3> QED BY <2>2, <3>2, <3>3, <3>4, <2>0 DEF Scan
  <2>3. CASE Claim
    <3>1. state' \in [Uploads -> States]
      BY <2>3 DEF Claim, Claimed, States
    <3>2. cursor' \in 0 .. N + 1
      BY <2>3, <1>u, <1>n DEF Claim
    <3> QED BY <2>3, <3>1, <3>2, <2>0 DEF Claim
  <2>4. CASE Send
    <3>1. CASE Sent /\ UNCHANGED previous
      BY <2>4, <3>1, <2>0, <1>e DEF Send, Sent
    <3>2. CASE NotSent /\ counter' = previous /\ UNCHANGED previous
      BY <2>4, <3>2, <2>0, <1>n DEF Send, NotSent
    <3> QED BY <2>4, <3>1, <3>2 DEF Send
  <2>5. CASE Rollback
    <3>1. seen' \in States
      BY <2>5, <1>u, <1>n DEF Rollback, Uploads
    <3>2. cursor' \in 0 .. N + 1
      BY <2>5, <1>u, <1>n DEF Rollback
    <3> QED BY <2>5, <3>1, <3>2, <2>0 DEF Rollback
  <2>6. CASE Undo
    <3>1. state' \in [Uploads -> States]
      BY <2>6 DEF Undo, States
    <3>2. cursor' \in 0 .. N + 1
      BY <2>6, <1>u, <1>n DEF Undo
    <3> QED BY <2>6, <3>1, <3>2, <2>0 DEF Undo
  <2>7. CASE RolledBack
    BY <2>7, <2>0, <1>e DEF RolledBack
  <2>8. CASE SendLocal
    BY <2>8, <2>0, <1>e DEF SendLocal
  <2>9. CASE Looped
    BY <2>9, <2>0 DEF Looped
  <2> QED BY <1>2, <2>1, <2>2, <2>3, <2>4, <2>5, <2>6, <2>7, <2>8, <2>9 DEF UserStep
<1>3. CASE Take
  <2>1. queue' \in Seq(Requests) /\ Head(queue) \in Requests
    BY <1>3, TailFacts DEF Take
  <2>2. inflight' \in [Requests -> Nat]
    BY <1>3, <2>1 DEF Take
  <2> QED BY <1>3, <2>1, <2>2 DEF Take
<1>4. ASSUME NEW r \in Receivers, CallbackStep(r) PROVE TypeOK'
  <2>0. UNCHANGED sync
    BY <1>4 DEF CallbackStep
  <2>j. job[r].at # "none" => /\ UploadOf(r) \in Uploads
                              /\ PartOf(r) \in CreateId .. FinalId
    BY JobTypes
  <2>p. /\ job[r].at = "tag" \/ job[r].at = "blame" => PartOf(r) \in PartIds
    BY DEF ControlOK, JobOK, PartOf
  <2>n. NoJob \in Jobs
    BY DEF Jobs, NoJob, Places
  <2>q. \A place \in Places : [job EXCEPT ![r].at = place] \in [Receivers -> Jobs]
    BY DEF Jobs
  <2>1. CASE Finish(r)
    <3>1. PICK m \in Requests, ok \in BOOLEAN :
             /\ inflight[m] > 0
             /\ inflight' = [inflight EXCEPT ![m] = @ - 1]
             /\ job' = [job EXCEPT ![r] = [at |-> Entry(m, ok), request |-> m, ok |-> ok]]
             /\ answered' = [answered EXCEPT ![m] = IF ok THEN "ok" ELSE "failed"]
      BY <2>1 DEF Finish
    <3>2. [at |-> Entry(m, ok), request |-> m, ok |-> ok] \in Jobs
      BY DEF Jobs, Entry, Places
    <3> QED BY <2>1, <3>1, <3>2, <2>0 DEF Finish
  <2> USE DEF At, Proceed, Return
  <2>2. CASE BuildParts(r)
    <3>1. PartIds \subseteq CreateId .. FinalId
      BY <1>n DEF PartIds, CreateId, FinalId
    <3> QED BY <2>2, <2>j, <2>q, <3>1, <2>0 DEF BuildParts, Places
  <2>3. CASE OfferParts(r)
    BY <2>3, <2>j, <2>n, <2>0 DEF OfferParts, States
  <2>4. CASE StoreTag(r)
    BY <2>4, <2>j, <2>p, <2>q, <2>0 DEF StoreTag, Places
  <2>5. CASE StoreError(r)
    <3>1. job' \in [Receivers -> Jobs]
      BY <2>5, <2>q DEF StoreError, Places
    <3>2. errorId' \in [Uploads -> 0 .. Parts]
      <4>1. errorId' = [errorId EXCEPT ![UploadOf(r)] = PartOf(r)] /\ PartOf(r) \in 0 .. Parts
        BY <2>5, <2>p, <1>n DEF StoreError, PartIds
      <4>2. errorId \in [Uploads -> 0 .. Parts]
        OBVIOUS
      <4> QED BY ONLY <4>1, <4>2
    <3>3. UNCHANGED <<state, outstanding, eTags, built, final, counter, completed, queue, inflight,
                      user, answered, told>>
      BY <2>5 DEF StoreError
    <3> QED BY <3>1, <3>2, <3>3, <2>0
  <2>6. CASE StoreAborted(r)
    BY <2>6, <2>j, <2>q, <2>0 DEF StoreAborted, Places, States
  <2>7. CASE Decrement(r)
    <3>1. job' \in [Receivers -> Jobs]
      BY <2>7, <2>n, <2>q DEF Decrement, Places
    <3>2. outstanding' \in [Uploads -> Int]
      <4> DEFINE left == outstanding[UploadOf(r)] - 1
      <4>1. outstanding' = [outstanding EXCEPT ![UploadOf(r)] = left] /\ UploadOf(r) \in Uploads
        BY <2>7, <2>j DEF Decrement, NoJob
      <4>2. outstanding \in [Uploads -> Int]
        OBVIOUS
      <4>3. left \in Int
        BY ONLY <4>1, <4>2
      <4> HIDE DEF left
      <4> QED BY ONLY <4>1, <4>2, <4>3
    <3>3. UNCHANGED <<state, eTags, errorId, built, final, counter, completed, queue, inflight,
                      user, answered, told>>
      BY <2>7 DEF Decrement
    <3> QED BY <3>1, <3>2, <3>3, <2>0
  <2>8. CASE BuildFinal(r)
    <3>1. FinalId \in CreateId .. FinalId
      BY <1>n DEF CreateId, FinalId
    <3> QED BY <2>8, <2>j, <2>q, <3>1, <2>0 DEF BuildFinal, Places
  <2>9. CASE OfferFinal(r)
    BY <2>9, <2>j, <2>n, <2>0 DEF OfferFinal, States
  <2>10. CASE Count(r)
    <3>1. job' \in [Receivers -> Jobs]
      BY <2>10, <2>q DEF Count, Places
    <3>2. completed' \in Nat /\ UNCHANGED <<upload, counter, queue, inflight, user, answered, told>>
      BY <2>10 DEF Count
    <3> QED BY <3>1, <3>2, <2>0
  <2>11. CASE Tell(r)
    <3>1. Verdict(r) \in Verdicts
      <4>1. \A i \in CreateId .. FinalId : <<UploadOf(r), i>> \in Requests
        BY <2>11, <2>j DEF Tell, Requests
      <4>2. {CreateId, FinalId} \cup (0 .. Parts) \subseteq CreateId .. FinalId
        BY <1>n DEF CreateId, FinalId
      <4> QED BY <2>11, <2>j, <4>1, <4>2 DEF Verdict, Verdicts, Tell
    <3>2. told' \in [Uploads -> Seq(Verdicts)]
      <4> DEFINE v == Verdict(r)
      <4>1. v \in Verdicts
        BY <3>1
      <4>2. told' = [told EXCEPT ![UploadOf(r)] = Append(told[UploadOf(r)], v)]
        BY <2>11 DEF Tell
      <4> HIDE DEF v
      <4>3. \A u \in Uploads : Append(told[u], v) \in Seq(Verdicts)
        BY <4>1
      <4> QED BY <4>2, <4>3
    <3> QED BY <2>11, <2>n, <3>2, <2>0 DEF Tell
  <2> QED BY <1>4, <2>1, <2>2, <2>3, <2>4, <2>5, <2>6, <2>7, <2>8, <2>9, <2>10, <2>11
        DEF CallbackStep
<1> QED BY <1>1, <1>2, <1>3, <1>4 DEF Next

-----------------------------------------------------------------------------
(* Control. *)

\* No call is under way, no callback runs and nothing is sent at the start.
LEMMA ControlInit == TransactionAssumption /\ Init => ControlOK
<1> SUFFICES ASSUME TransactionAssumption, Init PROVE ControlOK
  OBVIOUS
<1> USE DEF Init
<1>1. UserOK
  BY DEF UserOK, NoSendFailed
<1>2. \A r \in Receivers : JobOK(r)
  BY DEF JobOK, NoJob
<1>3. ASSUME NEW u \in Uploads PROVE OpenedOK(u)
  <2>1. <<u, CreateId>> \in Requests
    BY DEF TransactionAssumption, Requests, CreateId, FinalId
  <2> QED BY <2>1, InEmpty DEF OpenedOK, Handed, Unsent, Uploads
<1> QED BY <1>1, <1>2, <1>3 DEF ControlOK

\* The user's thread keeps to its control flow.
LEMMA UserStepOK == TransactionAssumption /\ TypeOK /\ UserOK /\ [Next]_vars => UserOK'
<1> SUFFICES ASSUME TransactionAssumption, TypeOK, UserOK, [Next]_vars PROVE UserOK'
  OBVIOUS
<1> USE DEF UserOK, NoSendFailed, user
<1>n. N \in Nat \ {0} /\ failures \in Nat /\ cursor \in 0 .. N + 1
  BY DEF TransactionAssumption, TypeOK
<1>1. CASE UNCHANGED vars
  BY <1>1 DEF vars
<1>2. CASE UserStep
  <2>0. UNCHANGED sync
    BY <1>2 DEF UserStep
  <2>1. CASE Begin
    BY <2>0, <2>1, <1>n DEF Begin
  <2>2. CASE Scan
    BY <2>0, <2>2, <1>n DEF Scan
  <2>3. CASE Claim
    BY <2>0, <2>3, <1>n DEF Claim
  <2>4. CASE Send
    BY <2>0, <2>4, <1>n DEF Send, Sent, NotSent
  <2>5. CASE Rollback
    BY <2>0, <2>5, <1>n DEF Rollback
  <2>6. CASE Undo
    BY <2>0, <2>6, <1>n DEF Undo
  <2>7. CASE RolledBack
    BY <2>0, <2>7, <1>n DEF RolledBack
  <2>8. CASE SendLocal
    BY <2>0, <2>8, <1>n DEF SendLocal
  <2>9. CASE Looped
    BY <2>0, <2>9, <1>n DEF Looped
  <2> QED BY <1>2, <2>1, <2>2, <2>3, <2>4, <2>5, <2>6, <2>7, <2>8, <2>9 DEF UserStep
<1>3. CASE Take
  BY <1>3 DEF Take
<1>4. ASSUME NEW r \in Receivers, CallbackStep(r) PROVE UserOK'
  <2>1. UNCHANGED <<user, counter, sync>>
    BY <1>4 DEF CallbackStep, Finish, BuildParts, OfferParts, StoreTag, StoreError, StoreAborted,
               Decrement, BuildFinal, OfferFinal, Count, Tell
  <2> QED BY <2>1
<1> QED BY <1>1, <1>2, <1>3, <1>4 DEF Next

\* Receivers run callbacks; no other step touches them, or what was built.
LEMMA JobStepOK ==
  TransactionAssumption /\ TypeOK /\ ControlOK /\ [Next]_vars => (\A q \in Receivers : JobOK(q))'
<1> SUFFICES ASSUME TransactionAssumption, TypeOK, ControlOK, [Next]_vars, NEW q \in Receivers
             PROVE  JobOK(q)'
  OBVIOUS
<1>j. JobOK(q)
  BY DEF ControlOK
<1>t. /\ job \in [Receivers -> Jobs]
      /\ answered \in [Requests -> {"no", "ok", "failed"}]
      /\ built \in [Uploads -> SUBSET (CreateId .. FinalId)]
  BY DEF TypeOK
<1>u. UserStep \/ Take \/ UNCHANGED vars => UNCHANGED <<job, answered, built>>
  BY DEF UserStep, Begin, Scan, Claim, Send, Sent, NotSent, Rollback, Undo, RolledBack, SendLocal,
         Looped, Take, vars, upload, user
<1>1. CASE UserStep \/ Take \/ UNCHANGED vars
  BY <1>1, <1>j, <1>u DEF JobOK
<1>2. ASSUME NEW r \in Receivers, CallbackStep(r) PROVE JobOK(q)'
  <2>r. JobOK(r)
    BY DEF ControlOK
  <2>b. PartIds = 1 .. Parts /\ CreateId = 0 /\ FinalId = Parts + 1 /\ Parts \in Nat \ {0}
    BY DEF PartIds, CreateId, FinalId, TransactionAssumption
  <2>m. job[r].at # "none" => job[r].request \in Requests /\ UploadOf(r) \in Uploads
    BY JobTypes
  <2>s. /\ \A u \in Uploads : built[u] \subseteq built'[u]
        /\ \A m \in Requests : answered[m] # "no" => answered'[m] # "no"
    BY <1>2, <1>t DEF CallbackStep, Finish, BuildParts, OfferParts, StoreTag, StoreError,
                 StoreAborted, Decrement, BuildFinal, OfferFinal, Count, Tell, upload
  <2>o. CASE q # r
    <3>1. job'[q] = job[q]
      BY <1>2, <2>o, OthersStay
    <3>2. job[q].at # "none" => job[q].request[1] \in Uploads
      BY <1>j DEF JobOK, Requests
    <3> QED BY <1>j, <2>s, <3>1, <3>2 DEF JobOK
  <2>e. ASSUME job'[r] = NoJob PROVE JobOK(r)'
    BY <2>e DEF JobOK, NoJob
  <2>f. CASE Finish(r) /\ q = r
    <3>1. PICK m \in Requests, ok \in BOOLEAN :
             /\ job' = [job EXCEPT ![r] = [at |-> Entry(m, ok), request |-> m, ok |-> ok]]
             /\ answered' = [answered EXCEPT ![m] = IF ok THEN "ok" ELSE "failed"]
             /\ UNCHANGED built
      BY <2>f DEF Finish, upload
    <3>2. m[2] \in PartIds \/ m[2] = CreateId \/ m[2] = FinalId
      BY <2>b DEF Requests
    <3> QED BY <1>t, <2>f, <3>1, <3>2, <2>b DEF JobOK, Entry, NoJob
  <2> USE DEF At, upload
  <2>1. CASE BuildParts(r) /\ q = r
    <3>1. /\ job'[r].at = "open" /\ job'[r].request = job[r].request /\ job'[r].ok = job[r].ok
          /\ job'[r] # NoJob
      BY <2>1, ProceedFacts DEF BuildParts, Places
    <3> QED BY <1>t, <2>r, <2>b, <2>m, <2>s, <2>1, <3>1 DEF BuildParts, JobOK, UploadOf
  <2>2. CASE OfferParts(r) /\ q = r
    BY <2>2, <2>e, ReturnFacts DEF OfferParts
  <2>3. CASE StoreTag(r) /\ q = r
    <3>1. /\ job'[r].at = "decrement" /\ job'[r].request = job[r].request /\ job'[r].ok = job[r].ok
          /\ job'[r] # NoJob
      BY <2>3, ProceedFacts DEF StoreTag, Places
    <3> QED BY <1>t, <2>r, <2>b, <2>m, <2>s, <2>3, <3>1 DEF StoreTag, JobOK, UploadOf
  <2>4. CASE StoreError(r) /\ q = r
    <3>1. /\ job'[r].at = "abort" /\ job'[r].request = job[r].request /\ job'[r].ok = job[r].ok
          /\ job'[r] # NoJob
      BY <2>4, ProceedFacts DEF StoreError, Places
    <3> QED BY <1>t, <2>r, <2>b, <2>m, <2>s, <2>4, <3>1 DEF StoreError, JobOK, UploadOf
  <2>5. CASE StoreAborted(r) /\ q = r
    <3>1. /\ job'[r].at = "decrement" /\ job'[r].request = job[r].request /\ job'[r].ok = job[r].ok
          /\ job'[r] # NoJob
      BY <2>5, ProceedFacts DEF StoreAborted, Places
    <3> QED BY <1>t, <2>r, <2>b, <2>m, <2>s, <2>5, <3>1 DEF StoreAborted, JobOK, UploadOf
  <2>6. CASE Decrement(r) /\ q = r
    <3>1. CASE Return(r)
      BY <2>6, <2>e, <3>1, ReturnFacts
    <3>2. CASE Proceed(r, "judge")
      <4>1. /\ job'[r].at = "judge" /\ job'[r].request = job[r].request /\ job'[r].ok = job[r].ok
            /\ job'[r] # NoJob
        BY <3>2, ProceedFacts DEF Places
      <4> QED BY <1>t, <2>r, <2>b, <2>s, <2>6, <4>1 DEF Decrement, JobOK
    <3> QED BY <2>6, <3>1, <3>2 DEF Decrement
  <2>7. CASE BuildFinal(r) /\ q = r
    <3>1. /\ job'[r].at = "validate" /\ job'[r].request = job[r].request /\ job'[r].ok = job[r].ok
          /\ job'[r] # NoJob
      BY <2>7, ProceedFacts DEF BuildFinal, Places
    <3> QED BY <1>t, <2>r, <2>b, <2>m, <2>s, <2>7, <3>1 DEF BuildFinal, JobOK, UploadOf
  <2>8. CASE OfferFinal(r) /\ q = r
    BY <2>8, <2>e, ReturnFacts DEF OfferFinal
  <2>9. CASE Count(r) /\ q = r
    <3>1. /\ job'[r].at = "tell" /\ job'[r].request = job[r].request /\ job'[r].ok = job[r].ok
          /\ job'[r] # NoJob
      BY <2>9, ProceedFacts DEF Count, Places
    <3> QED BY <1>t, <2>r, <2>b, <2>m, <2>s, <2>9, <3>1 DEF Count, JobOK, UploadOf
  <2>10. CASE Tell(r) /\ q = r
    BY <2>10, <2>e, ReturnFacts DEF Tell
  <2> QED BY <1>2, <2>o, <2>f, <2>1, <2>2, <2>3, <2>4, <2>5, <2>6, <2>7, <2>8, <2>9, <2>10
        DEF CallbackStep
<1> QED BY <1>1, <1>2 DEF Next

-----------------------------------------------------------------------------
(* How requests reach the receivers. *)

\* The steps that move requests to the receivers: all that is collected is queued.
Submits == queue' = queue \o collected /\ collected' = <<>> /\ UNCHANGED <<inflight, answered>>

\* What the steps of the user's thread do to the queue.
LEMMA UserQueue ==
  ASSUME TypeOK, UserStep
  PROVE  /\ UNCHANGED <<inflight, answered, job, completed, told>>
         /\ ~ (Send \/ SendLocal) => UNCHANGED queue
         /\ Send => (pc' = "idle" /\ counter' = counter /\ Submits) \/ failures' # failures
         /\ failures' # failures => UNCHANGED <<queue, collected>> /\ counter' = previous /\ pc' = "rollback"
         /\ SendLocal => pc' = "drain" /\ Submits
<1>1. \A n \in Nat : n + 1 # n
  OBVIOUS
<1>2. failures \in Nat
  BY DEF TypeOK
<1>3. Send => (pc' = "idle" /\ counter' = counter /\ Submits) \/ failures' # failures
  BY <1>1, <1>2 DEF Send, Sent, NotSent, Submits
<1>4. failures' # failures => UNCHANGED <<queue, collected>> /\ counter' = previous /\ pc' = "rollback"
  BY DEF UserStep, Begin, Scan, Claim, Send, Sent, NotSent, Rollback, Undo, RolledBack, SendLocal,
         Looped
<1>5. SendLocal => pc' = "drain" /\ Submits
  BY DEF SendLocal, Submits
<1> QED
  BY <1>3, <1>4, <1>5 DEF UserStep, Begin, Scan, Claim, Send, Sent, NotSent, Rollback, Undo,
     RolledBack, SendLocal, Looped, upload

\* The receivers' steps leave what is not sent, and what is sent stays so.
LEMMA ReceiversUnsent ==
  ASSUME TypeOK, Take \/ (\E r \in Receivers : CallbackStep(r)), NEW m \in Requests
  PROVE  Unsent(m)' <=> Unsent(m)
<1>t. /\ queue \in Seq(Requests) /\ inflight \in [Requests -> Nat]
      /\ answered \in [Requests -> {"no", "ok", "failed"}]
  BY DEF TypeOK
<1>1. CASE Take
  <2>1. /\ queue' = Tail(queue) /\ inflight' = [inflight EXCEPT ![Head(queue)] = @ + 1]
        /\ answered' = answered /\ queue # <<>>
    BY <1>1 DEF Take
  <2>2. /\ In(Head(queue), queue) /\ Head(queue) \in Requests
        /\ In(m, queue) => m = Head(queue) \/ In(m, queue')
        /\ In(m, queue') => In(m, queue)
    BY <1>t, <2>1, TailFacts
  <2>3. CASE m = Head(queue)
    <3>1. inflight'[m] > 0
      BY <1>t, <2>1, <2>3
    <3> QED BY <1>t, <2>2, <2>3, <3>1 DEF Unsent
  <2>4. CASE m # Head(queue)
    <3>1. inflight'[m] = inflight[m]
      BY <1>t, <2>1, <2>4
    <3> QED BY <2>1, <2>2, <2>4, <3>1 DEF Unsent
  <2> QED BY <2>3, <2>4
<1>2. ASSUME NEW r \in Receivers, CallbackStep(r) PROVE Unsent(m)' <=> Unsent(m)
  <2>1. CASE Finish(r)
    <3>1. PICK n \in Requests, ok \in BOOLEAN :
             /\ inflight[n] > 0
             /\ inflight' = [inflight EXCEPT ![n] = @ - 1]
             /\ answered' = [answered EXCEPT ![n] = IF ok THEN "ok" ELSE "failed"]
             /\ queue' = queue
      BY <2>1 DEF Finish
    <3>2. CASE m = n
      BY <1>t, <3>1, <3>2 DEF Unsent
    <3>3. CASE m # n
      BY <1>t, <3>1, <3>3 DEF Unsent
    <3> QED BY <3>2, <3>3
  <2>2. CASE ~ Finish(r)
    <3>1. UNCHANGED <<queue, inflight, answered>>
      BY <1>2, <2>2 DEF CallbackStep, BuildParts, OfferParts, StoreTag, StoreError,
         StoreAborted, Decrement, BuildFinal, OfferFinal, Count, Tell
    <3> QED BY <3>1 DEF Unsent
  <2> QED BY <2>1, <2>2
<1> QED BY <1>1, <1>2

\* The receivers leave the user's thread where it is.
LEMMA ReceiversUser ==
  Take \/ (\E r \in Receivers : CallbackStep(r)) => UNCHANGED <<user, counter, sync>>
BY DEF CallbackStep, Finish, BuildParts, OfferParts, StoreTag, StoreError, StoreAborted,
       Decrement, BuildFinal, OfferFinal, Count, Tell, Take

\* The opening requests are handed over in order: a send that fails takes back
\* exactly the ones it collected.
LEMMA OpenedStepOK ==
  TransactionAssumption /\ TypeOK /\ UserOK /\ (\A u \in Uploads : OpenedOK(u)) /\ [Next]_vars
    => (\A u \in Uploads : OpenedOK(u))'
<1> SUFFICES ASSUME TransactionAssumption, TypeOK, UserOK, \A u \in Uploads : OpenedOK(u),
                    [Next]_vars, NEW u \in Uploads
             PROVE  OpenedOK(u)'
  BY DEF Uploads
<1> DEFINE m == <<u, CreateId>>
<1>o. OpenedOK(u)
  OBVIOUS
<1>m. m \in Requests /\ CreateId \in CreateId .. FinalId /\ u \in 1 .. N
  BY DEF Requests, CreateId, FinalId, TransactionAssumption, Uploads
<1>n. N \in Nat /\ counter \in 0 .. N /\ previous \in 0 .. N /\ collected \in Seq(Requests)
       /\ queue \in Seq(Requests) /\ failures \in Nat
  BY DEF TypeOK, TransactionAssumption
<1> HIDE DEF m
<1>1. CASE UNCHANGED vars
  BY <1>o, <1>1 DEF vars, user, OpenedOK, Handed, Unsent
<1>2. CASE Take \/ (\E r \in Receivers : CallbackStep(r))
  BY <1>o, <1>2, <1>m, ReceiversUnsent, ReceiversUser DEF OpenedOK, Handed, user, m
<1>3. CASE UserStep
  <2>u. /\ UNCHANGED <<inflight, answered>>
        /\ ~ (Send \/ SendLocal) => UNCHANGED queue
    BY <1>3, UserQueue
  <2>x. ~ (Send \/ SendLocal) => (Unsent(m)' <=> Unsent(m))
    BY <2>u DEF Unsent
  <2>1. CASE Begin
    <3>1. In(m, collected') <=> u > counter
      BY <1>m, <1>n, <2>1, BegunFacts DEF Begin, m
    <3>2. pc = "idle" /\ pc' = "scan" /\ previous' = counter
      BY <2>1 DEF Begin
    <3>3. ~ (Send \/ SendLocal)
      BY <3>2 DEF Send, SendLocal
    <3> QED BY <1>o, <1>m, <1>n, <2>x, <3>1, <3>2, <3>3 DEF OpenedOK, Handed, m
  <2>2. CASE Scan
    <3>1. /\ pc = "scan" /\ pc' \in {"scan", "claim"} /\ cursor <= N /\ UNCHANGED previous
          /\ collected' = collected \o Due(cursor, state[cursor])
      BY <2>2 DEF Scan
    <3>2. cursor \in Uploads /\ state[cursor] \in States
      BY <3>1 DEF UserOK, TypeOK, Uploads
    <3>3. Due(cursor, state[cursor]) \in Seq(Requests) /\ ~ In(m, Due(cursor, state[cursor]))
      <4>1. CreateId \notin PartIds /\ CreateId # FinalId
        BY DEF PartIds, CreateId, FinalId, TransactionAssumption
      <4> QED BY <1>m, <3>2, <4>1, DueFacts DEF m
    <3>4. In(m, collected') <=> In(m, collected)
      BY <1>n, <3>1, <3>3, InConcat
    <3>5. ~ (Send \/ SendLocal)
      BY <2>2, <1>n, <3>1, <3>2 DEF Send, SendLocal, Uploads
    <3> QED BY <1>o, <1>m, <1>n, <2>x, <3>1, <3>4, <3>5 DEF OpenedOK, Handed, m
  <2>3. CASE Claim \/ Rollback \/ Undo \/ RolledBack \/ Looped
    <3>1. /\ pc \in {"scan", "claim"} <=> pc' \in {"scan", "claim"}
          /\ pc' \in {"scan", "claim"} => collected' = collected
          /\ UNCHANGED <<counter, previous>> /\ ~ (Send \/ SendLocal)
      BY <2>3 DEF Claim, Rollback, Undo, RolledBack, Looped, Send, SendLocal
    <3> QED BY <1>o, <1>m, <1>n, <2>x, <3>1 DEF OpenedOK, Handed, m
  <2>4. CASE failures' # failures
    <3>1. UNCHANGED <<queue, collected>> /\ counter' = previous /\ pc' = "rollback"
      BY <1>3, <2>4, UserQueue
    <3>2. pc = "scan"
      BY <1>3, <2>4 DEF UserStep, Begin, Scan, Claim, Send, Sent, Rollback, Undo, RolledBack,
         SendLocal, Looped
    <3> QED BY <1>o, <1>m, <2>u, <3>1, <3>2 DEF OpenedOK, Handed, Unsent, m
  <2>5. CASE (Send \/ SendLocal) /\ failures' = failures
    <3>1. /\ Submits /\ counter' = counter /\ pc' \in {"idle", "drain"} /\ pc = "scan"
      BY <1>3, <2>5, UserQueue DEF Send, SendLocal
    <3>2. counter = N
      BY <3>1 DEF UserOK
    <3>3. In(m, queue') <=> In(m, queue) \/ In(m, collected)
      BY <1>n, <3>1, InConcat DEF Submits
    <3>4. ~ Unsent(m) \/ In(m, collected)
      BY <1>o, <1>m, <1>n, <3>1 DEF OpenedOK, Handed, m
    <3>5. ~ Unsent(m)'
      BY <2>u, <3>3, <3>4 DEF Unsent
    <3> QED BY <1>m, <1>n, <3>1, <3>2, <3>5 DEF OpenedOK, Handed, m
  <2> QED BY <1>3, <2>1, <2>2, <2>3, <2>4, <2>5 DEF UserStep
<1> QED BY <1>1, <1>2, <1>3 DEF Next

\* Control is kept, whatever fails.
LEMMA ControlStep == TransactionAssumption /\ TypeOK /\ ControlOK /\ [Next]_vars => ControlOK'
BY UserStepOK, JobStepOK, OpenedStepOK DEF ControlOK

-----------------------------------------------------------------------------
(* What a step leaves alone, as long as no send has failed. *)

\* The invariant of the calls before the first failed send.
Whole ==
  /\ NoSendFailed
  /\ TypeOK
  /\ ControlOK
  /\ RequestsOK
  /\ ClaimOK
  /\ CallbacksOK
  /\ \A u \in Uploads : StateOK(u) /\ PartsOK(u) /\ ToldOK(u)
  /\ CountsOK

\* The callbacks of u stay where they are.
On(j, u) == j.at # "none" /\ j.request[1] = u
SameWork(u) == \A q \in Receivers : job'[q] = job[q] \/ (~ On(job[q], u) /\ ~ On(job'[q], u))

\* Nothing of u changes, but for the state in user's steps.
SameUpload(u) ==
  /\ eTags'[u] = eTags[u] /\ errorId'[u] = errorId[u] /\ final'[u] = final[u]
  /\ outstanding'[u] = outstanding[u] /\ built'[u] = built[u] /\ told'[u] = told[u]
  /\ \A i \in CreateId .. FinalId : answered'[<<u, i>>] = answered[<<u, i>>]
  /\ SameWork(u)

\* Nothing that tells which requests of u were sent or collected changes.
SameSent(u) ==
  /\ \A i \in CreateId .. FinalId : Unsent(<<u, i>>)' <=> Unsent(<<u, i>>)
  /\ UNCHANGED <<collected, pc, cursor>>

\* A request that has ended stays so.
AnswersStay == \A m \in Requests : answered[m] # "no" => answered'[m] = answered[m]

\* The part and request numbers.
LEMMA Numbers ==
  /\ Parts \in Nat \ {0} /\ N \in Nat \ {0}
  /\ PartIds = 1 .. Parts /\ CreateId = 0 /\ FinalId = Parts + 1
  /\ CreateId \in CreateId .. FinalId /\ FinalId \in CreateId .. FinalId
  /\ PartIds \subseteq CreateId .. FinalId
  /\ CreateId \notin PartIds /\ FinalId \notin PartIds /\ CreateId # FinalId
  /\ 1 \in PartIds
BY TransactionAssumption DEF TransactionAssumption, PartIds, CreateId, FinalId

\* A step that leaves the callbacks of u leaves the places they are at.
LEMMA WorkFrame ==
  ASSUME NEW u, SameWork(u), NEW places, "none" \notin places
  PROVE  /\ Working(u, places)' <=> Working(u, places)
         /\ \A i : WorkingOn(<<u, i>>, places)' <=> WorkingOn(<<u, i>>, places)
BY DEF SameWork, On, Working, WorkingOn

\* The conditions under which a step keeps each part of the invariant of u.
LEMMA StateKept ==
  ASSUME NEW u \in Uploads, StateOK(u), SameSent(u),
         state'[u] = state[u], final'[u] = final[u], outstanding'[u] = outstanding[u],
         built[u] \subseteq built'[u],
         answered'[<<u, CreateId>>] = answered[<<u, CreateId>>],
         Working(u, {"judge"})' <=> Working(u, {"judge"}),
         Working(u, {"validate"})' <=> Working(u, {"validate"}),
         Working(u, {"judge", "validate"})' <=> Working(u, {"judge", "validate"}),
         WorkingOn(<<u, CreateId>>, Places \ {"none"})'
           => WorkingOn(<<u, CreateId>>, Places \ {"none"})
  PROVE  StateOK(u)'
<1>1. \A i \in CreateId .. FinalId : Waits(<<u, i>>)' <=> Waits(<<u, i>>)
  BY DEF SameSent, Waits
<1>2. \A m : In(m, collected)' <=> In(m, collected)
  BY DEF SameSent
<1> QED BY <1>1, <1>2, Numbers DEF StateOK

\* ... of the record of its parts ...
LEMMA PartsKept ==
  ASSUME TypeOK, NEW u \in Uploads, PartsOK(u),
         (state'[u] = "Aborted") <=> (state[u] = "Aborted"),
         eTags'[u] = eTags[u], errorId'[u] = errorId[u], final'[u] = final[u],
         \A i \in PartIds : answered'[<<u, i>>] = answered[<<u, i>>],
         Working(u, {"abort"})' => Working(u, {"abort"}),
         \A i \in PartIds : WorkingOn(<<u, i>>, {"tag"}) => WorkingOn(<<u, i>>, {"tag"})',
         \A i \in PartIds : WorkingOn(<<u, i>>, {"blame", "abort"})
                              => WorkingOn(<<u, i>>, {"blame", "abort"})'
  PROVE  PartsOK(u)'
<1>1. errorId[u] # 0 => errorId[u] \in PartIds
  BY Numbers DEF TypeOK
<1> QED BY <1>1 DEF PartsOK

\* ... of what the user was told ...
LEMMA ToldKept ==
  ASSUME TypeOK, AnswersStay, NEW u \in Uploads, ToldOK(u),
         told'[u] = told[u], final'[u] = final[u],
         Working(u, {"count", "tell"})' => Working(u, {"count", "tell"})
  PROVE  ToldOK(u)'
<1>1. \A k \in DOMAIN told[u] : told[u][k].origin \in Requests
  <2>1. told[u] \in Seq(Verdicts)
    BY DEF TypeOK
  <2>2. \A k \in DOMAIN told[u] : told[u][k] \in Verdicts
    BY <2>1
  <2> QED BY <2>2 DEF Verdicts
<1>2. <<u, CreateId>> \in Requests /\ <<u, FinalId>> \in Requests
  BY Numbers DEF Requests
<1>3. EndedBy(u) => EndedBy(u)'
  BY <1>2 DEF EndedBy, AnswersStay
<1> QED BY <1>1, <1>2, <1>3 DEF ToldOK, AnswersStay

\* ... and of the parts outstanding counts.
LEMMA PendingKept ==
  ASSUME NEW u \in Uploads,
         \A i \in PartIds : answered'[<<u, i>>] = answered[<<u, i>>],
         \A i \in PartIds : WorkingOn(<<u, i>>, {"tag", "blame", "abort", "decrement"})'
                              <=> WorkingOn(<<u, i>>, {"tag", "blame", "abort", "decrement"})
  PROVE  Pending(u)' = Pending(u)
BY DEF Pending

\* The invariant of one upload.
UploadOK(u) ==
  /\ StateOK(u)
  /\ PartsOK(u)
  /\ ToldOK(u)
  /\ outstanding[u] = Cardinality(Pending(u))

\* A step that leaves u alone keeps it, but for the state.
LEMMA UploadFrame ==
  ASSUME Whole, AnswersStay, NEW u \in Uploads, SameUpload(u)
  PROVE  /\ ((state'[u] = "Aborted") <=> (state[u] = "Aborted")) => PartsOK(u)'
         /\ ToldOK(u)'
         /\ outstanding'[u] = Cardinality(Pending(u)')
         /\ state'[u] = state[u] /\ SameSent(u) => StateOK(u)'
         /\ u \in Counted' <=> u \in Counted
<1>w. /\ Working(u, {"abort"})' <=> Working(u, {"abort"})
      /\ Working(u, {"tell"})' <=> Working(u, {"tell"})
      /\ Working(u, {"count", "tell"})' <=> Working(u, {"count", "tell"})
      /\ \A i : WorkingOn(<<u, i>>, {"tag"})' <=> WorkingOn(<<u, i>>, {"tag"})
      /\ \A i : WorkingOn(<<u, i>>, {"blame", "abort"})' <=> WorkingOn(<<u, i>>, {"blame", "abort"})
      /\ \A i : WorkingOn(<<u, i>>, {"tag", "blame", "abort", "decrement"})'
                  <=> WorkingOn(<<u, i>>, {"tag", "blame", "abort", "decrement"})
      /\ Working(u, {"judge"})' <=> Working(u, {"judge"})
      /\ Working(u, {"validate"})' <=> Working(u, {"validate"})
      /\ Working(u, {"judge", "validate"})' <=> Working(u, {"judge", "validate"})
      /\ WorkingOn(<<u, CreateId>>, Places \ {"none"})'
           <=> WorkingOn(<<u, CreateId>>, Places \ {"none"})
  BY WorkFrame DEF SameUpload
<1>a. /\ \A i \in PartIds : answered'[<<u, i>>] = answered[<<u, i>>]
      /\ answered'[<<u, CreateId>>] = answered[<<u, CreateId>>]
  BY Numbers DEF SameUpload
<1>i. TypeOK /\ StateOK(u) /\ PartsOK(u) /\ ToldOK(u) /\ outstanding[u] = Cardinality(Pending(u))
  BY DEF Whole, CountsOK
<1>1. ((state'[u] = "Aborted") <=> (state[u] = "Aborted")) => PartsOK(u)'
  BY <1>w, <1>a, <1>i, PartsKept DEF SameUpload
<1>2. ToldOK(u)'
  BY <1>w, <1>i, ToldKept DEF SameUpload
<1>3. outstanding'[u] = Cardinality(Pending(u)')
  BY <1>w, <1>a, <1>i, PendingKept DEF SameUpload
<1>4. state'[u] = state[u] /\ SameSent(u) => StateOK(u)'
  BY <1>w, <1>a, <1>i, StateKept DEF SameUpload
<1>5. u \in Counted' <=> u \in Counted
  BY <1>w DEF Counted, SameUpload
<1> QED BY <1>1, <1>2, <1>3, <1>4, <1>5

\* What the invariant says of a request that is with the receivers or done.
LEMMA SentFacts ==
  ASSUME Whole, NEW u \in Uploads, NEW i \in CreateId .. FinalId, ~ Unsent(<<u, i>>)
  PROVE  /\ ~ In(<<u, i>>, collected)
         /\ i \in PartIds => /\ state[u] # "Sending"
                             /\ state[u] # "Default" \/ final[u] # "none"
                             /\ answered[<<u, CreateId>>] = "ok"
         /\ i = FinalId => /\ state[u] = "Default" /\ final[u] # "none"
                           /\ answered[<<u, CreateId>>] = "ok"
<1>1. StateOK(u) /\ RequestOK(<<u, i>>) /\ <<u, i>> \in Requests
  BY DEF Whole, RequestsOK, Requests
<1>2. ~ In(<<u, i>>, collected)
  BY <1>1 DEF RequestOK
<1>3. ~ Waits(<<u, i>>)
  BY DEF Waits
<1> QED BY <1>1, <1>2, <1>3 DEF StateOK

\* The parts that outstanding counts.
LEMMA PendingFacts ==
  ASSUME Whole, NEW u \in Uploads
  PROVE  /\ IsFiniteSet(Pending(u)) /\ Pending(u) \subseteq PartIds
         /\ outstanding[u] = Cardinality(Pending(u)) /\ outstanding[u] \in Nat
         /\ outstanding[u] = 0 <=> Pending(u) = {}
<1>1. Pending(u) \subseteq PartIds
  BY DEF Pending
<1>2. IsFiniteSet(PartIds)
  BY Numbers, FS_Interval
<1>3. IsFiniteSet(Pending(u))
  BY <1>1, <1>2, FS_Subset
<1>4. outstanding[u] = Cardinality(Pending(u))
  BY DEF Whole, CountsOK
<1> QED BY <1>1, <1>3, <1>4, FS_CardinalityType, FS_EmptySet

\* While a part that was sent is pending, nothing judges the upload.
LEMMA PendingState ==
  ASSUME Whole, NEW u \in Uploads, NEW i \in PartIds, ~ Unsent(<<u, i>>), i \in Pending(u)
  PROVE  /\ outstanding[u] >= 1
         /\ final[u] = "none"
         /\ state[u] \in {"Processing", "Aborted"}
         /\ ~ Working(u, {"judge", "validate"})
<1>1. outstanding[u] # 0 /\ outstanding[u] \in Nat
  BY PendingFacts
<1>2. StateOK(u) /\ state[u] \in States
  BY DEF Whole, TypeOK
<1>3. final[u] = "none" /\ ~ Working(u, {"judge", "validate"})
  BY <1>1, <1>2 DEF StateOK
<1>4. state[u] # "Sending" /\ state[u] # "Default"
  BY <1>3, SentFacts, Numbers
<1>5. state[u] # "Validating"
  BY <1>2, <1>3 DEF StateOK
<1> QED BY <1>1, <1>2, <1>3, <1>4, <1>5 DEF States

\* A request that has a callback has ended; its ending is the callback's.
LEMMA CallbackFacts ==
  ASSUME Whole, NEW r \in Receivers, job[r].at # "none"
  PROVE  /\ UploadOf(r) \in Uploads /\ PartOf(r) \in CreateId .. FinalId
         /\ job[r].request = <<UploadOf(r), PartOf(r)>> /\ job[r].request \in Requests
         /\ job[r] # NoJob
         /\ ~ Unsent(<<UploadOf(r), PartOf(r)>>)
         /\ job[r].ok => answered[<<UploadOf(r), PartOf(r)>>] = "ok"
         /\ ~ job[r].ok => answered[<<UploadOf(r), PartOf(r)>>] = "failed"
         /\ \A q \in Receivers : job[q].request = job[r].request => q = r
<1>1. JobOK(r) /\ CallbacksOK
  BY DEF Whole, ControlOK
<1>2. /\ UploadOf(r) \in Uploads /\ PartOf(r) \in CreateId .. FinalId
      /\ job[r].request = <<UploadOf(r), PartOf(r)>> /\ job[r].request \in Requests
  BY JobTypes, TransactionAssumption DEF Whole
<1>3. \A q \in Receivers : job[q].request = job[r].request => q = r
  BY <1>1 DEF CallbacksOK
<1>4. answered[job[r].request] = IF job[r].ok THEN "ok" ELSE "failed"
  BY <1>1 DEF CallbacksOK
<1>5. ~ Unsent(job[r].request)
  BY <1>4 DEF Unsent
<1>6. job[r] # NoJob
  BY <1>1 DEF JobOK
<1>7. job[r].ok \in BOOLEAN
  BY DEF Whole, TypeOK, Jobs
<1> QED BY <1>2, <1>3, <1>4, <1>5, <1>6, <1>7

\* The callback of a part between its ending and the decrement.
LEMMA PartFacts ==
  ASSUME Whole, NEW r \in Receivers, job[r].at \in {"tag", "blame", "abort", "decrement"}
  PROVE  /\ PartOf(r) \in PartIds
         /\ PartOf(r) \in Pending(UploadOf(r))
         /\ outstanding[UploadOf(r)] >= 1
         /\ final[UploadOf(r)] = "none"
         /\ state[UploadOf(r)] \in {"Processing", "Aborted"}
         /\ ~ Working(UploadOf(r), {"judge", "validate"})
<1>1. PartOf(r) \in PartIds
  BY DEF Whole, ControlOK, JobOK, PartOf
<1>2. PartOf(r) \in Pending(UploadOf(r))
  BY <1>1, CallbackFacts DEF Pending, WorkingOn
<1>3. UploadOf(r) \in Uploads /\ ~ Unsent(<<UploadOf(r), PartOf(r)>>)
  BY CallbackFacts
<1> QED BY <1>1, <1>2, <1>3, PendingState

\* The callback of the last part, before it has built the final request.
LEMMA JudgeFacts ==
  ASSUME Whole, NEW r \in Receivers, job[r].at = "judge"
  PROVE  /\ PartOf(r) \in PartIds
         /\ outstanding[UploadOf(r)] = 0 /\ Pending(UploadOf(r)) = {}
         /\ final[UploadOf(r)] = "none"
         /\ state[UploadOf(r)] \in {"Processing", "Aborted"}
<1> DEFINE u == UploadOf(r)
<1>1. PartOf(r) \in PartIds
  BY DEF Whole, ControlOK, JobOK, PartOf
<1>2. u \in Uploads /\ ~ Unsent(<<u, PartOf(r)>>)
  BY CallbackFacts
<1>3. Working(u, {"judge"}) /\ Working(u, {"judge", "validate"})
  BY DEF Working, UploadOf
<1>4. StateOK(u) /\ state[u] \in States
  BY <1>2 DEF Whole, TypeOK
<1>5. outstanding[u] = 0 /\ final[u] = "none" /\ state[u] # "Validating"
  BY <1>3, <1>4 DEF StateOK
<1>6. state[u] # "Sending" /\ state[u] # "Default"
  BY <1>1, <1>2, <1>5, SentFacts, Numbers
<1> QED BY <1>1, <1>2, <1>4, <1>5, <1>6, PendingFacts DEF States

\* The callback that ends an upload: no other does, and the user was not told yet.
LEMMA EndingFacts ==
  ASSUME Whole, NEW r \in Receivers, job[r].at \in {"count", "tell"}
  PROVE  /\ EndedBy(UploadOf(r))
         /\ told[UploadOf(r)] = <<>>
         /\ PartOf(r) = CreateId => answered[<<UploadOf(r), CreateId>>] = "failed"
         /\ PartOf(r) # CreateId => PartOf(r) = FinalId
         /\ \A q \in Receivers : job[q].at \in {"count", "tell"} /\ UploadOf(q) = UploadOf(r) => q = r
<1> DEFINE u == UploadOf(r)
<1>1. \A q \in Receivers : job[q].at \in {"count", "tell"} =>
        \/ PartOf(q) = FinalId
        \/ PartOf(q) = CreateId /\ ~ job[q].ok
  BY DEF Whole, ControlOK, JobOK, PartOf
<1>2. \A q \in Receivers : job[q].at \in {"count", "tell"} /\ UploadOf(q) = u =>
        /\ PartOf(q) = FinalId => answered[<<u, CreateId>>] = "ok" /\ answered[<<u, FinalId>>] # "no"
        /\ PartOf(q) # FinalId => answered[<<u, CreateId>>] = "failed" /\ PartOf(q) = CreateId
  <2> SUFFICES ASSUME NEW q \in Receivers, job[q].at \in {"count", "tell"}, UploadOf(q) = u
               PROVE  /\ PartOf(q) = FinalId => answered[<<u, CreateId>>] = "ok" /\ answered[<<u, FinalId>>] # "no"
                      /\ PartOf(q) # FinalId => answered[<<u, CreateId>>] = "failed" /\ PartOf(q) = CreateId
    OBVIOUS
  <2>1. /\ u \in Uploads /\ ~ Unsent(<<u, PartOf(q)>>)
        /\ job[q].ok => answered[<<u, PartOf(q)>>] = "ok"
        /\ ~ job[q].ok => answered[<<u, PartOf(q)>>] = "failed"
        /\ job[q].ok \in BOOLEAN
    BY CallbackFacts DEF Whole, TypeOK, Jobs
  <2> QED BY <1>1, <2>1, SentFacts, Numbers
<1>3. \A q \in Receivers : job[q].at \in {"count", "tell"} /\ UploadOf(q) = u => q = r
  <2> SUFFICES ASSUME NEW q \in Receivers, job[q].at \in {"count", "tell"}, UploadOf(q) = u PROVE q = r
    OBVIOUS
  <2>1. PartOf(q) = PartOf(r)
    BY <1>2
  <2>2. job[q].at # "none" /\ job[r].at # "none"
    OBVIOUS
  <2>3. job[q].request = <<UploadOf(q), PartOf(q)>> /\ job[r].request = <<UploadOf(r), PartOf(r)>>
    BY <2>2, CallbackFacts
  <2>4. job[q].request = job[r].request
    BY <2>1, <2>3
  <2> QED BY <2>2, <2>4, CallbackFacts
<1>4. EndedBy(u)
  BY <1>2 DEF EndedBy
<1>5. told[u] = <<>>
  <2>1. Working(u, {"count", "tell"})
    BY DEF Working, UploadOf
  <2>2. ToldOK(u)
    BY CallbackFacts DEF Whole
  <2> QED BY <2>1, <2>2 DEF ToldOK
<1> QED BY <1>1, <1>2, <1>3, <1>4, <1>5, Numbers

-----------------------------------------------------------------------------
(* The requests. *)

\* A send that succeeds.
Submitting ==
  /\ pc = "scan" /\ pc' \in {"idle", "drain"}
  /\ Submits
  /\ UNCHANGED <<upload, completed, job, told, cursor>>

\* What the user's thread does as long as no send fails.
LEMMA UserCases ==
  ASSUME Whole, NoSendFailed', UserStep
  PROVE  Begin \/ Scan \/ Claim \/ Submitting \/ Looped
<1>1. pc \notin {"rollback", "undo"} /\ failures' = failures
  BY DEF Whole, ControlOK, UserOK, NoSendFailed
<1>2. Send => Submitting
  <2>1. ASSUME Send PROVE pc' = "idle" /\ Submits
    BY <1>1, <2>1, UserQueue DEF Whole
  <2> QED BY <2>1, <1>1 DEF Send, Sent, NotSent, Submitting, Whole, TypeOK
<1>3. SendLocal => Submitting
  BY DEF SendLocal, Submits, Submitting, user
<1> QED BY <1>1, <1>2, <1>3 DEF UserStep, Rollback, Undo, RolledBack

\* A request that Scan collects was not collected before.
LEMMA ScanFacts ==
  ASSUME Whole, Scan
  PROVE  /\ cursor \in Uploads /\ state[cursor] \in States
         /\ Due(cursor, state[cursor]) \in Seq(Requests) /\ Distinct(Due(cursor, state[cursor]))
         /\ \A m \in Requests : In(m, Due(cursor, state[cursor])) =>
              Unsent(m) /\ ~ In(m, collected) /\ m[1] = cursor
         /\ \A m \in Requests : In(m, collected') <=> In(m, collected) \/ In(m, Due(cursor, state[cursor]))
<1> DEFINE u == cursor
           d == Due(u, state[u])
<1>1. u \in Uploads /\ state[u] \in States /\ pc = "scan"
  <2>1. pc = "scan" /\ cursor <= N /\ cursor >= 1 /\ cursor \in 0 .. N + 1
    BY DEF Scan, Whole, ControlOK, UserOK, TypeOK
  <2>2. u \in Uploads
    BY <2>1, Numbers DEF Uploads
  <2> QED BY <2>1, <2>2 DEF Whole, TypeOK
<1>2. d \in Seq(Requests) /\ Distinct(d)
  BY <1>1, DueFacts, TransactionAssumption
<1>3. ASSUME NEW m \in Requests, In(m, d) PROVE Unsent(m) /\ ~ In(m, collected) /\ m[1] = u
  <2>1. m = <<m[1], m[2]>> /\ m[1] \in Uploads /\ m[2] \in CreateId .. FinalId
    BY DEF Requests
  <2>2. /\ m[1] = u
        /\ \/ state[u] = "Sending" /\ m[2] \in PartIds
           \/ state[u] = "Validating" /\ m[2] = FinalId
    BY <1>1, <1>3, <2>1, DueFacts, TransactionAssumption
  <2>3. StateOK(u)
    BY <1>1 DEF Whole
  <2>4. Waits(m)
    <3>1. CASE state[u] = "Sending" /\ m[2] \in PartIds
      BY <2>1, <2>2, <2>3, <3>1 DEF StateOK
    <3>2. CASE state[u] = "Validating" /\ m[2] = FinalId
      BY <2>1, <2>2, <2>3, <3>2 DEF StateOK
    <3> QED BY <2>2, <3>1, <3>2
  <2> QED BY <1>1, <2>2, <2>4 DEF Waits
<1>4. ASSUME NEW m \in Requests PROVE In(m, collected') <=> In(m, collected) \/ In(m, d)
  <2>1. collected \in Seq(Requests) /\ collected' = collected \o d
    BY DEF Whole, TypeOK, Scan
  <2> HIDE DEF d
  <2> QED BY <1>2, <2>1, InConcat
<1> QED BY <1>1, <1>2, <1>3, <1>4

\* A request stays in one place: collected, queued, in flight, or answered.
LEMMA RequestsStep ==
  ASSUME Whole, NoSendFailed', [Next]_vars
  PROVE  RequestsOK'
<1>r. /\ Distinct(queue) /\ Distinct(collected)
      /\ \A m \in Requests : RequestOK(m)
  BY DEF Whole, RequestsOK
<1>t. /\ queue \in Seq(Requests) /\ collected \in Seq(Requests)
      /\ inflight \in [Requests -> Nat] /\ answered \in [Requests -> {"no", "ok", "failed"}]
      /\ counter \in 0 .. N
  BY DEF Whole, TypeOK
<1>1. CASE UNCHANGED vars
  BY <1>1, <1>r DEF vars, user, RequestsOK, RequestOK, Unsent
<1>2. CASE Begin
  <2>1. UNCHANGED <<queue, inflight, answered>> /\ pc = "idle"
    BY <1>2 DEF Begin
  <2>2. ASSUME NEW m \in Requests, In(m, collected') PROVE Unsent(m)
    <3>1. m[1] \in Uploads /\ m = <<m[1], m[2]>> /\ m[2] \in CreateId .. FinalId
      BY DEF Requests
    <3>2. m[2] = CreateId /\ m[1] > counter
      BY <1>2, <1>t, <2>2, <3>1, BegunFacts, TransactionAssumption DEF Begin
    <3>3. OpenedOK(m[1])
      BY <3>1 DEF Whole, ControlOK
    <3> QED BY <2>1, <3>1, <3>2, <3>3 DEF OpenedOK, Handed
  <2>3. Distinct(collected')
    BY <1>2, <1>t, BegunFacts, TransactionAssumption DEF Begin
  <2> QED BY <1>r, <2>1, <2>2, <2>3 DEF RequestsOK, RequestOK, Unsent
<1>3. CASE Scan
  <2>1. UNCHANGED <<queue, inflight, answered>> /\ collected' = collected \o Due(cursor, state[cursor])
    BY <1>3 DEF Scan
  <2>2. \A m \in Requests : In(m, collected') => Unsent(m)
    BY <1>3, <1>r, ScanFacts DEF RequestOK
  <2>3. Distinct(collected')
    BY <1>3, <1>r, <1>t, <2>1, ScanFacts, DistinctConcat
  <2> QED BY <1>r, <2>1, <2>2, <2>3 DEF RequestsOK, RequestOK, Unsent
<1>4. CASE Claim \/ Looped
  <2>1. UNCHANGED <<queue, inflight, answered, collected>>
    BY <1>4 DEF Claim, Looped
  <2> QED BY <1>r, <2>1 DEF RequestsOK, RequestOK, Unsent
<1>5. CASE Submitting
  <2>1. queue' = queue \o collected /\ collected' = <<>> /\ UNCHANGED <<inflight, answered>>
    BY <1>5 DEF Submitting, Submits
  <2>2. \A m \in Requests : In(m, collected) => Unsent(m)
    BY <1>r DEF RequestOK
  <2>3. Distinct(queue')
    BY <1>r, <1>t, <2>1, <2>2, DistinctConcat DEF Unsent
  <2>4. \A m \in Requests : In(m, queue') <=> In(m, queue) \/ In(m, collected)
    BY <1>t, <2>1, InConcat
  <2>5. Distinct(collected') /\ \A m : ~ In(m, collected')
    BY <2>1, InEmpty DEF Distinct
  <2>6. ASSUME NEW m \in Requests PROVE RequestOK(m)'
    BY <1>r, <2>1, <2>2, <2>4, <2>5 DEF RequestOK, Unsent
  <2> QED BY <2>3, <2>5, <2>6 DEF RequestsOK
<1>6. CASE Take
  <2>1. /\ queue' = Tail(queue) /\ inflight' = [inflight EXCEPT ![Head(queue)] = @ + 1]
        /\ UNCHANGED <<answered, collected>> /\ queue # <<>>
    BY <1>6 DEF Take, user
  <2>2. /\ Distinct(queue') /\ Head(queue) \in Requests /\ In(Head(queue), queue)
        /\ \A m : In(m, queue') <=> In(m, queue) /\ m # Head(queue)
    BY <1>r, <1>t, <2>1, TailFacts
  <2>3. ASSUME NEW m \in Requests PROVE RequestOK(m)'
    <3>1. Unsent(m)' <=> Unsent(m)
      BY <1>6, ReceiversUnsent DEF Whole
    <3>2. CASE m = Head(queue)
      <4>1. inflight[m] = 0 /\ answered[m] = "no" /\ inflight'[m] = 1 /\ ~ In(m, queue')
        BY <1>r, <1>t, <2>1, <2>2, <3>2 DEF RequestOK
      <4> QED BY <1>r, <2>1, <3>1, <4>1 DEF RequestOK
    <3>3. CASE m # Head(queue)
      <4>1. inflight'[m] = inflight[m] /\ (In(m, queue') <=> In(m, queue))
        BY <1>t, <2>1, <2>2, <3>3
      <4> QED BY <1>r, <2>1, <3>1, <4>1 DEF RequestOK
    <3> QED BY <3>2, <3>3
  <2> QED BY <1>r, <2>1, <2>2, <2>3 DEF RequestsOK
<1>7. ASSUME NEW r \in Receivers, CallbackStep(r) PROVE RequestsOK'
  <2>1. UNCHANGED <<queue, collected>>
    BY <1>7 DEF CallbackStep, Finish, BuildParts, OfferParts, StoreTag, StoreError,
         StoreAborted, Decrement, BuildFinal, OfferFinal, Count, Tell, user
  <2>2. CASE Finish(r)
    <3>1. PICK m \in Requests, ok \in BOOLEAN :
             /\ inflight[m] > 0
             /\ inflight' = [inflight EXCEPT ![m] = @ - 1]
             /\ answered' = [answered EXCEPT ![m] = IF ok THEN "ok" ELSE "failed"]
      BY <2>2 DEF Finish
    <3>2. ASSUME NEW n \in Requests PROVE RequestOK(n)'
      <4>1. CASE n = m
        <5>1. inflight[m] = 1 /\ inflight'[m] = 0 /\ ~ In(m, queue) /\ ~ In(m, collected)
          BY <1>r, <1>t, <3>1 DEF RequestOK, Unsent
        <5> QED BY <2>1, <4>1, <5>1 DEF RequestOK
      <4>2. CASE n # m
        <5>1. inflight'[n] = inflight[n] /\ answered'[n] = answered[n]
          BY <1>t, <3>1, <4>2
        <5> QED BY <1>r, <2>1, <5>1 DEF RequestOK, Unsent
      <4> QED BY <4>1, <4>2
    <3> QED BY <1>r, <2>1, <3>2 DEF RequestsOK
  <2>3. CASE ~ Finish(r)
    <3>1. UNCHANGED <<inflight, answered>>
      BY <1>7, <2>3 DEF CallbackStep, BuildParts, OfferParts, StoreTag, StoreError,
         StoreAborted, Decrement, BuildFinal, OfferFinal, Count, Tell
    <3> QED BY <1>r, <2>1, <3>1 DEF RequestsOK, RequestOK, Unsent
  <2> QED BY <2>2, <2>3
<1> QED BY <1>1, <1>2, <1>3, <1>4, <1>5, <1>6, <1>7, UserCases DEF Next


\* Only a request in flight ends, and that has not ended before.
LEMMA AnswersStep == ASSUME Whole, [Next]_vars PROVE AnswersStay
<1>t. answered \in [Requests -> {"no", "ok", "failed"}] /\ \A m \in Requests : RequestOK(m)
  BY DEF Whole, TypeOK, RequestsOK
<1>1. ASSUME NEW r \in Receivers, Finish(r) PROVE AnswersStay
  <2>1. PICK m \in Requests, ok \in BOOLEAN :
           /\ inflight[m] > 0
           /\ answered' = [answered EXCEPT ![m] = IF ok THEN "ok" ELSE "failed"]
    BY <1>1 DEF Finish
  <2>2. answered[m] = "no"
    <3>1. inflight[m] \in Nat /\ inflight[m] <= 1
      BY <1>t DEF Whole, TypeOK, RequestOK
    <3>2. inflight[m] = 1
      BY <2>1, <3>1
    <3> QED BY <1>t, <3>2 DEF RequestOK
  <2> QED BY <1>t, <2>1, <2>2 DEF AnswersStay
<1>2. CASE \A r \in Receivers : ~ Finish(r)
  <2>1. UNCHANGED answered
    BY <1>2 DEF Next, UserStep, Begin, Scan, Claim, Send, Sent, NotSent, Rollback, Undo, RolledBack,
       SendLocal, Looped, Take, CallbackStep, BuildParts, OfferParts, StoreTag, StoreError,
       StoreAborted, Decrement, BuildFinal, OfferFinal, Count, Tell, vars
  <2> QED BY <2>1 DEF AnswersStay
<1> QED BY <1>1, <1>2

\* A request that ends was in flight, and no callback of it ran before.
LEMMA FinishFacts ==
  ASSUME Whole, NEW r \in Receivers, Finish(r)
  PROVE  \E m \in Requests, ok \in BOOLEAN :
           /\ answered[m] = "no" /\ ~ Unsent(m)
           /\ answered' = [answered EXCEPT ![m] = IF ok THEN "ok" ELSE "failed"]
           /\ job[r].at = "none" /\ job[r] = NoJob
           /\ job' = [job EXCEPT ![r] = [at |-> Entry(m, ok), request |-> m, ok |-> ok]]
           /\ job'[r] = [at |-> Entry(m, ok), request |-> m, ok |-> ok]
           /\ \A q \in Receivers : q # r => job'[q] = job[q]
           /\ \A q \in Receivers : job[q].at # "none" => job[q].request # m
           /\ Unsent(m)' <=> Unsent(m)
           /\ UNCHANGED <<upload, counter, completed, queue, user, told>>
<1>1. PICK m \in Requests, ok \in BOOLEAN :
         /\ inflight[m] > 0
         /\ answered' = [answered EXCEPT ![m] = IF ok THEN "ok" ELSE "failed"]
         /\ job' = [job EXCEPT ![r] = [at |-> Entry(m, ok), request |-> m, ok |-> ok]]
  BY DEF Finish
<1>2. inflight[m] \in Nat /\ RequestOK(m)
  BY DEF Whole, TypeOK, RequestsOK
<1>3. inflight[m] = 1
  BY <1>1, <1>2 DEF RequestOK
<1>4. answered[m] = "no" /\ ~ Unsent(m)
  BY <1>2, <1>3 DEF RequestOK, Unsent
<1>5. \A q \in Receivers : job[q].at # "none" => job[q].request # m
  BY <1>4, CallbackFacts
<1>6. UNCHANGED <<upload, counter, completed, queue, user, told>> /\ job[r] = NoJob /\ job[r].at = "none"
  BY DEF Finish, NoJob
<1>7. job \in [Receivers -> Jobs]
  BY DEF Whole, TypeOK
<1>8. /\ job'[r] = [at |-> Entry(m, ok), request |-> m, ok |-> ok]
      /\ \A q \in Receivers : q # r => job'[q] = job[q]
  BY <1>1, <1>7
<1>9. ~ Unsent(m)'
  <2>1. answered'[m] # "no"
    BY <1>1 DEF Whole, TypeOK
  <2> QED BY <2>1 DEF Unsent
<1> QED BY <1>1, <1>4, <1>5, <1>6, <1>8, <1>9

\* What the thread saw is still so when it claims: receivers change the state only of
\* uploads it would not claim.
LEMMA ClaimStep ==
  ASSUME Whole, NoSendFailed', [Next]_vars
  PROVE  ClaimOK'
<1>c. ClaimOK /\ state \in [Uploads -> States]
  BY DEF Whole, TypeOK
<1>1. CASE UNCHANGED vars
  BY <1>1, <1>c DEF vars, user, upload, ClaimOK
<1>2. CASE Begin \/ Claim \/ Submitting \/ Looped
  BY <1>2 DEF Begin, Claim, Submitting, Looped, ClaimOK
<1>3. CASE Scan
  BY <1>3 DEF Scan, ClaimOK, upload
<1>4. CASE Take
  BY <1>4, <1>c DEF Take, ClaimOK, user, upload
<1>5. ASSUME NEW r \in Receivers, CallbackStep(r) PROVE ClaimOK'
  <2>1. UNCHANGED user
    BY <1>5, ReceiversUser
  <2>2. ASSUME pc = "claim" PROVE state'[cursor] = state[cursor]
    <3>1. cursor \in Uploads /\ state[cursor] \in {"Sending", "Validating"} /\ StateOK(cursor)
      <4>1. cursor >= 1 /\ cursor <= N /\ cursor \in 0 .. N + 1
        BY <2>2 DEF Whole, ControlOK, UserOK, TypeOK
      <4>2. cursor \in Uploads
        BY <4>1, Numbers DEF Uploads
      <4> QED BY <1>c, <2>2, <4>2 DEF ClaimOK, Whole
    <3>2. CASE UNCHANGED state
      BY <3>2
    <3>3. CASE OfferParts(r)
      <4>1. job[r].at = "open" /\ state' = [state EXCEPT ![UploadOf(r)] = "Sending"]
        BY <3>3 DEF OfferParts, At
      <4>2. WorkingOn(<<UploadOf(r), CreateId>>, Places \ {"none"})
        BY <4>1, CallbackFacts, Numbers DEF WorkingOn, Whole, ControlOK, JobOK, PartOf, Places
      <4>3. UploadOf(r) # cursor
        BY <3>1, <4>2 DEF StateOK
      <4> QED BY <1>c, <4>1, <4>3
    <3>4. CASE StoreAborted(r)
      <4>1. job[r].at = "abort" /\ state' = [state EXCEPT ![UploadOf(r)] = "Aborted"]
        BY <3>4 DEF StoreAborted, At
      <4>2. UploadOf(r) # cursor
        BY <3>1, <4>1, PartFacts
      <4> QED BY <1>c, <4>1, <4>2
    <3>5. CASE OfferFinal(r)
      <4>1. job[r].at = "validate" /\ state' = [state EXCEPT ![UploadOf(r)] = "Validating"]
        BY <3>5 DEF OfferFinal, At
      <4>2. Working(UploadOf(r), {"validate"})
        BY <4>1 DEF Working, UploadOf
      <4>3. UploadOf(r) # cursor
        BY <3>1, <4>2 DEF StateOK
      <4> QED BY <1>c, <4>1, <4>3
    <3> QED BY <1>5, <3>2, <3>3, <3>4, <3>5 DEF CallbackStep, Finish, BuildParts, StoreTag,
          StoreError, Decrement, BuildFinal, Count, Tell, upload
  <2> QED BY <1>c, <2>1, <2>2 DEF ClaimOK, user
<1> QED BY <1>1, <1>2, <1>3, <1>4, <1>5, UserCases DEF Next

\* A callback is the only one of its request, and of its upload the only one that judges.
LEMMA CallbacksStep ==
  ASSUME Whole, [Next]_vars
  PROVE  CallbacksOK'
<1>c. CallbacksOK /\ AnswersStay /\ job \in [Receivers -> Jobs]
      /\ answered \in [Requests -> {"no", "ok", "failed"}]
  BY AnswersStep DEF Whole, TypeOK
<1>1. CASE UNCHANGED <<job, answered>>
  BY <1>1, <1>c DEF CallbacksOK
<1>2. ASSUME NEW r \in Receivers, Finish(r) PROVE CallbacksOK'
  <2>1. PICK m \in Requests, ok \in BOOLEAN :
           /\ answered' = [answered EXCEPT ![m] = IF ok THEN "ok" ELSE "failed"]
           /\ job'[r] = [at |-> Entry(m, ok), request |-> m, ok |-> ok]
           /\ \A q \in Receivers : q # r => job'[q] = job[q]
           /\ \A q \in Receivers : job[q].at # "none" => job[q].request # m
    BY <1>2, FinishFacts
  <2>2. Entry(m, ok) \notin {"none", "judge", "validate"}
    BY DEF Entry
  <2>3. ASSUME NEW q \in Receivers, job'[q].at # "none"
        PROVE  answered'[job'[q].request] = IF job'[q].ok THEN "ok" ELSE "failed"
    <3>1. CASE q = r
      BY <1>c, <2>1, <3>1
    <3>2. CASE q # r
      <4>1. job[q].at # "none" /\ job'[q] = job[q] /\ job[q].request \in Requests
        BY <2>1, <2>3, <3>2, CallbackFacts
      <4> QED BY <1>c, <2>1, <4>1 DEF CallbacksOK
    <3> QED BY <3>1, <3>2
  <2>4. ASSUME NEW p \in Receivers, NEW q \in Receivers, job'[p].at # "none",
               job'[p].request = job'[q].request
        PROVE  p = q
    <3>0. m # NoJob.request
      BY Numbers DEF Requests, Uploads, NoJob
    <3>1. \A k \in Receivers : job[k].at = "none" => job[k].request # m
      BY <3>0 DEF Whole, ControlOK, JobOK
    <3> QED BY <1>c, <2>1, <2>4, <3>1 DEF CallbacksOK
  <2>5. ASSUME NEW p \in Receivers, NEW q \in Receivers,
               job'[p].at \in {"judge", "validate"}, job'[q].at \in {"judge", "validate"},
               job'[p].request[1] = job'[q].request[1]
        PROVE  p = q
    BY <1>c, <2>1, <2>2, <2>5 DEF CallbacksOK
  <2> QED BY <2>3, <2>4, <2>5 DEF CallbacksOK
<1>3. ASSUME NEW r \in Receivers, CallbackStep(r), ~ Finish(r) PROVE CallbacksOK'
  <2>a. UNCHANGED answered
    BY <1>3 DEF CallbackStep, BuildParts, OfferParts, StoreTag, StoreError,
         StoreAborted, Decrement, BuildFinal, OfferFinal, Count, Tell
  <2>1. CASE Return(r)
    <3>1. job'[r] = NoJob /\ job'[r].at = "none" /\ \A q \in Receivers : q # r => job'[q] = job[q]
      BY <2>1, ReturnFacts DEF Whole
    <3>2. \A q \in Receivers : job[q].at # "none" => job[q].request # NoJob.request
      <4>1. NoJob.request \notin Requests
        BY Numbers DEF Requests, Uploads, NoJob
      <4> QED BY <4>1, CallbackFacts
    <3> QED BY <1>c, <2>a, <3>1, <3>2 DEF CallbacksOK
  <2>2. ASSUME NEW place \in Places \ {"none"}, Proceed(r, place), job[r].at # "none",
               place = "judge" => job[r].at = "decrement",
               place = "validate" => job[r].at = "judge"
        PROVE  CallbacksOK'
    <3>1. /\ job'[r].at = place /\ job'[r].request = job[r].request /\ job'[r].ok = job[r].ok
          /\ \A q \in Receivers : q # r => job'[q] = job[q]
      BY <2>2, ProceedFacts DEF Whole
    <3>2. CASE place # "judge"
      BY <1>c, <2>a, <2>2, <3>1, <3>2 DEF CallbacksOK
    <3>3. CASE place = "judge"
      <4>1. ~ Working(UploadOf(r), {"judge", "validate"})
        BY <2>2, <3>3, PartFacts
      <4>2. \A q \in Receivers : job[q].at \in {"judge", "validate"} => job[q].request[1] # job[r].request[1]
        BY <4>1 DEF Working, UploadOf
      <4> QED BY <1>c, <2>a, <2>2, <3>1, <4>2 DEF CallbacksOK
    <3> QED BY <3>2, <3>3
  <2> USE DEF At, Places
  <2>3. CASE OfferParts(r) \/ OfferFinal(r) \/ Tell(r)
    BY <2>1, <2>3 DEF OfferParts, OfferFinal, Tell
  <2>4. CASE BuildParts(r)
    BY <2>2, <2>4 DEF BuildParts
  <2>5. CASE StoreTag(r)
    BY <2>2, <2>5 DEF StoreTag
  <2>6. CASE StoreError(r)
    BY <2>2, <2>6 DEF StoreError
  <2>7. CASE StoreAborted(r)
    BY <2>2, <2>7 DEF StoreAborted
  <2>8. CASE Decrement(r)
    BY <2>1, <2>2, <2>8 DEF Decrement
  <2>9. CASE BuildFinal(r)
    BY <2>2, <2>9 DEF BuildFinal
  <2>10. CASE Count(r)
    BY <2>2, <2>10 DEF Count
  <2> QED BY <1>3, <2>3, <2>4, <2>5, <2>6, <2>7, <2>8, <2>9, <2>10 DEF CallbackStep
<1>4. CASE UserStep \/ Take \/ UNCHANGED vars
  <2>1. UNCHANGED <<job, answered>>
    BY <1>4, UserQueue DEF Take, vars, Whole
  <2> QED BY <1>1, <2>1
<1> QED BY <1>2, <1>3, <1>4 DEF Next

-----------------------------------------------------------------------------
(* The uploads: the steps of the user's thread. *)

\* The states the user's thread has seen, collected for and claims.
LEMMA UserUpload ==
  ASSUME Whole, NoSendFailed', UserStep, NEW u \in Uploads
  PROVE  UploadOK(u)'
<1>i. StateOK(u) /\ TypeOK
  BY DEF Whole
<1>q. /\ UNCHANGED <<inflight, answered, job, completed, told>>
      /\ ~ (Send \/ SendLocal) => UNCHANGED queue
  BY UserQueue DEF Whole
<1>u. UNCHANGED <<outstanding, eTags, errorId, built, final>>
  BY DEF UserStep, Begin, Scan, Claim, Send, Rollback, Undo, RolledBack, SendLocal, Looped, upload
<1>s. AnswersStay /\ SameUpload(u)
  BY <1>q, <1>u DEF AnswersStay, SameUpload, SameWork
<1>f. /\ ((state'[u] = "Aborted") <=> (state[u] = "Aborted")) => PartsOK(u)'
      /\ ToldOK(u)'
      /\ outstanding'[u] = Cardinality(Pending(u)')
      /\ state'[u] = state[u] /\ SameSent(u) => StateOK(u)'
  BY <1>s, UploadFrame
<1>w. \A places : /\ Working(u, places)' <=> Working(u, places)
                  /\ \A i : WorkingOn(<<u, i>>, places)' <=> WorkingOn(<<u, i>>, places)
  BY <1>q DEF Working, WorkingOn
<1>r. \A i \in CreateId .. FinalId : <<u, i>> \in Requests
  BY DEF Requests
\* The step changes what is collected, but a request that waited does so.
<1>a. ASSUME \A i \in PartIds \cup {FinalId} : Waits(<<u, i>>) => Waits(<<u, i>>)',
             \A i \in PartIds \cup {FinalId} : In(<<u, i>>, collected)' => In(<<u, i>>, collected),
             state'[u] = state[u]
      PROVE  StateOK(u)'
  BY <1>a, <1>i, <1>q, <1>u, <1>w DEF StateOK
<1>1. CASE Begin
  <2>1. /\ UNCHANGED <<state, queue>> /\ pc = "idle"
        /\ collected' = [k \in 1 .. N - counter |-> <<counter + k, CreateId>>]
    BY <1>1 DEF Begin, upload
  <2>2. \A i \in PartIds \cup {FinalId} : ~ In(<<u, i>>, collected')
    BY <1>i, <2>1, BegunFacts, Numbers, TransactionAssumption DEF TypeOK
  <2>3. \A i \in PartIds \cup {FinalId} : Waits(<<u, i>>) => Waits(<<u, i>>)'
    BY <1>q, <2>1, <2>2 DEF Waits, Unsent
  <2> QED BY <1>a, <1>f, <2>1, <2>2, <2>3 DEF UploadOK
<1>2. CASE Scan
  <2>1. UNCHANGED <<state, queue>> /\ pc = "scan"
    BY <1>2 DEF Scan, upload
  <2>d. \A i \in CreateId .. FinalId :
           In(<<u, i>>, collected') <=> \/ In(<<u, i>>, collected)
                                        \/ In(<<u, i>>, Due(cursor, state[cursor]))
    BY <1>2, <1>r, ScanFacts
  <2>e. cursor \in Uploads /\ state[cursor] \in States
    BY <1>2, ScanFacts
  <2>f. \A i \in CreateId .. FinalId :
           In(<<u, i>>, Due(cursor, state[cursor])) <=>
             /\ u = cursor
             /\ \/ state[u] = "Sending" /\ i \in PartIds
                \/ state[u] = "Validating" /\ i = FinalId
    BY <2>e, DueFacts, TransactionAssumption
  <2>2. CASE u = cursor /\ state[u] \in {"Sending", "Validating"}
    <3>1. pc' = "claim" /\ cursor' = cursor
      BY <1>2, <2>2 DEF Scan
    <3>2. \A i \in CreateId .. FinalId : Waits(<<u, i>>) => Waits(<<u, i>>)'
      BY <1>q, <2>1, <2>2, <3>1 DEF Waits, Unsent
    <3>3. StateOK(u)'
      <4>1. CASE state[u] = "Sending"
        <5>1. \A i \in CreateId .. FinalId : i \notin PartIds =>
                (In(<<u, i>>, collected)' <=> In(<<u, i>>, collected))
          BY <2>d, <2>f, <4>1
        <5> QED BY <1>i, <1>q, <1>u, <1>w, <2>1, <3>2, <4>1, <5>1, Numbers DEF StateOK
      <4>2. CASE state[u] = "Validating"
        <5>1. \A i \in CreateId .. FinalId : i # FinalId =>
                (In(<<u, i>>, collected)' <=> In(<<u, i>>, collected))
          BY <2>d, <2>f, <4>2
        <5> QED BY <1>i, <1>q, <1>u, <1>w, <2>1, <3>2, <4>2, <5>1, Numbers DEF StateOK
      <4> QED BY <2>2, <4>1, <4>2
    <3> QED BY <1>f, <2>1, <3>3 DEF UploadOK
  <2>3. CASE ~ (u = cursor /\ state[u] \in {"Sending", "Validating"})
    <3>1. \A i \in CreateId .. FinalId : In(<<u, i>>, collected)' <=> In(<<u, i>>, collected)
      BY <2>d, <2>f, <2>3
    <3>2. \A i \in CreateId .. FinalId : Waits(<<u, i>>) => Waits(<<u, i>>)'
      BY <1>q, <2>1, <3>1 DEF Waits, Unsent
    <3> QED BY <1>a, <1>f, <2>1, <3>1, <3>2, Numbers DEF UploadOK
  <2> QED BY <2>2, <2>3
<1>3. CASE Claim
  <2>1. /\ UNCHANGED <<queue, collected>> /\ pc = "claim" /\ pc' = "scan"
        /\ state' = [state EXCEPT ![cursor] = Claimed(seen)]
        /\ state \in [Uploads -> States]
    BY <1>3, <1>i DEF Claim, TypeOK
  <2>2. CASE u # cursor
    <3>1. state'[u] = state[u]
      BY <2>1, <2>2
    <3>2. \A i : Waits(<<u, i>>) => Waits(<<u, i>>)'
      BY <1>q, <2>1, <2>2 DEF Waits, Unsent
    <3> QED BY <1>a, <1>f, <2>1, <3>1, <3>2 DEF UploadOK
  <2>3. CASE u = cursor
    <3>1. /\ state[u] \in {"Sending", "Validating"}
          /\ state'[u] = IF state[u] = "Sending" THEN "Processing" ELSE "Default"
      BY <2>1, <2>3 DEF Whole, ClaimOK, Claimed
    <3>2. \A i : Waits(<<u, i>>) /\ ~ In(<<u, i>>, collected) => Waits(<<u, i>>)'
      BY <1>q, <2>1 DEF Waits, Unsent
    <3>3. StateOK(u)'
      <4>1. CASE state[u] = "Sending"
        BY <1>i, <1>q, <1>u, <1>w, <2>1, <3>1, <3>2, <4>1, Numbers DEF StateOK
      <4>2. CASE state[u] = "Validating"
        BY <1>i, <1>q, <1>u, <1>w, <2>1, <3>1, <3>2, <4>2, Numbers DEF StateOK
      <4> QED BY <3>1, <4>1, <4>2
    <3> QED BY <1>f, <3>1, <3>3 DEF UploadOK
  <2> QED BY <2>2, <2>3
<1>4. CASE Submitting
  <2>1. /\ state' = state /\ pc = "scan"
        /\ queue' = queue \o collected /\ collected' = <<>>
        /\ queue \in Seq(Requests) /\ collected \in Seq(Requests)
    BY <1>4, <1>i DEF Submitting, Submits, upload, TypeOK
  <2>2. \A m : In(m, queue') <=> In(m, queue) \/ In(m, collected)
    BY <2>1, InConcat
  <2>3. \A m : ~ In(m, collected')
    BY <2>1, InEmpty
  <2>4. \A i : Waits(<<u, i>>) => Waits(<<u, i>>)'
    BY <1>q, <2>1, <2>2, <2>3 DEF Waits, Unsent
  <2> QED BY <1>a, <1>f, <2>1, <2>3, <2>4 DEF UploadOK
<1>5. CASE Looped
  <2>1. UNCHANGED <<state, queue, collected>> /\ pc # "claim"
    BY <1>5 DEF Looped, upload
  <2>2. \A i : Waits(<<u, i>>) => Waits(<<u, i>>)'
    BY <1>q, <2>1 DEF Waits, Unsent
  <2> QED BY <1>a, <1>f, <2>1, <2>2 DEF UploadOK
<1> QED BY <1>1, <1>2, <1>3, <1>4, <1>5, UserCases

-----------------------------------------------------------------------------
(* The uploads: the callbacks. *)

\* What a callback step does to the callbacks, but for the first.
LEMMA CallbackMoves ==
  ASSUME Whole, NEW r \in Receivers, CallbackStep(r), ~ Finish(r)
  PROVE  /\ UNCHANGED <<answered, queue, inflight, collected, pc, cursor>>
         /\ job[r].at # "none"
         /\ \A q \in Receivers : q # r => job'[q] = job[q]
         /\ \/ job'[r] = NoJob
            \/ job'[r].at # "none" /\ job'[r].request = job[r].request
<1>1. UNCHANGED <<answered, queue, inflight, collected, pc, cursor>>
  BY DEF CallbackStep, BuildParts, OfferParts, StoreTag, StoreError, StoreAborted, Decrement,
         BuildFinal, OfferFinal, Count, Tell, user
<1>2. job[r].at # "none"
  BY DEF CallbackStep, BuildParts, OfferParts, StoreTag, StoreError, StoreAborted, Decrement,
         BuildFinal, OfferFinal, Count, Tell, At
<1>3. \A q \in Receivers : q # r => job'[q] = job[q]
  BY OthersStay DEF Whole
<1>4. Return(r) => job'[r] = NoJob
  BY ReturnFacts DEF Whole
<1>5. \A place \in Places \ {"none"} :
        Proceed(r, place) => job'[r].at # "none" /\ job'[r].request = job[r].request
  BY ProceedFacts DEF Whole
<1>6. Return(r) \/ \E place \in Places \ {"none"} : Proceed(r, place)
  BY DEF CallbackStep, BuildParts, OfferParts, StoreTag, StoreError, StoreAborted, Decrement,
         BuildFinal, OfferFinal, Count, Tell, Places
<1> QED BY <1>1, <1>2, <1>3, <1>4, <1>5, <1>6

\* The other uploads are left alone.
LEMMA CallbackOthers ==
  ASSUME Whole, NEW r \in Receivers, CallbackStep(r), ~ Finish(r),
         NEW u \in Uploads, u # UploadOf(r)
  PROVE  SameUpload(u) /\ SameSent(u) /\ state'[u] = state[u]
<1>1. SameWork(u)
  BY CallbackMoves DEF SameWork, On, UploadOf, NoJob
<1>2. /\ state'[u] = state[u] /\ outstanding'[u] = outstanding[u] /\ eTags'[u] = eTags[u]
      /\ errorId'[u] = errorId[u] /\ built'[u] = built[u] /\ final'[u] = final[u]
      /\ told'[u] = told[u]
  <2>1. TypeOK
    BY DEF Whole
  <2> QED BY <2>1 DEF TypeOK, CallbackStep, BuildParts, OfferParts, StoreTag, StoreError, StoreAborted,
         Decrement, BuildFinal, OfferFinal, Count, Tell, upload
<1>3. UNCHANGED <<answered, queue, inflight, collected, pc, cursor>>
  BY CallbackMoves
<1> QED BY <1>1, <1>2, <1>3 DEF SameUpload, SameSent, Unsent

\* The places that the moves of r do not concern.
LEMMA PlacesKept ==
  ASSUME NEW r \in Receivers, \A q \in Receivers : q # r => job'[q] = job[q],
         job'[r] = NoJob \/ job'[r].request = job[r].request,
         NEW places, "none" \notin places,
         job'[r].at \in places <=> job[r].at \in places
  PROVE  /\ \A u : Working(u, places)' <=> Working(u, places)
         /\ \A m : WorkingOn(m, places)' <=> WorkingOn(m, places)
BY DEF Working, WorkingOn, NoJob

\* The places that r left.
LEMMA PlacesLeft ==
  ASSUME Whole, NEW r \in Receivers, CallbackStep(r), ~ Finish(r),
         NEW n, n = job[r].request, NEW places, job'[r].at \notin places
  PROVE  /\ \A u : Working(u, places)' => Working(u, places)
         /\ \A m : WorkingOn(m, places)' => WorkingOn(m, places)
         /\ ~ WorkingOn(n, places)'
         /\ \A m : m # n => (WorkingOn(m, places) => WorkingOn(m, places)')
<1>1. /\ \A q \in Receivers : q # r => job'[q] = job[q]
      /\ job[r].at # "none"
  BY CallbackMoves
<1>2. \A q \in Receivers : job[q].request = job[r].request => q = r
  BY <1>1, CallbackFacts
<1> QED BY <1>1, <1>2 DEF Working, WorkingOn

\* What the callback of u does to the state of u.
LEMMA CallbackState ==
  ASSUME Whole, NEW r \in Receivers, CallbackStep(r), ~ Finish(r),
         NEW u \in Uploads, u = UploadOf(r)
  PROVE  StateOK(u)'
<1>m. /\ UNCHANGED <<answered, queue, inflight, collected, pc, cursor>>
      /\ job[r].at # "none"
      /\ \A q \in Receivers : q # r => job'[q] = job[q]
      /\ job'[r] = NoJob \/ job'[r].request = job[r].request
  BY CallbackMoves
<1>j. /\ PartOf(r) \in CreateId .. FinalId
      /\ job[r].request = <<u, PartOf(r)>>
      /\ ~ Unsent(<<u, PartOf(r)>>)
      /\ job[r].ok => answered[<<u, PartOf(r)>>] = "ok"
  BY <1>m, CallbackFacts
<1>i. /\ TypeOK /\ StateOK(u) /\ JobOK(r)
      /\ state \in [Uploads -> States] /\ final \in [Uploads -> {"none", "complete", "delete"}]
      /\ outstanding \in [Uploads -> Int] /\ built \in [Uploads -> SUBSET (CreateId .. FinalId)]
  BY <1>j DEF Whole, ControlOK, TypeOK
<1>s. SameSent(u) /\ answered'[<<u, CreateId>>] = answered[<<u, CreateId>>]
  BY <1>m DEF SameSent, Unsent
<1>t. /\ \A i : Waits(<<u, i>>)' <=> Waits(<<u, i>>)
      /\ \A i : In(<<u, i>>, collected)' <=> In(<<u, i>>, collected)
  BY <1>m DEF Waits, Unsent
\* A callback that is not about to judge leaves these places as they are.
<1>w. ASSUME job[r].at \notin {"judge", "validate"}, job'[r].at \notin {"judge", "validate"}
      PROVE  /\ Working(u, {"judge"})' <=> Working(u, {"judge"})
             /\ Working(u, {"validate"})' <=> Working(u, {"validate"})
             /\ Working(u, {"judge", "validate"})' <=> Working(u, {"judge", "validate"})
  BY <1>m, <1>w, PlacesKept
<1>c. WorkingOn(<<u, CreateId>>, Places \ {"none"})' => WorkingOn(<<u, CreateId>>, Places \ {"none"})
  <2>1. CASE job'[r] = NoJob
    <3>1. job'[r].at \notin Places \ {"none"}
      BY <2>1 DEF NoJob
    <3> QED BY <3>1, PlacesLeft
  <2>2. CASE job'[r] # NoJob
    <3>1. job'[r].request = job[r].request /\ job[r].at \in Places \ {"none"}
      BY <1>m, <1>i, <2>2 DEF TypeOK, Jobs
    <3> QED BY <1>m, <3>1 DEF WorkingOn
  <2> QED BY <2>1, <2>2
\* The callback leaves the state of the upload.
<1>k. ASSUME state'[u] = state[u], final'[u] = final[u], outstanding'[u] = outstanding[u],
             built[u] \subseteq built'[u],
             job[r].at \notin {"judge", "validate"}, job'[r].at \notin {"judge", "validate"}
      PROVE  StateOK(u)'
  <2> QED BY <1>j, <1>i, <1>s, <1>c, <1>w, <1>k, StateKept
<1> USE DEF At
<1>1. CASE BuildParts(r)
  <2>1. job'[r].at = "open"
    BY <1>1, <1>i, ProceedFacts DEF BuildParts, Places
  <2> QED BY <1>1, <1>i, <1>j, <1>k, <2>1 DEF BuildParts
<1>2. CASE OfferParts(r)
  <2>1. /\ job'[r].at = "none" /\ job[r].at = "open" /\ state'[u] = "Sending"
        /\ UNCHANGED <<outstanding, built, final>>
    BY <1>2, <1>i, <1>j, ReturnFacts DEF OfferParts
  <2>2. /\ PartOf(r) = CreateId /\ answered[<<u, CreateId>>] = "ok" /\ PartIds \subseteq built[u]
    BY <1>i, <1>j, <2>1 DEF JobOK, PartOf, UploadOf
  <2>3. WorkingOn(<<u, CreateId>>, Places \ {"none"})
    BY <1>j, <2>1, <2>2 DEF WorkingOn, Places
  <2>4. state[u] = "Default" /\ final[u] = "none"
    BY <1>i, <2>3 DEF StateOK
  <2>5. ~ WorkingOn(<<u, CreateId>>, Places \ {"none"})'
    BY <1>j, <2>1, <2>2, PlacesLeft
  <2>6. job[r].at \notin {"judge", "validate"} /\ job'[r].at \notin {"judge", "validate"}
    BY <2>1
  <2> QED BY <1>i, <1>s, <1>t, <1>w, <2>1, <2>2, <2>4, <2>5, <2>6 DEF StateOK
<1>3. CASE StoreTag(r)
  <2>1. job'[r].at = "decrement"
    BY <1>3, <1>i, ProceedFacts DEF StoreTag, Places
  <2> QED BY <1>3, <1>k, <2>1 DEF StoreTag
<1>4. CASE StoreError(r)
  <2>1. job'[r].at = "abort"
    BY <1>4, <1>i, ProceedFacts DEF StoreError, Places
  <2> QED BY <1>4, <1>k, <2>1 DEF StoreError
<1>5. CASE StoreAborted(r)
  <2>1. /\ job'[r].at = "decrement" /\ job[r].at = "abort" /\ state'[u] = "Aborted"
        /\ UNCHANGED <<outstanding, built, final>>
    BY <1>5, <1>i, <1>j, ProceedFacts DEF StoreAborted, Places
  <2>2. final[u] = "none" /\ state[u] \in {"Processing", "Aborted"}
    BY <2>1, PartFacts
  <2>3. job[r].at \notin {"judge", "validate"} /\ job'[r].at \notin {"judge", "validate"}
    BY <2>1
  <2> QED BY <1>i, <1>s, <1>t, <1>c, <1>w, <2>1, <2>2, <2>3 DEF StateOK
<1>6. CASE Decrement(r)
  <2>1. /\ job[r].at = "decrement" /\ UNCHANGED <<state, built, final>>
        /\ outstanding'[u] = outstanding[u] - 1
        /\ \/ outstanding[u] = 1 /\ job'[r].at = "judge"
           \/ job'[r].at = "none"
    BY <1>6, <1>i, <1>j, ProceedFacts, ReturnFacts DEF Decrement, Places, IsLast
  <2>2. /\ final[u] = "none" /\ state[u] \in {"Processing", "Aborted"}
        /\ ~ Working(u, {"judge", "validate"})
    BY <2>1, PartFacts
  <2>3. Working(u, {"judge", "validate"})' => outstanding'[u] = 0
    <3>1. Working(u, {"judge", "validate"})' => job'[r].at = "judge"
      BY <1>m, <2>1, <2>2 DEF Working
    <3> QED BY <2>1, <3>1
  <2>4. ~ Working(u, {"validate"})'
    BY <1>m, <2>1, <2>2 DEF Working
  <2> QED BY <1>i, <1>s, <1>t, <1>c, <2>1, <2>2, <2>3, <2>4 DEF StateOK
<1>7. CASE BuildFinal(r)
  <2>1. /\ job[r].at = "judge" /\ job'[r].at = "validate" /\ UNCHANGED <<state, outstanding>>
        /\ final'[u] \in {"complete", "delete"}
        /\ built'[u] = built[u] \cup {FinalId}
    BY <1>7, <1>i, <1>j, ProceedFacts DEF BuildFinal, Places
  <2>2. outstanding[u] = 0 /\ final[u] = "none" /\ state[u] \in {"Processing", "Aborted"}
    BY <2>1, JudgeFacts
  <2>3. ~ Working(u, {"judge"})'
    <3>1. \A q \in Receivers : job[q].at \in {"judge", "validate"} /\ job[q].request[1] = u => q = r
      BY <2>1 DEF Whole, CallbacksOK, UploadOf
    <3> QED BY <1>m, <2>1, <3>1 DEF Working
  <2> QED BY <1>i, <1>s, <1>t, <1>c, <2>1, <2>2, <2>3 DEF StateOK
<1>8. CASE OfferFinal(r)
  <2>1. /\ job[r].at = "validate" /\ job'[r].at = "none" /\ UNCHANGED <<outstanding, built, final>>
        /\ state'[u] = "Validating"
    BY <1>8, <1>i, <1>j, ReturnFacts DEF OfferFinal
  <2>2. Working(u, {"validate"}) /\ Working(u, {"judge", "validate"})
    BY <2>1 DEF Working, UploadOf
  <2>3. final[u] # "none" /\ state[u] \in {"Processing", "Aborted"} /\ outstanding[u] = 0
    BY <1>i, <2>2 DEF StateOK
  <2>4. ~ Working(u, {"judge", "validate"})' /\ ~ Working(u, {"judge"})' /\ ~ Working(u, {"validate"})'
    <3>1. \A q \in Receivers : job[q].at \in {"judge", "validate"} /\ job[q].request[1] = u => q = r
      BY <2>1 DEF Whole, CallbacksOK, UploadOf
    <3> QED BY <1>m, <2>1, <3>1 DEF Working
  <2> QED BY <1>i, <1>s, <1>t, <1>c, <2>1, <2>3, <2>4 DEF StateOK
<1>9. CASE Count(r)
  <2>1. job'[r].at = "tell"
    BY <1>9, <1>i, ProceedFacts DEF Count, Places
  <2> QED BY <1>9, <1>k, <2>1 DEF Count, upload
<1>10. CASE Tell(r)
  <2>1. job'[r].at = "none"
    BY <1>10, <1>i, ReturnFacts DEF Tell
  <2> QED BY <1>10, <1>k, <2>1 DEF Tell, upload
<1> QED BY <1>1, <1>2, <1>3, <1>4, <1>5, <1>6, <1>7, <1>8, <1>9, <1>10 DEF CallbackStep


\* What the callback of u does to the record of its parts.
LEMMA CallbackParts ==
  ASSUME Whole, NEW r \in Receivers, CallbackStep(r), ~ Finish(r),
         NEW u \in Uploads, u = UploadOf(r)
  PROVE  PartsOK(u)'
<1>m. /\ UNCHANGED <<answered, queue, inflight, collected, pc, cursor>>
      /\ job[r].at # "none"
      /\ \A q \in Receivers : q # r => job'[q] = job[q]
      /\ job'[r] = NoJob \/ job'[r].request = job[r].request
  BY CallbackMoves
<1>j. /\ PartOf(r) \in CreateId .. FinalId
      /\ job[r].request = <<u, PartOf(r)>>
      /\ job[r].ok => answered[<<u, PartOf(r)>>] = "ok"
      /\ ~ job[r].ok => answered[<<u, PartOf(r)>>] = "failed"
  BY <1>m, CallbackFacts
<1>i. /\ TypeOK /\ PartsOK(u) /\ JobOK(r) /\ StateOK(u)
      /\ state \in [Uploads -> States] /\ final \in [Uploads -> {"none", "complete", "delete"}]
      /\ eTags \in [Uploads -> SUBSET PartIds] /\ errorId \in [Uploads -> 0 .. Parts]
  BY DEF Whole, ControlOK, TypeOK
\* The callback leaves the record.
<1>k. ASSUME (state'[u] = "Aborted") <=> (state[u] = "Aborted"), eTags'[u] = eTags[u],
             errorId'[u] = errorId[u], final'[u] = final[u],
             job[r].at \notin {"tag", "blame", "abort"}, job'[r].at \notin {"tag", "blame", "abort"}
      PROVE  PartsOK(u)'
  <2>1. /\ Working(u, {"abort"})' <=> Working(u, {"abort"})
        /\ \A i : WorkingOn(<<u, i>>, {"tag"})' <=> WorkingOn(<<u, i>>, {"tag"})
        /\ \A i : WorkingOn(<<u, i>>, {"blame", "abort"})' <=> WorkingOn(<<u, i>>, {"blame", "abort"})
    BY <1>m, <1>k, PlacesKept
  <2> QED BY <1>m, <1>i, <1>k, <2>1, PartsKept
<1> USE DEF At
<1>1. CASE BuildParts(r)
  <2>1. job[r].at = "build" /\ job'[r].at = "open"
    BY <1>1, <1>i, ProceedFacts DEF BuildParts, Places
  <2> QED BY <1>1, <1>k, <2>1 DEF BuildParts
<1>2. CASE OfferParts(r)
  <2>1. /\ job[r].at = "open" /\ job'[r].at = "none" /\ state'[u] = "Sending"
        /\ UNCHANGED <<eTags, errorId, final>>
    BY <1>2, <1>i, ReturnFacts DEF OfferParts
  <2>2. WorkingOn(<<u, CreateId>>, Places \ {"none"})
    BY <1>i, <1>j, <2>1 DEF JobOK, PartOf, WorkingOn, Places
  <2>3. state[u] = "Default"
    BY <1>i, <2>2 DEF StateOK
  <2> QED BY <1>k, <2>1, <2>3
<1>3. CASE StoreTag(r)
  <2>1. /\ job[r].at = "tag" /\ job'[r].at = "decrement"
        /\ eTags'[u] = eTags[u] \cup {PartOf(r)} /\ UNCHANGED <<state, errorId, final>>
    BY <1>3, <1>i, ProceedFacts DEF StoreTag, Places
  <2>2. final[u] = "none"
    BY <2>1, PartFacts
  <2>3. /\ Working(u, {"abort"})' <=> Working(u, {"abort"})
        /\ \A i : WorkingOn(<<u, i>>, {"blame", "abort"})' <=> WorkingOn(<<u, i>>, {"blame", "abort"})
    BY <1>m, <2>1, PlacesKept
  <2>4. \A i \in PartIds : WorkingOn(<<u, i>>, {"tag"}) => i \in eTags'[u] \/ WorkingOn(<<u, i>>, {"tag"})'
    <3>1. \A m : m # job[r].request => (WorkingOn(m, {"tag"}) => WorkingOn(m, {"tag"})')
      <4>1. job'[r].at \notin {"tag"}
        BY <2>1
      <4> QED BY <4>1, PlacesLeft
    <3> QED BY <1>j, <2>1, <3>1
  <2> QED BY <1>m, <1>i, <2>1, <2>2, <2>3, <2>4 DEF PartsOK
<1>4. CASE StoreError(r)
  <2>1. /\ job[r].at = "blame" /\ job'[r].at = "abort"
        /\ errorId'[u] = PartOf(r) /\ UNCHANGED <<state, eTags, final>>
    BY <1>4, <1>i, ProceedFacts DEF StoreError, Places
  <2>2. PartOf(r) \in PartIds /\ answered[<<u, PartOf(r)>>] = "failed"
    BY <1>i, <1>j, <2>1 DEF JobOK, PartOf
  <2>3. /\ \A i : WorkingOn(<<u, i>>, {"tag"})' <=> WorkingOn(<<u, i>>, {"tag"})
        /\ \A i : WorkingOn(<<u, i>>, {"blame", "abort"})' <=> WorkingOn(<<u, i>>, {"blame", "abort"})
    BY <1>m, <2>1, PlacesKept
  <2>4. errorId'[u] # 0
    BY <2>1, <2>2, Numbers
  <2> QED BY <1>m, <1>i, <2>1, <2>2, <2>3, <2>4 DEF PartsOK
<1>5. CASE StoreAborted(r)
  <2>1. /\ job[r].at = "abort" /\ job'[r].at = "decrement"
        /\ state'[u] = "Aborted" /\ UNCHANGED <<eTags, errorId, final>>
    BY <1>5, <1>i, ProceedFacts DEF StoreAborted, Places
  <2>2. errorId[u] # 0
    <3>1. Working(u, {"abort"})
      BY <2>1 DEF Working, UploadOf
    <3> QED BY <1>i, <3>1 DEF PartsOK
  <2>3. \A i : WorkingOn(<<u, i>>, {"tag"})' <=> WorkingOn(<<u, i>>, {"tag"})
    BY <1>m, <2>1, PlacesKept
  <2> QED BY <1>m, <1>i, <2>1, <2>2, <2>3 DEF PartsOK
<1>6. CASE Decrement(r)
  <2>1. job[r].at = "decrement" /\ job'[r].at \in {"judge", "none"}
    BY <1>6, <1>i, ProceedFacts, ReturnFacts DEF Decrement, Places
  <2> QED BY <1>6, <1>k, <2>1 DEF Decrement
<1>7. CASE BuildFinal(r)
  <2>1. /\ job[r].at = "judge" /\ job'[r].at = "validate" /\ UNCHANGED <<state, eTags, errorId>>
        /\ final'[u] = IF state[u] # "Aborted" THEN "complete" ELSE "delete"
    BY <1>7, <1>i, ProceedFacts DEF BuildFinal, Places
  <2>2. Pending(u) = {} /\ final[u] = "none"
    BY <2>1, JudgeFacts
  <2>3. \A i \in PartIds : /\ answered[<<u, i>>] # "no"
                           /\ ~ WorkingOn(<<u, i>>, {"tag"})
                           /\ ~ WorkingOn(<<u, i>>, {"blame", "abort"})
    BY <2>2 DEF Pending, WorkingOn
  <2>4. /\ Working(u, {"abort"})' <=> Working(u, {"abort"})
        /\ \A i : WorkingOn(<<u, i>>, {"tag"})' <=> WorkingOn(<<u, i>>, {"tag"})
        /\ \A i : WorkingOn(<<u, i>>, {"blame", "abort"})' <=> WorkingOn(<<u, i>>, {"blame", "abort"})
    BY <1>m, <2>1, PlacesKept
  <2>5. \A i \in PartIds : answered[<<u, i>>] \in {"no", "ok", "failed"}
    BY <1>i, Numbers DEF TypeOK, Requests
  <2>6. final'[u] = "complete" => eTags[u] = PartIds /\ \A i \in PartIds : answered[<<u, i>>] # "failed"
    BY <1>i, <2>1, <2>2, <2>3, <2>5 DEF PartsOK
  <2> QED BY <1>m, <1>i, <2>1, <2>2, <2>3, <2>4, <2>6 DEF PartsOK
<1>8. CASE OfferFinal(r)
  <2>1. /\ job[r].at = "validate" /\ job'[r].at = "none" /\ state'[u] = "Validating"
        /\ UNCHANGED <<eTags, errorId, final>>
    BY <1>8, <1>i, ReturnFacts DEF OfferFinal
  <2>2. Working(u, {"validate"})
    BY <2>1 DEF Working, UploadOf
  <2>3. final[u] \in {"complete", "delete"}
    BY <1>i, <2>2 DEF StateOK
  <2>4. /\ Working(u, {"abort"})' <=> Working(u, {"abort"})
        /\ \A i : WorkingOn(<<u, i>>, {"tag"})' <=> WorkingOn(<<u, i>>, {"tag"})
        /\ \A i : WorkingOn(<<u, i>>, {"blame", "abort"})' <=> WorkingOn(<<u, i>>, {"blame", "abort"})
    BY <1>m, <2>1, PlacesKept
  <2> QED BY <1>m, <1>i, <2>1, <2>3, <2>4 DEF PartsOK
<1>9. CASE Count(r)
  <2>1. job[r].at = "count" /\ job'[r].at = "tell"
    BY <1>9, <1>i, ProceedFacts DEF Count, Places
  <2> QED BY <1>9, <1>k, <2>1 DEF Count, upload
<1>10. CASE Tell(r)
  <2>1. job[r].at = "tell" /\ job'[r].at = "none"
    BY <1>10, <1>i, ReturnFacts DEF Tell
  <2> QED BY <1>10, <1>k, <2>1 DEF Tell, upload
<1> QED BY <1>1, <1>2, <1>3, <1>4, <1>5, <1>6, <1>7, <1>8, <1>9, <1>10 DEF CallbackStep

\* outstanding counts the parts whose callback has not yet decremented it.
LEMMA CallbackPending ==
  ASSUME Whole, NEW r \in Receivers, CallbackStep(r), ~ Finish(r),
         NEW u \in Uploads, u = UploadOf(r)
  PROVE  outstanding'[u] = Cardinality(Pending(u)')
<1>m. /\ UNCHANGED <<answered, queue, inflight, collected, pc, cursor>>
      /\ job[r].at # "none"
      /\ \A q \in Receivers : q # r => job'[q] = job[q]
      /\ job'[r] = NoJob \/ job'[r].request = job[r].request
  BY CallbackMoves
<1>i. /\ TypeOK /\ JobOK(r)
      /\ IsFiniteSet(Pending(u)) /\ outstanding[u] = Cardinality(Pending(u))
  BY PendingFacts DEF Whole, ControlOK
<1>k. ASSUME outstanding'[u] = outstanding[u],
             job[r].at \in {"tag", "blame", "abort", "decrement"}
               <=> job'[r].at \in {"tag", "blame", "abort", "decrement"}
      PROVE  outstanding'[u] = Cardinality(Pending(u)')
  <2>1. \A m : WorkingOn(m, {"tag", "blame", "abort", "decrement"})'
                 <=> WorkingOn(m, {"tag", "blame", "abort", "decrement"})
    BY <1>m, <1>k, PlacesKept
  <2>2. Pending(u)' = Pending(u)
    BY <1>m, <2>1, PendingKept
  <2> QED BY <1>i, <1>k, <2>2
<1> USE DEF At
<1>1. CASE BuildParts(r)
  <2>1. job[r].at = "build" /\ job'[r].at = "open"
    BY <1>1, <1>i, ProceedFacts DEF BuildParts, Places
  <2> QED BY <1>1, <1>k, <2>1 DEF BuildParts
<1>2. CASE OfferParts(r)
  <2>1. job[r].at = "open" /\ job'[r].at = "none"
    BY <1>2, <1>i, ReturnFacts DEF OfferParts
  <2> QED BY <1>2, <1>k, <2>1 DEF OfferParts
<1>3. CASE StoreTag(r)
  <2>1. job[r].at = "tag" /\ job'[r].at = "decrement"
    BY <1>3, <1>i, ProceedFacts DEF StoreTag, Places
  <2> QED BY <1>3, <1>k, <2>1 DEF StoreTag
<1>4. CASE StoreError(r)
  <2>1. job[r].at = "blame" /\ job'[r].at = "abort"
    BY <1>4, <1>i, ProceedFacts DEF StoreError, Places
  <2> QED BY <1>4, <1>k, <2>1 DEF StoreError
<1>5. CASE StoreAborted(r)
  <2>1. job[r].at = "abort" /\ job'[r].at = "decrement"
    BY <1>5, <1>i, ProceedFacts DEF StoreAborted, Places
  <2> QED BY <1>5, <1>k, <2>1 DEF StoreAborted
<1>6. CASE Decrement(r)
  <2>1. /\ job[r].at = "decrement" /\ job'[r].at \notin {"tag", "blame", "abort", "decrement"}
        /\ outstanding'[u] = outstanding[u] - 1
    <3>1. outstanding \in [Uploads -> Int]
      BY <1>i DEF TypeOK
    <3> QED BY <1>6, <1>i, <3>1, ProceedFacts, ReturnFacts DEF Decrement, Places
  <2>p. PICK p : p = PartOf(r)
    OBVIOUS
  <2>2. /\ p \in Pending(u) /\ p \in PartIds
        /\ job[r].request = <<u, p>> /\ answered[<<u, p>>] # "no"
    BY <1>m, <2>1, <2>p, PartFacts, CallbackFacts DEF Unsent, Whole, CallbacksOK
  <2>3. Pending(u)' = Pending(u) \ {p}
    <3>1. /\ ~ WorkingOn(<<u, p>>, {"tag", "blame", "abort", "decrement"})'
          /\ \A i : WorkingOn(<<u, i>>, {"tag", "blame", "abort", "decrement"})'
                      => WorkingOn(<<u, i>>, {"tag", "blame", "abort", "decrement"})
          /\ \A m : m # <<u, p>> => (WorkingOn(m, {"tag", "blame", "abort", "decrement"})
                                       => WorkingOn(m, {"tag", "blame", "abort", "decrement"})')
      BY <2>1, <2>2, PlacesLeft
    <3> QED BY <1>m, <2>2, <3>1 DEF Pending
  <2> QED BY <1>i, <2>1, <2>2, <2>3, FS_RemoveElement
<1>7. CASE BuildFinal(r)
  <2>1. job[r].at = "judge" /\ job'[r].at = "validate"
    BY <1>7, <1>i, ProceedFacts DEF BuildFinal, Places
  <2> QED BY <1>7, <1>k, <2>1 DEF BuildFinal
<1>8. CASE OfferFinal(r)
  <2>1. job[r].at = "validate" /\ job'[r].at = "none"
    BY <1>8, <1>i, ReturnFacts DEF OfferFinal
  <2> QED BY <1>8, <1>k, <2>1 DEF OfferFinal
<1>9. CASE Count(r)
  <2>1. job[r].at = "count" /\ job'[r].at = "tell"
    BY <1>9, <1>i, ProceedFacts DEF Count, Places
  <2> QED BY <1>9, <1>k, <2>1 DEF Count, upload
<1>10. CASE Tell(r)
  <2>1. job[r].at = "tell" /\ job'[r].at = "none"
    BY <1>10, <1>i, ReturnFacts DEF Tell
  <2> QED BY <1>10, <1>k, <2>1 DEF Tell, upload
<1> QED BY <1>1, <1>2, <1>3, <1>4, <1>5, <1>6, <1>7, <1>8, <1>9, <1>10 DEF CallbackStep


\* What the callback of u does to what the user was told of u.
LEMMA CallbackTold ==
  ASSUME Whole, NEW r \in Receivers, CallbackStep(r), ~ Finish(r),
         NEW u \in Uploads, u = UploadOf(r)
  PROVE  ToldOK(u)'
<1>m. /\ UNCHANGED <<answered, queue, inflight, collected, pc, cursor>>
      /\ job[r].at # "none"
      /\ \A q \in Receivers : q # r => job'[q] = job[q]
      /\ job'[r] = NoJob \/ job'[r].request = job[r].request
  BY CallbackMoves
<1>i. /\ TypeOK /\ ToldOK(u) /\ PartsOK(u) /\ StateOK(u) /\ told \in [Uploads -> Seq(Verdicts)]
      /\ final \in [Uploads -> {"none", "complete", "delete"}]
      /\ AnswersStay
  BY AnswersStep DEF Whole, TypeOK, Next
<1>k. ASSUME told'[u] = told[u], final'[u] = final[u],
             job'[r].at \in {"count", "tell"} => job[r].at \in {"count", "tell"}
      PROVE  ToldOK(u)'
  <2>1. Working(u, {"count", "tell"})' => Working(u, {"count", "tell"})
    BY <1>m, <1>k DEF Working, NoJob
  <2> QED BY <1>i, <1>k, <2>1, ToldKept
<1> USE DEF At
<1>1. CASE BuildParts(r)
  <2>1. job'[r].at = "open"
    BY <1>1, <1>i, ProceedFacts DEF BuildParts, Places
  <2> QED BY <1>1, <1>k, <2>1 DEF BuildParts
<1>2. CASE OfferParts(r) \/ OfferFinal(r)
  <2>1. job'[r].at = "none"
    BY <1>2, <1>i, ReturnFacts DEF OfferParts, OfferFinal
  <2> QED BY <1>2, <1>k, <2>1 DEF OfferParts, OfferFinal
<1>3. CASE StoreTag(r)
  <2>1. job'[r].at = "decrement"
    BY <1>3, <1>i, ProceedFacts DEF StoreTag, Places
  <2> QED BY <1>3, <1>k, <2>1 DEF StoreTag
<1>4. CASE StoreError(r)
  <2>1. job'[r].at = "abort"
    BY <1>4, <1>i, ProceedFacts DEF StoreError, Places
  <2> QED BY <1>4, <1>k, <2>1 DEF StoreError
<1>5. CASE StoreAborted(r)
  <2>1. job'[r].at = "decrement"
    BY <1>5, <1>i, ProceedFacts DEF StoreAborted, Places
  <2> QED BY <1>5, <1>k, <2>1 DEF StoreAborted
<1>6. CASE Decrement(r)
  <2>1. job'[r].at \in {"judge", "none"}
    BY <1>6, <1>i, ProceedFacts, ReturnFacts DEF Decrement, Places
  <2> QED BY <1>6, <1>k, <2>1 DEF Decrement
<1>7. CASE BuildFinal(r)
  <2>1. job[r].at = "judge" /\ job'[r].at = "validate" /\ told' = told
    BY <1>7, <1>i, ProceedFacts DEF BuildFinal, Places
  <2>2. final[u] = "none"
    BY <2>1, JudgeFacts
  <2>3. Working(u, {"count", "tell"})' <=> Working(u, {"count", "tell"})
    BY <1>m, <2>1, PlacesKept
  <2>4. \A k \in DOMAIN told[u] : ~ told[u][k].success
    BY <1>i, <2>2 DEF ToldOK
  <2> QED BY <1>m, <1>i, <2>1, <2>3, <2>4 DEF ToldOK, EndedBy
<1>8. CASE Count(r)
  <2>1. job[r].at = "count"
    BY <1>8 DEF Count
  <2> QED BY <1>8, <1>k, <2>1 DEF Count, upload
<1>9. CASE Tell(r)
  <2>1. /\ job[r].at = "tell" /\ job'[r].at = "none" /\ UNCHANGED final
        /\ told'[u] = Append(told[u], Verdict(r))
    BY <1>9, <1>i, ReturnFacts DEF Tell, upload
  <2>2. /\ EndedBy(u) /\ told[u] = <<>>
        /\ PartOf(r) = CreateId => answered[<<u, CreateId>>] = "failed"
        /\ PartOf(r) # CreateId => PartOf(r) = FinalId
        /\ \A q \in Receivers : job[q].at \in {"count", "tell"} /\ UploadOf(q) = u => q = r
    BY <2>1, EndingFacts
  <2>3. ~ Working(u, {"count", "tell"})'
    BY <1>m, <2>1, <2>2 DEF Working, UploadOf
  <2>4. /\ ~ Unsent(<<u, PartOf(r)>>)
        /\ job[r].ok => answered[<<u, PartOf(r)>>] = "ok"
        /\ ~ job[r].ok => answered[<<u, PartOf(r)>>] = "failed"
    BY <1>m, CallbackFacts
  <2>5. IF Verdict(r).success
          THEN final[u] = "complete" /\ answered[<<u, FinalId>>] = "ok"
          ELSE answered[Verdict(r).origin] = "failed"
    <3>1. CASE PartOf(r) = CreateId
      <4>1. Verdict(r) = [success |-> FALSE, origin |-> <<u, CreateId>>]
        BY <3>1 DEF Verdict
      <4> QED BY <2>2, <3>1, <4>1
    <3>2. CASE PartOf(r) = FinalId /\ final[u] = "delete"
      <4>1. Verdict(r) = [success |-> FALSE, origin |-> <<u, errorId[u]>>]
        BY <3>2, Numbers DEF Verdict
      <4>2. answered[<<u, errorId[u]>>] = "failed"
        BY <1>i, <3>2 DEF PartsOK
      <4> QED BY <4>1, <4>2
    <3>3. CASE PartOf(r) = FinalId /\ final[u] # "delete" /\ ~ job[r].ok
      <4>1. Verdict(r) = [success |-> FALSE, origin |-> <<u, FinalId>>]
        BY <3>3, Numbers DEF Verdict
      <4> QED BY <2>4, <3>3, <4>1
    <3>4. CASE PartOf(r) = FinalId /\ final[u] # "delete" /\ job[r].ok
      <4>1. Verdict(r) = [success |-> TRUE, origin |-> <<u, CreateId>>]
        BY <3>4, Numbers DEF Verdict
      <4>2. final[u] # "none"
        BY <2>4, <3>4, SentFacts, Numbers
      <4> QED BY <1>i, <2>4, <3>4, <4>1, <4>2
    <3> QED BY <2>2, <3>1, <3>2, <3>3, <3>4
  <2>6. PICK v : v = Verdict(r)
    OBVIOUS
  <2>7. told'[u] = <<v>>
    BY <2>1, <2>2, <2>6
  <2> QED BY <1>m, <2>1, <2>2, <2>3, <2>5, <2>6, <2>7 DEF ToldOK, EndedBy
<1> QED BY <1>1, <1>2, <1>3, <1>4, <1>5, <1>6, <1>7, <1>8, <1>9 DEF CallbackStep


\* A request of an upload ends.
LEMMA FinishUpload ==
  ASSUME Whole, NEW r \in Receivers, Finish(r), CallbackStep(r), NEW u \in Uploads
  PROVE  /\ UploadOK(u)'
         /\ u \in Counted' <=> u \in Counted
<1>1. PICK m \in Requests, ok \in BOOLEAN :
           /\ answered[m] = "no" /\ ~ Unsent(m)
           /\ answered' = [answered EXCEPT ![m] = IF ok THEN "ok" ELSE "failed"]
           /\ job[r].at = "none"
           /\ job'[r] = [at |-> Entry(m, ok), request |-> m, ok |-> ok]
           /\ \A q \in Receivers : q # r => job'[q] = job[q]
           /\ \A q \in Receivers : job[q].at # "none" => job[q].request # m
           /\ Unsent(m)' <=> Unsent(m)
           /\ UNCHANGED <<upload, counter, completed, queue, user, told>>
  BY FinishFacts
<1>2. /\ m[1] \in Uploads /\ m[2] \in CreateId .. FinalId /\ m = <<m[1], m[2]>>
  BY DEF Requests
<1>i. /\ TypeOK /\ StateOK(u) /\ PartsOK(u) /\ ToldOK(u)
      /\ answered \in [Requests -> {"no", "ok", "failed"}] /\ AnswersStay
      /\ outstanding[u] = Cardinality(Pending(u))
  BY AnswersStep DEF Whole, TypeOK, Next, CountsOK
<1>s. SameSent(u)
  <2>1. \A n \in Requests : Unsent(n)' <=> Unsent(n)
    BY <1>i, ReceiversUnsent
  <2>2. \A i \in CreateId .. FinalId : <<u, i>> \in Requests
    BY DEF Requests
  <2> QED BY <1>1, <2>1, <2>2 DEF SameSent, user
<1>3. CASE u # m[1]
  <2>1. SameUpload(u) /\ state'[u] = state[u]
    <3>1. SameWork(u)
      BY <1>1, <1>2, <1>3 DEF SameWork, On
    <3>2. \A i \in CreateId .. FinalId : answered'[<<u, i>>] = answered[<<u, i>>]
      BY <1>1, <1>2, <1>3, <1>i DEF Requests
    <3> QED BY <1>1, <3>1, <3>2 DEF SameUpload, upload
  <2> QED BY <1>i, <1>s, <2>1, UploadFrame DEF UploadOK
<1>4. CASE u = m[1]
  <2> DEFINE i == m[2]
  <2>m. m = <<u, i>> /\ i \in CreateId .. FinalId
    BY <1>2, <1>4
  <2>a. /\ answered'[m] = IF ok THEN "ok" ELSE "failed"
        /\ \A n \in Requests : n # m => answered'[n] = answered[n]
    BY <1>1, <1>i
  <2>b. \A k \in CreateId .. FinalId : k # i => answered'[<<u, k>>] = answered[<<u, k>>]
    BY <2>m, <2>a DEF Requests
  <2>e. /\ Entry(m, ok) \in {"build", "count", "tag", "blame"}
        /\ i \in PartIds => Entry(m, ok) = IF ok THEN "tag" ELSE "blame"
        /\ Entry(m, ok) = "count" => i = FinalId \/ (i = CreateId /\ ~ ok)
    <3>1. i = CreateId \/ i = FinalId \/ i \in PartIds
      BY <2>m, Numbers
    <3> QED BY <3>1, Numbers DEF Entry
  <2>w. /\ Working(u, {"judge"})' <=> Working(u, {"judge"})
        /\ Working(u, {"validate"})' <=> Working(u, {"validate"})
        /\ Working(u, {"judge", "validate"})' <=> Working(u, {"judge", "validate"})
        /\ Working(u, {"abort"})' <=> Working(u, {"abort"})
        /\ Working(u, {"tell"})' <=> Working(u, {"tell"})
    BY <1>1, <2>e DEF Working
  \* Before, the request had no callback; now it has one.
  <2>v. \A n, places : "none" \notin places =>
          (WorkingOn(n, places)' <=> WorkingOn(n, places) \/ (n = m /\ Entry(m, ok) \in places))
    BY <1>1 DEF WorkingOn
  <2>c. /\ i \in PartIds => answered[<<u, CreateId>>] = "ok"
        /\ i = FinalId => answered[<<u, CreateId>>] = "ok"
    BY <1>1, <1>4, <2>m, SentFacts
  <2>1. StateOK(u)'
    <3>1. CASE i = CreateId
      <4>1. state[u] = "Default" /\ final[u] = "none"
        BY <1>1, <1>i, <2>m, <3>1 DEF StateOK
      <4>2. \A k \in CreateId .. FinalId : Waits(<<u, k>>)' <=> Waits(<<u, k>>)
        BY <1>s DEF SameSent, Waits
      <4>3. \A n : In(n, collected)' <=> In(n, collected)
        BY <1>s DEF SameSent
      <4>4. UNCHANGED <<state, final, outstanding, built>>
        BY <1>1 DEF upload
      <4> QED BY <1>i, <2>w, <4>1, <4>2, <4>3, <4>4, Numbers DEF StateOK
    <3>2. CASE i # CreateId
      <4>1. WorkingOn(<<u, CreateId>>, Places \ {"none"})' <=> WorkingOn(<<u, CreateId>>, Places \ {"none"})
        BY <2>m, <2>v, <3>2
      <4>2. answered'[<<u, CreateId>>] = answered[<<u, CreateId>>]
        BY <2>b, <3>2, Numbers
      <4>3. UNCHANGED <<state, final, outstanding, built>>
        BY <1>1 DEF upload
      <4> QED BY <1>i, <1>s, <2>w, <4>1, <4>2, <4>3, StateKept
    <3> QED BY <3>1, <3>2
  <2>2. PartsOK(u)'
    <3>1. UNCHANGED <<state, final, eTags, errorId, outstanding>>
      BY <1>1 DEF upload
    <3>2. CASE i \notin PartIds
      <4>1. \A k \in PartIds : answered'[<<u, k>>] = answered[<<u, k>>]
        BY <2>b, <3>2, Numbers
      <4>2. \A k \in PartIds :
              /\ WorkingOn(<<u, k>>, {"tag"})' <=> WorkingOn(<<u, k>>, {"tag"})
              /\ WorkingOn(<<u, k>>, {"blame", "abort"})' <=> WorkingOn(<<u, k>>, {"blame", "abort"})
        BY <2>m, <2>v, <3>2
      <4> QED BY <1>i, <2>w, <3>1, <4>1, <4>2, PartsKept
    <3>3. CASE i \in PartIds
      <4>1. i \in Pending(u)
        BY <1>1, <2>m, <3>3 DEF Pending
      <4>2. final[u] = "none"
        BY <1>1, <2>m, <3>3, <4>1, PendingState
      <4>3. /\ ok => WorkingOn(<<u, i>>, {"tag"})'
            /\ ~ ok => WorkingOn(<<u, i>>, {"blame", "abort"})'
        BY <2>m, <2>e, <2>v, <3>3
      <4>4. \A k \in PartIds :
              /\ WorkingOn(<<u, k>>, {"tag"}) => WorkingOn(<<u, k>>, {"tag"})'
              /\ WorkingOn(<<u, k>>, {"blame", "abort"}) => WorkingOn(<<u, k>>, {"blame", "abort"})'
        BY <2>v
      <4>5. errorId[u] # 0 => errorId[u] \in PartIds /\ errorId[u] # i
        <5>1. errorId[u] \in 0 .. Parts
          BY <1>i DEF TypeOK
        <5>2. errorId[u] # 0 => answered[<<u, errorId[u]>>] = "failed"
          BY <1>i DEF PartsOK
        <5>3. answered[<<u, i>>] = "no"
          BY <1>1, <2>m
        <5> HIDE DEF i
        <5> QED BY <5>1, <5>2, <5>3, Numbers
      <4>6. \A k \in PartIds : k # i => answered'[<<u, k>>] = answered[<<u, k>>]
        BY <2>b, Numbers
      <4>7. answered'[<<u, i>>] = IF ok THEN "ok" ELSE "failed"
        BY <2>a, <2>m
      <4> HIDE DEF i
      <4> QED BY <1>i, <2>w, <3>1, <4>2, <4>3, <4>4, <4>5, <4>6, <4>7 DEF PartsOK
    <3> QED BY <3>2, <3>3
  <2>3. ToldOK(u)'
    <3>1. UNCHANGED <<told, final>>
      BY <1>1 DEF upload
    <3>2. CASE Entry(m, ok) # "count"
      <4>1. Working(u, {"count", "tell"})' <=> Working(u, {"count", "tell"})
        BY <1>1, <2>e, <3>2 DEF Working
      <4> QED BY <1>i, <3>1, <4>1, ToldKept
    <3>3. CASE Entry(m, ok) = "count"
      <4>1. ~ EndedBy(u)
        <5>1. CASE i = FinalId
          BY <1>1, <2>c, <2>m, <5>1 DEF EndedBy
        <5>2. CASE i = CreateId
          <6>1. answered[<<u, CreateId>>] = "no"
            BY <1>1, <2>m, <5>2
          <6>2. Unsent(<<u, FinalId>>)
            BY <6>1, SentFacts, Numbers
          <6> QED BY <6>1, <6>2 DEF EndedBy, Unsent
        <5> QED BY <2>e, <3>3, <5>1, <5>2
      <4>2. told[u] = <<>>
        BY <1>i, <4>1 DEF ToldOK
      <4> QED BY <3>1, <4>2 DEF ToldOK
    <3> QED BY <3>2, <3>3
  <2>4. Pending(u)' = Pending(u)
    <3>1. CASE i \in PartIds
      <4>1. WorkingOn(<<u, i>>, {"tag", "blame", "abort", "decrement"})'
        BY <2>m, <2>e, <2>v, <3>1
      <4>2. \A k \in PartIds : k # i =>
              (WorkingOn(<<u, k>>, {"tag", "blame", "abort", "decrement"})'
                 <=> WorkingOn(<<u, k>>, {"tag", "blame", "abort", "decrement"}))
        BY <2>m, <2>v
      <4>3. \A k \in PartIds : k # i => answered'[<<u, k>>] = answered[<<u, k>>]
        BY <2>b, Numbers
      <4>4. answered[<<u, i>>] = "no"
        BY <1>1, <2>m
      <4> HIDE DEF i
      <4> QED BY <4>1, <4>2, <4>3, <4>4 DEF Pending
    <3>2. CASE i \notin PartIds
      <4>1. \A k \in PartIds : answered'[<<u, k>>] = answered[<<u, k>>]
        BY <2>b, <3>2, Numbers
      <4>2. \A k \in PartIds :
              WorkingOn(<<u, k>>, {"tag", "blame", "abort", "decrement"})'
                <=> WorkingOn(<<u, k>>, {"tag", "blame", "abort", "decrement"})
        BY <2>m, <2>v, <3>2
      <4> QED BY <4>1, <4>2, PendingKept
    <3> QED BY <3>1, <3>2
  <2>5. outstanding'[u] = Cardinality(Pending(u)')
    BY <1>1, <1>i, <2>4 DEF upload
  <2>6. u \in Counted' <=> u \in Counted
    BY <1>1, <2>w DEF Counted
  <2> QED BY <2>1, <2>2, <2>3, <2>5, <2>6 DEF UploadOK
<1> QED BY <1>3, <1>4

-----------------------------------------------------------------------------
(* The inductive invariant. *)

\* Every step keeps the invariant of every upload.
LEMMA UploadStep ==
  ASSUME Whole, NoSendFailed', [Next]_vars, NEW u \in Uploads
  PROVE  UploadOK(u)'
<1>i. /\ UploadOK(u) /\ AnswersStay
  BY AnswersStep DEF Whole, CountsOK, UploadOK
<1>1. CASE UNCHANGED vars
  <2>1. AnswersStay /\ SameUpload(u) /\ SameSent(u) /\ state'[u] = state[u]
    BY <1>i, <1>1 DEF vars, upload, user, SameUpload, SameSent, SameWork, Unsent
  <2> QED BY <2>1, UploadFrame DEF UploadOK
<1>2. CASE UserStep
  BY <1>2, UserUpload
<1>3. CASE Take
  <2>1. \A n \in Requests : Unsent(n)' <=> Unsent(n)
    BY <1>3, ReceiversUnsent DEF Whole
  <2>2. \A i \in CreateId .. FinalId : <<u, i>> \in Requests
    BY DEF Requests
  <2>3. UNCHANGED <<upload, job, user, answered, told>>
    BY <1>3 DEF Take
  <2>4. SameUpload(u) /\ SameSent(u) /\ state'[u] = state[u]
    BY <2>1, <2>2, <2>3 DEF upload, user, SameUpload, SameSent, SameWork
  <2> QED BY <1>i, <2>4, UploadFrame DEF UploadOK
<1>4. ASSUME NEW r \in Receivers, CallbackStep(r) PROVE UploadOK(u)'
  <2>1. CASE Finish(r)
    BY <1>4, <2>1, FinishUpload
  <2>2. CASE ~ Finish(r) /\ u # UploadOf(r)
    BY <1>i, <1>4, <2>2, CallbackOthers, UploadFrame DEF UploadOK
  <2>3. CASE ~ Finish(r) /\ u = UploadOf(r)
    BY <1>4, <2>3, CallbackState, CallbackParts, CallbackTold, CallbackPending DEF UploadOK
  <2> QED BY <2>1, <2>2, <2>3
<1> QED BY <1>1, <1>2, <1>3, <1>4 DEF Next

\* There are N uploads.
LEMMA UploadsFinite == IsFiniteSet(Uploads) /\ Cardinality(Uploads) = N
BY Numbers, FS_Interval DEF Uploads

\* completed counts the uploads that are told of, or just before it.
LEMMA CountedStep ==
  ASSUME Whole, NoSendFailed', [Next]_vars
  PROVE  completed' = Cardinality(Counted')
<1>i. completed = Cardinality(Counted) /\ AnswersStay /\ completed \in Nat
  BY AnswersStep DEF Whole, CountsOK, TypeOK
<1>f. IsFiniteSet(Counted) /\ Counted \subseteq Uploads /\ Counted' \subseteq Uploads
  BY UploadsFinite, FS_Subset DEF Counted
<1>k. ASSUME completed' = completed, \A u \in Uploads : u \in Counted' <=> u \in Counted
      PROVE  completed' = Cardinality(Counted')
  <2>1. Counted' = Counted
    BY <1>f, <1>k
  <2> QED BY <1>i, <1>k, <2>1
<1>1. CASE UserStep \/ Take \/ UNCHANGED vars
  <2>1. UNCHANGED <<job, completed, told>>
    BY <1>1, UserQueue DEF Take, vars, Whole
  <2> QED BY <1>k, <2>1 DEF Counted, Working
<1>2. ASSUME NEW r \in Receivers, CallbackStep(r) PROVE completed' = Cardinality(Counted')
  <2>1. CASE Finish(r)
    <3>1. completed' = completed
      BY <2>1 DEF Finish
    <3> QED BY <1>k, <1>2, <2>1, <3>1, FinishUpload
  <2>2. CASE ~ Finish(r)
    <3>m. /\ job[r].at # "none"
          /\ \A q \in Receivers : q # r => job'[q] = job[q]
          /\ job'[r] = NoJob \/ job'[r].request = job[r].request
      BY <1>2, <2>2, CallbackMoves
    <3>u. UploadOf(r) \in Uploads
      BY <3>m, CallbackFacts
    <3>p. PICK u : u = UploadOf(r)
      OBVIOUS
    <3>o. \A v \in Uploads : v # u => (v \in Counted' <=> v \in Counted)
      BY <1>i, <1>2, <2>2, <3>p, CallbackOthers, UploadFrame
    <3>t. TypeOK /\ told \in [Uploads -> Seq(Verdicts)]
      BY DEF Whole, TypeOK
    <3>1. CASE Count(r)
      <4>1. /\ job[r].at = "count" /\ job'[r].at = "tell" /\ completed' = completed + 1 /\ told' = told
        BY <3>1, <3>t, ProceedFacts DEF Count, At, Places
      <4>2. u \notin Counted
        <5>1. /\ told[u] = <<>>
              /\ \A q \in Receivers : job[q].at \in {"count", "tell"} /\ UploadOf(q) = u => q = r
          BY <3>p, <4>1, EndingFacts
        <5> QED BY <4>1, <5>1 DEF Counted, Working, UploadOf
      <4>3. u \in Counted'
        BY <3>m, <3>p, <3>u, <4>1 DEF Counted, Working, UploadOf, NoJob
      <4>4. Counted' = Counted \cup {u}
        BY <1>f, <3>o, <4>3
      <4> QED BY <1>i, <1>f, <4>1, <4>2, <4>4, FS_AddElement
    <3>2. CASE Tell(r)
      <4>1. /\ job[r].at = "tell" /\ completed' = completed
            /\ told'[UploadOf(r)] = Append(told[UploadOf(r)], Verdict(r))
        BY <3>2, <3>t, <3>u DEF Tell, At
      <4>2. u \in Counted
        BY <3>p, <3>u, <4>1 DEF Counted, Working, UploadOf
      <4>3. u \in Counted'
        <5>1. told[u] \in Seq(Verdicts)
          BY <3>p, <3>u, <3>t
        <5>2. told'[u] # <<>>
          BY <3>p, <4>1, <5>1
        <5> QED BY <3>p, <3>u, <5>2 DEF Counted
      <4> QED BY <1>k, <3>o, <4>1, <4>2, <4>3
    <3>3. CASE ~ Count(r) /\ ~ Tell(r)
      <4>1. completed' = completed /\ told' = told
        BY <1>2, <2>2, <3>3 DEF CallbackStep, BuildParts, OfferParts, StoreTag, StoreError,
           StoreAborted, Decrement, BuildFinal, OfferFinal
      <4>2. job[r].at # "tell" /\ job'[r].at # "tell"
        <5>1. job[r].at # "tell"
          BY <1>2, <2>2, <3>3 DEF CallbackStep, BuildParts, OfferParts, StoreTag, StoreError,
             StoreAborted, Decrement, BuildFinal, OfferFinal, At
        <5>2. Return(r) \/ \E place \in Places \ {"none", "tell"} : Proceed(r, place)
          BY <1>2, <2>2, <3>3 DEF CallbackStep, BuildParts, OfferParts, StoreTag, StoreError,
             StoreAborted, Decrement, BuildFinal, OfferFinal, Places
        <5> QED BY <3>t, <5>1, <5>2, ProceedFacts, ReturnFacts
      <4>3. \A v \in Uploads : Working(v, {"tell"})' <=> Working(v, {"tell"})
        BY <3>m, <4>2 DEF Working
      <4> QED BY <1>k, <4>1, <4>3 DEF Counted
    <3> QED BY <3>1, <3>2, <3>3
  <2> QED BY <2>1, <2>2
<1> QED BY <1>1, <1>2 DEF Next

\* processSync returns only when all uploads were counted and no callback runs.
LEMMA ReturnedStep ==
  ASSUME Whole, NoSendFailed', [Next]_vars, pc' = "returned", NEW u \in Uploads
  PROVE  told'[u] # <<>>
<1>t. told \in [Uploads -> Seq(Verdicts)] /\ Counted \subseteq Uploads
  BY DEF Whole, TypeOK, Counted
<1>1. CASE pc = "returned"
  <2>1. told[u] # <<>>
    BY <1>1 DEF Whole, CountsOK
  <2>2. ASSUME NEW r \in Receivers, CallbackStep(r) PROVE told'[u] # <<>>
    <3>1. told' = told \/ told' = [told EXCEPT ![UploadOf(r)] = Append(@, Verdict(r))]
      BY <2>2 DEF CallbackStep, Finish, BuildParts, OfferParts, StoreTag, StoreError,
         StoreAborted, Decrement, BuildFinal, OfferFinal, Count, Tell
    <3>2. told[u] \in Seq(Verdicts) /\ Append(told[u], Verdict(r)) # <<>>
      BY <1>t
    <3> QED BY <1>t, <2>1, <3>1, <3>2
  <2>3. CASE UserStep \/ Take \/ UNCHANGED vars
    <3>1. told' = told
      BY <2>3, UserQueue DEF Take, vars, Whole
    <3> QED BY <2>1, <3>1
  <2> QED BY <2>2, <2>3 DEF Next
<1>2. CASE pc # "returned"
  <2>1. UserStep
    BY <1>2, ReceiversUser DEF Next, vars, user
  <2>2. Looped
    BY <1>2, <2>1, UserCases DEF Begin, Scan, Claim, Submitting
  <2>3. completed = N /\ (\A r \in Receivers : job[r] = NoJob) /\ told' = told
    BY <2>2 DEF Looped, Drained
  <2>4. Cardinality(Counted) = N
    BY <2>3 DEF Whole, CountsOK
  <2>5. Counted = Uploads
    BY <1>t, <2>4, UploadsFinite, FS_Subset
  <2>6. ~ Working(u, {"tell"})
    BY <2>3 DEF Working, NoJob
  <2> QED BY <2>3, <2>5, <2>6 DEF Counted
<1> QED BY <1>1, <1>2

\* Nothing is sent, and nothing has failed, at the start.
LEMMA IndInit == Init => IndInv
<1> SUFFICES ASSUME Init PROVE IndInv
  OBVIOUS
<1>1. TypeOK /\ ControlOK
  BY TypeInit, ControlInit, TransactionAssumption
<1> USE DEF Init
<1>w. /\ \A v, places : "none" \notin places => ~ Working(v, places)
      /\ \A m, places : "none" \notin places => ~ WorkingOn(m, places)
  BY DEF Working, WorkingOn, NoJob
<1>2. RequestsOK
  BY InEmpty DEF RequestsOK, RequestOK, Distinct, Unsent
<1>3. ClaimOK
  BY DEF ClaimOK
<1>4. CallbacksOK
  BY DEF CallbacksOK, NoJob
<1>5. ASSUME NEW u \in Uploads
      PROVE  StateOK(u) /\ PartsOK(u) /\ ToldOK(u) /\ outstanding[u] = Cardinality(Pending(u))
  <2>1. \A i \in CreateId .. FinalId : <<u, i>> \in Requests
    BY DEF Requests
  <2>2. \A i \in CreateId .. FinalId : Waits(<<u, i>>) /\ ~ In(<<u, i>>, collected) /\ answered[<<u, i>>] = "no"
    BY <2>1, InEmpty DEF Waits, Unsent
  <2>3. StateOK(u)
    BY <1>w, <2>2, Numbers DEF StateOK
  <2>4. PartsOK(u)
    BY <1>w, <2>2, Numbers DEF PartsOK
  <2>5. ToldOK(u)
    BY DEF ToldOK
  <2>6. Pending(u) = PartIds
    BY <2>2, Numbers DEF Pending
  <2>7. Cardinality(PartIds) = Parts
    BY Numbers, FS_Interval
  <2> QED BY <2>3, <2>4, <2>5, <2>6, <2>7
<1>6. completed = Cardinality(Counted)
  <2>1. Counted = {}
    BY <1>w DEF Counted
  <2> QED BY <2>1, FS_EmptySet
<1> QED BY <1>1, <1>2, <1>3, <1>4, <1>5, <1>6 DEF IndInv, CountsOK

\* Every step keeps the inductive invariant.
LEMMA IndStep == IndInv /\ [Next]_vars => IndInv'
<1> SUFFICES ASSUME IndInv, [Next]_vars PROVE IndInv'
  OBVIOUS
<1>1. TypeOK' /\ ControlOK'
  BY TypeStep, ControlStep, TransactionAssumption DEF IndInv
<1>2. ASSUME NoSendFailed' PROVE NoSendFailed
  <2>1. failures \in Nat /\ failures' \in Nat
    BY <1>1 DEF IndInv, TypeOK
  <2>2. failures' = failures \/ failures' = failures + 1
    BY DEF Next, UserStep, Begin, Scan, Claim, Send, Sent, NotSent, Rollback, Undo, RolledBack,
       SendLocal, Looped, Take, CallbackStep, Finish, BuildParts, OfferParts, StoreTag, StoreError,
       StoreAborted, Decrement, BuildFinal, OfferFinal, Count, Tell, vars, user
  <2> QED BY <1>2, <2>1, <2>2 DEF NoSendFailed
<1>3. ASSUME NoSendFailed'
      PROVE  /\ RequestsOK' /\ ClaimOK' /\ CallbacksOK'
             /\ (\A u \in Uploads : StateOK(u) /\ PartsOK(u) /\ ToldOK(u))'
             /\ CountsOK'
  <2>1. Whole
    BY <1>2, <1>3 DEF Whole, IndInv
  <2>2. RequestsOK' /\ ClaimOK' /\ CallbacksOK'
    BY <1>3, <2>1, RequestsStep, ClaimStep, CallbacksStep
  <2>3. Uploads' = Uploads
    BY DEF Uploads
  <2>4. \A u \in Uploads : UploadOK(u)'
    BY <1>3, <2>1, UploadStep
  <2>5. CountsOK'
    <3>1. completed' = Cardinality(Counted')
      BY <1>3, <2>1, CountedStep
    <3>2. pc' = "returned" => \A u \in Uploads : told'[u] # <<>>
      BY <1>3, <2>1, ReturnedStep
    <3> QED BY <2>4, <3>1, <3>2 DEF CountsOK, UploadOK
  <2> QED BY <2>2, <2>4, <2>5 DEF UploadOK
<1> QED BY <1>1, <1>3 DEF IndInv

-----------------------------------------------------------------------------
(* The first failed send. *)

\* Scan collects all parts of an upload or none.
LEMMA TogetherStep ==
  ASSUME Whole, NoSendFailed', [Next]_vars, NEW u \in Uploads, Together(u)
  PROVE  Together(u)'
<1>1. CASE UNCHANGED collected
  BY <1>1 DEF Together
<1>2. CASE Begin
  <2>1. \A i \in PartIds : ~ In(<<u, i>>, collected')
    BY <1>2, Numbers, BegunFacts, TransactionAssumption DEF Begin, Whole, TypeOK
  <2> QED BY <2>1 DEF Together
<1>3. CASE Scan
  <2>1. \A i \in PartIds : <<u, i>> \in Requests
    BY Numbers DEF Requests
  <2>2. \A i \in PartIds :
          In(<<u, i>>, collected') <=>
            In(<<u, i>>, collected) \/ In(<<u, i>>, Due(cursor, state[cursor]))
    BY <1>3, <2>1, ScanFacts
  <2>3. \A i \in PartIds :
          In(<<u, i>>, Due(cursor, state[cursor])) <=> u = cursor /\ state[cursor] = "Sending"
    BY <1>3, Numbers, ScanFacts, DueFacts, TransactionAssumption
  <2> QED BY <2>2, <2>3 DEF Together
<1>4. CASE Submitting
  BY <1>4, InEmpty DEF Submitting, Submits, Together
<1>5. Claim \/ Looped \/ Take \/ (\E r \in Receivers : CallbackStep(r)) \/ UNCHANGED vars
        => UNCHANGED collected
  BY ReceiversUser DEF Claim, Looped, vars, user
<1> QED BY <1>1, <1>2, <1>3, <1>4, <1>5, UserCases DEF Next

\* What a send that fails has collected: nothing of it is with the receivers, and its
\* uploads are in the state their claim left.
LEMMA CollectedFacts ==
  ASSUME Whole, pc = "scan", NEW u \in Uploads, Together(u),
         NEW i \in CreateId .. FinalId, In(<<u, i>>, collected), i # CreateId
  PROVE  /\ Quiet(u)
         /\ state[u] = IF i = FinalId THEN "Default" ELSE "Processing"
<1>1. /\ StateOK(u) /\ RequestOK(<<u, i>>) /\ state[u] \in States
      /\ \A j \in CreateId .. FinalId : <<u, j>> \in Requests
  BY DEF Whole, RequestsOK, Requests, TypeOK
<1>2. Unsent(<<u, i>>) /\ ~ Waits(<<u, i>>)
  BY <1>1 DEF RequestOK, Waits
<1>3. \A j \in CreateId .. FinalId :
        answered[<<u, j>>] # "no" => ~ In(<<u, j>>, queue) /\ inflight[<<u, j>>] = 0
  <2> SUFFICES ASSUME NEW j \in CreateId .. FinalId, answered[<<u, j>>] # "no"
               PROVE  ~ In(<<u, j>>, queue) /\ inflight[<<u, j>>] = 0
    OBVIOUS
  <2>1. RequestOK(<<u, j>>) /\ inflight[<<u, j>>] \in Nat
    BY <1>1 DEF Whole, RequestsOK, TypeOK
  <2> QED BY <2>1 DEF RequestOK
<1>4. \A j \in CreateId .. FinalId : Unsent(<<u, j>>) =>
        ~ In(<<u, j>>, queue) /\ inflight[<<u, j>>] = 0 /\ ~ WorkingOn(<<u, j>>, Places \ {"none"})
  BY DEF Unsent, WorkingOn, Whole, ControlOK, JobOK
<1>5. \A r \in Receivers : job[r].at \in Places
  BY DEF Whole, TypeOK, Jobs
<1>6. CASE i = FinalId
  <2>1. state[u] = "Default" /\ final[u] # "none"
    BY <1>1, <1>2, <1>6 DEF StateOK
  <2>2. /\ answered[<<u, CreateId>>] = "ok" /\ ~ WorkingOn(<<u, CreateId>>, Places \ {"none"})
        /\ outstanding[u] = 0 /\ ~ Working(u, {"judge"}) /\ ~ Working(u, {"validate"})
    BY <1>1, <2>1 DEF StateOK
  <2>3. Pending(u) = {}
    BY <2>2, PendingFacts
  <2>4. \A j \in PartIds : answered[<<u, j>>] # "no" /\ ~ WorkingOn(<<u, j>>, Places \ {"none"})
    <3> SUFFICES ASSUME NEW j \in PartIds
                 PROVE  /\ answered[<<u, j>>] # "no"
                        /\ ~ WorkingOn(<<u, j>>, Places \ {"none"})
      OBVIOUS
    <3>1. /\ answered[<<u, j>>] # "no"
          /\ ~ WorkingOn(<<u, j>>, {"tag", "blame", "abort", "decrement"})
      BY <2>3 DEF Pending
    <3>2. \A r \in Receivers : job[r].request = <<u, j>> =>
            job[r].at \notin {"build", "open", "count", "tell"}
      BY Numbers DEF Whole, ControlOK, JobOK
    <3>3. \A r \in Receivers : job[r].request = <<u, j>> => job[r].at \notin {"judge", "validate"}
      BY <2>2 DEF Working
    <3> QED BY <1>5, <3>1, <3>2, <3>3 DEF WorkingOn, Places
  <2>5. \A j \in CreateId .. FinalId : j = CreateId \/ j \in PartIds \/ j = FinalId
    BY Numbers
  <2> QED BY <1>2, <1>3, <1>4, <1>6, <2>1, <2>2, <2>4, <2>5 DEF Quiet
<1>7. CASE i \in PartIds
  <2>1. \A j \in PartIds : In(<<u, j>>, collected)
    BY <1>7 DEF Together
  <2>2. \A j \in PartIds : Unsent(<<u, j>>) /\ answered[<<u, j>>] = "no"
    <3> SUFFICES ASSUME NEW j \in PartIds PROVE Unsent(<<u, j>>)
      BY DEF Unsent
    <3>1. RequestOK(<<u, j>>)
      BY <1>1, Numbers DEF Whole, RequestsOK
    <3> QED BY <2>1, <3>1 DEF RequestOK
  <2>3. outstanding[u] # 0
    BY <1>7, <2>2, PendingFacts DEF Pending
  <2>4. final[u] = "none" /\ state[u] # "Default" /\ state[u] # "Sending" /\ state[u] # "Validating"
    BY <1>1, <1>2, <1>7, <2>3 DEF StateOK
  <2>5. state[u] # "Aborted"
    <3>1. errorId[u] \in 0 .. Parts /\ PartsOK(u)
      BY DEF Whole, TypeOK
    <3>2. errorId[u] # 0 => errorId[u] \in PartIds
      BY <3>1, Numbers
    <3> QED BY <2>2, <3>1, <3>2 DEF PartsOK
  <2>6. answered[<<u, CreateId>>] = "ok" /\ ~ WorkingOn(<<u, CreateId>>, Places \ {"none"})
    BY <1>1, <2>4 DEF StateOK
  <2>7. Unsent(<<u, FinalId>>)
    BY <1>1, <2>4 DEF StateOK, Waits
  <2>8. \A j \in CreateId .. FinalId : j = CreateId \/ j \in PartIds \/ j = FinalId
    BY Numbers
  <2>9. i # FinalId /\ state[u] = "Processing"
    BY <1>1, <1>7, <2>4, <2>5, Numbers DEF States
  <2> QED BY <1>3, <1>4, <2>2, <2>6, <2>7, <2>8, <2>9 DEF Quiet
<1> QED BY <1>6, <1>7, Numbers

\* The rollback begins.
LEMMA RollbackStarts ==
  ASSUME Whole, \A u \in Uploads : Together(u), [Next]_vars, failures' # failures
  PROVE  RollbackOK'
<1>1. ~ (Take \/ (\E r \in Receivers : CallbackStep(r)) \/ UNCHANGED vars)
  BY ReceiversUser DEF user, vars
<1>2. UserStep
  BY <1>1 DEF Next
<1>3. UNCHANGED <<inflight, job, queue, collected>> /\ counter' = previous
  BY <1>2, UserQueue DEF Whole
<1>4. Send
  BY <1>2 DEF UserStep, Begin, Scan, Claim, Rollback, Undo, RolledBack, SendLocal, Looped
<1>5. pc = "scan" /\ pc' = "rollback" /\ cursor' = 1 /\ UNCHANGED state
  <2>1. NotSent
    BY <1>4 DEF Send, Sent
  <2> QED BY <1>4, <2>1 DEF Send, NotSent, upload
<1> SUFFICES ASSUME NEW u \in Uploads, NEW i \in CreateId .. FinalId, In(<<u, i>>, collected)
             PROVE  IF i = CreateId THEN u > previous
                    ELSE Quiet(u) /\ state[u] = Claimed(IF i = FinalId THEN "Validating" ELSE "Sending")
  <2>1. Uploads' = Uploads /\ \A u \in Uploads : ~ (u < cursor')
    BY <1>5 DEF Uploads
  <2>2. \A u \in Uploads : Quiet(u)' <=> Quiet(u)
    BY <1>3 DEF Quiet, WorkingOn
  <2> QED BY <1>3, <1>5, <2>1, <2>2 DEF RollbackOK
<1>6. i # CreateId => /\ Quiet(u)
                      /\ state[u] = IF i = FinalId THEN "Default" ELSE "Processing"
  BY <1>5, CollectedFacts
<1>7. i = CreateId => u > previous
  <2>1. OpenedOK(u) /\ previous \in 0 .. N
    BY DEF Whole, ControlOK, TypeOK
  <2> QED BY <1>5, <2>1 DEF OpenedOK, Handed, Uploads
<1> QED BY <1>6, <1>7 DEF Claimed

\* The receivers leave an upload alone that has nothing with them.
LEMMA QuietStays ==
  ASSUME TypeOK, ControlOK, Take \/ (\E r \in Receivers : CallbackStep(r)),
         NEW u \in Uploads, Quiet(u)
  PROVE  Quiet(u)' /\ state'[u] = state[u]
<1>t. /\ queue \in Seq(Requests) /\ inflight \in [Requests -> Nat]
      /\ state \in [Uploads -> States]
      /\ \A i \in CreateId .. FinalId : <<u, i>> \in Requests
  BY DEF TypeOK, Requests
<1>1. CASE Take
  <2>1. /\ queue # <<>> /\ queue' = Tail(queue) /\ UNCHANGED <<job, state>>
        /\ inflight' = [inflight EXCEPT ![Head(queue)] = @ + 1]
    BY <1>1 DEF Take, upload
  <2>2. In(Head(queue), queue) /\ \A m : In(m, queue') => In(m, queue)
    BY <1>t, <2>1, TailFacts
  <2>3. \A i \in CreateId .. FinalId : inflight'[<<u, i>>] = inflight[<<u, i>>]
    BY <1>t, <2>1, <2>2 DEF Quiet
  <2> QED BY <2>1, <2>2, <2>3 DEF Quiet, WorkingOn
<1>2. ASSUME NEW r \in Receivers, Finish(r)
      PROVE  Quiet(u)' /\ state'[u] = state[u]
  <2>1. PICK m \in Requests, ok \in BOOLEAN :
          /\ inflight[m] > 0
          /\ inflight' = [inflight EXCEPT ![m] = @ - 1]
          /\ job' = [job EXCEPT ![r] = [at |-> Entry(m, ok), request |-> m, ok |-> ok]]
    BY <1>2 DEF Finish
  <2>2. \A i \in CreateId .. FinalId : m # <<u, i>>
    BY <2>1 DEF Quiet
  <2>3. \A i \in CreateId .. FinalId : inflight'[<<u, i>>] = inflight[<<u, i>>]
    BY <1>t, <2>1, <2>2
  <2>4. \A q \in Receivers : job'[q] = job[q] \/ job'[q].request = m
    BY <2>1 DEF TypeOK
  <2>5. UNCHANGED <<queue, state>>
    BY <1>2 DEF Finish, upload
  <2> QED BY <2>2, <2>3, <2>4, <2>5 DEF Quiet, WorkingOn
<1>3. ASSUME NEW r \in Receivers, CallbackStep(r), ~ Finish(r)
      PROVE  Quiet(u)' /\ state'[u] = state[u]
  <2>1. UNCHANGED <<queue, inflight>> /\ job[r].at \in Places \ {"none"}
    <3>1. UNCHANGED <<queue, inflight>>
      BY <1>3 DEF CallbackStep, BuildParts, OfferParts, StoreTag, StoreError, StoreAborted,
                  Decrement, BuildFinal, OfferFinal, Count, Tell
    <3>2. job[r].at # "none"
      BY <1>3 DEF CallbackStep, BuildParts, OfferParts, StoreTag, StoreError, StoreAborted,
                  Decrement, BuildFinal, OfferFinal, Count, Tell, At
    <3> QED BY <3>1, <3>2 DEF TypeOK, Jobs
  <2>2. /\ UploadOf(r) \in Uploads /\ PartOf(r) \in CreateId .. FinalId
        /\ job[r].request = <<UploadOf(r), PartOf(r)>>
    BY <2>1, JobTypes, TransactionAssumption
  <2>3. UploadOf(r) # u
    BY <2>1, <2>2 DEF Quiet, WorkingOn
  <2>4. \A q \in Receivers : job'[q] = job[q] \/ job'[q] = NoJob \/ job'[q].request = job[r].request
    <3>1. job'[r] = NoJob \/ job'[r].request = job[r].request
      <4>1. Return(r) => job'[r] = NoJob
        BY ReturnFacts
      <4>2. \A place \in Places \ {"none"} : Proceed(r, place) => job'[r].request = job[r].request
        BY ProceedFacts
      <4>3. Return(r) \/ \E place \in Places \ {"none"} : Proceed(r, place)
        BY <1>3 DEF CallbackStep, BuildParts, OfferParts, StoreTag, StoreError, StoreAborted,
                    Decrement, BuildFinal, OfferFinal, Count, Tell, Places
      <4> QED BY <4>1, <4>2, <4>3
    <3> QED BY <1>3, <3>1, OthersStay
  <2>5. state' = state \/ \E s \in States : state' = [state EXCEPT ![UploadOf(r)] = s]
    BY <1>3 DEF CallbackStep, BuildParts, OfferParts, StoreTag, StoreError, StoreAborted,
                Decrement, BuildFinal, OfferFinal, Count, Tell, upload, States
  <2>6. state'[u] = state[u]
    BY <1>t, <2>3, <2>5
  <2>7. \A i \in CreateId .. FinalId : job[r].request # <<u, i>>
    BY <2>2, <2>3
  <2> QED BY <2>1, <2>4, <2>6, <2>7 DEF Quiet, WorkingOn, NoJob
<1> QED BY <1>1, <1>2, <1>3

\* The rollback walks over the uploads and puts back what was claimed.
LEMMA RollbackGoesOn ==
  ASSUME TypeOK, ControlOK, RollbackOK, [Next]_vars, failures = 1, failures' = failures
  PROVE  RollbackOK'
<1> SUFFICES ASSUME pc' \in {"rollback", "undo"}, NEW u \in Uploads,
                    NEW i \in CreateId .. FinalId, In(<<u, i>>, collected')
             PROVE  IF i = CreateId THEN u > counter'
                    ELSE LET due == IF i = FinalId THEN "Validating" ELSE "Sending" IN
                         /\ Quiet(u)'
                         /\ state'[u] = IF u < cursor' THEN due ELSE Claimed(due)
                         /\ pc' = "undo" /\ u = cursor' => seen' = state'[u]
  BY DEF RollbackOK, Uploads
<1> DEFINE due == IF i = FinalId THEN "Validating" ELSE "Sending"
           Due0 == i # CreateId =>
                     /\ Quiet(u)
                     /\ state[u] = IF u < cursor THEN due ELSE Claimed(due)
                     /\ pc = "undo" /\ u = cursor => seen = state[u]
<1>1. ASSUME pc \in {"rollback", "undo"}, UNCHANGED <<collected, counter>>
      PROVE  (i = CreateId => u > counter') /\ Due0
  BY <1>1 DEF RollbackOK
<1>2. CASE UNCHANGED vars
  <2>1. UNCHANGED <<pc, collected, counter, cursor, seen, state, queue, inflight, job>>
    BY <1>2 DEF vars, user, upload
  <2>2. Quiet(u)' <=> Quiet(u)
    BY <2>1 DEF Quiet, WorkingOn
  <2> QED BY <1>1, <2>1, <2>2
<1>3. CASE Take \/ (\E r \in Receivers : CallbackStep(r))
  <2>1. UNCHANGED <<pc, collected, counter, cursor, seen>>
    BY <1>3, ReceiversUser DEF user
  <2>2. Quiet(u) => Quiet(u)' /\ state'[u] = state[u]
    BY <1>3, QuietStays
  <2> QED BY <1>1, <2>1, <2>2
<1>4. CASE UserStep
  <2>1. Rollback \/ Undo
    <3>1. ~ Begin /\ ~ Scan /\ ~ Claim /\ ~ RolledBack /\ ~ SendLocal /\ ~ Looped
      BY DEF Begin, Scan, Claim, RolledBack, SendLocal, Looped
    <3>2. ~ Send
      <4>1. failures' # failures + 1
        OBVIOUS
      <4> QED BY <4>1 DEF Send, Sent, NotSent
    <3> QED BY <1>4, <3>1, <3>2 DEF UserStep
  <2>2. UNCHANGED <<collected, counter, queue, inflight, job>> /\ pc \in {"rollback", "undo"}
    BY <2>1 DEF Rollback, Undo
  <2>3. (i = CreateId => u > counter') /\ Due0
    BY <1>1, <2>2
  <2>4. Quiet(u)' <=> Quiet(u)
    BY <2>2 DEF Quiet, WorkingOn
  <2>5. u \in Int /\ cursor \in Int /\ state \in [Uploads -> States]
    BY DEF Uploads, TypeOK
  <2>6. Claimed(due) \in {"Processing", "Default"} /\ due \notin {"Processing", "Default"}
    BY DEF Claimed
  <2>7. CASE Rollback
    <3>1. UNCHANGED state
      BY <2>7 DEF Rollback, upload
    <3>2. CASE cursor' = cursor /\ pc' = "undo" /\ seen' = state[cursor]
      BY <2>3, <2>4, <3>1, <3>2
    <3>3. CASE cursor' = cursor + 1 /\ pc' = pc /\ state[cursor] \notin {"Processing", "Default"}
      <4>1. pc' = "rollback"
        BY <2>7, <3>3 DEF Rollback
      <4>2. i # CreateId => u # cursor
        BY <2>3, <2>5, <2>6, <3>3
      <4>3. u < cursor' <=> u < cursor \/ u = cursor
        BY <2>5, <3>3
      <4> QED BY <2>3, <2>4, <3>1, <4>1, <4>2, <4>3
    <3> QED BY <2>7, <3>2, <3>3 DEF Rollback
  <2>8. CASE Undo
    <3>1. /\ pc = "undo" /\ pc' = "rollback" /\ cursor' = cursor + 1
          /\ state' = [state EXCEPT ![cursor] = IF seen = "Processing" THEN "Sending" ELSE "Validating"]
      BY <2>8 DEF Undo
    <3>2. u < cursor' <=> u < cursor \/ u = cursor
      BY <2>5, <3>1
    <3>3. CASE u # cursor
      BY <2>3, <2>4, <2>5, <3>1, <3>2, <3>3
    <3>4. CASE u = cursor
      <4>1. i # CreateId => seen = Claimed(due)
        BY <2>3, <2>5, <3>1, <3>4
      <4>2. i # CreateId => state'[u] = due
        BY <2>5, <3>1, <3>4, <4>1 DEF Claimed
      <4> QED BY <2>3, <2>4, <3>1, <3>2, <3>4, <4>2
    <3> QED BY <3>3, <3>4
  <2> QED BY <2>1, <2>7, <2>8
<1> QED BY <1>2, <1>3, <1>4 DEF Next

LEMMA RollbackStep ==
  ASSUME RollbackInv, [Next]_vars
  PROVE  RollbackInv'
<1>1. IndInv /\ TypeOK /\ ControlOK /\ IndInv' /\ failures \in Nat
  BY IndStep DEF RollbackInv, IndInv, TypeOK
<1>2. failures' = failures \/ failures' = failures + 1
  BY DEF Next, UserStep, Begin, Scan, Claim, Send, Sent, NotSent, Rollback, Undo, RolledBack,
     SendLocal, Looped, Take, CallbackStep, Finish, BuildParts, OfferParts, StoreTag, StoreError,
     StoreAborted, Decrement, BuildFinal, OfferFinal, Count, Tell, vars, user
<1>3. ASSUME NoSendFailed PROVE Whole /\ \A u \in Uploads : Together(u)
  BY <1>1, <1>3 DEF RollbackInv, IndInv, Whole
<1>4. ASSUME NoSendFailed' PROVE (\A u \in Uploads : Together(u))'
  <2>1. NoSendFailed
    BY <1>1, <1>2, <1>4 DEF NoSendFailed
  <2> QED BY <1>3, <1>4, <2>1, TogetherStep DEF Uploads
<1>5. RollbackOK'
  <2>1. CASE failures' = failures /\ failures = 1
    BY <1>1, <2>1, RollbackGoesOn DEF RollbackInv
  <2>2. CASE failures' = failures + 1 /\ failures = 0
    BY <1>3, <2>2, RollbackStarts DEF NoSendFailed
  <2>3. CASE failures' # 1
    BY <2>3 DEF RollbackOK
  <2> QED BY <1>1, <1>2, <2>1, <2>2, <2>3
<1> QED BY <1>1, <1>4, <1>5 DEF RollbackInv

-----------------------------------------------------------------------------
(* What follows from it. *)

\* A set without two different elements.
LEMMA AtMostOne ==
  ASSUME NEW S, \A x, y \in S : x = y
  PROVE  /\ S = {} => Cardinality(S) = 0
         /\ S # {} => Cardinality(S) = 1
<1>1. S # {} => \E x : S = {x}
  OBVIOUS
<1> QED BY <1>1, FS_EmptySet, FS_Singleton

\* The copies of a request: one at most, and none before it is sent or once it is done.
LEMMA CopiesOnce ==
  ASSUME Whole, NEW m \in Requests
  PROVE  Copies(m) <= 1
<1> DEFINE Q == {k \in DOMAIN queue : queue[k] = m}
           J == {r \in Receivers : job[r].request = m /\ job[r] # NoJob}
<1>1. /\ inflight[m] \in Nat /\ RequestOK(m) /\ Distinct(queue) /\ CallbacksOK
      /\ \A r \in Receivers : job[r] # NoJob => job[r].at # "none"
  BY DEF Whole, TypeOK, RequestsOK, ControlOK, JobOK
<1>2. /\ Q = {} => Cardinality(Q) = 0
      /\ Q # {} => Cardinality(Q) = 1
  <2>1. \A j, k \in Q : j = k
    BY <1>1 DEF Distinct
  <2> HIDE DEF Q
  <2> QED BY <2>1, AtMostOne
<1>3. /\ J = {} => Cardinality(J) = 0
      /\ J # {} => Cardinality(J) = 1
  <2>1. \A r, q \in J : r = q
    BY <1>1 DEF CallbacksOK
  <2> HIDE DEF J
  <2> QED BY <2>1, AtMostOne
<1>4. J # {} => answered[m] # "no"
  BY <1>1, CallbackFacts DEF Whole, CallbacksOK
<1>5. Q # {} => In(m, queue)
  BY DEF In
<1>6. Copies(m) = Cardinality(Q) + inflight[m] + Cardinality(J)
  BY DEF Copies
<1> HIDE DEF Q, J
<1>7. CASE Q # {}
  BY <1>1, <1>2, <1>3, <1>4, <1>5, <1>6, <1>7 DEF RequestOK
<1>8. CASE Q = {} /\ inflight[m] = 1
  BY <1>1, <1>2, <1>3, <1>4, <1>6, <1>8 DEF RequestOK
<1>9. CASE Q = {} /\ inflight[m] = 0
  BY <1>2, <1>3, <1>6, <1>9
<1>10. inflight[m] = 0 \/ inflight[m] = 1
  BY <1>1 DEF RequestOK
<1> QED BY <1>7, <1>8, <1>9, <1>10

\* SubmittedOnce follows.
LEMMA QueuedOnce == IndInv => SubmittedOnce
<1> SUFFICES ASSUME IndInv, NoSendFailed, NEW m \in Requests
             PROVE  /\ Copies(m) <= 1
                    /\ m \in {queue[k] : k \in DOMAIN queue} => answered[m] = "no"
  BY DEF SubmittedOnce
<1>1. Whole
  BY DEF Whole, IndInv
<1> QED BY <1>1, CopiesOnce DEF Whole, RequestsOK, RequestOK, In

\* SubmittedExists follows: the state of an upload tells what was built.
LEMMA QueuedExists == IndInv => SubmittedExists
<1> SUFFICES ASSUME IndInv, NoSendFailed, NEW k \in DOMAIN queue
             PROVE  queue[k][2] \in built[queue[k][1]]
  BY DEF SubmittedExists
<1>1. Whole
  BY DEF Whole, IndInv
<1>2. queue[k] \in Requests
  BY <1>1 DEF Whole, TypeOK
<1> DEFINE u == queue[k][1]
           i == queue[k][2]
<1>3. u \in Uploads /\ i \in CreateId .. FinalId /\ queue[k] = <<u, i>>
  BY <1>2 DEF Requests
<1>4. ~ Unsent(<<u, i>>) /\ StateOK(u)
  BY <1>1, <1>3 DEF Unsent, In, Whole
<1> HIDE DEF u, i
<1>5. CASE i = CreateId
  BY <1>4, <1>5 DEF StateOK, u, i
<1>6. CASE i \in PartIds
  BY <1>1, <1>3, <1>4, <1>6, SentFacts DEF StateOK, u, i
<1>7. CASE i = FinalId
  BY <1>1, <1>3, <1>4, <1>7, SentFacts DEF StateOK, u, i
<1> QED BY <1>3, <1>5, <1>6, <1>7, Numbers DEF u, i

\* This needs nothing of the uploads: it is so however many sends fail.
LEMMA CounterTrue == TypeOK /\ ControlOK => CounterIsTrue
<1> SUFFICES ASSUME TypeOK, ControlOK, pc = "idle", NEW u \in Uploads
             PROVE  Opened(u) <=> u <= counter
  BY DEF CounterIsTrue
<1> DEFINE m == <<u, CreateId>>
           Q == {k \in DOMAIN queue : queue[k] = m}
           J == {r \in Receivers : job[r].request = m /\ job[r] # NoJob}
<1>1. m \in Requests /\ inflight[m] \in Nat /\ u \in Nat /\ counter \in Nat
  <2>1. m \in Requests
    BY Numbers DEF Requests
  <2> QED BY <2>1, Numbers DEF TypeOK, Uploads
<1>2. u <= counter <=> ~ Unsent(m)
  BY <1>1 DEF ControlOK, OpenedOK, Handed
<1>3. J # {} => answered[m] # "no"
  BY DEF ControlOK, JobOK
<1>4. Q = {} <=> ~ In(m, queue)
  BY DEF In
<1>5. IsFiniteSet(Q)
  <2>1. IsFiniteSet(DOMAIN queue)
    BY FS_Interval DEF TypeOK
  <2> QED BY <2>1, FS_Subset
<1>6. Copies(m) = Cardinality(Q) + inflight[m] + Cardinality(J)
  BY DEF Copies
<1>7. Opened(u) <=> Copies(m) > 0 \/ answered[m] # "no"
  BY DEF Opened
<1> HIDE DEF m, Q, J
<1>8. CASE answered[m] # "no"
  BY <1>2, <1>7, <1>8 DEF Unsent
<1>9. CASE answered[m] = "no"
  <2>1. Cardinality(J) = 0
    BY <1>3, <1>9, FS_EmptySet
  <2>2. Cardinality(Q) \in Nat /\ (Cardinality(Q) = 0 <=> Q = {})
    BY <1>5, FS_CardinalityType, FS_EmptySet
  <2>3. Copies(m) > 0 <=> In(m, queue) \/ inflight[m] # 0
    BY <1>1, <1>4, <1>6, <2>1, <2>2
  <2> QED BY <1>1, <1>2, <1>7, <1>9, <2>3 DEF Unsent
<1> QED BY <1>8, <1>9

\* ReturnsComplete follows: a call of processSync never fails to send.
LEMMA AllTold == IndInv => ReturnsComplete
<1> SUFFICES ASSUME IndInv, pc = "returned", NEW u \in Uploads PROVE Len(told[u]) = 1
  BY DEF ReturnsComplete
<1>1. NoSendFailed
  BY DEF IndInv, ControlOK, UserOK
<1>2. told[u] # <<>> /\ Len(told[u]) <= 1 /\ told[u] \in Seq(Verdicts)
  BY <1>1 DEF IndInv, CountsOK, ToldOK, TypeOK
<1>3. Len(told[u]) \in Nat /\ Len(told[u]) # 0
  BY <1>2
<1>4. \A n \in Nat : n <= 1 /\ n # 0 => n = 1
  OBVIOUS
<1> QED BY <1>2, <1>3, <1>4, Zenon

\* The bundle of the accounting properties follows.
LEMMA InvOfInd == IndInv => Inv
BY QueuedOnce, QueuedExists, CounterTrue, AllTold DEF Inv, IndInv

\* A final request, once chosen, is the right one: every part has ended by then.
LEMMA FinalOfInd == IndInv => FinalIsRight
<1> SUFFICES ASSUME IndInv, NoSendFailed, NEW u \in Uploads
             PROVE  /\ final[u] = "complete" => eTags[u] = PartIds /\ Ended(u, "failed") = {}
                    /\ final[u] = "delete" => Ended(u, "failed") # {} /\ Ended(u, "no") = {}
  BY DEF FinalIsRight
<1>1. Whole
  BY DEF Whole, IndInv
<1>2. StateOK(u) /\ PartsOK(u) /\ errorId[u] \in 0 .. Parts
  BY <1>1 DEF Whole, TypeOK
<1>3. final[u] = "complete" => eTags[u] = PartIds /\ Ended(u, "failed") = {}
  BY <1>2 DEF PartsOK, Ended
<1>4. ASSUME final[u] = "delete" PROVE Ended(u, "failed") # {} /\ Ended(u, "no") = {}
  <2>1. outstanding[u] = 0
    BY <1>2, <1>4 DEF StateOK
  <2>2. Pending(u) = {}
    BY <1>1, <2>1, PendingFacts
  <2>3. Ended(u, "no") = {}
    BY <2>2 DEF Pending, Ended
  <2>4. errorId[u] \in PartIds /\ answered[<<u, errorId[u]>>] = "failed"
    BY <1>2, <1>4, Numbers DEF PartsOK
  <2> QED BY <2>3, <2>4 DEF Ended
<1> QED BY <1>3, <1>4

\* ToldOnceAndTruly follows.
LEMMA ToldOfInd == IndInv => ToldOnceAndTruly
BY DEF IndInv, ToldOnceAndTruly, ToldOK

-----------------------------------------------------------------------------
(* The bytes of the parts. *)

LEMMA Division ==
  ASSUME NEW a \in Nat, NEW b \in Nat \ {0}
  PROVE  /\ a \div b \in Nat /\ a % b \in 0 .. b - 1
         /\ a = (a \div b) * b + (a % b)
OBVIOUS

LEMMA Multiples ==
  ASSUME NEW a \in Nat, NEW b \in Nat, NEW s \in Nat
  PROVE  /\ a * s \in Nat /\ (a + 1) * s = a * s + s
         /\ a <= b => a * s <= b * s
OBVIOUS

\* Something is left for the last part, and no more than the split size unless the number
\* of parts was cut.
LEMMA PartSizes ==
  /\ Parts \in Nat \ {0} /\ SplitSize \in Nat \ {0} /\ ObjectSize \in Nat
  /\ (Parts - 1) * SplitSize \in Nat /\ (Parts - 1) * SplitSize < ObjectSize
  /\ PartsNeeded < Width => ObjectSize <= Parts * SplitSize
<1> DEFINE q == ObjectSize \div SplitSize
           r == ObjectSize % SplitSize
           n == PartsNeeded
<1>1. /\ Parts \in Nat \ {0} /\ SplitSize \in Nat \ {0} /\ ObjectSize \in Nat
      /\ ObjectSize > SplitSize /\ Width \in Nat \ {0}
  BY TransactionAssumption
<1>2. q \in Nat /\ r \in 0 .. SplitSize - 1 /\ ObjectSize = q * SplitSize + r
  BY <1>1, Division
<1>3. n = IF r # 0 THEN q + 1 ELSE q
  BY <1>1, <1>2 DEF PartsNeeded
<1>4. Parts <= n /\ (n < Width => Parts = n)
  <2>1. n \in Nat
    BY <1>2, <1>3
  <2>2. \A k \in Nat : k % Width <= k /\ (k < Width => k % Width = k)
    BY <1>1
  <2> QED BY <2>1, <2>2 DEF Parts
<1> HIDE DEF n, q, r
<1>5. n \in Nat /\ n - 1 \in Nat /\ Parts - 1 \in Nat /\ Parts - 1 <= n - 1
  BY <1>1, <1>2, <1>3, <1>4
<1>6. q * SplitSize \in Nat /\ (q + 1) * SplitSize = q * SplitSize + SplitSize
  BY <1>1, <1>2, Multiples
<1>7. (n - 1) * SplitSize < ObjectSize /\ ObjectSize <= n * SplitSize
  <2>1. CASE r # 0
    <3>1. n - 1 = q /\ n = q + 1
      BY <1>2, <1>3, <2>1
    <3> QED BY <1>1, <1>2, <1>6, <2>1, <3>1
  <2>2. CASE r = 0
    <3>1. n = q
      BY <1>3, <2>2
    <3>2. ((n - 1) + 1) * SplitSize = (n - 1) * SplitSize + SplitSize /\ (n - 1) * SplitSize \in Nat
      BY <1>1, <1>5, Multiples
    <3>3. (n - 1) + 1 = n
      BY <1>5
    <3> QED BY <1>1, <1>2, <1>6, <2>2, <3>1, <3>2, <3>3
  <2> QED BY <2>1, <2>2
<1>8. /\ (Parts - 1) * SplitSize \in Nat /\ (n - 1) * SplitSize \in Nat
      /\ (Parts - 1) * SplitSize <= (n - 1) * SplitSize
  BY <1>1, <1>5, Multiples
<1>9. n < Width => ObjectSize <= Parts * SplitSize
  BY <1>4, <1>7
<1>10. (Parts - 1) * SplitSize < ObjectSize
  BY <1>1, <1>7, <1>8
<1> QED BY <1>1, <1>8, <1>9, <1>10 DEF n

\* Part i begins where the one before it ends.
LEMMA PartBytes ==
  ASSUME NEW i \in PartIds
  PROVE  \E first \in Nat, last \in Nat :
           /\ Bytes(i) = first .. last /\ first = (i - 1) * SplitSize /\ first <= last
           /\ i # Parts \/ PartsNeeded < Width =>
                last < first + SplitSize /\ last < i * SplitSize
           /\ last = IF i # Parts THEN first + SplitSize - 1 ELSE ObjectSize - 1
<1> DEFINE f == (i - 1) * SplitSize
           e == IF i # Parts THEN f + SplitSize - 1 ELSE ObjectSize - 1
<1>1. /\ Parts \in Nat \ {0} /\ SplitSize \in Nat \ {0} /\ ObjectSize \in Nat
      /\ (Parts - 1) * SplitSize < ObjectSize
      /\ PartsNeeded < Width => ObjectSize <= Parts * SplitSize
  BY PartSizes
<1>2. i \in Nat /\ i - 1 \in Nat /\ (i - 1) + 1 = i
  BY <1>1 DEF PartIds
<1>3. f \in Nat /\ i * SplitSize = f + SplitSize
  BY <1>1, <1>2, Multiples
<1>4. i = Parts => f < ObjectSize /\ (PartsNeeded < Width => ObjectSize <= i * SplitSize)
  BY <1>1
<1>5. Bytes(i) = f .. f + (IF i # Parts THEN SplitSize ELSE ObjectSize - f) - 1
  BY DEF Bytes
<1> HIDE DEF f
<1>6. Bytes(i) = f .. e
  BY <1>1, <1>3, <1>5
<1>7. /\ e \in Nat /\ f <= e
      /\ i # Parts \/ PartsNeeded < Width => e < f + SplitSize /\ e < i * SplitSize
  BY <1>1, <1>3, <1>4
<1> HIDE DEF e
<1> QED BY <1>3, <1>6, <1>7 DEF f, e

LEMMA PartsFit ==
  ASSUME PartsNeeded < Width, NEW i \in PartIds
  PROVE  Bytes(i) # {} /\ Cardinality(Bytes(i)) <= SplitSize
<1>1. PICK f \in Nat, e \in Nat : Bytes(i) = f .. e /\ f <= e /\ e < f + SplitSize
  BY PartBytes
<1>2. Cardinality(f .. e) = e - f + 1
  BY <1>1, FS_Interval
<1>3. f \in f .. e
  BY <1>1
<1>4. e - f + 1 <= SplitSize
  BY <1>1, PartSizes
<1> QED BY <1>1, <1>2, <1>3, <1>4

LEMMA PartsOrdered ==
  ASSUME NEW i \in PartIds, NEW j \in PartIds, i < j,
         NEW x \in Bytes(i), NEW y \in Bytes(j)
  PROVE  x < y
<1>0. i # Parts
  BY PartSizes DEF PartIds
<1>1. PICK f \in Nat, e \in Nat : Bytes(i) = f .. e /\ e < i * SplitSize
  BY <1>0, PartBytes
<1>2. PICK g \in Nat, h \in Nat : Bytes(j) = g .. h /\ g = (j - 1) * SplitSize
  BY PartBytes
<1>3. i \in Nat /\ j - 1 \in Nat /\ i <= j - 1 /\ SplitSize \in Nat
  BY PartSizes DEF PartIds
<1>4. i * SplitSize \in Nat /\ i * SplitSize <= (j - 1) * SplitSize
  BY <1>3, Multiples
<1> QED BY <1>1, <1>2, <1>4

\* A byte is in the part that its offset divided by the split size says, or in the last.
LEMMA PartsCover == UNION {Bytes(i) : i \in PartIds} = 0 .. ObjectSize - 1
<1>1. /\ Parts \in Nat \ {0} /\ SplitSize \in Nat \ {0} /\ ObjectSize \in Nat
      /\ (Parts - 1) * SplitSize \in Nat
  BY PartSizes
<1>2. ASSUME NEW i \in PartIds, NEW x \in Bytes(i)
      PROVE  x \in 0 .. ObjectSize - 1
  <2>1. PICK f \in Nat, e \in Nat :
          /\ Bytes(i) = f .. e
          /\ e = IF i # Parts THEN f + SplitSize - 1 ELSE ObjectSize - 1
          /\ i # Parts => e < i * SplitSize
    BY PartBytes
  <2>2. e <= ObjectSize - 1
    <3>1. CASE i = Parts
      BY <2>1, <3>1
    <3>2. CASE i # Parts
      <4>1. i \in Nat /\ Parts - 1 \in Nat /\ i <= Parts - 1
        BY <1>1, <3>2 DEF PartIds
      <4>2. i * SplitSize \in Nat /\ i * SplitSize <= (Parts - 1) * SplitSize
        BY <1>1, <4>1, Multiples
      <4>3. (Parts - 1) * SplitSize \in Nat /\ (Parts - 1) * SplitSize < ObjectSize
        BY <1>1, <4>1, Multiples, PartSizes
      <4> QED BY <1>1, <2>1, <4>2, <4>3
    <3> QED BY <3>1, <3>2
  <2> QED BY <1>1, <2>1, <2>2
<1>3. ASSUME NEW x \in 0 .. ObjectSize - 1
      PROVE  \E i \in PartIds : x \in Bytes(i)
  <2> DEFINE k == x \div SplitSize
             r == x % SplitSize
  <2>1. x \in Nat /\ k \in Nat /\ r \in 0 .. SplitSize - 1 /\ x = k * SplitSize + r
    <3>1. x \in Nat
      BY <1>1
    <3> QED BY <1>1, <3>1, Division
  <2> HIDE DEF k, r
  <2>2. k * SplitSize \in Nat /\ x < k * SplitSize + SplitSize /\ k * SplitSize <= x
    BY <1>1, <2>1, Multiples
  <2>3. CASE k < Parts
    <3>1. k + 1 \in PartIds /\ (k + 1) - 1 = k
      BY <1>1, <2>1, <2>3 DEF PartIds
    <3>2. PICK f \in Nat, e \in Nat :
            /\ Bytes(k + 1) = f .. e /\ f = ((k + 1) - 1) * SplitSize
            /\ e = IF k + 1 # Parts THEN f + SplitSize - 1 ELSE ObjectSize - 1
      BY <3>1, PartBytes
    <3>3. f = k * SplitSize
      BY <3>1, <3>2
    <3>4. f <= x /\ x <= e
      BY <1>1, <2>2, <3>2, <3>3
    <3> QED BY <2>1, <3>1, <3>2, <3>4
  <2>4. CASE Parts <= k
    <3>1. Parts \in PartIds /\ Parts - 1 \in Nat /\ Parts - 1 <= k
      BY <1>1, <2>1, <2>4 DEF PartIds
    <3>2. PICK f \in Nat, e \in Nat :
            Bytes(Parts) = f .. e /\ f = (Parts - 1) * SplitSize /\ e = ObjectSize - 1
      BY <3>1, PartBytes
    <3>3. (Parts - 1) * SplitSize <= k * SplitSize
      BY <1>1, <2>1, <3>1, Multiples
    <3>4. f <= x /\ x <= e
      BY <1>1, <2>1, <2>2, <3>2, <3>3
    <3> QED BY <2>1, <3>1, <3>2, <3>4
  <2> QED BY <1>1, <2>1, <2>3, <2>4
<1> QED BY <1>2, <1>3

\* StoredWhole follows: an upload that is told to have succeeded was completed, so none of its
\* parts failed, and all had ended before.
LEMMA StoredOfInd == IndInv => StoredWhole
<1> SUFFICES ASSUME IndInv, NEW u \in Uploads
             PROVE  /\ PartsNeeded < Width =>
                         \A i \in built[u] \cap PartIds :
                           Bytes(i) # {} /\ Cardinality(Bytes(i)) <= SplitSize
                    /\ NoSendFailed /\ (\E k \in DOMAIN told[u] : told[u][k].success) =>
                         /\ UNION {Bytes(i) : i \in Stored(u)} = 0 .. ObjectSize - 1
                         /\ \A i, j \in Stored(u) :
                              i < j => \A x \in Bytes(i), y \in Bytes(j) : x < y
  BY DEF StoredWhole
<1>1. ASSUME NoSendFailed, \E k \in DOMAIN told[u] : told[u][k].success
      PROVE  Stored(u) = PartIds
  <2>1. Whole
    BY <1>1 DEF Whole, IndInv
  <2>2. ToldOK(u) /\ StateOK(u) /\ PartsOK(u) /\ answered \in [Requests -> {"no", "ok", "failed"}]
    BY <2>1 DEF Whole, IndInv, CountsOK, TypeOK
  <2>3. final[u] = "complete"
    BY <1>1, <2>2 DEF ToldOK
  <2>4. Pending(u) = {}
    BY <2>1, <2>2, <2>3, PendingFacts DEF StateOK
  <2>5. ASSUME NEW i \in PartIds PROVE answered[<<u, i>>] = "ok"
    <3>1. <<u, i>> \in Requests
      BY Numbers DEF Requests
    <3>2. answered[<<u, i>>] # "no" /\ answered[<<u, i>>] # "failed"
      BY <2>2, <2>3, <2>4 DEF Pending, PartsOK
    <3> QED BY <2>2, <3>1, <3>2
  <2> QED BY <2>5 DEF Stored, Ended
<1>2. ASSUME PartsNeeded < Width, NEW i \in built[u] \cap PartIds
      PROVE  Bytes(i) # {} /\ Cardinality(Bytes(i)) <= SplitSize
  BY <1>2, PartsFit
<1>3. UNION {Bytes(i) : i \in PartIds} = 0 .. ObjectSize - 1
  BY PartsCover
<1>4. \A i, j \in PartIds : i < j => \A x \in Bytes(i), y \in Bytes(j) : x < y
  BY PartsOrdered
<1> QED BY <1>1, <1>2, <1>3, <1>4

-----------------------------------------------------------------------------
(* The theorems. *)

\* What holds of the uploads before the first failed send, and of the opening requests
\* however many fail, is an invariant of the calls, the receivers and the callbacks for
\* any number of uploads, parts and receivers.
THEOREM Induction == Spec => []IndInv
BY IndInit, IndStep, PTL DEF Spec

\* Each request is with the receivers at most once and only after it was built,
\* _messageCounter counts exactly the opening requests handed over between two calls
\* (transaction.cpp processAsync), and processSync returns to uploads all told of.
THEOREM Accounted == Spec => []Inv
BY Induction, InvOfInd, PTL

\* The request that ends an upload completes it only with the eTag of every part, and
\* deletes it only after a part failed and all have ended (transaction.hpp finishMultipart).
THEOREM RightFinal == Spec => []FinalIsRight
BY Induction, FinalOfInd, PTL

\* The user's callback of an upload runs at most once and tells how it ended.
THEOREM ToldTruth == Spec => []ToldOnceAndTruly
BY Induction, ToldOfInd, PTL

\* An upload that is told to have succeeded has every byte of the object stored, by one part
\* and in its place, whatever the sizes are, and its parts have the sizes they should have, if
\* their number fits (transaction.hpp putObjectRequestMultiPart).
THEOREM SuccessStoresAll == Spec => []StoredWhole
BY Induction, StoredOfInd, PTL

\* A first send that fails forgets nothing (transaction.cpp processAsync): when it has been
\* taken back, every request it had collected is due again, whatever the receivers did
\* between the loads and the stores of the states.
THEOREM FailedSendForgetsNothing == Spec => NothingForgotten
<1>1. Init => RollbackInv
  <2>1. Init => (\A u \in Uploads : Together(u)) /\ RollbackOK
    BY InEmpty DEF Init, Together, RollbackOK
  <2> QED BY <2>1, IndInit DEF RollbackInv
<1>2. RollbackInv /\ [Next]_vars => RollbackInv'
  BY RollbackStep
<1>3. RollbackInv =>
        (RolledBack /\ failures = 1 =>
           \A k \in DOMAIN collected :
             LET u == collected[k][1] IN
             CASE collected[k][2] = CreateId -> u > counter
               [] collected[k][2] = FinalId  -> state[u] = "Validating"
               [] OTHER                      -> state[u] = "Sending")
  <2> SUFFICES ASSUME RollbackInv, RolledBack, failures = 1, NEW k \in DOMAIN collected,
                      NEW u, u = collected[k][1], NEW i, i = collected[k][2]
               PROVE  IF i = CreateId THEN u > counter
                      ELSE IF i = FinalId THEN state[u] = "Validating" ELSE state[u] = "Sending"
    BY Numbers
  <2>1. collected[k] \in Requests /\ cursor \in Int
    BY DEF RollbackInv, IndInv, TypeOK
  <2>2. u \in Uploads /\ i \in CreateId .. FinalId /\ collected[k] = <<u, i>>
    BY <2>1 DEF Requests
  <2>3. pc = "rollback" /\ u < cursor
    BY <2>1, <2>2, Numbers DEF RolledBack, Uploads
  <2>4. In(<<u, i>>, collected)
    BY <2>2 DEF In
  <2> QED BY <2>2, <2>3, <2>4 DEF RollbackInv, RollbackOK
<1> QED BY <1>1, <1>2, <1>3, PTL DEF Spec, NothingForgotten

=============================================================================
