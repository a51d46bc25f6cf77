----------------------------- MODULE Transaction -----------------------------
(***************************************************************************)
(* network::Transaction (include/network/transaction.hpp,                  *)
(* src/network/transaction.cpp): multipart uploads.                        *)
(*                                                                         *)
(* The user's thread collects the requests that are due and submits them   *)
(* (processAsync), or submits and works them off itself (processSync).     *)
(* Receivers run the callbacks of finished requests, several at a time in  *)
(* the asynchronous case.  They meet in the atomics of MultipartUpload:    *)
(* each load and each store of them is a step of its own.                  *)
(***************************************************************************)
EXTENDS Integers, Sequences, FiniteSets

CONSTANTS
  N,          \* the number of uploads of the transaction
  ObjectSize, \* the size of each upload
  SplitSize,  \* Provider::multipartUploadSize
  Width,      \* 2^16: what the number of parts holds
  Receivers,  \* the threads that run callbacks
  Capacity,   \* the room of the group's submission queue
  MaxFailures \* bound: the user calls no more once so many sends have failed

\* What is larger than the split size is uploaded in parts (transaction.hpp:149), all but
\* the last of the split size.
PartsNeeded == (ObjectSize \div SplitSize) + (IF ObjectSize % SplitSize # 0 THEN 1 ELSE 0)

\* Mutant: the rest is no part of its own.
PartsRounded == (ObjectSize \div SplitSize) % Width

Parts == PartsNeeded % Width

ASSUME TransactionAssumption ==
  /\ N \in Nat \ {0}
  /\ SplitSize \in Nat \ {0} /\ ObjectSize \in Nat /\ ObjectSize > SplitSize
  /\ Width \in Nat \ {0}
  \* The number may lose its high bits.  Without parts no upload is told of, and up to
  \* Width - 1 the loop over them never ends (transaction.hpp:224).
  /\ Parts \in Nat \ {0} /\ Parts # Width - 1
  /\ Capacity \in Nat
  /\ MaxFailures \in Nat \ {0}

Uploads == 1 .. N
PartIds == 1 .. Parts

\* The bytes of part i of an upload.
Bytes(i) ==
  LET offset == (i - 1) * SplitSize IN
  offset .. offset + (IF i # Parts THEN SplitSize ELSE ObjectSize - offset) - 1

CreateId == 0         \* the request that opens the upload, kept in _messages
FinalId == Parts + 1  \* the request that completes or aborts it, messages[parts]

Requests == Uploads \X (CreateId .. FinalId)
States == {"Default", "Sending", "Processing", "Validating", "Aborted"}

VARIABLES
  state,        \* MultipartUpload::state
  outstanding,  \* MultipartUpload::outstanding
  eTags,        \* MultipartUpload::eTags: the parts that have one
  errorId,      \* MultipartUpload::errorMessageId, 0 before any is stored
  built,        \* MultipartUpload::messages: the requests that exist
  final,        \* what the request at messages[parts] asks for
  counter,      \* _messageCounter
  completed,    \* _completedMultiparts
  queue,        \* the submission queue
  inflight,     \* how often a request is with the receivers
  job,          \* the callback each receiver runs
  sync,         \* the user calls processSync, or processAsync again and again
  pc,           \* where the user's thread is
  cursor,       \* the upload its loops are at
  seen,         \* the state it loaded there
  collected,    \* its submissions vector
  previous,     \* previousCounter
  failures,     \* how many sends have failed
  answered,     \* the requests whose callback has begun, and how they ended
  told          \* what each user callback was told, in order

upload == <<state, outstanding, eTags, errorId, built, final>>
user == <<pc, cursor, seen, collected, previous, failures>>
vars == <<upload, counter, completed, queue, inflight, job, sync, user, answered, told>>

NoJob == [at |-> "none", request |-> <<0, 0>>, ok |-> FALSE]

Init ==
  /\ state = [u \in Uploads |-> "Default"]
  /\ outstanding = [u \in Uploads |-> Parts]
  /\ eTags = [u \in Uploads |-> {}]
  /\ errorId = [u \in Uploads |-> 0]
  /\ built = [u \in Uploads |-> {CreateId}]
  /\ final = [u \in Uploads |-> "none"]
  /\ counter = 0
  /\ completed = 0
  /\ queue = <<>>
  /\ inflight = [m \in Requests |-> 0]
  /\ job = [r \in Receivers |-> NoJob]
  /\ sync \in BOOLEAN
  /\ pc = "idle"
  /\ cursor = 0
  /\ seen = "Default"
  /\ collected = <<>>
  /\ previous = 0
  /\ failures = 0
  /\ answered = [m \in Requests |-> "no"]
  /\ told = [u \in Uploads |-> <<>>]

-----------------------------------------------------------------------------
(* The user's thread. *)

\* Nothing of the transaction is left to do in this round.
Drained ==
  /\ queue = <<>>
  /\ \A m \in Requests : inflight[m] = 0
  /\ \A r \in Receivers : job[r] = NoJob

\* Mutant: one message too many is counted.
BeginOffByOne ==
  /\ failures < MaxFailures
  /\ pc = "idle"
  /\ pc' = "scan"
  /\ cursor' = 1
  /\ previous' = counter
  /\ collected' = [k \in 1 .. N - counter |-> <<counter + k, CreateId>>]
  /\ counter' = N + 1
  /\ UNCHANGED <<upload, completed, queue, inflight, job, seen, failures, answered, told>>

\* The opening requests not yet sent are collected.
Begin ==
  /\ failures < MaxFailures
  /\ pc = "idle"
  /\ pc' = "scan"
  /\ cursor' = 1
  /\ previous' = counter
  /\ collected' = [k \in 1 .. N - counter |-> <<counter + k, CreateId>>]
  /\ counter' = N
  /\ UNCHANGED <<upload, completed, queue, inflight, job, seen, failures, answered, told>>

\* Mutant: the final request is never collected.
DueWithoutFinal(u, s) ==
  IF s = "Sending" THEN [i \in PartIds |-> <<u, i>>] ELSE <<>>

\* The requests that are due in an upload found in state s.
Due(u, s) ==
  CASE s = "Sending"    -> [i \in PartIds |-> <<u, i>>]
    [] s = "Validating" -> << <<u, FinalId>> >>
    [] OTHER            -> <<>>

Scan ==
  /\ pc = "scan"
  /\ cursor <= N
  /\ seen' = state[cursor]
  /\ collected' = collected \o Due(cursor, state[cursor])
  /\ IF state[cursor] \in {"Sending", "Validating"}
       THEN pc' = "claim" /\ UNCHANGED cursor
       ELSE cursor' = cursor + 1 /\ UNCHANGED pc
  /\ UNCHANGED <<upload, counter, completed, queue, inflight, job, previous, failures, answered, told>>

\* Mutant: the state is left as it was found for the parts.
ClaimedNoParts(s) == IF s = "Sending" THEN "Sending" ELSE "Default"
\* The state that marks the collected requests as sent.
Claimed(s) == IF s = "Sending" THEN "Processing" ELSE "Default"

Claim ==
  /\ pc = "claim"
  /\ pc' = "scan"
  /\ state' = [state EXCEPT ![cursor] = Claimed(seen)]
  /\ cursor' = cursor + 1
  /\ UNCHANGED <<outstanding, eTags, errorId, built, final, counter, completed, queue,
                 inflight, job, seen, collected, previous, failures, answered, told>>

\* All of them go to the group's queue.
Sent ==
  /\ Len(queue) + Len(collected) <= Capacity
  /\ pc' = "idle"
  /\ queue' = queue \o collected
  /\ collected' = <<>>
  /\ UNCHANGED <<counter, cursor, failures>>

\* There is no room for all of them: other users fill the same queue.
NotSent ==
  /\ collected # <<>>
  /\ failures' = failures + 1
  /\ pc' = "rollback"
  /\ cursor' = 1
  /\ UNCHANGED <<queue, collected>>

\* Mutant: _messageCounter is not taken back.
SendKeepsCounter ==
  /\ ~ sync
  /\ pc = "scan"
  /\ cursor > N
  /\ Sent \/ (NotSent /\ UNCHANGED counter)
  /\ UNCHANGED <<upload, completed, inflight, job, seen, previous, answered, told>>

\* processAsync: all or none are sent.
Send ==
  /\ ~ sync
  /\ pc = "scan"
  /\ cursor > N
  /\ Sent \/ (NotSent /\ counter' = previous)
  /\ UNCHANGED <<upload, completed, inflight, job, seen, previous, answered, told>>

\* The states that a failed send takes back: it looks at every upload.
Rollback ==
  /\ pc = "rollback"
  /\ cursor <= N
  /\ seen' = state[cursor]
  /\ IF state[cursor] \in {"Processing", "Default"}
       THEN pc' = "undo" /\ UNCHANGED cursor
       ELSE cursor' = cursor + 1 /\ UNCHANGED pc
  /\ UNCHANGED <<upload, counter, completed, queue, inflight, job, collected, previous,
                 failures, answered, told>>

\* Mutant: the two cases are swapped.
UndoSwapped ==
  /\ pc = "undo"
  /\ pc' = "rollback"
  /\ state' = [state EXCEPT ![cursor] = IF seen = "Default" THEN "Sending" ELSE "Validating"]
  /\ cursor' = cursor + 1
  /\ UNCHANGED <<outstanding, eTags, errorId, built, final, counter, completed, queue,
                 inflight, job, seen, collected, previous, failures, answered, told>>

Undo ==
  /\ pc = "undo"
  /\ pc' = "rollback"
  /\ state' = [state EXCEPT ![cursor] = IF seen = "Processing" THEN "Sending" ELSE "Validating"]
  /\ cursor' = cursor + 1
  /\ UNCHANGED <<outstanding, eTags, errorId, built, final, counter, completed, queue,
                 inflight, job, seen, collected, previous, failures, answered, told>>

RolledBack ==
  /\ pc = "rollback"
  /\ cursor > N
  /\ pc' = "idle"
  /\ collected' = <<>>
  /\ UNCHANGED <<upload, counter, completed, queue, inflight, job, cursor, seen, previous,
                 failures, answered, told>>

\* processSync: the requests go to the handle's own queue, which has no bound,
\* and the thread works them off before it looks again.
SendLocal ==
  /\ sync
  /\ pc = "scan"
  /\ cursor > N
  /\ pc' = "drain"
  /\ queue' = queue \o collected
  /\ collected' = <<>>
  /\ UNCHANGED <<upload, counter, completed, inflight, job, cursor, seen, previous,
                 failures, answered, told>>

\* Mutant: one round is enough.
LoopedOnce ==
  /\ pc = "drain"
  /\ Drained
  /\ pc' = "returned"
  /\ UNCHANGED <<upload, counter, completed, queue, inflight, job, cursor, seen, collected,
                 previous, failures, answered, told>>

\* The loop of processSync ends when every upload has completed.
Looped ==
  /\ pc = "drain"
  /\ Drained
  /\ pc' = IF completed = N THEN "returned" ELSE "idle"
  /\ UNCHANGED <<upload, counter, completed, queue, inflight, job, cursor, seen, collected,
                 previous, failures, answered, told>>

UserStep ==
  /\ UNCHANGED sync
  /\ \/ Begin
     \/ Scan
     \/ Claim
     \/ Send
     \/ Rollback
     \/ Undo
     \/ RolledBack
     \/ SendLocal
     \/ Looped

-----------------------------------------------------------------------------
(* The receivers. *)

\* A receiver takes the oldest request.  One that does not exist is a null
\* pointer: the program ends there.
Take ==
  /\ queue # <<>>
  /\ Head(queue)[2] \in built[Head(queue)[1]]
  /\ queue' = Tail(queue)
  /\ inflight' = [inflight EXCEPT ![Head(queue)] = @ + 1]
  /\ UNCHANGED <<upload, counter, completed, job, sync, user, answered, told>>

\* Mutant: a failing opening request is not counted as completed.
EntryUncounted(m, ok) ==
  CASE m[2] = CreateId -> IF ok THEN "build" ELSE "tell"
    [] m[2] = FinalId  -> "count"
    [] OTHER           -> IF ok THEN "tag" ELSE "blame"

\* What a callback does first.
Entry(m, ok) ==
  CASE m[2] = CreateId -> IF ok THEN "build" ELSE "count"
    [] m[2] = FinalId  -> "count"
    [] OTHER           -> IF ok THEN "tag" ELSE "blame"

\* A request in flight ends, well or badly, and its callback begins.
Finish(r) ==
  /\ job[r] = NoJob
  /\ sync => pc = "drain"
  /\ \E m \in Requests, ok \in BOOLEAN :
       /\ inflight[m] > 0
       /\ inflight' = [inflight EXCEPT ![m] = @ - 1]
       /\ job' = [job EXCEPT ![r] = [at |-> Entry(m, ok), request |-> m, ok |-> ok]]
       /\ answered' = [answered EXCEPT ![m] = IF ok THEN "ok" ELSE "failed"]
  /\ UNCHANGED <<upload, counter, completed, queue, user, told>>

At(r, place) == job[r].at = place
UploadOf(r) == job[r].request[1]
PartOf(r) == job[r].request[2]
Proceed(r, place) == job' = [job EXCEPT ![r].at = place]
Return(r) == job' = [job EXCEPT ![r] = NoJob]

\* Mutant: the loop over the parts ends one early.
BuildPartsShort(r) ==
  /\ At(r, "build")
  /\ built' = [built EXCEPT ![UploadOf(r)] = @ \cup (1 .. Parts - 1)]
  /\ Proceed(r, "open")
  /\ UNCHANGED <<state, outstanding, eTags, errorId, final, counter, completed, queue,
                 inflight, user, answered, told>>

\* uploadMessages: the parts' requests are built ...
BuildParts(r) ==
  /\ At(r, "build")
  /\ built' = [built EXCEPT ![UploadOf(r)] = @ \cup PartIds]
  /\ Proceed(r, "open")
  /\ UNCHANGED <<state, outstanding, eTags, errorId, final, counter, completed, queue,
                 inflight, user, answered, told>>

\* ... and then offered to the user's thread.
OfferParts(r) ==
  /\ At(r, "open")
  /\ state' = [state EXCEPT ![UploadOf(r)] = "Sending"]
  /\ Return(r)
  /\ UNCHANGED <<outstanding, eTags, errorId, built, final, counter, completed, queue,
                 inflight, user, answered, told>>

\* finishMultipart of a part that arrived.
StoreTag(r) ==
  /\ At(r, "tag")
  /\ eTags' = [eTags EXCEPT ![UploadOf(r)] = @ \cup {PartOf(r)}]
  /\ Proceed(r, "decrement")
  /\ UNCHANGED <<state, outstanding, errorId, built, final, counter, completed, queue,
                 inflight, user, answered, told>>

\* finishMultipart of a part that failed: first which, then that.
StoreError(r) ==
  /\ At(r, "blame")
  /\ errorId' = [errorId EXCEPT ![UploadOf(r)] = PartOf(r)]
  /\ Proceed(r, "abort")
  /\ UNCHANGED <<state, outstanding, eTags, built, final, counter, completed, queue,
                 inflight, user, answered, told>>

StoreAborted(r) ==
  /\ At(r, "abort")
  /\ state' = [state EXCEPT ![UploadOf(r)] = "Aborted"]
  /\ Proceed(r, "decrement")
  /\ UNCHANGED <<outstanding, eTags, errorId, built, final, counter, completed, queue,
                 inflight, user, answered, told>>

\* Mutant: the result of fetch_sub is taken for the new value.
IsLastByNewValue(old) == old - 1 <= 1

\* Whether fetch_sub returned the count of the last part.
IsLast(old) == old = 1

\* outstanding.fetch_sub(1): the callback of the last part goes on.
Decrement(r) ==
  LET old == outstanding[UploadOf(r)] IN
  /\ At(r, "decrement")
  /\ outstanding' = [outstanding EXCEPT ![UploadOf(r)] = old - 1]
  /\ IF IsLast(old) THEN Proceed(r, "judge") ELSE Return(r)
  /\ UNCHANGED <<state, eTags, errorId, built, final, counter, completed, queue, inflight,
                 user, answered, told>>

\* The last part's callback builds the request that completes the upload, or
\* the one that deletes it.
BuildFinal(r) ==
  LET u == UploadOf(r) IN
  /\ At(r, "judge")
  /\ final' = [final EXCEPT ![u] = IF state[u] # "Aborted" THEN "complete" ELSE "delete"]
  /\ built' = [built EXCEPT ![u] = @ \cup {FinalId}]
  /\ Proceed(r, "validate")
  /\ UNCHANGED <<state, outstanding, eTags, errorId, counter, completed, queue, inflight,
                 user, answered, told>>

OfferFinal(r) ==
  /\ At(r, "validate")
  /\ state' = [state EXCEPT ![UploadOf(r)] = "Validating"]
  /\ Return(r)
  /\ UNCHANGED <<outstanding, eTags, errorId, built, final, counter, completed, queue,
                 inflight, user, answered, told>>

\* The callbacks that end an upload count it first ...
Count(r) ==
  /\ At(r, "count")
  /\ completed' = completed + 1
  /\ Proceed(r, "tell")
  /\ UNCHANGED <<upload, counter, queue, inflight, user, answered, told>>

\* Mutant: a failing complete request is not looked at.
VerdictUnchecked(r) ==
  LET u == UploadOf(r) IN
  IF PartOf(r) = CreateId THEN [success |-> FALSE, origin |-> <<u, CreateId>>]
  ELSE IF final[u] = "delete" THEN [success |-> FALSE, origin |-> <<u, errorId[u]>>]
  ELSE [success |-> TRUE, origin |-> <<u, CreateId>>]

\* What the user's callback finds in the result of the opening request:
\* Cancelled with originError, the failure of that request, or success.
Verdict(r) ==
  LET u == UploadOf(r) IN
  IF PartOf(r) = CreateId THEN [success |-> FALSE, origin |-> <<u, CreateId>>]
  ELSE IF final[u] = "delete" THEN [success |-> FALSE, origin |-> <<u, errorId[u]>>]
  ELSE IF ~ job[r].ok THEN [success |-> FALSE, origin |-> <<u, FinalId>>]
  ELSE [success |-> TRUE, origin |-> <<u, CreateId>>]

\* ... and then call back.
Tell(r) ==
  /\ At(r, "tell")
  /\ told' = [told EXCEPT ![UploadOf(r)] = Append(@, Verdict(r))]
  /\ Return(r)
  /\ UNCHANGED <<upload, counter, completed, queue, inflight, user, answered>>

CallbackStep(r) ==
  /\ UNCHANGED sync
  /\ \/ Finish(r)
     \/ BuildParts(r)
     \/ OfferParts(r)
     \/ StoreTag(r)
     \/ StoreError(r)
     \/ StoreAborted(r)
     \/ Decrement(r)
     \/ BuildFinal(r)
     \/ OfferFinal(r)
     \/ Count(r)
     \/ Tell(r)

Next ==
  \/ UserStep
  \/ Take
  \/ \E r \in Receivers : CallbackStep(r)

Spec == Init /\ [][Next]_vars

\* The user's thread keeps calling, as processAsync asks for, and the receivers
\* run; what a request in flight waits for is their timeout at the latest.
FairSpec ==
  /\ Spec
  /\ WF_vars(UserStep)
  /\ WF_vars(Take)
  /\ \A r \in Receivers : WF_vars(CallbackStep(r))

-----------------------------------------------------------------------------
(* Types and control. *)

Places == {"none", "build", "open", "tag", "blame", "abort", "decrement", "judge",
           "validate", "count", "tell"}

Verdicts == [success : BOOLEAN, origin : Requests]
Jobs == [at : Places, request : Requests \cup {NoJob.request}, ok : BOOLEAN]

TypeOK ==
  /\ state \in [Uploads -> States]
  /\ outstanding \in [Uploads -> Int]
  /\ eTags \in [Uploads -> SUBSET PartIds]
  /\ errorId \in [Uploads -> 0 .. Parts]
  /\ built \in [Uploads -> SUBSET (CreateId .. FinalId)]
  /\ final \in [Uploads -> {"none", "complete", "delete"}]
  /\ counter \in 0 .. N
  /\ completed \in Nat
  /\ queue \in Seq(Requests)
  /\ inflight \in [Requests -> Nat]
  /\ job \in [Receivers -> Jobs]
  /\ sync \in BOOLEAN
  /\ pc \in {"idle", "scan", "claim", "rollback", "undo", "drain", "returned"}
  /\ cursor \in 0 .. N + 1
  /\ seen \in States
  /\ collected \in Seq(Requests)
  /\ previous \in 0 .. N
  /\ failures \in Nat
  /\ answered \in [Requests -> {"no", "ok", "failed"}]
  /\ told \in [Uploads -> Seq(Verdicts)]

\* No send has failed yet: what a failed one takes back by mistake is the subject
\* of RollbackOnlyClaimed.
NoSendFailed == failures = 0

In(m, s) == \E k \in DOMAIN s : s[k] = m

\* The request has not been handed to the receivers.
Unsent(m) == ~ In(m, queue) /\ inflight[m] = 0 /\ answered[m] = "no"

\* Where the user's thread can be, and what it has in hand there.
UserOK ==
  /\ pc \in {"scan", "claim", "rollback", "undo"} => cursor >= 1
  /\ pc \in {"claim", "undo"} => cursor <= N
  /\ pc \in {"rollback", "undo"} => ~ NoSendFailed
  /\ pc \in {"scan", "claim"} => counter = N
  /\ pc \in {"drain", "returned"} => sync
  /\ sync => NoSendFailed
  /\ pc \in {"idle", "drain", "returned"} => collected = <<>>

\* The place a callback is at fits its request and how that ended.
JobOK(r) ==
  LET m == job[r].request IN
  /\ job[r].at = "none" <=> job[r] = NoJob
  /\ job[r].at # "none" => m \in Requests /\ answered[m] # "no"
  /\ job[r].at \in {"build", "open"} => m[2] = CreateId /\ job[r].ok
  /\ job[r].at = "tag" => m[2] \in PartIds /\ job[r].ok
  /\ job[r].at \in {"blame", "abort"} => m[2] \in PartIds /\ ~ job[r].ok
  /\ job[r].at \in {"decrement", "judge", "validate"} => m[2] \in PartIds
  /\ job[r].at \in {"count", "tell"} => m[2] = FinalId \/ (m[2] = CreateId /\ ~ job[r].ok)
  /\ job[r].at = "open" => PartIds \subseteq built[m[1]]

\* The opening requests are sent in order, however many sends fail: those counted
\* by the last call that succeeded, and of the others at most collected.
Handed == IF pc \in {"scan", "claim"} THEN previous ELSE counter

OpenedOK(u) ==
  LET m == <<u, CreateId>> IN
  /\ u <= Handed => ~ Unsent(m)
  /\ u > Handed => Unsent(m) /\ (pc \in {"scan", "claim"} => In(m, collected))
  /\ u <= Handed /\ pc \in {"scan", "claim"} => ~ In(m, collected)

ControlOK ==
  /\ UserOK
  /\ \A r \in Receivers : JobOK(r)
  /\ \A u \in Uploads : OpenedOK(u)

-----------------------------------------------------------------------------
(* The requests and the uploads, as long as no send has failed. *)

Distinct(s) == \A j, k \in DOMAIN s : s[j] = s[k] => j = k

\* A request is in one place: collected, queued, in flight, in a callback or ended.
RequestOK(m) ==
  /\ inflight[m] <= 1
  /\ In(m, queue) \/ inflight[m] = 1 => answered[m] = "no"
  /\ In(m, queue) => inflight[m] = 0
  /\ In(m, collected) => Unsent(m)

RequestsOK ==
  /\ Distinct(queue)
  /\ Distinct(collected)
  /\ \A m \in Requests : RequestOK(m)

\* What the user's thread has seen is still so when it claims it.
ClaimOK == pc = "claim" => seen = state[cursor] /\ seen \in {"Sending", "Validating"}

\* One callback of a request, which knows how it ended; and of an upload one that
\* ends it.
CallbacksOK ==
  /\ \A r \in Receivers : job[r].at # "none" =>
       answered[job[r].request] = IF job[r].ok THEN "ok" ELSE "failed"
  /\ \A r, q \in Receivers :
       /\ job[r].at # "none" /\ job[r].request = job[q].request => r = q
       /\ /\ job[r].at \in {"judge", "validate"}
          /\ job[q].at \in {"judge", "validate"}
          /\ job[r].request[1] = job[q].request[1]
          => r = q

Working(u, places) == \E r \in Receivers : job[r].at \in places /\ job[r].request[1] = u
WorkingOn(m, places) == \E r \in Receivers : job[r].at \in places /\ job[r].request = m

\* The request is neither sent nor, but for the claim that is under way, collected.
Waits(m) == Unsent(m) /\ (In(m, collected) => pc = "claim" /\ cursor = m[1])

\* The state of an upload tells which of its requests have been sent.
StateOK(u) ==
  /\ CreateId \in built[u]
  /\ state[u] # "Default" \/ final[u] # "none" =>
       /\ answered[<<u, CreateId>>] = "ok"
       /\ ~ WorkingOn(<<u, CreateId>>, Places \ {"none"})
       /\ PartIds \subseteq built[u]
  /\ state[u] = "Default" /\ final[u] = "none" =>
       \A i \in PartIds : Waits(<<u, i>>) /\ ~ In(<<u, i>>, collected)
  /\ state[u] = "Sending" => final[u] = "none" /\ \A i \in PartIds : Waits(<<u, i>>)
  /\ state[u] = "Validating" => final[u] # "none" /\ ~ Working(u, {"judge", "validate"})
  /\ final[u] = "none" \/ state[u] # "Default" => Waits(<<u, FinalId>>)
  /\ final[u] = "none" \/ state[u] \notin {"Default", "Validating"} =>
       ~ In(<<u, FinalId>>, collected)
  /\ final[u] # "none" => outstanding[u] = 0 /\ FinalId \in built[u]
  /\ Working(u, {"judge", "validate"}) => outstanding[u] = 0
  /\ Working(u, {"judge"}) => final[u] = "none"
  /\ Working(u, {"validate"}) => final[u] # "none" /\ state[u] \in {"Processing", "Aborted"}

\* What the callbacks of the parts have left behind: which failed, which have a tag.
PartsOK(u) ==
  /\ \A i \in PartIds :
       /\ answered[<<u, i>>] = "ok" => i \in eTags[u] \/ WorkingOn(<<u, i>>, {"tag"})
       /\ answered[<<u, i>>] = "failed" =>
            state[u] = "Aborted" \/ final[u] = "delete" \/ WorkingOn(<<u, i>>, {"blame", "abort"})
  /\ errorId[u] # 0 => answered[<<u, errorId[u]>>] = "failed"
  /\ state[u] = "Aborted" \/ final[u] = "delete" \/ Working(u, {"abort"}) => errorId[u] # 0
  /\ final[u] = "complete" =>
       eTags[u] = PartIds /\ \A i \in PartIds : answered[<<u, i>>] # "failed"

\* The parts of u that outstanding still counts.
Pending(u) ==
  {i \in PartIds : answered[<<u, i>>] = "no"
                     \/ WorkingOn(<<u, i>>, {"tag", "blame", "abort", "decrement"})}

\* The request of u that ends it: the opening one failed, or the final one ended.
EndedBy(u) == answered[<<u, CreateId>>] = "failed" \/ answered[<<u, FinalId>>] # "no"

\* What the user was told of u.
ToldOK(u) ==
  /\ Len(told[u]) <= 1
  /\ told[u] # <<>> => EndedBy(u) /\ ~ Working(u, {"count", "tell"})
  /\ \A k \in DOMAIN told[u] :
       IF told[u][k].success
         THEN final[u] = "complete" /\ answered[<<u, FinalId>>] = "ok"
         ELSE answered[told[u][k].origin] = "failed"

\* The uploads that completed counts.
Counted == {u \in Uploads : told[u] # <<>> \/ Working(u, {"tell"})}

CountsOK ==
  /\ \A u \in Uploads : outstanding[u] = Cardinality(Pending(u))
  /\ completed = Cardinality(Counted)
  /\ pc = "returned" => \A u \in Uploads : told[u] # <<>>

\* The inductive invariant.
IndInv ==
  /\ TypeOK
  /\ ControlOK
  /\ NoSendFailed =>
       /\ RequestsOK
       /\ ClaimOK
       /\ CallbacksOK
       /\ \A u \in Uploads : StateOK(u) /\ PartsOK(u) /\ ToldOK(u)
       /\ CountsOK

\* All parts of an upload are collected, or none.
Together(u) == \A i, j \in PartIds : In(<<u, i>>, collected) => In(<<u, j>>, collected)

\* No request of u is with the receivers.
Quiet(u) ==
  \A i \in CreateId .. FinalId :
    LET m == <<u, i>> IN
    ~ In(m, queue) /\ inflight[m] = 0 /\ ~ WorkingOn(m, Places \ {"none"})

\* The first failed send, while it is rolled back: nobody but the rollback writes the
\* state of an upload it has collected from, so what it loads and stores is what it claimed.
RollbackOK ==
  failures = 1 /\ pc \in {"rollback", "undo"} =>
    \A u \in Uploads, i \in CreateId .. FinalId : In(<<u, i>>, collected) =>
      IF i = CreateId THEN u > counter
      ELSE LET due == IF i = FinalId THEN "Validating" ELSE "Sending" IN
           /\ Quiet(u)
           /\ state[u] = IF u < cursor THEN due ELSE Claimed(due)
           /\ pc = "undo" /\ u = cursor => seen = state[u]

\* The inductive invariant of the first failed send.
RollbackInv ==
  /\ IndInv
  /\ NoSendFailed => \A u \in Uploads : Together(u)
  /\ RollbackOK

-----------------------------------------------------------------------------

\* How many copies of a request are queued, in flight or in a callback.
Copies(m) ==
  Cardinality({k \in DOMAIN queue : queue[k] = m}) + inflight[m]
    + Cardinality({r \in Receivers : job[r].request = m /\ job[r] # NoJob})

\* No request is worked on by two receivers, or again after its callback: two
\* copies would share one result buffer.
SubmittedOnce ==
  NoSendFailed => \A m \in Requests :
    /\ Copies(m) <= 1
    /\ m \in {queue[k] : k \in DOMAIN queue} => answered[m] = "no"

\* Every request handed to the receivers has been built: a state is offered
\* only after the messages it stands for.
SubmittedExists ==
  NoSendFailed => \A k \in DOMAIN queue : queue[k][2] \in built[queue[k][1]]

\* The parts of u whose callback has begun (and how it ended).
Ended(u, how) == {i \in PartIds : answered[<<u, i>>] = how}

\* The final request is built only when every part has ended, and it is the
\* right one: complete only with the eTag of every part, delete only if a part
\* failed.
FinalIsRight ==
  NoSendFailed => \A u \in Uploads :
    /\ final[u] = "complete" => eTags[u] = PartIds /\ Ended(u, "failed") = {}
    /\ final[u] = "delete" => Ended(u, "failed") # {} /\ Ended(u, "no") = {}

\* The user's callback runs at most once for an upload, and tells the truth:
\* success iff the complete request succeeded, otherwise a request that failed.
ToldOnceAndTruly ==
  NoSendFailed => \A u \in Uploads :
    /\ Len(told[u]) <= 1
    /\ \A k \in DOMAIN told[u] :
         LET verdict == told[u][k] IN
         IF verdict.success
           THEN final[u] = "complete" /\ answered[<<u, FinalId>>] = "ok"
           ELSE answered[verdict.origin] = "failed"

\* The parts of the upload that the server has.
Stored(u) == Ended(u, "ok")

\* An upload that its callback is told has succeeded has all bytes of the object stored, each
\* by one part and in the order of the parts, which is what completing it joins them by, even
\* if the number of parts was cut (transaction.hpp:211); and as long as it fits 16 bits, what
\* is built is neither empty nor larger than the split size.
StoredWhole ==
  \A u \in Uploads :
    /\ PartsNeeded < Width =>
         \A i \in built[u] \cap PartIds : Bytes(i) # {} /\ Cardinality(Bytes(i)) <= SplitSize
    /\ NoSendFailed /\ (\E k \in DOMAIN told[u] : told[u][k].success) =>
         /\ UNION {Bytes(i) : i \in Stored(u)} = 0 .. ObjectSize - 1
         /\ \A i, j \in Stored(u) : i < j => \A x \in Bytes(i), y \in Bytes(j) : x < y

\* When processSync returns, every upload has had its callback.
ReturnsComplete ==
  pc = "returned" => \A u \in Uploads : Len(told[u]) = 1

\* A failed send takes back only what this call has claimed ("we need to reset
\* the message counter and the multipart uploads", transaction.cpp:70).
RollbackOnlyClaimed ==
  pc = "undo" => \E k \in DOMAIN collected : collected[k][1] = cursor /\ collected[k][2] # CreateId

\* Whether the opening request of u was handed to the receivers.
Opened(u) == Copies(<<u, CreateId>>) > 0 \/ answered[<<u, CreateId>>] # "no"

\* Between two calls _messageCounter counts exactly the opening requests handed
\* over, however many sends have failed.
CounterIsTrue ==
  pc = "idle" => \A u \in Uploads : Opened(u) <=> u <= counter

\* The requests are accounted for: each is with the receivers at most once and only
\* after it was built, _messageCounter counts what was handed over, and processSync
\* returns to uploads that have all been told.
Inv ==
  /\ IndInv
  /\ SubmittedOnce
  /\ SubmittedExists
  /\ CounterIsTrue
  /\ ReturnsComplete

\* A first failed send forgets nothing: what it has collected is due again.  (A later one
\* may: the first has offered uploads it had not collected, see RollbackOnlyClaimed.)
NothingForgotten ==
  [][RolledBack /\ failures = 1 =>
       \A k \in DOMAIN collected :
         LET u == collected[k][1] IN
         CASE collected[k][2] = CreateId -> u > counter
           [] collected[k][2] = FinalId  -> state[u] = "Validating"
           [] OTHER                      -> state[u] = "Sending"]_vars

\* Every upload ends with its callback, whatever fails.
EveryUploadTold == \A u \in Uploads : <>(told[u] # <<>> \/ ~ NoSendFailed)

\* processSync returns.
SyncReturns == sync => <>(pc = "returned")

=============================================================================
