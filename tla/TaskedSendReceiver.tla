-------------------------- MODULE TaskedSendReceiver --------------------------
(***************************************************************************)
(* network::TaskedSendReceiver, its group and its handle                   *)
(* (include/network/tasked_send_receiver.hpp,                              *)
(* src/network/tasked_send_receiver.cpp).                                  *)
(*                                                                         *)
(* Users put messages into the group's queue (send) or into the queue of   *)
(* one receiver (sendSync).  A receiver that runs sendReceive takes them,  *)
(* keeps a task for each, and lets the tasks prepare operations on its     *)
(* socket; every completed operation makes its task go on.  Receivers meet *)
(* in the group's queue, whose operations are atomic (module RingBuffer    *)
(* implements BoundedQueue); a receiver and its users meet in _stopDeamon. *)
(* The socket is the kernel's io_uring: completions come in any order.     *)
(***************************************************************************)
EXTENDS Integers, Sequences, FiniteSets

CONSTANTS
  Messages,            \* the messages users send, each of them once
  Receivers,           \* the receivers
  Capacity,            \* the size of the group's queue
  ConcurrentRequests,  \* _concurrentRequests: the tasks a receiver has at once
  MaxRounds,           \* bound: how often a task goes on before it ends
  MaxCalls,            \* bound: the calls of sendReceive of one receiver
  MaxStops,            \* bound: the calls of stop of one receiver
  MaxSubmitErrors      \* bound: how often the kernel refuses a submission

ASSUME TaskedAssumption ==
  /\ Capacity \in Nat
  /\ ConcurrentRequests \in Nat \ {0}
  /\ {MaxRounds, MaxCalls, MaxStops, MaxSubmitErrors} \subseteq Nat

\* A submission queue entry: the operation that the task of a message waits for in some
\* round, or the timeout that is linked to it.
Entries == [message : Messages, round : 0 .. MaxRounds, kind : {"operation", "timeout"}]

RingEntries == 4 * ConcurrentRequests  \* _concurrentRequests << 2

VARIABLES
  queue,     \* _group._submissions
  inserted,  \* how many messages were ever put there
  local,     \* _submissions of each receiver
  sent,      \* the messages users have sent
  rounds,    \* how often the task of a message has gone on
  told,      \* how often the callback of a message has run
  pc,        \* where sendReceive is
  isLocal,   \* its argument local
  oneQueue,  \* its argument oneQueueInvocation
  stop,      \* _stopDeamon
  thrown,    \* firstException is set
  broken,    \* _connectionManager is null
  count,     \* count
  tasks,     \* _messageTasks
  prepared,  \* the entries prepared and not yet submitted
  flying,    \* the entries submitted and not yet completed
  asked,     \* what empty() loaded first
  calls,     \* the calls of sendReceive
  stops,     \* the calls of stop
  errors     \* the submissions the kernel has refused

group == <<queue, inserted>>
users == <<local, sent>>
progress == <<rounds, told>>
arguments == <<isLocal, oneQueue>>
ring == <<prepared, flying>>
bounds == <<calls, stops, errors>>
vars == <<group, users, progress, pc, arguments, stop, thrown, broken, count, tasks, ring,
          asked, bounds>>

Init ==
  /\ queue = <<>>
  /\ inserted = 0
  /\ local = [r \in Receivers |-> <<>>]
  /\ sent = {}
  /\ rounds = [m \in Messages |-> 0]
  /\ told = [m \in Messages |-> 0]
  /\ pc = [r \in Receivers |-> "idle"]
  /\ isLocal = [r \in Receivers |-> FALSE]
  /\ oneQueue = [r \in Receivers |-> TRUE]
  /\ stop = [r \in Receivers |-> FALSE]
  /\ thrown = [r \in Receivers |-> FALSE]
  /\ broken = [r \in Receivers |-> FALSE]
  /\ count = [r \in Receivers |-> 0]
  /\ tasks = [r \in Receivers |-> {}]
  /\ prepared = [r \in Receivers |-> {}]
  /\ flying = [r \in Receivers |-> {}]
  /\ asked = [r \in Receivers |-> 0]
  /\ calls = [r \in Receivers |-> 0]
  /\ stops = [r \in Receivers |-> 0]
  /\ errors = 0

Goto(r, from, to) == pc[r] = from /\ pc' = [pc EXCEPT ![r] = to]

-----------------------------------------------------------------------------
(* The users. *)

\* TaskedSendReceiverGroup::send that finds room; one that does not changes
\* nothing.  Any thread may send, a callback too.
Send(m) ==
  /\ m \notin sent
  /\ Len(queue) < Capacity
  /\ sent' = sent \cup {m}
  /\ queue' = Append(queue, m)
  /\ inserted' = inserted + 1
  /\ UNCHANGED <<local, progress, pc, arguments, stop, thrown, broken, count, tasks, ring,
                 asked, bounds>>

\* sendSync: the queue of a receiver belongs to the thread that runs it.
SendSync(r, m) ==
  /\ m \notin sent
  /\ pc[r] = "idle"
  /\ ~ broken[r]
  /\ sent' = sent \cup {m}
  /\ local' = [local EXCEPT ![r] = Append(@, m)]
  /\ UNCHANGED <<group, progress, pc, arguments, stop, thrown, broken, count, tasks, ring,
                 asked, bounds>>

\* process and processSync: sendReceive is entered.
Call(r) ==
  /\ calls[r] < MaxCalls
  /\ ~ broken[r]
  /\ Goto(r, "idle", "called")
  /\ calls' = [calls EXCEPT ![r] = @ + 1]
  /\ \E byLocal, untilEmpty \in BOOLEAN :
       /\ isLocal' = [isLocal EXCEPT ![r] = byLocal]
       /\ oneQueue' = [oneQueue EXCEPT ![r] = untilEmpty]
  /\ UNCHANGED <<group, users, progress, stop, thrown, broken, count, tasks, ring, asked,
                 stops, errors>>

\* TaskedSendReceiverHandle::stop, by any thread.
Stop(r) ==
  /\ stops[r] < MaxStops
  /\ stops' = [stops EXCEPT ![r] = @ + 1]
  /\ stop' = [stop EXCEPT ![r] = TRUE]
  /\ UNCHANGED <<group, users, progress, pc, arguments, thrown, broken, count, tasks, ring,
                 asked, calls, errors>>

-----------------------------------------------------------------------------
(* sendReceive. *)

\* The flag is reset, the locals are set up.
Enter(r) ==
  /\ Goto(r, "called", "loop")
  /\ stop' = [stop EXCEPT ![r] = FALSE]
  /\ thrown' = [thrown EXCEPT ![r] = FALSE]
  /\ count' = [count EXCEPT ![r] = 0]
  /\ UNCHANGED <<group, users, progress, arguments, broken, tasks, ring, asked, bounds>>

\* Mutants: the loop does not wait for what is in flight, or serves the queue
\* before it stops.
KeepsGoingUnlessStopped(r) == ~ stop[r]
KeepsGoingForQueue(r) == ~ stop[r] \/ count[r] > 0 \/ queue # <<>>

\* The condition of the loop.
KeepsGoing(r) == ~ stop[r] \/ count[r] > 0

Loop(r) ==
  /\ KeepsGoing(r)
  /\ Goto(r, "loop", IF count[r] > 0 THEN "complete" ELSE "fill")
  /\ UNCHANGED <<group, users, progress, arguments, stop, thrown, broken, count, tasks, ring,
                 asked, bounds>>

\* After the loop: a run until the queue is empty resets the flag, and an
\* exception costs the receiver its connections before it is rethrown.
Leave(r) ==
  /\ ~ KeepsGoing(r)
  /\ Goto(r, "loop", "idle")
  /\ stop' = [stop EXCEPT ![r] = @ /\ ~ oneQueue[r]]
  /\ broken' = [broken EXCEPT ![r] = thrown[r]]
  /\ UNCHANGED <<group, users, progress, arguments, thrown, count, tasks, ring, asked, bounds>>

\* Mutant: a timeout's completion is skipped before it is counted.
CompleteTimeoutUncounted(r) ==
  /\ Goto(r, "complete", "loop")
  /\ \E e \in flying[r] :
       /\ e.kind = "timeout"
       /\ flying' = [flying EXCEPT ![r] = @ \ {e}]
  /\ UNCHANGED <<group, users, progress, arguments, stop, thrown, broken, count, tasks,
                 prepared, asked, bounds>>

\* complete returns the completion of a linked timeout, which belongs to no
\* task: the rest of the round is skipped.
CompleteTimeout(r) ==
  /\ Goto(r, "complete", "loop")
  /\ \E e \in flying[r] :
       /\ e.kind = "timeout"
       /\ flying' = [flying EXCEPT ![r] = @ \ {e}]
  /\ count' = [count EXCEPT ![r] = @ - 1]
  /\ UNCHANGED <<group, users, progress, arguments, stop, thrown, broken, tasks, prepared,
                 asked, bounds>>

\* complete returns a completed operation of m: its task is executed.
Completed(r, m) ==
  /\ Goto(r, "complete", "fill")
  /\ \E e \in flying[r] :
       /\ e.kind = "operation" /\ e.message = m
       /\ flying' = [flying EXCEPT ![r] = @ \ {e}]
  /\ count' = [count EXCEPT ![r] = @ - 1]

\* The entries of an operation of m: one, and one more if it is given a timeout.
Operation(m, round, timed) ==
  {[message |-> m, round |-> round, kind |-> kind] :
     kind \in {"operation"} \cup IF timed THEN {"timeout"} ELSE {}}

\* execute prepares the task's next operation.
TaskGoesOn(r, m) ==
  /\ Completed(r, m)
  /\ rounds[m] < MaxRounds
  /\ rounds' = [rounds EXCEPT ![m] = @ + 1]
  /\ \E timed \in BOOLEAN :
       prepared' = [prepared EXCEPT ![r] = @ \cup Operation(m, rounds[m] + 1, timed)]
  /\ UNCHANGED <<group, users, told, arguments, stop, thrown, broken, tasks, asked, bounds>>

\* Mutant: the task stays in the list.
TaskEndsUnerased(r, m) ==
  /\ Completed(r, m)
  /\ told' = [told EXCEPT ![m] = @ + 1]
  /\ UNCHANGED <<group, users, rounds, arguments, stop, thrown, broken, tasks, prepared, asked,
                 bounds>>

\* execute ends the task (Finished or Aborted): its callback runs, then the
\* task is erased.
TaskEnds(r, m) ==
  /\ Completed(r, m)
  /\ told' = [told EXCEPT ![m] = @ + 1]
  /\ tasks' = [tasks EXCEPT ![r] = @ \ {m}]
  /\ UNCHANGED <<group, users, rounds, arguments, stop, thrown, broken, prepared, asked, bounds>>

\* execute throws, or ends the task and its callback throws: the exception is
\* kept for the end of sendReceive, the task stays in the list.
TaskThrows(r, m) ==
  /\ Completed(r, m)
  /\ thrown' = [thrown EXCEPT ![r] = TRUE]
  /\ \E called \in BOOLEAN : told' = [told EXCEPT ![m] = IF called THEN @ + 1 ELSE @]
  /\ UNCHANGED <<group, users, rounds, arguments, stop, broken, tasks, prepared, asked, bounds>>

\* Mutants: the number of tasks is not looked at, or off by one.
MayAcceptAnyNumber(r) == ~ stop[r] /\ ~ thrown[r]
MayAcceptOneLess(r) ==
  ~ stop[r] /\ Cardinality(tasks[r]) + 1 < ConcurrentRequests /\ ~ thrown[r]

\* Whether new messages are taken in this round.
MayAccept(r) == ~ stop[r] /\ Cardinality(tasks[r]) < ConcurrentRequests /\ ~ thrown[r]

Fill(r) ==
  /\ Goto(r, "fill", IF MayAccept(r) THEN "emplace" ELSE "submit")
  /\ UNCHANGED <<group, users, progress, arguments, stop, thrown, broken, count, tasks, ring,
                 asked, bounds>>

\* The queue that this call serves.
Source(r) == IF isLocal[r] THEN local[r] ELSE queue

\* Mutant: the local queue's front is read and not popped.
TakenNotPopped(r, m) ==
  /\ Source(r) # <<>>
  /\ m = Head(Source(r))
  /\ IF isLocal[r]
       THEN UNCHANGED <<local, queue>>
       ELSE queue' = Tail(queue) /\ UNCHANGED local

\* The next message is taken: m, for which a task is built.
Taken(r, m) ==
  /\ Source(r) # <<>>
  /\ m = Head(Source(r))
  /\ IF isLocal[r]
       THEN local' = [local EXCEPT ![r] = Tail(@)] /\ UNCHANGED queue
       ELSE queue' = Tail(queue) /\ UNCHANGED local

\* The first execute connects and prepares the first operation; the task joins
\* the list, and the next message is taken if there is room for it.
EmplaceStarts(r, m) ==
  /\ Taken(r, m)
  /\ tasks' = [tasks EXCEPT ![r] = @ \cup {m}]
  /\ \E timed \in BOOLEAN :
       prepared' = [prepared EXCEPT ![r] = @ \cup Operation(m, rounds[m], timed)]
  /\ Goto(r, "emplace",
          IF Cardinality(tasks'[r]) >= ConcurrentRequests THEN "submit" ELSE "emplace")
  /\ UNCHANGED <<inserted, sent, progress, arguments, stop, thrown, broken, count, flying,
                 asked, bounds>>

\* Mutant: the message is dropped without its callback.
EmplaceAbortsSilently(r, m) ==
  /\ Goto(r, "emplace", "emplace")
  /\ Taken(r, m)
  /\ UNCHANGED <<inserted, sent, progress, arguments, stop, thrown, broken, count, tasks,
                 ring, asked, bounds>>

\* No connection could be made: the message ends at once.
EmplaceAborts(r, m) ==
  /\ Goto(r, "emplace", "emplace")
  /\ Taken(r, m)
  /\ told' = [told EXCEPT ![m] = @ + 1]
  /\ UNCHANGED <<inserted, sent, rounds, arguments, stop, thrown, broken, count, tasks, ring,
                 asked, bounds>>

\* The first execute throws, or the callback of an aborted message does: the
\* task is destroyed.
EmplaceThrows(r, m) ==
  /\ Goto(r, "emplace", "submit")
  /\ Taken(r, m)
  /\ thrown' = [thrown EXCEPT ![r] = TRUE]
  /\ \E called \in BOOLEAN : told' = [told EXCEPT ![m] = IF called THEN @ + 1 ELSE @]
  /\ UNCHANGED <<inserted, sent, rounds, arguments, stop, broken, count, tasks, ring, asked,
                 bounds>>

\* The queue is empty.
EmplaceEnds(r) ==
  /\ Goto(r, "emplace", "submit")
  /\ Source(r) = <<>>
  /\ UNCHANGED <<group, users, progress, arguments, stop, thrown, broken, count, tasks, ring,
                 asked, bounds>>

\* submit hands over what is prepared.  What follows only matters to a call
\* that ends with its queue, when nothing is in flight.
Submit(r) ==
  /\ flying' = [flying EXCEPT ![r] = @ \cup prepared[r]]
  /\ prepared' = [prepared EXCEPT ![r] = {}]
  /\ count' = [count EXCEPT ![r] = @ + Cardinality(prepared[r])]
  /\ Goto(r, "submit", IF oneQueue[r] /\ count'[r] = 0 THEN "askInserted" ELSE "loop")
  /\ UNCHANGED <<group, users, progress, arguments, stop, thrown, broken, tasks, asked, bounds>>

\* The kernel refuses: sendReceive throws from within its loop.
SubmitFails(r) ==
  /\ errors < MaxSubmitErrors
  /\ errors' = errors + 1
  /\ Goto(r, "submit", "idle")
  /\ UNCHANGED <<group, users, progress, arguments, stop, thrown, broken, count, tasks, ring,
                 asked, calls, stops>>

\* RingBuffer::empty is two loads: how many were inserted ...
AskInserted(r) ==
  /\ Goto(r, "askInserted", "askSeen")
  /\ asked' = [asked EXCEPT ![r] = inserted]
  /\ UNCHANGED <<group, users, progress, arguments, stop, thrown, broken, count, tasks, ring,
                 bounds>>

\* Mutant: the queue is not looked at.
FoundEmptyUnseen(r) == TRUE

\* ... and how many were taken.
FoundEmpty(r) ==
  IF isLocal[r] THEN local[r] = <<>> ELSE asked[r] = inserted - Len(queue)

AskSeen(r) ==
  /\ Goto(r, "askSeen", "loop")
  /\ stop' = [stop EXCEPT ![r] = @ \/ FoundEmpty(r) \/ thrown[r]]
  /\ UNCHANGED <<group, users, progress, arguments, thrown, broken, count, tasks, ring, asked,
                 bounds>>

Step(r) ==
  \/ Enter(r)
  \/ Loop(r)
  \/ Leave(r)
  \/ CompleteTimeout(r)
  \/ \E m \in Messages :
       \/ TaskGoesOn(r, m)
       \/ TaskEnds(r, m)
       \/ TaskThrows(r, m)
       \/ EmplaceStarts(r, m)
       \/ EmplaceAborts(r, m)
       \/ EmplaceThrows(r, m)
  \/ Fill(r)
  \/ EmplaceEnds(r)
  \/ Submit(r)
  \/ SubmitFails(r)
  \/ AskInserted(r)
  \/ AskSeen(r)

Next ==
  \/ \E m \in Messages : Send(m)
  \/ \E r \in Receivers :
       \/ \E m \in Messages : SendSync(r, m)
       \/ Call(r)
       \/ Stop(r)
       \/ Step(r)

Spec == Init /\ [][Next]_vars

\* A thread inside sendReceive runs on; an operation in flight completes, by its
\* timeout at the latest.  Nobody is obliged to send, to call or to stop.
FairSpec == Spec /\ \A r \in Receivers : WF_vars(Step(r))

-----------------------------------------------------------------------------

Places == {"idle", "called", "loop", "complete", "fill", "emplace", "submit",
           "askInserted", "askSeen"}

TypeOK ==
  /\ queue \in Seq(Messages) /\ Len(queue) <= Capacity /\ inserted \in Nat
  /\ local \in [Receivers -> Seq(Messages)]
  /\ sent \in SUBSET Messages
  /\ rounds \in [Messages -> 0 .. MaxRounds]
  /\ told \in [Messages -> Nat]
  /\ pc \in [Receivers -> Places]
  /\ isLocal \in [Receivers -> BOOLEAN] /\ oneQueue \in [Receivers -> BOOLEAN]
  /\ stop \in [Receivers -> BOOLEAN]
  /\ thrown \in [Receivers -> BOOLEAN] /\ broken \in [Receivers -> BOOLEAN]
  /\ count \in [Receivers -> Nat]
  /\ tasks \in [Receivers -> SUBSET Messages]
  /\ prepared \in [Receivers -> SUBSET Entries] /\ flying \in [Receivers -> SUBSET Entries]
  /\ \A r \in Receivers :
       IsFiniteSet(tasks[r]) /\ IsFiniteSet(prepared[r]) /\ IsFiniteSet(flying[r])
  /\ asked \in [Receivers -> Nat]
  /\ calls \in [Receivers -> Nat] /\ stops \in [Receivers -> Nat] /\ errors \in Nat

Running(r) == pc[r] \notin {"idle", "called"}

\* No submission has failed yet; one that fails leaves sendReceive in the middle.
NoSubmitFailed == errors = 0

\* count is what the kernel still owes the receiver: complete never waits for a
\* completion that cannot come, and none is left over when the loop ends.
CountMatches(r) ==
  NoSubmitFailed /\ Running(r) => count[r] = Cardinality(flying[r])

\* The operations of m that a receiver's ring has, prepared or submitted.
Operations(r, m) ==
  {e \in prepared[r] \cup flying[r] : e.kind = "operation" /\ e.message = m}

\* A task waits for exactly one operation, unless an exception or a failed
\* submission has left it behind; and no operation belongs to a task that is gone, whose
\* memory the completion would be written to, or whose callback has run.
OneOperationPerTask(r) ==
  \A m \in Messages :
    /\ \A d, e \in Operations(r, m) : d = e
    /\ Operations(r, m) # {} => m \in tasks[r] /\ told[m] = 0
    /\ m \in tasks[r] /\ ~ thrown[r] /\ NoSubmitFailed => Operations(r, m) # {}

\* The ring, made for four entries per task (tasked_send_receiver.cpp:134), never
\* runs out of entries: io_uring_get_sqe's answer is not checked.
RingFits(r) ==
  /\ Cardinality(tasks[r]) <= ConcurrentRequests
  /\ Cardinality(prepared[r]) <= RingEntries

\* sendReceive returns without an exception only when every message it took has
\* had its callback, stopped or not.
ReturnsDrained(r) ==
  NoSubmitFailed /\ pc[r] = "idle" /\ ~ thrown[r]
    => tasks[r] = {} /\ prepared[r] = {} /\ flying[r] = {}

\* The iteration of the loop: what was prepared goes to the kernel before the next
\* completion is waited for, and an exception costs the receiver its connections.
RoundsOrderly(r) ==
  /\ pc[r] \in {"complete", "askInserted", "askSeen"} => (count[r] > 0 <=> pc[r] = "complete")
  /\ pc[r] = "emplace" => Cardinality(tasks[r]) < ConcurrentRequests
  /\ NoSubmitFailed =>
       /\ pc[r] \notin {"fill", "emplace", "submit"} => prepared[r] = {}
       /\ pc[r] = "idle" /\ thrown[r] => broken[r]
       /\ pc[r] = "called" => ~ thrown[r] /\ tasks[r] = {} /\ flying[r] = {}

\* Entries are told apart by their rounds, and a timeout is submitted with its operation.
EntriesApart(r) ==
  /\ prepared[r] \cap flying[r] = {}
  /\ \A e \in prepared[r] \cup flying[r] : e.round <= rounds[e.message]
  /\ \A e \in prepared[r] : [e EXCEPT !.kind = "operation"] \in prepared[r]

\* No receiver has begun to work on m.
Untouched(m) ==
  /\ told[m] = 0
  /\ \A r \in Receivers :
       m \notin tasks[r] /\ \A e \in prepared[r] \cup flying[r] : e.message # m

In(m, s) == \E k \in DOMAIN s : s[k] = m
Once(s) == \A j, k \in DOMAIN s : s[j] = s[k] => j = k

\* A message waits in one place of one queue until a receiver takes it, is worked on by
\* one receiver, and its callback runs at most once, even when sendReceive was left by a
\* submission error and is called again while its operations are still with the kernel.
NothingDuplicated ==
  /\ Once(queue) /\ \A r \in Receivers : Once(local[r])
  /\ \A m \in Messages :
       /\ told[m] <= 1
       /\ m \notin sent => Untouched(m) /\ ~ In(m, queue) /\ \A r \in Receivers : ~ In(m, local[r])
       /\ In(m, queue) => Untouched(m) /\ \A r \in Receivers : ~ In(m, local[r])
       /\ \A r \in Receivers : In(m, local[r]) => Untouched(m)
       /\ \A r, q \in Receivers :
            (In(m, local[r]) /\ In(m, local[q])) \/ (m \in tasks[r] /\ m \in tasks[q]) => r = q

\* The receivers' books are right: the count is what the kernel owes, each task
\* waits for its one operation, the ring has room, nothing is left behind a return,
\* and no message is worked on twice.
Inv ==
  /\ TypeOK
  /\ \A r \in Receivers :
       /\ CountMatches(r)
       /\ OneOperationPerTask(r)
       /\ RingFits(r)
       /\ ReturnsDrained(r)
       /\ RoundsOrderly(r)
       /\ EntriesApart(r)
  /\ NothingDuplicated

\* A message that was sent is somewhere until its callback has run; only an
\* exception can lose it.
NothingLost ==
  NoSubmitFailed => \A m \in sent :
    told[m] > 0 \/ In(m, queue)
      \/ \E r \in Receivers : In(m, local[r]) \/ m \in tasks[r] \/ thrown[r]

\* A run until the queue is empty, not stopped from outside, has at its return
\* left no message behind that was in the group's queue before it last looked,
\* though the answer of empty() may be wrong by then.
ServedOnReturn ==
  NoSubmitFailed => \A r \in Receivers :
    pc[r] = "idle" /\ calls[r] > 0 /\ oneQueue[r] /\ ~ isLocal[r] /\ ~ thrown[r] /\ stops[r] = 0
      => inserted - Len(queue) >= asked[r]

\* A receiver that runs and is told to stop leaves its loop.
StopEnds ==
  \A r \in Receivers : (Running(r) /\ stop[r]) ~> pc[r] = "idle"

\* While a daemon serves the group's queue, every message in it has its callback,
\* unless a receiver is stopped, an exception is thrown or a submission fails.
DaemonServes ==
  \A m \in Messages, r \in Receivers :
    (m \in sent /\ Running(r) /\ ~ oneQueue[r] /\ ~ isLocal[r]
       /\ \A q \in Receivers : local[q] = <<>>)
      ~> (told[m] > 0 \/ \E q \in Receivers : stops[q] > 0 \/ thrown[q] \/ ~ NoSubmitFailed)

=============================================================================
