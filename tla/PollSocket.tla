----------------------------- MODULE PollSocket -----------------------------
(***************************************************************************)
(* network::PollSocket (include/network/poll_socket.hpp,                   *)
(* src/network/poll_socket.cpp): the socket for kernels without io_uring.  *)
(*                                                                         *)
(* The loop of TaskedSendReceiver::sendReceive uses it: requests are       *)
(* prepared, all are submitted, and one is completed, over and over, as    *)
(* long as some are under way.  The kernel makes a descriptor ready, or    *)
(* broken, at any time, and it stays so until its request is performed.    *)
(***************************************************************************)
EXTENDS Integers, FiniteSets, SequencesExt

CONSTANTS
  Fds,         \* the file descriptors
  Timeouts,    \* the timeouts of requests; Never is that of send and recv
  MaxTime,     \* bound of the clock
  MaxRequests  \* bound: how many requests are made

Never == MaxTime + 1

ASSUME PollAssumption ==
  /\ Fds \subseteq Nat \ {0}
  /\ {MaxTime, MaxRequests} \subseteq Nat
  /\ Timeouts \subseteq 1 .. Never

VARIABLES
  ready,        \* ready: requests to return, named by their descriptor
  fdToRequest,  \* fdToRequest: when the request of a descriptor times out
  pollfds,      \* pollfds, in order: the descriptor and its revents
  readyFds,     \* readyFds
  submitted,    \* submitted
  length,       \* what became of a request that is ready
  pit,          \* pit: the entry complete looks at next; None outside of its loop
  currentTime,  \* currentTime
  pc,           \* the receiver is to "prepare" and submit, or in "complete", where it may
                \* "collect" answers
  count,        \* count of the loop: the requests under way
  answered,     \* what complete returned last
  returned,     \* what submit returned last
  now,          \* the clock
  events,       \* the kernel: what a poll of the descriptor shows
  requests      \* the requests so far

iterator == <<pit, currentTime>>
socket == <<ready, fdToRequest, pollfds, readyFds, submitted, length, iterator>>
loop == <<pc, count, answered, returned>>
vars == <<socket, loop, now, events, requests>>

Events == {"none", "ready", "error"}
Results == {"done", "again", "error", "timeout"}
Nobody == 0
None == 0

Init ==
  /\ ready = <<>>
  /\ fdToRequest = <<>>
  /\ pollfds = <<>>
  /\ readyFds = 0
  /\ submitted = 0
  /\ length = [fd \in Fds |-> "none"]
  /\ pit = None
  /\ currentTime = 0
  /\ pc = "prepare"
  /\ count = 0
  /\ answered = [fd |-> Nobody, result |-> "none"]
  /\ returned = 0
  /\ now = 0
  /\ events = [fd \in Fds |-> "none"]
  /\ requests = 0

\* The requests that were prepared and did not come back.
Open == DOMAIN fdToRequest \cup Range(ready)

\* poll: every entry shows what its descriptor has, and the others are counted.
Polled == [k \in DOMAIN pollfds |-> [pollfds[k] EXCEPT !.revents = events[pollfds[k].fd]]]
ReadyCount == Cardinality({k \in DOMAIN pollfds : events[pollfds[k].fd] # "none"})

-----------------------------------------------------------------------------

\* enqueue, by any of the four ways to prepare a request.
Enqueue(fd, timeout) ==
  /\ pc = "prepare"
  /\ requests < MaxRequests
  /\ fd \notin Open
  /\ pollfds' = Append(pollfds, [fd |-> fd, revents |-> "none"])
  /\ fdToRequest' = [f \in DOMAIN fdToRequest \cup {fd} |->
                       IF f = fd THEN IF timeout = Never THEN Never ELSE now + timeout
                       ELSE fdToRequest[f]]
  /\ submitted' = submitted + 1
  /\ requests' = requests + 1
  /\ UNCHANGED <<ready, readyFds, length, iterator, loop, now, events>>

\* submit, which polls without waiting; the loop then completes if there is something.
Submits ==
  /\ pc = "prepare"
  /\ returned' = submitted
  /\ submitted' = 0
  /\ pollfds' = Polled
  /\ readyFds' = ReadyCount
  /\ count' = count + submitted
  /\ pc' = IF count + submitted > 0 THEN "complete" ELSE "prepare"
  /\ UNCHANGED <<ready, fdToRequest, length, iterator, answered, now, events, requests>>

\* Mutant: zero descriptors are not polled again.
MustPollNegative(n) == n < 0

MustPoll(n) == n <= 0

\* complete polls, up to 1 ms, until some descriptor is ready.
Polls ==
  /\ pc = "complete"
  /\ ready = <<>>
  /\ MustPoll(readyFds)
  /\ pollfds' = Polled
  /\ readyFds' = ReadyCount
  /\ UNCHANGED <<ready, fdToRequest, submitted, length, iterator, loop, now, events, requests>>

\* It then looks at every entry, by the time it is now.
Looks ==
  /\ pc = "complete"
  /\ ready = <<>>
  /\ ~ MustPoll(readyFds)
  /\ pit' = 1
  /\ currentTime' = now
  /\ pc' = "collect"
  /\ UNCHANGED <<ready, fdToRequest, pollfds, readyFds, submitted, length, count, answered,
                 returned, now, events, requests>>

Looked ==
  /\ pc = "collect"
  /\ pit > Len(pollfds)
  /\ pit' = None
  /\ currentTime' = 0
  /\ pc' = "complete"
  /\ UNCHANGED <<ready, fdToRequest, pollfds, readyFds, submitted, length, count, answered,
                 returned, now, events, requests>>

Expired(entry) == entry.revents = "none" /\ fdToRequest[entry.fd] < currentTime

\* What becomes of an entry's request: the system call is made, the error is asked for,
\* or the time is up; nothing becomes of the others.
Outcomes(entry) ==
  {result \in Results :
     \/ entry.revents = "ready" /\ result \in {"done", "again", "error"}
     \/ entry.revents = "error" /\ result = "error"
     \/ Expired(entry) /\ result = "timeout"}

Skips ==
  /\ pc = "collect"
  /\ pit <= Len(pollfds)
  /\ Outcomes(pollfds[pit]) = {}
  /\ pit' = pit + 1
  /\ UNCHANGED <<ready, fdToRequest, pollfds, readyFds, submitted, length, currentTime, loop,
                 now, events, requests>>

\* The request becomes ready, its entry goes, and the next takes the place.  The kernel
\* has nothing more to show for a descriptor it was asked about.
Collects ==
  /\ pc = "collect"
  /\ pit <= Len(pollfds)
  /\ LET fd == pollfds[pit].fd
     IN /\ \E result \in Outcomes(pollfds[pit]) : length' = [length EXCEPT ![fd] = result]
        /\ ready' = Append(ready, fd)
        /\ fdToRequest' = [f \in DOMAIN fdToRequest \ {fd} |-> fdToRequest[f]]
        /\ pollfds' = RemoveAt(pollfds, pit)
        /\ events' = IF pollfds[pit].revents = "none" THEN events ELSE [events EXCEPT ![fd] = "none"]
  /\ UNCHANGED <<readyFds, submitted, iterator, loop, now, requests>>

\* Mutant: the first is returned, and the last removed.
TakenMixed(s) == [fd |-> Head(s), rest |-> Front(s)]

\* Mutant: it is not removed.
TakenLeft(s) == [fd |-> Last(s), rest |-> s]

\* back and pop_back.
Taken(s) == [fd |-> Last(s), rest |-> Front(s)]

\* complete returns, and the loop goes on.
Completes ==
  /\ pc = "complete"
  /\ ready # <<>>
  /\ ready' = Taken(ready).rest
  /\ answered' = [fd |-> Taken(ready).fd, result |-> length[Taken(ready).fd]]
  /\ length' = [length EXCEPT ![Taken(ready).fd] = "none"]
  /\ count' = count - 1
  /\ pc' = "prepare"
  /\ UNCHANGED <<fdToRequest, pollfds, readyFds, submitted, iterator, returned, now, events, requests>>

\* The kernel.
Arrives ==
  /\ \E fd \in Fds, e \in Events \ {"none"} :
       /\ events[fd] = "none"
       /\ events' = [events EXCEPT ![fd] = e]
  /\ UNCHANGED <<socket, loop, now, requests>>

Tick ==
  /\ now < MaxTime
  /\ now' = now + 1
  /\ UNCHANGED <<socket, loop, events, requests>>

Loop ==
  \/ Submits
  \/ Polls
  \/ Looks
  \/ Skips
  \/ Collects
  \/ Looked
  \/ Completes

Next ==
  \/ \E fd \in Fds, timeout \in Timeouts : Enqueue(fd, timeout)
  \/ Loop
  \/ Arrives
  \/ Tick

Spec == Init /\ [][Next]_vars

\* The receiver's thread does not stop, and time passes.
FairSpec == Spec /\ WF_vars(Loop) /\ WF_vars(Tick)

-----------------------------------------------------------------------------

\* What the variables hold; the iterator has a place only inside of the loop of complete.
TypeOK ==
  /\ ready \in Seq(Fds)
  /\ fdToRequest \in [DOMAIN fdToRequest -> Nat]
  /\ pollfds \in Seq([fd : Fds, revents : Events])
  /\ {readyFds, submitted, count, currentTime, now} \subseteq Nat
  /\ length \in [Fds -> Results \cup {"none"}]
  /\ events \in [Fds -> Events]
  /\ pc \in {"prepare", "complete", "collect"}
  /\ IF pc = "collect" THEN pit \in 1 .. Len(pollfds) + 1 ELSE pit = None

\* Every request under way has one entry to poll, which its descriptor leads back to
\* (complete throws if it finds none), or is ready to be returned with a result, never
\* both, and the loop counts them all: it neither waits for what is not there nor stops
\* with a request open.
CountsOpen ==
  /\ TypeOK
  /\ \A j, k \in DOMAIN pollfds : pollfds[j].fd = pollfds[k].fd => j = k
  /\ \A j, k \in DOMAIN ready : ready[j] = ready[k] => j = k
  /\ {pollfds[k].fd : k \in DOMAIN pollfds} = DOMAIN fdToRequest
  /\ DOMAIN fdToRequest \cap Range(ready) = {}
  /\ \A k \in DOMAIN ready : length[ready[k]] \in Results
  /\ count + submitted = Len(pollfds) + Len(ready)
  /\ submitted <= Len(pollfds)
  /\ pc # "prepare" => count > 0 /\ submitted = 0

\* A descriptor whose entry was submitted has its request answered: the entries are
\* polled again until it is, and the answered ones leave room for the others.
EventsServed ==
  \A fd \in Fds : fd \in DOMAIN fdToRequest /\ events[fd] # "none" ~> fd \notin DOMAIN fdToRequest

\* The requests not yet submitted are the last entries.
NotSubmitted == {pollfds[k].fd : k \in Len(pollfds) - submitted + 1 .. Len(pollfds)}

Abstract == INSTANCE Socket WITH
  prepared <- NotSubmitted, pending <- Open \ NotSubmitted

\* The poll socket does what the receiver relies on: each request comes back once, and
\* submit tells how many there are.
ImplementsSocket == Abstract!SocketSpec

=============================================================================
