----------------------------- MODULE HTTPMessage -----------------------------
(***************************************************************************)
(* network::HTTPMessage (include/network/http_message.hpp,                 *)
(* src/network/http_message.cpp) with the limits of MessageTask: one       *)
(* request is connected, sent, answered, and retried on a new connection   *)
(* when something fails.                                                   *)
(*                                                                         *)
(* execute runs each time an operation of the task has completed.  It is   *)
(* split where it calls itself; no other thread has a part in it.  The     *)
(* kernel and the server are in the module as well: they complete an       *)
(* operation in part, or not at all.                                       *)
(***************************************************************************)
EXTENDS DataVector, HttpHelper, FiniteSets, SequencesExt

CONSTANTS
  MessageLength,          \* the length of the request's header
  PutLength,              \* putLength: the length of the data sent with it
  ChunkSize,              \* chunkSize
  FailuresMax,            \* failuresMax, 32 in the code
  ConnectionFailuresMax,  \* connectionFailuresMax, 4 in the code
  Capacities,             \* the sizes of the user's receive buffer; 0: there is none
  SupportsResigning,      \* whether the provider signs again after a failure
  Answers,                \* the answers a server may give
  MaxBusy                 \* bound: how often an operation completes with EAGAIN

ASSUME HTTPAssumption ==
  /\ MessageLength \in Nat \ {0}
  /\ {PutLength, FailuresMax, ConnectionFailuresMax, MaxBusy} \cup Capacities \subseteq Nat
  /\ ChunkSize \in Nat \ {0}
  /\ SupportsResigning \in BOOLEAN
  /\ ConnectionFailuresMax <= FailuresMax

\* Lengths are unsigned integers, and an answer is shorter than the largest.
ASSUME AnswersAssumption ==
  /\ Modulus \in Nat \ {0} /\ Garbage \subseteq Nat
  /\ Answers \subseteq [code : Codes, encoding : Encodings, length : 0 .. NPos, head : Nat,
                       body : Nat, symbols : Seq(Symbols)]
  /\ \A a \in Answers : Len(a.symbols) < Modulus

\* finished sees the end of an answer where it is: nothing follows the header of one
\* without content, what Content-Length says is right, and the first zero before an
\* empty line is the one of the last chunk.
ASSUME EndsAssumption ==
  \A a \in Answers :
    IF a.code = "noContent"
    THEN \A k \in 1 .. Len(a.symbols) - 1 : a.symbols[k] \notin {"end", "zero"}
    ELSE /\ a.encoding = "length" => a.length = a.body /\ a.head + a.body = Len(a.symbols)
         /\ a.encoding = "chunked" =>
               Terminators(a.symbols) = {Len(a.symbols)} /\ a.head + a.body = Len(a.symbols) - 1

VARIABLES
  state,              \* originalMessage->result.state
  pc,                 \* in "execute", or in "wait" for the operation; "thrown" when execute threw
  failures,           \* failures
  failureCode,        \* result.failureCode, the set of its bits
  version,            \* which signature originalMessage->message has
  sendBufferOffset,   \* sendBufferOffset
  receiveBufferOffset,\* receiveBufferOffset
  receive,            \* the result's DataVector
  info,               \* info
  request,            \* request: the operation, its result in length
  held,               \* the connections the manager has connected for this message
  connects,           \* how many there have been
  wire,               \* what the present one has carried to the server
  answer,             \* the server's answer on it, once it has begun
  answered,           \* how much of the answer was delivered
  kept,               \* the connections given back for reuse
  busy                \* how often an operation was answered EAGAIN

task == <<state, failures, failureCode, version, sendBufferOffset, receiveBufferOffset,
          receive, info>>
peer == <<wire, answer, answered>>
manager == <<held, connects, kept>>
vars == <<task, pc, request, manager, peer, busy>>

\* Results of an operation that are not lengths.
Again == -1      \* EAGAIN, EINPROGRESS
Cancelled == -2  \* ECANCELED, EINTR
Failed == -3     \* any other error

NoFd == 0
NoRequest == [event |-> "none", fd |-> NoFd, memory |-> 0, at |-> 0, length |-> 0, timed |-> FALSE]
NoAnswer == [code |-> "none", encoding |-> "none", length |-> 0, head |-> 0, body |-> 0,
             symbols |-> <<>>]

Total == MessageLength + PutLength

Init ==
  /\ state = "Init"
  /\ pc = "execute"
  /\ failures = 0
  /\ failureCode = {}
  /\ version = 0
  /\ sendBufferOffset = 0
  /\ receiveBufferOffset = 0
  /\ receive \in {IF c = 0 THEN EmptyVector ELSE UserVector(c) : c \in Capacities}
  /\ info = NoInfo
  /\ request = NoRequest
  /\ held = {}
  /\ connects = 0
  /\ wire = <<>>
  /\ answer = NoAnswer
  /\ answered = 0
  /\ kept = {}
  /\ busy = 0

-----------------------------------------------------------------------------
(* reset *)

\* Mutant: one failure less is allowed.
ExceedsEarly(limit) == failures + 1 > limit

\* failures++ > limit.
Exceeds(limit) == failures > limit

\* Mutant: the connection stays with the manager.
ReleaseNothing(fd) == UNCHANGED held

\* disconnect with forceShutdown.
Release(fd) == held' = held \ {fd}

\* The message gives up, or starts again from nothing; a failure of the answer may
\* call for a new signature.  Received so far is v, up to offset.
Restart(aborted, v, offset, codes) ==
  /\ failureCode' = codes
  /\ IF aborted
       THEN /\ state' = "Aborted"
            /\ receive' = v
            /\ receiveBufferOffset' = offset
            /\ UNCHANGED <<sendBufferOffset, info>>
       ELSE /\ state' = "Init"
            /\ receive' = Clear(v)
            /\ receiveBufferOffset' = 0
            /\ sendBufferOffset' = 0
            /\ info' = NoInfo
  /\ version' = IF "HTTP" \in codes /\ SupportsResigning THEN version + 1 ELSE version
  /\ request' = [request EXCEPT !.fd = NoFd]

\* A failure is counted, and the connection is shut down.
ResetFrom(v, offset, fd, limit, codes) ==
  /\ Restart(Exceeds(limit), v, offset, codes)
  /\ failures' = failures + 1
  /\ Release(fd)
  /\ UNCHANGED <<pc, connects, kept, peer, busy>>

Reset(fd, limit, codes) == ResetFrom(receive, receiveBufferOffset, fd, limit, codes)

-----------------------------------------------------------------------------
(* Sending. *)

\* Mutant: the part of the message that was sent is not subtracted.
SourceUnshifted(offset) ==
  IF PutLength > 0 /\ offset >= MessageLength
    THEN [memory |-> 1, at |-> offset, length |-> Total - offset]
    ELSE [memory |-> 0, at |-> offset, length |-> MessageLength - offset]

\* Where the rest of the request is: in the message, and then in putData.
Source(offset) ==
  IF PutLength > 0 /\ offset >= MessageLength
    THEN [memory |-> 1, at |-> offset - MessageLength, length |-> Total - offset]
    ELSE [memory |-> 0, at |-> offset, length |-> MessageLength - offset]

\* A write of the rest is prepared; only a short one is given a timeout.
PrepareSend(fd, offset) ==
  LET s == Source(offset) IN
  /\ state' = "Sending"
  /\ sendBufferOffset' = offset
  /\ request' = [event |-> "write", fd |-> fd, memory |-> s.memory, at |-> s.at,
                 length |-> s.length, timed |-> s.length <= ChunkSize]
  /\ pc' = "wait"

\* The receiving begins, in the same execute.
PrepareToReceive ==
  /\ state' = "InitReceiving"
  /\ receiveBufferOffset' = 0
  /\ receive' = Clear(receive)
  /\ UNCHANGED <<pc, request>>

Executing(at) == pc = "execute" /\ state = at

\* connect gives a connection, a new one or one that was kept.
Connect ==
  /\ Executing("Init")
  /\ connects' = connects + 1
  /\ held' = held \cup {connects + 1}
  /\ wire' = <<>>
  /\ answer' = NoAnswer
  /\ answered' = 0
  /\ PrepareSend(connects + 1, 0)
  /\ UNCHANGED <<failures, failureCode, version, receiveBufferOffset, receive, info, kept, busy>>

ConnectFails ==
  /\ Executing("Init")
  /\ Reset(NoFd, ConnectionFailuresMax, failureCode \cup {"Socket"})

\* The offset after a write of n.
Sent(n) == sendBufferOffset + n

SendContinues ==
  /\ Executing("Sending")
  /\ request.length > 0 \/ request.length = Again
  /\ LET offset == IF request.length > 0 THEN Sent(request.length) ELSE sendBufferOffset IN
     IF offset >= Total
       THEN PrepareToReceive /\ sendBufferOffset' = offset
       ELSE PrepareSend(request.fd, offset) /\ UNCHANGED <<receiveBufferOffset, receive>>
  /\ UNCHANGED <<failures, failureCode, version, info, manager, peer, busy>>

\* Mutant: a write that timed out is tried again on the same connection, uncounted.
SendTimesOutRetried ==
  /\ Executing("Sending")
  /\ request.length = Cancelled
  /\ PrepareSend(request.fd, sendBufferOffset)
  /\ UNCHANGED <<failures, failureCode, version, receiveBufferOffset, receive, info, manager,
                 peer, busy>>

SendTimesOut ==
  /\ Executing("Sending")
  /\ request.length = Cancelled
  /\ Reset(request.fd, FailuresMax, failureCode \cup {"Timeout"})

\* A server may close its side early and explain why: the answer is read.
SendFails ==
  /\ Executing("Sending")
  /\ request.length = Failed
  /\ failureCode' = failureCode \cup {"Send"}
  /\ PrepareToReceive
  /\ UNCHANGED <<failures, version, sendBufferOffset, info, manager, peer, busy>>

-----------------------------------------------------------------------------
(* Receiving. *)

\* Mutant: the place behind the last chunk is computed before the vector grows.
PointerBefore(v, w) == v.memory

\* The memory a read goes to, when v has grown to w.
Pointer(v, w) == w.memory

Larger(a, b) == IF a >= b THEN a ELSE b

\* A chunk is added to the vector v, whose capacity may first grow to what the
\* header announced, and a read of it is prepared at offset.  A buffer of the
\* user's that has no room for a chunk makes execute throw.
PrepareRecv(v, known, offset) ==
  LET grows == v.capacity < v.size + ChunkSize /\ known.known
      wanted == Larger((known.length + known.header + ChunkSize) % Modulus,
                       v.capacity + v.capacity \div 2)
      reserved == IF grows THEN Reserve(v, wanted) ELSE v
      w == Resize(reserved, v.size + ChunkSize)
  IN
  /\ receiveBufferOffset' = offset
  /\ info' = known
  /\ IF MayHold(v, v.size + ChunkSize)
       THEN /\ receive' = w
            /\ request' = [request EXCEPT !.event = "read", !.memory = Pointer(v, w),
                             !.at = offset, !.length = ChunkSize, !.timed = TRUE]
            /\ state' = "Receiving"
            /\ pc' = "wait"
       ELSE /\ receive' = v
            /\ pc' = "thrown"
            /\ UNCHANGED <<request, state>>

FirstRecv ==
  /\ Executing("InitReceiving")
  /\ PrepareRecv(receive, info, receiveBufferOffset)
  /\ UNCHANGED <<failures, failureCode, version, sendBufferOffset, manager, peer, busy>>

\* The server has closed the connection.
RecvEmpty ==
  /\ Executing("Receiving")
  /\ request.length = 0
  /\ Reset(request.fd, FailuresMax, failureCode \cup {"Empty"})

\* Mutant: the size is not corrected by what did not come.
TrimmedNot(n) == receive

\* The vector without the part of the chunk that nothing was read into.
Trimmed(n) == Resize(receive, receive.size - (ChunkSize - n))

\* What was received so far, as the reader of the memory sees it.
Received(v, n) == [k \in 1 .. n |-> v.cells[k].symbol]

\* What is known of the header with these symbols: nothing if detect throws.
Known(symbols) ==
  IF info.known THEN {info}
  ELSE IF Readable(symbols) /\ Supported(answer) THEN Detected(answer, symbols)
  ELSE {}

\* Some bytes were read, and they are not the end of the answer ...
RecvContinues ==
  /\ Executing("Receiving")
  /\ request.length > 0
  /\ LET offset == receiveBufferOffset + request.length
         v == Trimmed(request.length)
         symbols == Received(v, offset)
     IN \E found \in Known(symbols) :
          /\ ~ Finished(found, symbols)
          /\ PrepareRecv(v, Measured(found, symbols), offset)
  /\ UNCHANGED <<failures, failureCode, version, sendBufferOffset, manager, peer, busy>>

\* Mutant: the connection is kept whatever the answer was.
ReusableAlways(code) == TRUE

\* checkSuccess: only then is the connection given back for reuse.
Reusable(code) == code \in {"ok", "noContent"}

\* ... they are ...
RecvEnds ==
  /\ Executing("Receiving")
  /\ request.length > 0
  /\ LET offset == receiveBufferOffset + request.length
         v == Trimmed(request.length)
         symbols == Received(v, offset)
     IN /\ \E found \in Known(symbols) :
             /\ Finished(found, symbols)
             /\ info' = Measured(found, symbols)
        /\ receive' = v
        /\ receiveBufferOffset' = offset
  /\ held' = held \ {request.fd}
  /\ kept' = IF Reusable(answer.code) THEN kept \cup {request.fd} ELSE kept
  /\ IF answer.code \in {"ok", "noContent"}
       THEN state' = "Finished" /\ UNCHANGED failureCode
       ELSE state' = "Aborted" /\ failureCode' = failureCode \cup {"HTTP"}
  /\ pc' = "done"
  /\ UNCHANGED <<failures, version, sendBufferOffset, request, connects, peer, busy>>

\* ... or detect throws: the header is not there as a whole, or names no encoding.
RecvUnreadable ==
  /\ Executing("Receiving")
  /\ request.length > 0
  /\ LET offset == receiveBufferOffset + request.length IN
     /\ Known(Received(receive, offset)) = {}
     /\ ResetFrom(Trimmed(request.length), offset, request.fd, FailuresMax,
                  failureCode \cup {"HTTP"})

RecvAgain ==
  /\ Executing("Receiving")
  /\ request.length = Again
  /\ PrepareRecv(Trimmed(0), info, receiveBufferOffset)
  /\ UNCHANGED <<failures, failureCode, version, sendBufferOffset, manager, peer, busy>>

RecvFails ==
  /\ Executing("Receiving")
  /\ request.length \in {Cancelled, Failed}
  /\ Reset(request.fd, FailuresMax,
           failureCode \cup {IF request.length = Cancelled THEN "Timeout" ELSE "Recv"})

\* The message was aborted: execute returns.
Aborts ==
  /\ Executing("Aborted")
  /\ pc' = "done"
  /\ UNCHANGED <<task, request, manager, peer, busy>>

Execute ==
  \/ Connect
  \/ ConnectFails
  \/ SendContinues
  \/ SendTimesOut
  \/ SendFails
  \/ FirstRecv
  \/ RecvEmpty
  \/ RecvContinues
  \/ RecvEnds
  \/ RecvUnreadable
  \/ RecvAgain
  \/ RecvFails
  \/ Aborts

-----------------------------------------------------------------------------
(* The kernel and the server. *)

\* The operation ends with this result.
Completes(event, length) ==
  /\ pc = "wait"
  /\ pc' = "execute"
  /\ request.event = event
  /\ request' = [request EXCEPT !.length = length]
  /\ UNCHANGED <<task, manager>>

\* A part of the bytes is carried to the server: which they are, is remembered.
Writes ==
  /\ \E n \in 1 .. request.length :
       /\ Completes("write", n)
       /\ wire' = wire \o [k \in 1 .. n |-> <<version, request.memory, request.at + k>>]
  /\ UNCHANGED <<answer, answered, busy>>

\* The server begins its answer, or goes on with it.  It accepts only a request that
\* has arrived as a whole, and may refuse one before.
MayAnswer(a) ==
  IF answer # NoAnswer THEN a = answer ELSE a.code = "error" \/ Len(wire) = Total

\* The bytes go to the memory that the operation was given.
Reads ==
  /\ \E a \in Answers, n \in 1 .. request.length :
       /\ MayAnswer(a)
       /\ answered + n <= Len(a.symbols)
       /\ pc = "wait" /\ request.event = "read"
       /\ pc' = "execute"
       /\ request' = [request EXCEPT !.length = n]
       /\ answer' = a
       /\ answered' = answered + n
       /\ receive' =
            IF request.memory # receive.memory THEN receive
            ELSE [receive EXCEPT !.cells =
                    [k \in DOMAIN @ |->
                       IF k - request.at \in 1 .. n
                         THEN LET at == answered + k - request.at IN
                              Cell(connects, at, a.symbols[at])
                         ELSE @[k]]]
  /\ UNCHANGED <<state, failures, failureCode, version, sendBufferOffset, receiveBufferOffset,
                 info, manager, wire, busy>>

Closes ==
  /\ Completes("read", 0)
  /\ UNCHANGED <<peer, busy>>

\* An operation without a timeout is ended by an error at the latest
\* (TCP_USER_TIMEOUT, set by connect).
Fails ==
  /\ \E event \in {"read", "write"} :
       \/ Completes(event, Failed)
       \/ request.timed /\ Completes(event, Cancelled)
  /\ UNCHANGED <<peer, busy>>

NotReady ==
  /\ busy < MaxBusy
  /\ busy' = busy + 1
  /\ \E event \in {"read", "write"} : Completes(event, Again)
  /\ UNCHANGED peer

Kernel ==
  \/ Writes
  \/ Reads
  \/ Closes
  \/ Fails
  \/ NotReady

Next == Execute \/ Kernel

Spec == Init /\ [][Next]_vars

\* The receiver executes the task of every completion, and every operation completes.
FairSpec == Spec /\ WF_vars(Execute) /\ WF_vars(Kernel)

-----------------------------------------------------------------------------

FailureCodes == {"Socket", "Empty", "Timeout", "Send", "Recv", "HTTP"}

TypeOK ==
  /\ state \in {"Init", "Sending", "InitReceiving", "Receiving", "Finished", "Aborted"}
  /\ pc \in {"execute", "wait", "done", "thrown"}
  /\ failures \in 0 .. FailuresMax + 2
  /\ failureCode \subseteq FailureCodes
  /\ version \in Nat
  /\ sendBufferOffset \in 0 .. Total
  /\ receiveBufferOffset \in Nat
  /\ receive.size \in 0 .. receive.capacity
  /\ Len(receive.cells) = receive.capacity
  /\ info.length \in (0 .. NPos) \cup Garbage
  /\ request.length \in Int
  /\ held \subseteq 1 .. connects
  /\ kept \subseteq 1 .. connects
  /\ answered \in 0 .. Len(answer.symbols)
  /\ busy \in 0 .. MaxBusy

\* The request as it should arrive: the message as it is signed now, then putData.
Whole == [k \in 1 .. Total |->
            IF k <= MessageLength THEN <<version, 0, k>> ELSE <<version, 1, k - MessageLength>>]

\* Whatever is cut, delayed or retried, each connection carries a beginning of the
\* request and nothing else: no byte twice or left out, none of an older signature.
WireIsPrefix == held # {} => IsPrefix(wire, Whole)

\* A read in flight goes to memory the vector has now, within its size, right behind
\* what was received on this connection.
ReadsInBounds ==
  pc = "wait" /\ request.event = "read" =>
    /\ request.memory = receive.memory
    /\ request.at + request.length = receive.size
    /\ request.at = answered

\* A finished message has sent its whole request and holds the whole answer, of one
\* connection and in order; what it tells of the content is right.
FinishedWhole ==
  state = "Finished" =>
    /\ wire = Whole
    /\ answered = Len(answer.symbols)
    /\ receive.size = answered
    /\ \A k \in 1 .. answered : receive.cells[k] = Cell(connects, k, answer.symbols[k])
    /\ answer.code = "ok" => info.header = answer.head /\ info.length = answer.body

\* The message holds at most one connection, uses only that one, and has given it
\* back when it ends: none leaks through the retries, none is given back twice.
OneConnection ==
  /\ Cardinality(held) <= 1
  /\ pc = "wait" => request.fd \in held
  /\ pc = "done" => held = {}
  /\ held \cap kept = {}

\* A connection is given back for reuse only with nothing left on it: the request is
\* out and the answer is read to its end.
KeptIsClean == kept # {} => wire = Whole /\ answered = Len(answer.symbols)

\* A message aborts only for an answer that says so, or after it was tried again
\* more often than the lower limit.
RetriesFirst ==
  state = "Aborted" =>
    \/ answer.code = "error" /\ Finished(info, answer.symbols) /\ held = {}
    \/ failures > ConnectionFailuresMax + 1

\* A user's buffer that has a chunk to spare is always enough: execute throws only
\* when the answer and a chunk do not fit in it together.
RoomSuffices ==
  pc = "thrown" => ~ receive.owned /\ receive.capacity < Len(answer.symbols) + ChunkSize

\* A message is tried again as often as it should be, and none of its attempts costs
\* a connection.
AttemptsSound == TypeOK /\ RetriesFirst /\ OneConnection

\* The receive buffer is enough for every read, and each read lands where it belongs.
BufferSound == ReadsInBounds /\ RoomSuffices

\* What is handed on is whole: to the user the answer, to the cache a connection that
\* has nothing left on it.
HandedOnWhole == FinishedWhole /\ KeptIsClean

\* Every message ends: it finishes, aborts, or throws.
Ends == <>(pc \in {"done", "thrown"})

=============================================================================
