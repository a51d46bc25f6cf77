---------------------------- MODULE TLSConnection ----------------------------
(***************************************************************************)
(* network::TLSConnection (include/network/tls_connection.hpp,             *)
(* src/network/tls_connection.cpp): the pump between OpenSSL and the       *)
(* socket.  An operation calls OpenSSL; when that wants to write or read,  *)
(* process moves what it left in the network BIO to the socket, then what  *)
(* it asked for from the socket to the BIO, and calls it again.            *)
(*                                                                         *)
(* OpenSSL and the server are external: a record is a sequence of tokens,  *)
(* each of which tells how many of its record are left.                    *)
(***************************************************************************)
EXTENDS HTTPMessage, TLSContext

CONSTANTS
  RecordSize,     \* the largest number of tokens in a record of the server's
  MaxSendErrors   \* bound: how many writes end with an error

ASSUME TLSAssumption == RecordSize \in 1 .. ChunkSize /\ MaxSendErrors \in Nat

VARIABLES
  fd,         \* fd
  tls,        \* the TLSConnection of each connection
  outcome,    \* what the operation returned, and its result
  failedOnce, \* the parameter of shutdown
  sendErrors  \* history: the writes of this message that ended with an error

tlsVars == <<fd, tls, outcome, failedOnce, sendErrors>>

\* The TLSConnection of a socket and its SSL object.  Of the state, socketRead and
\* networkBioWrite are 0 whenever they are looked at.
\*   out, in   what the two BIOs hold for the socket, and for OpenSSL
\*   want      what OpenSSL would read (BIO_ctrl_get_read_request)
\*   partial   the part of a record OpenSSL has taken from the BIO
\*   written   how much of an SSL_write, to be repeated, it has taken
NewTLS(address) ==
  [progress |-> "Init", networkBioRead |-> 0, socketWrite |-> 0, internalBioRead |-> 0,
   connected |-> FALSE, buffer |-> <<>>, out |-> <<>>, in |-> <<>>, want |-> 0,
   partial |-> <<>>, written |-> 0, phase |-> "new", address |-> address,
   session |-> Reused(address), reused |-> FALSE]

\* Mutant: the state of the last message is reset as well.
KeptTLSReset(c) == [c EXCEPT !.out = <<>>, !.in = <<>>, !.connected = TRUE, !.progress = "Init"]

\* init of a connection that was kept: it has new BIOs, and is connected.
KeptTLS(c) == [c EXCEPT !.out = <<>>, !.in = <<>>, !.connected = TRUE]

-----------------------------------------------------------------------------
(* OpenSSL. *)

Hello == [kind |-> "hello", left |-> 0]
Fin == [kind |-> "fin", left |-> 0]
Bye == [kind |-> "bye", left |-> 0]

Result(error, length, c) == [error |-> error, length |-> length, ssl |-> c, record |-> <<>>]

\* OpenSSL takes tokens from the BIO up to the end of the record it is reading; it
\* wants the rest of that, or the first one of the next.
Absorb(c) ==
  LET all == c.partial \o c.in
      ends == {k \in DOMAIN all : all[k].left = 0}
  IN IF ends = {}
       THEN [record |-> <<>>,
             ssl |-> [c EXCEPT !.partial = all, !.in = <<>>,
                               !.want = IF all = <<>> THEN 1 ELSE Last(all).left]]
       ELSE [record |-> SubSeq(all, 1, Min(ends)),
             ssl |-> [c EXCEPT !.partial = <<>>, !.want = 0,
                               !.in = SubSeq(all, Min(ends) + 1, Len(all))]]

\* A record, or the wish to read.
Read(c, Answered(_, _)) ==
  LET a == Absorb(c) IN
  IF a.record = <<>> THEN {Result("want", 0, a.ssl)} ELSE Answered(a.record, a.ssl)

SSLConnect(c) ==
  LET Greeted(record, ssl) ==
        {Result("fatal", -1, ssl)} \cup
        {Result("none", 1, [ssl EXCEPT !.phase = "up", !.out = Append(@, Fin), !.reused = r]) :
           r \in {FALSE} \cup {c.session # NoSession}}
  IN IF c.phase = "new"
       THEN {Result("want", 0, [c EXCEPT !.phase = "hello", !.out = Append(@, Hello), !.want = 1])}
       ELSE Read(c, Greeted)

\* All is written, or as much as the BIO has room for, and the call is to be repeated.
SSLWrite(c, s) ==
  LET n == Min({s.length - c.written, ChunkSize - Len(c.out)})
      out == c.out \o [k \in 1 .. n |-> [kind |-> "data", left |-> 0, version |-> version,
                                         memory |-> s.memory, at |-> s.at + c.written + k]]
  IN IF c.written + n = s.length
       THEN {Result("none", s.length, [c EXCEPT !.out = out, !.written = 0, !.want = 0])}
       ELSE {Result("want", 0, [c EXCEPT !.out = out, !.written = @ + n, !.want = 0])}

SSLRead(c) ==
  LET Data(record, ssl) ==
        IF Head(record).kind = "data"
          THEN {[Result("none", Len(record), ssl) EXCEPT !.record = record]}
          ELSE {Result("fatal", 0, ssl)}
  IN Read(c, Data)

\* The first call leaves the message that closes in the BIO and returns 0, which
\* SSL_get_error takes for an error; the next waits for the peer's.
SSLShutdown(c) ==
  LET Closed(record, ssl) ==
        {Result(IF Head(record).kind = "bye" THEN "none" ELSE "fatal", 1, ssl)}
  IN IF c.phase = "up"
       THEN {Result("fatal", 0, [c EXCEPT !.phase = "closing", !.out = Append(@, Bye)])}
       ELSE Read(c, Closed)

-----------------------------------------------------------------------------
(* operationHelper *)

Operating == pc = "execute" /\ state \in {"TLSHandshake", "InitSending", "InitReceiving",
                                          "Receiving", "TLSShutdown"}

Called(c) ==
  CASE state = "TLSHandshake" -> SSLConnect(c)
    [] state = "InitSending" -> SSLWrite(c, Source(sendBufferOffset))
    [] state = "TLSShutdown" -> SSLShutdown(c)
    [] OTHER -> SSLRead(c)

Returns(status, length) ==
  /\ pc' = "return"
  /\ outcome' = [status |-> status, length |-> length]

\* The handshake of a new session gives up the one that was set for it.
Handshaken(c, ssl) ==
  IF c.phase = "hello" /\ ssl.phase = "up" /\ ~ ssl.reused
    THEN /\ tls' = [tls EXCEPT ![fd] = [ssl EXCEPT !.session = fd]]
         /\ references' = (references (-) Reference(c.session)) (+) Reference(fd)
    ELSE /\ tls' = [tls EXCEPT ![fd] = ssl]
         /\ UNCHANGED references

\* OpenSSL is called when no pump is under way.  What it reads goes behind what was
\* received before.
CallsSSL ==
  /\ Operating
  /\ ~ (state = "TLSHandshake" /\ tls[fd].connected)
  /\ tls[fd].progress \in {"Init", "Finished"}
  /\ \E r \in Called(tls[fd]) :
       /\ IF r.error = "want"
            THEN /\ tls' = [tls EXCEPT ![fd] = [r.ssl EXCEPT !.progress = "SendingInit"]]
                 /\ UNCHANGED <<pc, outcome, references>>
            ELSE /\ Handshaken(tls[fd], r.ssl)
                 /\ Returns(IF r.error = "none" THEN "Finished" ELSE "Aborted", r.length)
       /\ receive' =
            [receive EXCEPT !.cells =
               [k \in DOMAIN @ |->
                  IF k - receiveBufferOffset \in DOMAIN r.record
                    THEN LET at == r.record[k - receiveBufferOffset].at IN
                         Cell(fd, at, answer.symbols[at])
                    ELSE @[k]]]
  /\ UNCHANGED <<state, failures, failureCode, version, sendBufferOffset, receiveBufferOffset, info,
                 request, manager, peer, busy, sessionCache, fd, failedOnce, sendErrors>>

\* A connection that was aborted stays so; connect of one that is connected returns
\* the progress its last message left.
CallsNothing ==
  /\ Operating
  /\ \/ tls[fd].progress = "Aborted"
     \/ state = "TLSHandshake" /\ tls[fd].connected
  /\ Returns(tls[fd].progress, 0)
  /\ UNCHANGED <<task, request, manager, peer, busy, sessions, fd, tls, failedOnce, sendErrors>>

-----------------------------------------------------------------------------
(* process *)

Pumping(progress) ==
  /\ Operating
  /\ ~ (state = "TLSHandshake" /\ tls[fd].connected)
  /\ tls[fd].progress \in progress

Submit(event, at, length) ==
  /\ request' = [event |-> event, fd |-> fd, memory |-> 0, at |-> at, length |-> length,
                 timed |-> event = "read" \/ length <= ChunkSize]
  /\ pc' = "wait"

\* Mutant: a write that was short is repeated from the start of the buffer.
StartWriteWhole(c) ==
  /\ tls' = [tls EXCEPT ![fd] = [c EXCEPT !.progress = "Sending"]]
  /\ Submit("write", 0, c.networkBioRead - c.socketWrite)

\* The rest of the buffer is written.
StartWrite(c) ==
  /\ tls' = [tls EXCEPT ![fd] = [c EXCEPT !.progress = "Sending"]]
  /\ Submit("write", c.socketWrite, c.networkBioRead - c.socketWrite)

\* Mutant: a whole chunk is read, whatever OpenSSL wants.
ReadSizeChunk(want) == ChunkSize

\* No more is read than OpenSSL asked for.
ReadSize(want) == IF ChunkSize > want THEN want ELSE ChunkSize

StartRead(c) ==
  /\ tls' = [tls EXCEPT ![fd] = [c EXCEPT !.progress = "Receiving"]]
  /\ Submit("read", 0, ReadSize(c.internalBioRead))

\* Nothing is left to write: what OpenSSL asked for is read.  If it did not, the pump
\* has finished, and OpenSSL is called again; but when that is seen by the operation
\* that started the pump, it reports progress with nothing under way.
ToReceive(c) ==
  IF c.want > 0 THEN StartRead([c EXCEPT !.internalBioRead = c.want])
  ELSE /\ tls' = [tls EXCEPT ![fd] = [c EXCEPT !.internalBioRead = 0, !.progress = "Finished"]]
       /\ pc' = IF c.progress = "SendingInit" THEN "stuck" ELSE "execute"
       /\ UNCHANGED request

\* An operation that returns to wait begins anew afterwards.
UnchangedByProcess ==
  /\ failedOnce' = (failedOnce /\ pc' # "wait")
  /\ UNCHANGED <<state, failures, version, sendBufferOffset, receiveBufferOffset, receive, info,
                 manager, peer, busy, sessions, fd, sendErrors>>

\* What OpenSSL left in the BIO is taken into the buffer.
ProcessSendingInit ==
  /\ Pumping({"SendingInit"})
  /\ LET n == Min({Len(tls[fd].out), ChunkSize})
         c == [tls[fd] EXCEPT !.networkBioRead = n, !.socketWrite = 0,
                              !.buffer = SubSeq(tls[fd].out, 1, n),
                              !.out = SubSeq(@, n + 1, Len(@))]
     IN IF n > 0 THEN StartWrite(c) ELSE ToReceive(tls[fd])
  /\ UNCHANGED <<failureCode, outcome>>
  /\ UnchangedByProcess

Aborting(code) ==
  /\ tls' = [tls EXCEPT ![fd].progress = "Aborted"]
  /\ failureCode' = failureCode \cup {code}
  /\ Returns("Aborted", 0)
  /\ UNCHANGED request

\* Mutant: an operation that was cancelled is taken for one that was not ready.
TimedOutNever(n) == FALSE

\* The results that tell of the timeout.
TimedOut(n) == n = Cancelled

\* A write has completed.  After an error nothing was written, so that the same bytes
\* are written again.
ProcessSending ==
  /\ Pumping({"Sending"})
  /\ LET n == request.length
         c == [tls[fd] EXCEPT !.socketWrite = IF n > 0 THEN @ + n ELSE @]
     IN IF TimedOut(n) THEN Aborting("Timeout")
        ELSE /\ IF c.networkBioRead # c.socketWrite THEN StartWrite(c) ELSE ToReceive(c)
             /\ failureCode' = IF n = Failed THEN failureCode \cup {"Send"} ELSE failureCode
             /\ UNCHANGED outcome
  /\ UnchangedByProcess

\* A read has completed, and what came goes into the BIO.
ProcessReceiving ==
  /\ Pumping({"Receiving"})
  /\ LET n == request.length IN
     CASE n = 0 -> Aborting("Empty")
       [] TimedOut(n) -> Aborting("Timeout")
       [] n = Failed -> Aborting("Recv")
       [] n = Again -> StartRead(tls[fd]) /\ UNCHANGED <<failureCode, outcome>>
       [] OTHER -> /\ tls' = [tls EXCEPT ![fd].progress = "Finished",
                                         ![fd].in = @ \o SubSeq(tls[fd].buffer, 1, n)]
                   /\ UNCHANGED <<failureCode, outcome, pc, request>>
  /\ UnchangedByProcess

TLSOperation ==
  \/ CallsSSL
  \/ CallsNothing
  \/ ProcessSendingInit
  \/ ProcessSending
  \/ ProcessReceiving

-----------------------------------------------------------------------------
(* The kernel and the server. *)

DataTokens(a) ==
  [k \in 1 .. Len(a.symbols) |->
     [kind |-> "data", at |-> k,
      left |-> Min({Len(a.symbols), k + RecordSize - 1 - ((k - 1) % RecordSize)}) - k]]

\* What the server sends on this connection if its answer is a; a server that has
\* none to give closes it.
Greeting == IF tls[fd].connected THEN <<>> ELSE <<Hello>>
Stream(a) == Greeting \o DataTokens(a) \o <<Bye>>

\* The places of the request's bytes among the tokens that have arrived.
Arrived == {k \in DOMAIN wire : wire[k].kind = "data"}

\* It goes on once the client's messages have arrived: it accepts only a request that
\* has come as a whole, and may refuse one before.
MaySend(a, n) ==
  IF n <= Len(Greeting) THEN Hello \in Range(wire)
  ELSE /\ tls[fd].connected \/ Fin \in Range(wire)
       /\ IF answer # NoAnswer THEN a = answer ELSE a.code = "error" \/ Cardinality(Arrived) = Total

TLSCompletes(event, length) ==
  /\ pc = "wait"
  /\ pc' = "execute"
  /\ request.event = event
  /\ request' = [request EXCEPT !.length = length]
  /\ UNCHANGED <<task, manager, sessions, fd, outcome, failedOnce>>

TLSWrites ==
  /\ pc = "wait"
  /\ \E n \in 1 .. request.length :
       /\ TLSCompletes("write", n)
       /\ wire' = wire \o SubSeq(tls[fd].buffer, request.at + 1, request.at + n)
  /\ UNCHANGED <<answer, answered, busy, tls, sendErrors>>

TLSReads ==
  /\ pc = "wait"
  /\ \E a \in Answers, n \in 1 .. request.length :
       /\ answered + n <= Len(Stream(a))
       /\ MaySend(a, answered + n)
       /\ TLSCompletes("read", n)
       /\ tls' = [tls EXCEPT ![fd].buffer = SubSeq(Stream(a), answered + 1, answered + n)]
       /\ answer' = IF answered + n > Len(Greeting) THEN a ELSE answer
       /\ answered' = answered + n
  /\ UNCHANGED <<wire, busy, sendErrors>>

\* Only a short write has a timeout; each ends by an error at the latest.
TLSFails ==
  /\ \/ TLSCompletes("read", 0) /\ UNCHANGED sendErrors
     \/ TLSCompletes("read", Failed) /\ UNCHANGED sendErrors
     \/ request.timed /\ \E event \in {"read", "write"} : TLSCompletes(event, Cancelled)
        /\ UNCHANGED sendErrors
     \/ sendErrors < MaxSendErrors /\ sendErrors' = sendErrors + 1
        /\ TLSCompletes("write", Failed)
  /\ UNCHANGED <<peer, busy, tls>>

TLSNotReady ==
  /\ busy < MaxBusy
  /\ busy' = busy + 1
  /\ \E event \in {"read", "write"} : TLSCompletes(event, Again)
  /\ UNCHANGED <<peer, tls, sendErrors>>

TLSKernel ==
  \/ TLSWrites
  \/ TLSReads
  \/ TLSFails
  \/ TLSNotReady

=============================================================================
