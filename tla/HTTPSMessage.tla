----------------------------- MODULE HTTPSMessage -----------------------------
(***************************************************************************)
(* network::HTTPSMessage (include/network/https_message.hpp,               *)
(* src/network/https_message.cpp): the machine of HTTPMessage over a TLS   *)
(* connection, with a handshake before the request and, if the connection  *)
(* is not kept, a shutdown after the answer.  Messages follow one another  *)
(* on the connections that were kept.                                      *)
(***************************************************************************)
EXTENDS TLSConnection

CONSTANTS
  Reuses,      \* the values of tcpSettings.reuse
  MaxMessages  \* bound: how many messages there are

ASSUME HTTPSAssumption == Reuses \subseteq BOOLEAN /\ MaxMessages \in Nat \ {0}

VARIABLES
  reuse,     \* tcpSettings.reuse
  messages   \* the messages so far

httpsVars == <<vars, tlsVars, sessions, reuse, messages>>

NoOutcome == [status |-> "Progress", length |-> 0]

HTTPSInit ==
  /\ Init
  /\ SessionsInit
  /\ fd = NoFd
  /\ tls = <<>>
  /\ outcome = NoOutcome
  /\ failedOnce = FALSE
  /\ sendErrors = 0
  /\ reuse \in Reuses
  /\ messages = 1

\* A new message; the connections and the sessions stay.
NextMessage ==
  /\ pc = "done"
  /\ messages < MaxMessages
  /\ messages' = messages + 1
  /\ state' = "Init"
  /\ pc' = "execute"
  /\ failures' = 0
  /\ failureCode' = {}
  /\ version' = 0
  /\ sendBufferOffset' = 0
  /\ receiveBufferOffset' = 0
  /\ receive' = EmptyVector
  /\ info' = NoInfo
  /\ request' = NoRequest
  /\ fd' = NoFd
  /\ sendErrors' = 0
  /\ reuse' \in Reuses
  /\ UNCHANGED <<manager, peer, busy, sessions, tls, outcome, failedOnce>>

-----------------------------------------------------------------------------
(* reset *)

Forgotten(f) == [g \in DOMAIN tls \ {f} |-> tls[g]]

\* Mutant: the SSL object stays when its connection is shut down.
DestroyNothing(f) == UNCHANGED <<tls, references>>

\* destroy, with the socket: the SSL object gives its session back.
Destroy(f) ==
  IF f \in DOMAIN tls
    THEN tls' = Forgotten(f) /\ references' = references (-) Reference(tls[f].session)
    ELSE UNCHANGED <<tls, references>>

\* reset: the connection of the request is shut down.
HTTPSReset(aborted, v, offset, codes) ==
  /\ Restart(aborted, v, offset, codes)
  /\ Release(request.fd)
  /\ Destroy(request.fd)
  /\ pc' = "execute"
  /\ UNCHANGED <<connects, kept, peer, busy, sessionCache, fd, outcome, failedOnce, sendErrors,
                 reuse, messages>>

CountedReset(v, offset, limit, codes) ==
  /\ HTTPSReset(Exceeds(limit), v, offset, codes)
  /\ failures' = failures + 1

-----------------------------------------------------------------------------
(* execute *)

Opens(f, c, keeps) ==
  /\ fd' = f
  /\ tls' = [g \in DOMAIN tls \cup {f} |-> IF g = f THEN c ELSE tls[g]]
  /\ held' = held \cup {f}
  /\ kept' = keeps
  /\ wire' = <<>>
  /\ answer' = NoAnswer
  /\ answered' = 0

\* connect gives a new connection to one of the addresses of the server ...
OpenNew ==
  /\ Executing("Init")
  /\ connects' = connects + 1
  /\ \E address \in Addresses :
       /\ Opens(connects + 1, NewTLS(address), kept)
       /\ references' = references (+) Reference(Reused(address))
  /\ state' = "TLSHandshake"
  /\ sendBufferOffset' = 0
  /\ UNCHANGED <<failures, failureCode, version, receiveBufferOffset, receive, info, pc, request,
                 busy, sessionCache, outcome, failedOnce, sendErrors, reuse, messages>>

\* ... or one that was kept.
OpenKept ==
  /\ Executing("Init")
  /\ \E f \in kept : Opens(f, KeptTLS(tls[f]), kept \ {f})
  /\ state' = "TLSHandshake"
  /\ sendBufferOffset' = 0
  /\ UNCHANGED <<failures, failureCode, version, receiveBufferOffset, receive, info, pc, request,
                 connects, busy, sessions, outcome, failedOnce, sendErrors, reuse, messages>>

OpenFails ==
  /\ Executing("Init")
  /\ CountedReset(receive, receiveBufferOffset, ConnectionFailuresMax, failureCode \cup {"Socket"})

\* SSL_new fails: the connection is left, as it belongs to no request yet.
InitFails ==
  /\ Executing("Init")
  /\ connects' = connects + 1
  /\ held' = held \cup {connects + 1}
  /\ fd' = connects + 1
  /\ Restart(Exceeds(ConnectionFailuresMax), receive, receiveBufferOffset, failureCode \cup {"TLS"})
  /\ failures' = failures + 1
  /\ UNCHANGED <<pc, kept, peer, busy, sessions, tls, outcome, failedOnce, sendErrors, reuse,
                 messages>>

\* An operation has returned in this state.
Returned(at, status) ==
  /\ pc = "return"
  /\ state = at
  /\ outcome.status = status

UnchangedByReturn == UNCHANGED <<failures, version, request, connects, peer, busy, fd, outcome,
                                 sendErrors, reuse, messages>>

\* When it was not even finished, execute returns with nothing under way.
HandshakeEnds ==
  /\ pc = "return"
  /\ state = "TLSHandshake"
  /\ outcome.status # "Aborted"
  /\ IF outcome.status = "Finished"
       THEN state' = "InitSending" /\ pc' = "execute"
       ELSE pc' = "stuck" /\ UNCHANGED state
  /\ UNCHANGED <<failureCode, sendBufferOffset, receiveBufferOffset, receive, info, held, kept,
                 sessions, tls, failedOnce>>
  /\ UnchangedByReturn

\* The failure of a handshake is counted as any other.
HandshakeFails ==
  /\ Returned("TLSHandshake", "Aborted")
  /\ CountedReset(receive, receiveBufferOffset, FailuresMax, failureCode \cup {"TLS"})

\* What was sent is counted; with all of it, the receiving begins with room for a chunk.
SendEnds ==
  /\ Returned("InitSending", "Finished")
  /\ sendBufferOffset' = Sent(outcome.length)
  /\ IF Sent(outcome.length) >= Total
       THEN /\ state' = "InitReceiving"
            /\ receiveBufferOffset' = 0
            /\ IF MayHold(Clear(receive), ChunkSize)
                 THEN receive' = Resize(Clear(receive), ChunkSize) /\ pc' = "execute"
                 ELSE receive' = Clear(receive) /\ pc' = "thrown"
       ELSE pc' = "execute" /\ UNCHANGED <<state, receiveBufferOffset, receive>>
  /\ UNCHANGED <<failureCode, info, held, kept, sessions, tls, failedOnce>>
  /\ UnchangedByReturn

\* A send or a receive that was aborted; no failure code tells of one by OpenSSL.
TransferFails ==
  /\ \E at \in {"InitSending", "InitReceiving", "Receiving"} : Returned(at, "Aborted")
  /\ CountedReset(receive, receiveBufferOffset, FailuresMax, failureCode)

Receives == \E at \in {"InitReceiving", "Receiving"} : Returned(at, "Finished")

\* The vector and the symbols after a read.
Came == Trimmed(outcome.length)
CameTo == receiveBufferOffset + outcome.length

\* The answer goes on: the vector grows as in HTTPMessage ...
ReceiveContinues ==
  /\ Receives
  /\ \E found \in Known(Received(Came, CameTo)) :
       LET grown == Measured(found, Received(Came, CameTo))
           wanted == Larger((grown.length + grown.header + ChunkSize) % Modulus,
                            Came.capacity + Came.capacity \div 2)
           v == IF Came.capacity < Came.size + ChunkSize THEN Reserve(Came, wanted) ELSE Came
       IN /\ ~ Finished(found, Received(Came, CameTo))
          /\ MayHold(Came, Came.size + ChunkSize)
          /\ info' = grown
          /\ receive' = Resize(v, v.size + ChunkSize)
  /\ receiveBufferOffset' = CameTo
  /\ state' = "Receiving"
  /\ pc' = "execute"
  /\ UNCHANGED <<failureCode, sendBufferOffset, held, kept, sessions, tls, failedOnce>>
  /\ UnchangedByReturn

\* ... but that there is no room, and any other exception, counts as a failure.
ReceiveThrows ==
  /\ Receives
  /\ \/ Known(Received(Came, CameTo)) = {}
     \/ /\ \E found \in Known(Received(Came, CameTo)) : ~ Finished(found, Received(Came, CameTo))
        /\ ~ MayHold(Came, Came.size + ChunkSize)
  /\ CountedReset(Came, CameTo, FailuresMax, failureCode \cup {"HTTP"})

\* The whole answer is there, and it is a success: the connection is kept, or shut
\* down in order ...
ReceiveEnds ==
  /\ Receives
  /\ Reusable(answer.code)
  /\ \E found \in Known(Received(Came, CameTo)) :
       /\ Finished(found, Received(Came, CameTo))
       /\ info' = Measured(found, Received(Came, CameTo))
  /\ receive' = Came
  /\ receiveBufferOffset' = CameTo
  /\ IF reuse
       THEN /\ state' = "Finished"
            /\ pc' = "done"
            /\ held' = held \ {request.fd}
            /\ kept' = kept \cup {request.fd}
       ELSE state' = "TLSShutdown" /\ pc' = "execute" /\ UNCHANGED <<held, kept>>
  /\ UNCHANGED <<failureCode, sendBufferOffset, sessions, tls, failedOnce>>
  /\ UnchangedByReturn

\* ... or not: the message aborts at once.
ReceiveRefused ==
  /\ Receives
  /\ ~ Reusable(answer.code)
  /\ \E found \in Known(Received(Came, CameTo)) : Finished(found, Received(Came, CameTo))
  /\ HTTPSReset(TRUE, Came, CameTo, failureCode \cup {"HTTP"})
  /\ UNCHANGED failures

\* shutdown tries once more when OpenSSL returned an error.
ShutdownAgain ==
  /\ Returned("TLSShutdown", "Aborted")
  /\ ~ failedOnce
  /\ failedOnce' = TRUE
  /\ pc' = "execute"
  /\ UNCHANGED <<task, held, kept, sessions, tls>>
  /\ UnchangedByReturn

\* The session is cached, or dropped; the server's address may be gone by then.
ShutdownCaches ==
  /\ \/ /\ Returned("TLSShutdown", "Finished")
        /\ \/ CacheSession(tls[fd].address, tls[fd].reused, tls[fd].session)
           \/ UNCHANGED sessions
     \/ /\ Returned("TLSShutdown", "Aborted")
        /\ failedOnce
        /\ DropSession(tls[fd].address) \/ UNCHANGED sessions
  /\ pc' = "close"
  /\ UNCHANGED <<task, held, kept, tls, failedOnce>>
  /\ UnchangedByReturn

\* The message is finished either way.
ShutdownEnds ==
  /\ pc = "close"
  /\ state' = "Finished"
  /\ pc' = "done"
  /\ failedOnce' = FALSE
  /\ held' = held \ {request.fd}
  /\ Destroy(request.fd)
  /\ UNCHANGED <<failureCode, sendBufferOffset, receiveBufferOffset, receive, info, kept,
                 sessionCache>>
  /\ UnchangedByReturn

HTTPSAborts ==
  /\ Aborts
  /\ UNCHANGED <<tlsVars, sessions, reuse, messages>>

HTTPSExecute ==
  \/ OpenNew
  \/ OpenKept
  \/ OpenFails
  \/ InitFails
  \/ TLSOperation /\ UNCHANGED <<reuse, messages>>
  \/ HandshakeEnds
  \/ HandshakeFails
  \/ SendEnds
  \/ TransferFails
  \/ ReceiveContinues
  \/ ReceiveThrows
  \/ ReceiveEnds
  \/ ReceiveRefused
  \/ ShutdownAgain
  \/ ShutdownCaches
  \/ ShutdownEnds
  \/ HTTPSAborts
  \/ NextMessage

HTTPSNext ==
  \/ HTTPSExecute
  \/ TLSKernel /\ UNCHANGED <<reuse, messages>>

HTTPSSpec == HTTPSInit /\ [][HTTPSNext]_httpsVars

\* As for HTTPMessage; the errors of writes are bounded (MaxSendErrors).
HTTPSFairSpec ==
  /\ HTTPSSpec
  /\ WF_httpsVars(HTTPSExecute)
  /\ WF_httpsVars(TLSKernel /\ UNCHANGED <<reuse, messages>>)

-----------------------------------------------------------------------------

HTTPSTypeOK ==
  /\ state \in {"Init", "TLSHandshake", "InitSending", "InitReceiving", "Receiving",
                "TLSShutdown", "Finished", "Aborted"}
  /\ pc \in {"execute", "wait", "return", "close", "done", "thrown", "stuck"}
  /\ failures \in 0 .. FailuresMax + 2
  /\ failureCode \subseteq FailureCodes \cup {"TLS"}
  /\ DOMAIN tls \subseteq held \cup kept
  /\ held \cup kept \subseteq 1 .. connects
  /\ sendErrors \in 0 .. MaxSendErrors

\* What the connection should carry: the handshake, unless it was kept, and the request.
Expected ==
  (IF tls[fd].connected THEN <<>> ELSE <<Hello, Fin>>)
    \o [k \in 1 .. Total |->
          [kind |-> "data", left |-> 0, version |-> version,
           memory |-> IF k <= MessageLength THEN 0 ELSE 1,
           at |-> IF k <= MessageLength THEN k ELSE k - MessageLength]]
    \o <<Bye>>

\* However the pump's writes are cut, repeated or delayed, the server sees what OpenSSL
\* wrote, from its beginning and in order; what the kernel was given lies in the buffer.
\* A message that finished has sent its whole request and holds the whole answer of one
\* connection, although OpenSSL has it in records and the kernel in other pieces.
StreamsInOrder ==
  /\ fd \in DOMAIN tls /\ fd \in held =>
       /\ IsPrefix(wire, Expected)
       /\ pc = "wait" /\ request.event = "write" =>
            request.at + request.length <= Len(tls[fd].buffer)
  /\ state \in {"TLSShutdown", "Finished"} =>
       /\ Cardinality(Arrived) = Total
       /\ receive.size = Len(answer.symbols)
       /\ \A k \in 1 .. receive.size : receive.cells[k] = Cell(fd, k, answer.symbols[k])

\* A connection is kept only between two messages: nothing of the last is left in its
\* BIOs, which the next message throws away, nor in OpenSSL, and its progress, which
\* the next message takes for the answer to its handshake, is Finished.
KeptIsFresh ==
  \A f \in kept :
    /\ tls[f].out = <<>> /\ tls[f].in = <<>> /\ tls[f].partial = <<>> /\ tls[f].written = 0
    /\ tls[f].progress = "Finished"
    /\ tls[f].phase = "up"

\* Whenever execute returns, an operation is under way on the connection of the
\* message; when it is done, no connection is left but those without a TLS object.
AlwaysUnderWay ==
  /\ HTTPSTypeOK
  /\ pc # "stuck"
  /\ pc = "wait" => request.fd = fd /\ fd \in held
  /\ pc = "done" => held \cap DOMAIN tls = {}

\* The table entries and the SSL objects that have a session.
CachedIn(session) ==
  {slot \in DOMAIN sessionCache :
     sessionCache[slot].first # 0 /\ sessionCache[slot].second = session}
HeldBy(session) == {f \in DOMAIN tls : tls[f].session = session}
ReferencesTo(session) == IF BagIn(session, references) THEN references[session] ELSE 0

\* Each session has exactly as many references as there are table entries and SSL
\* objects with it: none leaks, and none is freed while it is used or cached.
SessionsCounted ==
  /\ IsABag(references) /\ BagToSet(references) \subseteq 1 .. connects
  /\ \A session \in 1 .. connects :
       ReferencesTo(session) = Cardinality(CachedIn(session)) + Cardinality(HeldBy(session))

\* Every message ends, and so do all of them.
HTTPSEnds == <>(pc = "thrown" \/ (pc = "done" /\ messages = MaxMessages))

=============================================================================
