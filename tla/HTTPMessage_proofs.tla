------------------------- MODULE HTTPMessage_proofs -------------------------
(***************************************************************************)
(* Proofs about HTTPMessage, for any sizes of the request, the chunk and   *)
(* the buffers, any limits and any answers.  MessageInv is inductive; the  *)
(* properties of the runs follow from it.                                  *)
(***************************************************************************)
EXTENDS HTTPMessage, SequenceTheorems, FiniteSetTheorems, WellFoundedInduction, TLAPS

-----------------------------------------------------------------------------
(* The inductive invariant. *)

Cells == [from : Nat, at : Nat, symbol : Symbols]

\* A vector's size is within its capacity, which is that of its memory.
Vectors ==
  {v \in [owned : BOOLEAN, capacity : Nat, size : Nat, memory : Nat, cells : Seq(Cells)] :
     v.size <= v.capacity /\ Len(v.cells) = v.capacity}

Infos == [known : BOOLEAN, code : Codes \cup {"none"}, encoding : Encodings,
          length : (0 .. NPos) \cup Garbage, header : Nat]

Requests == [event : {"none", "write", "read"}, fd : Nat, memory : Nat, at : Nat,
             length : Int, timed : BOOLEAN]

Bytes == Nat \X {0, 1} \X Nat

MessageTypes ==
  /\ state \in {"Init", "Sending", "InitReceiving", "Receiving", "Finished", "Aborted"}
  /\ pc \in {"execute", "wait", "done", "thrown"}
  /\ failures \in Nat
  /\ failureCode \subseteq FailureCodes
  /\ version \in Nat
  /\ sendBufferOffset \in 0 .. Total
  /\ receiveBufferOffset \in Nat
  /\ receive \in Vectors
  /\ info \in Infos
  /\ request \in Requests
  /\ connects \in Nat
  /\ held \subseteq 1 .. connects
  /\ kept \subseteq 1 .. connects
  /\ wire \in Seq(Bytes)
  /\ answer \in Answers \cup {NoAnswer}
  /\ answered \in 0 .. Len(answer.symbols)
  /\ busy \in 0 .. MaxBusy

\* The states in which the message has a connection.
Connected == {"Sending", "InitReceiving", "Receiving"}

\* A connection is the last one made, it is held in these states and no other, and one
\* is kept only by a message that has finished.
Control ==
  /\ state \in Connected => held = {connects} /\ request.fd = connects
  /\ state \notin Connected => held = {}
  /\ kept # {} => state = "Finished" /\ answer.code \in {"ok", "noContent"}
  /\ pc = "wait" => state \in {"Sending", "Receiving"}
  /\ pc = "done" => state \in {"Finished", "Aborted"}
  /\ pc = "thrown" => state \in {"InitReceiving", "Receiving"}
  /\ state = "Finished" => pc = "done"

\* Failures are counted past a limit only by the one that aborts the message.
CountedFailures ==
  /\ failures <= FailuresMax + 2
  /\ state # "Aborted" => failures <= FailuresMax + 1

\* The operation of a message that sends is a write of the rest, or was one; in the
\* latter case the server has a part of it, unless it failed.
Sending ==
  state = "Sending" =>
    LET s == Source(sendBufferOffset) IN
    /\ sendBufferOffset < Total
    /\ request.event = "write" /\ request.memory = s.memory /\ request.at = s.at
    /\ pc = "wait" => request.length = s.length /\ Len(wire) = sendBufferOffset
    /\ pc = "execute" =>
         \/ request.length \in {Again, Cancelled, Failed} /\ Len(wire) = sendBufferOffset
         \/ request.length \in 1 .. s.length /\ Len(wire) = sendBufferOffset + request.length
    /\ answer = NoAnswer

\* What was carried is the request, place by place.
Carried ==
  held # {} =>
    /\ Len(wire) <= Total
    /\ \A k \in 1 .. Len(wire) : wire[k] = Whole[k]

\* A server that accepts has the whole request.
Accepted == answer # NoAnswer => answer.code = "error" \/ Len(wire) = Total

\* Before the first read nothing is received or known.
Unanswered ==
  /\ state \in {"Sending", "InitReceiving"} => answered = 0 /\ answer = NoAnswer
  /\ state \in {"Init", "Sending", "InitReceiving"} => ~ info.known
  /\ state = "InitReceiving" => receiveBufferOffset = 0 /\ receive.size = 0

\* The operation of a message that receives is a read of a chunk behind what came, in
\* the present memory, or was one.
Receiving ==
  state = "Receiving" =>
    /\ request.event = "read"
    /\ \A k \in 1 .. answered : receive.cells[k] = Cell(connects, k, answer.symbols[k])
    /\ pc = "wait" =>
         /\ request.length = ChunkSize /\ request.memory = receive.memory
         /\ request.at = receiveBufferOffset /\ answered = receiveBufferOffset
         /\ receive.size = receiveBufferOffset + ChunkSize
    /\ pc = "execute" =>
         /\ \/ request.length \in {0, Again, Cancelled, Failed} /\ answered = receiveBufferOffset
            \/ request.length \in 1 .. ChunkSize
               /\ answered = receiveBufferOffset + request.length
         /\ receive.size = receiveBufferOffset + ChunkSize

\* What is known of the header is what the server said.
Informs ==
  info.known =>
    /\ answer # NoAnswer /\ Supported(answer)
    /\ info.code = answer.code /\ info.encoding = answer.encoding
    /\ answer.code # "noContent" /\ info.header = answer.head
    /\ answer.encoding = "length" => info.length = answer.length
Informed == state = "Receiving" => Informs

MessageInv ==
  /\ MessageTypes
  /\ Control
  /\ CountedFailures
  /\ Sending
  /\ Carried
  /\ Accepted
  /\ Unanswered
  /\ Receiving
  /\ Informed
  /\ RoomSuffices
  /\ RetriesFirst

-----------------------------------------------------------------------------
(* The constants, the request and the vector. *)

LEMMA MessageConstants ==
  /\ MessageLength \in Nat \ {0} /\ PutLength \in Nat /\ ChunkSize \in Nat \ {0}
  /\ FailuresMax \in Nat /\ ConnectionFailuresMax \in Nat /\ MaxBusy \in Nat
  /\ ConnectionFailuresMax <= FailuresMax
  /\ Total \in Nat \ {0} /\ NPos \in Nat
BY HTTPAssumption, AnswersAssumption DEF Total, NPos

\* The rest of the request lies in one of the two buffers, from its place on.
LEMMA RestFacts ==
  ASSUME version \in Nat, NEW n \in 0 .. Total - 1
  PROVE  LET s == Source(n) IN
         /\ s.length \in 1 .. Total - n /\ s.memory \in {0, 1} /\ s.at \in Nat
         /\ \A k \in 1 .. s.length : Whole[n + k] = <<version, s.memory, s.at + k>>
<1>1. MessageLength \in Nat \ {0} /\ PutLength \in Nat /\ Total = MessageLength + PutLength
  BY MessageConstants DEF Total
<1>2. CASE PutLength > 0 /\ n >= MessageLength
  BY <1>1, <1>2 DEF Source, Whole
<1>3. CASE ~ (PutLength > 0 /\ n >= MessageLength)
  <2>1. n < MessageLength
    BY <1>1, <1>3
  <2> QED BY <1>1, <1>3, <2>1 DEF Source, Whole
<1> QED BY <1>2, <1>3

LEMMA WholeFacts ==
  ASSUME version \in Nat
  PROVE  Whole \in Seq(Bytes) /\ Len(Whole) = Total
<1>1. \A k \in 1 .. Total :
         (IF k <= MessageLength THEN <<version, 0, k>> ELSE <<version, 1, k - MessageLength>>)
           \in Bytes
  BY MessageConstants DEF Bytes
<1>2. Total \in Nat
  BY MessageConstants
<1> QED BY <1>1, <1>2 DEF Whole

LEMMA ClearFacts ==
  ASSUME NEW v \in Vectors
  PROVE  Clear(v) \in Vectors /\ Clear(v).size = 0 /\ Clear(v).owned = v.owned
BY DEF Clear, Vectors

LEMMA ReserveFacts ==
  ASSUME NEW v \in Vectors, NEW n \in Nat
  PROVE  LET w == Reserve(v, n) IN
         /\ w \in Vectors /\ w.size = v.size /\ w.capacity >= n /\ w.owned = v.owned
         /\ \A k \in 1 .. v.size : w.cells[k] = v.cells[k]
         /\ n <= v.capacity => w = v
<1> DEFINE f == [k \in 1 .. n |-> IF k <= v.size THEN v.cells[k] ELSE Fresh]
<1>1. CASE n <= v.capacity
  BY <1>1 DEF Reserve, Vectors
<1>2. CASE n > v.capacity
  <2>1. \A k \in 1 .. n : (IF k <= v.size THEN v.cells[k] ELSE Fresh) \in Cells
    <3>1. Fresh \in Cells
      BY DEF Fresh, Cell, Cells, Symbols
    <3>2. v.cells \in Seq(Cells) /\ Len(v.cells) = v.capacity /\ v.size <= v.capacity
          /\ v.size \in Nat /\ v.capacity \in Nat
      BY DEF Vectors
    <3>3. \A k \in 1 .. v.size : v.cells[k] \in Cells
      BY <3>2, ElementOfSeq
    <3> QED BY <3>1, <3>2, <3>3
  <2>2. f \in Seq(Cells) /\ Len(f) = n
    BY <2>1
  <2>3. Reserve(v, n) = [v EXCEPT !.capacity = n, !.memory = @ + 1, !.cells = f]
    BY <1>2 DEF Reserve, Vectors
  <2>4. \A k \in 1 .. v.size : f[k] = v.cells[k]
    BY <1>2 DEF Vectors
  <2> HIDE DEF f
  <2>5. /\ Reserve(v, n).owned = v.owned /\ Reserve(v, n).capacity = n
        /\ Reserve(v, n).size = v.size /\ Reserve(v, n).cells = f
        /\ Reserve(v, n) \in [owned : BOOLEAN, capacity : Nat, size : Nat, memory : Nat,
                              cells : Seq(Cells)]
    <3>1. v \in [owned : BOOLEAN, capacity : Nat, size : Nat, memory : Nat, cells : Seq(Cells)]
      BY DEF Vectors
    <3>2. v.memory \in Nat
      BY <3>1
    <3>3. DOMAIN v = {"owned", "capacity", "size", "memory", "cells"}
      BY <3>1
    <3>4. /\ Reserve(v, n).owned = v.owned /\ Reserve(v, n).capacity = n
          /\ Reserve(v, n).size = v.size /\ Reserve(v, n).cells = f
          /\ Reserve(v, n).memory = v.memory + 1
      BY <2>3, <3>3
    <3>5. Reserve(v, n) \in [owned : BOOLEAN, capacity : Nat, size : Nat, memory : Nat,
                            cells : Seq(Cells)]
      <4> DEFINE m == v.memory + 1
      <4>1. Reserve(v, n) = [v EXCEPT !.capacity = n, !.memory = m, !.cells = f]
        BY <2>3
      <4>2. m \in Nat
        BY <3>2
      <4> HIDE DEF m
      <4> QED BY <2>2, <3>1, <4>1, <4>2
    <3> QED BY <3>4, <3>5
  <2>6. v.size <= n
    BY <1>2 DEF Vectors
  <2> QED BY <1>2, <2>2, <2>4, <2>5, <2>6 DEF Vectors
<1>3. n \in Nat /\ v.capacity \in Nat
  BY DEF Vectors
<1> QED BY <1>1, <1>2, <1>3

LEMMA ResizeFacts ==
  ASSUME NEW v \in Vectors, NEW n \in Nat
  PROVE  LET w == Resize(v, n) IN
         /\ w \in Vectors /\ w.size = n /\ w.owned = v.owned
         /\ \A k \in 1 .. v.size : w.cells[k] = v.cells[k]
         /\ n <= v.capacity => w = [v EXCEPT !.size = n]
<1>1. /\ Reserve(v, n) \in Vectors /\ Reserve(v, n).capacity >= n
      /\ Reserve(v, n).owned = v.owned
      /\ \A k \in 1 .. v.size : Reserve(v, n).cells[k] = v.cells[k]
      /\ n <= v.capacity => Reserve(v, n) = v
  BY ReserveFacts
<1> QED BY <1>1 DEF Resize, Vectors

\* What the header announced, or the capacity and a half, is a number.
LEMMA WantedFacts ==
  ASSUME NEW v \in Vectors, NEW known \in Infos
  PROVE  Larger((known.length + known.header + ChunkSize) % Modulus,
                v.capacity + v.capacity \div 2) \in Nat
<1>1. known.length \in Nat /\ known.header \in Nat
  <2>1. Garbage \subseteq Nat /\ 0 .. NPos \subseteq Nat
    BY MessageConstants, AnswersAssumption
  <2> QED BY <2>1 DEF Infos
<1>2. Modulus \in Nat \ {0} /\ ChunkSize \in Nat /\ v.capacity \in Nat
  BY AnswersAssumption, MessageConstants DEF Vectors
<1>3. known.length + known.header + ChunkSize \in Nat
  BY <1>1, <1>2
<1>4. (known.length + known.header + ChunkSize) % Modulus \in Nat
  BY <1>2, <1>3
<1>5. v.capacity + v.capacity \div 2 \in Nat
  BY <1>2
<1> QED BY <1>4, <1>5 DEF Larger

\* A read of a chunk is under way behind the vector's content, which is as before, or
\* the user's buffer had no room for it.
LEMMA RecvPrepared ==
  ASSUME request \in Requests, NEW v \in Vectors, NEW known \in Infos, NEW offset \in Nat,
         PrepareRecv(v, known, offset)
  PROVE  /\ receiveBufferOffset' = offset /\ info' = known
         /\ receive' \in Vectors /\ request' \in Requests /\ request'.fd = request.fd
         /\ \A k \in 1 .. v.size : receive'.cells[k] = v.cells[k]
         /\ \/ /\ state' = "Receiving" /\ pc' = "wait"
               /\ receive'.size = v.size + ChunkSize
               /\ request'.event = "read" /\ request'.memory = receive'.memory
               /\ request'.at = offset /\ request'.length = ChunkSize
            \/ /\ state' = state /\ pc' = "thrown" /\ request' = request
               /\ receive' = v /\ ~ v.owned /\ v.capacity < v.size + ChunkSize
<1> DEFINE grows == v.capacity < v.size + ChunkSize /\ known.known
           wanted == Larger((known.length + known.header + ChunkSize) % Modulus,
                            v.capacity + v.capacity \div 2)
           reserved == IF grows THEN Reserve(v, wanted) ELSE v
           w == Resize(reserved, v.size + ChunkSize)
<1>1. ChunkSize \in Nat /\ v.size \in Nat /\ v.capacity \in Nat /\ v.size + ChunkSize \in Nat
  BY MessageConstants DEF Vectors
<1>2. wanted \in Nat
  BY WantedFacts
<1>3. /\ reserved \in Vectors /\ reserved.size = v.size
      /\ \A k \in 1 .. v.size : reserved.cells[k] = v.cells[k]
  <2> HIDE DEF wanted
  <2> QED BY <1>2, ReserveFacts
<1>4. /\ w \in Vectors /\ w.size = v.size + ChunkSize
      /\ \A k \in 1 .. v.size : w.cells[k] = v.cells[k]
  <2> HIDE DEF reserved
  <2>1. /\ w \in Vectors /\ w.size = v.size + ChunkSize
        /\ \A k \in 1 .. reserved.size : w.cells[k] = reserved.cells[k]
    BY <1>1, <1>3, ResizeFacts
  <2> QED BY <1>3, <2>1
<1>5. /\ receiveBufferOffset' = offset /\ info' = known
      /\ IF MayHold(v, v.size + ChunkSize)
           THEN /\ receive' = w
                /\ request' = [request EXCEPT !.event = "read", !.memory = w.memory,
                                 !.at = offset, !.length = ChunkSize, !.timed = TRUE]
                /\ state' = "Receiving"
                /\ pc' = "wait"
           ELSE receive' = v /\ pc' = "thrown" /\ UNCHANGED <<request, state>>
  BY DEF PrepareRecv, Pointer
<1> HIDE DEF w
<1>6. CASE MayHold(v, v.size + ChunkSize)
  <2>1. w.memory \in Nat
    BY <1>4 DEF Vectors
  <2>2. /\ request' \in Requests /\ request'.fd = request.fd
        /\ request'.event = "read" /\ request'.memory = w.memory
        /\ request'.at = offset /\ request'.length = ChunkSize
    <3>1. request' = [request EXCEPT !.event = "read", !.memory = w.memory,
                                     !.at = offset, !.length = ChunkSize, !.timed = TRUE]
      BY <1>5, <1>6
    <3>2. w.memory \in Nat /\ offset \in Nat /\ ChunkSize \in Int
      BY <1>1, <2>1
    <3> QED BY <3>1, <3>2 DEF Requests
  <2> QED BY <1>4, <1>5, <1>6, <2>2
<1>7. CASE ~ MayHold(v, v.size + ChunkSize)
  <2>1. ~ v.owned /\ v.capacity < v.size + ChunkSize
    BY <1>1, <1>7 DEF MayHold
  <2> QED BY <1>5, <1>7, <2>1
<1> QED BY <1>6, <1>7

\* The vector without the part of a chunk nothing was read into.
LEMMA TrimmedFacts ==
  ASSUME receive \in Vectors, receiveBufferOffset \in Nat, NEW n \in 0 .. ChunkSize,
         receive.size = receiveBufferOffset + ChunkSize
  PROVE  /\ Trimmed(n) \in Vectors /\ Trimmed(n).size = receiveBufferOffset + n
         /\ Trimmed(n).owned = receive.owned /\ Trimmed(n).capacity = receive.capacity
         /\ Trimmed(n).cells = receive.cells
<1> DEFINE m == receive.size - (ChunkSize - n)
<1>1. m \in Nat /\ m = receiveBufferOffset + n /\ m <= receive.capacity
  BY MessageConstants DEF Vectors
<1>2. Trimmed(n) = Resize(receive, m)
  BY DEF Trimmed
<1> HIDE DEF m
<1>3. Trimmed(n) = [receive EXCEPT !.size = m] /\ Trimmed(n) \in Vectors
  BY <1>1, <1>2, ResizeFacts
<1> QED BY <1>1, <1>3 DEF Vectors

-----------------------------------------------------------------------------
(* The answer as it is read. *)

LEMMA MinOfNats ==
  ASSUME NEW T \in SUBSET Nat, T # {}
  PROVE  Min(T) \in T /\ \A y \in T : Min(T) <= y
<1>1. \E x \in T : \A y \in T : <<y, x>> \notin OpToRel(<, Nat)
  BY NatLessThanWellFounded, WFMin
<1>2. \E x \in T : \A y \in T : x <= y
  <2>1. \A x, y \in Nat : y < x => <<y, x>> \in OpToRel(<, Nat)
    BY DEF OpToRel
  <2>2. PICK x \in T : \A y \in T : <<y, x>> \notin OpToRel(<, Nat)
    BY <1>1
  <2>3. \A y \in T : ~ (y < x)
    BY <2>1, <2>2
  <2>4. \A y \in T : x <= y
    BY <2>3
  <2> QED BY <2>4
<1> QED BY <1>2 DEF Min

\* The first n symbols of the answer.
Said(n) == [k \in 1 .. n |-> answer.symbols[k]]

\* The answer of a connection that something was read from is one of the server's.
LEMMA PresentAnswer ==
  ASSUME answer \in Answers \cup {NoAnswer}
  PROVE  /\ Len(answer.symbols) \in Nat /\ Len(answer.symbols) < Modulus
         /\ answer # NoAnswer => answer \in Answers /\ answer.symbols \in Seq(Symbols)
         /\ Len(answer.symbols) > 0 => answer # NoAnswer
<1>1. CASE answer = NoAnswer
  <2>1. answer.symbols = <<>> /\ Len(answer.symbols) = 0
    BY <1>1 DEF NoAnswer
  <2> QED BY <1>1, <2>1, AnswersAssumption
<1>2. CASE answer # NoAnswer
  <2>1. answer \in Answers
    BY <1>2
  <2>2. answer.symbols \in Seq(Symbols) /\ Len(answer.symbols) < Modulus
    BY <2>1, AnswersAssumption
  <2> QED BY <1>2, <2>1, <2>2, LenProperties
<1> QED BY <1>1, <1>2

LEMMA SaidFacts ==
  ASSUME answer \in Answers \cup {NoAnswer}, NEW n \in 0 .. Len(answer.symbols)
  PROVE  /\ Said(n) \in Seq(Symbols) /\ Len(Said(n)) = n /\ DOMAIN Said(n) = 1 .. n
         /\ \A k \in 1 .. n : Said(n)[k] = answer.symbols[k]
         /\ DOMAIN answer.symbols = 1 .. Len(answer.symbols)
<1>1. Len(answer.symbols) \in Nat /\ (answer # NoAnswer => answer.symbols \in Seq(Symbols))
  BY PresentAnswer
<1>2. \A k \in 1 .. n : answer.symbols[k] \in Symbols
  <2>1. CASE n = 0
    BY <2>1
  <2>2. CASE n # 0
    <3>1. answer.symbols \in Seq(Symbols)
      BY <1>1, <2>2, PresentAnswer
    <3> QED BY <1>1, <3>1, ElementOfSeq
  <2> QED BY <2>1, <2>2
<1>3. n \in Nat
  BY <1>1
<1>4. DOMAIN answer.symbols = 1 .. Len(answer.symbols)
  <2>1. CASE answer = NoAnswer
    BY <2>1 DEF NoAnswer
  <2>2. CASE answer # NoAnswer
    BY <1>1, <2>2, LenProperties
  <2> QED BY <2>1, <2>2
<1> QED BY <1>2, <1>3, <1>4 DEF Said

\* Where the first zero before an empty line was found, and that the whole answer has
\* one where a beginning of it has.
LEMMA FoundFacts ==
  ASSUME answer \in Answers \cup {NoAnswer}, NEW n \in 0 .. Len(answer.symbols)
  PROVE  /\ FoundAt(Said(n)) \in 0 .. NPos
         /\ FoundAt(Said(n)) # NPos =>
              /\ FoundAt(Said(n)) + 1 \in 1 .. n
              /\ FoundAt(Said(n)) + 1 \in Terminators(answer.symbols)
         /\ FoundAt(Said(n)) # NPos => FoundAt(answer.symbols) # NPos
<1>1. /\ Len(answer.symbols) \in Nat /\ Len(answer.symbols) <= NPos
      /\ n \in Nat /\ n <= NPos /\ NPos \in Nat
  <2>1. Len(answer.symbols) < Modulus /\ Modulus \in Nat /\ Len(answer.symbols) \in Nat
    BY PresentAnswer, AnswersAssumption
  <2> QED BY <2>1, MessageConstants DEF NPos
<1>2. /\ Terminators(Said(n)) \subseteq 1 .. n
      /\ Terminators(Said(n)) \subseteq Terminators(answer.symbols)
      /\ Terminators(answer.symbols) \subseteq 1 .. Len(answer.symbols)
  BY <1>1, SaidFacts DEF Terminators
<1>3. ASSUME NEW s, Terminators(s) \subseteq 1 .. NPos, Terminators(s) # {}
      PROVE  FoundAt(s) + 1 \in Terminators(s) /\ FoundAt(s) \in 0 .. NPos - 1
  <2>1. Terminators(s) \in SUBSET Nat
    BY <1>1, <1>3
  <2>2. Min(Terminators(s)) \in Terminators(s)
    BY <1>3, <2>1, MinOfNats
  <2>3. FoundAt(s) = Min(Terminators(s)) - 1
    BY <1>3 DEF FoundAt
  <2>4. Min(Terminators(s)) \in 1 .. NPos
    BY <1>3, <2>2
  <2>5. FoundAt(s) + 1 = Min(Terminators(s))
    BY <1>1, <2>3, <2>4
  <2> QED BY <1>1, <2>2, <2>3, <2>4, <2>5
<1>4. CASE Terminators(Said(n)) = {}
  BY <1>1, <1>4 DEF FoundAt
<1>5. CASE Terminators(Said(n)) # {}
  <2>1. FoundAt(Said(n)) + 1 \in Terminators(Said(n)) /\ FoundAt(Said(n)) \in 0 .. NPos - 1
    BY <1>1, <1>2, <1>3, <1>5
  <2>2. FoundAt(answer.symbols) \in 0 .. NPos - 1
    BY <1>1, <1>2, <1>3, <1>5
  <2> QED BY <1>1, <1>2, <2>1, <2>2
<1> QED BY <1>4, <1>5

\* What the vector's reader sees are the server's symbols.
LEMMA ReceivedSaid ==
  ASSUME NEW v, NEW n \in Nat, NEW from,
         \A k \in 1 .. n : v.cells[k] = Cell(from, k, answer.symbols[k])
  PROVE  Received(v, n) = Said(n)
<1>1. \A k \in 1 .. n : v.cells[k].symbol = answer.symbols[k]
  <2> TAKE k \in 1 .. n
  <2>1. v.cells[k] = [from |-> from, at |-> k, symbol |-> answer.symbols[k]]
    BY DEF Cell
  <2> QED BY <2>1
<1> QED BY <1>1 DEF Received, Said

\* What is known of the header once the first n symbols are there.
LEMMA KnownFacts ==
  ASSUME answer \in Answers \cup {NoAnswer}, info \in Infos, Informs,
         NEW n \in 1 .. Len(answer.symbols),
         NEW found \in Known(Said(n))
  PROVE  /\ found \in Infos /\ found.known /\ answer # NoAnswer /\ Supported(answer)
         /\ found.code = answer.code /\ found.encoding = answer.encoding
         /\ answer.code # "noContent" => found.header = answer.head
         /\ answer.encoding = "length" => found.length = answer.length
         /\ answer.code = "noContent" => Readable(Said(n))
<1>1. /\ answer # NoAnswer /\ answer \in Answers /\ n \in Nat /\ Len(Said(n)) = n
  <2>1. Len(answer.symbols) \in Nat
    BY PresentAnswer
  <2> QED BY <2>1, PresentAnswer, SaidFacts
<1>2. CASE info.known
  BY <1>1, <1>2 DEF Known, Informs
<1>3. CASE ~ info.known
  <2>1. Readable(Said(n)) /\ Supported(answer) /\ found \in Detected(answer, Said(n))
    BY <1>3 DEF Known
  <2>2. /\ answer.code \in Codes /\ answer.encoding \in Encodings
        /\ answer.length \in 0 .. NPos /\ answer.head \in Nat
    BY <1>1, AnswersAssumption
  <2>3. PICK m \in IF answer.encoding = "length" THEN {answer.length} ELSE Garbage :
           found = [known |-> TRUE, code |-> answer.code, encoding |-> answer.encoding,
                    length |-> m,
                    header |-> IF answer.code = "noContent" THEN Len(Said(n)) ELSE answer.head]
    BY <2>1 DEF Detected
  <2>4. m \in (0 .. NPos) \cup Garbage /\ (answer.encoding = "length" => m = answer.length)
    BY <2>2
  <2>5. (IF answer.code = "noContent" THEN Len(Said(n)) ELSE answer.head) \in Nat
    BY <1>1, <2>2
  <2>6. found \in Infos
    BY <2>2, <2>3, <2>4, <2>5 DEF Infos
  <2> QED BY <1>1, <2>1, <2>3, <2>4, <2>6
<1> QED BY <1>2, <1>3

\* finished stores a length for a chunked answer, and nothing else.
LEMMA MeasuredFacts ==
  ASSUME answer \in Answers \cup {NoAnswer}, NEW n \in 0 .. Len(answer.symbols),
         NEW found \in Infos
  PROVE  LET m == Measured(found, Said(n)) IN
         /\ m \in Infos /\ m.known = found.known /\ m.code = found.code
         /\ m.encoding = found.encoding /\ m.header = found.header
         /\ found.encoding # "chunked" => m = found
<1>1. FoundAt(Said(n)) \in Int /\ Modulus \in Nat \ {0} /\ NPos = Modulus - 1
  BY FoundFacts, MessageConstants, AnswersAssumption DEF NPos
<1>2. CASE found.code = "noContent" \/ found.encoding # "chunked"
  BY <1>2 DEF Measured
<1>3. CASE ~ (found.code = "noContent" \/ found.encoding # "chunked")
  <2> DEFINE l == IF FoundAt(Said(n)) = NPos THEN NPos
                  ELSE (FoundAt(Said(n)) - found.header) % Modulus
  <2>1. l \in 0 .. NPos
    <3>1. found.header \in Nat
      BY DEF Infos
    <3> QED BY <1>1, <3>1
  <2>2. Measured(found, Said(n)) = [found EXCEPT !.length = l]
    BY <1>3 DEF Measured
  <2> HIDE DEF l
  <2> QED BY <1>3, <2>1, <2>2 DEF Infos
<1> QED BY <1>2, <1>3

\* An answer that a beginning of it finishes is finished as a whole.
LEMMA StaysFinished ==
  ASSUME answer \in Answers, NEW n \in 0 .. Len(answer.symbols), NEW found \in Infos,
         Finished(found, Said(n))
  PROVE  Finished(Measured(found, Said(n)), answer.symbols)
<1> DEFINE m == Measured(found, Said(n))
<1>1. /\ m.code = found.code /\ m.encoding = found.encoding /\ m.header = found.header
      /\ found.encoding # "chunked" => m = found
  BY MeasuredFacts
<1>2. Len(Said(n)) = n /\ n \in Nat /\ Len(answer.symbols) \in Nat
  BY SaidFacts, PresentAnswer
<1> HIDE DEF m
<1>3. CASE found.code = "noContent"
  BY <1>1, <1>3 DEF Finished, m
<1>4. CASE found.encoding = "length" /\ Len(Said(n)) >= found.header + found.length
  <2>1. found.header \in Nat /\ found.length \in Nat
    <3>1. Garbage \subseteq Nat /\ 0 .. NPos \subseteq Nat
      BY MessageConstants, AnswersAssumption
    <3> QED BY <3>1 DEF Infos
  <2>2. m = found /\ Len(answer.symbols) >= found.header + found.length
    BY <1>1, <1>2, <1>4, <2>1
  <2> QED BY <1>4, <2>2 DEF Finished, m
<1>5. CASE found.encoding = "chunked" /\ FoundAt(Said(n)) # NPos
  BY <1>1, <1>5, FoundFacts DEF Finished, m
<1> QED BY <1>3, <1>4, <1>5 DEF Finished

-----------------------------------------------------------------------------
(* What the actions share: a restart, a write, the change to receiving. *)

\* A failure of a message that has not ended leaves it without a connection: it starts
\* again, or has been tried often enough.
LEMMA RestartStep ==
  ASSUME MessageInv, pc = "execute", state \notin {"Finished", "Aborted"},
         NEW v \in Vectors, NEW offset \in Nat, NEW codes \in SUBSET FailureCodes,
         NEW f, f = IF state = "Init" THEN NoFd ELSE request.fd,
         NEW limit \in {FailuresMax, ConnectionFailuresMax},
         ResetFrom(v, offset, f, limit, codes)
  PROVE  MessageInv'
<1> USE DEF MessageInv
<1>1. /\ failures' = failures + 1
      /\ UNCHANGED <<pc, connects, kept, wire, answer, answered, busy>>
      /\ failureCode' = codes /\ held' = held \ {f} /\ request' = [request EXCEPT !.fd = NoFd]
      /\ version' \in {version, version + 1}
  BY DEF ResetFrom, Restart, Release, peer
<1>2. /\ failures \in Nat /\ limit \in Nat /\ limit <= FailuresMax
      /\ ConnectionFailuresMax <= limit /\ FailuresMax \in Nat /\ Total \in Nat
  BY MessageConstants DEF MessageTypes
<1>3. held' = {} /\ state' \in {"Init", "Aborted"}
  <2>1. held = {} \/ held = {f}
    BY DEF Control, Connected, MessageTypes
  <2>2. state' \in {"Init", "Aborted"}
    BY DEF ResetFrom, Restart
  <2> QED BY <1>1, <2>1, <2>2
<1>4. /\ state' = "Aborted" => failures > limit
      /\ state' = "Init" => /\ failures <= limit /\ ~ info'.known /\ sendBufferOffset' = 0
                            /\ receiveBufferOffset' = 0 /\ info' = NoInfo
                            /\ receive' = Clear(v)
      /\ state' = "Aborted" => /\ receive' = v /\ receiveBufferOffset' = offset
                               /\ UNCHANGED <<sendBufferOffset, info>>
  BY <1>2 DEF ResetFrom, Restart, Exceeds, NoInfo
<1>5. kept = {}
  BY DEF Control
<1>6. MessageTypes'
  <2>1. receive' \in Vectors
    BY <1>3, <1>4, ClearFacts
  <2>2. info' \in Infos
    <3>1. NoInfo \in Infos
      BY MessageConstants DEF NoInfo, Infos, Codes, Encodings
    <3> QED BY <1>3, <1>4, <3>1 DEF MessageTypes
  <2>3. request' \in Requests
    BY <1>1 DEF MessageTypes, Requests, NoFd
  <2>4. sendBufferOffset' \in 0 .. Total /\ receiveBufferOffset' \in Nat
    BY <1>2, <1>3, <1>4 DEF MessageTypes
  <2>5. version' \in Nat /\ failures' \in Nat
    BY <1>1, <1>2 DEF MessageTypes
  <2>6. connects' \in Nat /\ held' \subseteq 1 .. connects' /\ kept' \subseteq 1 .. connects'
    BY <1>1, <1>3 DEF MessageTypes
  <2> QED BY <1>1, <1>3, <2>1, <2>2, <2>3, <2>4, <2>5, <2>6 DEF MessageTypes
<1>7. Control'
  BY <1>1, <1>3, <1>5 DEF Control, Connected
<1>8. CountedFailures' /\ RetriesFirst'
  <2>1. failures <= FailuresMax + 1
    BY DEF CountedFailures
  <2>2. state' = "Aborted" => failures' > ConnectionFailuresMax + 1
    BY <1>1, <1>2, <1>4, MessageConstants
  <2> QED BY <1>1, <1>2, <1>3, <1>4, <2>1, <2>2 DEF CountedFailures, RetriesFirst
<1>9. Sending' /\ Carried' /\ Receiving' /\ Informed'
  BY <1>3 DEF Sending, Carried, Receiving, Informed, Informs
<1>10. Accepted' /\ Unanswered' /\ RoomSuffices'
  <2>1. Accepted'
    BY <1>1 DEF Accepted
  <2>2. Unanswered'
    BY <1>3, <1>4 DEF Unanswered
  <2> QED BY <1>1, <2>1, <2>2 DEF RoomSuffices
<1> QED BY <1>6, <1>7, <1>8, <1>9, <1>10

\* A write of the rest of the request is under way.
LEMMA SendPrepared ==
  ASSUME version \in Nat, NEW f \in Nat, NEW n \in 0 .. Total - 1, PrepareSend(f, n)
  PROVE  /\ state' = "Sending" /\ pc' = "wait" /\ sendBufferOffset' = n
         /\ request' \in Requests /\ request'.fd = f /\ request'.event = "write"
         /\ request'.memory = Source(n).memory /\ request'.at = Source(n).at
         /\ request'.length = Source(n).length
<1>1. Source(n).length \in Int /\ Source(n).memory \in Nat /\ Source(n).at \in Nat
  <2>1. Total - n \in Int
    BY MessageConstants
  <2> QED BY <2>1, RestFacts
<1>2. /\ state' = "Sending" /\ pc' = "wait" /\ sendBufferOffset' = n
      /\ request' = [event |-> "write", fd |-> f, memory |-> Source(n).memory,
                     at |-> Source(n).at, length |-> Source(n).length,
                     timed |-> Source(n).length <= ChunkSize]
  BY DEF PrepareSend
<1>3. (Source(n).length <= ChunkSize) \in BOOLEAN
  OBVIOUS
<1> QED BY <1>1, <1>2, <1>3 DEF Requests

LEMMA ConnectStep ==
  ASSUME MessageInv, Connect
  PROVE  MessageInv'
<1> USE DEF MessageInv
<1>1. /\ state = "Init" /\ pc = "execute" /\ connects' = connects + 1
      /\ held' = held \cup {connects + 1} /\ wire' = <<>> /\ answer' = NoAnswer
      /\ answered' = 0 /\ PrepareSend(connects + 1, 0)
      /\ UNCHANGED <<failures, failureCode, version, receiveBufferOffset, receive, info, kept, busy>>
  BY DEF Connect, Executing
<1>2. version \in Nat /\ connects + 1 \in Nat /\ 0 \in 0 .. Total - 1 /\ 0 < Total
  BY MessageConstants DEF MessageTypes
<1>3. /\ state' = "Sending" /\ pc' = "wait" /\ sendBufferOffset' = 0
      /\ request' \in Requests /\ request'.fd = connects + 1 /\ request'.event = "write"
      /\ request'.memory = Source(0).memory /\ request'.at = Source(0).at
      /\ request'.length = Source(0).length
  BY <1>1, <1>2, SendPrepared
<1>4. held = {} /\ kept = {}
  BY <1>1 DEF Control, Connected
<1>5. Len(<<>>) = 0 /\ <<>> \in Seq(Bytes) /\ answer'.symbols = <<>>
  BY <1>1 DEF NoAnswer
<1>6. MessageTypes'
  <2>1. connects' \in Nat /\ held' \subseteq 1 .. connects' /\ kept' \subseteq 1 .. connects'
    BY <1>1, <1>2, <1>4 DEF MessageTypes
  <2>2. sendBufferOffset' \in 0 .. Total /\ answered' \in 0 .. Len(answer'.symbols)
    BY <1>1, <1>2, <1>3, <1>5, MessageConstants
  <2> QED BY <1>1, <1>3, <1>5, <2>1, <2>2 DEF MessageTypes
<1>7. Control'
  BY <1>1, <1>3, <1>4 DEF Control, Connected
<1>8. CountedFailures' /\ RetriesFirst' /\ RoomSuffices' /\ Receiving' /\ Informed' /\ Accepted'
  BY <1>1, <1>3 DEF CountedFailures, RetriesFirst, RoomSuffices, Receiving, Informed, Informs, Accepted
<1>9. Sending'
  BY <1>1, <1>2, <1>3, <1>5 DEF Sending, Source
<1>10. Carried'
  <2>1. Len(wire') = 0 /\ Len(wire') <= Total
    BY <1>1, <1>5, MessageConstants
  <2> QED BY <2>1 DEF Carried
<1>11. Unanswered'
  BY <1>1, <1>3 DEF Unanswered
<1> QED BY <1>6, <1>7, <1>8, <1>9, <1>10, <1>11

\* The message begins to receive on its connection.
LEMMA ReceivingStep ==
  ASSUME MessageInv, pc = "execute", state = "Sending", PrepareToReceive,
         sendBufferOffset' \in 0 .. Total, failureCode' \subseteq FailureCodes,
         UNCHANGED <<failures, version, info, manager, peer, busy>>
  PROVE  MessageInv'
<1> USE DEF MessageInv
<1>1. /\ state' = "InitReceiving" /\ receiveBufferOffset' = 0 /\ receive' = Clear(receive)
      /\ UNCHANGED <<pc, request, failures, version, info, held, connects, kept, wire, answer,
                     answered, busy>>
  BY DEF PrepareToReceive, manager, peer
<1>2. receive' \in Vectors /\ receive'.size = 0
  BY <1>1, ClearFacts DEF MessageTypes
<1>3. MessageTypes'
  BY <1>1, <1>2 DEF MessageTypes
<1>4. Control' /\ CountedFailures' /\ RetriesFirst' /\ RoomSuffices'
  BY <1>1 DEF Control, Connected, CountedFailures, RetriesFirst, RoomSuffices
<1>5. Sending' /\ Receiving' /\ Informed'
  BY <1>1 DEF Sending, Receiving, Informed, Informs
<1>6. Carried'
  BY <1>1 DEF Carried, Whole
<1>7. Accepted'
  BY <1>1 DEF Accepted
<1>8. Unanswered'
  BY <1>1, <1>2 DEF Unanswered
<1> QED BY <1>3, <1>4, <1>5, <1>6, <1>7, <1>8

LEMMA SendContinuesStep ==
  ASSUME MessageInv, SendContinues
  PROVE  MessageInv'
<1> USE DEF MessageInv
<1> DEFINE offset == IF request.length > 0 THEN Sent(request.length) ELSE sendBufferOffset
<1>1. /\ state = "Sending" /\ pc = "execute"
      /\ request.length > 0 \/ request.length = Again
      /\ IF offset >= Total
           THEN PrepareToReceive /\ sendBufferOffset' = offset
           ELSE PrepareSend(request.fd, offset) /\ UNCHANGED <<receiveBufferOffset, receive>>
      /\ UNCHANGED <<failures, failureCode, version, info, manager, peer, busy>>
  BY DEF SendContinues, Executing
<1>2. Len(wire) = offset /\ offset \in 0 .. Total
  <2>1. /\ sendBufferOffset \in 0 .. Total - 1 /\ version \in Nat
        /\ \/ request.length \in {Again, Cancelled, Failed} /\ Len(wire) = sendBufferOffset
           \/ request.length \in 1 .. Source(sendBufferOffset).length
              /\ Len(wire) = sendBufferOffset + request.length
    BY <1>1, MessageConstants DEF MessageTypes, Sending
  <2>2. Source(sendBufferOffset).length \in 1 .. Total - sendBufferOffset
    BY <2>1, RestFacts
  <2>3. CASE request.length = Again
    BY <1>1, <2>1, <2>3, MessageConstants DEF Again
  <2>4. CASE request.length > 0
    <3>1. request.length \in 1 .. Source(sendBufferOffset).length
      BY <2>1, <2>4 DEF Again, Cancelled, Failed
    <3>2. Len(wire) = sendBufferOffset + request.length
      BY <2>1, <2>4 DEF Again, Cancelled, Failed
    <3> QED BY <2>1, <2>2, <2>4, <3>1, <3>2, MessageConstants DEF Sent
  <2> QED BY <1>1, <2>3, <2>4
<1> HIDE DEF offset
<1>3. CASE offset >= Total
  BY <1>1, <1>2, <1>3, ReceivingStep DEF MessageTypes
<1>4. CASE ~ (offset >= Total)
  <2>1. /\ offset \in 0 .. Total - 1 /\ version \in Nat /\ request.fd \in Nat
        /\ PrepareSend(request.fd, offset)
        /\ UNCHANGED <<failures, failureCode, version, receiveBufferOffset, receive, info,
                       held, connects, kept, wire, answer, answered, busy>>
    BY <1>1, <1>2, <1>4, MessageConstants DEF MessageTypes, Requests, manager, peer
  <2>2. /\ state' = "Sending" /\ pc' = "wait" /\ sendBufferOffset' = offset
        /\ request' \in Requests /\ request'.fd = request.fd /\ request'.event = "write"
        /\ request'.memory = Source(offset).memory /\ request'.at = Source(offset).at
        /\ request'.length = Source(offset).length
    BY <2>1, SendPrepared
  <2>3. MessageTypes'
    BY <1>2, <2>1, <2>2 DEF MessageTypes
  <2>4. Control'
    BY <1>1, <2>1, <2>2 DEF Control, Connected
  <2>5. CountedFailures' /\ RetriesFirst' /\ RoomSuffices' /\ Receiving' /\ Informed'
    BY <1>1, <2>1, <2>2 DEF CountedFailures, RetriesFirst, RoomSuffices, Receiving, Informed, Informs
  <2>6. Sending'
    BY <1>1, <1>2, <2>1, <2>2, MessageConstants DEF Sending, Source
  <2>7. Carried' /\ Accepted' /\ Unanswered'
    BY <1>1, <2>1, <2>2 DEF Carried, Whole, Accepted, Unanswered
  <2> QED BY <2>3, <2>4, <2>5, <2>6, <2>7
<1> QED BY <1>3, <1>4

LEMMA SendFailsStep ==
  ASSUME MessageInv, SendFails
  PROVE  MessageInv'
<1>1. sendBufferOffset' \in 0 .. Total /\ failureCode' \subseteq FailureCodes
  BY DEF SendFails, FailureCodes, MessageInv, MessageTypes
<1> QED BY <1>1, ReceivingStep DEF SendFails, Executing

-----------------------------------------------------------------------------
(* The actions of a message that receives. *)

\* The next chunk is read behind what came, all of which is in the vector v.
LEMMA RecvStep ==
  ASSUME MessageInv, pc = "execute", state \in {"InitReceiving", "Receiving"},
         NEW v \in Vectors, v.size = answered,
         \A k \in 1 .. answered : v.cells[k] = Cell(connects, k, answer.symbols[k]),
         NEW known \in Infos,
         known.known =>
           /\ answer # NoAnswer /\ Supported(answer)
           /\ known.code = answer.code /\ known.encoding = answer.encoding
           /\ answer.code # "noContent" /\ known.header = answer.head
           /\ answer.encoding = "length" => known.length = answer.length,
         PrepareRecv(v, known, answered),
         UNCHANGED <<failures, failureCode, version, sendBufferOffset, manager, peer, busy>>
  PROVE  MessageInv'
<1> USE DEF MessageInv
<1>1. /\ UNCHANGED <<failures, failureCode, version, sendBufferOffset, held, connects, kept, wire,
                     answer, answered, busy>>
      /\ held = {connects} /\ request.fd = connects /\ kept = {}
  BY DEF manager, peer, Control, Connected
<1>2. answered \in Nat /\ Len(answer.symbols) \in Nat /\ answered <= Len(answer.symbols)
  BY PresentAnswer DEF MessageTypes
<1>3. /\ receiveBufferOffset' = answered /\ info' = known
      /\ receive' \in Vectors /\ request' \in Requests /\ request'.fd = request.fd
      /\ \A k \in 1 .. v.size : receive'.cells[k] = v.cells[k]
      /\ \/ /\ state' = "Receiving" /\ pc' = "wait"
            /\ receive'.size = v.size + ChunkSize
            /\ request'.event = "read" /\ request'.memory = receive'.memory
            /\ request'.at = answered /\ request'.length = ChunkSize
         \/ /\ state' = state /\ pc' = "thrown" /\ request' = request
            /\ receive' = v /\ ~ v.owned /\ v.capacity < v.size + ChunkSize
  <2>1. request \in Requests
    BY DEF MessageTypes
  <2> QED BY <1>2, <2>1, RecvPrepared
<1>4. state' \in {"InitReceiving", "Receiving"} /\ pc' \in {"wait", "thrown"}
      /\ (state' = "InitReceiving" => state = "InitReceiving" /\ pc' = "thrown")
      /\ (pc' = "wait" => state' = "Receiving")
  BY <1>3
<1>5. MessageTypes'
  BY <1>1, <1>2, <1>3, <1>4 DEF MessageTypes
<1>6. Control' /\ CountedFailures' /\ RetriesFirst' /\ Sending'
  BY <1>1, <1>3, <1>4 DEF Control, Connected, CountedFailures, RetriesFirst, Sending
<1>7. Carried' /\ Accepted'
  BY <1>1 DEF Carried, Whole, Accepted
<1>8. RoomSuffices'
  <2>1. CASE pc' = "thrown"
    <3>1. receive' = v /\ ~ v.owned /\ v.capacity < answered + ChunkSize /\ v.capacity \in Nat
      BY <1>3, <2>1 DEF Vectors
    <3>2. v.capacity < Len(answer.symbols) + ChunkSize
      BY <1>2, <3>1, MessageConstants
    <3> QED BY <1>1, <3>1, <3>2 DEF RoomSuffices
  <2>2. CASE pc' # "thrown"
    BY <2>2 DEF RoomSuffices
  <2> QED BY <2>1, <2>2
<1>9. Receiving'
  <2>1. \A k \in 1 .. answered : receive'.cells[k] = Cell(connects, k, answer.symbols[k])
    BY <1>3
  <2>2. CASE state' = "Receiving" /\ pc' = "wait"
    BY <1>1, <1>3, <2>1, <2>2 DEF Receiving
  <2>3. CASE state' = "Receiving" /\ pc' = "thrown"
    <3>1. state = "Receiving" => request.event = "read"
      BY DEF Receiving
    <3>2. state = "Receiving" /\ request' = request
      BY <1>3, <2>3
    <3> QED BY <1>1, <2>1, <2>3, <3>1, <3>2 DEF Receiving
  <2>4. CASE state' # "Receiving"
    BY <2>4 DEF Receiving
  <2> QED BY <1>4, <2>2, <2>3, <2>4
<1>10. Informed'
  BY <1>1, <1>3 DEF Informed, Informs
<1>11. Unanswered'
  <2>1. CASE state' = "InitReceiving"
    <3>1. /\ receive' = v /\ state = "InitReceiving" /\ answered = 0 /\ answer = NoAnswer
          /\ v.size = 0
      BY <1>3, <1>4, <2>1 DEF Unanswered
    <3> QED BY <1>1, <1>3, <2>1, <3>1 DEF Unanswered
  <2>2. CASE state' # "InitReceiving"
    BY <1>4, <2>2 DEF Unanswered
  <2> QED BY <2>1, <2>2
<1> QED BY <1>5, <1>6, <1>7, <1>8, <1>9, <1>10, <1>11

LEMMA FirstRecvStep ==
  ASSUME MessageInv, FirstRecv
  PROVE  MessageInv'
<1> USE DEF MessageInv
<1>1. /\ state = "InitReceiving" /\ pc = "execute"
      /\ PrepareRecv(receive, info, receiveBufferOffset)
      /\ UNCHANGED <<failures, failureCode, version, sendBufferOffset, manager, peer, busy>>
  BY DEF FirstRecv, Executing
<1>2. /\ receiveBufferOffset = 0 /\ receive.size = 0 /\ answered = 0 /\ ~ info.known
      /\ receive \in Vectors /\ info \in Infos
  BY <1>1 DEF Unanswered, MessageTypes
<1> QED BY <1>1, <1>2, RecvStep

\* What a message that has read looks like when it is executed: n symbols came, and the
\* vector without what did not come holds all that the server said.
LEMMA CameFacts ==
  ASSUME MessageInv, pc = "execute", state = "Receiving",
         NEW n \in 0 .. ChunkSize,
         request.length = n \/ (n = 0 /\ request.length \in {Again, Cancelled, Failed})
  PROVE  /\ receiveBufferOffset + n = answered
         /\ Trimmed(n) \in Vectors /\ Trimmed(n).size = answered
         /\ Trimmed(n).cells = receive.cells
         /\ \A k \in 1 .. answered : Trimmed(n).cells[k] = Cell(connects, k, answer.symbols[k])
         /\ Received(Trimmed(n), answered) = Said(answered)
         /\ Received(receive, answered) = Said(answered)
         /\ n > 0 => answered \in 1 .. Len(answer.symbols) /\ answer \in Answers
<1> USE DEF MessageInv
<1>1. /\ receiveBufferOffset \in Nat /\ receive \in Vectors /\ answered \in 0 .. Len(answer.symbols)
      /\ Len(answer.symbols) \in Nat /\ answer \in Answers \cup {NoAnswer}
  BY PresentAnswer DEF MessageTypes
<1>2. /\ receive.size = receiveBufferOffset + ChunkSize
      /\ \A k \in 1 .. answered : receive.cells[k] = Cell(connects, k, answer.symbols[k])
      /\ \/ request.length \in {0, Again, Cancelled, Failed} /\ answered = receiveBufferOffset
         \/ request.length \in 1 .. ChunkSize /\ answered = receiveBufferOffset + request.length
  BY DEF Receiving
<1>3. receiveBufferOffset + n = answered
  <2>1. CASE n = 0
    BY <1>1, <1>2, <2>1, MessageConstants DEF Again, Cancelled, Failed
  <2>2. CASE n # 0
    BY <1>1, <1>2, <2>2, MessageConstants DEF Again, Cancelled, Failed
  <2> QED BY <2>1, <2>2
<1>4. /\ Trimmed(n) \in Vectors /\ Trimmed(n).size = answered
      /\ Trimmed(n).cells = receive.cells
  BY <1>1, <1>2, <1>3, TrimmedFacts
<1>5. Received(Trimmed(n), answered) = Said(answered) /\ Received(receive, answered) = Said(answered)
  <2>1. \A k \in 1 .. answered : Trimmed(n).cells[k] = Cell(connects, k, answer.symbols[k])
    BY <1>2, <1>4
  <2>2. answered \in Nat
    BY <1>1
  <2> QED BY <1>2, <2>1, <2>2, ReceivedSaid
<1>6. n > 0 => answered \in 1 .. Len(answer.symbols) /\ answer \in Answers
  <2>1. HAVE n > 0
  <2>2. answered \in 1 .. Len(answer.symbols)
    BY <1>1, <1>3, <2>1, MessageConstants
  <2> QED BY <1>1, <2>2, PresentAnswer
<1> QED BY <1>2, <1>3, <1>4, <1>5, <1>6

LEMMA RecvContinuesStep ==
  ASSUME MessageInv, RecvContinues
  PROVE  MessageInv'
<1> USE DEF MessageInv
<1> DEFINE n == request.length
<1>1. /\ state = "Receiving" /\ pc = "execute" /\ n > 0
      /\ UNCHANGED <<failures, failureCode, version, sendBufferOffset, manager, peer, busy>>
  BY DEF RecvContinues, Executing
<1>2. n \in 1 .. ChunkSize
  BY <1>1 DEF Receiving, Again, Cancelled, Failed
<1>3. /\ receiveBufferOffset + n = answered
      /\ Trimmed(n) \in Vectors /\ Trimmed(n).size = answered
      /\ \A k \in 1 .. answered : Trimmed(n).cells[k] = Cell(connects, k, answer.symbols[k])
      /\ Received(Trimmed(n), answered) = Said(answered)
      /\ answered \in 1 .. Len(answer.symbols) /\ answer \in Answers
  <2>1. n \in 0 .. ChunkSize /\ n > 0
    BY <1>2, MessageConstants
  <2> QED BY <1>1, <2>1, CameFacts
<1>4. PICK found \in Known(Said(answered)) :
        /\ ~ Finished(found, Said(answered))
        /\ PrepareRecv(Trimmed(n), Measured(found, Said(answered)), answered)
  BY <1>3 DEF RecvContinues
<1> DEFINE m == Measured(found, Said(answered))
<1>5. /\ found \in Infos /\ found.known /\ answer # NoAnswer /\ Supported(answer)
      /\ found.code = answer.code /\ found.encoding = answer.encoding
      /\ answer.code # "noContent" => found.header = answer.head
      /\ answer.encoding = "length" => found.length = answer.length
  BY <1>1, <1>3, <1>4, KnownFacts DEF MessageTypes, Informed
<1>6. answer.code # "noContent"
  BY <1>4, <1>5 DEF Finished
<1>7. /\ m \in Infos /\ m.code = found.code /\ m.encoding = found.encoding
      /\ m.header = found.header
      /\ found.encoding # "chunked" => m = found
  <2>1. answered \in 0 .. Len(answer.symbols)
    BY DEF MessageTypes
  <2> QED BY <1>3, <1>5, <2>1, MeasuredFacts
<1>8. /\ m.code = answer.code /\ m.encoding = answer.encoding /\ m.header = answer.head
      /\ answer.encoding = "length" => m.length = answer.length
  BY <1>5, <1>6, <1>7
<1>9. PrepareRecv(Trimmed(n), m, answered)
  BY <1>4
<1> HIDE DEF m, n
<1> QED BY <1>1, <1>3, <1>5, <1>6, <1>7, <1>8, <1>9, RecvStep

LEMMA RecvAgainStep ==
  ASSUME MessageInv, RecvAgain
  PROVE  MessageInv'
<1> USE DEF MessageInv
<1>1. /\ state = "Receiving" /\ pc = "execute" /\ request.length = Again
      /\ PrepareRecv(Trimmed(0), info, receiveBufferOffset)
      /\ UNCHANGED <<failures, failureCode, version, sendBufferOffset, manager, peer, busy>>
  BY DEF RecvAgain, Executing
<1>2. /\ receiveBufferOffset + 0 = answered /\ receiveBufferOffset \in Nat
      /\ Trimmed(0) \in Vectors /\ Trimmed(0).size = answered
      /\ \A k \in 1 .. answered : Trimmed(0).cells[k] = Cell(connects, k, answer.symbols[k])
  <2>1. 0 \in 0 .. ChunkSize
    BY MessageConstants
  <2> QED BY <1>1, <2>1, CameFacts DEF MessageTypes
<1>3. receiveBufferOffset = answered /\ info \in Infos
  BY <1>2 DEF MessageTypes
<1> QED BY <1>1, <1>2, <1>3, RecvStep DEF Informed, Informs

LEMMA RecvEndsStep ==
  ASSUME MessageInv, RecvEnds
  PROVE  MessageInv'
<1> USE DEF MessageInv
<1> DEFINE n == request.length
<1>1. /\ state = "Receiving" /\ pc = "execute" /\ n > 0
      /\ receive' = Trimmed(n) /\ receiveBufferOffset' = receiveBufferOffset + n
      /\ held' = held \ {request.fd}
      /\ kept' = IF Reusable(answer.code) THEN kept \cup {request.fd} ELSE kept
      /\ IF answer.code \in {"ok", "noContent"}
           THEN state' = "Finished" /\ UNCHANGED failureCode
           ELSE state' = "Aborted" /\ failureCode' = failureCode \cup {"HTTP"}
      /\ pc' = "done"
      /\ UNCHANGED <<failures, version, sendBufferOffset, request, connects, wire, answer, answered,
                     busy>>
  BY DEF RecvEnds, Executing, peer
<1>2. n \in 1 .. ChunkSize
  BY <1>1 DEF Receiving, Again, Cancelled, Failed
<1>3. /\ receiveBufferOffset + n = answered
      /\ Trimmed(n) \in Vectors
      /\ Received(Trimmed(n), answered) = Said(answered)
      /\ answered \in 1 .. Len(answer.symbols) /\ answer \in Answers
  <2>1. n \in 0 .. ChunkSize /\ n > 0
    BY <1>2, MessageConstants
  <2> QED BY <1>1, <2>1, CameFacts
<1>4. PICK found \in Known(Said(answered)) :
        Finished(found, Said(answered)) /\ info' = Measured(found, Said(answered))
  BY <1>3 DEF RecvEnds
<1>5. found \in Infos
  BY <1>1, <1>3, <1>4, KnownFacts DEF MessageTypes, Informed
<1>6. answered \in 0 .. Len(answer.symbols) /\ answered \in Nat
  BY PresentAnswer DEF MessageTypes
<1>7. info' \in Infos /\ Finished(info', answer.symbols)
  BY <1>3, <1>4, <1>5, <1>6, MeasuredFacts, StaysFinished
<1>8. held = {connects} /\ request.fd = connects /\ kept = {} /\ connects \in 1 .. connects
  BY <1>1 DEF Control, Connected, MessageTypes
<1>9. state' \in {"Finished", "Aborted"} /\ held' = {} /\ kept' \subseteq {connects}
  BY <1>1, <1>8
<1>10. answer.code \in Codes
  BY <1>3, AnswersAssumption
<1>11. MessageTypes'
  <2>1. failureCode' \subseteq FailureCodes
    BY <1>1 DEF MessageTypes, FailureCodes
  <2>2. receive' \in Vectors /\ receiveBufferOffset' \in Nat
    BY <1>1, <1>3, <1>6
  <2>3. connects' \in Nat /\ held' \subseteq 1 .. connects' /\ kept' \subseteq 1 .. connects'
    BY <1>1, <1>8, <1>9 DEF MessageTypes
  <2> QED BY <1>1, <1>7, <1>9, <2>1, <2>2, <2>3 DEF MessageTypes
<1>12. Control'
  <2>1. kept' # {} => answer.code \in {"ok", "noContent"}
    BY <1>1, <1>8 DEF Reusable
  <2> QED BY <1>1, <1>9, <2>1 DEF Control, Connected
<1>13. CountedFailures' /\ RetriesFirst'
  <2>1. CountedFailures'
    BY <1>1 DEF CountedFailures
  <2>2. state' = "Aborted" => answer.code = "error"
    BY <1>1, <1>10 DEF Codes
  <2> QED BY <1>1, <1>7, <1>9, <2>1, <2>2 DEF RetriesFirst
<1>14. Sending' /\ Carried' /\ Receiving' /\ Informed' /\ Unanswered' /\ RoomSuffices'
  BY <1>1, <1>9 DEF Sending, Carried, Receiving, Informed, Informs, Unanswered, RoomSuffices
<1>15. Accepted'
  BY <1>1 DEF Accepted
<1> QED BY <1>11, <1>12, <1>13, <1>14, <1>15

LEMMA FailuresStep ==
  ASSUME MessageInv, ConnectFails \/ SendTimesOut \/ RecvEmpty \/ RecvUnreadable \/ RecvFails
  PROVE  MessageInv'
<1>1. receive \in Vectors /\ receiveBufferOffset \in Nat /\ failureCode \subseteq FailureCodes
  BY DEF MessageInv, MessageTypes
<1>2. CASE ConnectFails
  BY <1>1, <1>2, RestartStep DEF ConnectFails, Reset, Executing, FailureCodes
<1>3. CASE SendTimesOut
  BY <1>1, <1>3, RestartStep DEF SendTimesOut, Reset, Executing, FailureCodes
<1>4. CASE RecvEmpty
  BY <1>1, <1>4, RestartStep DEF RecvEmpty, Reset, Executing, FailureCodes
<1>5. CASE RecvUnreadable
  <2>1. /\ state = "Receiving" /\ pc = "execute" /\ request.length > 0
        /\ ResetFrom(Trimmed(request.length), receiveBufferOffset + request.length, request.fd,
                     FailuresMax, failureCode \cup {"HTTP"})
    BY <1>5 DEF RecvUnreadable, Executing
  <2>2. request.length \in 0 .. ChunkSize
    BY <2>1, MessageConstants DEF MessageInv, Receiving, Again, Cancelled, Failed
  <2>3. Trimmed(request.length) \in Vectors
    BY <2>1, <2>2, CameFacts
  <2>4. receiveBufferOffset + request.length \in Nat
    BY <1>1, <2>2, MessageConstants
  <2>5. failureCode \cup {"HTTP"} \in SUBSET FailureCodes
    BY <1>1 DEF FailureCodes
  <2> QED BY <2>1, <2>3, <2>4, <2>5, RestartStep
<1>6. CASE RecvFails
  <2> DEFINE c == IF request.length = Cancelled THEN "Timeout" ELSE "Recv"
  <2>1. failureCode \cup {c} \in SUBSET FailureCodes
    BY <1>1 DEF FailureCodes
  <2>2. /\ state = "Receiving" /\ pc = "execute"
        /\ ResetFrom(receive, receiveBufferOffset, request.fd, FailuresMax, failureCode \cup {c})
    BY <1>6 DEF RecvFails, Reset, Executing
  <2> HIDE DEF c
  <2> QED BY <1>1, <2>1, <2>2, RestartStep
<1> QED BY <1>2, <1>3, <1>4, <1>5, <1>6

LEMMA AbortsStep ==
  ASSUME MessageInv, Aborts
  PROVE  MessageInv'
<1> USE DEF MessageInv
<1>1. /\ state = "Aborted" /\ pc' = "done"
      /\ UNCHANGED <<state, failures, failureCode, version, sendBufferOffset, receiveBufferOffset,
                     receive, info, request, held, connects, kept, wire, answer, answered, busy>>
  BY DEF Aborts, Executing, task, manager, peer
<1>2. MessageTypes' /\ Control' /\ CountedFailures' /\ RetriesFirst'
  BY <1>1 DEF MessageTypes, Control, Connected, CountedFailures, RetriesFirst
<1>3. Sending' /\ Receiving' /\ Informed' /\ Unanswered' /\ RoomSuffices'
  BY <1>1 DEF Sending, Receiving, Informed, Informs, Unanswered, RoomSuffices
<1>4. Carried' /\ Accepted'
  BY <1>1 DEF Carried, Whole, Accepted
<1> QED BY <1>2, <1>3, <1>4

-----------------------------------------------------------------------------
(* The kernel and the server. *)

\* What an operation that completes is of.
LEMMA UnderWay ==
  ASSUME MessageInv, pc = "wait"
  PROVE  /\ \/ state = "Sending" /\ request.event = "write" /\ request.length > 0
            \/ state = "Receiving" /\ request.event = "read" /\ request.length > 0
         /\ held = {connects} /\ request.fd = connects /\ kept = {}
<1>1. state \in {"Sending", "Receiving"}
  BY DEF MessageInv, Control
<1>2. CASE state = "Sending"
  <2>1. /\ request.event = "write" /\ request.length = Source(sendBufferOffset).length
        /\ sendBufferOffset \in 0 .. Total - 1 /\ version \in Nat
    BY <1>2, MessageConstants DEF MessageInv, Sending, MessageTypes
  <2>2. Source(sendBufferOffset).length \in 1 .. Total - sendBufferOffset
    BY <2>1, RestFacts
  <2>3. request.length > 0
    BY <2>1, <2>2, MessageConstants
  <2> QED BY <1>2, <2>1, <2>3 DEF MessageInv, Control, Connected
<1>3. CASE state = "Receiving"
  BY <1>3, MessageConstants DEF MessageInv, Receiving, Control, Connected
<1> QED BY <1>1, <1>2, <1>3

\* An operation that carried nothing has completed.
LEMMA NothingCarried ==
  ASSUME MessageInv, NEW event, NEW n \in {0, Again, Cancelled, Failed}, Completes(event, n),
         n = 0 => event = "read", UNCHANGED peer, busy' \in 0 .. MaxBusy
  PROVE  MessageInv'
<1> USE DEF MessageInv
<1>1. /\ pc = "wait" /\ pc' = "execute" /\ request.event = event
      /\ request' = [request EXCEPT !.length = n]
      /\ UNCHANGED <<state, failures, failureCode, version, sendBufferOffset, receiveBufferOffset,
                     receive, info, held, connects, kept, wire, answer, answered>>
  BY DEF Completes, task, manager, peer
<1>2. /\ state \in {"Sending", "Receiving"} /\ (n = 0 => state = "Receiving") /\ kept = {}
      /\ request \in Requests
  BY <1>1, UnderWay DEF MessageTypes
<1>3. /\ request' \in Requests /\ request'.length = n /\ request'.fd = request.fd
      /\ request'.event = request.event /\ request'.memory = request.memory
      /\ request'.at = request.at
  BY <1>1, <1>2 DEF Requests, Again, Cancelled, Failed
<1>4. MessageTypes'
  BY <1>1, <1>3 DEF MessageTypes
<1>5. Control' /\ CountedFailures' /\ RetriesFirst' /\ RoomSuffices'
  BY <1>1, <1>2, <1>3 DEF Control, Connected, CountedFailures, RetriesFirst, RoomSuffices
<1>6. Sending'
  BY <1>1, <1>2, <1>3 DEF Sending, Source
<1>7. Carried' /\ Accepted' /\ Unanswered' /\ Informed'
  BY <1>1 DEF Carried, Whole, Accepted, Unanswered, Informed, Informs
<1>8. Receiving'
  BY <1>1, <1>2, <1>3 DEF Receiving
<1> QED BY <1>4, <1>5, <1>6, <1>7, <1>8

LEMMA WritesStep ==
  ASSUME MessageInv, Writes
  PROVE  MessageInv'
<1> USE DEF MessageInv
<1>1. PICK n \in 1 .. request.length :
        /\ Completes("write", n)
        /\ wire' = wire \o [k \in 1 .. n |-> <<version, request.memory, request.at + k>>]
        /\ UNCHANGED <<answer, answered, busy>>
  BY DEF Writes
<1>2. /\ pc = "wait" /\ pc' = "execute" /\ request.event = "write"
      /\ request' = [request EXCEPT !.length = n]
      /\ UNCHANGED <<state, failures, failureCode, version, sendBufferOffset, receiveBufferOffset,
                     receive, info, held, connects, kept, answer, answered, busy>>
  BY <1>1 DEF Completes, task, manager
<1>3. /\ state = "Sending" /\ kept = {} /\ request \in Requests /\ version \in Nat
      /\ wire \in Seq(Bytes) /\ answer = NoAnswer /\ Len(wire) = sendBufferOffset
      /\ sendBufferOffset \in 0 .. Total - 1
  <2>1. /\ state = "Sending" /\ kept = {} /\ request \in Requests /\ version \in Nat
        /\ wire \in Seq(Bytes) /\ sendBufferOffset \in 0 .. Total
    BY <1>2, UnderWay DEF MessageTypes
  <2>2. answer = NoAnswer /\ Len(wire) = sendBufferOffset /\ sendBufferOffset < Total
    BY <1>2, <2>1 DEF Sending
  <2> QED BY <2>1, <2>2, MessageConstants
<1> DEFINE s == Source(sendBufferOffset)
           part == [k \in 1 .. n |-> <<version, request.memory, request.at + k>>]
<1>4. /\ request.memory = s.memory /\ request.at = s.at /\ request.length = s.length
      /\ s.length \in 1 .. Total - sendBufferOffset /\ s.memory \in {0, 1} /\ s.at \in Nat
      /\ \A k \in 1 .. s.length :
           Whole[sendBufferOffset + k] = <<version, s.memory, s.at + k>>
  BY <1>2, <1>3, RestFacts DEF Sending
<1> HIDE DEF s
<1>5. n \in Nat /\ n \in 1 .. s.length /\ sendBufferOffset + n <= Total
  BY <1>3, <1>4, MessageConstants
<1>6. part \in Seq(Bytes) /\ Len(part) = n
  <2>1. \A k \in 1 .. n : <<version, request.memory, request.at + k>> \in Bytes
    <3> TAKE k \in 1 .. n
    <3>1. request.memory \in {0, 1} /\ request.at + k \in Nat /\ version \in Nat
      BY <1>3, <1>4, <1>5
    <3> QED BY <3>1 DEF Bytes
  <2> QED BY <1>5, <2>1
<1>7. \A k \in 1 .. n : part[k] = Whole[sendBufferOffset + k]
  BY <1>4, <1>5
<1> HIDE DEF part
<1>8. /\ wire' \in Seq(Bytes) /\ Len(wire') = sendBufferOffset + n
      /\ \A k \in 1 .. sendBufferOffset + n :
           wire'[k] = IF k <= sendBufferOffset THEN wire[k] ELSE part[k - sendBufferOffset]
  <2>1. wire' = wire \o part
    BY <1>1 DEF part
  <2>2. /\ wire \o part \in Seq(Bytes) /\ Len(wire \o part) = Len(wire) + Len(part)
        /\ \A k \in 1 .. Len(wire) + Len(part) :
             (wire \o part)[k] = IF k <= Len(wire) THEN wire[k] ELSE part[k - Len(wire)]
    BY <1>3, <1>6, ConcatProperties
  <2> QED BY <1>3, <1>6, <2>1, <2>2
<1>9. /\ request' \in Requests /\ request'.length = n /\ request'.fd = request.fd
      /\ request'.event = request.event /\ request'.memory = request.memory
      /\ request'.at = request.at
  BY <1>2, <1>3, <1>5 DEF Requests
<1>10. MessageTypes'
  BY <1>2, <1>8, <1>9 DEF MessageTypes
<1>11. Control' /\ CountedFailures' /\ RetriesFirst' /\ RoomSuffices'
  BY <1>2, <1>3, <1>9 DEF Control, Connected, CountedFailures, RetriesFirst, RoomSuffices
<1>12. Sending'
  <2>1. Source(sendBufferOffset)' = s
    BY <1>2 DEF Source, s
  <2> QED BY <1>2, <1>3, <1>4, <1>5, <1>8, <1>9, <2>1 DEF Sending
<1>13. Carried'
  <2>1. Whole' = Whole
    BY <1>2 DEF Whole
  <2>2. \A k \in 1 .. sendBufferOffset : wire[k] = Whole[k]
    BY <1>2, <1>3, UnderWay DEF Carried
  <2>3. ASSUME NEW k \in 1 .. sendBufferOffset + n PROVE wire'[k] = Whole[k]
    <3>1. CASE k <= sendBufferOffset
      BY <1>3, <1>8, <2>2, <3>1
    <3>2. CASE k > sendBufferOffset
      <4>1. k - sendBufferOffset \in 1 .. n /\ sendBufferOffset + (k - sendBufferOffset) = k
        BY <1>3, <1>5, <3>2, MessageConstants
      <4>2. wire'[k] = part[k - sendBufferOffset]
        BY <1>3, <1>5, <1>8, <3>2, MessageConstants
      <4> QED BY <1>7, <4>1, <4>2
    <3> QED BY <1>3, <1>5, <3>1, <3>2, MessageConstants
  <2> QED BY <1>5, <1>8, <2>1, <2>3 DEF Carried
<1>14. Accepted' /\ Unanswered' /\ Informed' /\ Receiving'
  BY <1>2, <1>3 DEF Accepted, Unanswered, Informed, Informs, Receiving
<1> QED BY <1>10, <1>11, <1>12, <1>13, <1>14

LEMMA ReadsStep ==
  ASSUME MessageInv, Reads
  PROVE  MessageInv'
<1> USE DEF MessageInv
<1>1. PICK a \in Answers, n \in 1 .. request.length :
        /\ MayAnswer(a) /\ answered + n <= Len(a.symbols)
        /\ answer' = a /\ answered' = answered + n /\ request' = [request EXCEPT !.length = n]
        /\ receive' =
             IF request.memory # receive.memory THEN receive
             ELSE [receive EXCEPT !.cells =
                     [k \in DOMAIN @ |->
                        IF k - request.at \in 1 .. n
                          THEN LET at == answered + k - request.at IN
                               Cell(connects, at, a.symbols[at])
                          ELSE @[k]]]
  BY DEF Reads
<1>2. /\ pc = "wait" /\ pc' = "execute" /\ request.event = "read"
      /\ UNCHANGED <<state, failures, failureCode, version, sendBufferOffset, receiveBufferOffset,
                     info, held, connects, kept, wire, busy>>
  BY DEF Reads, manager
<1>3. /\ state = "Receiving" /\ kept = {} /\ request \in Requests /\ receive \in Vectors
      /\ request.length = ChunkSize /\ request.memory = receive.memory
      /\ request.at = receiveBufferOffset /\ answered = receiveBufferOffset
      /\ receive.size = receiveBufferOffset + ChunkSize
      /\ \A k \in 1 .. answered : receive.cells[k] = Cell(connects, k, answer.symbols[k])
      /\ answered \in Nat /\ n \in Nat \ {0} /\ n <= ChunkSize /\ connects \in Nat
  <2>1. /\ state = "Receiving" /\ kept = {} /\ request \in Requests /\ receive \in Vectors
        /\ answered \in 0 .. Len(answer.symbols) /\ Len(answer.symbols) \in Nat /\ connects \in Nat
        /\ receiveBufferOffset \in Nat
    BY <1>2, UnderWay, PresentAnswer DEF MessageTypes
  <2>2. /\ request.length = ChunkSize /\ request.memory = receive.memory
        /\ request.at = receiveBufferOffset /\ answered = receiveBufferOffset
        /\ receive.size = receiveBufferOffset + ChunkSize
        /\ \A k \in 1 .. answered : receive.cells[k] = Cell(connects, k, answer.symbols[k])
    BY <1>2, <2>1 DEF Receiving
  <2>3. n \in 1 .. ChunkSize /\ ChunkSize \in Nat
    BY <1>1, <2>2, MessageConstants
  <2> QED BY <2>1, <2>2, <2>3
<1>4. /\ a.symbols \in Seq(Symbols) /\ Len(a.symbols) \in Nat /\ a.code \in Codes
      /\ a # NoAnswer
  BY AnswersAssumption, LenProperties DEF NoAnswer, Codes
<1>5. IF answer # NoAnswer THEN a = answer
      ELSE answered = 0 /\ (a.code = "error" \/ Len(wire) = Total)
  <2>1. answer = NoAnswer => answered = 0
    <3>1. HAVE answer = NoAnswer
    <3>2. Len(answer.symbols) = 0
      BY <3>1 DEF NoAnswer
    <3> QED BY <3>2 DEF MessageTypes
  <2> QED BY <1>1, <2>1 DEF MayAnswer
<1> DEFINE f == [k \in 1 .. receive.capacity |->
                   IF k - answered \in 1 .. n THEN Cell(connects, k, a.symbols[k])
                   ELSE receive.cells[k]]
<1>6. DOMAIN receive.cells = 1 .. receive.capacity /\ receive.capacity \in Nat
      /\ receive.cells \in Seq(Cells) /\ answered + n <= receive.capacity
  <2>1. /\ receive.cells \in Seq(Cells) /\ Len(receive.cells) = receive.capacity
        /\ receive.capacity \in Nat /\ receive.size <= receive.capacity
    BY <1>3 DEF Vectors
  <2>2. DOMAIN receive.cells = 1 .. Len(receive.cells)
    BY <2>1, LenProperties
  <2> QED BY <1>3, <2>1, <2>2, MessageConstants
<1>7. receive' = [receive EXCEPT !.cells = f]
  <2> DEFINE g == [k \in DOMAIN receive.cells |->
                     IF k - request.at \in 1 .. n
                       THEN LET at == answered + k - request.at IN
                            Cell(connects, at, a.symbols[at])
                       ELSE receive.cells[k]]
  <2>1. receive' = [receive EXCEPT !.cells = g]
    BY <1>1, <1>3
  <2>2. g = f
    <3>1. ASSUME NEW k \in DOMAIN receive.cells
          PROVE  (IF k - request.at \in 1 .. n
                    THEN LET at == answered + k - request.at IN
                         Cell(connects, at, a.symbols[at])
                    ELSE receive.cells[k])
                 = (IF k - answered \in 1 .. n THEN Cell(connects, k, a.symbols[k])
                    ELSE receive.cells[k])
      <4>1. k \in Int /\ answered + k - request.at = k /\ request.at = answered
        BY <1>3, <1>6
      <4> QED BY <4>1
    <3> QED BY <1>6, <3>1
  <2> QED BY <2>1, <2>2
<1>8. f \in Seq(Cells) /\ Len(f) = receive.capacity
  <2>1. \A k \in 1 .. receive.capacity :
           (IF k - answered \in 1 .. n THEN Cell(connects, k, a.symbols[k])
            ELSE receive.cells[k]) \in Cells
    <3> TAKE k \in 1 .. receive.capacity
    <3>1. CASE k - answered \in 1 .. n
      <4>1. k \in 1 .. Len(a.symbols)
        BY <1>1, <1>3, <1>4, <3>1
      <4>2. a.symbols[k] \in Symbols
        BY <1>4, <4>1, ElementOfSeq
      <4> QED BY <1>3, <1>6, <3>1, <4>2 DEF Cell, Cells
    <3>2. CASE k - answered \notin 1 .. n
      BY <1>6, <3>2, ElementOfSeq, LenProperties DEF Vectors
    <3> QED BY <3>1, <3>2
  <2> QED BY <1>6, <2>1
<1>9. \A k \in 1 .. answered + n : f[k] = Cell(connects, k, a.symbols[k])
  <2> TAKE k \in 1 .. answered + n
  <2>1. k \in 1 .. receive.capacity /\ k \in Int /\ n \in Int /\ answered \in Int
    BY <1>3, <1>6
  <2>2. CASE k <= answered
    <3>1. k - answered \notin 1 .. n /\ answered # 0 /\ k \in 1 .. answered
      BY <1>3, <2>2
    <3> QED BY <1>3, <1>5, <2>1, <3>1
  <2>3. CASE k > answered
    <3>1. k - answered \in 1 .. n
      BY <1>3, <2>1, <2>3
    <3> QED BY <2>1, <3>1
  <2> QED BY <2>1, <2>2, <2>3
<1> HIDE DEF f
<1>10. /\ receive' \in Vectors /\ receive'.cells = f /\ receive'.memory = receive.memory
       /\ receive'.size = receive.size
  BY <1>3, <1>7, <1>8 DEF Vectors
<1>11. /\ request' \in Requests /\ request'.length = n /\ request'.fd = request.fd
       /\ request'.event = "read"
  BY <1>1, <1>2, <1>3 DEF Requests
<1>12. MessageTypes'
  <2>1. answered' \in 0 .. Len(answer'.symbols)
    BY <1>1, <1>3, <1>4
  <2> QED BY <1>1, <1>2, <1>10, <1>11, <2>1 DEF MessageTypes
<1>13. Control' /\ CountedFailures' /\ RetriesFirst' /\ RoomSuffices' /\ Sending' /\ Unanswered'
  BY <1>2, <1>3, <1>11
    DEF Control, Connected, CountedFailures, RetriesFirst, RoomSuffices, Sending, Unanswered
<1>14. Carried' /\ Accepted'
  BY <1>1, <1>2, <1>5 DEF Carried, Whole, Accepted
<1>15. Informed'
  BY <1>1, <1>2, <1>4, <1>5 DEF Informed, Informs
<1>16. Receiving'
  BY <1>1, <1>2, <1>3, <1>9, <1>10, <1>11 DEF Receiving
<1> QED BY <1>12, <1>13, <1>14, <1>15, <1>16

-----------------------------------------------------------------------------
(* MessageInv is inductive. *)

LEMMA InitInv == Init => MessageInv
<1> SUFFICES ASSUME Init PROVE MessageInv
  OBVIOUS
<1> USE DEF Init
<1>1. receive \in Vectors
  <2>1. PICK c \in Capacities : receive = IF c = 0 THEN EmptyVector ELSE UserVector(c)
    OBVIOUS
  <2>2. c \in Nat
    BY HTTPAssumption
  <2>3. EmptyVector \in Vectors
    BY EmptySeq DEF EmptyVector, Vectors
  <2>4. UserVector(c) \in Vectors
    <3> DEFINE f == [k \in 1 .. c |-> Fresh]
    <3>1. f \in Seq(Cells) /\ Len(f) = c
      <4>1. Fresh \in Cells
        BY DEF Fresh, Cell, Cells, Symbols
      <4> QED BY <2>2, <4>1
    <3>2. UserVector(c) = [owned |-> FALSE, capacity |-> c, size |-> 0, memory |-> 0,
                           cells |-> f]
      BY DEF UserVector
    <3> HIDE DEF f
    <3> QED BY <2>2, <3>1, <3>2 DEF Vectors
  <2> QED BY <2>1, <2>3, <2>4
<1>2. NoInfo \in Infos /\ ~ NoInfo.known
  BY MessageConstants DEF NoInfo, Infos, Encodings
<1>3. NoRequest \in Requests
  BY DEF NoRequest, Requests, NoFd
<1>4. NoAnswer.symbols = <<>> /\ Len(<<>>) = 0
  BY DEF NoAnswer
<1>5. MessageTypes
  BY <1>1, <1>2, <1>3, <1>4, MessageConstants DEF MessageTypes
<1>6. Control /\ CountedFailures /\ RetriesFirst /\ RoomSuffices
  BY MessageConstants DEF Control, Connected, CountedFailures, RetriesFirst, RoomSuffices
<1>7. Sending /\ Carried /\ Accepted /\ Unanswered /\ Receiving /\ Informed
  BY <1>2 DEF Sending, Carried, Accepted, Unanswered, Receiving, Informed, Informs
<1> QED BY <1>5, <1>6, <1>7 DEF MessageInv

LEMMA NextInv == MessageInv /\ [Next]_vars => MessageInv'
<1> SUFFICES ASSUME MessageInv, [Next]_vars PROVE MessageInv'
  OBVIOUS
<1>1. CASE Execute
  <2>1. CASE Connect \/ SendContinues \/ SendFails
    BY <2>1, ConnectStep, SendContinuesStep, SendFailsStep
  <2>2. CASE ConnectFails \/ SendTimesOut \/ RecvEmpty \/ RecvUnreadable \/ RecvFails
    BY <2>2, FailuresStep
  <2>3. CASE FirstRecv \/ RecvContinues \/ RecvAgain
    BY <2>3, FirstRecvStep, RecvContinuesStep, RecvAgainStep
  <2>4. CASE RecvEnds \/ Aborts
    BY <2>4, RecvEndsStep, AbortsStep
  <2> QED BY <1>1, <2>1, <2>2, <2>3, <2>4 DEF Execute
<1>2. CASE Kernel
  <2>1. busy \in 0 .. MaxBusy /\ MaxBusy \in Nat
    BY MessageConstants DEF MessageInv, MessageTypes
  <2>2. CASE Writes
    BY <2>2, WritesStep
  <2>3. CASE Reads
    BY <2>3, ReadsStep
  <2>4. CASE Closes
    BY <2>1, <2>4, NothingCarried DEF Closes
  <2>5. CASE Fails
    <3>1. PICK n \in {Failed, Cancelled}, event \in {"read", "write"} :
            Completes(event, n) /\ UNCHANGED <<peer, busy>>
      BY <2>5 DEF Fails
    <3> QED BY <2>1, <3>1, NothingCarried DEF Failed, Cancelled
  <2>6. CASE NotReady
    <3>1. PICK event \in {"read", "write"} : Completes(event, Again)
      BY <2>6 DEF NotReady
    <3>2. busy' \in 0 .. MaxBusy /\ UNCHANGED peer
      BY <2>1, <2>6 DEF NotReady
    <3> QED BY <3>1, <3>2, NothingCarried DEF Again
  <2> QED BY <1>2, <2>2, <2>3, <2>4, <2>5, <2>6 DEF Kernel
<1>3. CASE UNCHANGED vars
  <2> USE <1>3 DEF vars, task, manager, peer
  <2>1. MessageTypes' /\ Control' /\ CountedFailures' /\ RetriesFirst' /\ RoomSuffices'
    BY DEF MessageInv, MessageTypes, Control, Connected, CountedFailures, RetriesFirst, RoomSuffices
  <2>2. Sending' /\ Carried' /\ Accepted' /\ Unanswered' /\ Receiving' /\ Informed'
    BY DEF MessageInv, Sending, Source, Carried, Whole, Accepted, Unanswered, Receiving, Informed, Informs
  <2> QED BY <2>1, <2>2 DEF MessageInv
<1> QED BY <1>1, <1>2, <1>3 DEF Next

\* In every reachable state the control, the counters, the connection, the operation
\* under way and the buffers agree, whatever is cut, delayed, refused or retried.
THEOREM MessageInvariant == Spec => []MessageInv
  BY InitInv, NextInv, PTL DEF Spec

-----------------------------------------------------------------------------
(* What follows from it. *)

\* A message is tried again as often as it should be, and holds one connection at most,
\* which it uses and gives back.
THEOREM AttemptsCounted == Spec => []AttemptsSound
<1>1. ASSUME MessageInv PROVE TypeOK
  <2>1. CountedFailures /\ MessageTypes
    BY <1>1 DEF MessageInv
  <2>2. failures \in 0 .. FailuresMax + 2
    BY <2>1, MessageConstants DEF CountedFailures, MessageTypes
  <2>3. receive.size \in 0 .. receive.capacity /\ Len(receive.cells) = receive.capacity
    BY <2>1 DEF MessageTypes, Vectors
  <2>4. info.length \in (0 .. NPos) \cup Garbage /\ request.length \in Int
    BY <2>1 DEF MessageTypes, Infos, Requests
  <2> QED BY <2>1, <2>2, <2>3, <2>4 DEF TypeOK, MessageTypes
<1>2. ASSUME MessageInv PROVE OneConnection
  <2>1. held = {} \/ held = {connects}
    BY <1>2 DEF MessageInv, MessageTypes, Control, Connected
  <2>2. Cardinality(held) <= 1
    BY <2>1, FS_EmptySet, FS_Singleton
  <2>3. held \cap kept = {} /\ (pc = "done" => held = {})
    BY <1>2 DEF MessageInv, Control, Connected
  <2>4. pc = "wait" => request.fd \in held
    BY <1>2 DEF MessageInv, Control, Connected
  <2> QED BY <2>2, <2>3, <2>4 DEF OneConnection
<1>3. MessageInv => AttemptsSound
  BY <1>1, <1>2 DEF AttemptsSound, MessageInv
<1> QED BY <1>3, MessageInvariant, PTL

\* Each connection carries a beginning of the request and nothing else.
THEOREM PrefixOnTheWire == Spec => []WireIsPrefix
<1>1. MessageInv => WireIsPrefix
  <2> SUFFICES ASSUME MessageInv, held # {} PROVE IsPrefix(wire, Whole)
    BY DEF WireIsPrefix
  <2>1. /\ wire \in Seq(Bytes) /\ Len(wire) <= Total /\ version \in Nat
        /\ \A k \in 1 .. Len(wire) : wire[k] = Whole[k]
    BY DEF MessageInv, MessageTypes, Carried
  <2>2. Whole \in Seq(Bytes) /\ Len(Whole) = Total /\ Len(wire) \in Nat /\ Total \in Nat
    BY <2>1, WholeFacts, LenProperties, MessageConstants
  <2> DEFINE w == SubSeq(Whole, 1, Len(wire))
  <2>3. w \in Seq(Bytes) /\ Len(w) = Len(wire) /\ \A k \in 1 .. Len(wire) : w[k] = Whole[k]
    <3>1. \A k \in 1 .. Len(wire) : Whole[k] \in Bytes
      BY <2>1, <2>2, ElementOfSeq
    <3>2. /\ w \in Seq(Bytes) /\ Len(w) = IF 1 <= Len(wire) THEN Len(wire) - 1 + 1 ELSE 0
          /\ \A k \in 1 .. Len(wire) - 1 + 1 : w[k] = Whole[1 + k - 1]
      <4>1. 1 \in Int /\ Len(wire) \in Int
        BY <2>2
      <4> QED BY ONLY <3>1, <4>1, SubSeqProperties
    <3> HIDE DEF w
    <3> QED BY <2>2, <3>2
  <2> HIDE DEF w
  <2>4. w = wire
    BY <2>1, <2>3, SeqEqual
  <2>5. SubSeq(wire, 1, Len(wire)) = wire
    BY <2>1, SubSeqFull
  <2> QED BY <2>1, <2>2, <2>4, <2>5 DEF IsPrefix, w
<1> QED BY <1>1, MessageInvariant, PTL

\* A read goes to memory the vector has, within its size and right behind what came;
\* execute throws only when the answer and a chunk do not fit in the user's buffer.
THEOREM ReadsLandWhereTheyBelong == Spec => []BufferSound
<1>1. MessageInv => BufferSound
  <2> SUFFICES ASSUME MessageInv PROVE ReadsInBounds /\ RoomSuffices
    BY DEF BufferSound
  <2>1. ReadsInBounds
    <3> SUFFICES ASSUME pc = "wait", request.event = "read"
                 PROVE  /\ request.memory = receive.memory
                        /\ request.at + request.length = receive.size
                        /\ request.at = answered
      BY DEF ReadsInBounds
    <3>1. state = "Receiving"
      BY UnderWay
    <3> QED BY <3>1 DEF MessageInv, Receiving
  <2> QED BY <2>1 DEF MessageInv
<1> QED BY <1>1, MessageInvariant, PTL

\* An answer whose end is where finished looks for it has come as a whole when a
\* beginning of it is found to be finished, and its content is as long as it is told.
LEMMA WholeWhenFinished ==
  ASSUME answer \in Answers, answer.code \in {"ok", "noContent"}, info \in Infos, Informs,
         NEW i \in 1 .. Len(answer.symbols),
         NEW found \in Known(Said(i)), Finished(found, Said(i))
  PROVE  /\ i = Len(answer.symbols)
         /\ answer.code = "ok" => LET m == Measured(found, Said(i)) IN
              m.header = answer.head /\ m.length = answer.body
<1> DEFINE s == Said(i)
           n == Len(answer.symbols)
<1>1. /\ found \in Infos /\ Supported(answer)
      /\ found.code = answer.code /\ found.encoding = answer.encoding
      /\ answer.code # "noContent" => found.header = answer.head
      /\ answer.encoding = "length" => found.length = answer.length
      /\ answer.code = "noContent" => Readable(s)
  BY KnownFacts
<1>2. n \in Nat /\ n < Modulus /\ Modulus \in Nat \ {0} /\ NPos = Modulus - 1
      /\ i \in Nat /\ i <= n
  BY PresentAnswer, AnswersAssumption DEF NPos
<1>3. /\ Len(s) = i /\ DOMAIN s = 1 .. i
      /\ \A k \in 1 .. i : s[k] = answer.symbols[k]
  BY <1>2, SaidFacts
<1>4. answer.head \in Nat /\ answer.body \in Nat /\ answer.encoding \in Encodings
  BY AnswersAssumption
<1>5. CASE answer.code = "noContent"
  <2>1. PICK k \in 1 .. i : answer.symbols[k] \in {"end", "zero"}
    BY <1>1, <1>3, <1>5 DEF Readable
  <2>2. \A j \in 1 .. n - 1 : answer.symbols[j] \notin {"end", "zero"}
    BY <1>5, EndsAssumption
  <2> QED BY <1>2, <1>5, <2>1, <2>2
<1>6. CASE answer.code = "ok" /\ answer.encoding = "length"
  <2>1. answer.length = answer.body /\ answer.head + answer.body = n
    BY <1>6, EndsAssumption
  <2>2. i >= answer.head + answer.body
    BY <1>1, <1>3, <1>6, <2>1 DEF Finished
  <2>3. Measured(found, s) = found
    BY <1>1, <1>6 DEF Measured
  <2> QED BY <1>1, <1>2, <1>6, <2>1, <2>2, <2>3
<1>7. CASE answer.code = "ok" /\ answer.encoding = "chunked"
  <2>1. Terminators(answer.symbols) = {n} /\ answer.head + answer.body = n - 1
    BY <1>7, EndsAssumption
  <2>2. FoundAt(s) # NPos
    BY <1>1, <1>7 DEF Finished
  <2>3. /\ FoundAt(s) \in 0 .. NPos /\ FoundAt(s) + 1 \in 1 .. i
        /\ FoundAt(s) + 1 \in Terminators(answer.symbols)
    BY <1>2, <2>2, FoundFacts
  <2>4. i = n /\ FoundAt(s) = n - 1
    BY <1>2, <2>1, <2>3
  <2>5. Measured(found, s) = [found EXCEPT !.length = (FoundAt(s) - found.header) % Modulus]
    BY <1>1, <1>7, <2>2 DEF Measured
  <2>6. (FoundAt(s) - found.header) % Modulus = answer.body
    <3>1. FoundAt(s) - found.header = answer.body /\ answer.body < Modulus
      BY <1>1, <1>2, <1>4, <1>7, <2>1, <2>4
    <3> QED BY <1>2, <1>4, <3>1
  <2>7. Measured(found, s).length = answer.body /\ Measured(found, s).header = found.header
    BY <1>1, <2>5, <2>6 DEF Infos
  <2> QED BY <1>1, <1>7, <2>4, <2>7
<1> QED BY <1>1, <1>4, <1>5, <1>6, <1>7 DEF Supported, Encodings

LEMMA FinishedStep ==
  ASSUME MessageInv, FinishedWhole, [Next]_vars
  PROVE  FinishedWhole'
<1>1. CASE RecvEnds
  <2> DEFINE n == request.length
  <2>1. /\ state = "Receiving" /\ pc = "execute" /\ n > 0
        /\ receive' = Trimmed(n)
        /\ IF answer.code \in {"ok", "noContent"} THEN state' = "Finished" ELSE state' = "Aborted"
        /\ UNCHANGED <<version, connects, wire, answer, answered>>
    BY <1>1 DEF RecvEnds, Executing, peer
  <2>2. SUFFICES ASSUME state' = "Finished" PROVE FinishedWhole'
    BY DEF FinishedWhole
  <2>3. n \in 0 .. ChunkSize
    BY <2>1, MessageConstants DEF MessageInv, Receiving, Again, Cancelled, Failed
  <2>4. /\ receiveBufferOffset + n = answered
        /\ Trimmed(n).size = answered
        /\ \A k \in 1 .. answered : Trimmed(n).cells[k] = Cell(connects, k, answer.symbols[k])
        /\ Received(Trimmed(n), answered) = Said(answered)
        /\ answered \in 1 .. Len(answer.symbols) /\ answer \in Answers
    BY <2>1, <2>3, CameFacts
  <2>5. PICK found \in Known(Said(answered)) :
          Finished(found, Said(answered)) /\ info' = Measured(found, Said(answered))
    BY <1>1, <2>4 DEF RecvEnds
  <2>6. answer.code \in {"ok", "noContent"}
    BY <2>1, <2>2
  <2>7. /\ answered = Len(answer.symbols)
        /\ answer.code = "ok" => info'.header = answer.head /\ info'.length = answer.body
    BY <2>1, <2>4, <2>5, <2>6, WholeWhenFinished DEF MessageInv, MessageTypes, Informed
  <2>8. wire = Whole
    <3>1. /\ wire \in Seq(Bytes) /\ version \in Nat /\ Len(wire) = Total
          /\ \A k \in 1 .. Len(wire) : wire[k] = Whole[k]
      <4>1. answer # NoAnswer
        BY <2>6 DEF NoAnswer
      <4>2. held # {}
        BY <2>1 DEF MessageInv, Control, Connected
      <4> QED BY <2>6, <4>1, <4>2 DEF MessageInv, MessageTypes, Accepted, Carried
    <3> QED BY <3>1, WholeFacts, SeqEqual
  <2>9. Whole' = Whole
    BY <2>1 DEF Whole
  <2> QED BY <2>1, <2>4, <2>7, <2>8, <2>9 DEF FinishedWhole
<1>2. CASE ~ RecvEnds
  <2>1. state = "Finished" => UNCHANGED vars
    <3>1. state = "Finished" => pc = "done"
      BY DEF MessageInv, Control
    <3> QED BY <3>1 DEF Next, Execute, Kernel, Connect, ConnectFails, SendContinues, SendTimesOut,
                    SendFails, FirstRecv, RecvEmpty, RecvContinues, RecvEnds, RecvUnreadable,
                    RecvAgain, RecvFails, Aborts, Executing, Writes, Reads, Closes, Fails,
                    NotReady, Completes
  <2>2. CASE state = "Finished"
    <3> USE <2>1, <2>2 DEF vars, task, manager, peer
    <3> QED BY DEF FinishedWhole, Whole
  <2>3. CASE state # "Finished"
    <3>1. state' # "Finished"
      BY <1>2, <2>3 DEF Next, Execute, Kernel, Connect, ConnectFails, SendContinues, SendTimesOut,
                    SendFails, FirstRecv, RecvEmpty, RecvContinues, RecvUnreadable,
                    RecvAgain, RecvFails, Aborts, Writes, Reads, Closes, Fails,
                    NotReady, Completes, Reset, ResetFrom, Restart, PrepareSend, PrepareToReceive,
                    PrepareRecv, vars, task
    <3> QED BY <3>1 DEF FinishedWhole
  <2> QED BY <2>2, <2>3
<1> QED BY <1>1, <1>2

\* If the server's answers end where finished looks for their end: a finished message
\* has sent its whole request and holds the whole answer of one connection, and a
\* connection that is kept has nothing left on it.
THEOREM WholeAnswers == Spec => []HandedOnWhole
<1>1. Init => FinishedWhole
  BY DEF Init, FinishedWhole
<1>2. MessageInv /\ FinishedWhole /\ [Next]_vars => FinishedWhole'
  BY FinishedStep
<1>3. MessageInv /\ FinishedWhole => HandedOnWhole
  BY DEF MessageInv, Control, FinishedWhole, KeptIsClean, HandedOnWhole
<1> QED BY <1>1, <1>2, <1>3, MessageInvariant, PTL DEF Spec

=============================================================================
