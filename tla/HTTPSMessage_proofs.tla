------------------------- MODULE HTTPSMessage_proofs -------------------------
(***************************************************************************)
(* Proofs about HTTPSMessage, for any sizes of the request, the chunk and  *)
(* the records, any limits, addresses and answers.  HTTPSInv is inductive; *)
(* the properties of the run follow from it.                               *)
(***************************************************************************)
EXTENDS HTTPSMessage, HTTPMessage_proofs

-----------------------------------------------------------------------------
(* The inductive invariant. *)

Tokens ==
  {Hello, Fin, Bye}
    \cup [kind : {"data"}, left : {0}, version : Nat, memory : {0, 1}, at : Nat]
    \cup [kind : {"data"}, at : Nat, left : Nat]

Statuses == {"Init", "Finished", "SendingInit", "Sending", "Receiving", "Aborted"}

Connections ==
  [progress : Statuses, networkBioRead : Nat, socketWrite : Nat, internalBioRead : Nat,
   connected : BOOLEAN, buffer : Seq(Tokens), out : Seq(Tokens), in : Seq(Tokens), want : Nat,
   partial : Seq(Tokens), written : Nat, phase : {"new", "hello", "up", "closing"},
   address : Addresses, session : Nat, reused : BOOLEAN]

LiveStates == {"TLSHandshake", "InitSending", "InitReceiving", "Receiving", "TLSShutdown"}
Live == state \in LiveStates

Types ==
  /\ state \in LiveStates \cup {"Init", "Finished", "Aborted"}
  /\ pc \in {"execute", "wait", "return", "close", "done", "thrown"}
  /\ failures \in Nat
  /\ failureCode \subseteq FailureCodes \cup {"TLS"}
  /\ version \in Nat
  /\ sendBufferOffset \in 0 .. Total
  /\ request \in Requests
  /\ connects \in Nat
  /\ held \subseteq 1 .. connects
  /\ kept \subseteq 1 .. connects
  /\ answer \in Answers \cup {NoAnswer}
  /\ answered \in Nat
  /\ fd \in Nat
  /\ tls \in [DOMAIN tls -> Connections]
  /\ outcome \in [status : Statuses \cup {"Progress"}, length : Int]
  /\ sendErrors \in 0 .. MaxSendErrors
  /\ sessionCache \in [0 .. CacheSize - 1 -> [first : Nat, second : Nat]]

\* Failures are counted past a limit only by the one that aborts the message.
Counted ==
  /\ failures <= FailuresMax + 2
  /\ state # "Aborted" => failures <= FailuresMax + 1

\* A message has a connection in the live states and in no other, and no connection but
\* that one and the kept ones has a TLS object.  The request names it once there was one.
Attached ==
  /\ held \cap kept = {}
  /\ DOMAIN tls = IF Live THEN kept \cup {fd} ELSE kept
  /\ Live => fd \in held /\ request.fd \in {NoFd, fd}
  /\ state \in {"Init", "Aborted"} => request.fd = NoFd
  /\ pc = "execute" => state \in LiveStates \cup {"Init", "Aborted"}
  /\ pc \in {"wait", "return"} => Live
  /\ pc = "close" => state = "TLSShutdown"
  /\ pc = "thrown" => state = "InitReceiving"
  /\ pc = "done" => state \in {"Finished", "Aborted"}

\* Nothing of an operation or an answer is left.
FreshTLS(c) ==
  /\ c.out = <<>> /\ c.in = <<>> /\ c.partial = <<>> /\ c.written = 0
  /\ c.progress = "Finished" /\ c.phase = "up"

Ended(status) == pc = "return" /\ outcome.status = status

Pumps == {"SendingInit", "Sending", "Receiving"}

\* A pump under way has its operation with the kernel, or the result of it; what is
\* returned tells of how it ended.
PumpInv(c) ==
  /\ pc = "wait" => \/ c.progress = "Sending" /\ request.event = "write"
                    \/ c.progress = "Receiving" /\ request.event = "read"
  /\ c.progress \in Pumps => pc \in {"execute", "wait"} /\ ~ (state = "TLSHandshake" /\ c.connected)
  /\ c.progress = "Aborted" => state = "TLSShutdown" \/ Ended("Aborted")
  /\ c.progress = "Init" => c.phase = "new"
  /\ c.progress \in {"Sending", "Receiving", "Aborted"} => request.fd = fd
  /\ pc = "return" => Ended("Finished") \/ Ended("Aborted")
  /\ Ended("Aborted") => request.fd = fd
  /\ Ended("Finished") => c.progress = "Finished"

\* How far the connection is at each state of the message.
PhaseInv(c) ==
  /\ c.phase = "new" =>
       state = "TLSHandshake" /\ pc = "execute" /\ c.progress = "Init" /\ ~ c.connected
  /\ state = "TLSHandshake" /\ ~ c.connected /\ ~ Ended("Finished") => c.phase \in {"new", "hello"}
  /\ state = "TLSHandshake" /\ Ended("Finished") =>
       c.phase = "up" /\ c.in = <<>> /\ c.partial = <<>>
  /\ state = "TLSHandshake" /\ c.connected => FreshTLS(c) /\ ~ Ended("Aborted")
  /\ state \in {"InitSending", "InitReceiving", "Receiving"} => c.phase = "up"
  /\ state = "TLSShutdown" => c.phase \in {"up", "closing"} /\ request.fd = fd
  /\ state = "TLSShutdown" /\ c.phase = "up" => FreshTLS(c) /\ pc = "execute"
  /\ state \in {"InitReceiving", "Receiving"} /\ Ended("Finished") =>
       FreshTLS(c) /\ request.fd = fd

\* What OpenSSL left for the socket fits into a chunk, and is gone before anything is read.
OutInv(c) ==
  /\ Len(c.out) <= ChunkSize
  /\ c.phase = "new" => c.out = <<>> /\ c.in = <<>> /\ c.partial = <<>>
  /\ c.progress \in {"Sending", "Receiving"} => c.out = <<>>
  /\ c.partial # <<>> \/ c.in # <<>> => c.out = <<>> /\ request.fd = fd
  /\ c.progress = "SendingInit" => c.want > 0 \/ c.out # <<>>

\* A part of an SSL_write has been taken only while one is repeated.
WrittenInv(c) ==
  /\ state # "InitSending" => c.written = 0
  /\ state = "TLSHandshake" => sendBufferOffset = 0
  /\ state = "InitSending" =>
       /\ sendBufferOffset < Total
       /\ c.written <= Source(sendBufferOffset).length
       /\ c.partial = <<>> /\ c.in = <<>>
       /\ Ended("Finished") => c.written = 0 /\ outcome.length = Source(sendBufferOffset).length

\* How much is left of the record whose n-th token was delivered last (n counts the
\* greeting, of length g).
LeftAt(a, n, g) == IF n - g \in 1 .. Len(a.symbols) THEN DataTokens(a)[n - g].left ELSE 0

Owed == LeftAt(answer, answered, Len(Greeting))

\* Of these tokens only the last may be the last of its record.
Piece(s) == \A k \in 1 .. Len(s) - 1 : s[k].left # 0

\* The kernel has read into the buffer what has not gone into the BIO yet.
HasRead == pc = "execute" /\ request.length > 0

\* What OpenSSL and the pump have of the answer belongs to one record, and no more of it
\* is asked for than there is: a record ends exactly with the last token read.
StreamInv(c) ==
  /\ answered > Len(Greeting) => answer # NoAnswer
  /\ Piece(c.partial) /\ (c.partial # <<>> => Last(c.partial).left # 0)
  /\ Piece(c.in) /\ (c.in # <<>> => Last(c.in).left = Owed)
  /\ c.progress \in Pumps =>
       /\ c.in = <<>>
       /\ c.want = 0 <=> state = "InitSending"
  /\ c.progress = "Receiving" =>
       /\ c.want # 0 /\ c.internalBioRead = c.want
       /\ request.length \in Failed .. c.want
       /\ pc = "wait" => request.length >= 1
  /\ IF c.progress = "Receiving" /\ HasRead
       THEN Len(c.buffer) = request.length /\ Piece(c.buffer) /\ Last(c.buffer).left = Owed
       ELSE /\ c.in = <<>> => Owed = IF c.partial = <<>> THEN 0 ELSE Last(c.partial).left
            /\ c.progress \in Pumps /\ c.want # 0 => c.want = IF Owed = 0 THEN 1 ELSE Owed

ConnInv(c) == PumpInv(c) /\ PhaseInv(c) /\ OutInv(c) /\ WrittenInv(c) /\ StreamInv(c)

HTTPSInv ==
  /\ Types
  /\ Counted
  /\ Attached
  /\ \A f \in kept : FreshTLS(tls[f])
  /\ Live => ConnInv(tls[fd])

-----------------------------------------------------------------------------
(* The constants, the request and the records. *)

LEMMA Constants ==
  /\ MessageLength \in Nat \ {0} /\ PutLength \in Nat /\ ChunkSize \in Nat \ {0}
  /\ FailuresMax \in Nat /\ ConnectionFailuresMax \in Nat
  /\ ConnectionFailuresMax <= FailuresMax
  /\ Total \in Nat \ {0} /\ RecordSize \in Nat \ {0} /\ MaxSendErrors \in Nat
  /\ CacheSize \in Nat \ {0} /\ Addresses \subseteq Nat \ {0}
BY HTTPAssumption, TLSAssumption, TLSContextAssumption DEF Total

\* What is left of the request has a length.
LEMMA SourceFacts ==
  ASSUME NEW n \in Nat, n < Total
  PROVE  /\ Source(n).length \in Nat \ {0} /\ n + Source(n).length <= Total
         /\ Source(n).at \in Nat /\ Source(n).memory \in {0, 1}
BY Constants DEF Source, Total

LEMMA MinOfTwo ==
  ASSUME NEW i \in Int, NEW j \in Int
  PROVE  Min({i, j}) = IF i <= j THEN i ELSE j
BY DEF Min

LEMMA MinOfOne ==
  ASSUME NEW i \in Int
  PROVE  Min({i}) = i
BY DEF Min

\* Within a block of d, the place in it goes up with the number.
LEMMA PlaceInBlock ==
  ASSUME NEW d \in Nat \ {0}, NEW n \in Nat, NEW j \in Nat, (n % d) + j < d
  PROVE  (n % d) \in 0 .. d - 1 /\ (n + j) % d = (n % d) + j
<1>1. n = d * (n \div d) + (n % d) /\ (n % d) \in 0 .. d - 1 /\ n \div d \in Int
  OBVIOUS
<1>2. n + j = d * ((n + j) \div d) + ((n + j) % d) /\ ((n + j) % d) \in 0 .. d - 1
      /\ (n + j) \div d \in Int
  OBVIOUS
<1> DEFINE p == n \div d
           q == (n + j) \div d
           r == (n + j) % d
           s == (n % d) + j
<1>3. d * p + s = d * q + r /\ p \in Int /\ q \in Int /\ r \in 0 .. d - 1 /\ s \in 0 .. d - 1
  BY <1>1, <1>2
<1> HIDE DEF p, q, r, s
<1>4. d * (p - q) = r - s /\ r - s < d /\ s - r < d
  BY <1>3
<1>5. p - q = 0
  <2>1. CASE p - q >= 1
    <3>1. d * (p - q) >= d
      BY <2>1, <1>3
    <3> QED BY <3>1, <1>4, <1>3
  <2>2. CASE p - q <= -1
    <3>1. d * (p - q) <= - d
      BY <2>2, <1>3
    <3> QED BY <3>1, <1>4, <1>3
  <2> QED BY <2>1, <2>2, <1>3
<1>6. r = s
  BY <1>3, <1>4, <1>5
<1> QED BY <1>6, <1>1 DEF r, s

\* Behind a token with l left of its record come l tokens of the same record.
LEMMA LeftCounts ==
  ASSUME NEW a, Len(a.symbols) \in Nat, NEW k \in 1 .. Len(a.symbols)
  PROVE  /\ DataTokens(a)[k].left \in 0 .. Len(a.symbols) - k
         /\ \A j \in 1 .. DataTokens(a)[k].left :
              DataTokens(a)[k + j].left = DataTokens(a)[k].left - j
<1> DEFINE m == (k - 1) % RecordSize
           e == k + RecordSize - 1 - m
           n == Len(a.symbols)
<1>1. m \in 0 .. RecordSize - 1 /\ RecordSize \in Nat \ {0} /\ e \in Nat /\ e >= k
      /\ n \in Nat
  BY Constants
<1>2. Min({n, e}) = IF n <= e THEN n ELSE e
  BY <1>1, MinOfTwo
<1>3. DataTokens(a)[k].left = (IF n <= e THEN n ELSE e) - k
  <2>1. DataTokens(a)[k].left = Min({n, e}) - k
    BY DEF DataTokens
  <2> QED BY <2>1, <1>2
<1>4. ASSUME NEW j \in 1 .. DataTokens(a)[k].left
      PROVE  DataTokens(a)[k + j].left = DataTokens(a)[k].left - j
  <2>1. j \in Nat /\ k + j <= n /\ k + j <= e
    BY <1>1, <1>3
  <2>2. (k - 1 + j) % RecordSize = m + j
    <3>1. k - 1 \in Nat /\ ((k - 1) % RecordSize) + j < RecordSize
      BY <2>1, <1>1
    <3> QED BY <3>1, <2>1, <1>1, PlaceInBlock
  <2>3. DataTokens(a)[k + j].left
          = Min({n, k + j + RecordSize - 1 - ((k + j - 1) % RecordSize)}) - (k + j)
    BY <2>1 DEF DataTokens
  <2>4. k + j - 1 = k - 1 + j
    BY <2>1
  <2>5. k + j + RecordSize - 1 - (m + j) = e
    BY <2>1, <1>1
  <2>6. Min({n, k + j + RecordSize - 1 - ((k + j - 1) % RecordSize)}) = Min({n, e})
    BY <2>2, <2>4, <2>5
  <2>7. DataTokens(a)[k + j].left = (IF n <= e THEN n ELSE e) - (k + j)
    BY <2>3, <2>6, <1>2
  <2> HIDE DEF e, n
  <2> QED BY <2>7, <1>3, <1>1, <2>1
<1>5. DataTokens(a)[k].left \in 0 .. n - k
  <2> HIDE DEF e, n
  <2>1. k \in 1 .. n
    BY DEF n
  <2> QED BY <2>1, <1>1, <1>3
<1> QED BY <1>4, <1>5

LEMMA TokenFacts ==
  /\ \A t \in Tokens : t.left \in Nat
  /\ Hello \in Tokens /\ Fin \in Tokens /\ Bye \in Tokens
  /\ Hello.left = 0 /\ Bye.left = 0
BY DEF Tokens, Hello, Fin, Bye

LEMMA ConcatFacts ==
  ASSUME NEW S, NEW s \in Seq(S), NEW t \in Seq(S)
  PROVE  /\ s \o t \in Seq(S) /\ Len(s \o t) = Len(s) + Len(t)
         /\ \A k \in 1 .. Len(s) + Len(t) :
              (s \o t)[k] = IF k <= Len(s) THEN s[k] ELSE t[k - Len(s)]
BY ConcatProperties

LEMMA FunctionSeq ==
  ASSUME NEW S, NEW n \in Nat, NEW f \in [1 .. n -> S]
  PROVE  f \in Seq(S) /\ Len(f) = n
OBVIOUS

LEMMA LastFacts ==
  ASSUME NEW s \in Seq(Tokens), s # <<>>
  PROVE  Len(s) \in Nat \ {0} /\ Last(s) = s[Len(s)] /\ Last(s) \in Tokens
<1>1. Len(s) \in Nat \ {0}
  BY EmptySeq
<1> QED BY <1>1, ElementOfSeq DEF Last

\* The i-th token of a connection whose greeting has g of them, if the answer is a.
Sends(g, a, i) ==
  IF i <= g THEN Hello ELSE IF i <= g + Len(a.symbols) THEN DataTokens(a)[i - g] ELSE Bye

\* The stream is the greeting, the answer in its records, and the closing.
LEMMA StreamFacts ==
  ASSUME NEW a, Len(a.symbols) \in Nat
  PROVE  /\ Len(Greeting) \in {0, 1}
         /\ Stream(a) \in Seq(Tokens)
         /\ Len(Stream(a)) = Len(Greeting) + Len(a.symbols) + 1
         /\ \A i \in 1 .. Len(Stream(a)) : /\ Stream(a)[i] = Sends(Len(Greeting), a, i)
                                          /\ Stream(a)[i].left = LeftAt(a, i, Len(Greeting))
<1> DEFINE d == DataTokens(a)
<1>1. Greeting \in Seq(Tokens) /\ Len(Greeting) \in {0, 1}
      /\ \A i \in 1 .. Len(Greeting) : Greeting[i] = Hello
  BY TokenFacts DEF Greeting
<1>2. d \in Seq(Tokens) /\ Len(d) = Len(a.symbols)
  <2>1. \A k \in 1 .. Len(a.symbols) : d[k] \in Tokens
    <3> SUFFICES ASSUME NEW k \in 1 .. Len(a.symbols) PROVE d[k] \in Tokens
      OBVIOUS
    <3>1. d[k].left \in Nat
      BY LeftCounts
    <3>2. d[k] = [kind |-> "data", at |-> k, left |-> d[k].left]
      BY DEF DataTokens
    <3> HIDE DEF d
    <3> QED BY <3>1, <3>2 DEF Tokens
  <2>2. d = [k \in 1 .. Len(a.symbols) |-> d[k]]
    BY DEF DataTokens
  <2> HIDE DEF d
  <2>3. d \in [1 .. Len(a.symbols) -> Tokens]
    BY <2>1, <2>2
  <2> QED BY <2>3, FunctionSeq
<1>3. <<Bye>> \in Seq(Tokens) /\ Len(<<Bye>>) = 1 /\ <<Bye>>[1] = Bye
  BY TokenFacts
<1> HIDE DEF d
<1>4. Greeting \o d \in Seq(Tokens) /\ Len(Greeting \o d) = Len(Greeting) + Len(d)
      /\ \A i \in 1 .. Len(Greeting) + Len(d) :
           (Greeting \o d)[i] = IF i <= Len(Greeting) THEN Greeting[i] ELSE d[i - Len(Greeting)]
  BY ONLY <1>1, <1>2, ConcatFacts
<1>5. Stream(a) = (Greeting \o d) \o <<Bye>>
  BY DEF Stream, d
<1>6. Stream(a) \in Seq(Tokens) /\ Len(Stream(a)) = Len(Greeting) + Len(d) + 1
      /\ \A i \in 1 .. Len(Stream(a)) :
           Stream(a)[i] = IF i <= Len(Greeting) + Len(d) THEN (Greeting \o d)[i]
                          ELSE <<Bye>>[i - (Len(Greeting) + Len(d))]
  <2> DEFINE s == Greeting \o d
             b == <<Bye>>
  <2>1. s \in Seq(Tokens) /\ b \in Seq(Tokens) /\ Len(s) = Len(Greeting) + Len(d) /\ Len(b) = 1
        /\ Stream(a) = s \o b
    BY <1>1, <1>2, <1>3, <1>4, <1>5
  <2> HIDE DEF s, b
  <2>2. /\ s \o b \in Seq(Tokens) /\ Len(s \o b) = Len(s) + Len(b)
        /\ \A k \in 1 .. Len(s) + Len(b) :
             (s \o b)[k] = IF k <= Len(s) THEN s[k] ELSE b[k - Len(s)]
    <3>1. s \in Seq(Tokens) /\ b \in Seq(Tokens)
      BY <2>1
    <3> QED BY ONLY <3>1, ConcatFacts
  <2> QED BY <2>1, <2>2 DEF s, b
<1>7. ASSUME NEW i \in 1 .. Len(Stream(a))
      PROVE  /\ Stream(a)[i] = Sends(Len(Greeting), a, i)
             /\ Stream(a)[i].left = LeftAt(a, i, Len(Greeting))
  <2>0. i \in Nat /\ i >= 1 /\ i <= Len(Greeting) + Len(d) + 1 /\ Len(d) = Len(a.symbols)
        /\ Len(Greeting) \in Nat
    BY <1>1, <1>2, <1>6, <1>7
  <2>1. CASE i <= Len(Greeting)
    <3>1. Stream(a)[i] = Greeting[i] /\ Greeting[i] = Hello /\ i - Len(Greeting) \notin 1 .. Len(a.symbols)
      <4>1. i \in 1 .. Len(Greeting) /\ i \in 1 .. Len(Greeting) + Len(d) /\ i \in 1 .. Len(Stream(a))
         /\ i <= Len(Greeting) + Len(d)
        BY <2>0, <2>1, <1>6
      <4>2. Stream(a)[i] = (Greeting \o d)[i]
        BY <4>1, <2>0, <1>6
      <4>3. (Greeting \o d)[i] = Greeting[i]
        BY <4>1, <2>1, <1>4
      <4> QED BY <4>1, <4>2, <4>3, <1>1, <2>0, <2>1
    <3> QED BY <2>1, <3>1, TokenFacts DEF LeftAt, Sends
  <2>2. CASE i > Len(Greeting) /\ i <= Len(Greeting) + Len(d)
    <3>1. Stream(a)[i] = d[i - Len(Greeting)] /\ i - Len(Greeting) \in 1 .. Len(a.symbols)
      <4>1. i \in 1 .. Len(Greeting) + Len(d) /\ i \in 1 .. Len(Stream(a)) /\ ~ (i <= Len(Greeting))
        BY <2>0, <2>2, <1>6
      <4>2. Stream(a)[i] = (Greeting \o d)[i]
        BY <4>1, <2>0, <2>2, <1>6
      <4>3. (Greeting \o d)[i] = d[i - Len(Greeting)]
        BY <4>1, <1>4
      <4> QED BY <4>1, <4>2, <4>3, <2>0, <2>2
    <3>2. LeftAt(a, i, Len(Greeting)) = d[i - Len(Greeting)].left
      BY ONLY <3>1 DEF LeftAt, d
    <3>3. Sends(Len(Greeting), a, i) = d[i - Len(Greeting)]
      BY ONLY <2>0, <2>2 DEF Sends, d
    <3> QED BY ONLY <3>1, <3>2, <3>3
  <2>3. CASE i = Len(Greeting) + Len(d) + 1
    <3>1. Stream(a)[i] = <<Bye>>[1] /\ i - Len(Greeting) \notin 1 .. Len(a.symbols)
      <4>1. Len(d) \in Nat /\ i \in 1 .. Len(Stream(a))
        BY <1>2, <1>7
      <4>2. ~ (i <= Len(Greeting) + Len(d)) /\ i - (Len(Greeting) + Len(d)) = 1
            /\ i - Len(Greeting) = Len(a.symbols) + 1
        BY ONLY <2>0, <2>3, <4>1
      <4>3. Stream(a)[i] = <<Bye>>[1]
        BY ONLY <4>1, <4>2, <1>6
      <4>4. Len(a.symbols) + 1 \notin 1 .. Len(a.symbols)
        BY <1>2
      <4> QED BY ONLY <4>2, <4>3, <4>4
    <3>2. LeftAt(a, i, Len(Greeting)) = 0
      BY ONLY <3>1 DEF LeftAt
    <3>3. Sends(Len(Greeting), a, i) = Bye
      BY ONLY <2>0, <2>3 DEF Sends
    <3> QED BY ONLY <3>1, <3>2, <3>3, <1>3, TokenFacts
  <2> QED BY <2>0, <2>1, <2>2, <2>3
<1> QED BY <1>1, <1>2, <1>6, <1>7

\* After n tokens w are asked for: what is left of a record, or the first of the next.
Asked(a, n, w) ==
  w = IF LeftAt(a, n, Len(Greeting)) = 0 THEN 1 ELSE LeftAt(a, n, Len(Greeting))

\* The l tokens after the first n are of one record.
ReadOf(a, n, l) == SubSeq(Stream(a), n + 1, n + l)
OfOneRecord(a, n, l) ==
  /\ ReadOf(a, n, l) \in Seq(Tokens) /\ Len(ReadOf(a, n, l)) = l
  /\ Piece(ReadOf(a, n, l)) /\ Last(ReadOf(a, n, l)).left = LeftAt(a, n + l, Len(Greeting))

\* A read of no more than was asked for does not go beyond the record.
LEMMA PieceRead ==
  ASSUME NEW a, Len(a.symbols) \in Nat, NEW n \in Nat, NEW w \in Nat, Asked(a, n, w),
         NEW l \in 1 .. w, n + l <= Len(Stream(a))
  PROVE  OfOneRecord(a, n, l)
<1> DEFINE s == SubSeq(Stream(a), n + 1, n + l)
           g == Len(Greeting)
<1>1. g \in {0, 1} /\ Stream(a) \in Seq(Tokens)
      /\ \A i \in 1 .. Len(Stream(a)) : Stream(a)[i].left = LeftAt(a, i, g)
  BY StreamFacts
<1>2. s \in Seq(Tokens) /\ Len(s) = l /\ \A i \in 1 .. l : s[i] = Stream(a)[n + i]
  <2> DEFINE t == Stream(a)
  <2>1. t \in Seq(Tokens) /\ n + 1 \in 1 .. Len(t) + 1 /\ n + l \in 0 .. Len(t) /\ s = SubSeq(t, n + 1, n + l)
    BY <1>1
  <2> HIDE DEF t, s
  <2>2. s \in Seq(Tokens) /\ Len(s) = (n + l) - (n + 1) + 1
        /\ \A i \in 1 .. (n + l) - (n + 1) + 1 : s[i] = t[(n + 1) + i - 1]
    <3>1. \A i \in n + 1 .. n + l : t[i] \in Tokens
      BY <2>1
    <3>2. n + 1 \in Int /\ n + l \in Int /\ n + 1 <= n + l
      OBVIOUS
    <3> QED BY ONLY <2>1, <3>1, <3>2, SubSeqProperties
  <2>3. (n + l) - (n + 1) + 1 = l /\ \A i \in 1 .. l : (n + 1) + i - 1 = n + i
    OBVIOUS
  <2> QED BY <2>2, <2>3 DEF t
<1>3. \A i \in 1 .. l : s[i].left = LeftAt(a, n + i, g)
  BY <1>1, <1>2
<1> HIDE DEF s
<1>4. s # <<>> /\ Last(s) = s[l]
  BY <1>2, LastFacts
<1>5. Last(s).left = LeftAt(a, n + l, g)
  BY <1>3, <1>4
<1>6. ASSUME NEW i \in 1 .. l - 1
      PROVE  s[i].left # 0
  <2> DEFINE k == n - g
  <2>1. LeftAt(a, n, g) # 0 /\ w = LeftAt(a, n, g)
    BY <1>6 DEF Asked
  <2>2. k \in 1 .. Len(a.symbols) /\ LeftAt(a, n, g) = DataTokens(a)[k].left
    BY <2>1 DEF LeftAt
  <2>3. (n + i) - g = k + i
    BY <1>1, <1>6
  <2> HIDE DEF k
  <2>4. /\ DataTokens(a)[k].left \in 0 .. Len(a.symbols) - k
        /\ \A j \in 1 .. DataTokens(a)[k].left :
             DataTokens(a)[k + j].left = DataTokens(a)[k].left - j
    BY <2>2, LeftCounts
  <2>5. DataTokens(a)[k].left = w /\ i \in 1 .. w
    BY <2>1, <2>2, <1>6
  <2>6. DataTokens(a)[k + i].left = w - i /\ k + i \in 1 .. Len(a.symbols)
    BY <2>2, <2>4, <2>5
  <2>7. LeftAt(a, n + i, g) = DataTokens(a)[k + i].left
    BY ONLY <2>3, <2>6 DEF LeftAt
  <2>8. s[i].left = LeftAt(a, n + i, g)
    BY <1>3, <1>6
  <2>9. w - i # 0
    BY <1>6
  <2> QED BY ONLY <2>6, <2>7, <2>8, <2>9
<1> QED BY <1>2, <1>5, <1>6 DEF Piece, s, OfOneRecord, ReadOf

-----------------------------------------------------------------------------
(* OpenSSL. *)

Joined(c) == c.partial \o c.in

\* What OpenSSL has of a record ends with it, or it wants what is left of it.
\* OpenSSL wants more of the record; or it has taken it as a whole.
Waits(c) ==
  /\ Absorb(c).record = <<>>
  /\ Absorb(c).ssl =
       [c EXCEPT !.partial = Joined(c), !.in = <<>>,
                 !.want = IF Joined(c) = <<>> THEN 1 ELSE Last(Joined(c)).left]
  /\ Piece(Joined(c))
  /\ Joined(c) # <<>> => Last(Joined(c)).left # 0

Takes(c) ==
  /\ Absorb(c).record = Joined(c) /\ Joined(c) # <<>>
  /\ Absorb(c).ssl = [c EXCEPT !.partial = <<>>, !.want = 0, !.in = <<>>]
  /\ c.in # <<>> /\ Last(c.in).left = 0

LEMMA AbsorbFacts ==
  ASSUME NEW c \in Connections, Piece(c.partial), c.partial # <<>> => Last(c.partial).left # 0,
         Piece(c.in)
  PROVE  /\ Joined(c) \in Seq(Tokens)
         /\ Joined(c) = <<>> <=> c.partial = <<>> /\ c.in = <<>>
         /\ Joined(c) # <<>> => Last(Joined(c)) = IF c.in = <<>> THEN Last(c.partial) ELSE Last(c.in)
         /\ Piece(Joined(c))
         /\ Waits(c) \/ Takes(c)
<1> DEFINE all == Joined(c)
           p == c.partial
           q == c.in
<1>1. p \in Seq(Tokens) /\ q \in Seq(Tokens) /\ Len(p) \in Nat /\ Len(q) \in Nat
  BY DEF Connections
<1>2. /\ all \in Seq(Tokens) /\ Len(all) = Len(p) + Len(q)
      /\ \A k \in 1 .. Len(p) + Len(q) : all[k] = IF k <= Len(p) THEN p[k] ELSE q[k - Len(p)]
  <2>1. all = p \o q
    BY DEF Joined
  <2>2. p \in Seq(Tokens) /\ q \in Seq(Tokens)
    BY <1>1
  <2> HIDE DEF all, p, q
  <2> QED BY ONLY <2>1, <2>2, ConcatFacts
<1>3. (p = <<>> <=> Len(p) = 0) /\ (q = <<>> <=> Len(q) = 0) /\ (all = <<>> <=> Len(all) = 0)
  BY <1>1, <1>2, EmptySeq
<1>4. \A k \in 1 .. Len(p) : p[k].left # 0
  <2>1. p # <<>> => p[Len(p)].left # 0
    BY <1>1, LastFacts
  <2>2. \A k \in 1 .. Len(p) - 1 : p[k].left # 0
    BY DEF Piece
  <2> QED BY <2>1, <2>2, <1>1, <1>3
<1>5. \A k \in 1 .. Len(q) - 1 : q[k].left # 0
  BY DEF Piece
<1> HIDE DEF all, p, q
<1>6. ASSUME NEW k \in 1 .. Len(all) - 1
      PROVE  all[k].left # 0
  <2>1. CASE k <= Len(p)
    <3>1. k \in 1 .. Len(p) /\ k \in 1 .. Len(p) + Len(q)
      BY <2>1, <1>1, <1>2
    <3> QED BY <3>1, <2>1, <1>2, <1>4
  <2>2. CASE ~ (k <= Len(p))
    <3>1. k - Len(p) \in 1 .. Len(q) - 1 /\ k \in 1 .. Len(p) + Len(q)
      BY <2>2, <1>1, <1>2
    <3> QED BY <3>1, <2>2, <1>2, <1>5
  <2> QED BY <2>1, <2>2
<1>7. all # <<>> => Last(all) = IF q = <<>> THEN Last(p) ELSE Last(q)
  <2>1. Len(all) # 0 => all[Len(all)] = IF Len(q) = 0 THEN p[Len(p)] ELSE q[Len(q)]
    BY <1>1, <1>2
  <2>2. (q # <<>> => Last(q) = q[Len(q)]) /\ (p # <<>> => Last(p) = p[Len(p)])
        /\ (all # <<>> => Last(all) = all[Len(all)])
    BY <1>1, <1>2, LastFacts
  <2> QED BY <2>1, <2>2, <1>1, <1>2, <1>3
<1> DEFINE ends == {k \in DOMAIN all : all[k].left = 0}
<1>8. ASSUME all # <<>> /\ Last(all).left = 0
      PROVE  Takes(c)
  <2>1. Len(all) \in Nat \ {0} /\ all[Len(all)].left = 0
    BY <1>2, <1>8, LastFacts
  <2>2. ends = {Len(all)}
    BY <2>1, <1>2, <1>6
  <2>3. ends # {} /\ Min(ends) = Len(all)
    BY <2>1, <2>2, MinOfOne
  <2> HIDE DEF ends
  <2>4. SubSeq(all, 1, Len(all)) = all /\ SubSeq(all, Len(all) + 1, Len(all)) = <<>>
    <3>1. SubSeq(all, 1, Len(all)) = all
      BY ONLY <1>2, SubSeqFull
    <3>2. Len(all) \in Int /\ Len(all) + 1 \in Int /\ Len(all) < Len(all) + 1
      BY ONLY <2>1
    <3>3. SubSeq(all, Len(all) + 1, Len(all)) = <<>>
      BY ONLY <3>2, SubSeqEmpty
    <3> QED BY <3>1, <3>3
  <2>5. /\ Absorb(c).record = SubSeq(all, 1, Min(ends))
        /\ Absorb(c).ssl = [c EXCEPT !.partial = <<>>, !.want = 0,
                                     !.in = SubSeq(all, Min(ends) + 1, Len(all))]
    BY <2>3 DEF Absorb, ends, all, Joined
  <2>6. q # <<>>
    <3> SUFFICES ASSUME q = <<>> PROVE FALSE
      OBVIOUS
    <3>1. Len(all) = Len(p) /\ all[Len(all)] = p[Len(p)]
      BY <1>1, <1>2, <1>3, <2>1
    <3> QED BY <3>1, <1>4, <2>1
  <2>7. Absorb(c).record = all
    BY <2>3, <2>4, <2>5
  <2>8. Absorb(c).ssl = [c EXCEPT !.partial = <<>>, !.want = 0, !.in = <<>>]
    BY <2>3, <2>4, <2>5
  <2>9. Last(q).left = 0
    BY <2>6, <1>7, <1>8
  <2> QED BY <2>6, <2>7, <2>8, <2>9, <1>8 DEF q, all, Takes
<1>9. ASSUME ~ (all # <<>> /\ Last(all).left = 0)
      PROVE  Waits(c)
  <2>1. ends = {}
    <3>1. all # <<>> => all[Len(all)].left # 0
      BY <1>9, <1>2, LastFacts
    <3> QED BY <3>1, <1>2, <1>3, <1>6
  <2> HIDE DEF ends
  <2>2. /\ Absorb(c).record = <<>>
        /\ Absorb(c).ssl = [c EXCEPT !.partial = all, !.in = <<>>,
                                     !.want = IF all = <<>> THEN 1 ELSE Last(all).left]
    BY <2>1 DEF Absorb, ends, all, Joined
  <2>3. Piece(all)
    BY <1>6 DEF Piece
  <2> QED BY <2>2, <2>3, <1>9 DEF all, Waits
<1>10. all \in Seq(Tokens) /\ (all = <<>> <=> p = <<>> /\ q = <<>>)
  BY <1>1, <1>2, <1>3
<1>11. Piece(all)
  BY <1>6 DEF Piece
<1> QED BY <1>7, <1>8, <1>9, <1>10, <1>11 DEF all, p, q

\* So it is with a connection that no pump is under way on.
LEMMA Absorbed ==
  ASSUME NEW c \in Connections, StreamInv(c), OutInv(c), c.progress \notin Pumps,
         NEW d, d = Absorb(c).ssl
  PROVE  /\ d \in Connections
         /\ d = [c EXCEPT !.partial = d.partial, !.in = <<>>, !.want = d.want]
         /\ Piece(d.partial) /\ (d.partial # <<>> => Last(d.partial).left # 0)
         /\ Owed = IF d.partial = <<>> THEN 0 ELSE Last(d.partial).left
         /\ Absorb(c).record = <<>> =>
              /\ d.want = IF Owed = 0 THEN 1 ELSE Owed
              /\ d.partial # <<>> => c.out = <<>> /\ request.fd = fd
         /\ Absorb(c).record # <<>> =>
              /\ d.partial = <<>> /\ d.want = 0 /\ Len(Absorb(c).record) \in Nat
              /\ c.out = <<>> /\ request.fd = fd
<1> DEFINE all == Joined(c)
<1>1. /\ Piece(c.partial) /\ (c.partial # <<>> => Last(c.partial).left # 0)
      /\ Piece(c.in) /\ (c.in # <<>> => Last(c.in).left = Owed)
      /\ c.in = <<>> => Owed = IF c.partial = <<>> THEN 0 ELSE Last(c.partial).left
  BY DEF StreamInv, Pumps
<1>2. /\ all \in Seq(Tokens)
      /\ all = <<>> <=> c.partial = <<>> /\ c.in = <<>>
      /\ all # <<>> => Last(all) = IF c.in = <<>> THEN Last(c.partial) ELSE Last(c.in)
      /\ Waits(c) \/ Takes(c)
  BY <1>1, AbsorbFacts
<1>3. c.partial # <<>> \/ c.in # <<>> => c.out = <<>> /\ request.fd = fd
  BY DEF OutInv
<1>4. Owed = IF all = <<>> THEN 0 ELSE Last(all).left
  BY <1>1, <1>2
<1>5. all # <<>> => Last(all).left \in Nat
  BY <1>2, LastFacts, TokenFacts
<1>6. Piece(<<>>)
  BY DEF Piece
<1> HIDE DEF all
<1>7. CASE Waits(c)
  <2>1. /\ Absorb(c).record = <<>>
        /\ d = [c EXCEPT !.partial = all, !.in = <<>>,
                         !.want = IF all = <<>> THEN 1 ELSE Last(all).left]
        /\ Piece(all) /\ (all # <<>> => Last(all).left # 0)
    BY <1>7 DEF Waits, all
  <2>2. d \in Connections /\ d.partial = all /\ d.in = <<>>
        /\ d.want = IF all = <<>> THEN 1 ELSE Last(all).left
    <3> DEFINE w == IF all = <<>> THEN 1 ELSE Last(all).left
    <3>1. w \in Nat /\ d = [c EXCEPT !.partial = all, !.in = <<>>, !.want = w]
      BY <1>5, <2>1
    <3>2. all \in Seq(Tokens) /\ c \in Connections
      BY <1>2
    <3> HIDE DEF w
    <3>3. d \in Connections /\ d.partial = all /\ d.in = <<>> /\ d.want = w
      BY ONLY <3>1, <3>2, EmptySeq DEF Connections
    <3> QED BY <3>3 DEF w
  <2>3. d = [c EXCEPT !.partial = d.partial, !.in = <<>>, !.want = d.want]
    BY <2>1, <2>2
  <2>4. d.want = IF Owed = 0 THEN 1 ELSE Owed
    BY <2>1, <2>2, <1>4
  <2> QED BY <2>1, <2>2, <2>3, <2>4, <1>2, <1>3, <1>4
<1>8. CASE Takes(c)
  <2>1. /\ Absorb(c).record = all /\ all # <<>>
        /\ d = [c EXCEPT !.partial = <<>>, !.want = 0, !.in = <<>>]
        /\ c.in # <<>> /\ Last(c.in).left = 0
    BY <1>8 DEF Takes, all
  <2>2. d \in Connections /\ d.partial = <<>> /\ d.in = <<>> /\ d.want = 0
    <3> DEFINE p == <<>>
               w == 0
    <3>1. /\ w \in Nat /\ d = [c EXCEPT !.partial = p, !.in = <<>>, !.want = w]
          /\ p \in Seq(Tokens) /\ c \in Connections
      BY <2>1, EmptySeq
    <3> HIDE DEF p, w
    <3>3. d \in Connections /\ d.partial = p /\ d.in = <<>> /\ d.want = w
      BY ONLY <3>1, EmptySeq DEF Connections
    <3> QED BY <3>3 DEF p, w
  <2>3. d = [c EXCEPT !.partial = d.partial, !.in = <<>>, !.want = d.want]
    BY <2>1, <2>2
  <2>4. Len(all) \in Nat
    BY <1>2
  <2> QED BY <2>1, <2>2, <2>3, <2>4, <1>1, <1>3, <1>6
<1> QED BY <1>2, <1>7, <1>8

\* What the connection c is after OpenSSL was called, and what was returned.
Outcome(c, r) ==
  /\ r.error \in {"want", "none", "fatal"}
  /\ r.length \in Int
  /\ r.ssl \in Connections
  /\ r.ssl.progress = c.progress /\ r.ssl.connected = c.connected /\ r.ssl.session = c.session
  /\ r.ssl.in = <<>>
  /\ Piece(r.ssl.partial) /\ (r.ssl.partial # <<>> => Last(r.ssl.partial).left # 0)
  /\ Owed = IF r.ssl.partial = <<>> THEN 0 ELSE Last(r.ssl.partial).left
  /\ Len(r.ssl.out) <= ChunkSize
  /\ r.ssl.phase = IF state = "TLSHandshake" THEN (IF r.error = "none" THEN "up" ELSE "hello")
                   ELSE IF state = "TLSShutdown" THEN "closing" ELSE "up"
  /\ state = "InitSending" =>
       /\ r.ssl.written <= Source(sendBufferOffset).length
       /\ r.ssl.partial = <<>>
       /\ r.error = "none" => r.ssl.written = 0 /\ r.length = Source(sendBufferOffset).length
  /\ state # "InitSending" => r.ssl.written = 0
  /\ r.error = "want" =>
       /\ r.ssl.want > 0 \/ r.ssl.out # <<>>
       /\ r.ssl.want = IF state = "InitSending" THEN 0 ELSE IF Owed = 0 THEN 1 ELSE Owed
       /\ r.ssl.partial # <<>> => r.ssl.out = <<>> /\ request.fd = fd
  /\ r.error # "want" => r.ssl.partial = <<>> /\ c.progress = "Finished"
  /\ r.error = "fatal" => request.fd = fd /\ state # "InitSending"
  /\ state \in {"InitReceiving", "Receiving"} /\ r.error = "none" => r.ssl.out = <<>> /\ request.fd = fd

\* OpenSSL may be called on c.
Callable(c) ==
  /\ c \in Connections
  /\ ConnInv(c)
  /\ pc = "execute"
  /\ c.progress \in {"Init", "Finished"}
  /\ ~ (state = "TLSHandshake" /\ c.connected)

LEMMA ReadResult ==
  ASSUME NEW c, Callable(c), state \in {"InitReceiving", "Receiving"}, NEW r \in SSLRead(c)
  PROVE  Outcome(c, r)
<1> DEFINE d == Absorb(c).ssl
           rec == Absorb(c).record
<1>1. c \in Connections /\ StreamInv(c) /\ OutInv(c) /\ c.progress \notin Pumps
      /\ c.phase = "up" /\ c.written = 0 /\ c.progress = "Finished" /\ Len(c.out) <= ChunkSize
  BY DEF Callable, ConnInv, PumpInv, PhaseInv, WrittenInv, OutInv, Pumps
<1>2. /\ d \in Connections
      /\ d = [c EXCEPT !.partial = d.partial, !.in = <<>>, !.want = d.want]
      /\ Piece(d.partial) /\ (d.partial # <<>> => Last(d.partial).left # 0)
      /\ Owed = IF d.partial = <<>> THEN 0 ELSE Last(d.partial).left
      /\ rec = <<>> =>
              /\ d.want = IF Owed = 0 THEN 1 ELSE Owed
              /\ d.partial # <<>> => c.out = <<>> /\ request.fd = fd
      /\ rec # <<>> =>
              /\ d.partial = <<>> /\ d.want = 0 /\ Len(rec) \in Nat
              /\ c.out = <<>> /\ request.fd = fd
  BY <1>1, Absorbed
<1>3. \/ rec = <<>> /\ r = Result("want", 0, d)
      \/ rec # <<>> /\ r = [Result("none", Len(rec), d) EXCEPT !.record = rec]
      \/ rec # <<>> /\ r = Result("fatal", 0, d)
  BY DEF SSLRead, Read
<1> HIDE DEF d, rec
<1>4. d.progress = c.progress /\ d.connected = c.connected /\ d.session = c.session
      /\ d.in = <<>> /\ d.out = c.out /\ d.phase = c.phase /\ d.written = c.written
  BY <1>1, <1>2 DEF Connections
<1>5. CASE rec = <<>>
  <2>1. r.error = "want" /\ r.length = 0 /\ r.ssl = d
    BY <1>3, <1>5 DEF Result
  <2>2. d.want > 0
    BY <1>2, <1>5 DEF Connections
  <2> QED BY <1>1, <1>2, <1>4, <1>5, <2>1, <2>2 DEF Outcome
<1>6. CASE rec # <<>>
  <2>1. r.error \in {"none", "fatal"} /\ r.length \in Int /\ r.ssl = d
    BY <1>2, <1>3, <1>6 DEF Result
  <2> QED BY <1>1, <1>2, <1>4, <1>6, <2>1 DEF Outcome
<1> QED BY <1>5, <1>6

LEMMA AppendOne ==
  ASSUME NEW t
  PROVE  Append(<<>>, t) = <<t>>
OBVIOUS

LEMMA ConnectResult ==
  ASSUME NEW c, Callable(c), state = "TLSHandshake", NEW r \in SSLConnect(c)
  PROVE  Outcome(c, r)
<1> DEFINE d == Absorb(c).ssl
           rec == Absorb(c).record
<1>1. /\ c \in Connections /\ StreamInv(c) /\ OutInv(c) /\ c.progress \notin Pumps
      /\ c.phase \in {"new", "hello"} /\ c.written = 0
      /\ c.progress \in {"Init", "Finished"} /\ (c.progress = "Init" => c.phase = "new")
      /\ Len(c.out) <= ChunkSize
  BY DEF Callable, ConnInv, PumpInv, PhaseInv, WrittenInv, OutInv, Pumps, Ended
<1>2. CASE c.phase = "new"
  <2> DEFINE o == <<Hello>>
             e == [c EXCEPT !.phase = "hello", !.out = o, !.want = 1]
  <2>1. c.out = <<>> /\ c.partial = <<>> /\ c.in = <<>>
    BY <1>1, <1>2 DEF OutInv
  <2>2. Owed = 0
    BY <1>1, <2>1 DEF StreamInv, Pumps
  <2>3. r = Result("want", 0, e)
    <3>1. r = Result("want", 0, [c EXCEPT !.phase = "hello", !.out = Append(c.out, Hello), !.want = 1])
      BY <1>2 DEF SSLConnect
    <3>2. Append(c.out, Hello) = o
      BY <2>1, AppendOne
    <3> QED BY <3>1, <3>2
  <2>4. o \in Seq(Tokens) /\ Len(o) = 1 /\ o # <<>> /\ Len(o) <= ChunkSize
    BY TokenFacts, Constants
  <2> HIDE DEF o
  <2>5. /\ e \in Connections /\ e.out = o /\ e.phase = "hello" /\ e.want = 1
        /\ e.progress = c.progress /\ e.connected = c.connected /\ e.session = c.session
        /\ e.in = c.in /\ e.partial = c.partial /\ e.written = c.written
    BY <1>1, <2>4 DEF Connections
  <2> HIDE DEF e
  <2>6. r.error = "want" /\ r.length = 0 /\ r.ssl = e
    BY <2>3 DEF Result
  <2>7. Piece(c.partial)
    BY <1>1 DEF StreamInv
  <2>8. r.ssl.phase = "hello" /\ r.ssl.written = 0
    BY <1>1, <2>5, <2>6
  <2>9. r.ssl.partial = <<>> /\ r.ssl.in = <<>>
    BY <2>1, <2>5, <2>6
  <2>10. Piece(r.ssl.partial) /\ r.ssl.session = c.session
    BY <2>7, <2>5, <2>6
  <2>11. Len(r.ssl.out) <= ChunkSize
    BY <2>4, <2>5, <2>6
  <2> QED BY <1>1, <1>2, <2>2, <2>5, <2>6, <2>8, <2>9, <2>10, <2>11 DEF Outcome
<1>3. CASE c.phase = "hello"
  <2>1. /\ d \in Connections
        /\ d = [c EXCEPT !.partial = d.partial, !.in = <<>>, !.want = d.want]
        /\ Piece(d.partial) /\ (d.partial # <<>> => Last(d.partial).left # 0)
        /\ Owed = IF d.partial = <<>> THEN 0 ELSE Last(d.partial).left
        /\ rec = <<>> =>
                /\ d.want = IF Owed = 0 THEN 1 ELSE Owed
                /\ d.partial # <<>> => c.out = <<>> /\ request.fd = fd
        /\ rec # <<>> =>
                /\ d.partial = <<>> /\ d.want = 0
                /\ c.out = <<>> /\ request.fd = fd
    BY <1>1, Absorbed
  <2>2. \/ rec = <<>> /\ r = Result("want", 0, d)
        \/ rec # <<>> /\ r = Result("fatal", -1, d)
        \/ rec # <<>> /\ \E b \in BOOLEAN :
             r = Result("none", 1, [d EXCEPT !.phase = "up", !.out = Append(d.out, Fin), !.reused = b])
    BY <1>3 DEF SSLConnect, Read
  <2> HIDE DEF d, rec
  <2>3. d.progress = c.progress /\ d.connected = c.connected /\ d.session = c.session
        /\ d.in = <<>> /\ d.out = c.out /\ d.phase = c.phase /\ d.written = c.written
    BY <1>1, <2>1 DEF Connections
  <2>4. CASE rec = <<>>
    <3>1. r.error = "want" /\ r.length = 0 /\ r.ssl = d
      BY <2>2, <2>4 DEF Result
    <3>2. d.want > 0
      BY <2>1, <2>4 DEF Connections
    <3> QED BY <1>1, <1>3, <2>1, <2>3, <2>4, <3>1, <3>2 DEF Outcome
  <2>5. CASE rec # <<>> /\ r = Result("fatal", -1, d)
    <3>1. r.error = "fatal" /\ r.length = -1 /\ r.ssl = d
      BY <2>5 DEF Result
    <3> QED BY <1>1, <1>3, <2>1, <2>3, <2>5, <3>1 DEF Outcome
  <2>6. ASSUME rec # <<>>, NEW b \in BOOLEAN,
               r = Result("none", 1, [d EXCEPT !.phase = "up", !.out = Append(d.out, Fin), !.reused = b])
        PROVE  Outcome(c, r)
    <3> DEFINE o == <<Fin>>
               e == [d EXCEPT !.phase = "up", !.out = o, !.reused = b]
    <3>1. Append(d.out, Fin) = o
      BY <2>1, <2>3, <2>6, AppendOne
    <3>2. o \in Seq(Tokens) /\ Len(o) = 1 /\ Len(o) <= ChunkSize
      BY TokenFacts, Constants
    <3>3. r = Result("none", 1, e)
      BY <2>6, <3>1
    <3> HIDE DEF o
    <3>4. /\ e \in Connections /\ e.out = o /\ e.phase = "up"
          /\ e.progress = c.progress /\ e.connected = c.connected /\ e.session = c.session
          /\ e.in = <<>> /\ e.partial = d.partial /\ e.written = c.written
      BY <2>1, <2>3, <3>2 DEF Connections
    <3> HIDE DEF e
    <3>5. r.error = "none" /\ r.length = 1 /\ r.ssl = e
      BY <3>3 DEF Result
    <3>6. r.ssl.phase = "up" /\ r.ssl.written = 0
      BY <1>1, <3>4, <3>5
    <3>7. r.ssl.partial = <<>> /\ r.ssl.in = <<>>
      BY <2>1, <2>6, <3>4, <3>5
    <3>8. Piece(r.ssl.partial) /\ r.ssl.session = c.session
      BY <2>1, <3>4, <3>5
    <3>9. Len(r.ssl.out) <= ChunkSize
      BY <3>2, <3>4, <3>5
    <3>10. Owed = 0 /\ c.progress = "Finished"
      BY <1>1, <1>3, <2>1, <2>6
    <3> QED BY <3>4, <3>5, <3>6, <3>7, <3>8, <3>9, <3>10 DEF Outcome
  <2> QED BY <2>2, <2>4, <2>5, <2>6
<1> QED BY <1>1, <1>2, <1>3

LEMMA ShutdownResult ==
  ASSUME NEW c, Callable(c), state = "TLSShutdown", NEW r \in SSLShutdown(c)
  PROVE  Outcome(c, r)
<1> DEFINE d == Absorb(c).ssl
           rec == Absorb(c).record
<1>1. /\ c \in Connections /\ StreamInv(c) /\ OutInv(c) /\ c.progress \notin Pumps
      /\ c.phase \in {"up", "closing"} /\ c.written = 0 /\ request.fd = fd
      /\ c.progress = "Finished" /\ Len(c.out) <= ChunkSize
      /\ c.phase = "up" => c.out = <<>> /\ c.in = <<>> /\ c.partial = <<>>
  BY DEF Callable, ConnInv, PumpInv, PhaseInv, WrittenInv, OutInv, Pumps, Ended, FreshTLS
<1>2. CASE c.phase = "up"
  <2> DEFINE o == <<Bye>>
             e == [c EXCEPT !.phase = "closing", !.out = o]
  <2>2. Owed = 0
    BY <1>1, <1>2 DEF StreamInv, Pumps
  <2>3. r = Result("fatal", 0, e)
    <3>1. r = Result("fatal", 0, [c EXCEPT !.phase = "closing", !.out = Append(c.out, Bye)])
      BY <1>2 DEF SSLShutdown
    <3>2. Append(c.out, Bye) = o
      BY <1>1, <1>2, AppendOne
    <3> QED BY <3>1, <3>2
  <2>4. o \in Seq(Tokens) /\ Len(o) = 1 /\ o # <<>> /\ Len(o) <= ChunkSize
    BY TokenFacts, Constants
  <2> HIDE DEF o
  <2>5. /\ e \in Connections /\ e.out = o /\ e.phase = "closing"
        /\ e.progress = c.progress /\ e.connected = c.connected /\ e.session = c.session
        /\ e.in = c.in /\ e.partial = c.partial /\ e.written = c.written
    BY <1>1, <2>4 DEF Connections
  <2> HIDE DEF e
  <2>6. r.error = "fatal" /\ r.length = 0 /\ r.ssl = e
    BY <2>3 DEF Result
  <2>7. Piece(c.partial)
    BY <1>1 DEF StreamInv
  <2>8. r.ssl.phase = "closing" /\ r.ssl.written = 0
    BY <1>1, <2>5, <2>6
  <2>9. r.ssl.partial = <<>> /\ r.ssl.in = <<>>
    BY <1>1, <1>2, <2>5, <2>6
  <2>10. Piece(r.ssl.partial) /\ r.ssl.session = c.session
    BY <2>7, <2>5, <2>6
  <2>11. Len(r.ssl.out) <= ChunkSize
    BY <2>4, <2>5, <2>6
  <2> QED BY <1>1, <1>2, <2>2, <2>5, <2>6, <2>8, <2>9, <2>10, <2>11 DEF Outcome
<1>3. CASE c.phase = "closing"
  <2>1. /\ d \in Connections
        /\ d = [c EXCEPT !.partial = d.partial, !.in = <<>>, !.want = d.want]
        /\ Piece(d.partial) /\ (d.partial # <<>> => Last(d.partial).left # 0)
        /\ Owed = IF d.partial = <<>> THEN 0 ELSE Last(d.partial).left
        /\ rec = <<>> =>
                /\ d.want = IF Owed = 0 THEN 1 ELSE Owed
                /\ d.partial # <<>> => c.out = <<>> /\ request.fd = fd
        /\ rec # <<>> =>
                /\ d.partial = <<>> /\ d.want = 0
                /\ c.out = <<>> /\ request.fd = fd
    BY <1>1, Absorbed
  <2>2. \/ rec = <<>> /\ r = Result("want", 0, d)
        \/ rec # <<>> /\ r = Result("none", 1, d)
        \/ rec # <<>> /\ r = Result("fatal", 1, d)
    BY <1>3 DEF SSLShutdown, Read
  <2> HIDE DEF d, rec
  <2>3. d.progress = c.progress /\ d.connected = c.connected /\ d.session = c.session
        /\ d.in = <<>> /\ d.out = c.out /\ d.phase = c.phase /\ d.written = c.written
    BY <1>1, <2>1 DEF Connections
  <2>4. CASE rec = <<>>
    <3>1. r.error = "want" /\ r.length = 0 /\ r.ssl = d
      BY <2>2, <2>4 DEF Result
    <3>2. d.want > 0
      BY <2>1, <2>4 DEF Connections
    <3> QED BY <1>1, <1>3, <2>1, <2>3, <2>4, <3>1, <3>2 DEF Outcome
  <2>5. CASE rec # <<>>
    <3>1. r.error \in {"none", "fatal"} /\ r.length = 1 /\ r.ssl = d
      BY <2>2, <2>5 DEF Result
    <3> QED BY <1>1, <1>3, <2>1, <2>3, <2>5, <3>1 DEF Outcome
  <2> QED BY <2>4, <2>5
<1> QED BY <1>1, <1>2, <1>3

LEMMA WriteResult ==
  ASSUME NEW c, Callable(c), state = "InitSending", version \in Nat, sendBufferOffset \in Nat,
         NEW r \in SSLWrite(c, Source(sendBufferOffset))
  PROVE  Outcome(c, r)
<1> DEFINE s == Source(sendBufferOffset)
           n == Min({s.length - c.written, ChunkSize - Len(c.out)})
           f == [k \in 1 .. n |-> [kind |-> "data", left |-> 0, version |-> version,
                                   memory |-> s.memory, at |-> s.at + c.written + k]]
           o == c.out \o f
<1>1. /\ c \in Connections /\ StreamInv(c) /\ OutInv(c)
      /\ c.phase = "up" /\ c.progress = "Finished" /\ Len(c.out) <= ChunkSize
      /\ c.partial = <<>> /\ c.in = <<>> /\ c.written <= s.length /\ sendBufferOffset < Total
  BY DEF Callable, ConnInv, PumpInv, PhaseInv, WrittenInv, OutInv
<1>2. Owed = 0 /\ Piece(c.partial)
  BY <1>1 DEF StreamInv, Pumps
<1>3. s.length \in Nat \ {0} /\ s.at \in Nat /\ s.memory \in {0, 1}
  BY <1>1, SourceFacts
<1>4. c.written \in Nat /\ c.out \in Seq(Tokens) /\ Len(c.out) \in Nat
      /\ ChunkSize \in Nat \ {0}
  BY <1>1, Constants DEF Connections
<1> HIDE DEF s
<1>5. /\ n \in Nat /\ c.written + n <= s.length /\ Len(c.out) + n <= ChunkSize
      /\ c.written + n = s.length \/ Len(c.out) + n = ChunkSize
  <2>1. n = IF s.length - c.written <= ChunkSize - Len(c.out)
              THEN s.length - c.written ELSE ChunkSize - Len(c.out)
    BY <1>3, <1>4, MinOfTwo
  <2>2. c.written <= s.length /\ Len(c.out) <= ChunkSize
    BY <1>1 DEF s
  <2> DEFINE wanted == s.length - c.written
             room == ChunkSize - Len(c.out)
  <2>3. wanted \in Nat /\ room \in Nat
    BY <2>2, <1>3, <1>4
  <2>4. c.written + wanted = s.length /\ Len(c.out) + room = ChunkSize
    BY <1>3, <1>4
  <2> HIDE DEF n, wanted, room
  <2>5. (n = wanted /\ wanted <= room) \/ (n = room /\ room <= wanted)
    <3>1. n = IF wanted <= room THEN wanted ELSE room
      BY <2>1 DEF wanted, room
    <3> QED BY ONLY <3>1, <2>3
  <2>6. CASE n = wanted /\ wanted <= room
    <3>1. Len(c.out) + n <= Len(c.out) + room
      BY ONLY <2>3, <2>6, <1>4
    <3> QED BY ONLY <2>3, <2>4, <2>6, <1>3, <3>1
  <2>7. CASE n = room /\ room <= wanted
    <3>1. c.written + n <= c.written + wanted
      BY ONLY <2>3, <2>7, <1>4
    <3> QED BY ONLY <2>3, <2>4, <2>7, <1>3, <3>1
  <2> QED BY <2>5, <2>6, <2>7
<1>6. \/ r = Result("none", s.length, [c EXCEPT !.out = o, !.written = 0, !.want = 0])
      \/ /\ c.written + n # s.length
         /\ r = Result("want", 0, [c EXCEPT !.out = o, !.written = c.written + n, !.want = 0])
  BY DEF SSLWrite, s
<1> HIDE DEF n
<1>7. f \in Seq(Tokens) /\ Len(f) = n
  <2>1. \A k \in 1 .. n : [kind |-> "data", left |-> 0, version |-> version, memory |-> s.memory,
                           at |-> s.at + c.written + k] \in Tokens
    <3>1. \A k \in 1 .. n : s.at + c.written + k \in Nat
      BY <1>3, <1>4, <1>5
    <3>2. version \in Nat /\ s.memory \in {0, 1}
      BY <1>3
    <3>3. ASSUME NEW i \in Nat
          PROVE  [kind |-> "data", left |-> 0, version |-> version, memory |-> s.memory,
                  at |-> i] \in Tokens
      <4>1. [kind |-> "data", left |-> 0, version |-> version, memory |-> s.memory, at |-> i]
              \in [kind : {"data"}, left : {0}, version : Nat, memory : {0, 1}, at : Nat]
        BY ONLY <3>2
      <4> QED BY ONLY <4>1, Zenon DEF Tokens
    <3> QED BY ONLY <3>1, <3>3
  <2>2. f \in [1 .. n -> Tokens]
    BY <2>1
  <2> HIDE DEF f
  <2> QED BY <2>2, <1>5, FunctionSeq
<1> HIDE DEF f
<1>8. o \in Seq(Tokens) /\ Len(o) = Len(c.out) + n
  BY <1>4, <1>7, ConcatFacts
<1> HIDE DEF o
<1>9. Len(o) <= ChunkSize /\ (c.written + n # s.length => o # <<>>)
  BY <1>4, <1>5, <1>8, EmptySeq
<1>10. CASE r = Result("none", s.length, [c EXCEPT !.out = o, !.written = 0, !.want = 0])
  <2> DEFINE e == [c EXCEPT !.out = o, !.written = 0, !.want = 0]
  <2>1. /\ e \in Connections /\ e.out = o /\ e.written = 0 /\ e.want = 0
        /\ e.progress = c.progress /\ e.connected = c.connected /\ e.session = c.session
        /\ e.in = c.in /\ e.partial = c.partial /\ e.phase = c.phase
    BY <1>1, <1>8 DEF Connections
  <2> HIDE DEF e
  <2>2. r.error = "none" /\ r.length = s.length /\ r.ssl = e
    BY <1>10 DEF Result, e
  <2>3. Len(r.ssl.out) <= ChunkSize
    BY <1>9, <2>1, <2>2
  <2>4. r.ssl.partial = <<>> /\ r.ssl.in = <<>> /\ Piece(r.ssl.partial)
    BY <1>1, <1>2, <2>1, <2>2
  <2>5. r.ssl.written = 0 /\ r.ssl.written <= s.length /\ r.length \in Int
    BY <1>3, <2>1, <2>2
  <2> QED BY <1>1, <1>2, <2>1, <2>2, <2>3, <2>4, <2>5 DEF Outcome, s
<1>11. CASE /\ c.written + n # s.length
            /\ r = Result("want", 0, [c EXCEPT !.out = o, !.written = c.written + n, !.want = 0])
  <2> DEFINE w == c.written + n
             e == [c EXCEPT !.out = o, !.written = w, !.want = 0]
  <2>0. w \in Nat /\ w <= s.length
    BY <1>4, <1>5
  <2> HIDE DEF w
  <2>1. /\ e \in Connections /\ e.out = o /\ e.written = w /\ e.want = 0
        /\ e.progress = c.progress /\ e.connected = c.connected /\ e.session = c.session
        /\ e.in = c.in /\ e.partial = c.partial /\ e.phase = c.phase
    BY <1>1, <1>8, <2>0 DEF Connections
  <2> HIDE DEF e
  <2>2. r.error = "want" /\ r.length = 0 /\ r.ssl = e
    BY <1>11 DEF Result, e, w
  <2>3. Len(r.ssl.out) <= ChunkSize /\ r.ssl.out # <<>>
    BY <1>9, <1>11, <2>1, <2>2
  <2>4. r.ssl.partial = <<>> /\ r.ssl.in = <<>> /\ Piece(r.ssl.partial)
    BY <1>1, <1>2, <2>1, <2>2
  <2>5. r.ssl.written <= s.length
    BY <2>0, <2>1, <2>2
  <2> QED BY <1>1, <1>2, <2>1, <2>2, <2>3, <2>4, <2>5 DEF Outcome, s
<1> QED BY <1>6, <1>10, <1>11

\* Whatever the operation is.
LEMMA CallResult ==
  ASSUME NEW c, Callable(c), Live, version \in Nat, sendBufferOffset \in Nat, NEW r \in Called(c)
  PROVE  Outcome(c, r)
<1>1. CASE state = "TLSHandshake"
  BY <1>1, ConnectResult DEF Called
<1>2. CASE state = "InitSending"
  BY <1>2, WriteResult DEF Called
<1>3. CASE state = "TLSShutdown"
  BY <1>3, ShutdownResult DEF Called
<1>4. CASE state \in {"InitReceiving", "Receiving"}
  BY <1>4, ReadResult DEF Called
<1> QED BY <1>1, <1>2, <1>3, <1>4 DEF Live, LiveStates

-----------------------------------------------------------------------------
(* The operations of the connection. *)

\* In a live state the connection of the message has a TLS object.
LEMMA LiveFacts ==
  ASSUME HTTPSInv, Live
  PROVE  /\ fd \in DOMAIN tls /\ fd \in held /\ fd \notin kept /\ fd \in Nat
         /\ tls[fd] \in Connections
         /\ ConnInv(tls[fd])
         /\ request.fd \in {NoFd, fd} /\ request \in Requests
         /\ version \in Nat /\ sendBufferOffset \in 0 .. Total /\ sendBufferOffset \in Nat
         /\ answered \in Nat /\ answer \in Answers \cup {NoAnswer}
         /\ outcome \in [status : Statuses \cup {"Progress"}, length : Int]
<1>1. fd \in DOMAIN tls /\ fd \in held /\ fd \notin kept /\ request.fd \in {NoFd, fd}
  BY DEF HTTPSInv, Attached
<1>2. tls[fd] \in Connections
  BY <1>1 DEF HTTPSInv, Types
<1>3. sendBufferOffset \in Nat
  BY Constants DEF HTTPSInv, Types
<1> QED BY <1>1, <1>2, <1>3 DEF HTTPSInv, Types

\* A step that changes nothing but the connection's TLS object and its request.
LEMMA InPlace ==
  ASSUME HTTPSInv, Live,
         UNCHANGED <<state, failures, version, sendBufferOffset, connects, held, kept, fd,
                     sessionCache>>,
         tls' = [tls EXCEPT ![fd] = tls'[fd]],
         tls'[fd] \in Connections,
         failureCode' \subseteq FailureCodes \cup {"TLS"},
         request' \in Requests, request'.fd \in {NoFd, fd},
         pc' \in {"execute", "wait", "return"},
         outcome' \in [status : Statuses \cup {"Progress"}, length : Int],
         answer' \in Answers \cup {NoAnswer}, answered' \in Nat,
         sendErrors' \in 0 .. MaxSendErrors,
         ConnInv(tls[fd])'
  PROVE  HTTPSInv'
<1>1. fd \in DOMAIN tls /\ fd \in held /\ fd \notin kept
  BY LiveFacts
<1>2. DOMAIN tls' = DOMAIN tls /\ \A g \in DOMAIN tls : g # fd => tls'[g] = tls[g]
  BY <1>1
<1>3. tls' \in [DOMAIN tls' -> Connections]
  <2>1. tls \in [DOMAIN tls -> Connections]
    BY DEF HTTPSInv, Types
  <2>2. \A g \in DOMAIN tls : [tls EXCEPT ![fd] = tls'[fd]][g] \in Connections
    BY <2>1, <1>1
  <2> QED BY <2>1, <2>2, <1>2
<1>4. Types'
  BY <1>3 DEF HTTPSInv, Types
<1>5. Counted'
  BY DEF HTTPSInv, Counted
<1>6. Attached'
  BY <1>2 DEF HTTPSInv, Attached, Live, LiveStates
<1>7. (\A f \in kept : FreshTLS(tls[f]))'
  <2>1. \A f \in kept : f \in DOMAIN tls /\ f # fd
    BY <1>1 DEF HTTPSInv, Attached
  <2> QED BY <2>1, <1>2 DEF HTTPSInv, FreshTLS
<1> QED BY <1>4, <1>5, <1>6, <1>7 DEF HTTPSInv

LEMMA SameStream ==
  ASSUME answer' = answer, answered' = answered, fd' = fd,
         tls'[fd].connected = tls[fd].connected
  PROVE  Owed' = Owed /\ Len(Greeting)' = Len(Greeting)
BY DEF Owed, Greeting, LeftAt, DataTokens

LEMMA CallsSSLStep ==
  ASSUME HTTPSInv, CallsSSL
  PROVE  HTTPSInv'
<1> DEFINE c == tls[fd]
<1>1. Live /\ Callable(c) /\ pc = "execute"
  <2>1. Live /\ pc = "execute"
    BY DEF CallsSSL, Operating, Live, LiveStates
  <2> QED BY <2>1, LiveFacts DEF CallsSSL, Callable
<1>2. /\ fd \in DOMAIN tls /\ fd \in Nat /\ c \in Connections /\ ConnInv(c)
      /\ request.fd \in {NoFd, fd} /\ request \in Requests
      /\ version \in Nat /\ sendBufferOffset \in Nat /\ answered \in Nat
  BY <1>1, LiveFacts
<1>3. PICK r \in Called(c) :
         IF r.error = "want"
            THEN /\ tls' = [tls EXCEPT ![fd] = [r.ssl EXCEPT !.progress = "SendingInit"]]
                 /\ UNCHANGED <<pc, outcome, references>>
            ELSE /\ Handshaken(c, r.ssl)
                 /\ Returns(IF r.error = "none" THEN "Finished" ELSE "Aborted", r.length)
  BY DEF CallsSSL
<1>4. Outcome(c, r)
  BY <1>1, <1>2, <1>3, CallResult
<1>5. UNCHANGED <<state, failures, failureCode, version, sendBufferOffset, request, connects,
                  held, kept, answer, answered, sessionCache, fd, sendErrors>>
  BY DEF CallsSSL, manager, peer
<1>6. /\ failureCode \subseteq FailureCodes \cup {"TLS"} /\ sendErrors \in 0 .. MaxSendErrors
      /\ answer \in Answers \cup {NoAnswer}
      /\ outcome \in [status : Statuses \cup {"Progress"}, length : Int]
  BY DEF HTTPSInv, Types
<1>7. answered > Len(Greeting) => answer # NoAnswer
  BY <1>2 DEF ConnInv, StreamInv
<1>8. /\ state = "InitSending" => sendBufferOffset < Total
      /\ state = "TLSHandshake" => sendBufferOffset = 0
      /\ state = "TLSShutdown" => request.fd = fd
  BY <1>2 DEF ConnInv, WrittenInv, PhaseInv
<1> HIDE DEF c
<1>9. /\ state = "TLSHandshake" => ~ r.ssl.connected
      /\ r.ssl.phase \in {"hello", "up", "closing"}
      /\ r.ssl.phase = "hello" => state = "TLSHandshake"
      /\ r.ssl.phase = "closing" <=> state = "TLSShutdown"
      /\ state = "TLSHandshake" /\ r.error = "want" => r.ssl.phase = "hello"
      /\ r.ssl.in = <<>>
  BY <1>1, <1>4 DEF Outcome, Callable
<1>10. CASE r.error = "want"
  <2> DEFINE e == [r.ssl EXCEPT !.progress = "SendingInit"]
  <2>1. /\ e \in Connections /\ e.progress = "SendingInit" /\ e.connected = r.ssl.connected
        /\ e.in = r.ssl.in /\ e.partial = r.ssl.partial /\ e.out = r.ssl.out
        /\ e.phase = r.ssl.phase /\ e.written = r.ssl.written /\ e.want = r.ssl.want
    BY <1>4 DEF Outcome, Connections, Statuses
  <2>2. tls' = [tls EXCEPT ![fd] = e] /\ pc' = "execute" /\ outcome' = outcome
    BY <1>1, <1>3, <1>10
  <2> HIDE DEF e
  <2>3. tls'[fd] = e
    BY <1>2, <2>2
  <2>4. Owed' = Owed /\ Len(Greeting)' = Len(Greeting)
    BY <2>1, <2>3, <1>4, <1>5, SameStream DEF Outcome, c
  <2>5. PumpInv(tls[fd])'
    BY <2>1, <2>2, <2>3, <1>1, <1>4, <1>5 DEF PumpInv, Outcome, Pumps, Ended, Callable
  <2>6. PhaseInv(tls[fd])'
    BY <2>1, <2>2, <2>3, <1>5, <1>8, <1>9, <1>10 DEF PhaseInv, Ended
  <2>7. OutInv(tls[fd])'
    <3>1. /\ Len(e.out) <= ChunkSize /\ (e.want > 0 \/ e.out # <<>>)
          /\ e.partial # <<>> => e.out = <<>> /\ request.fd = fd
      BY <2>1, <1>4, <1>10 DEF Outcome
    <3> QED BY <3>1, <2>1, <2>3, <1>5, <1>9 DEF OutInv
  <2>8. WrittenInv(tls[fd])'
    BY <2>1, <2>2, <2>3, <1>1, <1>4, <1>5, <1>8 DEF WrittenInv, Outcome, Ended
  <2>9. StreamInv(tls[fd])'
    <3>1. /\ Piece(e.partial) /\ (e.partial # <<>> => Last(e.partial).left # 0)
          /\ Owed = IF e.partial = <<>> THEN 0 ELSE Last(e.partial).left
          /\ e.want = IF state = "InitSending" THEN 0 ELSE IF Owed = 0 THEN 1 ELSE Owed
      BY <2>1, <1>4, <1>10 DEF Outcome
    <3>2. Piece(e.in) /\ e.in = <<>>
      BY <2>1, <1>9 DEF Piece
    <3>3. e.want = 0 <=> state = "InitSending"
      BY <3>1
    <3> QED BY <3>1, <3>2, <3>3, <2>1, <2>3, <2>4, <1>5, <1>7 DEF StreamInv
  <2>10. ConnInv(tls[fd])'
    BY <2>5, <2>6, <2>7, <2>8, <2>9 DEF ConnInv
  <2>11. tls' = [tls EXCEPT ![fd] = tls'[fd]] /\ tls'[fd] \in Connections
    BY <2>1, <2>2, <2>3
  <2>12. /\ request' \in Requests /\ request'.fd \in {NoFd, fd} /\ answered' \in Nat
         /\ answer' \in Answers \cup {NoAnswer} /\ sendErrors' \in 0 .. MaxSendErrors
         /\ failureCode' \subseteq FailureCodes \cup {"TLS"}
         /\ outcome' \in [status : Statuses \cup {"Progress"}, length : Int]
    BY <2>2, <1>2, <1>5, <1>6
  <2> QED BY <2>2, <2>10, <2>11, <2>12, <1>1, <1>5, InPlace
<1>11. CASE r.error # "want"
  <2>1. PICK e \in {r.ssl, [r.ssl EXCEPT !.session = fd]} : tls' = [tls EXCEPT ![fd] = e]
    BY <1>3, <1>11 DEF Handshaken
  <2>2. /\ e \in Connections /\ e.progress = r.ssl.progress /\ e.connected = r.ssl.connected
        /\ e.in = r.ssl.in /\ e.partial = r.ssl.partial /\ e.out = r.ssl.out
        /\ e.phase = r.ssl.phase /\ e.written = r.ssl.written /\ e.want = r.ssl.want
    <3>1. r.ssl \in Connections /\ fd \in Nat /\ e \in {r.ssl, [r.ssl EXCEPT !.session = fd]}
      BY <1>2, <1>4, <2>1 DEF Outcome
    <3> QED BY ONLY <3>1 DEF Connections
  <2>3. tls'[fd] = e
    BY <1>2, <2>1
  <2>4. /\ pc' = "return" /\ r.error \in {"none", "fatal"}
        /\ outcome' = [status |-> IF r.error = "none" THEN "Finished" ELSE "Aborted", length |-> r.length]
    BY <1>3, <1>4, <1>11 DEF Returns, Outcome
  <2>5. /\ outcome'.status = (IF r.error = "none" THEN "Finished" ELSE "Aborted")
        /\ outcome'.length = r.length
        /\ outcome' \in [status : Statuses \cup {"Progress"}, length : Int]
    BY <2>4, <1>4 DEF Outcome, Statuses
  <2>6. Owed' = Owed /\ Len(Greeting)' = Len(Greeting)
    BY <2>2, <2>3, <1>4, <1>5, SameStream DEF Outcome, c
  <2>7. PumpInv(tls[fd])'
    BY <2>2, <2>3, <2>4, <2>5, <1>4, <1>5 DEF PumpInv, Outcome, Pumps, Ended
  <2>8. PhaseInv(tls[fd])'
    BY <2>2, <2>3, <2>4, <2>5, <1>4, <1>5, <1>8, <1>9, <1>11 DEF PhaseInv, Outcome, Ended, FreshTLS
  <2>9. OutInv(tls[fd])'
    BY <2>2, <2>3, <2>4, <2>5, <1>4, <1>5, <1>11 DEF OutInv, Outcome
  <2>10. WrittenInv(tls[fd])'
    BY <2>2, <2>3, <2>4, <2>5, <1>4, <1>5, <1>8, <1>11 DEF WrittenInv, Outcome, Ended
  <2>11. StreamInv(tls[fd])'
    <3>1. /\ e.partial = <<>> /\ Owed = 0 /\ e.progress = "Finished"
      BY <2>2, <1>4, <1>11 DEF Outcome
    <3>2. Piece(e.in) /\ Piece(e.partial) /\ e.in = <<>>
      BY <2>2, <3>1, <1>9 DEF Piece
    <3> QED BY <3>1, <3>2, <2>3, <2>6, <1>5, <1>7 DEF StreamInv, Pumps
  <2>12. ConnInv(tls[fd])'
    BY <2>7, <2>8, <2>9, <2>10, <2>11 DEF ConnInv
  <2>13. tls' = [tls EXCEPT ![fd] = tls'[fd]]
    BY <2>1, <2>3
  <2> QED BY <2>2, <2>3, <2>4, <2>5, <2>12, <2>13, <1>1, <1>2, <1>5, <1>6, InPlace
<1> QED BY <1>10, <1>11

LEMMA CallsNothingStep ==
  ASSUME HTTPSInv, CallsNothing
  PROVE  HTTPSInv'
<1> DEFINE c == tls[fd]
<1>1. Live /\ pc = "execute"
  BY DEF CallsNothing, Operating, Live, LiveStates
<1>2. /\ fd \in DOMAIN tls /\ fd \in Nat /\ c \in Connections /\ ConnInv(c)
      /\ request.fd \in {NoFd, fd} /\ request \in Requests /\ answered \in Nat
  BY <1>1, LiveFacts
<1>3. /\ failureCode \subseteq FailureCodes \cup {"TLS"} /\ sendErrors \in 0 .. MaxSendErrors
      /\ answer \in Answers \cup {NoAnswer}
  BY DEF HTTPSInv, Types
<1>4. /\ c.progress \in Statuses
      /\ c.progress = "Aborted" \/ (state = "TLSHandshake" /\ c.connected /\ c.progress = "Finished")
      /\ c.progress = "Aborted" => state = "TLSShutdown" /\ request.fd = fd /\ c.phase = "closing"
  BY <1>1, <1>2 DEF CallsNothing, ConnInv, PumpInv, PhaseInv, FreshTLS, Ended, Connections
<1>5. UNCHANGED <<state, failures, failureCode, version, sendBufferOffset, request, connects,
                  held, kept, answer, answered, sessionCache, fd, sendErrors, tls>>
  BY DEF CallsNothing, task, manager, peer, sessions
<1>6. pc' = "return" /\ outcome' = [status |-> c.progress, length |-> 0]
  BY DEF CallsNothing, Returns
<1>7. outcome' \in [status : Statuses \cup {"Progress"}, length : Int] /\ outcome'.status = c.progress
  BY <1>4, <1>6
<1> HIDE DEF c
<1>8. tls'[fd'] = c
  BY <1>5 DEF c
<1>9. Owed' = Owed /\ Len(Greeting)' = Len(Greeting)
  BY <1>5, SameStream
<1>10. PumpInv(tls[fd])'
  BY <1>2, <1>4, <1>5, <1>6, <1>7, <1>8 DEF ConnInv, PumpInv, Pumps, Ended
<1>11. PhaseInv(tls[fd])'
  BY <1>2, <1>4, <1>5, <1>6, <1>7, <1>8 DEF ConnInv, PhaseInv, FreshTLS, Ended
<1>12. OutInv(tls[fd])'
  BY <1>2, <1>5, <1>8 DEF ConnInv, OutInv
<1>13. WrittenInv(tls[fd])'
  BY <1>2, <1>4, <1>5, <1>8 DEF ConnInv, WrittenInv
<1>14. StreamInv(tls[fd])'
  BY <1>2, <1>4, <1>5, <1>8, <1>9 DEF ConnInv, StreamInv, Pumps
<1>15. ConnInv(tls[fd])'
  BY <1>10, <1>11, <1>12, <1>13, <1>14 DEF ConnInv
<1>16. tls' = [tls EXCEPT ![fd] = tls'[fd]] /\ tls'[fd] \in Connections
  <2>1. tls \in [DOMAIN tls -> Connections]
    BY DEF HTTPSInv, Types
  <2> QED BY <2>1, <1>2, <1>5 DEF c
<1> QED BY <1>1, <1>2, <1>3, <1>5, <1>6, <1>7, <1>15, <1>16, InPlace

\* What a pump under way may rely on.
LEMMA PumpFacts ==
  ASSUME HTTPSInv, Pumping(Pumps)
  PROVE  /\ Live /\ pc = "execute"
         /\ ~ (state = "TLSHandshake" /\ tls[fd].connected)
         /\ tls[fd].in = <<>>
         /\ tls[fd].want = 0 <=> state = "InitSending"
         /\ tls[fd].phase = IF state = "TLSHandshake" THEN "hello"
                            ELSE IF state = "TLSShutdown" THEN "closing" ELSE "up"
         /\ tls[fd].progress \in {"Sending", "Receiving"} => request.fd = fd /\ tls[fd].out = <<>>
         /\ state = "TLSShutdown" => request.fd = fd
         /\ tls[fd].progress = "Receiving" =>
              /\ tls[fd].want # 0 /\ tls[fd].internalBioRead = tls[fd].want
              /\ request.length \in Failed .. tls[fd].want
         /\ ~ (tls[fd].progress = "Receiving" /\ request.length > 0) =>
              /\ Owed = IF tls[fd].partial = <<>> THEN 0 ELSE Last(tls[fd].partial).left
              /\ tls[fd].want # 0 => tls[fd].want = IF Owed = 0 THEN 1 ELSE Owed
<1> DEFINE c == tls[fd]
<1>1. /\ Live /\ pc = "execute" /\ ~ (state = "TLSHandshake" /\ c.connected)
      /\ c.progress \in Pumps
  BY DEF Pumping, Operating, Live, LiveStates
<1>2. c \in Connections /\ ConnInv(c)
  BY <1>1, LiveFacts
<1> HIDE DEF c
<1>3. ~ Ended("Finished") /\ ~ Ended("Aborted")
  BY <1>1 DEF Ended
<1>4. c.phase # "new"
  BY <1>1, <1>2 DEF ConnInv, PhaseInv, Pumps
<1>5. c.phase = IF state = "TLSHandshake" THEN "hello"
                ELSE IF state = "TLSShutdown" THEN "closing" ELSE "up"
  BY <1>1, <1>2, <1>3, <1>4 DEF ConnInv, PhaseInv, FreshTLS, Live, LiveStates, Pumps
<1>6. /\ c.in = <<>>
      /\ c.want = 0 <=> state = "InitSending"
      /\ c.progress = "Receiving" =>
           c.want # 0 /\ c.internalBioRead = c.want /\ request.length \in Failed .. c.want
      /\ ~ (c.progress = "Receiving" /\ request.length > 0) =>
           /\ Owed = IF c.partial = <<>> THEN 0 ELSE Last(c.partial).left
           /\ c.want # 0 => c.want = IF Owed = 0 THEN 1 ELSE Owed
  BY <1>1, <1>2 DEF ConnInv, StreamInv, HasRead
<1>7. /\ c.progress \in {"Sending", "Receiving"} => request.fd = fd /\ c.out = <<>>
      /\ state = "TLSShutdown" => request.fd = fd
  BY <1>2 DEF ConnInv, PumpInv, OutInv, PhaseInv
<1> QED BY <1>1, <1>5, <1>6, <1>7 DEF c

\* A step of the pump leaves the connection c as d: c but for what it carries.
Carries(c, d) ==
  /\ d \in Connections
  /\ d.connected = c.connected /\ d.phase = c.phase /\ d.written = c.written
  /\ d.partial = c.partial

\* It is right if the progress d has is.
LEMMA PumpStep ==
  ASSUME HTTPSInv, Pumping(Pumps), UnchangedByProcess,
         tls' = [tls EXCEPT ![fd] = tls'[fd]], Carries(tls[fd], tls'[fd]),
         failureCode' \subseteq FailureCodes \cup {"TLS"},
         request' \in Requests, request'.fd \in {NoFd, fd},
         outcome' \in [status : Statuses \cup {"Progress"}, length : Int],
         state = "TLSShutdown" => request'.fd = fd,
         tls[fd].partial # <<>> => request'.fd = fd,
         tls'[fd].out = <<>>,
         StreamInv(tls[fd])',
         \/ pc' = "wait" /\ tls'[fd].progress = "Sending" /\ request'.event = "write"
            /\ request'.fd = fd
         \/ pc' = "wait" /\ tls'[fd].progress = "Receiving" /\ request'.event = "read"
            /\ request'.fd = fd
         \/ pc' = "execute" /\ tls'[fd].progress = "Finished" /\ (tls'[fd].in # <<>> => request'.fd = fd)
            /\ (state = "InitSending" => tls'[fd].in = <<>>)
         \/ pc' = "return" /\ outcome'.status = "Aborted" /\ tls'[fd].progress = "Aborted"
            /\ request'.fd = fd /\ tls'[fd].in = <<>>
  PROVE  HTTPSInv'
<1> DEFINE c == tls[fd]
           d == tls'[fd]
<1>1. /\ Live /\ pc = "execute" /\ ~ (state = "TLSHandshake" /\ c.connected)
      /\ c.phase = IF state = "TLSHandshake" THEN "hello"
                   ELSE IF state = "TLSShutdown" THEN "closing" ELSE "up"
  BY PumpFacts
<1>2. c \in Connections /\ ConnInv(c) /\ fd \in Nat
  BY <1>1, LiveFacts
<1>3. UNCHANGED <<state, failures, version, sendBufferOffset, connects, held, kept, answer,
                  answered, sessionCache, fd, sendErrors>>
  BY DEF UnchangedByProcess, manager, peer, sessions
<1>4. /\ sendErrors \in 0 .. MaxSendErrors /\ answer \in Answers \cup {NoAnswer}
      /\ answered \in Nat
  BY DEF HTTPSInv, Types
<1>5. /\ d.connected = c.connected /\ d.phase = c.phase /\ d.written = c.written
      /\ d.partial = c.partial /\ d \in Connections
  BY DEF Carries
<1> HIDE DEF c, d
<1>6. tls'[fd'] = d
  BY <1>3 DEF d
<1>7. pc' \in {"execute", "wait", "return"}
  OBVIOUS
<1>8. PumpInv(tls[fd])'
  BY <1>1, <1>3, <1>5, <1>6 DEF PumpInv, Pumps, Ended, d
<1>9. PhaseInv(tls[fd])'
  BY <1>1, <1>3, <1>5, <1>6 DEF PhaseInv, Ended, d
<1>10. OutInv(tls[fd])'
  <2>1. Len(d.out) <= ChunkSize
    <3>1. Len(<<>>) = 0 /\ 0 <= ChunkSize
      BY Constants, EmptySeq
    <3> QED BY <3>1 DEF d
  <2>2. d.partial # <<>> => request'.fd = fd
    BY <1>5 DEF c
  <2>3. d.in # <<>> => request'.fd = fd
    <3>1. d.progress \in {"Sending", "Receiving"} => d.in = <<>>
      BY <1>6 DEF StreamInv, Pumps
    <3> QED BY <3>1 DEF d
  <2> QED BY <1>1, <1>3, <1>5, <1>6, <2>1, <2>2, <2>3 DEF OutInv, d
<1>11. WrittenInv(tls[fd])'
  <2>1. state = "InitSending" => d.in = <<>> /\ d.partial = <<>>
    <3>1. d.progress \in {"Sending", "Receiving"} => d.in = <<>>
      BY <1>6 DEF StreamInv, Pumps
    <3>2. state = "InitSending" => c.partial = <<>>
      BY <1>2 DEF ConnInv, WrittenInv
    <3> QED BY <3>1, <3>2, <1>5 DEF d
  <2>2. ~ Ended("Finished")'
    BY DEF Ended
  <2> QED BY <1>2, <1>3, <1>5, <1>6, <2>1, <2>2 DEF ConnInv, WrittenInv
<1>12. ConnInv(tls[fd])'
  BY <1>8, <1>9, <1>10, <1>11 DEF ConnInv
<1> QED BY <1>1, <1>2, <1>3, <1>4, <1>5, <1>7, <1>12, InPlace DEF d

LEMMA ReadStarts ==
  ASSUME HTTPSInv, Pumping(Pumps), UnchangedByProcess,
         ~ (tls[fd].progress = "Receiving" /\ request.length > 0),
         NEW d, Carries(tls[fd], d), d.in = <<>>, d.out = <<>>,
         d.want = tls[fd].want, d.want # 0, d.internalBioRead = d.want,
         StartRead(d), failureCode' \subseteq FailureCodes \cup {"TLS"}, outcome' = outcome
  PROVE  HTTPSInv'
<1> DEFINE c == tls[fd]
           e == [d EXCEPT !.progress = "Receiving"]
<1>1. /\ Live
      /\ state = "InitSending" <=> c.want = 0
      /\ Owed = IF c.partial = <<>> THEN 0 ELSE Last(c.partial).left
      /\ c.want # 0 => c.want = IF Owed = 0 THEN 1 ELSE Owed
  BY PumpFacts
<1>2. /\ fd \in DOMAIN tls /\ fd \in Nat /\ c \in Connections /\ ConnInv(c)
      /\ outcome \in [status : Statuses \cup {"Progress"}, length : Int]
  BY <1>1, LiveFacts
<1>3. UNCHANGED <<answer, answered, fd, state>>
  BY DEF UnchangedByProcess, peer
<1>4. d \in Connections /\ d.connected = c.connected /\ d.phase = c.phase /\ d.written = c.written
      /\ d.partial = c.partial
  BY DEF Carries
<1>5. ReadSize(d.internalBioRead) \in 1 .. d.want
  <2>1. d.want \in Nat \ {0} /\ d.internalBioRead = d.want
    BY <1>4 DEF Connections
  <2> QED BY <2>1, Constants DEF ReadSize
<1>6. /\ e \in Connections /\ e.progress = "Receiving" /\ e.in = <<>> /\ e.out = <<>>
      /\ e.want = d.want /\ e.internalBioRead = d.want /\ e.partial = d.partial
      /\ e.connected = d.connected /\ e.phase = d.phase /\ e.written = d.written
  BY <1>4 DEF Connections, Statuses
<1>7. tls' = [tls EXCEPT ![fd] = e]
  BY DEF StartRead
<1> HIDE DEF e
<1>8. tls'[fd] = e
  BY <1>2, <1>7
<1>9. /\ pc' = "wait" /\ request'.event = "read" /\ request'.fd = fd
      /\ request'.length = ReadSize(d.internalBioRead)
      /\ request' \in Requests
  BY <1>2, <1>5 DEF StartRead, Submit, Requests
<1> HIDE DEF c
<1>10. Owed' = Owed /\ Len(Greeting)' = Len(Greeting)
  BY <1>3, <1>4, <1>6, <1>8, SameStream DEF c
<1>11. StreamInv(tls[fd])'
  <2>1. /\ answered > Len(Greeting) => answer # NoAnswer
        /\ Piece(c.partial) /\ (c.partial # <<>> => Last(c.partial).left # 0)
    BY <1>2 DEF ConnInv, StreamInv
  <2>2. Piece(<<>>)
    BY DEF Piece
  <2>3. request'.length \in Failed .. d.want /\ request'.length >= 1
    BY <1>5, <1>9, <1>4 DEF Failed, Connections
  <2>4. d.want = c.want
    BY DEF c
  <2> QED BY <1>1, <1>3, <1>4, <1>6, <1>8, <1>9, <1>10, <2>1, <2>2, <2>3, <2>4
          DEF StreamInv, HasRead, Pumps
<1>12. Carries(tls[fd], tls'[fd])
  BY <1>4, <1>6, <1>8 DEF Carries, c
<1>13. tls' = [tls EXCEPT ![fd] = tls'[fd]] /\ tls'[fd].out = <<>>
  BY <1>6, <1>7, <1>8
<1> QED BY <1>2, <1>6, <1>8, <1>9, <1>11, <1>12, <1>13, PumpStep

LEMMA WriteStarts ==
  ASSUME HTTPSInv, Pumping({"SendingInit", "Sending"}), UnchangedByProcess,
         NEW d, Carries(tls[fd], d), d.in = <<>>, d.out = <<>>, d.want = tls[fd].want,
         StartWrite(d), failureCode' \subseteq FailureCodes \cup {"TLS"}, outcome' = outcome
  PROVE  HTTPSInv'
<1> DEFINE c == tls[fd]
           e == [d EXCEPT !.progress = "Sending"]
<1>0. Pumping(Pumps) /\ c.progress # "Receiving"
  BY DEF Pumping, Pumps
<1>1. /\ Live
      /\ state = "InitSending" <=> c.want = 0
      /\ Owed = IF c.partial = <<>> THEN 0 ELSE Last(c.partial).left
      /\ c.want # 0 => c.want = IF Owed = 0 THEN 1 ELSE Owed
  BY <1>0, PumpFacts
<1>2. /\ fd \in DOMAIN tls /\ fd \in Nat /\ c \in Connections /\ ConnInv(c)
      /\ outcome \in [status : Statuses \cup {"Progress"}, length : Int]
  BY <1>1, LiveFacts
<1>3. UNCHANGED <<answer, answered, fd, state>>
  BY DEF UnchangedByProcess, peer
<1>4. d \in Connections /\ d.connected = c.connected /\ d.phase = c.phase /\ d.written = c.written
      /\ d.partial = c.partial
  BY DEF Carries
<1>6. /\ e \in Connections /\ e.progress = "Sending" /\ e.in = <<>> /\ e.out = <<>>
      /\ e.want = d.want /\ e.partial = d.partial
      /\ e.connected = d.connected /\ e.phase = d.phase /\ e.written = d.written
  BY <1>4 DEF Connections, Statuses
<1>7. tls' = [tls EXCEPT ![fd] = e]
  BY DEF StartWrite
<1> HIDE DEF e
<1>8. tls'[fd] = e
  BY <1>2, <1>7
<1>9. /\ pc' = "wait" /\ request'.event = "write" /\ request'.fd = fd
      /\ request' \in Requests
  <2>1. d.socketWrite \in Nat /\ d.networkBioRead \in Nat
    BY <1>4 DEF Connections
  <2> QED BY <1>2, <2>1 DEF StartWrite, Submit, Requests
<1> HIDE DEF c
<1>10. Owed' = Owed /\ Len(Greeting)' = Len(Greeting)
  BY <1>3, <1>4, <1>6, <1>8, SameStream DEF c
<1>11. StreamInv(tls[fd])'
  <2>1. /\ answered > Len(Greeting) => answer # NoAnswer
        /\ Piece(c.partial) /\ (c.partial # <<>> => Last(c.partial).left # 0)
    BY <1>2 DEF ConnInv, StreamInv
  <2>2. Piece(<<>>)
    BY DEF Piece
  <2>3. d.want = c.want
    BY DEF c
  <2> QED BY <1>1, <1>3, <1>4, <1>6, <1>8, <1>9, <1>10, <2>1, <2>2, <2>3
          DEF StreamInv, HasRead, Pumps
<1>12. Carries(tls[fd], tls'[fd])
  BY <1>4, <1>6, <1>8 DEF Carries, c
<1>13. tls' = [tls EXCEPT ![fd] = tls'[fd]] /\ tls'[fd].out = <<>>
  BY <1>6, <1>7, <1>8
<1> QED BY <1>0, <1>2, <1>6, <1>8, <1>9, <1>11, <1>12, <1>13, PumpStep

LEMMA ToReceiveStep ==
  ASSUME HTTPSInv, Pumping({"SendingInit", "Sending"}), UnchangedByProcess,
         NEW d, Carries(tls[fd], d), d.in = <<>>, d.out = <<>>, d.want = tls[fd].want,
         d.progress = tls[fd].progress, tls[fd].progress = "SendingInit" => d.want # 0,
         ToReceive(d), failureCode' \subseteq FailureCodes \cup {"TLS"}, outcome' = outcome
  PROVE  HTTPSInv'
<1> DEFINE c == tls[fd]
<1>0. Pumping(Pumps) /\ c.progress \in {"SendingInit", "Sending"}
  BY DEF Pumping, Pumps
<1>1. /\ Live
      /\ state = "InitSending" <=> c.want = 0
      /\ Owed = IF c.partial = <<>> THEN 0 ELSE Last(c.partial).left
      /\ c.progress = "Sending" => request.fd = fd
      /\ state = "TLSShutdown" => request.fd = fd
  BY <1>0, PumpFacts
<1>2. /\ fd \in DOMAIN tls /\ fd \in Nat /\ c \in Connections /\ ConnInv(c)
      /\ outcome \in [status : Statuses \cup {"Progress"}, length : Int]
      /\ request \in Requests
  BY <1>1, LiveFacts
<1>3. UNCHANGED <<answer, answered, fd, state>>
  BY DEF UnchangedByProcess, peer
<1>4. d \in Connections /\ d.connected = c.connected /\ d.phase = c.phase /\ d.written = c.written
      /\ d.partial = c.partial
  BY DEF Carries
<1>5. CASE d.want > 0
  <2> DEFINE e == [d EXCEPT !.internalBioRead = d.want]
  <2>1. StartRead(e)
    BY <1>5 DEF ToReceive
  <2>2. /\ e \in Connections /\ e.connected = d.connected /\ e.phase = d.phase
        /\ e.written = d.written /\ e.partial = d.partial /\ e.in = <<>> /\ e.out = <<>>
        /\ e.want = d.want /\ e.internalBioRead = d.want
    BY <1>4 DEF Connections
  <2> HIDE DEF e
  <2>3. Carries(c, e) /\ e.want = c.want /\ e.want # 0 /\ e.internalBioRead = e.want
    BY <1>4, <1>5, <2>2 DEF Carries
  <2>4. ~ (c.progress = "Receiving" /\ request.length > 0)
    BY <1>0
  <2> QED BY <1>0, <2>1, <2>2, <2>3, <2>4, ReadStarts
<1>6. CASE ~ (d.want > 0)
  <2> DEFINE e == [d EXCEPT !.internalBioRead = 0, !.progress = "Finished"]
  <2>1. d.want = 0 /\ c.progress = "Sending" /\ d.progress = "Sending"
    BY <1>0, <1>4, <1>6 DEF Connections
  <2>2. tls' = [tls EXCEPT ![fd] = e] /\ pc' = "execute" /\ request' = request
    BY <1>6, <2>1 DEF ToReceive
  <2>3. /\ e \in Connections /\ e.connected = d.connected /\ e.phase = d.phase
        /\ e.written = d.written /\ e.partial = d.partial /\ e.in = <<>> /\ e.out = <<>>
        /\ e.progress = "Finished"
    BY <1>4 DEF Connections, Statuses
  <2> HIDE DEF e
  <2>4. tls'[fd] = e /\ tls' = [tls EXCEPT ![fd] = tls'[fd]]
    BY <1>2, <2>2
  <2>5. Carries(c, tls'[fd])
    BY <1>4, <2>3, <2>4 DEF Carries
  <2> HIDE DEF c
  <2>6. Owed' = Owed /\ Len(Greeting)' = Len(Greeting)
    BY <1>3, <1>4, <2>3, <2>4, SameStream DEF c
  <2>7. StreamInv(tls[fd])'
    <3>1. /\ answered > Len(Greeting) => answer # NoAnswer
          /\ Piece(c.partial) /\ (c.partial # <<>> => Last(c.partial).left # 0)
      BY <1>2 DEF ConnInv, StreamInv
    <3>2. Piece(<<>>)
      BY DEF Piece
    <3> QED BY <1>1, <1>3, <1>4, <2>3, <2>4, <2>6, <3>1, <3>2 DEF StreamInv, Pumps
  <2>8. request.fd = fd
    BY <1>1, <2>1
  <2> QED BY <1>0, <1>2, <2>2, <2>3, <2>4, <2>5, <2>7, <2>8, PumpStep DEF c
<1> QED BY <1>5, <1>6

LEMMA ProcessSendingInitStep ==
  ASSUME HTTPSInv, ProcessSendingInit
  PROVE  HTTPSInv'
<1> DEFINE c == tls[fd]
           n == Min({Len(c.out), ChunkSize})
           d == [c EXCEPT !.networkBioRead = n, !.socketWrite = 0, !.buffer = SubSeq(c.out, 1, n),
                          !.out = SubSeq(c.out, n + 1, Len(c.out))]
<1>1. /\ Pumping({"SendingInit", "Sending"}) /\ Pumping(Pumps) /\ c.progress = "SendingInit"
      /\ UnchangedByProcess /\ failureCode' = failureCode /\ outcome' = outcome
      /\ IF n > 0 THEN StartWrite(d) ELSE ToReceive(c)
  BY DEF ProcessSendingInit, Pumping, Pumps
<1>2. Live /\ c.in = <<>>
  BY <1>1, PumpFacts
<1>3. c \in Connections /\ ConnInv(c)
  BY <1>2, LiveFacts
<1>4. /\ Len(c.out) <= ChunkSize
      /\ c.want > 0 \/ c.out # <<>>
      /\ c.out \in Seq(Tokens) /\ Len(c.out) \in Nat /\ ChunkSize \in Nat
  <2>1. c.out \in Seq(Tokens)
    BY <1>3 DEF Connections
  <2>2. OutInv(c)
    BY <1>3 DEF ConnInv
  <2> HIDE DEF c
  <2> QED BY <1>1, <2>1, <2>2, Constants DEF OutInv
<1>5. n = Len(c.out)
  BY <1>4, MinOfTwo
<1>6. failureCode' \subseteq FailureCodes \cup {"TLS"}
  BY <1>1 DEF HTTPSInv, Types
<1> HIDE DEF n
<1>7. CASE n > 0
  <2>1. SubSeq(c.out, 1, n) = c.out /\ SubSeq(c.out, n + 1, Len(c.out)) = <<>>
    BY <1>4, <1>5
  <2>2. d = [c EXCEPT !.networkBioRead = n, !.socketWrite = 0, !.buffer = c.out, !.out = <<>>]
    BY <2>1
  <2> HIDE DEF d
  <2>3. /\ d \in Connections /\ d.connected = c.connected /\ d.phase = c.phase
        /\ d.written = c.written /\ d.partial = c.partial /\ d.in = c.in /\ d.out = <<>>
        /\ d.want = c.want
    BY <1>3, <1>4, <1>5, <2>2, EmptySeq DEF Connections
  <2>4. Carries(c, d)
    BY <2>3 DEF Carries
  <2>5. StartWrite(d)
    BY <1>1, <1>7
  <2> QED BY <1>1, <1>2, <1>6, <2>3, <2>4, <2>5, WriteStarts
<1>8. CASE ~ (n > 0)
  <2>1. c.out = <<>> /\ c.want # 0
    BY <1>4, <1>5, <1>8, EmptySeq
  <2>2. Carries(c, c)
    BY <1>3 DEF Carries
  <2>3. ToReceive(c)
    BY <1>1, <1>8
  <2> QED BY <1>1, <1>2, <1>6, <2>1, <2>2, <2>3, ToReceiveStep
<1> QED BY <1>7, <1>8

\* The operation with the kernel failed.
LEMMA AbortingStep ==
  ASSUME HTTPSInv, Pumping({"Sending", "Receiving"}), UnchangedByProcess,
         ~ (tls[fd].progress = "Receiving" /\ request.length > 0),
         NEW code \in FailureCodes, Aborting(code)
  PROVE  HTTPSInv'
<1> DEFINE c == tls[fd]
           e == [c EXCEPT !.progress = "Aborted"]
<1>0. Pumping(Pumps) /\ c.progress \in {"Sending", "Receiving"}
  BY DEF Pumping, Pumps
<1>1. /\ Live /\ request.fd = fd /\ c.in = <<>> /\ c.out = <<>>
      /\ Owed = IF c.partial = <<>> THEN 0 ELSE Last(c.partial).left
  BY <1>0, PumpFacts
<1>2. fd \in DOMAIN tls /\ c \in Connections /\ ConnInv(c) /\ request \in Requests
  BY <1>1, LiveFacts
<1>3. UNCHANGED <<answer, answered, fd, state>>
  BY DEF UnchangedByProcess, peer
<1>4. /\ e \in Connections /\ e.progress = "Aborted" /\ e.connected = c.connected
      /\ e.phase = c.phase /\ e.written = c.written /\ e.partial = c.partial
      /\ e.in = <<>> /\ e.out = <<>>
  BY <1>1, <1>2 DEF Connections, Statuses
<1>5. /\ tls' = [tls EXCEPT ![fd] = e] /\ request' = request /\ pc' = "return"
      /\ outcome' = [status |-> "Aborted", length |-> 0]
      /\ failureCode' = failureCode \cup {code}
  BY <1>2 DEF Aborting, Returns
<1>6. /\ outcome' \in [status : Statuses \cup {"Progress"}, length : Int]
      /\ outcome'.status = "Aborted"
      /\ failureCode' \subseteq FailureCodes \cup {"TLS"}
  BY <1>5 DEF Statuses, HTTPSInv, Types
<1> HIDE DEF e
<1>7. tls'[fd] = e /\ tls' = [tls EXCEPT ![fd] = tls'[fd]]
  BY <1>2, <1>5
<1>8. Carries(c, tls'[fd])
  BY <1>4, <1>7 DEF Carries
<1> HIDE DEF c
<1>9. Owed' = Owed /\ Len(Greeting)' = Len(Greeting)
  BY <1>3, <1>4, <1>7, SameStream DEF c
<1>10. StreamInv(tls[fd])'
  <2>1. /\ answered > Len(Greeting) => answer # NoAnswer
        /\ Piece(c.partial) /\ (c.partial # <<>> => Last(c.partial).left # 0)
    BY <1>2 DEF ConnInv, StreamInv
  <2>2. Piece(<<>>)
    BY DEF Piece
  <2> QED BY <1>1, <1>3, <1>4, <1>7, <1>9, <2>1, <2>2 DEF StreamInv, Pumps
<1> QED BY <1>0, <1>1, <1>2, <1>4, <1>5, <1>6, <1>7, <1>8, <1>10, PumpStep DEF c

LEMMA ProcessSendingStep ==
  ASSUME HTTPSInv, ProcessSending
  PROVE  HTTPSInv'
<1> DEFINE c == tls[fd]
           n == request.length
           d == [c EXCEPT !.socketWrite = IF n > 0 THEN c.socketWrite + n ELSE c.socketWrite]
<1>1. /\ Pumping({"SendingInit", "Sending"}) /\ Pumping({"Sending", "Receiving"}) /\ Pumping(Pumps)
      /\ c.progress = "Sending" /\ UnchangedByProcess
  BY DEF ProcessSending, Pumping, Pumps
<1>2. Live /\ c.in = <<>> /\ c.out = <<>>
  BY <1>1, PumpFacts
<1>3. c \in Connections /\ request \in Requests
  BY <1>2, LiveFacts
<1>4. CASE TimedOut(n)
  <2>1. Aborting("Timeout") /\ "Timeout" \in FailureCodes
    BY <1>4 DEF ProcessSending, FailureCodes
  <2> QED BY <1>1, <2>1, AbortingStep
<1>5. CASE ~ TimedOut(n)
  <2>1. /\ IF d.networkBioRead # d.socketWrite THEN StartWrite(d) ELSE ToReceive(d)
        /\ failureCode' = IF n = Failed THEN failureCode \cup {"Send"} ELSE failureCode
        /\ outcome' = outcome
    BY <1>5 DEF ProcessSending
  <2>2. failureCode' \subseteq FailureCodes \cup {"TLS"}
    BY <2>1 DEF HTTPSInv, Types, FailureCodes
  <2>3. /\ d \in Connections /\ d.connected = c.connected /\ d.phase = c.phase
        /\ d.written = c.written /\ d.partial = c.partial /\ d.in = c.in /\ d.out = c.out
        /\ d.want = c.want /\ d.progress = c.progress
    <3> DEFINE m == IF n > 0 THEN c.socketWrite + n ELSE c.socketWrite
    <3>1. m \in Nat /\ d = [c EXCEPT !.socketWrite = m]
      <4>1. c.socketWrite \in Nat /\ n \in Int
        BY <1>3 DEF Connections, Requests
      <4> QED BY ONLY <4>1
    <3> HIDE DEF c, m, d
    <3> QED BY ONLY <1>3, <3>1 DEF Connections
  <2> HIDE DEF d
  <2>4. Carries(c, d)
    BY <2>3 DEF Carries
  <2>5. CASE StartWrite(d)
    BY <1>1, <1>2, <2>1, <2>2, <2>3, <2>4, <2>5, WriteStarts
  <2>6. CASE ToReceive(d)
    BY <1>1, <1>2, <2>1, <2>2, <2>3, <2>4, <2>6, ToReceiveStep
  <2> QED BY <2>1, <2>5, <2>6
<1> QED BY <1>4, <1>5

LEMMA ProcessReceivingStep ==
  ASSUME HTTPSInv, ProcessReceiving
  PROVE  HTTPSInv'
<1> DEFINE c == tls[fd]
           n == request.length
<1>1. /\ Pumping({"Sending", "Receiving"}) /\ Pumping(Pumps)
      /\ c.progress = "Receiving" /\ UnchangedByProcess
  BY DEF ProcessReceiving, Pumping, Pumps
<1>2. /\ Live /\ c.in = <<>> /\ c.out = <<>> /\ request.fd = fd /\ pc = "execute"
      /\ c.want # 0 /\ c.internalBioRead = c.want /\ n \in Failed .. c.want
      /\ state = "InitSending" <=> c.want = 0
  BY <1>1, PumpFacts
<1>3. /\ fd \in DOMAIN tls /\ c \in Connections /\ ConnInv(c) /\ request \in Requests
      /\ outcome \in [status : Statuses \cup {"Progress"}, length : Int]
  BY <1>2, LiveFacts
<1>4. n \in Int /\ failureCode \subseteq FailureCodes \cup {"TLS"}
      /\ {"Empty", "Timeout", "Recv"} \subseteq FailureCodes
  BY <1>3 DEF Requests, HTTPSInv, Types, FailureCodes
<1>5. CASE n = 0 \/ TimedOut(n) \/ n = Failed
  <2>1. n <= 0
    BY <1>5 DEF TimedOut, Cancelled, Failed
  <2>2. /\ n = 0 => Aborting("Empty")
        /\ TimedOut(n) => Aborting("Timeout")
        /\ n = Failed => Aborting("Recv")
    <3>1. ASSUME n = 0 PROVE Aborting("Empty")
      <4>1. ~ TimedOut(n) /\ n # Failed /\ n # Again
        BY <3>1 DEF TimedOut, Cancelled, Failed, Again
      <4> QED BY <3>1, <4>1 DEF ProcessReceiving
    <3>2. ASSUME TimedOut(n) PROVE Aborting("Timeout")
      <4>1. n # 0 /\ n # Failed /\ n # Again
        BY <3>2 DEF TimedOut, Cancelled, Failed, Again
      <4> QED BY <3>2, <4>1 DEF ProcessReceiving
    <3>3. ASSUME n = Failed PROVE Aborting("Recv")
      <4>1. n # 0 /\ ~ TimedOut(n) /\ n # Again
        BY <3>3 DEF TimedOut, Cancelled, Failed, Again
      <4> QED BY <3>3, <4>1 DEF ProcessReceiving
    <3> QED BY <3>1, <3>2, <3>3
  <2>3. PICK code \in FailureCodes : Aborting(code)
    BY <2>2, <1>4, <1>5
  <2>4. ~ (n > 0)
    BY <2>1, <1>4
  <2> QED BY <1>1, <2>3, <2>4, AbortingStep
<1>6. CASE n = Again
  <2>1. StartRead(c) /\ failureCode' = failureCode /\ outcome' = outcome
    BY <1>6 DEF ProcessReceiving, TimedOut, Cancelled, Failed, Again
  <2>2. ~ (n > 0)
    BY <1>6 DEF Again
  <2>3. Carries(c, c)
    BY <1>3 DEF Carries
  <2> QED BY <1>1, <1>2, <1>4, <2>1, <2>2, <2>3, ReadStarts
<1>7. CASE n > 0
  <2> DEFINE e == [c EXCEPT !.progress = "Finished", !.in = c.buffer]
  <2>1. /\ tls' = [tls EXCEPT ![fd].progress = "Finished",
                              ![fd].in = @ \o SubSeq(tls[fd].buffer, 1, n)]
        /\ failureCode' = failureCode /\ outcome' = outcome /\ pc' = pc /\ request' = request
    <3>1. n # 0 /\ ~ TimedOut(n) /\ n # Failed /\ n # Again
      BY <1>4, <1>7 DEF TimedOut, Cancelled, Failed, Again
    <3> QED BY <3>1 DEF ProcessReceiving, Aborting, Returns
  <2>2. /\ c.buffer \in Seq(Tokens) /\ Len(c.buffer) = n /\ Piece(c.buffer)
        /\ Last(c.buffer).left = Owed
    <3>1. HasRead
      BY <1>2, <1>7 DEF HasRead
    <3>2. c.buffer \in Seq(Tokens) /\ StreamInv(c)
      BY <1>3 DEF Connections, ConnInv
    <3> QED BY <1>1, <3>1, <3>2 DEF StreamInv
  <2>3. c.in \o SubSeq(c.buffer, 1, n) = c.buffer
    <3>1. SubSeq(c.buffer, 1, n) = c.buffer
      BY <2>2
    <3> QED BY <1>2, <2>2, <3>1, ConcatEmptySeq
  <2>4. tls' = [tls EXCEPT ![fd] = e]
    BY <1>3, <2>1, <2>3 DEF Connections
  <2>5. /\ e \in Connections /\ e.progress = "Finished" /\ e.connected = c.connected
        /\ e.phase = c.phase /\ e.written = c.written /\ e.partial = c.partial
        /\ e.in = c.buffer /\ e.out = <<>>
    BY <1>2, <1>3, <2>2 DEF Connections, Statuses
  <2> HIDE DEF e
  <2>6. tls'[fd] = e /\ tls' = [tls EXCEPT ![fd] = tls'[fd]]
    BY <1>3, <2>4
  <2>7. Carries(c, tls'[fd])
    BY <2>5, <2>6 DEF Carries
  <2>8. UNCHANGED <<answer, answered, fd, state>>
    BY <1>1 DEF UnchangedByProcess, peer
  <2>9. Owed' = Owed /\ Len(Greeting)' = Len(Greeting)
    BY <2>5, <2>6, <2>8, SameStream
  <2>10. c.buffer # <<>>
    BY <1>7, <2>2, EmptySeq
  <2>11. StreamInv(tls[fd])'
    <3>1. /\ answered > Len(Greeting) => answer # NoAnswer
          /\ Piece(c.partial) /\ (c.partial # <<>> => Last(c.partial).left # 0)
      BY <1>3 DEF ConnInv, StreamInv
    <3> HIDE DEF c
    <3> QED BY <2>2, <2>5, <2>6, <2>8, <2>9, <2>10, <3>1 DEF StreamInv, Pumps
  <2>12. /\ pc' = "execute" /\ request'.fd = fd /\ request' \in Requests
         /\ state # "InitSending"
    BY <1>2, <1>3, <2>1
  <2> QED BY <1>1, <1>3, <1>4, <2>1, <2>5, <2>6, <2>7, <2>11, <2>12, PumpStep
<1> QED BY <1>2, <1>4, <1>5, <1>6, <1>7 DEF Failed, Cancelled, Again, TimedOut

-----------------------------------------------------------------------------
(* The kernel and the server. *)

\* While the message waits its pump is under way.
LEMMA WaitFacts ==
  ASSUME HTTPSInv, pc = "wait"
  PROVE  /\ Live /\ request.fd = fd
         /\ tls[fd].progress \in {"Sending", "Receiving"}
         /\ tls[fd].progress = "Receiving" <=> request.event = "read"
         /\ ~ (state = "TLSHandshake" /\ tls[fd].connected)
         /\ tls[fd].in = <<>>
         /\ tls[fd].want = 0 <=> state = "InitSending"
         /\ tls[fd].phase = IF state = "TLSHandshake" THEN "hello"
                            ELSE IF state = "TLSShutdown" THEN "closing" ELSE "up"
         /\ tls[fd].progress = "Receiving" =>
              /\ tls[fd].want # 0 /\ tls[fd].internalBioRead = tls[fd].want
              /\ request.length \in 1 .. tls[fd].want
         /\ Owed = IF tls[fd].partial = <<>> THEN 0 ELSE Last(tls[fd].partial).left
         /\ tls[fd].want # 0 => tls[fd].want = IF Owed = 0 THEN 1 ELSE Owed
<1> DEFINE c == tls[fd]
<1>1. Live
  BY DEF HTTPSInv, Attached
<1>2. c \in Connections /\ ConnInv(c) /\ request \in Requests
  BY <1>1, LiveFacts
<1>3. c.want \in Nat /\ request.length \in Int
  BY <1>2 DEF Connections, Requests
<1> HIDE DEF c
<1>4. /\ c.progress \in {"Sending", "Receiving"} /\ request.fd = fd
      /\ c.progress = "Receiving" <=> request.event = "read"
      /\ ~ (state = "TLSHandshake" /\ c.connected)
  BY <1>2 DEF ConnInv, PumpInv, Pumps
<1>5. ~ Ended("Finished") /\ ~ Ended("Aborted") /\ ~ HasRead /\ pc # "execute"
  BY DEF Ended, HasRead
<1>6. c.phase = IF state = "TLSHandshake" THEN "hello"
                ELSE IF state = "TLSShutdown" THEN "closing" ELSE "up"
  <2>1. c.phase # "new"
    BY <1>2, <1>5 DEF ConnInv, PhaseInv
  <2> QED BY <1>1, <1>2, <1>4, <1>5, <2>1 DEF ConnInv, PhaseInv, Live, LiveStates
<1>7. /\ c.in = <<>>
      /\ c.want = 0 <=> state = "InitSending"
      /\ c.progress = "Receiving" =>
           /\ c.want # 0 /\ c.internalBioRead = c.want
           /\ request.length \in Failed .. c.want /\ request.length >= 1
      /\ Owed = IF c.partial = <<>> THEN 0 ELSE Last(c.partial).left
      /\ c.want # 0 => c.want = IF Owed = 0 THEN 1 ELSE Owed
  BY <1>2, <1>4, <1>5 DEF ConnInv, StreamInv, Pumps
<1>8. c.progress = "Receiving" => request.length \in 1 .. c.want
  BY <1>3, <1>7
<1> QED BY <1>1, <1>4, <1>6, <1>7, <1>8 DEF c

\* What the kernel does to the connection of the message keeps its state.
LEMMA KernelStep ==
  ASSUME HTTPSInv, NEW event, NEW n \in Int, TLSCompletes(event, n),
         sendErrors' \in 0 .. MaxSendErrors,
         answer' \in Answers \cup {NoAnswer}, answered' \in Nat,
         tls' = [tls EXCEPT ![fd] = tls'[fd]], Carries(tls[fd], tls'[fd]),
         tls'[fd].progress = tls[fd].progress, tls'[fd].in = tls[fd].in,
         tls'[fd].out = tls[fd].out, tls'[fd].want = tls[fd].want,
         StreamInv(tls[fd])'
  PROVE  HTTPSInv'
<1> DEFINE c == tls[fd]
           d == tls'[fd]
<1>1. /\ pc = "wait" /\ pc' = "execute"
      /\ UNCHANGED <<state, failures, failureCode, version, sendBufferOffset, connects, held, kept,
                     fd, sessionCache, outcome>>
  BY DEF TLSCompletes, task, manager, sessions
<1>2. /\ Live /\ request.fd = fd
      /\ c.progress \in {"Sending", "Receiving"}
      /\ ~ (state = "TLSHandshake" /\ c.connected)
      /\ c.phase = IF state = "TLSHandshake" THEN "hello"
                   ELSE IF state = "TLSShutdown" THEN "closing" ELSE "up"
  BY <1>1, WaitFacts
<1>3. /\ c \in Connections /\ ConnInv(c) /\ fd \in Nat /\ request \in Requests
      /\ outcome \in [status : Statuses \cup {"Progress"}, length : Int]
      /\ failureCode \subseteq FailureCodes \cup {"TLS"}
  BY <1>2, LiveFacts DEF HTTPSInv, Types
<1>4. request' \in Requests /\ request'.fd = fd
  BY <1>2, <1>3 DEF TLSCompletes, Requests
<1>5. /\ d \in Connections /\ d.progress = c.progress /\ d.connected = c.connected
      /\ d.in = c.in /\ d.out = c.out /\ d.want = c.want /\ d.partial = c.partial
      /\ d.written = c.written /\ d.phase = c.phase
  BY DEF Carries
<1> HIDE DEF c, d
<1>6. tls'[fd'] = d
  BY <1>1 DEF d
<1>7. ~ Ended("Finished")' /\ ~ Ended("Aborted")'
  BY <1>1 DEF Ended
<1>8. PumpInv(tls[fd])'
  BY <1>1, <1>2, <1>4, <1>5, <1>6, <1>7 DEF PumpInv, Pumps
<1>9. PhaseInv(tls[fd])'
  BY <1>1, <1>2, <1>4, <1>5, <1>6, <1>7 DEF PhaseInv
<1>10. OutInv(tls[fd])'
  BY <1>1, <1>2, <1>3, <1>4, <1>5, <1>6 DEF ConnInv, OutInv
<1>11. WrittenInv(tls[fd])'
  BY <1>1, <1>3, <1>5, <1>6, <1>7 DEF ConnInv, WrittenInv
<1>12. ConnInv(tls[fd])'
  BY <1>8, <1>9, <1>10, <1>11 DEF ConnInv
<1> QED BY <1>1, <1>2, <1>3, <1>4, <1>5, <1>12, InPlace DEF d

\* An operation that carries nothing, or a write.
LEMMA CompletesStep ==
  ASSUME HTTPSInv, NEW event, NEW n \in Int, TLSCompletes(event, n),
         event = "read" => n \in Failed .. 0,
         sendErrors' \in 0 .. MaxSendErrors, UNCHANGED <<answer, answered, tls>>
  PROVE  HTTPSInv'
<1> DEFINE c == tls[fd]
<1>1. /\ pc = "wait" /\ pc' = "execute" /\ request.event = event /\ request'.length = n
      /\ UNCHANGED <<state, fd>>
  <2>1. pc = "wait" /\ request' = [request EXCEPT !.length = n]
    BY DEF TLSCompletes
  <2>2. request \in Requests
    BY DEF HTTPSInv, Types
  <2> QED BY <2>1, <2>2 DEF TLSCompletes, task, Requests
<1>2. /\ Live
      /\ c.progress = "Receiving" <=> event = "read"
      /\ c.in = <<>>
      /\ c.want = 0 <=> state = "InitSending"
      /\ c.progress = "Receiving" => c.want # 0 /\ c.internalBioRead = c.want
      /\ Owed = IF c.partial = <<>> THEN 0 ELSE Last(c.partial).left
      /\ c.want # 0 => c.want = IF Owed = 0 THEN 1 ELSE Owed
  BY <1>1, WaitFacts
<1>3. /\ c \in Connections /\ ConnInv(c) /\ answered \in Nat /\ answer \in Answers \cup {NoAnswer}
      /\ tls \in [DOMAIN tls -> Connections] /\ fd \in DOMAIN tls
  BY <1>2, LiveFacts DEF HTTPSInv, Types
<1>4. tls' = [tls EXCEPT ![fd] = tls'[fd]] /\ tls'[fd] = c
  BY <1>3
<1>5. Carries(c, tls'[fd])
  BY <1>3, <1>4 DEF Carries
<1>6. Owed' = Owed /\ Len(Greeting)' = Len(Greeting)
  BY <1>1, <1>4, SameStream
<1>7. c.want \in Nat
  BY <1>3 DEF Connections
<1> HIDE DEF c
<1>8. tls'[fd'] = c
  BY <1>1, <1>4
<1>9. StreamInv(tls[fd])'
  <2>1. /\ answered > Len(Greeting) => answer # NoAnswer
        /\ Piece(c.partial) /\ (c.partial # <<>> => Last(c.partial).left # 0)
    BY <1>3 DEF ConnInv, StreamInv
  <2>2. Piece(<<>>)
    BY DEF Piece
  <2>3. c.progress = "Receiving" => request'.length \in Failed .. c.want /\ ~ (request'.length > 0)
    BY <1>1, <1>2, <1>7 DEF Failed
  <2> QED BY <1>1, <1>2, <1>6, <1>8, <2>1, <2>2, <2>3 DEF StreamInv, HasRead, Pumps
<1> QED BY <1>3, <1>4, <1>5, <1>9, KernelStep DEF c

LEMMA TLSWritesStep ==
  ASSUME HTTPSInv, TLSWrites
  PROVE  HTTPSInv'
<1>1. PICK n \in 1 .. request.length : TLSCompletes("write", n)
  BY DEF TLSWrites
<1>2. sendErrors' \in 0 .. MaxSendErrors /\ UNCHANGED <<answer, answered, tls>>
  BY DEF TLSWrites, HTTPSInv, Types
<1>3. n \in Int
  BY <1>1 DEF HTTPSInv, Types, Requests
<1> QED BY <1>1, <1>2, <1>3, CompletesStep

LEMMA TLSFailsStep ==
  ASSUME HTTPSInv, TLSFails \/ TLSNotReady
  PROVE  HTTPSInv'
<1>1. UNCHANGED <<answer, answered, tls>>
  BY DEF TLSFails, TLSNotReady, peer
<1>2. sendErrors' \in 0 .. MaxSendErrors
  <2>1. sendErrors \in 0 .. MaxSendErrors /\ MaxSendErrors \in Nat
    BY Constants DEF HTTPSInv, Types
  <2>2. sendErrors' = sendErrors \/ (sendErrors < MaxSendErrors /\ sendErrors' = sendErrors + 1)
    BY DEF TLSFails, TLSNotReady
  <2> QED BY <2>1, <2>2
<1>3. \E event \in {"read", "write"}, n \in {0, Again, Cancelled, Failed} : TLSCompletes(event, n)
  BY DEF TLSFails, TLSNotReady
<1>4. \A n \in {0, Again, Cancelled, Failed} : n \in Int /\ n \in Failed .. 0
  BY DEF Again, Cancelled, Failed
<1> QED BY <1>1, <1>2, <1>3, <1>4, CompletesStep

LEMMA AnswerFacts ==
  ASSUME NEW a \in Answers
  PROVE  Len(a.symbols) \in Nat /\ a.symbols \in Seq(Symbols)
BY AnswersAssumption

LEMMA TLSReadsStep ==
  ASSUME HTTPSInv, TLSReads
  PROVE  HTTPSInv'
<1> DEFINE c == tls[fd]
           g == Len(Greeting)
<1>1. PICK a \in Answers, n \in 1 .. request.length :
        /\ answered + n <= Len(Stream(a))
        /\ MaySend(a, answered + n)
        /\ TLSCompletes("read", n)
        /\ tls' = [tls EXCEPT ![fd].buffer = SubSeq(Stream(a), answered + 1, answered + n)]
        /\ answer' = IF answered + n > Len(Greeting) THEN a ELSE answer
        /\ answered' = answered + n
  BY DEF TLSReads
<1> DEFINE s == SubSeq(Stream(a), answered + 1, answered + n)
           e == [c EXCEPT !.buffer = s]
<1>2. /\ pc = "wait" /\ pc' = "execute" /\ request.event = "read"
      /\ UNCHANGED <<state, fd>> /\ sendErrors' = sendErrors
  BY <1>1 DEF TLSCompletes, task, TLSReads
<1>3. /\ Live
      /\ c.progress = "Receiving"
      /\ c.in = <<>>
      /\ c.want # 0 /\ c.internalBioRead = c.want
      /\ c.want = 0 <=> state = "InitSending"
      /\ request.length \in 1 .. c.want
      /\ c.want = IF Owed = 0 THEN 1 ELSE Owed
  BY <1>2, WaitFacts
<1>4. /\ c \in Connections /\ ConnInv(c) /\ answered \in Nat /\ answer \in Answers \cup {NoAnswer}
      /\ tls \in [DOMAIN tls -> Connections] /\ fd \in DOMAIN tls /\ request \in Requests
      /\ sendErrors \in 0 .. MaxSendErrors
  BY <1>3, LiveFacts DEF HTTPSInv, Types
<1>5. c.want \in Nat /\ n \in 1 .. c.want /\ n \in Nat /\ request'.length = n
  <2>1. c.want \in Nat
    BY <1>4 DEF Connections
  <2>2. request' = [request EXCEPT !.length = n]
    BY <1>1 DEF TLSCompletes
  <2>3. request'.length = n
    BY <2>2, <1>4 DEF Requests
  <2> HIDE DEF c
  <2> QED BY <2>1, <2>3, <1>1, <1>3
<1>6. g \in {0, 1} /\ Len(a.symbols) \in Nat
  BY AnswerFacts, StreamFacts
<1>7. answered > g => answer # NoAnswer
  BY <1>4 DEF ConnInv, StreamInv
<1>8. LeftAt(a, answered, g) = Owed
  <2>1. CASE answered > g
    <3>1. answered + n > g
      BY <2>1, <1>4, <1>5, <1>6
    <3>2. a = answer
      BY <3>1, <1>1, <1>7, <2>1, <1>4, <1>5, <1>6 DEF MaySend
    <3> QED BY <3>2 DEF Owed
  <2>2. CASE ~ (answered > g)
    <3>1. \A i \in Nat : answered - g \notin 1 .. i
      BY <2>2, <1>4, <1>6
    <3>2. \A b : LeftAt(b, answered, g) = 0
      <4> SUFFICES ASSUME NEW b PROVE LeftAt(b, answered, g) = 0
        OBVIOUS
      <4>1. answered - g \notin 1 .. Len(b.symbols)
        BY <2>2, <1>4, <1>6
      <4> QED BY <4>1 DEF LeftAt
    <3> QED BY <3>2 DEF Owed
  <2> QED BY <2>1, <2>2
<1>9. /\ s \in Seq(Tokens) /\ Len(s) = n /\ Piece(s)
      /\ Last(s).left = LeftAt(a, answered + n, g)
  <2> DEFINE w == c.want
  <2>1. /\ Len(a.symbols) \in Nat /\ answered \in Nat /\ w \in Nat /\ n \in 1 .. w
        /\ Asked(a, answered, w)
        /\ answered + n <= Len(Stream(a))
    BY <1>1, <1>3, <1>4, <1>5, <1>6, <1>8 DEF Asked
  <2> HIDE DEF w
  <2>2. OfOneRecord(a, answered, n)
    BY ONLY <2>1, PieceRead
  <2> QED BY ONLY <2>2 DEF OfOneRecord, ReadOf
<1>10. tls' = [tls EXCEPT ![fd] = e]
  BY <1>1, <1>4 DEF Connections
<1> HIDE DEF s
<1>11. /\ e \in Connections /\ e.progress = c.progress /\ e.connected = c.connected
       /\ e.in = c.in /\ e.out = c.out /\ e.want = c.want /\ e.partial = c.partial
       /\ e.internalBioRead = c.internalBioRead
       /\ e.written = c.written /\ e.phase = c.phase /\ e.buffer = s
  BY <1>4, <1>9 DEF Connections
<1> HIDE DEF e
<1>12. tls'[fd] = e /\ tls' = [tls EXCEPT ![fd] = tls'[fd]]
  BY <1>4, <1>10
<1>13. Carries(c, tls'[fd])
  BY <1>11, <1>12 DEF Carries
<1>14. Len(Greeting)' = g
  BY <1>2, <1>11, <1>12 DEF Greeting
<1> HIDE DEF g
<1>15. answer' \in Answers \cup {NoAnswer} /\ answered' \in Nat /\ answered' = answered + n
  BY <1>1, <1>4, <1>5
<1>16. Last(s).left = Owed'
  <2>1. Owed' = LeftAt(answer', answered + n, g)
    BY <1>14, <1>15 DEF Owed, LeftAt, DataTokens
  <2>2. CASE answered + n > g
    BY <1>1, <1>9, <2>1, <2>2 DEF g
  <2>3. CASE ~ (answered + n > g)
    <3>1. \A b : LeftAt(b, answered + n, g) = 0
      <4> SUFFICES ASSUME NEW b PROVE LeftAt(b, answered + n, g) = 0
        OBVIOUS
      <4>1. (answered + n) - g \notin 1 .. Len(b.symbols)
        BY <2>3, <1>4, <1>5, <1>6
      <4> QED BY <4>1 DEF LeftAt
    <3> QED BY <3>1, <2>1, <1>9
  <2> QED BY <2>2, <2>3
<1>17. answered' > g => answer' # NoAnswer
  <2>1. NoAnswer \notin Answers
    BY AnswersAssumption DEF NoAnswer, Codes
  <2> QED BY <1>1, <1>15, <2>1 DEF g
<1> HIDE DEF c
<1>18. tls'[fd'] = e
  BY <1>2, <1>12
<1>19. StreamInv(tls[fd])'
  <2>1. Piece(c.partial) /\ (c.partial # <<>> => Last(c.partial).left # 0)
    BY <1>4 DEF ConnInv, StreamInv
  <2>2. Piece(<<>>)
    BY DEF Piece
  <2>3. n \in Failed .. c.want /\ n > 0
    BY <1>5 DEF Failed
  <2>4. HasRead'
    BY <1>2, <1>5, <2>3 DEF HasRead
  <2> QED BY <1>2, <1>3, <1>5, <1>9, <1>11, <1>14, <1>16, <1>17, <1>18, <2>1, <2>2, <2>3, <2>4
          DEF StreamInv, Pumps
<1>20. n \in Int
  BY <1>5
<1> QED BY <1>1, <1>2, <1>4, <1>11, <1>12, <1>13, <1>15, <1>19, <1>20, KernelStep DEF c

\* Any step of the pump, of OpenSSL and of the kernel.
LEMMA TLSStep ==
  ASSUME HTTPSInv, TLSOperation \/ TLSKernel
  PROVE  HTTPSInv'
BY CallsSSLStep, CallsNothingStep, ProcessSendingInitStep, ProcessSendingStep,
   ProcessReceivingStep, TLSWritesStep, TLSReadsStep, TLSFailsStep DEF TLSOperation, TLSKernel

-----------------------------------------------------------------------------
(* The machine of the message: resets and connections. *)

\* A reset leaves the message without a connection, and the kept ones as they are.
LEMMA ResetStep ==
  ASSUME HTTPSInv, (Live /\ request.fd = fd) \/ state = "Init",
         NEW aborted \in BOOLEAN, NEW v, NEW offset, NEW codes,
         codes \subseteq FailureCodes \cup {"TLS"},
         HTTPSReset(aborted, v, offset, codes),
         failures' \in Nat, failures' <= FailuresMax + 2,
         ~ aborted => failures' <= FailuresMax + 1
  PROVE  HTTPSInv'
<1>1. /\ state' = IF aborted THEN "Aborted" ELSE "Init"
      /\ pc' = "execute" /\ failureCode' = codes
      /\ version' = IF "HTTP" \in codes /\ SupportsResigning THEN version + 1 ELSE version
      /\ sendBufferOffset' = IF aborted THEN sendBufferOffset ELSE 0
      /\ request' = [request EXCEPT !.fd = NoFd]
      /\ held' = held \ {request.fd}
      /\ UNCHANGED <<connects, kept, answer, answered, sessionCache, fd, outcome, sendErrors>>
  BY DEF HTTPSReset, Restart, Release, peer
<1>2. /\ held \cap kept = {}
      /\ DOMAIN tls = IF Live THEN kept \cup {fd} ELSE kept
      /\ request.fd \in {NoFd, fd}
      /\ Live => fd \notin kept
      /\ held \subseteq 1 .. connects /\ kept \subseteq 1 .. connects
      /\ tls \in [DOMAIN tls -> Connections]
  BY LiveFacts DEF HTTPSInv, Attached, Types, Live, LiveStates
<1>3. NoFd \notin kept
  BY <1>2 DEF NoFd, HTTPSInv, Types
<1>4. ~ Live'
  BY <1>1 DEF Live, LiveStates
<1>5. DOMAIN tls' = kept /\ \A f \in kept : tls'[f] = tls[f]
  <2>1. CASE Live /\ request.fd = fd
    <3>1. tls' = Forgotten(fd)
      BY <2>1, <1>2 DEF HTTPSReset, Destroy
    <3>2. DOMAIN tls \ {fd} = kept
      BY <2>1, <1>2
    <3> QED BY <3>1, <3>2 DEF Forgotten
  <2>2. CASE state = "Init"
    <3>1. ~ Live /\ DOMAIN tls = kept /\ request.fd = NoFd
      BY <2>2, <1>2 DEF Live, LiveStates, HTTPSInv, Attached
    <3>2. tls' = tls
      BY <3>1, <1>3 DEF HTTPSReset, Destroy
    <3> QED BY <3>1, <3>2
  <2> QED BY <2>1, <2>2
<1>6. tls' \in [DOMAIN tls' -> Connections]
  <2>1. \A f \in kept : f \in DOMAIN tls
    BY <1>2
  <2>2. \A f \in kept : tls'[f] \in Connections
    BY <2>1, <1>2, <1>5
  <2>3. tls' = [f \in DOMAIN tls' |-> tls'[f]]
    BY <1>2 DEF HTTPSReset, Destroy, Forgotten
  <2> QED BY <2>2, <2>3, <1>5
<1>7. Types'
  <2>0. version \in Nat /\ sendBufferOffset \in 0 .. Total /\ 0 \in 0 .. Total
    BY Constants DEF HTTPSInv, Types
  <2>1. version' \in Nat /\ sendBufferOffset' \in 0 .. Total
    BY <2>0, <1>1
  <2>2. request' \in Requests
    BY <1>1 DEF HTTPSInv, Types, Requests, NoFd
  <2>3. state' \in {"Init", "Aborted"} /\ held' \subseteq 1 .. connects
    BY <1>1, <1>2
  <2> QED BY <1>1, <1>6, <2>1, <2>2, <2>3 DEF HTTPSInv, Types
<1>8. Counted'
  BY <1>1 DEF Counted
<1>9. Attached'
  <2>1. held' \cap kept = {}
    BY <1>1, <1>2
  <2>2. request'.fd = NoFd
    BY <1>1 DEF HTTPSInv, Types, Requests
  <2> QED BY <1>1, <1>4, <1>5, <2>1, <2>2 DEF Attached
<1>10. (\A f \in kept : FreshTLS(tls[f]))'
  BY <1>1, <1>5 DEF HTTPSInv, FreshTLS
<1> QED BY <1>4, <1>7, <1>8, <1>9, <1>10 DEF HTTPSInv

LEMMA CountedResetStep ==
  ASSUME HTTPSInv, (Live /\ request.fd = fd) \/ state = "Init",
         NEW v, NEW offset, NEW limit \in {FailuresMax, ConnectionFailuresMax}, NEW codes,
         codes \subseteq FailureCodes \cup {"TLS"},
         CountedReset(v, offset, limit, codes)
  PROVE  HTTPSInv'
<1>1. HTTPSReset(Exceeds(limit), v, offset, codes) /\ failures' = failures + 1
  BY DEF CountedReset
<1>2. failures \in Nat /\ failures <= FailuresMax + 1
  BY DEF HTTPSInv, Types, Counted, Live, LiveStates
<1>3. limit \in Nat /\ limit <= FailuresMax
  BY Constants
<1>4. Exceeds(limit) \in BOOLEAN /\ (~ Exceeds(limit) => failures <= limit)
  BY <1>2, <1>3 DEF Exceeds
<1>5. failures' \in Nat /\ failures' <= FailuresMax + 2
      /\ (~ Exceeds(limit) => failures' <= FailuresMax + 1)
  BY <1>1, <1>2, <1>3, <1>4, Constants
<1> QED BY <1>1, <1>4, <1>5, ResetStep

LEMMA OpenFailsStep ==
  ASSUME HTTPSInv, OpenFails
  PROVE  HTTPSInv'
<1>1. /\ state = "Init"
      /\ CountedReset(receive, receiveBufferOffset, ConnectionFailuresMax, failureCode \cup {"Socket"})
  BY DEF OpenFails, Executing
<1>2. failureCode \cup {"Socket"} \subseteq FailureCodes \cup {"TLS"}
  BY DEF HTTPSInv, Types, FailureCodes
<1> QED BY <1>1, <1>2, CountedResetStep

LEMMA InitFailsStep ==
  ASSUME HTTPSInv, InitFails
  PROVE  HTTPSInv'
<1>1. /\ state = "Init" /\ pc = "execute" /\ pc' = pc
      /\ state' \in {"Init", "Aborted"} /\ (state' = "Init" <=> ~ Exceeds(ConnectionFailuresMax))
      /\ failureCode' = failureCode \cup {"TLS"}
      /\ version' \in {version, version + 1}
      /\ sendBufferOffset' \in {sendBufferOffset, 0}
      /\ request' = [request EXCEPT !.fd = NoFd]
      /\ connects' = connects + 1 /\ held' = held \cup {connects + 1} /\ fd' = connects + 1
      /\ failures' = failures + 1
      /\ UNCHANGED <<kept, answer, answered, sessionCache, tls, outcome, sendErrors>>
  BY DEF InitFails, Restart, Executing, peer, sessions
<1>2. /\ held \cap kept = {} /\ DOMAIN tls = kept
      /\ held \subseteq 1 .. connects /\ kept \subseteq 1 .. connects /\ connects \in Nat
      /\ ~ Live
  BY <1>1 DEF HTTPSInv, Attached, Types, Live, LiveStates
<1>3. connects + 1 \notin kept /\ held' \subseteq 1 .. connects' /\ kept' \subseteq 1 .. connects'
      /\ connects' \in Nat
  BY <1>1, <1>2
<1>4. ~ Live'
  BY <1>1 DEF Live, LiveStates
<1>5. Types'
  <2>0. version \in Nat /\ sendBufferOffset \in 0 .. Total /\ 0 \in 0 .. Total /\ failures \in Nat
    BY Constants DEF HTTPSInv, Types
  <2>1. version' \in Nat /\ sendBufferOffset' \in 0 .. Total /\ failures' \in Nat
    BY <2>0, <1>1
  <2>2. request' \in Requests
    BY <1>1 DEF HTTPSInv, Types, Requests, NoFd
  <2>3. failureCode' \subseteq FailureCodes \cup {"TLS"} /\ fd' \in Nat
    BY <1>1, <1>2 DEF HTTPSInv, Types
  <2> QED BY <1>1, <1>3, <2>1, <2>2, <2>3 DEF HTTPSInv, Types
<1>6. Counted'
  <2>1. failures \in Nat /\ failures <= FailuresMax + 1
    BY <1>1 DEF HTTPSInv, Types, Counted
  <2>2. state' # "Aborted" => failures <= ConnectionFailuresMax
    BY <1>1, <2>1, Constants DEF Exceeds
  <2> QED BY <1>1, <2>1, <2>2, Constants DEF Counted
<1>7. Attached'
  <2>1. request'.fd = NoFd
    BY <1>1 DEF HTTPSInv, Types, Requests
  <2>2. held' \cap kept' = {}
    BY <1>1, <1>2, <1>3
  <2> QED BY <1>1, <1>2, <1>4, <2>1, <2>2 DEF Attached
<1>8. (\A f \in kept : FreshTLS(tls[f]))'
  BY <1>1 DEF HTTPSInv, FreshTLS
<1> QED BY <1>4, <1>5, <1>6, <1>7, <1>8 DEF HTTPSInv

\* A connection at its beginning, or one that was kept.
LEMMA OpensStep ==
  ASSUME HTTPSInv, Executing("Init"), NEW f \in Nat \ {0}, NEW c \in Connections,
         Opens(f, c, kept \ {f}),
         connects' \in Nat, connects <= connects', f <= connects',
         state' = "TLSHandshake", sendBufferOffset' = 0,
         UNCHANGED <<failures, failureCode, version, pc, request, sessionCache, outcome,
                     sendErrors>>,
         c.out = <<>>, c.in = <<>>, c.partial = <<>>, c.written = 0,
         \/ c.progress = "Init" /\ c.phase = "new" /\ ~ c.connected
         \/ c.progress = "Finished" /\ c.phase = "up" /\ c.connected
  PROVE  HTTPSInv'
<1>1. /\ state = "Init" /\ pc = "execute" /\ ~ Live /\ Live'
  BY DEF Executing, Live, LiveStates
<1>2. /\ held \cap kept = {} /\ DOMAIN tls = kept /\ request.fd = NoFd
      /\ held \subseteq 1 .. connects /\ kept \subseteq 1 .. connects /\ connects \in Nat
      /\ tls \in [DOMAIN tls -> Connections]
  BY <1>1 DEF HTTPSInv, Attached, Types
<1>3. /\ fd' = f /\ held' = held \cup {f} /\ kept' = kept \ {f} /\ answer' = NoAnswer
      /\ answered' = 0
      /\ tls' = [g \in DOMAIN tls \cup {f} |-> IF g = f THEN c ELSE tls[g]]
  BY DEF Opens
<1>4. /\ DOMAIN tls' = (kept \ {f}) \cup {f} /\ tls'[f] = c
      /\ \A g \in kept \ {f} : tls'[g] = tls[g]
  BY <1>2, <1>3
<1>5. tls' \in [DOMAIN tls' -> Connections]
  BY <1>2, <1>3
<1>6. held' \subseteq 1 .. connects' /\ kept' \subseteq 1 .. connects'
  <2>1. \A g \in 1 .. connects : g \in 1 .. connects'
    BY <1>2
  <2>2. f \in 1 .. connects'
    OBVIOUS
  <2> QED BY <2>1, <2>2, <1>2, <1>3
<1>7. Types'
  <2>1. sendBufferOffset' \in 0 .. Total
    BY Constants
  <2> QED BY <1>3, <1>5, <1>6, <2>1 DEF HTTPSInv, Types, LiveStates
<1>8. Counted'
  BY <1>1 DEF HTTPSInv, Counted
<1>9. Attached'
  BY <1>1, <1>2, <1>3, <1>4 DEF Attached, LiveStates
<1>10. (\A g \in kept : FreshTLS(tls[g]))'
  BY <1>3, <1>4 DEF HTTPSInv, FreshTLS
<1>11. tls'[fd'] = c
  BY <1>3, <1>4
<1>12. ~ Ended("Finished")' /\ ~ Ended("Aborted")' /\ pc' = "execute"
  BY <1>1 DEF Ended
<1>13. PumpInv(tls[fd])'
  BY <1>11, <1>12 DEF PumpInv, Pumps
<1>14. PhaseInv(tls[fd])'
  BY <1>11, <1>12 DEF PhaseInv, FreshTLS
<1>15. OutInv(tls[fd])'
  <2>1. Len(c.out) <= ChunkSize
    BY Constants, EmptySeq
  <2> QED BY <1>11, <2>1 DEF OutInv
<1>16. WrittenInv(tls[fd])'
  BY <1>11 DEF WrittenInv
<1>17. StreamInv(tls[fd])'
  <2>1. Len(Greeting)' \in {0, 1}
    BY EmptySeq DEF Greeting
  <2>2. Owed' = 0 /\ ~ (answered' > Len(Greeting)')
    <3>1. \A i : 0 - Len(Greeting)' \notin 1 .. i
      BY <2>1
    <3> QED BY <1>3, <2>1, <3>1 DEF Owed, LeftAt
  <2>3. Piece(<<>>)
    BY DEF Piece
  <2> QED BY <1>11, <2>2, <2>3 DEF StreamInv, Pumps
<1>18. ConnInv(tls[fd])'
  BY <1>13, <1>14, <1>15, <1>16, <1>17 DEF ConnInv
<1> QED BY <1>7, <1>8, <1>9, <1>10, <1>18 DEF HTTPSInv

LEMMA OpenNewStep ==
  ASSUME HTTPSInv, OpenNew
  PROVE  HTTPSInv'
<1>1. PICK address \in Addresses : Opens(connects + 1, NewTLS(address), kept)
  BY DEF OpenNew
<1>2. connects \in Nat /\ kept \subseteq 1 .. connects
      /\ sessionCache \in [0 .. CacheSize - 1 -> [first : Nat, second : Nat]]
  BY DEF HTTPSInv, Types
<1>3. address \in Nat /\ Reused(address) \in Nat
  <2>1. address \in Nat /\ Slot(address) \in 0 .. CacheSize - 1
    BY Constants DEF Slot
  <2> QED BY <2>1, <1>2 DEF Reused, NoSession
<1> DEFINE c == NewTLS(address)
<1>4. /\ c \in Connections /\ c.out = <<>> /\ c.in = <<>> /\ c.partial = <<>> /\ c.written = 0
      /\ c.progress = "Init" /\ c.phase = "new" /\ ~ c.connected
  BY <1>3, EmptySeq DEF NewTLS, Connections, Statuses
<1>5. kept \ {connects + 1} = kept /\ connects + 1 \in Nat \ {0}
  BY <1>2
<1> HIDE DEF c
<1>6. Opens(connects + 1, c, kept \ {connects + 1})
  BY <1>1, <1>5 DEF c
<1>7. Executing("Init") /\ connects' = connects + 1 /\ state' = "TLSHandshake" /\ sendBufferOffset' = 0
      /\ UNCHANGED <<failures, failureCode, version, pc, request, sessionCache, outcome, sendErrors>>
  BY DEF OpenNew
<1> QED BY <1>2, <1>4, <1>5, <1>6, <1>7, OpensStep

LEMMA OpenKeptStep ==
  ASSUME HTTPSInv, OpenKept
  PROVE  HTTPSInv'
<1>1. PICK f \in kept : Opens(f, KeptTLS(tls[f]), kept \ {f})
  BY DEF OpenKept
<1>2. Executing("Init") /\ connects' = connects /\ state' = "TLSHandshake" /\ sendBufferOffset' = 0
      /\ UNCHANGED <<failures, failureCode, version, pc, request, sessionCache, outcome, sendErrors>>
  BY DEF OpenKept, sessions
<1>3. connects \in Nat /\ f \in 1 .. connects /\ f \in DOMAIN tls /\ tls[f] \in Connections
      /\ FreshTLS(tls[f])
  <2>1. connects \in Nat /\ kept \subseteq 1 .. connects /\ kept \subseteq DOMAIN tls
        /\ tls \in [DOMAIN tls -> Connections]
    BY DEF HTTPSInv, Types, Attached
  <2> QED BY <2>1 DEF HTTPSInv
<1> DEFINE c == KeptTLS(tls[f])
<1>4. /\ c \in Connections /\ c.out = <<>> /\ c.in = <<>> /\ c.partial = <<>> /\ c.written = 0
      /\ c.progress = "Finished" /\ c.phase = "up" /\ c.connected
  BY <1>3, EmptySeq DEF KeptTLS, Connections, FreshTLS
<1> HIDE DEF c
<1>5. Opens(f, c, kept \ {f})
  BY <1>1 DEF c
<1>6. f \in Nat \ {0} /\ f <= connects' /\ connects' \in Nat /\ connects <= connects'
  BY <1>2, <1>3
<1> QED BY <1>2, <1>4, <1>5, <1>6, OpensStep

-----------------------------------------------------------------------------
(* The machine of the message: what follows an operation that has returned. *)

\* A step after an operation, that leaves the connection as it is.
LEMMA GoesOn ==
  ASSUME HTTPSInv, Live, pc = "return",
         UNCHANGED <<failures, version, request, connects, answer, answered, fd, tls, held, kept,
                     outcome, sendErrors>>,
         state' \in LiveStates, pc' \in {"execute", "close", "thrown"},
         pc' = "close" => state' = "TLSShutdown",
         pc' = "thrown" => state' = "InitReceiving",
         failureCode' = failureCode, sendBufferOffset' \in 0 .. Total,
         sessionCache' \in [0 .. CacheSize - 1 -> [first : Nat, second : Nat]],
         tls[fd].progress = "Aborted" => state' = "TLSShutdown",
         state' = "InitSending" <=> state \in {"TLSHandshake", "InitSending"} /\ state' = "InitSending",
         PhaseInv(tls[fd])', WrittenInv(tls[fd])'
  PROVE  HTTPSInv'
<1> DEFINE c == tls[fd]
<1>1. /\ fd \in DOMAIN tls /\ c \in Connections /\ ConnInv(c)
  BY LiveFacts
<1>2. c.progress \notin Pumps
  BY <1>1 DEF ConnInv, PumpInv
<1>3. tls'[fd'] = c
  OBVIOUS
<1> HIDE DEF c
<1>4. Types'
  BY DEF HTTPSInv, Types
<1>5. Counted'
  BY DEF HTTPSInv, Counted, Live, LiveStates
<1>6. Live'
  BY DEF Live
<1>7. Attached'
  BY <1>6 DEF HTTPSInv, Attached, Live, LiveStates
<1>8. (\A f \in kept : FreshTLS(tls[f]))'
  BY DEF HTTPSInv, FreshTLS
<1>9. Owed' = Owed /\ Len(Greeting)' = Len(Greeting)
  BY SameStream
<1>10. PumpInv(tls[fd])'
  BY <1>1, <1>2, <1>3 DEF c, ConnInv, PumpInv, Pumps, Ended
<1>11. OutInv(tls[fd])'
  BY <1>1, <1>3 DEF ConnInv, OutInv
<1>12. StreamInv(tls[fd])'
  BY <1>1, <1>2, <1>3, <1>9 DEF ConnInv, StreamInv, Pumps
<1>13. ConnInv(tls[fd])'
  BY <1>10, <1>11, <1>12 DEF ConnInv
<1> QED BY <1>4, <1>5, <1>7, <1>8, <1>13 DEF HTTPSInv

\* What an operation that has returned says of the connection.
LEMMA ReturnFacts ==
  ASSUME HTTPSInv, pc = "return"
  PROVE  /\ Live /\ outcome.status \in {"Finished", "Aborted"}
         /\ outcome.status = "Finished" => tls[fd].progress = "Finished"
         /\ outcome.status = "Aborted" => request.fd = fd
         /\ PhaseInv(tls[fd]) /\ WrittenInv(tls[fd])
         /\ fd \in DOMAIN tls /\ fd \notin kept /\ fd \in held
         /\ sendBufferOffset \in 0 .. Total
         /\ sessionCache \in [0 .. CacheSize - 1 -> [first : Nat, second : Nat]]
<1>1. Live
  BY DEF HTTPSInv, Attached
<1>2. ConnInv(tls[fd])
  BY <1>1 DEF HTTPSInv
<1>3. sessionCache \in [0 .. CacheSize - 1 -> [first : Nat, second : Nat]]
  BY DEF HTTPSInv, Types
<1> QED BY <1>1, <1>2, <1>3, LiveFacts DEF ConnInv, PumpInv, Ended

\* execute never returns with nothing under way: a handshake ends or is aborted.
LEMMA HandshakeEndsStep ==
  ASSUME HTTPSInv, HandshakeEnds
  PROVE  HTTPSInv'
<1>1. pc = "return" /\ state = "TLSHandshake" /\ outcome.status # "Aborted"
  BY DEF HandshakeEnds
<1>2. Live /\ outcome.status = "Finished" /\ tls[fd].progress = "Finished" /\ PhaseInv(tls[fd])
      /\ WrittenInv(tls[fd])
      /\ sessionCache \in [0 .. CacheSize - 1 -> [first : Nat, second : Nat]]
  BY <1>1, ReturnFacts
<1>3. /\ state' = "InitSending" /\ pc' = "execute"
      /\ UNCHANGED <<failures, failureCode, version, sendBufferOffset, request, connects, answer,
                     answered, fd, tls, held, kept, sessionCache, outcome, sendErrors>>
  BY <1>2 DEF HandshakeEnds, UnchangedByReturn, peer, sessions
<1>4. sendBufferOffset = 0 /\ tls[fd].written = 0 /\ tls[fd].phase = "up" /\ tls[fd].in = <<>>
      /\ tls[fd].partial = <<>>
  BY <1>1, <1>2 DEF PhaseInv, WrittenInv, Ended
<1>5. PhaseInv(tls[fd])'
  BY <1>3, <1>4 DEF PhaseInv, Ended
<1>6. WrittenInv(tls[fd])'
  <2>1. 0 < Total /\ Source(0).length \in Nat
    BY Constants, SourceFacts
  <2>2. Source(sendBufferOffset)' = Source(0)
    BY <1>3, <1>4 DEF Source
  <2> QED BY <1>3, <1>4, <2>1, <2>2 DEF WrittenInv, Ended
<1>7. sendBufferOffset' \in 0 .. Total
  BY <1>3, <1>4, Constants
<1> QED BY <1>1, <1>2, <1>3, <1>5, <1>6, <1>7, GoesOn DEF LiveStates

LEMMA HandshakeFailsStep ==
  ASSUME HTTPSInv, HandshakeFails
  PROVE  HTTPSInv'
<1>1. pc = "return" /\ outcome.status = "Aborted"
      /\ CountedReset(receive, receiveBufferOffset, FailuresMax, failureCode \cup {"TLS"})
  BY DEF HandshakeFails, Returned
<1>2. Live /\ request.fd = fd
  BY <1>1, ReturnFacts
<1>3. failureCode \cup {"TLS"} \subseteq FailureCodes \cup {"TLS"}
  BY DEF HTTPSInv, Types
<1> QED BY <1>1, <1>2, <1>3, CountedResetStep

LEMMA TransferFailsStep ==
  ASSUME HTTPSInv, TransferFails
  PROVE  HTTPSInv'
<1>1. pc = "return" /\ outcome.status = "Aborted"
      /\ CountedReset(receive, receiveBufferOffset, FailuresMax, failureCode)
  BY DEF TransferFails, Returned
<1>2. Live /\ request.fd = fd
  BY <1>1, ReturnFacts
<1>3. failureCode \subseteq FailureCodes \cup {"TLS"}
  BY DEF HTTPSInv, Types
<1> QED BY <1>1, <1>2, <1>3, CountedResetStep

\* What was sent is what was asked for, so that no more than the request is counted.
LEMMA SendEndsStep ==
  ASSUME HTTPSInv, SendEnds
  PROVE  HTTPSInv'
<1>1. pc = "return" /\ state = "InitSending" /\ outcome.status = "Finished"
  BY DEF SendEnds, Returned
<1>2. Live /\ tls[fd].progress = "Finished" /\ PhaseInv(tls[fd]) /\ WrittenInv(tls[fd])
      /\ sessionCache \in [0 .. CacheSize - 1 -> [first : Nat, second : Nat]]
      /\ sendBufferOffset \in 0 .. Total
  BY <1>1, ReturnFacts
<1>3. sendBufferOffset < Total /\ outcome.length = Source(sendBufferOffset).length
      /\ tls[fd].written = 0 /\ tls[fd].partial = <<>> /\ tls[fd].in = <<>> /\ tls[fd].phase = "up"
  BY <1>1, <1>2 DEF PhaseInv, WrittenInv, Ended
<1>4. sendBufferOffset \in Nat /\ Total \in Nat
  BY <1>2, Constants
<1>5. Sent(outcome.length) \in 0 .. Total
  BY <1>3, <1>4, SourceFacts DEF Sent
<1>6. /\ UNCHANGED <<failures, failureCode, version, request, connects, answer, answered, fd, tls,
                     held, kept, sessionCache, outcome, sendErrors>>
      /\ sendBufferOffset' = Sent(outcome.length)
      /\ \/ state' = "InitReceiving" /\ pc' \in {"execute", "thrown"}
         \/ state' = "InitSending" /\ pc' = "execute" /\ ~ (Sent(outcome.length) >= Total)
  BY <1>1 DEF SendEnds, UnchangedByReturn, peer, sessions
<1>7. PhaseInv(tls[fd])'
  BY <1>3, <1>6 DEF PhaseInv, Ended
<1>8. WrittenInv(tls[fd])'
  <2>1. CASE state' = "InitReceiving"
    BY <2>1, <1>3, <1>6 DEF WrittenInv
  <2>2. CASE state' = "InitSending" /\ pc' = "execute" /\ ~ (Sent(outcome.length) >= Total)
    <3>1. sendBufferOffset' \in Nat /\ sendBufferOffset' < Total
      BY <2>2, <1>4, <1>5, <1>6
    <3>2. Source(sendBufferOffset') .length \in Nat
      BY <3>1, SourceFacts
    <3>3. Source(sendBufferOffset)' = Source(sendBufferOffset')
      BY DEF Source
    <3>4. Total' = Total
      BY DEF Total
    <3> QED BY <2>2, <1>3, <1>6, <3>1, <3>2, <3>3, <3>4 DEF WrittenInv, Ended
  <2> QED BY <2>1, <2>2, <1>6
<1> QED BY <1>1, <1>2, <1>5, <1>6, <1>7, <1>8, GoesOn DEF LiveStates

LEMMA ReceivesFacts ==
  ASSUME HTTPSInv, Receives
  PROVE  /\ pc = "return" /\ Live /\ request.fd = fd /\ FreshTLS(tls[fd]) /\ WrittenInv(tls[fd])
         /\ fd \in DOMAIN tls /\ fd \notin kept /\ fd \in held
         /\ sendBufferOffset \in 0 .. Total
         /\ sessionCache \in [0 .. CacheSize - 1 -> [first : Nat, second : Nat]]
<1>1. pc = "return" /\ state \in {"InitReceiving", "Receiving"} /\ outcome.status = "Finished"
  BY DEF Receives, Returned
<1> QED BY <1>1, ReturnFacts DEF PhaseInv, Ended

LEMMA ReceiveContinuesStep ==
  ASSUME HTTPSInv, ReceiveContinues
  PROVE  HTTPSInv'
<1>1. Receives
  BY DEF ReceiveContinues
<1>2. /\ pc = "return" /\ Live /\ request.fd = fd /\ FreshTLS(tls[fd]) /\ sendBufferOffset \in 0 .. Total
      /\ sessionCache \in [0 .. CacheSize - 1 -> [first : Nat, second : Nat]]
  BY <1>1, ReceivesFacts
<1>3. /\ state' = "Receiving" /\ pc' = "execute"
      /\ UNCHANGED <<failures, failureCode, version, sendBufferOffset, request, connects, answer,
                     answered, fd, tls, held, kept, sessionCache, outcome, sendErrors>>
  BY DEF ReceiveContinues, UnchangedByReturn, peer, sessions
<1>4. PhaseInv(tls[fd])' /\ WrittenInv(tls[fd])'
  BY <1>2, <1>3 DEF PhaseInv, WrittenInv, FreshTLS, Ended
<1>5. tls[fd].progress = "Finished"
  BY <1>2 DEF FreshTLS
<1> QED BY <1>2, <1>3, <1>4, <1>5, GoesOn DEF LiveStates

LEMMA ReceiveThrowsStep ==
  ASSUME HTTPSInv, ReceiveThrows
  PROVE  HTTPSInv'
<1>1. Receives /\ CountedReset(Came, CameTo, FailuresMax, failureCode \cup {"HTTP"})
  BY DEF ReceiveThrows
<1>2. Live /\ request.fd = fd
  BY <1>1, ReceivesFacts
<1>3. failureCode \cup {"HTTP"} \subseteq FailureCodes \cup {"TLS"}
  BY DEF HTTPSInv, Types, FailureCodes
<1> QED BY <1>1, <1>2, <1>3, CountedResetStep

LEMMA ReceiveRefusedStep ==
  ASSUME HTTPSInv, ReceiveRefused
  PROVE  HTTPSInv'
<1>1. Receives /\ HTTPSReset(TRUE, Came, CameTo, failureCode \cup {"HTTP"}) /\ failures' = failures
  BY DEF ReceiveRefused
<1>2. Live /\ request.fd = fd
  BY <1>1, ReceivesFacts
<1>3. failureCode \cup {"HTTP"} \subseteq FailureCodes \cup {"TLS"} /\ failures \in Nat
      /\ failures <= FailuresMax + 2
  BY DEF HTTPSInv, Types, Counted, FailureCodes
<1> QED BY <1>1, <1>2, <1>3, ResetStep

\* A connection is given back with nothing of its message left in it.
LEMMA ReceiveEndsStep ==
  ASSUME HTTPSInv, ReceiveEnds
  PROVE  HTTPSInv'
<1>1. Receives
  BY DEF ReceiveEnds
<1>2. /\ pc = "return" /\ Live /\ request.fd = fd /\ FreshTLS(tls[fd]) /\ WrittenInv(tls[fd])
      /\ fd \in DOMAIN tls /\ fd \notin kept /\ fd \in held /\ sendBufferOffset \in 0 .. Total
      /\ sessionCache \in [0 .. CacheSize - 1 -> [first : Nat, second : Nat]]
  BY <1>1, ReceivesFacts
<1>3. UNCHANGED <<failures, failureCode, version, sendBufferOffset, request, connects, answer,
                  answered, fd, tls, sessionCache, outcome, sendErrors>>
  BY DEF ReceiveEnds, UnchangedByReturn, peer, sessions
<1>4. CASE reuse
  <2>1. state' = "Finished" /\ pc' = "done" /\ held' = held \ {fd} /\ kept' = kept \cup {fd}
    BY <1>2, <1>4 DEF ReceiveEnds
  <2>2. /\ held \cap kept = {} /\ DOMAIN tls = kept \cup {fd}
        /\ held \subseteq 1 .. connects /\ kept \subseteq 1 .. connects
    BY <1>2 DEF HTTPSInv, Attached, Types
  <2>3. Types'
    BY <1>2, <1>3, <2>1, <2>2 DEF HTTPSInv, Types
  <2>4. Counted'
    BY <1>2, <1>3, <2>1 DEF HTTPSInv, Counted, Live, LiveStates
  <2>5. ~ Live'
    BY <2>1 DEF Live, LiveStates
  <2>6. Attached'
    BY <1>3, <2>1, <2>2, <2>5 DEF Attached
  <2>7. (\A f \in kept : FreshTLS(tls[f]))'
    BY <1>2, <1>3, <2>1 DEF HTTPSInv, FreshTLS
  <2> QED BY <2>3, <2>4, <2>5, <2>6, <2>7 DEF HTTPSInv
<1>5. CASE ~ reuse
  <2>1. state' = "TLSShutdown" /\ pc' = "execute" /\ UNCHANGED <<held, kept>>
    BY <1>5 DEF ReceiveEnds
  <2>2. PhaseInv(tls[fd])' /\ WrittenInv(tls[fd])'
    BY <1>2, <1>3, <2>1 DEF PhaseInv, WrittenInv, FreshTLS, Ended
  <2> QED BY <1>2, <1>3, <2>1, <2>2, GoesOn DEF LiveStates
<1> QED BY <1>4, <1>5

LEMMA ShutdownAgainStep ==
  ASSUME HTTPSInv, ShutdownAgain
  PROVE  HTTPSInv'
<1>1. pc = "return" /\ state = "TLSShutdown" /\ state' = state /\ pc' = "execute"
      /\ UNCHANGED <<failures, failureCode, version, sendBufferOffset, request, connects, answer,
                     answered, fd, tls, held, kept, sessionCache, outcome, sendErrors>>
  BY DEF ShutdownAgain, Returned, UnchangedByReturn, peer, sessions, task
<1>2. Live /\ PhaseInv(tls[fd]) /\ WrittenInv(tls[fd]) /\ sendBufferOffset \in 0 .. Total
      /\ sessionCache \in [0 .. CacheSize - 1 -> [first : Nat, second : Nat]]
  BY <1>1, ReturnFacts
<1>3. PhaseInv(tls[fd])' /\ WrittenInv(tls[fd])'
  BY <1>1, <1>2 DEF PhaseInv, WrittenInv, FreshTLS, Ended
<1> QED BY <1>1, <1>2, <1>3, GoesOn DEF LiveStates

LEMMA ShutdownCachesStep ==
  ASSUME HTTPSInv, ShutdownCaches
  PROVE  HTTPSInv'
<1> DEFINE c == tls[fd]
           Table == [0 .. CacheSize - 1 -> [first : Nat, second : Nat]]
<1>1. pc = "return" /\ state = "TLSShutdown" /\ state' = state /\ pc' = "close"
      /\ UNCHANGED <<failures, failureCode, version, sendBufferOffset, request, connects, answer,
                     answered, fd, tls, held, kept, outcome, sendErrors>>
  BY DEF ShutdownCaches, Returned, UnchangedByReturn, peer, task
<1>2. Live /\ PhaseInv(tls[fd]) /\ WrittenInv(tls[fd]) /\ sendBufferOffset \in 0 .. Total
      /\ sessionCache \in Table
  BY <1>1, ReturnFacts
<1>3. c.address \in Nat /\ c.session \in Nat
  <2>1. c \in Connections
    BY <1>2, LiveFacts
  <2> HIDE DEF c
  <2> QED BY <2>1, Constants DEF Connections
<1>4. \/ CacheSession(c.address, c.reused, c.session)
      \/ DropSession(c.address)
      \/ UNCHANGED sessions
  BY DEF ShutdownCaches
<1> HIDE DEF c
<1>5. sessionCache' \in Table
  <2> DEFINE slot == Slot(c.address)
  <2>1. slot \in 0 .. CacheSize - 1
    BY <1>3, Constants DEF Slot
  <2> HIDE DEF slot
  <2>2. CASE CacheSession(c.address, c.reused, c.session)
    <3>1. \/ sessionCache' = sessionCache
          \/ sessionCache' = [sessionCache EXCEPT ![slot] = [first |-> c.address, second |-> c.session]]
      BY <2>2 DEF CacheSession, sessions, slot
    <3> QED BY <3>1, <2>1, <1>2, <1>3
  <2>3. CASE DropSession(c.address)
    <3>1. sessionCache' = [sessionCache EXCEPT ![slot].first = 0]
      BY <2>3 DEF DropSession, slot
    <3>2. [sessionCache[slot] EXCEPT !.first = 0] \in [first : Nat, second : Nat]
      BY <2>1, <1>2
    <3> QED BY <3>1, <3>2, <2>1, <1>2
  <2>4. CASE UNCHANGED sessions
    BY <2>4, <1>2 DEF sessions
  <2> QED BY <2>2, <2>3, <2>4, <1>4
<1>6. PhaseInv(tls[fd])' /\ WrittenInv(tls[fd])'
  BY <1>1, <1>2 DEF PhaseInv, WrittenInv, FreshTLS, Ended
<1> QED BY <1>1, <1>2, <1>5, <1>6, GoesOn DEF LiveStates

\* The socket is closed and its TLS object destroyed: none is left to the message.
LEMMA ShutdownEndsStep ==
  ASSUME HTTPSInv, ShutdownEnds
  PROVE  HTTPSInv'
<1>1. pc = "close" /\ state' = "Finished" /\ pc' = "done" /\ held' = held \ {request.fd}
      /\ Destroy(request.fd)
      /\ UNCHANGED <<failures, failureCode, version, sendBufferOffset, request, connects, answer,
                     answered, fd, kept, sessionCache, outcome, sendErrors>>
  BY DEF ShutdownEnds, UnchangedByReturn, peer
<1>2. Live /\ state = "TLSShutdown"
  BY <1>1 DEF HTTPSInv, Attached, Live, LiveStates
<1>3. request.fd = fd /\ fd \in DOMAIN tls /\ fd \notin kept /\ fd \in held
  BY <1>2, LiveFacts DEF ConnInv, PhaseInv
<1>4. /\ held \cap kept = {} /\ DOMAIN tls = kept \cup {fd}
      /\ held \subseteq 1 .. connects /\ kept \subseteq 1 .. connects
      /\ tls \in [DOMAIN tls -> Connections]
  BY <1>2 DEF HTTPSInv, Attached, Types
<1>5. tls' = [g \in kept |-> tls[g]]
  <2>1. DOMAIN tls \ {fd} = kept
    BY <1>3, <1>4
  <2> QED BY <1>1, <1>3, <2>1 DEF Destroy, Forgotten
<1>6. DOMAIN tls' = kept /\ tls' \in [DOMAIN tls' -> Connections] /\ \A f \in kept : tls'[f] = tls[f]
  BY <1>4, <1>5
<1>7. Types'
  BY <1>1, <1>4, <1>6 DEF HTTPSInv, Types
<1>8. Counted'
  BY <1>1, <1>2 DEF HTTPSInv, Counted
<1>9. ~ Live'
  BY <1>1 DEF Live, LiveStates
<1>10. Attached'
  BY <1>1, <1>4, <1>6, <1>9 DEF Attached
<1>11. (\A f \in kept : FreshTLS(tls[f]))'
  BY <1>1, <1>6 DEF HTTPSInv, FreshTLS
<1> QED BY <1>7, <1>8, <1>9, <1>10, <1>11 DEF HTTPSInv

LEMMA HTTPSAbortsStep ==
  ASSUME HTTPSInv, HTTPSAborts
  PROVE  HTTPSInv'
<1>1. state = "Aborted" /\ pc' = "done"
      /\ UNCHANGED <<state, failures, failureCode, version, sendBufferOffset, request, connects,
                     answer, answered, fd, tls, held, kept, sessionCache, outcome, sendErrors>>
  BY DEF HTTPSAborts, Aborts, Executing, task, manager, peer, tlsVars, sessions
<1>2. ~ Live /\ ~ Live'
  BY <1>1 DEF Live, LiveStates
<1>3. Types' /\ Counted'
  BY <1>1 DEF HTTPSInv, Types, Counted
<1>4. Attached'
  BY <1>1, <1>2 DEF HTTPSInv, Attached
<1>5. (\A f \in kept : FreshTLS(tls[f]))'
  BY <1>1 DEF HTTPSInv, FreshTLS
<1> QED BY <1>2, <1>3, <1>4, <1>5 DEF HTTPSInv

LEMMA NextMessageStep ==
  ASSUME HTTPSInv, NextMessage
  PROVE  HTTPSInv'
<1>1. pc = "done" /\ state' = "Init" /\ pc' = "execute" /\ failures' = 0 /\ failureCode' = {}
      /\ version' = 0 /\ sendBufferOffset' = 0 /\ request' = NoRequest /\ fd' = NoFd
      /\ sendErrors' = 0
      /\ UNCHANGED <<connects, answer, answered, tls, held, kept, sessionCache, outcome>>
  BY DEF NextMessage, manager, peer, sessions
<1>2. ~ Live /\ ~ Live' /\ held \cap kept = {} /\ DOMAIN tls = kept
  BY <1>1 DEF HTTPSInv, Attached, Live, LiveStates
<1>3. Types'
  <2>1. 0 \in 0 .. Total /\ 0 \in 0 .. MaxSendErrors
    BY Constants
  <2>2. NoRequest \in Requests
    BY DEF NoRequest, Requests, NoFd
  <2> QED BY <1>1, <2>1, <2>2 DEF HTTPSInv, Types, NoFd
<1>4. Counted'
  BY <1>1, Constants DEF Counted
<1>5. Attached'
  BY <1>1, <1>2 DEF Attached, NoRequest, NoFd, LiveStates
<1>6. (\A f \in kept : FreshTLS(tls[f]))'
  BY <1>1 DEF HTTPSInv, FreshTLS
<1> QED BY <1>2, <1>3, <1>4, <1>5, <1>6 DEF HTTPSInv

LEMMA Stutter ==
  ASSUME HTTPSInv, UNCHANGED httpsVars
  PROVE  HTTPSInv'
<1>1. UNCHANGED <<state, pc, failures, failureCode, version, sendBufferOffset, request, connects,
                  answer, answered, fd, tls, held, kept, sessionCache, outcome, sendErrors>>
  BY DEF httpsVars, vars, task, manager, peer, tlsVars, sessions
<1>2. Types' /\ Counted'
  BY <1>1 DEF HTTPSInv, Types, Counted
<1>3. Attached'
  BY <1>1 DEF HTTPSInv, Attached, Live
<1>4. (\A f \in kept : FreshTLS(tls[f]))'
  BY <1>1 DEF HTTPSInv, FreshTLS
<1>5. ASSUME Live' PROVE ConnInv(tls[fd])'
  <2> DEFINE c == tls[fd]
  <2>1. ConnInv(c)
    BY <1>1, <1>5 DEF HTTPSInv, Live
  <2>2. tls'[fd'] = c
    BY <1>1
  <2> HIDE DEF c
  <2>3. PumpInv(tls[fd])' /\ PhaseInv(tls[fd])'
    BY <1>1, <2>1, <2>2 DEF ConnInv, PumpInv, PhaseInv, Ended
  <2>4. OutInv(tls[fd])'
    BY <1>1, <2>1, <2>2 DEF ConnInv, OutInv
  <2>5. Source(sendBufferOffset)' = Source(sendBufferOffset)
    BY <1>1 DEF Source
  <2>6. WrittenInv(tls[fd])'
    BY <1>1, <2>1, <2>2, <2>5 DEF ConnInv, WrittenInv, Ended
  <2>7. Owed' = Owed /\ Len(Greeting)' = Len(Greeting)
    BY <1>1, SameStream
  <2>8. StreamInv(tls[fd])'
    BY <1>1, <2>1, <2>2, <2>7 DEF ConnInv, StreamInv, HasRead
  <2> QED BY <2>3, <2>4, <2>6, <2>8 DEF ConnInv
<1> QED BY <1>2, <1>3, <1>4, <1>5 DEF HTTPSInv

-----------------------------------------------------------------------------
(* The references to sessions. *)

One(p) == IF p THEN 1 ELSE 0

\* Each session is referenced as often as it is in the table or an SSL object has it, and
\* none is that no connection has made.
SessionsInv ==
  /\ IsABag(references) /\ BagToSet(references) \subseteq Nat \ {0}
  /\ \A f \in DOMAIN tls : tls[f].session \in 0 .. connects
  /\ \A slot \in DOMAIN sessionCache :
       sessionCache[slot].first # 0 => sessionCache[slot].second \in 0 .. connects
  /\ \A session \in Nat \ {0} :
       ReferencesTo(session) = Cardinality(CachedIn(session)) + Cardinality(HeldBy(session))

\* Two sets that differ in x at most.
LEMMA ChangedAt ==
  ASSUME NEW S, NEW T, NEW x, IsFiniteSet(S), S \ {x} = T \ {x}
  PROVE  /\ IsFiniteSet(T) /\ Cardinality(S) \in Nat /\ Cardinality(T) \in Nat
         /\ Cardinality(T) = Cardinality(S) - One(x \in S) + One(x \in T)
         /\ x \in S => Cardinality(S) >= 1
<1> DEFINE R == S \ {x}
<1>1. IsFiniteSet(R)
  BY FS_RemoveElement
<1>2. (x \in S => S = R \cup {x}) /\ (x \notin S => S = R)
  OBVIOUS
<1>3. (x \in T => T = R \cup {x}) /\ (x \notin T => T = R)
  OBVIOUS
<1>4. x \notin R
  OBVIOUS
<1> HIDE DEF R
<1>5. IsFiniteSet(R \cup {x}) /\ Cardinality(R \cup {x}) = Cardinality(R) + 1 /\ Cardinality(R) \in Nat
  BY <1>1, <1>4, FS_AddElement, FS_CardinalityType
<1>6. Cardinality(S) = Cardinality(R) + One(x \in S)
  BY <1>2, <1>5 DEF One
<1>7. Cardinality(T) = Cardinality(R) + One(x \in T) /\ IsFiniteSet(T)
  <2>1. CASE x \in T
    BY <2>1, <1>3, <1>5 DEF One
  <2>2. CASE x \notin T
    BY <2>2, <1>1, <1>3, <1>5 DEF One
  <2> QED BY <2>1, <2>2
<1> QED BY <1>5, <1>6, <1>7 DEF One

\* The copies in a bag.
Copies(t, b) == IF BagIn(t, b) THEN b[t] ELSE 0

\* What a reference more or less does to a bag.
LEMMA Referenced ==
  ASSUME NEW b, IsABag(b), BagToSet(b) \subseteq Nat \ {0}, NEW s \in Nat,
         NEW d, d = b (+) Reference(s)
  PROVE  /\ IsABag(d) /\ BagToSet(d) \subseteq Nat \ {0}
         /\ \A t \in Nat \ {0} : Copies(t, d) = Copies(t, b) + One(t = s)
<1>1. b \in [DOMAIN b -> {n \in Nat : n > 0}] /\ DOMAIN b \subseteq Nat \ {0}
  BY DEF IsABag, BagToSet
<1>2. CASE s = 0
  <2>1. d = [e \in DOMAIN b |-> b[e]]
    BY <1>1, <1>2 DEF Reference, NoSession, EmptyBag, SetToBag, (+)
  <2>2. d = b
    BY <2>1, <1>1
  <2> QED BY <2>2, <1>1, <1>2 DEF One, Copies, BagIn, BagToSet
<1>3. CASE s # 0
  <2>1. d = [e \in DOMAIN b \cup {s} |-> (IF e \in DOMAIN b THEN b[e] ELSE 0)
                                         + (IF e = s THEN 1 ELSE 0)]
    BY <1>3 DEF Reference, NoSession, SetToBag, (+)
  <2>2. d \in [DOMAIN d -> {n \in Nat : n > 0}]
    BY <1>1, <2>1
  <2> QED BY <2>1, <2>2, <1>1, <1>3 DEF IsABag, BagToSet, BagIn, Copies, One
<1> QED BY <1>2, <1>3

LEMMA Released ==
  ASSUME NEW b, IsABag(b), BagToSet(b) \subseteq Nat \ {0}, NEW s \in Nat,
         s # 0 => Copies(s, b) >= 1, NEW d, d = b (-) Reference(s)
  PROVE  /\ IsABag(d) /\ BagToSet(d) \subseteq Nat \ {0}
         /\ \A t \in Nat \ {0} : Copies(t, d) = Copies(t, b) - One(t = s)
<1>1. b \in [DOMAIN b -> {n \in Nat : n > 0}] /\ DOMAIN b \subseteq Nat \ {0}
  BY DEF IsABag, BagToSet
<1>2. CASE s = 0
  <2> DEFINE B == [e \in DOMAIN b |-> b[e]]
  <2>1. d = [e \in {f \in DOMAIN B : B[f] > 0} |-> B[e]]
    BY <1>1, <1>2 DEF Reference, NoSession, EmptyBag, SetToBag, (-)
  <2>2. d = b
    BY <2>1, <1>1
  <2> QED BY <2>2, <1>1, <1>2 DEF One, Copies, BagIn, BagToSet
<1>3. CASE s # 0
  <2> DEFINE B == [e \in DOMAIN b |-> IF e = s THEN b[e] - 1 ELSE b[e]]
  <2>1. d = [e \in {f \in DOMAIN B : B[f] > 0} |-> B[e]]
    BY <1>1, <1>3 DEF Reference, NoSession, SetToBag, (-)
  <2>2. s \in DOMAIN b
    BY <1>3 DEF Copies, BagIn, BagToSet
  <2>3. B \in [DOMAIN b -> Nat]
    BY <1>1
  <2>4. /\ DOMAIN d \subseteq DOMAIN b /\ \A e \in DOMAIN d : d[e] = B[e] /\ B[e] > 0
        /\ \A e \in DOMAIN b : e \notin DOMAIN d => B[e] = 0
    <3>1. DOMAIN B = DOMAIN b
      OBVIOUS
    <3> HIDE DEF B
    <3> QED BY <2>1, <2>3, <3>1
  <2>5. d \in [DOMAIN d -> {n \in Nat : n > 0}]
    BY <2>1, <2>3, <2>4
  <2>6. \A t \in Nat \ {0} : Copies(t, d) = Copies(t, b) - One(t = s)
    <3> TAKE t \in Nat \ {0}
    <3>1. t \in DOMAIN b => B[t] = b[t] - One(t = s)
      BY <1>1 DEF One
    <3>2. t \notin DOMAIN b => t # s
      BY <2>2
    <3> HIDE DEF B
    <3> QED BY <3>1, <3>2, <2>4 DEF Copies, BagIn, BagToSet, One
  <2> QED BY <1>1, <2>4, <2>5, <2>6 DEF IsABag, BagToSet
<1> QED BY <1>2, <1>3

LEMMA Holders ==
  ASSUME HTTPSInv
  PROVE  /\ connects \in Nat /\ DOMAIN tls \subseteq 1 .. connects /\ IsFiniteSet(DOMAIN tls)
         /\ DOMAIN sessionCache = 0 .. CacheSize - 1 /\ IsFiniteSet(0 .. CacheSize - 1)
         /\ tls \in [DOMAIN tls -> Connections]
         /\ \A f \in DOMAIN tls : tls[f].session \in Nat
<1>1. /\ connects \in Nat /\ held \subseteq 1 .. connects /\ kept \subseteq 1 .. connects
      /\ sessionCache \in [0 .. CacheSize - 1 -> [first : Nat, second : Nat]]
      /\ tls \in [DOMAIN tls -> Connections]
  BY DEF HTTPSInv, Types
<1>2. DOMAIN tls \subseteq 1 .. connects
  BY <1>1 DEF HTTPSInv, Attached
<1>3. IsFiniteSet(DOMAIN tls)
  <2>1. 1 \in Int /\ connects \in Int
    BY <1>1
  <2>2. IsFiniteSet(1 .. connects)
    BY ONLY <2>1, FS_Interval
  <2> QED BY ONLY <1>2, <2>2, FS_Subset
<1>4. IsFiniteSet(0 .. CacheSize - 1)
  BY Constants, FS_Interval
<1>5. \A f \in DOMAIN tls : tls[f].session \in Nat
  BY <1>1 DEF Connections
<1> QED BY <1>1, <1>2, <1>3, <1>4, <1>5

\* The object of the connection x comes, goes or has another session; the references follow.
LEMMA HeldChanges ==
  ASSUME HTTPSInv, SessionsInv, NEW x, connects' \in Nat, connects' >= connects,
         sessionCache' = sessionCache, DOMAIN tls \ {x} = DOMAIN tls' \ {x},
         \A f \in DOMAIN tls \ {x} : tls'[f].session = tls[f].session,
         x \in DOMAIN tls' => tls'[x].session \in 0 .. connects',
         IsABag(references'), BagToSet(references') \subseteq Nat \ {0},
         \A t \in Nat \ {0} :
           Copies(t, references') = Copies(t, references)
             - One(x \in DOMAIN tls /\ tls[x].session = t)
             + One(x \in DOMAIN tls' /\ tls'[x].session = t)
  PROVE  SessionsInv'
<1>1. connects \in Nat /\ IsFiniteSet(DOMAIN tls) /\ \A f \in DOMAIN tls : tls[f].session \in Nat
  BY Holders
<1>2. \A f \in DOMAIN tls' : tls'[f].session \in 0 .. connects'
  <2> TAKE f \in DOMAIN tls'
  <2>1. CASE f = x
    BY <2>1
  <2>2. CASE f # x
    <3>1. f \in DOMAIN tls /\ tls'[f].session = tls[f].session /\ tls[f].session \in 0 .. connects
      BY <2>2 DEF SessionsInv
    <3> QED BY <3>1, <1>1
  <2> QED BY <2>1, <2>2
<1>3. \A slot \in DOMAIN sessionCache' :
        sessionCache'[slot].first # 0 => sessionCache'[slot].second \in 0 .. connects'
  BY <1>1 DEF SessionsInv
<1>4. ASSUME NEW t \in Nat \ {0}
      PROVE  (ReferencesTo(t) = Cardinality(CachedIn(t)) + Cardinality(HeldBy(t)))'
  <2> DEFINE S == HeldBy(t)
             T == {f \in DOMAIN tls' : tls'[f].session = t}
             C == CachedIn(t)
  <2>1. IsFiniteSet(S)
    BY <1>1, FS_Subset DEF HeldBy
  <2>2. S \ {x} = T \ {x}
    BY DEF HeldBy
  <2>3. /\ x \in S <=> x \in DOMAIN tls /\ tls[x].session = t
        /\ x \in T <=> x \in DOMAIN tls' /\ tls'[x].session = t
    BY DEF HeldBy
  <2>4. HeldBy(t)' = T /\ CachedIn(t)' = C
    BY DEF HeldBy, CachedIn
  <2>5. IsFiniteSet(C)
    BY Holders, FS_Subset DEF CachedIn
  <2>6. Copies(t, references) = Cardinality(C) + Cardinality(S)
    BY DEF SessionsInv, ReferencesTo, Copies
  <2> HIDE DEF S, T, C
  <2>7. Cardinality(T) = Cardinality(S) - One(x \in S) + One(x \in T)
        /\ Cardinality(S) \in Nat /\ Cardinality(T) \in Nat
    BY <2>1, <2>2, ChangedAt
  <2>8. Cardinality(C) \in Nat
    BY <2>5, FS_CardinalityType
  <2>9. Copies(t, references') = Copies(t, references) - One(x \in S) + One(x \in T)
    BY <2>3 DEF One
  <2>10. Copies(t, references') = Cardinality(C) + Cardinality(T)
    BY <2>6, <2>7, <2>8, <2>9 DEF One
  <2> QED BY <2>4, <2>10 DEF ReferencesTo, Copies
<1> QED BY <1>2, <1>3, <1>4 DEF SessionsInv

\* The table's entry y changes.
LEMMA CachedChanges ==
  ASSUME HTTPSInv, SessionsInv, NEW y \in DOMAIN sessionCache, NEW e,
         connects' = connects, tls' = tls, sessionCache' = [sessionCache EXCEPT ![y] = e],
         e.first # 0 => e.second \in 0 .. connects,
         IsABag(references'), BagToSet(references') \subseteq Nat \ {0},
         \A t \in Nat \ {0} :
           Copies(t, references') = Copies(t, references)
             - One(sessionCache[y].first # 0 /\ sessionCache[y].second = t)
             + One(e.first # 0 /\ e.second = t)
  PROVE  SessionsInv'
<1>1. DOMAIN sessionCache' = DOMAIN sessionCache /\ sessionCache'[y] = e
      /\ \A z \in DOMAIN sessionCache \ {y} : sessionCache'[z] = sessionCache[z]
  OBVIOUS
<1>2. \A slot \in DOMAIN sessionCache' :
        sessionCache'[slot].first # 0 => sessionCache'[slot].second \in 0 .. connects'
  BY <1>1 DEF SessionsInv
<1>3. ASSUME NEW t \in Nat \ {0}
      PROVE  (ReferencesTo(t) = Cardinality(CachedIn(t)) + Cardinality(HeldBy(t)))'
  <2> DEFINE S == CachedIn(t)
             T == {slot \in DOMAIN sessionCache' :
                     sessionCache'[slot].first # 0 /\ sessionCache'[slot].second = t}
             H == HeldBy(t)
  <2>1. IsFiniteSet(S) /\ IsFiniteSet(H)
    BY Holders, FS_Subset DEF CachedIn, HeldBy
  <2>2. S \ {y} = T \ {y}
    BY <1>1 DEF CachedIn
  <2>3. /\ y \in S <=> sessionCache[y].first # 0 /\ sessionCache[y].second = t
        /\ y \in T <=> e.first # 0 /\ e.second = t
    BY <1>1 DEF CachedIn
  <2>4. CachedIn(t)' = T /\ HeldBy(t)' = H
    BY DEF HeldBy, CachedIn
  <2>6. Copies(t, references) = Cardinality(S) + Cardinality(H)
    BY DEF SessionsInv, ReferencesTo, Copies
  <2> HIDE DEF S, T, H
  <2>7. Cardinality(T) = Cardinality(S) - One(y \in S) + One(y \in T)
        /\ Cardinality(S) \in Nat /\ Cardinality(T) \in Nat
    BY <2>1, <2>2, ChangedAt
  <2>8. Cardinality(H) \in Nat
    BY <2>1, FS_CardinalityType
  <2>9. Copies(t, references') = Copies(t, references) - One(y \in S) + One(y \in T)
    BY <2>3 DEF One
  <2>10. Copies(t, references') = Cardinality(T) + Cardinality(H)
    BY <2>6, <2>7, <2>8, <2>9 DEF One
  <2> QED BY <2>4, <2>10 DEF ReferencesTo, Copies
<1> QED BY <1>2, <1>3 DEF SessionsInv

\* A session that an object or an entry has is referenced.
LEMMA IsReferenced ==
  ASSUME HTTPSInv, SessionsInv, NEW t \in Nat \ {0},
         \/ \E f \in DOMAIN tls : tls[f].session = t
         \/ \E slot \in DOMAIN sessionCache :
              sessionCache[slot].first # 0 /\ sessionCache[slot].second = t
  PROVE  Copies(t, references) >= 1
<1>1. IsFiniteSet(CachedIn(t)) /\ IsFiniteSet(HeldBy(t))
  BY Holders, FS_Subset DEF CachedIn, HeldBy
<1>2. Cardinality(CachedIn(t)) \in Nat /\ Cardinality(HeldBy(t)) \in Nat
  BY <1>1, FS_CardinalityType
<1>3. Copies(t, references) = Cardinality(CachedIn(t)) + Cardinality(HeldBy(t))
  BY DEF SessionsInv, ReferencesTo, Copies
<1>4. CASE \E f \in DOMAIN tls : tls[f].session = t
  <2>1. PICK f \in DOMAIN tls : tls[f].session = t
    BY <1>4
  <2>2. f \in HeldBy(t)
    BY <2>1 DEF HeldBy
  <2>3. Cardinality(HeldBy(t)) >= 1
    BY <1>1, <2>2, ChangedAt
  <2> QED BY <2>3, <1>2, <1>3
<1>5. CASE \E slot \in DOMAIN sessionCache :
             sessionCache[slot].first # 0 /\ sessionCache[slot].second = t
  <2>1. PICK slot \in DOMAIN sessionCache :
          sessionCache[slot].first # 0 /\ sessionCache[slot].second = t
    BY <1>5
  <2>2. slot \in CachedIn(t)
    BY <2>1 DEF CachedIn
  <2>3. Cardinality(CachedIn(t)) >= 1
    BY <1>1, <2>2, ChangedAt
  <2> QED BY <2>3, <1>2, <1>3
<1> QED BY <1>4, <1>5

LEMMA CopiesCounted ==
  ASSUME HTTPSInv, SessionsInv
  PROVE  \A t \in Nat \ {0} : Copies(t, references) \in Int
<1> TAKE t \in Nat \ {0}
<1>1. IsFiniteSet(CachedIn(t)) /\ IsFiniteSet(HeldBy(t))
  BY Holders, FS_Subset DEF CachedIn, HeldBy
<1>2. Cardinality(CachedIn(t)) \in Nat /\ Cardinality(HeldBy(t)) \in Nat
  BY <1>1, FS_CardinalityType
<1>3. Copies(t, references) = Cardinality(CachedIn(t)) + Cardinality(HeldBy(t))
  BY DEF SessionsInv, ReferencesTo, Copies
<1> QED BY <1>2, <1>3

\* Most steps do nothing to the sessions.
LEMMA SessionsStay ==
  ASSUME HTTPSInv, SessionsInv, UNCHANGED sessions, connects' \in Nat, connects' >= connects,
         DOMAIN tls' = DOMAIN tls, \A f \in DOMAIN tls : tls'[f].session = tls[f].session
  PROVE  SessionsInv'
<1>1. sessionCache' = sessionCache /\ references' = references
  BY DEF sessions
<1>2. fd \in DOMAIN tls' => tls'[fd].session \in 0 .. connects'
  BY Holders DEF SessionsInv
<1>3. IsABag(references') /\ BagToSet(references') \subseteq Nat \ {0}
  BY <1>1 DEF SessionsInv
<1>4. \A t \in Nat \ {0} : Copies(t, references) \in Int
  BY CopiesCounted
<1>5. \A t \in Nat \ {0} :
        Copies(t, references') = Copies(t, references)
          - One(fd \in DOMAIN tls /\ tls[fd].session = t)
          + One(fd \in DOMAIN tls' /\ tls'[fd].session = t)
  BY <1>1, <1>4 DEF One
<1> QED BY <1>1, <1>2, <1>3, <1>5, HeldChanges

\* A connection's object goes, and its reference.
LEMMA DestroyKeeps ==
  ASSUME HTTPSInv, SessionsInv, NEW f, Destroy(f), connects' = connects,
         sessionCache' = sessionCache
  PROVE  SessionsInv'
<1>1. CASE f \in DOMAIN tls
  <2> DEFINE s == tls[f].session
  <2>1. tls' = Forgotten(f) /\ references' = references (-) Reference(s)
    BY <1>1 DEF Destroy
  <2>2. DOMAIN tls' = DOMAIN tls \ {f} /\ \A g \in DOMAIN tls \ {f} : tls'[g] = tls[g]
    BY <2>1 DEF Forgotten
  <2>3. s \in Nat /\ (s # 0 => Copies(s, references) >= 1)
    BY <1>1, Holders, IsReferenced
  <2>4. IsABag(references) /\ BagToSet(references) \subseteq Nat \ {0}
    BY DEF SessionsInv
  <2>5. /\ IsABag(references') /\ BagToSet(references') \subseteq Nat \ {0}
        /\ \A t \in Nat \ {0} : Copies(t, references') = Copies(t, references) - One(t = s)
    <3> HIDE DEF s
    <3> QED BY <2>1, <2>3, <2>4, Released
  <2>6. \A t \in Nat \ {0} : Copies(t, references) \in Int
    BY CopiesCounted
  <2>7. \A t \in Nat \ {0} :
          Copies(t, references') = Copies(t, references)
            - One(f \in DOMAIN tls /\ tls[f].session = t)
            + One(f \in DOMAIN tls' /\ tls'[f].session = t)
    BY <1>1, <2>2, <2>5, <2>6 DEF One
  <2>8. connects \in Nat
    BY Holders
  <2> QED BY <2>2, <2>5, <2>7, <2>8, HeldChanges
<1>2. CASE f \notin DOMAIN tls
  <2>1. UNCHANGED <<tls, sessions>>
    BY <1>2 DEF Destroy, sessions
  <2> QED BY <2>1, Holders, SessionsStay
<1> QED BY <1>1, <1>2

\* An object comes, with its reference.
LEMMA OpensNew ==
  ASSUME HTTPSInv, SessionsInv, OpenNew
  PROVE  SessionsInv'
<1> DEFINE f == connects + 1
<1>1. PICK address \in Addresses :
        /\ Opens(f, NewTLS(address), kept)
        /\ references' = references (+) Reference(Reused(address))
  BY DEF OpenNew
<1> DEFINE s == Reused(address)
<1>2. connects' = connects + 1 /\ sessionCache' = sessionCache /\ connects \in Nat /\ f \in Nat
      /\ f \notin DOMAIN tls
  BY Holders DEF OpenNew
<1>3. s \in 0 .. connects
  <2>1. address \in Nat \ {0}
    BY TLSContextAssumption
  <2>2. Slot(address) \in DOMAIN sessionCache
    BY <2>1, Constants, Holders DEF Slot
  <2> QED BY <1>2, <2>1, <2>2 DEF Reused, SessionsInv, NoSession
<1>4. /\ DOMAIN tls' = DOMAIN tls \cup {f} /\ tls'[f] = NewTLS(address)
      /\ \A g \in DOMAIN tls \ {f} : tls'[g] = tls[g]
  BY <1>1 DEF Opens
<1>5. NewTLS(address).session = s
  BY DEF NewTLS
<1> HIDE DEF f, s
<1>6. /\ IsABag(references') /\ BagToSet(references') \subseteq Nat \ {0}
      /\ \A t \in Nat \ {0} : Copies(t, references') = Copies(t, references) + One(t = s)
  <2>1. IsABag(references) /\ BagToSet(references) \subseteq Nat \ {0} /\ s \in Nat
    BY <1>2, <1>3 DEF SessionsInv
  <2> QED BY <1>1, <2>1, Referenced DEF s
<1>7. \A t \in Nat \ {0} :
        Copies(t, references') = Copies(t, references)
          - One(f \in DOMAIN tls /\ tls[f].session = t)
          + One(f \in DOMAIN tls' /\ tls'[f].session = t)
  BY <1>2, <1>4, <1>5, <1>6, CopiesCounted DEF One
<1> QED BY <1>2, <1>3, <1>4, <1>5, <1>6, <1>7, HeldChanges

\* After a handshake with a new session the object has that one.
LEMMA CallsSSLKeeps ==
  ASSUME HTTPSInv, SessionsInv, CallsSSL
  PROVE  SessionsInv'
<1> DEFINE c == tls[fd]
<1>1. /\ Live /\ Callable(c) /\ pc = "execute"
      /\ fd \in DOMAIN tls /\ c \in Connections
      /\ version \in Nat /\ sendBufferOffset \in Nat
  <2>1. Live /\ pc = "execute"
    BY DEF CallsSSL, Operating, Live, LiveStates
  <2> QED BY <2>1, LiveFacts DEF CallsSSL, Callable
<1>2. PICK r \in Called(c) :
         IF r.error = "want"
            THEN /\ tls' = [tls EXCEPT ![fd] = [r.ssl EXCEPT !.progress = "SendingInit"]]
                 /\ UNCHANGED <<pc, outcome, references>>
            ELSE /\ Handshaken(c, r.ssl)
                 /\ Returns(IF r.error = "none" THEN "Finished" ELSE "Aborted", r.length)
  BY DEF CallsSSL
<1>3. r.ssl \in Connections /\ r.ssl.session = c.session
  BY <1>1, <1>2, CallResult DEF Outcome
<1>4. sessionCache' = sessionCache /\ connects' = connects /\ connects \in Nat
  BY Holders DEF CallsSSL, manager
<1>5. fd \in 1 .. connects /\ c.session \in Nat
  BY <1>1, Holders
<1> HIDE DEF c
<1>6. CASE /\ tls' = [tls EXCEPT ![fd] = [r.ssl EXCEPT !.session = fd]]
           /\ references' = (references (-) Reference(c.session)) (+) Reference(fd)
  <2> DEFINE b == references (-) Reference(c.session)
  <2>1. tls'[fd].session = fd /\ DOMAIN tls' = DOMAIN tls
        /\ \A g \in DOMAIN tls \ {fd} : tls'[g] = tls[g]
    BY <1>1, <1>3, <1>6 DEF Connections
  <2>2. c.session # 0 => Copies(c.session, references) >= 1
    BY <1>1, <1>5, IsReferenced DEF c
  <2>3. IsABag(references) /\ BagToSet(references) \subseteq Nat \ {0}
    BY DEF SessionsInv
  <2>4. /\ IsABag(b) /\ BagToSet(b) \subseteq Nat \ {0}
        /\ \A t \in Nat \ {0} : Copies(t, b) = Copies(t, references) - One(t = c.session)
    BY <2>2, <2>3, <1>5, Released
  <2> HIDE DEF b
  <2>5. /\ IsABag(references') /\ BagToSet(references') \subseteq Nat \ {0}
        /\ \A t \in Nat \ {0} : Copies(t, references') = Copies(t, b) + One(t = fd)
    <3>1. references' = b (+) Reference(fd) /\ fd \in Nat
      BY <1>5, <1>6 DEF b
    <3> QED BY <2>4, <3>1, Referenced
  <2>6. \A t \in Nat \ {0} :
          Copies(t, references') = Copies(t, references)
            - One(fd \in DOMAIN tls /\ tls[fd].session = t)
            + One(fd \in DOMAIN tls' /\ tls'[fd].session = t)
    BY <1>1, <2>1, <2>4, <2>5, CopiesCounted DEF One, c
  <2> QED BY <1>1, <1>4, <1>5, <2>1, <2>5, <2>6, HeldChanges
<1>7. CASE /\ tls' = [tls EXCEPT ![fd] = r.ssl]
           /\ UNCHANGED references
  <2>1. DOMAIN tls' = DOMAIN tls /\ \A g \in DOMAIN tls : tls'[g].session = tls[g].session
    BY <1>1, <1>3, <1>7 DEF c
  <2> QED BY <2>1, <1>4, <1>7, SessionsStay DEF sessions
<1>8. CASE /\ tls' = [tls EXCEPT ![fd] = [r.ssl EXCEPT !.progress = "SendingInit"]]
           /\ UNCHANGED references
  <2>1. [r.ssl EXCEPT !.progress = "SendingInit"].session = r.ssl.session
    BY <1>3 DEF Connections
  <2>2. DOMAIN tls' = DOMAIN tls /\ \A g \in DOMAIN tls : tls'[g].session = tls[g].session
    BY <1>1, <1>3, <1>8, <2>1 DEF c
  <2> QED BY <2>2, <1>4, <1>8, SessionsStay DEF sessions
<1> QED BY <1>2, <1>6, <1>7, <1>8 DEF Handshaken

\* The pump and the kernel do not touch the sessions.
LEMMA PumpKeeps ==
  ASSUME HTTPSInv, SessionsInv,
         ProcessSendingInit \/ ProcessSending \/ ProcessReceiving \/ TLSKernel \/ CallsNothing
  PROVE  SessionsInv'
<1> DEFINE c == tls[fd]
<1>1. UNCHANGED <<sessions, fd, connects>>
  BY DEF ProcessSendingInit, ProcessSending, ProcessReceiving, UnchangedByProcess, TLSKernel,
         TLSWrites, TLSReads, TLSFails, TLSNotReady, TLSCompletes, CallsNothing, manager, peer
<1>2. CASE tls' = tls
  BY <1>1, <1>2, Holders, SessionsStay
<1>3. CASE tls' # tls
  <2>1. Live
    <3>1. pc = "wait" => Live
      BY DEF HTTPSInv, Attached
    <3> QED BY <3>1 DEF ProcessSendingInit, ProcessSending, ProcessReceiving, TLSKernel, Pumping,
         Operating, Live, LiveStates,
         TLSWrites, TLSReads, TLSFails, TLSNotReady, TLSCompletes, CallsNothing
  <2>2. fd \in DOMAIN tls /\ c \in Connections
    BY <2>1, LiveFacts
  <2>3. PICK d : tls' = [tls EXCEPT ![fd] = d] /\ d.session = c.session
    <3>1. CASE ProcessSendingInit
      <4> DEFINE n == Min({Len(c.out), ChunkSize})
                 d == [c EXCEPT !.networkBioRead = n, !.socketWrite = 0,
                                !.buffer = SubSeq(c.out, 1, n),
                                !.out = SubSeq(c.out, n + 1, Len(c.out))]
      <4>1. \/ tls' = [tls EXCEPT ![fd] = [d EXCEPT !.progress = "Sending"]]
            \/ tls' = [tls EXCEPT ![fd] = [[c EXCEPT !.internalBioRead = c.want]
                                             EXCEPT !.progress = "Receiving"]]
            \/ tls' = [tls EXCEPT ![fd] = [c EXCEPT !.internalBioRead = 0, !.progress = "Finished"]]
        BY <3>1 DEF ProcessSendingInit, StartWrite, ToReceive, StartRead
      <4>2. [d EXCEPT !.progress = "Sending"].session = c.session
        BY <2>2 DEF Connections
      <4>3. [[c EXCEPT !.internalBioRead = c.want] EXCEPT !.progress = "Receiving"].session = c.session
        BY <2>2 DEF Connections
      <4>4. [c EXCEPT !.internalBioRead = 0, !.progress = "Finished"].session = c.session
        BY <2>2 DEF Connections
      <4> HIDE DEF d, c
      <4> QED BY <4>1, <4>2, <4>3, <4>4
    <3>2. CASE ProcessSending
      <4> DEFINE n == request.length
                 d == [c EXCEPT !.socketWrite = IF n > 0 THEN c.socketWrite + n ELSE c.socketWrite]
      <4>1. \/ tls' = [tls EXCEPT ![fd] = [d EXCEPT !.progress = "Sending"]]
            \/ tls' = [tls EXCEPT ![fd] = [[d EXCEPT !.internalBioRead = d.want]
                                             EXCEPT !.progress = "Receiving"]]
            \/ tls' = [tls EXCEPT ![fd] = [d EXCEPT !.internalBioRead = 0, !.progress = "Finished"]]
            \/ tls' = [tls EXCEPT ![fd].progress = "Aborted"]
        BY <3>2 DEF ProcessSending, StartWrite, ToReceive, StartRead, Aborting
      <4>2. [d EXCEPT !.progress = "Sending"].session = c.session
        BY <2>2 DEF Connections
      <4>3. [[d EXCEPT !.internalBioRead = d.want] EXCEPT !.progress = "Receiving"].session = c.session
        BY <2>2 DEF Connections
      <4>4. [d EXCEPT !.internalBioRead = 0, !.progress = "Finished"].session = c.session
        BY <2>2 DEF Connections
      <4>5. [c EXCEPT !.progress = "Aborted"].session = c.session
        BY <2>2 DEF Connections
      <4>6. [tls EXCEPT ![fd].progress = "Aborted"] = [tls EXCEPT ![fd] = [c EXCEPT !.progress = "Aborted"]]
        OBVIOUS
      <4> HIDE DEF d, c
      <4> QED BY <4>1, <4>2, <4>3, <4>4, <4>5, <4>6
    <3>3. CASE ProcessReceiving
      <4> DEFINE n == request.length
                 i == c.in \o SubSeq(c.buffer, 1, n)
      <4>1. \/ tls' = [tls EXCEPT ![fd].progress = "Aborted"]
            \/ tls' = [tls EXCEPT ![fd] = [c EXCEPT !.progress = "Receiving"]]
            \/ tls' = [tls EXCEPT ![fd] = [c EXCEPT !.progress = "Finished", !.in = i]]
        BY <3>3, <2>2 DEF ProcessReceiving, StartRead, Aborting, Connections
      <4>2. [c EXCEPT !.progress = "Receiving"].session = c.session
        BY <2>2 DEF Connections
      <4>3. [c EXCEPT !.progress = "Finished", !.in = i].session = c.session
        BY <2>2 DEF Connections
      <4>5. [c EXCEPT !.progress = "Aborted"].session = c.session
        BY <2>2 DEF Connections
      <4>6. [tls EXCEPT ![fd].progress = "Aborted"] = [tls EXCEPT ![fd] = [c EXCEPT !.progress = "Aborted"]]
        OBVIOUS
      <4> HIDE DEF c, i
      <4> QED BY <4>1, <4>2, <4>3, <4>5, <4>6
    <3>4. CASE TLSKernel
      <4>1. \E s : tls' = [tls EXCEPT ![fd].buffer = s]
        BY <1>3, <3>4 DEF TLSKernel, TLSWrites, TLSReads, TLSFails, TLSNotReady
      <4>2. PICK s : tls' = [tls EXCEPT ![fd] = [c EXCEPT !.buffer = s]]
        BY <4>1
      <4>3. [c EXCEPT !.buffer = s].session = c.session
        BY <2>2 DEF Connections
      <4> QED BY <4>2, <4>3
    <3>5. CASE CallsNothing
      BY <1>3, <3>5 DEF CallsNothing
    <3> QED BY <3>1, <3>2, <3>3, <3>4, <3>5
  <2>4. DOMAIN tls' = DOMAIN tls /\ \A f \in DOMAIN tls : tls'[f].session = tls[f].session
    BY <2>2, <2>3
  <2> QED BY <1>1, <2>4, Holders, SessionsStay
<1> QED BY <1>2, <1>3

\* A session is cached in the place of the one its entry had, or dropped.
LEMMA ShutdownCachesKeeps ==
  ASSUME HTTPSInv, SessionsInv, ShutdownCaches
  PROVE  SessionsInv'
<1> DEFINE c == tls[fd]
           y == Slot(c.address)
           old == IF sessionCache[y].first # 0 THEN sessionCache[y].second ELSE 0
           b == references (-) Cached(y)
<1>1. /\ Live /\ tls' = tls /\ connects' = connects
      /\ \/ CacheSession(c.address, c.reused, c.session)
         \/ DropSession(c.address)
         \/ UNCHANGED sessions
  BY DEF ShutdownCaches, Returned, UnchangedByReturn, HTTPSInv, Attached
<1>2. /\ fd \in DOMAIN tls /\ c \in Connections /\ connects \in Nat
      /\ c.session \in 0 .. connects /\ c.address \in Nat \ {0}
  BY <1>1, LiveFacts, Holders, Constants DEF SessionsInv, Connections
<1>3. y \in DOMAIN sessionCache
  <2> DEFINE a == c.address
  <2>1. a \in Nat /\ CacheSize \in Nat \ {0} /\ y = a % CacheSize
    BY <1>2, Constants DEF Slot
  <2>2. DOMAIN sessionCache = 0 .. CacheSize - 1
    BY Holders
  <2> HIDE DEF y, a
  <2> QED BY ONLY <2>1, <2>2
<1>4. sessionCache[y].second \in Nat /\ sessionCache[y].first \in Nat
  BY <1>3 DEF HTTPSInv, Types
<1>5. old \in Nat /\ (old # 0 => Copies(old, references) >= 1)
  BY <1>3, <1>4, IsReferenced
<1>6. Cached(y) = Reference(old)
  BY DEF Cached, Reference, NoSession
<1>7. IsABag(references) /\ BagToSet(references) \subseteq Nat \ {0}
  BY DEF SessionsInv
<1> HIDE DEF c, y
<1>8. \A t \in Nat \ {0} :
        One(sessionCache[y].first # 0 /\ sessionCache[y].second = t) = One(t = old)
  BY DEF One
<1> HIDE DEF old
<1>9. /\ IsABag(b) /\ BagToSet(b) \subseteq Nat \ {0}
      /\ \A t \in Nat \ {0} : Copies(t, b) = Copies(t, references) - One(t = old)
  BY <1>5, <1>6, <1>7, Released
<1> HIDE DEF b
<1>10. CASE UNCHANGED sessions
  BY <1>1, <1>2, <1>10, SessionsStay
<1>11. CASE DropSession(c.address)
  <2> DEFINE e == [sessionCache[y] EXCEPT !.first = 0]
  <2>1. references' = b /\ sessionCache' = [sessionCache EXCEPT ![y] = e]
    BY <1>11 DEF DropSession, y, b
  <2>2. e.first = 0
    BY <1>3 DEF HTTPSInv, Types
  <2> HIDE DEF e
  <2>3. \A t \in Nat \ {0} :
          Copies(t, references') = Copies(t, references)
            - One(sessionCache[y].first # 0 /\ sessionCache[y].second = t)
            + One(e.first # 0 /\ e.second = t)
    <3> TAKE t \in Nat \ {0}
    <3>1. One(e.first # 0 /\ e.second = t) = 0
      BY <2>2 DEF One
    <3>2. One(sessionCache[y].first # 0 /\ sessionCache[y].second = t) \in Nat
      BY DEF One
    <3>3. Copies(t, references) \in Int /\ Copies(t, references') = Copies(t, references) - One(t = old)
      BY <1>9, <2>1, CopiesCounted
    <3> QED BY <1>8, <3>1, <3>2, <3>3
  <2>4. /\ connects' = connects /\ tls' = tls /\ (e.first # 0 => e.second \in 0 .. connects)
        /\ IsABag(references') /\ BagToSet(references') \subseteq Nat \ {0}
    BY <1>1, <1>9, <2>1, <2>2
  <2> QED BY <1>3, <2>1, <2>3, <2>4, CachedChanges
<1>12. CASE CacheSession(c.address, c.reused, c.session) /\ ~ UNCHANGED sessions
  <2> DEFINE e == [first |-> c.address, second |-> c.session]
  <2>1. references' = b (+) Reference(c.session) /\ sessionCache' = [sessionCache EXCEPT ![y] = e]
    BY <1>12 DEF CacheSession, y, b
  <2>2. /\ IsABag(references') /\ BagToSet(references') \subseteq Nat \ {0}
        /\ \A t \in Nat \ {0} : Copies(t, references') = Copies(t, b) + One(t = c.session)
    BY <1>2, <1>9, <2>1, Referenced
  <2>4. \A t \in Nat \ {0} :
          Copies(t, references') = Copies(t, references)
            - One(sessionCache[y].first # 0 /\ sessionCache[y].second = t)
            + One(e.first # 0 /\ e.second = t)
    BY <1>2, <1>8, <1>9, <2>2, CopiesCounted DEF One
  <2> QED BY <1>1, <1>2, <1>3, <2>1, <2>2, <2>4, CachedChanges
<1> QED BY <1>1, <1>10, <1>11, <1>12

LEMMA ResetKeeps ==
  ASSUME HTTPSInv, SessionsInv, NEW aborted, NEW v, NEW offset, NEW codes,
         HTTPSReset(aborted, v, offset, codes)
  PROVE  SessionsInv'
BY DestroyKeeps DEF HTTPSReset

LEMMA OpensKept ==
  ASSUME HTTPSInv, SessionsInv, OpenKept
  PROVE  SessionsInv'
<1>1. PICK f \in kept : Opens(f, KeptTLS(tls[f]), kept \ {f})
  BY DEF OpenKept
<1>2. f \in DOMAIN tls /\ tls[f] \in Connections
  BY Holders DEF HTTPSInv, Attached
<1>3. KeptTLS(tls[f]).session = tls[f].session
  BY <1>2 DEF KeptTLS, Connections
<1>4. DOMAIN tls' = DOMAIN tls /\ \A g \in DOMAIN tls : tls'[g].session = tls[g].session
  BY <1>1, <1>2, <1>3 DEF Opens
<1>5. connects' = connects /\ UNCHANGED sessions
  BY DEF OpenKept
<1> QED BY <1>4, <1>5, Holders, SessionsStay

LEMMA SessionsStep ==
  ASSUME HTTPSInv, SessionsInv, HTTPSNext
  PROVE  SessionsInv'
<1>1. CASE OpenNew \/ OpenKept
  BY <1>1, OpensNew, OpensKept
<1>2. CASE OpenFails \/ HandshakeFails \/ TransferFails \/ ReceiveThrows \/ ReceiveRefused
  BY <1>2, ResetKeeps DEF OpenFails, HandshakeFails, TransferFails, ReceiveThrows, ReceiveRefused,
     CountedReset
<1>3. CASE TLSOperation \/ TLSKernel
  BY <1>3, CallsSSLKeeps, PumpKeeps DEF TLSOperation
<1>4. CASE ShutdownCaches
  BY <1>4, ShutdownCachesKeeps
<1>5. CASE ShutdownEnds
  <2>1. Destroy(request.fd) /\ UNCHANGED <<connects, sessionCache>>
    BY <1>5 DEF ShutdownEnds, UnchangedByReturn
  <2> QED BY <2>1, DestroyKeeps
<1>6. CASE InitFails
  <2>1. connects' = connects + 1 /\ UNCHANGED <<tls, sessions>>
    BY <1>6 DEF InitFails
  <2>2. connects \in Nat
    BY Holders
  <2> QED BY <2>1, <2>2, SessionsStay
<1>7. CASE HandshakeEnds \/ SendEnds \/ ReceiveContinues \/ ReceiveEnds \/ ShutdownAgain
           \/ HTTPSAborts \/ NextMessage
  <2>1. UNCHANGED <<connects, tls, sessions>>
    BY <1>7 DEF HandshakeEnds, SendEnds, ReceiveContinues, ReceiveEnds, ShutdownAgain, HTTPSAborts,
       NextMessage, UnchangedByReturn, manager, tlsVars, Aborts
  <2> QED BY <2>1, Holders, SessionsStay
<1> QED BY <1>1, <1>2, <1>3, <1>4, <1>5, <1>6, <1>7 DEF HTTPSNext, HTTPSExecute

-----------------------------------------------------------------------------
(* What goes to the server. *)

Hellos(c) == IF c.connected THEN 0 ELSE 2

Byte(v, k) ==
  [kind |-> "data", left |-> 0, version |-> v,
   memory |-> IF k <= MessageLength THEN 0 ELSE 1,
   at |-> IF k <= MessageLength THEN k ELSE k - MessageLength]

\* The i-th token that is due on a connection, of which the first h are the handshake's.
Due(h, v, i) ==
  IF i <= h THEN (IF i = 1 THEN Hello ELSE Fin)
  ELSE IF i <= h + Total THEN Byte(v, i - h) ELSE Bye

\* The n tokens of s after the first i are those due after the first m.
Lies(s, i, n, h, v, m) == \A k \in 1 .. n : s[i + k] = Due(h, v, m + k)

\* How many tokens OpenSSL has written, how many of the buffer the kernel has taken, and
\* how many it has not.
Produced(c) ==
  IF c.phase = "new" THEN 0
  ELSE IF c.phase = "hello" THEN 1
  ELSE IF c.phase = "up"
    THEN Hellos(c) + sendBufferOffset + c.written
           + (IF state = "InitSending" /\ Ended("Finished") THEN outcome.length ELSE 0)
  ELSE Hellos(c) + Total + 1
Taken(c) == c.socketWrite + (IF HasRead THEN request.length ELSE 0)
Flying(c) == IF c.progress = "Sending" THEN c.networkBioRead - Taken(c) ELSE 0

\* The wire w, the rest of the buffer and the BIO hold what was produced, in order.
Pipe(c, v, w, taken, flying, produced) ==
  /\ Len(w) + flying + Len(c.out) = produced
  /\ Lies(w, 0, Len(w), Hellos(c), v, 0)
  /\ Lies(c.buffer, taken, flying, Hellos(c), v, Len(w))
  /\ Lies(c.out, 0, Len(c.out), Hellos(c), v, Len(w) + flying)

WriteInv(c) ==
  /\ c.progress = "Sending" =>
       /\ c.networkBioRead = Len(c.buffer) /\ c.socketWrite < c.networkBioRead
       /\ pc = "wait" =>
            request.at = c.socketWrite /\ request.length = c.networkBioRead - c.socketWrite
       /\ request.length <= c.networkBioRead - c.socketWrite
  /\ Len(wire) <= Hellos(c) + Total + 1
  /\ Lies(wire, 0, Len(wire), Hellos(c), version, 0)
  /\ c.progress # "Aborted" => Pipe(c, version, wire, Taken(c), Flying(c), Produced(c))
  /\ state \in {"InitReceiving", "Receiving", "TLSShutdown"} => sendBufferOffset = Total
  /\ state = "TLSShutdown" => Len(wire) >= Hellos(c) + Total

SendInv ==
  /\ wire \in Seq(Tokens)
  /\ Live => WriteInv(tls[fd])
  /\ state = "Finished" => Cardinality(Arrived) = Total

LEMMA ExpectedFacts ==
  ASSUME version \in Nat, tls[fd].connected \in BOOLEAN
  PROVE  /\ Len(Expected) = Hellos(tls[fd]) + Total + 1
         /\ \A k \in 1 .. Len(Expected) : Expected[k] = Due(Hellos(tls[fd]), version, k)
         /\ Expected \in Seq(Tokens)
<1> DEFINE h == Hellos(tls[fd])
           g == IF tls[fd].connected THEN <<>> ELSE <<Hello, Fin>>
           b == [k \in 1 .. Total |-> Byte(version, k)]
           e == <<Bye>>
<1>1. Expected = (g \o b) \o e
  BY DEF Expected, Byte
<1>2. g \in Seq(Tokens) /\ Len(g) = h /\ \A k \in 1 .. h : g[k] = IF k = 1 THEN Hello ELSE Fin
  BY TokenFacts DEF Hellos
<1>3. b \in Seq(Tokens) /\ Len(b) = Total
  <2>1. ASSUME NEW k \in 1 .. Total PROVE Byte(version, k) \in Tokens
    <3>1. (IF k <= MessageLength THEN k ELSE k - MessageLength) \in Nat
      BY Constants
    <3>2. Byte(version, k) \in [kind : {"data"}, left : {0}, version : Nat, memory : {0, 1}, at : Nat]
      BY <3>1 DEF Byte
    <3> QED BY ONLY <3>2, Zenon DEF Tokens
  <2>2. b \in [1 .. Total -> Tokens]
    BY <2>1
  <2> HIDE DEF b
  <2> QED BY <2>2, Constants, FunctionSeq
<1>4. \A k \in 1 .. Total : b[k] = Byte(version, k)
  OBVIOUS
<1>5. e \in Seq(Tokens) /\ Len(e) = 1 /\ e[1] = Bye
  BY TokenFacts
<1>6. h \in {0, 2} /\ Total \in Nat
  BY Constants DEF Hellos
<1> HIDE DEF h, g, b, e
<1> DEFINE s == g \o b
<1>7. s \in Seq(Tokens) /\ Len(s) = h + Total
      /\ \A k \in 1 .. h + Total : s[k] = IF k <= h THEN g[k] ELSE b[k - h]
  BY <1>2, <1>3, ConcatFacts
<1>8. Expected = s \o e
  BY <1>1
<1> HIDE DEF s
<1>9. s \o e \in Seq(Tokens) /\ Len(s \o e) = Len(s) + Len(e)
      /\ \A k \in 1 .. Len(s) + Len(e) : (s \o e)[k] = IF k <= Len(s) THEN s[k] ELSE e[k - Len(s)]
  BY <1>5, <1>7, ConcatFacts
<1>10. Expected \in Seq(Tokens) /\ Len(Expected) = h + Total + 1
       /\ \A k \in 1 .. h + Total + 1 :
            Expected[k] = IF k <= h + Total THEN s[k] ELSE e[k - (h + Total)]
  BY <1>5, <1>7, <1>8, <1>9
<1>11. ASSUME NEW k \in 1 .. h + Total + 1
       PROVE  Expected[k] = Due(h, version, k)
  <2>1. CASE k <= h
    BY <2>1, <1>2, <1>6, <1>7, <1>10 DEF Due
  <2>2. CASE ~ (k <= h) /\ k <= h + Total
    <3>1. k - h \in 1 .. Total /\ k \in 1 .. h + Total
      BY <2>2, <1>6
    <3>2. Expected[k] = b[k - h]
      BY <2>2, <3>1, <1>7, <1>10
    <3> QED BY <2>2, <3>1, <3>2, <1>4 DEF Due
  <2>3. CASE ~ (k <= h + Total)
    <3>1. k - (h + Total) = 1 /\ ~ (k <= h)
      BY <2>3, <1>6
    <3> QED BY <2>3, <3>1, <1>5, <1>10 DEF Due
  <2> QED BY <2>1, <2>2, <2>3
<1> QED BY <1>10, <1>11 DEF h

\* The places of the request on the wire.
LEMMA ArrivedFacts ==
  ASSUME NEW h \in {0, 2}, NEW v, wire \in Seq(Tokens), Lies(wire, 0, Len(wire), h, v, 0),
         h + Total <= Len(wire), Len(wire) <= h + Total + 1
  PROVE  Cardinality(Arrived) = Total
<1>1. Len(wire) \in Nat /\ Total \in Nat \ {0} /\ DOMAIN wire = 1 .. Len(wire)
  BY Constants
<1>2. \A k \in 1 .. Len(wire) : wire[k] = Due(h, v, k)
  BY DEF Lies
<1>3. \A k \in 1 .. Len(wire) : wire[k].kind = "data" <=> k \in h + 1 .. h + Total
  BY <1>1, <1>2 DEF Due, Byte, Hello, Fin, Bye
<1>4. Arrived = h + 1 .. h + Total
  BY <1>1, <1>3 DEF Arrived
<1>5. Cardinality(h + 1 .. h + Total) = (h + Total) - (h + 1) + 1
  BY <1>1, FS_Interval
<1> QED BY <1>1, <1>4, <1>5

\* The byte the k-th place behind the offset has.
LEMMA SourceBytes ==
  ASSUME NEW n \in Nat, n < Total, NEW k \in 1 .. Source(n).length, NEW v, NEW h \in {0, 2}
  PROVE  Due(h, v, h + n + k) = [kind |-> "data", left |-> 0, version |-> v,
                                 memory |-> Source(n).memory, at |-> Source(n).at + k]
BY Constants DEF Source, Total, Due, Byte

\* A step that leaves the connection's object, with nothing in flight, and the wire.
LEMMA WritePasses ==
  ASSUME HTTPSInv, SendInv, Live, Live', UNCHANGED <<fd, tls, wire, version>>,
         tls[fd].progress # "Sending",
         Produced(tls[fd])' = Produced(tls[fd]),
         state' \in {"InitReceiving", "Receiving", "TLSShutdown"} => sendBufferOffset' = Total,
         state' = "TLSShutdown" => Len(wire) >= Hellos(tls[fd]) + Total
  PROVE  SendInv'
<1> DEFINE c == tls[fd]
<1>1. tls'[fd'] = c /\ WriteInv(c)
  BY DEF SendInv
<1>2. state' # "Finished"
  BY DEF Live, LiveStates
<1> HIDE DEF c
<1>3. Flying(c) = 0 /\ Flying(c)' = 0
  BY DEF Flying, c
<1>4. c.progress # "Aborted" => Pipe(c, version, wire, Taken(c)', 0, Produced(c))
  BY <1>1, <1>3 DEF WriteInv, Pipe, Lies
<1>5. Produced(c)' = Produced(c)
  BY DEF c
<1>6. WriteInv(tls[fd])'
  <2>1. (c.progress # "Aborted" => Pipe(c, version, wire, Taken(c), Flying(c), Produced(c)))'
    BY <1>1, <1>3, <1>4 DEF c
  <2> QED BY <1>1, <2>1 DEF WriteInv, c
<1> QED BY <1>2, <1>6 DEF SendInv

\* A connection at its beginning, or one that was kept: nothing is due on it yet.
LEMMA OpensWrites ==
  ASSUME HTTPSInv, OpenNew \/ OpenKept
  PROVE  SendInv'
<1>1. PICK f \in 0 .. connects + 1, c \in Connections :
        /\ Opens(f, c, kept \ {f}) \/ Opens(f, c, kept)
        /\ c.out = <<>> /\ c.written = 0 /\ c.progress \in {"Init", "Finished"}
        /\ c.phase = "new" \/ (c.phase = "up" /\ c.connected)
  <2>1. CASE OpenNew
    <3>1. PICK address \in Addresses : Opens(connects + 1, NewTLS(address), kept)
      BY <2>1 DEF OpenNew
    <3>2. address \in Nat /\ Reused(address) \in Nat
      <4>1. address \in Nat /\ Slot(address) \in 0 .. CacheSize - 1
        BY Constants DEF Slot
      <4>2. sessionCache \in [0 .. CacheSize - 1 -> [first : Nat, second : Nat]]
        BY DEF HTTPSInv, Types
      <4> QED BY <4>1, <4>2 DEF Reused, NoSession
    <3>3. NewTLS(address) \in Connections
      BY <3>2, EmptySeq DEF NewTLS, Connections, Statuses
    <3>4. /\ NewTLS(address).out = <<>> /\ NewTLS(address).written = 0
          /\ NewTLS(address).progress = "Init" /\ NewTLS(address).phase = "new"
      BY DEF NewTLS
    <3>5. connects + 1 \in 0 .. connects + 1
      BY DEF HTTPSInv, Types
    <3> QED BY <3>1, <3>3, <3>4, <3>5
  <2>2. CASE OpenKept
    <3>1. PICK f \in kept : Opens(f, KeptTLS(tls[f]), kept \ {f})
      BY <2>2 DEF OpenKept
    <3>2. tls[f] \in Connections /\ FreshTLS(tls[f])
      <4>1. f \in DOMAIN tls
        BY DEF HTTPSInv, Attached
      <4> QED BY <4>1 DEF HTTPSInv, Types
    <3> DEFINE c == KeptTLS(tls[f])
    <3>3. /\ c \in Connections /\ c.out = <<>> /\ c.written = 0 /\ c.progress = "Finished"
          /\ c.phase = "up" /\ c.connected
      BY <3>2, EmptySeq DEF KeptTLS, Connections, FreshTLS
    <3>4. f \in 0 .. connects + 1
      BY DEF HTTPSInv, Types
    <3> QED BY <3>1, <3>3, <3>4
  <2> QED BY <2>1, <2>2
<1>2. /\ fd' = f /\ wire' = <<>>
      /\ tls' = [g \in DOMAIN tls \cup {f} |-> IF g = f THEN c ELSE tls[g]]
  BY <1>1 DEF Opens
<1>3. state' = "TLSHandshake" /\ sendBufferOffset' = 0
  BY DEF OpenNew, OpenKept
<1>4. tls'[fd'] = c
  BY <1>2
<1>5. Flying(tls[fd])' = 0
  BY <1>1, <1>4 DEF Flying
<1>6. Produced(tls[fd])' = 0
  <2>1. c.phase = "new" \/ (c.phase = "up" /\ Hellos(c) = 0)
    BY <1>1 DEF Hellos
  <2> QED BY <1>1, <1>3, <1>4, <2>1 DEF Produced, Hellos
<1>7. Hellos(c) \in {0, 2} /\ Total \in Nat /\ Len(<<>>) = 0 /\ <<>> \in Seq(Tokens)
  BY Constants, EmptySeq DEF Hellos
<1>8. Pipe(c, version', <<>>, Taken(tls[fd])', 0, 0)
  BY <1>1, <1>7 DEF Pipe, Lies
<1>9. WriteInv(tls[fd])'
  <2>1. Lies(<<>>, 0, 0, Hellos(c), version', 0)
    BY DEF Lies
  <2>2. Hellos(tls[fd])' = Hellos(c)
    BY <1>4 DEF Hellos
  <2> QED BY <1>1, <1>2, <1>3, <1>4, <1>5, <1>6, <1>7, <1>8, <2>1, <2>2 DEF WriteInv
<1> QED BY <1>2, <1>3, <1>7, <1>9 DEF SendInv

\* What follows an operation that has returned does nothing to what was written.
LEMMA ReturnWrites ==
  ASSUME HTTPSInv, SendInv,
         \/ HandshakeEnds \/ SendEnds \/ ReceiveContinues \/ ShutdownAgain \/ ShutdownCaches
         \/ CallsNothing
  PROVE  SendInv'
<1> DEFINE c == tls[fd]
<1>1. UNCHANGED <<fd, tls, wire, version>>
  BY DEF HandshakeEnds, SendEnds, ReceiveContinues, ShutdownAgain, ShutdownCaches, CallsNothing,
         UnchangedByReturn, peer, task
<1>2. CASE HandshakeEnds
  <2>1. pc = "return" /\ state = "TLSHandshake" /\ outcome.status # "Aborted"
    BY <1>2 DEF HandshakeEnds
  <2>2. /\ Live /\ outcome.status = "Finished" /\ c.progress = "Finished" /\ PhaseInv(c)
        /\ WrittenInv(c)
    BY <2>1, ReturnFacts
  <2>3. state' = "InitSending" /\ pc' = "execute" /\ sendBufferOffset' = sendBufferOffset
    BY <1>2, <2>2 DEF HandshakeEnds
  <2>4. sendBufferOffset = 0 /\ c.written = 0 /\ c.phase = "up"
    BY <2>1, <2>2 DEF PhaseInv, WrittenInv, Ended
  <2>5. Produced(c)' = Produced(c)
    BY <1>1, <2>1, <2>3, <2>4 DEF Produced, Hellos, Ended
  <2>6. Live'
    BY <2>3 DEF Live, LiveStates
  <2> QED BY <1>1, <2>2, <2>3, <2>5, <2>6, WritePasses
<1>3. CASE SendEnds
  <2>1. pc = "return" /\ state = "InitSending" /\ outcome.status = "Finished"
    BY <1>3 DEF SendEnds, Returned
  <2>2. /\ Live /\ c.progress = "Finished" /\ PhaseInv(c) /\ WrittenInv(c)
        /\ sendBufferOffset \in 0 .. Total
    BY <2>1, ReturnFacts
  <2>3. sendBufferOffset < Total /\ outcome.length = Source(sendBufferOffset).length /\ c.written = 0
        /\ c.phase = "up"
    BY <2>1, <2>2 DEF WrittenInv, PhaseInv, Ended
  <2>4. /\ pc' # "return" /\ sendBufferOffset' = Sent(outcome.length)
        /\ state' = IF Sent(outcome.length) >= Total THEN "InitReceiving" ELSE "InitSending"
    BY <1>3, <2>1 DEF SendEnds
  <2>5. Sent(outcome.length) = sendBufferOffset + outcome.length /\ Sent(outcome.length) <= Total
        /\ sendBufferOffset \in Nat /\ outcome.length \in Nat /\ Total \in Nat
    BY <2>2, <2>3, Constants, SourceFacts DEF Sent
  <2>6. Produced(c)' = Produced(c)
    <3>1. Hellos(c) \in Nat
      BY DEF Hellos
    <3>2. Produced(c) = Hellos(c) + sendBufferOffset + 0 + outcome.length
      BY <2>1, <2>3 DEF Produced, Ended
    <3>3. Produced(c)' = Hellos(c) + (sendBufferOffset + outcome.length) + 0 + 0
      BY <1>1, <2>3, <2>4, <2>5 DEF Produced, Ended, Hellos
    <3> QED BY <2>5, <3>1, <3>2, <3>3
  <2>7. Live'
    BY <2>4 DEF Live, LiveStates
  <2>8. state' = "InitReceiving" => sendBufferOffset' = Total
    BY <2>4, <2>5
  <2> QED BY <1>1, <2>2, <2>4, <2>6, <2>7, <2>8, WritePasses
<1>4. CASE ReceiveContinues
  <2>1. Receives
    BY <1>4 DEF ReceiveContinues
  <2>2. Live /\ FreshTLS(c)
    BY <2>1, ReceivesFacts
  <2>3. state' = "Receiving" /\ pc' = "execute" /\ sendBufferOffset' = sendBufferOffset
    BY <1>4 DEF ReceiveContinues
  <2>4. state \in {"InitReceiving", "Receiving"}
    BY <2>1 DEF Receives, Returned
  <2>5. Produced(c)' = Produced(c)
    BY <1>1, <2>3, <2>4 DEF Produced, Hellos
  <2>6. Live' /\ sendBufferOffset = Total
    BY <2>2, <2>3, <2>4 DEF Live, LiveStates, SendInv, WriteInv
  <2> QED BY <1>1, <2>2, <2>3, <2>5, <2>6, WritePasses DEF FreshTLS
<1>5. CASE ShutdownAgain \/ ShutdownCaches
  <2>1. pc = "return" /\ state = "TLSShutdown" /\ state' = state
        /\ sendBufferOffset' = sendBufferOffset
    BY <1>5 DEF ShutdownAgain, ShutdownCaches, Returned, task
  <2>2. Live /\ ConnInv(c)
    BY <2>1, LiveFacts DEF Live, LiveStates
  <2>3. c.progress # "Sending"
    BY <2>1, <2>2 DEF ConnInv, PumpInv, Pumps
  <2>4. Produced(c)' = Produced(c)
    BY <1>1, <2>1 DEF Produced, Hellos
  <2>5. Live' /\ sendBufferOffset = Total /\ Len(wire) >= Hellos(c) + Total
    BY <2>1, <2>2 DEF Live, SendInv, WriteInv
  <2> QED BY <1>1, <2>1, <2>2, <2>3, <2>4, <2>5, WritePasses
<1>6. CASE CallsNothing
  <2>1. Live /\ pc = "execute" /\ state' = state /\ sendBufferOffset' = sendBufferOffset
    BY <1>6 DEF CallsNothing, Operating, Live, LiveStates, task
  <2>2. ConnInv(c)
    BY <2>1, LiveFacts
  <2>3. c.progress # "Sending" /\ (c.progress = "Aborted" => state = "TLSShutdown") /\ state # "InitSending"
    BY <1>6, <2>1, <2>2 DEF CallsNothing, ConnInv, PumpInv, PhaseInv, FreshTLS, Ended
  <2>4. Produced(c)' = Produced(c)
    BY <1>1, <2>1, <2>3 DEF Produced, Hellos
  <2>5. /\ state \in {"InitReceiving", "Receiving", "TLSShutdown"} => sendBufferOffset = Total
        /\ state = "TLSShutdown" => Len(wire) >= Hellos(c) + Total
    BY <2>1 DEF SendInv, WriteInv
  <2>6. Live'
    BY <2>1 DEF Live
  <2> QED BY <1>1, <2>1, <2>3, <2>4, <2>5, <2>6, WritePasses
<1> QED BY <1>2, <1>3, <1>4, <1>5, <1>6

\* When the answer is there, the whole request is on the wire.
LEMMA WholeRequest ==
  ASSUME HTTPSInv, SendInv, Live, state \in {"InitReceiving", "Receiving"}, FreshTLS(tls[fd])
  PROVE  Len(wire) = Hellos(tls[fd]) + Total /\ Cardinality(Arrived) = Total
<1> DEFINE c == tls[fd]
<1>1. WriteInv(c) /\ c.progress = "Finished" /\ c.out = <<>> /\ c.written = 0 /\ c.phase = "up"
  BY DEF SendInv, FreshTLS
<1> HIDE DEF c
<1>2. Hellos(c) \in {0, 2} /\ Total \in Nat /\ Len(<<>>) = 0 /\ Len(wire) \in Nat
  BY Constants, EmptySeq DEF Hellos, SendInv
<1>3. sendBufferOffset = Total /\ Flying(c) = 0 /\ Produced(c) = Hellos(c) + Total
  BY <1>1, <1>2 DEF WriteInv, Flying, Produced
<1>4. Len(wire) = Hellos(c) + Total
  BY <1>1, <1>2, <1>3 DEF WriteInv, Pipe
<1>5. Cardinality(Arrived) = Total
  BY <1>1, <1>2, <1>4, ArrivedFacts DEF WriteInv, SendInv
<1> QED BY <1>4, <1>5 DEF c

LEMMA ReceiveEndsWrites ==
  ASSUME HTTPSInv, SendInv, ReceiveEnds
  PROVE  SendInv'
<1> DEFINE c == tls[fd]
<1>1. Receives
  BY DEF ReceiveEnds
<1>2. Live /\ FreshTLS(c) /\ state \in {"InitReceiving", "Receiving"}
  BY <1>1, ReceivesFacts DEF Receives, Returned
<1>3. Len(wire) = Hellos(c) + Total /\ Cardinality(Arrived) = Total
  BY <1>2, WholeRequest
<1>4. UNCHANGED <<fd, tls, wire, version, sendBufferOffset>>
  BY DEF ReceiveEnds, UnchangedByReturn, peer
<1>5. CASE reuse
  <2>1. state' = "Finished"
    BY <1>5 DEF ReceiveEnds
  <2>2. Cardinality(Arrived)' = Total
    BY <1>3, <1>4 DEF Arrived
  <2>3. ~ Live'
    BY <2>1 DEF Live, LiveStates
  <2> QED BY <1>4, <2>2, <2>3 DEF SendInv
<1>6. CASE ~ reuse
  <2>1. state' = "TLSShutdown" /\ pc' = "execute"
    BY <1>6 DEF ReceiveEnds
  <2>2. Produced(c)' = Produced(c)
    BY <1>2, <1>4, <2>1 DEF Produced, Hellos
  <2>3. Live' /\ sendBufferOffset = Total
    BY <1>2, <2>1 DEF Live, LiveStates, SendInv, WriteInv
  <2>4. Len(wire) >= Hellos(c) + Total
    BY <1>3, Constants DEF Hellos
  <2>5. c.progress # "Sending"
    BY <1>2 DEF FreshTLS
  <2> QED BY <1>2, <1>4, <2>2, <2>3, <2>4, <2>5, WritePasses
<1> QED BY <1>5, <1>6

\* The closing does not change what has arrived.
LEMMA ShutdownEndsWrites ==
  ASSUME HTTPSInv, SendInv, ShutdownEnds
  PROVE  SendInv'
<1> DEFINE c == tls[fd]
<1>1. pc = "close" /\ state' = "Finished" /\ wire' = wire
  BY DEF ShutdownEnds, UnchangedByReturn, peer
<1>2. Live /\ state = "TLSShutdown"
  BY <1>1 DEF HTTPSInv, Attached, Live, LiveStates
<1>3. WriteInv(c) /\ wire \in Seq(Tokens)
  BY <1>2 DEF SendInv
<1> HIDE DEF c
<1>4. Hellos(c) \in {0, 2}
  BY DEF Hellos
<1>5. Cardinality(Arrived) = Total
  BY <1>2, <1>3, <1>4, ArrivedFacts DEF WriteInv
<1>6. Cardinality(Arrived)' = Total /\ ~ Live'
  BY <1>1, <1>5 DEF Arrived, Live, LiveStates
<1> QED BY <1>1, <1>3, <1>6 DEF SendInv

LEMMA LiesBehind ==
  ASSUME NEW s \in Seq(Tokens), NEW f \in Seq(Tokens), NEW h, NEW v, NEW m \in Nat,
         Lies(s, 0, Len(s), h, v, m), Lies(f, 0, Len(f), h, v, m + Len(s))
  PROVE  Lies(s \o f, 0, Len(s \o f), h, v, m)
<1>1. /\ Len(s \o f) = Len(s) + Len(f) /\ Len(s) \in Nat /\ Len(f) \in Nat
      /\ \A k \in 1 .. Len(s) + Len(f) : (s \o f)[k] = IF k <= Len(s) THEN s[k] ELSE f[k - Len(s)]
  BY ConcatFacts
<1> DEFINE t == s \o f
<1> HIDE DEF t
<1> SUFFICES ASSUME NEW k \in 1 .. Len(s) + Len(f) PROVE t[0 + k] = Due(h, v, m + k)
  BY <1>1 DEF Lies, t
<1>2. t[0 + k] = IF k <= Len(s) THEN s[k] ELSE f[k - Len(s)]
  BY <1>1 DEF t
<1>3. CASE k <= Len(s)
  <2>1. k \in 1 .. Len(s) /\ 0 + k = k
    BY <1>1, <1>3
  <2> QED BY <1>2, <1>3, <2>1 DEF Lies
<1>4. CASE ~ (k <= Len(s))
  <2>1. k - Len(s) \in 1 .. Len(f) /\ 0 + (k - Len(s)) = k - Len(s)
        /\ (m + Len(s)) + (k - Len(s)) = m + k
    BY <1>1, <1>4
  <2>2. f[0 + (k - Len(s))] = Due(h, v, (m + Len(s)) + (k - Len(s)))
    BY <2>1 DEF Lies
  <2> QED BY <1>2, <1>4, <2>1, <2>2
<1> QED BY <1>3, <1>4

\* What OpenSSL has written of a connection after a call.
ProducedBy(c, r) ==
  IF r.ssl.phase = "hello" THEN 1
  ELSE IF r.ssl.phase = "up"
    THEN Hellos(c) + sendBufferOffset + r.ssl.written
           + (IF state = "InitSending" /\ r.error = "none" THEN r.length ELSE 0)
  ELSE Hellos(c) + Total + 1

\* OpenSSL puts what is due next behind what it left before.
Adds(c, r, f) ==
  /\ f \in Seq(Tokens) /\ r.ssl.out = c.out \o f
  /\ Produced(c) + Len(f) = ProducedBy(c, r)
  /\ Lies(f, 0, Len(f), Hellos(c), version, Produced(c))

LEMMA AddsNothing ==
  ASSUME NEW c \in Connections, NEW r, r.ssl.out = c.out, Produced(c) \in Nat,
         ProducedBy(c, r) = Produced(c)
  PROVE  \E f : Adds(c, r, f)
<1>1. c.out \o <<>> = c.out /\ Len(<<>>) = 0 /\ <<>> \in Seq(Tokens)
  BY EmptySeq, ConcatEmptySeq DEF Connections
<1>2. Adds(c, r, <<>>)
  BY <1>1 DEF Adds, Lies
<1> QED BY <1>2

LEMMA AddsOne ==
  ASSUME NEW c \in Connections, NEW r, NEW t \in Tokens, r.ssl.out = <<t>>, c.out = <<>>,
         Produced(c) \in Nat, ProducedBy(c, r) = Produced(c) + 1,
         t = Due(Hellos(c), version, Produced(c) + 1)
  PROVE  \E f : Adds(c, r, f)
<1> DEFINE f == <<t>>
<1>1. f \in Seq(Tokens) /\ Len(f) = 1 /\ f[1] = t /\ <<>> \o f = f
  BY ConcatEmptySeq
<1> HIDE DEF f
<1>2. Lies(f, 0, Len(f), Hellos(c), version, Produced(c))
  <2>1. \A k \in 1 .. 1 : k = 1 /\ 0 + k = 1
    OBVIOUS
  <2> QED BY <1>1, <2>1 DEF Lies
<1>3. Adds(c, r, f)
  BY <1>1, <1>2 DEF Adds, f
<1> QED BY <1>3

LEMMA AddsByConnect ==
  ASSUME NEW c, Callable(c), state = "TLSHandshake", sendBufferOffset \in Nat,
         NEW r \in SSLConnect(c)
  PROVE  \E f : Adds(c, r, f)
<1> DEFINE d == Absorb(c).ssl
           rec == Absorb(c).record
<1>1. /\ c \in Connections /\ StreamInv(c) /\ OutInv(c) /\ c.progress \notin Pumps
      /\ c.phase \in {"new", "hello"} /\ c.written = 0 /\ ~ c.connected /\ sendBufferOffset = 0
  BY DEF Callable, ConnInv, PumpInv, PhaseInv, WrittenInv, OutInv, Pumps, Ended
<1>2. Hellos(c) = 2
  BY <1>1 DEF Hellos
<1>3. CASE c.phase = "new"
  <2> DEFINE e == [c EXCEPT !.phase = "hello", !.out = <<Hello>>, !.want = 1]
  <2>1. c.out = <<>>
    BY <1>1, <1>3 DEF OutInv
  <2>2. r = Result("want", 0, e)
    <3>1. r = Result("want", 0, [c EXCEPT !.phase = "hello", !.out = Append(c.out, Hello), !.want = 1])
      BY <1>3 DEF SSLConnect
    <3>2. Append(c.out, Hello) = <<Hello>>
      BY <2>1, AppendOne
    <3> QED BY <3>1, <3>2
  <2>3. r.ssl.out = <<Hello>> /\ r.ssl.phase = "hello"
    <3>1. e.out = <<Hello>> /\ e.phase = "hello"
      BY <1>1 DEF Connections
    <3> HIDE DEF e
    <3> QED BY <2>2, <3>1 DEF Result
  <2>4. Produced(c) = 0 /\ ProducedBy(c, r) = 1
    BY <1>3, <2>3 DEF Produced, ProducedBy
  <2>5. Hello = Due(Hellos(c), version, 1)
    BY <1>2 DEF Due
  <2> QED BY <1>1, <2>1, <2>3, <2>4, <2>5, TokenFacts, AddsOne
<1>4. CASE c.phase = "hello"
  <2>1. /\ d \in Connections
        /\ d = [c EXCEPT !.partial = d.partial, !.in = <<>>, !.want = d.want]
        /\ rec # <<>> => c.out = <<>>
    BY <1>1, Absorbed
  <2>2. \/ rec = <<>> /\ r = Result("want", 0, d)
        \/ rec # <<>> /\ r = Result("fatal", -1, d)
        \/ /\ rec # <<>>
           /\ \E b : r = Result("none", 1, [d EXCEPT !.phase = "up", !.out = Append(d.out, Fin),
                                                    !.reused = b])
    BY <1>4 DEF SSLConnect, Read
  <2> HIDE DEF d, rec
  <2>3. d.out = c.out /\ d.phase = c.phase /\ d.written = c.written
    BY <1>1, <2>1 DEF Connections
  <2>4. Produced(c) = 1
    BY <1>4 DEF Produced
  <2>5. CASE r = Result("want", 0, d) \/ r = Result("fatal", -1, d)
    <3>1. r.ssl = d
      BY <2>5 DEF Result
    <3>2. ProducedBy(c, r) = 1
      BY <1>4, <2>3, <3>1 DEF ProducedBy
    <3> QED BY <1>1, <2>3, <2>4, <3>1, <3>2, AddsNothing
  <2>6. CASE /\ rec # <<>>
             /\ \E b : r = Result("none", 1, [d EXCEPT !.phase = "up", !.out = Append(d.out, Fin),
                                                      !.reused = b])
    <3>1. PICK b : r = Result("none", 1, [d EXCEPT !.phase = "up", !.out = Append(d.out, Fin),
                                                   !.reused = b])
      BY <2>6
    <3>2. Append(d.out, Fin) = <<Fin>> /\ c.out = <<>>
      BY <2>1, <2>3, <2>6, AppendOne
    <3> DEFINE e == [d EXCEPT !.phase = "up", !.out = <<Fin>>, !.reused = b]
    <3>3. e.out = <<Fin>> /\ e.phase = "up" /\ e.written = d.written
      BY <2>1 DEF Connections
    <3>4. r = Result("none", 1, e)
      BY <3>1, <3>2
    <3> HIDE DEF e
    <3>5. r.ssl = e
      BY <3>4 DEF Result
    <3>6. ProducedBy(c, r) = 2
      BY <1>1, <1>2, <2>3, <3>3, <3>5 DEF ProducedBy
    <3>7. Fin = Due(Hellos(c), version, 2)
      BY <1>2 DEF Due
    <3> QED BY <1>1, <2>4, <3>2, <3>3, <3>5, <3>6, <3>7, TokenFacts, AddsOne
  <2> QED BY <2>2, <2>5, <2>6
<1> QED BY <1>1, <1>3, <1>4

LEMMA AddsByRead ==
  ASSUME NEW c, Callable(c), state \in {"InitReceiving", "Receiving"}, sendBufferOffset \in Nat,
         NEW r \in SSLRead(c)
  PROVE  \E f : Adds(c, r, f)
<1> DEFINE d == Absorb(c).ssl
           rec == Absorb(c).record
<1>1. /\ c \in Connections /\ StreamInv(c) /\ OutInv(c) /\ c.progress \notin Pumps
      /\ c.phase = "up" /\ c.written = 0
  BY DEF Callable, ConnInv, PumpInv, PhaseInv, WrittenInv, OutInv, Pumps
<1>2. d \in Connections /\ d = [c EXCEPT !.partial = d.partial, !.in = <<>>, !.want = d.want]
  BY <1>1, Absorbed
<1>3. \/ r = Result("want", 0, d)
      \/ r = [Result("none", Len(rec), d) EXCEPT !.record = rec]
      \/ r = Result("fatal", 0, d)
  BY DEF SSLRead, Read
<1> HIDE DEF d, rec
<1>4. d.out = c.out /\ d.phase = c.phase /\ d.written = c.written
  BY <1>1, <1>2 DEF Connections
<1>5. r.ssl = d
  BY <1>3 DEF Result
<1>6. Produced(c) = Hellos(c) + sendBufferOffset /\ Produced(c) \in Nat
  BY <1>1 DEF Produced, Hellos
<1>7. ProducedBy(c, r) = Produced(c)
  BY <1>1, <1>4, <1>5, <1>6 DEF ProducedBy, Hellos
<1> QED BY <1>1, <1>4, <1>5, <1>6, <1>7, AddsNothing

LEMMA AddsByShutdown ==
  ASSUME NEW c, Callable(c), state = "TLSShutdown", sendBufferOffset = Total,
         NEW r \in SSLShutdown(c)
  PROVE  \E f : Adds(c, r, f)
<1> DEFINE d == Absorb(c).ssl
<1>1. /\ c \in Connections /\ StreamInv(c) /\ OutInv(c) /\ c.progress \notin Pumps
      /\ c.phase \in {"up", "closing"} /\ c.written = 0
      /\ c.phase = "up" => c.out = <<>>
  BY DEF Callable, ConnInv, PumpInv, PhaseInv, WrittenInv, OutInv, Pumps, Ended, FreshTLS
<1>2. Hellos(c) \in {0, 2} /\ Total \in Nat
  BY Constants DEF Hellos
<1>3. CASE c.phase = "up"
  <2> DEFINE e == [c EXCEPT !.phase = "closing", !.out = <<Bye>>]
  <2>1. r = Result("fatal", 0, e)
    <3>1. r = Result("fatal", 0, [c EXCEPT !.phase = "closing", !.out = Append(c.out, Bye)])
      BY <1>3 DEF SSLShutdown
    <3>2. Append(c.out, Bye) = <<Bye>>
      BY <1>1, <1>3, AppendOne
    <3> QED BY <3>1, <3>2
  <2>2. r.ssl.out = <<Bye>> /\ r.ssl.phase = "closing"
    <3>1. e.out = <<Bye>> /\ e.phase = "closing"
      BY <1>1 DEF Connections
    <3> HIDE DEF e
    <3> QED BY <2>1, <3>1 DEF Result
  <2>3. Produced(c) = Hellos(c) + Total /\ ProducedBy(c, r) = Produced(c) + 1
    BY <1>1, <1>2, <1>3, <2>2 DEF Produced, ProducedBy
  <2>4. Bye = Due(Hellos(c), version, Produced(c) + 1)
    BY <1>2, <2>3 DEF Due
  <2> QED BY <1>1, <1>2, <1>3, <2>2, <2>3, <2>4, TokenFacts, AddsOne
<1>4. CASE c.phase = "closing"
  <2>1. d \in Connections /\ d = [c EXCEPT !.partial = d.partial, !.in = <<>>, !.want = d.want]
    BY <1>1, Absorbed
  <2>2. r \in {Result("want", 0, d), Result("none", 1, d), Result("fatal", 1, d)}
    BY <1>4 DEF SSLShutdown, Read
  <2> HIDE DEF d
  <2>3. d.out = c.out /\ d.phase = c.phase
    BY <1>1, <2>1 DEF Connections
  <2>5. r.ssl = d
    BY <2>2 DEF Result
  <2>4. Produced(c) = Hellos(c) + Total + 1 /\ ProducedBy(c, r) = Produced(c)
    BY <1>4, <2>3, <2>5 DEF Produced, ProducedBy
  <2> QED BY <1>1, <1>2, <2>3, <2>4, <2>5, AddsNothing
<1> QED BY <1>1, <1>3, <1>4

ByteOf(s, i) == [kind |-> "data", left |-> 0, version |-> version, memory |-> s.memory, at |-> i]

\* SSL_write has put the n tokens f behind what it left before.
Wrote(c, s, r, f) ==
  /\ f \in Seq(Tokens)
  /\ c.written + Len(f) <= s.length /\ Len(c.out) + Len(f) <= ChunkSize
  /\ c.written + Len(f) = s.length \/ Len(c.out) + Len(f) = ChunkSize
  /\ \A k \in 1 .. Len(f) : f[k] = ByteOf(s, s.at + c.written + k)
  /\ \/ /\ c.written + Len(f) = s.length
        /\ r = Result("none", s.length, [c EXCEPT !.out = c.out \o f, !.written = 0, !.want = 0])
     \/ /\ c.written + Len(f) # s.length
        /\ r = Result("want", 0, [c EXCEPT !.out = c.out \o f, !.written = c.written + Len(f),
                                           !.want = 0])

LEMMA WriteWrote ==
  ASSUME NEW c, Callable(c), state = "InitSending", version \in Nat, sendBufferOffset \in Nat,
         NEW r \in SSLWrite(c, Source(sendBufferOffset))
  PROVE  \E f : Wrote(c, Source(sendBufferOffset), r, f)
<1> DEFINE s == Source(sendBufferOffset)
           n == Min({s.length - c.written, ChunkSize - Len(c.out)})
           f == [k \in 1 .. n |-> [kind |-> "data", left |-> 0, version |-> version,
                                   memory |-> s.memory, at |-> s.at + c.written + k]]
<1>1. /\ c \in Connections /\ StreamInv(c) /\ OutInv(c) /\ Len(c.out) <= ChunkSize
      /\ c.written <= s.length /\ sendBufferOffset < Total
  BY DEF Callable, ConnInv, WrittenInv, OutInv
<1>3. s.length \in Nat \ {0} /\ s.at \in Nat /\ s.memory \in {0, 1}
  BY <1>1, SourceFacts
<1>4. c.written \in Nat /\ c.out \in Seq(Tokens) /\ Len(c.out) \in Nat
      /\ ChunkSize \in Nat \ {0}
  BY <1>1, Constants DEF Connections
<1> HIDE DEF s
<1>5. /\ n \in Nat /\ c.written + n <= s.length /\ Len(c.out) + n <= ChunkSize
      /\ c.written + n = s.length \/ Len(c.out) + n = ChunkSize
  <2>1. n = IF s.length - c.written <= ChunkSize - Len(c.out)
              THEN s.length - c.written ELSE ChunkSize - Len(c.out)
    BY <1>3, <1>4, MinOfTwo
  <2>2. c.written <= s.length /\ Len(c.out) <= ChunkSize
    BY <1>1 DEF s
  <2> DEFINE wanted == s.length - c.written
             room == ChunkSize - Len(c.out)
  <2>3. wanted \in Nat /\ room \in Nat
    BY <2>2, <1>3, <1>4
  <2>4. c.written + wanted = s.length /\ Len(c.out) + room = ChunkSize
    BY <1>3, <1>4
  <2> HIDE DEF n, wanted, room
  <2>5. (n = wanted /\ wanted <= room) \/ (n = room /\ room <= wanted)
    <3>1. n = IF wanted <= room THEN wanted ELSE room
      BY <2>1 DEF wanted, room
    <3> QED BY ONLY <3>1, <2>3
  <2>6. CASE n = wanted /\ wanted <= room
    <3>1. Len(c.out) + n <= Len(c.out) + room
      BY ONLY <2>3, <2>6, <1>4
    <3> QED BY ONLY <2>3, <2>4, <2>6, <1>3, <3>1
  <2>7. CASE n = room /\ room <= wanted
    <3>1. c.written + n <= c.written + wanted
      BY ONLY <2>3, <2>7, <1>4
    <3> QED BY ONLY <2>3, <2>4, <2>7, <1>3, <3>1
  <2> QED BY <2>5, <2>6, <2>7
<1>6. IF c.written + n = s.length
        THEN r = Result("none", s.length, [c EXCEPT !.out = c.out \o f, !.written = 0, !.want = 0])
        ELSE r = Result("want", 0, [c EXCEPT !.out = c.out \o f, !.written = c.written + n,
                                             !.want = 0])
  BY DEF SSLWrite, s
<1> HIDE DEF n
<1>7. f \in Seq(Tokens) /\ Len(f) = n
  <2>1. \A k \in 1 .. n : [kind |-> "data", left |-> 0, version |-> version, memory |-> s.memory,
                           at |-> s.at + c.written + k] \in Tokens
    <3>1. \A k \in 1 .. n : s.at + c.written + k \in Nat
      BY <1>3, <1>4, <1>5
    <3>2. version \in Nat /\ s.memory \in {0, 1}
      BY <1>3
    <3>3. ASSUME NEW i \in Nat
          PROVE  [kind |-> "data", left |-> 0, version |-> version, memory |-> s.memory,
                  at |-> i] \in Tokens
      <4>1. [kind |-> "data", left |-> 0, version |-> version, memory |-> s.memory, at |-> i]
              \in [kind : {"data"}, left : {0}, version : Nat, memory : {0, 1}, at : Nat]
        BY ONLY <3>2
      <4> QED BY ONLY <4>1, Zenon DEF Tokens
    <3> QED BY ONLY <3>1, <3>3
  <2>2. f \in [1 .. n -> Tokens]
    BY <2>1
  <2> HIDE DEF f
  <2> QED BY <2>2, <1>5, FunctionSeq
<1>8. \A k \in 1 .. n : f[k] = ByteOf(s, s.at + c.written + k)
  BY DEF ByteOf
<1> HIDE DEF f
<1>9. Wrote(c, s, r, f)
  BY <1>5, <1>6, <1>7, <1>8 DEF Wrote
<1> QED BY <1>9 DEF s

LEMMA AddsByWrite ==
  ASSUME NEW c, Callable(c), state = "InitSending", version \in Nat, sendBufferOffset \in Nat,
         NEW r \in SSLWrite(c, Source(sendBufferOffset))
  PROVE  \E f : Adds(c, r, f)
<1> DEFINE s == Source(sendBufferOffset)
<1>1. /\ c \in Connections /\ c.phase = "up" /\ sendBufferOffset < Total /\ ~ Ended("Finished")
  BY DEF Callable, ConnInv, PhaseInv, WrittenInv, Ended
<1>2. s.length \in Nat \ {0} /\ s.at \in Nat /\ s.memory \in {0, 1}
      /\ c.written \in Nat /\ Hellos(c) \in {0, 2}
  BY <1>1, SourceFacts DEF Connections, Hellos
<1> HIDE DEF s
<1>3. PICK f : Wrote(c, s, r, f)
  BY WriteWrote DEF s
<1>4. f \in Seq(Tokens) /\ Len(f) \in Nat /\ c.out \in Seq(Tokens) /\ c.out \o f \in Seq(Tokens)
  <2>1. f \in Seq(Tokens) /\ c.out \in Seq(Tokens)
    BY <1>1, <1>3 DEF Wrote, Connections
  <2> QED BY <2>1, ConcatFacts
<1>5. /\ r.ssl.out = c.out \o f /\ r.ssl.phase = "up"
      /\ IF c.written + Len(f) = s.length
           THEN r.error = "none" /\ r.length = s.length /\ r.ssl.written = 0
           ELSE r.error = "want" /\ r.ssl.written = c.written + Len(f)
  <2> DEFINE o == c.out \o f
             d == [c EXCEPT !.out = o, !.written = 0, !.want = 0]
             e == [c EXCEPT !.out = o, !.written = c.written + Len(f), !.want = 0]
  <2>1. /\ d.out = o /\ d.phase = c.phase /\ d.written = 0
        /\ e.out = o /\ e.phase = c.phase /\ e.written = c.written + Len(f)
    BY <1>1 DEF Connections
  <2>2. \/ c.written + Len(f) = s.length /\ r = Result("none", s.length, d)
        \/ c.written + Len(f) # s.length /\ r = Result("want", 0, e)
    BY <1>3 DEF Wrote
  <2> HIDE DEF d, e, o
  <2>3. \/ c.written + Len(f) = s.length /\ r.error = "none" /\ r.length = s.length /\ r.ssl = d
        \/ c.written + Len(f) # s.length /\ r.error = "want" /\ r.ssl = e
    BY <2>2 DEF Result
  <2> QED BY <2>1, <2>3, <1>1 DEF o
<1>6. Produced(c) = Hellos(c) + sendBufferOffset + c.written + 0
  BY <1>1 DEF Produced
<1>7. ProducedBy(c, r) = Hellos(c) + sendBufferOffset + c.written + Len(f)
  <2>1. CASE c.written + Len(f) = s.length
    BY <2>1, <1>2, <1>4, <1>5 DEF ProducedBy
  <2>2. CASE c.written + Len(f) # s.length
    BY <2>2, <1>2, <1>4, <1>5 DEF ProducedBy
  <2> QED BY <2>1, <2>2
<1>8. Lies(f, 0, Len(f), Hellos(c), version, Produced(c))
  <2> SUFFICES ASSUME NEW k \in 1 .. Len(f)
               PROVE  f[0 + k] = Due(Hellos(c), version, Produced(c) + k)
    BY DEF Lies
  <2>1. c.written + k \in 1 .. s.length /\ k = 0 + k
    BY <1>2, <1>3, <1>4 DEF Wrote
  <2>2. Due(Hellos(c), version, Hellos(c) + sendBufferOffset + (c.written + k))
          = [kind |-> "data", left |-> 0, version |-> version, memory |-> s.memory,
             at |-> s.at + (c.written + k)]
    BY <1>1, <1>2, <2>1, SourceBytes DEF s
  <2>3. f[k] = ByteOf(s, s.at + c.written + k)
    BY <1>3 DEF Wrote
  <2>4. /\ Hellos(c) + sendBufferOffset + (c.written + k) = Produced(c) + k
        /\ s.at + (c.written + k) = s.at + c.written + k
    BY <1>2, <1>6
  <2> QED BY <2>1, <2>2, <2>3, <2>4 DEF ByteOf
<1>9. Adds(c, r, f)
  BY <1>2, <1>4, <1>5, <1>6, <1>7, <1>8 DEF Adds
<1> QED BY <1>9

LEMMA AddsByCall ==
  ASSUME NEW c, Callable(c), Live, version \in Nat, sendBufferOffset \in Nat,
         state = "TLSShutdown" => sendBufferOffset = Total, NEW r \in Called(c)
  PROVE  \E f : Adds(c, r, f)
<1>1. CASE state = "TLSHandshake"
  BY <1>1, AddsByConnect DEF Called
<1>2. CASE state = "InitSending"
  BY <1>2, AddsByWrite DEF Called
<1>3. CASE state = "TLSShutdown"
  BY <1>3, AddsByShutdown DEF Called
<1>4. CASE state \in {"InitReceiving", "Receiving"}
  BY <1>4, AddsByRead DEF Called
<1> QED BY <1>1, <1>2, <1>3, <1>4 DEF Live, LiveStates

LEMMA CallsSSLWrites ==
  ASSUME HTTPSInv, SendInv, CallsSSL
  PROVE  SendInv'
<1> DEFINE c == tls[fd]
<1>1. /\ Live /\ Callable(c) /\ pc = "execute" /\ fd \in DOMAIN tls /\ c \in Connections
      /\ version \in Nat /\ sendBufferOffset \in Nat /\ c.progress \in {"Init", "Finished"}
  <2>1. Live /\ pc = "execute"
    BY DEF CallsSSL, Operating, Live, LiveStates
  <2> QED BY <2>1, LiveFacts DEF CallsSSL, Callable
<1>2. PICK r \in Called(c) :
         IF r.error = "want"
            THEN /\ tls' = [tls EXCEPT ![fd] = [r.ssl EXCEPT !.progress = "SendingInit"]]
                 /\ UNCHANGED <<pc, outcome, references>>
            ELSE /\ Handshaken(c, r.ssl)
                 /\ Returns(IF r.error = "none" THEN "Finished" ELSE "Aborted", r.length)
  BY DEF CallsSSL
<1>3. /\ r.error \in {"want", "none", "fatal"} /\ r.ssl \in Connections
      /\ r.ssl.progress = c.progress /\ r.ssl.connected = c.connected
      /\ r.ssl.phase \in {"hello", "up", "closing"}
  BY <1>1, <1>2, CallResult DEF Outcome
<1>4. UNCHANGED <<state, version, sendBufferOffset, wire, fd, request>>
  BY DEF CallsSSL, peer
<1>5. WriteInv(c) /\ wire \in Seq(Tokens)
  BY <1>1 DEF SendInv
<1>6. PICK f : Adds(c, r, f)
  BY <1>1, <1>2, <1>5, AddsByCall DEF WriteInv
<1>7. Flying(c) = 0 /\ Pipe(c, version, wire, Taken(c), 0, Produced(c))
  BY <1>1, <1>5 DEF Flying, WriteInv
<1> HIDE DEF c
<1>8. PICK e :
        /\ tls' = [tls EXCEPT ![fd] = e]
        /\ e.out = r.ssl.out /\ e.written = r.ssl.written /\ e.phase = r.ssl.phase
        /\ e.connected = c.connected /\ e.progress \in {"SendingInit", "Init", "Finished"}
  <2>1. CASE tls' = [tls EXCEPT ![fd] = [r.ssl EXCEPT !.progress = "SendingInit"]]
    <3> DEFINE e == [r.ssl EXCEPT !.progress = "SendingInit"]
    <3>1. e.out = r.ssl.out /\ e.written = r.ssl.written /\ e.phase = r.ssl.phase
          /\ e.connected = c.connected /\ e.progress = "SendingInit"
      BY <1>3 DEF Connections
    <3> QED BY <2>1, <3>1
  <2>2. CASE tls' = [tls EXCEPT ![fd] = [r.ssl EXCEPT !.session = fd]]
    <3> DEFINE e == [r.ssl EXCEPT !.session = fd]
    <3>1. e.out = r.ssl.out /\ e.written = r.ssl.written /\ e.phase = r.ssl.phase
          /\ e.connected = c.connected /\ e.progress = c.progress
      BY <1>3 DEF Connections
    <3> QED BY <1>1, <2>2, <3>1
  <2>3. CASE tls' = [tls EXCEPT ![fd] = r.ssl]
    BY <1>1, <1>3, <2>3
  <2> QED BY <1>2, <2>1, <2>2, <2>3 DEF Handshaken
<1>9. tls'[fd'] = e
  BY <1>1, <1>4, <1>8
<1>10. /\ f \in Seq(Tokens) /\ e.out = c.out \o f /\ c.out \in Seq(Tokens)
       /\ Lies(f, 0, Len(f), Hellos(c), version, Produced(c))
       /\ Produced(c) + Len(f) = ProducedBy(c, r)
       /\ Len(e.out) = Len(c.out) + Len(f) /\ Len(f) \in Nat /\ Len(c.out) \in Nat
       /\ Len(wire) \in Nat
  <2>1. /\ f \in Seq(Tokens) /\ e.out = c.out \o f /\ c.out \in Seq(Tokens)
        /\ Lies(f, 0, Len(f), Hellos(c), version, Produced(c))
        /\ Produced(c) + Len(f) = ProducedBy(c, r)
    BY <1>1, <1>6, <1>8 DEF Adds, Connections
  <2> QED BY <2>1, <1>5, ConcatFacts
<1>11. Produced(tls[fd])' = ProducedBy(c, r)
  <2>1. (state = "InitSending" /\ Ended("Finished"))' <=> (state = "InitSending" /\ r.error = "none")
    BY <1>1, <1>2, <1>4 DEF Ended, Returns
  <2>2. r.error = "none" => outcome'.length = r.length
    BY <1>2 DEF Returns
  <2>3. Hellos(tls[fd])' = Hellos(c)
    BY <1>8, <1>9 DEF Hellos
  <2> QED BY <1>3, <1>4, <1>8, <1>9, <2>1, <2>2, <2>3 DEF Produced, ProducedBy
<1>12. Lies(e.out, 0, Len(e.out), Hellos(c), version, Len(wire))
  <2>1. Lies(c.out, 0, Len(c.out), Hellos(c), version, Len(wire)) /\ Produced(c) = Len(wire) + Len(c.out)
    <3>1. Len(wire) + 0 = Len(wire)
      BY <1>10
    <3> QED BY <1>7, <3>1 DEF Pipe
  <2> QED BY <1>10, <2>1, LiesBehind
<1>13. Pipe(e, version, wire, Taken(tls[fd])', 0, ProducedBy(c, r))
  <2>1. Hellos(e) = Hellos(c) /\ Len(wire) + 0 + Len(e.out) = ProducedBy(c, r) /\ Len(wire) + 0 = Len(wire)
    BY <1>7, <1>8, <1>10 DEF Pipe, Hellos
  <2> QED BY <1>5, <1>7, <1>12, <2>1 DEF Pipe, Lies
<1>14. WriteInv(tls[fd])'
  <2>1. Flying(tls[fd])' = 0 /\ Hellos(tls[fd])' = Hellos(c)
    BY <1>8, <1>9 DEF Flying, Hellos
  <2>2. Pipe(tls[fd], version, wire, Taken(tls[fd]), Flying(tls[fd]), Produced(tls[fd]))'
    BY <1>4, <1>9, <1>11, <1>13, <2>1 DEF Pipe, Lies
  <2> QED BY <1>4, <1>5, <1>8, <1>9, <2>1, <2>2 DEF WriteInv
<1>15. Live' /\ state' # "Finished"
  BY <1>1, <1>4 DEF Live, LiveStates
<1> QED BY <1>4, <1>5, <1>14, <1>15 DEF SendInv

\* A step of the pump: what the connection d it leaves holds was produced before.
LEMMA PumpWrites ==
  ASSUME HTTPSInv, SendInv, Pumping(Pumps), UnchangedByProcess,
         NEW d, tls' = [tls EXCEPT ![fd] = d], Carries(tls[fd], d),
         ~ Ended("Finished")',
         d.progress = "Sending" =>
           /\ d.networkBioRead = Len(d.buffer) /\ d.socketWrite < d.networkBioRead
           /\ request'.at = d.socketWrite /\ request'.length = d.networkBioRead - d.socketWrite,
         d.progress # "Aborted" =>
           Pipe(d, version, wire, Taken(d)', Flying(d)', Produced(tls[fd]))
  PROVE  SendInv'
<1> DEFINE c == tls[fd]
<1>1. /\ Live /\ pc = "execute" /\ UNCHANGED <<state, version, sendBufferOffset, wire, fd>>
      /\ fd \in DOMAIN tls
  BY PumpFacts, LiveFacts DEF UnchangedByProcess, peer
<1>2. tls'[fd'] = d
  BY <1>1
<1>3. WriteInv(c) /\ wire \in Seq(Tokens)
  BY <1>1 DEF SendInv
<1>4. d.connected = c.connected /\ d.phase = c.phase /\ d.written = c.written
  BY DEF Carries
<1> HIDE DEF c
<1>5. Hellos(tls[fd])' = Hellos(c) /\ Hellos(d) = Hellos(c)
  BY <1>2, <1>4 DEF Hellos
<1>6. Produced(tls[fd])' = Produced(c)
  <2>1. ~ Ended("Finished")
    BY <1>1 DEF Ended
  <2> QED BY <1>1, <1>2, <1>4, <1>5, <2>1 DEF Produced
<1>7. Taken(tls[fd])' = Taken(d)' /\ Flying(tls[fd])' = Flying(d)'
  BY <1>2 DEF Taken, Flying
<1>8. d.progress # "Aborted" =>
        Pipe(tls[fd], version, wire, Taken(tls[fd]), Flying(tls[fd]), Produced(tls[fd]))'
  BY <1>1, <1>2, <1>5, <1>6, <1>7 DEF Pipe, Lies, c
<1>9. WriteInv(tls[fd])'
  <2>1. d.networkBioRead \in Nat /\ d.socketWrite \in Nat
    BY DEF Carries, Connections
  <2>2. d.progress = "Sending" => request'.length <= d.networkBioRead - d.socketWrite
    BY <2>1
  <2> QED BY <1>1, <1>2, <1>3, <1>5, <1>8, <2>2 DEF WriteInv
<1>10. Live' /\ state' # "Finished"
  BY <1>1 DEF Live, LiveStates
<1> QED BY <1>1, <1>3, <1>9, <1>10 DEF SendInv

\* The rest of the buffer is given to the kernel.
LEMMA StartWriteWrites ==
  ASSUME HTTPSInv, SendInv, Pumping({"SendingInit", "Sending"}), UnchangedByProcess,
         NEW d, Carries(tls[fd], d), StartWrite(d),
         d.networkBioRead = Len(d.buffer), d.socketWrite < d.networkBioRead,
         Pipe(d, version, wire, d.socketWrite, d.networkBioRead - d.socketWrite, Produced(tls[fd]))
  PROVE  SendInv'
<1>1. PICK e : e = [d EXCEPT !.progress = "Sending"]
  OBVIOUS
<1>2. d \in Connections
  BY DEF Carries
<1>3. /\ e \in Connections /\ e.progress = "Sending" /\ e.buffer = d.buffer /\ e.out = d.out
      /\ e.networkBioRead = d.networkBioRead /\ e.socketWrite = d.socketWrite
      /\ e.connected = d.connected /\ e.phase = d.phase /\ e.written = d.written
      /\ e.partial = d.partial
  BY <1>1, <1>2 DEF Connections, Statuses
<1>4. /\ tls' = [tls EXCEPT ![fd] = e] /\ pc' = "wait"
      /\ request'.at = d.socketWrite /\ request'.length = d.networkBioRead - d.socketWrite
  BY <1>1 DEF StartWrite, Submit
<1>5. Carries(tls[fd], e)
  BY <1>3 DEF Carries
<1>6. d.networkBioRead \in Nat /\ d.socketWrite \in Nat
  BY <1>2 DEF Connections
<1>7. Taken(e)' = d.socketWrite /\ Flying(e)' = d.networkBioRead - d.socketWrite
  <2>1. Taken(e)' = d.socketWrite
    BY <1>3, <1>4, <1>6 DEF Taken, HasRead
  <2> QED BY <1>3, <2>1 DEF Flying
<1>8. Pipe(e, version, wire, Taken(e)', Flying(e)', Produced(tls[fd]))
  BY <1>3, <1>7 DEF Pipe, Hellos
<1>9. ~ Ended("Finished")' /\ Pumping(Pumps)
  BY <1>4 DEF Ended, Pumping, Pumps
<1> QED BY <1>3, <1>4, <1>5, <1>8, <1>9, PumpWrites

\* Nothing of what was produced is in flight any more.
LEMMA SentWrites ==
  ASSUME HTTPSInv, SendInv, Pumping(Pumps), UnchangedByProcess,
         NEW d, tls' = [tls EXCEPT ![fd] = d], Carries(tls[fd], d), ~ Ended("Finished")',
         d.progress \in {"Finished", "Receiving"},
         Pipe(d, version, wire, 0, 0, Produced(tls[fd]))
  PROVE  SendInv'
<1>1. Flying(d)' = 0
  BY DEF Flying
<1>2. Pipe(d, version, wire, Taken(d)', Flying(d)', Produced(tls[fd]))
  BY <1>1 DEF Pipe, Lies
<1> QED BY <1>2, PumpWrites

LEMMA ToReceiveWrites ==
  ASSUME HTTPSInv, SendInv, Pumping(Pumps), UnchangedByProcess,
         NEW d, Carries(tls[fd], d), ToReceive(d),
         Pipe(d, version, wire, 0, 0, Produced(tls[fd]))
  PROVE  SendInv'
<1>1. d \in Connections
  BY DEF Carries
<1>2. PICK e : /\ tls' = [tls EXCEPT ![fd] = e] /\ e \in Connections /\ e.out = d.out
               /\ e.progress \in {"Finished", "Receiving"}
               /\ e.connected = d.connected /\ e.phase = d.phase /\ e.written = d.written
               /\ e.partial = d.partial
  <2>1. CASE d.want > 0
    <3> DEFINE e == [[d EXCEPT !.internalBioRead = d.want] EXCEPT !.progress = "Receiving"]
    <3>1. tls' = [tls EXCEPT ![fd] = e]
      BY <2>1 DEF ToReceive, StartRead
    <3>2. /\ e \in Connections /\ e.out = d.out /\ e.progress = "Receiving"
          /\ e.connected = d.connected /\ e.phase = d.phase /\ e.written = d.written
          /\ e.partial = d.partial
      BY <1>1 DEF Connections, Statuses
    <3> QED BY <3>1, <3>2
  <2>2. CASE ~ (d.want > 0)
    <3> DEFINE e == [d EXCEPT !.internalBioRead = 0, !.progress = "Finished"]
    <3>1. tls' = [tls EXCEPT ![fd] = e]
      BY <2>2 DEF ToReceive
    <3>2. /\ e \in Connections /\ e.out = d.out /\ e.progress = "Finished"
          /\ e.connected = d.connected /\ e.phase = d.phase /\ e.written = d.written
          /\ e.partial = d.partial
      BY <1>1 DEF Connections, Statuses
    <3> QED BY <3>1, <3>2
  <2> QED BY <2>1, <2>2
<1>3. Carries(tls[fd], e)
  BY <1>2 DEF Carries
<1>4. Pipe(e, version, wire, 0, 0, Produced(tls[fd]))
  BY <1>2 DEF Pipe, Hellos, Lies
<1>5. pc' # "return"
  BY DEF ToReceive, StartRead, Submit
<1> QED BY <1>2, <1>3, <1>4, <1>5, SentWrites DEF Ended

LEMMA AbortingWrites ==
  ASSUME HTTPSInv, SendInv, Pumping(Pumps), UnchangedByProcess, NEW code, Aborting(code)
  PROVE  SendInv'
<1>1. Live /\ tls[fd] \in Connections
  BY PumpFacts, LiveFacts
<1>2. PICK e : e = [tls[fd] EXCEPT !.progress = "Aborted"]
  OBVIOUS
<1>3. /\ e \in Connections /\ e.progress = "Aborted" /\ e.connected = tls[fd].connected
      /\ e.phase = tls[fd].phase /\ e.written = tls[fd].written /\ e.partial = tls[fd].partial
  BY <1>1, <1>2 DEF Connections, Statuses
<1>4. tls' = [tls EXCEPT ![fd] = e]
  BY <1>2 DEF Aborting
<1>5. Carries(tls[fd], e) /\ ~ Ended("Finished")'
  BY <1>3 DEF Carries, Ended, Aborting, Returns
<1> QED BY <1>3, <1>4, <1>5, PumpWrites

LEMMA ProcessSendingInitWrites ==
  ASSUME HTTPSInv, SendInv, ProcessSendingInit
  PROVE  SendInv'
<1> DEFINE c == tls[fd]
           n == Min({Len(c.out), ChunkSize})
<1>1. PICK d : d = [c EXCEPT !.networkBioRead = n, !.socketWrite = 0,
                             !.buffer = SubSeq(c.out, 1, n),
                             !.out = SubSeq(c.out, n + 1, Len(c.out))]
  OBVIOUS
<1>2. /\ Pumping({"SendingInit", "Sending"}) /\ Pumping(Pumps) /\ c.progress = "SendingInit"
      /\ UnchangedByProcess
      /\ IF n > 0 THEN StartWrite(d) ELSE ToReceive(c)
  BY <1>1 DEF ProcessSendingInit, Pumping, Pumps
<1>3. Live /\ c \in Connections /\ ConnInv(c) /\ WriteInv(c) /\ wire \in Seq(Tokens)
  BY <1>2, PumpFacts, LiveFacts DEF SendInv
<1>4. Len(c.out) <= ChunkSize /\ c.out \in Seq(Tokens) /\ Len(c.out) \in Nat /\ ChunkSize \in Nat
  <2>1. c.out \in Seq(Tokens) /\ OutInv(c)
    BY <1>3 DEF Connections, ConnInv
  <2> HIDE DEF c
  <2> QED BY <2>1, Constants DEF OutInv
<1>5. n = Len(c.out)
  BY <1>4, MinOfTwo
<1>6. Flying(c) = 0 /\ Pipe(c, version, wire, Taken(c), 0, Produced(c))
  BY <1>2, <1>3 DEF Flying, WriteInv
<1> HIDE DEF n
<1>7. CASE n > 0
  <2>1. SubSeq(c.out, 1, n) = c.out /\ SubSeq(c.out, n + 1, Len(c.out)) = <<>>
    BY <1>4, <1>5
  <2>2. d = [c EXCEPT !.networkBioRead = n, !.socketWrite = 0, !.buffer = c.out, !.out = <<>>]
    BY <1>1, <2>1
  <2>3. /\ d \in Connections /\ d.connected = c.connected /\ d.phase = c.phase
        /\ d.written = c.written /\ d.partial = c.partial /\ d.out = <<>>
        /\ d.buffer = c.out /\ d.networkBioRead = Len(c.out) /\ d.socketWrite = 0
    BY <1>3, <1>4, <1>5, <2>2, EmptySeq DEF Connections
  <2> HIDE DEF c
  <2>4. Carries(c, d) /\ d.networkBioRead - d.socketWrite = Len(c.out)
    BY <1>4, <2>3 DEF Carries
  <2>5. Pipe(d, version, wire, 0, Len(c.out), Produced(c))
    <3>1. Hellos(d) = Hellos(c)
      BY <2>3 DEF Hellos
    <3>2. /\ Len(wire) + 0 + Len(c.out) = Produced(c) /\ Lies(wire, 0, Len(wire), Hellos(c), version, 0)
          /\ Lies(c.out, 0, Len(c.out), Hellos(c), version, Len(wire) + 0)
      BY <1>6 DEF Pipe
    <3>3. Len(wire) \in Nat /\ Len(<<>>) = 0
      BY <1>3, EmptySeq
    <3>4. Len(wire) + Len(c.out) + 0 = Produced(c) /\ Len(wire) + 0 = Len(wire)
      BY <1>4, <3>2, <3>3
    <3>5. Lies(<<>>, 0, 0, Hellos(c), version, Len(wire) + Len(c.out))
      BY DEF Lies
    <3>6. Lies(c.out, 0, Len(c.out), Hellos(c), version, Len(wire))
      BY <3>2, <3>4
    <3> QED BY <2>3, <3>1, <3>2, <3>3, <3>4, <3>5, <3>6 DEF Pipe
  <2>6. StartWrite(d) /\ d.socketWrite < d.networkBioRead
    BY <1>2, <1>5, <1>7, <2>3
  <2> QED BY <1>2, <2>3, <2>4, <2>5, <2>6, StartWriteWrites DEF c
<1>8. CASE ~ (n > 0)
  <2>1. Pipe(c, version, wire, 0, 0, Produced(c))
    BY <1>6 DEF Pipe, Lies
  <2>2. Carries(c, c)
    BY <1>3 DEF Carries
  <2> QED BY <1>2, <1>8, <2>1, <2>2, ToReceiveWrites
<1> QED BY <1>7, <1>8

LEMMA ProcessSendingWrites ==
  ASSUME HTTPSInv, SendInv, ProcessSending
  PROVE  SendInv'
<1> DEFINE c == tls[fd]
           n == request.length
<1>1. PICK d : d = [c EXCEPT !.socketWrite = IF n > 0 THEN c.socketWrite + n ELSE c.socketWrite]
  OBVIOUS
<1>2. /\ Pumping({"SendingInit", "Sending"}) /\ Pumping(Pumps) /\ c.progress = "Sending"
      /\ UnchangedByProcess
      /\ \/ Aborting("Timeout")
         \/ d.networkBioRead # d.socketWrite /\ StartWrite(d)
         \/ d.networkBioRead = d.socketWrite /\ ToReceive(d)
  BY <1>1 DEF ProcessSending, Pumping, Pumps
<1>3. Live /\ c \in Connections /\ WriteInv(c) /\ pc = "execute" /\ request \in Requests
  BY <1>2, PumpFacts, LiveFacts DEF SendInv
<1>4. c.networkBioRead \in Nat /\ c.socketWrite \in Nat /\ n \in Int
  BY <1>3 DEF Connections, Requests
<1>5. d = [c EXCEPT !.socketWrite = Taken(c)] /\ Taken(c) \in Nat
  BY <1>1, <1>3, <1>4 DEF Taken, HasRead
<1>6. /\ d \in Connections /\ d.connected = c.connected /\ d.phase = c.phase
      /\ d.written = c.written /\ d.partial = c.partial /\ d.out = c.out
      /\ d.buffer = c.buffer /\ d.networkBioRead = c.networkBioRead /\ d.socketWrite = Taken(c)
  BY <1>3, <1>5 DEF Connections
<1> HIDE DEF c
<1>7. Carries(c, d)
  BY <1>6 DEF Carries
<1>8. /\ c.networkBioRead = Len(c.buffer) /\ c.socketWrite < c.networkBioRead
      /\ n <= c.networkBioRead - c.socketWrite
      /\ Flying(c) = c.networkBioRead - Taken(c)
      /\ Pipe(c, version, wire, Taken(c), Flying(c), Produced(c))
  BY <1>2, <1>3 DEF WriteInv, Flying
<1>9. Taken(c) <= c.networkBioRead
  BY <1>3, <1>4, <1>8 DEF Taken, HasRead
<1>10. CASE d.networkBioRead # d.socketWrite /\ StartWrite(d)
  <2>1. d.socketWrite < d.networkBioRead /\ d.networkBioRead = Len(d.buffer)
    BY <1>4, <1>5, <1>6, <1>8, <1>9, <1>10
  <2>2. Pipe(d, version, wire, d.socketWrite, d.networkBioRead - d.socketWrite, Produced(c))
    BY <1>6, <1>8 DEF Pipe, Hellos
  <2> QED BY <1>2, <1>7, <1>10, <2>1, <2>2, StartWriteWrites DEF c
<1>11. CASE d.networkBioRead = d.socketWrite /\ ToReceive(d)
  <2>1. Flying(c) = 0
    BY <1>4, <1>5, <1>6, <1>8, <1>11
  <2>2. Pipe(c, version, wire, 0, 0, Produced(c))
    BY <1>8, <2>1 DEF Pipe, Lies
  <2>3. Pipe(d, version, wire, 0, 0, Produced(c))
    BY <1>6, <2>2 DEF Pipe, Hellos, Lies
  <2> QED BY <1>2, <1>7, <1>11, <2>3, ToReceiveWrites DEF c
<1>12. CASE Aborting("Timeout")
  BY <1>2, <1>12, AbortingWrites
<1> QED BY <1>2, <1>10, <1>11, <1>12

LEMMA ProcessReceivingWrites ==
  ASSUME HTTPSInv, SendInv, ProcessReceiving
  PROVE  SendInv'
<1> DEFINE c == tls[fd]
           n == request.length
<1>1. /\ Pumping(Pumps) /\ c.progress = "Receiving" /\ UnchangedByProcess
  BY DEF ProcessReceiving, Pumping, Pumps
<1>2. /\ Live /\ c \in Connections /\ WriteInv(c) /\ pc = "execute" /\ request \in Requests
      /\ c.want \in Nat /\ n \in Int /\ n <= c.want
  <2>1. /\ Live /\ c \in Connections /\ pc = "execute" /\ request \in Requests
        /\ n \in Failed .. c.want
    BY <1>1, PumpFacts, LiveFacts
  <2> QED BY <2>1 DEF SendInv, Connections, Failed
<1>3. Pipe(c, version, wire, 0, 0, Produced(c))
  <2>1. Flying(c) = 0
    BY <1>1 DEF Flying
  <2>2. Pipe(c, version, wire, Taken(c), 0, Produced(c))
    BY <1>1, <1>2, <2>1 DEF WriteInv
  <2> HIDE DEF c
  <2> QED BY <2>2 DEF Pipe, Lies
<1>4. CASE \E code : Aborting(code)
  BY <1>1, <1>4, AbortingWrites
<1>5. CASE StartRead(c)
  <2>1. PICK e : e = [c EXCEPT !.progress = "Receiving"]
    OBVIOUS
  <2>2. tls' = [tls EXCEPT ![fd] = e] /\ pc' = "wait"
    BY <1>5, <2>1 DEF StartRead, Submit
  <2>3. /\ e \in Connections /\ e.out = c.out /\ e.progress = "Receiving"
        /\ e.connected = c.connected /\ e.phase = c.phase /\ e.written = c.written
        /\ e.partial = c.partial
    BY <1>2, <2>1 DEF Connections, Statuses
  <2>4. Carries(c, e) /\ Pipe(e, version, wire, 0, 0, Produced(c)) /\ ~ Ended("Finished")'
    BY <1>3, <2>2, <2>3 DEF Carries, Pipe, Hellos, Lies, Ended
  <2> QED BY <1>1, <2>2, <2>3, <2>4, SentWrites
<1>6. CASE /\ tls' = [tls EXCEPT ![fd].progress = "Finished",
                                 ![fd].in = @ \o SubSeq(tls[fd].buffer, 1, n)]
           /\ pc' = pc
  <2>1. PICK e : e = [c EXCEPT !.progress = "Finished", !.in = c.in \o SubSeq(c.buffer, 1, n)]
    OBVIOUS
  <2>2. tls' = [tls EXCEPT ![fd] = e]
    BY <1>2, <1>6, <2>1, LiveFacts DEF Connections
  <2>3. /\ e.out = c.out /\ e.progress = "Finished"
        /\ e.connected = c.connected /\ e.phase = c.phase /\ e.written = c.written
        /\ e.partial = c.partial
    BY <1>2, <2>1 DEF Connections
  <2>4. e \in Connections
    BY <2>2, <1>2, ProcessReceivingStep, LiveFacts DEF HTTPSInv, Types, UnchangedByProcess
  <2>5. Carries(c, e) /\ Pipe(e, version, wire, 0, 0, Produced(c)) /\ ~ Ended("Finished")'
    BY <1>2, <1>3, <1>6, <2>3, <2>4 DEF Carries, Pipe, Hellos, Lies, Ended
  <2> QED BY <1>1, <2>2, <2>3, <2>5, SentWrites
<1> QED BY <1>1, <1>4, <1>5, <1>6 DEF ProcessReceiving

LEMMA Cut ==
  ASSUME NEW s \in Seq(Tokens), NEW i \in Nat, NEW n \in Nat \ {0}, i + n <= Len(s)
  PROVE  /\ SubSeq(s, i + 1, i + n) \in Seq(Tokens) /\ Len(SubSeq(s, i + 1, i + n)) = n
         /\ \A k \in 1 .. n : SubSeq(s, i + 1, i + n)[k] = s[i + k]
<1> DEFINE t == SubSeq(s, i + 1, i + n)
<1>1. t \in Seq(Tokens) /\ Len(t) = (i + n) - (i + 1) + 1
      /\ \A k \in 1 .. (i + n) - (i + 1) + 1 : t[k] = s[(i + 1) + k - 1]
  <2>1. \A j \in i + 1 .. i + n : s[j] \in Tokens
    OBVIOUS
  <2>2. i + 1 \in Int /\ i + n \in Int /\ i + 1 <= i + n /\ t = SubSeq(s, i + 1, i + n)
    OBVIOUS
  <2> HIDE DEF t
  <2> QED BY ONLY <2>1, <2>2, SubSeqProperties
<1> HIDE DEF t
<1>2. (i + n) - (i + 1) + 1 = n /\ \A k \in 1 .. n : (i + 1) + k - 1 = i + k
  OBVIOUS
<1> QED BY <1>1, <1>2 DEF t

\* OpenSSL never writes more than the handshake, the request and the closing.
LEMMA ProducedBounded ==
  ASSUME HTTPSInv, Live, ~ Ended("Finished")
  PROVE  Produced(tls[fd]) <= Hellos(tls[fd]) + Total + 1
<1> DEFINE c == tls[fd]
<1>1. c \in Connections /\ WrittenInv(c) /\ sendBufferOffset \in 0 .. Total
  BY LiveFacts DEF ConnInv
<1>2. c.written \in Nat
  BY <1>1 DEF Connections
<1>3. Hellos(c) \in {0, 2} /\ Total \in Nat \ {0} /\ sendBufferOffset \in Nat
  BY <1>1, Constants DEF Hellos
<1>4. sendBufferOffset + c.written <= Total
  <2>1. CASE state = "InitSending"
    <3>1. sendBufferOffset < Total /\ c.written <= Source(sendBufferOffset).length
      BY <1>1, <2>1 DEF WrittenInv
    <3>2. Source(sendBufferOffset).length \in Nat
          /\ sendBufferOffset + Source(sendBufferOffset).length <= Total
      BY <1>3, <3>1, SourceFacts
    <3> QED BY <1>2, <1>3, <3>1, <3>2
  <2>2. CASE state # "InitSending"
    BY <1>1, <1>3, <2>2 DEF WrittenInv
  <2> QED BY <2>1, <2>2
<1> HIDE DEF c
<1>5. Produced(c) \in {0, 1, Hellos(c) + sendBufferOffset + c.written + 0, Hellos(c) + Total + 1}
  BY DEF Produced
<1> QED BY <1>2, <1>3, <1>4, <1>5 DEF c

\* The kernel takes the next n tokens of the buffer.
LEMMA WireGrows ==
  ASSUME NEW c, NEW w \in Seq(Tokens), NEW v, NEW taken \in Nat, NEW flying \in Nat, NEW produced \in Nat,
         c.buffer \in Seq(Tokens), taken + flying <= Len(c.buffer), Len(c.out) \in Nat,
         Pipe(c, v, w, taken, flying, produced), NEW n \in 1 .. flying
  PROVE  /\ w \o SubSeq(c.buffer, taken + 1, taken + n) \in Seq(Tokens)
         /\ Len(w \o SubSeq(c.buffer, taken + 1, taken + n)) = Len(w) + n
         /\ Pipe(c, v, w \o SubSeq(c.buffer, taken + 1, taken + n), taken + n, flying - n, produced)
<1> DEFINE s == SubSeq(c.buffer, taken + 1, taken + n)
           x == w \o s
           h == Hellos(c)
<1>1. s \in Seq(Tokens) /\ Len(s) = n /\ \A k \in 1 .. n : s[k] = c.buffer[taken + k]
  <2>1. n \in Nat \ {0} /\ taken + n <= Len(c.buffer)
    OBVIOUS
  <2> QED BY <2>1, Cut
<1> HIDE DEF s
<1>2. x \in Seq(Tokens) /\ Len(x) = Len(w) + n /\ Len(w) \in Nat
  <2>1. w \in Seq(Tokens) /\ s \in Seq(Tokens)
    BY <1>1
  <2>2. w \o s \in Seq(Tokens) /\ Len(w \o s) = Len(w) + Len(s)
    BY ONLY <2>1, ConcatFacts
  <2> QED BY <1>1, <2>2
<1> HIDE DEF h
<1>3. /\ Len(w) + flying + Len(c.out) = produced
      /\ Lies(w, 0, Len(w), h, v, 0)
      /\ \A k \in 1 .. flying : c.buffer[taken + k] = Due(h, v, Len(w) + k)
      /\ Lies(c.out, 0, Len(c.out), h, v, Len(w) + flying)
  BY DEF Pipe, Lies, h
<1>4. Lies(s, 0, Len(s), h, v, 0 + Len(w))
  <2>1. ASSUME NEW k \in 1 .. n PROVE s[0 + k] = Due(h, v, (0 + Len(w)) + k)
    <3>1. k \in 1 .. flying /\ 0 + k = k /\ 0 + Len(w) = Len(w)
      BY <1>2
    <3> QED BY <1>1, <1>3, <3>1
  <2> QED BY <1>1, <2>1 DEF Lies
<1>5. Lies(x, 0, Len(x), h, v, 0)
  BY <1>1, <1>3, <1>4, LiesBehind
<1> HIDE DEF x
<1>6. Lies(c.buffer, taken + n, flying - n, h, v, Len(x))
  <2>1. ASSUME NEW k \in 1 .. flying - n
        PROVE  c.buffer[(taken + n) + k] = Due(h, v, Len(x) + k)
    <3>1. n + k \in 1 .. flying /\ (taken + n) + k = taken + (n + k)
          /\ Len(x) + k = Len(w) + (n + k)
      BY <1>2
    <3> QED BY <1>3, <3>1
  <2> QED BY <2>1 DEF Lies
<1>7. /\ Len(x) + (flying - n) + Len(c.out) = produced
      /\ Len(x) + (flying - n) = Len(w) + flying
  <2>1. Len(w) + flying + Len(c.out) = produced /\ Len(x) = Len(w) + n /\ Len(w) \in Nat
    BY ONLY <1>2, <1>3
  <2>3. Len(x) \in Nat
    BY ONLY <2>1, n \in 1 .. flying
  <2> DEFINE a == Len(w)
             d == Len(c.out)
             e == Len(x)
  <2>4. a \in Nat /\ d \in Nat /\ e \in Nat /\ a + flying + d = produced /\ e = a + n
    BY <2>1, <2>3
  <2> HIDE DEF a, d, e
  <2>5. e + (flying - n) + d = produced /\ e + (flying - n) = a + flying
    BY <2>4
  <2> QED BY <2>5 DEF a, d, e
<1>8. Pipe(c, v, x, taken + n, flying - n, produced)
  BY <1>3, <1>5, <1>6, <1>7 DEF Pipe, h
<1> QED BY <1>2, <1>8 DEF x, s

\* The kernel leaves the connection's object but for the buffer.
LEMMA KernelWrites ==
  ASSUME HTTPSInv, SendInv, NEW event, NEW n \in Int, TLSCompletes(event, n),
         NEW d, tls' = [tls EXCEPT ![fd] = d], d.out = tls[fd].out,
         Carries(tls[fd], d), d.progress = tls[fd].progress,
         NEW w \in Seq(Tokens), wire' = w, Len(w) >= Len(wire),
         d.progress = "Sending" =>
           /\ d.buffer = tls[fd].buffer /\ d.networkBioRead = tls[fd].networkBioRead
           /\ d.socketWrite = tls[fd].socketWrite
           /\ n <= d.networkBioRead - d.socketWrite,
         Pipe(d, version, w, Taken(d)', Flying(d)', Produced(tls[fd]))
  PROVE  SendInv'
<1> DEFINE c == tls[fd]
<1>1. pc = "wait" /\ pc' = "execute" /\ UNCHANGED <<state, version, sendBufferOffset, fd, outcome>>
  BY DEF TLSCompletes, task
<1>2. Live /\ fd \in DOMAIN tls
  BY <1>1, WaitFacts, LiveFacts
<1>3. WriteInv(c) /\ c \in Connections
  BY <1>2, LiveFacts DEF SendInv
<1>4. request'.length = n
  <2>1. request \in Requests /\ request' = [request EXCEPT !.length = n]
    BY <1>2, LiveFacts DEF TLSCompletes
  <2> QED BY <2>1 DEF Requests
<1>5. tls'[fd'] = d
  BY <1>1, <1>2
<1>6. d.connected = c.connected /\ d.phase = c.phase /\ d.written = c.written
  BY DEF Carries
<1>7. ~ Ended("Finished") /\ ~ Ended("Finished")'
  BY <1>1 DEF Ended
<1>8. Produced(c) <= Hellos(c) + Total + 1
  BY <1>2, <1>7, ProducedBounded
<1>9. Hellos(c) \in {0, 2} /\ Total \in Nat /\ Len(w) \in Nat /\ Len(wire) \in Nat /\ Len(d.out) \in Nat
  <2>1. d.out \in Seq(Tokens) /\ wire \in Seq(Tokens)
    BY DEF Carries, Connections, SendInv
  <2> QED BY <2>1, Constants DEF Hellos
<1> HIDE DEF c
<1>10. /\ Hellos(tls[fd])' = Hellos(c) /\ Hellos(d) = Hellos(c)
       /\ Produced(tls[fd])' = Produced(c)
       /\ Taken(tls[fd])' = Taken(d)' /\ Flying(tls[fd])' = Flying(d)'
  BY <1>1, <1>5, <1>6, <1>7 DEF Hellos, Produced, Taken, Flying
<1>11. Pipe(tls[fd], version, wire, Taken(tls[fd]), Flying(tls[fd]), Produced(tls[fd]))'
  BY <1>1, <1>5, <1>10 DEF Pipe, Lies, c
<1>12. /\ Lies(w, 0, Len(w), Hellos(c), version, 0)
       /\ Len(w) <= Hellos(c) + Total + 1
  <2>1. Lies(w, 0, Len(w), Hellos(c), version, 0) /\ Len(w) + Flying(d)' + Len(d.out) = Produced(c)
    BY <1>10 DEF Pipe, c
  <2>2. Flying(d)' \in Nat
    <3>1. CASE d.progress = "Sending"
      <4>1. d.networkBioRead \in Nat /\ d.socketWrite \in Nat
        BY DEF Carries, Connections
      <4>2. Taken(d)' = d.socketWrite + (IF n > 0 THEN n ELSE 0)
        BY <1>1, <1>4 DEF Taken, HasRead
      <4>3. d.socketWrite < d.networkBioRead
        BY <1>3, <3>1 DEF WriteInv, c
      <4>4. Flying(d)' = d.networkBioRead - Taken(d)'
        BY <3>1 DEF Flying
      <4> QED BY <3>1, <4>1, <4>2, <4>3, <4>4
    <3>2. CASE d.progress # "Sending"
      BY <3>2 DEF Flying
    <3> QED BY <3>1, <3>2
  <2>3. Len(w) <= Produced(c)
    BY <1>9, <2>1, <2>2
  <2>4. Produced(c) \in Int
    BY <1>9, <2>1, <2>2
  <2> QED BY <1>8, <1>9, <2>1, <2>3, <2>4 DEF c
<1>13. WriteInv(tls[fd])'
  <2>1. d.progress = "Sending" =>
          /\ d.networkBioRead = Len(d.buffer) /\ d.socketWrite < d.networkBioRead
          /\ request'.length <= d.networkBioRead - d.socketWrite
    BY <1>3, <1>4 DEF WriteInv, c
  <2>2. /\ state \in {"InitReceiving", "Receiving", "TLSShutdown"} => sendBufferOffset = Total
        /\ state = "TLSShutdown" => Len(w) >= Hellos(c) + Total
    BY <1>3, <1>9 DEF WriteInv
  <2>3. tls[fd]' = d
    BY <1>5
  <2> QED BY <1>1, <1>5, <1>10, <1>11, <1>12, <2>1, <2>2, <2>3 DEF WriteInv
<1>14. Live' /\ state' # "Finished"
  BY <1>1, <1>2 DEF Live, LiveStates
<1> QED BY <1>1, <1>13, <1>14 DEF SendInv

LEMMA TLSWritesWrites ==
  ASSUME HTTPSInv, SendInv, TLSWrites
  PROVE  SendInv'
<1> DEFINE c == tls[fd]
<1>1. PICK n \in 1 .. request.length :
        /\ TLSCompletes("write", n)
        /\ wire' = wire \o SubSeq(c.buffer, request.at + 1, request.at + n)
  BY DEF TLSWrites
<1>2. pc = "wait" /\ pc' = "execute" /\ request.event = "write" /\ tls' = tls
      /\ request' = [request EXCEPT !.length = n]
  BY <1>1 DEF TLSCompletes, TLSWrites
<1>3. Live /\ c.progress = "Sending"
  BY <1>2, WaitFacts
<1>4. fd \in DOMAIN tls /\ c \in Connections /\ WriteInv(c) /\ request \in Requests
      /\ tls \in [DOMAIN tls -> Connections] /\ wire \in Seq(Tokens)
  BY <1>3, LiveFacts DEF SendInv, HTTPSInv, Types
<1>5. PICK d : d = c
  OBVIOUS
<1>6. tls' = [tls EXCEPT ![fd] = d]
  BY <1>2, <1>4, <1>5
<1> HIDE DEF c
<1>7. /\ d.buffer \in Seq(Tokens) /\ Len(d.out) \in Nat /\ d.networkBioRead = Len(d.buffer)
      /\ d.networkBioRead \in Nat /\ d.socketWrite \in Nat /\ d.socketWrite < d.networkBioRead
      /\ request.at = d.socketWrite /\ request.length = d.networkBioRead - d.socketWrite
  <2>1. d.out \in Seq(Tokens) /\ d.buffer \in Seq(Tokens) /\ d.networkBioRead \in Nat
        /\ d.socketWrite \in Nat
    BY <1>4, <1>5 DEF Connections
  <2> QED BY <1>2, <1>3, <1>4, <1>5, <2>1 DEF WriteInv
<1>8. Taken(c) = d.socketWrite /\ Flying(c) = d.networkBioRead - d.socketWrite
  <2>1. Taken(c) = d.socketWrite
    BY <1>2, <1>5, <1>7 DEF Taken, HasRead
  <2> QED BY <1>3, <1>5, <2>1 DEF Flying
<1> DEFINE left == d.networkBioRead - d.socketWrite
           w == wire \o SubSeq(d.buffer, d.socketWrite + 1, d.socketWrite + n)
<1>9. left \in Nat /\ n \in 1 .. left /\ n \in Nat /\ d.socketWrite + left <= Len(d.buffer)
  BY <1>7
<1>10. Pipe(d, version, wire, d.socketWrite, left, Produced(c))
  BY <1>3, <1>4, <1>5, <1>8 DEF WriteInv
<1>11. Produced(c) \in Nat
  <2>1. Len(wire) + left + Len(d.out) = Produced(c) /\ Len(wire) \in Nat
    BY <1>4, <1>10 DEF Pipe
  <2> QED BY <1>7, <1>9, <2>1
<1> HIDE DEF left
<1>12. /\ w \in Seq(Tokens) /\ Len(w) = Len(wire) + n
       /\ Pipe(d, version, w, d.socketWrite + n, left - n, Produced(c))
  <2>1. PICK i : i = d.socketWrite
    OBVIOUS
  <2>2. /\ wire \in Seq(Tokens) /\ i \in Nat /\ left \in Nat /\ Produced(c) \in Nat
        /\ d.buffer \in Seq(Tokens) /\ i + left <= Len(d.buffer) /\ Len(d.out) \in Nat
        /\ Pipe(d, version, wire, i, left, Produced(c)) /\ n \in 1 .. left
    BY <2>1, <1>4, <1>7, <1>9, <1>10, <1>11
  <2>3. /\ wire \o SubSeq(d.buffer, i + 1, i + n) \in Seq(Tokens)
        /\ Len(wire \o SubSeq(d.buffer, i + 1, i + n)) = Len(wire) + n
        /\ Pipe(d, version, wire \o SubSeq(d.buffer, i + 1, i + n), i + n, left - n, Produced(c))
    BY ONLY <2>2, WireGrows
  <2> QED BY <2>1, <2>3
<1>13. wire' = w
  BY <1>1, <1>5, <1>7
<1>14. Taken(d)' = d.socketWrite + n /\ Flying(d)' = left - n
  <2>1. request'.length = n
    BY <1>2, <1>4 DEF Requests
  <2>2. Taken(d)' = d.socketWrite + n
    BY <1>2, <1>9, <2>1 DEF Taken, HasRead
  <2> QED BY <1>3, <1>5, <1>7, <1>9, <2>2 DEF Flying, left
<1>15. Carries(c, d)
  BY <1>4, <1>5 DEF Carries
<1> HIDE DEF w
<1>16. Len(w) >= Len(wire)
  BY <1>4, <1>9, <1>12
<1>17. n \in Int /\ n <= left
  BY <1>9
<1>18. Pipe(d, version, w, Taken(d)', Flying(d)', Produced(c))
  BY <1>12, <1>14
<1> QED BY <1>1, <1>5, <1>6, <1>12, <1>13, <1>15, <1>16, <1>17, <1>18, KernelWrites DEF c, left

\* What is not a write that is taken leaves the wire.
LEMMA WireStays ==
  ASSUME HTTPSInv, SendInv, NEW event, NEW n \in Int, TLSCompletes(event, n), wire' = wire,
         NEW d, tls' = [tls EXCEPT ![fd] = d], d.out = tls[fd].out,
         Carries(tls[fd], d), d.progress = tls[fd].progress,
         d.progress = "Sending" => d = tls[fd] /\ n <= 0
  PROVE  SendInv'
<1> DEFINE c == tls[fd]
<1>1. pc = "wait" /\ pc' = "execute" /\ request' = [request EXCEPT !.length = n]
  BY DEF TLSCompletes
<1>2. Live /\ c.progress \in {"Sending", "Receiving"}
  BY <1>1, WaitFacts
<1>3. WriteInv(c) /\ c \in Connections /\ request \in Requests /\ wire \in Seq(Tokens)
  BY <1>2, LiveFacts DEF SendInv
<1> HIDE DEF c
<1>4. request'.length = n
  BY <1>1, <1>3 DEF Requests
<1>5. Pipe(c, version, wire, Taken(c), Flying(c), Produced(c)) /\ Len(wire) \in Nat
  BY <1>2, <1>3 DEF WriteInv
<1>6. CASE d.progress = "Sending"
  <2>1. d = c /\ n <= 0 /\ c.networkBioRead \in Nat /\ c.socketWrite \in Nat
    BY <1>3, <1>6 DEF c, Connections
  <2>2. Taken(c) = c.socketWrite /\ Taken(d)' = c.socketWrite
    BY <1>1, <1>4, <2>1 DEF Taken, HasRead
  <2>3. Flying(d)' = Flying(c)
    BY <2>1, <2>2 DEF Flying
  <2>4. Pipe(d, version, wire, Taken(d)', Flying(d)', Produced(c))
    BY <1>5, <2>1, <2>2, <2>3
  <2>5. c.socketWrite < c.networkBioRead
    BY <1>3, <1>6, <2>1 DEF WriteInv
  <2>6. n <= d.networkBioRead - d.socketWrite /\ Len(wire) >= Len(wire)
    BY <1>5, <2>1, <2>5
  <2> QED BY <1>3, <2>1, <2>4, <2>6, KernelWrites DEF c
<1>7. CASE d.progress # "Sending"
  <2>1. Flying(c) = 0 /\ Flying(d)' = 0
    BY <1>7 DEF Flying, c
  <2>2. d.connected = c.connected /\ d.out = c.out
    BY DEF Carries, c
  <2>3. Pipe(d, version, wire, Taken(d)', Flying(d)', Produced(c))
    BY <1>5, <2>1, <2>2 DEF Pipe, Lies, Hellos
  <2>4. Len(wire) >= Len(wire)
    BY <1>5
  <2> QED BY <1>3, <1>7, <2>3, <2>4, KernelWrites DEF c
<1> QED BY <1>6, <1>7

LEMMA KernelLeavesWire ==
  ASSUME HTTPSInv, SendInv, TLSFails \/ TLSNotReady \/ TLSReads
  PROVE  SendInv'
<1> DEFINE c == tls[fd]
<1>1. CASE TLSFails \/ TLSNotReady
  <2>1. tls' = tls /\ wire' = wire
    BY <1>1 DEF TLSFails, TLSNotReady, peer
  <2>2. PICK event \in {"read", "write"}, n \in {0, Again, Cancelled, Failed} :
          TLSCompletes(event, n)
    BY <1>1 DEF TLSFails, TLSNotReady
  <2>3. n \in Int /\ n <= 0 /\ pc = "wait"
    BY <2>2 DEF Again, Cancelled, Failed, TLSCompletes
  <2>4. fd \in DOMAIN tls /\ c \in Connections /\ tls \in [DOMAIN tls -> Connections]
    BY <2>3, WaitFacts, LiveFacts DEF HTTPSInv, Types
  <2>5. PICK d : d = c
    OBVIOUS
  <2>6. tls' = [tls EXCEPT ![fd] = d] /\ Carries(c, d)
    BY <2>1, <2>4, <2>5 DEF Carries
  <2> QED BY <2>1, <2>2, <2>3, <2>5, <2>6, WireStays
<1>2. CASE TLSReads
  <2>0. PICK n \in 1 .. request.length :
          TLSCompletes("read", n) /\ \E s : tls' = [tls EXCEPT ![fd].buffer = s]
    BY <1>2 DEF TLSReads
  <2>1. PICK s : TLSCompletes("read", n) /\ tls' = [tls EXCEPT ![fd].buffer = s]
    BY <2>0
  <2>2. wire' = wire /\ pc = "wait" /\ request.event = "read" /\ HTTPSInv'
    BY <1>2, <2>1, TLSReadsStep DEF TLSReads, TLSCompletes
  <2>3. Live /\ c.progress = "Receiving"
    BY <2>2, WaitFacts
  <2>4. fd \in DOMAIN tls /\ c \in Connections /\ request \in Requests
    BY <2>3, LiveFacts
  <2>5. PICK d : d = [c EXCEPT !.buffer = s]
    OBVIOUS
  <2>6. tls' = [tls EXCEPT ![fd] = d]
    BY <2>1, <2>5
  <2>7. /\ d.out = c.out /\ d.progress = c.progress /\ d.connected = c.connected
        /\ d.phase = c.phase /\ d.written = c.written /\ d.partial = c.partial
    BY <2>4, <2>5 DEF Connections
  <2>8. d \in Connections
    BY <2>2, <2>4, <2>6 DEF HTTPSInv, Types
  <2>9. n \in Int
    BY <2>1, <2>4 DEF Requests
  <2>10. Carries(c, d)
    BY <2>7, <2>8 DEF Carries
  <2> QED BY <2>1, <2>2, <2>3, <2>6, <2>7, <2>9, <2>10, WireStays
<1> QED BY <1>1, <1>2

\* The machine is not in a live state, and the wire stays.
LEMMA RestWrites ==
  ASSUME HTTPSInv, SendInv, ~ Live', state' # "Finished" \/ state' = state, wire' = wire
  PROVE  SendInv'
BY DEF SendInv, Arrived

LEMMA ResetWrites ==
  ASSUME HTTPSInv, SendInv, NEW aborted, NEW v, NEW offset, NEW codes,
         Restart(aborted, v, offset, codes), wire' = wire
  PROVE  SendInv'
<1>1. state' \in {"Init", "Aborted"}
  BY DEF Restart
<1>2. ~ Live' /\ state' # "Finished"
  BY <1>1 DEF Live, LiveStates
<1> QED BY <1>2, RestWrites

LEMMA SendStep ==
  ASSUME HTTPSInv, SendInv, HTTPSNext
  PROVE  SendInv'
<1>1. CASE OpenNew \/ OpenKept
  BY <1>1, OpensWrites
<1>2. CASE OpenFails \/ HandshakeFails \/ TransferFails \/ ReceiveThrows \/ ReceiveRefused
  BY <1>2, ResetWrites DEF OpenFails, HandshakeFails, TransferFails, ReceiveThrows,
     ReceiveRefused, CountedReset, HTTPSReset, peer
<1>3. CASE InitFails
  BY <1>3, ResetWrites DEF InitFails, peer
<1>4. CASE TLSOperation
  BY <1>4, CallsSSLWrites, ReturnWrites, ProcessSendingInitWrites, ProcessSendingWrites,
     ProcessReceivingWrites DEF TLSOperation
<1>5. CASE TLSKernel
  BY <1>5, TLSWritesWrites, KernelLeavesWire DEF TLSKernel
<1>6. CASE HandshakeEnds \/ SendEnds \/ ReceiveContinues \/ ShutdownAgain \/ ShutdownCaches
  BY <1>6, ReturnWrites
<1>7. CASE ReceiveEnds \/ ShutdownEnds
  BY <1>7, ReceiveEndsWrites, ShutdownEndsWrites
<1>8. CASE HTTPSAborts
  <2>1. state = "Aborted" /\ state' = state /\ wire' = wire
    BY <1>8 DEF HTTPSAborts, Aborts, Executing, task, peer
  <2> QED BY <2>1, RestWrites DEF Live, LiveStates
<1>9. CASE NextMessage
  <2>1. state' = "Init" /\ wire' = wire
    BY <1>9 DEF NextMessage, peer
  <2> QED BY <2>1, RestWrites DEF Live, LiveStates
<1> QED BY <1>1, <1>2, <1>3, <1>4, <1>5, <1>6, <1>7, <1>8, <1>9 DEF HTTPSNext, HTTPSExecute

LEMMA SendStutter ==
  ASSUME SendInv, UNCHANGED httpsVars
  PROVE  SendInv'
<1>1. UNCHANGED <<state, pc, outcome, fd, tls, wire, version, sendBufferOffset, request>>
  BY DEF httpsVars, vars, task, peer, tlsVars
<1>2. tls[fd]' = tls[fd] /\ Live' = Live
  BY <1>1 DEF Live
<1>3. WriteInv(tls[fd]) => WriteInv(tls[fd])'
  BY <1>1, <1>2 DEF WriteInv, Pipe, Lies, Taken, Flying, Produced, HasRead, Hellos, Ended
<1> QED BY <1>1, <1>2, <1>3 DEF SendInv, Arrived

\* What the invariant says of the sending.
SentInOrder ==
  /\ fd \in DOMAIN tls /\ fd \in held =>
       /\ IsPrefix(wire, Expected)
       /\ pc = "wait" /\ request.event = "write" =>
            request.at + request.length <= Len(tls[fd].buffer)
  /\ state \in {"TLSShutdown", "Finished"} => Cardinality(Arrived) = Total

LEMMA SentSound ==
  ASSUME HTTPSInv, SendInv
  PROVE  SentInOrder
<1> DEFINE c == tls[fd]
<1>1. wire \in Seq(Tokens) /\ Len(wire) \in Nat
  BY DEF SendInv
<1>2. ASSUME fd \in DOMAIN tls, fd \in held
      PROVE  Live
  BY <1>2 DEF HTTPSInv, Attached
<1>3. ASSUME Live
      PROVE  IsPrefix(wire, Expected)
  <2>1. WriteInv(c) /\ version \in Nat /\ c.connected \in BOOLEAN
    BY <1>3, LiveFacts DEF SendInv, Connections
  <2>2. /\ Len(Expected) = Hellos(c) + Total + 1 /\ Expected \in Seq(Tokens)
        /\ \A k \in 1 .. Len(Expected) : Expected[k] = Due(Hellos(c), version, k)
    BY <2>1, ExpectedFacts
  <2> HIDE DEF c
  <2>3. Len(wire) <= Len(Expected) /\ \A k \in 1 .. Len(wire) : wire[k] = Due(Hellos(c), version, k)
    BY <2>1, <2>2, <1>1 DEF WriteInv, Lies
  <2>4. \A k \in 1 .. Len(wire) : wire[k] = Expected[k]
    BY <2>2, <2>3, <1>1
  <2> DEFINE e == Expected
  <2>5. e \in Seq(Tokens) /\ Len(wire) <= Len(e) /\ \A k \in 1 .. Len(wire) : wire[k] = e[k]
    BY <2>2, <2>3, <2>4
  <2> HIDE DEF e
  <2>6. SubSeq(wire, 1, Len(wire)) = SubSeq(e, 1, Len(wire))
    BY <2>5, <1>1
  <2> QED BY <2>5, <2>6 DEF IsPrefix, e
<1>4. ASSUME Live, pc = "wait", request.event = "write"
      PROVE  request.at + request.length <= Len(c.buffer)
  <2>1. c.progress = "Sending"
    BY <1>4, WaitFacts
  <2>2. WriteInv(c) /\ c.networkBioRead \in Nat /\ c.socketWrite \in Nat
    BY <1>4, LiveFacts DEF SendInv, Connections
  <2> HIDE DEF c
  <2> QED BY <1>4, <2>1, <2>2 DEF WriteInv
<1>5. ASSUME state = "TLSShutdown"
      PROVE  Cardinality(Arrived) = Total
  <2>1. Live
    BY <1>5 DEF Live, LiveStates
  <2>2. WriteInv(c)
    BY <2>1 DEF SendInv
  <2> HIDE DEF c
  <2>3. Hellos(c) \in {0, 2}
    BY DEF Hellos
  <2> QED BY <1>1, <1>5, <2>2, <2>3, ArrivedFacts DEF WriteInv
<1> QED BY <1>2, <1>3, <1>4, <1>5 DEF SentInOrder, SendInv

-----------------------------------------------------------------------------
(* What comes from the server. *)

Greets(c) == IF c.connected THEN 0 ELSE 1

\* The tokens s are those the server sends after the first m.
Comes(s, g, a, m) == \A k \in 1 .. Len(s) : s[k] = Sends(g, a, m + k)

\* What was delivered and OpenSSL has not given on.
Unread(c) == c.partial \o (IF c.progress = "Receiving" /\ HasRead THEN c.buffer ELSE c.in)

\* How much of the answer the vector has, and how many tokens OpenSSL has given on.
InReceiving == state \in {"InitReceiving", "Receiving"}
Got ==
  IF InReceiving
    THEN receiveBufferOffset + (IF Ended("Finished") THEN outcome.length ELSE 0)
    ELSE 0
HandedOn(c) == IF state = "TLSHandshake" /\ ~ Ended("Finished") THEN 0 ELSE Greets(c) + Got

Holds(n) == \A k \in 1 .. n : receive.cells[k] = Cell(fd, k, answer.symbols[k])

\* The answer is still read on the connection of the message.
Hearing == Live /\ state # "TLSShutdown" /\ ~ Ended("Aborted")

HearInv(c) ==
  /\ answered <= Greets(c) + Len(answer.symbols) + 1
  /\ answered = HandedOn(c) + Len(Unread(c))
  /\ Comes(Unread(c), Greets(c), answer, HandedOn(c))
  /\ Got <= Len(answer.symbols) /\ Holds(Got)
  /\ Informs
  /\ InReceiving /\ pc # "thrown" => receive.size = receiveBufferOffset + ChunkSize
  /\ InReceiving /\ Ended("Finished") => outcome.length \in 1 .. ChunkSize

AnswerInv ==
  /\ receive \in Vectors /\ receiveBufferOffset \in Nat /\ info \in Infos
  /\ state \in {"Init", "TLSHandshake", "InitSending", "InitReceiving"} => ~ info.known
  /\ Hearing => HearInv(tls[fd])
  /\ state \in {"TLSShutdown", "Finished"} =>
       answer # NoAnswer /\ receive.size = Len(answer.symbols) /\ Holds(receive.size)

\* A record is no longer than RecordSize.
LEMMA BlockBound ==
  ASSUME NEW a, Len(a.symbols) \in Nat, NEW k \in 1 .. Len(a.symbols)
  PROVE  DataTokens(a)[k].left < RecordSize
<1> DEFINE m == (k - 1) % RecordSize
           e == k + RecordSize - 1 - m
           n == Len(a.symbols)
<1>1. m \in 0 .. RecordSize - 1 /\ RecordSize \in Nat \ {0} /\ e \in Nat /\ n \in Nat
  BY Constants
<1>2. DataTokens(a)[k].left = Min({n, e}) - k
  BY DEF DataTokens
<1>3. Min({n, e}) <= e /\ Min({n, e}) \in Int
  BY <1>1, MinOfTwo
<1> HIDE DEF m, n
<1> QED BY <1>1, <1>2, <1>3

\* A record of the answer's has its next tokens, in their places.
LEMMA RecordComes ==
  ASSUME NEW a, Len(a.symbols) \in Nat, NEW g \in {0, 1}, NEW i \in Nat,
         NEW r \in Seq(Tokens), r # <<>>, Piece(r), Comes(r, g, a, g + i),
         g + i + Len(r) <= g + Len(a.symbols) + 1, Head(r).kind = "data"
  PROVE  /\ Len(r) \in 1 .. RecordSize /\ i + Len(r) <= Len(a.symbols)
         /\ \A k \in 1 .. Len(r) : r[k].at = i + k
<1> DEFINE n == Len(a.symbols)
           m == Len(r)
<1>1. n \in Nat /\ m \in Nat \ {0} /\ Head(r) = r[1] /\ RecordSize \in Nat \ {0}
  BY LastFacts, Constants
<1>2. \A k \in 1 .. m : r[k] = Sends(g, a, g + i + k)
  BY DEF Comes
<1>3. \A k \in 1 .. m - 1 : r[k].left # 0
  BY DEF Piece
<1> HIDE DEF m
<1>4. \A k \in 1 .. m : i + k <= n => r[k] = DataTokens(a)[i + k]
  <2> TAKE k \in 1 .. m
  <2>1. HAVE i + k <= n
  <2>2. ~ (g + i + k <= g) /\ g + i + k <= g + n /\ g + i + k - g = i + k
    BY <1>1, <2>1
  <2> QED BY <1>2, <2>2 DEF Sends
<1>5. i + 1 <= n
  <2> SUFFICES ASSUME ~ (i + 1 <= n) PROVE FALSE
    OBVIOUS
  <2>1. ~ (g + i + 1 <= g) /\ ~ (g + i + 1 <= g + n) /\ 1 \in 1 .. m
    BY <1>1
  <2>2. r[1] = Bye
    BY <1>2, <2>1 DEF Sends
  <2> QED BY <1>1, <2>2 DEF Bye
<1>6. i + m <= n
  <2> SUFFICES ASSUME ~ (i + m <= n) PROVE FALSE
    OBVIOUS
  <2>1. i + m = n + 1 /\ m - 1 \in 1 .. m - 1 /\ m - 1 \in 1 .. m /\ i + (m - 1) = n /\ n \in 1 .. n
    BY <1>1, <1>5 DEF m
  <2>2. r[m - 1] = DataTokens(a)[n]
    BY <1>4, <2>1
  <2>3. DataTokens(a)[n].left \in 0 .. n - n
    BY <2>1, LeftCounts
  <2> QED BY <1>1, <1>3, <2>1, <2>2, <2>3
<1>7. m <= RecordSize
  <2> SUFFICES ASSUME ~ (m <= RecordSize) PROVE FALSE
    OBVIOUS
  <2> DEFINE l == DataTokens(a)[i + 1].left
  <2>1. i + 1 \in 1 .. n
    BY <1>1, <1>5
  <2>2. l \in 0 .. n - (i + 1) /\ l < RecordSize
        /\ \A j \in 1 .. l : DataTokens(a)[i + 1 + j].left = l - j
    BY <2>1, LeftCounts, BlockBound
  <2>3. DataTokens(a)[i + (1 + l)].left = 0 /\ 1 + l \in 1 .. m - 1 /\ 1 + l \in 1 .. m
        /\ i + (1 + l) <= n
    <3> HIDE DEF l
    <3>1. l \in Nat /\ 1 + l \in 1 .. m - 1 /\ 1 + l \in 1 .. m /\ i + (1 + l) <= n
      BY <1>1, <2>1, <2>2
    <3>2. CASE l = 0
      BY <3>1, <3>2 DEF l
    <3>3. CASE l # 0
      <4>1. l \in 1 .. l /\ i + 1 + l = i + (1 + l) /\ l - l = 0
        BY <3>1, <3>3
      <4>2. DataTokens(a)[i + 1 + l].left = l - l
        BY <2>2, <4>1
      <4> QED BY <3>1, <4>1, <4>2
    <3> QED BY <3>2, <3>3, <3>1
  <2> HIDE DEF l
  <2> QED BY <1>3, <1>4, <2>3
<1>8. ASSUME NEW k \in 1 .. m
      PROVE  r[k].at = i + k
  <2>1. i + k <= n /\ i + k \in 1 .. n
    BY <1>1, <1>6
  <2>2. r[k] = DataTokens(a)[i + k]
    BY <1>4, <2>1
  <2> QED BY <2>1, <2>2 DEF DataTokens
<1> QED BY <1>1, <1>6, <1>7, <1>8 DEF m

\* What a connection and the pump have lies in one sequence.
LEMMA UnreadFacts ==
  ASSUME NEW c \in Connections
  PROVE  /\ Unread(c) \in Seq(Tokens) /\ Len(Unread(c)) \in Nat
         /\ c.progress # "Receiving" => Unread(c) = Joined(c)
         /\ c.in = <<>> /\ ~ (c.progress = "Receiving" /\ HasRead) => Unread(c) = c.partial
<1> DEFINE p == c.partial
           q == IF c.progress = "Receiving" /\ HasRead THEN c.buffer ELSE c.in
<1>1. p \in Seq(Tokens) /\ c.in \in Seq(Tokens) /\ c.buffer \in Seq(Tokens)
  BY DEF Connections
<1>2. q \in Seq(Tokens)
  BY <1>1
<1>3. Unread(c) = p \o q
  BY DEF Unread
<1>4. c.progress # "Receiving" => Unread(c) = Joined(c)
  BY DEF Unread, Joined
<1>5. ASSUME c.in = <<>> /\ ~ (c.progress = "Receiving" /\ HasRead)
      PROVE  Unread(c) = c.partial
  <2>1. Unread(c) = c.partial \o <<>>
    BY <1>5 DEF Unread
  <2> QED BY <1>1, <2>1, ConcatEmptySeq
<1> HIDE DEF p, q
<1>6. p \o q \in Seq(Tokens)
  BY ONLY <1>1, <1>2, ConcatFacts
<1>7. Unread(c) \in Seq(Tokens)
  BY <1>3, <1>6
<1>8. Len(Unread(c)) \in Nat
  BY <1>7
<1> QED BY <1>4, <1>5, <1>7, <1>8

Early == {"Init", "TLSHandshake", "InitSending", "InitReceiving"}

\* A step that leaves the answer, and what there is of it, where it is.
LEMMA HearPasses ==
  ASSUME AnswerInv, UNCHANGED <<fd, answer, answered, receive, receiveBufferOffset, info>>,
         Hearing' =>
           /\ Hearing
           /\ Greets(tls[fd])' = Greets(tls[fd]) /\ Unread(tls[fd])' = Unread(tls[fd])
           /\ HandedOn(tls[fd])' = HandedOn(tls[fd]) /\ Got' = Got
           /\ InReceiving' /\ pc' # "thrown" => InReceiving /\ pc # "thrown"
           /\ InReceiving' /\ Ended("Finished")' =>
                InReceiving /\ Ended("Finished") /\ outcome' = outcome,
         state' \in Early => state \in Early,
         state' \in {"TLSShutdown", "Finished"} => state \in {"TLSShutdown", "Finished"}
  PROVE  AnswerInv'
<1>1. receive' \in Vectors /\ receiveBufferOffset' \in Nat /\ info' \in Infos
      /\ (state' \in Early => ~ info'.known)
  BY DEF AnswerInv, Early
<1>2. state' \in {"TLSShutdown", "Finished"} =>
        answer' # NoAnswer /\ receive'.size = Len(answer'.symbols) /\ Holds(receive.size)'
  BY DEF AnswerInv, Holds
<1>3. Hearing' => HearInv(tls[fd])'
  <2> SUFFICES ASSUME Hearing' PROVE HearInv(tls[fd])'
    OBVIOUS
  <2>1. HearInv(tls[fd])
    BY DEF AnswerInv
  <2>2. Comes(Unread(tls[fd]), Greets(tls[fd]), answer, HandedOn(tls[fd]))'
    BY <2>1 DEF HearInv, Comes, Sends, DataTokens
  <2>3. Informs' /\ Holds(Got)'
    BY <2>1 DEF HearInv, Informs, Holds
  <2> QED BY <2>1, <2>2, <2>3 DEF HearInv
<1> QED BY <1>1, <1>2, <1>3 DEF AnswerInv, Early

\* A step of the pump, which leaves the connection as d.
LEMMA PumpHears ==
  ASSUME HTTPSInv, AnswerInv, Pumping(Pumps), UnchangedByProcess,
         NEW d, tls' = [tls EXCEPT ![fd] = d], Carries(tls[fd], d), pc' # "thrown",
         \/ Ended("Aborted")'
         \/ pc' # "return" /\ Unread(d)' = Unread(tls[fd])
  PROVE  AnswerInv'
<1> DEFINE c == tls[fd]
<1>1. /\ Live /\ pc = "execute" /\ fd \in DOMAIN tls
      /\ UNCHANGED <<state, fd, answer, answered, receive, receiveBufferOffset, info>>
  BY PumpFacts, LiveFacts DEF UnchangedByProcess, peer
<1>2. tls'[fd'] = d /\ d.connected = c.connected
  BY <1>1 DEF Carries
<1>3. ASSUME Hearing'
      PROVE  /\ Hearing
             /\ Greets(tls[fd])' = Greets(tls[fd]) /\ Unread(tls[fd])' = Unread(tls[fd])
             /\ HandedOn(tls[fd])' = HandedOn(tls[fd]) /\ Got' = Got
             /\ InReceiving' => InReceiving /\ pc # "thrown"
             /\ ~ Ended("Finished")'
  <2>1. pc' # "return" /\ Unread(d)' = Unread(c)
    BY <1>3 DEF Hearing
  <2>2. ~ Ended("Finished")' /\ ~ Ended("Finished") /\ ~ Ended("Aborted")
    BY <1>1, <2>1 DEF Ended
  <2>3. Hearing
    BY <1>1, <1>3, <2>2 DEF Hearing
  <2>4. Greets(tls[fd])' = Greets(tls[fd])
    BY <1>2 DEF Greets
  <2>5. Unread(tls[fd])' = Unread(tls[fd])
    BY <1>2, <2>1 DEF Unread, HasRead
  <2>6. Got' = Got /\ InReceiving' = InReceiving
    BY <1>1, <2>2 DEF Got, InReceiving
  <2>7. HandedOn(tls[fd])' = HandedOn(tls[fd])
    BY <1>1, <2>2, <2>4, <2>6 DEF HandedOn
  <2> QED BY <1>1, <2>2, <2>3, <2>4, <2>5, <2>6, <2>7
<1> QED BY <1>1, <1>3, HearPasses

\* Nothing has been read, and nothing has been delivered that OpenSSL has not taken.
LEMMA PumpSame ==
  ASSUME HTTPSInv, Pumping(Pumps), ~ (tls[fd].progress = "Receiving" /\ request.length > 0),
         NEW d, Carries(tls[fd], d), d.in = <<>>, pc' = "wait" \/ d.progress # "Receiving"
  PROVE  Unread(d)' = Unread(tls[fd])
<1>1. tls[fd] \in Connections /\ tls[fd].in = <<>> /\ d \in Connections
  BY PumpFacts, LiveFacts DEF Carries
<1>2. Unread(tls[fd]) = tls[fd].partial \o <<>>
  BY <1>1 DEF Unread, HasRead
<1>3. Unread(d)' = d.partial \o <<>>
  BY DEF Unread, HasRead
<1> QED BY <1>2, <1>3 DEF Carries

LEMMA StartWriteHears ==
  ASSUME HTTPSInv, AnswerInv, Pumping({"SendingInit", "Sending"}), UnchangedByProcess,
         NEW d, Carries(tls[fd], d), StartWrite(d), d.in = <<>>
  PROVE  AnswerInv'
<1>1. PICK e : e = [d EXCEPT !.progress = "Sending"]
  OBVIOUS
<1>2. d \in Connections
  BY DEF Carries
<1>3. /\ e \in Connections /\ e.progress = "Sending" /\ e.in = <<>>
      /\ e.connected = d.connected /\ e.phase = d.phase /\ e.written = d.written
      /\ e.partial = d.partial
  BY <1>1, <1>2 DEF Connections, Statuses
<1>4. tls' = [tls EXCEPT ![fd] = e] /\ pc' = "wait"
  BY <1>1 DEF StartWrite, Submit
<1>5. Carries(tls[fd], e) /\ Pumping(Pumps) /\ tls[fd].progress # "Receiving"
  BY <1>3 DEF Carries, Pumping, Pumps
<1>6. Unread(e)' = Unread(tls[fd])
  BY <1>3, <1>4, <1>5, PumpSame
<1> QED BY <1>4, <1>5, <1>6, PumpHears

LEMMA StartReadHears ==
  ASSUME HTTPSInv, AnswerInv, Pumping(Pumps), UnchangedByProcess,
         ~ (tls[fd].progress = "Receiving" /\ request.length > 0),
         NEW d, Carries(tls[fd], d), StartRead(d), d.in = <<>>
  PROVE  AnswerInv'
<1>1. PICK e : e = [d EXCEPT !.progress = "Receiving"]
  OBVIOUS
<1>2. d \in Connections
  BY DEF Carries
<1>3. /\ e \in Connections /\ e.progress = "Receiving" /\ e.in = <<>>
      /\ e.connected = d.connected /\ e.phase = d.phase /\ e.written = d.written
      /\ e.partial = d.partial
  BY <1>1, <1>2 DEF Connections, Statuses
<1>4. tls' = [tls EXCEPT ![fd] = e] /\ pc' = "wait"
  BY <1>1 DEF StartRead, Submit
<1>5. Carries(tls[fd], e)
  BY <1>3 DEF Carries
<1>6. Unread(e)' = Unread(tls[fd])
  BY <1>3, <1>4, <1>5, PumpSame
<1> QED BY <1>4, <1>5, <1>6, PumpHears

LEMMA ToReceiveHears ==
  ASSUME HTTPSInv, AnswerInv, Pumping({"SendingInit", "Sending"}), UnchangedByProcess,
         NEW d, Carries(tls[fd], d), ToReceive(d), d.in = <<>>
  PROVE  AnswerInv'
<1>1. d \in Connections /\ Pumping(Pumps) /\ tls[fd].progress # "Receiving"
  BY DEF Carries, Pumping, Pumps
<1>2. CASE d.want > 0
  <2>1. PICK e : e = [d EXCEPT !.internalBioRead = d.want]
    OBVIOUS
  <2>2. StartRead(e)
    BY <1>2, <2>1 DEF ToReceive
  <2>3. /\ e \in Connections /\ e.in = <<>>
        /\ e.connected = d.connected /\ e.phase = d.phase /\ e.written = d.written
        /\ e.partial = d.partial
    BY <1>1, <2>1 DEF Connections
  <2>4. Carries(tls[fd], e)
    BY <2>3 DEF Carries
  <2> QED BY <1>1, <2>2, <2>3, <2>4, StartReadHears
<1>3. CASE ~ (d.want > 0)
  <2>1. PICK e : e = [d EXCEPT !.internalBioRead = 0, !.progress = "Finished"]
    OBVIOUS
  <2>2. tls' = [tls EXCEPT ![fd] = e] /\ pc' \in {"stuck", "execute"}
    BY <1>3, <2>1 DEF ToReceive
  <2>3. /\ e \in Connections /\ e.in = <<>> /\ e.progress = "Finished"
        /\ e.connected = d.connected /\ e.phase = d.phase /\ e.written = d.written
        /\ e.partial = d.partial
    BY <1>1, <2>1 DEF Connections, Statuses
  <2>4. Carries(tls[fd], e)
    BY <2>3 DEF Carries
  <2>5. Unread(e)' = Unread(tls[fd])
    BY <1>1, <2>3, <2>4, PumpSame
  <2> QED BY <1>1, <2>2, <2>4, <2>5, PumpHears
<1> QED BY <1>2, <1>3

LEMMA AbortingHears ==
  ASSUME HTTPSInv, AnswerInv, Pumping(Pumps), UnchangedByProcess, NEW code, Aborting(code)
  PROVE  AnswerInv'
<1>1. Live /\ tls[fd] \in Connections
  BY PumpFacts, LiveFacts
<1>2. PICK e : e = [tls[fd] EXCEPT !.progress = "Aborted"]
  OBVIOUS
<1>3. /\ e \in Connections /\ e.connected = tls[fd].connected
      /\ e.phase = tls[fd].phase /\ e.written = tls[fd].written /\ e.partial = tls[fd].partial
  BY <1>1, <1>2 DEF Connections, Statuses
<1>4. tls' = [tls EXCEPT ![fd] = e] /\ pc' = "return"
  BY <1>2 DEF Aborting, Returns
<1>5. Carries(tls[fd], e) /\ Ended("Aborted")'
  BY <1>3 DEF Carries, Ended, Aborting, Returns
<1> QED BY <1>4, <1>5, PumpHears

LEMMA ProcessSendingInitHears ==
  ASSUME HTTPSInv, AnswerInv, ProcessSendingInit
  PROVE  AnswerInv'
<1> DEFINE c == tls[fd]
           n == Min({Len(c.out), ChunkSize})
<1>1. PICK d : d = [c EXCEPT !.networkBioRead = n, !.socketWrite = 0,
                             !.buffer = SubSeq(c.out, 1, n),
                             !.out = SubSeq(c.out, n + 1, Len(c.out))]
  OBVIOUS
<1>2. /\ Pumping({"SendingInit", "Sending"}) /\ Pumping(Pumps) /\ c.progress = "SendingInit"
      /\ UnchangedByProcess
      /\ IF n > 0 THEN StartWrite(d) ELSE ToReceive(c)
  BY <1>1 DEF ProcessSendingInit, Pumping, Pumps
<1>3. Live /\ c \in Connections /\ c.in = <<>> /\ ConnInv(c)
  BY <1>2, PumpFacts, LiveFacts
<1>4. Len(c.out) <= ChunkSize /\ c.out \in Seq(Tokens) /\ Len(c.out) \in Nat /\ ChunkSize \in Nat
  <2>1. c.out \in Seq(Tokens) /\ OutInv(c)
    BY <1>3 DEF Connections, ConnInv
  <2> HIDE DEF c
  <2> QED BY <2>1, Constants DEF OutInv
<1>5. n = Len(c.out)
  BY <1>4, MinOfTwo
<1> HIDE DEF n
<1>6. CASE n > 0
  <2>1. SubSeq(c.out, 1, n) = c.out /\ SubSeq(c.out, n + 1, Len(c.out)) = <<>>
    BY <1>4, <1>5
  <2>2. d = [c EXCEPT !.networkBioRead = n, !.socketWrite = 0, !.buffer = c.out, !.out = <<>>]
    BY <1>1, <2>1
  <2>3. /\ d \in Connections /\ d.connected = c.connected /\ d.phase = c.phase
        /\ d.written = c.written /\ d.partial = c.partial /\ d.in = c.in
    BY <1>3, <1>4, <1>5, <2>2, EmptySeq DEF Connections
  <2>4. Carries(c, d)
    BY <2>3 DEF Carries
  <2> QED BY <1>2, <1>3, <1>6, <2>3, <2>4, StartWriteHears
<1>7. CASE ~ (n > 0)
  <2>1. Carries(c, c)
    BY <1>3 DEF Carries
  <2> QED BY <1>2, <1>3, <1>7, <2>1, ToReceiveHears
<1> QED BY <1>6, <1>7

LEMMA ProcessSendingHears ==
  ASSUME HTTPSInv, AnswerInv, ProcessSending
  PROVE  AnswerInv'
<1> DEFINE c == tls[fd]
           n == request.length
<1>1. PICK d : d = [c EXCEPT !.socketWrite = IF n > 0 THEN c.socketWrite + n ELSE c.socketWrite]
  OBVIOUS
<1>2. /\ Pumping({"SendingInit", "Sending"}) /\ Pumping(Pumps)
      /\ UnchangedByProcess
      /\ Aborting("Timeout") \/ StartWrite(d) \/ ToReceive(d)
  BY <1>1 DEF ProcessSending, Pumping, Pumps
<1>3. Live /\ c \in Connections /\ c.in = <<>> /\ request \in Requests
  BY <1>2, PumpFacts, LiveFacts
<1>4. (IF n > 0 THEN c.socketWrite + n ELSE c.socketWrite) \in Nat
  <2>1. c.socketWrite \in Nat /\ n \in Int
    BY <1>3 DEF Connections, Requests
  <2> HIDE DEF c, n
  <2> QED BY <2>1
<1>5. /\ d \in Connections /\ d.connected = c.connected /\ d.phase = c.phase
      /\ d.written = c.written /\ d.partial = c.partial /\ d.in = <<>>
  BY <1>1, <1>3, <1>4 DEF Connections
<1>6. Carries(c, d)
  BY <1>5 DEF Carries
<1> QED BY <1>2, <1>5, <1>6, AbortingHears, StartWriteHears, ToReceiveHears

LEMMA ProcessReceivingHears ==
  ASSUME HTTPSInv, AnswerInv, ProcessReceiving
  PROVE  AnswerInv'
<1> DEFINE c == tls[fd]
           n == request.length
<1>1. /\ Pumping(Pumps) /\ c.progress = "Receiving" /\ UnchangedByProcess
  BY DEF ProcessReceiving, Pumping, Pumps
<1>2. /\ Live /\ c \in Connections /\ pc = "execute" /\ request \in Requests
      /\ c.in = <<>> /\ ConnInv(c) /\ n \in Int
  <2>1. Live /\ c \in Connections /\ pc = "execute" /\ request \in Requests /\ c.in = <<>> /\ ConnInv(c)
    BY <1>1, PumpFacts, LiveFacts
  <2> QED BY <2>1 DEF Requests
<1>3. CASE \E code : Aborting(code)
  BY <1>1, <1>3, AbortingHears
<1>4. CASE StartRead(c) /\ n = Again
  <2>1. Carries(c, c) /\ ~ (n > 0)
    BY <1>2, <1>4 DEF Carries, Again
  <2> QED BY <1>1, <1>2, <1>4, <2>1, StartReadHears
<1>5. CASE /\ tls' = [tls EXCEPT ![fd].progress = "Finished",
                                 ![fd].in = @ \o SubSeq(tls[fd].buffer, 1, n)]
           /\ pc' = pc /\ n \notin {0, Cancelled, Failed, Again}
  <2>1. PICK e : e = [c EXCEPT !.progress = "Finished", !.in = c.in \o SubSeq(c.buffer, 1, n)]
    OBVIOUS
  <2>2. tls' = [tls EXCEPT ![fd] = e]
    BY <1>2, <1>5, <2>1, LiveFacts DEF Connections
  <2>3. /\ e.in = c.in \o SubSeq(c.buffer, 1, n) /\ e.progress = "Finished"
        /\ e.connected = c.connected /\ e.phase = c.phase /\ e.written = c.written
        /\ e.partial = c.partial
    BY <1>2, <2>1 DEF Connections
  <2>4. e \in Connections
    BY <2>2, <1>2, ProcessReceivingStep, LiveFacts DEF HTTPSInv, Types, UnchangedByProcess
  <2>5. Carries(c, e)
    BY <2>3, <2>4 DEF Carries
  <2>6. n > 0
    <3>1. n \in Failed .. c.want
      BY <1>1, PumpFacts
    <3> QED BY <1>2, <1>5, <3>1 DEF Failed, Cancelled, Again
  <2>7. Len(c.buffer) = n /\ c.buffer \in Seq(Tokens)
    BY <1>1, <1>2, <2>6 DEF ConnInv, StreamInv, HasRead, Connections
  <2>8. e.in = c.buffer
    <3>1. SubSeq(c.buffer, 1, n) = c.buffer
      BY <2>7
    <3>2. e.in = <<>> \o c.buffer
      BY <1>2, <2>3, <3>1
    <3> QED BY <2>7, <3>2, ConcatEmptySeq
  <2>9. Unread(e)' = Unread(c)
    BY <1>1, <1>2, <2>3, <2>6, <2>8 DEF Unread, HasRead
  <2> QED BY <1>1, <1>2, <1>5, <2>2, <2>5, <2>9, PumpHears
<1>6. \/ \E code : Aborting(code)
      \/ StartRead(c) /\ n = Again
      \/ /\ tls' = [tls EXCEPT ![fd].progress = "Finished",
                               ![fd].in = @ \o SubSeq(tls[fd].buffer, 1, n)]
         /\ pc' = pc /\ n \notin {0, Cancelled, Failed, Again}
  BY DEF ProcessReceiving, TimedOut
<1> QED BY <1>3, <1>4, <1>5, <1>6

\* The answer is not read on, and what there is of it is not handed on.
LEMMA NotHearing ==
  ASSUME ~ Live', state' \notin {"TLSShutdown", "Finished"},
         receive' \in Vectors, receiveBufferOffset' \in Nat, info' \in Infos,
         state' = "Init" => ~ info'.known
  PROVE  AnswerInv'
BY DEF AnswerInv, Hearing, Live, LiveStates

LEMMA InfoFacts == NoInfo \in Infos /\ ~ NoInfo.known
BY MessageConstants DEF NoInfo, Infos, Codes, Encodings

LEMMA RestartHears ==
  ASSUME AnswerInv, NEW aborted, NEW v \in Vectors, NEW offset \in Nat, NEW codes,
         Restart(aborted, v, offset, codes)
  PROVE  AnswerInv'
<1>1. /\ state' \in {"Init", "Aborted"}
      /\ receive' \in {v, Clear(v)} /\ receiveBufferOffset' \in {offset, 0}
      /\ info' \in {info, NoInfo} /\ (state' = "Init" => info' = NoInfo)
  BY DEF Restart
<1>2. Clear(v) \in Vectors
  BY ClearFacts
<1>3. ~ Live' /\ state' \notin {"TLSShutdown", "Finished"}
  BY <1>1 DEF Live, LiveStates
<1>4. info \in Infos
  BY DEF AnswerInv
<1> QED BY <1>1, <1>2, <1>3, <1>4, InfoFacts, NotHearing

\* At the beginning of a connection nothing was delivered on it.
LEMMA OpensHears ==
  ASSUME HTTPSInv, AnswerInv, OpenNew \/ OpenKept
  PROVE  AnswerInv'
<1>1. /\ state = "Init" /\ state' = "TLSHandshake" /\ pc = "execute" /\ pc' = "execute"
      /\ receive' = receive /\ receiveBufferOffset' = receiveBufferOffset /\ info' = info
      /\ answer' = NoAnswer /\ answered' = 0
  BY DEF OpenNew, OpenKept, Opens, Executing
<1>2. PICK f, c : /\ fd' = f
                  /\ tls' = [g \in DOMAIN tls \cup {f} |-> IF g = f THEN c ELSE tls[g]]
                  /\ c.in = <<>> /\ c.partial = <<>> /\ c.progress # "Receiving"
  <2>1. CASE OpenNew
    <3>1. PICK address \in Addresses : Opens(connects + 1, NewTLS(address), kept)
      BY <2>1 DEF OpenNew
    <3>2. NewTLS(address).in = <<>> /\ NewTLS(address).partial = <<>>
          /\ NewTLS(address).progress # "Receiving"
      BY DEF NewTLS
    <3> QED BY <3>1, <3>2 DEF Opens
  <2>2. CASE OpenKept
    <3>1. PICK f \in kept : Opens(f, KeptTLS(tls[f]), kept \ {f})
      BY <2>2 DEF OpenKept
    <3>2. FreshTLS(tls[f]) /\ tls[f] \in Connections
      BY <1>1, <3>1 DEF HTTPSInv, Types, Attached, Live, LiveStates
    <3>3. KeptTLS(tls[f]).in = <<>> /\ KeptTLS(tls[f]).partial = <<>>
          /\ KeptTLS(tls[f]).progress # "Receiving"
      BY <3>2 DEF KeptTLS, FreshTLS, Connections
    <3> QED BY <3>1, <3>3 DEF Opens
  <2> QED BY <2>1, <2>2
<1>3. tls'[fd'] = c
  BY <1>2
<1>4. Unread(tls[fd])' = <<>>
  <2>1. Unread(tls[fd])' = <<>> \o <<>>
    BY <1>2, <1>3 DEF Unread
  <2> QED BY <2>1, EmptySeq, ConcatEmptySeq
<1>5. Got' = 0 /\ HandedOn(tls[fd])' = 0 /\ ~ InReceiving'
  BY <1>1 DEF Got, HandedOn, InReceiving, Ended
<1>6. receive' \in Vectors /\ receiveBufferOffset' \in Nat /\ info' \in Infos /\ ~ info'.known
  BY <1>1 DEF AnswerInv
<1>7. HearInv(tls[fd])'
  <2>1. Len(<<>>) = 0 /\ Len(NoAnswer.symbols) = 0 /\ Greets(tls[fd])' \in {0, 1}
    BY EmptySeq DEF NoAnswer, Greets
  <2>2. Comes(Unread(tls[fd]), Greets(tls[fd]), answer, HandedOn(tls[fd]))'
    BY <1>4, <2>1 DEF Comes
  <2>3. Informs' /\ Holds(Got)'
    BY <1>5, <1>6 DEF Informs, Holds
  <2> QED BY <1>1, <1>4, <1>5, <2>1, <2>2, <2>3 DEF HearInv
<1> QED BY <1>1, <1>6, <1>7 DEF AnswerInv

\* What follows an operation that did not receive.
LEMMA ReturnHears ==
  ASSUME HTTPSInv, AnswerInv,
         HandshakeEnds \/ ShutdownAgain \/ ShutdownCaches \/ ShutdownEnds \/ CallsNothing
  PROVE  AnswerInv'
<1> DEFINE c == tls[fd]
<1>1. UNCHANGED <<fd, answer, answered, receive, receiveBufferOffset, info>>
  BY DEF HandshakeEnds, ShutdownAgain, ShutdownCaches, ShutdownEnds, CallsNothing,
         UnchangedByReturn, peer, task
<1>2. CASE HandshakeEnds
  <2>1. pc = "return" /\ state = "TLSHandshake" /\ outcome.status # "Aborted" /\ tls' = tls
        /\ outcome' = outcome
    BY <1>2 DEF HandshakeEnds, UnchangedByReturn
  <2>2. Live /\ outcome.status = "Finished" /\ c.progress = "Finished"
    BY <2>1, ReturnFacts
  <2>3. state' = "InitSending" /\ pc' = "execute"
    BY <1>2, <2>2 DEF HandshakeEnds
  <2>4. Ended("Finished") /\ ~ Ended("Finished")' /\ ~ Ended("Aborted") /\ Hearing
    BY <2>1, <2>2, <2>3 DEF Ended, Hearing
  <2>5. Got = 0 /\ Got' = 0 /\ ~ InReceiving'
    BY <2>1, <2>3 DEF Got, InReceiving
  <2>6. Greets(c)' = Greets(c) /\ Unread(c)' = Unread(c)
    BY <1>1, <2>1, <2>2 DEF Greets, Unread
  <2>7. HandedOn(c)' = HandedOn(c)
    BY <2>1, <2>3, <2>4, <2>5, <2>6 DEF HandedOn
  <2> QED BY <1>1, <2>1, <2>3, <2>4, <2>5, <2>6, <2>7, HearPasses DEF Early
<1>3. CASE ShutdownAgain \/ ShutdownCaches \/ ShutdownEnds
  <2>1. /\ state = "TLSShutdown" /\ state' \in {"TLSShutdown", "Finished"}
    BY <1>3 DEF ShutdownAgain, ShutdownCaches, ShutdownEnds, Returned, task, HTTPSInv, Attached
  <2>2. ~ Hearing'
    BY <2>1 DEF Hearing, Live, LiveStates
  <2> QED BY <1>1, <2>1, <2>2, HearPasses DEF Early
<1>4. CASE CallsNothing
  <2>1. Live /\ pc = "execute" /\ state' = state /\ tls' = tls /\ pc' = "return"
        /\ outcome'.status = c.progress
    BY <1>4 DEF CallsNothing, Operating, Live, LiveStates, task, Returns
  <2>2. ConnInv(c)
    BY <2>1, LiveFacts
  <2>3. CASE state = "TLSShutdown"
    <3>1. ~ Hearing'
      BY <2>1, <2>3 DEF Hearing
    <3> QED BY <1>1, <2>1, <3>1, HearPasses
  <2>4. CASE state # "TLSShutdown"
    <3>1. state = "TLSHandshake" /\ c.connected
      BY <1>4, <2>1, <2>2, <2>4 DEF CallsNothing, ConnInv, PumpInv, Ended
    <3>2. c.progress = "Finished"
      BY <2>2, <3>1 DEF ConnInv, PhaseInv, FreshTLS
    <3>3. ~ Ended("Finished") /\ ~ Ended("Aborted") /\ Hearing /\ Ended("Finished")'
      BY <2>1, <2>4, <3>2 DEF Ended, Hearing
    <3>4. Got = 0 /\ Got' = 0 /\ ~ InReceiving'
      BY <2>1, <3>1 DEF Got, InReceiving
    <3>5. Greets(c)' = Greets(c) /\ Greets(c) = 0 /\ Unread(c)' = Unread(c)
      BY <1>1, <2>1, <3>1, <3>2 DEF Greets, Unread
    <3>6. HandedOn(c)' = HandedOn(c)
      BY <2>1, <3>1, <3>3, <3>4, <3>5 DEF HandedOn
    <3> QED BY <1>1, <2>1, <3>1, <3>3, <3>4, <3>5, <3>6, HearPasses DEF Early
  <2> QED BY <2>3, <2>4
<1> QED BY <1>2, <1>3, <1>4

\* A new message has an empty vector.
LEMMA NextMessageHears ==
  ASSUME NextMessage
  PROVE  AnswerInv'
<1>1. state' = "Init" /\ receive' = EmptyVector /\ receiveBufferOffset' = 0 /\ info' = NoInfo
  BY DEF NextMessage
<1>2. EmptyVector \in Vectors
  BY EmptySeq DEF EmptyVector, Vectors
<1>3. ~ Live' /\ state' \notin {"TLSShutdown", "Finished"}
  BY <1>1 DEF Live, LiveStates
<1> QED BY <1>1, <1>2, <1>3, InfoFacts, NotHearing

\* What the kernel does, unless it reads.
LEMMA KernelHears ==
  ASSUME HTTPSInv, AnswerInv, TLSWrites \/ TLSFails \/ TLSNotReady
  PROVE  AnswerInv'
<1> DEFINE c == tls[fd]
<1>1. PICK event \in {"read", "write"}, n \in Int :
        TLSCompletes(event, n) /\ (event = "read" => n <= 0)
  <2>1. CASE TLSWrites
    <3>1. pc = "wait" /\ \E n \in 1 .. request.length : TLSCompletes("write", n)
      BY <2>1 DEF TLSWrites
    <3> QED BY <3>1
  <2>2. CASE TLSFails \/ TLSNotReady
    <3>1. PICK event \in {"read", "write"}, n \in {0, Again, Cancelled, Failed} :
            TLSCompletes(event, n)
      BY <2>2 DEF TLSFails, TLSNotReady
    <3>2. n \in Int /\ n <= 0
      BY DEF Again, Cancelled, Failed
    <3> QED BY <3>1, <3>2
  <2> QED BY <2>1, <2>2
<1>2. /\ pc = "wait" /\ pc' = "execute" /\ request'.length = n /\ request.event = event
      /\ UNCHANGED <<state, fd, answer, answered, receive, receiveBufferOffset, info, tls, outcome>>
  <2>1. request \in Requests
    BY DEF HTTPSInv, Types
  <2>2. UNCHANGED <<answer, answered, tls>>
    BY DEF TLSWrites, TLSFails, TLSNotReady, peer
  <2> QED BY <1>1, <2>1, <2>2 DEF TLSCompletes, task, Requests
<1>3. c.in = <<>> /\ (c.progress = "Receiving" => n <= 0)
  BY <1>1, <1>2, WaitFacts
<1>4. Unread(c)' = Unread(c)
  <2>1. ~ (c.progress = "Receiving" /\ HasRead) /\ ~ (c.progress = "Receiving" /\ HasRead')
    BY <1>2, <1>3 DEF HasRead
  <2> QED BY <1>2, <2>1 DEF Unread
<1>5. ~ Ended("Finished") /\ ~ Ended("Finished")' /\ ~ Ended("Aborted") /\ Live' = Live
  BY <1>2 DEF Ended, Live
<1>6. Greets(c)' = Greets(c) /\ Got' = Got /\ InReceiving' = InReceiving /\ Hearing' = Hearing
  BY <1>2, <1>5 DEF Greets, Got, InReceiving, Hearing, Ended
<1>7. HandedOn(c)' = HandedOn(c)
  BY <1>2, <1>5, <1>6 DEF HandedOn
<1> QED BY <1>2, <1>4, <1>5, <1>6, <1>7, HearPasses

\* What is of another answer, but of the greeting only, is of any.
LEMMA ComesOn ==
  ASSUME NEW p \in Seq(Tokens), NEW b \in Seq(Tokens), NEW g \in Nat, NEW m \in Nat, NEW a, NEW e, NEW f,
         Comes(p, g, a, m), f = a \/ m + Len(p) <= g,
         \A j \in 1 .. Len(b) : b[j] = Sends(g, e, m + Len(p) + j),
         f = e \/ m + Len(p) + Len(b) <= g
  PROVE  Comes(p \o b, g, f, m)
<1> DEFINE u == p \o b
           s == Len(p)
           t == Len(b)
<1>1. s \in Nat /\ t \in Nat
  OBVIOUS
<1>2. Len(u) = s + t /\ \A k \in 1 .. s + t : u[k] = IF k <= s THEN p[k] ELSE b[k - s]
  BY ConcatFacts
<1> HIDE DEF u
<1>3. SUFFICES ASSUME NEW k \in 1 .. s + t PROVE u[k] = Sends(g, f, m + k)
  BY <1>2 DEF Comes, u
<1>4. CASE k <= s
  <2>1. k \in 1 .. s
    BY <1>1, <1>4
  <2>2. u[k] = Sends(g, a, m + k)
    BY <1>2, <1>4, <2>1 DEF Comes
  <2>3. f # a => m + k <= g
    BY <1>1, <2>1
  <2> HIDE DEF s
  <2> QED BY <2>2, <2>3 DEF Sends
<1>5. CASE ~ (k <= s)
  <2> DEFINE j == k - s
  <2>1. j \in 1 .. t /\ m + s + j = m + k
    BY <1>1, <1>5
  <2>2. u[k] = Sends(g, e, m + k)
    BY <1>2, <1>5, <2>1
  <2>3. f # e => m + k <= g
    BY <1>1, <2>1
  <2> HIDE DEF s, t, j
  <2> QED BY <2>2, <2>3 DEF Sends
<1> QED BY <1>4, <1>5

\* What the kernel reads is what the server sends next.
LEMMA TLSReadsHears ==
  ASSUME HTTPSInv, AnswerInv, TLSReads
  PROVE  AnswerInv'
<1> DEFINE c == tls[fd]
           g == Len(Greeting)
<1>1. PICK a \in Answers, n \in 1 .. request.length :
        /\ pc = "wait" /\ request.event = "read"
        /\ answered + n <= Len(Stream(a)) /\ MaySend(a, answered + n)
        /\ tls' = [tls EXCEPT ![fd].buffer = SubSeq(Stream(a), answered + 1, answered + n)]
        /\ answer' = IF answered + n > g THEN a ELSE answer
        /\ answered' = answered + n /\ pc' = "execute"
        /\ request' = [request EXCEPT !.length = n]
        /\ UNCHANGED <<task, fd, outcome>>
  BY DEF TLSReads, TLSCompletes
<1>2. /\ Live /\ c.progress = "Receiving" /\ c.in = <<>> /\ fd \in DOMAIN tls
      /\ c \in Connections /\ request \in Requests /\ answered \in Nat
      /\ answer \in Answers \cup {NoAnswer} /\ ConnInv(c)
  BY <1>1, WaitFacts, LiveFacts
<1>3. n \in Nat \ {0} /\ request'.length = n /\ g \in Nat /\ g = Greets(c)
      /\ UNCHANGED <<state, fd, receive, receiveBufferOffset, info, outcome>>
  <2>1. n \in Nat \ {0} /\ request'.length = n
    BY <1>1, <1>2 DEF Requests
  <2>2. g = Greets(c)
    BY EmptySeq DEF Greeting, Greets
  <2> QED BY <1>1, <2>1, <2>2 DEF task, Greets
<1>4. answered > g => answer # NoAnswer
  BY <1>2 DEF ConnInv, StreamInv
<1>5. \/ answer' = answer
      \/ answer = NoAnswer /\ answered <= g /\ answer' = a
  <2>1. answered + n > g /\ answer # NoAnswer => a = answer
    BY <1>1, <1>2, <1>3 DEF MaySend
  <2> QED BY <1>1, <1>2, <1>3, <1>4, <2>1
<1>6. PICK b : b = SubSeq(Stream(a), answered + 1, answered + n)
  OBVIOUS
<1>7. Len(a.symbols) \in Nat /\ Stream(a) \in Seq(Tokens) /\ Len(Stream(a)) = g + Len(a.symbols) + 1
      /\ \A i \in 1 .. Len(Stream(a)) : Stream(a)[i] = Sends(g, a, i)
  BY AnswerFacts, StreamFacts
<1>8. b \in Seq(Tokens) /\ Len(b) = n /\ \A j \in 1 .. n : b[j] = Sends(g, a, answered + j)
  <2> DEFINE s == Stream(a)
  <2>1. /\ SubSeq(s, answered + 1, answered + n) \in Seq(Tokens)
        /\ Len(SubSeq(s, answered + 1, answered + n)) = n
        /\ \A k \in 1 .. n : SubSeq(s, answered + 1, answered + n)[k] = s[answered + k]
    BY <1>1, <1>2, <1>3, <1>7, Cut
  <2>2. \A j \in 1 .. n : answered + j \in 1 .. Len(s)
    BY <1>1, <1>2, <1>3, <1>7
  <2> HIDE DEF s
  <2> QED BY <1>6, <1>7, <2>1, <2>2 DEF s
<1>9. PICK d : d = [c EXCEPT !.buffer = b]
  OBVIOUS
<1>10. /\ tls'[fd'] = d
       /\ d.partial = c.partial /\ d.progress = "Receiving" /\ d.connected = c.connected
       /\ d.buffer = b
  BY <1>1, <1>2, <1>3, <1>6, <1>9 DEF Connections
<1>11. Unread(c) = c.partial /\ Unread(tls[fd])' = c.partial \o b /\ c.partial \in Seq(Tokens)
  <2>1. HasRead' /\ ~ HasRead
    BY <1>1, <1>3 DEF HasRead
  <2>2. Unread(tls[fd])' = c.partial \o b
    BY <1>10, <2>1 DEF Unread
  <2>3. Unread(c) = c.partial
    BY <1>2, <2>1, UnreadFacts
  <2> QED BY <1>2, <2>2, <2>3 DEF Connections
<1>12. ~ Ended("Finished") /\ ~ Ended("Finished")' /\ ~ Ended("Aborted") /\ Live' = Live
  BY <1>1, <1>3 DEF Ended, Live
<1>13. Greets(tls[fd])' = g /\ Got' = Got /\ InReceiving' = InReceiving /\ Hearing' = Hearing
  BY <1>1, <1>3, <1>10, <1>12 DEF Greets, Got, InReceiving, Hearing, Ended
<1>14. HandedOn(tls[fd])' = HandedOn(c)
  BY <1>3, <1>12, <1>13 DEF HandedOn
<1>15. Got \in Nat /\ HandedOn(c) \in Nat
  <2>1. Got \in Nat
    BY <1>12 DEF Got, AnswerInv
  <2> QED BY <1>3, <2>1 DEF HandedOn
<1>16. ASSUME Hearing
       PROVE  HearInv(tls[fd])'
  <2> DEFINE p == c.partial
             m == HandedOn(c)
  <2>1. /\ answered = m + Len(p) /\ Comes(p, g, answer, m) /\ Got <= Len(answer.symbols)
        /\ Holds(Got) /\ Informs
        /\ InReceiving => receive.size = receiveBufferOffset + ChunkSize
    BY <1>1, <1>3, <1>11, <1>16 DEF AnswerInv, HearInv
  <2>2. Len(answer'.symbols) \in Nat
    BY <1>5, <1>7, <1>2, PresentAnswer
  <2>3. Len(p) \in Nat /\ Len(p \o b) = Len(p) + n
    <3>1. p \in Seq(Tokens) /\ b \in Seq(Tokens) /\ Len(b) = n
      BY <1>8, <1>11
    <3> HIDE DEF p
    <3>2. Len(p \o b) = Len(p) + Len(b)
      BY ONLY <3>1, ConcatFacts
    <3> QED BY <3>1, <3>2
  <2>4. answered' <= g + Len(answer'.symbols) + 1
    BY <1>1, <1>2, <1>3, <1>7, <2>2
  <2>5. answered' = m + Len(p \o b)
    BY <1>1, <1>3, <1>15, <2>1, <2>3
  <2>6. Comes(p \o b, g, answer', m)
    <3>1. answer' = answer \/ m + Len(p) <= g
      BY <1>5, <2>1
    <3>2. answer' = a \/ m + Len(p) + Len(b) <= g
      BY <1>1, <1>2, <1>3, <1>8, <2>1
    <3> HIDE DEF m, g, p
    <3>3. \A j \in 1 .. Len(b) : b[j] = Sends(g, a, m + Len(p) + j)
      BY <1>8, <2>1
    <3>4. p \in Seq(Tokens) /\ m \in Nat /\ g \in Nat /\ b \in Seq(Tokens)
      BY <1>3, <1>8, <1>11, <1>15 DEF p, m
    <3> QED BY <2>1, <3>1, <3>2, <3>3, <3>4, ComesOn
  <2>7. Got <= Len(answer'.symbols) /\ Holds(Got)'
    <3>1. CASE answer' = answer
      BY <1>3, <1>13, <2>1, <3>1 DEF Holds
    <3>2. CASE answer = NoAnswer
      <4>1. Got = 0
        BY <1>15, <2>1, <3>2, EmptySeq DEF NoAnswer
      <4> QED BY <1>13, <2>2, <4>1 DEF Holds
    <3> QED BY <1>5, <3>1, <3>2
  <2>8. Informs'
    BY <1>3, <1>5, <2>1 DEF Informs
  <2> HIDE DEF p, m
  <2> QED BY <1>1, <1>3, <1>11, <1>12, <1>13, <1>14, <2>1, <2>4, <2>5, <2>6, <2>7, <2>8 DEF HearInv, p, m
<1>17. state \in {"TLSShutdown", "Finished"} => answer' = answer
  BY <1>5 DEF AnswerInv
<1>18. state' \in {"TLSShutdown", "Finished"} =>
         answer' # NoAnswer /\ receive'.size = Len(answer'.symbols) /\ Holds(receive.size)'
  BY <1>3, <1>17 DEF AnswerInv, Holds
<1> QED BY <1>3, <1>13, <1>16, <1>18 DEF AnswerInv

\* What a call of OpenSSL takes of what was delivered: nothing, or a record as a whole.
Moves(c, r) ==
  /\ ~ (InReceiving /\ r.error = "none") => r.record = <<>>
  /\ state # "TLSShutdown" /\ r.error = "want" => r.ssl.partial = Joined(c)
  /\ state = "TLSHandshake" /\ r.error = "none" => Joined(c) # <<>>
  /\ InReceiving /\ r.error = "none" =>
       /\ r.record = Joined(c) /\ Joined(c) # <<>> /\ Head(Joined(c)).kind = "data"
       /\ r.length = Len(Joined(c))

LEMMA AbsorbedOr ==
  ASSUME NEW c, Callable(c)
  PROVE  /\ Joined(c) \in Seq(Tokens) /\ Piece(Joined(c))
         /\ \/ Absorb(c).record = <<>> /\ Absorb(c).ssl.partial = Joined(c)
            \/ Absorb(c).record = Joined(c) /\ Joined(c) # <<>>
<1>1. c \in Connections /\ StreamInv(c)
  BY DEF Callable, ConnInv
<1>2. Joined(c) \in Seq(Tokens) /\ Piece(Joined(c)) /\ (Waits(c) \/ Takes(c))
  BY <1>1, AbsorbFacts DEF StreamInv
<1>3. Waits(c) => Absorb(c).record = <<>> /\ Absorb(c).ssl.partial = Joined(c)
  <2> HAVE Waits(c)
  <2>1. PICK w : Absorb(c).ssl = [c EXCEPT !.partial = Joined(c), !.in = <<>>, !.want = w]
    BY DEF Waits
  <2> QED BY <1>1, <2>1 DEF Waits, Connections
<1> QED BY <1>2, <1>3 DEF Takes

LEMMA MovesByRead ==
  ASSUME NEW c, Callable(c), InReceiving, NEW r \in SSLRead(c)
  PROVE  Moves(c, r)
<1> DEFINE d == Absorb(c).ssl
           rec == Absorb(c).record
<1>1. \/ rec = <<>> /\ r = Result("want", 0, d)
      \/ rec # <<>> /\ Head(rec).kind = "data" /\ r = [Result("none", Len(rec), d) EXCEPT !.record = rec]
      \/ rec # <<>> /\ r = Result("fatal", 0, d)
  BY DEF SSLRead, Read
<1>2. state # "TLSHandshake"
  BY DEF InReceiving
<1>3. (rec = <<>> /\ d.partial = Joined(c)) \/ (rec = Joined(c) /\ Joined(c) # <<>>)
  BY AbsorbedOr
<1> HIDE DEF d, rec
<1>4. CASE rec = <<>>
  BY <1>1, <1>2, <1>3, <1>4 DEF Result, Moves
<1>5. CASE rec # <<>>
  BY <1>1, <1>2, <1>3, <1>5 DEF Result, Moves
<1> QED BY <1>4, <1>5

LEMMA MovesByConnect ==
  ASSUME NEW c, Callable(c), state = "TLSHandshake", NEW r \in SSLConnect(c)
  PROVE  Moves(c, r)
<1> DEFINE d == Absorb(c).ssl
           rec == Absorb(c).record
<1>1. c \in Connections /\ OutInv(c)
  BY DEF Callable, ConnInv
<1>2. CASE c.phase = "new"
  <2>1. PICK o : r = Result("want", 0, [c EXCEPT !.phase = "hello", !.out = o, !.want = 1])
    BY <1>2 DEF SSLConnect
  <2>2. r.error = "want" /\ r.record = <<>> /\ r.ssl.partial = c.partial
    BY <1>1, <2>1 DEF Result, Connections
  <2>3. Joined(c) = c.partial
    <3>1. c.partial = <<>> /\ c.in = <<>>
      BY <1>1, <1>2 DEF OutInv
    <3> QED BY <3>1, EmptySeq, ConcatEmptySeq DEF Joined
  <2> QED BY <2>2, <2>3 DEF Moves, InReceiving
<1>3. CASE c.phase # "new"
  <2>1. (rec = <<>> /\ d.partial = Joined(c)) \/ (rec = Joined(c) /\ Joined(c) # <<>>)
    BY AbsorbedOr
  <2>2. \/ rec = <<>> /\ r = Result("want", 0, d)
        \/ rec # <<>> /\ \E e : r = Result("none", 1, e)
        \/ rec # <<>> /\ r = Result("fatal", -1, d)
    BY <1>3 DEF SSLConnect, Read
  <2> HIDE DEF d, rec
  <2>3. r.record = <<>> /\ (r.error = "want" => r.ssl.partial = Joined(c))
        /\ (r.error = "none" => Joined(c) # <<>>)
    BY <2>1, <2>2 DEF Result
  <2> QED BY <2>3 DEF Moves, InReceiving
<1> QED BY <1>2, <1>3

LEMMA MovesByShutdown ==
  ASSUME NEW c, state = "TLSShutdown", NEW r \in SSLShutdown(c)
  PROVE  Moves(c, r)
<1>1. \E error, length, d : r = Result(error, length, d)
  BY DEF SSLShutdown, Read
<1>2. r.record = <<>>
  BY <1>1 DEF Result
<1> QED BY <1>2 DEF Moves, InReceiving

LEMMA MovesByWrite ==
  ASSUME NEW c, Callable(c), state = "InitSending", version \in Nat, sendBufferOffset \in Nat,
         NEW r \in SSLWrite(c, Source(sendBufferOffset))
  PROVE  Moves(c, r)
<1>1. PICK f : Wrote(c, Source(sendBufferOffset), r, f)
  BY WriteWrote
<1>2. c \in Connections
  BY DEF Callable
<1>3. r.record = <<>> /\ r.ssl.partial = c.partial
  <2>1. PICK o : o = c.out \o f
    OBVIOUS
  <2>2. PICK s : s = Source(sendBufferOffset)
    OBVIOUS
  <2>3. PICK d, e : /\ d = [c EXCEPT !.out = o, !.written = 0, !.want = 0]
                    /\ e = [c EXCEPT !.out = o, !.written = c.written + Len(f), !.want = 0]
    OBVIOUS
  <2>4. r = Result("none", s.length, d) \/ r = Result("want", 0, e)
    BY <1>1, <2>1, <2>2, <2>3 DEF Wrote
  <2>5. d.partial = c.partial /\ e.partial = c.partial
    BY <1>2, <2>3 DEF Connections
  <2> QED BY <2>4, <2>5 DEF Result
<1>5. Joined(c) = c.partial
  <2>1. c.partial = <<>> /\ c.in = <<>>
    BY DEF Callable, ConnInv, WrittenInv
  <2> QED BY <2>1, EmptySeq, ConcatEmptySeq DEF Joined
<1> QED BY <1>3, <1>5 DEF Moves, InReceiving

LEMMA MovesByCall ==
  ASSUME NEW c, Callable(c), Live, version \in Nat, sendBufferOffset \in Nat, NEW r \in Called(c)
  PROVE  Moves(c, r)
<1>1. CASE state = "TLSHandshake"
  BY <1>1, MovesByConnect DEF Called
<1>2. CASE state = "InitSending"
  BY <1>2, MovesByWrite DEF Called
<1>3. CASE state = "TLSShutdown"
  BY <1>3, MovesByShutdown DEF Called
<1>4. CASE InReceiving
  BY <1>4, MovesByRead DEF Called, InReceiving
<1> QED BY <1>1, <1>2, <1>3, <1>4 DEF Live, LiveStates, InReceiving

\* The record s is put behind what is received.
Puts(s) ==
  receive' =
    [receive EXCEPT !.cells =
       [k \in DOMAIN receive.cells |->
          IF k - receiveBufferOffset \in DOMAIN s
            THEN Cell(fd, s[k - receiveBufferOffset].at, answer.symbols[s[k - receiveBufferOffset].at])
            ELSE receive.cells[k]]]

LEMMA PutsNothing ==
  ASSUME receive \in Vectors, Puts(<<>>)
  PROVE  receive' = receive
<1>1. receive.cells \in Seq(Cells)
  BY DEF Vectors
<1>2. PICK c : c = receive.cells
  OBVIOUS
<1>3. DOMAIN <<>> = {}
  BY EmptySeq
<1>4. receive' = [receive EXCEPT !.cells = [k \in DOMAIN c |-> c[k]]]
  BY <1>2, <1>3 DEF Puts
<1>5. [k \in DOMAIN c |-> c[k]] = c
  BY <1>1, <1>2
<1> QED BY <1>2, <1>4, <1>5 DEF Vectors

\* A record of the answer's comes to lie in its place.
LEMMA PutsRecord ==
  ASSUME receive \in Vectors, receiveBufferOffset \in Nat, fd \in Nat,
         answer \in Answers, NEW s \in Seq(Tokens), Puts(s),
         receive.size = receiveBufferOffset + ChunkSize, Len(s) <= ChunkSize,
         receiveBufferOffset + Len(s) <= Len(answer.symbols),
         \A k \in 1 .. Len(s) : s[k].at = receiveBufferOffset + k,
         Holds(receiveBufferOffset)
  PROVE  /\ receive' \in Vectors /\ receive'.size = receive.size
         /\ \A k \in 1 .. receiveBufferOffset + Len(s) :
              receive'.cells[k] = Cell(fd, k, answer.symbols[k])
<1> DEFINE o == receiveBufferOffset
           n == Len(s)
<1>1. PICK c : c = receive.cells
  OBVIOUS
<1>2. /\ c \in Seq(Cells) /\ Len(c) = receive.capacity /\ receive.capacity \in Nat
      /\ receive.size <= receive.capacity /\ receive.size \in Nat
      /\ DOMAIN c = 1 .. Len(c) /\ n \in Nat /\ DOMAIN s = 1 .. n /\ ChunkSize \in Nat
      /\ o \in Nat
  BY <1>1, Constants DEF Vectors
<1>3. answer.symbols \in Seq(Symbols) /\ Len(answer.symbols) \in Nat
  BY AnswerFacts
<1> HIDE DEF o, n
<1>4. \A k \in 1 .. Len(c) : k - o \in 1 .. n =>
        s[k - o].at = k /\ k \in 1 .. Len(answer.symbols) /\ answer.symbols[k] \in Symbols
  <2> TAKE k \in 1 .. Len(c)
  <2>1. HAVE k - o \in 1 .. n
  <2>2. o + (k - o) = k /\ k <= o + n
    BY <1>2, <2>1
  <2>3. s[k - o].at = k
    BY <2>1, <2>2 DEF o, n
  <2>4. k \in 1 .. Len(answer.symbols)
    BY <1>2, <1>3, <2>2 DEF o, n
  <2> QED BY <1>3, <2>3, <2>4
<1>5. PICK e : e = [k \in 1 .. Len(c) |->
                      IF k - o \in 1 .. n THEN Cell(fd, k, answer.symbols[k]) ELSE c[k]]
  OBVIOUS
<1>6. receive' = [receive EXCEPT !.cells = e]
  <2>1. [k \in DOMAIN c |->
          IF k - o \in DOMAIN s THEN Cell(fd, s[k - o].at, answer.symbols[s[k - o].at]) ELSE c[k]] = e
    BY <1>2, <1>4, <1>5
  <2> QED BY <1>1, <2>1 DEF Puts, o
<1>7. e \in Seq(Cells) /\ Len(e) = Len(c)
  <2>1. \A k \in 1 .. Len(c) : e[k] \in Cells
    <3> TAKE k \in 1 .. Len(c)
    <3>1. CASE k - o \in 1 .. n
      BY <1>4, <1>5, <3>1 DEF Cell, Cells
    <3>2. CASE k - o \notin 1 .. n
      BY <1>2, <1>5, <3>2
    <3> QED BY <3>1, <3>2
  <2>2. Len(c) \in Nat /\ e \in [1 .. Len(c) -> Cells]
    BY <1>2, <1>5, <2>1
  <2> QED BY <2>2, FunctionSeq
<1>8. receive'.cells = e /\ receive'.size = receive.size /\ receive' \in Vectors
  BY <1>1, <1>2, <1>6, <1>7 DEF Vectors
<1>9. \A k \in 1 .. o + n : e[k] = Cell(fd, k, answer.symbols[k])
  <2> TAKE k \in 1 .. o + n
  <2>1. k \in 1 .. Len(c)
    BY <1>2 DEF o, n
  <2>2. CASE k <= o
    <3>1. k - o \notin 1 .. n /\ k \in 1 .. o
      BY <1>2, <2>2
    <3>2. c[k] = Cell(fd, k, answer.symbols[k])
      BY <1>1, <3>1 DEF Holds, o
    <3> QED BY <1>5, <2>1, <3>1, <3>2
  <2>3. CASE ~ (k <= o)
    <3>1. k - o \in 1 .. n
      BY <1>2, <2>3
    <3> QED BY <1>5, <2>1, <3>1
  <2> QED BY <2>2, <2>3
<1> QED BY <1>8, <1>9 DEF o, n

\* What OpenSSL takes it gives on, as a whole record; a record of the answer's goes into
\* the vector, and that of the handshake is the greeting.
LEMMA CallsSSLHears ==
  ASSUME HTTPSInv, AnswerInv, CallsSSL
  PROVE  AnswerInv'
<1> DEFINE c == tls[fd]
           g == Greets(c)
<1>1. /\ Live /\ Callable(c) /\ pc = "execute" /\ fd \in DOMAIN tls /\ c \in Connections
      /\ version \in Nat /\ sendBufferOffset \in Nat /\ c.progress \in {"Init", "Finished"}
      /\ answered \in Nat /\ answer \in Answers \cup {NoAnswer} /\ fd \in Nat
      /\ state = "TLSHandshake" => ~ c.connected
  <2>1. Live /\ pc = "execute"
    BY DEF CallsSSL, Operating, Live, LiveStates
  <2> QED BY <2>1, LiveFacts DEF CallsSSL, Callable
<1>2. PICK r \in Called(c) :
        /\ IF r.error = "want"
             THEN /\ tls' = [tls EXCEPT ![fd] = [r.ssl EXCEPT !.progress = "SendingInit"]]
                  /\ UNCHANGED <<pc, outcome, references>>
             ELSE /\ Handshaken(c, r.ssl)
                  /\ Returns(IF r.error = "none" THEN "Finished" ELSE "Aborted", r.length)
        /\ Puts(r.record)
  BY DEF CallsSSL, Puts
<1>3. /\ r.error \in {"want", "none", "fatal"} /\ r.ssl \in Connections
      /\ r.ssl.progress = c.progress /\ r.ssl.connected = c.connected /\ r.ssl.in = <<>>
      /\ r.error # "want" => r.ssl.partial = <<>>
  BY <1>1, <1>2, CallResult DEF Outcome
<1>4. Moves(c, r) /\ Joined(c) \in Seq(Tokens) /\ Piece(Joined(c))
  BY <1>1, <1>2, MovesByCall, AbsorbedOr
<1>5. UNCHANGED <<state, receiveBufferOffset, info, fd, answer, answered, request>>
  BY DEF CallsSSL, peer
<1>6. PICK d : /\ tls' = [tls EXCEPT ![fd] = d]
               /\ d.partial = r.ssl.partial /\ d.in = <<>> /\ d.connected = c.connected
               /\ d.progress = IF r.error = "want" THEN "SendingInit" ELSE c.progress
  <2>1. CASE r.error = "want"
    <3>1. PICK d : d = [r.ssl EXCEPT !.progress = "SendingInit"]
      OBVIOUS
    <3>2. d.partial = r.ssl.partial /\ d.in = <<>> /\ d.connected = c.connected
          /\ d.progress = "SendingInit"
      BY <1>3, <3>1 DEF Connections
    <3> QED BY <1>2, <2>1, <3>1, <3>2
  <2>2. CASE r.error # "want"
    <3>1. PICK d : d = [r.ssl EXCEPT !.session = fd]
      OBVIOUS
    <3>2. d.partial = r.ssl.partial /\ d.in = <<>> /\ d.connected = c.connected
          /\ d.progress = c.progress
      BY <1>3, <3>1 DEF Connections
    <3>3. tls' = [tls EXCEPT ![fd] = d] \/ tls' = [tls EXCEPT ![fd] = r.ssl]
      BY <1>2, <2>2, <3>1 DEF Handshaken
    <3> QED BY <1>3, <2>2, <3>2, <3>3
  <2> QED BY <2>1, <2>2
<1>7. tls'[fd'] = d /\ Greets(tls[fd])' = g /\ g \in {0, 1}
  BY <1>1, <1>5, <1>6 DEF Greets
<1>8. Unread(c) = Joined(c)
  BY <1>1, UnreadFacts
<1>9. Unread(tls[fd])' = r.ssl.partial
  <2>1. Unread(tls[fd])' = r.ssl.partial \o <<>> /\ r.ssl.partial \in Seq(Tokens)
    BY <1>1, <1>3, <1>6, <1>7 DEF Unread, Connections
  <2> QED BY <2>1, ConcatEmptySeq
<1>10. /\ ~ Ended("Finished") /\ ~ Ended("Aborted") /\ Live' /\ (state # "TLSShutdown" => Hearing)
       /\ InReceiving' = InReceiving /\ pc' \in {"execute", "return"} /\ pc # "thrown"
  BY <1>1, <1>2, <1>5 DEF Ended, Hearing, Live, InReceiving, Returns
<1>11. receive \in Vectors /\ receiveBufferOffset \in Nat /\ info \in Infos
  BY DEF AnswerInv
<1>12. ~ (InReceiving /\ r.error = "none") => receive' = receive
  BY <1>2, <1>4, <1>11, PutsNothing DEF Moves
<1>13. CASE state = "TLSShutdown" \/ r.error = "fatal"
  <2>1. receive' = receive
    BY <1>12, <1>13 DEF InReceiving
  <2>2. ~ Hearing'
    BY <1>2, <1>5, <1>13 DEF Hearing, Ended, Returns
  <2> QED BY <1>5, <2>1, <2>2, HearPasses
<1>14. CASE state # "TLSShutdown" /\ r.error = "want"
  <2>1. receive' = receive /\ Unread(tls[fd])' = Unread(c)
    BY <1>4, <1>8, <1>9, <1>12, <1>14 DEF Moves
  <2>2. ~ Ended("Finished")'
    BY <1>1, <1>2, <1>14 DEF Ended
  <2>3. Got' = Got
    BY <1>5, <1>10, <2>2 DEF Got
  <2>4. HandedOn(tls[fd])' = HandedOn(c)
    BY <1>5, <1>7, <1>10, <2>2, <2>3 DEF HandedOn
  <2> QED BY <1>5, <1>7, <1>10, <1>14, <2>1, <2>2, <2>3, <2>4, HearPasses
<1>15. CASE state = "InitSending" /\ r.error = "none"
  <2>1. ~ InReceiving /\ receive' = receive
    BY <1>12, <1>15 DEF InReceiving
  <2>2. Joined(c) = <<>>
    <3>1. c.partial = <<>> /\ c.in = <<>>
      BY <1>1, <1>15 DEF Callable, ConnInv, WrittenInv
    <3> QED BY <3>1, EmptySeq, ConcatEmptySeq DEF Joined
  <2>3. Unread(tls[fd])' = Unread(c)
    BY <1>3, <1>8, <1>9, <1>15, <2>2
  <2>4. Got' = Got
    BY <1>10, <2>1 DEF Got
  <2>5. HandedOn(tls[fd])' = HandedOn(c)
    BY <1>5, <1>7, <1>15, <2>4 DEF HandedOn
  <2> QED BY <1>5, <1>7, <1>10, <1>15, <2>1, <2>3, <2>4, <2>5, HearPasses
<1>16. CASE state = "TLSHandshake" /\ r.error = "none"
  <2> DEFINE j == Joined(c)
  <2>1. ~ InReceiving /\ receive' = receive
    BY <1>12, <1>16 DEF InReceiving
  <2>2. j # <<>> /\ g = 1 /\ Got = 0 /\ Got' = 0 /\ HandedOn(c) = 0
    BY <1>1, <1>4, <1>10, <1>16, <2>1 DEF Moves, Greets, Got, HandedOn
  <2>3. HearInv(c)
    BY <1>10, <1>16 DEF AnswerInv
  <2>4. answered = Len(j) /\ Comes(j, 1, answer, 0)
    <3>1. answered = 0 + Len(j) /\ Comes(j, 1, answer, 0)
      BY <1>8, <2>2, <2>3 DEF HearInv
    <3> HIDE DEF j
    <3> QED BY <1>1, <3>1, <1>4 DEF j
  <2>5. Len(j) = 1
    <3> HIDE DEF j
    <3>1. Len(j) \in Nat \ {0} /\ 1 \in 1 .. Len(j)
      BY <1>4, <2>2, LastFacts DEF j
    <3>2. j[1] = Sends(1, answer, 0 + 1)
      BY <2>4, <3>1 DEF Comes
    <3>3. j[1].left = 0
      BY <3>2 DEF Sends, Hello
    <3>4. \A k \in 1 .. Len(j) - 1 : j[k].left # 0
      BY <1>4 DEF Piece, j
    <3>5. Len(j) # 1 => 1 \in 1 .. Len(j) - 1
      <4>1. PICK n : n = Len(j)
        OBVIOUS
      <4>2. n \in Nat \ {0} => (n # 1 => 1 \in 1 .. n - 1)
        OBVIOUS
      <4> QED BY <3>1, <4>1, <4>2
    <3> QED BY <3>3, <3>4, <3>5
  <2> HIDE DEF j
  <2>6. Ended("Finished")'
    BY <1>2, <1>16 DEF Ended, Returns
  <2>7. HandedOn(tls[fd])' = 1
    BY <1>5, <1>7, <2>2, <2>6 DEF HandedOn
  <2>8. Unread(tls[fd])' = <<>> /\ Len(<<>>) = 0
    BY <1>3, <1>9, <1>16, EmptySeq
  <2>9. HearInv(tls[fd])'
    <3>1. Len(answer.symbols) \in Nat
      BY <1>1, PresentAnswer
    <3>2. Comes(Unread(tls[fd]), Greets(tls[fd]), answer, HandedOn(tls[fd]))'
      BY <2>8 DEF Comes
    <3>3. Holds(Got)' /\ Informs'
      BY <1>5, <2>2, <2>3 DEF Holds, Informs, HearInv
    <3> QED BY <1>5, <1>7, <1>10, <2>1, <2>2, <2>4, <2>5, <2>7, <2>8, <3>1, <3>2, <3>3 DEF HearInv
  <2> QED BY <1>5, <1>16, <2>1, <2>9 DEF AnswerInv
<1>17. CASE InReceiving /\ r.error = "none"
  <2> DEFINE j == Joined(c)
             o == receiveBufferOffset
             n == Len(j)
  <2>1. state \in {"InitReceiving", "Receiving"} /\ state # "TLSShutdown" /\ state # "TLSHandshake"
    BY <1>17 DEF InReceiving
  <2>2. r.record = j /\ j # <<>> /\ Head(j).kind = "data" /\ r.length = n /\ n \in Nat \ {0}
    BY <1>4, <1>17, LastFacts DEF Moves
  <2>3. Got = o /\ HandedOn(c) = g + o
    <3>1. Got = o + 0
      BY <1>10, <1>17 DEF Got
    <3>2. Got = o
      BY <1>11, <3>1
    <3> QED BY <2>1, <3>2 DEF HandedOn
  <2>4. HearInv(c)
    BY <1>10, <2>1 DEF AnswerInv
  <2>5. /\ answered <= g + Len(answer.symbols) + 1 /\ answered = g + o + n
        /\ Comes(j, g, answer, g + o) /\ Holds(o) /\ Informs
        /\ receive.size = o + ChunkSize
    BY <1>8, <1>10, <1>17, <2>3, <2>4 DEF HearInv
  <2>6. Len(answer.symbols) \in Nat
    BY <1>1, PresentAnswer
  <2>7. PICK s : s = j
    OBVIOUS
  <2>8. /\ n \in 1 .. RecordSize /\ o + n <= Len(answer.symbols)
        /\ \A k \in 1 .. n : s[k].at = o + k
    <3> HIDE DEF j
    <3>1. s \in Seq(Tokens) /\ s # <<>> /\ Piece(s) /\ Comes(s, g, answer, g + o)
          /\ g + o + Len(s) <= g + Len(answer.symbols) + 1 /\ Head(s).kind = "data"
      BY <1>4, <2>2, <2>5, <2>7 DEF j
    <3>2. PICK e : e = answer
      OBVIOUS
    <3>3. PICK h \in {0, 1}, i \in Nat : h = g /\ i = o
      BY <1>7, <1>11
    <3>4. /\ Len(s) \in 1 .. RecordSize /\ i + Len(s) <= Len(e.symbols)
          /\ \A k \in 1 .. Len(s) : s[k].at = i + k
      BY <2>6, <3>1, <3>2, <3>3, RecordComes
    <3> QED BY <2>7, <3>2, <3>3, <3>4
  <2>9. answer \in Answers /\ n <= ChunkSize /\ RecordSize <= ChunkSize
    <3>1. RecordSize \in 1 .. ChunkSize /\ ChunkSize \in Nat
      BY TLSAssumption, Constants
    <3>2. n <= ChunkSize
      BY <2>8, <3>1
    <3>3. Len(answer.symbols) > 0
      BY <1>11, <2>6, <2>8, <2>2
    <3> QED BY <1>1, <3>1, <3>2, <3>3, PresentAnswer
  <2>10. /\ receive' \in Vectors /\ receive'.size = receive.size
         /\ \A k \in 1 .. o + n : receive'.cells[k] = Cell(fd, k, answer.symbols[k])
    <3>1. s \in Seq(Tokens) /\ Puts(s) /\ Len(s) = n
      BY <1>2, <1>4, <2>2, <2>7
    <3> HIDE DEF n
    <3> QED BY <1>1, <1>11, <2>5, <2>8, <2>9, <3>1, PutsRecord
  <2>11. Ended("Finished")' /\ outcome'.length = n
    BY <1>2, <1>17, <2>2 DEF Ended, Returns
  <2>12. Got' = o + n
    BY <1>5, <1>10, <1>17, <2>11 DEF Got
  <2>13. HandedOn(tls[fd])' = g + o + n
    <3>1. HandedOn(tls[fd])' = g + (o + n)
      BY <1>5, <1>7, <2>1, <2>12 DEF HandedOn
    <3> QED BY <1>7, <1>11, <2>2, <3>1
  <2>14. Unread(tls[fd])' = <<>> /\ Len(<<>>) = 0
    BY <1>3, <1>9, <1>17, EmptySeq
  <2> HIDE DEF n, j
  <2>15. HearInv(tls[fd])'
    <3>1. Comes(Unread(tls[fd]), Greets(tls[fd]), answer, HandedOn(tls[fd]))'
      BY <2>14 DEF Comes
    <3>2. Holds(Got)' /\ Informs'
      BY <1>5, <2>5, <2>10, <2>12 DEF Holds, Informs
    <3>3. n \in 1 .. ChunkSize /\ ChunkSize \in Nat
      BY <2>2, <2>9, Constants
    <3>4. answered = g + o + n + 0
      BY <1>7, <1>11, <2>2, <2>5
    <3> QED BY <1>5, <1>7, <2>5, <2>8, <2>10, <2>11, <2>12, <2>13, <2>14, <3>1, <3>2, <3>3, <3>4
        DEF HearInv
  <2> QED BY <1>5, <1>11, <2>1, <2>10, <2>15 DEF AnswerInv
<1>18. r.error = "none" /\ state # "TLSShutdown" => state \in {"TLSHandshake", "InitSending"} \/ InReceiving
  BY <1>1 DEF Live, LiveStates, InReceiving
<1> QED BY <1>3, <1>13, <1>14, <1>15, <1>16, <1>17, <1>18

\* What an operation that has received says of the vector: with what came it holds the
\* answer up to there.
LEMMA HeardFacts ==
  ASSUME HTTPSInv, AnswerInv, Receives
  PROVE  /\ Live /\ InReceiving /\ Ended("Finished") /\ Hearing /\ pc = "return"
         /\ tls[fd].progress = "Finished" /\ HearInv(tls[fd])
         /\ outcome.length \in 1 .. ChunkSize /\ Got = CameTo
         /\ Came \in Vectors /\ Came.size = CameTo
         /\ \A k \in 1 .. CameTo : Came.cells[k] = Cell(fd, k, answer.symbols[k])
         /\ CameTo \in 1 .. Len(answer.symbols) /\ CameTo \in Nat
         /\ Received(Came, CameTo) = Said(CameTo)
         /\ answer \in Answers \cup {NoAnswer} /\ info \in Infos /\ Informs
<1>1. pc = "return" /\ Ended("Finished") /\ InReceiving /\ outcome.status = "Finished"
  BY DEF Receives, Returned, Ended, InReceiving
<1>2. Live /\ tls[fd].progress = "Finished" /\ answer \in Answers \cup {NoAnswer}
  BY <1>1, ReturnFacts, LiveFacts
<1>3. Hearing
  BY <1>1, <1>2 DEF Hearing, Ended, InReceiving
<1>4. receive \in Vectors /\ receiveBufferOffset \in Nat /\ info \in Infos /\ HearInv(tls[fd])
  BY <1>3 DEF AnswerInv
<1>5. /\ outcome.length \in 1 .. ChunkSize /\ receive.size = receiveBufferOffset + ChunkSize
      /\ Got <= Len(answer.symbols) /\ Holds(Got) /\ Informs
  BY <1>1, <1>4 DEF HearInv
<1>6. Got = CameTo /\ Came = Trimmed(outcome.length)
  BY <1>1 DEF Got, CameTo, Came
<1>7. ChunkSize \in Nat /\ outcome.length \in 0 .. ChunkSize /\ CameTo \in Nat \ {0}
  BY <1>4, <1>5, Constants DEF CameTo
<1>8. Came \in Vectors /\ Came.size = CameTo /\ Came.cells = receive.cells
  BY <1>4, <1>5, <1>6, <1>7, TrimmedFacts DEF CameTo
<1>9. \A k \in 1 .. CameTo : Came.cells[k] = Cell(fd, k, answer.symbols[k])
  BY <1>5, <1>6, <1>8 DEF Holds
<1>10. Len(answer.symbols) \in Nat
  BY <1>2, PresentAnswer
<1>11. CameTo \in 1 .. Len(answer.symbols)
  BY <1>5, <1>6, <1>7, <1>10
<1>12. Received(Came, CameTo) = Said(CameTo)
  BY <1>7, <1>9, ReceivedSaid
<1> QED BY <1>1, <1>2, <1>3, <1>4, <1>5, <1>6, <1>7, <1>8, <1>9, <1>11, <1>12

\* The receiving begins with room for a chunk.
LEMMA SendEndsHears ==
  ASSUME HTTPSInv, AnswerInv, SendEnds
  PROVE  AnswerInv'
<1> DEFINE c == tls[fd]
<1>1. /\ pc = "return" /\ state = "InitSending" /\ Ended("Finished")
      /\ UNCHANGED <<fd, answer, answered, info, tls, outcome>> /\ pc' \in {"execute", "thrown"}
      /\ \/ state' = state /\ UNCHANGED <<receiveBufferOffset, receive>>
         \/ /\ state' = "InitReceiving" /\ receiveBufferOffset' = 0
            /\ \/ receive' = Resize(Clear(receive), ChunkSize)
               \/ receive' = Clear(receive) /\ pc' = "thrown"
  BY DEF SendEnds, Returned, Ended, UnchangedByReturn, peer
<1>2. Live /\ c.progress = "Finished" /\ ~ Ended("Aborted") /\ ~ Ended("Finished")' /\ ~ InReceiving
  BY <1>1, ReturnFacts DEF Ended, InReceiving
<1>3. Hearing /\ Greets(c)' = Greets(c) /\ Unread(c)' = Unread(c)
  BY <1>1, <1>2 DEF Hearing, Greets, Unread
<1>4. HandedOn(c) = Greets(c) + 0 /\ Got = 0
  BY <1>1, <1>2 DEF HandedOn, Got
<1>5. CASE state' = state /\ UNCHANGED <<receiveBufferOffset, receive>>
  <2>1. Got' = 0 /\ HandedOn(c)' = Greets(c) + 0 /\ ~ InReceiving'
    BY <1>1, <1>2, <1>3, <1>5 DEF Got, HandedOn, InReceiving
  <2> QED BY <1>1, <1>2, <1>3, <1>4, <1>5, <2>1, HearPasses
<1>6. CASE /\ state' = "InitReceiving" /\ receiveBufferOffset' = 0
           /\ \/ receive' = Resize(Clear(receive), ChunkSize)
              \/ receive' = Clear(receive) /\ pc' = "thrown"
  <2>1. receive' \in Vectors /\ (pc' # "thrown" => receive'.size = ChunkSize) /\ ChunkSize \in Nat
    <3>1. receive \in Vectors
      BY DEF AnswerInv
    <3>2. Clear(receive) \in Vectors /\ ChunkSize \in Nat
      BY <3>1, ClearFacts, Constants
    <3>3. Resize(Clear(receive), ChunkSize) \in Vectors
          /\ Resize(Clear(receive), ChunkSize).size = ChunkSize
      BY <3>2, ResizeFacts
    <3> QED BY <1>6, <3>2, <3>3
  <2>2. Got' = 0 /\ HandedOn(c)' = Greets(c) + 0
    BY <1>1, <1>2, <1>3, <1>6 DEF Got, HandedOn
  <2>3. HearInv(c) /\ info \in Infos /\ ~ info.known
    BY <1>1, <1>3 DEF AnswerInv
  <2>4. HearInv(c)'
    <3>1. Comes(Unread(c), Greets(c), answer, HandedOn(c))'
      <4>1. Comes(Unread(c), Greets(c), answer, HandedOn(c))
        BY <2>3 DEF HearInv
      <4> HIDE DEF c
      <4>2. HandedOn(c)' = HandedOn(c)
        BY <1>4, <2>2
      <4> QED BY <1>1, <1>3, <4>1, <4>2 DEF Comes, Sends, DataTokens
    <3>2. Holds(Got)' /\ Informs'
      BY <1>1, <2>2, <2>3 DEF Holds, Informs
    <3> QED BY <1>1, <1>2, <1>3, <1>4, <1>6, <2>1, <2>2, <2>3, <3>1, <3>2 DEF HearInv
  <2> QED BY <1>1, <1>6, <2>1, <2>3, <2>4 DEF AnswerInv
<1> QED BY <1>1, <1>5, <1>6

\* The answer goes on behind what came, and the vector has room for a chunk.
LEMMA ReceiveContinuesHears ==
  ASSUME HTTPSInv, AnswerInv, ReceiveContinues
  PROVE  AnswerInv'
<1> DEFINE c == tls[fd]
           n == CameTo
<1>1. Receives
  BY DEF ReceiveContinues
<1>2. /\ Live /\ InReceiving /\ Ended("Finished") /\ Hearing /\ pc = "return"
      /\ c.progress = "Finished" /\ HearInv(c) /\ Got = n
      /\ Came \in Vectors /\ Came.size = n
      /\ \A k \in 1 .. n : Came.cells[k] = Cell(fd, k, answer.symbols[k])
      /\ n \in 1 .. Len(answer.symbols) /\ n \in Nat
      /\ Received(Came, n) = Said(n)
      /\ answer \in Answers \cup {NoAnswer} /\ info \in Infos /\ Informs
  BY <1>1, HeardFacts
<1> HIDE DEF n
<1>3. PICK found \in Known(Said(n)) :
        LET grown == Measured(found, Said(n))
            wanted == Larger((grown.length + grown.header + ChunkSize) % Modulus,
                             Came.capacity + Came.capacity \div 2)
            v == IF Came.capacity < Came.size + ChunkSize THEN Reserve(Came, wanted) ELSE Came
        IN /\ ~ Finished(found, Said(n))
           /\ info' = grown
           /\ receive' = Resize(v, v.size + ChunkSize)
  BY <1>2 DEF ReceiveContinues, n
<1>4. UNCHANGED <<fd, answer, answered, tls, outcome>> /\ receiveBufferOffset' = n
      /\ state' = "Receiving" /\ pc' = "execute"
  BY DEF ReceiveContinues, UnchangedByReturn, peer, n
<1>5. PICK grown : grown = Measured(found, Said(n))
  OBVIOUS
<1>6. /\ found \in Infos /\ found.known /\ answer # NoAnswer /\ Supported(answer)
      /\ found.code = answer.code /\ found.encoding = answer.encoding
      /\ answer.code # "noContent" => found.header = answer.head
      /\ answer.encoding = "length" => found.length = answer.length
  BY <1>2, KnownFacts
<1>7. /\ grown \in Infos /\ grown.known = found.known /\ grown.code = found.code
      /\ grown.encoding = found.encoding /\ grown.header = found.header
      /\ found.encoding # "chunked" => grown = found
  <2>1. n \in 0 .. Len(answer.symbols)
    BY <1>2
  <2> QED BY <1>2, <1>5, <1>6, <2>1, MeasuredFacts
<1>8. Informs'
  <2>1. answer.code # "noContent"
    BY <1>3, <1>6 DEF Finished
  <2>2. info' = grown
    BY <1>3, <1>5
  <2> QED BY <1>4, <1>6, <1>7, <2>1, <2>2 DEF Informs, Supported
<1>9. PICK wanted \in Nat : wanted = Larger((grown.length + grown.header + ChunkSize) % Modulus,
                                            Came.capacity + Came.capacity \div 2)
  BY <1>2, <1>7, WantedFacts
<1>10. PICK v : v = IF Came.capacity < Came.size + ChunkSize THEN Reserve(Came, wanted) ELSE Came
  OBVIOUS
<1>11. v \in Vectors /\ v.size = n /\ \A k \in 1 .. n : v.cells[k] = Came.cells[k]
  <2>1. PICK w : w = Reserve(Came, wanted)
    OBVIOUS
  <2>2. w \in Vectors /\ w.size = Came.size /\ \A k \in 1 .. Came.size : w.cells[k] = Came.cells[k]
    BY <1>2, <2>1, ReserveFacts
  <2> QED BY <1>2, <1>10, <2>1, <2>2
<1>12. receive' = Resize(v, v.size + ChunkSize)
  BY <1>3, <1>5, <1>9, <1>10
<1>13. /\ receive' \in Vectors /\ receive'.size = n + ChunkSize
       /\ \A k \in 1 .. n : receive'.cells[k] = Cell(fd, k, answer.symbols[k])
  <2>1. v.size + ChunkSize \in Nat
    BY <1>2, <1>11, Constants
  <2>2. /\ Resize(v, v.size + ChunkSize) \in Vectors
        /\ Resize(v, v.size + ChunkSize).size = v.size + ChunkSize
        /\ \A k \in 1 .. v.size : Resize(v, v.size + ChunkSize).cells[k] = v.cells[k]
    BY <1>11, <2>1, ResizeFacts
  <2> QED BY <1>2, <1>11, <1>12, <2>2
<1>14. ~ Ended("Finished")' /\ InReceiving' /\ Greets(c)' = Greets(c) /\ Unread(c)' = Unread(c)
  BY <1>2, <1>4 DEF Ended, InReceiving, Greets, Unread
<1>15. Got' = n
  <2>1. Got' = n + 0
    BY <1>4, <1>14 DEF Got
  <2> QED BY <1>2, <2>1
<1>16. HandedOn(c)' = HandedOn(c)
  <2>1. state # "TLSHandshake"
    BY <1>2 DEF InReceiving
  <2> QED BY <1>2, <1>4, <1>14, <1>15, <2>1 DEF HandedOn
<1>17. HearInv(c)'
  <2>1. Comes(Unread(c), Greets(c), answer, HandedOn(c))'
    <3>1. Comes(Unread(c), Greets(c), answer, HandedOn(c))
      BY <1>2 DEF HearInv
    <3> HIDE DEF c
    <3> QED BY <1>4, <1>14, <1>16, <3>1 DEF Comes, Sends, DataTokens
  <2>2. Holds(Got)'
    BY <1>4, <1>13, <1>15 DEF Holds
  <2>3. Len(answer.symbols) \in Nat /\ n <= Len(answer.symbols)
    BY <1>2, PresentAnswer
  <2> QED BY <1>2, <1>4, <1>8, <1>13, <1>14, <1>15, <1>16, <2>1, <2>2, <2>3 DEF HearInv
<1>18. receiveBufferOffset' \in Nat /\ info' \in Infos
  BY <1>2, <1>3, <1>4, <1>5, <1>7
<1> QED BY <1>4, <1>13, <1>17, <1>18 DEF AnswerInv

\* An answer that is finished has come as a whole.
LEMMA ReceiveEndsHears ==
  ASSUME HTTPSInv, AnswerInv, ReceiveEnds
  PROVE  AnswerInv'
<1> DEFINE n == CameTo
<1>1. Receives
  BY DEF ReceiveEnds
<1>2. /\ Came \in Vectors /\ Came.size = n
      /\ \A k \in 1 .. n : Came.cells[k] = Cell(fd, k, answer.symbols[k])
      /\ n \in 1 .. Len(answer.symbols) /\ n \in Nat
      /\ Received(Came, n) = Said(n)
      /\ answer \in Answers \cup {NoAnswer} /\ info \in Infos /\ Informs
  BY <1>1, HeardFacts
<1> HIDE DEF n
<1>3. PICK found \in Known(Said(n)) : Finished(found, Said(n)) /\ info' = Measured(found, Said(n))
  BY <1>2 DEF ReceiveEnds, n
<1>4. /\ UNCHANGED <<fd, answer>> /\ receiveBufferOffset' = n /\ receive' = Came
      /\ state' \in {"TLSShutdown", "Finished"} /\ answer.code \in {"ok", "noContent"}
  BY DEF ReceiveEnds, UnchangedByReturn, peer, n, Reusable
<1>5. found \in Infos /\ answer # NoAnswer
  BY <1>2, <1>3, KnownFacts
<1>6. n = Len(answer.symbols)
  BY <1>2, <1>3, <1>4, <1>5, WholeWhenFinished
<1>7. info' \in Infos
  <2>1. n \in 0 .. Len(answer.symbols)
    BY <1>2
  <2> QED BY <1>2, <1>3, <1>5, <2>1, MeasuredFacts
<1>8. ~ Hearing'
  BY <1>4 DEF Hearing, Live, LiveStates
<1>9. Holds(receive.size)'
  BY <1>2, <1>4 DEF Holds
<1> QED BY <1>2, <1>4, <1>5, <1>6, <1>7, <1>8, <1>9 DEF AnswerInv

LEMMA ResetHears ==
  ASSUME HTTPSInv, AnswerInv,
         OpenFails \/ InitFails \/ HandshakeFails \/ TransferFails \/ ReceiveThrows \/ ReceiveRefused
  PROVE  AnswerInv'
<1>1. CASE ReceiveThrows \/ ReceiveRefused
  <2>1. Receives
    BY <1>1 DEF ReceiveThrows, ReceiveRefused
  <2>2. Came \in Vectors /\ CameTo \in Nat
    BY <2>1, HeardFacts
  <2>3. \E aborted, codes : Restart(aborted, Came, CameTo, codes)
    BY <1>1 DEF ReceiveThrows, ReceiveRefused, CountedReset, HTTPSReset
  <2> QED BY <2>2, <2>3, RestartHears
<1>2. CASE OpenFails \/ InitFails \/ HandshakeFails \/ TransferFails
  <2>1. receive \in Vectors /\ receiveBufferOffset \in Nat
    BY DEF AnswerInv
  <2>2. \E aborted, codes : Restart(aborted, receive, receiveBufferOffset, codes)
    BY <1>2 DEF OpenFails, InitFails, HandshakeFails, TransferFails, CountedReset, HTTPSReset
  <2> QED BY <2>1, <2>2, RestartHears
<1> QED BY <1>1, <1>2

LEMMA AnswerStep ==
  ASSUME HTTPSInv, AnswerInv, HTTPSNext
  PROVE  AnswerInv'
<1>1. CASE OpenNew \/ OpenKept
  BY <1>1, OpensHears
<1>2. CASE OpenFails \/ InitFails \/ HandshakeFails \/ TransferFails \/ ReceiveThrows \/ ReceiveRefused
  BY <1>2, ResetHears
<1>3. CASE TLSOperation
  BY <1>3, CallsSSLHears, ReturnHears, ProcessSendingInitHears, ProcessSendingHears,
     ProcessReceivingHears DEF TLSOperation
<1>4. CASE TLSKernel
  BY <1>4, KernelHears, TLSReadsHears DEF TLSKernel
<1>5. CASE HandshakeEnds \/ ShutdownAgain \/ ShutdownCaches \/ ShutdownEnds
  BY <1>5, ReturnHears
<1>6. CASE SendEnds \/ ReceiveContinues \/ ReceiveEnds
  BY <1>6, SendEndsHears, ReceiveContinuesHears, ReceiveEndsHears
<1>7. CASE HTTPSAborts
  <2>1. /\ state = "Aborted" /\ state' = state
        /\ UNCHANGED <<receive, receiveBufferOffset, info>>
    BY <1>7 DEF HTTPSAborts, Aborts, Executing, task
  <2>2. ~ Live'
    BY <2>1 DEF Live, LiveStates
  <2> QED BY <2>1, <2>2, NotHearing DEF AnswerInv
<1>8. CASE NextMessage
  BY <1>8, NextMessageHears
<1> QED BY <1>1, <1>2, <1>3, <1>4, <1>5, <1>6, <1>7, <1>8 DEF HTTPSNext, HTTPSExecute

LEMMA AnswerStutter ==
  ASSUME AnswerInv, UNCHANGED httpsVars
  PROVE  AnswerInv'
<1>1. UNCHANGED <<state, pc, outcome, fd, tls, answer, answered, receive, receiveBufferOffset, info,
                  request>>
  BY DEF httpsVars, vars, task, peer, tlsVars
<1>2. /\ Hearing' = Hearing /\ Got' = Got /\ InReceiving' = InReceiving
      /\ Ended("Finished")' = Ended("Finished")
  BY <1>1 DEF Hearing, Live, Ended, Got, InReceiving
<1>3. /\ Greets(tls[fd])' = Greets(tls[fd]) /\ Unread(tls[fd])' = Unread(tls[fd])
      /\ HandedOn(tls[fd])' = HandedOn(tls[fd])
  BY <1>1, <1>2 DEF Greets, Unread, HasRead, HandedOn
<1> QED BY <1>1, <1>2, <1>3, HearPasses DEF Early

-----------------------------------------------------------------------------
(* The theorems. *)

\* At the beginning there is no connection and no session.
LEMMA Beginning ==
  ASSUME HTTPSInit
  PROVE  HTTPSInv
<1>1. /\ state = "Init" /\ pc = "execute" /\ failures = 0 /\ failureCode = {} /\ version = 0
      /\ sendBufferOffset = 0 /\ request = NoRequest /\ held = {} /\ connects = 0 /\ kept = {}
      /\ answer = NoAnswer /\ answered = 0 /\ fd = NoFd /\ tls = <<>> /\ outcome = NoOutcome
      /\ sendErrors = 0
      /\ sessionCache = [slot \in 0 .. CacheSize - 1 |-> [first |-> 0, second |-> NoSession]]
  BY DEF HTTPSInit, Init, SessionsInit
<1>2. ~ Live
  BY <1>1 DEF Live, LiveStates
<1>3. DOMAIN tls = {} /\ tls \in [DOMAIN tls -> Connections]
  BY <1>1, EmptySeq
<1>4. Types
  <2>1. 0 \in 0 .. Total /\ 0 \in 0 .. MaxSendErrors
    BY Constants
  <2>2. NoRequest \in Requests
    BY DEF NoRequest, Requests, NoFd
  <2>3. sessionCache \in [0 .. CacheSize - 1 -> [first : Nat, second : Nat]]
    BY <1>1 DEF NoSession
  <2>4. outcome \in [status : Statuses \cup {"Progress"}, length : Int]
    BY <1>1 DEF NoOutcome
  <2> QED BY <1>1, <1>3, <2>1, <2>2, <2>3, <2>4 DEF Types, NoFd
<1>5. Counted
  BY <1>1, Constants DEF Counted
<1>6. Attached
  BY <1>1, <1>2, <1>3 DEF Attached, NoRequest, NoFd, LiveStates
<1> QED BY <1>1, <1>2, <1>4, <1>5, <1>6 DEF HTTPSInv

LEMMA HTTPSStep ==
  ASSUME HTTPSInv, HTTPSNext
  PROVE  HTTPSInv'
BY OpenNewStep, OpenKeptStep, OpenFailsStep, InitFailsStep, TLSStep, HandshakeEndsStep,
   HandshakeFailsStep, SendEndsStep, TransferFailsStep, ReceiveContinuesStep, ReceiveThrowsStep,
   ReceiveEndsStep, ReceiveRefusedStep, ShutdownAgainStep, ShutdownCachesStep, ShutdownEndsStep,
   HTTPSAbortsStep, NextMessageStep
   DEF HTTPSNext, HTTPSExecute

\* The connections, the pump and the records are as HTTPSInv says, however the handshakes,
\* reads and writes of the messages of a connection end.
THEOREM HTTPSInvariant == HTTPSSpec => []HTTPSInv
<1>1. HTTPSInit => HTTPSInv
  BY Beginning
<1>2. HTTPSInv /\ [HTTPSNext]_httpsVars => HTTPSInv'
  BY HTTPSStep, Stutter
<1> QED BY <1>1, <1>2, PTL DEF HTTPSSpec

\* A connection that the next message is given has nothing left of the last: neither in
\* its BIOs nor of a record or a write half done in OpenSSL, and its progress, which the
\* next message's handshake returns, is Finished.
THEOREM KeptConnectionsFresh == HTTPSSpec => []KeptIsFresh
<1>1. HTTPSInv => KeptIsFresh
  BY DEF HTTPSInv, FreshTLS, KeptIsFresh
<1> QED BY <1>1, HTTPSInvariant, PTL

\* execute never returns with nothing under way: it waits for an operation on the
\* connection of the message; and no message that is done leaves a TLS object but to
\* the kept connections.
THEOREM OperationUnderWay == HTTPSSpec => []AlwaysUnderWay
<1>1. ASSUME HTTPSInv PROVE AlwaysUnderWay
  <2>1. HTTPSTypeOK
    <3>1. state \in LiveStates \cup {"Init", "Finished", "Aborted"}
          /\ pc \in {"execute", "wait", "return", "close", "done", "thrown"}
          /\ failures \in Nat /\ failures <= FailuresMax + 2
          /\ failureCode \subseteq FailureCodes \cup {"TLS"}
          /\ held \subseteq 1 .. connects /\ kept \subseteq 1 .. connects
          /\ sendErrors \in 0 .. MaxSendErrors
      BY <1>1 DEF HTTPSInv, Types, Counted
    <3>2. DOMAIN tls \subseteq held \cup kept
      BY <1>1 DEF HTTPSInv, Attached
    <3>3. failures \in 0 .. FailuresMax + 2
      BY <3>1, Constants
    <3> QED BY <3>1, <3>2, <3>3 DEF HTTPSTypeOK, LiveStates
  <2>2. pc # "stuck"
    BY <1>1 DEF HTTPSInv, Types
  <2>3. ASSUME pc = "wait" PROVE request.fd = fd /\ fd \in held
    <3>1. Live /\ fd \in held /\ ConnInv(tls[fd])
      BY <1>1, <2>3 DEF HTTPSInv, Attached
    <3> QED BY <2>3, <3>1 DEF ConnInv, PumpInv
  <2>4. pc = "done" => held \cap DOMAIN tls = {}
    BY <1>1 DEF HTTPSInv, Attached, Live, LiveStates
  <2> QED BY <2>1, <2>2, <2>3, <2>4 DEF AlwaysUnderWay
<1> QED BY <1>1, HTTPSInvariant, PTL

\* The reference counts of the sessions are exact: however connections are opened, fail, are
\* shut down and give their session to the table, each session has one reference for every
\* table entry and SSL object with it, so that none leaks and none is freed while in use.
THEOREM ReferencesCounted == HTTPSSpec => []SessionsCounted
<1>1. HTTPSInit => SessionsInv
  <2> SUFFICES ASSUME HTTPSInit PROVE SessionsInv
    OBVIOUS
  <2>1. /\ references = EmptyBag /\ tls = <<>>
        /\ sessionCache = [slot \in 0 .. CacheSize - 1 |-> [first |-> 0, second |-> NoSession]]
    BY DEF HTTPSInit, SessionsInit
  <2>2. DOMAIN tls = {} /\ BagToSet(references) = {} /\ IsABag(references)
    BY <2>1, EmptySeq DEF EmptyBag, SetToBag, BagToSet, IsABag
  <2>3. \A t : CachedIn(t) = {} /\ HeldBy(t) = {} /\ ReferencesTo(t) = 0
    BY <2>1, <2>2 DEF CachedIn, HeldBy, ReferencesTo, BagIn
  <2>4. \A session \in Nat \ {0} :
          ReferencesTo(session) = Cardinality(CachedIn(session)) + Cardinality(HeldBy(session))
    <3>1. Cardinality({}) = 0
      BY FS_EmptySet
    <3> QED BY <2>3, <3>1
  <2>5. BagToSet(references) \subseteq Nat \ {0} /\ \A f \in DOMAIN tls : tls[f].session \in 0 .. connects
    BY <2>2
  <2>6. \A slot \in DOMAIN sessionCache :
          sessionCache[slot].first # 0 => sessionCache[slot].second \in 0 .. connects
    BY <2>1
  <2> QED BY <2>2, <2>4, <2>5, <2>6 DEF SessionsInv
<1>2. HTTPSInv /\ SessionsInv /\ [HTTPSNext]_httpsVars => SessionsInv'
  <2>1. ASSUME HTTPSInv, SessionsInv, UNCHANGED httpsVars PROVE SessionsInv'
    <3>1. UNCHANGED <<connects, tls, sessions>>
      BY <2>1 DEF httpsVars, vars, manager, tlsVars
    <3> QED BY <2>1, <3>1, Holders, SessionsStay
  <2> QED BY <2>1, SessionsStep
<1>3. ASSUME HTTPSInv, SessionsInv PROVE SessionsCounted
  <2>1. connects \in Nat /\ DOMAIN tls \subseteq 1 .. connects
    BY <1>3, Holders
  <2>2. IsABag(references) /\ BagToSet(references) \subseteq Nat \ {0}
    BY <1>3 DEF SessionsInv
  <2>3. ASSUME NEW t \in BagToSet(references) PROVE t \in 1 .. connects
    <3>1. t \in Nat \ {0} /\ ReferencesTo(t) > 0
      BY <2>2, <2>3 DEF ReferencesTo, BagIn, IsABag, BagToSet
    <3>2. ReferencesTo(t) = Cardinality(CachedIn(t)) + Cardinality(HeldBy(t))
      BY <1>3, <3>1 DEF SessionsInv
    <3>3. CachedIn(t) # {} \/ HeldBy(t) # {}
      BY <3>1, <3>2, FS_EmptySet
    <3>4. t \in 0 .. connects
      BY <1>3, <3>3 DEF CachedIn, HeldBy, SessionsInv
    <3> QED BY <3>1, <3>4, <2>1
  <2>4. \A t \in 1 .. connects :
          ReferencesTo(t) = Cardinality(CachedIn(t)) + Cardinality(HeldBy(t))
    BY <1>3, <2>1 DEF SessionsInv
  <2> QED BY <2>2, <2>3, <2>4 DEF SessionsCounted
<1> QED BY <1>1, <1>2, <1>3, HTTPSInvariant, PTL DEF HTTPSSpec

\* At the beginning nothing was sent, and the vector is empty.
LEMMA AnswerBeginning ==
  ASSUME HTTPSInit
  PROVE  AnswerInv
<1>1. /\ state = "Init" /\ receiveBufferOffset = 0 /\ info = NoInfo
      /\ receive \in {IF c = 0 THEN EmptyVector ELSE UserVector(c) : c \in Capacities}
  BY DEF HTTPSInit, Init
<1>2. EmptyVector \in Vectors /\ \A c \in Nat : UserVector(c) \in Vectors
  <2>1. EmptyVector \in Vectors
    BY EmptySeq DEF EmptyVector, Vectors
  <2>2. ASSUME NEW c \in Nat
        PROVE  UserVector(c) \in Vectors
    <3> DEFINE e == [k \in 1 .. c |-> Fresh]
    <3>1. Fresh \in Cells
      BY DEF Fresh, Cell, Cells, Symbols
    <3>2. e \in Seq(Cells) /\ Len(e) = c
      BY <3>1, FunctionSeq
    <3>3. UserVector(c) = [owned |-> FALSE, capacity |-> c, size |-> 0, memory |-> 0, cells |-> e]
      BY DEF UserVector
    <3> HIDE DEF e
    <3> QED BY <3>2, <3>3 DEF Vectors
  <2> QED BY <2>1, <2>2
<1>3. Capacities \subseteq Nat
  BY HTTPAssumption
<1>4. receive \in Vectors /\ ~ Live
  BY <1>1, <1>2, <1>3 DEF Live, LiveStates
<1> QED BY <1>1, <1>4, InfoFacts DEF AnswerInv, Hearing

LEMMA SendBeginning ==
  ASSUME HTTPSInit
  PROVE  SendInv
<1>1. state = "Init" /\ wire = <<>>
  BY DEF HTTPSInit, Init
<1> QED BY <1>1, EmptySeq DEF SendInv, Live, LiveStates

\* What goes over a connection keeps its order and stays whole both ways: the server is
\* given a prefix of the handshake, the header, the data and the close, each byte once, from
\* its place in the request, however short the writes and whatever OpenSSL leaves in the BIO;
\* and a message that is finished has sent all of the request, and its vector is the answer
\* of the server on its own connection, cell by cell, however the kernel cut it.
THEOREM BytesInOrder == HTTPSSpec => []StreamsInOrder
<1>1. HTTPSInit => HTTPSInv /\ SendInv /\ AnswerInv
  BY Beginning, SendBeginning, AnswerBeginning
<1>2. (HTTPSInv /\ SendInv /\ AnswerInv) /\ [HTTPSNext]_httpsVars => (HTTPSInv /\ SendInv /\ AnswerInv)'
  <2>1. CASE HTTPSNext
    BY <2>1, HTTPSStep, SendStep, AnswerStep
  <2>2. CASE UNCHANGED httpsVars
    BY <2>2, Stutter, SendStutter, AnswerStutter
  <2> QED BY <2>1, <2>2
<1>3. HTTPSInv /\ SendInv /\ AnswerInv => StreamsInOrder
  <2> SUFFICES ASSUME HTTPSInv, SendInv, AnswerInv PROVE StreamsInOrder
    OBVIOUS
  <2>1. SentInOrder
    BY SentSound
  <2>2. state \in {"TLSShutdown", "Finished"} =>
          /\ receive.size = Len(answer.symbols)
          /\ \A k \in 1 .. receive.size : receive.cells[k] = Cell(fd, k, answer.symbols[k])
    BY DEF AnswerInv, Holds
  <2> QED BY <2>1, <2>2 DEF SentInOrder, StreamsInOrder
<1> QED BY <1>1, <1>2, <1>3, PTL DEF HTTPSSpec

=============================================================================
