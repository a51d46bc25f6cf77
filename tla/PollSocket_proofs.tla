-------------------------- MODULE PollSocket_proofs --------------------------
(***************************************************************************)
(* Proofs about PollSocket, for any descriptors, timeouts and number of    *)
(* requests: CountsOpen is inductive, and under it every step of the poll  *)
(* socket is one of Socket, or changes nothing a user of Socket sees.      *)
(***************************************************************************)
EXTENDS PollSocket, SequenceTheorems, FiniteSetTheorems, TLAPS

Entries == [fd : Fds, revents : Events]

\* The sequence without its i-th element.
LEMMA RemoveAtProperties ==
  ASSUME NEW S, NEW s \in Seq(S), NEW i \in 1 .. Len(s)
  PROVE  /\ RemoveAt(s, i) \in Seq(S)
         /\ Len(RemoveAt(s, i)) = Len(s) - 1
         /\ \A k \in 1 .. Len(s) - 1 : RemoveAt(s, i)[k] = IF k < i THEN s[k] ELSE s[k + 1]
<1> DEFINE a == SubSeq(s, 1, i - 1)
           b == SubSeq(s, i + 1, Len(s))
<1>1. Len(s) \in Nat /\ \A k \in 1 .. Len(s) : s[k] \in S
  BY LenProperties, ElementOfSeq
<1>2. a \in Seq(S) /\ Len(a) = i - 1 /\ \A k \in 1 .. i - 1 : a[k] = s[k]
  <2>1. i - 1 \in Int /\ 1 \in Int /\ \A k \in 1 .. i - 1 : s[k] \in S
    BY <1>1
  <2>2. /\ a \in Seq(S)
        /\ Len(a) = IF 1 <= i - 1 THEN i - 1 - 1 + 1 ELSE 0
        /\ \A k \in 1 .. i - 1 - 1 + 1 : a[k] = s[1 + k - 1]
    BY ONLY <2>1, SubSeqProperties
  <2> HIDE DEF a
  <2> QED BY <2>2, <1>1
<1>3. /\ b \in Seq(S) /\ Len(b) = Len(s) - i
      /\ \A k \in 1 .. Len(s) - i : b[k] = s[i + k]
  <2>1. i + 1 \in Int /\ Len(s) \in Int /\ \A k \in i + 1 .. Len(s) : s[k] \in S
    BY <1>1
  <2>2. /\ b \in Seq(S)
        /\ Len(b) = IF i + 1 <= Len(s) THEN Len(s) - (i + 1) + 1 ELSE 0
        /\ \A k \in 1 .. Len(s) - (i + 1) + 1 : b[k] = s[i + 1 + k - 1]
    BY ONLY <2>1, SubSeqProperties
  <2> HIDE DEF b
  <2> QED BY <2>2, <1>1
<1>4. RemoveAt(s, i) = a \o b
  BY DEF RemoveAt
<1> HIDE DEF a, b
<1>5. /\ a \o b \in Seq(S)
      /\ Len(a \o b) = Len(a) + Len(b)
      /\ \A k \in 1 .. Len(a) + Len(b) : (a \o b)[k] = IF k <= Len(a) THEN a[k] ELSE b[k - Len(a)]
  BY <1>2, <1>3, ConcatProperties
<1> QED BY <1>1, <1>2, <1>3, <1>4, <1>5

\* The sequence without its last element.
LEMMA FrontProperties ==
  ASSUME NEW S, NEW s \in Seq(S), s # <<>>
  PROVE  /\ Front(s) \in Seq(S)
         /\ Len(s) \in Nat \ {0} /\ Len(Front(s)) = Len(s) - 1
         /\ \A k \in 1 .. Len(s) - 1 : Front(s)[k] = s[k]
         /\ Last(s) = s[Len(s)] /\ Last(s) \in S
<1>1. Len(s) \in Nat \ {0} /\ \A k \in 1 .. Len(s) : s[k] \in S
  BY EmptySeq, ElementOfSeq
<1> DEFINE n == Len(s) - 1
           f == SubSeq(s, 1, n)
<1>2. n \in Nat /\ \A k \in 1 .. n : s[k] \in S
  BY <1>1
<1>3. Front(s) = f /\ Last(s) = s[Len(s)] /\ s[Len(s)] \in S
  BY <1>1 DEF Front, Last
<1> HIDE DEF n
<1>4. f \in Seq(S) /\ Len(f) = n /\ \A k \in 1 .. n : f[k] = s[k]
  <2>1. /\ f \in Seq(S)
        /\ Len(f) = IF 1 <= n THEN n - 1 + 1 ELSE 0
        /\ \A k \in 1 .. n - 1 + 1 : f[k] = s[1 + k - 1]
    <3>1. 1 \in Int /\ n \in Int
      BY <1>2
    <3> QED BY ONLY <1>2, <3>1, SubSeqProperties
  <2> HIDE DEF f
  <2> QED BY ONLY <1>2, <2>1
<1>5. Front(s) \in Seq(S) /\ Len(Front(s)) = n /\ \A k \in 1 .. n : Front(s)[k] = s[k]
  BY <1>3, <1>4
<1> QED BY <1>1, <1>3, <1>5 DEF n

\* The two sequences have lengths, and elements of their types.
LEMMA Lengths ==
  ASSUME TypeOK
  PROVE  /\ Len(pollfds) \in Nat /\ DOMAIN pollfds = 1 .. Len(pollfds)
         /\ Len(ready) \in Nat /\ DOMAIN ready = 1 .. Len(ready)
         /\ \A k \in 1 .. Len(pollfds) : pollfds[k] \in Entries
         /\ \A k \in 1 .. Len(ready) : ready[k] \in Fds
BY LenProperties, ElementOfSeq DEF TypeOK, Entries

\* A poll changes what the entries show, and nothing else of them.
LEMMA PolledProperties ==
  ASSUME TypeOK
  PROVE  /\ Polled \in Seq(Entries) /\ Len(Polled) = Len(pollfds)
         /\ \A k \in 1 .. Len(pollfds) : Polled[k].fd = pollfds[k].fd
         /\ ReadyCount \in Nat
<1>1. /\ Len(pollfds) \in Nat /\ DOMAIN pollfds = 1 .. Len(pollfds)
      /\ \A k \in 1 .. Len(pollfds) : pollfds[k] \in Entries
  BY Lengths
<1>2. \A k \in 1 .. Len(pollfds) : events[pollfds[k].fd] \in Events
  BY <1>1 DEF TypeOK, Entries
<1>3. \A k \in 1 .. Len(pollfds) : Polled[k] \in Entries /\ Polled[k].fd = pollfds[k].fd
  BY <1>1, <1>2 DEF Polled, Entries
<1>4. Polled \in [1 .. Len(pollfds) -> Entries]
  BY <1>1, <1>3 DEF Polled
<1>5. Polled \in Seq(Entries) /\ Len(Polled) = Len(pollfds)
  BY <1>1, <1>4
<1>6. ReadyCount \in Nat
  <2>1. IsFiniteSet(1 .. Len(pollfds))
    BY <1>1, FS_Interval
  <2>2. {k \in DOMAIN pollfds : events[pollfds[k].fd] # "none"} \in SUBSET (1 .. Len(pollfds))
    BY <1>1
  <2> QED BY <2>1, <2>2, FS_Subset, FS_CardinalityType DEF ReadyCount
<1> QED BY <1>3, <1>5, <1>6

-----------------------------------------------------------------------------
(* CountsOpen is inductive. *)

LEMMA InitCounts ==
  ASSUME Init, PollAssumption
  PROVE  CountsOpen
<1>1. <<>> \in Seq(Fds) /\ <<>> \in Seq(Entries) /\ Len(<<>>) = 0 /\ DOMAIN <<>> = {}
  BY EmptySeq
<1>2. TypeOK
  BY <1>1 DEF Init, TypeOK, Entries, Events, None
<1>3. Range(ready) = {}
  BY <1>1 DEF Init, Range
<1> QED BY <1>1, <1>2, <1>3 DEF Init, CountsOpen

LEMMA EnqueueCounts ==
  ASSUME CountsOpen, PollAssumption,
         NEW fd \in Fds, NEW timeout \in Timeouts, Enqueue(fd, timeout)
  PROVE  CountsOpen'
<1> DEFINE entry == [fd |-> fd, revents |-> "none"]
<1>1. TypeOK /\ pc = "prepare" /\ fd \notin DOMAIN fdToRequest /\ fd \notin Range(ready)
  BY DEF CountsOpen, Enqueue, Open
<1>2. /\ Len(pollfds) \in Nat /\ DOMAIN pollfds = 1 .. Len(pollfds)
      /\ Len(ready) \in Nat /\ pollfds \in Seq(Entries) /\ entry \in Entries
  BY <1>1, Lengths DEF TypeOK, Entries, Events
<1>3. /\ pollfds' \in Seq(Entries) /\ Len(pollfds') = Len(pollfds) + 1
      /\ \A k \in 1 .. Len(pollfds) : pollfds'[k] = pollfds[k]
      /\ pollfds'[Len(pollfds) + 1] = entry
      /\ DOMAIN pollfds' = 1 .. Len(pollfds) + 1
  BY <1>2, AppendProperties, LenProperties DEF Enqueue
<1>4. DOMAIN fdToRequest' = DOMAIN fdToRequest \cup {fd}
  BY DEF Enqueue
<1>5. fdToRequest' \in [DOMAIN fdToRequest' -> Nat]
  <2>1. Never \in Nat /\ timeout \in Nat /\ now \in Nat
    BY <1>1 DEF PollAssumption, TypeOK, Never
  <2>2. \A f \in DOMAIN fdToRequest : fdToRequest[f] \in Nat
    BY <1>1 DEF TypeOK
  <2> QED BY <2>1, <2>2 DEF Enqueue
<1>6. TypeOK'
  <2>1. pc' = "prepare" /\ pit' = None
    BY <1>1 DEF Enqueue, iterator, loop, TypeOK
  <2> QED BY <1>1, <1>3, <1>5, <2>1 DEF TypeOK, Entries, Enqueue, iterator, loop
<1>7. {pollfds'[k].fd : k \in DOMAIN pollfds'} = DOMAIN fdToRequest'
  <2>1. {pollfds[k].fd : k \in DOMAIN pollfds} = DOMAIN fdToRequest
    BY <1>2 DEF CountsOpen
  <2>2. {pollfds'[k].fd : k \in DOMAIN pollfds'}
          = {pollfds'[k].fd : k \in 1 .. Len(pollfds)} \cup {pollfds'[Len(pollfds) + 1].fd}
    <3> DEFINE before == 1 .. Len(pollfds)
               last == Len(pollfds) + 1
    <3>1. 1 .. last = before \cup {last}
      BY ONLY <1>2
    <3>2. DOMAIN pollfds' = before \cup {last}
      BY ONLY <1>3, <3>1
    <3> HIDE DEF before, last
    <3>3. {pollfds'[k].fd : k \in before \cup {last}}
            = {pollfds'[k].fd : k \in before} \cup {pollfds'[last].fd}
      BY ONLY TRUE
    <3>4. {pollfds'[k].fd : k \in DOMAIN pollfds'}
            = {pollfds'[k].fd : k \in before} \cup {pollfds'[last].fd}
      BY ONLY <3>2, <3>3
    <3> QED BY ONLY <3>4 DEF before, last
  <2>3. pollfds'[Len(pollfds) + 1].fd = fd
    BY <1>3
  <2>4. {pollfds'[k].fd : k \in 1 .. Len(pollfds)} = {pollfds[k].fd : k \in 1 .. Len(pollfds)}
    BY <1>3
  <2> QED BY <1>2, <1>4, <2>1, <2>2, <2>3, <2>4
<1>8. \A j, k \in DOMAIN pollfds' : pollfds'[j].fd = pollfds'[k].fd => j = k
  <2>1. \A k \in 1 .. Len(pollfds) : pollfds[k].fd # fd
    BY <1>1, <1>2 DEF CountsOpen
  <2> QED BY <1>2, <1>3, <2>1 DEF CountsOpen
<1>9. UNCHANGED <<ready, length, count, pc>> /\ submitted' = submitted + 1
  BY DEF Enqueue, loop
<1>10. /\ Range(ready)' = Range(ready)
       /\ \A k \in DOMAIN ready' : length'[ready'[k]] \in Results
       /\ \A j, k \in DOMAIN ready' : ready'[j] = ready'[k] => j = k
  BY <1>9 DEF Range, CountsOpen
<1>11. DOMAIN fdToRequest' \cap Range(ready)' = {}
  BY <1>1, <1>4, <1>10 DEF CountsOpen
<1>12. submitted \in Nat /\ count \in Nat
  BY <1>1 DEF TypeOK
<1>13. /\ count' + submitted' = Len(pollfds') + Len(ready') /\ submitted' <= Len(pollfds')
       /\ pc' = "prepare"
  <2>1. count + submitted = Len(pollfds) + Len(ready) /\ submitted <= Len(pollfds)
    BY DEF CountsOpen
  <2>2. Len(ready') = Len(ready) /\ count' = count /\ submitted' = submitted + 1 /\ pc' = "prepare"
    BY <1>1, <1>9
  <2>3. Len(pollfds') = Len(pollfds) + 1 /\ Len(pollfds) \in Nat /\ Len(ready) \in Nat
    BY <1>2, <1>3
  <2> QED BY ONLY <1>12, <2>1, <2>2, <2>3
<1> QED BY <1>6, <1>7, <1>8, <1>10, <1>11, <1>13 DEF CountsOpen

\* Steps that poll: only what the entries show and the counts change.
LEMMA PollingCounts ==
  ASSUME CountsOpen, pollfds' = Polled,
         UNCHANGED <<ready, fdToRequest, length>>
  PROVE  /\ pollfds' \in Seq(Entries) /\ Len(pollfds') = Len(pollfds)
         /\ \A j, k \in DOMAIN pollfds' : pollfds'[j].fd = pollfds'[k].fd => j = k
         /\ {pollfds'[k].fd : k \in DOMAIN pollfds'} = DOMAIN fdToRequest'
         /\ DOMAIN fdToRequest' \cap Range(ready)' = {}
         /\ \A j, k \in DOMAIN ready' : ready'[j] = ready'[k] => j = k
         /\ \A k \in DOMAIN ready' : length'[ready'[k]] \in Results
<1>1. TypeOK
  BY DEF CountsOpen
<1>2. /\ DOMAIN pollfds = 1 .. Len(pollfds) /\ pollfds' \in Seq(Entries)
      /\ Len(pollfds') = Len(pollfds)
      /\ \A k \in 1 .. Len(pollfds) : pollfds'[k].fd = pollfds[k].fd
  BY <1>1, Lengths, PolledProperties
<1>3. DOMAIN pollfds' = 1 .. Len(pollfds)
  BY <1>2, LenProperties
<1>4. \A j, k \in DOMAIN pollfds' : pollfds'[j].fd = pollfds'[k].fd => j = k
  BY <1>2, <1>3 DEF CountsOpen
<1>5. {pollfds'[k].fd : k \in DOMAIN pollfds'} = DOMAIN fdToRequest'
  <2>1. {pollfds'[k].fd : k \in 1 .. Len(pollfds)} = {pollfds[k].fd : k \in 1 .. Len(pollfds)}
    BY <1>2
  <2> QED BY <1>2, <1>3, <2>1 DEF CountsOpen
<1>6. Range(ready)' = Range(ready)
  BY DEF Range
<1> QED BY <1>2, <1>4, <1>5, <1>6 DEF CountsOpen

LEMMA SubmitsCounts ==
  ASSUME CountsOpen, Submits
  PROVE  CountsOpen'
<1>1. TypeOK /\ pc = "prepare"
  BY DEF CountsOpen, Submits
<1>2. Len(pollfds) \in Nat /\ Len(ready) \in Nat /\ ReadyCount \in Nat
  BY <1>1, Lengths, PolledProperties
<1>3. /\ submitted \in Nat /\ count \in Nat /\ submitted' = 0 /\ count' = count + submitted
      /\ readyFds' = ReadyCount /\ pollfds' = Polled
      /\ pc' = IF count + submitted > 0 THEN "complete" ELSE "prepare"
      /\ UNCHANGED <<ready, fdToRequest, length, iterator, now, events>>
  BY <1>1 DEF Submits, TypeOK
<1>4. pollfds' \in Seq(Entries) /\ Len(pollfds') = Len(pollfds)
  BY <1>3, PollingCounts
<1>5. pit' = None /\ pc' # "collect"
  BY <1>1, <1>3 DEF TypeOK, iterator
<1>6. TypeOK'
  BY <1>1, <1>2, <1>3, <1>4, <1>5 DEF TypeOK, Entries, iterator
<1>7. /\ count' + submitted' = Len(pollfds') + Len(ready')
      /\ submitted' <= Len(pollfds')
      /\ pc' # "prepare" => count' > 0 /\ submitted' = 0
  BY <1>2, <1>3, <1>4 DEF CountsOpen
<1> QED BY <1>3, <1>6, <1>7, PollingCounts DEF CountsOpen

LEMMA PollsCounts ==
  ASSUME CountsOpen, Polls
  PROVE  CountsOpen'
<1>1. TypeOK /\ pc = "complete"
  BY DEF CountsOpen, Polls
<1>2. Len(pollfds) \in Nat /\ Len(ready) \in Nat /\ ReadyCount \in Nat
  BY <1>1, Lengths, PolledProperties
<1>3. /\ readyFds' = ReadyCount /\ pollfds' = Polled
      /\ UNCHANGED <<ready, fdToRequest, length, iterator, now, events, submitted, count, pc>>
  BY DEF Polls, loop
<1>4. pollfds' \in Seq(Entries) /\ Len(pollfds') = Len(pollfds)
  BY <1>3, PollingCounts
<1>5. pit' = None /\ pc' # "collect"
  BY <1>1, <1>3 DEF TypeOK, iterator
<1>6. TypeOK'
  BY <1>1, <1>2, <1>3, <1>4, <1>5 DEF TypeOK, Entries, iterator
<1> QED BY <1>3, <1>4, <1>6, PollingCounts DEF CountsOpen

\* Steps of the iterator.
LEMMA IteratorCounts ==
  ASSUME CountsOpen, Looks \/ Looked \/ Skips
  PROVE  CountsOpen'
<1>1. TypeOK /\ Len(pollfds) \in Nat
  BY Lengths DEF CountsOpen
<1>2. /\ UNCHANGED <<ready, fdToRequest, pollfds, readyFds, submitted, length, count, now, events>>
      /\ pc # "prepare" /\ pc' # "prepare"
  BY DEF Looks, Looked, Skips, loop
<1>3. /\ pc' \in {"complete", "collect"} /\ currentTime' \in Nat
      /\ IF pc' = "collect" THEN pit' \in 1 .. Len(pollfds) + 1 ELSE pit' = None
  BY <1>1 DEF Looks, Looked, Skips, loop, TypeOK
<1>4. TypeOK'
  BY <1>1, <1>2, <1>3 DEF TypeOK
<1> QED BY <1>2, <1>4 DEF CountsOpen, Range

LEMMA CollectsCounts ==
  ASSUME CountsOpen, Collects
  PROVE  CountsOpen'
<1> DEFINE fd == pollfds[pit].fd
<1>1. TypeOK /\ pc = "collect"
  BY DEF CountsOpen, Collects
<1>2. /\ Len(pollfds) \in Nat /\ DOMAIN pollfds = 1 .. Len(pollfds)
      /\ Len(ready) \in Nat /\ DOMAIN ready = 1 .. Len(ready)
      /\ pollfds \in Seq(Entries) /\ ready \in Seq(Fds)
  BY <1>1, Lengths DEF TypeOK, Entries
<1>3. pit \in 1 .. Len(pollfds) /\ fd \in Fds /\ fd \in DOMAIN fdToRequest
  <2>1. pit \in 1 .. Len(pollfds)
    BY <1>1, <1>2 DEF TypeOK, Collects
  <2> QED BY <1>1, <1>2, <2>1, Lengths DEF CountsOpen, Entries
<1>4. /\ pollfds' = RemoveAt(pollfds, pit) /\ ready' = Append(ready, fd)
      /\ fdToRequest' = [f \in DOMAIN fdToRequest \ {fd} |-> fdToRequest[f]]
      /\ \E result \in Outcomes(pollfds[pit]) : length' = [length EXCEPT ![fd] = result]
      /\ events' = IF pollfds[pit].revents = "none" THEN events
                   ELSE [events EXCEPT ![fd] = "none"]
      /\ UNCHANGED <<readyFds, submitted, pit, currentTime, pc, count, now>>
  BY DEF Collects, iterator, loop
<1> HIDE DEF fd
<1>5. /\ pollfds' \in Seq(Entries) /\ Len(pollfds') = Len(pollfds) - 1
      /\ \A k \in 1 .. Len(pollfds) - 1 :
           pollfds'[k] = IF k < pit THEN pollfds[k] ELSE pollfds[k + 1]
      /\ DOMAIN pollfds' = 1 .. Len(pollfds) - 1
  <2>1. /\ RemoveAt(pollfds, pit) \in Seq(Entries)
        /\ Len(RemoveAt(pollfds, pit)) = Len(pollfds) - 1
        /\ \A k \in 1 .. Len(pollfds) - 1 :
             RemoveAt(pollfds, pit)[k] = IF k < pit THEN pollfds[k] ELSE pollfds[k + 1]
    BY ONLY <1>2, <1>3, RemoveAtProperties
  <2>2. DOMAIN RemoveAt(pollfds, pit) = 1 .. Len(RemoveAt(pollfds, pit))
    BY ONLY <2>1, LenProperties
  <2> QED BY <1>4, <2>1, <2>2
<1>6. /\ ready' \in Seq(Fds) /\ Len(ready') = Len(ready) + 1
      /\ \A k \in 1 .. Len(ready) : ready'[k] = ready[k]
      /\ ready'[Len(ready) + 1] = fd
      /\ DOMAIN ready' = 1 .. Len(ready) + 1
  BY <1>2, <1>3, <1>4, AppendProperties, LenProperties
<1>7. DOMAIN fdToRequest' = DOMAIN fdToRequest \ {fd} /\ fdToRequest' \in [DOMAIN fdToRequest' -> Nat]
  BY <1>1, <1>4 DEF TypeOK
<1>8. /\ length' \in [Fds -> Results \cup {"none"}] /\ length'[fd] \in Results
      /\ \A f \in Fds \ {fd} : length'[f] = length[f]
  BY <1>1, <1>3, <1>4 DEF TypeOK, Outcomes
<1>9. events' \in [Fds -> Events]
  BY <1>1, <1>3, <1>4 DEF TypeOK, Events
<1>10. TypeOK'
  <2>1. pc' = "collect" /\ pit' \in 1 .. Len(pollfds') + 1
    BY <1>1, <1>2, <1>3, <1>4, <1>5
  <2> QED BY <1>1, <1>4, <1>5, <1>6, <1>7, <1>8, <1>9, <2>1 DEF TypeOK, Entries
<1>11. pollfds[pit].fd = fd /\ \A j, k \in 1 .. Len(pollfds) : pollfds[j].fd = pollfds[k].fd => j = k
  BY <1>2 DEF CountsOpen, fd
<1>12. \A j, k \in DOMAIN pollfds' : pollfds'[j].fd = pollfds'[k].fd => j = k
  <2> SUFFICES ASSUME NEW j \in 1 .. Len(pollfds) - 1, NEW k \in 1 .. Len(pollfds) - 1,
                      pollfds'[j].fd = pollfds'[k].fd
               PROVE  j = k
    BY <1>5
  <2> DEFINE from(i) == IF i < pit THEN i ELSE i + 1
  <2>1. from(j) \in 1 .. Len(pollfds) /\ from(k) \in 1 .. Len(pollfds)
    BY <1>2, <1>3
  <2>2. pollfds[from(j)].fd = pollfds[from(k)].fd
    BY <1>5
  <2>3. from(j) = from(k)
    BY <1>11, <2>1, <2>2
  <2> QED BY <2>3, <1>3
<1>13. {pollfds'[k].fd : k \in DOMAIN pollfds'} = DOMAIN fdToRequest'
  <2>1. DOMAIN fdToRequest = {pollfds[k].fd : k \in 1 .. Len(pollfds)}
    BY <1>2 DEF CountsOpen
  <2>2. ASSUME NEW k \in 1 .. Len(pollfds) - 1
        PROVE  pollfds'[k].fd \in DOMAIN fdToRequest \ {fd}
    <3> DEFINE from == IF k < pit THEN k ELSE k + 1
    <3>1. from \in 1 .. Len(pollfds) /\ from # pit
      BY <1>2, <1>3
    <3>2. pollfds'[k].fd = pollfds[from].fd
      BY <1>5
    <3> QED BY <1>3, <1>11, <2>1, <3>1, <3>2
  <2>3. ASSUME NEW f \in DOMAIN fdToRequest \ {fd}
        PROVE  \E k \in 1 .. Len(pollfds) - 1 : pollfds'[k].fd = f
    <3>1. PICK i \in 1 .. Len(pollfds) : pollfds[i].fd = f
      BY <2>1
    <3>2. i # pit
      BY <1>11, <3>1
    <3>3. CASE i < pit
      <4>1. i \in 1 .. Len(pollfds) - 1 /\ pollfds'[i] = pollfds[i]
        BY <1>2, <1>3, <1>5, <3>3
      <4> QED BY <3>1, <4>1
    <3>4. CASE i > pit
      <4>1. i - 1 \in 1 .. Len(pollfds) - 1 /\ pollfds'[i - 1] = pollfds[i]
        BY <1>2, <1>3, <1>5, <3>4
      <4> QED BY <3>1, <4>1
    <3> QED BY <3>2, <3>3, <3>4, <1>3
  <2> QED BY <1>5, <1>7, <2>2, <2>3
<1>14. fd \notin Range(ready) /\ \A k \in 1 .. Len(ready) : ready[k] # fd /\ ready[k] \in Fds
  BY <1>1, <1>2, <1>3, Lengths DEF CountsOpen, Range
<1>15. \A j, k \in DOMAIN ready' : ready'[j] = ready'[k] => j = k
  BY <1>2, <1>6, <1>14 DEF CountsOpen
<1>16. DOMAIN fdToRequest' \cap Range(ready)' = {}
  <2>1. Range(ready)' = Range(ready) \cup {fd}
    BY <1>2, <1>6 DEF Range
  <2> QED BY <1>7, <2>1 DEF CountsOpen
<1>17. \A k \in DOMAIN ready' : length'[ready'[k]] \in Results
  BY <1>2, <1>6, <1>8, <1>14 DEF CountsOpen
<1>18. /\ count' + submitted' = Len(pollfds') + Len(ready')
       /\ count' > 0 /\ submitted' = 0 /\ submitted' <= Len(pollfds')
  BY <1>1, <1>2, <1>3, <1>4, <1>5, <1>6 DEF CountsOpen, TypeOK
<1> QED BY <1>10, <1>12, <1>13, <1>15, <1>16, <1>17, <1>18 DEF CountsOpen

LEMMA CompletesCounts ==
  ASSUME CountsOpen, Completes
  PROVE  CountsOpen'
<1> DEFINE fd == Last(ready)
<1>1. TypeOK /\ pc = "complete" /\ ready # <<>>
  BY DEF CountsOpen, Completes
<1>2. /\ Len(pollfds) \in Nat /\ Len(ready) \in Nat /\ DOMAIN ready = 1 .. Len(ready)
      /\ ready \in Seq(Fds) /\ \A k \in 1 .. Len(ready) : ready[k] \in Fds
  BY <1>1, Lengths DEF TypeOK
<1>3. /\ ready' = Front(ready) /\ length' = [length EXCEPT ![fd] = "none"]
      /\ count' = count - 1 /\ pc' = "prepare"
      /\ UNCHANGED <<fdToRequest, pollfds, readyFds, submitted, pit, currentTime, now, events>>
  BY DEF Completes, Taken, iterator
<1>4. /\ ready' \in Seq(Fds) /\ Len(ready) > 0 /\ Len(ready') = Len(ready) - 1
      /\ \A k \in 1 .. Len(ready) - 1 : ready'[k] = ready[k]
      /\ fd = ready[Len(ready)] /\ fd \in Fds
      /\ DOMAIN ready' = 1 .. Len(ready) - 1
  <2>1. /\ Front(ready) \in Seq(Fds) /\ Len(ready) \in Nat \ {0}
        /\ Len(Front(ready)) = Len(ready) - 1
        /\ \A k \in 1 .. Len(ready) - 1 : Front(ready)[k] = ready[k]
        /\ fd = ready[Len(ready)] /\ fd \in Fds
    BY <1>1, <1>2, FrontProperties
  <2>2. DOMAIN Front(ready) = 1 .. Len(Front(ready))
    BY ONLY <2>1, LenProperties
  <2> HIDE DEF fd
  <2> QED BY <1>3, <2>1, <2>2
<1> HIDE DEF fd
<1>5. count' \in Nat
  BY <1>1, <1>3 DEF CountsOpen, TypeOK
<1>6. length' \in [Fds -> Results \cup {"none"}] /\ \A f \in Fds \ {fd} : length'[f] = length[f]
  BY <1>1, <1>3, <1>4 DEF TypeOK
<1>7. TypeOK'
  BY <1>1, <1>3, <1>4, <1>5, <1>6 DEF TypeOK
<1>8. \A k \in 1 .. Len(ready) - 1 : ready[k] # fd
  BY <1>2, <1>4 DEF CountsOpen
<1>9. \A k \in DOMAIN ready' : length'[ready'[k]] \in Results
  <2>1. \A k \in 1 .. Len(ready) : ready[k] \in Fds /\ length[ready[k]] \in Results
    BY <1>1, <1>2 DEF CountsOpen, TypeOK
  <2> QED BY <1>4, <1>6, <1>8, <2>1
<1>10. \A j, k \in DOMAIN ready' : ready'[j] = ready'[k] => j = k
  <2>1. \A j, k \in 1 .. Len(ready) : ready[j] = ready[k] => j = k
    BY <1>2 DEF CountsOpen
  <2> QED BY <1>4, <2>1
<1>11. DOMAIN fdToRequest' \cap Range(ready)' = {}
  <2>1. Range(ready)' \subseteq Range(ready)
    BY <1>2, <1>4 DEF Range
  <2> QED BY <1>3, <2>1 DEF CountsOpen
<1>12. /\ count' + submitted' = Len(pollfds') + Len(ready')
       /\ submitted' <= Len(pollfds')
  BY <1>1, <1>2, <1>3, <1>4 DEF CountsOpen, TypeOK
<1> QED BY <1>3, <1>7, <1>9, <1>10, <1>11, <1>12 DEF CountsOpen

\* The kernel and the clock.
LEMMA KernelCounts ==
  ASSUME CountsOpen, PollAssumption, Arrives \/ Tick
  PROVE  CountsOpen'
<1>1. UNCHANGED <<socket, pc, count>>
  BY DEF Arrives, Tick, loop
<1>2. now' \in Nat /\ events' \in [Fds -> Events]
  <2>1. now \in Nat /\ events \in [Fds -> Events]
    BY DEF CountsOpen, TypeOK
  <2>2. CASE Arrives
    BY <2>1, <2>2 DEF Arrives
  <2>3. CASE Tick
    BY <2>1, <2>3 DEF Tick
  <2> QED BY <2>2, <2>3
<1>3. TypeOK'
  BY <1>1, <1>2 DEF CountsOpen, TypeOK, socket, iterator
<1> QED BY <1>1, <1>3 DEF CountsOpen, socket, Range

LEMMA NextCounts ==
  ASSUME CountsOpen, PollAssumption, [Next]_vars
  PROVE  CountsOpen'
<1>1. CASE \E fd \in Fds, timeout \in Timeouts : Enqueue(fd, timeout)
  BY <1>1, EnqueueCounts
<1>2. CASE Loop
  BY <1>2, SubmitsCounts, PollsCounts, IteratorCounts, CollectsCounts, CompletesCounts DEF Loop
<1>3. CASE Arrives \/ Tick
  BY <1>3, KernelCounts
<1>4. CASE UNCHANGED vars
  BY <1>4 DEF vars, socket, iterator, loop, CountsOpen, TypeOK, Range
<1> QED BY <1>1, <1>2, <1>3, <1>4 DEF Next

\* The loop of the receiver never waits for a completion that cannot come, nor loses one,
\* and complete finds the request of every descriptor (poll_socket.cpp:65 and 104).
THEOREM EveryRequestCounted == Spec => []CountsOpen
<1>1. Init => CountsOpen
  BY InitCounts, PollAssumption
<1>2. CountsOpen /\ [Next]_vars => CountsOpen'
  BY NextCounts, PollAssumption
<1> QED BY <1>1, <1>2, PTL DEF Spec

-----------------------------------------------------------------------------
(* The poll socket implements Socket. *)

\* The requests not submitted yet are as many as submitted says, and under way.
LEMMA NotSubmittedProperties ==
  ASSUME CountsOpen
  PROVE  /\ NotSubmitted \subseteq DOMAIN fdToRequest
         /\ Cardinality(NotSubmitted) = submitted
         /\ submitted = 0 => NotSubmitted = {}
<1> DEFINE last == Len(pollfds) - submitted + 1 .. Len(pollfds)
           entry == [k \in last |-> pollfds[k].fd]
<1>1. TypeOK
  BY DEF CountsOpen
<1>2. /\ Len(pollfds) \in Nat /\ DOMAIN pollfds = 1 .. Len(pollfds)
      /\ submitted \in Nat /\ submitted <= Len(pollfds)
  BY <1>1, Lengths DEF CountsOpen, TypeOK
<1>3. last \subseteq 1 .. Len(pollfds) /\ (submitted = 0 => last = {})
  BY <1>2
<1>4. NotSubmitted \subseteq DOMAIN fdToRequest /\ (submitted = 0 => NotSubmitted = {})
  BY <1>2, <1>3 DEF CountsOpen, NotSubmitted
<1>5. Cardinality(NotSubmitted) = submitted
  <2>1. IsFiniteSet(last) /\ Cardinality(last) = submitted
    BY <1>2, FS_Interval
  <2>2. entry \in Bijection(last, NotSubmitted)
    <3>1. entry \in [last -> NotSubmitted]
      BY DEF NotSubmitted
    <3>2. \A j, k \in last : entry[j] = entry[k] => j = k
      BY <1>2, <1>3 DEF CountsOpen
    <3>3. \A fd \in NotSubmitted : \E k \in last : entry[k] = fd
      BY DEF NotSubmitted
    <3> QED BY <3>1, <3>2, <3>3 DEF Bijection, Injection, Surjection, IsInjective
  <2> QED BY <2>1, <2>2, FS_Bijection DEF ExistsBijection
<1> QED BY <1>4, <1>5

\* The same of the next state.
LEMMA NotSubmittedPrimed ==
  ASSUME CountsOpen'
  PROVE  submitted' = 0 => NotSubmitted' = {}
<1>1. Len(pollfds') \in Nat
  BY LenProperties DEF CountsOpen, TypeOK
<1> QED BY <1>1 DEF NotSubmitted

LEMMA EnqueuePrepares ==
  ASSUME CountsOpen, NEW fd \in Fds, NEW timeout \in Timeouts, Enqueue(fd, timeout)
  PROVE  Abstract!Prepare(fd)
<1> DEFINE entry == [fd |-> fd, revents |-> "none"]
<1>1. TypeOK /\ fd \notin Open
  BY DEF CountsOpen, Enqueue
<1>2. /\ Len(pollfds) \in Nat /\ DOMAIN pollfds = 1 .. Len(pollfds) /\ submitted \in Nat
      /\ pollfds \in Seq(Entries) /\ entry \in Entries /\ submitted <= Len(pollfds)
  BY <1>1, Lengths DEF TypeOK, Entries, Events, CountsOpen
<1>3. /\ Len(pollfds') = Len(pollfds) + 1 /\ submitted' = submitted + 1
      /\ \A k \in 1 .. Len(pollfds) : pollfds'[k] = pollfds[k]
      /\ pollfds'[Len(pollfds) + 1] = entry
  BY <1>2, AppendProperties DEF Enqueue
<1>4. NotSubmitted' = NotSubmitted \cup {fd}
  <2>1. NotSubmitted' = {pollfds'[k].fd : k \in Len(pollfds) - submitted + 1 .. Len(pollfds) + 1}
    BY <1>2, <1>3 DEF NotSubmitted
  <2>2. Len(pollfds) - submitted + 1 .. Len(pollfds) + 1
          = (Len(pollfds) - submitted + 1 .. Len(pollfds)) \cup {Len(pollfds) + 1}
    BY <1>2
  <2>3. \A k \in Len(pollfds) - submitted + 1 .. Len(pollfds) : pollfds'[k].fd = pollfds[k].fd
    BY <1>2, <1>3
  <2>4. pollfds'[Len(pollfds) + 1].fd = fd
    BY <1>3
  <2> DEFINE ks == Len(pollfds) - submitted + 1 .. Len(pollfds)
  <2>5. NotSubmitted = {pollfds[k].fd : k \in ks} /\ NotSubmitted' = {pollfds'[k].fd : k \in ks \cup {Len(pollfds) + 1}}
    BY <2>1, <2>2 DEF NotSubmitted
  <2> HIDE DEF ks
  <2>6. \A k \in ks : pollfds'[k].fd = pollfds[k].fd
    BY <2>3 DEF ks
  <2>7. {pollfds'[k].fd : k \in ks \cup {Len(pollfds) + 1}} = {pollfds[k].fd : k \in ks} \cup {fd}
    BY ONLY <2>4, <2>6
  <2> QED BY <2>5, <2>7
<1>5. Open' = Open \cup {fd}
  BY DEF Enqueue, Open, Range
<1>6. NotSubmitted \subseteq Open
  BY NotSubmittedProperties DEF Open
<1>7. UNCHANGED <<answered, returned>>
  BY DEF Enqueue, loop
<1> QED BY <1>1, <1>4, <1>5, <1>6, <1>7 DEF Abstract!Prepare

LEMMA SubmitsSubmits ==
  ASSUME CountsOpen, CountsOpen', Submits
  PROVE  Abstract!Submit
<1>1. submitted' = 0 /\ returned' = submitted /\ UNCHANGED <<ready, fdToRequest, answered>>
  BY DEF Submits
<1>2. NotSubmitted' = {} /\ Open' = Open
  BY <1>1, NotSubmittedProperties, NotSubmittedPrimed DEF Open, Range
<1>3. NotSubmitted \subseteq Open /\ Cardinality(NotSubmitted) = submitted
  BY NotSubmittedProperties DEF Open
<1>4. (Open \ NotSubmitted)' = (Open \ NotSubmitted) \cup NotSubmitted
  BY <1>2, <1>3
<1>5. Abstract!Cardinality(NotSubmitted) = Cardinality(NotSubmitted)
  BY DEF Abstract!Cardinality, Cardinality
<1> QED BY <1>1, <1>2, <1>3, <1>4, <1>5 DEF Abstract!Submit

\* A step inside of complete leaves the requests of a user of Socket where they are.
LEMMA CompletingStutters ==
  ASSUME CountsOpen, CountsOpen', Polls \/ Looks \/ Looked \/ Skips \/ Collects
  PROVE  UNCHANGED Abstract!socketVars
<1>1. pc # "prepare" /\ submitted' = submitted /\ UNCHANGED <<answered, returned>>
  BY DEF Polls, Looks, Looked, Skips, Collects, loop
<1>2. submitted = 0
  BY <1>1 DEF CountsOpen
<1>3. NotSubmitted = {} /\ NotSubmitted' = {}
  BY <1>1, <1>2, NotSubmittedProperties, NotSubmittedPrimed
<1>4. Open' = Open
  <2>1. CASE Collects
    <3> DEFINE fd == pollfds[pit].fd
    <3>1. TypeOK
      BY DEF CountsOpen
    <3>2. /\ Len(pollfds) \in Nat /\ DOMAIN pollfds = 1 .. Len(pollfds)
          /\ Len(ready) \in Nat /\ DOMAIN ready = 1 .. Len(ready) /\ ready \in Seq(Fds)
          /\ \A k \in 1 .. Len(pollfds) : pollfds[k].fd \in Fds
      BY <3>1, Lengths DEF TypeOK, Entries
    <3>3. pit \in 1 .. Len(pollfds) /\ fd \in DOMAIN fdToRequest /\ fd \in Fds
      BY <2>1, <3>1, <3>2 DEF CountsOpen, TypeOK, Collects
    <3>4. ready' = Append(ready, fd) /\ DOMAIN fdToRequest' = DOMAIN fdToRequest \ {fd}
      BY <2>1 DEF Collects
    <3> HIDE DEF fd
    <3>5. /\ \A k \in 1 .. Len(ready) : ready'[k] = ready[k]
          /\ ready'[Len(ready) + 1] = fd
          /\ DOMAIN ready' = 1 .. Len(ready) + 1
      BY <3>2, <3>3, <3>4, AppendProperties, LenProperties
    <3>6. Range(ready)' = Range(ready) \cup {fd}
      BY <3>2, <3>5 DEF Range
    <3> QED BY <3>3, <3>4, <3>6 DEF Open
  <2>2. CASE ~ Collects
    BY <2>2 DEF Polls, Looks, Looked, Skips, Open, Range
  <2> QED BY <2>1, <2>2
<1> QED BY <1>1, <1>3, <1>4 DEF Abstract!socketVars

LEMMA CompletesCompletes ==
  ASSUME CountsOpen, CountsOpen', Completes
  PROVE  Abstract!Complete(Last(ready)) /\ Last(ready) \in Fds
<1> DEFINE fd == Last(ready)
<1>1. TypeOK /\ ready # <<>> /\ submitted = 0 /\ submitted' = 0
  BY DEF CountsOpen, Completes
<1>2. NotSubmitted = {} /\ NotSubmitted' = {}
  BY <1>1, NotSubmittedProperties, NotSubmittedPrimed
<1>3. /\ Len(ready) \in Nat \ {0} /\ DOMAIN ready = 1 .. Len(ready) /\ ready \in Seq(Fds)
      /\ Front(ready) \in Seq(Fds) /\ Len(Front(ready)) = Len(ready) - 1
      /\ \A k \in 1 .. Len(ready) - 1 : Front(ready)[k] = ready[k]
      /\ fd = ready[Len(ready)] /\ fd \in Fds
  BY <1>1, FrontProperties, Lengths DEF TypeOK
<1>4. DOMAIN Front(ready) = 1 .. Len(ready) - 1
  BY <1>3, LenProperties
<1>5. /\ ready' = Front(ready) /\ answered' = [fd |-> fd, result |-> length[fd]]
      /\ UNCHANGED <<fdToRequest, returned>>
  BY DEF Completes, Taken
<1> HIDE DEF fd
<1>6. fd \in Range(ready) /\ fd \notin DOMAIN fdToRequest /\ length[fd] \in Results
  BY <1>3 DEF CountsOpen, Range
<1>7. Range(ready)' = Range(ready) \ {fd}
  <2>1. \A k \in 1 .. Len(ready) - 1 : ready[k] # fd
    BY <1>3 DEF CountsOpen
  <2> DEFINE n == Len(ready)
  <2>2. n \in Nat \ {0} /\ Range(ready) = {ready[k] : k \in 1 .. n}
    BY <1>3 DEF Range
  <2>3. Range(ready)' = {ready[k] : k \in 1 .. n - 1}
    BY <1>3, <1>4, <1>5 DEF Range
  <2>4. ready[n] = fd /\ \A k \in 1 .. n - 1 : ready[k] # fd
    BY <1>3, <2>1
  <2> HIDE DEF n
  <2>5. 1 .. n = (1 .. n - 1) \cup {n}
    BY <2>2
  <2>6. {ready[k] : k \in (1 .. n - 1) \cup {n}} = {ready[k] : k \in 1 .. n - 1} \cup {fd}
    BY ONLY <2>4
  <2>7. fd \notin {ready[k] : k \in 1 .. n - 1}
    BY ONLY <2>4
  <2> QED BY ONLY <2>2, <2>3, <2>5, <2>6, <2>7
<1>8. fd \in Open /\ Open' = Open \ {fd}
  BY <1>5, <1>6, <1>7 DEF Open
<1> QED BY <1>2, <1>3, <1>5, <1>6, <1>8 DEF Abstract!Complete, fd

\* Whoever uses a Socket (tasked_send_receiver.cpp:258) may have it be a PollSocket:
\* every request that was submitted comes back at most once, and nothing else does.
THEOREM PollSocketIsASocket == Spec => ImplementsSocket
<1>1. Init => Abstract!SocketInit
  <2> SUFFICES ASSUME Init
               PROVE  Abstract!SocketInit
    OBVIOUS
  <2>1. Open = {} /\ NotSubmitted = {}
    <3>1. CountsOpen /\ submitted = 0
      BY InitCounts, PollAssumption DEF Init
    <3>2. DOMAIN fdToRequest = {} /\ Range(ready) = {}
      BY EmptySeq, LenProperties DEF Init, Range
    <3> QED BY <3>1, <3>2, NotSubmittedProperties DEF Open
  <2> QED BY <2>1 DEF Init, Abstract!SocketInit, Nobody, Abstract!Nobody
<1>2. CountsOpen /\ CountsOpen' /\ [Next]_vars
        => [Abstract!SocketNext]_(Abstract!socketVars)
  <2> SUFFICES ASSUME CountsOpen, CountsOpen', [Next]_vars
               PROVE  [Abstract!SocketNext]_(Abstract!socketVars)
    OBVIOUS
  <2>1. CASE \E fd \in Fds, timeout \in Timeouts : Enqueue(fd, timeout)
    BY <2>1, EnqueuePrepares DEF Abstract!SocketNext
  <2>2. CASE Submits
    BY <2>2, SubmitsSubmits DEF Abstract!SocketNext
  <2>3. CASE Polls \/ Looks \/ Looked \/ Skips \/ Collects
    BY <2>3, CompletingStutters
  <2>4. CASE Completes
    BY <2>4, CompletesCompletes DEF Abstract!SocketNext
  <2>5. CASE Arrives \/ Tick \/ UNCHANGED vars
    BY <2>5 DEF Arrives, Tick, vars, socket, loop, Abstract!socketVars, Open, NotSubmitted, Range
  <2> QED BY <2>1, <2>2, <2>3, <2>4, <2>5 DEF Next, Loop
<1>3. Spec => []CountsOpen
  BY EveryRequestCounted
<1> QED BY <1>1, <1>2, <1>3, PTL DEF Spec, ImplementsSocket, Abstract!SocketSpec

=============================================================================
