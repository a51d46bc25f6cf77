------------------------ MODULE ConnectionCache_proofs ------------------------
(***************************************************************************)
(* Proofs about ConnectionCache, for any hosts, addresses, descriptors and *)
(* limits.  Where an entry stands in the multimap does not matter for      *)
(* them, so a cache is looked at as a family of entries: Arranges says     *)
(* that a sequence is one under other indices, and the invariant is stated *)
(* of families.                                                            *)
(***************************************************************************)
EXTENDS ConnectionCache, SequenceTheorems, FiniteSetTheorems, WellFoundedInduction, TLAPS

-----------------------------------------------------------------------------
(* Ranks. *)

\* The ranks of a finite set's members are the numbers up to its size, in order.
LEMMA RankFacts ==
  ASSUME NEW S \in SUBSET Int, IsFiniteSet(S)
  PROVE  /\ Cardinality(S) \in Nat
         /\ \A k \in S : Rank(S, k) \in 1 .. Cardinality(S)
         /\ \A j, k \in S : Rank(S, j) = Rank(S, k) => j = k
         /\ \A i \in 1 .. Cardinality(S) : \E k \in S : Rank(S, k) = i
<1> DEFINE upTo(k) == {j \in S : j <= k}
           f == [k \in S |-> Rank(S, k)]
<1>1. Cardinality(S) \in Nat
  BY FS_CardinalityType
<1>2. \A k \in S : /\ IsFiniteSet(upTo(k)) /\ Cardinality(upTo(k)) \in Nat
                   /\ Cardinality(upTo(k)) <= Cardinality(S)
  <2> TAKE k \in S
  <2>1. upTo(k) \in SUBSET S
    OBVIOUS
  <2>2. IsFiniteSet(upTo(k)) /\ Cardinality(upTo(k)) <= Cardinality(S)
    BY <2>1, FS_Subset
  <2> QED BY <2>2, FS_CardinalityType
<1>3. \A k \in S : Rank(S, k) \in 1 .. Cardinality(S)
  <2> TAKE k \in S
  <2>1. k \in upTo(k)
    OBVIOUS
  <2>2. Cardinality(upTo(k)) # 0
    BY <1>2, <2>1, FS_EmptySet
  <2>3. Rank(S, k) = Cardinality(upTo(k))
    BY DEF Rank
  <2> QED BY <1>1, <1>2, <2>2, <2>3
<1>4. \A j, k \in S : j < k => Rank(S, j) # Rank(S, k)
  <2> SUFFICES ASSUME NEW j \in S, NEW k \in S, j < k
               PROVE  Cardinality(upTo(j)) # Cardinality(upTo(k))
    BY DEF Rank
  <2>1. upTo(j) \in SUBSET upTo(k)
    <3>1. \A i \in S : i <= j => i <= k
      OBVIOUS
    <3> QED BY <3>1
  <2>2. k \in upTo(k) /\ k \notin upTo(j)
    OBVIOUS
  <2> QED BY <1>2, <2>1, <2>2, FS_Subset
<1>5. \A j, k \in S : Rank(S, j) = Rank(S, k) => j = k
  BY <1>4
<1>6. \A i \in 1 .. Cardinality(S) : \E k \in S : Rank(S, k) = i
  <2>1. f \in Injection(S, 1 .. Cardinality(S))
    BY <1>3, <1>5 DEF Injection, IsInjective
  <2>2. IsFiniteSet(1 .. Cardinality(S)) /\ Cardinality(1 .. Cardinality(S)) = Cardinality(S)
    BY <1>1, FS_Interval
  <2> HIDE DEF f
  <2>3. f \in Surjection(S, 1 .. Cardinality(S))
    BY <2>1, <2>2, FS_Injection
  <2>4. \A i \in 1 .. Cardinality(S) : \E k \in S : f[k] = i
    BY <2>3 DEF Surjection
  <2> QED BY <2>4 DEF f
<1> QED BY <1>1, <1>3, <1>5, <1>6

LEMMA NthFacts ==
  ASSUME NEW S \in SUBSET Int, IsFiniteSet(S)
  PROVE  /\ \A i \in 1 .. Cardinality(S) : Nth(S, i) \in S
         /\ \A i, j \in 1 .. Cardinality(S) : Nth(S, i) = Nth(S, j) => i = j
         /\ \A k \in S : \E i \in 1 .. Cardinality(S) : Nth(S, i) = k
<1>1. \A i \in 1 .. Cardinality(S) : Nth(S, i) \in S /\ Rank(S, Nth(S, i)) = i
  BY RankFacts DEF Nth
<1>2. \A k \in S : Rank(S, k) \in 1 .. Cardinality(S) /\ Nth(S, Rank(S, k)) = k
  <2> TAKE k \in S
  <2>1. Rank(S, k) \in 1 .. Cardinality(S)
    BY RankFacts
  <2>2. Nth(S, Rank(S, k)) \in S /\ Rank(S, Nth(S, Rank(S, k))) = Rank(S, k)
    BY <1>1, <2>1
  <2>3. \A i, j \in S : Rank(S, i) = Rank(S, j) => i = j
    BY RankFacts
  <2> QED BY <2>1, <2>2, <2>3
<1>3. \A i, j \in 1 .. Cardinality(S) : Nth(S, i) = Nth(S, j) => i = j
  BY <1>1
<1> QED BY <1>1, <1>2, <1>3

-----------------------------------------------------------------------------
(* The multimap as a family of entries. *)

\* s has the entries of the family c, each once.
Arranges(s, c) ==
  \E place \in [DOMAIN s -> DOMAIN c] :
    /\ \A i, j \in DOMAIN s : place[i] = place[j] => i = j
    /\ \A k \in DOMAIN c : \E i \in DOMAIN s : place[i] = k
    /\ \A i \in DOMAIN s : s[i] = c[place[i]]

LEMMA WithoutArranges ==
  ASSUME NEW T, NEW s \in Seq(T), NEW positions
  PROVE  /\ Without(s, positions) \in Seq(T)
         /\ Arranges(Without(s, positions), [k \in DOMAIN s \ positions |-> s[k]])
<1> DEFINE kept == DOMAIN s \ positions
           n == Cardinality(kept)
           place == [i \in 1 .. n |-> Nth(kept, i)]
           w == Without(s, positions)
           c == [k \in kept |-> s[k]]
<1>1. Len(s) \in Nat /\ DOMAIN s = 1 .. Len(s) /\ \A k \in DOMAIN s : s[k] \in T
  BY LenProperties, ElementOfSeq
<1>2. kept \in SUBSET Int /\ IsFiniteSet(kept)
  <2>1. IsFiniteSet(1 .. Len(s))
    BY <1>1, FS_Interval
  <2>2. kept \in SUBSET (1 .. Len(s))
    BY <1>1
  <2>3. 1 .. Len(s) \subseteq Int
    OBVIOUS
  <2> QED BY <2>1, <2>2, <2>3, FS_Subset
<1>3. n \in Nat
  BY <1>2, FS_CardinalityType
<1>4. w = [i \in 1 .. n |-> s[Nth(kept, i)]]
  BY DEF Without
<1> HIDE DEF kept, n, w
<1>5. /\ \A i \in 1 .. n : Nth(kept, i) \in kept
      /\ \A i, j \in 1 .. n : Nth(kept, i) = Nth(kept, j) => i = j
      /\ \A k \in kept : \E i \in 1 .. n : Nth(kept, i) = k
  BY <1>2, NthFacts DEF n
<1>6. kept \subseteq DOMAIN s
  BY DEF kept
<1>7. w \in Seq(T)
  <2>1. \A i \in 1 .. n : s[Nth(kept, i)] \in T
    BY <1>1, <1>5, <1>6
  <2> QED BY <1>3, <1>4, <2>1, IsASeq
<1>8. Arranges(w, c)
  <2>1. DOMAIN w = 1 .. n /\ DOMAIN c = kept
    BY <1>4
  <2>2. place \in [DOMAIN w -> DOMAIN c]
    BY <1>5, <2>1
  <2>3. \A i, j \in DOMAIN w : place[i] = place[j] => i = j
    BY <1>5, <2>1
  <2>4. \A k \in DOMAIN c : \E i \in DOMAIN w : place[i] = k
    BY <1>5, <2>1
  <2>5. \A i \in DOMAIN w : w[i] = c[place[i]]
    BY <1>4, <1>5, <2>1
  <2> HIDE DEF place, c
  <2> QED BY <2>2, <2>3, <2>4, <2>5 DEF Arranges
<1> QED BY <1>7, <1>8 DEF w, kept

\* The family c with one more entry, at an index that no position has.
With(c, e) == [k \in DOMAIN c \cup {0} |-> IF k = 0 THEN e ELSE c[k]]

LEMMA InsertAtIs ==
  ASSUME NEW q, NEW x, NEW i
  PROVE  InsertAt(q, i, x) = SubSeq(q, 1, i - 1) \o <<x>> \o SubSeq(q, i, Len(q))
BY DEF InsertAt

LEMMA EmplacedArranges ==
  ASSUME NEW s \in Seq(Entries), NEW e \in Entries, NEW c, Arranges(s, c), 0 \notin DOMAIN c
  PROVE  /\ Emplaced(s, e) \in Seq(Entries)
         /\ Arranges(Emplaced(s, e), With(c, e))
<1> DEFINE before == {k \in DOMAIN s : s[k].host <= e.host}
           b == Cardinality(before)
           n == Len(s)
           m == Emplaced(s, e)
<1>1. n \in Nat /\ DOMAIN s = 1 .. n /\ \A k \in 1 .. n : s[k] \in Entries
  BY LenProperties, ElementOfSeq
<1>2. b \in 0 .. n
  <2>1. IsFiniteSet(1 .. n) /\ Cardinality(1 .. n) = n
    BY <1>1, FS_Interval
  <2>2. before \in SUBSET (1 .. n)
    BY <1>1
  <2> HIDE DEF before
  <2>3. IsFiniteSet(before) /\ b <= n
    BY <2>1, <2>2, FS_Subset
  <2> QED BY <1>1, <2>3, FS_CardinalityType
<1>3. m = SubSeq(s, 1, b) \o <<e>> \o SubSeq(s, b + 1, n)
  <2>1. m = InsertAt(s, b + 1, e)
    BY DEF Emplaced
  <2>2. b + 1 - 1 = b
    BY <1>2
  <2> HIDE DEF b, n, m
  <2>3. \A i : InsertAt(s, i, e) = SubSeq(s, 1, i - 1) \o <<e>> \o SubSeq(s, i, Len(s))
    BY InsertAtIs
  <2> DEFINE i == b + 1
  <2>4. m = InsertAt(s, i, e) /\ i - 1 = b
    BY <1>1, <1>2, <2>1
  <2> HIDE DEF i
  <2>5. m = SubSeq(s, 1, i - 1) \o <<e>> \o SubSeq(s, i, Len(s))
    BY <2>3, <2>4
  <2> QED BY <2>4, <2>5 DEF n, i
<1> HIDE DEF b, n, m
<1>4. /\ m \in Seq(Entries) /\ Len(m) = n + 1
      /\ \A i \in 1 .. n + 1 :
           m[i] = IF i <= b THEN s[i] ELSE IF i = b + 1 THEN e ELSE s[i - 1]
  <2> DEFINE s1 == SubSeq(s, 1, b)
             s2 == SubSeq(s, b + 1, n)
  <2>1. s1 \in Seq(Entries) /\ Len(s1) = b /\ \A i \in 1 .. b : s1[i] = s[i]
    <3>1. \A i \in 1 .. b : s[i] \in Entries
      BY <1>1, <1>2
    <3>2. /\ s1 \in Seq(Entries) /\ Len(s1) = IF 1 <= b THEN b - 1 + 1 ELSE 0
          /\ \A i \in 1 .. b - 1 + 1 : s1[i] = s[1 + i - 1]
      BY <1>1, <1>2, <3>1, SubSeqProperties
    <3> QED BY <1>1, <1>2, <3>2
  <2>2. s2 \in Seq(Entries) /\ Len(s2) = n - b /\ \A i \in 1 .. n - b : s2[i] = s[b + i]
    <3>1. \A i \in b + 1 .. n : s[i] \in Entries
      BY <1>1, <1>2
    <3>2. /\ s2 \in Seq(Entries) /\ Len(s2) = IF b + 1 <= n THEN n - (b + 1) + 1 ELSE 0
          /\ \A i \in 1 .. n - (b + 1) + 1 : s2[i] = s[b + 1 + i - 1]
      BY <1>1, <1>2, <3>1, SubSeqProperties
    <3> QED BY <1>1, <1>2, <3>2
  <2> HIDE DEF s1, s2
  <2>3. <<e>> \in Seq(Entries) /\ Len(<<e>>) = 1 /\ <<e>>[1] = e
    OBVIOUS
  <2>4. /\ s1 \o <<e>> \in Seq(Entries) /\ Len(s1 \o <<e>>) = b + 1
        /\ \A i \in 1 .. b + 1 : (s1 \o <<e>>)[i] = IF i <= b THEN s[i] ELSE e
    <3>1. /\ s1 \o <<e>> \in Seq(Entries) /\ Len(s1 \o <<e>>) = b + 1
          /\ \A i \in 1 .. b + 1 :
               (s1 \o <<e>>)[i] = IF i <= b THEN s1[i] ELSE <<e>>[i - b]
      BY <2>1, <2>3, ConcatProperties
    <3>2. \A i \in 1 .. b + 1 : ~ (i <= b) => i - b = 1
      BY <1>1, <1>2
    <3> QED BY <1>1, <1>2, <2>1, <2>3, <3>1, <3>2
  <2> DEFINE t == s1 \o <<e>>
  <2>5. m = t \o s2
    BY <1>3 DEF s1, s2
  <2> HIDE DEF t
  <2>6. t \in Seq(Entries) /\ Len(t) = b + 1
        /\ \A i \in 1 .. b + 1 : t[i] = IF i <= b THEN s[i] ELSE e
    BY <2>4 DEF t
  <2>7. /\ m \in Seq(Entries) /\ Len(m) = b + 1 + (n - b)
        /\ \A i \in 1 .. b + 1 + (n - b) :
             m[i] = IF i <= b + 1 THEN t[i] ELSE s2[i - (b + 1)]
    <3>1. /\ t \o s2 \in Seq(Entries) /\ Len(t \o s2) = Len(t) + Len(s2)
          /\ \A i \in 1 .. Len(t) + Len(s2) :
               (t \o s2)[i] = IF i <= Len(t) THEN t[i] ELSE s2[i - Len(t)]
      BY <2>2, <2>6, ConcatProperties
    <3> QED BY ONLY <2>2, <2>5, <2>6, <3>1
  <2>8. b + 1 + (n - b) = n + 1
    BY <1>1, <1>2
  <2>9. \A i \in 1 .. n + 1 : ~ (i <= b + 1) =>
           i - (b + 1) \in 1 .. n - b /\ b + (i - (b + 1)) = i - 1
    BY <1>1, <1>2
  <2>10. \A i \in 1 .. n + 1 :
           m[i] = IF i <= b THEN s[i] ELSE IF i = b + 1 THEN e ELSE s[i - 1]
    <3> TAKE i \in 1 .. n + 1
    <3>1. CASE i <= b
      BY <1>1, <1>2, <2>6, <2>7, <2>8, <3>1
    <3>2. CASE i = b + 1
      BY <1>1, <1>2, <2>6, <2>7, <2>8, <3>2
    <3>3. CASE i > b + 1
      BY <1>1, <1>2, <2>2, <2>7, <2>8, <2>9, <3>3
    <3> QED BY <1>1, <1>2, <3>1, <3>2, <3>3
  <2> QED BY <2>7, <2>8, <2>10
<1>5. Arranges(m, With(c, e))
  <2>1. PICK at \in [DOMAIN s -> DOMAIN c] :
          /\ \A i, j \in DOMAIN s : at[i] = at[j] => i = j
          /\ \A k \in DOMAIN c : \E i \in DOMAIN s : at[i] = k
          /\ \A i \in DOMAIN s : s[i] = c[at[i]]
    BY DEF Arranges
  <2> DEFINE place == [i \in 1 .. n + 1 |->
                         IF i <= b THEN at[i] ELSE IF i = b + 1 THEN 0 ELSE at[i - 1]]
  <2>2. DOMAIN m = 1 .. n + 1 /\ DOMAIN With(c, e) = DOMAIN c \cup {0}
    BY <1>4, LenProperties DEF With
  <2>3. \A i \in 1 .. n + 1 : /\ i <= b => i \in DOMAIN s
                              /\ i > b + 1 => i - 1 \in DOMAIN s
    BY <1>1, <1>2
  <2>4. place \in [DOMAIN m -> DOMAIN With(c, e)]
    <3>1. \A i \in 1 .. n + 1 : place[i] \in DOMAIN c \cup {0}
      <4> TAKE i \in 1 .. n + 1
      <4>1. i <= b \/ i = b + 1 \/ (~ (i <= b) /\ i # b + 1 /\ i > b + 1)
        BY <1>1, <1>2
      <4> QED BY <2>1, <2>3, <4>1
    <3> QED BY <2>2, <3>1
  <2>5. \A i, j \in DOMAIN m : place[i] = place[j] => i = j
    <3> SUFFICES ASSUME NEW i \in 1 .. n + 1, NEW j \in 1 .. n + 1, place[i] = place[j]
                 PROVE  i = j
      BY <2>2
    <3>1. \A k \in DOMAIN s : at[k] \in DOMAIN c /\ at[k] # 0
      BY <2>1
    <3>2. (i <= b \/ i = b + 1 \/ i > b + 1) /\ (j <= b \/ j = b + 1 \/ j > b + 1)
      BY <1>1, <1>2
    <3>3. CASE i = b + 1
      <4>1. place[i] = 0
        BY <1>2, <3>3
      <4>2. j <= b => place[j] = at[j] /\ j \in DOMAIN s
        BY <2>3
      <4>3. j > b + 1 => place[j] = at[j - 1] /\ j - 1 \in DOMAIN s
        BY <1>2, <2>3
      <4> QED BY <3>1, <3>2, <3>3, <4>1, <4>2, <4>3
    <3>4. CASE j = b + 1
      <4>1. place[j] = 0
        BY <1>2, <3>4
      <4>2. i <= b => place[i] = at[i] /\ i \in DOMAIN s
        BY <2>3
      <4>3. i > b + 1 => place[i] = at[i - 1] /\ i - 1 \in DOMAIN s
        BY <1>2, <2>3
      <4> QED BY <3>1, <3>2, <3>4, <4>1, <4>2, <4>3
    <3>5. CASE i # b + 1 /\ j # b + 1
      <4> DEFINE p == IF i <= b THEN i ELSE i - 1
                 q == IF j <= b THEN j ELSE j - 1
      <4>1. p \in DOMAIN s /\ q \in DOMAIN s /\ place[i] = at[p] /\ place[j] = at[q]
        BY <1>2, <2>3, <3>2, <3>5
      <4>2. p = q
        BY <2>1, <4>1
      <4> QED BY <1>2, <3>2, <3>5, <4>2
    <3> QED BY <3>3, <3>4, <3>5
  <2>6. \A k \in DOMAIN With(c, e) : \E i \in DOMAIN m : place[i] = k
    <3> SUFFICES ASSUME NEW k \in DOMAIN c \cup {0} PROVE \E i \in 1 .. n + 1 : place[i] = k
      BY <2>2
    <3>1. CASE k = 0
      <4>1. b + 1 \in 1 .. n + 1 /\ place[b + 1] = 0
        BY <1>1, <1>2
      <4> QED BY <3>1, <4>1
    <3>2. CASE k # 0
      <4>1. PICK i \in DOMAIN s : at[i] = k
        BY <2>1, <3>2
      <4>2. i \in 1 .. n
        BY <1>1
      <4>3. CASE i <= b
        <5>1. i \in 1 .. n + 1 /\ place[i] = at[i]
          BY <1>1, <1>2, <4>2, <4>3
        <5> QED BY <4>1, <5>1
      <4>4. CASE i > b
        <5>1. i + 1 \in 1 .. n + 1 /\ ~ (i + 1 <= b) /\ i + 1 # b + 1 /\ i + 1 - 1 = i
          BY <1>1, <1>2, <4>2, <4>4
        <5>2. place[i + 1] = at[i]
          BY <5>1
        <5> QED BY <4>1, <5>1, <5>2
      <4> QED BY <1>2, <4>2, <4>3, <4>4
    <3> QED BY <3>1, <3>2
  <2>7. \A i \in DOMAIN m : m[i] = With(c, e)[place[i]]
    <3> SUFFICES ASSUME NEW i \in 1 .. n + 1 PROVE m[i] = With(c, e)[place[i]]
      BY <2>2
    <3>1. \A k \in DOMAIN s : at[k] \in DOMAIN c /\ at[k] # 0 /\ With(c, e)[at[k]] = s[k]
      BY <2>1 DEF With
    <3>2. CASE i <= b
      BY <1>4, <2>3, <3>1, <3>2
    <3>3. CASE i = b + 1
      <4>1. m[i] = e /\ place[i] = 0
        BY <1>2, <1>4, <3>3
      <4> QED BY <4>1 DEF With
    <3>4. CASE i > b + 1
      <4>1. ~ (i <= b) /\ i # b + 1
        BY <1>2, <3>4
      <4> QED BY <1>4, <2>3, <3>1, <3>4, <4>1
    <3> QED BY <1>2, <3>2, <3>3, <3>4
  <2> HIDE DEF place
  <2> QED BY <2>4, <2>5, <2>6, <2>7 DEF Arranges
<1> QED BY <1>4, <1>5 DEF m

-----------------------------------------------------------------------------
(* The inductive invariant, of a family of entries. *)

\* The FIFO names only sockets of the family, each under its own timestamp; an entry
\* with an address has priority left, and one without has no socket.
Sound(c, f) ==
  /\ \A t \in DOMAIN f : \E k \in DOMAIN c : c[k].fd = f[t] /\ c[k].time = t
  /\ \A k \in DOMAIN c : c[k].addr # NoDns => c[k].priority > 0
  /\ \A k \in DOMAIN c : c[k].addr = NoDns => c[k].fd = NoFd

\* Who has socket d: one in use, one of the family, or the one at hand.
UsedBy(used, d) == \E e \in used : e.fd = d
IdleIn(c, d) == d # NoFd /\ \E k \in DOMAIN c : c[k].fd = d
AtHand(entry, d) == d # NoFd /\ entry.fd = d

\* Every open socket has one owner, and no other socket has any.
Owned(c, used, entry, sockets) ==
  /\ \A d : d \in sockets <=> UsedBy(used, d) \/ IdleIn(c, d) \/ AtHand(entry, d)
  /\ \A d, e \in used : d.fd = e.fd => d = e
  /\ \A j, k \in DOMAIN c : c[j].fd = c[k].fd /\ c[j].fd # NoFd => j = k
  /\ \A d : /\ ~ (UsedBy(used, d) /\ IdleIn(c, d))
            /\ ~ (UsedBy(used, d) /\ AtHand(entry, d))
            /\ ~ (IdleIn(c, d) /\ AtHand(entry, d))

CacheInv ==
  /\ TypeOK
  /\ IsFiniteSet(open)
  /\ current # NoEntry => current.addr # NoDns
  /\ \A e \in active : e.addr # NoDns
  /\ Sound(cache, fifo)
  /\ ~ crashed => Owned(cache, active, current, open)

\* What holds of a family holds of its arrangements.
LEMMA SoundArranged ==
  ASSUME NEW s, NEW c, NEW f, Arranges(s, c), Sound(c, f)
  PROVE  Sound(s, f)
<1>1. PICK place \in [DOMAIN s -> DOMAIN c] :
        /\ \A k \in DOMAIN c : \E i \in DOMAIN s : place[i] = k
        /\ \A i \in DOMAIN s : s[i] = c[place[i]]
  BY DEF Arranges
<1>2. \A i \in DOMAIN s : place[i] \in DOMAIN c
  BY <1>1
<1>3. \A t \in DOMAIN f : \E i \in DOMAIN s : s[i].fd = f[t] /\ s[i].time = t
  BY <1>1 DEF Sound
<1>4. \A i \in DOMAIN s : s[i].addr # NoDns => s[i].priority > 0
  BY <1>1, <1>2 DEF Sound
<1>5. \A i \in DOMAIN s : s[i].addr = NoDns => s[i].fd = NoFd
  BY <1>1, <1>2 DEF Sound
<1> QED BY <1>3, <1>4, <1>5 DEF Sound

LEMMA OwnedArranged ==
  ASSUME NEW s, NEW c, NEW used, NEW entry, NEW sockets,
         Arranges(s, c), Owned(c, used, entry, sockets)
  PROVE  Owned(s, used, entry, sockets)
<1>1. PICK place \in [DOMAIN s -> DOMAIN c] :
        /\ \A i, j \in DOMAIN s : place[i] = place[j] => i = j
        /\ \A k \in DOMAIN c : \E i \in DOMAIN s : place[i] = k
        /\ \A i \in DOMAIN s : s[i] = c[place[i]]
  BY DEF Arranges
<1>2. \A i \in DOMAIN s : place[i] \in DOMAIN c
  BY <1>1
<1>3. \A d : IdleIn(s, d) <=> IdleIn(c, d)
  <2>1. \A d : (\E i \in DOMAIN s : s[i].fd = d) <=> (\E k \in DOMAIN c : c[k].fd = d)
    BY <1>1, <1>2
  <2> QED BY <2>1 DEF IdleIn
<1>4. \A i, j \in DOMAIN s : s[i].fd = s[j].fd /\ s[i].fd # NoFd => i = j
  <2> SUFFICES ASSUME NEW i \in DOMAIN s, NEW j \in DOMAIN s,
                      s[i].fd = s[j].fd, s[i].fd # NoFd
               PROVE  i = j
    OBVIOUS
  <2>1. place[i] = place[j]
    BY <1>1, <1>2 DEF Owned
  <2> QED BY <1>1, <2>1
<1> QED BY <1>3, <1>4 DEF Owned

\* A family without some of its entries, whose timestamps leave the FIFO.
Rest(c, gone) == [k \in DOMAIN c \ gone |-> c[k]]

LEMMA RestSound ==
  ASSUME NEW c, NEW f, NEW gone, NEW times, Sound(c, f),
         \A k \in DOMAIN c \cap gone : c[k].time \in times
  PROVE  Sound(Rest(c, gone), Unlisted(f, times))
<1> DEFINE r == Rest(c, gone)
           g == Unlisted(f, times)
<1>1. DOMAIN r = DOMAIN c \ gone /\ \A k \in DOMAIN r : r[k] = c[k]
  BY DEF Rest
<1>2. DOMAIN g = DOMAIN f \ times /\ \A t \in DOMAIN g : g[t] = f[t]
  BY DEF Unlisted, Restrict
<1> HIDE DEF r, g
<1>3. \A t \in DOMAIN g : \E k \in DOMAIN r : r[k].fd = g[t] /\ r[k].time = t
  <2> TAKE t \in DOMAIN g
  <2>1. PICK k \in DOMAIN c : c[k].fd = f[t] /\ c[k].time = t
    BY <1>2 DEF Sound
  <2>2. k \notin gone
    BY <1>2, <2>1
  <2> QED BY <1>1, <1>2, <2>1, <2>2
<1>4. /\ \A k \in DOMAIN r : r[k].addr # NoDns => r[k].priority > 0
      /\ \A k \in DOMAIN r : r[k].addr = NoDns => r[k].fd = NoFd
  BY <1>1 DEF Sound
<1>5. Sound(r, g)
  BY <1>3, <1>4 DEF Sound
<1> QED BY <1>5 DEF r, g

LEMMA WithSound ==
  ASSUME NEW c, NEW f, NEW e, Sound(c, f), 0 \notin DOMAIN c,
         e.addr # NoDns, e.priority > 0
  PROVE  Sound(With(c, e), f)
<1> DEFINE w == With(c, e)
<1>1. DOMAIN w = DOMAIN c \cup {0} /\ w[0] = e /\ \A k \in DOMAIN c : w[k] = c[k]
  BY DEF With
<1> HIDE DEF w
<1>2. \A t \in DOMAIN f : \E k \in DOMAIN w : w[k].fd = f[t] /\ w[k].time = t
  BY <1>1 DEF Sound
<1>3. /\ \A k \in DOMAIN w : w[k].addr # NoDns => w[k].priority > 0
      /\ \A k \in DOMAIN w : w[k].addr = NoDns => w[k].fd = NoFd
  BY <1>1 DEF Sound
<1>4. Sound(w, f)
  BY <1>2, <1>3 DEF Sound
<1> QED BY <1>4 DEF w

\* The sockets of some of a family's entries.
Sockets(c, gone) == {d \in {c[k].fd : k \in gone} : d # NoFd}

\* The entries that go take their sockets along.
LEMMA RestOwned ==
  ASSUME NEW c, NEW used, NEW entry, NEW sockets, NEW gone, Owned(c, used, entry, sockets),
         gone \subseteq DOMAIN c
  PROVE  Owned(Rest(c, gone), used, entry, sockets \ Sockets(c, gone))
<1> DEFINE r == Rest(c, gone)
           left == sockets \ Sockets(c, gone)
<1>1. DOMAIN r = DOMAIN c \ gone /\ \A k \in DOMAIN r : r[k] = c[k]
  BY DEF Rest
<1>2. \A d : d \in left <=> d \in sockets /\ ~ (d # NoFd /\ \E k \in gone : c[k].fd = d)
  BY DEF Sockets
<1> HIDE DEF r, left
<1>3. \A d : IdleIn(r, d) => IdleIn(c, d)
  BY <1>1 DEF IdleIn
<1>4. \A d : IdleIn(c, d) => IdleIn(r, d) \/ \E k \in gone : c[k].fd = d
  BY <1>1 DEF IdleIn
<1>5. \A d : IdleIn(r, d) => ~ \E k \in gone : c[k].fd = d
  <2> SUFFICES ASSUME NEW d, IdleIn(r, d), NEW k \in gone, c[k].fd = d PROVE FALSE
    OBVIOUS
  <2>1. PICK j \in DOMAIN r : r[j].fd = d /\ d # NoFd
    BY DEF IdleIn
  <2>2. j \in DOMAIN c /\ k \in DOMAIN c /\ c[j].fd = d /\ j \notin gone
    BY <1>1, <2>1
  <2> QED BY <2>1, <2>2 DEF Owned
<1>6. \A d, k : k \in gone /\ c[k].fd = d /\ d # NoFd => IdleIn(c, d)
  BY DEF IdleIn
<1>7. \A d : d \in left <=> UsedBy(used, d) \/ IdleIn(r, d) \/ AtHand(entry, d)
  <2> TAKE d
  <2>1. CASE d = NoFd
    <3>1. ~ IdleIn(r, d) /\ ~ IdleIn(c, d)
      BY <2>1 DEF IdleIn
    <3> QED BY <1>2, <2>1, <3>1 DEF Owned
  <2>2. CASE d # NoFd
    BY <1>2, <1>3, <1>4, <1>5, <1>6, <2>2 DEF Owned
  <2> QED BY <2>1, <2>2
<1>8. \A j, k \in DOMAIN r : r[j].fd = r[k].fd /\ r[j].fd # NoFd => j = k
  BY <1>1 DEF Owned
<1>9. Owned(r, used, entry, left)
  BY <1>3, <1>7, <1>8 DEF Owned
<1> QED BY <1>9 DEF r, left

\* The socket at hand is handed to the family, or closed.
LEMMA WithOwned ==
  ASSUME NEW c, NEW used, NEW entry, NEW sockets, Owned(c, used, entry, sockets),
         0 \notin DOMAIN c, NEW e, e.fd = entry.fd
  PROVE  Owned(With(c, e), used, NoEntry, sockets)
<1> DEFINE w == With(c, e)
<1>1. DOMAIN w = DOMAIN c \cup {0} /\ w[0] = e /\ \A k \in DOMAIN c : w[k] = c[k]
  BY DEF With
<1> HIDE DEF w
<1>2. \A d : IdleIn(w, d) <=> IdleIn(c, d) \/ AtHand(entry, d)
  BY <1>1 DEF IdleIn, AtHand
<1>3. \A d : ~ AtHand(NoEntry, d)
  BY DEF AtHand, NoEntry
<1>4. \A j, k \in DOMAIN w : w[j].fd = w[k].fd /\ w[j].fd # NoFd => j = k
  <2>1. \A k \in DOMAIN c : c[k].fd = e.fd /\ e.fd # NoFd =>
          IdleIn(c, e.fd) /\ AtHand(entry, e.fd)
    BY DEF IdleIn, AtHand
  <2>2. \A k \in DOMAIN c : ~ (c[k].fd = e.fd /\ e.fd # NoFd)
    BY <2>1 DEF Owned
  <2>3. \A j, k \in DOMAIN c : c[j].fd = c[k].fd /\ c[j].fd # NoFd => j = k
    BY DEF Owned
  <2> QED BY <1>1, <2>2, <2>3
<1>5. Owned(w, used, NoEntry, sockets)
  BY <1>2, <1>3, <1>4 DEF Owned
<1> QED BY <1>5 DEF w

LEMMA ClosedOwned ==
  ASSUME NEW c, NEW used, NEW entry, NEW sockets, Owned(c, used, entry, sockets),
         entry.fd # NoFd, NEW other, other.fd = NoFd
  PROVE  Owned(c, used, other, sockets \ {entry.fd})
<1>1. \A d : AtHand(entry, d) <=> d = entry.fd
  BY DEF AtHand
<1>2. \A d : ~ AtHand(other, d)
  BY DEF AtHand
<1>3. \A d : d \in sockets \ {entry.fd} <=> UsedBy(used, d) \/ IdleIn(c, d) \/ AtHand(other, d)
  BY <1>1, <1>2 DEF Owned
<1> QED BY <1>2, <1>3 DEF Owned

\* A socket in use is taken at hand, and back.
LEMMA TakenOwned ==
  ASSUME NEW c, NEW used, NEW sockets, NEW e \in used, NEW entry, entry.fd = e.fd,
         Owned(c, used, NoEntry, sockets), \A d \in used : d.fd # NoFd
  PROVE  Owned(c, used \ {e}, entry, sockets)
<1>1. \A d : UsedBy(used, d) <=> UsedBy(used \ {e}, d) \/ AtHand(entry, d)
  BY DEF UsedBy, AtHand
<1>2. \A d : ~ (UsedBy(used \ {e}, d) /\ AtHand(entry, d))
  BY DEF UsedBy, AtHand, Owned
<1>3. \A d : ~ AtHand(NoEntry, d)
  BY DEF AtHand, NoEntry
<1> QED BY <1>1, <1>2, <1>3 DEF Owned

LEMMA GivenOwned ==
  ASSUME NEW c, NEW used, NEW sockets, NEW e, e.fd # NoFd, Owned(c, used, e, sockets)
  PROVE  Owned(c, used \cup {e}, NoEntry, sockets)
<1>1. \A d : UsedBy(used \cup {e}, d) <=> UsedBy(used, d) \/ AtHand(e, d)
  BY DEF UsedBy, AtHand
<1>2. \A d : ~ AtHand(NoEntry, d)
  BY DEF AtHand, NoEntry
<1>3. \A d \in used : d.fd # e.fd
  BY DEF Owned, UsedBy, AtHand
<1>4. \A x, y \in used \cup {e} : x.fd = y.fd => x = y
  BY <1>3 DEF Owned
<1> QED BY <1>1, <1>2, <1>4 DEF Owned

\* A socket is opened for the entry at hand.
LEMMA OpenedOwned ==
  ASSUME NEW c, NEW used, NEW sockets, NEW fd, fd # NoFd, fd \notin sockets,
         NEW entry, entry.fd = NoFd, NEW e, e.fd = fd, Owned(c, used, entry, sockets)
  PROVE  Owned(c, used, e, sockets \cup {fd})
<1>1. \A d : AtHand(e, d) <=> d = fd
  BY DEF AtHand
<1>2. \A d : ~ AtHand(entry, d)
  BY DEF AtHand
<1> QED BY <1>1, <1>2 DEF Owned

-----------------------------------------------------------------------------
(* The steps. *)

LEMMA Constants ==
  /\ NoFd \notin Descriptors /\ NoFd \notin Nat /\ Descriptors \subseteq Nat
  /\ NoDns \notin Addresses /\ DefaultPriority \in Nat \ {0}
  /\ Bonuses \subseteq Nat /\ Limits \subseteq Nat \ {0} /\ MaxTimestamp \in Nat
BY CacheAssumption DEF NoFd

LEMMA CacheFacts ==
  ASSUME TypeOK
  PROVE  /\ Len(cache) \in Nat /\ DOMAIN cache = 1 .. Len(cache)
         /\ DOMAIN cache \subseteq Nat /\ 0 \notin DOMAIN cache
         /\ \A k \in DOMAIN cache : cache[k] \in Entries
<1>1. cache \in Seq(Entries)
  BY DEF TypeOK
<1>2. Len(cache) \in Nat /\ DOMAIN cache = 1 .. Len(cache)
  BY <1>1, LenProperties
<1>3. \A k \in DOMAIN cache : cache[k] \in Entries
  BY <1>1, <1>2, ElementOfSeq
<1> QED BY <1>2, <1>3

LEMMA MinOfNats ==
  ASSUME NEW T \in SUBSET Nat, T # {}
  PROVE  Min(T) \in T
<1>1. \E x \in T : \A y \in T : <<y, x>> \notin OpToRel(<, Nat)
  BY NatLessThanWellFounded, WFMin
<1>2. PICK x \in T : \A y \in T : <<y, x>> \notin OpToRel(<, Nat)
  BY <1>1
<1>3. \A y \in Nat : y < x => <<y, x>> \in OpToRel(<, Nat)
  BY DEF OpToRel
<1>4. \A y \in T : ~ (y < x)
  BY <1>2, <1>3
<1>5. \A y \in T : x <= y
  BY <1>4
<1> QED BY <1>5 DEF Min

\* Owned looks at the socket of the entry at hand only.
LEMMA SameAtHand ==
  ASSUME NEW c, NEW used, NEW entry, NEW other, NEW sockets, other.fd = entry.fd,
         Owned(c, used, entry, sockets)
  PROVE  Owned(c, used, other, sockets)
<1>1. \A d : AtHand(other, d) <=> AtHand(entry, d)
  BY DEF AtHand
<1> QED BY <1>1 DEF Owned

\* The positions that leave the cache with a look-up.
Gone(host, port, tls) ==
  Stale(host, port, tls) \cup
    (IF Hits(host, port, tls) = {} THEN {} ELSE {Min(Hits(host, port, tls))})

LEMMA LookUp ==
  ASSUME CacheInv, ~ crashed, NEW host, NEW port, NEW tls
  PROVE  /\ Gone(host, port, tls) \subseteq DOMAIN cache
         /\ Hits(host, port, tls) # {} =>
              /\ Min(Hits(host, port, tls)) \in Gone(host, port, tls)
              /\ Fits(cache[Min(Hits(host, port, tls))], port, tls)
         /\ \A k \in Stale(host, port, tls) : cache[k].fd = NoFd
         /\ Sound(Rest(cache, Gone(host, port, tls)), Unlisted(fifo, Delisted(host, port, tls)))
         /\ Owned(Rest(cache, Gone(host, port, tls)), active, current,
                  open \ Sockets(cache, Gone(host, port, tls)))
<1> DEFINE hits == Hits(host, port, tls)
           stale == Stale(host, port, tls)
           gone == Gone(host, port, tls)
           times == Delisted(host, port, tls)
<1>1. DOMAIN cache \subseteq Nat
  BY CacheFacts DEF CacheInv
<1>2. hits \subseteq DOMAIN cache /\ stale \subseteq DOMAIN cache
  BY DEF Hits, Stale, Visited, Traversal
<1>3. hits # {} => Min(hits) \in hits
  BY <1>1, <1>2, MinOfNats
<1>4. gone \subseteq DOMAIN cache
  BY <1>2, <1>3 DEF Gone
<1>5. hits # {} => Min(hits) \in gone /\ Fits(cache[Min(hits)], port, tls)
  BY <1>3 DEF Gone, Hits
<1>6. \A k \in stale : cache[k].fd = NoFd
  BY <1>2 DEF Stale, CacheInv, Sound
<1>7. times = {cache[k].time : k \in gone}
  BY DEF Delisted, Gone
<1>8. Sound(Rest(cache, gone), Unlisted(fifo, times))
  BY <1>7, RestSound DEF CacheInv
<1>9. Owned(Rest(cache, gone), active, current, open \ Sockets(cache, gone))
  BY <1>4, RestOwned DEF CacheInv
<1> QED BY <1>4, <1>5, <1>6, <1>8, <1>9

LEMMA ResolveKeeps ==
  ASSUME CacheInv, NEW host \in Hosts, NEW endpoint \in Endpoints,
         Resolve(host, endpoint[1], endpoint[2])
  PROVE  CacheInv'
<1> DEFINE port == endpoint[1]
           tls == endpoint[2]
           hits == Hits(host, port, tls)
           gone == Gone(host, port, tls)
           times == Delisted(host, port, tls)
           lost == Sockets(cache, gone)
<1>1. /\ ~ crashed /\ current = NoEntry /\ fifo' = Unlisted(fifo, times) /\ secure' = tls
      /\ UNCHANGED <<timestamp, active, open, crashed>>
  BY DEF Resolve
<1>2. cache' = Without(cache, gone)
  <2>1. CASE hits = {}
    <3>1. gone = Stale(host, port, tls)
      BY <2>1 DEF Gone
    <3> QED BY <2>1, <3>1 DEF Resolve
  <2>2. CASE hits # {}
    BY <2>2 DEF Resolve, Gone
  <2> QED BY <2>1, <2>2
<1>3. /\ gone \subseteq DOMAIN cache
      /\ hits # {} => Min(hits) \in gone /\ Fits(cache[Min(hits)], port, tls)
      /\ \A k \in Stale(host, port, tls) : cache[k].fd = NoFd
      /\ Sound(Rest(cache, gone), fifo')
      /\ Owned(Rest(cache, gone), active, current, open \ lost)
      /\ DOMAIN fifo' \subseteq DOMAIN fifo
      /\ \A t \in DOMAIN fifo' : fifo'[t] = fifo[t]
  <2> DEFINE f == Unlisted(fifo, times)
  <2>1. /\ gone \subseteq DOMAIN cache
        /\ hits # {} => Min(hits) \in gone /\ Fits(cache[Min(hits)], port, tls)
        /\ \A k \in Stale(host, port, tls) : cache[k].fd = NoFd
        /\ Sound(Rest(cache, gone), f)
        /\ Owned(Rest(cache, gone), active, current, open \ Sockets(cache, gone))
    BY <1>1, LookUp
  <2>2. fifo' = f
    BY <1>1
  <2>3. DOMAIN f \subseteq DOMAIN fifo /\ \A t \in DOMAIN f : f[t] = fifo[t]
    BY DEF Unlisted, Restrict
  <2> HIDE DEF f, gone
  <2> QED BY <2>1, <2>2, <2>3
<1>4. cache' \in Seq(Entries) /\ Arranges(cache', Rest(cache, gone))
  BY <1>2, WithoutArranges DEF CacheInv, TypeOK, Rest
<1>5. \A k \in DOMAIN cache : cache[k] \in Entries
  BY CacheFacts DEF CacheInv
<1> HIDE DEF gone, times
<1>6. /\ current' \in Entries /\ current'.addr # NoDns
      /\ Owned(Rest(cache, gone), active, current', open)
  <2>1. CASE hits = {}
    <3>1. PICK addr \in Addresses, garbage \in Garbage :
            current' = Entry(host, port, addr, garbage)
      BY <2>1 DEF Resolve
    <3>2. current' \in Entries
      BY <3>1, Constants DEF Entry, Entries
    <3>3. current'.addr = addr /\ current'.fd = NoFd
      BY <3>1 DEF Entry
    <3>4. lost = {}
      <4>1. gone = Stale(host, port, tls)
        BY <2>1 DEF Gone, gone
      <4> QED BY <1>3, <4>1 DEF Sockets
    <3>5. open \ lost = open /\ current.fd = NoFd
      BY <1>1, <3>4 DEF NoEntry
    <3> QED BY <1>3, <3>2, <3>3, <3>5, SameAtHand, Constants
  <2>2. CASE hits # {}
    <3> DEFINE e == cache[Min(hits)]
    <3>1. e \in Entries /\ current' = [e EXCEPT !.priority = @ - 1]
      BY <1>3, <1>5, <2>2 DEF Resolve
    <3>2. current' \in Entries
      BY <3>1 DEF Entries
    <3>3. current'.addr = e.addr /\ current'.fd = e.fd
      BY <3>1 DEF Entries
    <3>4. current'.addr # NoDns
      BY <1>3, <2>2, <3>3 DEF Fits
    <3>5. lost = IF e.fd = NoFd THEN {} ELSE {e.fd}
      <4>1. \A k \in gone : k = Min(hits) \/ cache[k].fd = NoFd
        BY <1>3, <2>2 DEF Gone, gone
      <4>2. Min(hits) \in gone
        BY <1>3, <2>2
      <4> QED BY <4>1, <4>2 DEF Sockets
    <3> HIDE DEF e, lost
    <3>6. CASE e.fd = NoFd
      <4>1. open \ lost = open /\ current'.fd = current.fd
        BY <1>1, <3>3, <3>5, <3>6 DEF NoEntry
      <4> QED BY <1>3, <3>2, <3>4, <4>1, SameAtHand
    <3>7. CASE e.fd # NoFd
      <4>1. e.fd \in open
        <5>1. Owned(cache, active, current, open) /\ Min(hits) \in DOMAIN cache
          BY <1>1, <1>3, <2>2 DEF CacheInv
        <5>2. IdleIn(cache, e.fd)
          BY <3>7, <5>1 DEF IdleIn, e
        <5> QED BY <5>1, <5>2 DEF Owned
      <4>2. (open \ lost) \cup {e.fd} = open /\ e.fd \notin open \ lost
        BY <3>5, <3>7, <4>1
      <4>3. current.fd = NoFd
        BY <1>1 DEF NoEntry
      <4>4. Owned(Rest(cache, gone), active, current', (open \ lost) \cup {e.fd})
        BY <1>3, <3>3, <3>7, <4>2, <4>3, OpenedOwned
      <4> QED BY <3>2, <3>4, <4>2, <4>4
    <3> QED BY <3>6, <3>7
  <2> QED BY <2>1, <2>2
<1>7. Sound(cache', fifo') /\ Owned(cache', active, current', open)
  BY <1>3, <1>4, <1>6, SoundArranged, OwnedArranged
<1>8. TypeOK'
  BY <1>1, <1>3, <1>4, <1>6, CacheAssumption DEF CacheInv, TypeOK
<1> QED BY <1>1, <1>6, <1>7, <1>8 DEF CacheInv

LEMMA ResolveFailsKeeps ==
  ASSUME CacheInv, NEW host \in Hosts, NEW endpoint \in Endpoints,
         ResolveFails(host, endpoint[1], endpoint[2])
  PROVE  CacheInv'
<1> DEFINE port == endpoint[1]
           tls == endpoint[2]
           gone == Gone(host, port, tls)
           times == Delisted(host, port, tls)
<1>1. /\ ~ crashed /\ Hits(host, port, tls) = {} /\ fifo' = Unlisted(fifo, times)
      /\ cache' = Without(cache, Stale(host, port, tls))
      /\ UNCHANGED <<timestamp, current, secure, active, open, crashed>>
  BY DEF ResolveFails
<1>2. gone = Stale(host, port, tls)
  BY <1>1 DEF Gone
<1>3. /\ \A k \in Stale(host, port, tls) : cache[k].fd = NoFd
      /\ Sound(Rest(cache, gone), fifo')
      /\ Owned(Rest(cache, gone), active, current, open \ Sockets(cache, gone))
      /\ DOMAIN fifo' \subseteq DOMAIN fifo
      /\ \A t \in DOMAIN fifo' : fifo'[t] = fifo[t]
  <2> DEFINE f == Unlisted(fifo, times)
  <2>1. /\ \A k \in Stale(host, port, tls) : cache[k].fd = NoFd
        /\ Sound(Rest(cache, gone), f)
        /\ Owned(Rest(cache, gone), active, current, open \ Sockets(cache, gone))
    BY <1>1, LookUp
  <2>2. fifo' = f
    BY <1>1
  <2>3. DOMAIN f \subseteq DOMAIN fifo /\ \A t \in DOMAIN f : f[t] = fifo[t]
    BY DEF Unlisted, Restrict
  <2> HIDE DEF f, gone
  <2> QED BY <2>1, <2>2, <2>3
<1>4. open \ Sockets(cache, gone) = open
  BY <1>2, <1>3 DEF Sockets
<1>5. cache' \in Seq(Entries) /\ Arranges(cache', Rest(cache, gone))
  BY <1>1, <1>2, WithoutArranges DEF CacheInv, TypeOK, Rest
<1>6. Sound(cache', fifo') /\ Owned(cache', active, current, open)
  BY <1>3, <1>4, <1>5, SoundArranged, OwnedArranged
<1>7. TypeOK'
  BY <1>1, <1>3, <1>5 DEF CacheInv, TypeOK
<1> QED BY <1>1, <1>6, <1>7 DEF CacheInv

-----------------------------------------------------------------------------
(* Sockets that are given back.  The socket at hand is e's, as stopSocket and
   shutdownSocket see it. *)

\* The sockets that close with e's.
Closing(e, gone) == {e.fd} \cup {cache[k].fd : k \in gone}

LEMMA CloseKeeps ==
  ASSUME CacheInv, NEW used, NEW sockets, NEW e \in Entries,
         e.fd # NoFd, e.addr # NoDns, \A d \in used : d.fd # NoFd,
         Owned(cache, used, e, sockets),
         NEW gone \in SUBSET DOMAIN cache, NEW times,
         \A k \in gone : cache[k].time \in times,
         Close(e, DOMAIN cache \ gone, times)
  PROVE  /\ cache' \in Seq(Entries)
         /\ DOMAIN fifo' \subseteq DOMAIN fifo /\ \A t \in DOMAIN fifo' : fifo'[t] = fifo[t]
         /\ timestamp' = timestamp
         /\ Sound(cache', fifo')
         /\ Owned(cache', used, NoEntry, sockets \ Closing(e, gone))
         /\ open' = open \ Closing(e, gone)
<1> DEFINE x == [e EXCEPT !.fd = NoFd]
           s == Without(cache, gone)
           r == Rest(cache, gone)
           left == sockets \ Closing(e, gone)
<1>1. DOMAIN cache \ (DOMAIN cache \ gone) = gone
  OBVIOUS
<1>2. /\ open' = open \ Closing(e, gone)
      /\ cache' = IF e.priority > 0 THEN Emplaced(s, x) ELSE s
      /\ fifo' = Unlisted(fifo, times)
      /\ timestamp' = timestamp
  BY <1>1 DEF Close, Closing
<1>3. s \in Seq(Entries) /\ Arranges(s, r)
  BY WithoutArranges DEF CacheInv, TypeOK, Rest
<1>4. Sound(r, fifo')
  BY <1>2, RestSound DEF CacheInv
<1>5. DOMAIN fifo' \subseteq DOMAIN fifo /\ \A t \in DOMAIN fifo' : fifo'[t] = fifo[t]
  BY <1>2 DEF Unlisted, Restrict
<1>6. x \in Entries /\ x.fd = NoFd /\ x.addr = e.addr /\ x.priority = e.priority
  BY DEF Entries
<1>7. Owned(r, used, x, left)
  <2>1. Owned(r, used, e, sockets \ Sockets(cache, gone))
    BY RestOwned
  <2>2. Owned(r, used, x, (sockets \ Sockets(cache, gone)) \ {e.fd})
    BY <1>6, <2>1, ClosedOwned
  <2>3. NoFd \notin sockets
    BY DEF Owned, UsedBy, IdleIn, AtHand
  <2>4. (sockets \ Sockets(cache, gone)) \ {e.fd} = left
    BY <2>3 DEF Sockets, Closing
  <2> QED BY <2>2, <2>4
<1>8. 0 \notin DOMAIN r
  BY CacheFacts DEF CacheInv, Rest
<1> HIDE DEF x, s, r, left
<1>9. CASE e.priority > 0
  <2>1. cache' \in Seq(Entries) /\ Arranges(cache', With(r, x))
    BY <1>2, <1>3, <1>6, <1>8, <1>9, EmplacedArranges
  <2>2. Sound(With(r, x), fifo')
    BY <1>4, <1>6, <1>8, <1>9, WithSound
  <2>3. Owned(With(r, x), used, NoEntry, left)
    BY <1>7, <1>8, WithOwned
  <2>4. Sound(cache', fifo') /\ Owned(cache', used, NoEntry, left)
    BY <2>1, <2>2, <2>3, SoundArranged, OwnedArranged
  <2> QED BY <1>2, <1>5, <2>1, <2>4 DEF left
<1>10. CASE ~ (e.priority > 0)
  <2>1. cache' = s
    BY <1>2, <1>10
  <2>2. Sound(cache', fifo')
    BY <1>3, <1>4, <2>1, SoundArranged
  <2>3. Owned(r, used, NoEntry, left)
    <3>1. NoEntry.fd = x.fd
      BY <1>6 DEF NoEntry
    <3> QED BY <1>7, <3>1, SameAtHand
  <2>4. Owned(cache', used, NoEntry, left)
    BY <1>3, <2>1, <2>3, OwnedArranged
  <2> QED BY <1>2, <1>3, <1>5, <2>1, <2>2, <2>4 DEF left
<1> QED BY <1>9, <1>10

\* A timestamp of the FIFO tells its socket from all others of it.
LEMMA ListedApart ==
  ASSUME CacheInv, ~ crashed
  PROVE  /\ \A t \in DOMAIN fifo : fifo[t] # NoFd /\ IdleIn(cache, fifo[t])
         /\ \A t, u \in DOMAIN fifo : fifo[t] = fifo[u] => t = u
<1>1. Sound(cache, fifo) /\ Owned(cache, active, current, open)
  BY DEF CacheInv
<1>2. \A t \in DOMAIN fifo : fifo[t] # NoFd
  BY Constants DEF CacheInv, TypeOK
<1>3. \A t \in DOMAIN fifo : IdleIn(cache, fifo[t])
  BY <1>1, <1>2 DEF Sound, IdleIn
<1>4. \A t, u \in DOMAIN fifo : fifo[t] = fifo[u] => t = u
  <2> SUFFICES ASSUME NEW t \in DOMAIN fifo, NEW u \in DOMAIN fifo, fifo[t] = fifo[u]
               PROVE  t = u
    OBVIOUS
  <2>1. PICK j \in DOMAIN cache : cache[j].fd = fifo[t] /\ cache[j].time = t
    BY <1>1 DEF Sound
  <2>2. PICK k \in DOMAIN cache : cache[k].fd = fifo[u] /\ cache[k].time = u
    BY <1>1 DEF Sound
  <2>3. j = k
    BY <1>1, <1>2, <2>1, <2>2 DEF Owned
  <2> QED BY <2>1, <2>2, <2>3
<1> QED BY <1>2, <1>3, <1>4

\* The evicted entries stay where they are, with their timestamps.
LEMMA VacatedFacts ==
  ASSUME CacheInv, NEW fds
  PROVE  /\ Vacated(cache, fds) \in Seq(Entries)
         /\ Arranges(Vacated(cache, fds), Vacated(cache, fds))
         /\ DOMAIN Vacated(cache, fds) = DOMAIN cache
         /\ \A k \in DOMAIN cache : cache[k].fd \notin fds => Vacated(cache, fds)[k] = cache[k]
         /\ \A k \in DOMAIN cache : cache[k].fd \in fds =>
              Vacated(cache, fds)[k].fd = NoFd /\ Vacated(cache, fds)[k].addr = NoDns
         /\ \A k \in DOMAIN cache : Vacated(cache, fds)[k].time = cache[k].time
<1> DEFINE v == Vacated(cache, fds)
           vacant(x) == [x EXCEPT !.fd = NoFd, !.addr = NoDns]
<1>1. /\ Len(cache) \in Nat /\ DOMAIN cache = 1 .. Len(cache)
      /\ \A k \in DOMAIN cache : cache[k] \in Entries
  BY CacheFacts DEF CacheInv
<1>2. /\ DOMAIN v = DOMAIN cache
      /\ \A k \in DOMAIN cache : cache[k].fd \notin fds => v[k] = cache[k]
      /\ \A k \in DOMAIN cache : cache[k].fd \in fds => v[k] = vacant(cache[k])
  BY DEF Vacated
<1>3. \A x \in Entries : vacant(x) \in Entries /\ vacant(x).fd = NoFd /\ vacant(x).addr = NoDns
                          /\ vacant(x).time = x.time
  BY DEF Entries
<1>4. v = [k \in 1 .. Len(cache) |-> v[k]]
  BY <1>1, <1>2 DEF Vacated
<1> HIDE DEF v, vacant
<1>5. \A k \in DOMAIN cache :
        /\ v[k] \in Entries /\ v[k].time = cache[k].time
        /\ cache[k].fd \in fds => v[k].fd = NoFd /\ v[k].addr = NoDns
  <2> TAKE k \in DOMAIN cache
  <2>1. CASE cache[k].fd \in fds
    <3>1. v[k] = vacant(cache[k]) /\ cache[k] \in Entries
      BY <1>1, <1>2, <2>1
    <3> QED BY ONLY <1>3, <3>1
  <2>2. CASE cache[k].fd \notin fds
    BY <1>1, <1>2, <2>2
  <2> QED BY <2>1, <2>2
<1>6. v \in Seq(Entries)
  <2>1. [k \in 1 .. Len(cache) |-> v[k]] \in Seq(Entries)
    BY <1>1, <1>5, IsASeq
  <2> QED BY <1>4, <2>1
<1>7. Arranges(v, v)
  <2> DEFINE place == [k \in DOMAIN v |-> k]
  <2>1. place \in [DOMAIN v -> DOMAIN v] /\ \A k \in DOMAIN v : place[k] = k
    OBVIOUS
  <2> HIDE DEF place
  <2> QED BY <2>1 DEF Arranges
<1> QED BY <1>2, <1>5, <1>6, <1>7 DEF v

LEMMA KeepKeeps ==
  ASSUME CacheInv, ~ crashed, NEW used, NEW e \in Entries, NEW limit,
         e.fd # NoFd, e.addr # NoDns, e.priority > 0,
         Owned(cache, used, e, open),
         Keep(e, limit)
  PROVE  /\ cache' \in Seq(Entries)
         /\ DOMAIN fifo' \subseteq 0 .. MaxTimestamp
         /\ \A t \in DOMAIN fifo' : fifo'[t] \in Descriptors
         /\ timestamp' \in 0 .. MaxTimestamp
         /\ Sound(cache', fifo')
         /\ Owned(cache', used, NoEntry, open')
         /\ open' \subseteq open
<1> DEFINE evicted == Evicted(limit)
           fds == {fifo[t] : t \in evicted}
           kept == [e EXCEPT !.time = timestamp]
           v == Vacated(cache, fds)
<1>1. /\ timestamp < MaxTimestamp /\ timestamp' = timestamp + 1
      /\ open' = open \ fds
      /\ fifo' = [t \in (DOMAIN fifo \ evicted) \cup {timestamp} |->
                   IF t = timestamp THEN e.fd ELSE fifo[t]]
      /\ cache' = Emplaced(v, kept)
  BY DEF Keep
<1>2. evicted \subseteq DOMAIN fifo
  BY DEF Evicted
<1>3. timestamp \in 0 .. MaxTimestamp /\ DOMAIN fifo \subseteq 0 .. MaxTimestamp
      /\ \A t \in DOMAIN fifo : fifo[t] \in Descriptors
  BY DEF CacheInv, TypeOK
<1>4. /\ \A t \in DOMAIN fifo : fifo[t] # NoFd /\ IdleIn(cache, fifo[t])
      /\ \A t, u \in DOMAIN fifo : fifo[t] = fifo[u] => t = u
  BY ListedApart
<1>5. DOMAIN cache \subseteq Nat /\ 0 \notin DOMAIN cache
  BY CacheFacts DEF CacheInv
<1> HIDE DEF evicted, fds, v
<1>6. /\ v \in Seq(Entries) /\ Arranges(v, v) /\ DOMAIN v = DOMAIN cache
      /\ \A k \in DOMAIN cache : cache[k].fd \notin fds => v[k] = cache[k]
      /\ \A k \in DOMAIN v : cache[k].fd \in fds => v[k].fd = NoFd /\ v[k].addr = NoDns
  BY VacatedFacts DEF v
<1>11. kept \in Entries /\ kept.fd = e.fd /\ kept.addr = e.addr /\ kept.priority = e.priority
       /\ kept.time = timestamp
  BY <1>3 DEF Entries
<1>12. DOMAIN fifo' = (DOMAIN fifo \ evicted) \cup {timestamp}
       /\ fifo'[timestamp] = e.fd
       /\ \A t \in DOMAIN fifo' : t # timestamp => t \in DOMAIN fifo \ evicted /\ fifo'[t] = fifo[t]
  BY <1>1
<1>13. e.fd \notin fds
  <2>1. AtHand(e, e.fd)
    BY DEF AtHand
  <2> QED BY <1>2, <1>4, <2>1 DEF Owned, fds
<1> HIDE DEF kept
<1>14. cache' \in Seq(Entries) /\ Arranges(cache', With(v, kept))
  BY <1>1, <1>5, <1>6, <1>11, EmplacedArranges
<1>15. DOMAIN With(v, kept) = DOMAIN v \cup {0} /\ With(v, kept)[0] = kept
       /\ \A k \in DOMAIN v : With(v, kept)[k] = v[k]
  BY <1>5, <1>6 DEF With
<1>16. Sound(With(v, kept), fifo')
  <2> DEFINE w == With(v, kept)
  <2>1. \A t \in DOMAIN fifo' : \E k \in DOMAIN w : w[k].fd = fifo'[t] /\ w[k].time = t
    <3> TAKE t \in DOMAIN fifo'
    <3>1. CASE t = timestamp
      BY <1>11, <1>12, <1>15, <3>1
    <3>2. CASE t # timestamp
      <4>1. t \in DOMAIN fifo /\ t \notin evicted /\ fifo'[t] = fifo[t]
        BY <1>12, <3>2
      <4>2. PICK k \in DOMAIN cache : cache[k].fd = fifo[t] /\ cache[k].time = t
        BY <4>1 DEF CacheInv, Sound
      <4>3. fifo[t] \notin fds
        BY <1>2, <1>4, <4>1 DEF fds
      <4>4. v[k] = cache[k]
        BY <1>6, <4>2, <4>3
      <4> QED BY <1>6, <1>15, <4>1, <4>2, <4>4
    <3> QED BY <3>1, <3>2
  <2>2. \A k \in DOMAIN v : /\ v[k].addr # NoDns => v[k].priority > 0
                            /\ v[k].addr = NoDns => v[k].fd = NoFd
    <3> TAKE k \in DOMAIN v
    <3>1. CASE cache[k].fd \in fds
      BY <1>6, <3>1
    <3>2. CASE cache[k].fd \notin fds
      BY <1>6, <3>2 DEF CacheInv, Sound
    <3> QED BY <3>1, <3>2
  <2> QED BY <1>11, <1>15, <2>1, <2>2 DEF Sound
<1>17. Owned(v, used, e, open')
  <2>1. \A d : IdleIn(v, d) <=> IdleIn(cache, d) /\ d \notin fds
    <3> TAKE d
    <3>1. CASE d \in fds
      <4>1. d # NoFd
        BY <1>2, <1>4, <3>1 DEF fds
      <4>2. ~ \E k \in DOMAIN v : v[k].fd = d
        BY <1>6, <3>1, <4>1
      <4> QED BY <3>1, <4>2 DEF IdleIn
    <3>2. CASE d \notin fds
      <4>1. \A k \in DOMAIN v : d # NoFd => (v[k].fd = d <=> cache[k].fd = d)
        BY <1>6, <3>2
      <4> QED BY <1>6, <3>2, <4>1 DEF IdleIn
    <3> QED BY <3>1, <3>2
  <2>2. \A d \in fds : IdleIn(cache, d)
    BY <1>2, <1>4 DEF fds
  <2>3. \A d : d \in open' <=> d \in open /\ d \notin fds
    BY <1>1
  <2>4. \A d : d \in open' <=> UsedBy(used, d) \/ IdleIn(v, d) \/ AtHand(e, d)
    BY <2>1, <2>2, <2>3 DEF Owned
  <2>5. \A j, k \in DOMAIN v : v[j].fd = v[k].fd /\ v[j].fd # NoFd => j = k
    <3>1. \A k \in DOMAIN v : v[k].fd # NoFd => v[k] = cache[k]
      BY <1>6
    <3> QED BY <1>6, <3>1 DEF Owned
  <2> QED BY <2>1, <2>4, <2>5 DEF Owned
<1>18. Owned(With(v, kept), used, NoEntry, open')
  BY <1>5, <1>6, <1>11, <1>17, WithOwned
<1>19. Sound(cache', fifo') /\ Owned(cache', used, NoEntry, open')
  BY <1>14, <1>16, <1>18, SoundArranged, OwnedArranged
<1>20. /\ DOMAIN fifo' \subseteq 0 .. MaxTimestamp
       /\ \A t \in DOMAIN fifo' : fifo'[t] \in Descriptors
  <2>1. e.fd \in Descriptors
    BY DEF Entries
  <2> QED BY <1>3, <1>12, <2>1
<1>21. timestamp' \in 0 .. MaxTimestamp
  BY <1>1, <1>3, Constants
<1> QED BY <1>1, <1>14, <1>19, <1>20, <1>21

\* stopSocket, of a socket taken out of those in use.
LEMMA StopKeeps ==
  ASSUME CacheInv, ~ crashed, NEW used, NEW e \in Entries, NEW limit, NEW reuse,
         e.fd # NoFd, e.addr # NoDns, \A d \in used : d.fd # NoFd,
         Owned(cache, used, e, open),
         Stop(e, limit, reuse)
  PROVE  /\ cache' \in Seq(Entries)
         /\ DOMAIN fifo' \subseteq 0 .. MaxTimestamp
         /\ \A t \in DOMAIN fifo' : fifo'[t] \in Descriptors
         /\ timestamp' \in 0 .. MaxTimestamp
         /\ Sound(cache', fifo')
         /\ Owned(cache', used, NoEntry, open')
         /\ open' \subseteq open
<1>1. /\ timestamp \in 0 .. MaxTimestamp /\ DOMAIN fifo \subseteq 0 .. MaxTimestamp
      /\ \A t \in DOMAIN fifo : fifo[t] \in Descriptors
      /\ cache \in Seq(Entries) /\ Sound(cache, fifo)
  BY DEF CacheInv, TypeOK
<1>2. CASE ~ reuse
  <2> DEFINE gone == {}
             times == {}
  <2>1. Close(e, DOMAIN cache \ gone, times)
    BY <1>2 DEF Stop
  <2>2. Closing(e, gone) = {e.fd} /\ gone \in SUBSET DOMAIN cache
    BY DEF Closing
  <2>3. \A k \in gone : cache[k].time \in times
    OBVIOUS
  <2> HIDE DEF gone, times
  <2>4. /\ cache' \in Seq(Entries)
        /\ DOMAIN fifo' \subseteq DOMAIN fifo /\ \A t \in DOMAIN fifo' : fifo'[t] = fifo[t]
        /\ timestamp' = timestamp
        /\ Sound(cache', fifo')
        /\ Owned(cache', used, NoEntry, open \ Closing(e, gone))
        /\ open' = open \ Closing(e, gone)
    BY <2>1, <2>2, <2>3, CloseKeeps
  <2> QED BY <1>1, <2>2, <2>4
<1>3. CASE reuse /\ e.priority > 0
  <2>1. Keep(e, limit)
    BY <1>3 DEF Stop
  <2> QED BY <1>3, <2>1, KeepKeeps
<1>4. CASE reuse /\ ~ (e.priority > 0)
  <2>1. open' = open \ {e.fd} /\ UNCHANGED <<cache, fifo, timestamp>>
    BY <1>4 DEF Stop, Drop
  <2>2. NoEntry.fd = NoFd
    BY DEF NoEntry
  <2>3. Owned(cache, used, NoEntry, open \ {e.fd})
    BY <2>2, ClosedOwned
  <2> QED BY <1>1, <2>1, <2>3
<1> QED BY <1>2, <1>3, <1>4

\* shutdownSocket, of such a socket or of one just made (which is not in open yet).
LEMMA ShutdownKeeps ==
  ASSUME CacheInv, ~ crashed, NEW used, NEW sockets, NEW e \in Entries,
         e.fd # NoFd, e.addr # NoDns, \A d \in used : d.fd # NoFd,
         Owned(cache, used, e, sockets), sockets = open \/ sockets = open \cup {e.fd},
         Shutdown(e)
  PROVE  /\ cache' \in Seq(Entries)
         /\ DOMAIN fifo' \subseteq 0 .. MaxTimestamp
         /\ \A t \in DOMAIN fifo' : fifo'[t] \in Descriptors
         /\ timestamp' \in 0 .. MaxTimestamp
         /\ Sound(cache', fifo')
         /\ ~ crashed' => Owned(cache', used, NoEntry, open')
         /\ open' \subseteq open
<1> DEFINE walk == Traversal(cache, e.host)
           gone == {k \in walk : SameAddress(e, cache[k])}
           times == {cache[k].time : k \in gone}
<1>1. /\ timestamp \in 0 .. MaxTimestamp /\ DOMAIN fifo \subseteq 0 .. MaxTimestamp
      /\ \A t \in DOMAIN fifo : fifo[t] \in Descriptors
      /\ cache \in Seq(Entries) /\ Sound(cache, fifo)
  BY DEF CacheInv, TypeOK
<1>2. CASE \E k \in walk : cache[k].addr = NoDns
  <2>1. crashed' /\ UNCHANGED <<cache, fifo, timestamp, open>>
    BY <1>2 DEF Shutdown
  <2> QED BY <1>1, <2>1
<1>3. CASE ~ \E k \in walk : cache[k].addr = NoDns
  <2>1. Close(e, DOMAIN cache \ gone, times)
    BY <1>3 DEF Shutdown
  <2>2. gone \in SUBSET DOMAIN cache
    BY DEF Traversal
  <2>3. \A k \in gone : cache[k].time \in times
    OBVIOUS
  <2> HIDE DEF gone, times
  <2>4. /\ cache' \in Seq(Entries)
        /\ DOMAIN fifo' \subseteq DOMAIN fifo /\ \A t \in DOMAIN fifo' : fifo'[t] = fifo[t]
        /\ timestamp' = timestamp
        /\ Sound(cache', fifo')
        /\ Owned(cache', used, NoEntry, sockets \ Closing(e, gone))
        /\ open' = open \ Closing(e, gone)
    BY <2>1, <2>2, <2>3, CloseKeeps
  <2>5. sockets \ Closing(e, gone)
          = open \ Closing(e, gone)
    BY DEF Closing
  <2> QED BY <1>1, <2>4, <2>5
<1> QED BY <1>2, <1>3

-----------------------------------------------------------------------------
(* ConnectionManager. *)

LEMMA RaisedFacts ==
  ASSUME NEW e \in Entries, NEW bonus \in Nat
  PROVE  /\ Raised(e, bonus) \in Entries /\ Raised(e, bonus).fd = e.fd
         /\ Raised(e, bonus).addr = e.addr /\ Raised(e, bonus).time = e.time
         /\ Raised(e, bonus).priority = e.priority + bonus
BY DEF Raised, Entries

\* The socket in use that a step takes.
LEMMA TakesOne ==
  ASSUME CacheInv, ~ crashed, current = NoEntry, NEW e \in active, NEW bonus \in Bonuses
  PROVE  LET x == Raised(e, bonus) IN
         /\ x \in Entries /\ x.fd = e.fd /\ x.fd # NoFd /\ x.addr # NoDns
         /\ x.priority = e.priority + bonus /\ x.time = e.time
         /\ \A d \in active \ {e} : d.fd # NoFd
         /\ Owned(cache, active \ {e}, x, open)
<1>1. e \in Entries /\ e.fd # NoFd /\ e.addr # NoDns /\ \A d \in active : d.fd # NoFd
  BY DEF CacheInv, TypeOK
<1>2. bonus \in Nat
  BY Constants
<1> DEFINE x == Raised(e, bonus)
<1>3. x \in Entries /\ x.fd = e.fd /\ x.addr = e.addr /\ x.priority = e.priority + bonus
      /\ x.time = e.time
  BY <1>1, <1>2, RaisedFacts
<1> HIDE DEF x
<1>4. Owned(cache, active, NoEntry, open)
  BY DEF CacheInv
<1>5. Owned(cache, active \ {e}, x, open)
  BY <1>1, <1>3, <1>4, TakenOwned
<1>6. /\ x \in Entries /\ x.fd = e.fd /\ x.fd # NoFd /\ x.addr # NoDns
      /\ x.priority = e.priority + bonus /\ x.time = e.time
      /\ \A d \in active \ {e} : d.fd # NoFd
      /\ Owned(cache, active \ {e}, x, open)
  BY <1>1, <1>3, <1>5
<1> QED BY <1>6 DEF x

LEMMA DisconnectKeeps ==
  ASSUME CacheInv, NEW e \in active, NEW limit, NEW reuse, NEW bonus \in Bonuses,
         Disconnect(e, limit, reuse, bonus)
  PROVE  CacheInv'
<1> DEFINE x == Raised(e, bonus)
<1>1. /\ ~ crashed /\ current = NoEntry /\ active' = active \ {e} /\ Stop(x, limit, reuse)
      /\ UNCHANGED <<current, secure, crashed>>
  BY DEF Disconnect
<1>2. /\ x \in Entries /\ x.fd # NoFd /\ x.addr # NoDns
      /\ \A d \in active \ {e} : d.fd # NoFd
      /\ Owned(cache, active \ {e}, x, open)
  BY <1>1, TakesOne
<1> HIDE DEF x
<1>3. /\ cache' \in Seq(Entries)
      /\ DOMAIN fifo' \subseteq 0 .. MaxTimestamp
      /\ \A t \in DOMAIN fifo' : fifo'[t] \in Descriptors
      /\ timestamp' \in 0 .. MaxTimestamp
      /\ Sound(cache', fifo')
      /\ Owned(cache', active \ {e}, NoEntry, open')
      /\ open' \subseteq open
  BY <1>1, <1>2, StopKeeps
<1>4. IsFiniteSet(open')
  BY <1>3, FS_Subset DEF CacheInv
<1>5. TypeOK'
  BY <1>1, <1>3 DEF CacheInv, TypeOK
<1> QED BY <1>1, <1>3, <1>4, <1>5 DEF CacheInv

LEMMA ForceShutdownKeeps ==
  ASSUME CacheInv, NEW e \in active, ForceShutdown(e)
  PROVE  CacheInv'
<1>1. PICK bonus \in Bonuses : Shutdown(Raised(e, bonus))
  BY DEF ForceShutdown
<1> DEFINE x == Raised(e, bonus)
<1>2. /\ ~ crashed /\ current = NoEntry /\ active' = active \ {e} /\ Shutdown(x)
      /\ UNCHANGED <<current, secure>>
  BY <1>1 DEF ForceShutdown
<1>3. /\ x \in Entries /\ x.fd # NoFd /\ x.addr # NoDns
      /\ \A d \in active \ {e} : d.fd # NoFd
      /\ Owned(cache, active \ {e}, x, open)
  BY <1>2, TakesOne
<1> HIDE DEF x
<1>4. /\ cache' \in Seq(Entries)
      /\ DOMAIN fifo' \subseteq 0 .. MaxTimestamp
      /\ \A t \in DOMAIN fifo' : fifo'[t] \in Descriptors
      /\ timestamp' \in 0 .. MaxTimestamp
      /\ Sound(cache', fifo')
      /\ ~ crashed' => Owned(cache', active \ {e}, NoEntry, open')
      /\ open' \subseteq open
  BY <1>2, <1>3, ShutdownKeeps
<1>5. IsFiniteSet(open')
  BY <1>4, FS_Subset DEF CacheInv
<1>6. TypeOK'
  BY <1>2, <1>4 DEF CacheInv, TypeOK
<1> QED BY <1>2, <1>4, <1>5, <1>6 DEF CacheInv

LEMMA ConnectFailsKeeps ==
  ASSUME CacheInv, ConnectFails
  PROVE  CacheInv'
<1>1. PICK fd \in Descriptors \ open, bonus \in Bonuses \cup {0} :
        /\ Shutdown(Raised([current EXCEPT !.fd = fd], bonus))
        /\ current' = NoEntry /\ secure' = FALSE
  BY DEF ConnectFails
<1> DEFINE y == [current EXCEPT !.fd = fd]
           x == Raised(y, bonus)
<1>2. ~ crashed /\ current # NoEntry /\ current.fd = NoFd /\ active' = active /\ Shutdown(x)
  BY <1>1 DEF ConnectFails
<1>3. current \in Entries /\ current.addr # NoDns /\ \A d \in active : d.fd # NoFd
  BY <1>2 DEF CacheInv, TypeOK
<1>4. y \in Entries /\ y.fd = fd /\ y.addr = current.addr
  BY <1>3 DEF Entries
<1>5. fd # NoFd /\ bonus \in Nat
  BY Constants
<1> HIDE DEF y
<1>6. x \in Entries /\ x.fd = fd /\ x.addr = current.addr
  BY <1>4, <1>5, RaisedFacts
<1> HIDE DEF x
<1>7. Owned(cache, active, x, open \cup {x.fd})
  <2>1. Owned(cache, active, current, open)
    BY <1>2 DEF CacheInv
  <2>2. Owned(cache, active, x, open \cup {fd})
    BY <1>1, <1>2, <1>5, <1>6, <2>1, OpenedOwned
  <2> QED BY <1>6, <2>2
<1>8. /\ cache' \in Seq(Entries)
      /\ DOMAIN fifo' \subseteq 0 .. MaxTimestamp
      /\ \A t \in DOMAIN fifo' : fifo'[t] \in Descriptors
      /\ timestamp' \in 0 .. MaxTimestamp
      /\ Sound(cache', fifo')
      /\ ~ crashed' => Owned(cache', active, NoEntry, open')
      /\ open' \subseteq open
  BY <1>2, <1>3, <1>5, <1>6, <1>7, ShutdownKeeps
<1>9. IsFiniteSet(open')
  BY <1>8, FS_Subset DEF CacheInv
<1>10. TypeOK'
  BY <1>1, <1>2, <1>8 DEF CacheInv, TypeOK
<1> QED BY <1>1, <1>2, <1>8, <1>9, <1>10 DEF CacheInv

LEMMA ReuseKeeps ==
  ASSUME CacheInv, Reuse
  PROVE  CacheInv'
<1>1. /\ ~ crashed /\ current.fd # NoFd /\ active' = active \cup {current}
      /\ current' = NoEntry /\ secure' = FALSE
      /\ UNCHANGED <<cache, fifo, timestamp, open, crashed>>
  BY DEF Reuse
<1>2. current \in Entries /\ current.addr # NoDns
  <2>1. current # NoEntry
    BY <1>1 DEF NoEntry
  <2> QED BY <2>1 DEF CacheInv, TypeOK
<1>3. Owned(cache, active', NoEntry, open)
  BY <1>1, GivenOwned DEF CacheInv
<1>4. TypeOK'
  BY <1>1, <1>2 DEF CacheInv, TypeOK
<1> QED BY <1>1, <1>2, <1>3, <1>4 DEF CacheInv

LEMMA NoSocketKeeps ==
  ASSUME CacheInv, NoSocket
  PROVE  CacheInv'
<1>1. /\ ~ crashed /\ current.fd = NoFd /\ current' = NoEntry /\ secure' = FALSE
      /\ UNCHANGED <<cache, fifo, timestamp, active, open, crashed>>
  BY DEF NoSocket
<1>2. Owned(cache, active, NoEntry, open)
  <2>1. NoEntry.fd = current.fd
    BY <1>1 DEF NoEntry
  <2> QED BY <1>1, <2>1, SameAtHand DEF CacheInv
<1>3. TypeOK'
  BY <1>1 DEF CacheInv, TypeOK
<1> QED BY <1>1, <1>2, <1>3 DEF CacheInv

LEMMA ConnectedKeeps ==
  ASSUME CacheInv, Connected
  PROVE  CacheInv'
<1>1. /\ ~ crashed /\ current # NoEntry /\ current.fd = NoFd
      /\ UNCHANGED <<cache, fifo, timestamp, crashed>>
  BY DEF Connected
<1>2. PICK fd \in Descriptors \ open :
        LET e == [current EXCEPT !.fd = fd, !.tls = secure] IN
        /\ open' = open \cup {fd}
        /\ active' = active \cup {e}
        /\ current' = NoEntry /\ secure' = FALSE
  BY DEF Connected
<1> DEFINE e == [current EXCEPT !.fd = fd, !.tls = secure]
<1>3. current \in Entries /\ current.addr # NoDns /\ secure \in BOOLEAN
  BY <1>1 DEF CacheInv, TypeOK
<1>4. e \in Entries /\ e.fd = fd /\ e.addr = current.addr
  BY <1>3 DEF Entries
<1>5. /\ open' = open \cup {fd} /\ active' = active \cup {e}
      /\ current' = NoEntry /\ secure' = FALSE
  BY <1>2
<1> HIDE DEF e
<1>6. fd # NoFd
  BY Constants
<1>7. Owned(cache, active, e, open \cup {fd})
  BY <1>1, <1>2, <1>4, <1>6, OpenedOwned DEF CacheInv
<1>8. Owned(cache, active', NoEntry, open')
  BY <1>4, <1>5, <1>6, <1>7, GivenOwned
<1>9. IsFiniteSet(open')
  BY <1>5, FS_AddElement DEF CacheInv
<1>10. TypeOK'
  BY <1>1, <1>4, <1>5, <1>6 DEF CacheInv, TypeOK
<1> QED BY <1>1, <1>3, <1>4, <1>5, <1>8, <1>9, <1>10 DEF CacheInv

-----------------------------------------------------------------------------
(* The results. *)

LEMMA InitHolds == Init => CacheInv
<1> SUFFICES ASSUME Init PROVE CacheInv
  OBVIOUS
<1>1. /\ cache = <<>> /\ DOMAIN fifo = {} /\ timestamp = 0 /\ current = NoEntry
      /\ secure = FALSE /\ active = {} /\ open = {} /\ ~ crashed
  BY DEF Init
<1>2. TypeOK
  <2>1. <<>> \in Seq(Entries) /\ 0 \in 0 .. MaxTimestamp /\ FALSE \in BOOLEAN
    BY Constants, EmptySeq
  <2> QED BY <1>1, <2>1 DEF TypeOK
<1>3. Sound(cache, fifo)
  BY <1>1 DEF Sound
<1>4. Owned(cache, active, current, open)
  BY <1>1 DEF Owned, UsedBy, IdleIn, AtHand, NoEntry
<1>5. IsFiniteSet(open)
  BY <1>1, FS_EmptySet
<1> QED BY <1>1, <1>2, <1>3, <1>4, <1>5 DEF CacheInv

LEMMA StepKeeps == CacheInv /\ [Next]_vars => CacheInv'
<1> SUFFICES ASSUME CacheInv, [Next]_vars PROVE CacheInv'
  OBVIOUS
<1>1. CASE UNCHANGED vars
  BY <1>1 DEF CacheInv, TypeOK, vars
<1>2. ASSUME NEW host \in Hosts, NEW endpoint \in Endpoints,
             Resolve(host, endpoint[1], endpoint[2])
      PROVE  CacheInv'
  BY <1>2, ResolveKeeps
<1>3. ASSUME NEW host \in Hosts, NEW endpoint \in Endpoints,
             ResolveFails(host, endpoint[1], endpoint[2])
      PROVE  CacheInv'
  BY <1>3, ResolveFailsKeeps
<1>4. CASE Reuse
  BY <1>4, ReuseKeeps
<1>5. CASE NoSocket
  BY <1>5, NoSocketKeeps
<1>6. CASE Connected
  BY <1>6, ConnectedKeeps
<1>7. CASE ConnectFails
  BY <1>7, ConnectFailsKeeps
<1>8. ASSUME NEW e \in active, NEW limit \in Limits, NEW reuse \in BOOLEAN,
             NEW bonus \in Bonuses, Disconnect(e, limit, reuse, bonus)
      PROVE  CacheInv'
  BY <1>8, DisconnectKeeps
<1>9. ASSUME NEW e \in active, ForceShutdown(e)
      PROVE  CacheInv'
  BY <1>9, ForceShutdownKeeps
<1> QED BY <1>1, <1>2, <1>3, <1>4, <1>5, <1>6, <1>7, <1>8, <1>9 DEF Next

\* The inductive invariant: whatever connects, is kept, evicted or shut down, each open
\* socket has one owner and the FIFO names idle sockets only.
THEOREM CacheInvariant == Spec => []CacheInv
<1>1. Init => CacheInv
  BY InitHolds
<1>2. CacheInv /\ [Next]_vars => CacheInv'
  BY StepKeeps
<1> QED BY <1>1, <1>2, PTL DEF Spec

\* The next look-up finds addresses with priority left, and the next eviction follows no
\* dangling pointer of the FIFO (cache.cpp:66-72, 92-107).
THEOREM CacheSound == Spec => []Inv
<1>1. CacheInv => Inv
  BY DEF CacheInv, Inv, Sound, FifoSound, PriorityLeft
<1> QED BY <1>1, CacheInvariant, PTL

\* As many sockets are open as entries hold, each by one of them: until a null pointer was
\* followed, none leaks and none is closed twice.
THEOREM SocketsOwnedOnce == Spec => []OwnedOnce
<1>1. ASSUME CacheInv, ~ crashed
      PROVE  /\ open = {e.fd : e \in active} \cup {cache[k].fd : k \in Idle} \cup Held
             /\ Cardinality(open) = Cardinality(active) + Cardinality(Idle) + Cardinality(Held)
  <2> DEFINE used == {e.fd : e \in active}
             idle == {cache[k].fd : k \in Idle}
             f == [e \in active |-> e.fd]
             g == [k \in Idle |-> cache[k].fd]
  <2>1. Owned(cache, active, current, open) /\ IsFiniteSet(open)
    BY <1>1 DEF CacheInv
  <2>2. /\ \A d : d \in used <=> UsedBy(active, d)
        /\ \A d : d \in idle <=> IdleIn(cache, d)
        /\ \A d : d \in Held <=> AtHand(current, d)
    BY DEF UsedBy, IdleIn, AtHand, Idle, Held
  <2>3. f \in Bijection(active, used)
    BY <2>1 DEF Owned, Bijection, Injection, Surjection, IsInjective
  <2>4. g \in Bijection(Idle, idle)
    BY <2>1 DEF Owned, Idle, Bijection, Injection, Surjection, IsInjective
  <2> HIDE DEF used, idle, f, g
  <2>5. open = used \cup idle \cup Held
    BY <2>1, <2>2 DEF Owned
  <2>6. used \cap idle = {} /\ (used \cup idle) \cap Held = {}
    BY <2>1, <2>2 DEF Owned
  <2>7. IsFiniteSet(used) /\ IsFiniteSet(idle) /\ IsFiniteSet(Held)
    BY <2>1, <2>5, FS_Subset
  <2>8. Cardinality(active) = Cardinality(used)
    BY <2>3, <2>7, FS_Injection DEF Bijection
  <2>9. Cardinality(Idle) = Cardinality(idle)
    BY <2>4, <2>7, FS_Injection DEF Bijection
  <2>10. /\ IsFiniteSet(used \cup idle)
         /\ Cardinality(used \cup idle) = Cardinality(used) + Cardinality(idle)
    <3>1. Cardinality(used \cap idle) = 0
      BY <2>6, FS_EmptySet
    <3>2. Cardinality(used) \in Nat /\ Cardinality(idle) \in Nat
      BY <2>7, FS_CardinalityType
    <3>3. /\ IsFiniteSet(used \cup idle)
          /\ Cardinality(used \cup idle)
               = Cardinality(used) + Cardinality(idle) - Cardinality(used \cap idle)
      BY <2>7, FS_Union
    <3> QED BY ONLY <3>1, <3>2, <3>3
  <2>11. Cardinality(open) = Cardinality(used \cup idle) + Cardinality(Held)
    <3>1. Cardinality((used \cup idle) \cap Held) = 0
      BY <2>6, FS_EmptySet
    <3>2. Cardinality(used \cup idle) \in Nat /\ Cardinality(Held) \in Nat
      BY <2>7, <2>10, FS_CardinalityType
    <3>3. Cardinality((used \cup idle) \cup Held)
            = Cardinality(used \cup idle) + Cardinality(Held)
                - Cardinality((used \cup idle) \cap Held)
      BY <2>7, <2>10, FS_Union
    <3>4. open = (used \cup idle) \cup Held
      BY <2>5
    <3> QED BY ONLY <3>1, <3>2, <3>3, <3>4
  <2> QED BY <2>5, <2>8, <2>9, <2>10, <2>11 DEF used, idle
<1>2. CacheInv => OwnedOnce
  BY <1>1 DEF OwnedOnce
<1> QED BY <1>2, CacheInvariant, PTL

-----------------------------------------------------------------------------
(* The bound on idle sockets.  It needs more than an owner for each socket: the
   FIFO lists all idle ones, and no other entry has a timestamp that it lists. *)

\* What reads as a timestamp that was never set is none that is in use.
GarbageApart == Garbage \cap 0 .. MaxTimestamp = {}

Listed(c, f, used, entry, top) ==
  /\ DOMAIN f \subseteq 0 .. top - 1
  /\ \A k \in DOMAIN c : c[k].fd # NoFd => c[k].time \in DOMAIN f /\ f[c[k].time] = c[k].fd
  /\ \A k \in DOMAIN c : c[k].fd = NoFd => c[k].time \notin DOMAIN f
  /\ \A e \in used : e.time \notin DOMAIN f
  /\ entry # NoEntry => entry.time \notin DOMAIN f
  /\ \A k \in DOMAIN c : c[k].time \in Garbage \cup 0 .. top - 1
  /\ \A e \in used : e.time \in Garbage \cup 0 .. top - 1
  /\ entry # NoEntry => entry.time \in Garbage \cup 0 .. top - 1

ListedInv ==
  /\ CacheInv
  /\ GarbageApart /\ ~ crashed => Listed(cache, fifo, active, current, timestamp)

LEMMA ListedArranged ==
  ASSUME NEW s, NEW c, NEW f, NEW used, NEW entry, NEW top,
         Arranges(s, c), Listed(c, f, used, entry, top)
  PROVE  Listed(s, f, used, entry, top)
<1>1. PICK place \in [DOMAIN s -> DOMAIN c] : \A i \in DOMAIN s : s[i] = c[place[i]]
  BY DEF Arranges
<1>2. \A i \in DOMAIN s : place[i] \in DOMAIN c /\ s[i] = c[place[i]]
  BY <1>1
<1>3. \A i \in DOMAIN s :
        /\ s[i].fd # NoFd => s[i].time \in DOMAIN f /\ f[s[i].time] = s[i].fd
        /\ s[i].fd = NoFd => s[i].time \notin DOMAIN f
        /\ s[i].time \in Garbage \cup 0 .. top - 1
  <2> TAKE i \in DOMAIN s
  <2> DEFINE k == place[i]
  <2>1. k \in DOMAIN c /\ s[i] = c[k]
    BY <1>2
  <2> HIDE DEF k
  <2>2. /\ c[k].fd # NoFd => c[k].time \in DOMAIN f /\ f[c[k].time] = c[k].fd
        /\ c[k].fd = NoFd => c[k].time \notin DOMAIN f
        /\ c[k].time \in Garbage \cup 0 .. top - 1
    BY <2>1 DEF Listed
  <2> QED BY <2>1, <2>2
<1> QED BY <1>3 DEF Listed

LEMMA RestListed ==
  ASSUME NEW c, NEW f, NEW used, NEW entry, NEW top, NEW sockets, NEW gone \in SUBSET DOMAIN c,
         NEW times, times = {c[k].time : k \in gone},
         Owned(c, used, entry, sockets), Listed(c, f, used, entry, top)
  PROVE  /\ Listed(Rest(c, gone), Unlisted(f, times), used, entry, top)
         /\ \A k \in gone : c[k].time \notin DOMAIN Unlisted(f, times)
<1> DEFINE r == Rest(c, gone)
           g == Unlisted(f, times)
<1>1. DOMAIN r = DOMAIN c \ gone /\ \A k \in DOMAIN r : r[k] = c[k]
  BY DEF Rest
<1>2. DOMAIN g = DOMAIN f \ times /\ \A t \in DOMAIN g : g[t] = f[t]
  BY DEF Unlisted, Restrict
<1>3. \A k \in gone : c[k].time \in times
  OBVIOUS
<1>4. \A t \in times : \E k \in gone : c[k].time = t
  OBVIOUS
<1> HIDE DEF r, g
<1>5. \A k \in DOMAIN r : r[k].fd # NoFd => r[k].time \in DOMAIN g /\ g[r[k].time] = r[k].fd
  <2> SUFFICES ASSUME NEW k \in DOMAIN c, k \notin gone, c[k].fd # NoFd
               PROVE  c[k].time \in DOMAIN g /\ g[c[k].time] = c[k].fd
    BY <1>1
  <2>1. c[k].time \in DOMAIN f /\ f[c[k].time] = c[k].fd
    BY DEF Listed
  <2>2. c[k].time \notin times
    <3> SUFFICES ASSUME NEW j \in gone, c[j].time = c[k].time PROVE FALSE
      BY <1>4
    <3>1. j \in DOMAIN c /\ j # k
      OBVIOUS
    <3>2. c[j].fd # NoFd
      BY <2>1, <3>1 DEF Listed
    <3>3. c[j].fd = c[k].fd
      BY <2>1, <3>1, <3>2 DEF Listed
    <3> QED BY <3>1, <3>2, <3>3 DEF Owned
  <2> QED BY <1>2, <2>1, <2>2
<1>6. \A k \in DOMAIN r : r[k].fd = NoFd => r[k].time \notin DOMAIN g
  BY <1>1, <1>2 DEF Listed
<1>7. \A k \in DOMAIN r : r[k].time \in Garbage \cup 0 .. top - 1
  BY <1>1 DEF Listed
<1>8. /\ DOMAIN g \subseteq 0 .. top - 1
      /\ \A e \in used : e.time \notin DOMAIN g
      /\ entry # NoEntry => entry.time \notin DOMAIN g
  BY <1>2 DEF Listed
<1>9. Listed(r, g, used, entry, top)
  BY <1>5, <1>6, <1>7, <1>8 DEF Listed
<1>10. \A k \in gone : c[k].time \notin DOMAIN g
  BY <1>2, <1>3
<1> QED BY <1>9, <1>10 DEF r, g

\* An entry without a socket is put into the family.
LEMMA WithListed ==
  ASSUME NEW c, NEW f, NEW used, NEW entry, NEW top, Listed(c, f, used, entry, top),
         0 \notin DOMAIN c, NEW x, x.fd = NoFd, x.time \notin DOMAIN f,
         x.time \in Garbage \cup 0 .. top - 1
  PROVE  Listed(With(c, x), f, used, NoEntry, top)
<1> DEFINE w == With(c, x)
<1>1. DOMAIN w = DOMAIN c \cup {0} /\ w[0] = x /\ \A k \in DOMAIN c : w[k] = c[k]
  BY DEF With
<1> HIDE DEF w
<1>2. \A k \in DOMAIN w :
        /\ w[k].fd # NoFd => w[k].time \in DOMAIN f /\ f[w[k].time] = w[k].fd
        /\ w[k].fd = NoFd => w[k].time \notin DOMAIN f
        /\ w[k].time \in Garbage \cup 0 .. top - 1
  <2> TAKE k \in DOMAIN w
  <2>1. CASE k = 0
    BY <1>1, <2>1
  <2>2. CASE k # 0
    <3>1. k \in DOMAIN c /\ w[k] = c[k]
      BY <1>1, <2>2
    <3>2. /\ c[k].fd # NoFd => c[k].time \in DOMAIN f /\ f[c[k].time] = c[k].fd
          /\ c[k].fd = NoFd => c[k].time \notin DOMAIN f
          /\ c[k].time \in Garbage \cup 0 .. top - 1
      BY <3>1 DEF Listed
    <3> QED BY <3>1, <3>2
  <2> QED BY <2>1, <2>2
<1>3. Listed(w, f, used, NoEntry, top)
  BY <1>2 DEF Listed
<1> QED BY <1>3 DEF w

\* Another entry is at hand, and others are in use, whose timestamps are not listed either.
LEMMA OthersListed ==
  ASSUME NEW c, NEW f, NEW used, NEW entry, NEW top, Listed(c, f, used, entry, top),
         NEW others, NEW other,
         \A e \in others : e \in used \/ (e.time \notin DOMAIN f
                                          /\ e.time \in Garbage \cup 0 .. top - 1),
         other # NoEntry => other.time \notin DOMAIN f
                            /\ other.time \in Garbage \cup 0 .. top - 1
  PROVE  Listed(c, f, others, other, top)
BY DEF Listed

LEMMA CloseListed ==
  ASSUME CacheInv, ~ crashed, NEW used, NEW sockets, NEW e \in Entries, e.fd # NoFd,
         Owned(cache, used, e, sockets), Listed(cache, fifo, used, e, timestamp),
         NEW gone \in SUBSET DOMAIN cache, NEW times, times = {cache[k].time : k \in gone},
         Close(e, DOMAIN cache \ gone, times)
  PROVE  Listed(cache', fifo', used, NoEntry, timestamp')
<1> DEFINE x == [e EXCEPT !.fd = NoFd]
           s == Without(cache, gone)
           r == Rest(cache, gone)
<1>1. DOMAIN cache \ (DOMAIN cache \ gone) = gone
  OBVIOUS
<1>2. /\ cache' = IF e.priority > 0 THEN Emplaced(s, x) ELSE s
      /\ fifo' = Unlisted(fifo, times)
      /\ timestamp' = timestamp
  BY <1>1 DEF Close
<1>3. s \in Seq(Entries) /\ Arranges(s, r)
  BY WithoutArranges DEF CacheInv, TypeOK, Rest
<1>4. Listed(r, fifo', used, e, timestamp)
  BY <1>2, RestListed
<1>5. x \in Entries /\ x.fd = NoFd /\ x.time = e.time
  BY DEF Entries
<1>6. 0 \notin DOMAIN r
  BY CacheFacts DEF CacheInv, Rest
<1>7. e # NoEntry
  BY DEF NoEntry
<1>8. x.time \notin DOMAIN fifo' /\ x.time \in Garbage \cup 0 .. timestamp - 1
  BY <1>4, <1>5, <1>7 DEF Listed
<1> HIDE DEF x, s, r
<1>9. CASE e.priority > 0
  <2>1. Arranges(cache', With(r, x))
    BY <1>2, <1>3, <1>5, <1>6, <1>9, EmplacedArranges
  <2>2. Listed(With(r, x), fifo', used, NoEntry, timestamp)
    BY <1>4, <1>5, <1>6, <1>8, WithListed
  <2> QED BY <1>2, <2>1, <2>2, ListedArranged
<1>10. CASE ~ (e.priority > 0)
  <2>1. Listed(r, fifo', used, NoEntry, timestamp)
    BY <1>4 DEF Listed
  <2> QED BY <1>2, <1>3, <1>10, <2>1, ListedArranged
<1> QED BY <1>9, <1>10

\* The socket that is kept takes a timestamp that no entry has.
LEMMA KeepListed ==
  ASSUME GarbageApart, CacheInv, ~ crashed, NEW used, NEW e \in Entries, NEW limit,
         e.fd # NoFd, Owned(cache, used, e, open),
         Listed(cache, fifo, used, e, timestamp),
         Keep(e, limit)
  PROVE  Listed(cache', fifo', used, NoEntry, timestamp')
<1> DEFINE evicted == Evicted(limit)
           fds == {fifo[t] : t \in evicted}
           kept == [e EXCEPT !.time = timestamp]
           v == Vacated(cache, fds)
           w == With(v, kept)
<1>1. /\ timestamp < MaxTimestamp /\ timestamp' = timestamp + 1
      /\ fifo' = [t \in (DOMAIN fifo \ evicted) \cup {timestamp} |->
                   IF t = timestamp THEN e.fd ELSE fifo[t]]
      /\ cache' = Emplaced(v, kept)
  BY DEF Keep
<1>2. evicted \subseteq DOMAIN fifo
  BY DEF Evicted
<1>3. timestamp \in 0 .. MaxTimestamp /\ timestamp \in Int
  BY Constants DEF CacheInv, TypeOK
<1>4. /\ \A t \in DOMAIN fifo : fifo[t] # NoFd
      /\ \A t, u \in DOMAIN fifo : fifo[t] = fifo[u] => t = u
  BY ListedApart
<1>5. DOMAIN cache \subseteq Nat /\ 0 \notin DOMAIN cache
  BY CacheFacts DEF CacheInv
<1>6. kept \in Entries /\ kept.fd = e.fd /\ kept.time = timestamp
  BY <1>3 DEF Entries
<1>7. \A t \in evicted : fifo[t] \in fds
  OBVIOUS
<1>8. \A d \in fds : \E t \in evicted : fifo[t] = d
  OBVIOUS
<1>9. /\ DOMAIN fifo' = (DOMAIN fifo \ evicted) \cup {timestamp}
      /\ fifo'[timestamp] = e.fd
      /\ \A t \in DOMAIN fifo' : t # timestamp => fifo'[t] = fifo[t]
  BY <1>1
<1> HIDE DEF evicted, fds, kept, v
<1>10. /\ v \in Seq(Entries) /\ Arranges(v, v) /\ DOMAIN v = DOMAIN cache
       /\ \A k \in DOMAIN cache : cache[k].fd \notin fds => v[k] = cache[k]
       /\ \A k \in DOMAIN v : cache[k].fd \in fds => v[k].fd = NoFd
       /\ \A k \in DOMAIN v : v[k].time = cache[k].time
  BY VacatedFacts DEF v
<1>11. Arranges(cache', w)
  BY <1>1, <1>5, <1>6, <1>10, EmplacedArranges
<1>12. DOMAIN w = DOMAIN v \cup {0} /\ w[0] = kept /\ \A k \in DOMAIN v : w[k] = v[k]
  BY <1>5, <1>10 DEF With
<1> HIDE DEF w
\* No timestamp so far is the new one.
<1>13. \A t \in Garbage \cup 0 .. timestamp - 1 :
         t # timestamp /\ t \in Garbage \cup 0 .. timestamp' - 1
  <2>1. timestamp \notin Garbage
    BY <1>3 DEF GarbageApart
  <2>2. timestamp' - 1 = timestamp
    BY <1>1, <1>3
  <2>3. \A t \in 0 .. timestamp - 1 : t # timestamp /\ t \in 0 .. timestamp
    BY <1>3
  <2> QED BY <2>1, <2>2, <2>3
<1>14. \A k \in DOMAIN v :
         /\ v[k].fd # NoFd => v[k].time \in DOMAIN fifo' /\ fifo'[v[k].time] = v[k].fd
         /\ v[k].fd = NoFd => v[k].time \notin DOMAIN fifo'
         /\ v[k].time \in Garbage \cup 0 .. timestamp' - 1
  <2> SUFFICES ASSUME NEW k \in DOMAIN cache
               PROVE  /\ v[k].fd # NoFd => v[k].time \in DOMAIN fifo'
                                           /\ fifo'[v[k].time] = v[k].fd
                      /\ v[k].fd = NoFd => v[k].time \notin DOMAIN fifo'
                      /\ v[k].time \in Garbage \cup 0 .. timestamp' - 1
    BY <1>10
  <2> DEFINE t == cache[k].time
  <2>1. v[k].time = t /\ t \in Garbage \cup 0 .. timestamp - 1
    BY <1>10 DEF Listed
  <2>2. t # timestamp /\ t \in Garbage \cup 0 .. timestamp' - 1
    BY <1>13, <2>1
  <2>3. /\ cache[k].fd # NoFd => t \in DOMAIN fifo /\ fifo[t] = cache[k].fd
        /\ cache[k].fd = NoFd => t \notin DOMAIN fifo
    BY DEF Listed
  <2> HIDE DEF t
  <2>4. CASE cache[k].fd \in fds
    <3>1. PICK u \in evicted : fifo[u] = cache[k].fd
      BY <1>8, <2>4
    <3>2. u \in DOMAIN fifo /\ cache[k].fd # NoFd
      BY <1>2, <1>4, <3>1
    <3>3. t = u
      BY <1>4, <2>3, <3>1, <3>2
    <3>4. t \notin DOMAIN fifo'
      BY <1>9, <2>2, <3>1, <3>3
    <3>5. v[k].fd = NoFd
      BY <1>10, <2>4
    <3> QED BY <2>1, <2>2, <3>4, <3>5
  <2>5. CASE cache[k].fd \notin fds
    <3>1. v[k].fd = cache[k].fd
      BY <1>10, <2>5
    <3>2. CASE cache[k].fd = NoFd
      <4>1. t \notin DOMAIN fifo'
        BY <1>9, <2>2, <2>3, <3>2
      <4> QED BY <2>1, <2>2, <3>1, <3>2, <4>1
    <3>3. CASE cache[k].fd # NoFd
      <4>1. t \in DOMAIN fifo /\ fifo[t] = cache[k].fd
        BY <2>3, <3>3
      <4>2. t \notin evicted
        BY <1>7, <2>5, <4>1
      <4>3. t \in DOMAIN fifo' /\ fifo'[t] = cache[k].fd
        BY <1>9, <2>2, <4>1, <4>2
      <4> QED BY <2>1, <2>2, <3>1, <3>3, <4>3
    <3> QED BY <3>2, <3>3
  <2> QED BY <2>4, <2>5
<1>15. \A k \in DOMAIN w :
         /\ w[k].fd # NoFd => w[k].time \in DOMAIN fifo' /\ fifo'[w[k].time] = w[k].fd
         /\ w[k].fd = NoFd => w[k].time \notin DOMAIN fifo'
         /\ w[k].time \in Garbage \cup 0 .. timestamp' - 1
  <2> TAKE k \in DOMAIN w
  <2>1. CASE k = 0
    <3>1. w[k].fd = e.fd /\ w[k].time = timestamp
      BY <1>6, <1>12, <2>1
    <3>2. timestamp \in 0 .. timestamp' - 1
      BY <1>1, <1>3
    <3> QED BY <1>9, <3>1, <3>2
  <2>2. CASE k # 0
    <3>1. k \in DOMAIN v /\ w[k] = v[k]
      BY <1>12, <2>2
    <3> QED BY <1>14, <3>1
  <2> QED BY <2>1, <2>2
<1>16. DOMAIN fifo' \subseteq 0 .. timestamp' - 1
  <2>1. DOMAIN fifo \subseteq 0 .. timestamp - 1
    BY DEF Listed
  <2>2. timestamp' - 1 = timestamp
    BY <1>1, <1>3
  <2>3. \A t \in 0 .. timestamp - 1 : t \in 0 .. timestamp
    BY <1>3
  <2>4. timestamp \in 0 .. timestamp
    BY <1>3
  <2> QED BY <1>9, <2>1, <2>2, <2>3, <2>4
<1>17. \A d \in used : d.time \notin DOMAIN fifo' /\ d.time \in Garbage \cup 0 .. timestamp' - 1
  BY <1>9, <1>13 DEF Listed
<1>18. Listed(w, fifo', used, NoEntry, timestamp')
  BY <1>15, <1>16, <1>17 DEF Listed
<1> QED BY <1>11, <1>18, ListedArranged

LEMMA ShutdownListed ==
  ASSUME CacheInv, ~ crashed, NEW used, NEW sockets, NEW e \in Entries, e.fd # NoFd,
         Owned(cache, used, e, sockets), Listed(cache, fifo, used, e, timestamp),
         Shutdown(e)
  PROVE  ~ crashed' => Listed(cache', fifo', used, NoEntry, timestamp')
<1> DEFINE walk == Traversal(cache, e.host)
           gone == {k \in walk : SameAddress(e, cache[k])}
           times == {cache[k].time : k \in gone}
<1>1. ~ crashed' => Close(e, DOMAIN cache \ gone, times)
  BY DEF Shutdown
<1>2. gone \in SUBSET DOMAIN cache
  BY DEF Traversal
<1> HIDE DEF gone
<1>3. times = {cache[k].time : k \in gone}
  OBVIOUS
<1> HIDE DEF times
<1> QED BY <1>1, <1>2, <1>3, CloseListed

LEMMA StopListed ==
  ASSUME GarbageApart, CacheInv, ~ crashed, NEW used, NEW e \in Entries, NEW limit, NEW reuse,
         e.fd # NoFd, Owned(cache, used, e, open),
         Listed(cache, fifo, used, e, timestamp),
         Stop(e, limit, reuse)
  PROVE  Listed(cache', fifo', used, NoEntry, timestamp')
<1>1. CASE ~ reuse
  <2> DEFINE gone == {}
             times == {}
  <2>1. Close(e, DOMAIN cache \ gone, times)
    BY <1>1 DEF Stop
  <2>2. gone \in SUBSET DOMAIN cache /\ times = {cache[k].time : k \in gone}
    OBVIOUS
  <2> HIDE DEF gone, times
  <2> QED BY <2>1, <2>2, CloseListed
<1>2. CASE reuse /\ e.priority > 0
  <2>1. Keep(e, limit)
    BY <1>2 DEF Stop
  <2> QED BY <2>1, KeepListed
<1>3. CASE reuse /\ ~ (e.priority > 0)
  <2>1. UNCHANGED <<cache, fifo, timestamp>>
    BY <1>3 DEF Stop, Drop
  <2> QED BY <2>1 DEF Listed
<1> QED BY <1>1, <1>2, <1>3

\* A look-up delists what it hands out, and a new entry has a timestamp that is not listed.
LEMMA LookUpListed ==
  ASSUME CacheInv, ~ crashed, Listed(cache, fifo, active, current, timestamp),
         NEW host, NEW port, NEW tls,
         cache' = Without(cache, Gone(host, port, tls)),
         fifo' = Unlisted(fifo, Delisted(host, port, tls))
  PROVE  /\ Listed(cache', fifo', active, current, timestamp)
         /\ \A k \in Gone(host, port, tls) : /\ cache[k].time \notin DOMAIN fifo'
                                             /\ cache[k].time \in Garbage \cup 0 .. timestamp - 1
<1> DEFINE gone == Gone(host, port, tls)
           times == Delisted(host, port, tls)
<1>1. gone \in SUBSET DOMAIN cache
  BY LookUp
<1>2. times = {cache[k].time : k \in gone}
  BY DEF Delisted, Gone
<1>3. cache' = Without(cache, gone) /\ fifo' = Unlisted(fifo, times)
  OBVIOUS
<1> HIDE DEF gone, times
<1>4. Owned(cache, active, current, open)
  BY DEF CacheInv
<1>5. /\ Listed(Rest(cache, gone), fifo', active, current, timestamp)
      /\ \A k \in gone : cache[k].time \notin DOMAIN fifo'
  BY <1>1, <1>2, <1>3, <1>4, RestListed
<1>6. Arranges(cache', Rest(cache, gone))
  BY <1>3, WithoutArranges DEF CacheInv, TypeOK, Rest
<1>7. Listed(cache', fifo', active, current, timestamp)
  BY <1>5, <1>6, ListedArranged
<1>8. \A k \in gone : cache[k].time \in Garbage \cup 0 .. timestamp - 1
  BY <1>1 DEF Listed
<1> QED BY <1>5, <1>7, <1>8 DEF gone

LEMMA ResolveListed ==
  ASSUME GarbageApart, CacheInv, Listed(cache, fifo, active, current, timestamp),
         NEW host \in Hosts, NEW endpoint \in Endpoints,
         Resolve(host, endpoint[1], endpoint[2])
  PROVE  Listed(cache', fifo', active', current', timestamp')
<1> DEFINE port == endpoint[1]
           tls == endpoint[2]
           hits == Hits(host, port, tls)
           gone == Gone(host, port, tls)
<1>1. ~ crashed /\ fifo' = Unlisted(fifo, Delisted(host, port, tls))
      /\ UNCHANGED <<timestamp, active>>
  BY DEF Resolve
<1>2. cache' = Without(cache, gone)
  <2>1. CASE hits = {}
    <3>1. gone = Stale(host, port, tls)
      BY <2>1 DEF Gone
    <3> QED BY <2>1, <3>1 DEF Resolve
  <2>2. CASE hits # {}
    BY <2>2 DEF Resolve, Gone
  <2> QED BY <2>1, <2>2
<1>3. /\ Listed(cache', fifo', active, current, timestamp)
      /\ \A k \in gone : /\ cache[k].time \notin DOMAIN fifo'
                         /\ cache[k].time \in Garbage \cup 0 .. timestamp - 1
  BY <1>1, <1>2, LookUpListed
<1>4. current'.time \notin DOMAIN fifo' /\ current'.time \in Garbage \cup 0 .. timestamp - 1
  <2>1. CASE hits = {}
    <3>1. PICK addr \in Addresses, garbage \in Garbage :
            current' = Entry(host, port, addr, garbage)
      BY <2>1 DEF Resolve
    <3>2. current'.time = garbage
      BY <3>1 DEF Entry
    <3>3. timestamp \in 0 .. MaxTimestamp /\ MaxTimestamp \in Nat
      BY Constants DEF CacheInv, TypeOK
    <3>4. \A t \in 0 .. timestamp - 1 : t \in 0 .. MaxTimestamp
      BY <3>3
    <3>5. garbage \notin 0 .. timestamp - 1
      BY <3>4 DEF GarbageApart
    <3> QED BY <1>3, <3>2, <3>5 DEF Listed
  <2>2. CASE hits # {}
    <3>1. current' = [cache[Min(hits)] EXCEPT !.priority = @ - 1]
      BY <2>2 DEF Resolve
    <3>2. Min(hits) \in gone /\ gone \subseteq DOMAIN cache
      BY <1>1, <2>2, LookUp
    <3>3. cache[Min(hits)] \in Entries
      BY <3>2, CacheFacts DEF CacheInv
    <3>4. current'.time = cache[Min(hits)].time
      BY <3>1, <3>3 DEF Entries
    <3> QED BY <1>3, <3>2, <3>4
  <2> QED BY <2>1, <2>2
<1> QED BY <1>1, <1>3, <1>4, OthersListed

LEMMA ResolveFailsListed ==
  ASSUME CacheInv, Listed(cache, fifo, active, current, timestamp),
         NEW host, NEW port, NEW tls, ResolveFails(host, port, tls)
  PROVE  Listed(cache', fifo', active', current', timestamp')
<1>1. /\ ~ crashed /\ Hits(host, port, tls) = {}
      /\ cache' = Without(cache, Stale(host, port, tls))
      /\ fifo' = Unlisted(fifo, Delisted(host, port, tls))
      /\ UNCHANGED <<timestamp, current, active>>
  BY DEF ResolveFails
<1>2. Gone(host, port, tls) = Stale(host, port, tls)
  BY <1>1 DEF Gone
<1> QED BY <1>1, <1>2, LookUpListed

\* A socket in use is taken at hand.
LEMMA TakenListed ==
  ASSUME CacheInv, ~ crashed, current = NoEntry, NEW e \in active, NEW bonus \in Bonuses,
         Listed(cache, fifo, active, current, timestamp)
  PROVE  Listed(cache, fifo, active \ {e}, Raised(e, bonus), timestamp)
<1>1. Raised(e, bonus).time = e.time
  BY TakesOne
<1>2. e.time \notin DOMAIN fifo /\ e.time \in Garbage \cup 0 .. timestamp - 1
  BY DEF Listed
<1> QED BY <1>1, <1>2, OthersListed

LEMMA DisconnectListed ==
  ASSUME GarbageApart, CacheInv, Listed(cache, fifo, active, current, timestamp),
         NEW e \in active, NEW limit, NEW reuse, NEW bonus \in Bonuses,
         Disconnect(e, limit, reuse, bonus)
  PROVE  Listed(cache', fifo', active', current', timestamp')
<1> DEFINE x == Raised(e, bonus)
<1>1. /\ ~ crashed /\ current = NoEntry /\ current' = NoEntry /\ active' = active \ {e}
      /\ Stop(x, limit, reuse)
  BY DEF Disconnect
<1>2. x \in Entries /\ x.fd # NoFd /\ Owned(cache, active \ {e}, x, open)
  BY <1>1, TakesOne
<1>3. Listed(cache, fifo, active \ {e}, x, timestamp)
  BY <1>1, TakenListed
<1> HIDE DEF x
<1> QED BY <1>1, <1>2, <1>3, StopListed

LEMMA ForceShutdownListed ==
  ASSUME CacheInv, Listed(cache, fifo, active, current, timestamp),
         NEW e \in active, ForceShutdown(e)
  PROVE  ~ crashed' => Listed(cache', fifo', active', current', timestamp')
<1>1. PICK bonus \in Bonuses : Shutdown(Raised(e, bonus))
  BY DEF ForceShutdown
<1> DEFINE x == Raised(e, bonus)
<1>2. ~ crashed /\ current = NoEntry /\ current' = NoEntry /\ active' = active \ {e}
  BY DEF ForceShutdown
<1>3. x \in Entries /\ x.fd # NoFd /\ Owned(cache, active \ {e}, x, open)
  BY <1>2, TakesOne
<1>4. Listed(cache, fifo, active \ {e}, x, timestamp)
  BY <1>2, TakenListed
<1>5. Shutdown(x)
  BY <1>1
<1> HIDE DEF x
<1> QED BY <1>2, <1>3, <1>4, <1>5, ShutdownListed

LEMMA ConnectFailsListed ==
  ASSUME CacheInv, Listed(cache, fifo, active, current, timestamp), ConnectFails
  PROVE  ~ crashed' => Listed(cache', fifo', active', current', timestamp')
<1>1. PICK fd \in Descriptors \ open, bonus \in Bonuses \cup {0} :
        /\ Shutdown(Raised([current EXCEPT !.fd = fd], bonus))
        /\ current' = NoEntry
  BY DEF ConnectFails
<1> DEFINE y == [current EXCEPT !.fd = fd]
           x == Raised(y, bonus)
<1>2. ~ crashed /\ current # NoEntry /\ current.fd = NoFd /\ active' = active /\ Shutdown(x)
  BY <1>1 DEF ConnectFails
<1>3. current \in Entries
  BY <1>2 DEF CacheInv, TypeOK
<1>4. y \in Entries /\ y.fd = fd /\ y.time = current.time
  BY <1>3 DEF Entries
<1>5. fd # NoFd /\ bonus \in Nat
  BY Constants
<1> HIDE DEF y
<1>6. x \in Entries /\ x.fd = fd /\ x.time = current.time
  BY <1>4, <1>5, RaisedFacts
<1> HIDE DEF x
<1>7. Owned(cache, active, x, open \cup {fd})
  BY <1>1, <1>2, <1>5, <1>6, OpenedOwned DEF CacheInv
<1>8. Listed(cache, fifo, active, x, timestamp)
  <2>1. current.time \notin DOMAIN fifo /\ current.time \in Garbage \cup 0 .. timestamp - 1
    BY <1>2 DEF Listed
  <2> QED BY <1>6, <2>1, OthersListed
<1>9. x.fd # NoFd
  BY <1>5, <1>6
<1> QED BY <1>1, <1>2, <1>6, <1>7, <1>8, <1>9, ShutdownListed

LEMMA ConnectedListed ==
  ASSUME CacheInv, Listed(cache, fifo, active, current, timestamp), Connected
  PROVE  Listed(cache', fifo', active', current', timestamp')
<1>1. PICK fd \in Descriptors \ open :
        LET e == [current EXCEPT !.fd = fd, !.tls = secure] IN
        /\ active' = active \cup {e}
        /\ current' = NoEntry
  BY DEF Connected
<1> DEFINE e == [current EXCEPT !.fd = fd, !.tls = secure]
<1>2. current # NoEntry /\ UNCHANGED <<cache, fifo, timestamp>>
  BY DEF Connected
<1>3. current \in Entries
  BY <1>2 DEF CacheInv, TypeOK
<1>4. e.time = current.time
  BY <1>3 DEF Entries
<1>5. active' = active \cup {e} /\ current' = NoEntry
  BY <1>1
<1> HIDE DEF e
<1>6. current.time \notin DOMAIN fifo /\ current.time \in Garbage \cup 0 .. timestamp - 1
  BY <1>2 DEF Listed
<1> QED BY <1>2, <1>4, <1>5, <1>6, OthersListed

LEMMA ListedStep ==
  ASSUME GarbageApart, CacheInv, Listed(cache, fifo, active, current, timestamp), [Next]_vars
  PROVE  ~ crashed' => Listed(cache', fifo', active', current', timestamp')
<1>1. CASE UNCHANGED vars
  BY <1>1 DEF vars
<1>2. ASSUME NEW host \in Hosts, NEW endpoint \in Endpoints,
             Resolve(host, endpoint[1], endpoint[2])
      PROVE  Listed(cache', fifo', active', current', timestamp')
  BY <1>2, ResolveListed
<1>3. ASSUME NEW host \in Hosts, NEW endpoint \in Endpoints,
             ResolveFails(host, endpoint[1], endpoint[2])
      PROVE  Listed(cache', fifo', active', current', timestamp')
  BY <1>3, ResolveFailsListed
<1>4. CASE Reuse
  <2>1. /\ current # NoEntry /\ active' = active \cup {current} /\ current' = NoEntry
        /\ UNCHANGED <<cache, fifo, timestamp>>
    BY <1>4 DEF Reuse, NoEntry
  <2>2. current.time \notin DOMAIN fifo /\ current.time \in Garbage \cup 0 .. timestamp - 1
    BY <2>1 DEF Listed
  <2> QED BY <2>1, <2>2, OthersListed
<1>5. CASE NoSocket
  BY <1>5, OthersListed DEF NoSocket
<1>6. CASE Connected
  BY <1>6, ConnectedListed
<1>7. CASE ConnectFails
  BY <1>7, ConnectFailsListed
<1>8. ASSUME NEW e \in active, NEW limit \in Limits, NEW reuse \in BOOLEAN,
             NEW bonus \in Bonuses, Disconnect(e, limit, reuse, bonus)
      PROVE  Listed(cache', fifo', active', current', timestamp')
  BY <1>8, DisconnectListed
<1>9. ASSUME NEW e \in active, ForceShutdown(e)
      PROVE  ~ crashed' => Listed(cache', fifo', active', current', timestamp')
  BY <1>9, ForceShutdownListed
<1> QED BY <1>1, <1>2, <1>3, <1>4, <1>5, <1>6, <1>7, <1>8, <1>9 DEF Next

\* Whatever the bound, fewer entries than it remain in the FIFO.
LEMMA FewRemain ==
  ASSUME NEW limit \in Nat \ {0}, DOMAIN fifo \subseteq Int, IsFiniteSet(DOMAIN fifo)
  PROVE  /\ IsFiniteSet(DOMAIN fifo \ Evicted(limit))
         /\ Cardinality(DOMAIN fifo \ Evicted(limit)) <= limit - 1
<1> DEFINE S == DOMAIN fifo
           n == Cardinality(S)
           left == S \ Evicted(limit)
           last == n - limit + 2 .. n
           f == [t \in left |-> Rank(S, t)]
<1>1. S \in SUBSET Int /\ IsFiniteSet(S)
  OBVIOUS
<1>2. left = {t \in S : ~ (Rank(S, t) <= n - limit + 1)}
  BY DEF Evicted
<1> HIDE DEF S
<1>3. /\ n \in Nat
      /\ \A t \in S : Rank(S, t) \in 1 .. n
      /\ \A t, u \in S : Rank(S, t) = Rank(S, u) => t = u
  BY <1>1, RankFacts
<1> HIDE DEF n, left
<1>4. \A t \in left : t \in S /\ Rank(S, t) \in last
  <2> TAKE t \in left
  <2>1. t \in S /\ Rank(S, t) \in 1 .. n /\ ~ (Rank(S, t) <= n - limit + 1)
    BY <1>2, <1>3
  <2> QED BY <1>3, <2>1
<1>5. f \in Injection(left, last)
  BY <1>3, <1>4 DEF Injection, IsInjective
<1>6. IsFiniteSet(last) /\ Cardinality(last) <= limit - 1
  <2>1. n - limit + 2 \in Int /\ n \in Int
    BY <1>3
  <2>2. /\ IsFiniteSet(last)
        /\ Cardinality(last) = IF n - limit + 2 > n THEN 0 ELSE n - (n - limit + 2) + 1
    BY <2>1, FS_Interval
  <2> QED BY <1>3, <2>2
<1> HIDE DEF f, last
<1>7. /\ IsFiniteSet(left) /\ Cardinality(left) <= Cardinality(last)
      /\ Cardinality(left) \in Nat /\ Cardinality(last) \in Nat
  BY <1>5, <1>6, FS_Injection, FS_CardinalityType
<1>8. Cardinality(left) <= limit - 1
  BY <1>6, <1>7
<1> QED BY <1>7, <1>8 DEF left, S

\* The idle sockets are no more than the FIFO's entries, which list them all.
LEMMA KeepBounds ==
  ASSUME CacheInv, CacheInv', ~ crashed', NEW e, NEW limit \in Nat \ {0}, Keep(e, limit),
         Listed(cache', fifo', active', current', timestamp')
  PROVE  Cardinality(Idle') <= limit
<1> DEFINE left == DOMAIN fifo \ Evicted(limit)
<1>1. DOMAIN fifo \subseteq Int /\ IsFiniteSet(DOMAIN fifo)
  <2>1. DOMAIN fifo \subseteq 0 .. MaxTimestamp
    BY DEF CacheInv, TypeOK
  <2>2. IsFiniteSet(0 .. MaxTimestamp) /\ 0 .. MaxTimestamp \subseteq Int
    BY Constants, FS_Interval
  <2> QED BY <2>1, <2>2, FS_Subset
<1>2. IsFiniteSet(left) /\ Cardinality(left) <= limit - 1 /\ Cardinality(left) \in Nat
  BY <1>1, FewRemain, FS_CardinalityType
<1>3. DOMAIN fifo' = left \cup {timestamp}
  BY DEF Keep
<1> HIDE DEF left
<1>4. IsFiniteSet(DOMAIN fifo') /\ Cardinality(DOMAIN fifo') <= limit
  <2>1. /\ IsFiniteSet(left \cup {timestamp})
        /\ Cardinality(left \cup {timestamp})
             = IF timestamp \in left THEN Cardinality(left) ELSE Cardinality(left) + 1
    BY <1>2, FS_AddElement
  <2> QED BY <1>2, <1>3, <2>1
<1>5. Owned(cache', active', current', open')
  BY DEF CacheInv
<1>6. IsFiniteSet(Idle') /\ Cardinality(Idle') <= Cardinality(DOMAIN fifo')
  <2> DEFINE f == [k \in Idle' |-> cache'[k].time]
  <2>1. \A k \in Idle' : /\ k \in DOMAIN cache' /\ cache'[k].fd # NoFd
                         /\ cache'[k].time \in DOMAIN fifo'
                         /\ fifo'[cache'[k].time] = cache'[k].fd
    BY DEF Idle, Listed
  <2>2. \A j, k \in Idle' : cache'[j].time = cache'[k].time => j = k
    <3> SUFFICES ASSUME NEW j \in Idle', NEW k \in Idle', cache'[j].time = cache'[k].time
                 PROVE  j = k
      OBVIOUS
    <3>1. cache'[j].fd = cache'[k].fd /\ cache'[j].fd # NoFd
      BY <2>1
    <3> QED BY <1>5, <2>1, <3>1 DEF Owned
  <2>3. f \in Injection(Idle', DOMAIN fifo')
    BY <2>1, <2>2 DEF Injection, IsInjective
  <2> HIDE DEF f
  <2> QED BY <1>4, <2>3, FS_Injection
<1>7. Cardinality(Idle') \in Nat /\ Cardinality(DOMAIN fifo') \in Nat
  BY <1>4, <1>6, FS_CardinalityType
<1> QED BY <1>4, <1>6, <1>7

\* All idle sockets are listed in the FIFO, and no other entry has a timestamp that is.
THEOREM AllIdleListed == Spec => []ListedInv
<1>1. Init => ListedInv
  <2> SUFFICES ASSUME Init PROVE ListedInv
    OBVIOUS
  <2>1. /\ cache = <<>> /\ DOMAIN fifo = {} /\ active = {} /\ current = NoEntry
    BY DEF Init
  <2>2. Listed(cache, fifo, active, current, timestamp)
    BY <2>1 DEF Listed
  <2> QED BY <2>2, InitHolds DEF ListedInv
<1>2. ListedInv /\ [Next]_vars => ListedInv'
  <2> SUFFICES ASSUME ListedInv, [Next]_vars PROVE ListedInv'
    OBVIOUS
  <2>1. CacheInv'
    BY StepKeeps DEF ListedInv
  <2>2. ~ crashed' => ~ crashed
    BY DEF Next, vars, Resolve, ResolveFails, Reuse, NoSocket, Connected, ConnectFails,
           Disconnect, ForceShutdown
  <2>3. GarbageApart /\ ~ crashed' => Listed(cache', fifo', active', current', timestamp')
    BY <2>2, ListedStep DEF ListedInv
  <2> QED BY <2>1, <2>3 DEF ListedInv, GarbageApart
<1> QED BY <1>1, <1>2, PTL DEF Spec

\* After a socket was kept, no more than maxCacheEntries of them are idle and open
\* (cache.cpp:63-74), if what reads as a timestamp that was never set is none in use.
THEOREM IdleSocketsBounded == GarbageApart => (Spec => IdleBounded)
<1> DEFINE Bounded == \A e \in active, limit \in Limits, bonus \in Bonuses :
             Disconnect(e, limit, TRUE, bonus) /\ e.priority + bonus > 0 =>
               Cardinality(Idle') <= limit
<1>1. GarbageApart /\ ListedInv /\ ListedInv' /\ [Next]_vars => Bounded
  <2> SUFFICES ASSUME GarbageApart, ListedInv, ListedInv',
                      NEW e \in active, NEW limit \in Limits, NEW bonus \in Bonuses,
                      Disconnect(e, limit, TRUE, bonus), e.priority + bonus > 0
               PROVE  Cardinality(Idle') <= limit
    OBVIOUS
  <2> DEFINE x == Raised(e, bonus)
  <2>1. ~ crashed /\ ~ crashed' /\ current = NoEntry /\ Stop(x, limit, TRUE)
    BY DEF Disconnect
  <2>2. x.priority = e.priority + bonus
    BY <2>1, TakesOne DEF ListedInv
  <2> HIDE DEF x
  <2>3. Keep(x, limit)
    BY <2>1, <2>2 DEF Stop
  <2>4. limit \in Nat \ {0}
    BY Constants
  <2>5. /\ CacheInv /\ CacheInv'
        /\ Listed(cache', fifo', active', current', timestamp')
    BY <2>1 DEF ListedInv, GarbageApart
  <2> QED BY <2>1, <2>3, <2>4, <2>5, KeepBounds
<1>2. SUFFICES ASSUME GarbageApart PROVE Spec => [][Bounded]_vars
  BY DEF IdleBounded
<1>3. ListedInv /\ ListedInv' /\ [Next]_vars => [Bounded]_vars
  BY <1>1, <1>2
<1> HIDE DEF Bounded
<1> QED BY <1>3, AllIdleListed, PTL DEF Spec

=============================================================================
