---------------------------- MODULE ConnectionCache ----------------------------
(***************************************************************************)
(* network::Cache (include/network/cache.hpp, src/network/cache.cpp), as   *)
(* ConnectionManager drives it (src/network/connection_manager.cpp), with  *)
(* what ThroughputCache adds to it.                                        *)
(*                                                                         *)
(* A connection manager keeps the sockets in use by their descriptor and   *)
(* the idle ones in the cache: a multimap from hostnames, and a FIFO that  *)
(* bounds how many of them stay open.  A manager belongs to one receiver,  *)
(* so its operations do not overlap; how many entries may stay open        *)
(* depends on the number of managers in the program and varies.            *)
(***************************************************************************)
EXTENDS Integers, SequencesExt

CONSTANTS
  Hosts,            \* the hostnames: numbers, in the order of the multimap
  Endpoints,        \* the pairs <<port, tls>> that are connected to
  LowPorts,         \* the ports below 256
  Addresses,        \* the addresses that name resolution can give
  Descriptors,      \* the file descriptors
  DefaultPriority,  \* _defaultPriority
  Bonuses,          \* what ThroughputCache may add to a priority; {0} for Cache
  Limits,           \* maxCacheEntries, whatever the number of managers
  Garbage,          \* what reading a timestamp that was never set may give
  MaxTimestamp,     \* bound: the sockets put into the FIFO
  MaxEntries        \* bound: the entries of the cache when a connection starts

NoFd == -1
NoDns == "none"  \* a null dns pointer

ASSUME CacheAssumption ==
  /\ Hosts \subseteq Nat
  /\ \A endpoint \in Endpoints : endpoint[2] \in BOOLEAN
  /\ NoDns \notin Addresses
  /\ Descriptors \subseteq Nat
  /\ DefaultPriority \in Nat \ {0}
  /\ Bonuses \subseteq Nat
  /\ Limits \subseteq Nat \ {0}
  /\ Garbage \subseteq Int
  /\ MaxTimestamp \in Nat
  /\ MaxEntries \in Nat

VARIABLES
  cache,      \* _cache: the entries in the order of a traversal
  fifo,       \* _fifo: from timestamps to (the descriptors of) entries
  timestamp,  \* _timestamp
  current,    \* socketEntry: what connect has at hand
  secure,     \* its argument tls
  active,     \* _fdSockets: the entries in use
  open,       \* the descriptors that are open
  crashed     \* a null pointer was followed

vars == <<cache, fifo, timestamp, current, secure, active, open, crashed>>

Entry(host, port, addr, garbage) ==
  [host |-> host, port |-> port, tls |-> FALSE, addr |-> addr,
   priority |-> DefaultPriority, time |-> garbage, fd |-> NoFd]

\* There is no entry at hand.
NoEntry == [host |-> 0, port |-> 0, tls |-> FALSE, addr |-> NoDns, priority |-> 0,
            time |-> 0, fd |-> NoFd]

Init ==
  /\ cache = <<>>
  /\ fifo = [t \in {} |-> NoFd]
  /\ timestamp = 0
  /\ current = NoEntry
  /\ secure = FALSE
  /\ active = {}
  /\ open = {}
  /\ crashed = FALSE

-----------------------------------------------------------------------------
(* The containers. *)

\* The number of members up to k, and the member with that number.
Rank(S, k) == Cardinality({j \in S : j <= k})
Nth(S, i) == CHOOSE k \in S : Rank(S, k) = i

\* A sequence without the elements at some of its positions.
Without(s, positions) ==
  LET kept == DOMAIN s \ positions
  IN [i \in 1 .. Cardinality(kept) |-> s[Nth(kept, i)]]

\* A new entry comes after those with its key and before those with a larger one.
Emplaced(s, e) ==
  LET before == Cardinality({k \in DOMAIN s : s[k].host <= e.host})
  IN InsertAt(s, before + 1, e)

\* The traversal from find(host) to the end: it does not stop after that key.
Traversal(s, host) ==
  {k \in DOMAIN s : \E j \in 1 .. k : s[j].host = host}

Unlisted(f, times) == Restrict(f, DOMAIN f \ times)

-----------------------------------------------------------------------------
(* Cache::resolve. *)

Fits(e, port, tls) == e.addr # NoDns /\ e.port = port /\ e.tls = tls

\* The positions a look-up stops at, visits, and cleans up.
Hits(host, port, tls) == {k \in Traversal(cache, host) : Fits(cache[k], port, tls)}
Visited(host, port, tls) ==
  {k \in Traversal(cache, host) : \A h \in Hits(host, port, tls) : k < h}
Stale(host, port, tls) == {k \in Visited(host, port, tls) : cache[k].addr = NoDns}

\* Mutant: the entry that is handed out stays in the FIFO.
DelistedStaleOnly(host, port, tls) == {cache[k].time : k \in Stale(host, port, tls)}

\* What leaves the FIFO with a look-up.
Delisted(host, port, tls) ==
  LET gone == Stale(host, port, tls) \cup
                (IF Hits(host, port, tls) = {} THEN {} ELSE {Min(Hits(host, port, tls))})
  IN {cache[k].time : k \in gone}

\* The first entry that fits is handed out, whatever its hostname; without one
\* the name is resolved, and the timestamp of the new entry is not set.
Resolve(host, port, tls) ==
  LET hits == Hits(host, port, tls)
      stale == Stale(host, port, tls)
  IN
  /\ ~ crashed
  /\ current = NoEntry
  /\ Len(cache) <= MaxEntries
  /\ IF hits # {}
       THEN /\ current' = [cache[Min(hits)] EXCEPT !.priority = @ - 1]
            /\ cache' = Without(cache, stale \cup {Min(hits)})
       ELSE /\ \E addr \in Addresses, garbage \in Garbage :
                 current' = Entry(host, port, addr, garbage)
            /\ cache' = Without(cache, stale)
  /\ fifo' = Unlisted(fifo, Delisted(host, port, tls))
  /\ secure' = tls
  /\ UNCHANGED <<timestamp, active, open, crashed>>

\* getaddrinfo fails: connect throws.  The look-up has cleaned up all the same.
ResolveFails(host, port, tls) ==
  /\ ~ crashed
  /\ current = NoEntry
  /\ Hits(host, port, tls) = {}
  /\ cache' = Without(cache, Stale(host, port, tls))
  /\ fifo' = Unlisted(fifo, Delisted(host, port, tls))
  /\ UNCHANGED <<timestamp, current, secure, active, open, crashed>>

-----------------------------------------------------------------------------
(* Cache::stopSocket and Cache::shutdownSocket. *)

\* Mutant: one entry too few.
EvictedOneLess(limit) ==
  {t \in DOMAIN fifo : Rank(DOMAIN fifo, t) <= Cardinality(DOMAIN fifo) - limit}

\* The entries of the FIFO that make room for one more.
Evicted(limit) ==
  {t \in DOMAIN fifo : Rank(DOMAIN fifo, t) <= Cardinality(DOMAIN fifo) - limit + 1}

\* Mutant: an evicted entry keeps the number of its closed socket.
VacatedAddress(s, fds) ==
  [k \in DOMAIN s |-> IF s[k].fd \in fds THEN [s[k] EXCEPT !.addr = NoDns] ELSE s[k]]

\* The evicted entries stay in the multimap, without a socket and an address.
Vacated(s, fds) ==
  [k \in DOMAIN s |->
     IF s[k].fd \in fds THEN [s[k] EXCEPT !.fd = NoFd, !.addr = NoDns] ELSE s[k]]

\* ThroughputCache first raises the priority of a socket it has timed.
Raised(e, bonus) == [e EXCEPT !.priority = @ + bonus]

\* stopSocket(e, reuse): the socket is kept for the next request ...
Keep(e, limit) ==
  LET evicted == Evicted(limit)
      fds == {fifo[t] : t \in evicted}
      kept == [e EXCEPT !.time = timestamp]
  IN
  /\ timestamp < MaxTimestamp
  /\ timestamp' = timestamp + 1
  /\ open' = open \ fds
  /\ fifo' = [t \in (DOMAIN fifo \ evicted) \cup {timestamp} |->
               IF t = timestamp THEN e.fd ELSE fifo[t]]
  /\ cache' = Emplaced(Vacated(cache, fds), kept)

\* Mutant: an address is kept that is used up.
CloseKeepingAll(e, rest, times) ==
  /\ open' = open \ ({e.fd} \cup {cache[k].fd : k \in DOMAIN cache \ rest})
  /\ cache' = LET kept == Without(cache, DOMAIN cache \ rest) IN
               Emplaced(kept, [e EXCEPT !.fd = NoFd])
  /\ fifo' = Unlisted(fifo, times)
  /\ UNCHANGED timestamp

\* ... or it is closed, and the address may be kept for the next connection.
Close(e, rest, times) ==
  /\ open' = open \ ({e.fd} \cup {cache[k].fd : k \in DOMAIN cache \ rest})
  /\ cache' = LET kept == Without(cache, DOMAIN cache \ rest) IN
               IF e.priority > 0 THEN Emplaced(kept, [e EXCEPT !.fd = NoFd]) ELSE kept
  /\ fifo' = Unlisted(fifo, times)
  /\ UNCHANGED timestamp

\* The socket is closed, its entry is dropped.
Drop(e) ==
  /\ open' = open \ {e.fd}
  /\ UNCHANGED <<cache, fifo, timestamp>>

Stop(e, limit, reuse) ==
  IF ~ reuse THEN Close(e, DOMAIN cache, {})
  ELSE IF e.priority > 0 THEN Keep(e, limit)
  ELSE Drop(e)

\* strncmp compares the port, high byte first, and then the address; it ends at
\* the first byte that is zero, which is that of a port below 256.
SameAddress(e, f) ==
  \/ e.port \in LowPorts /\ f.port \in LowPorts
  \/ e.port = f.port /\ e.addr = f.addr

\* shutdownSocket: the entries with e's address go.  Entries without an address
\* are not expected.
Shutdown(e) ==
  LET walk == Traversal(cache, e.host)
      same == {k \in walk : SameAddress(e, cache[k])}
  IN IF \E k \in walk : cache[k].addr = NoDns
       THEN crashed' = TRUE /\ UNCHANGED <<cache, fifo, timestamp, open>>
       ELSE /\ Close(e, DOMAIN cache \ same, {cache[k].time : k \in same})
            /\ UNCHANGED crashed

-----------------------------------------------------------------------------
(* ConnectionManager. *)

\* connect finds a socket that is open.
Reuse ==
  /\ ~ crashed
  /\ current.fd # NoFd
  /\ active' = active \cup {current}
  /\ current' = NoEntry /\ secure' = FALSE
  /\ UNCHANGED <<cache, fifo, timestamp, open, crashed>>

\* socket fails: connect throws, the entry is gone.
NoSocket ==
  /\ ~ crashed
  /\ current # NoEntry
  /\ current.fd = NoFd
  /\ current' = NoEntry /\ secure' = FALSE
  /\ UNCHANGED <<cache, fifo, timestamp, active, open, crashed>>

\* connect makes a socket and reaches the other side.
Connected ==
  /\ ~ crashed
  /\ current # NoEntry
  /\ current.fd = NoFd
  /\ \E fd \in Descriptors \ open :
       LET e == [current EXCEPT !.fd = fd, !.tls = secure] IN
       /\ open' = open \cup {fd}
       /\ active' = active \cup {e}
       /\ current' = NoEntry /\ secure' = FALSE
  /\ UNCHANGED <<cache, fifo, timestamp, crashed>>

\* A socket is made, but an option cannot be set, or the other side does not
\* answer: it is shut down, and connect throws.
ConnectFails ==
  /\ ~ crashed
  /\ current # NoEntry
  /\ current.fd = NoFd
  /\ \E fd \in Descriptors \ open, bonus \in Bonuses \cup {0} :
       /\ Shutdown(Raised([current EXCEPT !.fd = fd], bonus))
       /\ current' = NoEntry /\ secure' = FALSE
  /\ UNCHANGED active

\* disconnect of a socket in use.
Disconnect(e, limit, reuse, bonus) ==
  /\ ~ crashed
  /\ current = NoEntry
  /\ active' = active \ {e}
  /\ Stop(Raised(e, bonus), limit, reuse)
  /\ UNCHANGED <<current, secure, crashed>>

\* disconnect with forceShutdown.
ForceShutdown(e) ==
  /\ ~ crashed
  /\ current = NoEntry
  /\ active' = active \ {e}
  /\ \E bonus \in Bonuses : Shutdown(Raised(e, bonus))
  /\ UNCHANGED <<current, secure>>

Next ==
  \/ \E host \in Hosts, endpoint \in Endpoints :
       \/ Resolve(host, endpoint[1], endpoint[2])
       \/ ResolveFails(host, endpoint[1], endpoint[2])
  \/ Reuse
  \/ NoSocket
  \/ Connected
  \/ ConnectFails
  \/ \E e \in active :
       \/ \E limit \in Limits, reuse \in BOOLEAN, bonus \in Bonuses :
            Disconnect(e, limit, reuse, bonus)
       \/ ForceShutdown(e)

Spec == Init /\ [][Next]_vars

-----------------------------------------------------------------------------

Entries ==
  [host : Hosts, port : {p[1] : p \in Endpoints}, tls : BOOLEAN, addr : Addresses \cup {NoDns},
   priority : Int, time : Garbage \cup (0 .. MaxTimestamp), fd : Descriptors \cup {NoFd}]

TypeOK ==
  /\ cache \in Seq(Entries)
  /\ DOMAIN fifo \subseteq 0 .. MaxTimestamp
  /\ \A t \in DOMAIN fifo : fifo[t] \in Descriptors
  /\ timestamp \in 0 .. MaxTimestamp
  /\ current \in Entries \cup {NoEntry}
  /\ secure \in BOOLEAN
  /\ active \subseteq {e \in Entries : e.fd # NoFd}
  /\ open \subseteq Descriptors

Idle == {k \in DOMAIN cache : cache[k].fd # NoFd}
Held == IF current.fd = NoFd THEN {} ELSE {current.fd}

\* Every open socket has one owner, in use or idle, and every socket that an entry
\* names is open: none leaks, none is closed twice or used after it was closed,
\* when its number may belong to another connection.
OwnedOnce ==
  ~ crashed =>
  /\ open = {e.fd : e \in active} \cup {cache[k].fd : k \in Idle} \cup Held
  /\ Cardinality(open) = Cardinality(active) + Cardinality(Idle) + Cardinality(Held)

\* The FIFO names only idle sockets of the multimap, each under its own timestamp:
\* an eviction follows no dangling pointer.
FifoSound ==
  \A t \in DOMAIN fifo : \E k \in DOMAIN cache : cache[k].fd = fifo[t] /\ cache[k].time = t

\* An address is handed out again only while it has priority left.
PriorityLeft == \A k \in DOMAIN cache : cache[k].addr # NoDns => cache[k].priority > 0

\* What the next look-up and the next eviction rely on: addresses with priority, and a
\* FIFO without a dangling entry.
Inv == TypeOK /\ FifoSound /\ PriorityLeft

\* The FIFO does its work, "to help reduce open fds" (cache.hpp:55): after a socket
\* was kept, no more than maxCacheEntries of them are idle and open.
IdleBounded ==
  [][\A e \in active, limit \in Limits, bonus \in Bonuses :
       Disconnect(e, limit, TRUE, bonus) /\ e.priority + bonus > 0 =>
         Cardinality(Idle') <= limit]_vars

\* "uses hostname as key" (cache.hpp:53): a look-up finds an entry of that host.
ServesHost ==
  [][\A host \in Hosts, endpoint \in Endpoints :
       Resolve(host, endpoint[1], endpoint[2]) => current'.host = host]_vars

=============================================================================
