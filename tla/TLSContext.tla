----------------------------- MODULE TLSContext -----------------------------
(***************************************************************************)
(* network::TLSContext (src/network/tls_context.cpp): the sessions of a    *)
(* thread's TLS connections, kept for the next connection to an address.   *)
(* The table is indexed by the low bits of the address, so that addresses  *)
(* share entries.  OpenSSL counts the references to a session and frees it *)
(* with the last one.                                                      *)
(***************************************************************************)
EXTENDS Integers, Bags

CONSTANTS
  Addresses,  \* the addresses of servers; 0 is none
  CacheSize   \* the entries of the table, 256 in the code

ASSUME TLSContextAssumption ==
  /\ Addresses \subseteq Nat \ {0}
  /\ CacheSize \in Nat \ {0}

VARIABLES
  sessionCache,  \* _sessionCache: for each entry an address, first, and a session, second
  references     \* the references to sessions: a bag

sessions == <<sessionCache, references>>

NoSession == 0

SessionsInit ==
  /\ sessionCache = [slot \in 0 .. CacheSize - 1 |-> [first |-> 0, second |-> NoSession]]
  /\ references = EmptyBag

\* address & cacheMask.
Slot(address) == address % CacheSize

\* reuseSession: the session cached for the address.
Reused(address) ==
  IF sessionCache[Slot(address)].first = address
    THEN sessionCache[Slot(address)].second ELSE NoSession

Reference(session) == IF session = NoSession THEN EmptyBag ELSE SetToBag({session})

Cached(slot) ==
  IF sessionCache[slot].first # 0 THEN Reference(sessionCache[slot].second) ELSE EmptyBag

\* Mutant: the session the entry had is not freed.
CacheSessionLeaking(address, reused, session) ==
  IF reused THEN UNCHANGED sessions
  ELSE /\ sessionCache' =
            [sessionCache EXCEPT ![Slot(address)] = [first |-> address, second |-> session]]
       /\ references' = references (+) Reference(session)

\* SSL_get1_session counts the reference; a session that was resumed is not cached.
CacheSession(address, reused, session) ==
  IF reused THEN UNCHANGED sessions
  ELSE /\ sessionCache' =
            [sessionCache EXCEPT ![Slot(address)] = [first |-> address, second |-> session]]
       /\ references' = (references (-) Cached(Slot(address))) (+) Reference(session)

\* Whatever session the entry has is dropped, also one of another address.
DropSession(address) ==
  /\ sessionCache' = [sessionCache EXCEPT ![Slot(address)].first = 0]
  /\ references' = references (-) Cached(Slot(address))

=============================================================================
