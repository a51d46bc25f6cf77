------------------------------- MODULE Socket -------------------------------
(***************************************************************************)
(* network::Socket (include/network/socket.hpp): what the receiver's loop  *)
(* relies on.  Requests are prepared, submitted together, and each comes   *)
(* back once, in any order, with a result.                                 *)
(***************************************************************************)
EXTENDS Integers, FiniteSets

CONSTANTS
  Fds,      \* file descriptors: one request of each is under way at a time
  Results   \* what a request may come back with

VARIABLES
  prepared,  \* the requests prepared since the last submit
  pending,   \* those the kernel has
  answered,  \* the one that complete returned last, with its result
  returned   \* what submit returned last

socketVars == <<prepared, pending, answered, returned>>

Nobody == 0

SocketInit ==
  /\ prepared = {}
  /\ pending = {}
  /\ answered = [fd |-> Nobody, result |-> "none"]
  /\ returned = 0

\* send, recv, send_to, recv_to.
Prepare(fd) ==
  /\ fd \notin prepared \cup pending
  /\ prepared' = prepared \cup {fd}
  /\ UNCHANGED <<pending, answered, returned>>

\* submit returns how many there are.
Submit ==
  /\ returned' = Cardinality(prepared)
  /\ pending' = pending \cup prepared
  /\ prepared' = {}
  /\ UNCHANGED answered

Complete(fd) ==
  /\ fd \in pending
  /\ pending' = pending \ {fd}
  /\ \E result \in Results : answered' = [fd |-> fd, result |-> result]
  /\ UNCHANGED <<prepared, returned>>

SocketNext == Submit \/ \E fd \in Fds : Prepare(fd) \/ Complete(fd)

SocketSpec == SocketInit /\ [][SocketNext]_socketVars

=============================================================================
