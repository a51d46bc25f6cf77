----------------------------- MODULE DataVector -----------------------------
(***************************************************************************)
(* utils::DataVector (include/utils/data_vector.hpp): a buffer that grows, *)
(* or one of fixed capacity that belongs to the user.                      *)
(*                                                                         *)
(* The cells are those of the memory, cells beyond the size keep what was  *)
(* written to them; memory numbers the allocations, so that a pointer into *)
(* an earlier one can be told from a pointer into the present one.         *)
(***************************************************************************)
EXTENDS Integers, Sequences

\* A byte of the buffer: which connection it came from, where it stood there, and
\* what it says; and one that was never written.
Cell(from, at, symbol) == [from |-> from, at |-> at, symbol |-> symbol]
Fresh == Cell(0, 0, "data")

EmptyVector == [owned |-> TRUE, capacity |-> 0, size |-> 0, memory |-> 0, cells |-> <<>>]

\* The vector over a buffer of the user's.
UserVector(capacity) ==
  [owned |-> FALSE, capacity |-> capacity, size |-> 0, memory |-> 0,
   cells |-> [k \in 1 .. capacity |-> Fresh]]

Clear(v) == [v EXCEPT !.size = 0]

\* A buffer that is not owned cannot grow: reserve throws.
MayHold(v, n) == v.owned \/ n <= v.capacity

\* Mutant: the new memory is not filled from the old.
ReserveUncopied(v, n) ==
  IF n <= v.capacity THEN v
  ELSE [v EXCEPT !.capacity = n, !.memory = @ + 1, !.cells = [k \in 1 .. n |-> Fresh]]

\* Growing allocates, and copies the elements (not what lies behind them).
Reserve(v, n) ==
  IF n <= v.capacity THEN v
  ELSE [v EXCEPT !.capacity = n, !.memory = @ + 1,
                 !.cells = [k \in 1 .. n |-> IF k <= v.size THEN v.cells[k] ELSE Fresh]]

Resize(v, n) == [Reserve(v, n) EXCEPT !.size = n]

=============================================================================
