----------------------------- MODULE HttpHelper -----------------------------
(***************************************************************************)
(* network::HttpHelper (src/network/http_helper.cpp): where the answer of  *)
(* a server ends.                                                          *)
(*                                                                         *)
(* An answer is a record of what its header says (code, encoding, length), *)
(* of the length of its header and its content, and of its symbols:        *)
(*   "head"  a piece of the header                                         *)
(*   "end"   the empty line that ends the header                           *)
(*   "zero"  the same, after a header line whose last character is 0       *)
(*   "data"  a piece of the content (a chunk's size included)              *)
(*   "null"  a piece of the content that reads 0, end of line, empty line  *)
(*   "last"  the last chunk, which reads the same                          *)
(***************************************************************************)
EXTENDS Integers, Sequences, FiniteSetsExt

CONSTANTS
  Modulus,  \* 2^64: lengths are of type uint64_t
  Garbage   \* what a length that was never set may read as

Symbols == {"head", "end", "zero", "data", "null", "last"}
Codes == {"ok", "noContent", "error"}
Encodings == {"length", "chunked", "none"}

NPos == Modulus - 1
NoInfo == [known |-> FALSE, code |-> "none", encoding |-> "none", length |-> 0, header |-> 0]

\* Whether the whole header is there; detect throws if not.
Readable(symbols) == \E k \in DOMAIN symbols : symbols[k] \in {"end", "zero"}

\* detect throws for an answer with content whose end it cannot tell.
Supported(answer) == answer.code = "noContent" \/ answer.encoding # "none"

\* detect: what the header says.  The length is set only by a Content-Length; an
\* answer without content is all header.
Detected(answer, symbols) ==
  {[known |-> TRUE,
    code |-> answer.code,
    encoding |-> answer.encoding,
    length |-> n,
    header |-> IF answer.code = "noContent" THEN Len(symbols) ELSE answer.head] :
     n \in IF answer.encoding = "length" THEN {answer.length} ELSE Garbage}

\* find("0\r\n\r\n"): the position of the first such zero, counted from 0.
Terminators(symbols) == {k \in DOMAIN symbols : symbols[k] \in {"zero", "null", "last"}}
FoundAt(symbols) ==
  IF Terminators(symbols) = {} THEN NPos
  ELSE Min(Terminators(symbols)) - 1

\* The length that finished stores: for a chunked answer the search's result.
Measured(info, symbols) ==
  IF info.code = "noContent" \/ info.encoding # "chunked" THEN info
  ELSE [info EXCEPT !.length =
          IF FoundAt(symbols) = NPos THEN NPos
          ELSE (FoundAt(symbols) - info.header) % Modulus]

\* finished's answer.
Finished(info, symbols) ==
  \/ info.code = "noContent"
  \/ info.encoding = "length" /\ Len(symbols) >= info.header + info.length
  \/ info.encoding = "chunked" /\ FoundAt(symbols) # NPos

=============================================================================
