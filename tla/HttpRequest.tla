----------------------------- MODULE HttpRequest -----------------------------
(***************************************************************************)
(* network::HttpRequest (include/network/http_request.hpp,                 *)
(* src/network/http_request.cpp) and the escaping of query arguments       *)
(* (utils::encodeUrlParameters).                                           *)
(*                                                                         *)
(* A text is a sequence of symbols: a word the code never looks into is    *)
(* one symbol, and so is each character it searches for.  A message is the *)
(* sequence of its lines.  Queries and headers, std::map in the code, are  *)
(* functions from texts to texts: the order the map iterates in is fixed,  *)
(* and which one it is nothing depends on.                                 *)
(***************************************************************************)
EXTENDS Integers, Sequences, FiniteSetsExt, SequencesExt, TLC

Methods == {"GET", "PUT", "POST", "DELETE"}
Types == {"HTTP/1.0", "HTTP/1.1"}
Invalid == [method |-> "none"]    \* deserialize throws

-----------------------------------------------------------------------------
(* Texts. *)

Position(text, symbol) == SelectInSeq(text, LAMBDA s : s = symbol)
Has(text, symbol) == Position(text, symbol) # 0
Before(text, symbol) ==
  IF Has(text, symbol) THEN SubSeq(text, 1, Position(text, symbol) - 1) ELSE text
\* substr(find(...) + 1): all of the text when nothing is found, as npos + 1 is 0.
After(text, symbol) == SubSeq(text, Position(text, symbol) + 1, Len(text))

Pieces(text, symbol) ==
  FoldLeft(LAMBDA done, s :
             IF s = symbol THEN Append(done, <<>>)
                           ELSE Append(Front(done), Append(Last(done), s)),
           << <<>> >>, text)

Joined(texts, symbol) ==
  IF texts = <<>> THEN <<>>
  ELSE FoldLeft(LAMBDA done, t : done \o <<symbol>> \o t, Head(texts), Tail(texts))

\* In some order, always the same.
Listed(S) == FoldSet(LAMBDA e, done : Append(done, e), <<>>, S)

\* The characters that need an escape, and what they become behind the "%".
Hex == ("%" :> "25") @@ ("/" :> "2F") @@ (";" :> "3B") @@ ("=" :> "3D")
         @@ ("+" :> "2B") @@ ("@" :> "40")

encodeUrlParameters(text) ==
  FlattenSeq([k \in DOMAIN text |->
    IF text[k] \in DOMAIN Hex THEN <<"%", Hex[text[k]]>> ELSE <<text[k]>>])

\* The reverse, as servers do it: a "%" goes, and what follows is the character.
Decoded(text) ==
  FlattenSeq([k \in DOMAIN text |->
    IF text[k] = "%" THEN <<>>
    ELSE IF k > 1 /\ text[k - 1] = "%"
           THEN <<CHOOSE c \in DOMAIN Hex : Hex[c] = text[k]>>
           ELSE <<text[k]>>])

-----------------------------------------------------------------------------
(* Requests and their messages. *)

QueryText(queries) ==
  Joined(Listed({encodeUrlParameters(k) \o <<"=">> \o encodeUrlParameters(queries[k])
                     : k \in DOMAIN queries}), "&")

Lines(method, target, type, headers) ==
  << <<method, " ">> \o target \o <<" ", type>> >>
    \o Listed({name \o <<": ">> \o headers[name] : name \in DOMAIN headers})
    \o << <<>> >>

serialize(request) ==
  LET query == IF DOMAIN request.queries = {} THEN <<>>
               ELSE <<"?">> \o QueryText(request.queries)
  IN Lines(request.method, request.path \o query, request.type, request.headers)

\* map::emplace keeps the value a key already has.
Emplaced(pairs) == FoldLeft(LAMBDA map, p : map @@ (p[1] :> p[2]), <<>>, pairs)

Pair(text, symbol) ==
  <<Before(text, symbol), IF Has(text, symbol) THEN After(text, symbol) ELSE <<>> >>

\* The arguments behind the "?"; one without a key is left out.
Queries(target) ==
  IF ~ Has(target, "?") THEN <<>>
  ELSE LET pieces == Pieces(After(target, "?"), "&") IN
       Emplaced(SelectSeq([k \in DOMAIN pieces |-> Pair(pieces[k], "=")],
                          LAMBDA p : p[1] # <<>>))

deserialize(lines) ==
  LET end == Position(lines, <<>>)
      first == Head(lines)
      line == Tail(first)                    \* without the method
      target == Before(Tail(line), " ")
      headers == SubSeq(lines, 2, end - 1)
  IN  IF \/ end <= 1                         \* no end, or no first line
         \/ Head(first) \notin Methods
         \/ line = <<>> \/ ~ Has(Tail(line), " ")
         \/ \A type \in Types : ~ IsPrefix(<<type>>, After(Tail(line), " "))
         \/ \E k \in DOMAIN headers : ~ Has(headers[k], ": ")
        THEN Invalid
        ELSE [method  |-> Head(first),
              type    |-> Head(After(Tail(line), " ")),
              path    |-> Before(target, "?"),
              queries |-> Queries(target),
              headers |-> Emplaced([k \in DOMAIN headers |-> Pair(headers[k], ": ")])]

=============================================================================
