--------------------------- MODULE MCHTTPMessage ---------------------------
(***************************************************************************)
(* Instance of HTTPMessage for TLC.                                        *)
(***************************************************************************)
EXTENDS HTTPMessage

Answer(code, encoding, length, head, body, symbols) ==
  [code |-> code, encoding |-> encoding, length |-> length, head |-> head, body |-> body,
   symbols |-> symbols]

ByLength == Answer("ok", "length", 2, 2, 2, <<"head", "end", "data", "null">>)
ByChunks == Answer("ok", "chunked", 0, 2, 1, <<"head", "end", "data", "last">>)
WithoutContent == Answer("noContent", "none", 0, 2, 0, <<"head", "zero">>)
Refusal == Answer("error", "length", 1, 2, 1, <<"head", "end", "data">>)
Unsupported == Answer("ok", "none", 0, 1, 1, <<"end", "data">>)

MCAnswers == {ByLength, ByChunks, WithoutContent, Refusal, Unsupported}

=============================================================================
