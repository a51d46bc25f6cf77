---------------------------- MODULE MCHTTPSMessage ----------------------------
(***************************************************************************)
(* Instance of HTTPSMessage for TLC.                                       *)
(***************************************************************************)
EXTENDS HTTPSMessage

Answer(code, encoding, length, head, body, symbols) ==
  [code |-> code, encoding |-> encoding, length |-> length, head |-> head, body |-> body,
   symbols |-> symbols]

Whole3 == Answer("ok", "length", 2, 1, 2, <<"end", "data", "data">>)
Refusal == Answer("error", "length", 0, 1, 0, <<"end">>)
Unsupported == Answer("ok", "none", 0, 1, 0, <<"end">>)
Nothing == Answer("error", "none", 0, 0, 0, <<>>)

MCAnswers == {Whole3, Refusal, Unsupported, Nothing}

=============================================================================
