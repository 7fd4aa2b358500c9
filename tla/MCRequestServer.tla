-------------------------- MODULE MCRequestServer --------------------------
(* An instance of RequestServer.  Names are one letter long.               *)
EXTENDS RequestServer

CONSTANTS switch, press

(* Torn, they also say <q>k, which ends the program, {f}k, {f> and <f}k.   *)
MCText ==
  [r \in Requests |->
     CASE r = switch -> <<"<", "f", ">", "k">>
       [] r = press -> <<"{", "q", "}">>]

MCFunctionNames == {<<"f">>, <<"q">>}
MCExitNames == {<<"q">>}
MCKeyNames == {<<"c", "-", "k">>}

(* What parse_command() makes of texts, torn ones among them.              *)
KindsOf(text) ==
  LET units == ParseCommand(text) IN [n \in DOMAIN units |-> <<units[n].at, units[n].kind>>]

ASSUME ParserReads ==
  /\ KindsOf(<<"<", "f", ">", "k">>) = << <<1, "function">>, <<4, "key">> >>
  /\ KindsOf(<<"k", "{", "k", "<", "f", ">", "}", "k">>) =
       << <<1, "key">>, <<3, "external">>, <<4, "function">>, <<8, "key">> >>
  /\ KindsOf(<<"{", "k">>) = << <<1, "key">>, <<2, "key">> >>
  /\ KindsOf(<<"{", "}", "<", "q", ">">>) = << <<3, "exit">> >>
  /\ KindsOf(<<"<", "k", "}", "k">>) = << <<1, "bad">> >>
  /\ KindsOf(<<"<", "c", "-", "k", ">", "{", "<", "c", "-", "k", ">", "}">>) =
       << <<1, "key">>, <<7, "external">> >>

=============================================================================
