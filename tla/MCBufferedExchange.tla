------------------------- MODULE MCBufferedExchange -------------------------
(***************************************************************************)
(* The toolUseEvent payloads for checking BufferedExchange: two client     *)
(* calls that may interleave, repeat, replace or share their input up to   *)
(* white space, a call without an id, and the searches; the first of them  *)
(* has an empty name until its own comes late.                             *)
(***************************************************************************)
EXTENDS BufferedExchange

MCnormalizeJSON(input) == SelectSeq(input, LAMBDA piece : piece # " ")

Payload(id, name, input, as, stop) == [id |-> id, name |-> name, input |-> input, as |-> as, stop |-> stop]

MCToolFrames ==
  {Payload(1, "Read", <<"x">>, "text", stop) : stop \in BOOLEAN}
    \cup {Payload(1, "Read", <<"y">>, "value", FALSE), Payload(1, NoName, <<"y">>, "text", TRUE),
          Payload(2, "Read", <<"x", " ">>, "text", FALSE), Payload(2, NoName, <<>>, "text", TRUE),
          Payload(0, "Read", <<"x">>, "text", FALSE), Payload(0, NoName, <<"y">>, "text", TRUE),
          Payload(3, "", <<"x">>, "text", FALSE), Payload(3, "ToolSearch", <<>>, "text", TRUE),
          Payload(4, "web_search", <<"x">>, "value", TRUE)}
=============================================================================
