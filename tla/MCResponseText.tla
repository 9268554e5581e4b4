--------------------------- MODULE MCResponseText ---------------------------
(***************************************************************************)
(* Bounds for checking ResponseText: tags that begin alike, as <thinking>  *)
(* and </thinking> do, two stop sequences, of which one overlaps itself    *)
(* and the end of a tag, and a response that is just long enough for its   *)
(* thinking to use the budget up in a frame that goes on with text.        *)
(***************************************************************************)
EXTENDS ResponseText

MCOpenTag       == <<"<", "t", "t">>
MCCloseTag      == <<"<", "/">>
MCStopSequences == <<<<"t", "t">>, <<"/", "<">>>>
MCThoughts      == {<<"t", "t", "t">>}
MCChars         == {"<", "/", "t"}
=============================================================================
