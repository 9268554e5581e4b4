----------------------------- MODULE SSEWriter -----------------------------
(***************************************************************************)
(* The SSEWriter (respconv/streaming.go) with the parts of its             *)
(* responseAccumulator that decide what it writes: which events a Kiro     *)
(* frame, the end of a response, an error or a proxy-side search puts into *)
(* the client's stream, and when it opens the promotion gate.              *)
(*                                                                         *)
(* The writer is a value: w.active is the open block, w.started says that  *)
(* message_start is written, w.fired that OnVisibleOutput was called,      *)
(* w.err that a write failed.  An operation returns the operations on the  *)
(* ResponseWriter underneath (events and "promote") with the new writer.   *)
(***************************************************************************)
EXTENDS Naturals, Sequences

StartOf == [thinking |-> "thinking_start", text |-> "text_start",
            tool_use |-> "tool_use_start", redacted |-> "redacted_start",
            server_tool_use |-> "server_tool_use_start", search_result |-> "search_result_start"]
Starts  == {StartOf[b] : b \in DOMAIN StartOf}

SSEEvents == Starts \cup {"message_start", "delta", "stop", "message_delta", "message_stop", "error"}

\* What the writer does to the ResponseWriter underneath.
Operations == SSEEvents \cup {"promote"}

(***************************************************************************)
(* The response's text, as the echo guard sees it: empty; a proper prefix  *)
(* of a synthetic placeholder, or blank; a whole placeholder; or anything  *)
(* else.  White space around a placeholder is ignored, but the gate, which *)
(* looks at prefixes, knows less of it than the guard at the end (U+3000,  *)
(* NBSP, \v, \f): padded is a prefix or nothing behind such space, which   *)
(* the gate takes for visible, paddedEcho a whole placeholder behind it.   *)
(***************************************************************************)
NextText == [none       |-> {"prefix", "echo", "padded", "paddedEcho", "visible"},
             prefix     |-> {"prefix", "echo", "padded", "paddedEcho", "visible"},
             echo       |-> {"echo", "visible"},
             padded     |-> {"padded", "paddedEcho", "visible"},
             paddedEcho |-> {"paddedEcho", "visible"},
             visible    |-> {"visible"}]

IsSyntheticEmptyEcho(t) == t \in {"echo", "paddedEcho"}

MayBeSyntheticEmptyEcho(t) == t = "prefix" \/ IsSyntheticEmptyEcho(t)

Writers      == [active : {""} \cup DOMAIN StartOf, started : BOOLEAN, fired : BOOLEAN, err : BOOLEAN]
Accumulators == [text : DOMAIN NextText, thought : BOOLEAN, tool : BOOLEAN, stopped : BOOLEAN,
                 held : SUBSET {"text", "thinking"}]

NewWriter      == [active |-> "", started |-> FALSE, fired |-> FALSE, err |-> FALSE]
\* held: text or thinking kept back for a thinking tag or a stop sequence.
NewAccumulator == [text |-> "none", thought |-> FALSE, tool |-> FALSE, stopped |-> FALSE,
                   held |-> {}]

IsEmptyVisibleEndTurn(a) ==
  ~a.stopped /\ ~a.tool /\ (IsSyntheticEmptyEcho(a.text) \/ (a.text = "none" /\ a.thought))

-----------------------------------------------------------------------------
(* The pieces of the stream *)

ensureStarted(w) == IF w.started THEN <<>> ELSE <<"message_start">>

closeActiveBlock(block) == IF block = "" THEN <<>> ELSE <<"stop">>

switchBlock_LeavesOpen(from, to) == IF from = to THEN <<>> ELSE <<StartOf[to]>>
switchBlock(from, to) ==
  IF from = to THEN <<>> ELSE closeActiveBlock(from) \o <<StartOf[to]>>

fireVisibleOutput(w) == IF w.fired THEN <<>> ELSE <<"promote">>

\* The first text delta opens the gate, whatever it says.
fireVisibleText_AtOnce(w, t) == fireVisibleOutput(w)

\* Text that may still turn out to be an echo does not promote.
fireVisibleText(w, t) == IF MayBeSyntheticEmptyEcho(t) THEN <<>> ELSE fireVisibleOutput(w)

\* The writer once ops are written and block is the open one.
Written(w, ops, block) ==
  [w EXCEPT !.active = block, !.started = @ \/ ops # <<>>,
            !.fired = @ \/ \E i \in 1..Len(ops) : ops[i] = "promote"]

Output(w, ops, block, a) ==
  LET all == ensureStarted(w) \o ops IN [w |-> Written(w, all, block), ops |-> all, acc |-> a]

\* Two outputs in a row: e was computed behind d.
Then(d, e) == [w |-> e.w, ops |-> d.ops \o e.ops, acc |-> e.acc]

-----------------------------------------------------------------------------
(* Thinking and text *)

ThinkingDelta(w, a) ==
  Output(w, switchBlock(w.active, "thinking") \o <<"delta">>, "thinking", [a EXCEPT !.thought = TRUE])

TextDelta(w, a, t) ==
  Output(w, fireVisibleText(w, t) \o switchBlock(w.active, "text") \o <<"delta">>, "text",
         [a EXCEPT !.text = t])

\* One frame, or the end of the response, may bring thinking and text behind it.
ThinkingTextDelta(w, a, t) ==
  LET thinking == ThinkingDelta(w, a) IN Then(thinking, TextDelta(thinking.w, thinking.acc, t))

\* Nothing is written: it is held back, or cut off by a stop sequence or the budget.
Silent(w, a) == [w |-> w, ops |-> <<>>, acc |-> a]

\* The ways to write content of these kinds.
Content(w, a, kinds) ==
  (IF "thinking" \in kinds THEN {ThinkingDelta(w, a)} ELSE {})
    \cup (IF "text" \in kinds THEN {TextDelta(w, a, t) : t \in NextText[a.text]} ELSE {})
    \cup (IF {"text", "thinking"} \subseteq kinds
             THEN {ThinkingTextDelta(w, a, t) : t \in NextText[a.text]} ELSE {})

-----------------------------------------------------------------------------
(* Finish *)

\* The outcomes of FinalizeStream: what was held back comes out or is dropped by the budget.
Flushed(w, a) == {Silent(w, a)} \cup Content(w, a, a.held)

\* Writing what comes out may latch a local stop.
AfterFinalize(a, stop) == [a EXCEPT !.held = {}, !.stopped = @ \/ (stop /\ a.held # {})]

Closing(d, stop) ==
  Then(d, Output(d.w, closeActiveBlock(d.w.active) \o <<"message_delta", "message_stop">>, "",
                 AfterFinalize(d.acc, stop)))

Finish(w, a) == {Closing(d, stop) : d \in Flushed(w, a), stop \in BOOLEAN}

-----------------------------------------------------------------------------
(* HandleEvent *)

RedactedDelta(w, a) ==
  Output(w, closeActiveBlock(w.active) \o <<StartOf["redacted"], "stop">>, "",
         [a EXCEPT !.thought = TRUE])

\* A tool call waits behind the gate like thinking does.
ToolUseDelta_Ungated(w, a) ==
  Output(w, closeActiveBlock(w.active) \o <<StartOf["tool_use"], "delta">>,
         "tool_use", [a EXCEPT !.tool = TRUE])

ToolUseDelta(w, a) ==
  Output(w, fireVisibleOutput(w) \o closeActiveBlock(w.active) \o <<StartOf["tool_use"], "delta">>,
         "tool_use", [a EXCEPT !.tool = TRUE])

\* What one frame's deltas write; stop says that it hits a stop sequence or the token budget.
\* Once the accumulator has stopped, only redacted reasoning still produces output.
Deltas(w, a, stop) ==
  {RedactedDelta(w, a)}
    \cup IF a.stopped THEN {} ELSE
           {ToolUseDelta(w, a)} \cup Content(w, a, {"text", "thinking"})
             \cup IF stop THEN {Silent(w, a)}
                          ELSE {Silent(w, [a EXCEPT !.held = kinds]) :
                                  kinds \in (SUBSET {"text", "thinking"}) \ {{}}}

(***************************************************************************)
(* A stop finishes the stream at once (local), unless the writer drains    *)
(* for the reasoning blob the model may deliver behind its tool call.      *)
(***************************************************************************)
stopOrDrain(d, drains) ==
  IF d.acc.stopped /\ ~(drains /\ d.acc.tool)
    THEN {[w |-> f.w, ops |-> d.ops \o f.ops, acc |-> f.acc, local |-> TRUE] : f \in Finish(d.w, d.acc)}
    ELSE {[w |-> d.w, ops |-> d.ops, acc |-> d.acc, local |-> FALSE]}

HandleEvent(w, a, drains) ==
  UNION {UNION {stopOrDrain([d EXCEPT !.acc.stopped = @ \/ stop], drains) : d \in Deltas(w, a, stop)}
           : stop \in BOOLEAN}

-----------------------------------------------------------------------------
(* Errors, searches and the next round *)

WriteError(w) == closeActiveBlock(w.active) \o <<"error">>

writeBlock_LeavesOpen(w, type, delta) == <<StartOf[type]>> \o delta \o <<"stop">>

writeBlock(w, type, delta) == closeActiveBlock(w.active) \o <<StartOf[type]>> \o delta \o <<"stop">>

WriteServerToolUse(w, a) ==
  Output(w, fireVisibleOutput(w) \o writeBlock(w, "server_tool_use", <<"delta">>), "", a)

WriteSearchResult(w, a) == Output(w, fireVisibleOutput(w) \o writeBlock(w, "search_result", <<>>), "", a)

\* Behind an intercepted tool call only redacted reasoning is recorded.
RecordTail(a, stop) == [a EXCEPT !.thought = TRUE, !.stopped = @ \/ stop]

\* The writer forgets the open block without closing it on the wire.
ResetAccumulator(w) == [w EXCEPT !.active = ""]

-----------------------------------------------------------------------------
\* The events that may stand directly before an event in an Anthropic event stream.
MayPrecede(ev) ==
  CASE ev = "message_start" -> {}
    [] ev \in Starts -> {"message_start", "stop"}
    [] ev = "delta" -> Starts \cup {"delta"}
    [] ev = "stop" -> Starts \cup {"delta"}
    [] ev = "message_delta" -> {"message_start", "stop"}
    [] ev = "message_stop" -> {"message_delta"}
    [] ev = "error" -> {"message_start", "stop"}

\* No event stands in s between the places i and j.
NoEvents(s, i, j) == \A k \in i..j : s[k] \notin SSEEvents

\* The last event in s is one of E.
EndsIn(s, E) == \E i \in 1..Len(s) : s[i] \in E /\ NoEvents(s, i + 1, Len(s))

\* The events in s, whatever stands between them, are one message_start, blocks that open and
\* close one at a time, the closing events once, and nothing behind message_stop or an error.
WellFormed(s) ==
  \A i \in 1..Len(s) : s[i] \in SSEEvents =>
    \/ s[i] = "message_start" /\ NoEvents(s, 1, i - 1)
    \/ \E j \in 1..(i - 1) : NoEvents(s, j + 1, i - 1) /\ s[j] \in MayPrecede(s[i])

=============================================================================
