---------------------------- MODULE EventStream ----------------------------
(***************************************************************************)
(* ParseStream (kiroproto/eventstream.go) over readFrame (frame.go) and    *)
(* the toolUseAccumulator (tooluse.go): how the frames of an upstream body *)
(* become the events its callback sees, and how a body ends.  A tool call  *)
(* is spread over several toolUseEvent frames; the accumulator has to      *)
(* find where one ends and the next begins.                                *)
(*                                                                         *)
(* A toolUseEvent frame is [id, name, input, as, stop]: 0 and NoName stand *)
(* for fields the payload lacks; input is a sequence of pieces, and as     *)
(* says whether it is a JSON string, which is appended, or another value,  *)
(* which replaces what was collected.                                      *)
(***************************************************************************)
EXTENDS Naturals, Sequences, FiniteSets

CONSTANTS
  ToolFrames,   \* the toolUseEvent payloads an upstream may send
  MaxFrames     \* bound: frames of one upstream response

ASSUME EventStreamAssumption ==
  /\ MaxFrames \in Nat
  /\ \A f \in ToolFrames : /\ f.id \in 0..99 /\ f.name \in STRING /\ f.input \in Seq(STRING)
                           /\ f.as \in {"text", "value"} /\ f.stop \in BOOLEAN

\* A payload without the key "name", which is not one with an empty name.
NoName == "no name"

VARIABLES
  tool,   \* the toolUseAccumulator: the call being collected
  read,   \* frames read of this response
  sent,   \* its decodable toolUseEvent frames
  body    \* "open", how it ended, or "stopped" by an error event

streamVars == <<tool, read, sent, body>>

NoTool == [id |-> 0, name |-> "", input |-> <<>>]

\* uuid.New for a call without an id: unlike every id the upstream sends.
NewUUID == 101 + Len(sent)

-----------------------------------------------------------------------------
(* toolUseAccumulator.update *)

isNewTool(t, f) == (f.id # 0 /\ f.id # t.id) \/ (f.id = 0 /\ t.id = 0 /\ f.name # NoName)

\* What was collected of the call before is kept.
Begin_KeepsInput(t, f) ==
  IF isNewTool(t, f) THEN [t EXCEPT !.id = IF f.id = 0 THEN NewUUID ELSE f.id] ELSE t

Begin(t, f) ==
  IF isNewTool(t, f) THEN [NoTool EXCEPT !.id = IF f.id = 0 THEN NewUUID ELSE f.id] ELSE t

\* The name may arrive late, and the last one counts.
Collect(t, f) ==
  [t EXCEPT !.name = IF f.name = NoName THEN @ ELSE f.name,
            !.input = IF f.as = "value" THEN f.input ELSE @ \o f.input]

\* The completed calls: the one before, if its stop never came, and this one at its stop.
update(t, f) ==
  LET now == Collect(Begin(t, f), f)
  IN [tool |-> IF f.stop THEN NoTool ELSE now,
      events |-> (IF isNewTool(t, f) /\ t.id # 0 THEN <<t>> ELSE <<>>)
                   \o (IF f.stop THEN <<now>> ELSE <<>>)]

\* A call without a stop frame is dropped when the body ends.
flush_Drops(t) == <<>>

flush(t) == IF t.id = 0 THEN <<>> ELSE <<t>>

-----------------------------------------------------------------------------
(* ParseStream's loop; the callback's effect on the caller is the caller's *)

Open ==
  /\ tool' = NoTool /\ read' = 0 /\ sent' = <<>> /\ body' = "open"

\* A toolUseEvent.  One that cannot be decoded is skipped.
ToolFrame(f) ==
  /\ body = "open" /\ read < MaxFrames
  /\ read' = read + 1
  /\ sent' = Append(sent, f) /\ tool' = update(tool, f).tool
  /\ UNCHANGED body

\* Any other frame whose event does not stop the callback, or that is ignored.
OtherFrame ==
  /\ body = "open" /\ read < MaxFrames
  /\ read' = read + 1
  /\ UNCHANGED <<tool, sent, body>>

\* An invalidStateEvent stops the callback and an exception frame the loop; nothing is flushed.
ErrorEvent ==
  /\ body = "open"
  /\ body' = "stopped"
  /\ UNCHANGED <<tool, read, sent>>

(***************************************************************************)
(* The ways a body ends: after its last frame (eof), cut between two       *)
(* frames (cut) or inside one (truncated), by a corrupt frame or an event  *)
(* that cannot be decoded (corrupt), or because the context is done        *)
(* (cancelled).  A cut between two frames counts as the end.               *)
(***************************************************************************)
Endings == {"eof", "cut", "truncated", "corrupt", "cancelled"}

\* A body cut in the middle of a frame passes for its end.
Failed_NotTruncated(ending) == ending \in {"corrupt", "cancelled"}

\* ParseStream returns an error.
Failed(ending) == ending \in {"truncated", "corrupt", "cancelled"}

BodyEnds(ending) ==
  /\ body = "open"
  /\ body' = ending
  /\ tool' = IF Failed(ending) THEN tool ELSE NoTool
  /\ UNCHANGED <<read, sent>>

-----------------------------------------------------------------------------
(***************************************************************************)
(* The tool calls a response holds, read off its frames.  A frame belongs  *)
(* to the call it names, and one without an id to the call before it,      *)
(* unless that has been stopped; then it begins a call of its own if it    *)
(* has a name, and is nobody's (0) if not.  A call is a longest run of     *)
(* frames of one owner with no stop but at its end; its name is the last   *)
(* one given, its input everything since the last frame that carried a     *)
(* whole value.                                                            *)
(***************************************************************************)
Owner(s) ==
  LET owner[i \in 0..Len(s)] ==
        IF i = 0 THEN 0
        ELSE IF s[i].id # 0 THEN s[i].id
        ELSE IF i > 1 /\ ~s[i - 1].stop /\ owner[i - 1] # 0 THEN owner[i - 1]
        ELSE IF s[i].name # NoName THEN 100 + i ELSE 0
  IN owner

\* What has been collected at each frame of a call that begins with the i-th.
Inputs(s, i) ==
  LET input[k \in 0..Len(s)] ==
        IF k < i THEN <<>>
        ELSE IF s[k].as = "value" THEN s[k].input ELSE input[k - 1] \o s[k].input
  IN input

\* First and last frame of every call.
Runs(s) ==
  LET owner == Owner(s)
      joined(k) == owner[k] = owner[k + 1] /\ ~s[k].stop
  IN {r \in (1..Len(s)) \X (1..Len(s)) :
        /\ r[1] <= r[2]
        /\ \A k \in r[1]..(r[2] - 1) : joined(k)
        /\ r[1] > 1 => ~joined(r[1] - 1)
        /\ r[2] < Len(s) => ~joined(r[2])}

NameOf(s, i, j) ==
  LET named == {k \in i..j : s[k].name # NoName}
  IN IF named = {} THEN "" ELSE s[CHOOSE k \in named : \A l \in named : l <= k].name

CallOf(s, r) ==
  [id |-> Owner(s)[r[1]], name |-> NameOf(s, r[1], r[2]), input |-> Inputs(s, r[1])[r[2]]]

SentCalls(s) == {CallOf(s, r) : r \in Runs(s)}

=============================================================================
