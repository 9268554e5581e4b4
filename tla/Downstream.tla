----------------------------- MODULE Downstream -----------------------------
(***************************************************************************)
(* What the client of a streaming /v1/messages request is promised: any    *)
(* number of keep-alives, then either one JSON error response, or the      *)
(* events of a single upstream attempt, in order, possibly cut short by an *)
(* error.  It says nothing of buffers, retries, mutexes or goroutines;     *)
(* StreamSession is shown to implement it.                                 *)
(***************************************************************************)
EXTENDS Naturals, Sequences, FiniteSets

CONSTANT Payloads

VARIABLES
  phase,   \* empty, open (a keep-alive was sent), streaming, failing, closed
  out,     \* the response body so far, keep-alive runs collapsed
  source   \* the attempt whose events are sent; 0 while none is

vars == <<phase, out, source>>

NoPayload == "none"
Piece(kind, e, a, n) == [kind |-> kind, ev |-> e, attempt |-> a, n |-> n]
Pings  == Piece("keepalive", NoPayload, 0, 0)
Broken == Piece("sse_error", NoPayload, 0, 0)
Reject == Piece("json_error", NoPayload, 0, 0)

Live == phase \in {"empty", "open", "streaming"}

\* How many events of the source have been sent.
Sent == Cardinality({i \in 1..Len(out) : out[i].kind \in {"event", "final"}})

Init == phase = "empty" /\ out = <<>> /\ source = 0

KeepAlive ==
  /\ Live
  /\ out' = IF out # <<>> /\ out[Len(out)].kind = "keepalive" THEN out ELSE Append(out, Pings)
  /\ phase' \in {IF phase = "empty" THEN "open" ELSE phase, "closed"}
  /\ UNCHANGED source

\* The first batch fixes the attempt; the response may break off with any batch.
SendEvents ==
  /\ Live
  /\ source' > 0 /\ (source # 0 => source' = source)
  /\ Len(out') >= Len(out)
  /\ SubSeq(out', 1, Len(out)) = out
  /\ \A i \in (Len(out) + 1)..Len(out') :
       out'[i].kind = "event" /\ out'[i].attempt = source' /\ out'[i].n = Sent + i - Len(out)
  /\ phase' \in {"streaming", "closed"}

\* A promoted stream is ended by an error: its block is closed, then the error event.
BeginFailing == phase = "streaming" /\ phase' = "failing" /\ UNCHANGED <<out, source>>

SendFinal ==
  /\ phase = "failing"
  /\ \E e \in Payloads : out' = Append(out, Piece("final", e, source, Sent + 1))
  /\ UNCHANGED <<phase, source>>

FailWithEvent ==
  /\ phase \in {"open", "streaming"}
  /\ out' \in {out, Append(out, Broken)}
  /\ phase' = "closed"
  /\ UNCHANGED source

FailWithBody ==
  /\ phase = "empty"
  /\ out' \in {out, Append(out, Reject)}
  /\ phase' = "closed"
  /\ UNCHANGED source

\* The connection breaks or the request ends.
Close == phase' = "closed" /\ UNCHANGED <<out, source>>

Next == KeepAlive \/ SendEvents \/ BeginFailing \/ SendFinal \/ FailWithEvent \/ FailWithBody \/ Close

Spec == Init /\ [][Next]_vars
=============================================================================
