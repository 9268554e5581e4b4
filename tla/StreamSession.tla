--------------------------- MODULE StreamSession ---------------------------
(***************************************************************************)
(* The request-scoped writer of one streaming /v1/messages request         *)
(* (internal/app/messages/stream_session.go and gate_writer.go).           *)
(*                                                                         *)
(* Three parties share it: the request handler, which buffers semantic SSE *)
(* events until it promotes them or discards them for a retry; a heartbeat *)
(* goroutine, which writes keep-alive comments past that buffer; and the   *)
(* goroutine that calls Stop.  Every method body is one critical section   *)
(* of s.mu and is one action here.  Only three operations let the mutex go *)
(* half way: WriteFinalError around its callback, the heartbeat loop, and  *)
(* Stop.                                                                   *)
(*                                                                         *)
(* A definition D_X is D with the slip X in it.  No specification uses     *)
(* one: they show that the property each names would notice the slip.      *)
(***************************************************************************)
EXTENDS Naturals, Sequences

CONSTANTS
  Events,       \* payloads of semantic SSE events
  Interval,     \* keep-alive interval in clock ticks; 0 disables heartbeats
  MaxWrites,    \* bound: semantic writes accepted per attempt
  MaxAttempts   \* bound: upstream attempts of one request

ASSUME SessionAssumption ==
  /\ Interval \in Nat
  /\ MaxWrites \in Nat
  /\ MaxAttempts \in Nat \ {0}

VARIABLES
  buf,          \* semantic events held back until promotion
  statusSet,    \* a status code is deferred until promotion
  promoted, committed, pendingFlush, firstErr,
  stopped, headersSet, finalizing, finalized,
  activity,     \* the activity channel (capacity 1) holds a token
  stopCh,       \* stopCh is closed
  ctxDone,      \* the derived upstream context is cancelled
  started,      \* startOnce has fired
  hb,           \* heartbeat goroutine: none, top, select, fire, exited
  timer,        \* ticks left on the heartbeat's timer
  idle,         \* ticks since lastActivity
  stopper,      \* the caller of Stop: idle, marked, signalled, returned
  wire,         \* what the client's connection accepted, keep-alive runs collapsed
  head,         \* response head on the wire: unsent, stream, error, bare
  attempt,      \* attempts so far; Discard begins the next one
  written       \* semantic events accepted from this attempt

flags     == <<promoted, committed, pendingFlush, firstErr>>
heartbeat == <<started, hb, timer>>
vars == <<buf, statusSet, flags, stopped, headersSet, finalizing, finalized,
          activity, stopCh, ctxDone, heartbeat, idle, stopper, wire, head,
          attempt, written>>

-----------------------------------------------------------------------------
Item(kind, e, a, n) == [kind |-> kind, ev |-> e, attempt |-> a, n |-> n]
NoEvent   == "none"
KeepAlive == Item("keepalive", NoEvent, 0, 0)
SSEError  == Item("sse_error", NoEvent, 0, 0)
ErrorBody == Item("json_error", NoEvent, 0, 0)

Kinds    == {"keepalive", "sse_error", "json_error", "event", "final"}
WireItem == [kind : Kinds, ev : Events \cup {NoEvent}, attempt : Nat, n : Nat]

\* The heartbeat goroutine exists and has not returned.
HeartbeatAlive == hb \in {"top", "select", "fire"}

unavailableLocked_NoStopped   == firstErr \/ finalized \/ ctxDone
unavailableLocked_NoFinalized == firstErr \/ stopped \/ ctxDone

unavailableLocked == firstErr \/ stopped \/ finalized \/ ctxDone

\* What http.ResponseWriter sends as the head with the first body byte.
ImplicitHead == IF head # "unsent" THEN head ELSE IF headersSet THEN "stream" ELSE "bare"

EndsWithKeepAlive == wire # <<>> /\ wire[Len(wire)].kind = "keepalive"
WithKeepAlive     == IF EndsWithKeepAlive THEN wire ELSE Append(wire, KeepAlive)

\* Outcomes of a socket write, alone or followed by a flush in the same section.
WriteOutcome == {"ok", "short", "fail"}
FlushOutcome == {"ok", "short", "fail", "unflushed"}

\* The response does not count as committed by what the heartbeat sends.
writeSocketLocked_NoCommit(all, torn, r) ==
  /\ wire' = CASE r \in {"ok", "unflushed"} -> all
               [] r = "short" -> torn
               [] r = "fail" -> wire
  /\ committed' = committed
  /\ head' = IF r = "fail" THEN head ELSE ImplicitHead
  /\ firstErr' = (r # "ok") /\ ctxDone' = (ctxDone \/ r # "ok")

\* A short write with a nil error passes for a complete one.
writeSocketLocked_ShortIsOK(all, torn, r) ==
  /\ wire' = CASE r \in {"ok", "unflushed"} -> all
               [] r = "short" -> torn
               [] r = "fail" -> wire
  /\ committed' = (committed \/ r # "fail")
  /\ head' = IF r = "fail" THEN head ELSE ImplicitHead
  /\ firstErr' = (r \in {"fail", "unflushed"})
  /\ ctxDone' = (ctxDone \/ r \in {"fail", "unflushed"})

(***************************************************************************)
(* writeSocketLocked: "all" is the wire when every byte is taken, "torn"   *)
(* what it is when only some are.  The first error is kept and cancels the *)
(* upstream context (storeErrorLocked).                                    *)
(***************************************************************************)
writeSocketLocked(all, torn, r) ==
  /\ wire' = CASE r \in {"ok", "unflushed"} -> all
               [] r = "short" -> torn
               [] r = "fail" -> wire
  /\ committed' = (committed \/ r # "fail")
  /\ head' = IF r = "fail" THEN head ELSE ImplicitHead
  /\ firstErr' = (r # "ok")
  /\ ctxDone' = (ctxDone \/ r # "ok")

\* flushSocketLocked after a write with outcome r in the same critical section.
flushWritten(r) ==
  /\ pendingFlush' = (CASE r = "ok" -> FALSE
                        [] r = "unflushed" -> TRUE
                        [] OTHER -> pendingFlush)
  /\ activity' = (activity \/ r = "ok")
  /\ idle' = IF r = "ok" THEN 0 ELSE idle

-----------------------------------------------------------------------------
(* Operations of the request handler *)

SetSSEHeaders ==
  /\ ~headersSet /\ ~committed /\ ~finalized
  /\ headersSet' = TRUE
  /\ UNCHANGED <<buf, statusSet, flags, stopped, finalizing, finalized, activity,
                 stopCh, ctxDone, heartbeat, idle, stopper, wire, head, attempt, written>>

\* The stopped flag is read outside the critical section that adds to the wait group.
Start_StoppedUnchecked ==
  /\ ~started /\ headersSet
  /\ started' = TRUE
  /\ IF Interval = 0 THEN UNCHANGED <<hb, idle>> ELSE hb' = "top" /\ idle' = 0
  /\ UNCHANGED <<buf, statusSet, flags, stopped, headersSet, finalizing, finalized, activity,
                 stopCh, ctxDone, timer, stopper, wire, head, attempt, written>>

\* Callers install the SSE headers first (NewSSEWriter does).
Start ==
  /\ ~started /\ headersSet
  /\ started' = TRUE
  /\ IF Interval = 0 \/ stopped
       THEN UNCHANGED <<hb, idle>>
       ELSE hb' = "top" /\ idle' = 0
  /\ UNCHANGED <<buf, statusSet, flags, stopped, headersSet, finalizing, finalized, activity,
                 stopCh, ctxDone, timer, stopper, wire, head, attempt, written>>

WriteHeader ==
  /\ headersSet /\ ~firstErr /\ ~stopped /\ ~finalized /\ ~finalizing
  /\ IF promoted
       THEN head' = ImplicitHead /\ UNCHANGED statusSet
       ELSE statusSet' = TRUE /\ UNCHANGED head
  /\ UNCHANGED <<buf, flags, stopped, headersSet, finalizing, finalized, activity,
                 stopCh, ctxDone, heartbeat, idle, stopper, wire, attempt, written>>

\* Before promotion a semantic write lands in the buffer, afterwards on the socket.
Write(e) ==
  /\ headersSet /\ ~unavailableLocked
  /\ written < MaxWrites
  /\ LET item == Item(IF finalizing THEN "final" ELSE "event", e, attempt, written + 1) IN
     \/ /\ ~promoted
        /\ buf' = Append(buf, item)
        /\ written' = written + 1
        /\ UNCHANGED <<committed, pendingFlush, firstErr, ctxDone, wire, head>>
     \/ /\ promoted
        /\ \E r \in WriteOutcome :
             /\ writeSocketLocked(Append(wire, item), wire, r)
             /\ pendingFlush' = (pendingFlush \/ r = "ok")
             /\ written' = IF r = "ok" THEN written + 1 ELSE written
        /\ UNCHANGED buf
  /\ UNCHANGED <<statusSet, promoted, stopped, headersSet, finalizing, finalized, activity,
                 stopCh, heartbeat, idle, stopper, attempt>>

Flush ==
  /\ promoted /\ ~firstErr /\ ~stopped /\ ~finalized
  /\ \/ \* flushed: the activity timestamp moves only if bytes were waiting
        /\ pendingFlush' = FALSE
        /\ activity' = (activity \/ pendingFlush)
        /\ idle' = IF pendingFlush THEN 0 ELSE idle
        /\ head' = ImplicitHead
        /\ UNCHANGED <<firstErr, ctxDone>>
     \/ /\ firstErr' = TRUE /\ ctxDone' = TRUE
        /\ UNCHANGED <<pendingFlush, activity, idle, head>>
  /\ UNCHANGED <<buf, statusSet, promoted, committed, stopped, headersSet, finalizing, finalized,
                 stopCh, heartbeat, stopper, wire, attempt, written>>

\* Promote with an empty buffer: only the deferred status and a flush.
PromoteEmpty ==
  /\ buf = <<>>
  /\ \/ /\ committed' = (committed \/ statusSet)
        /\ pendingFlush' = FALSE
        /\ activity' = (activity \/ pendingFlush)
        /\ idle' = IF pendingFlush THEN 0 ELSE idle
        /\ head' = ImplicitHead
        /\ UNCHANGED <<firstErr, ctxDone>>
     \/ /\ firstErr' = TRUE /\ ctxDone' = TRUE
        /\ head' = IF statusSet THEN ImplicitHead ELSE head
        /\ UNCHANGED <<committed, pendingFlush, activity, idle>>
  /\ UNCHANGED <<buf, wire>>

\* Promote with buffered events: one socket write of the whole buffer, then a flush.
PromoteBuffered ==
  /\ buf # <<>>
  /\ \E r \in FlushOutcome, k \in 0..(Len(buf) - 1) :
       /\ writeSocketLocked(wire \o buf, wire \o SubSeq(buf, 1, k), r)
       /\ flushWritten(r)
       /\ buf' = IF r \in {"ok", "unflushed"} THEN <<>> ELSE buf

Promote ==
  /\ headersSet /\ ~unavailableLocked /\ ~promoted
  /\ promoted' = TRUE
  /\ PromoteEmpty \/ PromoteBuffered
  /\ UNCHANGED <<statusSet, stopped, headersSet, finalizing, finalized,
                 stopCh, heartbeat, stopper, attempt, written>>

Discard_KeepsBuffer ==
  /\ ~promoted
  /\ attempt < MaxAttempts
  /\ statusSet' = FALSE
  /\ attempt' = attempt + 1 /\ written' = 0
  /\ UNCHANGED <<buf, flags, stopped, headersSet, finalizing, finalized, activity,
                 stopCh, ctxDone, heartbeat, idle, stopper, wire, head>>

\* The handler discards an unpromoted attempt and begins the next one.
Discard ==
  /\ ~promoted
  /\ attempt < MaxAttempts
  /\ buf' = <<>> /\ statusSet' = FALSE
  /\ attempt' = attempt + 1 /\ written' = 0
  /\ UNCHANGED <<flags, stopped, headersSet, finalizing, finalized, activity,
                 stopCh, ctxDone, heartbeat, idle, stopper, wire, head>>

-----------------------------------------------------------------------------
(* WriteFinalError: the committed x promoted decision table *)

\* Promoted, with the callback: the mutex is released while SSEWriter closes its block.
FinalErrorBegin ==
  /\ ~unavailableLocked /\ promoted /\ ~finalizing
  /\ finalizing' = TRUE
  /\ UNCHANGED <<buf, statusSet, flags, stopped, headersSet, finalized, activity,
                 stopCh, ctxDone, heartbeat, idle, stopper, wire, head, attempt, written>>

FinalErrorEnd ==
  /\ finalizing
  /\ finalizing' = FALSE /\ finalized' = TRUE
  /\ UNCHANGED <<buf, statusSet, flags, stopped, headersSet, activity,
                 stopCh, ctxDone, heartbeat, idle, stopper, wire, head, attempt, written>>

\* Promoted without a callback, or committed by a keep-alive: one bare SSE error event.
FinalErrorSSE ==
  /\ ~unavailableLocked /\ ~finalizing
  /\ promoted \/ committed
  /\ IF promoted THEN UNCHANGED <<buf, statusSet>> ELSE buf' = <<>> /\ statusSet' = FALSE
  /\ \E r \in FlushOutcome :
       /\ writeSocketLocked(Append(wire, SSEError), wire, r)
       /\ flushWritten(r)
  /\ finalized' = TRUE
  /\ UNCHANGED <<promoted, stopped, headersSet, finalizing, stopCh, heartbeat, stopper,
                 attempt, written>>

\* Nothing committed: an ordinary JSON error response with its own status.
FinalErrorJSON ==
  /\ ~unavailableLocked /\ ~promoted /\ ~committed
  /\ buf' = <<>> /\ statusSet' = FALSE
  /\ \E r \in WriteOutcome :
       /\ wire' = IF r = "ok" THEN Append(wire, ErrorBody) ELSE wire
       /\ committed' = (r # "fail")
       /\ firstErr' = (r # "ok") /\ ctxDone' = (r # "ok")
       /\ pendingFlush' = (pendingFlush \/ r = "ok")
  /\ head' = IF head = "unsent" THEN "error" ELSE head
  /\ finalized' = TRUE
  /\ UNCHANGED <<promoted, stopped, headersSet, finalizing, activity, stopCh, heartbeat, idle,
                 stopper, attempt, written>>

WriteFinalError == FinalErrorBegin \/ FinalErrorEnd \/ FinalErrorSSE \/ FinalErrorJSON

-----------------------------------------------------------------------------
(* The heartbeat goroutine *)

wait_WholeInterval == Interval

\* What is left of the interval since lastActivity.
wait == Interval - idle

\* Loop top: re-check under the mutex and compute the wait.
HeartbeatTop ==
  /\ hb = "top"
  /\ IF stopped \/ firstErr \/ finalizing \/ finalized
       THEN hb' = "exited" /\ UNCHANGED timer
       ELSE hb' = "select" /\ timer' = wait
  /\ UNCHANGED <<buf, statusSet, flags, stopped, headersSet, finalizing, finalized, activity,
                 stopCh, ctxDone, started, idle, stopper, wire, head, attempt, written>>

\* The timer is not armed again after the first activity.
HeartbeatSelect_NoTimer ==
  /\ hb = "select"
  /\ \/ activity /\ activity' = FALSE /\ hb' = "top"
     \/ (stopCh \/ ctxDone) /\ hb' = "exited" /\ UNCHANGED activity
  /\ UNCHANGED <<buf, statusSet, flags, stopped, headersSet, finalizing, finalized,
                 stopCh, ctxDone, started, timer, idle, stopper, wire, head, attempt, written>>

\* The select over the timer, the activity channel, stopCh and the context.
HeartbeatSelect ==
  /\ hb = "select"
  /\ \/ timer = 0 /\ hb' = "fire" /\ UNCHANGED activity
     \/ activity /\ activity' = FALSE /\ hb' = "top"
     \/ (stopCh \/ ctxDone) /\ hb' = "exited" /\ UNCHANGED activity
  /\ UNCHANGED <<buf, statusSet, flags, stopped, headersSet, finalizing, finalized,
                 stopCh, ctxDone, started, timer, idle, stopper, wire, head, attempt, written>>

WriteKeepAlive ==
  /\ hb = "fire"
  /\ \/ /\ finalizing \/ unavailableLocked
        /\ hb' = "exited"
        /\ UNCHANGED <<committed, pendingFlush, firstErr, activity, ctxDone, idle, wire, head>>
     \/ /\ ~finalizing /\ ~unavailableLocked
        /\ \E r \in FlushOutcome :
             /\ writeSocketLocked(WithKeepAlive, wire, r)
             /\ flushWritten(r)
             /\ hb' = IF r = "ok" THEN "top" ELSE "exited"
  /\ UNCHANGED <<buf, statusSet, promoted, stopped, headersSet, finalizing, finalized,
                 stopCh, started, timer, stopper, attempt, written>>

\* Time passes only while the heartbeat goroutine waits: its other steps take no time.
Tick ==
  /\ hb = "select" /\ timer > 0
  /\ timer' = timer - 1 /\ idle' = idle + 1
  /\ UNCHANGED <<buf, statusSet, flags, stopped, headersSet, finalizing, finalized, activity,
                 stopCh, ctxDone, started, hb, stopper, wire, head, attempt, written>>

-----------------------------------------------------------------------------
(* Stop, and the client going away *)

StopMark ==
  /\ stopper = "idle"
  /\ stopped' = TRUE /\ stopper' = "marked"
  /\ UNCHANGED <<buf, statusSet, flags, headersSet, finalizing, finalized, activity,
                 stopCh, ctxDone, heartbeat, idle, wire, head, attempt, written>>

StopSignal ==
  /\ stopper = "marked"
  /\ stopCh' = TRUE /\ ctxDone' = TRUE /\ stopper' = "signalled"
  /\ UNCHANGED <<buf, statusSet, flags, stopped, headersSet, finalizing, finalized, activity,
                 heartbeat, idle, wire, head, attempt, written>>

\* wg.Wait returns once no heartbeat goroutine is left.
StopReturn ==
  /\ stopper = "signalled" /\ ~HeartbeatAlive
  /\ stopper' = "returned"
  /\ UNCHANGED <<buf, statusSet, flags, stopped, headersSet, finalizing, finalized, activity,
                 stopCh, ctxDone, heartbeat, idle, wire, head, attempt, written>>

\* net/http cancels the request context when the client disconnects.
ClientGone ==
  /\ ~ctxDone
  /\ ctxDone' = TRUE
  /\ UNCHANGED <<buf, statusSet, flags, stopped, headersSet, finalizing, finalized, activity,
                 stopCh, heartbeat, idle, stopper, wire, head, attempt, written>>

-----------------------------------------------------------------------------
Init ==
  /\ buf = <<>> /\ statusSet = FALSE
  /\ promoted = FALSE /\ committed = FALSE /\ pendingFlush = FALSE /\ firstErr = FALSE
  /\ stopped = FALSE /\ headersSet = FALSE /\ finalizing = FALSE /\ finalized = FALSE
  /\ activity = FALSE /\ stopCh = FALSE /\ ctxDone = FALSE
  /\ started = FALSE /\ hb = "none" /\ timer = 0 /\ idle = 0
  /\ stopper = "idle" /\ wire = <<>> /\ head = "unsent"
  /\ attempt = 1 /\ written = 0

HeartbeatStep == HeartbeatTop \/ HeartbeatSelect \/ WriteKeepAlive
StopStep      == StopMark \/ StopSignal \/ StopReturn
HandlerStep   == \/ SetSSEHeaders \/ Start \/ WriteHeader \/ Flush \/ Promote \/ Discard
                 \/ WriteFinalError
                 \/ \E e \in Events : Write(e)

\* The request is over: Stop has returned and nothing is left to run.
Done == stopper = "returned" /\ UNCHANGED vars

Next == HandlerStep \/ HeartbeatStep \/ StopStep \/ Tick \/ ClientGone \/ Done

Spec == Init /\ [][Next]_vars

\* Runnable goroutines run, socket calls end (their deadline bounds them), time
\* passes; nothing obliges the handler to call an operation or the client to stay.
Fairness ==
  /\ WF_vars(HeartbeatStep)
  /\ WF_vars(StopSignal) /\ WF_vars(StopReturn)
  /\ WF_vars(FinalErrorEnd)
  /\ WF_vars(Tick)

FairSpec == Spec /\ Fairness

-----------------------------------------------------------------------------
(* Properties *)

FlagsOK ==
  /\ statusSet \in BOOLEAN /\ promoted \in BOOLEAN /\ committed \in BOOLEAN
  /\ pendingFlush \in BOOLEAN /\ firstErr \in BOOLEAN /\ stopped \in BOOLEAN
  /\ headersSet \in BOOLEAN /\ finalizing \in BOOLEAN /\ finalized \in BOOLEAN
  /\ activity \in BOOLEAN /\ stopCh \in BOOLEAN /\ ctxDone \in BOOLEAN
  /\ started \in BOOLEAN

DataOK ==
  /\ buf \in Seq(WireItem) /\ wire \in Seq(WireItem)
  /\ hb \in {"none", "top", "select", "fire", "exited"}
  /\ timer \in 0..Interval /\ idle \in 0..Interval
  /\ stopper \in {"idle", "marked", "signalled", "returned"}
  /\ head \in {"unsent", "stream", "error", "bare"}
  /\ attempt \in 1..MaxAttempts /\ written \in 0..MaxWrites

\* The types of the session's fields.
TypeOK == FlagsOK /\ DataOK

\* A JSON error body is only ever the whole response and comes with its own status line;
\* every other byte belongs to a 200 event stream (the committed x promoted table).
NeverMixJSONAndSSE ==
  \A i \in 1..Len(wire) :
    IF wire[i].kind = "json_error" THEN head = "error" /\ Len(wire) = 1 ELSE head = "stream"

\* Nothing follows a final error: no keep-alive and no late event slips in behind it,
\* although the mutex is free while the callback writes it.
FinalErrorIsLast ==
  \A i, j \in 1..Len(wire) :
    i < j /\ wire[i].kind \in {"final", "sse_error", "json_error"}
      => wire[i].kind = "final" /\ wire[j].kind = "final"

\* The client sees one attempt only: events of a discarded attempt stay off the wire, and
\* those of the surviving one arrive in the order written, none missing before the last.
OneAttemptInOrder ==
  \A j \in 1..Len(wire) : wire[j].kind \in {"event", "final"} =>
    /\ wire[j].attempt = attempt
    /\ wire[j].n \in 1..written
    /\ \A m \in 1..(wire[j].n - 1) :
         \E i \in 1..(j - 1) : wire[i].n = m /\ wire[i].kind \in {"event", "final"}

\* Promotion loses nothing: while the connection works, every event accepted from the
\* promoted attempt is on the wire.
PromotedEventsDelivered ==
  promoted /\ ~firstErr =>
    \A m \in 1..written : \E i \in 1..Len(wire) : wire[i].n = m

\* Stop joins: when it has returned no heartbeat goroutine is left, even when it races Start.
StopJoinsHeartbeat == stopper = "returned" => ~HeartbeatAlive

\* Once Stop has marked the session or a transport error is stored, no byte is written.
SilentOnceUnavailable ==
  [][stopped \/ firstErr \/ finalized => UNCHANGED <<wire, head>>]_vars

\* While a heartbeat runs, the connection is never silent for more than the interval.
BoundedSilence == HeartbeatAlive => idle + (IF hb = "select" THEN timer ELSE 0) <= Interval

\* The session implements Downstream: the phase the client can tell is a function of the flags.
ClientView == INSTANCE Downstream WITH
  Payloads <- Events,
  out      <- wire,
  source   <- IF promoted THEN attempt ELSE 0,
  phase    <- IF firstErr \/ stopped \/ finalized THEN "closed"
              ELSE IF finalizing THEN "failing"
              ELSE IF promoted THEN "streaming"
              ELSE IF committed THEN "open" ELSE "empty"

\* The client sees keep-alives and then one JSON error or one attempt's events: whatever the
\* interleaving of handler, heartbeat and Stop, and whatever write fails.
ImplementsDownstream == ClientView!Spec

\* Every call of Stop returns.
StopReturns == stopper # "idle" ~> stopper = "returned"

\* A finished or broken stream does not keep its heartbeat goroutine.
HeartbeatEnds == finalized \/ firstErr ~> ~HeartbeatAlive
=============================================================================
