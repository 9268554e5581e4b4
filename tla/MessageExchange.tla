-------------------------- MODULE MessageExchange --------------------------
(***************************************************************************)
(* One streaming /v1/messages request without tool search: executeRetry    *)
(* and callAndHandle (app/messages/execute.go), handleStreamingResponse    *)
(* (response.go) and the SSEWriter they drive (respconv/streaming.go), on  *)
(* top of the stream session they write to.                                *)
(*                                                                         *)
(* The upstream is the environment: a call succeeds or fails, and a        *)
(* response is a sequence of frames that ends, breaks or carries an error. *)
(* A frame is handled by computing the writer operations it causes (todo)  *)
(* and then running them on the session one by one, interleaved with the   *)
(* heartbeat and the client.                                               *)
(***************************************************************************)
EXTENDS StreamSession, SSEWriter

CONSTANT MaxFrames   \* bound: frames of one upstream response

VARIABLES
  hpc,       \* what the handler does next
  calls,     \* upstream calls made
  seen,      \* frames of this response
  drains,    \* the model drains after a local stop (SetDrainOnStop)
  sw,        \* SSEWriter: active block, started, fired (visibleFired), err (writeErr)
  acc,       \* accumulator: text, thought, tool, stopped (LocalStop), held
  todo,      \* writer operations left of the current frame
  flushDue,  \* the last write of the writer still has to be flushed
  after      \* hpc once todo is done

handler == <<hpc, calls, seen, drains, sw, acc, todo, flushDue, after>>
allVars == <<vars, handler>>

ASSUME ExchangeAssumption == SSEEvents \subseteq Events /\ MaxFrames \in Nat

-----------------------------------------------------------------------------
(* The upstream call and the start of its response *)

\* The call fails for good: nothing was promoted, so there is no block to close.
CallFails ==
  /\ hpc = "call"
  /\ hpc' = "fail"
  /\ UNCHANGED <<vars, calls, seen, drains, sw, acc, todo, flushDue, after>>

CallSucceeds ==
  /\ hpc = "call"
  /\ sw' = NewWriter /\ acc' = NewAccumulator /\ seen' = 0
  /\ SetSSEHeaders \/ ((headersSet \/ committed \/ finalized) /\ UNCHANGED vars)
  /\ hpc' = "start"
  /\ UNCHANGED <<calls, drains, todo, flushDue, after>>

StartSession ==
  /\ hpc = "start"
  /\ Start \/ (started /\ UNCHANGED vars)
  /\ hpc' = "parse"
  /\ UNCHANGED <<calls, seen, drains, sw, acc, todo, flushDue, after>>

-----------------------------------------------------------------------------
(* ParseStream's callback *)

\* A write or the session has failed: the callback stops the stream, nothing is answered.
Broken == sw.err \/ firstErr

GiveUp ==
  /\ hpc \in {"parse", "judge"} /\ (Broken \/ (hpc = "judge" /\ ctxDone))
  /\ hpc' = "done"
  /\ UNCHANGED <<vars, calls, seen, drains, sw, acc, todo, flushDue, after>>

\* A frame: its operations are run on the session one by one (EmitWrite, EmitPromote).
Frame ==
  /\ hpc = "parse" /\ ~Broken /\ seen < MaxFrames
  /\ seen' = seen + 1
  /\ \E r \in HandleEvent(sw, acc, drains) :
       /\ sw' = r.w /\ acc' = r.acc /\ todo' = r.ops
       /\ after' = IF r.local THEN "local" ELSE "parse"
  /\ hpc' = "emit"
  /\ UNCHANGED <<vars, calls, drains, flushDue>>

\* An invalid-state frame with a retryable reason, another error frame, or a broken stream.
ErrorFrame(kind) ==
  /\ hpc = "parse" /\ ~Broken
  /\ hpc' = "judge" /\ after' = kind
  /\ UNCHANGED <<vars, calls, seen, drains, sw, acc, todo, flushDue>>

EndOfStream ==
  /\ hpc = "parse" /\ ~Broken
  /\ hpc' = "judge" /\ after' = "finish"
  /\ UNCHANGED <<vars, calls, seen, drains, sw, acc, todo, flushDue>>

-----------------------------------------------------------------------------
(* Running the writer's operations on the session *)

\* Once writeErr is set every later write of the writer is skipped.
WriterFails == sw' = [sw EXCEPT !.err = TRUE] /\ todo' = <<>> /\ flushDue' = FALSE

EmitWrite ==
  /\ hpc = "emit" /\ ~flushDue /\ todo # <<>> /\ Head(todo) # "promote"
  /\ IF unavailableLocked
       THEN WriterFails /\ UNCHANGED vars
       ELSE /\ Write(Head(todo))
            /\ IF firstErr' THEN WriterFails
                            ELSE todo' = Tail(todo) /\ flushDue' = promoted /\ UNCHANGED sw
  /\ UNCHANGED <<hpc, calls, seen, drains, acc, after>>

\* Flush and captureWriterError behind a direct write.
EmitFlush ==
  /\ hpc = "emit" /\ flushDue
  /\ IF firstErr \/ stopped \/ finalized THEN UNCHANGED vars ELSE Flush
  /\ IF firstErr' THEN WriterFails ELSE flushDue' = FALSE /\ UNCHANGED <<sw, todo>>
  /\ UNCHANGED <<hpc, calls, seen, drains, acc, after>>

\* OnVisibleOutput is session.Promote.
EmitPromote ==
  /\ hpc = "emit" /\ ~flushDue /\ todo # <<>> /\ Head(todo) = "promote"
  /\ IF unavailableLocked
       THEN WriterFails /\ UNCHANGED vars
       ELSE /\ IF promoted THEN UNCHANGED vars ELSE Promote
            /\ IF firstErr' THEN WriterFails ELSE todo' = Tail(todo) /\ UNCHANGED <<sw, flushDue>>
  /\ UNCHANGED <<hpc, calls, seen, drains, acc, after>>

\* HandleEvent, Finish or WriteError returns.
EmitDone ==
  /\ hpc = "emit" /\ ~flushDue /\ todo = <<>>
  /\ hpc' = CASE after = "closing" -> "closing"
              [] after = "finished" -> IF sw.err THEN "done" ELSE "finished"
              [] after \in {"parse", "local"} ->
                   IF Broken THEN "done" ELSE IF after = "local" THEN "judge" ELSE "parse"
  /\ UNCHANGED <<vars, calls, seen, drains, sw, acc, todo, flushDue, after>>

-----------------------------------------------------------------------------
(* Behind ParseStream *)

\* Neither the writer, the session nor the context has failed: act on how the stream ended.
Judge ==
  /\ hpc = "judge" /\ ~Broken /\ ~ctxDone
  /\ \/ /\ after = "finish"
        /\ \E f \in Finish(sw, acc) : sw' = f.w /\ acc' = f.acc /\ todo' = f.ops
        /\ after' = "finished" /\ hpc' = "emit"
     \/ /\ after = "local" /\ hpc' = "deliver" /\ UNCHANGED <<sw, acc, todo, after>>
     \/ /\ after \in {"retryable", "rejected"} /\ hpc' = after
        /\ UNCHANGED <<sw, acc, todo, after>>
  /\ UNCHANGED <<vars, calls, seen, drains, flushDue>>

\* A promoted attempt is thrown away as well.
DiscardAttempt_Promoted ==
  /\ hpc = "retryable" \/ (hpc = "finished" /\ IsEmptyVisibleEndTurn(acc) /\ ~promoted)
  /\ Discard \/ (promoted /\ UNCHANGED vars)
  /\ hpc' = "retry"
  /\ UNCHANGED <<calls, seen, drains, sw, acc, todo, flushDue, after>>

\* The attempt is thrown away; executeRetry decides what follows.
DiscardAttempt ==
  /\ \/ hpc = "retryable" /\ ~promoted
     \/ hpc = "finished" /\ IsEmptyVisibleEndTurn(acc) /\ ~promoted
  /\ Discard
  /\ hpc' = "retry"
  /\ UNCHANGED <<calls, seen, drains, sw, acc, todo, flushDue, after>>

\* What no visible output promoted stays in the buffer.
Accept_WithoutPromotion ==
  /\ \/ hpc = "retryable" /\ promoted /\ hpc' = "rejected"
     \/ hpc = "finished" /\ (promoted \/ ~IsEmptyVisibleEndTurn(acc)) /\ hpc' = "done"
  /\ UNCHANGED <<vars, calls, seen, drains, sw, acc, todo, flushDue, after>>

Accept ==
  /\ \/ hpc = "retryable" /\ promoted /\ hpc' = "rejected"
     \/ hpc = "finished" /\ (promoted \/ ~IsEmptyVisibleEndTurn(acc)) /\ hpc' = "deliver"
  /\ UNCHANGED <<vars, calls, seen, drains, sw, acc, todo, flushDue, after>>

\* A response that showed nothing visible so far is promoted as a whole.
Deliver ==
  /\ hpc = "deliver"
  /\ IF promoted \/ unavailableLocked THEN UNCHANGED vars ELSE Promote
  /\ hpc' = "done"
  /\ UNCHANGED <<calls, seen, drains, sw, acc, todo, flushDue, after>>

\* WriteFinalError with SSEWriter.WriteError as the callback for a promoted stream.
FinalError ==
  /\ hpc \in {"rejected", "fail"}
  /\ IF unavailableLocked
       THEN hpc' = "done" /\ UNCHANGED <<vars, sw, todo, after>>
       ELSE IF hpc = "rejected" /\ promoted
         THEN /\ FinalErrorBegin
              /\ todo' = WriteError(sw)
              /\ sw' = [sw EXCEPT !.active = ""]
              /\ hpc' = "emit" /\ after' = "closing"
         ELSE /\ FinalErrorSSE \/ FinalErrorJSON
              /\ hpc' = "done" /\ UNCHANGED <<sw, todo, after>>
  /\ UNCHANGED <<calls, seen, drains, acc, flushDue>>

FinalErrorReturns ==
  /\ hpc = "closing"
  /\ FinalErrorEnd
  /\ hpc' = "done"
  /\ UNCHANGED <<calls, seen, drains, sw, acc, todo, flushDue, after>>

\* One transparent retry; a second reason is the client's error.
Retry ==
  /\ hpc = "retry"
  /\ IF calls = 1 THEN calls' = 2 /\ hpc' = "call" ELSE hpc' = "fail" /\ UNCHANGED calls
  /\ UNCHANGED <<vars, seen, drains, sw, acc, todo, flushDue, after>>

-----------------------------------------------------------------------------
ExchangeInit ==
  /\ Init
  /\ hpc = "call" /\ calls = 1 /\ seen = 0 /\ drains \in BOOLEAN
  /\ sw = NewWriter /\ acc = NewAccumulator
  /\ todo = <<>> /\ flushDue = FALSE /\ after = "parse"

Step == \/ CallFails \/ CallSucceeds \/ StartSession \/ GiveUp \/ Frame \/ EndOfStream
        \/ \E kind \in {"retryable", "rejected"} : ErrorFrame(kind)
        \/ EmitWrite \/ EmitFlush \/ EmitPromote \/ EmitDone
        \/ Judge \/ DiscardAttempt \/ Accept \/ Deliver \/ FinalError \/ FinalErrorReturns \/ Retry

\* Stop is called behind a delivered response, not deferred.
Returned_Delivered == hpc = "done" /\ promoted
Returned == hpc = "done"

\* The heartbeat, the client and, once the handler has returned, its deferred Stop.
Surroundings ==
  /\ HeartbeatStep \/ Tick \/ ClientGone \/ StopSignal \/ StopReturn \/ Done
     \/ (Returned /\ StopMark)
  /\ UNCHANGED handler

ExchangeNext == Step \/ Surroundings

ExchangeSpec == ExchangeInit /\ [][ExchangeNext]_allVars

\* The handler's goroutine can take a step: of its own until it is done, then of its deferred
\* Stop, which waits for nothing but the heartbeat it joins.
HandlerRuns ==
  \/ hpc # "done"
  \/ Returned /\ (stopper \in {"idle", "marked"} \/ (stopper = "signalled" /\ ~HeartbeatAlive))

\* The heartbeat's can: it is not in its select, or has something to select.
HeartbeatRuns ==
  hb \in {"top", "fire"} \/ (hb = "select" /\ (timer = 0 \/ activity \/ stopCh \/ ctxDone))

\* Both goroutines run while they can, and an upstream response ends: its body is read under a
\* deadline.  This is the weak fairness of the handler's steps and of the heartbeat's, spelled
\* out by what they change.
ExchangeFairSpec ==
  /\ ExchangeSpec
  /\ []<>~HandlerRuns \/ []<><<TRUE>>_<<handler, stopper>>
  /\ []<>~HeartbeatRuns \/ []<><<TRUE>>_hb

-----------------------------------------------------------------------------
(* Properties *)

\* The types of the handler's state.
ExchangeTypeOK ==
  /\ hpc \in {"call", "start", "parse", "emit", "judge", "finished", "deliver", "retryable",
              "rejected", "fail", "closing", "retry", "done"}
  /\ calls \in 1..2 /\ seen \in 0..MaxFrames /\ drains \in BOOLEAN
  /\ sw \in Writers /\ acc \in Accumulators
  /\ todo \in Seq(Operations)
  /\ flushDue \in BOOLEAN
  /\ after \in {"parse", "local", "finish", "finished", "closing", "retryable", "rejected"}

\* What the client has received, in order: semantic events, and what is none.
Semantic ==
  [i \in 1..Len(wire) |-> IF wire[i].kind \in {"event", "final"} THEN wire[i].ev ELSE NoEvent]

\* It has received no semantic event.
SawNothing == NoEvents(Semantic, 1, Len(wire))

\* The client's event stream is well formed at every moment, also across a retry and when an
\* error cuts it short: one message_start, blocks that open and close one at a time, the
\* closing events once, and nothing behind message_stop or an error.
WellFormedStream == WellFormed(Semantic)

\* A request whose client and connection are alive is answered in full: with an event
\* stream that runs to message_stop, or with exactly one error.
EveryRequestAnswered ==
  hpc = "done" /\ ~firstErr /\ ~ctxDone =>
    \/ EndsIn(Semantic, {"message_stop", "error"})
    \/ \E i \in 1..Len(wire) : wire[i].kind \in {"json_error", "sse_error"}

\* The client sees nothing of a turn, not even its first event, while all it says is thinking or
\* may still turn out to be an echoed placeholder; and a turn that ends so is never delivered,
\* unless it is blank, a mere beginning of a placeholder, or has no content at all.  Text behind
\* white space that the gate does not know is released at once, whatever it becomes.
NoEmptyTurn ==
  ~acc.stopped /\ ~acc.tool =>
    \/ SawNothing
    \/ acc.text \in {"visible", "padded", "paddedEcho"}
    \/ hpc = "done" /\ (acc.text = "prefix" \/ (acc.text = "none" /\ ~acc.thought))

\* "A stream that completes as a bare placeholder never promotes, which is what lets the caller
\* discard it" (respconv/streaming.go:382).  It does behind white space the gate does not know.
PlaceholderNeverPromotes ==
  hpc = "finished" /\ ~acc.tool /\ IsSyntheticEmptyEcho(acc.text) => ~promoted

\* The retry is transparent: while a further upstream call is made, or the request is
\* failed over to a plain error, the client has seen keep-alives only.
RetryIsTransparent ==
  hpc \in {"call", "retry", "fail"} => SawNothing /\ ~promoted

\* Every request ends: the handler returns and Stop joins the heartbeat.
RequestEnds == <>(stopper = "returned")

=============================================================================
