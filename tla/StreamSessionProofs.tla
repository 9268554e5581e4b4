------------------------ MODULE StreamSessionProofs ------------------------
(***************************************************************************)
(* Theorems about StreamSession, for every set of payloads, every interval *)
(* and every bound on writes and attempts.                                 *)
(***************************************************************************)
EXTENDS StreamSession, SequenceTheorems, FiniteSets, FiniteSetTheorems, TLAPS

(***************************************************************************)
(* The pieces of the response are wire items.                              *)
(***************************************************************************)
LEMMA ItemTypes ==
  /\ KeepAlive \in WireItem /\ SSEError \in WireItem /\ ErrorBody \in WireItem
  /\ \A e \in Events, a \in Nat, n \in Nat :
       Item("event", e, a, n) \in WireItem /\ Item("final", e, a, n) \in WireItem
BY DEF KeepAlive, SSEError, ErrorBody, Item, WireItem, Kinds, NoEvent

(***************************************************************************)
(* A torn write of the buffer leaves a prefix of it behind the wire.       *)
(***************************************************************************)
LEMMA TornConcat ==
  ASSUME NEW w \in Seq(WireItem), NEW b \in Seq(WireItem), NEW k \in 0..Len(b)
  PROVE  /\ w \o SubSeq(b, 1, k) \in Seq(WireItem)
         /\ Len(w \o SubSeq(b, 1, k)) = Len(w) + k
         /\ \A i \in 1..(Len(w) + k) :
              (w \o SubSeq(b, 1, k))[i] = IF i <= Len(w) THEN w[i] ELSE b[i - Len(w)]
<1> DEFINE s == SubSeq(b, 1, k)
<1>1. Len(b) \in Nat /\ Len(w) \in Nat /\ k \in Int /\ \A i \in 1..k : b[i] \in WireItem
  BY ElementOfSeq, LenProperties
<1>2. s \in Seq(WireItem) /\ Len(s) = k /\ \A i \in 1..k : s[i] = b[i]
  BY <1>1, SubSeqProperties
<1>3. /\ w \o s \in Seq(WireItem)
      /\ Len(w \o s) = Len(w) + Len(s)
      /\ \A i \in 1..(Len(w) + Len(s)) : (w \o s)[i] = IF i <= Len(w) THEN w[i] ELSE s[i - Len(w)]
  BY <1>2, ConcatProperties
<1> HIDE DEF s
<1>4. \A i \in 1..(Len(w) + k) : ~(i <= Len(w)) => s[i - Len(w)] = b[i - Len(w)]
  BY <1>1, <1>2
<1>. QED
  BY <1>2, <1>3, <1>4 DEF s

-----------------------------------------------------------------------------
(***************************************************************************)
(* Type correctness: every field keeps its type, and the clock of the      *)
(* heartbeat stays within the interval.                                    *)
(***************************************************************************)
\* The timer never runs past the next keep-alive that is due.
ClockOK == hb = "select" => idle + timer <= Interval

\* Every step keeps the flags boolean.
LEMMA FlagsStep == FlagsOK /\ [Next]_vars => FlagsOK'
<1>. SUFFICES ASSUME FlagsOK, [Next]_vars PROVE FlagsOK'
  OBVIOUS
<1>. USE DEF FlagsOK, flags, heartbeat
<1>1. CASE SetSSEHeaders
  BY <1>1, ZenonT(30) DEF SetSSEHeaders
<1>2. CASE Start
  BY <1>2, ZenonT(30) DEF Start
<1>3. CASE WriteHeader
  BY <1>3, ZenonT(30) DEF WriteHeader
<1>4. CASE Flush
  BY <1>4, ZenonT(30) DEF Flush
<1>5. CASE Discard
  BY <1>5, ZenonT(30) DEF Discard
<1>6. CASE Promote
  BY <1>6, ZenonT(30) DEF Promote, PromoteEmpty, PromoteBuffered, writeSocketLocked, flushWritten
<1>7. CASE FinalErrorBegin
  BY <1>7, ZenonT(30) DEF FinalErrorBegin
<1>8. CASE FinalErrorEnd
  BY <1>8, ZenonT(30) DEF FinalErrorEnd
<1>9. CASE FinalErrorSSE
  BY <1>9, ZenonT(30) DEF FinalErrorSSE, writeSocketLocked, flushWritten
<1>10. CASE FinalErrorJSON
  BY <1>10, ZenonT(30) DEF FinalErrorJSON
<1>11. ASSUME NEW e \in Events, Write(e) PROVE FlagsOK'
  BY <1>11, ZenonT(30) DEF Write, writeSocketLocked
<1>12. CASE HeartbeatTop
  BY <1>12, ZenonT(30) DEF HeartbeatTop
<1>13. CASE HeartbeatSelect
  BY <1>13, ZenonT(90) DEF HeartbeatSelect
<1>14. CASE WriteKeepAlive
  BY <1>14, ZenonT(90) DEF WriteKeepAlive, writeSocketLocked, flushWritten
<1>15. CASE Tick
  BY <1>15, ZenonT(30) DEF Tick
<1>16. CASE ClientGone
  BY <1>16, ZenonT(30) DEF ClientGone
<1>17. CASE StopMark
  BY <1>17, ZenonT(30) DEF StopMark
<1>18. CASE StopSignal
  BY <1>18, ZenonT(30) DEF StopSignal
<1>19. CASE StopReturn
  BY <1>19, ZenonT(30) DEF StopReturn
<1>20. CASE UNCHANGED vars
  BY <1>20 DEF vars
<1>. QED
  BY <1>1, <1>2, <1>3, <1>4, <1>5, <1>6, <1>7, <1>8, <1>9, <1>10, <1>11, <1>12,
     <1>13, <1>14, <1>15, <1>16, <1>17, <1>18, <1>19, <1>20
  DEF Next, HandlerStep, WriteFinalError, HeartbeatStep, StopStep, Done

\* Every step keeps the sequences, the clock and the program counters typed.
LEMMA DataStep == DataOK /\ ClockOK /\ [Next]_vars => (DataOK /\ ClockOK)'
<1>. SUFFICES ASSUME DataOK, ClockOK, [Next]_vars PROVE (DataOK /\ ClockOK)'
  OBVIOUS
<1>. USE SessionAssumption DEF DataOK, ClockOK
<1>1. CASE SetSSEHeaders
  BY <1>1 DEF SetSSEHeaders, flags, heartbeat
<1>2. CASE Start
  BY <1>2 DEF Start, flags
<1>3. CASE WriteHeader
  BY <1>3 DEF WriteHeader, flags, heartbeat, ImplicitHead
<1>4. CASE Flush
  BY <1>4 DEF Flush, heartbeat, ImplicitHead
<1>5. CASE Promote
  <2>1. CASE PromoteEmpty
    BY <1>5, <2>1 DEF Promote, PromoteEmpty, heartbeat, ImplicitHead
  <2>2. CASE PromoteBuffered
    <3>1. PICK r \in FlushOutcome, k \in 0..(Len(buf) - 1) :
            /\ writeSocketLocked(wire \o buf, wire \o SubSeq(buf, 1, k), r)
            /\ flushWritten(r)
            /\ buf' = IF r \in {"ok", "unflushed"} THEN <<>> ELSE buf
      BY <2>2 DEF PromoteBuffered
    <3>2. buf' \in Seq(WireItem) /\ wire \o buf \in Seq(WireItem)
          /\ wire \o SubSeq(buf, 1, k) \in Seq(WireItem)
      BY <3>1, TornConcat, ConcatProperties, EmptySeq, LenProperties
    <3>3. wire' \in Seq(WireItem)
      BY <3>1, <3>2 DEF writeSocketLocked, FlushOutcome
    <3>. QED
      BY <1>5, <3>1, <3>2, <3>3
      DEF Promote, writeSocketLocked, flushWritten, FlushOutcome, heartbeat, ImplicitHead
  <2>. QED
    BY <1>5, <2>1, <2>2 DEF Promote
<1>6. CASE Discard
  BY <1>6, EmptySeq DEF Discard, flags, heartbeat
<1>7. CASE FinalErrorBegin
  BY <1>7 DEF FinalErrorBegin, flags, heartbeat
<1>8. CASE FinalErrorEnd
  BY <1>8 DEF FinalErrorEnd, flags, heartbeat
<1>9. CASE FinalErrorSSE
  <2>1. Append(wire, SSEError) \in Seq(WireItem)
    BY ItemTypes, AppendProperties
  <2>2. wire' \in Seq(WireItem) /\ buf' \in Seq(WireItem)
    BY <1>9, <2>1, EmptySeq DEF FinalErrorSSE, writeSocketLocked, FlushOutcome
  <2>3. UNCHANGED <<hb, timer, stopper, attempt, written>>
    BY <1>9 DEF FinalErrorSSE, heartbeat
  <2>4. head' \in {"unsent", "stream", "error", "bare"}
    BY <1>9 DEF FinalErrorSSE, writeSocketLocked, FlushOutcome, ImplicitHead
  <2>5. idle' = idle \/ idle' = 0
    BY <1>9 DEF FinalErrorSSE, flushWritten
  <2>6. CASE idle' = idle
    BY <2>2, <2>3, <2>4, <2>6
  <2>7. CASE idle' = 0
    BY <2>2, <2>3, <2>4, <2>7
  <2>. QED
    BY <2>5, <2>6, <2>7
<1>10. CASE FinalErrorJSON
  <2>1. Append(wire, ErrorBody) \in Seq(WireItem)
    BY ItemTypes, AppendProperties
  <2>. QED
    BY <1>10, <2>1, EmptySeq DEF FinalErrorJSON, WriteOutcome, heartbeat
<1>11. ASSUME NEW e \in Events, Write(e) PROVE (DataOK /\ ClockOK)'
  <2> DEFINE item == Item(IF finalizing THEN "final" ELSE "event", e, attempt, written + 1)
  <2>1. item \in WireItem
    BY ItemTypes
  <2>2. Append(buf, item) \in Seq(WireItem) /\ Append(wire, item) \in Seq(WireItem)
    BY <2>1, AppendProperties
  <2> HIDE DEF item
  <2>3. buf' \in Seq(WireItem) /\ wire' \in Seq(WireItem)
    BY <1>11, <2>2 DEF Write, item, writeSocketLocked, WriteOutcome
  <2>4. written' \in 0..MaxWrites /\ head' \in {"unsent", "stream", "error", "bare"}
    BY <1>11 DEF Write, writeSocketLocked, WriteOutcome, ImplicitHead
  <2>5. UNCHANGED <<hb, timer, idle, stopper, attempt>>
    BY <1>11 DEF Write, heartbeat
  <2>. QED
    BY <2>3, <2>4, <2>5
<1>12. CASE HeartbeatTop
  BY <1>12 DEF HeartbeatTop, wait, flags
<1>13. CASE HeartbeatSelect
  BY <1>13 DEF HeartbeatSelect, flags
<1>14. CASE WriteKeepAlive
  <2>1. WithKeepAlive \in Seq(WireItem)
    BY ItemTypes, AppendProperties DEF WithKeepAlive
  <2>2. wire' \in Seq(WireItem)
    BY <1>14, <2>1 DEF WriteKeepAlive, writeSocketLocked, FlushOutcome
  <2>3. UNCHANGED <<buf, timer, stopper, attempt, written>>
    BY <1>14 DEF WriteKeepAlive
  <2>4. head' \in {"unsent", "stream", "error", "bare"}
    BY <1>14 DEF WriteKeepAlive, writeSocketLocked, FlushOutcome, ImplicitHead
  <2>5. idle' = idle \/ idle' = 0
    BY <1>14 DEF WriteKeepAlive, flushWritten
  <2>6. hb' \in {"top", "exited"}
    BY <1>14 DEF WriteKeepAlive
  <2>. QED
    BY <2>2, <2>3, <2>4, <2>5, <2>6
<1>15. CASE Tick
  BY <1>15 DEF Tick, flags
<1>16. CASE StopStep
  BY <1>16 DEF StopStep, StopMark, StopSignal, StopReturn, flags, heartbeat
<1>17. CASE ClientGone
  BY <1>17 DEF ClientGone, flags, heartbeat
<1>18. CASE UNCHANGED vars
  BY <1>18 DEF vars, flags, heartbeat
<1>. QED
  BY <1>1, <1>2, <1>3, <1>4, <1>5, <1>6, <1>7, <1>8, <1>9, <1>10, <1>11, <1>12, <1>13, <1>14,
     <1>15, <1>16, <1>17, <1>18
  DEF Next, HandlerStep, WriteFinalError, HeartbeatStep, Done

LEMMA TypeInitial == Init => TypeOK /\ ClockOK
<1>. USE SessionAssumption DEF TypeOK, ClockOK
<1>1. Init => FlagsOK
  BY Zenon DEF Init, FlagsOK
<1>2. Init => DataOK /\ ClockOK
  BY EmptySeq DEF Init, DataOK
<1>. QED
  BY <1>1, <1>2

\* Every field of the session keeps its type, and the heartbeat's clock its bounds.
THEOREM TypeCorrect == Spec => [](TypeOK /\ ClockOK)
<1>1. TypeOK /\ ClockOK /\ [Next]_vars => (TypeOK /\ ClockOK)'
  BY FlagsStep, DataStep DEF TypeOK
<1>. QED
  BY <1>1, TypeInitial, PTL DEF Spec

-----------------------------------------------------------------------------
(***************************************************************************)
(* The order of the response.  LastInv strengthens FinalErrorIsLast: a     *)
(* closing error is on the wire only once the session is finalized, and    *)
(* pieces of the callback only once it is finalizing.                      *)
(***************************************************************************)
LastInv ==
  /\ finalizing => promoted /\ ~finalized
  /\ \A i \in 1..Len(buf) : buf[i].kind = "event"
  /\ \A i \in 1..Len(wire) :
       wire[i].kind \in {"sse_error", "json_error"} => finalized /\ i = Len(wire)
  /\ \A i \in 1..Len(wire) : wire[i].kind = "final" => finalizing \/ finalized
  /\ \A i, j \in 1..Len(wire) : i < j /\ wire[i].kind = "final" => wire[j].kind = "final"

\* A step leaves the wire alone or adds pieces of the kinds in K behind what is there.
GrowsBy(K) ==
  /\ Len(wire') \in Nat /\ Len(wire) <= Len(wire')
  /\ \A i \in 1..Len(wire) : wire'[i] = wire[i]
  /\ \A i \in (Len(wire) + 1)..Len(wire') : wire'[i].kind \in K

\* The kinds of the pieces.
LEMMA ItemKinds ==
  /\ KeepAlive.kind = "keepalive" /\ SSEError.kind = "sse_error" /\ ErrorBody.kind = "json_error"
  /\ \A k, e, a, n : Item(k, e, a, n).kind = k
BY DEF KeepAlive, SSEError, ErrorBody, Item

\* Appending a piece grows the wire by its kind.
LEMMA AppendGrows ==
  ASSUME NEW x \in WireItem, wire \in Seq(WireItem), wire' = Append(wire, x)
  PROVE  GrowsBy({x.kind}) /\ Len(wire') = Len(wire) + 1 /\ wire'[Len(wire')] = x
<1>1. /\ Len(wire') = Len(wire) + 1 /\ Len(wire) \in Nat
      /\ \A i \in 1..Len(wire) : wire'[i] = wire[i]
      /\ wire'[Len(wire) + 1] = x
  BY AppendProperties, LenProperties
<1>. QED
  BY <1>1 DEF GrowsBy

\* An unchanged wire grows by nothing.
LEMMA StutterGrows ==
  ASSUME NEW K, wire \in Seq(WireItem), wire' = wire
  PROVE  GrowsBy(K)
BY LenProperties DEF GrowsBy

(***************************************************************************)
(* What one step may add to the response, by the state of the final error. *)
(***************************************************************************)
WireStep ==
  \/ /\ GrowsBy({"keepalive", "event"})
     /\ wire' # wire => ~finalizing /\ ~finalized
     /\ finalizing => finalizing' \/ finalized'
     /\ finalized => finalized'
  \/ /\ finalizing /\ finalizing' /\ finalized' = finalized
     /\ GrowsBy({"final"})
  \/ /\ ~finalizing /\ ~finalized /\ finalized'
     /\ GrowsBy({"sse_error", "json_error"}) /\ Len(wire') <= Len(wire) + 1

\* Every step is such a step.
LEMMA WireStepOK ==
  ASSUME DataOK, LastInv, [Next]_vars
  PROVE  WireStep
<1>1. wire \in Seq(WireItem) /\ buf \in Seq(WireItem) /\ Len(wire) \in Nat /\ Len(buf) \in Nat
  BY LenProperties DEF DataOK
<1>2. CASE UNCHANGED <<wire, finalizing, finalized>>
  BY <1>1, <1>2, StutterGrows DEF WireStep
<1>3. CASE Promote
  <2>1. CASE PromoteEmpty
    BY <1>1, <1>3, <2>1, StutterGrows DEF Promote, PromoteEmpty, WireStep
  <2>2. CASE PromoteBuffered
    <3>1. PICK r \in FlushOutcome, k \in 0..(Len(buf) - 1) :
            writeSocketLocked(wire \o buf, wire \o SubSeq(buf, 1, k), r)
      BY <2>2 DEF PromoteBuffered
    <3>2. wire' = wire \/ wire' = wire \o SubSeq(buf, 1, k) \/ wire' = wire \o buf
      BY <3>1 DEF writeSocketLocked, FlushOutcome
    <3>3. CASE wire' = wire \o SubSeq(buf, 1, k)
      <4>1. /\ Len(wire') = Len(wire) + k
            /\ \A i \in 1..(Len(wire) + k) :
                 wire'[i] = IF i <= Len(wire) THEN wire[i] ELSE buf[i - Len(wire)]
        BY <1>1, <3>3, TornConcat
      <4>2. \A i \in (Len(wire) + 1)..(Len(wire) + k) : buf[i - Len(wire)].kind = "event"
        BY <1>1 DEF LastInv
      <4>3. GrowsBy({"keepalive", "event"})
        BY <1>1, <4>1, <4>2 DEF GrowsBy
      <4>. QED
        BY <1>3, <4>3 DEF Promote, unavailableLocked, WireStep, LastInv
    <3>4. CASE wire' = wire \o buf
      <4>1. /\ Len(wire') = Len(wire) + Len(buf)
            /\ \A i \in 1..(Len(wire) + Len(buf)) :
                 wire'[i] = IF i <= Len(wire) THEN wire[i] ELSE buf[i - Len(wire)]
        BY <1>1, <3>4, ConcatProperties
      <4>2. \A i \in (Len(wire) + 1)..(Len(wire) + Len(buf)) : buf[i - Len(wire)].kind = "event"
        BY <1>1 DEF LastInv
      <4>3. GrowsBy({"keepalive", "event"})
        BY <1>1, <4>1, <4>2 DEF GrowsBy
      <4>. QED
        BY <1>3, <4>3 DEF Promote, unavailableLocked, WireStep, LastInv
    <3>5. CASE wire' = wire
      BY <1>1, <1>3, <3>5, StutterGrows DEF Promote, WireStep
    <3>. QED
      BY <3>2, <3>3, <3>4, <3>5
  <2>. QED
    BY <1>3, <2>1, <2>2 DEF Promote
<1>4. CASE FinalErrorBegin \/ FinalErrorEnd
  BY <1>1, <1>4, StutterGrows DEF FinalErrorBegin, FinalErrorEnd, WireStep
<1>5. CASE FinalErrorSSE
  <2>1. wire' = wire \/ wire' = Append(wire, SSEError)
    BY <1>5 DEF FinalErrorSSE, writeSocketLocked, FlushOutcome
  <2>2. GrowsBy({"sse_error", "json_error"}) /\ Len(wire') <= Len(wire) + 1
    BY <1>1, <2>1, AppendGrows, StutterGrows, ItemTypes, ItemKinds DEF GrowsBy
  <2>. QED
    BY <1>5, <2>2 DEF FinalErrorSSE, unavailableLocked, WireStep
<1>6. CASE FinalErrorJSON
  <2>1. wire' = wire \/ wire' = Append(wire, ErrorBody)
    BY <1>6 DEF FinalErrorJSON
  <2>2. GrowsBy({"sse_error", "json_error"}) /\ Len(wire') <= Len(wire) + 1
    BY <1>1, <2>1, AppendGrows, StutterGrows, ItemTypes, ItemKinds DEF GrowsBy
  <2>. QED
    BY <1>6, <2>2 DEF FinalErrorJSON, unavailableLocked, WireStep, LastInv
<1>7. ASSUME NEW e \in Events, Write(e) PROVE WireStep
  <2> DEFINE item == Item(IF finalizing THEN "final" ELSE "event", e, attempt, written + 1)
  <2>1. wire' = wire \/ wire' = Append(wire, item)
    BY <1>7 DEF Write, writeSocketLocked, WriteOutcome
  <2>2. item \in WireItem /\ item.kind = IF finalizing THEN "final" ELSE "event"
    BY ItemTypes, ItemKinds DEF DataOK
  <2> HIDE DEF item
  <2>3. IF finalizing THEN GrowsBy({"final"}) ELSE GrowsBy({"keepalive", "event"})
    BY <1>1, <2>1, <2>2, AppendGrows, StutterGrows DEF GrowsBy
  <2>. QED
    BY <1>7, <2>3 DEF Write, unavailableLocked, WireStep
<1>8. CASE WriteKeepAlive
  <2>1. wire' = wire \/ (wire' = Append(wire, KeepAlive) /\ ~finalizing /\ ~finalized)
    BY <1>8 DEF WriteKeepAlive, writeSocketLocked, FlushOutcome, WithKeepAlive, unavailableLocked
  <2>2. GrowsBy({"keepalive", "event"})
    BY <1>1, <2>1, AppendGrows, StutterGrows, ItemTypes, ItemKinds DEF GrowsBy
  <2>. QED
    BY <1>8, <2>1, <2>2 DEF WriteKeepAlive, WireStep
<1>. QED
  BY <1>2, <1>3, <1>4, <1>5, <1>6, <1>7, <1>8
  DEF Next, HandlerStep, WriteFinalError, HeartbeatStep, StopStep, Done, vars,
      SetSSEHeaders, Start, WriteHeader, Flush, Discard, HeartbeatTop, HeartbeatSelect, Tick,
      StopMark, StopSignal, StopReturn, ClientGone

\* LastInv is kept by every step.
LEMMA LastStep ==
  ASSUME DataOK, LastInv, [Next]_vars
  PROVE  LastInv'
<1>1. WireStep /\ Len(wire) \in Nat
  BY WireStepOK, LenProperties DEF DataOK
<1>2. (finalizing => promoted /\ ~finalized)'
  BY DEF LastInv, Next, HandlerStep, WriteFinalError, HeartbeatStep, StopStep, Done, vars, flags,
         SetSSEHeaders, Start, WriteHeader, Flush, Promote, Discard, Write, FinalErrorBegin,
         FinalErrorEnd, FinalErrorSSE, FinalErrorJSON, HeartbeatTop, HeartbeatSelect,
         WriteKeepAlive, Tick, StopMark, StopSignal, StopReturn, ClientGone, unavailableLocked
<1>3. (\A i \in 1..Len(buf) : buf[i].kind = "event")'
  <2>0. Len(buf) \in Nat /\ buf \in Seq(WireItem)
    BY LenProperties DEF DataOK
  <2>1. CASE buf' = buf
    BY <2>1 DEF LastInv
  <2>2. CASE buf' = <<>>
    BY <2>2, Len(<<>>) = 0
  <2>3. ASSUME NEW e \in Events, Write(e), buf' # buf
        PROVE  (\A i \in 1..Len(buf) : buf[i].kind = "event")'
    <3> DEFINE item == Item("event", e, attempt, written + 1)
    <3>1. ~finalizing /\ buf' = Append(buf, item)
      BY <2>3 DEF Write, LastInv
    <3>2. item \in WireItem /\ item.kind = "event"
      BY ItemTypes, ItemKinds DEF DataOK
    <3> HIDE DEF item
    <3>3. Len(buf') = Len(buf) + 1 /\ buf'[Len(buf) + 1] = item
          /\ \A i \in 1..Len(buf) : buf'[i] = buf[i]
      BY <2>0, <3>1, <3>2, AppendProperties
    <3>. QED
      BY <2>0, <3>2, <3>3 DEF LastInv
  <2>. QED
    BY <2>1, <2>2, <2>3
    DEF Next, HandlerStep, WriteFinalError, HeartbeatStep, StopStep, Done, vars,
        SetSSEHeaders, Start, WriteHeader, Flush, Promote, PromoteEmpty, PromoteBuffered, Discard,
        FinalErrorBegin, FinalErrorEnd, FinalErrorSSE, FinalErrorJSON, HeartbeatTop,
        HeartbeatSelect, WriteKeepAlive, Tick, StopMark, StopSignal, StopReturn, ClientGone
<1>4. CASE GrowsBy({"keepalive", "event"}) /\ (wire' # wire => ~finalizing /\ ~finalized)
           /\ (finalizing => finalizing' \/ finalized') /\ (finalized => finalized')
  <2>1. \A i \in 1..Len(wire) : ~finalizing /\ ~finalized =>
          wire[i].kind \notin {"sse_error", "json_error", "final"}
    BY DEF LastInv
  <2>2. CASE wire' = wire
    BY <1>2, <1>3, <1>4, <2>2 DEF LastInv
  <2>3. CASE wire' # wire
    <3>1. \A i \in 1..Len(wire') : wire'[i].kind \notin {"sse_error", "json_error", "final"}
      BY <1>1, <1>4, <2>1, <2>3 DEF GrowsBy
    <3>. QED
      BY <1>2, <1>3, <3>1 DEF LastInv
  <2>. QED
    BY <2>2, <2>3
<1>5. CASE finalizing /\ finalizing' /\ finalized' = finalized /\ GrowsBy({"final"})
  <2>1. \A i \in 1..Len(wire) : wire[i].kind \notin {"sse_error", "json_error"}
    BY <1>5 DEF LastInv
  <2>2. \A i \in 1..Len(wire') : wire'[i].kind \notin {"sse_error", "json_error"}
    BY <1>1, <1>5, <2>1 DEF GrowsBy
  <2>3. \A i, j \in 1..Len(wire') : i < j /\ wire'[i].kind = "final" => wire'[j].kind = "final"
    BY <1>1, <1>5 DEF GrowsBy, LastInv
  <2>. QED
    BY <1>2, <1>3, <1>5, <2>2, <2>3 DEF LastInv
<1>6. CASE ~finalizing /\ ~finalized /\ finalized' /\ Len(wire') <= Len(wire) + 1
           /\ GrowsBy({"sse_error", "json_error"})
  <2>1. \A i \in 1..Len(wire) : wire[i].kind \notin {"sse_error", "json_error", "final"}
    BY <1>6 DEF LastInv
  <2>2. \A i \in 1..Len(wire') : wire'[i].kind # "final"
    BY <1>1, <1>6, <2>1 DEF GrowsBy
  <2>3. \A i \in 1..Len(wire') : wire'[i].kind \in {"sse_error", "json_error"} => i = Len(wire')
    BY <1>1, <1>6, <2>1 DEF GrowsBy
  <2>. QED
    BY <1>2, <1>3, <1>6, <2>2, <2>3 DEF LastInv
<1>. QED
  BY <1>1, <1>4, <1>5, <1>6 DEF WireStep

(***************************************************************************)
(* Nothing follows a final error on the wire, under any interleaving of    *)
(* handler, heartbeat and Stop (FinalErrorIsLast).                         *)
(***************************************************************************)
THEOREM FinalErrorLast == Spec => []FinalErrorIsLast
<1>1. Init => LastInv
  BY Len(<<>>) = 0 DEF Init, LastInv
<1>2. TypeOK /\ LastInv /\ [Next]_vars => LastInv'
  BY LastStep DEF TypeOK
<1>3. TypeOK /\ LastInv => FinalErrorIsLast
  <2>. SUFFICES ASSUME TypeOK, LastInv, NEW i \in 1..Len(wire), NEW j \in 1..Len(wire), i < j,
                       wire[i].kind \in {"final", "sse_error", "json_error"}
                PROVE  wire[i].kind = "final" /\ wire[j].kind = "final"
    BY DEF FinalErrorIsLast
  <2>1. Len(wire) \in Nat
    BY LenProperties DEF TypeOK, DataOK
  <2>. QED
    BY <2>1 DEF LastInv
<1>. QED
  BY <1>1, <1>2, <1>3, TypeCorrect, PTL DEF Spec

-----------------------------------------------------------------------------
(***************************************************************************)
(* The head of the response.  HeadInv strengthens NeverMixJSONAndSSE: what *)
(* the flags say of the response agrees with what is on the wire, so the   *)
(* JSON branch of WriteFinalError runs only while nothing was sent.        *)
(***************************************************************************)
HeadInv ==
  /\ promoted \/ hb # "none" => headersSet
  /\ head # "bare"
  /\ committed => head # "unsent"
  /\ Len(wire) > 0 => committed
  /\ head # "unsent" => promoted \/ committed \/ finalized
  /\ head = "error" => finalized /\ Len(wire) <= 1
                       /\ \A i \in 1..Len(wire) : wire[i].kind = "json_error"
  /\ head # "error" => \A i \in 1..Len(wire) : wire[i].kind # "json_error"

\* Pieces of an event stream are written under the stream's head.
LEMMA StreamPieces ==
  ASSUME DataOK, HeadInv, NEW K, GrowsBy(K), "json_error" \notin K,
         head # "error", head' # "error"
  PROVE  \A i \in 1..Len(wire') : wire'[i].kind # "json_error"
BY LenProperties DEF DataOK, HeadInv, GrowsBy

\* A socket write sends the head with the first byte, or nothing at all.
LEMMA SocketWrite ==
  ASSUME NEW all, NEW torn, NEW r \in FlushOutcome, writeSocketLocked(all, torn, r),
         committed \in BOOLEAN
  PROVE  \/ head' = ImplicitHead /\ committed'
         \/ UNCHANGED <<wire, head, committed>>
<1>1. CASE r = "fail"
  <2>1. wire' = wire /\ head' = head
    BY <1>1 DEF writeSocketLocked
  <2>2. committed' = committed
    BY <1>1, Zenon DEF writeSocketLocked
  <2>. QED
    BY <2>1, <2>2
<1>2. CASE r # "fail"
  BY <1>2, Zenon DEF writeSocketLocked
<1>. QED
  BY <1>1, <1>2

\* HeadInv is kept by every step.
LEMMA HeadStep ==
  ASSUME DataOK, LastInv, HeadInv, [Next]_vars, committed \in BOOLEAN
  PROVE  HeadInv'
<1>1. Len(wire) \in Nat /\ wire \in Seq(WireItem)
  BY LenProperties DEF DataOK
<1>2. CASE UNCHANGED <<wire, head, committed, promoted>> /\ (finalized => finalized')
           /\ (headersSet => headersSet') /\ (hb' # "none" => headersSet \/ hb # "none")
  BY <1>2 DEF HeadInv
<1>3. CASE SetSSEHeaders \/ Start \/ FinalErrorBegin \/ FinalErrorEnd \/ Discard \/ HeartbeatTop
           \/ HeartbeatSelect \/ Tick \/ StopStep \/ ClientGone \/ UNCHANGED vars
  <2>1. UNCHANGED <<wire, head, committed, promoted>> /\ (finalized => finalized')
    BY <1>3 DEF SetSSEHeaders, Start, FinalErrorBegin, FinalErrorEnd, Discard, HeartbeatTop,
         HeartbeatSelect, Tick, StopStep, StopMark, StopSignal, StopReturn, ClientGone, vars, flags
  <2>2. (headersSet => headersSet') /\ (hb' # "none" => headersSet \/ hb # "none")
    BY <1>3 DEF SetSSEHeaders, Start, FinalErrorBegin, FinalErrorEnd, Discard, HeartbeatTop,
         HeartbeatSelect, Tick, StopStep, StopMark, StopSignal, StopReturn, ClientGone, vars,
         heartbeat
  <2>. QED
    BY <1>2, <2>1, <2>2
<1>4. CASE WriteHeader \/ Flush
  <2>1. UNCHANGED <<wire, committed, promoted, finalized, headersSet, hb>> /\ ~finalized
    BY <1>4 DEF WriteHeader, Flush, flags, heartbeat
  <2>2. head' = head \/ (promoted /\ head' = ImplicitHead)
    BY <1>4 DEF WriteHeader, Flush
  <2>. QED
    BY <2>1, <2>2 DEF HeadInv, ImplicitHead
<1>5. ASSUME ~finalized, headersSet, finalized' = finalized, headersSet' = headersSet,
             promoted => promoted', (hb = "none") <=> (hb' = "none"),
             GrowsBy({"keepalive", "event", "final"}),
             \/ head' = ImplicitHead /\ (wire' # wire => committed') /\ (committed => committed')
                /\ (committed' \/ promoted')
             \/ UNCHANGED <<wire, head, committed>>
      PROVE  HeadInv'
  <2>1. head # "error" /\ head' # "error" /\ head' # "bare"
    BY <1>5 DEF HeadInv, ImplicitHead
  <2>2. \A i \in 1..Len(wire') : wire'[i].kind # "json_error"
    BY <1>5, <2>1, StreamPieces
  <2>3. Len(wire') > 0 => committed'
    BY <1>1, <1>5 DEF HeadInv
  <2>4. committed' => head' # "unsent"
    BY <1>5 DEF HeadInv, ImplicitHead
  <2>5. head' # "unsent" => promoted' \/ committed' \/ finalized'
    BY <1>5 DEF HeadInv, ImplicitHead
  <2>. QED
    BY <1>5, <2>1, <2>2, <2>3, <2>4, <2>5 DEF HeadInv
<1>6. CASE Promote
  <2>1. ~finalized /\ headersSet /\ finalized' = finalized /\ headersSet' = headersSet
        /\ promoted' /\ hb' = hb
    BY <1>6 DEF Promote, unavailableLocked, heartbeat
  <2>2. GrowsBy({"keepalive", "event", "final"})
    BY <2>1, WireStepOK DEF WireStep, GrowsBy, LastInv
  <2>3. \/ head' = ImplicitHead /\ (wire' # wire => committed') /\ (committed => committed')
        \/ UNCHANGED <<wire, head, committed>>
    <3>1. CASE PromoteEmpty
      BY <3>1, ZenonT(30) DEF PromoteEmpty
    <3>2. CASE PromoteBuffered
      <4>1. PICK r \in FlushOutcome, k \in 0..(Len(buf) - 1) :
              writeSocketLocked(wire \o buf, wire \o SubSeq(buf, 1, k), r)
        BY <3>2 DEF PromoteBuffered
      <4>. QED
        BY <4>1, SocketWrite
    <3>. QED
      BY <1>6, <3>1, <3>2 DEF Promote
  <2>. QED
    BY <1>5, <2>1, <2>2, <2>3
<1>7. ASSUME NEW e \in Events, Write(e) PROVE HeadInv'
  <2>1. ~finalized /\ headersSet /\ UNCHANGED <<finalized, headersSet, promoted, hb>>
    BY <1>7 DEF Write, unavailableLocked, heartbeat
  <2>2. GrowsBy({"keepalive", "event", "final"})
    BY <2>1, WireStepOK DEF WireStep, GrowsBy, LastInv
  <2>3. \/ head' = ImplicitHead /\ committed'
        \/ UNCHANGED <<wire, head, committed>>
    <3> DEFINE item == Item(IF finalizing THEN "final" ELSE "event", e, attempt, written + 1)
    <3>1. \/ UNCHANGED <<wire, head, committed>>
          \/ \E r \in FlushOutcome : writeSocketLocked(Append(wire, item), wire, r)
      BY <1>7, ZenonT(30) DEF Write, WriteOutcome, FlushOutcome
    <3> HIDE DEF item
    <3>. QED
      BY <3>1, SocketWrite
  <2>. QED
    BY <1>5, <2>1, <2>2, <2>3
<1>8. CASE WriteKeepAlive
  <2>1. UNCHANGED <<finalized, headersSet, promoted>> /\ hb # "none" /\ hb' # "none" /\ headersSet
    BY <1>8 DEF WriteKeepAlive, HeadInv
  <2>2. \/ ~finalized /\ head' = ImplicitHead /\ committed'
        \/ ~finalized /\ UNCHANGED <<wire, head, committed>>
        \/ UNCHANGED <<wire, head, committed>>
    <3>1. CASE ~unavailableLocked
      <4>1. \/ UNCHANGED <<wire, head, committed>>
            \/ \E r \in FlushOutcome : writeSocketLocked(WithKeepAlive, wire, r)
        BY <1>8, <3>1, ZenonT(30) DEF WriteKeepAlive
      <4>. QED
        BY <3>1, <4>1, SocketWrite DEF unavailableLocked
    <3>2. CASE unavailableLocked
      BY <1>8, <3>2, ZenonT(30) DEF WriteKeepAlive
    <3>. QED
      BY <3>1, <3>2
  <2>3. CASE UNCHANGED <<wire, head, committed>>
    BY <2>1, <2>3 DEF HeadInv
  <2>4. CASE ~finalized /\ head' = ImplicitHead /\ committed'
    <3>1. GrowsBy({"keepalive", "event", "final"})
      BY <2>1, <2>4, WireStepOK DEF WireStep, GrowsBy, LastInv
    <3>. QED
      BY <1>5, <2>1, <2>4, <3>1
  <2>. QED
    BY <2>2, <2>3, <2>4
<1>9. CASE FinalErrorSSE
  <2>1. /\ ~finalized /\ finalized' /\ (promoted \/ committed)
        /\ UNCHANGED <<headersSet, promoted, hb>>
    BY <1>9 DEF FinalErrorSSE, unavailableLocked, heartbeat
  <2>2. \/ /\ wire' \in {wire, Append(wire, SSEError)}
           /\ head' = ImplicitHead /\ committed'
        \/ UNCHANGED <<wire, head, committed>>
    <3>1. PICK r \in FlushOutcome : writeSocketLocked(Append(wire, SSEError), wire, r)
      BY <1>9 DEF FinalErrorSSE
    <3>2. wire' \in {wire, Append(wire, SSEError)}
      BY <3>1, ZenonT(30) DEF writeSocketLocked, FlushOutcome
    <3>. QED
      BY <3>1, <3>2, SocketWrite
  <2>3. GrowsBy({"sse_error"})
    BY <1>1, <2>2, AppendGrows, StutterGrows, ItemTypes, ItemKinds
  <2>4. head # "error" /\ head' # "error" /\ head' # "bare" /\ (committed' => head' # "unsent")
    BY <2>1, <2>2 DEF HeadInv, ImplicitHead
  <2>5. \A i \in 1..Len(wire') : wire'[i].kind # "json_error"
    BY <2>3, <2>4, StreamPieces
  <2>6. Len(wire') > 0 => committed'
    BY <2>2 DEF HeadInv
  <2>. QED
    BY <2>1, <2>4, <2>5, <2>6 DEF HeadInv
<1>10. CASE FinalErrorJSON
  <2>1. /\ ~finalized /\ finalized' /\ ~promoted /\ ~committed /\ ~promoted'
        /\ UNCHANGED <<headersSet, hb>>
    BY <1>10 DEF FinalErrorJSON, unavailableLocked, heartbeat
  <2>2. head = "unsent" /\ Len(wire) = 0 /\ head' = "error"
    BY <1>1, <1>10, <2>1 DEF HeadInv, FinalErrorJSON
  <2>3. wire' = wire \/ (wire' = Append(wire, ErrorBody) /\ committed')
    BY <1>10 DEF FinalErrorJSON
  <2>4. /\ GrowsBy({"json_error"}) /\ Len(wire') <= 1
        /\ Len(wire') > 0 => committed'
    <3>1. CASE wire' = wire
      BY <1>1, <2>2, <3>1, StutterGrows
    <3>2. CASE wire' = Append(wire, ErrorBody) /\ committed'
      <4>1. GrowsBy({ErrorBody.kind}) /\ Len(wire') = Len(wire) + 1
        BY <1>1, <3>2, AppendGrows, ItemTypes
      <4>. QED
        BY <2>2, <3>2, <4>1, ItemKinds
    <3>. QED
      BY <2>3, <3>1, <3>2
  <2>5. \A i \in 1..Len(wire') : wire'[i].kind = "json_error"
    BY <2>2, <2>4 DEF GrowsBy
  <2>. QED
    BY <2>1, <2>2, <2>4, <2>5 DEF HeadInv
<1>. QED
  BY <1>3, <1>4, <1>6, <1>7, <1>8, <1>9, <1>10
  DEF Next, HandlerStep, WriteFinalError, HeartbeatStep, Done

(***************************************************************************)
(* A JSON error body is the whole response or is not sent at all           *)
(* (NeverMixJSONAndSSE), for every interval and any number of events.      *)
(***************************************************************************)
THEOREM NeverMix == Spec => []NeverMixJSONAndSSE
<1>1. Init => LastInv /\ HeadInv
  BY Len(<<>>) = 0 DEF Init, LastInv, HeadInv
<1>2. TypeOK /\ LastInv /\ HeadInv /\ [Next]_vars => (LastInv /\ HeadInv)'
  BY LastStep, HeadStep DEF TypeOK, FlagsOK
<1>3. TypeOK /\ HeadInv => NeverMixJSONAndSSE
  <2>. SUFFICES ASSUME TypeOK, HeadInv, NEW i \in 1..Len(wire)
                PROVE  IF wire[i].kind = "json_error" THEN head = "error" /\ Len(wire) = 1
                                                      ELSE head = "stream"
    BY DEF NeverMixJSONAndSSE
  <2>1. Len(wire) \in Nat /\ head \in {"unsent", "stream", "error", "bare"}
    BY LenProperties DEF TypeOK, DataOK
  <2>2. head # "unsent" /\ head # "bare"
    BY <2>1 DEF HeadInv
  <2>3. CASE head = "error"
    <3>1. Len(wire) <= 1 /\ wire[i].kind = "json_error"
      BY <2>3, Zenon DEF HeadInv
    <3>. QED
      BY <2>1, <2>3, <3>1, SMTT(30)
  <2>4. CASE head # "error"
    BY <2>1, <2>2, <2>4 DEF HeadInv
  <2>. QED
    BY <2>3, <2>4
<1>. QED
  BY <1>1, <1>2, <1>3, TypeCorrect, PTL DEF Spec

-----------------------------------------------------------------------------
(***************************************************************************)
(* Stop.  A caller of Stop has marked the session before it waits, and a   *)
(* marked session starts no heartbeat: that is why waiting once is enough. *)
(***************************************************************************)
JoinInv ==
  /\ stopper # "idle" => stopped
  /\ stopper = "returned" => ~HeartbeatAlive

(***************************************************************************)
(* When Stop has returned no heartbeat goroutine is left, even when Stop   *)
(* raced Start (StopJoinsHeartbeat).                                       *)
(***************************************************************************)
THEOREM StopJoins == Spec => []StopJoinsHeartbeat
<1>1. Init => JoinInv
  BY DEF Init, JoinInv, HeartbeatAlive
<1>2. JoinInv /\ [Next]_vars => JoinInv'
  <2>. SUFFICES ASSUME JoinInv, [Next]_vars PROVE JoinInv'
    OBVIOUS
  <2>. USE DEF JoinInv, HeartbeatAlive
  <2>1. CASE UNCHANGED <<stopper, stopped, hb>>
    BY <2>1
  <2>2. CASE Start
    BY <2>2, Zenon DEF Start, flags
  <2>3. CASE HeartbeatStep
    <3>1. UNCHANGED <<stopper, stopped>> /\ HeartbeatAlive
      BY <2>3 DEF HeartbeatStep, HeartbeatTop, HeartbeatSelect, WriteKeepAlive
    <3>. QED
      BY <3>1
  <2>4. CASE StopStep
    BY <2>4 DEF StopStep, StopMark, StopSignal, StopReturn, heartbeat
  <2>. QED
    BY <2>1, <2>2, <2>3, <2>4
    DEF Next, HandlerStep, WriteFinalError, Done, vars, heartbeat, SetSSEHeaders, WriteHeader,
        Flush, Promote, Discard, Write, FinalErrorBegin, FinalErrorEnd, FinalErrorSSE,
        FinalErrorJSON, Tick, ClientGone
<1>3. JoinInv => StopJoinsHeartbeat
  BY DEF JoinInv, StopJoinsHeartbeat
<1>. QED
  BY <1>1, <1>2, <1>3, PTL DEF Spec

(***************************************************************************)
(* Once the session is stopped, finalized or broken no step writes to the  *)
(* client (SilentOnceUnavailable).                                         *)
(***************************************************************************)
THEOREM Silence == Spec => SilentOnceUnavailable
<1>1. [Next]_vars => [stopped \/ firstErr \/ finalized => UNCHANGED <<wire, head>>]_vars
  <2>. SUFFICES ASSUME [Next]_vars, stopped \/ firstErr \/ finalized
                PROVE  UNCHANGED <<wire, head>>
    OBVIOUS
  <2>. USE DEF unavailableLocked
  <2>1. ~Flush /\ ~Promote /\ ~FinalErrorSSE /\ ~FinalErrorJSON /\ ~WriteHeader
        /\ \A e \in Events : ~Write(e)
    BY DEF Flush, Promote, FinalErrorSSE, FinalErrorJSON, Write, WriteHeader
  <2>2. CASE WriteKeepAlive
    BY <2>2, Zenon DEF WriteKeepAlive
  <2>. QED
    BY <2>1, <2>2
    DEF Next, HandlerStep, WriteFinalError, HeartbeatStep, StopStep, Done, vars, SetSSEHeaders,
        Start, Discard, FinalErrorBegin, FinalErrorEnd, HeartbeatTop, HeartbeatSelect, Tick,
        StopMark, StopSignal, StopReturn, ClientGone
<1>. QED
  BY <1>1, PTL DEF Spec, SilentOnceUnavailable

(***************************************************************************)
(* While a heartbeat goroutine runs the client never waits longer than the *)
(* interval (BoundedSilence): the timer is armed with what is left of it.  *)
(***************************************************************************)
THEOREM SilenceIsBounded == Spec => []BoundedSilence
<1>1. TypeOK /\ ClockOK => BoundedSilence
  BY SessionAssumption DEF TypeOK, DataOK, ClockOK, BoundedSilence
<1>. QED
  BY <1>1, TypeCorrect, PTL

-----------------------------------------------------------------------------
\* The places of the semantic events in a sequence of pieces.
SemanticAt(w) == {i \in 1..Len(w) : w[i].kind \in {"event", "final"}}

\* The semantic events in w are of attempt a, numbered from 1 to at most n in the order they stand.
Numbered(w, a, n) ==
  \A j \in SemanticAt(w) :
    /\ w[j].attempt = a /\ w[j].n \in 1..n
    /\ \A m \in 1..(w[j].n - 1) : \E i \in SemanticAt(w) : i < j /\ w[i].n = m

\* All of them are there.
Complete(w, n) ==
  /\ \A m \in 1..n : \E i \in SemanticAt(w) : w[i].n = m
  /\ Cardinality(SemanticAt(w)) = n

(***************************************************************************)
(* Pieces that are no events disturb neither.                              *)
(***************************************************************************)
LEMMA AroundEvents ==
  ASSUME NEW w \in Seq(WireItem), NEW v, Len(v) \in Nat, Len(w) <= Len(v),
         \A i \in 1..Len(w) : v[i] = w[i],
         \A i \in (Len(w) + 1)..Len(v) : v[i].kind \notin {"event", "final"}, NEW a, NEW n
  PROVE  /\ SemanticAt(v) = SemanticAt(w)
         /\ Numbered(w, a, n) => Numbered(v, a, n)
         /\ Complete(w, n) => Complete(v, n)
<1>1. Len(w) \in Nat
  BY LenProperties
<1>2. SemanticAt(v) = SemanticAt(w)
  BY <1>1 DEF SemanticAt
<1>3. \A i \in SemanticAt(w) : v[i] = w[i]
  BY DEF SemanticAt
<1>4. ASSUME Numbered(w, a, n), NEW j \in SemanticAt(w)
      PROVE  /\ v[j].attempt = a /\ v[j].n \in 1..n
             /\ \A m \in 1..(v[j].n - 1) : \E i \in SemanticAt(w) : i < j /\ v[i].n = m
  <2>1. /\ w[j].attempt = a /\ w[j].n \in 1..n
        /\ \A m \in 1..(w[j].n - 1) : \E i \in SemanticAt(w) : i < j /\ w[i].n = m
    BY <1>4 DEF Numbered
  <2>. QED
    BY <1>3, <2>1
<1>5. Complete(w, n) => Complete(v, n)
  BY <1>2, <1>3 DEF Complete
<1>. QED
  BY <1>2, <1>4, <1>5 DEF Numbered

(***************************************************************************)
(* The next event keeps the numbering.                                     *)
(***************************************************************************)
LEMMA NextEvent ==
  ASSUME NEW w \in Seq(WireItem), NEW item \in WireItem, item.kind \in {"event", "final"},
         NEW n \in Nat, item.n = n + 1, Numbered(w, item.attempt, n), Complete(w, n)
  PROVE  Numbered(Append(w, item), item.attempt, n + 1) /\ Complete(Append(w, item), n + 1)
<1> DEFINE v == Append(w, item)
           S == SemanticAt(w)
           l == Len(w) + 1
<1>1. Len(w) \in Nat /\ Len(v) = l /\ v[l] = item /\ \A i \in 1..Len(w) : v[i] = w[i]
  BY LenProperties, AppendProperties
<1> HIDE DEF v
<1>2. SemanticAt(v) = S \cup {l} /\ S \subseteq 1..Len(w) /\ l \notin S
  BY <1>1 DEF SemanticAt
<1>3. \A i \in S : v[i] = w[i] /\ i < l
  BY <1>1, <1>2
<1>4. Cardinality(S \cup {l}) = n + 1
  <2>1. IsFiniteSet(S)
    <3>1. IsFiniteSet(1..Len(w)) /\ S \in SUBSET (1..Len(w))
      BY <1>1, <1>2, FS_Interval
    <3>. QED
      BY <3>1, FS_Subset
  <2>. QED
    BY <1>2, <2>1, FS_AddElement DEF Complete
<1>5. \A m \in 1..n : \E i \in S : v[i].n = m
  BY <1>3 DEF Complete
<1>6. ASSUME NEW j \in S \cup {l}
      PROVE  /\ v[j].attempt = item.attempt /\ v[j].n \in 1..(n + 1)
             /\ \A m \in 1..(v[j].n - 1) : \E i \in S \cup {l} : i < j /\ v[i].n = m
  <2>1. CASE j = l
    BY <1>1, <1>3, <1>5, <2>1
  <2>2. CASE j \in S
    <3>1. /\ w[j].attempt = item.attempt /\ w[j].n \in 1..n
          /\ \A m \in 1..(w[j].n - 1) : \E i \in S : i < j /\ w[i].n = m
      BY <2>2 DEF Numbered
    <3>. QED
      BY <1>3, <2>2, <3>1, SMTT(30)
  <2>. QED
    BY <2>1, <2>2
<1>7. Numbered(v, item.attempt, n + 1)
  BY <1>2, <1>6 DEF Numbered
<1>8. Complete(v, n + 1)
  <2>1. \A m \in 1..(n + 1) : m \in 1..n \/ m = n + 1
    OBVIOUS
  <2>. QED
    BY <1>1, <1>2, <1>4, <1>5, <2>1 DEF Complete
<1>. QED
  BY <1>7, <1>8 DEF v

(***************************************************************************)
(* The beginning of a numbered buffer behind a wire without events.        *)
(***************************************************************************)
LEMMA FirstEvents ==
  ASSUME NEW w \in Seq(WireItem), SemanticAt(w) = {},
         NEW b \in Seq(WireItem), NEW a, NEW k \in 0..Len(b),
         \A i \in 1..Len(b) : b[i].kind = "event" /\ b[i].n = i /\ b[i].attempt = a
  PROVE  LET v == w \o SubSeq(b, 1, k)
         IN /\ Len(v) = Len(w) + k
            /\ \A i \in 1..Len(w) : v[i] = w[i]
            /\ \A i \in (Len(w) + 1)..Len(v) :
                 v[i].kind = "event" /\ v[i].n = i - Len(w) /\ v[i].attempt = a
            /\ Numbered(v, a, k) /\ Complete(v, k)
<1> DEFINE v == w \o SubSeq(b, 1, k)
<1>1. /\ Len(v) = Len(w) + k
      /\ \A i \in 1..(Len(w) + k) : v[i] = IF i <= Len(w) THEN w[i] ELSE b[i - Len(w)]
  BY TornConcat
<1> HIDE DEF v
<1>2. Len(w) \in Nat /\ Len(b) \in Nat
  BY LenProperties
<1>3. \A i \in 1..Len(w) : v[i] = w[i]
  BY <1>1, <1>2
<1>4. \A i \in (Len(w) + 1)..Len(v) : v[i].kind = "event" /\ v[i].n = i - Len(w) /\ v[i].attempt = a
  BY <1>1, <1>2
<1>5. SemanticAt(v) = (Len(w) + 1)..(Len(w) + k)
  <2>1. \A i \in 1..Len(w) : w[i].kind \notin {"event", "final"}
    BY DEF SemanticAt
  <2>. QED
    BY <1>1, <1>2, <1>3, <1>4, <2>1 DEF SemanticAt
<1>6. Cardinality(SemanticAt(v)) = k
  BY <1>2, <1>5, FS_Interval, SMTT(30)
<1>7. \A m \in 1..k : Len(w) + m \in SemanticAt(v) /\ v[Len(w) + m].n = m
  BY <1>1, <1>2, <1>4, <1>5, SMTT(30)
<1>8. Complete(v, k)
  BY <1>6, <1>7 DEF Complete
<1>9. Numbered(v, a, k)
  <2>. SUFFICES ASSUME NEW j \in SemanticAt(v)
                PROVE  /\ v[j].attempt = a /\ v[j].n \in 1..k
                       /\ \A m \in 1..(v[j].n - 1) : \E i \in SemanticAt(v) : i < j /\ v[i].n = m
    BY DEF Numbered
  <2>1. v[j].attempt = a /\ v[j].n = j - Len(w) /\ j \in (Len(w) + 1)..(Len(w) + k)
    BY <1>1, <1>4, <1>5
  <2>2. v[j].n \in 1..k
    BY <1>2, <2>1
  <2>3. ASSUME NEW m \in 1..(v[j].n - 1) PROVE \E i \in SemanticAt(v) : i < j /\ v[i].n = m
    <3>1. m \in 1..k /\ Len(w) + m < j
      BY <1>2, <2>1
    <3>. QED
      BY <1>7, <3>1
  <2>. QED
    BY <2>1, <2>2, <2>3
<1>. QED
  BY <1>1, <1>3, <1>4, <1>8, <1>9 DEF v

-----------------------------------------------------------------------------
(***************************************************************************)
(* Before promotion the whole attempt is in the buffer, numbered from 1;   *)
(* behind it the wire holds the attempt, all of it as long as the          *)
(* connection works.                                                       *)
(***************************************************************************)
OrderInv ==
  /\ ~promoted =>
       /\ SemanticAt(wire) = {}
       /\ ~finalized => Len(buf) = written
       /\ \A i \in 1..Len(buf) : buf[i].n = i /\ buf[i].attempt = attempt
  /\ promoted =>
       /\ Numbered(wire, attempt, written)
       /\ ~firstErr => Complete(wire, written)

\* A step that sends no event keeps the order.
LEMMA AroundStep ==
  ASSUME DataOK, OrderInv, GrowsBy({"keepalive", "sse_error", "json_error"}),
         UNCHANGED <<promoted, attempt, written>>, firstErr => firstErr', finalized => finalized',
         buf' = buf \/ (buf' = <<>> /\ finalized')
  PROVE  OrderInv'
<1>1. wire \in Seq(WireItem) /\ Len(wire) \in Nat
  BY LenProperties DEF DataOK
<1>2. /\ Len(wire') \in Nat /\ Len(wire) <= Len(wire')
      /\ \A i \in 1..Len(wire) : wire'[i] = wire[i]
      /\ \A i \in (Len(wire) + 1)..Len(wire') : wire'[i].kind \notin {"event", "final"}
  BY DEF GrowsBy
<1>3. /\ SemanticAt(wire') = SemanticAt(wire)
      /\ Numbered(wire, attempt, written) => Numbered(wire', attempt, written)
      /\ Complete(wire, written) => Complete(wire', written)
  BY <1>1, <1>2, AroundEvents
<1>4. ~promoted => \A i \in 1..Len(buf') : buf'[i].n = i /\ buf'[i].attempt = attempt
  BY Len(<<>>) = 0 DEF OrderInv
<1>5. ~promoted /\ ~finalized' => Len(buf') = written
  BY DEF OrderInv
<1>. QED
  BY <1>3, <1>4, <1>5 DEF OrderInv

\* Promotion sends the beginning of the buffer; all of it, unless the connection breaks.
LEMMA PromotedBatch ==
  ASSUME wire \in Seq(WireItem), buf \in Seq(WireItem), Promote
  PROVE  \E k \in 0..Len(buf) : wire' = wire \o SubSeq(buf, 1, k) /\ (~firstErr' => k = Len(buf))
<1>1. wire \o SubSeq(buf, 1, 0) = wire
  BY ConcatEmptySeq, SubSeqEmpty
<1>2. wire \o SubSeq(buf, 1, Len(buf)) = wire \o buf
  BY SubSeqFull
<1>0. 0 \in 0..Len(buf) /\ Len(buf) \in 0..Len(buf)
  BY LenProperties
<1>3. CASE PromoteEmpty
  <2>1. wire' = wire \o SubSeq(buf, 1, 0) /\ Len(buf) = 0
    BY <1>1, <1>3, Len(<<>>) = 0 DEF PromoteEmpty
  <2>. QED
    BY <1>0, <2>1
<1>4. CASE PromoteBuffered
  <2>1. PICK r \in FlushOutcome, k \in 0..(Len(buf) - 1) :
          writeSocketLocked(wire \o buf, wire \o SubSeq(buf, 1, k), r)
    BY <1>4 DEF PromoteBuffered
  <2>2. CASE r \in {"ok", "unflushed"}
    <3>1. wire' = wire \o SubSeq(buf, 1, Len(buf))
      BY <1>2, <2>1, <2>2 DEF writeSocketLocked
    <3>. QED
      BY <1>0, <3>1
  <2>3. CASE r \in {"short", "fail"}
    <3>1. firstErr'
      BY <2>1, <2>3 DEF writeSocketLocked
    <3>2. wire' = wire \o SubSeq(buf, 1, k) \/ wire' = wire \o SubSeq(buf, 1, 0)
      BY <1>1, <2>1, <2>3 DEF writeSocketLocked
    <3>3. k \in 0..Len(buf)
      BY LenProperties
    <3>. QED
      BY <1>0, <3>1, <3>2, <3>3
  <2>. QED
    BY <2>2, <2>3 DEF FlushOutcome
<1>. QED
  BY <1>3, <1>4 DEF Promote

\* Every step keeps the order.
LEMMA OrderStep ==
  ASSUME TypeOK, LastInv, OrderInv, [Next]_vars
  PROVE  OrderInv'
<1>1. /\ DataOK /\ wire \in Seq(WireItem) /\ buf \in Seq(WireItem) /\ written \in Nat /\ attempt \in Nat
      /\ Len(wire) \in Nat /\ Len(buf) \in Nat
  BY LenProperties, SessionAssumption DEF TypeOK, DataOK
<1>2. CASE /\ UNCHANGED <<wire, buf, promoted, attempt, written>>
           /\ (firstErr => firstErr') /\ (finalized => finalized')
  BY <1>1, <1>2, StutterGrows, AroundStep
<1>3. CASE FinalErrorSSE
  <2>1. wire' = wire \/ wire' = Append(wire, SSEError)
    BY <1>3 DEF FinalErrorSSE, writeSocketLocked, FlushOutcome
  <2>2. GrowsBy({"keepalive", "sse_error", "json_error"})
    BY <1>1, <2>1, AppendGrows, StutterGrows, ItemTypes, ItemKinds DEF GrowsBy
  <2>3. /\ UNCHANGED <<promoted, attempt, written>> /\ finalized'
        /\ buf' = buf \/ buf' = <<>>
        /\ ~firstErr
    BY <1>3 DEF FinalErrorSSE, unavailableLocked
  <2>. QED
    BY <1>1, <2>2, <2>3, AroundStep
<1>4. CASE FinalErrorJSON
  <2>1. wire' = wire \/ wire' = Append(wire, ErrorBody)
    BY <1>4 DEF FinalErrorJSON
  <2>2. GrowsBy({"keepalive", "sse_error", "json_error"})
    BY <1>1, <2>1, AppendGrows, StutterGrows, ItemTypes, ItemKinds DEF GrowsBy
  <2>3. UNCHANGED <<promoted, attempt, written>> /\ finalized' /\ buf' = <<>> /\ ~firstErr
    BY <1>4 DEF FinalErrorJSON, unavailableLocked
  <2>. QED
    BY <1>1, <2>2, <2>3, AroundStep
<1>5. CASE WriteKeepAlive
  <2>1. wire' = wire \/ wire' = Append(wire, KeepAlive)
    BY <1>5 DEF WriteKeepAlive, writeSocketLocked, FlushOutcome, WithKeepAlive
  <2>2. GrowsBy({"keepalive", "sse_error", "json_error"})
    BY <1>1, <2>1, AppendGrows, StutterGrows, ItemTypes, ItemKinds DEF GrowsBy
  <2>3. UNCHANGED <<buf, promoted, attempt, written, finalized>>
    BY <1>5 DEF WriteKeepAlive
  <2>4. firstErr => firstErr'
    BY <1>5, Zenon DEF WriteKeepAlive, unavailableLocked
  <2>. QED
    BY <1>1, <2>2, <2>3, <2>4, AroundStep
<1>6. CASE Discard
  <2>1. /\ UNCHANGED <<wire, promoted, firstErr>> /\ ~promoted /\ buf' = <<>> /\ written' = 0
    BY <1>6 DEF Discard, flags
  <2>. QED
    BY <2>1, Len(<<>>) = 0 DEF OrderInv
<1>7. CASE Promote
  <2>1. ~promoted /\ promoted' /\ ~firstErr /\ ~finalized /\ UNCHANGED <<attempt, written>>
    BY <1>7 DEF Promote, unavailableLocked
  <2>2. /\ SemanticAt(wire) = {} /\ Len(buf) = written
        /\ \A i \in 1..Len(buf) : buf[i].kind = "event" /\ buf[i].n = i /\ buf[i].attempt = attempt
    BY <2>1 DEF OrderInv, LastInv
  <2>4. PICK k \in 0..Len(buf) : wire' = wire \o SubSeq(buf, 1, k) /\ (~firstErr' => k = Len(buf))
    BY <1>1, <1>7, PromotedBatch
  <2>5. Numbered(wire', attempt, k) /\ Complete(wire', k)
    BY <1>1, <2>2, <2>4, FirstEvents
  <2>6. Numbered(wire', attempt, written)
    BY <1>1, <2>2, <2>5 DEF Numbered
  <2>. QED
    BY <2>1, <2>2, <2>4, <2>5, <2>6 DEF OrderInv
<1>8. ASSUME NEW e \in Events, Write(e) PROVE OrderInv'
  <2> DEFINE item == Item(IF finalizing THEN "final" ELSE "event", e, attempt, written + 1)
  <2>0. written + 1 \in Nat
    BY <1>1
  <2>1. /\ item \in WireItem /\ item.kind \in {"event", "final"}
        /\ item.n = written + 1 /\ item.attempt = attempt
    <3>1. item \in WireItem
      BY <1>1, <2>0, ItemTypes
    <3>. QED
      BY <3>1 DEF Item
  <2>2. /\ ~firstErr /\ ~finalized /\ UNCHANGED <<promoted, attempt, finalized>>
    BY <1>8 DEF Write, unavailableLocked
  <2>3. CASE ~promoted
    <3>1. buf' = Append(buf, item) /\ written' = written + 1 /\ UNCHANGED <<wire, firstErr>>
      BY <1>8, <2>3 DEF Write
    <3> HIDE DEF item
    <3>2. /\ Len(buf') = Len(buf) + 1 /\ buf'[Len(buf) + 1] = item
          /\ \A i \in 1..Len(buf) : buf'[i] = buf[i]
      BY <1>1, <2>1, <3>1, AppendProperties
    <3>. QED
      BY <1>1, <2>1, <2>2, <2>3, <3>1, <3>2 DEF OrderInv
  <2>4. CASE promoted
    <3>1. PICK r \in WriteOutcome :
            /\ writeSocketLocked(Append(wire, item), wire, r)
            /\ written' = IF r = "ok" THEN written + 1 ELSE written
      BY <1>8, <2>4 DEF Write
    <3> HIDE DEF item
    <3>2. CASE r = "ok"
      <4>1. wire' = Append(wire, item) /\ written' = written + 1
        BY <3>1, <3>2 DEF writeSocketLocked
      <4>2. Numbered(wire, attempt, written) /\ Complete(wire, written)
        BY <2>2, <2>4 DEF OrderInv
      <4>3. Numbered(wire', attempt, written') /\ Complete(wire', written')
        BY <1>1, <2>1, <4>1, <4>2, NextEvent
      <4>. QED
        BY <2>2, <2>4, <4>3 DEF OrderInv
    <3>3. CASE r # "ok"
      <4>1. wire' = wire /\ written' = written /\ firstErr'
        BY <3>1, <3>3 DEF writeSocketLocked, WriteOutcome
      <4>. QED
        BY <2>2, <2>4, <4>1 DEF OrderInv
    <3>. QED
      BY <3>2, <3>3
  <2>. QED
    BY <2>3, <2>4
<1>9. CASE SetSSEHeaders \/ Start \/ WriteHeader \/ Flush \/ FinalErrorBegin \/ FinalErrorEnd
           \/ HeartbeatTop \/ HeartbeatSelect \/ Tick \/ StopStep \/ ClientGone \/ UNCHANGED vars
  <2>1. UNCHANGED <<wire, buf, promoted, attempt, written>> /\ (firstErr => firstErr')
    BY <1>9 DEF SetSSEHeaders, Start, WriteHeader, Flush, FinalErrorBegin, FinalErrorEnd,
         HeartbeatTop, HeartbeatSelect, Tick, StopStep, StopMark, StopSignal, StopReturn,
         ClientGone, vars, flags
  <2>2. finalized => finalized'
    BY <1>9 DEF SetSSEHeaders, Start, WriteHeader, Flush, FinalErrorBegin, FinalErrorEnd,
         HeartbeatTop, HeartbeatSelect, Tick, StopStep, StopMark, StopSignal, StopReturn,
         ClientGone, vars
  <2>. QED
    BY <1>2, <2>1, <2>2
<1>. QED
  BY <1>3, <1>4, <1>5, <1>6, <1>7, <1>8, <1>9
  DEF Next, HandlerStep, WriteFinalError, HeartbeatStep, Done

\* What holds of the session whatever its environment does.
SessionInv == TypeOK /\ ClockOK /\ LastInv /\ OrderInv

LEMMA SessionInitial == Init => SessionInv
<1>1. Len(<<>>) = 0
  OBVIOUS
<1>2. Init => SemanticAt(wire) = {} /\ LastInv
  BY <1>1 DEF Init, LastInv, SemanticAt
<1>3. Init => OrderInv
  BY <1>1, <1>2 DEF Init, OrderInv
<1>. QED
  BY <1>2, <1>3, TypeInitial DEF SessionInv

LEMMA SessionKeeps == SessionInv /\ [Next]_vars => SessionInv'
BY FlagsStep, DataStep, LastStep, OrderStep DEF SessionInv, TypeOK

LEMMA SessionInvariant == Spec => []SessionInv
BY SessionInitial, SessionKeeps, PTL DEF Spec

(***************************************************************************)
(* The client sees the events of one attempt, in the order written, none   *)
(* missing before the last (OneAttemptInOrder).                            *)
(***************************************************************************)
THEOREM OneAttempt == Spec => []OneAttemptInOrder
<1>1. SessionInv => OneAttemptInOrder
  <2>. SUFFICES ASSUME SessionInv, NEW j \in 1..Len(wire), wire[j].kind \in {"event", "final"}
                PROVE  /\ wire[j].attempt = attempt
                       /\ wire[j].n \in 1..written
                       /\ \A m \in 1..(wire[j].n - 1) :
                            \E i \in 1..(j - 1) : wire[i].n = m /\ wire[i].kind \in {"event", "final"}
    BY DEF OneAttemptInOrder
  <2>1. j \in SemanticAt(wire)
    BY DEF SemanticAt
  <2>2. Numbered(wire, attempt, written)
    BY <2>1 DEF SessionInv, OrderInv
  <2>3. \A i \in SemanticAt(wire) : i < j => i \in 1..(j - 1) /\ wire[i].kind \in {"event", "final"}
    BY LenProperties DEF SemanticAt, SessionInv, TypeOK, DataOK
  <2>. QED
    BY <2>1, <2>2, <2>3 DEF Numbered
<1>. QED
  BY <1>1, SessionInvariant, PTL

(***************************************************************************)
(* Promotion loses nothing while the connection works                      *)
(* (PromotedEventsDelivered).                                              *)
(***************************************************************************)
THEOREM PromotedDelivered == Spec => []PromotedEventsDelivered
<1>1. SessionInv => PromotedEventsDelivered
  BY DEF SessionInv, OrderInv, Complete, SemanticAt, PromotedEventsDelivered
<1>. QED
  BY <1>1, SessionInvariant, PTL

-----------------------------------------------------------------------------
(***************************************************************************)
(* The session implements Downstream, step by step.                        *)
(***************************************************************************)

\* The client's view of the session: the expressions ClientView gives Downstream's variables.
clientPhase  == IF firstErr \/ stopped \/ finalized THEN "closed"
                ELSE IF finalizing THEN "failing"
                ELSE IF promoted THEN "streaming"
                ELSE IF committed THEN "open" ELSE "empty"
clientSource == IF promoted THEN attempt ELSE 0

\* The events sent are counted by their places.
LEMMA SentIs == ClientView!Sent = Cardinality(SemanticAt(wire))
BY DEF ClientView!Sent, SemanticAt, ClientView!Cardinality, Cardinality

\* Appending pieces extends the response.
LEMMA Extends ==
  ASSUME NEW w \in Seq(WireItem), NEW v \in Seq(WireItem), Len(w) <= Len(v),
         \A i \in 1..Len(w) : v[i] = w[i]
  PROVE  SubSeq(v, 1, Len(w)) = w
<1>1. Len(w) \in Nat /\ Len(v) \in Nat
  BY LenProperties
<1>2. \A i \in 1..Len(w) : v[i] \in WireItem
  BY <1>1, ElementOfSeq
<1>3. /\ SubSeq(v, 1, Len(w)) \in Seq(WireItem) /\ Len(SubSeq(v, 1, Len(w))) = Len(w)
      /\ \A i \in 1..Len(w) : SubSeq(v, 1, Len(w))[i] = w[i]
  BY <1>1, <1>2, SubSeqProperties
<1>. QED
  BY <1>3, SeqEqual

\* A step that leaves the wire alone and keeps what the client sees, or ends it.
LEMMA QuietStep ==
  ASSUME wire' = wire, clientSource' = clientSource, clientPhase' \in {clientPhase, "closed"}
  PROVE  [ClientView!Next]_(ClientView!vars)
<1>1. CASE clientPhase' = "closed"
  BY <1>1 DEF ClientView!Next, ClientView!Close, clientPhase, clientSource
<1>2. CASE clientPhase' = clientPhase
  BY <1>2 DEF ClientView!vars, clientPhase, clientSource
<1>. QED
  BY <1>1, <1>2

\* A batch of events of one attempt, or none.
LEMMA BatchStep ==
  ASSUME clientPhase \in {"empty", "open", "streaming"}, clientPhase' \in {"streaming", "closed"},
         clientSource' > 0, clientSource # 0 => clientSource' = clientSource,
         wire \in Seq(WireItem), wire' \in Seq(WireItem), Len(wire) <= Len(wire'),
         \A i \in 1..Len(wire) : wire'[i] = wire[i],
         \A i \in (Len(wire) + 1)..Len(wire') :
           /\ wire'[i].kind = "event" /\ wire'[i].attempt = clientSource'
           /\ wire'[i].n = Cardinality(SemanticAt(wire)) + i - Len(wire)
  PROVE  ClientView!Next
<1>1. SubSeq(wire', 1, Len(wire)) = wire
  BY Extends
<1>2. Len(wire) \in Nat /\ Len(wire') \in Nat
  BY LenProperties
<1>. QED
  BY <1>1, <1>2, SentIs DEF ClientView!Next, ClientView!SendEvents, ClientView!Live, clientPhase, clientSource

\* Every step is a step of Downstream, or none.
LEMMA ViewStep ==
  ASSUME SessionInv, [Next]_vars
  PROVE  [ClientView!Next]_(ClientView!vars)
<1>1. /\ FlagsOK /\ DataOK /\ wire \in Seq(WireItem) /\ buf \in Seq(WireItem) /\ attempt \in Nat \ {0}
      /\ Len(wire) \in Nat /\ Len(buf) \in Nat /\ written \in Nat
  BY LenProperties, SessionAssumption DEF SessionInv, TypeOK, DataOK
<1>2. /\ finalizing => promoted /\ ~finalized
      /\ \A i \in 1..Len(buf) : buf[i].kind = "event"
  BY DEF SessionInv, LastInv
<1>3. wire' \in Seq(WireItem)
  BY DataStep DEF SessionInv, TypeOK, DataOK
<1>4. CASE WriteKeepAlive
  <2>1. CASE UNCHANGED <<wire, promoted, stopped, finalizing, finalized, attempt, committed, firstErr>>
    BY <2>1, QuietStep DEF clientPhase, clientSource
  <2>2. ASSUME NEW r \in FlushOutcome, ~finalizing, ~unavailableLocked,
               writeSocketLocked(WithKeepAlive, wire, r)
        PROVE  [ClientView!Next]_(ClientView!vars)
    <3>1. UNCHANGED <<promoted, stopped, finalizing, finalized, attempt>>
      BY <1>4 DEF WriteKeepAlive
    <3>2. ~firstErr /\ ~stopped /\ ~finalized
      BY <2>2 DEF unavailableLocked
    <3>3. clientSource' = clientSource
      BY <3>1 DEF clientSource
    <3>4. CASE r = "ok"
      <4>1. wire' = WithKeepAlive /\ ~firstErr' /\ committed'
        BY <2>2, <3>4 DEF writeSocketLocked
      <4>2. /\ clientPhase \in {"empty", "open", "streaming"}
            /\ clientPhase' = IF clientPhase = "empty" THEN "open" ELSE clientPhase
        BY <2>2, <3>1, <3>2, <4>1 DEF clientPhase
      <4>. QED
        BY <3>3, <4>1, <4>2
        DEF ClientView!Next, ClientView!KeepAlive, ClientView!Live, ClientView!Pings, ClientView!Piece,
            ClientView!NoPayload, NoEvent, KeepAlive, Item, WithKeepAlive, EndsWithKeepAlive,
            clientPhase, clientSource
    <3>5. CASE r = "unflushed"
      <4>1. wire' = WithKeepAlive /\ firstErr'
        BY <2>2, <3>5 DEF writeSocketLocked
      <4>2. /\ clientPhase \in {"empty", "open", "streaming"}
            /\ clientPhase' = "closed"
        BY <2>2, <3>1, <3>2, <4>1 DEF clientPhase
      <4>. QED
        BY <3>3, <4>1, <4>2
        DEF ClientView!Next, ClientView!KeepAlive, ClientView!Live, ClientView!Pings, ClientView!Piece,
            ClientView!NoPayload, NoEvent, KeepAlive, Item, WithKeepAlive, EndsWithKeepAlive,
            clientPhase, clientSource
    <3>6. CASE r \in {"short", "fail"}
      <4>1. wire' = wire /\ firstErr'
        BY <2>2, <3>6 DEF writeSocketLocked
      <4>. QED
        BY <3>3, <4>1, QuietStep DEF clientPhase
    <3>. QED
      BY <3>4, <3>5, <3>6 DEF FlushOutcome
  <2>. QED
    BY <1>4, <2>1, <2>2 DEF WriteKeepAlive
<1>5. CASE Promote
  <2>1. /\ clientPhase \in {"empty", "open"} /\ clientSource = 0 /\ clientSource' = attempt
        /\ promoted' /\ UNCHANGED <<stopped, finalizing, finalized, attempt>> /\ ~finalizing /\ ~stopped /\ ~finalized
    BY <1>1, <1>2, <1>5 DEF Promote, unavailableLocked, clientPhase, clientSource
  <2>2. clientPhase' \in {"streaming", "closed"}
    BY <2>1 DEF clientPhase
  <2>3. SemanticAt(wire) = {} /\ \A i \in 1..Len(buf) : buf[i].n = i /\ buf[i].attempt = attempt
    BY <1>5 DEF Promote, SessionInv, OrderInv
  <2>4. PICK k \in 0..Len(buf) : wire' = wire \o SubSeq(buf, 1, k)
    BY <1>1, <1>5, PromotedBatch
  <2>5. /\ Len(wire') = Len(wire) + k
        /\ \A i \in 1..Len(wire) : wire'[i] = wire[i]
        /\ \A i \in (Len(wire) + 1)..Len(wire') :
             wire'[i].kind = "event" /\ wire'[i].n = i - Len(wire) /\ wire'[i].attempt = attempt
    BY <1>1, <1>2, <2>3, <2>4, FirstEvents
  <2>6. Cardinality(SemanticAt(wire)) = 0
    BY <2>3, FS_EmptySet
  <2>7. \A i \in (Len(wire) + 1)..Len(wire') : wire'[i].n = Cardinality(SemanticAt(wire)) + i - Len(wire)
    BY <1>1, <2>5, <2>6
  <2>8. Len(wire) <= Len(wire')
    BY <1>1, <2>5
  <2>. QED
    BY <1>1, <1>3, <2>1, <2>2, <2>5, <2>7, <2>8, BatchStep
<1>6. ASSUME NEW e \in Events, Write(e) PROVE [ClientView!Next]_(ClientView!vars)
  <2>1. /\ ~firstErr /\ ~stopped /\ ~finalized
        /\ UNCHANGED <<promoted, stopped, finalizing, finalized, attempt>>
    BY <1>6 DEF Write, unavailableLocked
  <2>2. CASE ~promoted
    <3>1. UNCHANGED <<wire, firstErr, committed>>
      BY <1>6, <2>2 DEF Write
    <3>. QED
      BY <2>1, <3>1, QuietStep DEF clientPhase, clientSource
  <2>3. CASE promoted
    <3> DEFINE item == Item(IF finalizing THEN "final" ELSE "event", e, attempt, written + 1)
    <3>1. PICK r \in WriteOutcome : writeSocketLocked(Append(wire, item), wire, r)
      BY <1>6, <2>3 DEF Write
    <3>2. CASE r # "ok"
      <4>1. wire' = wire /\ firstErr'
        BY <3>1, <3>2 DEF writeSocketLocked, WriteOutcome
      <4>. QED
        BY <2>1, <4>1, QuietStep DEF clientPhase, clientSource
    <3>3. CASE r = "ok"
      <4>1. wire' = Append(wire, item) /\ ~firstErr'
        BY <3>1, <3>3 DEF writeSocketLocked
      <4>2. Cardinality(SemanticAt(wire)) = written
        BY <2>1, <2>3 DEF SessionInv, OrderInv, Complete
      <4>3. clientSource = attempt /\ clientSource' = attempt
        BY <2>1, <2>3 DEF clientSource
      <4>4. CASE finalizing
        <5>1. clientPhase = "failing" /\ clientPhase' = "failing"
          BY <2>1, <4>1, <4>4 DEF clientPhase
        <5>2. wire' = Append(wire, ClientView!Piece("final", e, clientSource, Cardinality(SemanticAt(wire)) + 1))
          BY <4>1, <4>2, <4>3, <4>4 DEF Item, ClientView!Piece
        <5>. QED
          BY <4>3, <5>1, <5>2, SentIs
          DEF ClientView!Next, ClientView!SendFinal, clientPhase, clientSource
      <4>5. CASE ~finalizing
        <5>1. clientPhase = "streaming" /\ clientPhase' = "streaming"
          BY <2>1, <2>3, <4>1, <4>5 DEF clientPhase
        <5>2. item \in WireItem
          BY <1>1, ItemTypes
        <5>3. item.kind = "event" /\ item.attempt = attempt /\ item.n = written + 1
          BY <4>5 DEF Item
        <5> HIDE DEF item
        <5>4. /\ Len(wire') = Len(wire) + 1 /\ wire'[Len(wire) + 1] = item
              /\ \A i \in 1..Len(wire) : wire'[i] = wire[i]
          BY <1>1, <4>1, <5>2, AppendProperties
        <5>. QED
          BY <1>1, <1>3, <4>2, <4>3, <5>1, <5>3, <5>4, BatchStep
      <4>. QED
        BY <4>4, <4>5
    <3>. QED
      BY <3>2, <3>3
  <2>. QED
    BY <2>2, <2>3
<1>7. CASE Flush
  <2>1. /\ UNCHANGED <<wire, promoted, committed, stopped, finalizing, finalized, attempt>>
        /\ firstErr' = firstErr \/ firstErr' = TRUE
    BY <1>7 DEF Flush
  <2>. QED
    BY <2>1, QuietStep DEF clientPhase, clientSource
<1>8. CASE FinalErrorBegin
  <2>1. clientPhase = "streaming" /\ clientPhase' = "failing" /\ UNCHANGED <<wire, clientSource>>
    BY <1>8 DEF FinalErrorBegin, unavailableLocked, flags, clientPhase, clientSource
  <2>. QED
    BY <2>1 DEF ClientView!Next, ClientView!BeginFailing, clientPhase, clientSource
<1>9. CASE FinalErrorEnd \/ StopMark
  <2>1. /\ UNCHANGED <<wire, promoted, attempt>> /\ (finalized' \/ stopped')
    BY <1>9 DEF FinalErrorEnd, StopMark, flags
  <2>. QED
    BY <2>1, QuietStep DEF clientPhase, clientSource
<1>10. CASE FinalErrorSSE
  <2>1. /\ UNCHANGED <<promoted, attempt>> /\ finalized'
        /\ ~firstErr /\ ~stopped /\ ~finalized /\ ~finalizing /\ (promoted \/ committed)
    BY <1>10 DEF FinalErrorSSE, unavailableLocked
  <2>2. wire' \in {wire, Append(wire, SSEError)}
    BY <1>10 DEF FinalErrorSSE, writeSocketLocked, FlushOutcome
  <2>3. clientPhase \in {"open", "streaming"} /\ clientPhase' = "closed" /\ clientSource' = clientSource
    BY <2>1 DEF clientPhase, clientSource
  <2>. QED
    BY <2>2, <2>3
    DEF ClientView!Next, ClientView!FailWithEvent, ClientView!Broken, ClientView!Piece,
        ClientView!NoPayload, NoEvent, SSEError, Item, clientPhase, clientSource
<1>11. CASE FinalErrorJSON
  <2>1. /\ UNCHANGED <<promoted, attempt>> /\ finalized'
        /\ ~firstErr /\ ~stopped /\ ~finalized /\ ~promoted /\ ~committed
    BY <1>11 DEF FinalErrorJSON, unavailableLocked
  <2>2. wire' \in {wire, Append(wire, ErrorBody)}
    BY <1>11 DEF FinalErrorJSON
  <2>3. clientPhase = "empty" /\ clientPhase' = "closed" /\ clientSource' = clientSource
    BY <1>2, <2>1 DEF clientPhase, clientSource
  <2>. QED
    BY <2>2, <2>3
    DEF ClientView!Next, ClientView!FailWithBody, ClientView!Reject, ClientView!Piece,
        ClientView!NoPayload, NoEvent, ErrorBody, Item, clientPhase, clientSource
<1>12. CASE \/ SetSSEHeaders \/ Start \/ WriteHeader \/ Discard \/ HeartbeatTop \/ HeartbeatSelect \/ Tick
            \/ StopSignal \/ StopReturn \/ ClientGone \/ UNCHANGED vars
  <2>1. /\ UNCHANGED <<wire, promoted, committed, firstErr, stopped, finalizing, finalized>>
        /\ attempt' = attempt \/ ~promoted
    BY <1>12 DEF SetSSEHeaders, Start, WriteHeader, Discard, HeartbeatTop, HeartbeatSelect, Tick,
         StopSignal, StopReturn, ClientGone, vars, flags
  <2>. QED
    BY <2>1, QuietStep DEF clientPhase, clientSource
<1>. QED
  BY <1>4, <1>5, <1>6, <1>7, <1>8, <1>9, <1>10, <1>11, <1>12
  DEF Next, HandlerStep, WriteFinalError, HeartbeatStep, StopStep, Done

(***************************************************************************)
(* Handler, heartbeat and Stop together keep the promise of Downstream, for*)
(* every set of events, interval and bound (ImplementsDownstream).         *)
(***************************************************************************)
THEOREM Implements == Spec => ImplementsDownstream
<1>1. Init => ClientView!Init
  BY DEF Init, ClientView!Init
<1>2. SessionInv /\ [Next]_vars => [ClientView!Next]_(ClientView!vars)
  BY ViewStep
<1>. QED
  BY <1>1, <1>2, SessionInvariant, PTL DEF Spec, ImplementsDownstream, ClientView!Spec
=============================================================================
