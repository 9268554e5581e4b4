----------------------- MODULE MessageExchangeProofs -----------------------
(***************************************************************************)
(* What holds of every streaming request, whatever the upstream sends and  *)
(* the client's connection does.  The handler and its surroundings take    *)
(* only steps of the stream session, so that all its theorems hold of the  *)
(* exchange; the rest is about what the handler makes of them.             *)
(***************************************************************************)
EXTENDS MessageExchange, StreamSessionProofs, SSEWriterProofs

Places == SSEEvents \cup {""}

\* What may stand in the client's stream, and in the operations still to be run.
Told == Events \cup Operations \cup {NoEvent}

\* A sequence of pieces, as the client's parser sees it.
Heard(w) == [i \in 1..Len(w) |-> IF w[i].kind \in {"event", "final"} THEN w[i].ev ELSE NoEvent]

\* What was accepted of the attempt leads from the beginning of a stream to m.
Stands(m) == Leads(Told, "", IF promoted THEN Heard(wire) ELSE Heard(buf), m)

\* No block is open.
Idle(w) == w.active = ""

\* The handler is about to write the closing error, or has done so.
ClosingError == hpc = "closing" \/ (hpc = "emit" /\ after = "closing")

\* It has made the message complete, or is about to.
Completing == hpc \in {"finished", "deliver"} \/ (hpc \in {"emit", "judge"} /\ after \in {"local", "finished"})

\* Where the stream has to stand once todo is run.
Meant(q) ==
  /\ ClosingError => q = "error"
  /\ Completing => q = "message_stop"
  /\ ~ClosingError /\ ~Completing => At(sw, q)

\* The handler's control, against the session it drives.
ControlInv ==
  /\ hpc # "done" => stopper = "idle" /\ ~stopped /\ ~finalized
  /\ sw.err => (firstErr \/ ctxDone) /\ todo = <<>> /\ hpc \notin {"retryable", "rejected"}
  /\ hpc \in {"call", "retry", "fail"} => ~promoted
  /\ hpc \in {"call", "retry", "start"} => buf = <<>> /\ ~promoted
  /\ hpc = "start" => sw = NewWriter
  /\ hpc # "emit" => todo = <<>>
  /\ hpc = "judge" => after \in {"finish", "local", "retryable", "rejected"}
  /\ hpc = "emit" => after \in {"parse", "local", "finished", "closing"}
  /\ ClosingError => promoted
  /\ ~sw.started => Idle(sw)

\* A turn that shows something, or is no empty one.
Worth(a) == Shows(a) \/ ~IsEmptyVisibleEndTurn(a)

\* The gate opens for what is worth showing only, and is opened by the end of the rest.
GateInv ==
  /\ hpc # "done" /\ (promoted \/ Promotes(todo)) => Shows(acc) /\ sw.started
  /\ hpc = "done" /\ promoted => Worth(acc)
  /\ hpc = "deliver" => Worth(acc)
  /\ hpc \in {"emit", "judge"} /\ after = "local" => acc.stopped

\* What was accepted and what is still to be run make one stream.
StoryInv ==
  /\ WellFormed(Semantic)
  /\ hpc \notin {"call", "retry", "fail", "done"} /\ ~firstErr /\ ~sw.err =>
       \E m \in Places, q \in Places : Stands(m) /\ Leads(Told, m, todo, q) /\ Meant(q)

ExchInv == ExchangeTypeOK /\ ControlInv /\ GateInv /\ StoryInv /\ EveryRequestAnswered

-----------------------------------------------------------------------------
(* Streams, one operation at a time *)

LEMMA Names ==
  /\ "" \notin SSEEvents /\ NoEvent \notin SSEEvents /\ "promote" \notin SSEEvents
  /\ SSEEvents \subseteq Told /\ Operations \subseteq Told /\ NoEvent \in Told /\ Events \subseteq Told
  /\ SSEEvents \subseteq Events
  /\ \A e \in Operations : e # "promote" => e \in SSEEvents
BY EventNames, ExchangeAssumption DEF SSEEvents, NoEvent, Told, Operations

\* The first operation of a stream, and the rest.
LEMMA LeadsFirst ==
  ASSUME NEW K, NEW p, NEW q, NEW s, Leads(K, p, s, q), s # <<>>
  PROVE  LET m == IF Head(s) \in SSEEvents THEN Head(s) ELSE p
         IN Leads(K, p, <<Head(s)>>, m) /\ Leads(K, m, Tail(s), q)
<1> DEFINE h == Head(s)
           t == Tail(s)
           m == IF h \in SSEEvents THEN h ELSE p
<1>1. s \in Seq(K) /\ Len(s) \in Nat /\ 1 \in 1..Len(s)
  BY LenProperties, EmptySeq DEF Leads
<1>2. /\ h = s[1] /\ t \in Seq(K) /\ Len(t) = Len(s) - 1
      /\ \A i \in 1..Len(t) : t[i] = s[i + 1]
  BY <1>1, HeadTailProperties
<1>3. h \in K /\ Len(<<h>>) = 1 /\ <<h>>[1] = h
  BY <1>1, <1>2, ElementOfSeq
<1> HIDE DEF h, t
<1>4. h \in SSEEvents => Precedes(p, h)
  BY <1>1, <1>2 DEF Leads
<1>5. Leads(K, p, <<h>>, m)
  <2>1. CASE h \in SSEEvents
    BY <1>3, <1>4, <2>1, LeadsOne
  <2>2. CASE h \notin SSEEvents
    <3>1. <<h>> \in Seq(K)
      BY <1>3
    <3>. QED
      BY <1>3, <2>2, <3>1 DEF Leads, NoEvents
  <2>. QED
    BY <2>1, <2>2
<1>6. \A i, j \in Nat : i >= 1 /\ j <= Len(t) /\ NoEvents(s, i + 1, j + 1) => NoEvents(t, i, j)
  <2>. SUFFICES ASSUME NEW i \in Nat, NEW j \in Nat, i >= 1, j <= Len(t), NoEvents(s, i + 1, j + 1), NEW k \in i..j
                PROVE  t[k] \notin SSEEvents
    BY DEF NoEvents
  <2>1. k + 1 \in (i + 1)..(j + 1) /\ k \in 1..Len(t)
    BY <1>1, <1>2
  <2>. QED
    BY <1>2, <2>1 DEF NoEvents
<1>7. \A j \in Nat : j >= 1 /\ NoEvents(s, 1, j) => m = p /\ NoEvents(s, 2, j)
  BY <1>2 DEF NoEvents
<1>8. ASSUME NEW i \in 1..Len(t), t[i] \in SSEEvents
      PROVE  \/ Precedes(m, t[i]) /\ NoEvents(t, 1, i - 1)
             \/ \E j \in 1..(i - 1) : t[j] \in SSEEvents /\ t[j] \in MayPrecede(t[i]) /\ NoEvents(t, j + 1, i - 1)
  <2>1. i + 1 \in 1..Len(s) /\ s[i + 1] = t[i] /\ (i + 1) - 1 = i /\ i - 1 \in Nat /\ i - 1 <= Len(t) /\ i \in Nat /\ i >= 1
    BY <1>1, <1>2
  <2>2. CASE Precedes(p, s[i + 1]) /\ NoEvents(s, 1, i)
    <3>1. m = p /\ NoEvents(s, 2, i)
      BY <1>7, <2>1, <2>2
    <3>2. NoEvents(t, 1, i - 1)
      BY <1>6, <2>1, <3>1
    <3>. QED
      BY <2>1, <2>2, <3>1, <3>2
  <2>3. ASSUME NEW j \in 1..i, s[j] \in SSEEvents, s[j] \in MayPrecede(s[i + 1]), NoEvents(s, j + 1, i)
        PROVE  \/ Precedes(m, t[i]) /\ NoEvents(t, 1, i - 1)
               \/ \E l \in 1..(i - 1) : t[l] \in SSEEvents /\ t[l] \in MayPrecede(t[i]) /\ NoEvents(t, l + 1, i - 1)
    <3>1. CASE j = 1
      <4>1. m = h /\ h \in MayPrecede(t[i]) /\ h # ""
        BY <1>2, <2>1, <2>3, <3>1, Names
      <4>2. NoEvents(t, 1, i - 1)
        BY <1>6, <2>1, <2>3, <3>1
      <4>3. Precedes(h, t[i])
        BY <4>1 DEF Precedes
      <4>. QED
        BY <4>1, <4>2, <4>3
    <3>2. CASE j # 1
      <4>1. j - 1 \in 1..(i - 1) /\ j - 1 \in 1..Len(t) /\ (j - 1) + 1 = j /\ j \in Nat /\ j >= 1
        BY <1>1, <1>2, <3>2
      <4>2. t[j - 1] = s[j]
        BY <1>2, <4>1
      <4>3. NoEvents(t, (j - 1) + 1, i - 1)
        BY <1>6, <2>1, <2>3, <4>1
      <4>. QED
        BY <2>1, <2>3, <4>1, <4>2, <4>3
    <3>. QED
      BY <3>1, <3>2
  <2>. QED
    BY <1>8, <2>1, <2>2, <2>3 DEF Leads
<1>9. \/ q = m /\ NoEvents(t, 1, Len(t))
      \/ q \in SSEEvents /\ EndsIn(t, {q})
  <2>1. CASE q = p /\ NoEvents(s, 1, Len(s))
    BY <1>1, <1>2, <1>6, <1>7, <2>1
  <2>2. ASSUME q \in SSEEvents, NEW i \in 1..Len(s), s[i] = q, NoEvents(s, i + 1, Len(s))
        PROVE  (q = m /\ NoEvents(t, 1, Len(t))) \/ EndsIn(t, {q})
    <3>1. CASE i = 1
      BY <1>1, <1>2, <1>6, <2>2, <3>1
    <3>2. CASE i # 1
      <4>1. i - 1 \in 1..Len(t) /\ (i - 1) + 1 = i /\ i \in Nat /\ i >= 1 /\ Len(t) \in Nat /\ Len(t) + 1 = Len(s)
        BY <1>1, <1>2, <3>2
      <4>2. t[i - 1] = q /\ NoEvents(t, (i - 1) + 1, Len(t))
        BY <1>2, <1>6, <2>2, <4>1
      <4>. QED
        BY <4>1, <4>2 DEF EndsIn
    <3>. QED
      BY <3>1, <3>2
  <2>. QED
    BY <2>1, <2>2 DEF Leads, EndsIn
<1>10. Leads(K, m, t, q)
  BY <1>2, <1>8, <1>9 DEF Leads
<1>. QED
  BY <1>5, <1>10 DEF h, t

\* What is no event leads nowhere.
LEMMA LeadsSilent ==
  ASSUME NEW K, NEW e \in K, e \notin SSEEvents, NEW p
  PROVE  Leads(K, p, <<e>>, p)
<1>1. <<e>> \in Seq(K) /\ Len(<<e>>) = 1 /\ <<e>>[1] = e
  OBVIOUS
<1>. QED
  BY <1>1 DEF Leads, NoEvents

-----------------------------------------------------------------------------
(* What the client's parser hears *)

LEMMA HeardSeq ==
  ASSUME NEW w \in Seq(WireItem)
  PROVE  /\ Heard(w) \in Seq(Told) /\ Len(Heard(w)) = Len(w) /\ Len(w) \in Nat
         /\ \A i \in 1..Len(w) : Heard(w)[i] = IF w[i].kind \in {"event", "final"} THEN w[i].ev ELSE NoEvent
<1>1. Len(w) \in Nat /\ \A i \in 1..Len(w) : w[i] \in WireItem
  BY LenProperties, ElementOfSeq
<1>2. \A i \in 1..Len(w) : w[i].ev \in Told /\ NoEvent \in Told
  BY <1>1 DEF WireItem, Told
<1>3. Heard(w) \in [1..Len(w) -> Told]
  BY <1>2 DEF Heard
<1>. QED
  BY <1>1, <1>3, SeqDef, LenProperties DEF Heard

LEMMA HeardAppend ==
  ASSUME NEW w \in Seq(WireItem), NEW x \in WireItem
  PROVE  Heard(Append(w, x)) = Heard(w) \o <<IF x.kind \in {"event", "final"} THEN x.ev ELSE NoEvent>>
<1> DEFINE v == Append(w, x)
           e == IF x.kind \in {"event", "final"} THEN x.ev ELSE NoEvent
           s == Heard(w)
           t == <<e>>
<1>1. v \in Seq(WireItem) /\ Len(v) = Len(w) + 1 /\ v[Len(w) + 1] = x /\ \A i \in 1..Len(w) : v[i] = w[i]
  BY AppendProperties
<1>2. e \in Told
  BY DEF WireItem, Told
<1>3. t \in Seq(Told) /\ Len(t) = 1 /\ t[1] = e
  BY <1>2
<1>4. /\ s \in Seq(Told) /\ Len(s) = Len(w) /\ Len(w) \in Nat
      /\ \A i \in 1..Len(w) : s[i] = IF w[i].kind \in {"event", "final"} THEN w[i].ev ELSE NoEvent
  BY HeardSeq
<1>5. /\ Heard(v) \in Seq(Told) /\ Len(Heard(v)) = Len(v)
      /\ \A i \in 1..Len(v) : Heard(v)[i] = IF v[i].kind \in {"event", "final"} THEN v[i].ev ELSE NoEvent
  BY <1>1, HeardSeq
<1> HIDE DEF v, s, t
<1>6. /\ s \o t \in Seq(Told) /\ Len(s \o t) = Len(w) + 1
      /\ \A i \in 1..(Len(w) + 1) : (s \o t)[i] = IF i <= Len(w) THEN s[i] ELSE t[i - Len(w)]
  <2>1. /\ s \o t \in Seq(Told) /\ Len(s \o t) = Len(s) + Len(t)
        /\ \A i \in 1..(Len(s) + Len(t)) : (s \o t)[i] = IF i <= Len(s) THEN s[i] ELSE t[i - Len(s)]
    BY <1>3, <1>4, ConcatProperties
  <2>2. Len(s) = Len(w) /\ Len(t) = 1
    BY <1>3, <1>4
  <2>. QED
    BY <2>1, <2>2
<1>7. \A i \in 1..(Len(w) + 1) : Heard(v)[i] = (s \o t)[i]
  <2>. SUFFICES ASSUME NEW i \in 1..(Len(w) + 1) PROVE Heard(v)[i] = (s \o t)[i]
    OBVIOUS
  <2>1. CASE i <= Len(w)
    <3>1. i \in 1..Len(w)
      BY <1>4, <2>1
    <3>. QED
      BY <1>1, <1>4, <1>5, <1>6, <3>1, SMTT(30)
  <2>2. CASE ~(i <= Len(w))
    <3>1. i = Len(w) + 1 /\ i - Len(w) = 1
      BY <1>4, <2>2
    <3>. QED
      BY <1>1, <1>3, <1>5, <1>6, <2>2, <3>1
  <2>. QED
    BY <2>1, <2>2
<1>8. Heard(v) = s \o t
  BY <1>1, <1>5, <1>6, <1>7, SeqEqual
<1>. QED
  BY <1>8 DEF v, s, t

LEMMA HeardConcat ==
  ASSUME NEW w \in Seq(WireItem), NEW b \in Seq(WireItem)
  PROVE  Heard(w \o b) = Heard(w) \o Heard(b)
<1> DEFINE v == w \o b
           s == Heard(w)
           t == Heard(b)
<1>1. /\ v \in Seq(WireItem) /\ Len(v) = Len(w) + Len(b)
      /\ \A i \in 1..(Len(w) + Len(b)) : v[i] = IF i <= Len(w) THEN w[i] ELSE b[i - Len(w)]
  BY ConcatProperties
<1>2. /\ s \in Seq(Told) /\ Len(s) = Len(w) /\ Len(w) \in Nat
      /\ \A i \in 1..Len(w) : s[i] = IF w[i].kind \in {"event", "final"} THEN w[i].ev ELSE NoEvent
  BY HeardSeq
<1>3. /\ t \in Seq(Told) /\ Len(t) = Len(b) /\ Len(b) \in Nat
      /\ \A i \in 1..Len(b) : t[i] = IF b[i].kind \in {"event", "final"} THEN b[i].ev ELSE NoEvent
  BY HeardSeq
<1>4. /\ Heard(v) \in Seq(Told) /\ Len(Heard(v)) = Len(v)
      /\ \A i \in 1..Len(v) : Heard(v)[i] = IF v[i].kind \in {"event", "final"} THEN v[i].ev ELSE NoEvent
  BY <1>1, HeardSeq
<1> HIDE DEF v, s, t
<1>5. /\ s \o t \in Seq(Told) /\ Len(s \o t) = Len(s) + Len(t)
      /\ \A i \in 1..(Len(s) + Len(t)) : (s \o t)[i] = IF i <= Len(s) THEN s[i] ELSE t[i - Len(s)]
  <2>1. s \in Seq(Told) /\ t \in Seq(Told)
    BY <1>2, <1>3
  <2>. QED
    BY <2>1, ConcatProperties
<1>6. \A i \in 1..Len(v) : Heard(v)[i] = (s \o t)[i]
  <2>. SUFFICES ASSUME NEW i \in 1..Len(v) PROVE Heard(v)[i] = (s \o t)[i]
    OBVIOUS
  <2>0. i \in 1..(Len(s) + Len(t)) /\ i \in 1..(Len(w) + Len(b))
    BY <1>1, <1>2, <1>3
  <2>1. CASE i <= Len(w)
    <3>1. i \in 1..Len(w) /\ v[i] = w[i] /\ (s \o t)[i] = s[i]
      BY <1>1, <1>2, <1>5, <2>0, <2>1
    <3>. QED
      BY <1>2, <1>4, <3>1
  <2>2. CASE ~(i <= Len(w))
    <3>1. i - Len(w) \in 1..Len(b) /\ v[i] = b[i - Len(w)] /\ (s \o t)[i] = t[i - Len(w)]
      BY <1>1, <1>2, <1>3, <1>5, <2>0, <2>2
    <3>. QED
      BY <1>3, <1>4, <3>1
  <2>. QED
    BY <2>1, <2>2
<1>7. Len(Heard(v)) = Len(s \o t)
  BY <1>1, <1>2, <1>3, <1>4, <1>5
<1>8. Heard(v) = s \o t
  BY <1>4, <1>5, <1>6, <1>7, SeqEqual
<1>. QED
  BY <1>8 DEF v, s, t

\* The properties read the wire through Semantic, which is what is heard of it.
LEMMA SemanticIs == Semantic = Heard(wire) /\ Semantic' = Heard(wire')
BY DEF Semantic, Heard

\* A piece that is no event says nothing.
LEMMA FormedSilent ==
  ASSUME NEW s \in Seq(Told), NEW e \in Told, e \notin SSEEvents
  PROVE  /\ WellFormed(s) => WellFormed(s \o <<e>>)
         /\ \A E : EndsIn(s, E) => EndsIn(s \o <<e>>, E)
         /\ NoEvents(s, 1, Len(s)) => NoEvents(s \o <<e>>, 1, Len(s) + 1)
<1> DEFINE t == <<e>>
           v == s \o t
<1>1. t \in Seq(Told) /\ Len(t) = 1 /\ t[1] = e
  OBVIOUS
<1> HIDE DEF t
<1>2. /\ Len(s) \in Nat /\ Len(v) = Len(s) + 1 /\ v[Len(s) + 1] = e
      /\ \A i \in 1..Len(s) : v[i] = s[i]
  <2>1. /\ Len(s) \in Nat /\ Len(v) = Len(s) + 1
        /\ \A i \in 1..(Len(s) + 1) : v[i] = IF i <= Len(s) THEN s[i] ELSE t[i - Len(s)]
    <3>1. /\ Len(v) = Len(s) + Len(t)
          /\ \A i \in 1..(Len(s) + Len(t)) : v[i] = IF i <= Len(s) THEN s[i] ELSE t[i - Len(s)]
      BY <1>1, ConcatProperties
    <3>. QED
      BY <1>1, <3>1, LenProperties
  <2> HIDE DEF v
  <2>2. Len(s) + 1 \in 1..(Len(s) + 1) /\ (Len(s) + 1) - Len(s) = 1 /\ ~(Len(s) + 1 <= Len(s))
    BY <2>1
  <2>. QED
    BY <1>1, <2>1, <2>2
<1> HIDE DEF v
<1>3. \A i, j \in Nat : i >= 1 /\ j <= Len(s) /\ NoEvents(s, i, j) => NoEvents(v, i, j)
  <2>. SUFFICES ASSUME NEW i \in Nat, NEW j \in Nat, i >= 1, j <= Len(s), NoEvents(s, i, j), NEW k \in i..j
                PROVE  v[k] \notin SSEEvents
    BY DEF NoEvents
  <2>1. k \in 1..Len(s)
    BY <1>2
  <2>. QED
    BY <1>2, <2>1 DEF NoEvents
<1>4. \A i \in Nat : i >= 1 /\ NoEvents(s, i, Len(s)) => NoEvents(v, i, Len(v))
  BY <1>2 DEF NoEvents
<1>5. ASSUME WellFormed(s), NEW i \in 1..Len(v), v[i] \in SSEEvents
      PROVE  \/ v[i] = "message_start" /\ NoEvents(v, 1, i - 1)
             \/ \E j \in 1..(i - 1) : v[j] \in MayPrecede(v[i]) /\ NoEvents(v, j + 1, i - 1)
  <2>1. i \in 1..Len(s) /\ v[i] = s[i] /\ i - 1 \in Nat /\ i - 1 <= Len(s)
    BY <1>2, <1>5
  <2>2. CASE s[i] = "message_start" /\ NoEvents(s, 1, i - 1)
    BY <1>3, <2>1, <2>2
  <2>3. ASSUME NEW j \in 1..(i - 1), s[j] \in MayPrecede(s[i]), NoEvents(s, j + 1, i - 1)
        PROVE  v[j] \in MayPrecede(v[i]) /\ NoEvents(v, j + 1, i - 1)
    <3>1. v[j] = s[j] /\ j + 1 \in Nat
      BY <1>2, <2>1
    <3>. QED
      BY <1>3, <2>1, <2>3, <3>1
  <2>. QED
    BY <1>5, <2>1, <2>2, <2>3 DEF WellFormed
<1>6. WellFormed(s) => WellFormed(v)
  BY <1>5 DEF WellFormed
<1>7. ASSUME NEW E, EndsIn(s, E) PROVE EndsIn(v, E)
  <2>1. PICK i \in 1..Len(s) : s[i] \in E /\ NoEvents(s, i + 1, Len(s))
    BY <1>7 DEF EndsIn
  <2>2. i \in 1..Len(v) /\ v[i] = s[i] /\ i + 1 \in Nat /\ i + 1 >= 1
    BY <1>2
  <2>3. NoEvents(v, i + 1, Len(v))
    BY <1>4, <2>1, <2>2
  <2>. QED
    BY <2>1, <2>2, <2>3 DEF EndsIn
<1>8. NoEvents(s, 1, Len(s)) => NoEvents(v, 1, Len(s) + 1)
  BY <1>2, <1>4
<1>. QED
  BY <1>6, <1>7, <1>8 DEF v, t

-----------------------------------------------------------------------------
(* What the session's steps do to the stream *)

\* The wire stays, or gets a keep-alive or a bare error behind it.
WireCalm == wire' = wire \/ \E x \in WireItem : x.kind \notin {"event", "final"} /\ wire' = Append(wire, x)

LEMMA QuietWire ==
  ASSUME wire \in Seq(WireItem), WireCalm
  PROVE  /\ WellFormed(Semantic) => WellFormed(Semantic')
         /\ \A E : EndsIn(Semantic, E) => EndsIn(Semantic', E)
         /\ \A m : Leads(Told, "", Heard(wire), m) => Leads(Told, "", Heard(wire'), m)
         /\ \A K : (\E i \in 1..Len(wire) : wire[i].kind \in K) => \E i \in 1..Len(wire') : wire'[i].kind \in K
<1>1. CASE wire' = wire
  BY <1>1, SemanticIs
<1>2. CASE \E x \in WireItem : x.kind \notin {"event", "final"} /\ wire' = Append(wire, x)
  <2>1. PICK x \in WireItem : x.kind \notin {"event", "final"} /\ wire' = Append(wire, x)
    BY <1>2
  <2>2. Heard(wire') = Heard(wire) \o <<NoEvent>>
    BY <2>1, HeardAppend
  <2>3. Heard(wire) \in Seq(Told) /\ NoEvent \in Told /\ NoEvent \notin SSEEvents
    BY HeardSeq, Names
  <2>4. \A m : Leads(Told, m, <<NoEvent>>, m)
    BY <2>3, LeadsSilent
  <2>5. \A m : Leads(Told, "", Heard(wire), m) => Leads(Told, "", Heard(wire'), m)
    BY <2>2, <2>4, LeadsConcat
  <2>6. Len(wire') = Len(wire) + 1 /\ Len(wire) \in Nat /\ \A i \in 1..Len(wire) : wire'[i] = wire[i]
    BY <2>1, AppendProperties, LenProperties
  <2>7. ASSUME NEW K, NEW i \in 1..Len(wire), wire[i].kind \in K
        PROVE  \E j \in 1..Len(wire') : wire'[j].kind \in K
    <3>1. i \in 1..Len(wire') /\ wire'[i] = wire[i]
      BY <2>6
    <3>. QED
      BY <2>7, <3>1
  <2>8. /\ WellFormed(Semantic) => WellFormed(Semantic')
        /\ \A E : EndsIn(Semantic, E) => EndsIn(Semantic', E)
    BY <2>2, <2>3, FormedSilent, SemanticIs
  <2>. QED
    BY <2>5, <2>7, <2>8
<1>. QED
  BY <1>1, <1>2 DEF WireCalm

\* Steps that send no event and leave the buffer alone.
Calm == WireCalm /\ UNCHANGED <<promoted, buf>> /\ (firstErr => firstErr') /\ (ctxDone => ctxDone')

LEMMA CalmSteps ==
  ASSUME \/ SetSSEHeaders \/ Start \/ Flush \/ FinalErrorBegin \/ FinalErrorEnd
         \/ HeartbeatStep \/ Tick \/ ClientGone \/ StopStep \/ UNCHANGED vars
  PROVE  Calm
<1>1. CASE WriteKeepAlive
  <2>1. UNCHANGED <<promoted, buf>>
    BY <1>1 DEF WriteKeepAlive
  <2>2. \/ UNCHANGED <<wire, firstErr, ctxDone>>
        \/ /\ ~unavailableLocked
           /\ \E r \in FlushOutcome : writeSocketLocked(WithKeepAlive, wire, r)
    BY <1>1 DEF WriteKeepAlive
  <2>3. ASSUME ~unavailableLocked, NEW r \in FlushOutcome, writeSocketLocked(WithKeepAlive, wire, r)
        PROVE  wire' \in {wire, Append(wire, KeepAlive)} /\ ~firstErr /\ ~ctxDone
    BY <2>3 DEF writeSocketLocked, FlushOutcome, WithKeepAlive, unavailableLocked
  <2>4. KeepAlive \in WireItem /\ KeepAlive.kind \notin {"event", "final"}
    BY ItemTypes, ItemKinds
  <2>. QED
    BY <2>1, <2>2, <2>3, <2>4 DEF Calm, WireCalm
<1>2. CASE Flush
  BY <1>2 DEF Flush, Calm, WireCalm
<1>3. CASE SetSSEHeaders \/ Start \/ FinalErrorBegin \/ FinalErrorEnd \/ HeartbeatTop \/ HeartbeatSelect
           \/ Tick \/ ClientGone \/ StopStep \/ UNCHANGED vars
  BY <1>3
  DEF SetSSEHeaders, Start, FinalErrorBegin, FinalErrorEnd, HeartbeatTop, HeartbeatSelect, Tick, ClientGone,
      StopStep, StopMark, StopSignal, StopReturn, vars, flags, Calm, WireCalm
<1>. QED
  BY <1>1, <1>2, <1>3 DEF HeartbeatStep

LEMMA CalmStands ==
  ASSUME wire \in Seq(WireItem), Calm, NEW m, Stands(m)
  PROVE  Stands(m)'
<1>1. Leads(Told, "", Heard(wire), m) => Leads(Told, "", Heard(wire'), m)
  BY QuietWire DEF Calm
<1>2. promoted' = promoted /\ buf' = buf
  BY DEF Calm
<1>. QED
  BY <1>1, <1>2 DEF Stands

\* The beginning of a well-formed buffer behind a wire without events is well formed.
LEMMA FormedBehindSilence ==
  ASSUME NEW w \in Seq(WireItem), SemanticAt(w) = {}, NEW b \in Seq(WireItem), WellFormed(Heard(b)),
         NEW k \in 0..Len(b)
  PROVE  WellFormed(Heard(w \o SubSeq(b, 1, k)))
<1> DEFINE v == w \o SubSeq(b, 1, k)
           h == Heard(v)
           t == Heard(b)
           l == Len(w)
<1>1. /\ v \in Seq(WireItem) /\ Len(v) = l + k
      /\ \A i \in 1..(l + k) : v[i] = IF i <= l THEN w[i] ELSE b[i - l]
  BY TornConcat
<1>2. /\ l \in Nat /\ Len(b) \in Nat /\ k \in Nat /\ k <= Len(b) /\ Len(t) = Len(b)
      /\ \A i \in 1..Len(b) : t[i] = IF b[i].kind \in {"event", "final"} THEN b[i].ev ELSE NoEvent
  BY HeardSeq
<1> HIDE DEF v
<1>3. /\ Len(h) = l + k
      /\ \A i \in 1..(l + k) : h[i] = IF v[i].kind \in {"event", "final"} THEN v[i].ev ELSE NoEvent
  BY <1>1, HeardSeq
<1> HIDE DEF h, t
<1>4. \A i \in 1..l : h[i] \notin SSEEvents
  <2>. SUFFICES ASSUME NEW i \in 1..l PROVE h[i] \notin SSEEvents
    OBVIOUS
  <2>1. w[i].kind \notin {"event", "final"} /\ i \in 1..(l + k) /\ i <= l
    BY <1>2 DEF SemanticAt
  <2>. QED
    BY <1>1, <1>3, <2>1, Names
<1>5. \A i \in 1..k : l + i \in 1..(l + k) /\ h[l + i] = t[i]
  <2>. SUFFICES ASSUME NEW i \in 1..k PROVE l + i \in 1..(l + k) /\ h[l + i] = t[i]
    OBVIOUS
  <2>1. l + i \in 1..(l + k) /\ ~(l + i <= l) /\ (l + i) - l = i /\ i \in 1..Len(b)
    BY <1>2
  <2>2. v[l + i] = b[i]
    BY <1>1, <2>1
  <2>. QED
    BY <1>2, <1>3, <2>1, <2>2
<1>6. \A i, j \in Nat : i >= 1 /\ j <= k /\ NoEvents(t, i, j) => NoEvents(h, l + i, l + j)
  <2>. SUFFICES ASSUME NEW i \in Nat, NEW j \in Nat, i >= 1, j <= k, NoEvents(t, i, j), NEW n \in (l + i)..(l + j)
                PROVE  h[n] \notin SSEEvents
    BY DEF NoEvents
  <2>1. n - l \in i..j /\ n - l \in 1..k /\ l + (n - l) = n
    BY <1>2
  <2>2. h[n] = t[n - l]
    BY <1>5, <2>1
  <2>. QED
    BY <2>1, <2>2 DEF NoEvents
<1>7. ASSUME NEW n \in 1..(l + k), h[n] \in SSEEvents
      PROVE  \/ h[n] = "message_start" /\ NoEvents(h, 1, n - 1)
             \/ \E j \in 1..(n - 1) : h[j] \in MayPrecede(h[n]) /\ NoEvents(h, j + 1, n - 1)
  <2>1. ~(n <= l)
    BY <1>2, <1>4, <1>7
  <2> DEFINE i == n - l
  <2>2. /\ i \in 1..k /\ l + i = n /\ i \in 1..Len(b) /\ i - 1 \in Nat /\ i - 1 <= k
        /\ l + (i - 1) = n - 1 /\ 1 \in Nat
    BY <1>2, <2>1
  <2> HIDE DEF i
  <2>3. h[n] = t[i]
    BY <1>5, <2>2
  <2>4. CASE t[i] = "message_start" /\ NoEvents(t, 1, i - 1)
    <3>1. NoEvents(h, l + 1, n - 1)
      BY <1>6, <2>2, <2>4
    <3>2. NoEvents(h, 1, n - 1)
      BY <1>2, <1>4, <3>1 DEF NoEvents
    <3>. QED
      BY <2>3, <2>4, <3>2
  <2>5. ASSUME NEW j \in 1..(i - 1), t[j] \in MayPrecede(t[i]), NoEvents(t, j + 1, i - 1)
        PROVE  l + j \in 1..(n - 1) /\ h[l + j] \in MayPrecede(h[n]) /\ NoEvents(h, (l + j) + 1, n - 1)
    <3>1. l + j \in 1..(n - 1) /\ j \in 1..k /\ j + 1 \in Nat /\ j + 1 >= 1 /\ l + (j + 1) = (l + j) + 1
      BY <1>2, <2>2
    <3>2. h[l + j] = t[j]
      BY <1>5, <3>1
    <3>3. NoEvents(h, l + (j + 1), l + (i - 1))
      BY <1>6, <2>2, <2>5, <3>1
    <3>. QED
      BY <2>2, <2>3, <2>5, <3>1, <3>2, <3>3
  <2>6. \/ t[i] = "message_start" /\ NoEvents(t, 1, i - 1)
        \/ \E j \in 1..(i - 1) : t[j] \in MayPrecede(t[i]) /\ NoEvents(t, j + 1, i - 1)
    BY <1>2, <1>7, <2>2, <2>3 DEF WellFormed, t
  <2>. QED
    BY <2>4, <2>5, <2>6
<1>8. WellFormed(h)
  BY <1>3, <1>7 DEF WellFormed
<1>. QED
  BY <1>8 DEF h, v

\* Promotion: the attempt is on the wire, or the connection broke.
LEMMA PromoteStory ==
  ASSUME SessionInv, Promote, NEW m, Stands(m)
  PROVE  promoted' /\ WellFormed(Semantic') /\ (~firstErr' => Stands(m)')
<1>1. wire \in Seq(WireItem) /\ buf \in Seq(WireItem) /\ ~promoted /\ promoted'
  BY DEF SessionInv, TypeOK, DataOK, Promote
<1>2. SemanticAt(wire) = {}
  BY <1>1 DEF SessionInv, OrderInv
<1>3. Leads(Told, "", Heard(buf), m)
  BY <1>1 DEF Stands
<1>4. PICK k \in 0..Len(buf) : wire' = wire \o SubSeq(buf, 1, k) /\ (~firstErr' => k = Len(buf))
  BY <1>1, PromotedBatch
<1>5. WellFormed(Heard(buf))
  BY <1>3, LeadsWellFormed
<1>6. WellFormed(Semantic')
  BY <1>1, <1>2, <1>4, <1>5, FormedBehindSilence, SemanticIs
<1>7. ASSUME ~firstErr' PROVE Stands(m)'
  <2>1. wire' = wire \o buf
    BY <1>1, <1>4, <1>7, SubSeqFull
  <2>2. Heard(wire') = Heard(wire) \o Heard(buf)
    BY <1>1, <2>1, HeardConcat
  <2>3. /\ Heard(wire) \in Seq(Told) /\ Len(Heard(wire)) = Len(wire)
        /\ \A i \in 1..Len(wire) : Heard(wire)[i] = NoEvent
    BY <1>1, <1>2, HeardSeq DEF SemanticAt
  <2>4. Leads(Told, "", Heard(wire), "")
    BY <2>3, Names DEF Leads, NoEvents
  <2>5. Leads(Told, "", Heard(wire'), m)
    BY <1>3, <2>2, <2>4, LeadsConcat
  <2>. QED
    BY <1>1, <2>5 DEF Stands
<1>. QED
  BY <1>1, <1>6, <1>7

\* A semantic write: the event is accepted, or the connection broke.
LEMMA WriteStory ==
  ASSUME SessionInv, NEW e \in Events, Write(e), NEW m, NEW n, Stands(m), Leads(Told, m, <<e>>, n),
         WellFormed(Semantic)
  PROVE  promoted' = promoted /\ WellFormed(Semantic') /\ (~firstErr' => Stands(n)')
<1> DEFINE item == Item(IF finalizing THEN "final" ELSE "event", e, attempt, written + 1)
<1>1. /\ wire \in Seq(WireItem) /\ buf \in Seq(WireItem) /\ attempt \in Nat /\ written + 1 \in Nat
      /\ promoted' = promoted /\ ~firstErr
  BY SessionAssumption DEF SessionInv, TypeOK, DataOK, Write, unavailableLocked
<1>2. item \in WireItem /\ item.kind \in {"event", "final"} /\ item.ev = e
  <2>1. item.kind \in {"event", "final"} /\ item.ev = e
    BY DEF Item
  <2>. QED
    BY <1>1, <2>1, ItemTypes
<1>3. \/ ~promoted /\ buf' = Append(buf, item) /\ wire' = wire
      \/ promoted /\ wire' = Append(wire, item)
      \/ promoted /\ wire' = wire /\ firstErr'
  <2>1. CASE ~promoted
    BY <2>1 DEF Write
  <2>2. CASE promoted
    <3>1. PICK r \in WriteOutcome : writeSocketLocked(Append(wire, item), wire, r)
      BY <2>2 DEF Write
    <3>. QED
      BY <2>2, <3>1 DEF writeSocketLocked, WriteOutcome
  <2>. QED
    BY <2>1, <2>2
<1> HIDE DEF item
<1>4. CASE ~promoted /\ buf' = Append(buf, item) /\ wire' = wire
  <2>1. Heard(buf') = Heard(buf) \o <<e>>
    BY <1>1, <1>2, <1>4, HeardAppend
  <2>2. Leads(Told, "", Heard(buf'), n)
    BY <1>4, <2>1, LeadsConcat DEF Stands
  <2>. QED
    BY <1>1, <1>4, <2>2, SemanticIs DEF Stands
<1>5. CASE promoted /\ wire' = Append(wire, item)
  <2>1. Heard(wire') = Heard(wire) \o <<e>>
    BY <1>1, <1>2, <1>5, HeardAppend
  <2>2. Leads(Told, "", Heard(wire'), n)
    BY <1>5, <2>1, LeadsConcat DEF Stands
  <2>3. WellFormed(Heard(wire'))
    BY <2>2, LeadsWellFormed
  <2>. QED
    BY <1>1, <1>5, <2>2, <2>3, SemanticIs DEF Stands
<1>6. CASE promoted /\ wire' = wire /\ firstErr'
  BY <1>1, <1>6, SemanticIs
<1>. QED
  BY <1>3, <1>4, <1>5, <1>6

-----------------------------------------------------------------------------
(* The exchange runs the session *)

\* The events the handler writes are the session's.
LEMMA NextOperation ==
  ASSUME todo \in Seq(Operations), todo # <<>>
  PROVE  /\ Head(todo) \in Operations /\ Tail(todo) \in Seq(Operations)
         /\ Head(todo) # "promote" => Head(todo) \in Events
         /\ Promotes(Tail(todo)) => Promotes(todo)
         /\ Head(todo) = "promote" => Promotes(todo)
<1>1. /\ Head(todo) \in Operations /\ Tail(todo) \in Seq(Operations) /\ Len(Tail(todo)) = Len(todo) - 1
      /\ \A i \in 1..Len(Tail(todo)) : Tail(todo)[i] = todo[i + 1]
  BY HeadTailProperties
<1>2. Len(todo) \in Nat /\ 1 \in 1..Len(todo) /\ Head(todo) = todo[1]
  BY LenProperties, EmptySeq
<1>3. \A i \in 1..Len(Tail(todo)) : i + 1 \in 1..Len(todo)
  BY <1>1, <1>2
<1>4. Promotes(Tail(todo)) => Promotes(todo)
  BY <1>1, <1>3 DEF Promotes
<1>. QED
  BY <1>1, <1>2, <1>4, Names DEF Promotes

LEMMA ExchangeStep ==
  ASSUME ExchangeTypeOK, [ExchangeNext]_allVars
  PROVE  [Next]_vars
<1>1. CASE UNCHANGED vars
  BY <1>1
<1>2. CASE EmitWrite
  <2>1. UNCHANGED vars \/ (todo # <<>> /\ Head(todo) # "promote" /\ Write(Head(todo)))
    BY <1>2 DEF EmitWrite
  <2>2. ASSUME todo # <<>>, Head(todo) # "promote", Write(Head(todo)) PROVE Next
    <3>1. Head(todo) \in Events
      BY <2>2, NextOperation DEF ExchangeTypeOK
    <3>. QED
      BY <2>2, <3>1 DEF Next, HandlerStep
  <2>. QED
    BY <2>1, <2>2
<1>3. CASE EmitFlush \/ EmitPromote \/ Deliver \/ DiscardAttempt \/ CallSucceeds \/ StartSession
  <2>1. UNCHANGED vars \/ Flush \/ Promote \/ Discard \/ SetSSEHeaders \/ Start
    BY <1>3 DEF EmitFlush, EmitPromote, Deliver, DiscardAttempt, CallSucceeds, StartSession
  <2>. QED
    BY <2>1 DEF Next, HandlerStep
<1>4. CASE FinalError \/ FinalErrorReturns
  <2>1. UNCHANGED vars \/ FinalErrorBegin \/ FinalErrorSSE \/ FinalErrorJSON \/ FinalErrorEnd
    BY <1>4 DEF FinalError, FinalErrorReturns
  <2>. QED
    BY <2>1 DEF Next, HandlerStep, WriteFinalError
<1>5. CASE Surroundings
  <2>1. HeartbeatStep \/ Tick \/ ClientGone \/ StopStep \/ Done
    BY <1>5 DEF Surroundings, StopStep
  <2>. QED
    BY <2>1 DEF Next
<1>6. CASE CallFails \/ GiveUp \/ Frame \/ EndOfStream \/ (\E kind \in {"retryable", "rejected"} : ErrorFrame(kind))
           \/ EmitDone \/ Judge \/ Accept \/ Retry
  <2>1. UNCHANGED vars
    BY <1>6 DEF CallFails, GiveUp, Frame, EndOfStream, ErrorFrame, EmitDone, Judge, Accept, Retry
  <2>. QED
    BY <2>1
<1>7. CASE UNCHANGED allVars
  BY <1>7 DEF allVars
<1>. QED
  BY <1>2, <1>3, <1>4, <1>5, <1>6, <1>7 DEF ExchangeNext, Step

\* A failure of the connection, and a cancelled context, stay.
LEMMA FailuresStay ==
  ASSUME [Next]_vars
  PROVE  (firstErr => firstErr') /\ (ctxDone => ctxDone')
<1>1. CASE Promote \/ \E e \in Events : Write(e)
  BY <1>1 DEF Promote, Write, unavailableLocked
<1>2. CASE WriteFinalError
  BY <1>2 DEF WriteFinalError, FinalErrorBegin, FinalErrorEnd, FinalErrorSSE, FinalErrorJSON, unavailableLocked, flags
<1>3. CASE Discard \/ WriteHeader
  BY <1>3 DEF Discard, WriteHeader, flags
<1>4. CASE \/ SetSSEHeaders \/ Start \/ Flush \/ HeartbeatStep \/ Tick \/ ClientGone \/ StopStep \/ UNCHANGED vars
  BY <1>4, CalmSteps DEF Calm
<1>. QED
  BY <1>1, <1>2, <1>3, <1>4 DEF Next, HandlerStep, Done

\* The handler's steps leave the end of the session alone.
LEMMA SessionGoesOn ==
  ASSUME \/ SetSSEHeaders \/ Start \/ Flush \/ Promote \/ Discard \/ FinalErrorBegin \/ UNCHANGED vars
         \/ \E e : Write(e)
         \/ HeartbeatStep \/ Tick \/ ClientGone
  PROVE  UNCHANGED <<stopper, stopped, finalized>>
<1>1. CASE \E e : Write(e)
  BY <1>1 DEF Write
<1>2. CASE HeartbeatStep
  BY <1>2 DEF HeartbeatStep, HeartbeatTop, HeartbeatSelect, WriteKeepAlive
<1>3. CASE SetSSEHeaders \/ Start \/ Flush \/ Promote \/ Discard \/ FinalErrorBegin \/ UNCHANGED vars \/ Tick \/ ClientGone
  BY <1>3 DEF SetSSEHeaders, Start, Flush, Promote, Discard, FinalErrorBegin, vars, Tick, ClientGone
<1>. QED
  BY <1>1, <1>2, <1>3

-----------------------------------------------------------------------------
(* Every action keeps the invariant *)

LEMMA LeadsEmpty ==
  ASSUME NEW K, NEW p, NEW q, Leads(K, p, <<>>, q)
  PROVE  q = p
BY Len(<<>>) = 0 DEF Leads, EndsIn

\* An attempt that has not begun stands at the beginning.
LEMMA FreshStory ==
  ASSUME buf' = <<>>, ~promoted'
  PROVE  Stands("")'
<1>1. Heard(<<>>) = <<>>
  <2>1. Heard(<<>>) \in Seq(Told) /\ Len(Heard(<<>>)) = 0
    BY HeardSeq, EmptySeq, Len(<<>>) = 0
  <2>. QED
    BY <2>1, EmptySeq
<1>2. Leads(Told, "", <<>>, "")
  BY LeadsNone
<1>. QED
  BY <1>1, <1>2 DEF Stands

Quiet == {"call", "retry", "fail", "done"}

\* While the handler waits for nothing of its own, the stream is where it is meant to be.
LEMMA Standing ==
  ASSUME ExchInv, hpc \notin Quiet, ~firstErr, ~sw.err
  PROVE  /\ \E m \in Places : \E q \in Places : Stands(m) /\ Leads(Told, m, todo, q) /\ Meant(q)
         /\ hpc # "emit" => \E m \in Places : Stands(m) /\ Meant(m)
<1>1. PICK m \in Places : \E q \in Places : Stands(m) /\ Leads(Told, m, todo, q) /\ Meant(q)
  BY DEF ExchInv, StoryInv, Quiet
<1>2. PICK q \in Places : Stands(m) /\ Leads(Told, m, todo, q) /\ Meant(q)
  BY <1>1
<1>3. hpc # "emit" => q = m
  BY <1>2, LeadsEmpty DEF ExchInv, ControlInv
<1>. QED
  BY <1>1, <1>2, <1>3

LEMMA StoryStep ==
  ASSUME NEW m \in Places, NEW q \in Places, Stands(m)', Leads(Told, m, todo', q), Meant(q)', WellFormed(Semantic')
  PROVE  StoryInv'
BY DEF StoryInv

LEMMA StoryStill ==
  ASSUME NEW m \in Places, Stands(m)', todo' = <<>>, Meant(m)', WellFormed(Semantic')
  PROVE  StoryInv'
BY LeadsNone, StoryStep

\* With an error, or with nothing to stand, only what the client has heard counts.
LEMMA StoryOver ==
  ASSUME WellFormed(Semantic'), hpc' \in Quiet \/ firstErr' \/ sw'.err
  PROVE  StoryInv'
BY DEF StoryInv, Quiet

\* An answer is due once the handler is done.
LEMMA NotYet == ASSUME hpc' # "done" \/ firstErr' \/ ctxDone' PROVE EveryRequestAnswered'
BY DEF EveryRequestAnswered

LEMMA SessionTypes ==
  ASSUME SessionInv
  PROVE  /\ wire \in Seq(WireItem) /\ buf \in Seq(WireItem)
         /\ firstErr \in BOOLEAN /\ ctxDone \in BOOLEAN /\ promoted \in BOOLEAN
BY DEF SessionInv, TypeOK, FlagsOK, DataOK

LEMMA CallStep == ASSUME ExchInv, SessionInv, CallFails PROVE ExchInv'
<1>1. /\ hpc = "call" /\ hpc' = "fail" /\ UNCHANGED vars
      /\ UNCHANGED <<calls, seen, drains, sw, acc, todo, flushDue, after>>
  BY DEF CallFails
<1>2. UNCHANGED <<stopper, stopped, finalized, buf, promoted, wire, firstErr, ctxDone>>
  BY <1>1 DEF vars, flags
<1>3. ExchangeTypeOK'
  BY <1>1 DEF ExchInv, ExchangeTypeOK
<1>4. ControlInv'
  BY <1>1, <1>2 DEF ExchInv, ControlInv, ClosingError
<1>5. GateInv'
  BY <1>1, <1>2 DEF ExchInv, GateInv
<1>6. StoryInv'
  BY <1>1, <1>2, StoryOver, SemanticIs DEF Quiet, ExchInv, StoryInv
<1>. QED
  BY <1>1, <1>3, <1>4, <1>5, <1>6, NotYet DEF ExchInv

LEMMA NewWriterIs ==
  /\ NewWriter \in Writers /\ NewAccumulator \in Accumulators /\ At(NewWriter, "") /\ "" \in Places
  /\ ~NewWriter.err /\ Idle(NewWriter)
BY EventNames, TextSteps DEF NewWriter, NewAccumulator, Writers, Accumulators, NextText, At, Idle, Places

LEMMA SucceedStep == ASSUME ExchInv, SessionInv, CallSucceeds PROVE ExchInv'
<1>1. /\ hpc = "call" /\ hpc' = "start" /\ sw' = NewWriter /\ acc' = NewAccumulator /\ seen' = 0
      /\ UNCHANGED <<calls, drains, todo, flushDue, after>>
      /\ SetSSEHeaders \/ UNCHANGED vars
  BY DEF CallSucceeds
<1>2. Calm /\ UNCHANGED <<stopper, stopped, finalized>>
  BY <1>1, CalmSteps, SessionGoesOn
<1>3. /\ buf' = <<>> /\ ~promoted' /\ todo' = <<>> /\ todo = <<>>
      /\ stopper = "idle" /\ ~stopped /\ ~finalized
  BY <1>1, <1>2 DEF Calm, ExchInv, ControlInv
<1>4. ExchangeTypeOK'
  <2>1. 0 \in 0..MaxFrames
    BY ExchangeAssumption
  <2>2. NewWriter \in Writers /\ NewAccumulator \in Accumulators
    BY NewWriterIs
  <2>. QED
    BY <1>1, <2>1, <2>2 DEF ExchInv, ExchangeTypeOK
<1>5. ControlInv'
  BY <1>1, <1>2, <1>3, NewWriterIs DEF ControlInv, ClosingError
<1>6. GateInv'
  <2>1. ~Promotes(todo')
    BY <1>3, PromotesOf
  <2>. QED
    BY <1>1, <1>3, <2>1 DEF GateInv
<1>7. StoryInv'
  <2>1. Meant("")'
    BY <1>1, NewWriterIs DEF Meant, ClosingError, Completing
  <2>2. WellFormed(Semantic')
    BY <1>2, QuietWire, SessionTypes DEF Calm, ExchInv, StoryInv
  <2>. QED
    BY <1>3, <2>1, <2>2, FreshStory, StoryStill, NewWriterIs
<1>. QED
  BY <1>1, <1>4, <1>5, <1>6, <1>7, NotYet DEF ExchInv

\* A stream leads to a place in it, or stays.
LEMMA LeadsPlaces ==
  ASSUME NEW K, NEW p \in Places, NEW s, NEW q, Leads(K, p, s, q)
  PROVE  q \in Places
BY DEF Leads, Places

\* Where the stream stands and what is meant are unchanged by a step that moves neither
\* the session nor what decides on the meaning.
LEMMA StoryKept ==
  ASSUME ExchInv, SessionInv, Calm, hpc \notin Quiet, todo' = todo, ~firstErr', ~sw.err,
         \A q \in Places : Meant(q) => Meant(q)'
  PROVE  StoryInv'
<1>1. ~firstErr
  BY DEF Calm
<1>2. PICK m \in Places : \E q \in Places : Stands(m) /\ Leads(Told, m, todo, q) /\ Meant(q)
  BY <1>1, Standing
<1>3. PICK q \in Places : Stands(m) /\ Leads(Told, m, todo, q) /\ Meant(q)
  BY <1>2
<1>4. Stands(m)' /\ Leads(Told, m, todo', q) /\ Meant(q)'
  BY <1>3, CalmStands, SessionTypes
<1>5. WellFormed(Semantic')
  BY QuietWire, SessionTypes DEF Calm, ExchInv, StoryInv
<1>. QED
  BY <1>4, <1>5, StoryStep

LEMMA CalmFormed ==
  ASSUME ExchInv, SessionInv, Calm
  PROVE  WellFormed(Semantic')
BY QuietWire, SessionTypes DEF Calm, ExchInv, StoryInv

LEMMA StartStep == ASSUME ExchInv, SessionInv, StartSession PROVE ExchInv'
<1>1. /\ hpc = "start" /\ hpc' = "parse"
      /\ UNCHANGED <<calls, seen, drains, sw, acc, todo, flushDue, after>>
      /\ Start \/ UNCHANGED vars
  BY DEF StartSession
<1>2. Calm /\ UNCHANGED <<stopper, stopped, finalized>>
  BY <1>1, CalmSteps, SessionGoesOn
<1>3. ExchangeTypeOK'
  BY <1>1 DEF ExchInv, ExchangeTypeOK
<1>4. ~promoted /\ todo = <<>> /\ sw = NewWriter /\ ~sw.err /\ Idle(sw)
  BY <1>1, NewWriterIs DEF ExchInv, ControlInv
<1>5. ControlInv'
  BY <1>1, <1>2, <1>4 DEF Calm, ExchInv, ControlInv, ClosingError
<1>6. GateInv'
  BY <1>1, <1>2, <1>4, PromotesOf DEF Calm, GateInv
<1>7. StoryInv'
  <2>1. CASE firstErr'
    BY <1>2, <2>1, CalmFormed, StoryOver
  <2>2. CASE ~firstErr'
    <3>1. \A q \in Places : Meant(q) => Meant(q)'
      BY <1>1 DEF Meant, ClosingError, Completing
    <3>. QED
      BY <1>1, <1>2, <1>4, <2>2, <3>1, StoryKept DEF Quiet
  <2>. QED
    BY <2>1, <2>2
<1>. QED
  BY <1>1, <1>3, <1>5, <1>6, <1>7, NotYet DEF ExchInv

LEMMA GiveUpStep == ASSUME ExchInv, SessionInv, GiveUp PROVE ExchInv'
<1>1. /\ hpc \in {"parse", "judge"} /\ (sw.err \/ firstErr \/ ctxDone) /\ hpc' = "done" /\ UNCHANGED vars
      /\ UNCHANGED <<calls, seen, drains, sw, acc, todo, flushDue, after>>
  BY DEF GiveUp, Broken
<1>2. Calm /\ UNCHANGED <<stopper, stopped, finalized, firstErr, ctxDone>>
  BY <1>1, CalmSteps DEF vars, flags
<1>3. ExchangeTypeOK'
  BY <1>1 DEF ExchInv, ExchangeTypeOK
<1>4. ControlInv'
  BY <1>1, <1>2 DEF Calm, ExchInv, ControlInv, ClosingError
<1>5. GateInv'
  BY <1>1, <1>2 DEF Calm, ExchInv, GateInv, Shows, IsEmptyVisibleEndTurn, Worth
<1>6. StoryInv'
  BY <1>1, <1>2, StoryOver, CalmFormed DEF Quiet
<1>7. firstErr' \/ ctxDone'
  BY <1>1, <1>2 DEF ExchInv, ControlInv
<1>. QED
  BY <1>3, <1>4, <1>5, <1>6, <1>7, NotYet DEF ExchInv

LEMMA EndStep ==
  ASSUME ExchInv, SessionInv, EndOfStream \/ \E kind \in {"retryable", "rejected"} : ErrorFrame(kind)
  PROVE  ExchInv'
<1>1. /\ hpc = "parse" /\ ~sw.err /\ ~firstErr /\ hpc' = "judge" /\ UNCHANGED vars
      /\ after' \in {"finish", "retryable", "rejected"}
      /\ UNCHANGED <<calls, seen, drains, sw, acc, todo, flushDue>>
  BY DEF EndOfStream, ErrorFrame, Broken
<1>2. Calm /\ UNCHANGED <<stopper, stopped, finalized, firstErr, ctxDone>>
  BY <1>1, CalmSteps DEF vars, flags
<1>3. ExchangeTypeOK'
  BY <1>1 DEF ExchInv, ExchangeTypeOK
<1>4. ControlInv'
  BY <1>1, <1>2 DEF Calm, ExchInv, ControlInv, ClosingError
<1>5. GateInv'
  BY <1>1, <1>2 DEF Calm, ExchInv, GateInv
<1>6. StoryInv'
  <2>1. \A q \in Places : Meant(q) => Meant(q)'
    BY <1>1 DEF Meant, ClosingError, Completing
  <2>. QED
    BY <1>1, <1>2, <2>1, StoryKept DEF Quiet
<1>. QED
  BY <1>1, <1>3, <1>4, <1>5, <1>6, NotYet DEF ExchInv

LEMMA RetryStep == ASSUME ExchInv, SessionInv, Retry PROVE ExchInv'
<1>1. /\ hpc = "retry" /\ hpc' \in {"call", "fail"} /\ calls' \in {calls, 2} /\ UNCHANGED vars
      /\ UNCHANGED <<seen, drains, sw, acc, todo, flushDue, after>>
  BY DEF Retry
<1>2. Calm /\ UNCHANGED <<stopper, stopped, finalized, firstErr, ctxDone>>
  BY <1>1, CalmSteps DEF vars, flags
<1>3. ExchangeTypeOK'
  BY <1>1 DEF ExchInv, ExchangeTypeOK
<1>4. ControlInv'
  BY <1>1, <1>2 DEF Calm, ExchInv, ControlInv, ClosingError
<1>5. GateInv'
  BY <1>1, <1>2 DEF Calm, ExchInv, GateInv
<1>6. StoryInv'
  BY <1>1, <1>2, StoryOver, CalmFormed DEF Quiet
<1>. QED
  BY <1>1, <1>3, <1>4, <1>5, <1>6, NotYet DEF ExchInv

LEMMA SurroundingsStep == ASSUME ExchInv, SessionInv, Surroundings \/ UNCHANGED allVars PROVE ExchInv'
<1>1. UNCHANGED <<hpc, calls, seen, drains, sw, acc, todo, flushDue, after>>
  BY DEF Surroundings, handler, allVars
<1>2. \/ HeartbeatStep \/ Tick \/ ClientGone \/ UNCHANGED vars
      \/ StopStep /\ hpc = "done"
  <2>1. StopSignal \/ StopReturn \/ Done => hpc = "done"
    BY DEF ExchInv, ControlInv, StopSignal, StopReturn, Done
  <2>. QED
    BY <2>1 DEF Surroundings, Returned, StopStep, Done, allVars
<1>3. Calm /\ (hpc # "done" => UNCHANGED <<stopper, stopped, finalized>>)
  BY <1>2, CalmSteps, SessionGoesOn
<1>4. ExchangeTypeOK'
  BY <1>1 DEF ExchInv, ExchangeTypeOK
<1>5. ControlInv'
  BY <1>1, <1>3 DEF Calm, ExchInv, ControlInv, ClosingError
<1>6. GateInv'
  BY <1>1, <1>3 DEF Calm, ExchInv, GateInv
<1>7. StoryInv'
  <2>1. CASE hpc \in Quiet \/ firstErr' \/ sw.err
    BY <1>1, <1>3, <2>1, CalmFormed, StoryOver
  <2>2. CASE hpc \notin Quiet /\ ~firstErr' /\ ~sw.err
    <3>1. \A q \in Places : Meant(q) => Meant(q)'
      BY <1>1 DEF Meant, ClosingError, Completing
    <3>. QED
      BY <1>1, <1>3, <2>2, <3>1, StoryKept
  <2>. QED
    BY <2>1, <2>2
<1>8. EveryRequestAnswered'
  <2>. SUFFICES ASSUME hpc' = "done", ~firstErr', ~ctxDone'
                PROVE  \/ EndsIn(Semantic, {"message_stop", "error"})'
                       \/ \E i \in 1..Len(wire') : wire'[i].kind \in {"json_error", "sse_error"}
    BY DEF EveryRequestAnswered
  <2>1. \/ EndsIn(Semantic, {"message_stop", "error"})
        \/ \E i \in 1..Len(wire) : wire[i].kind \in {"json_error", "sse_error"}
    BY <1>1, <1>3 DEF ExchInv, EveryRequestAnswered, Calm
  <2>. QED
    BY <1>3, <2>1, QuietWire, SessionTypes DEF Calm
<1>. QED
  BY <1>4, <1>5, <1>6, <1>7, <1>8 DEF ExchInv

LEMMA FrameStep == ASSUME ExchInv, SessionInv, Frame PROVE ExchInv'
<1>1. /\ hpc = "parse" /\ ~sw.err /\ ~firstErr /\ seen < MaxFrames /\ seen' = seen + 1
      /\ hpc' = "emit" /\ UNCHANGED vars /\ UNCHANGED <<calls, drains, flushDue>>
  BY DEF Frame, Broken
<1>2. PICK r \in HandleEvent(sw, acc, drains) :
        sw' = r.w /\ acc' = r.acc /\ todo' = r.ops /\ after' = IF r.local THEN "local" ELSE "parse"
  BY DEF Frame
<1>3. Calm /\ UNCHANGED <<stopper, stopped, finalized, firstErr, ctxDone, promoted>>
  BY <1>1, CalmSteps DEF vars, flags
<1>4. PICK m \in Places : Stands(m) /\ Meant(m)
  BY <1>1, Standing DEF Quiet
<1>5. At(sw, m) /\ acc \in Accumulators
  BY <1>1, <1>4 DEF Meant, ClosingError, Completing, ExchInv, ExchangeTypeOK
<1>6. PICK q : /\ Yields(sw, acc, m, r, q) /\ r.local \in BOOLEAN
               /\ r.local => q = "message_stop" /\ r.w.started /\ r.acc.stopped
               /\ ~r.local => At(r.w, q)
  BY <1>5, HandleOK
<1>7. Leads(Told, m, todo', q) /\ todo' \in Seq(Operations)
  <2>1. Leads(Plain, m, todo', q)
    BY <1>2, <1>6 DEF Yields
  <2>2. Leads(Operations, m, todo', q)
    BY <2>1, LeadsMono, PlainNames
  <2>3. Leads(Told, m, todo', q)
    BY <2>2, LeadsMono, Names
  <2>. QED
    BY <2>2, <2>3 DEF Leads
<1>8. /\ sw' \in Writers /\ acc' \in Accumulators /\ ~sw'.err
      /\ ~sw'.started => Idle(sw')
      /\ sw.started \/ Promotes(todo') => sw'.started
      /\ Shows(acc) \/ Promotes(todo') => Shows(acc')
      /\ after' = "local" => acc'.stopped
  <2>1. /\ sw' \in Writers /\ sw'.err = sw.err /\ (sw'.started \/ (sw' = sw /\ todo' = <<>>)) /\ acc' \in Accumulators
        /\ Shows(acc) \/ Promotes(todo') => Shows(acc')
    BY <1>2, <1>6 DEF Yields
  <2>2. ~Promotes(<<>>)
    BY PromotesOf
  <2>3. ~sw'.started => Idle(sw')
    BY <1>2, <1>6 DEF At, Idle
  <2>4. after' = "local" => acc'.stopped
    BY <1>2, <1>6
  <2>. QED
    BY <1>1, <2>1, <2>2, <2>3, <2>4
<1>9. ExchangeTypeOK'
  <2>1. seen' \in 0..MaxFrames
    BY <1>1, ExchangeAssumption DEF ExchInv, ExchangeTypeOK
  <2>2. after' \in {"parse", "local"}
    BY <1>2
  <2>. QED
    BY <1>1, <1>7, <1>8, <2>1, <2>2 DEF ExchInv, ExchangeTypeOK
<1>10. ControlInv'
  BY <1>1, <1>2, <1>3, <1>8 DEF ExchInv, ControlInv, ClosingError
<1>11. GateInv'
  BY <1>1, <1>3, <1>8 DEF ExchInv, GateInv
<1>12. StoryInv'
  <2>1. Stands(m)' /\ WellFormed(Semantic')
    BY <1>3, <1>4, CalmStands, CalmFormed, SessionTypes
  <2>2. Meant(q)'
    BY <1>1, <1>2, <1>6 DEF Meant, ClosingError, Completing
  <2>3. q \in Places
    BY <1>7, LeadsPlaces
  <2>. QED
    BY <1>7, <2>1, <2>2, <2>3, StoryStep
<1>. QED
  BY <1>1, <1>9, <1>10, <1>11, <1>12, NotYet DEF ExchInv

-----------------------------------------------------------------------------
(* Running the operations *)

LEMMA FailedWriter ==
  ASSUME NEW w \in Writers
  PROVE  LET v == [w EXCEPT !.err = TRUE]
         IN v \in Writers /\ v.err /\ v.started = w.started /\ v.active = w.active
BY DEF Writers

\* A failure of the writer ends the story.
LEMMA FailStep ==
  ASSUME ExchInv, hpc = "emit", WriterFails, UNCHANGED <<hpc, calls, seen, drains, acc, after>>,
         UNCHANGED <<stopper, stopped, finalized>>, firstErr' \/ ctxDone', WellFormed(Semantic'),
         promoted => promoted', promoted' => promoted \/ Promotes(todo)
  PROVE  ExchInv'
<1>1. /\ sw' \in Writers /\ sw'.err /\ sw'.started = sw.started /\ sw'.active = sw.active
      /\ todo' = <<>> /\ flushDue' = FALSE
  BY FailedWriter DEF WriterFails, ExchInv, ExchangeTypeOK
<1>2. ExchangeTypeOK'
  BY <1>1, EmptySeq DEF ExchInv, ExchangeTypeOK
<1>3. ControlInv'
  BY <1>1 DEF ExchInv, ControlInv, ClosingError, Idle
<1>4. GateInv'
  <2>1. ~Promotes(todo')
    BY <1>1, PromotesOf
  <2>. QED
    BY <1>1, <2>1 DEF ExchInv, GateInv
<1>5. StoryInv'
  BY <1>1, StoryOver
<1>. QED
  BY <1>2, <1>3, <1>4, <1>5, NotYet DEF ExchInv

\* An operation was run: the rest of the stream is left.
LEMMA RunStep ==
  ASSUME ExchInv, hpc = "emit", todo # <<>>, todo' = Tail(todo), flushDue' \in BOOLEAN,
         UNCHANGED <<hpc, calls, seen, drains, sw, acc, after>>,
         UNCHANGED <<stopper, stopped, finalized>>, WellFormed(Semantic'),
         promoted => promoted', promoted' => promoted \/ Promotes(todo),
         NEW m \in Places, NEW q \in Places, Stands(m)', Leads(Told, m, Tail(todo), q), Meant(q)
  PROVE  ExchInv'
<1>1. todo' \in Seq(Operations) /\ ~sw.err /\ (Promotes(todo') => Promotes(todo))
  BY NextOperation DEF ExchInv, ExchangeTypeOK, ControlInv
<1>2. ExchangeTypeOK'
  <2>1. ExchangeTypeOK
    BY DEF ExchInv
  <2>. QED
    BY <1>1, <2>1 DEF ExchangeTypeOK
<1>3. ControlInv'
  BY <1>1 DEF ExchInv, ControlInv, ClosingError, Idle
<1>4. GateInv'
  BY <1>1 DEF ExchInv, GateInv
<1>5. StoryInv'
  <2>1. Meant(q)'
    BY DEF Meant, ClosingError, Completing
  <2>. QED
    BY <2>1, StoryStep
<1>. QED
  BY <1>2, <1>3, <1>4, <1>5, NotYet DEF ExchInv

LEMMA WriteStep == ASSUME ExchInv, SessionInv, EmitWrite PROVE ExchInv'
<1>1. /\ hpc = "emit" /\ todo # <<>> /\ Head(todo) # "promote"
      /\ UNCHANGED <<hpc, calls, seen, drains, acc, after>>
      /\ \/ unavailableLocked /\ WriterFails /\ UNCHANGED vars
         \/ /\ ~unavailableLocked /\ Write(Head(todo))
            /\ IF firstErr' THEN WriterFails ELSE todo' = Tail(todo) /\ flushDue' = promoted /\ UNCHANGED sw
  BY DEF EmitWrite
<1>2. UNCHANGED <<stopper, stopped, finalized>>
  BY <1>1, SessionGoesOn
<1>3. ~stopped /\ ~finalized /\ ~sw.err /\ WellFormed(Semantic)
  BY <1>1 DEF ExchInv, ControlInv, StoryInv
<1>4. CASE unavailableLocked /\ WriterFails /\ UNCHANGED vars
  <2>1. UNCHANGED <<firstErr, ctxDone, promoted>> /\ (firstErr \/ ctxDone) /\ Calm
    BY <1>3, <1>4, CalmSteps DEF unavailableLocked, vars, flags
  <2>. QED
    BY <1>1, <1>2, <1>4, <2>1, CalmFormed, FailStep
<1>5. CASE ~unavailableLocked /\ Write(Head(todo))
  <2>0. PICK h \in SSEEvents : h = Head(todo)
    BY <1>1, NextOperation, Names DEF ExchInv, ExchangeTypeOK
  <2>1. ~firstErr /\ h \in Events /\ h \in Places /\ Write(h)
    BY <1>5, <2>0, Names DEF unavailableLocked, Places
  <2>2. PICK m \in Places : \E q \in Places : Stands(m) /\ Leads(Told, m, todo, q) /\ Meant(q)
    BY <1>1, <1>3, <2>1, Standing DEF Quiet
  <2>3. PICK q \in Places : Stands(m) /\ Leads(Told, m, todo, q) /\ Meant(q)
    BY <2>2
  <2>4. Leads(Told, m, <<h>>, h) /\ Leads(Told, h, Tail(todo), q)
    BY <1>1, <2>0, <2>3, LeadsFirst
  <2>5. promoted' = promoted /\ WellFormed(Semantic') /\ (~firstErr' => Stands(h)')
    BY <1>3, <2>1, <2>3, <2>4, WriteStory
  <2>6. CASE firstErr'
    BY <1>1, <1>2, <1>5, <2>5, <2>6, FailStep
  <2>7. CASE ~firstErr'
    <3>1. todo' = Tail(todo) /\ flushDue' = promoted /\ UNCHANGED sw /\ promoted \in BOOLEAN
      BY <1>1, <1>5, <2>7, SessionTypes
    <3>2. Stands(h)' /\ Leads(Told, h, Tail(todo), q) /\ Meant(q)
      BY <2>3, <2>4, <2>5, <2>7
    <3>3. UNCHANGED <<hpc, calls, seen, drains, sw, acc, after>> /\ flushDue' \in BOOLEAN
      BY <1>1, <3>1
    <3>4. promoted' = promoted /\ WellFormed(Semantic')
      BY <2>5
    <3>5. hpc = "emit" /\ todo # <<>>
      BY <1>1
    <3>. QED
      BY <1>2, <2>1, <3>1, <3>2, <3>3, <3>4, <3>5, RunStep
  <2>. QED
    BY <2>6, <2>7
<1>. QED
  BY <1>1, <1>4, <1>5

LEMMA FlushStep == ASSUME ExchInv, SessionInv, EmitFlush PROVE ExchInv'
<1>1. /\ hpc = "emit" /\ UNCHANGED <<hpc, calls, seen, drains, acc, after>>
      /\ Flush \/ UNCHANGED vars
      /\ IF firstErr' THEN WriterFails ELSE flushDue' = FALSE /\ UNCHANGED <<sw, todo>>
  BY DEF EmitFlush
<1>2. Calm /\ UNCHANGED <<stopper, stopped, finalized>>
  BY <1>1, CalmSteps, SessionGoesOn
<1>3. WellFormed(Semantic') /\ promoted' = promoted
  BY <1>2, CalmFormed DEF Calm
<1>4. CASE firstErr'
  BY <1>1, <1>2, <1>3, <1>4, FailStep
<1>5. CASE ~firstErr'
  <2>1. ExchangeTypeOK'
    BY <1>1, <1>5 DEF ExchInv, ExchangeTypeOK
  <2>2. ControlInv'
    BY <1>1, <1>2, <1>5 DEF Calm, ExchInv, ControlInv, ClosingError, Idle
  <2>3. GateInv'
    BY <1>1, <1>3, <1>5 DEF ExchInv, GateInv
  <2>4. StoryInv'
    <3>1. CASE sw.err
      BY <1>1, <1>3, <1>5, <3>1, StoryOver
    <3>2. CASE ~sw.err
      <4>1. \A q \in Places : Meant(q) => Meant(q)'
        BY <1>1, <1>5 DEF Meant, ClosingError, Completing
      <4>. QED
        BY <1>1, <1>2, <1>5, <3>2, <4>1, StoryKept DEF Quiet
    <3>. QED
      BY <3>1, <3>2
  <2>. QED
    BY <1>1, <2>1, <2>2, <2>3, <2>4, NotYet DEF ExchInv
<1>. QED
  BY <1>4, <1>5

LEMMA PromoteStep == ASSUME ExchInv, SessionInv, EmitPromote PROVE ExchInv'
<1>1. /\ hpc = "emit" /\ todo # <<>> /\ Head(todo) = "promote"
      /\ UNCHANGED <<hpc, calls, seen, drains, acc, after>>
      /\ \/ unavailableLocked /\ WriterFails /\ UNCHANGED vars
         \/ /\ ~unavailableLocked
            /\ IF promoted THEN UNCHANGED vars ELSE Promote
            /\ IF firstErr' THEN WriterFails ELSE todo' = Tail(todo) /\ UNCHANGED <<sw, flushDue>>
  BY DEF EmitPromote
<1>2. UNCHANGED <<stopper, stopped, finalized>>
  BY <1>1, SessionGoesOn
<1>3. ~stopped /\ ~finalized /\ ~sw.err /\ WellFormed(Semantic) /\ Promotes(todo)
  BY <1>1, NextOperation DEF ExchInv, ControlInv, StoryInv, ExchangeTypeOK
<1>4. CASE unavailableLocked /\ WriterFails /\ UNCHANGED vars
  <2>1. UNCHANGED <<firstErr, ctxDone, promoted>> /\ (firstErr \/ ctxDone) /\ Calm
    BY <1>3, <1>4, CalmSteps DEF unavailableLocked, vars, flags
  <2>. QED
    BY <1>1, <1>2, <1>4, <2>1, CalmFormed, FailStep
<1>5. CASE /\ ~unavailableLocked
           /\ IF promoted THEN UNCHANGED vars ELSE Promote
           /\ IF firstErr' THEN WriterFails ELSE todo' = Tail(todo) /\ UNCHANGED <<sw, flushDue>>
  <2>1. ~firstErr
    BY <1>5 DEF unavailableLocked
  <2>2. PICK m \in Places : \E q \in Places : Stands(m) /\ Leads(Told, m, todo, q) /\ Meant(q)
    BY <1>1, <1>3, <2>1, Standing DEF Quiet
  <2>3. PICK q \in Places : Stands(m) /\ Leads(Told, m, todo, q) /\ Meant(q)
    BY <2>2
  <2>4. Leads(Told, m, Tail(todo), q)
    BY <1>1, <2>3, LeadsFirst, Names
  <2>5. promoted' /\ WellFormed(Semantic') /\ (~firstErr' => Stands(m)')
    <3>1. CASE promoted
      <4>1. Calm /\ promoted' = promoted
        BY <1>5, <3>1, CalmSteps DEF Calm
      <4>. QED
        BY <2>3, <3>1, <4>1, CalmFormed, CalmStands, SessionTypes
    <3>2. CASE ~promoted
      BY <1>5, <2>3, <3>2, PromoteStory
    <3>. QED
      BY <3>1, <3>2
  <2>6. CASE firstErr'
    BY <1>1, <1>2, <1>3, <1>5, <2>5, <2>6, FailStep
  <2>7. CASE ~firstErr'
    <3>1. todo' = Tail(todo) /\ UNCHANGED <<sw, flushDue>> /\ flushDue' \in BOOLEAN
      BY <1>5, <2>7 DEF ExchInv, ExchangeTypeOK
    <3>2. Stands(m)' /\ Meant(q)
      BY <2>3, <2>5, <2>7
    <3>3. UNCHANGED <<hpc, calls, seen, drains, sw, acc, after>>
      BY <1>1, <3>1
    <3>4. hpc = "emit" /\ todo # <<>>
      BY <1>1
    <3>. QED
      BY <1>2, <1>3, <2>4, <2>5, <3>1, <3>2, <3>3, <3>4, RunStep
  <2>. QED
    BY <2>6, <2>7
<1>. QED
  BY <1>1, <1>4, <1>5

LEMMA DoneStep == ASSUME ExchInv, SessionInv, EmitDone PROVE ExchInv'
<1>1. /\ hpc = "emit" /\ todo = <<>> /\ UNCHANGED vars
      /\ UNCHANGED <<calls, seen, drains, sw, acc, todo, flushDue, after>>
      /\ hpc' = CASE after = "closing" -> "closing"
                  [] after = "finished" -> IF sw.err THEN "done" ELSE "finished"
                  [] after \in {"parse", "local"} ->
                       IF sw.err \/ firstErr THEN "done" ELSE IF after = "local" THEN "judge" ELSE "parse"
  BY DEF EmitDone, Broken
<1>2. after \in {"parse", "local", "finished", "closing"} /\ ExchangeTypeOK
  BY <1>1 DEF ExchInv, ControlInv
<1>3. \/ after = "closing" /\ hpc' = "closing"
      \/ after = "finished" /\ ~sw.err /\ hpc' = "finished"
      \/ after = "local" /\ ~sw.err /\ ~firstErr /\ hpc' = "judge"
      \/ after = "parse" /\ ~sw.err /\ ~firstErr /\ hpc' = "parse"
      \/ after # "closing" /\ (sw.err \/ firstErr) /\ hpc' = "done"
  BY <1>1, <1>2
<1>4. Calm /\ UNCHANGED <<stopper, stopped, finalized, firstErr, ctxDone, promoted, buf>>
  BY <1>1, CalmSteps DEF vars, flags
<1>5. ExchangeTypeOK'
  <2>1. hpc' \in {"closing", "finished", "judge", "parse", "done"}
    BY <1>3
  <2>. QED
    BY <1>1, <1>2, <2>1 DEF ExchangeTypeOK
<1>6. ControlInv'
  BY <1>1, <1>3, <1>4 DEF ExchInv, ControlInv, ClosingError
<1>7. GateInv'
  BY <1>1, <1>3, <1>4 DEF ExchInv, GateInv, Shows, IsEmptyVisibleEndTurn, Worth
<1>8. StoryInv'
  <2>1. CASE hpc' = "done" \/ sw.err \/ firstErr
    BY <1>1, <1>4, <2>1, StoryOver, CalmFormed DEF Quiet
  <2>2. CASE hpc' # "done" /\ ~sw.err /\ ~firstErr
    <3>1. \A q \in Places : Meant(q) => Meant(q)'
      BY <1>1, <1>3, <2>2 DEF Meant, ClosingError, Completing
    <3>. QED
      BY <1>1, <1>4, <2>2, <3>1, StoryKept DEF Quiet
  <2>. QED
    BY <2>1, <2>2
<1>9. hpc' = "done" => firstErr' \/ ctxDone'
  BY <1>3, <1>4 DEF ExchInv, ControlInv
<1>. QED
  BY <1>5, <1>6, <1>7, <1>8, <1>9, NotYet DEF ExchInv

-----------------------------------------------------------------------------
(* Behind the response *)

LEMMA JudgeStep == ASSUME ExchInv, SessionInv, Judge PROVE ExchInv'
<1>1. /\ hpc = "judge" /\ ~sw.err /\ ~firstErr /\ UNCHANGED vars /\ UNCHANGED <<calls, seen, drains, flushDue>>
      /\ todo = <<>>
  BY DEF Judge, Broken, ExchInv, ControlInv
<1>2. Calm /\ UNCHANGED <<stopper, stopped, finalized, firstErr, ctxDone, promoted, buf>>
  BY <1>1, CalmSteps DEF vars, flags
<1>3. CASE after = "finish" /\ after' = "finished" /\ hpc' = "emit"
           /\ \E f \in Finish(sw, acc) : sw' = f.w /\ acc' = f.acc /\ todo' = f.ops
  <2>1. PICK f \in Finish(sw, acc) : sw' = f.w /\ acc' = f.acc /\ todo' = f.ops
    BY <1>3
  <2>2. PICK m \in Places : Stands(m) /\ Meant(m)
    BY <1>1, Standing DEF Quiet
  <2>3. At(sw, m) /\ acc \in Accumulators
    BY <1>1, <1>3, <2>2 DEF Meant, ClosingError, Completing, ExchInv, ExchangeTypeOK
  <2>4. Yields(sw, acc, m, f, "message_stop") /\ f.w.started
    BY <2>3, FinishOK
  <2>5. Leads(Told, m, todo', "message_stop") /\ todo' \in Seq(Operations)
    <3>1. Leads(Plain, m, todo', "message_stop")
      BY <2>1, <2>4 DEF Yields
    <3>2. Leads(Operations, m, todo', "message_stop")
      BY <3>1, LeadsMono, PlainNames
    <3>3. Leads(Told, m, todo', "message_stop")
      BY <3>2, LeadsMono, Names
    <3>. QED
      BY <3>2, <3>3 DEF Leads
  <2>6. /\ sw' \in Writers /\ acc' \in Accumulators /\ ~sw'.err /\ sw'.started
        /\ Shows(acc) \/ Promotes(todo') => Shows(acc')
    BY <1>1, <2>1, <2>4 DEF Yields
  <2>7. ExchangeTypeOK'
    BY <1>1, <1>3, <2>5, <2>6 DEF ExchInv, ExchangeTypeOK
  <2>8. ControlInv'
    BY <1>1, <1>2, <1>3, <2>6 DEF ExchInv, ControlInv, ClosingError
  <2>9. GateInv'
    BY <1>1, <1>2, <1>3, <2>6 DEF ExchInv, GateInv
  <2>10. StoryInv'
    <3>1. Stands(m)' /\ WellFormed(Semantic')
      BY <1>2, <2>2, CalmStands, CalmFormed, SessionTypes
    <3>2. \A q \in Places : q = "message_stop" => Meant(q)'
      BY <1>3 DEF Meant, ClosingError, Completing
    <3>3. PICK q \in Places : q = "message_stop"
      BY DEF Places, SSEEvents
    <3>. QED
      BY <2>5, <3>1, <3>2, <3>3, StoryStep
  <2>. QED
    BY <1>3, <2>7, <2>8, <2>9, <2>10, NotYet DEF ExchInv
<1>4. CASE UNCHANGED <<sw, acc, todo, after>>
           /\ ((after = "local" /\ hpc' = "deliver") \/ (after \in {"retryable", "rejected"} /\ hpc' = after))
  <2>1. ExchangeTypeOK'
    <3>1. hpc' \in {"deliver", "retryable", "rejected"}
      BY <1>4
    <3>. QED
      BY <1>1, <1>4, <3>1 DEF ExchInv, ExchangeTypeOK
  <2>2. ControlInv'
    BY <1>1, <1>2, <1>4 DEF ExchInv, ControlInv, ClosingError
  <2>3. GateInv'
    BY <1>1, <1>2, <1>4 DEF ExchInv, GateInv, IsEmptyVisibleEndTurn, Worth
  <2>4. StoryInv'
    <3>1. \A q \in Places : Meant(q) => Meant(q)'
      BY <1>1, <1>4 DEF Meant, ClosingError, Completing
    <3>. QED
      BY <1>1, <1>2, <1>4, <3>1, StoryKept DEF Quiet
  <2>. QED
    BY <1>4, <2>1, <2>2, <2>3, <2>4, NotYet DEF ExchInv
<1>. QED
  BY <1>3, <1>4 DEF Judge

LEMMA DiscardStep == ASSUME ExchInv, SessionInv, DiscardAttempt PROVE ExchInv'
<1>1. /\ hpc \in {"retryable", "finished"} /\ ~promoted /\ Discard /\ hpc' = "retry"
      /\ UNCHANGED <<calls, seen, drains, sw, acc, todo, flushDue, after>>
  BY DEF DiscardAttempt
<1>2. buf' = <<>> /\ UNCHANGED <<stopper, stopped, finalized, firstErr, ctxDone, promoted, wire>>
  BY <1>1 DEF Discard, flags
<1>3. ExchangeTypeOK'
  BY <1>1 DEF ExchInv, ExchangeTypeOK
<1>4. ControlInv'
  BY <1>1, <1>2 DEF ExchInv, ControlInv, ClosingError
<1>5. GateInv'
  BY <1>1, <1>2 DEF ExchInv, GateInv
<1>6. StoryInv'
  <2>1. WellFormed(Semantic')
    BY <1>2, SemanticIs DEF ExchInv, StoryInv
  <2>. QED
    BY <1>1, <2>1, StoryOver DEF Quiet
<1>. QED
  BY <1>1, <1>3, <1>4, <1>5, <1>6, NotYet DEF ExchInv

LEMMA AcceptStep == ASSUME ExchInv, SessionInv, Accept PROVE ExchInv'
<1>1. /\ \/ hpc = "retryable" /\ promoted /\ hpc' = "rejected"
         \/ hpc = "finished" /\ (promoted \/ ~IsEmptyVisibleEndTurn(acc)) /\ hpc' = "deliver"
      /\ UNCHANGED vars /\ UNCHANGED <<calls, seen, drains, sw, acc, todo, flushDue, after>>
  BY DEF Accept
<1>2. Calm /\ UNCHANGED <<stopper, stopped, finalized, firstErr, ctxDone, promoted, buf>>
  BY <1>1, CalmSteps DEF vars, flags
<1>3. ExchangeTypeOK'
  BY <1>1 DEF ExchInv, ExchangeTypeOK
<1>4. ControlInv'
  BY <1>1, <1>2 DEF ExchInv, ControlInv, ClosingError
<1>5. GateInv'
  <2>1. promoted \/ ~IsEmptyVisibleEndTurn(acc) => Worth(acc)
    BY <1>1 DEF ExchInv, GateInv, Worth
  <2>2. Worth(acc') <=> Worth(acc)
    BY <1>1
  <2>. QED
    BY <1>1, <1>2, <2>1, <2>2 DEF ExchInv, GateInv
<1>6. StoryInv'
  <2>1. CASE firstErr \/ sw.err
    BY <1>1, <1>2, <2>1, CalmFormed, StoryOver
  <2>2. CASE ~firstErr /\ ~sw.err
    <3>1. \A q \in Places : Meant(q) => Meant(q)'
      BY <1>1 DEF Meant, ClosingError, Completing
    <3>. QED
      BY <1>1, <1>2, <2>2, <3>1, StoryKept DEF Quiet
  <2>. QED
    BY <2>1, <2>2
<1>. QED
  BY <1>1, <1>3, <1>4, <1>5, <1>6, NotYet DEF ExchInv

\* A stream that leads to its end, ends there.
LEMMA EndOfStory ==
  ASSUME NEW s, NEW m \in {"message_stop", "error"}, Leads(Told, "", s, m)
  PROVE  EndsIn(s, {"message_stop", "error"})
<1>1. EndsIn(s, {m})
  BY LeadsWellFormed
<1>2. PICK i \in 1..Len(s) : s[i] \in {m} /\ NoEvents(s, i + 1, Len(s))
  BY <1>1 DEF EndsIn
<1>3. s[i] \in {"message_stop", "error"}
  BY <1>2
<1>. QED
  BY <1>2, <1>3 DEF EndsIn

LEMMA DeliverStep == ASSUME ExchInv, SessionInv, Deliver PROVE ExchInv'
<1>1. /\ hpc = "deliver" /\ hpc' = "done"
      /\ IF promoted \/ unavailableLocked THEN UNCHANGED vars ELSE Promote
      /\ UNCHANGED <<calls, seen, drains, sw, acc, todo, flushDue, after>>
  BY DEF Deliver
<1>2. (firstErr => firstErr') /\ (ctxDone => ctxDone')
  <2>1. [Next]_vars
    BY <1>1 DEF Next, HandlerStep
  <2>. QED
    BY <2>1, FailuresStay
<1>3. ~stopped /\ ~finalized /\ todo = <<>>
  BY <1>1 DEF ExchInv, ControlInv
<1>4. ASSUME ~firstErr', ~ctxDone'
      PROVE  EndsIn(Semantic', {"message_stop", "error"})
  <2>1. ~firstErr /\ ~ctxDone /\ ~unavailableLocked /\ ~sw.err
    BY <1>2, <1>3, <1>4 DEF ExchInv, ControlInv, unavailableLocked
  <2>2. PICK m \in Places : Stands(m) /\ Meant(m)
    BY <1>1, <2>1, Standing DEF Quiet
  <2>3. m = "message_stop"
    BY <1>1, <2>2 DEF Meant, Completing
  <2>4. promoted' /\ Stands(m)'
    <3>1. CASE promoted
      <4>1. Calm /\ promoted' = promoted
        BY <1>1, <3>1, CalmSteps DEF Calm
      <4>. QED
        BY <2>2, <3>1, <4>1, CalmStands, SessionTypes
    <3>2. CASE ~promoted
      BY <1>1, <1>4, <2>1, <2>2, <3>2, PromoteStory
    <3>. QED
      BY <3>1, <3>2
  <2>5. Leads(Told, "", Heard(wire'), m)
    BY <2>4 DEF Stands
  <2>. QED
    BY <2>3, <2>5, EndOfStory, SemanticIs
<1>5. WellFormed(Semantic')
  <2>1. CASE promoted \/ unavailableLocked
    <3>1. Calm
      BY <1>1, <2>1, CalmSteps
    <3>. QED
      BY <3>1, CalmFormed
  <2>2. CASE ~promoted /\ ~unavailableLocked
    <3>1. ~firstErr /\ ~sw.err
      BY <1>3, <2>2 DEF unavailableLocked, ExchInv, ControlInv
    <3>2. PICK m \in Places : Stands(m)
      BY <1>1, <3>1, Standing DEF Quiet
    <3>. QED
      BY <1>1, <2>2, <3>2, PromoteStory
  <2>. QED
    BY <2>1, <2>2
<1>6. ExchangeTypeOK'
  BY <1>1 DEF ExchInv, ExchangeTypeOK
<1>7. ControlInv'
  BY <1>1, <1>2, <1>3 DEF ExchInv, ControlInv, ClosingError
<1>8. GateInv'
  BY <1>1 DEF ExchInv, GateInv
<1>9. StoryInv'
  BY <1>1, <1>5, StoryOver DEF Quiet
<1>10. EveryRequestAnswered'
  BY <1>4 DEF EveryRequestAnswered
<1>. QED
  BY <1>6, <1>7, <1>8, <1>9, <1>10 DEF ExchInv

LEMMA ClosingStep == ASSUME ExchInv, SessionInv, FinalErrorReturns PROVE ExchInv'
<1>1. /\ hpc = "closing" /\ hpc' = "done" /\ FinalErrorEnd
      /\ UNCHANGED <<calls, seen, drains, sw, acc, todo, flushDue, after>>
  BY DEF FinalErrorReturns
<1>2. Calm /\ UNCHANGED <<firstErr, ctxDone, promoted, wire>>
  BY <1>1, CalmSteps DEF FinalErrorEnd, flags
<1>3. ExchangeTypeOK'
  BY <1>1 DEF ExchInv, ExchangeTypeOK
<1>4. ControlInv'
  BY <1>1, <1>2 DEF ExchInv, ControlInv, ClosingError
<1>5. GateInv'
  BY <1>1, <1>2 DEF ExchInv, GateInv, Shows, IsEmptyVisibleEndTurn, Worth
<1>6. StoryInv'
  BY <1>1, <1>2, CalmFormed, StoryOver DEF Quiet
<1>7. EveryRequestAnswered'
  <2>. SUFFICES ASSUME ~firstErr, ~ctxDone PROVE EndsIn(Semantic', {"message_stop", "error"})
    BY <1>2 DEF EveryRequestAnswered
  <2>1. ~sw.err
    BY DEF ExchInv, ControlInv
  <2>2. PICK m \in Places : Stands(m) /\ Meant(m)
    BY <1>1, <2>1, Standing DEF Quiet
  <2>3. m = "error" /\ promoted
    BY <1>1, <2>2 DEF Meant, ClosingError, ExchInv, ControlInv
  <2>4. Leads(Told, "", Heard(wire'), m)
    BY <1>2, <2>2, <2>3 DEF Stands
  <2>. QED
    BY <2>3, <2>4, EndOfStory, SemanticIs
<1>. QED
  BY <1>3, <1>4, <1>5, <1>6, <1>7 DEF ExchInv

\* A bare error is one more piece behind what the client has, unless the connection breaks.
LEMMA BareError ==
  ASSUME SessionInv, FinalErrorSSE \/ FinalErrorJSON
  PROVE  /\ WireCalm /\ UNCHANGED promoted /\ ~firstErr /\ ~ctxDone
         /\ ~firstErr' => \E i \in 1..Len(wire') : wire'[i].kind \in {"json_error", "sse_error"}
<1>1. wire \in Seq(WireItem) /\ UNCHANGED promoted /\ ~firstErr /\ ~ctxDone
  BY SessionTypes DEF FinalErrorSSE, FinalErrorJSON, unavailableLocked
<1>2. PICK x \in {SSEError, ErrorBody} : wire' \in {wire, Append(wire, x)} /\ (~firstErr' => wire' = Append(wire, x))
  <2>1. CASE FinalErrorSSE
    <3>1. PICK r \in FlushOutcome : writeSocketLocked(Append(wire, SSEError), wire, r)
      BY <2>1 DEF FinalErrorSSE
    <3>2. wire' \in {wire, Append(wire, SSEError)} /\ (~firstErr' => wire' = Append(wire, SSEError))
      BY <3>1 DEF writeSocketLocked, FlushOutcome
    <3>. QED
      BY <3>2
  <2>2. CASE FinalErrorJSON
    <3>1. wire' \in {wire, Append(wire, ErrorBody)} /\ (~firstErr' => wire' = Append(wire, ErrorBody))
      BY <2>2 DEF FinalErrorJSON
    <3>. QED
      BY <3>1
  <2>. QED
    BY <2>1, <2>2
<1>3. x \in WireItem /\ x.kind \in {"json_error", "sse_error"}
  BY ItemTypes, ItemKinds
<1>4. Len(Append(wire, x)) = Len(wire) + 1 /\ Append(wire, x)[Len(wire) + 1] = x /\ Len(wire) \in Nat
  BY <1>1, <1>3, AppendProperties, LenProperties
<1>5. Len(wire) + 1 \in 1..Len(Append(wire, x))
  BY <1>4
<1>6. WireCalm
  BY <1>2, <1>3 DEF WireCalm
<1>. QED
  BY <1>1, <1>2, <1>3, <1>4, <1>5, <1>6

LEMMA ErrorStep == ASSUME ExchInv, SessionInv, FinalError PROVE ExchInv'
<1>1. /\ hpc \in {"rejected", "fail"} /\ UNCHANGED <<calls, seen, drains, acc, flushDue>>
      /\ \/ unavailableLocked /\ hpc' = "done" /\ UNCHANGED <<sw, todo, after>> /\ UNCHANGED vars
         \/ /\ ~unavailableLocked /\ hpc = "rejected" /\ promoted /\ FinalErrorBegin
            /\ todo' = WriteError(sw) /\ sw' = [sw EXCEPT !.active = ""] /\ hpc' = "emit" /\ after' = "closing"
         \/ /\ ~unavailableLocked /\ ~(hpc = "rejected" /\ promoted) /\ (FinalErrorSSE \/ FinalErrorJSON)
            /\ hpc' = "done" /\ UNCHANGED <<sw, todo, after>>
  BY DEF FinalError
<1>2. /\ ~stopped /\ ~finalized /\ todo = <<>> /\ (hpc = "rejected" => ~sw.err) /\ (hpc = "fail" => ~promoted)
      /\ sw.err => firstErr \/ ctxDone
  BY <1>1 DEF ExchInv, ControlInv
<1>3. CASE unavailableLocked /\ hpc' = "done" /\ UNCHANGED <<sw, todo, after>> /\ UNCHANGED vars
  <2>1. Calm /\ UNCHANGED <<firstErr, ctxDone, promoted>> /\ (firstErr' \/ ctxDone')
    BY <1>2, <1>3, CalmSteps DEF vars, flags, unavailableLocked
  <2>2. ExchangeTypeOK'
    BY <1>1, <1>3 DEF ExchInv, ExchangeTypeOK
  <2>3. ControlInv'
    BY <1>1, <1>2, <1>3, <2>1 DEF ExchInv, ControlInv, ClosingError
  <2>4. GateInv'
    BY <1>1, <1>3, <2>1 DEF ExchInv, GateInv, Shows, IsEmptyVisibleEndTurn, Worth
  <2>5. StoryInv'
    BY <1>3, <2>1, CalmFormed, StoryOver DEF Quiet
  <2>. QED
    BY <2>1, <2>2, <2>3, <2>4, <2>5, NotYet DEF ExchInv
<1>4. CASE /\ ~unavailableLocked /\ hpc = "rejected" /\ promoted /\ FinalErrorBegin
           /\ todo' = WriteError(sw) /\ sw' = [sw EXCEPT !.active = ""] /\ hpc' = "emit" /\ after' = "closing"
  <2>1. Calm /\ UNCHANGED <<stopper, stopped, finalized, firstErr, ctxDone, promoted, buf>>
    BY <1>4, CalmSteps DEF FinalErrorBegin, flags
  <2>2. ~firstErr /\ ~sw.err /\ Shows(acc) /\ sw.started
    BY <1>2, <1>4 DEF unavailableLocked, ExchInv, GateInv
  <2>3. PICK m \in Places : Stands(m) /\ Meant(m)
    BY <1>4, <2>2, Standing DEF Quiet
  <2>4. At(sw, m)
    BY <1>4, <2>3 DEF Meant, ClosingError, Completing
  <2>5. Leads(Plain, m, todo', "error")
    BY <1>4, <2>2, <2>4, ErrorOK
  <2>6. Leads(Operations, m, todo', "error")
    BY <2>5, LeadsMono, PlainNames
  <2>7. Leads(Told, m, todo', "error") /\ todo' \in Seq(Operations)
    <3>1. Leads(Told, m, todo', "error")
      BY <2>6, LeadsMono, Names
    <3>. QED
      BY <2>6, <3>1 DEF Leads
  <2>8. sw' \in Writers /\ sw'.started = sw.started /\ sw'.err = sw.err /\ Idle(sw')
    <3>1. sw \in Writers
      BY DEF ExchInv, ExchangeTypeOK
    <3>. QED
      BY <1>4, <3>1 DEF Writers, Idle
  <2>9. ExchangeTypeOK'
    BY <1>1, <1>4, <2>7, <2>8 DEF ExchInv, ExchangeTypeOK
  <2>10. ControlInv'
    BY <1>1, <1>4, <2>1, <2>2, <2>8 DEF ExchInv, ControlInv, ClosingError
  <2>11. GateInv'
    BY <1>1, <1>4, <2>2, <2>8 DEF GateInv
  <2>12. StoryInv'
    <3>1. Stands(m)' /\ WellFormed(Semantic')
      BY <2>1, <2>3, CalmStands, CalmFormed, SessionTypes
    <3>2. \A q \in Places : q = "error" => Meant(q)'
      BY <1>4 DEF Meant, ClosingError, Completing
    <3>3. PICK q \in Places : q = "error"
      BY DEF Places, SSEEvents
    <3>. QED
      BY <2>7, <3>1, <3>2, <3>3, StoryStep
  <2>. QED
    BY <1>4, <2>9, <2>10, <2>11, <2>12, NotYet DEF ExchInv
<1>5. CASE /\ ~unavailableLocked /\ ~(hpc = "rejected" /\ promoted) /\ (FinalErrorSSE \/ FinalErrorJSON)
           /\ hpc' = "done" /\ UNCHANGED <<sw, todo, after>>
  <2>1. /\ WireCalm /\ ~promoted' /\ ~sw.err
        /\ ~firstErr' => \E i \in 1..Len(wire') : wire'[i].kind \in {"json_error", "sse_error"}
    BY <1>1, <1>2, <1>5, BareError
  <2>2. ExchangeTypeOK'
    BY <1>1, <1>5 DEF ExchInv, ExchangeTypeOK
  <2>3. ControlInv'
    BY <1>1, <1>2, <1>5, <2>1 DEF ExchInv, ControlInv, ClosingError
  <2>4. GateInv'
    BY <1>1, <1>5, <2>1 DEF ExchInv, GateInv
  <2>5. StoryInv'
    <3>1. WellFormed(Semantic')
      BY <2>1, QuietWire, SessionTypes DEF ExchInv, StoryInv
    <3>. QED
      BY <1>5, <3>1, StoryOver DEF Quiet
  <2>6. EveryRequestAnswered'
    BY <2>1 DEF EveryRequestAnswered
  <2>. QED
    BY <2>2, <2>3, <2>4, <2>5, <2>6 DEF ExchInv
<1>. QED
  BY <1>1, <1>3, <1>4, <1>5

-----------------------------------------------------------------------------
(* Theorems *)

LEMMA ExchangeInitial == ExchangeInit => ExchInv
<1>. SUFFICES ASSUME ExchangeInit PROVE ExchInv
  OBVIOUS
<1>1. /\ Init /\ hpc = "call" /\ calls = 1 /\ seen = 0 /\ drains \in BOOLEAN
      /\ sw = NewWriter /\ acc = NewAccumulator /\ todo = <<>> /\ flushDue = FALSE /\ after = "parse"
  BY DEF ExchangeInit
<1>2. wire = <<>> /\ buf = <<>> /\ ~promoted /\ stopper = "idle" /\ ~stopped /\ ~finalized
  BY <1>1 DEF Init
<1>3. ExchangeTypeOK
  <2>1. 0 \in 0..MaxFrames
    BY ExchangeAssumption
  <2>2. sw \in Writers /\ acc \in Accumulators
    BY <1>1, NewWriterIs
  <2>3. calls \in 1..2 /\ seen \in 0..MaxFrames /\ todo \in Seq(Operations)
    BY <1>1, <2>1, EmptySeq
  <2>. QED
    BY <1>1, <2>2, <2>3 DEF ExchangeTypeOK
<1>4. ControlInv
  BY <1>1, <1>2, NewWriterIs DEF ControlInv, ClosingError
<1>5. GateInv
  BY <1>1, <1>2, PromotesOf DEF GateInv
<1>6. StoryInv
  <2>1. WellFormed(Semantic)
    BY <1>2, Len(<<>>) = 0 DEF WellFormed, Semantic
  <2>. QED
    BY <1>1, <2>1 DEF StoryInv
<1>. QED
  BY <1>1, <1>3, <1>4, <1>5, <1>6 DEF ExchInv, EveryRequestAnswered

LEMMA ExchangeKeeps == SessionInv /\ ExchInv /\ [ExchangeNext]_allVars => ExchInv'
<1>. SUFFICES ASSUME SessionInv, ExchInv, [ExchangeNext]_allVars PROVE ExchInv'
  OBVIOUS
<1>1. CASE Step
  BY <1>1, CallStep, SucceedStep, StartStep, GiveUpStep, FrameStep, EndStep, WriteStep, FlushStep, PromoteStep,
     DoneStep, JudgeStep, DiscardStep, AcceptStep, DeliverStep, ErrorStep, ClosingStep, RetryStep
  DEF Step
<1>2. CASE Surroundings \/ UNCHANGED allVars
  BY <1>2, SurroundingsStep
<1>. QED
  BY <1>1, <1>2 DEF ExchangeNext

LEMMA ExchInvariant == ExchangeSpec => [](SessionInv /\ ExchInv)
<1>1. ExchangeInit => SessionInv /\ ExchInv
  BY ExchangeInitial, SessionInitial DEF ExchangeInit
<1>2. SessionInv /\ ExchInv /\ [ExchangeNext]_allVars => (SessionInv /\ ExchInv)'
  BY ExchangeKeeps, SessionKeeps, ExchangeStep DEF ExchInv
<1>. QED
  BY <1>1, <1>2, PTL DEF ExchangeSpec

\* The handler, the heartbeat and the client only ever take steps of the stream session: what
\* the session promises to any caller (FinalErrorLast, NeverMix, PromotedDelivered and the
\* other theorems about it), it promises to the handler that executeRetry and
\* handleStreamingResponse are.
THEOREM RunsTheSession == ExchangeSpec => Spec
<1>1. ExchangeInit => Init
  BY DEF ExchangeInit
<1>2. ExchInv /\ [ExchangeNext]_allVars => [Next]_vars
  BY ExchangeStep DEF ExchInv
<1>. QED
  BY <1>1, <1>2, ExchInvariant, PTL DEF ExchangeSpec, Spec

\* The types of the handler's state, among them that the writer only ever asks for operations
\* an SSEWriter has.
THEOREM ExchangeTypes == ExchangeSpec => []ExchangeTypeOK
<1>1. ExchInv => ExchangeTypeOK
  BY DEF ExchInv
<1>. QED
  BY <1>1, ExchInvariant, PTL

\* Whatever the upstream sends, wherever a stop, an error or a retry falls and wherever the
\* connection breaks: the client's events are always the beginning of a well-formed stream.
THEOREM WellFormedAlways == ExchangeSpec => []WellFormedStream
<1>1. ExchInv => WellFormedStream
  BY DEF ExchInv, StoryInv, WellFormedStream
<1>. QED
  BY <1>1, ExchInvariant, PTL

\* The handler never returns to a client that is still there without message_stop, an error
\* event or an error body having been sent.
THEOREM AlwaysAnswered == ExchangeSpec => []EveryRequestAnswered
<1>1. ExchInv => EveryRequestAnswered
  BY DEF ExchInv
<1>. QED
  BY <1>1, ExchInvariant, PTL

LEMMA UnseenUnpromoted ==
  ASSUME SessionInv, ~promoted
  PROVE  SawNothing /\ \A E : E \subseteq SSEEvents => ~EndsIn(Semantic, E)
<1>1. SemanticAt(wire) = {} /\ wire \in Seq(WireItem)
  BY SessionTypes DEF SessionInv, OrderInv
<1>2. \A i \in 1..Len(wire) : Semantic[i] = NoEvent
  BY <1>1 DEF Semantic, SemanticAt
<1>3. NoEvent \notin SSEEvents /\ Len(Semantic) = Len(wire)
  BY <1>1, Names, HeardSeq, SemanticIs
<1>. QED
  BY <1>2, <1>3 DEF SawNothing, NoEvents, EndsIn

\* Nothing of a turn without tool calls is sent ahead of text the gate takes for visible, and a turn
\* that ends without such text is thrown away (Finish opens no gate for it, and the handler's
\* Deliver is not reached), but for a blank one, a mere beginning of a placeholder and one that is
\* empty altogether, which are delivered.
THEOREM EmptyTurnWithheld == ExchangeSpec => []NoEmptyTurn
<1>1. SessionInv /\ ExchInv => NoEmptyTurn
  <2>. SUFFICES ASSUME SessionInv, ExchInv, ~acc.stopped, ~acc.tool, ~SawNothing,
                       acc.text \notin {"visible", "padded", "paddedEcho"}
                PROVE  hpc = "done" /\ (acc.text = "prefix" \/ (acc.text = "none" /\ ~acc.thought))
    BY DEF NoEmptyTurn
  <2>1. promoted
    BY UnseenUnpromoted
  <2>2. ~Shows(acc)
    BY DEF Shows
  <2>3. hpc = "done" /\ ~IsEmptyVisibleEndTurn(acc)
    BY <2>1, <2>2 DEF ExchInv, GateInv, Worth
  <2>4. acc.text \in {"none", "prefix", "echo", "padded", "paddedEcho", "visible"}
    BY DEF ExchInv, ExchangeTypeOK, Accumulators, NextText
  <2>. QED
    BY <2>3, <2>4 DEF IsEmptyVisibleEndTurn, IsSyntheticEmptyEcho
<1>. QED
  BY <1>1, ExchInvariant, PTL

\* When executeRetry calls the upstream again, or turns to a plain error response, the client
\* has received no event of the attempt that was thrown away.
THEOREM RetryTransparent == ExchangeSpec => []RetryIsTransparent
<1>1. SessionInv /\ ExchInv => RetryIsTransparent
  BY UnseenUnpromoted DEF RetryIsTransparent, ExchInv, ControlInv
<1>. QED
  BY <1>1, ExchInvariant, PTL

=============================================================================
