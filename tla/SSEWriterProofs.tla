--------------------------- MODULE SSEWriterProofs ---------------------------
(***************************************************************************)
(* What each operation of the SSEWriter adds to an event stream, for every *)
(* writer and accumulator: the lemmas on which the proofs about the        *)
(* message of a whole request rest.                                        *)
(***************************************************************************)
EXTENDS SSEWriter, SequenceTheorems, TLAPS

\* The names, written out.
LEMMA EventNames ==
  /\ DOMAIN StartOf = {"thinking", "text", "tool_use", "redacted", "server_tool_use", "search_result"}
  /\ StartOf["thinking"] = "thinking_start" /\ StartOf["text"] = "text_start"
  /\ StartOf["tool_use"] = "tool_use_start" /\ StartOf["redacted"] = "redacted_start"
  /\ StartOf["server_tool_use"] = "server_tool_use_start"
  /\ StartOf["search_result"] = "search_result_start"
  /\ Starts = {"thinking_start", "text_start", "tool_use_start", "redacted_start",
               "server_tool_use_start", "search_result_start"}
<1>1. /\ DOMAIN StartOf = {"thinking", "text", "tool_use", "redacted", "server_tool_use", "search_result"}
      /\ StartOf["thinking"] = "thinking_start" /\ StartOf["text"] = "text_start"
      /\ StartOf["tool_use"] = "tool_use_start" /\ StartOf["redacted"] = "redacted_start"
      /\ StartOf["server_tool_use"] = "server_tool_use_start"
      /\ StartOf["search_result"] = "search_result_start"
  BY DEF StartOf
<1>. QED
  BY <1>1 DEF Starts

(***************************************************************************)
(* Streams put together: the operations s, all of K, may follow the event  *)
(* p ("" is the beginning of the stream), and end behind the event q.      *)
(***************************************************************************)
Precedes(p, ev) == IF p = "" THEN ev = "message_start" ELSE p \in MayPrecede(ev)

Leads(K, p, s, q) ==
  /\ s \in Seq(K)
  /\ \A i \in 1..Len(s) : s[i] \in SSEEvents =>
       \/ Precedes(p, s[i]) /\ NoEvents(s, 1, i - 1)
       \/ \E j \in 1..(i - 1) : s[j] \in SSEEvents /\ s[j] \in MayPrecede(s[i]) /\ NoEvents(s, j + 1, i - 1)
  /\ \/ q = p /\ NoEvents(s, 1, Len(s))
     \/ q \in SSEEvents /\ EndsIn(s, {q})

\* One stream behind the other.
LEMMA LeadsConcat ==
  ASSUME NEW K, NEW p, NEW q, NEW r, NEW s, NEW t, Leads(K, p, s, q), Leads(K, q, t, r)
  PROVE  Leads(K, p, s \o t, r)
<1> DEFINE v == s \o t
<1>1. /\ s \in Seq(K) /\ t \in Seq(K) /\ Len(s) \in Nat /\ Len(t) \in Nat
      /\ v \in Seq(K) /\ Len(v) = Len(s) + Len(t)
  BY ConcatProperties, LenProperties DEF Leads
<1>2. /\ \A i \in 1..Len(s) : v[i] = s[i]
      /\ \A i \in (Len(s) + 1)..Len(v) : v[i] = t[i - Len(s)] /\ i - Len(s) \in 1..Len(t)
      /\ \A i \in 1..Len(t) : v[Len(s) + i] = t[i]
  <2>1. \A i \in 1..(Len(s) + Len(t)) : v[i] = IF i <= Len(s) THEN s[i] ELSE t[i - Len(s)]
    BY <1>1, ConcatProperties
  <2>. QED
    BY <1>1, <2>1
<1> HIDE DEF v
<1>3. \A i, j \in Nat : j <= Len(s) /\ NoEvents(s, i, j) /\ i >= 1 => NoEvents(v, i, j)
  <2>. SUFFICES ASSUME NEW i \in Nat, NEW j \in Nat, j <= Len(s), NoEvents(s, i, j), i >= 1, NEW k \in i..j
                PROVE  v[k] \notin SSEEvents
    BY DEF NoEvents
  <2>1. k \in 1..Len(s)
    BY <1>1
  <2>. QED
    BY <1>2, <2>1 DEF NoEvents
<1>4. \A i, j \in Nat : i >= 1 /\ j <= Len(t) /\ NoEvents(t, i, j) => NoEvents(v, Len(s) + i, Len(s) + j)
  <2>. SUFFICES ASSUME NEW i \in Nat, NEW j \in Nat, i >= 1, j <= Len(t), NoEvents(t, i, j),
                       NEW k \in (Len(s) + i)..(Len(s) + j)
                PROVE  v[k] \notin SSEEvents
    BY DEF NoEvents
  <2>1. k - Len(s) \in i..j /\ k \in (Len(s) + 1)..Len(v)
    BY <1>1
  <2>. QED
    BY <1>2, <2>1 DEF NoEvents
<1>5. \A i, j, k \in Nat : NoEvents(v, i, j) /\ NoEvents(v, j + 1, k) => NoEvents(v, i, k)
  BY DEF NoEvents
<1>6. \/ q = p /\ NoEvents(v, 1, Len(s))
      \/ q \in SSEEvents /\ \E j \in 1..Len(s) : v[j] = q /\ NoEvents(v, j + 1, Len(s))
  <2>1. CASE q = p /\ NoEvents(s, 1, Len(s))
    BY <1>1, <1>3, <2>1
  <2>2. ASSUME q \in SSEEvents, NEW j \in 1..Len(s), s[j] = q, NoEvents(s, j + 1, Len(s))
        PROVE  v[j] = q /\ NoEvents(v, j + 1, Len(s))
    BY <1>1, <1>2, <1>3, <2>2
  <2>. QED
    BY <2>1, <2>2 DEF Leads, EndsIn
<1>7. ASSUME NEW i \in 1..Len(v), v[i] \in SSEEvents
      PROVE  \/ Precedes(p, v[i]) /\ NoEvents(v, 1, i - 1)
             \/ \E j \in 1..(i - 1) : v[j] \in SSEEvents /\ v[j] \in MayPrecede(v[i]) /\ NoEvents(v, j + 1, i - 1)
  <2>1. CASE i <= Len(s)
    <3>1. i \in 1..Len(s) /\ v[i] = s[i] /\ i - 1 \in Nat /\ i - 1 <= Len(s)
      BY <1>1, <1>2, <2>1
    <3>2. CASE Precedes(p, s[i]) /\ NoEvents(s, 1, i - 1)
      BY <1>3, <3>1, <3>2
    <3>3. ASSUME NEW j \in 1..(i - 1), s[j] \in SSEEvents, s[j] \in MayPrecede(s[i]), NoEvents(s, j + 1, i - 1)
          PROVE  v[j] \in SSEEvents /\ v[j] \in MayPrecede(v[i]) /\ NoEvents(v, j + 1, i - 1)
      <4>1. v[j] = s[j] /\ j + 1 \in Nat
        BY <1>1, <1>2, <3>1
      <4>. QED
        BY <1>3, <3>1, <3>3, <4>1
    <3>. QED
      BY <1>7, <3>1, <3>2, <3>3 DEF Leads
  <2>2. CASE ~(i <= Len(s))
    <3> DEFINE m == i - Len(s)
    <3>1. /\ m \in 1..Len(t) /\ v[i] = t[m] /\ m - 1 \in Nat /\ m - 1 <= Len(t)
          /\ Len(s) + (m - 1) = i - 1 /\ Len(s) + 1 \in Nat /\ i - 1 \in Nat
      BY <1>1, <1>2, <2>2
    <3> HIDE DEF m
    <3>2. CASE Precedes(q, t[m]) /\ NoEvents(t, 1, m - 1)
      <4>1. NoEvents(v, Len(s) + 1, i - 1)
        BY <1>4, <3>1, <3>2
      <4>2. CASE q = p /\ NoEvents(v, 1, Len(s))
        BY <1>1, <1>5, <3>1, <3>2, <4>1, <4>2
      <4>3. ASSUME q \in SSEEvents, NEW j \in 1..Len(s), v[j] = q, NoEvents(v, j + 1, Len(s))
            PROVE  j \in 1..(i - 1) /\ v[j] \in MayPrecede(v[i]) /\ NoEvents(v, j + 1, i - 1)
        <5>1. q # ""
          BY <4>3, EventNames DEF SSEEvents
        <5>2. j \in 1..(i - 1) /\ j + 1 \in Nat
          BY <1>1, <2>2
        <5>3. NoEvents(v, j + 1, i - 1)
          BY <1>1, <1>5, <3>1, <4>1, <4>3, <5>2
        <5>. QED
          BY <3>1, <3>2, <4>3, <5>1, <5>2, <5>3 DEF Precedes
      <4>. QED
        BY <1>6, <4>2, <4>3
    <3>3. ASSUME NEW j \in 1..(m - 1), t[j] \in SSEEvents, t[j] \in MayPrecede(t[m]), NoEvents(t, j + 1, m - 1)
          PROVE  /\ Len(s) + j \in 1..(i - 1) /\ v[Len(s) + j] \in SSEEvents
                 /\ v[Len(s) + j] \in MayPrecede(v[i]) /\ NoEvents(v, (Len(s) + j) + 1, i - 1)
      <4>1. /\ Len(s) + j \in 1..(i - 1) /\ j \in 1..Len(t) /\ v[Len(s) + j] = t[j]
            /\ j + 1 \in Nat /\ Len(s) + (j + 1) = (Len(s) + j) + 1
        BY <1>1, <1>2, <3>1
      <4>2. NoEvents(v, Len(s) + (j + 1), Len(s) + (m - 1))
        BY <1>4, <3>1, <3>3, <4>1
      <4>. QED
        BY <3>1, <3>3, <4>1, <4>2
    <3>4. t[m] \in SSEEvents
      BY <1>7, <3>1
    <3>. QED
      BY <3>1, <3>2, <3>3, <3>4 DEF Leads
  <2>. QED
    BY <2>1, <2>2
<1>8. \/ r = p /\ NoEvents(v, 1, Len(v))
      \/ r \in SSEEvents /\ EndsIn(v, {r})
  <2>1. CASE r = q /\ NoEvents(t, 1, Len(t))
    <3>1. NoEvents(v, Len(s) + 1, Len(v))
      BY <1>1, <1>4, <2>1
    <3>2. ASSUME NEW j \in 1..Len(s), v[j] = q, NoEvents(v, j + 1, Len(s))
          PROVE  j \in 1..Len(v) /\ NoEvents(v, j + 1, Len(v))
      BY <1>1, <1>5, <3>1, <3>2
    <3>3. NoEvents(v, 1, Len(s)) => NoEvents(v, 1, Len(v))
      BY <1>1, <1>5, <3>1
    <3>. QED
      BY <1>6, <2>1, <3>2, <3>3 DEF EndsIn
  <2>2. ASSUME r \in SSEEvents, NEW j \in 1..Len(t), t[j] = r, NoEvents(t, j + 1, Len(t))
        PROVE  Len(s) + j \in 1..Len(v) /\ v[Len(s) + j] = r /\ NoEvents(v, (Len(s) + j) + 1, Len(v))
    <3>1. Len(s) + j \in 1..Len(v) /\ v[Len(s) + j] = t[j] /\ j + 1 \in Nat /\ Len(s) + (j + 1) = (Len(s) + j) + 1
      BY <1>1, <1>2
    <3>. QED
      BY <1>1, <1>4, <2>2, <3>1
  <2>. QED
    BY <2>1, <2>2 DEF Leads, EndsIn
<1>. QED
  BY <1>1, <1>7, <1>8 DEF Leads, v

\* No operation, or only the gate's.
LEMMA LeadsNone == ASSUME NEW K, NEW p PROVE Leads(K, p, <<>>, p)
BY EmptySeq, Len(<<>>) = 0 DEF Leads, NoEvents

LEMMA LeadsGate ==
  ASSUME NEW K, "promote" \in K, NEW p PROVE Leads(K, p, <<"promote">>, p)
<1>1. <<"promote">> \in Seq(K) /\ Len(<<"promote">>) = 1 /\ <<"promote">>[1] = "promote"
  OBVIOUS
<1>2. "promote" \notin SSEEvents
  BY EventNames DEF SSEEvents
<1>. QED
  BY <1>1, <1>2 DEF Leads, NoEvents

\* One event, and two.
LEMMA LeadsOne ==
  ASSUME NEW K, NEW p, NEW e \in K, e \in SSEEvents, Precedes(p, e) PROVE Leads(K, p, <<e>>, e)
<1> DEFINE s == <<e>>
<1>1. s \in Seq(K) /\ Len(s) = 1 /\ s[1] = e
  OBVIOUS
<1> HIDE DEF s
<1>2. EndsIn(s, {e})
  BY <1>1 DEF EndsIn, NoEvents
<1>. QED
  BY <1>1, <1>2 DEF Leads, NoEvents, s

LEMMA LeadsTwo ==
  ASSUME NEW K, NEW p, NEW e \in K, NEW f \in K, {e, f} \subseteq SSEEvents, Precedes(p, e), e \in MayPrecede(f)
  PROVE  Leads(K, p, <<e, f>>, f)
<1>1. e # ""
  BY EventNames DEF SSEEvents
<1>2. Leads(K, p, <<e>>, e) /\ Leads(K, e, <<f>>, f)
  BY <1>1, LeadsOne DEF Precedes
<1>3. <<e, f>> = <<e>> \o <<f>>
  <2> DEFINE s == <<e>>
             t == <<f>>
             v == <<e, f>>
  <2>1. /\ s \in Seq(K) /\ t \in Seq(K) /\ v \in Seq(K) /\ Len(s) = 1 /\ Len(t) = 1 /\ Len(v) = 2
        /\ s[1] = e /\ t[1] = f /\ v[1] = e /\ v[2] = f
    OBVIOUS
  <2> HIDE DEF s, t, v
  <2>2. /\ s \o t \in Seq(K) /\ Len(s \o t) = 2
        /\ (s \o t)[1] = e /\ (s \o t)[2] = f
    BY <2>1, ConcatProperties, SMTT(30)
  <2>3. \A i \in 1..2 : (s \o t)[i] = v[i]
    BY <2>1, <2>2
  <2>4. v = s \o t
    BY <2>1, <2>2, <2>3, SeqEqual
  <2>. QED
    BY <2>4 DEF s, t, v
<1>. QED
  BY <1>2, <1>3, LeadsConcat

\* More operations may be told of, the stream stays what it is.
LEMMA SeqMono ==
  ASSUME NEW K, NEW L, K \subseteq L, NEW s \in Seq(K)
  PROVE  s \in Seq(L)
<1>1. s \in [1..Len(s) -> K] /\ Len(s) \in Nat
  BY LenProperties
<1>2. s \in [1..Len(s) -> L]
  BY <1>1
<1>. QED
  BY <1>1, <1>2, SeqDef

LEMMA LeadsMono ==
  ASSUME NEW K, NEW L, K \subseteq L, NEW p, NEW s, NEW q, Leads(K, p, s, q)
  PROVE  Leads(L, p, s, q)
BY SeqMono DEF Leads

\* A stream that leads on from its beginning is well formed.
LEMMA LeadsWellFormed ==
  ASSUME NEW K, NEW s, NEW q, Leads(K, "", s, q)
  PROVE  WellFormed(s) /\ (q # "" => EndsIn(s, {q}))
BY DEF Leads, WellFormed, Precedes

-----------------------------------------------------------------------------
(***************************************************************************)
(* Where a writer stands: behind the event q, "" before the first one,     *)
(* inside the block it holds open, or between blocks.                      *)
(***************************************************************************)
Inside(block, q) ==
  IF block = "" THEN q \in {"message_start", "stop"} ELSE q \in {StartOf[block], "delta"}

Blocks == {""} \cup DOMAIN StartOf

At(w, q) ==
  /\ w \in Writers
  /\ IF w.started THEN Inside(w.active, q) ELSE q = "" /\ w.active = ""

Promotes(ops) == \E i \in 1..Len(ops) : ops[i] = "promote"

\* The operations of a model's own frames: searches are not among them.
Plain == Operations \ {"server_tool_use_start", "search_result_start"}

\* Those of frames without a tool call.
Toolless == Plain \ {"tool_use_start"}

\* Both operations that open or leave a block.
LEMMA Opens ==
  ASSUME NEW K, NEW block \in DOMAIN StartOf, StartOf[block] \in K, NEW p \in {"message_start", "stop"}
  PROVE  Leads(K, p, <<StartOf[block]>>, StartOf[block]) /\ Inside(block, StartOf[block])
<1>1. /\ StartOf[block] \in Starts /\ StartOf[block] \in SSEEvents /\ block # ""
      /\ StartOf[block] # "message_start" /\ p # ""
  BY EventNames DEF SSEEvents
<1>2. Precedes(p, StartOf[block])
  BY <1>1, EventNames DEF Precedes, MayPrecede
<1>. QED
  BY <1>1, <1>2, LeadsOne DEF Inside

LEMMA Closes ==
  ASSUME NEW K, "stop" \in K, NEW block \in Blocks, NEW p, Inside(block, p)
  PROVE  \E q \in {"message_start", "stop"} : Leads(K, p, closeActiveBlock(block), q)
<1>1. CASE block = ""
  BY <1>1, LeadsNone DEF Inside, closeActiveBlock
<1>2. CASE block # ""
  <2>1. p \in Starts \cup {"delta"} /\ p # "" /\ "stop" \in SSEEvents
    BY <1>2, EventNames DEF Inside, Blocks, SSEEvents
  <2>2. Precedes(p, "stop")
    BY <2>1, EventNames DEF Precedes, MayPrecede
  <2>. QED
    BY <1>2, <2>1, <2>2, LeadsOne DEF closeActiveBlock
<1>. QED
  BY <1>1, <1>2

LEMMA Switches ==
  ASSUME NEW K, "stop" \in K, NEW block \in DOMAIN StartOf, StartOf[block] \in K,
         NEW from \in Blocks, NEW p, Inside(from, p)
  PROVE  \E q \in {StartOf[block], "delta"} : Leads(K, p, switchBlock(from, block), q)
<1>1. CASE from = block
  BY <1>1, LeadsNone, EventNames DEF switchBlock, Inside
<1>2. CASE from # block
  <2>1. PICK q \in {"message_start", "stop"} : Leads(K, p, closeActiveBlock(from), q)
    BY Closes
  <2>2. Leads(K, q, <<StartOf[block]>>, StartOf[block])
    BY Opens
  <2>3. Leads(K, p, closeActiveBlock(from) \o <<StartOf[block]>>, StartOf[block])
    BY <2>1, <2>2, LeadsConcat
  <2>. QED
    BY <1>2, <2>3 DEF switchBlock
<1>. QED
  BY <1>1, <1>2

\* A delta in the block.
LEMMA DeltaLeads ==
  ASSUME NEW K, "delta" \in K, NEW p, p \in Starts \cup {"delta"}
  PROVE  Leads(K, p, <<"delta">>, "delta")
<1>1. Precedes(p, "delta") /\ "delta" \in SSEEvents
  BY EventNames DEF Precedes, MayPrecede, SSEEvents
<1>. QED
  BY <1>1, LeadsOne

\* The gate's operation changes nothing of the stream.
LEMMA GateLeads ==
  ASSUME NEW K, "promote" \in K, NEW p, NEW w, NEW t
  PROVE  Leads(K, p, fireVisibleOutput(w), p) /\ Leads(K, p, fireVisibleText(w, t), p)
BY LeadsNone, LeadsGate DEF fireVisibleOutput, fireVisibleText

\* The promotions of streams put together.
LEMMA PromotesConcat ==
  ASSUME NEW K, NEW p, NEW q, NEW r, NEW s, NEW t, Leads(K, p, s, q), Leads(K, q, t, r)
  PROVE  Promotes(s \o t) <=> Promotes(s) \/ Promotes(t)
<1> DEFINE v == s \o t
<1>1. /\ s \in Seq(K) /\ t \in Seq(K) /\ Len(s) \in Nat /\ Len(t) \in Nat /\ Len(v) = Len(s) + Len(t)
      /\ \A i \in 1..(Len(s) + Len(t)) : v[i] = IF i <= Len(s) THEN s[i] ELSE t[i - Len(s)]
  BY ConcatProperties, LenProperties DEF Leads
<1> HIDE DEF v
<1>2. ASSUME NEW i \in 1..Len(v), v[i] = "promote" PROVE Promotes(s) \/ Promotes(t)
  <2>1. CASE i <= Len(s)
    BY <1>1, <1>2, <2>1 DEF Promotes
  <2>2. CASE ~(i <= Len(s))
    <3>1. i - Len(s) \in 1..Len(t) /\ t[i - Len(s)] = "promote"
      BY <1>1, <1>2, <2>2
    <3>. QED
      BY <3>1 DEF Promotes
  <2>. QED
    BY <2>1, <2>2
<1>3. ASSUME NEW i \in 1..Len(s), s[i] = "promote" PROVE Promotes(v)
  <2>1. i \in 1..Len(v) /\ v[i] = "promote"
    BY <1>1, <1>3
  <2>. QED
    BY <2>1 DEF Promotes
<1>4. ASSUME NEW i \in 1..Len(t), t[i] = "promote" PROVE Promotes(v)
  <2>1. Len(s) + i \in 1..Len(v) /\ v[Len(s) + i] = "promote"
    <3>1. Len(s) + i \in 1..Len(v) /\ ~(Len(s) + i <= Len(s)) /\ (Len(s) + i) - Len(s) = i
      BY <1>1
    <3>. QED
      BY <1>1, <1>4, <3>1
  <2>. QED
    BY <2>1 DEF Promotes
<1>. QED
  BY <1>2, <1>3, <1>4 DEF Promotes, v

\* An operation of the writer: message_start first, if it is missing, then the operation's own.
LEMMA OutputLeads ==
  ASSUME NEW K, "message_start" \in K, NEW w, NEW p, At(w, p), NEW ops, NEW block \in Blocks, NEW a, NEW q,
         \A b : Inside(w.active, b) => Leads(K, b, ops, q)
  PROVE  LET r == Output(w, ops, block, a)
         IN /\ Leads(K, p, r.ops, q)
            /\ r.w \in Writers /\ r.w.active = block /\ r.w.started /\ r.w.err = w.err /\ r.acc = a
            /\ r.w.fired <=> w.fired \/ Promotes(r.ops)
            /\ Promotes(r.ops) <=> Promotes(ops)
<1> DEFINE all == ensureStarted(w) \o ops
           r == Output(w, ops, block, a)
<1>1. PICK b : Inside(w.active, b) /\ Leads(K, p, ensureStarted(w), b) /\ ~Promotes(ensureStarted(w))
  <2>1. CASE w.started
    BY <2>1, LeadsNone, Len(<<>>) = 0 DEF At, ensureStarted, Promotes
  <2>2. CASE ~w.started
    <3>1. p = "" /\ Inside(w.active, "message_start")
      BY <2>2 DEF At, Inside
    <3>2. Leads(K, p, <<"message_start">>, "message_start")
      BY <3>1, LeadsOne DEF Precedes, SSEEvents
    <3>3. ~Promotes(<<"message_start">>)
      <4>1. Len(<<"message_start">>) = 1 /\ <<"message_start">>[1] = "message_start"
        OBVIOUS
      <4>. QED
        BY <4>1 DEF Promotes
    <3>. QED
      BY <2>2, <3>1, <3>2, <3>3 DEF ensureStarted
  <2>. QED
    BY <2>1, <2>2
<1>2. Leads(K, b, ops, q)
  BY <1>1
<1>3. Leads(K, p, all, q) /\ (Promotes(all) <=> Promotes(ops))
  BY <1>1, <1>2, LeadsConcat, PromotesConcat
<1>4. w.started \/ all # <<>>
  <2>1. CASE ~w.started
    <3>1. <<"message_start">> \in Seq(K) /\ Len(<<"message_start">>) = 1 /\ ops \in Seq(K) /\ Len(ops) \in Nat
      BY <1>2, LenProperties DEF Leads
    <3>2. Len(all) = 1 + Len(ops)
      BY <2>1, <3>1, ConcatProperties DEF ensureStarted
    <3>. QED
      BY <3>1, <3>2, Len(<<>>) = 0
  <2>. QED
    BY <2>1
<1> HIDE DEF all
<1>5. r = [w |-> Written(w, all, block), ops |-> all, acc |-> a]
  BY DEF Output, all
<1>6. /\ w \in Writers /\ block \in {""} \cup DOMAIN StartOf
  BY DEF At, Blocks
<1>7. /\ Written(w, all, block) = [w EXCEPT !.active = block, !.started = @ \/ all # <<>>, !.fired = @ \/ Promotes(all)]
  BY DEF Written, Promotes
<1>8. /\ Written(w, all, block) \in Writers /\ Written(w, all, block).active = block
      /\ Written(w, all, block).started /\ Written(w, all, block).err = w.err
      /\ (Written(w, all, block).fired <=> w.fired \/ Promotes(all))
  <2>1. (w.started \/ all # <<>>) \in BOOLEAN /\ (w.fired \/ Promotes(all)) \in BOOLEAN
    OBVIOUS
  <2> DEFINE st == w.started \/ all # <<>>
             fi == w.fired \/ Promotes(all)
  <2>2. Written(w, all, block) = [w EXCEPT !.active = block, !.started = st, !.fired = fi]
    BY <1>7
  <2>3. st /\ st \in BOOLEAN /\ fi \in BOOLEAN
    BY <1>4
  <2> HIDE DEF st, fi
  <2>4. /\ Written(w, all, block) \in Writers /\ Written(w, all, block).active = block
        /\ Written(w, all, block).started = st /\ Written(w, all, block).err = w.err
        /\ Written(w, all, block).fired = fi
    BY <1>6, <2>2, <2>3 DEF Writers
  <2>. QED
    BY <2>3, <2>4 DEF fi
<1>. QED
  BY <1>3, <1>5, <1>8 DEF r

-----------------------------------------------------------------------------
(***************************************************************************)
(* What an operation yields: its events lead on to q, none of them is a    *)
(* search's, a tool call comes through the open gate, and the gate opens   *)
(* only once the accumulator shows something to the user.                  *)
(***************************************************************************)
Shows(a) == a.text \in {"visible", "padded", "paddedEcho"} \/ a.tool

Yields(w, a, p, r, q) ==
  /\ Leads(Plain, p, r.ops, q) /\ (r.w.fired \/ Leads(Toolless, p, r.ops, q))
  /\ r.w \in Writers /\ r.w.err = w.err /\ (r.w.started \/ (r.w = w /\ r.ops = <<>>))
  /\ r.w.fired <=> w.fired \/ Promotes(r.ops)
  /\ r.acc \in Accumulators
  /\ Shows(a) \/ Promotes(r.ops) => Shows(r.acc)

LEMMA PlainNames ==
  /\ {"promote", "message_start", "delta", "stop", "message_delta", "message_stop", "thinking_start",
      "text_start", "tool_use_start", "redacted_start"} \subseteq Plain
  /\ {"promote", "message_start", "delta", "stop", "message_delta", "message_stop", "thinking_start",
      "text_start", "redacted_start"} \subseteq Toolless
  /\ Toolless \subseteq Plain /\ Plain \subseteq Operations
BY EventNames DEF Toolless, Plain, Operations, SSEEvents

LEMMA PromotesOf ==
  /\ ~Promotes(<<>>) /\ Promotes(<<"promote">>)
  /\ \A e : e # "promote" => ~Promotes(<<e>>)
  /\ \A e, f : e # "promote" /\ f # "promote" => ~Promotes(<<e, f>>)
<1>1. \A e : Len(<<e>>) = 1 /\ <<e>>[1] = e
  OBVIOUS
<1>2. \A e, f : Len(<<e, f>>) = 2 /\ <<e, f>>[1] = e /\ <<e, f>>[2] = f
  OBVIOUS
<1>3. 1 \in 1..1
  OBVIOUS
<1>. QED
  BY <1>1, <1>2, <1>3, Len(<<>>) = 0 DEF Promotes

\* Text that shows something keeps doing so; what opens the gate shows something.
LEMMA TextSteps ==
  ASSUME NEW x \in DOMAIN NextText, NEW t \in NextText[x]
  PROVE  /\ t \in DOMAIN NextText
         /\ x \in {"visible", "padded", "paddedEcho"} \/ ~MayBeSyntheticEmptyEcho(t)
              => t \in {"visible", "padded", "paddedEcho"}
BY DEF NextText, MayBeSyntheticEmptyEcho, IsSyntheticEmptyEcho

\* One operation behind the other.
LEMMA ThenYields ==
  ASSUME NEW w, NEW a, NEW p, NEW d, NEW q, NEW e, NEW r,
         Yields(w, a, p, d, q), Yields(d.w, d.acc, q, e, r)
  PROVE  Yields(w, a, p, Then(d, e), r)
<1>1. Then(d, e).w = e.w /\ Then(d, e).acc = e.acc /\ Then(d, e).ops = d.ops \o e.ops
  BY DEF Then
<1>2. /\ Leads(Plain, p, d.ops \o e.ops, r)
      /\ Promotes(d.ops \o e.ops) <=> Promotes(d.ops) \/ Promotes(e.ops)
  BY LeadsConcat, PromotesConcat DEF Yields
<1>3. e.w.fired \/ Leads(Toolless, p, d.ops \o e.ops, r)
  BY LeadsConcat DEF Yields
<1>4. e.w.started \/ (e.w = w /\ d.ops \o e.ops = <<>>)
  <2>1. <<>> \o <<>> = <<>>
    BY EmptySeq, ConcatEmptySeq
  <2>. QED
    BY <2>1 DEF Yields
<1>5. /\ e.w.fired <=> w.fired \/ Promotes(d.ops) \/ Promotes(e.ops)
      /\ Shows(a) \/ Promotes(d.ops) \/ Promotes(e.ops) => Shows(e.acc)
      /\ e.w \in Writers /\ e.w.err = w.err /\ e.acc \in Accumulators
  BY DEF Yields
<1>. QED
  BY <1>1, <1>2, <1>3, <1>4, <1>5 DEF Yields

\* None of these promotes.
LEMMA BlocksDoNotPromote ==
  ASSUME NEW block \in Blocks, NEW to \in DOMAIN StartOf
  PROVE  ~Promotes(closeActiveBlock(block)) /\ ~Promotes(switchBlock(block, to)) /\ ~Promotes(<<StartOf[to]>>)
<1>1. ~Promotes(closeActiveBlock(block))
  BY PromotesOf DEF closeActiveBlock
<1>2. ~Promotes(<<StartOf[to]>>)
  BY PromotesOf, EventNames
<1>3. ~Promotes(closeActiveBlock(block) \o <<StartOf[to]>>)
  <2>1. CASE block = ""
    <3>1. <<StartOf[to]>> \in Seq({StartOf[to]})
      OBVIOUS
    <3>2. closeActiveBlock(block) \o <<StartOf[to]>> = <<StartOf[to]>>
      BY <2>1, <3>1, ConcatEmptySeq DEF closeActiveBlock
    <3>. QED
      BY <1>2, <3>2
  <2>2. CASE block # ""
    <3> DEFINE v == <<"stop">> \o <<StartOf[to]>>
               one == <<"stop">>
               two == <<StartOf[to]>>
               K == {"stop", StartOf[to]}
    <3>1. one \in Seq(K) /\ two \in Seq(K) /\ Len(one) = 1 /\ Len(two) = 1 /\ "promote" \notin K
      BY EventNames
    <3> HIDE DEF one, two, K
    <3>2. one \o two \in Seq(K)
      BY <3>1, ConcatProperties
    <3>3. ~Promotes(one \o two)
      BY <3>1, <3>2, ElementOfSeq DEF Promotes
    <3>. QED
      BY <2>2, <3>3 DEF closeActiveBlock, one, two
  <2>. QED
    BY <2>1, <2>2
<1>. QED
  BY <1>1, <1>2, <1>3, PromotesOf DEF switchBlock

\* A delta of thinking or text, behind a gate that does not change the stream.
LEMMA BlockDelta ==
  ASSUME NEW gate, \A b : Leads(Toolless, b, gate, b),
         NEW to \in {"thinking", "text"}, NEW from \in Blocks, NEW b, Inside(from, b)
  PROVE  /\ Leads(Toolless, b, gate \o switchBlock(from, to) \o <<"delta">>, "delta")
         /\ Promotes(gate \o switchBlock(from, to) \o <<"delta">>) <=> Promotes(gate)
<1>1. PICK c \in {StartOf[to], "delta"} : Leads(Toolless, b, switchBlock(from, to), c)
  BY Switches, EventNames, PlainNames
<1>2. Leads(Toolless, c, <<"delta">>, "delta") /\ ~Promotes(<<"delta">>)
  BY DeltaLeads, PromotesOf, EventNames, PlainNames
<1>3. Leads(Toolless, b, gate, b) /\ ~Promotes(switchBlock(from, to))
  BY BlocksDoNotPromote, EventNames
<1>4. /\ Leads(Toolless, b, gate \o switchBlock(from, to), c)
      /\ Promotes(gate \o switchBlock(from, to)) <=> Promotes(gate)
  BY <1>1, <1>3, LeadsConcat, PromotesConcat
<1>. QED
  BY <1>2, <1>4, LeadsConcat, PromotesConcat

\* Each kind of delta.
LEMMA ThinkingOK ==
  ASSUME NEW w, NEW p, At(w, p), NEW a \in Accumulators
  PROVE  LET d == ThinkingDelta(w, a) IN Yields(w, a, p, d, "delta") /\ At(d.w, "delta")
<1> DEFINE ops == switchBlock(w.active, "thinking") \o <<"delta">>
           b1 == [a EXCEPT !.thought = TRUE]
<1>1. w.active \in Blocks
  BY DEF At, Writers, Blocks
<1>2. ASSUME NEW b, Inside(w.active, b) PROVE Leads(Toolless, b, ops, "delta") /\ ~Promotes(ops)
  <2>1. PICK c \in {StartOf["thinking"], "delta"} : Leads(Toolless, b, switchBlock(w.active, "thinking"), c)
    BY <1>1, <1>2, Switches, EventNames, PlainNames
  <2>2. Leads(Toolless, c, <<"delta">>, "delta") /\ ~Promotes(<<"delta">>)
    BY DeltaLeads, PromotesOf, EventNames, PlainNames
  <2>3. ~Promotes(switchBlock(w.active, "thinking"))
    BY <1>1, BlocksDoNotPromote, EventNames
  <2>. QED
    BY <2>1, <2>2, <2>3, LeadsConcat, PromotesConcat
<1>3. PICK b : Inside(w.active, b)
  BY DEF Inside
<1>4. ~Promotes(ops)
  BY <1>2, <1>3
<1>5. b1 \in Accumulators /\ (Shows(a) => Shows(b1))
  BY DEF Accumulators, Shows
<1> HIDE DEF ops, b1
<1>6. /\ "thinking" \in Blocks /\ "message_start" \in Toolless /\ Inside("thinking", "delta")
  BY EventNames, PlainNames DEF Blocks, Inside
<1>7. LET r == Output(w, ops, "thinking", b1)
      IN /\ Leads(Toolless, p, r.ops, "delta")
         /\ r.w \in Writers /\ r.w.active = "thinking" /\ r.w.started /\ r.w.err = w.err /\ r.acc = b1
         /\ r.w.fired <=> w.fired \/ Promotes(r.ops)
         /\ Promotes(r.ops) <=> Promotes(ops)
  BY <1>2, <1>6, OutputLeads
<1>. QED
  BY <1>4, <1>5, <1>6, <1>7, LeadsMono, PlainNames DEF ThinkingDelta, Yields, At, ops, b1

LEMMA TextOK ==
  ASSUME NEW w, NEW p, At(w, p), NEW a \in Accumulators, NEW t \in NextText[a.text]
  PROVE  LET d == TextDelta(w, a, t) IN Yields(w, a, p, d, "delta") /\ At(d.w, "delta")
<1> DEFINE gate == fireVisibleText(w, t)
           ops == gate \o switchBlock(w.active, "text") \o <<"delta">>
           b1 == [a EXCEPT !.text = t]
<1>1. w.active \in Blocks
  BY DEF At, Writers, Blocks
<1>2. \A b : Leads(Toolless, b, gate, b)
  BY GateLeads, PlainNames
<1>3. /\ t \in DOMAIN NextText
      /\ a.text \in {"visible", "padded", "paddedEcho"} \/ ~MayBeSyntheticEmptyEcho(t)
           => t \in {"visible", "padded", "paddedEcho"}
  BY TextSteps DEF Accumulators
<1>4. b1 \in Accumulators /\ (Shows(a) \/ Promotes(gate) => Shows(b1))
  BY <1>3, PromotesOf DEF Accumulators, Shows, fireVisibleText
<1> HIDE DEF gate
<1>5. ASSUME NEW b, Inside(w.active, b)
      PROVE  Leads(Toolless, b, ops, "delta") /\ (Promotes(ops) <=> Promotes(gate))
  BY <1>1, <1>2, <1>5, BlockDelta
<1>6. PICK b : Inside(w.active, b)
  BY DEF Inside
<1>7. Promotes(ops) <=> Promotes(gate)
  BY <1>5, <1>6
<1> HIDE DEF ops, b1
<1>8. /\ "text" \in Blocks /\ "message_start" \in Toolless /\ Inside("text", "delta")
  BY EventNames, PlainNames DEF Blocks, Inside
<1>9. LET r == Output(w, ops, "text", b1)
      IN /\ Leads(Toolless, p, r.ops, "delta")
         /\ r.w \in Writers /\ r.w.active = "text" /\ r.w.started /\ r.w.err = w.err /\ r.acc = b1
         /\ r.w.fired <=> w.fired \/ Promotes(r.ops)
         /\ Promotes(r.ops) <=> Promotes(ops)
  BY <1>5, <1>8, OutputLeads
<1>. QED
  BY <1>4, <1>7, <1>8, <1>9, LeadsMono, PlainNames DEF TextDelta, Yields, At, ops, b1, gate

LEMMA RedactedOK ==
  ASSUME NEW w, NEW p, At(w, p), NEW a \in Accumulators
  PROVE  LET d == RedactedDelta(w, a) IN Yields(w, a, p, d, "stop") /\ At(d.w, "stop")
<1> DEFINE two == <<StartOf["redacted"], "stop">>
           ops == closeActiveBlock(w.active) \o two
           b1 == [a EXCEPT !.thought = TRUE]
<1>1. w.active \in Blocks
  BY DEF At, Writers, Blocks
<1>2. ASSUME NEW b, Inside(w.active, b) PROVE Leads(Toolless, b, ops, "stop") /\ ~Promotes(ops)
  <2>1. PICK c \in {"message_start", "stop"} : Leads(Toolless, b, closeActiveBlock(w.active), c)
    BY <1>1, <1>2, Closes, PlainNames
  <2>2. Precedes(c, "redacted_start") /\ "redacted_start" \in MayPrecede("stop")
    BY EventNames DEF Precedes, MayPrecede
  <2>3. Leads(Toolless, c, two, "stop") /\ ~Promotes(two)
    BY <2>2, LeadsTwo, PromotesOf, EventNames, PlainNames DEF SSEEvents
  <2>4. ~Promotes(closeActiveBlock(w.active))
    BY <1>1, BlocksDoNotPromote, EventNames
  <2> HIDE DEF two
  <2>. QED
    BY <2>1, <2>3, <2>4, LeadsConcat, PromotesConcat
<1>3. PICK b : Inside(w.active, b)
  BY DEF Inside
<1>4. ~Promotes(ops)
  BY <1>2, <1>3
<1>5. b1 \in Accumulators /\ (Shows(a) => Shows(b1))
  BY DEF Accumulators, Shows
<1> HIDE DEF ops, b1
<1>6. /\ "" \in Blocks /\ "message_start" \in Toolless /\ Inside("", "stop")
  BY EventNames, PlainNames DEF Blocks, Inside
<1>7. LET r == Output(w, ops, "", b1)
      IN /\ Leads(Toolless, p, r.ops, "stop")
         /\ r.w \in Writers /\ r.w.active = "" /\ r.w.started /\ r.w.err = w.err /\ r.acc = b1
         /\ r.w.fired <=> w.fired \/ Promotes(r.ops)
         /\ Promotes(r.ops) <=> Promotes(ops)
  BY <1>2, <1>6, OutputLeads
<1>. QED
  BY <1>4, <1>5, <1>6, <1>7, LeadsMono, PlainNames DEF RedactedDelta, Yields, At, ops, b1

LEMMA ToolUseOK ==
  ASSUME NEW w, NEW p, At(w, p), NEW a \in Accumulators
  PROVE  LET d == ToolUseDelta(w, a) IN Yields(w, a, p, d, "delta") /\ At(d.w, "delta")
<1> DEFINE two == <<StartOf["tool_use"], "delta">>
           gate == fireVisibleOutput(w)
           ops == gate \o closeActiveBlock(w.active) \o two
           b1 == [a EXCEPT !.tool = TRUE]
<1>1. w.active \in Blocks
  BY DEF At, Writers, Blocks
<1>2. ASSUME NEW b, Inside(w.active, b) PROVE Leads(Plain, b, ops, "delta")
  <2>1. PICK c \in {"message_start", "stop"} : Leads(Plain, b, closeActiveBlock(w.active), c)
    BY <1>1, <1>2, Closes, PlainNames
  <2>2. Precedes(c, "tool_use_start") /\ "tool_use_start" \in MayPrecede("delta")
    BY EventNames DEF Precedes, MayPrecede
  <2>3. Leads(Plain, c, two, "delta")
    BY <2>2, LeadsTwo, EventNames, PlainNames DEF SSEEvents
  <2>4. Leads(Plain, b, gate, b)
    BY GateLeads, PlainNames
  <2> HIDE DEF two, gate
  <2>5. Leads(Plain, b, gate \o closeActiveBlock(w.active), c)
    BY <2>1, <2>4, LeadsConcat
  <2>. QED
    BY <2>3, <2>5, LeadsConcat
<1>3. b1 \in Accumulators /\ Shows(b1)
  BY DEF Accumulators, Shows
<1>6. ASSUME NEW b, Inside(w.active, b) PROVE Promotes(ops) \/ w.fired
  <2>1. Promotes(gate) \/ w.fired
    BY PromotesOf DEF fireVisibleOutput
  <2>2. Leads(Plain, b, gate, b)
    BY GateLeads, PlainNames
  <2>3. PICK c \in {"message_start", "stop"} : Leads(Plain, b, closeActiveBlock(w.active), c)
    BY <1>1, <1>6, Closes, PlainNames
  <2>4. Precedes(c, "tool_use_start") /\ "tool_use_start" \in MayPrecede("delta")
    BY EventNames DEF Precedes, MayPrecede
  <2>5. Leads(Plain, c, two, "delta")
    BY <2>4, LeadsTwo, EventNames, PlainNames DEF SSEEvents
  <2> HIDE DEF two, gate
  <2>6. Leads(Plain, b, gate \o closeActiveBlock(w.active), c) /\ (Promotes(gate) => Promotes(gate \o closeActiveBlock(w.active)))
    BY <2>2, <2>3, LeadsConcat, PromotesConcat
  <2>. QED
    BY <2>1, <2>5, <2>6, PromotesConcat
<1>7. Promotes(ops) \/ w.fired
  BY <1>6 DEF Inside
<1> HIDE DEF ops, b1
<1>4. /\ "tool_use" \in Blocks /\ "message_start" \in Plain /\ Inside("tool_use", "delta")
  BY EventNames, PlainNames DEF Blocks, Inside
<1>5. LET r == Output(w, ops, "tool_use", b1)
      IN /\ Leads(Plain, p, r.ops, "delta")
         /\ r.w \in Writers /\ r.w.active = "tool_use" /\ r.w.started /\ r.w.err = w.err /\ r.acc = b1
         /\ r.w.fired <=> w.fired \/ Promotes(r.ops)
         /\ Promotes(r.ops) <=> Promotes(ops)
  BY <1>2, <1>4, OutputLeads
<1>. QED
  BY <1>3, <1>4, <1>5, <1>7 DEF ToolUseDelta, Yields, At, ops, b1

LEMMA SilentOK ==
  ASSUME NEW w, NEW p, At(w, p), NEW a \in Accumulators, NEW b \in Accumulators, b.text = a.text, b.tool = a.tool
  PROVE  LET d == Silent(w, b) IN Yields(w, a, p, d, p) /\ At(d.w, p)
<1>1. Leads(Plain, p, <<>>, p) /\ Leads(Toolless, p, <<>>, p) /\ ~Promotes(<<>>)
  BY LeadsNone, PromotesOf
<1>2. w \in Writers
  BY DEF At
<1>3. w.fired <=> w.fired \/ Promotes(<<>>)
  BY <1>1
<1>4. Shows(a) => Shows(b)
  BY DEF Shows
<1>. QED
  BY <1>1, <1>2, <1>3, <1>4 DEF Silent, Yields

LEMMA ThinkingTextOK ==
  ASSUME NEW w, NEW p, At(w, p), NEW a \in Accumulators, NEW t \in NextText[a.text]
  PROVE  LET d == ThinkingTextDelta(w, a, t) IN Yields(w, a, p, d, "delta") /\ At(d.w, "delta")
<1> DEFINE d == ThinkingDelta(w, a)
           e == TextDelta(d.w, d.acc, t)
<1>1. Yields(w, a, p, d, "delta") /\ At(d.w, "delta")
  BY ThinkingOK
<1>2. d.acc \in Accumulators /\ d.acc.text = a.text
  <2>1. d.acc = [a EXCEPT !.thought = TRUE]
    BY DEF ThinkingDelta, Output
  <2>. QED
    BY <1>1, <2>1 DEF Yields, Accumulators
<1> HIDE DEF d
<1>3. Yields(d.w, d.acc, "delta", e, "delta") /\ At(e.w, "delta")
  BY <1>1, <1>2, TextOK
<1> HIDE DEF e
<1>4. Yields(w, a, p, Then(d, e), "delta") /\ Then(d, e).w = e.w
  <2>. SUFFICES ASSUME NEW x, NEW y, x = d, y = e
                PROVE  Yields(w, a, p, Then(x, y), "delta") /\ Then(x, y).w = y.w
    OBVIOUS
  <2>1. Yields(w, a, p, x, "delta") /\ Yields(x.w, x.acc, "delta", y, "delta")
    BY <1>1, <1>3
  <2>2. Yields(w, a, p, Then(x, y), "delta")
    BY <2>1, ThenYields
  <2>. QED
    BY <2>2 DEF Then
<1>5. ThinkingTextDelta(w, a, t) = Then(d, e)
  BY DEF ThinkingTextDelta, d, e
<1>. QED
  BY <1>3, <1>4, <1>5

\* Content, or none.
LEMMA ContentOK ==
  ASSUME NEW w, NEW p, At(w, p), NEW a \in Accumulators, NEW kinds,
         NEW d \in {Silent(w, a)} \cup Content(w, a, kinds)
  PROVE  /\ \E q : Yields(w, a, p, d, q) /\ At(d.w, q)
         /\ d = [w |-> d.w, ops |-> d.ops, acc |-> d.acc]
         /\ d.acc.stopped = a.stopped
<1>1. CASE d = Silent(w, a)
  BY <1>1, SilentOK DEF Silent
<1>2. CASE d = ThinkingDelta(w, a)
  BY <1>2, ThinkingOK DEF ThinkingDelta, Output, Accumulators
<1>3. ASSUME NEW t \in NextText[a.text], d = TextDelta(w, a, t)
      PROVE  /\ \E q : Yields(w, a, p, d, q) /\ At(d.w, q)
             /\ d = [w |-> d.w, ops |-> d.ops, acc |-> d.acc]
             /\ d.acc.stopped = a.stopped
  BY <1>3, TextOK DEF TextDelta, Output, Accumulators
<1>4. ASSUME NEW t \in NextText[a.text], d = ThinkingTextDelta(w, a, t)
      PROVE  /\ \E q : Yields(w, a, p, d, q) /\ At(d.w, q)
             /\ d = [w |-> d.w, ops |-> d.ops, acc |-> d.acc]
             /\ d.acc.stopped = a.stopped
  BY <1>4, ThinkingTextOK DEF ThinkingTextDelta, ThinkingDelta, TextDelta, Then, Output, Accumulators
<1>5. \/ d = Silent(w, a) \/ d = ThinkingDelta(w, a)
      \/ \E t \in NextText[a.text] : d = TextDelta(w, a, t) \/ d = ThinkingTextDelta(w, a, t)
  BY DEF Content
<1>. QED
  BY <1>1, <1>2, <1>3, <1>4, <1>5

\* What a frame's deltas write.
LEMMA DeltaOK ==
  ASSUME NEW w, NEW p, At(w, p), NEW a \in Accumulators, NEW stop \in BOOLEAN, NEW d \in Deltas(w, a, stop)
  PROVE  /\ \E q : Yields(w, a, p, d, q) /\ At(d.w, q)
         /\ d = [w |-> d.w, ops |-> d.ops, acc |-> d.acc]
<1>1. CASE d = RedactedDelta(w, a)
  BY <1>1, RedactedOK DEF RedactedDelta, Output
<1>2. CASE d = ToolUseDelta(w, a)
  BY <1>2, ToolUseOK DEF ToolUseDelta, Output
<1>3. CASE d \in {Silent(w, a)} \cup Content(w, a, {"text", "thinking"})
  BY <1>3, ContentOK
<1>4. ASSUME NEW kinds \in SUBSET {"text", "thinking"}, d = Silent(w, [a EXCEPT !.held = kinds])
      PROVE  /\ \E q : Yields(w, a, p, d, q) /\ At(d.w, q)
             /\ d = [w |-> d.w, ops |-> d.ops, acc |-> d.acc]
  <2> DEFINE b == [a EXCEPT !.held = kinds]
  <2>1. b \in Accumulators /\ b.text = a.text /\ b.tool = a.tool
    BY DEF Accumulators
  <2> HIDE DEF b
  <2>. QED
    BY <1>4, <2>1, SilentOK DEF Silent, b
<1>5. \/ d = RedactedDelta(w, a) \/ d = ToolUseDelta(w, a)
      \/ d \in {Silent(w, a)} \cup Content(w, a, {"text", "thinking"})
      \/ \E kinds \in SUBSET {"text", "thinking"} : d = Silent(w, [a EXCEPT !.held = kinds])
  BY DEF Deltas
<1>. QED
  BY <1>1, <1>2, <1>3, <1>4, <1>5

\* The open block is closed and the message ended.
LEMMA CloseOK ==
  ASSUME NEW w, NEW p, At(w, p), NEW a \in Accumulators, NEW b1 \in Accumulators, Shows(a) => Shows(b1)
  PROVE  LET o == Output(w, closeActiveBlock(w.active) \o <<"message_delta", "message_stop">>, "", b1)
         IN Yields(w, a, p, o, "message_stop") /\ o.w.started /\ o.acc = b1
<1> DEFINE two == <<"message_delta", "message_stop">>
           ops == closeActiveBlock(w.active) \o two
<1>1. w.active \in Blocks
  BY DEF At, Writers, Blocks
<1>2. ASSUME NEW b, Inside(w.active, b) PROVE Leads(Toolless, b, ops, "message_stop") /\ ~Promotes(ops)
  <2>1. PICK e \in {"message_start", "stop"} : Leads(Toolless, b, closeActiveBlock(w.active), e)
    BY <1>1, <1>2, Closes, PlainNames
  <2>2. Precedes(e, "message_delta") /\ "message_delta" \in MayPrecede("message_stop")
    BY EventNames DEF Precedes, MayPrecede
  <2>3. Leads(Toolless, e, two, "message_stop") /\ ~Promotes(two)
    BY <2>2, LeadsTwo, PromotesOf, PlainNames DEF SSEEvents
  <2>4. ~Promotes(closeActiveBlock(w.active))
    BY <1>1, BlocksDoNotPromote, EventNames
  <2> HIDE DEF two
  <2>. QED
    BY <2>1, <2>3, <2>4, LeadsConcat, PromotesConcat
<1>3. PICK b : Inside(w.active, b)
  BY DEF Inside
<1>4. ~Promotes(ops)
  BY <1>2, <1>3
<1>5. "" \in Blocks /\ "message_start" \in Toolless
  BY PlainNames DEF Blocks
<1> HIDE DEF ops
<1>6. LET r == Output(w, ops, "", b1)
      IN /\ Leads(Toolless, p, r.ops, "message_stop")
         /\ r.w \in Writers /\ r.w.active = "" /\ r.w.started /\ r.w.err = w.err /\ r.acc = b1
         /\ r.w.fired <=> w.fired \/ Promotes(r.ops)
         /\ Promotes(r.ops) <=> Promotes(ops)
  BY <1>2, <1>5, OutputLeads
<1>. QED
  BY <1>4, <1>6, LeadsMono, PlainNames DEF Yields, ops

\* Finish closes the open block and ends the message.
LEMMA FinishOK ==
  ASSUME NEW w, NEW p, At(w, p), NEW a \in Accumulators, NEW f \in Finish(w, a)
  PROVE  Yields(w, a, p, f, "message_stop") /\ f.w.started /\ (a.stopped => f.acc.stopped)
<1>1. PICK d \in Flushed(w, a), stop \in BOOLEAN : f = Closing(d, stop)
  BY DEF Finish
<1>2. PICK q : Yields(w, a, p, d, q) /\ At(d.w, q) /\ d.acc.stopped = a.stopped
  BY ContentOK DEF Flushed
<1>3. PICK v, c, b1 : v = d.w /\ c = d.acc /\ b1 = AfterFinalize(c, stop)
  OBVIOUS
<1>4. c \in Accumulators
  BY <1>2, <1>3 DEF Yields
<1>5. /\ b1 \in Accumulators /\ b1.text = c.text /\ b1.tool = c.tool
      /\ c.stopped => b1.stopped
  BY <1>3, <1>4 DEF AfterFinalize, Accumulators
<1>6. PICK o : o = Output(v, closeActiveBlock(v.active) \o <<"message_delta", "message_stop">>, "", b1)
  OBVIOUS
<1>7. Yields(v, c, q, o, "message_stop") /\ o.w.started /\ o.acc = b1
  <2>1. Shows(c) => Shows(b1)
    BY <1>5 DEF Shows
  <2>. QED
    BY <1>2, <1>3, <1>4, <1>5, <1>6, <2>1, CloseOK
<1>8. f = Then(d, o)
  BY <1>1, <1>3, <1>6 DEF Closing
<1>9. Yields(d.w, d.acc, q, o, "message_stop")
  BY <1>3, <1>7
<1>10. Yields(w, a, p, Then(d, o), "message_stop")
  BY <1>2, <1>9, ThenYields
<1>11. Then(d, o).w = o.w /\ Then(d, o).acc = o.acc
  BY DEF Then
<1>. QED
  BY <1>2, <1>3, <1>5, <1>7, <1>8, <1>10, <1>11

\* A frame: its deltas, and the end of the message if it finishes the stream at once.
LEMMA HandleOK ==
  ASSUME NEW w, NEW p, At(w, p), NEW a \in Accumulators, NEW drains, NEW r \in HandleEvent(w, a, drains)
  PROVE  /\ r.local \in BOOLEAN
         /\ r.local => Yields(w, a, p, r, "message_stop") /\ r.w.started /\ r.acc.stopped
         /\ ~r.local => \E q : Yields(w, a, p, r, q) /\ At(r.w, q)
<1>0. PICK stop \in BOOLEAN :
        r \in UNION {stopOrDrain([e EXCEPT !.acc.stopped = @ \/ stop], drains) : e \in Deltas(w, a, stop)}
  BY DEF HandleEvent
<1>1. PICK e \in Deltas(w, a, stop) : r \in stopOrDrain([e EXCEPT !.acc.stopped = @ \/ stop], drains)
  BY <1>0
<1> DEFINE d == [e EXCEPT !.acc.stopped = @ \/ stop]
<1>2. PICK q : Yields(w, a, p, e, q) /\ At(e.w, q)
  BY DeltaOK
<1>3. /\ d.w = e.w /\ d.ops = e.ops /\ d.acc \in Accumulators
      /\ d.acc.text = e.acc.text /\ d.acc.tool = e.acc.tool
  <2>1. e.acc \in Accumulators
    BY <1>2 DEF Yields
  <2>2. e = [w |-> e.w, ops |-> e.ops, acc |-> e.acc]
    BY DeltaOK
  <2> DEFINE st == e.acc.stopped \/ stop
  <2>3. st \in BOOLEAN
    OBVIOUS
  <2>4. d = [e EXCEPT !.acc = [e.acc EXCEPT !.stopped = st]]
    OBVIOUS
  <2> HIDE DEF d, st
  <2>5. /\ [e.acc EXCEPT !.stopped = st] \in Accumulators
        /\ [e.acc EXCEPT !.stopped = st].text = e.acc.text /\ [e.acc EXCEPT !.stopped = st].tool = e.acc.tool
    BY <2>1, <2>3 DEF Accumulators
  <2>. QED
    BY <2>2, <2>4, <2>5
<1>4. Yields(w, a, p, d, q)
  BY <1>2, <1>3 DEF Yields, Shows
<1> HIDE DEF d
<1>5. ASSUME r = [w |-> d.w, ops |-> d.ops, acc |-> d.acc, local |-> FALSE]
      PROVE  r.local = FALSE /\ Yields(w, a, p, r, q) /\ At(r.w, q)
  BY <1>2, <1>3, <1>4, <1>5 DEF Yields
<1>6. ASSUME d.acc.stopped, NEW f \in Finish(d.w, d.acc),
             r = [w |-> f.w, ops |-> d.ops \o f.ops, acc |-> f.acc, local |-> TRUE]
      PROVE  r.local = TRUE /\ Yields(w, a, p, r, "message_stop") /\ r.w.started /\ r.acc.stopped
  <2>1. Yields(d.w, d.acc, q, f, "message_stop") /\ f.w.started /\ f.acc.stopped
    BY <1>2, <1>3, <1>6, FinishOK
  <2>2. /\ Yields(w, a, p, Then(d, f), "message_stop")
        /\ Then(d, f).w = f.w /\ Then(d, f).acc = f.acc /\ Then(d, f).ops = d.ops \o f.ops
    <3>. SUFFICES ASSUME NEW x, x = d
                  PROVE  /\ Yields(w, a, p, Then(x, f), "message_stop")
                         /\ Then(x, f).w = f.w /\ Then(x, f).acc = f.acc /\ Then(x, f).ops = x.ops \o f.ops
      OBVIOUS
    <3>1. Yields(w, a, p, x, q) /\ Yields(x.w, x.acc, q, f, "message_stop")
      BY <1>4, <2>1
    <3>2. Yields(w, a, p, Then(x, f), "message_stop")
      BY <3>1, ThenYields
    <3>. QED
      BY <3>2 DEF Then
  <2>3. /\ r.ops = d.ops \o f.ops /\ r.w = f.w /\ r.acc = f.acc /\ r.local = TRUE
    BY <1>6
  <2>. QED
    BY <2>1, <2>2, <2>3 DEF Yields
<1>7. \/ r = [w |-> d.w, ops |-> d.ops, acc |-> d.acc, local |-> FALSE]
      \/ /\ d.acc.stopped
         /\ \E f \in Finish(d.w, d.acc) : r = [w |-> f.w, ops |-> d.ops \o f.ops, acc |-> f.acc, local |-> TRUE]
  BY <1>1 DEF stopOrDrain, d
<1>. QED
  BY <1>5, <1>6, <1>7

-----------------------------------------------------------------------------
(* Searches and errors *)

Occurs(s, ev) == {i \in 1..Len(s) : s[i] = ev}

\* A block written at once, behind the gate, with its delta or without one.
Bodies == {<<>>, <<"delta">>}

Block(w, type, delta, a) == Output(w, fireVisibleOutput(w) \o writeBlock(w, type, delta), "", a)

LEMMA SearchOK ==
  ASSUME NEW w, NEW p, At(w, p), NEW a \in Accumulators,
         NEW type \in {"server_tool_use", "search_result"}, NEW delta \in Bodies
  PROVE  LET r == Block(w, type, delta, a)
         IN /\ Leads(Operations, p, r.ops, "stop") /\ At(r.w, "stop")
            /\ r.w.started /\ r.w.fired /\ r.w.err = w.err /\ r.acc = a
            /\ Promotes(r.ops) \/ w.fired
<1> DEFINE gate == fireVisibleOutput(w)
           one == <<StartOf[type]>>
           ops == gate \o writeBlock(w, type, delta)
<1>1. w.active \in Blocks /\ type \in DOMAIN StartOf /\ StartOf[type] \in Operations /\ StartOf[type] \in Starts
  BY EventNames DEF At, Writers, Blocks, Operations, SSEEvents
<1>2. {"promote", "message_start", "delta", "stop"} \subseteq Operations
  BY DEF Operations, SSEEvents
<1>3. ASSUME NEW b, Inside(w.active, b)
      PROVE  Leads(Operations, b, ops, "stop") /\ (Promotes(gate) => Promotes(ops))
  <2>1. Leads(Operations, b, gate, b)
    BY <1>2, GateLeads
  <2>2. PICK c \in {"message_start", "stop"} : Leads(Operations, b, closeActiveBlock(w.active), c)
    BY <1>1, <1>2, <1>3, Closes
  <2>3. Leads(Operations, c, one, StartOf[type])
    BY <1>1, Opens
  <2>4. PICK e \in {StartOf[type], "delta"} : Leads(Operations, StartOf[type], delta, e)
    BY <1>1, <1>2, DeltaLeads, LeadsNone DEF Bodies
  <2>5. Leads(Operations, e, <<"stop">>, "stop")
    <3>1. Precedes(e, "stop") /\ "stop" \in SSEEvents
      BY <1>1, EventNames DEF Precedes, MayPrecede, SSEEvents
    <3>. QED
      BY <1>2, <3>1, LeadsOne
  <2> HIDE DEF gate, one
  <2>6. Leads(Operations, b, closeActiveBlock(w.active) \o one, StartOf[type])
    BY <2>2, <2>3, LeadsConcat
  <2>7. Leads(Operations, b, (closeActiveBlock(w.active) \o one) \o delta, e)
    BY <2>4, <2>6, LeadsConcat
  <2>8. Leads(Operations, b, ((closeActiveBlock(w.active) \o one) \o delta) \o <<"stop">>, "stop")
    BY <2>5, <2>7, LeadsConcat
  <2>9. writeBlock(w, type, delta) = ((closeActiveBlock(w.active) \o one) \o delta) \o <<"stop">>
    BY DEF writeBlock, one
  <2>10. Leads(Operations, b, writeBlock(w, type, delta), "stop")
    BY <2>8, <2>9
  <2>. QED
    BY <2>1, <2>10, LeadsConcat, PromotesConcat
<1>4. PICK b : Inside(w.active, b)
  BY DEF Inside
<1>5. Promotes(ops) \/ w.fired
  <2>1. Promotes(gate) \/ w.fired
    BY PromotesOf DEF fireVisibleOutput
  <2>. QED
    BY <1>3, <1>4, <2>1
<1> HIDE DEF ops
<1>6. "" \in Blocks
  BY DEF Blocks
<1>7. LET r == Output(w, ops, "", a)
      IN /\ Leads(Operations, p, r.ops, "stop")
         /\ r.w \in Writers /\ r.w.active = "" /\ r.w.started /\ r.w.err = w.err /\ r.acc = a
         /\ r.w.fired <=> w.fired \/ Promotes(r.ops)
         /\ Promotes(r.ops) <=> Promotes(ops)
  BY <1>2, <1>3, <1>6, OutputLeads
<1>8. LET r == Output(w, ops, "", a) IN At(r.w, "stop")
  BY <1>7 DEF At, Inside
<1>. QED
  BY <1>5, <1>7, <1>8 DEF Block, ops

LEMMA ErrorOK ==
  ASSUME NEW w, NEW p, At(w, p), w.started
  PROVE  Leads(Plain, p, WriteError(w), "error")
<1>1. w.active \in Blocks /\ Inside(w.active, p)
  BY DEF At, Writers, Blocks
<1>2. PICK c \in {"message_start", "stop"} : Leads(Plain, p, closeActiveBlock(w.active), c)
  BY <1>1, Closes, PlainNames
<1>3. Precedes(c, "error") /\ "error" \in SSEEvents /\ "error" \in Plain
  BY EventNames DEF Precedes, MayPrecede, SSEEvents, Plain, Operations
<1>4. Leads(Plain, c, <<"error">>, "error")
  BY <1>3, LeadsOne
<1>. QED
  BY <1>2, <1>4, LeadsConcat DEF WriteError
=============================================================================
