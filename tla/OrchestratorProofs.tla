------------------------- MODULE OrchestratorProofs -------------------------
(***************************************************************************)
(* What holds of every request that runs through the round loop, whatever  *)
(* the budgets, the queries a model asks for and the length of its         *)
(* responses.                                                              *)
(***************************************************************************)
EXTENDS Orchestrator, SSEWriterProofs, FiniteSetTheorems, FunctionTheorems, TLAPS

Places == SSEEvents \cup {""}

\* The stream s runs from its beginning to q.
Runs(s, q) == Leads(Operations, "", s, q)

\* No block is open.
Idle(w) == w.active = ""

\* A round beyond the last is never begun.
RoundInv ==
  /\ opc \in {"execute", "results"} => round < maxOrchestratorRounds
  /\ opc \in {"call", "parse", "plan", "finish"} => round < maxOrchestratorRounds \/ maxOrchestratorRounds = 0
  /\ opc # "done" => answer = "none"

\* What is planned is only looked at while it is executed, and then all of it is shown, or nothing.
PlanInv ==
  /\ opc \notin {"execute", "results"} => plan = NoPlan
  /\ opc \notin {"parse", "plan"} => caught = NothingCaught
  /\ plan.shown \subseteq plan.web
  /\ ~visible => plan.shown = {}
  /\ visible /\ opc = "results" => plan.shown = plan.web

\* The writer and the gate agree: what is not on the wire holds no tool call and no search.
WriterInv ==
  /\ ~promoted => out \in Seq(Toolless)
  /\ ~sw.started => Idle(sw)
  /\ sw.fired => promoted
  /\ promoted /\ opc # "done" => sw.started

\* A query that was executed, or is about to be, is in the budget, and was shown first.
QueryInv ==
  /\ plan.shown # {} => promoted
  /\ visible => /\ searched > 0 => promoted
                /\ searched + (IF opc = "execute" THEN Cardinality(plan.web) ELSE 0)
                     <= budget.webSearchQueries

\* A result waits for the next call, or for none if the rounds are used up.
OwedInv ==
  owed > 0 => \/ opc \in {"call", "execute", "results"}
              \/ round = maxOrchestratorRounds
              \/ answer \in {"error", "broken"}

\* The message so far leads to where the writer stands, or is complete.
MessageInv ==
  visible =>
    /\ opc = "done" => \E q \in Places : Runs(out, q)
    /\ opc \in {"finished", "deliver"} => Runs(out, "message_stop")
    /\ opc \notin {"finished", "deliver", "done"} =>
         \E q \in Places : Runs(out, q) /\ At(sw, q)

\* A round whose searches are shown leaves no block open for the next one to forget.
BlockInv ==
  visible /\ (\/ opc = "call" /\ round > 0
              \/ opc = "results" \/ opc = "exhausted"
              \/ opc = "execute" /\ (plan.shown # {} \/ plan = NoPlan))
    => Idle(sw)

\* Every search that is shown has its result, but for those still planned.
CountInv ==
  opc # "done" => Count("server_tool_use_start") = Count("search_result_start") + Cardinality(plan.shown)

AnswerInv ==
  /\ opc \in {"finished", "deliver"} => EndsIn(out, {"message_stop"})
  /\ AnsweredInFull

OrchInv ==
  /\ OrchTypeOK /\ RoundInv /\ PlanInv /\ WriterInv /\ QueryInv /\ OwedInv
  /\ MessageInv /\ BlockInv /\ CountInv /\ AnswerInv

-----------------------------------------------------------------------------
(* Counting the events of a message *)

LEMMA OccursFinite ==
  ASSUME NEW K, NEW s \in Seq(K), NEW ev
  PROVE  IsFiniteSet(Occurs(s, ev)) /\ Cardinality(Occurs(s, ev)) \in Nat
<1>1. Len(s) \in Nat /\ Occurs(s, ev) \subseteq 1..Len(s)
  BY LenProperties DEF Occurs
<1>2. IsFiniteSet(1..Len(s))
  BY <1>1, FS_Interval
<1>. QED
  BY <1>1, <1>2, FS_Subset, FS_CardinalityType

LEMMA OccursConcat ==
  ASSUME NEW K, NEW s \in Seq(K), NEW t \in Seq(K), NEW ev
  PROVE  Cardinality(Occurs(s \o t, ev)) = Cardinality(Occurs(s, ev)) + Cardinality(Occurs(t, ev))
<1> DEFINE A == Occurs(s, ev)
           B == Occurs(t, ev)
           C == {i \in (Len(s) + 1)..(Len(s) + Len(t)) : t[i - Len(s)] = ev}
           F == [i \in B |-> Len(s) + i]
           v == s \o t
<1>1. /\ Len(s) \in Nat /\ Len(t) \in Nat /\ Len(v) = Len(s) + Len(t)
      /\ \A i \in 1..(Len(s) + Len(t)) : v[i] = IF i <= Len(s) THEN s[i] ELSE t[i - Len(s)]
  BY LenProperties, ConcatProperties
<1>2. IsFiniteSet(A) /\ IsFiniteSet(B)
  BY OccursFinite
<1> HIDE DEF v
<1>3. Occurs(v, ev) = A \cup C /\ A \cap C = {}
  <2>1. \A i \in A : i \in Occurs(v, ev) /\ i \notin C
    BY <1>1 DEF Occurs
  <2>2. \A i \in C : i \in Occurs(v, ev)
    <3>. SUFFICES ASSUME NEW i \in C PROVE i \in Occurs(v, ev)
      OBVIOUS
    <3>1. i \in 1..(Len(s) + Len(t)) /\ ~(i <= Len(s)) /\ t[i - Len(s)] = ev
      BY <1>1
    <3>. QED
      BY <1>1, <3>1 DEF Occurs
  <2>3. \A i \in Occurs(v, ev) : i \in A \/ i \in C
    <3>. SUFFICES ASSUME NEW i \in Occurs(v, ev) PROVE i \in A \/ i \in C
      OBVIOUS
    <3>1. i \in 1..(Len(s) + Len(t)) /\ v[i] = ev
      BY <1>1 DEF Occurs
    <3>2. CASE i <= Len(s)
      BY <1>1, <3>1, <3>2 DEF Occurs
    <3>3. CASE ~(i <= Len(s))
      BY <1>1, <3>1, <3>3
    <3>. QED
      BY <3>2, <3>3
  <2>. QED
    BY <2>1, <2>2, <2>3
<1>4. F \in Bijection(B, C)
  <2>1. \A i \in B : i \in 1..Len(t) /\ t[i] = ev
    BY DEF Occurs
  <2>2. \A i \in B : Len(s) + i \in C
    <3>. SUFFICES ASSUME NEW i \in B PROVE Len(s) + i \in C
      OBVIOUS
    <3>1. Len(s) + i \in (Len(s) + 1)..(Len(s) + Len(t)) /\ (Len(s) + i) - Len(s) = i
      BY <1>1, <2>1
    <3>. QED
      BY <2>1, <3>1
  <2>3. F \in [B -> C]
    BY <2>2
  <2>4. \A i, j \in B : F[i] = F[j] => i = j
    BY <1>1, <2>1
  <2>5. \A c \in C : \E i \in B : F[i] = c
    <3>. SUFFICES ASSUME NEW c \in C PROVE \E i \in B : F[i] = c
      OBVIOUS
    <3>1. c - Len(s) \in 1..Len(t) /\ t[c - Len(s)] = ev /\ Len(s) + (c - Len(s)) = c
      BY <1>1
    <3>2. c - Len(s) \in B
      BY <3>1 DEF Occurs
    <3>. QED
      BY <3>1, <3>2
  <2>. QED
    BY <2>3, <2>4, <2>5, Fun_IsBij
<1> HIDE DEF A, B, C, F
<1>5. IsFiniteSet(C) /\ Cardinality(C) = Cardinality(B)
  BY <1>2, <1>4, FS_Bijection DEF ExistsBijection
<1>6. Cardinality(A \cup C) = Cardinality(A) + Cardinality(C) - Cardinality(A \cap C)
  BY <1>2, <1>5, FS_Union
<1>7. Cardinality(A) \in Nat /\ Cardinality(C) \in Nat /\ Cardinality({}) = 0
  BY <1>2, <1>5, FS_CardinalityType, FS_EmptySet
<1>8. Cardinality(A \cap C) = 0 /\ Cardinality(Occurs(v, ev)) = Cardinality(A \cup C)
  BY <1>3, <1>7
<1>9. Cardinality(Occurs(v, ev)) = Cardinality(A) + Cardinality(B)
  BY <1>5, <1>6, <1>7, <1>8
<1>. QED
  BY <1>9 DEF A, B, v

\* Of operations put together as the writer does.
LEMMA OccursSum ==
  ASSUME NEW K, NEW ev
  PROVE  \A s, t \in Seq(K) :
           /\ s \o t \in Seq(K)
           /\ Cardinality(Occurs(s \o t, ev)) = Cardinality(Occurs(s, ev)) + Cardinality(Occurs(t, ev))
BY OccursConcat, ConcatProperties

LEMMA OccursNowhere ==
  ASSUME NEW K, NEW s \in Seq(K), NEW ev, ev \notin K
  PROVE  Cardinality(Occurs(s, ev)) = 0
<1>1. Occurs(s, ev) = {}
  BY ElementOfSeq DEF Occurs
<1>. QED
  BY <1>1, FS_EmptySet

LEMMA OccursOne ==
  ASSUME NEW e, NEW ev
  PROVE  Cardinality(Occurs(<<e>>, ev)) = IF e = ev THEN 1 ELSE 0
<1>1. Len(<<e>>) = 1 /\ <<e>>[1] = e
  OBVIOUS
<1>2. Occurs(<<e>>, ev) = IF e = ev THEN {1} ELSE {}
  BY <1>1 DEF Occurs
<1>. QED
  BY <1>2, FS_EmptySet, FS_Singleton

\* A search's block is one event of its own kind, and none of the other kind.
LEMMA SearchOccurs ==
  ASSUME NEW w, NEW p, At(w, p), NEW a,
         NEW type \in {"server_tool_use", "search_result"}, NEW delta \in Bodies,
         NEW ev \in {"server_tool_use_start", "search_result_start"}
  PROVE  LET r == Block(w, type, delta, a)
         IN Cardinality(Occurs(r.ops, ev)) = IF StartOf[type] = ev THEN 1 ELSE 0
<1> DEFINE es == ensureStarted(w)
           fo == fireVisibleOutput(w)
           cb == closeActiveBlock(w.active)
           one == <<StartOf[type]>>
           st == <<"stop">>
           r == Block(w, type, delta, a)
           N(s) == Cardinality(Occurs(s, ev))
<1>1. /\ {"message_start", "promote", "stop", "delta"} \subseteq Plain
      /\ ev \notin Plain /\ StartOf[type] \in Operations /\ Plain \subseteq Operations
  BY PlainNames, EventNames DEF Plain, Operations, SSEEvents
<1>2. <<>> \in Seq(Plain) /\ \A e \in Plain : <<e>> \in Seq(Plain)
  BY EmptySeq
<1>3. /\ es \in Seq(Plain) /\ fo \in Seq(Plain) /\ cb \in Seq(Plain) /\ delta \in Seq(Plain) /\ st \in Seq(Plain)
  BY <1>1, <1>2, Zenon DEF ensureStarted, fireVisibleOutput, closeActiveBlock, Bodies
<1>4. one \in Seq(Operations) /\ N(one) = IF StartOf[type] = ev THEN 1 ELSE 0
  BY <1>1, OccursOne
<1>5. r.ops = es \o (fo \o (((cb \o one) \o delta) \o st))
  BY DEF Block, Output, writeBlock
<1> HIDE DEF es, fo, cb, one, st, r
<1>6. /\ N(es) = 0 /\ N(fo) = 0 /\ N(cb) = 0 /\ N(delta) = 0 /\ N(st) = 0
  BY <1>1, <1>3, OccursNowhere
<1>7. /\ es \in Seq(Operations) /\ fo \in Seq(Operations) /\ cb \in Seq(Operations)
      /\ delta \in Seq(Operations) /\ st \in Seq(Operations)
  BY <1>1, <1>3, SeqMono
<1> HIDE DEF N
<1>8. \A s, t \in Seq(Operations) : s \o t \in Seq(Operations) /\ N(s \o t) = N(s) + N(t)
  BY OccursSum DEF N
<1> DEFINE b1 == cb \o one
           b2 == b1 \o delta
           b3 == b2 \o st
           b4 == fo \o b3
           b5 == es \o b4
<1>9. b1 \in Seq(Operations) /\ N(b1) = N(cb) + N(one)
  BY <1>4, <1>7, <1>8, Zenon
<1>10. b2 \in Seq(Operations) /\ N(b2) = N(b1) + N(delta)
  BY <1>7, <1>8, <1>9, Zenon
<1>11. b3 \in Seq(Operations) /\ N(b3) = N(b2) + N(st)
  BY <1>7, <1>8, <1>10, Zenon
<1>12. b4 \in Seq(Operations) /\ N(b4) = N(fo) + N(b3)
  BY <1>7, <1>8, <1>11, Zenon
<1>13. N(b5) = N(es) + N(b4)
  BY <1>7, <1>8, <1>12, Zenon
<1>14. r.ops = b5
  BY <1>5
<1> HIDE DEF b1, b2, b3, b4, b5
<1>15. N(r.ops) = IF StartOf[type] = ev THEN 1 ELSE 0
  BY <1>4, <1>6, <1>9, <1>10, <1>11, <1>12, <1>13, <1>14
<1>. QED
  BY <1>15 DEF r, N

-----------------------------------------------------------------------------
(* What the writer's operations do to the message *)

LEMMA AtPlaces ==
  ASSUME NEW w, NEW q, At(w, q)
  PROVE  q \in Places /\ q \notin {"message_stop", "error"}
<1>1. w.active = "" \/ w.active \in DOMAIN StartOf
  BY DEF At, Writers
<1>2. CASE ~w.started
  BY <1>2 DEF At, Places
<1>3. CASE w.started
  BY <1>1, <1>3, EventNames DEF At, Inside, Places, SSEEvents
<1>. QED
  BY <1>2, <1>3

LEMMA RunsOn ==
  ASSUME NEW s, NEW t, NEW p, NEW q, Runs(s, p), Leads(Operations, p, t, q)
  PROVE  Runs(s \o t, q)
BY LeadsConcat DEF Runs

LEMMA AtAny ==
  ASSUME NEW w \in Writers, ~w.started => Idle(w)
  PROVE  \E q : At(w, q)
<1>1. \E q : Inside(w.active, q)
  BY DEF Inside
<1>. QED
  BY <1>1 DEF At, Idle

LEMMA EndsInConcat ==
  ASSUME NEW K, NEW s \in Seq(K), NEW t \in Seq(K), NEW E, EndsIn(t, E)
  PROVE  EndsIn(s \o t, E)
<1> DEFINE v == s \o t
<1>1. /\ Len(s) \in Nat /\ Len(t) \in Nat /\ Len(v) = Len(s) + Len(t)
      /\ \A i \in 1..(Len(s) + Len(t)) : v[i] = IF i <= Len(s) THEN s[i] ELSE t[i - Len(s)]
  BY LenProperties, ConcatProperties
<1> HIDE DEF v
<1>2. PICK i \in 1..Len(t) : t[i] \in E /\ NoEvents(t, i + 1, Len(t))
  BY DEF EndsIn
<1>3. \A k \in 1..Len(t) : Len(s) + k \in 1..Len(v) /\ v[Len(s) + k] = t[k]
  <2>. SUFFICES ASSUME NEW k \in 1..Len(t) PROVE Len(s) + k \in 1..Len(v) /\ v[Len(s) + k] = t[k]
    OBVIOUS
  <2>1. Len(s) + k \in 1..(Len(s) + Len(t)) /\ ~(Len(s) + k <= Len(s)) /\ (Len(s) + k) - Len(s) = k
    BY <1>1
  <2>. QED
    BY <1>1, <2>1
<1>4. NoEvents(v, (Len(s) + i) + 1, Len(v))
  <2>. SUFFICES ASSUME NEW k \in ((Len(s) + i) + 1)..Len(v) PROVE v[k] \notin SSEEvents
    BY DEF NoEvents
  <2>1. k - Len(s) \in (i + 1)..Len(t) /\ k - Len(s) \in 1..Len(t) /\ Len(s) + (k - Len(s)) = k
    BY <1>1
  <2>. QED
    BY <1>2, <1>3, <2>1 DEF NoEvents
<1>5. EndsIn(v, E)
  BY <1>2, <1>3, <1>4 DEF EndsIn
<1>. QED
  BY <1>5 DEF v

\* The writer has written on from p to q, with so many shown searches and results.
Wrote(p, q, uses, results) ==
  /\ sw' \in Writers /\ acc' \in Accumulators /\ out' \in Seq(Operations) /\ promoted' \in BOOLEAN
  /\ promoted => promoted'
  /\ ~promoted' => out' \in Seq(Toolless)
  /\ sw'.fired => promoted'
  /\ promoted' => sw'.started
  /\ Runs(out, p) => Runs(out', q)
  /\ q # p => EndsIn(out', {q})
  /\ Cardinality(Occurs(out', "server_tool_use_start"))
       = Cardinality(Occurs(out, "server_tool_use_start")) + uses
  /\ Cardinality(Occurs(out', "search_result_start"))
       = Cardinality(Occurs(out, "search_result_start")) + results

\* The state the writer's operations start from.
Writing ==
  /\ sw \in Writers /\ acc \in Accumulators /\ out \in Seq(Operations) /\ promoted \in BOOLEAN
  /\ ~promoted => out \in Seq(Toolless)
  /\ ~sw.started => Idle(sw)
  /\ sw.fired => promoted
  /\ promoted => sw.started

LEMMA Emitted ==
  ASSUME Writing, NEW r, NEW p, NEW q, Leads(Operations, p, r.ops, q), Emit(r)
  PROVE  /\ sw' = r.w /\ acc' = r.acc /\ out' \in Seq(Operations) /\ promoted' \in BOOLEAN
         /\ promoted' <=> promoted \/ Promotes(r.ops)
         /\ ~promoted' /\ r.ops \in Seq(Toolless) => out' \in Seq(Toolless)
         /\ Runs(out, p) => Runs(out', q)
         /\ q # p => EndsIn(out', {q})
         /\ \A ev : Cardinality(Occurs(out', ev)) = Cardinality(Occurs(out, ev)) + Cardinality(Occurs(r.ops, ev))
<1>1. out \in Seq(Operations) /\ r.ops \in Seq(Operations) /\ out' = out \o r.ops
  BY DEF Writing, Leads, Emit
<1>2. out \o r.ops \in Seq(Operations)
  BY <1>1, ConcatProperties
<1>3. /\ promoted' = (promoted \/ \E i \in 1..Len(r.ops) : r.ops[i] = "promote")
      /\ sw' = r.w /\ acc' = r.acc
  BY DEF Emit
<1>4. promoted' \in BOOLEAN /\ (promoted' <=> promoted \/ Promotes(r.ops))
  BY <1>3 DEF Promotes
<1>5. Runs(out, p) => Runs(out \o r.ops, q)
  BY RunsOn
<1>6. q # p => EndsIn(out \o r.ops, {q})
  <2>1. q # p => EndsIn(r.ops, {q})
    BY DEF Leads
  <2>. QED
    BY <1>1, <2>1, EndsInConcat
<1>7. \A ev : Cardinality(Occurs(out \o r.ops, ev)) = Cardinality(Occurs(out, ev)) + Cardinality(Occurs(r.ops, ev))
  BY <1>1, OccursConcat
<1>8. ~promoted' /\ r.ops \in Seq(Toolless) => out' \in Seq(Toolless)
  <2>. SUFFICES ASSUME ~promoted', r.ops \in Seq(Toolless) PROVE out \o r.ops \in Seq(Toolless)
    BY <1>1
  <2>1. out \in Seq(Toolless)
    BY <1>4 DEF Writing
  <2>. QED
    BY <2>1, ConcatProperties
<1>. QED
  BY <1>1, <1>2, <1>3, <1>4, <1>5, <1>6, <1>7, <1>8

\* What a model's response writes shows no search.
LEMMA PlainWrites ==
  ASSUME Writing, NEW r, NEW p, NEW q, Yields(sw, acc, p, r, q), Emit(r)
  PROVE  Wrote(p, q, 0, 0) /\ sw' = r.w
<1>1. Leads(Operations, p, r.ops, q) /\ r.ops \in Seq(Plain)
  BY PlainNames, LeadsMono DEF Yields, Leads
<1>2. /\ sw' = r.w /\ acc' = r.acc /\ out' \in Seq(Operations) /\ promoted' \in BOOLEAN
      /\ promoted' <=> promoted \/ Promotes(r.ops)
      /\ ~promoted' /\ r.ops \in Seq(Toolless) => out' \in Seq(Toolless)
      /\ Runs(out, p) => Runs(out', q)
      /\ q # p => EndsIn(out', {q})
      /\ \A ev : Cardinality(Occurs(out', ev)) = Cardinality(Occurs(out, ev)) + Cardinality(Occurs(r.ops, ev))
  BY <1>1, Emitted
<1>3. /\ Cardinality(Occurs(r.ops, "server_tool_use_start")) = 0
      /\ Cardinality(Occurs(r.ops, "search_result_start")) = 0
  BY <1>1, OccursNowhere DEF Plain
<1>4. \A ev : Cardinality(Occurs(out, ev)) \in Nat
  BY OccursFinite DEF Writing
<1>5. /\ r.w \in Writers /\ r.acc \in Accumulators
      /\ r.w.fired <=> sw.fired \/ Promotes(r.ops)
      /\ r.w.started \/ (r.w = sw /\ r.ops = <<>>)
  BY DEF Yields
<1>6. promoted' => r.w.started
  BY <1>2, <1>5, PromotesOf DEF Writing
<1>7. r.w.fired => promoted'
  BY <1>2, <1>5 DEF Writing
<1>8. /\ Cardinality(Occurs(out', "server_tool_use_start"))
           = Cardinality(Occurs(out, "server_tool_use_start")) + 0
      /\ Cardinality(Occurs(out', "search_result_start"))
           = Cardinality(Occurs(out, "search_result_start")) + 0
  BY <1>2, <1>3
<1>9. ~promoted' => out' \in Seq(Toolless)
  <2>1. r.w.fired \/ r.ops \in Seq(Toolless)
    BY DEF Yields, Leads
  <2>. QED
    BY <1>2, <1>7, <2>1
<1>. QED
  BY <1>2, <1>5, <1>6, <1>7, <1>8, <1>9 DEF Wrote

LEMMA SearchWrites ==
  ASSUME Writing, NEW p, At(sw, p),
         NEW type \in {"server_tool_use", "search_result"}, NEW delta \in Bodies,
         Emit(Block(sw, type, delta, acc))
  PROVE  /\ Wrote(p, "stop", IF type = "server_tool_use" THEN 1 ELSE 0, IF type = "search_result" THEN 1 ELSE 0)
         /\ At(sw', "stop") /\ Idle(sw') /\ promoted'
<1> DEFINE r == Block(sw, type, delta, acc)
<1>0. acc \in Accumulators
  BY DEF Writing
<1>1. /\ Leads(Operations, p, r.ops, "stop") /\ At(r.w, "stop")
      /\ r.w.started /\ r.w.fired /\ r.acc = acc
      /\ Promotes(r.ops) \/ sw.fired
  BY <1>0, SearchOK
<1>2. /\ Cardinality(Occurs(r.ops, "server_tool_use_start")) = IF type = "server_tool_use" THEN 1 ELSE 0
      /\ Cardinality(Occurs(r.ops, "search_result_start")) = IF type = "search_result" THEN 1 ELSE 0
  <2>1. \A ev \in {"server_tool_use_start", "search_result_start"} :
          Cardinality(Occurs(r.ops, ev)) = IF StartOf[type] = ev THEN 1 ELSE 0
    BY SearchOccurs, Zenon
  <2> HIDE DEF r
  <2>. QED
    BY <2>1, EventNames
<1>3. Emit(r)
  OBVIOUS
<1> HIDE DEF r
<1>4. /\ sw' = r.w /\ acc' = r.acc /\ out' \in Seq(Operations) /\ promoted' \in BOOLEAN
      /\ promoted' <=> promoted \/ Promotes(r.ops)
      /\ Runs(out, p) => Runs(out', "stop")
      /\ "stop" # p => EndsIn(out', {"stop"})
      /\ \A ev : Cardinality(Occurs(out', ev)) = Cardinality(Occurs(out, ev)) + Cardinality(Occurs(r.ops, ev))
  BY <1>1, <1>3, Emitted
<1>5. promoted' /\ r.w \in Writers /\ Idle(r.w)
  <2>1. promoted' /\ r.w \in Writers /\ Inside(r.w.active, "stop")
    BY <1>1, <1>4 DEF Writing, At
  <2>2. r.w.active \in {""} \cup DOMAIN StartOf
    BY <2>1 DEF Writers
  <2>. QED
    BY <2>1, <2>2, EventNames DEF Inside, Idle
<1>6. /\ Cardinality(Occurs(out', "server_tool_use_start"))
           = Cardinality(Occurs(out, "server_tool_use_start")) + (IF type = "server_tool_use" THEN 1 ELSE 0)
      /\ Cardinality(Occurs(out', "search_result_start"))
           = Cardinality(Occurs(out, "search_result_start")) + (IF type = "search_result" THEN 1 ELSE 0)
  BY <1>2, <1>4
<1>. QED
  BY <1>1, <1>4, <1>5, <1>6 DEF Wrote, Writing

-----------------------------------------------------------------------------
(* Every action keeps the invariant *)

LEMMA Constants ==
  /\ maxToolSearchRounds \in Nat /\ maxWebSearchRounds \in Nat /\ maxQueries \in Nat /\ MaxFrames \in Nat
  /\ maxOrchestratorRounds \in Nat
  /\ IsFiniteSet(Queries)
  /\ maxOrchestratorRounds = 0 => maxToolSearchRounds = 0 /\ maxWebSearchRounds = 0
BY OrchestratorAssumption DEF OrchestratorAssumption, maxOrchestratorRounds

LEMMA FreshWriter ==
  /\ NewWriter \in Writers /\ NewAccumulator \in Accumulators
  /\ \E q \in Places : Runs(<<>>, q) /\ At(NewWriter, q)
  /\ ~NewWriter.fired /\ ~NewWriter.started /\ Idle(NewWriter)
  /\ <<>> \in Seq(Operations) /\ <<>> \in Seq(Toolless)
  /\ \A ev : Cardinality(Occurs(<<>>, ev)) = 0
<1>1. NewWriter \in Writers /\ NewAccumulator \in Accumulators
  BY EventNames DEF NewWriter, NewAccumulator, Writers, Accumulators, NextText
<1>2. At(NewWriter, "") /\ ~NewWriter.fired /\ ~NewWriter.started /\ Idle(NewWriter)
  BY <1>1 DEF NewWriter, At, Idle
<1>3. \A ev : Occurs(<<>>, ev) = {}
  BY Len(<<>>) = 0 DEF Occurs
<1>4. \E q \in Places : Runs(<<>>, q) /\ At(NewWriter, q)
  <2>1. Runs(<<>>, "") /\ "" \in Places
    BY LeadsNone DEF Runs, Places
  <2>. QED
    BY <1>2, <2>1
<1>5. ~NewWriter.fired /\ ~NewWriter.started /\ Idle(NewWriter)
  BY <1>2
<1>6. \A ev : Cardinality(Occurs(<<>>, ev)) = 0
  BY <1>3, FS_EmptySet
<1>7. <<>> \in Seq(Operations) /\ <<>> \in Seq(Toolless)
  BY EmptySeq
<1>. QED
  BY <1>1, <1>4, <1>5, <1>6, <1>7

LEMMA FreshPlan ==
  /\ NoPlan \in [web : SUBSET Queries, shown : SUBSET Queries, tools : Seq(Interceptions)]
  /\ NoPlan.web = {} /\ NoPlan.shown = {} /\ NoPlan.tools = <<>>
  /\ NothingCaught \in [tools : Seq(Interceptions), web : Seq(Interceptions)]
  /\ newRoundBudget \in [toolSearch : 0..maxToolSearchRounds, webSearchRounds : 0..maxWebSearchRounds,
                         webSearchQueries : 0..maxQueries]
  /\ newRoundBudget.webSearchQueries = 0
BY Constants, EmptySeq DEF NoPlan, NothingCaught, newRoundBudget

\* The sizes of the parts of a plan.
LEMMA PlanSizes ==
  ASSUME OrchTypeOK
  PROVE  /\ IsFiniteSet(plan.web) /\ IsFiniteSet(plan.shown)
         /\ Cardinality(plan.web) \in Nat /\ Cardinality(plan.shown) \in Nat
<1>1. plan.web \in SUBSET Queries /\ plan.shown \in SUBSET Queries
  BY DEF OrchTypeOK
<1>. QED
  BY <1>1, Constants, FS_Subset, FS_CardinalityType

LEMMA InitInv == OrchInit => OrchInv
<1>. SUFFICES ASSUME OrchInit PROVE OrchInv
  OBVIOUS
<1>1. /\ sw = NewWriter /\ acc = NewAccumulator /\ out = <<>> /\ promoted = FALSE
      /\ plan = NoPlan /\ caught = NothingCaught /\ budget = newRoundBudget
      /\ opc = "call" /\ run = 1 /\ round = 0 /\ frames = 0 /\ answer = "none" /\ searched = 0 /\ owed = 0
      /\ visible \in BOOLEAN /\ drains \in BOOLEAN
  BY DEF OrchInit
<1>2. OrchTypeOK
  <2>1. /\ sw \in Writers /\ acc \in Accumulators /\ out \in Seq(Operations)
    BY <1>1, FreshWriter
  <2>2. /\ plan \in [web : SUBSET Queries, shown : SUBSET Queries, tools : Seq(Interceptions)]
        /\ caught \in [tools : Seq(Interceptions), web : Seq(Interceptions)]
        /\ budget \in [toolSearch : 0..maxToolSearchRounds, webSearchRounds : 0..maxWebSearchRounds,
                       webSearchQueries : 0..maxQueries]
    BY <1>1, FreshPlan
  <2>3. /\ round \in 0..maxOrchestratorRounds /\ frames \in 0..MaxFrames /\ run \in 1..2
        /\ searched \in Nat /\ owed \in Nat /\ promoted \in BOOLEAN
    <3>1. 0 \in 0..maxOrchestratorRounds /\ 0 \in 0..MaxFrames /\ 1 \in 1..2 /\ 0 \in Nat
      BY Constants
    <3>. QED
      BY <1>1, <3>1, Zenon
  <2>4. /\ opc \in {"call", "parse", "plan", "execute", "results", "finish", "exhausted", "finished",
                    "deliver", "done"}
        /\ answer \in {"none", "message", "error", "broken"}
    BY <1>1
  <2>. QED
    BY <1>1, <2>1, <2>2, <2>3, <2>4, Zenon DEF OrchTypeOK
<1>3. plan.shown = {} /\ plan.web = {} /\ budget.webSearchQueries = 0
  BY <1>1, FreshPlan
<1>4. RoundInv
  BY <1>1, Constants DEF RoundInv
<1>5. PlanInv
  BY <1>1, <1>3 DEF PlanInv
<1>6. WriterInv
  BY <1>1, FreshWriter DEF WriterInv
<1>7. QueryInv
  BY <1>1, <1>3 DEF QueryInv
<1>8. OwedInv
  BY <1>1 DEF OwedInv
<1>9. MessageInv
  <2>1. \E q \in Places : Runs(out, q) /\ At(sw, q)
    BY <1>1, FreshWriter
  <2>. QED
    BY <1>1, <2>1 DEF MessageInv
<1>10. BlockInv
  BY <1>1 DEF BlockInv
<1>11. CountInv
  <2>1. Count("server_tool_use_start") = 0 /\ Count("search_result_start") = 0
    BY <1>1, FreshWriter DEF Count, Occurs
  <2>. QED
    BY <1>3, <2>1, FS_EmptySet DEF CountInv
<1>12. AnswerInv
  BY <1>1 DEF AnswerInv, AnsweredInFull
<1>. QED
  BY <1>2, <1>4, <1>5, <1>6, <1>7, <1>8, <1>9, <1>10, <1>11, <1>12 DEF OrchInv

\* The request ends.
LEMMA LeaveStep ==
  ASSUME OrchInv, opc # "done", NEW how \in {"message", "error", "broken"}, Leave(how),
         UNCHANGED <<visible, drains, run, round, budget, searched, owed>>,
         out' \in Seq(Operations), promoted' \in BOOLEAN, promoted => promoted',
         ~promoted' => out' \in Seq(Toolless),
         visible => \E q \in Places : Runs(out', q),
         AnsweredInFull',
         how = "message" => owed = 0 \/ round = maxOrchestratorRounds
  PROVE  OrchInv'
<1>1. /\ sw' = NewWriter /\ acc' = NewAccumulator /\ plan' = NoPlan /\ caught' = NothingCaught
      /\ opc' = "done" /\ answer' = how /\ frames' = 0
  BY DEF Leave
<1>2. OrchTypeOK'
  <2>1. /\ sw' \in Writers /\ acc' \in Accumulators
    BY <1>1, FreshWriter
  <2>2. /\ plan' \in [web : SUBSET Queries, shown : SUBSET Queries, tools : Seq(Interceptions)]
        /\ caught' \in [tools : Seq(Interceptions), web : Seq(Interceptions)]
    BY <1>1, FreshPlan
  <2>3. frames' \in 0..MaxFrames
    BY <1>1, Constants
  <2>. QED
    BY <1>1, <2>1, <2>2, <2>3 DEF OrchInv, OrchTypeOK
<1>3. plan'.shown = {} /\ plan'.web = {}
  BY <1>1, FreshPlan
<1>4. RoundInv' /\ PlanInv'
  BY <1>1, <1>3 DEF RoundInv, PlanInv
<1>5. WriterInv'
  BY <1>1, FreshWriter DEF WriterInv
<1>6. QueryInv'
  <2>1. searched \in Nat /\ budget.webSearchQueries \in Nat /\ Cardinality(plan.web) \in Nat
    BY PlanSizes DEF OrchInv, OrchTypeOK
  <2>2. visible => (searched > 0 => promoted) /\ searched <= budget.webSearchQueries
    BY <2>1 DEF OrchInv, QueryInv
  <2>. QED
    BY <1>1, <1>3, <2>1, <2>2 DEF QueryInv
<1>7. OwedInv'
  <2>1. owed \in Nat
    BY DEF OrchInv, OrchTypeOK
  <2>. QED
    BY <1>1, <2>1 DEF OwedInv
<1>8. MessageInv'
  BY <1>1 DEF MessageInv
<1>9. BlockInv' /\ CountInv' /\ AnswerInv'
  BY <1>1 DEF BlockInv, CountInv, AnswerInv
<1>. QED
  BY <1>2, <1>4, <1>5, <1>6, <1>7, <1>8, <1>9 DEF OrchInv

\* What the invariant says of a writer that may write.
LEMMA MayWrite ==
  ASSUME OrchInv, opc # "done"
  PROVE  /\ Writing
         /\ \E p : /\ At(sw, p)
                   /\ visible /\ opc \notin {"finished", "deliver"} => Runs(out, p)
<1>1. Writing
  BY DEF OrchInv, OrchTypeOK, WriterInv, Writing
<1>2. CASE visible /\ opc \notin {"finished", "deliver"}
  BY <1>1, <1>2 DEF OrchInv, MessageInv
<1>3. CASE ~(visible /\ opc \notin {"finished", "deliver"})
  BY <1>1, <1>3, AtAny DEF Writing
<1>. QED
  BY <1>1, <1>2, <1>3

LEMMA FinalErrorStep ==
  ASSUME OrchInv, FinalError, opc # "done", opc \in {"finished", "deliver"} => ~promoted
  PROVE  OrchInv'
<1>0. /\ UNCHANGED <<visible, drains, run, round, budget, searched, owed>>
      /\ promoted' = promoted /\ answer' = "error" /\ Leave("error")
  BY DEF FinalError, Leave, config
<1>1. PICK p : /\ At(sw, p)
               /\ visible /\ opc \notin {"finished", "deliver"} => Runs(out, p)
  BY MayWrite
<1>2. out \in Seq(Operations) /\ promoted \in BOOLEAN /\ (promoted => sw.started)
  BY MayWrite DEF Writing
<1>3. CASE promoted
  <2>0. Leads(Plain, p, WriteError(sw), "error")
    BY <1>1, <1>2, <1>3, ErrorOK
  <2>1. Leads(Operations, p, WriteError(sw), "error")
    BY <2>0, LeadsMono, PlainNames
  <2>2. out' = out \o WriteError(sw) /\ promoted' = promoted /\ visible' = visible
    BY <1>3 DEF FinalError, config
  <2>3. visible => Runs(out', "error")
    <3>1. opc \notin {"finished", "deliver"}
      BY <1>3
    <3>. QED
      BY <1>1, <2>1, <2>2, <3>1, RunsOn
  <2>4. out' \in Seq(Operations)
    BY <1>2, <2>1, <2>2, ConcatProperties DEF Leads
  <2>5. EndsIn(out', {"error"})
    <3>1. EndsIn(WriteError(sw), {"error"}) /\ WriteError(sw) \in Seq(Operations)
      BY <1>1, <2>1, AtPlaces DEF Leads
    <3>. QED
      BY <1>2, <2>2, <3>1, EndsInConcat
  <2>6. answer' = "error"
    BY DEF FinalError, Leave
  <2>7. AnsweredInFull'
    BY <1>3, <2>2, <2>5, <2>6 DEF AnsweredInFull
  <2>8. "error" \in Places
    BY DEF Places, SSEEvents
  <2>. QED
    BY <1>0, <1>2, <1>3, <2>3, <2>4, <2>7, <2>8, LeaveStep
<1>4. CASE ~promoted
  <2>1. out' = <<>> /\ promoted' = promoted /\ answer' = "error"
    BY <1>4 DEF FinalError, Leave
  <2>2. AnsweredInFull'
    BY <1>4, <2>1 DEF AnsweredInFull
  <2>3. \E q \in Places : Runs(out', q)
    BY <2>1, FreshWriter
  <2>4. out' \in Seq(Operations) /\ out' \in Seq(Toolless)
    BY <2>1, FreshWriter
  <2>. QED
    BY <1>0, <1>2, <2>1, <2>2, <2>3, <2>4, LeaveStep
<1>. QED
  BY <1>3, <1>4

LEMMA BreakStep == ASSUME OrchInv, Break PROVE OrchInv'
<1>1. /\ out' = out /\ promoted' = promoted /\ answer' = "broken" /\ visible' = visible
      /\ opc # "done" /\ Leave("broken")
      /\ UNCHANGED <<visible, drains, run, round, budget, searched, owed>>
  BY DEF Break, Leave, config
<1>2. out \in Seq(Operations) /\ promoted \in BOOLEAN /\ (~promoted => out \in Seq(Toolless))
  BY DEF OrchInv, OrchTypeOK, WriterInv
<1>3. AnsweredInFull'
  BY <1>1 DEF AnsweredInFull
<1>4. visible => \E q \in Places : Runs(out', q)
  <2>1. "message_stop" \in Places
    BY DEF Places, SSEEvents
  <2>. QED
    BY <1>1, <2>1 DEF OrchInv, MessageInv
<1>. QED
  BY <1>1, <1>2, <1>3, <1>4, LeaveStep

LEMMA DeliverStep == ASSUME OrchInv, Deliver PROVE OrchInv'
<1>1. /\ out' = out /\ promoted' = TRUE /\ answer' = "message" /\ visible' = visible
      /\ opc \in {"finished", "deliver"} /\ Leave("message")
      /\ UNCHANGED <<visible, drains, run, round, budget, searched, owed>>
  BY DEF Deliver, Leave, config
<1>2. out \in Seq(Operations) /\ promoted \in BOOLEAN
  BY DEF OrchInv, OrchTypeOK
<1>3. AnsweredInFull'
  <2>1. plan = NoPlan /\ Cardinality({}) = 0
    BY <1>1, FS_EmptySet DEF OrchInv, PlanInv
  <2>2. Count("server_tool_use_start") = Count("search_result_start") + 0
    BY <1>1, <2>1, FreshPlan DEF OrchInv, CountInv
  <2>3. Count("search_result_start") \in Nat
    BY <1>2, OccursFinite DEF Count, Occurs
  <2>4. Count("server_tool_use_start")' = Count("search_result_start")'
    BY <1>1, <2>2, <2>3 DEF Count
  <2>5. EndsIn(out', {"message_stop"})
    BY <1>1 DEF OrchInv, AnswerInv
  <2>. QED
    BY <1>1, <2>4, <2>5 DEF AnsweredInFull
<1>4. visible => \E q \in Places : Runs(out', q)
  <2>1. "message_stop" \in Places
    BY DEF Places, SSEEvents
  <2>. QED
    BY <1>1, <2>1 DEF OrchInv, MessageInv
<1>5. owed = 0 \/ round = maxOrchestratorRounds
  BY <1>1 DEF OrchInv, OwedInv, RoundInv, OrchTypeOK
<1>. QED
  BY <1>1, <1>2, <1>3, <1>4, <1>5, LeaveStep

Ended == {"finished", "deliver", "done"}

\* A step that leaves the message alone.
LEMMA QuietStep ==
  ASSUME OrchInv, UNCHANGED <<visible, sw, out, promoted, answer>>, opc \notin Ended, opc' \notin Ended,
         plan'.shown = plan.shown
  PROVE  WriterInv' /\ MessageInv' /\ CountInv' /\ AnswerInv'
<1>1. opc # "done" /\ opc' # "done" /\ opc' \notin {"finished", "deliver"} /\ answer' = "none"
  BY DEF Ended, OrchInv, RoundInv
<1>2. WriterInv'
  BY <1>1 DEF OrchInv, WriterInv
<1>3. MessageInv'
  BY <1>1 DEF OrchInv, MessageInv, Ended
<1>4. CountInv'
  BY <1>1 DEF OrchInv, CountInv, Count
<1>5. AnswerInv'
  BY <1>1 DEF AnswerInv, AnsweredInFull
<1>. QED
  BY <1>2, <1>3, <1>4, <1>5

\* A step that writes.
LEMMA WriteStep ==
  ASSUME OrchInv, NEW p, NEW q, NEW uses \in Nat, NEW results \in Nat, opc \notin Ended,
         visible => Runs(out, p),
         Wrote(p, q, uses, results),
         ~sw'.started => Idle(sw'),
         UNCHANGED <<visible, answer>>, opc' # "done",
         opc' \in {"finished", "deliver"} => q = "message_stop" /\ q # p,
         opc' \notin {"finished", "deliver"} => At(sw', q),
         Cardinality(plan.shown) + uses = Cardinality(plan'.shown) + results,
         Cardinality(plan'.shown) \in Nat
  PROVE  WriterInv' /\ MessageInv' /\ CountInv' /\ AnswerInv'
<1>1. opc # "done" /\ answer' = "none"
  BY DEF Ended, OrchInv, RoundInv
<1>2. WriterInv'
  BY DEF WriterInv, Wrote
<1>3. MessageInv'
  <2>1. visible => Runs(out', q)
    BY DEF Wrote, Runs
  <2>2. opc' \notin {"finished", "deliver"} => q \in Places
    BY AtPlaces
  <2>. QED
    BY <2>1, <2>2 DEF MessageInv
<1>4. CountInv'
  <2>1. Count("server_tool_use_start") = Count("search_result_start") + Cardinality(plan.shown)
    BY <1>1 DEF OrchInv, CountInv
  <2>2. /\ Count("server_tool_use_start")' = Count("server_tool_use_start") + uses
        /\ Count("search_result_start")' = Count("search_result_start") + results
    BY DEF Wrote, Count, Occurs
  <2>3. Count("search_result_start") \in Nat /\ Cardinality(plan.shown) \in Nat
    <3>1. out \in Seq(Operations)
      BY DEF OrchInv, OrchTypeOK
    <3>. QED
      BY <3>1, OccursFinite, PlanSizes DEF Count, Occurs, OrchInv
  <2>4. Count("server_tool_use_start")' = Count("search_result_start")' + Cardinality(plan'.shown)
    BY <2>1, <2>2, <2>3
  <2>. QED
    BY <2>4 DEF CountInv
<1>5. AnswerInv'
  <2>1. opc' \in {"finished", "deliver"} => EndsIn(out', {"message_stop"})
    BY DEF Wrote
  <2>. QED
    BY <1>1, <2>1 DEF AnswerInv, AnsweredInFull
<1>. QED
  BY <1>2, <1>3, <1>4, <1>5

LEMMA ResetIdle ==
  ASSUME NEW w \in Writers
  PROVE  /\ ResetAccumulator(w) \in Writers /\ Idle(ResetAccumulator(w))
         /\ ResetAccumulator(w).started = w.started /\ ResetAccumulator(w).fired = w.fired
         /\ Idle(w) => ResetAccumulator(w) = w
BY DEF Writers, ResetAccumulator, Idle

LEMMA CallStep == ASSUME OrchInv, CallSucceeds PROVE OrchInv'
<1>1. /\ opc = "call" /\ opc' = "parse" /\ owed' = 0
      /\ \/ sw' = ResetAccumulator(sw) /\ acc' = NewAccumulator /\ round > 0
         \/ sw' = sw /\ acc' = acc
      /\ UNCHANGED <<visible, drains, run, round, budget, frames, caught, plan, out, promoted, answer, searched>>
  BY DEF CallSucceeds, config
<1>2. sw \in Writers /\ acc \in Accumulators
  BY DEF OrchInv, OrchTypeOK
<1>3. sw' \in Writers /\ acc' \in Accumulators
  BY <1>1, <1>2, ResetIdle, FreshWriter
<1>4. OrchTypeOK'
  BY <1>1, <1>3 DEF OrchInv, OrchTypeOK
<1>5. RoundInv' /\ PlanInv'
  BY <1>1 DEF OrchInv, RoundInv, PlanInv
<1>6. sw'.started = sw.started /\ sw'.fired = sw.fired /\ (Idle(sw) => Idle(sw'))
  BY <1>1, <1>2, ResetIdle
<1>7. WriterInv'
  BY <1>1, <1>6 DEF OrchInv, WriterInv
<1>8. QueryInv' /\ OwedInv'
  BY <1>1 DEF OrchInv, QueryInv, OwedInv
<1>9. MessageInv'
  <2>1. visible => sw' = sw
    BY <1>1, <1>2, ResetIdle DEF OrchInv, BlockInv
  <2>. QED
    BY <1>1, <2>1 DEF OrchInv, MessageInv
<1>10. BlockInv'
  BY <1>1 DEF BlockInv
<1>11. CountInv'
  BY <1>1 DEF OrchInv, CountInv, Count
<1>12. AnswerInv'
  BY <1>1 DEF OrchInv, AnswerInv, AnsweredInFull, RoundInv
<1>. QED
  BY <1>4, <1>5, <1>7, <1>8, <1>9, <1>10, <1>11, <1>12 DEF OrchInv

LEMMA FrameStep == ASSUME OrchInv, Frame PROVE OrchInv'
<1>1. PICK r \in HandleEvent(sw, acc, drains) : Emit(r) /\ opc' = IF r.local THEN "deliver" ELSE "parse"
  BY DEF Frame
<1>2. /\ opc = "parse" /\ caught = NothingCaught /\ frames < MaxFrames /\ frames' = frames + 1
      /\ UNCHANGED <<visible, drains, run, round, budget, caught, plan, answer, searched, owed>>
  BY DEF Frame, config
<1>3. PICK p : At(sw, p) /\ (visible => Runs(out, p)) /\ Writing
  BY <1>2, MayWrite
<1>4. PICK q : /\ Yields(sw, acc, p, r, q) /\ r.local \in BOOLEAN
               /\ r.local => q = "message_stop" /\ r.w.started
               /\ ~r.local => At(r.w, q)
  BY <1>3, HandleOK DEF Writing
<1>5. Wrote(p, q, 0, 0) /\ sw' = r.w
  BY <1>1, <1>3, <1>4, PlainWrites
<1>6. /\ opc' \in {"parse", "deliver"}
      /\ opc' = "deliver" => q = "message_stop" /\ sw'.started
      /\ opc' = "parse" => At(sw', q)
  BY <1>1, <1>4, <1>5
<1>7. plan = NoPlan
  BY <1>2 DEF OrchInv, PlanInv
<1>8. OrchTypeOK'
  <2>1. frames' \in 0..MaxFrames
    BY <1>2, Constants DEF OrchInv, OrchTypeOK
  <2>. QED
    BY <1>2, <1>5, <1>6, <2>1 DEF OrchInv, OrchTypeOK, Wrote
<1>9. RoundInv' /\ PlanInv'
  BY <1>2, <1>6, <1>7 DEF OrchInv, RoundInv, PlanInv
<1>10. WriterInv' /\ MessageInv' /\ CountInv' /\ AnswerInv'
  <2>1. ~sw'.started => Idle(sw')
    BY <1>6 DEF At, Idle
  <2>2. Cardinality(plan.shown) \in Nat /\ plan' = plan
    BY <1>2, PlanSizes DEF OrchInv
  <2>3. q = "message_stop" => q # p
    BY <1>3, AtPlaces
  <2>4. opc \notin Ended /\ opc' # "done" /\ 0 \in Nat
    BY <1>2, <1>6 DEF Ended
  <2>5. Cardinality(plan.shown) + 0 = Cardinality(plan'.shown) + 0 /\ Cardinality(plan'.shown) \in Nat
    BY <2>2
  <2>6. /\ opc' \in {"finished", "deliver"} => q = "message_stop" /\ q # p
        /\ opc' \notin {"finished", "deliver"} => At(sw', q)
    BY <1>6, <2>3
  <2>. QED
    BY <1>2, <1>3, <1>5, <2>1, <2>4, <2>5, <2>6, WriteStep
<1>11. QueryInv'
  BY <1>2, <1>5, <1>6 DEF OrchInv, QueryInv, Wrote
<1>12. OwedInv'
  BY <1>2, <1>6 DEF OrchInv, OwedInv
<1>13. BlockInv'
  BY <1>6 DEF BlockInv
<1>. QED
  BY <1>8, <1>9, <1>10, <1>11, <1>12, <1>13 DEF OrchInv

\* A step of the response that writes nothing.
LEMMA ReadStep ==
  ASSUME OrchInv, opc = "parse", opc' \in {"parse", "plan"},
         acc' \in Accumulators, frames' \in 0..MaxFrames,
         caught' \in [tools : Seq(Interceptions), web : Seq(Interceptions)],
         UNCHANGED <<visible, drains, run, round, budget, plan, sw, out, promoted, answer, searched, owed>>
  PROVE  OrchInv'
<1>1. plan = NoPlan
  BY DEF OrchInv, PlanInv
<1>2. OrchTypeOK'
  BY DEF OrchInv, OrchTypeOK
<1>3. RoundInv' /\ PlanInv'
  BY <1>1 DEF OrchInv, RoundInv, PlanInv
<1>4. WriterInv' /\ MessageInv' /\ CountInv' /\ AnswerInv'
  BY QuietStep DEF Ended
<1>5. QueryInv' /\ OwedInv' /\ BlockInv'
  BY DEF OrchInv, QueryInv, OwedInv, BlockInv
<1>. QED
  BY <1>2, <1>3, <1>4, <1>5 DEF OrchInv

LEMMA InterceptStep == ASSUME OrchInv, NEW i \in Interceptions, Intercept(i) PROVE OrchInv'
<1>1. /\ opc = "parse" /\ opc' = "parse" /\ frames < MaxFrames /\ frames' = frames + 1 /\ acc' = acc
      /\ caught' = IF i.name = "ToolSearch" THEN [caught EXCEPT !.tools = Append(caught.tools, i)]
                                            ELSE [caught EXCEPT !.web = Append(caught.web, i)]
      /\ UNCHANGED <<visible, drains, run, round, budget, plan, sw, out, promoted, answer, searched, owed>>
  BY DEF Intercept, config, stream
<1>2. frames' \in 0..MaxFrames /\ acc' \in Accumulators
  <2>1. frames \in 0..MaxFrames /\ acc \in Accumulators
    BY DEF OrchInv, OrchTypeOK
  <2>2. frames + 1 \in 0..MaxFrames
    BY <1>1, <2>1, Constants
  <2>. QED
    BY <1>1, <2>1, <2>2
<1>3. caught \in [tools : Seq(Interceptions), web : Seq(Interceptions)]
  BY DEF OrchInv, OrchTypeOK
<1>4. Append(caught.tools, i) \in Seq(Interceptions) /\ Append(caught.web, i) \in Seq(Interceptions)
  BY <1>3, AppendProperties
<1>5. caught' \in [tools : Seq(Interceptions), web : Seq(Interceptions)]
  BY <1>1, <1>3, <1>4
<1>. QED
  BY <1>1, <1>2, <1>5, ReadStep

LEMMA TailStep == ASSUME OrchInv, NEW stop \in BOOLEAN, TailFrame(stop) PROVE OrchInv'
<1>1. /\ opc = "parse" /\ opc' = "parse" /\ frames < MaxFrames /\ frames' = frames + 1
      /\ acc' = RecordTail(acc, stop) /\ caught' = caught
      /\ UNCHANGED <<visible, drains, run, round, budget, plan, sw, out, promoted, answer, searched, owed>>
  BY DEF TailFrame, config
<1>2. frames' \in 0..MaxFrames /\ acc \in Accumulators
      /\ caught' \in [tools : Seq(Interceptions), web : Seq(Interceptions)]
  BY <1>1, Constants DEF OrchInv, OrchTypeOK
<1>3. acc' \in Accumulators
  BY <1>1, <1>2 DEF RecordTail, Accumulators
<1>. QED
  BY <1>1, <1>2, <1>3, ReadStep

LEMMA EndStep == ASSUME OrchInv, EndOfStream PROVE OrchInv'
<1>1. /\ opc = "parse" /\ opc' = "plan" /\ frames' = frames /\ acc' = acc /\ caught' = caught
      /\ UNCHANGED <<visible, drains, run, round, budget, plan, sw, out, promoted, answer, searched, owed>>
  BY DEF EndOfStream, config, stream
<1>2. frames' \in 0..MaxFrames /\ acc' \in Accumulators
      /\ caught' \in [tools : Seq(Interceptions), web : Seq(Interceptions)]
  BY <1>1 DEF OrchInv, OrchTypeOK
<1>. QED
  BY <1>1, <1>2, ReadStep

\* What the budget allows fits into it.
LEMMA AllowedTools ==
  ASSUME OrchTypeOK
  PROVE  /\ allowToolSearch \in Seq(Interceptions) /\ Len(allowToolSearch) \in Nat
         /\ budget.toolSearch \in Nat
         /\ budget.toolSearch + Len(allowToolSearch) <= maxToolSearchRounds
<1> DEFINE n == Min(Len(caught.tools), maxToolSearchRounds - budget.toolSearch)
<1>1. /\ caught.tools \in Seq(Interceptions) /\ budget.toolSearch \in 0..maxToolSearchRounds
  BY DEF OrchTypeOK
<1>2. Len(caught.tools) \in Nat
  BY <1>1, LenProperties
<1>3. n \in Nat /\ n <= Len(caught.tools) /\ budget.toolSearch + n <= maxToolSearchRounds
  BY <1>1, <1>2, Constants DEF Min
<1>4. allowToolSearch = SubSeq(caught.tools, 1, n)
  BY DEF allowToolSearch
<1> HIDE DEF n
<1>5. \A i \in 1..n : caught.tools[i] \in Interceptions
  BY <1>1, <1>2, <1>3, ElementOfSeq
<1>6. /\ SubSeq(caught.tools, 1, n) \in Seq(Interceptions)
      /\ Len(SubSeq(caught.tools, 1, n)) = IF 1 <= n THEN n - 1 + 1 ELSE 0
  BY <1>3, <1>5, SubSeqProperties
<1>7. Len(SubSeq(caught.tools, 1, n)) = n
  BY <1>3, <1>6
<1>. QED
  BY <1>1, <1>3, <1>4, <1>6, <1>7, Constants

LEMMA GrantedQueries ==
  ASSUME OrchTypeOK, NEW granted \in SUBSET Asked,
         allowWebSearchRound => Cardinality(granted) = takeQueries(Cardinality(Asked)),
         ~allowWebSearchRound => granted = {}
  PROVE  /\ granted \in SUBSET Queries /\ Cardinality(granted) \in Nat
         /\ budget.webSearchQueries \in Nat
         /\ budget.webSearchQueries + Cardinality(granted) <= maxQueries
<1>1. Asked \subseteq Queries
  <2>1. caught.web \in Seq(Interceptions)
    BY DEF OrchTypeOK
  <2>2. \A i \in DOMAIN caught.web : caught.web[i] \in Interceptions
    BY <2>1, LenProperties, ElementOfSeq
  <2>3. \A x \in Interceptions : x.queries \subseteq Queries
    BY DEF Interceptions
  <2>. QED
    BY <2>2, <2>3 DEF Asked
<1>2. IsFiniteSet(Asked) /\ Cardinality(Asked) \in Nat
  BY <1>1, Constants, FS_Subset, FS_CardinalityType
<1>3. granted \in SUBSET Queries /\ Cardinality(granted) \in Nat
  BY <1>1, <1>2, FS_Subset, FS_CardinalityType
<1>4. budget.webSearchQueries \in 0..maxQueries
  BY DEF OrchTypeOK
<1>5. CASE allowWebSearchRound
  <2>1. Cardinality(granted) <= maxQueries - budget.webSearchQueries
    BY <1>2, <1>4, <1>5, Constants DEF takeQueries, Min
  <2>. QED
    BY <1>3, <1>4, <2>1, Constants
<1>6. CASE ~allowWebSearchRound
  <2>1. Cardinality(granted) = 0
    BY <1>6, FS_EmptySet
  <2>. QED
    BY <1>3, <1>4, <2>1, Constants
<1>. QED
  BY <1>5, <1>6

LEMMA PlanStep == ASSUME OrchInv, PlanRound PROVE OrchInv'
<1>1. PICK granted \in SUBSET Asked :
        /\ IF allowWebSearchRound THEN Cardinality(granted) = takeQueries(Cardinality(Asked))
                                  ELSE granted = {}
        /\ plan' = [web |-> granted, shown |-> {}, tools |-> allowToolSearch]
        /\ budget' = [toolSearch |-> budget.toolSearch + Len(allowToolSearch),
                      webSearchRounds |-> budget.webSearchRounds + (IF allowWebSearchRound THEN 1 ELSE 0),
                      webSearchQueries |-> budget.webSearchQueries + Cardinality(granted)]
  BY DEF PlanRound
<1>2. /\ opc = "plan" /\ frames' = 0 /\ caught' = NothingCaught
      /\ opc' = IF plan'.web = {} /\ plan'.tools = <<>> THEN "finish" ELSE "execute"
      /\ UNCHANGED <<visible, drains, run, round, sw, acc, out, promoted, answer, searched, owed>>
  BY DEF PlanRound, config, stream
<1>3. /\ plan'.web = granted /\ plan'.shown = {} /\ plan'.tools = allowToolSearch
      /\ budget'.webSearchQueries = budget.webSearchQueries + Cardinality(granted)
  BY <1>1
<1>4. OrchTypeOK
  BY DEF OrchInv
<1>5. /\ granted \in SUBSET Queries /\ Cardinality(granted) \in Nat
      /\ budget.webSearchQueries \in Nat
      /\ budget.webSearchQueries + Cardinality(granted) <= maxQueries
  BY <1>1, <1>4, GrantedQueries
<1>6. /\ allowToolSearch \in Seq(Interceptions) /\ Len(allowToolSearch) \in Nat
      /\ budget.toolSearch \in Nat
      /\ budget.toolSearch + Len(allowToolSearch) <= maxToolSearchRounds
  BY <1>4, AllowedTools
<1>7. budget.webSearchRounds + (IF allowWebSearchRound THEN 1 ELSE 0) \in 0..maxWebSearchRounds
  <2>1. budget.webSearchRounds \in 0..maxWebSearchRounds
    BY <1>4 DEF OrchTypeOK
  <2>. QED
    BY <2>1, Constants DEF allowWebSearchRound
<1>8. OrchTypeOK'
  <2>1. budget' \in [toolSearch : 0..maxToolSearchRounds, webSearchRounds : 0..maxWebSearchRounds,
                     webSearchQueries : 0..maxQueries]
    <3>1. /\ budget.toolSearch + Len(allowToolSearch) \in 0..maxToolSearchRounds
          /\ budget.webSearchQueries + Cardinality(granted) \in 0..maxQueries
      BY <1>5, <1>6, Constants
    <3>. QED
      BY <1>1, <1>7, <3>1
  <2>2. plan' \in [web : SUBSET Queries, shown : SUBSET Queries, tools : Seq(Interceptions)]
    BY <1>1, <1>5, <1>6
  <2>3. frames' \in 0..MaxFrames /\ opc' \in {"finish", "execute"}
    BY <1>2, Constants
  <2>4. caught' \in [tools : Seq(Interceptions), web : Seq(Interceptions)]
    BY <1>2, FreshPlan
  <2>. QED
    BY <1>2, <1>4, <2>1, <2>2, <2>3, <2>4 DEF OrchTypeOK
<1>9. opc' = "finish" => plan' = NoPlan
  BY <1>1, <1>2, <1>3 DEF NoPlan
<1>10. opc' = "execute" => plan' # NoPlan /\ maxOrchestratorRounds # 0
  <2>1. opc' = "execute" => granted # {} \/ allowToolSearch # <<>>
    BY <1>2, <1>3
  <2>2. opc' = "execute" => plan' # NoPlan
    BY <1>3, <2>1, FreshPlan
  <2>3. granted # {} => maxWebSearchRounds # 0
    <3>1. budget.webSearchRounds \in 0..maxWebSearchRounds
      BY <1>4 DEF OrchTypeOK
    <3>. QED
      BY <1>1, <3>1, Constants DEF allowWebSearchRound
  <2>4. allowToolSearch # <<>> => maxToolSearchRounds # 0
    BY <1>6, Constants, EmptySeq
  <2>. QED
    BY <2>1, <2>2, <2>3, <2>4, Constants
<1>11. RoundInv'
  BY <1>2, <1>10 DEF OrchInv, RoundInv
<1>12. PlanInv'
  BY <1>2, <1>3, <1>9 DEF PlanInv
<1>13. WriterInv' /\ MessageInv' /\ CountInv' /\ AnswerInv'
  <2>1. opc \notin Ended /\ opc' \notin Ended /\ plan.shown = {}
    BY <1>2, FreshPlan DEF Ended, OrchInv, PlanInv
  <2>. QED
    BY <1>2, <1>3, <2>1, QuietStep
<1>14. QueryInv'
  <2>1. searched \in Nat
    BY <1>4 DEF OrchTypeOK
  <2>2. visible => (searched > 0 => promoted) /\ searched <= budget.webSearchQueries
    BY <1>2, <1>5, <2>1 DEF OrchInv, QueryInv
  <2>. QED
    BY <1>2, <1>3, <1>5, <2>1, <2>2 DEF QueryInv
<1>15. OwedInv'
  BY <1>2 DEF OrchInv, OwedInv
<1>16. BlockInv'
  BY <1>2, <1>3, <1>10 DEF BlockInv
<1>. QED
  BY <1>8, <1>11, <1>12, <1>13, <1>14, <1>15, <1>16 DEF OrchInv

\* Two blocks of searches, one behind the other, leave the writer where one does.
LEMMA AtStopIdle ==
  ASSUME NEW w, At(w, "stop")
  PROVE  w \in Writers /\ w.started /\ Idle(w)
<1>1. w \in Writers /\ (w.started => Inside(w.active, "stop")) /\ w.started
  BY DEF At
<1>2. w.active \in {""} \cup DOMAIN StartOf
  BY <1>1 DEF Writers
<1>. QED
  BY <1>1, <1>2, EventNames DEF Inside, Idle

LEMMA OutputRecord ==
  ASSUME NEW w, NEW ops, NEW block, NEW a, NEW r, r = Output(w, ops, block, a)
  PROVE  r.acc = a /\ r = [w |-> r.w, ops |-> r.ops, acc |-> r.acc]
BY DEF Output

LEMMA BlockRecord ==
  ASSUME NEW w, NEW type, NEW delta, NEW a, NEW r, r = Block(w, type, delta, a)
  PROVE  r.acc = a /\ r = [w |-> r.w, ops |-> r.ops, acc |-> r.acc]
<1>1. \E ops, block : r = Output(w, ops, block, a)
  BY Zenon DEF Block
<1>2. PICK ops, block : r = Output(w, ops, block, a)
  BY <1>1
<1>. QED
  BY <1>2, OutputRecord

LEMMA ToolWrites ==
  ASSUME Writing, NEW p, At(sw, p), NEW use, NEW result,
         use = WriteServerToolUse(sw, acc), result = WriteSearchResult(use.w, acc),
         Emit(Then(use, result))
  PROVE  Wrote(p, "stop", 1, 1) /\ At(sw', "stop") /\ Idle(sw') /\ promoted'
<1> DEFINE r == Then(use, result)
<1>1. use = Block(sw, "server_tool_use", <<"delta">>, acc) /\ result = Block(use.w, "search_result", <<>>, acc)
  BY DEF Block, WriteServerToolUse, WriteSearchResult
<1>2. acc \in Accumulators /\ <<"delta">> \in Bodies /\ <<>> \in Bodies
  BY DEF Writing, Bodies
<1>3. Leads(Operations, p, use.ops, "stop") /\ At(use.w, "stop") /\ (Promotes(use.ops) \/ sw.fired)
  BY <1>1, <1>2, SearchOK
<1>4. Leads(Operations, "stop", result.ops, "stop") /\ At(result.w, "stop")
  BY <1>1, <1>2, <1>3, SearchOK
<1>5. result.acc = acc
  BY <1>1, BlockRecord
<1>6. r.w = result.w /\ r.acc = acc /\ r.ops = use.ops \o result.ops
  BY <1>5 DEF Then
<1>7. Emit(r)
  OBVIOUS
<1> HIDE DEF r
<1>8. /\ Leads(Operations, p, r.ops, "stop")
      /\ Promotes(r.ops) <=> Promotes(use.ops) \/ Promotes(result.ops)
  BY <1>3, <1>4, <1>6, LeadsConcat, PromotesConcat
<1>9. /\ Cardinality(Occurs(r.ops, "server_tool_use_start")) = 1
      /\ Cardinality(Occurs(r.ops, "search_result_start")) = 1
  <2>1. \A ev \in {"server_tool_use_start", "search_result_start"} :
          /\ Cardinality(Occurs(use.ops, ev)) = IF StartOf["server_tool_use"] = ev THEN 1 ELSE 0
          /\ Cardinality(Occurs(result.ops, ev)) = IF StartOf["search_result"] = ev THEN 1 ELSE 0
    BY <1>1, <1>2, <1>3, SearchOccurs
  <2>2. \A ev : Cardinality(Occurs(r.ops, ev)) = Cardinality(Occurs(use.ops, ev)) + Cardinality(Occurs(result.ops, ev))
    BY <1>3, <1>4, <1>6, OccursConcat DEF Leads
  <2>. QED
    BY <2>1, <2>2, EventNames
<1>10. /\ sw' = r.w /\ acc' = r.acc /\ out' \in Seq(Operations) /\ promoted' \in BOOLEAN
       /\ promoted' <=> promoted \/ Promotes(r.ops)
       /\ Runs(out, p) => Runs(out', "stop")
       /\ "stop" # p => EndsIn(out', {"stop"})
       /\ \A ev : Cardinality(Occurs(out', ev)) = Cardinality(Occurs(out, ev)) + Cardinality(Occurs(r.ops, ev))
  BY <1>7, <1>8, Emitted
<1>11. promoted'
  BY <1>3, <1>8, <1>10 DEF Writing
<1>12. At(sw', "stop")
  BY <1>4, <1>6, <1>10
<1>13. sw' \in Writers /\ sw'.started /\ Idle(sw')
  BY <1>12, AtStopIdle
<1>14. /\ Cardinality(Occurs(out', "server_tool_use_start"))
            = Cardinality(Occurs(out, "server_tool_use_start")) + 1
       /\ Cardinality(Occurs(out', "search_result_start"))
            = Cardinality(Occurs(out, "search_result_start")) + 1
  BY <1>9, <1>10
<1>. QED
  BY <1>2, <1>6, <1>10, <1>11, <1>12, <1>13, <1>14 DEF Wrote

LEMMA ShowStep == ASSUME OrchInv, ShowSearch PROVE OrchInv'
<1>1. PICK x \in plan.web \ plan.shown : plan' = [plan EXCEPT !.shown = plan.shown \cup {x}]
  BY DEF ShowSearch
<1>2. /\ opc = "execute" /\ opc' = "execute" /\ visible /\ Emit(WriteServerToolUse(sw, acc))
      /\ UNCHANGED <<visible, drains, run, round, budget, frames, caught, answer, searched, owed>>
  BY DEF ShowSearch, config
<1>3. PICK p : At(sw, p) /\ (visible => Runs(out, p)) /\ Writing
  BY <1>2, MayWrite
<1>4. Wrote(p, "stop", 1, 0) /\ At(sw', "stop") /\ Idle(sw') /\ promoted'
  <2>1. Emit(Block(sw, "server_tool_use", <<"delta">>, acc)) /\ <<"delta">> \in Bodies
    BY <1>2 DEF Block, WriteServerToolUse, Bodies
  <2>. QED
    BY <1>3, <2>1, SearchWrites
<1>5. OrchTypeOK
  BY DEF OrchInv
<1>6. /\ plan \in [web : SUBSET Queries, shown : SUBSET Queries, tools : Seq(Interceptions)]
      /\ plan.shown \subseteq plan.web
  BY <1>5 DEF OrchInv, OrchTypeOK, PlanInv
<1>7. /\ plan'.web = plan.web /\ plan'.shown = plan.shown \cup {x}
      /\ plan' \in [web : SUBSET Queries, shown : SUBSET Queries, tools : Seq(Interceptions)]
  BY <1>1, <1>6
<1>8. /\ Cardinality(plan'.shown) = Cardinality(plan.shown) + 1 /\ Cardinality(plan.shown) \in Nat
  BY <1>1, <1>5, <1>7, PlanSizes, FS_AddElement
<1>9. OrchTypeOK'
  BY <1>2, <1>4, <1>5, <1>7 DEF OrchTypeOK, Wrote
<1>10. RoundInv' /\ PlanInv'
  BY <1>1, <1>2, <1>6, <1>7 DEF OrchInv, RoundInv, PlanInv
<1>11. WriterInv' /\ MessageInv' /\ CountInv' /\ AnswerInv'
  <2>1. opc \notin Ended /\ opc' \notin {"finished", "deliver", "done"} /\ 1 \in Nat /\ 0 \in Nat
    BY <1>2 DEF Ended
  <2>2. Cardinality(plan.shown) + 1 = Cardinality(plan'.shown) + 0 /\ Cardinality(plan'.shown) \in Nat
    BY <1>8
  <2>. QED
    BY <1>2, <1>3, <1>4, <2>1, <2>2, WriteStep
<1>12. QueryInv' /\ OwedInv'
  BY <1>2, <1>4, <1>7 DEF OrchInv, QueryInv, OwedInv
<1>13. BlockInv'
  BY <1>4 DEF BlockInv
<1>. QED
  BY <1>9, <1>10, <1>11, <1>12, <1>13 DEF OrchInv

LEMMA ExecuteStep == ASSUME OrchInv, executeWebSearches PROVE OrchInv'
<1>1. /\ opc = "execute" /\ opc' = "results" /\ plan.web # {} /\ (visible => plan.shown = plan.web)
      /\ searched' = searched + Cardinality(plan.web)
      /\ UNCHANGED <<visible, drains, run, round, budget, frames, caught, plan, sw, acc, out, promoted,
                     answer, owed>>
  BY DEF executeWebSearches, config, stream
<1>2. OrchTypeOK /\ Cardinality(plan.web) \in Nat
  BY PlanSizes DEF OrchInv
<1>3. OrchTypeOK'
  <2>1. searched' \in Nat
    BY <1>1, <1>2 DEF OrchTypeOK
  <2>. QED
    BY <1>1, <1>2, <2>1 DEF OrchTypeOK
<1>4. RoundInv' /\ PlanInv'
  BY <1>1 DEF OrchInv, RoundInv, PlanInv
<1>5. WriterInv' /\ MessageInv' /\ CountInv' /\ AnswerInv'
  BY <1>1, QuietStep DEF Ended
<1>6. QueryInv'
  <2>1. plan.shown # {} => promoted
    BY DEF OrchInv, QueryInv
  <2>2. visible => promoted /\ searched + Cardinality(plan.web) <= budget.webSearchQueries
    BY <1>1, <2>1 DEF OrchInv, QueryInv
  <2>3. searched' + 0 = searched + Cardinality(plan.web)
    BY <1>1, <1>2 DEF OrchTypeOK
  <2>. QED
    BY <1>1, <2>1, <2>2, <2>3 DEF QueryInv
<1>7. OwedInv'
  BY <1>1 DEF OwedInv
<1>8. BlockInv'
  BY <1>1 DEF OrchInv, BlockInv
<1>. QED
  BY <1>3, <1>4, <1>5, <1>6, <1>7, <1>8 DEF OrchInv

LEMMA ResultStep == ASSUME OrchInv, WebSearchResult PROVE OrchInv'
<1>1. PICK x \in plan.web : plan' = [plan EXCEPT !.web = plan.web \ {x}, !.shown = plan.shown \ {x}]
  BY DEF WebSearchResult
<1>2. /\ opc = "results" /\ opc' = "results" /\ owed' = owed + 1
      /\ IF visible THEN Emit(WriteSearchResult(sw, acc)) ELSE UNCHANGED <<sw, acc, out, promoted>>
      /\ UNCHANGED <<visible, drains, run, round, budget, frames, caught, answer, searched>>
  BY DEF WebSearchResult, config, stream
<1>3. PICK p : At(sw, p) /\ (visible => Runs(out, p)) /\ Writing
  BY <1>2, MayWrite
<1>4. visible => Wrote(p, "stop", 0, 1) /\ At(sw', "stop") /\ Idle(sw') /\ promoted'
  <2>. SUFFICES ASSUME visible PROVE Wrote(p, "stop", 0, 1) /\ At(sw', "stop") /\ Idle(sw') /\ promoted'
    OBVIOUS
  <2>1. Emit(Block(sw, "search_result", <<>>, acc)) /\ <<>> \in Bodies
    BY <1>2 DEF Block, WriteSearchResult, Bodies
  <2>. QED
    BY <1>3, <2>1, SearchWrites
<1>5. OrchTypeOK
  BY DEF OrchInv
<1>6. /\ plan \in [web : SUBSET Queries, shown : SUBSET Queries, tools : Seq(Interceptions)]
      /\ (visible => plan.shown = plan.web) /\ (~visible => plan.shown = {})
  BY <1>2, <1>5 DEF OrchInv, OrchTypeOK, PlanInv
<1>7. /\ plan'.web = plan.web \ {x} /\ plan'.shown = plan.shown \ {x}
      /\ plan' \in [web : SUBSET Queries, shown : SUBSET Queries, tools : Seq(Interceptions)]
  BY <1>1, <1>6
<1>8. /\ Cardinality(plan.shown) \in Nat /\ Cardinality(plan'.shown) \in Nat
      /\ visible => Cardinality(plan.shown) = Cardinality(plan'.shown) + 1
  <2>1. IsFiniteSet(plan.shown) /\ Cardinality(plan.shown) \in Nat
    BY <1>5, PlanSizes
  <2>2. IsFiniteSet(plan'.shown) /\ Cardinality(plan'.shown) \in Nat
    <3>1. IsFiniteSet(plan.shown \ {x})
      BY <2>1, FS_RemoveElement
    <3>. QED
      BY <1>7, <3>1, FS_CardinalityType
  <2>3. visible => x \in plan.shown
    BY <1>6
  <2>4. Cardinality(plan'.shown) = IF x \in plan.shown THEN Cardinality(plan.shown) - 1 ELSE Cardinality(plan.shown)
    BY <1>7, <2>1, FS_RemoveElement
  <2>. QED
    BY <2>1, <2>2, <2>3, <2>4
<1>9. OrchTypeOK'
  <2>1. owed' \in Nat
    BY <1>2, <1>5 DEF OrchTypeOK
  <2>2. sw' \in Writers /\ acc' \in Accumulators /\ out' \in Seq(Operations) /\ promoted' \in BOOLEAN
    BY <1>2, <1>4, <1>5 DEF OrchTypeOK, Wrote
  <2>. QED
    BY <1>2, <1>5, <1>7, <2>1, <2>2 DEF OrchTypeOK
<1>10. RoundInv' /\ PlanInv'
  BY <1>2, <1>6, <1>7 DEF OrchInv, RoundInv, PlanInv
<1>11. opc \notin Ended /\ opc' \notin Ended /\ opc' \notin {"finished", "deliver", "done"}
  BY <1>2 DEF Ended
<1>12. WriterInv' /\ MessageInv' /\ CountInv' /\ AnswerInv'
  <2>1. CASE visible
    <3>1. Cardinality(plan.shown) + 0 = Cardinality(plan'.shown) + 1 /\ 0 \in Nat /\ 1 \in Nat
      BY <1>8, <2>1
    <3>. QED
      BY <1>2, <1>3, <1>4, <1>8, <1>11, <2>1, <3>1, WriteStep
  <2>2. CASE ~visible
    <3>1. plan'.shown = plan.shown
      BY <1>6, <1>7, <2>2
    <3>. QED
      BY <1>2, <1>11, <2>2, <3>1, QuietStep
  <2>. QED
    BY <2>1, <2>2
<1>13. QueryInv'
  <2>1. plan'.shown # {} => plan.shown # {}
    BY <1>7
  <2>2. promoted => promoted'
    BY <1>2, <1>4
  <2>. QED
    BY <1>2, <2>1, <2>2 DEF OrchInv, QueryInv
<1>14. OwedInv' /\ BlockInv'
  BY <1>2, <1>4 DEF OwedInv, BlockInv
<1>. QED
  BY <1>9, <1>10, <1>12, <1>13, <1>14 DEF OrchInv

LEMMA ToolStep == ASSUME OrchInv, ToolSearch PROVE OrchInv'
<1>1. PICK use, result :
        /\ use = WriteServerToolUse(sw, acc) /\ result = WriteSearchResult(use.w, acc)
        /\ Emit(Then(use, result))
  BY DEF ToolSearch
<1>2. /\ opc \in {"execute", "results"} /\ opc' = opc /\ plan.web = {} /\ plan.tools # <<>>
      /\ plan' = [plan EXCEPT !.tools = SubSeq(plan.tools, 2, Len(plan.tools))]
      /\ owed' = owed + 1
      /\ UNCHANGED <<visible, drains, run, round, budget, frames, caught, answer, searched>>
  BY DEF ToolSearch, config
<1>3. PICK p : At(sw, p) /\ (visible => Runs(out, p)) /\ Writing
  BY <1>2, MayWrite
<1>4. Wrote(p, "stop", 1, 1) /\ At(sw', "stop") /\ Idle(sw') /\ promoted'
  BY <1>1, <1>3, ToolWrites
<1>5. OrchTypeOK
  BY DEF OrchInv
<1>6. /\ plan \in [web : SUBSET Queries, shown : SUBSET Queries, tools : Seq(Interceptions)]
      /\ plan.shown = {}
  BY <1>2, <1>5 DEF OrchInv, OrchTypeOK, PlanInv
<1>7. SubSeq(plan.tools, 2, Len(plan.tools)) \in Seq(Interceptions)
  <2>1. plan.tools \in Seq(Interceptions) /\ Len(plan.tools) \in Nat
    BY <1>6
  <2>2. \A i \in 2..Len(plan.tools) : i \in 1..Len(plan.tools)
    BY <2>1
  <2>. QED
    BY <2>1, <2>2, SubSeqProperties
<1>8. /\ plan'.web = {} /\ plan'.shown = {}
      /\ plan' \in [web : SUBSET Queries, shown : SUBSET Queries, tools : Seq(Interceptions)]
  BY <1>2, <1>6, <1>7
<1>9. OrchTypeOK'
  <2>1. owed' \in Nat
    BY <1>2, <1>5 DEF OrchTypeOK
  <2>2. sw' \in Writers /\ acc' \in Accumulators /\ out' \in Seq(Operations) /\ promoted' \in BOOLEAN
    BY <1>4 DEF Wrote
  <2>. QED
    BY <1>2, <1>5, <1>8, <2>1, <2>2 DEF OrchTypeOK
<1>10. RoundInv' /\ PlanInv'
  BY <1>2, <1>8 DEF OrchInv, RoundInv, PlanInv
<1>11. WriterInv' /\ MessageInv' /\ CountInv' /\ AnswerInv'
  <2>1. opc \notin Ended /\ opc' \notin {"finished", "deliver", "done"} /\ 1 \in Nat
    BY <1>2 DEF Ended
  <2>2. Cardinality(plan.shown) + 1 = Cardinality(plan'.shown) + 1 /\ Cardinality(plan'.shown) \in Nat
    BY <1>6, <1>8, FS_EmptySet
  <2>. QED
    BY <1>2, <1>3, <1>4, <2>1, <2>2, WriteStep
<1>12. QueryInv'
  BY <1>2, <1>4, <1>8 DEF OrchInv, QueryInv
<1>13. OwedInv' /\ BlockInv'
  BY <1>2, <1>4 DEF OwedInv, BlockInv
<1>. QED
  BY <1>9, <1>10, <1>11, <1>12, <1>13 DEF OrchInv

LEMMA NextStep == ASSUME OrchInv, NextRound PROVE OrchInv'
<1>1. /\ opc \in {"execute", "results"} /\ plan = NoPlan /\ round' = round + 1
      /\ opc' = IF round' < maxOrchestratorRounds THEN "call" ELSE "exhausted"
      /\ UNCHANGED <<visible, drains, run, budget, frames, caught, plan, sw, acc, out, promoted, answer,
                     searched, owed>>
  BY DEF NextRound, config, stream
<1>2. opc' \in {"call", "exhausted"}
  BY <1>1
<1>3. OrchTypeOK /\ round \in Nat /\ round < maxOrchestratorRounds
  BY <1>1 DEF OrchInv, OrchTypeOK, RoundInv
<1>4. round' \in 0..maxOrchestratorRounds /\ (opc' = "exhausted" => round' = maxOrchestratorRounds)
  BY <1>1, <1>3, Constants
<1>5. OrchTypeOK'
  BY <1>1, <1>2, <1>3, <1>4 DEF OrchTypeOK
<1>6. RoundInv' /\ PlanInv'
  BY <1>1, <1>2 DEF OrchInv, RoundInv, PlanInv
<1>7. WriterInv' /\ MessageInv' /\ CountInv' /\ AnswerInv'
  BY <1>1, <1>2, QuietStep DEF Ended
<1>8. QueryInv'
  <2>1. plan.web = {} /\ Cardinality({}) = 0
    BY <1>1, FreshPlan, FS_EmptySet
  <2>2. searched \in Nat
    BY <1>3 DEF OrchTypeOK
  <2>. QED
    BY <1>1, <1>2, <2>1, <2>2 DEF OrchInv, QueryInv
<1>9. OwedInv'
  BY <1>1, <1>2, <1>4 DEF OwedInv
<1>10. BlockInv'
  <2>1. visible => Idle(sw)
    BY <1>1 DEF OrchInv, BlockInv
  <2>. QED
    BY <1>1, <2>1 DEF BlockInv
<1>. QED
  BY <1>5, <1>6, <1>7, <1>8, <1>9, <1>10 DEF OrchInv

LEMMA FinishStep == ASSUME OrchInv, FinishMessage PROVE OrchInv'
<1>1. PICK r \in Finish(sw, acc) : Emit(r)
  BY DEF FinishMessage
<1>2. /\ opc \in {"finish", "exhausted"} /\ opc' \in {"finished", "deliver"}
      /\ UNCHANGED <<visible, drains, run, round, budget, frames, caught, plan, answer, searched, owed>>
  BY DEF FinishMessage, config
<1>3. PICK p : At(sw, p) /\ (visible => Runs(out, p)) /\ Writing
  BY <1>2, MayWrite
<1>4. Yields(sw, acc, p, r, "message_stop") /\ r.w.started
  BY <1>3, FinishOK DEF Writing
<1>5. Wrote(p, "message_stop", 0, 0) /\ sw' = r.w
  BY <1>1, <1>3, <1>4, PlainWrites
<1>6. OrchTypeOK
  BY DEF OrchInv
<1>7. OrchTypeOK'
  BY <1>2, <1>5, <1>6 DEF OrchTypeOK, Wrote
<1>8. RoundInv' /\ PlanInv'
  BY <1>2 DEF OrchInv, RoundInv, PlanInv
<1>9. WriterInv' /\ MessageInv' /\ CountInv' /\ AnswerInv'
  <2>1. sw'.started
    BY <1>4, <1>5
  <2>2. "message_stop" # p
    BY <1>3, AtPlaces
  <2>3. Cardinality(plan.shown) + 0 = Cardinality(plan'.shown) + 0 /\ Cardinality(plan'.shown) \in Nat
    BY <1>2, <1>6, PlanSizes
  <2>4. opc \notin Ended /\ opc' # "done" /\ 0 \in Nat
    BY <1>2 DEF Ended
  <2>. QED
    BY <1>2, <1>3, <1>5, <2>1, <2>2, <2>3, <2>4, WriteStep
<1>10. QueryInv'
  BY <1>2, <1>5 DEF OrchInv, QueryInv, Wrote
<1>11. OwedInv'
  BY <1>2 DEF OrchInv, OwedInv
<1>12. BlockInv'
  BY <1>2 DEF BlockInv
<1>. QED
  BY <1>7, <1>8, <1>9, <1>10, <1>11, <1>12 DEF OrchInv

LEMMA RetryStep == ASSUME OrchInv, Retry PROVE OrchInv'
<1>1. /\ opc = "finished" /\ ~promoted /\ opc' = "call" /\ run' = 2 /\ round' = 0 /\ budget' = newRoundBudget
      /\ sw' = NewWriter /\ acc' = NewAccumulator /\ out' = <<>>
      /\ UNCHANGED <<visible, drains, frames, caught, plan, promoted, answer, searched, owed>>
  BY DEF Retry, EmptyVisible, config
<1>2. OrchTypeOK
  BY DEF OrchInv
<1>3. plan = NoPlan /\ plan.shown = {}
  BY <1>1, FreshPlan DEF OrchInv, PlanInv
<1>4. OrchTypeOK'
  <2>1. 0 \in 0..maxOrchestratorRounds
    BY Constants
  <2>. QED
    BY <1>1, <1>2, <2>1, FreshWriter, FreshPlan DEF OrchTypeOK
<1>5. RoundInv' /\ PlanInv'
  <2>1. 0 < maxOrchestratorRounds \/ maxOrchestratorRounds = 0
    BY Constants
  <2>. QED
    BY <1>1, <2>1 DEF OrchInv, RoundInv, PlanInv
<1>6. WriterInv'
  BY <1>1, FreshWriter DEF WriterInv
<1>7. QueryInv'
  <2>1. visible => searched = 0
    BY <1>1, <1>2 DEF OrchInv, QueryInv, OrchTypeOK
  <2>. QED
    BY <1>1, <1>3, <2>1, FreshPlan DEF QueryInv
<1>8. OwedInv' /\ BlockInv'
  BY <1>1 DEF OwedInv, BlockInv
<1>9. MessageInv'
  BY <1>1, FreshWriter DEF MessageInv
<1>10. CountInv'
  <2>1. \A ev : Count(ev)' = 0
    BY <1>1, FreshWriter DEF Count, Occurs
  <2>2. Cardinality(plan'.shown) = 0
    BY <1>1, <1>3, FS_EmptySet
  <2>. QED
    BY <2>1, <2>2 DEF CountInv
<1>11. AnswerInv'
  <2>1. answer' = "none"
    BY <1>1 DEF OrchInv, RoundInv
  <2>. QED
    BY <1>1, <2>1 DEF AnswerInv, AnsweredInFull
<1>. QED
  BY <1>4, <1>5, <1>6, <1>7, <1>8, <1>9, <1>10, <1>11 DEF OrchInv

\* The ways to end in an error; a retry's empty run is one only before the promotion.
LEMMA ErrorSteps ==
  ASSUME OrchInv, UpstreamFails \/ PlanFails \/ ToolSearchFails \/ RetryEmpty
  PROVE  OrchInv'
<1>1. FinalError /\ opc # "done" /\ (opc \in {"finished", "deliver"} => ~promoted)
  BY DEF UpstreamFails, PlanFails, ToolSearchFails, RetryEmpty, EmptyVisible
<1>. QED
  BY <1>1, FinalErrorStep

LEMMA StutterInv == ASSUME OrchInv, UNCHANGED orchVars PROVE OrchInv'
<1>1. UNCHANGED <<visible, drains, opc, run, round, budget, frames, caught, plan, sw, acc, out,
                  promoted, answer, searched, owed>>
  BY DEF orchVars
<1>2. OrchTypeOK' /\ RoundInv' /\ PlanInv' /\ WriterInv'
  BY <1>1 DEF OrchInv, OrchTypeOK, RoundInv, PlanInv, WriterInv
<1>3. QueryInv' /\ OwedInv' /\ BlockInv' /\ MessageInv'
  BY <1>1 DEF OrchInv, QueryInv, OwedInv, BlockInv, MessageInv
<1>4. CountInv' /\ AnswerInv'
  BY <1>1 DEF OrchInv, CountInv, AnswerInv, Count, AnsweredInFull
<1>. QED
  BY <1>2, <1>3, <1>4 DEF OrchInv

LEMMA NextInv == OrchInv /\ [OrchNext]_orchVars => OrchInv'
<1>. SUFFICES ASSUME OrchInv, [OrchNext]_orchVars PROVE OrchInv'
  OBVIOUS
<1>1. CASE UpstreamFails \/ PlanFails \/ ToolSearchFails \/ RetryEmpty
  BY <1>1, ErrorSteps
<1>2. CASE CallSucceeds \/ Frame \/ EndOfStream
  BY <1>2, CallStep, FrameStep, EndStep
<1>3. CASE \E i \in Interceptions : Intercept(i)
  BY <1>3, InterceptStep
<1>4. CASE \E stop \in BOOLEAN : TailFrame(stop)
  BY <1>4, TailStep
<1>5. CASE PlanRound \/ ShowSearch \/ executeWebSearches
  BY <1>5, PlanStep, ShowStep, ExecuteStep
<1>6. CASE WebSearchResult \/ ToolSearch \/ NextRound
  BY <1>6, ResultStep, ToolStep, NextStep
<1>7. CASE FinishMessage \/ Deliver \/ Retry
  BY <1>7, FinishStep, DeliverStep, RetryStep
<1>8. CASE Break
  BY <1>8, BreakStep
<1>9. CASE OrchDone \/ UNCHANGED orchVars
  BY <1>9, StutterInv DEF OrchDone
<1>. QED
  BY <1>1, <1>2, <1>3, <1>4, <1>5, <1>6, <1>7, <1>8, <1>9 DEF OrchNext, OrchStep

LEMMA OrchInvariant == OrchSpec => []OrchInv
BY InitInv, NextInv, PTL DEF OrchSpec

-----------------------------------------------------------------------------
(* The theorems *)

\* The orchestrator's state keeps its types: no round beyond the last is counted, and no budget
\* is overdrawn by what planRound grants (app/messages/toolsearch.go).
THEOREM OrchTypes == OrchSpec => []OrchTypeOK
<1>1. OrchInv => OrchTypeOK
  BY DEF OrchInv
<1>. QED
  BY <1>1, OrchInvariant, PTL

\* With visible searches the client always reads a well-formed Anthropic event stream, through
\* all rounds, searches, a retry and a late error: one message_start, blocks one at a time, the
\* closing events once (respconv/streaming.go and app/messages/toolsearch.go).
THEOREM VisibleMessage == OrchSpec => []VisibleMessageWellFormed
<1>1. OrchInv => VisibleMessageWellFormed
  <2>. SUFFICES ASSUME OrchInv, visible PROVE WellFormed(out)
    BY DEF VisibleMessageWellFormed, MessageWellFormed
  <2>1. \E q : Runs(out, q)
    BY DEF OrchInv, MessageInv
  <2>2. PICK q : Runs(out, q)
    BY <2>1
  <2>3. Leads(Operations, "", out, q)
    BY <2>2 DEF Runs
  <2>. QED
    BY <2>3, LeadsWellFormed
<1>. QED
  BY <1>1, OrchInvariant, PTL

\* A request that is not cut off is answered in full: by a promoted message that runs to
\* message_stop and has a result for every search it shows, or by an error that ends the message
\* on the wire or stands alone (finish and WriteFinalError).
THEOREM Answered == OrchSpec => []AnsweredInFull
<1>1. OrchInv => AnsweredInFull
  BY DEF OrchInv, AnswerInv
<1>. QED
  BY <1>1, OrchInvariant, PTL

\* With visible searches a request, its retry included, executes no more web queries than its
\* budget (roundBudget in toolsearch.go): what a run has executed is on the wire and cannot be
\* started over.
THEOREM VisibleBudget == OrchSpec => []VisibleQueriesWithinBudget
<1>1. OrchInv => VisibleQueriesWithinBudget
  <2>. SUFFICES ASSUME OrchInv, visible PROVE searched <= maxQueries
    BY DEF VisibleQueriesWithinBudget, QueriesWithinBudget
  <2>1. OrchTypeOK
    BY DEF OrchInv
  <2>2. searched \in Nat /\ budget.webSearchQueries \in 0..maxQueries /\ maxQueries \in Nat
    BY <2>1, Constants DEF OrchTypeOK
  <2>3. Cardinality(plan.web) \in Nat
    BY <2>1, PlanSizes
  <2>4. searched <= budget.webSearchQueries
    BY <2>2, <2>3 DEF OrchInv, QueryInv
  <2>. QED
    BY <2>2, <2>4
<1>. QED
  BY <1>1, OrchInvariant, PTL

\* A message is finished with no result left over that the model has not been sent, unless the
\* rounds were used up (the loop of toolsearch.go).
THEOREM ResultsInTime == OrchSpec => []ResultsReachModelInTime
<1>1. OrchInv => ResultsReachModelInTime
  <2>. SUFFICES ASSUME OrchInv, answer = "message", round < maxOrchestratorRounds PROVE owed = 0
    BY DEF ResultsReachModelInTime
  <2>1. opc = "done"
    BY DEF OrchInv, RoundInv
  <2>2. round \in Nat /\ maxOrchestratorRounds \in Nat /\ owed \in Nat
    BY Constants DEF OrchInv, OrchTypeOK
  <2>. QED
    BY <2>1, <2>2 DEF OrchInv, OwedInv
<1>. QED
  BY <1>1, OrchInvariant, PTL

\* What a retry throws away holds no tool call and no search: each round begins the accumulator
\* anew, but a block that shows one opens the gate (the retry of toolsearch.go).
THEOREM RetryDropsNothing == OrchSpec => RetryDropsNothingShown
<1> DEFINE Dropped == \A shown \in {"tool_use", "server_tool_use", "search_result"} : Count(StartOf[shown]) = 0
<1>1. OrchInv /\ [OrchNext]_orchVars => [run' # run => Dropped]_orchVars
  <2>. SUFFICES ASSUME OrchInv, OrchNext, run' # run PROVE Dropped
    BY DEF orchVars
  <2>1. Retry
    BY DEF OrchNext, OrchStep, UpstreamFails, CallSucceeds, Frame, EndOfStream, Intercept, TailFrame, PlanFails,
           PlanRound, ShowSearch, executeWebSearches, WebSearchResult, ToolSearchFails, ToolSearch, NextRound,
           FinishMessage, Deliver, RetryEmpty, Break, OrchDone, FinalError, orchVars
  <2>2. out \in Seq(Toolless)
    BY <2>1 DEF Retry, EmptyVisible, OrchInv, WriterInv
  <2>3. \A shown \in {"tool_use", "server_tool_use", "search_result"} : StartOf[shown] \notin Toolless
    BY EventNames DEF Toolless, Plain
  <2>. QED
    BY <2>2, <2>3, OccursNowhere DEF Count, Occurs
<1>. QED
  BY <1>1, OrchInvariant, PTL DEF OrchSpec, RetryDropsNothingShown

=============================================================================
