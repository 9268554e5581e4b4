----------------------- MODULE BufferedExchangeProofs -----------------------
(***************************************************************************)
(* Theorems about BufferedExchange, for every set of payloads, any number  *)
(* of frames and every round budget.                                       *)
(*                                                                         *)
(* Four parts: induction and recursive functions; the sequences of calls   *)
(* the handler keeps; the accumulator of EventStream, which finds exactly  *)
(* the calls its frames hold; and the inductive invariant of a request.    *)
(***************************************************************************)
EXTENDS BufferedExchange, SequenceTheorems, FiniteSetTheorems, WellFoundedInduction, TLAPS

(***************************************************************************)
(* Induction over the natural numbers, with the statement as a set; and    *)
(* what it says of recursive functions: what one computes exists, and is   *)
(* what its equations say.                                                 *)
(***************************************************************************)
LEMMA LeastNat ==
  ASSUME NEW T, T \subseteq Nat, T # {}
  PROVE  \E x \in T : \A y \in T : x <= y
<1>. DEFINE R == {p \in Nat \X Nat : p[1] < p[2]}
<1>1. IsWellFoundedOn(R, Nat)
  BY NatLessThanWellFounded DEF OpToRel
<1>2. PICK x \in T : \A y \in T : ~(<<y, x>> \in R)
  BY <1>1, WFMin
<1>3. \A y \in T : <<y, x>> \in R <=> y < x
  BY <1>2
<1>4. \A y \in T : ~(y < x)
  BY <1>2, <1>3
<1>. QED
  BY <1>4

\* A set that holds 0 and the successor of each of its numbers holds every natural number.
LEMMA Induction ==
  ASSUME NEW S, 0 \in S, \A n \in Nat : n \in S => n + 1 \in S
  PROVE  Nat \subseteq S
<1>. SUFFICES ASSUME ~(Nat \subseteq S) PROVE FALSE
  OBVIOUS
<1>1. PICK x \in Nat \ S : \A y \in Nat \ S : x <= y
  <2>1. Nat \ S \subseteq Nat /\ Nat \ S # {}
    OBVIOUS
  <2>. QED
    BY <2>1, LeastNat
<1>2. x # 0 /\ x - 1 \in Nat /\ x - 1 \notin Nat \ S
  BY <1>1
<1>. QED
  BY <1>1, <1>2

\* The function that starts at v and goes on by step exists.
LEMMA Recursion ==
  ASSUME NEW V, NEW v \in V, NEW N \in Nat, NEW step \in [1..N -> [V -> V]]
  PROVE  \E g \in [0..N -> V] : g[0] = v /\ \A n \in 1..N : g[n] = step[n][g[n - 1]]
<1>. DEFINE P(g, m) == g \in [0..m -> V] /\ g[0] = v /\ \A n \in 1..m : g[n] = step[n][g[n - 1]]
            S == {m \in Nat : m <= N => \E g : P(g, m)}
<1>1. 0 \in S
  <2>1. P([i \in 0..0 |-> v], 0)
    OBVIOUS
  <2>. QED
    BY <2>1
<1>2. ASSUME NEW m \in Nat, m \in S PROVE m + 1 \in S
  <2>. SUFFICES ASSUME m + 1 <= N PROVE \E g : P(g, m + 1)
    OBVIOUS
  <2>1. PICK g : P(g, m)
    BY <1>2
  <2>. DEFINE h == [i \in 0..(m + 1) |-> IF i <= m THEN g[i] ELSE step[m + 1][g[m]]]
  <2>2. step[m + 1][g[m]] \in V
    BY <2>1
  <2>3. h \in [0..(m + 1) -> V] /\ h[0] = v
    BY <2>1, <2>2
  <2>4. ASSUME NEW n \in 1..(m + 1) PROVE h[n] = step[n][h[n - 1]]
    <3>1. CASE n <= m
      BY <2>1, <3>1
    <3>2. CASE n = m + 1
      BY <2>1, <3>2
    <3>. QED
      BY <3>1, <3>2
  <2>. QED
    BY <2>3, <2>4
<1>. HIDE DEF S
<1>3. Nat \subseteq S
  BY <1>1, <1>2, Induction
<1>4. \E g : P(g, N)
  BY <1>3 DEF S
<1>. QED
  BY <1>4

\* c follows the steps, and c agrees with g.
Follows(c, N, V, step) == \A n \in 1..N : c[n - 1] \in V => c[n] = step[n][c[n - 1]]

\* The functions c and g are equal up to N.
Agrees(c, g, N) == \A n \in 0..N : c[n] = g[n]

\* What starts and goes on as g does is g.
LEMMA SameRecursion ==
  ASSUME NEW V, NEW N \in Nat, NEW step \in [1..N -> [V -> V]],
         NEW g \in [0..N -> V], Follows(g, N, V, step),
         NEW c, c[0] = g[0], Follows(c, N, V, step)
  PROVE  Agrees(c, g, N)
<1>. USE DEF Follows, Agrees
<1>. DEFINE Q == {n \in Nat : n <= N => c[n] = g[n]}
<1>1. 0 \in Q
  OBVIOUS
<1>2. ASSUME NEW n \in Nat, n \in Q PROVE n + 1 \in Q
  <2>. SUFFICES ASSUME n + 1 <= N PROVE c[n + 1] = g[n + 1]
    OBVIOUS
  <2>1. n + 1 \in 1..N /\ (n + 1) - 1 = n /\ n \in 0..N /\ c[n] = g[n] /\ g[n] \in V
    BY <1>2
  <2>. QED
    BY <2>1
<1>. HIDE DEF Q
<1>3. Nat \subseteq Q
  BY <1>1, <1>2, Induction
<1>. QED
  BY <1>3 DEF Q

-----------------------------------------------------------------------------
\* A tool call, as the accumulator collects it.
Call == [id : Nat, name : STRING \cup {""}, input : Seq(STRING)]

\* At each n, c holds the members among the first n that are in T.
Filters(c, s, T) ==
  \A n \in 1..Len(s) : c[n] = IF s[n] \in T THEN Append(c[n - 1], s[n]) ELSE c[n - 1]

(***************************************************************************)
(* Only keeps the elements that are in the set.                            *)
(***************************************************************************)
LEMMA OnlyRecursion ==
  ASSUME NEW S, NEW s \in Seq(S), NEW T
  PROVE  \E c \in [0..Len(s) -> Seq(S)] : c[0] = <<>> /\ Filters(c, s, T) /\ Only(s, T) = c[Len(s)]
<1>. DEFINE V == Seq(S)
            N == Len(s)
            e == <<>>
            Next1(q, n) == IF s[n] \in T THEN Append(q, s[n]) ELSE q
            step == [n \in 1..N |-> [q \in V |-> Next1(q, n)]]
            Body(f, n) == IF n = 0 THEN <<>>
                ELSE IF s[n] \in T THEN Append(f[n - 1], s[n]) ELSE f[n - 1]
            Fix(f) == f = [n \in 0..Len(s) |-> Body(f, n)]
            c == CHOOSE f : Fix(f)
<1>1. N \in Nat /\ e \in V /\ \A n \in 1..N : s[n] \in S
  OBVIOUS
<1>2. step \in [1..N -> [V -> V]]
  <2>1. \A n \in 1..N : \A q \in V : Next1(q, n) \in V
    BY <1>1, AppendProperties
  <2>. QED
    BY <2>1
<1>3. Only(s, T) = c[Len(s)]
  BY DEF Only
<1>. HIDE DEF V, step, N, e
<1>4. PICK g \in [0..N -> V] : g[0] = e /\ \A n \in 1..N : g[n] = step[n][g[n - 1]]
  <2>1. N \in Nat /\ e \in V
    BY <1>1
  <2>. QED
    BY <1>2, <2>1, Recursion
<1>5. \A n \in 1..N : \A q \in V : step[n][q] = Next1(q, n)
  BY DEF step
<1>6. Fix(g)
  <2>. DEFINE h == [n \in 0..N |-> Body(g, n)]
  <2>1. ASSUME NEW n \in 0..N PROVE g[n] = h[n]
    <3>1. CASE n = 0
      BY <1>4, <3>1 DEF e
    <3>2. CASE n # 0
      <4>1. n \in 1..N /\ n - 1 \in 0..N /\ g[n - 1] \in V
        BY <1>1, <1>4, <3>2
      <4>2. g[n] = step[n][g[n - 1]] /\ step[n][g[n - 1]] = Next1(g[n - 1], n)
        BY <1>4, <1>5, <4>1
      <4>. QED
        BY <3>2, <4>2
    <3>. QED
      BY <3>1, <3>2
  <2>2. g = [n \in 0..N |-> g[n]]
    BY <1>4
  <2>3. g = h
    BY <2>1, <2>2
  <2>. QED
    BY <2>3 DEF N
<1>7. Fix(c)
  BY <1>6
<1>. HIDE DEF c
<1>8. \A n \in 0..N : c[n] = Body(c, n)
  BY <1>7, Zenon DEF N
<1>9. c[0] = e /\ \A n \in 1..N : c[n] = Next1(c[n - 1], n)
  <2>1. 0 \in 0..N /\ \A n \in 1..N : n \in 0..N /\ n # 0
    BY <1>1
  <2>. QED
    BY <1>8, <2>1 DEF e
<1>10. Agrees(c, g, N)
  <2>1. c[0] = g[0] /\ Follows(c, N, V, step)
    BY <1>4, <1>5, <1>9 DEF Follows
  <2>2. N \in Nat /\ Follows(g, N, V, step)
    BY <1>1, <1>4 DEF Follows
  <2>. QED
    BY <1>2, <1>4, <2>1, <2>2, SameRecursion
<1>11. c \in [0..N -> V]
  <2>1. c = [n \in 0..N |-> c[n]]
    BY <1>7, Zenon DEF N
  <2>2. \A n \in 0..N : c[n] \in V
    BY <1>4, <1>10 DEF Agrees
  <2>. QED
    BY <2>1, <2>2
<1>. QED
  BY <1>3, <1>9, <1>11 DEF N, V, e, Filters

\* The types of the frames of a response.
LEMMA FrameTypes ==
  ASSUME NEW s \in Seq(ToolFrames)
  PROVE  \A n \in 1..Len(s) : /\ s[n] \in ToolFrames /\ s[n].id \in Nat /\ s[n].name \in STRING
                              /\ s[n].input \in Seq(STRING) /\ s[n].stop \in BOOLEAN
<1>1. \A n \in 1..Len(s) : s[n] \in ToolFrames
  BY ElementOfSeq
<1>2. \A f \in ToolFrames : /\ f.id \in 0..99 /\ f.name \in STRING
                           /\ f.input \in Seq(STRING) /\ f.stop \in BOOLEAN
  BY EventStreamAssumption
<1>3. 0..99 \subseteq Nat
  OBVIOUS
<1>. QED
  BY <1>1, <1>2, <1>3

\* A step of OnePerID yields calls.
LEMMA KeepLongestIn ==
  ASSUME NEW kept \in Seq(Call), NEW c \in Call
  PROVE  KeepLongest(kept, c) \in Seq(Call)
<1>1. Append(kept, c) \in Seq(Call)
  BY AppendProperties
<1>. DEFINE q == [k \in DOMAIN kept |->
                    IF kept[k].id = c.id /\ Len(c.input) > Len(kept[k].input) THEN c ELSE kept[k]]
<1>2. q \in Seq(Call)
  <2>1. DOMAIN kept = 1..Len(kept) /\ Len(kept) \in Nat /\ \A k \in DOMAIN kept : kept[k] \in Call
    BY LenProperties
  <2>2. q \in [1..Len(kept) -> Call]
    BY <2>1
  <2>. QED
    BY <2>1, <2>2
<1>. QED
  BY <1>1, <1>2 DEF KeepLongest

\* A step of OnePerInput yields calls.
LEMMA KeepFirstIn ==
  ASSUME NEW kept \in Seq(Call), NEW c \in Call
  PROVE  KeepFirst(kept, c) \in Seq(Call)
BY AppendProperties DEF KeepFirst

(***************************************************************************)
(* OnePerID takes one call after the other.                                *)
(***************************************************************************)
LEMMA OnePerIDRecursion ==
  ASSUME NEW s \in Seq(Call)
  PROVE  \E c \in [0..Len(s) -> Seq(Call)] :
           /\ c[0] = <<>>
           /\ \A n \in 1..Len(s) : c[n] = KeepLongest(c[n - 1], s[n])
           /\ OnePerID(s) = c[Len(s)]
<1>. DEFINE V == Seq(Call)
            N == Len(s)
            e == <<>>
            Next1(q, n) == KeepLongest(q, s[n])
            step == [n \in 1..N |-> [q \in V |-> Next1(q, n)]]
            Body(f, n) == IF n = 0 THEN <<>> ELSE KeepLongest(f[n - 1], s[n])
            Fix(f) == f = [n \in 0..Len(s) |-> Body(f, n)]
            c == CHOOSE f : Fix(f)
<1>1. N \in Nat /\ e \in V /\ \A n \in 1..N : s[n] \in Call
  OBVIOUS
<1>2. step \in [1..N -> [V -> V]]
  <2>1. \A n \in 1..N : \A q \in V : Next1(q, n) \in V
    <3>. SUFFICES ASSUME NEW n \in 1..N, NEW q \in V PROVE Next1(q, n) \in V
      OBVIOUS
    <3>. QED
      BY <1>1, KeepLongestIn DEF V
  <2>. QED
    BY <2>1
<1>3. OnePerID(s) = c[Len(s)]
  BY DEF OnePerID
<1>. HIDE DEF V, step, N, e
<1>4. PICK g \in [0..N -> V] : g[0] = e /\ \A n \in 1..N : g[n] = step[n][g[n - 1]]
  <2>1. N \in Nat /\ e \in V
    BY <1>1
  <2>. QED
    BY <1>2, <2>1, Recursion
<1>5. \A n \in 1..N : \A q \in V : step[n][q] = Next1(q, n)
  BY DEF step
<1>6. Fix(g)
  <2>. DEFINE h == [n \in 0..N |-> Body(g, n)]
  <2>1. ASSUME NEW n \in 0..N PROVE g[n] = h[n]
    <3>1. CASE n = 0
      BY <1>4, <3>1 DEF e
    <3>2. CASE n # 0
      <4>1. n \in 1..N /\ n - 1 \in 0..N /\ g[n - 1] \in V
        BY <1>1, <1>4, <3>2
      <4>2. g[n] = step[n][g[n - 1]] /\ step[n][g[n - 1]] = Next1(g[n - 1], n)
        BY <1>4, <1>5, <4>1
      <4>. QED
        BY <3>2, <4>2
    <3>. QED
      BY <3>1, <3>2
  <2>2. g = [n \in 0..N |-> g[n]]
    BY <1>4
  <2>3. g = h
    BY <2>1, <2>2
  <2>. QED
    BY <2>3 DEF N
<1>7. Fix(c)
  BY <1>6
<1>. HIDE DEF c
<1>8. \A n \in 0..N : c[n] = Body(c, n)
  BY <1>7, Zenon DEF N
<1>9. c[0] = e /\ \A n \in 1..N : c[n] = Next1(c[n - 1], n)
  <2>1. 0 \in 0..N /\ \A n \in 1..N : n \in 0..N /\ n # 0
    BY <1>1
  <2>. QED
    BY <1>8, <2>1 DEF e
<1>10. Agrees(c, g, N)
  <2>1. c[0] = g[0] /\ Follows(c, N, V, step)
    BY <1>4, <1>5, <1>9 DEF Follows
  <2>2. N \in Nat /\ Follows(g, N, V, step)
    BY <1>1, <1>4 DEF Follows
  <2>. QED
    BY <1>2, <1>4, <2>1, <2>2, SameRecursion
<1>11. c \in [0..N -> V]
  <2>1. c = [n \in 0..N |-> c[n]]
    BY <1>7, Zenon DEF N
  <2>2. \A n \in 0..N : c[n] \in V
    BY <1>4, <1>10 DEF Agrees
  <2>. QED
    BY <2>1, <2>2
<1>. QED
  BY <1>3, <1>9, <1>11 DEF N, V, e

(***************************************************************************)
(* OnePerInput takes one call after the other.                             *)
(***************************************************************************)
LEMMA OnePerInputRecursion ==
  ASSUME NEW s \in Seq(Call)
  PROVE  \E c \in [0..Len(s) -> Seq(Call)] :
           /\ c[0] = <<>>
           /\ \A n \in 1..Len(s) : c[n] = KeepFirst(c[n - 1], s[n])
           /\ OnePerInput(s) = c[Len(s)]
<1>. DEFINE V == Seq(Call)
            N == Len(s)
            e == <<>>
            Next1(q, n) == KeepFirst(q, s[n])
            step == [n \in 1..N |-> [q \in V |-> Next1(q, n)]]
            Body(f, n) == IF n = 0 THEN <<>> ELSE KeepFirst(f[n - 1], s[n])
            Fix(f) == f = [n \in 0..Len(s) |-> Body(f, n)]
            c == CHOOSE f : Fix(f)
<1>1. N \in Nat /\ e \in V /\ \A n \in 1..N : s[n] \in Call
  OBVIOUS
<1>2. step \in [1..N -> [V -> V]]
  <2>1. \A n \in 1..N : \A q \in V : Next1(q, n) \in V
    <3>. SUFFICES ASSUME NEW n \in 1..N, NEW q \in V PROVE Next1(q, n) \in V
      OBVIOUS
    <3>. QED
      BY <1>1, KeepFirstIn DEF V
  <2>. QED
    BY <2>1
<1>3. OnePerInput(s) = c[Len(s)]
  BY DEF OnePerInput
<1>. HIDE DEF V, step, N, e
<1>4. PICK g \in [0..N -> V] : g[0] = e /\ \A n \in 1..N : g[n] = step[n][g[n - 1]]
  <2>1. N \in Nat /\ e \in V
    BY <1>1
  <2>. QED
    BY <1>2, <2>1, Recursion
<1>5. \A n \in 1..N : \A q \in V : step[n][q] = Next1(q, n)
  BY DEF step
<1>6. Fix(g)
  <2>. DEFINE h == [n \in 0..N |-> Body(g, n)]
  <2>1. ASSUME NEW n \in 0..N PROVE g[n] = h[n]
    <3>1. CASE n = 0
      BY <1>4, <3>1 DEF e
    <3>2. CASE n # 0
      <4>1. n \in 1..N /\ n - 1 \in 0..N /\ g[n - 1] \in V
        BY <1>1, <1>4, <3>2
      <4>2. g[n] = step[n][g[n - 1]] /\ step[n][g[n - 1]] = Next1(g[n - 1], n)
        BY <1>4, <1>5, <4>1
      <4>. QED
        BY <3>2, <4>2
    <3>. QED
      BY <3>1, <3>2
  <2>2. g = [n \in 0..N |-> g[n]]
    BY <1>4
  <2>3. g = h
    BY <2>1, <2>2
  <2>. QED
    BY <2>3 DEF N
<1>7. Fix(c)
  BY <1>6
<1>. HIDE DEF c
<1>8. \A n \in 0..N : c[n] = Body(c, n)
  BY <1>7, Zenon DEF N
<1>9. c[0] = e /\ \A n \in 1..N : c[n] = Next1(c[n - 1], n)
  <2>1. 0 \in 0..N /\ \A n \in 1..N : n \in 0..N /\ n # 0
    BY <1>1
  <2>. QED
    BY <1>8, <2>1 DEF e
<1>10. Agrees(c, g, N)
  <2>1. c[0] = g[0] /\ Follows(c, N, V, step)
    BY <1>4, <1>5, <1>9 DEF Follows
  <2>2. N \in Nat /\ Follows(g, N, V, step)
    BY <1>1, <1>4 DEF Follows
  <2>. QED
    BY <1>2, <1>4, <2>1, <2>2, SameRecursion
<1>11. c \in [0..N -> V]
  <2>1. c = [n \in 0..N |-> c[n]]
    BY <1>7, Zenon DEF N
  <2>2. \A n \in 0..N : c[n] \in V
    BY <1>4, <1>10 DEF Agrees
  <2>. QED
    BY <2>1, <2>2
<1>. QED
  BY <1>3, <1>9, <1>11 DEF N, V, e

(***************************************************************************)
(* The owner of a frame rests on the one before.                           *)
(***************************************************************************)
LEMMA OwnerRecursion ==
  ASSUME NEW s \in Seq(ToolFrames)
  PROVE  \E c \in [0..Len(s) -> Nat] :
           /\ c[0] = 0
           /\ \A n \in 1..Len(s) : c[n] = IF s[n].id # 0 THEN s[n].id
                ELSE IF n > 1 /\ ~s[n - 1].stop /\ c[n - 1] # 0 THEN c[n - 1]
                ELSE IF s[n].name # NoName THEN 100 + n ELSE 0
           /\ Owner(s) = c
<1>. DEFINE V == Nat
            N == Len(s)
            e == 0
            Next1(q, n) == IF s[n].id # 0 THEN s[n].id
                ELSE IF n > 1 /\ ~s[n - 1].stop /\ q # 0 THEN q
                ELSE IF s[n].name # NoName THEN 100 + n ELSE 0
            step == [n \in 1..N |-> [q \in V |-> Next1(q, n)]]
            Body(f, n) == IF n = 0 THEN 0
                ELSE IF s[n].id # 0 THEN s[n].id
                ELSE IF n > 1 /\ ~s[n - 1].stop /\ f[n - 1] # 0 THEN f[n - 1]
                ELSE IF s[n].name # NoName THEN 100 + n ELSE 0
            Fix(f) == f = [n \in 0..Len(s) |-> Body(f, n)]
            c == CHOOSE f : Fix(f)
<1>1. N \in Nat /\ e \in V /\ \A n \in 1..N : s[n].id \in Nat
  BY FrameTypes
<1>2. step \in [1..N -> [V -> V]]
  <2>1. \A n \in 1..N : \A q \in V : Next1(q, n) \in V
    <3>. SUFFICES ASSUME NEW n \in 1..N, NEW q \in V PROVE Next1(q, n) \in V
      OBVIOUS
    <3>1. s[n].id \in Nat /\ 100 + n \in Nat
      BY <1>1
    <3>. QED
      BY <3>1
  <2>. QED
    BY <2>1
<1>3. Owner(s) = c
  BY DEF Owner
<1>. HIDE DEF V, step, N, e
<1>4. PICK g \in [0..N -> V] : g[0] = e /\ \A n \in 1..N : g[n] = step[n][g[n - 1]]
  <2>1. N \in Nat /\ e \in V
    BY <1>1
  <2>. QED
    BY <1>2, <2>1, Recursion
<1>5. \A n \in 1..N : \A q \in V : step[n][q] = Next1(q, n)
  BY DEF step
<1>6. Fix(g)
  <2>. DEFINE h == [n \in 0..N |-> Body(g, n)]
  <2>1. ASSUME NEW n \in 0..N PROVE g[n] = h[n]
    <3>1. CASE n = 0
      BY <1>4, <3>1 DEF e
    <3>2. CASE n # 0
      <4>1. n \in 1..N /\ n - 1 \in 0..N /\ g[n - 1] \in V
        BY <1>1, <1>4, <3>2
      <4>2. g[n] = step[n][g[n - 1]] /\ step[n][g[n - 1]] = Next1(g[n - 1], n)
        BY <1>4, <1>5, <4>1
      <4>. QED
        BY <3>2, <4>2
    <3>. QED
      BY <3>1, <3>2
  <2>2. g = [n \in 0..N |-> g[n]]
    BY <1>4
  <2>3. g = h
    BY <2>1, <2>2
  <2>. QED
    BY <2>3 DEF N
<1>7. Fix(c)
  BY <1>6, ZenonT(30)
<1>. HIDE DEF c
<1>8. \A n \in 0..N : c[n] = Body(c, n)
  BY <1>7, Zenon DEF N
<1>9. c[0] = e /\ \A n \in 1..N : c[n] = Next1(c[n - 1], n)
  <2>1. 0 \in 0..N /\ \A n \in 1..N : n \in 0..N /\ n # 0
    BY <1>1
  <2>. QED
    BY <1>8, <2>1 DEF e
<1>10. Agrees(c, g, N)
  <2>1. c[0] = g[0] /\ Follows(c, N, V, step)
    BY <1>4, <1>5, <1>9 DEF Follows
  <2>2. N \in Nat /\ Follows(g, N, V, step)
    BY <1>1, <1>4 DEF Follows
  <2>. QED
    BY <1>2, <1>4, <2>1, <2>2, SameRecursion
<1>11. c \in [0..N -> V]
  <2>1. c = [n \in 0..N |-> c[n]]
    BY <1>7, Zenon DEF N
  <2>2. \A n \in 0..N : c[n] \in V
    BY <1>4, <1>10 DEF Agrees
  <2>. QED
    BY <2>1, <2>2
<1>. QED
  BY <1>3, <1>9, <1>11 DEF N, V, e

(***************************************************************************)
(* The input of a call is collected frame by frame.                        *)
(***************************************************************************)
LEMMA InputsRecursion ==
  ASSUME NEW s \in Seq(ToolFrames), NEW i \in Nat \ {0}
  PROVE  \E c \in [0..Len(s) -> Seq(STRING)] :
           /\ c[0] = <<>>
           /\ \A n \in 1..Len(s) : c[n] = IF n < i THEN <<>>
                ELSE IF s[n].as = "value" THEN s[n].input ELSE c[n - 1] \o s[n].input
           /\ Inputs(s, i) = c
<1>. DEFINE V == Seq(STRING)
            N == Len(s)
            e == <<>>
            Next1(q, n) == IF n < i THEN <<>>
                ELSE IF s[n].as = "value" THEN s[n].input ELSE q \o s[n].input
            step == [n \in 1..N |-> [q \in V |-> Next1(q, n)]]
            Body(f, n) == IF n < i THEN <<>>
                ELSE IF s[n].as = "value" THEN s[n].input ELSE f[n - 1] \o s[n].input
            Fix(f) == f = [n \in 0..Len(s) |-> Body(f, n)]
            c == CHOOSE f : Fix(f)
<1>1. N \in Nat /\ e \in V /\ \A n \in 1..N : s[n].input \in Seq(STRING)
  BY FrameTypes
<1>2. step \in [1..N -> [V -> V]]
  <2>1. \A n \in 1..N : \A q \in V : Next1(q, n) \in V
    BY <1>1, ConcatProperties
  <2>. QED
    BY <2>1
<1>3. Inputs(s, i) = c
  BY DEF Inputs
<1>. HIDE DEF V, step, N, e
<1>4. PICK g \in [0..N -> V] : g[0] = e /\ \A n \in 1..N : g[n] = step[n][g[n - 1]]
  <2>1. N \in Nat /\ e \in V
    BY <1>1
  <2>. QED
    BY <1>2, <2>1, Recursion, SMTT(30)
<1>5. \A n \in 1..N : \A q \in V : step[n][q] = Next1(q, n)
  BY DEF step
<1>6. Fix(g)
  <2>. DEFINE h == [n \in 0..N |-> Body(g, n)]
  <2>1. ASSUME NEW n \in 0..N PROVE g[n] = h[n]
    <3>1. CASE n = 0
      BY <1>4, <3>1 DEF e
    <3>2. CASE n # 0
      <4>1. n \in 1..N /\ n - 1 \in 0..N /\ g[n - 1] \in V
        BY <1>1, <1>4, <3>2
      <4>2. g[n] = step[n][g[n - 1]] /\ step[n][g[n - 1]] = Next1(g[n - 1], n)
        BY <1>4, <1>5, <4>1
      <4>. QED
        BY <3>2, <4>2
    <3>. QED
      BY <3>1, <3>2
  <2>2. g = [n \in 0..N |-> g[n]]
    BY <1>4
  <2>3. g = h
    BY <2>1, <2>2
  <2>. QED
    BY <2>3 DEF N
<1>7. Fix(c)
  BY <1>6
<1>. HIDE DEF c
<1>8. \A n \in 0..N : c[n] = Body(c, n)
  BY <1>7, Zenon DEF N
<1>9. c[0] = e /\ \A n \in 1..N : c[n] = Next1(c[n - 1], n)
  <2>1. 0 \in 0..N /\ \A n \in 1..N : n \in 0..N /\ n # 0
    BY <1>1
  <2>. QED
    BY <1>8, <2>1 DEF e
<1>10. Agrees(c, g, N)
  <2>1. c[0] = g[0] /\ Follows(c, N, V, step)
    BY <1>4, <1>5, <1>9 DEF Follows
  <2>2. N \in Nat /\ Follows(g, N, V, step)
    BY <1>1, <1>4 DEF Follows
  <2>. QED
    BY <1>2, <1>4, <2>1, <2>2, SameRecursion
<1>11. c \in [0..N -> V]
  <2>1. c = [n \in 0..N |-> c[n]]
    BY <1>7, Zenon DEF N
  <2>2. \A n \in 0..N : c[n] \in V
    BY <1>4, <1>10 DEF Agrees
  <2>. QED
    BY <2>1, <2>2
<1>. QED
  BY <1>3, <1>9, <1>11 DEF N, V, e

-----------------------------------------------------------------------------
(***************************************************************************)
(* The elements of sequences put together.                                 *)
(***************************************************************************)
LEMMA MembersOf ==
  ASSUME NEW S, NEW s \in Seq(S)
  PROVE  /\ Members(s) \subseteq S
         /\ s = <<>> <=> Members(s) = {}
         /\ \A x \in S : Members(Append(s, x)) = Members(s) \cup {x}
         /\ \A t \in Seq(S) : Members(s \o t) = Members(s) \cup Members(t)
<1>. USE DEF Members
<1>1. Len(s) \in Nat /\ DOMAIN s = 1..Len(s)
  BY LenProperties
<1>2. Members(s) \subseteq S
  BY <1>1, ElementOfSeq
<1>3. s = <<>> <=> Members(s) = {}
  <2>1. s # <<>> => 1 \in DOMAIN s
    BY <1>1, EmptySeq
  <2>2. s # <<>> => s[1] \in Members(s)
    BY <2>1
  <2>. QED
    BY <2>2
<1>4. ASSUME NEW x \in S PROVE Members(Append(s, x)) = Members(s) \cup {x}
  <2>. DEFINE t == Append(s, x)
  <2>1. t \in Seq(S) /\ Len(t) = Len(s) + 1 /\ t[Len(s) + 1] = x /\ \A i \in 1..Len(s) : t[i] = s[i]
    BY AppendProperties
  <2>2. DOMAIN t = 1..(Len(s) + 1)
    BY <2>1, LenProperties
  <2>. HIDE DEF t
  <2>3. Members(t) = Members(s) \cup {x}
    BY <1>1, <2>1, <2>2
  <2>. QED
    BY <2>3 DEF t
<1>5. ASSUME NEW t \in Seq(S) PROVE Members(s \o t) = Members(s) \cup Members(t)
  <2>. DEFINE v == s \o t
  <2>1. /\ v \in Seq(S) /\ Len(v) = Len(s) + Len(t) /\ Len(t) \in Nat /\ DOMAIN t = 1..Len(t)
        /\ \A i \in 1..(Len(s) + Len(t)) : v[i] = IF i <= Len(s) THEN s[i] ELSE t[i - Len(s)]
    BY ConcatProperties, LenProperties
  <2>2. DOMAIN v = 1..(Len(s) + Len(t))
    BY <2>1, LenProperties
  <2>. HIDE DEF v
  <2>3. \A i \in 1..Len(t) : Len(s) + i \in DOMAIN v /\ v[Len(s) + i] = t[i]
    BY <1>1, <2>1, <2>2, SMTT(30)
  <2>4. \A i \in 1..Len(s) : i \in DOMAIN v /\ v[i] = s[i]
    BY <1>1, <2>1, <2>2
  <2>5. \A i \in DOMAIN v : v[i] \in Members(s) \cup Members(t)
    <3>. TAKE i \in DOMAIN v
    <3>1. CASE i <= Len(s)
      BY <1>1, <2>1, <2>2, <3>1
    <3>2. CASE ~(i <= Len(s))
      <4>1. i - Len(s) \in 1..Len(t) /\ v[i] = t[i - Len(s)]
        BY <1>1, <2>1, <2>2, <3>2
      <4>. QED
        BY <2>1, <4>1
    <3>. QED
      BY <3>1, <3>2
  <2>6. Members(v) = Members(s) \cup Members(t)
    <3>1. Members(s) \subseteq Members(v)
      BY <1>1, <2>4
    <3>2. Members(t) \subseteq Members(v)
      BY <2>1, <2>3, SMTT(30)
    <3>3. Members(v) \subseteq Members(s) \cup Members(t)
      BY <2>5
    <3>. QED
      BY <3>1, <3>2, <3>3
  <2>. QED
    BY <2>6 DEF v
<1>. QED
  BY <1>2, <1>3, <1>4, <1>5

\* The members of a beginning of s are members of s.
LEMMA MembersOfFirst ==
  ASSUME NEW S, NEW s \in Seq(S), NEW k \in 1..Len(s)
  PROVE  SubSeq(s, 1, k) \in Seq(S) /\ Members(SubSeq(s, 1, k)) \subseteq Members(s)
<1>. DEFINE t == SubSeq(s, 1, k)
<1>1. Len(s) \in Nat /\ DOMAIN s = 1..Len(s) /\ k \in Nat
  BY LenProperties
<1>2. \A i \in 1..k : s[i] \in S
  BY <1>1, ElementOfSeq
<1>3. t \in Seq(S) /\ Len(t) = k /\ \A i \in 1..k : t[i] = s[i]
  BY <1>1, <1>2, SubSeqProperties
<1>4. DOMAIN t = 1..k
  BY <1>3, LenProperties
<1>. HIDE DEF t
<1>5. Members(t) \subseteq Members(s)
  BY <1>1, <1>3, <1>4 DEF Members
<1>. QED
  BY <1>3, <1>5 DEF t

\* A prefix of a sequence, as the set of its elements.
Before(s, n) == {s[i] : i \in 1..n}

\* Each place adds its own member.
LEMMA BeforeGrows ==
  ASSUME NEW s, NEW n \in Nat
  PROVE  Before(s, 0) = {} /\ Before(s, n + 1) = Before(s, n) \cup {s[n + 1]}
<1>1. 1..(n + 1) = (1..n) \cup {n + 1} /\ 1..0 = {}
  OBVIOUS
<1>. QED
  BY <1>1 DEF Before

\* At the end of s that is all its members.
LEMMA AllBefore ==
  ASSUME NEW S, NEW s \in Seq(S)
  PROVE  Before(s, Len(s)) = Members(s) /\ Members(<<>>) = {}
<1>1. DOMAIN s = 1..Len(s)
  BY LenProperties
<1>2. <<>> \in Seq(S) /\ DOMAIN <<>> = {}
  OBVIOUS
<1>. QED
  BY <1>1, <1>2 DEF Before, Members

\* Only(s, T) has exactly the members of s that are in T.
LEMMA OnlyKeeps ==
  ASSUME NEW S, NEW s \in Seq(S), NEW T
  PROVE  Only(s, T) \in Seq(S) /\ Members(Only(s, T)) = Members(s) \cap T
<1>. DEFINE N == Len(s)
<1>1. N \in Nat /\ \A n \in 1..N : s[n] \in S
  BY LenProperties, ElementOfSeq
<1>2. PICK c \in [0..N -> Seq(S)] : c[0] = <<>> /\ Filters(c, s, T) /\ Only(s, T) = c[N]
  BY OnlyRecursion
<1>. DEFINE Q == {n \in Nat : n <= N => Members(c[n]) = Before(s, n) \cap T}
<1>3. 0 \in Q
  BY <1>2, AllBefore, BeforeGrows
<1>4. ASSUME NEW n \in Nat, n \in Q PROVE n + 1 \in Q
  <2>. SUFFICES ASSUME n + 1 <= N PROVE Members(c[n + 1]) = Before(s, n + 1) \cap T
    OBVIOUS
  <2>1. n + 1 \in 1..N /\ (n + 1) - 1 = n /\ n \in 0..N /\ Members(c[n]) = Before(s, n) \cap T
    BY <1>1, <1>4
  <2>2. c[n] \in Seq(S) /\ s[n + 1] \in S
    BY <1>1, <1>2, <2>1
  <2>3. c[n + 1] = IF s[n + 1] \in T THEN Append(c[n], s[n + 1]) ELSE c[n]
    BY <1>2, <2>1 DEF Filters
  <2>4. Before(s, n + 1) = Before(s, n) \cup {s[n + 1]}
    BY BeforeGrows
  <2>5. Members(Append(c[n], s[n + 1])) = Members(c[n]) \cup {s[n + 1]}
    BY <2>2, MembersOf
  <2>. QED
    BY <2>1, <2>3, <2>4, <2>5
<1>. HIDE DEF Q
<1>5. Nat \subseteq Q
  BY <1>3, <1>4, Induction
<1>6. Members(c[N]) = Before(s, N) \cap T /\ c[N] \in Seq(S)
  BY <1>1, <1>2, <1>5 DEF Q
<1>. QED
  BY <1>2, <1>6, AllBefore

-----------------------------------------------------------------------------
(***************************************************************************)
(* Deduplication: one call per id, none with less input than another of    *)
(* its id, and of every call one that is the same.                         *)
(***************************************************************************)
OneID(s) == \A i, j \in DOMAIN s : s[i].id = s[j].id => i = j

\* The call d stands for c: the same id, and an input as long.
Covers(d, c) == d.id = c.id /\ Len(c.input) <= Len(d.input)

\* A step of OnePerID keeps the ids apart and something for every call so far.
LEMMA KeepLongestCovers ==
  ASSUME NEW kept \in Seq(Call), OneID(kept), NEW c \in Call
  PROVE  LET r == KeepLongest(kept, c)
         IN /\ OneID(r)
            /\ Members(r) \subseteq Members(kept) \cup {c}
            /\ \A x \in Members(kept) \cup {c} : \E y \in Members(r) : Covers(y, x)
<1>. DEFINE r == KeepLongest(kept, c)
<1>0. \A x \in Call : Len(x.input) \in Nat
  BY LenProperties DEF Call
<1>1. DOMAIN kept = 1..Len(kept) /\ Len(kept) \in Nat /\ \A k \in DOMAIN kept : kept[k] \in Call
  BY LenProperties, ElementOfSeq
<1>2. \A x \in Call : Covers(x, x)
  BY <1>0 DEF Covers
<1>3. CASE \A k \in DOMAIN kept : kept[k].id # c.id
  <2>1. r = Append(kept, c)
    BY <1>3 DEF KeepLongest
  <2>2. /\ r \in Seq(Call) /\ Len(r) = Len(kept) + 1 /\ r[Len(kept) + 1] = c
        /\ \A i \in 1..Len(kept) : r[i] = kept[i]
    BY <2>1, AppendProperties
  <2>3. DOMAIN r = 1..(Len(kept) + 1)
    BY <2>2, LenProperties
  <2>4. Members(r) = Members(kept) \cup {c}
    BY <2>1, MembersOf
  <2>. HIDE DEF r
  <2>5. OneID(r)
    <3>. SUFFICES ASSUME NEW i \in DOMAIN r, NEW j \in DOMAIN r, r[i].id = r[j].id PROVE i = j
      BY DEF OneID
    <3>1. CASE i \in DOMAIN kept /\ j \in DOMAIN kept
      BY <1>1, <2>2, <3>1 DEF OneID
    <3>2. CASE i = Len(kept) + 1 \/ j = Len(kept) + 1
      BY <1>1, <1>3, <2>2, <2>3, <3>2
    <3>. QED
      BY <1>1, <2>3, <3>1, <3>2
  <2>6. \A x \in Members(r) : x \in Call
    BY <2>2, MembersOf
  <2>. QED
    BY <1>2, <2>4, <2>5, <2>6 DEF r
<1>4. CASE \E k \in DOMAIN kept : kept[k].id = c.id
  <2>1. r = [k \in DOMAIN kept |->
               IF kept[k].id = c.id /\ Len(c.input) > Len(kept[k].input) THEN c ELSE kept[k]]
    BY <1>4 DEF KeepLongest
  <2>2. DOMAIN r = DOMAIN kept
    BY <2>1
  <2>3. \A k \in DOMAIN kept :
          r[k] = IF kept[k].id = c.id /\ Len(c.input) > Len(kept[k].input) THEN c ELSE kept[k]
    BY <2>1
  <2>. HIDE DEF r
  <2>4. \A k \in DOMAIN kept : r[k].id = kept[k].id /\ r[k] \in {kept[k], c}
    BY <2>3
  <2>5. OneID(r)
    BY <2>2, <2>4 DEF OneID
  <2>6. Members(r) \subseteq Members(kept) \cup {c}
    BY <2>2, <2>4 DEF Members
  <2>7. \A k \in DOMAIN kept : r[k] \in Members(r) /\ Covers(r[k], kept[k])
    <3>. TAKE k \in DOMAIN kept
    <3>1. kept[k] \in Call /\ Len(kept[k].input) \in Nat /\ Len(c.input) \in Nat
      BY <1>0, <1>1
    <3>2. r[k] \in Members(r)
      BY <2>2 DEF Members
    <3>. QED
      BY <2>3, <3>1, <3>2 DEF Covers
  <2>8. \E y \in Members(r) : Covers(y, c)
    <3>1. PICK k \in DOMAIN kept : kept[k].id = c.id
      BY <1>4
    <3>2. kept[k] \in Call /\ Len(kept[k].input) \in Nat /\ Len(c.input) \in Nat
      BY <1>0, <1>1
    <3>3. Covers(r[k], c)
      BY <2>3, <3>1, <3>2 DEF Covers
    <3>. QED
      BY <2>7, <3>3
  <2>9. \A x \in Members(kept) : \E y \in Members(r) : Covers(y, x)
    BY <2>7 DEF Members
  <2>. QED
    BY <2>5, <2>6, <2>8, <2>9 DEF r
<1>. QED
  BY <1>3, <1>4

\* OnePerID keeps, for every call, one of its id with an input as long.
LEMMA OnePerIDCovers ==
  ASSUME NEW s \in Seq(Call)
  PROVE  LET t == OnePerID(s)
         IN /\ t \in Seq(Call) /\ OneID(t) /\ Members(t) \subseteq Members(s)
            /\ \A x \in Members(s) : \E y \in Members(t) : Covers(y, x)
<1>. DEFINE N == Len(s)
<1>1. N \in Nat /\ \A n \in 1..N : s[n] \in Call
  BY LenProperties, ElementOfSeq
<1>2. PICK c \in [0..N -> Seq(Call)] :
           /\ c[0] = <<>>
           /\ \A n \in 1..N : c[n] = KeepLongest(c[n - 1], s[n])
           /\ OnePerID(s) = c[N]
  BY OnePerIDRecursion
<1>. DEFINE P(n) == /\ OneID(c[n])
                    /\ Members(c[n]) \subseteq Before(s, n)
                    /\ \A x \in Before(s, n) : \E y \in Members(c[n]) : Covers(y, x)
            Q == {n \in Nat : n <= N => P(n)}
<1>3. 0 \in Q
  <2>1. Members(c[0]) = {} /\ Before(s, 0) = {}
    BY <1>2, AllBefore, BeforeGrows
  <2>2. OneID(c[0])
    BY <1>2 DEF OneID
  <2>. QED
    BY <2>1, <2>2
<1>4. ASSUME NEW n \in Nat, n \in Q PROVE n + 1 \in Q
  <2>. SUFFICES ASSUME n + 1 <= N PROVE P(n + 1)
    OBVIOUS
  <2>1. n + 1 \in 1..N /\ (n + 1) - 1 = n /\ n \in 0..N /\ P(n)
    BY <1>1, <1>4
  <2>2. c[n] \in Seq(Call) /\ s[n + 1] \in Call
    BY <1>1, <1>2, <2>1
  <2>3. c[n + 1] = KeepLongest(c[n], s[n + 1])
    BY <1>2, <2>1
  <2>4. Before(s, n + 1) = Before(s, n) \cup {s[n + 1]}
    BY BeforeGrows
  <2>5. /\ OneID(c[n + 1])
        /\ Members(c[n + 1]) \subseteq Members(c[n]) \cup {s[n + 1]}
        /\ \A x \in Members(c[n]) \cup {s[n + 1]} : \E y \in Members(c[n + 1]) : Covers(y, x)
    BY <2>1, <2>2, <2>3, KeepLongestCovers
  <2>6. Members(c[n]) \subseteq Call
    BY <2>2, MembersOf
  <2>7. n + 1 \in 0..N
    BY <2>1
  <2>8. Members(c[n + 1]) \subseteq Call
    BY <1>2, <2>7, MembersOf
  <2>9. Before(s, n) \subseteq Call
    BY <1>1, <2>1 DEF Before
  <2>10. \A x \in Before(s, n) : \E y \in Members(c[n + 1]) : Covers(y, x)
    <3>. TAKE x \in Before(s, n)
    <3>1. PICK y \in Members(c[n]) : Covers(y, x)
      BY <2>1
    <3>2. PICK z \in Members(c[n + 1]) : Covers(z, y)
      BY <2>5
    <3>3. Len(x.input) \in Nat /\ Len(y.input) \in Nat /\ Len(z.input) \in Nat
      BY <2>6, <2>8, <2>9, LenProperties DEF Call
    <3>4. Covers(z, x)
      BY <3>1, <3>2, <3>3 DEF Covers
    <3>. QED
      BY <3>4
  <2>. QED
    BY <2>1, <2>4, <2>5, <2>10
<1>. HIDE DEF Q
<1>5. Nat \subseteq Q
  BY <1>3, <1>4, Induction
<1>6. P(N) /\ c[N] \in Seq(Call)
  BY <1>1, <1>2, <1>5 DEF Q
<1>. QED
  BY <1>2, <1>6, AllBefore

\* OnePerInput keeps, for every call, one of the same name and input.
LEMMA OnePerInputKeeps ==
  ASSUME NEW s \in Seq(Call), OneID(s)
  PROVE  LET t == OnePerInput(s)
         IN /\ t \in Seq(Call) /\ OneID(t) /\ Members(t) \subseteq Members(s)
            /\ \A x \in Members(s) : \E y \in Members(t) : SameCall(y, x)
<1>. DEFINE N == Len(s)
<1>1. N \in Nat /\ DOMAIN s = 1..N /\ \A n \in 1..N : s[n] \in Call
  BY LenProperties, ElementOfSeq
<1>2. PICK c \in [0..N -> Seq(Call)] :
           /\ c[0] = <<>>
           /\ \A n \in 1..N : c[n] = KeepFirst(c[n - 1], s[n])
           /\ OnePerInput(s) = c[N]
  BY OnePerInputRecursion
<1>. DEFINE P(n) == /\ OneID(c[n])
                    /\ Members(c[n]) \subseteq Before(s, n)
                    /\ \A x \in Before(s, n) : \E y \in Members(c[n]) : SameCall(y, x)
            Q == {n \in Nat : n <= N => P(n)}
<1>3. 0 \in Q
  <2>1. Members(c[0]) = {} /\ Before(s, 0) = {}
    BY <1>2, AllBefore, BeforeGrows
  <2>2. OneID(c[0])
    BY <1>2 DEF OneID
  <2>. QED
    BY <2>1, <2>2
<1>4. ASSUME NEW n \in Nat, n \in Q PROVE n + 1 \in Q
  <2>. SUFFICES ASSUME n + 1 <= N PROVE P(n + 1)
    OBVIOUS
  <2>. DEFINE kept == c[n]
              x0 == s[n + 1]
  <2>1. n + 1 \in 1..N /\ (n + 1) - 1 = n /\ n \in 0..N /\ P(n)
    BY <1>1, <1>4
  <2>2. kept \in Seq(Call) /\ x0 \in Call
    BY <1>1, <1>2, <2>1
  <2>3. c[n + 1] = KeepFirst(kept, x0)
    BY <1>2, <2>1
  <2>4. Before(s, n + 1) = Before(s, n) \cup {x0}
    BY BeforeGrows
  <2>5. Len(kept) \in Nat /\ DOMAIN kept = 1..Len(kept)
    BY <2>2, LenProperties
  <2>6. CASE \E k \in DOMAIN kept : SameCall(kept[k], x0)
    <3>1. c[n + 1] = kept
      BY <2>3, <2>6 DEF KeepFirst
    <3>2. \E y \in Members(kept) : SameCall(y, x0)
      BY <2>6 DEF Members
    <3>. QED
      BY <2>1, <2>4, <3>1, <3>2
  <2>7. CASE ~\E k \in DOMAIN kept : SameCall(kept[k], x0)
    <3>. DEFINE r == Append(kept, x0)
    <3>1. c[n + 1] = r
      BY <2>3, <2>7 DEF KeepFirst
    <3>2. /\ r \in Seq(Call) /\ Len(r) = Len(kept) + 1 /\ r[Len(kept) + 1] = x0
          /\ \A i \in 1..Len(kept) : r[i] = kept[i]
      BY <2>2, AppendProperties
    <3>3. DOMAIN r = 1..(Len(kept) + 1) /\ Members(r) = Members(kept) \cup {x0}
      BY <2>2, <3>2, LenProperties, MembersOf
    <3>. HIDE DEF r
    <3>4. \A k \in DOMAIN kept : kept[k].id # x0.id
      <4>. TAKE k \in DOMAIN kept
      <4>1. kept[k] \in Before(s, n)
        BY <2>1 DEF Members
      <4>2. PICK i \in 1..n : kept[k] = s[i]
        BY <4>1 DEF Before
      <4>3. i # n + 1 /\ i \in DOMAIN s /\ n + 1 \in DOMAIN s
        BY <1>1, <2>1
      <4>. QED
        BY <4>2, <4>3 DEF OneID
    <3>5. OneID(r)
      <4>. SUFFICES ASSUME NEW i \in DOMAIN r, NEW j \in DOMAIN r, r[i].id = r[j].id PROVE i = j
        BY DEF OneID
      <4>1. CASE i \in DOMAIN kept /\ j \in DOMAIN kept
        BY <2>1, <2>5, <3>2, <4>1 DEF OneID
      <4>2. CASE i = Len(kept) + 1 \/ j = Len(kept) + 1
        <5>1. \A k \in DOMAIN r :
                \/ k \in DOMAIN kept /\ r[k].id # x0.id
                \/ k = Len(kept) + 1 /\ r[k].id = x0.id
          <6>. TAKE k \in DOMAIN r
          <6>1. CASE k \in DOMAIN kept
            <7>1. r[k] = kept[k] /\ kept[k].id # x0.id
              BY <2>5, <3>2, <3>4, <6>1
            <7>. QED
              BY <6>1, <7>1
          <6>2. CASE k = Len(kept) + 1
            BY <3>2, <6>2
          <6>. QED
            BY <2>5, <3>3, <6>1, <6>2
        <5>. QED
          BY <2>5, <4>2, <5>1
      <4>. QED
        BY <2>5, <3>3, <4>1, <4>2
    <3>6. SameCall(x0, x0)
      BY DEF SameCall
    <3>. HIDE DEF kept, x0
    <3>. QED
      BY <2>1, <2>4, <3>1, <3>3, <3>5, <3>6 DEF kept
  <2>. QED
    BY <2>6, <2>7
<1>. HIDE DEF Q
<1>5. Nat \subseteq Q
  BY <1>3, <1>4, Induction
<1>6. P(N) /\ c[N] \in Seq(Call)
  BY <1>1, <1>2, <1>5 DEF Q
<1>. QED
  BY <1>2, <1>6, AllBefore

(***************************************************************************)
(* What is left of the calls of a response: each once, and of every one    *)
(* itself, a longer one of its id, or one that is the same.                *)
(***************************************************************************)
LEMMA Deduplicated ==
  ASSUME NEW s \in Seq(Call)
  PROVE  LET t == DeduplicateToolCalls(s)
         IN /\ t \in Seq(Call) /\ OneID(t) /\ Members(t) \subseteq Members(s)
            /\ t = <<>> <=> s = <<>>
            /\ \A x \in Members(s) : \E y \in Members(s) :
                 Covers(y, x) /\ \E z \in Members(t) : SameCall(z, y)
            /\ \A x \in Members(s), z \in Members(t) : x.id = z.id => Covers(z, x)
<1>. DEFINE t == DeduplicateToolCalls(s)
<1>0. Len(s) \in Nat /\ DOMAIN s = 1..Len(s) /\ Members(s) \subseteq Call
  BY LenProperties, MembersOf
<1>1. \A x \in Members(s) : SameCall(x, x) /\ Covers(x, x)
  <2>1. \A x \in Members(s) : Len(x.input) \in Nat
    BY <1>0, LenProperties DEF Call
  <2>. QED
    BY <2>1 DEF SameCall, Covers
<1>2. CASE Len(s) <= 1
  <2>1. t = s
    BY <1>2 DEF DeduplicateToolCalls
  <2>2. OneID(s)
    BY <1>0, <1>2 DEF OneID
  <2>3. \A x, z \in Members(s) : x = z
    BY <1>0, <1>2 DEF Members
  <2>. HIDE DEF t
  <2>. QED
    BY <1>1, <2>1, <2>2, <2>3 DEF t
<1>3. CASE ~(Len(s) <= 1)
  <2>. DEFINE u == OnePerID(s)
  <2>1. t = OnePerInput(u)
    BY <1>3 DEF DeduplicateToolCalls
  <2>2. /\ u \in Seq(Call) /\ OneID(u) /\ Members(u) \subseteq Members(s)
        /\ \A x \in Members(s) : \E y \in Members(u) : Covers(y, x)
    BY OnePerIDCovers
  <2>. HIDE DEF t, u
  <2>3. /\ t \in Seq(Call) /\ OneID(t) /\ Members(t) \subseteq Members(u)
        /\ \A x \in Members(u) : \E y \in Members(t) : SameCall(y, x)
    BY <2>1, <2>2, OnePerInputKeeps
  <2>4. t = <<>> <=> s = <<>>
    <3>1. Members(t) = {} <=> Members(s) = {}
      BY <2>2, <2>3
    <3>. QED
      BY <2>3, <3>1, MembersOf
  <2>5. ASSUME NEW x \in Members(s), NEW z \in Members(t), x.id = z.id PROVE Covers(z, x)
    <3>1. PICK y \in Members(u) : Covers(y, x)
      BY <2>2
    <3>2. z \in Members(u) /\ y.id = z.id
      BY <2>3, <2>5, <3>1 DEF Covers
    <3>3. y = z
      BY <2>2, <3>2 DEF OneID, Members
    <3>. QED
      BY <3>1, <3>3
  <2>. QED
    BY <2>2, <2>3, <2>4, <2>5 DEF t
<1>. QED
  BY <1>2, <1>3

-----------------------------------------------------------------------------
(***************************************************************************)
(* The calls of a body, as its frames come.                                *)
(***************************************************************************)
OwnerAt(o, s, n) ==
  IF s[n].id # 0 THEN s[n].id
  ELSE IF n > 1 /\ ~s[n - 1].stop /\ o # 0 THEN o
  ELSE IF s[n].name # NoName THEN 100 + n ELSE 0

\* Inputs' equation.
InputAt(q, s, i, n) ==
  IF n < i THEN <<>> ELSE IF s[n].as = "value" THEN s[n].input ELSE q \o s[n].input

\* A frame read behind those of s.
LEMMA Appended ==
  ASSUME NEW s \in Seq(ToolFrames), NEW f \in ToolFrames
  PROVE  /\ Append(s, f) \in Seq(ToolFrames) /\ Len(s) \in Nat /\ Len(Append(s, f)) = Len(s) + 1
         /\ Append(s, f)[Len(s) + 1] = f /\ \A i \in 1..Len(s) : Append(s, f)[i] = s[i]
BY AppendProperties, LenProperties

\* Owner satisfies its equation.
LEMMA OwnerFacts ==
  ASSUME NEW s \in Seq(ToolFrames)
  PROVE  /\ Owner(s)[0] = 0 /\ \A n \in 0..Len(s) : Owner(s)[n] \in Nat
         /\ \A n \in 1..Len(s) : Owner(s)[n] = OwnerAt(Owner(s)[n - 1], s, n)
<1>1. PICK c \in [0..Len(s) -> Nat] :
        /\ c[0] = 0
        /\ \A n \in 1..Len(s) : c[n] = IF s[n].id # 0 THEN s[n].id
             ELSE IF n > 1 /\ ~s[n - 1].stop /\ c[n - 1] # 0 THEN c[n - 1]
             ELSE IF s[n].name # NoName THEN 100 + n ELSE 0
        /\ Owner(s) = c
  BY OwnerRecursion
<1>2. \A n \in 1..Len(s) : c[n] = OwnerAt(c[n - 1], s, n)
  BY <1>1 DEF OwnerAt
<1>3. \A n \in 0..Len(s) : c[n] \in Nat
  OBVIOUS
<1>. QED
  BY <1>1, <1>2, <1>3

\* Inputs satisfies its equation.
LEMMA InputsFacts ==
  ASSUME NEW s \in Seq(ToolFrames), NEW i \in Nat \ {0}
  PROVE  /\ Inputs(s, i)[0] = <<>> /\ \A n \in 0..Len(s) : Inputs(s, i)[n] \in Seq(STRING)
         /\ \A n \in 1..Len(s) : Inputs(s, i)[n] = InputAt(Inputs(s, i)[n - 1], s, i, n)
BY InputsRecursion DEF InputAt

\* A frame changes no owner before it.
LEMMA OwnerGrows ==
  ASSUME NEW s \in Seq(ToolFrames), NEW f \in ToolFrames
  PROVE  \A n \in 0..Len(s) : Owner(Append(s, f))[n] = Owner(s)[n]
<1>. DEFINE t == Append(s, f)
            Q == {n \in Nat : n <= Len(s) => Owner(t)[n] = Owner(s)[n]}
<1>1. /\ t \in Seq(ToolFrames) /\ Len(s) \in Nat /\ Len(t) = Len(s) + 1
      /\ \A i \in 1..Len(s) : t[i] = s[i]
  BY Appended
<1>. HIDE DEF t
<1>2. 0 \in Q
  BY <1>1, OwnerFacts
<1>3. ASSUME NEW n \in Nat, n \in Q PROVE n + 1 \in Q
  <2>. SUFFICES ASSUME n + 1 <= Len(s) PROVE Owner(t)[n + 1] = Owner(s)[n + 1]
    OBVIOUS
  <2>1. n + 1 \in 1..Len(s) /\ n + 1 \in 1..Len(t) /\ (n + 1) - 1 = n /\ Owner(t)[n] = Owner(s)[n]
    BY <1>1, <1>3
  <2>2. /\ Owner(t)[n + 1] = OwnerAt(Owner(t)[n], t, n + 1)
        /\ Owner(s)[n + 1] = OwnerAt(Owner(s)[n], s, n + 1)
    BY <1>1, <2>1, OwnerFacts
  <2>3. t[n + 1] = s[n + 1] /\ (n + 1 > 1 => t[(n + 1) - 1] = s[(n + 1) - 1])
    BY <1>1, <2>1
  <2>. QED
    BY <2>1, <2>2, <2>3 DEF OwnerAt
<1>. HIDE DEF Q
<1>4. Nat \subseteq Q
  BY <1>2, <1>3, Induction
<1>. QED
  BY <1>1, <1>4 DEF Q, t

\* A frame changes nothing collected before it.
LEMMA InputsGrow ==
  ASSUME NEW s \in Seq(ToolFrames), NEW f \in ToolFrames, NEW i \in Nat \ {0}
  PROVE  \A n \in 0..Len(s) : Inputs(Append(s, f), i)[n] = Inputs(s, i)[n]
<1>. DEFINE t == Append(s, f)
            Q == {n \in Nat : n <= Len(s) => Inputs(t, i)[n] = Inputs(s, i)[n]}
<1>1. /\ t \in Seq(ToolFrames) /\ Len(s) \in Nat /\ Len(t) = Len(s) + 1
      /\ \A k \in 1..Len(s) : t[k] = s[k]
  BY Appended
<1>. HIDE DEF t
<1>2. 0 \in Q
  BY <1>1, InputsFacts
<1>3. ASSUME NEW n \in Nat, n \in Q PROVE n + 1 \in Q
  <2>. SUFFICES ASSUME n + 1 <= Len(s) PROVE Inputs(t, i)[n + 1] = Inputs(s, i)[n + 1]
    OBVIOUS
  <2>1. n + 1 \in 1..Len(s) /\ n + 1 \in 1..Len(t) /\ (n + 1) - 1 = n /\ Inputs(t, i)[n] = Inputs(s, i)[n]
    BY <1>1, <1>3
  <2>2. /\ Inputs(t, i)[n + 1] = InputAt(Inputs(t, i)[n], t, i, n + 1)
        /\ Inputs(s, i)[n + 1] = InputAt(Inputs(s, i)[n], s, i, n + 1)
    BY <1>1, <2>1, InputsFacts
  <2>3. t[n + 1] = s[n + 1]
    BY <1>1, <2>1
  <2>. QED
    BY <2>1, <2>2, <2>3 DEF InputAt
<1>. HIDE DEF Q
<1>4. Nat \subseteq Q
  BY <1>2, <1>3, Induction
<1>. QED
  BY <1>1, <1>4 DEF Q, t

\* A set of numbers up to n has a greatest one.
LEMMA Greatest ==
  ASSUME NEW n \in Nat, NEW T, T \subseteq 1..n, T # {}
  PROVE  \E x \in T : \A y \in T : y <= x
<1>. DEFINE D == {m \in Nat : n - m \in T}
<1>1. PICK y \in T : TRUE
  OBVIOUS
<1>2. n - y \in D
  BY <1>1
<1>3. PICK m \in D : \A k \in D : m <= k
  BY <1>2, LeastNat
<1>4. \A z \in T : n - z \in D
  OBVIOUS
<1>5. \A z \in T : z <= n - m
  <2>. TAKE z \in T
  <2>1. m <= n - z
    BY <1>3, <1>4
  <2>2. z \in Int /\ m \in Int
    BY <1>3
  <2>. QED
    BY <2>1, <2>2
<1>. QED
  BY <1>3, <1>5

\* The name at the greatest place of T.
LatestName(T, u) == IF T = {} THEN "" ELSE u[CHOOSE k \in T : \A l \in T : l <= k].name

\* A call's name is that of its last frame with one.
LEMMA NameGrows ==
  ASSUME NEW s \in Seq(ToolFrames), NEW f \in ToolFrames, NEW i \in Nat \ {0}
  PROVE  /\ \A j \in 0..Len(s) : NameOf(Append(s, f), i, j) = NameOf(s, i, j)
         /\ i <= Len(s) + 1 =>
              NameOf(Append(s, f), i, Len(s) + 1) = IF f.name = NoName THEN NameOf(s, i, Len(s)) ELSE f.name
<1>. DEFINE t == Append(s, f)
            named(u, j) == {k \in i..j : u[k].name # NoName}
            N == Len(s)
<1>1. /\ t \in Seq(ToolFrames) /\ N \in Nat /\ t[N + 1] = f /\ \A k \in 1..N : t[k] = s[k]
  BY Appended
<1>. HIDE DEF t
<1>0. \A u, j : NameOf(u, i, j) = LatestName(named(u, j), u)
  BY DEF NameOf, LatestName
<1>2. ASSUME NEW j \in 0..N PROVE NameOf(t, i, j) = NameOf(s, i, j)
  <2>. DEFINE T == named(s, j)
              x == CHOOSE k \in T : \A l \in T : l <= k
  <2>1. \A k \in i..j : k \in 1..N /\ t[k] = s[k]
    BY <1>1
  <2>2. named(t, j) = T /\ T \subseteq 1..N
    BY <2>1
  <2>. HIDE DEF T
  <2>3. CASE T = {}
    BY <1>0, <2>2, <2>3 DEF LatestName, T
  <2>4. CASE T # {}
    <3>1. x \in T
      BY <1>1, <2>2, <2>4, Greatest
    <3>2. t[x] = s[x]
      BY <1>1, <2>2, <3>1
    <3>3. LatestName(T, t) = t[x].name /\ LatestName(T, s) = s[x].name
      BY <2>4 DEF LatestName
    <3>. QED
      BY <1>0, <2>2, <3>2, <3>3 DEF T
  <2>. QED
    BY <2>3, <2>4
<1>3. ASSUME i <= N + 1
      PROVE  NameOf(t, i, N + 1) = IF f.name = NoName THEN NameOf(s, i, N) ELSE f.name
  <2>1. i..(N + 1) = (i..N) \cup {N + 1}
    BY <1>1, <1>3
  <2>2. CASE f.name = NoName
    <3>1. named(t, N + 1) = named(t, N)
      BY <1>1, <2>1, <2>2
    <3>2. NameOf(t, i, N + 1) = NameOf(t, i, N)
      BY <1>0, <3>1
    <3>3. N \in 0..N
      BY <1>1
    <3>. QED
      BY <1>2, <2>2, <3>2, <3>3
  <2>3. CASE f.name # NoName
    <3>. DEFINE T == named(t, N + 1)
    <3>0. N + 1 \in i..(N + 1) /\ \A l \in i..(N + 1) : l \in Int /\ l <= N + 1
      BY <1>1, <1>3
    <3>1. N + 1 \in T /\ \A l \in T : l \in Int /\ l <= N + 1
      BY <1>1, <2>3, <3>0
    <3>2. NameOf(t, i, N + 1) = t[CHOOSE k \in T : \A l \in T : l <= k].name
      BY <1>0, <3>1 DEF LatestName
    <3>. HIDE DEF T
    <3>3. (CHOOSE k \in T : \A l \in T : l <= k) = N + 1
      <4>1. \A k \in T : (\A l \in T : l <= k) <=> k = N + 1
        BY <1>1, <3>1
      <4>. QED
        BY <3>1, <4>1
    <3>. QED
      BY <1>1, <2>3, <3>2, <3>3
  <2>. QED
    BY <2>2, <2>3
<1>. QED
  BY <1>2, <1>3 DEF t

\* Collect, written as a record.
LEMMA CollectRecord ==
  ASSUME NEW c, c = [id |-> c.id, name |-> c.name, input |-> c.input], NEW f
  PROVE  Collect(c, f)
           = [id |-> c.id, name |-> IF f.name = NoName THEN c.name ELSE f.name,
              input |-> IF f.as = "value" THEN f.input ELSE c.input \o f.input]
<1>. DEFINE n == IF f.name = NoName THEN c.name ELSE f.name
            i == IF f.as = "value" THEN f.input ELSE c.input \o f.input
            o == c.id
            name == c.name
            input == c.input
<1>1. Collect(c, f) = [[c EXCEPT !.name = n] EXCEPT !.input = i]
  BY DEF Collect
<1>2. c = [id |-> o, name |-> name, input |-> input]
  OBVIOUS
<1>. HIDE DEF n, i, o, name, input
<1>3. [[id |-> o, name |-> name, input |-> input] EXCEPT !.name = n] = [id |-> o, name |-> n, input |-> input]
  OBVIOUS
<1>4. [[id |-> o, name |-> n, input |-> input] EXCEPT !.input = i] = [id |-> o, name |-> n, input |-> i]
  OBVIOUS
<1>5. Collect(c, f) = [id |-> o, name |-> n, input |-> i]
  BY <1>1, <1>2, <1>3, <1>4
<1>. QED
  BY <1>5 DEF n, i, o

\* A call that has just begun, written as a record.
LEMMA NewRecord ==
  ASSUME NEW o
  PROVE  [NoTool EXCEPT !.id = o] = [id |-> o, name |-> "", input |-> <<>>]
<1>. DEFINE e == <<>>
            z == 0
            n == ""
<1>1. NoTool = [id |-> z, name |-> n, input |-> e]
  BY DEF NoTool
<1>. HIDE DEF e, z, n
<1>2. [NoTool EXCEPT !.id = o] = [id |-> o, name |-> n, input |-> e]
  BY <1>1
<1>. QED
  BY <1>2 DEF e, n

(***************************************************************************)
(* A call that is over stays what it was; a frame that joins it is         *)
(* collected, and one that does not begins the next.                       *)
(***************************************************************************)
LEMMA CallStays ==
  ASSUME NEW s \in Seq(ToolFrames), NEW f \in ToolFrames, NEW i \in 1..Len(s), NEW j \in 1..Len(s)
  PROVE  CallOf(Append(s, f), <<i, j>>) = CallOf(s, <<i, j>>)
<1>1. Len(s) \in Nat /\ i \in Nat \ {0} /\ i \in 0..Len(s) /\ j \in 0..Len(s)
  BY LenProperties
<1>2. /\ Owner(Append(s, f))[i] = Owner(s)[i] /\ Inputs(Append(s, f), i)[j] = Inputs(s, i)[j]
      /\ NameOf(Append(s, f), i, j) = NameOf(s, i, j)
  BY <1>1, OwnerGrows, InputsGrow, NameGrows
<1>. QED
  BY <1>2 DEF CallOf

\* A call with one more frame is the call collected with it.
LEMMA CallGoesOn ==
  ASSUME NEW s \in Seq(ToolFrames), NEW f \in ToolFrames, NEW i \in 1..Len(s)
  PROVE  CallOf(Append(s, f), <<i, Len(s) + 1>>) = Collect(CallOf(s, <<i, Len(s)>>), f)
<1>. DEFINE t == Append(s, f)
            N == Len(s)
            c == CallOf(s, <<i, N>>)
<1>1. /\ N \in Nat /\ i \in Nat \ {0} /\ i \in 0..N /\ N \in 0..N /\ i <= N + 1
      /\ t \in Seq(ToolFrames) /\ Len(t) = N + 1 /\ t[N + 1] = f /\ N + 1 \in 1..Len(t) /\ (N + 1) - 1 = N
  BY Appended
<1>. HIDE DEF t
<1>2. Owner(t)[i] = c.id
  BY <1>1, OwnerGrows DEF t, CallOf
<1>3. NameOf(t, i, N + 1) = IF f.name = NoName THEN c.name ELSE f.name
  BY <1>1, NameGrows DEF t, CallOf
<1>4. Inputs(t, i)[N + 1] = IF f.as = "value" THEN f.input ELSE c.input \o f.input
  <2>1. Inputs(t, i)[N + 1] = InputAt(Inputs(t, i)[N], t, i, N + 1)
    BY <1>1, InputsFacts
  <2>2. Inputs(t, i)[N] = c.input
    BY <1>1, InputsGrow DEF t, CallOf
  <2>3. ~(N + 1 < i)
    BY <1>1
  <2>. QED
    BY <1>1, <2>1, <2>2, <2>3 DEF InputAt
<1>5. c = [id |-> c.id, name |-> c.name, input |-> c.input]
  BY DEF CallOf
<1>6. CallOf(t, <<i, N + 1>>)
        = [id |-> Owner(t)[i], name |-> NameOf(t, i, N + 1), input |-> Inputs(t, i)[N + 1]]
  BY DEF CallOf
<1>. HIDE DEF c
<1>7. Collect(c, f) = [id |-> c.id, name |-> IF f.name = NoName THEN c.name ELSE f.name,
                       input |-> IF f.as = "value" THEN f.input ELSE c.input \o f.input]
  BY <1>5, CollectRecord
<1>8. CallOf(t, <<i, N + 1>>) = Collect(c, f)
  BY <1>2, <1>3, <1>4, <1>6, <1>7
<1>. QED
  BY <1>8 DEF c, t

\* A call of one frame is that frame collected into a new call.
LEMMA CallBegins ==
  ASSUME NEW s \in Seq(ToolFrames), NEW f \in ToolFrames
  PROVE  CallOf(Append(s, f), <<Len(s) + 1, Len(s) + 1>>)
           = Collect([NoTool EXCEPT !.id = Owner(Append(s, f))[Len(s) + 1]], f)
<1>. DEFINE t == Append(s, f)
            N == Len(s)
<1>1. /\ N \in Nat /\ N + 1 \in Nat \ {0} /\ N \in 0..N /\ N \in 0..Len(t)
      /\ t \in Seq(ToolFrames) /\ Len(t) = N + 1 /\ t[N + 1] = f /\ N + 1 \in 1..Len(t) /\ (N + 1) - 1 = N
  BY Appended
<1>. HIDE DEF t
<1>2. NameOf(t, N + 1, N + 1) = IF f.name = NoName THEN "" ELSE f.name
  <2>1. NameOf(t, N + 1, N + 1) = IF f.name = NoName THEN NameOf(s, N + 1, N) ELSE f.name
    <3>1. N + 1 <= N + 1
      BY <1>1
    <3>. QED
      BY <1>1, <3>1, NameGrows DEF t
  <2>2. (N + 1)..N = {}
    BY <1>1
  <2>3. NameOf(s, N + 1, N) = ""
    BY <2>2 DEF NameOf
  <2>. QED
    BY <2>1, <2>3
<1>3. Inputs(t, N + 1)[N + 1] = IF f.as = "value" THEN f.input ELSE <<>> \o f.input
  <2>1. Inputs(t, N + 1)[N + 1] = InputAt(Inputs(t, N + 1)[N], t, N + 1, N + 1)
    BY <1>1, InputsFacts
  <2>2. Inputs(t, N + 1)[N] = <<>>
    <3>1. CASE N = 0
      BY <1>1, <3>1, InputsFacts
    <3>2. CASE N # 0
      <4>1. N \in 1..Len(t) /\ N < N + 1
        BY <1>1, <3>2
      <4>2. Inputs(t, N + 1)[N] = InputAt(Inputs(t, N + 1)[N - 1], t, N + 1, N)
        BY <1>1, <4>1, InputsFacts
      <4>. QED
        BY <4>1, <4>2 DEF InputAt
    <3>. QED
      BY <3>1, <3>2
  <2>3. ~(N + 1 < N + 1)
    BY <1>1
  <2>. QED
    BY <1>1, <2>1, <2>2, <2>3 DEF InputAt
<1>. DEFINE o == Owner(t)[N + 1]
            c == [NoTool EXCEPT !.id = o]
<1>4. c = [id |-> o, name |-> "", input |-> <<>>]
  BY NewRecord
<1>5. c.id = o /\ c.name = "" /\ c.input = <<>>
  BY <1>4
<1>6. CallOf(t, <<N + 1, N + 1>>)
        = [id |-> o, name |-> NameOf(t, N + 1, N + 1), input |-> Inputs(t, N + 1)[N + 1]]
  BY DEF CallOf
<1>. HIDE DEF o, c
<1>7. Collect(c, f) = [id |-> c.id, name |-> IF f.name = NoName THEN c.name ELSE f.name,
                       input |-> IF f.as = "value" THEN f.input ELSE c.input \o f.input]
  BY <1>4, <1>5, CollectRecord
<1>8. CallOf(t, <<N + 1, N + 1>>) = Collect(c, f)
  BY <1>2, <1>3, <1>5, <1>6, <1>7
<1>. QED
  BY <1>8 DEF c, o, t

(***************************************************************************)
(* The runs of frames, and how a frame changes them.                       *)
(***************************************************************************)
Joined(s, k) == Owner(s)[k] = Owner(s)[k + 1] /\ ~s[k].stop

\* Runs, place by place.
LEMMA RunsAre ==
  ASSUME NEW s, NEW i, NEW j
  PROVE  <<i, j>> \in Runs(s) <=>
           /\ i \in 1..Len(s) /\ j \in 1..Len(s) /\ i <= j
           /\ \A k \in i..(j - 1) : Joined(s, k)
           /\ i > 1 => ~Joined(s, i - 1)
           /\ j < Len(s) => ~Joined(s, j)
BY DEF Runs, Joined

\* One more frame goes on with the last run or begins another.
LEMMA RunsGrow ==
  ASSUME NEW s \in Seq(ToolFrames), NEW f \in ToolFrames
  PROVE  LET t == Append(s, f)
             n == Len(s)
         IN /\ \A i, j \in 1..n : j < n => (<<i, j>> \in Runs(t) <=> <<i, j>> \in Runs(s))
            /\ \A i \in 1..n : <<i, n>> \in Runs(t) <=> <<i, n>> \in Runs(s) /\ ~Joined(t, n)
            /\ \A i \in 1..(n + 1) : <<i, n + 1>> \in Runs(t) <=>
                 IF n > 0 /\ Joined(t, n) THEN i <= n /\ <<i, n>> \in Runs(s) ELSE i = n + 1
            /\ \A k \in 1..(n - 1) : Joined(t, k) <=> Joined(s, k)
<1>. DEFINE t == Append(s, f)
            n == Len(s)
<1>1. /\ t \in Seq(ToolFrames) /\ n \in Nat /\ Len(t) = n + 1
      /\ \A k \in 1..n : t[k] = s[k]
  BY Appended
<1>. HIDE DEF t
<1>2. ASSUME NEW k \in 1..(n - 1) PROVE Joined(t, k) <=> Joined(s, k)
  <2>1. k \in 0..n /\ k + 1 \in 0..n /\ k \in 1..n
    BY <1>1
  <2>2. Owner(t)[k] = Owner(s)[k] /\ Owner(t)[k + 1] = Owner(s)[k + 1] /\ t[k] = s[k]
    BY <1>1, <2>1, OwnerGrows DEF t
  <2>. QED
    BY <2>2 DEF Joined
<1>. HIDE DEF n
<1>3. ASSUME NEW i \in 1..n, NEW j \in 1..n, j < n PROVE <<i, j>> \in Runs(t) <=> <<i, j>> \in Runs(s)
  <2>1. i <= j => \A k \in i..(j - 1) : k \in 1..(n - 1)
    BY <1>1, <1>3
  <2>2. (i > 1 => i - 1 \in 1..(n - 1)) /\ j \in 1..(n - 1) /\ j < n + 1 /\ i \in 1..(n + 1) /\ j \in 1..(n + 1)
    BY <1>1, <1>3
  <2>3. i <= j => \A k \in i..(j - 1) : Joined(t, k) <=> Joined(s, k)
    BY <1>2, <2>1
  <2>4. (i > 1 => (Joined(t, i - 1) <=> Joined(s, i - 1))) /\ (Joined(t, j) <=> Joined(s, j))
    BY <1>2, <2>2
  <2>. QED
    BY <1>1, <1>3, <2>2, <2>3, <2>4, RunsAre DEF n
<1>4. ASSUME NEW i \in 1..n PROVE <<i, n>> \in Runs(t) <=> <<i, n>> \in Runs(s) /\ ~Joined(t, n)
  <2>1. \A k \in i..(n - 1) : Joined(t, k) <=> Joined(s, k)
    BY <1>1, <1>2
  <2>2. i > 1 => (Joined(t, i - 1) <=> Joined(s, i - 1))
    BY <1>1, <1>2
  <2>3. i <= n /\ n \in 1..n /\ i \in 1..(n + 1) /\ n \in 1..(n + 1) /\ n < n + 1 /\ ~(n < n)
    BY <1>1
  <2>. QED
    BY <1>1, <2>1, <2>2, <2>3, RunsAre DEF n
<1>5. ASSUME NEW i \in 1..(n + 1)
      PROVE  <<i, n + 1>> \in Runs(t) <=>
               IF n > 0 /\ Joined(t, n) THEN i <= n /\ <<i, n>> \in Runs(s) ELSE i = n + 1
  <2>1. <<i, n + 1>> \in Runs(t) <=> /\ \A k \in i..n : Joined(t, k)
                                     /\ i > 1 => ~Joined(t, i - 1)
    <3>1. (n + 1) - 1 = n /\ i <= n + 1 /\ n + 1 \in 1..(n + 1) /\ ~(n + 1 < n + 1)
      BY <1>1
    <3>. QED
      BY <1>1, <3>1, RunsAre
  <2>2. CASE i <= n
    <3>1. i \in 1..n /\ n \in i..n /\ n > 0 /\ i # n + 1 /\ i..n = (i..(n - 1)) \cup {n}
      BY <1>1, <2>2
    <3>2. (\A k \in i..n : Joined(t, k)) <=> (\A k \in i..(n - 1) : Joined(t, k)) /\ Joined(t, n)
      BY <3>1
    <3>3. (\A k \in i..(n - 1) : Joined(t, k)) <=> (\A k \in i..(n - 1) : Joined(s, k))
      BY <1>1, <1>2, <3>1
    <3>4. i > 1 => (Joined(t, i - 1) <=> Joined(s, i - 1))
      BY <1>1, <1>2, <2>2
    <3>5. <<i, n>> \in Runs(s) <=> /\ \A k \in i..(n - 1) : Joined(s, k)
                                   /\ i > 1 => ~Joined(s, i - 1)
      <4>1. n \in 1..n /\ i <= n /\ ~(n < n)
        BY <1>1, <2>2, <3>1
      <4>. QED
        BY <3>1, <4>1, RunsAre DEF n
    <3>. QED
      BY <2>1, <2>2, <3>1, <3>2, <3>3, <3>4, <3>5
  <2>3. CASE i = n + 1
    <3>1. i..n = {} /\ ~(i <= n) /\ i - 1 = n /\ (i > 1 <=> n > 0)
      BY <1>1, <2>3
    <3>. QED
      BY <2>1, <2>3, <3>1
  <2>. QED
    BY <1>1, <2>2, <2>3
<1>. QED
  BY <1>2, <1>3, <1>4, <1>5 DEF t, n

(***************************************************************************)
(* The calls that are over, and what the accumulator holds of the one that *)
(* is not.                                                                 *)
(***************************************************************************)
Over(s) == {CallOf(s, r) : r \in {q \in Runs(s) : q[2] < Len(s) \/ s[q[2]].stop}}

\* The accumulator t holds the last call of s, as far as it has been sent.
Holds(s, t) ==
  IF Len(s) = 0
    THEN t = NoTool
    ELSE \E i \in 1..Len(s) :
           /\ <<i, Len(s)>> \in Runs(s) /\ Owner(s)[i] = Owner(s)[Len(s)]
           /\ t = IF s[Len(s)].stop THEN NoTool ELSE CallOf(s, <<i, Len(s)>>)

\* Over, place by place.
LEMMA OverIs ==
  ASSUME NEW s, NEW c
  PROVE  c \in Over(s) <=>
           \E i, j \in 1..Len(s) : /\ <<i, j>> \in Runs(s) /\ (j < Len(s) \/ s[j].stop)
                                   /\ c = CallOf(s, <<i, j>>)
<1>1. \A q \in Runs(s) : q = <<q[1], q[2]>> /\ q[1] \in 1..Len(s) /\ q[2] \in 1..Len(s)
  BY DEF Runs
<1>. QED
  BY <1>1 DEF Over

\* SentCalls, place by place.
LEMMA SentIs ==
  ASSUME NEW s, NEW c
  PROVE  c \in SentCalls(s) <=> \E i, j \in 1..Len(s) : <<i, j>> \in Runs(s) /\ c = CallOf(s, <<i, j>>)
<1>1. \A q \in Runs(s) : q = <<q[1], q[2]>> /\ q[1] \in 1..Len(s) /\ q[2] \in 1..Len(s)
  BY DEF Runs
<1>. QED
  BY <1>1 DEF SentCalls

\* Two runs that end with one frame are one.
LEMMA RunUnique ==
  ASSUME NEW s, Len(s) \in Nat, NEW i, NEW j, NEW k, <<i, k>> \in Runs(s), <<j, k>> \in Runs(s)
  PROVE  i = j
<1>1. /\ i \in 1..Len(s) /\ j \in 1..Len(s) /\ k \in 1..Len(s) /\ i <= k /\ j <= k
      /\ \A l \in i..(k - 1) : Joined(s, l)
      /\ \A l \in j..(k - 1) : Joined(s, l)
      /\ i > 1 => ~Joined(s, i - 1)
      /\ j > 1 => ~Joined(s, j - 1)
  BY RunsAre
<1>2. ~(i < j)
  <2>1. i < j => j - 1 \in i..(k - 1) /\ j > 1
    BY <1>1
  <2>. QED
    BY <1>1, <2>1
<1>3. ~(j < i)
  <2>1. j < i => i - 1 \in j..(k - 1) /\ i > 1
    BY <1>1
  <2>. QED
    BY <1>1, <2>1
<1>. QED
  BY <1>1, <1>2, <1>3

(***************************************************************************)
(* The accumulator finds the runs: it goes on with a call when the frame   *)
(* joins the one before, and begins one when it does not.                  *)
(***************************************************************************)
LEMMA FrameOwner ==
  ASSUME NEW s \in Seq(ToolFrames), NEW f \in ToolFrames
  PROVE  LET t == Append(s, f)
             n == Len(s)
             running == n > 0 /\ ~s[n].stop
         IN /\ Owner(t)[n + 1] = IF f.id # 0 THEN f.id
                                 ELSE IF running /\ Owner(s)[n] # 0 THEN Owner(s)[n]
                                 ELSE IF f.name # NoName THEN 101 + n ELSE 0
            /\ n > 0 => (Joined(t, n) <=> running /\ Owner(s)[n] = Owner(t)[n + 1])
<1>. DEFINE t == Append(s, f)
            n == Len(s)
<1>1. /\ t \in Seq(ToolFrames) /\ n \in Nat /\ Len(t) = n + 1 /\ t[n + 1] = f
      /\ \A k \in 1..n : t[k] = s[k]
  BY Appended
<1>2. Owner(t)[n] = Owner(s)[n]
  BY <1>1, OwnerGrows
<1>. HIDE DEF t
<1>3. Owner(t)[n + 1] = OwnerAt(Owner(s)[n], t, n + 1)
  <2>1. n + 1 \in 1..Len(t) /\ (n + 1) - 1 = n
    BY <1>1
  <2>. QED
    BY <1>1, <1>2, <2>1, OwnerFacts
<1>4. n > 0 => t[n].stop = s[n].stop
  BY <1>1
<1>5. (n + 1) - 1 = n /\ (n + 1 > 1 <=> n > 0) /\ 100 + (n + 1) = 101 + n
  BY <1>1
<1>6. Owner(t)[n + 1] = IF f.id # 0 THEN f.id
                        ELSE IF (n > 0 /\ ~s[n].stop) /\ Owner(s)[n] # 0 THEN Owner(s)[n]
                        ELSE IF f.name # NoName THEN 101 + n ELSE 0
  BY <1>1, <1>3, <1>4, <1>5 DEF OwnerAt
<1>7. n > 0 => (Joined(t, n) <=> (n > 0 /\ ~s[n].stop) /\ Owner(s)[n] = Owner(t)[n + 1])
  BY <1>2, <1>4 DEF Joined
<1>. QED
  BY <1>6, <1>7 DEF t

\* The id the accumulator has is the owner of the last frame.
LEMMA ToolID ==
  ASSUME NEW s, NEW t, Holds(s, t)
  PROVE  t.id = IF Len(s) = 0 \/ s[Len(s)].stop THEN 0 ELSE Owner(s)[Len(s)]
<1>1. NoTool.id = 0
  BY DEF NoTool
<1>2. \A i : CallOf(s, <<i, Len(s)>>).id = Owner(s)[i]
  BY DEF CallOf
<1>. QED
  BY <1>1, <1>2 DEF Holds

\* A call begins in the accumulator exactly when the frame joins nothing.
LEMMA FrameBegins ==
  ASSUME sent \in Seq(ToolFrames), NEW f \in ToolFrames, Holds(sent, tool)
  PROVE  LET t == Append(sent, f)
             n == Len(sent)
         IN IF n > 0 /\ Joined(t, n)
              THEN ~isNewTool(tool, f) /\ Begin(tool, f) = tool /\ ~sent[n].stop
              ELSE /\ Begin(tool, f) = [NoTool EXCEPT !.id = Owner(t)[n + 1]]
                   /\ isNewTool(tool, f) \/ tool = NoTool
<1>. DEFINE t == Append(sent, f)
            n == Len(sent)
            o == Owner(sent)[n]
            own == Owner(t)[n + 1]
            running == n > 0 /\ ~sent[n].stop
<1>1. n \in Nat /\ o \in Nat
  BY LenProperties, OwnerFacts
<1>2. own = IF f.id # 0 THEN f.id ELSE IF running /\ o # 0 THEN o ELSE IF f.name # NoName THEN 101 + n ELSE 0
  BY FrameOwner
<1>3. n > 0 => (Joined(t, n) <=> running /\ o = own)
  BY FrameOwner
<1>4. tool.id = IF running THEN o ELSE 0
  BY <1>1, ToolID
<1>5. ~running => tool = NoTool
  <2>1. CASE n = 0
    BY <2>1 DEF Holds
  <2>2. CASE n # 0 /\ sent[n].stop
    BY <2>2 DEF Holds
  <2>. QED
    BY <1>1, <2>1, <2>2
<1>6. isNewTool(tool, f) <=> (f.id # 0 /\ f.id # tool.id) \/ (f.id = 0 /\ tool.id = 0 /\ f.name # NoName)
  BY DEF isNewTool
<1>7. NewUUID = 101 + n
  BY DEF NewUUID
<1>. HIDE DEF t, n, o, own, running
<1>8. CASE running
  <2>1. isNewTool(tool, f) <=> o # own
    <3>1. tool.id = o
      BY <1>4, <1>8
    <3>2. CASE f.id # 0
      BY <1>2, <1>6, <3>1, <3>2
    <3>3. CASE f.id = 0 /\ o # 0
      BY <1>2, <1>6, <1>8, <3>1, <3>3
    <3>4. CASE f.id = 0 /\ o = 0
      <4>1. own = IF f.name # NoName THEN 101 + n ELSE 0
        BY <1>2, <3>4
      <4>2. isNewTool(tool, f) <=> f.name # NoName
        BY <1>6, <3>1, <3>4
      <4>3. f.name # NoName => own = 101 + n
        BY <4>1
      <4>4. f.name = NoName => own = 0
        BY <4>1
      <4>5. 101 + n # 0
        BY <1>1
      <4>. QED
        BY <3>4, <4>2, <4>3, <4>4, <4>5
    <3>. QED
      BY <3>2, <3>3, <3>4
  <2>2. isNewTool(tool, f) => (IF f.id = 0 THEN NewUUID ELSE f.id) = own
    BY <1>2, <1>4, <1>6, <1>7, <1>8
  <2>3. n > 0 /\ ~sent[n].stop
    BY <1>8 DEF running
  <2>. QED
    BY <1>3, <1>8, <2>1, <2>2, <2>3 DEF Begin, t, n, own
<1>9. CASE ~running
  <2>1. tool = NoTool /\ tool.id = 0 /\ ~(n > 0 /\ Joined(t, n))
    BY <1>3, <1>4, <1>5, <1>9
  <2>2. CASE isNewTool(tool, f)
    <3>1. (IF f.id = 0 THEN NewUUID ELSE f.id) = own
      BY <1>2, <1>6, <1>7, <1>9, <2>1, <2>2
    <3>. QED
      BY <2>1, <2>2, <3>1 DEF Begin, t, n, own
  <2>3. CASE ~isNewTool(tool, f)
    <3>1. own = 0
      BY <1>2, <1>6, <1>9, <2>1, <2>3
    <3>2. [NoTool EXCEPT !.id = 0] = NoTool
      BY NewRecord DEF NoTool
    <3>3. Begin(tool, f) = NoTool
      BY <2>1, <2>3 DEF Begin
    <3>. QED
      BY <2>1, <3>1, <3>2, <3>3 DEF t, n, own
  <2>. QED
    BY <2>2, <2>3
<1>. QED
  BY <1>8, <1>9

\* The call in the accumulator once f is collected.
Now(f) == Collect(Begin(tool, f), f)

\* What is collected is the call of the run that ends at the frame.
LEMMA FrameCollects ==
  ASSUME sent \in Seq(ToolFrames), NEW f \in ToolFrames, Holds(sent, tool)
  PROVE  \E i \in 1..(Len(sent) + 1) :
           /\ <<i, Len(sent) + 1>> \in Runs(Append(sent, f))
           /\ Owner(Append(sent, f))[i] = Owner(Append(sent, f))[Len(sent) + 1]
           /\ Now(f) = CallOf(Append(sent, f), <<i, Len(sent) + 1>>)
<1>. DEFINE t == Append(sent, f)
            n == Len(sent)
<1>1. n \in Nat /\ n + 1 \in 1..(n + 1)
  BY LenProperties
<1>2. CASE n > 0 /\ Joined(t, n)
  <2>1. Begin(tool, f) = tool /\ ~sent[n].stop
    BY <1>2, FrameBegins
  <2>2. PICK i \in 1..n : /\ <<i, n>> \in Runs(sent) /\ Owner(sent)[i] = Owner(sent)[n]
                          /\ tool = CallOf(sent, <<i, n>>)
    BY <1>1, <1>2, <2>1 DEF Holds
  <2>3. <<i, n + 1>> \in Runs(t)
    <3>1. i \in 1..(n + 1) /\ i <= n
      BY <1>1
    <3>. QED
      BY <1>2, <2>2, <3>1, RunsGrow
  <2>4. Owner(t)[i] = Owner(sent)[i] /\ Owner(t)[n] = Owner(sent)[n]
    <3>1. i \in 0..n /\ n \in 0..n
      BY <1>1
    <3>. QED
      BY <3>1, OwnerGrows
  <2>5. Owner(t)[i] = Owner(t)[n + 1]
    BY <1>2, <2>2, <2>4 DEF Joined
  <2>6. Now(f) = CallOf(t, <<i, n + 1>>)
    BY <2>1, <2>2, CallGoesOn DEF Now
  <2>7. i \in 1..(n + 1)
    BY <1>1
  <2>. QED
    BY <2>3, <2>5, <2>6, <2>7
<1>3. CASE ~(n > 0 /\ Joined(t, n))
  <2>1. Begin(tool, f) = [NoTool EXCEPT !.id = Owner(t)[n + 1]]
    BY <1>3, FrameBegins
  <2>2. <<n + 1, n + 1>> \in Runs(t)
    BY <1>1, <1>3, RunsGrow
  <2>3. Now(f) = CallOf(t, <<n + 1, n + 1>>)
    BY <2>1, CallBegins DEF Now
  <2>. QED
    BY <1>1, <2>2, <2>3
<1>. QED
  BY <1>2, <1>3

\* A frame leaves the accumulator with the call it belongs to.
LEMMA FrameHeld ==
  ASSUME sent \in Seq(ToolFrames), NEW f \in ToolFrames, Holds(sent, tool)
  PROVE  Holds(Append(sent, f), update(tool, f).tool)
<1>. DEFINE t == Append(sent, f)
            n == Len(sent)
<1>1. n \in Nat /\ Len(t) = n + 1 /\ t[n + 1] = f /\ Len(t) # 0
  BY Appended
<1>2. PICK i \in 1..(n + 1) : /\ <<i, n + 1>> \in Runs(t) /\ Owner(t)[i] = Owner(t)[n + 1]
                              /\ Now(f) = CallOf(t, <<i, n + 1>>)
  BY FrameCollects
<1>3. update(tool, f).tool = IF f.stop THEN NoTool ELSE Now(f)
  BY DEF update, Now
<1>. HIDE DEF t
<1>4. Holds(t, update(tool, f).tool)
  BY <1>1, <1>2, <1>3 DEF Holds
<1>. QED
  BY <1>4 DEF t

\* The calls a frame completes.
LEMMA EventsAre ==
  ASSUME NEW f
  PROVE  Members(update(tool, f).events)
           = (IF isNewTool(tool, f) /\ tool.id # 0 THEN {tool} ELSE {}) \cup (IF f.stop THEN {Now(f)} ELSE {})
<1>. DEFINE p == IF isNewTool(tool, f) /\ tool.id # 0 THEN <<tool>> ELSE <<>>
            q == IF f.stop THEN <<Now(f)>> ELSE <<>>
            S == {tool, Now(f)}
<1>1. p \in Seq(S) /\ q \in Seq(S)
  <2>1. <<>> \in Seq(S) /\ <<tool>> \in Seq(S) /\ <<Now(f)>> \in Seq(S)
    OBVIOUS
  <2>. QED
    BY <2>1
<1>2. Members(p) = IF isNewTool(tool, f) /\ tool.id # 0 THEN {tool} ELSE {}
  BY DEF Members
<1>3. Members(q) = IF f.stop THEN {Now(f)} ELSE {}
  BY DEF Members
<1>4. update(tool, f).events = p \o q
  BY DEF update, Now
<1>. HIDE DEF p, q, S
<1>5. Members(p \o q) = Members(p) \cup Members(q)
  BY <1>1, MembersOf
<1>. QED
  BY <1>2, <1>3, <1>4, <1>5

(***************************************************************************)
(* The accumulator tells every call that is over, and only those.  Frames  *)
(* that are nobody's may go untold.                                        *)
(***************************************************************************)
LEMMA FrameTells ==
  ASSUME sent \in Seq(ToolFrames), NEW f \in ToolFrames, Holds(sent, tool)
  PROVE  LET events == Members(update(tool, f).events)
         IN /\ Over(sent) \cup events \subseteq Over(Append(sent, f))
            /\ \A c \in Over(Append(sent, f)) : c \in Over(sent) \/ c \in events \/ c.id = 0
<1>. DEFINE t == Append(sent, f)
            n == Len(sent)
            events == Members(update(tool, f).events)
<1>1. /\ t \in Seq(ToolFrames) /\ n \in Nat /\ Len(t) = n + 1 /\ t[n + 1] = f
      /\ \A k \in 1..n : t[k] = sent[k]
  BY Appended
<1>2. PICK m \in 1..(n + 1) : /\ <<m, n + 1>> \in Runs(t) /\ Now(f) = CallOf(t, <<m, n + 1>>)
  BY FrameCollects
<1>3. events = (IF isNewTool(tool, f) /\ tool.id # 0 THEN {tool} ELSE {}) \cup (IF f.stop THEN {Now(f)} ELSE {})
  BY EventsAre
<1>4. /\ \A i, j \in 1..n : j < n => (<<i, j>> \in Runs(t) <=> <<i, j>> \in Runs(sent))
      /\ \A i \in 1..n : <<i, n>> \in Runs(t) <=> <<i, n>> \in Runs(sent) /\ ~Joined(t, n)
  BY RunsGrow
<1>5. \A i, j \in 1..n : CallOf(t, <<i, j>>) = CallOf(sent, <<i, j>>)
  BY CallStays
<1>6. IF n > 0 /\ Joined(t, n)
        THEN ~isNewTool(tool, f) /\ ~sent[n].stop
        ELSE isNewTool(tool, f) \/ tool = NoTool
  BY FrameBegins
<1>7. \A c : c \in Over(sent) <=>
               \E i, j \in 1..n : /\ <<i, j>> \in Runs(sent) /\ (j < n \/ sent[j].stop)
                                  /\ c = CallOf(sent, <<i, j>>)
  BY OverIs
<1>8. \A c : c \in Over(t) <=>
               \E i, j \in 1..(n + 1) : /\ <<i, j>> \in Runs(t) /\ (j < n + 1 \/ t[j].stop)
                                        /\ c = CallOf(t, <<i, j>>)
  <2>1. \A c : c \in Over(t) <=>
               \E i, j \in 1..Len(t) : /\ <<i, j>> \in Runs(t) /\ (j < Len(t) \/ t[j].stop)
                                       /\ c = CallOf(t, <<i, j>>)
    BY OverIs
  <2>2. Len(t) = n + 1
    BY <1>1
  <2>. HIDE DEF t, n
  <2>. QED
    BY <2>1, <2>2
<1>9. NoTool.id = 0
  BY DEF NoTool
<1>10. n > 0 /\ ~sent[n].stop =>
         \E i \in 1..n : <<i, n>> \in Runs(sent) /\ tool = CallOf(sent, <<i, n>>)
  <2>1. n > 0 => n # 0
    BY <1>1
  <2>. QED
    BY <2>1 DEF Holds
<1>11. tool.id # 0 => n > 0 /\ ~sent[n].stop
  BY <1>1, ToolID
<1>. HIDE DEF t, n, events
<1>12. ASSUME NEW c \in Over(sent) PROVE c \in Over(t)
  <2>1. PICK i \in 1..n, j \in 1..n : /\ <<i, j>> \in Runs(sent) /\ (j < n \/ sent[j].stop)
                                      /\ c = CallOf(sent, <<i, j>>)
    BY <1>7
  <2>2. i \in 1..(n + 1) /\ j \in 1..(n + 1) /\ j < n + 1 /\ (j < n \/ j = n)
    BY <1>1
  <2>3. <<i, j>> \in Runs(t)
    BY <1>1, <1>4, <1>6, <2>1, <2>2
  <2>. QED
    BY <1>5, <1>8, <2>1, <2>2, <2>3
<1>13. ASSUME NEW c \in events PROVE c \in Over(t)
  <2>1. CASE isNewTool(tool, f) /\ tool.id # 0 /\ c = tool
    <3>1. PICK i \in 1..n : <<i, n>> \in Runs(sent) /\ tool = CallOf(sent, <<i, n>>)
      BY <1>10, <1>11, <2>1
    <3>2. n \in 1..n /\ n \in 1..(n + 1) /\ n < n + 1 /\ i \in 1..(n + 1)
      BY <1>1
    <3>3. <<i, n>> \in Runs(t) /\ c = CallOf(t, <<i, n>>)
      BY <1>4, <1>5, <1>6, <2>1, <3>1, <3>2
    <3>. QED
      BY <1>8, <3>2, <3>3
  <2>2. CASE f.stop /\ c = Now(f)
    <3>1. n + 1 \in 1..(n + 1)
      BY <1>1
    <3>. QED
      BY <1>1, <1>2, <1>8, <2>2, <3>1
  <2>. QED
    BY <1>3, <2>1, <2>2
<1>14. ASSUME NEW c \in Over(t) PROVE c \in Over(sent) \/ c \in events \/ c.id = 0
  <2>1. PICK i \in 1..(n + 1), j \in 1..(n + 1) : /\ <<i, j>> \in Runs(t) /\ (j < n + 1 \/ t[j].stop)
                                                  /\ c = CallOf(t, <<i, j>>)
    BY <1>8
  <2>2. i <= j
    BY <2>1, RunsAre
  <2>3. CASE j < n
    <3>1. i \in 1..n /\ j \in 1..n
      BY <1>1, <2>2, <2>3
    <3>. QED
      BY <1>4, <1>5, <1>7, <2>1, <2>3, <3>1
  <2>4. CASE j = n
    <3>1. i \in 1..n /\ n \in 1..n /\ n > 0
      BY <1>1, <2>2, <2>4
    <3>2. <<i, n>> \in Runs(sent) /\ ~Joined(t, n) /\ c = CallOf(sent, <<i, n>>)
      BY <1>4, <1>5, <2>1, <2>4, <3>1
    <3>3. CASE sent[n].stop
      BY <1>7, <3>1, <3>2, <3>3
    <3>4. CASE ~sent[n].stop
      <4>1. PICK k \in 1..n : <<k, n>> \in Runs(sent) /\ tool = CallOf(sent, <<k, n>>)
        BY <1>10, <3>1, <3>4
      <4>2. k = i
        BY <1>1, <3>2, <4>1, RunUnique DEF n
      <4>. QED
        BY <1>3, <1>6, <1>9, <3>2, <4>1, <4>2
    <3>. QED
      BY <3>3, <3>4
  <2>5. CASE j = n + 1
    <3>1. f.stop
      BY <1>1, <2>1, <2>5
    <3>2. i = m
      BY <1>1, <1>2, <2>1, <2>5, RunUnique
    <3>. QED
      BY <1>2, <1>3, <2>1, <2>5, <3>1, <3>2
  <2>. QED
    BY <1>1, <2>3, <2>4, <2>5
<1>. QED
  BY <1>12, <1>13, <1>14 DEF t, events

\* The end of a body tells the call that is left, and then all have been told.
LEMMA EndTells ==
  ASSUME sent \in Seq(ToolFrames), Holds(sent, tool)
  PROVE  /\ Over(sent) \cup Members(flush(tool)) \subseteq SentCalls(sent)
         /\ \A c \in SentCalls(sent) : c \in Over(sent) \/ c \in Members(flush(tool)) \/ c.id = 0
<1>. DEFINE n == Len(sent)
<1>1. n \in Nat
  BY LenProperties
<1>2. Members(flush(tool)) = IF tool.id = 0 THEN {} ELSE {tool}
  BY DEF flush, Members
<1>3. n > 0 /\ ~sent[n].stop =>
         \E i \in 1..n : <<i, n>> \in Runs(sent) /\ tool = CallOf(sent, <<i, n>>)
  BY <1>1 DEF Holds
<1>4. tool.id # 0 => n > 0 /\ ~sent[n].stop
  BY <1>1, ToolID
<1>5. Over(sent) \subseteq SentCalls(sent)
  BY OverIs, SentIs
<1>6. tool.id # 0 => tool \in SentCalls(sent)
  <2>1. n > 0 => n \in 1..n
    BY <1>1
  <2>. QED
    BY <1>3, <1>4, <2>1, SentIs
<1>7. ASSUME NEW c \in SentCalls(sent) PROVE c \in Over(sent) \/ c \in Members(flush(tool)) \/ c.id = 0
  <2>1. PICK i \in 1..n, j \in 1..n : <<i, j>> \in Runs(sent) /\ c = CallOf(sent, <<i, j>>)
    BY SentIs
  <2>2. CASE j < n \/ sent[j].stop
    BY <2>1, <2>2, OverIs
  <2>3. CASE j = n /\ ~sent[n].stop
    <3>1. PICK k \in 1..n : <<k, n>> \in Runs(sent) /\ tool = CallOf(sent, <<k, n>>)
      BY <1>1, <1>3, <2>3
    <3>2. k = i
      BY <1>1, <2>1, <2>3, <3>1, RunUnique
    <3>. QED
      BY <1>2, <2>1, <2>3, <3>1, <3>2
  <2>. QED
    BY <1>1, <2>2, <2>3
<1>. QED
  BY <1>2, <1>5, <1>6, <1>7

-----------------------------------------------------------------------------
(***************************************************************************)
(* What the operators of a step make of the accumulator.                   *)
(***************************************************************************)
LEMMA TextGoesOn ==
  ASSUME NEW x \in DOMAIN NextText
  PROVE  NextText[x] \subseteq DOMAIN NextText
BY DEF NextText

\* Thinking and text record no tool call and no stop.
LEMMA ContentKeepsAll ==
  ASSUME NEW w, NEW a \in Accumulators, NEW kinds, NEW d \in Content(w, a, kinds)
  PROVE  d.acc \in Accumulators /\ d.acc.stopped = a.stopped /\ d.acc.tool = a.tool
<1>1. \A v, ops, block, b : Output(v, ops, block, b).acc = b
  BY DEF Output
<1>2. \A v, b : ThinkingDelta(v, b).acc = [b EXCEPT !.thought = TRUE]
  BY <1>1 DEF ThinkingDelta
<1>3. \A v, b, t : TextDelta(v, b, t).acc = [b EXCEPT !.text = t]
  BY <1>1 DEF TextDelta
<1>4. CASE d = ThinkingDelta(w, a)
  <2>1. d.acc = [a EXCEPT !.thought = TRUE]
    BY <1>2, <1>4
  <2>. QED
    BY <2>1 DEF Accumulators
<1>5. ASSUME NEW t \in NextText[a.text], d = TextDelta(w, a, t)
      PROVE  d.acc \in Accumulators /\ d.acc.stopped = a.stopped /\ d.acc.tool = a.tool
  <2>1. d.acc = [a EXCEPT !.text = t]
    BY <1>3, <1>5
  <2>2. t \in DOMAIN NextText
    BY TextGoesOn DEF Accumulators
  <2>. QED
    BY <2>1, <2>2 DEF Accumulators
<1>6. ASSUME NEW t \in NextText[a.text], d = ThinkingTextDelta(w, a, t)
      PROVE  d.acc \in Accumulators /\ d.acc.stopped = a.stopped /\ d.acc.tool = a.tool
  <2>1. d.acc = TextDelta(ThinkingDelta(w, a).w, ThinkingDelta(w, a).acc, t).acc
    BY <1>6 DEF ThinkingTextDelta, Then
  <2>2. d.acc = [ThinkingDelta(w, a).acc EXCEPT !.text = t]
    BY <1>3, <2>1
  <2>3. d.acc = [[a EXCEPT !.thought = TRUE] EXCEPT !.text = t]
    BY <1>2, <2>2
  <2>4. t \in DOMAIN NextText
    BY TextGoesOn DEF Accumulators
  <2>. QED
    BY <2>3, <2>4 DEF Accumulators
<1>. QED
  BY <1>4, <1>5, <1>6 DEF Content

\* A delta changes neither the types nor the stop.
LEMMA DeltasKeep ==
  ASSUME NEW a \in Accumulators, NEW stop, NEW d \in Deltas(NewWriter, a, stop)
  PROVE  d.acc \in Accumulators /\ d.acc.stopped = a.stopped
<1>1. \A w, ops, block, b : Output(w, ops, block, b).acc = b
  BY DEF Output
<1>2. CASE d = RedactedDelta(NewWriter, a)
  <2>1. d.acc = [a EXCEPT !.thought = TRUE]
    BY <1>2 DEF RedactedDelta, Output
  <2>. QED
    BY <2>1 DEF Accumulators
<1>3. CASE d = ToolUseDelta(NewWriter, a)
  <2>1. d.acc = [a EXCEPT !.tool = TRUE]
    BY <1>1, <1>3 DEF ToolUseDelta
  <2>. QED
    BY <2>1 DEF Accumulators
<1>4. CASE d \in Content(NewWriter, a, {"text", "thinking"})
  BY <1>4, ContentKeepsAll
<1>5. CASE d = Silent(NewWriter, a)
  BY <1>5 DEF Silent
<1>6. ASSUME NEW kinds \in (SUBSET {"text", "thinking"}) \ {{}},
             d = Silent(NewWriter, [a EXCEPT !.held = kinds])
      PROVE  d.acc \in Accumulators /\ d.acc.stopped = a.stopped
  <2>1. d.acc = [a EXCEPT !.held = kinds]
    BY <1>6 DEF Silent
  <2>. QED
    BY <2>1 DEF Accumulators
<1>. QED
  BY <1>2, <1>3, <1>4, <1>5, <1>6 DEF Deltas

\* A content frame records no tool call and takes no stop back.
LEMMA ContentKeeps ==
  ASSUME acc \in Accumulators, ContentFrame
  PROVE  acc' \in Accumulators /\ acc'.tool = acc.tool /\ (acc.stopped => acc'.stopped)
<1>1. CASE UNCHANGED acc
  BY <1>1
<1>2. ASSUME NEW stop \in BOOLEAN, NEW d \in Deltas(NewWriter, acc, stop),
             d.acc.tool = acc.tool, acc' = [d.acc EXCEPT !.stopped = @ \/ stop]
      PROVE  acc' \in Accumulators /\ acc'.tool = acc.tool /\ (acc.stopped => acc'.stopped)
  <2>1. d.acc \in Accumulators /\ d.acc.stopped = acc.stopped
    BY DeltasKeep
  <2>. QED
    BY <1>2, <2>1 DEF Accumulators
<1>. QED
  BY <1>1, <1>2 DEF ContentFrame

\* Finalizing records no tool call and takes no stop back.
LEMMA FinalizeKeeps ==
  ASSUME NEW a \in Accumulators, NEW d \in Flushed(NewWriter, a), NEW stop \in BOOLEAN
  PROVE  LET b == AfterFinalize(d.acc, stop)
         IN b \in Accumulators /\ b.tool = a.tool /\ (a.stopped => b.stopped)
<1>1. d.acc \in Accumulators /\ d.acc.stopped = a.stopped /\ d.acc.tool = a.tool
  <2>1. CASE d = Silent(NewWriter, a)
    BY <2>1 DEF Silent
  <2>2. CASE d \in Content(NewWriter, a, a.held)
    BY <2>2, ContentKeepsAll
  <2>. QED
    BY <2>1, <2>2 DEF Flushed
<1>. QED
  BY <1>1 DEF AfterFinalize, Accumulators

\* The calls that reach the callback are told apart: the proxy's own are kept by name, the
\* others recorded, and the response is the client's to answer if it holds one of those.
LEMMA CallbackKeeps ==
  ASSUME acc \in Accumulators, calls \in Seq(Call), caught \in Seq(Intercepted),
         acc.tool <=> calls # <<>>,
         NEW events \in Seq(Call), processToolUseEvents(events)
  PROVE  /\ acc' \in Accumulators /\ calls' \in Seq(Call) /\ caught' \in Seq(Intercepted)
         /\ acc'.tool <=> calls' # <<>>
         /\ Members(calls) \subseteq Members(calls')
         /\ Members(calls') \subseteq Members(calls) \cup Members(events)
         /\ Members(caught) \subseteq Members(caught')
         /\ ~acc'.stopped =>
              /\ ~acc.stopped
              /\ \A c \in Members(events) :
                   IF Dropped(c) THEN c.name \in Members(caught') ELSE c \in Members(calls')
<1>1. PICK e \in Taken(events) :
        LET found == Found(e.events)
        IN /\ calls' = calls \o Own(e.events)
           /\ acc' = [acc EXCEPT !.tool = @ \/ HasToolUse(e.events), !.stopped = @ \/ e.stop]
           /\ caught' = caught \o [i \in DOMAIN found |-> found[i].name]
  BY DEF processToolUseEvents
<1>. DEFINE taken == e.events
            found == Found(taken)
            names == [i \in DOMAIN found |-> found[i].name]
<1>2. taken \in Seq(Call) /\ Members(taken) \subseteq Members(events) /\ e.stop \in BOOLEAN
  <2>1. <<>> \in Seq(Call) /\ Members(<<>>) = {}
    BY AllBefore
  <2>2. CASE acc.stopped
    <3>1. e = [events |-> <<>>, stop |-> FALSE]
      BY <1>1, <2>2 DEF Taken
    <3>2. taken = <<>> /\ e.stop = FALSE
      BY <3>1
    <3>. HIDE DEF taken
    <3>. QED
      BY <2>1, <3>2
  <2>3. CASE ~acc.stopped
    <3>1. CASE e = [events |-> events, stop |-> FALSE]
      BY <3>1
    <3>2. CASE \E k \in DOMAIN events : e = [events |-> SubSeq(events, 1, k), stop |-> TRUE]
      <4>1. DOMAIN events = 1..Len(events)
        BY LenProperties
      <4>. QED
        BY <3>2, <4>1, MembersOfFirst
    <3>. QED
      BY <1>1, <2>3, <3>1, <3>2 DEF Taken
  <2>. QED
    BY <2>2, <2>3
<1>3. ~acc.stopped /\ ~e.stop => taken = events
  BY <1>1 DEF Taken
<1>4. /\ Own(taken) \in Seq(Call) /\ Members(Own(taken)) = {c \in Members(taken) : ~Dropped(c)}
      /\ found \in Seq(Call) /\ Members(found) = {c \in Members(taken) : isIntercepted(c)}
  <2>1. Members(taken) \subseteq Call
    BY <1>2, MembersOf
  <2>. HIDE DEF taken
  <2>2. \A T : Only(taken, T) \in Seq(Call) /\ Members(Only(taken, T)) = Members(taken) \cap T
    BY <1>2, OnlyKeeps
  <2>. QED
    BY <2>2 DEF Own, Found
<1>5. names \in Seq(Intercepted) /\ Members(names) = {c.name : c \in Members(found)}
  <2>1. DOMAIN found = 1..Len(found) /\ Len(found) \in Nat /\ \A i \in DOMAIN found : found[i] \in Members(found)
    BY <1>4, LenProperties DEF Members
  <2>2. \A c \in Members(found) : c.name \in Intercepted
    BY <1>4 DEF isIntercepted
  <2>. HIDE DEF found
  <2>3. names \in [1..Len(found) -> Intercepted]
    BY <2>1, <2>2
  <2>4. names \in Seq(Intercepted) /\ DOMAIN names = DOMAIN found
    BY <2>1, <2>3
  <2>5. Members(names) = {c.name : c \in Members(found)}
    BY <2>4 DEF Members
  <2>. QED
    BY <2>4, <2>5
<1>. HIDE DEF taken, found, names
<1>6. calls' = calls \o Own(taken) /\ caught' = caught \o names
  BY <1>1 DEF taken, found, names
<1>7. /\ calls' \in Seq(Call) /\ Members(calls') = Members(calls) \cup Members(Own(taken))
      /\ caught' \in Seq(Intercepted) /\ Members(caught') = Members(caught) \cup Members(names)
  BY <1>4, <1>5, <1>6, MembersOf, ConcatProperties
<1>8. acc' \in Accumulators /\ acc'.tool = (acc.tool \/ HasToolUse(taken)) /\ acc'.stopped = (acc.stopped \/ e.stop)
  <2>1. acc' = [acc EXCEPT !.tool = @ \/ HasToolUse(taken), !.stopped = @ \/ e.stop]
    BY <1>1 DEF taken
  <2>2. HasToolUse(taken) \in BOOLEAN
    BY DEF HasToolUse
  <2>. QED
    BY <1>2, <2>1, <2>2 DEF Accumulators
<1>9. acc'.tool <=> calls' # <<>>
  <2>1. HasToolUse(taken) <=> Members(Own(taken)) # {}
    BY <1>4, MembersOf DEF HasToolUse
  <2>2. calls' # <<>> <=> Members(calls') # {}
    BY <1>7, MembersOf
  <2>3. calls # <<>> <=> Members(calls) # {}
    BY MembersOf
  <2>. QED
    BY <1>7, <1>8, <2>1, <2>2, <2>3
<1>10. ASSUME ~acc'.stopped, NEW c \in Members(events)
       PROVE  IF Dropped(c) THEN c.name \in Members(caught') ELSE c \in Members(calls')
  <2>1. taken = events
    BY <1>3, <1>8, <1>10
  <2>2. CASE Dropped(c)
    <3>1. c \in Members(found)
      BY <1>4, <2>1, <2>2 DEF Dropped
    <3>. QED
      BY <1>5, <1>7, <2>2, <3>1
  <2>3. CASE ~Dropped(c)
    BY <1>4, <1>7, <2>1, <2>3
  <2>. QED
    BY <2>2, <2>3
<1>11. Members(calls') \subseteq Members(calls) \cup Members(events)
  BY <1>2, <1>4, <1>7
<1>. QED
  BY <1>7, <1>8, <1>9, <1>10, <1>11

-----------------------------------------------------------------------------
(***************************************************************************)
(* Types.  A round needs a unit of a budget, so that there are no more     *)
(* rounds than units.                                                      *)
(***************************************************************************)
BufferedTypeInv ==
  /\ BufferedTypeOK
  /\ tool \in Call /\ calls \in Seq(Call)
  /\ round <= budget.tools + budget.web

\* An empty accumulator has the type of a call.
LEMMA NoToolIsCall == NoTool \in Call /\ NoTool.id = 0
<1>. DEFINE z == 0
            n == ""
            e == <<>>
<1>1. z \in Nat /\ n \in STRING \cup {""} /\ e \in Seq(STRING)
  <2>1. e \in Seq(STRING)
    OBVIOUS
  <2>2. n \in STRING \cup {""}
    OBVIOUS
  <2>. QED
    BY <2>1, <2>2
<1>2. NoTool = [id |-> z, name |-> n, input |-> e] /\ NoTool.id = 0
  BY DEF NoTool
<1>. HIDE DEF z, n, e
<1>. QED
  BY <1>1, <1>2 DEF Call

\* A new response has no tool call.
LEMMA NewAccumulatorIs == NewAccumulator \in Accumulators /\ NewAccumulator.tool = FALSE
<1>1. "none" \in DOMAIN NextText
  BY DEF NextText
<1>. QED
  BY <1>1 DEF NewAccumulator, Accumulators

\* A frame completes calls.
LEMMA UpdateTyped ==
  ASSUME sent \in Seq(ToolFrames), tool \in Call, NEW f \in ToolFrames
  PROVE  update(tool, f).tool \in Call /\ update(tool, f).events \in Seq(Call)
<1>1. f.id \in Nat /\ f.name \in STRING /\ f.input \in Seq(STRING)
  <2>1. f.id \in 0..99 /\ 0..99 \subseteq Nat
    BY EventStreamAssumption
  <2>. QED
    BY <2>1, EventStreamAssumption
<1>2. NewUUID \in Nat
  BY LenProperties DEF NewUUID
<1>3. Begin(tool, f) \in Call
  BY <1>1, <1>2, NoToolIsCall DEF Begin, Call
<1>4. Now(f) \in Call
  <2>. DEFINE b == Begin(tool, f)
  <2>1. b.input \o f.input \in Seq(STRING)
    BY <1>1, <1>3, ConcatProperties DEF Call
  <2>2. Now(f) = Collect(b, f)
    BY DEF Now
  <2>. HIDE DEF b
  <2>3. Collect(b, f) \in Call
    BY <1>1, <1>3, <2>1 DEF Collect, Call, b
  <2>. QED
    BY <2>2, <2>3
<1>5. update(tool, f).tool \in Call
  BY <1>4, NoToolIsCall DEF update, Now
<1>6. update(tool, f).events \in Seq(Call)
  <2>. DEFINE p == IF isNewTool(tool, f) /\ tool.id # 0 THEN <<tool>> ELSE <<>>
              q == IF f.stop THEN <<Now(f)>> ELSE <<>>
  <2>1. <<>> \in Seq(Call) /\ <<tool>> \in Seq(Call) /\ <<Now(f)>> \in Seq(Call)
    BY <1>4
  <2>2. p \in Seq(Call) /\ q \in Seq(Call)
    BY <2>1
  <2>3. update(tool, f).events = p \o q
    BY DEF update, Now
  <2>. HIDE DEF p, q
  <2>. QED
    BY <2>2, <2>3, ConcatProperties
<1>. QED
  BY <1>5, <1>6

\* The end of a body completes calls.
LEMMA FlushTyped == tool \in Call => flush(tool) \in Seq(Call)
<1>1. <<>> \in Seq(Call) /\ (tool \in Call => <<tool>> \in Seq(Call))
  OBVIOUS
<1>. QED
  BY <1>1 DEF flush

\* A reply keeps the types.
LEMMA ReplyTypes ==
  ASSUME BufferedTypeInv, NEW kind, NEW stop, Reply(kind, stop),
         UNCHANGED <<searching, attempt, called>>,
         round' \in 0..maxRounds, budget' \in [tools : 0..maxToolSearchRounds, web : 0..maxWebSearchRounds],
         round' <= budget'.tools + budget'.web
  PROVE  BufferedTypeInv'
<1>1. <<>> \in Seq(ToolFrames) /\ <<>> \in Seq(Call) /\ 0 \in 0..MaxFrames
  BY EventStreamAssumption
<1>. QED
  BY <1>1, NoToolIsCall DEF Reply, BufferedTypeInv, BufferedTypeOK, maxRounds

\* Forgetting the response keeps the types.
LEMMA ForgetTypes ==
  ASSUME BufferedTypeInv, Forget, hpc' \in {"call", "parse", "retry"},
         UNCHANGED <<searching, attempt, called>>,
         round' \in 0..maxRounds, budget' \in [tools : 0..maxToolSearchRounds, web : 0..maxWebSearchRounds],
         round' <= budget'.tools + budget'.web
  PROVE  BufferedTypeInv'
<1>1. /\ <<>> \in Seq(ToolFrames) /\ <<>> \in Seq(Call) /\ <<>> \in Seq(Intercepted) /\ 0 \in 0..MaxFrames
  BY EventStreamAssumption
<1>. QED
  BY <1>1, NoToolIsCall, NewAccumulatorIs DEF Forget, Open, BufferedTypeInv, BufferedTypeOK, maxRounds

\* A round of searches spends at least one unit of its budget, and no more than there are.
LEMMA SearchSpends ==
  ASSUME BufferedTypeInv, Search
  PROVE  /\ round' \in 0..maxRounds /\ budget' \in [tools : 0..maxToolSearchRounds, web : 0..maxWebSearchRounds]
         /\ round' <= budget'.tools + budget'.web /\ round' # 0
<1>. DEFINE left == maxToolSearchRounds - budget.tools
<1>1. /\ maxToolSearchRounds \in Nat /\ maxWebSearchRounds \in Nat
      /\ budget.tools \in 0..maxToolSearchRounds /\ budget.web \in 0..maxWebSearchRounds
      /\ round \in Nat /\ round <= budget.tools + budget.web
  BY BufferedAssumption DEF BufferedTypeInv, BufferedTypeOK, maxRounds
<1>2. Count("ToolSearch") \in Nat
  <2>1. DOMAIN caught = 1..Len(caught) /\ Len(caught) \in Nat
    BY LenProperties DEF BufferedTypeInv, BufferedTypeOK
  <2>2. IsFiniteSet(DOMAIN caught)
    BY <2>1, FS_Interval
  <2>3. IsFiniteSet({i \in DOMAIN caught : caught[i] = "ToolSearch"})
    BY <2>2, FS_Subset
  <2>. QED
    BY <2>3, FS_CardinalityType DEF Count
<1>3. allowToolSearch = IF Count("ToolSearch") <= left THEN Count("ToolSearch") ELSE left
  BY DEF allowToolSearch
<1>4. left \in Nat /\ allowToolSearch \in 0..left
  BY <1>1, <1>2, <1>3
<1>5. allowWebSearchRound => budget.web < maxWebSearchRounds
  BY DEF allowWebSearchRound
<1>6. PICK web \in (IF allowWebSearchRound THEN {budget.web + 1, maxWebSearchRounds} ELSE {budget.web}) :
        budget' = [tools |-> budget.tools + allowToolSearch, web |-> web]
  BY DEF Search
<1>7. /\ web \in 0..maxWebSearchRounds /\ web >= budget.web
      /\ allowWebSearchRound => web >= budget.web + 1
  <2>1. CASE allowWebSearchRound
    BY <1>1, <1>5, <1>6, <2>1
  <2>2. CASE ~allowWebSearchRound
    BY <1>1, <1>6, <2>2
  <2>. QED
    BY <2>1, <2>2
<1>8. allowToolSearch > 0 \/ allowWebSearchRound
  BY DEF Search, Planned
<1>9. budget.tools + allowToolSearch \in 0..maxToolSearchRounds
  BY <1>1, <1>4
<1>10. round + 1 <= (budget.tools + allowToolSearch) + web
  BY <1>1, <1>4, <1>7, <1>8
<1>11. round' = round + 1
  BY DEF Search
<1>12. maxRounds = maxToolSearchRounds + maxWebSearchRounds
  BY DEF maxRounds
<1>. QED
  BY <1>1, <1>6, <1>7, <1>9, <1>10, <1>11, <1>12

\* Every step keeps the types.
LEMMA BufferedTypeStep ==
  BufferedTypeInv /\ (hpc \in {"parse", "judge"} => (acc.tool <=> calls # <<>>)) /\ [BufferedNext]_allVars
    => BufferedTypeInv'
<1>. SUFFICES ASSUME BufferedTypeInv, hpc \in {"parse", "judge"} => (acc.tool <=> calls # <<>>),
                     [BufferedNext]_allVars
              PROVE  BufferedTypeInv'
  OBVIOUS
<1>0. /\ round \in 0..maxRounds /\ budget \in [tools : 0..maxToolSearchRounds, web : 0..maxWebSearchRounds]
      /\ round <= budget.tools + budget.web
  BY DEF BufferedTypeInv, BufferedTypeOK
<1>1. ASSUME ReplyError PROVE BufferedTypeInv'
  BY <1>0, <1>1, ReplyTypes DEF ReplyError
<1>2. CASE CallSucceeds \/ RetryableState \/ DiscardEmpty
  BY <1>0, <1>2, ForgetTypes DEF CallSucceeds, RetryableState, DiscardEmpty
<1>3. CASE ContentFrame
  <2>1. acc' \in Accumulators
    BY <1>3, ContentKeeps DEF BufferedTypeInv, BufferedTypeOK
  <2>. QED
    BY <1>3, <2>1, EventStreamAssumption DEF ContentFrame, OtherFrame, BufferedTypeInv, BufferedTypeOK, maxRounds
<1>4. ASSUME NEW f \in ToolFrames, ToolUseFrame(f) PROVE BufferedTypeInv'
  <2>1. update(tool, f).tool \in Call /\ update(tool, f).events \in Seq(Call)
    BY UpdateTyped DEF BufferedTypeInv, BufferedTypeOK
  <2>2. acc' \in Accumulators /\ calls' \in Seq(Call) /\ caught' \in Seq(Intercepted)
    BY <1>4, <2>1, CallbackKeeps DEF ToolUseFrame, BufferedTypeInv, BufferedTypeOK
  <2>3. sent' \in Seq(ToolFrames)
    BY <1>4, AppendProperties DEF ToolUseFrame, ToolFrame, BufferedTypeInv, BufferedTypeOK
  <2>4. read' \in 0..MaxFrames
    BY <1>4, EventStreamAssumption DEF ToolUseFrame, ToolFrame, BufferedTypeInv, BufferedTypeOK
  <2>. QED
    BY <1>4, <2>1, <2>2, <2>3, <2>4
       DEF ToolUseFrame, ToolFrame, processToolUseEvents, BufferedTypeInv, BufferedTypeOK, maxRounds
<1>5. CASE ErrorFrame
  BY <1>5 DEF ErrorFrame, ErrorEvent, BufferedTypeInv, BufferedTypeOK, maxRounds
<1>6. ASSUME NEW ending \in Endings, ResponseEnds(ending) PROVE BufferedTypeInv'
  <2>. DEFINE events == IF Failed(ending) THEN <<>> ELSE flush(tool)
  <2>1. events \in Seq(Call)
    <3>1. <<>> \in Seq(Call)
      OBVIOUS
    <3>. QED
      BY <3>1, FlushTyped DEF BufferedTypeInv
  <2>2. processToolUseEvents(events)
    BY <1>6 DEF ResponseEnds
  <2>. HIDE DEF events
  <2>3. acc' \in Accumulators /\ calls' \in Seq(Call) /\ caught' \in Seq(Intercepted)
    BY <1>6, <2>1, <2>2, CallbackKeeps DEF ResponseEnds, BufferedTypeInv, BufferedTypeOK
  <2>4. tool' \in Call
    BY <1>6, NoToolIsCall DEF ResponseEnds, BodyEnds, BufferedTypeInv
  <2>. QED
    BY <1>6, <2>2, <2>3, <2>4
       DEF ResponseEnds, BodyEnds, processToolUseEvents, BufferedTypeInv, BufferedTypeOK, maxRounds
<1>7. CASE BuildResponse
  <2>1. calls' \in Seq(Call)
    BY <1>7, Deduplicated DEF BuildResponse, BufferedTypeInv
  <2>2. acc' \in Accumulators
    BY <1>7, FinalizeKeeps DEF BuildResponse, BufferedTypeInv, BufferedTypeOK
  <2>3. called' \in BOOLEAN
    BY <1>7 DEF BuildResponse, BufferedTypeInv, BufferedTypeOK
  <2>. QED
    BY <1>7, <2>1, <2>2, <2>3 DEF BuildResponse, streamVars, BufferedTypeInv, BufferedTypeOK, maxRounds
<1>8. CASE Search
  <2>1. /\ round' \in 0..maxRounds /\ budget' \in [tools : 0..maxToolSearchRounds, web : 0..maxWebSearchRounds]
        /\ round' <= budget'.tools + budget'.web
    BY <1>8, SearchSpends
  <2>2. CASE round' < maxRounds
    BY <1>8, <2>1, <2>2, ForgetTypes DEF Search
  <2>3. CASE ~(round' < maxRounds)
    BY <1>8, <2>1, <2>3, ReplyTypes DEF Search
  <2>. QED
    BY <2>2, <2>3
<1>9. CASE Deliver
  BY <1>0, <1>9, ReplyTypes DEF Deliver
<1>10. CASE Retry
  <2>1. 0 \in 0..maxRounds /\ 0 \in 0..maxToolSearchRounds /\ 0 \in 0..maxWebSearchRounds
    BY BufferedAssumption DEF maxRounds
  <2>2. /\ newRoundBudget \in [tools : 0..maxToolSearchRounds, web : 0..maxWebSearchRounds]
        /\ 0 <= newRoundBudget.tools + newRoundBudget.web
    BY <2>1 DEF newRoundBudget
  <2>3. 2 \in 1..2 /\ FALSE \in BOOLEAN
    OBVIOUS
  <2>. QED
    BY <1>10, <2>1, <2>2, <2>3 DEF Retry, streamVars, BufferedTypeInv, BufferedTypeOK, maxRounds
<1>11. CASE UNCHANGED allVars
  BY <1>11 DEF allVars, bufferedVars, streamVars, BufferedTypeInv, BufferedTypeOK, maxRounds
<1>. QED
  BY <1>1, <1>2, <1>3, <1>4, <1>5, <1>6, <1>7, <1>8, <1>9, <1>10, <1>11
     DEF BufferedNext, BufferedStep, BufferedDone, CallFails, ResponseFails, PlanFails, RetryFails

-----------------------------------------------------------------------------
(***************************************************************************)
(* The inductive invariant.  What AnsweredOnce says of the end of a        *)
(* request rests on what its steps leave behind: nothing is written ahead  *)
(* of the end, a response is judged only when its body has ended, and only *)
(* a usable one is built into a message.                                   *)
(***************************************************************************)
NothingWrittenAhead == hpc # "done" => replies = <<>>

\* A response is judged when its body has ended.
BodyFollowed ==
  /\ hpc = "parse" => body = "open"
  /\ hpc = "judge" => body \in {"stopped"} \cup Endings

\* Only a usable response is built.
BuiltFromUsable == hpc = "built" => body \in {"eof", "cut"} \/ caught # <<>>

\* At the end there is one answer, and a message has a reason.
Answer ==
  hpc = "done" =>
    /\ Len(replies) = 1
    /\ replies[1].kind = "message" =>
         /\ body \in {"eof", "cut"} \/ caught # <<>>
         /\ round < maxRounds => ~IsEmptyVisibleEndTurn(acc)

\* The parts together.
AnsweredInv == NothingWrittenAhead /\ BodyFollowed /\ BuiltFromUsable /\ Answer

(***************************************************************************)
(* One reply behind none is the only one.                                  *)
(***************************************************************************)
LEMMA OnlyReply ==
  ASSUME NEW r
  PROVE  Len(Append(<<>>, r)) = 1 /\ Append(<<>>, r)[1] = r
<1>1. <<>> \in Seq({r}) /\ r \in {r}
  OBVIOUS
<1>. QED
  BY <1>1

(***************************************************************************)
(* The invariant implies the property.                                     *)
(***************************************************************************)
LEMMA AnsweredInvImplies == AnsweredInv => AnsweredOnce
BY DEF AnsweredInv, NothingWrittenAhead, Answer, AnsweredOnce

(***************************************************************************)
(* A reply ends the request with the one answer it has.                    *)
(***************************************************************************)
LEMMA ReplyAnswers ==
  ASSUME AnsweredInv, hpc # "done", NEW kind, NEW stop, Reply(kind, stop),
         kind = "message" =>
           /\ body \in {"eof", "cut"} \/ caught # <<>>
           /\ round' < maxRounds => ~IsEmptyVisibleEndTurn(acc)
  PROVE  AnsweredInv'
<1>1. hpc' = "done" /\ body' = body /\ acc' = acc /\ caught' = caught
  BY DEF Reply
<1>2. Len(replies') = 1 /\ replies'[1].kind = kind
  <2>. DEFINE r == [kind |-> kind, stop |-> stop]
  <2>1. replies' = Append(<<>>, r)
    BY DEF Reply, AnsweredInv, NothingWrittenAhead
  <2>2. Len(Append(<<>>, r)) = 1 /\ Append(<<>>, r)[1] = r
    BY OnlyReply
  <2>3. r.kind = kind
    OBVIOUS
  <2>. QED
    BY <2>1, <2>2, <2>3
<1>3. Answer'
  BY <1>1, <1>2 DEF Answer, maxRounds, IsEmptyVisibleEndTurn
<1>. QED
  BY <1>1, <1>3 DEF AnsweredInv, NothingWrittenAhead, BodyFollowed, BuiltFromUsable

\* An error answers the request.
LEMMA ErrorAnswers ==
  ASSUME AnsweredInv, hpc # "done", ReplyError
  PROVE  AnsweredInv'
<1>1. Reply("error", "") /\ "error" # "message"
  BY DEF ReplyError
<1>. QED
  BY <1>1, ReplyAnswers

(***************************************************************************)
(* Every step keeps the invariant.                                         *)
(***************************************************************************)
LEMMA AnsweredStep == AnsweredInv /\ [BufferedNext]_allVars => AnsweredInv'
<1>. SUFFICES ASSUME AnsweredInv, [BufferedNext]_allVars PROVE AnsweredInv'
  OBVIOUS
<1>. USE DEF AnsweredInv, NothingWrittenAhead, BodyFollowed, BuiltFromUsable, Answer
<1>1. CASE CallFails
  BY <1>1, ErrorAnswers DEF CallFails
<1>2. CASE CallSucceeds
  BY <1>2 DEF CallSucceeds, Forget, Open
<1>3. CASE ContentFrame
  BY <1>3 DEF ContentFrame, OtherFrame
<1>4. ASSUME NEW f \in ToolFrames, ToolUseFrame(f) PROVE AnsweredInv'
  BY <1>4 DEF ToolUseFrame, ToolFrame, processToolUseEvents
<1>5. CASE ErrorFrame
  BY <1>5 DEF ErrorFrame, ErrorEvent
<1>6. ASSUME NEW ending \in Endings, ResponseEnds(ending) PROVE AnsweredInv'
  BY <1>6 DEF ResponseEnds, BodyEnds, processToolUseEvents
<1>7. CASE BuildResponse
  BY <1>7 DEF BuildResponse, Usable, Failed, Endings, streamVars
<1>8. CASE ResponseFails
  BY <1>8, ErrorAnswers DEF ResponseFails
<1>9. CASE RetryableState
  BY <1>9 DEF RetryableState, Forget, Open
<1>10. CASE PlanFails
  BY <1>10, ErrorAnswers DEF PlanFails
<1>11. CASE Search
  <2>1. CASE round' < maxRounds
    BY <1>11, <2>1 DEF Search, Forget, Open
  <2>2. CASE ~(round' < maxRounds)
    BY <1>11, <2>2, ReplyAnswers DEF Search
  <2>. QED
    BY <2>1, <2>2
<1>12. CASE DiscardEmpty
  BY <1>12 DEF DiscardEmpty, Forget, Open
<1>13. CASE Deliver
  BY <1>13, ReplyAnswers DEF Deliver
<1>14. CASE Retry
  BY <1>14 DEF Retry, streamVars
<1>15. CASE RetryFails
  BY <1>15, ErrorAnswers DEF RetryFails
<1>16. CASE UNCHANGED allVars
  BY <1>16 DEF allVars, bufferedVars, streamVars, maxRounds, IsEmptyVisibleEndTurn
<1>. QED
  BY <1>1, <1>2, <1>3, <1>4, <1>5, <1>6, <1>7, <1>8, <1>9, <1>10, <1>11, <1>12, <1>13, <1>14,
     <1>15, <1>16 DEF BufferedNext, BufferedStep, BufferedDone

-----------------------------------------------------------------------------
(***************************************************************************)
(* Calls.  While a response is read, what is recorded was told by the      *)
(* frames so far, and each call that is over is kept, unless the response  *)
(* was stopped; once the body has ended, that holds for all its calls.     *)
(***************************************************************************)
Kept(c) == \/ c.id = 0
           \/ IF Dropped(c) THEN c.name \in Members(caught) ELSE c \in Members(calls)

\* While the body is read.
ParsedCalls ==
  hpc = "parse" =>
    /\ body = "open" /\ Holds(sent, tool)
    /\ Members(calls) \subseteq Over(sent)
    /\ ~acc.stopped => \A c \in Over(sent) : Kept(c)

\* Once it has ended.
JudgedCalls ==
  hpc = "judge" =>
    /\ Members(calls) \subseteq SentCalls(sent)
    /\ Whole => \A c \in SentCalls(sent) : Kept(c)

\* With the two properties, which are about what is built.
CallsInv == ParsedCalls /\ JudgedCalls /\ CallsFaithful /\ NoCallLost

(***************************************************************************)
(* The invariant on the stop reason: it is tool_use for a response that    *)
(* holds a call, and a request without tool calls so far has none to tell. *)
(***************************************************************************)
StopInv ==
  /\ hpc \in {"parse", "judge", "built"} => (acc.tool <=> calls # <<>>)
  /\ hpc = "built" => (calls # <<>> => called) /\ (round = 0 /\ called => calls # <<>>)
  /\ hpc \in {"call", "parse", "judge"} /\ round = 0 => ~called
  /\ StopReasonTrue

\* A step out of the response says nothing of its calls.
LEMMA CallsStay ==
  ASSUME hpc' \notin {"parse", "judge", "built"}
  PROVE  CallsInv'
BY DEF CallsInv, ParsedCalls, JudgedCalls, CallsFaithful, NoCallLost

(***************************************************************************)
(* The callback keeps what it is told, and what was kept before.           *)
(***************************************************************************)
LEMMA CallbackRecords ==
  ASSUME BufferedTypeInv, acc.tool <=> calls # <<>>,
         NEW events \in Seq(Call), processToolUseEvents(events)
  PROVE  /\ Members(calls') \subseteq Members(calls) \cup Members(events)
         /\ ~acc'.stopped => ~acc.stopped
         /\ ~acc'.stopped => \A c : Kept(c) \/ c \in Members(events) => Kept(c)'
<1>1. /\ Members(calls) \subseteq Members(calls')
      /\ Members(calls') \subseteq Members(calls) \cup Members(events)
      /\ Members(caught) \subseteq Members(caught')
      /\ ~acc'.stopped =>
           /\ ~acc.stopped
           /\ \A c \in Members(events) :
                IF Dropped(c) THEN c.name \in Members(caught') ELSE c \in Members(calls')
  BY CallbackKeeps DEF BufferedTypeInv, BufferedTypeOK
<1>2. searching' = searching
  BY DEF processToolUseEvents
<1>3. \A c : Kept(c)' <=>
        \/ c.id = 0
        \/ IF Dropped(c) THEN c.name \in Members(caught') ELSE c \in Members(calls')
  BY <1>2 DEF Kept, Dropped, isIntercepted, Members
<1>. QED
  BY <1>1, <1>3 DEF Kept

\* A response begins with no call.
LEMMA CallsBegin ==
  ASSUME CallSucceeds
  PROVE  CallsInv'
<1>1. Over(<<>>) = {}
  <2>1. Len(<<>>) = 0
    OBVIOUS
  <2>2. \A c : c \notin Over(<<>>)
    BY <2>1, OverIs
  <2>. QED
    BY <2>2
<1>2. Members(<<>>) = {}
  BY DEF Members
<1>3. Holds(<<>>, NoTool)
  BY DEF Holds
<1>4. hpc' = "parse" /\ sent' = <<>> /\ tool' = NoTool /\ calls' = <<>> /\ body' = "open"
  BY DEF CallSucceeds, Forget, Open
<1>5. ParsedCalls'
  BY <1>1, <1>2, <1>3, <1>4 DEF ParsedCalls
<1>. QED
  BY <1>4, <1>5 DEF CallsInv, JudgedCalls, CallsFaithful, NoCallLost

\* A tool frame keeps the calls.
LEMMA FrameKeeps ==
  ASSUME BufferedTypeInv, StopInv, ParsedCalls, NEW f \in ToolFrames, ToolUseFrame(f)
  PROVE  CallsInv'
<1>. DEFINE events == update(tool, f).events
            now == Append(sent, f)
<1>1. hpc = "parse" /\ hpc' = "parse" /\ body' = "open" /\ sent' = now /\ tool' = update(tool, f).tool
  BY DEF ToolUseFrame, ToolFrame
<1>2. sent \in Seq(ToolFrames) /\ Holds(sent, tool) /\ Members(calls) \subseteq Over(sent)
  BY <1>1 DEF ParsedCalls, BufferedTypeInv, BufferedTypeOK
<1>3. events \in Seq(Call)
  BY <1>2, UpdateTyped DEF BufferedTypeInv
<1>4. acc.tool <=> calls # <<>>
  BY <1>1 DEF StopInv
<1>5. processToolUseEvents(events)
  BY DEF ToolUseFrame
<1>6. /\ Over(sent) \cup Members(events) \subseteq Over(now)
      /\ \A c \in Over(now) : c \in Over(sent) \/ c \in Members(events) \/ c.id = 0
  BY <1>2, FrameTells
<1>7. Holds(now, tool')
  BY <1>1, <1>2, FrameHeld
<1>. HIDE DEF events, now
<1>8. /\ Members(calls') \subseteq Members(calls) \cup Members(events)
      /\ ~acc'.stopped => ~acc.stopped
      /\ ~acc'.stopped => \A c : Kept(c) \/ c \in Members(events) => Kept(c)'
  BY <1>3, <1>4, <1>5, CallbackRecords
<1>9. Members(calls') \subseteq Over(now)
  BY <1>2, <1>6, <1>8
<1>10. ~acc'.stopped => \A c \in Over(now) : Kept(c)'
  <2>1. \A c : c.id = 0 => Kept(c)'
    BY DEF Kept
  <2>2. ~acc.stopped => \A c \in Over(sent) : Kept(c)
    BY <1>1 DEF ParsedCalls
  <2>. QED
    BY <1>6, <1>8, <2>1, <2>2
<1>11. ParsedCalls'
  BY <1>1, <1>7, <1>9, <1>10 DEF ParsedCalls
<1>. QED
  BY <1>1, <1>11 DEF CallsInv, JudgedCalls, CallsFaithful, NoCallLost

\* The end of a body keeps the calls.
LEMMA EndKeeps ==
  ASSUME BufferedTypeInv, StopInv, ParsedCalls, NEW ending \in Endings, ResponseEnds(ending)
  PROVE  CallsInv'
<1>. DEFINE events == IF Failed(ending) THEN <<>> ELSE flush(tool)
<1>1. hpc = "parse" /\ hpc' = "judge" /\ body' = ending /\ sent' = sent
  BY DEF ResponseEnds, BodyEnds
<1>2. sent \in Seq(ToolFrames) /\ Holds(sent, tool) /\ Members(calls) \subseteq Over(sent)
  BY <1>1 DEF ParsedCalls, BufferedTypeInv, BufferedTypeOK
<1>3. events \in Seq(Call)
  <2>1. <<>> \in Seq(Call)
    OBVIOUS
  <2>. QED
    BY <2>1, FlushTyped DEF BufferedTypeInv
<1>4. acc.tool <=> calls # <<>>
  BY <1>1 DEF StopInv
<1>5. processToolUseEvents(events)
  BY DEF ResponseEnds
<1>6. /\ Over(sent) \cup Members(flush(tool)) \subseteq SentCalls(sent)
      /\ \A c \in SentCalls(sent) : c \in Over(sent) \/ c \in Members(flush(tool)) \/ c.id = 0
  BY <1>2, EndTells
<1>7. Members(events) = IF Failed(ending) THEN {} ELSE Members(flush(tool))
  BY DEF Members
<1>. HIDE DEF events
<1>8. /\ Members(calls') \subseteq Members(calls) \cup Members(events)
      /\ ~acc'.stopped => ~acc.stopped
      /\ ~acc'.stopped => \A c : Kept(c) \/ c \in Members(events) => Kept(c)'
  BY <1>3, <1>4, <1>5, CallbackRecords
<1>9. Members(calls') \subseteq SentCalls(sent)
  BY <1>2, <1>6, <1>7, <1>8
<1>10. Whole' => \A c \in SentCalls(sent) : Kept(c)'
  <2>1. \A c : c.id = 0 => Kept(c)'
    BY DEF Kept
  <2>2. ~acc.stopped => \A c \in Over(sent) : Kept(c)
    BY <1>1 DEF ParsedCalls
  <2>3. Whole' => ~acc'.stopped /\ ~Failed(ending)
    BY <1>1 DEF Whole
  <2>. QED
    BY <1>6, <1>7, <1>8, <2>1, <2>2, <2>3
<1>11. JudgedCalls'
  BY <1>1, <1>9, <1>10 DEF JudgedCalls
<1>. QED
  BY <1>1, <1>11 DEF CallsInv, ParsedCalls, CallsFaithful, NoCallLost

\* Content touches no call.
LEMMA ContentKeepsCalls ==
  ASSUME BufferedTypeInv, ParsedCalls, ContentFrame
  PROVE  CallsInv'
<1>1. /\ hpc = "parse" /\ hpc' = "parse" /\ body' = body /\ sent' = sent /\ tool' = tool
      /\ calls' = calls /\ caught' = caught /\ searching' = searching
  BY DEF ContentFrame, OtherFrame
<1>2. ~acc'.stopped => ~acc.stopped
  BY ContentKeeps DEF BufferedTypeInv, BufferedTypeOK
<1>3. \A c : Kept(c)' <=> Kept(c)
  BY <1>1 DEF Kept, Dropped, isIntercepted, Members
<1>4. ParsedCalls'
  BY <1>1, <1>2, <1>3 DEF ParsedCalls
<1>. QED
  BY <1>1, <1>4 DEF CallsInv, JudgedCalls, CallsFaithful, NoCallLost

\* An error event stops the response: it is not whole.
LEMMA ErrorKeepsCalls ==
  ASSUME BufferedTypeInv, ParsedCalls, ErrorFrame
  PROVE  CallsInv'
<1>1. hpc = "parse" /\ hpc' = "judge" /\ body' = "stopped" /\ sent' = sent /\ calls' = calls
  BY DEF ErrorFrame, ErrorEvent
<1>2. Members(calls) \subseteq SentCalls(sent)
  BY <1>1, EndTells DEF ParsedCalls, BufferedTypeInv, BufferedTypeOK
<1>3. ~Whole'
  BY <1>1 DEF Whole
<1>4. JudgedCalls'
  BY <1>1, <1>2, <1>3 DEF JudgedCalls
<1>. QED
  BY <1>1, <1>4 DEF CallsInv, ParsedCalls, CallsFaithful, NoCallLost

(***************************************************************************)
(* Deduplication leaves one of the longest calls of an id, and each input  *)
(* of a tool once.                                                         *)
(***************************************************************************)
LEMMA BuildKeepsCalls ==
  ASSUME BufferedTypeInv, JudgedCalls, BuildResponse
  PROVE  CallsInv'
<1>. DEFINE told == SentCalls(sent)
<1>1. /\ hpc = "judge" /\ hpc' = "built" /\ body' = body /\ sent' = sent
      /\ caught' = caught /\ searching' = searching /\ calls' = DeduplicateToolCalls(calls)
  BY DEF BuildResponse, streamVars
<1>2. /\ calls' \in Seq(Call) /\ OneID(calls') /\ Members(calls') \subseteq Members(calls)
      /\ \A x \in Members(calls) : \E y \in Members(calls) :
           Covers(y, x) /\ \E z \in Members(calls') : SameCall(z, y)
      /\ \A x \in Members(calls), z \in Members(calls') : x.id = z.id => Covers(z, x)
  BY <1>1, Deduplicated DEF BufferedTypeInv
<1>3. Whole' => Whole
  <2>1. acc \in Accumulators
    BY DEF BufferedTypeInv, BufferedTypeOK
  <2>2. acc.stopped => acc'.stopped
    BY <2>1, FinalizeKeeps DEF BuildResponse
  <2>. QED
    BY <1>1, <2>2 DEF Whole
<1>4. Members(calls) \subseteq told /\ (Whole => \A c \in told : Kept(c))
  BY <1>1 DEF JudgedCalls
<1>5. \A c : Dropped(c)' <=> Dropped(c)
  BY <1>1 DEF Dropped, isIntercepted
<1>6. \A i \in DOMAIN calls' : calls'[i] \in Members(calls')
  BY DEF Members
<1>7. \A x \in Members(calls') : \E i \in DOMAIN calls' : calls'[i] = x
  BY DEF Members
<1>8. SentCalls(sent') = told
  BY <1>1
<1>. HIDE DEF told
<1>9. CallsFaithful'
  <2>1. \A i, j \in DOMAIN calls' : calls'[i].id = calls'[j].id => i = j
    BY <1>2 DEF OneID
  <2>2. \A i \in DOMAIN calls' : calls'[i] \in told
    BY <1>2, <1>4, <1>6
  <2>3. ASSUME NEW i \in DOMAIN calls', Whole', NEW c \in told, c.id = calls'[i].id, c.id # 0, ~Dropped(c)
        PROVE  Len(c.input) <= Len(calls'[i].input)
    <3>1. c \in Members(calls)
      BY <1>3, <1>4, <2>3 DEF Kept
    <3>2. Covers(calls'[i], c)
      BY <1>2, <1>6, <2>3, <3>1
    <3>. QED
      BY <3>2 DEF Covers
  <2>. QED
    BY <1>5, <1>8, <2>1, <2>2, <2>3 DEF CallsFaithful
<1>10. NoCallLost'
  <2>1. ASSUME Whole', NEW c \in told
        PROVE  \/ c.id = 0
               \/ \E i \in DOMAIN caught' : isIntercepted(c)' /\ caught'[i] = c.name
               \/ \E d \in told : d # c /\ d.id = c.id /\ Len(d.input) >= Len(c.input)
               \/ \E i \in DOMAIN calls' : calls'[i] = c \/ SameCall(calls'[i], c)
    <3>1. Kept(c)
      BY <1>3, <1>4, <2>1
    <3>2. CASE Dropped(c) /\ c.name \in Members(caught)
      BY <1>1, <1>5, <3>2 DEF Members, Dropped
    <3>3. CASE c \in Members(calls)
      <4>1. PICK y \in Members(calls) : Covers(y, c) /\ \E z \in Members(calls') : SameCall(z, y)
        BY <1>2, <3>3
      <4>2. CASE y = c
        BY <1>7, <4>1, <4>2
      <4>3. CASE y # c
        <5>1. y.id = c.id /\ Len(c.input) <= Len(y.input) /\ y \in told
          BY <1>4, <4>1 DEF Covers
        <5>2. y \in Call /\ c \in Call
          BY <3>3, MembersOf DEF BufferedTypeInv
        <5>3. Len(y.input) \in Nat /\ Len(c.input) \in Nat
          BY <5>2, LenProperties DEF Call
        <5>4. Len(y.input) >= Len(c.input)
          BY <5>1, <5>3
        <5>. QED
          BY <4>3, <5>1, <5>4
      <4>. QED
        BY <4>2, <4>3
    <3>. QED
      BY <3>1, <3>2, <3>3 DEF Kept
  <2>. QED
    BY <1>8, <2>1 DEF NoCallLost
<1>. QED
  BY <1>1, <1>9, <1>10 DEF CallsInv, ParsedCalls, JudgedCalls

\* Every step keeps the calls.
LEMMA CallsStep ==
  BufferedTypeInv /\ StopInv /\ CallsInv /\ [BufferedNext]_allVars => CallsInv'
<1>. SUFFICES ASSUME BufferedTypeInv, StopInv, CallsInv, [BufferedNext]_allVars PROVE CallsInv'
  OBVIOUS
<1>0. ParsedCalls /\ JudgedCalls
  BY DEF CallsInv
<1>1. CASE CallSucceeds
  BY <1>1, CallsBegin
<1>2. CASE ContentFrame
  BY <1>0, <1>2, ContentKeepsCalls
<1>3. ASSUME NEW f \in ToolFrames, ToolUseFrame(f) PROVE CallsInv'
  BY <1>0, <1>3, FrameKeeps
<1>4. CASE ErrorFrame
  BY <1>0, <1>4, ErrorKeepsCalls
<1>5. ASSUME NEW ending \in Endings, ResponseEnds(ending) PROVE CallsInv'
  BY <1>0, <1>5, EndKeeps
<1>6. CASE BuildResponse
  BY <1>0, <1>6, BuildKeepsCalls
<1>7. CASE \/ CallFails \/ ResponseFails \/ RetryableState \/ PlanFails \/ Search
           \/ DiscardEmpty \/ Deliver \/ Retry \/ RetryFails
  <2>1. hpc' \notin {"parse", "judge", "built"}
    BY <1>7 DEF CallFails, ResponseFails, RetryableState, PlanFails, Search, DiscardEmpty, Deliver, Retry,
                RetryFails, ReplyError, Reply
  <2>. QED
    BY <2>1, CallsStay
<1>8. CASE UNCHANGED allVars
  <2>1. /\ hpc' = hpc /\ body' = body /\ sent' = sent /\ tool' = tool /\ calls' = calls
        /\ caught' = caught /\ searching' = searching /\ acc' = acc
    BY <1>8 DEF allVars, bufferedVars, streamVars
  <2>2. /\ \A c : (Dropped(c)' <=> Dropped(c)) /\ (isIntercepted(c)' <=> isIntercepted(c))
        /\ Whole' <=> Whole
    BY <2>1 DEF Dropped, isIntercepted, Whole
  <2>3. \A c : Kept(c)' <=> Kept(c)
    BY <2>1, <2>2 DEF Kept
  <2>4. ParsedCalls' /\ JudgedCalls'
    BY <1>0, <2>1, <2>2, <2>3 DEF ParsedCalls, JudgedCalls
  <2>5. CallsFaithful'
    BY <2>1, <2>2 DEF CallsInv, CallsFaithful
  <2>6. NoCallLost'
    BY <2>1, <2>2 DEF CallsInv, NoCallLost
  <2>. QED
    BY <2>4, <2>5, <2>6 DEF CallsInv
<1>. QED
  BY <1>1, <1>2, <1>3, <1>4, <1>5, <1>6, <1>7, <1>8 DEF BufferedNext, BufferedStep, BufferedDone

-----------------------------------------------------------------------------
(***************************************************************************)
(* The stop reason.                                                        *)
(***************************************************************************)
LEMMA RepliedIs ==
  ASSUME AnsweredInv, hpc # "done", NEW kind, NEW stop, Reply(kind, stop)
  PROVE  hpc' = "done" /\ replies'[1].kind = kind /\ replies'[1].stop = stop /\ acc' = acc
<1>. DEFINE r == [kind |-> kind, stop |-> stop]
<1>1. replies' = Append(<<>>, r) /\ hpc' = "done" /\ acc' = acc
  BY DEF Reply, AnsweredInv, NothingWrittenAhead
<1>2. Append(<<>>, r)[1] = r
  BY OnlyReply
<1>3. r.kind = kind /\ r.stop = stop
  OBVIOUS
<1>. QED
  BY <1>1, <1>2, <1>3

\* Every step keeps what is said of the stop reason.
LEMMA StopStep ==
  BufferedTypeInv /\ AnsweredInv /\ StopInv /\ [BufferedNext]_allVars => StopInv'
<1>. SUFFICES ASSUME BufferedTypeInv, AnsweredInv, StopInv, [BufferedNext]_allVars PROVE StopInv'
  OBVIOUS
<1>0. acc \in Accumulators /\ calls \in Seq(Call) /\ caught \in Seq(Intercepted) /\ acc.tool \in BOOLEAN
  BY DEF BufferedTypeInv, BufferedTypeOK, Accumulators
<1>1. ASSUME hpc # "done", ReplyError PROVE StopInv'
  <2>1. Reply("error", "") /\ "error" # "message"
    BY <1>1 DEF ReplyError
  <2>2. hpc' = "done" /\ replies'[1].kind = "error"
    BY <1>1, <2>1, RepliedIs
  <2>. QED
    BY <2>1, <2>2 DEF StopInv, StopReasonTrue
<1>2. CASE CallSucceeds
  BY <1>2, NewAccumulatorIs DEF CallSucceeds, Forget, Open, StopInv, StopReasonTrue
<1>3. CASE ContentFrame
  BY <1>0, <1>3, ContentKeeps DEF ContentFrame, StopInv, StopReasonTrue
<1>4. ASSUME hpc = "parse", NEW events \in Seq(Call), processToolUseEvents(events), hpc' \in {"parse", "judge"}
      PROVE  StopInv'
  <2>1. acc'.tool <=> calls' # <<>>
    BY <1>0, <1>4, CallbackKeeps DEF StopInv
  <2>. QED
    BY <1>4, <2>1 DEF processToolUseEvents, StopInv, StopReasonTrue
<1>5. ASSUME NEW f \in ToolFrames, ToolUseFrame(f) PROVE StopInv'
  <2>1. update(tool, f).events \in Seq(Call)
    BY UpdateTyped DEF BufferedTypeInv, BufferedTypeOK
  <2>. QED
    BY <1>4, <1>5, <2>1 DEF ToolUseFrame
<1>6. CASE ErrorFrame
  BY <1>6 DEF ErrorFrame, StopInv, StopReasonTrue
<1>7. ASSUME NEW ending \in Endings, ResponseEnds(ending) PROVE StopInv'
  <2>. DEFINE events == IF Failed(ending) THEN <<>> ELSE flush(tool)
  <2>1. events \in Seq(Call)
    <3>1. <<>> \in Seq(Call)
      OBVIOUS
    <3>. QED
      BY <3>1, FlushTyped DEF BufferedTypeInv
  <2>2. hpc = "parse" /\ hpc' = "judge" /\ processToolUseEvents(events)
    BY <1>7 DEF ResponseEnds
  <2>. HIDE DEF events
  <2>. QED
    BY <1>4, <2>1, <2>2
<1>8. CASE BuildResponse
  <2>1. calls' = <<>> <=> calls = <<>>
    BY <1>0, <1>8, Deduplicated DEF BuildResponse
  <2>2. acc'.tool = acc.tool
    BY <1>0, <1>8, FinalizeKeeps DEF BuildResponse
  <2>3. hpc = "judge" /\ hpc' = "built" /\ (called' <=> called \/ calls' # <<>>) /\ round' = round
    BY <1>8 DEF BuildResponse, BufferedTypeInv, BufferedTypeOK
  <2>. QED
    BY <2>1, <2>2, <2>3 DEF StopInv, StopReasonTrue
<1>9. CASE RetryableState \/ DiscardEmpty
  BY <1>9 DEF RetryableState, DiscardEmpty, Forget, Open, StopInv, StopReasonTrue
<1>10. resolveStopReason(acc) = "tool_use" <=> ~acc.stopped /\ acc.tool
  BY DEF resolveStopReason
<1>11. CASE Search
  <2>1. round' # 0 /\ called' = called /\ hpc = "built"
    BY <1>11, SearchSpends DEF Search
  <2>2. CASE round' < maxRounds
    <3>1. hpc' = "call"
      BY <1>11, <2>2 DEF Search
    <3>. QED
      BY <2>1, <3>1 DEF StopInv, StopReasonTrue
  <2>3. CASE ~(round' < maxRounds)
    <3>1. /\ hpc' = "done" /\ replies'[1].kind = "message" /\ acc' = acc
          /\ replies'[1].stop = resolveStopReason(acc)
      BY <1>11, <2>1, <2>3, RepliedIs DEF Search
    <3>. QED
      BY <1>10, <2>1, <3>1 DEF StopInv, StopReasonTrue
  <2>. QED
    BY <2>2, <2>3
<1>12. CASE Deliver
  <2>1. /\ hpc' = "done" /\ replies'[1].kind = "message" /\ acc' = acc
        /\ replies'[1].stop = resolveStopReason(acc)
    BY <1>12, RepliedIs DEF Deliver
  <2>2. round' = round /\ called' = called /\ hpc = "built"
    BY <1>12 DEF Deliver
  <2>. QED
    BY <1>10, <2>1, <2>2 DEF StopInv, StopReasonTrue
<1>13. CASE Retry
  BY <1>13 DEF Retry, StopInv, StopReasonTrue
<1>14. CASE UNCHANGED allVars
  BY <1>14 DEF allVars, bufferedVars, StopInv, StopReasonTrue
<1>. QED
  BY <1>1, <1>2, <1>3, <1>5, <1>6, <1>7, <1>8, <1>9, <1>11, <1>12, <1>13, <1>14
     DEF BufferedNext, BufferedStep, BufferedDone, CallFails, ResponseFails, PlanFails, RetryFails

-----------------------------------------------------------------------------
(***************************************************************************)
(* All parts are one inductive invariant of a request.                     *)
(***************************************************************************)
BufferedInv == BufferedTypeInv /\ AnsweredInv /\ CallsInv /\ StopInv

\* It holds at first.
LEMMA BufferedBegins == BufferedInit => BufferedInv
<1>. SUFFICES ASSUME BufferedInit PROVE BufferedInv
  OBVIOUS
<1>1. BufferedTypeInv
  <2>1. <<>> \in Seq(ToolFrames) /\ <<>> \in Seq(Call) /\ <<>> \in Seq(Intercepted)
    OBVIOUS
  <2>2. 0 \in 0..maxRounds /\ 0 \in 0..maxToolSearchRounds /\ 0 \in 0..maxWebSearchRounds /\ 0 \in 0..MaxFrames
    BY BufferedAssumption, EventStreamAssumption DEF maxRounds
  <2>3. newRoundBudget \in [tools : 0..maxToolSearchRounds, web : 0..maxWebSearchRounds]
        /\ 0 <= newRoundBudget.tools + newRoundBudget.web
    BY <2>2 DEF newRoundBudget
  <2>4. 1 \in 1..2 /\ FALSE \in BOOLEAN
    OBVIOUS
  <2>. QED
    BY <2>1, <2>2, <2>3, <2>4, NoToolIsCall, NewAccumulatorIs
       DEF BufferedInit, BufferedTypeInv, BufferedTypeOK
<1>2. AnsweredInv
  BY DEF BufferedInit, AnsweredInv, NothingWrittenAhead, BodyFollowed, BuiltFromUsable, Answer
<1>3. CallsInv
  BY DEF BufferedInit, CallsInv, ParsedCalls, JudgedCalls, CallsFaithful, NoCallLost
<1>4. StopInv
  BY DEF BufferedInit, StopInv, StopReasonTrue
<1>. QED
  BY <1>1, <1>2, <1>3, <1>4 DEF BufferedInv

\* Every step keeps it.
LEMMA BufferedGoesOn == BufferedInv /\ [BufferedNext]_allVars => BufferedInv'
<1>. SUFFICES ASSUME BufferedInv, [BufferedNext]_allVars PROVE BufferedInv'
  OBVIOUS
<1>1. hpc \in {"parse", "judge"} => (acc.tool <=> calls # <<>>)
  BY DEF BufferedInv, StopInv
<1>2. BufferedTypeInv'
  BY <1>1, BufferedTypeStep DEF BufferedInv
<1>3. AnsweredInv' /\ CallsInv' /\ StopInv'
  BY AnsweredStep, CallsStep, StopStep DEF BufferedInv
<1>. QED
  BY <1>2, <1>3 DEF BufferedInv

\* It implies the properties.
LEMMA BufferedInvImplies == BufferedInv => BufferedTypeOK /\ CallsFaithful /\ NoCallLost /\ StopReasonTrue
BY DEF BufferedInv, BufferedTypeInv, CallsInv, StopInv

(***************************************************************************)
(* Every variable of a request has its type.                               *)
(***************************************************************************)
THEOREM BufferedTypes == BufferedSpec => []BufferedTypeOK
BY BufferedBegins, BufferedGoesOn, BufferedInvImplies, PTL DEF BufferedSpec

(***************************************************************************)
(* A response names each tool call once, with exactly the input its frames *)
(* carried, and with the longest when the upstream repeats it.             *)
(***************************************************************************)
THEOREM CallsAreFaithful == BufferedSpec => []CallsFaithful
BY BufferedBegins, BufferedGoesOn, BufferedInvImplies, PTL DEF BufferedSpec

(***************************************************************************)
(* No tool call of a whole response is lost.                               *)
(***************************************************************************)
THEOREM CallsKept == BufferedSpec => []NoCallLost
BY BufferedBegins, BufferedGoesOn, BufferedInvImplies, PTL DEF BufferedSpec

(***************************************************************************)
(* A message says tool_use when it holds a call, and only then.            *)
(***************************************************************************)
THEOREM StopReasonHolds == BufferedSpec => []StopReasonTrue
BY BufferedBegins, BufferedGoesOn, BufferedInvImplies, PTL DEF BufferedSpec

(***************************************************************************)
(* A request without streaming is answered exactly once, and with a        *)
(* message only from a usable response that shows something.               *)
(***************************************************************************)
THEOREM AnsweredOnceHolds == BufferedSpec => []AnsweredOnce
<1>1. BufferedInv => AnsweredInv
  BY DEF BufferedInv
<1>. QED
  BY <1>1, BufferedBegins, BufferedGoesOn, AnsweredInvImplies, PTL DEF BufferedSpec

=============================================================================
