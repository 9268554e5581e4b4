------------------------- MODULE ResponseTextProofs -------------------------
(***************************************************************************)
(* Theorems about ResponseText, for any alphabet, tags, stop sequences and *)
(* budget, and every way to cut a response of any length into chunks.      *)
(*                                                                         *)
(* Five parts: numbers and the ends of sequences; the overlap matcher; the *)
(* tag parser, which reads a text in pieces as it reads it at once; stop   *)
(* sequences and the budget; and the inductive invariant of a response.    *)
(***************************************************************************)
EXTENDS ResponseText, SequenceTheorems, WellFoundedInduction, TLAPS

(***************************************************************************)
(* Induction, with the statement as a set; least and greatest numbers.     *)
(***************************************************************************)
LEMMA LeastNat ==
  ASSUME NEW T, T \subseteq Nat, T # {}
  PROVE  \E x \in T : \A y \in T : x <= y
<1>. DEFINE R == {p \in Nat \X Nat : p[1] < p[2]}
<1>1. IsWellFoundedOn(R, Nat)
  BY NatLessThanWellFounded DEF OpToRel
<1>2. PICK x \in T : \A y \in T : ~(<<y, x>> \in R)
  BY <1>1, WFMin
<1>3. \A y \in T : <<y, x>> \in R <=> y < x
  BY <1>2
<1>4. \A y \in T : ~(y < x)
  BY <1>2, <1>3
<1>. QED
  BY <1>4

\* A set that holds each number whose predecessors it all holds has every natural number.
LEMMA StrongInduction ==
  ASSUME NEW S, \A n \in Nat : (\A m \in 0..(n - 1) : m \in S) => n \in S
  PROVE  Nat \subseteq S
<1>. SUFFICES ASSUME ~(Nat \subseteq S) PROVE FALSE
  OBVIOUS
<1>1. PICK x \in Nat \ S : \A y \in Nat \ S : x <= y
  <2>1. Nat \ S \subseteq Nat /\ Nat \ S # {}
    OBVIOUS
  <2>. QED
    BY <2>1, LeastNat
<1>2. \A m \in 0..(x - 1) : m \in S
  BY <1>1
<1>. QED
  BY <1>1, <1>2

\* A set of numbers up to N has a greatest.
LEMMA Greatest ==
  ASSUME NEW T, NEW N \in Nat, T \subseteq 0..N, T # {}
  PROVE  \E x \in T : \A y \in T : y <= x
<1>. DEFINE U == {n \in Nat : \E y \in T : n = N - y}
<1>1. U \subseteq Nat /\ U # {}
  <2>1. PICK y \in T : TRUE
    OBVIOUS
  <2>2. y \in 0..N /\ N - y \in Nat
    OBVIOUS
  <2>3. N - y \in U
    BY <2>2
  <2>. QED
    BY <2>3
<1>2. PICK u \in U : \A n \in U : u <= n
  <2>. HIDE DEF U
  <2>. QED
    BY <1>1, LeastNat
<1>3. PICK x \in T : u = N - x
  BY <1>2
<1>4. ASSUME NEW y \in T PROVE y <= x
  <2>1. N - y \in Nat /\ N - y \in U
    OBVIOUS
  <2>2. u <= N - y
    BY <1>2, <2>1
  <2>. QED
    BY <1>3, <2>2
<1>. QED
  BY <1>4

-----------------------------------------------------------------------------
(***************************************************************************)
(* The first m of b are the end of the first n of s.                       *)
(***************************************************************************)
Ends(b, m, s, n) == m <= n /\ \A j \in 1..m : b[j] = s[n - m + j]

\* One character more.
LEMMA EndsNext ==
  ASSUME NEW b, NEW s, NEW m \in Nat, NEW n \in Nat
  PROVE  Ends(b, m + 1, s, n + 1) <=> Ends(b, m, s, n) /\ b[m + 1] = s[n + 1]
<1>1. \A j \in 1..m : (n + 1) - (m + 1) + j = n - m + j
  OBVIOUS
<1>2. (n + 1) - (m + 1) + (m + 1) = n + 1
  OBVIOUS
<1>3. 1..(m + 1) = 1..m \cup {m + 1}
  OBVIOUS
<1>4. m + 1 <= n + 1 <=> m <= n
  OBVIOUS
<1>. QED
  BY <1>1, <1>2, <1>3, <1>4 DEF Ends

LEMMA EndsBefore ==
  ASSUME NEW b, NEW s, NEW m \in Nat \ {0}, NEW n \in Nat \ {0}
  PROVE  Ends(b, m, s, n) <=> Ends(b, m - 1, s, n - 1) /\ b[m] = s[n]
<1>. DEFINE i == m - 1
            j == n - 1
<1>1. i \in Nat /\ j \in Nat /\ i + 1 = m /\ j + 1 = n
  OBVIOUS
<1>. HIDE DEF i, j
<1>2. Ends(b, i + 1, s, j + 1) <=> Ends(b, i, s, j) /\ b[i + 1] = s[j + 1]
  BY <1>1, EndsNext
<1>3. Ends(b, m, s, n) <=> Ends(b, i, s, j) /\ b[m] = s[n]
  BY <1>1, <1>2
<1>. QED
  BY <1>3 DEF i, j

\* What ends s and is no longer than k ends the k that end s.
LEMMA EndsWithin ==
  ASSUME NEW b, NEW s, NEW k \in Nat, NEW n \in Nat, Ends(b, k, s, n), NEW m \in 0..k
  PROVE  Ends(b, m, s, n) <=> Ends(b, m, b, k)
<1>1. k <= n /\ \A j \in 1..k : b[j] = s[n - k + j]
  BY DEF Ends
<1>2. ASSUME NEW j \in 1..m PROVE b[k - m + j] = s[n - m + j]
  <2>1. k - m + j \in 1..k /\ n - k + (k - m + j) = n - m + j
    OBVIOUS
  <2>. QED
    BY <1>1, <2>1
<1>3. m <= n /\ m <= k
  BY <1>1
<1>. QED
  BY <1>2, <1>3 DEF Ends

\* Nothing and everything.
LEMMA EndsTrivial ==
  ASSUME NEW b, NEW s, NEW n \in Nat
  PROVE  Ends(b, 0, s, n) /\ Ends(s, n, s, n)
BY DEF Ends

-----------------------------------------------------------------------------
(* The overlap matcher *)

\* The longest border of the first i of b.
IsBorder(b, i, v) ==
  v \in 0..(i - 1) /\ Ends(b, v, b, i) /\ \A m \in 0..(i - 1) : Ends(b, m, b, i) => m <= v

\* fail has the borders of the first i beginnings of b.
Borders(b, fail, i) == \A k \in 1..i : IsBorder(b, k, fail[k])

\* The state of the matcher that has seen the first k of b, behind character c.
IsStep(b, k, c, v) ==
  /\ v \in 0..(k + 1)
  /\ v = 0 \/ (Ends(b, v - 1, b, k) /\ b[v] = c)
  /\ \A m \in 0..k : Ends(b, m, b, k) /\ b[m + 1] = c => m + 1 <= v

LEMMA BorderExists ==
  ASSUME NEW b, NEW i \in Nat \ {0}
  PROVE  \E v : IsBorder(b, i, v)
<1>. DEFINE T == {m \in 0..(i - 1) : Ends(b, m, b, i)}
<1>1. 0 \in T
  BY EndsTrivial
<1>2. i - 1 \in Nat /\ T \subseteq 0..(i - 1)
  OBVIOUS
<1>3. PICK v \in T : \A m \in T : m <= v
  <2>. HIDE DEF T
  <2>. QED
    BY <1>1, <1>2, Greatest
<1>. QED
  BY <1>3 DEF IsBorder

LEMMA BorderUnique ==
  ASSUME NEW b, NEW i \in Nat \ {0}, NEW v, NEW w, IsBorder(b, i, v), IsBorder(b, i, w)
  PROVE  v = w
<1>1. v \in 0..(i - 1) /\ w \in 0..(i - 1)
  BY DEF IsBorder
<1>2. v <= w /\ w <= v
  BY <1>1 DEF IsBorder
<1>. QED
  BY <1>1, <1>2

LEMMA StepExists ==
  ASSUME NEW b, NEW k \in Nat, NEW c
  PROVE  \E v : IsStep(b, k, c, v)
<1>. DEFINE T == {v \in 0..(k + 1) : v = 0 \/ (Ends(b, v - 1, b, k) /\ b[v] = c)}
<1>1. 0 \in T /\ T \subseteq 0..(k + 1) /\ k + 1 \in Nat
  OBVIOUS
<1>2. PICK v \in T : \A m \in T : m <= v
  <2>. HIDE DEF T
  <2>. QED
    BY <1>1, Greatest
<1>3. ASSUME NEW m \in 0..k, Ends(b, m, b, k) /\ b[m + 1] = c PROVE m + 1 <= v
  <2>1. m + 1 \in 0..(k + 1) /\ (m + 1) - 1 = m
    OBVIOUS
  <2>2. m + 1 \in T
    BY <1>3, <2>1
  <2>. QED
    BY <1>2, <2>2
<1>. QED
  BY <1>2, <1>3 DEF IsStep

LEMMA StepUnique ==
  ASSUME NEW b, NEW k \in Nat, NEW c, NEW v, NEW w, IsStep(b, k, c, v), IsStep(b, k, c, w)
  PROVE  v = w
<1>1. v \in 0..(k + 1) /\ w \in 0..(k + 1)
  BY DEF IsStep
<1>2. ASSUME NEW x \in 0..(k + 1), NEW y \in 0..(k + 1), IsStep(b, k, c, x), IsStep(b, k, c, y)
      PROVE  x <= y
  <2>1. CASE x = 0
    BY <2>1
  <2>2. CASE x # 0
    <3>1. x - 1 \in 0..k /\ (x - 1) + 1 = x
      BY <2>2
    <3>2. Ends(b, x - 1, b, k) /\ b[x] = c
      BY <1>2, <2>2 DEF IsStep
    <3>3. \A m \in 0..k : Ends(b, m, b, k) /\ b[m + 1] = c => m + 1 <= y
      BY <1>2 DEF IsStep
    <3>. QED
      BY <3>1, <3>2, <3>3
  <2>. QED
    BY <2>1, <2>2
<1>3. v <= w /\ w <= v
  BY <1>1, <1>2
<1>. QED
  BY <1>1, <1>3

\* The matcher's step goes through the borders.
StepBody(b, fail, c, f, j) ==
  IF b[j + 1] = c THEN j + 1 ELSE IF j = 0 THEN 0 ELSE f[fail[j]]

LEMMA StepThroughBorders ==
  ASSUME NEW b, NEW k \in Nat, NEW fail, Borders(b, fail, k), NEW c, NEW f, NEW j \in 0..k,
         \A i \in 0..(j - 1) : IsStep(b, i, c, f[i])
  PROVE  IsStep(b, j, c, StepBody(b, fail, c, f, j))
<1>1. CASE b[j + 1] = c
  <2>1. StepBody(b, fail, c, f, j) = j + 1
    BY <1>1 DEF StepBody
  <2>2. (j + 1) - 1 = j /\ j \in Nat
    OBVIOUS
  <2>3. Ends(b, j, b, j)
    BY <2>2, EndsTrivial
  <2>. QED
    BY <1>1, <2>1, <2>2, <2>3 DEF IsStep
<1>2. CASE b[j + 1] # c /\ j = 0
  <2>1. StepBody(b, fail, c, f, j) = 0
    BY <1>2 DEF StepBody
  <2>2. \A m \in 0..j : m = j
    BY <1>2
  <2>. QED
    BY <1>2, <2>1, <2>2 DEF IsStep
<1>3. CASE b[j + 1] # c /\ j # 0
  <2>. DEFINE q == fail[j]
              w == f[q]
  <2>1. StepBody(b, fail, c, f, j) = w
    BY <1>3 DEF StepBody
  <2>2. IsBorder(b, j, q)
    BY <1>3 DEF Borders
  <2>3. q \in 0..(j - 1) /\ q \in Nat /\ Ends(b, q, b, j)
    BY <2>2 DEF IsBorder
  <2>4. IsStep(b, q, c, w)
    BY <2>3
  <2>. HIDE DEF q, w
  <2>5. \A m \in 0..q : Ends(b, m, b, j) <=> Ends(b, m, b, q)
    BY <2>3, EndsWithin
  <2>6. w \in 0..(q + 1) /\ w \in 0..(j + 1)
    BY <2>3, <2>4 DEF IsStep
  <2>7. w = 0 \/ (Ends(b, w - 1, b, j) /\ b[w] = c)
    <3>. SUFFICES ASSUME w # 0 PROVE Ends(b, w - 1, b, j) /\ b[w] = c
      OBVIOUS
    <3>1. w - 1 \in 0..q
      BY <2>3, <2>6
    <3>2. Ends(b, w - 1, b, q) /\ b[w] = c
      BY <2>4 DEF IsStep
    <3>. QED
      BY <2>5, <3>1, <3>2
  <2>8. ASSUME NEW m \in 0..j, Ends(b, m, b, j), b[m + 1] = c PROVE m + 1 <= w
    <3>1. m # j
      BY <1>3, <2>8
    <3>2. m \in 0..(j - 1)
      BY <3>1
    <3>3. m <= q
      BY <2>2, <2>8, <3>2 DEF IsBorder
    <3>4. m \in 0..q
      BY <2>3, <3>3
    <3>5. Ends(b, m, b, q)
      BY <2>5, <2>8, <3>4
    <3>. QED
      BY <2>4, <2>8, <3>4, <3>5 DEF IsStep
  <2>. QED
    BY <2>1, <2>6, <2>7, <2>8 DEF IsStep
<1>. QED
  BY <1>1, <1>2, <1>3

\* Step is the state its name promises, on the borders of what was seen.
LEMMA StepIsStep ==
  ASSUME NEW b, NEW k \in Nat, NEW fail, Borders(b, fail, k), NEW c
  PROVE  IsStep(b, k, c, Step(b, fail, k, c))
<1>. DEFINE Body(f, j) == IF b[j + 1] = c THEN j + 1 ELSE IF j = 0 THEN 0 ELSE f[fail[j]]
            Fix(f) == f = [j \in 0..k |-> Body(f, j)]
            next == CHOOSE f : Fix(f)
            g == [j \in 0..k |-> CHOOSE v : IsStep(b, j, c, v)]
<1>1. Step(b, fail, k, c) = next[k]
  BY DEF Step
<1>2. \A j \in 0..k : IsStep(b, j, c, g[j])
  <2>. SUFFICES ASSUME NEW j \in 0..k PROVE IsStep(b, j, c, CHOOSE v : IsStep(b, j, c, v))
    OBVIOUS
  <2>. QED
    BY StepExists
<1>. HIDE DEF g
<1>3. \A f, j : Body(f, j) = StepBody(b, fail, c, f, j)
  BY DEF StepBody
<1>4. Fix(g)
  <2>1. ASSUME NEW j \in 0..k PROVE g[j] = Body(g, j)
    <3>1. j \in Nat /\ 0..(j - 1) \subseteq 0..k
      OBVIOUS
    <3>2. \A i \in 0..(j - 1) : IsStep(b, i, c, g[i])
      BY <1>2, <3>1
    <3>3. IsStep(b, j, c, StepBody(b, fail, c, g, j))
      BY <3>2, StepThroughBorders
    <3>. QED
      BY <1>2, <1>3, <3>1, <3>3, StepUnique
  <2>2. g = [j \in 0..k |-> g[j]]
    BY DEF g
  <2>. DEFINE h == [j \in 0..k |-> Body(g, j)]
  <2>3. g = h
    BY <2>1, <2>2
  <2>. QED
    BY <2>3
<1>5. Fix(next)
  BY <1>4
<1>. HIDE DEF next
<1>6. \A j \in 0..k : next[j] = Body(next, j)
  BY <1>5, Zenon
<1>. DEFINE S == {j \in Nat : j <= k => IsStep(b, j, c, next[j])}
<1>7. ASSUME NEW j \in Nat, \A i \in 0..(j - 1) : i \in S PROVE j \in S
  <2>. SUFFICES ASSUME j <= k PROVE IsStep(b, j, c, next[j])
    OBVIOUS
  <2>1. j \in 0..k /\ \A i \in 0..(j - 1) : IsStep(b, i, c, next[i])
    BY <1>7
  <2>2. IsStep(b, j, c, StepBody(b, fail, c, next, j))
    BY <2>1, StepThroughBorders
  <2>. QED
    BY <1>3, <1>6, <2>1, <2>2
<1>. HIDE DEF S
<1>8. Nat \subseteq S
  BY <1>7, StrongInduction
<1>. QED
  BY <1>1, <1>8 DEF S

\* The failure function from a border to the next.
FailureBody(b, f, i) == IF i = 1 THEN 0 ELSE Step(b, f, f[i - 1], b[i])

LEMMA FailureGoesOn ==
  ASSUME NEW b, NEW i \in Nat \ {0}, NEW f, Borders(b, f, i - 1)
  PROVE  IsBorder(b, i, FailureBody(b, f, i))
<1>1. CASE i = 1
  <2>1. FailureBody(b, f, i) = 0
    BY <1>1 DEF FailureBody
  <2>2. \A m \in 0..(i - 1) : m = 0
    BY <1>1
  <2>. QED
    BY <1>1, <2>1, <2>2, EndsTrivial DEF IsBorder
<1>2. CASE i # 1
  <2>. DEFINE q == f[i - 1]
              w == Step(b, f, q, b[i])
  <2>1. FailureBody(b, f, i) = w
    BY <1>2 DEF FailureBody
  <2>2. i - 1 \in 1..(i - 1) /\ i - 1 \in Nat /\ (i - 1) + 1 = i
    BY <1>2
  <2>3. IsBorder(b, i - 1, q)
    BY <2>2 DEF Borders
  <2>4. q \in 0..(i - 2) /\ q \in Nat /\ Ends(b, q, b, i - 1)
    BY <1>2, <2>3 DEF IsBorder
  <2>5. Borders(b, f, q)
    <3>1. 1..q \subseteq 1..(i - 1)
      BY <2>4
    <3>. QED
      BY <3>1 DEF Borders
  <2>6. IsStep(b, q, b[i], w)
    BY <2>4, <2>5, StepIsStep
  <2>. HIDE DEF q, w
  <2>7. \A m \in 0..q : Ends(b, m, b, i - 1) <=> Ends(b, m, b, q)
    BY <2>2, <2>4, EndsWithin
  <2>8. w \in 0..(q + 1)
    BY <2>6 DEF IsStep
  <2>9. w \in 0..(i - 1)
    BY <2>4, <2>8
  <2>10. Ends(b, w, b, i)
    <3>1. CASE w = 0
      BY <3>1, EndsTrivial
    <3>2. CASE w # 0
      <4>1. w - 1 \in 0..q /\ w - 1 \in Nat /\ (w - 1) + 1 = w
        BY <2>4, <2>8, <3>2
      <4>2. Ends(b, w - 1, b, i - 1) /\ b[w] = b[i]
        BY <2>6, <2>7, <3>2, <4>1 DEF IsStep
      <4>3. w \in Nat \ {0} /\ i \in Nat \ {0}
        BY <2>4, <2>8, <3>2
      <4>. QED
        BY <4>2, <4>3, EndsBefore
    <3>. QED
      BY <3>1, <3>2
  <2>11. ASSUME NEW m \in 0..(i - 1), Ends(b, m, b, i) PROVE m <= w
    <3>1. CASE m = 0
      BY <2>8, <3>1
    <3>2. CASE m # 0
      <4>1. m - 1 \in 0..(i - 2) /\ m - 1 \in Nat /\ (m - 1) + 1 = m
        BY <3>2
      <4>2. Ends(b, m - 1, b, i - 1) /\ b[m] = b[i]
        <5>1. m \in Nat \ {0} /\ i \in Nat \ {0}
          BY <3>2
        <5>2. Ends(b, m, b, i) <=> Ends(b, m - 1, b, i - 1) /\ b[m] = b[i]
          BY <5>1, EndsBefore
        <5>. QED
          BY <2>11, <5>2
      <4>3. m - 1 <= q
        <5>1. m - 1 \in 0..((i - 1) - 1)
          BY <4>1
        <5>. QED
          BY <2>3, <4>2, <5>1 DEF IsBorder
      <4>4. m - 1 \in 0..q /\ Ends(b, m - 1, b, q)
        BY <2>4, <2>7, <4>1, <4>2, <4>3
      <4>5. (m - 1) + 1 <= w
        BY <2>6, <4>1, <4>2, <4>4 DEF IsStep
      <4>. QED
        BY <4>1, <4>5
    <3>. QED
      BY <3>1, <3>2
  <2>. QED
    BY <2>1, <2>9, <2>10, <2>11 DEF IsBorder
<1>. QED
  BY <1>1, <1>2

\* The failure function has every border.
LEMMA FailureHasBorders ==
  ASSUME NEW b, Len(b) \in Nat
  PROVE  Borders(b, Failure(b), Len(b))
<1>. DEFINE N == Len(b)
            Body(f, i) == IF i = 1 THEN 0 ELSE Step(b, f, f[i - 1], b[i])
            Fix(f) == f = [i \in 1..N |-> Body(f, i)]
            fail == CHOOSE f : Fix(f)
            g == [i \in 1..N |-> CHOOSE v : IsBorder(b, i, v)]
<1>1. Failure(b) = fail
  BY DEF Failure
<1>2. \A i \in 1..N : IsBorder(b, i, g[i])
  <2>. SUFFICES ASSUME NEW i \in 1..N PROVE IsBorder(b, i, CHOOSE v : IsBorder(b, i, v))
    OBVIOUS
  <2>. QED
    BY BorderExists
<1>. HIDE DEF g
<1>3. \A f, i : Body(f, i) = FailureBody(b, f, i)
  BY DEF FailureBody
<1>4. Fix(g)
  <2>1. ASSUME NEW i \in 1..N PROVE g[i] = Body(g, i)
    <3>1. i \in Nat \ {0} /\ 1..(i - 1) \subseteq 1..N
      OBVIOUS
    <3>2. Borders(b, g, i - 1)
      BY <1>2, <3>1 DEF Borders
    <3>3. IsBorder(b, i, FailureBody(b, g, i))
      BY <3>1, <3>2, FailureGoesOn
    <3>. QED
      BY <1>2, <1>3, <3>1, <3>3, BorderUnique
  <2>2. g = [i \in 1..N |-> g[i]]
    BY DEF g
  <2>. DEFINE h == [i \in 1..N |-> Body(g, i)]
  <2>3. g = h
    BY <2>1, <2>2
  <2>. QED
    BY <2>3
<1>5. Fix(fail)
  BY <1>4
<1>. HIDE DEF fail
<1>6. \A i \in 1..N : fail[i] = Body(fail, i)
  BY <1>5, Zenon
<1>. DEFINE S == {i \in Nat : i \in 1..N => IsBorder(b, i, fail[i])}
<1>7. ASSUME NEW i \in Nat, \A j \in 0..(i - 1) : j \in S PROVE i \in S
  <2>. SUFFICES ASSUME i \in 1..N PROVE IsBorder(b, i, fail[i])
    OBVIOUS
  <2>1. \A j \in 1..(i - 1) : j \in 0..(i - 1) /\ j \in 1..N
    OBVIOUS
  <2>2. Borders(b, fail, i - 1)
    BY <1>7, <2>1 DEF Borders
  <2>3. IsBorder(b, i, FailureBody(b, fail, i))
    BY <2>2, FailureGoesOn
  <2>. QED
    BY <1>3, <1>6, <2>3
<1>. HIDE DEF S
<1>8. Nat \subseteq S
  BY <1>7, StrongInduction
<1>9. \A i \in 1..N : IsBorder(b, i, fail[i])
  BY <1>8 DEF S
<1>. QED
  BY <1>1, <1>9 DEF Borders

-----------------------------------------------------------------------------
\* The longest beginning of b, but not b itself, that ends the first n of a.
IsOverlap(b, a, n, v) ==
  /\ v \in 0..(Len(b) - 1) /\ Ends(b, v, a, n)
  /\ \A m \in 0..(Len(b) - 1) : Ends(b, m, a, n) => m <= v

LEMMA OverlapExists ==
  ASSUME NEW b, Len(b) \in Nat \ {0}, NEW a, NEW n \in Nat
  PROVE  \E v : IsOverlap(b, a, n, v)
<1>. DEFINE T == {m \in 0..(Len(b) - 1) : Ends(b, m, a, n)}
<1>1. 0 \in T
  BY EndsTrivial
<1>2. Len(b) - 1 \in Nat /\ T \subseteq 0..(Len(b) - 1)
  OBVIOUS
<1>3. PICK v \in T : \A m \in T : m <= v
  <2>. HIDE DEF T
  <2>. QED
    BY <1>1, <1>2, Greatest
<1>. QED
  BY <1>3 DEF IsOverlap

LEMMA OverlapUnique ==
  ASSUME NEW b, Len(b) \in Nat \ {0}, NEW a, NEW n \in Nat, NEW v, NEW w,
         IsOverlap(b, a, n, v), IsOverlap(b, a, n, w)
  PROVE  v = w
<1>1. v \in 0..(Len(b) - 1) /\ w \in 0..(Len(b) - 1)
  BY DEF IsOverlap
<1>2. v <= w /\ w <= v
  BY <1>1 DEF IsOverlap
<1>. QED
  BY <1>1, <1>2

\* The matcher from one character of a to the next.
SeenBody(b, fail, a, f, n) ==
  IF n = 0 THEN 0
  ELSE LET k == Step(b, fail, f[n - 1], a[n]) IN IF k = Len(b) THEN fail[k] ELSE k

LEMMA SeenGoesOn ==
  ASSUME NEW b, Len(b) \in Nat \ {0}, NEW fail, Borders(b, fail, Len(b)), NEW a,
         NEW n \in Nat, NEW f, n # 0 => IsOverlap(b, a, n - 1, f[n - 1])
  PROVE  IsOverlap(b, a, n, SeenBody(b, fail, a, f, n))
<1>. DEFINE N == Len(b)
<1>1. CASE n = 0
  <2>1. SeenBody(b, fail, a, f, n) = 0
    BY <1>1 DEF SeenBody
  <2>2. \A m \in 0..(N - 1) : Ends(b, m, a, n) => m <= 0
    BY <1>1 DEF Ends
  <2>. QED
    BY <1>1, <2>1, <2>2, EndsTrivial DEF IsOverlap
<1>2. CASE n # 0
  <2>. DEFINE q == f[n - 1]
              k == Step(b, fail, q, a[n])
  <2>1. SeenBody(b, fail, a, f, n) = IF k = N THEN fail[k] ELSE k
    BY <1>2 DEF SeenBody
  <2>2. IsOverlap(b, a, n - 1, q)
    BY <1>2
  <2>3. q \in 0..(N - 1) /\ q \in Nat /\ Ends(b, q, a, n - 1)
    BY <2>2 DEF IsOverlap
  <2>4. IsStep(b, q, a[n], k)
    <3>1. Borders(b, fail, q)
      <4>1. 1..q \subseteq 1..N
        BY <2>3
      <4>. QED
        BY <4>1 DEF Borders
    <3>. QED
      BY <2>3, <3>1, StepIsStep
  <2>. HIDE DEF q, k
  <2>5. n - 1 \in Nat /\ (n - 1) + 1 = n
    BY <1>2
  <2>6. \A m \in 0..q : Ends(b, m, a, n - 1) <=> Ends(b, m, b, q)
    BY <2>3, <2>5, EndsWithin
  <2>7. k \in 0..N
    BY <2>3, <2>4 DEF IsStep
  <2>8. Ends(b, k, a, n)
    <3>1. CASE k = 0
      BY <3>1, EndsTrivial
    <3>2. CASE k # 0
      <4>1. k - 1 \in 0..q /\ k - 1 \in Nat /\ (k - 1) + 1 = k
        BY <2>3, <2>4, <3>2 DEF IsStep
      <4>2. Ends(b, k - 1, a, n - 1) /\ b[k] = a[n]
        BY <2>4, <2>6, <3>2, <4>1 DEF IsStep
      <4>3. k \in Nat \ {0} /\ n \in Nat \ {0}
        BY <1>2, <2>7, <3>2
      <4>. QED
        BY <4>2, <4>3, EndsBefore
    <3>. QED
      BY <3>1, <3>2
  <2>9. ASSUME NEW m \in 0..N, Ends(b, m, a, n) PROVE m <= k
    <3>1. CASE m = 0
      BY <2>7, <3>1
    <3>2. CASE m # 0
      <4>1. m - 1 \in 0..(N - 1) /\ m - 1 \in Nat /\ (m - 1) + 1 = m
        BY <3>2
      <4>2. Ends(b, m - 1, a, n - 1) /\ b[m] = a[n]
        <5>1. m \in Nat \ {0} /\ n \in Nat \ {0}
          BY <1>2, <3>2
        <5>. QED
          <6>1. Ends(b, m, a, n)
            BY <2>9
          <6>2. Ends(b, m, a, n) <=> Ends(b, m - 1, a, n - 1) /\ b[m] = a[n]
            BY <5>1, EndsBefore
          <6>. QED
            BY <6>1, <6>2
      <4>3. m - 1 <= q
        BY <2>2, <4>1, <4>2 DEF IsOverlap
      <4>4. m - 1 \in 0..q /\ Ends(b, m - 1, b, q)
        BY <2>3, <2>6, <4>1, <4>2, <4>3
      <4>5. (m - 1) + 1 <= k
        BY <2>4, <4>1, <4>2, <4>4 DEF IsStep
      <4>. QED
        BY <4>1, <4>5
    <3>. QED
      BY <3>1, <3>2
  <2>10. CASE k # N
    <3>1. k \in 0..(N - 1) /\ 0..(N - 1) \subseteq 0..N
      BY <2>7, <2>10
    <3>. QED
      BY <2>1, <2>8, <2>9, <2>10, <3>1 DEF IsOverlap
  <2>11. CASE k = N
    <3>. DEFINE v == fail[N]
    <3>1. IsBorder(b, N, v)
      BY DEF Borders
    <3>2. SeenBody(b, fail, a, f, n) = v
      BY <2>1, <2>11
    <3>. HIDE DEF v
    <3>3. v \in 0..(N - 1) /\ 0..(N - 1) \subseteq 0..N
      BY <3>1 DEF IsBorder
    <3>4. \A m \in 0..N : Ends(b, m, a, n) <=> Ends(b, m, b, N)
      BY <2>8, <2>11, EndsWithin
    <3>. QED
      BY <3>1, <3>2, <3>3, <3>4 DEF IsOverlap, IsBorder
  <2>. QED
    BY <2>10, <2>11
<1>. QED
  BY <1>1, <1>2

(***************************************************************************)
(* The matcher finds the longest proper beginning of b that ends a.        *)
(***************************************************************************)
LEMMA LongestOverlap ==
  ASSUME NEW b, Len(b) \in Nat \ {0}, NEW a, Len(a) \in Nat
  PROVE  IsOverlap(b, a, Len(a), kmpOverlap(a, b))
<1>. DEFINE fail == Failure(b)
            N == Len(a)
            Body(f, n) == IF n = 0 THEN 0
                ELSE LET k == Step(b, fail, f[n - 1], a[n]) IN IF k = Len(b) THEN fail[k] ELSE k
            Fix(f) == f = [n \in 0..N |-> Body(f, n)]
            seen == CHOOSE f : Fix(f)
            g == [n \in 0..N |-> CHOOSE v : IsOverlap(b, a, n, v)]
<1>1. kmpOverlap(a, b) = seen[N]
  BY DEF kmpOverlap
<1>2. Borders(b, fail, Len(b))
  BY FailureHasBorders
<1>. HIDE DEF fail
<1>3. \A n \in 0..N : IsOverlap(b, a, n, g[n])
  <2>. SUFFICES ASSUME NEW n \in 0..N PROVE IsOverlap(b, a, n, CHOOSE v : IsOverlap(b, a, n, v))
    OBVIOUS
  <2>1. n \in Nat
    OBVIOUS
  <2>2. \E v : IsOverlap(b, a, n, v)
    BY <2>1, OverlapExists
  <2>. QED
    BY <2>2
<1>. HIDE DEF g
<1>4. \A f, n : Body(f, n) = SeenBody(b, fail, a, f, n)
  BY DEF SeenBody
<1>5. Fix(g)
  <2>1. ASSUME NEW n \in 0..N PROVE g[n] = Body(g, n)
    <3>1. n \in Nat /\ (n # 0 => n - 1 \in 0..N)
      OBVIOUS
    <3>2. IsOverlap(b, a, n, SeenBody(b, fail, a, g, n))
      BY <1>2, <1>3, <3>1, SeenGoesOn
    <3>. QED
      BY <1>3, <1>4, <3>1, <3>2, OverlapUnique
  <2>2. g = [n \in 0..N |-> g[n]]
    BY DEF g
  <2>. DEFINE h == [n \in 0..N |-> Body(g, n)]
  <2>3. g = h
    BY <2>1, <2>2
  <2>. QED
    BY <2>3
<1>6. Fix(seen)
  BY <1>5
<1>. HIDE DEF seen
<1>7. \A n \in 0..N : seen[n] = Body(seen, n)
  BY <1>6, Zenon
<1>. DEFINE S == {n \in Nat : n <= N => IsOverlap(b, a, n, seen[n])}
<1>8. ASSUME NEW n \in Nat, \A m \in 0..(n - 1) : m \in S PROVE n \in S
  <2>. SUFFICES ASSUME n <= N PROVE IsOverlap(b, a, n, seen[n])
    OBVIOUS
  <2>1. n \in 0..N
    OBVIOUS
  <2>2. n # 0 => IsOverlap(b, a, n - 1, seen[n - 1])
    <3>1. n # 0 => n - 1 \in 0..(n - 1) /\ n - 1 <= N
      OBVIOUS
    <3>. QED
      BY <1>8, <3>1
  <2>3. IsOverlap(b, a, n, SeenBody(b, fail, a, seen, n))
    BY <1>2, <2>2, SeenGoesOn
  <2>. QED
    BY <1>4, <1>7, <2>1, <2>3
<1>. HIDE DEF S
<1>9. Nat \subseteq S
  BY <1>8, StrongInduction
<1>. QED
  BY <1>1, <1>9 DEF S

-----------------------------------------------------------------------------
(* Beginnings and ends of sequences *)

LEMMA FirstProps ==
  ASSUME NEW S, NEW s \in Seq(S), NEW n \in 0..Len(s)
  PROVE  /\ First(s, n) \in Seq(S) /\ Len(First(s, n)) = n
         /\ \A j \in 1..n : First(s, n)[j] = s[j]
<1>1. Len(s) \in Nat /\ n \in Int /\ \A i \in 1..n : s[i] \in S
  BY ElementOfSeq, LenProperties
<1>. QED
  BY <1>1, SubSeqProperties DEF First

LEMMA FromProps ==
  ASSUME NEW S, NEW s \in Seq(S), NEW n \in 1..(Len(s) + 1)
  PROVE  /\ From(s, n) \in Seq(S) /\ Len(From(s, n)) = Len(s) - n + 1
         /\ \A j \in 1..(Len(s) - n + 1) : From(s, n)[j] = s[n + j - 1]
<1>1. Len(s) \in Nat
  BY LenProperties
<1>2. n \in Int /\ Len(s) \in Int /\ \A i \in n..Len(s) : s[i] \in S
  BY <1>1, ElementOfSeq
<1>. QED
  BY <1>1, <1>2, SubSeqProperties DEF From

LEMMA FirstFrom ==
  ASSUME NEW S, NEW s \in Seq(S), NEW n \in 0..Len(s)
  PROVE  First(s, n) \o From(s, n + 1) = s
<1>. DEFINE f == First(s, n)
            r == From(s, n + 1)
            t == f \o r
<1>1. Len(s) \in Nat /\ n + 1 \in 1..(Len(s) + 1)
  BY LenProperties
<1>2. f \in Seq(S) /\ Len(f) = n /\ \A j \in 1..n : f[j] = s[j]
  BY FirstProps
<1>3. /\ r \in Seq(S) /\ Len(r) = Len(s) - n
      /\ \A j \in 1..(Len(s) - n) : r[j] = s[n + j]
  <2>1. /\ r \in Seq(S) /\ Len(r) = Len(s) - (n + 1) + 1
        /\ \A j \in 1..(Len(s) - (n + 1) + 1) : r[j] = s[(n + 1) + j - 1]
    BY <1>1, FromProps
  <2>2. Len(s) - (n + 1) + 1 = Len(s) - n /\ \A j \in 1..(Len(s) - n) : (n + 1) + j - 1 = n + j
    BY <1>1
  <2>. QED
    BY <2>1, <2>2
<1>. HIDE DEF f, r
<1>4. /\ t \in Seq(S) /\ Len(t) = Len(s)
      /\ \A i \in 1..Len(s) : t[i] = IF i <= n THEN f[i] ELSE r[i - n]
  <2>1. /\ t \in Seq(S) /\ Len(t) = Len(f) + Len(r)
        /\ \A i \in 1..(Len(f) + Len(r)) : t[i] = IF i <= Len(f) THEN f[i] ELSE r[i - Len(f)]
    BY <1>2, <1>3, ConcatProperties
  <2>. QED
    BY <1>1, <1>2, <1>3, <2>1
<1>. HIDE DEF t
<1>5. \A i \in 1..Len(t) : t[i] = s[i]
  <2>. SUFFICES ASSUME NEW i \in 1..Len(s) PROVE t[i] = s[i]
    BY <1>4
  <2>1. CASE i <= n
    BY <1>1, <1>2, <1>4, <2>1
  <2>2. CASE i > n
    <3>1. i - n \in 1..(Len(s) - n) /\ n + (i - n) = i
      BY <1>1, <2>2
    <3>. QED
      BY <1>1, <1>3, <1>4, <2>2, <3>1
  <2>. QED
    BY <1>1, <2>1, <2>2
<1>6. t = s
  BY <1>4, <1>5, SeqEqual
<1>. QED
  BY <1>6 DEF t, f, r

LEMMA FirstOfConcat ==
  ASSUME NEW S, NEW s \in Seq(S), NEW t \in Seq(S)
  PROVE  /\ \A n \in 0..Len(s) : First(s \o t, n) = First(s, n)
         /\ \A n \in 0..Len(t) : First(s \o t, Len(s) + n) = s \o First(t, n)
<1>1. Len(s) \in Nat /\ Len(t) \in Nat
  BY LenProperties
<1>2. /\ s \o t \in Seq(S) /\ Len(s \o t) = Len(s) + Len(t)
      /\ \A i \in 1..(Len(s) + Len(t)) : (s \o t)[i] = IF i <= Len(s) THEN s[i] ELSE t[i - Len(s)]
  BY ConcatProperties
<1>3. ASSUME NEW n \in 0..Len(s) PROVE First(s \o t, n) = First(s, n)
  <2>. DEFINE x == First(s \o t, n)
              y == First(s, n)
  <2>1. n \in 0..Len(s \o t)
    BY <1>1, <1>2
  <2>2. x \in Seq(S) /\ Len(x) = n /\ \A j \in 1..n : x[j] = (s \o t)[j]
    BY <1>2, <2>1, FirstProps
  <2>3. y \in Seq(S) /\ Len(y) = n /\ \A j \in 1..n : y[j] = s[j]
    BY FirstProps
  <2>. HIDE DEF x, y
  <2>4. \A j \in 1..Len(x) : x[j] = y[j]
    BY <1>1, <1>2, <2>2, <2>3
  <2>5. x = y
    BY <2>2, <2>3, <2>4, SeqEqual
  <2>. QED
    BY <2>5 DEF x, y
<1>4. ASSUME NEW n \in 0..Len(t) PROVE First(s \o t, Len(s) + n) = s \o First(t, n)
  <2>. DEFINE x == First(s \o t, Len(s) + n)
              f == First(t, n)
              y == s \o f
  <2>1. Len(s) + n \in 0..Len(s \o t)
    BY <1>1, <1>2
  <2>2. x \in Seq(S) /\ Len(x) = Len(s) + n /\ \A j \in 1..(Len(s) + n) : x[j] = (s \o t)[j]
    BY <1>2, <2>1, FirstProps
  <2>3. f \in Seq(S) /\ Len(f) = n /\ \A j \in 1..n : f[j] = t[j]
    BY FirstProps
  <2>. HIDE DEF x, f
  <2>4. /\ y \in Seq(S) /\ Len(y) = Len(s) + Len(f)
        /\ \A i \in 1..(Len(s) + Len(f)) : y[i] = IF i <= Len(s) THEN s[i] ELSE f[i - Len(s)]
    BY <2>3, ConcatProperties
  <2>. HIDE DEF y
  <2>5. ASSUME NEW j \in 1..Len(x) PROVE x[j] = y[j]
    <3>1. j \in 1..(Len(s) + n) /\ j \in 1..(Len(s) + Len(t))
      BY <1>1, <2>2
    <3>2. CASE j <= Len(s)
      BY <1>2, <2>2, <2>3, <2>4, <3>1, <3>2
    <3>3. CASE j > Len(s)
      <4>1. j - Len(s) \in 1..n /\ ~(j <= Len(s))
        BY <1>1, <3>1, <3>3
      <4>. QED
        BY <1>2, <2>2, <2>3, <2>4, <3>1, <4>1
    <3>. QED
      BY <1>1, <3>1, <3>2, <3>3
  <2>6. x = y
    BY <2>2, <2>3, <2>4, <2>5, SeqEqual
  <2>. QED
    BY <2>6 DEF x, y, f
<1>. QED
  BY <1>3, <1>4

LEMMA FromOfConcat ==
  ASSUME NEW S, NEW s \in Seq(S), NEW t \in Seq(S)
  PROVE  /\ \A n \in 1..(Len(s) + 1) : From(s \o t, n) = From(s, n) \o t
         /\ \A n \in 1..(Len(t) + 1) : From(s \o t, Len(s) + n) = From(t, n)
<1>1. Len(s) \in Nat /\ Len(t) \in Nat
  BY LenProperties
<1>2. /\ s \o t \in Seq(S) /\ Len(s \o t) = Len(s) + Len(t)
      /\ \A i \in 1..(Len(s) + Len(t)) : (s \o t)[i] = IF i <= Len(s) THEN s[i] ELSE t[i - Len(s)]
  BY ConcatProperties
<1>3. ASSUME NEW n \in 1..(Len(s) + 1) PROVE From(s \o t, n) = From(s, n) \o t
  <2>. DEFINE x == From(s \o t, n)
              f == From(s, n)
              y == f \o t
              u == s \o t
  <2>1. n \in 1..(Len(u) + 1)
    BY <1>1, <1>2
  <2>2. /\ x \in Seq(S) /\ Len(x) = Len(u) - n + 1
        /\ \A j \in 1..(Len(u) - n + 1) : x[j] = u[n + j - 1]
    BY <1>2, <2>1, FromProps
  <2>3. /\ f \in Seq(S) /\ Len(f) = Len(s) - n + 1
        /\ \A j \in 1..(Len(s) - n + 1) : f[j] = s[n + j - 1]
    BY FromProps
  <2>. HIDE DEF x, f
  <2>4. /\ y \in Seq(S) /\ Len(y) = Len(f) + Len(t)
        /\ \A i \in 1..(Len(f) + Len(t)) : y[i] = IF i <= Len(f) THEN f[i] ELSE t[i - Len(f)]
    BY <2>3, ConcatProperties
  <2>. HIDE DEF y
  <2>5. ASSUME NEW j \in 1..Len(x) PROVE x[j] = y[j]
    <3>1. j \in 1..(Len(s) + Len(t) - n + 1) /\ n + j - 1 \in 1..(Len(s) + Len(t))
      BY <1>1, <1>2, <2>2
    <3>2. x[j] = u[n + j - 1] /\ j \in 1..(Len(f) + Len(t))
      BY <1>1, <1>2, <2>2, <2>3, <3>1
    <3>3. CASE j <= Len(f)
      <4>1. n + j - 1 <= Len(s) /\ j \in 1..(Len(s) - n + 1)
        BY <1>1, <2>3, <3>1, <3>3
      <4>. QED
        BY <1>2, <2>3, <2>4, <3>1, <3>2, <3>3, <4>1
    <3>4. CASE j > Len(f)
      <4>1. ~(n + j - 1 <= Len(s)) /\ ~(j <= Len(f)) /\ (n + j - 1) - Len(s) = j - Len(f)
        BY <1>1, <2>3, <3>1, <3>4
      <4>. QED
        BY <1>2, <2>4, <3>1, <3>2, <4>1
    <3>. QED
      BY <1>1, <2>3, <3>1, <3>3, <3>4
  <2>6. Len(x) = Len(y)
    BY <1>1, <1>2, <2>2, <2>3, <2>4
  <2>7. x = y
    BY <2>2, <2>4, <2>5, <2>6, SeqEqual
  <2>. QED
    BY <2>7 DEF x, y, f
<1>4. ASSUME NEW n \in 1..(Len(t) + 1) PROVE From(s \o t, Len(s) + n) = From(t, n)
  <2>. DEFINE x == From(s \o t, Len(s) + n)
              y == From(t, n)
              u == s \o t
  <2>1. Len(s) + n \in 1..(Len(u) + 1)
    BY <1>1, <1>2
  <2>2. /\ x \in Seq(S) /\ Len(x) = Len(u) - (Len(s) + n) + 1
        /\ \A j \in 1..(Len(u) - (Len(s) + n) + 1) : x[j] = u[(Len(s) + n) + j - 1]
    BY <1>2, <2>1, FromProps
  <2>3. /\ y \in Seq(S) /\ Len(y) = Len(t) - n + 1
        /\ \A j \in 1..(Len(t) - n + 1) : y[j] = t[n + j - 1]
    BY FromProps
  <2>. HIDE DEF x, y
  <2>4. Len(x) = Len(y)
    BY <1>1, <1>2, <2>2, <2>3
  <2>5. ASSUME NEW j \in 1..Len(x) PROVE x[j] = y[j]
    <3>1. j \in 1..(Len(t) - n + 1) /\ (Len(s) + n) + j - 1 \in 1..(Len(s) + Len(t))
      BY <1>1, <2>3, <2>4
    <3>2. ~((Len(s) + n) + j - 1 <= Len(s)) /\ ((Len(s) + n) + j - 1) - Len(s) = n + j - 1
      BY <1>1, <3>1
    <3>3. x[j] = u[(Len(s) + n) + j - 1]
      BY <1>2, <2>2, <2>5
    <3>. QED
      BY <1>2, <2>3, <3>1, <3>2, <3>3
  <2>6. x = y
    BY <2>2, <2>3, <2>4, <2>5, SeqEqual
  <2>. QED
    BY <2>6 DEF x, y
<1>. QED
  BY <1>3, <1>4

\* A prefix, and what is behind it.
LEMMA PrefixSplit ==
  ASSUME NEW S, NEW s \in Seq(S), NEW t \in Seq(S), IsPrefix(s, t)
  PROVE  From(t, Len(s) + 1) \in Seq(S) /\ t = s \o From(t, Len(s) + 1)
<1>1. Len(s) \in Nat /\ Len(t) \in Nat /\ Len(s) <= Len(t) /\ SubSeq(s, 1, Len(s)) = First(t, Len(s))
  BY LenProperties DEF IsPrefix, First
<1>2. SubSeq(s, 1, Len(s)) = s
  BY SubSeqFull
<1>3. Len(s) \in 0..Len(t) /\ Len(s) + 1 \in 1..(Len(t) + 1)
  BY <1>1
<1>. QED
  BY <1>1, <1>2, <1>3, FirstFrom, FromProps

LEMMA PrefixOfConcat ==
  ASSUME NEW S, NEW s \in Seq(S), NEW t \in Seq(S)
  PROVE  IsPrefix(s, s \o t)
<1>1. Len(s) \in Nat /\ Len(t) \in Nat /\ Len(s \o t) = Len(s) + Len(t)
  BY LenProperties, ConcatProperties
<1>2. First(s \o t, Len(s)) = First(s, Len(s))
  BY <1>1, FirstOfConcat
<1>. QED
  BY <1>1, <1>2 DEF IsPrefix, First

LEMMA PrefixTransitive ==
  ASSUME NEW S, NEW s \in Seq(S), NEW t \in Seq(S), NEW u \in Seq(S), IsPrefix(s, t), IsPrefix(t, u)
  PROVE  IsPrefix(s, u)
<1>1. PICK x \in Seq(S) : t = s \o x
  BY PrefixSplit
<1>2. PICK y \in Seq(S) : u = t \o y
  BY PrefixSplit
<1>3. u = s \o (x \o y) /\ x \o y \in Seq(S)
  BY <1>1, <1>2, ConcatAssociative, ConcatProperties
<1>. QED
  BY <1>3, PrefixOfConcat

LEMMA FirstIsPrefix ==
  ASSUME NEW S, NEW s \in Seq(S), NEW n \in 0..Len(s)
  PROVE  IsPrefix(First(s, n), s)
<1>1. Len(s) \in Nat /\ n + 1 \in 1..(Len(s) + 1)
  BY LenProperties
<1>2. First(s, n) \in Seq(S) /\ From(s, n + 1) \in Seq(S) /\ s = First(s, n) \o From(s, n + 1)
  BY <1>1, FirstProps, FromProps, FirstFrom
<1>. QED
  BY <1>2, PrefixOfConcat

\* A suffix, position by position.
LEMMA SuffixEnds ==
  ASSUME NEW S, NEW b \in Seq(S), NEW n \in 0..Len(b), NEW s \in Seq(S)
  PROVE  IsSuffix(First(b, n), s) <=> Ends(b, n, s, Len(s))
<1>. DEFINE f == First(b, n)
            x == Reverse(f)
            y == Reverse(s)
            N == Len(s)
<1>1. N \in Nat /\ Len(b) \in Nat /\ n \in Nat
  BY LenProperties
<1>2. f \in Seq(S) /\ Len(f) = n /\ \A j \in 1..n : f[j] = b[j]
  BY FirstProps
<1>. HIDE DEF f
<1>3. x \in Seq(S) /\ Len(x) = n /\ \A j \in 1..n : x[j] = f[n - j + 1]
  <2>1. x = [i \in 1..n |-> f[(n - i) + 1]]
    BY <1>2 DEF Reverse
  <2>2. \A i \in 1..n : f[(n - i) + 1] \in S
    <3>. SUFFICES ASSUME NEW i \in 1..n PROVE f[(n - i) + 1] \in S
      OBVIOUS
    <3>1. (n - i) + 1 \in 1..n
      BY <1>1
    <3>. QED
      BY <1>2, <3>1, ElementOfSeq
  <2>. HIDE DEF x
  <2>3. x \in Seq(S) /\ Len(x) = n
    BY <1>1, <2>1, <2>2, IsASeq
  <2>. QED
    BY <2>1, <2>3
<1>4. y \in Seq(S) /\ Len(y) = N /\ \A j \in 1..N : y[j] = s[N - j + 1]
  <2>1. y = [i \in 1..N |-> s[(N - i) + 1]]
    BY DEF Reverse
  <2>2. \A i \in 1..N : s[(N - i) + 1] \in S
    <3>. SUFFICES ASSUME NEW i \in 1..N PROVE s[(N - i) + 1] \in S
      OBVIOUS
    <3>1. (N - i) + 1 \in 1..N
      BY <1>1
    <3>. QED
      BY <3>1, ElementOfSeq
  <2>. HIDE DEF y
  <2>3. y \in Seq(S) /\ Len(y) = N
    BY <1>1, <2>1, <2>2, IsASeq
  <2>. QED
    BY <2>1, <2>3
<1>. HIDE DEF x, y
<1>5. IsPrefix(x, y) <=> n <= N /\ \A j \in 1..n : x[j] = y[j]
  <2>1. SubSeq(x, 1, n) = x
    BY <1>3, SubSeqFull
  <2>2. CASE n <= N
    <3>1. First(y, n) \in Seq(S) /\ Len(First(y, n)) = n /\ \A j \in 1..n : First(y, n)[j] = y[j]
      BY <1>1, <1>4, <2>2, FirstProps
    <3>2. x = First(y, n) <=> \A j \in 1..n : x[j] = y[j]
      <4>1. (\A j \in 1..n : x[j] = First(y, n)[j]) => x = First(y, n)
        BY <1>3, <3>1, SeqEqual
      <4>. QED
        BY <3>1, <4>1
    <3>. QED
      BY <1>3, <1>4, <2>1, <2>2, <3>2 DEF IsPrefix, First
  <2>3. CASE ~(n <= N)
    BY <1>3, <1>4, <2>3 DEF IsPrefix
  <2>. QED
    BY <2>2, <2>3
<1>6. ASSUME n <= N
      PROVE  (\A j \in 1..n : x[j] = y[j]) <=> \A j \in 1..n : b[j] = s[N - n + j]
  <2>1. ASSUME NEW j \in 1..n
        PROVE  /\ n - j + 1 \in 1..n /\ n - (n - j + 1) + 1 = j
               /\ x[j] = b[n - j + 1] /\ y[j] = s[N - n + (n - j + 1)]
    <3>1. n - j + 1 \in 1..n /\ n - (n - j + 1) + 1 = j /\ j \in 1..N /\ N - j + 1 = N - n + (n - j + 1)
      BY <1>1, <1>6
    <3>. QED
      BY <1>2, <1>3, <1>4, <3>1
  <2>2. ASSUME \A j \in 1..n : x[j] = y[j], NEW j \in 1..n PROVE b[j] = s[N - n + j]
    <3>. DEFINE i == n - j + 1
    <3>1. i \in 1..n /\ n - i + 1 = j
      BY <2>1
    <3>. HIDE DEF i
    <3>2. x[i] = b[n - i + 1] /\ y[i] = s[N - n + (n - i + 1)] /\ x[i] = y[i]
      BY <2>1, <2>2, <3>1
    <3>. QED
      BY <3>1, <3>2
  <2>3. ASSUME \A j \in 1..n : b[j] = s[N - n + j], NEW j \in 1..n PROVE x[j] = y[j]
    <3>1. b[n - j + 1] = s[N - n + (n - j + 1)]
      BY <2>1, <2>3
    <3>. QED
      BY <2>1, <3>1
  <2>. QED
    BY <2>2, <2>3
<1>. QED
  BY <1>1, <1>5, <1>6 DEF IsSuffix, Ends, x, y, f

(***************************************************************************)
(* What the code takes for new in a chunk is what is new.                  *)
(***************************************************************************)
THEOREM DeltaIsNews ==
  ASSUME NEW last \in Seq(Chars), NEW chunk \in Seq(Chars),
         IsPrefix(last, chunk) \/ ~IsPrefix(chunk, last)
  PROVE  ComputeDelta(chunk, last) = News(chunk, last) /\ News(chunk, last) \in Seq(Chars)
<1>. DEFINE N == Len(last)
            M == Len(chunk)
<1>1. N \in Nat /\ M \in Nat
  BY LenProperties
<1>2. CASE IsPrefix(last, chunk)
  BY <1>2, PrefixSplit DEF ComputeDelta, News
<1>3. CASE ~IsPrefix(last, chunk)
  <2>1. ~IsPrefix(chunk, last)
    BY <1>3
  <2>2. M # 0
    <3>1. SUFFICES ASSUME M = 0 PROVE IsPrefix(chunk, last)
      BY <2>1
    <3>2. chunk = <<>> /\ last = <<>> \o last
      BY <1>1, <3>1, EmptySeq, ConcatEmptySeq
    <3>. QED
      BY <3>2, PrefixOfConcat, EmptySeq
  <2>. DEFINE v == kmpOverlap(last, chunk)
              T == {n \in 0..N : n < M /\ IsSuffix(First(chunk, n), last)}
  <2>3. IsOverlap(chunk, last, N, v)
    BY <1>1, <2>2, LongestOverlap
  <2>. HIDE DEF v
  <2>4. v \in 0..(M - 1) /\ v \in 0..N
    BY <1>1, <2>3 DEF IsOverlap, Ends
  <2>5. \A n \in 0..N : n \in T <=> n \in 0..(M - 1) /\ Ends(chunk, n, last, N)
    <3>. SUFFICES ASSUME NEW n \in 0..N PROVE n \in T <=> n \in 0..(M - 1) /\ Ends(chunk, n, last, N)
      OBVIOUS
    <3>1. n < M <=> n \in 0..(M - 1)
      BY <1>1
    <3>2. n \in 0..(M - 1) => n \in 0..M
      BY <1>1
    <3>3. n \in 0..M => (IsSuffix(First(chunk, n), last) <=> Ends(chunk, n, last, N))
      BY SuffixEnds
    <3>. QED
      BY <3>1, <3>2, <3>3
  <2>6. v \in T /\ \A n \in T : v >= n
    <3>1. v \in T
      BY <2>3, <2>4, <2>5 DEF IsOverlap
    <3>2. ASSUME NEW n \in T PROVE v >= n
      <4>1. n \in 0..N
        OBVIOUS
      <4>2. n \in 0..(M - 1) /\ Ends(chunk, n, last, N)
        BY <2>5, <4>1
      <4>3. n <= v
        BY <2>3, <4>2 DEF IsOverlap
      <4>. QED
        BY <2>4, <4>1, <4>3
    <3>. QED
      BY <3>1, <3>2
  <2>7. T \subseteq Nat
    OBVIOUS
  <2>8. Max(T) = v
    <3>. HIDE DEF T
    <3>1. \A x \in T : (\A y \in T : x >= y) => x = v
      BY <2>6, <2>7
    <3>. QED
      BY <2>6, <3>1 DEF Max
  <2>9. News(chunk, last) = From(chunk, v + 1)
    BY <1>3, <2>8 DEF News
  <2>10. ComputeDelta(chunk, last) = From(chunk, v + 1)
    BY <1>3, <2>1 DEF ComputeDelta, v
  <2>11. v + 1 \in 1..(M + 1)
    BY <1>1, <2>4
  <2>. QED
    BY <2>9, <2>10, <2>11, FromProps
<1>. QED
  BY <1>2, <1>3

LEMMA ChunksAreTexts ==
  ASSUME content \in Seq(Chars), NEW c, c \in Chunks
  PROVE  c \in Seq(Chars) /\ (IsPrefix(content, c) \/ ~IsPrefix(c, content))
<1>1. MaxDelta \in Nat
  BY TextAssumption
<1>2. \A n \in Nat : SeqOf(Chars, n) \subseteq Seq(Chars)
  <2>1. \A n \in Nat : \A m \in 0..n : m \in Nat
    OBVIOUS
  <2>. QED
    BY <2>1, SeqDef DEF SeqOf
<1>3. CASE \E new \in SeqOf(Chars, MaxDelta) : c = content \o new
  <2>1. PICK new \in Seq(Chars) : c = content \o new
    BY <1>1, <1>2, <1>3
  <2>. QED
    BY <2>1, ConcatProperties, PrefixOfConcat
<1>4. CASE /\ \E i \in 2..Len(content), new \in SeqOf(Chars, 1) : c = From(content, i) \o new
           /\ ~IsPrefix(c, content)
  <2>1. PICK i \in 2..Len(content), new \in Seq(Chars) : c = From(content, i) \o new
    BY <1>2, <1>4
  <2>2. i \in 1..(Len(content) + 1)
    BY LenProperties
  <2>. QED
    BY <1>4, <2>1, <2>2, FromProps, ConcatProperties
<1>. DEFINE W == {From(content, i) \o new : i \in 2..Len(content), new \in SeqOf(Chars, 1) \ {<<>>}}
<1>5. c \in {content \o new : new \in SeqOf(Chars, MaxDelta)} \/ (c \in W /\ ~IsPrefix(c, content))
  <2>1. Chunks = {content \o new : new \in SeqOf(Chars, MaxDelta)} \cup {x \in W : ~IsPrefix(x, content)}
    BY DEF Chunks
  <2>. HIDE DEF W
  <2>. QED
    BY <2>1
<1>6. c \in W => \E i \in 2..Len(content), new \in SeqOf(Chars, 1) : c = From(content, i) \o new
  OBVIOUS
<1>. HIDE DEF W
<1>. QED
  BY <1>3, <1>4, <1>5, <1>6

-----------------------------------------------------------------------------
(* Where a sequence occurs *)

StandsAt(p, s, i) ==
  i >= 1 /\ i + Len(p) - 1 <= Len(s) /\ \A j \in 1..Len(p) : s[i + j - 1] = p[j]

\* It occurs if it stands somewhere.
LEMMA OccursSomewhere ==
  ASSUME NEW S, NEW p \in Seq(S), p # <<>>, NEW s \in Seq(S)
  PROVE  Occurs(p, s) <=> \E i \in Nat : StandsAt(p, s, i)
<1>1. Len(p) \in Nat \ {0} /\ Len(s) \in Nat
  BY EmptySeq, LenProperties
<1>2. ASSUME NEW m \in 1..Len(s), NEW n \in m..Len(s)
      PROVE  /\ SubSeq(s, m, n) \in Seq(S) /\ Len(SubSeq(s, m, n)) = n - m + 1
             /\ \A i \in 1..(n - m + 1) : SubSeq(s, m, n)[i] = s[m + i - 1]
  <2>1. m \in Int /\ n \in Int /\ m <= n /\ \A i \in m..n : s[i] \in S
    BY <1>1, ElementOfSeq
  <2>. QED
    BY <2>1, SubSeqProperties
<1>3. ASSUME Occurs(p, s) PROVE \E i \in Nat : StandsAt(p, s, i)
  <2>1. PICK i \in 0..Len(s), j \in 0..Len(s) : p = SubSeq(s, i + 1, j)
    BY <1>3 DEF Occurs, SubSeqs
  <2>2. i + 1 <= j
    <3>1. SUFFICES ASSUME j < i + 1 PROVE p = <<>>
      BY <1>1
    <3>. QED
      BY <2>1, <3>1, SubSeqEmpty
  <2>. DEFINE m == i + 1
  <2>3. m \in 1..Len(s) /\ j \in m..Len(s) /\ m \in Nat
    BY <1>1, <2>2
  <2>4. p = SubSeq(s, m, j)
    BY <2>1
  <2>. HIDE DEF m
  <2>5. Len(p) = j - m + 1 /\ \A k \in 1..(j - m + 1) : p[k] = s[m + k - 1]
    BY <1>2, <2>3, <2>4
  <2>6. m >= 1 /\ m + Len(p) - 1 <= Len(s)
    BY <1>1, <2>3, <2>5
  <2>. QED
    BY <2>3, <2>5, <2>6 DEF StandsAt
<1>4. ASSUME NEW i \in Nat, StandsAt(p, s, i) PROVE Occurs(p, s)
  <2>. DEFINE n == i + Len(p) - 1
              q == SubSeq(s, i, n)
  <2>1. i \in 1..Len(s) /\ n \in i..Len(s) /\ n - i + 1 = Len(p) /\ \A j \in 1..Len(p) : s[i + j - 1] = p[j]
    BY <1>1, <1>4 DEF StandsAt
  <2>2. /\ q \in Seq(S) /\ Len(q) = n - i + 1 /\ \A k \in 1..(n - i + 1) : q[k] = s[i + k - 1]
    BY <1>2, <2>1
  <2>. HIDE DEF q
  <2>3. p = q
    BY <2>1, <2>2, SeqEqual
  <2>4. i - 1 \in 0..Len(s) /\ n \in 0..Len(s) /\ (i - 1) + 1 = i
    BY <1>1, <2>1
  <2>5. p = SubSeq(s, (i - 1) + 1, n)
    BY <2>3, <2>4 DEF q
  <2>. HIDE DEF n
  <2>6. \E x \in 0..Len(s), y \in 0..Len(s) : p = SubSeq(s, x + 1, y)
    BY <2>4, <2>5
  <2>. QED
    BY <2>6 DEF Occurs, SubSeqs
<1>. QED
  BY <1>3, <1>4

\* In what two make together it stands in the one or the other, or over both.
LEMMA StandsInConcat ==
  ASSUME NEW S, NEW p, Len(p) \in Nat, NEW s \in Seq(S), NEW t \in Seq(S)
  PROVE  /\ \A i \in Nat : i + Len(p) - 1 <= Len(s) => (StandsAt(p, s \o t, i) <=> StandsAt(p, s, i))
         /\ \A i \in Nat \ {0} : StandsAt(p, s \o t, Len(s) + i) <=> StandsAt(p, t, i)
<1>. DEFINE u == s \o t
<1>1. Len(s) \in Nat /\ Len(t) \in Nat
  BY LenProperties
<1>2. /\ u \in Seq(S) /\ Len(u) = Len(s) + Len(t)
      /\ \A i \in 1..(Len(s) + Len(t)) : u[i] = IF i <= Len(s) THEN s[i] ELSE t[i - Len(s)]
  BY ConcatProperties
<1>. HIDE DEF u
<1>3. ASSUME NEW i \in Nat, i + Len(p) - 1 <= Len(s) PROVE StandsAt(p, u, i) <=> StandsAt(p, s, i)
  <2>1. i + Len(p) - 1 <= Len(u)
    BY <1>1, <1>2, <1>3
  <2>2. ASSUME i >= 1, NEW j \in 1..Len(p) PROVE u[i + j - 1] = s[i + j - 1]
    <3>1. i + j - 1 \in 1..(Len(s) + Len(t)) /\ i + j - 1 <= Len(s)
      BY <1>1, <1>3, <2>2
    <3>. QED
      BY <1>2, <3>1
  <2>. QED
    BY <1>3, <2>1, <2>2 DEF StandsAt
<1>4. ASSUME NEW i \in Nat \ {0} PROVE StandsAt(p, u, Len(s) + i) <=> StandsAt(p, t, i)
  <2>1. (Len(s) + i) + Len(p) - 1 <= Len(u) <=> i + Len(p) - 1 <= Len(t)
    BY <1>1, <1>2
  <2>2. ASSUME i + Len(p) - 1 <= Len(t), NEW j \in 1..Len(p) PROVE u[(Len(s) + i) + j - 1] = t[i + j - 1]
    <3>. DEFINE k == (Len(s) + i) + j - 1
    <3>1. k \in 1..(Len(s) + Len(t)) /\ ~(k <= Len(s)) /\ k - Len(s) = i + j - 1
      BY <1>1, <2>2
    <3>. HIDE DEF k
    <3>2. u[k] = t[i + j - 1]
      BY <1>2, <3>1
    <3>. QED
      BY <3>2 DEF k
  <2>3. Len(s) + i >= 1 /\ i >= 1
    BY <1>1
  <2>. QED
    BY <2>1, <2>2, <2>3 DEF StandsAt
<1>. QED
  BY <1>3, <1>4 DEF u

\* The first place.
IsFirstPlace(p, s, k) == StandsAt(p, s, k) /\ \A i \in Nat : StandsAt(p, s, i) => k <= i

LEMMA FirstPlace ==
  ASSUME NEW S, NEW p \in Seq(S), p # <<>>, NEW s \in Seq(S), Occurs(p, s)
  PROVE  IndexFirstSubSeq(p, s) \in Nat /\ IsFirstPlace(p, s, IndexFirstSubSeq(p, s))
<1>. DEFINE L == Len(p)
            N == Len(s)
            P(i) == i \in 0..N /\ p \in SubSeqs(SubSeq(s, 1, i)) /\ \A j \in 0..i-1 : p \notin SubSeqs(SubSeq(s, 1, j))
            last == CHOOSE i \in 0..N : /\ p \in SubSeqs(SubSeq(s, 1, i))
                                        /\ \A j \in 0..i-1 : p \notin SubSeqs(SubSeq(s, 1, j))
<1>1. L \in Nat \ {0} /\ N \in Nat
  BY EmptySeq, LenProperties
<1>2. ASSUME NEW n \in 0..N
      PROVE  p \in SubSeqs(SubSeq(s, 1, n)) <=> \E i \in Nat : StandsAt(p, s, i) /\ i + L - 1 <= n
  <2>. DEFINE f == First(s, n)
              r == From(s, n + 1)
  <2>1. n + 1 \in 1..(N + 1)
    BY <1>1
  <2>2. f \in Seq(S) /\ Len(f) = n /\ r \in Seq(S) /\ s = f \o r
    BY <2>1, FirstProps, FromProps, FirstFrom
  <2>3. Occurs(p, f) <=> p \in SubSeqs(SubSeq(s, 1, n))
    BY DEF Occurs, First
  <2>. HIDE DEF f, r
  <2>4. \A i \in Nat : i + L - 1 <= n => (StandsAt(p, s, i) <=> StandsAt(p, f, i))
    BY <1>1, <2>2, StandsInConcat
  <2>5. \A i \in Nat : StandsAt(p, f, i) => i + L - 1 <= n
    BY <2>2 DEF StandsAt
  <2>6. Occurs(p, f) <=> \E i \in Nat : StandsAt(p, f, i)
    BY <2>2, OccursSomewhere
  <2>. QED
    BY <2>3, <2>4, <2>5, <2>6
<1>. DEFINE T == {i \in Nat : StandsAt(p, s, i)}
<1>3. T # {}
  BY OccursSomewhere
<1>4. PICK k \in T : \A i \in T : k <= i
  <2>1. T \subseteq Nat
    OBVIOUS
  <2>. HIDE DEF T
  <2>. QED
    BY <1>3, <2>1, LeastNat
<1>5. k \in Nat /\ StandsAt(p, s, k) /\ \A i \in Nat : StandsAt(p, s, i) => k <= i
  BY <1>4
<1>6. k + L - 1 \in 0..N
  BY <1>1, <1>5 DEF StandsAt
<1>7. ASSUME NEW n \in 0..N PROVE p \in SubSeqs(SubSeq(s, 1, n)) <=> k + L - 1 <= n
  <2>1. ASSUME k + L - 1 <= n PROVE \E i \in Nat : StandsAt(p, s, i) /\ i + L - 1 <= n
    BY <1>5, <2>1
  <2>2. ASSUME NEW i \in Nat, StandsAt(p, s, i), i + L - 1 <= n PROVE k + L - 1 <= n
    <3>1. k <= i
      BY <1>5, <2>2
    <3>. QED
      BY <1>1, <1>5, <2>2, <3>1
  <2>. QED
    BY <1>2, <2>1, <2>2
<1>8. \A i \in 0..N : P(i) <=> i = k + L - 1
  <2>. SUFFICES ASSUME NEW i \in 0..N PROVE P(i) <=> i = k + L - 1
    OBVIOUS
  <2>1. \A j \in 0..(i - 1) : j \in 0..N /\ j < i
    BY <1>1
  <2>2. P(i) <=> k + L - 1 <= i /\ \A j \in 0..(i - 1) : ~(k + L - 1 <= j)
    BY <1>7, <2>1
  <2>3. ASSUME k + L - 1 <= i, \A j \in 0..(i - 1) : ~(k + L - 1 <= j) PROVE i = k + L - 1
    <3>1. SUFFICES ASSUME k + L - 1 < i PROVE FALSE
      BY <1>1, <1>5, <2>3
    <3>2. k + L - 1 \in 0..(i - 1)
      BY <1>1, <1>6, <3>1
    <3>3. ~(k + L - 1 <= k + L - 1)
      BY <2>3, <3>2
    <3>. QED
      BY <1>1, <1>5, <3>3
  <2>4. ASSUME i = k + L - 1 PROVE k + L - 1 <= i /\ \A j \in 0..(i - 1) : ~(k + L - 1 <= j)
    BY <1>1, <1>5, <2>1, <2>4
  <2>. QED
    BY <2>2, <2>3, <2>4
<1>9. last = k + L - 1
  BY <1>6, <1>8
<1>10. IndexFirstSubSeq(p, s) = last - (L - 1)
  BY DEF IndexFirstSubSeq
<1>. HIDE DEF last, L
<1>11. IndexFirstSubSeq(p, s) = k
  BY <1>1, <1>5, <1>9, <1>10
<1>. QED
  BY <1>5, <1>11 DEF IsFirstPlace

LEMMA FirstPlaceUnique ==
  ASSUME NEW S, NEW p \in Seq(S), p # <<>>, NEW s \in Seq(S), NEW k \in Nat, IsFirstPlace(p, s, k)
  PROVE  Occurs(p, s) /\ IndexFirstSubSeq(p, s) = k
<1>1. Occurs(p, s)
  BY OccursSomewhere DEF IsFirstPlace
<1>2. IndexFirstSubSeq(p, s) \in Nat /\ IsFirstPlace(p, s, IndexFirstSubSeq(p, s))
  BY <1>1, FirstPlace
<1>. DEFINE i == IndexFirstSubSeq(p, s)
<1>. HIDE DEF i
<1>3. i \in Nat /\ IsFirstPlace(p, s, i)
  BY <1>2 DEF i
<1>4. i <= k /\ k <= i
  BY <1>3 DEF IsFirstPlace
<1>5. i = k
  BY <1>3, <1>4
<1>. QED
  BY <1>1, <1>5 DEF i

-----------------------------------------------------------------------------
(* The tag parser *)

Tag(inside) == IF inside THEN CloseTag ELSE OpenTag

LEMMA TagType ==
  ASSUME NEW inside
  PROVE  Tag(inside) \in Seq(Chars) /\ Tag(inside) # <<>> /\ Len(Tag(inside)) \in Nat \ {0}
<1>1. Tag(inside) \in Seq(Chars) /\ Tag(inside) # <<>>
  BY TextAssumption DEF Tag
<1>. QED
  BY <1>1, EmptySeq

\* The longest end of s that is a beginning of the tag, but not all of it.
IsPartial(tag, s, n) ==
  /\ n \in 0..Len(s) /\ n < Len(tag) /\ Ends(tag, n, s, Len(s))
  /\ \A m \in 0..Len(s) : m < Len(tag) /\ Ends(tag, m, s, Len(s)) => m <= n

LEMMA PartialSuffix ==
  ASSUME NEW S, NEW tag \in Seq(S), tag # <<>>, NEW s \in Seq(S)
  PROVE  IsPartial(tag, s, partialTagSuffix(s, tag))
<1>. DEFINE N == Len(s)
            L == Len(tag)
            Fits(n) == n < L /\ From(s, N - n + 1) = First(tag, n)
            Good(n) == /\ n < L /\ From(s, N - n + 1) = First(tag, n)
                       /\ \A m \in n + 1..N : m < L => From(s, N - m + 1) # First(tag, m)
<1>1. L \in Nat \ {0} /\ N \in Nat
  BY EmptySeq, LenProperties
<1>2. ASSUME NEW n \in 0..N, n < L PROVE From(s, N - n + 1) = First(tag, n) <=> Ends(tag, n, s, N)
  <2>. DEFINE x == From(s, N - n + 1)
              y == First(tag, n)
  <2>1. N - n + 1 \in 1..(N + 1) /\ n \in 0..L /\ N - (N - n + 1) + 1 = n
    BY <1>1, <1>2
  <2>2. x \in Seq(S) /\ Len(x) = n /\ \A j \in 1..n : x[j] = s[(N - n + 1) + j - 1]
    BY <2>1, FromProps
  <2>3. y \in Seq(S) /\ Len(y) = n /\ \A j \in 1..n : y[j] = tag[j]
    BY <2>1, FirstProps
  <2>. HIDE DEF x, y
  <2>4. \A j \in 1..n : (N - n + 1) + j - 1 = N - n + j
    BY <1>1
  <2>5. n <= N
    BY <1>1
  <2>6. x = y <=> \A j \in 1..n : x[j] = y[j]
    BY <2>2, <2>3, SeqEqual
  <2>7. x = y <=> Ends(tag, n, s, N)
    BY <2>2, <2>3, <2>4, <2>5, <2>6 DEF Ends
  <2>. QED
    BY <2>7 DEF x, y
<1>. DEFINE T == {n \in 0..N : n < L /\ Ends(tag, n, s, N)}
<1>3. 0 \in T /\ T \subseteq 0..N
  BY <1>1, EndsTrivial
<1>4. PICK v \in T : \A m \in T : m <= v
  <2>. HIDE DEF T
  <2>. QED
    BY <1>1, <1>3, Greatest
<1>5. IsPartial(tag, s, v)
  BY <1>4 DEF IsPartial
<1>6. ASSUME NEW n \in 0..N PROVE Good(n) <=> n = v
  <2>1. v \in 0..N /\ v < L /\ Ends(tag, v, s, N) /\ \A m \in 0..N : m < L /\ Ends(tag, m, s, N) => m <= v
    BY <1>5 DEF IsPartial
  <2>2. n + 1..N \subseteq 0..N /\ \A m \in n + 1..N : m > n
    BY <1>1
  <2>3. Good(n) <=> /\ n < L /\ Ends(tag, n, s, N)
                    /\ \A m \in n + 1..N : m < L => ~Ends(tag, m, s, N)
    BY <1>2, <2>2
  <2>4. ASSUME n = v PROVE Good(n)
    BY <2>1, <2>2, <2>3, <2>4
  <2>5. ASSUME Good(n) PROVE n = v
    <3>1. n <= v
      BY <2>1, <2>3, <2>5
    <3>2. ~(v \in n + 1..N)
      BY <2>1, <2>3, <2>5
    <3>. QED
      BY <1>1, <2>1, <3>1, <3>2
  <2>. QED
    BY <2>4, <2>5
<1>7. partialTagSuffix(s, tag) = CHOOSE n \in 0..N : Good(n)
  BY DEF partialTagSuffix
<1>8. v \in 0..N
  BY <1>4
<1>9. partialTagSuffix(s, tag) = v
  <2>. HIDE DEF Good
  <2>. QED
    BY <1>6, <1>7, <1>8
<1>. QED
  BY <1>5, <1>9

\* What the parser returns.
Parsed == [text : Seq(Chars), thinking : Seq(Chars), tagBuf : Seq(Chars), inside : BOOLEAN, opened : BOOLEAN]

\* Without a tag in the buffer.
Held(buf, inside, kept) ==
  Routed(inside, First(buf, kept),
         [text |-> <<>>, thinking |-> <<>>, tagBuf |-> From(buf, kept + 1),
          inside |-> inside, opened |-> FALSE])

\* With a tag at i, and rest read behind it.
Through(buf, inside, i, rest) == Routed(inside, First(buf, i - 1), [rest EXCEPT !.opened = @ \/ ~inside])

\* One round of the parser, with f for the rest.
ParseBody(f, buf, inside) ==
  IF Occurs(Tag(inside), buf)
    THEN LET i == IndexFirstSubSeq(Tag(inside), buf)
         IN Through(buf, inside, i, f[From(buf, i + Len(Tag(inside)))][~inside])
    ELSE Held(buf, inside, Len(buf) - partialTagSuffix(buf, Tag(inside)))

LEMMA RoutedType ==
  ASSUME NEW inside \in BOOLEAN, NEW s \in Seq(Chars), NEW r \in Parsed
  PROVE  Routed(inside, s, r) \in Parsed
<1>1. r.thinking \in Seq(Chars) /\ r.text \in Seq(Chars)
  BY DEF Parsed
<1>2. s \o r.thinking \in Seq(Chars) /\ s \o r.text \in Seq(Chars)
  BY <1>1, ConcatProperties
<1>. QED
  BY <1>2 DEF Routed, Parsed

\* Behind a tag the rest is shorter.
LEMMA RestShorter ==
  ASSUME NEW buf \in Seq(Chars), NEW inside \in BOOLEAN, Occurs(Tag(inside), buf),
         NEW i, i = IndexFirstSubSeq(Tag(inside), buf)
  PROVE  /\ i \in 1..Len(buf) /\ i - 1 \in 0..Len(buf) /\ i + Len(Tag(inside)) \in 1..(Len(buf) + 1)
         /\ From(buf, i + Len(Tag(inside))) \in Seq(Chars)
         /\ Len(From(buf, i + Len(Tag(inside)))) \in 0..(Len(buf) - 1)
<1>. DEFINE tag == Tag(inside)
<1>1. tag \in Seq(Chars) /\ tag # <<>> /\ Len(tag) \in Nat \ {0} /\ Len(buf) \in Nat
  BY TagType, LenProperties
<1>2. i \in Nat /\ StandsAt(tag, buf, i)
  BY <1>1, FirstPlace DEF IsFirstPlace
<1>. HIDE DEF tag
<1>3. i \in 1..Len(buf) /\ i - 1 \in 0..Len(buf) /\ i + Len(tag) \in 1..(Len(buf) + 1)
  BY <1>1, <1>2 DEF StandsAt
<1>4. /\ From(buf, i + Len(tag)) \in Seq(Chars)
      /\ Len(From(buf, i + Len(tag))) = Len(buf) - (i + Len(tag)) + 1
  BY <1>3, FromProps
<1>5. Len(buf) - (i + Len(tag)) + 1 \in 0..(Len(buf) - 1)
  BY <1>1, <1>2 DEF StandsAt
<1>. QED
  BY <1>3, <1>4, <1>5 DEF tag

LEMMA HeldType ==
  ASSUME NEW buf \in Seq(Chars), NEW inside \in BOOLEAN, NEW kept \in 0..Len(buf)
  PROVE  Held(buf, inside, kept) \in Parsed
<1>1. Len(buf) \in Nat /\ kept + 1 \in 1..(Len(buf) + 1)
  BY LenProperties
<1>2. First(buf, kept) \in Seq(Chars) /\ From(buf, kept + 1) \in Seq(Chars)
  BY <1>1, FirstProps, FromProps
<1>3. [text |-> <<>>, thinking |-> <<>>, tagBuf |-> From(buf, kept + 1),
       inside |-> inside, opened |-> FALSE] \in Parsed
  BY <1>2, EmptySeq DEF Parsed
<1>. QED
  BY <1>2, <1>3, RoutedType DEF Held

LEMMA KeptRange ==
  ASSUME NEW buf \in Seq(Chars), NEW inside \in BOOLEAN
  PROVE  Len(buf) - partialTagSuffix(buf, Tag(inside)) \in 0..Len(buf)
<1>1. IsPartial(Tag(inside), buf, partialTagSuffix(buf, Tag(inside)))
  BY TagType, PartialSuffix
<1>2. Len(buf) \in Nat /\ partialTagSuffix(buf, Tag(inside)) \in 0..Len(buf)
  BY <1>1, LenProperties DEF IsPartial
<1>. QED
  BY <1>2

\* A round only asks for the rest of shorter buffers.
LEMMA ParseBodyLocal ==
  ASSUME NEW buf \in Seq(Chars), NEW inside \in BOOLEAN, NEW f, NEW g,
         \A q \in Seq(Chars) : Len(q) < Len(buf) => f[q] = g[q]
  PROVE  ParseBody(f, buf, inside) = ParseBody(g, buf, inside)
<1>1. CASE Occurs(Tag(inside), buf)
  <2>. DEFINE i == IndexFirstSubSeq(Tag(inside), buf)
              q == From(buf, i + Len(Tag(inside)))
  <2>1. q \in Seq(Chars) /\ Len(q) \in 0..(Len(buf) - 1) /\ Len(buf) \in Nat
    BY <1>1, RestShorter, LenProperties
  <2>. HIDE DEF q
  <2>2. f[q] = g[q]
    BY <2>1
  <2>. QED
    BY <1>1, <2>2 DEF ParseBody, q
<1>2. CASE ~Occurs(Tag(inside), buf)
  BY <1>2 DEF ParseBody
<1>. QED
  BY <1>1, <1>2

LEMMA ParseBodyType ==
  ASSUME NEW buf \in Seq(Chars), NEW inside \in BOOLEAN, NEW f,
         \A q \in Seq(Chars) : Len(q) < Len(buf) => f[q] \in [BOOLEAN -> Parsed]
  PROVE  ParseBody(f, buf, inside) \in Parsed
<1>1. CASE Occurs(Tag(inside), buf)
  <2>. DEFINE i == IndexFirstSubSeq(Tag(inside), buf)
              q == From(buf, i + Len(Tag(inside)))
              r == f[q][~inside]
  <2>1. q \in Seq(Chars) /\ Len(q) \in 0..(Len(buf) - 1) /\ Len(buf) \in Nat /\ i - 1 \in 0..Len(buf)
    BY <1>1, RestShorter, LenProperties
  <2>2. ParseBody(f, buf, inside) = Through(buf, inside, i, r)
    BY <1>1 DEF ParseBody
  <2>. HIDE DEF q
  <2>3. f[q] \in [BOOLEAN -> Parsed]
    BY <2>1
  <2>4. r \in Parsed
    BY <2>3
  <2>. HIDE DEF r, i
  <2>5. [r EXCEPT !.opened = @ \/ ~inside] \in Parsed
    BY <2>4, Zenon DEF Parsed
  <2>6. First(buf, i - 1) \in Seq(Chars)
    BY <2>1, FirstProps
  <2>. QED
    BY <2>2, <2>5, <2>6, RoutedType DEF Through
<1>2. CASE ~Occurs(Tag(inside), buf)
  BY <1>2, KeptRange, HeldType DEF ParseBody
<1>. QED
  BY <1>1, <1>2

\* g is the parser on the buffers shorter than n.
ParsesBelow(g, n) ==
  \A q \in Seq(Chars) : Len(q) < n => g[q] = [inside \in BOOLEAN |-> ParseBody(g, q, inside)]

LEMMA ParsersAgree ==
  ASSUME NEW n \in Nat, NEW f, ParsesBelow(f, n), NEW g, ParsesBelow(g, n)
  PROVE  \A q \in Seq(Chars) : Len(q) < n => f[q] = g[q]
<1>. DEFINE S == {m \in Nat : \A q \in Seq(Chars) : Len(q) = m /\ Len(q) < n => f[q] = g[q]}
<1>1. ASSUME NEW m \in Nat, \A k \in 0..(m - 1) : k \in S PROVE m \in S
  <2>. SUFFICES ASSUME NEW q \in Seq(Chars), Len(q) = m, Len(q) < n PROVE f[q] = g[q]
    OBVIOUS
  <2>1. ASSUME NEW p \in Seq(Chars), Len(p) < Len(q) PROVE f[p] = g[p]
    <3>1. Len(p) \in 0..(m - 1) /\ Len(p) < n
      BY <2>1, LenProperties
    <3>. QED
      BY <1>1, <3>1
  <2>2. \A inside \in BOOLEAN : ParseBody(f, q, inside) = ParseBody(g, q, inside)
    BY <2>1, ParseBodyLocal
  <2>3. f[q] = [inside \in BOOLEAN |-> ParseBody(f, q, inside)] /\ g[q] = [inside \in BOOLEAN |-> ParseBody(g, q, inside)]
    BY DEF ParsesBelow
  <2>. QED
    BY <2>2, <2>3
<1>. HIDE DEF S
<1>2. Nat \subseteq S
  BY <1>1, StrongInduction
<1>3. \A q \in Seq(Chars) : Len(q) \in S
  BY <1>2, LenProperties
<1>. QED
  BY <1>3 DEF S

LEMMA ParserBelow ==
  ASSUME NEW n \in Nat
  PROVE  \E g : ParsesBelow(g, n)
<1>. DEFINE S == {m \in Nat : \E g : ParsesBelow(g, m)}
<1>1. ASSUME NEW m \in Nat, \A k \in 0..(m - 1) : k \in S PROVE m \in S
  <2>1. CASE m = 0
    <3>1. \A q \in Seq(Chars) : ~(Len(q) < m)
      BY <2>1, LenProperties
    <3>2. ParsesBelow(<<>>, m)
      BY <3>1 DEF ParsesBelow
    <3>. QED
      BY <3>2
  <2>2. CASE m # 0
    <3>1. m - 1 \in 0..(m - 1)
      BY <2>2
    <3>2. PICK g : ParsesBelow(g, m - 1)
      BY <1>1, <3>1
    <3>. DEFINE h == [q \in Seq(Chars) |-> [inside \in BOOLEAN |-> ParseBody(g, q, inside)]]
    <3>3. ASSUME NEW q \in Seq(Chars), Len(q) < m
          PROVE  h[q] = [inside \in BOOLEAN |-> ParseBody(h, q, inside)]
      <4>1. ASSUME NEW p \in Seq(Chars), Len(p) < Len(q) PROVE h[p] = g[p]
        <5>1. Len(p) < m - 1
          BY <3>3, <4>1, LenProperties
        <5>. QED
          BY <3>2, <5>1 DEF ParsesBelow
      <4>. HIDE DEF h
      <4>2. \A inside \in BOOLEAN : ParseBody(h, q, inside) = ParseBody(g, q, inside)
        BY <4>1, ParseBodyLocal
      <4>3. h[q] = [inside \in BOOLEAN |-> ParseBody(g, q, inside)]
        BY DEF h
      <4>. QED
        BY <4>2, <4>3
    <3>. HIDE DEF h
    <3>4. ParsesBelow(h, m)
      BY <3>3 DEF ParsesBelow
    <3>. QED
      BY <3>4
  <2>. QED
    BY <2>1, <2>2
<1>. HIDE DEF S
<1>2. Nat \subseteq S
  BY <1>1, StrongInduction
<1>. QED
  BY <1>2 DEF S

\* The parser exists, and each of its results is one round of it.
LEMMA ParseEquation ==
  \A buf \in Seq(Chars) :
    parseThinkingTags[buf] = [inside \in BOOLEAN |-> ParseBody(parseThinkingTags, buf, inside)]
<1>. DEFINE Body(f, buf, inside) ==
              LET tag == IF inside THEN CloseTag ELSE OpenTag IN
              IF Occurs(tag, buf)
                THEN LET i == IndexFirstSubSeq(tag, buf)
                         rest == f[From(buf, i + Len(tag))][~inside]
                     IN Routed(inside, First(buf, i - 1), [rest EXCEPT !.opened = @ \/ ~inside])
                ELSE LET kept == Len(buf) - partialTagSuffix(buf, tag)
                     IN Routed(inside, First(buf, kept),
                               [text |-> <<>>, thinking |-> <<>>, tagBuf |-> From(buf, kept + 1),
                                inside |-> inside, opened |-> FALSE])
            Fix(f) == f = [buf \in Seq(Chars) |-> [inside \in BOOLEAN |-> Body(f, buf, inside)]]
            parse == CHOOSE f : Fix(f)
<1>1. parseThinkingTags = parse
  BY DEF parseThinkingTags
<1>2. \A f, buf, inside : Body(f, buf, inside) = ParseBody(f, buf, inside)
  BY DEF ParseBody, Tag, Through, Held
<1>. HIDE DEF Body
<1>. DEFINE Level(n) == CHOOSE g : ParsesBelow(g, n)
            G == [q \in Seq(Chars) |-> Level(Len(q) + 1)[q]]
<1>3. \A n \in Nat : ParsesBelow(Level(n), n)
  BY ParserBelow
<1>. HIDE DEF Level
<1>4. ASSUME NEW q \in Seq(Chars) PROVE G[q] = [inside \in BOOLEAN |-> ParseBody(G, q, inside)]
  <2>. DEFINE f == Level(Len(q) + 1)
  <2>1. Len(q) \in Nat /\ Len(q) + 1 \in Nat /\ Len(q) < Len(q) + 1
    BY LenProperties
  <2>2. ParsesBelow(f, Len(q) + 1)
    BY <1>3, <2>1
  <2>. HIDE DEF f
  <2>3. f[q] = [inside \in BOOLEAN |-> ParseBody(f, q, inside)]
    BY <2>1, <2>2 DEF ParsesBelow
  <2>4. ASSUME NEW p \in Seq(Chars), Len(p) < Len(q) PROVE G[p] = f[p]
    <3>. DEFINE e == Level(Len(p) + 1)
                n == Len(p) + 1
    <3>1. n \in Nat /\ Len(p) < n /\ n <= Len(q) + 1 /\ Len(p) \in Nat
      BY <2>1, <2>4, LenProperties
    <3>2. ParsesBelow(e, n)
      BY <1>3, <3>1
    <3>3. ParsesBelow(f, n)
      <4>1. \A r \in Seq(Chars) : Len(r) < n => Len(r) < Len(q) + 1
        BY <2>1, <3>1, LenProperties
      <4>. QED
        BY <2>2, <4>1 DEF ParsesBelow
    <3>4. G[p] = e[p]
      OBVIOUS
    <3>. HIDE DEF e, n
    <3>5. e[p] = f[p]
      BY <3>1, <3>2, <3>3, ParsersAgree
    <3>. QED
      BY <3>4, <3>5
  <2>5. G[q] = f[q]
    BY DEF f
  <2>. HIDE DEF G
  <2>6. \A inside \in BOOLEAN : ParseBody(G, q, inside) = ParseBody(f, q, inside)
    BY <2>4, ParseBodyLocal
  <2>. QED
    BY <2>3, <2>5, <2>6
<1>5. G = [q \in Seq(Chars) |-> G[q]]
  OBVIOUS
<1>. HIDE DEF G
<1>6. Fix(G)
  <2>1. \A q \in Seq(Chars) : G[q] = [inside \in BOOLEAN |-> Body(G, q, inside)]
    BY <1>2, <1>4
  <2>. DEFINE H == [q \in Seq(Chars) |-> [inside \in BOOLEAN |-> Body(G, q, inside)]]
  <2>2. G = H
    BY <1>5, <2>1
  <2>. QED
    BY <2>2
<1>7. Fix(parse)
  BY <1>6
<1>. HIDE DEF parse
<1>8. \A q \in Seq(Chars) : parse[q] = [inside \in BOOLEAN |-> Body(parse, q, inside)]
  BY <1>7, Zenon
<1>9. \A q \in Seq(Chars) : parse[q] = [inside \in BOOLEAN |-> ParseBody(parse, q, inside)]
  BY <1>2, <1>8
<1>. QED
  BY <1>1, <1>9

\* The types of what the parser returns.
LEMMA ParseType ==
  \A buf \in Seq(Chars) : \A inside \in BOOLEAN : parseThinkingTags[buf][inside] \in Parsed
<1>. DEFINE P == parseThinkingTags
            S == {m \in Nat : \A q \in Seq(Chars) : Len(q) = m => P[q] \in [BOOLEAN -> Parsed]}
<1>. HIDE DEF P
<1>1. ASSUME NEW m \in Nat, \A k \in 0..(m - 1) : k \in S PROVE m \in S
  <2>. SUFFICES ASSUME NEW q \in Seq(Chars), Len(q) = m PROVE P[q] \in [BOOLEAN -> Parsed]
    OBVIOUS
  <2>1. ASSUME NEW p \in Seq(Chars), Len(p) < Len(q) PROVE P[p] \in [BOOLEAN -> Parsed]
    <3>1. Len(p) \in 0..(m - 1)
      BY <2>1, LenProperties
    <3>. QED
      BY <1>1, <3>1
  <2>2. \A inside \in BOOLEAN : ParseBody(P, q, inside) \in Parsed
    BY <2>1, ParseBodyType
  <2>3. P[q] = [inside \in BOOLEAN |-> ParseBody(P, q, inside)]
    BY ParseEquation DEF P
  <2>. QED
    BY <2>2, <2>3
<1>. HIDE DEF S
<1>2. Nat \subseteq S
  BY <1>1, StrongInduction
<1>3. \A q \in Seq(Chars) : P[q] \in [BOOLEAN -> Parsed]
  BY <1>2, LenProperties DEF S
<1>. QED
  BY <1>3 DEF P

-----------------------------------------------------------------------------
\* The results of a text and of what follows it, together.
Joined(r, z) == [text |-> r.text \o z.text, thinking |-> r.thinking \o z.thinking,
                 tagBuf |-> z.tagBuf, inside |-> z.inside, opened |-> r.opened \/ z.opened]

\* Three texts are one text, however they are put together.
Regroups(a, b, c) == (a \o b) \o c = a \o (b \o c)

LEMMA Associative ==
  \A a \in Seq(Chars) : \A b \in Seq(Chars) : \A c \in Seq(Chars) : Regroups(a, b, c)
BY ConcatAssociative DEF Regroups

LEMMA ParsedFields ==
  ASSUME NEW r \in Parsed
  PROVE  /\ r.text \in Seq(Chars) /\ r.thinking \in Seq(Chars) /\ r.tagBuf \in Seq(Chars)
         /\ r.inside \in BOOLEAN /\ r.opened \in BOOLEAN
BY DEF Parsed

LEMMA ParsedEqual ==
  ASSUME NEW r \in Parsed, NEW z \in Parsed, r.text = z.text, r.thinking = z.thinking,
         r.tagBuf = z.tagBuf, r.inside = z.inside, r.opened = z.opened
  PROVE  r = z
BY SMTT(30) DEF Parsed

LEMMA RoutedFields ==
  ASSUME NEW inside \in BOOLEAN, NEW s, NEW r \in Parsed
  PROVE  LET q == Routed(inside, s, r)
         IN /\ q.text = IF inside THEN r.text ELSE s \o r.text
            /\ q.thinking = IF inside THEN s \o r.thinking ELSE r.thinking
            /\ q.tagBuf = r.tagBuf /\ q.inside = r.inside /\ q.opened = r.opened
BY DEF Routed, Parsed

LEMMA ThroughFields ==
  ASSUME NEW inside \in BOOLEAN, NEW buf, NEW i, NEW r \in Parsed, NEW s, s = First(buf, i - 1)
  PROVE  LET q == Through(buf, inside, i, r)
         IN /\ q.text = IF inside THEN r.text ELSE s \o r.text
            /\ q.thinking = IF inside THEN s \o r.thinking ELSE r.thinking
            /\ q.tagBuf = r.tagBuf /\ q.inside = r.inside /\ q.opened = (r.opened \/ ~inside)
<1>. DEFINE o == [r EXCEPT !.opened = @ \/ ~inside]
<1>1. o \in Parsed
  BY Zenon DEF Parsed
<1>2. /\ o.text = r.text /\ o.thinking = r.thinking /\ o.tagBuf = r.tagBuf /\ o.inside = r.inside
      /\ o.opened = (r.opened \/ ~inside)
  BY DEF Parsed
<1>3. Through(buf, inside, i, r) = Routed(inside, s, o)
  BY DEF Through
<1>. HIDE DEF o
<1>. QED
  BY <1>1, <1>2, <1>3, RoutedFields

LEMMA ThroughType ==
  ASSUME NEW inside \in BOOLEAN, NEW buf, NEW i, NEW r \in Parsed, First(buf, i - 1) \in Seq(Chars)
  PROVE  Through(buf, inside, i, r) \in Parsed
<1>1. [r EXCEPT !.opened = @ \/ ~inside] \in Parsed
  BY Zenon DEF Parsed
<1>. QED
  BY <1>1, RoutedType DEF Through

LEMMA HeldFields ==
  ASSUME NEW buf \in Seq(Chars), NEW inside \in BOOLEAN, NEW kept \in 0..Len(buf)
  PROVE  LET q == Held(buf, inside, kept)
         IN /\ q.text = IF inside THEN <<>> ELSE First(buf, kept)
            /\ q.thinking = IF inside THEN First(buf, kept) ELSE <<>>
            /\ q.tagBuf = From(buf, kept + 1) /\ q.inside = inside /\ q.opened = FALSE
<1>. DEFINE o == [text |-> <<>>, thinking |-> <<>>, tagBuf |-> From(buf, kept + 1),
                  inside |-> inside, opened |-> FALSE]
<1>1. Len(buf) \in Nat /\ kept + 1 \in 1..(Len(buf) + 1)
  BY LenProperties
<1>2. First(buf, kept) \in Seq(Chars) /\ From(buf, kept + 1) \in Seq(Chars)
  BY <1>1, FirstProps, FromProps
<1>3. o \in Parsed
  BY <1>2, EmptySeq DEF Parsed
<1>4. First(buf, kept) \o <<>> = First(buf, kept)
  BY <1>2, ConcatEmptySeq
<1>5. /\ o.text = <<>> /\ o.thinking = <<>> /\ o.tagBuf = From(buf, kept + 1)
      /\ o.inside = inside /\ o.opened = FALSE
  OBVIOUS
<1>6. Held(buf, inside, kept) = Routed(inside, First(buf, kept), o)
  BY DEF Held
<1>. HIDE DEF o
<1>. DEFINE s == First(buf, kept)
            q == Routed(inside, s, o)
<1>7. /\ q.text = IF inside THEN o.text ELSE s \o o.text
      /\ q.thinking = IF inside THEN s \o o.thinking ELSE o.thinking
      /\ q.tagBuf = o.tagBuf /\ q.inside = o.inside /\ q.opened = o.opened
  BY <1>3, RoutedFields
<1>. HIDE DEF q
<1>8. /\ q.text = IF inside THEN <<>> ELSE s
      /\ q.thinking = IF inside THEN s ELSE <<>>
      /\ q.tagBuf = From(buf, kept + 1) /\ q.inside = inside /\ q.opened = FALSE
  BY <1>4, <1>5, <1>7
<1>. QED
  BY <1>6, <1>8 DEF q

LEMMA JoinedType ==
  ASSUME NEW r \in Parsed, NEW z \in Parsed
  PROVE  Joined(r, z) \in Parsed
<1>1. r.text \o z.text \in Seq(Chars) /\ r.thinking \o z.thinking \in Seq(Chars)
  BY ParsedFields, ConcatProperties
<1>. QED
  BY <1>1, ParsedFields DEF Joined, Parsed

\* The parser's two cases.
LEMMA ParseTag ==
  ASSUME NEW buf \in Seq(Chars), NEW inside \in BOOLEAN, NEW i \in Nat, IsFirstPlace(Tag(inside), buf, i)
  PROVE  parseThinkingTags[buf][inside]
           = Through(buf, inside, i, parseThinkingTags[From(buf, i + Len(Tag(inside)))][~inside])
<1>1. Occurs(Tag(inside), buf) /\ IndexFirstSubSeq(Tag(inside), buf) = i
  BY TagType, FirstPlaceUnique
<1>2. parseThinkingTags[buf][inside] = ParseBody(parseThinkingTags, buf, inside)
  BY ParseEquation
<1>. QED
  BY <1>1, <1>2 DEF ParseBody

LEMMA ParseNoTag ==
  ASSUME NEW buf \in Seq(Chars), NEW inside \in BOOLEAN, ~Occurs(Tag(inside), buf)
  PROVE  parseThinkingTags[buf][inside] = Held(buf, inside, Len(buf) - partialTagSuffix(buf, Tag(inside)))
<1>1. parseThinkingTags[buf][inside] = ParseBody(parseThinkingTags, buf, inside)
  BY ParseEquation
<1>. QED
  BY <1>1 DEF ParseBody

LEMMA PartialUnique ==
  ASSUME NEW S, NEW tag \in Seq(S), NEW s \in Seq(S), NEW v, NEW w, IsPartial(tag, s, v), IsPartial(tag, s, w)
  PROVE  v = w
<1>1. v \in 0..Len(s) /\ w \in 0..Len(s)
  BY DEF IsPartial
<1>2. v <= w /\ w <= v
  BY <1>1 DEF IsPartial
<1>. QED
  BY <1>1, <1>2

\* The end of the two together, no longer than the second, is the end of the second.
LEMMA EndsOfConcat ==
  ASSUME NEW S, NEW p, NEW s \in Seq(S), NEW t \in Seq(S), NEW m \in 0..Len(t)
  PROVE  Ends(p, m, s \o t, Len(s \o t)) <=> Ends(p, m, t, Len(t))
<1>. DEFINE u == s \o t
<1>1. Len(s) \in Nat /\ Len(t) \in Nat
  BY LenProperties
<1>2. /\ Len(u) = Len(s) + Len(t)
      /\ \A i \in 1..(Len(s) + Len(t)) : u[i] = IF i <= Len(s) THEN s[i] ELSE t[i - Len(s)]
  BY ConcatProperties
<1>. HIDE DEF u
<1>3. ASSUME NEW j \in 1..m PROVE u[Len(u) - m + j] = t[Len(t) - m + j]
  <2>. DEFINE k == Len(u) - m + j
  <2>1. k \in 1..(Len(s) + Len(t)) /\ ~(k <= Len(s)) /\ k - Len(s) = Len(t) - m + j
    BY <1>1, <1>2
  <2>. HIDE DEF k
  <2>2. u[k] = t[Len(t) - m + j]
    BY <1>2, <2>1
  <2>. QED
    BY <2>2 DEF k
<1>4. m <= Len(u) /\ m <= Len(t)
  BY <1>1, <1>2
<1>. QED
  BY <1>3, <1>4 DEF Ends, u

(***************************************************************************)
(* What no tag and no beginning of one can reach into is read at once.     *)
(***************************************************************************)
LEMMA ParseSkips ==
  ASSUME NEW h \in Seq(Chars), NEW x \in Seq(Chars), NEW inside \in BOOLEAN,
         \A i \in Nat : StandsAt(Tag(inside), h \o x, i) => i > Len(h),
         \A m \in 0..Len(h \o x) :
           m < Len(Tag(inside)) /\ Ends(Tag(inside), m, h \o x, Len(h \o x)) => m <= Len(x)
  PROVE  parseThinkingTags[h \o x][inside] = Routed(inside, h, parseThinkingTags[x][inside])
<1>. DEFINE tag == Tag(inside)
            u == h \o x
            P == parseThinkingTags
<1>1. tag \in Seq(Chars) /\ tag # <<>> /\ Len(tag) \in Nat \ {0} /\ Len(h) \in Nat /\ Len(x) \in Nat
  BY TagType, LenProperties
<1>2. u \in Seq(Chars) /\ Len(u) = Len(h) + Len(x)
  BY ConcatProperties
<1>3. \A i \in Nat \ {0} : StandsAt(tag, u, Len(h) + i) <=> StandsAt(tag, x, i)
  BY <1>1, StandsInConcat
<1>4. P[x][inside] \in Parsed /\ P[u][inside] \in Parsed
  BY <1>2, ParseType
<1>5. Routed(inside, h, P[x][inside]) \in Parsed
  BY <1>4, RoutedType
<1>6. CASE Occurs(tag, u)
  <2>. DEFINE k == IndexFirstSubSeq(tag, u)
              i == k - Len(h)
              q == From(x, i + Len(tag))
              z == P[q][~inside]
  <2>1. k \in Nat /\ IsFirstPlace(tag, u, k)
    BY <1>1, <1>2, <1>6, FirstPlace
  <2>2. k > Len(h)
    BY <2>1 DEF IsFirstPlace
  <2>. HIDE DEF k
  <2>3. i \in Nat \ {0} /\ k = Len(h) + i
    BY <1>1, <2>1, <2>2
  <2>. HIDE DEF i
  <2>4. IsFirstPlace(tag, x, i)
    <3>1. StandsAt(tag, x, i)
      BY <1>3, <2>1, <2>3 DEF IsFirstPlace
    <3>2. ASSUME NEW j \in Nat, StandsAt(tag, x, j) PROVE i <= j
      <4>1. j \in Nat \ {0}
        BY <3>2 DEF StandsAt
      <4>2. StandsAt(tag, u, Len(h) + j) /\ Len(h) + j \in Nat
        BY <1>1, <1>3, <3>2, <4>1
      <4>3. k <= Len(h) + j
        BY <2>1, <4>2 DEF IsFirstPlace
      <4>. QED
        BY <1>1, <2>3, <4>3
    <3>. QED
      BY <3>1, <3>2 DEF IsFirstPlace
  <2>5. i + Len(tag) \in 1..(Len(x) + 1) /\ i - 1 \in 0..Len(x)
    BY <1>1, <2>3, <2>4 DEF IsFirstPlace, StandsAt
  <2>6. From(u, k + Len(tag)) = q /\ q \in Seq(Chars)
    <3>1. k + Len(tag) = Len(h) + (i + Len(tag))
      BY <1>1, <2>3
    <3>2. From(u, Len(h) + (i + Len(tag))) = From(x, i + Len(tag))
      BY <2>5, FromOfConcat
    <3>. QED
      BY <2>5, <3>1, <3>2, FromProps
  <2>7. First(u, k - 1) = h \o First(x, i - 1) /\ First(x, i - 1) \in Seq(Chars)
    <3>1. k - 1 = Len(h) + (i - 1)
      BY <1>1, <2>3
    <3>. DEFINE m == i - 1
    <3>2. m \in 0..Len(x) /\ k - 1 = Len(h) + m
      BY <2>5, <3>1
    <3>. HIDE DEF m
    <3>3. First(u, Len(h) + m) = h \o First(x, m)
      BY <3>2, FirstOfConcat
    <3>4. First(x, m) \in Seq(Chars)
      BY <3>2, FirstProps
    <3>. QED
      BY <3>2, <3>3, <3>4 DEF m
  <2>. HIDE DEF q
  <2>8. z \in Parsed
    BY <2>6, ParseType
  <2>9. P[u][inside] = Through(u, inside, k, z)
    BY <1>2, <2>1, <2>6, ParseTag
  <2>10. P[x][inside] = Through(x, inside, i, z)
    BY <2>3, <2>4, ParseTag DEF q
  <2>. HIDE DEF z, P, u, tag
  <2>. DEFINE a == Through(u, inside, k, z)
              b == Through(x, inside, i, z)
              c == Routed(inside, h, b)
              s == First(x, i - 1)
  <2>11. /\ a.text = IF inside THEN z.text ELSE (h \o s) \o z.text
         /\ a.thinking = IF inside THEN (h \o s) \o z.thinking ELSE z.thinking
         /\ a.tagBuf = z.tagBuf /\ a.inside = z.inside /\ a.opened = (z.opened \/ ~inside)
    <3>. DEFINE s2 == First(u, k - 1)
    <3>1. /\ a.text = IF inside THEN z.text ELSE s2 \o z.text
          /\ a.thinking = IF inside THEN s2 \o z.thinking ELSE z.thinking
          /\ a.tagBuf = z.tagBuf /\ a.inside = z.inside /\ a.opened = (z.opened \/ ~inside)
      BY <2>8, ThroughFields
    <3>. HIDE DEF a, s
    <3>. QED
      BY <2>7, <3>1 DEF s
  <2>12. /\ b.text = IF inside THEN z.text ELSE s \o z.text
         /\ b.thinking = IF inside THEN s \o z.thinking ELSE z.thinking
         /\ b.tagBuf = z.tagBuf /\ b.inside = z.inside /\ b.opened = (z.opened \/ ~inside)
    BY <2>8, ThroughFields
  <2>13. b \in Parsed /\ a \in Parsed /\ c \in Parsed
    BY <1>4, <1>5, <2>9, <2>10
  <2>. HIDE DEF b
  <2>14. /\ c.text = IF inside THEN b.text ELSE h \o b.text
         /\ c.thinking = IF inside THEN h \o b.thinking ELSE b.thinking
         /\ c.tagBuf = b.tagBuf /\ c.inside = b.inside /\ c.opened = b.opened
    BY <2>13, RoutedFields
  <2>15. s \in Seq(Chars) /\ z.text \in Seq(Chars) /\ z.thinking \in Seq(Chars)
    BY <2>7, <2>8, ParsedFields
  <2>. HIDE DEF a, c, s
  <2>16. (h \o s) \o z.text = h \o (s \o z.text) /\ (h \o s) \o z.thinking = h \o (s \o z.thinking)
    <3>1. Regroups(h, s, z.text) /\ Regroups(h, s, z.thinking)
      BY <2>15, Associative
    <3>. QED
      BY <3>1 DEF Regroups
  <2>17. a = c
    BY <2>11, <2>12, <2>13, <2>14, <2>16, ParsedEqual
  <2>. QED
    BY <2>9, <2>10, <2>17 DEF a, b, c, P, u
<1>7. CASE ~Occurs(tag, u)
  <2>. DEFINE n == partialTagSuffix(u, tag)
              kept == Len(x) - n
  <2>1. ~Occurs(tag, x)
    <3>1. SUFFICES ASSUME NEW i \in Nat, StandsAt(tag, x, i) PROVE FALSE
      BY <1>1, OccursSomewhere
    <3>2. i \in Nat \ {0}
      BY <3>1 DEF StandsAt
    <3>3. StandsAt(tag, u, Len(h) + i) /\ Len(h) + i \in Nat
      BY <1>1, <1>3, <3>1, <3>2
    <3>. QED
      BY <1>1, <1>2, <1>7, <3>3, OccursSomewhere
  <2>2. IsPartial(tag, u, n)
    BY <1>1, <1>2, PartialSuffix
  <2>. HIDE DEF n
  <2>3. n \in 0..Len(u) /\ n < Len(tag) /\ Ends(tag, n, u, Len(u)) /\ n <= Len(x)
    BY <2>2 DEF IsPartial
  <2>4. n \in 0..Len(x)
    BY <1>1, <1>2, <2>3
  <2>5. \A m \in 0..Len(x) : Ends(tag, m, u, Len(u)) <=> Ends(tag, m, x, Len(x))
    BY EndsOfConcat
  <2>6. \A m \in 0..Len(x) : m \in 0..Len(u)
    BY <1>1, <1>2
  <2>7. IsPartial(tag, x, n)
    BY <2>2, <2>3, <2>4, <2>5, <2>6 DEF IsPartial
  <2>8. partialTagSuffix(x, tag) = n
    BY <1>1, <2>7, PartialSuffix, PartialUnique
  <2>9. kept \in 0..Len(x) /\ Len(u) - n = Len(h) + kept /\ kept + 1 \in 1..(Len(x) + 1) /\ Len(h) + kept \in 0..Len(u)
    BY <1>1, <1>2, <2>4
  <2>10. P[u][inside] = Held(u, inside, Len(h) + kept)
    BY <1>2, <1>7, <2>9, ParseNoTag DEF n
  <2>11. P[x][inside] = Held(x, inside, kept)
    BY <2>1, <2>8, ParseNoTag
  <2>. HIDE DEF kept
  <2>12. First(u, Len(h) + kept) = h \o First(x, kept)
    BY <2>9, FirstOfConcat
  <2>13. From(u, (Len(h) + kept) + 1) = From(x, kept + 1)
    <3>1. (Len(h) + kept) + 1 = Len(h) + (kept + 1)
      BY <1>1, <2>9
    <3>2. From(u, Len(h) + (kept + 1)) = From(x, kept + 1)
      BY <2>9, FromOfConcat
    <3>. QED
      BY <3>1, <3>2
  <2>. HIDE DEF P, u, tag
  <2>. DEFINE a == Held(u, inside, Len(h) + kept)
              b == Held(x, inside, kept)
              c == Routed(inside, h, b)
  <2>14. /\ a.text = IF inside THEN <<>> ELSE h \o First(x, kept)
         /\ a.thinking = IF inside THEN h \o First(x, kept) ELSE <<>>
         /\ a.tagBuf = From(x, kept + 1) /\ a.inside = inside /\ a.opened = FALSE
    BY <1>2, <2>9, <2>12, <2>13, HeldFields
  <2>15. /\ b.text = IF inside THEN <<>> ELSE First(x, kept)
         /\ b.thinking = IF inside THEN First(x, kept) ELSE <<>>
         /\ b.tagBuf = From(x, kept + 1) /\ b.inside = inside /\ b.opened = FALSE
    BY <2>9, HeldFields
  <2>16. b \in Parsed /\ a \in Parsed /\ c \in Parsed
    BY <1>4, <1>5, <2>10, <2>11
  <2>. HIDE DEF b
  <2>17. /\ c.text = IF inside THEN b.text ELSE h \o b.text
         /\ c.thinking = IF inside THEN h \o b.thinking ELSE b.thinking
         /\ c.tagBuf = b.tagBuf /\ c.inside = b.inside /\ c.opened = b.opened
    BY <2>16, RoutedFields
  <2>. HIDE DEF a, c
  <2>18. a = c
    BY <2>14, <2>15, <2>16, <2>17, ParsedEqual
  <2>. QED
    BY <2>10, <2>11, <2>18 DEF a, b, c, P, u
<1>. QED
  BY <1>6, <1>7


\* What follows joins a piece of the text as it joins the rest behind the piece.
LEMMA JoinHeld ==
  ASSUME NEW u \in Seq(Chars), NEW inside \in BOOLEAN, NEW kept \in 0..Len(u), NEW z \in Parsed
  PROVE  Joined(Held(u, inside, kept), z) = Routed(inside, First(u, kept), z)
<1>. DEFINE s == First(u, kept)
            o == Held(u, inside, kept)
            a == Joined(o, z)
            b == Routed(inside, s, z)
<1>1. o \in Parsed /\ s \in Seq(Chars)
  BY HeldType, FirstProps
<1>2. /\ o.text = IF inside THEN <<>> ELSE s
      /\ o.thinking = IF inside THEN s ELSE <<>>
      /\ o.opened = FALSE
  BY HeldFields
<1>3. /\ b.text = IF inside THEN z.text ELSE s \o z.text
      /\ b.thinking = IF inside THEN s \o z.thinking ELSE z.thinking
      /\ b.tagBuf = z.tagBuf /\ b.inside = z.inside /\ b.opened = z.opened
  BY RoutedFields
<1>4. <<>> \o z.text = z.text /\ <<>> \o z.thinking = z.thinking /\ z.opened \in BOOLEAN
  BY ParsedFields, ConcatEmptySeq
<1>5. a \in Parsed /\ b \in Parsed
  BY <1>1, JoinedType, RoutedType
<1>. HIDE DEF o, s
<1>6. /\ a.text = o.text \o z.text /\ a.thinking = o.thinking \o z.thinking
      /\ a.tagBuf = z.tagBuf /\ a.inside = z.inside /\ a.opened = (o.opened \/ z.opened)
  BY DEF Joined
<1>. HIDE DEF a, b
<1>7. a.opened = b.opened
  BY <1>2, <1>3, <1>4, <1>6
<1>8. /\ a.text = b.text /\ a.thinking = b.thinking
      /\ a.tagBuf = b.tagBuf /\ a.inside = b.inside
  BY <1>2, <1>3, <1>4, <1>6
<1>9. a = b
  BY <1>5, <1>7, <1>8, ParsedEqual
<1>. QED
  BY <1>9 DEF a, b, o, s

LEMMA JoinThrough ==
  ASSUME NEW inside \in BOOLEAN, NEW buf, NEW i, NEW q \in Parsed, NEW z \in Parsed,
         First(buf, i - 1) \in Seq(Chars)
  PROVE  Joined(Through(buf, inside, i, q), z) = Through(buf, inside, i, Joined(q, z))
<1>. DEFINE s == First(buf, i - 1)
            o == Through(buf, inside, i, q)
            j == Joined(q, z)
            a == Joined(o, z)
            b == Through(buf, inside, i, j)
<1>1. o \in Parsed /\ j \in Parsed /\ a \in Parsed /\ b \in Parsed
  BY ThroughType, JoinedType
<1>2. /\ o.text = IF inside THEN q.text ELSE s \o q.text
      /\ o.thinking = IF inside THEN s \o q.thinking ELSE q.thinking
      /\ o.opened = (q.opened \/ ~inside)
  BY ThroughFields
<1>. HIDE DEF j
<1>3. /\ b.text = IF inside THEN j.text ELSE s \o j.text
      /\ b.thinking = IF inside THEN s \o j.thinking ELSE j.thinking
      /\ b.tagBuf = j.tagBuf /\ b.inside = j.inside /\ b.opened = (j.opened \/ ~inside)
  BY <1>1, ThroughFields
<1>. HIDE DEF o
<1>4. /\ a.text = o.text \o z.text /\ a.thinking = o.thinking \o z.thinking
      /\ a.tagBuf = z.tagBuf /\ a.inside = z.inside /\ a.opened = (o.opened \/ z.opened)
  BY DEF Joined
<1>5. /\ j.text = q.text \o z.text /\ j.thinking = q.thinking \o z.thinking
      /\ j.tagBuf = z.tagBuf /\ j.inside = z.inside /\ j.opened = (q.opened \/ z.opened)
  BY DEF Joined, j
<1>6. (s \o q.text) \o z.text = s \o (q.text \o z.text)
  <2>1. Regroups(s, q.text, z.text)
    BY ParsedFields, Associative
  <2>. QED
    BY <2>1 DEF Regroups
<1>7. (s \o q.thinking) \o z.thinking = s \o (q.thinking \o z.thinking)
  <2>1. Regroups(s, q.thinking, z.thinking)
    BY ParsedFields, Associative
  <2>. QED
    BY <2>1 DEF Regroups
<1>8. q.opened \in BOOLEAN /\ z.opened \in BOOLEAN
  BY ParsedFields
<1>. HIDE DEF a, b, s
<1>9. a.opened = b.opened
  BY <1>2, <1>3, <1>4, <1>5, <1>8
<1>10. a.text = b.text /\ a.thinking = b.thinking /\ a.tagBuf = b.tagBuf /\ a.inside = b.inside
  BY <1>2, <1>3, <1>4, <1>5, <1>6, <1>7
<1>11. a = b
  BY <1>1, <1>9, <1>10, ParsedEqual
<1>. QED
  BY <1>11 DEF a, b, o, j

\* Without a tag in u, only the held end of u can begin one in u and what follows.
LEMMA HeldReaches ==
  ASSUME NEW u \in Seq(Chars), NEW d \in Seq(Chars), NEW tag \in Seq(Chars), tag # <<>>,
         ~Occurs(tag, u), NEW n, IsPartial(tag, u, n)
  PROVE  /\ \A i \in Nat : StandsAt(tag, u \o d, i) => i > Len(u) - n
         /\ \A m \in 0..Len(u \o d) :
              m < Len(tag) /\ Ends(tag, m, u \o d, Len(u \o d)) => m <= n + Len(d)
<1>. DEFINE w == u \o d
<1>1. Len(u) \in Nat /\ Len(d) \in Nat /\ Len(tag) \in Nat \ {0} /\ n \in 0..Len(u)
  BY LenProperties, EmptySeq DEF IsPartial
<1>2. /\ Len(w) = Len(u) + Len(d)
      /\ \A i \in 1..(Len(u) + Len(d)) : w[i] = IF i <= Len(u) THEN u[i] ELSE d[i - Len(u)]
  BY ConcatProperties
<1>. HIDE DEF w
<1>3. ASSUME NEW i \in Nat, StandsAt(tag, w, i) PROVE i > Len(u) - n
  <2>1. CASE i > Len(u)
    BY <1>1, <2>1
  <2>2. CASE ~(i > Len(u))
    <3>. DEFINE m == Len(u) - i + 1
    <3>1. ~StandsAt(tag, u, i)
      BY OccursSomewhere
    <3>2. ~(i + Len(tag) - 1 <= Len(u))
      BY <1>1, <1>3, <3>1, StandsInConcat DEF w
    <3>3. i >= 1 /\ \A j \in 1..Len(tag) : w[i + j - 1] = tag[j]
      BY <1>3 DEF StandsAt
    <3>4. m \in 0..Len(u) /\ m < Len(tag)
      BY <1>1, <2>2, <3>2, <3>3
    <3>5. ASSUME NEW j \in 1..m PROVE tag[j] = u[Len(u) - m + j]
      <4>. DEFINE k == i + j - 1
      <4>1. k \in 1..Len(u) /\ k = Len(u) - m + j /\ j \in 1..Len(tag)
        BY <1>1, <2>2, <3>3, <3>4
      <4>2. w[k] = tag[j]
        BY <3>3, <4>1
      <4>. HIDE DEF k, m
      <4>3. w[k] = u[k]
        BY <1>1, <1>2, <4>1
      <4>. QED
        BY <4>1, <4>2, <4>3
    <3>6. Ends(tag, m, u, Len(u))
      BY <1>1, <3>4, <3>5 DEF Ends
    <3>7. m <= n
      BY <3>4, <3>6 DEF IsPartial
    <3>. QED
      BY <1>1, <3>7
  <2>. QED
    BY <2>1, <2>2
<1>4. ASSUME NEW m \in 0..Len(w), m < Len(tag), Ends(tag, m, w, Len(w)), ~(m <= n + Len(d))
      PROVE  FALSE
  <2>. DEFINE k == m - Len(d)
  <2>1. k \in 0..Len(u) /\ k < Len(tag) /\ k > n
    BY <1>1, <1>2, <1>4
  <2>2. ASSUME NEW j \in 1..k PROVE tag[j] = u[Len(u) - k + j]
    <3>. DEFINE p == Len(u) - k + j
    <3>1. p \in 1..Len(u) /\ p = Len(w) - m + j /\ j \in 1..m
      BY <1>1, <1>2, <2>1
    <3>. HIDE DEF p, k
    <3>2. tag[j] = w[p]
      BY <1>4, <3>1 DEF Ends
    <3>3. w[p] = u[p]
      BY <1>1, <1>2, <3>1
    <3>. QED
      BY <3>2, <3>3 DEF p
  <2>3. Ends(tag, k, u, Len(u))
    BY <1>1, <2>1, <2>2 DEF Ends
  <2>. QED
    BY <1>1, <2>1, <2>3 DEF IsPartial
<1>. QED
  BY <1>3, <1>4 DEF w

(***************************************************************************)
(* Read in pieces is read at once: what comes behind u is read with what   *)
(* the parser held of u, in the state it was in, and joins what u gave.    *)
(***************************************************************************)
ReadsOn(u, d, inside) ==
  LET r == parseThinkingTags[u][inside]
  IN parseThinkingTags[u \o d][inside] = Joined(r, parseThinkingTags[r.tagBuf \o d][r.inside])

LEMMA ReadsOnNoTag ==
  ASSUME NEW u \in Seq(Chars), NEW d \in Seq(Chars), NEW inside \in BOOLEAN, ~Occurs(Tag(inside), u)
  PROVE  ReadsOn(u, d, inside)
<1>. DEFINE tag == Tag(inside)
            n == partialTagSuffix(u, tag)
            kept == Len(u) - n
            h == First(u, kept)
            t == From(u, kept + 1)
            r == parseThinkingTags[u][inside]
            z == parseThinkingTags[t \o d][inside]
<1>1. tag \in Seq(Chars) /\ tag # <<>> /\ Len(u) \in Nat /\ Len(d) \in Nat
  BY TagType, LenProperties
<1>2. IsPartial(tag, u, n)
  BY <1>1, PartialSuffix
<1>3. r = Held(u, inside, kept)
  BY ParseNoTag
<1>. HIDE DEF n
<1>4. n \in 0..Len(u) /\ kept \in 0..Len(u) /\ kept + 1 \in 1..(Len(u) + 1)
  BY <1>1, <1>2 DEF IsPartial
<1>5. h \in Seq(Chars) /\ Len(h) = kept /\ t \in Seq(Chars) /\ Len(t) = n /\ h \o t = u
  <2>1. h \in Seq(Chars) /\ Len(h) = kept /\ h \o t = u
    BY <1>4, FirstProps, FirstFrom
  <2>2. t \in Seq(Chars) /\ Len(t) = Len(u) - (kept + 1) + 1
    BY <1>4, FromProps
  <2>. QED
    BY <1>1, <1>4, <2>1, <2>2
<1>6. r.tagBuf = t /\ r.inside = inside
  <2>. HIDE DEF kept, r
  <2>. DEFINE g == Held(u, inside, kept)
  <2>1. g.tagBuf = From(u, kept + 1) /\ g.inside = inside
    BY <1>4, HeldFields
  <2>. HIDE DEF g
  <2>. QED
    BY <1>3, <2>1 DEF g
<1>. HIDE DEF kept, r, h, t, tag
<1>7. t \o d \in Seq(Chars) /\ Len(t \o d) = n + Len(d)
  BY <1>5, ConcatProperties
<1>8. h \o (t \o d) = u \o d
  <2>1. Regroups(h, t, d)
    BY <1>5, Associative
  <2>. QED
    BY <1>5, <2>1 DEF Regroups
<1>9. /\ \A i \in Nat : StandsAt(tag, u \o d, i) => i > Len(h)
      /\ \A m \in 0..Len(u \o d) :
           m < Len(tag) /\ Ends(tag, m, u \o d, Len(u \o d)) => m <= Len(t \o d)
  <2>1. ~Occurs(tag, u)
    BY DEF tag
  <2>2. /\ \A i \in Nat : StandsAt(tag, u \o d, i) => i > Len(u) - n
        /\ \A m \in 0..Len(u \o d) :
             m < Len(tag) /\ Ends(tag, m, u \o d, Len(u \o d)) => m <= n + Len(d)
    BY <1>1, <1>2, <2>1, HeldReaches
  <2>3. Len(h) = Len(u) - n
    BY <1>5 DEF kept
  <2>. QED
    BY <1>7, <2>2, <2>3
<1>10. parseThinkingTags[u \o d][inside] = Routed(inside, h, z)
  <2>1. /\ \A i \in Nat : StandsAt(Tag(inside), h \o (t \o d), i) => i > Len(h)
        /\ \A m \in 0..Len(h \o (t \o d)) :
             m < Len(Tag(inside)) /\ Ends(Tag(inside), m, h \o (t \o d), Len(h \o (t \o d)))
               => m <= Len(t \o d)
    BY <1>8, <1>9 DEF tag
  <2>2. parseThinkingTags[h \o (t \o d)][inside] = Routed(inside, h, parseThinkingTags[t \o d][inside])
    BY <1>5, <1>7, <2>1, ParseSkips
  <2>. QED
    BY <1>8, <2>2
<1>11. z \in Parsed
  BY <1>7, ParseType
<1>12. Joined(r, z) = Routed(inside, h, z)
  BY <1>3, <1>4, <1>11, JoinHeld DEF h
<1>. QED
  BY <1>6, <1>10, <1>12 DEF ReadsOn, r

LEMMA ReadsOnTag ==
  ASSUME NEW u \in Seq(Chars), NEW d \in Seq(Chars), NEW inside \in BOOLEAN, Occurs(Tag(inside), u),
         \A q \in Seq(Chars) : Len(q) \in 0..(Len(u) - 1) => ReadsOn(q, d, ~inside)
  PROVE  ReadsOn(u, d, inside)
<1>. DEFINE tag == Tag(inside)
            k == IndexFirstSubSeq(tag, u)
            w == u \o d
            q == From(u, k + Len(tag))
            r == parseThinkingTags[u][inside]
            y == parseThinkingTags[q][~inside]
            z == parseThinkingTags[r.tagBuf \o d][r.inside]
<1>1. tag \in Seq(Chars) /\ tag # <<>> /\ Len(tag) \in Nat \ {0} /\ Len(u) \in Nat
  BY TagType, LenProperties
<1>2. k \in Nat /\ IsFirstPlace(tag, u, k)
  BY <1>1, FirstPlace
<1>3. /\ k \in 1..Len(u) /\ k - 1 \in 0..Len(u) /\ k + Len(tag) \in 1..(Len(u) + 1)
      /\ q \in Seq(Chars) /\ Len(q) \in 0..(Len(u) - 1)
  BY RestShorter
<1>4. r = Through(u, inside, k, y)
  BY <1>2, ParseTag
<1>. HIDE DEF k
<1>5. w \in Seq(Chars)
  BY ConcatProperties
<1>6. IsFirstPlace(tag, w, k)
  <2>1. StandsAt(tag, u, k) /\ k + Len(tag) - 1 <= Len(u)
    BY <1>2 DEF IsFirstPlace, StandsAt
  <2>2. StandsAt(tag, w, k)
    BY <1>1, <1>2, <2>1, StandsInConcat
  <2>3. ASSUME NEW i \in Nat, StandsAt(tag, w, i), ~(k <= i) PROVE FALSE
    <3>1. i + Len(tag) - 1 <= Len(u)
      BY <1>1, <1>2, <2>1, <2>3
    <3>2. StandsAt(tag, u, i)
      BY <1>1, <2>3, <3>1, StandsInConcat
    <3>. QED
      BY <1>2, <2>3, <3>2 DEF IsFirstPlace
  <2>. QED
    BY <2>2, <2>3 DEF IsFirstPlace
<1>7. From(w, k + Len(tag)) = q \o d
  BY <1>3, FromOfConcat
<1>8. First(w, k - 1) = First(u, k - 1) /\ First(u, k - 1) \in Seq(Chars)
  BY <1>3, FirstOfConcat, FirstProps
<1>9. parseThinkingTags[w][inside] = Through(w, inside, k, parseThinkingTags[q \o d][~inside])
  <2>1. parseThinkingTags[w][inside]
          = Through(w, inside, k, parseThinkingTags[From(w, k + Len(tag))][~inside])
    BY <1>2, <1>5, <1>6, ParseTag
  <2>. QED
    BY <1>7, <2>1
<1>10. y \in Parsed /\ r \in Parsed
  BY <1>3, ParseType
<1>11. r.tagBuf = y.tagBuf /\ r.inside = y.inside
  BY <1>4, <1>10, ThroughFields
<1>12. r.tagBuf \o d \in Seq(Chars) /\ r.inside \in BOOLEAN
  BY <1>10, ParsedFields, ConcatProperties
<1>. HIDE DEF r
<1>13. z \in Parsed
  BY <1>12, ParseType
<1>14. parseThinkingTags[q \o d][~inside] = Joined(y, z)
  <2>1. ReadsOn(q, d, ~inside)
    BY <1>3
  <2>. QED
    BY <1>11, <2>1 DEF ReadsOn
<1>. HIDE DEF y, z, q, tag, w
<1>15. Through(w, inside, k, Joined(y, z)) = Through(u, inside, k, Joined(y, z))
  BY <1>8 DEF Through
<1>16. Joined(r, z) = Through(u, inside, k, Joined(y, z))
  BY <1>4, <1>8, <1>10, <1>13, JoinThrough
<1>17. parseThinkingTags[w][inside] = Joined(r, z)
  BY <1>9, <1>14, <1>15, <1>16
<1>. QED
  BY <1>17 DEF ReadsOn, r, z, w

THEOREM ParseOn ==
  \A u \in Seq(Chars) : \A d \in Seq(Chars) : \A inside \in BOOLEAN : ReadsOn(u, d, inside)
<1>. DEFINE S == {n \in Nat : \A u \in Seq(Chars) : Len(u) = n =>
                    \A d \in Seq(Chars) : \A inside \in BOOLEAN : ReadsOn(u, d, inside)}
<1>1. ASSUME NEW n \in Nat, \A m \in 0..(n - 1) : m \in S PROVE n \in S
  <2>. SUFFICES ASSUME NEW u \in Seq(Chars), Len(u) = n, NEW d \in Seq(Chars), NEW inside \in BOOLEAN
                PROVE  ReadsOn(u, d, inside)
    OBVIOUS
  <2>1. CASE ~Occurs(Tag(inside), u)
    BY <2>1, ReadsOnNoTag
  <2>2. CASE Occurs(Tag(inside), u)
    <3>1. ASSUME NEW q \in Seq(Chars), Len(q) \in 0..(Len(u) - 1) PROVE ReadsOn(q, d, ~inside)
      <4>1. Len(q) \in S
        BY <1>1, <3>1
      <4>. QED
        BY <4>1
    <3>. QED
      BY <2>2, <3>1, ReadsOnTag
  <2>. QED
    BY <2>1, <2>2
<1>. HIDE DEF S
<1>2. Nat \subseteq S
  BY <1>1, StrongInduction
<1>. QED
  BY <1>2, LenProperties DEF S

\* Outside a tag, a text that opens none has no thinking in it and ends outside.
LEMMA NoTagNoThinking ==
  ASSUME NEW u \in Seq(Chars)
  PROVE  LET r == parseThinkingTags[u][FALSE]
         IN /\ ~r.opened => r.thinking = <<>> /\ ~r.inside
            /\ Occurs(OpenTag, u) => r.opened
<1>. DEFINE r == parseThinkingTags[u][FALSE]
            tag == Tag(FALSE)
            k == IndexFirstSubSeq(tag, u)
            q == From(u, k + Len(tag))
            y == parseThinkingTags[q][~FALSE]
            kept == Len(u) - partialTagSuffix(u, tag)
<1>1. tag = OpenTag /\ tag \in Seq(Chars) /\ tag # <<>> /\ FALSE \in BOOLEAN /\ (~FALSE) \in BOOLEAN
  <2>1. tag \in Seq(Chars) /\ tag # <<>>
    BY TagType
  <2>2. tag = OpenTag
    BY DEF Tag
  <2>. QED
    BY <2>1, <2>2
<1>2. CASE Occurs(tag, u)
  <2>1. k \in Nat /\ IsFirstPlace(tag, u, k)
    BY <1>1, <1>2, FirstPlace
  <2>2. q \in Seq(Chars)
    BY <1>1, <1>2, RestShorter
  <2>3. r = Through(u, FALSE, k, y)
    BY <1>1, <2>1, ParseTag
  <2>4. y \in Parsed
    BY <1>1, <2>2, ParseType
  <2>. HIDE DEF y, k, r
  <2>. DEFINE g == Through(u, FALSE, k, y)
  <2>5. g.opened = (y.opened \/ ~FALSE)
    BY <1>1, <2>4, ThroughFields
  <2>. HIDE DEF g
  <2>6. r.opened
    BY <2>3, <2>5 DEF g
  <2>. QED
    BY <2>6 DEF r
<1>3. CASE ~Occurs(tag, u)
  <2>1. kept \in 0..Len(u)
    BY <1>1, KeptRange
  <2>2. r = Held(u, FALSE, kept)
    BY <1>1, <1>3, ParseNoTag
  <2>. HIDE DEF r, kept
  <2>. DEFINE g == Held(u, FALSE, kept)
  <2>3. g.thinking = <<>> /\ g.inside = FALSE
    BY <1>1, <2>1, HeldFields
  <2>. HIDE DEF g
  <2>4. r.thinking = <<>> /\ ~r.inside
    BY <2>2, <2>3 DEF g
  <2>. QED
    BY <1>1, <1>3, <2>4 DEF r
<1>. QED
  BY <1>2, <1>3

LEMMA NothingParsed ==
  ASSUME NEW e \in Seq(Chars), e = <<>>
  PROVE  LET r == parseThinkingTags[e][FALSE]
         IN r.text = e /\ r.thinking = e /\ r.tagBuf = e /\ r.inside = FALSE /\ r.opened = FALSE
<1>. DEFINE tag == Tag(FALSE)
            kept == Len(e) - partialTagSuffix(e, tag)
            r == parseThinkingTags[e][FALSE]
            g == Held(e, FALSE, kept)
<1>1. tag \in Seq(Chars) /\ tag # <<>> /\ Len(tag) \in Nat \ {0}
  BY TagType
<1>2. Len(e) = 0 /\ FALSE \in BOOLEAN
  BY EmptySeq
<1>. HIDE DEF tag
<1>3. ~Occurs(tag, e)
  <2>1. ASSUME NEW i \in Nat, StandsAt(tag, e, i) PROVE FALSE
    BY <1>1, <1>2, <2>1 DEF StandsAt
  <2>. QED
    BY <1>1, <2>1, OccursSomewhere
<1>4. kept \in 0..Len(e)
  BY <1>2, KeptRange DEF tag
<1>5. r = g
  BY <1>2, <1>3, ParseNoTag DEF tag
<1>. HIDE DEF kept
<1>6. /\ g.text = IF FALSE THEN <<>> ELSE First(e, kept)
      /\ g.thinking = IF FALSE THEN First(e, kept) ELSE <<>>
      /\ g.tagBuf = From(e, kept + 1) /\ g.inside = FALSE /\ g.opened = FALSE
  BY <1>2, <1>4, HeldFields
<1>7. kept = 0 /\ kept + 1 \in 1..(Len(e) + 1) /\ kept + 1 = 1
  BY <1>2, <1>4
<1>8. First(e, kept) = e /\ From(e, kept + 1) = e
  <2>1. First(e, kept) \in Seq(Chars) /\ Len(First(e, kept)) = kept
    BY <1>4, FirstProps
  <2>2. From(e, kept + 1) \in Seq(Chars) /\ Len(From(e, kept + 1)) = Len(e) - (kept + 1) + 1
    BY <1>7, FromProps
  <2>3. Len(First(e, kept)) = 0 /\ Len(From(e, kept + 1)) = 0
    BY <1>2, <1>7, <2>1, <2>2
  <2>. QED
    BY <2>1, <2>2, <2>3, EmptySeq
<1>. HIDE DEF r, g
<1>. QED
  BY <1>5, <1>6, <1>8 DEF r

-----------------------------------------------------------------------------
(***************************************************************************)
(* The budget.                                                             *)
(***************************************************************************)
Limit == maxTokens * RunesPerToken

Accumulators ==
  [tagBuf : Seq(Chars), inside : BOOLEAN, suppressReasoning : BOOLEAN, pending : Seq(Chars),
   text : Seq(Chars), thinking : Seq(Chars), runes : 0..Limit,
   stop : {"none", "stop_sequence", "max_tokens"}, matched : 0..Len(StopSequences)]

LEMMA LimitType == maxTokens \in Nat \ {0} /\ RunesPerToken \in Nat \ {0} /\ Limit \in Nat
BY TextAssumption DEF Limit

\* The estimate is below max_tokens exactly below the limit of the runes.
LEMMA Estimate ==
  ASSUME NEW x \in Nat
  PROVE  x \div RunesPerToken < maxTokens <=> x < Limit
<1>1. \A r \in Nat \ {0} : \A m \in Nat \ {0} : (x \div r) < m <=> x < m * r
  OBVIOUS
<1>. QED
  BY <1>1, LimitType DEF Limit

\* The estimate's value, a number.
LEMMA EstimateType ==
  ASSUME NEW x \in Nat
  PROVE  x \div RunesPerToken \in Nat
<1>1. \A r \in Nat \ {0} : x \div r \in Nat
  OBVIOUS
<1>. QED
  BY <1>1, LimitType

\* A delta below the limit is delivered whole; of one that reaches it, what is left.
LEMMA Budget ==
  ASSUME NEW a, a.runes \in 0..Limit, NEW delta \in Seq(Chars)
  PROVE  LET out == applyMaxTokensBudget(a, delta)
         IN IF a.runes + Len(delta) < Limit THEN out = delta
            ELSE Limit - a.runes \in 0..Len(delta) /\ out = First(delta, Limit - a.runes)
<1>. DEFINE x == a.runes + Len(delta)
            left == Limit - a.runes
<1>1. Limit \in Nat /\ Len(delta) \in Nat /\ a.runes \in Nat /\ x \in Nat
  BY LimitType, LenProperties
<1>2. x \div RunesPerToken < maxTokens <=> x < Limit
  BY <1>1, Estimate
<1>3. CASE x < Limit
  BY <1>2, <1>3 DEF applyMaxTokensBudget
<1>4. CASE ~(x < Limit)
  <2>1. left \in 0..Len(delta)
    BY <1>1, <1>4
  <2>2. applyMaxTokensBudget(a, delta)
          = IF left <= 0 THEN <<>> ELSE IF Len(delta) <= left THEN delta ELSE First(delta, left)
    BY <1>2, <1>4 DEF applyMaxTokensBudget, Limit
  <2>. HIDE DEF left
  <2>3. First(delta, left) \in Seq(Chars) /\ Len(First(delta, left)) = left
    BY <2>1, FirstProps
  <2>4. CASE left <= 0
    <3>1. left = 0 /\ Len(First(delta, left)) = 0
      BY <1>1, <2>1, <2>3, <2>4
    <3>. QED
      BY <1>1, <1>4, <2>1, <2>2, <2>3, <2>4, <3>1, EmptySeq DEF left
  <2>5. CASE ~(left <= 0) /\ Len(delta) <= left
    <3>1. left = Len(delta)
      BY <1>1, <2>1, <2>5
    <3>2. First(delta, Len(delta)) = delta
      BY SubSeqFull DEF First
    <3>. QED
      BY <1>1, <1>4, <2>1, <2>2, <2>5, <3>1, <3>2 DEF left
  <2>6. CASE ~(left <= 0) /\ ~(Len(delta) <= left)
    BY <1>4, <2>1, <2>2, <2>6 DEF left
  <2>. QED
    BY <2>4, <2>5, <2>6
<1>. QED
  BY <1>3, <1>4

LEMMA AccumulatorFields ==
  ASSUME NEW a \in Accumulators
  PROVE  /\ a.tagBuf \in Seq(Chars) /\ a.pending \in Seq(Chars) /\ a.text \in Seq(Chars)
         /\ a.thinking \in Seq(Chars) /\ a.inside \in BOOLEAN /\ a.suppressReasoning \in BOOLEAN
         /\ a.runes \in 0..Limit /\ a.stop \in {"none", "stop_sequence", "max_tokens"}
         /\ a.matched \in 0..Len(StopSequences)
BY DEF Accumulators

\* What the accumulators a and b have in common, whatever was counted on the way.
SameReading(a, b) ==
  /\ b.tagBuf = a.tagBuf /\ b.inside = a.inside /\ b.suppressReasoning = a.suppressReasoning
  /\ b.matched = a.matched

\* The stop reason is left alone or becomes max_tokens, then with the budget used up.
Spent(a, b) ==
  /\ b.stop \in {a.stop, "max_tokens"}
  /\ a.stop = "none" /\ b.stop # "none" => b.runes = Limit

\* Counting a delta: the part that fits is counted, and it is all of it unless this ends the response.
LEMMA CountedFacts ==
  ASSUME NEW a \in Accumulators, NEW delta \in Seq(Chars)
  PROVE  LET out == applyMaxTokensBudget(a, delta)
             c == Counted(a, delta)
         IN /\ out \in Seq(Chars) /\ IsPrefix(out, delta)
            /\ c \in Accumulators /\ SameReading(a, c) /\ Spent(a, c)
            /\ c.pending = a.pending /\ c.text = a.text /\ c.thinking = a.thinking
            /\ c.runes = a.runes + Len(out)
            /\ c.stop = "none" => out = delta
<1>. DEFINE out == applyMaxTokensBudget(a, delta)
            c == Counted(a, delta)
            x == a.runes + Len(delta)
            left == Limit - a.runes
            runes == a.runes + Len(out)
            stop == IF x \div RunesPerToken >= maxTokens THEN "max_tokens" ELSE a.stop
<1>1. Limit \in Nat /\ Len(delta) \in Nat /\ a.runes \in 0..Limit /\ x \in Nat
  BY LimitType, LenProperties, AccumulatorFields
<1>2. IF x < Limit THEN out = delta ELSE left \in 0..Len(delta) /\ out = First(delta, left)
  BY <1>1, Budget
<1>3. stop = IF x < Limit THEN a.stop ELSE "max_tokens"
  <2>1. x \div RunesPerToken < maxTokens <=> x < Limit
    BY <1>1, Estimate
  <2>2. x \div RunesPerToken \in Nat /\ maxTokens \in Nat
    BY <1>1, EstimateType, LimitType
  <2>. QED
    BY <2>1, <2>2
<1>4. c = [a EXCEPT !.runes = runes, !.stop = stop]
  BY DEF Counted
<1>. HIDE DEF out, stop, c
<1>5. /\ out \in Seq(Chars) /\ IsPrefix(out, delta)
      /\ Len(out) = IF x < Limit THEN Len(delta) ELSE left
  <2>1. CASE x < Limit
    <3>1. delta = delta \o <<>>
      BY ConcatEmptySeq
    <3>2. IsPrefix(delta, delta)
      BY <3>1, EmptySeq, PrefixOfConcat
    <3>. QED
      BY <1>2, <2>1, <3>2
  <2>2. CASE ~(x < Limit)
    <3>1. left \in 0..Len(delta) /\ out = First(delta, left)
      BY <1>2, <2>2
    <3>. HIDE DEF left
    <3>2. First(delta, left) \in Seq(Chars) /\ IsPrefix(First(delta, left), delta) /\ Len(First(delta, left)) = left
      BY <3>1, FirstProps, FirstIsPrefix
    <3>. QED
      BY <2>2, <3>1, <3>2
  <2>. QED
    BY <2>1, <2>2
<1>6. runes \in 0..Limit /\ (~(x < Limit) => runes = Limit)
  BY <1>1, <1>5
<1>. HIDE DEF runes
<1>7. stop \in {"none", "stop_sequence", "max_tokens"} /\ stop \in {a.stop, "max_tokens"}
  BY <1>3, AccumulatorFields
<1>8. c \in Accumulators
  BY <1>4, <1>6, <1>7, Zenon DEF Accumulators
<1>9. /\ c.tagBuf = a.tagBuf /\ c.inside = a.inside /\ c.suppressReasoning = a.suppressReasoning
      /\ c.matched = a.matched /\ c.pending = a.pending /\ c.text = a.text /\ c.thinking = a.thinking
      /\ c.runes = runes /\ c.stop = stop
  BY <1>4 DEF Accumulators
<1>10. Spent(a, c)
  BY <1>3, <1>6, <1>7, <1>9 DEF Spent
<1>11. c.stop = "none" => out = delta
  BY <1>2, <1>3, <1>9
<1>. QED
  BY <1>5, <1>8, <1>9, <1>10, <1>11 DEF SameReading, out, c, runes

\* A prefix, behind the same.
LEMMA PrefixBehind ==
  ASSUME NEW s \in Seq(Chars), NEW t \in Seq(Chars), NEW u \in Seq(Chars), IsPrefix(t, u)
  PROVE  IsPrefix(s \o t, s \o u)
<1>. DEFINE v == From(u, Len(t) + 1)
<1>1. v \in Seq(Chars) /\ u = t \o v
  BY PrefixSplit
<1>. HIDE DEF v
<1>2. s \o u = (s \o t) \o v
  <2>1. Regroups(s, t, v)
    BY <1>1, Associative
  <2>. QED
    BY <1>1, <2>1 DEF Regroups
<1>3. s \o t \in Seq(Chars)
  BY ConcatProperties
<1>4. IsPrefix(s \o t, (s \o t) \o v)
  BY <1>1, <1>3, PrefixOfConcat
<1>. QED
  BY <1>2, <1>4

LEMMA PrefixOfItself ==
  ASSUME NEW s \in Seq(Chars)
  PROVE  IsPrefix(s, s)
<1>1. s = s \o <<>> /\ <<>> \in Seq(Chars)
  BY ConcatEmptySeq, EmptySeq
<1>2. IsPrefix(s, s \o <<>>)
  BY <1>1, PrefixOfConcat
<1>. QED
  BY <1>1, <1>2

\* Delivered and counted are the same.
Even(a) == Len(a.text) + Len(a.thinking) = a.runes

LEMMA ThinkingFacts ==
  ASSUME NEW a \in Accumulators, NEW delta \in Seq(Chars)
  PROVE  LET b == accumulateThinking(a, delta)
         IN /\ b \in Accumulators /\ SameReading(a, b) /\ Spent(a, b)
            /\ b.pending = a.pending /\ b.text = a.text
            /\ b.stop = "none" => b.thinking = a.thinking \o delta
            /\ Even(a) => Even(b)
            /\ delta = <<>> => b = a
<1>. DEFINE out == applyMaxTokensBudget(a, delta)
            c == Counted(a, delta)
            b == accumulateThinking(a, delta)
            thinking == a.thinking \o out
<1>1. /\ a.thinking \in Seq(Chars) /\ a.text \in Seq(Chars) /\ a.runes \in Nat
      /\ Len(a.thinking) \in Nat /\ Len(a.text) \in Nat
  BY AccumulatorFields, LimitType, LenProperties
<1>2. CASE delta = <<>>
  <2>1. b = a
    BY <1>2 DEF accumulateThinking
  <2>2. a.thinking = a.thinking \o delta
    BY <1>1, <1>2, ConcatEmptySeq
  <2>. HIDE DEF b
  <2>. QED
    BY <1>2, <2>1, <2>2 DEF SameReading, Spent, b
<1>3. CASE delta # <<>>
  <2>1. /\ out \in Seq(Chars) /\ IsPrefix(out, delta)
        /\ c \in Accumulators /\ SameReading(a, c) /\ Spent(a, c)
        /\ c.pending = a.pending /\ c.text = a.text /\ c.thinking = a.thinking
        /\ c.runes = a.runes + Len(out)
        /\ c.stop = "none" => out = delta
    BY CountedFacts
  <2>2. b = [c EXCEPT !.thinking = c.thinking \o out]
    BY <1>3 DEF accumulateThinking
  <2>. HIDE DEF b, c, out
  <2>3. thinking \in Seq(Chars) /\ Len(thinking) = Len(a.thinking) + Len(out) /\ Len(out) \in Nat
    BY <1>1, <2>1, ConcatProperties, LenProperties
  <2>. HIDE DEF thinking
  <2>4. b = [c EXCEPT !.thinking = thinking]
    BY <2>1, <2>2 DEF thinking
  <2>5. b \in Accumulators
    BY <2>1, <2>3, <2>4, Zenon DEF Accumulators
  <2>6. /\ b.tagBuf = c.tagBuf /\ b.inside = c.inside /\ b.suppressReasoning = c.suppressReasoning
        /\ b.matched = c.matched /\ b.pending = c.pending /\ b.text = c.text /\ b.thinking = thinking
        /\ b.runes = c.runes /\ b.stop = c.stop
    BY <2>1, <2>4 DEF Accumulators
  <2>7. Even(a) => Even(b)
    <3>1. b.text = a.text /\ b.runes = a.runes + Len(out) /\ Len(b.thinking) = Len(a.thinking) + Len(out)
      BY <2>1, <2>3, <2>6
    <3>2. ASSUME Len(a.text) + Len(a.thinking) = a.runes PROVE Len(b.text) + Len(b.thinking) = b.runes
      <4>. DEFINE m == Len(a.text)
                  n == Len(a.thinking)
                  k == Len(out)
      <4>1. m \in Nat /\ n \in Nat /\ k \in Nat /\ b.runes = (m + n) + k
        BY <1>1, <2>3, <3>1, <3>2
      <4>2. Len(b.text) + Len(b.thinking) = m + (n + k)
        BY <3>1
      <4>. HIDE DEF m, n, k
      <4>3. (m + n) + k = m + (n + k)
        BY <4>1
      <4>. QED
        BY <4>1, <4>2, <4>3, Zenon
    <3>. QED
      BY <3>2 DEF Even
  <2>8. SameReading(a, b) /\ Spent(a, b)
    BY <2>1, <2>6 DEF SameReading, Spent
  <2>9. b.stop = "none" => b.thinking = a.thinking \o delta
    BY <2>1, <2>6 DEF thinking
  <2>. QED
    BY <1>3, <2>1, <2>5, <2>6, <2>7, <2>8, <2>9 DEF b
<1>. QED
  BY <1>2, <1>3

LEMMA TextFacts ==
  ASSUME NEW a \in Accumulators, NEW s \in Seq(Chars)
  PROVE  LET b == AddText(a, s)
         IN /\ b \in Accumulators /\ SameReading(a, b) /\ Spent(a, b)
            /\ b.pending = a.pending /\ b.thinking = a.thinking
            /\ IsPrefix(b.text, a.text \o s)
            /\ b.stop = "none" => b.text = a.text \o s
            /\ Even(a) => Even(b)
<1>. DEFINE out == applyMaxTokensBudget(a, s)
            c == Counted(a, s)
            b == AddText(a, s)
            text == a.text \o out
<1>1. /\ a.thinking \in Seq(Chars) /\ a.text \in Seq(Chars) /\ a.runes \in Nat
      /\ Len(a.thinking) \in Nat /\ Len(a.text) \in Nat
  BY AccumulatorFields, LimitType, LenProperties
<1>2. CASE s = <<>>
  <2>1. b = a
    BY <1>2 DEF AddText
  <2>2. a.text = a.text \o s
    BY <1>1, <1>2, ConcatEmptySeq
  <2>3. IsPrefix(a.text, a.text)
    BY <1>1, PrefixOfItself
  <2>. HIDE DEF b
  <2>. QED
    BY <2>1, <2>2, <2>3 DEF SameReading, Spent, b
<1>3. CASE s # <<>>
  <2>1. /\ out \in Seq(Chars) /\ IsPrefix(out, s)
        /\ c \in Accumulators /\ SameReading(a, c) /\ Spent(a, c)
        /\ c.pending = a.pending /\ c.text = a.text /\ c.thinking = a.thinking
        /\ c.runes = a.runes + Len(out)
        /\ c.stop = "none" => out = s
    BY CountedFacts
  <2>2. b = [c EXCEPT !.text = c.text \o out]
    BY <1>3 DEF AddText
  <2>. HIDE DEF b, c, out
  <2>3. text \in Seq(Chars) /\ Len(text) = Len(a.text) + Len(out) /\ Len(out) \in Nat
    BY <1>1, <2>1, ConcatProperties, LenProperties
  <2>4. IsPrefix(text, a.text \o s)
    BY <1>1, <2>1, PrefixBehind
  <2>. HIDE DEF text
  <2>5. b = [c EXCEPT !.text = text]
    BY <2>1, <2>2 DEF text
  <2>6. b \in Accumulators
    BY <2>1, <2>3, <2>5, Zenon DEF Accumulators
  <2>7. /\ b.tagBuf = c.tagBuf /\ b.inside = c.inside /\ b.suppressReasoning = c.suppressReasoning
        /\ b.matched = c.matched /\ b.pending = c.pending /\ b.text = text /\ b.thinking = c.thinking
        /\ b.runes = c.runes /\ b.stop = c.stop
    BY <2>1, <2>5 DEF Accumulators
  <2>8. Even(a) => Even(b)
    <3>1. b.thinking = a.thinking /\ b.runes = a.runes + Len(out) /\ Len(b.text) = Len(a.text) + Len(out)
      BY <2>1, <2>3, <2>7
    <3>2. ASSUME Len(a.text) + Len(a.thinking) = a.runes PROVE Len(b.text) + Len(b.thinking) = b.runes
      <4>. DEFINE m == Len(a.text)
                  n == Len(a.thinking)
                  k == Len(out)
      <4>1. m \in Nat /\ n \in Nat /\ k \in Nat /\ b.runes = (m + n) + k
        BY <1>1, <2>3, <3>1, <3>2
      <4>2. Len(b.text) + Len(b.thinking) = (m + k) + n
        BY <3>1
      <4>. HIDE DEF m, n, k
      <4>3. (m + n) + k = (m + k) + n
        BY <4>1
      <4>. QED
        BY <4>1, <4>2, <4>3, Zenon
    <3>. QED
      BY <3>2 DEF Even
  <2>9. SameReading(a, b) /\ Spent(a, b)
    BY <2>1, <2>7 DEF SameReading, Spent
  <2>10. b.stop = "none" => b.text = a.text \o s
    BY <2>1, <2>7 DEF text
  <2>. QED
    BY <2>1, <2>4, <2>6, <2>7, <2>8, <2>9, <2>10 DEF b
<1>. QED
  BY <1>2, <1>3

-----------------------------------------------------------------------------
(***************************************************************************)
(* Stop sequences.                                                         *)
(***************************************************************************)
LEMMA StopSequenceType ==
  ASSUME NEW i \in DOMAIN StopSequences
  PROVE  /\ StopSequences[i] \in Seq(Chars) /\ StopSequences[i] # <<>>
         /\ Len(StopSequences[i]) \in Nat \ {0} /\ i \in 1..Len(StopSequences)
<1>1. StopSequences \in Seq(Seq(Chars) \ {<<>>})
  BY TextAssumption
<1>2. i \in 1..Len(StopSequences) /\ StopSequences[i] \in Seq(Chars) \ {<<>>}
  BY <1>1, ElementOfSeq, LenProperties
<1>3. StopSequences[i] \in Seq(Chars) /\ StopSequences[i] # <<>>
  BY <1>2
<1>4. Len(StopSequences[i]) \in Nat /\ Len(StopSequences[i]) # 0
  BY <1>3, LenProperties, EmptySeq
<1>. QED
  BY <1>2, <1>3, <1>4

\* The characters held back for a match are as many as the longest stop sequence has, but one.
LEMMA KeepLongest ==
  /\ stopSeqMaxKeep \in Nat
  /\ \A i \in DOMAIN StopSequences : Len(StopSequences[i]) <= stopSeqMaxKeep + 1
<1>. DEFINE T == {0} \cup {Len(s) - 1 : s \in ToSet(StopSequences)}
            B(n) == n <= Len(StopSequences) =>
                      \E N \in Nat : \A i \in 1..n : Len(StopSequences[i]) <= N
            S == {n \in Nat : B(n)}
<1>1. /\ Len(StopSequences) \in Nat /\ DOMAIN StopSequences = 1..Len(StopSequences)
      /\ \A i \in 1..Len(StopSequences) : Len(StopSequences[i]) \in Nat \ {0}
  <2>1. Len(StopSequences) \in Nat /\ DOMAIN StopSequences = 1..Len(StopSequences)
    BY TextAssumption, LenProperties
  <2>. QED
    BY <2>1, StopSequenceType
<1>2. Nat \subseteq S
  <2>1. ASSUME NEW n \in Nat, \A m \in 0..(n - 1) : m \in S PROVE n \in S
    <3>1. CASE n = 0
      BY <3>1
    <3>2. CASE n # 0
      <4>1. n - 1 \in 0..(n - 1) /\ n - 1 \in Nat
        BY <3>2
      <4>2. B(n - 1)
        BY <2>1, <4>1
      <4>. SUFFICES ASSUME n <= Len(StopSequences)
                    PROVE  \E N \in Nat : \A i \in 1..n : Len(StopSequences[i]) <= N
        OBVIOUS
      <4>3. PICK N \in Nat : \A i \in 1..(n - 1) : Len(StopSequences[i]) <= N
        BY <1>1, <4>1, <4>2
      <4>. DEFINE M == N + Len(StopSequences[n])
      <4>4. Len(StopSequences[n]) \in Nat /\ M \in Nat
        BY <1>1, <3>2
      <4>5. ASSUME NEW i \in 1..n PROVE Len(StopSequences[i]) <= M
        <5>1. CASE i = n
          BY <4>4, <5>1
        <5>2. CASE i # n
          <6>1. i \in 1..(n - 1) /\ i \in 1..Len(StopSequences)
            BY <1>1, <5>2
          <6>2. Len(StopSequences[i]) <= N /\ Len(StopSequences[i]) \in Nat
            BY <1>1, <4>3, <6>1
          <6>. QED
            BY <4>4, <6>2
        <5>. QED
          BY <5>1, <5>2
      <4>. HIDE DEF M
      <4>. QED
        BY <4>4, <4>5
    <3>. QED
      BY <3>1, <3>2
  <2>. HIDE DEF S
  <2>. QED
    BY <2>1, StrongInduction
<1>3. PICK N \in Nat : \A i \in 1..Len(StopSequences) : Len(StopSequences[i]) <= N
  <2>1. Len(StopSequences) \in S
    BY <1>1, <1>2
  <2>2. B(Len(StopSequences))
    BY <2>1
  <2>3. Len(StopSequences) <= Len(StopSequences)
    BY <1>1
  <2>. QED
    BY <2>2, <2>3
<1>4. T \subseteq 0..N
  <2>1. ASSUME NEW s \in ToSet(StopSequences) PROVE Len(s) - 1 \in 0..N
    <3>1. PICK i \in DOMAIN StopSequences : s = StopSequences[i]
      BY DEF ToSet
    <3>. QED
      BY <1>1, <1>3, <3>1
  <2>. QED
    BY <2>1
<1>5. \E x \in T : \A y \in T : y <= x
  BY <1>4, Greatest, 0 \in T
<1>6. T \subseteq Nat
  BY <1>4
<1>. HIDE DEF T
<1>7. \E x \in T : \A y \in T : x >= y
  BY <1>5, <1>6
<1>8. Max(T) \in T /\ \A y \in T : Max(T) >= y
  BY <1>7 DEF Max
<1>9. stopSeqMaxKeep = Max(T)
  BY DEF stopSeqMaxKeep, T
<1>10. ASSUME NEW i \in DOMAIN StopSequences PROVE Len(StopSequences[i]) <= stopSeqMaxKeep + 1
  <2>1. Len(StopSequences[i]) - 1 \in T
    BY DEF T, ToSet
  <2>2. Len(StopSequences[i]) \in Nat
    BY StopSequenceType
  <2>. DEFINE n == Len(StopSequences[i])
              m == stopSeqMaxKeep
  <2>3. n \in Nat /\ m \in Nat /\ m >= n - 1
    BY <1>6, <1>8, <1>9, <2>1, <2>2
  <2>. HIDE DEF n, m
  <2>4. n <= m + 1
    BY <2>3
  <2>. QED
    BY <2>4 DEF n, m
<1>. QED
  BY <1>6, <1>8, <1>9, <1>10

NoStopIn(s) == \A i \in DOMAIN StopSequences : ~Occurs(StopSequences[i], s)

LEMMA OccursInLonger ==
  ASSUME NEW p \in Seq(Chars), p # <<>>, NEW s \in Seq(Chars), NEW t \in Seq(Chars), IsPrefix(s, t),
         Occurs(p, s)
  PROVE  Occurs(p, t)
<1>. DEFINE v == From(t, Len(s) + 1)
<1>1. v \in Seq(Chars) /\ t = s \o v
  BY PrefixSplit
<1>. HIDE DEF v
<1>2. PICK i \in Nat : StandsAt(p, s, i)
  BY OccursSomewhere
<1>3. i + Len(p) - 1 <= Len(s) /\ Len(p) \in Nat
  BY <1>2, LenProperties DEF StandsAt
<1>4. StandsAt(p, s \o v, i)
  BY <1>1, <1>2, <1>3, StandsInConcat
<1>. QED
  BY <1>1, <1>4, OccursSomewhere

\* The end of the text that is held back, behind the text delivered.
HoldsBack(text, pending) ==
  /\ Len(pending) <= stopSeqMaxKeep /\ (text = <<>> \/ Len(pending) = stopSeqMaxKeep)
  /\ NoStopIn(text \o pending)

\* A new match stands in what was held back and what is new: none reaches into the text delivered.
LEMMA MatchInHeld ==
  ASSUME NEW text \in Seq(Chars), NEW pending \in Seq(Chars), NEW delta \in Seq(Chars),
         HoldsBack(text, pending), NEW i \in DOMAIN StopSequences,
         NEW p \in Nat, StandsAt(StopSequences[i], text \o (pending \o delta), p)
  PROVE  p > Len(text)
<1>. DEFINE s == StopSequences[i]
<1>1. /\ s \in Seq(Chars) /\ s # <<>> /\ Len(s) \in Nat \ {0}
      /\ Len(s) <= stopSeqMaxKeep + 1 /\ stopSeqMaxKeep \in Nat
      /\ Len(text) \in Nat /\ Len(pending) \in Nat
  BY StopSequenceType, KeepLongest, LenProperties
<1>. HIDE DEF s
<1>2. text \o pending \in Seq(Chars) /\ Len(text \o pending) = Len(text) + Len(pending)
  BY ConcatProperties
<1>3. StandsAt(s, (text \o pending) \o delta, p)
  <2>1. Regroups(text, pending, delta)
    BY Associative
  <2>. QED
    BY <2>1 DEF s, Regroups
<1>4. ~StandsAt(s, text \o pending, p)
  <2>1. ~Occurs(s, text \o pending)
    BY DEF HoldsBack, NoStopIn, s
  <2>. QED
    BY <1>1, <1>2, <2>1, OccursSomewhere
<1>5. ~(p + Len(s) - 1 <= Len(text) + Len(pending))
  <2>. DEFINE w == text \o pending
  <2>1. w \in Seq(Chars) /\ Len(s) \in Nat
    BY <1>1, <1>2
  <2>. HIDE DEF w
  <2>2. p + Len(s) - 1 <= Len(w) => (StandsAt(s, w \o delta, p) <=> StandsAt(s, w, p))
    BY <2>1, StandsInConcat
  <2>. QED
    BY <1>2, <1>3, <1>4, <2>2 DEF w
<1>6. p >= 1
  BY <1>3 DEF StandsAt
<1>7. CASE text = <<>>
  BY <1>6, <1>7, EmptySeq
<1>8. CASE Len(pending) = stopSeqMaxKeep
  BY <1>1, <1>5, <1>8
<1>. QED
  BY <1>7, <1>8 DEF HoldsBack

\* So it stands in the whole text if and where it stands in those.
LEMMA MatchesOfHeld ==
  ASSUME NEW text \in Seq(Chars), NEW pending \in Seq(Chars), NEW delta \in Seq(Chars),
         HoldsBack(text, pending), NEW i \in DOMAIN StopSequences
  PROVE  /\ Occurs(StopSequences[i], text \o (pending \o delta)) => Occurs(StopSequences[i], pending \o delta)
         /\ \A k \in Nat : IsFirstPlace(StopSequences[i], pending \o delta, k) =>
              k - 1 \in 0..Len(pending \o delta) /\ ~Occurs(StopSequences[i], text \o First(pending \o delta, k - 1))
<1>. DEFINE s == StopSequences[i]
            all == pending \o delta
            w == text \o all
<1>1. /\ s \in Seq(Chars) /\ s # <<>> /\ Len(s) \in Nat \ {0}
      /\ all \in Seq(Chars) /\ w \in Seq(Chars) /\ Len(text) \in Nat /\ Len(all) \in Nat
  BY StopSequenceType, ConcatProperties, LenProperties
<1>2. \A p \in Nat : StandsAt(s, w, p) => p > Len(text)
  BY MatchInHeld
<1>. HIDE DEF s, all
<1>3. \A p \in Nat \ {0} : StandsAt(s, w, Len(text) + p) <=> StandsAt(s, all, p)
  BY <1>1, StandsInConcat
<1>. HIDE DEF w
<1>4. ASSUME NEW p \in Nat, StandsAt(s, w, p)
      PROVE  p - Len(text) \in Nat /\ StandsAt(s, all, p - Len(text))
  <2>1. p - Len(text) \in Nat \ {0} /\ Len(text) + (p - Len(text)) = p
    BY <1>1, <1>2, <1>4
  <2>. QED
    BY <1>3, <1>4, <2>1
<1>5. Occurs(s, w) => Occurs(s, all)
  BY <1>1, <1>4, OccursSomewhere
<1>6. ASSUME NEW k \in Nat, IsFirstPlace(s, all, k)
      PROVE  k - 1 \in 0..Len(all) /\ ~Occurs(s, text \o First(all, k - 1))
  <2>. DEFINE h == First(all, k - 1)
              t == text \o h
  <2>1. StandsAt(s, all, k) /\ \A j \in Nat : StandsAt(s, all, j) => k <= j
    BY <1>6 DEF IsFirstPlace
  <2>2. k - 1 \in 0..Len(all)
    BY <1>1, <2>1 DEF StandsAt
  <2>3. h \in Seq(Chars) /\ Len(h) = k - 1 /\ IsPrefix(h, all)
    BY <1>1, <2>2, FirstProps, FirstIsPrefix
  <2>. HIDE DEF h
  <2>4. t \in Seq(Chars) /\ Len(t) = Len(text) + (k - 1) /\ IsPrefix(t, w)
    BY <1>1, <2>3, ConcatProperties, PrefixBehind DEF w
  <2>5. SUFFICES ASSUME Occurs(s, t) PROVE FALSE
    BY <2>2 DEF h
  <2>. HIDE DEF t
  <2>6. PICK p \in Nat : StandsAt(s, t, p)
    BY <1>1, <2>4, <2>5, OccursSomewhere
  <2>7. p + Len(s) - 1 <= Len(t)
    BY <2>6 DEF StandsAt
  <2>8. StandsAt(s, w, p)
    <3>. DEFINE v == From(w, Len(t) + 1)
    <3>1. v \in Seq(Chars) /\ w = t \o v
      BY <1>1, <2>4, PrefixSplit
    <3>. HIDE DEF v
    <3>2. StandsAt(s, t \o v, p)
      BY <1>1, <2>4, <2>6, <2>7, <3>1, StandsInConcat
    <3>. QED
      BY <3>1, <3>2
  <2>9. p - Len(text) \in Nat /\ StandsAt(s, all, p - Len(text))
    BY <1>4, <2>8
  <2>10. k <= p - Len(text)
    BY <2>1, <2>9
  <2>. QED
    BY <1>1, <2>4, <2>7, <2>10
<1>. QED
  BY <1>5, <1>6 DEF s, all, w

Withheld(a) ==
  \A i \in DOMAIN StopSequences :
    a.stop # "stop_sequence" \/ i <= a.matched => ~Occurs(StopSequences[i], a.text)

SameState(a, b) ==
  b.tagBuf = a.tagBuf /\ b.inside = a.inside /\ b.suppressReasoning = a.suppressReasoning

\* What the filter does with a match: the first of the list that occurs ends the text where it begins.
LEMMA FilterMatch ==
  ASSUME NEW a \in Accumulators, NEW delta \in Seq(Chars),
         ~NoStopIn(a.pending \o delta)
  PROVE  LET b == applyStopSequenceFilter(a, delta)
             all == a.pending \o delta
         IN \E m \in DOMAIN StopSequences : \E k \in Nat :
              /\ IsFirstPlace(StopSequences[m], all, k)
              /\ \A i \in DOMAIN StopSequences : Occurs(StopSequences[i], all) => m <= i
              /\ b \in Accumulators /\ SameState(a, b) /\ b.thinking = a.thinking
              /\ b.stop = "stop_sequence" /\ b.matched = m
              /\ b.text = a.text \o First(all, k - 1) /\ k - 1 \in 0..Len(all)
<1>. DEFINE all == a.pending \o delta
            b == applyStopSequenceFilter(a, delta)
            found == {i \in DOMAIN StopSequences : Occurs(StopSequences[i], all)}
            m == Min(found)
            k == IndexFirstSubSeq(StopSequences[m], all)
            text == a.text \o First(all, k - 1)
<1>1. all \in Seq(Chars) /\ a.text \in Seq(Chars) /\ Len(all) \in Nat
  BY AccumulatorFields, ConcatProperties, LenProperties
<1>2. found # {} /\ found \subseteq Nat
  <2>1. \E i \in DOMAIN StopSequences : Occurs(StopSequences[i], all)
    BY DEF NoStopIn
  <2>2. \A i \in DOMAIN StopSequences : i \in Nat
    BY StopSequenceType
  <2>. QED
    BY <2>1, <2>2
<1>3. b = [a EXCEPT !.pending = <<>>, !.stop = "stop_sequence", !.matched = m, !.text = text]
  BY <1>2 DEF applyStopSequenceFilter
<1>4. m \in found /\ \A i \in found : m <= i
  <2>. HIDE DEF found
  <2>1. \E x \in found : \A y \in found : x <= y
    BY <1>2, LeastNat
  <2>. QED
    BY <2>1 DEF Min
<1>5. m \in DOMAIN StopSequences /\ Occurs(StopSequences[m], all)
  BY <1>4
<1>6. \A i \in DOMAIN StopSequences : Occurs(StopSequences[i], all) => m <= i
  BY <1>4
<1>. HIDE DEF m, b, all
<1>7. StopSequences[m] \in Seq(Chars) /\ StopSequences[m] # <<>> /\ m \in 0..Len(StopSequences)
  BY <1>5, StopSequenceType
<1>8. k \in Nat /\ IsFirstPlace(StopSequences[m], all, k)
  BY <1>1, <1>5, <1>7, FirstPlace
<1>9. k - 1 \in 0..Len(all)
  <2>1. k >= 1 /\ k + Len(StopSequences[m]) - 1 <= Len(all) /\ Len(StopSequences[m]) \in Nat \ {0}
    BY <1>5, <1>8, StopSequenceType DEF IsFirstPlace, StandsAt
  <2>. QED
    BY <1>1, <1>8, <2>1
<1>. HIDE DEF k
<1>10. text \in Seq(Chars)
  BY <1>1, <1>9, FirstProps, ConcatProperties
<1>. HIDE DEF text
<1>11. b \in Accumulators
  BY <1>3, <1>7, <1>10, EmptySeq, Zenon DEF Accumulators
<1>12. /\ b.tagBuf = a.tagBuf /\ b.inside = a.inside /\ b.suppressReasoning = a.suppressReasoning
       /\ b.thinking = a.thinking /\ b.stop = "stop_sequence" /\ b.matched = m /\ b.text = text
  BY <1>3 DEF Accumulators
<1>. QED
  BY <1>5, <1>6, <1>8, <1>9, <1>11, <1>12 DEF SameState, b, all, text

\* What it does without one: the end of the text is held back, the rest is delivered.
LEMMA FilterNoMatch ==
  ASSUME NEW a \in Accumulators, NEW delta \in Seq(Chars),
         NoStopIn(a.pending \o delta)
  PROVE  LET b == applyStopSequenceFilter(a, delta)
             all == a.pending \o delta
         IN \E kept \in 0..Len(all) :
              /\ kept = IF Len(all) <= stopSeqMaxKeep THEN 0 ELSE Len(all) - stopSeqMaxKeep
              /\ b \in Accumulators /\ SameReading(a, b) /\ Spent(a, b) /\ b.thinking = a.thinking
              /\ b.pending = From(all, kept + 1)
              /\ IsPrefix(b.text, a.text \o First(all, kept))
              /\ b.stop = "none" => b.text = a.text \o First(all, kept)
              /\ a.stop = "none" => (Even(a) => Even(b))
              /\ a.stop # "none" => b.runes = a.runes /\ b.stop = a.stop
<1>. DEFINE all == a.pending \o delta
            b == applyStopSequenceFilter(a, delta)
            found == {i \in DOMAIN StopSequences : Occurs(StopSequences[i], all)}
            kept == IF Len(all) <= stopSeqMaxKeep THEN 0 ELSE Len(all) - stopSeqMaxKeep
            c == [a EXCEPT !.pending = From(all, kept + 1)]
            h == First(all, kept)
            text == a.text \o h
<1>1. all \in Seq(Chars) /\ a.text \in Seq(Chars) /\ Len(all) \in Nat
  BY AccumulatorFields, ConcatProperties, LenProperties
<1>2. found = {}
  BY DEF NoStopIn
<1>3. b = IF LocalStop(a) THEN [c EXCEPT !.text = c.text \o h] ELSE AddText(c, h)
  BY <1>2 DEF applyStopSequenceFilter
<1>. HIDE DEF b, all
<1>4. kept \in 0..Len(all) /\ kept + 1 \in 1..(Len(all) + 1)
  BY <1>1, KeepLongest
<1>. HIDE DEF kept
<1>5. From(all, kept + 1) \in Seq(Chars) /\ h \in Seq(Chars)
  BY <1>1, <1>4, FirstProps, FromProps
<1>6. c \in Accumulators
  BY <1>5, Zenon DEF Accumulators
<1>7. /\ c.tagBuf = a.tagBuf /\ c.inside = a.inside /\ c.suppressReasoning = a.suppressReasoning
      /\ c.matched = a.matched /\ c.pending = From(all, kept + 1) /\ c.text = a.text
      /\ c.thinking = a.thinking /\ c.runes = a.runes /\ c.stop = a.stop
  BY DEF Accumulators
<1>. HIDE DEF c, h
<1>8. text \in Seq(Chars)
  BY <1>1, <1>5, ConcatProperties
<1>9. CASE LocalStop(a)
  <2>. HIDE DEF text
  <2>1. b = [c EXCEPT !.text = text]
    BY <1>3, <1>7, <1>9 DEF text
  <2>2. b \in Accumulators
    BY <1>6, <1>8, <2>1, Zenon DEF Accumulators
  <2>3. /\ b.tagBuf = c.tagBuf /\ b.inside = c.inside /\ b.suppressReasoning = c.suppressReasoning
        /\ b.matched = c.matched /\ b.pending = c.pending /\ b.text = text
        /\ b.thinking = c.thinking /\ b.runes = c.runes /\ b.stop = c.stop
    BY <1>6, <2>1 DEF Accumulators
  <2>4. IsPrefix(b.text, text)
    BY <1>8, <2>3, PrefixOfItself
  <2>5. a.stop # "none"
    BY <1>9 DEF LocalStop
  <2>6. SameReading(a, b) /\ Spent(a, b)
    BY <1>7, <2>3, <2>5 DEF SameReading, Spent
  <2>. QED
    BY <1>4, <1>7, <2>2, <2>3, <2>4, <2>5, <2>6 DEF b, all, text, h, kept
<1>10. CASE ~LocalStop(a)
  <2>. DEFINE d == AddText(c, h)
  <2>1. b = d
    BY <1>3, <1>10
  <2>2. /\ d \in Accumulators /\ SameReading(c, d) /\ Spent(c, d)
        /\ d.pending = c.pending /\ d.thinking = c.thinking
        /\ IsPrefix(d.text, c.text \o h)
        /\ d.stop = "none" => d.text = c.text \o h
        /\ Even(c) => Even(d)
    BY <1>5, <1>6, TextFacts
  <2>. HIDE DEF d
  <2>3. a.stop = "none"
    BY <1>10 DEF LocalStop
  <2>4. SameReading(a, b) /\ Spent(a, b)
    BY <1>7, <2>1, <2>2 DEF SameReading, Spent
  <2>5. Even(a) => Even(b)
    BY <1>7, <2>1, <2>2 DEF Even
  <2>. QED
    BY <1>4, <1>7, <2>1, <2>2, <2>3, <2>4, <2>5 DEF b, all, h, kept
<1>. QED
  BY <1>9, <1>10

(***************************************************************************)
(* The filter, for a text that holds back its end: what is delivered is a  *)
(* beginning of the text without a stop sequence in it, and all of it but  *)
(* the end held back unless this ends the response.                        *)
(***************************************************************************)
Delivers(a, b, s) ==
  /\ b \in Accumulators /\ SameState(a, b) /\ b.thinking = a.thinking
  /\ IsPrefix(b.text, a.text \o (a.pending \o s))
  /\ b.stop = "none" =>
       a.stop = "none" /\ b.text \o b.pending = a.text \o (a.pending \o s)
  /\ b.stop # "stop_sequence" =>
       /\ a.stop = "none" => Spent(a, b) /\ (Even(a) => Even(b))
       /\ a.stop # "none" => b.runes = a.runes /\ b.stop = a.stop

LEMMA FilterDelivers ==
  ASSUME NEW a \in Accumulators, NEW delta \in Seq(Chars)
  PROVE  Delivers(a, applyStopSequenceFilter(a, delta), delta)
<1>. DEFINE all == a.pending \o delta
            b == applyStopSequenceFilter(a, delta)
<1>1. all \in Seq(Chars) /\ a.text \in Seq(Chars) /\ a.text \o all \in Seq(Chars)
  BY AccumulatorFields, ConcatProperties
<1>2. CASE ~NoStopIn(all)
  <2>1. PICK m \in DOMAIN StopSequences, k \in Nat :
          /\ b \in Accumulators /\ SameState(a, b) /\ b.thinking = a.thinking
          /\ b.stop = "stop_sequence"
          /\ b.text = a.text \o First(all, k - 1) /\ k - 1 \in 0..Len(all)
    BY <1>2, FilterMatch
  <2>. HIDE DEF b, all
  <2>2. First(all, k - 1) \in Seq(Chars) /\ IsPrefix(First(all, k - 1), all)
    BY <1>1, <2>1, FirstProps, FirstIsPrefix
  <2>3. IsPrefix(b.text, a.text \o all)
    BY <1>1, <2>1, <2>2, PrefixBehind
  <2>. QED
    BY <2>1, <2>3 DEF Delivers, b, all
<1>3. CASE NoStopIn(all)
  <2>1. PICK kept \in 0..Len(all) :
              /\ b \in Accumulators /\ SameReading(a, b) /\ Spent(a, b) /\ b.thinking = a.thinking
              /\ b.pending = From(all, kept + 1)
              /\ IsPrefix(b.text, a.text \o First(all, kept))
              /\ b.stop = "none" => b.text = a.text \o First(all, kept)
              /\ a.stop = "none" => (Even(a) => Even(b))
              /\ a.stop # "none" => b.runes = a.runes /\ b.stop = a.stop
    BY <1>3, FilterNoMatch
  <2>. HIDE DEF b, all
  <2>2. kept + 1 \in 1..(Len(all) + 1)
    BY <1>1, LenProperties
  <2>3. /\ First(all, kept) \in Seq(Chars) /\ IsPrefix(First(all, kept), all)
        /\ From(all, kept + 1) \in Seq(Chars)
        /\ First(all, kept) \o From(all, kept + 1) = all
    BY <1>1, <2>2, FirstProps, FromProps, FirstFrom, FirstIsPrefix
  <2>4. b.text \in Seq(Chars)
    BY <2>1, AccumulatorFields
  <2>5. a.text \o First(all, kept) \in Seq(Chars) /\ IsPrefix(a.text \o First(all, kept), a.text \o all)
    BY <1>1, <2>3, PrefixBehind, ConcatProperties
  <2>6. IsPrefix(b.text, a.text \o all)
    BY <1>1, <2>1, <2>4, <2>5, PrefixTransitive
  <2>7. (a.text \o First(all, kept)) \o From(all, kept + 1) = a.text \o all
    <3>. DEFINE f == First(all, kept)
                g == From(all, kept + 1)
    <3>1. f \in Seq(Chars) /\ g \in Seq(Chars) /\ f \o g = all /\ a.text \in Seq(Chars)
      BY <1>1, <2>3
    <3>. HIDE DEF f, g
    <3>2. Regroups(a.text, f, g)
      BY <3>1, Associative
    <3>. QED
      BY <3>1, <3>2 DEF f, g, Regroups
  <2>8. a.stop \in {"none", "stop_sequence", "max_tokens"} /\ b.stop \in {a.stop, "max_tokens"}
    BY <2>1, AccumulatorFields DEF Spent
  <2>9. SameState(a, b)
    BY <2>1 DEF SameReading, SameState
  <2>10. b.stop = "none" => a.stop = "none" /\ b.text \o b.pending = a.text \o all
    BY <2>1, <2>7, <2>8
  <2>11. b.stop # "stop_sequence" /\ a.stop # "none" => b.stop = a.stop
    BY <2>1
  <2>. QED
    BY <2>1, <2>6, <2>9, <2>10, <2>11 DEF Delivers, b, all
<1>. QED
  BY <1>2, <1>3

LEMMA FilterWithholds ==
  ASSUME NEW a \in Accumulators, NEW delta \in Seq(Chars), a.stop # "stop_sequence",
         HoldsBack(a.text, a.pending)
  PROVE  LET b == applyStopSequenceFilter(a, delta)
         IN Withheld(b) /\ (b.stop = "none" => HoldsBack(b.text, b.pending))
<1>. DEFINE all == a.pending \o delta
            b == applyStopSequenceFilter(a, delta)
            w == a.text \o all
<1>1. /\ all \in Seq(Chars) /\ a.text \in Seq(Chars) /\ w \in Seq(Chars) /\ a.pending \in Seq(Chars)
      /\ Len(all) \in Nat /\ Len(a.text) \in Nat /\ Len(a.pending) \in Nat
      /\ Len(all) = Len(a.pending) + Len(delta) /\ Len(delta) \in Nat
  BY AccumulatorFields, ConcatProperties, LenProperties
<1>2. /\ b \in Accumulators /\ IsPrefix(b.text, w)
      /\ b.stop = "none" => b.text \o b.pending = w
  BY FilterDelivers DEF Delivers
<1>3. b.text \in Seq(Chars) /\ b.pending \in Seq(Chars) /\ b.stop \in {"none", "stop_sequence", "max_tokens"}
  BY <1>2, AccumulatorFields
<1>4. \A i \in DOMAIN StopSequences : Occurs(StopSequences[i], w) => Occurs(StopSequences[i], all)
  BY <1>1, MatchesOfHeld
<1>5. \A i \in DOMAIN StopSequences : Occurs(StopSequences[i], b.text) => Occurs(StopSequences[i], all)
  <2>. HIDE DEF b, w
  <2>1. ASSUME NEW i \in DOMAIN StopSequences, Occurs(StopSequences[i], b.text)
        PROVE  Occurs(StopSequences[i], w)
    BY <1>1, <1>2, <1>3, <2>1, StopSequenceType, OccursInLonger
  <2>. QED
    BY <1>4, <2>1
<1>6. CASE ~NoStopIn(all)
  <2>1. PICK m \in DOMAIN StopSequences, k \in Nat :
          /\ IsFirstPlace(StopSequences[m], all, k)
          /\ \A i \in DOMAIN StopSequences : Occurs(StopSequences[i], all) => m <= i
          /\ b.stop = "stop_sequence" /\ b.matched = m
          /\ b.text = a.text \o First(all, k - 1)
    BY <1>6, FilterMatch
  <2>2. ~Occurs(StopSequences[m], b.text)
    BY <1>1, <2>1, MatchesOfHeld
  <2>. HIDE DEF b, all
  <2>3. ASSUME NEW i \in DOMAIN StopSequences, i <= m, Occurs(StopSequences[i], b.text) PROVE FALSE
    <3>1. m <= i
      BY <1>5, <2>1, <2>3
    <3>2. i \in Nat /\ m \in Nat
      BY StopSequenceType
    <3>3. i = m
      BY <2>3, <3>1, <3>2
    <3>. QED
      BY <2>2, <2>3, <3>3
  <2>. QED
    BY <2>1, <2>3 DEF Withheld, b
<1>7. CASE NoStopIn(all)
  <2>1. PICK kept \in 0..Len(all) :
              /\ kept = IF Len(all) <= stopSeqMaxKeep THEN 0 ELSE Len(all) - stopSeqMaxKeep
              /\ b.pending = From(all, kept + 1)
              /\ b.stop = "none" => b.text = a.text \o First(all, kept)
    BY <1>7, FilterNoMatch
  <2>2. Withheld(b)
    BY <1>5, <1>7 DEF Withheld, NoStopIn
  <2>3. ASSUME b.stop = "none" PROVE HoldsBack(b.text, b.pending)
    <3>1. NoStopIn(b.text \o b.pending)
      BY <1>2, <1>4, <1>7, <2>3 DEF NoStopIn
    <3>. HIDE DEF b, all
    <3>2. kept + 1 \in 1..(Len(all) + 1)
      BY <1>1
    <3>3. Len(b.pending) = Len(all) - (kept + 1) + 1
      BY <1>1, <2>1, <3>2, FromProps
    <3>4. stopSeqMaxKeep \in Nat
      BY KeepLongest
    <3>5. CASE Len(all) <= stopSeqMaxKeep
      <4>1. kept = 0 /\ Len(b.pending) = Len(all)
        BY <1>1, <2>1, <3>3, <3>5
      <4>2. CASE Len(a.pending) = stopSeqMaxKeep
        BY <1>1, <3>1, <3>4, <3>5, <4>1, <4>2 DEF HoldsBack
      <4>3. CASE a.text = <<>>
        <5>1. First(all, kept) \in Seq(Chars) /\ Len(First(all, kept)) = kept
          BY <1>1, FirstProps
        <5>2. First(all, kept) = <<>>
          BY <4>1, <5>1, EmptySeq
        <5>3. b.text = <<>>
          BY <2>1, <2>3, <4>3, <5>2, ConcatEmptySeq, EmptySeq
        <5>. QED
          BY <3>1, <3>5, <4>1, <5>3 DEF HoldsBack
      <4>. QED
        BY <4>2, <4>3 DEF HoldsBack
    <3>6. CASE ~(Len(all) <= stopSeqMaxKeep)
      <4>1. Len(b.pending) = stopSeqMaxKeep
        <5>. DEFINE n == Len(all)
                    m == stopSeqMaxKeep
        <5>1. kept = n - m /\ n \in Nat /\ m \in Nat
          BY <1>1, <2>1, <3>4, <3>6
        <5>2. Len(b.pending) = n - (kept + 1) + 1
          BY <3>3
        <5>. HIDE DEF n, m
        <5>3. n - (kept + 1) + 1 = m
          BY <5>1
        <5>. QED
          BY <5>2, <5>3, Zenon DEF m
      <4>. QED
        BY <3>1, <3>4, <4>1 DEF HoldsBack
    <3>. QED
      BY <3>5, <3>6
  <2>. QED
    BY <2>2, <2>3 DEF b
<1>. QED
  BY <1>6, <1>7

-----------------------------------------------------------------------------
(***************************************************************************)
(* One frame, and the end of the stream.                                   *)
(***************************************************************************)
LEMMA HeldHasNoStop ==
  ASSUME NEW a \in Accumulators, HoldsBack(a.text, a.pending)
  PROVE  NoStopIn(a.text)
<1>. DEFINE text == a.text
            pending == a.pending
<1>1. text \in Seq(Chars) /\ pending \in Seq(Chars)
  BY AccumulatorFields
<1>2. NoStopIn(text \o pending)
  BY DEF HoldsBack
<1>. HIDE DEF text, pending
<1>3. text \o pending \in Seq(Chars) /\ IsPrefix(text, text \o pending)
  BY <1>1, ConcatProperties, PrefixOfConcat
<1>4. ASSUME NEW i \in DOMAIN StopSequences, Occurs(StopSequences[i], text) PROVE FALSE
  <2>1. Occurs(StopSequences[i], text \o pending)
    BY <1>1, <1>3, <1>4, StopSequenceType, OccursInLonger
  <2>. QED
    BY <1>2, <2>1 DEF NoStopIn
<1>. QED
  BY <1>4 DEF NoStopIn, text

LEMMA TextDelivers ==
  ASSUME NEW a \in Accumulators, NEW s \in Seq(Chars)
  PROVE  Delivers(a, accumulateText(a, s), s)
<1>1. CASE s # <<>>
  BY <1>1, FilterDelivers DEF accumulateText
<1>2. CASE s = <<>>
  <2>. DEFINE text == a.text
              pending == a.pending
  <2>1. accumulateText(a, s) = a
    BY <1>2 DEF accumulateText
  <2>2. text \in Seq(Chars) /\ pending \in Seq(Chars)
    BY AccumulatorFields
  <2>. HIDE DEF text, pending
  <2>3. pending \o s = pending
    BY <1>2, <2>2, ConcatEmptySeq
  <2>4. IsPrefix(text, text \o pending)
    BY <2>2, PrefixOfConcat
  <2>. QED
    BY <2>1, <2>3, <2>4 DEF Delivers, SameState, Spent, text, pending
<1>. QED
  BY <1>1, <1>2

LEMMA TextWithholds ==
  ASSUME NEW a \in Accumulators, NEW s \in Seq(Chars), a.stop # "stop_sequence",
         HoldsBack(a.text, a.pending)
  PROVE  LET b == accumulateText(a, s)
         IN Withheld(b) /\ (b.stop = "none" => HoldsBack(b.text, b.pending))
<1>1. CASE s # <<>>
  BY <1>1, FilterWithholds DEF accumulateText
<1>2. CASE s = <<>>
  <2>1. accumulateText(a, s) = a
    BY <1>2 DEF accumulateText
  <2>2. NoStopIn(a.text)
    BY HeldHasNoStop
  <2>3. Withheld(a)
    BY <2>2 DEF Withheld, NoStopIn
  <2>. QED
    BY <2>1, <2>3
<1>. QED
  BY <1>1, <1>2

\* A frame delivers, behind what it found, the text and the thinking that were read off it.
LEMMA EventDelivers ==
  ASSUME NEW a \in Accumulators, NEW delta \in Seq(Chars), a.stop = "none",
         HoldsBack(a.text, a.pending), Even(a),
         NEW r \in Parsed, r = parseThinkingTags[a.tagBuf \o delta][a.inside]
  PROVE  LET d == assistantResponseEvent(a, delta)
         IN /\ d \in Accumulators
            /\ d.tagBuf = r.tagBuf /\ d.inside = r.inside
            /\ d.suppressReasoning = (a.suppressReasoning \/ r.opened)
            /\ IsPrefix(d.text, (a.text \o a.pending) \o r.text)
            /\ Withheld(d)
            /\ d.stop = "none" =>
                 /\ d.text \o d.pending = (a.text \o a.pending) \o r.text
                 /\ d.thinking = a.thinking \o r.thinking
                 /\ HoldsBack(d.text, d.pending)
            /\ d.stop # "stop_sequence" =>
                 \/ Even(d)
                 \/ /\ d.stop = "max_tokens" /\ r.thinking # <<>>
                    /\ d.runes = Limit /\ Len(d.thinking) <= d.runes
<1>. DEFINE suppress == a.suppressReasoning \/ r.opened
            b == [a EXCEPT !.tagBuf = r.tagBuf, !.inside = r.inside, !.suppressReasoning = suppress]
            c == accumulateThinking(b, r.thinking)
            d == accumulateText(c, r.text)
<1>1. assistantResponseEvent(a, delta) = d
  BY DEF assistantResponseEvent, LocalStop
<1>2. /\ r.text \in Seq(Chars) /\ r.thinking \in Seq(Chars) /\ r.tagBuf \in Seq(Chars)
      /\ r.inside \in BOOLEAN /\ suppress \in BOOLEAN
  BY ParsedFields, AccumulatorFields
<1>. HIDE DEF suppress
<1>3. b \in Accumulators
  BY <1>2, Zenon DEF Accumulators
<1>4. /\ b.tagBuf = r.tagBuf /\ b.inside = r.inside /\ b.suppressReasoning = suppress
      /\ b.pending = a.pending /\ b.text = a.text /\ b.thinking = a.thinking
      /\ b.runes = a.runes /\ b.stop = a.stop
  BY DEF Accumulators
<1>. HIDE DEF b
<1>5. Even(b)
  BY <1>4 DEF Even
<1>6. /\ c \in Accumulators /\ SameReading(b, c) /\ Spent(b, c)
      /\ c.pending = b.pending /\ c.text = b.text
      /\ c.stop = "none" => c.thinking = b.thinking \o r.thinking
      /\ Even(c)
      /\ r.thinking = <<>> => c = b
  BY <1>2, <1>3, <1>5, ThinkingFacts
<1>. HIDE DEF c
<1>7. c.stop \in {"none", "max_tokens"} /\ HoldsBack(c.text, c.pending)
  BY <1>4, <1>6 DEF Spent
<1>8. Delivers(c, d, r.text)
  BY <1>2, <1>6, TextDelivers
<1>9. Withheld(d) /\ (d.stop = "none" => HoldsBack(d.text, d.pending))
  BY <1>2, <1>6, <1>7, TextWithholds
<1>. HIDE DEF d
<1>10. /\ d \in Accumulators /\ SameState(c, d) /\ d.thinking = c.thinking
       /\ IsPrefix(d.text, c.text \o (c.pending \o r.text))
       /\ d.stop = "none" =>
            c.stop = "none" /\ d.text \o d.pending = c.text \o (c.pending \o r.text)
       /\ d.stop # "stop_sequence" =>
            /\ c.stop = "none" => Spent(c, d) /\ (Even(c) => Even(d))
            /\ c.stop # "none" => d.runes = c.runes /\ d.stop = c.stop
  BY <1>8 DEF Delivers
<1>11. c.text \o (c.pending \o r.text) = (a.text \o a.pending) \o r.text
  <2>. DEFINE x == a.text
              y == a.pending
              z == r.text
  <2>1. x \in Seq(Chars) /\ y \in Seq(Chars) /\ z \in Seq(Chars)
    BY <1>2, AccumulatorFields
  <2>2. c.text = x /\ c.pending = y
    BY <1>4, <1>6
  <2>. HIDE DEF x, y, z
  <2>3. Regroups(x, y, z)
    BY <2>1, Associative
  <2>4. c.text \o (c.pending \o z) = (x \o y) \o z
    BY <2>2, <2>3 DEF Regroups
  <2>. QED
    BY <2>4 DEF x, y, z
<1>12. /\ d.tagBuf = r.tagBuf /\ d.inside = r.inside /\ d.suppressReasoning = suppress
  BY <1>4, <1>6, <1>10 DEF SameReading, SameState
<1>13. d.stop = "none" => d.thinking = a.thinking \o r.thinking
  BY <1>4, <1>6, <1>10
<1>14. ASSUME d.stop # "stop_sequence"
       PROVE  \/ Even(d)
              \/ /\ d.stop = "max_tokens" /\ r.thinking # <<>>
                 /\ d.runes = Limit /\ Len(d.thinking) <= d.runes
  <2>1. CASE c.stop = "none"
    BY <1>6, <1>10, <1>14, <2>1
  <2>2. CASE c.stop = "max_tokens"
    <3>1. d.runes = c.runes /\ d.stop = "max_tokens" /\ d.thinking = c.thinking
      BY <1>10, <1>14, <2>2
    <3>2. c.runes = Limit /\ r.thinking # <<>>
      BY <1>4, <1>6, <2>2 DEF Spent
    <3>3. Len(c.thinking) <= c.runes
      <4>1. c.runes \in Nat /\ Len(c.text) \in Nat /\ Len(c.thinking) \in Nat
        BY <1>6, AccumulatorFields, LenProperties, LimitType
      <4>2. Len(c.text) + Len(c.thinking) = c.runes
        BY <1>6 DEF Even
      <4>. DEFINE m == Len(c.text)
                  n == Len(c.thinking)
                  k == c.runes
      <4>3. m \in Nat /\ n \in Nat /\ k \in Nat /\ m + n = k
        BY <4>1, <4>2
      <4>. HIDE DEF m, n, k
      <4>4. n <= k
        BY <4>3
      <4>. QED
        BY <4>4 DEF n, k
    <3>. QED
      BY <3>1, <3>2, <3>3
  <2>. QED
    BY <1>7, <2>1, <2>2
<1>. QED
  BY <1>1, <1>9, <1>10, <1>11, <1>12, <1>13, <1>14 DEF suppress

\* The end of the stream delivers what was held back, and the end of a tag that was never completed.
LEMMA FinalizeDelivers ==
  ASSUME NEW a \in Accumulators
  PROVE  LET e == FinalizeStream(a)
         IN /\ e \in Accumulators
            /\ e.stop = "none" =>
                 /\ a.stop = "none"
                 /\ e.text = IF a.inside THEN a.text \o a.pending ELSE a.text \o (a.pending \o a.tagBuf)
                 /\ e.thinking = IF a.inside THEN a.thinking \o a.tagBuf ELSE a.thinking
<1>. DEFINE b == [a EXCEPT !.tagBuf = <<>>]
            c == IF a.inside THEN accumulateThinking(b, a.tagBuf) ELSE accumulateText(b, a.tagBuf)
            d == [c EXCEPT !.pending = <<>>]
            e == IF LocalStop(c) THEN d ELSE AddText(d, c.pending)
<1>1. FinalizeStream(a) = e
  BY DEF FinalizeStream
<1>2. a.tagBuf \in Seq(Chars) /\ a.inside \in BOOLEAN
  BY AccumulatorFields
<1>3. b \in Accumulators
  BY EmptySeq, Zenon DEF Accumulators
<1>4. /\ b.pending = a.pending /\ b.text = a.text /\ b.thinking = a.thinking /\ b.stop = a.stop
  BY DEF Accumulators
<1>. HIDE DEF b
<1>5. /\ c \in Accumulators
      /\ c.stop = "none" =>
           /\ a.stop = "none"
           /\ c.text \o c.pending
                = IF a.inside THEN a.text \o a.pending ELSE a.text \o (a.pending \o a.tagBuf)
           /\ c.thinking = IF a.inside THEN a.thinking \o a.tagBuf ELSE a.thinking
  <2>1. CASE a.inside
    <3>. DEFINE f == accumulateThinking(b, a.tagBuf)
    <3>1. /\ f \in Accumulators /\ Spent(b, f)
          /\ f.pending = b.pending /\ f.text = b.text
          /\ f.stop = "none" => f.thinking = b.thinking \o a.tagBuf
      BY <1>2, <1>3, ThinkingFacts
    <3>2. c = f
      BY <2>1
    <3>. HIDE DEF f, c
    <3>3. f.stop = "none" => b.stop = "none"
      BY <3>1 DEF Spent
    <3>. QED
      BY <1>4, <2>1, <3>1, <3>2, <3>3
  <2>2. CASE ~a.inside
    <3>. DEFINE f == accumulateText(b, a.tagBuf)
    <3>1. Delivers(b, f, a.tagBuf)
      BY <1>2, <1>3, TextDelivers
    <3>2. c = f
      BY <2>2
    <3>. HIDE DEF f, c
    <3>. QED
      BY <1>4, <2>2, <3>1, <3>2 DEF Delivers
  <2>. QED
    BY <2>1, <2>2
<1>. HIDE DEF c
<1>6. d \in Accumulators
  BY <1>5, EmptySeq, Zenon DEF Accumulators
<1>7. d.text = c.text /\ d.thinking = c.thinking /\ d.stop = c.stop /\ c.pending \in Seq(Chars)
  BY <1>5 DEF Accumulators
<1>. HIDE DEF d
<1>8. CASE LocalStop(c)
  <2>1. e = d /\ c.stop # "none"
    BY <1>8 DEF LocalStop
  <2>. HIDE DEF e
  <2>. QED
    BY <1>1, <1>6, <1>7, <2>1
<1>9. CASE ~LocalStop(c)
  <2>. DEFINE f == AddText(d, c.pending)
  <2>1. e = f /\ c.stop = "none"
    BY <1>9 DEF LocalStop
  <2>2. /\ f \in Accumulators /\ f.thinking = d.thinking
        /\ f.stop = "none" => f.text = d.text \o c.pending
    BY <1>6, <1>7, TextFacts
  <2>. HIDE DEF e, f
  <2>. QED
    BY <1>1, <1>5, <1>7, <2>1, <2>2
<1>. QED
  BY <1>8, <1>9

-----------------------------------------------------------------------------
(***************************************************************************)
(* The inductive invariant.  While the response runs, the accumulator is   *)
(* what the parser makes of all that was sent, read at once: the text it   *)
(* delivered and holds back, the thinking behind the reasoning, the rest   *)
(* kept for a tag and the state the parser is in.                          *)
(***************************************************************************)
Read == parseThinkingTags[sent][FALSE]

ReadSoFar(a, r, reasonedFirst, thoughtLast) ==
  /\ a.tagBuf = r.tagBuf /\ a.inside = r.inside /\ a.suppressReasoning = r.opened
  /\ a.text \o a.pending = r.text /\ a.thinking = reasonedFirst \o r.thinking
  /\ ~a.suppressReasoning => reasonedFirst = thoughtLast
  /\ HoldsBack(a.text, a.pending)

WithinBudget(a) ==
  a.stop # "stop_sequence" =>
    \/ Even(a)
    \/ /\ a.stop = "max_tokens" /\ a.suppressReasoning /\ a.runes = Limit /\ Len(a.thinking) <= a.runes

Typed ==
  /\ content \in Seq(Chars) /\ thought \in Seq(Chars) /\ sent \in Seq(Chars) /\ reasoned \in Seq(Chars)
  /\ finished \in BOOLEAN /\ acc \in Accumulators

TextInv ==
  /\ Typed
  /\ ~finished /\ acc.stop = "none" => ReadSoFar(acc, Read, reasoned, thought)
  /\ ~finished => IsPrefix(acc.text, Read.text) /\ Withheld(acc) /\ WithinBudget(acc)
  /\ NothingLost

LEMMA InitRead == TextInit => TextInv
<1>. SUFFICES ASSUME TextInit PROVE TextInv
  OBVIOUS
<1>. DEFINE e == content
<1>1. /\ e = <<>> /\ thought = e /\ sent = e /\ reasoned = e /\ acc = newAccumulator /\ finished = FALSE
      /\ e \in Seq(Chars) /\ Len(e) = 0
  BY EmptySeq DEF TextInit
<1>. HIDE DEF e
<1>2. acc \in Accumulators
  <2>1. 0 \in 0..Limit
    BY LimitType
  <2>2. 0 \in 0..Len(StopSequences)
    BY TextAssumption, LenProperties
  <2>. QED
    BY <1>1, <2>1, <2>2 DEF newAccumulator, Accumulators
<1>3. /\ acc.tagBuf = e /\ acc.inside = FALSE /\ acc.suppressReasoning = FALSE /\ acc.pending = e
      /\ acc.text = e /\ acc.thinking = e /\ acc.runes = 0 /\ acc.stop = "none"
  BY <1>1 DEF newAccumulator
<1>4. /\ Read.text = e /\ Read.thinking = e /\ Read.tagBuf = e /\ Read.inside = FALSE
      /\ Read.opened = FALSE
  BY <1>1, NothingParsed DEF Read
<1>5. e \o e = e
  BY <1>1, ConcatEmptySeq
<1>6. HoldsBack(e, e)
  <2>1. ASSUME NEW i \in DOMAIN StopSequences, Occurs(StopSequences[i], e) PROVE FALSE
    <3>1. PICK p \in Nat : StandsAt(StopSequences[i], e, p)
      BY <1>1, <2>1, StopSequenceType, OccursSomewhere
    <3>2. Len(StopSequences[i]) \in Nat \ {0}
      BY StopSequenceType
    <3>. QED
      BY <1>1, <3>1, <3>2 DEF StandsAt
  <2>2. stopSeqMaxKeep \in Nat
    BY KeepLongest
  <2>. QED
    BY <1>1, <1>5, <2>1, <2>2 DEF HoldsBack, NoStopIn
<1>7. NoStopIn(e)
  BY <1>5, <1>6 DEF HoldsBack
<1>8. ReadSoFar(acc, Read, reasoned, thought)
  BY <1>1, <1>3, <1>4, <1>5, <1>6 DEF ReadSoFar
<1>9. IsPrefix(acc.text, Read.text)
  BY <1>1, <1>3, <1>4, PrefixOfItself
<1>10. Withheld(acc)
  BY <1>3, <1>7 DEF Withheld, NoStopIn
<1>11. WithinBudget(acc)
  BY <1>1, <1>3 DEF WithinBudget, Even
<1>. QED
  BY <1>1, <1>2, <1>8, <1>9, <1>10, <1>11 DEF TextInv, Typed, NothingLost, e

\* A chunk's news are read behind all that was sent before.
LEMMA NewsAreRead ==
  ASSUME TextInv, NEW chunk \in Chunks, Frame(chunk)
  PROVE  LET news == News(chunk, content)
             z == parseThinkingTags[Read.tagBuf \o news][Read.inside]
         IN /\ news \in Seq(Chars) /\ ComputeDelta(chunk, content) = news /\ chunk \in Seq(Chars)
            /\ sent' \in Seq(Chars) /\ Read \in Parsed /\ Read' \in Parsed /\ z \in Parsed
            /\ Read'.text = Read.text \o z.text /\ Read'.thinking = Read.thinking \o z.thinking
            /\ Read'.tagBuf = z.tagBuf /\ Read'.inside = z.inside
            /\ Read'.opened = (Read.opened \/ z.opened)
            /\ z.thinking # <<>> => Read'.opened
<1>. DEFINE news == News(chunk, content)
            r == parseThinkingTags[sent][FALSE]
            q == parseThinkingTags[sent \o news][FALSE]
            z == parseThinkingTags[r.tagBuf \o news][r.inside]
<1>1. content \in Seq(Chars) /\ sent \in Seq(Chars) /\ FALSE \in BOOLEAN
  BY DEF TextInv, Typed
<1>2. chunk \in Seq(Chars) /\ (IsPrefix(content, chunk) \/ ~IsPrefix(chunk, content))
  BY <1>1, ChunksAreTexts
<1>3. ComputeDelta(chunk, content) = news /\ news \in Seq(Chars)
  BY <1>1, <1>2, DeltaIsNews
<1>4. sent' = sent \o news
  BY DEF Frame
<1>. HIDE DEF news
<1>5. sent \o news \in Seq(Chars)
  BY <1>1, <1>3, ConcatProperties
<1>6. r \in Parsed /\ q \in Parsed
  BY <1>1, <1>5, ParseType
<1>7. q = Joined(r, z)
  <2>1. ReadsOn(sent, news, FALSE)
    BY <1>1, <1>3, ParseOn
  <2>. QED
    BY <2>1 DEF ReadsOn
<1>8. Read = r /\ Read' = q
  BY <1>4 DEF Read
<1>9. ~q.opened => q.thinking = <<>>
  BY <1>5, NoTagNoThinking
<1>. HIDE DEF r, q
<1>10. r.tagBuf \o news \in Seq(Chars) /\ r.inside \in BOOLEAN /\ r.thinking \in Seq(Chars)
  BY <1>3, <1>6, ParsedFields, ConcatProperties
<1>11. z \in Parsed
  BY <1>10, ParseType
<1>. HIDE DEF z
<1>12. /\ q.text = r.text \o z.text /\ q.thinking = r.thinking \o z.thinking
       /\ q.tagBuf = z.tagBuf /\ q.inside = z.inside /\ q.opened = (r.opened \/ z.opened)
  BY <1>7 DEF Joined
<1>13. z.thinking # <<>> => q.opened
  <2>1. z.thinking \in Seq(Chars)
    BY <1>11, ParsedFields
  <2>2. r.thinking \o z.thinking = <<>> => z.thinking = <<>>
    BY <1>10, <2>1, ConcatEmptySeq
  <2>. QED
    BY <1>9, <1>12, <2>2
<1>. QED
  BY <1>2, <1>3, <1>4, <1>5, <1>6, <1>8, <1>11, <1>12, <1>13 DEF news, z

LEMMA FrameReads ==
  ASSUME TextInv, NEW chunk \in Chunks, Frame(chunk)
  PROVE  TextInv'
<1>. DEFINE news == News(chunk, content)
            r == Read
            q == Read'
            z == parseThinkingTags[Read.tagBuf \o news][Read.inside]
<1>1. /\ news \in Seq(Chars) /\ ComputeDelta(chunk, content) = news /\ chunk \in Seq(Chars)
      /\ sent' \in Seq(Chars) /\ r \in Parsed /\ q \in Parsed /\ z \in Parsed
      /\ q.text = r.text \o z.text /\ q.thinking = r.thinking \o z.thinking
      /\ q.tagBuf = z.tagBuf /\ q.inside = z.inside
      /\ q.opened = (r.opened \/ z.opened)
      /\ z.thinking # <<>> => q.opened
  BY NewsAreRead
<1>2. /\ ~finished /\ finished' = finished /\ content' = chunk /\ thought' = thought /\ reasoned' = reasoned
      /\ acc' = assistantResponseEvent(acc, news)
  BY <1>1 DEF Frame
<1>3. /\ Typed /\ IsPrefix(acc.text, r.text) /\ Withheld(acc) /\ WithinBudget(acc)
      /\ acc.stop = "none" => ReadSoFar(acc, r, reasoned, thought)
  BY <1>2 DEF TextInv
<1>4. acc \in Accumulators /\ thought \in Seq(Chars) /\ reasoned \in Seq(Chars) /\ finished \in BOOLEAN
  BY <1>3 DEF Typed
<1>5. /\ r.text \in Seq(Chars) /\ r.thinking \in Seq(Chars) /\ z.text \in Seq(Chars)
      /\ z.thinking \in Seq(Chars) /\ q.text \in Seq(Chars)
  BY <1>1, ParsedFields
<1>6. NothingLost'
  BY <1>2 DEF NothingLost
<1>7. CASE acc.stop # "none"
  <2>1. acc' = acc
    BY <1>2, <1>7 DEF assistantResponseEvent, LocalStop
  <2>. HIDE DEF r, q, z, news
  <2>2. acc.text \in Seq(Chars)
    BY <1>4, AccumulatorFields
  <2>3. IsPrefix(r.text, q.text)
    BY <1>1, <1>5, PrefixOfConcat
  <2>4. IsPrefix(acc.text, q.text)
    BY <1>3, <1>5, <2>2, <2>3, PrefixTransitive
  <2>. QED
    BY <1>1, <1>2, <1>3, <1>4, <1>6, <1>7, <2>1, <2>4 DEF TextInv, Typed, q
<1>8. CASE acc.stop = "none"
  <2>. HIDE DEF news
  <2>1. ReadSoFar(acc, r, reasoned, thought)
    BY <1>3, <1>8
  <2>2. HoldsBack(acc.text, acc.pending) /\ Even(acc)
    BY <1>3, <1>8, <2>1 DEF ReadSoFar, WithinBudget
  <2>3. z = parseThinkingTags[acc.tagBuf \o news][acc.inside]
    BY <2>1 DEF ReadSoFar
  <2>. HIDE DEF r, q, z
  <2>. DEFINE d == assistantResponseEvent(acc, news)
  <2>4. /\ d \in Accumulators
        /\ d.tagBuf = z.tagBuf /\ d.inside = z.inside
        /\ d.suppressReasoning = (acc.suppressReasoning \/ z.opened)
        /\ IsPrefix(d.text, (acc.text \o acc.pending) \o z.text)
        /\ Withheld(d)
        /\ d.stop = "none" =>
             /\ d.text \o d.pending = (acc.text \o acc.pending) \o z.text
             /\ d.thinking = acc.thinking \o z.thinking
             /\ HoldsBack(d.text, d.pending)
        /\ d.stop # "stop_sequence" =>
             \/ Even(d)
             \/ /\ d.stop = "max_tokens" /\ z.thinking # <<>>
                /\ d.runes = Limit /\ Len(d.thinking) <= d.runes
    <3>. HIDE DEF d
    <3>1. d = assistantResponseEvent(acc, news)
      BY DEF d
    <3>2. news \in Seq(Chars) /\ z \in Parsed
      BY <1>1
    <3>. QED
      BY <1>4, <1>8, <2>2, <2>3, <3>1, <3>2, EventDelivers
  <2>. HIDE DEF d
  <2>5. acc' = d
    BY <1>2 DEF d
  <2>6. acc.text \o acc.pending = r.text /\ acc.suppressReasoning = r.opened
    BY <2>1 DEF ReadSoFar
  <2>7. d.suppressReasoning = q.opened
    BY <1>1, <2>4, <2>6
  <2>8. IsPrefix(d.text, q.text)
    BY <1>1, <2>4, <2>6
  <2>9. WithinBudget(d)
    BY <1>1, <2>4, <2>7 DEF WithinBudget
  <2>10. ASSUME d.stop = "none" PROVE ReadSoFar(d, q, reasoned, thought)
    <3>1. d.text \o d.pending = q.text
      BY <1>1, <2>4, <2>6, <2>10
    <3>2. d.thinking = reasoned \o q.thinking
      <4>. DEFINE x == r.thinking
                  y == z.thinking
      <4>1. d.thinking = (reasoned \o x) \o y /\ q.thinking = x \o y
        BY <1>1, <2>1, <2>4, <2>10 DEF ReadSoFar
      <4>2. x \in Seq(Chars) /\ y \in Seq(Chars)
        BY <1>5
      <4>. HIDE DEF x, y
      <4>3. Regroups(reasoned, x, y)
        BY <1>4, <4>2, Associative
      <4>. QED
        BY <4>1, <4>3 DEF Regroups
    <3>3. ~d.suppressReasoning => reasoned = thought
      BY <2>1, <2>4 DEF ReadSoFar
    <3>. QED
      BY <1>1, <2>4, <2>7, <2>10, <3>1, <3>2, <3>3 DEF ReadSoFar
  <2>. QED
    BY <1>1, <1>2, <1>4, <1>6, <2>4, <2>5, <2>8, <2>9, <2>10 DEF TextInv, Typed, q
<1>. QED
  BY <1>7, <1>8

LEMMA ReasonReads ==
  ASSUME TextInv, NEW chunk \in Thoughts, Reason(chunk)
  PROVE  TextInv'
<1>. DEFINE v == From(chunk, Len(thought) + 1)
            r == Read
<1>1. /\ ~finished /\ finished' = finished /\ content' = content /\ sent' = sent /\ thought' = chunk
      /\ IsPrefix(thought, chunk)
      /\ acc' = reasoningContentEvent(acc, ComputeDelta(chunk, thought))
      /\ reasoned' = IF acc.suppressReasoning THEN reasoned ELSE chunk
  BY DEF Reason, IsStrictPrefix
<1>2. ComputeDelta(chunk, thought) = v
  BY <1>1 DEF ComputeDelta
<1>3. /\ Typed /\ IsPrefix(acc.text, r.text) /\ Withheld(acc) /\ WithinBudget(acc)
      /\ acc.stop = "none" => ReadSoFar(acc, r, reasoned, thought)
  BY <1>1 DEF TextInv
<1>4. /\ content \in Seq(Chars) /\ acc \in Accumulators /\ thought \in Seq(Chars)
      /\ reasoned \in Seq(Chars) /\ sent \in Seq(Chars) /\ finished \in BOOLEAN
  BY <1>3 DEF Typed
<1>5. chunk \in Seq(Chars)
  BY TextAssumption
<1>6. v \in Seq(Chars) /\ chunk = thought \o v
  BY <1>1, <1>4, <1>5, PrefixSplit
<1>7. Read' = r /\ NothingLost'
  BY <1>1 DEF Read, NothingLost
<1>8. reasoned' \in Seq(Chars)
  BY <1>1, <1>4, <1>5
<1>9. ~r.opened => r.thinking = <<>>
  BY <1>4, NoTagNoThinking DEF Read
<1>. HIDE DEF v, r
<1>10. CASE acc.suppressReasoning \/ acc.stop # "none"
  <2>1. acc' = acc
    BY <1>1, <1>10 DEF reasoningContentEvent, LocalStop
  <2>2. acc.stop = "none" => ReadSoFar(acc, r, reasoned', thought')
    <3>. SUFFICES ASSUME acc.stop = "none" PROVE ReadSoFar(acc, r, reasoned', thought')
      OBVIOUS
    <3>1. ReadSoFar(acc, r, reasoned, thought) /\ acc.suppressReasoning /\ reasoned' = reasoned
      BY <1>1, <1>3, <1>10
    <3>. QED
      BY <3>1 DEF ReadSoFar
  <2>. QED
    BY <1>1, <1>3, <1>4, <1>5, <1>7, <1>8, <2>1, <2>2 DEF TextInv, Typed
<1>11. CASE ~acc.suppressReasoning /\ acc.stop = "none"
  <2>. DEFINE b == accumulateThinking(acc, v)
  <2>1. acc' = b
    BY <1>1, <1>2, <1>11 DEF reasoningContentEvent, LocalStop
  <2>2. /\ b \in Accumulators /\ SameReading(acc, b) /\ Spent(acc, b)
        /\ b.pending = acc.pending /\ b.text = acc.text
        /\ b.stop = "none" => b.thinking = acc.thinking \o v
        /\ Even(acc) => Even(b)
    BY <1>4, <1>6, ThinkingFacts
  <2>. HIDE DEF b
  <2>3. ReadSoFar(acc, r, reasoned, thought) /\ reasoned' = chunk
    BY <1>1, <1>3, <1>11
  <2>4. Even(b)
    BY <1>3, <1>11, <2>2 DEF WithinBudget
  <2>5. HoldsBack(b.text, b.pending)
    BY <2>2, <2>3 DEF ReadSoFar
  <2>6. NoStopIn(b.text)
    BY <2>2, <2>5, HeldHasNoStop
  <2>7. Withheld(b) /\ WithinBudget(b)
    BY <2>4, <2>6 DEF Withheld, NoStopIn, WithinBudget
  <2>8. r.thinking = <<>> /\ reasoned = thought
    BY <1>9, <1>11, <2>3 DEF ReadSoFar
  <2>9. thought \o <<>> = thought /\ chunk \o <<>> = chunk
    BY <1>4, <1>5, ConcatEmptySeq
  <2>10. ASSUME b.stop = "none" PROVE ReadSoFar(b, r, chunk, chunk)
    <3>1. acc.thinking = thought
      BY <2>3, <2>8, <2>9 DEF ReadSoFar
    <3>2. b.thinking = chunk \o r.thinking
      BY <1>6, <2>2, <2>8, <2>9, <2>10, <3>1
    <3>. QED
      BY <2>2, <2>3, <2>5, <3>2 DEF ReadSoFar, SameReading
  <2>. QED
    BY <1>1, <1>3, <1>4, <1>5, <1>7, <1>8, <2>1, <2>2, <2>3, <2>7, <2>10 DEF TextInv, Typed
<1>. QED
  BY <1>10, <1>11

LEMMA FinishReads ==
  ASSUME TextInv, Finish
  PROVE  TextInv'
<1>. DEFINE e == FinalizeStream(acc)
            r == Read
<1>1. /\ ~finished /\ finished' = TRUE /\ content' = content /\ sent' = sent /\ thought' = thought
      /\ reasoned' = reasoned /\ acc' = e
  BY DEF Finish
<1>2. Typed /\ (acc.stop = "none" => ReadSoFar(acc, r, reasoned, thought))
  BY <1>1 DEF TextInv
<1>3. /\ content \in Seq(Chars) /\ acc \in Accumulators /\ thought \in Seq(Chars)
      /\ reasoned \in Seq(Chars) /\ sent \in Seq(Chars)
  BY <1>2 DEF Typed
<1>4. /\ e \in Accumulators
      /\ e.stop = "none" =>
           /\ acc.stop = "none"
           /\ e.text = IF acc.inside THEN acc.text \o acc.pending
                       ELSE acc.text \o (acc.pending \o acc.tagBuf)
           /\ e.thinking = IF acc.inside THEN acc.thinking \o acc.tagBuf ELSE acc.thinking
  BY <1>3, FinalizeDelivers
<1>. HIDE DEF e
<1>5. r \in Parsed
  BY <1>3, ParseType DEF Read
<1>6. /\ Whole'.text = IF r.inside THEN r.text ELSE r.text \o r.tagBuf
      /\ Whole'.thinking = reasoned \o (IF r.inside THEN r.thinking \o r.tagBuf ELSE r.thinking)
  BY <1>1 DEF Whole, Read
<1>. HIDE DEF r
<1>7. ASSUME e.stop = "none" PROVE e.text = Whole'.text /\ e.thinking = Whole'.thinking
  <2>1. ReadSoFar(acc, r, reasoned, thought)
    BY <1>2, <1>4, <1>7
  <2>2. /\ acc.tagBuf = r.tagBuf /\ acc.inside = r.inside
        /\ acc.text \o acc.pending = r.text /\ acc.thinking = reasoned \o r.thinking
    BY <2>1 DEF ReadSoFar
  <2>. DEFINE x == acc.text
              y == acc.pending
              t == acc.tagBuf
              k == r.thinking
  <2>3. x \in Seq(Chars) /\ y \in Seq(Chars) /\ t \in Seq(Chars) /\ k \in Seq(Chars)
    BY <1>3, <1>5, AccumulatorFields, ParsedFields
  <2>4. /\ e.text = IF r.inside THEN x \o y ELSE x \o (y \o t)
        /\ e.thinking = IF r.inside THEN (reasoned \o k) \o t ELSE reasoned \o k
    BY <1>4, <1>7, <2>2
  <2>5. /\ Whole'.text = IF r.inside THEN x \o y ELSE (x \o y) \o t
        /\ Whole'.thinking = reasoned \o (IF r.inside THEN k \o t ELSE k)
    BY <1>6, <2>2
  <2>. HIDE DEF x, y, t, k
  <2>6. x \o (y \o t) = (x \o y) \o t
    <3>1. Regroups(x, y, t)
      BY <2>3, Associative
    <3>. QED
      BY <3>1 DEF Regroups
  <2>7. (reasoned \o k) \o t = reasoned \o (k \o t)
    <3>1. Regroups(reasoned, k, t)
      BY <1>3, <2>3, Associative
    <3>. QED
      BY <3>1 DEF Regroups
  <2>. QED
    BY <2>4, <2>5, <2>6, <2>7
<1>8. NothingLost'
  BY <1>1, <1>7 DEF NothingLost, LocalStop
<1>. QED
  BY <1>1, <1>3, <1>4, <1>8 DEF TextInv, Typed

LEMMA NextReads == TextInv /\ [TextNext]_textVars => TextInv'
<1>. SUFFICES ASSUME TextInv, [TextNext]_textVars PROVE TextInv'
  OBVIOUS
<1>1. ASSUME NEW chunk \in Chunks, Frame(chunk) PROVE TextInv'
  BY <1>1, FrameReads
<1>2. ASSUME NEW chunk \in Thoughts, Reason(chunk) PROVE TextInv'
  BY <1>2, ReasonReads
<1>3. CASE Finish
  BY <1>3, FinishReads
<1>4. CASE UNCHANGED textVars
  BY <1>4 DEF textVars, TextInv, Typed, Read, NothingLost, Whole, LocalStop
<1>. QED
  BY <1>1, <1>2, <1>3, <1>4 DEF TextNext

LEMMA AlwaysRead == TextSpec => []TextInv
BY InitRead, NextReads, PTL DEF TextSpec

-----------------------------------------------------------------------------
(***************************************************************************)
(* The theorems.                                                           *)
(***************************************************************************)

\* The accumulator keeps its types; its count of runes never passes the budget.
THEOREM TextTypes == TextSpec => []TextTypeOK
<1>1. TextInv => TextTypeOK
  <2>1. Accumulators
          = [tagBuf : Seq(Chars), inside : BOOLEAN, suppressReasoning : BOOLEAN, pending : Seq(Chars),
             text : Seq(Chars), thinking : Seq(Chars), runes : 0..maxTokens * RunesPerToken,
             stop : {"none", "stop_sequence", "max_tokens"}, matched : 0..Len(StopSequences)]
    BY DEF Accumulators, Limit
  <2>. QED
    BY <2>1 DEF TextInv, Typed, TextTypeOK
<1>. QED
  BY <1>1, AlwaysRead, PTL

\* However a response is cut into chunks, repeated or sent in overlapping windows
\* (chunk_delta.go), and wherever its thinking tags are split (thinking_tags.go), one that runs to
\* its end is delivered as if it had been read at once.
THEOREM ResponseDelivered == TextSpec => []NothingLost
<1>1. TextInv => NothingLost
  BY DEF TextInv
<1>. QED
  BY <1>1, AlwaysRead, PTL

\* What the client has while the stream runs is a beginning of the text without a stop sequence
\* in it; behind a match, without that one and those ahead of it in the list (stop_sequence.go).
THEOREM StopSequencesWithheld == TextSpec => []StopSequenceWithheld
<1>1. TextInv => StopSequenceWithheld
  <2>. SUFFICES ASSUME TextInv, ~finished
                PROVE  /\ IsPrefix(acc.text, Whole.text)
                       /\ \A i \in DOMAIN StopSequences :
                            acc.stop # "stop_sequence" \/ i <= acc.matched
                              => ~Occurs(StopSequences[i], acc.text)
    BY DEF StopSequenceWithheld
  <2>1. IsPrefix(acc.text, Read.text) /\ Withheld(acc) /\ acc \in Accumulators /\ sent \in Seq(Chars)
    BY DEF TextInv, Typed
  <2>2. Read \in Parsed
    BY <2>1, ParseType DEF Read
  <2>3. Read.text \in Seq(Chars) /\ Read.tagBuf \in Seq(Chars) /\ acc.text \in Seq(Chars)
    BY <2>1, <2>2, ParsedFields, AccumulatorFields
  <2>4. Whole.text = IF Read.inside THEN Read.text ELSE Read.text \o Read.tagBuf
    BY DEF Whole, Read
  <2>5. /\ Read.text \o Read.tagBuf \in Seq(Chars)
        /\ IsPrefix(Read.text, Read.text \o Read.tagBuf)
    BY <2>3, ConcatProperties, PrefixOfConcat
  <2>6. IsPrefix(acc.text, Read.text \o Read.tagBuf)
    BY <2>1, <2>3, <2>5, PrefixTransitive
  <2>. QED
    BY <2>1, <2>4, <2>6 DEF Withheld
<1>. QED
  BY <1>1, AlwaysRead, PTL

\* While the stream runs, all that was delivered was counted against max_tokens, but for the text
\* behind thinking that used the budget up in the same frame (token_budget.go).
THEOREM BudgetKept == TextSpec => []WithinMaxTokens
<1>1. TextInv => WithinMaxTokens
  <2>. SUFFICES ASSUME TextInv, ~finished, acc.stop # "stop_sequence"
                PROVE  /\ acc.runes <= Limit
                       /\ \/ Len(acc.text) + Len(acc.thinking) = acc.runes
                          \/ /\ acc.stop = "max_tokens" /\ acc.suppressReasoning
                             /\ acc.runes = Limit /\ Len(acc.thinking) <= acc.runes
    BY DEF WithinMaxTokens, Limit
  <2>1. acc \in Accumulators /\ WithinBudget(acc)
    BY DEF TextInv, Typed
  <2>2. acc.runes \in 0..Limit /\ Limit \in Nat
    BY <2>1, AccumulatorFields, LimitType
  <2>3. acc.runes <= Limit
    BY <2>2
  <2>4. \/ Len(acc.text) + Len(acc.thinking) = acc.runes
        \/ /\ acc.stop = "max_tokens" /\ acc.suppressReasoning
           /\ acc.runes = Limit /\ Len(acc.thinking) <= acc.runes
    BY <2>1, Zenon DEF WithinBudget, Even
  <2>. QED
    BY <2>3, <2>4, Zenon
<1>. QED
  BY <1>1, AlwaysRead, PTL
=============================================================================
