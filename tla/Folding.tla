------------------------------ MODULE Folding ------------------------------
(***************************************************************************)
(* Induction over the length of a sequence, and what a fold over it        *)
(* computes.                                                               *)
(*                                                                         *)
(* The folds of the community modules choose a function on sets of indices *)
(* and apply it to all of them.  The lemmas say that this is what a loop   *)
(* over the sequence leaves (Folded), how it goes on at a longer sequence, *)
(* and that what each round keeps is kept.                                 *)
(***************************************************************************)
EXTENDS Integers, ListOps, SequenceTheorems, WellFoundedInduction, TLAPS

-----------------------------------------------------------------------------
(* Induction *)

\* Induction over the natural numbers, for a set.
LEMMA SetInduction ==
    ASSUME NEW S, 0 \in S, \A n \in S \cap Nat : n + 1 \in S
    PROVE  Nat \subseteq S
<1> DEFINE T == Nat \ S
           R == {p \in Nat \X Nat : p[1] < p[2]}
<1> SUFFICES ASSUME T # {} PROVE FALSE
  OBVIOUS
<1>1. PICK x \in T : \A y \in T : <<y, x>> \notin R
  <2>1. T \subseteq Nat /\ IsWellFoundedOn(R, Nat)
    BY NatLessThanWellFounded DEF OpToRel
  <2> HIDE DEF T, R
  <2>2. QED
    BY <2>1, WFMin
<1>2. x \in Nat /\ x # 0 /\ x \notin S
  OBVIOUS
<1>3. x - 1 \in Nat /\ <<x - 1, x>> \in R
  BY <1>2
<1>4. x - 1 \in S
  BY <1>1, <1>3
<1>5. QED
  BY <1>2, <1>3, <1>4

\* The largest of some of the numbers up to n.
LEMMA MaxOfNumbers ==
    ASSUME NEW n \in Nat, NEW s \in SUBSET (1..n), s # {}
    PROVE  Max(s) \in s /\ \A y \in s : Max(s) >= y
<1> DEFINE HasMax(t) == \E x \in t : \A y \in t : x >= y
           S == {m \in Nat : \A t \in SUBSET (1..m) : t # {} => HasMax(t)}
<1>1. 0 \in S
  <2>1. \A t \in SUBSET (1..0) : t = {}
    OBVIOUS
  <2>2. QED
    BY <2>1
<1>2. ASSUME NEW m \in S \cap Nat PROVE m + 1 \in S
  <2> SUFFICES ASSUME NEW t \in SUBSET (1..(m + 1)), t # {} PROVE HasMax(t)
    OBVIOUS
  <2>1. CASE m + 1 \in t
    BY <2>1
  <2>2. CASE m + 1 \notin t
    <3>1. t \in SUBSET (1..m)
      BY <2>2
    <3>2. QED
      BY <1>2, <3>1
  <2>3. QED
    BY <2>1, <2>2
<1> HIDE DEF S
<1>3. n \in S
  BY <1>1, <1>2, SetInduction
<1>4. HasMax(s)
  BY <1>3 DEF S
<1>5. QED
  BY <1>4 DEF Max

\* The smallest of some positive numbers.
LEMMA MinOfNumbers ==
    ASSUME NEW s \in SUBSET (Nat \ {0}), s # {}
    PROVE  Min(s) \in s /\ \A y \in s : Min(s) <= y
<1> DEFINE S == {n \in Nat : \A x \in s : x <= n => \E m \in s : \A y \in s : m <= y}
<1>1. 0 \in S
    OBVIOUS
<1>2. ASSUME NEW n \in S PROVE n + 1 \in S
    <2>1. ASSUME NEW x \in s, x <= n + 1 PROVE \E m \in s : \A y \in s : m <= y
        <3>1. CASE \E z \in s : z <= n
            BY <1>2, <3>1
        <3>2. CASE \A z \in s : ~ (z <= n)
            <4>1. \A y \in s : x <= y
                BY <1>2, <2>1, <3>2
            <4> QED BY <4>1
        <3> QED BY <3>1, <3>2
    <2> QED BY <1>2, <2>1
<1>3. 0 \in S /\ \A n \in S \cap Nat : n + 1 \in S
    BY <1>1, <1>2
<1>4. Nat \subseteq S
    <2> HIDE DEF S
    <2> QED BY <1>3, SetInduction
<1>5. \E m \in s : \A y \in s : m <= y
    <2>1. PICK x \in s : x \in Nat
        OBVIOUS
    <2>2. x \in S
        BY <1>4, <2>1
    <2> QED BY <2>1, <2>2
<1> QED BY <1>5 DEF Min

\* The largest of all the numbers up to n.
LEMMA MaxOfInterval ==
    ASSUME NEW n \in Nat \ {0} PROVE Max(1..n) = n
<1> DEFINE s == 1..n
<1>1. n \in Nat /\ s \in SUBSET (1..n) /\ n \in s
  OBVIOUS
<1>2. \A x \in s : x \in Int /\ x <= n
  OBVIOUS
<1> HIDE DEF s
<1>3. Max(s) \in s /\ \A y \in s : Max(s) >= y
  BY <1>1, MaxOfNumbers
<1> DEFINE x == Max(s)
<1>4. x \in Int /\ x <= n /\ x >= n
  BY <1>1, <1>2, <1>3
<1> HIDE DEF x
<1>5. x = n
  BY <1>4
<1>6. QED
  BY <1>5 DEF s, x

-----------------------------------------------------------------------------
(* Folds *)

\* next is the effect of a frame of F on a state of V.
StepOf(next, V, F) == next \in [V \X F -> V]

\* h lists what k becomes as the frames of c are applied to it one by one.
Trace(next, k, c, h) ==
    /\ h[0] = k
    /\ \A i \in 1..Len(c) : h[i] = next[<<h[i - 1], c[i]>>]

\* The function that a fold calculates on the sets of the first n indices.
Iteration(next, k, c, n, iter) ==
    \A s \in SUBSET (1..n) :
        iter[s] = IF s = {} THEN k ELSE next[<<iter[s \ {Max(s)}], c[Max(s)]>>]

\* An iteration over the first m - 1 indices extends to one over m.
LEMMA IterationGrows ==
    ASSUME NEW V, NEW F, NEW next, StepOf(next, V, F), NEW k \in V, NEW c,
           NEW m \in Nat \ {0}, c[m] \in F,
           NEW old \in [SUBSET (1..(m - 1)) -> V], Iteration(next, k, c, m - 1, old)
    PROVE  \E iter \in [SUBSET (1..m) -> V] : Iteration(next, k, c, m, iter)
<1> DEFINE n == m - 1
           iter == [s \in SUBSET (1..m) |->
                       IF m \in s THEN next[<<old[s \ {m}], c[m]>>] ELSE old[s]]
<1>1. n \in Nat
  OBVIOUS
<1>2. \A x \in 1..m : x # m => x \in 1..n
  OBVIOUS
<1>3. m \in 1..m
  OBVIOUS
<1> HIDE DEF n
<1>4. \A s \in SUBSET (1..m) : s \ {m} \in SUBSET (1..n)
  BY <1>2
<1>5. iter \in [SUBSET (1..m) -> V]
  <2> SUFFICES ASSUME NEW s \in SUBSET (1..m)
               PROVE  (IF m \in s THEN next[<<old[s \ {m}], c[m]>>] ELSE old[s]) \in V
    OBVIOUS
  <2>1. old[s \ {m}] \in V
    BY <1>4 DEF n
  <2>2. m \notin s => s = s \ {m}
    OBVIOUS
  <2>3. QED
    BY <2>1, <2>2 DEF StepOf
<1>6. ASSUME NEW s \in SUBSET (1..m)
      PROVE  iter[s] = IF s = {} THEN k ELSE next[<<iter[s \ {Max(s)}], c[Max(s)]>>]
  <2>1. CASE m \in s
    <3>1. Max(s) = m
      <4>1. Max(s) \in s /\ \A y \in s : Max(s) >= y
        BY <2>1, MaxOfNumbers
      <4>2. Max(s) \in 1..m /\ Max(s) >= m
        BY <2>1, <4>1
      <4>3. QED
        BY <4>2
    <3>2. iter[s \ {m}] = old[s \ {m}]
      OBVIOUS
    <3>3. iter[s] = next[<<old[s \ {m}], c[m]>>]
      BY <2>1
    <3> HIDE DEF iter
    <3>4. QED
      BY <2>1, <3>1, <3>2, <3>3
  <2>2. CASE m \notin s
    <3>1. s \in SUBSET (1..n)
      BY <1>2, <2>2
    <3>2. iter[s] = old[s] /\ iter[s \ {Max(s)}] = old[s \ {Max(s)}]
      BY <2>2
    <3> HIDE DEF iter
    <3>3. QED
      BY <3>1, <3>2 DEF Iteration, n
  <2>3. QED
    BY <2>1, <2>2
<1> HIDE DEF iter
<1>7. Iteration(next, k, c, m, iter)
  BY <1>6 DEF Iteration
<1>8. QED
  BY <1>5, <1>7

\* Every sequence has an iteration.
LEMMA IterationExists ==
    ASSUME NEW V, NEW F, NEW next, StepOf(next, V, F), NEW k \in V, NEW c \in Seq(F)
    PROVE  \E iter \in [SUBSET (1..Len(c)) -> V] :
               Iteration(next, k, c, Len(c), iter)
<1> DEFINE Reached(n) ==
               \E iter \in [SUBSET (1..n) -> V] : Iteration(next, k, c, n, iter)
           S == {n \in Nat : n <= Len(c) => Reached(n)}
<1>1. Len(c) \in Nat
  OBVIOUS
<1>2. 0 \in S
  <2> DEFINE iter == [s \in SUBSET (1..0) |-> k]
  <2>1. \A s \in SUBSET (1..0) : s = {}
    OBVIOUS
  <2>2. iter \in [SUBSET (1..0) -> V] /\ Iteration(next, k, c, 0, iter)
    BY <2>1 DEF Iteration
  <2> HIDE DEF iter
  <2>3. QED
    BY <2>2
<1>3. ASSUME NEW n \in S \cap Nat PROVE n + 1 \in S
  <2> DEFINE m == n + 1
  <2>1. m \in Nat \ {0} /\ n = m - 1
    OBVIOUS
  <2>2. CASE m <= Len(c)
    <3>1. n <= Len(c) /\ m \in 1..Len(c)
      BY <1>1, <2>2
    <3>2. Reached(n)
      <4> HIDE DEF Reached
      <4>1. QED
        BY <1>3, <3>1
    <3> HIDE DEF m, S, Reached
    <3>3. c[m] \in F
      BY <3>1
    <3> USE DEF Reached
    <3>4. Reached(m)
      BY <2>1, <3>2, <3>3, IterationGrows
    <3> HIDE DEF Reached
    <3>5. QED
      BY <2>1, <3>4 DEF m, S
  <2>3. CASE ~ (m <= Len(c))
    BY <2>3
  <2>4. QED
    BY <2>2, <2>3
<1> HIDE DEF Reached
<1>4. Len(c) \in S
  <2> HIDE DEF S
  <2>1. QED
    BY <1>1, <1>2, <1>3, SetInduction
<1>5. Reached(Len(c))
  BY <1>1, <1>4
<1>6. QED
  BY <1>5 DEF Reached

\* Along the intervals 1..i the iteration is a trace.
LEMMA IterationIsTrace ==
    ASSUME NEW next, NEW k, NEW F, NEW c \in Seq(F), NEW iter,
           Iteration(next, k, c, Len(c), iter)
    PROVE  \E h : Trace(next, k, c, h) /\ h[Len(c)] = iter[1..Len(c)]
<1> DEFINE n == Len(c)
           h == [i \in 0..n |-> iter[1..i]]
<1>1. n \in Nat
  OBVIOUS
<1> HIDE DEF n
<1>2. h[0] = k
  <2>1. 1..0 = {} /\ {} \in SUBSET (1..n)
    OBVIOUS
  <2>2. iter[{}] = k
    BY <2>1 DEF Iteration, n
  <2>3. 0 \in 0..n
    BY <1>1
  <2>4. QED
    BY <2>1, <2>2, <2>3
<1>3. ASSUME NEW i \in 1..n PROVE h[i] = next[<<h[i - 1], c[i]>>]
  <2>1. i \in Nat \ {0} /\ i - 1 \in 0..n /\ i \in 0..n /\ i \in 1..i
    BY <1>1
  <2>2. 1..i \in SUBSET (1..n)
    BY <1>1
  <2>3. (1..i) \ {i} = 1..(i - 1)
    BY <2>1
  <2>4. Max(1..i) = i
    BY <2>1, MaxOfInterval
  <2>5. iter[1..i] = next[<<iter[(1..i) \ {Max(1..i)}], c[Max(1..i)]>>]
    BY <2>1, <2>2 DEF Iteration, n
  <2>6. QED
    BY <2>1, <2>3, <2>4, <2>5
<1>4. h[n] = iter[1..n]
  BY <1>1
<1> HIDE DEF h
<1>5. Trace(next, k, c, h) /\ h[Len(c)] = iter[1..Len(c)]
  BY <1>2, <1>3, <1>4 DEF Trace, n
<1>6. QED
  BY <1>5

\* Two sequences of values that agree at one place and agree at the next place
\* wherever they agree at the one before.
Follows(f, g, m, n) ==
    /\ f[0] = g[m]
    /\ \A i \in 1..n : f[i - 1] = g[m + i - 1] => f[i] = g[m + i]

\* They agree at the last place.
LEMMA SameValues ==
    ASSUME NEW n \in Nat, NEW m \in Nat, NEW f, NEW g, Follows(f, g, m, n)
    PROVE  f[n] = g[m + n]
<1> DEFINE S == {i \in Nat : i <= n => f[i] = g[m + i]}
<1>1. 0 \in S
  BY DEF Follows
<1>2. ASSUME NEW j \in S \cap Nat PROVE j + 1 \in S
  <2> SUFFICES ASSUME j + 1 <= n PROVE f[j + 1] = g[m + (j + 1)]
    OBVIOUS
  <2> DEFINE i == j + 1
  <2>1. i \in 1..n /\ i - 1 = j /\ m + i - 1 = m + j /\ j <= n
    OBVIOUS
  <2>2. f[i - 1] = g[m + i - 1]
    BY <1>2, <2>1
  <2> HIDE DEF i
  <2>3. f[i] = g[m + i]
    BY <2>1, <2>2 DEF Follows
  <2>4. QED
    BY <2>3 DEF i
<1>3. Nat \subseteq S
  <2> HIDE DEF S
  <2>1. QED
    BY <1>1, <1>2, SetInduction
<1>4. QED
  BY <1>3

\* What k is after all the frames of c.
Folded(next, k, c) == CHOOSE v : \E h : Trace(next, k, c, h) /\ v = h[Len(c)]

\* Whatever trace is taken, it ends with the same state.
LEMMA FoldedIsLast ==
    ASSUME NEW next, NEW k, NEW c, Len(c) \in Nat, NEW h, Trace(next, k, c, h)
    PROVE  Folded(next, k, c) = h[Len(c)]
<1>1. Len(c) \in Nat /\ 0 \in Nat
  OBVIOUS
<1>2. ASSUME NEW g, Trace(next, k, c, g) PROVE g[Len(c)] = h[Len(c)]
  <2>1. g[0] = h[0]
    BY <1>2 DEF Trace
  <2>2. \A i \in 1..Len(c) : g[i - 1] = h[0 + i - 1] => g[i] = h[0 + i]
    <3> SUFFICES ASSUME NEW i \in 1..Len(c), g[i - 1] = h[0 + i - 1]
                 PROVE  g[i] = h[0 + i]
      OBVIOUS
    <3>1. 0 + i - 1 = i - 1 /\ 0 + i = i
      BY <1>1
    <3>2. g[i] = next[<<g[i - 1], c[i]>>] /\ h[i] = next[<<h[i - 1], c[i]>>]
      BY <1>2 DEF Trace
    <3>3. QED
      BY <3>1, <3>2
  <2>3. Follows(g, h, 0, Len(c))
    BY <2>1, <2>2 DEF Follows
  <2>4. g[Len(c)] = h[0 + Len(c)]
    BY <1>1, <2>3, SameValues
  <2>5. QED
    BY <1>1, <2>4
<1>3. QED
  BY <1>2 DEF Folded

\* Every sequence has a trace.
LEMMA TraceExists ==
    ASSUME NEW V, NEW F, NEW next, StepOf(next, V, F), NEW k \in V, NEW c \in Seq(F)
    PROVE  \E h : Trace(next, k, c, h)
<1>1. PICK iter \in [SUBSET (1..Len(c)) -> V] : Iteration(next, k, c, Len(c), iter)
  BY IterationExists
<1>2. QED
  BY <1>1, IterationIsTrace

\* No frames, no change.
LEMMA FoldedNothing ==
    ASSUME NEW V, NEW F, NEW next, StepOf(next, V, F), NEW k \in V
    PROVE  Folded(next, k, <<>>) = k
<1>1. <<>> \in Seq(F) /\ Len(<<>>) = 0
  OBVIOUS
<1>2. PICK h : Trace(next, k, <<>>, h)
  BY <1>1, TraceExists
<1>3. Folded(next, k, <<>>) = h[Len(<<>>)]
  BY <1>1, <1>2, FoldedIsLast
<1>4. QED
  BY <1>1, <1>2, <1>3 DEF Trace

\* The last state is a state.
LEMMA FoldedType ==
    ASSUME NEW V, NEW F, NEW next, StepOf(next, V, F), NEW k \in V, NEW c \in Seq(F)
    PROVE  Folded(next, k, c) \in V
<1>1. PICK iter \in [SUBSET (1..Len(c)) -> V] : Iteration(next, k, c, Len(c), iter)
  BY IterationExists
<1>2. PICK h : Trace(next, k, c, h) /\ h[Len(c)] = iter[1..Len(c)]
  BY <1>1, IterationIsTrace
<1>3. Folded(next, k, c) = iter[1..Len(c)]
  BY <1>2, FoldedIsLast
<1>4. QED
  BY <1>3

\* One more frame.
LEMMA FoldedAppend ==
    ASSUME NEW V, NEW F, NEW next, StepOf(next, V, F), NEW k \in V, NEW c \in Seq(F),
           NEW f \in F
    PROVE  Folded(next, k, Append(c, f)) = next[<<Folded(next, k, c), f>>]
<1> DEFINE d == Append(c, f)
           n == Len(c)
<1>1. /\ n \in Nat /\ d \in Seq(F) /\ Len(d) = n + 1 /\ d[n + 1] = f
      /\ \A i \in 1..n : d[i] = c[i]
  BY AppendProperties
<1> HIDE DEF d
<1>2. PICK h : Trace(next, k, d, h)
  BY <1>1, TraceExists
<1>3. Trace(next, k, c, h)
  <2>1. \A i \in 1..n : i \in 1..(n + 1)
    BY <1>1
  <2>2. QED
    BY <1>1, <1>2, <2>1 DEF Trace
<1>4. Folded(next, k, c) = h[n] /\ Folded(next, k, d) = h[n + 1]
  BY <1>1, <1>2, <1>3, FoldedIsLast
<1>5. h[n + 1] = next[<<h[n], f>>]
  <2>1. n + 1 \in 1..(n + 1) /\ (n + 1) - 1 = n
    BY <1>1
  <2>2. h[n + 1] = next[<<h[(n + 1) - 1], d[n + 1]>>]
    BY <1>1, <1>2, <2>1 DEF Trace
  <2>3. QED
    BY <1>1, <2>1, <2>2
<1>6. QED
  BY <1>4, <1>5 DEF d

\* The frames of d after those of c.
LEMMA FoldedConcat ==
    ASSUME NEW V, NEW F, NEW next, StepOf(next, V, F), NEW k \in V,
           NEW c \in Seq(F), NEW d \in Seq(F)
    PROVE  Folded(next, k, c \o d) = Folded(next, Folded(next, k, c), d)
<1> DEFINE e == c \o d
           n == Len(c)
           m == Len(d)
<1>1. /\ n \in Nat /\ m \in Nat /\ e \in Seq(F) /\ Len(e) = n + m
      /\ \A i \in 1..n : e[i] = c[i]
      /\ \A i \in 1..m : e[n + i] = d[i]
  BY ConcatProperties
<1> HIDE DEF e
<1>2. PICK h : Trace(next, k, e, h)
  BY <1>1, TraceExists
<1>3. Trace(next, k, c, h)
  <2>1. \A i \in 1..n : i \in 1..(n + m)
    BY <1>1
  <2>2. QED
    BY <1>1, <1>2, <2>1 DEF Trace
<1>4. Folded(next, k, c) = h[n] /\ Folded(next, k, e) = h[n + m]
  <2>1. Folded(next, k, c) = h[n]
    BY <1>3, FoldedIsLast
  <2>2. Len(e) \in Nat
    BY <1>1
  <2>3. Folded(next, k, e) = h[Len(e)]
    BY <1>2, <2>2, FoldedIsLast
  <2>4. QED
    BY <1>1, <2>1, <2>3
<1>5. Folded(next, k, c) \in V
  BY FoldedType
<1> DEFINE v == Folded(next, k, c)
<1> HIDE DEF v
<1>6. PICK g : Trace(next, v, d, g)
  BY <1>5, TraceExists DEF v
<1>7. g[m] = h[n + m]
  <2>1. g[0] = h[n]
    BY <1>4, <1>6 DEF Trace, v
  <2>2. \A i \in 1..m : g[i - 1] = h[n + i - 1] => g[i] = h[n + i]
    <3> SUFFICES ASSUME NEW i \in 1..m, g[i - 1] = h[n + i - 1]
                 PROVE  g[i] = h[n + i]
      OBVIOUS
    <3>1. n + i \in 1..(n + m)
      BY <1>1
    <3>2. h[n + i] = next[<<h[n + i - 1], d[i]>>] /\ g[i] = next[<<g[i - 1], d[i]>>]
      BY <1>1, <1>2, <1>6, <3>1 DEF Trace
    <3>3. QED
      BY <3>2
  <2>3. n \in Nat /\ m \in Nat
    BY <1>1
  <2> HIDE DEF n, m
  <2>4. Follows(g, h, n, m)
    BY <2>1, <2>2 DEF Follows
  <2>5. QED
    BY <2>3, <2>4, SameValues
<1>8. QED
  BY <1>4, <1>6, <1>7, FoldedIsLast DEF v, e

\* The first frame, then the others.
LEMMA FoldedTail ==
    ASSUME NEW V, NEW F, NEW next, StepOf(next, V, F), NEW k \in V, NEW c \in Seq(F),
           c # <<>>
    PROVE  Folded(next, k, c) = Folded(next, next[<<k, Head(c)>>], Tail(c))
<1> DEFINE f == Head(c)
           none == <<>>
           one == Append(none, f)
           rest == Tail(c)
<1>1. /\ f \in F /\ none \in Seq(F) /\ one \in Seq(F) /\ rest \in Seq(F)
      /\ c = one \o rest
  OBVIOUS
<1>2. Folded(next, k, none) = k
  BY FoldedNothing
<1> HIDE DEF f, none, rest
<1>3. Folded(next, k, one) = next[<<k, f>>]
  BY <1>1, <1>2, FoldedAppend
<1> HIDE DEF one
<1>4. Folded(next, k, one \o rest) = Folded(next, Folded(next, k, one), rest)
  BY <1>1, FoldedConcat
<1>5. QED
  BY <1>1, <1>3, <1>4 DEF f, rest

\* A relation that every frame keeps is kept by all of them.
LEMMA FoldedRelates ==
    ASSUME NEW V, NEW F, NEW next, StepOf(next, V, F), NEW R \in SUBSET (V \X V),
           \A a \in V, b \in V, f \in F :
               <<a, b>> \in R => <<next[<<a, f>>], next[<<b, f>>]>> \in R,
           NEW k \in V, NEW m \in V, <<k, m>> \in R, NEW c \in Seq(F)
    PROVE  <<Folded(next, k, c), Folded(next, m, c)>> \in R
<1> DEFINE n == Len(c)
<1>1. n \in Nat
  OBVIOUS
<1>2. PICK g : Trace(next, k, c, g)
  BY TraceExists
<1>3. PICK h : Trace(next, m, c, h)
  BY TraceExists
<1> DEFINE S == {i \in Nat : i <= n => <<g[i], h[i]>> \in R}
<1>4. 0 \in S
  BY <1>2, <1>3 DEF Trace
<1>5. ASSUME NEW j \in S \cap Nat PROVE j + 1 \in S
  <2> SUFFICES ASSUME j + 1 <= n PROVE <<g[j + 1], h[j + 1]>> \in R
    OBVIOUS
  <2> DEFINE i == j + 1
  <2>1. i \in 1..n /\ i - 1 = j /\ j <= n
    BY <1>1
  <2>2. <<g[j], h[j]>> \in R /\ g[j] \in V /\ h[j] \in V /\ c[i] \in F
    BY <1>5, <2>1
  <2> HIDE DEF i, S
  <2>3. g[i] = next[<<g[j], c[i]>>] /\ h[i] = next[<<h[j], c[i]>>]
    BY <1>2, <1>3, <2>1 DEF Trace
  <2>4. <<g[i], h[i]>> \in R
    BY <2>2, <2>3
  <2>5. QED
    BY <2>4 DEF i
<1>6. <<g[n], h[n]>> \in R
  <2> HIDE DEF S, n
  <2>1. n \in S
    BY <1>1, <1>4, <1>5, SetInduction
  <2>2. QED
    BY <1>1, <2>1 DEF S
<1>7. QED
  BY <1>1, <1>2, <1>3, <1>6, FoldedIsLast

\* What every frame keeps is kept by all of them.
LEMMA FoldedKeeps ==
    ASSUME NEW V, NEW F, NEW next, StepOf(next, V, F), NEW I \in SUBSET V,
           \A k \in I, f \in F : next[<<k, f>>] \in I,
           NEW k \in I, NEW c \in Seq(F)
    PROVE  Folded(next, k, c) \in I
<1> DEFINE R == I \X I
<1>1. /\ R \in SUBSET (V \X V) /\ k \in V /\ <<k, k>> \in R
      /\ \A a \in V, b \in V, f \in F :
           <<a, b>> \in R => <<next[<<a, f>>], next[<<b, f>>]>> \in R
  OBVIOUS
<1> HIDE DEF R
<1>2. <<Folded(next, k, c), Folded(next, k, c)>> \in R
  BY <1>1, FoldedRelates
<1>3. QED
  BY <1>2 DEF R

\* fold calculates the loop set by set, as the folds of the community modules
\* choose a function that does.  Of a function that is chosen the types are not
\* known beforehand.
Calculates(next, V, F, k, c, fold) ==
    /\ fold[{}] = k
    /\ \A s \in SUBSET DOMAIN c :
         s # {} /\ c[Max(s)] \in F /\ fold[s \ {Max(s)}] \in V =>
           fold[s] = next[<<fold[s \ {Max(s)}], c[Max(s)]>>]

CalculatesTyped(next, V, F, k, c, fold) ==
    \A s \in SUBSET DOMAIN c :
        /\ s = {} => fold[s] = k
        /\ s # {} => /\ c[Max(s)] \in F /\ fold[s \ {Max(s)}] \in V
                     /\ fold[s] = next[<<fold[s \ {Max(s)}], c[Max(s)]>>]

\* There is one.
LEMMA LoopExists ==
    ASSUME NEW V, NEW F, NEW next, StepOf(next, V, F), NEW k \in V, NEW c \in Seq(F)
    PROVE  \E iter \in [SUBSET DOMAIN c -> V] : CalculatesTyped(next, V, F, k, c, iter)
<1>1. DOMAIN c = 1..Len(c) /\ Len(c) \in Nat
  OBVIOUS
<1>2. PICK iter \in [SUBSET (1..Len(c)) -> V] : Iteration(next, k, c, Len(c), iter)
  BY IterationExists
<1>3. ASSUME NEW s \in SUBSET DOMAIN c, s # {}
      PROVE  /\ c[Max(s)] \in F /\ iter[s \ {Max(s)}] \in V
             /\ iter[s] = next[<<iter[s \ {Max(s)}], c[Max(s)]>>]
  <2>1. Max(s) \in 1..Len(c)
    BY <1>1, <1>3, MaxOfNumbers
  <2>2. QED
    BY <1>1, <1>2, <1>3, <2>1 DEF Iteration
<1>4. QED
  BY <1>1, <1>2, <1>3 DEF Iteration, CalculatesTyped

\* Any such function has at the set of all indices what the loop leaves.
LEMMA LoopIsFolded ==
    ASSUME NEW V, NEW F, NEW next, StepOf(next, V, F), NEW k \in V, NEW c \in Seq(F),
           NEW fold, Calculates(next, V, F, k, c, fold)
    PROVE  fold[DOMAIN c] = Folded(next, k, c)
<1> DEFINE n == Len(c)
<1>1. n \in Nat /\ DOMAIN c = 1..n /\ \A i \in 1..n : c[i] \in F
  OBVIOUS
<1>2. PICK iter \in [SUBSET (1..n) -> V] : Iteration(next, k, c, n, iter)
  BY IterationExists
<1>3. PICK h : Trace(next, k, c, h) /\ h[n] = iter[1..n]
  BY <1>2, IterationIsTrace
<1>4. fold[1..n] = iter[1..n]
  <2> DEFINE f == [i \in 0..n |-> fold[1..i]]
             g == [i \in 0..n |-> iter[1..i]]
  <2> HIDE DEF n
  <2>1. 1..0 = {} /\ {} \in SUBSET (1..n) /\ 0 \in 0..n
    BY <1>1
  <2>2. iter[{}] = k
    BY <1>2, <2>1 DEF Iteration
  <2>3. f[0] = g[0]
    BY <2>1, <2>2 DEF Calculates
  <2>4. ASSUME NEW i \in 1..n, f[i - 1] = g[0 + i - 1] PROVE f[i] = g[0 + i]
    <3>1. /\ i \in Nat \ {0} /\ i - 1 \in 0..n /\ i \in 0..n /\ i \in 1..i
          /\ 0 + i - 1 = i - 1 /\ 0 + i = i
      BY <1>1
    <3>2. 1..i \in SUBSET (1..n) /\ 1..i # {} /\ 1..(i - 1) \in SUBSET (1..n)
      <4>1. \A x \in 1..i : x \in 1..n
        BY <1>1
      <4>2. QED
        BY <3>1, <4>1
    <3>3. (1..i) \ {i} = 1..(i - 1)
      BY <3>1
    <3>4. Max(1..i) = i
      BY <3>1, MaxOfInterval
    <3>5. fold[1..(i - 1)] = iter[1..(i - 1)]
      BY <2>4, <3>1
    <3>6. fold[1..(i - 1)] \in V /\ c[i] \in F
      BY <1>1, <3>2, <3>5
    <3>7. fold[1..i] = next[<<fold[1..(i - 1)], c[i]>>]
      BY <1>1, <3>2, <3>3, <3>4, <3>6 DEF Calculates
    <3>8. iter[1..i] = next[<<iter[1..(i - 1)], c[i]>>]
      BY <1>2, <3>2, <3>3, <3>4 DEF Iteration
    <3>9. QED
      BY <3>1, <3>5, <3>7, <3>8
  <2> HIDE DEF f, g
  <2>5. Follows(f, g, 0, n)
    BY <2>3, <2>4 DEF Follows
  <2>6. f[n] = g[0 + n]
    BY <1>1, <2>5, SameValues
  <2>7. QED
    BY <1>1, <2>6 DEF f, g
<1>5. iter[1..n] = Folded(next, k, c)
  BY <1>1, <1>3, FoldedIsLast
<1>6. QED
  BY <1>1, <1>4, <1>5

-----------------------------------------------------------------------------
(* Lists joined *)

JoinStep(V) == [q \in Seq(V) \X Seq(V) |-> q[1] \o q[2]]

LEMMA JoinSteps ==
    ASSUME NEW V
    PROVE  /\ StepOf(JoinStep(V), Seq(V), Seq(V))
           /\ \A a \in Seq(V), b \in Seq(V) : JoinStep(V)[<<a, b>>] = a \o b
<1>1. \A a \in Seq(V), b \in Seq(V) : a \o b \in Seq(V)
    OBVIOUS
<1> DEFINE S == Seq(V)
<1>2. \A q \in S \X S : q[1] \o q[2] \in S
    BY <1>1
<1> HIDE DEF S
<1>3. [q \in S \X S |-> q[1] \o q[2]] \in [S \X S -> S]
    BY <1>2
<1>4. \A a \in S, b \in S : [q \in S \X S |-> q[1] \o q[2]][<<a, b>>] = a \o b
    OBVIOUS
<1> QED BY <1>3, <1>4 DEF JoinStep, StepOf, S

\* The parts joined are what the loop over them leaves.
LEMMA JoinFolds ==
    ASSUME NEW V, NEW k \in Seq(V), NEW c \in Seq(Seq(V))
    PROVE  FoldLeft(LAMBDA out, part : out \o part, k, c) = Folded(JoinStep(V), k, c)
<1> DEFINE Fold(f) == f = [s \in SUBSET DOMAIN c |->
                              IF s = {} THEN k
                              ELSE f[s \ {Max(s)}] \o c[Max(s)]]
           fold == CHOOSE f : Fold(f)
<1>1. /\ StepOf(JoinStep(V), Seq(V), Seq(V))
      /\ \A a \in Seq(V), b \in Seq(V) : JoinStep(V)[<<a, b>>] = a \o b
  BY JoinSteps
<1>2. PICK iter \in [SUBSET DOMAIN c -> Seq(V)] :
        CalculatesTyped(JoinStep(V), Seq(V), Seq(V), k, c, iter)
  BY <1>1, LoopExists
<1>3. Fold(iter)
  BY <1>1, <1>2 DEF CalculatesTyped
<1>4. Fold(fold)
  <2> HIDE DEF Fold
  <2>1. QED
    BY <1>3
<1>5. FoldLeft(LAMBDA out, part : out \o part, k, c) = fold[DOMAIN c]
  BY Zenon DEF FoldLeft, MapThenFoldSet
<1> HIDE DEF fold
<1>6. Calculates(JoinStep(V), Seq(V), Seq(V), k, c, fold)
  BY <1>1, <1>4 DEF Calculates
<1> HIDE DEF Fold
<1>7. fold[DOMAIN c] = Folded(JoinStep(V), k, c)
  BY <1>1, <1>6, LoopIsFolded
<1>8. QED
  BY <1>5, <1>7

LEMMA JoinedParts ==
    ASSUME NEW V
    PROVE  /\ Joined(<<>>) = <<>>
           /\ \A parts \in Seq(Seq(V)), part \in Seq(V) :
                /\ Joined(parts) \in Seq(V)
                /\ Joined(Append(parts, part)) = Joined(parts) \o part
<1> DEFINE S == Seq(V)
           J == JoinStep(V)
<1>1. StepOf(J, S, S) /\ \A a \in S, b \in S : J[<<a, b>>] = a \o b
    BY JoinSteps
<1>2. \A c \in Seq(S) : Joined(c) = Folded(J, <<>>, c)
    <2>1. <<>> \in Seq(V)
        OBVIOUS
    <2> QED BY <2>1, JoinFolds DEF Joined
<1>3. <<>> \in S /\ <<>> \in Seq(S)
    OBVIOUS
<1> HIDE DEF S, J
<1>4. \A parts \in Seq(S), part \in S :
        /\ Folded(J, <<>>, parts) \in S
        /\ Folded(J, <<>>, Append(parts, part)) = J[<<Folded(J, <<>>, parts), part>>]
    BY <1>1, <1>3, FoldedType, FoldedAppend
<1>5. Folded(J, <<>>, <<>>) = <<>>
    BY <1>1, <1>3, FoldedNothing
<1>6. \A parts \in Seq(S), part \in S : Append(parts, part) \in Seq(S)
    OBVIOUS
<1>7. ASSUME NEW parts \in Seq(S), NEW part \in S
      PROVE  /\ Joined(parts) \in S
             /\ Joined(Append(parts, part)) = Joined(parts) \o part
    BY <1>1, <1>2, <1>4, <1>6
<1>8. Joined(<<>>) = <<>>
    BY <1>2, <1>3, <1>5
<1> QED BY <1>7, <1>8 DEF S

LEMMA AppendIs ==
    ASSUME NEW S, NEW p \in Seq(S), NEW q \in S
    PROVE  Append(p, q) = [i \in 1 .. Len(p) + 1 |-> IF i = Len(p) + 1 THEN q ELSE p[i]]
<1> DEFINE a == Append(p, q)
           n == Len(p)
<1>1. n \in Nat /\ a \in Seq(S) /\ Len(a) = n + 1 /\ DOMAIN a = 1 .. n + 1
    OBVIOUS
<1>2. \A i \in 1 .. n + 1 : a[i] = IF i = n + 1 THEN q ELSE p[i]
    OBVIOUS
<1> HIDE DEF a
<1>3. a = [i \in 1 .. n + 1 |-> a[i]]
    BY <1>1
<1>4. [i \in 1 .. n + 1 |-> a[i]] = [i \in 1 .. n + 1 |-> IF i = n + 1 THEN q ELSE p[i]]
    BY <1>2
<1> QED BY <1>3, <1>4 DEF a

LEMMA ConcatIs ==
    ASSUME NEW S, NEW p \in Seq(S), NEW a \in S
    PROVE  /\ p \o <<>> = p /\ p \o <<a>> = Append(p, a) /\ Append(p, a) \in Seq(S)
           /\ \A b \in S : p \o <<a, b>> = Append(Append(p, a), b)
    OBVIOUS

\* A sequence without its last member, and that member.
\* A list that is not empty is one longer than another.
LEMMA LastApart ==
    ASSUME NEW S, NEW n \in Nat, NEW c \in Seq(S), Len(c) = n + 1
    PROVE  /\ SubSeq(c, 1, n) \in Seq(S) /\ Len(SubSeq(c, 1, n)) = n /\ c[n + 1] \in S
           /\ c = Append(SubSeq(c, 1, n), c[n + 1])
<1> DEFINE d == SubSeq(c, 1, n)
<1>1. d \in Seq(S) /\ Len(d) = n /\ c[n + 1] \in S /\ \A i \in 1 .. n : d[i] = c[i]
    OBVIOUS
<1>2. c = Append(d, c[n + 1])
    <2> DEFINE e == Append(d, c[n + 1])
    <2>1. e \in Seq(S) /\ Len(e) = n + 1 /\ \A i \in 1 .. n + 1 : e[i] = c[i]
        <3> HIDE DEF d
        <3>1. e \in Seq(S) /\ Len(e) = n + 1 /\ e[n + 1] = c[n + 1] /\ \A i \in 1 .. n : e[i] = d[i]
            BY <1>1
        <3> QED BY <1>1, <3>1
    <2> HIDE DEF e, d
    <2> QED BY <2>1, SeqEqual DEF e
<1> QED BY <1>1, <1>2

\* What holds of a loop so far and what it has read holds of all of it.
LEMMA FoldedSoFar ==
    ASSUME NEW V, NEW F, NEW next, StepOf(next, V, F), NEW k \in V,
           NEW R \in SUBSET (V \X Seq(F)), <<k, <<>>>> \in R,
           \A v \in V, d \in Seq(F), f \in F :
               <<v, d>> \in R => <<next[<<v, f>>], Append(d, f)>> \in R,
           NEW c \in Seq(F)
    PROVE  <<Folded(next, k, c), c>> \in R
<1> DEFINE Holds(d) == <<Folded(next, k, d), d>> \in R
           S == {n \in Nat : \A d \in Seq(F) : Len(d) = n => Holds(d)}
<1>1. 0 \in S
    <2>1. Holds(<<>>)
        BY FoldedNothing
    <2>2. \A d \in Seq(F) : Len(d) = 0 => d = <<>>
        OBVIOUS
    <2> HIDE DEF Holds
    <2> QED BY <2>1, <2>2
<1>2. ASSUME NEW n \in S \cap Nat PROVE n + 1 \in S
    <2> SUFFICES ASSUME NEW e \in Seq(F), Len(e) = n + 1 PROVE Holds(e)
        OBVIOUS
    <2> DEFINE d == SubSeq(e, 1, n)
               f == e[n + 1]
    <2>1. d \in Seq(F) /\ Len(d) = n /\ f \in F /\ e = Append(d, f)
        BY LastApart
    <2> HIDE DEF d, f
    <2>2. Holds(d)
        BY <1>2, <2>1
    <2>3. Folded(next, k, d) \in V
        BY <2>1, FoldedType
    <2>4. Folded(next, k, Append(d, f)) = next[<<Folded(next, k, d), f>>]
        BY <2>1, FoldedAppend
    <2>5. <<next[<<Folded(next, k, d), f>>], Append(d, f)>> \in R
        BY <2>1, <2>2, <2>3
    <2> QED BY <2>1, <2>4, <2>5
<1> HIDE DEF Holds, S
<1>3. Len(c) \in S
    <2>1. Nat \subseteq S
        BY <1>1, <1>2, SetInduction
    <2> QED BY <2>1
<1>4. Holds(c)
    BY <1>3 DEF S
<1> QED BY <1>4 DEF Holds

\* What is left behind the first of two sequences is the second.
LEMMA AfterFirst ==
    ASSUME NEW S, NEW a \in Seq(S), NEW b \in Seq(S)
    PROVE  SubSeq(a \o b, Len(a) + 1, Len(a \o b)) = b
<1> DEFINE c == SubSeq(a \o b, Len(a) + 1, Len(a \o b))
<1>1. c \in Seq(S) /\ Len(c) = Len(b) /\ \A i \in 1 .. Len(b) : c[i] = b[i]
    OBVIOUS
<1> HIDE DEF c
<1>2. c = b
    BY <1>1, SeqEqual
<1> QED BY <1>2 DEF c
=============================================================================
