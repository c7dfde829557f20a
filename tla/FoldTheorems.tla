---------------------------- MODULE FoldTheorems ----------------------------
(***************************************************************************)
(* Folds of a function g over a sequence, for the proofs about definitions *)
(* that are folds (FoldLeft) or recursions over a sequence (FlattenSeq).   *)
(* The induction theorems of the library take an operator; here induction  *)
(* is over a set of numbers or sequences, and the step of the fold is a    *)
(* function.                                                               *)
(***************************************************************************)
EXTENDS Integers, SequencesExt, SequenceTheorems,
        WellFoundedInduction, TLAPS

-----------------------------------------------------------------------------
(* Induction *)

\* Every nonempty set of natural numbers has a least element.
LEMMA LeastNatural ==
  ASSUME NEW S \in SUBSET Nat, S # {}
  PROVE  \E x \in S : \A y \in S : x <= y
<1>1. PICK x \in S : \A y \in S : ~ (<<y, x>> \in OpToRel(<, Nat))
  BY NatLessThanWellFounded, WFMin
<1>2. \A y \in S : y < x => <<y, x>> \in OpToRel(<, Nat)
  BY DEF OpToRel
<1>3. \A y \in S : ~ (y < x)
  BY <1>1, <1>2
<1> QED
  BY <1>3

\* A set that has 0 and the successor of each of its elements has every natural number.
LEMMA Induction ==
  ASSUME NEW S, 0 \in S, \A n \in Nat : n \in S => n + 1 \in S
  PROVE  \A n \in Nat : n \in S
<1> SUFFICES ASSUME Nat \ S # {} PROVE FALSE
  OBVIOUS
<1>1. PICK x \in Nat \ S : \A y \in Nat \ S : x <= y
  BY LeastNatural
<1>2. x # 0 /\ x - 1 \in Nat /\ x - 1 \notin Nat \ S
  BY <1>1
<1> QED
  BY <1>1, <1>2

\* Two sequences of values that start alike and go on alike end alike.
GoOnAlike(p, q, n) ==
  p[0] = q[0] /\ \A k \in 1 .. n : p[k - 1] = q[k - 1] => p[k] = q[k]

LEMMA SameEnd ==
  ASSUME NEW n \in Nat, NEW p, NEW q, GoOnAlike(p, q, n)
  PROVE  \A k \in 0 .. n : p[k] = q[k]
<1> USE DEF GoOnAlike
<1> DEFINE S == {k \in Nat : k <= n => p[k] = q[k]}
<1>1. 0 \in S
  OBVIOUS
<1>2. ASSUME NEW k \in Nat, k \in S PROVE k + 1 \in S
  <2>1. CASE k + 1 <= n
    <3>1. k + 1 \in 1 .. n /\ (k + 1) - 1 = k
      BY <2>1
    <3>2. p[k] = q[k]
      BY <1>2, <2>1
    <3>3. p[k + 1] = q[k + 1]
      BY <3>1, <3>2
    <3> QED
      BY <3>3
  <2>2. CASE ~(k + 1 <= n)
    BY <2>2
  <2> QED
    BY <2>1, <2>2
<1>3. \A k \in Nat : k \in S
  <2> HIDE DEF S
  <2> QED
    BY <1>1, <1>2, Induction
<1> QED
  BY <1>3

-----------------------------------------------------------------------------
(* The recursion that the folds of module Folds are defined by: over the subsets of the
   positions, taking the largest position off. *)

FoldStep(f, g, base, n) ==
  [S \in SUBSET (1 .. n) |-> IF S = {} THEN base ELSE g[<<f[S \ {Max(S)}], Max(S)>>]]
HasFold(V, g, base, n) ==
  \E f \in [SUBSET (1 .. n) -> V] : f = FoldStep(f, g, base, n)

\* A nonempty set of positions has a largest one.
LEMMA Largest ==
  ASSUME NEW n \in Nat, NEW S \in SUBSET (1 .. n), S # {}
  PROVE  Max(S) \in S /\ \A y \in S : Max(S) >= y
<1> DEFINE D == {n - x : x \in S}
<1>1. D \in SUBSET Nat /\ D # {}
  <2>1. \A x \in S : n - x \in Nat
    OBVIOUS
  <2>2. PICK x \in S : TRUE
    OBVIOUS
  <2>3. n - x \in D
    OBVIOUS
  <2> QED
    BY <2>1, <2>3
<1>2. PICK d \in D : \A y \in D : d <= y
  <2> HIDE DEF D
  <2> QED
    BY <1>1, LeastNatural
<1>3. PICK x \in S : d = n - x
  OBVIOUS
<1>4. \A y \in S : n - y \in D
  OBVIOUS
<1>5. \A y \in S : x >= y
  <2> HIDE DEF D
  <2> QED
    BY <1>2, <1>3, <1>4
<1> QED
  BY <1>5 DEF Max

\* The last position, when it is there.
LEMMA LastPosition ==
  ASSUME NEW n \in Nat, NEW S \in SUBSET (1 .. (n + 1)), n + 1 \in S
  PROVE  Max(S) = n + 1 /\ S \ {Max(S)} \in SUBSET (1 .. n)
<1>1. \A y \in S : n + 1 >= y
  OBVIOUS
<1>2. \A x \in S : (\A y \in S : x >= y) => x = n + 1
  OBVIOUS
<1>3. Max(S) = n + 1
  BY <1>1, <1>2 DEF Max
<1> QED
  BY <1>3

LEMMA MaxOfRange ==
  ASSUME NEW k \in Nat \ {0}
  PROVE  Max(1 .. k) = k
<1>1. k - 1 \in Nat /\ (k - 1) + 1 = k
  OBVIOUS
<1>2. 1 .. k \in SUBSET (1 .. ((k - 1) + 1)) /\ (k - 1) + 1 \in 1 .. k
  OBVIOUS
<1> QED
  BY <1>1, <1>2, LastPosition

\* The recursion has a solution for every step function.
THEOREM FoldExists ==
  ASSUME NEW V, NEW base \in V, NEW n \in Nat, NEW g \in [V \X (1 .. n) -> V]
  PROVE  HasFold(V, g, base, n)
<1> USE DEF HasFold
<1> DEFINE Solved(m) == \A h \in [V \X (1 .. m) -> V] :
                          \E f \in [SUBSET (1 .. m) -> V] : f = FoldStep(f, h, base, m)
           S == {m \in Nat : Solved(m)}
<1>1. Solved(0)
  <2> TAKE h \in [V \X (1 .. 0) -> V]
  <2> DEFINE f == [s \in SUBSET (1 .. 0) |-> base]
  <2>1. f \in [SUBSET (1 .. 0) -> V]
    OBVIOUS
  <2>2. SUBSET (1 .. 0) = {{}}
    OBVIOUS
  <2>3. f = FoldStep(f, h, base, 0)
    BY <2>2 DEF FoldStep
  <2> QED
    BY <2>1, <2>3
<1>2. ASSUME NEW m \in Nat, Solved(m) PROVE Solved(m + 1)
  <2> TAKE h \in [V \X (1 .. (m + 1)) -> V]
  <2> DEFINE l == [x \in V \X (1 .. m) |-> h[x]]
  <2>1. l \in [V \X (1 .. m) -> V]
    <3>1. \A x \in V \X (1 .. m) : x \in V \X (1 .. (m + 1))
      OBVIOUS
    <3> QED
      BY <3>1
  <2>2. PICK e \in [SUBSET (1 .. m) -> V] : e = FoldStep(e, l, base, m)
    BY <1>2, <2>1
  <2> DEFINE f == [s \in SUBSET (1 .. (m + 1)) |->
                    IF m + 1 \in s THEN h[<<e[s \ {m + 1}], m + 1>>] ELSE e[s]]
  <2>3. ASSUME NEW s \in SUBSET (1 .. (m + 1)), m + 1 \in s
        PROVE  f[s] \in V /\ f[s] = h[<<f[s \ {Max(s)}], Max(s)>>]
    <3>1. Max(s) = m + 1 /\ s \ {m + 1} \in SUBSET (1 .. m)
      BY <2>3, LastPosition
    <3>2. e[s \ {m + 1}] \in V
      BY <3>1
    <3>3. <<e[s \ {m + 1}], m + 1>> \in V \X (1 .. (m + 1))
      BY <3>2
    <3>4. s \ {m + 1} \in SUBSET (1 .. (m + 1)) /\ m + 1 \notin s \ {m + 1}
      OBVIOUS
    <3>5. f[s \ {m + 1}] = e[s \ {m + 1}]
      BY <3>4
    <3>6. f[s] = h[<<e[s \ {m + 1}], m + 1>>]
      BY <2>3
    <3> HIDE DEF f
    <3>7. f[s] \in V
      BY <3>3, <3>6
    <3> QED
      BY <3>1, <3>5, <3>6, <3>7
  <2>4. ASSUME NEW s \in SUBSET (1 .. (m + 1)), m + 1 \notin s
        PROVE  f[s] \in V /\ f[s] = IF s = {} THEN base ELSE h[<<f[s \ {Max(s)}], Max(s)>>]
    <3>1. s \in SUBSET (1 .. m)
      BY <2>4
    <3>2. f[s] = e[s]
      BY <2>4
    <3>3. e[s] = IF s = {} THEN base ELSE l[<<e[s \ {Max(s)}], Max(s)>>]
      BY <2>2, <3>1 DEF FoldStep
    <3>4. CASE s = {}
      BY <3>2, <3>3, <3>4
    <3>5. CASE s # {}
      <4>1. Max(s) \in 1 .. m
        BY <3>1, <3>5, Largest
      <4>2. s \ {Max(s)} \in SUBSET (1 .. m) /\ m + 1 \notin s \ {Max(s)}
        BY <3>1, <2>4
      <4>3. f[s \ {Max(s)}] = e[s \ {Max(s)}]
        BY <4>2
      <4>4. e[s \ {Max(s)}] \in V
        BY <4>2
      <4>5. l[<<e[s \ {Max(s)}], Max(s)>>] = h[<<e[s \ {Max(s)}], Max(s)>>]
        BY <4>1, <4>4
      <4>6. e[s] \in V
        BY <3>1
      <4> HIDE DEF f, l
      <4> QED
        BY <3>2, <3>3, <3>5, <4>3, <4>5, <4>6
    <3> QED
      BY <3>4, <3>5
  <2>5. f \in [SUBSET (1 .. (m + 1)) -> V]
    <3>1. \A s \in SUBSET (1 .. (m + 1)) : f[s] \in V
      BY <2>3, <2>4
    <3> QED
      BY <3>1
  <2>6. f = FoldStep(f, h, base, m + 1)
    <3>1. \A s \in SUBSET (1 .. (m + 1)) :
            f[s] = IF s = {} THEN base ELSE h[<<f[s \ {Max(s)}], Max(s)>>]
      <4> HIDE DEF f
      <4> QED
        BY <2>3, <2>4
    <3>2. FoldStep(f, h, base, m + 1)
            = [s \in SUBSET (1 .. (m + 1)) |->
                 IF s = {} THEN base ELSE h[<<f[s \ {Max(s)}], Max(s)>>]]
      BY DEF FoldStep
    <3> HIDE DEF f
    <3> QED
      BY <2>5, <3>1, <3>2
  <2> QED
    BY <2>5, <2>6
<1>3. \A m \in Nat : Solved(m)
  <2> HIDE DEF Solved
  <2>1. 0 \in S /\ \A m \in Nat : m \in S => m + 1 \in S
    BY <1>1, <1>2
  <2>2. \A m \in Nat : m \in S
    <3> HIDE DEF S
    <3> QED
      BY <2>1, Induction
  <2> QED
    BY <2>2
<1> QED
  BY <1>3

-----------------------------------------------------------------------------
(* The values that a fold of g from base goes through on a sequence *)

IsRun(p, g, base, s) ==
  /\ p[0] = base
  /\ \A k \in 1 .. Len(s) : p[k] = g[<<p[k - 1], s[k]>>]
Runs(V, g, base, s) == {p \in [0 .. Len(s) -> V] : IsRun(p, g, base, s)}
FoldOver(V, E, g, base) == base \in V /\ g \in [V \X E -> V]
FoldValue(V, g, base, s) == (CHOOSE p \in Runs(V, g, base, s) : TRUE)[Len(s)]

\* A solution of the recursion over sets of positions, taken at the whole of a sequence, is
\* the value of the fold.
THEOREM FoldIsRun ==
  ASSUME NEW V, NEW E, NEW base \in V, NEW g \in [V \X E -> V], NEW s \in Seq(E),
         NEW f, f[{}] = base,
         \A k \in 1 .. Len(s) : f[1 .. (k - 1)] \in V
                                 => f[1 .. k] = g[<<f[1 .. (k - 1)], s[k]>>]
  PROVE  /\ [k \in 0 .. Len(s) |-> f[1 .. k]] \in Runs(V, g, base, s)
         /\ f[DOMAIN s] \in V
<1> DEFINE n == Len(s)
           S == {k \in Nat : k <= n => f[1 .. k] \in V}
           p == [k \in 0 .. n |-> f[1 .. k]]
<1>0. n \in Nat /\ DOMAIN s = 1 .. n
  OBVIOUS
<1>e. 1 .. 0 = {}
  OBVIOUS
<1>1. 0 \in S
  BY <1>e
<1>2. ASSUME NEW k \in Nat, k \in S PROVE k + 1 \in S
  <2>1. CASE k + 1 <= n
    <3>1. k + 1 \in 1 .. n /\ (k + 1) - 1 = k
      BY <2>1
    <3>2. f[1 .. k] \in V
      BY <1>2, <2>1, <1>0
    <3>3. f[1 .. (k + 1)] = g[<<f[1 .. k], s[k + 1]>>]
      BY <3>1, <3>2
    <3>4. s[k + 1] \in E
      BY <3>1
    <3> QED
      BY <3>2, <3>3, <3>4
  <2>2. CASE ~(k + 1 <= n)
    BY <2>2
  <2> QED
    BY <2>1, <2>2
<1>3. \A k \in Nat : k \in S
  <2> HIDE DEF S
  <2> QED
    BY <1>1, <1>2, Induction
<1>4. \A k \in 0 .. n : f[1 .. k] \in V
  BY <1>3, <1>0
<1>5. p \in [0 .. n -> V]
  BY <1>4
<1>6. ASSUME NEW k \in 1 .. n PROVE p[k] = g[<<p[k - 1], s[k]>>]
  <2>1. k - 1 \in 0 .. n /\ k \in 0 .. n
    BY <1>0
  <2>2. p[k - 1] = f[1 .. (k - 1)] /\ p[k] = f[1 .. k]
    BY <2>1
  <2>3. f[1 .. (k - 1)] \in V
    BY <2>1, <1>4
  <2> QED
    BY <2>2, <2>3
<1>7. p[0] = base
  BY <1>0, <1>e
<1>8. p \in Runs(V, g, base, s)
  <2> HIDE DEF p
  <2> QED
    BY <1>5, <1>6, <1>7 DEF Runs, IsRun
<1>9. f[DOMAIN s] \in V
  BY <1>0, <1>4
<1> QED
  BY <1>8, <1>9

\* All runs of a fold on a sequence end alike.
LEMMA RunsEndAlike ==
  ASSUME NEW V, NEW base, NEW g, NEW s, Len(s) \in Nat,
         NEW p \in Runs(V, g, base, s)
  PROVE  FoldValue(V, g, base, s) = p[Len(s)]
<1> DEFINE q == CHOOSE r \in Runs(V, g, base, s) : TRUE
<1>1. q \in Runs(V, g, base, s)
  OBVIOUS
<1> HIDE DEF q
<1>2. GoOnAlike(p, q, Len(s))
  BY <1>1 DEF Runs, IsRun, GoOnAlike
<1>3. \A k \in 0 .. Len(s) : p[k] = q[k]
  BY <1>2, SameEnd
<1>4. p[Len(s)] = q[Len(s)]
  BY <1>3
<1> QED
  BY <1>4 DEF FoldValue, q

\* Every fold has a run.
LEMMA RunExists ==
  ASSUME NEW V, NEW E, NEW base, NEW g, FoldOver(V, E, g, base), NEW s \in Seq(E)
  PROVE  /\ \E p \in Runs(V, g, base, s) : TRUE
         /\ FoldValue(V, g, base, s) \in V
<1> USE DEF FoldOver
<1> DEFINE n == Len(s)
           h == [x \in V \X (1 .. n) |-> g[<<x[1], s[x[2]]>>]]
<1>0. n \in Nat /\ DOMAIN s = 1 .. n /\ \A k \in 1 .. n : s[k] \in E
  OBVIOUS
<1>1. h \in [V \X (1 .. n) -> V]
  <2>1. \A x \in V \X (1 .. n) : <<x[1], s[x[2]]>> \in V \X E
    BY <1>0
  <2>2. \A x \in V \X (1 .. n) : g[<<x[1], s[x[2]]>>] \in V
    BY <2>1
  <2> QED
    BY <2>2
<1>2. \A v \in V : \A k \in 1 .. n : h[<<v, k>>] = g[<<v, s[k]>>]
  OBVIOUS
<1> HIDE DEF h
<1>3. PICK f \in [SUBSET (1 .. n) -> V] : f = FoldStep(f, h, base, n)
  <2> HIDE DEF n
  <2>1. HasFold(V, h, base, n)
    BY <1>0, <1>1, FoldExists
  <2> QED
    BY <2>1 DEF HasFold
<1>4. f[{}] = base
  BY <1>3 DEF FoldStep
<1>5. ASSUME NEW k \in 1 .. n PROVE f[1 .. k] = g[<<f[1 .. (k - 1)], s[k]>>]
  <2>1. 1 .. k \in SUBSET (1 .. n) /\ 1 .. k # {} /\ (1 .. k) \ {k} = 1 .. (k - 1)
    BY <1>0
  <2>2. Max(1 .. k) = k
    BY <1>0, MaxOfRange
  <2>3. f[1 .. k] = h[<<f[(1 .. k) \ {Max(1 .. k)}], Max(1 .. k)>>]
    BY <1>3, <2>1 DEF FoldStep
  <2>4. f[1 .. (k - 1)] \in V
    <3>1. 1 .. (k - 1) \in SUBSET (1 .. n)
      BY <1>0
    <3> QED
      BY <3>1
  <2>5. f[1 .. k] = h[<<f[1 .. (k - 1)], k>>]
    BY <2>1, <2>2, <2>3
  <2> QED
    BY <2>5, <2>4, <1>2
<1>6. [k \in 0 .. n |-> f[1 .. k]] \in Runs(V, g, base, s)
  BY <1>4, <1>5, FoldIsRun
<1>7. [k \in 0 .. n |-> f[1 .. k]][n] \in V
  BY <1>6, <1>0 DEF Runs
<1> QED
  BY <1>6, <1>7, RunsEndAlike

\* A fold over nothing gives its base.
THEOREM FoldOfNothing ==
  ASSUME NEW V, NEW base \in V, NEW g
  PROVE  FoldValue(V, g, base, << >>) = base
<1> DEFINE p == [k \in {0} |-> base]
<1>1. p \in Runs(V, g, base, << >>)
  BY DEF Runs, IsRun
<1>2. Len(<< >>) = 0
  OBVIOUS
<1>3. p[0] = base
  OBVIOUS
<1> HIDE DEF p
<1>4. FoldValue(V, g, base, << >>) = p[Len(<< >>)]
  BY <1>1, <1>2, RunsEndAlike
<1> QED
  BY <1>2, <1>3, <1>4

\* One more element at the end: one more step.
THEOREM FoldAppend ==
  ASSUME NEW V, NEW E, NEW base, NEW g, FoldOver(V, E, g, base), NEW s \in Seq(E),
         NEW e \in E
  PROVE  FoldValue(V, g, base, Append(s, e)) = g[<<FoldValue(V, g, base, s), e>>]
<1> USE DEF FoldOver
<1> DEFINE n == Len(s)
           t == Append(s, e)
<1>1. /\ t \in Seq(E) /\ Len(t) = n + 1 /\ t[n + 1] = e /\ n \in Nat
      /\ \A k \in 1 .. n : t[k] = s[k]
  OBVIOUS
<1>2. PICK p \in Runs(V, g, base, s) : TRUE
  BY RunExists
<1>3. PICK q \in Runs(V, g, base, t) : TRUE
  BY <1>1, RunExists
<1> HIDE DEF t
<1>4. FoldValue(V, g, base, s) = p[n] /\ FoldValue(V, g, base, t) = q[n + 1]
  <2>1. FoldValue(V, g, base, s) = p[Len(s)]
    BY RunsEndAlike
  <2>2. FoldValue(V, g, base, t) = q[Len(t)]
    BY <1>1, RunsEndAlike
  <2> QED
    BY <1>1, <2>1, <2>2
<1>5. GoOnAlike(q, p, n)
  <2>1. \A k \in 1 .. n : k \in 1 .. (n + 1)
    BY <1>1
  <2> QED
    BY <1>1, <2>1 DEF Runs, IsRun, GoOnAlike
<1>6. q[n] = p[n]
  <2> HIDE DEF n
  <2>1. n \in Nat /\ n \in 0 .. n
    BY <1>1
  <2>2. \A k \in 0 .. n : q[k] = p[k]
    BY <2>1, <1>5, SameEnd
  <2> QED
    BY <2>1, <2>2
<1>7. n + 1 \in 1 .. (n + 1) /\ (n + 1) - 1 = n
  BY <1>1
<1>8. q[n + 1] = g[<<q[n], e>>]
  BY <1>1, <1>7 DEF Runs, IsRun
<1> QED
  BY <1>4, <1>6, <1>8 DEF t

\* A first element: the fold of the others from the first step.
THEOREM FoldFirst ==
  ASSUME NEW V, NEW E, NEW base, NEW g, FoldOver(V, E, g, base), NEW s \in Seq(E),
         s # << >>
  PROVE  FoldValue(V, g, base, s) = FoldValue(V, g, g[<<base, Head(s)>>], Tail(s))
<1> USE DEF FoldOver
<1> DEFINE n == Len(s)
           t == Tail(s)
           b == g[<<base, Head(s)>>]
<1>1. /\ t \in Seq(E) /\ Len(t) = n - 1 /\ n \in Nat /\ n > 0
      /\ Head(s) = s[1] /\ s[1] \in E
      /\ \A k \in 1 .. (n - 1) : t[k] = s[k + 1]
  OBVIOUS
<1>2. b \in V
  BY <1>1
<1>3. PICK p \in Runs(V, g, base, s) : TRUE
  BY RunExists
<1>4. PICK q \in Runs(V, g, b, t) : TRUE
  <2> HIDE DEF b, t
  <2> QED
    BY <1>1, <1>2, RunExists
<1>5. FoldValue(V, g, base, s) = p[n] /\ FoldValue(V, g, b, t) = q[n - 1]
  <2> HIDE DEF b, t
  <2> QED
    BY <1>1, RunsEndAlike
<1> HIDE DEF t
<1> DEFINE r == [k \in 0 .. (n - 1) |-> p[k + 1]]
<1>6. r[0] = q[0]
  <2>1. 1 \in 1 .. n /\ 0 \in 0 .. (n - 1) /\ 1 - 1 = 0 /\ 0 + 1 = 1
    BY <1>1
  <2>2. p[1] = g[<<p[0], s[1]>>] /\ p[0] = base
    BY <2>1 DEF Runs, IsRun
  <2>3. q[0] = b
    BY DEF Runs, IsRun
  <2>4. r[0] = p[1]
    BY <2>1
  <2> QED
    BY <2>2, <2>3, <2>4, <1>1
<1>7. ASSUME NEW k \in 1 .. (n - 1), r[k - 1] = q[k - 1] PROVE r[k] = q[k]
  <2>1. /\ k \in 0 .. (n - 1) /\ k - 1 \in 0 .. (n - 1) /\ k + 1 \in 1 .. n
        /\ (k - 1) + 1 = k /\ (k + 1) - 1 = k
    BY <1>1
  <2>2. r[k] = p[k + 1] /\ r[k - 1] = p[k]
    BY <2>1
  <2>3. p[k + 1] = g[<<p[k], s[k + 1]>>]
    BY <2>1 DEF Runs, IsRun
  <2>4. q[k] = g[<<q[k - 1], t[k]>>]
    BY <1>1, <2>1 DEF Runs, IsRun
  <2> HIDE DEF r
  <2> QED
    BY <1>1, <1>7, <2>2, <2>3, <2>4
<1>8. \A k \in 0 .. (n - 1) : r[k] = q[k]
  <2> DEFINE m == n - 1
  <2>1. m \in Nat
    BY <1>1
  <2>2. GoOnAlike(r, q, m)
    <3> HIDE DEF r
    <3> QED
      BY <1>6, <1>7 DEF GoOnAlike
  <2> HIDE DEF r, m
  <2>3. \A k \in 0 .. m : r[k] = q[k]
    BY <2>1, <2>2, SameEnd
  <2> QED
    BY <2>3 DEF m
<1>9. n - 1 \in 0 .. (n - 1) /\ (n - 1) + 1 = n
  BY <1>1
<1>10. r[n - 1] = p[n]
  BY <1>9
<1>11. r[n - 1] = q[n - 1]
  BY <1>8, <1>9
<1> QED
  BY <1>5, <1>10, <1>11 DEF t

-----------------------------------------------------------------------------
(* Sequences put together *)

LEMMA Joined ==
  ASSUME NEW T, NEW s \in Seq(T), NEW t \in Seq(T), s # << >>
  PROVE  s \o t # << >> /\ Head(s \o t) = Head(s) /\ Tail(s \o t) = Tail(s) \o t
<1> DEFINE l == Tail(s \o t)
           r == Tail(s) \o t
<1>1. /\ Len(s) \in Nat /\ Len(t) \in Nat /\ Len(s) >= 1 /\ Len(s \o t) = Len(s) + Len(t)
      /\ Tail(s) \in Seq(T) /\ Len(Tail(s)) = Len(s) - 1 /\ s \o t \in Seq(T)
  OBVIOUS
<1>2. s \o t # << >> /\ Head(s \o t) = Head(s)
  BY <1>1
<1>3. l \in Seq(T) /\ Len(l) = Len(s) + Len(t) - 1
  BY <1>1, <1>2
<1>4. r \in Seq(T) /\ Len(r) = Len(s) + Len(t) - 1
  BY <1>1
<1>5. ASSUME NEW i \in 1 .. (Len(s) + Len(t) - 1) PROVE l[i] = r[i]
  <2>1. l[i] = (s \o t)[i + 1]
    BY <1>1, <1>2
  <2>2. CASE i <= Len(s) - 1
    <3>1. r[i] = Tail(s)[i] /\ Tail(s)[i] = s[i + 1] /\ (s \o t)[i + 1] = s[i + 1]
      BY <1>1, <2>2
    <3> QED
      BY <2>1, <3>1
  <2>3. CASE ~(i <= Len(s) - 1)
    <3>1. r[i] = t[i - (Len(s) - 1)] /\ (s \o t)[i + 1] = t[i + 1 - Len(s)]
      BY <1>1, <2>3
    <3>2. i - (Len(s) - 1) = i + 1 - Len(s)
      BY <1>1
    <3> QED
      BY <2>1, <3>1, <3>2
  <2> QED
    BY <2>2, <2>3
<1> HIDE DEF l, r
<1>6. l = r
  BY <1>3, <1>4, <1>5
<1> QED
  BY <1>2, <1>6 DEF l, r

LEMMA Moved ==
  ASSUME NEW T, NEW r \in Seq(T), NEW s \in Seq(T), s # << >>
  PROVE  Append(r, Head(s)) \o Tail(s) = r \o s
<1> DEFINE a == Append(r, Head(s)) \o Tail(s)
           b == r \o s
<1>1. /\ Len(s) \in Nat /\ Len(r) \in Nat /\ Len(s) >= 1 /\ Head(s) = s[1] /\ s[1] \in T
      /\ Tail(s) \in Seq(T) /\ Len(Tail(s)) = Len(s) - 1
      /\ Append(r, Head(s)) \in Seq(T) /\ Len(Append(r, Head(s))) = Len(r) + 1
  OBVIOUS
<1>2. a \in Seq(T) /\ Len(a) = Len(r) + Len(s)
  BY <1>1
<1>3. b \in Seq(T) /\ Len(b) = Len(r) + Len(s)
  BY <1>1
<1>4. ASSUME NEW i \in 1 .. (Len(r) + Len(s)) PROVE a[i] = b[i]
  <2>1. CASE i <= Len(r)
    BY <1>1, <2>1
  <2>2. CASE i = Len(r) + 1
    BY <1>1, <2>2
  <2>3. CASE i > Len(r) + 1
    <3>1. a[i] = Tail(s)[i - (Len(r) + 1)] /\ b[i] = s[i - Len(r)]
      BY <1>1, <2>3
    <3>2. i - (Len(r) + 1) \in 1 .. (Len(s) - 1) /\ i - (Len(r) + 1) + 1 = i - Len(r)
      BY <1>1, <2>3
    <3>3. \A j \in 1 .. (Len(s) - 1) : Tail(s)[j] = s[j + 1]
      BY <1>1
    <3> QED
      BY <3>1, <3>2, <3>3
  <2> QED
    BY <1>1, <2>1, <2>2, <2>3
<1> HIDE DEF a, b
<1>5. a = b
  BY <1>2, <1>3, <1>4
<1> QED
  BY <1>5 DEF a, b

LEMMA Regrouped ==
  ASSUME NEW T, NEW s \in Seq(T), NEW t \in Seq(T), NEW u \in Seq(T)
  PROVE  (s \o t) \o u = s \o (t \o u)
  BY ConcatAssociative

\* The same as one formula, for where many sequences are at hand.
Groups(x, y, z) == (x \o y) \o z = x \o (y \o z)

LEMMA Grouped ==
  ASSUME NEW T, NEW x \in Seq(T), NEW y \in Seq(T), NEW z \in Seq(T)
  PROVE  Groups(x, y, z) /\ x \o y \in Seq(T)
<1>1. x \o y \in Seq(T)
  OBVIOUS
<1> QED
  BY <1>1, Regrouped DEF Groups

LEMMA Behind ==
  ASSUME NEW T, NEW s \in Seq(T), NEW a \in T, NEW b \in T
  PROVE  s \o <<a>> = Append(s, a) /\ s \o <<a, b>> = Append(Append(s, a), b) /\ s \o << >> = s
  OBVIOUS

-----------------------------------------------------------------------------
(* FlattenSeq as a fold *)

Concat(T) == [x \in Seq(T) \X Seq(T) |-> x[1] \o x[2]]

\* The step of the fold: one more sequence at the end.
LEMMA ConcatFold ==
  ASSUME NEW T
  PROVE  /\ FoldOver(Seq(T), Seq(T), Concat(T), << >>)
         /\ \A s, t \in Seq(T) : Concat(T)[<<s, t>>] = s \o t /\ s \o t \in Seq(T)
<1>1. \A s, t \in Seq(T) : s \o t \in Seq(T)
  OBVIOUS
<1>2. << >> \in Seq(T)
  OBVIOUS
<1> QED
  BY <1>1, <1>2 DEF Concat, FoldOver

\* FlattenSeq of SequencesExt is defined by recursion on the position.
LEMMA FlattenIsFold ==
  ASSUME NEW T, NEW q \in Seq(Seq(T))
  PROVE  /\ FlattenSeq(q) = FoldValue(Seq(T), Concat(T), << >>, q)
         /\ FlattenSeq(q) \in Seq(T)
<1> DEFINE n == Len(q)
           Next(f) == [i \in 1 .. n |-> IF i = 1 THEN q[i] ELSE f[i - 1] \o q[i]]
           f == CHOOSE g : g = Next(g)
<1>1. n \in Nat /\ \A i \in 1 .. n : q[i] \in Seq(T)
  OBVIOUS
<1>2. PICK p \in Runs(Seq(T), Concat(T), << >>, q) : TRUE
  BY ConcatFold, RunExists
<1>3. FoldValue(Seq(T), Concat(T), << >>, q) = p[n]
  BY RunsEndAlike
<1>4. /\ p[0] = << >> /\ \A k \in 0 .. n : p[k] \in Seq(T)
      /\ \A k \in 1 .. n : p[k] = p[k - 1] \o q[k]
  <2>1. p[0] = << >> /\ \A k \in 1 .. n : p[k] = Concat(T)[<<p[k - 1], q[k]>>]
    BY <1>2 DEF Runs, IsRun
  <2>2. \A k \in 0 .. n : p[k] \in Seq(T)
    BY <1>2 DEF Runs
  <2>3. \A k \in 1 .. n : p[k - 1] \in Seq(T)
    BY <1>1, <2>2
  <2>4. ASSUME NEW k \in 1 .. n PROVE p[k] = p[k - 1] \o q[k]
    <3>1. p[k - 1] \in Seq(T) /\ q[k] \in Seq(T)
      BY <1>1, <2>3
    <3>2. \A s, t \in Seq(T) : Concat(T)[<<s, t>>] = s \o t
      BY ConcatFold
    <3>3. Concat(T)[<<p[k - 1], q[k]>>] = p[k - 1] \o q[k]
      BY <3>1, <3>2
    <3> QED
      BY <2>1, <3>3
  <2> QED
    BY <2>1, <2>2, <2>4
<1>5. CASE n = 0
  <2>1. q = << >> /\ Len(<< >>) = 0
    BY <1>5
  <2>2. FlattenSeq(q) = << >>
    BY <2>1 DEF FlattenSeq
  <2>3. p[n] = << >> /\ << >> \in Seq(T)
    BY <1>4, <1>5
  <2> QED
    BY <1>3, <2>2, <2>3
<1>6. CASE n # 0
  <2> DEFINE e == [i \in 1 .. n |-> p[i]]
  <2>1. e = Next(e)
    <3>1. ASSUME NEW i \in 1 .. n
          PROVE  p[i] = IF i = 1 THEN q[i] ELSE e[i - 1] \o q[i]
      <4>1. CASE i = 1
        <5>1. p[1] = << >> \o q[1]
          <6>1. 1 \in 1 .. n /\ 1 - 1 = 0
            BY <4>1
          <6>2. p[1] = p[1 - 1] \o q[1]
            BY <1>4, <6>1
          <6>3. p[1 - 1] = << >>
            BY <1>4, <6>1
          <6> QED
            BY <6>2, <6>3
        <5>2. << >> \o q[1] = q[1]
          BY <1>1, <4>1
        <5> QED
          BY <4>1, <5>1, <5>2
      <4>2. CASE i # 1
        <5>1. i - 1 \in 1 .. n
          BY <1>1, <4>2
        <5>2. e[i - 1] = p[i - 1]
          BY <5>1
        <5> QED
          BY <1>4, <4>2, <5>2
      <4> QED
        BY <4>1, <4>2
    <3> QED
      BY <3>1
  <2>2. f = Next(f)
    BY <2>1, Zenon
  <2>3. FlattenSeq(q) = f[n]
    BY <1>6 DEF FlattenSeq
  <2> HIDE DEF f, e
  <2>4. \A i \in 1 .. n : f[i] = IF i = 1 THEN q[i] ELSE f[i - 1] \o q[i]
    BY <2>2
  <2>5. \A i \in 1 .. n : e[i] = IF i = 1 THEN q[i] ELSE e[i - 1] \o q[i]
    BY <2>1
  <2> DEFINE x == [k \in 0 .. (n - 1) |-> f[k + 1]]
             y == [k \in 0 .. (n - 1) |-> e[k + 1]]
  <2>6. x[0] = y[0]
    BY <1>1, <1>6, <2>4, <2>5
  <2>7. ASSUME NEW k \in 1 .. (n - 1), x[k - 1] = y[k - 1] PROVE x[k] = y[k]
    <3>1. /\ k + 1 \in 1 .. n /\ k + 1 # 1 /\ (k + 1) - 1 = k /\ (k - 1) + 1 = k
          /\ k - 1 \in 0 .. (n - 1) /\ k \in 0 .. (n - 1)
      BY <1>1
    <3>2. f[k] = e[k]
      BY <2>7, <3>1
    <3> QED
      BY <2>4, <2>5, <3>1, <3>2
  <2>8. x[n - 1] = y[n - 1]
    <3> HIDE DEF x, y
    <3>1. n - 1 \in Nat /\ n - 1 \in 0 .. (n - 1)
      BY <1>1, <1>6
    <3>2. GoOnAlike(x, y, n - 1)
      BY <2>6, <2>7 DEF GoOnAlike
    <3> QED
      BY <3>1, <3>2, SameEnd
  <2>9. f[n] = e[n] /\ e[n] = p[n]
    <3>1. n - 1 \in 0 .. (n - 1) /\ (n - 1) + 1 = n /\ n \in 1 .. n
      BY <1>1, <1>6
    <3> QED
      BY <2>8, <3>1 DEF e
  <2> QED
    BY <1>1, <1>3, <1>4, <2>3, <2>9
<1> QED
  BY <1>5, <1>6

LEMMA FlattenNothing == FlattenSeq(<< >>) = << >>
<1>1. Len(<< >>) = 0
  OBVIOUS
<1> QED
  BY <1>1 DEF FlattenSeq

LEMMA FlattenAppend ==
  ASSUME NEW T, NEW q \in Seq(Seq(T)), NEW s \in Seq(T)
  PROVE  FlattenSeq(Append(q, s)) = FlattenSeq(q) \o s
<1> DEFINE v == FoldValue(Seq(T), Concat(T), << >>, q)
<1>1. FlattenSeq(q) = v /\ FlattenSeq(q) \in Seq(T)
  BY FlattenIsFold
<1>2. Append(q, s) \in Seq(Seq(T))
  OBVIOUS
<1>3. FlattenSeq(Append(q, s)) = FoldValue(Seq(T), Concat(T), << >>, Append(q, s))
  BY <1>2, FlattenIsFold
<1>4. FoldValue(Seq(T), Concat(T), << >>, Append(q, s)) = Concat(T)[<<v, s>>]
  BY ConcatFold, FoldAppend
<1> HIDE DEF v
<1>5. Concat(T)[<<v, s>>] = v \o s
  BY <1>1, ConcatFold
<1> QED
  BY <1>1, <1>3, <1>4, <1>5

LEMMA FlattenOne ==
  ASSUME NEW T, NEW s \in Seq(T)
  PROVE  FlattenSeq(<<s>>) = s
<1>1. << >> \in Seq(Seq(T)) /\ Append(<< >>, s) = <<s>> /\ << >> \o s = s
  OBVIOUS
<1>2. FlattenSeq(Append(<< >>, s)) = FlattenSeq(<< >>) \o s
  BY <1>1, FlattenAppend
<1> QED
  BY <1>1, <1>2, FlattenNothing

LEMMA AppendBehind ==
  ASSUME NEW T, NEW s \in Seq(T), NEW t \in Seq(T), NEW e \in T
  PROVE  s \o Append(t, e) = Append(s \o t, e) /\ s \o t \in Seq(T)
  OBVIOUS

\* Two sequences of sequences put together, by induction on the length of the second.
FlattensBehind(T, n) ==
  \A q, r \in Seq(Seq(T)) : Len(r) = n => FlattenSeq(q \o r) = FlattenSeq(q) \o FlattenSeq(r)

LEMMA FlattenConcat ==
  ASSUME NEW T, NEW q \in Seq(Seq(T)), NEW r \in Seq(Seq(T))
  PROVE  FlattenSeq(q \o r) = FlattenSeq(q) \o FlattenSeq(r)
<1> DEFINE S == {n \in Nat : FlattensBehind(T, n)}
<1>1. 0 \in S
  <2>1. ASSUME NEW a \in Seq(Seq(T)), NEW b \in Seq(Seq(T)), Len(b) = 0
        PROVE  FlattenSeq(a \o b) = FlattenSeq(a) \o FlattenSeq(b)
    <3>1. b = << >> /\ a \o << >> = a
      BY <2>1
    <3>2. FlattenSeq(a) \in Seq(T)
      BY FlattenIsFold
    <3>3. FlattenSeq(a) \o << >> = FlattenSeq(a)
      BY <3>2
    <3> QED
      BY <3>1, <3>3, FlattenNothing
  <2> QED
    BY <2>1 DEF FlattensBehind
<1>2. ASSUME NEW n \in Nat, n \in S PROVE n + 1 \in S
  <2>1. ASSUME NEW a \in Seq(Seq(T)), NEW b \in Seq(Seq(T)), Len(b) = n + 1
        PROVE  FlattenSeq(a \o b) = FlattenSeq(a) \o FlattenSeq(b)
    <3> DEFINE c == SubSeq(b, 1, n)
               s == b[n + 1]
    <3>1. c \in Seq(Seq(T)) /\ Len(c) = n /\ s \in Seq(T) /\ b = Append(c, s)
      BY <2>1
    <3> HIDE DEF c, s
    <3>2. FlattenSeq(a \o c) = FlattenSeq(a) \o FlattenSeq(c)
      BY <1>2, <3>1 DEF FlattensBehind
    <3>3. a \o b = Append(a \o c, s) /\ a \o c \in Seq(Seq(T))
      BY <3>1, AppendBehind
    <3>4. /\ FlattenSeq(Append(a \o c, s)) = FlattenSeq(a \o c) \o s
          /\ FlattenSeq(Append(c, s)) = FlattenSeq(c) \o s
      BY <3>1, <3>3, FlattenAppend
    <3>5. FlattenSeq(a) \in Seq(T) /\ FlattenSeq(c) \in Seq(T)
      BY <3>1, FlattenIsFold
    <3> DEFINE u == FlattenSeq(a)
               v == FlattenSeq(c)
    <3>6. u \in Seq(T) /\ v \in Seq(T)
      BY <3>5
    <3> HIDE DEF u, v
    <3>7. (u \o v) \o s = u \o (v \o s)
      <4>1. Groups(u, v, s)
        BY <3>1, <3>6, Grouped
      <4> QED
        BY <4>1, Zenon DEF Groups
    <3> QED
      BY <3>1, <3>2, <3>3, <3>4, <3>7 DEF u, v
  <2>2. n + 1 \in Nat
    OBVIOUS
  <2> QED
    BY <2>1, <2>2 DEF FlattensBehind
<1>3. \A n \in Nat : n \in S
  <2> HIDE DEF S
  <2> QED
    BY <1>1, <1>2, Induction
<1> HIDE DEF S
<1>4. Len(r) \in Nat /\ Len(r) \in S
  <2>1. Len(r) \in Nat
    OBVIOUS
  <2> QED
    BY <1>3, <2>1
<1> QED
  BY <1>4 DEF S, FlattensBehind

\* Induction on a sequence, one element at its end at a time.
LEMMA SequenceInduction ==
  ASSUME NEW E, NEW S, << >> \in S,
         \A q \in Seq(E), e \in E : q \in S => Append(q, e) \in S
  PROVE  \A q \in Seq(E) : q \in S
<1> DEFINE N == {n \in Nat : \A q \in Seq(E) : Len(q) = n => q \in S}
<1>1. 0 \in N
  <2>1. \A q \in Seq(E) : Len(q) = 0 => q = << >>
    OBVIOUS
  <2> QED
    BY <2>1
<1>2. ASSUME NEW n \in Nat, n \in N PROVE n + 1 \in N
  <2>1. ASSUME NEW q \in Seq(E), Len(q) = n + 1 PROVE q \in S
    <3> DEFINE c == SubSeq(q, 1, n)
               e == q[n + 1]
    <3>1. c \in Seq(E) /\ Len(c) = n /\ e \in E /\ q = Append(c, e)
      BY <2>1
    <3> HIDE DEF c, e
    <3>2. c \in S
      BY <1>2, <3>1
    <3> QED
      BY <3>1, <3>2
  <2> QED
    BY <2>1
<1>3. \A n \in Nat : n \in N
  <2> HIDE DEF N
  <2> QED
    BY <1>1, <1>2, Induction
<1>4. \A q \in Seq(E) : Len(q) \in Nat
  OBVIOUS
<1> QED
  BY <1>3, <1>4

\* Nothing but empty sequences.
LEMMA FlattenEmpties ==
  ASSUME NEW T, NEW r \in Seq({<< >>})
  PROVE  FlattenSeq(r) = << >>
<1> DEFINE S == {q \in Seq({<< >>}) : FlattenSeq(q) = << >>}
<1>1. << >> \in S
  BY FlattenNothing
<1>2. ASSUME NEW q \in Seq({<< >>}), NEW e \in {<< >>}, q \in S PROVE Append(q, e) \in S
  <2>1. q \in Seq(Seq(T)) /\ e \in Seq(T) /\ e = << >> /\ Append(q, e) \in Seq({<< >>})
    <3>1. << >> \in Seq(T)
      OBVIOUS
    <3>2. \A x \in {<< >>} : x \in Seq(T)
      BY <3>1
    <3>3. q \in Seq(Seq(T))
      BY <3>2, SeqMonotonic
    <3>4. Append(q, e) \in Seq({<< >>})
      BY AppendProperties
    <3> QED
      BY <3>1, <3>3, <3>4
  <2>2. FlattenSeq(Append(q, e)) = FlattenSeq(q) \o e
    BY <2>1, FlattenAppend
  <2>3. FlattenSeq(q) = << >> /\ << >> \o << >> = << >>
    BY <1>2
  <2> QED
    BY <2>1, <2>2, <2>3
<1>3. \A q \in Seq({<< >>}) : q \in S
  <2> HIDE DEF S
  <2> QED
    BY <1>1, <1>2, SequenceInduction
<1> QED
  BY <1>3

\* Nothing but pairs.
LEMMA FlattenPairs ==
  ASSUME NEW T, NEW r \in Seq({s \in Seq(T) : Len(s) = 2})
  PROVE  FlattenSeq(r) \in Seq(T) /\ Len(FlattenSeq(r)) = 2 * Len(r)
<1> DEFINE E == {s \in Seq(T) : Len(s) = 2}
           P(q) == FlattenSeq(q) \in Seq(T) /\ Len(FlattenSeq(q)) = 2 * Len(q)
           S == {q \in Seq(E) : P(q)}
<1>1. << >> \in S
  <2>1. << >> \in Seq(E) /\ << >> \in Seq(T) /\ Len(<< >>) = 0
    OBVIOUS
  <2> DEFINE f == FlattenSeq(<< >>)
  <2>2. f = << >>
    BY FlattenNothing
  <2> HIDE DEF f
  <2>3. f \in Seq(T) /\ Len(f) = 2 * Len(<< >>)
    BY <2>1, <2>2
  <2>4. P(<< >>)
    BY <2>3 DEF f
  <2> QED
    BY <2>1, <2>4
<1>2. ASSUME NEW q \in Seq(E), NEW e \in E, q \in S PROVE Append(q, e) \in S
  <2>1. /\ q \in Seq(Seq(T)) /\ e \in Seq(T) /\ Len(e) = 2 /\ Append(q, e) \in Seq(E)
        /\ Len(q) \in Nat /\ Len(Append(q, e)) = Len(q) + 1
    OBVIOUS
  <2>2. FlattenSeq(Append(q, e)) = FlattenSeq(q) \o e
    BY <2>1, FlattenAppend
  <2>3. P(q)
    BY <1>2
  <2> DEFINE f == FlattenSeq(q)
  <2>4. f \in Seq(T) /\ Len(f) = 2 * Len(q)
    BY <2>3
  <2> HIDE DEF f
  <2>5. f \o e \in Seq(T) /\ Len(f \o e) = Len(f) + Len(e)
    BY <2>1, <2>4, ConcatProperties
  <2>6. Len(f \o e) = 2 * Len(Append(q, e))
    BY <2>1, <2>4, <2>5
  <2>7. P(Append(q, e))
    BY <2>2, <2>5, <2>6 DEF f
  <2> HIDE DEF P, E
  <2> QED
    BY <2>1, <2>7
<1>3. \A q \in Seq(E) : q \in S
  <2> HIDE DEF S, E
  <2> QED
    BY <1>1, <1>2, SequenceInduction
<1> QED
  BY <1>3
=============================================================================
