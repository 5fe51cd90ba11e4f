--------------------------- MODULE FoldInduction ---------------------------
(***************************************************************************)
(* What a fold over a sequence keeps, for any step: a set that the step    *)
(* does not leave, a relation between two folds, and that folds compose.   *)
(* The step is the module's parameter: a module that folds with a step of  *)
(* its own instantiates this one, and cites the theorems of the instance.  *)
(*                                                                         *)
(* FoldLeft is a recursive function over the sets of indices.  That the    *)
(* function exists, and that its values stay in a set the step keeps, is   *)
(* shown by the least length at which it would not be so.                  *)
(***************************************************************************)
EXTENDS SequencesExt, WellFoundedInduction, TLAPS

\* One step of the fold: from w, with the element a, in a context c.
CONSTANT Op(_, _, _)

Fold(c, w, seq) == FoldLeft(LAMBDA x, a : Op(c, x, a), w, seq)

\* The recursive function that FoldLeft stands for, on the indices S.
Folded(c, w, seq, S, f) ==
    f = [s \in SUBSET S |->
            IF s = {} THEN w ELSE Op(c, f[s \ {Max(s)}], seq[Max(s)])]

-----------------------------------------------------------------------------
\* A set of naturals that is not empty has a least element.
LEMMA LeastNatural ==
  ASSUME NEW T, T \subseteq Nat, T # {}
  PROVE  \E x \in T : \A y \in T : x <= y
<1> DEFINE R == OpToRel(<, Nat)
<1>1. IsWellFoundedOn(R, Nat)
  BY NatLessThanWellFounded
<1>2. \A x, y \in Nat : x < y => <<x, y>> \in R
  BY DEF OpToRel
<1> HIDE DEF R
<1>3. PICK x \in T : \A y \in T : ~ (<<y, x>> \in R)
  BY <1>1, WFMin
<1>4. \A y \in T : ~ (y < x)
  BY <1>2, <1>3
<1> QED
  BY <1>3, <1>4

\* A set of indices that is not empty has a greatest one.
LEMMA GreatestIndex ==
  ASSUME NEW n \in Nat, NEW s, s \subseteq 1 .. n, s # {}
  PROVE  Max(s) \in s /\ \A y \in s : y <= Max(s)
<1> DEFINE T == {n - x : x \in s}
<1>1. T \subseteq Nat /\ T # {}
  <2>1. \A x \in s : n - x \in Nat
    OBVIOUS
  <2> QED
    BY <2>1
<1>2. PICK t \in T : \A u \in T : t <= u
  BY <1>1, LeastNatural
<1>3. PICK x \in s : t = n - x
  BY <1>2
<1>4. \A y \in s : x >= y
  <2> TAKE y \in s
  <2>1. n - x <= n - y
    BY <1>2, <1>3
  <2> QED
    BY <2>1
<1> QED
  BY <1>3, <1>4 DEF Max

\* The function exists for every length.
LEMMA FoldedExists ==
  ASSUME NEW c, NEW w, NEW seq, NEW n \in Nat
  PROVE  \E f : Folded(c, w, seq, 1 .. n, f)
<1> DEFINE T == {k \in Nat : ~ \E f : Folded(c, w, seq, 1 .. k, f)}
<1> SUFFICES ASSUME T # {} PROVE FALSE
  OBVIOUS
<1>1. PICK m \in T : \A k \in T : m <= k
  BY LeastNatural
<1> HIDE DEF T
<1>0. m \in Nat
  BY <1>1 DEF T
<1>2. m # 0
  <2> DEFINE f == [s \in SUBSET (1 .. 0) |-> w]
  <2>1. \A s \in SUBSET (1 .. 0) : s = {}
    OBVIOUS
  <2>2. Folded(c, w, seq, 1 .. 0, f)
    BY <2>1 DEF Folded
  <2> QED
    BY <1>1, <2>2 DEF T
<1>3. PICK f : Folded(c, w, seq, 1 .. (m - 1), f)
  <2>1. m - 1 \in Nat /\ ~ (m <= m - 1)
    BY <1>0, <1>2
  <2> QED
    BY <1>1, <2>1 DEF T
<1> DEFINE g == [s \in SUBSET (1 .. m) |->
                    IF m \in s THEN Op(c, f[s \ {m}], seq[m]) ELSE f[s]]
<1>4. \A s \in SUBSET (1 .. (m - 1)) : s \in SUBSET (1 .. m) /\ m \notin s
  BY <1>0
<1>5. \A s \in SUBSET (1 .. m) :
          g[s] = IF s = {} THEN w ELSE Op(c, g[s \ {Max(s)}], seq[Max(s)])
  <2> TAKE s \in SUBSET (1 .. m)
  <2>1. CASE s = {}
    BY <1>3, <1>4, <2>1 DEF Folded
  <2>2. CASE m \in s
    <3>1. Max(s) \in s /\ \A y \in s : y <= Max(s)
      BY <1>0, <2>2, GreatestIndex
    <3>2. Max(s) = m
      <4> DEFINE x == Max(s)
      <4>1. x \in 1 .. m /\ m <= x
        BY <2>2, <3>1
      <4> HIDE DEF x
      <4>2. x = m
        BY <1>0, <4>1
      <4> QED
        BY <4>2 DEF x
    <3>3. s \ {m} \in SUBSET (1 .. m) /\ m \notin s \ {m}
      OBVIOUS
    <3> QED
      BY <2>2, <3>2, <3>3
  <2>3. CASE s # {} /\ m \notin s
    <3>1. Max(s) \in s
      BY <1>0, <2>3, GreatestIndex
    <3>2. s \in SUBSET (1 .. (m - 1)) /\ s \ {Max(s)} \in SUBSET (1 .. m)
             /\ m \notin s \ {Max(s)}
      <4>1. \A y \in s : y \in 1 .. m /\ y # m
        BY <2>3
      <4>2. \A y \in s : y \in 1 .. (m - 1)
        BY <1>0, <4>1
      <4> QED
        BY <4>1, <4>2
    <3>3. f[s] = Op(c, f[s \ {Max(s)}], seq[Max(s)])
      BY <1>3, <2>3, <3>2 DEF Folded
    <3> QED
      BY <2>3, <3>2, <3>3
  <2> QED
    BY <2>1, <2>2, <2>3
<1>6. Folded(c, w, seq, 1 .. m, g)
  <2>1. g = [s \in SUBSET (1 .. m) |-> g[s]]
    OBVIOUS
  <2> HIDE DEF g
  <2> QED
    BY <1>5, <2>1 DEF Folded
<1> QED
  BY <1>1, <1>6 DEF T

\* The value of the fold is the function's value at all the indices.
LEMMA FoldIsFolded ==
  ASSUME NEW c, NEW w, NEW seq, NEW n \in Nat, DOMAIN seq = 1 .. n
  PROVE  \E f : Folded(c, w, seq, 1 .. n, f) /\ Fold(c, w, seq) = f[1 .. n]
<1>1. \E f : Folded(c, w, seq, DOMAIN seq, f)
  BY FoldedExists
<1>2. \E f : Folded(c, w, seq, DOMAIN seq, f) /\ Fold(c, w, seq) = f[DOMAIN seq]
  BY <1>1 DEF Fold, FoldLeft, MapThenFoldSet, Folded
<1> QED
  BY <1>2

\* A fold stays in every set that its step does not leave.
LEMMA FoldKeeps ==
  ASSUME NEW c, NEW Good, NEW w \in Good, NEW n \in Nat, NEW seq, DOMAIN seq = 1 .. n,
         \A x \in Good : \A i \in 1 .. n : Op(c, x, seq[i]) \in Good
  PROVE  Fold(c, w, seq) \in Good
<1>1. PICK f : Folded(c, w, seq, 1 .. n, f) /\ Fold(c, w, seq) = f[1 .. n]
  BY FoldIsFolded
<1> DEFINE T == {k \in Nat : k <= n /\ \E s \in SUBSET (1 .. k) : f[s] \notin Good}
<1>2. T = {}
  <2> SUFFICES ASSUME T # {} PROVE FALSE
    OBVIOUS
  <2>1. PICK k \in T : \A j \in T : k <= j
    BY LeastNatural
  <2> HIDE DEF T
  <2>2. PICK s \in SUBSET (1 .. k) : f[s] \notin Good
    BY <2>1 DEF T
  <2>3. s \in SUBSET (1 .. n) /\ k \in Nat
    BY <2>1 DEF T
  <2>4. s # {} /\ f[s] = Op(c, f[s \ {Max(s)}], seq[Max(s)])
    BY <1>1, <2>2, <2>3 DEF Folded
  <2> DEFINE x == Max(s)
  <2>5. x \in s /\ \A y \in s : y <= x
    BY <2>3, <2>4, GreatestIndex
  <2> HIDE DEF x
  <2>6. x - 1 \in Nat /\ x - 1 < k /\ x - 1 <= n /\ x \in 1 .. n
    BY <2>1, <2>3, <2>5
  <2>7. s \ {x} \in SUBSET (1 .. (x - 1))
    BY <2>3, <2>5, <2>6
  <2>8. x - 1 \notin T
    <3>1. ~ (k <= x - 1)
      BY <2>3, <2>6
    <3> QED
      BY <2>1, <3>1
  <2>9. f[s \ {x}] \in Good
    BY <2>6, <2>7, <2>8 DEF T
  <2> QED
    BY <2>2, <2>4, <2>6, <2>9 DEF x
<1>3. f[1 .. n] \notin Good => n \in T
  OBVIOUS
<1> QED
  BY <1>1, <1>2, <1>3

-----------------------------------------------------------------------------
(* The values a fold runs through, from the first to the last element.     *)

Run(c, w, seq, n, x) ==
    x[0] = w /\ \A k \in 1 .. n : x[k] = Op(c, x[k - 1], seq[k])

\* What holds at 0 and is handed on holds up to n.
LEMMA UpTo ==
  ASSUME NEW n \in Nat, NEW T, 0 \in T, \A k \in 1 .. n : k - 1 \in T => k \in T
  PROVE  0 .. n \subseteq T
<1> DEFINE Not == {k \in 0 .. n : k \notin T}
<1> SUFFICES ASSUME Not # {} PROVE FALSE
  OBVIOUS
<1>1. Not \subseteq Nat
  OBVIOUS
<1>2. PICK m \in Not : \A k \in Not : m <= k
  BY <1>1, LeastNatural
<1>3. m \in 1 .. n /\ m \notin T
  <2>1. m \in 0 .. n /\ m # 0
    OBVIOUS
  <2> QED
    BY <2>1
<1>4. m - 1 \in 0 .. n /\ ~ (m <= m - 1)
  BY <1>3
<1>5. m - 1 \in T
  BY <1>2, <1>4
<1> QED
  BY <1>3, <1>5

\* The fold is the last of the values it runs through.
LEMMA FoldRuns ==
  ASSUME NEW c, NEW w, NEW seq, NEW n \in Nat, DOMAIN seq = 1 .. n
  PROVE  \E x : Run(c, w, seq, n, x) /\ Fold(c, w, seq) = x[n]
<1>1. PICK f : Folded(c, w, seq, 1 .. n, f) /\ Fold(c, w, seq) = f[1 .. n]
  BY FoldIsFolded
<1> DEFINE x == [k \in 0 .. n |-> f[1 .. k]]
<1>2. x[0] = w
  <2>1. 1 .. 0 = {} /\ {} \in SUBSET (1 .. n) /\ 0 \in 0 .. n
    OBVIOUS
  <2> QED
    BY <1>1, <2>1 DEF Folded
<1>3. ASSUME NEW k \in 1 .. n PROVE x[k] = Op(c, x[k - 1], seq[k])
  <2> DEFINE s == 1 .. k
  <2>1. s \in SUBSET (1 .. n) /\ s # {} /\ k \in s /\ \A y \in s : y <= k
    OBVIOUS
  <2>2. s \ {k} = 1 .. (k - 1)
    OBVIOUS
  <2> HIDE DEF s
  <2>3. Max(s) = k
    <3> DEFINE g == Max(s)
    <3>1. g \in s /\ k <= g
      BY <2>1, GreatestIndex
    <3> HIDE DEF g
    <3>2. g = k
      BY <2>1, <3>1
    <3> QED
      BY <3>2 DEF g
  <2>4. f[s] = Op(c, f[s \ {k}], seq[k])
    BY <1>1, <2>1, <2>3 DEF Folded
  <2>5. k \in 0 .. n /\ k - 1 \in 0 .. n
    OBVIOUS
  <2> QED
    BY <2>2, <2>4, <2>5 DEF s
<1>4. Fold(c, w, seq) = x[n]
  BY <1>1
<1> HIDE DEF x
<1> QED
  BY <1>2, <1>3, <1>4 DEF Run

\* A fold over nothing changes nothing.
LEMMA FoldNone ==
  ASSUME NEW c, NEW w, NEW seq, DOMAIN seq = {}
  PROVE  Fold(c, w, seq) = w
<1>1. DOMAIN seq = 1 .. 0
  OBVIOUS
<1> QED
  BY <1>1, FoldRuns DEF Run

\* A fold over one element is one step.
LEMMA FoldOne ==
  ASSUME NEW c, NEW w, NEW seq, DOMAIN seq = 1 .. 1
  PROVE  Fold(c, w, seq) = Op(c, w, seq[1])
<1>1. PICK x : Run(c, w, seq, 1, x) /\ Fold(c, w, seq) = x[1]
  BY FoldRuns
<1> QED
  BY <1>1 DEF Run

\* Two folds stay related if each two steps of them do.
LEMMA FoldRelates ==
  ASSUME NEW c, NEW d, NEW w, NEW v, NEW Rel, <<w, v>> \in Rel,
         NEW n \in Nat, NEW seq, DOMAIN seq = 1 .. n, NEW other, DOMAIN other = 1 .. n,
         \A x, y : \A i \in 1 .. n :
             <<x, y>> \in Rel => <<Op(c, x, seq[i]), Op(d, y, other[i])>> \in Rel
  PROVE  <<Fold(c, w, seq), Fold(d, v, other)>> \in Rel
<1>1. PICK x : Run(c, w, seq, n, x) /\ Fold(c, w, seq) = x[n]
  BY FoldRuns
<1>2. PICK y : Run(d, v, other, n, y) /\ Fold(d, v, other) = y[n]
  BY FoldRuns
<1> DEFINE T == {k \in 0 .. n : <<x[k], y[k]>> \in Rel}
<1>3. 0 \in T
  BY <1>1, <1>2 DEF Run
<1>4. ASSUME NEW k \in 1 .. n, k - 1 \in T PROVE k \in T
  <2>1. <<Op(c, x[k - 1], seq[k]), Op(d, y[k - 1], other[k])>> \in Rel
    BY <1>4
  <2> QED
    BY <1>1, <1>2, <2>1 DEF Run
<1>5. 0 .. n \subseteq T
  <2> HIDE DEF T
  <2> QED
    BY <1>3, <1>4, UpTo
<1>6. n \in 0 .. n
  OBVIOUS
<1> QED
  BY <1>1, <1>2, <1>5, <1>6

\* A fold over two sequences, one after the other, is a fold over the second
\* from where the fold over the first ends.
LEMMA FoldConcatenated ==
  ASSUME NEW c, NEW w, NEW S, NEW s \in Seq(S), NEW t \in Seq(S)
  PROVE  Fold(c, w, s \o t) = Fold(c, Fold(c, w, s), t)
<1> DEFINE m == Len(s)
           n == Len(t)
           st == s \o t
<1>1. /\ m \in Nat /\ n \in Nat /\ m + n \in Nat
      /\ DOMAIN s = 1 .. m /\ DOMAIN t = 1 .. n /\ DOMAIN st = 1 .. (m + n)
  OBVIOUS
<1>2. /\ \A k \in 1 .. m : st[k] = s[k]
      /\ \A k \in 1 .. n : st[m + k] = t[k]
  OBVIOUS
<1> HIDE DEF m, n, st
<1>3. PICK x : Run(c, w, st, m + n, x) /\ Fold(c, w, st) = x[m + n]
  BY <1>1, FoldRuns
<1>4. PICK y : Run(c, w, s, m, y) /\ Fold(c, w, s) = y[m]
  BY <1>1, FoldRuns
<1>5. PICK z : Run(c, Fold(c, w, s), t, n, z) /\ Fold(c, Fold(c, w, s), t) = z[n]
  BY <1>1, FoldRuns
<1> DEFINE T == {k \in 0 .. m : x[k] = y[k]}
           U == {k \in 0 .. n : x[m + k] = z[k]}
<1>6. 0 .. m \subseteq T
  <2>1. 0 \in T
    BY <1>1, <1>3, <1>4 DEF Run
  <2>2. ASSUME NEW k \in 1 .. m, k - 1 \in T PROVE k \in T
    <3>1. k \in 1 .. (m + n) /\ k \in 0 .. m
      BY <1>1
    <3>2. x[k] = Op(c, x[k - 1], st[k]) /\ y[k] = Op(c, y[k - 1], s[k])
      BY <1>3, <1>4, <3>1 DEF Run
    <3> QED
      BY <1>2, <2>2, <3>1, <3>2
  <2> HIDE DEF T
  <2> QED
    BY <1>1, <2>1, <2>2, UpTo
<1>7. 0 .. n \subseteq U
  <2>1. 0 \in U
    <3>1. m \in T
      BY <1>1, <1>6
    <3>2. z[0] = y[m] /\ 0 \in 0 .. n /\ m + 0 = m
      BY <1>1, <1>4, <1>5 DEF Run
    <3> QED
      BY <3>1, <3>2
  <2>2. ASSUME NEW k \in 1 .. n, k - 1 \in U PROVE k \in U
    <3>1. m + k \in 1 .. (m + n) /\ k \in 0 .. n /\ (m + k) - 1 = m + (k - 1)
      BY <1>1
    <3>2. x[m + k] = Op(c, x[(m + k) - 1], st[m + k]) /\ z[k] = Op(c, z[k - 1], t[k])
      BY <1>3, <1>5, <3>1 DEF Run
    <3> QED
      BY <1>2, <2>2, <3>1, <3>2
  <2> HIDE DEF U
  <2> QED
    BY <1>1, <2>1, <2>2, UpTo
<1>8. n \in U
  BY <1>1, <1>7
<1> QED
  BY <1>3, <1>5, <1>8 DEF st
=============================================================================
