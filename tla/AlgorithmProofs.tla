-------------------------- MODULE AlgorithmProofs --------------------------
(***************************************************************************)
(* Proofs about the algorithms, for inputs of any size.  Every set of      *)
(* numbers has a least one, as < is well-founded; so there is induction    *)
(* over the places of a sequence, and a fold goes through them one by one. *)
(***************************************************************************)
EXTENDS MCAlgorithms, FiniteSetTheorems, WellFoundedInduction, SequenceTheorems, TLAPS

(* Every set of numbers has a least one.                                   *)
LEMMA LeastNumber ==
  ASSUME NEW T, T \subseteq Nat, T # {}
  PROVE  \E x \in T : \A y \in T : x <= y
<1> DEFINE R == OpToRel(<, Nat)
<1>1. IsWellFoundedOn(R, Nat)
  BY NatLessThanWellFounded
<1>2. R = {ss \in Nat \X Nat : ss[1] < ss[2]}
  BY DEF OpToRel
<1> HIDE DEF R
<1>3. PICK x \in T : \A y \in T : ~ (<<y, x>> \in R)
  BY <1>1, WFMin
<1>4. ASSUME NEW y \in T PROVE x <= y
  <2>1. x \in Nat /\ y \in Nat
    OBVIOUS
  <2>2. <<y, x>> \notin R
    BY <1>3
  <2>3. ~(y < x)
    BY <1>2, <2>1, <2>2
  <2> QED
    BY <2>1, <2>3
<1> QED
  BY <1>4

(* Induction over the numbers up to n, of a set instead of a predicate.    *)
LEMMA Induction ==
  ASSUME NEW n \in Nat, NEW T, 0 \in T, \A k \in 0 .. n : k \in T /\ k < n => k + 1 \in T
  PROVE  0 .. n \subseteq T
<1> DEFINE U == {k \in 0 .. n : k \notin T}
<1>1. SUFFICES ASSUME U # {} PROVE FALSE
  OBVIOUS
<1>a. U \subseteq Nat
  OBVIOUS
<1>2. PICK x \in U : \A y \in U : x <= y
  <2> HIDE DEF U
  <2> QED
    BY <1>a, <1>1, LeastNumber
<1>3. x \in 0 .. n /\ x \notin T /\ x # 0
  OBVIOUS
<1>4. x - 1 \in 0 .. n /\ x - 1 \notin U
  BY <1>2, <1>3
<1> QED
  BY <1>3, <1>4

MaxOf(S) == CHOOSE x \in S : \A y \in S : x >= y

LEMMA MaxOfSet ==
  ASSUME NEW n \in Nat, NEW s \in SUBSET (1 .. n), s # {}
  PROVE  MaxOf(s) \in s /\ \A y \in s : MaxOf(s) >= y
<1> DEFINE T == {n - x : x \in s}
<1>a. \A x \in s : x \in 1 .. n
  OBVIOUS
<1>b. \A x \in 1 .. n : n - x \in Nat
  OBVIOUS
<1>c. T \subseteq Nat
  BY <1>a, <1>b
<1>1. PICK z : z \in s
  OBVIOUS
<1>d. T # {}
  BY <1>1
<1>2. PICK m \in T : \A y \in T : m <= y
  <2> HIDE DEF T
  <2> QED
    BY <1>c, <1>d, LeastNumber
<1>3. PICK x \in s : m = n - x
  OBVIOUS
<1>4. ASSUME NEW y \in s PROVE x >= y
  <2>1. n - x <= n - y
    BY <1>2, <1>3
  <2>2. x \in 1 .. n /\ y \in 1 .. n
    BY <1>a
  <2> HIDE DEF T
  <2> QED
    BY <2>1, <2>2
<1> HIDE DEF T
<1>5. \E v \in s : \A y \in s : v >= y
  BY <1>4
<1> QED
  BY <1>5 DEF MaxOf

LEMMA MaxOfUpTo ==
  ASSUME NEW n \in Nat, NEW k \in 1 .. n
  PROVE  MaxOf(1 .. k) = k /\ (1 .. k) \ {k} = 1 .. (k - 1) /\ 1 .. k # {} /\ 1 .. k \in SUBSET (1 .. n)
<1>1. 1 .. k \in SUBSET (1 .. n) /\ 1 .. k # {} /\ k \in 1 .. k
  OBVIOUS
<1>2. MaxOf(1 .. k) \in 1 .. k /\ MaxOf(1 .. k) >= k
  BY <1>1, MaxOfSet
<1>3. (1 .. k) \ {k} = 1 .. (k - 1)
  OBVIOUS
<1> QED
  BY <1>1, <1>2, <1>3

(* f is the function by which the first n steps of a fold are defined.     *)
IsFold(f, n, base, g) ==
  \A s \in SUBSET (1 .. n) : f[s] = IF s = {} THEN base ELSE g[MaxOf(s)][f[s \ {MaxOf(s)}]]

(* There is such a function.                                               *)
LEMMA FoldExists ==
  ASSUME NEW n \in Nat, NEW V, NEW base \in V, NEW g \in [1 .. n -> [V -> V]]
  PROVE  \E f \in [SUBSET (1 .. n) -> V] : IsFold(f, n, base, g)
<1> DEFINE Is(f, k) == \A s \in SUBSET (1 .. k) :
             f[s] = IF s = {} THEN base ELSE g[MaxOf(s)][f[s \ {MaxOf(s)}]]
           Has(k) == \E f \in [SUBSET (1 .. k) -> V] : Is(f, k)
           T == {k \in 0 .. n : Has(k)}
<1>1. 0 \in T
  <2> DEFINE f == [s \in SUBSET (1 .. 0) |-> base]
  <2>1. 1 .. 0 = {}
    OBVIOUS
  <2>2. f \in [SUBSET (1 .. 0) -> V] /\ Is(f, 0)
    BY <2>1
  <2>3. Has(0)
    <3> HIDE DEF f, Is
    <3> QED
      BY <2>2
  <2> HIDE DEF f, Is, Has
  <2> QED
    BY <2>3
<1>2. ASSUME NEW k \in 0 .. n, k \in T, k < n
      PROVE  k + 1 \in T
  <2>1. PICK f \in [SUBSET (1 .. k) -> V] : Is(f, k)
    BY <1>2
  <2> DEFINE e == [s \in SUBSET (1 .. k + 1) |->
                     IF s \in SUBSET (1 .. k) THEN f[s] ELSE g[k + 1][f[s \ {k + 1}]]]
  <2>2. ASSUME NEW s \in SUBSET (1 .. k + 1), s \notin SUBSET (1 .. k)
        PROVE  s \ {k + 1} \in SUBSET (1 .. k) /\ s # {} /\ MaxOf(s) = k + 1
    <3>1. k + 1 \in s /\ s # {}
      BY <2>2
    <3>a. k + 1 \in Nat /\ s \in SUBSET (1 .. (k + 1))
      OBVIOUS
    <3>2. MaxOf(s) \in s /\ \A y \in s : MaxOf(s) >= y
      <4> HIDE DEF e, T, Is
      <4> QED
        BY <3>1, <3>a, MaxOfSet
    <3>3. MaxOf(s) \in 1 .. (k + 1) /\ MaxOf(s) >= k + 1
      BY <3>1, <3>2
    <3>4. MaxOf(s) = k + 1
      <4> PICK v : v = MaxOf(s)
        OBVIOUS
      <4> HIDE DEF e, T, Is
      <4> QED
        BY <3>3
    <3>5. s \ {k + 1} \in SUBSET (1 .. k)
      <4>1. ASSUME NEW y \in s, y # k + 1 PROVE y \in 1 .. k
        <5>1. y \in 1 .. (k + 1)
          OBVIOUS
        <5> HIDE DEF e, T, Is
        <5> QED
          BY <4>1, <5>1
      <4> QED
        BY <4>1
    <3> QED
      BY <3>1, <3>4, <3>5
  <2>3. ASSUME NEW s \in SUBSET (1 .. k), s # {}
        PROVE  s \ {MaxOf(s)} \in SUBSET (1 .. k)
    OBVIOUS
  <2>4. e \in [SUBSET (1 .. k + 1) -> V]
    <3>1. ASSUME NEW s \in SUBSET (1 .. k + 1) PROVE e[s] \in V
      <4>1. CASE s \in SUBSET (1 .. k)
        BY <4>1
      <4>2. CASE s \notin SUBSET (1 .. k)
        <5>1. f[s \ {k + 1}] \in V /\ g[k + 1] \in [V -> V]
          BY <2>2, <4>2, <1>2
        <5> QED
          BY <4>2, <5>1
      <4> QED
        BY <4>1, <4>2
    <3> QED
      BY <3>1
  <2>5. Is(e, k + 1)
    <3>1. SUFFICES ASSUME NEW s \in SUBSET (1 .. k + 1)
                   PROVE  e[s] = IF s = {} THEN base ELSE g[MaxOf(s)][e[s \ {MaxOf(s)}]]
      OBVIOUS
    <3>2. \A t \in SUBSET (1 .. k) : t \in SUBSET (1 .. k + 1) /\ e[t] = f[t]
      OBVIOUS
    <3>3. CASE s \in SUBSET (1 .. k)
      <4>1. e[s] = f[s] /\ f[s] = IF s = {} THEN base ELSE g[MaxOf(s)][f[s \ {MaxOf(s)}]]
        BY <2>1, <3>2, <3>3
      <4>2. s # {} => e[s \ {MaxOf(s)}] = f[s \ {MaxOf(s)}]
        BY <2>3, <3>2, <3>3
      <4> HIDE DEF e
      <4> QED
        BY <4>1, <4>2
    <3>4. CASE s \notin SUBSET (1 .. k)
      <4>1. s \ {k + 1} \in SUBSET (1 .. k) /\ s # {} /\ MaxOf(s) = k + 1
        BY <2>2, <3>4
      <4>2. e[s] = g[k + 1][f[s \ {k + 1}]]
        BY <3>4
      <4>3. e[s \ {k + 1}] = f[s \ {k + 1}]
        BY <3>2, <4>1
      <4> HIDE DEF e
      <4> QED
        BY <4>1, <4>2, <4>3
    <3> QED
      BY <3>3, <3>4
  <2> HIDE DEF e, Is
  <2> QED
    BY <1>2, <2>4, <2>5
<1>3. n \in T
  <2> HIDE DEF T
  <2>1. 0 .. n \subseteq T
    BY <1>1, <1>2, Induction
  <2> QED
    BY <2>1
<1> QED
  BY <1>3 DEF IsFold

(* iter goes through the n steps of a fold, as long as they stay in V.      *)
IsIter(iter, n, V, base, g) ==
  /\ iter[{}] = base
  /\ \A k \in 1 .. n : iter[1 .. (k - 1)] \in V => iter[1 .. k] = g[k][iter[1 .. (k - 1)]]

(* h[k] is the value after k steps.                                        *)
AreSteps(h, n, base, g) ==
  /\ h[0] = base
  /\ \A k \in 1 .. n : h[k] = g[k][h[k - 1]]

Ends(iter, n, V, base, g) ==
  \E h \in [0 .. n -> V] : AreSteps(h, n, base, g) /\ h[n] = iter[1 .. n]

(* A fold from left to right goes through values of V, one for each place.  *)
LEMMA FoldSteps ==
  ASSUME NEW n \in Nat, NEW V, NEW base \in V, NEW g \in [1 .. n -> [V -> V]], NEW iter,
         IsIter(iter, n, V, base, g)
  PROVE  Ends(iter, n, V, base, g)
<1> DEFINE h == [k \in 0 .. n |-> iter[1 .. k]]
           T == {k \in 0 .. n : iter[1 .. k] \in V}
<1>1. iter[1 .. 0] = base
  <2>1. 1 .. 0 = {}
    OBVIOUS
  <2> QED
    BY <2>1 DEF IsIter
<1>3. 0 .. n \subseteq T
  <2>1. 0 \in T
    BY <1>1
  <2>2. ASSUME NEW k \in 0 .. n, k \in T, k < n PROVE k + 1 \in T
    <3>1. k + 1 \in 1 .. n /\ (k + 1) - 1 = k
      BY <2>2
    <3>3. iter[1 .. k] \in V /\ g[k + 1] \in [V -> V]
      BY <2>2, <3>1
    <3>2. iter[1 .. (k + 1)] = g[k + 1][iter[1 .. k]]
      BY <3>1, <3>3 DEF IsIter
    <3>4. iter[1 .. (k + 1)] \in V
      BY <3>2, <3>3
    <3>5. k + 1 \in 0 .. n
      BY <2>2
    <3> QED
      BY <3>4, <3>5
  <2> HIDE DEF T
  <2> QED
    BY <2>1, <2>2, Induction
<1>4. h \in [0 .. n -> V]
  BY <1>3
<1>5. h[0] = base
  BY <1>1
<1>6. ASSUME NEW k \in 1 .. n PROVE h[k] = g[k][h[k - 1]]
  <2>1. k \in 0 .. n /\ k - 1 \in 0 .. n
    OBVIOUS
  <2>2. h[k] = iter[1 .. k] /\ h[k - 1] = iter[1 .. (k - 1)]
    BY <2>1
  <2>3. iter[1 .. (k - 1)] \in V
    BY <1>3, <2>1
  <2> HIDE DEF h
  <2> QED
    BY <2>2, <2>3 DEF IsIter
<1>7. h[n] = iter[1 .. n]
  OBVIOUS
<1> HIDE DEF h
<1> QED
  BY <1>4, <1>5, <1>6, <1>7 DEF AreSteps, Ends

(* Each round of shiftLog is a copy of the logs as the round before left    *)
(* them.                                                                   *)
LEMMA ShiftedSteps ==
  ASSUME NEW rotation \in Nat, NEW l \in [0 .. rotation -> Int], NEW rounds \in 0 .. rotation
  PROVE  \E h \in [0 .. rounds -> [0 .. rotation -> Int]] :
           /\ h[0] = l
           /\ \A k \in 1 .. rounds : h[k] = Copy(h[k - 1], rotation, k - 1)
           /\ h[rounds] = Shifted(l, rotation, rounds)
<1> DEFINE V == [0 .. rotation -> Int]
           seq == [i \in 1 .. rounds |-> i - 1]
           g == [k \in 1 .. rounds |-> [v \in V |-> Copy(v, rotation, k - 1)]]
<1>1. ASSUME NEW k \in 1 .. rounds, NEW v \in V PROVE Copy(v, rotation, k - 1) \in V
  <2>1. FromEnd(rotation, k - 1) \in 0 .. rotation /\ FromEnd(rotation, k - 1) + 1 \in 0 .. rotation
    BY DEF FromEnd
  <2> QED
    BY <2>1 DEF Copy
<1>2. g \in [1 .. rounds -> [V -> V]]
  BY <1>1
<1>3. \A k \in 1 .. rounds, v \in V : g[k][v] = Copy(v, rotation, seq[k])
  OBVIOUS
<1>4. DOMAIN seq = 1 .. rounds
  OBVIOUS
<1> HIDE DEF seq
<1>5. PICK iter :
        /\ Shifted(l, rotation, rounds) = iter[DOMAIN seq]
        /\ iter = CHOOSE f : f = [s \in SUBSET (DOMAIN seq) |->
                    IF s = {} THEN l ELSE Copy(f[s \ {MaxOf(s)}], rotation, seq[MaxOf(s)])]
  BY DEF Shifted, FoldLeft, MapThenFoldSet, Max, MaxOf, seq
<1>6. \E f \in [SUBSET (1 .. rounds) -> V] : IsFold(f, rounds, l, g)
  <2> HIDE DEF g, V
  <2>1. rounds \in Nat
    OBVIOUS
  <2>2. l \in V
    BY DEF V
  <2> QED
    BY <1>2, <2>1, <2>2, FoldExists
<1>7. \A s \in SUBSET (1 .. rounds) : s # {} => MaxOf(s) \in 1 .. rounds /\ s \ {MaxOf(s)} \in SUBSET (1 .. rounds)
  <2>1. SUFFICES ASSUME NEW s \in SUBSET (1 .. rounds), s # {}
                 PROVE  MaxOf(s) \in 1 .. rounds /\ s \ {MaxOf(s)} \in SUBSET (1 .. rounds)
    OBVIOUS
  <2>2. rounds \in Nat
    OBVIOUS
  <2>3. MaxOf(s) \in s
    BY <2>1, <2>2, MaxOfSet
  <2> QED
    BY <2>3
<1> DEFINE Step(f) == [s \in SUBSET (DOMAIN seq) |->
                         IF s = {} THEN l ELSE Copy(f[s \ {MaxOf(s)}], rotation, seq[MaxOf(s)])]
<1>8. \E f : f = Step(f)
  <2>1. PICK f \in [SUBSET (1 .. rounds) -> V] : IsFold(f, rounds, l, g)
    BY <1>6
  <2>2. ASSUME NEW s \in SUBSET (1 .. rounds)
        PROVE  f[s] = IF s = {} THEN l ELSE Copy(f[s \ {MaxOf(s)}], rotation, seq[MaxOf(s)])
    <3>1. CASE s = {}
      BY <2>1, <3>1 DEF IsFold
    <3>2. CASE s # {}
      <4>1. f[s] = g[MaxOf(s)][f[s \ {MaxOf(s)}]]
        BY <2>1, <3>2 DEF IsFold
      <4>2. f[s \ {MaxOf(s)}] \in V /\ MaxOf(s) \in 1 .. rounds
        BY <1>7, <3>2
      <4> HIDE DEF g, V
      <4> QED
        BY <1>3, <3>2, <4>1, <4>2
    <3> QED
      BY <3>1, <3>2
  <2>3. f = Step(f)
    <3>1. DOMAIN f = DOMAIN Step(f) /\ f = [s \in DOMAIN f |-> f[s]]
      BY <1>4
    <3> QED
      BY <1>4, <2>2, <3>1
  <2> HIDE DEF Step
  <2> QED
    BY <2>3
<1>9. iter = Step(iter)
  <2>1. iter = CHOOSE f : f = Step(f)
    BY <1>5
  <2> HIDE DEF Step
  <2> QED
    BY <1>8, <2>1
<1>10. ASSUME NEW s \in SUBSET (1 .. rounds)
       PROVE  iter[s] = IF s = {} THEN l ELSE Copy(iter[s \ {MaxOf(s)}], rotation, seq[MaxOf(s)])
  BY <1>4, <1>9
<1>11. iter[{}] = l
  BY <1>10
<1>12. ASSUME NEW k \in 1 .. rounds, iter[1 .. (k - 1)] \in V
       PROVE  iter[1 .. k] = g[k][iter[1 .. (k - 1)]]
  <2>a. rounds \in Nat
    OBVIOUS
  <2>1. MaxOf(1 .. k) = k /\ (1 .. k) \ {k} = 1 .. (k - 1) /\ 1 .. k # {} /\ 1 .. k \in SUBSET (1 .. rounds)
    BY <2>a, MaxOfUpTo
  <2>2. iter[1 .. k] = Copy(iter[1 .. (k - 1)], rotation, seq[k])
    BY <1>10, <2>1
  <2> QED
    BY <1>3, <1>12, <2>2
<1>13. PICK h \in [0 .. rounds -> V] : AreSteps(h, rounds, l, g) /\ h[rounds] = iter[1 .. rounds]
  <2>1. rounds \in Nat /\ l \in V
    BY DEF V
  <2> HIDE DEF g, V, Step
  <2>2. IsIter(iter, rounds, V, l, g)
    BY <1>11, <1>12 DEF IsIter
  <2>3. Ends(iter, rounds, V, l, g)
    BY <1>2, <2>1, <2>2, FoldSteps
  <2> QED
    BY <2>3 DEF Ends
<1>14. \A k \in 1 .. rounds : h[k] = Copy(h[k - 1], rotation, k - 1)
  <2>1. SUFFICES ASSUME NEW k \in 1 .. rounds PROVE h[k] = Copy(h[k - 1], rotation, k - 1)
    OBVIOUS
  <2>2. k - 1 \in 0 .. rounds
    OBVIOUS
  <2>3. h[k - 1] \in V
    BY <2>2
  <2> HIDE DEF V
  <2> QED
    BY <1>3, <1>13, <2>3 DEF AreSteps, seq
<1> HIDE DEF g, Step
<1> QED
  BY <1>4, <1>5, <1>13, <1>14 DEF AreSteps

------------------------------------------------------------------------------
(* What the n-th log is after some rounds: the log before it, if there was  *)
(* one and its turn has come.                                              *)
IsShifted(m, l, rotation, rounds) ==
  \A n \in 0 .. rotation :
    m[n] = IF n > rotation - rounds /\ l[n - 1] # NoLog THEN l[n - 1] ELSE l[n]

IsCopied(c, l, rotation, i) ==
  \A n \in 0 .. rotation : c[n] = IF n = rotation - i /\ l[n - 1] # NoLog THEN l[n - 1] ELSE l[n]

LEMMA CopyIs ==
  ASSUME NEW rotation \in Nat, NEW l \in [0 .. rotation -> Int], NEW i \in 0 .. rotation - 1
  PROVE  /\ Copy(l, rotation, i) \in [0 .. rotation -> Int]
         /\ IsCopied(Copy(l, rotation, i), l, rotation, i)
<1> DEFINE from == FromEnd(rotation, i)
<1>1. from = rotation - i - 1 /\ from \in 0 .. rotation /\ from + 1 \in 0 .. rotation /\ from + 1 = rotation - i
  BY DEF FromEnd
<1>2. \A n \in 0 .. rotation : n = rotation - i <=> n = from + 1
  BY <1>1
<1>3. (from + 1) - 1 = from
  BY <1>1
<1>4. Copy(l, rotation, i) = IF l[from] = NoLog THEN l ELSE [l EXCEPT ![from + 1] = l[from]]
  BY DEF Copy
<1> HIDE DEF from
<1>5. CASE l[from] = NoLog
  BY <1>1, <1>2, <1>3, <1>4, <1>5 DEF IsCopied
<1>6. CASE l[from] # NoLog
  BY <1>1, <1>2, <1>3, <1>4, <1>6 DEF IsCopied
<1> QED
  BY <1>5, <1>6

LEMMA ShiftedIs ==
  ASSUME NEW rotation \in Nat, NEW l \in [0 .. rotation -> Int], NEW rounds \in 0 .. rotation
  PROVE  /\ Shifted(l, rotation, rounds) \in [0 .. rotation -> Int]
         /\ IsShifted(Shifted(l, rotation, rounds), l, rotation, rounds)
<1>1. PICK h \in [0 .. rounds -> [0 .. rotation -> Int]] :
        /\ h[0] = l
        /\ \A k \in 1 .. rounds : h[k] = Copy(h[k - 1], rotation, k - 1)
        /\ h[rounds] = Shifted(l, rotation, rounds)
  BY ShiftedSteps
<1> DEFINE T == {k \in 0 .. rounds : IsShifted(h[k], l, rotation, k)}
<1>2. 0 \in T
  <2>1. IsShifted(l, l, rotation, 0)
    BY DEF IsShifted
  <2> QED
    BY <1>1, <2>1
<1>3. ASSUME NEW k \in 0 .. rounds, k \in T, k < rounds PROVE k + 1 \in T
  <2>1. k + 1 \in 1 .. rounds /\ k + 1 \in 0 .. rounds /\ (k + 1) - 1 = k /\ k \in 0 .. rotation - 1
    BY <1>3
  <2>2. h[k + 1] = Copy(h[k], rotation, k)
    BY <1>1, <2>1
  <2>3. PICK m \in [0 .. rotation -> Int] : m = h[k]
    OBVIOUS
  <2>4. PICK c \in [0 .. rotation -> Int] :
          /\ c = h[k + 1]
          /\ IsCopied(c, m, rotation, k)
    BY <2>1, <2>2, <2>3, CopyIs
  <2>5. IsShifted(m, l, rotation, k)
    BY <1>3, <2>3
  <2>6. ASSUME NEW n \in 0 .. rotation
        PROVE  c[n] = IF n > rotation - (k + 1) /\ l[n - 1] # NoLog THEN l[n - 1] ELSE l[n]
    <3>1. CASE n = rotation - k
      <4>1. n - 1 \in 0 .. rotation /\ ~(n - 1 > rotation - k) /\ ~(n > rotation - k) /\ n > rotation - (k + 1)
        BY <2>1, <3>1
      <4>2. m[n - 1] = l[n - 1] /\ m[n] = l[n]
        BY <2>5, <4>1 DEF IsShifted
      <4> QED
        BY <2>4, <3>1, <4>1, <4>2 DEF IsCopied
    <3>2. CASE n # rotation - k
      <4>1. n > rotation - (k + 1) <=> n > rotation - k
        BY <2>1, <3>2
      <4>2. c[n] = m[n]
        BY <2>4, <3>2 DEF IsCopied
      <4> QED
        BY <2>5, <4>1, <4>2 DEF IsShifted
    <3> QED
      BY <3>1, <3>2
  <2>7. IsShifted(h[k + 1], l, rotation, k + 1)
    BY <2>4, <2>6 DEF IsShifted
  <2> QED
    BY <2>1, <2>7
<1>4. rounds \in T
  <2>a. rounds \in Nat /\ rounds \in 0 .. rounds
    OBVIOUS
  <2> HIDE DEF T
  <2>1. 0 .. rounds \subseteq T
    BY <1>2, <1>3, <2>a, Induction
  <2> QED
    BY <2>a, <2>1
<1>5. h[rounds] \in [0 .. rotation -> Int]
  OBVIOUS
<1> QED
  BY <1>1, <1>4, <1>5

(* No older log is below a newer one.                                      *)
NewestFirst(l, rotation) ==
  \A m, n \in 0 .. rotation : m < n /\ l[m] > 0 /\ l[n] > 0 => l[m] >= l[n]

LEMMA ShiftedNewestFirst ==
  ASSUME NEW rotation \in Nat, NEW l \in [0 .. rotation -> Int], NEW s \in [0 .. rotation -> Int],
         NEW r \in 0 .. rotation, IsShifted(s, l, rotation, r), NewestFirst(l, rotation)
  PROVE  NewestFirst(s, rotation)
<1>1. SUFFICES ASSUME NEW m \in 0 .. rotation, NEW n \in 0 .. rotation, m < n, s[m] > 0, s[n] > 0
               PROVE  s[m] >= s[n]
  BY DEF NewestFirst
<1>2. n - 1 \in 0 .. rotation /\ m <= n - 1
  BY <1>1
<1>3. s[m] = l[m] \/ (m > rotation - r /\ m - 1 \in 0 .. rotation /\ s[m] = l[m - 1])
  BY DEF IsShifted
<1>4. s[n] = l[n] \/ (n > rotation - r /\ s[n] = l[n - 1])
  BY DEF IsShifted
<1>5. \A i, j \in 0 .. rotation : i < j /\ l[i] > 0 /\ l[j] > 0 => l[i] >= l[j]
  BY DEF NewestFirst
<1>6. CASE s[m] = l[m]
  <2>1. l[m] > 0
    BY <1>1, <1>6
  <2>2. CASE s[n] = l[n]
    <3>1. l[n] > 0
      BY <1>1, <2>2
    <3>2. l[m] >= l[n]
      BY <1>1, <1>5, <2>1, <3>1
    <3> QED
      BY <1>6, <2>2, <3>2
  <2>3. CASE s[n] = l[n - 1]
    <3>1. l[n - 1] > 0
      BY <1>1, <2>3
    <3>2. m # n - 1 => l[m] >= l[n - 1]
      BY <1>2, <1>5, <2>1, <3>1
    <3>3. CASE m = n - 1
      <4>1. s[m] = s[n] /\ s[m] \in Int
        BY <1>6, <2>3, <3>3
      <4> QED
        BY <4>1
    <3> QED
      BY <1>6, <2>3, <3>2, <3>3
  <2> QED
    BY <1>4, <2>2, <2>3
<1>7. CASE m > rotation - r /\ m - 1 \in 0 .. rotation /\ s[m] = l[m - 1]
  <2>1. m - 1 < m /\ m - 1 < n - 1 /\ m - 1 < n
    BY <1>1, <1>2
  <2>2. l[m - 1] > 0
    BY <1>1, <1>7
  <2>3. CASE s[n] = l[n]
    <3>1. l[n] > 0
      BY <1>1, <2>3
    <3>2. l[m - 1] >= l[n]
      BY <1>5, <1>7, <2>1, <2>2, <3>1
    <3> QED
      BY <1>7, <2>3, <3>2
  <2>4. CASE s[n] = l[n - 1]
    <3>1. l[n - 1] > 0
      BY <1>1, <2>4
    <3>2. l[m - 1] >= l[n - 1]
      BY <1>2, <1>5, <1>7, <2>1, <2>2, <3>1
    <3> QED
      BY <1>7, <2>4, <3>2
  <2> QED
    BY <1>4, <2>3, <2>4
<1> QED
  BY <1>3, <1>6, <1>7

(* The logs of the runs that got to write one, of the last ones, are there; *)
(* starts is how the runs began, and k how many there were.                *)
RunIsKept(l, k, run) == \E n \in 0 .. k - run : l[n] = run

AtMost(l, rotation, k) == \A n \in 0 .. rotation : l[n] <= k

Kept(l, rotation, starts, k) ==
  /\ AtMost(l, rotation, k)
  /\ NewestFirst(l, rotation)
  /\ \A run \in 1 .. k : starts[run].rounds > rotation /\ k - run <= rotation => RunIsKept(l, k, run)

(* What Logger::open leaves: the logs shifted as far as it got, with the   *)
(* new log or what a copy that broke off left.                             *)
IsOpened(o, s, rotation, run, rounds, r) ==
  \/ rounds > rotation /\ r = rotation /\ o = [s EXCEPT ![0] = run]
  \/ /\ rounds <= rotation /\ r = rounds
     /\ \A n \in 0 .. rotation : o[n] = s[n] \/ (n = rotation - r /\ o[n] \in {NoLog, Half})

LEMMA OpenLogIs ==
  ASSUME NEW rotation \in Nat, NEW l \in [0 .. rotation -> Int], NEW run \in Int, NEW rounds \in Nat, NEW left
  PROVE  \E r \in 0 .. rotation : \E s \in [0 .. rotation -> Int] :
           /\ IsShifted(s, l, rotation, r)
           /\ OpenLog(l, rotation, run, rounds, left) \in [0 .. rotation -> Int]
           /\ IsOpened(OpenLog(l, rotation, run, rounds, left), s, rotation, run, rounds, r)
<1> DEFINE r == IF rounds > rotation THEN rotation ELSE rounds
           s == Shifted(l, rotation, r)
           o == OpenLog(l, rotation, run, rounds, left)
<1>1. r \in 0 .. rotation
  OBVIOUS
<1>2. s \in [0 .. rotation -> Int] /\ IsShifted(s, l, rotation, r)
  <2> HIDE DEF r
  <2> QED
    BY <1>1, ShiftedIs
<1>3. CASE rounds > rotation
  <2>1. o = [s EXCEPT ![0] = run] /\ r = rotation
    BY <1>3 DEF OpenLog
  <2> HIDE DEF o, r, s
  <2>2. o \in [0 .. rotation -> Int] /\ IsOpened(o, s, rotation, run, rounds, r)
    BY <1>2, <1>3, <2>1 DEF IsOpened
  <2>3. QED
    BY <1>1, <1>2, <2>2 DEF o
<1>4. CASE rounds <= rotation
  <2>1. r = rounds /\ ~(rounds > rotation) /\ ~(rotation < 0)
    BY <1>4
  <2>2. o = IF rounds < rotation /\ left \in {NoLog, Half} THEN BreakOff(s, rotation, rounds, left) ELSE s
    BY <2>1 DEF OpenLog
  <2>3. rounds < rotation => FromEnd(rotation, rounds) + 1 \in 0 .. rotation /\ FromEnd(rotation, rounds) + 1 = rotation - rounds
    BY DEF FromEnd
  <2> HIDE DEF o, r, s
  <2>4. o = s \/ (rounds < rotation /\ left \in {NoLog, Half} /\ o = [s EXCEPT ![rotation - rounds] = left])
    BY <2>2, <2>3 DEF BreakOff
  <2>5. NoLog \in Int /\ Half \in Int
    BY DEF NoLog, Half
  <2>6. CASE o = s
    BY <1>2, <1>4, <2>1, <2>6, <1>1 DEF IsOpened, o
  <2>7. CASE rounds < rotation /\ left \in {NoLog, Half} /\ o = [s EXCEPT ![rotation - rounds] = left]
    <3>1. left \in Int /\ rotation - rounds \in 0 .. rotation
      BY <2>5, <2>7
    <3>2. o \in [0 .. rotation -> Int]
      BY <1>2, <2>7, <3>1
    <3>3. \A n \in 0 .. rotation : o[n] = s[n] \/ (n = rotation - r /\ o[n] \in {NoLog, Half})
      BY <1>2, <2>1, <2>7, <3>1
    <3> QED
      BY <1>1, <1>2, <1>4, <2>1, <3>2, <3>3 DEF IsOpened, o
  <2> QED
    BY <2>4, <2>6, <2>7
<1>5. rounds > rotation \/ rounds <= rotation
  OBVIOUS
<1> HIDE DEF r, s, o
<1> QED
  BY <1>3, <1>4, <1>5

IsOpenedAt(o, s, rotation, run, rounds, r, n) ==
  \/ o[n] = s[n]
  \/ n = rotation - r /\ o[n] <= 0 /\ ~(rounds > rotation)
  \/ rounds > rotation /\ n = 0 /\ o[n] = run

LEMMA OpenedOfNumber ==
  ASSUME NEW rotation \in Nat, NEW o \in [0 .. rotation -> Int], NEW s \in [0 .. rotation -> Int],
         NEW r \in 0 .. rotation, NEW run \in Int, NEW rounds \in Nat, IsOpened(o, s, rotation, run, rounds, r),
         NEW n \in 0 .. rotation
  PROVE  IsOpenedAt(o, s, rotation, run, rounds, r, n)
<1>1. CASE rounds > rotation /\ r = rotation /\ o = [s EXCEPT ![0] = run]
  BY <1>1 DEF IsOpenedAt
<1>2. CASE /\ rounds <= rotation /\ r = rounds
           /\ \A i \in 0 .. rotation : o[i] = s[i] \/ (i = rotation - r /\ o[i] \in {NoLog, Half})
  <2>1. o[n] = s[n] \/ (n = rotation - r /\ o[n] \in {NoLog, Half})
    BY <1>2
  <2>2. o[n] \in {NoLog, Half} => o[n] <= 0
    BY DEF NoLog, Half
  <2> QED
    BY <1>2, <2>1, <2>2 DEF IsOpenedAt
<1> QED
  BY <1>1, <1>2 DEF IsOpened

LEMMA OpenedNumbers ==
  ASSUME NEW x \in Int, NEW y \in Int, NEW k \in Nat, y <= k, x = y \/ x <= 0 \/ x = k + 1
  PROVE  x <= k + 1 /\ (x > 0 => x = y \/ x = k + 1)
OBVIOUS

LEMMA OpenedNewestFirst ==
  ASSUME NEW rotation \in Nat, NEW l \in [0 .. rotation -> Int], NEW o \in [0 .. rotation -> Int],
         NEW s \in [0 .. rotation -> Int], NEW r \in 0 .. rotation, NEW k \in Nat, NEW rounds \in Nat,
         IsShifted(s, l, rotation, r), NewestFirst(l, rotation), AtMost(l, rotation, k),
         IsOpened(o, s, rotation, k + 1, rounds, r)
  PROVE  AtMost(o, rotation, k + 1) /\ NewestFirst(o, rotation)
<1>1. ASSUME NEW n \in 0 .. rotation PROVE s[n] <= k
  <2>2. s[n] = l[n] \/ (n - 1 \in 0 .. rotation /\ s[n] = l[n - 1])
    BY DEF IsShifted
  <2> QED
    BY <2>2 DEF AtMost
<1>2. NewestFirst(s, rotation)
  BY ShiftedNewestFirst
<1>4. ASSUME NEW n \in 0 .. rotation
      PROVE  o[n] = s[n] \/ o[n] <= 0 \/ (n = 0 /\ o[n] = k + 1)
  <2>1. k + 1 \in Int
    OBVIOUS
  <2>2. PICK run \in Int : run = k + 1
    BY <2>1
  <2>3. IsOpened(o, s, rotation, run, rounds, r)
    BY <2>2
  <2>4. IsOpenedAt(o, s, rotation, run, rounds, r, n)
    BY <2>3, OpenedOfNumber
  <2> QED
    BY <2>2, <2>4 DEF IsOpenedAt
<1>5. ASSUME NEW n \in 0 .. rotation
      PROVE  o[n] <= k + 1 /\ (o[n] > 0 => o[n] = s[n] \/ (n = 0 /\ o[n] = k + 1))
  <2>1. PICK x \in Int : x = o[n]
    OBVIOUS
  <2>2. PICK y \in Int : y = s[n]
    OBVIOUS
  <2>3. y <= k /\ (x = y \/ x <= 0 \/ x = k + 1)
    BY <1>1, <1>4, <2>1, <2>2
  <2>4. x <= k + 1 /\ (x > 0 => x = y \/ x = k + 1)
    BY <2>3, OpenedNumbers
  <2>5. o[n] = k + 1 => n = 0 \/ o[n] = s[n]
    BY <1>4, <2>1
  <2> QED
    BY <2>1, <2>2, <2>4, <2>5
<1>6. ASSUME NEW m \in 0 .. rotation, NEW n \in 0 .. rotation, m < n, o[m] > 0, o[n] > 0
      PROVE  o[m] >= o[n]
  <2>1. o[m] \in Int /\ o[n] \in Int /\ o[n] <= k + 1
    BY <1>5
  <2>2. CASE o[m] = k + 1
    BY <2>1, <2>2
  <2>3. CASE o[m] = s[m]
    <3>1. n # 0
      BY <1>6
    <3>2. o[n] = s[n]
      BY <1>5, <1>6, <3>1
    <3> QED
      BY <1>2, <1>6, <2>3, <3>2 DEF NewestFirst
  <2> QED
    BY <1>5, <1>6, <2>2, <2>3
<1> QED
  BY <1>5, <1>6 DEF NewestFirst, AtMost

(* The log of a run stays, at its place or at the next.                    *)
LEMMA RunStays ==
  ASSUME NEW rotation \in Nat, NEW l \in [0 .. rotation -> Int], NEW o \in [0 .. rotation -> Int],
         NEW s \in [0 .. rotation -> Int], NEW r \in 0 .. rotation, NEW k \in Nat, NEW rounds \in Nat,
         IsShifted(s, l, rotation, r), IsOpened(o, s, rotation, k + 1, rounds, r),
         NEW run \in 1 .. k, (k + 1) - run <= rotation, RunIsKept(l, k, run)
  PROVE  RunIsKept(o, k + 1, run)
<1>1. PICK n \in 0 .. k - run : l[n] = run
  BY DEF RunIsKept
<1>2. n \in 0 .. rotation /\ n + 1 \in 0 .. rotation /\ (n + 1) - 1 = n
  OBVIOUS
<1>3. n \in 0 .. (k + 1) - run /\ n + 1 \in 0 .. (k + 1) - run
  OBVIOUS
<1>4. PICK j \in Int : j = k + 1
  OBVIOUS
<1>5. IsOpened(o, s, rotation, j, rounds, r)
  BY <1>4
<1>6. \A i \in 0 .. rotation : IsOpenedAt(o, s, rotation, j, rounds, r, i)
  BY <1>5, OpenedOfNumber
<1>7. CASE n + 1 > rotation - r
  <2>1. s[n + 1] = run
    BY <1>1, <1>2, <1>7 DEF IsShifted, NoLog
  <2>2. n + 1 # rotation - r /\ n + 1 # 0
    BY <1>2, <1>7
  <2>3. o[n + 1] = s[n + 1]
    BY <1>2, <1>6, <2>2 DEF IsOpenedAt
  <2> QED
    BY <1>3, <2>1, <2>3 DEF RunIsKept
<1>8. CASE n + 1 <= rotation - r
  <2>1. ~(n > rotation - r) /\ n # rotation - r /\ r # rotation
    BY <1>2, <1>8
  <2>2. ~(rounds > rotation)
    BY <1>5, <2>1 DEF IsOpened
  <2>3. s[n] = run
    BY <1>1, <1>2, <2>1 DEF IsShifted
  <2>4. o[n] = s[n]
    BY <1>2, <1>6, <2>1, <2>2 DEF IsOpenedAt
  <2> QED
    BY <1>3, <2>3, <2>4 DEF RunIsKept
<1> QED
  BY <1>2, <1>7, <1>8

(* How a run begins, when rotation + 1 logs are kept.                      *)
Start(rotation) == [rounds : 0 .. rotation + 1, left : {NoLog, Half, Untouched}]

(* The logs after a run began.                                             *)
Opened(l, rotation, starts, k) == OpenLog(l, rotation, k, starts[k].rounds, starts[k].left)

LEMMA OpenedIsLogs ==
  ASSUME NEW rotation \in Int, NEW l \in [0 .. rotation -> Int], NEW n \in Nat,
         NEW starts \in [1 .. n -> Start(rotation)], NEW k \in 1 .. n
  PROVE  Opened(l, rotation, starts, k) \in [0 .. rotation -> Int]
<1>1. starts[k].rounds \in Nat /\ k \in Int
  BY DEF Start
<1>2. CASE rotation >= 0
  <2>1. rotation \in Nat
    BY <1>2
  <2> QED
    BY <1>1, <2>1, OpenLogIs DEF Opened
<1>3. CASE rotation < 0
  BY <1>3 DEF Opened, OpenLog
<1> QED
  BY <1>2, <1>3

LEMMA OpenLogKeeps ==
  ASSUME NEW rotation \in Nat, NEW l \in [0 .. rotation -> Int], NEW n \in Nat,
         NEW starts \in [1 .. n -> Start(rotation)], NEW k \in Nat, k < n, Kept(l, rotation, starts, k)
  PROVE  Kept(Opened(l, rotation, starts, k + 1), rotation, starts, k + 1)
<1>a. k + 1 \in 1 .. n
  OBVIOUS
<1>b. starts[k + 1] \in Start(rotation)
  BY <1>a
<1>1. PICK rounds \in Nat : rounds = starts[k + 1].rounds
  BY <1>b DEF Start
<1>2. PICK run \in Nat : run = k + 1
  OBVIOUS
<1>3. PICK o : o = OpenLog(l, rotation, run, rounds, starts[k + 1].left)
  OBVIOUS
<1>4. o = Opened(l, rotation, starts, k + 1)
  BY <1>1, <1>2, <1>3 DEF Opened
<1>5. PICK r \in 0 .. rotation : \E s \in [0 .. rotation -> Int] :
        /\ IsShifted(s, l, rotation, r)
        /\ o \in [0 .. rotation -> Int]
        /\ IsOpened(o, s, rotation, run, rounds, r)
  <2>1. run \in Int
    OBVIOUS
  <2> QED
    BY <1>3, <2>1, OpenLogIs
<1>6. PICK s \in [0 .. rotation -> Int] :
        /\ IsShifted(s, l, rotation, r)
        /\ o \in [0 .. rotation -> Int]
        /\ IsOpened(o, s, rotation, k + 1, rounds, r)
  BY <1>2, <1>5
<1>7. AtMost(o, rotation, k + 1) /\ NewestFirst(o, rotation)
  BY <1>6, OpenedNewestFirst DEF Kept
<1>8. ASSUME NEW j \in 1 .. k + 1, starts[j].rounds > rotation, (k + 1) - j <= rotation
      PROVE  RunIsKept(o, k + 1, j)
  <2>1. CASE j = k + 1
    <3>1. rounds > rotation
      BY <1>1, <1>8, <2>1
    <3>2. o[0] = k + 1
      BY <1>6, <3>1 DEF IsOpened
    <3>3. 0 \in 0 .. (k + 1) - j
      BY <2>1
    <3> QED
      BY <2>1, <3>2, <3>3 DEF RunIsKept
  <2>2. CASE j # k + 1
    <3>1. j \in 1 .. k
      BY <2>2
    <3>2. k - j <= rotation
      BY <1>8, <3>1
    <3>3. RunIsKept(l, k, j)
      BY <1>8, <3>1, <3>2 DEF Kept
    <3> QED
      BY <1>6, <1>8, <3>1, <3>3, RunStays
  <2> QED
    BY <2>1, <2>2
<1> QED
  BY <1>4, <1>7, <1>8 DEF Kept

(* The runs open their logs one after the other.                           *)
LEMMA LogsAfterSteps ==
  ASSUME NEW rotation \in Int, NEW n \in Nat, NEW starts \in [1 .. n -> Start(rotation)], Len(starts) = n
  PROVE  \E h \in [0 .. n -> [0 .. rotation -> Int]] :
           /\ h[0] = NoLogs(rotation)
           /\ \A k \in 1 .. n : h[k] = Opened(h[k - 1], rotation, starts, k)
           /\ h[n] = LogsAfter(rotation, starts)
<1> DEFINE V == [0 .. rotation -> Int]
           l == NoLogs(rotation)
           seq == [k \in 1 .. Len(starts) |-> k]
           g == [k \in 1 .. n |-> [v \in V |-> Opened(v, rotation, starts, k)]]
<1>0. l \in V
  BY DEF NoLogs, NoLog
<1>1. ASSUME NEW k \in 1 .. n, NEW v \in V PROVE Opened(v, rotation, starts, k) \in V
  BY OpenedIsLogs
<1>2. g \in [1 .. n -> [V -> V]]
  BY <1>1
<1>3. \A k \in 1 .. n, v \in V : g[k][v] = Opened(v, rotation, starts, seq[k])
  OBVIOUS
<1>4. DOMAIN seq = 1 .. n /\ \A k \in 1 .. n : seq[k] = k
  OBVIOUS
<1> HIDE DEF seq
<1>5. PICK iter :
        /\ LogsAfter(rotation, starts) = iter[DOMAIN seq]
        /\ iter = CHOOSE f : f = [s \in SUBSET (DOMAIN seq) |->
                    IF s = {} THEN l ELSE Opened(f[s \ {MaxOf(s)}], rotation, starts, seq[MaxOf(s)])]
  BY DEF LogsAfter, FoldLeft, MapThenFoldSet, Max, MaxOf, seq, Opened
<1>6. \E f \in [SUBSET (1 .. n) -> V] : IsFold(f, n, l, g)
  <2> HIDE DEF g, V, l
  <2>1. n \in Nat
    OBVIOUS
  <2>2. l \in V
    BY <1>0
  <2> QED
    BY <1>2, <2>1, <2>2, FoldExists
<1>7. \A s \in SUBSET (1 .. n) : s # {} => MaxOf(s) \in 1 .. n /\ s \ {MaxOf(s)} \in SUBSET (1 .. n)
  <2>1. SUFFICES ASSUME NEW s \in SUBSET (1 .. n), s # {}
                 PROVE  MaxOf(s) \in 1 .. n /\ s \ {MaxOf(s)} \in SUBSET (1 .. n)
    OBVIOUS
  <2>2. n \in Nat
    OBVIOUS
  <2>3. MaxOf(s) \in s
    BY <2>1, <2>2, MaxOfSet
  <2> QED
    BY <2>3
<1> DEFINE Step(f) == [s \in SUBSET (DOMAIN seq) |->
                         IF s = {} THEN l ELSE Opened(f[s \ {MaxOf(s)}], rotation, starts, seq[MaxOf(s)])]
<1>8. \E f : f = Step(f)
  <2>1. PICK f \in [SUBSET (1 .. n) -> V] : IsFold(f, n, l, g)
    BY <1>6
  <2>2. ASSUME NEW s \in SUBSET (1 .. n)
        PROVE  f[s] = IF s = {} THEN l ELSE Opened(f[s \ {MaxOf(s)}], rotation, starts, seq[MaxOf(s)])
    <3>1. CASE s = {}
      BY <2>1, <3>1 DEF IsFold
    <3>2. CASE s # {}
      <4>1. f[s] = g[MaxOf(s)][f[s \ {MaxOf(s)}]]
        BY <2>1, <3>2 DEF IsFold
      <4>2. f[s \ {MaxOf(s)}] \in V /\ MaxOf(s) \in 1 .. n
        BY <1>7, <3>2
      <4> HIDE DEF g, V, l
      <4> QED
        BY <1>3, <3>2, <4>1, <4>2
    <3> QED
      BY <3>1, <3>2
  <2>3. f = Step(f)
    <3>1. DOMAIN f = DOMAIN Step(f) /\ f = [s \in DOMAIN f |-> f[s]]
      BY <1>4
    <3> QED
      BY <1>4, <2>2, <3>1
  <2> HIDE DEF Step
  <2> QED
    BY <2>3
<1>9. iter = Step(iter)
  <2>1. iter = CHOOSE f : f = Step(f)
    BY <1>5
  <2> HIDE DEF Step
  <2> QED
    BY <1>8, <2>1
<1>10. ASSUME NEW s \in SUBSET (1 .. n)
       PROVE  iter[s] = IF s = {} THEN l ELSE Opened(iter[s \ {MaxOf(s)}], rotation, starts, seq[MaxOf(s)])
  BY <1>4, <1>9
<1>11. iter[{}] = l
  BY <1>10
<1>12. ASSUME NEW k \in 1 .. n, iter[1 .. (k - 1)] \in V
       PROVE  iter[1 .. k] = g[k][iter[1 .. (k - 1)]]
  <2>a. n \in Nat
    OBVIOUS
  <2>1. MaxOf(1 .. k) = k /\ (1 .. k) \ {k} = 1 .. (k - 1) /\ 1 .. k # {} /\ 1 .. k \in SUBSET (1 .. n)
    BY <2>a, MaxOfUpTo
  <2>2. iter[1 .. k] = Opened(iter[1 .. (k - 1)], rotation, starts, seq[k])
    BY <1>10, <2>1
  <2> QED
    BY <1>3, <1>12, <2>2
<1>13. PICK h \in [0 .. n -> V] : AreSteps(h, n, l, g) /\ h[n] = iter[1 .. n]
  <2>1. n \in Nat /\ l \in V
    BY <1>0
  <2> HIDE DEF g, V, l, Step
  <2>2. IsIter(iter, n, V, l, g)
    BY <1>11, <1>12 DEF IsIter
  <2>3. Ends(iter, n, V, l, g)
    BY <1>2, <2>1, <2>2, FoldSteps
  <2> QED
    BY <2>3 DEF Ends
<1>14. \A k \in 1 .. n : h[k] = Opened(h[k - 1], rotation, starts, k)
  <2>1. SUFFICES ASSUME NEW k \in 1 .. n PROVE h[k] = Opened(h[k - 1], rotation, starts, k)
    OBVIOUS
  <2>2. k - 1 \in 0 .. n
    OBVIOUS
  <2>3. h[k - 1] \in V
    BY <2>2
  <2> HIDE DEF V
  <2> QED
    BY <1>3, <1>4, <1>13, <2>3 DEF AreSteps
<1> HIDE DEF g, Step
<1> QED
  BY <1>4, <1>5, <1>13, <1>14 DEF AreSteps

LEMMA LogsAfterKept ==
  ASSUME NEW rotation \in Nat, NEW n \in Nat, NEW starts \in [1 .. n -> Start(rotation)], Len(starts) = n
  PROVE  LogsAfter(rotation, starts) \in [0 .. rotation -> Int] /\ Kept(LogsAfter(rotation, starts), rotation, starts, n)
<1>1. PICK h \in [0 .. n -> [0 .. rotation -> Int]] :
        /\ h[0] = NoLogs(rotation)
        /\ \A k \in 1 .. n : h[k] = Opened(h[k - 1], rotation, starts, k)
        /\ h[n] = LogsAfter(rotation, starts)
  <2>1. rotation \in Int
    OBVIOUS
  <2> QED
    BY <2>1, LogsAfterSteps
<1> DEFINE T == {k \in 0 .. n : Kept(h[k], rotation, starts, k)}
<1>2. 0 \in T
  <2>1. Kept(NoLogs(rotation), rotation, starts, 0)
    BY DEF Kept, AtMost, NewestFirst, NoLogs, NoLog
  <2> QED
    BY <1>1, <2>1
<1>3. ASSUME NEW k \in 0 .. n, k \in T, k < n PROVE k + 1 \in T
  <2>1. k + 1 \in 1 .. n /\ k + 1 \in 0 .. n /\ (k + 1) - 1 = k /\ k \in Nat
    BY <1>3
  <2>2. PICK l \in [0 .. rotation -> Int] : l = h[k]
    OBVIOUS
  <2>3. h[k + 1] = Opened(l, rotation, starts, k + 1)
    BY <1>1, <2>1, <2>2
  <2>4. Kept(l, rotation, starts, k)
    BY <1>3, <2>2
  <2>5. Kept(Opened(l, rotation, starts, k + 1), rotation, starts, k + 1)
    BY <1>3, <2>1, <2>4, OpenLogKeeps
  <2> QED
    BY <2>1, <2>3, <2>5
<1>4. n \in T
  <2>1. n \in 0 .. n
    OBVIOUS
  <2> HIDE DEF T
  <2>2. 0 .. n \subseteq T
    BY <1>2, <1>3, Induction
  <2> QED
    BY <2>1, <2>2
<1>5. h[n] \in [0 .. rotation -> Int]
  OBVIOUS
<1> QED
  BY <1>1, <1>4, <1>5

(* Where no log is kept, none is opened.                                   *)
LEMMA SequenceUpTo ==
  ASSUME NEW S, NEW n, NEW s \in UpTo(S, n)
  PROVE  Len(s) \in Nat /\ s \in [1 .. Len(s) -> S]
<1>1. PICK k \in 0 .. n : s \in [1 .. k -> S]
  BY DEF UpTo
<1>2. k \in Nat
  OBVIOUS
<1>3. s \in Seq(S)
  BY <1>1, <1>2, SeqDef
<1>4. Len(s) \in Nat /\ DOMAIN s = 1 .. Len(s)
  BY <1>3, LenProperties
<1>5. DOMAIN s = 1 .. k
  BY <1>1
<1> QED
  BY <1>1, <1>4, <1>5

(* What the input is when it is the starts of a worker.                    *)
StartsGiven ==
  input.of = "starts" =>
    \E rotation \in Int : \E starts \in UpTo([rounds : 0 .. rotation + 1, left : {NoLog, Half, Untouched}], MaxStarts) :
      input = [of |-> "starts", rotation |-> rotation, starts |-> starts]

LEMMA StartsGivenStep == Init => StartsGiven
BY DEF Init, None, StartsGiven

LEMMA StartsGivenNext == StartsGiven /\ [Next]_input => StartsGiven'
<1> SUFFICES ASSUME StartsGiven, [Next]_input PROVE StartsGiven'
  OBVIOUS
<1>1. CASE TakeStarts
  <2>1. PICK rotation \in -1 .. MaxRotation :
          \E starts \in UpTo([rounds : 0 .. rotation + 1, left : {NoLog, Half, Untouched}], MaxStarts) :
            input' = [of |-> "starts", rotation |-> rotation, starts |-> starts]
    BY <1>1 DEF TakeStarts
  <2>2. rotation \in Int
    OBVIOUS
  <2> QED
    BY <2>1, <2>2 DEF StartsGiven
<1>2. CASE TakeFrames
  BY <1>2 DEF TakeFrames, StartsGiven
<1>3. CASE TakeTree
  BY <1>3 DEF TakeTree, StartsGiven
<1>4. CASE TakeEnvirons
  <2>1. input'.of = "environs"
    BY <1>4 DEF TakeEnvirons
  <2> QED
    BY <2>1 DEF StartsGiven
<1>5. CASE TakePath
  <2>1. input'.of = "path"
    BY <1>5 DEF TakePath
  <2> QED
    BY <2>1 DEF StartsGiven
<1>6. CASE TakeFile
  <2>1. input'.of = "file"
    BY <1>6 DEF TakeFile
  <2> QED
    BY <2>1 DEF StartsGiven
<1>7. CASE UNCHANGED input
  BY <1>7 DEF StartsGiven
<1> QED
  BY <1>1, <1>2, <1>3, <1>4, <1>5, <1>6, <1>7 DEF Next

LEMMA StartsGivenKept == StartsGiven => LogsAreKept
<1> SUFFICES ASSUME StartsGiven, input.of = "starts" PROVE LogsAreKept
  BY DEF LogsAreKept
<1>1. PICK rotation \in Int :
        \E starts \in UpTo([rounds : 0 .. rotation + 1, left : {NoLog, Half, Untouched}], MaxStarts) :
          input = [of |-> "starts", rotation |-> rotation, starts |-> starts]
  BY DEF StartsGiven
<1>2. PICK starts \in UpTo(Start(rotation), MaxStarts) :
        input = [of |-> "starts", rotation |-> rotation, starts |-> starts]
  BY <1>1 DEF Start
<1>3. input.rotation = rotation /\ input.starts = starts
  BY <1>2
<1>4. Len(starts) \in Nat /\ starts \in [1 .. Len(starts) -> Start(rotation)]
  BY SequenceUpTo
<1> DEFINE logs == LogsAfter(rotation, starts)
           count == Len(starts)
<1>5. SUFFICES /\ \A run \in 1 .. count :
                    rotation >= 0 /\ starts[run].rounds > rotation /\ count - run <= rotation
                    => \E n \in 0 .. count - run : logs[n] = run
               /\ \A m, n \in DOMAIN logs : m < n /\ logs[m] > 0 /\ logs[n] > 0 => logs[m] >= logs[n]
  BY <1>3 DEF LogsAreKept
<1>6. CASE rotation >= 0
  <2>1. rotation \in Nat
    BY <1>6
  <2>2. logs \in [0 .. rotation -> Int] /\ Kept(logs, rotation, starts, count)
    BY <1>4, <2>1, LogsAfterKept
  <2> HIDE DEF logs, count
  <2>3. DOMAIN logs = 0 .. rotation
    BY <2>2
  <2> QED
    BY <2>2, <2>3 DEF Kept, RunIsKept, NewestFirst
<1>7. CASE rotation < 0
  <2>1. logs \in [0 .. rotation -> Int]
    <3>1. PICK h \in [0 .. count -> [0 .. rotation -> Int]] : h[count] = logs
      BY <1>4, LogsAfterSteps
    <3>2. count \in 0 .. count
      BY <1>4
    <3> QED
      BY <3>1, <3>2
  <2>2. DOMAIN logs = {}
    BY <1>7, <2>1
  <2> QED
    BY <1>7, <2>2
<1> QED
  BY <1>6, <1>7

(* The log of a run that got to write it is there after as many more starts *)
(* as logs are kept, wherever those died, and no older log is below a newer *)
(* one, for any number of logs and of starts (shiftLog, Logger::open).     *)
THEOREM LogsAreKeptCorrect == Spec => []LogsAreKept
<1>1. Init => StartsGiven
  BY StartsGivenStep
<1>2. StartsGiven /\ [Next]_input => StartsGiven'
  BY StartsGivenNext
<1>3. StartsGiven => LogsAreKept
  BY StartsGivenKept
<1> QED
  BY <1>1, <1>2, <1>3, PTL DEF Spec

------------------------------------------------------------------------------
(* S are names of files and directories.                                   *)
AreNames(S) == "." \notin S /\ ".." \notin S

Given(S) == S \cup {".", ".."}

LEMMA FrontIs ==
  ASSUME NEW S, NEW p \in Seq(S), p # <<>>
  PROVE  /\ Front(p) \in Seq(S)
         /\ Len(Front(p)) = Len(p) - 1
         /\ \A i \in 1 .. Len(p) - 1 : Front(p)[i] = p[i]
<1>1. Len(p) \in Nat \ {0}
  BY EmptySeq, LenProperties
<1>2. \A i \in 1 .. Len(p) - 1 : p[i] \in S
  BY <1>1, ElementOfSeq
<1>3. PICK n \in Nat : n = Len(p) - 1
  BY <1>1
<1>4. 1 \in Int /\ n \in Int /\ \A i \in 1 .. n : p[i] \in S
  BY <1>2, <1>3
<1>5. /\ SubSeq(p, 1, n) \in Seq(S)
      /\ Len(SubSeq(p, 1, n)) = IF 1 <= n THEN n - 1 + 1 ELSE 0
      /\ \A i \in 1 .. n - 1 + 1 : SubSeq(p, 1, n)[i] = p[1 + i - 1]
  BY <1>4, SubSeqProperties
<1>6. Front(p) = SubSeq(p, 1, n)
  BY <1>3 DEF Front
<1>7. n - 1 + 1 = n /\ \A i \in 1 .. n : 1 + i - 1 = i
  OBVIOUS
<1>8. Len(SubSeq(p, 1, n)) = n
  BY <1>5
<1>9. \A i \in 1 .. n : SubSeq(p, 1, n)[i] = p[i]
  BY <1>5, <1>7
<1> QED
  BY <1>3, <1>5, <1>6, <1>8, <1>9

LEMMA EnterIsPath ==
  ASSUME NEW S, NEW p \in Seq(S), NEW name \in Given(S)
  PROVE  Enter(p, name) \in Seq(S)
<1>1. CASE name = "."
  BY <1>1 DEF Enter
<1>2. CASE name = ".." /\ p = <<>>
  BY <1>2 DEF Enter
<1>3. CASE name = ".." /\ p # <<>>
  BY <1>3, FrontIs DEF Enter
<1>4. CASE name # "." /\ name # ".."
  BY <1>4, AppendProperties DEF Enter, Given
<1> QED
  BY <1>1, <1>2, <1>3, <1>4

(* A path is gone along name by name.                                      *)
LEMMA BelowSteps ==
  ASSUME NEW S, NEW directory \in Seq(S), NEW seq \in Seq(Given(S))
  PROVE  \E h \in [0 .. Len(seq) -> Seq(S)] :
           /\ h[0] = directory
           /\ \A k \in 1 .. Len(seq) : h[k] = Enter(h[k - 1], seq[k])
           /\ h[Len(seq)] = Below(directory, seq)
<1> DEFINE V == Seq(S)
           g == [k \in 1 .. Len(seq) |-> [v \in V |-> Enter(v, seq[k])]]
<1>4. DOMAIN seq = 1 .. Len(seq) /\ Len(seq) \in Nat
  BY LenProperties
<1>0. directory \in V /\ Len(seq) \in Nat
  BY <1>4
<1>1. ASSUME NEW k \in 1 .. Len(seq), NEW v \in V PROVE Enter(v, seq[k]) \in V
  BY ElementOfSeq, EnterIsPath
<1>2. g \in [1 .. Len(seq) -> [V -> V]]
  BY <1>1
<1>3. \A k \in 1 .. Len(seq), v \in V : g[k][v] = Enter(v, seq[k])
  OBVIOUS
<1>5. PICK iter :
        /\ Below(directory, seq) = iter[DOMAIN seq]
        /\ iter = CHOOSE f : f = [s \in SUBSET (DOMAIN seq) |->
                    IF s = {} THEN directory ELSE Enter(f[s \ {MaxOf(s)}], seq[MaxOf(s)])]
  BY DEF FoldLeft, MapThenFoldSet, Max, MaxOf, Below
<1>6. \E f \in [SUBSET (1 .. Len(seq)) -> V] : IsFold(f, Len(seq), directory, g)
  <2> HIDE DEF g, V
  <2> QED
    BY <1>0, <1>2, FoldExists
<1>7. \A s \in SUBSET (1 .. Len(seq)) : s # {} => MaxOf(s) \in 1 .. Len(seq) /\ s \ {MaxOf(s)} \in SUBSET (1 .. Len(seq))
  <2>1. SUFFICES ASSUME NEW s \in SUBSET (1 .. Len(seq)), s # {}
                 PROVE  MaxOf(s) \in 1 .. Len(seq) /\ s \ {MaxOf(s)} \in SUBSET (1 .. Len(seq))
    OBVIOUS
  <2>3. MaxOf(s) \in s
    BY <1>0, <2>1, MaxOfSet
  <2> QED
    BY <2>3
<1> DEFINE Step(f) == [s \in SUBSET (DOMAIN seq) |->
                         IF s = {} THEN directory ELSE Enter(f[s \ {MaxOf(s)}], seq[MaxOf(s)])]
<1>8. \E f : f = Step(f)
  <2>1. PICK f \in [SUBSET (1 .. Len(seq)) -> V] : IsFold(f, Len(seq), directory, g)
    BY <1>6
  <2>2. ASSUME NEW s \in SUBSET (1 .. Len(seq))
        PROVE  f[s] = IF s = {} THEN directory ELSE Enter(f[s \ {MaxOf(s)}], seq[MaxOf(s)])
    <3>1. CASE s = {}
      BY <2>1, <3>1 DEF IsFold
    <3>2. CASE s # {}
      <4>1. f[s] = g[MaxOf(s)][f[s \ {MaxOf(s)}]]
        BY <2>1, <3>2 DEF IsFold
      <4>2. f[s \ {MaxOf(s)}] \in V /\ MaxOf(s) \in 1 .. Len(seq)
        BY <1>7, <3>2
      <4> HIDE DEF g, V
      <4> QED
        BY <1>3, <3>2, <4>1, <4>2
    <3> QED
      BY <3>1, <3>2
  <2>3. f = Step(f)
    <3>1. DOMAIN f = DOMAIN Step(f) /\ f = [s \in DOMAIN f |-> f[s]]
      BY <1>4
    <3> QED
      BY <1>4, <2>2, <3>1
  <2> HIDE DEF Step
  <2> QED
    BY <2>3
<1>9. iter = Step(iter)
  <2>1. iter = CHOOSE f : f = Step(f)
    BY <1>5
  <2> HIDE DEF Step
  <2> QED
    BY <1>8, <2>1
<1>10. ASSUME NEW s \in SUBSET (1 .. Len(seq))
       PROVE  iter[s] = IF s = {} THEN directory ELSE Enter(iter[s \ {MaxOf(s)}], seq[MaxOf(s)])
  BY <1>4, <1>9
<1>11. iter[{}] = directory
  BY <1>10
<1>12. ASSUME NEW k \in 1 .. Len(seq), iter[1 .. (k - 1)] \in V
       PROVE  iter[1 .. k] = g[k][iter[1 .. (k - 1)]]
  <2>1. MaxOf(1 .. k) = k /\ (1 .. k) \ {k} = 1 .. (k - 1) /\ 1 .. k # {} /\ 1 .. k \in SUBSET (1 .. Len(seq))
    BY <1>0, MaxOfUpTo
  <2>2. iter[1 .. k] = Enter(iter[1 .. (k - 1)], seq[k])
    BY <1>10, <2>1
  <2> QED
    BY <1>3, <1>12, <2>2
<1>13. PICK h \in [0 .. Len(seq) -> V] : AreSteps(h, Len(seq), directory, g) /\ h[Len(seq)] = iter[1 .. Len(seq)]
  <2> HIDE DEF g, V, Step
  <2>2. IsIter(iter, Len(seq), V, directory, g)
    BY <1>11, <1>12 DEF IsIter
  <2>3. Ends(iter, Len(seq), V, directory, g)
    BY <1>0, <1>2, <2>2, FoldSteps
  <2> QED
    BY <2>3 DEF Ends
<1>14. \A k \in 1 .. Len(seq) : h[k] = Enter(h[k - 1], seq[k])
  <2>1. SUFFICES ASSUME NEW k \in 1 .. Len(seq) PROVE h[k] = Enter(h[k - 1], seq[k])
    OBVIOUS
  <2>2. k - 1 \in 0 .. Len(seq)
    OBVIOUS
  <2>3. h[k - 1] \in V
    BY <2>2
  <2> HIDE DEF V
  <2> QED
    BY <1>3, <1>13, <2>3 DEF AreSteps
<1> HIDE DEF g, Step
<1> QED
  BY <1>4, <1>5, <1>13, <1>14 DEF AreSteps

Reach(S) == [down : Seq(S), out : BOOLEAN]

LEMMA EnterOrLeaveIsReach ==
  ASSUME NEW S, NEW s \in Reach(S), NEW name \in Given(S)
  PROVE  EnterOrLeave(s, name) \in Reach(S)
<1>1. s.down \in Seq(S)
  BY DEF Reach
<1>2. Enter(s.down, name) \in Seq(S)
  BY <1>1, EnterIsPath
<1> QED
  BY <1>2 DEF EnterOrLeave, Reach

(* And so is one without a directory.                                      *)
LEMMA NormalSteps ==
  ASSUME NEW S, NEW seq \in Seq(Given(S))
  PROVE  \E h \in [0 .. Len(seq) -> Reach(S)] :
           /\ h[0] = [down |-> <<>>, out |-> FALSE]
           /\ \A k \in 1 .. Len(seq) : h[k] = EnterOrLeave(h[k - 1], seq[k])
           /\ LexicallyNormal(seq) = IF h[Len(seq)].out THEN <<"..">> ELSE h[Len(seq)].down
<1> DEFINE V == Reach(S)
           start == [down |-> <<>>, out |-> FALSE]
           fold == FoldLeft(EnterOrLeave, start, seq)
           g == [k \in 1 .. Len(seq) |-> [v \in V |-> EnterOrLeave(v, seq[k])]]
<1>4. DOMAIN seq = 1 .. Len(seq) /\ Len(seq) \in Nat
  BY LenProperties
<1>0. start \in V /\ Len(seq) \in Nat
  BY <1>4, EmptySeq DEF Reach
<1>15. LexicallyNormal(seq) = IF fold.out THEN <<"..">> ELSE fold.down
  BY DEF LexicallyNormal
<1>1. ASSUME NEW k \in 1 .. Len(seq), NEW v \in V PROVE EnterOrLeave(v, seq[k]) \in V
  BY ElementOfSeq, EnterOrLeaveIsReach
<1>2. g \in [1 .. Len(seq) -> [V -> V]]
  BY <1>1
<1>3. \A k \in 1 .. Len(seq), v \in V : g[k][v] = EnterOrLeave(v, seq[k])
  OBVIOUS
<1>5. PICK iter :
        /\ fold = iter[DOMAIN seq]
        /\ iter = CHOOSE f : f = [s \in SUBSET (DOMAIN seq) |->
                    IF s = {} THEN start ELSE EnterOrLeave(f[s \ {MaxOf(s)}], seq[MaxOf(s)])]
  BY DEF FoldLeft, MapThenFoldSet, Max, MaxOf
<1>6. \E f \in [SUBSET (1 .. Len(seq)) -> V] : IsFold(f, Len(seq), start, g)
  <2> HIDE DEF g, V, start
  <2> QED
    BY <1>0, <1>2, FoldExists
<1>7. \A s \in SUBSET (1 .. Len(seq)) : s # {} => MaxOf(s) \in 1 .. Len(seq) /\ s \ {MaxOf(s)} \in SUBSET (1 .. Len(seq))
  <2>1. SUFFICES ASSUME NEW s \in SUBSET (1 .. Len(seq)), s # {}
                 PROVE  MaxOf(s) \in 1 .. Len(seq) /\ s \ {MaxOf(s)} \in SUBSET (1 .. Len(seq))
    OBVIOUS
  <2>3. MaxOf(s) \in s
    BY <1>0, <2>1, MaxOfSet
  <2> QED
    BY <2>3
<1> DEFINE Step(f) == [s \in SUBSET (DOMAIN seq) |->
                         IF s = {} THEN start ELSE EnterOrLeave(f[s \ {MaxOf(s)}], seq[MaxOf(s)])]
<1>8. \E f : f = Step(f)
  <2>1. PICK f \in [SUBSET (1 .. Len(seq)) -> V] : IsFold(f, Len(seq), start, g)
    BY <1>6
  <2>2. ASSUME NEW s \in SUBSET (1 .. Len(seq))
        PROVE  f[s] = IF s = {} THEN start ELSE EnterOrLeave(f[s \ {MaxOf(s)}], seq[MaxOf(s)])
    <3>1. CASE s = {}
      BY <2>1, <3>1 DEF IsFold
    <3>2. CASE s # {}
      <4>1. f[s] = g[MaxOf(s)][f[s \ {MaxOf(s)}]]
        BY <2>1, <3>2 DEF IsFold
      <4>2. f[s \ {MaxOf(s)}] \in V /\ MaxOf(s) \in 1 .. Len(seq)
        BY <1>7, <3>2
      <4> HIDE DEF g, V, start
      <4> QED
        BY <1>3, <3>2, <4>1, <4>2
    <3> QED
      BY <3>1, <3>2
  <2>3. f = Step(f)
    <3>1. DOMAIN f = DOMAIN Step(f) /\ f = [s \in DOMAIN f |-> f[s]]
      BY <1>4
    <3> QED
      BY <1>4, <2>2, <3>1
  <2> HIDE DEF Step
  <2> QED
    BY <2>3
<1>9. iter = Step(iter)
  <2>1. iter = CHOOSE f : f = Step(f)
    BY <1>5
  <2> HIDE DEF Step
  <2> QED
    BY <1>8, <2>1
<1>10. ASSUME NEW s \in SUBSET (1 .. Len(seq))
       PROVE  iter[s] = IF s = {} THEN start ELSE EnterOrLeave(iter[s \ {MaxOf(s)}], seq[MaxOf(s)])
  BY <1>4, <1>9
<1>11. iter[{}] = start
  BY <1>10
<1>12. ASSUME NEW k \in 1 .. Len(seq), iter[1 .. (k - 1)] \in V
       PROVE  iter[1 .. k] = g[k][iter[1 .. (k - 1)]]
  <2>1. MaxOf(1 .. k) = k /\ (1 .. k) \ {k} = 1 .. (k - 1) /\ 1 .. k # {} /\ 1 .. k \in SUBSET (1 .. Len(seq))
    BY <1>0, MaxOfUpTo
  <2>2. iter[1 .. k] = EnterOrLeave(iter[1 .. (k - 1)], seq[k])
    BY <1>10, <2>1
  <2> QED
    BY <1>3, <1>12, <2>2
<1>13. PICK h \in [0 .. Len(seq) -> V] : AreSteps(h, Len(seq), start, g) /\ h[Len(seq)] = iter[1 .. Len(seq)]
  <2> HIDE DEF g, V, start, Step
  <2>2. IsIter(iter, Len(seq), V, start, g)
    BY <1>11, <1>12 DEF IsIter
  <2>3. Ends(iter, Len(seq), V, start, g)
    BY <1>0, <1>2, <2>2, FoldSteps
  <2> QED
    BY <2>3 DEF Ends
<1>14. \A k \in 1 .. Len(seq) : h[k] = EnterOrLeave(h[k - 1], seq[k])
  <2>1. SUFFICES ASSUME NEW k \in 1 .. Len(seq) PROVE h[k] = EnterOrLeave(h[k - 1], seq[k])
    OBVIOUS
  <2>2. k - 1 \in 0 .. Len(seq)
    OBVIOUS
  <2>3. h[k - 1] \in V
    BY <2>2
  <2> HIDE DEF V
  <2> QED
    BY <1>3, <1>13, <2>3 DEF AreSteps
<1> HIDE DEF g, Step, fold
<1> QED
  BY <1>4, <1>5, <1>13, <1>14, <1>15 DEF AreSteps

LEMMA FrontOfConcat ==
  ASSUME NEW S, NEW s \in Seq(S), NEW t \in Seq(S), t # <<>>
  PROVE  Front(s \o t) = s \o Front(t) /\ s \o t # <<>>
<1>1. s \o t \in Seq(S) /\ Len(s \o t) = Len(s) + Len(t)
      /\ \A i \in 1 .. Len(s) + Len(t) : (s \o t)[i] = IF i <= Len(s) THEN s[i] ELSE t[i - Len(s)]
  BY ConcatProperties
<1>2. Len(s) \in Nat /\ Len(t) \in Nat \ {0}
  BY EmptySeq, LenProperties
<1>3. s \o t # <<>>
  <2>1. Len(s \o t) # 0
    BY <1>1, <1>2
  <2> QED
    BY <2>1, EmptySeq
<1>4. PICK f : f = Front(s \o t)
  OBVIOUS
<1>5. PICK u : u = Front(t)
  OBVIOUS
<1>6. PICK a : a = s \o t
  OBVIOUS
<1>7. f \in Seq(S) /\ Len(f) = Len(a) - 1 /\ \A i \in 1 .. Len(a) - 1 : f[i] = a[i]
  <2>1. a \in Seq(S) /\ a # <<>> /\ f = Front(a)
    BY <1>1, <1>3, <1>4, <1>6
  <2> QED
    BY <2>1, FrontIs
<1>8. u \in Seq(S) /\ Len(u) = Len(t) - 1 /\ \A i \in 1 .. Len(t) - 1 : u[i] = t[i]
  BY <1>5, FrontIs
<1>9. s \o u \in Seq(S) /\ Len(s \o u) = Len(s) + Len(u)
      /\ \A i \in 1 .. Len(s) + Len(u) : (s \o u)[i] = IF i <= Len(s) THEN s[i] ELSE u[i - Len(s)]
  BY <1>8, ConcatProperties
<1>10. PICK b : b = s \o u
  OBVIOUS
<1>11. Len(f) = Len(b) /\ Len(f) = Len(s) + Len(t) - 1
  BY <1>1, <1>2, <1>6, <1>7, <1>8, <1>9, <1>10
<1>12. ASSUME NEW i \in 1 .. Len(f) PROVE f[i] = b[i]
  <2>1. i \in 1 .. Len(s) + Len(t) /\ i \in 1 .. Len(a) - 1 /\ i \in 1 .. Len(s) + Len(u)
    BY <1>1, <1>2, <1>6, <1>8, <1>11
  <2>2. f[i] = IF i <= Len(s) THEN s[i] ELSE t[i - Len(s)]
    BY <1>1, <1>6, <1>7, <2>1
  <2>3. b[i] = IF i <= Len(s) THEN s[i] ELSE u[i - Len(s)]
    BY <1>9, <1>10, <2>1
  <2>4. ~(i <= Len(s)) => i - Len(s) \in 1 .. Len(t) - 1
    BY <1>2, <1>11
  <2> QED
    BY <1>8, <2>2, <2>3, <2>4
<1>13. f = b
  BY <1>7, <1>9, <1>10, <1>11, <1>12, SeqEqual
<1> QED
  BY <1>3, <1>4, <1>5, <1>10, <1>13

LEMMA EnterOfConcat ==
  ASSUME NEW S, NEW jail \in Seq(S), NEW down \in Seq(S), NEW name \in Given(S), name = ".." => down # <<>>
  PROVE  Enter(jail \o down, name) = jail \o Enter(down, name)
<1>1. CASE name = "."
  BY <1>1 DEF Enter
<1>2. CASE name = ".."
  BY <1>2, FrontOfConcat DEF Enter
<1>3. CASE name # "." /\ name # ".."
  <2>1. name \in S /\ <<name>> \in Seq(S)
    BY <1>3 DEF Given
  <2>2. Append(down, name) = down \o <<name>>
    BY <2>1, AppendIsConcat
  <2>3. jail \o down \in Seq(S)
    BY ConcatProperties
  <2>4. Append(jail \o down, name) = (jail \o down) \o <<name>>
    BY <2>1, <2>3, AppendIsConcat
  <2>5. (jail \o down) \o <<name>> = jail \o (down \o <<name>>)
    BY <2>1, ConcatAssociative
  <2> QED
    BY <1>3, <2>2, <2>4, <2>5 DEF Enter
<1> QED
  BY <1>1, <1>2, <1>3

(* What is reached below jail by a path that reached s, without a directory. *)
IsBelow(jail, p, s) == s.out = FALSE => p = jail \o s.down

LeadsOut(s, name) == EnterOrLeave(s, name).out = FALSE \/ s.out = TRUE \/ name = ".."

LEMMA EnterStaysBelow ==
  ASSUME NEW S, NEW jail \in Seq(S), NEW p \in Seq(S), NEW s \in Reach(S), NEW name \in Given(S), IsBelow(jail, p, s)
  PROVE  IsBelow(jail, Enter(p, name), EnterOrLeave(s, name)) /\ LeadsOut(s, name)
<1>1. s.down \in Seq(S) /\ s.out \in BOOLEAN
  BY DEF Reach
<1>2. CASE name = ".." /\ s.down = <<>>
  <2>1. EnterOrLeave(s, name).out = TRUE
    BY <1>2 DEF EnterOrLeave, Reach
  <2> QED
    BY <1>2, <2>1 DEF IsBelow, LeadsOut
<1>3. CASE ~(name = ".." /\ s.down = <<>>)
  <2>1. EnterOrLeave(s, name).out = s.out /\ EnterOrLeave(s, name).down = Enter(s.down, name)
    BY <1>3 DEF EnterOrLeave, Reach
  <2>2. Enter(jail \o s.down, name) = jail \o Enter(s.down, name)
    <3>1. PICK down \in Seq(S) : down = s.down
      BY <1>1
    <3>2. name = ".." => down # <<>>
      BY <1>3, <3>1
    <3>3. Enter(jail \o down, name) = jail \o Enter(down, name)
      BY <3>2, EnterOfConcat
    <3> QED
      BY <3>1, <3>3
  <2> QED
    BY <1>1, <2>1, <2>2 DEF IsBelow, LeadsOut
<1> QED
  BY <1>2, <1>3

(* A relative path that does not lead out is the way from where it begins.  *)
LEMMA BelowIsNormal ==
  ASSUME NEW S, NEW jail \in Seq(S), NEW path \in Seq(Given(S))
  PROVE  \/ LexicallyNormal(path) = <<"..">> /\ \E k \in DOMAIN path : path[k] = ".."
         \/ LexicallyNormal(path) \in Seq(S) /\ Below(jail, path) = jail \o LexicallyNormal(path)
<1>0. DOMAIN path = 1 .. Len(path) /\ Len(path) \in Nat
  BY LenProperties
<1>1. PICK b \in [0 .. Len(path) -> Seq(S)] :
        /\ b[0] = jail
        /\ \A k \in 1 .. Len(path) : b[k] = Enter(b[k - 1], path[k])
        /\ b[Len(path)] = Below(jail, path)
  BY BelowSteps
<1>2. PICK u \in [0 .. Len(path) -> Reach(S)] :
        /\ u[0] = [down |-> <<>>, out |-> FALSE]
        /\ \A k \in 1 .. Len(path) : u[k] = EnterOrLeave(u[k - 1], path[k])
        /\ LexicallyNormal(path) = IF u[Len(path)].out THEN <<"..">> ELSE u[Len(path)].down
  BY NormalSteps
<1> DEFINE Up == \E k \in DOMAIN path : path[k] = ".."
           T == {k \in 0 .. Len(path) : IsBelow(jail, b[k], u[k]) /\ (u[k].out = FALSE \/ Up)}
<1>3. 0 \in T
  <2>1. jail = jail \o <<>>
    BY ConcatEmptySeq
  <2>2. u[0].down = <<>> /\ u[0].out = FALSE
    BY <1>2
  <2> QED
    BY <1>0, <1>1, <2>1, <2>2 DEF IsBelow
<1>4. ASSUME NEW k \in 0 .. Len(path), k \in T, k < Len(path) PROVE k + 1 \in T
  <2>1. k + 1 \in 1 .. Len(path) /\ k + 1 \in 0 .. Len(path) /\ (k + 1) - 1 = k
    BY <1>0, <1>4
  <2>2. b[k + 1] = Enter(b[k], path[k + 1]) /\ u[k + 1] = EnterOrLeave(u[k], path[k + 1])
    BY <1>1, <1>2, <2>1
  <2>3. path[k + 1] \in Given(S)
    BY <2>1, ElementOfSeq
  <2>4. b[k] \in Seq(S) /\ u[k] \in Reach(S)
    OBVIOUS
  <2>5. IsBelow(jail, b[k], u[k]) /\ (u[k].out = FALSE \/ Up)
    BY <1>4
  <2>6. /\ IsBelow(jail, b[k + 1], u[k + 1])
        /\ u[k + 1].out = FALSE \/ u[k].out = TRUE \/ path[k + 1] = ".."
    <3>1. PICK p \in Seq(S), s \in Reach(S), name \in Given(S) : p = b[k] /\ s = u[k] /\ name = path[k + 1]
      BY <2>3, <2>4
    <3>2. IsBelow(jail, p, s)
      BY <2>5, <3>1
    <3>3. IsBelow(jail, Enter(p, name), EnterOrLeave(s, name)) /\ LeadsOut(s, name)
      BY <3>2, EnterStaysBelow
    <3> QED
      BY <2>2, <3>1, <3>3 DEF LeadsOut
  <2>7. path[k + 1] = ".." => Up
    BY <1>0, <2>1
  <2> HIDE DEF Up
  <2> QED
    BY <2>1, <2>5, <2>6, <2>7
<1>5. Len(path) \in T
  <2>1. Len(path) \in 0 .. Len(path)
    BY <1>0
  <2> HIDE DEF T
  <2>2. 0 .. Len(path) \subseteq T
    BY <1>0, <1>3, <1>4, Induction
  <2> QED
    BY <2>1, <2>2
<1>6. PICK s \in Reach(S) : s = u[Len(path)]
  BY <1>0
<1>7. s.down \in Seq(S) /\ s.out \in BOOLEAN
  BY DEF Reach
<1>8. IsBelow(jail, Below(jail, path), s) /\ (s.out = FALSE \/ Up)
  BY <1>1, <1>5, <1>6
<1>9. LexicallyNormal(path) = IF s.out THEN <<"..">> ELSE s.down
  BY <1>2, <1>6
<1> HIDE DEF T
<1> QED
  BY <1>7, <1>8, <1>9 DEF IsBelow

(* What lexically_relative leaves of a path below a jail is no way out, and *)
(* the way to it.                                                          *)
LEMMA RelativeIsBelow ==
  ASSUME NEW S, AreNames(S), NEW jail \in Seq(S), jail # <<>>, NEW path \in Seq(S), IsPrefix(jail, path)
  PROVE  /\ ~ \E n \in DOMAIN LexicallyRelative(path, jail) : LexicallyRelative(path, jail)[n] = ".."
         /\ jail \o LexicallyRelative(path, jail) = path
<1>1. Len(jail) \in Nat \ {0} /\ Len(path) \in Nat /\ Len(jail) <= Len(path)
      /\ SubSeq(jail, 1, Len(jail)) = SubSeq(path, 1, Len(jail))
  BY EmptySeq, LenProperties DEF IsPrefix
<1>2. PICK m \in Nat, n \in Nat : m = Len(jail) /\ n = Len(path)
  BY <1>1
<1>3. LexicallyRelative(path, jail) = SubSeq(path, m + 1, n)
  BY <1>2 DEF LexicallyRelative
<1>4. SubSeq(path, 1, m) \o SubSeq(path, m + 1, n) = SubSeq(path, 1, n)
  <2>1. 1 \in 1 .. Len(path) + 1 /\ m \in 1 - 1 .. Len(path) /\ n \in m .. Len(path)
    BY <1>1, <1>2
  <2> QED
    BY <2>1, ConcatAdjacentSubSeq
<1>5. SubSeq(path, 1, n) = path /\ SubSeq(jail, 1, m) = jail
  BY <1>2, SubSeqFull
<1>6. SubSeq(path, m + 1, n) \in Seq(S)
  <2>1. m + 1 \in Int /\ n \in Int
    OBVIOUS
  <2>2. \A i \in m + 1 .. n : path[i] \in S
    BY <1>2, ElementOfSeq
  <2> QED
    BY <2>1, <2>2, SubSeqProperties
<1>7. PICK rest \in Seq(S) : rest = SubSeq(path, m + 1, n)
  BY <1>6
<1>8. \A i \in DOMAIN rest : rest[i] \in S
  BY LenProperties, ElementOfSeq
<1> QED
  BY <1>1, <1>2, <1>3, <1>4, <1>5, <1>7, <1>8 DEF AreNames

LEMMA PrefixOfConcat ==
  ASSUME NEW S, NEW s \in Seq(S), s # <<>>, NEW t \in Seq(S)
  PROVE  IsPrefix(s, s \o t)
<1>1. Len(s) \in Nat \ {0} /\ Len(t) \in Nat
  BY EmptySeq, LenProperties
<1>2. Len(s \o t) = Len(s) + Len(t)
  BY ConcatProperties
<1>3. SubSeq(s \o t, 1, Len(s)) = SubSeq(s, 1, Len(s))
  <2>1. 1 \in 1 .. Len(s) /\ Len(s) \in 1 .. Len(s)
    BY <1>1
  <2> QED
    BY <2>1, SubSeqOfConcat1
<1> QED
  BY <1>1, <1>2, <1>3 DEF IsPrefix

(* What the jails make of a path: the place below the jail, or nothing.     *)
LEMMA BackendJail ==
  ASSUME NEW S, AreNames(S), NEW jail \in Seq(S), jail # <<>>, NEW path \in Seq(Given(S))
  PROVE  BackendRelativeToRoot(jail, path) =
           IF IsPrefix(jail, Below(jail, path)) THEN Below(jail, path) ELSE Refused
<1>1. PICK place \in Seq(S) : place = Below(jail, path)
  <2>1. PICK b \in [0 .. Len(path) -> Seq(S)] : b[Len(path)] = Below(jail, path)
    BY BelowSteps
  <2>2. Len(path) \in 0 .. Len(path)
    BY LenProperties
  <2> QED
    BY <2>1, <2>2
<1>2. CASE IsPrefix(jail, place)
  <2>1. /\ ~ \E n \in DOMAIN LexicallyRelative(place, jail) : LexicallyRelative(place, jail)[n] = ".."
        /\ jail \o LexicallyRelative(place, jail) = place
    BY <1>2, RelativeIsBelow
  <2> QED
    BY <1>1, <1>2, <2>1 DEF BackendRelativeToRoot
<1>3. CASE ~IsPrefix(jail, place)
  <2>1. LexicallyRelative(place, jail) = <<"..">>
    BY <1>3 DEF LexicallyRelative
  <2> QED
    BY <1>1, <1>3, <2>1 DEF BackendRelativeToRoot
<1> QED
  BY <1>2, <1>3

(* A relative path leads out of where it begins.                           *)
Leaves(path) == LexicallyNormal(path) = <<"..">> /\ \E k \in DOMAIN path : path[k] = ".."

LEMMA LeavesJail ==
  ASSUME NEW S, NEW jail \in Seq(S), jail # <<>>, NEW path \in Seq(Given(S)), ~IsPrefix(jail, Below(jail, path))
  PROVE  Leaves(path)
<1>1. CASE LexicallyNormal(path) \in Seq(S) /\ Below(jail, path) = jail \o LexicallyNormal(path)
  <2>1. PICK down \in Seq(S) : down = LexicallyNormal(path)
    BY <1>1
  <2>2. IsPrefix(jail, jail \o down)
    BY PrefixOfConcat
  <2> QED
    BY <1>1, <2>1, <2>2
<1> QED
  BY <1>1, BelowIsNormal DEF Leaves

LEMMA WorkerJail ==
  ASSUME NEW S, AreNames(S), NEW jail \in Seq(S), jail # <<>>, NEW path \in Seq(Given(S)), NEW cwd, NEW exists,
         cwd = jail \/ Append(cwd, Head(path)) \notin exists
  PROVE  LET jailed == RelativeToRoot(jail, path, cwd, exists)
         IN \/ jailed = BackendRelativeToRoot(jail, path)
            \/ jailed = Refused /\ Leaves(path)
<1>1. CASE Append(cwd, Head(path)) \in exists
  BY <1>1 DEF RelativeToRoot, BackendRelativeToRoot, Proximate
<1>2. CASE Append(cwd, Head(path)) \notin exists
  <2>1. Proximate(path, jail, cwd, exists) = LexicallyNormal(path)
    BY <1>2 DEF Proximate
  <2>2. CASE LexicallyNormal(path) = <<"..">> /\ \E k \in DOMAIN path : path[k] = ".."
    BY <2>1, <2>2 DEF RelativeToRoot, Leaves
  <2>3. CASE LexicallyNormal(path) \in Seq(S) /\ Below(jail, path) = jail \o LexicallyNormal(path)
    <3>1. PICK down \in Seq(S) : down = LexicallyNormal(path)
      BY <2>3
    <3>2. \A i \in DOMAIN down : down[i] \in S
      BY LenProperties, ElementOfSeq
    <3>3. RelativeToRoot(jail, path, cwd, exists) = jail \o down
      BY <2>1, <3>1, <3>2 DEF RelativeToRoot, AreNames
    <3>4. IsPrefix(jail, jail \o down)
      BY PrefixOfConcat
    <3>5. BackendRelativeToRoot(jail, path) = jail \o down
      BY <2>3, <3>1, <3>4, BackendJail
    <3> QED
      BY <3>3, <3>5
  <2> QED
    BY <2>2, <2>3, BelowIsNormal
<1> QED
  BY <1>1, <1>2

(* Wherever the worker runs, what its jail lets through is below it.       *)
LEMMA WorkerIsJailed ==
  ASSUME NEW S, AreNames(S), NEW jail \in Seq(S), jail # <<>>, NEW path \in Seq(Given(S)), NEW cwd \in Seq(S), NEW exists,
         RelativeToRoot(jail, path, cwd, exists) # Refused
  PROVE  IsPrefix(jail, RelativeToRoot(jail, path, cwd, exists))
<1>1. CASE Append(cwd, Head(path)) \in exists
  <2>1. PICK place \in Seq(S) : place = Below(cwd, path)
    <3>1. PICK b \in [0 .. Len(path) -> Seq(S)] : b[Len(path)] = Below(cwd, path)
      BY BelowSteps
    <3>2. Len(path) \in 0 .. Len(path)
      BY LenProperties
    <3> QED
      BY <3>1, <3>2
  <2>2. Proximate(path, jail, cwd, exists) = LexicallyRelative(place, jail)
    BY <1>1, <2>1 DEF Proximate
  <2>3. CASE IsPrefix(jail, place)
    <3>1. jail \o LexicallyRelative(place, jail) = place
      BY <2>3, RelativeIsBelow
    <3> QED
      BY <2>2, <2>3, <3>1 DEF RelativeToRoot
  <2>4. CASE ~IsPrefix(jail, place)
    <3>1. LexicallyRelative(place, jail) = <<"..">>
      BY <2>4 DEF LexicallyRelative
    <3> QED
      BY <2>2, <3>1 DEF RelativeToRoot
  <2> QED
    BY <2>3, <2>4
<1>2. CASE Append(cwd, Head(path)) \notin exists
  <2>1. Proximate(path, jail, cwd, exists) = LexicallyNormal(path)
    BY <1>2 DEF Proximate
  <2>2. CASE LexicallyNormal(path) = <<"..">>
    BY <2>1, <2>2 DEF RelativeToRoot
  <2>3. CASE LexicallyNormal(path) \in Seq(S)
    <3>1. PICK down \in Seq(S) : down = LexicallyNormal(path)
      BY <2>3
    <3>2. IsPrefix(jail, jail \o down)
      BY PrefixOfConcat
    <3> QED
      BY <2>1, <3>1, <3>2 DEF RelativeToRoot
  <2> QED
    BY <2>2, <2>3, BelowIsNormal
<1> QED
  BY <1>1, <1>2

Names == {"h", "ws", "ws2", "x"}

LEMMA NamesAreNames == AreNames(Names)
BY DEF AreNames, Names

LEMMA RootIs ==
  /\ Front(Root) = <<"h">> /\ Last(Root) = "ws" /\ Root = <<"h">> \o <<"ws">>
  /\ <<"h">> \in Seq(Names) /\ <<"h">> # <<>> /\ <<"ws">> \in Seq(Names) /\ Root # Refused
  /\ <<"ws">> \in Seq(Given(Names)) /\ Append(<<"h">>, "ws") = Root
<1>1. Root = <<"h", "ws">>
  BY DEF Root
<1>2. "h" \in Names /\ "ws" \in Names /\ "ws" \in Given(Names)
  BY DEF Names, Given
<1>3. <<"h">> \in Seq(Names) /\ <<"ws">> \in Seq(Names) /\ <<"ws">> \in Seq(Given(Names)) /\ <<"h">> # <<>>
  BY <1>2
<1>6. Len(Root) = 2 /\ Root[1] = "h" /\ Root[2] = "ws" /\ Root \in Seq(Names) /\ Root # <<>>
  BY <1>1, <1>2
<1>4. <<"h">> \o <<"ws">> = Root
  <2>1. PICK s \in Seq(Names), t \in Seq(Names) : s = <<"h">> /\ t = <<"ws">>
    BY <1>3
  <2>2. Len(s) = 1 /\ Len(t) = 1 /\ s[1] = "h" /\ t[1] = "ws"
    BY <2>1
  <2>3. s \o t \in Seq(Names) /\ Len(s \o t) = Len(s) + Len(t)
        /\ \A i \in 1 .. Len(s) + Len(t) : (s \o t)[i] = IF i <= Len(s) THEN s[i] ELSE t[i - Len(s)]
    BY ConcatProperties
  <2>4. Len(s \o t) = 2 /\ (s \o t)[1] = "h" /\ (s \o t)[2] = "ws"
    BY <2>2, <2>3
  <2>5. Len(s \o t) = Len(Root) /\ \A i \in 1 .. Len(s \o t) : (s \o t)[i] = Root[i]
    BY <1>6, <2>4
  <2>6. s \o t = Root
    BY <1>6, <2>3, <2>5, SeqEqual
  <2> QED
    BY <2>1, <2>6
<1>5. Append(<<"h">>, "ws") = Root
  BY <1>2, <1>3, <1>4, AppendIsConcat
<1>7. Last(Root) = "ws"
  BY <1>6 DEF Last
<1>8. Front(Root) = <<"h">>
  <2>1. Front(Root) \in Seq(Names) /\ Len(Front(Root)) = 1 /\ Front(Root)[1] = "h"
    <3>1. PICK r \in Seq(Names) : r = Root
      BY <1>6
    <3>2. Len(r) - 1 = 1 /\ r # <<>>
      BY <1>6, <3>1
    <3>3. /\ Front(r) \in Seq(Names)
          /\ Len(Front(r)) = Len(r) - 1
          /\ \A i \in 1 .. Len(r) - 1 : Front(r)[i] = r[i]
      BY <3>2, FrontIs
    <3>4. Front(r)[1] = r[1]
      BY <3>2, <3>3
    <3> QED
      BY <1>6, <3>1, <3>2, <3>3, <3>4
  <2>2. PICK f \in Seq(Names) : f = Front(Root)
    BY <2>1
  <2>3. Len(f) = Len(<<"h">>) /\ \A i \in 1 .. Len(f) : f[i] = <<"h">>[i]
    BY <2>1, <2>2
  <2> QED
    BY <1>3, <2>2, <2>3, SeqEqual
<1>9. Root # Refused
  BY <1>1 DEF Refused
<1> QED
  BY <1>3, <1>4, <1>5, <1>7, <1>8, <1>9

LEMMA BelowIsPath ==
  ASSUME NEW S, NEW jail \in Seq(S), NEW path \in Seq(Given(S))
  PROVE  Below(jail, path) \in Seq(S)
<1>1. PICK b \in [0 .. Len(path) -> Seq(S)] : b[Len(path)] = Below(jail, path)
  BY BelowSteps
<1>2. Len(path) \in 0 .. Len(path)
  BY LenProperties
<1> QED
  BY <1>1, <1>2

LEMMA RootIsBelow == Below(<<"h">>, <<"ws">>) = Root
<1> DEFINE jail == <<"h">>
           path == <<"ws">>
<1>1. jail \in Seq(Names) /\ path \in Seq(Given(Names))
  BY RootIs
<1>2. Len(path) = 1 /\ path[1] = "ws"
  OBVIOUS
<1>3. Append(jail, "ws") = Root
  BY RootIs
<1> HIDE DEF jail, path
<1>4. PICK b \in [0 .. Len(path) -> Seq(Names)] :
        /\ b[0] = jail
        /\ \A k \in 1 .. Len(path) : b[k] = Enter(b[k - 1], path[k])
        /\ b[Len(path)] = Below(jail, path)
  BY <1>1, BelowSteps
<1>5. b[1] = Enter(jail, "ws") /\ b[1] = Below(jail, path)
  BY <1>2, <1>4
<1>6. Enter(jail, "ws") = Append(jail, "ws")
  BY DEF Enter
<1> QED
  BY <1>3, <1>5, <1>6 DEF jail, path

LEMMA PathIsNotRefused ==
  ASSUME NEW p \in Seq(Names)
  PROVE  p # Refused
<1>1. SUFFICES ASSUME p = Refused PROVE FALSE
  OBVIOUS
<1>2. Len(p) = 1 /\ p[1] = "refused"
  BY <1>1 DEF Refused
<1>3. p[1] \in Names
  BY <1>2, ElementOfSeq
<1> QED
  BY <1>2, <1>3 DEF Names

(* What a jail makes of a path, and then verifyPath of both.               *)
IsJailed(jailed, path) ==
  \/ jailed = Below(Front(Root), path) /\ IsPrefix(Front(Root), jailed)
  \/ jailed = Refused /\ Leaves(path)

LEMMA BackendIsJailed ==
  ASSUME NEW path \in Seq(Given(Names))
  PROVE  IsJailed(BackendRelativeToRoot(Front(Root), path), path)
<1> DEFINE place == Below(Front(Root), path)
<1>1. BackendRelativeToRoot(Front(Root), path) = IF IsPrefix(Front(Root), place) THEN place ELSE Refused
  BY RootIs, NamesAreNames, BackendJail
<1>2. ~IsPrefix(Front(Root), place) => Leaves(path)
  BY RootIs, LeavesJail
<1> QED
  BY <1>1, <1>2 DEF IsJailed

LEMMA InWorkspaceIs ==
  ASSUME NEW path \in Seq(Given(Names)), NEW jailed, IsJailed(jailed, path)
  PROVE  LET inWorkspace == InWorkspace(path, Root, Longer, jailed)
         IN /\ inWorkspace # Refused => inWorkspace = Below(Front(Root), path) /\ IsPrefix(Front(Root), inWorkspace)
            /\ inWorkspace = Refused => Leaves(path) \/ ~BeginsLike(Head(path), Last(Root), Longer)
<1>1. CASE path = <<Last(Root)>>
  <2>1. Below(Front(Root), path) = Root
    BY <1>1, RootIs, RootIsBelow
  <2>2. IsPrefix(Front(Root), Root)
    BY RootIs, PrefixOfConcat
  <2>3. InWorkspace(path, Root, Longer, jailed) = Root
    BY <1>1 DEF InWorkspace
  <2> QED
    BY <2>1, <2>2, <2>3, RootIs
<1>2. CASE path # <<Last(Root)>> /\ BeginsLike(Head(path), Last(Root), Longer)
  <2>1. InWorkspace(path, Root, Longer, jailed) = jailed
    BY <1>2 DEF InWorkspace
  <2>2. Below(Front(Root), path) # Refused
    BY RootIs, BelowIsPath, PathIsNotRefused
  <2> QED
    BY <2>1, <2>2 DEF IsJailed
<1>3. CASE path # <<Last(Root)>> /\ ~BeginsLike(Head(path), Last(Root), Longer)
  BY <1>3 DEF InWorkspace
<1> QED
  BY <1>1, <1>2, <1>3

LEMMA VerifiedIs ==
  ASSUME NEW path \in Seq(Given(Names)), NEW asked, NEW cwd, NEW exists, NEW jailed, IsJailed(jailed, path),
         VerifyPath(path, asked, Root, Longer, cwd, exists, jailed) # Refused
  PROVE  IsAccepted(VerifyPath(path, asked, Root, Longer, cwd, exists, jailed), path, asked, cwd)
<1> DEFINE inWorkspace == InWorkspace(path, Root, Longer, jailed)
           result == VerifyPath(path, asked, Root, Longer, cwd, exists, jailed)
           like == BeginsLike(Head(path), Last(Root), Longer)
<1>1. /\ inWorkspace # Refused => inWorkspace = Below(Front(Root), path) /\ IsPrefix(Front(Root), inWorkspace)
      /\ inWorkspace = Refused => Leaves(path) \/ ~like
  BY InWorkspaceIs
<1>2. CASE inWorkspace # Refused
  <2>1. result = inWorkspace
    BY <1>2 DEF VerifyPath
  <2> QED
    BY <1>1, <1>2, <2>1 DEF IsAccepted
<1>3. CASE inWorkspace = Refused
  <2>1. ~asked.enforceWorkspaceRelative
    BY <1>3 DEF VerifyPath
  <2>2. CASE like
    <3>1. result = Below(cwd, path)
      BY <1>3, <2>1, <2>2 DEF VerifyPath
    <3>2. Leaves(path)
      BY <1>1, <1>3, <2>2
    <3> QED
      BY <2>1, <3>1, <3>2 DEF IsAccepted, Leaves
  <2>3. CASE ~like
    <3>1. result = NoPath /\ ~asked.mustExist
      BY <1>3, <2>1, <2>3 DEF VerifyPath
    <3> QED
      BY <2>1, <3>1 DEF IsAccepted
  <2> QED
    BY <2>2, <2>3
<1> QED
  BY <1>2, <1>3

(* If it is enforced, only what is below the jail is accepted, and what    *)
(* must exist is there.                                                    *)
LEMMA EnforcedIs ==
  ASSUME NEW path, NEW asked, NEW cwd, NEW exists, NEW jailed,
         asked.enforceWorkspaceRelative, jailed # Refused => IsPrefix(Front(Root), jailed),
         VerifyPath(path, asked, Root, Longer, cwd, exists, jailed) # Refused
  PROVE  IsPrefix(Front(Root), VerifyPath(path, asked, Root, Longer, cwd, exists, jailed))
<1>1. VerifyPath(path, asked, Root, Longer, cwd, exists, jailed) = InWorkspace(path, Root, Longer, jailed)
  BY DEF VerifyPath
<1>2. IsPrefix(Front(Root), Root)
  BY RootIs, PrefixOfConcat
<1> QED
  BY <1>1, <1>2 DEF InWorkspace

LEMMA VerifiedExists ==
  ASSUME NEW path \in Seq(Given(Names)), path # <<>>, NEW asked, NEW cwd, NEW exists, NEW jailed, asked.mustExist
  PROVE  VerifyPath(path, asked, Root, Longer, cwd, exists, jailed) \in exists \cup {Refused}
<1> DEFINE inWorkspace == InWorkspace(path, Root, Longer, jailed)
<1>1. CASE inWorkspace # Refused
  BY <1>1 DEF VerifyPath
<1>2. CASE inWorkspace = Refused /\ Leads(cwd, path, exists)
  <2>1. Len(path) \in Nat \ {0} /\ DOMAIN path = 1 .. Len(path)
    BY EmptySeq, LenProperties
  <2>2. Len(path) \in DOMAIN path
    BY <2>1
  <2>3. SubSeq(path, 1, Len(path)) = path
    BY SubSeqFull
  <2>4. Below(cwd, path) \in exists
    BY <1>2, <2>2, <2>3 DEF Leads
  <2> QED
    BY <1>2, <2>4 DEF VerifyPath
<1>3. CASE inWorkspace = Refused /\ ~Leads(cwd, path, exists)
  BY <1>3 DEF VerifyPath
<1> QED
  BY <1>1, <1>2, <1>3

PathGiven ==
  input.of = "path" =>
    \E path \in UpTo({"ws", "ws2", "x", ".."}, MaxNames) \ {<<>>} : \E asked \in Askings :
      \E place \in Places : \E cwd \in {<<>>, <<"h">>, <<"h", "x">>} :
        input = [of |-> "path", path |-> path, asked |-> asked, exists |-> Existing(place), cwd |-> cwd]

LEMMA PathGivenNext == PathGiven /\ [Next]_input => PathGiven'
<1> SUFFICES ASSUME PathGiven, [Next]_input PROVE PathGiven'
  OBVIOUS
<1>1. CASE TakePath
  BY <1>1 DEF TakePath, PathGiven
<1>2. CASE TakeFrames \/ TakeTree \/ TakeStarts \/ TakeEnvirons \/ TakeFile
  <2>1. CASE TakeFrames
    BY <2>1 DEF TakeFrames, PathGiven
  <2>2. CASE TakeTree
    BY <2>2 DEF TakeTree, PathGiven
  <2>3. CASE TakeStarts
    BY <2>3 DEF TakeStarts, PathGiven
  <2>4. CASE TakeEnvirons
    <3>1. input'.of = "environs"
      BY <2>4 DEF TakeEnvirons
    <3> QED
      BY <3>1 DEF PathGiven
  <2>5. CASE TakeFile
    <3>1. input'.of = "file"
      BY <2>5 DEF TakeFile
    <3> QED
      BY <3>1 DEF PathGiven
  <2> QED
    BY <1>2, <2>1, <2>2, <2>3, <2>4, <2>5
<1>3. CASE UNCHANGED input
  BY <1>3 DEF PathGiven
<1> QED
  BY <1>1, <1>2, <1>3 DEF Next

LEMMA PathGivenVerified == PathGiven => VerifiedIsInPlace
<1> SUFFICES ASSUME PathGiven, input.of = "path" PROVE VerifiedIsInPlace
  BY DEF VerifiedIsInPlace
<1>1. PICK path \in UpTo({"ws", "ws2", "x", ".."}, MaxNames) \ {<<>>}, asked \in Askings :
        \E place \in Places : \E cwd \in {<<>>, <<"h">>, <<"h", "x">>} :
          input = [of |-> "path", path |-> path, asked |-> asked, exists |-> Existing(place), cwd |-> cwd]
  BY DEF PathGiven
<1>2. PICK place \in Places, cwd \in {<<>>, <<"h">>, <<"h", "x">>} :
        input = [of |-> "path", path |-> path, asked |-> asked, exists |-> Existing(place), cwd |-> cwd]
  BY <1>1
<1>15. PICK exists : exists = Existing(place)
  OBVIOUS
<1>3. input.path = path /\ input.asked = asked /\ input.exists = exists /\ input.cwd = cwd
  BY <1>2, <1>15
<1>4. path \in Seq(Given(Names)) /\ path # <<>>
  <2>1. PICK k \in 0 .. MaxNames : path \in [1 .. k -> {"ws", "ws2", "x", ".."}]
    BY <1>1 DEF UpTo
  <2>2. k \in Nat /\ path \in Seq({"ws", "ws2", "x", ".."})
    BY <2>1, SeqDef
  <2>3. {"ws", "ws2", "x", ".."} \subseteq Given(Names)
    BY DEF Given, Names
  <2> QED
    BY <1>1, <2>2, <2>3, SeqMonotonic
<1>5. cwd \in Seq(Names)
  <2>1. PICK a, b : a = "h" /\ b = "x" /\ a \in Names /\ b \in Names
    BY DEF Names
  <2>2. <<a>> \in Seq(Names) /\ <<a, b>> \in Seq(Names)
    BY <2>1
  <2>3. <<>> \in Seq(Names)
    BY EmptySeq
  <2> HIDE DEF Names
  <2>4. CASE cwd = <<>>
    BY <2>3, <2>4
  <2>5. CASE cwd = <<"h">>
    BY <2>1, <2>2, <2>5
  <2>6. CASE cwd = <<"h", "x">>
    BY <2>1, <2>2, <2>6
  <2> QED
    BY <2>4, <2>5, <2>6
<1> DEFINE workers == RelativeToRoot(Front(Root), path, cwd, exists)
           jailed == BackendRelativeToRoot(Front(Root), path)
           worker == VerifyPath(path, asked, Root, Longer, cwd, exists, workers)
           backends == VerifyPath(path, asked, Root, Longer, cwd, exists, jailed)
           away == cwd = Front(Root) \/ Append(cwd, Head(path)) \notin exists
<1>6. IsJailed(jailed, path)
  BY <1>4, BackendIsJailed
<1>7. away => workers = jailed \/ (workers = Refused /\ Leaves(path))
  BY <1>4, RootIs, NamesAreNames, WorkerJail
<1>8. away => IsJailed(workers, path)
  BY <1>6, <1>7 DEF IsJailed
<1>9. backends # Refused => IsAccepted(backends, path, asked, cwd)
  <2> HIDE DEF jailed
  <2> QED
    BY <1>4, <1>6, VerifiedIs
<1>10. away /\ worker # Refused => IsAccepted(worker, path, asked, cwd)
  <2> HIDE DEF workers, away
  <2> QED
    BY <1>4, <1>8, VerifiedIs
<1>11. away /\ ".." \notin ToSet(path) => worker = backends
  <2>1. ".." \notin ToSet(path) => ~Leaves(path)
    BY DEF ToSet, Leaves
  <2> HIDE DEF workers, jailed, away
  <2> QED
    BY <1>7, <2>1
<1>12. asked.enforceWorkspaceRelative /\ worker # Refused => IsPrefix(Front(Root), worker)
  <2>1. workers # Refused => IsPrefix(Front(Root), workers)
    BY <1>4, <1>5, RootIs, NamesAreNames, WorkerIsJailed
  <2> HIDE DEF workers
  <2> QED
    BY <2>1, EnforcedIs
<1>13. asked.mustExist => {worker, backends} \subseteq exists \cup {Refused}
  <2>1. asked.mustExist => worker \in exists \cup {Refused} /\ backends \in exists \cup {Refused}
    <3> HIDE DEF workers, jailed
    <3> QED
      BY <1>4, VerifiedExists
  <2> HIDE DEF worker, backends
  <2> QED
    BY <2>1
<1>14. VerifiedIsInPlace <=>
        /\ backends # Refused => IsAccepted(backends, path, asked, cwd)
        /\ away =>
             /\ worker # Refused => IsAccepted(worker, path, asked, cwd)
             /\ ".." \notin ToSet(path) => worker = backends
        /\ asked.enforceWorkspaceRelative /\ worker # Refused => IsPrefix(Front(Root), worker)
        /\ asked.mustExist => {worker, backends} \subseteq exists \cup {Refused}
  BY <1>3 DEF VerifiedIsInPlace, WorkerVerifyPath, BackendVerifyPath
<1> HIDE DEF worker, backends, away
<1> QED
  BY <1>9, <1>10, <1>11, <1>12, <1>13, <1>14

(* An accepted path is where it should be, for the backend, and for the    *)
(* worker unless it runs where something is named like the beginning of    *)
(* the path; wherever it runs, what it accepts for deleteFile is below the *)
(* directory the workspace is in, and what must exist does; for paths of   *)
(* any length (verifyPath, Jail::relativeToRoot).                          *)
THEOREM VerifiedIsInPlaceCorrect == Spec => []VerifiedIsInPlace
<1>1. Init => PathGiven
  BY DEF Init, None, PathGiven
<1>2. PathGiven /\ [Next]_input => PathGiven'
  BY PathGivenNext
<1>3. PathGiven => VerifiedIsInPlace
  BY PathGivenVerified
<1> QED
  BY <1>1, <1>2, <1>3, PTL DEF Spec

------------------------------------------------------------------------------
LEMMA MaxOfLast ==
  ASSUME NEW k \in Nat, NEW s \in SUBSET (1 .. k + 1), s \notin SUBSET (1 .. k)
  PROVE  s \ {k + 1} \in SUBSET (1 .. k) /\ s # {} /\ MaxOf(s) = k + 1
<1>1. k + 1 \in s /\ s # {}
  OBVIOUS
<1>2. k + 1 \in Nat
  OBVIOUS
<1>3. MaxOf(s) \in s /\ \A y \in s : MaxOf(s) >= y
  BY <1>1, <1>2, MaxOfSet
<1>4. MaxOf(s) \in 1 .. (k + 1) /\ MaxOf(s) >= k + 1
  BY <1>1, <1>3
<1>5. MaxOf(s) = k + 1
  <2> PICK v : v = MaxOf(s)
    OBVIOUS
  <2> QED
    BY <1>4
<1>6. ASSUME NEW y \in s, y # k + 1 PROVE y \in 1 .. k
  <2>1. y \in 1 .. (k + 1)
    OBVIOUS
  <2> QED
    BY <1>6, <2>1
<1> QED
  BY <1>1, <1>5, <1>6

(* h is what the parser goes through.                                      *)
LooksOn(h, n, base, seq) ==
  /\ h[0] = base
  /\ \A k \in 1 .. n : h[k] = LookOn(h[k - 1], seq[k])
  /\ h[n] = FoldLeft(LookOn, base, seq)

(* The parser looks at one character after the other.                      *)
LEMMA LookFold ==
  ASSUME NEW n \in Nat, NEW base, NEW seq, DOMAIN seq = 1 .. n
  PROVE  \E h : LooksOn(h, n, base, seq)
<1> DEFINE Is(f, k) == \A s \in SUBSET (1 .. k) :
             f[s] = IF s = {} THEN base ELSE LookOn(f[s \ {MaxOf(s)}], seq[MaxOf(s)])
           Has(k) == \E f : Is(f, k)
           T == {k \in 0 .. n : Has(k)}
<1>1. 0 \in T
  <2> DEFINE f == [s \in SUBSET (1 .. 0) |-> base]
  <2>1. 1 .. 0 = {}
    OBVIOUS
  <2>2. Is(f, 0)
    BY <2>1
  <2>3. Has(0)
    <3> HIDE DEF f, Is
    <3> QED
      BY <2>2
  <2> HIDE DEF f, Is, Has
  <2> QED
    BY <2>3
<1>2. ASSUME NEW k \in 0 .. n, k \in T, k < n
      PROVE  k + 1 \in T
  <2>1. PICK f : Is(f, k)
    BY <1>2
  <2> DEFINE e == [s \in SUBSET (1 .. k + 1) |->
                     IF s \in SUBSET (1 .. k) THEN f[s] ELSE LookOn(f[s \ {k + 1}], seq[k + 1])]
  <2>2. ASSUME NEW s \in SUBSET (1 .. k + 1), s \notin SUBSET (1 .. k)
        PROVE  s \ {k + 1} \in SUBSET (1 .. k) /\ s # {} /\ MaxOf(s) = k + 1
    <3> HIDE DEF e, T, Is, Has
    <3> QED
      BY <2>2, MaxOfLast
  <2>3. ASSUME NEW s \in SUBSET (1 .. k), s # {}
        PROVE  s \ {MaxOf(s)} \in SUBSET (1 .. k)
    OBVIOUS
  <2>5. Is(e, k + 1)
    <3>1. SUFFICES ASSUME NEW s \in SUBSET (1 .. k + 1)
                   PROVE  e[s] = IF s = {} THEN base ELSE LookOn(e[s \ {MaxOf(s)}], seq[MaxOf(s)])
      OBVIOUS
    <3>2. \A t \in SUBSET (1 .. k) : t \in SUBSET (1 .. k + 1) /\ e[t] = f[t]
      OBVIOUS
    <3>3. CASE s \in SUBSET (1 .. k)
      <4>1. e[s] = f[s] /\ f[s] = IF s = {} THEN base ELSE LookOn(f[s \ {MaxOf(s)}], seq[MaxOf(s)])
        BY <2>1, <3>2, <3>3
      <4>2. s # {} => e[s \ {MaxOf(s)}] = f[s \ {MaxOf(s)}]
        BY <2>3, <3>2, <3>3
      <4> HIDE DEF e
      <4> QED
        BY <4>1, <4>2
    <3>4. CASE s \notin SUBSET (1 .. k)
      <4>1. s \ {k + 1} \in SUBSET (1 .. k) /\ s # {} /\ MaxOf(s) = k + 1
        BY <2>2, <3>4
      <4>2. e[s] = LookOn(f[s \ {k + 1}], seq[k + 1])
        BY <3>4
      <4>3. e[s \ {k + 1}] = f[s \ {k + 1}]
        BY <3>2, <4>1
      <4> HIDE DEF e
      <4> QED
        BY <4>1, <4>2, <4>3
    <3> QED
      BY <3>3, <3>4
  <2>6. k + 1 \in 0 .. n
    BY <1>2
  <2> HIDE DEF e, Is
  <2>7. Has(k + 1)
    BY <2>5
  <2> HIDE DEF Has
  <2> QED
    BY <2>6, <2>7
<1>3. n \in T
  <2>1. n \in 0 .. n
    OBVIOUS
  <2> HIDE DEF T
  <2>2. 0 .. n \subseteq T
    BY <1>1, <1>2, Induction
  <2> QED
    BY <2>1, <2>2
<1> DEFINE Step(f) == [s \in SUBSET (DOMAIN seq) |->
                         IF s = {} THEN base ELSE LookOn(f[s \ {MaxOf(s)}], seq[MaxOf(s)])]
<1>4. \E f : f = Step(f)
  <2>1. PICK e : Is(e, n)
    BY <1>3
  <2> DEFINE f == [s \in SUBSET (DOMAIN seq) |-> e[s]]
  <2>2. ASSUME NEW s \in SUBSET (1 .. n)
        PROVE  f[s] = IF s = {} THEN base ELSE LookOn(f[s \ {MaxOf(s)}], seq[MaxOf(s)])
    <3>1. f[s] = e[s] /\ f[s \ {MaxOf(s)}] = e[s \ {MaxOf(s)}]
      OBVIOUS
    <3>2. e[s] = IF s = {} THEN base ELSE LookOn(e[s \ {MaxOf(s)}], seq[MaxOf(s)])
      BY <2>1
    <3> HIDE DEF f
    <3> QED
      BY <3>1, <3>2
  <2>3. f = [s \in SUBSET (DOMAIN seq) |-> f[s]]
    OBVIOUS
  <2> HIDE DEF f, Is
  <2>4. f = Step(f)
    BY <2>2, <2>3
  <2> HIDE DEF Step
  <2> QED
    BY <2>4
<1>5. PICK iter :
        /\ FoldLeft(LookOn, base, seq) = iter[DOMAIN seq]
        /\ iter = CHOOSE f : f = Step(f)
  BY DEF FoldLeft, MapThenFoldSet, Max, MaxOf
<1>6. iter = Step(iter)
  <2> HIDE DEF Step
  <2> QED
    BY <1>4, <1>5
<1>7. ASSUME NEW s \in SUBSET (1 .. n)
      PROVE  iter[s] = IF s = {} THEN base ELSE LookOn(iter[s \ {MaxOf(s)}], seq[MaxOf(s)])
  BY <1>6
<1> DEFINE h == [k \in 0 .. n |-> iter[1 .. k]]
<1>8. h[0] = base
  <2>1. 1 .. 0 = {} /\ {} \in SUBSET (1 .. n)
    OBVIOUS
  <2>2. iter[{}] = base
    BY <1>7, <2>1
  <2>3. h[0] = iter[1 .. 0]
    OBVIOUS
  <2> HIDE DEF h
  <2> QED
    BY <2>1, <2>2, <2>3
<1>9. ASSUME NEW k \in 1 .. n PROVE h[k] = LookOn(h[k - 1], seq[k])
  <2>1. MaxOf(1 .. k) = k /\ (1 .. k) \ {k} = 1 .. (k - 1) /\ 1 .. k # {} /\ 1 .. k \in SUBSET (1 .. n)
    BY MaxOfUpTo
  <2>2. iter[1 .. k] = LookOn(iter[1 .. (k - 1)], seq[k])
    BY <1>7, <2>1
  <2>3. h[k] = iter[1 .. k] /\ h[k - 1] = iter[1 .. (k - 1)]
    OBVIOUS
  <2> HIDE DEF h
  <2> QED
    BY <2>2, <2>3
<1>10. h[n] = FoldLeft(LookOn, base, seq)
  BY <1>5
<1> HIDE DEF h
<1> QED
  BY <1>8, <1>9, <1>10 DEF LooksOn

(* h is what the session goes through.                                     *)
TakesFrames(h, n, base, seq) ==
  /\ h[0] = base
  /\ \A k \in 1 .. n : h[k] = FrontendText(h[k - 1], seq[k])
  /\ h[n] = FoldLeft(FrontendText, base, seq)

(* The session takes one frame after the other.                            *)
LEMMA FramesFold ==
  ASSUME NEW n \in Nat, NEW base, NEW seq, DOMAIN seq = 1 .. n
  PROVE  \E h : TakesFrames(h, n, base, seq)
<1> DEFINE Is(f, k) == \A s \in SUBSET (1 .. k) :
             f[s] = IF s = {} THEN base ELSE FrontendText(f[s \ {MaxOf(s)}], seq[MaxOf(s)])
           Has(k) == \E f : Is(f, k)
           T == {k \in 0 .. n : Has(k)}
<1>1. 0 \in T
  <2> DEFINE f == [s \in SUBSET (1 .. 0) |-> base]
  <2>1. 1 .. 0 = {}
    OBVIOUS
  <2>2. Is(f, 0)
    BY <2>1
  <2>3. Has(0)
    <3> HIDE DEF f, Is
    <3> QED
      BY <2>2
  <2> HIDE DEF f, Is, Has
  <2> QED
    BY <2>3
<1>2. ASSUME NEW k \in 0 .. n, k \in T, k < n
      PROVE  k + 1 \in T
  <2>1. PICK f : Is(f, k)
    BY <1>2
  <2> DEFINE e == [s \in SUBSET (1 .. k + 1) |->
                     IF s \in SUBSET (1 .. k) THEN f[s] ELSE FrontendText(f[s \ {k + 1}], seq[k + 1])]
  <2>2. ASSUME NEW s \in SUBSET (1 .. k + 1), s \notin SUBSET (1 .. k)
        PROVE  s \ {k + 1} \in SUBSET (1 .. k) /\ s # {} /\ MaxOf(s) = k + 1
    <3> HIDE DEF e, T, Is, Has
    <3> QED
      BY <2>2, MaxOfLast
  <2>3. ASSUME NEW s \in SUBSET (1 .. k), s # {}
        PROVE  s \ {MaxOf(s)} \in SUBSET (1 .. k)
    OBVIOUS
  <2>5. Is(e, k + 1)
    <3>1. SUFFICES ASSUME NEW s \in SUBSET (1 .. k + 1)
                   PROVE  e[s] = IF s = {} THEN base ELSE FrontendText(e[s \ {MaxOf(s)}], seq[MaxOf(s)])
      OBVIOUS
    <3>2. \A t \in SUBSET (1 .. k) : t \in SUBSET (1 .. k + 1) /\ e[t] = f[t]
      OBVIOUS
    <3>3. CASE s \in SUBSET (1 .. k)
      <4>1. e[s] = f[s] /\ f[s] = IF s = {} THEN base ELSE FrontendText(f[s \ {MaxOf(s)}], seq[MaxOf(s)])
        BY <2>1, <3>2, <3>3
      <4>2. s # {} => e[s \ {MaxOf(s)}] = f[s \ {MaxOf(s)}]
        BY <2>3, <3>2, <3>3
      <4> HIDE DEF e
      <4> QED
        BY <4>1, <4>2
    <3>4. CASE s \notin SUBSET (1 .. k)
      <4>1. s \ {k + 1} \in SUBSET (1 .. k) /\ s # {} /\ MaxOf(s) = k + 1
        BY <2>2, <3>4
      <4>2. e[s] = FrontendText(f[s \ {k + 1}], seq[k + 1])
        BY <3>4
      <4>3. e[s \ {k + 1}] = f[s \ {k + 1}]
        BY <3>2, <4>1
      <4> HIDE DEF e
      <4> QED
        BY <4>1, <4>2, <4>3
    <3> QED
      BY <3>3, <3>4
  <2>6. k + 1 \in 0 .. n
    BY <1>2
  <2> HIDE DEF e, Is
  <2>7. Has(k + 1)
    BY <2>5
  <2> HIDE DEF Has
  <2> QED
    BY <2>6, <2>7
<1>3. n \in T
  <2>1. n \in 0 .. n
    OBVIOUS
  <2> HIDE DEF T
  <2>2. 0 .. n \subseteq T
    BY <1>1, <1>2, Induction
  <2> QED
    BY <2>1, <2>2
<1> DEFINE Step(f) == [s \in SUBSET (DOMAIN seq) |->
                         IF s = {} THEN base ELSE FrontendText(f[s \ {MaxOf(s)}], seq[MaxOf(s)])]
<1>4. \E f : f = Step(f)
  <2>1. PICK e : Is(e, n)
    BY <1>3
  <2> DEFINE f == [s \in SUBSET (DOMAIN seq) |-> e[s]]
  <2>2. ASSUME NEW s \in SUBSET (1 .. n)
        PROVE  f[s] = IF s = {} THEN base ELSE FrontendText(f[s \ {MaxOf(s)}], seq[MaxOf(s)])
    <3>1. f[s] = e[s] /\ f[s \ {MaxOf(s)}] = e[s \ {MaxOf(s)}]
      OBVIOUS
    <3>2. e[s] = IF s = {} THEN base ELSE FrontendText(e[s \ {MaxOf(s)}], seq[MaxOf(s)])
      BY <2>1
    <3> HIDE DEF f
    <3> QED
      BY <3>1, <3>2
  <2>3. f = [s \in SUBSET (DOMAIN seq) |-> f[s]]
    OBVIOUS
  <2> HIDE DEF f, Is
  <2>4. f = Step(f)
    BY <2>2, <2>3
  <2> HIDE DEF Step
  <2> QED
    BY <2>4
<1>5. PICK iter :
        /\ FoldLeft(FrontendText, base, seq) = iter[DOMAIN seq]
        /\ iter = CHOOSE f : f = Step(f)
  BY DEF FoldLeft, MapThenFoldSet, Max, MaxOf
<1>6. iter = Step(iter)
  <2> HIDE DEF Step
  <2> QED
    BY <1>4, <1>5
<1>7. ASSUME NEW s \in SUBSET (1 .. n)
      PROVE  iter[s] = IF s = {} THEN base ELSE FrontendText(iter[s \ {MaxOf(s)}], seq[MaxOf(s)])
  BY <1>6
<1> DEFINE h == [k \in 0 .. n |-> iter[1 .. k]]
<1>8. h[0] = base
  <2>1. 1 .. 0 = {} /\ {} \in SUBSET (1 .. n)
    OBVIOUS
  <2>2. iter[{}] = base
    BY <1>7, <2>1
  <2>3. h[0] = iter[1 .. 0]
    OBVIOUS
  <2> HIDE DEF h
  <2> QED
    BY <2>1, <2>2, <2>3
<1>9. ASSUME NEW k \in 1 .. n PROVE h[k] = FrontendText(h[k - 1], seq[k])
  <2>1. MaxOf(1 .. k) = k /\ (1 .. k) \ {k} = 1 .. (k - 1) /\ 1 .. k # {} /\ 1 .. k \in SUBSET (1 .. n)
    BY MaxOfUpTo
  <2>2. iter[1 .. k] = FrontendText(iter[1 .. (k - 1)], seq[k])
    BY <1>7, <2>1
  <2>3. h[k] = iter[1 .. k] /\ h[k - 1] = iter[1 .. (k - 1)]
    OBVIOUS
  <2> HIDE DEF h
  <2> QED
    BY <2>2, <2>3
<1>10. h[n] = FoldLeft(FrontendText, base, seq)
  BY <1>5
<1> HIDE DEF h
<1> QED
  BY <1>8, <1>9, <1>10 DEF TakesFrames

(* t is what the parser goes through when it looks at an object, o.        *)
IsTrack(t, o, l) ==
  /\ t[0] = NotFound
  /\ \A i \in 1 .. l - 1 : t[i] = Look(t[i - 1], o[i]) /\ t[i].found = FALSE /\ t[i].offset = i
  /\ Look(t[l - 1], o[l]).found = TRUE
  /\ Look(t[l - 1], o[l]).offset = l - 1

(* b is the beginning of o, or o and more.                                 *)
Begins(b, o, l) == \A i \in 1 .. Len(b) : i <= l => b[i] = o[i]

(* Nothing was found yet, and each character was looked at.                *)
LooksFor(t, i) == t[i].offset = i /\ t[i].found = FALSE

LEMMA TrackAt ==
  ASSUME NEW o, NEW l, NEW t, IsTrack(t, o, l), NEW i \in 0 .. l - 1
  PROVE  LooksFor(t, i)
<1>1. CASE i = 0
  BY <1>1 DEF IsTrack, NotFound, LooksFor
<1>2. CASE i # 0
  <2>1. i \in 1 .. l - 1
    BY <1>2
  <2> QED
    BY <2>1 DEF IsTrack, LooksFor
<1> QED
  BY <1>1, <1>2

(* What is found when n characters of the object or more are there.        *)
Finds(t, o, l, m) == IF m < l THEN t[m] ELSE Look(t[l - 1], o[l])

LEMMA FindIs ==
  ASSUME NEW C, NEW o, NEW l \in Nat \ {0}, NEW t, IsTrack(t, o, l),
         NEW b \in Seq(C), Begins(b, o, l),
         NEW off \in 0 .. l - 1, off <= Len(b)
  PROVE  FindCompleteObjectEnd([buffer |-> b, findState |-> t[off]]) = Finds(t, o, l, Len(b))
<1>1. PICK m \in Nat : m = Len(b)
  BY LenProperties
<1>2. off \in 0 .. l - 1 /\ off <= m /\ off \in Nat
  BY <1>1
<1>3. t[off].offset = off
  <2>1. LooksFor(t, off)
    BY TrackAt
  <2> QED
    BY <2>1 DEF LooksFor
<1>4. PICK n \in Nat : n = m - off
  BY <1>2
<1>5. PICK seq : seq = SubSeq(b, off + 1, m)
  OBVIOUS
<1>6. Len(seq) = n /\ DOMAIN seq = 1 .. n /\ \A k \in 1 .. n : seq[k] = b[off + k]
  <2>1. off + 1 \in Int /\ m \in Int
    BY <1>2
  <2>2. \A i \in off + 1 .. m : b[i] \in C
    BY <1>1, <1>2, ElementOfSeq
  <2>3. seq \in Seq(C) /\ Len(seq) = (IF off + 1 <= m THEN m - (off + 1) + 1 ELSE 0)
        /\ \A k \in 1 .. m - (off + 1) + 1 : seq[k] = b[off + 1 + k - 1]
    BY <1>5, <2>1, <2>2, SubSeqProperties
  <2>4. Len(seq) = n
    BY <1>2, <1>4, <2>3
  <2>5. \A k \in 1 .. n : k \in 1 .. m - (off + 1) + 1 /\ off + 1 + k - 1 = off + k
    BY <1>2, <1>4
  <2> QED
    BY <2>3, <2>4, <2>5, LenProperties
<1>7. FindCompleteObjectEnd([buffer |-> b, findState |-> t[off]]) = FoldLeft(LookOn, t[off], seq)
  BY <1>1, <1>3, <1>5 DEF FindCompleteObjectEnd
<1>8. PICK h : /\ h[0] = t[off]
               /\ \A k \in 1 .. n : h[k] = LookOn(h[k - 1], seq[k])
               /\ h[n] = FoldLeft(LookOn, t[off], seq)
  <2>1. PICK base : base = t[off]
    OBVIOUS
  <2>2. DOMAIN seq = 1 .. n
    BY <1>6
  <2>3. PICK h : LooksOn(h, n, base, seq)
    BY <2>2, LookFold
  <2> QED
    BY <2>1, <2>3 DEF LooksOn
<1> DEFINE End == Look(t[l - 1], o[l])
           Is(k) == h[k] = IF off + k < l THEN t[off + k] ELSE End
           T == {k \in 0 .. n : Is(k)}
<1>9. 0 \in T
  <2>1. off + 0 = off /\ off + 0 < l
    BY <1>2
  <2> QED
    BY <1>8, <2>1
<1>a. End.found = TRUE
  BY <1>1 DEF IsTrack
<1>10. ASSUME NEW k \in 0 .. n, k \in T, k < n PROVE k + 1 \in T
  <2>1. k + 1 \in 1 .. n /\ k + 1 \in 0 .. n /\ (k + 1) - 1 = k /\ k \in Nat
    BY <1>10
  <2>2. h[k + 1] = LookOn(h[k], seq[k + 1])
    BY <1>8, <2>1
  <2>3. seq[k + 1] = b[off + (k + 1)]
    BY <1>6, <2>1
  <2>4. h[k] = IF off + k < l THEN t[off + k] ELSE End
    BY <1>10
  <2>5. PICK i \in Nat : i = off + k
    BY <1>2, <2>1
  <2>6. off + (k + 1) = i + 1 /\ i + 1 \in 1 .. m /\ (i + 1) - 1 = i
    BY <1>2, <1>4, <2>1, <2>5
  <2> HIDE DEF End
  <2>7. CASE i < l
    <3>1. i + 1 <= l
      BY <2>7
    <3>2. b[i + 1] = o[i + 1]
      BY <1>1, <2>6, <3>1 DEF Begins
    <3>3. i \in 0 .. l - 1
      BY <1>1, <2>7
    <3>4. t[i].found = FALSE
      <4>1. LooksFor(t, i)
        BY <3>3, TrackAt
      <4> QED
        BY <4>1 DEF LooksFor
    <3>5. h[k + 1] = Look(t[i], o[i + 1])
      BY <2>2, <2>3, <2>4, <2>5, <2>6, <2>7, <3>2, <3>4 DEF LookOn
    <3>6. CASE i + 1 < l
      <4>1. i + 1 \in 1 .. l - 1
        BY <1>1, <3>6
      <4>2. t[i + 1] = Look(t[i], o[i + 1])
        BY <2>6, <4>1 DEF IsTrack
      <4> QED
        BY <2>1, <2>6, <3>5, <3>6, <4>2
    <3>7. CASE i + 1 = l
      <4>1. l - 1 = i
        BY <3>7
      <4>2. h[k + 1] = End
        BY <3>5, <3>7, <4>1 DEF End
      <4> QED
        BY <2>1, <2>6, <3>7, <4>2
    <3> QED
      BY <3>1, <3>6, <3>7
  <2>8. CASE ~(i < l)
    <3>1. h[k + 1] = End
      BY <1>a, <2>2, <2>4, <2>5, <2>8 DEF LookOn
    <3>2. ~(off + (k + 1) < l)
      BY <2>6, <2>8
    <3> QED
      BY <2>1, <3>1, <3>2
  <2> QED
    BY <2>7, <2>8
<1>11. Is(n)
  <2>1. n \in 0 .. n
    BY <1>4
  <2> HIDE DEF T
  <2>2. 0 .. n \subseteq T
    BY <1>9, <1>10, Induction
  <2>3. n \in T
    BY <2>1, <2>2
  <2> QED
    BY <2>3 DEF T
<1>12. off + n = m
  BY <1>2, <1>4
<1>13. h[n] = IF m < l THEN t[m] ELSE End
  BY <1>11, <1>12
<1> QED
  BY <1>1, <1>7, <1>8, <1>13 DEF Finds

(* What is popped of a buffer that begins with the object.                 *)
Popped(b, l) ==
  [popped |-> <<Object(SubSeq(b, 1, l))>>,
   parser |-> [buffer |-> SubSeq(b, l + 1, Len(b)), findState |-> NotFound]]

(* What the parser gives when m characters of the object or more are there.*)
PopOf(b, t, l, m) ==
  IF m < l THEN [popped |-> <<>>, parser |-> [buffer |-> b, findState |-> t[m]]] ELSE Popped(b, l)

(* The whole object is popped, once it is there.                           *)
LEMMA PopIs ==
  ASSUME NEW C, NEW o, NEW l \in Nat \ {0}, NEW t, IsTrack(t, o, l),
         NEW b \in Seq(C), Begins(b, o, l),
         NEW off \in 0 .. l - 1, off <= Len(b),
         NEW p, p = [buffer |-> b, findState |-> t[off]]
  PROVE  PopMessage(p) = PopOf(b, t, l, Len(b))
<1> DEFINE End == Look(t[l - 1], o[l])
<1>1. PICK m \in Nat : m = Len(b)
  BY LenProperties
<1>2. FindCompleteObjectEnd(p) = IF m < l THEN t[m] ELSE End
  <2>1. FindCompleteObjectEnd([buffer |-> b, findState |-> t[off]]) = Finds(t, o, l, Len(b))
    BY FindIs
  <2> QED
    BY <1>1, <2>1 DEF Finds
<1>3. CASE m < l
  <2>1. m \in 0 .. l - 1
    BY <1>1, <1>3
  <2>2. t[m].found = FALSE
    <3>1. LooksFor(t, m)
      BY <2>1, TrackAt
    <3> QED
      BY <3>1 DEF LooksFor
  <2>3. PopMessage(p) = [popped |-> <<>>, parser |-> [p EXCEPT !.findState = t[m]]]
    BY <1>2, <1>3, <2>2 DEF PopMessage
  <2>4. [p EXCEPT !.findState = t[m]] = [buffer |-> b, findState |-> t[m]]
    OBVIOUS
  <2> QED
    BY <1>1, <1>3, <2>3, <2>4 DEF PopOf
<1>4. CASE ~(m < l)
  <2>1. End.found = TRUE /\ End.offset = l - 1
    BY <1>1 DEF IsTrack
  <2>2. End.offset + 1 = l
    BY <2>1
  <2>3. p.buffer = b /\ Len(b) = m
    BY <1>1
  <2> HIDE DEF End
  <2>4. FindCompleteObjectEnd(p) = End
    BY <1>2, <1>4
  <2>5. PopMessage(p) = [popped |-> <<Object(SubSeq(b, 1, l))>>,
                         parser |-> [buffer |-> SubSeq(b, l + 1, m), findState |-> NotFound]]
    BY <2>1, <2>2, <2>3, <2>4 DEF PopMessage
  <2> QED
    BY <1>1, <1>4, <2>5 DEF PopOf, Popped
<1> QED
  BY <1>3, <1>4

(* s is what is in S behind a, up to b.                                    *)
IsPiece(s, C, S, a, b) ==
  /\ s \in Seq(C)
  /\ a + Len(s) = b
  /\ \A i \in 1 .. Len(s) : s[i] = S[a + i]

LEMMA SubSeqIsPiece ==
  ASSUME NEW C, NEW S \in Seq(C), NEW a \in Nat, NEW b \in Nat, a <= b, b <= Len(S)
  PROVE  IsPiece(SubSeq(S, a + 1, b), C, S, a, b)
<1>1. PICK s : s = SubSeq(S, a + 1, b)
  OBVIOUS
<1>2. Len(S) \in Nat
  BY LenProperties
<1>3. \A i \in a + 1 .. b : S[i] \in C
  BY <1>2, ElementOfSeq
<1>4. s \in Seq(C) /\ Len(s) = (IF a + 1 <= b THEN b - (a + 1) + 1 ELSE 0)
      /\ \A k \in 1 .. b - (a + 1) + 1 : s[k] = S[a + 1 + k - 1]
  <2>1. a + 1 \in Int /\ b \in Int
    OBVIOUS
  <2> QED
    BY <1>1, <1>3, <2>1, SubSeqProperties
<1>5. Len(s) = b - a
  BY <1>4
<1>6. \A k \in 1 .. b - a : k \in 1 .. b - (a + 1) + 1 /\ a + 1 + k - 1 = a + k
  OBVIOUS
<1> QED
  BY <1>1, <1>4, <1>5, <1>6 DEF IsPiece

LEMMA PiecesJoin ==
  ASSUME NEW C, NEW S, NEW a \in Nat, NEW b \in Nat, NEW c \in Nat, NEW s, NEW t,
         IsPiece(s, C, S, a, b), IsPiece(t, C, S, b, c)
  PROVE  IsPiece(s \o t, C, S, a, c)
<1>1. s \in Seq(C) /\ t \in Seq(C)
  BY DEF IsPiece
<1>2. PICK m \in Nat, n \in Nat : m = Len(s) /\ n = Len(t)
  BY <1>1, LenProperties
<1>3. a + m = b /\ b + n = c
  BY <1>2 DEF IsPiece
<1>4. PICK u : u = s \o t
  OBVIOUS
<1>5. u \in Seq(C) /\ Len(u) = m + n /\ \A i \in 1 .. m + n : u[i] = IF i <= m THEN s[i] ELSE t[i - m]
  BY <1>1, <1>2, <1>4, ConcatProperties
<1>6. ASSUME NEW i \in 1 .. m + n PROVE u[i] = S[a + i]
  <2>1. CASE i <= m
    <3>1. i \in 1 .. Len(s)
      BY <1>2, <2>1
    <3>2. s[i] = S[a + i]
      BY <3>1 DEF IsPiece
    <3> QED
      BY <1>5, <2>1, <3>2
  <2>2. CASE ~(i <= m)
    <3>1. i - m \in 1 .. Len(t) /\ b + (i - m) = a + i
      BY <1>2, <1>3, <2>2
    <3>2. t[i - m] = S[b + (i - m)]
      BY <3>1 DEF IsPiece
    <3> QED
      BY <1>5, <2>2, <3>1, <3>2
  <2> QED
    BY <2>1, <2>2
<1>7. a + (m + n) = c
  BY <1>3
<1> QED
  BY <1>4, <1>5, <1>6, <1>7 DEF IsPiece

LEMMA PieceRest ==
  ASSUME NEW C, NEW S, NEW a \in Nat, NEW c \in Nat, NEW s, IsPiece(s, C, S, a, c),
         NEW l \in Nat, l <= Len(s)
  PROVE  IsPiece(SubSeq(s, l + 1, Len(s)), C, S, a + l, c)
<1>1. s \in Seq(C)
  BY DEF IsPiece
<1>2. PICK n \in Nat : n = Len(s)
  BY <1>1, LenProperties
<1>3. PICK u : u = SubSeq(s, l + 1, n)
  OBVIOUS
<1>4. IsPiece(u, C, s, l, n)
  <2>1. l <= n /\ n <= Len(s)
    BY <1>2
  <2>2. IsPiece(SubSeq(s, l + 1, n), C, s, l, n)
    BY <1>1, <2>1, SubSeqIsPiece
  <2> QED
    BY <1>3, <2>2
<1>5. u \in Seq(C) /\ l + Len(u) = n /\ \A i \in 1 .. Len(u) : u[i] = s[l + i]
  BY <1>4 DEF IsPiece
<1>6. PICK m \in Nat : m = Len(u)
  BY <1>5, LenProperties
<1>7. a + n = c /\ (a + l) + m = c
  <2>1. a + Len(s) = c
    BY DEF IsPiece
  <2>2. l + m = n
    BY <1>5, <1>6
  <2> QED
    BY <1>2, <2>1, <2>2
<1>8. ASSUME NEW i \in 1 .. m PROVE u[i] = S[(a + l) + i]
  <2>1. u[i] = s[l + i]
    BY <1>5, <1>6
  <2>2. l + i \in 1 .. Len(s) /\ a + (l + i) = (a + l) + i
    BY <1>2, <1>5, <1>6
  <2>3. s[l + i] = S[a + (l + i)]
    BY <2>2 DEF IsPiece
  <2> QED
    BY <2>1, <2>2, <2>3
<1> QED
  BY <1>2, <1>3, <1>5, <1>6, <1>7, <1>8 DEF IsPiece

(* o stands in S behind a.                                                 *)
Stands(S, a, o) == \A i \in 1 .. Len(o) : S[a + i] = o[i]

LEMMA PieceBegin ==
  ASSUME NEW C, NEW S, NEW a \in Nat, NEW c \in Nat, NEW s, IsPiece(s, C, S, a, c),
         NEW o \in Seq(C), Len(o) <= Len(s), Stands(S, a, o)
  PROVE  SubSeq(s, 1, Len(o)) = o
<1>1. s \in Seq(C)
  BY DEF IsPiece
<1>2. PICK n \in Nat, l \in Nat : n = Len(s) /\ l = Len(o)
  BY <1>1, LenProperties
<1>3. PICK u : u = SubSeq(s, 1, l)
  OBVIOUS
<1>4. IsPiece(u, C, s, 0, l)
  <2>1. IsPiece(SubSeq(s, 0 + 1, l), C, s, 0, l)
    BY <1>1, <1>2, SubSeqIsPiece
  <2> QED
    BY <1>3, <2>1
<1>5. u \in Seq(C) /\ 0 + Len(u) = l /\ \A i \in 1 .. Len(u) : u[i] = s[0 + i]
  BY <1>4 DEF IsPiece
<1>6. Len(u) = l
  BY <1>5, LenProperties
<1>7. ASSUME NEW i \in 1 .. l PROVE u[i] = o[i]
  <2>1. i \in 1 .. Len(s) /\ 0 + i = i
    BY <1>2
  <2>2. s[i] = S[a + i]
    BY <2>1 DEF IsPiece
  <2> QED
    BY <1>2, <1>5, <1>6, <2>1, <2>2 DEF Stands
<1>8. u = o
  BY <1>2, <1>5, <1>6, <1>7, SeqEqual
<1> QED
  BY <1>2, <1>3, <1>8

(* S is the text of N objects one behind the other; L says how long that   *)
(* of the first ones is, and T what the parser goes through for each.      *)
IsCut(C, objects, N, S, L, T) ==
  /\ S \in Seq(C)
  /\ L \in [0 .. N -> Nat] /\ L[0] = 0 /\ L[N] = Len(S)
  /\ \A n \in 1 .. N :
       /\ objects[n] \in Seq(C) /\ objects[n] # <<>>
       /\ L[n] = L[n - 1] + Len(objects[n])
       /\ Stands(S, L[n - 1], objects[n])
       /\ IsTrack(T[n], objects[n], Len(objects[n]))

(* The messages the first objects are.                                     *)
FirstOnes(objects, j) == [n \in 1 .. j |-> Object(objects[n])]

(* When e characters have arrived, j objects were taken; what is left of   *)
(* the text is in the buffer, and the parser has not looked at more of it  *)
(* than there is, nor at all of the next object.                           *)
IsAfter(session, C, objects, N, S, L, T, j, e) ==
  \E b, f :
    /\ session = [parser |-> [buffer |-> b, findState |-> f], messages |-> FirstOnes(objects, j)]
    /\ IsPiece(b, C, S, L[j], e)
    /\ j = N => f = NotFound
    /\ j < N => \E off \in 0 .. Len(objects[j + 1]) - 1 : off <= Len(b) /\ f = T[j + 1][off]

(* The message of one more object.                                         *)
LEMMA OneMore ==
  ASSUME NEW objects, NEW j \in Nat
  PROVE  FirstOnes(objects, j) \o <<Object(objects[j + 1])>> = FirstOnes(objects, j + 1)
<1> DEFINE M == {Object(objects[n]) : n \in 1 .. j + 1}
<1>1. PICK s : s = FirstOnes(objects, j)
  OBVIOUS
<1>2. s \in [1 .. j -> M] /\ \A n \in 1 .. j : s[n] = Object(objects[n])
  BY <1>1 DEF FirstOnes
<1>3. s \in Seq(M) /\ Len(s) = j
  <2> HIDE DEF M
  <2>1. s \in Seq(M)
    BY <1>2, SeqDef
  <2>2. Len(s) \in Nat /\ DOMAIN s = 1 .. Len(s)
    BY <2>1, LenProperties
  <2> QED
    BY <1>2, <2>1, <2>2
<1>4. PICK x : x = Object(objects[j + 1])
  OBVIOUS
<1>5. x \in M
  BY <1>4
<1>6. <<x>> \in Seq(M) /\ Len(<<x>>) = 1 /\ <<x>>[1] = x
  BY <1>5
<1>7. PICK u : u = s \o <<x>>
  OBVIOUS
<1>8. u \in Seq(M) /\ Len(u) = j + 1 /\ \A i \in 1 .. j + 1 : u[i] = IF i <= j THEN s[i] ELSE <<x>>[i - j]
  <2> HIDE DEF M
  <2> QED
    BY <1>3, <1>6, <1>7, ConcatProperties
<1>9. ASSUME NEW i \in 1 .. j + 1 PROVE u[i] = Object(objects[i])
  <2>1. CASE i <= j
    <3>1. i \in 1 .. j
      BY <2>1
    <3> QED
      BY <1>2, <1>8, <2>1, <3>1
  <2>2. CASE i = j + 1
    <3>1. i - j = 1 /\ ~(i <= j)
      BY <2>2
    <3>2. u[i] = x
      BY <1>6, <1>8, <3>1
    <3> QED
      BY <1>4, <2>2, <3>2
  <2> QED
    BY <2>1, <2>2
<1>10. DOMAIN u = 1 .. j + 1
  BY <1>8, LenProperties
<1>11. u = [i \in DOMAIN u |-> u[i]]
  BY <1>8
<1>12. u = FirstOnes(objects, j + 1)
  <2> HIDE DEF M
  <2> QED
    BY <1>9, <1>10, <1>11 DEF FirstOnes
<1> QED
  BY <1>1, <1>4, <1>7, <1>12

(* The buffer begins with the next object, as far as it has arrived.       *)
LEMMA NextBegins ==
  ASSUME NEW C, NEW S, NEW a \in Nat, NEW e \in Nat, NEW b, IsPiece(b, C, S, a, e),
         NEW o \in Seq(C), Stands(S, a, o)
  PROVE  Begins(b, o, Len(o))
<1>1. b \in Seq(C) /\ \A i \in 1 .. Len(b) : b[i] = S[a + i]
  BY DEF IsPiece
<1>2. PICK n \in Nat, l \in Nat : n = Len(b) /\ l = Len(o)
  BY <1>1, LenProperties
<1>3. ASSUME NEW i \in 1 .. n, i <= l PROVE b[i] = o[i]
  <2>1. i \in 1 .. l
    BY <1>3
  <2> QED
    BY <1>1, <1>2, <2>1 DEF Stands
<1> QED
  BY <1>2, <1>3 DEF Begins

(* With nothing in the buffer nothing is found.                            *)
LEMMA NothingIsFound ==
  ASSUME NEW p, p = [buffer |-> <<>>, findState |-> NotFound]
  PROVE  PopMessage(p) = [popped |-> <<>>, parser |-> p]
<1>1. PICK seq : seq = SubSeq(<<>>, 1, 0)
  OBVIOUS
<1>2. DOMAIN seq = 1 .. 0
  BY <1>1
<1>3. PICK base : base = NotFound
  OBVIOUS
<1>4. PICK h : LooksOn(h, 0, base, seq)
  BY <1>2, LookFold
<1>5. FoldLeft(LookOn, base, seq) = base
  BY <1>4 DEF LooksOn
<1>6. NotFound.offset = 0 /\ NotFound.found = FALSE
  BY DEF NotFound
<1>7. FindCompleteObjectEnd(p) = NotFound
  <2>1. Len(<<>>) = 0 /\ 0 + 1 = 1
    BY EmptySeq
  <2>2. p.buffer = <<>> /\ p.findState = NotFound
    OBVIOUS
  <2> QED
    BY <1>1, <1>3, <1>5, <1>6, <2>1, <2>2 DEF FindCompleteObjectEnd
<1>8. [p EXCEPT !.findState = NotFound] = p
  <2>1. p = [buffer |-> <<>>, findState |-> base]
    BY <1>3
  <2>2. [p EXCEPT !.findState = base] = p
    BY <2>1
  <2> QED
    BY <1>3, <2>2
<1> QED
  BY <1>6, <1>7, <1>8 DEF PopMessage

(* No object begins behind the text.                                       *)
LEMMA LengthsGrow ==
  ASSUME NEW C, NEW objects, NEW N \in Nat, NEW S, NEW L, NEW T, IsCut(C, objects, N, S, L, T),
         NEW j \in 0 .. N
  PROVE  L[j] <= Len(S)
<1>1. L \in [0 .. N -> Nat] /\ L[N] = Len(S)
  BY DEF IsCut
<1> DEFINE U == {k \in 0 .. N : L[N - k] <= L[N]}
<1>2. 0 \in U
  <2>1. N - 0 = N /\ 0 \in 0 .. N /\ N \in 0 .. N
    OBVIOUS
  <2>2. L[N] \in Nat
    BY <1>1, <2>1
  <2> QED
    BY <2>1, <2>2
<1>3. ASSUME NEW k \in 0 .. N, k \in U, k < N PROVE k + 1 \in U
  <2>1. PICK i \in 1 .. N : i = N - k
    BY <1>3
  <2>2. i - 1 = N - (k + 1) /\ i \in 0 .. N /\ i - 1 \in 0 .. N /\ k + 1 \in 0 .. N
    BY <1>3, <2>1
  <2>3. L[i] = L[i - 1] + Len(objects[i]) /\ objects[i] \in Seq(C)
    BY DEF IsCut
  <2>4. PICK x \in Nat, y \in Nat, z \in Nat, l \in Nat :
          x = L[i - 1] /\ y = L[i] /\ z = L[N] /\ l = Len(objects[i])
    BY <1>1, <2>2, <2>3, LenProperties
  <2>5. y <= z
    BY <1>3, <2>1, <2>4
  <2>6. x <= z
    BY <2>3, <2>4, <2>5
  <2> QED
    BY <2>2, <2>4, <2>6
<1>4. 0 .. N \subseteq U
  <2> HIDE DEF U
  <2> QED
    BY <1>2, <1>3, Induction
<1>5. N - j \in 0 .. N /\ N - (N - j) = j
  OBVIOUS
<1>6. N - j \in U
  BY <1>4, <1>5
<1> QED
  BY <1>1, <1>5, <1>6

(* A frame is taken: either no object is complete and all were looked at,  *)
(* or one more is taken; none is left behind when all of them are there.   *)
LEMMA FrameIsTaken ==
  ASSUME NEW C, NEW objects, NEW N \in Nat, NEW S, NEW L, NEW T, IsCut(C, objects, N, S, L, T),
         NEW j \in 0 .. N, NEW e \in Nat, NEW d \in Nat, e <= d, d <= Len(S),
         NEW session, IsAfter(session, C, objects, N, S, L, T, j, e),
         NEW text, text = SubSeq(S, e + 1, d)
  PROVE  \/ /\ IsAfter(FrontendText(session, text), C, objects, N, S, L, T, j, d)
            /\ d = Len(S) => j = N
         \/ /\ j < N
            /\ IsAfter(FrontendText(session, text), C, objects, N, S, L, T, j + 1, d)
<1>1. PICK b, f : 
        /\ session = [parser |-> [buffer |-> b, findState |-> f], messages |-> FirstOnes(objects, j)]
        /\ IsPiece(b, C, S, L[j], e)
        /\ j = N => f = NotFound
        /\ j < N => \E off \in 0 .. Len(objects[j + 1]) - 1 : off <= Len(b) /\ f = T[j + 1][off]
  BY DEF IsAfter
<1>2. S \in Seq(C) /\ L \in [0 .. N -> Nat] /\ L[N] = Len(S)
  BY DEF IsCut
<1>3. PICK a \in Nat, z \in Nat : a = L[j] /\ z = Len(S)
  BY <1>2, LenProperties
<1>4. PICK c : c = b \o text
  OBVIOUS
<1>5. IsPiece(c, C, S, a, d)
  <2>1. IsPiece(b, C, S, a, e)
    BY <1>1, <1>3
  <2>2. IsPiece(text, C, S, e, d)
    <3>1. IsPiece(SubSeq(S, e + 1, d), C, S, e, d)
      BY <1>2, SubSeqIsPiece
    <3> QED
      BY <3>1
  <2>3. IsPiece(b \o text, C, S, a, d)
    BY <2>1, <2>2, PiecesJoin
  <2> QED
    BY <1>4, <2>3
<1>6. PICK p : p = [buffer |-> c, findState |-> f]
  OBVIOUS
<1>7. PICK ms : ms = FirstOnes(objects, j)
  OBVIOUS
<1>8. FrontendText(session, text) = [parser |-> PopMessage(p).parser, messages |-> ms \o PopMessage(p).popped]
  <2>1. session.parser = [buffer |-> b, findState |-> f] /\ session.messages = ms
    BY <1>1, <1>7
  <2>2. Feed(session.parser, text) = p
    <3>1. [[buffer |-> b, findState |-> f] EXCEPT !.buffer = c] = [buffer |-> c, findState |-> f]
      OBVIOUS
    <3>2. PICK q : q = session.parser
      OBVIOUS
    <3>3. q.buffer \o text = c
      <4>1. q.buffer = b
        BY <2>1, <3>2
      <4> QED
        BY <1>4, <4>1
    <3>4. Feed(q, text) = [q EXCEPT !.buffer = c]
      BY <3>3 DEF Feed
    <3> QED
      BY <1>6, <2>1, <3>1, <3>2, <3>4
  <2> QED
    BY <2>1, <2>2 DEF FrontendText
<1>9. c \in Seq(C) /\ a + Len(c) = d
  BY <1>5 DEF IsPiece
<1>10. PICK n \in Nat : n = Len(c) /\ a + n = d
  BY <1>9, LenProperties
<1>11. PICK M : ms \in Seq(M)
  <2> DEFINE M == {Object(objects[i]) : i \in 1 .. j}
  <2>1. j \in Nat /\ ms \in [1 .. j -> M]
    BY <1>7 DEF FirstOnes
  <2>2. ms \in Seq(M)
    <3> HIDE DEF M
    <3> QED
      BY <2>1, SeqDef
  <2> QED
    BY <2>2
<1>12. ms \o <<>> = ms
  BY <1>11, ConcatEmptySeq
<1>13. CASE j = N
  <2>1. a = z
    BY <1>2, <1>3, <1>13
  <2>2. n = 0 /\ d = z
    BY <1>3, <1>10, <2>1
  <2>3. c = <<>>
    BY <1>9, <1>10, <2>2, EmptySeq
  <2>4. f = NotFound
    BY <1>1, <1>13
  <2>5. PopMessage(p) = [popped |-> <<>>, parser |-> p]
    BY <1>6, <2>3, <2>4, NothingIsFound
  <2>6. FrontendText(session, text) = [parser |-> p, messages |-> ms]
    BY <1>8, <1>12, <2>5
  <2>7. ~(j < N)
    BY <1>13
  <2>8. IsAfter(FrontendText(session, text), C, objects, N, S, L, T, j, d)
    BY <1>3, <1>5, <1>6, <1>7, <1>13, <2>4, <2>6, <2>7 DEF IsAfter
  <2> QED
    BY <1>13, <2>8
<1>14. CASE j < N
  <2>1. j + 1 \in 1 .. N /\ (j + 1) - 1 = j /\ j + 1 \in 0 .. N /\ j \in Nat
    BY <1>14
  <2>2. PICK o, t : o = objects[j + 1] /\ t = T[j + 1]
    OBVIOUS
  <2>3. /\ o \in Seq(C) /\ o # <<>>
        /\ L[j + 1] = L[j] + Len(o)
        /\ Stands(S, L[j], o)
        /\ IsTrack(t, o, Len(o))
    BY <2>1, <2>2 DEF IsCut
  <2>4. PICK l \in Nat \ {0} : l = Len(o)
    BY <2>3, LenProperties, EmptySeq
  <2>5. PICK off \in 0 .. l - 1 : off <= Len(b) /\ f = t[off]
    BY <1>1, <1>14, <2>2, <2>4
  <2>6. off <= Len(c)
    <3>1. b \in Seq(C) /\ a + Len(b) = e
      BY <1>1, <1>3 DEF IsPiece
    <3>2. PICK k \in Nat : k = Len(b)
      BY <3>1, LenProperties
    <3> QED
      BY <1>10, <2>5, <3>1, <3>2
  <2>7. Stands(S, a, o)
    BY <1>3, <2>3
  <2>8. Begins(c, o, l)
    <3>1. Begins(c, o, Len(o))
      BY <1>5, <2>3, <2>7, NextBegins
    <3> QED
      BY <2>4, <3>1
  <2>9. IsTrack(t, o, l)
    BY <2>3, <2>4
  <2>10. p = [buffer |-> c, findState |-> t[off]]
    BY <1>6, <2>5
  <2>11. PopMessage(p) = PopOf(c, t, l, Len(c))
    BY <1>9, <2>6, <2>8, <2>9, <2>10, PopIs
  <2>12. CASE n < l
    <3>1. PICK g : g = t[n]
      OBVIOUS
    <3>2. PopMessage(p) = [popped |-> <<>>, parser |-> [buffer |-> c, findState |-> g]]
      BY <1>10, <2>11, <2>12, <3>1 DEF PopOf
    <3>3. FrontendText(session, text) = [parser |-> [buffer |-> c, findState |-> g], messages |-> ms]
      BY <1>8, <1>12, <3>2
    <3>4. n \in 0 .. Len(objects[j + 1]) - 1 /\ n <= Len(c) /\ g = T[j + 1][n]
      BY <1>10, <2>2, <2>4, <2>12, <3>1
    <3>5. IsAfter(FrontendText(session, text), C, objects, N, S, L, T, j, d)
      <4>1. j < N => \E off2 \in 0 .. Len(objects[j + 1]) - 1 : off2 <= Len(c) /\ g = T[j + 1][off2]
        BY <3>4
      <4>2. j = N => g = NotFound
        BY <1>14
      <4>3. IsPiece(c, C, S, L[j], d)
        BY <1>3, <1>5
      <4>4. FrontendText(session, text) = [parser |-> [buffer |-> c, findState |-> g], messages |-> FirstOnes(objects, j)]
        BY <1>7, <3>3
      <4> QED
        BY <4>1, <4>2, <4>3, <4>4 DEF IsAfter
    <3>6. ~(d = Len(S))
      <4>1. L[j + 1] = a + l
        BY <1>3, <2>3, <2>4
      <4>2. L[j + 1] <= z
        BY <1>2, <1>3, <2>1, LengthsGrow
      <4> QED
        BY <1>3, <1>10, <2>12, <4>1, <4>2
    <3> QED
      BY <3>5, <3>6
  <2>13. CASE ~(n < l)
    <3>1. l <= n
      BY <2>13
    <3>2. PopMessage(p) = [popped |-> <<Object(SubSeq(c, 1, l))>>,
                           parser |-> [buffer |-> SubSeq(c, l + 1, n), findState |-> NotFound]]
      BY <1>10, <2>11, <2>13 DEF PopOf, Popped
    <3>3. SubSeq(c, 1, l) = o
      <4>1. SubSeq(c, 1, Len(o)) = o
        <5>1. Len(o) <= Len(c)
          BY <1>10, <2>4, <3>1
        <5> QED
          BY <1>5, <1>10, <2>3, <2>7, <5>1, PieceBegin
      <4> QED
        BY <2>4, <4>1
    <3>4. PICK r : r = SubSeq(c, l + 1, n)
      OBVIOUS
    <3>5. ms \o <<Object(o)>> = FirstOnes(objects, j + 1)
      BY <1>7, <2>1, <2>2, OneMore
    <3>6. FrontendText(session, text) =
            [parser |-> [buffer |-> r, findState |-> NotFound], messages |-> FirstOnes(objects, j + 1)]
      <4>1. PopMessage(p).popped = <<Object(o)>> /\ PopMessage(p).parser = [buffer |-> r, findState |-> NotFound]
        <5>1. PICK x : x = Object(o)
          OBVIOUS
        <5>2. PopMessage(p) = [popped |-> <<x>>, parser |-> [buffer |-> r, findState |-> NotFound]]
          BY <3>2, <3>3, <3>4, <5>1
        <5> QED
          BY <5>1, <5>2
      <4> QED
        BY <1>8, <3>5, <4>1
    <3>7. IsPiece(r, C, S, L[j + 1], d)
      <4>1. L[j + 1] = a + l
        BY <1>3, <2>3, <2>4
      <4>2. IsPiece(SubSeq(c, l + 1, Len(c)), C, S, a + l, d)
        BY <1>5, <1>10, <3>1, PieceRest
      <4> QED
        BY <1>10, <3>4, <4>1, <4>2
    <3>8. j + 1 < N => \E off2 \in 0 .. Len(objects[(j + 1) + 1]) - 1 :
                          off2 <= Len(r) /\ NotFound = T[(j + 1) + 1][off2]
      <4> SUFFICES ASSUME j + 1 < N
                   PROVE  0 \in 0 .. Len(objects[(j + 1) + 1]) - 1 /\ 0 <= Len(r)
                            /\ NotFound = T[(j + 1) + 1][0]
        OBVIOUS
      <4>1. (j + 1) + 1 \in 1 .. N
        BY <2>1
      <4>2. PICK o2, t2 : o2 = objects[(j + 1) + 1] /\ t2 = T[(j + 1) + 1]
        OBVIOUS
      <4>3. o2 \in Seq(C) /\ o2 # <<>> /\ IsTrack(t2, o2, Len(o2))
        BY <4>1, <4>2 DEF IsCut
      <4>4. t2[0] = NotFound
        BY <4>3 DEF IsTrack
      <4>5. Len(o2) \in Nat /\ Len(o2) # 0
        BY <4>3, LenProperties, EmptySeq
      <4>6. r \in Seq(C)
        BY <3>7 DEF IsPiece
      <4>7. Len(r) \in Nat
        BY <4>6, LenProperties
      <4>8. 0 \in 0 .. Len(o2) - 1
        BY <4>5
      <4> QED
        BY <4>2, <4>4, <4>7, <4>8
    <3>9. IsAfter(FrontendText(session, text), C, objects, N, S, L, T, j + 1, d)
      BY <3>6, <3>7, <3>8 DEF IsAfter
    <3> QED
      BY <1>14, <3>9
  <2> QED
    BY <2>12, <2>13
<1> QED
  BY <1>13, <1>14

(* Before the first frame nothing was taken.                               *)
LEMMA NothingIsTaken ==
  ASSUME NEW C, NEW objects, NEW N \in Nat, NEW S, NEW L, NEW T, IsCut(C, objects, N, S, L, T),
         NEW session, session = [parser |-> Fresh, messages |-> <<>>]
  PROVE  IsAfter(session, C, objects, N, S, L, T, 0, 0)
<1>1. FirstOnes(objects, 0) = <<>>
  <2>1. 1 .. 0 = {}
    OBVIOUS
  <2>2. FirstOnes(objects, 0) = [n \in {} |-> Object(objects[n])]
    BY <2>1 DEF FirstOnes
  <2>3. PICK s : s = FirstOnes(objects, 0)
    OBVIOUS
  <2>4. s \in [1 .. 0 -> {}]
    BY <2>1, <2>2, <2>3
  <2>5. s \in Seq({})
    BY <2>4, SeqDef
  <2>6. Len(s) \in Nat /\ DOMAIN s = 1 .. Len(s) /\ DOMAIN s = {}
    BY <2>1, <2>4, <2>5, LenProperties
  <2>7. Len(s) = 0
    BY <2>6
  <2>8. s = <<>>
    BY <2>5, <2>7, EmptySeq
  <2> QED
    BY <2>3, <2>8
<1>2. L[0] = 0 /\ <<>> \in Seq(C) /\ Len(<<>>) = 0
  BY EmptySeq DEF IsCut
<1>3. IsPiece(<<>>, C, S, L[0], 0)
  BY <1>2 DEF IsPiece
<1>4. 0 < N => \E off \in 0 .. Len(objects[0 + 1]) - 1 : off <= Len(<<>>) /\ NotFound = T[0 + 1][off]
  <2> SUFFICES ASSUME 0 < N
               PROVE  0 \in 0 .. Len(objects[0 + 1]) - 1 /\ 0 <= Len(<<>>) /\ NotFound = T[0 + 1][0]
    OBVIOUS
  <2>1. 0 + 1 = 1 /\ 1 \in 1 .. N
    OBVIOUS
  <2>2. PICK o, t : o = objects[1] /\ t = T[1]
    OBVIOUS
  <2>3. o \in Seq(C) /\ o # <<>> /\ IsTrack(t, o, Len(o))
    BY <2>1, <2>2 DEF IsCut
  <2>4. t[0] = NotFound
    BY <2>3 DEF IsTrack
  <2>5. Len(o) \in Nat /\ Len(o) # 0
    BY <2>3, LenProperties, EmptySeq
  <2>6. 0 \in 0 .. Len(o) - 1
    BY <2>5
  <2> QED
    BY <1>2, <2>1, <2>2, <2>4, <2>6
<1>5. session = [parser |-> [buffer |-> <<>>, findState |-> NotFound], messages |-> FirstOnes(objects, 0)]
  BY <1>1 DEF Fresh
<1> QED
  BY <1>3, <1>4, <1>5 DEF IsAfter

(* The n frames are the text up to ends[n], one behind the other; from the *)
(* third on they are empty, as all of it has been sent.                    *)
AreFrames(texts, n, S, ends) ==
  /\ DOMAIN texts = 1 .. n
  /\ ends \in [0 .. n -> Nat] /\ ends[0] = 0
  /\ \A k \in 1 .. n : /\ ends[k - 1] <= ends[k] /\ ends[k] <= Len(S)
                       /\ texts[k] = SubSeq(S, ends[k - 1] + 1, ends[k])
                       /\ k >= 3 => ends[k] = Len(S)

(* One object was taken for each frame, once all the text was there.       *)
KeepsUp(N, j, k) == j = N \/ j >= k - 3

(* What the session is after the frames.                                   *)
Takes(session, C, objects, N, S, L, T, n, e) ==
  \E j \in 0 .. N : IsAfter(session, C, objects, N, S, L, T, j, e) /\ KeepsUp(N, j, n)

LEMMA FramesAreTaken ==
  ASSUME NEW C, NEW objects, NEW N \in Nat, NEW S, NEW L, NEW T, IsCut(C, objects, N, S, L, T),
         NEW n \in Nat, NEW texts, NEW ends, AreFrames(texts, n, S, ends)
  PROVE  Takes(Frames(texts), C, objects, N, S, L, T, n, ends[n])
<1>1. DOMAIN texts = 1 .. n /\ ends \in [0 .. n -> Nat] /\ ends[0] = 0
  BY DEF AreFrames
<1>2. PICK base : base = [parser |-> Fresh, messages |-> <<>>]
  OBVIOUS
<1>3. PICK h : /\ h[0] = base
               /\ \A k \in 1 .. n : h[k] = FrontendText(h[k - 1], texts[k])
               /\ h[n] = FoldLeft(FrontendText, base, texts)
  <2>1. PICK h : TakesFrames(h, n, base, texts)
    BY <1>1, FramesFold
  <2> QED
    BY <2>1 DEF TakesFrames
<1>4. h[n] = Frames(texts)
  BY <1>2, <1>3 DEF Frames
<1> DEFINE U == {k \in 0 .. n : Takes(h[k], C, objects, N, S, L, T, k, ends[k])}
<1>5. 0 \in U
  <2>1. IsAfter(base, C, objects, N, S, L, T, 0, 0)
    BY <1>2, NothingIsTaken
  <2>2. KeepsUp(N, 0, 0) /\ 0 \in 0 .. N /\ 0 \in 0 .. n
    BY DEF KeepsUp
  <2>3. Takes(h[0], C, objects, N, S, L, T, 0, ends[0])
    BY <1>1, <1>3, <2>1, <2>2 DEF Takes
  <2> QED
    BY <2>2, <2>3
<1>6. ASSUME NEW k \in 0 .. n, k \in U, k < n PROVE k + 1 \in U
  <2>1. k + 1 \in 1 .. n /\ (k + 1) - 1 = k /\ k + 1 \in 0 .. n
    BY <1>6
  <2>2. PICK e \in Nat, d \in Nat : e = ends[k] /\ d = ends[k + 1]
    BY <1>1, <2>1
  <2>3. e <= d /\ d <= Len(S) /\ texts[k + 1] = SubSeq(S, e + 1, d) /\ (k + 1 >= 3 => d = Len(S))
    BY <2>1, <2>2 DEF AreFrames
  <2>4. PICK j \in 0 .. N : IsAfter(h[k], C, objects, N, S, L, T, j, e) /\ KeepsUp(N, j, k)
    BY <1>6, <2>2 DEF Takes
  <2>5. PICK session, text : session = h[k] /\ text = texts[k + 1]
    OBVIOUS
  <2>6. h[k + 1] = FrontendText(session, text)
    BY <1>3, <2>1, <2>5
  <2>7. \/ /\ IsAfter(FrontendText(session, text), C, objects, N, S, L, T, j, d)
           /\ d = Len(S) => j = N
        \/ /\ j < N
           /\ IsAfter(FrontendText(session, text), C, objects, N, S, L, T, j + 1, d)
    <3>1. IsAfter(session, C, objects, N, S, L, T, j, e) /\ text = SubSeq(S, e + 1, d)
      BY <2>3, <2>4, <2>5
    <3> QED
      BY <2>3, <3>1, FrameIsTaken
  <2> HIDE DEF U
  <2>8. Takes(h[k + 1], C, objects, N, S, L, T, k + 1, d)
    <3>1. CASE IsAfter(h[k + 1], C, objects, N, S, L, T, j, d) /\ (d = Len(S) => j = N)
      <4>1. KeepsUp(N, j, k + 1)
        BY <2>1, <2>3, <3>1 DEF KeepsUp
      <4> QED
        BY <3>1, <4>1 DEF Takes
    <3>2. CASE j < N /\ IsAfter(h[k + 1], C, objects, N, S, L, T, j + 1, d)
      <4>1. KeepsUp(N, j + 1, k + 1) /\ j + 1 \in 0 .. N
        BY <2>1, <2>4, <3>2 DEF KeepsUp
      <4> QED
        BY <3>2, <4>1 DEF Takes
    <3> QED
      BY <2>6, <2>7, <3>1, <3>2
  <2> QED
    BY <2>1, <2>2, <2>8 DEF U
<1>7. n \in U
  <2>1. n \in 0 .. n
    OBVIOUS
  <2> HIDE DEF U
  <2>2. 0 .. n \subseteq U
    BY <1>5, <1>6, Induction
  <2> QED
    BY <2>1, <2>2
<1> QED
  BY <1>4, <1>7

(* F[i] is the text of the first i objects.                                *)
IsText(F, objects, i, k) == F[i] = IF i = 1 THEN objects[i] ELSE F[i - 1] \o objects[i]

(* The function by which FlattenSeq is defined.                            *)
LEMMA TextExists ==
  ASSUME NEW objects, NEW N \in Nat
  PROVE  \E F : F = [i \in 1 .. N |-> IF i = 1 THEN objects[i] ELSE F[i - 1] \o objects[i]]
<1> DEFINE Is(f, k) == \A i \in 1 .. k : f[i] = IF i = 1 THEN objects[i] ELSE f[i - 1] \o objects[i]
           Has(k) == \E f : Is(f, k)
           U == {k \in 0 .. N : Has(k)}
<1>1. 0 \in U
  <2>1. Is(objects, 0)
    OBVIOUS
  <2>2. Has(0)
    BY <2>1
  <2> HIDE DEF Has
  <2> QED
    BY <2>2
<1>2. ASSUME NEW k \in 0 .. N, k \in U, k < N PROVE k + 1 \in U
  <2>1. PICK f : Is(f, k)
    BY <1>2
  <2>2. PICK x : x = IF k + 1 = 1 THEN objects[k + 1] ELSE f[k] \o objects[k + 1]
    OBVIOUS
  <2> DEFINE e == [i \in 1 .. k + 1 |-> IF i = k + 1 THEN x ELSE f[i]]
  <2>3. ASSUME NEW i \in 1 .. k + 1 PROVE e[i] = IF i = 1 THEN objects[i] ELSE e[i - 1] \o objects[i]
    <3>1. CASE i = k + 1
      <4>1. e[i] = x
        BY <3>1
      <4>2. i # 1 => i - 1 \in 1 .. k + 1 /\ i - 1 # k + 1 /\ i - 1 = k
        BY <3>1
      <4>3. i # 1 => e[i - 1] = f[k]
        BY <4>2
      <4> HIDE DEF e
      <4> QED
        BY <2>2, <3>1, <4>1, <4>3
    <3>2. CASE i # k + 1
      <4>1. i \in 1 .. k
        BY <3>2
      <4>2. e[i] = f[i]
        BY <3>2
      <4>3. i # 1 => i - 1 \in 1 .. k + 1 /\ i - 1 # k + 1
        BY <4>1
      <4>4. i # 1 => e[i - 1] = f[i - 1]
        BY <4>3
      <4>5. f[i] = IF i = 1 THEN objects[i] ELSE f[i - 1] \o objects[i]
        BY <2>1, <4>1
      <4> HIDE DEF e
      <4> QED
        BY <4>2, <4>4, <4>5
    <3> QED
      BY <3>1, <3>2
  <2>4. k + 1 \in 0 .. N
    BY <1>2
  <2> HIDE DEF e
  <2>5. Is(e, k + 1)
    BY <2>3
  <2> HIDE DEF Is
  <2>6. Has(k + 1)
    BY <2>5
  <2> HIDE DEF Has
  <2> QED
    BY <2>4, <2>6
<1>3. N \in U
  <2>1. N \in 0 .. N
    OBVIOUS
  <2> HIDE DEF U
  <2>2. 0 .. N \subseteq U
    BY <1>1, <1>2, Induction
  <2> QED
    BY <2>1, <2>2
<1>4. PICK e : Is(e, N)
  BY <1>3
<1> DEFINE F == [i \in 1 .. N |-> e[i]]
<1>5. ASSUME NEW i \in 1 .. N PROVE F[i] = IF i = 1 THEN objects[i] ELSE F[i - 1] \o objects[i]
  <2>1. F[i] = e[i]
    OBVIOUS
  <2>2. i # 1 => i - 1 \in 1 .. N
    OBVIOUS
  <2>3. i # 1 => F[i - 1] = e[i - 1]
    BY <2>2
  <2>4. e[i] = IF i = 1 THEN objects[i] ELSE e[i - 1] \o objects[i]
    BY <1>4
  <2> HIDE DEF F
  <2> QED
    BY <2>1, <2>3, <2>4
<1>6. F = [i \in 1 .. N |-> F[i]]
  OBVIOUS
<1> HIDE DEF F
<1>7. F = [i \in 1 .. N |-> IF i = 1 THEN objects[i] ELSE F[i - 1] \o objects[i]]
  BY <1>5, <1>6
<1> QED
  BY <1>7

(* F[i] is the text of the first i objects, and S that of all.             *)
AreTexts(F, objects, N, S) ==
  /\ \A i \in 1 .. N : F[i] = IF i = 1 THEN objects[i] ELSE F[i - 1] \o objects[i]
  /\ N # 0 => S = F[N]

LEMMA SentIsText ==
  ASSUME NEW C, NEW objects, NEW N \in Nat, N = Len(objects)
  PROVE  \E F : AreTexts(F, objects, N, Sent(objects))
<1> DEFINE G(f) == [i \in 1 .. N |-> IF i = 1 THEN objects[i] ELSE f[i - 1] \o objects[i]]
<1>1. \E f : f = G(f)
  BY TextExists
<1>2. PICK F : F = CHOOSE f : f = G(f)
  OBVIOUS
<1>3. F = G(F)
  <2> HIDE DEF G
  <2> QED
    BY <1>1, <1>2
<1>4. ASSUME NEW i \in 1 .. N PROVE F[i] = IF i = 1 THEN objects[i] ELSE F[i - 1] \o objects[i]
  BY <1>3
<1>5. N # 0 => Sent(objects) = F[N]
  BY <1>2 DEF Sent, FlattenSeq
<1> QED
  BY <1>4, <1>5 DEF AreTexts

(* What the parser finds the end of with its last character, not before.   *)
IsObject(C, o) == o \in Seq(C) /\ o # <<>> /\ \E t : IsTrack(t, o, Len(o))

(* The text of the first objects and one more.                             *)
Grows(C, f, o, g) ==
  /\ g \in Seq(C) /\ Len(g) = Len(f) + Len(o)
  /\ IsPiece(f, C, g, 0, Len(f))
  /\ Stands(g, Len(f), o)

LEMMA TextGrows ==
  ASSUME NEW C, NEW f \in Seq(C), NEW o \in Seq(C), NEW g, g = f \o o
  PROVE  Grows(C, f, o, g)
<1>1. PICK m \in Nat, n \in Nat : m = Len(f) /\ n = Len(o)
  BY LenProperties
<1>2. g \in Seq(C) /\ Len(g) = m + n /\ \A i \in 1 .. m + n : g[i] = IF i <= m THEN f[i] ELSE o[i - m]
  BY <1>1, ConcatProperties
<1>3. ASSUME NEW i \in 1 .. m PROVE f[i] = g[0 + i]
  <2>1. i \in 1 .. m + n /\ i <= m /\ 0 + i = i
    BY <1>1
  <2> QED
    BY <1>2, <2>1
<1>4. ASSUME NEW i \in 1 .. n PROVE g[m + i] = o[i]
  <2>1. m + i \in 1 .. m + n /\ ~(m + i <= m) /\ (m + i) - m = i
    BY <1>1
  <2> QED
    BY <1>2, <2>1
<1>5. 0 + m = m
  OBVIOUS
<1>6. IsPiece(f, C, g, 0, Len(f))
  BY <1>1, <1>3, <1>5 DEF IsPiece
<1>7. Stands(g, Len(f), o)
  BY <1>1, <1>4 DEF Stands
<1> QED
  BY <1>1, <1>2, <1>6, <1>7 DEF Grows

(* What begins a beginning of S begins S.                                  *)
LEMMA BeginOfBegin ==
  ASSUME NEW C, NEW S, NEW f, NEW g, IsPiece(f, C, g, 0, Len(f)), IsPiece(g, C, S, 0, Len(g)), Len(f) <= Len(g)
  PROVE  IsPiece(f, C, S, 0, Len(f))
<1>1. f \in Seq(C) /\ g \in Seq(C)
  BY DEF IsPiece
<1>2. PICK m \in Nat, n \in Nat : m = Len(f) /\ n = Len(g)
  BY <1>1, LenProperties
<1>3. ASSUME NEW i \in 1 .. m PROVE f[i] = S[0 + i]
  <2>1. i \in 1 .. n /\ 0 + i = i
    BY <1>2
  <2>2. f[i] = g[0 + i]
    BY <1>2 DEF IsPiece
  <2>3. g[i] = S[0 + i]
    BY <1>2, <2>1 DEF IsPiece
  <2> QED
    BY <2>1, <2>2, <2>3
<1>4. 0 + Len(f) = Len(f)
  BY <1>2
<1> QED
  BY <1>1, <1>2, <1>3, <1>4 DEF IsPiece

LEMMA StandsInBegin ==
  ASSUME NEW C, NEW S, NEW g, IsPiece(g, C, S, 0, Len(g)), NEW a \in Nat, NEW o \in Seq(C),
         Stands(g, a, o), a + Len(o) = Len(g)
  PROVE  Stands(S, a, o)
<1>1. g \in Seq(C)
  BY DEF IsPiece
<1>2. PICK l \in Nat, n \in Nat : l = Len(o) /\ n = Len(g)
  BY <1>1, LenProperties
<1>3. ASSUME NEW i \in 1 .. l PROVE S[a + i] = o[i]
  <2>1. a + i \in 1 .. n /\ 0 + (a + i) = a + i
    BY <1>2
  <2>2. g[a + i] = o[i]
    BY <1>2 DEF Stands
  <2>3. g[a + i] = S[0 + (a + i)]
    BY <1>2, <2>1 DEF IsPiece
  <2> QED
    BY <2>1, <2>2, <2>3
<1> QED
  BY <1>2, <1>3 DEF Stands

LEMMA TextsAreSequences ==
  ASSUME NEW C, NEW objects, NEW N \in Nat, \A n \in 1 .. N : objects[n] \in Seq(C),
         NEW S, NEW F, AreTexts(F, objects, N, S)
  PROVE  \A n \in 1 .. N : F[n] \in Seq(C)
<1> DEFINE U == {k \in 0 .. N : k # 0 => F[k] \in Seq(C)}
<1>1. 0 \in U
  OBVIOUS
<1>2. ASSUME NEW k \in 0 .. N, k \in U, k < N PROVE k + 1 \in U
  <2>1. k + 1 \in 1 .. N /\ (k + 1) - 1 = k /\ k + 1 \in 0 .. N /\ (k + 1 = 1 <=> k = 0)
    BY <1>2
  <2>2. PICK o \in Seq(C) : o = objects[k + 1]
    BY <2>1
  <2>3. F[k + 1] = IF k = 0 THEN o ELSE F[k] \o o
    BY <2>1, <2>2 DEF AreTexts
  <2>4. CASE k = 0
    BY <2>1, <2>3, <2>4
  <2>5. CASE k # 0
    <3>1. PICK f \in Seq(C) : f = F[k]
      BY <1>2, <2>5
    <3>2. f \o o \in Seq(C)
      BY ConcatProperties
    <3> QED
      BY <2>1, <2>3, <2>5, <3>1, <3>2
  <2> QED
    BY <2>4, <2>5
<1>3. 0 .. N \subseteq U
  <2> HIDE DEF U
  <2> QED
    BY <1>1, <1>2, Induction
<1> QED
  BY <1>3

(* The text of the first objects begins the text of all.                   *)
LEMMA TextsBegin ==
  ASSUME NEW C, NEW objects, NEW N \in Nat, \A n \in 1 .. N : objects[n] \in Seq(C),
         NEW S, NEW F, AreTexts(F, objects, N, S)
  PROVE  \A n \in 1 .. N : IsPiece(F[n], C, S, 0, Len(F[n]))
<1>1. \A n \in 1 .. N : F[n] \in Seq(C)
  BY TextsAreSequences
<1> DEFINE U == {k \in 0 .. N : k < N => IsPiece(F[N - k], C, S, 0, Len(F[N - k]))}
<1>2. 0 \in U
  <2>1. SUFFICES ASSUME 0 < N PROVE IsPiece(F[N - 0], C, S, 0, Len(F[N - 0]))
    OBVIOUS
  <2>2. N - 0 = N /\ N \in 1 .. N
    BY <2>1
  <2>3. PICK f \in Seq(C) : f = F[N]
    BY <1>1, <2>2
  <2>4. S = f
    BY <2>1, <2>3 DEF AreTexts
  <2>5. 0 + Len(f) = Len(f) /\ \A i \in 1 .. Len(f) : 0 + i = i
    BY LenProperties
  <2>6. IsPiece(f, C, S, 0, Len(f))
    BY <2>4, <2>5 DEF IsPiece
  <2> QED
    BY <2>2, <2>3, <2>6
<1>3. ASSUME NEW k \in 0 .. N, k \in U, k < N PROVE k + 1 \in U
  <2>1. SUFFICES ASSUME k + 1 < N PROVE IsPiece(F[N - (k + 1)], C, S, 0, Len(F[N - (k + 1)]))
    BY <1>3
  <2>2. PICK i \in 1 .. N : i = N - k
    BY <1>3
  <2>3. i - 1 = N - (k + 1) /\ i - 1 \in 1 .. N /\ i # 1
    BY <2>1, <2>2
  <2>4. PICK f \in Seq(C), g \in Seq(C), o \in Seq(C) : f = F[i - 1] /\ g = F[i] /\ o = objects[i]
    BY <1>1, <2>3
  <2>5. g = f \o o
    BY <2>3, <2>4 DEF AreTexts
  <2>6. Len(g) = Len(f) + Len(o) /\ IsPiece(f, C, g, 0, Len(f))
    <3>1. Grows(C, f, o, g)
      BY <2>5, TextGrows
    <3> QED
      BY <3>1 DEF Grows
  <2>7. IsPiece(g, C, S, 0, Len(g))
    BY <1>3, <2>2, <2>4
  <2>8. Len(f) <= Len(g)
    <3>1. PICK m \in Nat, n \in Nat : m = Len(f) /\ n = Len(o)
      BY LenProperties
    <3> QED
      BY <2>6, <3>1
  <2>9. IsPiece(f, C, S, 0, Len(f))
    BY <2>6, <2>7, <2>8, BeginOfBegin
  <2> QED
    BY <2>3, <2>4, <2>9
<1>4. 0 .. N \subseteq U
  <2> HIDE DEF U
  <2> QED
    BY <1>2, <1>3, Induction
<1>5. ASSUME NEW n \in 1 .. N PROVE IsPiece(F[n], C, S, 0, Len(F[n]))
  <2>1. N - n \in 0 .. N /\ N - n < N /\ N - (N - n) = n
    OBVIOUS
  <2>2. N - n \in U
    BY <1>4, <2>1
  <2> QED
    BY <2>1, <2>2
<1> QED
  BY <1>5

LEMMA CutExists ==
  ASSUME NEW C, NEW objects, NEW N \in Nat, N = Len(objects), N = 0 => objects = <<>>,
         \A n \in 1 .. N : IsObject(C, objects[n])
  PROVE  \E L, T : IsCut(C, objects, N, Sent(objects), L, T)
<1>1. PICK S : S = Sent(objects)
  OBVIOUS
<1>2. PICK F : AreTexts(F, objects, N, S)
  BY <1>1, SentIsText
<1>3. \A n \in 1 .. N : objects[n] \in Seq(C)
  BY DEF IsObject
<1>4. \A n \in 1 .. N : F[n] \in Seq(C)
  BY <1>2, <1>3, TextsAreSequences
<1>5. \A n \in 1 .. N : IsPiece(F[n], C, S, 0, Len(F[n]))
  BY <1>2, <1>3, TextsBegin
<1> DEFINE L == [n \in 0 .. N |-> IF n = 0 THEN 0 ELSE Len(F[n])]
           T == [n \in 1 .. N |-> CHOOSE t : IsTrack(t, objects[n], Len(objects[n]))]
<1>6. L[0] = 0 /\ \A n \in 1 .. N : L[n] = Len(F[n])
  OBVIOUS
<1>7. L \in [0 .. N -> Nat]
  BY <1>4, LenProperties
<1>8. S \in Seq(C) /\ L[N] = Len(S)
  <2>1. CASE N = 0
    <3>1. S = <<>>
      BY <1>1, <2>1 DEF Sent, FlattenSeq
    <3> QED
      BY <1>6, <2>1, <3>1, EmptySeq
  <2>2. CASE N # 0
    <3>1. N \in 1 .. N /\ S = F[N]
      BY <1>2, <2>2 DEF AreTexts
    <3> QED
      BY <1>4, <1>6, <3>1
  <2> QED
    BY <2>1, <2>2
<1>9. ASSUME NEW n \in 1 .. N
      PROVE  L[n] = L[n - 1] + Len(objects[n]) /\ Stands(S, L[n - 1], objects[n])
  <2>1. PICK o \in Seq(C), g \in Seq(C) : o = objects[n] /\ g = F[n]
    BY <1>3, <1>4
  <2>2. IsPiece(g, C, S, 0, Len(g))
    BY <1>5, <2>1
  <2>3. PICK f \in Seq(C) : g = f \o o /\ L[n - 1] = Len(f)
    <3>1. CASE n = 1
      <4>1. n - 1 = 0 /\ g = o
        BY <1>2, <2>1, <3>1 DEF AreTexts
      <4>2. <<>> \in Seq(C) /\ <<>> \o o = o /\ Len(<<>>) = 0
        BY ConcatEmptySeq, EmptySeq
      <4> HIDE DEF L
      <4> QED
        BY <1>6, <4>1, <4>2
    <3>2. CASE n # 1
      <4>1. n - 1 \in 1 .. N
        BY <3>2
      <4>2. g = F[n - 1] \o o
        BY <1>2, <2>1, <3>2 DEF AreTexts
      <4> HIDE DEF L
      <4> QED
        BY <1>4, <1>6, <4>1, <4>2
    <3> QED
      BY <3>1, <3>2
  <2>4. Len(g) = Len(f) + Len(o) /\ Stands(g, Len(f), o)
    <3>1. Grows(C, f, o, g)
      BY <2>3, TextGrows
    <3> QED
      BY <3>1 DEF Grows
  <2>5. PICK a \in Nat : a = Len(f)
    BY LenProperties
  <2>6. Stands(S, a, o)
    BY <2>2, <2>4, <2>5, StandsInBegin
  <2> HIDE DEF L
  <2> QED
    <3>1. L[n] = Len(g) /\ L[n - 1] = a /\ Len(g) = a + Len(o)
      BY <1>6, <2>1, <2>3, <2>4, <2>5
    <3> QED
      BY <2>1, <2>6, <3>1
<1>10. ASSUME NEW n \in 1 .. N PROVE IsTrack(T[n], objects[n], Len(objects[n])) /\ objects[n] # <<>>
  <2>1. \E t : IsTrack(t, objects[n], Len(objects[n]))
    BY DEF IsObject
  <2>2. T[n] = CHOOSE t : IsTrack(t, objects[n], Len(objects[n]))
    OBVIOUS
  <2>3. IsTrack(T[n], objects[n], Len(objects[n]))
    <3> HIDE DEF T
    <3> QED
      BY <2>1, <2>2
  <2> QED
    BY <2>3 DEF IsObject
<1> HIDE DEF L, T
<1>11. IsCut(C, objects, N, S, L, T)
  BY <1>3, <1>6, <1>7, <1>8, <1>9, <1>10 DEF IsCut
<1> QED
  BY <1>1, <1>11

(* What the parser knows after offset characters, when there are more.     *)
LooksAt(curlyCount, escape, insideString, offset) ==
  [curlyCount |-> curlyCount, escape |-> escape, insideString |-> insideString, offset |-> offset, found |-> FALSE]

(* What looking at a character does, when k curly brackets are open and n  *)
(* characters were looked at.                                              *)
LEMMA LookAtOpen ==
  ASSUME NEW k \in Nat, NEW n \in Nat, NEW f, f = LooksAt(k, FALSE, FALSE, n), NEW c, c = "open"
  PROVE  Look(f, c) = LooksAt(k + 1, FALSE, FALSE, n + 1)
<1>1. f.insideString = FALSE /\ f.escape = FALSE /\ f.curlyCount = k /\ f.offset = n
  BY DEF LooksAt
<1> QED
  BY <1>1 DEF LooksAt, Look

LEMMA LookAtInnerClose ==
  ASSUME NEW n \in Nat, NEW f, f = LooksAt(2, FALSE, FALSE, n), NEW c, c = "close"
  PROVE  Look(f, c) = LooksAt(1, FALSE, FALSE, n + 1)
<1>1. PICK j \in Nat, k \in Nat \ {0} : j = 2 /\ k = 1 /\ j - 1 = k
  OBVIOUS
<1>2. f.insideString = FALSE /\ f.escape = FALSE /\ f.curlyCount = j /\ f.offset = n
  BY <1>1 DEF LooksAt
<1>3. f.curlyCount - 1 = k
  BY <1>1, <1>2
<1>4. Look(f, c) = LooksAt(k, FALSE, FALSE, n + 1)
  BY <1>2, <1>3 DEF LooksAt, Look
<1> QED
  BY <1>1, <1>4

(* The end is found at offset n.                                           *)
EndsAt(f, n) == f.found = TRUE /\ f.offset = n

LEMMA LookAtClose ==
  ASSUME NEW k \in {1}, NEW n \in Nat, NEW f, f = LooksAt(k, FALSE, FALSE, n), NEW c, c = "close"
  PROVE  EndsAt(Look(f, c), n)
<1>1. f.insideString = FALSE /\ f.escape = FALSE /\ f.curlyCount = k /\ f.offset = n
  BY DEF LooksAt
<1>2. PICK m \in Int : m = k - 1 /\ m = 0
  OBVIOUS
<1>3. f.curlyCount - 1 = m
  BY <1>1, <1>2
<1> QED
  BY <1>1, <1>2, <1>3 DEF Look, EndsAt

LEMMA LookAtQuote ==
  ASSUME NEW k \in Nat, NEW n \in Nat, NEW f, f = LooksAt(k, FALSE, FALSE, n), NEW c, c = "quote"
  PROVE  Look(f, c) = LooksAt(k, FALSE, TRUE, n + 1)
<1>1. f.insideString = FALSE /\ f.escape = FALSE /\ f.curlyCount = k /\ f.offset = n
  BY DEF LooksAt
<1> QED
  BY <1>1 DEF LooksAt, Look

LEMMA LookAtClosingQuote ==
  ASSUME NEW k \in Nat, NEW n \in Nat, NEW f, f = LooksAt(k, FALSE, TRUE, n), NEW c, c = "quote"
  PROVE  Look(f, c) = LooksAt(k, FALSE, FALSE, n + 1)
<1>1. f.insideString = TRUE /\ f.escape = FALSE /\ f.curlyCount = k /\ f.offset = n
  BY DEF LooksAt
<1> QED
  BY <1>1 DEF LooksAt, Look

LEMMA LookAtBackslash ==
  ASSUME NEW k \in Nat, NEW n \in Nat, NEW f, f = LooksAt(k, FALSE, TRUE, n), NEW c, c = "backslash"
  PROVE  Look(f, c) = LooksAt(k, TRUE, TRUE, n + 1)
<1>1. f.insideString = TRUE /\ f.escape = FALSE /\ f.curlyCount = k /\ f.offset = n
  BY DEF LooksAt
<1> QED
  BY <1>1 DEF LooksAt, Look

LEMMA LookAtEscaped ==
  ASSUME NEW k \in Nat, NEW n \in Nat, NEW f, f = LooksAt(k, TRUE, TRUE, n), NEW c, c \in {"quote", "backslash"}
  PROVE  Look(f, c) = LooksAt(k, FALSE, TRUE, n + 1)
<1>1. f.insideString = TRUE /\ f.escape = TRUE /\ f.curlyCount = k /\ f.offset = n
  BY DEF LooksAt
<1> QED
  BY <1>1 DEF LooksAt, Look

LEMMA LookInString ==
  ASSUME NEW k \in Nat, NEW n \in Nat, NEW f, f = LooksAt(k, FALSE, TRUE, n), NEW c, c = "close"
  PROVE  Look(f, c) = LooksAt(k, FALSE, TRUE, n + 1)
<1>1. f.insideString = TRUE /\ f.escape = FALSE /\ f.curlyCount = k /\ f.offset = n
  BY DEF LooksAt
<1> QED
  BY <1>1 DEF LooksAt, Look

LEMMA LookAtOther ==
  ASSUME NEW k \in Nat, NEW n \in Nat, NEW f, f = LooksAt(k, FALSE, FALSE, n), NEW c, c \in {"space", "other"}
  PROVE  Look(f, c) = LooksAt(k, FALSE, FALSE, n + 1)
<1>1. f.insideString = FALSE /\ f.escape = FALSE /\ f.curlyCount = k /\ f.offset = n
  BY DEF LooksAt
<1> QED
  BY <1>1 DEF LooksAt, Look

Characters == {"open", "close", "quote", "backslash", "space", "other"}

(* {}, the empty object.                                                   *)
LEMMA NoMembersIsObject == IsObject(Characters, <<"open", "close">>)
<1>1. PICK o : o = <<"open", "close">>
  OBVIOUS
<1>2. Len(o) = 2 /\ o \in Seq(Characters) /\ o # <<>>
  BY <1>1 DEF Characters
<1>3. o[1] = "open" /\ o[2] = "close"
  BY <1>1
<1> DEFINE t == [i \in 0 .. 1 |->
                     IF i = 0 THEN LooksAt(0, FALSE, FALSE, 0) ELSE
                     LooksAt(1, FALSE, FALSE, 1)]
<1>4. /\ t[0] = LooksAt(0, FALSE, FALSE, 0)
      /\ t[1] = LooksAt(1, FALSE, FALSE, 1)
  OBVIOUS
<1> HIDE DEF t
<1>5. Look(t[0], o[1]) = t[1]
  <2>1. PICK f, c : f = t[0] /\ c = o[1]
    OBVIOUS
  <2>2. f = LooksAt(0, FALSE, FALSE, 0) /\ c = "open"
    BY <1>3, <1>4, <2>1
  <2>3. Look(f, c) = LooksAt(0 + 1, FALSE, FALSE, 0 + 1)
    BY <2>2, LookAtOpen
  <2>4. 0 + 1 = 1 /\ 0 + 1 = 1
    OBVIOUS
  <2> QED
    BY <1>4, <2>1, <2>3, <2>4
<1>6. Look(t[1], o[2]).found = TRUE /\ Look(t[1], o[2]).offset = 1
  <2>1. PICK f, c : f = t[1] /\ c = o[2]
    OBVIOUS
  <2>2. f = LooksAt(1, FALSE, FALSE, 1) /\ c = "close"
    BY <1>3, <1>4, <2>1
  <2>3. EndsAt(Look(f, c), 1)
    BY <2>2, LookAtClose
  <2> QED
    BY <2>1, <2>3 DEF EndsAt
<1>7. /\ t[1].found = FALSE /\ t[1].offset = 1
  BY <1>4 DEF LooksAt
<1>8. t[0] = NotFound
  BY <1>4 DEF LooksAt, NotFound
<1>9. ASSUME NEW i \in 1 .. 2 - 1
      PROVE  t[i] = Look(t[i - 1], o[i]) /\ t[i].found = FALSE /\ t[i].offset = i
  <2>1. i = 1
    OBVIOUS
  <2>2. CASE i = 1
    <3>1. i - 1 = 0
      BY <2>2
    <3> QED
      BY <1>5, <1>7, <2>2, <3>1
  <2> QED
    BY <2>1, <2>2
<1>10. IsTrack(t, o, 2)
  <2>1. 2 - 1 = 1
    OBVIOUS
  <2> QED
    BY <1>6, <1>8, <1>9, <2>1 DEF IsTrack
<1> QED
  BY <1>1, <1>2, <1>10 DEF IsObject

(* {"}"}: what is in a string ends nothing.                                *)
LEMMA StringWithCurlyIsObject == IsObject(Characters, <<"open", "quote", "close", "quote", "close">>)
<1>1. PICK o : o = <<"open", "quote", "close", "quote", "close">>
  OBVIOUS
<1>2. Len(o) = 5 /\ o \in Seq(Characters) /\ o # <<>>
  BY <1>1 DEF Characters
<1>3. o[1] = "open" /\ o[2] = "quote" /\ o[3] = "close" /\ o[4] = "quote" /\ o[5] = "close"
  BY <1>1
<1> DEFINE t == [i \in 0 .. 4 |->
                     IF i = 0 THEN LooksAt(0, FALSE, FALSE, 0) ELSE
                     IF i = 1 THEN LooksAt(1, FALSE, FALSE, 1) ELSE
                     IF i = 2 THEN LooksAt(1, FALSE, TRUE, 2) ELSE
                     IF i = 3 THEN LooksAt(1, FALSE, TRUE, 3) ELSE
                     LooksAt(1, FALSE, FALSE, 4)]
<1>4. /\ t[0] = LooksAt(0, FALSE, FALSE, 0)
      /\ t[1] = LooksAt(1, FALSE, FALSE, 1)
      /\ t[2] = LooksAt(1, FALSE, TRUE, 2)
      /\ t[3] = LooksAt(1, FALSE, TRUE, 3)
      /\ t[4] = LooksAt(1, FALSE, FALSE, 4)
  OBVIOUS
<1> HIDE DEF t
<1>5. Look(t[0], o[1]) = t[1]
  <2>1. PICK f, c : f = t[0] /\ c = o[1]
    OBVIOUS
  <2>2. f = LooksAt(0, FALSE, FALSE, 0) /\ c = "open"
    BY <1>3, <1>4, <2>1
  <2>3. Look(f, c) = LooksAt(0 + 1, FALSE, FALSE, 0 + 1)
    BY <2>2, LookAtOpen
  <2>4. 0 + 1 = 1 /\ 0 + 1 = 1
    OBVIOUS
  <2> QED
    BY <1>4, <2>1, <2>3, <2>4
<1>6. Look(t[1], o[2]) = t[2]
  <2>1. PICK f, c : f = t[1] /\ c = o[2]
    OBVIOUS
  <2>2. f = LooksAt(1, FALSE, FALSE, 1) /\ c = "quote"
    BY <1>3, <1>4, <2>1
  <2>3. Look(f, c) = LooksAt(1, FALSE, TRUE, 1 + 1)
    BY <2>2, LookAtQuote
  <2>4. 1 + 1 = 2
    OBVIOUS
  <2> QED
    BY <1>4, <2>1, <2>3, <2>4
<1>7. Look(t[2], o[3]) = t[3]
  <2>1. PICK f, c : f = t[2] /\ c = o[3]
    OBVIOUS
  <2>2. f = LooksAt(1, FALSE, TRUE, 2) /\ c = "close"
    BY <1>3, <1>4, <2>1
  <2>3. Look(f, c) = LooksAt(1, FALSE, TRUE, 2 + 1)
    BY <2>2, LookInString
  <2>4. 2 + 1 = 3
    OBVIOUS
  <2> QED
    BY <1>4, <2>1, <2>3, <2>4
<1>8. Look(t[3], o[4]) = t[4]
  <2>1. PICK f, c : f = t[3] /\ c = o[4]
    OBVIOUS
  <2>2. f = LooksAt(1, FALSE, TRUE, 3) /\ c = "quote"
    BY <1>3, <1>4, <2>1
  <2>3. Look(f, c) = LooksAt(1, FALSE, FALSE, 3 + 1)
    BY <2>2, LookAtClosingQuote
  <2>4. 3 + 1 = 4
    OBVIOUS
  <2> QED
    BY <1>4, <2>1, <2>3, <2>4
<1>9. Look(t[4], o[5]).found = TRUE /\ Look(t[4], o[5]).offset = 4
  <2>1. PICK f, c : f = t[4] /\ c = o[5]
    OBVIOUS
  <2>2. f = LooksAt(1, FALSE, FALSE, 4) /\ c = "close"
    BY <1>3, <1>4, <2>1
  <2>3. EndsAt(Look(f, c), 4)
    BY <2>2, LookAtClose
  <2> QED
    BY <2>1, <2>3 DEF EndsAt
<1>10. /\ t[1].found = FALSE /\ t[1].offset = 1
      /\ t[2].found = FALSE /\ t[2].offset = 2
      /\ t[3].found = FALSE /\ t[3].offset = 3
      /\ t[4].found = FALSE /\ t[4].offset = 4
  BY <1>4 DEF LooksAt
<1>11. t[0] = NotFound
  BY <1>4 DEF LooksAt, NotFound
<1>12. ASSUME NEW i \in 1 .. 5 - 1
      PROVE  t[i] = Look(t[i - 1], o[i]) /\ t[i].found = FALSE /\ t[i].offset = i
  <2>1. i = 1 \/ i = 2 \/ i = 3 \/ i = 4
    OBVIOUS
  <2>2. CASE i = 1
    <3>1. i - 1 = 0
      BY <2>2
    <3> QED
      BY <1>5, <1>10, <2>2, <3>1
  <2>3. CASE i = 2
    <3>1. i - 1 = 1
      BY <2>3
    <3> QED
      BY <1>6, <1>10, <2>3, <3>1
  <2>4. CASE i = 3
    <3>1. i - 1 = 2
      BY <2>4
    <3> QED
      BY <1>7, <1>10, <2>4, <3>1
  <2>5. CASE i = 4
    <3>1. i - 1 = 3
      BY <2>5
    <3> QED
      BY <1>8, <1>10, <2>5, <3>1
  <2> QED
    BY <2>1, <2>2, <2>3, <2>4, <2>5
<1>13. IsTrack(t, o, 5)
  <2>1. 5 - 1 = 4
    OBVIOUS
  <2> QED
    BY <1>9, <1>11, <1>12, <2>1 DEF IsTrack
<1> QED
  BY <1>1, <1>2, <1>13 DEF IsObject

(* {"\"}"}: an escaped quote does not end the string.                      *)
LEMMA StringWithQuoteIsObject == IsObject(Characters, <<"open", "quote", "backslash", "quote", "close", "quote", "close">>)
<1>1. PICK o : o = <<"open", "quote", "backslash", "quote", "close", "quote", "close">>
  OBVIOUS
<1>2. Len(o) = 7 /\ o \in Seq(Characters) /\ o # <<>>
  BY <1>1 DEF Characters
<1>3. o[1] = "open" /\ o[2] = "quote" /\ o[3] = "backslash" /\ o[4] = "quote" /\ o[5] = "close" /\ o[6] = "quote" /\ o[7] = "close"
  BY <1>1
<1> DEFINE t == [i \in 0 .. 6 |->
                     IF i = 0 THEN LooksAt(0, FALSE, FALSE, 0) ELSE
                     IF i = 1 THEN LooksAt(1, FALSE, FALSE, 1) ELSE
                     IF i = 2 THEN LooksAt(1, FALSE, TRUE, 2) ELSE
                     IF i = 3 THEN LooksAt(1, TRUE, TRUE, 3) ELSE
                     IF i = 4 THEN LooksAt(1, FALSE, TRUE, 4) ELSE
                     IF i = 5 THEN LooksAt(1, FALSE, TRUE, 5) ELSE
                     LooksAt(1, FALSE, FALSE, 6)]
<1>4. /\ t[0] = LooksAt(0, FALSE, FALSE, 0)
      /\ t[1] = LooksAt(1, FALSE, FALSE, 1)
      /\ t[2] = LooksAt(1, FALSE, TRUE, 2)
      /\ t[3] = LooksAt(1, TRUE, TRUE, 3)
      /\ t[4] = LooksAt(1, FALSE, TRUE, 4)
      /\ t[5] = LooksAt(1, FALSE, TRUE, 5)
      /\ t[6] = LooksAt(1, FALSE, FALSE, 6)
  OBVIOUS
<1> HIDE DEF t
<1>5. Look(t[0], o[1]) = t[1]
  <2>1. PICK f, c : f = t[0] /\ c = o[1]
    OBVIOUS
  <2>2. f = LooksAt(0, FALSE, FALSE, 0) /\ c = "open"
    BY <1>3, <1>4, <2>1
  <2>3. Look(f, c) = LooksAt(0 + 1, FALSE, FALSE, 0 + 1)
    BY <2>2, LookAtOpen
  <2>4. 0 + 1 = 1 /\ 0 + 1 = 1
    OBVIOUS
  <2> QED
    BY <1>4, <2>1, <2>3, <2>4
<1>6. Look(t[1], o[2]) = t[2]
  <2>1. PICK f, c : f = t[1] /\ c = o[2]
    OBVIOUS
  <2>2. f = LooksAt(1, FALSE, FALSE, 1) /\ c = "quote"
    BY <1>3, <1>4, <2>1
  <2>3. Look(f, c) = LooksAt(1, FALSE, TRUE, 1 + 1)
    BY <2>2, LookAtQuote
  <2>4. 1 + 1 = 2
    OBVIOUS
  <2> QED
    BY <1>4, <2>1, <2>3, <2>4
<1>7. Look(t[2], o[3]) = t[3]
  <2>1. PICK f, c : f = t[2] /\ c = o[3]
    OBVIOUS
  <2>2. f = LooksAt(1, FALSE, TRUE, 2) /\ c = "backslash"
    BY <1>3, <1>4, <2>1
  <2>3. Look(f, c) = LooksAt(1, TRUE, TRUE, 2 + 1)
    BY <2>2, LookAtBackslash
  <2>4. 2 + 1 = 3
    OBVIOUS
  <2> QED
    BY <1>4, <2>1, <2>3, <2>4
<1>8. Look(t[3], o[4]) = t[4]
  <2>1. PICK f, c : f = t[3] /\ c = o[4]
    OBVIOUS
  <2>2. f = LooksAt(1, TRUE, TRUE, 3) /\ c = "quote"
    BY <1>3, <1>4, <2>1
  <2>3. Look(f, c) = LooksAt(1, FALSE, TRUE, 3 + 1)
    BY <2>2, LookAtEscaped
  <2>4. 3 + 1 = 4
    OBVIOUS
  <2> QED
    BY <1>4, <2>1, <2>3, <2>4
<1>9. Look(t[4], o[5]) = t[5]
  <2>1. PICK f, c : f = t[4] /\ c = o[5]
    OBVIOUS
  <2>2. f = LooksAt(1, FALSE, TRUE, 4) /\ c = "close"
    BY <1>3, <1>4, <2>1
  <2>3. Look(f, c) = LooksAt(1, FALSE, TRUE, 4 + 1)
    BY <2>2, LookInString
  <2>4. 4 + 1 = 5
    OBVIOUS
  <2> QED
    BY <1>4, <2>1, <2>3, <2>4
<1>10. Look(t[5], o[6]) = t[6]
  <2>1. PICK f, c : f = t[5] /\ c = o[6]
    OBVIOUS
  <2>2. f = LooksAt(1, FALSE, TRUE, 5) /\ c = "quote"
    BY <1>3, <1>4, <2>1
  <2>3. Look(f, c) = LooksAt(1, FALSE, FALSE, 5 + 1)
    BY <2>2, LookAtClosingQuote
  <2>4. 5 + 1 = 6
    OBVIOUS
  <2> QED
    BY <1>4, <2>1, <2>3, <2>4
<1>11. Look(t[6], o[7]).found = TRUE /\ Look(t[6], o[7]).offset = 6
  <2>1. PICK f, c : f = t[6] /\ c = o[7]
    OBVIOUS
  <2>2. f = LooksAt(1, FALSE, FALSE, 6) /\ c = "close"
    BY <1>3, <1>4, <2>1
  <2>3. EndsAt(Look(f, c), 6)
    BY <2>2, LookAtClose
  <2> QED
    BY <2>1, <2>3 DEF EndsAt
<1>12. /\ t[1].found = FALSE /\ t[1].offset = 1
      /\ t[2].found = FALSE /\ t[2].offset = 2
      /\ t[3].found = FALSE /\ t[3].offset = 3
      /\ t[4].found = FALSE /\ t[4].offset = 4
      /\ t[5].found = FALSE /\ t[5].offset = 5
      /\ t[6].found = FALSE /\ t[6].offset = 6
  BY <1>4 DEF LooksAt
<1>13. t[0] = NotFound
  BY <1>4 DEF LooksAt, NotFound
<1>14. ASSUME NEW i \in 1 .. 7 - 1
      PROVE  t[i] = Look(t[i - 1], o[i]) /\ t[i].found = FALSE /\ t[i].offset = i
  <2>1. i = 1 \/ i = 2 \/ i = 3 \/ i = 4 \/ i = 5 \/ i = 6
    OBVIOUS
  <2>2. CASE i = 1
    <3>1. i - 1 = 0
      BY <2>2
    <3> QED
      BY <1>5, <1>12, <2>2, <3>1
  <2>3. CASE i = 2
    <3>1. i - 1 = 1
      BY <2>3
    <3> QED
      BY <1>6, <1>12, <2>3, <3>1
  <2>4. CASE i = 3
    <3>1. i - 1 = 2
      BY <2>4
    <3> QED
      BY <1>7, <1>12, <2>4, <3>1
  <2>5. CASE i = 4
    <3>1. i - 1 = 3
      BY <2>5
    <3> QED
      BY <1>8, <1>12, <2>5, <3>1
  <2>6. CASE i = 5
    <3>1. i - 1 = 4
      BY <2>6
    <3> QED
      BY <1>9, <1>12, <2>6, <3>1
  <2>7. CASE i = 6
    <3>1. i - 1 = 5
      BY <2>7
    <3> QED
      BY <1>10, <1>12, <2>7, <3>1
  <2> QED
    BY <2>1, <2>2, <2>3, <2>4, <2>5, <2>6, <2>7
<1>15. IsTrack(t, o, 7)
  <2>1. 7 - 1 = 6
    OBVIOUS
  <2> QED
    BY <1>11, <1>13, <1>14, <2>1 DEF IsTrack
<1> QED
  BY <1>1, <1>2, <1>15 DEF IsObject

(* {"\\"}: an escaped backslash escapes nothing.                           *)
LEMMA StringWithBackslashIsObject == IsObject(Characters, <<"open", "quote", "backslash", "backslash", "quote", "close">>)
<1>1. PICK o : o = <<"open", "quote", "backslash", "backslash", "quote", "close">>
  OBVIOUS
<1>2. Len(o) = 6 /\ o \in Seq(Characters) /\ o # <<>>
  BY <1>1 DEF Characters
<1>3. o[1] = "open" /\ o[2] = "quote" /\ o[3] = "backslash" /\ o[4] = "backslash" /\ o[5] = "quote" /\ o[6] = "close"
  BY <1>1
<1> DEFINE t == [i \in 0 .. 5 |->
                     IF i = 0 THEN LooksAt(0, FALSE, FALSE, 0) ELSE
                     IF i = 1 THEN LooksAt(1, FALSE, FALSE, 1) ELSE
                     IF i = 2 THEN LooksAt(1, FALSE, TRUE, 2) ELSE
                     IF i = 3 THEN LooksAt(1, TRUE, TRUE, 3) ELSE
                     IF i = 4 THEN LooksAt(1, FALSE, TRUE, 4) ELSE
                     LooksAt(1, FALSE, FALSE, 5)]
<1>4. /\ t[0] = LooksAt(0, FALSE, FALSE, 0)
      /\ t[1] = LooksAt(1, FALSE, FALSE, 1)
      /\ t[2] = LooksAt(1, FALSE, TRUE, 2)
      /\ t[3] = LooksAt(1, TRUE, TRUE, 3)
      /\ t[4] = LooksAt(1, FALSE, TRUE, 4)
      /\ t[5] = LooksAt(1, FALSE, FALSE, 5)
  OBVIOUS
<1> HIDE DEF t
<1>5. Look(t[0], o[1]) = t[1]
  <2>1. PICK f, c : f = t[0] /\ c = o[1]
    OBVIOUS
  <2>2. f = LooksAt(0, FALSE, FALSE, 0) /\ c = "open"
    BY <1>3, <1>4, <2>1
  <2>3. Look(f, c) = LooksAt(0 + 1, FALSE, FALSE, 0 + 1)
    BY <2>2, LookAtOpen
  <2>4. 0 + 1 = 1 /\ 0 + 1 = 1
    OBVIOUS
  <2> QED
    BY <1>4, <2>1, <2>3, <2>4
<1>6. Look(t[1], o[2]) = t[2]
  <2>1. PICK f, c : f = t[1] /\ c = o[2]
    OBVIOUS
  <2>2. f = LooksAt(1, FALSE, FALSE, 1) /\ c = "quote"
    BY <1>3, <1>4, <2>1
  <2>3. Look(f, c) = LooksAt(1, FALSE, TRUE, 1 + 1)
    BY <2>2, LookAtQuote
  <2>4. 1 + 1 = 2
    OBVIOUS
  <2> QED
    BY <1>4, <2>1, <2>3, <2>4
<1>7. Look(t[2], o[3]) = t[3]
  <2>1. PICK f, c : f = t[2] /\ c = o[3]
    OBVIOUS
  <2>2. f = LooksAt(1, FALSE, TRUE, 2) /\ c = "backslash"
    BY <1>3, <1>4, <2>1
  <2>3. Look(f, c) = LooksAt(1, TRUE, TRUE, 2 + 1)
    BY <2>2, LookAtBackslash
  <2>4. 2 + 1 = 3
    OBVIOUS
  <2> QED
    BY <1>4, <2>1, <2>3, <2>4
<1>8. Look(t[3], o[4]) = t[4]
  <2>1. PICK f, c : f = t[3] /\ c = o[4]
    OBVIOUS
  <2>2. f = LooksAt(1, TRUE, TRUE, 3) /\ c = "backslash"
    BY <1>3, <1>4, <2>1
  <2>3. Look(f, c) = LooksAt(1, FALSE, TRUE, 3 + 1)
    BY <2>2, LookAtEscaped
  <2>4. 3 + 1 = 4
    OBVIOUS
  <2> QED
    BY <1>4, <2>1, <2>3, <2>4
<1>9. Look(t[4], o[5]) = t[5]
  <2>1. PICK f, c : f = t[4] /\ c = o[5]
    OBVIOUS
  <2>2. f = LooksAt(1, FALSE, TRUE, 4) /\ c = "quote"
    BY <1>3, <1>4, <2>1
  <2>3. Look(f, c) = LooksAt(1, FALSE, FALSE, 4 + 1)
    BY <2>2, LookAtClosingQuote
  <2>4. 4 + 1 = 5
    OBVIOUS
  <2> QED
    BY <1>4, <2>1, <2>3, <2>4
<1>10. Look(t[5], o[6]).found = TRUE /\ Look(t[5], o[6]).offset = 5
  <2>1. PICK f, c : f = t[5] /\ c = o[6]
    OBVIOUS
  <2>2. f = LooksAt(1, FALSE, FALSE, 5) /\ c = "close"
    BY <1>3, <1>4, <2>1
  <2>3. EndsAt(Look(f, c), 5)
    BY <2>2, LookAtClose
  <2> QED
    BY <2>1, <2>3 DEF EndsAt
<1>11. /\ t[1].found = FALSE /\ t[1].offset = 1
      /\ t[2].found = FALSE /\ t[2].offset = 2
      /\ t[3].found = FALSE /\ t[3].offset = 3
      /\ t[4].found = FALSE /\ t[4].offset = 4
      /\ t[5].found = FALSE /\ t[5].offset = 5
  BY <1>4 DEF LooksAt
<1>12. t[0] = NotFound
  BY <1>4 DEF LooksAt, NotFound
<1>13. ASSUME NEW i \in 1 .. 6 - 1
      PROVE  t[i] = Look(t[i - 1], o[i]) /\ t[i].found = FALSE /\ t[i].offset = i
  <2>1. i = 1 \/ i = 2 \/ i = 3 \/ i = 4 \/ i = 5
    OBVIOUS
  <2>2. CASE i = 1
    <3>1. i - 1 = 0
      BY <2>2
    <3> QED
      BY <1>5, <1>11, <2>2, <3>1
  <2>3. CASE i = 2
    <3>1. i - 1 = 1
      BY <2>3
    <3> QED
      BY <1>6, <1>11, <2>3, <3>1
  <2>4. CASE i = 3
    <3>1. i - 1 = 2
      BY <2>4
    <3> QED
      BY <1>7, <1>11, <2>4, <3>1
  <2>5. CASE i = 4
    <3>1. i - 1 = 3
      BY <2>5
    <3> QED
      BY <1>8, <1>11, <2>5, <3>1
  <2>6. CASE i = 5
    <3>1. i - 1 = 4
      BY <2>6
    <3> QED
      BY <1>9, <1>11, <2>6, <3>1
  <2> QED
    BY <2>1, <2>2, <2>3, <2>4, <2>5, <2>6
<1>14. IsTrack(t, o, 6)
  <2>1. 6 - 1 = 5
    OBVIOUS
  <2> QED
    BY <1>10, <1>12, <1>13, <2>1 DEF IsTrack
<1> QED
  BY <1>1, <1>2, <1>14 DEF IsObject

(* {a{}} behind a space: it ends with the last of its curly brackets.      *)
LEMMA ObjectInObjectIsObject == IsObject(Characters, <<"space", "open", "other", "open", "close", "close">>)
<1>1. PICK o : o = <<"space", "open", "other", "open", "close", "close">>
  OBVIOUS
<1>2. Len(o) = 6 /\ o \in Seq(Characters) /\ o # <<>>
  BY <1>1 DEF Characters
<1>3. o[1] = "space" /\ o[2] = "open" /\ o[3] = "other" /\ o[4] = "open" /\ o[5] = "close" /\ o[6] = "close"
  BY <1>1
<1> DEFINE t == [i \in 0 .. 5 |->
                     IF i = 0 THEN LooksAt(0, FALSE, FALSE, 0) ELSE
                     IF i = 1 THEN LooksAt(0, FALSE, FALSE, 1) ELSE
                     IF i = 2 THEN LooksAt(1, FALSE, FALSE, 2) ELSE
                     IF i = 3 THEN LooksAt(1, FALSE, FALSE, 3) ELSE
                     IF i = 4 THEN LooksAt(2, FALSE, FALSE, 4) ELSE
                     LooksAt(1, FALSE, FALSE, 5)]
<1>4. /\ t[0] = LooksAt(0, FALSE, FALSE, 0)
      /\ t[1] = LooksAt(0, FALSE, FALSE, 1)
      /\ t[2] = LooksAt(1, FALSE, FALSE, 2)
      /\ t[3] = LooksAt(1, FALSE, FALSE, 3)
      /\ t[4] = LooksAt(2, FALSE, FALSE, 4)
      /\ t[5] = LooksAt(1, FALSE, FALSE, 5)
  OBVIOUS
<1> HIDE DEF t
<1>5. Look(t[0], o[1]) = t[1]
  <2>1. PICK f, c : f = t[0] /\ c = o[1]
    OBVIOUS
  <2>2. f = LooksAt(0, FALSE, FALSE, 0) /\ c = "space"
    BY <1>3, <1>4, <2>1
  <2>3. Look(f, c) = LooksAt(0, FALSE, FALSE, 0 + 1)
    BY <2>2, LookAtOther
  <2>4. 0 + 1 = 1
    OBVIOUS
  <2> QED
    BY <1>4, <2>1, <2>3, <2>4
<1>6. Look(t[1], o[2]) = t[2]
  <2>1. PICK f, c : f = t[1] /\ c = o[2]
    OBVIOUS
  <2>2. f = LooksAt(0, FALSE, FALSE, 1) /\ c = "open"
    BY <1>3, <1>4, <2>1
  <2>3. Look(f, c) = LooksAt(0 + 1, FALSE, FALSE, 1 + 1)
    BY <2>2, LookAtOpen
  <2>4. 1 + 1 = 2 /\ 0 + 1 = 1
    OBVIOUS
  <2> QED
    BY <1>4, <2>1, <2>3, <2>4
<1>7. Look(t[2], o[3]) = t[3]
  <2>1. PICK f, c : f = t[2] /\ c = o[3]
    OBVIOUS
  <2>2. f = LooksAt(1, FALSE, FALSE, 2) /\ c = "other"
    BY <1>3, <1>4, <2>1
  <2>3. Look(f, c) = LooksAt(1, FALSE, FALSE, 2 + 1)
    BY <2>2, LookAtOther
  <2>4. 2 + 1 = 3
    OBVIOUS
  <2> QED
    BY <1>4, <2>1, <2>3, <2>4
<1>8. Look(t[3], o[4]) = t[4]
  <2>1. PICK f, c : f = t[3] /\ c = o[4]
    OBVIOUS
  <2>2. f = LooksAt(1, FALSE, FALSE, 3) /\ c = "open"
    BY <1>3, <1>4, <2>1
  <2>3. Look(f, c) = LooksAt(1 + 1, FALSE, FALSE, 3 + 1)
    BY <2>2, LookAtOpen
  <2>4. 3 + 1 = 4 /\ 1 + 1 = 2
    OBVIOUS
  <2> QED
    BY <1>4, <2>1, <2>3, <2>4
<1>9. Look(t[4], o[5]) = t[5]
  <2>1. PICK f, c : f = t[4] /\ c = o[5]
    OBVIOUS
  <2>2. f = LooksAt(2, FALSE, FALSE, 4) /\ c = "close"
    BY <1>3, <1>4, <2>1
  <2>3. Look(f, c) = LooksAt(1, FALSE, FALSE, 4 + 1)
    BY <2>2, LookAtInnerClose
  <2>4. 4 + 1 = 5
    OBVIOUS
  <2> QED
    BY <1>4, <2>1, <2>3, <2>4
<1>10. Look(t[5], o[6]).found = TRUE /\ Look(t[5], o[6]).offset = 5
  <2>1. PICK f, c : f = t[5] /\ c = o[6]
    OBVIOUS
  <2>2. f = LooksAt(1, FALSE, FALSE, 5) /\ c = "close"
    BY <1>3, <1>4, <2>1
  <2>3. EndsAt(Look(f, c), 5)
    BY <2>2, LookAtClose
  <2> QED
    BY <2>1, <2>3 DEF EndsAt
<1>11. /\ t[1].found = FALSE /\ t[1].offset = 1
      /\ t[2].found = FALSE /\ t[2].offset = 2
      /\ t[3].found = FALSE /\ t[3].offset = 3
      /\ t[4].found = FALSE /\ t[4].offset = 4
      /\ t[5].found = FALSE /\ t[5].offset = 5
  BY <1>4 DEF LooksAt
<1>12. t[0] = NotFound
  BY <1>4 DEF LooksAt, NotFound
<1>13. ASSUME NEW i \in 1 .. 6 - 1
      PROVE  t[i] = Look(t[i - 1], o[i]) /\ t[i].found = FALSE /\ t[i].offset = i
  <2>1. i = 1 \/ i = 2 \/ i = 3 \/ i = 4 \/ i = 5
    OBVIOUS
  <2>2. CASE i = 1
    <3>1. i - 1 = 0
      BY <2>2
    <3> QED
      BY <1>5, <1>11, <2>2, <3>1
  <2>3. CASE i = 2
    <3>1. i - 1 = 1
      BY <2>3
    <3> QED
      BY <1>6, <1>11, <2>3, <3>1
  <2>4. CASE i = 3
    <3>1. i - 1 = 2
      BY <2>4
    <3> QED
      BY <1>7, <1>11, <2>4, <3>1
  <2>5. CASE i = 4
    <3>1. i - 1 = 3
      BY <2>5
    <3> QED
      BY <1>8, <1>11, <2>5, <3>1
  <2>6. CASE i = 5
    <3>1. i - 1 = 4
      BY <2>6
    <3> QED
      BY <1>9, <1>11, <2>6, <3>1
  <2> QED
    BY <2>1, <2>2, <2>3, <2>4, <2>5, <2>6
<1>14. IsTrack(t, o, 6)
  <2>1. 6 - 1 = 5
    OBVIOUS
  <2> QED
    BY <1>10, <1>12, <1>13, <2>1 DEF IsTrack
<1> QED
  BY <1>1, <1>2, <1>14 DEF IsObject

LEMMA SamplesAreObjects == \A o \in Samples : IsObject(Characters, o)
BY NoMembersIsObject, StringWithCurlyIsObject, StringWithQuoteIsObject, StringWithBackslashIsObject, ObjectInObjectIsObject DEF Samples

(* A sequence that is a function of the numbers up to n has the length n.  *)
LEMMA LengthOfFunction ==
  ASSUME NEW n \in Nat, NEW M, NEW s \in [1 .. n -> M], s \in Seq(M)
  PROVE  Len(s) = n
<1>1. Len(s) \in Nat /\ DOMAIN s = 1 .. Len(s)
  BY LenProperties
<1>2. PICK l \in Nat : l = Len(s) /\ DOMAIN s = 1 .. l
  BY <1>1
<1>3. DOMAIN s = 1 .. n
  OBVIOUS
<1>4. CASE l < n
  <2>1. n \in 1 .. n /\ n \notin 1 .. l
    BY <1>4
  <2> QED
    BY <1>2, <1>3, <2>1
<1>5. CASE n < l
  <2>1. l \in 1 .. l /\ l \notin 1 .. n
    BY <1>5
  <2> QED
    BY <1>2, <1>3, <2>1
<1> QED
  BY <1>2, <1>4, <1>5

LEMMA FirstOnesBegin ==
  ASSUME NEW objects, NEW j \in Nat, NEW N \in Nat, j <= N
  PROVE  IsPrefix(FirstOnes(objects, j), FirstOnes(objects, N))
<1> DEFINE M == {Object(objects[n]) : n \in 1 .. N}
<1>1. PICK s, t : s = FirstOnes(objects, j) /\ t = FirstOnes(objects, N)
  OBVIOUS
<1>2. s \in [1 .. j -> M] /\ t \in [1 .. N -> M] /\ \A n \in 1 .. j : n \in 1 .. N /\ s[n] = t[n]
  <2>1. \A n \in 1 .. j : n \in 1 .. N
    OBVIOUS
  <2> QED
    BY <1>1, <2>1 DEF FirstOnes
<1> HIDE DEF M
<1>3. s \in Seq(M) /\ t \in Seq(M)
  BY <1>2, SeqDef
<1>4. Len(s) = j /\ Len(t) = N
  BY <1>2, <1>3, LengthOfFunction
<1>5. PICK u, v : u = SubSeq(s, 1, j) /\ v = SubSeq(t, 1, j)
  OBVIOUS
<1>6. IsPiece(u, M, s, 0, j) /\ IsPiece(v, M, t, 0, j)
  <2>1. 0 + 1 = 1 /\ j <= Len(s) /\ j <= Len(t) /\ 0 <= j
    BY <1>4
  <2>2. IsPiece(SubSeq(s, 0 + 1, j), M, s, 0, j)
    BY <1>3, <2>1, SubSeqIsPiece
  <2>3. IsPiece(SubSeq(t, 0 + 1, j), M, t, 0, j)
    BY <1>3, <2>1, SubSeqIsPiece
  <2> QED
    BY <1>5, <2>1, <2>2, <2>3
<1>7. /\ u \in Seq(M) /\ 0 + Len(u) = j /\ \A i \in 1 .. Len(u) : u[i] = s[0 + i]
      /\ v \in Seq(M) /\ 0 + Len(v) = j /\ \A i \in 1 .. Len(v) : v[i] = t[0 + i]
  BY <1>6 DEF IsPiece
<1>8. Len(u) = j /\ Len(v) = j
  BY <1>7, LenProperties
<1>9. ASSUME NEW i \in 1 .. j PROVE u[i] = v[i]
  <2>1. 0 + i = i
    OBVIOUS
  <2> QED
    BY <1>2, <1>7, <1>8, <2>1
<1>10. u = v
  BY <1>7, <1>8, <1>9, SeqEqual
<1> QED
  BY <1>1, <1>4, <1>5, <1>10 DEF IsPrefix

(* How much of the text n frames hold.                                     *)
EndsOf(text, first, second, n) ==
  [k \in 0 .. n |-> IF k = 0 THEN 0 ELSE IF k = 1 THEN first ELSE IF k = 2 THEN second ELSE Len(text)]

(* What the frames are, three with the text and any number without.        *)
IsFramed(frames, text, first, second, further) ==
  /\ \E C : frames \in Seq(Seq(C))
  /\ Len(frames) = further + 3
  /\ frames[1] = SubSeq(text, 1, first)
  /\ frames[2] = SubSeq(text, first + 1, second)
  /\ frames[3] = SubSeq(text, second + 1, Len(text))
  /\ \A k \in 4 .. further + 3 : frames[k] = <<>>

LEMMA FramesOfIs ==
  ASSUME NEW C, NEW text \in Seq(C), NEW second \in 0 .. Len(text), NEW first \in 0 .. second,
         NEW further \in Nat
  PROVE  IsFramed(FramesOf(text, first, second, further), text, first, second, further)
<1>1. PICK z \in Nat : z = Len(text)
  BY LenProperties
<1>2. second \in Nat /\ first \in Nat /\ first <= second /\ second <= z
  BY <1>1
<1>3. PICK a, b, c : a = SubSeq(text, 1, first) /\ b = SubSeq(text, first + 1, second)
                     /\ c = SubSeq(text, second + 1, z)
  OBVIOUS
<1>4. a \in Seq(C) /\ b \in Seq(C) /\ c \in Seq(C)
  <2>1. IsPiece(SubSeq(text, 0 + 1, first), C, text, 0, first)
    BY <1>1, <1>2, SubSeqIsPiece
  <2>2. IsPiece(SubSeq(text, first + 1, second), C, text, first, second)
    BY <1>1, <1>2, SubSeqIsPiece
  <2>3. IsPiece(SubSeq(text, second + 1, z), C, text, second, z)
    BY <1>1, <1>2, SubSeqIsPiece
  <2>4. 0 + 1 = 1
    OBVIOUS
  <2> QED
    BY <1>3, <2>1, <2>2, <2>3, <2>4 DEF IsPiece
<1>5. PICK s, t : s = <<a, b, c>> /\ t = [n \in 1 .. further |-> <<>>]
  OBVIOUS
<1>6. s \in Seq(Seq(C)) /\ Len(s) = 3 /\ s[1] = a /\ s[2] = b /\ s[3] = c
  BY <1>4, <1>5
<1>7. t \in Seq(Seq(C)) /\ Len(t) = further /\ \A n \in 1 .. further : t[n] = <<>>
  <2>1. <<>> \in Seq(C)
    BY EmptySeq
  <2>2. t \in [1 .. further -> Seq(C)]
    BY <1>5, <2>1
  <2>3. t \in Seq(Seq(C))
    BY <2>2, SeqDef
  <2>4. Len(t) \in Nat /\ DOMAIN t = 1 .. Len(t) /\ DOMAIN t = 1 .. further
    BY <2>2, <2>3, LenProperties
  <2> QED
    BY <1>5, <2>3, <2>4
<1>8. PICK u : u = s \o t
  OBVIOUS
<1>9. u \in Seq(Seq(C)) /\ Len(u) = 3 + further
      /\ \A i \in 1 .. 3 + further : u[i] = IF i <= 3 THEN s[i] ELSE t[i - 3]
  <2>1. PICK W : W = Seq(C)
    OBVIOUS
  <2>2. s \in Seq(W) /\ t \in Seq(W)
    BY <1>6, <1>7, <2>1
  <2>3. u \in Seq(W) /\ Len(u) = Len(s) + Len(t)
        /\ \A i \in 1 .. Len(s) + Len(t) : u[i] = IF i <= Len(s) THEN s[i] ELSE t[i - Len(s)]
    BY <1>8, <2>2, ConcatProperties
  <2> QED
    BY <1>6, <1>7, <2>1, <2>3
<1>10. u[1] = a /\ u[2] = b /\ u[3] = c
  <2>1. 1 \in 1 .. 3 + further /\ 2 \in 1 .. 3 + further /\ 3 \in 1 .. 3 + further
    OBVIOUS
  <2> QED
    BY <1>6, <1>9, <2>1
<1>11. ASSUME NEW k \in 4 .. further + 3 PROVE u[k] = <<>>
  <2>1. k \in 1 .. 3 + further /\ ~(k <= 3) /\ k - 3 \in 1 .. further
    OBVIOUS
  <2> QED
    BY <1>7, <1>9, <2>1
<1>12. u = FramesOf(text, first, second, further)
  BY <1>1, <1>3, <1>5, <1>8 DEF FramesOf
<1>13. 3 + further = further + 3
  OBVIOUS
<1> QED
  BY <1>1, <1>3, <1>9, <1>10, <1>11, <1>12, <1>13 DEF IsFramed

LEMMA FramedAreFrames ==
  ASSUME NEW C, NEW text \in Seq(C), NEW second \in 0 .. Len(text), NEW first \in 0 .. second,
         NEW further \in Nat, NEW frames, IsFramed(frames, text, first, second, further),
         NEW n \in 0 .. further + 3, NEW texts, texts = SubSeq(frames, 1, n)
  PROVE  AreFrames(texts, n, text, EndsOf(text, first, second, n))
<1>1. PICK z \in Nat : z = Len(text)
  BY LenProperties
<1>2. second \in Nat /\ first \in Nat /\ first <= second /\ second <= z /\ n \in Nat /\ n <= further + 3
  BY <1>1
<1>3. PICK D : frames \in Seq(Seq(D))
  BY DEF IsFramed
<1>4. IsPiece(texts, Seq(D), frames, 0, n)
  <2>1. n <= Len(frames) /\ 0 <= n /\ 0 + 1 = 1
    BY <1>2 DEF IsFramed
  <2>2. IsPiece(SubSeq(frames, 0 + 1, n), Seq(D), frames, 0, n)
    BY <1>2, <1>3, <2>1, SubSeqIsPiece
  <2> QED
    BY <2>1, <2>2
<1>5. texts \in Seq(Seq(D)) /\ 0 + Len(texts) = n /\ \A i \in 1 .. Len(texts) : texts[i] = frames[0 + i]
  BY <1>4 DEF IsPiece
<1>6. Len(texts) = n /\ DOMAIN texts = 1 .. n
  BY <1>5, LenProperties
<1>7. PICK ends : ends = EndsOf(text, first, second, n)
  OBVIOUS
<1>8. /\ \A k \in 0 .. n : ends[k] = IF k = 0 THEN 0 ELSE IF k = 1 THEN first ELSE IF k = 2 THEN second ELSE z
      /\ DOMAIN ends = 0 .. n
      /\ ends = [k \in 0 .. n |-> ends[k]]
  BY <1>1, <1>7 DEF EndsOf
<1>a. ASSUME NEW k \in 0 .. n, k # 0, k # 1, k # 2 PROVE ends[k] = z
  BY <1>8, <1>a
<1>9. ends \in [0 .. n -> Nat] /\ ends[0] = 0
  <2>1. \A k \in 0 .. n : ends[k] \in Nat
    BY <1>2, <1>8
  <2>2. 0 \in 0 .. n
    BY <1>2
  <2> QED
    BY <1>8, <2>1, <2>2
<1>10. ASSUME NEW k \in 1 .. n
       PROVE  /\ ends[k - 1] <= ends[k] /\ ends[k] <= z
              /\ texts[k] = SubSeq(text, ends[k - 1] + 1, ends[k])
              /\ k >= 3 => ends[k] = z
  <2>1. k - 1 \in 0 .. n /\ k \in 0 .. n
    OBVIOUS
  <2>2. texts[k] = frames[k]
    <3>1. 0 + k = k
      OBVIOUS
    <3> QED
      BY <1>5, <1>6, <3>1
  <2>3. CASE k = 1
    <3>1. ends[k - 1] = 0 /\ ends[k] = first
      BY <1>8, <2>1, <2>3
    <3>2. texts[k] = SubSeq(text, 1, first) /\ 0 + 1 = 1
      BY <2>2, <2>3 DEF IsFramed
    <3> QED
      BY <1>2, <2>3, <3>1, <3>2
  <2>4. CASE k = 2
    <3>1. ends[k - 1] = first /\ ends[k] = second
      BY <1>8, <2>1, <2>4
    <3>2. texts[k] = SubSeq(text, first + 1, second)
      BY <2>2, <2>4 DEF IsFramed
    <3> QED
      BY <1>2, <2>4, <3>1, <3>2
  <2>5. CASE k = 3
    <3>1. ends[k - 1] = second /\ ends[k] = z
      <4>1. k - 1 = 2
        BY <2>5
      <4>2. ends[k - 1] = second
        BY <1>8, <2>1, <4>1
      <4>3. ends[k] = z
        <5>1. k # 0 /\ k # 1 /\ k # 2
          BY <2>5
        <5> QED
          BY <1>a, <2>1, <5>1
      <4> QED
        BY <4>2, <4>3
    <3>2. texts[k] = SubSeq(text, second + 1, z)
      BY <1>1, <2>2, <2>5 DEF IsFramed
    <3> QED
      BY <1>2, <2>5, <3>1, <3>2
  <2>6. CASE k \in 4 .. further + 3
    <3>1. ends[k - 1] = z /\ ends[k] = z
      <4>1. PICK i : i = k - 1
        OBVIOUS
      <4>2. i \in 0 .. n /\ i # 0 /\ i # 1 /\ i # 2
        BY <2>1, <2>6, <4>1
      <4>3. ends[i] = z
        BY <1>a, <4>2
      <4>4. k # 0 /\ k # 1 /\ k # 2
        BY <2>6
      <4>5. ends[k] = z
        BY <1>a, <2>1, <4>4
      <4> QED
        BY <4>1, <4>3, <4>5
    <3>2. texts[k] = <<>>
      BY <2>2, <2>6 DEF IsFramed
    <3>3. SubSeq(text, z + 1, z) = <<>>
      <4>1. IsPiece(SubSeq(text, z + 1, z), C, text, z, z)
        <5>1. z <= z /\ z <= Len(text)
          BY <1>1
        <5> QED
          BY <5>1, SubSeqIsPiece
      <4>2. PICK s : s = SubSeq(text, z + 1, z)
        OBVIOUS
      <4>3. s \in Seq(C) /\ z + Len(s) = z
        BY <4>1, <4>2 DEF IsPiece
      <4>4. Len(s) = 0
        BY <4>3, LenProperties
      <4>5. s = <<>>
        BY <4>3, <4>4, EmptySeq
      <4> QED
        BY <4>2, <4>5
    <3>4. z <= z
      BY <1>1
    <3> QED
      BY <3>1, <3>2, <3>3, <3>4
  <2>7. k = 1 \/ k = 2 \/ k = 3 \/ k \in 4 .. further + 3
    BY <1>2
  <2> QED
    BY <2>3, <2>4, <2>5, <2>6, <2>7
<1> QED
  BY <1>1, <1>6, <1>7, <1>9, <1>10 DEF AreFrames

(* What the input is when it is the text of objects, cut into frames.      *)
FramesGiven ==
  input.of = "frames" =>
    \E objects \in UpTo(Samples, MaxObjects) : \E second \in 0 .. Len(Sent(objects)) : \E first \in 0 .. second :
      input = [of |-> "frames", objects |-> objects, first |-> first, second |-> second]

LEMMA FramesGivenNext == FramesGiven /\ [Next]_input => FramesGiven'
<1> SUFFICES ASSUME FramesGiven, [Next]_input PROVE FramesGiven'
  OBVIOUS
<1>1. CASE TakeFrames
  BY <1>1 DEF TakeFrames, FramesGiven
<1>2. CASE TakeTree \/ TakeStarts \/ TakeEnvirons \/ TakePath \/ TakeFile
  <2>1. CASE TakeTree
    BY <2>1 DEF TakeTree, FramesGiven
  <2>2. CASE TakeStarts
    <3>1. input'.of = "starts"
      BY <2>2 DEF TakeStarts
    <3> QED
      BY <3>1 DEF FramesGiven
  <2>3. CASE TakeEnvirons
    <3>1. input'.of = "environs"
      BY <2>3 DEF TakeEnvirons
    <3> QED
      BY <3>1 DEF FramesGiven
  <2>4. CASE TakePath
    <3>1. input'.of = "path"
      BY <2>4 DEF TakePath
    <3> QED
      BY <3>1 DEF FramesGiven
  <2>5. CASE TakeFile
    <3>1. input'.of = "file"
      BY <2>5 DEF TakeFile
    <3> QED
      BY <3>1 DEF FramesGiven
  <2> QED
    BY <1>2, <2>1, <2>2, <2>3, <2>4, <2>5
<1>3. CASE UNCHANGED input
  BY <1>3 DEF FramesGiven
<1> QED
  BY <1>1, <1>2, <1>3 DEF Next

LEMMA WholeSubSeq ==
  ASSUME NEW W, NEW s \in Seq(W)
  PROVE  SubSeq(s, 1, Len(s)) = s
<1>1. PICK m \in Nat : m = Len(s)
  BY LenProperties
<1>2. PICK u : u = SubSeq(s, 1, m)
  OBVIOUS
<1>3. IsPiece(u, W, s, 0, m)
  <2>1. 0 + 1 = 1 /\ 0 <= m /\ m <= Len(s)
    BY <1>1
  <2>2. IsPiece(SubSeq(s, 0 + 1, m), W, s, 0, m)
    BY <1>1, <2>1, SubSeqIsPiece
  <2> QED
    BY <1>2, <2>1, <2>2
<1>4. u \in Seq(W) /\ 0 + Len(u) = m /\ \A i \in 1 .. Len(u) : u[i] = s[0 + i]
  BY <1>3 DEF IsPiece
<1>5. Len(u) = m
  BY <1>4, LenProperties
<1>6. ASSUME NEW i \in 1 .. m PROVE u[i] = s[i]
  <2>1. 0 + i = i
    OBVIOUS
  <2> QED
    BY <1>4, <1>5, <2>1
<1>7. u = s
  BY <1>1, <1>4, <1>5, <1>6, SeqEqual
<1> QED
  BY <1>1, <1>2, <1>7

(* What the parser makes of any text of objects that is cut into three     *)
(* frames, with one more for each object.                                  *)
PopsAll(frames, objects, N) ==
  /\ \A n \in 1 .. N + 3 : IsPrefix(Frames(SubSeq(frames, 1, n)).messages, FirstOnes(objects, N))
  /\ Frames(frames).messages = FirstOnes(objects, N)
  /\ DOMAIN frames = 1 .. N + 3

LEMMA FramesPop ==
  ASSUME NEW C, NEW objects, NEW N \in Nat, N = Len(objects), DOMAIN objects = 1 .. N,
         N = 0 => objects = <<>>, \A n \in 1 .. N : IsObject(C, objects[n]),
         NEW text, text = Sent(objects),
         NEW second \in 0 .. Len(text), NEW first \in 0 .. second,
         NEW frames, frames = FramesOf(text, first, second, N)
  PROVE  PopsAll(frames, objects, N)
<1>1. PICK L, T : IsCut(C, objects, N, text, L, T)
  BY CutExists
<1>2. text \in Seq(C)
  BY <1>1 DEF IsCut
<1>3. IsFramed(frames, text, first, second, N)
  <2>1. IsFramed(FramesOf(text, first, second, N), text, first, second, N)
    BY <1>2, FramesOfIs
  <2> QED
    BY <2>1
<1>4. ASSUME NEW n \in 1 .. N + 3
      PROVE  \E j \in 0 .. N : /\ KeepsUp(N, j, n)
                               /\ Frames(SubSeq(frames, 1, n)).messages = FirstOnes(objects, j)
  <2>1. PICK texts, ends : texts = SubSeq(frames, 1, n) /\ ends = EndsOf(text, first, second, n)
    OBVIOUS
  <2>2. n \in 0 .. N + 3 /\ n \in Nat
    OBVIOUS
  <2>3. AreFrames(texts, n, text, ends)
    <3>1. AreFrames(texts, n, text, EndsOf(text, first, second, n))
      BY <1>2, <1>3, <2>1, <2>2, FramedAreFrames
    <3> QED
      BY <2>1, <3>1
  <2>4. Takes(Frames(texts), C, objects, N, text, L, T, n, ends[n])
    BY <1>1, <2>2, <2>3, FramesAreTaken
  <2>5. PICK j \in 0 .. N : IsAfter(Frames(texts), C, objects, N, text, L, T, j, ends[n]) /\ KeepsUp(N, j, n)
    BY <2>4 DEF Takes
  <2>6. Frames(texts).messages = FirstOnes(objects, j)
    BY <2>5 DEF IsAfter
  <2>7. Frames(SubSeq(frames, 1, n)).messages = FirstOnes(objects, j)
    BY <2>1, <2>6
  <2>8. KeepsUp(N, j, n)
    BY <2>5
  <2> QED
    BY <2>7, <2>8
<1>5. ASSUME NEW n \in 1 .. N + 3
      PROVE  IsPrefix(Frames(SubSeq(frames, 1, n)).messages, FirstOnes(objects, N))
  <2>1. PICK j \in 0 .. N : Frames(SubSeq(frames, 1, n)).messages = FirstOnes(objects, j)
    BY <1>4
  <2>2. j \in Nat /\ j <= N
    OBVIOUS
  <2>3. IsPrefix(FirstOnes(objects, j), FirstOnes(objects, N))
    BY <2>2, FirstOnesBegin
  <2> QED
    BY <2>1, <2>3
<1>6. PICK D : frames \in Seq(Seq(D)) /\ Len(frames) = N + 3
  BY <1>3 DEF IsFramed
<1>7. SubSeq(frames, 1, N + 3) = frames
  <2>1. PICK W : frames \in Seq(W)
    BY <1>6
  <2>2. SubSeq(frames, 1, Len(frames)) = frames
    BY <2>1, WholeSubSeq
  <2> QED
    BY <1>6, <2>2
<1>8. Frames(frames).messages = FirstOnes(objects, N)
  <2>1. N + 3 \in 1 .. N + 3
    OBVIOUS
  <2>2. PICK j \in 0 .. N : KeepsUp(N, j, N + 3) /\ Frames(frames).messages = FirstOnes(objects, j)
    <3>1. PICK m \in 1 .. N + 3 : m = N + 3
      BY <2>1
    <3>2. PICK j \in 0 .. N : KeepsUp(N, j, m) /\ Frames(SubSeq(frames, 1, m)).messages = FirstOnes(objects, j)
      BY <1>4
    <3>3. SubSeq(frames, 1, m) = frames
      BY <1>7, <3>1
    <3> QED
      BY <3>1, <3>2, <3>3
  <2>3. j = N
    BY <2>2 DEF KeepsUp
  <2> QED
    BY <2>2, <2>3
<1>9. DOMAIN frames = 1 .. N + 3
  BY <1>6, LenProperties
<1> QED
  BY <1>5, <1>8, <1>9 DEF PopsAll

LEMMA FramesGivenPop == FramesGiven => PopsWhatWasSent
<1> SUFFICES ASSUME FramesGiven, input.of = "frames" PROVE PopsWhatWasSent
  BY DEF PopsWhatWasSent
<1>1. PICK objects \in UpTo(Samples, MaxObjects) : \E second \in 0 .. Len(Sent(objects)) : \E first \in 0 .. second :
        input = [of |-> "frames", objects |-> objects, first |-> first, second |-> second]
  BY DEF FramesGiven
<1>2. PICK second \in 0 .. Len(Sent(objects)) : \E first \in 0 .. second :
        input = [of |-> "frames", objects |-> objects, first |-> first, second |-> second]
  BY <1>1
<1>3. PICK first \in 0 .. second :
        input = [of |-> "frames", objects |-> objects, first |-> first, second |-> second]
  BY <1>2
<1>4. Len(objects) \in Nat /\ objects \in [1 .. Len(objects) -> Samples]
  BY SequenceUpTo
<1>5. PICK N \in Nat : N = Len(objects)
  BY <1>4
<1>6. DOMAIN objects = 1 .. N
  BY <1>4, <1>5
<1>7. N = 0 => objects = <<>>
  <2>1. objects \in Seq(Samples)
    BY <1>4, <1>5, SeqDef
  <2> QED
    BY <1>5, <2>1, EmptySeq
<1>8. \A n \in 1 .. N : IsObject(Characters, objects[n])
  BY <1>4, <1>5, SamplesAreObjects
<1>9. PICK sent : sent = FirstOnes(objects, N)
  OBVIOUS
<1>10. [n \in DOMAIN objects |-> Object(objects[n])] = sent
  BY <1>6, <1>9 DEF FirstOnes
<1>11. Len(sent) = N
  <2> DEFINE M == {Object(objects[n]) : n \in 1 .. N}
  <2>1. sent \in [1 .. N -> M]
    BY <1>9 DEF FirstOnes
  <2> HIDE DEF M
  <2>2. sent \in Seq(M)
    BY <2>1, SeqDef
  <2> QED
    BY <2>1, <2>2, LengthOfFunction
<1>12. PICK text, frames : text = Sent(objects) /\ frames = FramesOf(text, first, second, N)
  OBVIOUS
<1>13. /\ \A n \in 1 .. N + 3 : IsPrefix(Frames(SubSeq(frames, 1, n)).messages, FirstOnes(objects, N))
       /\ Frames(frames).messages = FirstOnes(objects, N)
       /\ DOMAIN frames = 1 .. N + 3
  <2>1. second \in 0 .. Len(text)
    BY <1>12
  <2> QED
    <3>1. PopsAll(frames, objects, N)
      BY <1>5, <1>6, <1>7, <1>8, <1>12, <2>1, FramesPop
    <3> QED
      BY <3>1 DEF PopsAll
<1>14. input.objects = objects /\ input.first = first /\ input.second = second
  BY <1>3
<1> QED
  BY <1>9, <1>10, <1>11, <1>12, <1>13, <1>14 DEF PopsWhatWasSent

(* However often objects are sent and wherever their text is cut into three*)
(* frames, the objects are taken off it as they were sent, in their order; *)
(* each further frame gives one that was left (StreamParser::popMessage,   *)
(* FrontendUserSession::on_text).                                          *)
THEOREM PopsWhatWasSentCorrect == Spec => []PopsWhatWasSent
<1>1. Init => FramesGiven
  BY DEF Init, None, FramesGiven
<1>2. FramesGiven /\ [Next]_input => FramesGiven'
  BY FramesGivenNext
<1>3. FramesGiven => PopsWhatWasSent
  BY FramesGivenPop
<1> QED
  BY <1>1, <1>2, <1>3, PTL DEF Spec

------------------------------------------------------------------------------
(* t has each of S once.                                                   *)
IsListOf(t, S) ==
  /\ t \in Seq(S)
  /\ \A a, b \in 1 .. Len(t) : t[a] = t[b] => a = b
  /\ \A c \in S : \E a \in 1 .. Len(t) : t[a] = c

(* A finite set is listed by SetToSeq.                                     *)
LEMMA SetToSeqLists ==
  ASSUME NEW S, IsFiniteSet(S)
  PROVE  IsListOf(SetToSeq(S), S) /\ Len(SetToSeq(S)) = Cardinality(S)
<1>1. PICK n \in Nat : n = Cardinality(S)
  BY FS_CardinalityType
<1>2. ExistsBijection(1 .. n, S)
  BY <1>1, FS_CardinalityType
<1>3. PICK g : g \in [1 .. n -> S] /\ IsInjective(g)
  BY <1>2 DEF ExistsBijection, Bijection, Injection
<1>4. PICK f : f = SetToSeq(S)
  OBVIOUS
<1>5. f \in [1 .. n -> S] /\ IsInjective(f)
  BY <1>1, <1>3, <1>4 DEF SetToSeq
<1>6. f \in Seq(S) /\ Len(f) = n
  <2>1. f \in Seq(S)
    BY <1>5, SeqDef
  <2>2. DOMAIN f = 1 .. n
    BY <1>5
  <2> QED
    BY <2>1, <2>2, <1>5, LengthOfFunction
<1>7. f \in Injection(1 .. n, S)
  BY <1>5 DEF Injection
<1>8. IsFiniteSet(1 .. n) /\ Cardinality(1 .. n) = n
  BY FS_Interval
<1>9. f \in Surjection(1 .. n, S)
  BY <1>1, <1>7, <1>8, FS_Injection
<1>10. \A c \in S : \E a \in 1 .. n : f[a] = c
  BY <1>9 DEF Surjection
<1>11. \A a, b \in 1 .. n : f[a] = f[b] => a = b
  BY <1>5 DEF IsInjective
<1> QED
  BY <1>1, <1>4, <1>6, <1>10, <1>11 DEF IsListOf

(* Each directory from 2 to N is in one with a smaller number.             *)
IsTree(parent, N) ==
  /\ N \in Nat /\ N >= 1
  /\ \A c \in 2 .. N : parent[c] \in Nat /\ 1 <= parent[c] /\ parent[c] < c

(* The directories the scan met, q, of which it listed the first m: each   *)
(* is met once, level by level, and so are those in the listed ones.       *)
Met(q, m, parent, N) ==
  /\ q \in Seq(1 .. N)
  /\ m \in Nat /\ m <= Len(q) /\ 1 <= Len(q)
  /\ q[1] = 1
  /\ \A a, b \in 1 .. Len(q) : q[a] = q[b] => a = b
  /\ \A a \in 2 .. Len(q) : \E x \in 1 .. m : parent[q[a]] = q[x]
  /\ \A a, b \in 2 .. Len(q) : \A x, y \in 1 .. Len(q) :
       parent[q[a]] = q[x] /\ parent[q[b]] = q[y] /\ x < y => a < b
  /\ \A c \in 2 .. N : \A x \in 1 .. m : parent[c] = q[x] => \E a \in 1 .. Len(q) : q[a] = c

(* At first only the root is met.                                          *)
LEMMA RootIsMet ==
  ASSUME NEW N \in Nat, N >= 1, NEW parent
  PROVE  Met(<<1>>, 0, parent, N)
<1>1. 1 \in 1 .. N
  OBVIOUS
<1>2. <<1>> \in Seq(1 .. N) /\ Len(<<1>>) = 1 /\ <<1>>[1] = 1
  BY <1>1
<1>3. PICK q : q = <<1>>
  OBVIOUS
<1>4. q \in Seq(1 .. N) /\ Len(q) = 1 /\ q[1] = 1
  BY <1>2, <1>3
<1>5. 2 .. 1 = {} /\ 1 .. 0 = {}
  OBVIOUS
<1>6. Met(q, 0, parent, N)
  BY <1>4, <1>5 DEF Met
<1> QED
  BY <1>3, <1>6

(* The subdirectories of the next one are met when it is listed.           *)
LEMMA NextIsMet ==
  ASSUME NEW N, NEW parent, IsTree(parent, N), NEW q, NEW m, Met(q, m, parent, N), m < Len(q),
         NEW t, IsListOf(t, {c \in 2 .. N : parent[c] = q[m + 1]})
  PROVE  Met(q \o t, m + 1, parent, N)
<1>1. /\ q \in Seq(1 .. N) /\ m \in Nat /\ q[1] = 1
      /\ \A a, b \in 1 .. Len(q) : q[a] = q[b] => a = b
      /\ \A a \in 2 .. Len(q) : \E x \in 1 .. m : parent[q[a]] = q[x]
      /\ \A a, b \in 2 .. Len(q) : \A x, y \in 1 .. Len(q) :
           parent[q[a]] = q[x] /\ parent[q[b]] = q[y] /\ x < y => a < b
      /\ \A c \in 2 .. N : \A x \in 1 .. m : parent[c] = q[x] => \E a \in 1 .. Len(q) : q[a] = c
  BY DEF Met
<1>2. N \in Nat
  BY DEF IsTree
<1>3. PICK d, k, l : d = q[m + 1] /\ k = Len(q) /\ l = Len(t)
  OBVIOUS
<1>4. /\ t \in Seq({c \in 2 .. N : parent[c] = d})
      /\ \A a, b \in 1 .. l : t[a] = t[b] => a = b
      /\ \A c \in 2 .. N : parent[c] = d => \E a \in 1 .. l : t[a] = c
  BY <1>3 DEF IsListOf
<1>5. t \in Seq(1 .. N)
  <2>1. {c \in 2 .. N : parent[c] = d} \subseteq 1 .. N
    BY <1>2
  <2> QED
    BY <1>4, <2>1, SeqMonotonic
<1>6. k \in Nat /\ l \in Nat /\ m < k /\ 1 <= k
  BY <1>1, <1>3, <1>5, LenProperties DEF Met
<1>7. \A a \in 1 .. l : t[a] \in 2 .. N /\ parent[t[a]] = d
  <2>1. \A a \in 1 .. Len(t) : t[a] \in {c \in 2 .. N : parent[c] = d}
    BY <1>4, ElementOfSeq
  <2> QED
    BY <1>3, <2>1
<1>8. PICK r : r = q \o t
  OBVIOUS
<1>9. /\ r \in Seq(1 .. N) /\ Len(r) = k + l
      /\ \A a \in 1 .. k + l : r[a] = IF a <= k THEN q[a] ELSE t[a - k]
  BY <1>1, <1>3, <1>5, <1>8, ConcatProperties
<1>10. \A a \in 1 .. k : r[a] = q[a]
  BY <1>6, <1>9
<1>11. \A a \in 1 .. l : r[k + a] = t[a] /\ k + a \in 1 .. k + l
  BY <1>6, <1>9
<1>12. \A a \in 1 .. k + l : a \notin 1 .. k => a - k \in 1 .. l /\ r[a] = t[a - k]
  BY <1>6, <1>9
<1>13. m + 1 \in 1 .. k /\ r[m + 1] = d
  BY <1>1, <1>3, <1>6, <1>10
<1>14. \A a \in 1 .. k : \A b \in 1 .. l : q[a] # t[b]
  <2>1. SUFFICES ASSUME NEW a \in 1 .. k, NEW b \in 1 .. l, q[a] = t[b] PROVE FALSE
    OBVIOUS
  <2>2. q[a] \in 2 .. N /\ parent[q[a]] = d
    BY <1>7, <2>1
  <2>3. a # 1
    BY <1>1, <2>2
  <2>4. a \in 2 .. k
    BY <1>6, <2>3
  <2>5. PICK x \in 1 .. m : parent[q[a]] = q[x]
    BY <1>1, <1>3, <2>4
  <2>6. q[x] = q[m + 1] /\ x \in 1 .. k
    BY <1>3, <1>6, <1>1, <2>2, <2>5
  <2>7. x = m + 1
    BY <1>1, <1>3, <1>13, <2>6
  <2> QED
    BY <1>1, <2>7
<1>15. ASSUME NEW a \in 1 .. k + l, NEW b \in 1 .. k + l, r[a] = r[b] PROVE a = b
  <2>1. CASE a \in 1 .. k /\ b \in 1 .. k
    BY <1>1, <1>3, <1>10, <1>15, <2>1
  <2>2. CASE a \in 1 .. k /\ b \notin 1 .. k
    BY <1>10, <1>12, <1>14, <1>15, <2>2
  <2>3. CASE a \notin 1 .. k /\ b \in 1 .. k
    BY <1>10, <1>12, <1>14, <1>15, <2>3
  <2>4. CASE a \notin 1 .. k /\ b \notin 1 .. k
    <3>1. a - k \in 1 .. l /\ b - k \in 1 .. l /\ t[a - k] = t[b - k]
      BY <1>12, <1>15, <2>4
    <3>2. a - k = b - k
      BY <1>4, <3>1
    <3> QED
      BY <1>6, <3>2
  <2> QED
    BY <2>1, <2>2, <2>3, <2>4
(* Where the directory stands that one is in.                              *)
<1>16. ASSUME NEW a \in 2 .. k + l
       PROVE  /\ a \in 1 .. k => \E x \in 1 .. m : parent[r[a]] = r[x]
              /\ a \notin 1 .. k => parent[r[a]] = r[m + 1]
  <2>1. CASE a \in 1 .. k
    <3>1. a \in 2 .. k
      BY <1>6, <2>1
    <3>2. PICK x \in 1 .. m : parent[q[a]] = q[x]
      BY <1>1, <1>3, <3>1
    <3>3. x \in 1 .. k
      BY <1>1, <1>6
    <3> QED
      BY <1>10, <2>1, <3>2, <3>3
  <2>2. CASE a \notin 1 .. k
    <3>1. a \in 1 .. k + l
      BY <1>6
    <3> QED
      BY <1>7, <1>12, <1>13, <2>2, <3>1
  <2> QED
    BY <2>1, <2>2
<1>17. \A a \in 2 .. k + l : \E x \in 1 .. m + 1 : parent[r[a]] = r[x]
  <2>1. m + 1 \in 1 .. m + 1 /\ 1 .. m \subseteq 1 .. m + 1
    BY <1>1
  <2> QED
    BY <1>16, <2>1
<1>18. ASSUME NEW a \in 2 .. k + l, NEW b \in 2 .. k + l, NEW x \in 1 .. k + l, NEW y \in 1 .. k + l,
              parent[r[a]] = r[x], parent[r[b]] = r[y], x < y
       PROVE  a < b
  <2>0. 1 .. m \subseteq 1 .. k + l /\ m + 1 \in 1 .. k + l /\ 1 .. m \subseteq 1 .. k
    BY <1>1, <1>6
  <2>1. CASE b \in 1 .. k
    <3>1. PICK v \in 1 .. m : parent[r[b]] = r[v]
      BY <1>16, <2>1
    <3>2. v \in 1 .. k + l /\ r[y] = r[v]
      BY <1>18, <2>0, <3>1
    <3>3. y = v
      BY <1>15, <3>2
    <3>4. x \in 1 .. k /\ y \in 1 .. k /\ x # m + 1
      BY <1>18, <1>6, <1>1, <2>0, <3>3
    <3>5. a \in 1 .. k
      <4>1. SUFFICES ASSUME a \notin 1 .. k PROVE FALSE
        OBVIOUS
      <4>2. r[x] = r[m + 1]
        BY <1>16, <1>18, <4>1
      <4> QED
        BY <1>15, <2>0, <3>4, <4>2
    <3>6. a \in 2 .. k /\ b \in 2 .. k
      BY <1>6, <2>1, <3>5
    <3>7. parent[q[a]] = q[x] /\ parent[q[b]] = q[y]
      BY <1>10, <1>18, <2>1, <3>4, <3>5
    <3> QED
      BY <1>1, <1>3, <1>18, <3>4, <3>6, <3>7
  <2>2. CASE a \in 1 .. k /\ b \notin 1 .. k
    BY <1>6, <2>2
  <2>3. CASE a \notin 1 .. k /\ b \notin 1 .. k
    <3>1. r[x] = r[m + 1] /\ r[y] = r[m + 1]
      BY <1>16, <1>18, <2>3
    <3>2. x = m + 1 /\ y = m + 1
      BY <1>15, <2>0, <3>1
    <3> QED
      BY <1>18, <1>1, <3>2
  <2> QED
    BY <2>1, <2>2, <2>3
<1>19. ASSUME NEW c \in 2 .. N, NEW x \in 1 .. m + 1, parent[c] = r[x]
       PROVE  \E a \in 1 .. k + l : r[a] = c
  <2>1. CASE x = m + 1
    <3>1. PICK a \in 1 .. l : t[a] = c
      BY <1>4, <1>13, <1>19, <2>1
    <3> QED
      BY <1>11, <3>1
  <2>2. CASE x # m + 1
    <3>1. x \in 1 .. m /\ x \in 1 .. k
      BY <1>1, <1>6, <2>2
    <3>2. PICK a \in 1 .. k : q[a] = c
      BY <1>1, <1>3, <1>10, <1>19, <3>1
    <3>3. a \in 1 .. k + l
      BY <1>6
    <3> QED
      BY <1>10, <3>2, <3>3
  <2> QED
    BY <2>1, <2>2
<1>20. r[1] = 1
  BY <1>1, <1>6, <1>10
<1>21. m + 1 \in Nat /\ m + 1 <= k + l /\ 1 <= k + l
  BY <1>1, <1>6
<1>22. Met(r, m + 1, parent, N)
  BY <1>9, <1>15, <1>17, <1>18, <1>19, <1>20, <1>21 DEF Met
<1> QED
  BY <1>8, <1>22

(* When all that were met are listed, or as many as there are, then all    *)
(* there are were met.                                                     *)
LEMMA AllAreMet ==
  ASSUME NEW N, NEW parent, IsTree(parent, N), NEW q, NEW m, Met(q, m, parent, N),
         m = N \/ m = Len(q)
  PROVE  m = N /\ Len(q) = N /\ \A c \in 1 .. N : \E a \in 1 .. N : q[a] = c
<1>1. PICK k : k = Len(q)
  OBVIOUS
<1>2. /\ q \in Seq(1 .. N) /\ m \in Nat /\ m <= k /\ q[1] = 1 /\ 1 <= k
      /\ \A a, b \in 1 .. k : q[a] = q[b] => a = b
      /\ \A c \in 2 .. N : \A x \in 1 .. m : parent[c] = q[x] => \E a \in 1 .. k : q[a] = c
  BY <1>1 DEF Met
<1>3. N \in Nat /\ N >= 1
  BY DEF IsTree
<1>4. k \in Nat /\ DOMAIN q = 1 .. k /\ q \in [1 .. k -> 1 .. N]
  BY <1>1, <1>2, LenProperties
<1>5. q \in Injection(1 .. k, 1 .. N)
  BY <1>2, <1>4 DEF Injection, IsInjective
<1>6. /\ IsFiniteSet(1 .. N) /\ Cardinality(1 .. N) = N
      /\ IsFiniteSet(1 .. k) /\ Cardinality(1 .. k) = k
  BY <1>3, <1>4, <1>2, FS_Interval
<1>7. k <= N
  BY <1>5, <1>6, FS_Injection
<1>8. m = k
  BY <1>1, <1>2, <1>3, <1>4, <1>7
<1>9. \A c \in 1 .. N : \E a \in 1 .. k : q[a] = c
  <2> DEFINE T == {c \in 1 .. N : ~ \E a \in 1 .. k : q[a] = c}
  <2>1. SUFFICES ASSUME T # {} PROVE FALSE
    OBVIOUS
  <2>2. T \subseteq Nat
    BY <1>3
  <2>3. PICK c \in T : \A d \in T : c <= d
    BY <2>1, <2>2, LeastNumber
  <2>4. c \in 1 .. N /\ ~ \E a \in 1 .. k : q[a] = c
    BY <2>3
  <2>5. c # 1
    BY <1>2, <1>4, <2>4
  <2>6. c \in 2 .. N
    BY <1>3, <2>4, <2>5
  <2>7. parent[c] \in Nat /\ 1 <= parent[c] /\ parent[c] < c
    BY <2>6 DEF IsTree
  <2>8. parent[c] \notin T
    BY <2>3, <2>4, <2>7
  <2>9. parent[c] \in 1 .. N
    BY <1>3, <2>6, <2>7
  <2>10. PICK x \in 1 .. k : q[x] = parent[c]
    BY <2>8, <2>9
  <2> QED
    BY <1>2, <1>8, <2>4, <2>6, <2>10
<1>10. q \in Surjection(1 .. k, 1 .. N)
  BY <1>4, <1>9 DEF Surjection
<1>11. k = N
  BY <1>5, <1>6, <1>10, FS_Injection
<1> QED
  BY <1>1, <1>8, <1>9, <1>11

(* What is on the stack from the index on was met and is not listed.       *)
OnStack(s, i, listed, q, N) ==
  /\ s \in Seq(1 .. N) /\ listed \in Seq(1 .. N)
  /\ i \in Nat /\ i <= Len(s)
  /\ Len(q) = Len(listed) + Len(s) - i
  /\ \A x \in 1 .. Len(listed) : listed[x] = q[x]
  /\ \A x \in 1 .. Len(s) - i : s[i + x] = q[Len(listed) + x]

(* A directory is listed, and what is in it put on the stack.              *)
LEMMA TraverseOnStack ==
  ASSUME NEW N, NEW s, NEW i, NEW listed, NEW q \in Seq(1 .. N), OnStack(s, i, listed, q, N), i # Len(s),
         NEW t \in Seq(1 .. N)
  PROVE  /\ s[i + 1] = q[Len(listed) + 1] /\ s[i + 1] \in 1 .. N
         /\ Len(listed) < Len(q)
         /\ Len(Append(listed, s[i + 1])) = Len(listed) + 1
         /\ OnStack(s \o t, i + 1, Append(listed, s[i + 1]), q \o t, N)
<1>1. PICK n, m, k, l : n = Len(s) /\ m = Len(listed) /\ k = Len(q) /\ l = Len(t)
  OBVIOUS
<1>2. /\ s \in Seq(1 .. N) /\ listed \in Seq(1 .. N)
      /\ i \in Nat /\ i <= n /\ k = m + n - i
      /\ \A x \in 1 .. m : listed[x] = q[x]
      /\ \A x \in 1 .. n - i : s[i + x] = q[m + x]
  BY <1>1 DEF OnStack
<1>3. n \in Nat /\ m \in Nat /\ k \in Nat /\ l \in Nat
  BY <1>1, <1>2, LenProperties
<1>4. i < n /\ m < k
  BY <1>1, <1>2, <1>3
<1>5. PICK d : d = s[i + 1]
  OBVIOUS
<1>6. d = q[m + 1]
  BY <1>2, <1>3, <1>4, <1>5
<1>7. d \in 1 .. N
  <2>1. i + 1 \in 1 .. Len(s)
    BY <1>1, <1>2, <1>3, <1>4
  <2> QED
    BY <1>2, <1>5, <2>1, ElementOfSeq
<1>8. PICK e : e = Append(listed, d)
  OBVIOUS
<1>9. e \in Seq(1 .. N) /\ Len(e) = m + 1 /\ e[m + 1] = d /\ \A x \in 1 .. m : e[x] = listed[x]
  BY <1>1, <1>2, <1>3, <1>7, <1>8, AppendProperties
<1>10. PICK u, r : u = s \o t /\ r = q \o t
  OBVIOUS
<1>11. /\ u \in Seq(1 .. N) /\ Len(u) = n + l
       /\ \A a \in 1 .. n + l : u[a] = IF a <= n THEN s[a] ELSE t[a - n]
  BY <1>1, <1>2, <1>10, ConcatProperties
<1>12. /\ Len(r) = k + l
       /\ \A a \in 1 .. k + l : r[a] = IF a <= k THEN q[a] ELSE t[a - k]
  BY <1>1, <1>10, ConcatProperties
<1>13. ASSUME NEW x \in 1 .. m + 1 PROVE e[x] = r[x]
  <2>1. x \in 1 .. k + l /\ x <= k
    BY <1>3, <1>4
  <2>2. r[x] = q[x]
    BY <1>12, <2>1
  <2>3. x = m + 1 \/ x \in 1 .. m
    BY <1>3
  <2> QED
    BY <1>2, <1>6, <1>9, <2>2, <2>3
<1>14. ASSUME NEW x \in 1 .. (n + l) - (i + 1) PROVE u[(i + 1) + x] = r[(m + 1) + x]
  <2>1. PICK a, b : a = (i + 1) + x /\ b = (m + 1) + x
    OBVIOUS
  <2>2. a \in 1 .. n + l /\ b \in 1 .. k + l /\ a \in Nat /\ b \in Nat /\ a - n = b - k
    <3>1. x \in Nat /\ 1 <= x /\ x <= (n + l) - (i + 1) /\ i \in Nat /\ k = m + n - i
      BY <1>2, <1>3
    <3>2. a \in Nat /\ 1 <= a /\ a <= n + l
      BY <1>3, <2>1, <3>1
    <3>3. b \in Nat /\ 1 <= b /\ b <= k + l
      BY <1>3, <2>1, <3>1
    <3>4. a - n = b - k
      BY <1>3, <2>1, <3>1
    <3> QED
      BY <1>3, <3>2, <3>3, <3>4
  <2>3. a <= n <=> b <= k
    BY <1>3, <2>2
  <2>4. CASE a <= n
    <3>1. u[a] = s[a] /\ r[b] = q[b]
      BY <1>11, <1>12, <2>2, <2>3, <2>4
    <3>2. x + 1 \in 1 .. n - i /\ i + (x + 1) = a /\ m + (x + 1) = b
      BY <1>2, <1>3, <2>1, <2>4
    <3>3. s[i + (x + 1)] = q[m + (x + 1)]
      BY <1>2, <3>2
    <3> QED
      BY <2>1, <3>1, <3>2, <3>3
  <2>5. CASE ~ (a <= n)
    <3>1. u[a] = t[a - n]
      BY <1>11, <2>2, <2>5
    <3>2. r[b] = t[b - k]
      BY <1>12, <2>2, <2>3, <2>5
    <3> QED
      BY <2>1, <2>2, <3>1, <3>2
  <2> QED
    BY <2>4, <2>5
<1>15. i + 1 \in Nat /\ i + 1 <= n + l /\ k + l = (m + 1) + (n + l) - (i + 1)
  BY <1>2, <1>3, <1>4
<1>16. OnStack(u, i + 1, e, r, N)
  BY <1>9, <1>11, <1>12, <1>13, <1>14, <1>15 DEF OnStack
<1> QED
  BY <1>1, <1>4, <1>5, <1>6, <1>7, <1>8, <1>9, <1>10, <1>16

(* What is in front of the index may be erased.                            *)
LEMMA DecreaseOnStack ==
  ASSUME NEW N, NEW s, NEW i \in Nat, NEW listed, NEW q, OnStack(s, i + 1, listed, q, N)
  PROVE  OnStack(SubSeq(s, i + 1, Len(s)), 1, listed, q, N)
<1>1. PICK n, m : n = Len(s) /\ m = Len(listed)
  OBVIOUS
<1>2. /\ s \in Seq(1 .. N) /\ listed \in Seq(1 .. N)
      /\ i + 1 <= n /\ Len(q) = m + n - (i + 1)
      /\ \A x \in 1 .. m : listed[x] = q[x]
      /\ \A x \in 1 .. n - (i + 1) : s[(i + 1) + x] = q[m + x]
  BY <1>1 DEF OnStack
<1>3. n \in Nat /\ m \in Nat
  BY <1>1, <1>2, LenProperties
<1>4. PICK u : u = SubSeq(s, i + 1, n)
  OBVIOUS
<1>5. i + 1 \in Int /\ n \in Int /\ \A x \in i + 1 .. n : s[x] \in 1 .. N
  <2>1. i + 1 \in Int /\ n \in Int /\ i + 1 .. n \subseteq 1 .. n
    BY <1>3
  <2>2. \A x \in 1 .. n : s[x] \in 1 .. N
    BY <1>1, <1>2, ElementOfSeq
  <2> QED
    BY <2>1, <2>2
<1>6. /\ u \in Seq(1 .. N)
      /\ Len(u) = IF i + 1 <= n THEN n - (i + 1) + 1 ELSE 0
      /\ \A x \in 1 .. n - (i + 1) + 1 : u[x] = s[(i + 1) + x - 1]
  BY <1>4, <1>5, SubSeqProperties
<1>7. Len(u) = n - i
  BY <1>2, <1>3, <1>6
<1>8. ASSUME NEW x \in 1 .. (n - i) - 1 PROVE u[1 + x] = q[m + x]
  <2>1. x \in 1 .. n - (i + 1) /\ 1 + x \in 1 .. n - (i + 1) + 1 /\ (i + 1) + (1 + x) - 1 = (i + 1) + x
    BY <1>3
  <2> QED
    BY <1>2, <1>6, <2>1
<1>9. 1 \in Nat /\ 1 <= n - i /\ m + n - (i + 1) = m + (n - i) - 1
  BY <1>2, <1>3
<1>10. OnStack(u, 1, listed, q, N)
  BY <1>1, <1>2, <1>6, <1>7, <1>8, <1>9 DEF OnStack
<1> QED
  BY <1>1, <1>4, <1>10

(* Where the scan is after n steps.                                        *)
Scanned(w, n, parent, N) ==
  \E s, i, listed, q :
    /\ w = [dirStack |-> s, i |-> i, listed |-> listed]
    /\ OnStack(s, i, listed, q, N)
    /\ Met(q, Len(listed), parent, N)
    /\ Len(listed) = n \/ Len(listed) = Len(q)

(* In a tree, the sequence of subdirectories has each of them once.        *)
ListsTree(tree, parent, N) ==
  \A d \in 1 .. N : IsListOf(tree[d], {c \in 2 .. N : parent[c] = d})

LEMMA ScanBegins ==
  ASSUME NEW parent, NEW N, IsTree(parent, N)
  PROVE  Scanned([dirStack |-> <<1>>, i |-> 0, listed |-> <<>>], 0, parent, N)
<1>1. PICK s, e : s = <<1>> /\ e = <<>>
  OBVIOUS
<1>2. N \in Nat /\ N >= 1 /\ 1 \in 1 .. N
  BY DEF IsTree
<1>3. s \in Seq(1 .. N) /\ Len(s) = 1 /\ e \in Seq(1 .. N) /\ Len(e) = 0
  BY <1>1, <1>2
<1>4. Met(s, 0, parent, N)
  BY <1>1, <1>2, RootIsMet
<1>5. \A x \in 1 .. 1 : s[0 + x] = s[0 + x]
  OBVIOUS
<1>6. 1 .. 0 = {} /\ 0 <= 1 /\ 1 = 0 + 1 - 0 /\ 0 \in Nat
  OBVIOUS
<1>7. OnStack(s, 0, e, s, N)
  BY <1>3, <1>5, <1>6 DEF OnStack
<1>8. Scanned([dirStack |-> s, i |-> 0, listed |-> e], 0, parent, N)
  BY <1>3, <1>4, <1>7 DEF Scanned
<1> QED
  BY <1>1, <1>8

LEMMA ScanGoesOn ==
  ASSUME NEW parent, NEW N, IsTree(parent, N), NEW tree, ListsTree(tree, parent, N), NEW shortening,
         NEW w, NEW n \in Nat, Scanned(w, n, parent, N)
  PROVE  Scanned(Iterate(w, tree, shortening), n + 1, parent, N)
<1>1. PICK s, i, listed, q :
        /\ w = [dirStack |-> s, i |-> i, listed |-> listed]
        /\ OnStack(s, i, listed, q, N)
        /\ Met(q, Len(listed), parent, N)
        /\ Len(listed) = n \/ Len(listed) = Len(q)
  BY DEF Scanned
<1>2. w.i = i /\ w.dirStack = s /\ w.listed = listed
  BY <1>1
<1>3. q \in Seq(1 .. N) /\ Len(q) \in Nat
  BY <1>1, LenProperties DEF Met
<1>4. s \in Seq(1 .. N) /\ listed \in Seq(1 .. N) /\ i \in Nat /\ Len(s) \in Nat /\ Len(listed) \in Nat
  BY <1>1, LenProperties DEF OnStack
<1>5. CASE i = Len(s)
  <2>1. Iterate(w, tree, shortening) = w
    BY <1>2, <1>5 DEF Iterate
  <2>2. Len(listed) = Len(q)
    BY <1>1, <1>4, <1>5 DEF OnStack
  <2>3. Scanned(w, n + 1, parent, N)
    BY <1>1, <2>2 DEF Scanned
  <2> QED
    BY <2>1, <2>3
<1>6. CASE i # Len(s)
  <2>1. PICK d, t, m : d = s[i + 1] /\ t = tree[d] /\ m = Len(listed)
    OBVIOUS
  <2>2. d = q[m + 1] /\ d \in 1 .. N /\ m < Len(q)
    <3>1. <<>> \in Seq(1 .. N)
      OBVIOUS
    <3> QED
      BY <1>1, <1>3, <1>6, <2>1, <3>1, TraverseOnStack
  <2>3. IsListOf(t, {c \in 2 .. N : parent[c] = q[m + 1]})
    BY <2>1, <2>2 DEF ListsTree
  <2>4. t \in Seq(1 .. N)
    <3>1. PICK S : S = {c \in 2 .. N : parent[c] = q[m + 1]}
      OBVIOUS
    <3>2. S \subseteq 1 .. N
      BY <3>1 DEF IsTree
    <3>3. t \in Seq(S)
      BY <2>3, <3>1 DEF IsListOf
    <3> QED
      BY <3>2, <3>3, SeqMonotonic
  <2>5. PICK u, e, r : u = s \o t /\ e = Append(listed, d) /\ r = q \o t
    OBVIOUS
  <2>6. OnStack(u, i + 1, e, r, N) /\ Len(e) = m + 1
    BY <1>1, <1>3, <1>6, <2>1, <2>4, <2>5, TraverseOnStack
  <2>7. Met(r, m + 1, parent, N)
    BY <1>1, <2>1, <2>2, <2>3, <2>5, NextIsMet
  <2>8. m = n
    BY <1>1, <1>3, <1>4, <2>1, <2>2
  <2>9. PICK v : v = [dirStack |-> u, i |-> i, listed |-> e]
    OBVIOUS
  <2>10. Traverse(w, tree) = v
    <3>1. Traverse(w, tree) = [w EXCEPT !.dirStack = u, !.listed = e]
      BY <1>2, <2>1, <2>5 DEF Traverse
    <3> QED
      BY <1>1, <2>9, <3>1
  <2>11. Iterate(w, tree, shortening) = [Decrease(v, shortening) EXCEPT !.i = @ + 1]
    BY <1>2, <1>6, <2>10 DEF Iterate
  <2>12. CASE Decrease(v, shortening) = v
    <3>1. Iterate(w, tree, shortening) = [dirStack |-> u, i |-> i + 1, listed |-> e]
      BY <2>9, <2>11, <2>12
    <3>2. Scanned([dirStack |-> u, i |-> i + 1, listed |-> e], n + 1, parent, N)
      BY <2>6, <2>7, <2>8 DEF Scanned
    <3> QED
      BY <3>1, <3>2
  <2>13. CASE Decrease(v, shortening) # v
    <3>1. PICK z : z = SubSeq(u, i + 1, Len(u))
      OBVIOUS
    <3>2. Decrease(v, shortening) = [v EXCEPT !.dirStack = SubSeq(@, v.i + 1, Len(@)), !.i = 0]
      BY <2>13 DEF Decrease
    <3>3. Decrease(v, shortening) = [dirStack |-> z, i |-> 0, listed |-> e]
      BY <2>9, <3>1, <3>2
    <3>4. Iterate(w, tree, shortening) = [dirStack |-> z, i |-> 1, listed |-> e]
      BY <2>11, <3>3
    <3>5. OnStack(z, 1, e, r, N)
      BY <1>4, <2>6, <3>1, DecreaseOnStack
    <3>6. Scanned([dirStack |-> z, i |-> 1, listed |-> e], n + 1, parent, N)
      BY <2>6, <2>7, <2>8, <3>5 DEF Scanned
    <3> QED
      BY <3>4, <3>6
  <2> QED
    BY <2>12, <2>13
<1> QED
  BY <1>5, <1>6

(* f[n] is where the scan is after n rounds of its loop.                   *)
IsWalk(f, base, tree, shortening, N) ==
  f = [n \in 0 .. N |-> IF n = 0 THEN base ELSE Iterate(f[n - 1], tree, shortening)]

(* The loop goes any number of rounds.                                     *)
LEMMA WalkExists ==
  ASSUME NEW base, NEW tree, NEW shortening, NEW N \in Nat
  PROVE  \E f : IsWalk(f, base, tree, shortening, N)
<1> DEFINE Is(f, k) == \A i \in 0 .. k : f[i] = IF i = 0 THEN base ELSE Iterate(f[i - 1], tree, shortening)
           Has(k) == \E f : Is(f, k)
           U == {k \in 0 .. N : Has(k)}
<1>1. 0 \in U
  <2>1. Is([i \in {0} |-> base], 0)
    OBVIOUS
  <2> HIDE DEF Is
  <2>2. Has(0)
    BY <2>1
  <2> HIDE DEF Has
  <2> QED
    BY <2>2
<1>2. ASSUME NEW k \in 0 .. N, k \in U, k < N PROVE k + 1 \in U
  <2>1. PICK f : Is(f, k)
    BY <1>2
  <2>2. PICK x : x = Iterate(f[k], tree, shortening)
    OBVIOUS
  <2> DEFINE e == [i \in 0 .. k + 1 |-> IF i = k + 1 THEN x ELSE f[i]]
  <2>3. ASSUME NEW i \in 0 .. k + 1 PROVE e[i] = IF i = 0 THEN base ELSE Iterate(e[i - 1], tree, shortening)
    <3>1. CASE i = k + 1
      <4>1. e[i] = x /\ i # 0
        BY <3>1
      <4>2. i - 1 \in 0 .. k + 1 /\ i - 1 # k + 1 /\ i - 1 = k
        BY <3>1
      <4>3. e[i - 1] = f[k]
        BY <4>2
      <4> HIDE DEF e
      <4> QED
        BY <2>2, <4>1, <4>3
    <3>2. CASE i # k + 1
      <4>1. i \in 0 .. k
        BY <3>2
      <4>2. e[i] = f[i]
        BY <3>2
      <4>3. i # 0 => i - 1 \in 0 .. k + 1 /\ i - 1 # k + 1
        BY <4>1
      <4>4. i # 0 => e[i - 1] = f[i - 1]
        BY <4>3
      <4>5. f[i] = IF i = 0 THEN base ELSE Iterate(f[i - 1], tree, shortening)
        BY <2>1, <4>1
      <4> HIDE DEF e
      <4> QED
        BY <4>2, <4>4, <4>5
    <3> QED
      BY <3>1, <3>2
  <2>4. k + 1 \in 0 .. N
    BY <1>2
  <2> HIDE DEF e
  <2>5. Is(e, k + 1)
    BY <2>3
  <2> HIDE DEF Is
  <2>6. Has(k + 1)
    BY <2>5
  <2> HIDE DEF Has
  <2> QED
    BY <2>4, <2>6
<1>3. N \in U
  <2>1. N \in 0 .. N
    OBVIOUS
  <2> HIDE DEF U
  <2>2. 0 .. N \subseteq U
    BY <1>1, <1>2, Induction
  <2> QED
    BY <2>1, <2>2
<1>4. PICK e : Is(e, N)
  BY <1>3
<1> DEFINE F == [i \in 0 .. N |-> e[i]]
<1>5. ASSUME NEW i \in 0 .. N PROVE F[i] = IF i = 0 THEN base ELSE Iterate(F[i - 1], tree, shortening)
  <2>1. F[i] = e[i]
    OBVIOUS
  <2>2. i # 0 => i - 1 \in 0 .. N
    OBVIOUS
  <2>3. i # 0 => F[i - 1] = e[i - 1]
    BY <2>2
  <2>4. e[i] = IF i = 0 THEN base ELSE Iterate(e[i - 1], tree, shortening)
    BY <1>4
  <2> HIDE DEF F
  <2> QED
    BY <2>1, <2>3, <2>4
<1>6. F = [i \in 0 .. N |-> F[i]]
  OBVIOUS
<1> HIDE DEF F
<1>7. F = [i \in 0 .. N |-> IF i = 0 THEN base ELSE Iterate(F[i - 1], tree, shortening)]
  BY <1>5, <1>6
<1> QED
  BY <1>7 DEF IsWalk

(* The directories of a tree, once each and level by level.                *)
IsLevelOrder(listed, parent, N) ==
  /\ listed \in Seq(1 .. N)
  /\ Len(listed) = N
  /\ listed[1] = 1
  /\ \A a, b \in 1 .. N : listed[a] = listed[b] => a = b
  /\ \A c \in 1 .. N : \E a \in 1 .. N : listed[a] = c
  /\ \A a, b \in 2 .. N : \A x, y \in 1 .. N :
       parent[listed[a]] = listed[x] /\ parent[listed[b]] = listed[y] /\ x < y => a < b

(* After as many steps as there are directories, all are listed.           *)
LEMMA ScanEnds ==
  ASSUME NEW parent, NEW N, IsTree(parent, N), NEW w, Scanned(w, N, parent, N)
  PROVE  IsLevelOrder(w.listed, parent, N)
<1>1. PICK s, i, listed, q :
        /\ w = [dirStack |-> s, i |-> i, listed |-> listed]
        /\ OnStack(s, i, listed, q, N)
        /\ Met(q, Len(listed), parent, N)
        /\ Len(listed) = N \/ Len(listed) = Len(q)
  BY DEF Scanned
<1>2. Len(listed) = N /\ Len(q) = N /\ \A c \in 1 .. N : \E a \in 1 .. N : q[a] = c
  BY <1>1, AllAreMet
<1>3. listed \in Seq(1 .. N) /\ \A x \in 1 .. N : listed[x] = q[x]
  BY <1>1, <1>2 DEF OnStack
<1>4. q \in Seq(1 .. N) /\ q[1] = 1
  BY <1>1 DEF Met
<1>5. listed = q
  BY <1>2, <1>3, <1>4, SeqEqual
<1>6. IsLevelOrder(q, parent, N)
  BY <1>1, <1>2, <1>4 DEF Met, IsLevelOrder
<1> QED
  BY <1>1, <1>5, <1>6

LEMMA ScanLists ==
  ASSUME NEW parent, NEW N, IsTree(parent, N), NEW tree, DOMAIN tree = 1 .. N,
         ListsTree(tree, parent, N), NEW shortening
  PROVE  IsLevelOrder(Scan(tree, 1, shortening), parent, N)
<1>1. N \in Nat /\ N >= 1
  BY DEF IsTree
<1>2. Len(SetToSeq(DOMAIN tree)) = N
  <2>1. IsFiniteSet(1 .. N) /\ Cardinality(1 .. N) = N
    BY <1>1, FS_Interval
  <2>2. Len(SetToSeq(1 .. N)) = Cardinality(1 .. N)
    BY <2>1, SetToSeqLists
  <2> QED
    BY <2>1, <2>2
<1>3. PICK base : base = [dirStack |-> <<1>>, i |-> 0, listed |-> <<>>]
  OBVIOUS
<1> DEFINE G(f) == [n \in 0 .. N |-> IF n = 0 THEN base ELSE Iterate(f[n - 1], tree, shortening)]
<1>4. \E f : f = G(f)
  <2>1. N \in Nat
    BY <1>1
  <2>2. \E f : IsWalk(f, base, tree, shortening, N)
    BY <2>1, WalkExists
  <2> QED
    BY <2>2 DEF IsWalk
<1>5. PICK walk : walk = CHOOSE f : f = G(f)
  OBVIOUS
<1>6. walk = G(walk)
  <2> HIDE DEF G
  <2> QED
    BY <1>4, <1>5
<1>7. Scan(tree, 1, shortening) = walk[N].listed
  BY <1>2, <1>3, <1>5 DEF Scan
<1>8. \A n \in 0 .. N : walk[n] = IF n = 0 THEN base ELSE Iterate(walk[n - 1], tree, shortening)
  BY <1>6
<1> HIDE DEF G
<1> DEFINE T == {n \in 0 .. N : Scanned(walk[n], n, parent, N)}
<1>9. 0 \in T
  <2>1. walk[0] = base /\ 0 \in 0 .. N
    BY <1>1, <1>8
  <2>2. Scanned(base, 0, parent, N)
    BY <1>3, ScanBegins
  <2> QED
    BY <2>1, <2>2
<1>10. ASSUME NEW k \in 0 .. N, k \in T, k < N PROVE k + 1 \in T
  <2>1. k \in Nat /\ k + 1 \in 0 .. N /\ k + 1 # 0 /\ (k + 1) - 1 = k
    BY <1>1, <1>10
  <2>2. PICK w : w = walk[k]
    OBVIOUS
  <2>3. Scanned(w, k, parent, N)
    BY <1>10, <2>2
  <2>4. Scanned(Iterate(w, tree, shortening), k + 1, parent, N)
    BY <2>1, <2>3, ScanGoesOn
  <2>5. walk[k + 1] = Iterate(w, tree, shortening)
    BY <1>8, <2>1, <2>2
  <2> QED
    BY <2>1, <2>4, <2>5
<1>11. N \in T
  <2>1. N \in 0 .. N
    BY <1>1
  <2> HIDE DEF T
  <2>2. 0 .. N \subseteq T
    BY <1>1, <1>9, <1>10, Induction
  <2> QED
    BY <2>1, <2>2
<1>12. PICK w : w = walk[N]
  OBVIOUS
<1>13. Scanned(w, N, parent, N)
  BY <1>11, <1>12
<1>14. IsLevelOrder(w.listed, parent, N)
  BY <1>13, ScanEnds
<1> QED
  BY <1>7, <1>12, <1>14

(* What the input is when it is a tree.                                    *)
TreeGiven ==
  input.of = "tree" =>
    \E parent \in Trees : \E shortening \in Shortenings :
      input = [of |-> "tree", parent |-> parent, shortening |-> shortening]

LEMMA TreeGivenNext == TreeGiven /\ [Next]_input => TreeGiven'
<1> SUFFICES ASSUME TreeGiven, [Next]_input PROVE TreeGiven'
  OBVIOUS
<1>1. CASE TakeTree
  BY <1>1 DEF TakeTree, TreeGiven
<1>2. CASE TakeFrames \/ TakeStarts \/ TakeEnvirons \/ TakePath \/ TakeFile
  <2>1. CASE TakeFrames
    BY <2>1 DEF TakeFrames, TreeGiven
  <2>2. CASE TakeStarts
    <3>1. input'.of = "starts"
      BY <2>2 DEF TakeStarts
    <3> QED
      BY <3>1 DEF TreeGiven
  <2>3. CASE TakeEnvirons
    <3>1. input'.of = "environs"
      BY <2>3 DEF TakeEnvirons
    <3> QED
      BY <3>1 DEF TreeGiven
  <2>4. CASE TakePath
    <3>1. input'.of = "path"
      BY <2>4 DEF TakePath
    <3> QED
      BY <3>1 DEF TreeGiven
  <2>5. CASE TakeFile
    <3>1. input'.of = "file"
      BY <2>5 DEF TakeFile
    <3> QED
      BY <3>1 DEF TreeGiven
  <2> QED
    BY <1>2, <2>1, <2>2, <2>3, <2>4, <2>5
<1>3. CASE UNCHANGED input
  BY <1>3 DEF TreeGiven
<1> QED
  BY <1>1, <1>2, <1>3 DEF Next

LEMMA TreeGivenScan == TreeGiven => ScanVisitsAll
<1> SUFFICES ASSUME TreeGiven, input.of = "tree" PROVE ScanVisitsAll
  BY DEF ScanVisitsAll
<1>1. PICK parent \in Trees : \E shortening \in Shortenings :
        input = [of |-> "tree", parent |-> parent, shortening |-> shortening]
  BY DEF TreeGiven
<1>2. PICK shortening \in Shortenings :
        input = [of |-> "tree", parent |-> parent, shortening |-> shortening]
  BY <1>1
<1>3. PICK N \in 1 .. MaxDirectories : parent \in [2 .. N -> 1 .. N - 1] /\ \A d \in 2 .. N : parent[d] < d
  BY DEF Trees
<1>4. N \in Nat /\ N >= 1 /\ DOMAIN parent = 2 .. N
  BY <1>3
<1>5. IsTree(parent, N)
  BY <1>3, <1>4 DEF IsTree
<1>6. IsFiniteSet(2 .. N) /\ Cardinality(2 .. N) = N - 1 /\ Cardinality(1 .. N) = N
  BY <1>4, FS_Interval
<1>7. PICK tree : tree = Subdirectories(parent)
  OBVIOUS
<1>8. tree = [d \in 1 .. N |-> SetToSeq({c \in 2 .. N : parent[c] = d})]
  <2>1. Cardinality(DOMAIN parent) + 1 = N
    BY <1>4, <1>6
  <2> QED
    BY <1>4, <1>7, <2>1 DEF Subdirectories
<1>9. ListsTree(tree, parent, N)
  <2>1. SUFFICES ASSUME NEW d \in 1 .. N PROVE IsListOf(tree[d], {c \in 2 .. N : parent[c] = d})
    BY DEF ListsTree
  <2>2. PICK S : S = {c \in 2 .. N : parent[c] = d}
    OBVIOUS
  <2>3. IsFiniteSet(S)
    BY <1>6, <2>2, FS_Subset
  <2>4. IsListOf(SetToSeq(S), S)
    BY <2>3, SetToSeqLists
  <2>5. tree[d] = SetToSeq(S)
    BY <1>8, <2>2
  <2> QED
    BY <2>2, <2>4, <2>5
<1>10. PICK listed : listed = Scan(tree, 1, shortening)
  OBVIOUS
<1>11. DOMAIN tree = 1 .. N
  BY <1>8
<1>12. IsLevelOrder(listed, parent, N)
  BY <1>5, <1>9, <1>10, <1>11, ScanLists
<1>13. /\ listed \in Seq(1 .. N) /\ Len(listed) = N /\ listed[1] = 1
       /\ \A a, b \in 1 .. N : listed[a] = listed[b] => a = b
       /\ \A c \in 1 .. N : \E a \in 1 .. N : listed[a] = c
       /\ \A a, b \in 2 .. N : \A x, y \in 1 .. N :
            parent[listed[a]] = listed[x] /\ parent[listed[b]] = listed[y] /\ x < y => a < b
  BY <1>12 DEF IsLevelOrder
<1>14. DOMAIN listed = 1 .. N /\ \A a \in 1 .. N : listed[a] \in 1 .. N
  BY <1>13, LenProperties, ElementOfSeq
<1>15. ToSet(listed) = DOMAIN tree
  BY <1>11, <1>13, <1>14 DEF ToSet
<1>16. ASSUME NEW c \in DOMAIN input.parent, NEW d \in DOMAIN input.parent,
              \E m, n \in DOMAIN listed : m < n /\ listed[m] = input.parent[c] /\ listed[n] = input.parent[d]
       PROVE  \E m, n \in DOMAIN listed : m < n /\ listed[m] = c /\ listed[n] = d
  <2>1. c \in 2 .. N /\ d \in 2 .. N
    BY <1>2, <1>4
  <2>2. PICK x, y \in 1 .. N : x < y /\ listed[x] = parent[c] /\ listed[y] = parent[d]
    BY <1>2, <1>14, <1>16
  <2>3. PICK a \in 1 .. N : listed[a] = c
    BY <1>13, <1>4, <2>1
  <2>4. PICK b \in 1 .. N : listed[b] = d
    BY <1>13, <1>4, <2>1
  <2>5. a # 1 /\ b # 1
    <3>1. c # 1 /\ d # 1
      BY <1>4, <2>1
    <3>2. listed[1] = 1
      BY <1>13
    <3> QED
      BY <2>3, <2>4, <3>1, <3>2
  <2>6. a \in 2 .. N /\ b \in 2 .. N
    BY <1>4, <2>5
  <2>7. a < b
    BY <1>13, <2>2, <2>3, <2>4, <2>6
  <2> QED
    BY <1>14, <2>3, <2>4, <2>7
<1>17. Len(listed) = Cardinality(DOMAIN tree)
  BY <1>6, <1>11, <1>13
<1>18. input.parent = parent /\ input.shortening = shortening
  BY <1>2
<1> QED
  BY <1>7, <1>10, <1>15, <1>16, <1>17, <1>18 DEF ScanVisitsAll

(* However many directories a tree has, in which order those of a directory*)
(* come and however early the stack is cut, each is listed once, level by  *)
(* level (DirectoryContent::scan).                                         *)
THEOREM ScanVisitsAllCorrect == Spec => []ScanVisitsAll
<1>1. Init => TreeGiven
  BY DEF Init, None, TreeGiven
<1>2. TreeGiven /\ [Next]_input => TreeGiven'
  BY TreeGivenNext
<1>3. TreeGiven => ScanVisitsAll
  BY TreeGivenScan
<1> QED
  BY <1>1, <1>2, <1>3, PTL DEF Spec

------------------------------------------------------------------------------
(* No two of a set have the same rank.                                     *)
AreRanked(S) ==
  /\ \A d \in S : d[1] \in Nat
  /\ \A d, e \in S : d[1] = e[1] => d = e

(* s goes through k of S in the order of their ranks.                      *)
IsOrdered(s, k, S) ==
  /\ s \in [1 .. k -> S]
  /\ \A m, n \in 1 .. k : m < n => s[m][1] < s[n][1]

LEMMA OrderExists ==
  ASSUME NEW S, IsFiniteSet(S), AreRanked(S)
  PROVE  \E s : IsOrdered(s, Cardinality(S), S)
<1> DEFINE Has(T) == \E s : IsOrdered(s, Cardinality(T), T)
           U == {k \in 0 .. Cardinality(S) : \A T \in SUBSET S : Cardinality(T) = k => Has(T)}
<1>1. PICK N \in Nat : N = Cardinality(S)
  BY FS_CardinalityType
<1>2. 0 \in U
  <2>1. SUFFICES ASSUME NEW T \in SUBSET S, Cardinality(T) = 0 PROVE Has(T)
    BY <1>1
  <2>2. 1 .. 0 = {}
    OBVIOUS
  <2>3. IsOrdered([n \in 1 .. 0 |-> 0], 0, T)
    BY <2>2 DEF IsOrdered
  <2>4. \E s : IsOrdered(s, 0, T)
    BY <2>3
  <2> QED
    BY <2>1, <2>4
<1>3. ASSUME NEW k \in 0 .. N, k \in U, k < N PROVE k + 1 \in U
  <2>1. k \in Nat /\ k + 1 \in 0 .. N /\ k + 1 \in 0 .. Cardinality(S)
    BY <1>1, <1>3
  <2>2. SUFFICES ASSUME NEW T \in SUBSET S, Cardinality(T) = k + 1 PROVE Has(T)
    BY <2>1
  <2>3. IsFiniteSet(T)
    BY FS_Subset
  <2>4. T # {}
    <3>1. Cardinality({}) = 0
      BY FS_EmptySet
    <3> QED
      BY <2>1, <2>2, <3>1
  <2>5. PICK d \in T : \A e \in T : d[1] <= e[1]
    <3> DEFINE R == {e[1] : e \in T}
    <3>1. R \subseteq Nat /\ R # {}
      BY <2>4 DEF AreRanked
    <3>2. PICK r \in R : \A x \in R : r <= x
      <4> HIDE DEF R
      <4> QED
        BY <3>1, LeastNumber
    <3>3. PICK d \in T : r = d[1]
      OBVIOUS
    <3> QED
      BY <3>2, <3>3
  <2>6. PICK V : V = T \ {d}
    OBVIOUS
  <2>7. V \in SUBSET S /\ Cardinality(V) = k
    <3>1. Cardinality(T \ {d}) = Cardinality(T) - 1
      BY <2>3, FS_RemoveElement
    <3> QED
      BY <2>1, <2>2, <2>6, <3>1
  <2>8. PICK s : IsOrdered(s, k, V)
    BY <1>3, <2>7
  <2>9. s \in [1 .. k -> V] /\ \A m, n \in 1 .. k : m < n => s[m][1] < s[n][1]
    BY <2>8 DEF IsOrdered
  <2>10. \A e \in V : e \in T /\ d[1] < e[1]
    <3>1. SUFFICES ASSUME NEW e \in V PROVE e \in T /\ d[1] < e[1]
      OBVIOUS
    <3>2. e \in T /\ e # d
      BY <2>6
    <3>3. d[1] \in Nat /\ e[1] \in Nat /\ d[1] # e[1] /\ d[1] <= e[1]
      BY <2>5, <3>2 DEF AreRanked
    <3> QED
      BY <3>2, <3>3
  <2>11. \A e \in T : e[1] \in Nat
    BY DEF AreRanked
  <2> DEFINE u == [n \in 1 .. k + 1 |-> IF n = 1 THEN d ELSE s[n - 1]]
  <2>12. \A n \in 1 .. k + 1 : n # 1 => n - 1 \in 1 .. k /\ u[n] = s[n - 1]
    BY <2>1
  <2>13. u[1] = d
    BY <2>1
  <2>14. u \in [1 .. k + 1 -> T]
    BY <2>1, <2>9, <2>10
  <2> HIDE DEF u
  <2>15. ASSUME NEW m \in 1 .. k + 1, NEW n \in 1 .. k + 1, m < n PROVE u[m][1] < u[n][1]
    <3>1. n # 1 /\ n - 1 \in 1 .. k /\ u[n] = s[n - 1]
      BY <2>1, <2>12, <2>15
    <3>2. CASE m = 1
      BY <2>9, <2>10, <2>13, <3>1, <3>2
    <3>3. CASE m # 1
      <4>1. m - 1 \in 1 .. k /\ u[m] = s[m - 1]
        BY <2>12, <3>3
      <4>2. m - 1 < n - 1
        BY <2>1, <2>15
      <4> QED
        BY <2>9, <3>1, <4>1, <4>2
    <3> QED
      BY <3>2, <3>3
  <2>16. IsOrdered(u, k + 1, T)
    BY <2>14, <2>15 DEF IsOrdered
  <2> QED
    BY <2>2, <2>16
<1>4. N \in U
  <2>1. N \in 0 .. N
    BY <1>1
  <2> HIDE DEF U
  <2>2. 0 .. N \subseteq U
    BY <1>1, <1>2, <1>3, Induction
  <2> QED
    BY <2>1, <2>2
<1>5. Has(S)
  BY <1>1, <1>4
<1> QED
  BY <1>5

(* A path in the order of its ranks.                                       *)
Ascends(path) == \A a, b \in 1 .. Len(path) : a < b => path[a][1] < path[b][1]

(* A finite set is listed in the order of the ranks.                       *)
LEMMA OrderedLists ==
  ASSUME NEW S, IsFiniteSet(S), AreRanked(S)
  PROVE  IsListOf(Ordered(S), S) /\ Ascends(Ordered(S))
<1>1. PICK n \in Nat : n = Cardinality(S)
  BY FS_CardinalityType
<1>2. PICK g : IsOrdered(g, n, S)
  BY <1>1, OrderExists
<1>3. g \in [1 .. n -> S] /\ \A a, b \in DOMAIN g : a < b => g[a][1] < g[b][1]
  BY <1>2 DEF IsOrdered
<1>4. PICK f : f = Ordered(S)
  OBVIOUS
<1>5. f \in [1 .. n -> S] /\ \A a, b \in DOMAIN f : a < b => f[a][1] < f[b][1]
  BY <1>1, <1>3, <1>4 DEF Ordered
<1>6. f \in Seq(S) /\ Len(f) = n
  <2>1. f \in Seq(S)
    BY <1>5, SeqDef
  <2> QED
    BY <1>5, <2>1, LengthOfFunction
<1>7. \A a, b \in 1 .. n : f[a] = f[b] => a = b
  <2>1. SUFFICES ASSUME NEW a \in 1 .. n, NEW b \in 1 .. n, f[a] = f[b] PROVE a = b
    OBVIOUS
  <2>2. f[a][1] \in Nat /\ f[b][1] \in Nat
    BY <1>5 DEF AreRanked
  <2>3. ~ (a < b) /\ ~ (b < a)
    BY <1>5, <2>1, <2>2
  <2> QED
    BY <2>3
<1>8. f \in Injection(1 .. n, S)
  BY <1>5, <1>7 DEF Injection, IsInjective
<1>9. IsFiniteSet(1 .. n) /\ Cardinality(1 .. n) = n
  BY FS_Interval
<1>10. f \in Surjection(1 .. n, S)
  BY <1>1, <1>8, <1>9, FS_Injection
<1>11. \A c \in S : \E a \in 1 .. n : f[a] = c
  BY <1>10 DEF Surjection
<1>12. Ascends(f)
  BY <1>5, <1>6 DEF Ascends
<1> QED
  BY <1>4, <1>6, <1>7, <1>11, <1>12 DEF IsListOf

(* The sets while n directories are inserted, from base.                   *)
InsertsAll(h, n, base, seq) ==
  /\ h[0] = base
  /\ \A k \in 1 .. n : h[k] = Insert(h[k - 1], seq[k])
  /\ h[n] = FoldLeft(Insert, base, seq)

LEMMA InsertFold ==
  ASSUME NEW n \in Nat, NEW base, NEW seq, DOMAIN seq = 1 .. n
  PROVE  \E h : InsertsAll(h, n, base, seq)
<1> DEFINE Is(f, k) == \A s \in SUBSET (1 .. k) :
             f[s] = IF s = {} THEN base ELSE Insert(f[s \ {MaxOf(s)}], seq[MaxOf(s)])
           Has(k) == \E f : Is(f, k)
           T == {k \in 0 .. n : Has(k)}
<1>1. 0 \in T
  <2> DEFINE f == [s \in SUBSET (1 .. 0) |-> base]
  <2>1. 1 .. 0 = {}
    OBVIOUS
  <2>2. Is(f, 0)
    BY <2>1
  <2>3. Has(0)
    <3> HIDE DEF f, Is
    <3> QED
      BY <2>2
  <2> HIDE DEF f, Is, Has
  <2> QED
    BY <2>3
<1>2. ASSUME NEW k \in 0 .. n, k \in T, k < n
      PROVE  k + 1 \in T
  <2>1. PICK f : Is(f, k)
    BY <1>2
  <2> DEFINE e == [s \in SUBSET (1 .. k + 1) |->
                     IF s \in SUBSET (1 .. k) THEN f[s] ELSE Insert(f[s \ {k + 1}], seq[k + 1])]
  <2>2. ASSUME NEW s \in SUBSET (1 .. k + 1), s \notin SUBSET (1 .. k)
        PROVE  s \ {k + 1} \in SUBSET (1 .. k) /\ s # {} /\ MaxOf(s) = k + 1
    <3> HIDE DEF e, T, Is, Has
    <3> QED
      BY <2>2, MaxOfLast
  <2>3. ASSUME NEW s \in SUBSET (1 .. k), s # {}
        PROVE  s \ {MaxOf(s)} \in SUBSET (1 .. k)
    OBVIOUS
  <2>5. Is(e, k + 1)
    <3>1. SUFFICES ASSUME NEW s \in SUBSET (1 .. k + 1)
                   PROVE  e[s] = IF s = {} THEN base ELSE Insert(e[s \ {MaxOf(s)}], seq[MaxOf(s)])
      OBVIOUS
    <3>2. \A t \in SUBSET (1 .. k) : t \in SUBSET (1 .. k + 1) /\ e[t] = f[t]
      OBVIOUS
    <3>3. CASE s \in SUBSET (1 .. k)
      <4>1. e[s] = f[s] /\ f[s] = IF s = {} THEN base ELSE Insert(f[s \ {MaxOf(s)}], seq[MaxOf(s)])
        BY <2>1, <3>2, <3>3
      <4>2. s # {} => e[s \ {MaxOf(s)}] = f[s \ {MaxOf(s)}]
        BY <2>3, <3>2, <3>3
      <4> HIDE DEF e
      <4> QED
        BY <4>1, <4>2
    <3>4. CASE s \notin SUBSET (1 .. k)
      <4>1. s \ {k + 1} \in SUBSET (1 .. k) /\ s # {} /\ MaxOf(s) = k + 1
        BY <2>2, <3>4
      <4>2. e[s] = Insert(f[s \ {k + 1}], seq[k + 1])
        BY <3>4
      <4>3. e[s \ {k + 1}] = f[s \ {k + 1}]
        BY <3>2, <4>1
      <4> HIDE DEF e
      <4> QED
        BY <4>1, <4>2, <4>3
    <3> QED
      BY <3>3, <3>4
  <2>6. k + 1 \in 0 .. n
    BY <1>2
  <2> HIDE DEF e, Is
  <2>7. Has(k + 1)
    BY <2>5
  <2> HIDE DEF Has
  <2> QED
    BY <2>6, <2>7
<1>3. n \in T
  <2>1. n \in 0 .. n
    OBVIOUS
  <2> HIDE DEF T
  <2>2. 0 .. n \subseteq T
    BY <1>1, <1>2, Induction
  <2> QED
    BY <2>1, <2>2
<1> DEFINE Step(f) == [s \in SUBSET (DOMAIN seq) |->
                         IF s = {} THEN base ELSE Insert(f[s \ {MaxOf(s)}], seq[MaxOf(s)])]
<1>4. \E f : f = Step(f)
  <2>1. PICK e : Is(e, n)
    BY <1>3
  <2> DEFINE f == [s \in SUBSET (DOMAIN seq) |-> e[s]]
  <2>2. ASSUME NEW s \in SUBSET (1 .. n)
        PROVE  f[s] = IF s = {} THEN base ELSE Insert(f[s \ {MaxOf(s)}], seq[MaxOf(s)])
    <3>1. f[s] = e[s] /\ f[s \ {MaxOf(s)}] = e[s \ {MaxOf(s)}]
      OBVIOUS
    <3>2. e[s] = IF s = {} THEN base ELSE Insert(e[s \ {MaxOf(s)}], seq[MaxOf(s)])
      BY <2>1
    <3> HIDE DEF f
    <3> QED
      BY <3>1, <3>2
  <2>3. f = [s \in SUBSET (DOMAIN seq) |-> f[s]]
    OBVIOUS
  <2> HIDE DEF f, Is
  <2>4. f = Step(f)
    BY <2>2, <2>3
  <2> HIDE DEF Step
  <2> QED
    BY <2>4
<1>5. PICK iter :
        /\ FoldLeft(Insert, base, seq) = iter[DOMAIN seq]
        /\ iter = CHOOSE f : f = Step(f)
  BY DEF FoldLeft, MapThenFoldSet, Max, MaxOf
<1>6. iter = Step(iter)
  <2> HIDE DEF Step
  <2> QED
    BY <1>4, <1>5
<1>7. ASSUME NEW s \in SUBSET (1 .. n)
      PROVE  iter[s] = IF s = {} THEN base ELSE Insert(iter[s \ {MaxOf(s)}], seq[MaxOf(s)])
  BY <1>6
<1> DEFINE h == [k \in 0 .. n |-> iter[1 .. k]]
<1>8. h[0] = base
  <2>1. 1 .. 0 = {} /\ {} \in SUBSET (1 .. n)
    OBVIOUS
  <2>2. iter[{}] = base
    BY <1>7, <2>1
  <2>3. h[0] = iter[1 .. 0]
    OBVIOUS
  <2> HIDE DEF h
  <2> QED
    BY <2>1, <2>2, <2>3
<1>9. ASSUME NEW k \in 1 .. n PROVE h[k] = Insert(h[k - 1], seq[k])
  <2>1. MaxOf(1 .. k) = k /\ (1 .. k) \ {k} = 1 .. (k - 1) /\ 1 .. k # {} /\ 1 .. k \in SUBSET (1 .. n)
    BY MaxOfUpTo
  <2>2. iter[1 .. k] = Insert(iter[1 .. (k - 1)], seq[k])
    BY <1>7, <2>1
  <2>3. h[k] = iter[1 .. k] /\ h[k - 1] = iter[1 .. (k - 1)]
    OBVIOUS
  <2> HIDE DEF h
  <2> QED
    BY <2>2, <2>3
<1>10. h[n] = FoldLeft(Insert, base, seq)
  BY <1>5
<1> HIDE DEF h
<1> QED
  BY <1>8, <1>9, <1>10 DEF InsertsAll

(* What a set has got from the first k of a sequence: the first directory  *)
(* of each rank.                                                           *)
HasRanks(S, k, seq, D) ==
  /\ S \subseteq D
  /\ IsFiniteSet(S)
  /\ \A d, e \in S : d[1] = e[1] => d = e
  /\ \A d \in S : \E i \in 1 .. k : d = seq[i] /\ \A j \in 1 .. i - 1 : seq[j][1] # d[1]
  /\ \A i \in 1 .. k : \E d \in S : d[1] = seq[i][1]

LEMMA InsertRank ==
  ASSUME NEW D, NEW seq, NEW k \in Nat, NEW S, HasRanks(S, k, seq, D), seq[k + 1] \in D
  PROVE  HasRanks(Insert(S, seq[k + 1]), k + 1, seq, D)
<1>1. PICK d : d = seq[k + 1]
  OBVIOUS
<1>2. 1 .. k \subseteq 1 .. k + 1 /\ k + 1 \in 1 .. k + 1 /\ \A i \in 1 .. k + 1 : i \in 1 .. k \/ i = k + 1
  OBVIOUS
<1>3. /\ S \subseteq D /\ IsFiniteSet(S)
      /\ \A c, e \in S : c[1] = e[1] => c = e
      /\ \A c \in S : \E i \in 1 .. k : c = seq[i] /\ \A j \in 1 .. i - 1 : seq[j][1] # c[1]
      /\ \A i \in 1 .. k : \E c \in S : c[1] = seq[i][1]
  BY DEF HasRanks
<1>4. \A c \in S : \E i \in 1 .. k + 1 : c = seq[i] /\ \A j \in 1 .. i - 1 : seq[j][1] # c[1]
  <2>1. SUFFICES ASSUME NEW c \in S
                 PROVE  \E i \in 1 .. k + 1 : c = seq[i] /\ \A j \in 1 .. i - 1 : seq[j][1] # c[1]
    OBVIOUS
  <2>2. PICK i \in 1 .. k : c = seq[i] /\ \A j \in 1 .. i - 1 : seq[j][1] # c[1]
    BY <1>3
  <2>3. i \in 1 .. k + 1
    BY <1>2
  <2> QED
    BY <2>2, <2>3
<1>5. CASE \E e \in S : SamePath(d, e)
  <2>1. Insert(S, d) = S
    BY <1>5 DEF Insert
  <2>2. PICK e \in S : d[1] = e[1]
    BY <1>5 DEF SamePath
  <2>3. \A i \in 1 .. k + 1 : \E c \in S : c[1] = seq[i][1]
    BY <1>1, <1>2, <1>3, <2>2
  <2>4. HasRanks(S, k + 1, seq, D)
    BY <1>3, <1>4, <2>3 DEF HasRanks
  <2> QED
    BY <1>1, <2>1, <2>4
<1>6. CASE ~ \E e \in S : SamePath(d, e)
  <2>1. PICK T : T = S \cup {d} /\ Insert(S, d) = T
    BY <1>6 DEF Insert
  <2>2. \A e \in S : d[1] # e[1]
    BY <1>6 DEF SamePath
  <2>3. IsFiniteSet(T) /\ T \subseteq D
    BY <1>1, <1>3, <2>1, FS_AddElement
  <2>4. \A c, e \in T : c[1] = e[1] => c = e
    BY <1>3, <2>1, <2>2
  <2>5. d = seq[k + 1] /\ \A j \in 1 .. (k + 1) - 1 : seq[j][1] # d[1]
    <3>1. (k + 1) - 1 = k
      OBVIOUS
    <3> QED
      BY <1>1, <1>3, <2>2, <3>1
  <2>6. \A c \in T : \E i \in 1 .. k + 1 : c = seq[i] /\ \A j \in 1 .. i - 1 : seq[j][1] # c[1]
    BY <1>2, <1>4, <2>1, <2>5
  <2>7. \A i \in 1 .. k + 1 : \E c \in T : c[1] = seq[i][1]
    BY <1>1, <1>2, <1>3, <2>1
  <2>8. HasRanks(T, k + 1, seq, D)
    BY <2>3, <2>4, <2>6, <2>7 DEF HasRanks
  <2> QED
    BY <1>1, <2>1, <2>8
<1> QED
  BY <1>5, <1>6

(* A sequence is inserted into the empty set.                              *)
LEMMA InsertedHasRanks ==
  ASSUME NEW D, NEW seq \in Seq(D)
  PROVE  HasRanks(FoldLeft(Insert, {}, seq), Len(seq), seq, D)
<1>1. PICK n \in Nat : n = Len(seq) /\ DOMAIN seq = 1 .. n
  BY LenProperties
<1>2. \A k \in 1 .. n : seq[k] \in D
  BY <1>1, ElementOfSeq
<1>3. PICK h : InsertsAll(h, n, {}, seq)
  BY <1>1, InsertFold
<1>4. /\ h[0] = {} /\ \A k \in 1 .. n : h[k] = Insert(h[k - 1], seq[k])
      /\ h[n] = FoldLeft(Insert, {}, seq)
  BY <1>3 DEF InsertsAll
<1> DEFINE T == {k \in 0 .. n : HasRanks(h[k], k, seq, D)}
<1>5. 0 \in T
  <2>1. 1 .. 0 = {} /\ IsFiniteSet({})
    BY FS_EmptySet
  <2>2. HasRanks({}, 0, seq, D)
    BY <2>1 DEF HasRanks
  <2> QED
    BY <1>4, <2>2
<1>6. ASSUME NEW k \in 0 .. n, k \in T, k < n PROVE k + 1 \in T
  <2>1. k \in Nat /\ k + 1 \in 1 .. n /\ k + 1 \in 0 .. n /\ (k + 1) - 1 = k
    BY <1>6
  <2>2. h[k + 1] = Insert(h[k], seq[k + 1])
    BY <1>4, <2>1
  <2>3. PICK S : S = h[k]
    OBVIOUS
  <2>4. HasRanks(S, k, seq, D)
    BY <1>6, <2>3
  <2>5. seq[k + 1] \in D
    BY <1>2, <2>1
  <2>6. HasRanks(Insert(S, seq[k + 1]), k + 1, seq, D)
    BY <2>1, <2>4, <2>5, InsertRank
  <2> QED
    BY <2>1, <2>2, <2>3, <2>6
<1>7. n \in T
  <2>1. n \in 0 .. n
    OBVIOUS
  <2> HIDE DEF T
  <2>2. 0 .. n \subseteq T
    BY <1>5, <1>6, Induction
  <2> QED
    BY <2>1, <2>2
<1> QED
  BY <1>1, <1>4, <1>7

(* The ranks of the directories of a path.                                 *)
RanksOf(path) == {d[1] : d \in ToSet(path)}

LEMMA RanksOfConcat ==
  ASSUME NEW D, NEW p \in Seq(D), NEW q \in Seq(D)
  PROVE  RanksOf(p \o q) = RanksOf(p) \cup RanksOf(q)
<1>1. PICK k, l, r : k \in Nat /\ l \in Nat /\ k = Len(p) /\ l = Len(q) /\ r = p \o q
  BY LenProperties
<1>2. /\ r \in Seq(D) /\ Len(r) = k + l
      /\ \A a \in 1 .. k + l : r[a] = IF a <= k THEN p[a] ELSE q[a - k]
  BY <1>1, ConcatProperties
<1>3. DOMAIN p = 1 .. k /\ DOMAIN q = 1 .. l /\ DOMAIN r = 1 .. k + l
  BY <1>1, <1>2, LenProperties
<1>4. \A a \in 1 .. k : a \in 1 .. k + l /\ r[a] = p[a]
  BY <1>1, <1>2
<1>5. \A a \in 1 .. l : k + a \in 1 .. k + l /\ r[k + a] = q[a]
  BY <1>1, <1>2
<1>6. \A a \in 1 .. k + l : (a \in 1 .. k /\ r[a] = p[a]) \/ (a - k \in 1 .. l /\ r[a] = q[a - k])
  BY <1>1, <1>2
<1>7. ToSet(r) = ToSet(p) \cup ToSet(q)
  <2>1. ASSUME NEW a \in 1 .. k + l PROVE r[a] \in {p[i] : i \in 1 .. k} \cup {q[i] : i \in 1 .. l}
    BY <1>6
  <2>2. ASSUME NEW a \in 1 .. k PROVE p[a] \in {r[i] : i \in 1 .. k + l}
    BY <1>4
  <2>3. ASSUME NEW a \in 1 .. l PROVE q[a] \in {r[i] : i \in 1 .. k + l}
    <3>1. k + a \in 1 .. k + l /\ r[k + a] = q[a]
      BY <1>5
    <3> QED
      BY <3>1
  <2>4. {r[i] : i \in 1 .. k + l} = {p[i] : i \in 1 .. k} \cup {q[i] : i \in 1 .. l}
    BY <2>1, <2>2, <2>3
  <2> QED
    BY <1>3, <2>4 DEF ToSet
<1> QED
  BY <1>1, <1>7 DEF RanksOf

(* The first of two paths spells what it has, the second the rest.         *)
LEMMA SpelledInConcat ==
  ASSUME NEW D, NEW p \in Seq(D), NEW q \in Seq(D), NEW d, FirstSpelling(d, p \o q)
  PROVE  FirstSpelling(d, p) \/ (d[1] \notin RanksOf(p) /\ FirstSpelling(d, q))
<1>1. PICK k, l, r : k \in Nat /\ l \in Nat /\ k = Len(p) /\ l = Len(q) /\ r = p \o q
  BY LenProperties
<1>2. /\ r \in Seq(D) /\ Len(r) = k + l
      /\ \A a \in 1 .. k + l : r[a] = IF a <= k THEN p[a] ELSE q[a - k]
  BY <1>1, ConcatProperties
<1>3. DOMAIN p = 1 .. k /\ DOMAIN q = 1 .. l /\ DOMAIN r = 1 .. k + l
  BY <1>1, <1>2, LenProperties
<1>4. PICK i \in 1 .. k + l : r[i] = d /\ \A j \in 1 .. i - 1 : r[j][1] # d[1]
  BY <1>1, <1>3 DEF FirstSpelling
<1>5. CASE i <= k
  <2>1. i \in 1 .. k /\ \A j \in 1 .. i - 1 : j \in 1 .. k + l /\ j <= k
    BY <1>1, <1>5
  <2>2. p[i] = d /\ \A j \in 1 .. i - 1 : p[j][1] # d[1]
    BY <1>2, <1>4, <1>5, <2>1
  <2> QED
    BY <1>3, <2>1, <2>2 DEF FirstSpelling
<1>6. CASE ~(i <= k)
  <2>1. i - k \in 1 .. l
    BY <1>1, <1>6
  <2>2. \A j \in 1 .. k : j \in 1 .. i - 1 /\ j \in 1 .. k + l /\ j <= k
    BY <1>1, <1>6
  <2>3. \A j \in 1 .. k : p[j][1] # d[1]
    BY <1>2, <1>4, <2>2
  <2>4. d[1] \notin RanksOf(p)
    BY <1>3, <2>3 DEF RanksOf, ToSet
  <2>5. \A j \in 1 .. (i - k) - 1 : k + j \in 1 .. i - 1 /\ k + j \in 1 .. k + l /\ ~(k + j <= k) /\ (k + j) - k = j
    BY <1>1, <1>6
  <2>6. \A j \in 1 .. (i - k) - 1 : q[j][1] # d[1]
    BY <1>2, <1>4, <2>5
  <2>7. q[i - k] = d
    BY <1>2, <1>4, <1>6
  <2>8. PICK x : x = i - k
    OBVIOUS
  <2>9. x \in DOMAIN q /\ q[x] = d /\ \A j \in 1 .. x - 1 : q[j][1] # d[1]
    BY <1>3, <2>1, <2>6, <2>7, <2>8
  <2> QED
    BY <2>4, <2>9 DEF FirstSpelling
<1> QED
  BY <1>5, <1>6

(* The directories of D have ranks.                                        *)
HaveRanks(D) == \A d \in D : d[1] \in Nat

(* In a path that ascends each directory is spelled once.                  *)
LEMMA AscendingSpells ==
  ASSUME NEW D, HaveRanks(D), NEW path \in Seq(D), Ascends(path)
  PROVE  \A d \in ToSet(path) : FirstSpelling(d, path)
<1>1. DOMAIN path = 1 .. Len(path) /\ Len(path) \in Nat /\ \A a \in 1 .. Len(path) : path[a][1] \in Nat
  BY LenProperties, ElementOfSeq DEF HaveRanks
<1>2. SUFFICES ASSUME NEW a \in 1 .. Len(path) PROVE FirstSpelling(path[a], path)
  BY <1>1 DEF ToSet
<1>3. ASSUME NEW b \in 1 .. a - 1 PROVE path[b][1] # path[a][1]
  <2>1. b \in 1 .. Len(path) /\ b < a
    BY <1>1
  <2>2. path[b][1] < path[a][1]
    BY <2>1 DEF Ascends
  <2> QED
    BY <1>1, <2>1, <2>2
<1> QED
  BY <1>1, <1>3 DEF FirstSpelling

(* path has the directories of p and q, each as p spells it if p has it.   *)
IsMergedPath(path, p, q, D) ==
  /\ path \in Seq(D)
  /\ Ascends(path)
  /\ RanksOf(path) = RanksOf(p) \cup RanksOf(q)
  /\ \A d \in ToSet(path) : FirstSpelling(d, p) \/ (d[1] \notin RanksOf(p) /\ FirstSpelling(d, q))

(* The path of an environment that another is merged into.                 *)
LEMMA MergedPath ==
  ASSUME NEW D, HaveRanks(D), NEW this, NEW other, this.path \in Seq(D), other.path \in Seq(D),
         NEW path, path = Merge(this, other).path
  PROVE  IsMergedPath(path, this.path, other.path, D)
<1>1. PICK p, q, r : p = this.path /\ q = other.path /\ r = p \o q
  OBVIOUS
<1>2. r \in Seq(D)
  BY <1>1, ConcatProperties
<1>3. PICK S : S = FoldLeft(Insert, {}, r)
  OBVIOUS
<1>4. path = Ordered(S)
  BY <1>1, <1>3 DEF Merge
<1>5. HasRanks(S, Len(r), r, D)
  BY <1>2, <1>3, InsertedHasRanks
<1>6. /\ S \subseteq D /\ IsFiniteSet(S)
      /\ \A d, e \in S : d[1] = e[1] => d = e
      /\ \A d \in S : \E i \in 1 .. Len(r) : d = r[i] /\ \A j \in 1 .. i - 1 : r[j][1] # d[1]
      /\ \A i \in 1 .. Len(r) : \E d \in S : d[1] = r[i][1]
  BY <1>5 DEF HasRanks
<1>7. AreRanked(S)
  BY <1>6 DEF AreRanked, HaveRanks
<1>8. IsListOf(path, S) /\ Ascends(path)
  BY <1>4, <1>6, <1>7, OrderedLists
<1>9. /\ path \in Seq(S)
      /\ \A c \in S : \E a \in 1 .. Len(path) : path[a] = c
  BY <1>8 DEF IsListOf
<1>10. path \in Seq(D)
  BY <1>6, <1>9, SeqMonotonic
<1>11. \A a \in 1 .. Len(path) : path[a] \in S
  BY <1>9, ElementOfSeq
<1>13. DOMAIN path = 1 .. Len(path) /\ DOMAIN r = 1 .. Len(r)
  BY <1>2, <1>9, LenProperties
<1>14. ToSet(path) = S
  <2>1. {path[a] : a \in 1 .. Len(path)} \subseteq S
    BY <1>11
  <2>2. S \subseteq {path[a] : a \in 1 .. Len(path)}
    BY <1>9
  <2> QED
    BY <1>13, <2>1, <2>2 DEF ToSet
<1>15. RanksOf(path) = {d[1] : d \in S}
  BY <1>14 DEF RanksOf
<1>16. RanksOf(r) = {r[i][1] : i \in 1 .. Len(r)}
  BY <1>13 DEF RanksOf, ToSet
<1>17. RanksOf(path) = RanksOf(r)
  BY <1>6, <1>15, <1>16
<1>18. RanksOf(r) = RanksOf(p) \cup RanksOf(q)
  BY <1>1, RanksOfConcat
<1>19. ASSUME NEW d \in S PROVE FirstSpelling(d, p) \/ (d[1] \notin RanksOf(p) /\ FirstSpelling(d, q))
  <2>1. FirstSpelling(d, r)
    BY <1>6, <1>13 DEF FirstSpelling
  <2> QED
    BY <1>1, <2>1, SpelledInConcat
<1> QED
  BY <1>1, <1>8, <1>10, <1>14, <1>17, <1>18, <1>19 DEF IsMergedPath

(* The environments while the n that base inherits from take it over.      *)
MergesAll(h, n, environs, base) ==
  /\ h[0] = base
  /\ \A k \in 1 .. n : h[k] = Merge(environs[base.inherits[k]], h[k - 1])
  /\ h[n] = Inherited(environs, base)

LEMMA MergeFold ==
  ASSUME NEW n \in Nat, NEW environs, NEW base, DOMAIN base.inherits = 1 .. n
  PROVE  \E h : MergesAll(h, n, environs, base)
<1> DEFINE Is(f, k) == \A s \in SUBSET (1 .. k) :
             f[s] = IF s = {} THEN base ELSE Merge(environs[base.inherits[MaxOf(s)]], f[s \ {MaxOf(s)}])
           Has(k) == \E f : Is(f, k)
           T == {k \in 0 .. n : Has(k)}
<1>1. 0 \in T
  <2> DEFINE f == [s \in SUBSET (1 .. 0) |-> base]
  <2>1. 1 .. 0 = {}
    OBVIOUS
  <2>2. Is(f, 0)
    BY <2>1
  <2>3. Has(0)
    <3> HIDE DEF f, Is
    <3> QED
      BY <2>2
  <2> HIDE DEF f, Is, Has
  <2> QED
    BY <2>3
<1>2. ASSUME NEW k \in 0 .. n, k \in T, k < n
      PROVE  k + 1 \in T
  <2>1. PICK f : Is(f, k)
    BY <1>2
  <2> DEFINE e == [s \in SUBSET (1 .. k + 1) |->
                     IF s \in SUBSET (1 .. k) THEN f[s] ELSE Merge(environs[base.inherits[k + 1]], f[s \ {k + 1}])]
  <2>2. ASSUME NEW s \in SUBSET (1 .. k + 1), s \notin SUBSET (1 .. k)
        PROVE  s \ {k + 1} \in SUBSET (1 .. k) /\ s # {} /\ MaxOf(s) = k + 1
    <3> HIDE DEF e, T, Is, Has
    <3> QED
      BY <2>2, MaxOfLast
  <2>3. ASSUME NEW s \in SUBSET (1 .. k), s # {}
        PROVE  s \ {MaxOf(s)} \in SUBSET (1 .. k)
    OBVIOUS
  <2>5. Is(e, k + 1)
    <3>1. SUFFICES ASSUME NEW s \in SUBSET (1 .. k + 1)
                   PROVE  e[s] = IF s = {} THEN base ELSE Merge(environs[base.inherits[MaxOf(s)]], e[s \ {MaxOf(s)}])
      OBVIOUS
    <3>2. \A t \in SUBSET (1 .. k) : t \in SUBSET (1 .. k + 1) /\ e[t] = f[t]
      OBVIOUS
    <3>3. CASE s \in SUBSET (1 .. k)
      <4>1. e[s] = f[s] /\ f[s] = IF s = {} THEN base ELSE Merge(environs[base.inherits[MaxOf(s)]], f[s \ {MaxOf(s)}])
        BY <2>1, <3>2, <3>3
      <4>2. s # {} => e[s \ {MaxOf(s)}] = f[s \ {MaxOf(s)}]
        BY <2>3, <3>2, <3>3
      <4> HIDE DEF e
      <4> QED
        BY <4>1, <4>2
    <3>4. CASE s \notin SUBSET (1 .. k)
      <4>1. s \ {k + 1} \in SUBSET (1 .. k) /\ s # {} /\ MaxOf(s) = k + 1
        BY <2>2, <3>4
      <4>2. e[s] = Merge(environs[base.inherits[k + 1]], f[s \ {k + 1}])
        BY <3>4
      <4>3. e[s \ {k + 1}] = f[s \ {k + 1}]
        BY <3>2, <4>1
      <4> HIDE DEF e
      <4> QED
        BY <4>1, <4>2, <4>3
    <3> QED
      BY <3>3, <3>4
  <2>6. k + 1 \in 0 .. n
    BY <1>2
  <2> HIDE DEF e, Is
  <2>7. Has(k + 1)
    BY <2>5
  <2> HIDE DEF Has
  <2> QED
    BY <2>6, <2>7
<1>3. n \in T
  <2>1. n \in 0 .. n
    OBVIOUS
  <2> HIDE DEF T
  <2>2. 0 .. n \subseteq T
    BY <1>1, <1>2, Induction
  <2> QED
    BY <2>1, <2>2
<1> DEFINE Step(f) == [s \in SUBSET (DOMAIN base.inherits) |->
                         IF s = {} THEN base ELSE Merge(environs[base.inherits[MaxOf(s)]], f[s \ {MaxOf(s)}])]
<1>4. \E f : f = Step(f)
  <2>1. PICK e : Is(e, n)
    BY <1>3
  <2> DEFINE f == [s \in SUBSET (DOMAIN base.inherits) |-> e[s]]
  <2>2. ASSUME NEW s \in SUBSET (1 .. n)
        PROVE  f[s] = IF s = {} THEN base ELSE Merge(environs[base.inherits[MaxOf(s)]], f[s \ {MaxOf(s)}])
    <3>1. f[s] = e[s] /\ f[s \ {MaxOf(s)}] = e[s \ {MaxOf(s)}]
      OBVIOUS
    <3>2. e[s] = IF s = {} THEN base ELSE Merge(environs[base.inherits[MaxOf(s)]], e[s \ {MaxOf(s)}])
      BY <2>1
    <3> HIDE DEF f
    <3> QED
      BY <3>1, <3>2
  <2>3. f = [s \in SUBSET (DOMAIN base.inherits) |-> f[s]]
    OBVIOUS
  <2> HIDE DEF f, Is
  <2>4. f = Step(f)
    BY <2>2, <2>3
  <2> HIDE DEF Step
  <2> QED
    BY <2>4
<1>5. PICK iter :
        /\ Inherited(environs, base) = iter[DOMAIN base.inherits]
        /\ iter = CHOOSE f : f = Step(f)
  BY DEF Inherited, FoldLeft, MapThenFoldSet, Max, MaxOf
<1>6. iter = Step(iter)
  <2> HIDE DEF Step
  <2> QED
    BY <1>4, <1>5
<1>7. ASSUME NEW s \in SUBSET (1 .. n)
      PROVE  iter[s] = IF s = {} THEN base ELSE Merge(environs[base.inherits[MaxOf(s)]], iter[s \ {MaxOf(s)}])
  BY <1>6
<1> DEFINE h == [k \in 0 .. n |-> iter[1 .. k]]
<1>8. h[0] = base
  <2>1. 1 .. 0 = {} /\ {} \in SUBSET (1 .. n)
    OBVIOUS
  <2>2. iter[{}] = base
    BY <1>7, <2>1
  <2>3. h[0] = iter[1 .. 0]
    OBVIOUS
  <2> HIDE DEF h
  <2> QED
    BY <2>1, <2>2, <2>3
<1>9. ASSUME NEW k \in 1 .. n PROVE h[k] = Merge(environs[base.inherits[k]], h[k - 1])
  <2>1. MaxOf(1 .. k) = k /\ (1 .. k) \ {k} = 1 .. (k - 1) /\ 1 .. k # {} /\ 1 .. k \in SUBSET (1 .. n)
    BY MaxOfUpTo
  <2>2. iter[1 .. k] = Merge(environs[base.inherits[k]], iter[1 .. (k - 1)])
    BY <1>7, <2>1
  <2>3. h[k] = iter[1 .. k] /\ h[k - 1] = iter[1 .. (k - 1)]
    OBVIOUS
  <2> HIDE DEF h
  <2> QED
    BY <2>2, <2>3
<1>10. h[n] = Inherited(environs, base)
  BY <1>5
<1> HIDE DEF h
<1> QED
  BY <1>8, <1>9, <1>10 DEF MergesAll

(* An environment and those it inherits from, in their order.              *)
IsOrder(order, environs, env, n) ==
  /\ DOMAIN order = 1 .. n + 1
  /\ order[1] = env
  /\ \A k \in 1 .. n : order[k + 1] = environs[env.inherits[k]]

(* e is what the first k of them were made into.                           *)
HasFirst(e, k, order, D) ==
  /\ e.path \in Seq(D)
  /\ \A r : r \in RanksOf(e.path) <=> \E i \in 1 .. k : r \in RanksOf(order[i].path)
  /\ k = 1 => e.path = order[1].path
  /\ 2 <= k => Ascends(e.path)
  /\ \A d : FirstSpelling(d, e.path) => IsKept(d, k, order)
  /\ \A v : v \in DOMAIN e.variables <=> \E i \in 1 .. k : v \in DOMAIN order[i].variables
  /\ \A v \in DOMAIN e.variables : \E i \in 1 .. k :
       /\ v \in DOMAIN order[i].variables
       /\ e.variables[v] = order[i].variables[v]
       /\ \A j \in 1 .. i - 1 : v \notin DOMAIN order[j].variables

LEMMA HasFirstOne ==
  ASSUME NEW order, NEW D, order[1].path \in Seq(D)
  PROVE  HasFirst(order[1], 1, order, D)
<1>1. 1 \in 1 .. 1 /\ 1 .. 1 - 1 = {} /\ 1 + 1 .. 1 = {} /\ ~ (2 <= 1) /\ \A i \in 1 .. 1 : i = 1
  OBVIOUS
<1>2. PICK e : e = order[1]
  OBVIOUS
<1>3. \A d : FirstSpelling(d, e.path) => IsKept(d, 1, order)
  BY <1>1, <1>2 DEF IsKept
<1>4. HasFirst(e, 1, order, D)
  BY <1>1, <1>2, <1>3 DEF HasFirst
<1> QED
  BY <1>2, <1>4

(* What is kept stays so unless the next one has the directory too.        *)
LEMMA KeptNext ==
  ASSUME NEW order, NEW k \in Nat, NEW d, IsKept(d, k, order), d[1] \notin RanksOf(order[k + 1].path)
  PROVE  IsKept(d, k + 1, order)
<1>1. PICK n \in 1 .. k : /\ FirstSpelling(d, order[n].path)
                          /\ \A m \in n + 1 .. k : \A e \in ToSet(order[m].path) : e[1] # d[1]
  BY DEF IsKept
<1>2. \A e \in ToSet(order[k + 1].path) : e[1] # d[1]
  BY DEF RanksOf
<1>3. n \in 1 .. k + 1 /\ \A m \in n + 1 .. k + 1 : m \in n + 1 .. k \/ m = k + 1
  OBVIOUS
<1>4. \A m \in n + 1 .. k + 1 : \A e \in ToSet(order[m].path) : e[1] # d[1]
  BY <1>1, <1>2, <1>3
<1> QED
  BY <1>1, <1>3, <1>4 DEF IsKept

LEMMA KeptNew ==
  ASSUME NEW order, NEW k \in Nat, NEW d, FirstSpelling(d, order[k + 1].path)
  PROVE  IsKept(d, k + 1, order)
<1>1. k + 1 \in 1 .. k + 1 /\ (k + 1) + 1 .. k + 1 = {}
  OBVIOUS
<1> QED
  BY <1>1 DEF IsKept

(* One more takes it over.                                                 *)
LEMMA HasFirstNext ==
  ASSUME NEW D, HaveRanks(D), NEW order, NEW k \in Nat, 1 <= k, NEW e, HasFirst(e, k, order, D),
         order[k + 1].path \in Seq(D)
  PROVE  HasFirst(Merge(order[k + 1], e), k + 1, order, D)
<1>1. PICK this, m : this = order[k + 1] /\ m = Merge(this, e)
  OBVIOUS
<1>2. 1 .. k \subseteq 1 .. k + 1 /\ k + 1 \in 1 .. k + 1 /\ \A i \in 1 .. k + 1 : i \in 1 .. k \/ i = k + 1
  OBVIOUS
<1>3. /\ e.path \in Seq(D)
      /\ \A r : r \in RanksOf(e.path) <=> \E i \in 1 .. k : r \in RanksOf(order[i].path)
      /\ \A d : FirstSpelling(d, e.path) => IsKept(d, k, order)
      /\ \A v : v \in DOMAIN e.variables <=> \E i \in 1 .. k : v \in DOMAIN order[i].variables
      /\ \A v \in DOMAIN e.variables : \E i \in 1 .. k :
           /\ v \in DOMAIN order[i].variables
           /\ e.variables[v] = order[i].variables[v]
           /\ \A j \in 1 .. i - 1 : v \notin DOMAIN order[j].variables
  BY DEF HasFirst
<1>4. PICK path : path = m.path
  OBVIOUS
<1>5. /\ path \in Seq(D)
      /\ Ascends(path)
      /\ RanksOf(path) = RanksOf(this.path) \cup RanksOf(e.path)
      /\ \A d \in ToSet(path) :
           FirstSpelling(d, this.path) \/ (d[1] \notin RanksOf(this.path) /\ FirstSpelling(d, e.path))
  <2>1. this.path \in Seq(D) /\ e.path \in Seq(D) /\ path = Merge(this, e).path
    BY <1>1, <1>3, <1>4
  <2>2. IsMergedPath(path, this.path, e.path, D)
    BY <2>1, MergedPath
  <2> QED
    BY <2>2 DEF IsMergedPath
<1>6. \A r : r \in RanksOf(path) <=> \E i \in 1 .. k + 1 : r \in RanksOf(order[i].path)
  <2>1. SUFFICES ASSUME NEW r PROVE r \in RanksOf(path) <=> \E i \in 1 .. k + 1 : r \in RanksOf(order[i].path)
    OBVIOUS
  <2>2. (\E i \in 1 .. k + 1 : r \in RanksOf(order[i].path))
          <=> (\E i \in 1 .. k : r \in RanksOf(order[i].path)) \/ r \in RanksOf(order[k + 1].path)
    BY <1>2
  <2> QED
    BY <1>1, <1>3, <1>5, <2>2
<1>7. PICK x, y, z : x = e.variables /\ y = this.variables /\ z = m.variables
  OBVIOUS
<1>8. z = [v \in DOMAIN x \cup DOMAIN y |-> IF v \in DOMAIN x THEN x[v] ELSE y[v]]
  BY <1>1, <1>7 DEF Merge, Over
<1>9. DOMAIN z = DOMAIN x \cup DOMAIN y /\ \A v \in DOMAIN z : z[v] = IF v \in DOMAIN x THEN x[v] ELSE y[v]
  BY <1>8
<1>10. \A v : v \in DOMAIN z <=> \E i \in 1 .. k + 1 : v \in DOMAIN order[i].variables
  <2>1. SUFFICES ASSUME NEW v PROVE v \in DOMAIN z <=> \E i \in 1 .. k + 1 : v \in DOMAIN order[i].variables
    OBVIOUS
  <2>2. (\E i \in 1 .. k + 1 : v \in DOMAIN order[i].variables)
          <=> (\E i \in 1 .. k : v \in DOMAIN order[i].variables) \/ v \in DOMAIN order[k + 1].variables
    BY <1>2
  <2> QED
    BY <1>1, <1>3, <1>7, <1>9, <2>2
<1>11. ASSUME NEW v \in DOMAIN z
       PROVE  \E i \in 1 .. k + 1 :
                /\ v \in DOMAIN order[i].variables
                /\ z[v] = order[i].variables[v]
                /\ \A j \in 1 .. i - 1 : v \notin DOMAIN order[j].variables
  <2>1. CASE v \in DOMAIN x
    <3>1. z[v] = x[v]
      BY <1>9, <2>1
    <3>2. PICK i \in 1 .. k :
            /\ v \in DOMAIN order[i].variables
            /\ x[v] = order[i].variables[v]
            /\ \A j \in 1 .. i - 1 : v \notin DOMAIN order[j].variables
      BY <1>3, <1>7, <2>1
    <3>3. i \in 1 .. k + 1
      BY <1>2
    <3> QED
      BY <3>1, <3>2, <3>3
  <2>2. CASE v \notin DOMAIN x
    <3>1. z[v] = y[v] /\ v \in DOMAIN y
      BY <1>9, <2>2
    <3>2. \A j \in 1 .. k : v \notin DOMAIN order[j].variables
      BY <1>3, <1>7, <2>2
    <3>3. (k + 1) - 1 = k
      OBVIOUS
    <3> QED
      BY <1>1, <1>2, <1>7, <3>1, <3>2, <3>3
  <2> QED
    BY <2>1, <2>2
<1>12. ASSUME NEW d, FirstSpelling(d, path) PROVE IsKept(d, k + 1, order)
  <2>1. d \in ToSet(path)
    BY <1>12 DEF FirstSpelling, ToSet
  <2>2. CASE FirstSpelling(d, this.path)
    BY <1>1, <2>2, KeptNew
  <2>3. CASE d[1] \notin RanksOf(this.path) /\ FirstSpelling(d, e.path)
    <3>1. IsKept(d, k, order)
      BY <1>3, <2>3
    <3> QED
      BY <1>1, <2>3, <3>1, KeptNext
  <2> QED
    BY <1>5, <2>1, <2>2, <2>3
<1>13. k + 1 # 1
  OBVIOUS
<1>14. HasFirst(m, k + 1, order, D)
  <2>1. \A d : FirstSpelling(d, path) => IsKept(d, k + 1, order)
    BY <1>12
  <2> QED
    BY <1>4, <1>5, <1>6, <1>7, <1>10, <1>11, <1>13, <2>1 DEF HasFirst
<1> QED
  BY <1>1, <1>14

(* All of them have taken it over.                                         *)
LEMMA InheritedHasAll ==
  ASSUME NEW D, HaveRanks(D), NEW environs, NEW env, NEW n \in Nat, DOMAIN env.inherits = 1 .. n,
         NEW order, IsOrder(order, environs, env, n), \A k \in 1 .. n + 1 : order[k].path \in Seq(D)
  PROVE  HasFirst(Inherited(environs, env), n + 1, order, D)
<1>1. PICK h : MergesAll(h, n, environs, env)
  BY MergeFold
<1>2. /\ h[0] = env
      /\ \A k \in 1 .. n : h[k] = Merge(environs[env.inherits[k]], h[k - 1])
      /\ h[n] = Inherited(environs, env)
  BY <1>1 DEF MergesAll
<1> DEFINE T == {k \in 0 .. n : HasFirst(h[k], k + 1, order, D)}
<1>3. 0 \in T
  <2>1. 1 \in 1 .. n + 1 /\ 0 + 1 = 1 /\ 0 \in 0 .. n
    OBVIOUS
  <2>2. order[1].path \in Seq(D) /\ order[1] = h[0]
    BY <1>2, <2>1 DEF IsOrder
  <2>3. HasFirst(order[1], 1, order, D)
    BY <2>2, HasFirstOne
  <2> QED
    BY <2>1, <2>2, <2>3
<1>4. ASSUME NEW k \in 0 .. n, k \in T, k < n PROVE k + 1 \in T
  <2>1. PICK m, e : m = k + 1 /\ e = h[k]
    OBVIOUS
  <2>2. m \in Nat /\ 1 <= m /\ m \in 1 .. n /\ m \in 0 .. n /\ m + 1 \in 1 .. n + 1 /\ m - 1 = k
    BY <1>4, <2>1
  <2>3. HasFirst(e, m, order, D)
    BY <1>4, <2>1
  <2>4. order[m + 1].path \in Seq(D)
    BY <2>2
  <2>5. HasFirst(Merge(order[m + 1], e), m + 1, order, D)
    BY <2>2, <2>3, <2>4, HasFirstNext
  <2>6. h[m] = Merge(order[m + 1], e)
    BY <1>2, <2>1, <2>2 DEF IsOrder
  <2> QED
    BY <2>1, <2>2, <2>5, <2>6
<1>5. n \in T
  <2>1. n \in 0 .. n
    OBVIOUS
  <2> HIDE DEF T
  <2>2. 0 .. n \subseteq T
    BY <1>3, <1>4, Induction
  <2> QED
    BY <2>1, <2>2
<1> QED
  BY <1>2, <1>5

(* What is compiled of an environment whose path and variables are known.  *)
IsCompiled(compiled, e) ==
  /\ DOMAIN compiled = DOMAIN e.variables \cup {"PATH"}
  /\ \A v \in DOMAIN e.variables : v # "PATH" => compiled[v] = e.variables[v]
  /\ RanksOf(e.path) = {} => compiled["PATH"] = Undefined
  /\ RanksOf(e.path) # {} => compiled["PATH"] = e.path

LEMMA CompiledOf ==
  ASSUME NEW D, NEW e, e.path \in Seq(D)
  PROVE  IsCompiled(Compile(e), e)
<1>9. PICK compiled : compiled = Compile(e)
  OBVIOUS
<1>1. PICK x, p, m : x = e.variables /\ p = e.path /\ m = MergePath(p)
  OBVIOUS
<1>2. PICK y : y = [v \in {"PATH"} |-> m]
  OBVIOUS
<1>3. compiled = Over(y, x)
  BY <1>1, <1>2, <1>9 DEF Compile
<1>4. DOMAIN y = {"PATH"} /\ y["PATH"] = m
  BY <1>2
<1>5. /\ DOMAIN compiled = DOMAIN y \cup DOMAIN x
      /\ \A v \in DOMAIN y \cup DOMAIN x : compiled[v] = IF v \in DOMAIN y THEN y[v] ELSE x[v]
  BY <1>3 DEF Over
<1>6. compiled["PATH"] = m
  BY <1>4, <1>5
<1>7. \A v \in DOMAIN x : v # "PATH" => compiled[v] = x[v]
  BY <1>4, <1>5
<1>8. RanksOf(p) = {} <=> p = <<>>
  <2>1. DOMAIN p = 1 .. Len(p) /\ Len(p) \in Nat
    BY <1>1, LenProperties
  <2>2. RanksOf(p) = {p[i][1] : i \in 1 .. Len(p)}
    BY <2>1 DEF RanksOf, ToSet
  <2>3. Len(p) = 0 <=> p = <<>>
    BY <1>1, EmptySeq
  <2>4. Len(p) # 0 => 1 \in 1 .. Len(p)
    BY <2>1
  <2>5. Len(p) = 0 => 1 .. Len(p) = {}
    BY <2>1
  <2> QED
    BY <2>2, <2>3, <2>4, <2>5
<1> QED
  BY <1>1, <1>4, <1>5, <1>6, <1>7, <1>8, <1>9 DEF MergePath, IsCompiled

(* Environments with paths over D.                                         *)
AreEnvironments(environs, D, Others) ==
  \A e \in DOMAIN environs :
    /\ environs[e].path \in Seq(D)
    /\ environs[e].inherits \in Seq(Others)

(* However many environments there are, and however many of them one       *)
(* inherits from: its own variables go before those, those of the first    *)
(* before those of the rest; of the directories whose names differ only in *)
(* case the path has one, where case tells them apart as well, as the last *)
(* spells it that has one, and they are in the order of their names        *)
(* (PublicSettings::compileEnvironment, Environment::merge).               *)
THEOREM EnvironmentIsCompiled ==
  ASSUME NEW D, HaveRanks(D), NEW Others, NEW environs, AreEnvironments(environs, D, Others),
         NEW name \in DOMAIN environs
  PROVE  HasPrecedence(environs, name)
<1>1. PICK env, l : env = environs[name] /\ l = env.inherits
  OBVIOUS
<1>2. env.path \in Seq(D) /\ l \in Seq(Others)
  BY <1>1 DEF AreEnvironments
<1>3. PICK n \in Nat : n = Len(l) /\ DOMAIN l = 1 .. n
  BY <1>2, LenProperties
<1>4. PICK compiled : compiled = CompileEnvironment(environs, name)
  OBVIOUS
<1>5. PICK rest : rest = [k \in 1 .. n |-> environs[l[k]]]
  OBVIOUS
<1>6. PICK order : order = <<env>> \o rest
  OBVIOUS
<1>7. HasPrecedence(environs, name) <=> IF ToSet(l) \subseteq DOMAIN environs THEN TakesFirst(compiled, order)
                                        ELSE compiled = InheritsUnknown
  BY <1>1, <1>3, <1>4, <1>5, <1>6 DEF HasPrecedence
<1>8. IsOrder(order, environs, env, n) /\ Len(order) = n + 1
  <2> DEFINE V == {env} \cup {environs[l[k]] : k \in 1 .. n}
  <2>1. env \in V /\ \A k \in 1 .. n : rest[k] \in V
    BY <1>5
  <2>2. rest \in [1 .. n -> V]
    BY <1>5, <2>1
  <2> HIDE DEF V
  <2>3. rest \in Seq(V)
    BY <2>2, SeqDef
  <2>4. Len(rest) = n
    BY <2>2, <2>3, LengthOfFunction
  <2>5. PICK one : one = <<env>>
    OBVIOUS
  <2>6. one \in Seq(V) /\ Len(one) = 1 /\ one[1] = env
    BY <2>1, <2>5
  <2>7. /\ order \in Seq(V) /\ Len(order) = 1 + n
        /\ \A i \in 1 .. 1 + n : order[i] = IF i <= 1 THEN one[i] ELSE rest[i - 1]
    BY <1>6, <2>3, <2>4, <2>5, <2>6, ConcatProperties
  <2>8. DOMAIN order = 1 .. n + 1
    BY <2>7, LenProperties
  <2>9. order[1] = env
    BY <2>6, <2>7
  <2>10. ASSUME NEW k \in 1 .. n PROVE order[k + 1] = environs[env.inherits[k]]
    <3>1. k + 1 \in 1 .. 1 + n /\ ~ (k + 1 <= 1) /\ (k + 1) - 1 = k
      OBVIOUS
    <3>2. order[k + 1] = rest[k]
      BY <2>7, <3>1
    <3> QED
      BY <1>1, <1>5, <3>2
  <2> QED
    BY <2>7, <2>8, <2>9, <2>10 DEF IsOrder
<1>9. CASE ~ ToSet(l) \subseteq DOMAIN environs
  <2>1. \E k \in DOMAIN l : l[k] \notin DOMAIN environs
    BY <1>9 DEF ToSet
  <2>2. compiled = InheritsUnknown
    BY <1>1, <1>4, <2>1 DEF CompileEnvironment
  <2> QED
    BY <1>7, <1>9, <2>2
<1>10. CASE ToSet(l) \subseteq DOMAIN environs
  <2>1. \A k \in 1 .. n : l[k] \in DOMAIN environs
    BY <1>3, <1>10 DEF ToSet
  <2>2. ~ \E k \in DOMAIN l : l[k] \notin DOMAIN environs
    BY <1>3, <2>1
  <2>3. PICK e : e = Inherited(environs, env)
    OBVIOUS
  <2>4. compiled = Compile(e)
    BY <1>1, <1>4, <2>2, <2>3 DEF CompileEnvironment
  <2>5. ASSUME NEW k \in 1 .. n + 1 PROVE order[k].path \in Seq(D)
    <3>1. CASE k = 1
      BY <1>2, <1>8, <3>1 DEF IsOrder
    <3>2. CASE k # 1
      <4>1. PICK i \in 1 .. n : k = i + 1
        <5>1. k - 1 \in 1 .. n /\ k = (k - 1) + 1
          BY <3>2
        <5> QED
          BY <5>1
      <4>2. order[k] = environs[l[i]]
        BY <1>1, <1>8, <4>1 DEF IsOrder
      <4> QED
        BY <2>1, <4>2 DEF AreEnvironments
    <3> QED
      BY <3>1, <3>2
  <2>6. HasFirst(e, n + 1, order, D)
    <3>1. DOMAIN env.inherits = 1 .. n
      BY <1>1, <1>3
    <3> QED
      BY <1>8, <2>3, <2>5, <3>1, InheritedHasAll
  <2>7. /\ e.path \in Seq(D)
        /\ \A r : r \in RanksOf(e.path) <=> \E i \in 1 .. n + 1 : r \in RanksOf(order[i].path)
        /\ n + 1 = 1 => e.path = order[1].path
        /\ 2 <= n + 1 => Ascends(e.path)
        /\ \A d : FirstSpelling(d, e.path) => IsKept(d, n + 1, order)
        /\ \A v : v \in DOMAIN e.variables <=> \E i \in 1 .. n + 1 : v \in DOMAIN order[i].variables
        /\ \A v \in DOMAIN e.variables : \E i \in 1 .. n + 1 :
             /\ v \in DOMAIN order[i].variables
             /\ e.variables[v] = order[i].variables[v]
             /\ \A j \in 1 .. i - 1 : v \notin DOMAIN order[j].variables
    BY <2>6 DEF HasFirst
  <2>8. /\ DOMAIN compiled = DOMAIN e.variables \cup {"PATH"}
        /\ \A v \in DOMAIN e.variables : v # "PATH" => compiled[v] = e.variables[v]
        /\ RanksOf(e.path) = {} => compiled["PATH"] = Undefined
        /\ RanksOf(e.path) # {} => compiled["PATH"] = e.path
    <3>1. IsCompiled(compiled, e)
      BY <2>4, <2>7, CompiledOf
    <3> QED
      BY <3>1 DEF IsCompiled
  <2>9. DOMAIN order = 1 .. n + 1
    BY <1>8 DEF IsOrder
  <2>10. PICK known : known = UNION {DOMAIN order[i].variables : i \in DOMAIN order}
    OBVIOUS
  <2>11. DOMAIN e.variables = known
    BY <2>7, <2>9, <2>10
  <2>12. PICK ranks : ranks = UNION {{d[1] : d \in ToSet(order[i].path)} : i \in DOMAIN order}
    OBVIOUS
  <2>13. RanksOf(e.path) = ranks
    <3>1. ranks = UNION {RanksOf(order[i].path) : i \in DOMAIN order}
      BY <2>12 DEF RanksOf
    <3> QED
      BY <2>7, <2>9, <3>1
  <2>14. DOMAIN compiled = known \cup {"PATH"}
    BY <2>8, <2>11
  <2>15. ASSUME NEW v \in known \ {"PATH"}
         PROVE  \E i \in DOMAIN order :
                  /\ v \in DOMAIN order[i].variables
                  /\ compiled[v] = order[i].variables[v]
                  /\ \A k \in 1 .. i - 1 : v \notin DOMAIN order[k].variables
    <3>1. v \in DOMAIN e.variables /\ compiled[v] = e.variables[v]
      BY <2>8, <2>11
    <3> QED
      BY <2>7, <2>9, <3>1
  <2>16. ranks = {} => compiled["PATH"] = Undefined
    BY <2>8, <2>13
  <2>17. ranks # {} /\ Len(order) = 1 => compiled["PATH"] = order[1].path
    <3>1. Len(order) = 1 => n + 1 = 1
      BY <1>8
    <3> QED
      BY <2>7, <2>8, <2>13, <3>1
  <2>18. ASSUME Len(order) # 1 PROVE IsUnited(e.path, order, ranks)
    <3>1. 2 <= n + 1 /\ Len(order) = n + 1
      BY <1>8, <2>18
    <3>2. PICK path : path = e.path
      OBVIOUS
    <3>3. path \in Seq(D) /\ Ascends(path)
      BY <2>7, <3>1, <3>2
    <3>4. \A d \in ToSet(path) : FirstSpelling(d, path)
      BY <3>3, AscendingSpells
    <3>5. \A d \in ToSet(path) : IsKept(d, Len(order), order)
      BY <2>7, <3>1, <3>2, <3>4
    <3>6. {d[1] : d \in ToSet(path)} = ranks
      BY <2>13, <3>2 DEF RanksOf
    <3>7. \A a, b \in DOMAIN path : a < b => path[a][1] < path[b][1]
      BY <3>3, LenProperties DEF Ascends
    <3> QED
      BY <3>2, <3>5, <3>6, <3>7 DEF IsUnited
  <2>19. ranks # {} /\ Len(order) # 1 => IsUnited(compiled["PATH"], order, ranks)
    BY <2>8, <2>13, <2>18
  <2>20. TakesFirst(compiled, order)
    BY <2>10, <2>12, <2>14, <2>15, <2>16, <2>17, <2>19 DEF TakesFirst
  <2> QED
    BY <1>7, <1>10, <2>20
<1> QED
  BY <1>9, <1>10

(* The directories and the environments that are given.                    *)
Directories == {1, 2, 3} \X {"a", "A", "b", "B", "c"}

Inheritable == {"e2", "e3", "e4"}

LEMMA UpToAreSequences ==
  ASSUME NEW S, NEW T, S \subseteq T, NEW n, NEW s \in UpTo(S, n)
  PROVE  s \in Seq(T)
<1>1. Len(s) \in Nat /\ s \in [1 .. Len(s) -> S]
  BY SequenceUpTo
<1>2. s \in [1 .. Len(s) -> T]
  BY <1>1
<1> QED
  BY <1>1, <1>2, SeqDef

LEMMA GivenPaths == OwnPaths \cup InheritedPaths \subseteq Seq(Directories)
<1>1. PICK a, aa, b, bb, c :
        a = <<1, "a">> /\ aa = <<1, "A">> /\ b = <<2, "b">> /\ bb = <<2, "B">> /\ c = <<3, "c">>
  OBVIOUS
<1>2. /\ a \in Directories /\ aa \in Directories /\ b \in Directories /\ bb \in Directories
      /\ c \in Directories
  BY <1>1 DEF Directories
<1> HIDE DEF Directories
<1>3. /\ <<>> \in Seq(Directories) /\ <<a>> \in Seq(Directories) /\ <<b, aa>> \in Seq(Directories)
      /\ <<aa, a>> \in Seq(Directories) /\ <<a, bb>> \in Seq(Directories) /\ <<c>> \in Seq(Directories)
  BY <1>2
<1>4. OwnPaths = {<<>>, <<a>>, <<b, aa>>, <<aa, a>>} /\ InheritedPaths = {<<>>, <<a, bb>>, <<c>>}
  BY <1>1 DEF OwnPaths, InheritedPaths
<1> QED
  BY <1>3, <1>4

(* The environments that are given are environments.                       *)
EnvironsGiven ==
  input.of = "environs" =>
    /\ AreEnvironments(input.environs, Directories, Inheritable)
    /\ "e1" \in DOMAIN input.environs

LEMMA TakenEnvirons == TakeEnvirons => EnvironsGiven'
<1> SUFFICES ASSUME TakeEnvirons PROVE EnvironsGiven'
  OBVIOUS
<1>1. PICK ownPath \in OwnPaths, path2 \in InheritedPaths, path3 \in InheritedPaths :
        \E own, var2, var3 \in {v \in SomeVariables : "PATH" \notin DOMAIN v \/ v["PATH"] = 1} :
          \E inherits \in UpTo({"e2", "e3"}, 2) \cup {<<"e4">>} :
            input' = [of |-> "environs", environs |->
              [e1 |-> [path |-> ownPath, variables |-> own, inherits |-> inherits],
               e2 |-> [path |-> path2, variables |-> var2, inherits |-> <<"e4">>],
               e3 |-> [path |-> path3, variables |-> var3, inherits |-> <<>>]]]
  BY DEF TakeEnvirons
<1>2. PICK own, var2, var3 \in SomeVariables, inherits \in UpTo({"e2", "e3"}, 2) \cup {<<"e4">>} :
        input' = [of |-> "environs", environs |->
          [e1 |-> [path |-> ownPath, variables |-> own, inherits |-> inherits],
           e2 |-> [path |-> path2, variables |-> var2, inherits |-> <<"e4">>],
           e3 |-> [path |-> path3, variables |-> var3, inherits |-> <<>>]]]
  BY <1>1
<1>3. ownPath \in Seq(Directories) /\ path2 \in Seq(Directories) /\ path3 \in Seq(Directories)
  BY <1>1, GivenPaths
<1>4. PICK none, four : none = <<>> /\ four = <<"e4">>
  OBVIOUS
<1>5. inherits \in Seq(Inheritable) /\ none \in Seq(Inheritable) /\ four \in Seq(Inheritable)
  <2>1. {"e2", "e3"} \subseteq Inheritable /\ "e4" \in Inheritable
    BY DEF Inheritable
  <2>2. inherits \in UpTo({"e2", "e3"}, 2) => inherits \in Seq(Inheritable)
    BY <2>1, UpToAreSequences
  <2>3. none \in Seq(Inheritable) /\ four \in Seq(Inheritable)
    BY <1>4, <2>1
  <2>4. inherits \in UpTo({"e2", "e3"}, 2) \/ inherits = four
    BY <1>2, <1>4
  <2> QED
    BY <2>2, <2>3, <2>4
<1>6. PICK one, two, three :
        /\ one = [path |-> ownPath, variables |-> own, inherits |-> inherits]
        /\ two = [path |-> path2, variables |-> var2, inherits |-> four]
        /\ three = [path |-> path3, variables |-> var3, inherits |-> none]
  OBVIOUS
<1>7. PICK environs : environs = [e1 |-> one, e2 |-> two, e3 |-> three]
  OBVIOUS
<1>8. input' = [of |-> "environs", environs |-> environs]
  BY <1>2, <1>4, <1>6, <1>7
<1>9. /\ one.path \in Seq(Directories) /\ one.inherits \in Seq(Inheritable)
      /\ two.path \in Seq(Directories) /\ two.inherits \in Seq(Inheritable)
      /\ three.path \in Seq(Directories) /\ three.inherits \in Seq(Inheritable)
  BY <1>3, <1>5, <1>6
<1>10. /\ DOMAIN environs = {"e1", "e2", "e3"}
       /\ environs["e1"] = one /\ environs["e2"] = two /\ environs["e3"] = three
  BY <1>7
<1>11. AreEnvironments(environs, Directories, Inheritable)
  BY <1>9, <1>10 DEF AreEnvironments
<1>12. input'.environs = environs
  BY <1>8
<1> QED
  BY <1>10, <1>11, <1>12 DEF EnvironsGiven

LEMMA EnvironsGivenNext == EnvironsGiven /\ [Next]_input => EnvironsGiven'
<1> SUFFICES ASSUME EnvironsGiven, [Next]_input PROVE EnvironsGiven'
  OBVIOUS
<1>1. CASE TakeEnvirons
  BY <1>1, TakenEnvirons
<1>2. CASE TakeFrames \/ TakeTree \/ TakeStarts \/ TakePath \/ TakeFile
  <2>1. CASE TakeFrames
    <3>1. input'.of = "frames"
      BY <2>1 DEF TakeFrames
    <3> QED
      BY <3>1 DEF EnvironsGiven
  <2>2. CASE TakeTree
    <3>1. input'.of = "tree"
      BY <2>2 DEF TakeTree
    <3> QED
      BY <3>1 DEF EnvironsGiven
  <2>3. CASE TakeStarts
    <3>1. input'.of = "starts"
      BY <2>3 DEF TakeStarts
    <3> QED
      BY <3>1 DEF EnvironsGiven
  <2>4. CASE TakePath
    <3>1. input'.of = "path"
      BY <2>4 DEF TakePath
    <3> QED
      BY <3>1 DEF EnvironsGiven
  <2>5. CASE TakeFile
    <3>1. input'.of = "file"
      BY <2>5 DEF TakeFile
    <3> QED
      BY <3>1 DEF EnvironsGiven
  <2> QED
    BY <1>2, <2>1, <2>2, <2>3, <2>4, <2>5
<1>3. CASE UNCHANGED input
  BY <1>3 DEF EnvironsGiven
<1> QED
  BY <1>1, <1>2, <1>3 DEF Next

LEMMA EnvironsGivenCompiled == EnvironsGiven => CompiledPrecedence
<1> SUFFICES ASSUME EnvironsGiven, input.of = "environs" PROVE HasPrecedence(input.environs, "e1")
  BY DEF CompiledPrecedence
<1>1. PICK environs : environs = input.environs
  OBVIOUS
<1>2. AreEnvironments(environs, Directories, Inheritable) /\ "e1" \in DOMAIN environs
  BY <1>1 DEF EnvironsGiven
<1>3. HaveRanks(Directories)
  BY DEF HaveRanks, Directories
<1>4. HasPrecedence(environs, "e1")
  BY <1>2, <1>3, EnvironmentIsCompiled
<1> QED
  BY <1>1, <1>4

(* The variables an environment gives go before those it inherits, and     *)
(* those it inherits first before the rest; of directories whose names     *)
(* differ only in case its path has one, as the last spells it that has    *)
(* one (PublicSettings::compileEnvironment, Environment::merge).           *)
THEOREM CompiledPrecedenceCorrect == Spec => []CompiledPrecedence
<1>1. Init => EnvironsGiven
  BY DEF Init, None, EnvironsGiven
<1>2. EnvironsGiven /\ [Next]_input => EnvironsGiven'
  BY EnvironsGivenNext
<1>3. EnvironsGiven => CompiledPrecedence
  BY EnvironsGivenCompiled
<1> QED
  BY <1>1, <1>2, <1>3, PTL DEF Spec

------------------------------------------------------------------------------
(* n is the last place of a name of S, 0 if there is none.                 *)
IsLast(n, names, S) ==
  /\ n \in 0 .. Len(names)
  /\ n # 0 => names[n] \in S
  /\ \A i \in n + 1 .. Len(names) : names[i] \notin S

LEMMA LastIsOne ==
  ASSUME NEW N, NEW names \in Seq(N), NEW S, NEW m, NEW n, IsLast(m, names, S), IsLast(n, names, S)
  PROVE  m = n
<1>1. PICK l \in Nat : l = Len(names)
  BY LenProperties
<1>2. /\ m \in 0 .. l /\ n \in 0 .. l
      /\ m # 0 => names[m] \in S
      /\ n # 0 => names[n] \in S
      /\ \A i \in m + 1 .. l : names[i] \notin S
      /\ \A i \in n + 1 .. l : names[i] \notin S
  BY <1>1 DEF IsLast
<1>3. m > n => m # 0 /\ m \in n + 1 .. l
  BY <1>2
<1>4. n > m => n # 0 /\ n \in m + 1 .. l
  BY <1>2
<1>5. m > n \/ n > m \/ m = n
  BY <1>2
<1> QED
  BY <1>2, <1>3, <1>4, <1>5

LEMMA ReducedIsLast ==
  ASSUME NEW N, NEW names \in Seq(N), NEW isSource
  PROVE  IsLast(Reduced(names, isSource), names, SpecialNames(isSource))
<1>1. PICK l \in Nat : l = Len(names)
  BY LenProperties
<1>2. PICK S : S = SpecialNames(isSource)
  OBVIOUS
<1>3. PICK I : I = {i \in 1 .. l : names[i] \in S}
  OBVIOUS
<1>4. PICK n : n = IF I # {} THEN MaxOf(I) ELSE 0
  OBVIOUS
<1>5. Reduced(names, isSource) = n
  BY <1>1, <1>2, <1>3, <1>4 DEF Reduced, SelectLastInSeq, Max, MaxOf
<1>6. CASE I = {}
  <2>1. n = 0
    BY <1>4, <1>6
  <2>2. \A i \in 1 .. l : names[i] \notin S
    BY <1>3, <1>6
  <2>3. n \in 0 .. l /\ n + 1 = 1
    BY <2>1
  <2> QED
    BY <1>1, <1>2, <1>5, <2>1, <2>2, <2>3 DEF IsLast
<1>7. CASE I # {}
  <2>1. I \in SUBSET (1 .. l)
    BY <1>3
  <2>2. n \in I /\ \A y \in I : n >= y
    BY <1>4, <1>7, <2>1, MaxOfSet
  <2>3. n \in 1 .. l /\ names[n] \in S
    BY <1>3, <2>2
  <2>4. ASSUME NEW i \in n + 1 .. l PROVE names[i] \notin S
    <3>1. i \in 1 .. l /\ ~ n >= i
      BY <2>3
    <3> QED
      BY <1>3, <2>2, <3>1
  <2>5. n \in 0 .. l
    BY <2>3
  <2> QED
    BY <1>1, <1>2, <1>5, <2>3, <2>4, <2>5 DEF IsLast
<1> QED
  BY <1>6, <1>7

LeastOf(S) == CHOOSE x \in S : \A y \in S : x <= y

LEMMA FirstThereIsLeast ==
  ASSUME NEW names, NEW parent, NEW exists
  PROVE  LET I == {i \in 1 .. Len(names) : Append(parent, names[i]) \in exists}
         IN FirstThere(names, parent, exists) = IF I # {} THEN LeastOf(I) ELSE 0
BY DEF FirstThere, SelectInSeq, Min, LeastOf

(* A partner's directory goes by one of the names for it.                  *)
LEMMA SpecialDirHasName ==
  ASSUME NEW parent, NEW exists
  PROVE  \E x \in SpecialNames(FALSE) : SpecialDir(parent, TRUE, exists) = Append(parent, x)
<1>1. PICK names : names = <<"include", "headers">>
  OBVIOUS
<1>2. PartnerNames(TRUE) = names /\ Len(names) = 2 /\ names[1] = "include" /\ names[2] = "headers"
  BY <1>1 DEF PartnerNames
<1>3. PICK I : I = {i \in 1 .. 2 : Append(parent, names[i]) \in exists}
  OBVIOUS
<1>4. PICK n : n = IF I # {} THEN LeastOf(I) ELSE 0
  OBVIOUS
<1>5. SpecialDir(parent, TRUE, exists) = Append(parent, names[IF n = 0 THEN 1 ELSE n])
  <2>1. FirstThere(names, parent, exists) = n
    BY <1>2, <1>3, <1>4, FirstThereIsLeast
  <2> QED
    BY <1>2, <2>1 DEF SpecialDir
<1>6. n \in 0 .. 2
  <2>1. I \subseteq 1 .. 2 /\ I \subseteq Nat
    BY <1>3
  <2>2. I # {} => \E x \in I : \A y \in I : x <= y
    BY <2>1, LeastNumber
  <2>3. I # {} => n \in I
    BY <1>4, <2>2 DEF LeastOf
  <2>4. I = {} => n = 0
    BY <1>4
  <2>5. 0 \in 0 .. 2 /\ 1 .. 2 \subseteq 0 .. 2
    OBVIOUS
  <2> QED
    BY <2>1, <2>3, <2>4, <2>5
<1>7. PICK k \in {1, 2} : k = IF n = 0 THEN 1 ELSE n
  BY <1>6
<1>8. PICK x : x = names[k]
  OBVIOUS
<1>9. x \in SpecialNames(FALSE)
  BY <1>2, <1>7, <1>8 DEF SpecialNames
<1> QED
  BY <1>5, <1>7, <1>8, <1>9

(* Back from it, the first that exists is taken.                           *)
LEMMA SpecialDirIsFirst ==
  ASSUME NEW parent, NEW exists, NEW k \in 1 .. 3, Append(parent, PartnerNames(FALSE)[k]) \in exists,
         \A i \in 1 .. k - 1 : Append(parent, PartnerNames(FALSE)[i]) \notin exists
  PROVE  SpecialDir(parent, FALSE, exists) = Append(parent, PartnerNames(FALSE)[k])
<1>1. PICK names : names = PartnerNames(FALSE)
  OBVIOUS
<1>2. Len(names) = 3
  BY <1>1 DEF PartnerNames
<1>3. PICK I : I = {i \in 1 .. 3 : Append(parent, names[i]) \in exists}
  OBVIOUS
<1>4. PICK n : n = IF I # {} THEN LeastOf(I) ELSE 0
  OBVIOUS
<1>5. SpecialDir(parent, FALSE, exists) = Append(parent, names[IF n = 0 THEN 1 ELSE n])
  <2>1. FirstThere(names, parent, exists) = n
    BY <1>2, <1>3, <1>4, FirstThereIsLeast
  <2> QED
    BY <1>1, <2>1 DEF SpecialDir
<1>6. k \in I /\ I \subseteq 1 .. 3
  BY <1>1, <1>3
<1>7. \A i \in I : k <= i
  <2>1. SUFFICES ASSUME NEW i \in I PROVE k <= i
    OBVIOUS
  <2>2. i \in 1 .. 3 /\ Append(parent, names[i]) \in exists
    BY <1>3
  <2>3. i \notin 1 .. k - 1
    BY <1>1, <2>2
  <2> QED
    BY <2>2, <2>3
<1>8. n = k
  <2>1. n \in I /\ \A y \in I : n <= y
    BY <1>4, <1>6, <1>7 DEF LeastOf
  <2>2. n \in 1 .. 3 /\ n <= k /\ k <= n
    BY <1>6, <1>7, <2>1
  <2> QED
    BY <2>2
<1>9. n # 0
  BY <1>8
<1> QED
  BY <1>1, <1>5, <1>8, <1>9

(* e is d with x in place a.                                               *)
IsRenamed(e, d, a, x) ==
  /\ Len(e) = Len(d)
  /\ e[a] = x
  /\ \A i \in 1 .. Len(d) : i # a => e[i] = d[i]

AbovePlace(d, a) == SubSeq(d, 1, a - 1)
BehindPlace(d, a) == SubSeq(d, a + 1, Len(d))

(* e has the first l of d.                                                 *)
LEMMA AbovePlaceIs ==
  ASSUME NEW N, NEW d \in Seq(N), NEW a \in 1 .. Len(d)
  PROVE  /\ AbovePlace(d, a) \in Seq(N)
         /\ Len(AbovePlace(d, a)) = a - 1
         /\ \A i \in 1 .. a - 1 : AbovePlace(d, a)[i] = d[i]
<1>1. PICK l \in Nat : l = Len(d)
  BY LenProperties
<1>2. PICK n : n = a - 1
  OBVIOUS
<1>3. n \in Int /\ 1 \in Int /\ n \in Nat /\ n - 1 + 1 = n /\ (1 <= n \/ n = 0)
  BY <1>1, <1>2
<1>4. \A i \in 1 .. n : d[i] \in N
  <2>1. SUFFICES ASSUME NEW i \in 1 .. n PROVE d[i] \in N
    OBVIOUS
  <2>2. i \in 1 .. Len(d)
    BY <1>1, <1>2
  <2> QED
    BY <2>2, ElementOfSeq
<1>5. PICK s : s = SubSeq(d, 1, n)
  OBVIOUS
<1>6. /\ s \in Seq(N)
      /\ Len(s) = IF 1 <= n THEN n - 1 + 1 ELSE 0
      /\ \A i \in 1 .. n - 1 + 1 : s[i] = d[1 + i - 1]
  BY <1>3, <1>4, <1>5, SubSeqProperties
<1>7. \A i \in 1 .. n : 1 + i - 1 = i
  OBVIOUS
<1>8. \A i \in 1 .. n : s[i] = d[i]
  BY <1>3, <1>6, <1>7
<1>9. Len(s) = n
  BY <1>3, <1>6
<1> QED
  BY <1>2, <1>5, <1>6, <1>8, <1>9 DEF AbovePlace

LEMMA BehindPlaceIs ==
  ASSUME NEW N, NEW d \in Seq(N), NEW a \in 1 .. Len(d)
  PROVE  /\ BehindPlace(d, a) \in Seq(N)
         /\ Len(BehindPlace(d, a)) = Len(d) - a
         /\ \A i \in 1 .. Len(d) - a : BehindPlace(d, a)[i] = d[a + i]
<1>1. PICK l \in Nat : l = Len(d)
  BY LenProperties
<1>2. PICK m, n : m = a + 1 /\ n = l - a
  OBVIOUS
<1>3. l \in Int /\ m \in Int /\ n \in Nat /\ l - m + 1 = n /\ (m <= l \/ n = 0)
  BY <1>1, <1>2
<1>4. \A i \in m .. l : d[i] \in N
  <2>1. SUFFICES ASSUME NEW i \in m .. l PROVE d[i] \in N
    OBVIOUS
  <2>2. i \in 1 .. Len(d)
    BY <1>1, <1>2
  <2> QED
    BY <2>2, ElementOfSeq
<1>5. PICK s : s = SubSeq(d, m, l)
  OBVIOUS
<1>6. /\ s \in Seq(N)
      /\ Len(s) = IF m <= l THEN l - m + 1 ELSE 0
      /\ \A i \in 1 .. l - m + 1 : s[i] = d[m + i - 1]
  BY <1>3, <1>4, <1>5, SubSeqProperties
<1>7. \A i \in 1 .. n : m + i - 1 = a + i
  BY <1>1, <1>2
<1>8. \A i \in 1 .. n : s[i] = d[a + i]
  BY <1>3, <1>6, <1>7
<1>9. Len(s) = n
  BY <1>2, <1>3, <1>6
<1> QED
  BY <1>1, <1>2, <1>5, <1>6, <1>8, <1>9 DEF BehindPlace

IsConcat(e, q, r, N) ==
  /\ e \in Seq(N) /\ Len(e) = Len(q) + Len(r)
  /\ \A i \in 1 .. Len(q) + Len(r) : e[i] = IF i <= Len(q) THEN q[i] ELSE r[i - Len(q)]

LEMMA ConcatIs ==
  ASSUME NEW N, NEW q \in Seq(N), NEW r \in Seq(N)
  PROVE  IsConcat(q \o r, q, r, N)
BY ConcatProperties DEF IsConcat

(* A name in place of the one that leads from above to what is behind.     *)
LEMMA RenamedIs ==
  ASSUME NEW N, NEW d \in Seq(N), NEW a \in 1 .. Len(d), NEW x \in N, NEW e,
         e = Append(AbovePlace(d, a), x) \o BehindPlace(d, a)
  PROVE  e \in Seq(N) /\ IsRenamed(e, d, a, x)
<1>1. PICK l \in Nat : l = Len(d) /\ a \in 1 .. l
  BY LenProperties
<1>2. PICK p, q, r : p = AbovePlace(d, a) /\ q = Append(p, x) /\ r = BehindPlace(d, a)
  OBVIOUS
<1>3. p \in Seq(N) /\ Len(p) = a - 1 /\ \A i \in 1 .. a - 1 : p[i] = d[i]
  BY <1>2, AbovePlaceIs
<1>4. r \in Seq(N) /\ Len(r) = l - a /\ \A i \in 1 .. l - a : r[i] = d[a + i]
  BY <1>1, <1>2, BehindPlaceIs
<1>5. /\ q \in Seq(N) /\ Len(q) = Len(p) + 1
      /\ \A i \in 1 .. Len(p) + 1 : q[i] = IF i <= Len(p) THEN p[i] ELSE x
  BY <1>2, <1>3, AppendProperties
<1>6. Len(q) = a /\ (\A i \in 1 .. a - 1 : q[i] = d[i]) /\ q[a] = x
  <2>1. a \in Nat /\ (a - 1) + 1 = a /\ ~ (a <= a - 1) /\ a \in 1 .. a
    BY <1>1
  <2>2. \A i \in 1 .. a - 1 : i \in 1 .. a /\ i <= a - 1
    BY <1>1
  <2>3. Len(q) = a /\ \A i \in 1 .. a : q[i] = IF i <= a - 1 THEN p[i] ELSE x
    BY <1>3, <1>5, <2>1
  <2> QED
    BY <1>3, <2>1, <2>2, <2>3
<1>7. /\ e \in Seq(N) /\ Len(e) = l
      /\ \A i \in 1 .. l : e[i] = IF i <= a THEN q[i] ELSE r[i - a]
  <2>1. /\ e \in Seq(N) /\ Len(e) = Len(q) + Len(r)
        /\ \A i \in 1 .. Len(q) + Len(r) : e[i] = IF i <= Len(q) THEN q[i] ELSE r[i - Len(q)]
    <3>1. e = q \o r
      BY <1>2
    <3>2. q \in Seq(N) /\ r \in Seq(N)
      BY <1>4, <1>5
    <3>3. IsConcat(e, q, r, N)
      BY <3>1, <3>2, ConcatIs
    <3> QED
      BY <3>3 DEF IsConcat
  <2>2. Len(q) + Len(r) = l
    BY <1>1, <1>4, <1>6
  <2> QED
    BY <1>6, <2>1, <2>2
<1>8. e[a] = x
  BY <1>1, <1>6, <1>7
<1>9. ASSUME NEW i \in 1 .. l, i # a PROVE e[i] = d[i]
  <2>1. CASE i < a
    <3>1. i \in 1 .. a - 1 /\ i <= a
      BY <1>1, <2>1
    <3> QED
      BY <1>6, <1>7, <3>1
  <2>2. CASE i > a
    <3>1. i - a \in 1 .. l - a /\ ~ i <= a /\ a + (i - a) = i
      BY <1>1, <2>2
    <3> QED
      BY <1>4, <1>7, <3>1
  <2>3. i < a \/ i > a
    BY <1>1, <1>9
  <2> QED
    BY <2>1, <2>2, <2>3
<1> QED
  BY <1>1, <1>7, <1>8, <1>9 DEF IsRenamed

(* What is above and behind stays.                                         *)
LEMMA RenamedKeeps ==
  ASSUME NEW N, NEW d \in Seq(N), NEW e \in Seq(N), NEW a \in 1 .. Len(d), NEW x, IsRenamed(e, d, a, x)
  PROVE  AbovePlace(e, a) = AbovePlace(d, a) /\ BehindPlace(e, a) = BehindPlace(d, a)
<1>1. PICK l \in Nat : l = Len(d) /\ a \in 1 .. l
  BY LenProperties
<1>2. Len(e) = l /\ a \in 1 .. Len(e) /\ \A i \in 1 .. l : i # a => e[i] = d[i]
  BY <1>1 DEF IsRenamed
<1>3. PICK p, q, r, s : p = AbovePlace(d, a) /\ q = AbovePlace(e, a) /\ r = BehindPlace(d, a) /\ s = BehindPlace(e, a)
  OBVIOUS
<1>4. p \in Seq(N) /\ Len(p) = a - 1 /\ \A i \in 1 .. a - 1 : p[i] = d[i]
  BY <1>3, AbovePlaceIs
<1>5. q \in Seq(N) /\ Len(q) = a - 1 /\ \A i \in 1 .. a - 1 : q[i] = e[i]
  BY <1>2, <1>3, AbovePlaceIs
<1>6. r \in Seq(N) /\ Len(r) = l - a /\ \A i \in 1 .. l - a : r[i] = d[a + i]
  BY <1>1, <1>3, BehindPlaceIs
<1>7. s \in Seq(N) /\ Len(s) = l - a /\ \A i \in 1 .. l - a : s[i] = e[a + i]
  BY <1>2, <1>3, BehindPlaceIs
<1>8. \A i \in 1 .. a - 1 : i \in 1 .. l /\ i # a
  BY <1>1
<1>9. \A i \in 1 .. l - a : a + i \in 1 .. l /\ a + i # a
  BY <1>1
<1>10. p = q
  <2>1. \A i \in 1 .. Len(p) : p[i] = q[i]
    BY <1>2, <1>4, <1>5, <1>8
  <2> QED
    BY <1>4, <1>5, <2>1, SeqEqual
<1>11. r = s
  <2>1. \A i \in 1 .. Len(r) : r[i] = s[i]
    BY <1>2, <1>6, <1>7, <1>9
  <2> QED
    BY <1>6, <1>7, <2>1, SeqEqual
<1> QED
  BY <1>3, <1>10, <1>11

(* With its own name a directory is itself.                                *)
LEMMA RenamedBack ==
  ASSUME NEW N, NEW d \in Seq(N), NEW a \in 1 .. Len(d)
  PROVE  Append(AbovePlace(d, a), d[a]) \o BehindPlace(d, a) = d
<1>1. PICK e, x : e = Append(AbovePlace(d, a), d[a]) \o BehindPlace(d, a) /\ x = d[a]
  OBVIOUS
<1>2. x \in N
  BY <1>1, ElementOfSeq
<1>3. e \in Seq(N) /\ IsRenamed(e, d, a, x)
  BY <1>1, <1>2, RenamedIs
<1>4. Len(e) = Len(d) /\ \A i \in 1 .. Len(e) : e[i] = d[i]
  BY <1>1, <1>3 DEF IsRenamed
<1>5. e = d
  BY <1>3, <1>4, SeqEqual
<1> QED
  BY <1>1, <1>5

Extensions == SourceExtensions \cup HeaderExtensions

LEMMA PairIs ==
  ASSUME NEW f, NEW r, NEW x, x = <<f, r>>
  PROVE  x[1] = f /\ x[2] = r
OBVIOUS

(* tolower leaves an extension without capitals as it is, and makes one of *)
(* those that have some.                                                   *)
LEMMA LowerIs ==
  /\ \A extension \in Extensions : Lower(extension) = extension
  /\ \A extension \in Capitals : Lower(extension) \in Extensions
<1>1. ASSUME NEW extension \in Extensions PROVE Lower(extension) = extension
  <2>1. extension \in SourceExtensions \/ extension \in HeaderExtensions
    BY DEF Extensions
  <2>2. extension[1] \in {"c", "i", "m", "h", "t"}
    <3>1. \/ \E rest : extension = <<"c", rest>>
          \/ \E rest : extension = <<"i", rest>>
          \/ \E rest : extension = <<"m", rest>>
          \/ \E rest : extension = <<"h", rest>>
          \/ \E rest : extension = <<"t", rest>>
      BY <2>1 DEF SourceExtensions, HeaderExtensions
    <3> QED
      BY <3>1, PairIs
  <2>3. ASSUME NEW x \in Capitals PROVE x[1] = "C" \/ x[1] = "H"
    <3>1. x = <<"C", "">> \/ x = <<"C", "PP">> \/ x = <<"H", "">>
      BY DEF Capitals
    <3>2. CASE x = <<"H", "">>
      BY <3>2, PairIs
    <3>3. CASE x = <<"C", "">>
      BY <3>3, PairIs
    <3>4. CASE x = <<"C", "PP">>
      BY <3>4, PairIs
    <3> QED
      BY <3>1, <3>2, <3>3, <3>4
  <2>4. extension \notin Capitals
    BY <2>2, <2>3
  <2> QED
    BY <2>4 DEF Capitals, Lower
<1>2. ASSUME NEW extension \in Capitals PROVE Lower(extension) \in Extensions
  <2>1. Lower(extension) \in {<<"c", "">>, <<"c", "pp">>, <<"h", "">>}
    BY DEF Capitals, Lower
  <2>2. /\ <<"c", "">> \in SourceExtensions
        /\ <<"c", "pp">> \in SourceExtensions
        /\ <<"h", "">> \in HeaderExtensions
    BY DEF SourceExtensions, HeaderExtensions
  <2> QED
    BY <2>1, <2>2 DEF Extensions
<1> QED
  BY <1>1, <1>2

(* The handler's choice is that for the extension in lower case.           *)
LEMMA TargetOfLower ==
  ASSUME NEW extension \in Extensions \cup Capitals
  PROVE  /\ Lower(extension) \in Extensions
         /\ TargetExtension(extension, AutoExtension, AutoExtension)
              = TargetExtension(Lower(extension), AutoExtension, AutoExtension)
<1>1. PICK lower : lower = Lower(extension)
  OBVIOUS
<1>2. lower \in Extensions /\ Lower(lower) = lower
  BY <1>1, LowerIs
<1> HIDE DEF Extensions
<1> QED
  BY <1>1, <1>2 DEF TargetExtension

(* Where the counterpart of c and something is h and the same, it leads    *)
(* back.                                                                   *)
LEMMA ExtensionComesBack ==
  ASSUME NEW extension \in Extensions, extension[1] = "c", NEW target,
         target = TargetExtension(extension, AutoExtension, AutoExtension), target \in HeaderExtensions
  PROVE  TargetExtension(target, AutoExtension, AutoExtension) = extension
<1>1. extension \in SourceExtensions
  <2>1. ASSUME NEW x \in HeaderExtensions PROVE x[1] # "c"
    <3>1. \/ \E rest \in {"h", "", "p", "pp", "xx", "++"} : x = <<"h", rest>>
          \/ x = <<"t", "cc">> \/ x = <<"t", "xx">>
      BY DEF HeaderExtensions
    <3>2. x[1] = "h" \/ x[1] = "t"
      <4>1. CASE \E rest \in {"h", "", "p", "pp", "xx", "++"} : x = <<"h", rest>>
        <5>1. PICK rest : x = <<"h", rest>>
          BY <4>1
        <5> QED
          BY <5>1, PairIs
      <4>2. CASE x = <<"t", "cc">>
        BY <4>2, PairIs
      <4>3. CASE x = <<"t", "xx">>
        BY <4>3, PairIs
      <4> QED
        BY <3>1, <4>1, <4>2, <4>3
    <3> QED
      BY <3>2
  <2> QED
    BY <2>1 DEF Extensions
<1>2. PICK rest : extension = <<"c", rest>>
  <2>1. \/ \E rest \in {"pp", "", "xx", "c", "++", "p"} : extension = <<"c", rest>>
        \/ extension = <<"i", "i">> \/ extension = <<"i", "">> \/ extension = <<"m", "">>
        \/ extension = <<"m", "i">> \/ extension = <<"m", "m">> \/ extension = <<"m", "ii">>
    BY <1>1 DEF SourceExtensions
  <2>2. (\E rest : extension = <<"c", rest>>) \/ extension[1] = "i" \/ extension[1] = "m"
    BY <2>1, PairIs
  <2> QED
    BY <2>2
<1>3. target = <<"h", rest>>
  <2>1. Lower(extension) = extension
    BY LowerIs
  <2>2. extension[1] = "c" /\ extension[2] = rest
    BY <1>2
  <2> QED
    BY <1>1, <2>1, <2>2 DEF TargetExtension
<1>4. target \notin SourceExtensions
  BY <1>3 DEF SourceExtensions
<1>5. target[1] = "h" /\ target[2] = rest
  BY <1>3
<1>6. Lower(target) = target
  BY LowerIs DEF Extensions
<1> HIDE DEF Extensions
<1> QED
  BY <1>2, <1>4, <1>5, <1>6 DEF TargetExtension

(* The last of the directories for sources becomes the last of those for   *)
(* headers.                                                                *)
LEMMA ReducedOfRenamed ==
  ASSUME NEW N, NEW d \in Seq(N), NEW e \in Seq(N), NEW a \in 1 .. Len(d), NEW x \in SpecialNames(FALSE),
         IsRenamed(e, d, a, x), ToSet(BehindPlace(d, a)) \intersect SpecialNames(FALSE) = {}
  PROVE  Reduced(e, FALSE) = a
<1>1. PICK l \in Nat : l = Len(d) /\ a \in 1 .. l
  BY LenProperties
<1>2. PICK S, r : S = SpecialNames(FALSE) /\ r = BehindPlace(d, a)
  OBVIOUS
<1>3. Len(e) = l /\ e[a] = x /\ \A i \in 1 .. l : i # a => e[i] = d[i]
  BY <1>1 DEF IsRenamed
<1>4. r \in Seq(N) /\ Len(r) = l - a /\ \A i \in 1 .. l - a : r[i] = d[a + i]
  BY <1>1, <1>2, BehindPlaceIs
<1>5. DOMAIN r = 1 .. l - a
  BY <1>4, LenProperties
<1>6. \A i \in 1 .. l - a : r[i] \notin S
  BY <1>2, <1>5 DEF ToSet
<1>7. ASSUME NEW i \in a + 1 .. l PROVE e[i] \notin S
  <2>1. i - a \in 1 .. l - a /\ a + (i - a) = i /\ i # a /\ i \in 1 .. l
    BY <1>1
  <2>2. e[i] = r[i - a]
    BY <1>3, <1>4, <2>1
  <2> QED
    BY <1>6, <2>1, <2>2
<1>8. a \in 0 .. l
  BY <1>1
<1>9. IsLast(a, e, S)
  BY <1>2, <1>3, <1>7, <1>8 DEF IsLast
<1>10. IsLast(Reduced(e, FALSE), e, S)
  BY <1>2, ReducedIsLast
<1> QED
  BY <1>9, <1>10, LastIsOne

(* A file, the directories of its path below one another.                  *)
Files(N, Stems) == [directory : Seq(N), stem : Stems, extension : Extensions \cup Capitals]

(* Where file is moved to.                                                 *)
Moved(file, directory, extension) == [file EXCEPT !.directory = directory, !.extension = extension]

LEMMA MovedBack ==
  ASSUME NEW N, NEW Stems, NEW file \in Files(N, Stems), NEW directory, NEW extension
  PROVE  /\ Moved(file, directory, extension).directory = directory
         /\ Moved(file, directory, extension).extension = extension
         /\ \A other : Moved(Moved(file, directory, extension), file.directory, other)
                         = [file EXCEPT !.extension = other]
BY DEF Moved, Files

Partners(file, isSource, target, exists) == ToggleSourceHeader(file, isSource, target, exists).specialDirPartner

(* file is of sources or of headers, and has a place to be moved to.       *)
HasPlace(file, isSource, d, a) == d = file.directory /\ a = Reduced(d, isSource) /\ a # 0

ArePartners(partners, file, isSource, target, exists, d, a) ==
  partners = {Moved(file, SpecialDir(AbovePlace(d, a), isSource, exists) \o BehindPlace(d, a), target)}

LEMMA PartnersOfSource ==
  ASSUME NEW file, NEW target, NEW exists, NEW d, NEW a, HasPlace(file, TRUE, d, a)
  PROVE  ArePartners(Partners(file, TRUE, target, exists), file, TRUE, target, exists, d, a)
BY DEF HasPlace, ArePartners, Partners, ToggleSourceHeader, AbovePlace, BehindPlace, Moved

LEMMA NoPartnersOfSource ==
  ASSUME NEW file, NEW target, NEW exists, NEW d, d = file.directory, Reduced(d, TRUE) = 0
  PROVE  Partners(file, TRUE, target, exists) = {}
BY DEF Partners, ToggleSourceHeader

LEMMA PartnersOfHeader ==
  ASSUME NEW file, NEW target, NEW exists, NEW d, NEW a, HasPlace(file, FALSE, d, a)
  PROVE  ArePartners(Partners(file, FALSE, target, exists), file, FALSE, target, exists, d, a)
BY DEF HasPlace, ArePartners, Partners, ToggleSourceHeader, AbovePlace, BehindPlace, Moved

(* Whatever else exists, and wherever the file is below however many       *)
(* directories: if it is in the first of the directories for sources that  *)
(* exists, the last of them above it, with none for headers between, and   *)
(* its extension has a counterpart, its partner's partner is the file      *)
(* itself, with its extension in lower case                                *)
(* (Workspace::toggleSourceHeader).                                        *)
THEOREM SourceTogglesBack ==
  ASSUME NEW N, NEW Stems, NEW file \in Files(N, Stems), NEW exists
  PROVE  TogglesBack(file, exists)
<1>1. PICK d, a, target :
        /\ d = file.directory
        /\ a = Reduced(d, TRUE)
        /\ target = TargetExtension(file.extension, AutoExtension, AutoExtension)
  OBVIOUS
<1>2. PICK l \in Nat : l = Len(d)
  <2>1. d \in Seq(N)
    BY <1>1 DEF Files
  <2> QED
    BY <2>1, LenProperties
<1>3. d \in Seq(N) /\ file.extension \in Extensions \cup Capitals
  BY <1>1 DEF Files
<1>4. IsLast(a, d, SpecialNames(TRUE))
  BY <1>1, <1>3, ReducedIsLast
<1>5. a \in 0 .. l
  BY <1>2, <1>4 DEF IsLast
<1>6. PICK p, r, names : p = AbovePlace(d, a) /\ r = BehindPlace(d, a) /\ names = PartnerNames(FALSE)
  OBVIOUS
<1>7. PICK first : first = Partners(file, TRUE, target, exists)
  OBVIOUS
<1>8. PICK back : back = TargetExtension(target, AutoExtension, AutoExtension)
  OBVIOUS
<1>9. SUFFICES ASSUME Lower(file.extension)[1] = "c",
                      \E n \in DOMAIN names :
                        /\ d[a] = names[n]
                        /\ Append(p, names[n]) \in exists
                        /\ \A k \in 1 .. n - 1 : Append(p, names[k]) \notin exists,
                      ToSet(r) \intersect SpecialNames(FALSE) = {},
                      target \in HeaderExtensions,
                      NEW partner \in first
               PROVE  Partners(partner, FALSE, back, exists) = {[file EXCEPT !.extension = Lower(@)]}
  BY <1>1, <1>6, <1>7, <1>8 DEF TogglesBack, AbovePlace, BehindPlace, Partners
<1>10. a \in 1 .. l
  <2>1. a # 0
    BY <1>1, <1>7, <1>9, NoPartnersOfSource
  <2> QED
    BY <1>5, <2>1
<1>11. PICK n \in 1 .. 3 :
         /\ d[a] = names[n]
         /\ Append(p, names[n]) \in exists
         /\ \A k \in 1 .. n - 1 : Append(p, names[k]) \notin exists
  <2>1. DOMAIN names = 1 .. 3
    BY <1>6 DEF PartnerNames
  <2> QED
    BY <1>9, <2>1
<1>12. PICK x \in SpecialNames(FALSE) : SpecialDir(p, TRUE, exists) = Append(p, x)
  BY SpecialDirHasName
<1>13. PICK e : e = Append(p, x) \o r
  OBVIOUS
<1>14. partner = Moved(file, e, target)
  <2>1. a # 0
    BY <1>10
  <2>2. d = file.directory /\ a = Reduced(d, TRUE)
    BY <1>1
  <2>3. Partners(file, TRUE, target, exists) =
          {Moved(file, SpecialDir(AbovePlace(d, a), TRUE, exists) \o BehindPlace(d, a), target)}
    <3>1. HasPlace(file, TRUE, d, a)
      BY <2>1, <2>2 DEF HasPlace
    <3>2. ArePartners(Partners(file, TRUE, target, exists), file, TRUE, target, exists, d, a)
      BY <3>1, PartnersOfSource
    <3> QED
      BY <3>2 DEF ArePartners
  <2>4. first = {Moved(file, Append(p, x) \o r, target)}
    BY <1>6, <1>7, <1>12, <2>3
  <2> QED
    BY <1>9, <1>13, <2>4
<1>15. partner.directory = e /\ \A other : Moved(partner, d, other) = [file EXCEPT !.extension = other]
  BY <1>1, <1>14, MovedBack
<1>16. PICK V : V = N \cup SpecialNames(FALSE)
  OBVIOUS
<1>17. d \in Seq(V) /\ x \in V
  BY <1>3, <1>16, SeqMonotonic
<1>18. e \in Seq(V) /\ IsRenamed(e, d, a, x)
  BY <1>2, <1>6, <1>10, <1>13, <1>17, RenamedIs
<1>19. a \in 1 .. Len(d)
  BY <1>2, <1>10
<1>20. Reduced(e, FALSE) = a
  BY <1>6, <1>9, <1>17, <1>18, <1>19, ReducedOfRenamed
<1>21. AbovePlace(e, a) = p /\ BehindPlace(e, a) = r
  BY <1>6, <1>17, <1>18, <1>19, RenamedKeeps
<1>22. SpecialDir(p, FALSE, exists) = Append(p, d[a])
  BY <1>6, <1>11, SpecialDirIsFirst
<1>23. Append(p, d[a]) \o r = d
  BY <1>6, <1>17, <1>19, RenamedBack
<1>24. back = Lower(file.extension)
  <2>1. PICK lower : lower = Lower(file.extension)
    OBVIOUS
  <2>2. lower \in Extensions /\ target = TargetExtension(lower, AutoExtension, AutoExtension)
    BY <1>1, <1>3, <2>1, TargetOfLower
  <2> QED
    BY <1>8, <1>9, <2>1, <2>2, ExtensionComesBack
<1>25. Partners(partner, FALSE, back, exists) = {Moved(partner, d, back)}
  <2>1. PICK b : b = Reduced(e, FALSE)
    OBVIOUS
  <2>2. b = a
    BY <1>20, <2>1
  <2>3. b # 0
    BY <1>10, <2>2
  <2>4. e = partner.directory
    BY <1>15
  <2>5. Partners(partner, FALSE, back, exists) =
          {Moved(partner, SpecialDir(AbovePlace(e, b), FALSE, exists) \o BehindPlace(e, b), back)}
    <3>1. HasPlace(partner, FALSE, e, b)
      BY <2>1, <2>3, <2>4 DEF HasPlace
    <3>2. ArePartners(Partners(partner, FALSE, back, exists), partner, FALSE, back, exists, e, b)
      BY <3>1, PartnersOfHeader
    <3> QED
      BY <3>2 DEF ArePartners
  <2>6. Partners(partner, FALSE, back, exists) =
          {Moved(partner, SpecialDir(p, FALSE, exists) \o r, back)}
    BY <1>21, <2>2, <2>5
  <2> QED
    BY <1>22, <1>23, <2>6
<1> QED
  BY <1>15, <1>24, <1>25

(* The file that is given is a file.                                       *)
FileGiven == input.of = "file" => \E N, Stems : input.file \in Files(N, Stems)

LEMMA TakenFile == TakeFile => FileGiven'
<1> SUFFICES ASSUME TakeFile PROVE FileGiven'
  OBVIOUS
<1>1. PICK special \in {"source", "src", "sources"}, rest \in UpTo({"a", "src", "include"}, 2),
           extension \in SourceExtensions \cup HeaderExtensions \cup Capitals :
        input'.file = [directory |-> <<"ws", special>> \o rest, stem |-> "f", extension |-> extension]
  <2>1. PICK special \in {"source", "src", "sources"}, rest \in UpTo({"a", "src", "include"}, 2) :
          \E there \in SUBSET {"source", "src", "sources", "include", "headers"} :
            \E extension \in SourceExtensions \cup HeaderExtensions \cup Capitals :
              /\ special \in there
              /\ input' = [of |-> "file",
                   file |-> [directory |-> <<"ws", special>> \o rest, stem |-> "f", extension |-> extension],
                   exists |-> {<<"ws", name>> : name \in there}
                                \cup {<<"ws", special>> \o SubSeq(rest, 1, n) : n \in DOMAIN rest}]
    BY DEF TakeFile
  <2>2. PICK there \in SUBSET {"source", "src", "sources", "include", "headers"},
             extension \in SourceExtensions \cup HeaderExtensions \cup Capitals :
          input' = [of |-> "file",
             file |-> [directory |-> <<"ws", special>> \o rest, stem |-> "f", extension |-> extension],
             exists |-> {<<"ws", name>> : name \in there}
                          \cup {<<"ws", special>> \o SubSeq(rest, 1, n) : n \in DOMAIN rest}]
    BY <2>1
  <2>3. PICK file, exists :
          /\ file = [directory |-> <<"ws", special>> \o rest, stem |-> "f", extension |-> extension]
          /\ exists = {<<"ws", name>> : name \in there}
                          \cup {<<"ws", special>> \o SubSeq(rest, 1, n) : n \in DOMAIN rest}
    OBVIOUS
  <2>4. input' = [of |-> "file", file |-> file, exists |-> exists]
    BY <2>2, <2>3
  <2>5. input'.file = file
    BY <2>4
  <2> QED
    BY <2>3, <2>5
<1>2. PICK N : N = {"ws", "source", "src", "sources", "a", "include"}
  OBVIOUS
<1>3. rest \in Seq(N)
  <2>1. {"a", "src", "include"} \subseteq N
    BY <1>2
  <2> QED
    BY <2>1, UpToAreSequences
<1>4. PICK above, directory : above = <<"ws", special>> /\ directory = above \o rest
  OBVIOUS
<1>5. above \in Seq(N)
  <2>1. "ws" \in N /\ special \in N
    BY <1>2
  <2> QED
    BY <1>4, <2>1
<1>6. directory \in Seq(N)
  BY <1>3, <1>4, <1>5, ConcatProperties
<1>7. extension \in Extensions \cup Capitals
  BY DEF Extensions
<1>8. PICK Stems : Stems = {"f"}
  OBVIOUS
<1>9. input'.file \in Files(N, Stems)
  BY <1>1, <1>4, <1>6, <1>7, <1>8 DEF Files
<1> QED
  BY <1>9 DEF FileGiven

LEMMA FileGivenNext == FileGiven /\ [Next]_input => FileGiven'
<1> SUFFICES ASSUME FileGiven, [Next]_input PROVE FileGiven'
  OBVIOUS
<1>1. CASE TakeFile
  BY <1>1, TakenFile
<1>2. CASE TakeFrames \/ TakeTree \/ TakeStarts \/ TakeEnvirons \/ TakePath
  <2>1. CASE TakeFrames
    <3>1. input'.of = "frames"
      BY <2>1 DEF TakeFrames
    <3> QED
      BY <3>1 DEF FileGiven
  <2>2. CASE TakeTree
    <3>1. input'.of = "tree"
      BY <2>2 DEF TakeTree
    <3> QED
      BY <3>1 DEF FileGiven
  <2>3. CASE TakeStarts
    <3>1. input'.of = "starts"
      BY <2>3 DEF TakeStarts
    <3> QED
      BY <3>1 DEF FileGiven
  <2>4. CASE TakeEnvirons
    <3>1. input'.of = "environs"
      BY <2>4 DEF TakeEnvirons
    <3> QED
      BY <3>1 DEF FileGiven
  <2>5. CASE TakePath
    <3>1. input'.of = "path"
      BY <2>5 DEF TakePath
    <3> QED
      BY <3>1 DEF FileGiven
  <2> QED
    BY <1>2, <2>1, <2>2, <2>3, <2>4, <2>5
<1>3. CASE UNCHANGED input
  BY <1>3 DEF FileGiven
<1> QED
  BY <1>1, <1>2, <1>3 DEF Next

LEMMA FileGivenToggles == FileGiven => ToggleComesBack
<1> SUFFICES ASSUME FileGiven, input.of = "file" PROVE TogglesBack(input.file, input.exists)
  BY DEF ToggleComesBack
<1>1. PICK N, Stems : input.file \in Files(N, Stems)
  BY DEF FileGiven
<1>2. PICK file, exists : file = input.file /\ exists = input.exists
  OBVIOUS
<1>3. TogglesBack(file, exists)
  BY <1>1, <1>2, SourceTogglesBack
<1> QED
  BY <1>2, <1>3

(* From a source file to its partner and back leads to the file, with its  *)
(* extension in lower case (toggleSourceHeader).                           *)
THEOREM ToggleComesBackCorrect == Spec => []ToggleComesBack
<1>1. Init => FileGiven
  BY DEF Init, None, FileGiven
<1>2. FileGiven /\ [Next]_input => FileGiven'
  BY FileGivenNext
<1>3. FileGiven => ToggleComesBack
  BY FileGivenToggles
<1> QED
  BY <1>1, <1>2, <1>3, PTL DEF Spec
=============================================================================
