----------------------------- MODULE FoldProofs -----------------------------
(***************************************************************************)
(* Loops over a list.  The model writes the loops of the code as folds     *)
(* (FoldLeft of SequencesExt), which the library defines by recursion over *)
(* the sets of positions.  Here is what a fold is for every list: the last *)
(* value of a run, one value per turn of the loop.                         *)
(*                                                                         *)
(* A module that reasons about a loop instantiates this one: Base(c) is    *)
(* what the loop starts from, Step(c, v, x) one turn of it on x, and c is  *)
(* what the turns read and do not change.  The provers cannot instantiate  *)
(* an operator in a lemma, but an instance of a module is expanded before  *)
(* they see it.                                                            *)
(***************************************************************************)
EXTENDS Integers, Sequences, WellFoundedInduction, TLAPS

CONSTANTS Base(_), Step(_, _, _)

Largest(z) == CHOOSE x \in z : \A y \in z : x >= y

(* The equation of the recursion over the sets of positions of s in D.     *)
Solves(c, s, D, f) ==
  f = [z \in SUBSET D |->
         IF z = {} THEN Base(c)
         ELSE Step(c, f[z \ {Largest(z)}], s[Largest(z)])]

Folded(c, s) == (CHOOSE f : Solves(c, s, DOMAIN s, f))[DOMAIN s]

(* r has the value of the loop before its first turn and after each one.   *)
IsRun(c, s, r) ==
  /\ r = [k \in 0 .. Len(s) |-> r[k]]
  /\ r[0] = Base(c)
  /\ \A k \in 1 .. Len(s) : r[k] = Step(c, r[k - 1], s[k])

(* Induction up to n, for a set: the least number that is not in it is no  *)
(* successor.                                                              *)
LEMMA CountUp ==
  ASSUME NEW n \in Nat, NEW S, 0 \in S,
         \A k \in 0 .. n - 1 : k \in S => k + 1 \in S
  PROVE  0 .. n \subseteq S
<1> DEFINE Bad == {k \in 0 .. n : k \notin S}
<1> SUFFICES ASSUME Bad # {} PROVE FALSE
  OBVIOUS
<1>1. Bad \in SUBSET Nat
  OBVIOUS
<1>2. PICK m \in Bad : \A k \in Bad : ~(<<k, m>> \in OpToRel(<, Nat))
  <2> HIDE DEF Bad
  <2> QED BY <1>1, NatLessThanWellFounded, WFMin
<1>3. m \in 1 .. n /\ m - 1 \in 0 .. n - 1
  OBVIOUS
<1>4. \A k \in Bad : ~(k < m)
  <2> HIDE DEF Bad
  <2> QED BY <1>1, <1>2 DEF OpToRel
<1> QED BY <1>3, <1>4

(* A set of positions that is not empty has a largest one.                 *)
LEMMA LargestIn ==
  ASSUME NEW n \in Nat, NEW z \in SUBSET (1 .. n), z # {}
  PROVE  Largest(z) \in z /\ \A y \in z : Largest(z) >= y
<1> DEFINE S == {k \in 0 .. n : \A w \in SUBSET (1 .. k) : w # {} =>
                                  \E x \in w : \A y \in w : x >= y}
<1>1. 0 \in S
  <2>1. \A w \in SUBSET (1 .. 0) : w = {}
    OBVIOUS
  <2>2. 0 \in 0 .. n
    OBVIOUS
  <2> QED BY <2>1, <2>2
<1>2. ASSUME NEW k \in 0 .. n - 1, k \in S PROVE k + 1 \in S
  <2> SUFFICES ASSUME NEW w \in SUBSET (1 .. k + 1), w # {}
               PROVE  \E x \in w : \A y \in w : x >= y
    OBVIOUS
  <2>1. CASE k + 1 \in w
    BY <2>1
  <2>2. CASE k + 1 \notin w
    <3>1. w \in SUBSET (1 .. k)
      BY <2>2
    <3> QED BY <1>2, <3>1
  <2> QED BY <2>1, <2>2
<1>3. n \in S
  <2> HIDE DEF S
  <2> QED BY <1>1, <1>2, CountUp
<1>4. \E x \in z : \A y \in z : x >= y
  BY <1>3
<1> QED BY <1>4 DEF Largest

(* The recursion is well defined: a solution for the positions up to k is  *)
(* continued to k + 1, which is the largest one of the sets that have it.  *)
LEMMA SolutionExists ==
  ASSUME NEW c, NEW s, NEW n \in Nat
  PROVE  \E f : Solves(c, s, 1 .. n, f)
<1> DEFINE S == {k \in 0 .. n : \E f : Solves(c, s, 1 .. k, f)}
<1>1. 0 \in S
  <2> DEFINE f == [z \in SUBSET (1 .. 0) |-> Base(c)]
  <2>1. \A z \in SUBSET (1 .. 0) : z = {}
    OBVIOUS
  <2>2. Solves(c, s, 1 .. 0, f)
    BY <2>1 DEF Solves
  <2> QED BY <2>2
<1>2. ASSUME NEW k \in 0 .. n - 1, k \in S PROVE k + 1 \in S
  <2>1. PICK f : Solves(c, s, 1 .. k, f)
    BY <1>2
  <2> DEFINE g == [z \in SUBSET (1 .. k + 1) |->
                     IF k + 1 \in z THEN Step(c, f[z \ {k + 1}], s[k + 1]) ELSE f[z]]
  <2>2. ASSUME NEW z \in SUBSET (1 .. k + 1), z # {}
        PROVE  g[z] = Step(c, g[z \ {Largest(z)}], s[Largest(z)])
    <3>1. Largest(z) \in z /\ \A y \in z : Largest(z) >= y
      BY <2>2, LargestIn, k + 1 \in Nat
    <3>2. CASE k + 1 \in z
      <4>1. Largest(z) = k + 1
        <5>1. Largest(z) \in 1 .. k + 1 /\ Largest(z) >= k + 1
          BY <3>1, <3>2
        <5> HIDE DEF g
        <5> QED BY <5>1
      <4>2. z \ {k + 1} \in SUBSET (1 .. k) /\ k + 1 \notin z \ {k + 1}
        OBVIOUS
      <4>3. g[z \ {k + 1}] = f[z \ {k + 1}]
        BY <4>2
      <4> QED BY <3>2, <4>1, <4>3
    <3>3. CASE k + 1 \notin z
      <4>1. z \in SUBSET (1 .. k) /\ z \ {Largest(z)} \in SUBSET (1 .. k)
        <5>1. \A x \in 1 .. k + 1 : x # k + 1 => x \in 1 .. k
          OBVIOUS
        <5> HIDE DEF g
        <5> QED BY <3>3, <5>1
      <4>2. f[z] = Step(c, f[z \ {Largest(z)}], s[Largest(z)])
        BY <2>1, <2>2, <4>1 DEF Solves
      <4>3. g[z] = f[z] /\ g[z \ {Largest(z)}] = f[z \ {Largest(z)}]
        BY <3>3, <4>1
      <4> QED BY <4>2, <4>3
    <3> QED BY <3>2, <3>3
  <2>3. g[{}] = Base(c)
    BY <2>1 DEF Solves
  <2>4. g = [z \in SUBSET (1 .. k + 1) |-> g[z]]
    OBVIOUS
  <2> HIDE DEF g
  <2>5. Solves(c, s, 1 .. k + 1, g)
    BY <2>2, <2>3, <2>4 DEF Solves
  <2> QED BY <2>5
<1>3. n \in S
  <2> HIDE DEF S
  <2> QED BY <1>1, <1>2, CountUp
<1> QED BY <1>3

(* A fold over a list is the last value of a run.                          *)
THEOREM FoldRun ==
  ASSUME NEW c, NEW T, NEW s \in Seq(T)
  PROVE  \E r : IsRun(c, s, r) /\ Folded(c, s) = r[Len(s)]
<1> DEFINE n == Len(s)
           f == CHOOSE g : Solves(c, s, DOMAIN s, g)
           r == [k \in 0 .. n |-> f[1 .. k]]
<1>1. n \in Nat /\ DOMAIN s = 1 .. n
  OBVIOUS
<1>2. Solves(c, s, 1 .. n, f)
  BY <1>1, SolutionExists
<1> HIDE DEF f
<1>3. r[0] = Base(c)
  BY <1>1, <1>2, 1 .. 0 = {} DEF Solves
<1>4. ASSUME NEW k \in 1 .. n PROVE r[k] = Step(c, r[k - 1], s[k])
  <2>1. 1 .. k \in SUBSET (1 .. n) /\ 1 .. k # {} /\ k - 1 \in 0 .. n
    <3>1. \A x \in 1 .. k : x \in 1 .. n
      BY <1>1
    <3>2. 1 \in 1 .. k /\ k - 1 \in 0 .. n
      BY <1>1
    <3> QED BY <3>1, <3>2
  <2>2. Largest(1 .. k) = k
    <3>1. Largest(1 .. k) \in 1 .. k /\ \A y \in 1 .. k : Largest(1 .. k) >= y
      BY <2>1, LargestIn, k \in Nat
    <3> QED BY <3>1
  <2>3. (1 .. k) \ {k} = 1 .. k - 1
    BY <1>1
  <2>4. f[1 .. k] = Step(c, f[1 .. k - 1], s[k])
    BY <1>2, <2>1, <2>2, <2>3 DEF Solves
  <2> QED BY <2>1, <2>4, <1>1
<1>5. IsRun(c, s, r)
  BY <1>3, <1>4 DEF IsRun
<1>6. Folded(c, s) = r[n]
  BY <1>1 DEF Folded, f
<1> QED BY <1>5, <1>6
=============================================================================
