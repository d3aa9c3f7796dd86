-------------------------------- MODULE Iteration --------------------------------
(***************************************************************************)
(* Induction over the naturals in terms of sets, and what it says about a  *)
(* function defined by iterating another: the loops of the kernel are      *)
(* modelled by such functions.                                             *)
(***************************************************************************)
EXTENDS Integers, WellFoundedInduction, TLAPS

\* A nonempty set of naturals has a least element.
LEMMA LeastNatural ==
  ASSUME NEW T \in SUBSET Nat, T # {}
  PROVE  \E x \in T : \A y \in T : x <= y
<1> DEFINE R == {ss \in Nat \X Nat : ss[1] < ss[2]}
<1>1. IsWellFoundedOn(R, Nat)
  BY NatLessThanWellFounded, Zenon DEF OpToRel
<1>2. PICK x \in T : \A y \in T : ~ (<<y, x>> \in R)
  BY <1>1, WFMin, Zenon
<1>3. ASSUME NEW y \in T PROVE x <= y
  <2>1. <<y, x>> \in Nat \X Nat /\ ~ (<<y, x>> \in R)
    BY <1>2
  <2>2. ~ (<<y, x>>[1] < <<y, x>>[2])
    BY <2>1, Zenon
  <2> QED
    BY <2>2
<1> QED
  BY <1>3

\* A set of naturals that holds 0 and the successor of each of its members is Nat.
LEMMA SetInduction ==
  ASSUME NEW P \in SUBSET Nat, 0 \in P, \A n \in P : n + 1 \in P
  PROVE  P = Nat
<1>1. SUFFICES ASSUME Nat \ P # {} PROVE FALSE
  OBVIOUS
<1>2. PICK x \in Nat \ P : \A y \in Nat \ P : x <= y
  BY <1>1, LeastNatural
<1>3. x # 0 /\ x - 1 \in P
  BY <1>2
<1> QED
  BY <1>2, <1>3

\* The same up to a bound m.
LEMMA BoundedInduction ==
  ASSUME NEW m \in Nat, NEW P, 0 \in P,
         \A n \in 0 .. m - 1 : n \in P => n + 1 \in P
  PROVE  0 .. m \subseteq P
<1> DEFINE Q == {n \in Nat : n <= m => n \in P}
<1>1. 0 \in Q /\ \A n \in Q : n + 1 \in Q
  OBVIOUS
<1>2. Q = Nat
  <2> HIDE DEF Q
  <2>1. Q \in SUBSET Nat
    BY DEF Q
  <2> QED
    BY <1>1, <2>1, SetInduction
<1> QED
  BY <1>2

\* f iterates g from s, m times, within S.
IsIteration(f, S, g, s, m) ==
  /\ f \in [0 .. m -> S]
  /\ f[0] = s
  /\ \A k \in 1 .. m : f[k] = g[f[k - 1]]

\* Such a function exists.
LEMMA IterationExists ==
  ASSUME NEW S, NEW g \in [S -> S], NEW s \in S, NEW m \in Nat
  PROVE  \E f : IsIteration(f, S, g, s, m)
<1> DEFINE Q(n) == \E f : IsIteration(f, S, g, s, n)
           P == {n \in Nat : Q(n)}
<1>1. 0 \in P
  <2> DEFINE f == [k \in 0 .. 0 |-> s]
  <2>1. f \in [0 .. 0 -> S] /\ f[0] = s /\ \A k \in 1 .. 0 : f[k] = g[f[k - 1]]
    OBVIOUS
  <2> HIDE DEF f
  <2> QED
    BY <2>1 DEF IsIteration
<1>2. ASSUME NEW n \in P PROVE n + 1 \in P
  <2>1. PICK f : IsIteration(f, S, g, s, n)
    OBVIOUS
  <2>2. n \in Nat
    OBVIOUS
  <2> DEFINE h == [k \in 0 .. n + 1 |-> IF k <= n THEN f[k] ELSE g[f[n]]]
  <2>3. h \in [0 .. n + 1 -> S]
    BY <2>1, <2>2 DEF IsIteration
  <2>4. h[0] = s /\ \A k \in 1 .. n + 1 : h[k] = g[h[k - 1]]
    BY <2>1, <2>2 DEF IsIteration
  <2>5. Q(n + 1)
    <3> HIDE DEF h
    <3> QED
      BY <2>3, <2>4 DEF IsIteration
  <2> HIDE DEF Q
  <2> QED
    BY <2>2, <2>5
<1>3. P = Nat
  <2> HIDE DEF P
  <2>1. P \in SUBSET Nat
    BY DEF P
  <2> QED
    BY <1>1, <1>2, <2>1, SetInduction
<1> QED
  BY <1>3
=================================================================================
