------------------------------ MODULE Recursion ------------------------------
(***************************************************************************)
(* Induction, and functions defined by recursion, on a set whose members   *)
(* have a rank.                                                            *)
(*                                                                         *)
(* TLA+ defines f[x \in S] == e as some function that satisfies the        *)
(* equation, if there is one.  There is one if e depends on f at members   *)
(* of S of a smaller rank only.  A definition with parameters p instances  *)
(* this module with its own S, Rank and Def and cites theorem Recursion.   *)
(***************************************************************************)
EXTENDS Integers, WellFoundedInduction, TLAPS

CONSTANTS
    S(_),         \* S(p): where f is defined, given the parameters p
    Rank(_, _),   \* Rank(p, x)
    Def(_, _, _)  \* Def(p, f, x): what f[x] is

Ranked(p) == \A x \in S(p) : Rank(p, x) \in Nat

Defines(p, f) == f = [x \in S(p) |-> Def(p, f, x)]

(* Def(p, f, x) is fixed by what f is at lower ranks. *)
Descends(p) ==
    \A g, h : \A x \in S(p) :
        (\A y \in S(p) : Rank(p, y) < Rank(p, x) => g[y] = h[y])
            => Def(p, g, x) = Def(p, h, x)

---------------------------------------------------------------------------
(* A set of numbers has a least one. *)
LEMMA LeastNumber ==
    ASSUME NEW N \in SUBSET Nat, N # {}
    PROVE  \E n \in N : \A m \in N : n <= m
<1> DEFINE lt == OpToRel(<, Nat)
<1>1. IsWellFoundedOn(lt, Nat)
  BY NatLessThanWellFounded
<1>2. \E n \in N : \A m \in N : ~(<<m, n>> \in lt)
  <2> HIDE DEF lt
  <2> QED BY <1>1, WFMin
<1>3. PICK n \in N : \A m \in N : ~(<<m, n>> \in lt)
  BY <1>2
<1>4. ASSUME NEW m \in N
      PROVE  n <= m
  <2>1. ~(m < n)
    BY <1>3 DEF OpToRel
  <2> QED BY <2>1
<1> QED BY <1>4

(* A set with 0 that has the successor of each of its members has them all. *)
THEOREM Induction ==
    ASSUME NEW N \in SUBSET Nat, 0 \in N, \A n \in N : n + 1 \in N
    PROVE  N = Nat
<1> SUFFICES ASSUME Nat \ N # {} PROVE FALSE
  OBVIOUS
<1>1. PICK x \in Nat \ N : \A y \in Nat \ N : x <= y
  BY LeastNumber
<1>2. x \in Nat /\ x \notin N /\ x - 1 \in Nat
  BY <1>1
<1>3. x - 1 \in N
  BY <1>1, <1>2
<1> QED BY <1>2, <1>3

(* Of the members with a property there is one of least rank: a claim that *)
(* passes from lower ranks to the next holds of every member.              *)
THEOREM LeastRank ==
    ASSUME NEW p, Ranked(p), NEW T \in SUBSET S(p), T # {}
    PROVE  \E x \in T : \A y \in T : Rank(p, x) <= Rank(p, y)
<1> DEFINE R == {Rank(p, x) : x \in T}
<1>1. R \in SUBSET Nat /\ R # {}
  BY DEF Ranked
<1>2. PICK n \in R : \A m \in R : n <= m
  <2> HIDE DEF R
  <2> QED BY <1>1, LeastNumber
<1> QED BY <1>2

---------------------------------------------------------------------------
Below(p, n) == {x \in S(p) : Rank(p, x) < n}

(* f satisfies the equation at ranks below n. *)
Solves(p, f, n) == f = [x \in Below(p, n) |-> Def(p, f, x)]

LEMMA SolutionsAgree ==
    ASSUME NEW p, Ranked(p), Descends(p), NEW m \in Nat, NEW n \in Nat, m <= n,
           NEW f, NEW g, Solves(p, f, m), Solves(p, g, n)
    PROVE  \A x \in Below(p, m) : f[x] = g[x]
<1> DEFINE T == {x \in Below(p, m) : f[x] # g[x]}
<1> SUFFICES ASSUME T # {} PROVE FALSE
  OBVIOUS
<1>1. T \in SUBSET S(p)
  BY DEF Below
<1>2. PICK x \in T : \A y \in T : Rank(p, x) <= Rank(p, y)
  <2> HIDE DEF T
  <2> QED BY <1>1, LeastRank
<1>3. \A y \in S(p) : Rank(p, y) < Rank(p, x) => f[y] = g[y]
  BY <1>2 DEF Below, Ranked
<1>4. Def(p, f, x) = Def(p, g, x)
  BY <1>1, <1>2, <1>3 DEF Descends
<1>5. f[x] = Def(p, f, x) /\ g[x] = Def(p, g, x)
  BY <1>2 DEF Solves, Below, Ranked
<1> QED BY <1>2, <1>4, <1>5

LEMMA SolutionsExist ==
    ASSUME NEW p, Ranked(p), Descends(p)
    PROVE  \A n \in Nat : \E f : Solves(p, f, n)
<1> DEFINE N == {n \in Nat : \E f : Solves(p, f, n)}
<1>1. 0 \in N
  <2>1. Below(p, 0) = {}
    BY DEF Below, Ranked
  <2>2. Solves(p, [x \in Below(p, 0) |-> Def(p, <<>>, x)], 0)
    BY <2>1 DEF Solves
  <2> QED BY <2>2
<1>2. ASSUME NEW n \in N
      PROVE  n + 1 \in N
  <2> PICK f : Solves(p, f, n)
    BY <1>2
  <2> DEFINE g == [x \in Below(p, n + 1) |-> Def(p, f, x)]
  <2>1. ASSUME NEW x \in Below(p, n + 1)
        PROVE  Def(p, f, x) = Def(p, g, x)
    <3>1. \A y \in S(p) : Rank(p, y) < Rank(p, x) => g[y] = f[y]
      BY <2>1, <1>2 DEF Solves, Below, Ranked
    <3> QED BY <3>1 DEF Descends, Below
  <2>2. Solves(p, g, n + 1)
    BY <2>1 DEF Solves
  <2> QED BY <2>2, <1>2
<1>3. N \in SUBSET Nat
  OBVIOUS
<1>4. N = Nat
  <2> HIDE DEF N
  <2> QED BY <1>1, <1>2, <1>3, Induction
<1> QED BY <1>4

(* A function defined by recursion satisfies its equation. *)
THEOREM Recursion ==
    ASSUME NEW p, Ranked(p), Descends(p), NEW f, f = CHOOSE g : Defines(p, g)
    PROVE  Defines(p, f)
<1> DEFINE at(n) == CHOOSE g : Solves(p, g, n)
           F == [x \in S(p) |-> Def(p, at(Rank(p, x)), x)]
<1>1. \A n \in Nat : Solves(p, at(n), n)
  BY SolutionsExist
<1> HIDE DEF at
<1>2. ASSUME NEW x \in S(p)
      PROVE  Def(p, at(Rank(p, x)), x) = Def(p, F, x)
  <2>1. ASSUME NEW y \in S(p), Rank(p, y) < Rank(p, x)
        PROVE  at(Rank(p, x))[y] = F[y]
    <3> DEFINE m == Rank(p, y)
               n == Rank(p, x)
    <3>1. y \in Below(p, n) /\ n \in Nat /\ m \in Nat
      BY <2>1 DEF Below, Ranked
    <3>2. at(n)[y] = Def(p, at(n), y)
      BY <1>1, <3>1 DEF Solves
    <3>3. \A z \in S(p) : Rank(p, z) < m => at(n)[z] = at(m)[z]
      <4>1. \A z \in Below(p, m) : at(m)[z] = at(n)[z]
        BY <1>1, <2>1, <3>1, SolutionsAgree
      <4> QED BY <4>1 DEF Below
    <3>4. Def(p, at(n), y) = Def(p, at(m), y)
      BY <3>3 DEF Descends
    <3> QED BY <3>2, <3>4
  <2> QED BY <2>1 DEF Descends
<1>3. Defines(p, F)
  BY <1>2 DEF Defines
<1> QED BY <1>3 DEF Defines
=============================================================================
