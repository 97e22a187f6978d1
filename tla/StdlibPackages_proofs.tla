----------------------- MODULE StdlibPackages_proofs -----------------------
(***************************************************************************)
(* A machine runs the packages of the standard library one by one, and     *)
(* each needs those it imports to be there: the order in which they are    *)
(* loaded provides for that, whatever the tree of packages, its cycles and *)
(* its gaps.                                                               *)
(***************************************************************************)
EXTENDS StdlibPackages, SequenceTheorems, FiniteSetTheorems, TLAPS

(* The packages that others need. *)
LEMMA NeededAreClosed ==
    ASSUME imports \in [Package -> SUBSET Package],
           NEW paths \in SUBSET Package
    PROVE  /\ Needed(paths) \in SUBSET Package
           /\ paths \subseteq Needed(paths)
           /\ Closed(Needed(paths))
BY DEF Needed, Closed

LEMMA NeededAreLeast ==
    ASSUME NEW all \in SUBSET Package, Closed(all),
           NEW paths \in SUBSET all
    PROVE  Needed(paths) \subseteq all
BY DEF Needed

LEMMA ClosedLoaded ==
    ASSUME NEW order \in Seq(Package), InOrder(order), NEW n \in 0..Len(order)
    PROVE  Closed({order[i] : i \in 1..n})
BY DEF InOrder, Closed

(* Packages in an order without cycles are not part of one. *)
LEMMA OrderIsAcyclic ==
    ASSUME imports \in [Package -> SUBSET Package],
           NEW order \in Seq(Package), InOrder(order), Distinct(order)
    PROVE  \A p \in ToSet(order) : ~Cyclic(p)
<1>0. DOMAIN order = 1..Len(order)
  OBVIOUS
<1> SUFFICES ASSUME NEW i \in 1..Len(order), NEW q \in imports[order[i]],
                    order[i] \in Needed({q})
             PROVE  FALSE
  BY <1>0 DEF Cyclic, ToSet
<1> DEFINE before == {order[j] : j \in 1..(i - 1)}
<1>1. q \in before /\ before \in SUBSET Package
  BY DEF InOrder
<1>2. Closed(before)
  <2>1. i - 1 \in 0..Len(order)
    OBVIOUS
  <2> QED BY <2>1, ClosedLoaded
<1>3. Needed({q}) \subseteq before
  <2> HIDE DEF before
  <2> QED BY <1>1, <1>2, NeededAreLeast
<1>4. PICK j \in 1..(i - 1) : order[i] = order[j]
  BY <1>3
<1> QED BY <1>4 DEF Distinct

---------------------------------------------------------------------------
(* The members of an order that are in a set. *)
KeptUpTo(p) == 0..Len(p.order)
Position(p, n) == n
KeptAt(p, kept, n) ==
    IF n = 0 THEN <<>>
    ELSE IF p.order[n] \in p.paths THEN Append(kept[n - 1], p.order[n])
    ELSE kept[n - 1]

Keeping == INSTANCE Recursion WITH S <- KeptUpTo, Rank <- Position, Def <- KeptAt

LEMMA KeptByRecursion ==
    ASSUME NEW order \in Seq(Package), NEW paths
    PROVE  \E kept :
              /\ kept[0] = <<>>
              /\ \A n \in 1..Len(order) :
                    kept[n] = IF order[n] \in paths
                              THEN Append(kept[n - 1], order[n])
                              ELSE kept[n - 1]
              /\ Kept(order, paths) = kept[Len(order)]
<1> DEFINE p == [order |-> order, paths |-> paths]
           f == CHOOSE g : g = [n \in 0..Len(order) |-> KeptAt(p, g, n)]
<1>1. Keeping!Ranked(p)
  BY DEF Keeping!Ranked, Position, KeptUpTo
<1>2. Keeping!Descends(p)
  BY DEF Keeping!Descends, KeptAt, Position, KeptUpTo
<1>3. f = CHOOSE g : Keeping!Defines(p, g)
  BY DEF Keeping!Defines, KeptUpTo
<1>4. Keeping!Defines(p, f)
  <2> HIDE DEF f
  <2> QED BY <1>1, <1>2, <1>3, Keeping!Recursion
<1>5. f = [n \in 0..Len(order) |-> KeptAt(p, f, n)]
  BY <1>4 DEF Keeping!Defines, KeptUpTo
<1>6. Kept(order, paths) = f[Len(order)]
  BY DEF Kept, KeptAt
<1> HIDE DEF f
<1>7. \A n \in 0..Len(order) : f[n] = KeptAt(p, f, n)
  BY <1>5
<1>8. f[0] = <<>>
  <2>1. 0 \in 0..Len(order)
    OBVIOUS
  <2> QED BY <1>7, <2>1 DEF KeptAt
<1>9. ASSUME NEW n \in 1..Len(order)
      PROVE  f[n] = IF order[n] \in paths
                    THEN Append(f[n - 1], order[n]) ELSE f[n - 1]
  <2>1. n \in 0..Len(order) /\ n # 0
    OBVIOUS
  <2> QED BY <1>7, <2>1 DEF KeptAt
<1> QED BY <1>6, <1>8, <1>9

(* What is kept comes from a part of the order, and in its order. *)
KeptFrom(kept, part, order, paths) ==
    /\ kept \in Seq(Package)
    /\ ToSet(kept) = {order[i] : i \in part} \cap paths
    /\ Distinct(order) => Distinct(kept)
    /\ InOrder(order) /\ Closed(paths) => InOrder(kept)

LEMMA AppendKept ==
    ASSUME NEW order \in Seq(Package), NEW paths, NEW n \in 1..Len(order),
           NEW kept, KeptFrom(kept, 1..(n - 1), order, paths),
           order[n] \in paths
    PROVE  KeptFrom(Append(kept, order[n]), 1..n, order, paths)
<1> DEFINE q == order[n]
           more == Append(kept, q)
           before == {order[i] : i \in 1..(n - 1)}
<1>1. q \in Package /\ kept \in Seq(Package) /\ ToSet(kept) = before \cap paths
  BY DEF KeptFrom
<1>2. /\ more \in Seq(Package)
      /\ Len(more) = Len(kept) + 1
      /\ \A i \in 1..Len(kept) : more[i] = kept[i]
      /\ more[Len(kept) + 1] = q
  <2> HIDE DEF q
  <2> QED BY <1>1, AppendProperties
<1>3. DOMAIN kept = 1..Len(kept) /\ DOMAIN more = 1..(Len(kept) + 1)
      /\ Len(kept) \in Nat
  BY <1>1, <1>2
<1>4. ToSet(more) = ToSet(kept) \cup {q}
  <2> HIDE DEF more, q
  <2> QED BY <1>2, <1>3 DEF ToSet
<1>5. {order[i] : i \in 1..n} = before \cup {q}
  <2>1. \A i \in 1..n : i = n \/ i \in 1..(n - 1)
    OBVIOUS
  <2>2. n \in 1..n /\ \A i \in 1..(n - 1) : i \in 1..n
    OBVIOUS
  <2> QED BY <2>1, <2>2
<1>6. Distinct(order) => Distinct(more)
  <2> SUFFICES ASSUME Distinct(order),
                      NEW i \in 1..(Len(kept) + 1), NEW j \in 1..(Len(kept) + 1),
                      more[i] = more[j]
               PROVE  i = j
    BY <1>3 DEF Distinct
  <2>1. q \notin ToSet(kept)
    BY <1>1 DEF Distinct
  <2>2. \A k \in 1..Len(kept) : kept[k] # q
    BY <1>3, <2>1 DEF ToSet
  <2>3. \A k, l \in 1..Len(kept) : kept[k] = kept[l] => k = l
    BY <1>3 DEF KeptFrom, Distinct
  <2> HIDE DEF more, q
  <2> QED BY <1>2, <1>3, <2>2, <2>3
<1>7. InOrder(order) /\ Closed(paths) => InOrder(more)
  <2> SUFFICES ASSUME InOrder(order), Closed(paths),
                      NEW i \in 1..(Len(kept) + 1)
               PROVE  imports[more[i]] \subseteq {more[j] : j \in 1..(i - 1)}
    BY <1>3 DEF InOrder
  <2>1. CASE i = Len(kept) + 1
    <3>1. imports[q] \subseteq before \cap paths
      BY DEF InOrder, Closed
    <3>2. ToSet(kept) = {more[j] : j \in 1..Len(kept)}
      <4> HIDE DEF more
      <4> QED BY <1>2, <1>3 DEF ToSet
    <3> HIDE DEF more, q
    <3> QED BY <1>1, <1>2, <1>3, <2>1, <3>1, <3>2
  <2>2. CASE i \in 1..Len(kept)
    <3>1. imports[kept[i]] \subseteq {kept[j] : j \in 1..(i - 1)}
      BY <1>3, <2>2 DEF KeptFrom, InOrder
    <3>2. \A j \in 1..(i - 1) : more[j] = kept[j]
      <4> HIDE DEF more
      <4> QED BY <1>2, <2>2
    <3>3. {more[j] : j \in 1..(i - 1)} = {kept[j] : j \in 1..(i - 1)}
      <4> HIDE DEF more
      <4> QED BY <3>2
    <3>4. more[i] = kept[i]
      <4> HIDE DEF more
      <4> QED BY <1>2, <2>2
    <3> HIDE DEF more
    <3> QED BY <3>1, <3>3, <3>4
  <2> HIDE DEF more
  <2> QED BY <1>3, <2>1, <2>2
<1>8. ToSet(more) = {order[i] : i \in 1..n} \cap paths
  <2> HIDE DEF more
  <2> QED BY <1>1, <1>4, <1>5
<1>9. KeptFrom(more, 1..n, order, paths)
  <2> HIDE DEF more
  <2> QED BY <1>2, <1>6, <1>7, <1>8 DEF KeptFrom
<1> QED BY <1>9

LEMMA KeepOn ==
    ASSUME NEW order \in Seq(Package), NEW paths, NEW n \in 1..Len(order),
           NEW kept, KeptFrom(kept, 1..(n - 1), order, paths),
           order[n] \notin paths
    PROVE  KeptFrom(kept, 1..n, order, paths)
<1>1. {order[i] : i \in 1..n} \cap paths
        = {order[i] : i \in 1..(n - 1)} \cap paths
  <2>1. \A i \in 1..n : i = n \/ i \in 1..(n - 1)
    OBVIOUS
  <2> QED BY <2>1
<1> QED BY <1>1 DEF KeptFrom

LEMMA KeptInOrder ==
    ASSUME NEW order \in Seq(Package), NEW paths
    PROVE  /\ Kept(order, paths) \in Seq(Package)
           /\ ToSet(Kept(order, paths)) = ToSet(order) \cap paths
           /\ Distinct(order) => Distinct(Kept(order, paths))
           /\ InOrder(order) /\ Closed(paths) => InOrder(Kept(order, paths))
<1>1. PICK kept : /\ kept[0] = <<>>
                  /\ \A n \in 1..Len(order) :
                        kept[n] = IF order[n] \in paths
                                  THEN Append(kept[n - 1], order[n])
                                  ELSE kept[n - 1]
                  /\ Kept(order, paths) = kept[Len(order)]
  BY KeptByRecursion
<1> DEFINE N == {n \in Nat : n <= Len(order)
                               => KeptFrom(kept[n], 1..n, order, paths)}
<1>2. 0 \in N
  <2>1. 1..0 = {} /\ DOMAIN <<>> = {} /\ <<>> \in Seq(Package)
    OBVIOUS
  <2>2. ToSet(<<>>) = {}
    BY <2>1 DEF ToSet
  <2>3. KeptFrom(<<>>, 1..0, order, paths)
    BY <2>1, <2>2 DEF KeptFrom, Distinct, InOrder
  <2> QED BY <1>1, <2>3
<1>3. ASSUME NEW n \in N
      PROVE  n + 1 \in N
  <2> SUFFICES ASSUME n + 1 <= Len(order)
               PROVE  KeptFrom(kept[n + 1], 1..(n + 1), order, paths)
    BY <1>3
  <2>1. n + 1 \in 1..Len(order) /\ (n + 1) - 1 = n
    BY <1>3
  <2>2. KeptFrom(kept[n], 1..((n + 1) - 1), order, paths)
    BY <1>3, <2>1
  <2>3. kept[n + 1] = IF order[n + 1] \in paths
                      THEN Append(kept[n], order[n + 1]) ELSE kept[n]
    BY <1>1, <2>1
  <2> HIDE DEF N
  <2> QED BY <2>1, <2>2, <2>3, AppendKept, KeepOn
<1>4. N \in SUBSET Nat
  OBVIOUS
<1>5. N = Nat
  <2> HIDE DEF N
  <2> QED BY <1>2, <1>3, <1>4, Keeping!Induction
<1>6. KeptFrom(Kept(order, paths), 1..Len(order), order, paths)
  BY <1>1, <1>5
<1>7. ToSet(order) = {order[i] : i \in 1..Len(order)}
  BY DEF ToSet
<1> QED BY <1>6, <1>7 DEF KeptFrom
---------------------------------------------------------------------------
(* What is reached from some packages in n rounds along the dependencies. *)
Rounds(p) == 0..Cardinality(Package)
ReachedAt(p, reached, n) ==
    IF n = 0 THEN p.direct
    ELSE reached[n - 1] \cup UNION {p.next[q] : q \in reached[n - 1]}

Reaching == INSTANCE Recursion WITH S <- Rounds, Rank <- Position, Def <- ReachedAt

LEMMA IncludedByRecursion ==
    ASSUME NEW contract
    PROVE  \E reached :
              /\ reached[0] = ToSet(ContractImports(contract))
              /\ \A n \in 1..Cardinality(Package) :
                    reached[n] = reached[n - 1]
                        \cup UNION {dependencies[q] : q \in reached[n - 1]}
              /\ Included(contract) = reached[Cardinality(Package)]
<1> DEFINE p == [direct |-> ToSet(ContractImports(contract)),
                 next |-> dependencies]
           f == CHOOSE g : g = [n \in 0..Cardinality(Package) |->
                                  ReachedAt(p, g, n)]
<1>0. Cardinality(Package) \in Nat
  BY PackagesAreFinite, FS_CardinalityType
<1>1. Reaching!Ranked(p)
  BY <1>0 DEF Reaching!Ranked, Position, Rounds
<1>2. Reaching!Descends(p)
  <2> SUFFICES ASSUME NEW g, NEW h, NEW n \in Rounds(p),
                      \A m \in Rounds(p) : m < n => g[m] = h[m]
               PROVE  ReachedAt(p, g, n) = ReachedAt(p, h, n)
    BY DEF Reaching!Descends, Position
  <2>1. n # 0 => n - 1 \in Rounds(p) /\ n - 1 < n
    BY <1>0 DEF Rounds
  <2>2. n # 0 => g[n - 1] = h[n - 1]
    BY <2>1
  <2> HIDE DEF p
  <2> QED BY <2>2 DEF ReachedAt
<1>3. f = CHOOSE g : Reaching!Defines(p, g)
  BY DEF Reaching!Defines, Rounds
<1>4. Reaching!Defines(p, f)
  <2> HIDE DEF f
  <2> QED BY <1>1, <1>2, <1>3, Reaching!Recursion
<1>5. f = [n \in 0..Cardinality(Package) |-> ReachedAt(p, f, n)]
  BY <1>4 DEF Reaching!Defines, Rounds
<1>6. Included(contract) = f[Cardinality(Package)]
  BY DEF Included, ReachedAt
<1> HIDE DEF f
<1>7. \A n \in 0..Cardinality(Package) : f[n] = ReachedAt(p, f, n)
  BY <1>5
<1>8. f[0] = ToSet(ContractImports(contract))
  <2>1. 0 \in 0..Cardinality(Package)
    BY <1>0
  <2> QED BY <1>7, <2>1 DEF ReachedAt
<1>9. ASSUME NEW n \in 1..Cardinality(Package)
      PROVE  f[n] = f[n - 1] \cup UNION {dependencies[q] : q \in f[n - 1]}
  <2>1. n \in 0..Cardinality(Package) /\ n # 0
    BY <1>0
  <2>2. p.next = dependencies
    OBVIOUS
  <2>3. f[n] = f[n - 1] \cup UNION {p.next[q] : q \in f[n - 1]}
    <3> HIDE DEF p
    <3> QED BY <1>7, <2>1 DEF ReachedAt
  <2> QED BY <2>2, <2>3
<1> QED BY <1>6, <1>8, <1>9

(* Where the dependencies of what is needed are known, that is included:   *)
(* in each round something is added, or nothing is ever again.             *)
LEMMA IncludedAreNeeded ==
    ASSUME imports \in [Package -> SUBSET Package], NEW contract,
           \A p \in Needed(ToSet(Allowed) \cap contract) :
              dependencies[p] = imports[p]
    PROVE  Included(contract) = Needed(ToSet(Allowed) \cap contract)
<1> DEFINE bound == Cardinality(Package)
           direct == ToSet(Allowed) \cap contract
           need == Needed(direct)
<1>1. bound \in Nat
  BY PackagesAreFinite, FS_CardinalityType
<1>2. /\ direct \in SUBSET Package
      /\ ToSet(ContractImports(contract)) = direct
  <2>1. Allowed \in Seq(Package)
    BY StdlibAssumption
  <2>2. ToSet(Allowed) \in SUBSET Package
    BY <2>1 DEF ToSet
  <2> QED BY <2>1, <2>2, KeptInOrder DEF ContractImports
<1>3. need \in SUBSET Package /\ direct \subseteq need /\ Closed(need)
  <2> HIDE DEF direct
  <2> QED BY <1>2, NeededAreClosed
<1>4. PICK reached :
          /\ reached[0] = ToSet(ContractImports(contract))
          /\ \A n \in 1..bound :
                reached[n] = reached[n - 1]
                    \cup UNION {dependencies[q] : q \in reached[n - 1]}
          /\ Included(contract) = reached[bound]
  BY IncludedByRecursion
<1> HIDE DEF bound, direct
<1> DEFINE Sound(n) == direct \subseteq reached[n] /\ reached[n] \subseteq need
           Grown(n) == \/ Closed(reached[n])
                       \/ Cardinality(reached[n]) >= n
           N == {n \in Nat : n <= bound => Sound(n) /\ Grown(n)}
<1>5. 0 \in N
  <2>1. Sound(0)
    BY <1>2, <1>3, <1>4
  <2>2. IsFiniteSet(reached[0])
    BY <1>3, <2>1, PackagesAreFinite, FS_Subset
  <2>3. Cardinality(reached[0]) >= 0
    BY <2>2, FS_CardinalityType
  <2> QED BY <2>1, <2>3
<1>6. ASSUME NEW n \in N
      PROVE  n + 1 \in N
  <2> SUFFICES ASSUME n + 1 <= bound
               PROVE  Sound(n + 1) /\ Grown(n + 1)
    BY <1>6
  <2>1. n \in Nat /\ n + 1 \in 1..bound /\ (n + 1) - 1 = n
    BY <1>1, <1>6
  <2>2. Sound(n) /\ Grown(n)
    BY <1>1, <1>6, <2>1
  <2>3. reached[n + 1] = reached[n]
                           \cup UNION {dependencies[q] : q \in reached[n]}
    BY <1>4, <2>1
  <2>4. \A q \in reached[n] : dependencies[q] = imports[q]
    BY <2>2 DEF direct
  <2>5. reached[n + 1] = reached[n] \cup UNION {imports[q] : q \in reached[n]}
    BY <2>3, <2>4
  <2>6. Sound(n + 1)
    BY <1>3, <2>2, <2>5 DEF Closed
  <2>7. CASE Closed(reached[n])
    <3>1. reached[n + 1] = reached[n]
      BY <2>5, <2>7 DEF Closed
    <3> QED BY <2>6, <2>7, <3>1
  <2>8. CASE ~Closed(reached[n])
    <3>1. PICK r : r \notin reached[n] /\ \E q \in reached[n] : r \in imports[q]
      BY <2>8 DEF Closed
    <3>2. /\ reached[n] \subseteq reached[n + 1]
          /\ reached[n] # reached[n + 1]
          /\ IsFiniteSet(reached[n + 1])
      <4>1. r \in reached[n + 1]
        BY <2>5, <3>1
      <4>2. IsFiniteSet(reached[n + 1])
        BY <1>3, <2>6, PackagesAreFinite, FS_Subset
      <4> QED BY <2>5, <3>1, <4>1, <4>2
    <3>3. /\ IsFiniteSet(reached[n])
          /\ Cardinality(reached[n]) <= Cardinality(reached[n + 1])
          /\ Cardinality(reached[n]) # Cardinality(reached[n + 1])
      BY <3>2, FS_Subset
    <3>4. Cardinality(reached[n]) >= n
      BY <2>2, <2>8
    <3>5. Cardinality(reached[n]) \in Nat /\ Cardinality(reached[n + 1]) \in Nat
      BY <3>2, <3>3, FS_CardinalityType
    <3>6. Cardinality(reached[n + 1]) >= n + 1
      BY <2>1, <3>3, <3>4, <3>5
    <3> QED BY <2>6, <3>6
  <2> QED BY <2>7, <2>8
<1>7. N = Nat
  <2>1. N \in SUBSET Nat
    OBVIOUS
  <2> HIDE DEF N
  <2> QED BY <1>5, <1>6, <2>1, Reaching!Induction
<1>8. Sound(bound) /\ Grown(bound)
  BY <1>1, <1>7
<1>9. Closed(reached[bound])
  <2> SUFFICES ASSUME Cardinality(reached[bound]) >= bound
               PROVE  Closed(reached[bound])
    BY <1>8
  <2>1. reached[bound] \subseteq Package
    BY <1>3, <1>8
  <2>2. /\ Cardinality(reached[bound]) <= Cardinality(Package)
        /\ Cardinality(reached[bound]) = Cardinality(Package)
              => reached[bound] = Package
        /\ IsFiniteSet(reached[bound])
    BY <2>1, PackagesAreFinite, FS_Subset
  <2>3. Cardinality(reached[bound]) \in Nat
    BY <2>2, FS_CardinalityType
  <2>4. reached[bound] = Package
    BY <1>1, <2>2, <2>3 DEF bound
  <2> QED BY <2>4 DEF Closed
<1>10. need \subseteq reached[bound]
  <2>1. reached[bound] \in SUBSET Package /\ direct \in SUBSET reached[bound]
    BY <1>3, <1>8
  <2> QED BY <1>9, <2>1, NeededAreLeast
<1> QED BY <1>4, <1>8, <1>10 DEF direct, bound

---------------------------------------------------------------------------
(* The part of TypeOK that loading needs. *)
LoadTypes ==
    /\ imports \in [Package -> SUBSET Package]
    /\ sound \in SUBSET Package
    /\ roots \in Seq(Package)
    /\ stack \in Seq(Call)
    /\ packages \in Seq(Package)

(* An import of a package that is being visited is loaded, is still to be  *)
(* visited, or is being visited by the next call.                          *)
StackCovers ==
    \A i \in 1..Len(stack) : \A q \in imports[stack[i].path] :
        \/ q \in Loaded
        \/ q \in stack[i].left
        \/ i < Len(stack) /\ q = stack[i + 1].path

VisitedSound ==
    /\ \A i \in 1..Len(stack) : stack[i].path \in sound
    /\ Loaded \subseteq sound

(* The order in which packages were loaded, and that they could be. *)
LoadedInOrder == InOrder(packages) /\ Loaded \subseteq sound

(* What was loaded is in order only because visit returns after all that   *)
(* the package imports was visited: the stack is part of the invariant.    *)
LoadInv == LoadTypes /\ StackCovers /\ VisitedSound /\ InOrder(packages)

LEMMA FirstIsMember ==
    ASSUME NEW paths \in SUBSET Package, paths # {}
    PROVE  First(paths) \in paths
BY PathsAreSorted DEF First

LEMMA LoadInvInit == Init => LoadInv
BY StdlibAssumption
   DEF Init, LoadInv, LoadTypes, StackCovers, VisitedSound, InOrder, Loaded,
       ToSet, Call

LEMMA StackTypes ==
    ASSUME LoadTypes
    PROVE  /\ stack \in Seq(Call)
           /\ \A i \in 1..Len(stack) : stack[i] \in Call /\ stack[i].path \in Package
<1>1. stack \in Seq(Call)
  BY DEF LoadTypes
<1>2. \A i \in 1..Len(stack) : stack[i] \in Call
  BY <1>1
<1> QED BY <1>1, <1>2 DEF Call

LEMMA FirstIsLeft ==
    ASSUME LoadTypes, stack # <<>>, Top.left # {}
    PROVE  /\ First(Top.left) \in stack[Len(stack)].left
           /\ First(Top.left) \in Package
<1>1. stack[Len(stack)] \in Call
  BY DEF LoadTypes
<1>2. Top.left \in SUBSET Package
  BY <1>1 DEF Call, Top
<1> QED BY <1>2, FirstIsMember DEF Top

(* The call on top goes on to an import that is left. *)
GoesOn(p, below) == below = [stack EXCEPT ![Len(stack)].left = @ \ {p}]

LEMMA TopGoesOn ==
    ASSUME LoadTypes, stack # <<>>, NEW p, NEW below, GoesOn(p, below)
    PROVE  /\ below \in Seq(Call)
           /\ Len(below) = Len(stack)
           /\ \A i \in 1..Len(stack) : below[i].path = stack[i].path
           /\ \A i \in 1..Len(stack) :
                 i # Len(stack) => below[i].left = stack[i].left
           /\ below[Len(stack)].left = stack[Len(stack)].left \ {p}
           /\ \A i \in 1..Len(stack) : below[i].left \subseteq stack[i].left
<1> DEFINE n == Len(stack)
<1>1. stack \in Seq(Call) /\ n \in Nat \ {0}
  BY DEF LoadTypes
<1>2. stack[n] \in Call /\ n \in 1..n
  BY <1>1
<1>3. [stack[n] EXCEPT !.left = @ \ {p}] \in Call
  BY <1>2 DEF Call
<1>4. below = [stack EXCEPT ![n] = [stack[n] EXCEPT !.left = @ \ {p}]]
  BY <1>1, <1>2 DEF GoesOn
<1> QED BY <1>1, <1>2, <1>3, <1>4 DEF Call

(* visit returns. *)
LEMMA LeaveShape ==
    ASSUME LoadTypes, Leave
    PROVE  \E n \in Nat \ {0}, p \in Package :
              /\ n = Len(stack) /\ p = stack[n].path /\ stack[n].left = {}
              /\ packages' \in Seq(Package)
              /\ Len(packages') = Len(packages) + 1
              /\ \A i \in 1..Len(packages) : packages'[i] = packages[i]
              /\ packages'[Len(packages) + 1] = p
              /\ Loaded' = Loaded \cup {p}
              /\ stack' \in Seq(Call)
              /\ Len(stack') = n - 1
              /\ \A i \in 1..(n - 1) : stack'[i] = stack[i]
<1> DEFINE n == Len(stack)
           p == stack[n].path
<1>1. stack \in Seq(Call) /\ n \in Nat \ {0} /\ n \in 1..n
  BY DEF Leave, LoadTypes
<1>2. stack[n] \in Call /\ p \in Package
  <2>1. stack[n] \in Call
    BY <1>1
  <2> QED BY <2>1 DEF Call
<1>3. /\ packages \in Seq(Package)
      /\ packages' = Append(packages, p)
      /\ stack' = SubSeq(stack, 1, n - 1)
  BY DEF Leave, Top, Front, tree, LoadTypes
<1>4. /\ packages' \in Seq(Package)
      /\ Len(packages') = Len(packages) + 1
      /\ \A i \in 1..Len(packages) : packages'[i] = packages[i]
      /\ packages'[Len(packages) + 1] = p
  <2> HIDE DEF p
  <2> QED BY <1>2, <1>3, AppendProperties
<1>5. /\ stack' \in Seq(Call)
      /\ Len(stack') = n - 1
      /\ \A i \in 1..(n - 1) : stack'[i] = stack[i]
  <2>1. \A i \in 1..(n - 1) : stack[i] \in Call
    BY <1>1
  <2>2. n - 1 \in Int /\ 1 \in Int
    BY <1>1
  <2>3. SubSeq(stack, 1, n - 1) \in Seq(Call)
    BY <2>1, <2>2, SubSeqProperties
  <2>5. \A i \in 1..((n - 1) - 1 + 1) :
            SubSeq(stack, 1, n - 1)[i] = stack[1 + i - 1]
    BY <2>1, <2>2, SubSeqProperties
  <2>6. Len(SubSeq(stack, 1, n - 1)) = n - 1
    <3>1. CASE n = 1
      <4>1. SubSeq(stack, 1, n - 1) = <<>>
        BY <2>2, <3>1, SubSeqEmpty
      <4> QED BY <3>1, <4>1
    <3>2. CASE n # 1
      <4>1. 1 <= n - 1 /\ (n - 1) - 1 + 1 = n - 1
        <5>1. n \in Nat \ {0}
          BY <1>1
        <5> HIDE DEF n
        <5> QED BY <3>2, <5>1
      <4> QED BY <2>1, <2>2, <4>1, SubSeqProperties
    <3> QED BY <3>1, <3>2
  <2>7. \A i \in 1..(n - 1) : SubSeq(stack, 1, n - 1)[i] = stack[i]
    <3> TAKE i \in 1..(n - 1)
    <3>1. i \in 1..((n - 1) - 1 + 1) /\ 1 + i - 1 = i
      BY <1>1
    <3> QED BY <2>5, <3>1
  <2> HIDE DEF n
  <2> QED BY <1>3, <2>3, <2>6, <2>7
<1>6. Loaded' = Loaded \cup {p}
  <2>1. DOMAIN packages = 1..Len(packages)
        /\ DOMAIN packages' = 1..(Len(packages) + 1)
        /\ Len(packages) \in Nat
    BY <1>3, <1>4
  <2> HIDE DEF p
  <2> QED BY <1>4, <2>1 DEF Loaded, ToSet
<1>7. stack[n].left = {}
  BY DEF Leave, Top
<1> HIDE DEF n, p
<1>8. n = Len(stack) /\ p = stack[n].path
  BY DEF n, p
<1> QED BY <1>1, <1>2, <1>4, <1>5, <1>6, <1>7, <1>8

(* A call is entered: it still has to visit everything it imports. *)
LEMMA EnterPreserves ==
    ASSUME LoadInv, NEW p \in Package, p \in sound, NEW below \in Seq(Call),
           Len(below) = Len(stack),
           \A i \in 1..Len(stack) : below[i].path = stack[i].path,
           \A i \in 1..Len(stack) : \A q \in imports[stack[i].path] :
               \/ q \in Loaded
               \/ q \in below[i].left
               \/ i < Len(stack) /\ q = stack[i + 1].path
               \/ i = Len(stack) /\ q = p,
           stack' = Append(below, [path |-> p, left |-> imports[p]]),
           UNCHANGED <<imports, sound, packages>>,
           roots' \in Seq(Package)
    PROVE  LoadInv'
<1> DEFINE call == [path |-> p, left |-> imports[p]]
<1>1. call \in Call
  BY DEF LoadInv, LoadTypes, Call
<1>2. /\ stack' \in Seq(Call)
      /\ Len(stack') = Len(stack) + 1
      /\ \A i \in 1..Len(stack) : stack'[i] = below[i]
      /\ stack'[Len(stack) + 1] = call
  <2> HIDE DEF call
  <2> QED BY <1>1, AppendProperties DEF call
<1>3. Len(stack) \in Nat
  BY DEF LoadInv, LoadTypes
<1>4. LoadTypes'
  BY <1>2 DEF LoadInv, LoadTypes
<1>5. Loaded' = Loaded
  BY DEF Loaded, ToSet
<1>6. StackCovers'
  <2> SUFFICES ASSUME NEW i \in 1..(Len(stack) + 1),
                      NEW q \in imports[stack'[i].path]
               PROVE  \/ q \in Loaded
                      \/ q \in stack'[i].left
                      \/ i < Len(stack) + 1 /\ q = stack'[i + 1].path
    BY ZenonT(30), <1>2, <1>5 DEF StackCovers
  <2>1. CASE i = Len(stack) + 1
    BY <1>2, <2>1
  <2>2. CASE i = Len(stack)
    BY <1>2, <1>3, <2>2
  <2>3. CASE i < Len(stack)
    <3>1. i \in 1..Len(stack) /\ i + 1 \in 1..Len(stack)
      BY <1>3, <2>3
    <3> QED BY SMTT(30), <1>2, <1>3, <2>3, <3>1
  <2> QED BY <1>3, <2>1, <2>2, <2>3
<1>7. VisitedSound'
  <2> SUFFICES ASSUME NEW i \in 1..(Len(stack) + 1)
               PROVE  stack'[i].path \in sound
    BY <1>2, <1>5 DEF LoadInv, VisitedSound
  <2>1. CASE i = Len(stack) + 1
    BY <1>2, <2>1
  <2>2. CASE i \in 1..Len(stack)
    BY <1>2, <2>2 DEF LoadInv, VisitedSound
  <2> QED BY <1>3, <2>1, <2>2
<1>8. InOrder(packages)'
  BY DEF LoadInv, InOrder
<1> QED BY <1>4, <1>6, <1>7, <1>8 DEF LoadInv

LEMMA VisitRootPreserves ==
    ASSUME LoadInv, VisitRoot
    PROVE  LoadInv'
<1> DEFINE p == Head(roots)
<1>1. p \in Package /\ Tail(roots) \in Seq(Package)
  BY HeadTailProperties DEF VisitRoot, LoadInv, LoadTypes
<1>2. /\ roots' = Tail(roots)
      /\ UNCHANGED <<imports, sound, packages>>
      /\ stack = <<>> /\ Len(stack) = 0
  BY DEF VisitRoot, Visit, tree
<1>3. CASE p \in Loaded
  <2>1. stack' = stack
    BY <1>3 DEF VisitRoot, Visit
  <2> QED BY <1>1, <1>2, <2>1
             DEF LoadInv, LoadTypes, StackCovers, VisitedSound, InOrder,
                 Loaded, ToSet
<1>4. CASE p \notin Loaded
  <2>1. p \in sound /\ stack' = Append(stack, [path |-> p, left |-> imports[p]])
    BY <1>4 DEF VisitRoot, Visit, Refused
  <2>2. stack \in Seq(Call)
    BY DEF LoadInv, LoadTypes
  <2>3. 1..Len(stack) = {}
    BY <1>2
  <2>4. roots' \in Seq(Package)
    BY <1>1, <1>2
  <2> HIDE DEF p
  <2> QED BY <1>1, <1>2, <2>1, <2>2, <2>3, <2>4, EnterPreserves
<1> QED BY <1>3, <1>4

LEMMA VisitImportPreserves ==
    ASSUME LoadInv, VisitImport
    PROVE  LoadInv'
<1> DEFINE n == Len(stack)
           p == First(Top.left)
           below == [stack EXCEPT ![n].left = @ \ {p}]
<1>1. stack \in Seq(Call) /\ n \in Nat \ {0}
  BY DEF VisitImport, LoadInv, LoadTypes
<1>2. LoadTypes /\ stack # <<>> /\ Top.left # {}
  BY DEF VisitImport, LoadInv
<1>3. p \in stack[n].left /\ p \in Package
  BY <1>2, FirstIsLeft
<1>4. /\ below \in Seq(Call)
      /\ Len(below) = n
      /\ \A i \in 1..n : below[i].path = stack[i].path
      /\ \A i \in 1..n : i # n => below[i].left = stack[i].left
      /\ below[n].left = stack[n].left \ {p}
  <2>1. GoesOn(p, below)
    BY DEF GoesOn
  <2> HIDE DEF below
  <2> QED BY <1>2, <2>1, TopGoesOn
<1>5. UNCHANGED <<imports, sound, packages, roots>> /\ roots' \in Seq(Package)
  BY DEF VisitImport, Visit, tree, LoadInv, LoadTypes
<1>6. \A i \in 1..n : \A q \in imports[stack[i].path] :
          \/ q \in Loaded
          \/ q \in below[i].left
          \/ i < n /\ q = stack[i + 1].path
          \/ i = n /\ q = p
  <2> HIDE DEF p, below
  <2> QED BY <1>1, <1>4 DEF LoadInv, StackCovers
<1>7. CASE p \in Loaded
  <2>1. stack' = below
    BY <1>7 DEF VisitImport, Visit
  <2>2. Loaded' = Loaded
    BY <1>5 DEF Loaded, ToSet
  <2>3. LoadTypes'
    BY <1>4, <1>5, <2>1 DEF LoadInv, LoadTypes
  <2>4. StackCovers'
    <3> HIDE DEF p, below
    <3>1. \A i \in 1..n : i < n => i + 1 \in 1..n
      BY <1>1
    <3> QED BY <1>1, <1>4, <1>5, <1>6, <1>7, <2>1, <2>2, <3>1
               DEF StackCovers
  <2>5. VisitedSound' /\ InOrder(packages)'
    <3> HIDE DEF p, below
    <3> QED BY <1>4, <1>5, <2>1, <2>2 DEF LoadInv, VisitedSound, InOrder
  <2> QED BY <2>3, <2>4, <2>5 DEF LoadInv
<1>8. CASE p \notin Loaded
  <2>1. p \in sound /\ stack' = Append(below, [path |-> p, left |-> imports[p]])
    BY <1>8 DEF VisitImport, Visit, Refused
  <2> HIDE DEF p, below
  <2> QED BY <1>3, <1>4, <1>5, <1>6, <2>1, EnterPreserves
<1> QED BY <1>7, <1>8

(* All that the package imports is loaded when its visit returns. *)
LEMMA LeavePreserves ==
    ASSUME LoadInv, Leave
    PROVE  LoadInv'
<1>1. PICK n \in Nat \ {0}, p \in Package :
              /\ n = Len(stack) /\ p = stack[n].path /\ stack[n].left = {}
              /\ packages' \in Seq(Package)
              /\ Len(packages') = Len(packages) + 1
              /\ \A i \in 1..Len(packages) : packages'[i] = packages[i]
              /\ packages'[Len(packages) + 1] = p
              /\ Loaded' = Loaded \cup {p}
              /\ stack' \in Seq(Call)
              /\ Len(stack') = n - 1
              /\ \A i \in 1..(n - 1) : stack'[i] = stack[i]
  BY LeaveShape DEF LoadInv
<1>2. n \in 1..n /\ packages \in Seq(Package) /\ Len(packages) \in Nat
  BY <1>1 DEF LoadInv, LoadTypes
<1>3. UNCHANGED <<imports, sound, roots>>
  BY DEF Leave, tree
<1>8. imports[p] \subseteq Loaded
  BY <1>1, <1>2 DEF LoadInv, StackCovers
<1>9. LoadTypes'
  BY <1>1, <1>3 DEF LoadInv, LoadTypes
<1>10. StackCovers'
  <2> SUFFICES ASSUME NEW i \in 1..(n - 1), NEW q \in imports[stack[i].path]
               PROVE  \/ q \in Loaded \cup {p}
                      \/ q \in stack[i].left
                      \/ i < n - 1 /\ q = stack'[i + 1].path
    BY <1>1, <1>3 DEF StackCovers
  <2>1. i \in 1..n /\ i < n
    BY <1>1
  <2>2. \/ q \in Loaded
        \/ q \in stack[i].left
        \/ q = stack[i + 1].path
    BY <1>1, <2>1 DEF LoadInv, StackCovers
  <2>3. CASE i + 1 = n
    BY <1>1, <2>2, <2>3
  <2>4. CASE i + 1 # n
    <3>1. i + 1 \in 1..(n - 1) /\ i < n - 1
      BY <1>1, <2>1, <2>4
    <3> QED BY <1>1, <2>2, <3>1
  <2> QED BY <2>3, <2>4
<1>11. VisitedSound'
  <2>1. \A i \in 1..(n - 1) : i \in 1..n
    BY <1>1
  <2> QED BY <1>1, <1>2, <1>3, <2>1 DEF LoadInv, VisitedSound
<1>12. InOrder(packages)'
  <2>1. DOMAIN packages = 1..Len(packages)
        /\ DOMAIN packages' = 1..(Len(packages) + 1)
    BY <1>1, <1>2
  <2> SUFFICES ASSUME NEW i \in 1..(Len(packages) + 1)
               PROVE  imports[packages'[i]]
                        \subseteq {packages'[j] : j \in 1..(i - 1)}
    BY <1>1, <1>3, <2>1 DEF InOrder
  <2>2. CASE i = Len(packages) + 1
    <3> PICK length : length = Len(packages)
      OBVIOUS
    <3>1. Loaded = {packages'[j] : j \in 1..length}
      <4>1. \A j \in 1..length : packages'[j] = packages[j]
        BY <1>1
      <4> QED BY <2>1, <4>1 DEF Loaded, ToSet
    <3>2. i - 1 = length
      BY <1>2, <2>2
    <3> QED BY <1>1, <1>8, <2>2, <3>1, <3>2
  <2>3. CASE i # Len(packages) + 1
    <3>1. i \in 1..Len(packages) /\ \A j \in 1..(i - 1) : j \in 1..Len(packages)
      BY <1>2, <2>3
    <3>2. imports[packages[i]] \subseteq {packages[j] : j \in 1..(i - 1)}
      BY <2>1, <3>1 DEF LoadInv, InOrder
    <3>3. \A j \in 1..(i - 1) : packages'[j] = packages[j]
      BY <1>1, <3>1
    <3>4. {packages'[j] : j \in 1..(i - 1)} = {packages[j] : j \in 1..(i - 1)}
      BY <3>3
    <3> QED BY <1>1, <3>1, <3>2, <3>4
  <2> QED BY <2>2, <2>3
<1> QED BY <1>9, <1>10, <1>11, <1>12 DEF LoadInv

LEMMA FailPreserves ==
    ASSUME LoadInv, Fail
    PROVE  LoadInv'
BY DEF Fail, Abort, tree, LoadInv, LoadTypes, StackCovers, VisitedSound,
       InOrder, Loaded, ToSet, Call

LEMMA LoadInvNext == LoadInv /\ [Next]_vars => LoadInv'
<1> SUFFICES ASSUME LoadInv, [Next]_vars PROVE LoadInv'
  OBVIOUS
<1>1. CASE Load
  <2>1. CASE Done
    BY <2>1 DEF Done, tree, LoadInv, LoadTypes, StackCovers, VisitedSound,
                InOrder, Loaded, ToSet
  <2> QED BY <1>1, <2>1, VisitRootPreserves, VisitImportPreserves,
             FailPreserves, LeavePreserves DEF Load
<1>2. CASE UNCHANGED <<imports, sound, roots, stack, packages>>
  BY <1>2 DEF LoadInv, LoadTypes, StackCovers, VisitedSound, InOrder, Loaded,
              ToSet
<1>3. Next => Load \/ UNCHANGED <<imports, sound, roots, stack, packages>>
  BY DEF Next, Ask, EnterOnce, Answer, Use, tree, loading
<1>4. UNCHANGED vars => UNCHANGED <<imports, sound, roots, stack, packages>>
  BY DEF vars, tree, loading
<1> QED BY <1>1, <1>2, <1>3, <1>4

(* Packages are loaded after all that they import, and none that cannot be *)
(* read is, at every moment: the order in which machines run them.         *)
THEOREM LoadOrder == Spec => []LoadedInOrder
<1>1. LoadInv => LoadedInOrder
  BY DEF LoadInv, VisitedSound, LoadedInOrder
<1> QED BY <1>1, LoadInvInit, LoadInvNext, PTL DEF Spec

---------------------------------------------------------------------------
(* No package is loaded twice, or visited while it is being visited.       *)
OncePerPackage ==
    /\ Distinct(packages)
    /\ \A i, j \in 1..Len(stack) : stack[i].path = stack[j].path => i = j
    /\ \A i \in 1..Len(stack) : stack[i].path \notin Loaded

DependenciesKnown ==
    /\ dependencies \in [Package -> SUBSET Package]
    /\ \A p \in Package :
          p \in Loaded \/ (\E i \in 1..Len(stack) : p = stack[i].path)
              => dependencies[p] = imports[p]

(* Whatever is visited is needed, and by all that is being visited.        *)
VisitsAreNeeded ==
    /\ ToSet(roots) \subseteq ToSet(Allowed)
    /\ \A i \in 1..Len(stack) : stack[i].left \subseteq imports[stack[i].path]
    /\ \A i \in 1..Len(stack) : stack[i].path \in Needed(ToSet(Allowed))
    /\ \A j \in 1..Len(stack) : \A p \in Package :
          (\E i \in 1..j : p = stack[i].path) => stack[j].path \in Needed({p})

(* An allowed package is loaded, to be visited, or the one being visited.  *)
AllowedCovered ==
    \A p \in ToSet(Allowed) :
        p \in ToSet(roots) \/ p \in Loaded \/ (stack # <<>> /\ p = stack[1].path)

Outcome ==
    /\ once \in {"new", "loading", "done"}
    /\ failed \in BOOLEAN
    /\ once = "done" => stack = <<>> /\ roots = <<>>
    /\ failed => once = "done" /\ Broken
    /\ ~failed => AllowedCovered

TrackInv ==
    OncePerPackage /\ DependenciesKnown /\ VisitsAreNeeded /\ Outcome

LEMMA AllowedType ==
    Allowed \in Seq(Package) /\ ToSet(Allowed) \in SUBSET Package
<1>1. Allowed \in Seq(Package)
  BY StdlibAssumption
<1> QED BY <1>1 DEF ToSet

LEMMA TrackInvInit == Init => TrackInv
<1> SUFFICES ASSUME Init PROVE TrackInv
  OBVIOUS
<1>1. packages = <<>> /\ stack = <<>> /\ roots = Allowed /\ DOMAIN packages = {}
  BY DEF Init
<1>2. 1..Len(stack) = {} /\ Loaded = {}
  BY <1>1 DEF Loaded, ToSet
<1>3. OncePerPackage
  BY <1>1, <1>2 DEF OncePerPackage, Distinct
<1>4. DependenciesKnown
  BY <1>2 DEF DependenciesKnown, Init, NoDependencies
<1>5. VisitsAreNeeded
  BY <1>1, <1>2 DEF VisitsAreNeeded
<1>6. Outcome
  BY <1>1 DEF Outcome, Init, AllowedCovered
<1> QED BY <1>3, <1>4, <1>5, <1>6 DEF TrackInv

(* The tree stays. *)
LEMMA TreeStays ==
    ASSUME UNCHANGED tree
    PROVE  /\ \A paths : Needed(paths)' = Needed(paths)
           /\ Broken' = Broken
BY DEF tree, Broken, Cyclic, Needed, Closed

(* visit(p) is called: by its caller p is done or, while p has calls of    *)
(* its own, the next to be done.                                           *)
Calls(p, below) ==
    /\ Len(below) = Len(stack)
    /\ \A i \in 1..Len(stack) :
          /\ below[i].path = stack[i].path
          /\ below[i].left \subseteq stack[i].left
    /\ p \in Needed(ToSet(Allowed))
    /\ \A i \in 1..Len(stack) : p \in Needed({stack[i].path})
    /\ ToSet(roots') \subseteq ToSet(roots)
    /\ \A q \in ToSet(roots) : q \in ToSet(roots') \/ (q = p /\ stack = <<>>)
    /\ once = "loading"
    /\ UNCHANGED <<imports, sound, once, packages, failed>>

LEMMA SkipTracks ==
    ASSUME LoadInv, TrackInv, NEW p \in Package, NEW below \in Seq(Call),
           Calls(p, below), p \in Loaded, stack' = below,
           UNCHANGED dependencies
    PROVE  TrackInv'
<1>1. Loaded' = Loaded
  BY DEF Calls, Loaded, ToSet
<1>2. stack \in Seq(Call) /\ Len(stack) \in Nat
  BY DEF LoadInv, LoadTypes
<1>3. /\ Len(stack') = Len(stack)
      /\ \A i \in 1..Len(stack) : /\ stack'[i].path = stack[i].path
                                  /\ stack'[i].left \subseteq stack[i].left
  BY DEF Calls
<1>4. \A paths : Needed(paths)' = Needed(paths)
  BY TreeStays DEF Calls, tree
<1>5. OncePerPackage'
  BY <1>1, <1>3 DEF TrackInv, OncePerPackage, Calls, Distinct
<1>6. DependenciesKnown'
  BY <1>1, <1>3 DEF TrackInv, DependenciesKnown, Calls
<1>7. VisitsAreNeeded'
  BY <1>2, <1>3, <1>4 DEF TrackInv, VisitsAreNeeded, Calls
<1>8. ~failed /\ AllowedCovered'
  <2>1. stack # <<>> => stack' # <<>> /\ stack'[1].path = stack[1].path
    BY <1>2, <1>3
  <2> QED BY <1>1, <2>1 DEF TrackInv, Outcome, AllowedCovered, Calls
<1>9. Outcome'
  BY <1>8 DEF TrackInv, Outcome, Calls
<1> QED BY <1>5, <1>6, <1>7, <1>9 DEF TrackInv

LEMMA EnterTracks ==
    ASSUME LoadInv, TrackInv, NEW p \in Package, NEW below \in Seq(Call),
           Calls(p, below), p \notin Loaded, p \notin Visiting,
           stack' = Append(below, [path |-> p, left |-> imports[p]]),
           dependencies' = [dependencies EXCEPT ![p] = imports[p]]
    PROVE  TrackInv'
<1> DEFINE call == [path |-> p, left |-> imports[p]]
           n == Len(stack)
<1>1. Loaded' = Loaded
  BY DEF Calls, Loaded, ToSet
<1>2. stack \in Seq(Call) /\ n \in Nat /\ imports \in [Package -> SUBSET Package]
  BY DEF LoadInv, LoadTypes
<1>3. /\ stack' \in Seq(Call)
      /\ Len(stack') = n + 1
      /\ \A i \in 1..n : /\ stack'[i].path = stack[i].path
                         /\ stack'[i].left \subseteq stack[i].left
      /\ stack'[n + 1] = call
  <2>1. call \in Call
    BY <1>2 DEF Call
  <2> HIDE DEF call
  <2> QED BY <2>1, AppendProperties DEF call, Calls
<1>4. stack'[n + 1].path = p /\ stack'[n + 1].left = imports[p]
  BY <1>3
<1>5. \A paths : Needed(paths)' = Needed(paths)
  BY TreeStays DEF Calls, tree
<1>6. \A i \in 1..n : stack[i].path # p
  BY <1>2 DEF Visiting
<1>7. \A i \in 1..(n + 1) : i \in 1..n \/ i = n + 1
  BY <1>2
<1> HIDE DEF call, n
<1>8. OncePerPackage'
  <2>1. \A i, j \in 1..(n + 1) : stack'[i].path = stack'[j].path => i = j
    BY <1>3, <1>4, <1>6, <1>7 DEF TrackInv, OncePerPackage, n
  <2>2. \A i \in 1..(n + 1) : stack'[i].path \notin Loaded
    BY <1>3, <1>4, <1>7 DEF TrackInv, OncePerPackage, n
  <2>3. Distinct(packages)'
    BY DEF TrackInv, OncePerPackage, Calls, Distinct
  <2> QED BY <1>1, <1>3, <2>1, <2>2, <2>3 DEF OncePerPackage
<1>9. DependenciesKnown'
  <2>1. dependencies' \in [Package -> SUBSET Package]
    BY <1>2 DEF TrackInv, DependenciesKnown
  <2>2. ASSUME NEW q \in Package,
               q \in Loaded \/ (\E i \in 1..(n + 1) : q = stack'[i].path)
        PROVE  dependencies'[q] = imports[q]
    <3>1. CASE q = p
      BY <3>1 DEF TrackInv, DependenciesKnown
    <3>2. CASE q # p
      <4>1. q \in Loaded \/ (\E i \in 1..n : q = stack[i].path)
        BY <1>3, <1>4, <1>7, <2>2, <3>2
      <4> QED BY <3>2, <4>1 DEF TrackInv, DependenciesKnown, n
    <3> QED BY <3>1, <3>2
  <2> QED BY <1>1, <1>3, <2>1, <2>2 DEF DependenciesKnown, Calls
<1>10. VisitsAreNeeded'
  <2>1. \A i \in 1..(n + 1) : stack'[i].left \subseteq imports[stack'[i].path]
    BY <1>3, <1>4, <1>7 DEF TrackInv, VisitsAreNeeded, n
  <2>2. \A i \in 1..(n + 1) : stack'[i].path \in Needed(ToSet(Allowed))
    BY <1>3, <1>4, <1>7 DEF TrackInv, VisitsAreNeeded, n, Calls
  <2>3. ASSUME NEW j \in 1..(n + 1), NEW q \in Package, NEW i \in 1..j,
               q = stack'[i].path
        PROVE  stack'[j].path \in Needed({q})
    <3>1. CASE j \in 1..n
      <4>1. i \in 1..n
        BY <1>2, <3>1 DEF n
      <4> QED BY <1>3, <2>3, <3>1, <4>1 DEF TrackInv, VisitsAreNeeded, n
    <3>2. CASE j = n + 1
      <4>1. CASE i \in 1..n
        BY <1>3, <1>4, <2>3, <3>2, <4>1 DEF Calls, n
      <4>2. CASE i = n + 1
        <5>1. q = p
          BY <1>4, <2>3, <4>2
        <5> QED BY <1>2, <1>4, <3>2, <5>1, NeededAreClosed
      <4> QED BY <1>7, <3>2, <4>1, <4>2
    <3> QED BY <1>7, <3>1, <3>2
  <2>4. ToSet(roots') \subseteq ToSet(Allowed)
    BY DEF TrackInv, VisitsAreNeeded, Calls
  <2>5. \A i \in 1..(n + 1) : stack'[i].left \subseteq imports'[stack'[i].path]
    BY <2>1 DEF Calls
  <2> QED BY <1>3, <1>5, <2>2, <2>3, <2>4, <2>5 DEF VisitsAreNeeded
<1>11. ~failed /\ AllowedCovered'
  <2>1. stack # <<>> => stack' # <<>> /\ stack'[1].path = stack[1].path
    <3> SUFFICES ASSUME stack # <<>>
                 PROVE  stack' # <<>> /\ stack'[1].path = stack[1].path
      OBVIOUS
    <3>1. 1 \in 1..n /\ n + 1 # 0
      BY <1>2 DEF n
    <3> QED BY <1>3, <3>1
  <2>2. stack = <<>> => stack' # <<>> /\ stack'[1].path = p
    <3> SUFFICES ASSUME stack = <<>>
                 PROVE  stack' # <<>> /\ stack'[1].path = p
      OBVIOUS
    <3>1. n = 0
      BY DEF n
    <3> QED BY <1>3, <1>4, <3>1
  <2> QED BY <1>1, <2>1, <2>2 DEF TrackInv, Outcome, AllowedCovered, Calls
<1>12. Outcome'
  BY <1>11 DEF TrackInv, Outcome, Calls
<1> QED BY <1>8, <1>9, <1>10, <1>12 DEF TrackInv

LEMMA LeaveTracks ==
    ASSUME LoadInv, TrackInv, Leave
    PROVE  TrackInv'
<1>1. PICK n \in Nat \ {0}, p \in Package :
              /\ n = Len(stack) /\ p = stack[n].path /\ stack[n].left = {}
              /\ packages' \in Seq(Package)
              /\ Len(packages') = Len(packages) + 1
              /\ \A i \in 1..Len(packages) : packages'[i] = packages[i]
              /\ packages'[Len(packages) + 1] = p
              /\ Loaded' = Loaded \cup {p}
              /\ stack' \in Seq(Call)
              /\ Len(stack') = n - 1
              /\ \A i \in 1..(n - 1) : stack'[i] = stack[i]
  BY LeaveShape DEF LoadInv
<1>2. /\ UNCHANGED <<tree, imports, sound, once, roots, dependencies, failed>>
      /\ once = "loading" /\ stack # <<>>
  BY DEF Leave, tree
<1>3. \A i \in 1..(n - 1) : i \in 1..n /\ i # n
  BY <1>1
<1>4. \A paths : Needed(paths)' = Needed(paths)
  BY <1>2, TreeStays
<1>5. n \in 1..n /\ packages \in Seq(Package)
  BY <1>1 DEF LoadInv, LoadTypes
<1>6. OncePerPackage'
  <2>1. DOMAIN packages = 1..Len(packages)
        /\ DOMAIN packages' = 1..(Len(packages) + 1)
        /\ Len(packages) \in Nat
    BY <1>1, <1>5
  <2>2. \A i \in 1..Len(packages) : packages[i] # p
    BY <1>1, <1>5, <2>1 DEF TrackInv, OncePerPackage, Loaded, ToSet
  <2>3. \A i, j \in 1..Len(packages) : packages[i] = packages[j] => i = j
    BY <2>1 DEF TrackInv, OncePerPackage, Distinct
  <2>4. \A i \in 1..(Len(packages) + 1) :
            i \in 1..Len(packages) \/ i = Len(packages) + 1
    BY <2>1
  <2>5. Distinct(packages)'
    BY <1>1, <2>1, <2>2, <2>3, <2>4 DEF Distinct
  <2>6. \A i, j \in 1..(n - 1) : stack'[i].path = stack'[j].path => i = j
    BY <1>1, <1>3 DEF TrackInv, OncePerPackage
  <2>7. \A i \in 1..(n - 1) : stack'[i].path \notin Loaded'
    BY <1>1, <1>3, <1>5 DEF TrackInv, OncePerPackage
  <2> QED BY <1>1, <2>5, <2>6, <2>7 DEF OncePerPackage
<1>7. DependenciesKnown'
  <2>1. ASSUME NEW q \in Package,
               q \in Loaded' \/ \E i \in 1..(n - 1) : q = stack'[i].path
        PROVE  q \in Loaded \/ \E i \in 1..n : q = stack[i].path
    BY <1>1, <1>3, <1>5, <2>1
  <2>2. ASSUME NEW q \in Package,
               q \in Loaded' \/ \E i \in 1..(n - 1) : q = stack'[i].path
        PROVE  dependencies'[q] = imports'[q]
    BY <1>1, <1>2, <2>1, <2>2 DEF TrackInv, DependenciesKnown
  <2>3. dependencies' \in [Package -> SUBSET Package]
    BY <1>2 DEF TrackInv, DependenciesKnown
  <2> QED BY <1>1, <2>2, <2>3 DEF DependenciesKnown
<1>8. VisitsAreNeeded'
  <2>1. ASSUME NEW j \in 1..(n - 1), NEW i \in 1..j
        PROVE  i \in 1..(n - 1)
    BY <1>1
  <2>2. \A i \in 1..(n - 1) :
            /\ stack'[i].left \subseteq imports'[stack'[i].path]
            /\ stack'[i].path \in Needed(ToSet(Allowed))
    BY <1>1, <1>2, <1>3 DEF TrackInv, VisitsAreNeeded
  <2>3. ASSUME NEW j \in 1..(n - 1), NEW q \in Package, NEW i \in 1..j,
               q = stack'[i].path
        PROVE  stack'[j].path \in Needed({q})
    BY <1>1, <1>3, <2>1, <2>3 DEF TrackInv, VisitsAreNeeded
  <2>4. ToSet(roots') \subseteq ToSet(Allowed)
    BY <1>2 DEF TrackInv, VisitsAreNeeded
  <2> QED BY <1>1, <1>4, <2>2, <2>3, <2>4 DEF VisitsAreNeeded
<1>9. ~failed /\ AllowedCovered'
  <2>1. CASE n = 1
    BY <1>1, <1>2, <2>1 DEF TrackInv, Outcome, AllowedCovered
  <2>2. CASE n # 1
    <3>1. 1 \in 1..(n - 1) /\ n - 1 # 0
      BY <1>1, <2>2
    <3>2. stack' # <<>> /\ stack'[1].path = stack[1].path
      BY <1>1, <3>1
    <3> QED BY <1>1, <1>2, <3>2 DEF TrackInv, Outcome, AllowedCovered
  <2> QED BY <2>1, <2>2
<1>10. Outcome'
  BY <1>2, <1>9 DEF TrackInv, Outcome
<1> QED BY <1>6, <1>7, <1>8, <1>10 DEF TrackInv

(* What is refused is needed by contracts, or needs itself. *)
LEMMA RefusedIsBroken ==
    ASSUME LoadInv, TrackInv, NEW p \in Needed(ToSet(Allowed)), Refused(p),
           \A i \in 1..Len(stack) :
              \E q \in Needed(ToSet(Allowed)) :
                 p \in imports[q] /\ q \in Needed({stack[i].path})
    PROVE  Broken
<1>1. CASE p \notin sound
  BY <1>1 DEF Broken
<1>2. CASE p \in Visiting
  <2>1. PICK i \in 1..Len(stack) : p = stack[i].path
    BY <1>2 DEF Visiting, LoadInv, LoadTypes
  <2>2. PICK q \in Needed(ToSet(Allowed)) : p \in imports[q] /\ q \in Needed({p})
    BY <2>1
  <2>3. Cyclic(q)
    BY <2>2 DEF Cyclic
  <2> QED BY <2>2, <2>3 DEF Broken
<1> QED BY <1>1, <1>2 DEF Refused

LEMMA FailTracks ==
    ASSUME LoadInv, TrackInv, Fail
    PROVE  TrackInv'
<1>1. imports \in [Package -> SUBSET Package] /\ roots \in Seq(Package)
      /\ stack \in Seq(Call)
  BY DEF LoadInv, LoadTypes
<1>2. /\ Needed(ToSet(Allowed)) \in SUBSET Package
      /\ ToSet(Allowed) \subseteq Needed(ToSet(Allowed))
      /\ Closed(Needed(ToSet(Allowed)))
  BY <1>1, AllowedType, NeededAreClosed
<1>3. Broken
  <2>1. CASE stack = <<>> /\ roots # <<>> /\ Refused(Head(roots))
    <3>1. Head(roots) \in ToSet(roots)
      <4>1. Head(roots) = roots[1] /\ 1 \in DOMAIN roots
        BY <1>1, <2>1
      <4> QED BY <4>1 DEF ToSet
    <3>2. Head(roots) \in Needed(ToSet(Allowed))
      BY <1>2, <3>1 DEF TrackInv, VisitsAreNeeded
    <3>3. 1..Len(stack) = {}
      BY <2>1
    <3> QED BY <2>1, <3>2, <3>3, RefusedIsBroken
  <2>2. CASE stack # <<>> /\ Top.left # {} /\ Refused(First(Top.left))
    <3>1. PICK p : p = First(Top.left)
      OBVIOUS
    <3>2. PICK n \in Nat \ {0} : n = Len(stack)
      BY <1>1, <2>2
    <3>3. p \in stack[n].left /\ n \in 1..n
      BY <2>2, <3>1, <3>2, FirstIsLeft DEF LoadInv
    <3>4. PICK q \in Package : q = stack[n].path
      BY <3>2, <3>3, StackTypes DEF LoadInv
    <3>5. p \in imports[q] /\ q \in Needed(ToSet(Allowed))
      BY <3>2, <3>3, <3>4 DEF TrackInv, VisitsAreNeeded
    <3>6. p \in Needed(ToSet(Allowed))
      BY <1>2, <3>5 DEF Closed
    <3>7. ASSUME NEW i \in 1..n
          PROVE  q \in Needed({stack[i].path})
      <4>1. stack[i].path \in Package
        BY <3>2, StackTypes DEF LoadInv
      <4> QED BY <3>2, <3>3, <3>4, <4>1 DEF TrackInv, VisitsAreNeeded
    <3> QED BY <2>2, <3>1, <3>2, <3>5, <3>6, <3>7, RefusedIsBroken
  <2> QED BY <2>1, <2>2 DEF Fail
<1>4. /\ Broken'
      /\ once' = "done" /\ failed' = TRUE /\ dependencies' = NoDependencies
      /\ stack' = <<>> /\ roots' = <<>> /\ packages' = <<>>
  BY <1>3, TreeStays DEF Fail, Abort
<1>5. 1..Len(stack') = {} /\ Loaded' = {} /\ ToSet(roots') = {}
      /\ DOMAIN packages' = {}
  <2>1. DOMAIN <<>> = {}
    OBVIOUS
  <2> QED BY <1>4, <2>1 DEF Loaded, ToSet
<1>6. OncePerPackage'
  BY <1>5 DEF OncePerPackage, Distinct
<1>7. DependenciesKnown'
  BY <1>4, <1>5 DEF DependenciesKnown, NoDependencies
<1>8. VisitsAreNeeded'
  BY <1>5 DEF VisitsAreNeeded
<1>9. Outcome'
  BY <1>4 DEF Outcome
<1> QED BY <1>6, <1>7, <1>8, <1>9 DEF TrackInv

LEMMA VisitRootTracks ==
    ASSUME LoadInv, TrackInv, VisitRoot
    PROVE  TrackInv'
<1>1. PICK p : p = Head(roots)
  OBVIOUS
<1>2. /\ roots \in Seq(Package) /\ roots # <<>>
      /\ imports \in [Package -> SUBSET Package]
      /\ stack = <<>> /\ stack \in Seq(Call) /\ Len(stack) = 0
      /\ once = "loading" /\ roots' = Tail(roots)
      /\ UNCHANGED <<imports, sound, once, packages, failed>>
  BY DEF VisitRoot, Visit, tree, LoadInv, LoadTypes
<1>3. /\ p \in ToSet(roots) /\ p \in Package
      /\ ToSet(Tail(roots)) \subseteq ToSet(roots)
      /\ \A q \in ToSet(roots) : q \in ToSet(Tail(roots)) \/ q = p
  <2> PICK rest : rest = Tail(roots)
    OBVIOUS
  <2>1. /\ p = roots[1] /\ Len(roots) \in Nat \ {0}
        /\ DOMAIN roots = 1..Len(roots)
        /\ rest \in Seq(Package)
        /\ DOMAIN rest = 1..(Len(roots) - 1)
        /\ \A i \in 1..(Len(roots) - 1) : rest[i] = roots[i + 1]
    BY <1>1, <1>2
  <2>2. 1 \in 1..Len(roots) /\ roots[1] \in Package
    BY <1>2, <2>1
  <2>3. \A i \in 1..(Len(roots) - 1) : i + 1 \in 1..Len(roots)
    BY <2>1
  <2>4. \A i \in 1..Len(roots) :
            i # 1 => i - 1 \in 1..(Len(roots) - 1) /\ (i - 1) + 1 = i
    BY <2>1
  <2>5. ToSet(rest) \subseteq ToSet(roots)
    BY <2>1, <2>3 DEF ToSet
  <2>6. \A q \in ToSet(roots) : q \in ToSet(rest) \/ q = p
    <3> SUFFICES ASSUME NEW i \in 1..Len(roots), i # 1
                 PROVE  roots[i] \in ToSet(rest)
      BY <2>1 DEF ToSet
    <3> QED BY <2>1, <2>4 DEF ToSet
  <2> QED BY <2>1, <2>2, <2>5, <2>6 DEF ToSet
<1>4. p \in Needed(ToSet(Allowed))
  BY <1>2, <1>3, AllowedType, NeededAreClosed DEF TrackInv, VisitsAreNeeded
<1>5. Calls(p, stack)
  BY <1>2, <1>3, <1>4 DEF Calls
<1>6. CASE p \in Loaded
  <2>1. stack' = stack /\ UNCHANGED dependencies
    BY <1>1, <1>6 DEF VisitRoot, Visit
  <2> QED BY <1>2, <1>3, <1>5, <1>6, <2>1, SkipTracks
<1>7. CASE p \notin Loaded
  <2>1. /\ p \notin Visiting
        /\ stack' = Append(stack, [path |-> p, left |-> imports[p]])
        /\ dependencies' = [dependencies EXCEPT ![p] = imports[p]]
    BY <1>1, <1>7 DEF VisitRoot, Visit, Refused
  <2> QED BY <1>2, <1>3, <1>5, <1>7, <2>1, EnterTracks
<1> QED BY <1>6, <1>7

LEMMA VisitImportTracks ==
    ASSUME LoadInv, TrackInv, VisitImport
    PROVE  TrackInv'
<1>1. PICK p : p = First(Top.left)
  OBVIOUS
<1>2. PICK below : GoesOn(p, below)
  BY DEF GoesOn
<1>3. /\ stack # <<>> /\ stack \in Seq(Call) /\ Top.left # {}
      /\ imports \in [Package -> SUBSET Package]
      /\ once = "loading"
      /\ Visit(p, below)
      /\ UNCHANGED <<imports, sound, once, roots, packages, failed>>
  BY <1>1, <1>2 DEF VisitImport, Visit, tree, LoadInv, LoadTypes, GoesOn
<1>4. PICK n \in Nat \ {0} : n = Len(stack)
  BY <1>3
<1>5. p \in stack[n].left /\ p \in Package /\ n \in 1..n
  BY <1>1, <1>3, <1>4, FirstIsLeft DEF LoadInv
<1>6. /\ below \in Seq(Call)
      /\ Len(below) = n
      /\ \A i \in 1..n : below[i].path = stack[i].path
      /\ \A i \in 1..n : i # n => below[i].left = stack[i].left
      /\ below[n].left = stack[n].left \ {p}
      /\ \A i \in 1..n : below[i].left \subseteq stack[i].left
  BY <1>2, <1>3, <1>4, TopGoesOn DEF LoadInv
<1>7. PICK q \in Package : q = stack[n].path
  BY <1>4, <1>5, StackTypes DEF LoadInv
<1>8. p \in imports[q] /\ q \in Needed(ToSet(Allowed))
  BY <1>4, <1>5, <1>7 DEF TrackInv, VisitsAreNeeded
<1>9. p \in Needed(ToSet(Allowed))
  BY <1>3, <1>8, AllowedType, NeededAreClosed DEF Closed
<1>10. ASSUME NEW i \in 1..n
       PROVE  p \in Needed({stack[i].path})
  <2>1. stack[i].path \in Package
    BY <1>4, StackTypes DEF LoadInv
  <2>2. q \in Needed({stack[i].path})
    BY <1>4, <1>5, <1>7, <2>1 DEF TrackInv, VisitsAreNeeded
  <2> QED BY <1>3, <1>8, <2>1, <2>2, NeededAreClosed DEF Closed
<1>11. Calls(p, below)
  <2>1. ToSet(roots') = ToSet(roots)
    BY <1>3
  <2>2. /\ Len(below) = Len(stack)
        /\ \A i \in 1..Len(stack) :
              /\ below[i].path = stack[i].path
              /\ below[i].left \subseteq stack[i].left
              /\ p \in Needed({stack[i].path})
    BY <1>4, <1>6, <1>10
  <2>3. \A r \in ToSet(roots) : r \in ToSet(roots')
    BY <2>1
  <2>4. ToSet(roots') \subseteq ToSet(roots)
    BY <2>1
  <2>5. once = "loading" /\ UNCHANGED <<imports, sound, once, packages, failed>>
    BY <1>3
  <2> QED BY <1>9, <2>2, <2>3, <2>4, <2>5 DEF Calls
<1>12. CASE p \in Loaded
  <2>1. stack' = below /\ UNCHANGED dependencies
    BY <1>3, <1>12 DEF Visit
  <2> QED BY <1>5, <1>6, <1>11, <1>12, <2>1, SkipTracks
<1>13. CASE p \notin Loaded
  <2>1. /\ p \notin Visiting
        /\ stack' = Append(below, [path |-> p, left |-> imports[p]])
        /\ dependencies' = [dependencies EXCEPT ![p] = imports[p]]
    BY <1>3, <1>13 DEF Visit, Refused
  <2> QED BY <1>5, <1>6, <1>11, <1>13, <2>1, EnterTracks
<1> QED BY <1>12, <1>13

LEMMA OnceTracks ==
    ASSUME LoadInv, TrackInv,
           UNCHANGED <<tree, roots, stack, packages, dependencies, failed>>,
           \/ UNCHANGED once
           \/ once' = "loading" /\ once = "new"
           \/ once' = "done" /\ stack = <<>> /\ roots = <<>>
    PROVE  TrackInv'
<1>1. Loaded' = Loaded
  BY DEF Loaded, ToSet
<1>2. /\ \A paths : Needed(paths)' = Needed(paths)
      /\ Broken' = Broken
  BY TreeStays
<1>3. OncePerPackage'
  BY <1>1 DEF TrackInv, OncePerPackage, Distinct
<1>4. DependenciesKnown'
  BY <1>1 DEF TrackInv, DependenciesKnown, tree
<1>5. VisitsAreNeeded'
  BY <1>1, <1>2 DEF TrackInv, VisitsAreNeeded, tree
<1>6. Outcome'
  BY <1>1, <1>2 DEF TrackInv, Outcome, AllowedCovered
<1> QED BY <1>3, <1>4, <1>5, <1>6 DEF TrackInv

LEMMA TrackInvNext == LoadInv /\ TrackInv /\ [Next]_vars => TrackInv'
<1> SUFFICES ASSUME LoadInv, TrackInv, [Next]_vars PROVE TrackInv'
  OBVIOUS
<1>1. CASE Load
  <2>1. CASE Done
    BY <2>1, OnceTracks DEF Done
  <2> QED BY <1>1, <2>1, VisitRootTracks, VisitImportTracks, FailTracks,
             LeaveTracks DEF Load
<1>2. CASE \E m \in Machine : EnterOnce(m)
  BY <1>2, OnceTracks DEF EnterOnce
<1>3. CASE UNCHANGED <<tree, loading>>
  BY <1>3, OnceTracks DEF loading
<1> QED BY <1>1, <1>2, <1>3 DEF Next, Ask, Answer, Use, vars

---------------------------------------------------------------------------
Asked ==
    {Idle}
      \cup [stage : {"waiting"}, contract : Contracts]
      \cup [stage : {"answered"}, contract : Contracts,
            failed : BOOLEAN, selected : Seq(Package)]

(* What a machine got: MachinesGetWhatTheyNeed says so of every request. *)
Right(r) ==
    LET direct == r.contract \ {HostABI} IN
    IF r.failed
    THEN Broken /\ direct # {}
    ELSE /\ ToSet(r.selected) = Needed(direct)
         /\ Distinct(r.selected)
         /\ InOrder(r.selected)
         /\ direct # {} => ~Broken

(* A machine waits for packages only if its contract imports some. *)
RequestInv ==
    /\ request \in [Machine -> Asked]
    /\ \A m \in Machine : request[m].stage = "waiting" =>
          request[m].contract \cap ToSet(Allowed) # {}
    /\ \A m \in Machine : request[m].stage = "answered" => Right(request[m])

LEMMA RequestInvInit == Init => RequestInv
BY DEF Init, RequestInv, Asked, Idle

LEMMA DirectAreAllowed ==
    ASSUME NEW contract \in Contracts
    PROVE  contract \ {HostABI} = ToSet(Allowed) \cap contract
<1>1. HostABI \notin ToSet(Allowed)
  BY AllowedType, StdlibAssumption
<1> QED BY <1>1 DEF Contracts

LEMMA RightStays ==
    ASSUME UNCHANGED tree
    PROVE  \A r : Right(r)' = Right(r)
<1>1. \A paths : Needed(paths)' = Needed(paths)
  BY TreeStays
<1>2. \A order : InOrder(order)' = InOrder(order)
  BY DEF InOrder, tree
<1> TAKE r
<1>3. Broken' = Broken
  BY TreeStays
<1>4. Needed(r.contract \ {HostABI})' = Needed(r.contract \ {HostABI})
  BY <1>1
<1>5. InOrder(r.selected)' = InOrder(r.selected)
  BY <1>2
<1> QED BY <1>3, <1>4, <1>5 DEF Right, Distinct

(* A contract that imports none of the packages needs none. *)
LEMMA AskAnswers ==
    ASSUME LoadTypes, NEW contract \in Contracts
    PROVE  /\ ContractImports(contract) = <<>>
                => Right(Got(contract, FALSE, <<>>))
           /\ ContractImports(contract) # <<>>
                => contract \cap ToSet(Allowed) # {}
<1>1. /\ ContractImports(contract) \in Seq(Package)
      /\ ToSet(ContractImports(contract)) = ToSet(Allowed) \cap contract
  BY AllowedType, KeptInOrder DEF ContractImports
<1>2. CASE ContractImports(contract) = <<>>
  <2>1. ToSet(Allowed) \cap contract = {} /\ DOMAIN <<>> = {} /\ ToSet(<<>>) = {}
    BY <1>1, <1>2 DEF ToSet
  <2>2. Needed({}) \subseteq {}
    <3>1. {} \in SUBSET Package /\ {} \in SUBSET {} /\ Closed({})
      BY DEF Closed
    <3> QED BY <3>1, NeededAreLeast
  <2>3. Distinct(<<>>) /\ InOrder(<<>>)
    BY <2>1 DEF Distinct, InOrder
  <2>4. contract \ {HostABI} = {}
    BY <2>1, DirectAreAllowed
  <2> QED BY <1>2, <2>1, <2>2, <2>3, <2>4 DEF Right, Got
<1>3. CASE ContractImports(contract) # <<>>
  <2>1. PICK s \in Seq(Package) : s = ContractImports(contract)
    BY <1>1
  <2>2. 1 \in DOMAIN s
    BY <1>3, <2>1
  <2>3. s[1] \in ToSet(s)
    BY <2>2 DEF ToSet
  <2> QED BY <1>1, <1>3, <2>1, <2>3
<1> QED BY <1>2, <1>3

(* Once loading is done, all that is allowed can be loaded, or it cannot. *)
LEMMA LoadedIsEnough ==
    ASSUME LoadInv, TrackInv, once = "done", ~failed
    PROVE  /\ Loaded \in SUBSET Package
           /\ Closed(Loaded)
           /\ ToSet(Allowed) \subseteq Loaded
           /\ ~Broken
<1>1. packages \in Seq(Package) /\ imports \in [Package -> SUBSET Package]
  BY DEF LoadInv, LoadTypes
<1>2. /\ DOMAIN packages = 1..Len(packages)
      /\ Len(packages) \in 0..Len(packages)
      /\ Loaded = {packages[i] : i \in 1..Len(packages)}
  BY <1>1 DEF Loaded, ToSet
<1>3. Loaded \in SUBSET Package
  BY <1>1, <1>2
<1>4. Closed(Loaded)
  BY <1>1, <1>2, ClosedLoaded DEF LoadInv
<1>5. ToSet(Allowed) \subseteq Loaded
  <2>1. stack = <<>> /\ ToSet(roots) = {}
    <3>1. DOMAIN <<>> = {} /\ stack = <<>> /\ roots = <<>>
      BY DEF TrackInv, Outcome
    <3> QED BY <3>1 DEF ToSet
  <2> QED BY <2>1 DEF TrackInv, Outcome, AllowedCovered
<1>6. Needed(ToSet(Allowed)) \subseteq Loaded
  BY <1>3, <1>4, <1>5, NeededAreLeast
<1>7. \A p \in Loaded : ~Cyclic(p)
  BY <1>1, OrderIsAcyclic DEF Loaded, LoadInv, TrackInv, OncePerPackage
<1>8. ~Broken
  BY <1>6, <1>7 DEF Broken, LoadInv, VisitedSound
<1> QED BY <1>3, <1>4, <1>5, <1>8

LEMMA AnswerIsRight ==
    ASSUME LoadInv, TrackInv, once = "done", NEW contract \in Contracts,
           contract \cap ToSet(Allowed) # {},
           NEW selected,
           selected = IF failed THEN <<>> ELSE Kept(packages, Included(contract))
    PROVE  selected \in Seq(Package) /\ Right(Got(contract, failed, selected))
<1> DEFINE direct == ToSet(Allowed) \cap contract
<1>1. direct # {} /\ direct = contract \ {HostABI} /\ direct \in SUBSET Package
  BY DirectAreAllowed, AllowedType
<1>2. CASE failed
  BY <1>1, <1>2 DEF Right, Got, TrackInv, Outcome
<1>3. CASE ~failed
  <2>1. imports \in [Package -> SUBSET Package] /\ packages \in Seq(Package)
    BY DEF LoadInv, LoadTypes
  <2>2. /\ Closed(Needed(direct))
        /\ Needed(direct) \subseteq Loaded
        /\ ~Broken
    <3>1. direct \subseteq Loaded
      BY <1>3, LoadedIsEnough
    <3> HIDE DEF direct
    <3> QED BY <1>1, <1>3, <2>1, <3>1, LoadedIsEnough, NeededAreLeast,
               NeededAreClosed
  <2>3. \A p \in Needed(direct) : dependencies[p] = imports[p]
    <3>1. Loaded \in SUBSET Package
      BY <1>3, LoadedIsEnough
    <3> HIDE DEF direct
    <3> QED BY <2>2, <3>1 DEF TrackInv, DependenciesKnown
  <2>4. Included(contract) = Needed(direct)
    BY <2>1, <2>3, IncludedAreNeeded
  <2>5. /\ selected \in Seq(Package)
        /\ ToSet(selected) = Loaded \cap Needed(direct)
        /\ Distinct(selected)
        /\ InOrder(selected)
    <3>1. InOrder(packages) /\ Distinct(packages)
      BY DEF LoadInv, TrackInv, OncePerPackage
    <3>2. selected = Kept(packages, Needed(direct))
      BY <1>3, <2>4
    <3> HIDE DEF direct
    <3> QED BY <2>1, <2>2, <3>1, <3>2, KeptInOrder DEF Loaded
  <2> HIDE DEF direct
  <2> QED BY <1>1, <1>3, <2>2, <2>5 DEF Right, Got
<1> QED BY <1>2, <1>3

LEMMA RequestInvNext ==
    LoadInv /\ TrackInv /\ RequestInv /\ [Next]_vars => RequestInv'
<1> SUFFICES ASSUME LoadInv, TrackInv, RequestInv, [Next]_vars
             PROVE  RequestInv'
  OBVIOUS
<1>1. UNCHANGED tree
  BY DEF Next, Load, VisitRoot, VisitImport, Fail, Leave, Done, Ask, EnterOnce,
         Answer, Use, vars, tree
<1>2. \A r : Right(r)' = Right(r)
  BY <1>1, RightStays
<1>3. CASE UNCHANGED request
  BY <1>2, <1>3 DEF RequestInv
<1>4. ASSUME NEW m \in Machine, NEW r \in Asked,
             request' = [request EXCEPT ![m] = r],
             r.stage = "waiting" => r.contract \cap ToSet(Allowed) # {},
             r.stage = "answered" => Right(r)
      PROVE  RequestInv'
  <2>1. request' \in [Machine -> Asked]
    BY <1>4 DEF RequestInv
  <2>2. \A k \in Machine : request'[k] = IF k = m THEN r ELSE request[k]
    BY <1>4 DEF RequestInv
  <2>3. \A k \in Machine : request'[k].stage = "answered" => Right(request'[k])
    BY <1>4, <2>2 DEF RequestInv
  <2>4. \A k \in Machine :
            request'[k].stage = "answered" => Right(request[k])'
    <3> TAKE k \in Machine
    <3> PICK q : q = request'[k]
      OBVIOUS
    <3>1. q.stage = "answered" => Right(q)
      BY <2>3
    <3> QED BY <1>2, <3>1
  <2>5. \A k \in Machine : request'[k].stage = "waiting" =>
            request'[k].contract \cap ToSet(Allowed) # {}
    BY <1>4, <2>2 DEF RequestInv
  <2> QED BY <2>1, <2>4, <2>5 DEF RequestInv
<1>5. ASSUME NEW m \in Machine, NEW contract \in Contracts, Ask(m, contract)
      PROVE  RequestInv'
  <2>1. CASE ContractImports(contract) = <<>>
    <3> PICK r : r = Got(contract, FALSE, <<>>)
      OBVIOUS
    <3>1. r \in Asked /\ r.stage = "answered"
      BY DEF Got, Asked
    <3>2. Right(r)
      BY <2>1, AskAnswers DEF LoadInv
    <3>3. request' = [request EXCEPT ![m] = r]
      BY <1>5, <2>1 DEF Ask
    <3> QED BY <1>4, <3>1, <3>2, <3>3
  <2>2. CASE ContractImports(contract) # <<>>
    <3> PICK r : r = [stage |-> "waiting", contract |-> contract]
      OBVIOUS
    <3>1. r \in Asked /\ r.stage = "waiting" /\ r.contract = contract
      BY DEF Asked
    <3>2. request' = [request EXCEPT ![m] = r]
      BY <1>5, <2>2 DEF Ask
    <3> QED BY <1>4, <2>2, <3>1, <3>2, AskAnswers DEF LoadInv
  <2> QED BY <2>1, <2>2
<1>6. ASSUME NEW m \in Machine, Answer(m)
      PROVE  RequestInv'
  <2> PICK contract : contract = request[m].contract
    OBVIOUS
  <2> PICK selected :
        selected = IF failed THEN <<>> ELSE Kept(packages, Included(contract))
    OBVIOUS
  <2> PICK r : r = Got(contract, failed, selected)
    OBVIOUS
  <2>1. /\ contract \in Contracts
        /\ contract \cap ToSet(Allowed) # {}
        /\ once = "done" /\ failed \in BOOLEAN
    <3>1. request[m] \in Asked /\ request[m].stage = "waiting"
      BY <1>6 DEF RequestInv, Answer
    <3>2. contract \in Contracts
      BY <3>1 DEF Asked, Idle
    <3> QED BY <1>6, <3>1, <3>2 DEF RequestInv, Answer, TrackInv, Outcome
  <2>2. selected \in Seq(Package) /\ Right(r)
    BY <2>1, AnswerIsRight
  <2>3. r \in Asked /\ r.stage = "answered"
    BY <2>1, <2>2 DEF Got, Asked
  <2>4. request' = [request EXCEPT ![m] = r]
    BY <1>6 DEF Answer
  <2> QED BY <1>4, <2>2, <2>3, <2>4
<1>7. ASSUME NEW m \in Machine, Use(m)
      PROVE  RequestInv'
  <2>1. Idle \in Asked /\ Idle.stage = "idle"
    BY DEF Asked, Idle
  <2>2. request' = [request EXCEPT ![m] = Idle]
    BY <1>7 DEF Use
  <2> QED BY <1>4, <2>1, <2>2
<1>8. UNCHANGED request
      \/ \E m \in Machine : \/ \E contract \in Contracts : Ask(m, contract)
                            \/ Answer(m)
                            \/ Use(m)
  BY DEF Next, Load, VisitRoot, VisitImport, Fail, Leave, Done, EnterOnce, vars
<1> QED BY <1>3, <1>5, <1>6, <1>7, <1>8

Inv == LoadInv /\ TrackInv /\ RequestInv

LEMMA InvHolds == Spec => []Inv
<1>1. Init => Inv
  BY LoadInvInit, TrackInvInit, RequestInvInit DEF Inv
<1>2. Inv /\ [Next]_vars => Inv'
  BY LoadInvNext, TrackInvNext, RequestInvNext DEF Inv
<1> QED BY <1>1, <1>2, PTL DEF Spec

(* Whatever the tree of packages, none is loaded twice or visited while it *)
(* is being visited.                                                       *)
THEOREM TypeCorrect == Spec => []TypeOK
<1>1. Inv => TypeOK
  <2> SUFFICES ASSUME Inv PROVE TypeOK
    OBVIOUS
  <2>1. \A m \in Machine : request[m] \in Asked
    BY DEF Inv, RequestInv
  <2>2. Distinct(packages)
    BY DEF Inv, TrackInv, OncePerPackage
  <2>3. stack \in Seq(Call)
    BY DEF Inv, LoadInv, LoadTypes
  <2>4. DOMAIN stack = 1..Len(stack)
    BY <2>3
  <2>5. Distinct([i \in DOMAIN stack |-> stack[i].path])
    BY <2>4 DEF Inv, TrackInv, OncePerPackage, Distinct
  <2>6. /\ once \in {"new", "loading", "done"}
        /\ failed \in BOOLEAN
        /\ dependencies \in [Package -> SUBSET Package]
    BY DEF Inv, TrackInv, DependenciesKnown, Outcome
  <2> QED BY <2>1, <2>2, <2>3, <2>5, <2>6
             DEF TypeOK, Inv, LoadInv, LoadTypes, Asked
<1> QED BY <1>1, InvHolds, PTL

(* Every machine gets what its contract needs, in order and nothing else,  *)
(* or an error if a package that contracts may import cannot be loaded.    *)
THEOREM EveryMachineIsServed == Spec => []MachinesGetWhatTheyNeed
<1>1. Inv => MachinesGetWhatTheyNeed
  BY DEF Inv, RequestInv, Right, MachinesGetWhatTheyNeed
<1> QED BY <1>1, InvHolds, PTL
=============================================================================
