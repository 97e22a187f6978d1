--------------------------- MODULE StdlibPackages ---------------------------
(***************************************************************************)
(* The Gno packages a machine needs before it can load a contract.         *)
(*                                                                         *)
(* The sources of the standard library are embedded in the program.  The   *)
(* first contract that imports one of the allowed packages has all of      *)
(* these and what they import loaded depth first, once for the process;    *)
(* each machine then runs the packages its contract needs, in the order    *)
(* they were loaded, and a package runs only after those it imports.       *)
(*                                                                         *)
(* The program has one tree of packages; here every tree is a start, with  *)
(* cycles, missing packages and packages that cannot be read.              *)
(***************************************************************************)
EXTENDS Naturals, FiniteSets, Sequences, SequencesExt

CONSTANTS
    Package,   \* paths of packages, as numbers: they are sorted by path
    Allowed,   \* paths a contract may import, in the order of the policy
    HostABI,   \* the path of the host's own package
    Machine    \* goroutines that build a machine

ASSUME StdlibAssumption ==
    /\ Package \subseteq Nat
    /\ Allowed \in Seq(Package)
    /\ HostABI \notin Package

(* The standard library is embedded in the program. *)
ASSUME PackagesAreFinite == IsFiniteSet(Package)

(* sort.Strings: any of the paths that a package imports, one is the first. *)
ASSUME PathsAreSorted ==
    \A paths \in SUBSET Package :
        paths # {} => \E p \in paths : \A q \in paths : p <= q

VARIABLES
    imports,       \* the tree: what the files of each package import
    sound,         \* the packages that exist, parse and import only packages
                   \* of the standard library
    once,          \* gnoStdlibPackagesOnce: "new", "loading" or "done"
    roots,         \* the allowed paths still to visit
    stack,         \* the calls of visit: the path and the imports left
    packages,      \* gnoStdlibPackages
    dependencies,  \* gnoStdlibPackageDependencies; no entry reads as no import
    failed,        \* gnoStdlibPackagesErr
    request        \* what each machine asked for and got

tree    == <<imports, sound>>
loading == <<once, roots, stack, packages, dependencies, failed>>
vars    == <<tree, loading, request>>

NoDependencies == [p \in Package |-> {}]

Idle == [stage |-> "idle"]

Init ==
    /\ imports \in [Package -> SUBSET Package]
    /\ sound \in SUBSET Package
    /\ once = "new"
    /\ roots = Allowed
    /\ stack = <<>>
    /\ packages = <<>>
    /\ dependencies = NoDependencies
    /\ failed = FALSE
    /\ request = [m \in Machine |-> Idle]

---------------------------------------------------------------------------
(* Loading.                                                                *)

Loaded   == ToSet(packages)
Visiting == {stack[i].path : i \in DOMAIN stack}

First(paths) == CHOOSE p \in paths : \A q \in paths : p <= q

(* The load stops at the first error and leaves nothing but the error. *)
Abort ==
    /\ once' = "done"
    /\ failed' = TRUE
    /\ roots' = <<>>
    /\ stack' = <<>>
    /\ packages' = <<>>
    /\ dependencies' = NoDependencies

(* Mutation: what is being visited is not looked at. *)
RefusedIfUnsound(p) == p \notin Loaded /\ p \notin sound

(* A cycle, or a package that cannot be read or imports something else. *)
Refused(p) == p \notin Loaded /\ (p \in Visiting \/ p \notin sound)

(* visit(p), called with the calls below on the stack. *)
Visit(p, below) ==
    /\ ~Refused(p)
    /\ \/ /\ p \in Loaded
          /\ stack' = below
          /\ UNCHANGED dependencies
       \/ /\ p \notin Loaded
          /\ stack' = Append(below, [path |-> p, left |-> imports[p]])
          /\ dependencies' = [dependencies EXCEPT ![p] = imports[p]]
    /\ UNCHANGED <<once, packages, failed>>

VisitRoot ==
    /\ once = "loading"
    /\ stack = <<>>
    /\ roots # <<>>
    /\ Visit(Head(roots), stack)
    /\ roots' = Tail(roots)
    /\ UNCHANGED <<tree, request>>

Top == stack[Len(stack)]

VisitImport ==
    /\ once = "loading"
    /\ stack # <<>>
    /\ Top.left # {}
    /\ LET p == First(Top.left)
           below == [stack EXCEPT ![Len(stack)].left = @ \ {p}]
       IN  Visit(p, below)
    /\ UNCHANGED <<tree, roots, request>>

Fail ==
    /\ once = "loading"
    /\ \/ stack = <<>> /\ roots # <<>> /\ Refused(Head(roots))
       \/ stack # <<>> /\ Top.left # {} /\ Refused(First(Top.left))
    /\ Abort
    /\ UNCHANGED <<tree, request>>

(* visit returns: the package comes after everything it imports. *)
Leave ==
    /\ once = "loading"
    /\ stack # <<>>
    /\ Top.left = {}
    /\ packages' = Append(packages, Top.path)
    /\ stack' = Front(stack)
    /\ UNCHANGED <<tree, once, roots, dependencies, failed, request>>

Done ==
    /\ once = "loading"
    /\ stack = <<>>
    /\ roots = <<>>
    /\ once' = "done"
    /\ UNCHANGED <<tree, roots, stack, packages, dependencies, failed, request>>

Load == VisitRoot \/ VisitImport \/ Fail \/ Leave \/ Done

---------------------------------------------------------------------------
(* Machines.                                                               *)

(* The paths of an order that are in a set, in that order. *)
Kept(order, paths) ==
    LET kept[n \in 0..Len(order)] ==
            IF n = 0 THEN <<>>
            ELSE IF order[n] \in paths THEN Append(kept[n - 1], order[n])
            ELSE kept[n - 1]
    IN  kept[Len(order)]

(* contractGnoStdlibImports *)
ContractImports(contract) == Kept(Allowed, contract)

Got(contract, failure, selected) ==
    [stage |-> "answered", contract |-> contract, failed |-> failure,
     selected |-> selected]

(* A contract that imports none of the packages gets none, and loads none. *)
Ask(m, contract) ==
    /\ request[m].stage = "idle"
    /\ request' = [request EXCEPT ![m] =
                     IF ContractImports(contract) = <<>>
                     THEN Got(contract, FALSE, <<>>)
                     ELSE [stage |-> "waiting", contract |-> contract]]
    /\ UNCHANGED <<tree, loading>>

(* sync.Once: one goroutine loads, the others wait for it. *)
EnterOnce(m) ==
    /\ request[m].stage = "waiting"
    /\ once = "new"
    /\ once' = "loading"
    /\ UNCHANGED <<tree, roots, stack, packages, dependencies, failed, request>>

(* Mutation: only the imports of the contract, not what they import. *)
IncludedDirectly(contract) == ToSet(ContractImports(contract))

(* include: what the contract imports, and so on along the dependencies.   *)
Included(contract) ==
    LET Grow(paths) == paths \cup UNION {dependencies[p] : p \in paths}
        reached[n \in 0..Cardinality(Package)] ==
            IF n = 0 THEN ToSet(ContractImports(contract))
                     ELSE Grow(reached[n - 1])
    IN  reached[Cardinality(Package)]

Answer(m) ==
    LET contract == request[m].contract IN
    /\ request[m].stage = "waiting"
    /\ once = "done"
    /\ request' = [request EXCEPT ![m] =
         Got(contract, failed,
             IF failed THEN <<>> ELSE Kept(packages, Included(contract)))]
    /\ UNCHANGED <<tree, loading>>

(* The machine runs the packages and goes on. *)
Use(m) ==
    /\ request[m].stage = "answered"
    /\ request' = [request EXCEPT ![m] = Idle]
    /\ UNCHANGED <<tree, loading>>

(* Sources whose schema was admitted import nothing else. *)
Contracts == SUBSET (ToSet(Allowed) \cup {HostABI})

Next ==
    \/ Load
    \/ \E m \in Machine :
          \/ \E contract \in Contracts : Ask(m, contract)
          \/ EnterOnce(m)
          \/ Answer(m)
          \/ Use(m)

Spec == Init /\ [][Next]_vars

---------------------------------------------------------------------------
Call == [path : Package, left : SUBSET Package]

Distinct(s) == \A i, j \in DOMAIN s : s[i] = s[j] => i = j

(* No package is loaded twice or visited while it is being visited.        *)
TypeOK ==
    /\ imports \in [Package -> SUBSET Package]
    /\ sound \in SUBSET Package
    /\ once \in {"new", "loading", "done"}
    /\ roots \in Seq(Package)
    /\ stack \in Seq(Call)
    /\ packages \in Seq(Package)
    /\ dependencies \in [Package -> SUBSET Package]
    /\ failed \in BOOLEAN
    /\ \A m \in Machine :
          request[m] \in {Idle}
             \cup [stage : {"waiting"}, contract : Contracts]
             \cup [stage : {"answered"}, contract : Contracts,
                   failed : BOOLEAN, selected : Seq(Package)]
    /\ Distinct(packages)
    /\ Distinct([i \in DOMAIN stack |-> stack[i].path])

(* The packages that a set of packages cannot do without. *)
Closed(paths) == \A p \in paths : imports[p] \subseteq paths
Needed(paths) ==
    {p \in Package :
        \A all \in SUBSET Package : paths \subseteq all /\ Closed(all)
                                    => p \in all}

(* An order in which every package comes after its imports. *)
InOrder(order) ==
    \A i \in DOMAIN order :
        imports[order[i]] \subseteq {order[j] : j \in 1..(i - 1)}

Cyclic(p) == \E q \in imports[p] : p \in Needed({q})

Broken ==
    \E p \in Needed(ToSet(Allowed)) : p \notin sound \/ Cyclic(p)

(* "Schema admission and runtime package registration must derive from     *)
(* this list so an admitted import cannot silently lose runtime support"   *)
(* (import_policy.go): whichever goroutine loaded the packages, every      *)
(* machine gets what its contract needs, nothing else, none before what it *)
(* imports; or an error, and only if a package that contracts may import   *)
(* cannot be loaded at all.                                                *)
MachinesGetWhatTheyNeed ==
    \A m \in Machine : request[m].stage = "answered" =>
        LET r == request[m]
            direct == r.contract \ {HostABI} IN
        IF r.failed
        THEN Broken /\ direct # {}
        ELSE /\ ToSet(r.selected) = Needed(direct)
             /\ Distinct(r.selected)
             /\ InOrder(r.selected)
             /\ direct # {} => ~Broken
=============================================================================
