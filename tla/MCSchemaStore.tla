--------------------------- MODULE MCSchemaStore ---------------------------
(***************************************************************************)
(* A small instance of SchemaStore: two rule sets that read one source     *)
(* differently and of which the second refuses another one.                *)
(***************************************************************************)
EXTENDS SchemaStore, TLC

CONSTANTS rules1, rules2, sigA, sigB, wide, strict

(* wide means one thing under each rule set, strict is admitted by one. *)
MCAnalysis ==
    rules1 :> (wide :> sigA @@ strict :> sigA)
    @@ rules2 :> (wide :> sigB @@ strict :> Refused)

(* Nodes, goroutines and formats are only compared.                         *)
Symmetry ==
    Permutations(Node) \cup Permutations(Worker) \cup Permutations(Format)
=============================================================================
