--------------------------- MODULE MCSnapshotCodec ---------------------------
(* Contracts whose globals cover every rule of the types that may be kept. *)
EXTENDS SnapshotCodec

NoStructs == [n \in {} |-> Struct("", <<>>)]

OneStruct(fields) == [n \in {"A"} |-> Struct("A", fields)]

Dict(t) == MapOf(Scalar("string"), t)

MCSchemas ==
    {[structs |-> NoStructs, globals |-> <<Scalar("string"), Dict(Scalar("int"))>>],
     [structs |-> NoStructs, globals |-> <<SliceOf(Scalar("bool")), Scalar("uint64")>>],
     [structs |-> OneStruct(<<Dict(Scalar("int64"))>>), globals |-> <<Dict(Named("A"))>>],
     [structs |-> OneStruct(<<Scalar("bool"), SliceOf(Scalar("int"))>>),
      globals |-> <<SliceOf(Named("A"))>>],
     [structs |-> [n \in {"A", "B"} |->
                     IF n = "A" THEN Struct("A", <<Dict(Scalar("string"))>>)
                     ELSE Struct("B", <<Named("A"), Scalar("bool")>>)],
      globals |-> <<Named("B")>>],
     \* not admitted
     [structs |-> NoStructs, globals |-> <<Dict(SliceOf(Scalar("int")))>>],
     [structs |-> OneStruct(<<Named("A")>>), globals |-> <<Named("A")>>]}

TextSchemas ==
    {[structs |-> OneStruct(<<Scalar("string")>>), globals |-> <<Named("A"), Scalar("int")>>],
     [structs |-> NoStructs, globals |-> <<Dict(Scalar("string"))>>]}
=============================================================================
