---------------------------- MODULE MCTypedSchema ----------------------------
(***************************************************************************)
(* Sources for TypedSchema: every pair of declarations of one field each,  *)
(* cycles included, under every global and query result that can be built  *)
(* from them with at most one map or slice; every signature of a function  *)
(* with up to two results, alone, before and after a proper Initialize;    *)
(* and sources at each limit and one beyond it.                            *)
(***************************************************************************)
EXTENDS PersistedSchema

Write == OtherExpr("WriteContext")
Query == OtherExpr("QueryContext")

Func(name, ps, rs) ==
    [name |-> name, exported |-> TRUE, params |-> ps, results |-> rs,
     chainUses |-> {}, paramUses |-> {}]

Initialize == Func("Initialize", <<Write>>, <<Ident("error")>>)

Source(types, globals, functions) ==
    [package |-> "contract", imports |-> <<"mitum/chain">>, types |-> types,
     globals |-> [i \in 1..Len(globals) |-> [type |-> globals[i], explicit |-> TRUE]],
     functions |-> functions]

---------------------------------------------------------------------------
Leaves == {Ident(n) : n \in {"string", "int", "A", "B", "X"}}

Fields ==
    Leaves \cup {MapExpr(Ident("string"), e) : e \in Leaves}
           \cup {SliceExpr(e) : e \in Leaves}
           \cup {MapExpr(Ident("int"), Ident("int")), MapExpr(Ident("A"), Ident("A"))}
           \cup {StructExpr(<<Ident("int")>>), EmbedExpr(<<Ident("A")>>), OtherExpr("")}

Decls == {StructExpr(<<e>>) : e \in Fields} \cup {Ident("int"), Ident("A")}

Globals == {Ident("A"), MapExpr(Ident("string"), Ident("A")), SliceExpr(Ident("B"))}

PlainGlobals ==
    {Ident("X"), MapExpr(Ident("int"), Ident("A")), SliceExpr(Ident("string")),
     MapExpr(Ident("string"), SliceExpr(Ident("int"))), StructExpr(<<Ident("int")>>),
     SliceExpr(MapExpr(Ident("string"), Ident("int")))}

Keeps(a, b, g) ==
    Source([n \in {"A", "B"} |-> IF n = "A" THEN a ELSE b], <<g>>,
           <<Initialize, Func("Get", <<Query>>, <<g>>)>>)

TypeSources ==
    {Keeps(a, b, g) : a \in Decls, b \in Decls, g \in Globals}
        \cup {Keeps(StructExpr(<<Ident("int")>>), Ident("A"), g) : g \in PlainGlobals}

---------------------------------------------------------------------------
NoTypes == [n \in {} |-> OtherExpr("")]

Firsts == {Write, Query, OtherExpr("ContractContext"), SliceExpr(Write),
           MapExpr(Ident("string"), Query), Ident("WriteContext"), Ident("string")}

Arguments == {Ident("int"), SliceExpr(Ident("string"))}

Results == {Ident("error"), Ident("bool"), SliceExpr(Ident("int")), Ident("X")}

SeqsUpTo(S, n) == UNION {[1..m -> S] : m \in 0..n}

Signatures ==
    {Func(name, ps, rs) :
        name \in {"Initialize", "Do"},
        ps \in {<<>>} \cup {<<c>> \o as : c \in Firsts, as \in SeqsUpTo(Arguments, 1)},
        rs \in SeqsUpTo(Results, 2)}

FunctionSources ==
    {Source(NoTypes, <<>>, fs) :
        fs \in {<<f>> : f \in Signatures}
               \cup {<<f, Initialize>> : f \in Signatures}
               \cup {<<Initialize, f>> : f \in Signatures}}

OtherSources ==
    LET base == Source(NoTypes, <<Ident("int")>>, <<Initialize>>)
        Do(us, vs, c) == [Func("Do", <<c>>, <<Ident(IF c = Write THEN "error" ELSE "int")>>)
                            EXCEPT !.chainUses = us, !.paramUses = vs]
    IN  {[base EXCEPT !.package = "main"], [base EXCEPT !.imports = <<"time">>],
         [base EXCEPT !.imports = <<>>], [base EXCEPT !.globals[1].explicit = FALSE],
         [base EXCEPT !.functions = <<>>],
         [base EXCEPT !.functions =
             <<Initialize, [Func("help", <<Write, Ident("X")>>, <<>>) EXCEPT !.exported = FALSE]>>],
         [base EXCEPT !.imports = <<"mitum/chain", "strconv", "strings">>],
         [base EXCEPT !.imports = <<"mitum/chain", "strconv", "strconv">>],
         Source(NoTypes, <<Ident("int"), Ident("int"), Ident("int")>>, <<Initialize>>),
         Source([n \in {"A", "B", "C"} |-> StructExpr(<<Ident("int")>>)], <<>>, <<Initialize>>),
         Source([n \in {"A"} |-> StructExpr(<<Ident("int"), Ident("int"), Ident("int")>>)],
                <<>>, <<Initialize>>),
         Source([n \in {"A"} |-> StructExpr(<<Ident("int"), MapExpr(Ident("string"), Ident("int"))>>)],
                <<MapExpr(Ident("string"), Ident("A")), SliceExpr(Ident("A"))>>,
                <<Initialize, Initialize>>)}
        \cup {[base EXCEPT !.functions = @ \o <<Do(us, vs, c)>>] :
                 us \in SUBSET {"CurrentHeight"},
                 vs \in SUBSET {"GetCurrentHeight", "GetBlockTime"}, c \in {Write, Query}}

MCSources == TypeSources \cup FunctionSources \cup OtherSources
=============================================================================
