--------------------------- MODULE ContractLedger ---------------------------
(***************************************************************************)
(* What a contract promises to those who use it, with no proposals,        *)
(* workers or merges in sight: a block changes a contract by at most one   *)
(* operation, and an operation changes it by all its items or not at all.  *)
(* A registration opens the book of a contract, calls extend it.           *)
(***************************************************************************)
EXTENDS ContractFacts

CONSTANTS Time, None

VARIABLES
    book,   \* the invocations each contract has seen, None before it exists
    height  \* blocks so far

ledgerVars == <<book, height>>

LedgerInit ==
    /\ book = [c \in Contract |-> None]
    /\ height = 0

(* The invocations of one operation, all made in one block. *)
Invocations(o, t) ==
    [i \in 1..Len(Fact[o].items) |->
        [op |-> o, item |-> i, fn |-> Fact[o].items[i].fn,
         time |-> t, height |-> height + 1]]

Unused(c, o) == \A i \in 1..Len(book[c]) : book[c][i].op # o

(* o is an operation a block may apply to c. *)
MayApply(c, o) ==
    /\ Fact[o].contract = c
    /\ \/ Fact[o].kind = "register" /\ book[c] = None
       \/ Fact[o].kind = "call" /\ book[c] # None /\ Unused(c, o)

Apply(c, o, t) ==
    IF Fact[o].kind = "register" THEN Invocations(o, t)
                                 ELSE book[c] \o Invocations(o, t)

Block(t) ==
    /\ height' = height + 1
    /\ \E winner \in [Contract -> Op \cup {None}] :
          /\ \A c \in Contract : winner[c] # None => MayApply(c, winner[c])
          /\ book' = [c \in Contract |->
                        IF winner[c] = None THEN book[c]
                                            ELSE Apply(c, winner[c], t)]

LedgerNext == \E t \in Time : Block(t)

LedgerSpec == LedgerInit /\ [][LedgerNext]_ledgerVars
=============================================================================
