---------------------------- MODULE BlockImport ----------------------------
(***************************************************************************)
(* The import command: blocks of a source directory are checked, and then  *)
(* written to the storage of a node, height by height.                     *)
(*                                                                         *)
(* The source may keep the items of a block elsewhere and name where.      *)
(* Such items are downloaded twice, to be validated and to be imported,    *)
(* and what is served may change in between; so an import saves what it    *)
(* reads for the validation in files of a cache directory, which it        *)
(* removes at its end and a killed import leaves behind.  A file is there  *)
(* before the block it belongs to is validated.                            *)
(***************************************************************************)
EXTENDS Integers, Sequences, SequencesExt

CONSTANTS
    MaxHeight,  \* of the blocks a source can have
    Content,    \* what an item file of a height can hold and be decoded
    Valid,      \* what IsValidBlockFromLocalFS accepts
    None,       \* no such item, none that can be decoded, or no such file
    Partial,    \* a file that was not written to its end
    MaxChanges, \* bound on changes of what is served
    MaxCrashes  \* bound on killed imports

ASSUME ImportAssumption ==
    /\ MaxHeight \in Nat
    /\ Valid \subseteq Content
    /\ None \notin Content /\ Partial \notin Content /\ None # Partial
    /\ {MaxChanges, MaxCrashes} \subseteq Nat

GenesisHeight == 0
NilHeight     == -1
Heights       == GenesisHeight..MaxHeight
Heights0      == NilHeight..MaxHeight

VARIABLES
    chain,      \* the blocks of the node; chain[h + 1] is the one of height h
    remote,     \* the heights whose items the source keeps elsewhere
    source,     \* what is in the source, or served elsewhere, at each height
    top,        \* the highest directory of the source
    files,      \* files of the cache directory, by whether the command made
                \* the directory itself
    run,        \* the running command
    progress,   \* how far the validation of each height is
    item,       \* what the validation of each height has read
    validated,  \* history: contents that were found valid at each height
    unchecked,  \* history: heights of which a killed command left a file that
                \* was not validated
    reported,   \* history: heights a command reported as imported
    changes, crashes

command == <<run, progress, item>>
history == <<validated, unchecked, reported>>
bounds  == <<changes, crashes>>
vars    == <<chain, remote, source, top, files, command, history, bounds>>

LastLocal == Len(chain) - 1

NoFiles == [h \in Heights |-> None]

NoRun == [stage |-> "none"]

Init ==
    /\ chain \in {<<>>} \cup {<<c>> : c \in Valid}
    /\ remote \in SUBSET Heights
    /\ top \in Heights0
    /\ source \in [Heights -> Content]
    /\ files = [own \in BOOLEAN |-> NoFiles]
    /\ run = NoRun
    /\ progress = [h \in Heights |-> "done"]
    /\ item = [h \in Heights |-> None]
    /\ unchecked = {}
    /\ reported = {}
    /\ validated = [h \in Heights |-> {chain[i] : i \in {h + 1} \cap DOMAIN chain}]
    /\ changes = 0
    /\ crashes = 0

---------------------------------------------------------------------------
(* The range.                                                              *)

(* prepare: NilHeight for an end that is not given. A directory that the   *)
(* command makes itself is a new one.                                      *)
Begin(from, to, do, own) ==
    /\ run = NoRun
    /\ to # NilHeight => from <= to
    /\ run' = [stage |-> "check", from |-> from, to |-> to, do |-> do, own |-> own]
    /\ files' = IF own THEN [files EXCEPT ![own] = NoFiles] ELSE files
    /\ UNCHANGED <<chain, remote, source, top, progress, item, history, bounds>>

Stored(h) == h \in GenesisHeight..LastLocal

Lowest(from) == IF from < GenesisHeight THEN GenesisHeight ELSE from
Highest(to)    == IF to > NilHeight THEN to ELSE top

(* Mutation: the import may begin below the end of the chain. *)
HeightsAllowedBelow(from, to) ==
    /\ from > GenesisHeight => Stored(from - 1)
    /\ to > NilHeight => to <= LastLocal
    /\ from > NilHeight => Stored(from - 1)
    /\ top >= GenesisHeight
    /\ to <= top
    /\ Lowest(from) <= Highest(to)

(* The checks of preImportBlocks, checkLastHeight and checkHeights, in     *)
(* order; the highest height to import is to, if given, or top.            *)
HeightsAllowed(from, to) ==
    /\ from > GenesisHeight => Stored(from - 1)
    /\ to > NilHeight => to <= LastLocal
    /\ from > NilHeight => Stored(from - 1)
    /\ top >= GenesisHeight
    /\ to <= top
    /\ Lowest(from) <= Highest(to)
    /\ LastLocal # NilHeight => LastLocal = Lowest(from) - 1

CheckHeights ==
    /\ run.stage = "check"
    /\ HeightsAllowed(run.from, run.to)
    /\ run' = [stage |-> "validate", first |-> Lowest(run.from),
               last |-> Highest(run.to), do |-> run.do, own |-> run.own]
    /\ progress' = [h \in Heights |->
                      IF h \in Lowest(run.from)..Highest(run.to) THEN "read" ELSE "done"]
    /\ UNCHANGED <<chain, remote, source, top, files, item, history, bounds>>

Stop ==
    /\ run' = NoRun
    /\ progress' = [h \in Heights |-> "done"]
    /\ item' = [h \in Heights |-> None]

(* The command ends, with an error or without: its directory is removed.   *)
End == Stop /\ files' = [files EXCEPT ![run.own] = NoFiles]

RefuseHeights ==
    /\ run.stage = "check"
    /\ ~HeightsAllowed(run.from, run.to)
    /\ End
    /\ UNCHANGED <<chain, remote, source, top, history, bounds>>

---------------------------------------------------------------------------
(* Validation: up to 333 heights at a time, in any order.                  *)

(* Mutation: what is downloaded is not saved. *)
SavesNothing(h) == FALSE

(* loadItemFile and writeTempRemoteItemFile: a file that is there is kept. *)
Saves(h) == run.do /\ h \in remote /\ files[run.own][h] = None

(* The height goes on to p, and its item is i from then on. *)
Proceed(h, p, i) ==
    /\ progress' = [progress EXCEPT ![h] = p]
    /\ item' = [item EXCEPT ![h] = i]
    /\ UNCHANGED <<chain, remote, source, top, run, unchecked, reported, bounds>>

(* loadItemFile: what is decoded is saved, before it is validated. *)
Load(h) ==
    /\ run.stage = "validate"
    /\ progress[h] = "read"
    /\ source[h] \in Content
    /\ IF Saves(h)
       THEN /\ files' = [files EXCEPT ![run.own][h] = Partial]
            /\ Proceed(h, "save", source[h])
       ELSE /\ Proceed(h, "check", source[h])
            /\ UNCHANGED files
    /\ UNCHANGED validated

(* The item is not there, cannot be decoded or cannot be had just now. *)
LoadFails(h) ==
    /\ run.stage = "validate"
    /\ progress[h] = "read"
    /\ source[h] = None \/ h \in remote
    /\ Proceed(h, "failed", None)
    /\ UNCHANGED <<files, validated>>

(* Mutation: the error of a copy that ends early is ignored. *)
SaveEndsEarly(h) ==
    /\ progress[h] = "save"
    /\ Proceed(h, "check", item[h])
    /\ UNCHANGED <<files, validated>>

(* io.Copy of what was read. *)
Save(h) ==
    /\ progress[h] = "save"
    /\ files' = [files EXCEPT ![run.own][h] = item[h]]
    /\ Proceed(h, "check", item[h])
    /\ UNCHANGED validated

(* No file could be made, or it was not written to its end. *)
SaveFails(h) ==
    /\ progress[h] = "save"
    /\ \/ files' = [files EXCEPT ![run.own][h] = None]
       \/ UNCHANGED files
    /\ Proceed(h, "failed", None)
    /\ UNCHANGED validated

(* IsValidBlockFromLocalFS, when all of the block is loaded. *)
Validate(h) ==
    /\ progress[h] = "check"
    /\ IF item[h] \in Valid
       THEN /\ validated' = [validated EXCEPT ![h] = @ \cup {item[h]}]
            /\ Proceed(h, "done", None)
       ELSE /\ Proceed(h, "failed", None)
            /\ UNCHANGED validated
    /\ UNCHANGED files

(* The batch waits for the work that goes on. *)
ValidationFails ==
    /\ \E h \in Heights : progress[h] = "failed"
    /\ \A h \in Heights : progress[h] \notin {"save", "check"}
    /\ End
    /\ UNCHANGED <<chain, remote, source, top, history, bounds>>

Validated ==
    /\ run.stage = "validate"
    /\ \A h \in Heights : progress[h] = "done"
    /\ IF run.do
       THEN /\ run' = [stage |-> "import", first |-> run.first, last |-> run.last,
                       next |-> run.first, own |-> run.own]
            /\ UNCHANGED <<files, progress, item>>
       ELSE End
    /\ UNCHANGED <<chain, remote, source, top, history, bounds>>

---------------------------------------------------------------------------
(* Import.                                                                 *)

(* readTempRemoteItemFile, or else what is served now. *)
Read(h) ==
    IF h \in remote /\ files[run.own][h] # None THEN files[run.own][h] ELSE source[h]

(* launch.ImportBlocks writes what it can read, whatever that is: a file is *)
(* not looked at again before it is used.                                  *)
ImportBlock ==
    LET h == run.next IN
    /\ run.stage = "import"
    /\ h <= run.last
    /\ Read(h) # None
    /\ chain' = IF Stored(h) THEN [chain EXCEPT ![h + 1] = Read(h)]
                             ELSE Append(chain, Read(h))
    /\ run' = [run EXCEPT !.next = h + 1]
    /\ UNCHANGED <<remote, source, top, files, progress, item, history, bounds>>

(* Mutation: the blocks that were written are not validated. *)
ImportSucceedsUnchecked ==
    /\ run.stage = "import"
    /\ run.next = run.last + 1
    /\ reported' = reported \cup (run.first..run.last)
    /\ End
    /\ UNCHANGED <<chain, remote, source, top, validated, unchecked, bounds>>

(* validateImported: the command succeeds if all that it wrote is valid.   *)
ImportSucceeds ==
    /\ run.stage = "import"
    /\ run.next = run.last + 1
    /\ \A h \in run.first..run.last : chain[h + 1] \in Valid
    /\ reported' = reported \cup (run.first..run.last)
    /\ End
    /\ UNCHANGED <<chain, remote, source, top, validated, unchecked, bounds>>

(* A block cannot be read or written, or one that was is not valid: the    *)
(* blocks written so far stay.                                             *)
ImportFails ==
    /\ run.stage = "import"
    /\ End
    /\ UNCHANGED <<chain, remote, source, top, history, bounds>>

---------------------------------------------------------------------------
(* What is served for a height of the source changes. *)
Serve(h, c) ==
    /\ changes < MaxChanges
    /\ h \in remote
    /\ c # source[h]
    /\ source' = [source EXCEPT ![h] = c]
    /\ changes' = changes + 1
    /\ UNCHANGED <<chain, remote, top, files, command, history, crashes>>

(* The command is killed, or ends and its directory cannot be removed, an  *)
(* error that is dropped: the files stay, written to their end or not,     *)
(* validated or not.                                                       *)
Crash ==
    /\ crashes < MaxCrashes
    /\ run # NoRun
    /\ crashes' = crashes + 1
    /\ Stop
    /\ unchecked' = unchecked \cup
         {h \in Heights : ~run.own /\ files[run.own][h] \notin {None} \cup validated[h]}
    /\ UNCHANGED <<chain, remote, source, top, files, validated, reported, changes>>

Next ==
    \/ \E from, to \in Heights0, do, own \in BOOLEAN : Begin(from, to, do, own)
    \/ CheckHeights
    \/ RefuseHeights
    \/ \E h \in Heights :
          Load(h) \/ LoadFails(h) \/ Save(h) \/ SaveFails(h) \/ Validate(h)
    \/ ValidationFails
    \/ Validated
    \/ ImportBlock
    \/ ImportSucceeds
    \/ ImportFails
    \/ \E h \in Heights, c \in Content \cup {None} : Serve(h, c)
    \/ Crash

Spec == Init /\ [][Next]_vars

---------------------------------------------------------------------------
RunType ==
    {NoRun}
    \cup [stage : {"check"}, from : Heights0, to : Heights0, do : BOOLEAN,
          own : BOOLEAN]
    \cup [stage : {"validate"}, first : Heights, last : Heights, do : BOOLEAN,
          own : BOOLEAN]
    \cup [stage : {"import"}, first : Heights, last : Heights,
          next : 0..MaxHeight + 1, own : BOOLEAN]

Progress == {"read", "save", "check", "done", "failed"}

(* Every variable stays in its type; a range that was accepted is within   *)
(* the source, and a file is unfinished only while it is being written, or *)
(* after an error or a crash.                                              *)
TypeOK ==
    /\ chain \in Seq(Content \cup {Partial}) /\ Len(chain) <= MaxHeight + 1
    /\ remote \subseteq Heights
    /\ source \in [Heights -> Content \cup {None}]
    /\ top \in Heights0
    /\ files \in [BOOLEAN -> [Heights -> Content \cup {None, Partial}]]
    /\ run \in RunType
    /\ progress \in [Heights -> Progress]
    /\ item \in [Heights -> Content \cup {None}]
    /\ validated \in [Heights -> SUBSET Valid]
    /\ unchecked \subseteq Heights
    /\ reported \subseteq Heights
    /\ run.stage \in {"validate", "import"} => run.last <= top
    /\ crashes = 0 =>
          \A own \in BOOLEAN, h \in Heights :
              files[own][h] = Partial => progress[h] \in {"save", "failed"}

(* A block of the node, once written, is not replaced by an import: heights *)
(* are accepted only if they continue the chain.                           *)
ChainGrows == [][IsPrefix(chain, chain')]_chain

(* What an import writes is what was validated, although what is served    *)
(* elsewhere may have changed after the validation: by this command, or by *)
(* a killed one whose files are still in the cache directory.  Not so for  *)
(* a file that a killed command had not come to validate: the next import  *)
(* validates what is served and writes what is in the file.                *)
ImportedWasValidated ==
    \A i \in DOMAIN chain : chain[i] \in validated[i - 1] \/ i - 1 \in unchecked

(* Whatever file it was read from, a block that an import reported as      *)
(* imported is a valid one: what was written is validated once more.       *)
ReportedIsValid == \A h \in reported : h + 1 \in DOMAIN chain /\ chain[h + 1] \in Valid
=============================================================================
