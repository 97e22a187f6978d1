------------------------- MODULE BlockImport_proofs -------------------------
(***************************************************************************)
(* What an import writes continues the chain and was validated, but for    *)
(* files of killed commands, and what it reports is valid: for any number  *)
(* of blocks, runs, killed runs and changes of what is served.             *)
(***************************************************************************)
EXTENDS BlockImport, SequenceTheorems, TLAPS

(* What a file may hold that an import is going to use. *)
Excused(own, h) ==
    \/ files[own][h] = None
    \/ files[own][h] \in validated[h]
    \/ h \in unchecked

(* An import of height h will read what was validated, or a file: what is  *)
(* served elsewhere is not looked at, and the rest does not change.        *)
Ready(h) ==
    IF h \in remote THEN files[run.own][h] # None ELSE source[h] \in validated[h]

(* While the validation of a height goes on, its file holds what is going  *)
(* to be validated.                                                        *)
Working(h) ==
    /\ progress[h] \in {"read", "done"} => Excused(run.own, h)
    /\ progress[h] \in {"save", "check"} =>
          /\ item[h] \in Content
          /\ h \notin remote => item[h] = source[h]
          /\ h \in remote /\ run.do => files[run.own][h] # None
    /\ progress[h] = "save" => h \in remote
    /\ progress[h] = "check" => Excused(run.own, h) \/ files[run.own][h] = item[h]
    /\ progress[h] = "done" /\ run.do /\ h \in run.first..run.last => Ready(h)

(* The files of the directory that is used again, while it is not in use. *)
GivenFiles ==
    run.stage = "none" \/ run.own => \A h \in Heights : Excused(FALSE, h)

RunFiles ==
    /\ run.stage \in {"check", "import"} => \A h \in Heights : Excused(run.own, h)
    /\ run.stage = "validate" => \A h \in Heights : Working(h)

AcceptedRange ==
    /\ run.stage # "validate" => \A h \in Heights : progress[h] = "done"
    /\ run.stage = "validate" =>
          /\ run.first = Len(chain)
          /\ run.first <= run.last
    /\ run.stage = "import" =>
          /\ run.next = Len(chain)
          /\ run.first <= run.next
          /\ run.next <= run.last + 1
          /\ \A h \in run.next..run.last : Ready(h)

Types ==
    /\ chain \in Seq(Content \cup {Partial}) /\ Len(chain) <= MaxHeight + 1
    /\ remote \subseteq Heights
    /\ source \in [Heights -> Content \cup {None}]
    /\ top \in Heights0
    /\ files \in [BOOLEAN -> [Heights -> Content \cup {None, Partial}]]
    /\ run \in RunType
    /\ progress \in [Heights -> Progress]
    /\ item \in [Heights -> Content \cup {None}]
    /\ validated \in [Heights -> SUBSET Valid]
    /\ unchecked \subseteq Heights
    /\ reported \subseteq Heights

(* The chain and the files are only as good as the range that was accepted *)
(* and what the validation left for the import: both are in the invariant. *)
IInv ==
    /\ Types
    /\ ImportedWasValidated
    /\ ReportedIsValid
    /\ GivenFiles
    /\ RunFiles
    /\ AcceptedRange

USE ImportAssumption DEF GenesisHeight, NilHeight, Heights, Heights0

LEMMA InvInit == Init => IInv
<1> SUFFICES ASSUME Init PROVE IInv
  OBVIOUS
<1>1. GivenFiles /\ RunFiles /\ AcceptedRange
  BY DEF Init, GivenFiles, RunFiles, AcceptedRange, Excused, NoFiles, NoRun
<1>2. ReportedIsValid
  BY DEF Init, ReportedIsValid
<1>3. Types /\ ImportedWasValidated
  <2>1. CASE chain = <<>>
    BY <2>1 DEF Init, Types, ImportedWasValidated, NoFiles, NoRun, RunType, Progress
  <2>2. ASSUME NEW c \in Valid, chain = <<c>> PROVE Types /\ ImportedWasValidated
    <3>1. /\ chain \in Seq(Content \cup {Partial}) /\ DOMAIN chain = {1}
          /\ chain[1] = c /\ Len(chain) = 1
      BY <2>2
    <3>2. validated = [h \in Heights |-> {chain[i] : i \in {h + 1} \cap {1}}]
      BY <3>1 DEF Init
    <3>4. validated \in [Heights -> SUBSET Valid]
      BY <3>1, <3>2
    <3>5. c \in validated[0]
      BY <3>1, <3>2
    <3>3. ImportedWasValidated
      BY <3>1, <3>5 DEF ImportedWasValidated
    <3> QED BY <3>1, <3>3, <3>4 DEF Init, Types, NoFiles, NoRun, RunType, Progress
  <2> QED BY <2>1, <2>2 DEF Init
<1> QED BY <1>1, <1>2, <1>3 DEF IInv

---------------------------------------------------------------------------
(* The command ends.                                                       *)

LEMMA RunOwn ==
    ASSUME IInv, run.stage \in {"check", "validate", "import"}
    PROVE  run.own \in BOOLEAN
BY DEF IInv, Types, RunType, NoRun

LEMMA StopTypes ==
    ASSUME IInv, Stop, UNCHANGED <<chain, remote, source, top, validated>>,
           files' \in [BOOLEAN -> [Heights -> Content \cup {None, Partial}]],
           unchecked' \subseteq Heights, reported' \subseteq Heights
    PROVE  Types' /\ RunFiles' /\ AcceptedRange'
BY DEF IInv, Types, RunFiles, AcceptedRange, Stop, NoRun, RunType, Progress

(* Its directory is removed: the one that is used again is empty then, or  *)
(* was not in use.                                                         *)
LEMMA EndPreserves ==
    ASSUME IInv, End, run.stage \in {"check", "validate", "import"},
           UNCHANGED <<chain, remote, source, top, validated, unchecked>>,
           reported' \subseteq Heights, ReportedIsValid'
    PROVE  IInv'
<1>1. run.own \in BOOLEAN
  BY RunOwn
<1>2. files' = [files EXCEPT ![run.own] = NoFiles] /\ Stop
  BY DEF End
<1>3. NoFiles \in [Heights -> Content \cup {None, Partial}]
  BY DEF NoFiles
<1>4. files' \in [BOOLEAN -> [Heights -> Content \cup {None, Partial}]]
  BY <1>1, <1>2, <1>3 DEF IInv, Types
<1>5. Types' /\ RunFiles' /\ AcceptedRange'
  BY <1>2, <1>4, StopTypes DEF IInv, Types
<1>6. GivenFiles'
  <2> SUFFICES ASSUME NEW h \in Heights PROVE Excused(FALSE, h)'
    BY DEF GivenFiles
  <2>1. CASE run.own
    <3>1. files'[FALSE][h] = files[FALSE][h]
      BY <1>1, <1>2, <2>1 DEF IInv, Types
    <3>2. Excused(FALSE, h)
      BY <2>1 DEF IInv, GivenFiles
    <3> QED BY <3>1, <3>2 DEF Excused
  <2>2. CASE ~run.own
    <3>1. files'[FALSE][h] = None
      BY <1>1, <1>2, <2>2 DEF IInv, Types, NoFiles
    <3> QED BY <3>1 DEF Excused
  <2> QED BY <2>1, <2>2
<1>7. ImportedWasValidated'
  BY DEF IInv, ImportedWasValidated
<1> QED BY <1>5, <1>6, <1>7 DEF IInv

LEMMA CrashPreserves ==
    ASSUME IInv, Crash
    PROVE  IInv'
<1>1. run.stage \in {"check", "validate", "import"} /\ run.own \in BOOLEAN
  BY DEF Crash, IInv, Types, RunType, NoRun
<1>2. /\ Stop /\ UNCHANGED <<chain, remote, source, top, files, validated, reported>>
      /\ unchecked' = unchecked \cup
           {h \in Heights : ~run.own /\ files[run.own][h] \notin {None} \cup validated[h]}
  BY DEF Crash
<1>3. Types' /\ RunFiles' /\ AcceptedRange'
  BY <1>2, StopTypes DEF IInv, Types
<1>4. GivenFiles'
  <2> SUFFICES ASSUME NEW h \in Heights PROVE Excused(FALSE, h)'
    BY DEF GivenFiles
  <2>1. CASE run.own
    BY <1>2, <2>1 DEF IInv, GivenFiles, Excused
  <2>2. CASE ~run.own
    BY <1>1, <1>2, <2>2 DEF Excused
  <2> QED BY <2>1, <2>2
<1>5. ImportedWasValidated' /\ ReportedIsValid'
  BY <1>2 DEF IInv, ImportedWasValidated, ReportedIsValid
<1> QED BY <1>3, <1>4, <1>5 DEF IInv

---------------------------------------------------------------------------
(* The range.                                                              *)

LEMMA BeginPreserves ==
    ASSUME IInv, NEW from \in Heights0, NEW to \in Heights0,
           NEW do \in BOOLEAN, NEW own \in BOOLEAN, Begin(from, to, do, own)
    PROVE  IInv'
<1>1. /\ run.stage = "none"
      /\ run' = [stage |-> "check", from |-> from, to |-> to, do |-> do, own |-> own]
      /\ files' = IF own THEN [files EXCEPT ![own] = NoFiles] ELSE files
      /\ UNCHANGED <<chain, remote, source, top, progress, item, history>>
  BY DEF Begin, NoRun
<1>2. NoFiles \in [Heights -> Content \cup {None, Partial}]
  BY DEF NoFiles
<1>3. /\ files' \in [BOOLEAN -> [Heights -> Content \cup {None, Partial}]]
      /\ files'[FALSE] = files[FALSE]
      /\ own => files'[own] = NoFiles
  BY <1>1, <1>2 DEF IInv, Types
<1>4. Types'
  BY <1>1, <1>3 DEF IInv, Types, RunType, history
<1>5. \A h \in Heights : Excused(FALSE, h)' /\ Excused(own, h)'
  <2> TAKE h \in Heights
  <2>1. Excused(FALSE, h)
    BY <1>1 DEF IInv, GivenFiles
  <2>2. Excused(FALSE, h)'
    BY <1>1, <1>3, <2>1 DEF Excused, history
  <2>3. own => Excused(own, h)'
    BY <1>3 DEF Excused, NoFiles
  <2> QED BY <2>2, <2>3
<1>6. GivenFiles' /\ RunFiles'
  BY <1>1, <1>5 DEF GivenFiles, RunFiles
<1>7. AcceptedRange' /\ ImportedWasValidated' /\ ReportedIsValid'
  BY <1>1 DEF IInv, AcceptedRange, ImportedWasValidated, ReportedIsValid, history
<1> QED BY <1>4, <1>6, <1>7 DEF IInv

(* A range that is accepted begins where the chain ends. *)
LEMMA AcceptedContinues ==
    ASSUME Types, NEW from \in Heights0, NEW to \in Heights0,
           HeightsAllowed(from, to)
    PROVE  /\ Lowest(from) = Len(chain)
           /\ Lowest(from) \in Heights
           /\ Highest(to) \in Heights
           /\ Lowest(from) <= Highest(to)
<1>1. Len(chain) \in Nat
  BY DEF Types
<1>2. top \in Heights0
  BY DEF Types
<1> HIDE DEF Types
<1> QED BY <1>1, <1>2 DEF HeightsAllowed, Lowest, Highest, Stored, LastLocal

LEMMA CheckHeightsPreserves ==
    ASSUME IInv, CheckHeights
    PROVE  IInv'
<1>1. run.stage = "check" /\ run \in RunType
  BY DEF CheckHeights, IInv, Types
<1>2. run.from \in Heights0 /\ run.to \in Heights0 /\ run.do \in BOOLEAN
      /\ run.own \in BOOLEAN
  BY <1>1 DEF RunType, NoRun
<1> DEFINE first == Lowest(run.from)
           last == Highest(run.to)
<1>3. first = Len(chain) /\ first \in Heights /\ last \in Heights /\ first <= last
  BY <1>2, AcceptedContinues DEF CheckHeights, IInv
<1>4. /\ run' = [stage |-> "validate", first |-> first, last |-> last,
                 do |-> run.do, own |-> run.own]
      /\ progress' = [h \in Heights |-> IF h \in first..last THEN "read" ELSE "done"]
      /\ UNCHANGED <<chain, remote, source, top, files, item, history>>
  BY DEF CheckHeights
<1> HIDE DEF first, last
<1>5. Types'
  BY <1>2, <1>3, <1>4 DEF IInv, Types, RunType, Progress, history
<1>6. AcceptedRange'
  BY <1>3, <1>4 DEF AcceptedRange
<1>7. RunFiles'
  <2> SUFFICES ASSUME NEW h \in Heights PROVE Working(h)'
    BY <1>4 DEF RunFiles
  <2>1. Excused(run.own, h)
    BY <1>1 DEF IInv, RunFiles
  <2>2. Excused(run.own, h)' /\ run'.own = run.own
    BY <1>4, <2>1 DEF Excused, history
  <2>3. progress'[h] = IF h \in first..last THEN "read" ELSE "done"
    BY <1>4
  <2>4. run'.first = first /\ run'.last = last
    BY <1>4
  <2> QED BY <2>2, <2>3, <2>4 DEF Working, Excused
<1>8. GivenFiles' /\ ImportedWasValidated' /\ ReportedIsValid'
  BY <1>1, <1>4 DEF IInv, GivenFiles, Excused, ImportedWasValidated, ReportedIsValid,
                    history
<1> QED BY <1>5, <1>6, <1>7, <1>8 DEF IInv

---------------------------------------------------------------------------
(* Validation.                                                             *)

(* A step of the validation of h: nothing else changes, and what is known  *)
(* of h holds again.                                                       *)
LEMMA WorkPreserves ==
    ASSUME IInv, NEW h \in Heights, run.stage = "validate",
           NEW p \in Progress, NEW i \in Content \cup {None}, Proceed(h, p, i),
           \/ UNCHANGED files
           \/ \E f \in Content \cup {None, Partial} : files' = [files EXCEPT ![run.own][h] = f],
           \/ UNCHANGED validated
           \/ \E v \in Valid : validated' = [validated EXCEPT ![h] = @ \cup {v}],
           Working(h)'
    PROVE  IInv'
<1>0. run.own \in BOOLEAN /\ run.stage = "validate"
  BY RunOwn
<1>1. /\ progress' = [progress EXCEPT ![h] = p] /\ item' = [item EXCEPT ![h] = i]
      /\ UNCHANGED <<chain, remote, source, top, run, unchecked, reported>>
  BY DEF Proceed
<1>2. /\ progress' \in [Heights -> Progress] /\ item' \in [Heights -> Content \cup {None}]
      /\ \A k \in Heights \ {h} : progress'[k] = progress[k] /\ item'[k] = item[k]
  BY <1>1 DEF IInv, Types
<1>3. /\ files' \in [BOOLEAN -> [Heights -> Content \cup {None, Partial}]]
      /\ \A k \in Heights \ {h} : files'[run.own][k] = files[run.own][k]
      /\ run.own => \A k \in Heights : files'[FALSE][k] = files[FALSE][k]
  <2>1. ASSUME NEW f \in Content \cup {None, Partial},
               files' = [files EXCEPT ![run.own][h] = f]
        PROVE  <1>3!:
    <3>1. /\ files \in [BOOLEAN -> [Heights -> Content \cup {None, Partial}]]
          /\ run.own \in BOOLEAN
      BY <1>0 DEF IInv, Types
    <3>2. [files[run.own] EXCEPT ![h] = f] \in [Heights -> Content \cup {None, Partial}]
      BY <2>1, <3>1
    <3>3. files' = [files EXCEPT ![run.own] = [files[run.own] EXCEPT ![h] = f]]
      BY <2>1
    <3> QED BY <3>1, <3>2, <3>3
  <2>2. CASE UNCHANGED files
    BY <2>2 DEF IInv, Types
  <2> QED BY <2>1, <2>2
<1>4. /\ validated' \in [Heights -> SUBSET Valid]
      /\ \A k \in Heights : validated[k] \subseteq validated'[k]
  <2>1. ASSUME NEW v \in Valid, validated' = [validated EXCEPT ![h] = @ \cup {v}]
        PROVE  <1>4!:
    BY <2>1 DEF IInv, Types
  <2>2. CASE UNCHANGED validated
    BY <2>2 DEF IInv, Types
  <2> QED BY <2>1, <2>2
<1>5. Types'
  BY <1>1, <1>2, <1>3, <1>4 DEF IInv, Types
<1>6. \A k \in Heights \ {h} : Working(k)'
  <2> TAKE k \in Heights \ {h}
  <2>1. Working(k)
    BY DEF IInv, RunFiles
  <2>2. /\ Excused(run.own, k) => Excused(run.own, k)'
        /\ Ready(k) => Ready(k)'
    BY <1>1, <1>3, <1>4 DEF Excused, Ready
  <2> QED BY <1>1, <1>2, <1>3, <2>1, <2>2 DEF Working
<1>7. RunFiles'
  BY <1>0, <1>1, <1>6 DEF RunFiles
<1>8. GivenFiles'
  <2> SUFFICES ASSUME run.own, NEW k \in Heights PROVE Excused(FALSE, k)'
    BY <1>0, <1>1 DEF GivenFiles
  <2>1. Excused(FALSE, k)
    BY DEF IInv, GivenFiles
  <2> QED BY <1>1, <1>3, <1>4, <2>1 DEF Excused
<1>9. AcceptedRange'
  BY <1>0, <1>1 DEF IInv, AcceptedRange
<1>10. ImportedWasValidated'
  <2> SUFFICES ASSUME NEW j \in DOMAIN chain
               PROVE  chain[j] \in validated'[j - 1] \/ j - 1 \in unchecked
    BY <1>1 DEF ImportedWasValidated
  <2>1. chain[j] \in validated[j - 1] \/ j - 1 \in unchecked
    BY DEF IInv, ImportedWasValidated
  <2>2. j - 1 \in Heights
    BY DEF IInv, Types
  <2> QED BY <1>4, <2>1, <2>2
<1>11. ReportedIsValid'
  BY <1>1 DEF IInv, ReportedIsValid
<1> QED BY <1>5, <1>7, <1>8, <1>9, <1>10, <1>11 DEF IInv

(* Where the validation of a height goes on, a command validates.          *)
LEMMA WorkRuns ==
    ASSUME IInv, NEW h \in Heights, progress[h] # "done"
    PROVE  run.stage = "validate" /\ run.own \in BOOLEAN /\ Working(h)
BY RunOwn DEF IInv, AcceptedRange, RunFiles

LEMMA LoadPreserves ==
    ASSUME IInv, NEW h \in Heights, Load(h)
    PROVE  IInv'
<1>1. /\ progress[h] = "read" /\ source[h] \in Content
      /\ UNCHANGED <<chain, remote, source, top, run, unchecked, reported, validated>>
  BY DEF Load, Proceed
<1>2. run.stage = "validate" /\ run.own \in BOOLEAN /\ Excused(run.own, h)
  BY <1>1, WorkRuns DEF Working
<1>3. CASE Saves(h)
  <2>1. /\ files' = [files EXCEPT ![run.own][h] = Partial]
        /\ Proceed(h, "save", source[h])
    BY <1>3 DEF Load
  <2>2. /\ progress'[h] = "save" /\ item'[h] = source[h]
        /\ files'[run.own][h] = Partial /\ h \in remote
    BY <1>2, <1>3, <2>1 DEF Proceed, Saves, IInv, Types
  <2>3. Working(h)'
    BY <1>1, <2>2 DEF Working
  <2> QED BY <1>1, <1>2, <2>1, <2>3, WorkPreserves DEF Progress
<1>4. CASE ~Saves(h)
  <2>1. Proceed(h, "check", source[h]) /\ UNCHANGED files
    BY <1>4 DEF Load
  <2>2. progress'[h] = "check" /\ item'[h] = source[h]
    BY <2>1 DEF Proceed, IInv, Types
  <2>3. Working(h)'
    BY <1>1, <1>2, <1>4, <2>1, <2>2 DEF Working, Excused, Saves
  <2> QED BY <1>1, <1>2, <2>1, <2>3, WorkPreserves DEF Progress
<1> QED BY <1>3, <1>4

(* A validation that failed has nothing to hold. *)
LEMMA FailedPreserves ==
    ASSUME IInv, NEW h \in Heights, progress[h] # "done", Proceed(h, "failed", None),
           UNCHANGED validated,
           UNCHANGED files \/ files' = [files EXCEPT ![run.own][h] = None]
    PROVE  IInv'
<1>1. run.stage = "validate"
  BY WorkRuns
<1>2. progress'[h] = "failed"
  BY DEF Proceed, IInv, Types
<1>3. Working(h)'
  BY <1>2 DEF Working
<1> QED BY <1>1, <1>3, WorkPreserves DEF Progress

LEMMA SavePreserves ==
    ASSUME IInv, NEW h \in Heights, Save(h)
    PROVE  IInv'
<1>1. /\ progress[h] = "save" /\ Proceed(h, "check", item[h])
      /\ files' = [files EXCEPT ![run.own][h] = item[h]]
      /\ UNCHANGED <<remote, source, run, validated>>
  BY DEF Save, Proceed
<1>2. /\ run.stage = "validate" /\ run.own \in BOOLEAN
      /\ item[h] \in Content /\ h \in remote
  BY <1>1, WorkRuns DEF Working
<1>3. progress'[h] = "check" /\ item'[h] = item[h] /\ files'[run.own][h] = item[h]
  BY <1>1, <1>2 DEF Proceed, IInv, Types
<1>4. Working(h)'
  BY <1>1, <1>2, <1>3 DEF Working
<1> QED BY <1>1, <1>2, <1>4, WorkPreserves DEF Progress

(* What is in the file of a height is what was validated, or is left from  *)
(* before.                                                                 *)
LEMMA ValidatePreserves ==
    ASSUME IInv, NEW h \in Heights, Validate(h)
    PROVE  IInv'
<1>1. progress[h] = "check" /\ UNCHANGED files
  BY DEF Validate
<1>2. /\ run.stage = "validate" /\ Working(h) /\ item[h] \in Content
  BY <1>1, WorkRuns DEF Working
<1>3. CASE item[h] \in Valid
  <2>1. /\ validated' = [validated EXCEPT ![h] = @ \cup {item[h]}]
        /\ Proceed(h, "done", None)
        /\ UNCHANGED <<remote, source, run, unchecked>>
    BY <1>3 DEF Validate, Proceed
  <2>2. /\ progress'[h] = "done" /\ item[h] \in validated'[h]
        /\ validated[h] \subseteq validated'[h]
    BY <2>1 DEF Proceed, IInv, Types
  <2>3. Excused(run.own, h)'
    BY <1>1, <1>2, <2>1, <2>2 DEF Working, Excused
  <2>4. run.do => Ready(h)'
    BY <1>1, <1>2, <2>1, <2>2 DEF Working, Ready
  <2>5. Working(h)'
    BY <2>1, <2>2, <2>3, <2>4 DEF Working
  <2> QED BY <1>1, <1>2, <1>3, <2>1, <2>5, WorkPreserves DEF Progress
<1>4. CASE item[h] \notin Valid
  BY <1>1, <1>4, FailedPreserves DEF Validate
<1> QED BY <1>3, <1>4

LEMMA ValidatedPreserves ==
    ASSUME IInv, Validated
    PROVE  IInv'
<1>1. CASE run.do
  <2>1. run.stage = "validate" /\ run \in RunType
    BY DEF Validated, IInv, Types
  <2>2. /\ run.first \in Heights /\ run.last \in Heights /\ run.own \in BOOLEAN
        /\ \A h \in Heights : progress[h] = "done"
        /\ run' = [stage |-> "import", first |-> run.first, last |-> run.last,
                   next |-> run.first, own |-> run.own]
        /\ UNCHANGED <<chain, remote, source, top, files, progress, item, history>>
    BY <1>1, <2>1 DEF Validated, RunType, NoRun
  <2>3. Types'
    BY <2>2 DEF IInv, Types, RunType, history
  <2>4. /\ run.first = Len(chain) /\ run.first <= run.last
        /\ \A h \in Heights : Working(h)
    BY <2>1 DEF IInv, AcceptedRange, RunFiles
  <2>5. /\ run'.stage = "import" /\ run'.next = run.first /\ run'.first = run.first
        /\ run'.last = run.last /\ run'.own = run.own
    BY <2>2
  <2>6. \A h \in run.first..run.last : Ready(h)'
    <3> TAKE h \in run.first..run.last
    <3>1. h \in Heights
      BY <2>2
    <3>2. Ready(h)
      BY <1>1, <2>2, <2>4, <3>1 DEF Working
    <3> QED BY <2>2, <2>5, <3>2 DEF Ready, history
  <2>7. AcceptedRange'
    BY <2>2, <2>4, <2>5, <2>6 DEF AcceptedRange
  <2>8. ASSUME NEW h \in Heights PROVE Excused(run.own, h) /\ Excused(run.own, h)'
    <3>1. Excused(run.own, h)
      BY <2>2, <2>4 DEF Working
    <3> QED BY <2>2, <3>1 DEF Excused, history
  <2>9. RunFiles' /\ GivenFiles'
    <3>1. RunFiles'
      BY <2>5, <2>8 DEF RunFiles, Excused
    <3>2. GivenFiles'
      BY <2>1, <2>2, <2>5 DEF IInv, GivenFiles, Excused, history
    <3> QED BY <3>1, <3>2
  <2>10. ImportedWasValidated' /\ ReportedIsValid'
    BY <2>2 DEF IInv, ImportedWasValidated, ReportedIsValid, history
  <2> QED BY <2>3, <2>7, <2>9, <2>10 DEF IInv
<1>2. CASE ~run.do
  BY <1>2, EndPreserves DEF Validated, history, IInv, ReportedIsValid, Types
<1> QED BY <1>1, <1>2

---------------------------------------------------------------------------
(* Import.                                                                 *)

(* The next block: it is appended, and it was validated, or left unchecked *)
(* by a killed command.                                                    *)
LEMMA ImportAppends ==
    ASSUME IInv, ImportBlock
    PROVE  /\ run.next = Len(chain)
           /\ chain' = Append(chain, Read(run.next))
           /\ Read(run.next) \in Content \cup {Partial}
           /\ Read(run.next) \in validated[run.next] \/ run.next \in unchecked
           /\ run.next \in Heights
<1>1. run.stage = "import" /\ run \in RunType
  BY DEF ImportBlock, IInv, Types
<1>2. run.next \in 0..MaxHeight + 1 /\ run.last \in Heights /\ run.own \in BOOLEAN
  BY <1>1 DEF RunType, NoRun
<1>3. run.next = Len(chain) /\ run.next \in run.next..run.last
      /\ run.next \in Heights
  BY <1>1, <1>2 DEF IInv, AcceptedRange, ImportBlock
<1>4. Ready(run.next) /\ Excused(run.own, run.next)
  BY <1>1, <1>3 DEF IInv, AcceptedRange, RunFiles
<1>5. Read(run.next) \in validated[run.next] \/ run.next \in unchecked
  BY <1>2, <1>3, <1>4 DEF Ready, Read, Excused
<1>6. Read(run.next) \in Content \cup {Partial}
  BY <1>2, <1>3 DEF Read, IInv, Types, ImportBlock
<1>7. ~Stored(run.next)
  BY <1>3 DEF Stored, LastLocal
<1> QED BY <1>3, <1>5, <1>6, <1>7 DEF ImportBlock

LEMMA ImportBlockPreserves ==
    ASSUME IInv, ImportBlock
    PROVE  IInv'
<1> DEFINE h == run.next
           b == Read(h)
<1>1. /\ h = Len(chain) /\ chain' = Append(chain, b) /\ h \in Heights
      /\ b \in Content \cup {Partial}
      /\ b \in validated[h] \/ h \in unchecked
  BY ImportAppends
<1>2. run.stage = "import" /\ run \in RunType /\ h <= run.last
  BY DEF ImportBlock, IInv, Types
<1>3. run.first \in Heights /\ run.last \in Heights /\ run.own \in BOOLEAN
  BY <1>2 DEF RunType, NoRun
<1>4. /\ run' = [run EXCEPT !.next = h + 1]
      /\ UNCHANGED <<remote, source, top, files, progress, item, history>>
  BY DEF ImportBlock
<1>5. run' = [stage |-> "import", first |-> run.first, last |-> run.last,
              next |-> h + 1, own |-> run.own]
  BY <1>2, <1>4 DEF RunType, NoRun
<1>6. chain \in Seq(Content \cup {Partial}) /\ run.first <= h
  BY <1>2 DEF IInv, Types, AcceptedRange
<1> HIDE DEF b, h
<1>7. /\ chain' \in Seq(Content \cup {Partial})
      /\ Len(chain') = Len(chain) + 1
      /\ \A i \in 1..Len(chain) : chain'[i] = chain[i]
      /\ chain'[Len(chain) + 1] = b
  BY <1>1, <1>6, AppendProperties
<1>8. run' \in RunType
  BY <1>1, <1>3, <1>5 DEF RunType
<1>9. Types'
  BY <1>1, <1>4, <1>7, <1>8 DEF IInv, Types, history
<1>10. ImportedWasValidated'
  <2> SUFFICES ASSUME NEW i \in 1..(Len(chain) + 1)
               PROVE  chain'[i] \in validated[i - 1] \/ i - 1 \in unchecked
    BY <1>4, <1>7 DEF ImportedWasValidated, history
  <2>1. Len(chain) \in Nat
    BY <1>6
  <2>2. CASE i = Len(chain) + 1
    <3>1. i - 1 = h
      BY <1>1, <2>1, <2>2
    <3> QED BY <1>1, <1>7, <2>2, <3>1
  <2>3. CASE i \in 1..Len(chain)
    BY <1>6, <1>7, <2>3, SMTT(30) DEF IInv, ImportedWasValidated
  <2> QED BY <2>1, <2>2, <2>3
<1>11. ReportedIsValid'
  <2> SUFFICES ASSUME NEW k \in reported
               PROVE  k + 1 \in DOMAIN chain' /\ chain'[k + 1] \in Valid
    BY <1>4 DEF ReportedIsValid, history
  <2>1. k + 1 \in 1..Len(chain) /\ chain[k + 1] \in Valid
    BY <1>6 DEF IInv, ReportedIsValid
  <2> QED BY <1>6, <1>7, <2>1
<1>12. AcceptedRange'
  <2>1. \A k \in h..run.last : Ready(k)
    BY <1>2 DEF IInv, AcceptedRange, h
  <2>2. \A k \in (h + 1)..run.last : Ready(k)'
    <3> TAKE k \in (h + 1)..run.last
    <3>1. k \in h..run.last
      BY <1>1, <1>3
    <3> QED BY <1>4, <1>5, <2>1, <3>1 DEF Ready, history
  <2>3. \A k \in Heights : progress'[k] = "done"
    BY <1>2, <1>4 DEF IInv, AcceptedRange
  <2>4. h + 1 <= run.last + 1 /\ run.first <= h + 1
    BY <1>1, <1>2, <1>3, <1>6
  <2> QED BY <1>1, <1>5, <1>7, <2>2, <2>3, <2>4 DEF AcceptedRange
<1>13. RunFiles' /\ GivenFiles'
  <2>1. run'.stage = "import" /\ run'.own = run.own
    BY <1>5
  <2>2. \A k \in Heights : Excused(run.own, k)
    BY <1>2 DEF IInv, RunFiles
  <2>3. RunFiles'
    BY <1>4, <2>1, <2>2 DEF RunFiles, Excused, history
  <2>4. GivenFiles'
    BY <1>2, <1>4, <2>1 DEF IInv, GivenFiles, Excused, history
  <2> QED BY <2>3, <2>4
<1> QED BY <1>9, <1>10, <1>11, <1>12, <1>13 DEF IInv

LEMMA ImportSucceedsPreserves ==
    ASSUME IInv, ImportSucceeds
    PROVE  IInv'
<1>1. run.stage = "import" /\ run \in RunType
  BY DEF ImportSucceeds, IInv, Types
<1>2. run.first \in Heights /\ run.last \in Heights
  BY <1>1 DEF RunType, NoRun
<1>3. run.last + 1 = Len(chain)
  BY <1>1 DEF ImportSucceeds, IInv, AcceptedRange
<1>4. /\ reported' = reported \cup (run.first..run.last)
      /\ \A h \in run.first..run.last : chain[h + 1] \in Valid
      /\ UNCHANGED chain
  BY DEF ImportSucceeds
<1>5. reported' \subseteq Heights
  <2>1. run.first..run.last \subseteq Heights
    BY <1>2
  <2>2. reported \subseteq Heights
    BY DEF IInv, Types
  <2> HIDE DEF Heights
  <2> QED BY <1>4, <2>1, <2>2
<1>6. ReportedIsValid'
  <2>0. SUFFICES ASSUME NEW h \in reported'
                 PROVE  h + 1 \in DOMAIN chain /\ chain[h + 1] \in Valid
    <3>1. chain' = chain
      BY <1>4
    <3> QED BY <3>1 DEF ReportedIsValid
  <2>1. CASE h \in reported
    BY <2>1 DEF IInv, ReportedIsValid
  <2>2. CASE h \in run.first..run.last
    <3>1. DOMAIN chain = 1..Len(chain)
      BY DEF IInv, Types
    <3>2. h + 1 \in 1..Len(chain)
      BY <1>2, <1>3, <2>2
    <3> QED BY <1>4, <2>2, <3>1, <3>2
  <2> QED BY <1>4, <2>0, <2>1, <2>2
<1> QED BY <1>1, <1>5, <1>6, EndPreserves DEF ImportSucceeds

LEMMA ServePreserves ==
    ASSUME IInv, NEW h \in Heights, NEW c \in Content \cup {None}, Serve(h, c)
    PROVE  IInv'
<1>1. /\ h \in remote
      /\ source' = [source EXCEPT ![h] = c]
      /\ UNCHANGED <<chain, remote, top, files, run, progress, item, history>>
  BY DEF Serve, command
<1>2. Types'
  BY <1>1 DEF IInv, Types, history
<1>3. \A k : k \notin remote => source'[k] = source[k]
  BY <1>1 DEF IInv, Types
<1>4. \A k : Ready(k)' = Ready(k)
  BY <1>1, <1>3 DEF Ready, history
<1>5. AcceptedRange'
  BY <1>1, <1>4 DEF IInv, AcceptedRange
<1>6. \A k \in Heights : Working(k) => Working(k)'
  BY <1>1, <1>3, <1>4 DEF Working, Excused, history
<1>7. RunFiles' /\ GivenFiles'
  BY <1>1, <1>6 DEF IInv, RunFiles, GivenFiles, Excused, history
<1>8. ImportedWasValidated' /\ ReportedIsValid'
  BY <1>1 DEF IInv, ImportedWasValidated, ReportedIsValid, history
<1> QED BY <1>2, <1>5, <1>7, <1>8 DEF IInv

LEMMA InvNext == IInv /\ [Next]_vars => IInv'
<1> SUFFICES ASSUME IInv, [Next]_vars PROVE IInv'
  OBVIOUS
<1>1. ASSUME UNCHANGED <<chain, reported>> PROVE ReportedIsValid' /\ reported' \subseteq Heights
  BY <1>1 DEF IInv, ReportedIsValid, Types
<1>2. CASE RefuseHeights
  BY <1>1, <1>2, EndPreserves DEF RefuseHeights, history
<1>3. CASE ValidationFails
  <2>1. run.stage = "validate"
    BY <1>3, WorkRuns DEF ValidationFails
  <2> QED BY <1>1, <1>3, <2>1, EndPreserves DEF ValidationFails, history
<1>4. CASE ImportFails
  BY <1>1, <1>4, EndPreserves DEF ImportFails, history
<1>5. ASSUME NEW h \in Heights, LoadFails(h) \/ SaveFails(h) PROVE IInv'
  BY <1>5, FailedPreserves DEF LoadFails, SaveFails
<1>6. CASE UNCHANGED vars
  BY <1>6 DEF vars, command, history, IInv, Types, ImportedWasValidated,
              ReportedIsValid, GivenFiles, RunFiles, Working, Excused, AcceptedRange,
              Ready
<1> QED BY <1>2, <1>3, <1>4, <1>5, <1>6, BeginPreserves, CheckHeightsPreserves,
           LoadPreserves, SavePreserves, ValidatePreserves, ValidatedPreserves,
           ImportBlockPreserves, ImportSucceedsPreserves, ServePreserves,
           CrashPreserves DEF Next

LEMMA Invariance == Spec => []IInv
BY InvInit, InvNext, PTL DEF Spec

(* A block that an import wrote was validated before, even if what is      *)
(* served elsewhere changed since, unless it came from a file that a       *)
(* killed command left before it was validated.                            *)
THEOREM ImportsAreValidated == Spec => []ImportedWasValidated
<1>1. IInv => ImportedWasValidated
  BY DEF IInv
<1> QED BY <1>1, Invariance, PTL

(* Every block that an import reported as imported is a valid one,         *)
(* whatever files killed commands left.                                    *)
THEOREM ReportedAreValid == Spec => []ReportedIsValid
<1>1. IInv => ReportedIsValid
  BY DEF IInv
<1> QED BY <1>1, Invariance, PTL

(* An import never replaces a block of the node.                           *)
THEOREM ChainOnlyGrows == Spec => ChainGrows
<1>1. IInv /\ [Next]_vars => [IsPrefix(chain, chain')]_chain
  <2> SUFFICES ASSUME IInv, [Next]_vars, chain' # chain PROVE IsPrefix(chain, chain')
    OBVIOUS
  <2>1. CASE ImportBlock
    <3>1. chain' = Append(chain, Read(run.next))
      BY <2>1, ImportAppends
    <3> QED BY <3>1 DEF IsPrefix, IInv, Types
  <2>2. CASE ~ImportBlock
    BY <2>2
       DEF Next, vars, Begin, CheckHeights, RefuseHeights, Proceed, Load, LoadFails,
           Save, SaveFails, Validate, ValidationFails, Validated, ImportSucceeds,
           ImportFails, Serve, Crash
  <2> QED BY <2>1, <2>2
<1> QED BY <1>1, Invariance, PTL DEF Spec, ChainGrows

---------------------------------------------------------------------------
(* No file is unfinished but the one that is being written or that could   *)
(* not be, unless a command was killed; and a range stays in the source.   *)
FilesFinished ==
    /\ crashes \in Nat
    /\ crashes = 0 =>
          \A own \in BOOLEAN, h \in Heights : files[own][h] = Partial =>
              /\ progress[h] \in {"save", "failed"}
              /\ run.stage = "validate"
              /\ own = run.own

WithinSource == run.stage \in {"validate", "import"} => run.last <= top

(* Whose file it is must be known: the validation of a height does not     *)
(* finish a file that another directory holds.                             *)
TypeInv == FilesFinished /\ WithinSource

LEMMA TypeInvInit == Init => TypeInv
BY DEF Init, TypeInv, WithinSource, NoRun, FilesFinished, NoFiles

(* The command ends: the file that could not be written goes with its      *)
(* directory.                                                              *)
LEMMA EndFinished ==
    ASSUME IInv, TypeInv, run.stage \in {"check", "validate", "import"}, End,
           UNCHANGED <<chain, top, crashes>>
    PROVE  TypeInv'
<1>1. run.own \in BOOLEAN
  BY RunOwn
<1>2. \A own \in BOOLEAN, h \in Heights :
          files'[own][h] = Partial => files[own][h] = Partial /\ own # run.own
  BY <1>1 DEF End, NoFiles, IInv, Types
<1>3. FilesFinished'
  BY <1>2 DEF TypeInv, FilesFinished
<1>4. WithinSource'
  BY DEF WithinSource, End, Stop, NoRun
<1> QED BY <1>3, <1>4 DEF TypeInv

(* A step of the validation of h whose file is unfinished only if it goes  *)
(* on being written or has failed.                                         *)
LEMMA WorkFinished ==
    ASSUME IInv, TypeInv, NEW h \in Heights, run.stage = "validate",
           NEW p \in Progress, NEW i, Proceed(h, p, i),
           \/ UNCHANGED files
           \/ \E f \in Content \cup {None, Partial} : files' = [files EXCEPT ![run.own][h] = f],
           files'[run.own][h] = Partial =>
               p \in {"save", "failed"} \/ crashes > 0
    PROVE  TypeInv'
<1>1. /\ run.own \in BOOLEAN
      /\ progress' = [progress EXCEPT ![h] = p]
      /\ UNCHANGED <<run, top, crashes>>
  BY RunOwn DEF Proceed, bounds
<1>2. /\ progress'[h] = p
      /\ \A k \in Heights \ {h} : progress'[k] = progress[k]
  BY <1>1 DEF IInv, Types
<1>3. \A own \in BOOLEAN, k \in Heights :
          own # run.own \/ k # h => files'[own][k] = files[own][k]
  <2>1. ASSUME NEW f \in Content \cup {None, Partial},
               files' = [files EXCEPT ![run.own][h] = f]
        PROVE  <1>3!:
    BY <1>1, <2>1 DEF IInv, Types
  <2> QED BY <2>1
<1>4. FilesFinished'
  <2>1. crashes \in Nat
    BY DEF TypeInv, FilesFinished
  <2>2. SUFFICES ASSUME crashes = 0, NEW own \in BOOLEAN, NEW k \in Heights,
                        files'[own][k] = Partial
                 PROVE  progress'[k] \in {"save", "failed"} /\ own = run.own
    BY <1>1, <2>1 DEF FilesFinished
  <2>3. CASE own = run.own /\ k = h
    BY <1>2, <2>2, <2>3
  <2>4. CASE own # run.own \/ k # h
    <3>1. files[own][k] = Partial
      BY <1>3, <2>2, <2>4
    <3>2. own = run.own /\ progress[k] \in {"save", "failed"}
      BY <2>2, <3>1 DEF TypeInv, FilesFinished
    <3> QED BY <1>2, <2>4, <3>2
  <2> QED BY <2>3, <2>4
<1>5. WithinSource'
  BY <1>1 DEF TypeInv, WithinSource
<1> QED BY <1>4, <1>5 DEF TypeInv

LEMMA TypeInvNext == IInv /\ TypeInv /\ [Next]_vars => TypeInv'
<1> SUFFICES ASSUME IInv, TypeInv, [Next]_vars PROVE TypeInv'
  OBVIOUS
<1>0. \A h \in Heights : progress[h] # "done" => run.stage = "validate" /\ run.own \in BOOLEAN
  BY WorkRuns
<1>1. ASSUME NEW from \in Heights0, NEW to \in Heights0, NEW do \in BOOLEAN,
             NEW own \in BOOLEAN, Begin(from, to, do, own)
      PROVE  TypeInv'
  <2>1. \A b \in BOOLEAN, h \in Heights :
            files'[b][h] = Partial => files[b][h] = Partial
    BY <1>1 DEF Begin, NoFiles, IInv, Types
  <2>2. FilesFinished'
    BY <1>1, <2>1 DEF Begin, TypeInv, FilesFinished, NoRun, bounds
  <2>3. WithinSource'
    BY <1>1 DEF Begin, WithinSource
  <2> QED BY <2>2, <2>3 DEF TypeInv
<1>2. CASE CheckHeights
  <2>1. run \in RunType /\ run.stage = "check"
    BY <1>2 DEF CheckHeights, IInv, Types
  <2>2. run.to \in Heights0 /\ top \in Heights0
    BY <2>1 DEF RunType, NoRun, IInv, Types
  <2>3. Highest(run.to) <= top
    BY <1>2, <2>2 DEF CheckHeights, HeightsAllowed, Highest
  <2>4. WithinSource'
    BY <1>2, <2>3 DEF CheckHeights, WithinSource
  <2>5. FilesFinished'
    BY <1>2, <2>1 DEF CheckHeights, TypeInv, FilesFinished, bounds
  <2> QED BY <2>4, <2>5 DEF TypeInv
<1>3. CASE RefuseHeights
  BY <1>3, EndFinished DEF RefuseHeights, bounds
<1>4. ASSUME NEW h \in Heights, Load(h)
      PROVE  TypeInv'
  <2>1. progress[h] = "read" /\ run.stage = "validate" /\ run.own \in BOOLEAN
    BY <1>0, <1>4 DEF Load
  <2>2. CASE Saves(h)
    BY <1>4, <2>1, <2>2, WorkFinished DEF Load, Progress
  <2>3. CASE ~Saves(h)
    <3>1. files[run.own][h] = Partial => crashes > 0
      BY <2>1 DEF TypeInv, FilesFinished
    <3> QED BY <1>4, <2>1, <2>3, <3>1, WorkFinished DEF Load, Progress
  <2> QED BY <2>2, <2>3
<1>5. ASSUME NEW h \in Heights, Save(h)
      PROVE  TypeInv'
  <2>1. progress[h] = "save" /\ run.stage = "validate" /\ run.own \in BOOLEAN
        /\ item[h] \in Content
    BY <1>5, WorkRuns DEF Save, Working
  <2>2. files' = [files EXCEPT ![run.own][h] = item[h]] /\ Proceed(h, "check", item[h])
    BY <1>5 DEF Save
  <2>3. files'[run.own][h] # Partial
    BY <2>1, <2>2 DEF IInv, Types
  <2> QED BY <2>1, <2>2, <2>3, WorkFinished DEF Progress
<1>6. ASSUME NEW h \in Heights, LoadFails(h) \/ SaveFails(h)
      PROVE  TypeInv'
  <2>1. /\ run.stage = "validate" /\ run.own \in BOOLEAN
        /\ Proceed(h, "failed", None)
        /\ UNCHANGED files \/ files' = [files EXCEPT ![run.own][h] = None]
    BY <1>0, <1>6 DEF LoadFails, SaveFails
  <2> QED BY <2>1, WorkFinished DEF Progress
<1>7. ASSUME NEW h \in Heights, Validate(h)
      PROVE  TypeInv'
  <2>1. progress[h] = "check" /\ run.stage = "validate" /\ run.own \in BOOLEAN
        /\ UNCHANGED files
    BY <1>0, <1>7 DEF Validate
  <2>2. files[run.own][h] = Partial => crashes > 0
    BY <2>1 DEF TypeInv, FilesFinished
  <2> QED BY <1>7, <2>1, <2>2, WorkFinished DEF Validate, Progress
<1>8. CASE ValidationFails
  BY <1>0, <1>8, EndFinished DEF ValidationFails, bounds
<1>9. CASE Validated
  <2>1. CASE run.do
    <3>1. /\ run.stage = "validate"
          /\ \A h \in Heights : progress[h] = "done"
          /\ UNCHANGED <<top, files, progress, crashes>>
          /\ run'.stage = "import" /\ run'.last = run.last
      BY <1>9, <2>1 DEF Validated, bounds
    <3>2. FilesFinished'
      BY <3>1 DEF TypeInv, FilesFinished
    <3> QED BY <3>1, <3>2 DEF TypeInv, WithinSource
  <2>2. CASE ~run.do
    BY <1>9, <2>2, EndFinished DEF Validated, bounds
  <2> QED BY <2>1, <2>2
<1>10. CASE ImportBlock
  <2>1. /\ run.stage = "import" /\ run' = [run EXCEPT !.next = run.next + 1]
        /\ UNCHANGED <<files, progress, top, crashes>>
    BY <1>10 DEF ImportBlock, bounds
  <2>2. run \in RunType
    BY DEF IInv, Types
  <2>3. run'.last = run.last /\ run'.stage = run.stage /\ run'.own = run.own
    BY <2>1, <2>2 DEF RunType, NoRun
  <2> QED BY <2>1, <2>3 DEF TypeInv, WithinSource, FilesFinished
<1>11. CASE ImportSucceeds \/ ImportFails
  BY <1>11, EndFinished DEF ImportSucceeds, ImportFails, bounds
<1>12. ASSUME NEW h \in Heights, NEW c \in Content \cup {None}, Serve(h, c)
       PROVE  TypeInv'
  BY <1>12 DEF Serve, command, TypeInv, FilesFinished, WithinSource
<1>13. CASE Crash
  BY <1>13 DEF Crash, Stop, TypeInv, FilesFinished, WithinSource, NoRun
<1>14. CASE UNCHANGED vars
  BY <1>14 DEF vars, command, bounds, TypeInv, FilesFinished, WithinSource
<1> QED BY <1>1, <1>2, <1>3, <1>4, <1>5, <1>6, <1>7, <1>8, <1>9, <1>10, <1>11,
           <1>12, <1>13, <1>14 DEF Next

(* The variables stay in their types, ranges within the source, and a      *)
(* cache file is unfinished only while it is written, or after an error or *)
(* a crash.                                                                *)
THEOREM TypeCorrect == Spec => []TypeOK
<1>1. IInv /\ TypeInv => TypeOK
  BY DEF IInv, Types, TypeInv, FilesFinished, WithinSource, TypeOK
<1> QED BY <1>1, TypeInvInit, TypeInvNext, Invariance, PTL DEF Spec
=============================================================================
