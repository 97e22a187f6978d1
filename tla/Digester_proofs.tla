-------------------------- MODULE Digester_proofs --------------------------
(***************************************************************************)
(* What is digested, for any number of blocks, faults, crashes and         *)
(* attempts: the last digested block can be shown, a block is written      *)
(* again only after an overlap or a manifest that could not be read, and a *)
(* node fed by consensus alone writes its blocks in order.                 *)
(***************************************************************************)
EXTENDS Digester, SequenceTheorems, TLAPS

LEMMA HeightsFacts ==
    /\ \A h \in Heights : h \in Nat /\ h <= MaxHeight
    /\ \A h \in Int : 0 <= h /\ h <= MaxHeight => h \in Heights
    /\ 0 \in Heights
    /\ NilHeight = -1 /\ NilHeight \notin Heights
BY DigesterAssumption DEF Heights, NilHeight

---------------------------------------------------------------------------
(* Types.                                                                  *)

(* Every digester is somewhere in its work. *)
WorkTypes ==
    /\ pc \in [Digesting -> PC]
    /\ at \in [Digesting -> Heights]
    /\ until \in Heights
    /\ tries \in 0..Retries

IncomingTypes ==
    /\ confirmed \in Seq(Heights)
    /\ synced \in Nat
    /\ senders \in [Heights -> Nat]
    /\ queue \in Seq(Heights)
    /\ Len(queue) <= Capacity

StoredTypes ==
    /\ head \in Heights \cup {NilHeight}
    /\ docs \in [Heights -> Nat]
    /\ lastBlock \in Heights \cup {NilHeight}

HistoryTypes ==
    /\ overlapped \subseteq Heights
    /\ misread \in [Heights -> Nat]
    /\ fetched \in BOOLEAN
    /\ abandoned \subseteq Heights
    /\ faults \in Nat
    /\ crashes \in Nat

NodeType == node \in {"down", "starting", "up"}

LEMMA TypeParts ==
    TypeOK <=> NodeType /\ StoredTypes /\ IncomingTypes /\ WorkTypes /\ HistoryTypes
BY DEF TypeOK, NodeType, StoredTypes, IncomingTypes, WorkTypes, HistoryTypes

LEMMA TypePartsNext ==
    TypeOK' <=> NodeType' /\ StoredTypes' /\ IncomingTypes' /\ WorkTypes' /\ HistoryTypes'
BY DEF TypeOK, NodeType, StoredTypes, IncomingTypes, WorkTypes, HistoryTypes

LEMMA TypesInit == Init => TypeOK
<1> SUFFICES ASSUME Init PROVE TypeOK
  OBVIOUS
<1> USE HeightsFacts DEF Init
<1>1. StoredTypes /\ NodeType
  BY DEF StoredTypes, NodeType
<1>2. IncomingTypes
  BY DigesterAssumption DEF IncomingTypes
<1>3. WorkTypes
  BY DigesterAssumption DEF WorkTypes, PC
<1>4. HistoryTypes
  BY DEF HistoryTypes
<1> QED BY <1>1, <1>2, <1>3, <1>4, TypeParts

(* What Forget leaves is of the types, whatever was before. *)
LEMMA ForgetTypes ==
    ASSUME Forget
    PROVE  NodeType' /\ IncomingTypes' /\ WorkTypes'
<1> USE HeightsFacts DEF Forget
<1>1. NodeType'
  BY DEF NodeType
<1>2. IncomingTypes'
  BY DigesterAssumption DEF IncomingTypes
<1>3. WorkTypes'
  BY DigesterAssumption DEF WorkTypes, PC
<1> QED BY <1>1, <1>2, <1>3

LEMMA FollowUpTypes ==
    ASSUME StoredTypes, WorkTypes, NEW h \in Heights, FollowUp(h)
    PROVE  WorkTypes'
<1>1. FollowUpFrom(h) \in Heights
  BY HeightsFacts DEF FollowUpFrom, StoredTypes
<1> QED BY <1>1 DEF FollowUp, WorkTypes, PC

LEMMA RestTypes ==
    ASSUME WorkTypes, NEW d \in Digesting, Rest(d)
    PROVE  WorkTypes'
BY HeightsFacts, DigesterAssumption DEF Rest, WorkTypes, PC

LEMMA NextBlockTypes ==
    ASSUME NodeType, WorkTypes, NEW d \in Digesting, NextBlock(d)
    PROVE  NodeType' /\ WorkTypes'
<1>1. CASE d = "followUp" /\ at[d] < until
  <2>1. at[d] \in Heights /\ until \in Heights
    BY DEF WorkTypes
  <2>2. at[d] + 1 \in Heights
    BY <1>1, <2>1, HeightsFacts, DigesterAssumption
  <2> QED BY <1>1, <2>2 DEF NextBlock, NodeType, WorkTypes, PC
<1>2. CASE ~(d = "followUp" /\ at[d] < until)
  BY <1>2, RestTypes DEF NextBlock, NodeType
<1> QED BY <1>1, <1>2

LEMMA FailTypes ==
    ASSUME TypeOK, NEW d \in Digesting, Fail(d)
    PROVE  NodeType' /\ IncomingTypes' /\ WorkTypes' /\ abandoned' \subseteq Heights
<1>0. NodeType /\ IncomingTypes /\ WorkTypes /\ abandoned \subseteq Heights
  BY TypeParts DEF HistoryTypes
<1>1. CASE d = "followUp"
  BY <1>0, <1>1, ForgetTypes DEF Fail, EndNode
<1>2. CASE d # "followUp" /\ tries < Retries
  <2>1. TryAgain(d)
    BY <1>2 DEF Fail
  <2>2. WorkTypes'
    BY <1>0, <1>2, <2>1, DigesterAssumption DEF TryAgain, WorkTypes, PC
  <2> QED BY <1>0, <2>1, <2>2 DEF TryAgain, incoming, NodeType, IncomingTypes
<1>3. CASE d # "followUp" /\ ~(tries < Retries)
  <2>1. GiveUp(d)
    BY <1>3 DEF Fail
  <2>2. WorkTypes' /\ abandoned' \subseteq Heights
    BY <1>0, <2>1, RestTypes DEF GiveUp, WorkTypes
  <2> QED BY <1>0, <2>1, <2>2 DEF GiveUp, incoming, NodeType, IncomingTypes
<1> QED BY <1>1, <1>2, <1>3

LEMMA DigestStepTypes ==
    ASSUME TypeOK, NEW d \in Digesting, DigestStep(d)
    PROVE  TypeOK'
<1>0. NodeType /\ StoredTypes /\ IncomingTypes /\ WorkTypes /\ HistoryTypes
  BY TypeParts
<1>a. at[d] \in Heights
  BY <1>0 DEF WorkTypes
<1>1. CASE ItemsNotFound(d)
  <2>1. StoredTypes'
    BY <1>0, <1>1 DEF ItemsNotFound, stored, StoredTypes
  <2>2. NodeType' /\ IncomingTypes' /\ WorkTypes' /\ abandoned' \subseteq Heights
    <3>1. CASE d = "worker"
      BY <1>1, <3>1, FailTypes DEF ItemsNotFound
    <3>2. CASE d # "worker"
      <4>1. NextBlock(d) /\ UNCHANGED <<incoming, abandoned>>
        BY <1>1, <3>2 DEF ItemsNotFound
      <4> QED BY <1>0, <4>1, NextBlockTypes DEF incoming, IncomingTypes, HistoryTypes
    <3> QED BY <3>1, <3>2
  <2>3. HistoryTypes'
    BY <1>0, <1>1, <2>2 DEF ItemsNotFound, repeats, HistoryTypes
  <2> QED BY <2>1, <2>2, <2>3, TypePartsNext
<1>2. CASE CheckManifest(d)
  <2>1. WorkTypes'
    BY <1>0, <1>2 DEF CheckManifest, WorkTypes, PC
  <2>2. overlapped' \subseteq Heights
    BY <1>0, <1>a, <1>2 DEF CheckManifest, NoteOverlap, HistoryTypes
  <2>3. HistoryTypes'
    BY <1>0, <1>2, <2>2 DEF CheckManifest, counters, HistoryTypes
  <2>4. NodeType' /\ StoredTypes' /\ IncomingTypes'
    BY <1>0, <1>2
       DEF CheckManifest, stored, incoming, NodeType, StoredTypes, IncomingTypes
  <2> QED BY <2>1, <2>3, <2>4, TypePartsNext
<1>3. CASE Commit(d)
  <2>1. WorkTypes'
    BY <1>0, <1>3 DEF Commit, WorkTypes, PC
  <2>2. StoredTypes'
    <3>1. PICK n \in Nat : docs' = [docs EXCEPT ![at[d]] = n]
      <4>1. docs[at[d]] + 1 \in Nat
        BY <1>0, <1>a DEF StoredTypes
      <4> QED BY <1>3, <4>1 DEF Commit
    <3> QED BY <1>0, <1>3, <3>1 DEF Commit, StoredTypes
  <2>3. NodeType' /\ IncomingTypes' /\ HistoryTypes'
    BY <1>0, <1>3 DEF Commit, incoming, repeats, counters, NodeType, IncomingTypes, HistoryTypes
  <2> QED BY <2>1, <2>2, <2>3, TypePartsNext
<1>4. CASE DigestFails(d)
  <2>1. StoredTypes'
    BY <1>0, <1>4 DEF DigestFails, stored, StoredTypes
  <2>2. NodeType' /\ IncomingTypes' /\ WorkTypes' /\ abandoned' \subseteq Heights
    BY <1>4, FailTypes DEF DigestFails
  <2>3. HistoryTypes'
    BY <1>0, <1>4, <2>2 DEF DigestFails, repeats, HistoryTypes
  <2> QED BY <2>1, <2>2, <2>3, TypePartsNext
<1>5. CASE SetLastBlock(d)
  <2>1. NodeType' /\ WorkTypes'
    BY <1>0, <1>5, NextBlockTypes DEF SetLastBlock
  <2>2. lastBlock' = at[d] \/ lastBlock' = lastBlock
    <3>1. lastBlock' \in IF at[d] > lastBlock THEN {at[d]} ELSE {at[d], lastBlock}
      BY <1>5 DEF SetLastBlock
    <3> QED BY <3>1
  <2>3. StoredTypes'
    <3>1. UNCHANGED <<head, docs>>
      BY <1>5 DEF SetLastBlock
    <3> QED BY <1>0, <1>a, <2>2, <3>1 DEF StoredTypes
  <2>4. IncomingTypes' /\ HistoryTypes'
    BY <1>0, <1>5 DEF SetLastBlock, incoming, repeats, counters, IncomingTypes, HistoryTypes
  <2> QED BY <2>1, <2>3, <2>4, TypePartsNext
<1>6. CASE ManifestUnread(d)
  <2>1. WorkTypes'
    BY <1>0, <1>6 DEF ManifestUnread, WorkTypes, PC
  <2>2. overlapped' \subseteq Heights
    BY <1>0, <1>a, <1>6 DEF ManifestUnread, NoteOverlap, HistoryTypes
  <2>3. misread' \in [Heights -> Nat]
    <3>1. misread \in [Heights -> Nat] /\ misread[at[d]] + 1 \in Nat
      BY <1>0, <1>a DEF HistoryTypes
    <3>2. misread' = [misread EXCEPT ![at[d]] = misread[at[d]] + 1]
      BY <1>6 DEF ManifestUnread
    <3> QED BY <3>1, <3>2
  <2>4. faults' \in Nat /\ UNCHANGED <<fetched, abandoned, crashes>>
    BY <1>0, <1>6 DEF ManifestUnread, HistoryTypes
  <2>5. HistoryTypes'
    BY <1>0, <2>2, <2>3, <2>4 DEF HistoryTypes
  <2>6. NodeType' /\ StoredTypes' /\ IncomingTypes'
    BY <1>0, <1>6
       DEF ManifestUnread, stored, incoming, NodeType, StoredTypes, IncomingTypes
  <2> QED BY <2>1, <2>5, <2>6, TypePartsNext
<1> QED BY <1>1, <1>2, <1>3, <1>4, <1>5, <1>6 DEF DigestStep

LEMMA TypesNext == TypeOK /\ [Next]_vars => TypeOK'
<1> SUFFICES ASSUME TypeOK, [Next]_vars PROVE TypeOK'
  OBVIOUS
<1>0. NodeType /\ StoredTypes /\ IncomingTypes /\ WorkTypes /\ HistoryTypes
  BY TypeParts
<1> USE DEF stored, incoming, work, repeats, counters
<1>1. CASE SaveByConsensus
  <2>1. head' \in Heights /\ head' = head + 1
    BY <1>0, <1>1, HeightsFacts, DigesterAssumption DEF SaveByConsensus, StoredTypes
  <2>2. IncomingTypes'
    BY <1>0, <1>1, <2>1 DEF SaveByConsensus, IncomingTypes
  <2>3. StoredTypes'
    BY <1>0, <1>1, <2>1 DEF SaveByConsensus, StoredTypes
  <2>4. NodeType' /\ WorkTypes' /\ HistoryTypes'
    BY <1>0, <1>1 DEF SaveByConsensus, NodeType, WorkTypes, HistoryTypes
  <2> QED BY <2>2, <2>3, <2>4, TypePartsNext
<1>2. CASE SaveBySyncing
  <2>1. head' \in Heights /\ head' = head + 1
    BY <1>0, <1>2, HeightsFacts, DigesterAssumption DEF SaveBySyncing, StoredTypes
  <2>2. IncomingTypes'
    BY <1>0, <1>2 DEF SaveBySyncing, IncomingTypes
  <2>3. StoredTypes'
    BY <1>0, <1>2, <2>1 DEF SaveBySyncing, StoredTypes
  <2>4. NodeType' /\ WorkTypes' /\ HistoryTypes'
    BY <1>0, <1>2 DEF SaveBySyncing, NodeType, WorkTypes, HistoryTypes
  <2> QED BY <2>2, <2>3, <2>4, TypePartsNext
<1>3. CASE WhenBlockSaved
  <2>0. senders' \in [Heights -> Nat]
    <3>1. senders' = [senders EXCEPT ![head] = senders[head] + 1]
      BY <1>3 DEF WhenBlockSaved
    <3>2. senders \in [Heights -> Nat]
      BY <1>0 DEF IncomingTypes
    <3>3. CASE head \in Heights
      <4>1. PICK n \in Nat : senders' = [senders EXCEPT ![head] = n]
        <5>1. senders[head] + 1 \in Nat
          BY <3>2, <3>3
        <5> QED BY <3>1, <5>1
      <4> QED BY <3>2, <4>1
    <3>4. CASE head \notin Heights
      BY <3>1, <3>2, <3>4
    <3> QED BY <3>3, <3>4
  <2>1. IncomingTypes'
    BY <1>0, <1>3, <2>0 DEF WhenBlockSaved, IncomingTypes
  <2>2. NodeType' /\ StoredTypes' /\ WorkTypes' /\ HistoryTypes'
    BY <1>0, <1>3 DEF WhenBlockSaved, NodeType, StoredTypes, WorkTypes, HistoryTypes
  <2> QED BY <2>1, <2>2, TypePartsNext
<1>4. ASSUME NEW h \in Heights, Digest(h) PROVE TypeOK'
  <2>1. Len(Append(queue, h)) <= Capacity
    BY <1>0, <1>4, DigesterAssumption DEF Digest, IncomingTypes
  <2>2. IncomingTypes'
    <3>1. senders' \in [Heights -> Nat]
      <4>1. senders \in [Heights -> Nat] /\ senders[h] > 0
        BY <1>0, <1>4 DEF Digest, IncomingTypes
      <4>2. PICK n \in Nat : senders' = [senders EXCEPT ![h] = n]
        <5>1. senders[h] - 1 \in Nat
          BY <4>1
        <5> QED BY <1>4, <5>1 DEF Digest
      <4> QED BY <4>1, <4>2
    <3>2. queue' \in Seq(Heights) /\ Len(queue') <= Capacity
      <4>1. queue' = Append(queue, h) /\ queue \in Seq(Heights)
        BY <1>0, <1>4 DEF Digest, IncomingTypes
      <4> QED BY <2>1, <4>1
    <3> QED BY <1>0, <1>4, <3>1, <3>2 DEF Digest, IncomingTypes
  <2>3. NodeType' /\ StoredTypes' /\ WorkTypes' /\ HistoryTypes'
    BY <1>0, <1>4 DEF Digest, NodeType, StoredTypes, WorkTypes, HistoryTypes
  <2> QED BY <2>2, <2>3, TypePartsNext
<1>5. CASE Take
  <2>1. queue \in Seq(Heights) /\ queue # <<>>
    BY <1>0, <1>5 DEF Take, IncomingTypes
  <2>2. Head(queue) \in Heights /\ Tail(queue) \in Seq(Heights)
        /\ Len(Tail(queue)) = Len(queue) - 1
    BY <2>1
  <2>3. IncomingTypes'
    BY <1>0, <1>5, <2>1, <2>2, DigesterAssumption DEF Take, IncomingTypes
  <2>4. WorkTypes'
    <3>1. tries' \in 0..Retries
      BY <1>5, DigesterAssumption DEF Take
    <3>2. pc' \in [Digesting -> PC] /\ at' \in [Digesting -> Heights]
      BY <1>0, <1>5, <2>2 DEF Take, WorkTypes, PC
    <3> QED BY <1>0, <1>5, <3>1, <3>2 DEF Take, WorkTypes
  <2>5. NodeType' /\ StoredTypes' /\ HistoryTypes'
    BY <1>0, <1>5 DEF Take, NodeType, StoredTypes, HistoryTypes
  <2> QED BY <2>3, <2>4, <2>5, TypePartsNext
<1>6. CASE WhenNewBlockConfirmed
  <2>1. confirmed \in Seq(Heights) /\ confirmed # <<>>
    BY <1>0, <1>6 DEF WhenNewBlockConfirmed, IncomingTypes
  <2>2. Head(confirmed) \in Heights /\ Tail(confirmed) \in Seq(Heights)
    BY <2>1
  <2>3. WorkTypes'
    <3>1. CASE UNCHANGED work
      BY <1>0, <3>1 DEF WorkTypes
    <3>2. CASE FollowUp(Head(confirmed))
      BY <1>0, <2>2, <3>2, FollowUpTypes
    <3> QED BY <1>6, <3>1, <3>2 DEF WhenNewBlockConfirmed
  <2>4. IncomingTypes'
    BY <1>0, <1>6, <2>2 DEF WhenNewBlockConfirmed, IncomingTypes
  <2>5. NodeType' /\ StoredTypes' /\ HistoryTypes'
    BY <1>0, <1>6 DEF WhenNewBlockConfirmed, NodeType, StoredTypes, HistoryTypes
  <2> QED BY <2>3, <2>4, <2>5, TypePartsNext
<1>7. CASE Start
  <2>1. IncomingTypes' /\ StoredTypes' /\ HistoryTypes' /\ NodeType'
    BY <1>0, <1>7 DEF Start, IncomingTypes, StoredTypes, HistoryTypes, NodeType
  <2>2. WorkTypes'
    <3>1. CASE head > lastBlock
      <4>1. head \in Heights
        BY <1>0, <3>1, HeightsFacts DEF StoredTypes
      <4> QED BY <1>0, <1>7, <3>1, <4>1, FollowUpTypes DEF Start
    <3>2. CASE ~(head > lastBlock)
      BY <1>0, <1>7, <3>2 DEF Start, WorkTypes
    <3> QED BY <3>1, <3>2
  <2> QED BY <2>1, <2>2, TypePartsNext
<1>8. CASE Crash
  <2>1. NodeType' /\ IncomingTypes' /\ WorkTypes'
    BY <1>8, ForgetTypes DEF Crash
  <2>2. StoredTypes' /\ HistoryTypes'
    BY <1>0, <1>8 DEF Crash, StoredTypes, HistoryTypes
  <2> QED BY <2>1, <2>2, TypePartsNext
<1>9. CASE UNCHANGED vars
  <2>1. NodeType' /\ StoredTypes' /\ IncomingTypes' /\ WorkTypes' /\ HistoryTypes'
    BY <1>0, <1>9
       DEF vars, NodeType, StoredTypes, IncomingTypes, WorkTypes, HistoryTypes
  <2> QED BY <2>1, TypePartsNext
<1> QED BY <1>1, <1>2, <1>3, <1>4, <1>5, <1>6, <1>7, <1>8, <1>9, DigestStepTypes
           DEF Next

---------------------------------------------------------------------------
(* The invariant.                                                          *)

(* The last block is marked after its documents are stored. *)
MarksWhatIsStored == \A d \in Digesting : pc[d] = "mark" => docs[at[d]] > 0

Writes(d, h) == pc[d] = "write" /\ at[d] = h

(* How many digesters write h. *)
Writers(h) == (IF Writes("worker", h) THEN 1 ELSE 0)
            + (IF Writes("followUp", h) THEN 1 ELSE 0)

(* What is written of a block, and what is about to be, has its excuse:    *)
(* being the first, an overlap, or a manifest that could not be read.      *)
WritingExcused ==
    \A h \in Heights :
        docs[h] + Writers(h) <= 1 + (IF h \in overlapped THEN 1 ELSE 0) + misread[h]

(* d are the documents, every readable block below n has some. *)
Gapless(d, n) == \A k \in Heights \ Unreadable : k < n => d[k] > 0

(* Without syncing the worker has nothing to do, and the follow-up begins  *)
(* where it ended.                                                         *)
FollowUpAlone ==
    ~fetched =>
        /\ pc["worker"] = "idle" /\ queue = <<>> /\ synced = 0
        /\ \A h \in Heights : senders[h] = 0
        /\ lastBlock # NilHeight => Gapless(docs, lastBlock)
        /\ pc["followUp"] # "idle" => Gapless(docs, at["followUp"])

IInv ==
    /\ TypeOK
    /\ MarksWhatIsStored
    /\ LastBlockDigested
    /\ WritingExcused
    /\ FollowUpAlone

LEMMA InvInit == Init => IInv
<1> SUFFICES ASSUME Init PROVE IInv
  OBVIOUS
<1>1. TypeOK
  BY TypesInit
<1>2. MarksWhatIsStored /\ LastBlockDigested
  BY DEF Init, MarksWhatIsStored, LastBlockDigested
<1>3. WritingExcused
  BY DEF Init, WritingExcused, Writers, Writes, Digesting
<1>4. FollowUpAlone
  BY DEF Init, FollowUpAlone, Digesting
<1> QED BY <1>1, <1>2, <1>3, <1>4 DEF IInv

(* What may be written of a block: docs[h] and Writers(h) are weighed      *)
(* against it.                                                             *)
LEMMA WritingWeighed ==
    ASSUME WritingExcused, TypeOK, TypeOK', NEW h \in Heights,
           overlapped \subseteq overlapped', misread[h] <= misread'[h],
           docs'[h] + Writers(h)' <= docs[h] + Writers(h)
    PROVE  docs'[h] + Writers(h)'
              <= 1 + (IF h \in overlapped' THEN 1 ELSE 0) + misread'[h]
<1>1. /\ docs[h] \in Nat /\ docs'[h] \in Nat
      /\ misread[h] \in Nat /\ misread'[h] \in Nat
  BY TypeParts, TypePartsNext DEF StoredTypes, HistoryTypes
<1>2. Writers(h) \in Nat /\ Writers(h)' \in Nat
  BY DEF Writers
<1>3. docs[h] + Writers(h) <= 1 + (IF h \in overlapped THEN 1 ELSE 0) + misread[h]
  BY DEF WritingExcused
<1> QED BY <1>1, <1>2, <1>3

(* A step in which no digester comes to write or to mark. *)
Quiet ==
    /\ UNCHANGED <<docs, misread>>
    /\ overlapped \subseteq overlapped'
    /\ \A d \in Digesting :
          \/ pc'[d] = pc[d] /\ at'[d] = at[d]
          \/ pc'[d] \in {"idle", "check"}

LEMMA QuietPreserves ==
    ASSUME IInv, TypeOK', Quiet
    PROVE  MarksWhatIsStored' /\ WritingExcused'
<1>1. MarksWhatIsStored'
  BY DEF IInv, Quiet, MarksWhatIsStored
<1>2. \A d \in Digesting, h \in Heights : Writes(d, h)' => Writes(d, h)
  BY DEF Quiet, Writes
<1>3. WritingExcused'
  <2> SUFFICES ASSUME NEW h \in Heights
               PROVE  docs'[h] + Writers(h)'
                        <= 1 + (IF h \in overlapped' THEN 1 ELSE 0) + misread'[h]
    BY DEF WritingExcused
  <2>1. docs'[h] = docs[h] /\ misread'[h] = misread[h] /\ docs[h] \in Nat
        /\ misread[h] \in Nat
    BY TypeParts DEF Quiet, IInv, StoredTypes, HistoryTypes
  <2>2. Writers(h)' <= Writers(h) /\ Writers(h) \in Nat /\ Writers(h)' \in Nat
    BY <1>2 DEF Writers, Digesting
  <2>3. docs'[h] + Writers(h)' <= docs[h] + Writers(h)
    BY <2>1, <2>2
  <2> QED BY <2>1, <2>3, WritingWeighed DEF IInv, Quiet
<1> QED BY <1>1, <1>3

(* What a failing attempt and what the next block leave. *)
LEMMA FailQuiet ==
    ASSUME TypeOK, NEW d \in Digesting, Fail(d)
    PROVE  \A e \in Digesting : \/ pc'[e] = pc[e] /\ at'[e] = at[e]
                                \/ pc'[e] \in {"idle", "check"}
BY TypeParts DEF WorkTypes, Fail, EndNode, Forget, TryAgain, GiveUp, Rest

LEMMA NextBlockQuiet ==
    ASSUME TypeOK, NEW d \in Digesting, NextBlock(d)
    PROVE  \A e \in Digesting : \/ pc'[e] = pc[e] /\ at'[e] = at[e]
                                \/ pc'[e] \in {"idle", "check"}
BY TypeParts DEF WorkTypes, NextBlock, Rest

LEMMA FollowUpQuiet ==
    ASSUME TypeOK, NEW h, FollowUp(h)
    PROVE  \A e \in Digesting : \/ pc'[e] = pc[e] /\ at'[e] = at[e]
                                \/ pc'[e] \in {"idle", "check"}
BY TypeParts DEF WorkTypes, FollowUp

LEMMA QuietSteps ==
    ASSUME TypeOK, [Next]_vars,
           \A d \in Digesting : ~CheckManifest(d) /\ ~ManifestUnread(d) /\ ~Commit(d)
    PROVE  Quiet
<1> USE DEF Quiet, stored, incoming, work, repeats, counters
<1>1. CASE SaveByConsensus \/ SaveBySyncing \/ WhenBlockSaved \/ UNCHANGED vars
  BY <1>1 DEF SaveByConsensus, SaveBySyncing, WhenBlockSaved, vars
<1>2. ASSUME NEW h \in Heights, Digest(h) PROVE Quiet
  BY <1>2 DEF Digest
<1>3. CASE Take
  BY <1>3, TypeParts DEF Take, WorkTypes
<1>4. CASE WhenNewBlockConfirmed
  BY <1>4, FollowUpQuiet DEF WhenNewBlockConfirmed
<1>5. CASE Start
  BY <1>5, FollowUpQuiet DEF Start
<1>6. CASE Crash
  BY <1>6 DEF Crash, Forget
<1>7. ASSUME NEW d \in Digesting, ItemsNotFound(d) PROVE Quiet
  BY <1>7, FailQuiet, NextBlockQuiet DEF ItemsNotFound
<1>8. ASSUME NEW d \in Digesting, DigestFails(d) PROVE Quiet
  BY <1>8, FailQuiet DEF DigestFails
<1>9. ASSUME NEW d \in Digesting, SetLastBlock(d) PROVE Quiet
  BY <1>9, NextBlockQuiet DEF SetLastBlock
<1> QED BY <1>1, <1>2, <1>3, <1>4, <1>5, <1>6, <1>7, <1>8, <1>9 DEF Next, DigestStep

(* The other digester. *)
Other(d) == IF d = "worker" THEN "followUp" ELSE "worker"

(* How many write h, seen from one of the digesters. *)
LEMMA WritersOf ==
    ASSUME NEW d \in Digesting
    PROVE  /\ Other(d) \in Digesting \ {d}
           /\ \A h \in Heights :
                 /\ Writers(h) = (IF Writes(d, h) THEN 1 ELSE 0)
                               + (IF Writes(Other(d), h) THEN 1 ELSE 0)
                 /\ Writers(h)' = (IF Writes(d, h)' THEN 1 ELSE 0)
                                + (IF Writes(Other(d), h)' THEN 1 ELSE 0)
BY DEF Writers, Other, Digesting

LEMMA CheckManifestPreserves ==
    ASSUME IInv, TypeOK', NEW d \in Digesting, CheckManifest(d)
    PROVE  MarksWhatIsStored' /\ WritingExcused'
<1>0. /\ at[d] \in Heights /\ docs \in [Heights -> Nat]
      /\ pc \in [Digesting -> PC] /\ misread \in [Heights -> Nat]
  BY TypeParts DEF IInv, WorkTypes, StoredTypes, HistoryTypes
<1>1. UNCHANGED <<docs, at, misread>> /\ overlapped \subseteq overlapped'
  BY DEF CheckManifest, NoteOverlap, stored
<1>2. \A e \in Digesting \ {d} : pc'[e] = pc[e]
  BY <1>0 DEF CheckManifest
<1>3. pc'[d] = IF docs[at[d]] > 0 THEN "mark" ELSE "write"
  BY <1>0 DEF CheckManifest
<1>4. MarksWhatIsStored'
  BY <1>0, <1>1, <1>2, <1>3 DEF IInv, MarksWhatIsStored
<1>5. WritingExcused'
  <2> SUFFICES ASSUME NEW h \in Heights
               PROVE  docs'[h] + Writers(h)'
                        <= 1 + (IF h \in overlapped' THEN 1 ELSE 0) + misread'[h]
    BY DEF WritingExcused
  <2>0. docs[h] \in Nat /\ misread[h] \in Nat
    BY <1>0
  <2>1. Writes(Other(d), h)' <=> Writes(Other(d), h)
    BY <1>1, <1>2, WritersOf DEF Writes
  <2>2. CASE ~Writes(d, h)'
    <3>1. Writers(h)' <= Writers(h) /\ Writers(h) \in Nat /\ Writers(h)' \in Nat
      BY <2>1, <2>2, WritersOf
    <3> QED BY <1>1, <2>0, <3>1, WritingWeighed DEF IInv
  <2>3. CASE Writes(d, h)'
    <3>1. h = at[d] /\ docs[h] = 0
      BY <1>0, <1>1, <1>3, <2>3 DEF Writes
    <3>2. Writes(Other(d), h) => h \in overlapped'
      BY <3>1, WritersOf DEF CheckManifest, NoteOverlap, Writes
    <3> QED BY <1>1, <2>0, <2>1, <2>3, <3>1, <3>2, WritersOf
  <2> QED BY <2>2, <2>3
<1> QED BY <1>4, <1>5

LEMMA ManifestUnreadPreserves ==
    ASSUME IInv, TypeOK', NEW d \in Digesting, ManifestUnread(d)
    PROVE  MarksWhatIsStored' /\ WritingExcused'
<1>0. /\ at[d] \in Heights /\ docs \in [Heights -> Nat]
      /\ pc \in [Digesting -> PC] /\ misread \in [Heights -> Nat]
  BY TypeParts DEF IInv, WorkTypes, StoredTypes, HistoryTypes
<1>1. UNCHANGED <<docs, at>> /\ overlapped \subseteq overlapped' /\ pc[d] = "check"
  BY DEF ManifestUnread, NoteOverlap, stored
<1>2. \A e \in Digesting \ {d} : pc'[e] = pc[e]
  BY <1>0 DEF ManifestUnread
<1>3. pc'[d] = "write"
  BY <1>0 DEF ManifestUnread
<1>4. \A h \in Heights : misread'[h] = IF h = at[d] THEN misread[h] + 1 ELSE misread[h]
  BY <1>0 DEF ManifestUnread
<1>5. MarksWhatIsStored'
  BY <1>0, <1>1, <1>2, <1>3 DEF IInv, MarksWhatIsStored
<1>6. WritingExcused'
  <2> SUFFICES ASSUME NEW h \in Heights
               PROVE  docs'[h] + Writers(h)'
                        <= 1 + (IF h \in overlapped' THEN 1 ELSE 0) + misread'[h]
    BY DEF WritingExcused
  <2>0. docs[h] \in Nat /\ misread[h] \in Nat
    BY <1>0
  <2>1. Writes(Other(d), h)' <=> Writes(Other(d), h)
    BY <1>1, <1>2, WritersOf DEF Writes
  <2>2. ~Writes(d, h)
    BY <1>1 DEF Writes
  <2>3. CASE h # at[d]
    <3>1. Writers(h)' = Writers(h) /\ Writers(h) \in Nat
      BY <1>1, <2>1, <2>2, <2>3, WritersOf DEF Writes
    <3> QED BY <1>1, <1>4, <2>0, <2>3, <3>1, WritingWeighed DEF IInv
  <2>4. CASE h = at[d]
    <3>1. Writers(h)' = Writers(h) + 1 /\ Writers(h) \in Nat
      BY <1>1, <1>3, <2>1, <2>2, <2>4, WritersOf DEF Writes
    <3>2. docs[h] + Writers(h) <= 1 + (IF h \in overlapped THEN 1 ELSE 0) + misread[h]
      BY DEF IInv, WritingExcused
    <3> QED BY <1>1, <1>4, <2>0, <2>4, <3>1, <3>2
  <2> QED BY <2>3, <2>4
<1> QED BY <1>5, <1>6

LEMMA CommitPreserves ==
    ASSUME IInv, TypeOK', NEW d \in Digesting, Commit(d)
    PROVE  MarksWhatIsStored' /\ WritingExcused'
<1>0. /\ at[d] \in Heights /\ docs \in [Heights -> Nat]
      /\ pc \in [Digesting -> PC] /\ at \in [Digesting -> Heights]
      /\ misread \in [Heights -> Nat]
  BY TypeParts DEF IInv, WorkTypes, StoredTypes, HistoryTypes
<1>1. UNCHANGED <<at, overlapped, misread>> /\ pc[d] = "write"
  BY DEF Commit, repeats
<1>2. \A e \in Digesting \ {d} : pc'[e] = pc[e]
  BY <1>0 DEF Commit
<1>3. pc'[d] = "mark"
  BY <1>0 DEF Commit
<1>4. \A h \in Heights : docs'[h] = IF h = at[d] THEN docs[h] + 1 ELSE docs[h]
  BY <1>0 DEF Commit
<1>5. MarksWhatIsStored'
  BY <1>0, <1>1, <1>2, <1>3, <1>4 DEF IInv, MarksWhatIsStored
<1>6. WritingExcused'
  <2> SUFFICES ASSUME NEW h \in Heights
               PROVE  docs'[h] + Writers(h)'
                        <= 1 + (IF h \in overlapped' THEN 1 ELSE 0) + misread'[h]
    BY DEF WritingExcused
  <2>0. docs[h] \in Nat /\ misread[h] \in Nat
    BY <1>0
  <2>1. /\ ~Writes(d, h)' /\ (Writes(d, h) <=> h = at[d])
        /\ Writes(Other(d), h)' <=> Writes(Other(d), h)
    BY <1>1, <1>2, <1>3, WritersOf DEF Writes
  <2>2. Writers(h)' = Writers(h) - (IF h = at[d] THEN 1 ELSE 0) /\ Writers(h) \in Nat
    BY <2>1, WritersOf
  <2>3. docs'[h] + Writers(h)' <= docs[h] + Writers(h)
    BY <1>4, <2>0, <2>2
  <2> QED BY <1>1, <2>0, <2>3, WritingWeighed DEF IInv
<1> QED BY <1>5, <1>6

(* Documents are never removed. *)
LEMMA DocsStay ==
    ASSUME TypeOK, [Next]_vars
    PROVE  \A h \in Heights : docs'[h] >= docs[h]
<1>0. docs \in [Heights -> Nat]
  BY TypeParts DEF StoredTypes
<1>1. ASSUME NEW d \in Digesting, Commit(d)
      PROVE  \A h \in Heights : docs'[h] >= docs[h]
  BY <1>0, <1>1 DEF Commit
<1>2. ASSUME NEW d \in Digesting, CheckManifest(d)
      PROVE  \A h \in Heights : docs'[h] >= docs[h]
  BY <1>0, <1>2 DEF CheckManifest, stored
<1>3. ASSUME NEW d \in Digesting, ManifestUnread(d)
      PROVE  \A h \in Heights : docs'[h] >= docs[h]
  BY <1>0, <1>3 DEF ManifestUnread, stored
<1>4. CASE Quiet
  BY <1>0, <1>4 DEF Quiet
<1> QED BY <1>1, <1>2, <1>3, <1>4, QuietSteps

LEMMA LastBlockStep ==
    ASSUME [Next]_vars
    PROVE  \/ lastBlock' = lastBlock
           \/ \E d \in Digesting : SetLastBlock(d) /\ lastBlock' = at[d]
<1>1. ASSUME NEW d \in Digesting, SetLastBlock(d)
      PROVE  lastBlock' = lastBlock \/ lastBlock' = at[d]
  <2>1. lastBlock' \in IF at[d] > lastBlock THEN {at[d]} ELSE {at[d], lastBlock}
    BY <1>1 DEF SetLastBlock
  <2> QED BY <2>1
<1>2. CASE \A d \in Digesting : ~SetLastBlock(d)
  BY <1>2 DEF Next, DigestStep, SaveByConsensus, SaveBySyncing, WhenBlockSaved,
              Digest, Take, WhenNewBlockConfirmed, Start, Crash, ItemsNotFound,
              CheckManifest, ManifestUnread, Commit, DigestFails, stored, vars
<1> QED BY <1>1, <1>2

LEMMA LastBlockPreserves ==
    ASSUME IInv, [Next]_vars
    PROVE  LastBlockDigested'
<1>0. /\ docs \in [Heights -> Nat] /\ lastBlock \in Heights \cup {NilHeight}
      /\ \A d \in Digesting : at[d] \in Heights
  BY TypeParts DEF IInv, StoredTypes, WorkTypes
<1>00. docs' \in [Heights -> Nat]
  BY TypesNext, TypePartsNext DEF IInv, StoredTypes
<1>1. \A h \in Heights : docs'[h] >= docs[h]
  BY DocsStay DEF IInv
<1>2. CASE lastBlock' = lastBlock
  BY <1>0, <1>00, <1>1, <1>2 DEF IInv, LastBlockDigested
<1>3. ASSUME NEW d \in Digesting, SetLastBlock(d), lastBlock' = at[d]
      PROVE  LastBlockDigested'
  <2>1. docs[at[d]] > 0
    BY <1>3 DEF IInv, MarksWhatIsStored, SetLastBlock
  <2> QED BY <1>0, <1>00, <1>1, <1>3, <2>1 DEF LastBlockDigested
<1> QED BY <1>2, <1>3, LastBlockStep

LEMMA GaplessStays ==
    ASSUME TypeOK, [Next]_vars, NEW n \in Int, Gapless(docs, n)
    PROVE  Gapless(docs', n)
<1>1. docs \in [Heights -> Nat] /\ docs' \in [Heights -> Nat]
  BY TypesNext, TypeParts, TypePartsNext DEF StoredTypes
<1> QED BY <1>1, DocsStay DEF Gapless

LEMMA GaplessNext ==
    ASSUME NEW n \in Heights, Gapless(docs, n), n \in Unreadable \/ docs[n] > 0
    PROVE  Gapless(docs, n + 1)
BY HeightsFacts DEF Gapless

(* The worker stays without work until a block is fetched. *)
LEMMA WorkerIdle ==
    ASSUME IInv, [Next]_vars, ~fetched'
    PROVE  /\ ~fetched
           /\ pc'["worker"] = "idle" /\ queue' = <<>> /\ synced' = 0
           /\ \A h \in Heights : senders'[h] = 0
<1>0. /\ pc \in [Digesting -> PC] /\ "worker" \in Digesting
      /\ queue \in Seq(Heights) /\ senders \in [Heights -> Nat]
      /\ fetched \in BOOLEAN
  BY TypeParts DEF IInv, WorkTypes, IncomingTypes, HistoryTypes, Digesting
<1>1. ~fetched
  BY <1>0 DEF Next, DigestStep, SaveByConsensus, SaveBySyncing, WhenBlockSaved,
              Digest, Take, WhenNewBlockConfirmed, Start, Crash, ItemsNotFound,
              CheckManifest, ManifestUnread, Commit, DigestFails, SetLastBlock,
              counters, vars
<1>2. /\ pc["worker"] = "idle" /\ queue = <<>> /\ synced = 0
      /\ \A h \in Heights : senders[h] = 0
  BY <1>1 DEF IInv, FollowUpAlone
<1> USE DEF incoming, work, counters
<1>3. CASE SaveByConsensus \/ UNCHANGED vars
  BY <1>2, <1>3 DEF SaveByConsensus, vars
<1>4. ~SaveBySyncing
  BY DEF SaveBySyncing
<1>5. ~WhenBlockSaved /\ ~Take /\ \A h \in Heights : ~Digest(h)
  BY <1>2 DEF WhenBlockSaved, Take, Digest
<1>6. CASE WhenNewBlockConfirmed \/ Start
  BY <1>0, <1>2, <1>6 DEF WhenNewBlockConfirmed, Start, FollowUp
<1>7. CASE Crash
  BY <1>0, <1>7 DEF Crash, Forget
<1>8. ASSUME NEW d \in Digesting, DigestStep(d)
      PROVE  /\ pc'["worker"] = "idle" /\ queue' = <<>> /\ synced' = 0
             /\ \A h \in Heights : senders'[h] = 0
  <2>1. pc[d] \in {"check", "write", "mark"}
    BY <1>8 DEF DigestStep, ItemsNotFound, CheckManifest, ManifestUnread, Commit,
                DigestFails, SetLastBlock
  <2>2. d = "followUp" /\ d # "worker"
    BY <1>2, <2>1 DEF Digesting
  <2>3. CASE EndNode
    BY <1>0, <2>3 DEF EndNode, Forget
  <2>4. CASE ~EndNode
    BY <1>0, <1>2, <1>8, <2>2, <2>4
       DEF DigestStep, ItemsNotFound, CheckManifest, ManifestUnread, Commit,
           DigestFails, SetLastBlock, Fail, NextBlock, Rest
  <2> QED BY <2>3, <2>4
<1> QED BY <1>1, <1>3, <1>4, <1>5, <1>6, <1>7, <1>8 DEF Next

(* The follow-up goes on where everything below is written. *)
LEMMA FollowUpGapless ==
    ASSUME IInv, [Next]_vars, ~fetched', pc'["followUp"] # "idle"
    PROVE  Gapless(docs', at'["followUp"])
<1>0. /\ pc \in [Digesting -> PC] /\ at \in [Digesting -> Heights]
      /\ "followUp" \in Digesting /\ TypeOK
      /\ lastBlock \in Heights \cup {NilHeight}
  BY TypeParts DEF IInv, WorkTypes, StoredTypes, Digesting
<1>1. /\ ~fetched /\ pc["worker"] = "idle"
      /\ lastBlock # NilHeight => Gapless(docs, lastBlock)
      /\ pc["followUp"] # "idle" => Gapless(docs, at["followUp"])
  BY WorkerIdle DEF IInv, FollowUpAlone
<1>2. CASE pc["followUp"] # "idle" /\ at'["followUp"] = at["followUp"]
  <2>1. at["followUp"] \in Int
    BY <1>0, HeightsFacts
  <2> QED BY <1>0, <1>1, <1>2, <2>1, GaplessStays DEF Gapless
<1>3. ASSUME NEW h, FollowUp(h), UNCHANGED docs PROVE Gapless(docs', at'["followUp"])
  <2>1. at'["followUp"] = FollowUpFrom(h)
    BY <1>0, <1>3 DEF FollowUp
  <2>2. CASE lastBlock < 0
    <3>1. at'["followUp"] = 0
      BY <2>1, <2>2 DEF FollowUpFrom
    <3> QED BY <3>1, HeightsFacts DEF Gapless
  <2>3. CASE ~(lastBlock < 0)
    <3>1. at'["followUp"] = lastBlock /\ lastBlock # NilHeight
      BY <2>1, <2>3, HeightsFacts DEF FollowUpFrom
    <3> QED BY <1>1, <1>3, <3>1 DEF Gapless
  <2> QED BY <2>2, <2>3
<1>4. ASSUME NextBlock("followUp"), pc["followUp"] # "idle", UNCHANGED docs,
             at["followUp"] \in Unreadable \/ docs[at["followUp"]] > 0
      PROVE  Gapless(docs', at'["followUp"])
  <2>1. at'["followUp"] = at["followUp"] + 1
    BY <1>0, <1>4 DEF NextBlock, Rest
  <2>2. Gapless(docs, at["followUp"] + 1)
    BY <1>0, <1>1, <1>4, GaplessNext
  <2> QED BY <1>1, <1>4, <2>1, <2>2 DEF Gapless
<1>5. ASSUME NEW d \in Digesting, DigestStep(d) PROVE Gapless(docs', at'["followUp"])
  <2>1. pc[d] # "idle" /\ d = "followUp"
    BY <1>1, <1>5 DEF DigestStep, ItemsNotFound, CheckManifest, ManifestUnread, Commit,
                      DigestFails, SetLastBlock, Digesting
  <2>2. CASE CheckManifest(d) \/ ManifestUnread(d) \/ Commit(d)
    BY <1>2, <2>1, <2>2 DEF CheckManifest, ManifestUnread, Commit
  <2>3. CASE ItemsNotFound(d)
    BY <1>4, <2>1, <2>3 DEF ItemsNotFound, stored
  <2>4. CASE DigestFails(d)
    BY <1>0, <2>1, <2>4 DEF DigestFails, Fail, EndNode, Forget
  <2>5. CASE SetLastBlock(d)
    <3>1. docs[at[d]] > 0
      BY <2>5 DEF IInv, MarksWhatIsStored, SetLastBlock
    <3> QED BY <1>4, <2>1, <2>5, <3>1 DEF SetLastBlock
  <2> QED BY <1>5, <2>2, <2>3, <2>4, <2>5 DEF DigestStep
<1>6. CASE WhenNewBlockConfirmed
  <2>1. CASE UNCHANGED work
    BY <1>2, <2>1 DEF work
  <2>2. CASE FollowUp(Head(confirmed))
    BY <1>3, <1>6, <2>2 DEF WhenNewBlockConfirmed, stored
  <2> QED BY <1>6, <2>1, <2>2 DEF WhenNewBlockConfirmed
<1>7. CASE Start
  <2>1. CASE head > lastBlock
    BY <1>3, <1>7, <2>1 DEF Start, stored
  <2>2. CASE ~(head > lastBlock)
    BY <1>2, <1>7, <2>2 DEF Start, work
  <2> QED BY <2>1, <2>2
<1>8. CASE Crash
  BY <1>0, <1>8 DEF Crash, Forget
<1>9. CASE SaveByConsensus \/ SaveBySyncing \/ WhenBlockSaved \/ UNCHANGED vars
           \/ \E h \in Heights : Digest(h)
  BY <1>2, <1>9 DEF SaveByConsensus, SaveBySyncing, WhenBlockSaved, Digest, work, vars
<1>10. CASE Take
  BY <1>0, <1>2, <1>10 DEF Take
<1> QED BY <1>5, <1>6, <1>7, <1>8, <1>9, <1>10 DEF Next

LEMMA FollowUpAlonePreserves ==
    ASSUME IInv, [Next]_vars
    PROVE  FollowUpAlone'
<1> SUFFICES ASSUME ~fetched' PROVE
       /\ pc'["worker"] = "idle" /\ queue' = <<>> /\ synced' = 0
       /\ \A h \in Heights : senders'[h] = 0
       /\ lastBlock' # NilHeight => Gapless(docs', lastBlock')
       /\ pc'["followUp"] # "idle" => Gapless(docs', at'["followUp"])
  BY DEF FollowUpAlone, Gapless
<1>1. lastBlock' # NilHeight => Gapless(docs', lastBlock')
  <2>0. /\ TypeOK /\ lastBlock \in Heights \cup {NilHeight}
        /\ \A d \in Digesting : at[d] \in Heights
    BY TypeParts DEF IInv, StoredTypes, WorkTypes
  <2>1. CASE lastBlock' = lastBlock
    BY <2>0, <2>1, WorkerIdle, HeightsFacts, GaplessStays DEF IInv, FollowUpAlone, Gapless
  <2>2. ASSUME NEW d \in Digesting, SetLastBlock(d), lastBlock' = at[d]
        PROVE  Gapless(docs', lastBlock')
    <3>1. d = "followUp" /\ pc["followUp"] # "idle"
      BY <2>2, WorkerIdle DEF IInv, FollowUpAlone, SetLastBlock, Digesting
    <3>2. Gapless(docs, at[d]) /\ at[d] \in Int
      BY <2>0, <3>1, WorkerIdle, HeightsFacts DEF IInv, FollowUpAlone
    <3> QED BY <2>0, <2>2, <3>2, GaplessStays DEF Gapless
  <2> QED BY <2>1, <2>2, LastBlockStep
<1> QED BY <1>1, WorkerIdle, FollowUpGapless

LEMMA InvNext == IInv /\ [Next]_vars => IInv'
<1> SUFFICES ASSUME IInv, [Next]_vars PROVE IInv'
  OBVIOUS
<1>1. TypeOK'
  BY TypesNext DEF IInv
<1>2. MarksWhatIsStored' /\ WritingExcused'
  BY <1>1, QuietSteps, QuietPreserves, CheckManifestPreserves,
     ManifestUnreadPreserves, CommitPreserves DEF IInv
<1> QED BY <1>1, <1>2, LastBlockPreserves, FollowUpAlonePreserves DEF IInv

LEMMA Invariance == Spec => []IInv
BY InvInit, InvNext, PTL DEF Spec

---------------------------------------------------------------------------
(* Every variable stays in its type, whatever crashes and fails.           *)
THEOREM TypeCorrect == Spec => []TypeOK
<1>1. IInv => TypeOK
  BY DEF IInv
<1> QED BY <1>1, Invariance, PTL

(* SetLastBlock never tells the API of a block whose documents are not     *)
(* stored, although the two are not written in one transaction.            *)
THEOREM LastBlockCanBeShown == Spec => []LastBlockDigested
<1>1. IInv => LastBlockDigested
  BY DEF IInv
<1> QED BY <1>1, Invariance, PTL

(* No retry, no restart and no follow-up writes a block again: only an     *)
(* overlap of worker and follow-up does, once, and each failing read of    *)
(* its stored manifest.                                                    *)
THEOREM WrittenOnce == Spec => []DigestedOnce
<1>1. IInv => DigestedOnce
  <2> SUFFICES ASSUME IInv, NEW h \in Heights
               PROVE  docs[h] <= 1 + (IF h \in overlapped THEN 1 ELSE 0) + misread[h]
    BY DEF DigestedOnce
  <2>1. docs[h] \in Nat /\ misread[h] \in Nat
    BY TypeParts DEF IInv, StoredTypes, HistoryTypes
  <2>2. Writers(h) \in Nat
    BY DEF Writers
  <2> QED BY <2>1, <2>2 DEF IInv, WritingExcused
<1> QED BY <1>1, Invariance, PTL

(* As long as no block came by syncing, a block is written only after all  *)
(* readable blocks below it.                                               *)
THEOREM WrittenInOrder == Spec => DigestsInOrder
<1> DEFINE InOrder ==
      ~fetched => \A h \in Heights : docs'[h] > docs[h] =>
          \A k \in (0..h-1) \ Unreadable : docs[k] > 0
<1>1. IInv /\ [Next]_vars => [InOrder]_<<docs, fetched>>
  <2> SUFFICES ASSUME IInv, [Next]_vars, ~fetched, NEW h \in Heights,
                      docs'[h] > docs[h], NEW k \in (0..h-1) \ Unreadable
               PROVE  docs[k] > 0
    OBVIOUS
  <2>0. docs \in [Heights -> Nat]
    BY TypeParts DEF IInv, StoredTypes
  <2>1. PICK d \in Digesting : Commit(d)
    <3>1. CASE Quiet
      BY <2>0, <3>1 DEF Quiet
    <3>2. ASSUME NEW d \in Digesting, CheckManifest(d) PROVE FALSE
      BY <2>0, <3>2 DEF CheckManifest, stored
    <3>3. ASSUME NEW d \in Digesting, ManifestUnread(d) PROVE FALSE
      BY <2>0, <3>3 DEF ManifestUnread, stored
    <3> QED BY <3>1, <3>2, <3>3, QuietSteps DEF IInv
  <2>2. d = "followUp" /\ pc["followUp"] # "idle"
    BY <2>1 DEF IInv, FollowUpAlone, Commit, Digesting
  <2>3. h = at["followUp"]
    BY <2>0, <2>1, <2>2 DEF Commit
  <2>4. k \in Heights /\ k < h
    BY HeightsFacts, DigesterAssumption
  <2> QED BY <2>2, <2>3, <2>4 DEF IInv, FollowUpAlone, Gapless
<1> QED BY <1>1, Invariance, PTL DEF Spec, DigestsInOrder
=============================================================================
