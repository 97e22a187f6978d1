------------------------ MODULE ContractQuery_proofs ------------------------
(***************************************************************************)
(* What a query tells its client, for any number of clients and blocks:    *)
(* errors are honest, the state shown was current during the request, and  *)
(* a client that asks again goes forward, but for a last digested block    *)
(* that was moved back meanwhile.                                          *)
(***************************************************************************)
EXTENDS ContractQuery, TLAPS

LEMMA HeightsFacts ==
    /\ \A h \in Heights : h \in Nat /\ h <= MaxHeight
    /\ \A h \in Nat : h <= MaxHeight => h \in Heights
    /\ 0 \in Heights
BY QueryAssumption DEF Heights

(* The states of a contract are first written by one block, and only its   *)
(* snapshot is written again.                                              *)
NodeInv ==
    /\ lastBlock <= head
    /\ \A s \in States : written[s] = 0 <=> written["design"] = 0
    /\ written["design"] <= written["snapshot"]
    /\ written["snapshot"] <= head

(* Unless the last digested block moved back since it was read, it is not  *)
(* below the current height, or that is the height of the state.           *)
StillDigested(r) ==
    /\ r.receded <= receded
    /\ r.receded = receded => r.current <= lastBlock \/ r.current <= r.height

(* The reads of a request follow each other, and each height is at most    *)
(* what the node has now.                                                  *)
RequestInv(c) ==
    /\ pc[c] # "idle" => /\ req[c].arrived <= written["snapshot"]
                         /\ Answered(c) => answer[c].view <= req[c].arrived
    /\ pc[c] \notin {"idle", "design"} =>
          /\ written["design"] # 0
          /\ req[c].height <= written["snapshot"]
    /\ pc[c] \notin {"idle", "design", "lastBlock"} =>
          /\ req[c].current <= head
          /\ StillDigested(req[c])
          /\ Answered(c) => answer[c].receded <= req[c].receded
          /\ Answered(c) /\ answer[c].receded = req[c].receded =>
                \/ answer[c].current <= req[c].current
                \/ answer[c].current <= req[c].arrived
    /\ pc[c] \in {"engineRuntime", "engineSnapshot", "run"} =>
          req[c].arrived <= req[c].height /\ req[c].height <= req[c].current
    /\ pc[c] = "run" =>
          req[c].height <= req[c].view /\ req[c].view <= written["snapshot"]

(* What was answered stays true of the request it answered. *)
AnswerInv(c) ==
    /\ answer[c].status = "notFound" => answer[c].arrived = 0
    /\ answer[c].status # "broken"
    /\ Answered(c) =>
          /\ answer[c].arrived <= answer[c].height
          /\ answer[c].height <= answer[c].view
          /\ answer[c].view <= answer[c].ended
          /\ answer[c].view <= answer[c].host
          /\ answer[c].view <= written["snapshot"]
          /\ answer[c].height <= answer[c].current
          /\ answer[c].current <= answer[c].host
          /\ StillDigested(answer[c])

IInv == TypeOK /\ NodeInv /\ \A c \in Client : RequestInv(c) /\ AnswerInv(c)

LEMMA InvInit == Init => IInv
<1> SUFFICES ASSUME Init PROVE IInv
  OBVIOUS
<1>1. TypeOK
  BY HeightsFacts DEF Init, TypeOK, NoRequest, Request, PC
<1>2. NodeInv
  BY DEF Init, NodeInv, States
<1>3. \A c \in Client : RequestInv(c) /\ AnswerInv(c)
  BY DEF Init, RequestInv, AnswerInv, StillDigested, Answered, NoRequest
<1> QED BY <1>1, <1>2, <1>3 DEF IInv

---------------------------------------------------------------------------
(* The node goes on.                                                       *)

(* Heights of the node only grow, or lastBlock moves back and is counted. *)
Forward ==
    /\ head <= head' /\ receded <= receded'
    /\ receded' = receded => lastBlock <= lastBlock'
    /\ written["snapshot"] <= written'["snapshot"]
    /\ written["design"] # 0 => written'["design"] # 0
    /\ UNCHANGED <<pc, req, answer>>

LEMMA ForwardPreserves ==
    ASSUME IInv, TypeOK', Forward, NEW c \in Client
    PROVE  RequestInv(c)' /\ AnswerInv(c)'
<1>1. /\ req[c] \in Request /\ answer[c] \in Request
      /\ head \in Nat /\ head' \in Nat /\ lastBlock \in Nat /\ lastBlock' \in Nat
      /\ written["snapshot"] \in Nat /\ written'["snapshot"] \in Nat
      /\ receded \in Nat /\ receded' \in Nat
  BY HeightsFacts DEF IInv, TypeOK, States
<1>2. /\ req[c].arrived \in Nat /\ req[c].height \in Nat /\ req[c].current \in Nat
      /\ req[c].view \in Nat /\ answer[c].view \in Nat /\ answer[c].current \in Nat
      /\ answer[c].height \in Nat /\ req[c].receded \in Nat /\ answer[c].receded \in Nat
  BY <1>1, HeightsFacts DEF Request
<1>a. /\ StillDigested(req[c]) => StillDigested(req[c])'
      /\ StillDigested(answer[c]) => StillDigested(answer[c])'
  BY <1>1, <1>2 DEF StillDigested, Forward
<1>3. RequestInv(c)'
  BY <1>1, <1>2, <1>a DEF IInv, RequestInv, Forward, Answered
<1>4. AnswerInv(c)'
  BY <1>1, <1>2, <1>a DEF IInv, AnswerInv, Forward, Answered
<1> QED BY <1>3, <1>4

LEMMA SaveBlockPreserves ==
    ASSUME IInv, NEW states \in SUBSET States, SaveBlock(states)
    PROVE  IInv'
<1>1. /\ head \in Nat /\ head' = head + 1 /\ head' \in Heights
      /\ \A s \in States : written[s] \in Nat /\ written[s] <= MaxHeight
      /\ lastBlock \in Nat /\ lastBlock' = lastBlock
      /\ receded \in Nat /\ receded' = receded
  BY HeightsFacts, QueryAssumption DEF IInv, TypeOK, SaveBlock
<1>2. \A s \in States : written'[s] = IF s \in states THEN head + 1 ELSE written[s]
  BY DEF SaveBlock
<1>3. TypeOK'
  BY <1>1 DEF IInv, TypeOK, SaveBlock
<1>4. \/ states = {}
      \/ states = States /\ written["design"] = 0
      \/ states = {"snapshot"} /\ written["design"] # 0
  BY DEF SaveBlock
<1>5. "design" \in States /\ "snapshot" \in States
  BY DEF States
<1>6. NodeInv' /\ Forward
  <2>1. CASE states = {}
    BY <1>1, <1>2, <1>5, <2>1 DEF IInv, NodeInv, Forward, SaveBlock
  <2>2. CASE states = States /\ written["design"] = 0
    BY <1>1, <1>2, <1>5, <2>2 DEF IInv, NodeInv, Forward, SaveBlock
  <2>3. CASE states = {"snapshot"} /\ written["design"] # 0
    <3>1. /\ written'["snapshot"] = head + 1
          /\ \A s \in States \ {"snapshot"} : written'[s] = written[s]
      BY <1>2, <1>5, <2>3
    <3>2. Forward
      BY <1>1, <1>5, <2>3, <3>1 DEF IInv, NodeInv, Forward, SaveBlock
    <3>3. NodeInv'
      BY <1>1, <1>5, <2>3, <3>1 DEF IInv, NodeInv
    <3> QED BY <3>2, <3>3
  <2> QED BY <1>4, <2>1, <2>2, <2>3
<1> QED BY <1>3, <1>6, ForwardPreserves DEF IInv

LEMMA DigestBlocksPreserves ==
    ASSUME IInv, NEW h \in Heights, DigestBlocks(h)
    PROVE  IInv'
<1>1. /\ head \in Nat /\ lastBlock \in Nat /\ h \in Nat
      /\ written["snapshot"] \in Nat /\ receded \in Nat
  BY HeightsFacts DEF IInv, TypeOK, States
<1>2. TypeOK' /\ NodeInv' /\ Forward
  BY <1>1 DEF IInv, TypeOK, NodeInv, Forward, DigestBlocks
<1> QED BY <1>2, ForwardPreserves DEF IInv

---------------------------------------------------------------------------
(* One request takes a step. *)

(* What IInv says of the values a step computes with. *)
LEMMA ClientFacts ==
    ASSUME IInv, NEW c \in Client
    PROVE  /\ req[c] \in Request /\ answer[c] \in Request /\ pc[c] \in PC
           /\ head \in Nat /\ lastBlock \in Nat /\ lastBlock <= head
           /\ \A s \in States : written[s] \in Heights /\ written[s] \in Nat
           /\ written["snapshot"] \in Heights /\ written["snapshot"] \in Nat
           /\ written["snapshot"] <= head /\ head \in Heights
           /\ written["design"] \in Heights /\ written["design"] \in Nat
           /\ written["design"] <= written["snapshot"]
           /\ lastBlock \in Heights /\ receded \in Nat
           /\ RequestInv(c) /\ AnswerInv(c)
BY HeightsFacts DEF IInv, TypeOK, NodeInv, States

(* The heights of a request are numbers. *)
LEMMA RequestFacts ==
    ASSUME NEW r \in Request
    PROVE  /\ r.arrived \in Nat /\ r.ended \in Nat /\ r.height \in Nat
           /\ r.current \in Nat /\ r.view \in Nat /\ r.host \in Nat
           /\ r.height \in Heights /\ r.current \in Heights /\ r.receded \in Nat
BY HeightsFacts DEF Request

LEMMA StepPreserves ==
    ASSUME IInv, NEW c \in Client, NEW from, NEW to \in PC, NEW r \in Request,
           Step(c, from, to, r),
           pc'[c] = to /\ req'[c] = r => RequestInv(c)'
    PROVE  IInv'
<1>1. pc'[c] = to /\ req'[c] = r /\ pc' \in [Client -> PC] /\ req' \in [Client -> Request]
  BY DEF Step, GoTo, IInv, TypeOK
<1>2. TypeOK' /\ NodeInv'
  BY <1>1 DEF IInv, TypeOK, NodeInv, Step, nodeVars
<1>3. ASSUME NEW d \in Client PROVE AnswerInv(d)'
  BY DEF IInv, AnswerInv, StillDigested, Answered, Step, nodeVars
<1>4. ASSUME NEW d \in Client, d # c PROVE RequestInv(d)'
  <2>1. pc'[d] = pc[d] /\ req'[d] = req[d]
    BY <1>4 DEF Step, GoTo, IInv, TypeOK
  <2> QED BY <2>1 DEF IInv, RequestInv, StillDigested, Answered, Step, nodeVars
<1> QED BY <1>1, <1>2, <1>3, <1>4 DEF IInv

LEMMA FinishPreserves ==
    ASSUME IInv, NEW c \in Client, NEW from, NEW r \in Request,
           NEW status \in {"ok", "refused", "notFound", "broken"},
           Finish(c, from, r, status),
           answer'[c] = [r EXCEPT !.ended = written["snapshot"], !.status = status]
              => AnswerInv(c)'
    PROVE  IInv'
<1> DEFINE a == [r EXCEPT !.ended = written["snapshot"], !.status = status]
<1>1. a \in Request /\ NoRequest \in Request /\ "idle" \in PC
  BY ClientFacts, HeightsFacts DEF Request, NoRequest, PC
<1>2. /\ answer' = [answer EXCEPT ![c] = a] /\ req' = [req EXCEPT ![c] = NoRequest]
      /\ pc' = [pc EXCEPT ![c] = "idle"]
      /\ UNCHANGED nodeVars
  BY DEF Finish, GoTo
<1> HIDE DEF a
<1>3. answer'[c] = a /\ pc'[c] = "idle" /\ TypeOK'
  BY <1>1, <1>2 DEF IInv, TypeOK, nodeVars
<1>4. NodeInv' /\ RequestInv(c)'
  BY <1>2, <1>3 DEF IInv, NodeInv, RequestInv, nodeVars
<1>5. AnswerInv(c)'
  BY <1>3 DEF a
<1>6. ASSUME NEW d \in Client, d # c PROVE RequestInv(d)' /\ AnswerInv(d)'
  <2>1. pc'[d] = pc[d] /\ req'[d] = req[d] /\ answer'[d] = answer[d]
    BY <1>2, <1>6 DEF IInv, TypeOK
  <2> QED BY <1>2, <2>1
         DEF IInv, RequestInv, AnswerInv, StillDigested, Answered, nodeVars
<1> QED BY <1>3, <1>4, <1>5, <1>6 DEF IInv

LEMMA ArrivePreserves == ASSUME IInv, NEW c \in Client, Arrive(c) PROVE IInv'
<1> DEFINE r == [NoRequest EXCEPT !.arrived = written["snapshot"]]
<1>1. r \in Request /\ r.arrived = written["snapshot"] /\ "design" \in PC
  BY ClientFacts, HeightsFacts DEF Request, NoRequest, PC
<1>2. Step(c, "idle", "design", r)
  BY DEF Arrive
<1> HIDE DEF r
<1>3. ASSUME pc'[c] = "design", req'[c] = r PROVE RequestInv(c)'
  BY <1>1, <1>2, <1>3, ClientFacts DEF RequestInv, AnswerInv, StillDigested, Answered, Step, nodeVars
<1> QED BY <1>1, <1>2, <1>3, StepPreserves

LEMMA ReadDesignPreserves == ASSUME IInv, NEW c \in Client, ReadDesign(c) PROVE IInv'
<1>1. CASE written["design"] = 0
  <2>1. Finish(c, "design", req[c], "notFound") /\ pc[c] = "design"
    BY <1>1 DEF ReadDesign, Finish, GoTo
  <2>2. req[c].arrived = 0
    BY <1>1, <2>1, ClientFacts, RequestFacts DEF IInv, NodeInv, States, RequestInv
  <2>3. ASSUME answer'[c] = [req[c] EXCEPT !.ended = written["snapshot"],
                                           !.status = "notFound"]
        PROVE  AnswerInv(c)'
    BY <2>2, <2>3, ClientFacts DEF AnswerInv, Answered, Request
  <2> QED BY <2>1, <2>3, ClientFacts, FinishPreserves
<1>2. CASE written["design"] # 0
  <2> DEFINE r == [req[c] EXCEPT !.height = written["design"]]
  <2>1. Step(c, "design", "lastBlock", r) /\ pc[c] = "design"
    BY <1>2 DEF ReadDesign, Step, GoTo
  <2>2. /\ r \in Request /\ r.arrived = req[c].arrived
        /\ r.height = written["design"] /\ "lastBlock" \in PC
    BY ClientFacts DEF Request, PC
  <2> HIDE DEF r
  <2>3. ASSUME pc'[c] = "lastBlock", req'[c] = r PROVE RequestInv(c)'
    BY <1>2, <2>1, <2>2, <2>3, ClientFacts DEF RequestInv, StillDigested, Answered, Step, nodeVars
  <2> QED BY <2>1, <2>2, <2>3, StepPreserves
<1> QED BY <1>1, <1>2

LEMMA ReadLastBlockPreserves ==
    ASSUME IInv, NEW c \in Client, ReadLastBlock(c) PROVE IInv'
<1> DEFINE r == [req[c] EXCEPT !.current = lastBlock, !.receded = receded]
<1>1. Step(c, "lastBlock", "runtime", r) /\ pc[c] = "lastBlock"
  BY DEF ReadLastBlock, Step, GoTo
<1>2. /\ r \in Request /\ r.arrived = req[c].arrived /\ r.height = req[c].height
      /\ r.current = lastBlock /\ r.receded = receded /\ "runtime" \in PC
  BY ClientFacts DEF Request, PC
<1> HIDE DEF r
<1>3. /\ req[c].arrived <= written["snapshot"] /\ req[c].height <= written["snapshot"]
      /\ written["design"] # 0 /\ (Answered(c) => answer[c].view <= req[c].arrived)
  BY <1>1, ClientFacts DEF RequestInv
<1>4. Answered(c) =>
        /\ answer[c].receded <= receded
        /\ answer[c].receded = receded => \/ answer[c].current <= lastBlock
                                          \/ answer[c].current <= req[c].arrived
  <2>1. answer[c] \in Request /\ req[c] \in Request /\ AnswerInv(c)
    BY ClientFacts
  <2>2. /\ answer[c].current \in Nat /\ answer[c].height \in Nat
        /\ answer[c].view \in Nat /\ req[c].arrived \in Nat
    BY <2>1, RequestFacts
  <2> QED BY <1>3, <2>1, <2>2 DEF AnswerInv, StillDigested
<1>5. receded \in Nat /\ lastBlock \in Nat /\ lastBlock <= head
  BY ClientFacts
<1>6. ASSUME pc'[c] = "runtime", req'[c] = r PROVE RequestInv(c)'
  BY <1>1, <1>2, <1>3, <1>4, <1>5, <1>6 DEF RequestInv, StillDigested, Answered, Step, nodeVars
<1> QED BY <1>1, <1>2, <1>6, StepPreserves

(* The runtime exists whenever the design does. *)
LEMMA ReadRuntimePreserves ==
    ASSUME IInv, NEW c \in Client, ReadRuntime(c) PROVE IInv'
<1>1. pc[c] = "runtime"
  BY DEF ReadRuntime, Step, GoTo
<1>2. written["runtime"] # 0
  BY <1>1, ClientFacts DEF RequestInv, IInv, NodeInv, States
<1>3. Step(c, "runtime", "snapshot", req[c]) /\ "snapshot" \in PC
  BY <1>2 DEF ReadRuntime, PC
<1>4. ASSUME pc'[c] = "snapshot", req'[c] = req[c] PROVE RequestInv(c)'
  BY <1>1, <1>3, <1>4, ClientFacts DEF RequestInv, StillDigested, Answered, Step, nodeVars
<1> QED BY <1>3, <1>4, ClientFacts, StepPreserves

LEMMA ReadSnapshotPreserves ==
    ASSUME IInv, NEW c \in Client, ReadSnapshot(c) PROVE IInv'
<1>1. pc[c] = "snapshot"
  BY DEF ReadSnapshot, Step, Finish, GoTo
<1>2. written["snapshot"] # 0
  BY <1>1, ClientFacts DEF RequestInv, IInv, NodeInv, States
<1> DEFINE q == [req[c] EXCEPT !.height = written["snapshot"]]
           r == Clamped(q)
<1>3. Step(c, "snapshot", "engineRuntime", r) /\ "engineRuntime" \in PC
  BY <1>2 DEF ReadSnapshot, PC
<1>4. /\ q \in Request /\ q.arrived = req[c].arrived
      /\ q.height = written["snapshot"] /\ q.current = req[c].current
      /\ q.receded = req[c].receded
  BY ClientFacts DEF Request
<1> HIDE DEF q
<1>5. /\ r \in Request /\ r.arrived = q.arrived /\ r.height = q.height
      /\ r.receded = q.receded
      /\ r.current = IF q.current < q.height THEN q.height ELSE q.current
  BY <1>4, RequestFacts DEF Clamped, Request
<1> HIDE DEF r
<1>6. /\ req[c].arrived \in Nat /\ req[c].current \in Nat /\ answer[c].current \in Nat
      /\ written["snapshot"] \in Nat /\ written["snapshot"] <= head
      /\ head \in Nat /\ lastBlock \in Nat /\ receded \in Nat /\ req[c].receded \in Nat
      /\ answer[c].receded \in Nat
  BY ClientFacts, RequestFacts
<1>7. /\ req[c].arrived <= written["snapshot"] /\ written["design"] # 0
      /\ Answered(c) => answer[c].view <= req[c].arrived
      /\ req[c].current <= head
      /\ StillDigested(req[c])
      /\ req[c].height <= written["snapshot"]
      /\ Answered(c) => answer[c].receded <= req[c].receded
      /\ Answered(c) /\ answer[c].receded = req[c].receded =>
            answer[c].current <= req[c].current \/ answer[c].current <= req[c].arrived
  BY <1>1, ClientFacts DEF RequestInv
<1>8. /\ r.height <= r.current /\ r.current <= head /\ req[c].current <= r.current
      /\ r.height = written["snapshot"] /\ r.arrived = req[c].arrived
      /\ r.receded = req[c].receded /\ StillDigested(r)
  BY <1>4, <1>5, <1>6, <1>7, ClientFacts, RequestFacts DEF StillDigested
<1>9. ASSUME pc'[c] = "engineRuntime", req'[c] = r PROVE RequestInv(c)'
  <2>1. Answered(c) /\ answer[c].receded = r.receded =>
           answer[c].current <= r.current \/ answer[c].current <= r.arrived
    BY <1>5, <1>6, <1>7, <1>8, RequestFacts
  <2>2. UNCHANGED <<answer, head, lastBlock, receded, written>>
    BY <1>3 DEF Step, nodeVars
  <2> QED BY <1>6, <1>7, <1>8, <1>9, <2>1, <2>2 DEF RequestInv, StillDigested, Answered
<1> QED BY <1>3, <1>5, <1>9, StepPreserves

(* A request that is refused tells nothing. *)
LEMMA RefusePreserves ==
    ASSUME IInv, NEW c \in Client, NEW from, NEW r \in Request,
           Finish(c, from, r, "refused")
    PROVE  IInv'
<1>1. ASSUME answer'[c] = [r EXCEPT !.ended = written["snapshot"], !.status = "refused"]
      PROVE  AnswerInv(c)'
  BY <1>1 DEF AnswerInv, Answered, Request
<1> QED BY <1>1, FinishPreserves

LEMMA EngineReadRuntimePreserves ==
    ASSUME IInv, NEW c \in Client, EngineReadRuntime(c) PROVE IInv'
<1>1. pc[c] = "engineRuntime"
  BY DEF EngineReadRuntime, Step, Finish, GoTo
<1>2. written["runtime"] # 0
  BY <1>1, ClientFacts DEF RequestInv, IInv, NodeInv, States
<1>3. Step(c, "engineRuntime", "engineSnapshot", req[c]) /\ "engineSnapshot" \in PC
  BY <1>2 DEF EngineReadRuntime, PC
<1>4. ASSUME pc'[c] = "engineSnapshot", req'[c] = req[c] PROVE RequestInv(c)'
  BY <1>1, <1>3, <1>4, ClientFacts DEF RequestInv, StillDigested, Answered, Step, nodeVars
<1> QED BY <1>3, <1>4, ClientFacts, StepPreserves

LEMMA EngineReadSnapshotPreserves ==
    ASSUME IInv, NEW c \in Client, EngineReadSnapshot(c) PROVE IInv'
<1>1. pc[c] = "engineSnapshot"
  BY DEF EngineReadSnapshot, Step, Finish, GoTo
<1>2. /\ written["snapshot"] # 0 /\ req[c].height <= req[c].current
  BY <1>1, ClientFacts DEF RequestInv, IInv, NodeInv, States
<1> DEFINE r == [req[c] EXCEPT !.view = written["snapshot"]]
<1>3. Step(c, "engineSnapshot", "run", r) /\ "run" \in PC
  BY <1>2, ClientFacts, RequestFacts DEF EngineReadSnapshot, PC
<1>4. /\ r \in Request /\ r.arrived = req[c].arrived /\ r.height = req[c].height
      /\ r.current = req[c].current /\ r.view = written["snapshot"]
      /\ r.receded = req[c].receded
  BY ClientFacts DEF Request
<1> HIDE DEF r
<1>5. StillDigested(req[c]) => StillDigested(r)
  BY <1>4 DEF StillDigested
<1>6. StillDigested(r)
  BY <1>1, <1>5, ClientFacts DEF RequestInv
<1>7. UNCHANGED <<answer, head, lastBlock, receded, written>>
  BY <1>3 DEF Step, nodeVars
<1>8. ASSUME pc'[c] = "run", req'[c] = r PROVE RequestInv(c)'
  <2>1. StillDigested(req[c])'
    BY <1>6, <1>7, <1>8 DEF StillDigested
  <2> QED BY <1>1, <1>4, <1>7, <1>8, <2>1, ClientFacts DEF RequestInv, Answered
<1> QED BY <1>3, <1>4, <1>8, StepPreserves

(* What is told when the body has run. *)
LEMMA RunAnswers ==
    ASSUME IInv, NEW c \in Client, NEW a, pc[c] = "run",
           a = [[req[c] EXCEPT !.host = head] EXCEPT !.ended = written["snapshot"],
                                                     !.status = "ok"]
    PROVE  /\ a.arrived <= a.height /\ a.height <= a.view /\ a.view <= a.ended
           /\ a.view <= a.host /\ a.view <= written["snapshot"]
           /\ a.height <= a.current /\ a.current <= a.host
           /\ StillDigested(a)
           /\ a.status = "ok"
           /\ Answered(c) => /\ answer[c].view <= a.height
                             /\ \/ answer[c].current <= a.current
                                \/ answer[c].receded < a.receded
<1>1. /\ a.arrived = req[c].arrived /\ a.height = req[c].height /\ a.view = req[c].view
      /\ a.current = req[c].current /\ a.host = head /\ a.ended = written["snapshot"]
      /\ a.status = "ok" /\ a.receded = req[c].receded
  BY ClientFacts DEF Request
<1>2. /\ req[c].arrived \in Nat /\ req[c].height \in Nat /\ req[c].view \in Nat
      /\ req[c].current \in Nat /\ head \in Nat /\ written["snapshot"] \in Nat
      /\ answer[c].view \in Nat /\ answer[c].current \in Nat
      /\ written["snapshot"] <= head /\ req[c].receded \in Nat
      /\ answer[c].receded \in Nat
  BY ClientFacts, RequestFacts
<1>3. RequestInv(c)
  BY ClientFacts
<1> QED BY <1>1, <1>2, <1>3 DEF RequestInv, StillDigested

LEMMA RunPreserves == ASSUME IInv, NEW c \in Client, Run(c) PROVE IInv'
<1> DEFINE r == [req[c] EXCEPT !.host = head]
<1>1. PICK status \in {"ok", "refused"} : Finish(c, "run", r, status)
  BY DEF Run
<1>2. r \in Request
  BY ClientFacts DEF Request
<1>3. CASE status = "refused"
  BY <1>1, <1>2, <1>3, RefusePreserves
<1>4. CASE status = "ok"
  <2>1. pc[c] = "run" /\ UNCHANGED nodeVars
    BY <1>1 DEF Finish, GoTo
  <2>2. ASSUME answer'[c] = [r EXCEPT !.ended = written["snapshot"], !.status = "ok"]
        PROVE  AnswerInv(c)'
    <3> DEFINE a == [r EXCEPT !.ended = written["snapshot"], !.status = "ok"]
    <3>1. /\ a.arrived <= a.height /\ a.height <= a.view /\ a.view <= a.ended
          /\ a.view <= a.host /\ a.view <= written["snapshot"]
          /\ a.height <= a.current /\ a.current <= a.host
          /\ StillDigested(a)
          /\ a.status = "ok"
      BY <2>1, RunAnswers
    <3> HIDE DEF a
    <3>2. answer'[c] = a
      BY <2>2 DEF a
    <3> QED BY <2>1, <3>1, <3>2 DEF AnswerInv, StillDigested, Answered, nodeVars
  <2> QED BY <1>1, <1>2, <1>4, <2>2, FinishPreserves
<1> QED BY <1>1, <1>3, <1>4

LEMMA InvNext == IInv /\ [Next]_vars => IInv'
<1> SUFFICES ASSUME IInv, [Next]_vars PROVE IInv'
  OBVIOUS
<1>1. ASSUME NEW states \in SUBSET States, SaveBlock(states) PROVE IInv'
  BY <1>1, SaveBlockPreserves
<1>2. ASSUME NEW h \in Heights, DigestBlocks(h) PROVE IInv'
  BY <1>2, DigestBlocksPreserves
<1>3. ASSUME NEW c \in Client, Arrive(c) PROVE IInv'
  BY <1>3, ArrivePreserves
<1>4. ASSUME NEW c \in Client, Serve(c) PROVE IInv'
  <2>1. CASE RefuseFunction(c)
    BY <2>1, ClientFacts, RefusePreserves DEF RefuseFunction
  <2> QED BY <1>4, <2>1, ReadDesignPreserves, ReadLastBlockPreserves,
             ReadRuntimePreserves, ReadSnapshotPreserves,
             EngineReadRuntimePreserves, EngineReadSnapshotPreserves,
             RunPreserves DEF Serve
<1>5. CASE UNCHANGED vars
  BY <1>5 DEF IInv, TypeOK, NodeInv, RequestInv, AnswerInv, StillDigested, Answered,
              vars, nodeVars
<1> QED BY <1>1, <1>2, <1>3, <1>4, <1>5 DEF Next

LEMMA Invariance == Spec => []IInv
BY InvInit, InvNext, PTL DEF Spec

---------------------------------------------------------------------------
(* Every variable stays in its type. *)
THEOREM TypeCorrect == Spec => []TypeOK
<1>1. IInv => TypeOK
  BY DEF IInv
<1> QED BY <1>1, Invariance, PTL

(* A contract that existed when the request arrived is never reported as   *)
(* not found, and no request meets a contract in pieces.                   *)
THEOREM HonestErrors == Spec => []ErrorsAreHonest
<1>1. IInv => ErrorsAreHonest
  BY DEF IInv, AnswerInv, ErrorsAreHonest
<1> QED BY <1>1, Invariance, PTL

(* A query runs on a snapshot that was current during its request. *)
THEOREM ShownDuringRequest == Spec => []ViewDuringRequest
<1>1. ASSUME IInv PROVE ViewDuringRequest
  <2>1. ASSUME NEW c \in Client, Answered(c)
        PROVE  answer[c].arrived <= answer[c].view
    <3>1. /\ answer[c].arrived \in Nat /\ answer[c].height \in Nat
          /\ answer[c].view \in Nat
      BY <1>1, ClientFacts, RequestFacts
    <3>2. answer[c].arrived <= answer[c].height /\ answer[c].height <= answer[c].view
      BY <1>1, <2>1, ClientFacts DEF AnswerInv
    <3> QED BY <3>1, <3>2
  <2> QED BY <1>1, <2>1, ClientFacts DEF AnswerInv, ViewDuringRequest
<1> QED BY <1>1, Invariance, PTL

(* The current height of a query is one the chain had reached, and not     *)
(* below the height of the state the query reads.                          *)
THEOREM CurrentHeights == Spec => []CurrentHeightSound
<1>1. IInv => CurrentHeightSound
  BY DEF IInv, AnswerInv, CurrentHeightSound
<1> QED BY <1>1, Invariance, PTL

(* A client that asks again is never told of an earlier state, and of a    *)
(* lower current height only if the last digested block was moved back     *)
(* since it asked before.                                                  *)
THEOREM GoesForward == Spec => AnswersMoveForward
<1> DEFINE Forth(c) == /\ Answered(c)
                       /\ answer'[c].status = "ok"
                       /\ answer'[c] # answer[c]
                       => /\ answer[c].view <= answer'[c].height
                          /\ \/ answer[c].current <= answer'[c].current
                             \/ answer[c].receded < answer'[c].receded
<1>1. ASSUME IInv, [Next]_vars, NEW c \in Client PROVE Forth(c)
  <2>1. SUFFICES ASSUME Answered(c), answer'[c].status = "ok", answer'[c] # answer[c]
                 PROVE  /\ answer[c].view <= answer'[c].height
                        /\ \/ answer[c].current <= answer'[c].current
                           \/ answer[c].receded < answer'[c].receded
    OBVIOUS
  <2>2. answer \in [Client -> Request]
    BY <1>1 DEF IInv, TypeOK
  <2>3. PICK d \in Client : Serve(d)
    BY <1>1, <2>1 DEF Next, vars, SaveBlock, DigestBlocks, Arrive, Step, nodeVars
  <2>4. ASSUME NEW from, NEW r \in Request, NEW status, Finish(d, from, r, status)
        PROVE  d = c /\ status = "ok"
    <3>1. answer' = [answer EXCEPT ![d] =
                       [r EXCEPT !.ended = written["snapshot"], !.status = status]]
      BY <2>4 DEF Finish
    <3>2. d = c
      BY <2>1, <2>2, <3>1
    <3>3. answer'[c] = [r EXCEPT !.ended = written["snapshot"], !.status = status]
      BY <2>2, <3>1, <3>2
    <3> QED BY <2>1, <3>2, <3>3 DEF Request
  <2>5. Run(d)
    <3>1. req[d] \in Request
      BY <1>1, ClientFacts
    <3>2. \A from, status : Finish(d, from, req[d], status) => status = "ok"
      BY <2>4, <3>1
    <3> QED BY <2>1, <2>3, <3>2 DEF Serve, ReadDesign, ReadLastBlock, ReadRuntime,
               ReadSnapshot, RefuseFunction, EngineReadRuntime, EngineReadSnapshot, Step
  <2>6. PICK status : Finish(d, "run", [req[d] EXCEPT !.host = head], status)
    BY <2>5 DEF Run
  <2>7. [req[d] EXCEPT !.host = head] \in Request
    BY <1>1, ClientFacts DEF Request
  <2>8. d = c /\ status = "ok"
    BY <2>4, <2>6, <2>7
  <2>9. /\ pc[c] = "run"
        /\ answer'[c] = [[req[c] EXCEPT !.host = head]
                            EXCEPT !.ended = written["snapshot"], !.status = "ok"]
    BY <2>2, <2>6, <2>8 DEF Finish, GoTo
  <2> QED BY <1>1, <2>1, <2>9, RunAnswers
<1>2. IInv /\ [Next]_vars => [\A c \in Client : Forth(c)]_answer
  BY <1>1
<1> QED BY <1>2, Invariance, PTL DEF Spec, AnswersMoveForward
=============================================================================
