---------------------------- MODULE FundingScanProofs ----------------------------
(***************************************************************************)
(* The safety of a funding scan for any networks and outpoints, any number *)
(* of scans, edits of the network and the RPC fields, restarts and other   *)
(* clients.  That a scan ends is liveness and left to TLC.                 *)
(***************************************************************************)
EXTENDS FundingScan, TLAPS

\* The thread and the timer closure are of the same scan.
AskedForAFile == asked = None <=> path = None

ScanInv ==
  /\ TypeOK
  /\ FlagCoversScan
  /\ AskedForAFile

-------------------------------------------------------------------------------

LEMMA InitScan == Init => ScanInv
BY NetworksAssumption DEF Init, ScanInv, TypeOK, FlagCoversScan, AskedForAFile

LEMMA OutcomesTyped ==
  \A kind \in {"aborted", "error", "busy", "ended"} :
    Outcome(kind) \in Outcomes /\ Outcome(kind).ops = {}
BY DEF Outcome, Outcomes

LEMMA OrphanedTyped == TypeOK => Orphaned \in [Nodes -> {"idle", "ours", "other"}]
BY DEF TypeOK, Orphaned

\* Handlers of the event loop that leave the scan alone.
LEMMA FileHandlers ==
  ASSUME ScanInv,
         \/ \E n \in Networks : EditNetwork(n)
         \/ \E m \in Nodes : EditRpc(m)
         \/ \E op \in Outpoints : AddUtxo(op) \/ RemoveUtxo(op)
         \/ SaveUtxos
  PROVE  ScanInv'
<1> USE DEF ScanInv, fieldVars, scanVars, nodeVars, TypeOK, FlagCoversScan, AskedForAFile
<1>1. ASSUME NEW n \in Networks, EditNetwork(n) PROVE ScanInv'
  BY <1>1 DEF EditNetwork
<1>2. ASSUME NEW m \in Nodes, EditRpc(m) PROVE ScanInv'
  BY <1>2 DEF EditRpc
<1>3. ASSUME NEW op \in Outpoints, AddUtxo(op) PROVE ScanInv'
  BY <1>3 DEF AddUtxo, Rewrite
<1>4. ASSUME NEW op \in Outpoints, RemoveUtxo(op) PROVE ScanInv'
  BY <1>4 DEF RemoveUtxo, Rewrite
<1>5. CASE SaveUtxos
  BY <1>5 DEF SaveUtxos
<1> QED BY <1>1, <1>2, <1>3, <1>4, <1>5

\* Starting, cancelling and finishing a scan, and a restart.
LEMMA ScanHandlers ==
  ASSUME ScanInv, StartScan \/ CancelScan \/ Restart \/ TimerTick
  PROVE  ScanInv'
<1> USE DEF ScanInv, fieldVars, nodeVars, AskedForAFile
<1>1. CASE StartScan
  BY <1>1, NetworksAssumption DEF StartScan, TypeOK, FlagCoversScan
<1>2. CASE CancelScan
  BY <1>2 DEF CancelScan, scanVars, TypeOK, FlagCoversScan
<1>3. CASE Restart
  <2>1. Orphaned \in [Nodes -> {"idle", "ours", "other"}]
    BY OrphanedTyped
  <2> QED BY <1>3, <2>1 DEF Restart, TypeOK, FlagCoversScan
<1>4. CASE FinishScan
  <2>1. path \in Networks /\ channel \in Outcomes /\ thread = "none"
    BY <1>4 DEF FinishScan, TypeOK, FlagCoversScan
  <2>2. FlagCoversScan' /\ AskedForAFile'
    BY <1>4, <2>1 DEF FinishScan, FlagCoversScan
  <2>3. CASE channel.kind = "found"
    <3>1. files' = [files EXCEPT ![path] = files[path] \cup channel.ops]
      BY <1>4, <2>3 DEF FinishScan, Rewrite
    <3>2. channel.ops \subseteq Outpoints
      BY <2>1 DEF Outcomes
    <3>3. files' \in [Networks -> SUBSET Outpoints]
      BY <2>1, <3>1, <3>2 DEF TypeOK
    <3> QED BY <1>4, <2>2, <3>3 DEF FinishScan, TypeOK
  <2>4. CASE channel.kind # "found"
    BY <1>4, <2>2, <2>4 DEF FinishScan, TypeOK
  <2> QED BY <2>3, <2>4
<1>5. CASE FinishScanFails
  BY <1>5 DEF FinishScanFails, TypeOK, FlagCoversScan
<1> QED BY <1>1, <1>2, <1>3, <1>4, <1>5 DEF TimerTick

\* What a thread sends while the timer waits for it.
LEMMA SendKeeps ==
  ASSUME ScanInv, thread # "none", NEW outcome \in Outcomes, Send(outcome),
         node' \in [Nodes -> {"idle", "ours", "other"}], aborting' \subseteq Nodes
  PROVE  ScanInv'
BY DEF ScanInv, Send, fieldVars, TypeOK, FlagCoversScan, AskedForAFile

LEMMA ThreadSteps ==
  ASSUME ScanInv, ThreadStep \/ ThreadEnds \/ NodeAnswers
  PROVE  ScanInv'
<1> USE DEF ScanInv
<1>0. /\ Orphaned \in [Nodes -> {"idle", "ours", "other"}]
      /\ node \in [Nodes -> {"idle", "ours", "other"}] /\ aborting \subseteq Nodes
  BY OrphanedTyped DEF TypeOK
<1>1. CASE CallNode
  BY <1>1 DEF CallNode, fieldVars, TypeOK, FlagCoversScan, AskedForAFile
<1>2. CASE NodeBusy
  BY <1>0, <1>2, SendKeeps, OutcomesTyped DEF NodeBusy, nodeVars
<1>3. CASE CallFails
  BY <1>0, <1>3, SendKeeps, OutcomesTyped DEF CallFails, nodeVars
<1>4. CASE CallTimesOut
  BY <1>0, <1>4, SendKeeps, OutcomesTyped DEF CallTimesOut
<1>5. CASE ThreadEnds
  BY <1>0, <1>5, SendKeeps, OutcomesTyped DEF ThreadEnds
<1>6. CASE NodeAnswers
  <2>1. /\ thread # "none"
        /\ node' \in [Nodes -> {"idle", "ours", "other"}] /\ aborting' \subseteq Nodes
    BY <1>0, <1>6 DEF NodeAnswers
  <2>2. CASE Send(Outcome("aborted"))
    BY <2>1, <2>2, SendKeeps, OutcomesTyped
  <2>3. ASSUME NEW ops \in SUBSET Outpoints,
               Send([kind |-> "found", ops |-> ops])
        PROVE  ScanInv'
    <3>1. [kind |-> "found", ops |-> ops] \in Outcomes
      BY DEF Outcomes
    <3> QED BY <2>1, <2>3, <3>1, SendKeeps
  <2> QED BY <1>6, <2>2, <2>3 DEF NodeAnswers
<1> QED BY <1>1, <1>2, <1>3, <1>4, <1>5, <1>6 DEF ThreadStep

LEMMA ClientSteps ==
  ASSUME ScanInv, NEW m \in Nodes, OtherClient(m)
  PROVE  ScanInv'
BY DEF ScanInv, OtherClient, fieldVars, scanVars, TypeOK, FlagCoversScan, AskedForAFile

THEOREM ScanInvariant == Spec => []ScanInv
<1>1. ScanInv /\ UNCHANGED vars => ScanInv'
  BY DEF vars, fieldVars, scanVars, nodeVars, ScanInv, TypeOK, FlagCoversScan, AskedForAFile
<1>2. ScanInv /\ [Next]_vars => ScanInv'
  BY <1>1, FileHandlers, ScanHandlers, ThreadSteps, ClientSteps DEF Next, UserStep
<1> QED BY InitScan, <1>2, PTL DEF Spec

-------------------------------------------------------------------------------

\* Every field, file and message of a scan keeps its type.
THEOREM ScanTypeCorrect == Spec => []TypeOK
<1>1. ScanInv => TypeOK
  BY DEF ScanInv
<1> QED BY <1>1, ScanInvariant, PTL

\* scan_in_progress covers the life of the timer, the thread and its answer: no order of
\* Scan, Cancel, edits of the fields and restarts leaves a thread no timer waits for.
THEOREM FlagCovers == Spec => []FlagCoversScan
<1>1. ScanInv => FlagCoversScan
  BY DEF ScanInv
<1> QED BY <1>1, ScanInvariant, PTL

-------------------------------------------------------------------------------
(* The refinement of ScanService.                                          *)

Findings == IF Answered THEN channel.ops ELSE {}

ServiceOf == <<ScanPhase, path, Findings, files>>

\* While a thread runs, the channel is empty and the phase is running.
LEMMA ThreadRuns ==
  ScanInv /\ thread # "none" => path \in Networks /\ ~Answered /\ ScanPhase = "running"
BY DEF ScanInv, TypeOK, FlagCoversScan, Answered, ScanPhase

\* What the thread sends but findings does not change the phase.
LEMMA SendStutters ==
  ASSUME ScanInv, thread # "none", NEW outcome \in Outcomes, outcome.kind # "found",
         Send(outcome)
  PROVE  UNCHANGED ServiceOf
<1>1. channel' = outcome /\ path' = path /\ files' = files
  BY DEF Send
<1>2. ~Answered'
  BY <1>1 DEF Answered
<1> QED BY <1>1, <1>2, ThreadRuns DEF ServiceOf, ScanPhase, Findings, Send

\* A user's change of the file of the network on the screen.
LEMMA EditsAreService ==
  ASSUME ScanInv, NEW op \in Outpoints, AddUtxo(op) \/ RemoveUtxo(op)
  PROVE  Service!Edit(network, op)
<1>1. UNCHANGED <<ScanPhase, path, Findings>>
  BY DEF AddUtxo, RemoveUtxo, scanVars, ScanPhase, Findings, Answered
<1>2. \E ops \in {files[network] \cup {op}, files[network] \ {op}} :
        files' = [files EXCEPT ![network] = ops]
  BY DEF AddUtxo, RemoveUtxo, Rewrite
<1> QED BY <1>1, <1>2 DEF Service!Edit, Service!Change, Findings

\* The end of a scan, in any way.
LEMMA ScanOver ==
  ASSUME ScanInv, path # None, path' = None, channel' = None
  PROVE  Service!Over
BY DEF Service!Over, ScanPhase, Findings, Answered

\* Every step is one of the service or is hidden from it.
LEMMA ServiceStep == ScanInv /\ [Next]_vars => [Service!ServiceNext]_ServiceOf
<1> SUFFICES ASSUME ScanInv, [Next]_vars PROVE [Service!ServiceNext]_ServiceOf
  OBVIOUS
<1>1. ASSUME \/ \E n \in Networks : EditNetwork(n)
             \/ \E m \in Nodes : EditRpc(m) \/ OtherClient(m)
      PROVE  UNCHANGED ServiceOf
  BY <1>1 DEF EditNetwork, EditRpc, OtherClient, scanVars, ServiceOf, ScanPhase, Findings, Answered
<1>2. ASSUME NEW op \in Outpoints, AddUtxo(op) \/ RemoveUtxo(op) PROVE Service!ServiceNext
  <2>1. network \in Networks
    BY DEF ScanInv, TypeOK
  <2> QED BY <1>2, <2>1, EditsAreService DEF Service!ServiceNext
<1>3. CASE SaveUtxos
  BY <1>3 DEF SaveUtxos, scanVars, ServiceOf, ScanPhase, Findings, Answered
<1>4. CASE StartScan
  <2>1. path = None /\ channel = None /\ network \in Networks /\ network # None
    BY <1>4, NetworksAssumption DEF StartScan, ScanInv, TypeOK, FlagCoversScan
  <2>2. Service!Start(network)
    BY <1>4, <2>1 DEF StartScan, Service!Start, ScanPhase, Findings, Answered
  <2> QED BY <2>1, <2>2 DEF Service!ServiceNext
<1>5. CASE CancelScan
  BY <1>5 DEF CancelScan, scanVars, ServiceOf, ScanPhase, Findings, Answered
<1>6. CASE Restart
  <2>1. CASE path = None
    BY <1>6, <2>1 DEF Restart, ScanInv, FlagCoversScan, ServiceOf, ScanPhase, Findings, Answered
  <2>2. CASE path # None
    <3>1. Service!Over
      BY <1>6, <2>2, ScanOver DEF Restart
    <3> QED BY <1>6, <3>1 DEF Restart, Service!Fail, Service!ServiceNext
  <2> QED BY <2>1, <2>2
<1>7. CASE FinishScan
  <2>1. Service!Over
    BY <1>7, ScanOver DEF FinishScan
  <2>2. CASE channel.kind = "found"
    <3>1. /\ files' = [files EXCEPT ![path] = files[path] \cup channel.ops]
          /\ path # None /\ channel # None
      BY <1>7, <2>2 DEF FinishScan, Rewrite
    <3>2. Service!Record
      BY <2>1, <2>2, <3>1 DEF Service!Record, ScanPhase, Answered
    <3> QED BY <3>2 DEF Service!ServiceNext
  <2>3. CASE channel.kind # "found"
    <3>1. files' = files
      BY <1>7, <2>3 DEF FinishScan
    <3> QED BY <2>1, <3>1 DEF Service!Fail, Service!ServiceNext
  <2> QED BY <2>2, <2>3
<1>8. CASE FinishScanFails
  <2>1. Service!Over /\ files' = files
    BY <1>8, ScanOver DEF FinishScanFails
  <2> QED BY <2>1 DEF Service!Fail, Service!ServiceNext
<1>9. CASE CallNode
  BY <1>9 DEF CallNode, ServiceOf, ScanPhase, Findings, Answered
<1>10. CASE NodeBusy \/ CallFails \/ CallTimesOut \/ ThreadEnds
  <2>1. \A kind \in {"busy", "error", "ended"} :
          Outcome(kind) \in Outcomes /\ Outcome(kind).kind # "found"
    BY DEF Outcome, Outcomes
  <2> QED BY <1>10, <2>1, SendStutters DEF NodeBusy, CallFails, CallTimesOut, ThreadEnds
<1>11. CASE NodeAnswers
  <2>1. thread # "none"
    BY <1>11 DEF NodeAnswers
  <2>2. CASE Send(Outcome("aborted"))
    <3>1. Outcome("aborted") \in Outcomes /\ Outcome("aborted").kind # "found"
      BY DEF Outcome, Outcomes
    <3> QED BY <2>1, <2>2, <3>1, SendStutters
  <2>3. ASSUME NEW ops \in SUBSET Outpoints,
               Send([kind |-> "found", ops |-> ops])
        PROVE  Service!ServiceNext
    <3>1. channel' = [kind |-> "found", ops |-> ops] /\ path' = path /\ files' = files
      BY <2>3 DEF Send
    <3>2. Answered' /\ channel'.ops = ops
      <4>1. [kind |-> "found", ops |-> ops] \in Outcomes
        BY DEF Outcomes
      <4> QED BY <3>1, <4>1, NetworksAssumption DEF Answered
    <3>3. Service!Answer(ops)
      BY <2>1, <3>1, <3>2, ThreadRuns, NetworksAssumption
         DEF Service!Answer, ScanPhase, Findings
    <3> QED BY <3>3 DEF Service!ServiceNext
  <2> QED BY <1>11, <2>2, <2>3 DEF NodeAnswers
<1>12. CASE UNCHANGED vars
  BY <1>12 DEF vars, scanVars, ServiceOf, ScanPhase, Findings, Answered
<1> QED BY <1>1, <1>2, <1>3, <1>4, <1>5, <1>6, <1>7, <1>8, <1>9, <1>10, <1>11, <1>12
        DEF Next, UserStep, TimerTick, ThreadStep

\* The handlers, the thread and the node together implement the service: each scan is
\* answered at most once and recorded, completely and once, in the file captured when it
\* started or nowhere.
THEOREM ImplementsService == Spec => KeepsService
<1>1. Init => Service!ServiceInit
  BY DEF Init, Service!ServiceInit, ScanPhase, Answered
<1> QED BY ScanInvariant, ServiceStep, <1>1, PTL
        DEF Spec, KeepsService, Service!ServiceSpec, Service!service, ServiceOf, Findings
===============================================================================
