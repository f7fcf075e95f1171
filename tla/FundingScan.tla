------------------------------- MODULE FundingScan -------------------------------
(***************************************************************************)
(* The funding scan of the desktop coordinator (src/bin/gui.rs and         *)
(* src/node.rs): the handlers that start and cancel it, the thread that    *)
(* holds the blocking scantxoutset call, the channel it answers on, the    *)
(* repeated timer of the event loop that reads the channel, and the node,  *)
(* which runs one scan at a time for all of its clients.                   *)
(*                                                                         *)
(* TreasuryCoordinator sees a scan as idle, running or answered on one     *)
(* network.  Here the network on the screen may change under a scan, and   *)
(* so may the RPC fields, which name a node of any chain: no handler       *)
(* compares the two, and a scan records whatever its node answers.  A file *)
(* is the set of its available outpoints; what may be recorded is          *)
(* UtxoFile's concern.                                                     *)
(***************************************************************************)
EXTENDS Naturals, FiniteSets

CONSTANTS
  Networks,  \* the values the wallet network field takes
  Nodes,     \* the nodes the RPC fields may name
  Outpoints, \* outpoints a node may answer or the user may type
  None       \* no network, no node, or an empty channel

\* What arrives on the channel: outpoints, an abort, an error of the call, the
\* refusal of a busy node, or nothing but the end of the thread.
Outcomes == [kind : {"found", "aborted", "error", "busy", "ended"},
             ops : SUBSET Outpoints]

ASSUME NetworksAssumption == None \notin Networks \cup Nodes \cup Outcomes

VARIABLES
  network,    \* the wallet network field
  rpc,        \* the node the RPC fields name
  inProgress, \* scan_in_progress: the UI shows Cancel instead of Scan
  asked,      \* the node the running scan was started on, or None
  path,       \* the network of the utxos.toml the timer closure captured, or None
  thread,     \* the scan thread: "none", "connecting" or "waiting" for the node
  channel,    \* what the thread sent and the timer has not received
  node,       \* per node: "idle", or whose scan it runs: "ours" or "other"
  aborting,   \* nodes told to abort their scan
  files,      \* per network: the available outpoints of its utxos.toml
  advised     \* the status line says to wait "or use Cancel"

fieldVars == <<network, rpc>>
scanVars == <<inProgress, asked, path, thread, channel>>
nodeVars == <<node, aborting>>
vars == <<fieldVars, scanVars, nodeVars, files, advised>>

Outcome(kind) == [kind |-> kind, ops |-> {}]

TypeOK ==
  /\ network \in Networks
  /\ rpc \in Nodes
  /\ inProgress \in BOOLEAN
  /\ asked \in Nodes \cup {None}
  /\ path \in Networks \cup {None}
  /\ thread \in {"none", "connecting", "waiting"}
  /\ channel \in Outcomes \cup {None}
  /\ node \in [Nodes -> {"idle", "ours", "other"}]
  /\ aborting \subseteq Nodes
  /\ files \in [Networks -> SUBSET Outpoints]
  /\ advised \in BOOLEAN

\* main, with the network and the RPC fields of config.toml.
Init ==
  /\ network \in Networks
  /\ rpc \in Nodes
  /\ inProgress = FALSE
  /\ asked = None
  /\ path = None
  /\ thread = "none"
  /\ channel = None
  /\ advised = FALSE
  /\ node = [m \in Nodes |-> "idle"]
  /\ aborting = {}
  /\ files = [n \in Networks |-> {}]

-------------------------------------------------------------------------------
(* The event loop.  Every handler ends with set_status.                    *)

\* The network is one field of the settings page, the RPC settings are others.
EditNetwork(n) ==
  /\ network' = n
  /\ UNCHANGED <<rpc, scanVars, nodeVars, files, advised>>

EditRpc(m) ==
  /\ rpc' = m
  /\ UNCHANGED <<network, scanVars, nodeVars, files, advised>>

\* save_utxos at the path of network n.
Rewrite(n, ops) == files' = [files EXCEPT ![n] = ops]

\* add_utxo_from_ui, remove_utxo_from_ui and save_utxos_from_ui: the file of the
\* network on the screen gains an outpoint, loses one, or is written as it is.
AddUtxo(op) ==
  /\ op \notin files[network]
  /\ Rewrite(network, files[network] \cup {op})
  /\ advised' = FALSE
  /\ UNCHANGED <<fieldVars, scanVars, nodeVars>>

RemoveUtxo(op) ==
  /\ op \in files[network]
  /\ Rewrite(network, files[network] \ {op})
  /\ advised' = FALSE
  /\ UNCHANGED <<fieldVars, scanVars, nodeVars>>

SaveUtxos ==
  /\ advised' = FALSE
  /\ UNCHANGED <<fieldVars, scanVars, nodeVars, files>>

\* start_funding_scan: captures the path of the network on the screen and the node of
\* the RPC fields, spawns the thread and starts the timer.
StartScan ==
  /\ ~inProgress
  /\ inProgress' = TRUE
  /\ asked' = rpc
  /\ path' = network
  /\ thread' = "connecting"
  /\ channel' = None
  /\ advised' = FALSE
  /\ UNCHANGED <<fieldVars, nodeVars, files>>

\* Mutant: the flag is cleared before the thread is done.
CancelClearsFlag ==
  /\ inProgress
  /\ inProgress' = FALSE
  /\ UNCHANGED <<fieldVars, asked, path, thread, channel, nodeVars, files, advised>>

\* Mutant: Cancel is there without a scan, and aborts on the node of the scan.
CancelAnyTime ==
  /\ aborting' = aborting \cup {asked}
  /\ UNCHANGED <<fieldVars, scanVars, node, files, advised>>

\* cancel_funding_scan, offered while a scan is in progress: the node the RPC fields
\* name now aborts the scan it runs, whoever started it, if it runs any.
CancelScan ==
  /\ inProgress
  /\ aborting' = IF node[rpc] = "idle" THEN aborting ELSE aborting \cup {rpc}
  /\ advised' = FALSE
  /\ UNCHANGED <<fieldVars, scanVars, node, files>>

\* Mutant: the findings go to the file of the network on the screen.
FinishOnScreen ==
  /\ path # None
  /\ channel # None
  /\ Rewrite(network, files[network] \cup channel.ops)
  /\ inProgress' = FALSE
  /\ asked' = None
  /\ path' = None
  /\ channel' = None
  /\ UNCHANGED <<fieldVars, thread, nodeVars, advised>>

\* finish_funding_scan: the tick that finds the channel filled or closed stops the
\* timer, records what was found in the file captured at the start, and lets the
\* next scan begin.
FinishScan ==
  /\ path # None
  /\ channel # None
  /\ IF channel.kind = "found"
       THEN Rewrite(path, files[path] \cup channel.ops)
       ELSE UNCHANGED files
  /\ inProgress' = FALSE
  /\ asked' = None
  /\ path' = None
  /\ channel' = None
  /\ advised' = (channel.kind = "busy")
  /\ UNCHANGED <<fieldVars, thread, nodeVars>>

\* finish_funding_scan failing to load or save utxos.toml: the flag is cleared all
\* the same.
FinishScanFails ==
  /\ path # None
  /\ channel # None
  /\ channel.kind = "found"
  /\ inProgress' = FALSE
  /\ asked' = None
  /\ path' = None
  /\ channel' = None
  /\ advised' = FALSE
  /\ UNCHANGED <<fieldVars, thread, nodeVars, files>>

\* A scan the process leaves behind goes on in the node, for nobody.
Orphaned == [m \in Nodes |-> IF node[m] = "ours" THEN "other" ELSE node[m]]

\* The process ends and starts again, with the network and the RPC settings that
\* config.toml last saved.
Restart ==
  /\ network' \in Networks
  /\ rpc' \in Nodes
  /\ inProgress' = FALSE
  /\ asked' = None
  /\ path' = None
  /\ thread' = "none"
  /\ channel' = None
  /\ advised' = FALSE
  /\ node' = Orphaned
  /\ UNCHANGED <<aborting, files>>

-------------------------------------------------------------------------------
(* The scan thread.                                                        *)

Send(outcome) ==
  /\ thread' = "none"
  /\ channel' = outcome
  /\ UNCHANGED <<fieldVars, inProgress, asked, path, files, advised>>

\* run_funding_scan: the blocking call reaches the node.
CallNode ==
  /\ thread = "connecting"
  /\ node[asked] = "idle"
  /\ thread' = "waiting"
  /\ node' = [node EXCEPT ![asked] = "ours"]
  /\ UNCHANGED <<fieldVars, inProgress, asked, path, channel, aborting, files, advised>>

\* RPC error -8: the node runs a scan already.
NodeBusy ==
  /\ thread = "connecting"
  /\ node[asked] # "idle"
  /\ Send(Outcome("busy"))
  /\ UNCHANGED nodeVars

\* The client cannot be made, or the call fails before the node starts.
CallFails ==
  /\ thread = "connecting"
  /\ Send(Outcome("error"))
  /\ UNCHANGED nodeVars

\* Mutant: the client of the scan has no timeout.
CallNeverTimesOut == FALSE

\* SCAN_RPC_TIMEOUT, or a lost connection: the node goes on scanning.
CallTimesOut ==
  /\ thread = "waiting"
  /\ Send(Outcome("error"))
  /\ node' = Orphaned
  /\ UNCHANGED aborting

\* The thread panics: nothing is sent, the timer sees the channel disconnected.
ThreadEnds ==
  /\ thread # "none"
  /\ Send(Outcome("ended"))
  /\ node' = Orphaned
  /\ UNCHANGED aborting

-------------------------------------------------------------------------------
(* The node, an external service.                                          *)

\* The scan is over: for us the response carries the unspent outputs of the node's
\* chain, or success = false when it was aborted.
NodeAnswers ==
  /\ thread = "waiting"
  /\ node[asked] = "ours"
  /\ \/ /\ asked \in aborting
        /\ Send(Outcome("aborted"))
     \/ /\ asked \notin aborting
        /\ \E ops \in SUBSET Outpoints : Send([kind |-> "found", ops |-> ops])
  /\ node' = [node EXCEPT ![asked] = "idle"]
  /\ aborting' = aborting \ {asked}

\* Another client begins a scan or aborts the one that runs; a scan of another
\* client, or one we left behind, ends.
OtherClient(m) ==
  /\ \/ node[m] = "idle" /\ node' = [node EXCEPT ![m] = "other"] /\ UNCHANGED aborting
     \/ node[m] # "idle" /\ aborting' = aborting \cup {m} /\ UNCHANGED node
     \/ /\ node[m] = "other"
        /\ node' = [node EXCEPT ![m] = "idle"]
        /\ aborting' = aborting \ {m}
  /\ UNCHANGED <<fieldVars, scanVars, files, advised>>

-------------------------------------------------------------------------------

UserStep ==
  \/ \E n \in Networks : EditNetwork(n)
  \/ \E m \in Nodes : EditRpc(m)
  \/ \E op \in Outpoints : AddUtxo(op) \/ RemoveUtxo(op)
  \/ SaveUtxos
  \/ StartScan
  \/ CancelScan
  \/ Restart

TimerTick == FinishScan \/ FinishScanFails

\* What the thread does whether or not the node ever answers.
ThreadStep == CallNode \/ NodeBusy \/ CallFails \/ CallTimesOut

Next ==
  \/ UserStep
  \/ TimerTick
  \/ ThreadStep
  \/ ThreadEnds
  \/ NodeAnswers
  \/ \E m \in Nodes : OtherClient(m)

\* The operating system runs the thread, whose call ends at its timeout at the
\* latest, and the event loop runs its repeated timer.  Nothing is asked of the node
\* or the user.
Fairness == WF_vars(ThreadStep) /\ WF_vars(TimerTick)

Spec == Init /\ [][Next]_vars /\ Fairness

-------------------------------------------------------------------------------

\* The flag, the timer and the scan come and go together: no thread or answer is left
\* that no timer waits for, and the Cancel button never outlives the timer.
FlagCoversScan ==
  /\ inProgress <=> path # None
  /\ thread # "none" \/ channel # None => inProgress
  /\ thread # "none" => channel = None

\* The phase of a scan: until its answer is on the channel the timer waits.
Answered == channel # None /\ channel.kind = "found"

ScanPhase == IF path = None THEN "idle" ELSE IF Answered THEN "answered" ELSE "running"

Service == INSTANCE ScanService
             WITH phase <- ScanPhase, target <- path,
                  findings <- IF Answered THEN channel.ops ELSE {}

\* Every step of handlers, thread and node is a step of the service or leaves it alone: no
\* answer is recorded twice, after its scan is over, or in another file than the one
\* captured when the scan started, whatever the fields say by then.
KeepsService == Service!ServiceSpec

\* A scan always ends, and Scan is offered again, even if the node never answers.
ScanEnds == inProgress ~> ~inProgress

\* The refusal of a busy node tells the user to wait "or use Cancel" (node.rs:141):
\* while that is on the screen, Cancel can be used.
AdvisedCancelIsOffered == advised => ENABLED CancelScan
===============================================================================
