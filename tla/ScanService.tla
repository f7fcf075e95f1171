-------------------------------- MODULE ScanService --------------------------------
(***************************************************************************)
(* What a funding scan promises, whoever cancels it, edits the settings or *)
(* restarts meanwhile: it is idle, running or answered; there is one at a  *)
(* time; it is answered at most once, and the answer is recorded once and  *)
(* completely in the file chosen when the scan started, or dropped.  That  *)
(* the answer is of that file's network it does not promise: the node is   *)
(* whichever the RPC fields name.                                          *)
(*                                                                         *)
(* FundingScan implements it with a thread, a channel and a timer,         *)
(* TreasuryCoordinator relies on it for its one network.                   *)
(***************************************************************************)
CONSTANTS Networks, Outpoints, None

VARIABLES
  phase,    \* "idle", "running" or "answered"
  target,   \* the network whose file the scan is for, or None
  findings, \* what the node answered
  files     \* per network: the outpoints its utxos.toml lists

service == <<phase, target, findings, files>>

ServiceInit ==
  /\ phase = "idle"
  /\ target = None
  /\ findings = {}
  /\ files = [n \in Networks |-> {}]

Start(n) ==
  /\ phase = "idle"
  /\ phase' = "running"
  /\ target' = n
  /\ UNCHANGED <<findings, files>>

Answer(ops) ==
  /\ phase = "running"
  /\ phase' = "answered"
  /\ findings' = ops
  /\ UNCHANGED <<target, files>>

Over ==
  /\ phase # "idle"
  /\ phase' = "idle"
  /\ target' = None
  /\ findings' = {}

Record ==
  /\ phase = "answered"
  /\ Over
  /\ files' = [files EXCEPT ![target] = @ \cup findings]

Fail == Over /\ UNCHANGED files

\* The file of network n gains or loses an outpoint.
Change(n, op) ==
  \E ops \in {files[n] \cup {op}, files[n] \ {op}} : files' = [files EXCEPT ![n] = ops]

\* Another handler changes a file.
Edit(n, op) ==
  /\ Change(n, op)
  /\ UNCHANGED <<phase, target, findings>>

\* It does, and the process dies before the scan is over.
Die(n, op) == Over /\ Change(n, op)

ServiceNext ==
  \/ \E n \in Networks : Start(n)
  \/ \E ops \in SUBSET Outpoints : Answer(ops)
  \/ Record
  \/ Fail
  \/ \E n \in Networks, op \in Outpoints : Edit(n, op) \/ Die(n, op)

ServiceSpec == ServiceInit /\ [][ServiceNext]_service
===============================================================================
