--------------------------- MODULE TreasuryCoordinator ---------------------------
(***************************************************************************)
(* The desktop coordinator (src/bin/gui.rs): one event loop whose handlers *)
(* run to completion, the files it keeps (utxos.toml, wallet.toml, the     *)
(* PSBTs and final transactions it writes), the fields of its screens, the *)
(* funding-scan thread, the node and the user.                             *)
(*                                                                         *)
(* Handlers check their inputs and bail before they write: a handler that  *)
(* bails leaves every variable alone and is no step here.  A handler that  *)
(* writes one file and then fails, or dies, before it writes the next is   *)
(* an action of its own.                                                   *)
(***************************************************************************)
EXTENDS UtxoFile

CONSTANTS
  Deposits,      \* outpoints funding the treasury's receive addresses
  DepositIndex,  \* the /0/* derivation index each deposit pays
  Payrolls,      \* txids of the payroll transactions Build may create
  MaxIndex,      \* the largest u32; derivation indices saturate there
  ScanGap,       \* node::SCAN_GAP
  LastIndex,     \* last_derivation_index: no handler advances it
  IndexEdits,    \* change indices the user may type into a field
  AutoLoads,     \* the network has a directory main loads from: not on regtest
  None           \* an empty field

Index == 0..MaxIndex
Outpoints == Deposits \cup Payrolls

ASSUME ConstantsAssumption ==
  /\ MaxIndex \in Nat
  /\ ScanGap \in Nat
  /\ LastIndex \in Index
  /\ DepositIndex \in [Deposits -> Index]
  /\ IndexEdits \subseteq Index
  /\ AutoLoads \in BOOLEAN
  /\ IsFiniteSet(Outpoints)
  /\ Deposits \cap Payrolls = {}
  /\ None \notin Outpoints
  /\ None \notin Index
  /\ None \notin [op : Payrolls, idx : Index]

\* A treasury output, as the prevout fields and a scan describe it.
Output == [op : Outpoints, chain : Chains, idx : Index]

\* A payroll transaction: the outpoint it spends and the /1/* index its change
\* output pays, None when it has no change.
Payroll == [id : Payrolls, spend : Outpoints, chg : Index \cup {None}]

Record == FileRecord(Outpoints, Index)

VARIABLES
  utxos,        \* utxos.toml
  walletIndex,  \* change_derivation_index in wallet.toml
  built,        \* payroll PSBTs Build wrote; the signers sign any of them
  finalized,    \* final transactions whose hex was written to a file
  uiIndex,      \* the change index field
  prevout,      \* the txid, vout, chain and index fields of the input
  pendingSpent, \* pending UTXO state: the outpoint to retire
  pendingChange,\* pending UTXO state: the change to record
  hexTx,        \* the transaction in the file final_tx_hex_path names
  scan,         \* the funding scan: "idle", "running" or "answered"
  scanRange,    \* the indices of each chain the scan asks the node for
  scanFound,    \* what the node answered
  mined         \* payroll transactions on the chain

files == <<utxos, walletIndex, built, finalized>>
pending == <<pendingSpent, pendingChange>>
fields == <<uiIndex, prevout, pending, hexTx>>
scanning == <<scan, scanRange, scanFound>>
vars == <<files, fields, scanning, mined>>

NoRange == [c \in Chains |-> {}]

PendingChange == [op : Payrolls, idx : Index]

TypeOK ==
  /\ utxos \in Seq(Record)
  /\ walletIndex \in Index
  /\ built \subseteq Payroll
  /\ finalized \subseteq built
  /\ uiIndex \in Index
  /\ prevout \in Output \cup {None}
  /\ pendingSpent \in Outpoints \cup {None}
  /\ pendingChange \in PendingChange \cup {None}
  /\ hexTx \in finalized \cup {None}
  /\ scan \in {"idle", "running", "answered"}
  /\ scanRange \in [Chains -> SUBSET Index]
  /\ scanFound \subseteq Output
  /\ mined \subseteq finalized

Init ==
  /\ utxos = <<>>
  /\ walletIndex = 0
  /\ built = {}
  /\ finalized = {}
  /\ uiIndex = 0
  /\ prevout = None
  /\ pendingSpent = None
  /\ pendingChange = None
  /\ hexTx = None
  /\ scan = "idle"
  /\ scanRange = NoRange
  /\ scanFound = {}
  /\ mined = {}

-------------------------------------------------------------------------------
(* The chain.  The deposits are on it from the start; a payroll spends one *)
(* output and may pay change.                                              *)

DepositOutputs ==
  {[op |-> d, chain |-> "receive", idx |-> DepositIndex[d]] : d \in Deposits}

ChangeOutput(t) == [op |-> t.id, chain |-> "change", idx |-> t.chg]

ChangeOutputs(txs) == {ChangeOutput(t) : t \in {x \in txs : x.chg # None}}

TreasuryOutputs == DepositOutputs \cup ChangeOutputs(mined)

SpentOnChain == {t.spend : t \in mined}

Unspent == {u \in TreasuryOutputs : u.op \notin SpentOnChain}

-------------------------------------------------------------------------------
(* Screen 3, UTXOs.                                                        *)

\* The user types the prevout fields; what is typed is an output of the treasury.
EnterPrevout(u) ==
  /\ u \in TreasuryOutputs
  /\ prevout' = u
  /\ UNCHANGED <<files, uiIndex, pending, hexTx, scanning, mined>>

\* select_utxo_from_ui: copies an available record into the prevout fields.
SelectUtxo(i) ==
  /\ i \in AvailableIndices(utxos)
  /\ prevout' = [op |-> utxos[i].op, chain |-> utxos[i].chain, idx |-> utxos[i].idx]
  /\ UNCHANGED <<files, uiIndex, pending, hexTx, scanning, mined>>

\* add_utxo_from_ui: records what the prevout fields say.
AddUtxo ==
  /\ prevout # None
  /\ CanAppendFresh(utxos, prevout)
  /\ utxos' = AppendFresh(utxos, prevout, "added")
  /\ UNCHANGED <<walletIndex, built, finalized, fields, scanning, mined>>

\* remove_utxo_from_ui: drops an available record once the user confirms.
RemoveUtxo(i) ==
  /\ i \in AvailableIndices(utxos)
  /\ utxos' = RemoveAt(utxos, i)
  /\ UNCHANGED <<walletIndex, built, finalized, fields, scanning, mined>>

-------------------------------------------------------------------------------
(* Screen 5, Build: spends what the prevout fields say and pays change, if *)
(* the amounts leave any, to the change index in the UI.  Neither is       *)
(* compared with utxos.toml or wallet.toml.                                *)

Build(id, hasChange) ==
  LET t == [id |-> id, spend |-> prevout.op,
            chg |-> IF hasChange THEN uiIndex ELSE None]
  IN  /\ prevout # None
      /\ \A x \in built : x.id # id
      /\ built' = built \cup {t}
      /\ UNCHANGED <<utxos, walletIndex, finalized, fields, scanning, mined>>

-------------------------------------------------------------------------------
(* Screen 6, Finalize.                                                     *)

\* Mutant: the index of the next change address is looked for.
RecognisesNext(t) ==
  IF t.chg = uiIndex + 1 THEN [op |-> t.id, idx |-> t.chg] ELSE None

\* change_prevout_from_psbt and change_prevout_from_tx: the transaction's output to
\* the address at the change index in the UI, if it has one.
RecognisedChange(t) ==
  IF t.chg = uiIndex THEN [op |-> t.id, idx |-> uiIndex] ELSE None

\* Mutant: without change, the pending change of an earlier payroll stays.
ApplyKeepsOldChange(t) ==
  /\ pendingSpent' = t.spend
  /\ pendingChange' = IF RecognisedChange(t) = None THEN pendingChange
                      ELSE RecognisedChange(t)

\* Mutant: the input on the screen is retired, not the input of the transaction.
ApplyRetiresPrevout(t) ==
  /\ pendingSpent' = IF prevout = None THEN t.spend ELSE prevout.op
  /\ pendingChange' = RecognisedChange(t)

\* apply_finalized_tx_state
ApplyFinalizedTxState(t) ==
  IF AlreadyProcessed(utxos, t)
    THEN /\ pendingSpent' = None
         /\ pendingChange' = None
    ELSE /\ pendingSpent' = t.spend
         /\ pendingChange' = RecognisedChange(t)

\* finalize_loaded_psbt_from_ui: the signed PSBT must be one Build saved and its
\* input any recorded outpoint, spent ones included.
Finalize(t) ==
  /\ t \in built
  /\ IsRecorded(utxos, t.spend)
  /\ finalized' = finalized \cup {t}
  /\ hexTx' = t
  /\ ApplyFinalizedTxState(t)
  /\ UNCHANGED <<utxos, walletIndex, built, uiIndex, prevout, scanning, mined>>

\* finalize_loaded_psbt_from_ui failing after finalize_payroll wrote the final
\* files: deriving the change script fails, before the pending state is set, or the
\* receive address, after.  The path of the hex stays, and the file there is
\* overwritten when it is in the same directory.
FinalizeFailsLate(t) ==
  /\ t \in built
  /\ IsRecorded(utxos, t.spend)
  /\ finalized' = finalized \cup {t}
  /\ hexTx' \in IF hexTx = None THEN {None} ELSE {hexTx, t}
  /\ UNCHANGED pending \/ ApplyFinalizedTxState(t)
  /\ UNCHANGED <<utxos, walletIndex, built, uiIndex, prevout, scanning, mined>>

\* load_final_tx_hex_into_ui: no PSBT and no record is consulted.  The path is set
\* first, and stays when utxos.toml cannot be read.
LoadFinalTxHex(t) ==
  /\ t \in finalized
  /\ hexTx' = t
  /\ UNCHANGED pending \/ ApplyFinalizedTxState(t)
  /\ UNCHANGED <<files, uiIndex, prevout, scanning, mined>>

\* The user overwrites the pending change index.
EditPendingChange(i) ==
  /\ pendingChange # None
  /\ pendingChange' = [pendingChange EXCEPT !.idx = i]
  /\ UNCHANGED <<files, uiIndex, prevout, pendingSpent, hexTx, scanning, mined>>

\* Mutant: the change index does not advance.
SameIndex(i) == i

NextIndex(i) == IF i = MaxIndex THEN MaxIndex ELSE i + 1

PendingOutput == [op |-> pendingChange.op, chain |-> "change",
                  idx |-> pendingChange.idx]

\* Mutant: the change is recorded in the file as it was loaded.
CommitForgetsInput ==
  /\ pendingSpent # None
  /\ CanMarkSpent(utxos, pendingSpent)
  /\ IF pendingChange = None
       THEN utxos' = MarkSpent(utxos, pendingSpent)
       ELSE /\ CanAppendFresh(utxos, PendingOutput)
            /\ utxos' = AppendFresh(utxos, PendingOutput, "change")

\* save_utxo_state_from_ui up to save_utxos: retire the input, then record the
\* change; either check failing saves nothing.  The pending fields are kept.
CommitPending ==
  /\ pendingSpent # None
  /\ CanMarkSpent(utxos, pendingSpent)
  /\ LET retired == MarkSpent(utxos, pendingSpent)
     IN  \/ /\ pendingChange = None
            /\ utxos' = retired
         \/ /\ pendingChange # None
            /\ CanAppendFresh(retired, PendingOutput)
            /\ utxos' = AppendFresh(retired, PendingOutput, "change")

\* Mutant: the index stays what the screen shows.
IndexOnScreen == uiIndex

CommittedIndex ==
  IF pendingChange = None THEN uiIndex ELSE NextIndex(pendingChange.idx)

\* The whole handler: utxos.toml, the change index field, wallet.toml.
SaveUtxoState ==
  /\ CommitPending
  /\ uiIndex' = CommittedIndex
  /\ walletIndex' = CommittedIndex
  /\ UNCHANGED <<built, finalized, prevout, pending, hexTx, scanning, mined>>

\* The handler failing in save_wallet_from_ui: utxos.toml is written, the change
\* index only moves on the screen.
SaveUtxoStateWalletFails ==
  /\ CommitPending
  /\ uiIndex' = CommittedIndex
  /\ UNCHANGED <<walletIndex, built, finalized, prevout, pending, hexTx, scanning,
                 mined>>

\* Mutant: the index field keeps its default.
BlankScreen ==
  /\ uiIndex' = 0
  /\ UNCHANGED <<prevout, pending, hexTx, scanning>>

\* Every field as main leaves it: wallet.toml is loaded when default_network_directory
\* knows the network, the fields keep their defaults when it does not.
FreshScreen ==
  /\ uiIndex' = IF AutoLoads THEN walletIndex ELSE 0
  /\ prevout' = None
  /\ pendingSpent' = None
  /\ pendingChange' = None
  /\ hexTx' = None
  /\ scan' = "idle"
  /\ scanRange' = NoRange
  /\ scanFound' = {}

\* The process dying between the two writes, and starting again.
SaveUtxoStateCrashes ==
  /\ CommitPending
  /\ FreshScreen
  /\ UNCHANGED <<walletIndex, built, finalized, mined>>

-------------------------------------------------------------------------------
(* Screen 2, Wallet, and the process itself.                               *)

EditChangeIndex(i) ==
  /\ uiIndex' = i
  /\ UNCHANGED <<files, prevout, pending, hexTx, scanning, mined>>

SaveWallet ==
  /\ walletIndex' = uiIndex
  /\ UNCHANGED <<utxos, built, finalized, fields, scanning, mined>>

Restart ==
  /\ FreshScreen
  /\ UNCHANGED <<files, mined>>

-------------------------------------------------------------------------------
(* The node.                                                               *)

\* broadcast_final_tx_from_ui reads the file anew; the node accepts a transaction
\* that spends an output of the chain nothing spent.
Broadcast ==
  /\ hexTx # None
  /\ hexTx \notin mined
  /\ \E u \in Unspent : u.op = hexTx.spend
  /\ mined' = mined \cup {hexTx}
  /\ UNCHANGED <<files, fields, scanning>>

\* Mutant: the sum does not saturate.
UnboundedScanMax == uiIndex + LastIndex + ScanGap

ScanMaxIndex ==
  LET top == IF LastIndex > uiIndex THEN LastIndex ELSE uiIndex
  IN  IF top + ScanGap > MaxIndex THEN MaxIndex ELSE top + ScanGap

\* Mutant: a second scan starts before the first is over.
StartScanAgain ==
  /\ scan' = "running"
  /\ scanRange' = [c \in Chains |-> 0..ScanMaxIndex]
  /\ UNCHANGED <<files, fields, scanFound, mined>>

\* start_funding_scan: the range of each chain goes from the lowest available
\* record up to the gap limit, and is not looked at again.
StartScan ==
  /\ scan = "idle"
  /\ scan' = "running"
  /\ scanRange' = [c \in Chains |->
       LET floor == ScanFloor(utxos, c)
       IN  (IF floor > ScanMaxIndex THEN ScanMaxIndex ELSE floor)..ScanMaxIndex]
  /\ UNCHANGED <<files, fields, scanFound, mined>>

\* scantxoutset answers with the unspent outputs of the range at that moment.
NodeAnswersScan ==
  /\ scan = "running"
  /\ scan' = "answered"
  /\ scanRange' = NoRange
  /\ scanFound' = {u \in Unspent : u.idx \in scanRange[u.chain]}
  /\ UNCHANGED <<files, fields, mined>>

ScanIsOver ==
  /\ scan' = "idle"
  /\ scanRange' = NoRange
  /\ scanFound' = {}

\* finish_funding_scan, some later timer tick: reloads the file and appends what it
\* does not hold.
FinishScan ==
  /\ scan = "answered"
  /\ utxos' \in ScanResults(utxos, scanFound)
  /\ ScanIsOver
  /\ UNCHANGED <<walletIndex, built, finalized, fields, mined>>

\* finish_funding_scan after an error or an abort: the file is not touched.
ScanFails ==
  /\ scan # "idle"
  /\ ScanIsOver
  /\ UNCHANGED <<files, fields, mined>>

-------------------------------------------------------------------------------

UtxoHandlers ==
  \/ \E u \in TreasuryOutputs : EnterPrevout(u)
  \/ \E i \in DOMAIN utxos : SelectUtxo(i) \/ RemoveUtxo(i)
  \/ AddUtxo

PayrollHandlers ==
  \/ \E id \in Payrolls, hasChange \in BOOLEAN : Build(id, hasChange)
  \/ \E t \in built : Finalize(t) \/ FinalizeFailsLate(t) \/ LoadFinalTxHex(t)
  \/ \E i \in IndexEdits : EditPendingChange(i)
  \/ SaveUtxoState
  \/ SaveUtxoStateWalletFails
  \/ SaveUtxoStateCrashes

WalletHandlers ==
  \/ \E i \in IndexEdits : EditChangeIndex(i)
  \/ SaveWallet
  \/ Restart

NodeSteps ==
  \/ Broadcast
  \/ StartScan
  \/ NodeAnswersScan
  \/ FinishScan
  \/ ScanFails

Next == UtxoHandlers \/ PayrollHandlers \/ WalletHandlers \/ NodeSteps

Spec == Init /\ [][Next]_vars

-------------------------------------------------------------------------------
(* Safety.                                                                 *)

\* utxos.toml never holds two records of one txid:vout, whether Add UTXO, Save UTXO
\* State or a scan that started before either wrote them.
OutpointsUnique == UniqueOutpoints(utxos)

\* An outpoint is marked spent only when a final transaction that spends it was
\* written: pending state left over from another payroll, an edited field or a
\* restart never retires an output nothing spends.
SpentHasFinalTx ==
  \A i \in DOMAIN utxos : utxos[i].status = "spent" =>
    \E t \in finalized : t.spend = utxos[i].op

\* The pending change and the pending spent outpoint are of one payroll: finalizing
\* a second payroll, or one already recorded, replaces or clears both.
PendingIsOnePayroll ==
  pendingChange # None =>
    \E t \in finalized : /\ t.id = pendingChange.op
                         /\ t.spend = pendingSpent

\* A change record of Save UTXO State is never without its other half: the input
\* of that payroll is marked spent, also after a crash in the middle of the save.
SavedChangeRetiredItsInput ==
  \A i \in DOMAIN utxos : utxos[i].how = "change" =>
    \E t \in finalized : /\ t.id = utxos[i].op
                         /\ HasStatus(utxos, t.spend, "spent")

\* Two records may share an address, but only because a scan appended the later
\* one: Add UTXO and Save UTXO State refuse an address in use.
SharedAddressIsScanned ==
  \A i, j \in DOMAIN utxos :
    i < j /\ SharesAddress(utxos[i], utxos[j]) => utxos[j].how = "scanned"

\* A record marked spent stays in the file, marked spent.
SpentForever ==
  [][\A op \in Outpoints :
       HasStatus(utxos, op, "spent") => HasStatus(utxos', op, "spent")]_utxos

\* wallet.toml's change index never goes back unless the user types an index.
ChangeIndexNeverRegresses == [][walletIndex' >= walletIndex]_walletIndex

-------------------------------------------------------------------------------
(* What the source says of the program and the program does not do.        *)

\* Finalize and Load Final Tx report "UTXO state: already recorded" (gui.rs:1294),
\* and clear the pending state, only when the input the payroll spends is marked spent.
KnownMeansRetired ==
  \A t \in finalized :
    AlreadyProcessed(utxos, t) => HasStatus(utxos, t.spend, "spent")

\* Below the floor of a scan, "everything ... is spent" (gui.rs:1217), except what
\* was sent again to an address recorded as spent.
FloorSkipsOnlySpent ==
  \A u \in Unspent : u.idx < ScanFloor(utxos, u.chain) =>
    \E i \in DOMAIN utxos : SharesAddress(utxos[i], u) /\ utxos[i].status = "spent"

-------------------------------------------------------------------------------
(* utxos.toml keeps the promise of TreasuryLedger.                         *)

LedgerPhase(op) ==
  CASE HasStatus(utxos, op, "spent")     -> "spent"
    [] HasStatus(utxos, op, "available") -> "available"
    [] OTHER                             -> "absent"

Ledger == INSTANCE TreasuryLedger
            WITH ledger <- [op \in Outpoints |-> LedgerPhase(op)]

\* Every step of the coordinator is a step of the ledger or leaves it alone.
KeepsLedger == Ledger!LedgerSpec

-------------------------------------------------------------------------------
(* The scan is the service FundingScan implements, on the one network.     *)

Home == "home"

Service == INSTANCE ScanService
             WITH Networks <- {Home},
                  phase <- scan,
                  target <- IF scan = "idle" THEN None ELSE Home,
                  findings <- {u.op : u \in scanFound},
                  files <- [n \in {Home} |-> {op \in Outpoints : IsRecorded(utxos, op)}]

\* A scan finishes once, and everything it found is then listed, whatever other handlers
\* did to utxos.toml since it began; a failed one, or one cut off by a restart, lists nothing.
KeepsService == Service!ServiceSpec
===============================================================================
