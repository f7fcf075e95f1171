------------------------------ MODULE TreasuryGuide ------------------------------
(***************************************************************************)
(* The coordinator used the way its screens lead the user: payrolls one at *)
(* a time, each built from an available UTXO and taken to Save UTXO State  *)
(* before the next is built, no funding scan while one is outstanding,     *)
(* nothing typed over a derivation index, and no write that fails.  A      *)
(* restart may come at any moment, the PSBT may be finalized and the hex   *)
(* loaded and broadcast any number of times, in any order.                 *)
(*                                                                         *)
(* Under it the change counter does what it is for; each departure named   *)
(* above breaks it in the code as it is.                                   *)
(***************************************************************************)
EXTENDS TreasuryCoordinator

Saved(t) == HasStatus(utxos, t.spend, "spent")

NothingOutstanding == \A t \in built : Saved(t)

BuildFromAvailable ==
  /\ prevout # None
  /\ HasStatus(utxos, prevout.op, "available")
  /\ \E id \in Payrolls, hasChange \in BOOLEAN : Build(id, hasChange)

BetweenPayrolls ==
  \/ UtxoHandlers
  \/ BuildFromAvailable
  \/ SaveWallet
  \/ StartScan
  \/ NodeAnswersScan
  \/ FinishScan
  \/ ScanFails

WithPayroll ==
  \/ \E t \in built : Finalize(t) \/ LoadFinalTxHex(t)
  \/ SaveUtxoState
  \/ Restart
  \/ Broadcast

\* A scan still running when Build is pressed is cancelled first.
GuideNext ==
  \/ /\ NothingOutstanding
     /\ BetweenPayrolls
     /\ built' # built => scan = "idle"
  \/ WithPayroll

GuideSpec == Init /\ [][GuideNext]_vars

\* Payrolls never pay change to one address twice.
ChangeAddressesFresh ==
  \A s, t \in built : s # t /\ s.chg # None => s.chg # t.chg

\* Whatever is pending and not yet recorded can be: Save UTXO State is refused
\* neither because the input is gone nor because the change is in the way.
PendingCanBeCommitted ==
  pendingSpent # None /\ ~HasStatus(utxos, pendingSpent, "spent") =>
    /\ CanMarkSpent(utxos, pendingSpent)
    /\ pendingChange # None => CanAppendFresh(utxos, PendingOutput)

\* The pending change is the change of the pending payroll: neither missed because
\* the index on the screen moved on, nor taken at another index.
PendingChangeIsPayrolls ==
  pendingSpent # None /\ ~HasStatus(utxos, pendingSpent, "spent") =>
    \A t \in built : t.spend = pendingSpent =>
      pendingChange = IF t.chg = None THEN None ELSE [op |-> t.id, idx |-> t.chg]
===============================================================================
