------------------------------- MODULE UtxoFile -------------------------------
(***************************************************************************)
(* utxos.toml: the coordinator's record of the treasury's outputs, and the *)
(* operations src/bin/gui.rs performs on it between a load and a save.     *)
(*                                                                         *)
(* The file is a sequence of records, in the order of the TOML array.  An  *)
(* outpoint (txid:vout) is one value: a payroll pays the treasury through  *)
(* at most one output and every deposit is named apart, so the txid of a   *)
(* payroll stands for its change output too.  Amounts and labels are left  *)
(* out.  "how" is bookkeeping: the handler that wrote the record ("added"  *)
(* by Add UTXO, "scanned" by a funding scan, "change" by Save UTXO State). *)
(* No operation reads it.                                                  *)
(***************************************************************************)
EXTENDS Naturals, Sequences, FiniteSets, SequencesExt

Chains == {"receive", "change"}
Statuses == {"available", "spent"}
Handlers == {"added", "scanned", "change"}

\* The records of outpoints O at derivation indices I (struct TreasuryUtxo).
FileRecord(O, I) ==
  [op : O, chain : Chains, idx : I, status : Statuses, how : Handlers]

\* The record of output u, as the handler `how` writes it.
NewRecord(u, how) ==
  [op |-> u.op, chain |-> u.chain, idx |-> u.idx,
   status |-> "available", how |-> how]

\* The record at position i is of outpoint op.
RecordedAt(file, i, op) == file[i].op = op

IsRecorded(file, op) == \E i \in DOMAIN file : RecordedAt(file, i, op)

HasStatus(file, op, status) ==
  \E i \in DOMAIN file : RecordedAt(file, i, op) /\ file[i].status = status

UniqueOutpoints(file) ==
  \A i, j \in DOMAIN file : file[i].op = file[j].op => i = j

\* The records the Available table shows: Select and Remove take one of them.
AvailableIndices(file) == {i \in DOMAIN file : file[i].status = "available"}

-------------------------------------------------------------------------------
(* append_fresh_utxo: refuses a recorded outpoint, and an address (chain   *)
(* and derivation index) some record already uses.                         *)

SharesAddress(r, u) == r.chain = u.chain /\ r.idx = u.idx

\* Mutant: the address is not checked.
CanAppendAnyAddress(file, u) == ~IsRecorded(file, u.op)

CanAppendFresh(file, u) ==
  /\ ~IsRecorded(file, u.op)
  /\ \A i \in DOMAIN file : ~SharesAddress(file[i], u)

AppendFresh(file, u, how) == Append(file, NewRecord(u, how))

(* append_scanned_utxo for every finding of a scan: an outpoint already    *)
(* recorded is skipped, the others are appended in the order the node      *)
(* listed them, whatever address they use.                                 *)

\* Mutant: recorded outpoints are not skipped.
EveryFinding(file, found) == found

Unrecorded(file, found) == {u \in found : ~IsRecorded(file, u.op)}

AppendScanned(file, listed) ==
  file \o [k \in DOMAIN listed |-> NewRecord(listed[k], "scanned")]

ScanResults(file, found) ==
  {AppendScanned(file, listed) : listed \in SetToSeqs(Unrecorded(file, found))}

(* mark_utxo_spent: the first record of the outpoint, which must be        *)
(* available.                                                              *)

IsFirstRecordOf(file, i, op) ==
  /\ RecordedAt(file, i, op)
  /\ \A j \in 1..(i - 1) : ~RecordedAt(file, j, op)

CanMarkSpent(file, op) ==
  \E i \in AvailableIndices(file) : IsFirstRecordOf(file, i, op)

\* Mutant: the spent record is dropped.
DropSpent(file, op) == SelectSeq(file, LAMBDA r : r.op # op)

MarkSpent(file, op) ==
  [i \in DOMAIN file |->
     IF IsFirstRecordOf(file, i, op)
       THEN [file[i] EXCEPT !.status = "spent"]
       ELSE file[i]]

-------------------------------------------------------------------------------
(* finalized_tx_already_processed: the transaction's input is recorded as  *)
(* spent, or the file holds any output of the transaction.                 *)
AlreadyProcessed(file, t) ==
  HasStatus(file, t.spend, "spent") \/ IsRecorded(file, t.id)

(* scan_floor: the lowest index of an available record on the chain, or 0. *)
ScanFloor(file, chain) ==
  LET unspent == {file[i].idx : i \in {j \in AvailableIndices(file) :
                                          file[j].chain = chain}}
  IN  IF unspent = {} THEN 0 ELSE Min(unspent)
===============================================================================
