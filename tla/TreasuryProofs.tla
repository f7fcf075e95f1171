------------------------------ MODULE TreasuryProofs ------------------------------
(***************************************************************************)
(* The safety of the coordinator for every set of deposits and payrolls,   *)
(* every index bound and every sequence of handlers, crashes included.     *)
(*                                                                         *)
(* CoreInv /\ FinalInv is the checked invariants and three facts they need: *)
(* a txid names one payroll, a scan answers with at most one output per    *)
(* outpoint, and the pending spent outpoint has a final transaction.       *)
(*                                                                         *)
(* The second half is about TreasuryGuide, the coordinator used one        *)
(* payroll at a time.                                                      *)
(***************************************************************************)
EXTENDS TreasuryGuide, UtxoFileProofs

\* A txid is used by one Build.
BuiltIdsUnique == \A s, t \in built : s.id = t.id => s = t

\* The answer of the node holds an outpoint once.
ScanFoundDistinct == \A u, v \in scanFound : u.op = v.op => u = v

\* What is pending to be retired is spent by a final transaction.
PendingHasFinalTx ==
  pendingSpent # None => \E t \in finalized : t.spend = pendingSpent

CoreInv ==
  /\ TypeOK
  /\ BuiltIdsUnique
  /\ ScanFoundDistinct
  /\ OutpointsUnique

FinalInv ==
  /\ PendingHasFinalTx
  /\ PendingIsOnePayroll
  /\ SpentHasFinalTx
  /\ SavedChangeRetiredItsInput

-------------------------------------------------------------------------------
(* Types of the expressions the actions assign.                            *)

\* Derivation indices are naturals, and the next index saturates inside the range.
LEMMA IndexFacts ==
  /\ 0 \in Index
  /\ \A i \in Index : NextIndex(i) \in Index
  /\ Index \subseteq Nat
  BY ConstantsAssumption DEF Index, NextIndex

\* Every deposit and every payroll names an outpoint; an empty field names none.
LEMMA OutpointFacts ==
  /\ Deposits \subseteq Outpoints /\ Payrolls \subseteq Outpoints
  /\ IsFiniteSet(Outpoints) /\ None \notin Outpoints /\ None \notin Index
  BY ConstantsAssumption DEF Outpoints

\* Deposits and the change of payrolls are outputs, one per outpoint.
LEMMA UnspentFacts ==
  ASSUME TypeOK, BuiltIdsUnique
  PROVE  /\ TreasuryOutputs \subseteq Output
         /\ Unspent \subseteq TreasuryOutputs
         /\ \A u, v \in TreasuryOutputs : u.op = v.op => u = v
<1>1. \A u \in DepositOutputs : /\ u \in Output
                                /\ u.op \in Deposits
                                /\ u.chain = "receive"
                                /\ u.idx = DepositIndex[u.op]
  BY ConstantsAssumption, OutpointFacts DEF DepositOutputs, Output, Chains
<1>2. mined \subseteq built /\ built \subseteq Payroll
  BY DEF TypeOK
<1>3. \A u \in ChangeOutputs(mined) :
        \E t \in built : /\ u = ChangeOutput(t)
                         /\ u \in Output
                         /\ u.op = t.id
                         /\ u.op \in Payrolls
  BY <1>2, OutpointFacts DEF ChangeOutputs, ChangeOutput, Output, Payroll, Chains
<1>4. \A u, v \in DepositOutputs : u.op = v.op => u = v
  BY DEF DepositOutputs
<1>5. \A u, v \in ChangeOutputs(mined) : u.op = v.op => u = v
  BY <1>3 DEF BuiltIdsUnique
<1>6. \A u \in DepositOutputs, v \in ChangeOutputs(mined) : u.op # v.op
  BY <1>1, <1>3, ConstantsAssumption
<1>7. \A u, v \in TreasuryOutputs : u.op = v.op => u = v
  BY <1>4, <1>5, <1>6 DEF TreasuryOutputs
<1> QED BY <1>1, <1>3, <1>7 DEF TreasuryOutputs, Unspent

\* Whatever Finalize or Load Final Tx leaves pending is an outpoint and a change of a
\* payroll, or nothing.
LEMMA PendingTyped ==
  ASSUME TypeOK, NEW t \in built, ApplyFinalizedTxState(t)
  PROVE  /\ pendingSpent' \in Outpoints \cup {None}
         /\ pendingChange' \in PendingChange \cup {None}
<1>1. t \in Payroll /\ uiIndex \in Index
  BY DEF TypeOK
<1>2. RecognisedChange(t) \in PendingChange \cup {None}
  BY <1>1 DEF RecognisedChange, PendingChange, Payroll
<1> QED BY <1>1, <1>2 DEF ApplyFinalizedTxState, Payroll

\* The index Save UTXO State puts on the screen and in wallet.toml is an index.
LEMMA CommittedIndexTyped ==
  ASSUME TypeOK
  PROVE  CommittedIndex \in Index
  BY IndexFacts DEF TypeOK, CommittedIndex, PendingChange

\* A record of utxos.toml fills the prevout fields with an output.
LEMMA RecordTyped ==
  ASSUME TypeOK, NEW i \in DOMAIN utxos
  PROVE  /\ utxos[i] \in Record
         /\ utxos[i].op \in Outpoints
         /\ utxos[i].status \in Statuses
         /\ [op |-> utxos[i].op, chain |-> utxos[i].chain, idx |-> utxos[i].idx] \in Output
<1>1. utxos[i] \in Record
  BY DEF TypeOK
<1> QED BY <1>1 DEF Record, FileRecord, Output

-------------------------------------------------------------------------------
(* What a step may do to utxos.toml.                                       *)

\* The commit half of Save UTXO State marks the pending outpoint and may append the
\* pending change.
LEMMA CommitFacts ==
  ASSUME TypeOK, CommitPending
  PROVE  LET retired == MarkSpent(utxos, pendingSpent)
         IN  /\ pendingSpent \in Outpoints
             /\ retired \in Seq(Record)
             /\ \/ pendingChange = None /\ utxos' = retired
                \/ /\ pendingChange \in PendingChange
                   /\ PendingOutput \in Output
                   /\ CanAppendFresh(retired, PendingOutput)
                   /\ utxos' = AppendFresh(retired, PendingOutput, "change")
                   /\ utxos' \in Seq(Record)
                   /\ Len(utxos') = Len(retired) + 1
                   /\ utxos'[Len(retired) + 1] = NewRecord(PendingOutput, "change")
                   /\ Grows(retired, utxos', "change")
<1> DEFINE retired == MarkSpent(utxos, pendingSpent)
<1>1. pendingSpent \in Outpoints
  BY DEF TypeOK, CommitPending
<1>2. retired \in Seq(Record)
  BY MarkSpentRecords DEF TypeOK, Record
<1> HIDE DEF retired
<1>3. CASE pendingChange = None
  BY <1>1, <1>2, <1>3 DEF CommitPending, retired
<1>4. CASE pendingChange # None
  <2>1. pendingChange \in PendingChange
    BY <1>4 DEF TypeOK
  <2>2. PendingOutput \in Output
    BY <2>1, OutpointFacts DEF PendingOutput, PendingChange, Output, Chains
  <2>3. /\ CanAppendFresh(retired, PendingOutput)
        /\ utxos' = AppendFresh(retired, PendingOutput, "change")
    BY <1>4 DEF CommitPending, retired
  <2>4. /\ utxos' \in Seq(Record)
        /\ Len(utxos') = Len(retired) + 1
        /\ utxos'[Len(retired) + 1] = NewRecord(PendingOutput, "change")
        /\ Grows(retired, utxos', "change")
    <3>1. ~IsRecorded(retired, PendingOutput.op) /\ "change" \in Handlers
      BY <2>3 DEF CanAppendFresh, Handlers
    <3> QED BY <1>2, <2>2, <2>3, <3>1, AppendFreshGrows DEF Record, Output
  <2> QED BY <1>1, <1>2, <2>1, <2>2, <2>3, <2>4 DEF retired
<1> QED BY <1>3, <1>4

\* Save UTXO State writes a file of records.
LEMMA CommitTyped ==
  ASSUME TypeOK, CommitPending
  PROVE  utxos' \in Seq(Record)
  BY CommitFacts

\* Add UTXO writes a file of records, the old one followed by one more.
LEMMA AddGrows ==
  ASSUME TypeOK, AddUtxo
  PROVE  utxos' \in Seq(Record) /\ Grows(utxos, utxos', "added")
<1>1. prevout \in Output /\ ~IsRecorded(utxos, prevout.op) /\ "added" \in Handlers
  BY DEF TypeOK, AddUtxo, CanAppendFresh, Handlers
<1> QED BY <1>1, AppendFreshGrows DEF TypeOK, AddUtxo, Record, Output

\* A finished scan writes a file of records, the old one followed by its findings.
LEMMA ScanGrows ==
  ASSUME TypeOK, ScanFoundDistinct, FinishScan
  PROVE  utxos' \in Seq(Record) /\ Grows(utxos, utxos', "scanned")
  BY OutpointFacts, ScanResultsGrow DEF TypeOK, FinishScan, ScanFoundDistinct, Record, Output

\* Remove UTXO writes a file of records.
LEMMA RemoveTyped ==
  ASSUME TypeOK, NEW k \in DOMAIN utxos, RemoveUtxo(k)
  PROVE  utxos' \in Seq(Record)
  BY RemoveAtRecords DEF TypeOK, RemoveUtxo

-------------------------------------------------------------------------------
(* Type correctness, with the two facts about txids it needs.              *)

\* The first state has its types and no txid or outpoint twice.
LEMMA InitCore == Init => CoreInv
<1> SUFFICES ASSUME Init PROVE CoreInv
  OBVIOUS
<1>1. utxos = <<>> /\ utxos \in Seq(Record) /\ DOMAIN utxos = {}
  BY DEF Init
<1>2. TypeOK
  BY <1>1, IndexFacts DEF Init, TypeOK, NoRange
<1> QED BY <1>1, <1>2
        DEF Init, CoreInv, BuiltIdsUnique, ScanFoundDistinct, OutpointsUnique,
            UniqueOutpoints

\* Every handler, the scan thread and the node keep the types, use a txid for one
\* payroll and answer a scan with distinct outpoints.
LEMMA NextTyped ==
  ASSUME TypeOK, BuiltIdsUnique, ScanFoundDistinct, [Next]_vars
  PROVE  TypeOK' /\ BuiltIdsUnique' /\ ScanFoundDistinct'
<1> USE DEF files, fields, pending, scanning
<1>1. ASSUME NEW u \in TreasuryOutputs, EnterPrevout(u)
      PROVE  TypeOK' /\ BuiltIdsUnique' /\ ScanFoundDistinct'
  BY <1>1, UnspentFacts DEF EnterPrevout, TypeOK, BuiltIdsUnique, ScanFoundDistinct
<1>2. ASSUME NEW i \in DOMAIN utxos, SelectUtxo(i)
      PROVE  TypeOK' /\ BuiltIdsUnique' /\ ScanFoundDistinct'
  BY <1>2, RecordTyped DEF SelectUtxo, TypeOK, BuiltIdsUnique, ScanFoundDistinct
<1>3. ASSUME NEW i \in DOMAIN utxos, RemoveUtxo(i)
      PROVE  TypeOK' /\ BuiltIdsUnique' /\ ScanFoundDistinct'
  <2>1. utxos' \in Seq(Record)
    BY <1>3, RemoveTyped
  <2> QED BY <1>3, <2>1 DEF RemoveUtxo, TypeOK, BuiltIdsUnique, ScanFoundDistinct
<1>4. CASE AddUtxo
  <2>1. utxos' \in Seq(Record)
    BY <1>4, AddGrows
  <2> QED BY <1>4, <2>1 DEF AddUtxo, TypeOK, BuiltIdsUnique, ScanFoundDistinct
<1>5. ASSUME NEW id \in Payrolls, NEW hasChange \in BOOLEAN, Build(id, hasChange)
      PROVE  TypeOK' /\ BuiltIdsUnique' /\ ScanFoundDistinct'
  <2> DEFINE t == [id |-> id, spend |-> prevout.op,
                   chg |-> IF hasChange THEN uiIndex ELSE None]
  <2>1. t \in Payroll /\ t.id = id
    BY <1>5 DEF Build, TypeOK, Output, Payroll
  <2> HIDE DEF t
  <2>2. built' = built \cup {t} /\ \A x \in built : x.id # id
    BY <1>5 DEF Build, t
  <2>3. UNCHANGED <<utxos, walletIndex, finalized, fields, scanning, mined>>
    BY <1>5 DEF Build
  <2>4. TypeOK'
    BY <2>1, <2>2, <2>3 DEF TypeOK
  <2>5. BuiltIdsUnique' /\ ScanFoundDistinct'
    BY <2>1, <2>2, <2>3 DEF BuiltIdsUnique, ScanFoundDistinct
  <2> QED BY <2>4, <2>5
<1>6. ASSUME NEW t \in built, Finalize(t)
      PROVE  TypeOK' /\ BuiltIdsUnique' /\ ScanFoundDistinct'
  BY <1>6, PendingTyped DEF Finalize, TypeOK, BuiltIdsUnique, ScanFoundDistinct
<1>7. ASSUME NEW t \in built, FinalizeFailsLate(t)
      PROVE  TypeOK' /\ BuiltIdsUnique' /\ ScanFoundDistinct'
  <2>1. /\ pendingSpent' \in Outpoints \cup {None}
        /\ pendingChange' \in PendingChange \cup {None}
    BY <1>7, PendingTyped DEF FinalizeFailsLate, TypeOK
  <2>2. hexTx' \in finalized' \cup {None}
    BY <1>7 DEF FinalizeFailsLate, TypeOK
  <2> QED BY <1>7, <2>1, <2>2
          DEF FinalizeFailsLate, TypeOK, BuiltIdsUnique, ScanFoundDistinct
<1>8. ASSUME NEW t \in built, LoadFinalTxHex(t)
      PROVE  TypeOK' /\ BuiltIdsUnique' /\ ScanFoundDistinct'
  <2>1. /\ pendingSpent' \in Outpoints \cup {None}
        /\ pendingChange' \in PendingChange \cup {None}
    BY <1>8, PendingTyped DEF LoadFinalTxHex, TypeOK
  <2> QED BY <1>8, <2>1 DEF LoadFinalTxHex, TypeOK, BuiltIdsUnique, ScanFoundDistinct
<1>9. ASSUME NEW i \in IndexEdits, EditPendingChange(i)
      PROVE  TypeOK' /\ BuiltIdsUnique' /\ ScanFoundDistinct'
  <2>1. i \in Index /\ pendingChange \in PendingChange
    BY <1>9, ConstantsAssumption DEF EditPendingChange, TypeOK
  <2>2. pendingChange' \in PendingChange
    BY <1>9, <2>1 DEF EditPendingChange, PendingChange
  <2> QED BY <1>9, <2>2
          DEF EditPendingChange, TypeOK, BuiltIdsUnique, ScanFoundDistinct
<1>10. CASE SaveUtxoState
  <2>1. utxos' \in Seq(Record) /\ CommittedIndex \in Index
    BY <1>10, CommitTyped, CommittedIndexTyped DEF SaveUtxoState
  <2> QED BY <1>10, <2>1 DEF SaveUtxoState, TypeOK, BuiltIdsUnique, ScanFoundDistinct
<1>11. CASE SaveUtxoStateWalletFails
  <2>1. utxos' \in Seq(Record) /\ CommittedIndex \in Index
    BY <1>11, CommitTyped, CommittedIndexTyped DEF SaveUtxoStateWalletFails
  <2> QED BY <1>11, <2>1
          DEF SaveUtxoStateWalletFails, TypeOK, BuiltIdsUnique, ScanFoundDistinct
<1>12. CASE SaveUtxoStateCrashes
  <2>1. utxos' \in Seq(Record)
    BY <1>12, CommitTyped DEF SaveUtxoStateCrashes
  <2> QED BY <1>12, <2>1, IndexFacts
          DEF SaveUtxoStateCrashes, FreshScreen, NoRange, TypeOK, BuiltIdsUnique,
              ScanFoundDistinct
<1>13. ASSUME NEW i \in IndexEdits, EditChangeIndex(i)
       PROVE  TypeOK' /\ BuiltIdsUnique' /\ ScanFoundDistinct'
  BY <1>13, ConstantsAssumption
     DEF EditChangeIndex, TypeOK, BuiltIdsUnique, ScanFoundDistinct
<1>14. CASE SaveWallet
  BY <1>14 DEF SaveWallet, TypeOK, BuiltIdsUnique, ScanFoundDistinct
<1>15. CASE Restart
  BY <1>15, IndexFacts
     DEF Restart, FreshScreen, NoRange, TypeOK, BuiltIdsUnique, ScanFoundDistinct
<1>16. CASE Broadcast
  BY <1>16 DEF Broadcast, TypeOK, BuiltIdsUnique, ScanFoundDistinct
<1>17. CASE StartScan
  <2>1. scanRange' \in [Chains -> SUBSET Index]
    <3>1. ScanMaxIndex \in Index
      BY ConstantsAssumption DEF ScanMaxIndex, Index, TypeOK
    <3>2. \A c \in Chains : ScanFloor(utxos, c) \in Nat
      BY IndexFacts, ScanFloorBounds DEF TypeOK, Record
    <3>3. \A c \in Chains :
            (IF ScanFloor(utxos, c) > ScanMaxIndex THEN ScanMaxIndex
             ELSE ScanFloor(utxos, c))..ScanMaxIndex \subseteq Index
      BY <3>1, <3>2, ConstantsAssumption DEF Index
    <3> QED BY <1>17, <3>3 DEF StartScan
  <2> QED BY <1>17, <2>1 DEF StartScan, TypeOK, BuiltIdsUnique, ScanFoundDistinct
<1>18. CASE NodeAnswersScan
  BY <1>18, UnspentFacts
     DEF NodeAnswersScan, NoRange, TypeOK, BuiltIdsUnique, ScanFoundDistinct
<1>19. CASE FinishScan
  <2>1. utxos' \in Seq(Record)
    BY <1>19, ScanGrows
  <2> QED BY <1>19, <2>1
          DEF FinishScan, ScanIsOver, NoRange, TypeOK, BuiltIdsUnique, ScanFoundDistinct
<1>20. CASE ScanFails
  BY <1>20 DEF ScanFails, ScanIsOver, NoRange, TypeOK, BuiltIdsUnique, ScanFoundDistinct
<1>21. CASE UNCHANGED vars
  BY <1>21 DEF vars, TypeOK, BuiltIdsUnique, ScanFoundDistinct
<1> QED
  BY <1>1, <1>2, <1>3, <1>4, <1>5, <1>6, <1>7, <1>8, <1>9, <1>10, <1>11, <1>12,
     <1>13, <1>14, <1>15, <1>16, <1>17, <1>18, <1>19, <1>20, <1>21
     DEF Next, UtxoHandlers, PayrollHandlers, WalletHandlers, NodeSteps

\* The steps that write utxos.toml.
LEMMA FileSteps ==
  ASSUME [Next]_vars
  PROVE  \/ UNCHANGED utxos
         \/ \E k \in DOMAIN utxos : RemoveUtxo(k)
         \/ AddUtxo
         \/ FinishScan
         \/ CommitPending
<1> USE DEF files, fields, pending, scanning
<1>1. UtxoHandlers => \/ UNCHANGED utxos
                      \/ \E k \in DOMAIN utxos : RemoveUtxo(k)
                      \/ AddUtxo
  BY DEF UtxoHandlers, EnterPrevout, SelectUtxo
<1>2. PayrollHandlers => UNCHANGED utxos \/ CommitPending
  BY DEF PayrollHandlers, Build, Finalize, FinalizeFailsLate, LoadFinalTxHex,
         EditPendingChange, SaveUtxoState, SaveUtxoStateWalletFails,
         SaveUtxoStateCrashes
<1>3. WalletHandlers => UNCHANGED utxos
  BY DEF WalletHandlers, EditChangeIndex, SaveWallet, Restart
<1>4. NodeSteps => UNCHANGED utxos \/ FinishScan
  BY DEF NodeSteps, Broadcast, StartScan, NodeAnswersScan, ScanFails
<1>5. UNCHANGED vars => UNCHANGED utxos
  BY DEF vars
<1> QED BY <1>1, <1>2, <1>3, <1>4, <1>5 DEF Next

\* The invariant that types need: no step records an outpoint twice.
LEMMA CoreStep ==
  ASSUME CoreInv, [Next]_vars
  PROVE  CoreInv'
<1>1. TypeOK' /\ BuiltIdsUnique' /\ ScanFoundDistinct'
  BY NextTyped DEF CoreInv
<1>2. /\ TypeOK /\ ScanFoundDistinct /\ UniqueOutpoints(utxos)
      /\ utxos \in Seq(Record) /\ utxos' \in Seq(Record)
  BY <1>1 DEF CoreInv, TypeOK, OutpointsUnique
<1>3. UniqueOutpoints(utxos')
  <2>1. CASE UNCHANGED utxos
    BY <1>2, <2>1
  <2>2. ASSUME NEW k \in DOMAIN utxos, RemoveUtxo(k)
        PROVE  UniqueOutpoints(utxos')
    BY <1>2, <2>2, RemoveAtUnique DEF RemoveUtxo
  <2>3. CASE AddUtxo
    BY <1>2, <2>3, AddGrows, GrowsUnique
  <2>4. CASE FinishScan
    BY <1>2, <2>4, ScanGrows, GrowsUnique
  <2>5. CASE CommitPending
    <3> DEFINE retired == MarkSpent(utxos, pendingSpent)
    <3>1. UniqueOutpoints(retired)
      BY <1>2, MarkSpentUnique DEF Record
    <3>2. /\ retired \in Seq(Record)
          /\ utxos' = retired \/ Grows(retired, utxos', "change")
      BY <1>2, <2>5, CommitFacts
    <3> HIDE DEF retired
    <3> QED BY <1>2, <3>1, <3>2, GrowsUnique
  <2> QED BY <2>1, <2>2, <2>3, <2>4, <2>5, FileSteps
<1> QED BY <1>1, <1>3 DEF CoreInv, OutpointsUnique

\* Every reachable state has its types, its txids and its outpoints in order.
THEOREM CoreInvariant == Spec => []CoreInv
<1>1. CoreInv /\ [Next]_vars => CoreInv'
  BY CoreStep
<1> QED BY InitCore, <1>1, PTL DEF Spec

\* Every field and file of the coordinator keeps its type, however many deposits and
\* payrolls there are and wherever the derivation indices saturate.
THEOREM TypeCorrect == Spec => []TypeOK
<1>1. CoreInv => TypeOK
  BY DEF CoreInv
<1> QED BY CoreInvariant, <1>1, PTL

\* utxos.toml never holds an outpoint twice: append_fresh_utxo and
\* append_scanned_utxo check the file they append to, and nothing else adds records.
THEOREM OutpointsStayUnique == Spec => []OutpointsUnique
<1>1. CoreInv => OutpointsUnique
  BY DEF CoreInv
<1> QED BY CoreInvariant, <1>1, PTL

-------------------------------------------------------------------------------
(* What is spent stays spent.                                              *)

\* No step drops the spent mark of an outpoint: Remove takes available records only,
\* and what a scan or Save UTXO State appends comes after what was there.
LEMMA SpentStays ==
  ASSUME CoreInv, [Next]_vars, NEW op, HasStatus(utxos, op, "spent")
  PROVE  HasStatus(utxos', op, "spent")
<1>1. /\ TypeOK /\ ScanFoundDistinct
      /\ utxos \in Seq(Record) /\ utxos' \in Seq(Record)
  BY CoreStep DEF CoreInv, TypeOK
<1>2. PICK s \in DOMAIN utxos : utxos[s].op = op /\ utxos[s].status = "spent"
  BY DEF HasStatus, RecordedAt
<1>3. ASSUME NEW file \in Seq(Record), NEW how, Grows(file, utxos', how),
             s \in DOMAIN file, file[s].op = op, file[s].status = "spent"
      PROVE  HasStatus(utxos', op, "spent")
  BY <1>1, <1>3, GrowsRecords DEF HasStatus, RecordedAt
<1>4. CASE UNCHANGED utxos
  BY <1>4
<1>5. ASSUME NEW k \in DOMAIN utxos, RemoveUtxo(k)
      PROVE  HasStatus(utxos', op, "spent")
  <2>1. s # k /\ utxos' = RemoveAt(utxos, k)
    BY <1>2, <1>5 DEF RemoveUtxo, AvailableIndices
  <2>2. \E i \in DOMAIN utxos' : utxos'[i] = utxos[s]
    BY <1>1, <2>1, RemoveAtRecords
  <2> QED BY <1>2, <2>2 DEF HasStatus, RecordedAt
<1>6. CASE AddUtxo
  BY <1>1, <1>2, <1>3, <1>6, AddGrows
<1>7. CASE FinishScan
  BY <1>1, <1>2, <1>3, <1>7, ScanGrows
<1>8. CASE CommitPending
  <2> DEFINE retired == MarkSpent(utxos, pendingSpent)
  <2>1. /\ retired \in Seq(Record)
        /\ s \in DOMAIN retired
        /\ retired[s].op = op
        /\ retired[s].status = "spent"
    BY <1>1, <1>2, MarkSpentRecords DEF Record
  <2>2. utxos' = retired \/ Grows(retired, utxos', "change")
    BY <1>1, <1>8, CommitFacts
  <2> HIDE DEF retired
  <2> QED BY <1>3, <2>1, <2>2 DEF HasStatus, RecordedAt
<1> QED BY <1>4, <1>5, <1>6, <1>7, <1>8, FileSteps

\* A record marked spent stays in utxos.toml, marked spent: no order of handlers,
\* scans and restarts makes the coordinator offer a spent output again.
THEOREM SpentIsForever == Spec => SpentForever
<1>1. CoreInv /\ [Next]_vars =>
        [\A op \in Outpoints :
           HasStatus(utxos, op, "spent") => HasStatus(utxos', op, "spent")]_utxos
  BY SpentStays
<1> QED BY CoreInvariant, <1>1, PTL DEF Spec, SpentForever

-------------------------------------------------------------------------------
(* Pending state and the records it commits.                               *)

\* Where a record of the next file comes from: it was there, Add or a scan wrote it,
\* or the commit retired it or recorded it as the pending change.
LEMMA RecordOrigins ==
  ASSUME CoreInv, [Next]_vars, NEW i \in DOMAIN utxos'
  PROVE  \/ \E p \in DOMAIN utxos : utxos'[i] = utxos[p]
         \/ /\ utxos'[i].status = "available"
            /\ utxos'[i].how \in {"added", "scanned"}
         \/ /\ CommitPending
            /\ \E p \in DOMAIN utxos :
                 /\ utxos'[i].op = utxos[p].op
                 /\ utxos'[i].how = utxos[p].how
                 /\ utxos[p].status # utxos'[i].status => utxos[p].op = pendingSpent
         \/ /\ CommitPending
            /\ pendingChange # None
            /\ utxos'[i].status = "available"
            /\ utxos'[i].op = pendingChange.op
<1>1. /\ TypeOK /\ ScanFoundDistinct
      /\ utxos \in Seq(Record) /\ utxos' \in Seq(Record)
  BY CoreStep DEF CoreInv, TypeOK
<1>2. CASE UNCHANGED utxos
  BY <1>2
<1>3. ASSUME NEW k \in DOMAIN utxos, RemoveUtxo(k)
      PROVE  \E p \in DOMAIN utxos : utxos'[i] = utxos[p]
  BY <1>1, <1>3, RemoveAtRecords DEF RemoveUtxo
<1>4. CASE AddUtxo
  BY <1>1, <1>4, AddGrows, GrowsRecords
<1>5. CASE FinishScan
  BY <1>1, <1>5, ScanGrows, GrowsRecords
<1>6. CASE CommitPending
  <2> DEFINE retired == MarkSpent(utxos, pendingSpent)
  <2>1. /\ retired \in Seq(Record)
        /\ DOMAIN retired = DOMAIN utxos
        /\ \A p \in DOMAIN retired :
             /\ retired[p].op = utxos[p].op
             /\ retired[p].how = utxos[p].how
             /\ utxos[p].status # retired[p].status => utxos[p].op = pendingSpent
    BY <1>1, MarkSpentRecords DEF Record, IsFirstRecordOf, RecordedAt
  <2>2. CASE utxos' = retired
    BY <1>6, <2>1, <2>2
  <2>3. CASE /\ pendingChange # None
             /\ utxos' = AppendFresh(retired, PendingOutput, "change")
    <3> HIDE DEF retired
    <3>1. \/ i \in DOMAIN retired /\ utxos'[i] = retired[i]
          \/ utxos'[i] = NewRecord(PendingOutput, "change")
      BY <2>1, <2>3 DEF AppendFresh
    <3> QED BY <1>6, <2>1, <2>3, <3>1 DEF NewRecord, PendingOutput
  <2> QED BY <1>6, <2>2, <2>3 DEF CommitPending
<1> QED BY <1>2, <1>3, <1>4, <1>5, <1>6, FileSteps

\* After a commit the pending outpoint is marked spent.
LEMMA CommitRetires ==
  ASSUME CoreInv, [Next]_vars, CommitPending
  PROVE  HasStatus(utxos', pendingSpent, "spent")
<1> DEFINE retired == MarkSpent(utxos, pendingSpent)
<1>1. TypeOK /\ utxos \in Seq(Record) /\ utxos' \in Seq(Record)
  BY CoreStep DEF CoreInv, TypeOK
<1>2. PICK s \in DOMAIN utxos : IsFirstRecordOf(utxos, s, pendingSpent)
  BY DEF CommitPending, CanMarkSpent, AvailableIndices
<1>3. /\ s \in DOMAIN retired
      /\ retired[s].op = pendingSpent
      /\ retired[s].status = "spent"
  BY <1>1, <1>2, MarkSpentRecords DEF Record, IsFirstRecordOf, RecordedAt
<1>4. /\ retired \in Seq(Record)
      /\ utxos' = retired \/ Grows(retired, utxos', "change")
  BY <1>1, CommitFacts
<1> HIDE DEF retired
<1>5. s \in DOMAIN utxos' /\ utxos'[s] = retired[s]
  BY <1>1, <1>3, <1>4, GrowsRecords
<1> QED BY <1>3, <1>5 DEF HasStatus, RecordedAt

\* What a step does to the pending state and the final transactions.
LEMMA PendingSteps ==
  ASSUME [Next]_vars
  PROVE  /\ finalized \subseteq finalized'
         /\ \/ UNCHANGED pending
            \/ pendingSpent' = None /\ pendingChange' = None
            \/ /\ UNCHANGED pendingSpent
               /\ pendingChange # None
               /\ pendingChange'.op = pendingChange.op
            \/ \E t \in finalized' : ApplyFinalizedTxState(t)
<1> USE DEF files, fields, pending, scanning
<1>1. CASE UtxoHandlers
  BY <1>1 DEF UtxoHandlers, EnterPrevout, SelectUtxo, AddUtxo, RemoveUtxo
<1>2. ASSUME NEW t \in built, Finalize(t) \/ FinalizeFailsLate(t) \/ LoadFinalTxHex(t)
      PROVE  /\ finalized \subseteq finalized'
             /\ UNCHANGED pending \/ \E x \in finalized' : ApplyFinalizedTxState(x)
  <2>1. finalized \subseteq finalized' /\ t \in finalized'
    BY <1>2 DEF Finalize, FinalizeFailsLate, LoadFinalTxHex
  <2> QED BY <1>2, <2>1 DEF Finalize, FinalizeFailsLate, LoadFinalTxHex
<1>3. ASSUME NEW i \in IndexEdits, EditPendingChange(i)
      PROVE  /\ finalized \subseteq finalized'
             /\ UNCHANGED pendingSpent
             /\ pendingChange # None
             /\ \/ pendingChange'.op = pendingChange.op
                \/ UNCHANGED pendingChange
  <2>1. pendingChange' = [pendingChange EXCEPT !.idx = i]
    BY <1>3 DEF EditPendingChange
  <2>2. pendingChange'.op = pendingChange.op \/ UNCHANGED pendingChange
    BY <2>1
  <2> QED BY <1>3, <2>2 DEF EditPendingChange
<1>4. CASE SaveUtxoState \/ SaveUtxoStateWalletFails \/ SaveUtxoStateCrashes
  BY <1>4 DEF SaveUtxoState, SaveUtxoStateWalletFails, SaveUtxoStateCrashes, FreshScreen
<1>5. ASSUME NEW id \in Payrolls, NEW hasChange \in BOOLEAN, Build(id, hasChange)
      PROVE  finalized \subseteq finalized' /\ UNCHANGED pending
  BY <1>5 DEF Build
<1>6. CASE WalletHandlers
  BY <1>6 DEF WalletHandlers, EditChangeIndex, SaveWallet, Restart,
              FreshScreen
<1>7. CASE NodeSteps
  BY <1>7 DEF NodeSteps, Broadcast, StartScan, NodeAnswersScan, FinishScan, ScanFails
<1>8. CASE UNCHANGED vars
  BY <1>8 DEF vars
<1>9. PayrollHandlers =>
        \/ \E id \in Payrolls, hasChange \in BOOLEAN : Build(id, hasChange)
        \/ \E t \in built : Finalize(t) \/ FinalizeFailsLate(t) \/ LoadFinalTxHex(t)
        \/ \E i \in IndexEdits : EditPendingChange(i)
        \/ SaveUtxoState \/ SaveUtxoStateWalletFails \/ SaveUtxoStateCrashes
  BY DEF PayrollHandlers
<1> QED BY <1>1, <1>2, <1>3, <1>4, <1>5, <1>6, <1>7, <1>8, <1>9 DEF Next

\* The fields start empty and the file without records.
LEMMA InitFinal == Init => FinalInv
<1> SUFFICES ASSUME Init PROVE FinalInv
  OBVIOUS
<1>1. utxos = <<>> /\ DOMAIN utxos = {} /\ pendingSpent = None /\ pendingChange = None
  BY DEF Init
<1> QED BY <1>1 DEF FinalInv, PendingHasFinalTx, PendingIsOnePayroll, SpentHasFinalTx,
                    SavedChangeRetiredItsInput

\* The pending fields are filled together, from one final transaction.
LEMMA PendingStep ==
  ASSUME CoreInv, FinalInv, [Next]_vars
  PROVE  PendingHasFinalTx' /\ PendingIsOnePayroll'
<1>1. PendingHasFinalTx /\ PendingIsOnePayroll /\ finalized \subseteq finalized'
  BY PendingSteps DEF FinalInv
<1>2. CASE UNCHANGED pending
  BY <1>1, <1>2 DEF pending, PendingHasFinalTx, PendingIsOnePayroll
<1>3. CASE pendingSpent' = None /\ pendingChange' = None
  BY <1>3 DEF PendingHasFinalTx, PendingIsOnePayroll
<1>4. CASE UNCHANGED pendingSpent /\ pendingChange # None /\ pendingChange'.op = pendingChange.op
  BY <1>1, <1>4 DEF PendingHasFinalTx, PendingIsOnePayroll
<1>5. ASSUME NEW t \in finalized', ApplyFinalizedTxState(t)
      PROVE  PendingHasFinalTx' /\ PendingIsOnePayroll'
  <2>1. CASE pendingSpent' = None /\ pendingChange' = None
    BY <1>3, <2>1
  <2>2. CASE pendingSpent' = t.spend /\ pendingChange' = RecognisedChange(t)
    <3>1. pendingChange' # None => pendingChange'.op = t.id
      BY <2>2 DEF RecognisedChange
    <3> QED BY <1>5, <2>2, <3>1 DEF PendingHasFinalTx, PendingIsOnePayroll
  <2> QED BY <1>5, <2>1, <2>2 DEF ApplyFinalizedTxState
<1> QED BY <1>2, <1>3, <1>4, <1>5, PendingSteps

\* The records a step leaves are accounted for by final transactions.
LEMMA FinalStep ==
  ASSUME CoreInv, FinalInv, [Next]_vars
  PROVE  FinalInv'
<1>1. /\ PendingHasFinalTx /\ PendingIsOnePayroll
      /\ SpentHasFinalTx /\ SavedChangeRetiredItsInput
      /\ finalized \subseteq finalized'
  BY PendingSteps DEF FinalInv
<1>2. SpentHasFinalTx'
  <2> SUFFICES ASSUME NEW i \in DOMAIN utxos', utxos'[i].status = "spent"
               PROVE  \E t \in finalized' : t.spend = utxos'[i].op
    BY DEF SpentHasFinalTx
  <2>1. ASSUME NEW p \in DOMAIN utxos, utxos[p].status = "spent",
               utxos[p].op = utxos'[i].op
        PROVE  \E t \in finalized' : t.spend = utxos'[i].op
    BY <1>1, <2>1 DEF SpentHasFinalTx
  <2>2. CASE CommitPending /\ utxos'[i].op = pendingSpent
    BY <1>1, <2>2 DEF CommitPending, PendingHasFinalTx
  <2> QED BY <2>1, <2>2, RecordOrigins
<1>3. SavedChangeRetiredItsInput'
  <2> SUFFICES ASSUME NEW i \in DOMAIN utxos', utxos'[i].how = "change"
               PROVE  \E t \in finalized' : /\ t.id = utxos'[i].op
                                            /\ HasStatus(utxos', t.spend, "spent")
    BY DEF SavedChangeRetiredItsInput
  <2>1. ASSUME NEW p \in DOMAIN utxos, utxos[p].how = "change",
               utxos[p].op = utxos'[i].op
        PROVE  \E t \in finalized' : /\ t.id = utxos'[i].op
                                     /\ HasStatus(utxos', t.spend, "spent")
    BY <1>1, <2>1, SpentStays DEF SavedChangeRetiredItsInput
  <2>2. CASE CommitPending /\ pendingChange # None /\ utxos'[i].op = pendingChange.op
    BY <1>1, <2>2, CommitRetires DEF PendingIsOnePayroll
  <2> QED BY <2>1, <2>2, RecordOrigins
<1> QED BY <1>2, <1>3, PendingStep DEF FinalInv

\* The two halves hold together from the first state on.
THEOREM FinalInvariant == Spec => [](CoreInv /\ FinalInv)
<1>1. Init => CoreInv /\ FinalInv
  BY InitCore, InitFinal
<1>2. CoreInv /\ FinalInv /\ [Next]_vars => (CoreInv /\ FinalInv)'
  BY CoreStep, FinalStep
<1> QED BY <1>1, <1>2, PTL DEF Spec

\* An outpoint is marked spent only when a final transaction spends it, and then
\* for good: stale pending state, edits, crashes and late scans included.
THEOREM SpentIsJustified == Spec => []SpentHasFinalTx
<1>1. CoreInv /\ FinalInv => SpentHasFinalTx
  BY DEF FinalInv
<1> QED BY FinalInvariant, <1>1, PTL

\* Finalize and Load Final Tx never mix the outpoint of one payroll with the change
\* of another.
THEOREM PendingStaysOnePayroll == Spec => []PendingIsOnePayroll
<1>1. CoreInv /\ FinalInv => PendingIsOnePayroll
  BY DEF FinalInv
<1> QED BY FinalInvariant, <1>1, PTL

\* Save UTXO State is atomic on utxos.toml: no change record without the spent
\* mark on the input of its payroll.
THEOREM SaveIsAtomicOnFile == Spec => []SavedChangeRetiredItsInput
<1>1. CoreInv /\ FinalInv => SavedChangeRetiredItsInput
  BY DEF FinalInv
<1> QED BY FinalInvariant, <1>1, PTL

-------------------------------------------------------------------------------
(* utxos.toml implements the ledger.                                       *)

\* The ledger utxos.toml stands for.
LedgerOf == [op \in Outpoints |-> LedgerPhase(op)]

\* With outpoints unique and records typed, the phase of an outpoint is the status of
\* its record, or absent when it has none.
LEMMA PhaseFacts ==
  ASSUME TypeOK, OutpointsUnique, NEW op
  PROVE  /\ LedgerPhase(op) = "spent" <=> HasStatus(utxos, op, "spent")
         /\ LedgerPhase(op) = "available" <=> HasStatus(utxos, op, "available")
         /\ LedgerPhase(op) = "absent" <=> ~IsRecorded(utxos, op)
         /\ LedgerPhase(op) \in {"absent", "available", "spent"}
<1>1. ~(HasStatus(utxos, op, "spent") /\ HasStatus(utxos, op, "available"))
  BY DEF OutpointsUnique, UniqueOutpoints, HasStatus, RecordedAt
<1>2. IsRecorded(utxos, op) <=>
        HasStatus(utxos, op, "spent") \/ HasStatus(utxos, op, "available")
  BY RecordTyped DEF HasStatus, IsRecorded, Statuses
<1> QED BY <1>1, <1>2 DEF LedgerPhase

\* Growing utxos.toml is receiving the outpoints that are new in it.
LEMMA GrowsReceives ==
  ASSUME CoreInv, CoreInv', NEW how, Grows(utxos, utxos', how)
  PROVE  \/ UNCHANGED LedgerOf
         \/ \E S \in SUBSET Outpoints : Ledger!Receive(S)
<1> DEFINE S == {op \in Outpoints : IsRecorded(utxos', op) /\ ~IsRecorded(utxos, op)}
<1>1. /\ TypeOK /\ OutpointsUnique /\ TypeOK' /\ OutpointsUnique'
      /\ utxos \in Seq(Record) /\ utxos' \in Seq(Record)
  BY DEF CoreInv, TypeOK
<1>2. ASSUME NEW op \in Outpoints
      PROVE  LedgerPhase(op)' = IF op \in S THEN "available" ELSE LedgerPhase(op)
  <2>1. \A status : HasStatus(utxos', op, status) <=>
          HasStatus(utxos, op, status) \/ (status = "available" /\ op \in S)
    BY <1>1, <1>2, GrowsStatus
  <2>2. op \in S => ~HasStatus(utxos, op, "spent")
    BY DEF HasStatus, IsRecorded
  <2> HIDE DEF S
  <2> QED BY <2>1, <2>2 DEF LedgerPhase
<1>3. \A op \in S : LedgerPhase(op) = "absent"
  BY <1>1, PhaseFacts
<1> HIDE DEF S
<1>4. CASE S = {}
  BY <1>2, <1>4 DEF LedgerOf
<1>5. CASE S # {}
  <2>1. Ledger!Absent(S)
    BY <1>3, Zenon DEF Ledger!Absent, S
  <2>2. LedgerOf' = [op \in Outpoints |-> IF op \in S THEN "available" ELSE LedgerOf[op]]
    BY <1>2 DEF LedgerOf
  <2> QED BY <1>5, <2>1, <2>2 DEF Ledger!Receive, LedgerOf, S
<1> QED BY <1>4, <1>5

\* Removing a record of utxos.toml is forgetting an available outpoint.
LEMMA RemoveForgets ==
  ASSUME CoreInv, CoreInv', NEW k \in DOMAIN utxos, RemoveUtxo(k)
  PROVE  \E op \in Outpoints : Ledger!Forget(op)
<1> DEFINE gone == utxos[k].op
<1>1. /\ TypeOK /\ OutpointsUnique /\ utxos \in Seq(Record)
      /\ utxos' = RemoveAt(utxos, k)
      /\ k \in AvailableIndices(utxos)
      /\ gone \in Outpoints
  BY RecordTyped DEF CoreInv, TypeOK, RemoveUtxo
<1>2. HasStatus(utxos, gone, "available")
  BY <1>1 DEF HasStatus, RecordedAt, AvailableIndices
<1>3. LedgerOf[gone] = "available"
  BY <1>1, <1>2, PhaseFacts DEF LedgerOf
<1>4. \A op, status : HasStatus(utxos', op, status) <=>
                        HasStatus(utxos, op, status) /\ op # gone
  BY <1>1, RemoveAtStatus DEF OutpointsUnique
<1> HIDE DEF gone
<1>5. \A op \in Outpoints :
        LedgerPhase(op)' = IF op = gone THEN "absent" ELSE LedgerPhase(op)
  BY <1>4 DEF LedgerPhase
<1>6. LedgerOf' = [LedgerOf EXCEPT ![gone] = "absent"]
  BY <1>1, <1>5 DEF LedgerOf
<1> QED BY <1>1, <1>3, <1>6 DEF Ledger!Forget, LedgerOf

\* Save UTXO State retires the pending outpoint and makes the pending change, which
\* the file did not hold, available in the same step.
LEMMA CommitRetiresInLedger ==
  ASSUME CoreInv, CoreInv', CommitPending
  PROVE  \E op \in Outpoints : \/ Ledger!Retire(op, {})
                               \/ \E c \in Outpoints : Ledger!Retire(op, {c})
<1> DEFINE retired == MarkSpent(utxos, pendingSpent)
<1>1. /\ TypeOK /\ OutpointsUnique /\ utxos \in Seq(Record) /\ utxos' \in Seq(Record)
      /\ pendingSpent \in Outpoints
      /\ retired \in Seq(Record)
      /\ CanMarkSpent(utxos, pendingSpent)
  BY CommitFacts DEF CoreInv, TypeOK, CommitPending
<1>2. HasStatus(utxos, pendingSpent, "available")
  BY <1>1 DEF CanMarkSpent, HasStatus, AvailableIndices, IsFirstRecordOf
<1>3. LedgerOf[pendingSpent] = "available"
  BY <1>1, <1>2, PhaseFacts DEF LedgerOf
<1>4. \A op, status : HasStatus(retired, op, status) <=>
        IF op = pendingSpent THEN status = "spent" ELSE HasStatus(utxos, op, status)
  BY <1>1, MarkSpentStatus DEF OutpointsUnique, Record
<1>5. \A op : IsRecorded(retired, op) <=> IsRecorded(utxos, op)
  BY <1>1, MarkSpentRecords DEF IsRecorded, RecordedAt, Record
<1>6. \/ pendingChange = None /\ utxos' = retired
      \/ /\ pendingChange \in PendingChange
         /\ CanAppendFresh(retired, PendingOutput)
         /\ Len(utxos') = Len(retired) + 1
         /\ utxos'[Len(retired) + 1] = NewRecord(PendingOutput, "change")
         /\ Grows(retired, utxos', "change")
  BY <1>1, CommitFacts
<1> HIDE DEF retired
<1>7. CASE pendingChange = None /\ utxos' = retired
  <2>1. \A op \in Outpoints :
          LedgerPhase(op)' = IF op = pendingSpent THEN "spent" ELSE LedgerPhase(op)
    BY <1>4, <1>7 DEF LedgerPhase
  <2>2. LedgerOf' = [p \in Outpoints |-> IF p = pendingSpent THEN "spent"
                                         ELSE IF p \in {} THEN "available"
                                         ELSE LedgerOf[p]]
    BY <2>1 DEF LedgerOf
  <2>3. Ledger!Retire(pendingSpent, {})
    BY <1>1, <1>3, <2>2 DEF Ledger!Retire, Ledger!Absent, LedgerOf
  <2> QED BY <1>1, <2>3
<1>8. CASE /\ pendingChange \in PendingChange
           /\ CanAppendFresh(retired, PendingOutput)
           /\ Len(utxos') = Len(retired) + 1
           /\ utxos'[Len(retired) + 1] = NewRecord(PendingOutput, "change")
           /\ Grows(retired, utxos', "change")
  <2> DEFINE c == pendingChange.op
  <2>1. c \in Outpoints /\ ~IsRecorded(retired, c)
    BY <1>8, OutpointFacts DEF PendingChange, CanAppendFresh, PendingOutput
  <2>2. ~IsRecorded(utxos, c)
    BY <1>5, <2>1
  <2>3. LedgerOf[c] = "absent"
    BY <1>1, <2>1, <2>2, PhaseFacts DEF LedgerOf
  <2>4. c # pendingSpent
    BY <1>2, <2>2 DEF HasStatus, IsRecorded
  <2>5. \A op : IsRecorded(utxos', op) /\ ~IsRecorded(retired, op) <=> op = c
    <3>1. /\ Len(retired) \in Nat
          /\ DOMAIN retired = 1..Len(retired)
          /\ DOMAIN utxos' = 1..(Len(retired) + 1)
      BY <1>1, <1>8
    <3>2. /\ utxos'[Len(retired) + 1].op = c
          /\ \A i \in 1..Len(retired) : utxos'[i] = retired[i]
      BY <1>8 DEF NewRecord, PendingOutput, Grows
    <3>3. \A i \in DOMAIN utxos' : i \in DOMAIN retired \/ i = Len(retired) + 1
      BY <3>1
    <3>4. Len(retired) + 1 \in DOMAIN utxos'
      BY <3>1
    <3> HIDE DEF c
    <3> QED BY <2>1, <3>1, <3>2, <3>3, <3>4 DEF IsRecorded, RecordedAt
  <2>6. \A op, status : HasStatus(utxos', op, status) <=>
          \/ HasStatus(retired, op, status)
          \/ status = "available" /\ op = c
    BY <1>1, <1>8, <2>5, GrowsStatus
  <2>7. ~HasStatus(utxos, c, "spent")
    BY <2>2 DEF HasStatus, IsRecorded
  <2> HIDE DEF c
  <2>8. \A op \in Outpoints :
          LedgerPhase(op)' = IF op = pendingSpent THEN "spent"
                             ELSE IF op = c THEN "available"
                             ELSE LedgerPhase(op)
    BY <1>4, <2>4, <2>6, <2>7 DEF LedgerPhase
  <2>9. LedgerOf' = [p \in Outpoints |-> IF p = pendingSpent THEN "spent"
                                         ELSE IF p \in {c} THEN "available"
                                         ELSE LedgerOf[p]]
    BY <2>8 DEF LedgerOf
  <2>10. Ledger!Retire(pendingSpent, {c})
    BY <1>3, <2>1, <2>3, <2>9 DEF Ledger!Retire, Ledger!Absent, LedgerOf
  <2> QED BY <1>1, <2>1, <2>10
<1> QED BY <1>6, <1>7, <1>8

\* utxos.toml keeps the promise of the ledger: every step of the coordinator receives,
\* forgets or retires with its change, or leaves the ledger alone.
THEOREM ImplementsLedger == Spec => KeepsLedger
<1>1. Init => Ledger!LedgerInit
  <2> SUFFICES ASSUME Init PROVE Ledger!LedgerInit
    OBVIOUS
  <2>1. utxos = <<>> /\ DOMAIN utxos = {}
    BY DEF Init
  <2>2. \A op \in Outpoints : LedgerPhase(op) = "absent"
    BY <2>1 DEF LedgerPhase, HasStatus
  <2> QED BY <2>2 DEF Ledger!LedgerInit
<1>2. CoreInv /\ [Next]_vars => [Ledger!LedgerNext]_LedgerOf
  <2> SUFFICES ASSUME CoreInv, [Next]_vars PROVE [Ledger!LedgerNext]_LedgerOf
    OBVIOUS
  <2>1. CoreInv' /\ TypeOK /\ ScanFoundDistinct
    BY CoreStep DEF CoreInv
  <2>2. CASE UNCHANGED utxos
    BY <2>2 DEF LedgerOf, LedgerPhase
  <2>3. ASSUME NEW k \in DOMAIN utxos, RemoveUtxo(k)
        PROVE  Ledger!LedgerNext
    BY <2>1, <2>3, RemoveForgets DEF Ledger!LedgerNext
  <2>4. CASE AddUtxo
    BY <2>1, <2>4, AddGrows, GrowsReceives DEF Ledger!LedgerNext
  <2>5. CASE FinishScan
    BY <2>1, <2>5, ScanGrows, GrowsReceives DEF Ledger!LedgerNext
  <2>6. CASE CommitPending
    BY <2>1, <2>6, CommitRetiresInLedger DEF Ledger!LedgerNext
  <2> QED BY <2>2, <2>3, <2>4, <2>5, <2>6, FileSteps
<1> QED BY CoreInvariant, <1>1, <1>2, PTL DEF Spec, KeepsLedger, Ledger!LedgerSpec, LedgerOf

-------------------------------------------------------------------------------
(* The scan keeps the promise of ScanService.                              *)

\* No findings are left when no scan is on.
IdleFindsNothing == scan = "idle" => scanFound = {}

\* The outpoints utxos.toml lists.
Listed == {op \in Outpoints : IsRecorded(utxos, op)}

ScanServiceOf ==
  <<scan, IF scan = "idle" THEN None ELSE Home, {u.op : u \in scanFound},
    [n \in {Home} |-> Listed]>>

\* A file of records that grows lists what it did and the outpoints of the new records.
LEMMA GrowsLists ==
  ASSUME NEW R, NEW file \in Seq(R), NEW new \in Seq(R), NEW how, Grows(file, new, how),
         NEW S, \A op \in S : IsRecorded(new, op),
         \A i \in (Len(file) + 1)..Len(new) : new[i].op \in S,
         NEW op
  PROVE  IsRecorded(new, op) <=> IsRecorded(file, op) \/ op \in S
<1>1. /\ \A i \in DOMAIN file : i \in DOMAIN new /\ new[i] = file[i]
      /\ DOMAIN file = 1..Len(file) /\ DOMAIN new = 1..Len(new)
      /\ Len(file) \in Nat /\ Len(new) \in Nat
  BY GrowsRecords
<1>2. \A i \in DOMAIN new : i \in DOMAIN file \/ i \in (Len(file) + 1)..Len(new)
  BY <1>1
<1> QED BY <1>1, <1>2 DEF IsRecorded, RecordedAt

\* A file that grows by one record lists one outpoint more.
LEMMA GrowsByOne ==
  ASSUME NEW R, NEW file \in Seq(R), NEW new \in Seq(R), NEW how, Grows(file, new, how),
         Len(new) = Len(file) + 1, NEW x, new[Len(file) + 1].op = x, NEW op
  PROVE  IsRecorded(new, op) <=> IsRecorded(file, op) \/ op = x
<1>1. Len(file) \in Nat /\ DOMAIN new = 1..Len(new)
  OBVIOUS
<1>2. Len(file) + 1 \in DOMAIN new
  BY <1>1
<1>3. \A i \in DOMAIN new : i \in DOMAIN file \/ i = Len(file) + 1
  BY <1>1
<1>4. \A i \in DOMAIN file : i \in DOMAIN new /\ new[i] = file[i]
  BY GrowsRecords
<1> QED BY <1>2, <1>3, <1>4 DEF IsRecorded, RecordedAt

\* Add UTXO lists the outpoint on the screen.
LEMMA AddLists ==
  ASSUME CoreInv, AddUtxo
  PROVE  \E op \in Outpoints : Listed' = Listed \cup {op}
<1>1. /\ TypeOK /\ utxos \in Seq(Record) /\ prevout \in Output
      /\ ~IsRecorded(utxos, prevout.op) /\ "added" \in Handlers
      /\ utxos' = AppendFresh(utxos, prevout, "added")
  BY DEF CoreInv, TypeOK, AddUtxo, CanAppendFresh, Handlers
<1>2. /\ utxos' \in Seq(Record)
      /\ Grows(utxos, utxos', "added")
      /\ Len(utxos') = Len(utxos) + 1
      /\ utxos'[Len(utxos) + 1] = NewRecord(prevout, "added")
  BY <1>1, AppendFreshGrows DEF Record, Output
<1>3. utxos'[Len(utxos) + 1].op = prevout.op /\ prevout.op \in Outpoints
  BY <1>1, <1>2 DEF NewRecord, Output
<1>4. \A op : IsRecorded(utxos', op) <=> IsRecorded(utxos, op) \/ op = prevout.op
  BY <1>1, <1>2, <1>3, GrowsByOne
<1>5. Listed' = Listed \cup {prevout.op}
  BY <1>3, <1>4 DEF Listed
<1> QED BY <1>3, <1>5

\* Remove UTXO takes one outpoint off the list.
LEMMA RemoveUnlists ==
  ASSUME CoreInv, NEW k \in DOMAIN utxos, RemoveUtxo(k)
  PROVE  \E op \in Outpoints : Listed' = Listed \ {op}
<1> DEFINE gone == utxos[k].op
<1>1. /\ OutpointsUnique /\ utxos \in Seq(Record) /\ gone \in Outpoints
      /\ utxos' = RemoveAt(utxos, k)
  BY RecordTyped DEF CoreInv, TypeOK, RemoveUtxo
<1>2. \A op, status : HasStatus(utxos', op, status) <=>
                        HasStatus(utxos, op, status) /\ op # gone
  BY <1>1, RemoveAtStatus DEF OutpointsUnique
<1>3. \A file, op : IsRecorded(file, op) <=> \E status : HasStatus(file, op, status)
  BY DEF IsRecorded, HasStatus
<1> HIDE DEF gone
<1>4. Listed' = Listed \ {gone}
  BY <1>2, <1>3 DEF Listed
<1> QED BY <1>1, <1>4

\* Save UTXO State lists the pending change, or what it listed before.
LEMMA CommitLists ==
  ASSUME CoreInv, CommitPending
  PROVE  \E op \in Outpoints : Listed' = Listed \cup {op}
<1> DEFINE retired == MarkSpent(utxos, pendingSpent)
<1>1. /\ TypeOK /\ utxos \in Seq(Record) /\ retired \in Seq(Record)
      /\ pendingSpent \in Outpoints /\ IsRecorded(utxos, pendingSpent)
  BY CommitFacts
     DEF CoreInv, TypeOK, CommitPending, CanMarkSpent, AvailableIndices, IsFirstRecordOf,
         IsRecorded
<1>2. \A op : IsRecorded(retired, op) <=> IsRecorded(utxos, op)
  BY <1>1, MarkSpentRecords DEF IsRecorded, RecordedAt, Record
<1>3. \/ utxos' = retired
      \/ /\ pendingChange \in PendingChange
         /\ utxos' \in Seq(Record)
         /\ Len(utxos') = Len(retired) + 1
         /\ utxos'[Len(retired) + 1] = NewRecord(PendingOutput, "change")
         /\ Grows(retired, utxos', "change")
  BY <1>1, CommitFacts
<1> HIDE DEF retired
<1>4. CASE utxos' = retired
  <2>1. Listed' = Listed \cup {pendingSpent}
    BY <1>1, <1>2, <1>4 DEF Listed
  <2> QED BY <1>1, <2>1
<1>5. CASE /\ pendingChange \in PendingChange
           /\ utxos' \in Seq(Record)
           /\ Len(utxos') = Len(retired) + 1
           /\ utxos'[Len(retired) + 1] = NewRecord(PendingOutput, "change")
           /\ Grows(retired, utxos', "change")
  <2>1. utxos'[Len(retired) + 1].op = pendingChange.op /\ pendingChange.op \in Outpoints
    BY <1>5, OutpointFacts DEF NewRecord, PendingOutput, PendingChange
  <2>2. \A op : IsRecorded(utxos', op) <=> IsRecorded(retired, op) \/ op = pendingChange.op
    BY <1>1, <1>5, <2>1, GrowsByOne
  <2>3. Listed' = Listed \cup {pendingChange.op}
    BY <1>2, <2>1, <2>2 DEF Listed
  <2> QED BY <2>1, <2>3
<1> QED BY <1>3, <1>4, <1>5

\* A finished scan lists everything the node answered.
LEMMA ScanLists ==
  ASSUME CoreInv, FinishScan
  PROVE  Listed' = Listed \cup {u.op : u \in scanFound}
<1> DEFINE S == {u.op : u \in scanFound}
<1>1. /\ TypeOK /\ ScanFoundDistinct /\ utxos \in Seq(Record)
      /\ scanFound \in SUBSET [op : Outpoints, chain : Chains, idx : Index]
  BY DEF CoreInv, TypeOK, Output
<1>2. /\ utxos' \in Seq(Record)
      /\ Grows(utxos, utxos', "scanned")
      /\ \A i \in (Len(utxos) + 1)..Len(utxos') :
           \E u \in scanFound : utxos'[i] = NewRecord(u, "scanned")
      /\ \A u \in scanFound : IsRecorded(utxos', u.op)
  BY <1>1, OutpointFacts, ScanResultsGrow DEF FinishScan, ScanFoundDistinct, Record
<1>3. /\ \A op \in S : IsRecorded(utxos', op)
      /\ \A i \in (Len(utxos) + 1)..Len(utxos') : utxos'[i].op \in S
      /\ S \subseteq Outpoints
  <2>1. \A op \in S : IsRecorded(utxos', op)
    BY <1>2
  <2>2. \A u : NewRecord(u, "scanned").op = u.op
    BY DEF NewRecord
  <2>3. \A i \in (Len(utxos) + 1)..Len(utxos') : utxos'[i].op \in S
    BY <1>2, <2>2
  <2>4. S \subseteq Outpoints
    BY <1>1
  <2> QED BY <2>1, <2>3, <2>4
<1> HIDE DEF S
<1>4. \A op : IsRecorded(utxos', op) <=> IsRecorded(utxos, op) \/ op \in S
  BY <1>1, <1>2, <1>3, GrowsLists
<1>5. Listed' = Listed \cup S
  BY <1>3, <1>4 DEF Listed
<1> QED BY <1>5 DEF S

\* One outpoint listed or taken off the list is a change of the one file there is.
LEMMA ChangesOne ==
  ASSUME NEW op \in Outpoints, Listed' \in {Listed \cup {op}, Listed \ {op}}
  PROVE  Service!Change(Home, op)
BY DEF Service!Change, Listed

\* ScanIsOver and FreshScreen end the scan there is.
LEMMA EndsScan ==
  ASSUME scan # "idle", scan' = "idle", scanFound' = {}
  PROVE  Service!Over
BY DEF Service!Over

\* Findings appear when the node answers, and go with the scan.
LEMMA IdleStep ==
  ASSUME IdleFindsNothing, [Next]_vars
  PROVE  IdleFindsNothing'
<1> USE DEF IdleFindsNothing, files, fields, pending, scanning
<1>1. UtxoHandlers => UNCHANGED scanning
  BY DEF UtxoHandlers, EnterPrevout, SelectUtxo, AddUtxo, RemoveUtxo
<1>2. PayrollHandlers => UNCHANGED scanning \/ scanFound' = {}
  BY DEF PayrollHandlers, Build, Finalize, FinalizeFailsLate, LoadFinalTxHex,
         EditPendingChange, SaveUtxoState, SaveUtxoStateWalletFails,
         SaveUtxoStateCrashes, FreshScreen
<1>3. WalletHandlers => UNCHANGED scanning \/ scanFound' = {}
  BY DEF WalletHandlers, EditChangeIndex, SaveWallet, Restart, FreshScreen
<1>4. NodeSteps => UNCHANGED scanning \/ scanFound' = {} \/ scan' # "idle"
  BY DEF NodeSteps, Broadcast, StartScan, NodeAnswersScan, FinishScan, ScanFails, ScanIsOver
<1>5. UNCHANGED vars => UNCHANGED scanning
  BY DEF vars
<1> QED BY <1>1, <1>2, <1>3, <1>4, <1>5 DEF Next

\* A handler that lists or unlists an outpoint and leaves the scan alone.
LEMMA EditsOne ==
  ASSUME \E op \in Outpoints : Listed' \in {Listed \cup {op}, Listed \ {op}},
         UNCHANGED <<scan, scanFound>>
  PROVE  Service!ServiceNext
<1>1. PICK op \in Outpoints : Listed' \in {Listed \cup {op}, Listed \ {op}}
  OBVIOUS
<1>2. Service!Edit(Home, op)
  BY <1>1, ChangesOne DEF Service!Edit
<1> QED BY <1>2 DEF Service!ServiceNext

\* The commit half of Save UTXO State, whether the rest of it succeeds, fails or is cut
\* off by the end of the process.
LEMMA CommitIsService ==
  ASSUME CoreInv, IdleFindsNothing,
         SaveUtxoState \/ SaveUtxoStateWalletFails \/ SaveUtxoStateCrashes
  PROVE  Service!ServiceNext
<1>1. CommitPending
  BY DEF SaveUtxoState, SaveUtxoStateWalletFails, SaveUtxoStateCrashes
<1>2. PICK op \in Outpoints : Listed' = Listed \cup {op}
  BY <1>1, CommitLists
<1>3. CASE UNCHANGED <<scan, scanFound>>
  BY <1>2, <1>3, EditsOne
<1>4. CASE SaveUtxoStateCrashes
  <2>1. scan' = "idle" /\ scanFound' = {}
    BY <1>4 DEF SaveUtxoStateCrashes, FreshScreen
  <2>2. CASE scan = "idle"
    BY <1>3, <2>1, <2>2 DEF IdleFindsNothing
  <2>3. CASE scan # "idle"
    <3>1. Service!Die(Home, op)
      BY <1>2, <2>1, <2>3, EndsScan, ChangesOne DEF Service!Die
    <3> QED BY <3>1 DEF Service!ServiceNext
  <2> QED BY <2>2, <2>3
<1> QED BY <1>3, <1>4 DEF SaveUtxoState, SaveUtxoStateWalletFails, scanning

\* The steps of the scan itself.
LEMMA ScanIsService ==
  ASSUME CoreInv, StartScan \/ NodeAnswersScan \/ FinishScan \/ ScanFails
  PROVE  Service!ServiceNext
<1> USE DEF files, fields
<1>1. CASE StartScan
  <2>1. /\ scan = "idle" /\ scan' = "running"
        /\ utxos' = utxos /\ scanFound' = scanFound
    BY <1>1 DEF StartScan
  <2>2. Service!Start(Home)
    BY <2>1 DEF Service!Start
  <2> QED BY <2>2 DEF Service!ServiceNext
<1>2. CASE NodeAnswersScan
  <2>1. /\ scan = "running" /\ scan' = "answered" /\ utxos' = utxos
        /\ scanFound' \subseteq Output
    BY <1>2, UnspentFacts DEF NodeAnswersScan, CoreInv
  <2>2. {u.op : u \in scanFound'} \subseteq Outpoints
    BY <2>1 DEF Output
  <2>3. PICK ops \in SUBSET Outpoints : ops = {u.op : u \in scanFound'}
    BY <2>2
  <2>4. Service!Answer(ops)
    BY <2>1, <2>3 DEF Service!Answer
  <2> QED BY <2>4 DEF Service!ServiceNext
<1>3. CASE FinishScan
  <2>1. scan = "answered" /\ scan' = "idle" /\ scanFound' = {}
    BY <1>3 DEF FinishScan, ScanIsOver
  <2>2. Service!Over
    BY <2>1, EndsScan
  <2>3. Listed' = Listed \cup {u.op : u \in scanFound}
    BY <1>3, ScanLists
  <2>4. Service!Record
    BY <2>1, <2>2, <2>3 DEF Service!Record, Listed
  <2> QED BY <2>4 DEF Service!ServiceNext
<1>4. CASE ScanFails
  <2>1. Service!Over /\ utxos' = utxos
    BY <1>4, EndsScan DEF ScanFails, ScanIsOver
  <2>2. Service!Fail
    BY <2>1 DEF Service!Fail
  <2> QED BY <2>2 DEF Service!ServiceNext
<1> QED BY <1>1, <1>2, <1>3, <1>4

\* Every step of the coordinator is one of the service or is hidden from it.
LEMMA ScanServiceStep ==
  CoreInv /\ IdleFindsNothing /\ [Next]_vars => [Service!ServiceNext]_ScanServiceOf
<1> SUFFICES ASSUME CoreInv, IdleFindsNothing, [Next]_vars
             PROVE  [Service!ServiceNext]_ScanServiceOf
  OBVIOUS
<1> USE DEF files, fields, pending, scanning
<1>1. ASSUME UNCHANGED <<utxos, scan, scanFound>> PROVE UNCHANGED ScanServiceOf
  BY <1>1 DEF ScanServiceOf, Listed
<1>2. CASE UtxoHandlers
  <2>1. CASE AddUtxo
    <3>1. UNCHANGED <<scan, scanFound>>
      BY <2>1 DEF AddUtxo
    <3> QED BY <2>1, <3>1, AddLists, EditsOne
  <2>2. ASSUME NEW k \in DOMAIN utxos, RemoveUtxo(k) PROVE Service!ServiceNext
    <3>1. UNCHANGED <<scan, scanFound>>
      BY <2>2 DEF RemoveUtxo
    <3> QED BY <2>2, <3>1, RemoveUnlists, EditsOne
  <2>3. ASSUME NEW u \in TreasuryOutputs, EnterPrevout(u)
        PROVE  UNCHANGED <<utxos, scan, scanFound>>
    BY <2>3 DEF EnterPrevout
  <2>4. ASSUME NEW i \in DOMAIN utxos, SelectUtxo(i)
        PROVE  UNCHANGED <<utxos, scan, scanFound>>
    BY <2>4 DEF SelectUtxo
  <2> QED BY <1>1, <1>2, <2>1, <2>2, <2>3, <2>4 DEF UtxoHandlers
<1>3. CASE PayrollHandlers
  <2>1. PayrollHandlers =>
          \/ UNCHANGED <<utxos, scan, scanFound>>
          \/ SaveUtxoState \/ SaveUtxoStateWalletFails \/ SaveUtxoStateCrashes
    BY DEF PayrollHandlers, Build, Finalize, FinalizeFailsLate, LoadFinalTxHex,
           EditPendingChange
  <2> QED BY <1>1, <1>3, <2>1, CommitIsService
<1>4. CASE WalletHandlers
  <2>1. CASE Restart
    <3>1. scan' = "idle" /\ scanFound' = {} /\ utxos' = utxos
      BY <2>1 DEF Restart, FreshScreen
    <3>2. CASE scan = "idle"
      BY <1>1, <3>1, <3>2 DEF IdleFindsNothing
    <3>3. CASE scan # "idle"
      <4>1. Service!Fail
        BY <3>1, <3>3, EndsScan DEF Service!Fail
      <4> QED BY <4>1 DEF Service!ServiceNext
    <3> QED BY <3>2, <3>3
  <2>2. ASSUME NEW i \in IndexEdits, EditChangeIndex(i)
        PROVE  UNCHANGED <<utxos, scan, scanFound>>
    BY <2>2 DEF EditChangeIndex
  <2>3. CASE SaveWallet
    BY <1>1, <2>3 DEF SaveWallet
  <2> QED BY <1>1, <1>4, <2>1, <2>2, <2>3 DEF WalletHandlers
<1>5. CASE NodeSteps
  <2>1. CASE Broadcast
    BY <1>1, <2>1 DEF Broadcast
  <2> QED BY <1>5, <2>1, ScanIsService DEF NodeSteps
<1>6. CASE UNCHANGED vars
  BY <1>1, <1>6 DEF vars
<1> QED BY <1>2, <1>3, <1>4, <1>5, <1>6 DEF Next

\* A scan of the coordinator is a scan of the service: whatever handlers, commits, crashes
\* and restarts come between its start and its end, it lists everything it found or
\* nothing, and touches no other outpoint.
THEOREM ImplementsScanService == Spec => KeepsService
<1>1. Init => IdleFindsNothing
  BY DEF Init, IdleFindsNothing
<1>2. IdleFindsNothing /\ [Next]_vars => IdleFindsNothing'
  BY IdleStep
<1>3. Spec => []IdleFindsNothing
  BY <1>1, <1>2, PTL DEF Spec
<1>4. Init => Service!ServiceInit
  <2> SUFFICES ASSUME Init PROVE Service!ServiceInit
    OBVIOUS
  <2>1. scan = "idle" /\ scanFound = {} /\ utxos = <<>> /\ DOMAIN utxos = {}
    BY DEF Init
  <2>2. {op \in Outpoints : IsRecorded(utxos, op)} = {}
    BY <2>1 DEF IsRecorded
  <2> QED BY <2>1, <2>2 DEF Service!ServiceInit
<1> QED BY CoreInvariant, <1>3, <1>4, ScanServiceStep, PTL
        DEF Spec, KeepsService, Service!ServiceSpec, Service!service, ScanServiceOf, Listed

-------------------------------------------------------------------------------
(* Addresses recorded more than once.                                      *)

\* A record on an address some earlier record uses was written by a scan.
SharedAreScanned(file) ==
  \A i, j \in DOMAIN file :
    i < j /\ SharesAddress(file[i], file[j]) => file[j].how = "scanned"

\* append_fresh_utxo appends on an address no record uses.
LEMMA AppendFreshShares ==
  ASSUME NEW file \in Seq(Record), SharedAreScanned(file), NEW u \in Output,
         NEW how \in Handlers, CanAppendFresh(file, u)
  PROVE  SharedAreScanned(AppendFresh(file, u, how))
<1> DEFINE r == NewRecord(u, how)
<1>1. r \in Record /\ r.chain = u.chain /\ r.idx = u.idx
  BY DEF NewRecord, Record, FileRecord, Output, Statuses
<1> HIDE DEF r
<1>2. /\ DOMAIN Append(file, r) = 1..(Len(file) + 1)
      /\ DOMAIN file = 1..Len(file) /\ Len(file) \in Nat
      /\ \A i \in DOMAIN file : Append(file, r)[i] = file[i]
      /\ Append(file, r)[Len(file) + 1] = r
  BY <1>1, AppendFacts
<1>3. \A i \in DOMAIN file : ~SharesAddress(file[i], r)
  BY <1>1 DEF CanAppendFresh, SharesAddress
<1>4. SharedAreScanned(Append(file, r))
  <2> SUFFICES ASSUME NEW i \in DOMAIN Append(file, r), NEW j \in DOMAIN Append(file, r),
                      i < j, SharesAddress(Append(file, r)[i], Append(file, r)[j])
               PROVE  Append(file, r)[j].how = "scanned"
    BY DEF SharedAreScanned
  <2>1. i \in DOMAIN file
    BY <1>2
  <2>2. j \in DOMAIN file
    BY <1>2, <1>3, <2>1
  <2> QED BY <1>2, <2>1, <2>2 DEF SharedAreScanned
<1> QED BY <1>4 DEF AppendFresh, r

LEMMA SharedStep ==
  ASSUME CoreInv, SharedAreScanned(utxos), [Next]_vars
  PROVE  SharedAreScanned(utxos')
<1>1. TypeOK /\ ScanFoundDistinct /\ utxos \in Seq(Record)
  BY DEF CoreInv, TypeOK
<1>2. CASE UNCHANGED utxos
  BY <1>2
<1>3. ASSUME NEW k \in DOMAIN utxos, RemoveUtxo(k)
      PROVE  SharedAreScanned(utxos')
  <2>1. utxos' = RemoveAt(utxos, k)
    BY <1>3 DEF RemoveUtxo
  <2>2. \A i, j \in DOMAIN utxos' : i < j =>
          \E p, q \in DOMAIN utxos : p < q /\ utxos'[i] = utxos[p] /\ utxos'[j] = utxos[q]
    BY <1>1, <2>1, RemoveAtRecords
  <2> QED BY <2>2 DEF SharedAreScanned
<1>4. CASE AddUtxo
  BY <1>1, <1>4, AppendFreshShares DEF AddUtxo, TypeOK, Handlers
<1>5. CASE FinishScan
  <2>1. utxos' \in Seq(Record) /\ Grows(utxos, utxos', "scanned")
    BY <1>1, <1>5, ScanGrows
  <2>2. /\ DOMAIN utxos = 1..Len(utxos) /\ Len(utxos) \in Nat
        /\ DOMAIN utxos' = 1..Len(utxos') /\ Len(utxos') \in Nat
    BY <1>1, <2>1
  <2> SUFFICES ASSUME NEW i \in DOMAIN utxos', NEW j \in DOMAIN utxos', i < j,
                      SharesAddress(utxos'[i], utxos'[j])
               PROVE  utxos'[j].how = "scanned"
    BY DEF SharedAreScanned
  <2>3. CASE j \in DOMAIN utxos
    BY <2>1, <2>2, <2>3 DEF Grows, SharedAreScanned
  <2>4. CASE j \notin DOMAIN utxos
    BY <2>1, <2>2, <2>4 DEF Grows
  <2> QED BY <2>3, <2>4
<1>6. CASE CommitPending
  <2> DEFINE retired == MarkSpent(utxos, pendingSpent)
  <2>1. SharedAreScanned(retired)
    BY <1>1, MarkSpentRecords DEF Record, SharedAreScanned, SharesAddress
  <2>2. /\ retired \in Seq(Record)
        /\ \/ utxos' = retired
           \/ /\ PendingOutput \in Output
              /\ CanAppendFresh(retired, PendingOutput)
              /\ utxos' = AppendFresh(retired, PendingOutput, "change")
    BY <1>1, <1>6, CommitFacts
  <2> HIDE DEF retired
  <2> QED BY <2>1, <2>2, AppendFreshShares DEF Handlers
<1> QED BY <1>2, <1>3, <1>4, <1>5, <1>6, FileSteps

\* A record that shares its address with an earlier one was written by a scan: Add UTXO
\* and Save UTXO State never record two outputs of one address.
THEOREM SharedAddressesAreScanned == Spec => []SharedAddressIsScanned
<1>1. Init => SharedAreScanned(utxos)
  BY DEF Init, SharedAreScanned
<1>2. CoreInv /\ SharedAreScanned(utxos) /\ [Next]_vars => SharedAreScanned(utxos)'
  BY SharedStep
<1>3. SharedAreScanned(utxos) => SharedAddressIsScanned
  BY DEF SharedAreScanned, SharedAddressIsScanned
<1> QED BY <1>1, <1>2, <1>3, CoreInvariant, PTL DEF Spec

-------------------------------------------------------------------------------
(* The change index, where main loads the wallet and no index is typed.    *)

\* The screen is never behind wallet.toml, and a pending change that can still be
\* committed is at the index on the screen.
IndexInv ==
  /\ walletIndex <= uiIndex
  /\ pendingChange # None =>
       pendingChange.idx = uiIndex \/ HasStatus(utxos, pendingSpent, "spent")

\* The steps that touch the change index or the pending state.
LEMMA IndexSteps ==
  ASSUME [Next]_vars, IndexEdits = {}, AutoLoads
  PROVE  \/ UNCHANGED <<walletIndex, uiIndex, pending>>
         \/ UNCHANGED <<walletIndex, uiIndex>> /\ \E t \in built : ApplyFinalizedTxState(t)
         \/ /\ CommitPending /\ uiIndex' = CommittedIndex /\ UNCHANGED pending
            /\ walletIndex' = CommittedIndex \/ UNCHANGED walletIndex
         \/ UNCHANGED walletIndex /\ uiIndex' = walletIndex /\ pendingChange' = None
         \/ walletIndex' = uiIndex /\ UNCHANGED <<uiIndex, pending>>
<1> USE DEF files, fields, pending, scanning
<1>1. CASE UtxoHandlers
  BY <1>1 DEF UtxoHandlers, EnterPrevout, SelectUtxo, AddUtxo, RemoveUtxo
<1>2. CASE PayrollHandlers
  <2>1. ASSUME NEW id \in Payrolls, NEW hasChange \in BOOLEAN, Build(id, hasChange)
        PROVE  UNCHANGED <<walletIndex, uiIndex, pending>>
    BY <2>1 DEF Build
  <2>2. ASSUME NEW t \in built, Finalize(t) \/ FinalizeFailsLate(t) \/ LoadFinalTxHex(t)
        PROVE  /\ UNCHANGED <<walletIndex, uiIndex>>
               /\ UNCHANGED pending \/ ApplyFinalizedTxState(t)
    BY <2>2 DEF Finalize, FinalizeFailsLate, LoadFinalTxHex
  <2>3. CASE SaveUtxoState \/ SaveUtxoStateWalletFails
    BY <2>3 DEF SaveUtxoState, SaveUtxoStateWalletFails
  <2>4. CASE SaveUtxoStateCrashes
    BY <2>4 DEF SaveUtxoStateCrashes, FreshScreen
  <2> QED BY <1>2, <2>1, <2>2, <2>3, <2>4 DEF PayrollHandlers
<1>3. CASE WalletHandlers
  BY <1>3 DEF WalletHandlers, SaveWallet, Restart, FreshScreen
<1>4. CASE NodeSteps
  BY <1>4 DEF NodeSteps, Broadcast, StartScan, NodeAnswersScan, FinishScan, ScanFails
<1>5. CASE UNCHANGED vars
  BY <1>5 DEF vars
<1> QED BY <1>1, <1>2, <1>3, <1>4, <1>5 DEF Next

\* A commit advances from the index on the screen: a pending change at an older index
\* is of an input marked spent, which is not committed again.
LEMMA CommitAdvances ==
  ASSUME CoreInv, IndexInv, CommitPending
  PROVE  CommittedIndex \in Nat /\ uiIndex <= CommittedIndex
<1>1. TypeOK /\ OutpointsUnique /\ uiIndex \in Index /\ MaxIndex \in Nat
  BY ConstantsAssumption DEF CoreInv, TypeOK
<1>2. ~HasStatus(utxos, pendingSpent, "spent")
  <2> SUFFICES ASSUME HasStatus(utxos, pendingSpent, "spent") PROVE FALSE
    OBVIOUS
  <2>1. PICK s \in DOMAIN utxos : utxos[s].op = pendingSpent /\ utxos[s].status = "spent"
    BY DEF HasStatus, RecordedAt
  <2>2. PICK a \in DOMAIN utxos : utxos[a].op = pendingSpent /\ utxos[a].status = "available"
    BY DEF CommitPending, CanMarkSpent, AvailableIndices, IsFirstRecordOf, RecordedAt
  <2> QED BY <1>1, <2>1, <2>2 DEF OutpointsUnique, UniqueOutpoints
<1>3. CommittedIndex \in {uiIndex, NextIndex(uiIndex)}
  BY <1>2 DEF IndexInv, CommittedIndex
<1> QED BY <1>1, <1>3 DEF NextIndex, Index

LEMMA IndexStep ==
  ASSUME CoreInv, IndexInv, [Next]_vars, IndexEdits = {}, AutoLoads
  PROVE  IndexInv' /\ walletIndex' >= walletIndex
<1>1. TypeOK /\ walletIndex \in Nat /\ uiIndex \in Nat /\ walletIndex <= uiIndex
  BY IndexFacts DEF CoreInv, TypeOK, IndexInv
<1>2. \A op : HasStatus(utxos, op, "spent") => HasStatus(utxos', op, "spent")
  BY SpentStays
<1>3. CASE UNCHANGED <<walletIndex, uiIndex, pending>>
  BY <1>1, <1>2, <1>3 DEF IndexInv, pending
<1>4. ASSUME UNCHANGED <<walletIndex, uiIndex>>, NEW t \in built, ApplyFinalizedTxState(t)
      PROVE  IndexInv' /\ walletIndex' >= walletIndex
  <2>1. pendingChange' # None => pendingChange'.idx = uiIndex
    BY <1>4 DEF ApplyFinalizedTxState, RecognisedChange
  <2> QED BY <1>1, <1>4, <2>1 DEF IndexInv
<1>5. CASE /\ CommitPending /\ uiIndex' = CommittedIndex /\ UNCHANGED pending
           /\ walletIndex' = CommittedIndex \/ UNCHANGED walletIndex
  <2>1. HasStatus(utxos', pendingSpent, "spent")
    BY <1>5, CommitRetires
  <2>2. CommittedIndex \in Nat /\ uiIndex <= CommittedIndex
    BY <1>5, CommitAdvances
  <2> QED BY <1>1, <1>5, <2>1, <2>2 DEF IndexInv, pending
<1>6. CASE UNCHANGED walletIndex /\ uiIndex' = walletIndex /\ pendingChange' = None
  BY <1>1, <1>6 DEF IndexInv
<1>7. CASE walletIndex' = uiIndex /\ UNCHANGED <<uiIndex, pending>>
  BY <1>1, <1>2, <1>7 DEF IndexInv, pending
<1> QED BY <1>3, <1>4, <1>5, <1>6, <1>7, IndexSteps

\* wallet.toml's change index never goes back, whatever payrolls, saves that die half-way
\* and restarts come between, where main loads the wallet and nobody types an index.
THEOREM ChangeIndexOnlyGrows ==
  ASSUME IndexEdits = {}, AutoLoads
  PROVE  Spec => ChangeIndexNeverRegresses
<1>1. Init => IndexInv
  BY DEF Init, IndexInv
<1>2. CoreInv /\ IndexInv /\ [Next]_vars => IndexInv' /\ [walletIndex' >= walletIndex]_walletIndex
  BY IndexStep
<1> QED BY <1>1, <1>2, CoreInvariant, PTL DEF Spec, ChangeIndexNeverRegresses

-------------------------------------------------------------------------------
(* The coordinator used one payroll at a time, for any deposits, payrolls  *)
(* and restarts: change addresses are fresh and what Finalize leaves       *)
(* pending is the payroll's and can be saved, as long as the change index  *)
(* has not reached its largest value and main loads the wallet.            *)

\* At most one payroll is not saved yet.  Its input is available and its change is at
\* the index of the screen; the change of saved payrolls is below it.
PayrollsInOrder ==
  /\ \A s, t \in built : s.spend = t.spend => s = t
  /\ \A s, t \in built : Saved(s) \/ Saved(t) \/ s = t
  /\ \A t \in built : Saved(t) \/ HasStatus(utxos, t.spend, "available")
  /\ \A t \in built : t.chg # None =>
       IF Saved(t) THEN t.chg < uiIndex ELSE t.chg = uiIndex

\* No record, field or finding is of a change address that was not saved yet.
Below(u) == u.chain = "change" => u.idx < uiIndex

ChangeBelow ==
  /\ \A i \in DOMAIN utxos : Below(utxos[i])
  /\ prevout # None => Below(prevout)
  /\ \A u \in scanFound : Below(u)

\* What is pending and not saved is the outstanding payroll and its change.
PendingOfPayroll ==
  pendingSpent # None /\ ~HasStatus(utxos, pendingSpent, "spent") =>
    \E t \in built : /\ t.spend = pendingSpent
                     /\ pendingChange = IF t.chg = None THEN None
                                        ELSE [op |-> t.id, idx |-> t.chg]
                     /\ ~IsRecorded(utxos, t.id)

GuideInv ==
  /\ walletIndex = uiIndex
  /\ PayrollsInOrder
  /\ ChangeAddressesFresh
  /\ ChangeBelow
  /\ PendingOfPayroll

-------------------------------------------------------------------------------
(* The guide is the coordinator.                                           *)

LEMMA GuideIsNext == [GuideNext]_vars => [Next]_vars
BY DEF GuideNext, BetweenPayrolls, WithPayroll, BuildFromAvailable, Next, UtxoHandlers,
       PayrollHandlers, WalletHandlers, NodeSteps

LEMMA InitGuide == Init => GuideInv
BY DEF Init, GuideInv, PayrollsInOrder, ChangeAddressesFresh, ChangeBelow, PendingOfPayroll

LEMMA NotBoth ==
  ASSUME OutpointsUnique, NEW op, HasStatus(utxos, op, "available")
  PROVE  ~HasStatus(utxos, op, "spent")
BY DEF OutpointsUnique, UniqueOutpoints, HasStatus, RecordedAt

\* Every output of the treasury is below the index once its payroll is saved.
LEMMA OutputsBelow ==
  ASSUME CoreInv, GuideInv, NothingOutstanding, NEW u \in TreasuryOutputs
  PROVE  Below(u)
<1>1. CASE u \in DepositOutputs
  BY <1>1 DEF DepositOutputs, Below
<1>2. CASE u \in ChangeOutputs(mined)
  <2>1. PICK t \in mined : t.chg # None /\ u = ChangeOutput(t)
    BY <1>2 DEF ChangeOutputs
  <2>2. t \in built /\ Saved(t)
    BY DEF CoreInv, TypeOK, NothingOutstanding
  <2> QED BY <2>1, <2>2 DEF GuideInv, PayrollsInOrder, ChangeOutput, Below
<1> QED BY <1>1, <1>2 DEF TreasuryOutputs

-------------------------------------------------------------------------------
(* Between payrolls.                                                       *)

\* A step that leaves payrolls, indices and pending state alone, when all are saved.
LEMMA QuietStep ==
  ASSUME CoreInv, GuideInv, NothingOutstanding, [Next]_vars, ChangeBelow',
         UNCHANGED <<built, uiIndex, walletIndex, pending>>
  PROVE  GuideInv'
<1>1. \A op : HasStatus(utxos, op, "spent") => HasStatus(utxos', op, "spent")
  BY SpentStays
<1>2. \A t \in built : Saved(t) /\ Saved(t)'
  BY <1>1 DEF NothingOutstanding, Saved
<1>3. PayrollsInOrder'
  BY <1>2 DEF GuideInv, PayrollsInOrder
<1>4. PendingOfPayroll'
  <2> SUFFICES ASSUME pendingSpent # None, ~HasStatus(utxos', pendingSpent, "spent")
               PROVE  FALSE
    BY DEF PendingOfPayroll, pending
  <2>1. PICK t \in built : t.spend = pendingSpent
    BY <1>1 DEF GuideInv, PendingOfPayroll
  <2> QED BY <1>1, <1>2, <2>1 DEF Saved
<1>5. ChangeAddressesFresh'
  BY DEF GuideInv, ChangeAddressesFresh
<1> QED BY <1>3, <1>4, <1>5 DEF GuideInv

\* The handlers of screen 3 and the steps of a scan.
LEMMA BelowStep ==
  ASSUME CoreInv, GuideInv, NothingOutstanding, [Next]_vars,
         UtxoHandlers \/ StartScan \/ NodeAnswersScan \/ FinishScan \/ ScanFails
  PROVE  ChangeBelow' /\ UNCHANGED <<built, uiIndex, walletIndex, pending>>
<1> USE DEF files, fields, scanning
<1>1. TypeOK /\ ScanFoundDistinct /\ ChangeBelow /\ utxos \in Seq(Record)
  BY DEF CoreInv, TypeOK, GuideInv
<1>2. ASSUME NEW u \in TreasuryOutputs, EnterPrevout(u)
      PROVE  ChangeBelow' /\ UNCHANGED <<built, uiIndex, walletIndex, pending>>
  BY <1>1, <1>2, OutputsBelow DEF EnterPrevout, ChangeBelow, Below
<1>3. ASSUME NEW k \in DOMAIN utxos, SelectUtxo(k)
      PROVE  ChangeBelow' /\ UNCHANGED <<built, uiIndex, walletIndex, pending>>
  <2>1. /\ prevout'.chain = utxos[k].chain /\ prevout'.idx = utxos[k].idx
        /\ UNCHANGED <<utxos, scanFound, built, uiIndex, walletIndex, pending>>
    BY <1>3 DEF SelectUtxo
  <2> QED BY <1>1, <2>1 DEF ChangeBelow, Below
<1>4. ASSUME NEW k \in DOMAIN utxos, RemoveUtxo(k)
      PROVE  ChangeBelow' /\ UNCHANGED <<built, uiIndex, walletIndex, pending>>
  <2>1. utxos' = RemoveAt(utxos, k)
    BY <1>4 DEF RemoveUtxo
  <2>2. \A i \in DOMAIN utxos' : \E p \in DOMAIN utxos : utxos'[i] = utxos[p]
    BY <1>1, <2>1, RemoveAtRecords
  <2> QED BY <1>1, <1>4, <2>2 DEF RemoveUtxo, ChangeBelow, Below
<1>5. CASE AddUtxo
  <2> DEFINE r == NewRecord(prevout, "added")
  <2>1. prevout \in Output /\ Below(prevout)
    BY <1>1, <1>5 DEF AddUtxo, TypeOK, ChangeBelow
  <2>2. r \in Record /\ r.chain = prevout.chain /\ r.idx = prevout.idx
    BY <2>1 DEF NewRecord, Record, FileRecord, Output, Statuses, Handlers
  <2>3. utxos' = Append(utxos, r)
    BY <1>5 DEF AddUtxo, AppendFresh
  <2> HIDE DEF r
  <2>4. \A i \in DOMAIN utxos' : (i \in DOMAIN utxos /\ utxos'[i] = utxos[i]) \/ utxos'[i] = r
    BY <1>1, <2>2, <2>3, AppendFacts
  <2> QED BY <1>1, <1>5, <2>1, <2>2, <2>4 DEF AddUtxo, ChangeBelow, Below
<1>6. CASE StartScan \/ ScanFails
  BY <1>1, <1>6 DEF StartScan, ScanFails, ScanIsOver, ChangeBelow, Below
<1>7. CASE NodeAnswersScan
  <2>1. \A u \in scanFound' : Below(u)
    BY <1>7, OutputsBelow DEF NodeAnswersScan, Unspent
  <2> QED BY <1>1, <1>7, <2>1 DEF NodeAnswersScan, ChangeBelow, Below
<1>8. CASE FinishScan
  <2>1. /\ utxos' \in Seq(Record)
        /\ \A i \in 1..Len(utxos) : utxos'[i] = utxos[i]
        /\ \A i \in (Len(utxos) + 1)..Len(utxos') :
             \E u \in scanFound : utxos'[i] = NewRecord(u, "scanned")
    <3>1. /\ scanFound \in SUBSET [op : Outpoints, chain : Chains, idx : Index]
          /\ utxos \in Seq(FileRecord(Outpoints, Index))
          /\ \A u, v \in scanFound : u.op = v.op => u = v
          /\ utxos' \in ScanResults(utxos, scanFound)
          /\ IsFiniteSet(Outpoints)
      BY <1>1, <1>8, OutpointFacts DEF TypeOK, FinishScan, ScanFoundDistinct, Record, Output
    <3> QED BY <3>1, ScanResultsGrow DEF Grows, Record
  <2>2. \A i \in DOMAIN utxos' :
          \/ i \in DOMAIN utxos /\ utxos'[i] = utxos[i]
          \/ \E u \in scanFound : utxos'[i] = NewRecord(u, "scanned")
    <3>1. /\ DOMAIN utxos = 1..Len(utxos) /\ Len(utxos) \in Nat
          /\ DOMAIN utxos' = 1..Len(utxos') /\ Len(utxos') \in Nat
      BY <1>1, <2>1
    <3>2. \A i \in DOMAIN utxos' : i \in 1..Len(utxos) \/ i \in (Len(utxos) + 1)..Len(utxos')
      BY <3>1
    <3> QED BY <2>1, <3>1, <3>2
  <2>3. \A i \in DOMAIN utxos' : utxos'[i].chain = "change" => utxos'[i].idx < uiIndex
    BY <1>1, <2>2 DEF ChangeBelow, Below, NewRecord
  <2> QED BY <1>1, <1>8, <2>3 DEF FinishScan, ScanIsOver, ChangeBelow, Below
<1> QED BY <1>2, <1>3, <1>4, <1>5, <1>6, <1>7, <1>8 DEF UtxoHandlers

-------------------------------------------------------------------------------
(* A payroll.                                                              *)

LEMMA BuildStep ==
  ASSUME CoreInv, GuideInv, NothingOutstanding, BuildFromAvailable
  PROVE  GuideInv'
<1>1. PICK id \in Payrolls, hasChange \in BOOLEAN : Build(id, hasChange)
  BY DEF BuildFromAvailable
<1> DEFINE t == [id |-> id, spend |-> prevout.op, chg |-> IF hasChange THEN uiIndex ELSE None]
<1>2. /\ built' = built \cup {t}
      /\ UNCHANGED <<utxos, walletIndex, uiIndex, prevout, pendingSpent, pendingChange, scanFound>>
  BY <1>1 DEF Build, fields, pending, scanning
<1>3. HasStatus(utxos, t.spend, "available") /\ ~HasStatus(utxos, t.spend, "spent")
  BY NotBoth DEF BuildFromAvailable, CoreInv
<1>4. t.chg \in {uiIndex, None} /\ uiIndex \in Nat /\ None \notin Index
  BY IndexFacts, OutpointFacts DEF CoreInv, TypeOK
<1> HIDE DEF t
<1>5. \A s \in built : Saved(s) /\ s.spend # t.spend
  BY <1>3 DEF NothingOutstanding, Saved
<1>6. PayrollsInOrder'
  BY <1>2, <1>3, <1>4, <1>5 DEF GuideInv, PayrollsInOrder, Saved
<1>7. \A s \in built : s.chg # None => s.chg < uiIndex /\ s.chg \in Nat
  BY <1>5, IndexFacts DEF GuideInv, PayrollsInOrder, CoreInv, TypeOK, Payroll
<1>8. ChangeAddressesFresh'
  BY <1>2, <1>4, <1>7 DEF GuideInv, ChangeAddressesFresh
<1>9. ChangeBelow' /\ PendingOfPayroll'
  BY <1>2 DEF GuideInv, ChangeBelow, Below, PendingOfPayroll
<1> QED BY <1>2, <1>6, <1>8, <1>9 DEF GuideInv

\* Finalize and Load Final Tx recognise the change of a payroll not saved yet.
LEMMA ApplyStep ==
  ASSUME CoreInv, GuideInv, NEW t \in built, ApplyFinalizedTxState(t) \/ UNCHANGED pending,
         UNCHANGED <<utxos, built, uiIndex, walletIndex, prevout, scanFound>>
  PROVE  GuideInv'
<1>1. PayrollsInOrder' /\ ChangeAddressesFresh' /\ ChangeBelow'
  BY DEF GuideInv, PayrollsInOrder, Saved, ChangeAddressesFresh, ChangeBelow, Below
<1>2. CASE UNCHANGED pending
  BY <1>1, <1>2 DEF GuideInv, PendingOfPayroll, pending
<1>3. CASE AlreadyProcessed(utxos, t) /\ ApplyFinalizedTxState(t)
  BY <1>1, <1>3 DEF ApplyFinalizedTxState, GuideInv, PendingOfPayroll
<1>4. CASE ~AlreadyProcessed(utxos, t) /\ ApplyFinalizedTxState(t)
  <2>1. ~Saved(t) /\ ~IsRecorded(utxos, t.id)
    BY <1>4 DEF AlreadyProcessed, Saved
  <2>2. t.chg = None \/ t.chg = uiIndex
    BY <2>1 DEF GuideInv, PayrollsInOrder
  <2>3. uiIndex # None
    BY OutpointFacts DEF CoreInv, TypeOK
  <2>4. /\ pendingSpent' = t.spend
        /\ pendingChange' = IF t.chg = None THEN None ELSE [op |-> t.id, idx |-> t.chg]
    BY <1>4, <2>2, <2>3 DEF ApplyFinalizedTxState, RecognisedChange
  <2> QED BY <1>1, <2>1, <2>4 DEF GuideInv, PendingOfPayroll
<1> QED BY <1>2, <1>3, <1>4

\* Save UTXO State saves the outstanding payroll and steps over its change address.
LEMMA SaveStep ==
  ASSUME CoreInv, GuideInv, [Next]_vars, SaveUtxoState, uiIndex # MaxIndex
  PROVE  GuideInv'
<1> USE DEF scanning, pending
<1>1. /\ CommitPending /\ uiIndex' = CommittedIndex /\ walletIndex' = CommittedIndex
      /\ UNCHANGED <<built, prevout, pendingSpent, pendingChange, scanFound>>
  BY DEF SaveUtxoState
<1>2. TypeOK /\ utxos \in Seq(Record) /\ uiIndex \in Nat /\ None \notin Index
  BY IndexFacts, OutpointFacts DEF CoreInv, TypeOK
<1>3. pendingSpent # None /\ HasStatus(utxos, pendingSpent, "available")
  BY <1>1 DEF CommitPending, CanMarkSpent, AvailableIndices, IsFirstRecordOf, HasStatus
<1>4. ~HasStatus(utxos, pendingSpent, "spent")
  BY <1>3, NotBoth DEF CoreInv
<1>5. PICK t \in built : /\ t.spend = pendingSpent
                         /\ pendingChange = IF t.chg = None THEN None
                                            ELSE [op |-> t.id, idx |-> t.chg]
  BY <1>3, <1>4 DEF GuideInv, PendingOfPayroll
<1>6. ~Saved(t) /\ (t.chg # None => t.chg = uiIndex)
  BY <1>4, <1>5 DEF Saved, GuideInv, PayrollsInOrder
<1>7. pendingChange = None <=> t.chg = None
  BY <1>5, <1>2, ConstantsAssumption, IndexFacts DEF TypeOK, Payroll
<1>8. /\ pendingChange = None => uiIndex' = uiIndex
      /\ pendingChange # None => uiIndex' = uiIndex + 1 /\ pendingChange.idx = uiIndex
      /\ pendingChange = None <=> t.chg = None
  BY <1>1, <1>2, <1>5, <1>6, <1>7 DEF CommittedIndex, NextIndex
<1>9. \A s \in built : Saved(s)'
  <2>1. \A op : HasStatus(utxos, op, "spent") => HasStatus(utxos', op, "spent")
    BY SpentStays
  <2>2. HasStatus(utxos', t.spend, "spent")
    BY <1>1, <1>5, CommitRetires
  <2> QED BY <1>6, <2>1, <2>2 DEF Saved, GuideInv, PayrollsInOrder
<1>10. PayrollsInOrder'
  <2>1. \A s \in built : s.chg # None => s.chg \in Nat /\ s.chg < uiIndex'
    <3> SUFFICES ASSUME NEW s \in built, s.chg # None PROVE s.chg \in Nat /\ s.chg < uiIndex'
      OBVIOUS
    <3>1. s.chg \in Nat
      BY <1>2, IndexFacts DEF TypeOK, Payroll
    <3>2. CASE s = t
      BY <1>2, <1>6, <1>8, <3>2
    <3>3. CASE s # t
      BY <1>2, <1>6, <1>8, <3>1, <3>3 DEF GuideInv, PayrollsInOrder
    <3> QED BY <3>1, <3>2, <3>3
  <2> QED BY <1>1, <1>9, <2>1 DEF GuideInv, PayrollsInOrder
<1>11. ChangeBelow'
  <2> DEFINE retired == MarkSpent(utxos, pendingSpent)
  <2>0. \A n \in Nat : n < uiIndex => n < uiIndex'
    BY <1>2, <1>8
  <2>1. \A i \in DOMAIN retired : retired[i].chain = "change" => retired[i].idx < uiIndex'
    <3>1. \A i \in DOMAIN utxos : utxos[i].idx \in Nat
      BY <1>2, IndexFacts, RecordTyped DEF Record, FileRecord
    <3> QED BY <1>2, <2>0, <3>1, MarkSpentRecords DEF Record, GuideInv, ChangeBelow, Below
  <2>2. \A i \in DOMAIN utxos' : utxos'[i].chain = "change" => utxos'[i].idx < uiIndex'
    <3>1. /\ retired \in Seq(Record)
          /\ \/ utxos' = retired
             \/ /\ pendingChange # None
                /\ utxos' = AppendFresh(retired, PendingOutput, "change")
                /\ PendingOutput \in Output
      <4>1. pendingChange \in PendingChange => pendingChange # None
        BY ConstantsAssumption DEF PendingChange
      <4> QED BY <1>1, <1>2, <4>1, CommitFacts DEF CommitPending
    <3>2. CASE utxos' = retired
      BY <2>1, <3>2
    <3>3. CASE /\ pendingChange # None /\ PendingOutput \in Output
               /\ utxos' = AppendFresh(retired, PendingOutput, "change")
      <4> DEFINE r == NewRecord(PendingOutput, "change")
      <4>1. r \in Record /\ r.idx = uiIndex
        BY <1>8, <3>3 DEF NewRecord, PendingOutput, Record, FileRecord, Output, Statuses, Handlers
      <4>2. utxos' = Append(retired, r)
        BY <3>3 DEF AppendFresh
      <4> HIDE DEF r, retired
      <4>3. \A i \in DOMAIN utxos' :
              (i \in DOMAIN retired /\ utxos'[i] = retired[i]) \/ utxos'[i] = r
        BY <3>1, <4>1, <4>2, AppendFacts
      <4> QED BY <1>2, <1>8, <2>1, <3>3, <4>1, <4>3
    <3> HIDE DEF retired
    <3> QED BY <3>1, <3>2, <3>3
  <2>3. /\ prevout # None => prevout.idx \in Nat
        /\ \A u \in scanFound : u.idx \in Nat
    BY <1>2, IndexFacts DEF TypeOK, Output
  <2> QED BY <1>1, <2>0, <2>2, <2>3 DEF GuideInv, ChangeBelow, Below
<1>12. PendingOfPayroll' /\ ChangeAddressesFresh'
  <2>1. HasStatus(utxos', pendingSpent, "spent")
    BY <1>1, CommitRetires
  <2> QED BY <1>1, <2>1 DEF PendingOfPayroll, GuideInv, ChangeAddressesFresh
<1> QED BY <1>1, <1>10, <1>11, <1>12 DEF GuideInv

LEMMA RestartStep ==
  ASSUME GuideInv, AutoLoads, Restart
  PROVE  GuideInv'
BY DEF Restart, FreshScreen, files, GuideInv, PayrollsInOrder, Saved, ChangeAddressesFresh,
       ChangeBelow, Below, PendingOfPayroll

LEMMA GuideStep ==
  ASSUME CoreInv, GuideInv, AutoLoads, uiIndex # MaxIndex, [GuideNext]_vars
  PROVE  GuideInv'
<1> USE DEF files, fields, pending, scanning
<1>1. [Next]_vars
  BY GuideIsNext
<1>2. CASE UNCHANGED vars
  BY <1>2 DEF vars, GuideInv, PayrollsInOrder, Saved, ChangeAddressesFresh, ChangeBelow,
     Below, PendingOfPayroll
<1>3. CASE NothingOutstanding /\ BetweenPayrolls
  <2>1. CASE UtxoHandlers \/ StartScan \/ NodeAnswersScan \/ FinishScan \/ ScanFails
    <3>1. ChangeBelow' /\ UNCHANGED <<built, uiIndex, walletIndex, pending>>
      BY <1>1, <1>3, <2>1, BelowStep
    <3> QED BY <1>1, <1>3, <3>1, QuietStep
  <2>2. CASE BuildFromAvailable
    BY <1>3, <2>2, BuildStep
  <2>3. CASE SaveWallet
    BY <2>3 DEF SaveWallet, GuideInv, PayrollsInOrder, Saved, ChangeAddressesFresh,
       ChangeBelow, Below, PendingOfPayroll
  <2> QED BY <1>3, <2>1, <2>2, <2>3 DEF BetweenPayrolls
<1>4. CASE WithPayroll
  <2>1. ASSUME NEW t \in built, Finalize(t) \/ LoadFinalTxHex(t)
        PROVE  GuideInv'
    BY <2>1, ApplyStep DEF Finalize, LoadFinalTxHex
  <2>2. CASE SaveUtxoState
    BY <1>1, <2>2, SaveStep
  <2>3. CASE Restart
    BY <2>3, RestartStep
  <2>4. CASE Broadcast
    BY <2>4 DEF Broadcast, GuideInv, PayrollsInOrder, Saved, ChangeAddressesFresh,
       ChangeBelow, Below, PendingOfPayroll
  <2> QED BY <1>4, <2>1, <2>2, <2>3, <2>4 DEF WithPayroll
<1> QED BY <1>2, <1>3, <1>4 DEF GuideNext

LEMMA GuideInvariant ==
  ASSUME AutoLoads
  PROVE  GuideSpec /\ [](uiIndex # MaxIndex) => [](CoreInv /\ GuideInv)
<1>1. CoreInv /\ [GuideNext]_vars => CoreInv'
  BY GuideIsNext, CoreStep
<1>2. CoreInv /\ GuideInv /\ uiIndex # MaxIndex /\ [GuideNext]_vars => GuideInv'
  BY GuideStep
<1> QED BY InitCore, InitGuide, <1>1, <1>2, PTL DEF GuideSpec

-------------------------------------------------------------------------------

\* No payroll pays change to an address an earlier one used, until the index saturates.
THEOREM ChangeIsFresh ==
  ASSUME AutoLoads
  PROVE  GuideSpec /\ [](uiIndex # MaxIndex) => []ChangeAddressesFresh
<1>1. GuideInv => ChangeAddressesFresh
  BY DEF GuideInv
<1> QED BY <1>1, GuideInvariant, PTL

\* What Finalize leaves pending is exactly the change of the payroll it finalized.
THEOREM PendingIsOfPayroll ==
  ASSUME AutoLoads
  PROVE  GuideSpec /\ [](uiIndex # MaxIndex) => []PendingChangeIsPayrolls
<1>1. GuideInv => PendingChangeIsPayrolls
  BY DEF GuideInv, PendingOfPayroll, PayrollsInOrder, PendingChangeIsPayrolls
<1> QED BY <1>1, GuideInvariant, PTL

\* What is pending and not recorded can be saved: neither the outpoint nor the address of
\* the change is taken, and the input is there.
THEOREM PendingIsSaveable ==
  ASSUME AutoLoads
  PROVE  GuideSpec /\ [](uiIndex # MaxIndex) => []PendingCanBeCommitted
<1>1. CoreInv /\ GuideInv => PendingCanBeCommitted
  <2> SUFFICES ASSUME CoreInv, GuideInv, pendingSpent # None,
                      ~HasStatus(utxos, pendingSpent, "spent")
               PROVE  /\ CanMarkSpent(utxos, pendingSpent)
                      /\ pendingChange # None => CanAppendFresh(utxos, PendingOutput)
    BY DEF PendingCanBeCommitted
  <2>1. PICK t \in built : /\ t.spend = pendingSpent
                           /\ pendingChange = IF t.chg = None THEN None
                                              ELSE [op |-> t.id, idx |-> t.chg]
                           /\ ~IsRecorded(utxos, t.id)
    BY DEF GuideInv, PendingOfPayroll
  <2>2. /\ HasStatus(utxos, pendingSpent, "available")
        /\ t.chg # None => t.chg = uiIndex
    BY <2>1 DEF GuideInv, PayrollsInOrder, Saved
  <2>3. CanMarkSpent(utxos, pendingSpent)
    <3>1. PICK a \in DOMAIN utxos : utxos[a].op = pendingSpent /\ utxos[a].status = "available"
      BY <2>2 DEF HasStatus, RecordedAt
    <3>2. DOMAIN utxos = 1..Len(utxos) /\ Len(utxos) \in Nat
      BY DEF CoreInv, TypeOK
    <3>3. \A j \in 1..(a - 1) : j \in DOMAIN utxos /\ j # a
      BY <3>2
    <3> QED BY <3>1, <3>3 DEF CoreInv, OutpointsUnique, UniqueOutpoints, CanMarkSpent,
               AvailableIndices, IsFirstRecordOf, RecordedAt
  <2>4. ASSUME pendingChange # None
        PROVE  CanAppendFresh(utxos, PendingOutput)
    <3>1. PendingOutput.op = t.id /\ PendingOutput.chain = "change" /\ PendingOutput.idx = uiIndex
      BY <2>1, <2>2, <2>4 DEF PendingOutput
    <3>2. \A i \in DOMAIN utxos : ~SharesAddress(utxos[i], PendingOutput)
      <4>1. \A i \in DOMAIN utxos : utxos[i].chain = "change" => utxos[i].idx < uiIndex
        BY DEF GuideInv, ChangeBelow, Below
      <4>2. uiIndex \in Nat
        BY IndexFacts DEF CoreInv, TypeOK
      <4> QED BY <3>1, <4>1, <4>2 DEF SharesAddress
    <3> QED BY <2>1, <3>1, <3>2 DEF CanAppendFresh
  <2> QED BY <2>3, <2>4
<1> QED BY <1>1, GuideInvariant, PTL
===============================================================================
