------------------------------ MODULE UtxoFileProofs ------------------------------
(***************************************************************************)
(* What the operations on utxos.toml return and keep, for files of any     *)
(* length.  The proofs about the coordinator cite these facts instead of   *)
(* the definitions of the sequence operators.                              *)
(***************************************************************************)
EXTENDS UtxoFile, SequenceFacts

-------------------------------------------------------------------------------
(* The two ways the file grows, seen as one relation.                      *)

\* new is file followed by records of outpoints it does not hold, each available
\* and written by handler how, no two of one outpoint.
Grows(file, new, how) ==
  /\ Len(file) <= Len(new)
  /\ \A i \in 1..Len(file) : new[i] = file[i]
  /\ \A i \in (Len(file) + 1)..Len(new) :
       /\ new[i].status = "available"
       /\ new[i].how = how
       /\ ~IsRecorded(file, new[i].op)
  /\ \A i, j \in (Len(file) + 1)..Len(new) : new[i].op = new[j].op => i = j

\* append_fresh_utxo grows the file by one record.
LEMMA AppendFreshGrows ==
  ASSUME NEW O, NEW I, NEW file \in Seq(FileRecord(O, I)), NEW how \in Handlers,
         NEW u \in [op : O, chain : Chains, idx : I], ~IsRecorded(file, u.op)
  PROVE  /\ AppendFresh(file, u, how) \in Seq(FileRecord(O, I))
         /\ Len(AppendFresh(file, u, how)) = Len(file) + 1
         /\ AppendFresh(file, u, how)[Len(file) + 1] = NewRecord(u, how)
         /\ Grows(file, AppendFresh(file, u, how), how)
<1> DEFINE r == NewRecord(u, how)
<1>1. r \in FileRecord(O, I) /\ r.op = u.op /\ r.status = "available" /\ r.how = how
  BY DEF NewRecord, FileRecord, Statuses
<1> HIDE DEF r
<1>2. /\ Append(file, r) \in Seq(FileRecord(O, I))
      /\ Len(Append(file, r)) = Len(file) + 1
      /\ Len(file) \in Nat
      /\ \A i \in 1..Len(file) : Append(file, r)[i] = file[i]
      /\ Append(file, r)[Len(file) + 1] = r
  BY <1>1
<1>3. (Len(file) + 1)..Len(Append(file, r)) = {Len(file) + 1}
  BY <1>2
<1>4. Grows(file, Append(file, r), how)
  BY <1>1, <1>2, <1>3 DEF Grows
<1> QED BY <1>2, <1>4 DEF AppendFresh, r

\* A set of outputs with distinct outpoints is finite when the outpoints are.
LEMMA DistinctOutputsFinite ==
  ASSUME NEW O, NEW I, IsFiniteSet(O),
         NEW found \in SUBSET [op : O, chain : Chains, idx : I],
         \A u, v \in found : u.op = v.op => u = v
  PROVE  IsFiniteSet(found)
<1> DEFINE f == [u \in found |-> u.op]
<1>1. f \in [found -> O] /\ \A u, v \in found : f[u] = f[v] => u = v
  OBVIOUS
<1>2. f \in Injection(found, O)
  BY <1>1 DEF Injection, IsInjective
<1> QED BY <1>2, FS_Injection DEF ExistsInjection

\* append_scanned_utxo for every finding grows the file, whatever the order of the
\* findings.
LEMMA ScanResultsGrow ==
  ASSUME NEW O, NEW I, IsFiniteSet(O), NEW file \in Seq(FileRecord(O, I)),
         NEW found \in SUBSET [op : O, chain : Chains, idx : I],
         \A u, v \in found : u.op = v.op => u = v,
         NEW new \in ScanResults(file, found)
  PROVE  /\ new \in Seq(FileRecord(O, I))
         /\ Grows(file, new, "scanned")
         /\ \A i \in (Len(file) + 1)..Len(new) :
              \E u \in found : new[i] = NewRecord(u, "scanned")
         /\ \A u \in found : IsRecorded(new, u.op)
<1> DEFINE S == Unrecorded(file, found)
<1>1. S \subseteq found /\ \A u \in S : ~IsRecorded(file, u.op)
  BY DEF Unrecorded
<1> HIDE DEF S
<1>2. Cardinality(S) \in Nat
  BY <1>1, DistinctOutputsFinite, FS_Subset, FS_CardinalityType
<1>3. PICK listed \in SetToSeqs(S) : new = AppendScanned(file, listed)
  BY DEF ScanResults, S
<1> DEFINE n == Cardinality(S)
           t == [k \in 1..n |-> NewRecord(listed[k], "scanned")]
<1>4. /\ listed \in [1..n -> S]
      /\ \A i, j \in 1..n : i # j => listed[i] # listed[j]
  BY <1>3 DEF SetToSeqs
<1> HIDE DEF n
<1>5. n \in Nat
  BY <1>2 DEF n
<1>6. \A k \in 1..n : /\ listed[k] \in S
                      /\ t[k] = NewRecord(listed[k], "scanned")
                      /\ t[k] \in FileRecord(O, I)
                      /\ t[k].op = listed[k].op
                      /\ t[k].status = "available"
                      /\ t[k].how = "scanned"
  BY <1>1, <1>4 DEF NewRecord, FileRecord, Statuses, Handlers
<1>7. DOMAIN listed = 1..n /\ new = file \o t
  BY <1>3, <1>4 DEF AppendScanned
<1>8. t \in [1..n -> FileRecord(O, I)]
  BY <1>6
<1> HIDE DEF t
<1>9. t \in Seq(FileRecord(O, I)) /\ Len(t) = n
  BY <1>5, <1>8
<1>10. /\ new \in Seq(FileRecord(O, I))
       /\ Len(new) = Len(file) + n
       /\ Len(file) \in Nat
       /\ \A i \in 1..(Len(file) + n) :
            new[i] = IF i <= Len(file) THEN file[i] ELSE t[i - Len(file)]
  BY <1>7, <1>9, ConcatProperties
<1>11. \A i \in (Len(file) + 1)..Len(new) :
         /\ i - Len(file) \in 1..n
         /\ new[i] = t[i - Len(file)]
  BY <1>5, <1>10
<1>12. ASSUME NEW i \in (Len(file) + 1)..Len(new)
       PROVE  /\ new[i].status = "available"
              /\ new[i].how = "scanned"
              /\ ~IsRecorded(file, new[i].op)
  BY <1>1, <1>6, <1>11
<1>13. ASSUME NEW i \in (Len(file) + 1)..Len(new), NEW j \in (Len(file) + 1)..Len(new),
              new[i].op = new[j].op
       PROVE  i = j
  <2> DEFINE a == i - Len(file)
             b == j - Len(file)
  <2>1. a \in 1..n /\ b \in 1..n /\ new[i] = t[a] /\ new[j] = t[b]
    BY <1>11
  <2>2. listed[a].op = listed[b].op /\ listed[a] \in found /\ listed[b] \in found
    BY <1>1, <1>6, <1>13, <2>1
  <2>3. a = b
    BY <1>4, <2>1, <2>2
  <2> QED BY <2>3, <1>10
<1>14. /\ Len(file) <= Len(new)
       /\ \A i \in 1..Len(file) : new[i] = file[i]
  BY <1>5, <1>10
<1>15. \A i \in (Len(file) + 1)..Len(new) :
         \E u \in found : new[i] = NewRecord(u, "scanned")
  BY <1>1, <1>6, <1>11
<1>16. ASSUME NEW u \in found PROVE IsRecorded(new, u.op)
  <2>1. CASE u \notin S
    <3>1. PICK i \in DOMAIN file : file[i].op = u.op
      BY <2>1 DEF S, Unrecorded, IsRecorded, RecordedAt
    <3>2. i \in DOMAIN new /\ new[i] = file[i]
      BY <1>5, <1>10, <1>14
    <3> QED BY <3>1, <3>2 DEF IsRecorded, RecordedAt
  <2>2. CASE u \in S
    <3>1. IsFiniteSet(S) /\ Cardinality(1..n) = Cardinality(S)
      <4>1. IsFiniteSet(S)
        BY <1>1, DistinctOutputsFinite, FS_Subset
      <4>2. Cardinality(1..n) = n
        BY <1>5, FS_Interval
      <4> QED BY <4>1, <4>2 DEF n
    <3>2. listed \in Injection(1..n, S)
      BY <1>4 DEF Injection, IsInjective
    <3>3. listed \in Surjection(1..n, S)
      BY <3>1, <3>2, FS_Injection
    <3>4. PICK k \in 1..n : listed[k] = u
      BY <2>2, <3>3 DEF Surjection
    <3>5. Len(file) + k \in (Len(file) + 1)..Len(new) /\ (Len(file) + k) - Len(file) = k
      BY <1>5, <1>10, <3>4
    <3>6. Len(file) + k \in DOMAIN new /\ new[Len(file) + k].op = u.op
      <4>1. new[Len(file) + k] = t[k]
        BY <1>11, <3>5
      <4> QED BY <1>5, <1>6, <1>10, <3>4, <4>1
    <3> QED BY <3>6 DEF IsRecorded, RecordedAt
  <2> QED BY <2>1, <2>2
<1> QED BY <1>10, <1>12, <1>13, <1>14, <1>15, <1>16 DEF Grows

\* A grown file holds one record per outpoint if it did before.
LEMMA GrowsUnique ==
  ASSUME NEW R, NEW file \in Seq(R), NEW new \in Seq(R), NEW how,
         Grows(file, new, how), UniqueOutpoints(file)
  PROVE  UniqueOutpoints(new)
<1> SUFFICES ASSUME NEW i \in DOMAIN new, NEW j \in DOMAIN new, new[i].op = new[j].op
             PROVE  i = j
  BY DEF UniqueOutpoints
<1>1. /\ DOMAIN file = 1..Len(file) /\ DOMAIN new = 1..Len(new)
      /\ Len(file) \in Nat /\ Len(new) \in Nat
  OBVIOUS
<1>2. CASE i \in 1..Len(file) /\ j \in 1..Len(file)
  BY <1>1, <1>2 DEF Grows, UniqueOutpoints
<1>3. CASE i \in 1..Len(file) /\ j \notin 1..Len(file)
  <2>1. j \in (Len(file) + 1)..Len(new)
    BY <1>1, <1>3
  <2>2. IsRecorded(file, new[i].op)
    BY <1>1, <1>3 DEF Grows, IsRecorded, RecordedAt
  <2> QED BY <2>1, <2>2 DEF Grows
<1>4. CASE i \notin 1..Len(file) /\ j \in 1..Len(file)
  <2>1. i \in (Len(file) + 1)..Len(new)
    BY <1>1, <1>4
  <2>2. IsRecorded(file, new[j].op)
    BY <1>1, <1>4 DEF Grows, IsRecorded, RecordedAt
  <2> QED BY <2>1, <2>2 DEF Grows
<1>5. CASE i \notin 1..Len(file) /\ j \notin 1..Len(file)
  BY <1>1, <1>5 DEF Grows
<1> QED BY <1>2, <1>3, <1>4, <1>5

\* A record of a grown file is an old one or an available one of handler how.
LEMMA GrowsRecords ==
  ASSUME NEW R, NEW file \in Seq(R), NEW new \in Seq(R), NEW how,
         Grows(file, new, how)
  PROVE  /\ \A i \in DOMAIN file : i \in DOMAIN new /\ new[i] = file[i]
         /\ \A i \in DOMAIN new :
              \/ i \in DOMAIN file /\ new[i] = file[i]
              \/ /\ new[i].status = "available"
                 /\ new[i].how = how
                 /\ ~IsRecorded(file, new[i].op)
<1>1. /\ DOMAIN file = 1..Len(file) /\ DOMAIN new = 1..Len(new)
      /\ Len(file) \in Nat /\ Len(new) \in Nat
  OBVIOUS
<1>2. \A i \in DOMAIN file : i \in DOMAIN new /\ new[i] = file[i]
  BY <1>1 DEF Grows
<1>3. ASSUME NEW i \in DOMAIN new, i \notin DOMAIN file
      PROVE  i \in (Len(file) + 1)..Len(new)
  BY <1>1, <1>3
<1> QED BY <1>2, <1>3 DEF Grows

-------------------------------------------------------------------------------
(* Removing a record, and marking one spent.                               *)

\* A record of the shrunk file is a record of the file, in the same order, and the
\* record removed is the only one that goes.
LEMMA RemoveAtRecords ==
  ASSUME NEW R, NEW file \in Seq(R), NEW k \in DOMAIN file
  PROVE  /\ RemoveAt(file, k) \in Seq(R)
         /\ \A i \in DOMAIN RemoveAt(file, k) :
              \E p \in DOMAIN file : RemoveAt(file, k)[i] = file[p]
         /\ \A i, j \in DOMAIN RemoveAt(file, k) : i < j =>
              \E p, q \in DOMAIN file : /\ p < q
                                        /\ RemoveAt(file, k)[i] = file[p]
                                        /\ RemoveAt(file, k)[j] = file[q]
         /\ \A p \in DOMAIN file : p # k =>
              \E i \in DOMAIN RemoveAt(file, k) : RemoveAt(file, k)[i] = file[p]
<1> DEFINE new == RemoveAt(file, k)
           at(i) == IF i < k THEN i ELSE i + 1
<1>1. /\ new \in Seq(R)
      /\ DOMAIN new = 1..(Len(file) - 1)
      /\ DOMAIN file = 1..Len(file)
      /\ \A i \in 1..(Len(file) - 1) : new[i] = IF i < k THEN file[i] ELSE file[i + 1]
  BY RemoveAtFacts
<1> HIDE DEF new
<1>2. Len(file) \in Nat /\ k \in 1..Len(file)
  BY <1>1
<1>3. \A i \in DOMAIN new : at(i) \in DOMAIN file /\ new[i] = file[at(i)]
  BY <1>1, <1>2
<1>4. \A i, j \in DOMAIN new : i < j => at(i) < at(j)
  BY <1>1, <1>2
<1>5. ASSUME NEW p \in DOMAIN file, p # k
      PROVE  \E i \in DOMAIN new : new[i] = file[p]
  <2>1. CASE p < k
    <3>1. p \in DOMAIN new /\ new[p] = file[p]
      BY <1>1, <1>2, <2>1
    <3> QED BY <3>1
  <2>2. CASE ~(p < k)
    <3>1. p - 1 \in DOMAIN new /\ ~(p - 1 < k) /\ (p - 1) + 1 = p
      BY <1>1, <1>2, <1>5, <2>2
    <3>2. new[p - 1] = file[p]
      BY <1>1, <3>1
    <3> QED BY <3>1, <3>2
  <2> QED BY <2>1, <2>2
<1> HIDE DEF at
<1>6. \A i \in DOMAIN new : \E p \in DOMAIN file : new[i] = file[p]
  BY <1>3
<1>7. \A i, j \in DOMAIN new : i < j =>
        \E p, q \in DOMAIN file : p < q /\ new[i] = file[p] /\ new[j] = file[q]
  BY <1>3, <1>4
<1> QED BY <1>1, <1>5, <1>6, <1>7 DEF new

\* Removing a record leaves one record per outpoint.
LEMMA RemoveAtUnique ==
  ASSUME NEW R, NEW file \in Seq(R), NEW k \in DOMAIN file, UniqueOutpoints(file)
  PROVE  UniqueOutpoints(RemoveAt(file, k))
<1> DEFINE new == RemoveAt(file, k)
<1>1. new \in Seq(R)
  BY RemoveAtRecords
<1>2. \A i, j \in DOMAIN new : i < j =>
        \E p, q \in DOMAIN file : p < q /\ new[i] = file[p] /\ new[j] = file[q]
  BY RemoveAtRecords
<1> HIDE DEF new
<1>3. DOMAIN new \subseteq Nat /\ DOMAIN file \subseteq Nat
  BY <1>1
<1>4. ASSUME NEW i \in DOMAIN new, NEW j \in DOMAIN new, i < j
      PROVE  new[i].op # new[j].op
  BY <1>2, <1>3, <1>4 DEF UniqueOutpoints
<1>5. \A i, j \in DOMAIN new : i < j \/ i = j \/ j < i
  BY <1>3
<1> QED BY <1>4, <1>5 DEF UniqueOutpoints, new

\* mark_utxo_spent changes no field but the status of the records it finds.
LEMMA MarkSpentRecords ==
  ASSUME NEW O, NEW I, NEW file \in Seq(FileRecord(O, I)), NEW op
  PROVE  /\ MarkSpent(file, op) \in Seq(FileRecord(O, I))
         /\ Len(MarkSpent(file, op)) = Len(file)
         /\ DOMAIN MarkSpent(file, op) = DOMAIN file
         /\ \A i \in DOMAIN file :
              /\ MarkSpent(file, op)[i].op = file[i].op
              /\ MarkSpent(file, op)[i].chain = file[i].chain
              /\ MarkSpent(file, op)[i].idx = file[i].idx
              /\ MarkSpent(file, op)[i].how = file[i].how
              /\ MarkSpent(file, op)[i].status =
                   IF IsFirstRecordOf(file, i, op) THEN "spent" ELSE file[i].status
<1> DEFINE new == MarkSpent(file, op)
<1>1. DOMAIN new = 1..Len(file) /\ DOMAIN file = 1..Len(file) /\ Len(file) \in Nat
  BY DEF MarkSpent
<1>2. \A i \in DOMAIN file : file[i] \in FileRecord(O, I)
  BY <1>1
<1>3. ASSUME NEW i \in DOMAIN file
      PROVE  /\ new[i] \in FileRecord(O, I)
             /\ new[i].op = file[i].op
             /\ new[i].chain = file[i].chain
             /\ new[i].idx = file[i].idx
             /\ new[i].how = file[i].how
             /\ new[i].status =
                  IF IsFirstRecordOf(file, i, op) THEN "spent" ELSE file[i].status
  <2>1. new[i] = IF IsFirstRecordOf(file, i, op)
                   THEN [file[i] EXCEPT !.status = "spent"] ELSE file[i]
    BY DEF MarkSpent
  <2> HIDE DEF new
  <2>2. CASE IsFirstRecordOf(file, i, op)
    BY <1>2, <2>1, <2>2 DEF FileRecord, Statuses
  <2>3. CASE ~IsFirstRecordOf(file, i, op)
    BY <1>2, <2>1, <2>3
  <2> QED BY <2>2, <2>3
<1>4. new \in [1..Len(file) -> FileRecord(O, I)]
  <2>1. new = [i \in 1..Len(file) |-> new[i]]
    BY <1>1 DEF MarkSpent
  <2> HIDE DEF new
  <2> QED BY <1>1, <1>3, <2>1
<1> HIDE DEF new
<1>5. new \in Seq(FileRecord(O, I)) /\ Len(new) = Len(file)
  BY <1>1, <1>4
<1> QED BY <1>1, <1>3, <1>5 DEF new

\* Marking a record spent leaves one record per outpoint.
LEMMA MarkSpentUnique ==
  ASSUME NEW O, NEW I, NEW file \in Seq(FileRecord(O, I)), NEW op,
         UniqueOutpoints(file)
  PROVE  UniqueOutpoints(MarkSpent(file, op))
  BY MarkSpentRecords DEF UniqueOutpoints

-------------------------------------------------------------------------------
(* scan_floor.                                                             *)

\* The floor of a chain is an index, and no available record of it lies below.
LEMMA ScanFloorBounds ==
  ASSUME NEW O, NEW I \in SUBSET Nat, 0 \in I, NEW file \in Seq(FileRecord(O, I)),
         NEW c \in Chains
  PROVE  /\ ScanFloor(file, c) \in I
         /\ \A i \in AvailableIndices(file) :
              file[i].chain = c => ScanFloor(file, c) <= file[i].idx
<1> DEFINE unspent == {file[i].idx : i \in {j \in AvailableIndices(file) :
                                             file[j].chain = c}}
<1>1. unspent \subseteq I
  <2>1. \A i \in DOMAIN file : file[i] \in FileRecord(O, I)
    OBVIOUS
  <2>2. \A i \in DOMAIN file : file[i].idx \in I
    BY <2>1 DEF FileRecord
  <2> QED BY <2>2 DEF AvailableIndices
<1>2. \A i \in AvailableIndices(file) : file[i].chain = c => file[i].idx \in unspent
  OBVIOUS
<1>3. ScanFloor(file, c) = IF unspent = {} THEN 0 ELSE Min(unspent)
  BY DEF ScanFloor
<1> HIDE DEF unspent
<1>4. CASE unspent = {}
  BY <1>2, <1>3, <1>4
<1>5. CASE unspent # {}
  <2>1. unspent \subseteq Nat
    BY <1>1
  <2>2. Min(unspent) \in unspent /\ \A n \in unspent : Min(unspent) <= n
    BY <2>1, <1>5, LeastNatural
  <2>3. ScanFloor(file, c) = Min(unspent)
    BY <1>3, <1>5
  <2> QED BY <1>1, <1>2, <2>2, <2>3
<1> QED BY <1>4, <1>5

-------------------------------------------------------------------------------
(* The status each operation leaves an outpoint in, when the file holds    *)
(* every outpoint once.                                                    *)

\* Growing the file makes the outpoints it adds available and touches no other.
LEMMA GrowsStatus ==
  ASSUME NEW R, NEW file \in Seq(R), NEW new \in Seq(R), NEW how,
         Grows(file, new, how), NEW op, NEW status
  PROVE  HasStatus(new, op, status) <=>
           \/ HasStatus(file, op, status)
           \/ /\ status = "available"
              /\ IsRecorded(new, op)
              /\ ~IsRecorded(file, op)
<1>1. /\ \A i \in DOMAIN file : i \in DOMAIN new /\ new[i] = file[i]
      /\ \A i \in DOMAIN new :
           \/ i \in DOMAIN file /\ new[i] = file[i]
           \/ new[i].status = "available" /\ ~IsRecorded(file, new[i].op)
  BY GrowsRecords
<1> QED BY <1>1 DEF HasStatus, IsRecorded, RecordedAt

\* Removing the record at k forgets its outpoint and touches no other.
LEMMA RemoveAtStatus ==
  ASSUME NEW R, NEW file \in Seq(R), NEW k \in DOMAIN file, UniqueOutpoints(file),
         NEW op, NEW status
  PROVE  HasStatus(RemoveAt(file, k), op, status) <=>
           HasStatus(file, op, status) /\ op # file[k].op
<1> DEFINE new == RemoveAt(file, k)
<1>1. /\ \A i \in DOMAIN new : \E p \in DOMAIN file : new[i] = file[p] /\ p # k
      /\ \A p \in DOMAIN file : p # k => \E i \in DOMAIN new : new[i] = file[p]
  <2>1. /\ DOMAIN new = 1..(Len(file) - 1)
        /\ DOMAIN file = 1..Len(file)
        /\ \A i \in 1..(Len(file) - 1) : new[i] = IF i < k THEN file[i] ELSE file[i + 1]
        /\ Len(file) \in Nat
    BY RemoveAtFacts
  <2> HIDE DEF new
  <2>2. ASSUME NEW i \in DOMAIN new
        PROVE  \E p \in DOMAIN file : new[i] = file[p] /\ p # k
    <3>1. CASE i < k
      BY <2>1, <2>2, <3>1
    <3>2. CASE ~(i < k)
      <4>1. i + 1 \in DOMAIN file /\ i + 1 # k /\ new[i] = file[i + 1]
        BY <2>1, <2>2, <3>2
      <4> QED BY <4>1
    <3> QED BY <3>1, <3>2
  <2> QED BY <2>2, RemoveAtRecords DEF new
<1> HIDE DEF new
<1>2. HasStatus(new, op, status) => HasStatus(file, op, status) /\ op # file[k].op
  BY <1>1 DEF HasStatus, RecordedAt, UniqueOutpoints
<1>3. HasStatus(file, op, status) /\ op # file[k].op => HasStatus(new, op, status)
  BY <1>1 DEF HasStatus, RecordedAt
<1> QED BY <1>2, <1>3 DEF new

\* Marking an outpoint spent touches no other.
LEMMA MarkSpentStatus ==
  ASSUME NEW O, NEW I, NEW file \in Seq(FileRecord(O, I)), NEW x, CanMarkSpent(file, x),
         UniqueOutpoints(file), NEW op, NEW status
  PROVE  HasStatus(MarkSpent(file, x), op, status) <=>
           IF op = x THEN status = "spent" ELSE HasStatus(file, op, status)
<1> DEFINE new == MarkSpent(file, x)
<1>1. PICK m \in DOMAIN file : IsFirstRecordOf(file, m, x)
  BY DEF CanMarkSpent, AvailableIndices
<1>2. \A i \in DOMAIN file : IsFirstRecordOf(file, i, x) <=> file[i].op = x
  BY <1>1 DEF IsFirstRecordOf, RecordedAt, UniqueOutpoints
<1>3. /\ DOMAIN new = DOMAIN file
      /\ \A i \in DOMAIN file :
           /\ new[i].op = file[i].op
           /\ new[i].status = IF file[i].op = x THEN "spent" ELSE file[i].status
  BY <1>2, MarkSpentRecords
<1>4. m \in DOMAIN new /\ new[m].op = x
  BY <1>1, <1>3 DEF IsFirstRecordOf, RecordedAt
<1> HIDE DEF new
<1>5. op = x => (HasStatus(new, op, status) <=> status = "spent")
  BY <1>3, <1>4 DEF HasStatus, RecordedAt
<1>6. op # x => (HasStatus(new, op, status) <=> HasStatus(file, op, status))
  BY <1>3 DEF HasStatus, RecordedAt
<1> QED BY <1>5, <1>6 DEF new

===============================================================================
