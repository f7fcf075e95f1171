------------------------------ MODULE PayrollProofs ------------------------------
(***************************************************************************)
(* What Create PSBT promises of its amounts, for every width of an amount, *)
(* every table and every fee and dust limit.                               *)
(*                                                                         *)
(* The totals are folds over the table.  Each is described by its partial  *)
(* sums, the value after each row, and what holds of the totals is an      *)
(* induction over the rows.                                                *)
(***************************************************************************)
EXTENDS PayrollBuild, SequenceFacts

-------------------------------------------------------------------------------
(* Totals.                                                                 *)

\* The last of some rows is a row, and an amount.
LEMMA LastOf ==
  ASSUME NEW amounts \in Seq(Sats), NEW s \in SUBSET DOMAIN amounts, s # {}
  PROVE  amounts[Max(s)] \in Sats /\ s \ {Max(s)} \in SUBSET DOMAIN amounts
<1>1. DOMAIN amounts = 1..Len(amounts) /\ Len(amounts) \in Nat
  OBVIOUS
<1>2. Max(s) \in s
  BY <1>1, GreatestPosition
<1> QED BY <1>2

\* The partial sums of ExactTotal.
LEMMA ExactSums ==
  ASSUME NEW amounts \in Seq(Sats)
  PROVE  \E sum \in [0..Len(amounts) -> Nat] :
           /\ sum[0] = 0
           /\ \A k \in Nat : k < Len(amounts) =>
                sum[k + 1] = sum[k] + amounts[k + 1]
           /\ ExactTotal(amounts) = sum[Len(amounts)]
<1> DEFINE A == Nat
           Plus(acc, x) == acc + x
           step == [p \in A \X Sats |-> Plus(p[1], p[2])]
           it == CHOOSE f : f = [s \in SUBSET DOMAIN amounts |->
                   IF s = {} THEN 0 ELSE Plus(f[s \ {Max(s)}], amounts[Max(s)])]
<1>1. /\ 0 \in A
      /\ \A acc \in A, x \in Sats : Plus(acc, x) \in A
  BY AmountsAssumption DEF Sats
<1>2. /\ step \in [A \X Sats -> A]
      /\ \A acc \in A, x \in Sats : step[<<acc, x>>] = Plus(acc, x)
  BY <1>1
<1>3. it = [s \in SUBSET DOMAIN amounts |->
              IF s = {} THEN 0 ELSE Plus(it[s \ {Max(s)}], amounts[Max(s)])]
  <2> HIDE DEF step, A
  <2>1. PICK h \in [SUBSET DOMAIN amounts -> A] : IsFold(h, step, 0, amounts)
    BY <1>1, <1>2, FoldExists
  <2>2. ASSUME NEW s \in SUBSET DOMAIN amounts, s # {}
        PROVE  step[<<h[s \ {Max(s)}], amounts[Max(s)]>>]
                 = Plus(h[s \ {Max(s)}], amounts[Max(s)])
    <3> HIDE DEF Plus
    <3> QED BY <1>2, <2>1, <2>2, LastOf
  <2>3. h = [s \in SUBSET DOMAIN amounts |->
               IF s = {} THEN 0 ELSE Plus(h[s \ {Max(s)}], amounts[Max(s)])]
    <3> HIDE DEF Plus
    <3> QED BY <2>1, <2>2 DEF IsFold
  <2> QED BY <2>3
<1>4. ExactTotal(amounts) = it[DOMAIN amounts]
  BY DEF ExactTotal, FoldLeft, MapThenFoldSet
<1> HIDE DEF it, step, A, Plus
<1>5. Follows(it, A, step, 0, amounts)
  <2>1. it[{}] = 0
    BY <1>3
  <2>2. ASSUME NEW s \in SUBSET DOMAIN amounts, s # {}, it[s \ {Max(s)}] \in A
        PROVE  it[s] = step[<<it[s \ {Max(s)}], amounts[Max(s)]>>]
    BY <1>2, <1>3, <2>2, LastOf
  <2> QED BY <2>1, <2>2 DEF Follows
<1>6. PICK sum \in [0..Len(amounts) -> A] :
         PartialResults(sum, step, 0, amounts, it[DOMAIN amounts])
  BY <1>1, <1>2, <1>5, FoldResults
<1>7. \A k \in Nat : k < Len(amounts) => sum[k + 1] = Plus(sum[k], amounts[k + 1])
  <2>1. ASSUME NEW k \in Nat, k < Len(amounts)
        PROVE  sum[k] \in A /\ amounts[k + 1] \in Sats
    BY <2>1
  <2> QED BY <1>2, <1>6, <2>1 DEF PartialResults
<1>8. sum \in [0..Len(amounts) -> Nat]
  BY <1>6 DEF A
<1>9. \A k \in Nat : k < Len(amounts) => sum[k + 1] = sum[k] + amounts[k + 1]
  BY <1>7 DEF Plus
<1> HIDE DEF Plus
<1> QED BY <1>4, <1>6, <1>8, <1>9 DEF PartialResults

\* Those of WrappedTotal.
LEMMA WrappedSums ==
  ASSUME NEW amounts \in Seq(Sats)
  PROVE  \E sum \in [0..Len(amounts) -> Sats] :
           /\ sum[0] = 0
           /\ \A k \in Nat : k < Len(amounts) =>
                sum[k + 1] = (sum[k] + amounts[k + 1]) % (MaxSat + 1)
           /\ WrappedTotal(amounts) = sum[Len(amounts)]
<1> DEFINE A == Sats
           Plus(acc, x) == (acc + x) % (MaxSat + 1)
           step == [p \in A \X Sats |-> Plus(p[1], p[2])]
           it == CHOOSE f : f = [s \in SUBSET DOMAIN amounts |->
                   IF s = {} THEN 0 ELSE Plus(f[s \ {Max(s)}], amounts[Max(s)])]
<1>1. /\ 0 \in A
      /\ \A acc \in A, x \in Sats : Plus(acc, x) \in A
  BY AmountsAssumption DEF Sats
<1>2. /\ step \in [A \X Sats -> A]
      /\ \A acc \in A, x \in Sats : step[<<acc, x>>] = Plus(acc, x)
  BY <1>1
<1>3. it = [s \in SUBSET DOMAIN amounts |->
              IF s = {} THEN 0 ELSE Plus(it[s \ {Max(s)}], amounts[Max(s)])]
  <2> HIDE DEF step, A
  <2>1. PICK h \in [SUBSET DOMAIN amounts -> A] : IsFold(h, step, 0, amounts)
    BY <1>1, <1>2, FoldExists
  <2>2. ASSUME NEW s \in SUBSET DOMAIN amounts, s # {}
        PROVE  step[<<h[s \ {Max(s)}], amounts[Max(s)]>>]
                 = Plus(h[s \ {Max(s)}], amounts[Max(s)])
    <3> HIDE DEF Plus
    <3> QED BY <1>2, <2>1, <2>2, LastOf
  <2>3. h = [s \in SUBSET DOMAIN amounts |->
               IF s = {} THEN 0 ELSE Plus(h[s \ {Max(s)}], amounts[Max(s)])]
    <3> HIDE DEF Plus
    <3> QED BY <2>1, <2>2 DEF IsFold
  <2> QED BY <2>3
<1>4. WrappedTotal(amounts) = it[DOMAIN amounts]
  BY DEF WrappedTotal, FoldLeft, MapThenFoldSet
<1> HIDE DEF it, step, A, Plus
<1>5. Follows(it, A, step, 0, amounts)
  <2>1. it[{}] = 0
    BY <1>3
  <2>2. ASSUME NEW s \in SUBSET DOMAIN amounts, s # {}, it[s \ {Max(s)}] \in A
        PROVE  it[s] = step[<<it[s \ {Max(s)}], amounts[Max(s)]>>]
    BY <1>2, <1>3, <2>2, LastOf
  <2> QED BY <2>1, <2>2 DEF Follows
<1>6. PICK sum \in [0..Len(amounts) -> A] :
         PartialResults(sum, step, 0, amounts, it[DOMAIN amounts])
  BY <1>1, <1>2, <1>5, FoldResults
<1>7. \A k \in Nat : k < Len(amounts) => sum[k + 1] = Plus(sum[k], amounts[k + 1])
  <2>1. ASSUME NEW k \in Nat, k < Len(amounts)
        PROVE  sum[k] \in A /\ amounts[k + 1] \in Sats
    BY <2>1
  <2> QED BY <1>2, <1>6, <2>1 DEF PartialResults
<1>8. sum \in [0..Len(amounts) -> Sats]
  BY <1>6 DEF A
<1>9. \A k \in Nat : k < Len(amounts) => sum[k + 1] = (sum[k] + amounts[k + 1]) % (MaxSat + 1)
  BY <1>7 DEF Plus
<1> HIDE DEF Plus
<1> QED BY <1>4, <1>6, <1>8, <1>9 DEF PartialResults

\* Those of CheckedTotal: None from the first sum that does not fit.
LEMMA CheckedSums ==
  ASSUME NEW amounts \in Seq(Sats)
  PROVE  \E sum \in [0..Len(amounts) -> Sats \cup {None}] :
           /\ sum[0] = 0
           /\ \A k \in Nat : k < Len(amounts) =>
                sum[k + 1] = IF sum[k] = None THEN None
                            ELSE IF sum[k] + amounts[k + 1] > MaxSat THEN None ELSE sum[k] + amounts[k + 1]
           /\ CheckedTotal(amounts) = sum[Len(amounts)]
<1> DEFINE A == Sats \cup {None}
           Plus(acc, x) == IF acc = None THEN None
                            ELSE IF acc + x > MaxSat THEN None ELSE acc + x
           step == [p \in A \X Sats |-> Plus(p[1], p[2])]
           it == CHOOSE f : f = [s \in SUBSET DOMAIN amounts |->
                   IF s = {} THEN 0 ELSE Plus(f[s \ {Max(s)}], amounts[Max(s)])]
<1>1. /\ 0 \in A
      /\ \A acc \in A, x \in Sats : Plus(acc, x) \in A
  BY AmountsAssumption DEF Sats
<1>2. /\ step \in [A \X Sats -> A]
      /\ \A acc \in A, x \in Sats : step[<<acc, x>>] = Plus(acc, x)
  BY <1>1
<1>3. it = [s \in SUBSET DOMAIN amounts |->
              IF s = {} THEN 0 ELSE Plus(it[s \ {Max(s)}], amounts[Max(s)])]
  <2> HIDE DEF step, A
  <2>1. PICK h \in [SUBSET DOMAIN amounts -> A] : IsFold(h, step, 0, amounts)
    BY <1>1, <1>2, FoldExists
  <2>2. ASSUME NEW s \in SUBSET DOMAIN amounts, s # {}
        PROVE  step[<<h[s \ {Max(s)}], amounts[Max(s)]>>]
                 = Plus(h[s \ {Max(s)}], amounts[Max(s)])
    <3> HIDE DEF Plus
    <3> QED BY <1>2, <2>1, <2>2, LastOf
  <2>3. h = [s \in SUBSET DOMAIN amounts |->
               IF s = {} THEN 0 ELSE Plus(h[s \ {Max(s)}], amounts[Max(s)])]
    <3> HIDE DEF Plus
    <3> QED BY <2>1, <2>2 DEF IsFold
  <2> QED BY <2>3
<1>4. CheckedTotal(amounts) = it[DOMAIN amounts]
  BY DEF CheckedTotal, FoldLeft, MapThenFoldSet
<1> HIDE DEF it, step, A, Plus
<1>5. Follows(it, A, step, 0, amounts)
  <2>1. it[{}] = 0
    BY <1>3
  <2>2. ASSUME NEW s \in SUBSET DOMAIN amounts, s # {}, it[s \ {Max(s)}] \in A
        PROVE  it[s] = step[<<it[s \ {Max(s)}], amounts[Max(s)]>>]
    BY <1>2, <1>3, <2>2, LastOf
  <2> QED BY <2>1, <2>2 DEF Follows
<1>6. PICK sum \in [0..Len(amounts) -> A] :
         PartialResults(sum, step, 0, amounts, it[DOMAIN amounts])
  BY <1>1, <1>2, <1>5, FoldResults
<1>7. \A k \in Nat : k < Len(amounts) => sum[k + 1] = Plus(sum[k], amounts[k + 1])
  <2>1. ASSUME NEW k \in Nat, k < Len(amounts)
        PROVE  sum[k] \in A /\ amounts[k + 1] \in Sats
    BY <2>1
  <2> QED BY <1>2, <1>6, <2>1 DEF PartialResults
<1>8. sum \in [0..Len(amounts) -> Sats \cup {None}]
  BY <1>6 DEF A
<1>9. \A k \in Nat : k < Len(amounts) => sum[k + 1] = IF sum[k] = None THEN None
                             ELSE IF sum[k] + amounts[k + 1] > MaxSat THEN None
                             ELSE sum[k] + amounts[k + 1]
  BY <1>7 DEF Plus
<1> HIDE DEF Plus
<1> QED BY <1>4, <1>6, <1>8, <1>9 DEF PartialResults

\* The sum is a number, and the total the screen shows an amount.
LEMMA TotalsTyped ==
  ASSUME NEW amounts \in Seq(Sats)
  PROVE  ExactTotal(amounts) \in Nat /\ WrappedTotal(amounts) \in Sats
<1>1. Len(amounts) \in Nat /\ Len(amounts) \in 0..Len(amounts)
  OBVIOUS
<1>2. ExactTotal(amounts) \in Nat
  <2>1. PICK sum \in [0..Len(amounts) -> Nat] : ExactTotal(amounts) = sum[Len(amounts)]
    BY ExactSums
  <2> QED BY <1>1, <2>1
<1>3. WrappedTotal(amounts) \in Sats
  <2>1. PICK sum \in [0..Len(amounts) -> Sats] : WrappedTotal(amounts) = sum[Len(amounts)]
    BY WrappedSums
  <2> QED BY <1>1, <2>1
<1> QED BY <1>2, <1>3

\* The checked total is the sum if that is an amount, and None if it is not.
LEMMA CheckedTotalIsExact ==
  ASSUME NEW amounts \in Seq(Sats)
  PROVE  CheckedTotal(amounts) =
           IF ExactTotal(amounts) <= MaxSat THEN ExactTotal(amounts) ELSE None
<1> DEFINE n == Len(amounts)
<1>1. n \in Nat /\ MaxSat \in Nat /\ None \notin Sats
  BY AmountsAssumption
<1>2. PICK e \in [0..n -> Nat] :
        /\ e[0] = 0
        /\ \A k \in Nat : k < n => e[k + 1] = e[k] + amounts[k + 1]
        /\ ExactTotal(amounts) = e[n]
  BY ExactSums
<1>3. PICK c \in [0..n -> Sats \cup {None}] :
        /\ c[0] = 0
        /\ \A k \in Nat : k < n =>
             c[k + 1] = IF c[k] = None THEN None
                        ELSE IF c[k] + amounts[k + 1] > MaxSat THEN None
                        ELSE c[k] + amounts[k + 1]
        /\ CheckedTotal(amounts) = c[n]
  BY CheckedSums
<1> DEFINE Agree(k) == c[k] = IF e[k] <= MaxSat THEN e[k] ELSE None
           agree == {k \in Nat : k <= n => Agree(k)}
<1>4. 0 \in agree
  BY <1>1, <1>2, <1>3
<1>5. ASSUME NEW k \in Nat, k < n, k \in agree
      PROVE  k + 1 \in agree
  <2>1. Agree(k) /\ amounts[k + 1] \in Nat /\ e[k] \in Nat
    <3>1. k + 1 \in DOMAIN amounts /\ k \in 0..n
      BY <1>1, <1>5
    <3> QED BY <1>2, <1>5, <3>1 DEF Sats
  <2>2. CASE e[k] <= MaxSat
    <3>1. c[k] = e[k] /\ c[k] # None
      BY <1>1, <2>1, <2>2 DEF Sats
    <3>2. c[k + 1] = IF e[k] + amounts[k + 1] > MaxSat THEN None ELSE e[k] + amounts[k + 1]
      BY <1>3, <1>5, <3>1
    <3>3. e[k + 1] = e[k] + amounts[k + 1]
      BY <1>2, <1>5
    <3>4. Agree(k + 1)
      BY <1>1, <2>1, <3>2, <3>3
    <3> HIDE DEF Agree
    <3> QED BY <3>4
  <2>3. CASE ~(e[k] <= MaxSat)
    <3>1. c[k] = None
      BY <2>1, <2>3
    <3>2. c[k + 1] = None
      BY <1>3, <1>5, <3>1
    <3>3. e[k + 1] = e[k] + amounts[k + 1]
      BY <1>2, <1>5
    <3>4. ~(e[k + 1] <= MaxSat)
      BY <1>1, <2>1, <2>3, <3>3
    <3>5. Agree(k + 1)
      BY <3>2, <3>4
    <3> HIDE DEF Agree
    <3> QED BY <3>5
  <2> QED BY <2>2, <2>3
<1> HIDE DEF agree
<1>6. n \in agree
  BY <1>1, <1>4, <1>5, UpTo
<1> QED BY <1>1, <1>2, <1>3, <1>6 DEF agree

\* The total the screen shows did not wrap if the sum is an amount.
LEMMA WrappedTotalIsExact ==
  ASSUME NEW amounts \in Seq(Sats), ExactTotal(amounts) \in Sats
  PROVE  WrappedTotal(amounts) = ExactTotal(amounts)
<1> DEFINE n == Len(amounts)
<1>1. n \in Nat /\ MaxSat \in Nat
  BY AmountsAssumption
<1>2. PICK e \in [0..n -> Nat] :
        /\ e[0] = 0
        /\ \A k \in Nat : k < n => e[k + 1] = e[k] + amounts[k + 1]
        /\ ExactTotal(amounts) = e[n]
  BY ExactSums
<1>3. PICK w \in [0..n -> Sats] :
        /\ w[0] = 0
        /\ \A k \in Nat : k < n => w[k + 1] = (w[k] + amounts[k + 1]) % (MaxSat + 1)
        /\ WrappedTotal(amounts) = w[n]
  BY WrappedSums
<1> DEFINE agree == {k \in Nat : k <= n => e[k] > MaxSat \/ w[k] = e[k]}
<1>4. 0 \in agree
  BY <1>2, <1>3
<1>5. ASSUME NEW k \in Nat, k < n, k \in agree
      PROVE  k + 1 \in agree
  <2>1. e[k] \in Nat /\ amounts[k + 1] \in Nat /\ e[k + 1] = e[k] + amounts[k + 1]
    <3>1. k + 1 \in DOMAIN amounts /\ k \in 0..n
      BY <1>1, <1>5
    <3>2. amounts[k + 1] \in Sats
      BY <3>1
    <3>3. amounts[k + 1] \in Nat
      BY <3>2, AmountsAssumption DEF Sats
    <3>4. e[k] \in Nat
      BY <3>1
    <3> HIDE DEF agree
    <3> QED BY <1>2, <1>5, <3>3, <3>4
  <2>2. CASE e[k + 1] > MaxSat
    BY <2>2
  <2>3. CASE ~(e[k + 1] > MaxSat)
    <3>1. w[k] = e[k]
      BY <1>1, <1>5, <2>1, <2>3
    <3>2. w[k + 1] = e[k + 1] % (MaxSat + 1)
      BY <1>3, <1>5, <2>1, <3>1
    <3>3. e[k + 1] \in 0..MaxSat
      BY <1>1, <2>1, <2>3
    <3>4. \A x \in 0..MaxSat : x % (MaxSat + 1) = x
      BY <1>1
    <3> QED BY <3>2, <3>3, <3>4
  <2> QED BY <2>2, <2>3
<1> HIDE DEF agree
<1>6. n \in agree
  BY <1>1, <1>4, <1>5, UpTo
<1>7. ~(e[n] > MaxSat)
  BY <1>1, <1>2 DEF Sats
<1> QED BY <1>2, <1>3, <1>6, <1>7 DEF agree

\* The amounts of a table.
LEMMA AmountsTyped ==
  ASSUME NEW recipients \in Seq(Recipient)
  PROVE  Amounts(recipients) \in Seq(Sats)
<1>1. DOMAIN recipients = 1..Len(recipients) /\ Len(recipients) \in Nat
  OBVIOUS
<1>2. \A i \in DOMAIN recipients : recipients[i] \in Recipient
  OBVIOUS
<1>3. \A i \in DOMAIN recipients : recipients[i].amount \in Sats
  BY <1>2 DEF Recipient
<1> QED BY <1>1, <1>3 DEF Amounts

-------------------------------------------------------------------------------
(* The amounts of a payroll.                                               *)

\* What the settled amounts promise, of the total t they were computed from.
LEMMA SettledAmounts ==
  ASSUME NEW prevout \in Sats, NEW t \in Sats, NEW f \in Sats, NEW dust \in Sats,
         Covers(prevout, t, f)
  PROVE  LET change == ChangeAmount(prevout, t, f, dust)
             effective == EffectiveFee(prevout, t, change)
         IN  /\ change \in Sats \cup {None}
             /\ effective \in Sats
             /\ prevout = t + effective + (IF change = None THEN 0 ELSE change)
             /\ effective >= f
             /\ effective > f => change = None /\ effective - f < dust
             /\ change # None => change > 0 /\ change >= dust
<1> DEFINE left == prevout - (t + f)
           change == ChangeAmount(prevout, t, f, dust)
           effective == EffectiveFee(prevout, t, change)
<1>1. /\ prevout \in Nat /\ t \in Nat /\ f \in Nat /\ dust \in Nat /\ MaxSat \in Nat
      /\ prevout >= t + f /\ prevout <= MaxSat
      /\ left \in Sats
  BY AmountsAssumption DEF Sats, Covers
<1>2. CASE left > 0 /\ (dust = 0 \/ left >= dust)
  <2>1. change = left /\ change # None
    BY <1>1, <1>2, AmountsAssumption DEF ChangeAmount
  <2>2. effective = (prevout - t) - left
    BY <2>1 DEF EffectiveFee
  <2>3. effective = f
    BY <1>1, <2>2
  <2> HIDE DEF change, effective
  <2> QED BY <1>1, <1>2, <2>1, <2>3 DEF change, effective
<1>3. CASE ~(left > 0 /\ (dust = 0 \/ left >= dust))
  <2>1. change = None
    BY <1>3 DEF ChangeAmount
  <2>2. effective = prevout - t
    BY <2>1 DEF EffectiveFee
  <2>3. effective = f + left /\ effective \in Sats
    BY <1>1, <2>2 DEF Sats
  <2>4. left = 0 \/ (dust # 0 /\ left < dust)
    BY <1>1, <1>3
  <2> HIDE DEF change, effective
  <2> QED BY <1>1, <2>1, <2>2, <2>3, <2>4 DEF change, effective
<1> QED BY <1>2, <1>3

\* The suggested fee is an amount: the product saturates.
LEMMA SuggestionTyped ==
  ASSUME NEW r \in Sats, NEW count \in Nat
  PROVE  SuggestedFee(r, count) \in Sats
<1>1. r * (BaseBytes + RowBytes * count) \in Nat
  <2>1. RowBytes * count \in Nat /\ BaseBytes \in Nat /\ r \in Nat
    BY AmountsAssumption DEF Sats
  <2> DEFINE bytes == BaseBytes + RowBytes * count
  <2>2. bytes \in Nat
    BY <2>1
  <2> HIDE DEF bytes
  <2>3. r * bytes \in Nat
    BY <2>1, <2>2
  <2> QED BY <2>3 DEF bytes
<1> DEFINE product == r * (BaseBytes + RowBytes * count)
<1> HIDE DEF product
<1>2. (IF product > MaxSat THEN MaxSat ELSE product) \in Sats
  BY <1>1, AmountsAssumption DEF Sats, product
<1> QED BY <1>2 DEF SuggestedFee, product

\* The fields of the screen, and the total it shows.
FieldsTyped ==
  /\ rows \in Seq(Recipient)
  /\ total = WrappedTotal(Amounts(rows))
  /\ rate \in Sats
  /\ suggested \in Sats
  /\ fee \in Sats \cup {None}
  /\ manual \in BOOLEAN

FileTyped == file \in Seq(Recipient) \cup {None}

\* What Create PSBT built is of the rows of the table: every change of them ends it.
ResultInv ==
  /\ result \in Result \cup {None}
  /\ result # None => result.paid = Amounts(rows)
  /\ PsbtBalances
  /\ FeeAsAsked
  /\ NoDustOutput

PayrollInv ==
  /\ FieldsTyped
  /\ FileTyped
  /\ ResultInv
  /\ SavedFileLoads
  /\ AutoFeeIsSuggestion

\* Without a result there is nothing to promise of it.
LEMMA NoResult == result = None => ResultInv
BY DEF ResultInv, PsbtBalances, FeeAsAsked, NoDustOutput

\* Changing the table recomputes the total and the suggestion, and the fee with it
\* unless the user took it over.
LEMMA EntriesTyped ==
  ASSUME FieldsTyped, AutoFeeIsSuggestion, NEW entries \in Seq(Recipient),
         SetRecipientEntries(entries)
  PROVE  FieldsTyped' /\ AutoFeeIsSuggestion'
<1>1. Len(entries) \in Nat /\ rate \in Sats
  BY DEF FieldsTyped
<1>2. suggested' \in Sats
  BY <1>1, SuggestionTyped DEF SetRecipientEntries
<1> QED BY <1>2 DEF SetRecipientEntries, FieldsTyped, AutoFeeIsSuggestion

\* The first state.
LEMMA InitPayroll == Init => PayrollInv
<1> SUFFICES ASSUME Init PROVE PayrollInv
  OBVIOUS
<1>1. rate \in Sats
  BY AmountsAssumption DEF Init
<1>2. suggested \in Sats
  BY <1>1, SuggestionTyped DEF Init
<1>3. rows = <<>> /\ rows \in Seq(Recipient)
  BY DEF Init
<1>4. total = WrappedTotal(Amounts(rows))
  <2>1. Amounts(rows) \in Seq(Sats) /\ Amounts(rows) = <<>>
    BY <1>3, AmountsTyped DEF Amounts
  <2>2. PICK sum \in [0..Len(Amounts(rows)) -> Sats] :
          sum[0] = 0 /\ WrappedTotal(Amounts(rows)) = sum[Len(Amounts(rows))]
    BY <2>1, WrappedSums
  <2>3. Len(Amounts(rows)) = 0
    BY <2>1
  <2> QED BY <2>2, <2>3 DEF Init
<1>5. ResultInv
  BY NoResult DEF Init
<1> QED BY <1>1, <1>2, <1>3, <1>4, <1>5
        DEF Init, PayrollInv, FieldsTyped, FileTyped, SavedFileLoads, AutoFeeIsSuggestion

\* Create PSBT keeps the promises of its amounts.
LEMMA CreateStep ==
  ASSUME PayrollInv, NEW prevout \in Prevouts, NEW dust \in Dusts,
         CreatePsbt(prevout, dust)
  PROVE  PayrollInv'
<1> DEFINE t == CheckedTotal(Amounts(rows))
           change == ChangeAmount(prevout, t, fee, dust)
           effective == EffectiveFee(prevout, t, change)
<1>1. /\ prevout \in Sats /\ dust \in Sats /\ t \in Sats /\ fee \in Sats
      /\ Covers(prevout, t, fee)
  BY AmountsAssumption DEF CreatePsbt, Payable, PayrollInv, FieldsTyped
<1>2. Amounts(rows) \in Seq(Sats)
  BY AmountsTyped DEF PayrollInv, FieldsTyped
<1>3. t = ExactTotal(Amounts(rows))
  BY <1>1, <1>2, CheckedTotalIsExact, AmountsAssumption
<1> HIDE DEF t
<1>4. /\ change \in Sats \cup {None} /\ effective \in Sats
      /\ prevout = t + effective + (IF change = None THEN 0 ELSE change)
      /\ effective >= fee
      /\ effective > fee => change = None /\ effective - fee < dust
      /\ change # None => change > 0 /\ change >= dust
  BY <1>1, SettledAmounts
<1>5. result' = [paid |-> Amounts(rows), change |-> change, effective |-> effective,
                 fee |-> fee, prevout |-> prevout, dust |-> dust]
  BY DEF CreatePsbt, t
<1> HIDE DEF change, effective
<1>6. result' \in Result /\ result'.paid = Amounts(rows)
  BY <1>1, <1>2, <1>4, <1>5 DEF Result
<1>7. PsbtBalances'
  BY <1>3, <1>4, <1>5 DEF PsbtBalances
<1>8. FeeAsAsked'
  BY <1>4, <1>5 DEF FeeAsAsked
<1>9. NoDustOutput'
  <2>1. \A i \in DOMAIN Amounts(rows) : Amounts(rows)[i] > 0 /\ Amounts(rows)[i] >= dust
    BY DEF CreatePsbt, Payable, Loads, Amounts
  <2>2. result'.paid = Amounts(rows) /\ result'.dust = dust /\ result'.change = change
    BY <1>5
  <2> QED BY <1>4, <2>1, <2>2 DEF NoDustOutput
<1>10. file' = rows /\ Loads(rows)
  BY DEF CreatePsbt
<1>11. UNCHANGED <<rows, total, rate, suggested, fee, manual>>
  BY DEF CreatePsbt
<1>12. ResultInv'
  BY <1>6, <1>7, <1>8, <1>9, <1>11 DEF ResultInv
<1> QED BY <1>10, <1>11, <1>12
        DEF PayrollInv, FieldsTyped, FileTyped, SavedFileLoads, AutoFeeIsSuggestion

\* Every handler of the screen keeps the promises, Create PSBT bailing included.
LEMMA PayrollStep ==
  ASSUME PayrollInv, [Next]_vars
  PROVE  PayrollInv'
<1> USE DEF PayrollInv
<1>1. ASSUME NEW entries \in Seq(Recipient), SetRecipientEntries(entries),
             result' = None, file' = file \/ (file' = entries /\ Loads(entries))
      PROVE  PayrollInv'
  <2>1. FieldsTyped' /\ AutoFeeIsSuggestion'
    BY <1>1, EntriesTyped
  <2>2. ResultInv'
    BY <1>1, NoResult DEF ResultInv, PsbtBalances, FeeAsAsked, NoDustOutput
  <2> QED BY <1>1, <2>1, <2>2 DEF FileTyped, SavedFileLoads
<1>2. ASSUME NEW entry \in Entries, AddRecipient(entry)
      PROVE  PayrollInv'
  <2>1. Append(rows, entry) \in Seq(Recipient)
    BY AmountsAssumption DEF FieldsTyped
  <2> QED BY <1>1, <1>2, <2>1 DEF AddRecipient
<1>3. ASSUME NEW i \in DOMAIN rows, RemoveRecipient(i)
      PROVE  PayrollInv'
  <2>1. RemoveAt(rows, i) \in Seq(Recipient)
    BY RemoveAtFacts DEF FieldsTyped
  <2> QED BY <1>1, <1>3, <2>1 DEF RemoveRecipient
<1>4. CASE SaveRecipients
  BY <1>1, <1>4 DEF SaveRecipients, FieldsTyped
<1>5. ASSUME NEW f \in Fees \cup {None}, EditFee(f)
      PROVE  PayrollInv'
  <2>1. f \in Sats \cup {None}
    BY AmountsAssumption
  <2>2. FieldsTyped' /\ FileTyped' /\ SavedFileLoads' /\ AutoFeeIsSuggestion'
    BY <1>5, <2>1 DEF EditFee, FieldsTyped, FileTyped, SavedFileLoads, AutoFeeIsSuggestion
  <2>3. ResultInv'
    BY <1>5 DEF EditFee, ResultInv, PsbtBalances, FeeAsAsked, NoDustOutput
  <2> QED BY <2>2, <2>3
<1>6. ASSUME NEW r \in Rates, EditRate(r)
      PROVE  PayrollInv'
  <2>1. r \in Sats
    BY AmountsAssumption
  <2>2. FieldsTyped' /\ FileTyped' /\ SavedFileLoads' /\ AutoFeeIsSuggestion'
    BY <1>6, <2>1 DEF EditRate, FieldsTyped, FileTyped, SavedFileLoads, AutoFeeIsSuggestion
  <2>3. ResultInv'
    BY <1>6 DEF EditRate, ResultInv, PsbtBalances, FeeAsAsked, NoDustOutput
  <2> QED BY <2>2, <2>3
<1>7. ASSUME NEW prevout \in Prevouts, NEW dust \in Dusts, CreatePsbt(prevout, dust)
      PROVE  PayrollInv'
  BY <1>7, CreateStep
<1>8. CASE CreatePsbtFails
  <2>1. ResultInv'
    BY <1>8 DEF CreatePsbtFails, ResultInv, PsbtBalances, FeeAsAsked, NoDustOutput
  <2> QED BY <1>8, <2>1
          DEF CreatePsbtFails, FieldsTyped, FileTyped, SavedFileLoads, AutoFeeIsSuggestion
<1>9. CASE Restart
  <2>1. rate' \in Sats /\ rows' \in Seq(Recipient)
    <3>1. rate' \in Rates /\ (rows' = <<>> \/ (file # None /\ rows' = file))
      BY <1>9 DEF Restart
    <3>2. <<>> \in Seq(Recipient)
      OBVIOUS
    <3> QED BY <3>1, <3>2, AmountsAssumption DEF FileTyped
  <2>2. suggested' \in Sats
    <3>1. Len(rows') \in Nat
      BY <2>1
    <3> QED BY <1>9, <2>1, <3>1, SuggestionTyped DEF Restart
  <2>3. ResultInv'
    BY <1>9 DEF Restart, ResultInv, PsbtBalances, FeeAsAsked, NoDustOutput
  <2> QED BY <1>9, <2>1, <2>2, <2>3
          DEF Restart, FieldsTyped, FileTyped, SavedFileLoads, AutoFeeIsSuggestion
<1>10. CASE UNCHANGED vars
  <2>1. ResultInv'
    BY <1>10 DEF vars, ResultInv, PsbtBalances, FeeAsAsked, NoDustOutput
  <2> QED BY <1>10, <2>1
          DEF vars, FieldsTyped, FileTyped, SavedFileLoads, AutoFeeIsSuggestion
<1> QED BY <1>2, <1>3, <1>4, <1>5, <1>6, <1>7, <1>8, <1>9, <1>10 DEF Next

\* The promises hold from the start of the program on.
THEOREM PayrollInvariant == Spec => []PayrollInv
<1>1. PayrollInv /\ [Next]_vars => PayrollInv'
  BY PayrollStep
<1> QED BY InitPayroll, <1>1, PTL DEF Spec

-------------------------------------------------------------------------------

\* Every field keeps its type: the total shown, whose sum wraps, and the amounts of a
\* payroll, whose sum is checked, are amounts.
THEOREM PayrollTypeCorrect == Spec => []TypeOK
<1>1. PayrollInv => TypeOK
  <2> SUFFICES ASSUME PayrollInv PROVE TypeOK
    OBVIOUS
  <2>1. Amounts(rows) \in Seq(Sats)
    BY AmountsTyped DEF PayrollInv, FieldsTyped
  <2>2. total \in Sats
    BY <2>1, TotalsTyped DEF PayrollInv, FieldsTyped
  <2> QED BY <2>2 DEF TypeOK, PayrollInv, FieldsTyped, FileTyped, ResultInv
<1> QED BY PayrollInvariant, <1>1, PTL

\* A PSBT neither creates nor loses a satoshi: the sums are of numbers, for any number
\* of recipients and any width of an amount.
THEOREM NoSatoshiIsLost == Spec => []PsbtBalances
<1>1. PayrollInv => PsbtBalances
  BY DEF PayrollInv, ResultInv
<1> QED BY PayrollInvariant, <1>1, PTL

\* The total on the screen is the total of the PSBT just built.
THEOREM ShownTotalsArePaid == Spec => []ShownTotalIsPaid
<1>1. PayrollInv => ShownTotalIsPaid
  <2> SUFFICES ASSUME PayrollInv, result # None
               PROVE  total = ExactTotal(result.paid)
    BY DEF ShownTotalIsPaid
  <2> DEFINE t == ExactTotal(result.paid)
  <2>1. /\ total = WrappedTotal(result.paid)
        /\ result \in Result
        /\ result.prevout = t + result.effective
                             + (IF result.change = None THEN 0 ELSE result.change)
    BY DEF PayrollInv, FieldsTyped, ResultInv, PsbtBalances
  <2>2. result.paid \in Seq(Sats)
    BY <2>1 DEF Result
  <2>3. t \in Nat
    BY <2>2, TotalsTyped
  <2>4. /\ result.prevout \in Sats /\ result.effective \in Sats
        /\ result.change = None \/ result.change \in Sats
    BY <2>1 DEF Result
  <2> HIDE DEF t
  <2>5. t \in Sats
    BY <2>1, <2>3, <2>4, AmountsAssumption DEF Sats
  <2> QED BY <2>1, <2>2, <2>5, WrappedTotalIsExact DEF t
<1> QED BY PayrollInvariant, <1>1, PTL

\* The miner gets the fee asked for, and more only when the rest of the input would
\* have made a change output below the dust limit.
THEOREM FeesAreAsAsked == Spec => []FeeAsAsked
<1>1. PayrollInv => FeeAsAsked
  BY DEF PayrollInv, ResultInv
<1> QED BY PayrollInvariant, <1>1, PTL

\* No PSBT has an output below its dust limit, or an empty one.
THEOREM NoOutputIsDust == Spec => []NoDustOutput
<1>1. PayrollInv => NoDustOutput
  BY DEF PayrollInv, ResultInv
<1> QED BY PayrollInvariant, <1>1, PTL

\* recipients.toml, once written, loads at the next start.
THEOREM RecipientsFileLoads == Spec => []SavedFileLoads
<1>1. PayrollInv => SavedFileLoads
  BY DEF PayrollInv
<1> QED BY PayrollInvariant, <1>1, PTL

\* The fee follows the suggestion over edits of the table, saves and restarts, until
\* the user types one.
THEOREM FeeFollowsSuggestion == Spec => []AutoFeeIsSuggestion
<1>1. PayrollInv => AutoFeeIsSuggestion
  BY DEF PayrollInv
<1> QED BY PayrollInvariant, <1>1, PTL
===============================================================================
