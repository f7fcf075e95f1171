------------------------------- MODULE PayrollBuild -------------------------------
(***************************************************************************)
(* The recipients and fee fields of the coordinator and Create PSBT: the   *)
(* table, recipients.toml, the suggested fee, and the amounts of the       *)
(* payroll build_initial_payroll_psbt (src/payroll.rs) makes of them.      *)
(*                                                                         *)
(* Amounts are u64 satoshi: the Amount type checks its sums, the total the *)
(* screen shows wraps (a debug build panics instead, which is a Restart).  *)
(* Which keys the outputs pay, and how a PSBT is laid out, is left out; of *)
(* an address only whose network it belongs to, or that it does not parse. *)
(***************************************************************************)
EXTENDS Naturals, Sequences, SequencesExt

CONSTANTS
  MaxSat,    \* u64::MAX
  MaxToml,   \* i64::MAX, the largest integer a TOML file holds
  BaseBytes, \* estimated vbytes of a payroll without recipients
  RowBytes,  \* and of each recipient
  Entries,   \* recipients the user may type: [address, amount]
  MaxRows,   \* bound on the rows of the table
  Rates,     \* fee rates the user may type
  Fees,      \* fees the user may type
  Prevouts,  \* amounts of the prevout field
  Dusts,     \* dust limits
  None       \* an empty field, a missing file, no change output

Sats == 0..MaxSat
AddressKinds == {"own", "foreign", "invalid"}
Recipient == [address : AddressKinds, amount : Sats]

ASSUME AmountsAssumption ==
  /\ MaxSat \in Nat /\ MaxToml \in Sats
  /\ BaseBytes \in Nat /\ RowBytes \in Nat /\ MaxRows \in Nat
  /\ Entries \subseteq Recipient
  /\ Rates \subseteq Sats /\ Fees \subseteq Sats
  /\ Prevouts \subseteq Sats /\ Dusts \subseteq Sats
  /\ None \notin Sats

VARIABLES
  rows,      \* recipient_table_rows
  total,     \* total_payroll_sat
  file,      \* recipients.toml, or None
  rate,      \* fee_rate_sat_vb
  suggested, \* suggested_fee_sat
  fee,       \* miner_fee_sat, or None when the field is empty
  manual,    \* fee_manually_edited
  result     \* what the last handler built, or None: the next one replaces it

vars == <<rows, total, file, rate, suggested, fee, manual, result>>

\* BuildInitialPayrollResult, with the inputs it was computed from.
Result == [paid : Seq(Sats), change : Sats \cup {None}, effective : Sats,
           fee : Sats, prevout : Sats, dust : Sats]

TypeOK ==
  /\ rows \in Seq(Recipient)
  /\ total \in Sats
  /\ file \in Seq(Recipient) \cup {None}
  /\ rate \in Sats
  /\ suggested \in Sats
  /\ fee \in Sats \cup {None}
  /\ manual \in BOOLEAN
  /\ result \in Result \cup {None}

-------------------------------------------------------------------------------
(* Sums.                                                                   *)

Amounts(recipients) == [i \in DOMAIN recipients |-> recipients[i].amount]

\* The sum, as a number: the reference the two below are compared with, and the
\* mutant of the first.
ExactTotal(amounts) == FoldLeft(LAMBDA acc, x : acc + x, 0, amounts)

\* Iterator::sum on u64, in a release build.
WrappedTotal(amounts) ==
  FoldLeft(LAMBDA acc, x : (acc + x) % (MaxSat + 1), 0, amounts)

\* try_fold with Amount::checked_add: None once a sum does not fit.
CheckedTotal(amounts) ==
  FoldLeft(LAMBDA acc, x : IF acc = None THEN None
                           ELSE IF acc + x > MaxSat THEN None ELSE acc + x,
           0, amounts)

\* suggested_fee_sat, saturating.
SuggestedFee(r, count) ==
  LET product == r * (BaseBytes + RowBytes * count)
  IN  IF product > MaxSat THEN MaxSat ELSE product

-------------------------------------------------------------------------------
(* The amounts of a payroll paying t to its recipients.                    *)

Covers(prevout, t, f) ==
  /\ t + f <= MaxSat
  /\ prevout >= t + f

\* Mutant: change of exactly the dust limit is dropped.
ChangeAboveDust(prevout, t, f, dust) ==
  LET left == prevout - (t + f)
  IN  IF left > dust THEN left ELSE None

\* Mutant: dust change is paid.
AnyChange(prevout, t, f, dust) ==
  IF prevout > t + f THEN prevout - (t + f) ELSE None

ChangeAmount(prevout, t, f, dust) ==
  LET left == prevout - (t + f)
  IN  IF left > 0 /\ (dust = 0 \/ left >= dust) THEN left ELSE None

EffectiveFee(prevout, t, change) ==
  IF change = None THEN prevout - t ELSE (prevout - t) - change

-------------------------------------------------------------------------------
(* The screen.                                                             *)

\* parse_recipients accepts the file.
Loads(recipients) ==
  /\ recipients # <<>>
  /\ \A i \in DOMAIN recipients : /\ recipients[i].amount > 0
                                  /\ recipients[i].amount <= MaxToml
                                  /\ recipients[i].address # "invalid"

Init ==
  /\ rows = <<>>
  /\ total = 0
  /\ file = None
  /\ rate \in Rates
  /\ suggested = SuggestedFee(rate, 0)
  /\ fee = suggested
  /\ manual = FALSE
  /\ result = None

\* Mutant: the suggestion is updated without the fee that follows it.
EntriesLeaveFee(entries) ==
  /\ rows' = entries
  /\ total' = WrappedTotal(Amounts(entries))
  /\ suggested' = SuggestedFee(rate, Len(entries))
  /\ UNCHANGED <<rate, fee, manual>>

\* Mutant: the rows are replaced and their total is not.
EntriesKeepTotal(entries) ==
  /\ rows' = entries
  /\ suggested' = SuggestedFee(rate, Len(entries))
  /\ fee' = IF manual THEN fee ELSE suggested'
  /\ UNCHANGED <<total, rate, manual>>

\* set_recipient_entries, and the update_fee_suggestion it ends with.
SetRecipientEntries(entries) ==
  /\ rows' = entries
  /\ total' = WrappedTotal(Amounts(entries))
  /\ suggested' = SuggestedFee(rate, Len(entries))
  /\ fee' = IF manual THEN fee ELSE suggested'
  /\ UNCHANGED <<rate, manual>>

AddRecipient(entry) ==
  /\ Len(rows) < MaxRows
  /\ SetRecipientEntries(Append(rows, entry))
  /\ result' = None
  /\ UNCHANGED file

RemoveRecipient(i) ==
  /\ SetRecipientEntries(RemoveAt(rows, i))
  /\ result' = None
  /\ UNCHANGED file

\* Mutant: the file is written without being parsed.
SaveUnparsed ==
  /\ file' = rows
  /\ SetRecipientEntries(rows)
  /\ result' = None

\* save_recipients_from_ui: nothing is written that parse_recipients would refuse.
SaveRecipients ==
  /\ Loads(rows)
  /\ file' = rows
  /\ SetRecipientEntries(rows)
  /\ result' = None

\* Typing a fee takes it over from the suggestion; emptying the field gives it back.
EditFee(f) ==
  /\ fee' = f
  /\ manual' = (f # None)
  /\ UNCHANGED <<rows, total, file, rate, suggested, result>>

\* Nothing recomputes the suggestion when the rate is edited.
EditRate(r) ==
  /\ rate' = r
  /\ UNCHANGED <<rows, total, file, suggested, fee, manual, result>>

\* The checks of build_initial_payroll_psbt on its recipients.
Payable(recipients, dust) ==
  /\ \A i \in DOMAIN recipients : /\ recipients[i].address = "own"
                                  /\ recipients[i].amount >= dust
  /\ CheckedTotal(Amounts(recipients)) \in Sats

\* save_psbt_from_ui: saves the table as recipients.toml, reads it back and builds.
CreatePsbt(prevout, dust) ==
  LET t == CheckedTotal(Amounts(rows))
      change == ChangeAmount(prevout, t, fee, dust)
  IN  /\ Loads(rows)
      /\ fee # None
      /\ Payable(rows, dust)
      /\ Covers(prevout, t, fee)
      /\ file' = rows
      /\ result' = [paid |-> Amounts(rows), change |-> change,
                    effective |-> EffectiveFee(prevout, t, change),
                    fee |-> fee, prevout |-> prevout, dust |-> dust]
      /\ UNCHANGED <<rows, total, rate, suggested, fee, manual>>

\* The handler bailing after save_recipients: on a field that does not parse, one of
\* the checks, a key, or the write of the PSBT.  recipients.toml stays replaced.
CreatePsbtFails ==
  /\ Loads(rows)
  /\ file' = rows
  /\ result' = None
  /\ UNCHANGED <<rows, total, rate, suggested, fee, manual>>

\* main: the suggestion for an empty table, then the file, if there is one and the
\* wallet it loads first did load.  The rate is the one config.toml holds.
Restart ==
  /\ rate' \in Rates
  /\ \/ rows' = <<>>
     \/ file # None /\ rows' = file
  /\ total' = WrappedTotal(Amounts(rows'))
  /\ suggested' = SuggestedFee(rate', Len(rows'))
  /\ fee' = suggested'
  /\ manual' = FALSE
  /\ result' = None
  /\ UNCHANGED file

Next ==
  \/ \E entry \in Entries : AddRecipient(entry)
  \/ \E i \in DOMAIN rows : RemoveRecipient(i)
  \/ SaveRecipients
  \/ \E f \in Fees \cup {None} : EditFee(f)
  \/ \E r \in Rates : EditRate(r)
  \/ \E prevout \in Prevouts, dust \in Dusts : CreatePsbt(prevout, dust)
  \/ CreatePsbtFails
  \/ Restart

Spec == Init /\ [][Next]_vars

-------------------------------------------------------------------------------

\* The PSBT neither creates nor loses a satoshi, as numbers and not modulo 2^64: what
\* the input holds is paid, returned as change or left as fee.
PsbtBalances ==
  result # None =>
    result.prevout = ExactTotal(result.paid) + result.effective
                     + (IF result.change = None THEN 0 ELSE result.change)

\* The total on the screen, a sum that wraps, is what the payroll built from the table
\* pays, a sum of its own that is checked.
ShownTotalIsPaid == result # None => total = ExactTotal(result.paid)

\* The miner gets the fee asked for, and more only when the rest would be dust: less
\* than a dust limit more, and nothing more when there is change or no dust limit.
FeeAsAsked ==
  result # None =>
    /\ result.effective >= result.fee
    /\ result.effective > result.fee =>
         /\ result.change = None
         /\ result.effective - result.fee < result.dust

\* No output is dust, the change output included, and none is empty.
NoDustOutput ==
  result # None =>
    /\ \A i \in DOMAIN result.paid : result.paid[i] > 0 /\ result.paid[i] >= result.dust
    /\ result.change # None => result.change > 0 /\ result.change >= result.dust

\* recipients.toml, once written, loads: neither Save nor Create PSBT, complete or
\* bailing half-way, leaves a file that keeps the next start from loading the wallet.
SavedFileLoads == file # None => Loads(file)

\* Until the user takes the fee over, the fee is the suggestion on the screen, or empty
\* because the user emptied it.
AutoFeeIsSuggestion == ~manual => fee \in {suggested, None}
===============================================================================
