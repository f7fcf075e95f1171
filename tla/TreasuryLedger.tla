----------------------------- MODULE TreasuryLedger -----------------------------
(***************************************************************************)
(* What utxos.toml promises its owner, whatever the order in which the     *)
(* coordinator's handlers run: every outpoint is absent, available or      *)
(* spent; an outpoint that is spent stays spent; and an outpoint is        *)
(* retired only by a payroll that spends it, in the same step in which the *)
(* change of that payroll, if any is recorded, becomes available.          *)
(***************************************************************************)
CONSTANT Outpoints

VARIABLE ledger

Phases == {"absent", "available", "spent"}

LedgerTypeOK == ledger \in [Outpoints -> Phases]

LedgerInit == ledger = [o \in Outpoints |-> "absent"]

Absent(S) == \A o \in S : ledger[o] = "absent"

\* Outputs the treasury received are recorded: one by Add UTXO, any number by a
\* funding scan.
Receive(S) ==
  /\ S # {}
  /\ Absent(S)
  /\ ledger' = [o \in Outpoints |-> IF o \in S THEN "available" ELSE ledger[o]]

\* The user removes an available output from the file.
Forget(o) ==
  /\ ledger[o] = "available"
  /\ ledger' = [ledger EXCEPT ![o] = "absent"]

\* A finalized payroll retires the output it spends and records its change.
Retire(o, change) ==
  /\ ledger[o] = "available"
  /\ Absent(change)
  /\ ledger' = [p \in Outpoints |-> IF p = o THEN "spent"
                                    ELSE IF p \in change THEN "available"
                                    ELSE ledger[p]]

LedgerNext ==
  \/ \E S \in SUBSET Outpoints : Receive(S)
  \/ \E o \in Outpoints : Forget(o)
  \/ \E o \in Outpoints :
       \/ Retire(o, {})
       \/ \E c \in Outpoints : Retire(o, {c})

LedgerSpec == LedgerInit /\ [][LedgerNext]_ledger
===============================================================================
