------------------------------- MODULE MCTreasury -------------------------------
(***************************************************************************)
(* Small instances of TreasuryCoordinator.  The deposits pay receive       *)
(* indices 0 and 1, so that a scan floor can lie between them; payroll     *)
(* txids are interchangeable, deposits are not.                            *)
(***************************************************************************)
EXTENDS TreasuryCoordinator

CONSTANTS d0, d1

OneDeposit == [d \in {d0} |-> 0]
TwoDeposits == [d \in {d0, d1} |-> IF d = d0 THEN 0 ELSE 1]

TxidSymmetry == Permutations(Payrolls)
===============================================================================
