---------------------------- MODULE MCTreasuryGuide ----------------------------
(* TreasuryGuide on one deposit, paying receive index 0.                    *)
EXTENDS TreasuryGuide

CONSTANT d0

OneDeposit == [d \in {d0} |-> 0]

TxidSymmetry == Permutations(Payrolls)
===============================================================================
