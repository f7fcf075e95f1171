----------------------------- MODULE MCPayrollBuild -----------------------------
(* PayrollBuild with three-bit amounts: sums of three rows overflow, TOML   *)
(* integers stop at half the range, and dust, zero and exact change occur.  *)
EXTENDS PayrollBuild

SomeEntries ==
  {[address |-> "own", amount |-> 0], [address |-> "own", amount |-> 1],
   [address |-> "own", amount |-> 3], [address |-> "own", amount |-> 5],
   [address |-> "foreign", amount |-> 3], [address |-> "invalid", amount |-> 1]}
===============================================================================
