---------------------------- MODULE MCSignerRounds ----------------------------
(* SignerRounds with two signers: a payroll that pays one recipient twice,   *)
(* one that pays another recipient instead, and one from another input, its  *)
(* outputs shuffled.                                                         *)
EXTENDS SignerRounds, TLC

CONSTANTS bob, carol, ann, ben, change1, change2, u1, u2, test, own

Pay(key, amount) == [amount |-> amount, to |-> key, script |-> None]
Change(script) == [amount |-> 3, to |-> None, script |-> script]
SomePayrolls ==
  {[input |-> u1, outs |-> <<Pay(ann, 1), Change(change1), Pay(ann, 2)>>],
   [input |-> u1, outs |-> <<Pay(ann, 1), Change(change1), Pay(ben, 2)>>],
   [input |-> u2, outs |-> <<Pay(ann, 2), Change(change2), Pay(ann, 1)>>]}

TwoSigners == Permutations({bob, carol})
===============================================================================
