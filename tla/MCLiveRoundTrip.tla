------------------------------ MODULE MCLiveRoundTrip ------------------------------
(* Two runs against one node. Either payroll has change from d1, and the other run  *)
(* can spend it; the second pays ann twice and takes d2 to the last satoshi, the    *)
(* first leaves dust of a block reward.                                             *)
EXTENDS LiveRoundTrip

CONSTANTS r1, r2, ann, ben, d1, d2

Pay(key, amount) == [key |-> key, amount |-> amount]

MCPayrolls == {<<Pay(ann, 2), Pay(ben, 3)>>, <<Pay(ann, 2), Pay(ann, 2)>>}
MCAmount == [d \in Deposits |-> IF d = d1 THEN 12 ELSE 5]
===============================================================================
