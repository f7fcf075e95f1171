------------------------------- MODULE LiveProofs -------------------------------
(***************************************************************************)
(* The live round trip, for any number of runs, deposits, payrolls and any *)
(* timeout: what "confirmed" means, why a node refuses a payroll, and what *)
(* a verification finds.  That a wait ends is liveness and left to TLC.    *)
(***************************************************************************)
EXTENDS LiveRoundTrip, SequenceFacts

\* The parts of the types that do not depend on the sum of a payroll.
Typed ==
  /\ stage \in [Runs -> Stages]
  /\ coin \in [Runs -> Coins \cup {None}]
  /\ rows \in [Runs -> Payrolls \cup {<<>>}]
  /\ DOMAIN outs = Runs /\ outs = [r \in Runs |-> outs[r]]
  /\ DOMAIN waited = Runs /\ waited = [r \in Runs |-> waited[r]]
  /\ funded \in [Runs -> {None, Maturity}]
  /\ deposited \subseteq Deposits
  /\ mempool \subseteq Runs /\ mined \subseteq Runs

-------------------------------------------------------------------------------
(* Steps.                                                                  *)

LEMMA InitTyped == Init => Typed
BY DEF Init, Typed, Stages

LEMMA OlderTyped ==
  ASSUME funded \in [Runs -> {None, Maturity}], NEW n \in Nat \ {0}
  PROVE  /\ Older(n) \in [Runs -> {None, Maturity}]
         /\ \A r \in Runs : Older(n)[r] = None <=> funded[r] = None
<1>1. ASSUME NEW r \in Runs, funded[r] # None
      PROVE  Older(n)[r] = Maturity
  <2>1. funded[r] = Maturity /\ Maturity \in Nat
    BY <1>1, LiveAssumption
  <2> QED BY <1>1, <2>1 DEF Older
<1>2. ASSUME NEW r \in Runs, funded[r] = None
      PROVE  Older(n)[r] = None
  BY <1>2 DEF Older
<1>3. Older(n) = [r \in Runs |-> Older(n)[r]]
  BY DEF Older
<1> QED BY <1>1, <1>2, <1>3, LiveAssumption

LEMMA NextTyped == Typed /\ [Next]_vars => Typed'
<1> SUFFICES ASSUME Typed, [Next]_vars PROVE Typed'
  OBVIOUS
<1>0. Maturity \in Nat /\ 1 + Maturity \in Nat \ {0} /\ 1 \in Nat \ {0}
  BY LiveAssumption
<1>1. CASE UNCHANGED vars
  BY <1>1 DEF vars, runVars, chain, Typed
<1>2. CASE World
  BY <1>2 DEF World, DepositArrives, RecipientSpends, NetworkMines, Evict, Blocks, runVars,
       Typed
<1>3. ASSUME NEW r \in Runs, Tools(r) PROVE Typed'
  <2>a. ASSUME NEW s \in Stages, Enters(r, s)
        PROVE  /\ stage' \in [Runs -> Stages] /\ coin' = coin /\ rows' = rows /\ outs' = outs
               /\ DOMAIN waited' = Runs /\ waited' = [q \in Runs |-> waited'[q]]
    BY <2>a DEF Enters, Typed
  <2>b. ASSUME NEW c \in Coins, NEW value, BuildFrom(r, c, value)
        PROVE  /\ stage' \in [Runs -> Stages]
               /\ coin' \in [Runs -> Coins \cup {None}]
               /\ rows' \in [Runs -> Payrolls \cup {<<>>}]
               /\ DOMAIN outs' = Runs /\ outs' = [q \in Runs |-> outs'[q]]
    BY <2>b DEF BuildFrom, Typed, Stages
  <2>c. [kind |-> "funding", of |-> r] \in Coins
    BY DEF Coins
  <2>d. Confirmed \subseteq Coins
    BY DEF Confirmed, Created, Coins, Typed
  <2>e. /\ "confirmed" \in Stages /\ "mining" \in Stages /\ "polling" \in Stages
        /\ "refused" \in Stages /\ "stopped" \in Stages
    BY DEF Stages
  <2>f. /\ Older(1) \in [Runs -> {None, Maturity}]
        /\ Older(1 + Maturity) \in [Runs -> {None, Maturity}]
    BY <1>0, OlderTyped DEF Typed
  <2>1. CASE FundAndBuild(r)
    BY <2>1, <2>b, <2>c, <2>f DEF FundAndBuild, Generate, Blocks, Typed
  <2>2. CASE FundTreasury(r)
    BY <2>2, <2>f DEF FundTreasury, Generate, Blocks, runVars, Typed
  <2>3. CASE ScanAndBuild(r)
    <3>1. PICK c \in Confirmed : BuildFrom(r, c, Value(c))
      BY <2>3 DEF ScanAndBuild
    <3> QED BY <2>3, <2>b, <2>d, <3>1 DEF ScanAndBuild, chain, Typed
  <2>4. CASE MineConfirmation(r)
    <3>1. PICK s \in {"confirmed", "stopped"} : Enters(r, s)
      BY <2>4 DEF MineConfirmation
    <3> QED BY <2>4, <2>a, <2>e, <2>f, <3>1 DEF MineConfirmation, Generate, Blocks, Typed
  <2>5. CASE Broadcast(r)
    <3>1. Enters(r, "mining") \/ Enters(r, "polling")
      BY <2>5 DEF Broadcast
    <3> QED BY <2>5, <2>a, <2>e, <3>1 DEF Broadcast, Typed
  <2>6. CASE BroadcastRefused(r)
    BY <2>6, <2>a, <2>e DEF BroadcastRefused, chain, Typed
  <2>7. CASE BroadcastLost(r)
    BY <2>7, <2>a, <2>e DEF BroadcastLost, Typed
  <2>8. CASE PollConfirms(r) \/ PollTimesOut(r) \/ Killed(r)
    BY <2>8, <2>a, <2>e DEF PollConfirms, PollTimesOut, Killed, chain, Typed
  <2>9. CASE PollAgain(r)
    BY <2>9 DEF PollAgain, chain, Typed
  <2> QED BY <1>3, <2>1, <2>2, <2>3, <2>4, <2>5, <2>6, <2>7, <2>8, <2>9 DEF Tools
<1> QED BY <1>1, <1>2, <1>3 DEF Next

\* A run that is built keeps its coin, its recipients and its outputs, and what is on the
\* chain stays there.
Keeps(r) ==
  stage[r] # "new" => /\ stage'[r] # "new" /\ coin'[r] = coin[r]
                      /\ rows'[r] = rows[r] /\ outs'[r] = outs[r]

Grows ==
  /\ deposited \subseteq deposited' /\ mined \subseteq mined'
  /\ \A r \in Runs : funded[r] # None => funded'[r] # None
  /\ \A r \in mempool' \cup mined' : r \in mempool \cup mined \/ stage[r] # "new"

\* A run that gets built spends a coin of the chain.
Starts(r) ==
  stage[r] = "new" /\ stage'[r] # "new" =>
    coin'[r] \in Created \cup {[kind |-> "funding", of |-> r]}
    /\ (coin'[r] \notin Created => funded'[r] # None)

LEMMA StepFacts ==
  Typed /\ [Next]_vars => Grows /\ \A r \in Runs : Keeps(r) /\ Starts(r)
<1> SUFFICES ASSUME Typed, [Next]_vars
             PROVE  Grows /\ \A r \in Runs : Keeps(r) /\ Starts(r)
  OBVIOUS
<1>0. Maturity \in Nat /\ 1 + Maturity \in Nat \ {0} /\ 1 \in Nat \ {0} /\ None # Maturity
  BY LiveAssumption
<1>1. CASE UNCHANGED vars
  BY <1>1 DEF vars, runVars, chain, Grows, Keeps, Starts
<1>2. CASE World
  BY <1>2 DEF World, DepositArrives, RecipientSpends, NetworkMines, Evict, Blocks, runVars,
       Grows, Keeps, Starts
<1>3. ASSUME NEW q \in Runs, Tools(q)
      PROVE  Grows /\ \A r \in Runs : Keeps(r) /\ Starts(r)
  <2>a. ASSUME NEW s, s # "new", Enters(q, s), stage[q] # "new"
        PROVE  \A r \in Runs : Keeps(r) /\ Starts(r)
    BY <2>a DEF Enters, Typed, Keeps, Starts
  <2>b. ASSUME NEW c, NEW value, BuildFrom(q, c, value), stage[q] = "new"
        PROVE  /\ \A r \in Runs : Keeps(r)
               /\ \A r \in Runs : r # q => Starts(r)
               /\ coin'[q] = c
    BY <2>b DEF BuildFrom, Typed, Keeps, Starts
  <2>f. /\ \A r \in Runs : Older(1)[r] = None <=> funded[r] = None
        /\ \A r \in Runs : Older(1 + Maturity)[r] = None <=> funded[r] = None
        /\ Older(1 + Maturity) \in [Runs -> {None, Maturity}]
    BY <1>0, OlderTyped DEF Typed
  <2>1. CASE FundAndBuild(q)
    <3>1. funded'[q] = Maturity /\ Grows
      BY <1>0, <2>1, <2>f DEF FundAndBuild, Generate, Blocks, Grows
    <3> QED BY <1>0, <2>1, <2>b, <3>1 DEF FundAndBuild, Starts
  <2>2. CASE FundTreasury(q)
    BY <1>0, <2>2, <2>f DEF FundTreasury, Generate, Blocks, runVars, Grows, Keeps, Starts
  <2>3. CASE ScanAndBuild(q)
    <3>1. PICK c \in Confirmed : BuildFrom(q, c, Value(c))
      BY <2>3 DEF ScanAndBuild
    <3>2. c \in Created
      BY DEF Confirmed
    <3>3. Grows
      BY <2>3 DEF ScanAndBuild, chain, Grows
    <3> QED BY <2>3, <2>b, <3>1, <3>2, <3>3 DEF ScanAndBuild, Starts
  <2>4. CASE MineConfirmation(q)
    <3>1. PICK s \in {"confirmed", "stopped"} : Enters(q, s)
      BY <2>4 DEF MineConfirmation
    <3>2. Grows
      BY <2>4, <2>f DEF MineConfirmation, Generate, Blocks, Grows
    <3> QED BY <2>4, <2>a, <3>1, <3>2 DEF MineConfirmation
  <2>5. CASE Broadcast(q)
    <3>1. Enters(q, "mining") \/ Enters(q, "polling")
      BY <2>5 DEF Broadcast
    <3> QED BY <2>5, <2>a, <3>1 DEF Broadcast, Sendable, Grows
  <2>6. CASE BroadcastRefused(q)
    BY <2>6, <2>a DEF BroadcastRefused, Sendable, chain, Grows
  <2>7. CASE BroadcastLost(q)
    BY <2>7, <2>a DEF BroadcastLost, Sendable, Grows
  <2>8. CASE PollConfirms(q) \/ PollTimesOut(q) \/ Killed(q)
    BY <2>8, <2>a DEF PollConfirms, PollTimesOut, Killed, chain, Grows
  <2>9. CASE PollAgain(q)
    BY <2>9 DEF PollAgain, chain, Grows, Keeps, Starts
  <2> QED BY <1>3, <2>1, <2>2, <2>3, <2>4, <2>5, <2>6, <2>7, <2>8, <2>9 DEF Tools
<1> QED BY <1>1, <1>2, <1>3 DEF Next

-------------------------------------------------------------------------------
(* Confirmed.                                                              *)

\* Off regtest no run waits for a block of its own.
MinesOnRegtest == \A r \in Runs : stage[r] = "mining" => network = "regtest"

\* What a run confirmed has become of its transaction.
Settled(r) == r \in mined \/ (network = "regtest" /\ r \notin mempool)

LEMMA ConfirmedIsSettled ==
  ConfirmedIsMined <=> \A r \in Runs : stage[r] = "confirmed" => Settled(r)
BY DEF ConfirmedIsMined, Settled

LEMMA NetworkStays == [Next]_vars => network' = network
<1>1. World => network' = network
  BY DEF World, DepositArrives, RecipientSpends, NetworkMines, Evict
<1>2. ASSUME NEW r \in Runs, Tools(r) PROVE network' = network
  BY <1>2 DEF Tools, FundAndBuild, FundTreasury, ScanAndBuild, Broadcast, MineConfirmation,
       BroadcastRefused, BroadcastLost, PollConfirms, PollAgain, PollTimesOut, Killed, Enters
<1> QED BY <1>1, <1>2 DEF Next, vars

\* A step that reports a confirmation has seen the transaction on the chain, or has had
\* everything mined that the node held.
LEMMA ConfirmedStep ==
  Typed /\ MinesOnRegtest /\ [Next]_vars =>
    \A r \in Runs : stage'[r] = "confirmed" => stage[r] = "confirmed" \/ Settled(r)'
<1> SUFFICES ASSUME Typed, MinesOnRegtest, [Next]_vars, NEW r \in Runs,
                    stage'[r] = "confirmed", stage[r] # "confirmed"
             PROVE  Settled(r)'
  OBVIOUS
<1>1. ~UNCHANGED vars /\ ~World
  BY DEF vars, runVars, World, DepositArrives, RecipientSpends, NetworkMines, Evict
<1>2. PICK q \in Runs : Tools(q)
  BY <1>1 DEF Next
<1>3. ~FundAndBuild(q) /\ ~ScanAndBuild(q)
  BY DEF FundAndBuild, ScanAndBuild, BuildFrom, Typed
<1>4. ~FundTreasury(q) /\ ~PollAgain(q)
  BY DEF FundTreasury, PollAgain, runVars
<1>5. ~(Broadcast(q) \/ BroadcastRefused(q) \/ BroadcastLost(q) \/ PollTimesOut(q) \/ Killed(q))
  BY DEF Broadcast, BroadcastRefused, BroadcastLost, PollTimesOut, Killed, Enters, Typed
<1>6. CASE MineConfirmation(q)
  <2>1. q = r
    BY <1>6 DEF MineConfirmation, Enters, Typed
  <2>2. network' = "regtest"
    BY <1>6, <2>1, NetworkStays DEF MineConfirmation, MinesOnRegtest
  <2>3. r \notin mempool'
    BY <1>6 DEF MineConfirmation, Generate, Blocks
  <2> QED BY <2>2, <2>3 DEF Settled
<1>7. CASE PollConfirms(q)
  <2>1. q = r
    BY <1>7 DEF PollConfirms, Enters, Typed
  <2> QED BY <1>7, <2>1 DEF PollConfirms, GetTxOut, chain, Settled
<1> QED BY <1>2, <1>3, <1>4, <1>5, <1>6, <1>7 DEF Tools

\* A confirmed run is not sent again, so that its transaction does not come back.
LEMMA StaysSettled ==
  ASSUME Typed, [Next]_vars, NEW r \in Runs, stage[r] = "confirmed", Settled(r)
  PROVE  Settled(r)'
<1>1. network' = network /\ mined \subseteq mined'
  BY NetworkStays, StepFacts DEF Grows
<1>2. CASE r \in mined
  BY <1>1, <1>2 DEF Settled
<1>3. CASE r \notin mempool
  <2>1. r \notin mempool'
    <3>1. CASE UNCHANGED vars
      BY <1>3, <3>1 DEF vars, chain
    <3>2. CASE World
      BY <1>3, <3>2 DEF World, DepositArrives, RecipientSpends, NetworkMines, Evict, Blocks
    <3>3. ASSUME NEW q \in Runs, Tools(q) PROVE r \notin mempool'
      <4>1. CASE Broadcast(q) \/ BroadcastLost(q)
        BY <1>3, <4>1 DEF Broadcast, BroadcastLost, Sendable
      <4>2. CASE FundAndBuild(q) \/ FundTreasury(q) \/ MineConfirmation(q)
        BY <1>3, <4>2 DEF FundAndBuild, FundTreasury, MineConfirmation, Generate, Blocks
      <4>3. CASE \/ ScanAndBuild(q) \/ BroadcastRefused(q) \/ PollConfirms(q)
                 \/ PollAgain(q) \/ PollTimesOut(q) \/ Killed(q)
        BY <1>3, <4>3 DEF ScanAndBuild, BroadcastRefused, PollConfirms, PollAgain,
             PollTimesOut, Killed, chain
      <4> QED BY <3>3, <4>1, <4>2, <4>3 DEF Tools
    <3> QED BY <3>1, <3>2, <3>3 DEF Next
  <2> QED BY <1>1, <2>1 DEF Settled
<1> QED BY <1>2, <1>3 DEF Settled

LEMMA MinesOnRegtestStep ==
  Typed /\ MinesOnRegtest /\ [Next]_vars => MinesOnRegtest'
<1> SUFFICES ASSUME Typed, MinesOnRegtest, [Next]_vars, NEW r \in Runs,
                    stage'[r] = "mining", network # "regtest"
             PROVE  FALSE
  BY NetworkStays DEF MinesOnRegtest
<1>1. stage[r] # "mining"
  BY DEF MinesOnRegtest
<1>2. ~UNCHANGED vars /\ ~World
  BY <1>1 DEF vars, runVars, World, DepositArrives, RecipientSpends, NetworkMines, Evict
<1>3. PICK q \in Runs : Tools(q)
  BY <1>2 DEF Next
<1>4. ~FundAndBuild(q) /\ ~ScanAndBuild(q)
  BY <1>1 DEF FundAndBuild, ScanAndBuild, BuildFrom, Typed
<1>5. ~FundTreasury(q) /\ ~PollAgain(q)
  BY <1>1 DEF FundTreasury, PollAgain, runVars
<1>6. ~(\/ MineConfirmation(q) \/ BroadcastRefused(q) \/ BroadcastLost(q)
        \/ PollConfirms(q) \/ PollTimesOut(q) \/ Killed(q))
  BY <1>1 DEF MineConfirmation, BroadcastRefused, BroadcastLost, PollConfirms, PollTimesOut,
       Killed, Enters, Typed
<1>7. ~Broadcast(q)
  BY <1>1 DEF Broadcast, Enters, Typed
<1> QED BY <1>3, <1>4, <1>5, <1>6, <1>7 DEF Tools

LEMMA ConfirmedInvariant == Spec => [](Typed /\ MinesOnRegtest /\ ConfirmedIsMined)
<1>1. Init => MinesOnRegtest /\ ConfirmedIsMined
  BY DEF Init, MinesOnRegtest, ConfirmedIsMined
<1>2. Typed /\ MinesOnRegtest /\ ConfirmedIsMined /\ [Next]_vars => ConfirmedIsMined'
  <2> SUFFICES ASSUME Typed, MinesOnRegtest, ConfirmedIsMined, [Next]_vars,
                      NEW r \in Runs, stage'[r] = "confirmed"
               PROVE  Settled(r)'
    BY DEF ConfirmedIsMined, Settled
  <2>1. CASE stage[r] = "confirmed"
    BY <2>1, ConfirmedIsSettled, StaysSettled
  <2>2. CASE stage[r] # "confirmed"
    BY <2>2, ConfirmedStep
  <2> QED BY <2>1, <2>2
<1> QED BY <1>1, <1>2, InitTyped, NextTyped, MinesOnRegtestStep, PTL DEF Spec

\* What broadcast_final reports as confirmed off regtest is on the chain, and on regtest
\* it is on the chain or gone from the node.
THEOREM ConfirmedMeansMined == Spec => []ConfirmedIsMined
BY ConfirmedInvariant, PTL

-------------------------------------------------------------------------------
(* Refusals.                                                               *)

\* Every run under way spends a coin of the chain, and what a node holds of the runs
\* was built.
CoinsExist ==
  /\ \A r \in mempool \cup mined : stage[r] # "new"
  /\ \A r \in Runs : stage[r] # "new" => coin[r] \in Created

LEMMA CoinsInvariant == Spec => [](Typed /\ CoinsExist)
<1>1. Init => CoinsExist
  BY DEF Init, CoinsExist
<1>2. Typed /\ CoinsExist /\ [Next]_vars => CoinsExist'
  <2> SUFFICES ASSUME Typed, CoinsExist, [Next]_vars PROVE CoinsExist'
    OBVIOUS
  <2>1. /\ Grows /\ \A r \in Runs : Keeps(r) /\ Starts(r)
        /\ Typed' /\ mempool' \subseteq Runs /\ mined' \subseteq Runs
        /\ mempool \subseteq Runs /\ mined \subseteq Runs
    BY StepFacts, NextTyped DEF Typed
  <2>2. \A r \in mempool' \cup mined' : stage'[r] # "new"
    BY <2>1 DEF CoinsExist, Keeps, Grows
  <2>3. \A r \in mined : ChangeOf(r)' = ChangeOf(r)
    BY <2>1 DEF CoinsExist, Keeps, ChangeOf
  <2>4. Created \subseteq Created'
    BY <2>1, <2>3 DEF Created, Grows
  <2>5. ASSUME NEW r \in Runs, stage'[r] # "new" PROVE coin'[r] \in Created'
    <3>1. CASE stage[r] # "new"
      BY <2>1, <2>4, <3>1 DEF CoinsExist, Keeps
    <3>2. CASE stage[r] = "new"
      <4>1. CASE coin'[r] \in Created
        BY <2>4, <4>1
      <4>2. CASE coin'[r] \notin Created
        BY <2>1, <2>5, <3>2, <4>2 DEF Starts, Created
      <4> QED BY <4>1, <4>2
    <3> QED BY <3>1, <3>2
  <2> QED BY <2>2, <2>5 DEF CoinsExist
<1> QED BY <1>1, <1>2, InitTyped, NextTyped, PTL DEF Spec

\* The node refuses what the tools built only for a competing run, or because the
\* payroll is paid already.
THEOREM RefusalsHaveACause == Spec => RefusedForACause
<1>1. Typed /\ CoinsExist /\ [Next]_vars =>
        [\A r \in Runs : stage[r] # "refused" /\ stage'[r] = "refused" =>
           \/ r \in mined
           \/ \E q \in (mempool \cup mined) \ {r} : coin[q] = coin[r]]_vars
  <2> SUFFICES ASSUME Typed, CoinsExist, Next, NEW r \in Runs,
                      stage[r] # "refused", stage'[r] = "refused", r \notin mined
               PROVE  \E q \in (mempool \cup mined) \ {r} : coin[q] = coin[r]
    OBVIOUS
  <2>1. ~World
    BY DEF runVars, World, DepositArrives, RecipientSpends, NetworkMines, Evict
  <2>2. PICK q \in Runs : Tools(q)
    BY <2>1 DEF Next
  <2>3. ~FundAndBuild(q) /\ ~ScanAndBuild(q)
    BY DEF FundAndBuild, ScanAndBuild, BuildFrom, Typed
  <2>4. ~FundTreasury(q) /\ ~PollAgain(q)
    BY DEF FundTreasury, PollAgain, runVars
  <2>5. ~(\/ Broadcast(q) \/ MineConfirmation(q) \/ BroadcastLost(q)
          \/ PollConfirms(q) \/ PollTimesOut(q) \/ Killed(q))
    BY DEF Broadcast, MineConfirmation, BroadcastLost, PollConfirms, PollTimesOut, Killed,
           Enters, Typed
  <2>6. BroadcastRefused(q)
    BY <2>2, <2>3, <2>4, <2>5 DEF Tools
  <2>7. q = r
    BY <2>6 DEF BroadcastRefused, Enters, Typed
  <2>8. ~Accepts(r) /\ stage[r] # "new"
    BY <2>6, <2>7 DEF BroadcastRefused, Sendable
  <2>9. coin[r] \in Created
    BY <2>8 DEF CoinsExist
  <2>10. coin[r].kind = "funding" => funded[coin[r].of] >= Maturity - 1
    <3> SUFFICES ASSUME coin[r].kind = "funding"
                 PROVE  funded[coin[r].of] >= Maturity - 1
      OBVIOUS
    <3>1. coin[r].of \in Runs /\ funded[coin[r].of] # None
      BY <2>9 DEF Created
    <3>2. funded[coin[r].of] = Maturity
      BY <3>1 DEF Typed
    <3> QED BY <3>2, LiveAssumption
  <2>11. coin[r] \notin Confirmed \ {coin[p] : p \in mempool}
    BY <2>8, <2>10 DEF Accepts
  <2>12. PICK p \in mempool \cup mined : coin[p] = coin[r]
    BY <2>9, <2>11 DEF Confirmed
  <2>13. r \notin mempool
    BY <2>8 DEF Accepts
  <2> QED BY <2>12, <2>13
<1> QED BY <1>1, CoinsInvariant, PTL DEF Spec, RefusedForACause

-------------------------------------------------------------------------------
(* Verification.                                                           *)

\* A transaction's outputs: those of its payroll, in any order, and change.
PaysRows(payroll, layout) ==
  /\ DOMAIN layout = 1..Len(layout) /\ Len(layout) \in Nat
  /\ \A i \in DOMAIN payroll : \E v \in DOMAIN layout : layout[v] = payroll[i]
  /\ \A v \in DOMAIN layout : layout[v].key # None =>
       \E i \in DOMAIN payroll : layout[v] = payroll[i]

\* Shuffling loses no output and makes up none.
LEMMA LayoutFacts ==
  ASSUME NEW payroll \in Payrolls, NEW value, NEW layout \in Layouts(payroll, value)
  PROVE  PaysRows(payroll, layout)
<1> DEFINE change == value - Total(payroll) - Fee
           extra == [key |-> None, amount |-> change]
           plain == IF change > 0 /\ change >= Dust THEN Append(payroll, extra) ELSE payroll
           T == Rows \cup {extra}
<1>1. PICK p \in Bijection(DOMAIN plain, DOMAIN plain) :
        layout = [i \in DOMAIN plain |-> plain[p[i]]]
  BY DEF Layouts
<1>2. payroll \in Seq(T) /\ extra \in T /\ extra.key = None
  <2>1. payroll \in Seq(Rows)
    BY LiveAssumption
  <2> HIDE DEF extra
  <2>2. payroll \in Seq(T)
    <3>1. payroll \in [1..Len(payroll) -> T] /\ Len(payroll) \in Nat
      BY <2>1
    <3> HIDE DEF T
    <3> QED BY <3>1
  <2> QED BY <2>2 DEF extra
<1> HIDE DEF T, extra
<1>3. /\ plain \in Seq(T)
      /\ \A i \in DOMAIN payroll : i \in DOMAIN plain /\ plain[i] = payroll[i]
      /\ \A i \in DOMAIN plain : i \in DOMAIN payroll \/ plain[i] = extra
  <2>1. CASE plain = Append(payroll, extra)
    <3> HIDE DEF plain
    <3>1. /\ Append(payroll, extra) \in Seq(T)
          /\ DOMAIN payroll = 1..Len(payroll) /\ Len(payroll) \in Nat
          /\ DOMAIN Append(payroll, extra) = 1..(Len(payroll) + 1)
          /\ \A i \in 1..Len(payroll) : Append(payroll, extra)[i] = payroll[i]
          /\ Append(payroll, extra)[Len(payroll) + 1] = extra
      BY <1>2
    <3> QED BY <2>1, <3>1
  <2>2. CASE plain = payroll
    <3> HIDE DEF plain
    <3> QED BY <1>2, <2>2
  <2> QED BY <2>1, <2>2
<1> HIDE DEF plain
<1>4. /\ DOMAIN plain = 1..Len(plain) /\ Len(plain) \in Nat
      /\ \A i \in DOMAIN plain : plain[i] \in T
  BY <1>3
<1>5. /\ p \in [DOMAIN plain -> DOMAIN plain]
      /\ \A i \in DOMAIN plain : \E v \in DOMAIN plain : p[v] = i
  BY DEF Bijection, Surjection, Injection
<1>6. layout \in [1..Len(plain) -> T]
  BY <1>1, <1>4, <1>5
<1>7. DOMAIN layout = 1..Len(layout) /\ Len(layout) \in Nat /\ DOMAIN layout = DOMAIN plain
  BY <1>4, <1>6
<1>8. \A i \in DOMAIN payroll : \E v \in DOMAIN layout : layout[v] = payroll[i]
  BY <1>1, <1>3, <1>5, <1>7
<1>9. \A v \in DOMAIN layout : layout[v].key # None =>
        \E i \in DOMAIN payroll : layout[v] = payroll[i]
  BY <1>1, <1>2, <1>3, <1>5, <1>7
<1> QED BY <1>7, <1>8, <1>9 DEF PaysRows

\* Only a build ends the stage "new".
LEMMA BuildStep ==
  Typed /\ [Next]_vars =>
    \A r \in Runs : stage[r] = "new" /\ stage'[r] # "new" =>
      rows'[r] \in Payrolls /\ PaysRows(rows'[r], outs'[r])
<1> SUFFICES ASSUME Typed, [Next]_vars, NEW r \in Runs, stage[r] = "new", stage'[r] # "new"
             PROVE  rows'[r] \in Payrolls /\ PaysRows(rows'[r], outs'[r])
  OBVIOUS
<1>1. ~UNCHANGED vars /\ ~World
  BY DEF vars, runVars, World, DepositArrives, RecipientSpends, NetworkMines, Evict
<1>2. PICK q \in Runs : Tools(q)
  BY <1>1 DEF Next
<1>3. ~FundTreasury(q) /\ ~PollAgain(q)
  BY DEF FundTreasury, PollAgain, runVars
<1>4. ~(\/ Broadcast(q) \/ MineConfirmation(q) \/ BroadcastRefused(q) \/ BroadcastLost(q)
        \/ PollConfirms(q) \/ PollTimesOut(q) \/ Killed(q))
  BY DEF Broadcast, MineConfirmation, BroadcastRefused, BroadcastLost, PollConfirms,
         PollTimesOut, Killed, Enters, Sendable, Typed
<1>5. \E c, value : BuildFrom(q, c, value)
  BY <1>2, <1>3, <1>4 DEF Tools, FundAndBuild, ScanAndBuild
<1>6. PICK c, value : BuildFrom(q, c, value)
  BY <1>5
<1>7. q = r
  BY <1>6 DEF BuildFrom, Typed
<1>8. PICK payroll \in Payrolls :
        /\ rows' = [rows EXCEPT ![r] = payroll]
        /\ \E layout \in Layouts(payroll, value) : outs' = [outs EXCEPT ![r] = layout]
  BY <1>6, <1>7 DEF BuildFrom
<1>9. PICK layout \in Layouts(payroll, value) : outs' = [outs EXCEPT ![r] = layout]
  BY <1>8
<1>10. rows'[r] = payroll /\ outs'[r] = layout
  BY <1>8, <1>9 DEF Typed
<1> QED BY <1>9, <1>10, LayoutFacts

Paid ==
  /\ \A r \in Runs : stage[r] # "new" => rows[r] \in Payrolls /\ PaysRows(rows[r], outs[r])
  /\ DOMAIN spends = {"mempool", "mined"}

LEMMA SpendsShape == [Next]_vars /\ DOMAIN spends = {"mempool", "mined"} =>
                       DOMAIN spends' = {"mempool", "mined"}
BY DEF Next, World, Tools, vars, runVars, chain, DepositArrives, RecipientSpends,
       NetworkMines, Evict, Blocks, Generate, FundAndBuild, FundTreasury, ScanAndBuild,
       MineConfirmation, Broadcast, BroadcastRefused, BroadcastLost, PollConfirms, PollAgain,
       PollTimesOut, Killed

LEMMA PaidInvariant == Spec => [](Typed /\ CoinsExist /\ Paid)
<1>1. Init => Paid
  BY DEF Init, Paid
<1>2. Typed /\ Paid /\ [Next]_vars => Paid'
  <2> SUFFICES ASSUME Typed, Paid, [Next]_vars PROVE Paid'
    OBVIOUS
  <2>1. \A r \in Runs : Keeps(r)
    BY StepFacts
  <2>2. DOMAIN spends' = {"mempool", "mined"}
    BY SpendsShape DEF Paid
  <2>3. ASSUME NEW r \in Runs, stage'[r] # "new"
        PROVE  rows'[r] \in Payrolls /\ PaysRows(rows'[r], outs'[r])
    <3>1. CASE stage[r] = "new"
      BY <2>3, <3>1, BuildStep
    <3>2. CASE stage[r] # "new"
      BY <2>1, <3>2 DEF Keeps, Paid
    <3> QED BY <3>1, <3>2
  <2> QED BY <2>2, <2>3 DEF Paid, PaysRows
<1> QED BY <1>1, <1>2, CoinsInvariant, PTL DEF Spec

\* verify_onchain accepts a payroll on the chain nobody has spent from, wherever build_psbt
\* put its change and whatever its broadcast reported.
THEOREM VerificationAccepts == Spec => []VerifyAcceptsMined
<1>1. Typed /\ CoinsExist /\ Paid => VerifyAcceptsMined
  <2> SUFFICES ASSUME Typed, CoinsExist, Paid, NEW r \in mined,
                      \A place \in DOMAIN spends : \A spent \in spends[place] : spent[1] # r,
                      \A i, j \in DOMAIN rows[r] : rows[r][i].key = rows[r][j].key =>
                                                   rows[r][i].amount = rows[r][j].amount
               PROVE  VerifyPasses(r, rows[r], r)
    BY DEF VerifyAcceptsMined
  <2>1. rows[r] \in Payrolls /\ PaysRows(rows[r], outs[r])
    <3>1. r \in Runs /\ stage[r] # "new"
      BY DEF Typed, CoinsExist
    <3> QED BY <3>1 DEF Paid
  <2>2. ASSUME NEW i \in DOMAIN rows[r] PROVE rows[r][i].key # None
    <3>1. rows[r] \in Seq(Rows)
      BY <2>1, LiveAssumption
    <3>2. rows[r][i] \in Rows
      BY <3>1
    <3> QED BY <3>2, LiveAssumption DEF Rows
  <2>3. ASSUME NEW i \in DOMAIN rows[r] PROVE Detections(r, rows[r][i]) # {}
    <3>1. PICK v \in DOMAIN outs[r] : outs[r][v] = rows[r][i]
      BY <2>1 DEF PaysRows
    <3>2. v - 1 \in 0..(Len(outs[r]) - 1) /\ (v - 1) + 1 = v
      BY <2>1 DEF PaysRows
    <3>3. v - 1 \in Detections(r, rows[r][i])
      BY <3>1, <3>2 DEF Detections
    <3> QED BY <3>3
  <2>4. ASSUME NEW i \in DOMAIN rows[r], NEW v \in Detections(r, rows[r][i])
        PROVE  /\ v + 1 \in DOMAIN outs[r] /\ outs[r][v + 1].amount = rows[r][i].amount
               /\ GetTxOut(r, v, TRUE)
    <3>1. v \in 0..(Len(outs[r]) - 1) /\ outs[r][v + 1].key = rows[r][i].key
      BY DEF Detections
    <3>2. v + 1 \in DOMAIN outs[r]
      BY <2>1, <3>1 DEF PaysRows
    <3>3. outs[r][v + 1].key # None
      BY <2>2, <3>1
    <3>4. PICK j \in DOMAIN rows[r] : outs[r][v + 1] = rows[r][j]
      BY <2>1, <3>2, <3>3 DEF PaysRows
    <3>5. outs[r][v + 1].amount = rows[r][i].amount
      BY <3>1, <3>4
    <3>6. <<r, v>> \notin spends["mined"] /\ <<r, v>> \notin spends["mempool"]
      <4>1. \A place \in {"mempool", "mined"} : \A spent \in spends[place] : spent[1] # r
        BY DEF Paid
      <4>2. <<r, v>>[1] = r
        OBVIOUS
      <4> QED BY <4>1, <4>2
    <3> QED BY <2>1, <3>2, <3>3, <3>5, <3>6 DEF GetTxOut
  <2>5. ScanPasses(r, rows[r])
    BY <2>3, <2>4 DEF ScanPasses
  <2> QED BY <2>4, <2>5 DEF VerifyPasses
<1> QED BY <1>1, PaidInvariant, PTL

-------------------------------------------------------------------------------
(* Types.  The change is what the coin holds beyond the sum of the         *)
(* recipients, a fold over the file, and the fee.                          *)

\* A payroll's total is a number.
LEMMA TotalTyped ==
  ASSUME NEW payroll \in Seq(Rows)
  PROVE  Total(payroll) \in Nat
<1> DEFINE Plus(acc, row) == acc + row.amount
           step == [p \in Nat \X Rows |-> Plus(p[1], p[2])]
           it == CHOOSE f : f = [s \in SUBSET DOMAIN payroll |->
                   IF s = {} THEN 0 ELSE Plus(f[s \ {Max(s)}], payroll[Max(s)])]
<1>1. \A acc \in Nat, row \in Rows : Plus(acc, row) \in Nat
  BY DEF Rows
<1>2. /\ step \in [Nat \X Rows -> Nat]
      /\ \A acc \in Nat, row \in Rows : step[<<acc, row>>] = Plus(acc, row)
  BY <1>1
<1>3. ASSUME NEW s \in SUBSET DOMAIN payroll, s # {}
      PROVE  payroll[Max(s)] \in Rows /\ s \ {Max(s)} \in SUBSET DOMAIN payroll
  <2>1. DOMAIN payroll = 1..Len(payroll) /\ Len(payroll) \in Nat
    OBVIOUS
  <2>2. Max(s) \in s
    BY <1>3, <2>1, GreatestPosition
  <2> QED BY <2>2
<1>4. it = [s \in SUBSET DOMAIN payroll |->
              IF s = {} THEN 0 ELSE Plus(it[s \ {Max(s)}], payroll[Max(s)])]
  <2> HIDE DEF step
  <2>1. PICK h \in [SUBSET DOMAIN payroll -> Nat] : IsFold(h, step, 0, payroll)
    BY <1>2, FoldExists
  <2>2. ASSUME NEW s \in SUBSET DOMAIN payroll, s # {}
        PROVE  step[<<h[s \ {Max(s)}], payroll[Max(s)]>>]
                 = Plus(h[s \ {Max(s)}], payroll[Max(s)])
    <3> HIDE DEF Plus
    <3> QED BY <1>2, <1>3, <2>1, <2>2
  <2>3. h = [s \in SUBSET DOMAIN payroll |->
               IF s = {} THEN 0 ELSE Plus(h[s \ {Max(s)}], payroll[Max(s)])]
    <3> HIDE DEF Plus
    <3> QED BY <2>1, <2>2 DEF IsFold
  <2> QED BY <2>3
<1>5. Total(payroll) = it[DOMAIN payroll]
  BY DEF Total, FoldLeft, MapThenFoldSet
<1> HIDE DEF it, step, Plus
<1>6. Follows(it, Nat, step, 0, payroll)
  <2>1. it[{}] = 0
    BY <1>4
  <2>2. ASSUME NEW s \in SUBSET DOMAIN payroll, s # {}, it[s \ {Max(s)}] \in Nat
        PROVE  it[s] = step[<<it[s \ {Max(s)}], payroll[Max(s)]>>]
    BY <1>2, <1>3, <1>4, <2>2
  <2> QED BY <2>1, <2>2 DEF Follows
<1>7. PICK sum \in [0..Len(payroll) -> Nat] :
        PartialResults(sum, step, 0, payroll, it[DOMAIN payroll])
  BY <1>2, <1>6, FoldResults
<1>8. Len(payroll) \in 0..Len(payroll)
  OBVIOUS
<1> QED BY <1>5, <1>7, <1>8 DEF PartialResults

\* The outputs of a payroll the coin covers have amounts, the change included.
LEMMA LayoutTyped ==
  ASSUME NEW payroll \in Payrolls, NEW value \in Nat, value >= Total(payroll) + Fee,
         NEW layout \in Layouts(payroll, value)
  PROVE  layout \in Seq(Outputs)
<1> DEFINE change == value - Total(payroll) - Fee
           extra == [key |-> None, amount |-> change]
           plain == IF change > 0 /\ change >= Dust THEN Append(payroll, extra) ELSE payroll
<1>1. payroll \in Seq(Rows) /\ Fee \in Nat
  BY LiveAssumption
<1>2. change \in Nat
  <2>1. Total(payroll) \in Nat
    BY <1>1, TotalTyped
  <2> QED BY <1>1, <2>1
<1>3. payroll \in Seq(Outputs) /\ extra \in Outputs
  <2>1. payroll \in [1..Len(payroll) -> Rows] /\ Len(payroll) \in Nat
    BY <1>1
  <2>2. Rows \subseteq Outputs
    BY DEF Rows, Outputs
  <2>3. payroll \in [1..Len(payroll) -> Outputs]
    BY <2>1, <2>2
  <2>4. payroll \in Seq(Outputs)
    <3> HIDE DEF extra
    <3> QED BY <2>1, <2>3
  <2> HIDE DEF change
  <2>5. extra \in Outputs
    BY <1>2 DEF Outputs
  <2> QED BY <2>4, <2>5
<1>4. PICK p \in Bijection(DOMAIN plain, DOMAIN plain) :
        layout = [i \in DOMAIN plain |-> plain[p[i]]]
  BY DEF Layouts
<1> HIDE DEF extra
<1>5. plain \in Seq(Outputs)
  BY <1>3
<1> HIDE DEF plain
<1>6. DOMAIN plain = 1..Len(plain) /\ Len(plain) \in Nat
      /\ \A i \in DOMAIN plain : plain[i] \in Outputs
  BY <1>5
<1>7. p \in [DOMAIN plain -> DOMAIN plain]
  BY DEF Bijection, Injection
<1>8. layout \in [1..Len(plain) -> Outputs]
  BY <1>4, <1>6, <1>7
<1> QED BY <1>6, <1>8

\* What is not in Typed, and what a broadcast must know: nothing is mined twice.
ChainTyped ==
  /\ network \in Networks
  /\ outs \in [Runs -> Seq(Outputs)]
  /\ waited \in [Runs -> 0..Timeout]
  /\ mempool \cap mined = {}
  /\ spends \in [{"mempool", "mined"} -> SUBSET (Runs \X Nat)]

\* A coin of the treasury on the chain is worth an amount.
LEMMA ValueTyped ==
  ASSUME Typed, ChainTyped, NEW c \in Confirmed
  PROVE  Value(c) \in Nat
<1>1. c \in Created
  BY DEF Confirmed
<1>2. CASE c \in [kind : {"deposit"}, of : deposited]
  <2>1. c.kind = "deposit" /\ c.of \in Deposits
    BY <1>2 DEF Typed
  <2> QED BY <2>1, LiveAssumption DEF Value
<1>3. CASE c \in [kind : {"funding"}, of : {r \in Runs : funded[r] # None}]
  <2>1. c.kind = "funding"
    BY <1>3
  <2> QED BY <2>1, LiveAssumption DEF Value
<1>4. CASE c \in [kind : {"change"}, of : {r \in mined : ChangeOf(r) # {}}]
  <2>1. c.kind = "change" /\ c.of \in Runs /\ ChangeOf(c.of) # {}
    BY <1>4 DEF Typed
  <2>2. ChangeOf(c.of) \subseteq Nat
    <3>1. outs[c.of] \in Seq(Outputs)
      BY <2>1 DEF ChainTyped
    <3>2. \A v \in DOMAIN outs[c.of] : outs[c.of][v] \in Outputs
      BY <3>1
    <3>3. \A v \in DOMAIN outs[c.of] : outs[c.of][v].amount \in Nat
      BY <3>2 DEF Outputs
    <3> QED BY <3>3 DEF ChangeOf
  <2>3. Value(c) = CHOOSE amount \in ChangeOf(c.of) : TRUE
    BY <2>1 DEF Value
  <2>4. (CHOOSE amount \in ChangeOf(c.of) : TRUE) \in ChangeOf(c.of)
    BY <2>1
  <2> QED BY <2>2, <2>3, <2>4
<1> QED BY <1>1, <1>2, <1>3, <1>4 DEF Created

LEMMA ChainTypedStep == Typed /\ ChainTyped /\ [Next]_vars => ChainTyped'
<1> SUFFICES ASSUME Typed, ChainTyped, [Next]_vars PROVE ChainTyped'
  OBVIOUS
<1>0. Timeout \in Nat /\ 0 \in 0..Timeout /\ Subsidy \in Nat
  BY LiveAssumption
<1>1. CASE UNCHANGED vars
  BY <1>1 DEF vars, runVars, chain, ChainTyped
<1>a. ASSUME NEW txs, NEW kids \in SUBSET (Runs \X Nat), Blocks(txs, kids)
      PROVE  /\ mempool' \cap mined' = {}
             /\ spends' \in [{"mempool", "mined"} -> SUBSET (Runs \X Nat)]
  <2>1. mempool' \cap mined' = {}
    BY <1>a DEF Blocks, ChainTyped
  <2>2. /\ spends["mempool"] \ kids \in SUBSET (Runs \X Nat)
        /\ spends["mined"] \cup kids \in SUBSET (Runs \X Nat)
    BY DEF ChainTyped
  <2>3. spends' \in [{"mempool", "mined"} -> SUBSET (Runs \X Nat)]
    BY <1>a, <2>2 DEF Blocks
  <2> QED BY <2>1, <2>3
<1>b. ASSUME NEW txs, Generate(txs)
      PROVE  /\ mempool' \cap mined' = {}
             /\ spends' \in [{"mempool", "mined"} -> SUBSET (Runs \X Nat)]
  <2>1. spends["mempool"] \in SUBSET (Runs \X Nat)
    BY DEF ChainTyped
  <2> QED BY <1>a, <1>b, <2>1 DEF Generate
<1>2. CASE World
  <2>1. CASE \E d \in Deposits : DepositArrives(d)
    BY <2>1 DEF DepositArrives, runVars, ChainTyped
  <2>2. ASSUME NEW r \in mempool \cup mined, NEW v \in 0..(Len(outs[r]) - 1),
               RecipientSpends(r, v)
        PROVE  ChainTyped'
    <3>1. r \in Runs /\ v \in Nat
      <4>1. r \in Runs
        BY DEF Typed
      <4>2. outs[r] \in Seq(Outputs)
        BY <4>1 DEF ChainTyped
      <4>3. Len(outs[r]) \in Nat
        BY <4>2
      <4> QED BY <4>1, <4>3
    <3>2. <<r, v>> \in Runs \X Nat
      BY <3>1
    <3>3. spends["mempool"] \cup {<<r, v>>} \in SUBSET (Runs \X Nat)
      BY <3>2 DEF ChainTyped
    <3> QED BY <2>2, <3>3 DEF RecipientSpends, runVars, ChainTyped
  <2>3. CASE NetworkMines
    <3>1. PICK txs \in SUBSET mempool, kids \in SUBSET spends["mempool"] : Blocks(txs, kids)
      BY <2>3 DEF NetworkMines
    <3>2. kids \in SUBSET (Runs \X Nat)
      BY DEF ChainTyped
    <3> QED BY <1>a, <2>3, <3>1, <3>2 DEF NetworkMines, runVars, ChainTyped
  <2>4. ASSUME NEW r \in Runs, Evict(r) PROVE ChainTyped'
    <3>1. {kid \in spends["mempool"] : kid[1] # r} \in SUBSET (Runs \X Nat)
      BY DEF ChainTyped
    <3> QED BY <2>4, <3>1 DEF Evict, runVars, ChainTyped
  <2> QED BY <1>2, <2>1, <2>2, <2>3, <2>4 DEF World
<1>3. ASSUME NEW r \in Runs, Tools(r) PROVE ChainTyped'
  <2>a. ASSUME NEW s, Enters(r, s)
        PROVE  /\ network' \in Networks
               /\ outs' \in [Runs -> Seq(Outputs)]
               /\ waited' \in [Runs -> 0..Timeout]
    BY <1>0, <2>a DEF Enters, ChainTyped
  <2>b. ASSUME NEW c, NEW value \in Nat, BuildFrom(r, c, value)
        PROVE  outs' \in [Runs -> Seq(Outputs)]
    <3>1. PICK payroll \in Payrolls :
            /\ value >= Total(payroll) + Fee
            /\ \E layout \in Layouts(payroll, value) : outs' = [outs EXCEPT ![r] = layout]
      BY <2>b DEF BuildFrom
    <3>2. PICK layout \in Layouts(payroll, value) : outs' = [outs EXCEPT ![r] = layout]
      BY <3>1
    <3>3. layout \in Seq(Outputs)
      BY <3>1, LayoutTyped
    <3> QED BY <3>2, <3>3 DEF ChainTyped
  <2>c. Accepts(r) => (mempool \cup {r}) \cap mined = {}
    BY DEF Accepts, ChainTyped
  <2>1. CASE FundAndBuild(r)
    BY <1>0, <1>b, <2>1, <2>b DEF FundAndBuild, ChainTyped
  <2>2. CASE FundTreasury(r)
    BY <1>b, <2>2 DEF FundTreasury, runVars, ChainTyped
  <2>3. CASE ScanAndBuild(r)
    <3>1. PICK c \in Confirmed : BuildFrom(r, c, Value(c))
      BY <2>3 DEF ScanAndBuild
    <3>2. Value(c) \in Nat
      BY ValueTyped
    <3> QED BY <2>3, <2>b, <3>1, <3>2 DEF ScanAndBuild, chain, ChainTyped
  <2>4. CASE MineConfirmation(r)
    <3>1. PICK s \in {"confirmed", "stopped"} : Enters(r, s)
      BY <2>4 DEF MineConfirmation
    <3> QED BY <1>b, <2>4, <2>a, <3>1 DEF MineConfirmation, ChainTyped
  <2>5. CASE Broadcast(r)
    BY <2>5, <2>a, <2>c DEF Broadcast, ChainTyped
  <2>6. CASE BroadcastRefused(r)
    BY <2>6, <2>a DEF BroadcastRefused, chain, ChainTyped
  <2>7. CASE BroadcastLost(r)
    BY <2>7, <2>a, <2>c DEF BroadcastLost, ChainTyped
  <2>8. CASE PollConfirms(r) \/ PollTimesOut(r) \/ Killed(r)
    BY <2>8, <2>a DEF PollConfirms, PollTimesOut, Killed, chain, ChainTyped
  <2>9. CASE PollAgain(r)
    <3>1. waited[r] + 1 \in 0..Timeout
      BY <1>0, <2>9 DEF PollAgain, ChainTyped
    <3> QED BY <2>9, <3>1 DEF PollAgain, chain, ChainTyped
  <2> QED BY <1>3, <2>1, <2>2, <2>3, <2>4, <2>5, <2>6, <2>7, <2>8, <2>9 DEF Tools
<1> QED BY <1>1, <1>2, <1>3 DEF Next

\* Every field keeps its type: no change is negative, no wait outlasts its deadline, and
\* no transaction is both on the chain and waiting for it.
THEOREM LiveTypeCorrect == Spec => []TypeOK
<1>1. Init => ChainTyped
  <2> SUFFICES ASSUME Init PROVE ChainTyped
    OBVIOUS
  <2>1. Timeout \in Nat /\ <<>> \in Seq(Outputs)
    BY LiveAssumption
  <2> QED BY <2>1 DEF Init, ChainTyped
<1>2. Typed /\ ChainTyped => TypeOK
  <2>1. Maturity \in 0..Maturity
    BY LiveAssumption
  <2> QED BY <2>1 DEF Typed, ChainTyped, TypeOK
<1> QED BY <1>1, <1>2, InitTyped, NextTyped, ChainTypedStep, PTL DEF Spec
===============================================================================
