------------------------------ MODULE LiveRoundTrip ------------------------------
(***************************************************************************)
(* Payrolls taken to a real node by the demo's tools (demo/src/live.rs):   *)
(* fund or find a treasury coin, build, broadcast, wait for a              *)
(* confirmation, verify the receipts.  A run is one pass of an operator    *)
(* through the tools, whose payroll transaction has the run's name; the    *)
(* signers come between Build and Broadcast and change nothing here.       *)
(*                                                                         *)
(* The node, the recipients and other senders are the environment: blocks, *)
(* deposits, evictions, answers that are lost, recipients who spend.       *)
(***************************************************************************)
EXTENDS Naturals, Sequences, FiniteSets, SequencesExt

CONSTANTS
  Runs,      \* passes through the tools
  Networks,  \* of "regtest" and "signet"
  Deposits,  \* coins others may send to the treasury
  Amount,    \* their amounts
  Subsidy,   \* what a block pays its miner
  Payrolls,  \* recipients files: sequences of [key, amount]
  Keys,      \* recipients
  Fee,
  Dust,
  Maturity,  \* blocks a block's reward waits for, 100
  Timeout,   \* polls before the wait is given up
  None

Rows == [key : Keys, amount : Nat]
Outputs == [key : Keys \cup {None}, amount : Nat]    \* None: change
Coins == [kind : {"deposit"}, of : Deposits] \cup [kind : {"funding", "change"}, of : Runs]
Stages == {"new", "built", "mining", "polling", "confirmed", "refused", "stopped"}

ASSUME LiveAssumption ==
  /\ Networks \subseteq {"regtest", "signet"}
  /\ Amount \in [Deposits -> Nat]
  /\ Subsidy \in Nat /\ Fee \in Nat /\ Dust \in Nat
  /\ Maturity \in Nat /\ Timeout \in Nat
  /\ Payrolls \subseteq Seq(Rows)
  /\ None \notin Keys \cup Coins /\ None # Maturity

VARIABLES
  network,   \* the wallet's
  stage,     \* how far each run is
  coin,      \* the treasury coin each run spends
  rows,      \* the recipients it pays
  outs,      \* the outputs of its transaction, in their order
  waited,    \* polls since its broadcast
  funded,    \* the blocks on top of the reward each run mined itself
  deposited, \* deposits on the chain
  mempool,   \* runs whose transaction the node holds unconfirmed
  mined,     \* runs whose transaction is on the chain
  spends     \* recipients' transactions: outputs <<run, vout>> they spend

runVars == <<stage, coin, rows, outs, waited>>
chain == <<funded, deposited, mempool, mined, spends>>
vars == <<network, runVars, chain>>

TypeOK ==
  /\ network \in Networks
  /\ stage \in [Runs -> Stages]
  /\ coin \in [Runs -> Coins \cup {None}]
  /\ rows \in [Runs -> Payrolls \cup {<<>>}]
  /\ outs \in [Runs -> Seq(Outputs)]
  /\ waited \in [Runs -> 0..Timeout]
  /\ funded \in [Runs -> (0..Maturity) \cup {None}]
  /\ deposited \subseteq Deposits
  /\ mempool \subseteq Runs
  /\ mined \subseteq Runs
  /\ mempool \cap mined = {}
  /\ spends \in [{"mempool", "mined"} -> SUBSET (Runs \X Nat)]

Init ==
  /\ network \in Networks
  /\ stage = [r \in Runs |-> "new"]
  /\ coin = [r \in Runs |-> None]
  /\ rows = [r \in Runs |-> <<>>]
  /\ outs = [r \in Runs |-> <<>>]
  /\ waited = [r \in Runs |-> 0]
  /\ funded = [r \in Runs |-> None]
  /\ deposited = {}
  /\ mempool = {}
  /\ mined = {}
  /\ spends = [place \in {"mempool", "mined"} |-> {}]

-------------------------------------------------------------------------------
(* The chain and the node.                                                 *)

ChangeOf(r) == {outs[r][v].amount : v \in {v \in DOMAIN outs[r] : outs[r][v].key = None}}

\* The treasury's coins on the chain, and those that nothing on the chain spends.
Created ==
  [kind : {"deposit"}, of : deposited]
    \cup [kind : {"funding"}, of : {r \in Runs : funded[r] # None}]
    \cup [kind : {"change"}, of : {r \in mined : ChangeOf(r) # {}}]

Confirmed == Created \ {coin[r] : r \in mined}

Value(c) ==
  CASE c.kind = "deposit" -> Amount[c.of]
    [] c.kind = "funding" -> Subsidy
    [] c.kind = "change"  -> CHOOSE amount \in ChangeOf(c.of) : TRUE

\* sendrawtransaction accepts what it holds already, and what spends a mature coin
\* that nothing else spends.
Accepts(r) ==
  \/ r \in mempool
  \/ /\ r \notin mined
     /\ coin[r] \in Confirmed \ {coin[q] : q \in mempool}
     /\ coin[r].kind = "funding" => funded[coin[r].of] >= Maturity - 1

\* gettxout: the output is there and unspent, on the chain alone or with the mempool.
GetTxOut(r, vout, includeMempool) ==
  /\ r \in mined \/ (includeMempool /\ r \in mempool)
  /\ <<r, vout>> \notin spends["mined"]
  /\ includeMempool => <<r, vout>> \notin spends["mempool"]
  /\ outs[r][vout + 1].key = None =>
       \A q \in mined \cup (IF includeMempool THEN mempool ELSE {}) :
         coin[q] # [kind |-> "change", of |-> r]

\* New blocks, the first of which confirms the transactions txs and the spends kids.
Blocks(txs, kids) ==
  /\ mined' = mined \cup txs
  /\ mempool' = mempool \ txs
  /\ spends' = [mempool |-> spends["mempool"] \ kids, mined |-> spends["mined"] \cup kids]

Older(n) ==
  [r \in Runs |-> IF funded[r] = None THEN None
                  ELSE IF funded[r] + n > Maturity THEN Maturity ELSE funded[r] + n]

\* generatetoaddress: the node's own blocks take all it holds.
Generate(txs) == Blocks(mempool \cup txs, spends["mempool"])

-------------------------------------------------------------------------------
(* build_round1.                                                           *)

Total(payroll) == FoldLeft(LAMBDA acc, row : acc + row.amount, 0, payroll)

\* The outputs of a payroll from a coin of this value: build_psbt shuffles them.
Layouts(payroll, value) ==
  LET change == value - Total(payroll) - Fee
      plain  == IF change > 0 /\ change >= Dust
                THEN Append(payroll, [key |-> None, amount |-> change]) ELSE payroll
  IN  {[i \in DOMAIN plain |-> plain[p[i]]] : p \in Bijection(DOMAIN plain, DOMAIN plain)}

BuildFrom(r, c, value) ==
  /\ coin' = [coin EXCEPT ![r] = c]
  /\ \E payroll \in Payrolls :
       /\ \A i \in DOMAIN payroll : payroll[i].amount >= Dust
       /\ value >= Total(payroll) + Fee
       /\ rows' = [rows EXCEPT ![r] = payroll]
       /\ \E layout \in Layouts(payroll, value) : outs' = [outs EXCEPT ![r] = layout]
  /\ stage' = [stage EXCEPT ![r] = "built"]

\* Mutant: the reward is not matured.
FundUnripe(r) ==
  /\ network = "regtest"
  /\ stage[r] = "new"
  /\ Generate({})
  /\ funded' = [Older(1) EXCEPT ![r] = 0]
  /\ BuildFrom(r, [kind |-> "funding", of |-> r], Subsidy)
  /\ UNCHANGED <<network, waited, deposited>>

\* fund_regtest_treasury, only on regtest, and build_initial_payroll_psbt from the
\* reward of the first of the blocks it mines.
FundAndBuild(r) ==
  /\ network = "regtest"
  /\ stage[r] = "new"
  /\ Generate({})
  /\ funded' = [Older(1 + Maturity) EXCEPT ![r] = Maturity]
  /\ BuildFrom(r, [kind |-> "funding", of |-> r], Subsidy)
  /\ UNCHANGED <<network, waited, deposited>>

\* fund_treasury, and a build_round1 that fails once the reward is there.
FundTreasury(r) ==
  /\ network = "regtest"
  /\ stage[r] = "new"
  /\ Generate({})
  /\ funded' = [Older(1 + Maturity) EXCEPT ![r] = Maturity]
  /\ UNCHANGED <<network, runVars, deposited>>

\* scan_funded_prevout: a coin of the chain with the largest amount, whatever the
\* mempool does with it, and build_initial_payroll_psbt.
ScanAndBuild(r) ==
  /\ network # "regtest"
  /\ stage[r] = "new"
  /\ \E c \in Confirmed :
       /\ \A d \in Confirmed : Value(d) <= Value(c)
       /\ BuildFrom(r, c, Value(c))
  /\ UNCHANGED <<network, waited, chain>>

-------------------------------------------------------------------------------
(* broadcast_and_confirm.                                                  *)

Sendable(r) == stage[r] \in {"built", "refused", "stopped"}

Enters(r, s) ==
  /\ stage' = [stage EXCEPT ![r] = s]
  /\ waited' = [waited EXCEPT ![r] = 0]
  /\ UNCHANGED <<network, coin, rows, outs>>

\* The node takes the transaction.  On regtest the tool goes on to mine the block itself.
Broadcast(r) ==
  /\ Sendable(r) /\ Accepts(r)
  /\ mempool' = mempool \cup {r}
  /\ Enters(r, IF network = "regtest" THEN "mining" ELSE "polling")
  /\ UNCHANGED <<funded, deposited, mined, spends>>

\* One block, of what the node still holds.  The tool looks no further: it has succeeded
\* when the call returns, and failed when the answer is lost.
MineConfirmation(r) ==
  /\ stage[r] = "mining"
  /\ Generate({})
  /\ funded' = Older(1)
  /\ \E s \in {"confirmed", "stopped"} : Enters(r, s)
  /\ UNCHANGED deposited

\* Only the node's refusal: a broadcast that cannot reach it changes nothing.
BroadcastRefused(r) ==
  /\ Sendable(r) /\ ~Accepts(r)
  /\ Enters(r, "refused")
  /\ UNCHANGED chain

\* The node takes the transaction and the tool does not get the answer.
BroadcastLost(r) ==
  /\ Sendable(r) /\ Accepts(r)
  /\ mempool' = mempool \cup {r}
  /\ Enters(r, "stopped")
  /\ UNCHANGED <<funded, deposited, mined, spends>>

\* Mutant: an output of the mempool is good enough.
PollConfirmsAny(r) ==
  /\ stage[r] = "polling"
  /\ GetTxOut(r, 0, TRUE)
  /\ Enters(r, "confirmed")
  /\ UNCHANGED chain

PollConfirms(r) ==
  /\ stage[r] = "polling"
  /\ GetTxOut(r, 0, FALSE)
  /\ Enters(r, "confirmed")
  /\ UNCHANGED chain

\* Mutant: the deadline moves with every poll.
PollAgainForever(r) ==
  /\ stage[r] = "polling"
  /\ waited[r] <= Timeout
  /\ UNCHANGED vars

\* Mutant: one poll after the deadline.
PollPastDeadline(r) ==
  /\ stage[r] = "polling"
  /\ waited[r] <= Timeout
  /\ waited' = [waited EXCEPT ![r] = @ + 1]
  /\ UNCHANGED <<network, stage, coin, rows, outs, chain>>

\* Not yet, or the call fails: sleep and poll again before the deadline.
PollAgain(r) ==
  /\ stage[r] = "polling"
  /\ waited[r] < Timeout
  /\ waited' = [waited EXCEPT ![r] = @ + 1]
  /\ UNCHANGED <<network, stage, coin, rows, outs, chain>>

PollTimesOut(r) ==
  /\ stage[r] = "polling"
  /\ waited[r] = Timeout
  /\ Enters(r, "stopped")
  /\ UNCHANGED chain

\* One round of the loop.  An output that is there ends it unless the call fails.
Poll(r) == PollConfirms(r) \/ PollAgain(r) \/ PollTimesOut(r)

\* The tool is killed before it reports, or the call for its block fails; its transaction
\* file is still there.
Killed(r) ==
  /\ stage[r] \in {"mining", "polling"}
  /\ Enters(r, "stopped")
  /\ UNCHANGED chain

-------------------------------------------------------------------------------
(* verify_onchain, which only reports.                                     *)

\* Mutant: outputs are numbered without the change.
NumberedWithoutChange(r, row) ==
  {Cardinality({w \in 1..v : outs[r][w].key # None}) :
     v \in {v \in 0..(Len(outs[r]) - 1) : outs[r][v + 1].key = row.key}}

\* The outputs the scan of recipient row finds in the final PSBT of run r.
Detections(r, row) == {v \in 0..(Len(outs[r]) - 1) : outs[r][v + 1].key = row.key}

\* scan_recipients: each row finds something, all of it with the amount of the row.
ScanPasses(r, targets) ==
  \A i \in DOMAIN targets :
    /\ Detections(r, targets[i]) # {}
    /\ \A v \in Detections(r, targets[i]) : outs[r][v + 1].amount = targets[i].amount

\* verify_onchain: what the scan of the PSBT of run r finds is looked up in the
\* transaction the operator names.
VerifyPasses(r, targets, txid) ==
  /\ ScanPasses(r, targets)
  /\ \A i \in DOMAIN targets : \A v \in Detections(r, targets[i]) :
       /\ v + 1 \in DOMAIN outs[txid]
       /\ GetTxOut(txid, v, TRUE)
       /\ outs[txid][v + 1].amount = outs[r][v + 1].amount

-------------------------------------------------------------------------------
(* The rest of the world.                                                  *)

DepositArrives(d) ==
  /\ d \notin deposited
  /\ deposited' = deposited \cup {d}
  /\ UNCHANGED <<network, runVars, funded, mempool, mined, spends>>

\* A recipient spends an output the node knows of.
RecipientSpends(r, v) ==
  /\ r \in mempool \cup mined
  /\ outs[r][v + 1].key # None
  /\ GetTxOut(r, v, TRUE)
  /\ spends' = [spends EXCEPT !["mempool"] = @ \cup {<<r, v>>}]
  /\ UNCHANGED <<network, runVars, funded, deposited, mempool, mined>>

\* A block of the network: any of what the node holds, parents before children.
NetworkMines ==
  /\ network # "regtest"
  /\ \E txs \in SUBSET mempool, kids \in SUBSET spends["mempool"] :
       /\ txs # {} \/ kids # {}
       /\ \A kid \in kids : kid[1] \in mined \cup txs
       /\ Blocks(txs, kids)
  /\ UNCHANGED <<network, runVars, funded, deposited>>

\* The node drops a transaction, and what spends it.
Evict(r) ==
  /\ r \in mempool
  /\ mempool' = mempool \ {r}
  /\ spends' = [spends EXCEPT !["mempool"] = {kid \in @ : kid[1] # r}]
  /\ UNCHANGED <<network, runVars, funded, deposited, mined>>

Tools(r) ==
  \/ FundAndBuild(r) \/ FundTreasury(r) \/ ScanAndBuild(r)
  \/ Broadcast(r) \/ MineConfirmation(r) \/ BroadcastRefused(r) \/ BroadcastLost(r)
  \/ PollConfirms(r) \/ PollAgain(r) \/ PollTimesOut(r) \/ Killed(r)

World ==
  \/ \E d \in Deposits : DepositArrives(d)
  \/ \E r \in mempool \cup mined : \E v \in 0..(Len(outs[r]) - 1) : RecipientSpends(r, v)
  \/ NetworkMines
  \/ \E r \in Runs : Evict(r)

Next == World \/ \E r \in Runs : Tools(r)

\* The loop runs, its calls return, and its sleeps end.
Fairness == \A r \in Runs : WF_vars(Poll(r))

Spec == Init /\ [][Next]_vars /\ Fairness

-------------------------------------------------------------------------------

\* "broadcast and confirmed" is true when broadcast_final says it off regtest: the
\* transaction is on the chain, whatever competes with it, is evicted, or is spent at
\* once.  On regtest it only means that the node holds it unconfirmed no longer.
ConfirmedIsMined ==
  \A r \in Runs : stage[r] = "confirmed" =>
    r \in mined \/ (network = "regtest" /\ r \notin mempool)

\* The node refuses a payroll the tools built only when another run spends the same coin,
\* or when its own transaction got mined after a wait that was given up: on regtest
\* the reward is ripe, elsewhere a scan never offers a coin that may vanish.
RefusedForACause ==
  [][\A r \in Runs : stage[r] # "refused" /\ stage'[r] = "refused" =>
       \/ r \in mined
       \/ \E q \in (mempool \cup mined) \ {r} : coin[q] = coin[r]]_vars

\* Verification of a payroll on the chain that no recipient has touched succeeds, whatever
\* its broadcast reported and wherever the change lies among the outputs, if a recipient
\* listed twice gets equal amounts.
VerifyAcceptsMined ==
  \A r \in mined :
    /\ \A place \in DOMAIN spends : \A spent \in spends[place] : spent[1] # r
    /\ \A i, j \in DOMAIN rows[r] :
         rows[r][i].key = rows[r][j].key => rows[r][i].amount = rows[r][j].amount
    => VerifyPasses(r, rows[r], r)

\* A wait ends: confirmed, given up at the deadline, or killed, also when the node is
\* down, drops the transaction or confirms another one in its place.
WaitEnds == \A r \in Runs : stage[r] = "polling" ~> stage[r] # "polling"

-------------------------------------------------------------------------------
(* What the source says of the program and the program does not do.        *)

\* "Every output of a just-broadcast tx is unspent, so vout 0 is enough" (live.rs:133):
\* a wait sees the confirmation of its transaction.
VoutZeroIsEnough ==
  \A r \in Runs : stage[r] = "polling" /\ r \in mined => GetTxOut(r, 0, FALSE)
===============================================================================
