# Verification of silent-pay

silent-pay pays a payroll from a MuSig2 treasury to Silent Payment addresses.
The coordinator, a desktop program with one event loop (`src/bin/gui.rs`), keeps
the treasury's wallet, outputs and recipients in TOML files, builds a payroll
PSBT, takes back the PSBT the signers completed, finalizes and broadcasts it,
and scans a Bitcoin Core node for funding. This directory holds TLA+ models of
it, their TLC configurations and TLAPS proofs. Paths below are relative to the
repository.

## 1. Inventory

| component | state | operations | talks to |
|---|---|---|---|
| UTXO record, `utxos.toml` (`gui.rs` 902-927, 1111-1269) | a list of records: txid:vout, chain, derivation index, amount, available or spent | append fresh, append scanned, mark spent, remove, scan floor, already processed | every handler of screens 3 and 6, the scan timer |
| Coordinator handlers (`gui.rs` 139-625) | the screens' fields (prevout, change index, pending UTXO state, final hex path), `wallet.toml`, PSBT and hex files | select, add and remove UTXO; Create PSBT; Finalize; Save UTXO State; Load Final Tx; Broadcast; Save Wallet; startup | files, node RPC |
| Funding scan (`gui.rs` 626-776, `node.rs` 99-194) | scan_in_progress, a thread, a channel, a repeated timer | start, poll, cancel, finish | one `scantxoutset` per node, shared with other clients |
| Recipients and amounts (`recipients.rs`, `payroll.rs` 70-156, `gui.rs` 282-363, 1001-1088, 1666-1685) | the table, `recipients.toml`, the fee fields | add, remove, save, load, suggest a fee, compute change and effective fee | Create PSBT |
| PSBT construction and keys (`payroll.rs` 158-463) | none | derive scripts and keys in two architectures, lay out the PSBT | the crates bip375, psbt, secp256k1 |
| Finalizing (`finalize.rs`) | the final PSBT and hex beside the signed PSBT | verify contributions, aggregate, write | Finalize |
| Wallet file and descriptor (`wallet.rs`) | network, descriptor, two derivation indices | load, save, normalize, parse | every handler that needs keys |
| App configuration and paths (`gui.rs` 778-900, 1593-1664) | `config.toml`: network, directory, fee rate, dust limit, RPC | load, save, default path of a network | startup and every path |
| Node client (`node.rs`) | none | broadcast, scan, status, abort | Bitcoin Core |
| Screens (`payroll_gui.slint`) | fields bound to properties | typed edits, buttons shown or not | handlers |
| Signers (`demo/src/workflow.rs`, `operations.rs`) | the PSBT passed between parties | ECDH share, nonce, partial signature, aggregation | Finalizing |
| Live round trip (`demo/src/live.rs`, `build_round1`, `fund_treasury`, `broadcast_final`, `verify_onchain`) | the files of a payroll; the node's chain and mempool | fund, scan, broadcast and confirm, verify receipts | Bitcoin Core, other senders, recipients |

The handlers run to completion on one thread; what interleaves with them is the
user, the restart of the process, the scan thread and the timer that reads its
channel, the node, and the signers, who answer days later or never. A handler may
write one file and fail, or die, before the next. What is hard to test here is
therefore an order of handlers (two payrolls in flight, a scan between Broadcast
and Save UTXO State), a crash between two writes, and values read at one time and
used at another (the change index, the scan's path and range, the pending
state). PROJECT.json lists these hazards at their lines.

What makes each component correct:

- the UTXO record: no outpoint twice; what is spent stays spent; an output is
  retired only by a payroll that spends it, together with the recording of that
  payroll's change;
- the payroll lifecycle: the pending state is one payroll's; the change index
  never goes back, change addresses are not reused, and whatever was finalized can
  be saved;
- the scan: it ends, the flag that hides the Scan button covers exactly its life,
  and its findings go to the file of the network it was started for;
- the amounts: they balance as integers, the fee is the one asked for, no output
  is dust;
- the files: whatever a handler leaves behind, the next start can load; a wallet lies in
  the folder of its network, and rewriting its descriptor changes neither scripts nor keys;
- the keys: signers and finalizer find what they need in the PSBT alone, in both
  architectures;
- the live tools: "confirmed" means mined, a payroll is refused only for a competitor's sake,
  verification accepts what is mined and nothing else, and a wait ends. On regtest the first
  does not hold, and of verification only the first half does (section 5).

## 2. Modules

| module | models | how |
|---|---|---|
| `UtxoFile` | `utxos.toml` and the operations on it | operators on a sequence of records, one per function of `gui.rs` |
| `TreasuryLedger` | what `utxos.toml` promises | abstract specification: each outpoint absent, available or spent |
| `TreasuryCoordinator` | the handlers, the files they keep, the chain and the scan as the record sees it | one action per handler; refines `TreasuryLedger` and `ScanService` |
| `TreasuryGuide` | the coordinator used one payroll at a time | restricts the next-state relation of `TreasuryCoordinator` |
| `ScanService` | what a funding scan promises | abstract specification: idle, running or answered, for the file of one network, its findings recorded once or dropped |
| `FundingScan` | thread, channel, timer, nodes, cancel and edits of the network and RPC fields during a scan | one action per handler, thread step and node step; refines `ScanService` |
| `PayrollBuild` | recipients, fee fields, amounts of a payroll | one action per handler; `build_initial_payroll_psbt` as operators |
| `PayrollSigning` | what the signers promise the coordinator | abstract specification: a transaction comes out when all consented to it in one session, and on the screen when it pays what was built |
| `SignerRounds` | the copies of a payroll PSBT, the signers' shares, nonces and signatures, `finalize_payroll` | one action per function of the signers' workflow and per way to finalize; refines `PayrollSigning` |
| `LiveRoundTrip` | the live tools against a chain with competing payrolls, blocks, evictions and spending recipients | one action per tool and outcome; the node and the others are the environment |
| `WalletDescriptor` | the descriptor, its normalization, and the keys, scripts and origins derived from it | operators on symbolic keys, one per function of `wallet.rs` and `payroll.rs` |
| `WalletSetup` | the wallet screen, `wallet.toml` of every network, `config.toml`, the start | one action per handler, typed field and failed or interrupted save |
| `MCTreasury`, `MCTreasuryGuide`, `MCFundingScan`, `MCPayrollBuild`, `MCSignerRounds`, `MCLiveRoundTrip`, `MCWalletSetup` | | instances for TLC |
| `SequenceFacts` | | lemmas about sequences and the folds over them, used by the four modules below that have sequences |
| `UtxoFileProofs` | | lemmas about the operators of `UtxoFile` |
| `TreasuryProofs` | | theorems about `TreasuryCoordinator` and `TreasuryGuide` |
| `PayrollProofs` | | theorems about `PayrollBuild` |
| `SignerProofs` | | theorems about `SignerRounds` |
| `FundingScanProofs` | | theorems about `FundingScan` |
| `LiveProofs` | | theorems about `LiveRoundTrip` |
| `WalletProofs` | | theorems about `WalletDescriptor` and `WalletSetup` |

### Correspondence

**UtxoFile.** A record keeps outpoint, chain, index and status; amounts and
labels are left out, and `how` says which handler wrote it (no operation reads
it). An outpoint is one value, and the txid of a payroll names its change
output: a payroll pays the treasury through one output at most, so
`utxo.txid == final_txid` in `finalized_tx_already_processed` is `IsRecorded`.

**TreasuryCoordinator.** `utxos` and `walletIndex` are the two files; `built` and
`finalized` are the PSBTs and final transactions on disk; `uiIndex`, `prevout`,
`pendingSpent`, `pendingChange` and `hexTx` are fields of the screens; `scan`,
`scanRange` and `scanFound` are the scan; `mined` is the chain. A handler that bails
before it writes is no step. Where a handler can write one file and fail before
the next there is an action for it: `FinalizeFailsLate`,
`SaveUtxoStateWalletFails`, `SaveUtxoStateCrashes`. The signers are the freedom to
finalize any PSBT of `built` at any time. The RPC fields are taken to name a node of the one
network here; `FundingScan` has them apart. `scan`, `scanRange` and `scanFound` leave out the thread, the
timer and Cancel: they are `FundingScan`'s. Both modules implement `ScanService`, which is what makes the short scan here a
fair stand-in for the long one there. `Finalize` reads the change index from
the screen, as the code does, not from the PSBT. Of the pending fields the user
may type over, the change index is modelled; typing over the pending txid or
vouts is not. `AutoLoads` says whether `main` loads the files of the configured
network: it does for testnet, signet and mainnet, not for regtest.

**TreasuryGuide.** The same handlers under the discipline the screens suggest: a
payroll is built from an available record and taken to Save UTXO State before the
next, no scan runs meanwhile, no index is typed over, and no write fails or is cut short. Each of
these restrictions is needed: dropping any of them lets TLC find a reused change
address or a pending state that can no longer be saved, in the code as it is. So the
properties of the run say nothing about scans with an outstanding payroll, two payrolls in
flight, typed indices or half-done saves; what holds there is in `treasury`, and
the theorem `ChangeIndexOnlyGrows`, which has all of these but typed indices.

**FundingScan.** `network` and `rpc` are fields of their own, in the program as here: nothing ties the RPC
URL to the network, so a scan may ask any node and its node may answer any outpoints.
A network typed without its URL has another chain's outputs recorded in its
`utxos.toml`; the code does not promise otherwise and `ScanService` does not either. The timer closure is `path` (what it captured), the channel is
`channel`, the blocking call is `thread`, on node `asked`. The rows of the table are left out: every handler that writes
the file shows what it wrote, and none works from the rows but to number them. `CancelScan` asks the node the RPC
fields name *now*. `Orphaned` is a scan the node goes on with after a timeout, a
lost connection or a restart. To `ScanService` the scan is answered when findings are on the channel; an error,
an abort or a busy node on the channel is still a running scan, which then fails.

**PayrollBuild.** Amounts are numbers up to `MaxSat` (u64), TOML integers up to
`MaxToml` (i64). `CheckedTotal` is the checked sum of `payroll.rs`, `WrappedTotal` the
unchecked one of the screens in a release build, `ExactTotal` the number both are
compared with. An address is one of this network, of another, or unparsable.

**SignerRounds.** `built` is the file at the build path, `files` the copies in the
directory of the signed PSBT, one of which has the name `finalize_payroll` writes its
final PSBT to (the name `docs/userguide.md` gives the merged, signed PSBT, too: finalizing
it replaces it). `hex` is the transaction file, with the PSBT the screen checked it
against; `held` counts the `SecNonce`s in the signers' memory. A nonce is the seed it was made from,
because `workflow::contribute` takes the seed of its caller: `SignerContributes` chooses any seed, a used one
included, and `AddPartyContribution` is the one caller in the repository, the demo's, which passes
`test_nonce_seed`, a constant of each party, and drops the `SecNonce`. So a signer may sign twice with one nonce
in the model as in the demo's code; that it does not is up to the signers' software, which is not here, and no property says it. The transaction stands for its
sighash, so signatures over different amounts, orders or scripts differ. Elliptic-curve
arithmetic, DLEQ proofs, aggregation and the merge of PSBTs are the crates': they are
modelled by what their use in `workflow.rs` and `finalize.rs` and the tests in
`demo/tests/discoverability.rs` say of them. `PartialSign` is allowed before the
scripts are derived, against the advice of its comment: the model shows that this only
wastes a signature. To `PayrollSigning` only `built`, the signatures made and the
transaction written exist: copies, shares, held nonces and merges are hidden. Each recipient has one spend key; whether the input is
recorded in `utxos.toml` is `TreasuryCoordinator`'s.

**LiveRoundTrip.** A run is one pass of an operator through `build_round1` (or `fund_treasury`),
`broadcast_final` and `verify_onchain`; `stage` says which of its tools ended last and how,
`coin`, `rows` and `outs` are what it spends, pays and, in the shuffled order of `build_psbt`,
pays it with. `funded` counts the blocks on top of the reward `fund_regtest_treasury`
mined, up to `Maturity`; `mempool`, `mined` and `spends` are the node's. `waited` stands for
the time since the broadcast, in polls. `scan_funded_prevout` sees confirmed coins only,
whatever the mempool does with them: `Confirmed` is Core's UTXO set of the chain. A
failed `gettxout` is a poll that saw nothing, as `unwrap_or(false)` has it, and `PollAgain` may
also be taken where the output is there. On regtest `broadcast_and_confirm` makes two calls, `Broadcast` and
`MineConfirmation`, with the stage `mining` between them, in which the node may drop the transaction or another run
mine it; it returns success without looking at the block. Either answer may be lost (`BroadcastLost`, and the outcome
`stopped` of `MineConfirmation`); `Killed` is the operator's Ctrl-C, or a `generatetoaddress` that fails. `Accepts` is
about coins: the node's relay fee and dust policy are left out. `VerifyPasses` changes nothing and is an
operator. The change of a competing payroll is a coin like any other, so runs can
chain; reorganisations are not modelled.

**WalletDescriptor.** A descriptor is the list of its signers with the place of the multipath
step, tidy or with blanks; a signer stands for fingerprint, derivation path and xpub, of which
only the network kind is looked at. A key is `[xpub, path]`; the aggregate of a list of keys is
how often each occurs in it (`sort_by_key` leaves no more), and a script is an aggregate
with the path derived below it. So two scripts are equal where the crates are bound to
compute equal ones, and no hash collision is counted on.

**WalletSetup.** `wallets` is the `wallet.toml` of every data directory and network folder, with `Bare` the
file the screen starts with before a network gives it a folder; `screen` is the fields of screen 1,
`shown` the two addresses with the wallet they were derived from, `typed` bookkeeping.
Typing into network, data directory or descriptor calls no handler; the index
fields recompute the addresses. A Save that is refused sets the path all the same. Fee
rate, dust limit and RPC settings are left out of the configuration; a fee rate that is no number is
`SaveWalletConfigFails`.

A definition whose comment begins with "Mutant" belongs to no specification: it
is a plausible bug in the definition after it, kept to show that a property
notices it.

## 3. Runs

| run | module and cfg | shows | bounds |
|---|---|---|---|
| `treasury` | `MCTreasury`, `Treasury.cfg` | types, unique outpoints, justified spends, one payroll pending, a save that dies half-way, shared addresses, the refinements of the ledger (what is spent stays spent) and of the scan service | one deposit, two payrolls, indices 0-2, gap 1, index 0 typed over |
| `guide` | `MCTreasuryGuide`, `TreasuryGuide.cfg` | one payroll at a time: fresh change addresses, a change index that never goes back, pending state can be saved and is the payroll's | one deposit, three payrolls, indices 0-3 |
| `funding_scan` | `MCFundingScan`, `FundingScan.cfg` | the life of a scan; it always ends; the refinement of the scan service (one at a time, findings complete in the file captured at its start or dropped) | two networks, two nodes, two outpoints |
| `payroll_build` | `MCPayrollBuild`, `PayrollBuild.cfg` | what is paid balances and is the total the screen shows; dust, fees, recipients.toml | three rows, amounts 0-7, TOML up to 3 |
| `signer_rounds` | `MCSignerRounds`, `SignerRounds.cfg` | the refinement of the signing protocol (what is finalized was signed by all as it is, in one session); it is what Build saved, and is found by its recipients | two signers, two copies, two builds out of three payrolls, three contributions of two seeds, one damaged share |
| `live_round_trip` | `MCLiveRoundTrip`, `LiveRoundTrip.cfg` | confirmed is mined off regtest, refusals have a cause, verification accepts what is mined, waits end | two runs, two deposits, two payrolls, regtest and signet, maturity 2, one poll before the deadline |
| `wallet_setup` | `MCWalletSetup`, `WalletSetup.cfg` | saved wallets come back, lie in their network's folder and derive what the screen derived; signers and finalizer find their keys | signet and mainnet, one data directory, five descriptors of four signers, two pairs of indices |
| `known`, `scan_floor`, `per_network`, `scan_advice`, `vout_zero` | see section 5 | expected violations | as above; three networks in `per_network` |

Why the bounds are enough. Two payrolls are the least that can be mixed up; one deposit
makes them compete for it or chain through the first one's change.
Three payrolls in `guide` let a change address be reused across a saved payroll.
Three indices let the change index saturate. A gap of 1 keeps the top of a scan's range
near the indices in use, so that outputs lie inside, below and above it. Two
networks are enough for a finding to go astray, two nodes for the RPC fields and
Cancel to miss the one that scans, two outpoints for an answer to hold some of what a file has. Three rows of up to 7 overflow the three-bit amounts in the second and in
the third addition. In `signer_rounds` two builds let a completed copy meet another PSBT at the build path,
which may be one with another recipient or a shuffled one from another input;
a third contribution is one after the signatures began, with the seed used before or another, and two copies hold
different nonces, shares or signatures of one PSBT. In `live_round_trip` two runs
compete for one coin or chain, the amounts give a payroll change, dust, or nothing left, one payroll lists
a recipient twice, and a maturity of two is the least that lets a reward be unripe after one more block.
In `wallet_setup` the descriptors are one wallet written down in two ways, one of each other architecture
and network kind, and one that does not parse; two networks are the least a wallet can be misplaced
between. A second data directory takes TLC beyond a few minutes; the proofs cover any number. Payroll txids and signers are
interchangeable and symmetric; deposits are not. No property of a run with symmetry is a liveness property. Deadlock is
checked in every run but `live_round_trip` and `vout_zero`, where the system may stop: every run is done,
every coin spent, every recipient served.

**Fairness.** `FundingScan` assumes weak fairness of the scan thread's own
steps (it is an operating-system thread whose blocking call ends at
`SCAN_RPC_TIMEOUT` at the latest) and of the timer (`TimerMode::Repeated`, run by the event
loop). `LiveRoundTrip` assumes weak fairness of `Poll(r)`: the loop of `broadcast_and_confirm` does
nothing but call a client with a timeout of its own and sleep five seconds, so as long as the
process lives it reaches its next round. Nothing is assumed of the user, the node, the network, other clients, or of a
thread that panics. The other modules have no liveness property: whether a payroll is ever saved
or broadcast is up to the user.

## 4. Proofs

tlapm checks every theorem for all values of the constants, under the
assumptions the modules name (`ConstantsAssumption`: indices are naturals bounded by `MaxIndex`,
deposits and payrolls are disjoint and finitely many, `None` is none of them;
`AmountsAssumption`: the bounds are naturals; `LiveAssumption`, `SignersAssumption`, `SetupAssumption`,
`NetworksAssumption`: the types of the constants, and that `None` is no value of theirs;
`RoundsAssumption` also says that there is a signer, as `wallet.rs` demands at least two, and that no script of the treasury's own is a silent payment script, which
holds but for a hash collision). Every safety property of the passing runs is a theorem. `SpentForever` and `EverySignerSigned` are theorems
that no run states: `KeepsLedger` and `KeepsSigning`, which the runs do state, each imply one.

- `SequenceFacts`: what the other modules need of sequences and folds. The provers cannot instantiate
  the library's induction theorems, so induction is written over sets: a set of naturals that is not
  empty has a least element (`LeastNatural`), so one that holds 0 and with each number below a bound the next
  holds all up to it (`UpTo`). A fold of the community modules is not unfolded where it is used but
  described by its list of partial results (`FoldResults`: there is one such list, its first entry is the base,
  each next one applies the operation, the last is the fold), about which `UpTo` speaks. `PositionsCounted` says that a
  numbering of the members of a set of positions by how many come before has no gap and no two alike.

- `UtxoFileProofs`: what each file operation does to the records. Appending
  operations `Grow` the file (the old one is a prefix, new records are of outpoints not
  recorded, distinct, available); removing shifts; marking changes one status.
- `TreasuryProofs`: `CoreInv` is the inductive invariant for types and unique
  outpoints. It adds two facts neither follows without: a txid names one built
  payroll (else the change outputs of two payrolls would be one outpoint), and a scan's
  answer holds an outpoint once (else appending its findings would record it
  twice). `CoreInvariant`, `TypeCorrect`, `OutpointsStayUnique`. `SpentIsForever` follows
  stepwise from it: Remove takes available records only and everything else grows the file or
  marks. `FinalInv` adds that whatever is pending is spent by a final transaction;
  with it `SpentIsJustified`, `PendingStaysOnePayroll` and `SaveIsAtomicOnFile`. The last
  needs unique outpoints: the input marked in the step that appends the change
  must be the one record of that outpoint.
  `SharedAddressesAreScanned` follows the file through its five kinds of steps. `ChangeIndexOnlyGrows`
  holds where main loads the wallet and no index is typed (`AutoLoads`, `IndexEdits = {}`), for
  every order of handlers and not only those of `TreasuryGuide`: `IndexInv` says that the screen is
  never behind the wallet file, and that a pending change is at the index on the screen unless its input is
  already marked spent, in which case it is never committed again.
  The theorems about `TreasuryGuide` are `ChangeIsFresh`, `PendingIsOfPayroll`, `PendingIsSaveable`, under `AutoLoads` and as
  long as the change index has not reached `MaxIndex`, where `NextIndex` returns the same index again
  and one address would be paid twice. `GuideInv` orders the payrolls: at most one is not
  saved, its input is still available and its change is at the index of the screen, while the change of
  saved payrolls, every change record, the prevout fields and the findings of a scan are below
  that index (`PayrollsInOrder`, `ChangeBelow`), and what is pending is the outstanding payroll's (`PendingOfPayroll`).
  Save UTXO State moves the index past the change it records, so the order is kept; a scan is kept
  from finding the change of an unsaved payroll because it runs between payrolls only, and there all
  change on the chain is below the index (`OutputsBelow`).
- `ImplementsLedger`: the refinement mapping takes an outpoint to spent, available or absent
  as the records say; AddUtxo and FinishScan are `Receive`, RemoveUtxo is `Forget`, the
  commit half of Save UTXO State is `Retire`, and the rest stutters.
- `ImplementsScanService`: the outpoints of `utxos.toml` are the service's one file. Save UTXO State that dies
  before its second write is `Die` when a scan is on, a restart is `Fail`, and FinishScan is `Record`: everything the node answered
  is listed afterwards, which rests on a finding being appended unless it is recorded already (`ScanResultsGrow`). `IdleFindsNothing` is the
  invariant it adds: the findings go with the scan.
- `SignerProofs`: `RoundsInv` is types and `SigsAreRecorded` (a signature found in any copy is
  one its signer made, over that message, and the PSBT at the build path has none), which
  is what carries `EverySignerSigned` through merges and hand-outs to the step that finalizes:
  the check of the aggregate then says that each signature found is over the transaction
  written. Nothing is assumed of the nonces: they may repeat.
  `FinalIsSignedByAll`, `FinalIsThePayroll`, `RoundsTypeCorrect`. `RecipientsFindAll` needs `ScriptsInv`:
  in every copy the change output has a script of the treasury's, which is not a silent payment one, and in a final copy
  each output to a scan key has the script numbered by how many outputs to that key come before (`Settled`): `finalize_payroll`
  derives all of them again from shares that verify, whatever was merged or derived early. So the outputs to each key are
  numbered 0, 1, 2, ... without a gap (`PositionsCounted`), and a recipient who looks for one number after the other and
  stops at the first that is not there has seen all of them.
  `ImplementsSigning` is the refinement of `PayrollSigning`: PartialSign is `Consent` or repeats one, Build is
  `Order`, each way to finalize is `Publish` or, when only the PSBT is written, hidden. For `Publish`
  the signatures a copy holds must all be of one session, so `SigsAreRecorded` also says in which
  session, by its nonces, the signature found was made.
- `PayrollProofs`: the totals first. A sum that wraps stays an amount (`TotalsTyped`), and where the checked sum
  succeeds it is the exact one and no partial sum wrapped (`CheckedTotalIsExact`, `WrappedTotalIsExact`), for any
  number of rows and any width. `PayrollInv` says that the total on the screen is the wrapped total of the
  table, and that what was built is of the table as it is now, since every change of the table ends it; from it `PayrollTypeCorrect`,
  `NoSatoshiIsLost`, `ShownTotalsArePaid`, `FeesAreAsAsked`, `NoOutputIsDust`, `RecipientsFileLoads` and `FeeFollowsSuggestion`.

- `FundingScanProofs`: `ScanInv` is types, that the flag covers the scan, and that a scan with a timer was started on a node for a file (`AskedForAFile`);
  `ScanTypeCorrect` and `FlagCovers` follow.
  `ImplementsService` is the refinement of `ScanService`: StartScan is `Start`, a node's findings on the channel are
  `Answer`, the tick that finds them is `Record`, every other end is `Fail`.
- `LiveProofs`: `ConfirmedMeansMined` rests on a run never being sent again once it is confirmed, so that a
  transaction regtest's block left out does not come back (`StaysSettled`), and on `MinesOnRegtest`: off
  regtest only a poll confirms. `RefusalsHaveACause` rests on `CoinsExist`: the coin of a built
  payroll is created on the chain, and a reward among them is ripe. No step takes that back (there
  are no reorganisations), so at a refusal either the payroll is mined or another one spends its coin.
  `VerificationAccepts` rests on `Paid`: the outputs of a payroll are its rows and at most one change
  output, in some order, which a bijection between positions keeps. `Typed` is the part of `TypeOK`
  these need; `LiveTypeCorrect` is all of it, with the change amount of `LayOut` shown to be a natural from the guard
  on the exact total (`TotalTyped`, `LayoutTyped`) and the chain disjoint from the mempool (`ChainTyped`).
- `WalletProofs`: `WalletTypeCorrect` says that every file loads; `WalletsStayHome` needs that no network
  without a folder is typed, and that is no accident (section 5). `SavingKeepsTheWallet` is that
  rewriting a parsed descriptor keeps architecture and signers; `FinalizerFindsScripts` that a script depends
  on how often each signer is listed only, by counting positions. `SavedScreensReturn` uses that a saved
  screen and its file agree (`typed = FALSE`). `SignersFindKeys` unfolds the origins of both architectures.

Left to TLC: `ScanEnds` and `WaitEnds`, which are liveness, and `AdvisedCancelIsOffered`, which is about ENABLED
and violated.

## 5. Where the program and its text disagree

Each is a run that expects a violation, and an entry of PROJECT.json "findings".

1. `known`: a scan between Broadcast and Save UTXO State records the change; Finalize then
   says "already recorded" and clears the pending state while the input is still listed as
   available and the change index not advanced. Save UTXO State has nothing to save then. It can be undone only by
   removing the scanned change record, finalizing or loading the transaction again, and saving.
2. `scan_floor`: below the floor of a scan "everything is spent", except what was never
   recorded.
3. `per_network`: files are stored per network, except that regtest has no folder: a
   regtest wallet saved after another network's goes where that one was.
4. `scan_advice`: the busy message advises Cancel when the button is gone.
5. `vout_zero`: "vout 0 is enough" to see a confirmation, unless its recipient spends it before the
   next poll; the tool then waits for its whole timeout and reports failure.

Seen while modelling, without a run of their own:

- A spent input is let through by `check_spent_utxo_available` (`gui.rs` 1462), whose comment
  says only a *re*-finalized payroll has one: a second payroll built from one input before
  the first was saved is finalized too. `treasury` contains that history, and shows that the record survives it.
- On regtest `main` loads no wallet at startup (`gui.rs` 130), though `docs/userguide.md` says that an existing wallet file
  of the configured network is loaded: the change index falls back to its default.
- On regtest `broadcast_and_confirm`, documented to "wait for at least one confirmation" (`live.rs` 107), returns success
  for whatever block it mined: a transaction the node dropped between the two calls is not in it. `ConfirmedIsMined`
  has the exception.
- `verify_onchain` prints "confirmed on-chain" (57) for outputs of a transaction that is in the mempool only: `live.rs` 169
  asks with the mempool, and so does `VerifyPasses`.
- `verify_onchain` does not compare the PSBT with `--txid`; `VerifyPasses` takes both.
- A Save UTXO State that dies between its two writes leaves the change recorded and its index handed out again: the
  next payroll pays change to the same address, and Save UTXO State refuses to record it. The file stays whole and
  the index does not go back (`SavedChangeRetiredItsInput`, `ChangeIndexOnlyGrows`).
- `scan_recipients` fails for a recipient listed twice with different amounts, whom the PSBT pays
  correctly; `VerifyAcceptsMined` excludes it.

## 6. Not modelled

- The arithmetic of keys, the bytes of scripts and PSBT fields, the characters of descriptors and
  TOML: deterministic conversions over data outside TLC's reach. What is derived from what is in
  `WalletDescriptor`; where a failure matters it is an action that bails.
- The layout of the screens, and `fs::write` torn by a crash: every write is atomic here.
- Handlers running inside a modal dialog (`confirm_remove_utxo`, file pickers).
- Demo fixtures and command line parsing; of recipient scanning, the keys. Typing a network into the screen
  of `TreasuryCoordinator`, which has one network; that Save Wallet then takes its change index to
  the other network's file is in `WalletSetup`.
- Reorganisations of the chain, and the node's relay fee and dust policy.
- That the node a scan asks is of the network on the screen, and that a signer makes a new nonce for each session:
  neither is the code's to decide, and no property says it.
- The moment between the two reads of the signed PSBT, by `check_signed_payroll` and by
  `finalize_payroll`: Finalize is one step.

## 7. Plan

Left, in this order:

1. `TreasuryCoordinator` as a client of `PayrollSigning`: its freedom to finalize any built PSBT should be
   what `Publish` allows, as its scan is what `ScanService` allows.
2. A handler that runs inside the dialog of Remove UTXO, where the platform lets timers run.
