----------------------------- MODULE WalletDescriptor -----------------------------
(***************************************************************************)
(* The treasury's descriptor (src/wallet.rs) and the keys derived from it  *)
(* (src/payroll.rs).  A descriptor is its signers and the places where it  *)
(* has the multipath step: behind the aggregate, or behind every signer.   *)
(* A key is the signer whose xpub it comes from and the path below it; a   *)
(* script is the aggregate it commits to and the path below that.          *)
(***************************************************************************)
EXTENDS Naturals, Sequences, FiniteSets

CONSTANTS
  Signers, \* signers: a fingerprint, a derivation path and an xpub each
  Kind,    \* the networks each xpub is for: "main" or "test"
  None     \* not a descriptor, no derivation path

Step == "/<0;1>/*"  \* MULTIPATH_SUFFIX
Tails == {"", Step}
AggregateThenDerive == "AggregateThenDerive"
DeriveThenAggregate == "DeriveThenAggregate"
WalletKeyArch == {AggregateThenDerive, DeriveThenAggregate}
NetworkNames == {"mainnet", "bitcoin", "testnet", "signet", "regtest"}

ASSUME SignersAssumption == Kind \in [Signers -> {"main", "test"}]

\* tr(musig(parts)tail), with or without blanks between its parts.
Text == [parts : Seq([signer : Signers, tail : Tails]), tail : Tails,
         layout : {"tidy", "spaced"}]

-------------------------------------------------------------------------------
(* wallet.rs.                                                              *)

\* parse_network: SpNetwork has no signet.
NetworkValue(name) ==
  CASE name \in {"mainnet", "bitcoin"} -> "Mainnet"
    [] name \in {"testnet", "signet"}  -> "Testnet"
    [] name = "regtest"                -> "Regtest"

\* Mutant: network_name alone, which folds signet into testnet.
FoldedName(name) ==
  CASE NetworkValue(name) = "Mainnet" -> "bitcoin"
    [] NetworkValue(name) = "Testnet" -> "testnet"
    [] NetworkValue(name) = "Regtest" -> "regtest"

CanonicalName(name) ==
  CASE name = "signet"                -> "signet"
    [] name \in {"mainnet", "bitcoin"} -> "bitcoin"
    [] OTHER                          -> name

\* Where a descriptor of this architecture has the multipath step.
TailOfAggregate(arch) == IF arch = AggregateThenDerive THEN Step ELSE ""
TailOfSigner(arch) == IF arch = DeriveThenAggregate THEN Step ELSE ""

ArchOf(text) == IF text.tail = Step THEN AggregateThenDerive ELSE DeriveThenAggregate

SignersOf(text) == [i \in DOMAIN text.parts |-> text.parts[i].signer]

\* parse_descriptor_signers, and the xpubs of validate, accept it: one place for the
\* step, the same for every signer.
Parses(text) ==
  \A i \in DOMAIN text.parts : text.parts[i].tail = TailOfSigner(ArchOf(text))

\* Mutant: the step always goes behind the aggregate.
AlwaysAggregate(signers, arch) ==
  [parts |-> [i \in DOMAIN signers |-> [signer |-> signers[i], tail |-> ""]],
   tail |-> Step, layout |-> "tidy"]

DescriptorFromSigners(signers, arch) ==
  [parts |-> [i \in DOMAIN signers |->
                [signer |-> signers[i], tail |-> TailOfSigner(arch)]],
   tail |-> TailOfAggregate(arch), layout |-> "tidy"]

\* The checks of normalized.
Valid(wallet) ==
  /\ wallet.text # None
  /\ Parses(wallet.text)
  /\ Len(wallet.text.parts) >= 2
  /\ \A i \in DOMAIN wallet.text.parts :
       Kind[wallet.text.parts[i].signer] =
         IF NetworkValue(wallet.network) = "Mainnet" THEN "main" ELSE "test"

\* Mutant: the wallet as it was typed.
AsTyped(wallet) == wallet

\* normalized, of a valid wallet.
Normalized(wallet) ==
  [wallet EXCEPT
     !.network = CanonicalName(@),
     !.text = DescriptorFromSigners(SignersOf(@), ArchOf(@))]

-------------------------------------------------------------------------------
(* payroll.rs: the keys of a wallet at a chain and an index.               *)

PublicKey(signer, path) == [xpub |-> signer, path |-> path]

\* sort_by_key: what is left of the order the descriptor lists the signers in is how
\* often it lists each.
Sorted(keys) ==
  [key \in {keys[i] : i \in DOMAIN keys} |->
     Cardinality({i \in DOMAIN keys : keys[i] = key})]

\* build_tweaked_key_agg_ctx and new_p2tr_tweaked.
TaprootScript(participants, path) == [of |-> participants, path |-> path]

\* Mutant: the leaf is not appended to the origin.
OriginOfAccount(arch, leaf) == <<>>

\* The path below its xpub at which a signer finds its key.
SignerPath(arch, leaf) == IF arch = DeriveThenAggregate THEN leaf ELSE <<>>

\* derive_wallet_public_keys, in both architectures.
WalletPublicKeys(wallet, leaf) ==
  LET arch    == ArchOf(wallet.text)
      signers == SignersOf(wallet.text)
      keys    == [i \in DOMAIN signers |->
                    PublicKey(signers[i], IF arch = DeriveThenAggregate THEN leaf ELSE <<>>)]
      child   == IF arch = AggregateThenDerive THEN leaf ELSE <<>>
  IN  [arch |-> arch, leaf |-> leaf, participants |-> Sorted(keys),
       script  |-> TaprootScript(Sorted(keys), child),
       origins |-> {[key |-> keys[i], xfp |-> signers[i],
                     path |-> SignerPath(arch, leaf)] : i \in DOMAIN signers}]

\* derive_treasury_script_pubkey, of a valid wallet.
TreasuryScript(wallet, leaf) == WalletPublicKeys(wallet, leaf).script

\* Mutant: the derivation of the aggregate is always recorded.
AlwaysAggPath(keys) == keys.leaf

\* set_musig2_agg_derivation
AggPath(keys) == IF keys.arch = AggregateThenDerive THEN keys.leaf ELSE None

\* construct_initial_psbt: what the input says of the keys, and the change output.
KeyFields(keys) ==
  [script |-> keys.script, participants |-> keys.participants,
   aggPath |-> AggPath(keys), origins |-> keys.origins]

\* finalize_payroll: the script the finalizer signs for, from the public fields.
FinalizerScript(fields) ==
  TaprootScript(fields.participants, IF fields.aggPath = None THEN <<>> ELSE fields.aggPath)

\* A signing device, which has its master key alone, finds its key among those of the
\* aggregate by an origin with its fingerprint.
DeviceFinds(signer, fields) ==
  \E origin \in fields.origins :
    /\ origin.xfp = signer
    /\ origin.key = PublicKey(signer, origin.path)
    /\ origin.key \in DOMAIN fields.participants
===============================================================================
