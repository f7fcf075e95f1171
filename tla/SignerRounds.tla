-------------------------------- MODULE SignerRounds --------------------------------
(***************************************************************************)
(* The rounds of the signers on a payroll PSBT, and finalizing it.         *)
(*                                                                         *)
(* Build saves a PSBT whose Silent Payment scripts are open.  Copies of it *)
(* go to the signers, who add ECDH shares, a nonce and a partial signature *)
(* each (demo/src/workflow.rs); copies are merged; Finalize checks a copy  *)
(* against the PSBT at the build path as it is now (src/bin/gui.rs), fixes *)
(* the scripts, aggregates and writes (src/finalize.rs).                   *)
(*                                                                         *)
(* The transaction is its own sighash.  A recipient is its scan key, one   *)
(* spend key to each.  A share is good or fails its DLEQ proof, and what a *)
(* script was derived from says whether its recipient can find it.         *)
(*                                                                         *)
(* A signer's nonce is the seed it is made from: workflow::contribute      *)
(* takes the seed of its caller and the same seed makes the same nonce.    *)
(* The one caller in the repository passes test_nonce_seed, a constant of  *)
(* each party, and drops the SecNonce; the signers are external.           *)
(***************************************************************************)
EXTENDS Naturals, Sequences, FiniteSets

CONSTANTS
  Signers,       \* the participants of the aggregate key
  ScanKeys,      \* recipients
  ChangeScripts, \* treasury scripts the change may go to
  Inputs,        \* treasury outputs a payroll may spend
  Payrolls,      \* what Build may save: [input, outs], the outputs as shuffled
  Copies,        \* PSBT files in the directory of the signed PSBT
  FinalName,     \* the one named musig2-sp-final.psbt
  MaxBuilds,     \* bound on the PSBTs built
  Seeds,         \* what a signer may make its nonce from
  TestSeed,      \* test_nonce_seed of each party
  MaxRounds,     \* bound on the contributions made
  MaxDamage,     \* bound on the shares damaged on the way
  None

Shares == {"missing", "good", "bad"}

\* The taproot script of a recipient's k-th output, from the shared secret the
\* recipient derives too, or from a wrong one.
SpScript(key, input, k, secret) ==
  [key |-> key, input |-> input, k |-> k, secret |-> secret]
SilentScripts == [key : ScanKeys, input : Inputs, k : Nat, secret : {"shared", "wrong"}]
Scripts == SilentScripts \cup ChangeScripts

\* An output pays a recipient, or `to` is None and it is change.
Output == [amount : Nat, to : ScanKeys \cup {None}, script : Scripts \cup {None}]
Tx == [input : Inputs, outs : Seq([amount : Nat, script : Scripts \cup {None}])]
Nonces == [Signers -> Seeds \cup {None}]   \* None: not in the PSBT
Session == [Signers -> Seeds]
Signature == [msg : Tx, nonces : Session]

Psbt == [input : Inputs, outs : Seq(Output),
         shares : [Signers \X ScanKeys -> Shares],
         nonces : Nonces,
         sigs : [Signers -> Signature \cup {None}],
         final : BOOLEAN]

ASSUME RoundsAssumption ==
  /\ Signers # {} /\ Inputs # {}
  /\ TestSeed \in Seeds
  /\ MaxBuilds \in Nat /\ MaxRounds \in Nat /\ MaxDamage \in Nat
  /\ FinalName \in Copies
  /\ \A script \in ChangeScripts : script \notin SilentScripts
  /\ Payrolls \subseteq [input : Inputs, outs : Seq(Output)]
  /\ \A payroll \in Payrolls : \A i \in DOMAIN payroll.outs :
       IF payroll.outs[i].to = None THEN payroll.outs[i].script \in ChangeScripts
                                    ELSE payroll.outs[i].script = None
  /\ None \notin ScanKeys \cup Seeds \cup Scripts \cup Psbt
                   \cup [msg : Tx, nonces : Nonces] \cup [tx : Tx, built : Psbt \cup {None}]

VARIABLES
  built,      \* the PSBT at the path Build saves to, or None
  files,      \* the copies that go around, None before they are made
  hex,        \* musig2-sp-final-hex.txt, with the PSBT it was checked against
  held,       \* how many SecNonces of each seed a signer holds
  signatures, \* every partial signature ever made
  builds, rounds, damage

vars == <<built, files, hex, held, signatures, builds, rounds, damage>>
bounds == <<builds, rounds, damage>>

TypeOK ==
  /\ built \in Psbt \cup {None}
  /\ files \in [Copies -> Psbt \cup {None}]
  /\ hex \in [tx : Tx, built : Psbt \cup {None}] \cup {None}
  /\ held \in [Signers \X Seeds -> Nat]
  /\ signatures \subseteq [signer : Signers, msg : Tx, nonces : Session]
  /\ builds \in 0..MaxBuilds
  /\ rounds \in 0..MaxRounds
  /\ damage \in 0..MaxDamage

Init ==
  /\ built = None
  /\ files = [c \in Copies |-> None]
  /\ hex = None
  /\ held = [x \in Signers \X Seeds |-> 0]
  /\ signatures = {}
  /\ builds = 0
  /\ rounds = 0
  /\ damage = 0

-------------------------------------------------------------------------------
(* PSBTs.                                                                  *)

ScanKeysOf(psbt) == {psbt.outs[i].to : i \in DOMAIN psbt.outs} \ {None}

\* construct_initial_psbt.
Unsigned(input, outs) ==
  [input |-> input, outs |-> outs,
   shares |-> [x \in Signers \X ScanKeys |-> "missing"],
   nonces |-> [p \in Signers |-> None],
   sigs |-> [p \in Signers |-> None],
   final |-> FALSE]

\* compute_sighash, both of them: the transaction with the scripts as they are.
Sighash(psbt) ==
  [input |-> psbt.input,
   outs |-> [i \in DOMAIN psbt.outs |->
               [amount |-> psbt.outs[i].amount, script |-> psbt.outs[i].script]]]

\* finalize_sp_outputs refuses a share that is missing or whose proof fails.
CanDerive(psbt) ==
  \A p \in Signers, key \in ScanKeysOf(psbt) : psbt.shares[p, key] = "good"

\* What the shares for a recipient add up to.
Secret(psbt, key) ==
  IF \A p \in Signers : psbt.shares[p, key] = "good" THEN "shared" ELSE "wrong"

\* The outputs before i that pay the recipient of output i.
EarlierOutputs(psbt, i) == {j \in 1..(i - 1) : psbt.outs[j].to = psbt.outs[i].to}

\* finalize_sp_outputs.
Derived(psbt) ==
  [psbt EXCEPT !.outs = [i \in DOMAIN psbt.outs |->
     IF psbt.outs[i].to = None THEN psbt.outs[i]
     ELSE [psbt.outs[i] EXCEPT !.script =
             SpScript(psbt.outs[i].to, psbt.input, Cardinality(EarlierOutputs(psbt, i)),
                      Secret(psbt, psbt.outs[i].to))]]]

\* Mutant: partial signatures of different sessions are aggregated.
SignaturesOfAnySession(psbt, message) ==
  \A p \in Signers : psbt.sigs[p] # None /\ psbt.sigs[p].msg = message

\* aggregate_musig2_sigs and the Finalizer: every partial signature is there, over this
\* message and the sum of the nonces in the PSBT.
SignaturesVerify(psbt, message) ==
  \A p \in Signers : psbt.sigs[p] = [msg |-> message, nonces |-> psbt.nonces]

\* The Finalizer clears what the rounds added.
Finalized(psbt) ==
  [Unsigned(psbt.input, psbt.outs) EXCEPT !.final = TRUE]

\* Mutant: the scan looks for one output only.
DetectedFirst(psbt, key) ==
  {i \in DOMAIN psbt.outs : psbt.outs[i].script = SpScript(key, psbt.input, 0, "shared")}

\* The outputs a recipient's scan finds: consecutive k from 0, and of equal scripts
\* the first.
Detected(psbt, key) ==
  LET at(k) == {i \in DOMAIN psbt.outs :
                  psbt.outs[i].script = SpScript(key, psbt.input, k, "shared")}
  IN  {i \in DOMAIN psbt.outs : \E k \in 0..Len(psbt.outs) :
         /\ i \in at(k)
         /\ \A j \in at(k) : i <= j
         /\ \A earlier \in 0..(k - 1) : at(earlier) # {}}

-------------------------------------------------------------------------------
(* The coordinator's Build and the rounds.                                 *)

Build(payroll) ==
  /\ builds < MaxBuilds
  /\ built' = Unsigned(payroll.input, payroll.outs)
  /\ builds' = builds + 1
  /\ UNCHANGED <<files, hex, held, signatures, rounds, damage>>

\* A copy of the built PSBT is handed to the signers.
HandOut(c) ==
  /\ built # None
  /\ files' = [files EXCEPT ![c] = built]
  /\ UNCHANGED <<built, hex, held, signatures, bounds>>

InRounds(c) == files[c] # None /\ ~files[c].final

\* A share for each recipient, and a nonce in place of the one the copy has.
Contributed(psbt, p, seed) ==
  [psbt EXCEPT
     !.shares = [x \in Signers \X ScanKeys |->
        IF x[1] = p /\ x[2] \in ScanKeysOf(psbt) THEN "good" ELSE psbt.shares[x]],
     !.nonces[p] = seed]

\* contribute, and add_ecdh_share for the recipients it does not cover.
Contribute(p, c, seed) ==
  /\ InRounds(c)
  /\ ScanKeysOf(files[c]) # {}
  /\ rounds < MaxRounds
  /\ rounds' = rounds + 1
  /\ files' = [files EXCEPT ![c] = Contributed(@, p, seed)]
  /\ UNCHANGED <<built, hex, signatures, builds, damage>>

\* A signer contributes with a seed of its choice and keeps the SecNonce.
SignerContributes(p, c, seed) ==
  /\ Contribute(p, c, seed)
  /\ held' = [held EXCEPT ![<<p, seed>>] = @ + 1]

\* add_party_contribution: the seed is test_nonce_seed, the SecNonce is dropped.
AddPartyContribution(p, c) ==
  /\ Contribute(p, c, TestSeed)
  /\ UNCHANGED held

\* derive_sp_output.
DeriveOutputs(c) ==
  /\ InRounds(c)
  /\ CanDerive(files[c])
  /\ files' = [files EXCEPT ![c] = Derived(@)]
  /\ UNCHANGED <<built, hex, held, signatures, bounds>>

SignatureOver(psbt) == [msg |-> Sighash(psbt), nonces |-> psbt.nonces]

\* What history keeps of it.
Signing(p, psbt) == [signer |-> p, msg |-> Sighash(psbt), nonces |-> psbt.nonces]

\* Mutant: a signer signs before the others have sent their nonces.
PartialSignEarly(p, c) ==
  /\ InRounds(c)
  /\ files[c].nonces[p] # None
  /\ held[<<p, files[c].nonces[p]>>] > 0
  /\ held' = [held EXCEPT ![<<p, files[c].nonces[p]>>] = @ - 1]
  /\ files' = [files EXCEPT ![c] = [@ EXCEPT !.sigs[p] = SignatureOver(files[c])]]
  /\ signatures' = signatures \cup {Signing(p, files[c])}
  /\ UNCHANGED <<built, hex, bounds>>

\* compute_sighash and partial_sign, which consumes a SecNonce of the signer's nonce in
\* the copy.  Nothing in them keeps a signer from calling them before the scripts are
\* derived.
PartialSign(p, c) ==
  /\ InRounds(c)
  /\ \A q \in Signers : files[c].nonces[q] # None
  /\ held[<<p, files[c].nonces[p]>>] > 0
  /\ held' = [held EXCEPT ![<<p, files[c].nonces[p]>>] = @ - 1]
  /\ files' = [files EXCEPT ![c] = [@ EXCEPT !.sigs[p] = SignatureOver(files[c])]]
  /\ signatures' = signatures \cup {Signing(p, files[c])}
  /\ UNCHANGED <<built, hex, bounds>>

\* A share that arrives with a proof that fails.
DamageShare(p, key, c) ==
  /\ InRounds(c)
  /\ damage < MaxDamage
  /\ files[c].shares[p, key] = "good"
  /\ files' = [files EXCEPT ![c] = [@ EXCEPT !.shares[<<p, key>>] = "bad"]]
  /\ damage' = damage + 1
  /\ UNCHANGED <<built, hex, held, signatures, builds, rounds>>

\* What copies of one PSBT share.
Body(psbt) == [input |-> psbt.input,
               outs |-> [i \in DOMAIN psbt.outs |-> [amount |-> psbt.outs[i].amount,
                                                     to |-> psbt.outs[i].to]]]

\* A field both have is the first one's.
Merged(psbt, other) ==
  [psbt EXCEPT
     !.outs = [i \in DOMAIN psbt.outs |->
        IF psbt.outs[i].script = None THEN other.outs[i] ELSE psbt.outs[i]],
     !.shares = [x \in Signers \X ScanKeys |->
        IF psbt.shares[x] = "missing" THEN other.shares[x] ELSE psbt.shares[x]],
     !.nonces = [p \in Signers |->
        IF psbt.nonces[p] = None THEN other.nonces[p] ELSE psbt.nonces[p]],
     !.sigs = [p \in Signers |->
        IF psbt.sigs[p] = None THEN other.sigs[p] ELSE psbt.sigs[p]]]

Merge(c, d) ==
  /\ InRounds(c) /\ InRounds(d) /\ c # d
  /\ Body(files[c]) = Body(files[d])
  /\ files' = [files EXCEPT ![c] = Merged(@, files[d])]
  /\ UNCHANGED <<built, hex, held, signatures, bounds>>

-------------------------------------------------------------------------------
(* Finalizing.                                                             *)

\* Mutant: recipients are not compared.
MatchesAmounts(psbt) ==
  /\ psbt.input = built.input
  /\ Len(psbt.outs) = Len(built.outs)
  /\ \A i \in DOMAIN built.outs :
       /\ psbt.outs[i].amount = built.outs[i].amount
       /\ psbt.outs[i].to = None => psbt.outs[i].script = built.outs[i].script

\* check_signed_matches_built: silent payment scripts are not compared.
MatchesBuilt(psbt) ==
  /\ psbt.input = built.input
  /\ Len(psbt.outs) = Len(built.outs)
  /\ \A i \in DOMAIN built.outs :
       /\ psbt.outs[i].amount = built.outs[i].amount
       /\ psbt.outs[i].to = built.outs[i].to
       /\ psbt.outs[i].to = None => psbt.outs[i].script = built.outs[i].script

CanFinalize(psbt) ==
  /\ CanDerive(psbt)
  /\ SignaturesVerify(psbt, Sighash(Derived(psbt)))

\* finalize_payroll, down to its two writes: the final PSBT beside the signed one, which
\* it replaces if that has its name, then the transaction; the second may fail.
FinalizePayroll(c, checked) ==
  /\ CanFinalize(files[c])
  /\ files' = [files EXCEPT ![FinalName] = Finalized(Derived(files[c]))]
  /\ \/ hex' = [tx |-> Sighash(Derived(files[c])), built |-> checked]
     \/ UNCHANGED hex
  /\ UNCHANGED <<built, held, signatures, bounds>>

\* Finalize, on the screen.
FinalizeChecked(c) ==
  /\ files[c] # None /\ built # None
  /\ MatchesBuilt(files[c])
  /\ FinalizePayroll(c, built)

\* `just finalize`, which takes any PSBT.
FinalizeUnchecked(c) ==
  /\ files[c] # None
  /\ FinalizePayroll(c, None)

Next ==
  \/ \E payroll \in Payrolls : Build(payroll)
  \/ \E c \in Copies : HandOut(c)
  \/ \E p \in Signers, c \in Copies, seed \in Seeds : SignerContributes(p, c, seed)
  \/ \E p \in Signers, c \in Copies : AddPartyContribution(p, c)
  \/ \E c \in Copies : DeriveOutputs(c)
  \/ \E p \in Signers, c \in Copies : PartialSign(p, c)
  \/ \E p \in Signers, key \in ScanKeys, c \in Copies : DamageShare(p, key, c)
  \/ \E c, d \in Copies : Merge(c, d)
  \/ \E c \in Copies : FinalizeChecked(c)
  \/ \E c \in Copies : FinalizeUnchecked(c)

Spec == Init /\ [][Next]_vars

-------------------------------------------------------------------------------

\* The transaction written is one every signer signed, exactly as it is: no signature
\* for another build, for scripts not derived yet, or with a nonce replaced since,
\* makes it into a final transaction, in whatever order the copies went around.
EverySignerSigned ==
  hex # None =>
    \A p \in Signers : \E s \in signatures : s.signer = p /\ s.msg = hex.tx

\* A transaction spends the input of a PSBT, pays each recipient its amount at the same
\* position, and returns the change to the treasury.
Pays(tx, psbt) ==
  /\ tx.input = psbt.input
  /\ Len(tx.outs) = Len(psbt.outs)
  /\ \A i \in DOMAIN psbt.outs :
       /\ tx.outs[i].amount = psbt.outs[i].amount
       /\ IF psbt.outs[i].to = None
          THEN tx.outs[i].script = psbt.outs[i].script
          ELSE \E k \in 0..Len(psbt.outs) :
                 tx.outs[i].script = SpScript(psbt.outs[i].to, psbt.input, k, "shared")

\* What the screen finalized is what Build saved, merged, signed and finalized whichever
\* way it was.
FinalPaysBuilt == hex # None /\ hex.built # None => Pays(hex.tx, hex.built)

\* Each recipient's scan of a final PSBT finds all the outputs that pay it, also when
\* one recipient is paid twice, and no other.
RecipientsDetect ==
  \A c \in Copies : files[c] # None /\ files[c].final =>
    \A key \in ScanKeys :
      Detected(files[c], key) = {i \in DOMAIN files[c].outs : files[c].outs[i].to = key}

-------------------------------------------------------------------------------
(* The rounds keep the promise of PayrollSigning: copies, shares, held     *)
(* nonces and merges are hidden.                                           *)

Protocol == INSTANCE PayrollSigning
              WITH payroll <- built, consents <- signatures, published <- hex

\* Every step of the rounds is a signer's consent, a transaction all consented to in one
\* session, another payroll, or hidden.
KeepsSigning == Protocol!SigningSpec
===============================================================================
