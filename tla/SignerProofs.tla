-------------------------------- MODULE SignerProofs --------------------------------
(***************************************************************************)
(* What holds of the signers' rounds for every number of signers, copies,  *)
(* payrolls and seeds.                                                    *)
(***************************************************************************)
EXTENDS SignerRounds, SequenceFacts

-------------------------------------------------------------------------------
(* What the operations on a PSBT return.                                   *)

\* A sequence's domain, and a function on the domain of a sequence is one.
LEMMA SeqFacts ==
  ASSUME NEW R, NEW S, NEW seq \in Seq(R), NEW f \in [DOMAIN seq -> S]
  PROVE  f \in Seq(S) /\ Len(f) = Len(seq)
<1>1. DOMAIN seq = 1..Len(seq) /\ Len(seq) \in Nat
  OBVIOUS
<1> QED BY <1>1

LEMMA UnsignedType ==
  ASSUME NEW input \in Inputs, NEW outs \in Seq(Output)
  PROVE  /\ Unsigned(input, outs) \in Psbt
         /\ \A p \in Signers : Unsigned(input, outs).sigs[p] = None
BY RoundsAssumption DEF Unsigned, Psbt, Nonces, Shares

LEMMA SighashType ==
  ASSUME NEW psbt \in Psbt
  PROVE  /\ Sighash(psbt) \in Tx
         /\ Sighash(psbt).input = psbt.input
         /\ Len(Sighash(psbt).outs) = Len(psbt.outs)
         /\ \A i \in DOMAIN psbt.outs :
              /\ Sighash(psbt).outs[i].amount = psbt.outs[i].amount
              /\ Sighash(psbt).outs[i].script = psbt.outs[i].script
<1> DEFINE S == [amount : Nat, script : Scripts \cup {None}]
           outs == [i \in DOMAIN psbt.outs |->
                      [amount |-> psbt.outs[i].amount, script |-> psbt.outs[i].script]]
<1>1. psbt.outs \in Seq(Output) /\ psbt.input \in Inputs
  BY DEF Psbt
<1>2. \A i \in DOMAIN psbt.outs : psbt.outs[i] \in Output
  BY <1>1
<1>3. \A i \in DOMAIN psbt.outs : outs[i] \in S
  BY <1>2 DEF Output
<1>4. outs \in Seq(S) /\ Len(outs) = Len(psbt.outs)
  <2> HIDE DEF S
  <2>1. outs \in [DOMAIN psbt.outs -> S]
    BY <1>3
  <2> HIDE DEF outs
  <2> QED BY <1>1, <2>1, SeqFacts
<1> QED BY <1>1, <1>4 DEF Sighash, Tx

LEMMA DerivedType ==
  ASSUME NEW psbt \in Psbt
  PROVE  /\ Derived(psbt) \in Psbt
         /\ Derived(psbt).sigs = psbt.sigs
         /\ Derived(psbt).input = psbt.input
         /\ Len(Derived(psbt).outs) = Len(psbt.outs)
         /\ \A i \in DOMAIN psbt.outs :
              /\ Derived(psbt).outs[i].amount = psbt.outs[i].amount
              /\ psbt.outs[i].to = None => Derived(psbt).outs[i] = psbt.outs[i]
              /\ psbt.outs[i].to # None =>
                   \E k \in 0..Len(psbt.outs) :
                     Derived(psbt).outs[i].script =
                       SpScript(psbt.outs[i].to, psbt.input, k,
                         Secret(psbt, psbt.outs[i].to))
<1> DEFINE k(i) == Cardinality(EarlierOutputs(psbt, i))
           script(i) == SpScript(psbt.outs[i].to, psbt.input, k(i), Secret(psbt, psbt.outs[i].to))
           outs == [i \in DOMAIN psbt.outs |->
                      IF psbt.outs[i].to = None THEN psbt.outs[i]
                      ELSE [psbt.outs[i] EXCEPT !.script = script(i)]]
<1>1. /\ psbt.outs \in Seq(Output) /\ psbt.input \in Inputs
      /\ DOMAIN psbt.outs = 1..Len(psbt.outs) /\ Len(psbt.outs) \in Nat
  BY DEF Psbt
<1>2. \A i \in DOMAIN psbt.outs : psbt.outs[i] \in Output
  BY <1>1
<1>3. ASSUME NEW i \in DOMAIN psbt.outs
      PROVE  k(i) \in 0..Len(psbt.outs)
  <2>1. i - 1 \in Nat /\ i - 1 <= Len(psbt.outs) /\ i \in Int
    BY <1>1
  <2>2. IsFiniteSet(1..(i - 1)) /\ Cardinality(1..(i - 1)) = i - 1
    BY <2>1, FS_Interval
  <2>3. EarlierOutputs(psbt, i) \subseteq 1..(i - 1)
    BY DEF EarlierOutputs
  <2>4. /\ IsFiniteSet(EarlierOutputs(psbt, i))
        /\ k(i) <= Cardinality(1..(i - 1))
    BY <2>2, <2>3, FS_Subset
  <2>5. k(i) \in Nat
    BY <2>4, FS_CardinalityType
  <2> QED BY <1>1, <2>1, <2>2, <2>4, <2>5
<1>4. ASSUME NEW i \in DOMAIN psbt.outs, psbt.outs[i].to # None
      PROVE  script(i) \in Scripts
  <2>1. psbt.outs[i].to \in ScanKeys
    BY <1>2, <1>4 DEF Output
  <2>2. k(i) \in Nat
    BY <1>3
  <2>3. Secret(psbt, psbt.outs[i].to) \in {"shared", "wrong"}
    BY DEF Secret
  <2> HIDE DEF k
  <2> QED BY <1>1, <2>1, <2>2, <2>3 DEF Scripts, SilentScripts, SpScript
<1> HIDE DEF script
<1>5. \A i \in DOMAIN psbt.outs : outs[i] \in Output
  BY <1>2, <1>4 DEF Output
<1>6. outs \in Seq(Output) /\ Len(outs) = Len(psbt.outs)
  <2>1. outs \in [DOMAIN psbt.outs -> Output]
    BY <1>5
  <2> HIDE DEF outs
  <2> QED BY <1>1, <2>1, SeqFacts
<1>7. Derived(psbt) = [psbt EXCEPT !.outs = outs]
  BY DEF Derived, script
<1>8. \A i \in DOMAIN psbt.outs :
        /\ outs[i].amount = psbt.outs[i].amount
        /\ psbt.outs[i].to = None => outs[i] = psbt.outs[i]
        /\ psbt.outs[i].to # None => outs[i].script = script(i)
  BY <1>2 DEF Output
<1> HIDE DEF outs
<1>9. /\ Derived(psbt) \in Psbt /\ Derived(psbt).sigs = psbt.sigs
      /\ Derived(psbt).input = psbt.input /\ Derived(psbt).outs = outs
  BY <1>6, <1>7 DEF Psbt
<1> QED BY <1>3, <1>6, <1>8, <1>9 DEF script

LEMMA FinalizedType ==
  ASSUME NEW psbt \in Psbt
  PROVE  /\ Finalized(psbt) \in Psbt
         /\ \A p \in Signers : Finalized(psbt).sigs[p] = None
<1>1. /\ Unsigned(psbt.input, psbt.outs) \in Psbt
      /\ \A p \in Signers : Unsigned(psbt.input, psbt.outs).sigs[p] = None
  BY UnsignedType DEF Psbt
<1> QED BY <1>1 DEF Finalized, Psbt

LEMMA ContributedType ==
  ASSUME NEW psbt \in Psbt, NEW p \in Signers, NEW seed \in Seeds
  PROVE  /\ Contributed(psbt, p, seed) \in Psbt
         /\ Contributed(psbt, p, seed).sigs = psbt.sigs
BY DEF Contributed, Psbt, Shares, Nonces

LEMMA MergedType ==
  ASSUME NEW psbt \in Psbt, NEW other \in Psbt, Body(psbt) = Body(other)
  PROVE  /\ Merged(psbt, other) \in Psbt
         /\ \A p \in Signers : \/ Merged(psbt, other).sigs[p] = psbt.sigs[p]
                               \/ Merged(psbt, other).sigs[p] = other.sigs[p]
<1> DEFINE outs == [i \in DOMAIN psbt.outs |->
                      IF psbt.outs[i].script = None THEN other.outs[i] ELSE psbt.outs[i]]
           shares == [x \in Signers \X ScanKeys |->
                        IF psbt.shares[x] = "missing" THEN other.shares[x] ELSE psbt.shares[x]]
           nonces == [p \in Signers |->
                        IF psbt.nonces[p] = None THEN other.nonces[p] ELSE psbt.nonces[p]]
           sigs == [p \in Signers |->
                      IF psbt.sigs[p] = None THEN other.sigs[p] ELSE psbt.sigs[p]]
<1>1. psbt.outs \in Seq(Output) /\ other.outs \in Seq(Output)
  BY DEF Psbt
<1>2. DOMAIN other.outs = DOMAIN psbt.outs
  <2>1. Body(psbt).outs = Body(other).outs
    OBVIOUS
  <2>2. DOMAIN Body(psbt).outs = DOMAIN psbt.outs /\ DOMAIN Body(other).outs = DOMAIN other.outs
    BY DEF Body
  <2> QED BY <2>1, <2>2
<1>3. \A i \in DOMAIN psbt.outs : outs[i] \in Output
  BY <1>1, <1>2
<1>4. outs \in Seq(Output)
  <2>1. outs \in [DOMAIN psbt.outs -> Output]
    BY <1>3
  <2> HIDE DEF outs
  <2> QED BY <1>1, <2>1, SeqFacts
<1>5. shares \in [Signers \X ScanKeys -> Shares] /\ nonces \in Nonces
  BY DEF Psbt, Nonces
<1>6. sigs \in [Signers -> Signature \cup {None}]
  BY DEF Psbt
<1>7. Merged(psbt, other) =
        [psbt EXCEPT !.outs = outs, !.shares = shares, !.nonces = nonces, !.sigs = sigs]
  BY DEF Merged
<1>8. \A p \in Signers : sigs[p] = psbt.sigs[p] \/ sigs[p] = other.sigs[p]
  OBVIOUS
<1> HIDE DEF outs, shares, nonces, sigs
<1>9. Merged(psbt, other) \in Psbt /\ Merged(psbt, other).sigs = sigs
  BY <1>4, <1>5, <1>6, <1>7 DEF Psbt
<1> QED BY <1>8, <1>9

-------------------------------------------------------------------------------
(* The invariant.                                                          *)

\* A partial signature is over the message and in the session of the one in history.
Attests(s, sig) == s.msg = sig.msg /\ s.nonces = sig.nonces

\* A partial signature in any copy is one its signer made, and the PSBT Build saved
\* has none.
SigsAreRecorded ==
  /\ \A c \in Copies : files[c] # None =>
       \A p \in Signers : files[c].sigs[p] # None =>
         \E s \in signatures : s.signer = p /\ Attests(s, files[c].sigs[p])
  /\ built # None => \A p \in Signers : built.sigs[p] = None
  /\ EverySignerSigned

RoundsInv == TypeOK /\ SigsAreRecorded /\ FinalPaysBuilt

LEMMA InitRounds == Init => RoundsInv
BY RoundsAssumption
DEF Init, RoundsInv, TypeOK, SigsAreRecorded, EverySignerSigned, FinalPaysBuilt

\* A step that puts into a copy no signature it, another copy or history had not.
LEMMA SigsKept ==
  ASSUME RoundsInv, NEW c \in Copies, NEW psbt \in Psbt,
         files' = [files EXCEPT ![c] = psbt],
         UNCHANGED <<built, hex, signatures>>,
         \A p \in Signers : psbt.sigs[p] # None =>
           \E s \in signatures : s.signer = p /\ Attests(s, psbt.sigs[p])
  PROVE  SigsAreRecorded' /\ files' \in [Copies -> Psbt \cup {None}]
BY DEF RoundsInv, TypeOK, SigsAreRecorded, EverySignerSigned

\* The same, with the SecNonces and the bounds.
LEMMA FileChanged ==
  ASSUME RoundsInv, NEW c \in Copies, NEW psbt \in Psbt,
         files' = [files EXCEPT ![c] = psbt],
         UNCHANGED <<built, hex, signatures>>,
         held' \in [Signers \X Seeds -> Nat],
         builds' \in 0..MaxBuilds, rounds' \in 0..MaxRounds, damage' \in 0..MaxDamage,
         \A p \in Signers : psbt.sigs[p] # None =>
           \E s \in signatures : s.signer = p /\ Attests(s, psbt.sigs[p])
  PROVE  RoundsInv'
<1>1. SigsAreRecorded' /\ files' \in [Copies -> Psbt \cup {None}]
  BY SigsKept
<1>2. TypeOK'
  BY <1>1 DEF RoundsInv, TypeOK
<1>3. FinalPaysBuilt'
  BY DEF RoundsInv, FinalPaysBuilt
<1> QED BY <1>1, <1>2, <1>3 DEF RoundsInv

LEMMA BuildStep ==
  ASSUME RoundsInv, NEW payroll \in Payrolls, Build(payroll)
  PROVE  RoundsInv'
<1>1. /\ Unsigned(payroll.input, payroll.outs) \in Psbt
      /\ \A p \in Signers : Unsigned(payroll.input, payroll.outs).sigs[p] = None
  BY RoundsAssumption, UnsignedType
<1>2. TypeOK'
  <2>1. builds' \in 0..MaxBuilds
    BY RoundsAssumption DEF RoundsInv, TypeOK, Build
  <2> QED BY <1>1, <2>1 DEF RoundsInv, TypeOK, Build
<1>3. SigsAreRecorded'
  BY <1>1 DEF RoundsInv, Build, SigsAreRecorded, EverySignerSigned
<1>4. FinalPaysBuilt'
  BY DEF RoundsInv, Build, FinalPaysBuilt
<1> QED BY <1>2, <1>3, <1>4 DEF RoundsInv

LEMMA HandOutStep ==
  ASSUME RoundsInv, NEW c \in Copies, HandOut(c)
  PROVE  RoundsInv'
<1>1. built \in Psbt /\ \A p \in Signers : built.sigs[p] = None
  BY DEF RoundsInv, TypeOK, SigsAreRecorded, HandOut
<1> QED BY <1>1, FileChanged DEF HandOut, RoundsInv, TypeOK, bounds

LEMMA ContributeStep ==
  ASSUME RoundsInv, NEW p \in Signers, NEW c \in Copies, NEW seed \in Seeds,
         Contribute(p, c, seed), held' \in [Signers \X Seeds -> Nat]
  PROVE  RoundsInv'
<1> DEFINE psbt == Contributed(files[c], p, seed)
<1>1. files[c] \in Psbt /\ files[c] # None
  BY DEF RoundsInv, TypeOK, Contribute, InRounds
<1>2. psbt \in Psbt /\ psbt.sigs = files[c].sigs
  BY <1>1, ContributedType
<1>3. files' = [files EXCEPT ![c] = psbt]
  BY DEF Contribute
<1>4. /\ UNCHANGED <<built, hex, signatures>>
      /\ builds' \in 0..MaxBuilds /\ rounds' \in 0..MaxRounds /\ damage' \in 0..MaxDamage
  <2>1. rounds < MaxRounds /\ rounds' = rounds + 1
    BY DEF Contribute
  <2>2. rounds' \in 0..MaxRounds
    BY <2>1, RoundsAssumption DEF RoundsInv, TypeOK
  <2> QED BY <2>2 DEF Contribute, RoundsInv, TypeOK
<1>5. \A q \in Signers : psbt.sigs[q] # None =>
        \E s \in signatures : s.signer = q /\ Attests(s, psbt.sigs[q])
  BY <1>1, <1>2 DEF RoundsInv, SigsAreRecorded
<1> HIDE DEF psbt
<1> QED BY <1>2, <1>3, <1>4, <1>5, FileChanged

\* With the SecNonce kept or dropped.
LEMMA ContributionStep ==
  ASSUME RoundsInv, NEW p \in Signers, NEW c \in Copies,
         (\E seed \in Seeds : SignerContributes(p, c, seed)) \/ AddPartyContribution(p, c)
  PROVE  RoundsInv'
<1>1. held \in [Signers \X Seeds -> Nat]
  BY DEF RoundsInv, TypeOK
<1>2. ASSUME NEW seed \in Seeds, SignerContributes(p, c, seed)
      PROVE  RoundsInv'
  <2>1. held' \in [Signers \X Seeds -> Nat]
    BY <1>1, <1>2 DEF SignerContributes
  <2> QED BY <1>2, <2>1, ContributeStep DEF SignerContributes
<1>3. CASE AddPartyContribution(p, c)
  <2>1. TestSeed \in Seeds
    BY RoundsAssumption
  <2> QED BY <1>1, <1>3, <2>1, ContributeStep DEF AddPartyContribution
<1> QED BY <1>2, <1>3

LEMMA DeriveStep ==
  ASSUME RoundsInv, NEW c \in Copies, DeriveOutputs(c)
  PROVE  RoundsInv'
<1>1. files[c] \in Psbt /\ files[c] # None
  BY DEF RoundsInv, TypeOK, DeriveOutputs, InRounds
<1>2. Derived(files[c]) \in Psbt /\ Derived(files[c]).sigs = files[c].sigs
  BY <1>1, DerivedType
<1>3. \A p \in Signers : Derived(files[c]).sigs[p] # None =>
        \E s \in signatures : s.signer = p /\ Attests(s, Derived(files[c]).sigs[p])
  BY <1>1, <1>2 DEF RoundsInv, SigsAreRecorded
<1> QED BY <1>2, <1>3, FileChanged DEF DeriveOutputs, RoundsInv, TypeOK, bounds

LEMMA DamageStep ==
  ASSUME RoundsInv, NEW p \in Signers, NEW key \in ScanKeys, NEW c \in Copies,
         DamageShare(p, key, c)
  PROVE  RoundsInv'
<1> DEFINE psbt == [files[c] EXCEPT !.shares[<<p, key>>] = "bad"]
<1>1. files[c] \in Psbt /\ files[c] # None
  BY DEF RoundsInv, TypeOK, DamageShare, InRounds
<1>2. psbt \in Psbt /\ psbt.sigs = files[c].sigs
  BY <1>1 DEF Psbt, Shares
<1>3. \A q \in Signers : psbt.sigs[q] # None =>
        \E s \in signatures : s.signer = q /\ Attests(s, psbt.sigs[q])
  BY <1>1, <1>2 DEF RoundsInv, SigsAreRecorded
<1>4. files' = [files EXCEPT ![c] = psbt]
  BY DEF DamageShare
<1>5. /\ UNCHANGED <<built, hex, held, signatures>>
      /\ held' \in [Signers \X Seeds -> Nat]
      /\ builds' \in 0..MaxBuilds /\ rounds' \in 0..MaxRounds /\ damage' \in 0..MaxDamage
  <2>1. damage < MaxDamage /\ damage' = damage + 1
    BY DEF DamageShare
  <2>2. damage' \in 0..MaxDamage
    BY <2>1, RoundsAssumption DEF RoundsInv, TypeOK
  <2> QED BY <2>2 DEF DamageShare, RoundsInv, TypeOK
<1> HIDE DEF psbt
<1> QED BY <1>2, <1>3, <1>4, <1>5, FileChanged

LEMMA MergeStep ==
  ASSUME RoundsInv, NEW c \in Copies, NEW d \in Copies, Merge(c, d)
  PROVE  RoundsInv'
<1> DEFINE psbt == Merged(files[c], files[d])
<1>1. /\ files[c] \in Psbt /\ files[c] # None
      /\ files[d] \in Psbt /\ files[d] # None
      /\ Body(files[c]) = Body(files[d])
  BY DEF RoundsInv, TypeOK, Merge, InRounds
<1>2. /\ psbt \in Psbt
      /\ \A p \in Signers : psbt.sigs[p] = files[c].sigs[p] \/ psbt.sigs[p] = files[d].sigs[p]
  BY <1>1, MergedType
<1>3. files' = [files EXCEPT ![c] = psbt]
  BY DEF Merge
<1> HIDE DEF psbt
<1>4. \A q \in Signers : psbt.sigs[q] # None =>
        \E s \in signatures : s.signer = q /\ Attests(s, psbt.sigs[q])
  BY <1>1, <1>2 DEF RoundsInv, SigsAreRecorded
<1>5. /\ UNCHANGED <<built, hex, held, signatures>>
      /\ held' \in [Signers \X Seeds -> Nat]
      /\ builds' \in 0..MaxBuilds /\ rounds' \in 0..MaxRounds /\ damage' \in 0..MaxDamage
  BY DEF Merge, RoundsInv, TypeOK, bounds
<1> QED BY <1>2, <1>3, <1>4, <1>5, FileChanged

LEMMA PartialSignStep ==
  ASSUME RoundsInv, NEW p \in Signers, NEW c \in Copies, PartialSign(p, c)
  PROVE  RoundsInv'
<1> DEFINE old == files[c]
           sig == SignatureOver(old)
           new == Signing(p, old)
           psbt == [old EXCEPT !.sigs[p] = sig]
<1>1. old \in Psbt /\ old # None /\ \A q \in Signers : old.nonces[q] # None
  BY DEF RoundsInv, TypeOK, PartialSign, InRounds
<1>2. Sighash(old) \in Tx /\ old.nonces \in Session
  BY <1>1, SighashType DEF Psbt, Nonces, Session
<1>3. sig \in Signature /\ sig.msg = Sighash(old) /\ sig.nonces = old.nonces
  BY <1>2 DEF SignatureOver, Signature
<1>4. psbt \in Psbt /\ psbt.sigs = [old.sigs EXCEPT ![p] = sig]
  BY <1>1, <1>3 DEF Psbt
<1>5. /\ new \in [signer : Signers, msg : Tx, nonces : Session]
      /\ new.signer = p /\ new.msg = Sighash(old) /\ new.nonces = old.nonces
  BY <1>2 DEF Signing
<1>6. /\ files' = [files EXCEPT ![c] = psbt]
      /\ signatures' = signatures \cup {new}
      /\ UNCHANGED <<built, hex, builds, rounds, damage>>
  BY DEF PartialSign, bounds
<1>7. old.sigs \in [Signers -> Signature \cup {None}]
  BY <1>1 DEF Psbt
<1>8. \A q \in Signers : psbt.sigs[q] # None =>
        \E s \in signatures' : s.signer = q /\ Attests(s, psbt.sigs[q])
  BY <1>1, <1>3, <1>4, <1>5, <1>6, <1>7 DEF RoundsInv, SigsAreRecorded, Attests
<1> HIDE DEF psbt, new, sig
<1>9. SigsAreRecorded'
  <2>1. files \in [Copies -> Psbt \cup {None}]
    BY DEF RoundsInv, TypeOK
  <2>2. \A d \in Copies : files'[d] = IF d = c THEN psbt ELSE files[d]
    BY <1>6, <2>1
  <2>3. ASSUME NEW d \in Copies, files'[d] # None, NEW q \in Signers, files'[d].sigs[q] # None
        PROVE  \E s \in signatures' : s.signer = q /\ Attests(s, files'[d].sigs[q])
    <3>1. CASE d = c
      BY <1>8, <2>2, <2>3, <3>1
    <3>2. CASE d # c
      BY <1>6, <2>2, <2>3, <3>2 DEF RoundsInv, SigsAreRecorded
    <3> QED BY <3>1, <3>2
  <2>4. EverySignerSigned'
    BY <1>6 DEF RoundsInv, SigsAreRecorded, EverySignerSigned
  <2> QED BY <1>6, <2>3, <2>4 DEF RoundsInv, SigsAreRecorded
<1>10. TypeOK'
  <2>1. held' \in [Signers \X Seeds -> Nat]
    <3> DEFINE x == <<p, old.nonces[p]>>
    <3>1. x \in Signers \X Seeds /\ held \in [Signers \X Seeds -> Nat]
      BY <1>2 DEF Session, RoundsInv, TypeOK
    <3>2. held[x] > 0 /\ held' = [held EXCEPT ![x] = held[x] - 1]
      BY DEF PartialSign
    <3> HIDE DEF x
    <3>3. held[x] - 1 \in Nat
      BY <3>1, <3>2
    <3> QED BY <3>1, <3>2, <3>3
  <2> QED BY <1>4, <1>5, <1>6, <2>1 DEF RoundsInv, TypeOK
<1>11. FinalPaysBuilt'
  BY <1>6 DEF RoundsInv, FinalPaysBuilt
<1> QED BY <1>9, <1>10, <1>11 DEF RoundsInv

\* Signatures that verify were made over this message in one session: no mix of copies
\* passes.
LEMMA SignersAgree ==
  ASSUME RoundsInv, NEW c \in Copies, files[c] # None, CanFinalize(files[c])
  PROVE  \A p \in Signers : \E s \in signatures :
           /\ s.signer = p
           /\ s.msg = Sighash(Derived(files[c]))
           /\ s.nonces = files[c].nonces
<1> DEFINE psbt == files[c]
           tx == Sighash(Derived(psbt))
<1>1. psbt \in Psbt
  BY DEF RoundsInv, TypeOK
<1>2. tx \in Tx
  BY <1>1, DerivedType, SighashType
<1> TAKE p \in Signers
<1>3. psbt.sigs[p] = [msg |-> tx, nonces |-> psbt.nonces]
  BY DEF CanFinalize, SignaturesVerify
<1>4. psbt.sigs[p] # None
  <2>1. psbt.nonces \in Nonces
    BY <1>1 DEF Psbt
  <2> HIDE DEF tx
  <2> QED BY <1>2, <1>3, <2>1, RoundsAssumption
<1>5. PICK s \in signatures : s.signer = p /\ Attests(s, psbt.sigs[p])
  BY <1>4 DEF RoundsInv, SigsAreRecorded
<1> QED BY <1>3, <1>5 DEF Attests

\* The transaction of a PSBT that matches the built one and has all the shares.
LEMMA MatchingPays ==
  ASSUME NEW psbt \in Psbt, built \in Psbt, MatchesBuilt(psbt), CanDerive(psbt)
  PROVE  Pays(Sighash(Derived(psbt)), built)
<1> DEFINE derived == Derived(psbt)
           tx == Sighash(derived)
<1>1. /\ derived \in Psbt
      /\ DOMAIN psbt.outs = 1..Len(psbt.outs)
      /\ DOMAIN derived.outs = 1..Len(derived.outs)
      /\ DOMAIN built.outs = 1..Len(built.outs)
  <2>1. derived \in Psbt
    BY DerivedType
  <2>2. psbt.outs \in Seq(Output) /\ derived.outs \in Seq(Output) /\ built.outs \in Seq(Output)
    BY <2>1 DEF Psbt
  <2> HIDE DEF derived
  <2> QED BY <2>1, <2>2
<1>2. DOMAIN derived.outs = DOMAIN psbt.outs
  BY <1>1, DerivedType
<1>3. ASSUME NEW i \in DOMAIN psbt.outs
      PROVE  /\ tx.outs[i].amount = derived.outs[i].amount
             /\ tx.outs[i].script = derived.outs[i].script
  BY <1>1, <1>2, SighashType
<1>4. ASSUME NEW i \in DOMAIN psbt.outs, psbt.outs[i].to # None
      PROVE  \E k \in 0..Len(psbt.outs) :
               derived.outs[i].script = SpScript(psbt.outs[i].to, psbt.input, k, "shared")
  <2>1. psbt.outs[i].to \in ScanKeysOf(psbt)
    BY <1>4 DEF ScanKeysOf
  <2>2. \A p \in Signers : psbt.shares[p, psbt.outs[i].to] = "good"
    BY <2>1 DEF CanDerive
  <2>3. Secret(psbt, psbt.outs[i].to) = "shared"
    BY <2>2 DEF Secret
  <2>4. PICK k \in 0..Len(psbt.outs) :
          derived.outs[i].script =
            SpScript(psbt.outs[i].to, psbt.input, k, Secret(psbt, psbt.outs[i].to))
    BY <1>4, DerivedType
  <2> QED BY <2>3, <2>4
<1>5. \A i \in DOMAIN psbt.outs :
        /\ derived.outs[i].amount = psbt.outs[i].amount
        /\ psbt.outs[i].to = None => derived.outs[i].script = psbt.outs[i].script
  BY DerivedType
<1>6. tx.input = psbt.input /\ Len(tx.outs) = Len(psbt.outs)
  BY <1>1, DerivedType, SighashType
<1>7. /\ psbt.input = built.input /\ Len(psbt.outs) = Len(built.outs)
      /\ DOMAIN built.outs = DOMAIN psbt.outs
      /\ \A i \in DOMAIN built.outs :
           /\ psbt.outs[i].amount = built.outs[i].amount
           /\ psbt.outs[i].to = built.outs[i].to
           /\ psbt.outs[i].to = None => psbt.outs[i].script = built.outs[i].script
  BY <1>1 DEF MatchesBuilt
<1> HIDE DEF tx, derived
<1>8. Pays(tx, built)
  BY <1>3, <1>4, <1>5, <1>6, <1>7 DEF Pays
<1> QED BY <1>8 DEF tx, derived

\* Whatever Finalize writes, of whichever PSBT it was checked against.
LEMMA FinalizeStep ==
  ASSUME RoundsInv, NEW c \in Copies, NEW checked \in Psbt \cup {None}, files[c] # None,
         FinalizePayroll(c, checked), checked # None => checked = built /\ MatchesBuilt(files[c])
  PROVE  RoundsInv'
<1> DEFINE derived == Derived(files[c])
           tx == Sighash(derived)
<1>1. files[c] \in Psbt /\ CanFinalize(files[c])
  BY DEF RoundsInv, TypeOK, FinalizePayroll
<1>2. derived \in Psbt
  BY <1>1, DerivedType
<1>3. /\ Finalized(derived) \in Psbt
      /\ \A p \in Signers : Finalized(derived).sigs[p] = None
  BY <1>2, FinalizedType
<1>4. tx \in Tx
  BY <1>2, SighashType
<1>5. FinalName \in Copies
  BY RoundsAssumption
<1>6. /\ files' = [files EXCEPT ![FinalName] = Finalized(derived)]
      /\ hex' = [tx |-> tx, built |-> checked] \/ hex' = hex
      /\ UNCHANGED <<built, held, signatures, builds, rounds, damage>>
  BY DEF FinalizePayroll, bounds
<1>7. TypeOK'
  BY <1>3, <1>4, <1>5, <1>6 DEF RoundsInv, TypeOK
<1>8. \A p \in Signers : \E s \in signatures : s.signer = p /\ s.msg = tx
  BY <1>1, SignersAgree
<1>9. SigsAreRecorded'
  <2> HIDE DEF tx, derived
  <2>1. EverySignerSigned'
    BY <1>6, <1>8 DEF RoundsInv, SigsAreRecorded, EverySignerSigned
  <2> QED BY <1>3, <1>5, <1>6, <2>1 DEF RoundsInv, TypeOK, SigsAreRecorded
<1>10. FinalPaysBuilt'
  <2>1. CASE hex' = hex
    BY <2>1 DEF RoundsInv, FinalPaysBuilt
  <2>2. CASE hex' = [tx |-> tx, built |-> checked]
    <3>1. checked # None => Pays(tx, checked)
      BY <1>1, MatchingPays DEF CanFinalize
    <3> HIDE DEF tx
    <3> QED BY <2>2, <3>1 DEF FinalPaysBuilt
  <2> QED BY <1>6, <2>1, <2>2
<1> QED BY <1>7, <1>9, <1>10 DEF RoundsInv

LEMMA NextRounds == RoundsInv /\ [Next]_vars => RoundsInv'
<1> SUFFICES ASSUME RoundsInv, [Next]_vars PROVE RoundsInv'
  OBVIOUS
<1>1. ASSUME NEW c \in Copies, FinalizeChecked(c)
      PROVE  RoundsInv'
  <2>1. built \in Psbt \cup {None}
    BY DEF RoundsInv, TypeOK
  <2> QED BY <1>1, <2>1, FinalizeStep DEF FinalizeChecked
<1>2. ASSUME NEW c \in Copies, FinalizeUnchecked(c)
      PROVE  RoundsInv'
  BY <1>2, FinalizeStep DEF FinalizeUnchecked
<1>3. CASE UNCHANGED vars
  BY <1>3 DEF vars, RoundsInv, TypeOK, SigsAreRecorded, EverySignerSigned, FinalPaysBuilt
<1> QED BY <1>1, <1>2, <1>3, BuildStep, HandOutStep, ContributionStep, DeriveStep, PartialSignStep,
           DamageStep, MergeStep DEF Next

LEMMA RoundsInvariant == Spec => []RoundsInv
BY InitRounds, NextRounds, PTL DEF Spec

\* Every PSBT that goes around, and the final transaction, is well-formed.
THEOREM RoundsTypeCorrect == Spec => []TypeOK
BY RoundsInvariant, PTL DEF RoundsInv

\* finalize_payroll writes only transactions every signer signed as they are.
THEOREM FinalIsSignedByAll == Spec => []EverySignerSigned
<1>1. RoundsInv => EverySignerSigned
  BY DEF RoundsInv, SigsAreRecorded
<1> QED BY <1>1, RoundsInvariant, PTL

\* The screen's Finalize writes only the payroll Build saved.
THEOREM FinalIsThePayroll == Spec => []FinalPaysBuilt
BY RoundsInvariant, PTL DEF RoundsInv

-------------------------------------------------------------------------------
(* Detection.  A recipient's scan counts: it looks for its output 0, then  *)
(* 1, and stops at the first it does not find.                             *)

\* Change goes to treasury scripts.
ChangeKept(psbt) ==
  \A i \in DOMAIN psbt.outs : psbt.outs[i].to = None => psbt.outs[i].script \in ChangeScripts

\* Each output to a recipient has the script of the shared secret and of the number of
\* outputs to the recipient before it.
Settled(psbt) ==
  \A i \in DOMAIN psbt.outs : psbt.outs[i].to # None =>
    psbt.outs[i].script =
      SpScript(psbt.outs[i].to, psbt.input, Cardinality(EarlierOutputs(psbt, i)), "shared")

\* A copy becomes final by finalize_payroll alone; Build's PSBT is not.
ScriptsInv ==
  /\ built # None => ~built.final /\ ChangeKept(built)
  /\ \A c \in Copies : files[c] # None =>
       ChangeKept(files[c]) /\ (files[c].final => Settled(files[c]))

\* What the scan finds in a settled PSBT: at each k the output numbered k, and no
\* number is missing.
LEMMA DetectedIsPaid ==
  ASSUME NEW psbt \in Psbt, ChangeKept(psbt), Settled(psbt), NEW key \in ScanKeys
  PROVE  Detected(psbt, key) = {i \in DOMAIN psbt.outs : psbt.outs[i].to = key}
<1> DEFINE n == Len(psbt.outs)
           P == {i \in 1..n : psbt.outs[i].to = key}
           count(m) == Cardinality({j \in P : j <= m})
           at(k) == {i \in DOMAIN psbt.outs :
                       psbt.outs[i].script = SpScript(key, psbt.input, k, "shared")}
<1>1. /\ psbt.outs \in Seq(Output) /\ psbt.input \in Inputs
      /\ n \in Nat /\ DOMAIN psbt.outs = 1..n
  BY DEF Psbt
<1>2. \A i \in 1..n : psbt.outs[i].to \in ScanKeys \cup {None}
  <2>1. \A i \in 1..n : psbt.outs[i] \in Output
    BY <1>1
  <2> QED BY <2>1 DEF Output
<1>3. /\ \A m \in 0..n : count(m) \in 0..m
      /\ \A m \in 0..n : \A k \in 0..(count(m) - 1) : \E j \in P : j <= m /\ count(j - 1) = k
      /\ \A i, j \in P : count(i - 1) = count(j - 1) => i = j
  <2>1. P \in SUBSET (1..n)
    OBVIOUS
  <2> HIDE DEF P, n
  <2> QED BY <1>1, <2>1, PositionsCounted
<1>4. ASSUME NEW i \in P
      PROVE  /\ psbt.outs[i].script = SpScript(key, psbt.input, count(i - 1), "shared")
             /\ i - 1 \in 0..n /\ count(i - 1) \in 0..n
  <2>1. EarlierOutputs(psbt, i) = {j \in P : j <= i - 1}
    BY <1>1 DEF EarlierOutputs
  <2>2. psbt.outs[i].to = key /\ key # None /\ i \in DOMAIN psbt.outs
    BY <1>1, RoundsAssumption
  <2>3. psbt.outs[i].script =
          SpScript(key, psbt.input, Cardinality(EarlierOutputs(psbt, i)), "shared")
    BY <2>2 DEF Settled
  <2>4. i - 1 \in 0..n
    BY <1>1
  <2>5. count(i - 1) \in 0..(i - 1)
    BY <1>3, <2>4
  <2> HIDE DEF count
  <2>6. count(i - 1) \in 0..n
    BY <1>1, <2>4, <2>5
  <2> QED BY <2>1, <2>3, <2>4, <2>6 DEF count
<1> HIDE DEF count
<1>5. ASSUME NEW k \in Nat
      PROVE  at(k) = {i \in P : count(i - 1) = k}
  <2>1. ASSUME NEW i \in 1..n, psbt.outs[i].script = SpScript(key, psbt.input, k, "shared")
        PROVE  i \in P /\ count(i - 1) = k
    <3>1. SpScript(key, psbt.input, k, "shared") \in SilentScripts
      BY <1>1 DEF SilentScripts, SpScript
    <3>2. psbt.outs[i].to # None
      BY <1>1, <2>1, <3>1, RoundsAssumption DEF ChangeKept
    <3>3. psbt.outs[i].script =
            SpScript(psbt.outs[i].to, psbt.input, Cardinality(EarlierOutputs(psbt, i)), "shared")
      BY <1>1, <3>2 DEF Settled
    <3>4. psbt.outs[i].to = key
      BY <2>1, <3>3 DEF SpScript
    <3>5. i \in P
      BY <3>4
    <3>6. SpScript(key, psbt.input, count(i - 1), "shared")
            = SpScript(key, psbt.input, k, "shared")
      BY <1>4, <2>1, <3>5
    <3>7. count(i - 1) = k
      BY <3>6 DEF SpScript
    <3> QED BY <3>5, <3>7
  <2>2. \A i \in P : count(i - 1) = k => i \in at(k)
    BY <1>1, <1>4
  <2> HIDE DEF P
  <2> QED BY <1>1, <2>1, <2>2
<1>6. Detected(psbt, key) =
        {i \in DOMAIN psbt.outs : \E k \in 0..n :
           /\ i \in at(k)
           /\ \A j \in at(k) : i <= j
           /\ \A earlier \in 0..(k - 1) : at(earlier) # {}}
  BY DEF Detected
<1> HIDE DEF at
<1>7. ASSUME NEW i \in Detected(psbt, key) PROVE i \in P
  <2>1. PICK k \in 0..n : i \in at(k)
    BY <1>6
  <2>2. k \in Nat
    BY <1>1
  <2> QED BY <1>5, <2>1, <2>2
<1>8. ASSUME NEW i \in P PROVE i \in Detected(psbt, key)
  <2> DEFINE k == count(i - 1)
  <2>1. k \in 0..n /\ k \in Nat /\ i - 1 \in 0..n /\ i \in Nat
    BY <1>1, <1>4
  <2> HIDE DEF k
  <2>2. i \in at(k)
    BY <1>5, <2>1 DEF k
  <2>3. \A j \in at(k) : i <= j
    <3>1. \A j \in at(k) : j = i
      BY <1>3, <1>5, <2>1 DEF k
    <3> QED BY <2>1, <3>1
  <2>4. ASSUME NEW earlier \in 0..(k - 1) PROVE at(earlier) # {}
    <3>1. \E j \in P : j <= i - 1 /\ count(j - 1) = earlier
      BY <1>3, <2>1 DEF k
    <3>2. earlier \in Nat
      BY <2>1
    <3> QED BY <1>5, <3>1, <3>2
  <2>5. i \in DOMAIN psbt.outs
    BY <1>1
  <2> QED BY <1>6, <2>1, <2>2, <2>3, <2>4, <2>5
<1>9. P = {i \in DOMAIN psbt.outs : psbt.outs[i].to = key}
  BY <1>1
<1> QED BY <1>7, <1>8, <1>9

\* The two facts are about the outputs and the input.
LEMMA SameOuts ==
  ASSUME NEW psbt, NEW other, psbt.outs = other.outs, psbt.input = other.input
  PROVE  /\ ChangeKept(psbt) => ChangeKept(other)
         /\ Settled(psbt) => Settled(other)
BY DEF ChangeKept, Settled, EarlierOutputs

\* What the operations that write outputs make of the scripts.
LEMMA DerivedScripts ==
  ASSUME NEW psbt \in Psbt, ChangeKept(psbt)
  PROVE  /\ ChangeKept(Derived(psbt)) /\ Derived(psbt).final = psbt.final
         /\ CanDerive(psbt) => Settled(Derived(psbt))
<1> DEFINE derived == Derived(psbt)
           script(i) == SpScript(psbt.outs[i].to, psbt.input,
                                 Cardinality(EarlierOutputs(psbt, i)),
                                 Secret(psbt, psbt.outs[i].to))
<1>1. /\ psbt.outs \in Seq(Output)
      /\ DOMAIN psbt.outs = 1..Len(psbt.outs) /\ Len(psbt.outs) \in Nat
  BY DEF Psbt
<1>2. \A i \in DOMAIN psbt.outs : psbt.outs[i] \in Output
  BY <1>1
<1>3. /\ derived.input = psbt.input /\ derived.final = psbt.final
      /\ DOMAIN derived.outs = DOMAIN psbt.outs
      /\ \A i \in DOMAIN psbt.outs :
           derived.outs[i] = IF psbt.outs[i].to = None THEN psbt.outs[i]
                             ELSE [psbt.outs[i] EXCEPT !.script = script(i)]
  BY DEF Derived, Psbt
<1> HIDE DEF derived, script
<1>4. \A i \in DOMAIN psbt.outs :
        /\ derived.outs[i].to = psbt.outs[i].to
        /\ psbt.outs[i].to = None => derived.outs[i].script = psbt.outs[i].script
        /\ psbt.outs[i].to # None => derived.outs[i].script = script(i)
  BY <1>2, <1>3 DEF Output
<1>5. ChangeKept(derived)
  BY <1>3, <1>4 DEF ChangeKept
<1>6. ASSUME CanDerive(psbt), NEW i \in DOMAIN psbt.outs, psbt.outs[i].to # None
      PROVE  /\ EarlierOutputs(derived, i) = EarlierOutputs(psbt, i)
             /\ Secret(psbt, psbt.outs[i].to) = "shared"
  <2>1. \A j \in 1..(i - 1) : j \in DOMAIN psbt.outs
    BY <1>1
  <2>2. EarlierOutputs(derived, i) = EarlierOutputs(psbt, i)
    BY <1>4, <2>1 DEF EarlierOutputs
  <2>3. psbt.outs[i].to \in ScanKeysOf(psbt)
    BY <1>6 DEF ScanKeysOf
  <2>4. \A p \in Signers : psbt.shares[p, psbt.outs[i].to] = "good"
    BY <1>6, <2>3 DEF CanDerive
  <2>5. Secret(psbt, psbt.outs[i].to) = "shared"
    BY <2>4 DEF Secret
  <2> QED BY <2>2, <2>5
<1>7. CanDerive(psbt) => Settled(derived)
  BY <1>3, <1>4, <1>6 DEF Settled, script
<1> QED BY <1>3, <1>5, <1>7 DEF derived

LEMMA MergedScripts ==
  ASSUME NEW psbt \in Psbt, NEW other \in Psbt, Body(psbt) = Body(other), ChangeKept(psbt)
  PROVE  ChangeKept(Merged(psbt, other)) /\ Merged(psbt, other).final = psbt.final
<1> DEFINE outs == [i \in DOMAIN psbt.outs |->
                      IF psbt.outs[i].script = None THEN other.outs[i] ELSE psbt.outs[i]]
<1>1. Merged(psbt, other).outs = outs /\ Merged(psbt, other).final = psbt.final
  BY DEF Merged, Psbt
<1>2. DOMAIN other.outs = DOMAIN psbt.outs
      /\ \A i \in DOMAIN psbt.outs : other.outs[i].to = psbt.outs[i].to
  <2> DEFINE shape(q) == [i \in DOMAIN q.outs |-> [amount |-> q.outs[i].amount,
                                                   to |-> q.outs[i].to]]
  <2>1. shape(psbt) = shape(other)
    BY DEF Body
  <2>2. DOMAIN shape(psbt) = DOMAIN psbt.outs /\ DOMAIN shape(other) = DOMAIN other.outs
    OBVIOUS
  <2>3. /\ \A i \in DOMAIN psbt.outs : shape(psbt)[i].to = psbt.outs[i].to
        /\ \A i \in DOMAIN other.outs : shape(other)[i].to = other.outs[i].to
    OBVIOUS
  <2> HIDE DEF shape
  <2> QED BY <2>1, <2>2, <2>3
<1>3. ASSUME NEW i \in DOMAIN psbt.outs, outs[i].to = None
      PROVE  outs[i].script \in ChangeScripts
  <2>1. psbt.outs[i].to = None
    BY <1>2, <1>3
  <2>2. psbt.outs[i].script \in ChangeScripts
    BY <2>1 DEF ChangeKept
  <2>3. psbt.outs[i].script # None
    BY <2>2, RoundsAssumption DEF Scripts
  <2> QED BY <2>2, <2>3
<1> QED BY <1>1, <1>3 DEF ChangeKept

\* A copy that is replaced.
LEMMA CopyScripts ==
  ASSUME RoundsInv, ScriptsInv, NEW c \in Copies, NEW psbt,
         files' = [files EXCEPT ![c] = psbt], built' = built,
         ChangeKept(psbt), psbt.final => Settled(psbt)
  PROVE  ScriptsInv'
<1>1. \A d \in Copies : files'[d] = IF d = c THEN psbt ELSE files[d]
  BY DEF RoundsInv, TypeOK
<1> QED BY <1>1 DEF ScriptsInv

LEMMA ScriptsStep ==
  ASSUME RoundsInv, ScriptsInv, [Next]_vars
  PROVE  ScriptsInv'
<1>a. ASSUME NEW c \in Copies, InRounds(c)
      PROVE  files[c] \in Psbt /\ ChangeKept(files[c]) /\ ~files[c].final
  BY <1>a DEF InRounds, RoundsInv, TypeOK, ScriptsInv
<1>b. ASSUME NEW c \in Copies, InRounds(c), NEW psbt, psbt.outs = files[c].outs,
             psbt.input = files[c].input, psbt.final = files[c].final,
             files' = [files EXCEPT ![c] = psbt], built' = built
      PROVE  ScriptsInv'
  BY <1>a, <1>b, CopyScripts, SameOuts
<1>1. ASSUME NEW payroll \in Payrolls, Build(payroll)
      PROVE  ScriptsInv'
  <2>1. built' = Unsigned(payroll.input, payroll.outs) /\ files' = files
    BY <1>1 DEF Build
  <2>2. ~built'.final /\ built'.outs = payroll.outs
    BY <2>1 DEF Unsigned
  <2>3. ChangeKept(built')
    BY <2>2, RoundsAssumption DEF ChangeKept
  <2> QED BY <2>1, <2>2, <2>3 DEF ScriptsInv
<1>2. ASSUME NEW c \in Copies, HandOut(c)
      PROVE  ScriptsInv'
  BY <1>2, CopyScripts DEF HandOut, ScriptsInv
<1>3. ASSUME NEW p \in Signers, NEW c \in Copies, NEW seed \in Seeds, Contribute(p, c, seed)
      PROVE  ScriptsInv'
  <2> DEFINE psbt == Contributed(files[c], p, seed)
  <2>1. InRounds(c) /\ files' = [files EXCEPT ![c] = psbt] /\ built' = built
    BY <1>3 DEF Contribute
  <2>2. /\ psbt.outs = files[c].outs /\ psbt.input = files[c].input
        /\ psbt.final = files[c].final
    BY <1>a, <2>1 DEF Contributed, Psbt
  <2> HIDE DEF psbt
  <2> QED BY <1>b, <2>1, <2>2
<1>4. ASSUME NEW c \in Copies, DeriveOutputs(c)
      PROVE  ScriptsInv'
  <2>1. InRounds(c) /\ files' = [files EXCEPT ![c] = Derived(files[c])] /\ built' = built
    BY <1>4 DEF DeriveOutputs
  <2>2. ChangeKept(Derived(files[c])) /\ ~Derived(files[c]).final
    BY <1>a, <2>1, DerivedScripts
  <2> QED BY <2>1, <2>2, CopyScripts
<1>5. ASSUME NEW p \in Signers, NEW c \in Copies, PartialSign(p, c)
      PROVE  ScriptsInv'
  <2> DEFINE psbt == [files[c] EXCEPT !.sigs[p] = SignatureOver(files[c])]
  <2>1. InRounds(c) /\ files' = [files EXCEPT ![c] = psbt] /\ built' = built
    BY <1>5 DEF PartialSign
  <2>2. /\ psbt.outs = files[c].outs /\ psbt.input = files[c].input
        /\ psbt.final = files[c].final
    BY <1>a, <2>1 DEF Psbt
  <2> HIDE DEF psbt
  <2> QED BY <1>b, <2>1, <2>2
<1>6. ASSUME NEW p \in Signers, NEW key \in ScanKeys, NEW c \in Copies, DamageShare(p, key, c)
      PROVE  ScriptsInv'
  <2> DEFINE psbt == [files[c] EXCEPT !.shares[<<p, key>>] = "bad"]
  <2>1. InRounds(c) /\ files' = [files EXCEPT ![c] = psbt] /\ built' = built
    BY <1>6 DEF DamageShare
  <2>2. /\ psbt.outs = files[c].outs /\ psbt.input = files[c].input
        /\ psbt.final = files[c].final
    BY <1>a, <2>1 DEF Psbt
  <2> HIDE DEF psbt
  <2> QED BY <1>b, <2>1, <2>2
<1>7. ASSUME NEW c \in Copies, NEW d \in Copies, Merge(c, d)
      PROVE  ScriptsInv'
  <2>1. /\ InRounds(c) /\ InRounds(d) /\ Body(files[c]) = Body(files[d])
        /\ files' = [files EXCEPT ![c] = Merged(files[c], files[d])] /\ built' = built
    BY <1>7 DEF Merge
  <2>2. ChangeKept(Merged(files[c], files[d])) /\ ~Merged(files[c], files[d]).final
    BY <1>a, <2>1, MergedScripts
  <2> QED BY <2>1, <2>2, CopyScripts
<1>8. ASSUME NEW c \in Copies, NEW checked, files[c] # None, FinalizePayroll(c, checked)
      PROVE  ScriptsInv'
  <2> DEFINE psbt == Finalized(Derived(files[c]))
  <2>1. /\ CanDerive(files[c]) /\ FinalName \in Copies
        /\ files' = [files EXCEPT ![FinalName] = psbt] /\ built' = built
    BY <1>8, RoundsAssumption DEF FinalizePayroll, CanFinalize
  <2>2. files[c] \in Psbt /\ ChangeKept(files[c])
    BY <1>8 DEF RoundsInv, TypeOK, ScriptsInv
  <2>3. ChangeKept(Derived(files[c])) /\ Settled(Derived(files[c]))
    BY <2>1, <2>2, DerivedScripts
  <2>4. psbt.outs = Derived(files[c]).outs /\ psbt.input = Derived(files[c]).input
    BY DEF Finalized, Unsigned
  <2> HIDE DEF psbt
  <2>5. ChangeKept(psbt) /\ Settled(psbt)
    BY <2>3, <2>4, SameOuts
  <2> QED BY <2>1, <2>5, CopyScripts
<1>9. CASE UNCHANGED vars
  BY <1>9 DEF vars, ScriptsInv
<1>10. ASSUME NEW c \in Copies, FinalizeChecked(c) \/ FinalizeUnchecked(c)
       PROVE  ScriptsInv'
  BY <1>8, <1>10 DEF FinalizeChecked, FinalizeUnchecked
<1>11. ASSUME NEW p \in Signers, NEW c \in Copies,
              (\E seed \in Seeds : SignerContributes(p, c, seed)) \/ AddPartyContribution(p, c)
       PROVE  ScriptsInv'
  <2>1. TestSeed \in Seeds
    BY RoundsAssumption
  <2> QED BY <1>3, <1>11, <2>1 DEF SignerContributes, AddPartyContribution
<1> QED BY <1>1, <1>2, <1>4, <1>5, <1>6, <1>7, <1>9, <1>10, <1>11 DEF Next

\* The scan of a final PSBT finds what pays the recipient and nothing else: no merge, late
\* share or second derivation leaves a gap in its outputs or numbers two alike.
THEOREM RecipientsFindAll == Spec => []RecipientsDetect
<1>1. Init => ScriptsInv
  BY DEF Init, ScriptsInv
<1>2. RoundsInv /\ ScriptsInv /\ [Next]_vars => ScriptsInv'
  BY ScriptsStep
<1>3. RoundsInv /\ ScriptsInv => RecipientsDetect
  <2> SUFFICES ASSUME RoundsInv, ScriptsInv, NEW c \in Copies, files[c] # None,
                      files[c].final, NEW key \in ScanKeys
               PROVE  Detected(files[c], key)
                        = {i \in DOMAIN files[c].outs : files[c].outs[i].to = key}
    BY DEF RecipientsDetect
  <2>1. files[c] \in Psbt /\ ChangeKept(files[c]) /\ Settled(files[c])
    BY DEF RoundsInv, TypeOK, ScriptsInv
  <2> QED BY <2>1, DetectedIsPaid
<1> QED BY <1>1, <1>2, <1>3, RoundsInvariant, PTL DEF Spec

-------------------------------------------------------------------------------
(* The refinement of PayrollSigning.                                       *)

\* What Finalize writes is a transaction agreed on, or was there.
LEMMA FinalizingPublishes ==
  ASSUME RoundsInv, NEW c \in Copies, FinalizeChecked(c) \/ FinalizeUnchecked(c)
  PROVE  Protocol!Publish \/ UNCHANGED <<built, signatures, hex>>
<1> DEFINE tx == Sighash(Derived(files[c]))
           nonces == files[c].nonces
<1>1. PICK checked \in {built, None} :
        /\ FinalizePayroll(c, checked) /\ files[c] # None
        /\ checked # None => checked = built /\ MatchesBuilt(files[c])
  BY DEF FinalizeChecked, FinalizeUnchecked
<1>2. /\ CanFinalize(files[c]) /\ CanDerive(files[c]) /\ files[c] \in Psbt
      /\ UNCHANGED <<built, signatures>>
      /\ hex' = [tx |-> tx, built |-> checked] \/ hex' = hex
  BY <1>1 DEF FinalizePayroll, CanFinalize, RoundsInv, TypeOK
<1>3. \A p \in Signers : \E s \in signatures : s.signer = p /\ s.msg = tx /\ s.nonces = nonces
  BY <1>1, <1>2, SignersAgree
<1>4. checked # None => checked = built /\ Pays(tx, built)
  BY <1>1, <1>2, MatchingPays DEF RoundsInv, TypeOK
<1> HIDE DEF tx, nonces
<1>5. CASE hex' = [tx |-> tx, built |-> checked]
  <2>1. PICK s \in signatures : s.msg = tx /\ s.nonces = nonces
    BY <1>3, RoundsAssumption
  <2>2. hex'.tx = s.msg /\ Protocol!Agreed(s.msg, s.nonces)
    BY <1>3, <1>5, <2>1 DEF Protocol!Agreed
  <2>3. hex'.built # None => hex'.built = built /\ Pays(hex'.tx, built)
    BY <1>4, <1>5
  <2> QED BY <1>2, <2>2, <2>3 DEF Protocol!Publish
<1> QED BY <1>2, <1>5

\* The rounds implement the promise: every step orders a payroll, is one signer's consent,
\* publishes what all consented to, or is hidden.
THEOREM ImplementsSigning == Spec => KeepsSigning
<1>1. Init => Protocol!SigningInit
  BY DEF Init, Protocol!SigningInit
<1>2. RoundsInv /\ [Next]_vars => [Protocol!SigningNext]_<<built, signatures, hex>>
  <2> SUFFICES ASSUME RoundsInv, [Next]_vars
               PROVE  Protocol!SigningNext \/ UNCHANGED <<built, signatures, hex>>
    OBVIOUS
  <2>1. ASSUME NEW payroll \in Payrolls, Build(payroll) PROVE Protocol!SigningNext
    BY <2>1 DEF Build, Protocol!Order, Protocol!SigningNext
  <2>2. ASSUME NEW p \in Signers, NEW c \in Copies, PartialSign(p, c) PROVE Protocol!SigningNext
    <3>1. signatures' = signatures \cup {Signing(p, files[c])} /\ UNCHANGED <<built, hex>>
      BY <2>2 DEF PartialSign
    <3> QED BY <3>1 DEF Protocol!Consent, Protocol!SigningNext
  <2>3. ASSUME NEW c \in Copies, FinalizeChecked(c) \/ FinalizeUnchecked(c)
        PROVE  Protocol!SigningNext \/ UNCHANGED <<built, signatures, hex>>
    BY <2>3, FinalizingPublishes DEF Protocol!SigningNext
  <2>4. ASSUME NEW c \in Copies,
               \/ HandOut(c) \/ DeriveOutputs(c)
               \/ \E p \in Signers, seed \in Seeds : SignerContributes(p, c, seed)
               \/ \E p \in Signers : AddPartyContribution(p, c)
               \/ \E p \in Signers, key \in ScanKeys : DamageShare(p, key, c)
               \/ \E d \in Copies : Merge(c, d)
        PROVE  UNCHANGED <<built, signatures, hex>>
    BY <2>4 DEF HandOut, DeriveOutputs, SignerContributes, AddPartyContribution, Contribute,
           DamageShare, Merge
  <2>5. CASE UNCHANGED vars
    BY <2>5 DEF vars
  <2> QED BY <2>1, <2>2, <2>3, <2>4, <2>5 DEF Next
<1> QED BY RoundsInvariant, <1>1, <1>2, PTL DEF Spec, KeepsSigning, Protocol!SigningSpec
===============================================================================
