------------------------------ MODULE PayrollSigning ------------------------------
(***************************************************************************)
(* What the signers promise the coordinator, whatever copies of a PSBT go  *)
(* around and in whichever order they are contributed to, merged and       *)
(* signed: a transaction comes out only when every signer consented to     *)
(* that transaction in one session, with the same nonces of all; and the   *)
(* screen takes only one that pays the payroll it has.  That a signer      *)
(* makes a new nonce for each session it does not promise.                 *)
(***************************************************************************)
CONSTANTS
  Signers,    \* all of them have to consent
  Pays(_, _), \* a transaction pays a payroll
  None

VARIABLES
  payroll,  \* what the coordinator had built last, or None
  consents, \* [signer, msg, nonces]: msg signed in the session of these nonces
  published \* the transaction that came out last, and the payroll it was taken for

SigningInit ==
  /\ payroll = None
  /\ consents = {}
  /\ published = None

\* The coordinator has another payroll.
Order == UNCHANGED <<consents, published>>

\* A signer signs.
Consent ==
  \E c \in consents' :
    /\ consents' = consents \cup {c}
    /\ UNCHANGED <<payroll, published>>

Agreed(tx, nonces) ==
  \A p \in Signers : \E c \in consents :
    c.signer = p /\ c.msg = tx /\ c.nonces = nonces

\* A transaction all agreed on comes out, and on the screen for the payroll it pays.
Publish ==
  /\ \E c \in consents : published'.tx = c.msg /\ Agreed(c.msg, c.nonces)
  /\ \/ published'.built = None
     \/ published'.built = payroll /\ Pays(published'.tx, payroll)
  /\ UNCHANGED <<payroll, consents>>

SigningNext == Order \/ Consent \/ Publish

SigningSpec == SigningInit /\ [][SigningNext]_<<payroll, consents, published>>
===============================================================================
