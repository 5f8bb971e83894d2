------------------------------ MODULE Attestation ------------------------------
(***************************************************************************)
(* What the credential and reserve contracts share: envelopes that issuers *)
(* signed off chain, the guests that prove a statement about one without   *)
(* showing it, and the allow-list of issuers each contract keeps.          *)
(*                                                                         *)
(* A contract verifies that a journal was committed by the guest image it  *)
(* has pinned; the image and the verifier stay as initialize set them.     *)
(***************************************************************************)
EXTENDS Ledger, Sequences, FiniteSetsExt

CONSTANTS
    Issuers,        \* ed25519 keys of issuers, allow-listed or not
    FirstIssuers,   \* the list initialize is given
    Envelopes       \* every envelope any issuer has signed

\* An envelope of a claim: value is a status (1 = passed), a salary, a revenue
\* or reserves; subject is the hidden identity of a credential, a uint256.
Envelope == [claim: STRING, issuer: Issuers, subject: Nat, value: Nat,
             nonce: Nat, expiry: Nat]

ASSUME AttestationAssumption ==
    /\ FirstIssuers \subseteq Issuers
    /\ \A e \in Envelopes : e \in Envelope

\* The contracts that keep such a list.
Listing == {"gate", "accredited", "compliance", "payroll", "fundraise",
            "policy", "solvency-gate"}

VARIABLES
    deployed,       \* the contracts that are initialised; fixed
    issuers         \* DataKey::Issuers of each contract

attestationVars == <<deployed, issuers>>

AttestationInit == issuers = [c \in Listing |-> FirstIssuers]

\* What has been signed about a claim and has not expired.
Signed(claim) == {e \in Envelopes : e.claim = claim /\ e.expiry > now}

\* The claims whose envelope has the 60 bytes the generic guest reads.
GenericClaims == {"payroll", "reserves", "revenue", "teaser"}

\* The generic guest: some signed value, which stays private, is at least
\* threshold.
GenericJournals(thresholds) ==
    LET reaching(t) == {e \in Envelopes : e.claim \in GenericClaims /\ e.value >= t}
    IN UNION {{[claim_type |-> e.claim, issuer_id |-> e.issuer, threshold |-> t,
                nonce |-> e.nonce, expiry |-> e.expiry] :
                  e \in reaching(t)} : t \in thresholds}

\* The checks every contract makes on a journal: its issuer is listed and the
\* attestation has not expired.
Accepted(c, p) ==
    /\ c \in deployed
    /\ p.issuer_id \in issuers[c]
    /\ p.expiry > now

add_issuer(c, k) ==
    /\ c \in deployed
    /\ issuers' = [issuers EXCEPT ![c] = issuers[c] \cup {k}]

remove_issuer(c, k) ==
    /\ c \in deployed
    /\ issuers' = [issuers EXCEPT ![c] = issuers[c] \ {k}]

===============================================================================
