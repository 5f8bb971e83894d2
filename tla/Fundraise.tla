------------------------------- MODULE Fundraise -------------------------------
(***************************************************************************)
(* The fundraise, contracts/fundraise: an investor is admitted while the   *)
(* issuer's revenue is proven to reach the bar configured now, and while   *)
(* the credential gate configured now grants the investor.  The second     *)
(* answer is read from another contract on every call.                     *)
(***************************************************************************)
EXTENDS CredentialGates

CONSTANTS
    Bars,           \* revenue thresholds the admin configures
    FirstBar,       \* the one initialize is given
    MaxAdmissions   \* bound: admissions in a behaviour

ASSUME FundraiseAssumption == FirstBar \in Bars

VARIABLES
    revenue,            \* DataKey::Revenue, or None
    revenue_threshold,  \* Config.revenue_threshold
    accredited_gate,    \* Config.accredited_gate
    admissions          \* DataKey::Log

fundraiseVars == <<revenue, revenue_threshold, accredited_gate, admissions>>

\* The contracts that answer is_granted(accessor), with the claim they check.
GateClaim == [gate |-> "identity", accredited |-> "accredited"]

FundraiseInit ==
    /\ revenue = None
    /\ revenue_threshold = FirstBar
    /\ accredited_gate = "accredited"
    /\ admissions = << >>

-------------------------------------------------------------------------------
submit_revenue_proof ==
    \E p \in GenericJournals(Bars) :
        /\ p.claim_type = "revenue"
        /\ p.threshold = revenue_threshold
        /\ Accepted("fundraise", p)
        /\ revenue' = p
        /\ UNCHANGED <<attestationVars, credentialVars, revenue_threshold,
                       accredited_gate, admissions>>

\* Wrong: a proof made for an earlier bar still counts.
is_revenue_verified_wrong ==
    /\ revenue # None
    /\ revenue.expiry > now

is_revenue_verified ==
    /\ revenue # None
    /\ revenue.expiry > now
    /\ revenue.threshold = revenue_threshold

can_access(a) ==
    /\ is_revenue_verified
    /\ is_granted(accredited_gate, a)

\* request_investor_access.  gate is the gate that was asked, which the
\* contract does not record.
request_investor_access(a) ==
    /\ "fundraise" \in deployed
    /\ Len(admissions) < MaxAdmissions
    /\ can_access(a)
    /\ admissions' = Append(admissions,
                        [accessor |-> a, revenue_threshold |-> revenue_threshold,
                         gate |-> accredited_gate, timestamp |-> now])
    /\ UNCHANGED <<attestationVars, credentialVars, revenue, revenue_threshold,
                   accredited_gate>>

set_threshold(bar) ==
    /\ "fundraise" \in deployed
    /\ revenue_threshold' = bar
    /\ UNCHANGED <<attestationVars, credentialVars, revenue, accredited_gate,
                   admissions>>

set_accredited_gate(g) ==
    /\ "fundraise" \in deployed
    /\ accredited_gate' = g
    /\ UNCHANGED <<attestationVars, credentialVars, revenue, revenue_threshold,
                   admissions>>

FundraiseCall ==
    \/ submit_revenue_proof
    \/ \E a \in Accessors : request_investor_access(a)
    \/ \E bar \in Bars : set_threshold(bar)
    \/ \E g \in DOMAIN GateClaim : set_accredited_gate(g)

-------------------------------------------------------------------------------
(* Properties. *)

\* At time t some issuer's word stood for a revenue of at least bar, and for
\* a credential that gate g took for accessor a.
Earned(a, bar, g, t) ==
    /\ \E e \in Envelopes :
          e.claim = "revenue" /\ e.value >= bar /\ e.expiry > t
    /\ \E j \in DOMAIN grant_log[g] :
          LET p == grant_log[g][j].journal IN
          /\ p.accessor = a
          /\ \E e \in Envelopes :
                /\ e.claim = GateClaim[g] /\ e.value = 1 /\ e.expiry > t
                /\ e.issuer = p.issuer_id /\ e.nonce = p.nonce

(***************************************************************************)
(* Access is earned in both legs at the moment of the question: someone    *)
(* attested a revenue that reaches the bar configured now and has not      *)
(* expired, and an unexpired credential of the kind the gate configured    *)
(* now asks for, whatever was proven for earlier bars and gates.  Likewise *)
(* every admission in the append-only log, when it was made.               *)
(***************************************************************************)
AccessIsEarned ==
    /\ \A a \in Accessors :
          can_access(a) => Earned(a, revenue_threshold, accredited_gate, now)
    /\ \A j \in DOMAIN admissions :
          LET r == admissions[j]
          IN Earned(r.accessor, r.revenue_threshold, r.gate, r.timestamp)

===============================================================================
