---------------------------- MODULE CredentialGates ----------------------------
(***************************************************************************)
(* The gates that grant an accessor access for a credential its holder     *)
(* does not show: identity (contracts/gate), accredited, compliance (the   *)
(* subject is also outside a sanctions list, backend/src/denylist.ts) and  *)
(* payroll (the salary is disclosed to an auditor alone, who sums it up by *)
(* paging through the log, server.ts POST /payroll/audit).                 *)
(*                                                                         *)
(* Anyone may submit any journal a guest can commit, as often as they      *)
(* like.  A submission replaces the accessor's record and adds a log entry.*)
(***************************************************************************)
EXTENDS Attestation

CONSTANTS
    Accessors,      \* raw keys that access is granted to
    DenyLists,      \* the sanctions lists that have been built, sets of subjects
    Auditors,       \* x25519 keys salaries may be disclosed to
    Thresholds,     \* the income bars employees prove
    MaxGrants,      \* bound: MaxGrants[g] grants of gate g in a behaviour
    MaxPage,        \* MAX_PAGE
    None            \* no audit is running

ASSUME CredentialAssumption ==
    /\ MaxPage \in Nat \ {0}
    /\ {} \in DenyLists
    /\ \A list \in DenyLists : list \subseteq Nat

Gates == {"gate", "accredited", "compliance", "payroll"}

VARIABLES
    access,         \* access[g]: DataKey::Access of gate g
    grant_log,      \* grant_log[g]: DataKey::Log of gate g
    deny_root,      \* compliance Config.deny_root; a root names its list
    auditors,       \* payroll DataKey::Auditors
    audit           \* the auditor request that is paging, or None

credentialVars == <<access, grant_log, deny_root, auditors, audit>>

CredentialInit ==
    /\ access = [g \in Gates |-> Empty]
    /\ grant_log = [g \in Gates |-> << >>]
    /\ deny_root = {}
    /\ auditors = Auditors
    /\ audit = None

-------------------------------------------------------------------------------
(* What the guests can commit. *)

\* guest-identity and guest-accredited: the status signed is "passed".
CredentialJournals(claim) ==
    {[issuer_id |-> e.issuer, accessor |-> a, nonce |-> e.nonce,
      expiry |-> e.expiry] :
        e \in {x \in Envelopes : x.claim = claim /\ x.value = 1}, a \in Accessors}

\* The deny-list tree: a head sentinel 0 and the sanctioned values, each
\* linked to the next greater one, the greatest to 0.
Leaves(list) ==
    {[value |-> v,
      next_value |-> LET above == {w \in list : w > v}
                     IN IF above = {} THEN 0 ELSE Min(above)] :
        v \in list \cup {0}}

\* The low leaf that shows x is not in the list.
Brackets(leaf, x) ==
    /\ leaf.value < x
    /\ leaf.next_value # 0 => x < leaf.next_value

\* guest-compliance: a passed identity check of a subject that a leaf of the
\* tree brackets.
ComplianceJournals ==
    LET clean(list) == {e \in Envelopes :
            /\ e.claim = "identity" /\ e.value = 1
            /\ \E leaf \in Leaves(list) : Brackets(leaf, e.subject)}
    IN UNION {{[issuer_id |-> e.issuer, accessor |-> a, nonce |-> e.nonce,
                expiry |-> e.expiry, deny_root |-> list] :
                  e \in clean(list), a \in Accessors} : list \in DenyLists}

\* guest-payroll: a salary of at least threshold, encrypted to auditor_pub.
PayrollJournals ==
    LET earning(t) == {e \in Envelopes : e.claim = "payroll" /\ e.value >= t}
    IN UNION {{[issuer_id |-> e.issuer, accessor |-> a, nonce |-> e.nonce,
                expiry |-> e.expiry, threshold |-> t, auditor_pub |-> k,
                ct |-> e.value] :
                  e \in earning(t), a \in Accessors, k \in Auditors} :
              t \in Thresholds}

-------------------------------------------------------------------------------
(* The entry points. *)

\* What follows the checks: the log entry and the accessor's record.
Grant(g, p) ==
    LET rec == [index |-> Len(grant_log[g]), journal |-> p] IN
    /\ Accepted(g, p)
    /\ Len(grant_log[g]) < MaxGrants[g]
    /\ grant_log' = [grant_log EXCEPT ![g] = Append(grant_log[g], rec)]
    /\ access' = [access EXCEPT ![g] = Put(access[g], p.accessor, rec)]
    /\ UNCHANGED <<attestationVars, deny_root, auditors, audit>>

gate_request_access ==
    \E p \in CredentialJournals("identity") : Grant("gate", p)

accredited_request_access ==
    \E p \in CredentialJournals("accredited") : Grant("accredited", p)

compliance_request_access ==
    \E p \in ComplianceJournals : p.deny_root = deny_root /\ Grant("compliance", p)

submit_payroll_proof ==
    \E p \in PayrollJournals : p.auditor_pub \in auditors /\ Grant("payroll", p)

set_deny_root(list) ==
    /\ "compliance" \in deployed
    /\ deny_root' = list
    /\ UNCHANGED <<attestationVars, access, grant_log, auditors, audit>>

add_auditor(k) ==
    /\ "payroll" \in deployed
    /\ auditors' = auditors \cup {k}
    /\ UNCHANGED <<attestationVars, access, grant_log, deny_root, audit>>

remove_auditor(k) ==
    /\ "payroll" \in deployed
    /\ auditors' = auditors \ {k}
    /\ UNCHANGED <<attestationVars, access, grant_log, deny_root, audit>>

\* is_granted of the gate, accredited and payroll contracts.
is_granted(g, a) ==
    /\ a \in DOMAIN access[g]
    /\ access[g][a].journal.expiry > now

\* Wrong: the list the grant was checked against is not compared.
compliance_is_granted_wrong(a) == is_granted("compliance", a)

\* The compliance gate's answer also ends when the list is pinned anew.
compliance_is_granted(a) ==
    /\ is_granted("compliance", a)
    /\ access["compliance"][a].journal.deny_root = deny_root

-------------------------------------------------------------------------------
(* The payroll audit: the number of grants, then page after page. *)

\* get_history, which clamps limit to MaxPage.
get_history(g, start, limit) ==
    LET end == Min({start + Min({limit, MaxPage}), Len(grant_log[g])})
    IN SubSeq(grant_log[g], start + 1, end)

StartAudit(k) ==
    /\ "payroll" \in deployed
    /\ audit = None
    /\ audit' = [auditor |-> k, grants |-> Len(grant_log["payroll"]),
                 start |-> 0, list |-> << >>]
    /\ UNCHANGED <<attestationVars, access, grant_log, deny_root, auditors>>

\* Wrong: one read.
MorePages_wrong == audit.start = 0 /\ audit.grants > 0

MorePages == audit.start < audit.grants

ReadPage ==
    /\ audit # None
    /\ MorePages
    /\ audit' = [audit EXCEPT
                    !.start = audit.start + MaxPage,
                    !.list = audit.list
                        \o get_history("payroll", audit.start, MaxPage)]
    /\ UNCHANGED <<attestationVars, access, grant_log, deny_root, auditors>>

\* The answer is sent, or a read failed.
EndAudit ==
    /\ audit # None
    /\ audit' = None
    /\ UNCHANGED <<attestationVars, access, grant_log, deny_root, auditors>>

\* The report: per accessor the row read last; the rows that auditor k can
\* open count toward the total, which is taken unit by unit, so that the sum is
\* a cardinality.
Report(list, k) ==
    LET latest == {j \in DOMAIN list : \A l \in DOMAIN list :
                      list[l].journal.accessor = list[j].journal.accessor => l <= j}
        opened == {j \in latest : list[j].journal.auditor_pub = k}
    IN [count |-> Cardinality(latest),
        total |-> Cardinality(UNION {{j} \X (1..list[j].journal.ct) : j \in opened})]

CredentialCall ==
    \/ gate_request_access
    \/ accredited_request_access
    \/ compliance_request_access
    \/ submit_payroll_proof
    \/ \E list \in DenyLists : set_deny_root(list)
    \/ \E k \in Auditors : add_auditor(k) \/ remove_auditor(k) \/ StartAudit(k)
    \/ ReadPage
    \/ EndAudit

-------------------------------------------------------------------------------
(* Properties. *)

(***************************************************************************)
(* Whoever the compliance gate admits now holds a passed identity check of *)
(* a subject that is not in the list pinned now: no journal proves it of a *)
(* sanctioned subject, and no record outlives a new list, however often    *)
(* lists are pinned and journals submitted again.                          *)
(***************************************************************************)
NoSanctionedGrant ==
    \A a \in Accessors : compliance_is_granted(a) =>
        \E e \in Signed("identity") :
            /\ e.value = 1
            /\ e.nonce = access["compliance"][a].journal.nonce
            /\ e.subject \notin deny_root

\* What the payroll amounts to for auditor k after the first n grants: each
\* accessor's latest disclosure among them, when it is made to k.
Payroll(n, k) ==
    LET last(a) == Max({j \in 1..n : grant_log["payroll"][j].journal.accessor = a})
        employees == {grant_log["payroll"][j].journal.accessor : j \in 1..n}
        row(a) == grant_log["payroll"][last(a)].journal
        shown == {a \in employees : row(a).auditor_pub = k}
    IN [count |-> Cardinality(employees),
        total |-> Cardinality(UNION {{a} \X (1..row(a).ct) : a \in shown})]

(***************************************************************************)
(* An audit that reads page after page while grants are appended reports   *)
(* the payroll as it was at one moment between its first and its last      *)
(* read: nobody is left out or counted twice.                              *)
(***************************************************************************)
AuditIsASnapshot ==
    audit # None => (~MorePages =>
        \E n \in audit.grants..Len(grant_log["payroll"]) :
            Report(audit.list, audit.auditor) = Payroll(n, audit.auditor))

===============================================================================
