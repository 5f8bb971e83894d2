--------------------------- MODULE ContractsProofs ---------------------------
(***************************************************************************)
(* Proofs about the credential gates, the fundraise, the reserves, the two *)
(* gates over the escrow and the sealed documents, for any envelopes, deny *)
(* lists, tiers, tokens and bounds, and any contracts deployed together.   *)
(***************************************************************************)
EXTENDS Contracts, EscrowProofs, SequenceTheorems, WellFoundedInduction

USE AttestationAssumption, CredentialAssumption, FundraiseAssumption

-------------------------------------------------------------------------------
(* The deny-list tree. *)

\* A non-empty set of naturals has a least element: of the intervals up to
\* its elements, one has no other as a strict subset.
LEMMA Smallest ==
    ASSUME NEW S \in SUBSET Nat, S # {}
    PROVE  \E x \in S : \A y \in S : x =< y
<1> DEFINE R == StrictSubsetOrdering(Nat)
           F == FiniteSubsetsOf(Nat)
           T == {1..x : x \in S}
<1>1. IsWellFoundedOn(R, F)
  BY FS_StrictSubsetOrderingWellFounded
<1>2. T \subseteq F /\ T # {}
  <2>1. \A x \in S : 1..x \in SUBSET Nat /\ IsFiniteSet(1..x)
    BY FS_Interval
  <2> QED BY <2>1 DEF FiniteSubsetsOf
<1>3. PICK U \in T : \A V \in T : ~ (<<V, U>> \in R)
  <2> HIDE DEF R, F, T
  <2> QED BY <1>1, <1>2, WFMin
<1>4. PICK x \in S : U = 1..x
  BY <1>3
<1>5. ASSUME NEW y \in S, y < x
      PROVE  FALSE
  <2>1. 1..y \in SUBSET Nat /\ 1..x \in SUBSET Nat
    OBVIOUS
  <2>2. 1..y \subseteq 1..x /\ 1..y # 1..x
    <3>1. x \in 1..x /\ x \notin 1..y
      BY <1>5
    <3> QED BY <1>5, <3>1
  <2>3. <<1..y, 1..x>> \in R
    BY <2>1, <2>2 DEF StrictSubsetOrdering
  <2> QED BY <1>3, <1>4, <2>3
<1> QED BY <1>5

\* What Min returns.
LEMMA MinLeast ==
    ASSUME NEW S \in SUBSET Nat, S # {}
    PROVE  Min(S) \in S /\ \A y \in S : Min(S) =< y
BY Smallest DEF Min

\* Whoever a leaf of a list's tree brackets is not in the list: between a
\* value and the next one there is none.
LEMMA BracketedIsMissing ==
    ASSUME NEW list \in SUBSET Nat, NEW leaf \in Leaves(list),
           NEW x \in Nat, Brackets(leaf, x)
    PROVE  x \notin list
<1> PICK v \in list \cup {0} :
        leaf = [value |-> v,
                next_value |-> LET above == {w \in list : w > v}
                               IN IF above = {} THEN 0 ELSE Min(above)]
  BY DEF Leaves
<1> DEFINE above == {w \in list : w > v}
<1> SUFFICES ASSUME x \in list PROVE FALSE
  OBVIOUS
<1>1. x \in above
  BY DEF Brackets
<1>2. PICK least \in above : least = Min(above) /\ least =< x
  BY <1>1, MinLeast
<1>3. leaf.next_value = least
  BY <1>1, <1>2
<1>4. least \in Nat /\ least # 0
  OBVIOUS
<1>5. x < least
  BY <1>3, <1>4 DEF Brackets
<1> QED BY <1>2, <1>4, <1>5

-------------------------------------------------------------------------------
(* What the guests' journals say. *)

\* The journals that each gate's entry point takes.
GateJournals ==
    [gate |-> CredentialJournals("identity"),
     accredited |-> CredentialJournals("accredited"),
     compliance |-> ComplianceJournals,
     payroll |-> PayrollJournals]

\* A journal of the two plain credential gates is about a passed check.
LEMMA CredentialJournalSays ==
    ASSUME NEW g \in DOMAIN GateClaim, NEW p \in GateJournals[g]
    PROVE  \E e \in Envelopes :
              /\ e.claim = GateClaim[g] /\ e.value = 1
              /\ e.issuer = p.issuer_id /\ e.nonce = p.nonce
              /\ e.expiry = p.expiry
<1>1. CASE g = "gate"
  BY <1>1 DEF GateClaim, GateJournals, CredentialJournals
<1>2. CASE g = "accredited"
  BY <1>2 DEF GateClaim, GateJournals, CredentialJournals
<1> QED BY <1>1, <1>2 DEF GateClaim

\* A journal of the compliance gate is about a passed check of a subject that
\* is not in the journal's list.
LEMMA ComplianceJournalSays ==
    ASSUME NEW p \in ComplianceJournals
    PROVE  \E e \in Envelopes :
              /\ e.claim = "identity" /\ e.value = 1
              /\ e.nonce = p.nonce /\ e.expiry = p.expiry
              /\ e.subject \notin p.deny_root
<1>1. PICK list \in DenyLists, e \in Envelopes, a \in Accessors :
        /\ e.claim = "identity" /\ e.value = 1
        /\ \E leaf \in Leaves(list) : Brackets(leaf, e.subject)
        /\ p = [issuer_id |-> e.issuer, accessor |-> a, nonce |-> e.nonce,
                expiry |-> e.expiry, deny_root |-> list]
  BY DEF ComplianceJournals
<1>2. list \in SUBSET Nat /\ e.subject \in Nat
  BY DEF Envelope
<1>3. e.subject \notin list
  BY <1>1, <1>2, BracketedIsMissing
<1> QED BY <1>1, <1>3

\* A revenue journal is about a revenue that reaches its threshold.
LEMMA RevenueJournalSays ==
    ASSUME NEW p \in GenericJournals(Bars), p.claim_type = "revenue"
    PROVE  \E e \in Envelopes :
              /\ e.claim = "revenue" /\ e.value >= p.threshold
              /\ e.expiry = p.expiry
BY DEF GenericJournals
-------------------------------------------------------------------------------
(* The logs, the records and the admissions. *)

\* Every log holds what journals said, every record is an entry of its log
\* under its accessor, and the revenue proof and the admissions are sound.
LogsSound ==
    /\ DOMAIN grant_log = Gates
    /\ \A g \in Gates :
          grant_log[g] \in Seq([index : Nat, journal : GateJournals[g]])

RecordsLogged ==
    /\ DOMAIN access = Gates
    /\ \A g \in Gates : \A a \in DOMAIN access[g] :
          \E j \in DOMAIN grant_log[g] :
             /\ access[g][a] = grant_log[g][j]
             /\ access[g][a].journal.accessor = a

RevenueSound ==
    revenue # None =>
        revenue \in GenericJournals(Bars) /\ revenue.claim_type = "revenue"

Admission == [accessor : Accessors, revenue_threshold : Bars,
              gate : DOMAIN GateClaim, timestamp : Nat]

AdmissionsEarned ==
    /\ admissions \in Seq(Admission)
    /\ \A j \in DOMAIN admissions :
          LET r == admissions[j]
          IN Earned(r.accessor, r.revenue_threshold, r.gate, r.timestamp)

CredentialInv ==
    /\ now \in Nat
    /\ revenue_threshold \in Bars
    /\ accredited_gate \in DOMAIN GateClaim
    /\ LogsSound
    /\ RecordsLogged
    /\ RevenueSound
    /\ AdmissionsEarned

\* What a step does to the logs, whoever takes it.
LogsGrow ==
    \A g \in Gates : \A j \in DOMAIN grant_log[g] :
        j \in DOMAIN grant_log'[g] /\ grant_log'[g][j] = grant_log[g][j]

\* A grant adds one entry and makes it the record of its accessor.
LEMMA GrantEffect ==
    ASSUME LogsSound, RecordsLogged,
           NEW g \in Gates, NEW p \in GateJournals[g], Grant(g, p)
    PROVE  LogsSound' /\ RecordsLogged' /\ LogsGrow
<1> DEFINE rec == [index |-> Len(grant_log[g]), journal |-> p]
           E == [index : Nat, journal : GateJournals[g]]
           n == Len(grant_log[g])
<1>1. /\ grant_log' = [grant_log EXCEPT ![g] = Append(grant_log[g], rec)]
      /\ access' = [access EXCEPT ![g] = Put(access[g], p.accessor, rec)]
  BY DEF Grant
<1>2. grant_log[g] \in Seq(E) /\ n \in Nat
  BY DEF LogsSound
<1>3. rec \in E /\ rec.journal = p
  BY <1>2
<1>4. /\ Append(grant_log[g], rec) \in Seq(E)
      /\ DOMAIN Append(grant_log[g], rec) = 1..(n + 1)
      /\ DOMAIN grant_log[g] = 1..n
      /\ \A j \in 1..n : Append(grant_log[g], rec)[j] = grant_log[g][j]
      /\ Append(grant_log[g], rec)[n + 1] = rec
  <2> HIDE DEF rec, E
  <2> QED BY <1>2, <1>3, AppendProperties, LenProperties
<1> HIDE DEF rec, E, n
<1>5. /\ DOMAIN grant_log' = Gates /\ grant_log'[g] = Append(grant_log[g], rec)
      /\ \A h \in Gates \ {g} : grant_log'[h] = grant_log[h]
  BY <1>1 DEF LogsSound
<1>6. LogsSound'
  BY <1>4, <1>5 DEF LogsSound, E
<1>7. LogsGrow
  BY <1>2, <1>4, <1>5 DEF LogsGrow
<1>8. /\ DOMAIN access' = Gates /\ access'[g] = Put(access[g], p.accessor, rec)
      /\ \A h \in Gates \ {g} : access'[h] = access[h]
  BY <1>1 DEF RecordsLogged
<1>9. ASSUME NEW h \in Gates, NEW a \in DOMAIN access'[h]
      PROVE  \E j \in DOMAIN grant_log'[h] :
                /\ access'[h][a] = grant_log'[h][j]
                /\ access'[h][a].journal.accessor = a
  <2>1. CASE h = g /\ a = p.accessor
    <3>1. access'[h][a] = rec
      BY <1>8, <2>1 DEF Put
    <3>2. n + 1 \in DOMAIN grant_log'[h] /\ grant_log'[h][n + 1] = rec
      BY <1>2, <1>4, <1>5, <2>1
    <3> QED BY <1>3, <2>1, <3>1, <3>2
  <2>2. CASE ~ (h = g /\ a = p.accessor)
    <3>1. a \in DOMAIN access[h] /\ access'[h][a] = access[h][a]
      BY <1>8, <2>2 DEF Put
    <3>2. PICK j \in DOMAIN grant_log[h] :
             /\ access[h][a] = grant_log[h][j]
             /\ access[h][a].journal.accessor = a
      BY <3>1 DEF RecordsLogged
    <3> QED BY <1>7, <3>1, <3>2 DEF LogsGrow
  <2> QED BY <2>1, <2>2
<1>10. RecordsLogged'
  BY <1>8, <1>9 DEF RecordsLogged
<1> QED BY <1>6, <1>7, <1>10

-------------------------------------------------------------------------------
(* The invariant of the gates and the fundraise. *)

LEMMA CredentialInit0 == Init => CredentialInv
<1> SUFFICES ASSUME Init PROVE CredentialInv
  OBVIOUS
<1>1. LogsSound /\ RecordsLogged
  <2>1. \A S : << >> \in Seq(S)
    OBVIOUS
  <2> QED BY <2>1 DEF Init, CredentialInit, LogsSound, RecordsLogged, Empty
<1>2. RevenueSound /\ AdmissionsEarned /\ revenue_threshold \in Bars
      /\ accredited_gate \in DOMAIN GateClaim
  BY DEF Init, FundraiseInit, RevenueSound, AdmissionsEarned, GateClaim
<1> QED BY <1>1, <1>2 DEF Init, CredentialInv

\* What was earned once stays earned.
LEMMA EarnedStays ==
    ASSUME LogsSound, LogsGrow, NEW a, NEW bar, NEW t,
           NEW g \in DOMAIN GateClaim, Earned(a, bar, g, t)
    PROVE  Earned(a, bar, g, t)'
<1>1. g \in Gates
  BY DEF GateClaim, Gates
<1>2. PICK j \in DOMAIN grant_log[g] :
        /\ grant_log[g][j].journal.accessor = a
        /\ \E e \in Envelopes :
              /\ e.claim = GateClaim[g] /\ e.value = 1 /\ e.expiry > t
              /\ e.issuer = grant_log[g][j].journal.issuer_id
              /\ e.nonce = grant_log[g][j].journal.nonce
  BY DEF Earned
<1>3. j \in DOMAIN grant_log'[g] /\ grant_log'[g][j] = grant_log[g][j]
  BY <1>1 DEF LogsGrow
<1> QED BY <1>2, <1>3 DEF Earned

\* Whoever can access has earned it.
LEMMA AccessEarned ==
    ASSUME CredentialInv, NEW a \in Accessors, can_access(a)
    PROVE  Earned(a, revenue_threshold, accredited_gate, now)
<1> DEFINE g == accredited_gate
<1>1. g \in DOMAIN GateClaim /\ g \in Gates
  BY DEF CredentialInv, GateClaim, Gates
<1>2. PICK e \in Envelopes :
        e.claim = "revenue" /\ e.value >= revenue.threshold
        /\ e.expiry = revenue.expiry
  BY RevenueJournalSays
     DEF CredentialInv, RevenueSound, can_access, is_revenue_verified
<1>3. e.value >= revenue_threshold /\ e.expiry > now
  BY <1>2 DEF can_access, is_revenue_verified
<1>4. a \in DOMAIN access[g] /\ access[g][a].journal.expiry > now
  BY DEF can_access, is_granted
<1>5. PICK j \in DOMAIN grant_log[g] :
        access[g][a] = grant_log[g][j] /\ access[g][a].journal.accessor = a
  BY <1>1, <1>4 DEF CredentialInv, RecordsLogged
<1>6. grant_log[g][j].journal \in GateJournals[g]
  <2>1. grant_log[g] \in Seq([index : Nat, journal : GateJournals[g]])
    BY <1>1 DEF CredentialInv, LogsSound
  <2>2. grant_log[g][j] \in [index : Nat, journal : GateJournals[g]]
    BY <2>1, ElementOfSeq, LenProperties
  <2> QED BY <2>2
<1> HIDE DEF g
<1>7. \E x \in Envelopes :
        /\ x.claim = GateClaim[g] /\ x.value = 1
        /\ x.issuer = grant_log[g][j].journal.issuer_id
        /\ x.nonce = grant_log[g][j].journal.nonce
        /\ x.expiry = grant_log[g][j].journal.expiry
  BY <1>1, <1>6, CredentialJournalSays
<1>8. Earned(a, revenue_threshold, g, now)
  BY <1>2, <1>3, <1>4, <1>5, <1>7 DEF Earned
<1> QED BY <1>8 DEF g

\* Every step keeps the logs sound and only adds to them.
LEMMA LogsStep ==
    ASSUME LogsSound, RecordsLogged, [Next]_vars
    PROVE  LogsSound' /\ RecordsLogged' /\ LogsGrow
<1>1. CASE CredentialCall
  <2>1. \A g \in Gates : \A p : p \in GateJournals[g] /\ Grant(g, p)
             => LogsSound' /\ RecordsLogged' /\ LogsGrow
    BY GrantEffect
  <2>2. CASE gate_request_access
    BY <2>1, <2>2 DEF gate_request_access, GateJournals, Gates
  <2>3. CASE accredited_request_access
    BY <2>1, <2>3 DEF accredited_request_access, GateJournals, Gates
  <2>4. CASE compliance_request_access
    BY <2>1, <2>4 DEF compliance_request_access, GateJournals, Gates
  <2>5. CASE submit_payroll_proof
    BY <2>1, <2>5 DEF submit_payroll_proof, GateJournals, Gates
  <2>6. CASE UNCHANGED <<access, grant_log>>
    BY <2>6 DEF LogsSound, RecordsLogged, LogsGrow
  <2>7. UNCHANGED <<access, grant_log>> \/ gate_request_access
        \/ accredited_request_access \/ compliance_request_access
        \/ submit_payroll_proof
    BY <1>1 DEF CredentialCall, set_deny_root, add_auditor, remove_auditor,
                StartAudit, ReadPage, EndAudit
  <2> QED BY <2>2, <2>3, <2>4, <2>5, <2>6, <2>7
<1>2. CASE ~CredentialCall
  <2>1. UNCHANGED <<access, grant_log>>
    <3>1. FundraiseCall => UNCHANGED credentialVars
      BY DEF FundraiseCall, submit_revenue_proof, request_investor_access,
             set_threshold, set_accredited_gate
    <3> QED BY <1>2, <3>1 DEF Next, vars, credentialVars
  <2> QED BY <2>1 DEF LogsSound, RecordsLogged, LogsGrow
<1> QED BY <1>1, <1>2

LEMMA CredentialStep == CredentialInv /\ [Next]_vars => CredentialInv'
<1> SUFFICES ASSUME CredentialInv, [Next]_vars PROVE CredentialInv'
  OBVIOUS
<1>1. LogsSound' /\ RecordsLogged' /\ LogsGrow
  BY LogsStep DEF CredentialInv
<1>2. now' \in Nat
  BY DEF CredentialInv, Next, vars, Tick, SolvencyCall, TierCall
<1>0. \A q \in Admission :
         Earned(q.accessor, q.revenue_threshold, q.gate, q.timestamp) =>
            Earned(q.accessor, q.revenue_threshold, q.gate, q.timestamp)'
  BY <1>1, EarnedStays DEF CredentialInv, Admission
<1>3. CASE \E a \in Accessors : request_investor_access(a)
  <2> PICK a \in Accessors : request_investor_access(a)
    BY <1>3
  <2> DEFINE r == [accessor |-> a, revenue_threshold |-> revenue_threshold,
                   gate |-> accredited_gate, timestamp |-> now]
             n == Len(admissions)
  <2>1. r \in Admission
    BY DEF CredentialInv, Admission
  <2>2. /\ admissions' = Append(admissions, r)
        /\ UNCHANGED <<revenue, revenue_threshold, accredited_gate>>
    BY DEF request_investor_access
  <2>3. Earned(r.accessor, r.revenue_threshold, r.gate, r.timestamp)
    BY AccessEarned DEF request_investor_access
  <2>4. admissions \in Seq(Admission) /\ n \in Nat
    BY DEF CredentialInv, AdmissionsEarned
  <2> HIDE DEF r
  <2>5. /\ admissions' \in Seq(Admission)
        /\ DOMAIN admissions' = 1..(n + 1)
        /\ DOMAIN admissions = 1..n
        /\ \A j \in 1..n : admissions'[j] = admissions[j]
        /\ admissions'[n + 1] = r
    BY <2>1, <2>2, <2>4, AppendProperties, LenProperties
  <2> HIDE DEF n
  <2>6. \A j \in DOMAIN admissions' : \E q \in Admission :
           /\ q = admissions'[j]
           /\ Earned(q.accessor, q.revenue_threshold, q.gate, q.timestamp)
    <3>1. \A j \in 1..n : admissions[j] \in Admission
      BY <2>4, <2>5, ElementOfSeq, LenProperties
    <3>2. \A j \in 1..n : LET q == admissions[j]
             IN Earned(q.accessor, q.revenue_threshold, q.gate, q.timestamp)
      BY <2>5 DEF CredentialInv, AdmissionsEarned
    <3> QED BY <2>1, <2>3, <2>4, <2>5, <3>1, <3>2
  <2>7. AdmissionsEarned'
    BY <1>0, <2>5, <2>6 DEF AdmissionsEarned
  <2> QED BY <1>1, <1>2, <2>2, <2>7 DEF CredentialInv, RevenueSound
<1>4. CASE UNCHANGED admissions
  <2>1. \A j \in DOMAIN admissions : \E q \in Admission :
           /\ q = admissions[j]
           /\ Earned(q.accessor, q.revenue_threshold, q.gate, q.timestamp)
    BY ElementOfSeq, LenProperties DEF CredentialInv, AdmissionsEarned
  <2>2. AdmissionsEarned'
    BY <1>0, <1>4, <2>1 DEF CredentialInv, AdmissionsEarned
  <2>3. /\ revenue_threshold' \in Bars
        /\ accredited_gate' \in DOMAIN GateClaim
        /\ RevenueSound'
    BY DEF CredentialInv, RevenueSound, Next, vars, fundraiseVars, FundraiseCall,
           submit_revenue_proof, request_investor_access, set_threshold,
           set_accredited_gate, CredentialCall
  <2> QED BY <1>1, <1>2, <2>2, <2>3 DEF CredentialInv
<1> QED BY <1>3, <1>4 DEF Next, vars, fundraiseVars, FundraiseCall,
            submit_revenue_proof, set_threshold, set_accredited_gate

LEMMA CredentialCorrect == Spec => []CredentialInv
BY CredentialInit0, CredentialStep, PTL DEF Spec

(***************************************************************************)
(* Both legs of an access to the fundraise are attested at the moment of   *)
(* the question, and those of every logged admission were at its moment.   *)
(***************************************************************************)
THEOREM AccessEarnedAlways == Spec => []AccessIsEarned
<1>1. CredentialInv => AccessIsEarned
  <2> SUFFICES ASSUME CredentialInv PROVE AccessIsEarned
    OBVIOUS
  <2>1. \A a \in Accessors :
           can_access(a) => Earned(a, revenue_threshold, accredited_gate, now)
    BY AccessEarned
  <2> QED BY <2>1 DEF AccessIsEarned, CredentialInv, AdmissionsEarned
<1> QED BY <1>1, CredentialCorrect, PTL

(***************************************************************************)
(* Whoever the compliance gate grants holds a passed check of a subject    *)
(* outside the list pinned now.                                            *)
(***************************************************************************)
THEOREM NoSanctionedGrantEver == Spec => []NoSanctionedGrant
<1>1. CredentialInv => NoSanctionedGrant
  <2> SUFFICES ASSUME CredentialInv, NEW a \in Accessors,
                      compliance_is_granted(a)
               PROVE  \E e \in Signed("identity") :
                         /\ e.value = 1
                         /\ e.nonce = access["compliance"][a].journal.nonce
                         /\ e.subject \notin deny_root
    BY DEF NoSanctionedGrant
  <2> DEFINE p == access["compliance"][a].journal
  <2>1. "compliance" \in Gates
    BY DEF Gates
  <2>2. /\ a \in DOMAIN access["compliance"]
        /\ p.expiry > now /\ p.deny_root = deny_root
    BY DEF compliance_is_granted, is_granted
  <2>3. PICK j \in DOMAIN grant_log["compliance"] :
           access["compliance"][a] = grant_log["compliance"][j]
    BY <2>1, <2>2 DEF CredentialInv, RecordsLogged
  <2>4. p \in ComplianceJournals
    <3>1. grant_log["compliance"] \in
             Seq([index : Nat, journal : ComplianceJournals])
      BY <2>1 DEF CredentialInv, LogsSound, GateJournals
    <3>2. grant_log["compliance"][j] \in
             [index : Nat, journal : ComplianceJournals]
      BY <3>1, ElementOfSeq, LenProperties
    <3> QED BY <2>3, <3>2
  <2>5. PICK e \in Envelopes :
           /\ e.claim = "identity" /\ e.value = 1
           /\ e.nonce = p.nonce /\ e.expiry = p.expiry
           /\ e.subject \notin p.deny_root
    BY <2>4, ComplianceJournalSays
  <2> QED BY <2>2, <2>5 DEF Signed
<1> QED BY <1>1, CredentialCorrect, PTL

-------------------------------------------------------------------------------
(* The payroll audit. *)

Entry == [index : Nat, journal : PayrollJournals]

\* The state of one audit over the log: what it has read is the front of the
\* log, as far as its pages reach, and past the number of grants it began with
\* once it has no page left.
AuditReads(r, log) ==
    /\ r \in [auditor : Auditors, grants : Nat, start : Nat, list : Seq(Entry)]
    /\ r.grants =< Len(log)
    /\ \E n \in 0..Len(log) :
          /\ r.list = SubSeq(log, 1, n)
          /\ r.start < r.grants => n = r.start
          /\ r.start >= r.grants => n >= r.grants

PayrollLog == grant_log["payroll"] \in Seq(Entry)

AuditInv == audit # None => AuditReads(audit, grant_log["payroll"])

LEMMA PayrollLogged == LogsSound => PayrollLog
BY DEF LogsSound, PayrollLog, Gates, GateJournals, Entry

\* The front of a log is not changed by what is appended to it.
LEMMA FrontStays ==
    ASSUME NEW S, NEW log \in Seq(S), NEW more \in Seq(S),
           Len(log) =< Len(more),
           \A j \in 1..Len(log) : more[j] = log[j],
           NEW n \in 0..Len(log)
    PROVE  SubSeq(more, 1, n) = SubSeq(log, 1, n)
<1>1. Len(log) \in Nat /\ Len(more) \in Nat /\ n \in Nat
  BY LenProperties
<1>2. \A i \in 1..n : log[i] \in S /\ more[i] \in S /\ more[i] = log[i]
  BY <1>1, ElementOfSeq
<1>3. /\ SubSeq(log, 1, n) \in Seq(S)
      /\ Len(SubSeq(log, 1, n)) = n
      /\ \A i \in 1..n : SubSeq(log, 1, n)[i] = log[i]
  BY <1>1, <1>2, SubSeqProperties
<1>4. /\ SubSeq(more, 1, n) \in Seq(S)
      /\ Len(SubSeq(more, 1, n)) = n
      /\ \A i \in 1..n : SubSeq(more, 1, n)[i] = more[i]
  BY <1>1, <1>2, SubSeqProperties
<1> QED BY <1>2, <1>3, <1>4, SeqEqual

\* An audit that has read the front of a log has read that of a longer one.
LEMMA ReadsStay ==
    ASSUME NEW r, NEW log \in Seq(Entry), NEW more \in Seq(Entry),
           Len(log) =< Len(more),
           \A j \in 1..Len(log) : more[j] = log[j],
           AuditReads(r, log)
    PROVE  AuditReads(r, more)
<1>1. Len(log) \in Nat /\ Len(more) \in Nat
  BY LenProperties
<1>2. PICK n \in 0..Len(log) :
        /\ r.list = SubSeq(log, 1, n)
        /\ r.start < r.grants => n = r.start
        /\ r.start >= r.grants => n >= r.grants
  BY DEF AuditReads
<1>3. n \in 0..Len(more) /\ SubSeq(more, 1, n) = SubSeq(log, 1, n)
  BY <1>1, FrontStays
<1>4. /\ r \in [auditor : Auditors, grants : Nat, start : Nat, list : Seq(Entry)]
      /\ r.grants =< Len(more)
  BY <1>1 DEF AuditReads
<1> QED BY <1>2, <1>3, <1>4 DEF AuditReads

\* A page ends at the limit or at the end of the log.
LEMMA PageEnd ==
    ASSUME NEW start \in Nat, NEW len \in Nat
    PROVE  /\ Min({MaxPage, MaxPage}) = MaxPage
           /\ Min({start + MaxPage, len}) \in Nat
           /\ Min({start + MaxPage, len}) =< start + MaxPage
           /\ Min({start + MaxPage, len}) =< len
           /\ Min({start + MaxPage, len}) \in {start + MaxPage, len}
<1>1. MaxPage \in Nat
  OBVIOUS
<1>2. Min({MaxPage, MaxPage}) = MaxPage
  <2> DEFINE S == {MaxPage, MaxPage}
  <2>1. S \in SUBSET Nat /\ S # {}
    BY <1>1
  <2>2. Min(S) \in S
    BY <2>1, MinLeast
  <2> QED BY <2>2
<1>3. /\ {start + MaxPage, len} \in SUBSET Nat
      /\ {start + MaxPage, len} # {}
  BY <1>1
<1>4. /\ Min({start + MaxPage, len}) \in {start + MaxPage, len}
      /\ \A y \in {start + MaxPage, len} : Min({start + MaxPage, len}) =< y
  BY <1>3, MinLeast
<1> QED BY <1>1, <1>2, <1>4

\* The page read next continues what was read.
LEMMA ReadContinues ==
    ASSUME PayrollLog, audit # None, AuditReads(audit, grant_log["payroll"]),
           ReadPage
    PROVE  AuditReads(audit', grant_log["payroll"])
<1> PICK log \in Seq(Entry) : log = grant_log["payroll"]
  BY DEF PayrollLog
<1> PICK r \in [auditor : Auditors, grants : Nat, start : Nat,
                list : Seq(Entry)] : r = audit
  BY DEF AuditReads
<1> DEFINE len == Len(log)
           end == Min({r.start + MaxPage, len})
           q == [r EXCEPT !.start = r.start + MaxPage,
                          !.list = r.list \o SubSeq(log, r.start + 1, end)]
<1>1. len \in Nat /\ r.start \in Nat /\ r.grants \in Nat /\ MaxPage \in Nat \ {0}
  BY LenProperties
<1>2. r.start < r.grants /\ r.grants =< len
  BY DEF ReadPage, MorePages, AuditReads
<1>3. r.list = SubSeq(log, 1, r.start)
  BY <1>2 DEF AuditReads
<1>4. /\ Min({MaxPage, MaxPage}) = MaxPage
      /\ end \in Nat /\ end =< r.start + MaxPage /\ end =< len
      /\ end \in {r.start + MaxPage, len}
  BY <1>1, PageEnd
<1>5. audit' = q
  BY <1>4 DEF ReadPage, get_history
<1> HIDE DEF end
<1>6. SubSeq(log, 1, r.start) \o SubSeq(log, r.start + 1, end)
        = SubSeq(log, 1, end)
  <2>1. /\ 1 \in 1..(Len(log) + 1)
        /\ r.start \in (1 - 1)..Len(log)
        /\ end \in r.start..Len(log)
    BY <1>1, <1>2, <1>4
  <2> QED BY ONLY <2>1, log \in Seq(Entry), ConcatAdjacentSubSeq
<1>7. SubSeq(log, 1, end) \in Seq(Entry)
  <2>1. \A i \in 1..end : log[i] \in Entry
    BY <1>1, <1>4, ElementOfSeq
  <2> QED BY <1>4, <2>1, SubSeqProperties
<1>8. /\ q \in [auditor : Auditors, grants : Nat, start : Nat,
                list : Seq(Entry)]
      /\ q.grants = r.grants
      /\ q.start = r.start + MaxPage
      /\ q.list = SubSeq(log, 1, end)
  <2>1. PICK front \in Seq(Entry) : front = SubSeq(log, 1, end)
    BY <1>7
  <2>2. r.list \o SubSeq(log, r.start + 1, end) = front
    BY <1>3, <1>6, <2>1
  <2>3. PICK next \in Nat : next = r.start + MaxPage
    BY <1>1
  <2>4. q = [auditor |-> r.auditor, grants |-> r.grants, start |-> next,
             list |-> front]
    <3>1. q = [r EXCEPT !.start = next, !.list = front]
      BY ONLY <2>2, <2>3, Zenon
    <3> HIDE DEF q
    <3> QED BY <3>1
  <2> HIDE DEF q
  <2> QED BY <2>1, <2>3, <2>4
<1> HIDE DEF q
<1>9. /\ end \in 0..len
      /\ q.start < q.grants => end = q.start
      /\ q.start >= q.grants => end >= q.grants
  BY <1>1, <1>2, <1>4, <1>8
<1> QED BY <1>2, <1>5, <1>8, <1>9 DEF AuditReads

LEMMA AuditStep ==
    ASSUME LogsSound, RecordsLogged, AuditInv, [Next]_vars
    PROVE  AuditInv'
<1>1. LogsSound' /\ LogsGrow
  BY LogsStep
<1> DEFINE log == grant_log["payroll"]
           more == grant_log'["payroll"]
<1>2. /\ log \in Seq(Entry) /\ more \in Seq(Entry)
      /\ Len(log) \in Nat /\ Len(more) \in Nat
      /\ DOMAIN log = 1..Len(log) /\ DOMAIN more = 1..Len(more)
  <2>1. log \in Seq(Entry) /\ more \in Seq(Entry)
    BY <1>1, PayrollLogged DEF LogsSound, Gates, GateJournals, Entry, PayrollLog
  <2> QED BY <2>1, LenProperties
<1>3. /\ Len(log) =< Len(more)
      /\ \A j \in 1..Len(log) : more[j] = log[j]
  <2>1. \A j \in 1..Len(log) : j \in 1..Len(more) /\ more[j] = log[j]
    BY <1>1, <1>2 DEF LogsGrow, Gates
  <2> QED BY <1>2, <2>1
<1>4. CASE UNCHANGED audit
  <2> SUFFICES ASSUME audit # None PROVE AuditReads(audit, more)
    BY <1>4 DEF AuditInv
  <2> QED BY <1>2, <1>3, ReadsStay DEF AuditInv
<1>5. CASE \E k \in Auditors : StartAudit(k)
  <2> PICK k \in Auditors : StartAudit(k)
    BY <1>5
  <2> DEFINE r == [auditor |-> k, grants |-> Len(log), start |-> 0,
                   list |-> << >>]
  <2>1. audit' = r /\ more = log
    BY DEF StartAudit
  <2>2. << >> \in Seq(Entry) /\ SubSeq(log, 1, 0) = << >>
    BY SubSeqEmpty
  <2>3. AuditReads(r, log)
    <3>1. r \in [auditor : Auditors, grants : Nat, start : Nat,
                 list : Seq(Entry)]
      BY <1>2, <2>2
    <3>2. /\ r.grants =< Len(log) /\ 0 \in 0..Len(log)
          /\ r.list = SubSeq(log, 1, 0)
          /\ r.start < r.grants => 0 = r.start
          /\ r.start >= r.grants => 0 >= r.grants
      BY <1>2, <2>2
    <3> HIDE DEF r
    <3> QED BY <3>1, <3>2 DEF AuditReads
  <2> QED BY <2>1, <2>3 DEF AuditInv
<1>6. CASE ReadPage
  <2>1. audit # None /\ more = log
    BY <1>6 DEF ReadPage
  <2>2. AuditReads(audit', log)
    BY <1>6, <2>1, PayrollLogged, ReadContinues DEF AuditInv
  <2> QED BY <2>1, <2>2 DEF AuditInv
<1>7. CASE EndAudit
  BY <1>7 DEF EndAudit, AuditInv
<1>8. \/ UNCHANGED audit
      \/ \E k \in Auditors : StartAudit(k)
      \/ ReadPage
      \/ EndAudit
  <2>1. CredentialCall => \/ UNCHANGED audit
                          \/ \E k \in Auditors : StartAudit(k)
                          \/ ReadPage
                          \/ EndAudit
    BY DEF CredentialCall, gate_request_access, accredited_request_access,
           compliance_request_access, submit_payroll_proof, Grant,
           set_deny_root, add_auditor, remove_auditor
  <2>2. FundraiseCall => UNCHANGED audit
    BY DEF FundraiseCall, submit_revenue_proof, request_investor_access,
           set_threshold, set_accredited_gate, credentialVars
  <2> QED BY <2>1, <2>2 DEF Next, vars, credentialVars
<1> QED BY <1>4, <1>5, <1>6, <1>7, <1>8

\* A non-empty set of positions of a sequence has a last one.
LEMMA LastPosition ==
    ASSUME NEW n \in Nat, NEW S \in SUBSET (1..n), S # {}
    PROVE  \E x \in S : \A y \in S : y =< x
<1> DEFINE T == {n - j : j \in S}
<1>1. T \in SUBSET Nat /\ T # {}
  <2>1. \A j \in S : n - j \in Nat
    OBVIOUS
  <2>2. T # {}
    OBVIOUS
  <2> QED BY <2>1, <2>2
<1>2. PICK t \in T : \A u \in T : t =< u
  <2> HIDE DEF T
  <2> QED BY <1>1, Smallest
<1>3. PICK x \in S : t = n - x
  BY <1>2
<1>4. \A y \in S : n - x =< n - y
  BY <1>2, <1>3
<1> QED BY <1>4

\* Amounts f of the members of S, unit by unit.
UnitsOf(S, f) == UNION {{x} \X (1..f[x]) : x \in S}

\* Units of finitely many amounts are finitely many.
LEMMA UnitsFinite ==
    ASSUME NEW S, IsFiniteSet(S), NEW f \in [S -> Nat]
    PROVE  IsFiniteSet(UnitsOf(S, f))
<1> DEFINE F == [x \in S |-> {x} \X (1..f[x])]
           T == {{x} \X (1..f[x]) : x \in S}
<1>1. F \in Surjection(S, T)
  BY DEF Surjection
<1>2. IsFiniteSet(T)
  BY <1>1, FS_Surjection
<1>3. ASSUME NEW x \in S
      PROVE  IsFiniteSet({x} \X (1..f[x]))
  <2>1. IsFiniteSet({x}) /\ IsFiniteSet(1..f[x])
    <3>1. 1 \in Int /\ f[x] \in Int
      OBVIOUS
    <3> QED BY <3>1, FS_Singleton, FS_Interval
  <2> QED BY <2>1, FS_Product
<1>4. \A U \in T : IsFiniteSet(U)
  BY <1>3
<1> HIDE DEF T
<1>5. IsFiniteSet(UNION T)
  BY <1>2, <1>4, FS_UNION
<1> QED BY <1>5 DEF T, UnitsOf

\* The sum of amounts does not depend on what they are indexed by.
LEMMA UnitsAlike ==
    ASSUME NEW S, IsFiniteSet(S), NEW T, NEW f \in [S -> Nat], NEW h \in [T -> Nat],
           NEW g \in [S -> T],
           \A x, y \in S : g[x] = g[y] => x = y,
           \A z \in T : \E x \in S : g[x] = z,
           \A x \in S : h[g[x]] = f[x]
    PROVE  Cardinality(UnitsOf(S, f)) = Cardinality(UnitsOf(T, h))
<1> DEFINE US == UnitsOf(S, f)
           UT == UnitsOf(T, h)
           F == [u \in US |-> <<g[u[1]], u[2]>>]
<1>1. IsFiniteSet(US)
  BY UnitsFinite
<1>2. \A u : u \in US <=> \E x \in S : \E n \in 1..f[x] : u = <<x, n>>
  BY DEF UnitsOf
<1>3. \A u : u \in UT <=> \E z \in T : \E n \in 1..h[z] : u = <<z, n>>
  BY DEF UnitsOf
<1> HIDE DEF US, UT
<1>4. F \in [US -> UT]
  <2>1. ASSUME NEW u \in US PROVE <<g[u[1]], u[2]>> \in UT
    <3>1. PICK x \in S : \E n \in 1..f[x] : u = <<x, n>>
      BY <1>2
    <3>2. PICK n \in 1..f[x] : u = <<x, n>>
      BY <3>1
    <3>3. g[x] \in T /\ n \in 1..h[g[x]]
      OBVIOUS
    <3> QED BY <1>3, <3>2, <3>3
  <2> QED BY <2>1
<1>5. ASSUME NEW v \in UT PROVE \E u \in US : F[u] = v
  <2>0. PICK z \in T : \E n \in 1..h[z] : v = <<z, n>>
    BY <1>3
  <2>1. PICK n \in 1..h[z] : v = <<z, n>>
    BY <2>0
  <2>2. PICK x \in S : g[x] = z
    OBVIOUS
  <2>3. <<x, n>> \in US
    BY <1>2, <2>2
  <2> QED BY <2>1, <2>2, <2>3
<1>6. ASSUME NEW u \in US, NEW v \in US, F[u] = F[v] PROVE u = v
  <2>1. PICK x \in S : \E n \in 1..f[x] : u = <<x, n>>
    BY <1>2
  <2>2. PICK n \in 1..f[x] : u = <<x, n>>
    BY <2>1
  <2>3. PICK y \in S : \E m \in 1..f[y] : v = <<y, m>>
    BY <1>2
  <2>4. PICK m \in 1..f[y] : v = <<y, m>>
    BY <2>3
  <2>5. <<g[x], n>> = <<g[y], m>>
    BY <1>6, <2>2, <2>4
  <2>6. g[x] = g[y] /\ n = m
    BY <2>5
  <2> QED BY <2>2, <2>4, <2>6
<1>7. F \in Surjection(US, UT) /\ F \in Injection(US, UT)
  BY <1>4, <1>5, <1>6, Zenon DEF Surjection, Injection, IsInjective
<1> HIDE DEF F
<1>8. Cardinality(UT) = Cardinality(US)
  BY <1>1, <1>7, FS_Surjection
<1> QED BY <1>8 DEF US, UT

\* The report on the front of the log is the payroll at that moment: each
\* accessor has one row that is its last, and it is the row the payroll counts.
LEMMA ReportsPayroll ==
    ASSUME NEW log \in Seq(Entry), NEW n \in 0..Len(log), NEW k,
           log = grant_log["payroll"]
    PROVE  Report(SubSeq(log, 1, n), k) = Payroll(n, k)
<1> PICK list : list = SubSeq(log, 1, n)
  OBVIOUS
<1>1. Len(log) \in Nat /\ n \in Nat
  BY LenProperties
<1>2. DOMAIN list = 1..n /\ \A j \in 1..n : list[j] = log[j] /\ log[j] \in Entry
  <2>1. \A i \in 1..n : log[i] \in Entry
    BY <1>1, ElementOfSeq
  <2>2. list \in Seq(Entry) /\ Len(list) = n
        /\ \A i \in 1..n : list[i] = log[i]
    BY <1>1, <2>1, SubSeqProperties
  <2> QED BY <2>1, <2>2, LenProperties
<1> DEFINE who(j) == log[j].journal.accessor
           latest == {j \in 1..n : \A l \in 1..n : who(l) = who(j) => l =< j}
           opened == {j \in latest : log[j].journal.auditor_pub = k}
           employees == {who(j) : j \in 1..n}
           last(a) == Max({j \in 1..n : who(j) = a})
           shown == {a \in employees : log[last(a)].journal.auditor_pub = k}
           g == [j \in opened |-> who(j)]
           f == [j \in opened |-> log[j].journal.ct]
           h == [a \in shown |-> log[last(a)].journal.ct]
<1>3. Report(list, k) =
        [count |-> Cardinality(latest),
         total |-> Cardinality(UNION {{j} \X (1..log[j].journal.ct) : j \in opened})]
  <2>1. latest = {j \in DOMAIN list : \A l \in DOMAIN list :
                    list[l].journal.accessor = list[j].journal.accessor => l =< j}
    BY <1>2
  <2>2. opened = {j \in latest : list[j].journal.auditor_pub = k}
    BY <1>2
  <2>3. {{j} \X (1..log[j].journal.ct) : j \in opened}
          = {{j} \X (1..list[j].journal.ct) : j \in opened}
    BY <1>2
  <2> HIDE DEF latest, opened
  <2> QED BY <2>1, <2>2, <2>3 DEF Report
<1>4. Payroll(n, k) =
        [count |-> Cardinality(employees),
         total |-> Cardinality(UNION {{a} \X (1..log[last(a)].journal.ct) : a \in shown})]
  BY DEF Payroll
<1>5. IsFiniteSet(latest) /\ IsFiniteSet(opened)
  <2>1. IsFiniteSet(1..n)
    BY <1>1, FS_Interval
  <2> QED BY <2>1, FS_Subset
<1>6. ASSUME NEW a \in employees
      PROVE  last(a) \in latest /\ who(last(a)) = a
  <2> DEFINE S == {j \in 1..n : who(j) = a}
  <2>1. S \in SUBSET (1..n) /\ S # {}
    OBVIOUS
  <2>2. PICK x \in S : \A y \in S : y =< x
    <3> HIDE DEF S
    <3> QED BY <1>1, <2>1, LastPosition
  <2>3. \A y \in S : x >= y
    BY <1>1, <2>2
  <2>4. Max(S) \in S /\ \A y \in S : Max(S) >= y
    <3> HIDE DEF S
    <3> QED BY <2>2, <2>3 DEF Max
  <2>5. \A l \in 1..n : who(l) = a => l =< Max(S)
    BY <1>1, <2>4
  <2> QED BY <2>4, <2>5
<1>7. \A i, j \in latest : who(i) = who(j) => i = j
  <2> SUFFICES ASSUME NEW i \in latest, NEW j \in latest, who(i) = who(j)
               PROVE  i = j
    OBVIOUS
  <2>1. i \in 1..n /\ j \in 1..n /\ i =< j /\ j =< i
    OBVIOUS
  <2> QED BY <1>1, <2>1
<1>8. \A j \in latest : who(j) \in employees
  OBVIOUS
<1>9. \A j \in latest : last(who(j)) = j
  <2> HIDE DEF latest, employees, last, who
  <2> QED BY <1>6, <1>7, <1>8
<1>10. \A j \in 1..n : log[j].journal.ct \in Nat
  <2> SUFFICES ASSUME NEW j \in 1..n PROVE log[j].journal.ct \in Nat
    OBVIOUS
  <2>1. PICK p \in PayrollJournals : p = log[j].journal
    BY <1>2 DEF Entry
  <2>2. PICK e \in Envelopes : p.ct = e.value
    BY DEF PayrollJournals
  <2> QED BY <2>1, <2>2 DEF Envelope
<1>11. latest \subseteq 1..n /\ opened \subseteq latest /\ shown \subseteq employees
  OBVIOUS
<1>12. Cardinality(employees) = Cardinality(latest)
  <2> DEFINE F == [j \in latest |-> who(j)]
  <2>1. F \in [latest -> employees]
    BY <1>8
  <2>2. \A a \in employees : \E j \in latest : F[j] = a
    <3> HIDE DEF latest, employees, last, who
    <3> QED BY <1>6
  <2>3. F \in Surjection(latest, employees) /\ F \in Injection(latest, employees)
    <3> HIDE DEF latest, employees, last, who
    <3> QED BY <1>7, <2>1, <2>2 DEF Surjection, Injection, IsInjective
  <2> HIDE DEF F, latest, employees
  <2> QED BY <1>5, <2>3, FS_Surjection
<1>13. Cardinality(UnitsOf(opened, f)) = Cardinality(UnitsOf(shown, h))
  <2>1. f \in [opened -> Nat]
    BY <1>10, <1>11
  <2>2. h \in [shown -> Nat]
    <3>1. \A a \in shown : last(a) \in 1..n
      <4> HIDE DEF latest, last, employees, who, shown
      <4> QED BY <1>6, <1>11
    <3> HIDE DEF last, shown
    <3> QED BY <1>10, <3>1
  <2>3. \A j \in opened : who(j) \in shown
    <3> SUFFICES ASSUME NEW j \in opened PROVE who(j) \in shown
      OBVIOUS
    <3>1. last(who(j)) = j /\ who(j) \in employees
      <4> HIDE DEF latest, last, employees, who, opened
      <4> QED BY <1>8, <1>9, <1>11
    <3>2. log[last(who(j))].journal.auditor_pub = k
      BY <3>1
    <3> HIDE DEF last, employees, who
    <3> QED BY <3>1, <3>2
  <2>4. \A a \in shown : last(a) \in opened /\ who(last(a)) = a
    <3> SUFFICES ASSUME NEW a \in shown
                 PROVE  last(a) \in opened /\ who(last(a)) = a
      OBVIOUS
    <3>1. a \in employees /\ log[last(a)].journal.auditor_pub = k
      OBVIOUS
    <3>2. last(a) \in latest /\ who(last(a)) = a
      <4> HIDE DEF latest, last, employees, who, shown
      <4> QED BY <1>6, <3>1
    <3> HIDE DEF latest, last, who
    <3> QED BY <3>1, <3>2
  <2>5. /\ g \in [opened -> shown]
        /\ \A x, y \in opened : g[x] = g[y] => x = y
        /\ \A a \in shown : \E x \in opened : g[x] = a
        /\ \A x \in opened : h[g[x]] = f[x]
    <3> HIDE DEF latest, last, employees, who, shown, opened
    <3> QED BY <1>7, <1>9, <1>11, <2>3, <2>4
  <2> HIDE DEF f, g, h, latest, last, employees, who, opened, shown
  <2>6. IsFiniteSet(opened)
    BY <1>5
  <2> QED BY ONLY <2>1, <2>2, <2>5, <2>6, UnitsAlike
<1>14. /\ UnitsOf(opened, f) = UNION {{j} \X (1..log[j].journal.ct) : j \in opened}
       /\ UnitsOf(shown, h)
            = UNION {{a} \X (1..log[last(a)].journal.ct) : a \in shown}
  <2>1. /\ {{j} \X (1..f[j]) : j \in opened}
             = {{j} \X (1..log[j].journal.ct) : j \in opened}
        /\ {{a} \X (1..h[a]) : a \in shown}
             = {{a} \X (1..log[last(a)].journal.ct) : a \in shown}
    <3> HIDE DEF latest, last, employees, who, shown, opened
    <3> QED OBVIOUS
  <2> HIDE DEF latest, last, employees, who, shown, opened, f, h
  <2> QED BY <2>1 DEF UnitsOf
<1> HIDE DEF latest, last, employees, who, shown, opened, f, h
<1> QED BY <1>3, <1>4, <1>12, <1>13, <1>14

(***************************************************************************)
(* An audit that reads page after page while grants are appended reports   *)
(* the payroll, count and total, as it was at one moment since it began:   *)
(* no grant is skipped, read twice or, if it was there, left out, whatever *)
(* the page size.                                                          *)
(***************************************************************************)
THEOREM AuditsAreSnapshots == Spec => []AuditIsASnapshot
<1>1. Init => AuditInv
  BY DEF Init, CredentialInit, AuditInv
<1>2. CredentialInv /\ AuditInv /\ [Next]_vars => AuditInv'
  BY AuditStep DEF CredentialInv
<1>3. CredentialInv /\ AuditInv => AuditIsASnapshot
  <2> SUFFICES ASSUME CredentialInv, AuditInv, audit # None, ~MorePages
               PROVE  \E n \in audit.grants..Len(grant_log["payroll"]) :
                         Report(audit.list, audit.auditor)
                           = Payroll(n, audit.auditor)
    BY DEF AuditIsASnapshot
  <2>1. AuditReads(audit, grant_log["payroll"])
    BY DEF AuditInv
  <2>2. PICK log \in Seq(Entry) : log = grant_log["payroll"]
    BY PayrollLogged DEF CredentialInv, PayrollLog
  <2>3. audit.grants \in Nat /\ audit.start \in Nat /\ Len(log) \in Nat
    BY <2>1, LenProperties DEF AuditReads
  <2>4. PICK n \in 0..Len(log) :
          /\ audit.list = SubSeq(log, 1, n)
          /\ n >= audit.grants
    BY <2>1, <2>2, <2>3 DEF AuditReads, MorePages
  <2>5. n \in audit.grants..Len(log)
    BY <2>3, <2>4
  <2>6. Report(audit.list, audit.auditor) = Payroll(n, audit.auditor)
    BY <2>2, <2>4, ReportsPayroll
  <2> QED BY <2>2, <2>5, <2>6
<1> QED BY <1>1, <1>2, <1>3, CredentialCorrect, PTL DEF Spec

-------------------------------------------------------------------------------
(* The escrow underneath. *)

USE ContractsAssumption, TierAssumption

\* In every company the escrow's state moves as the escrow alone would.
LEMMA EscrowMoves == [Next]_vars => [EscrowNext]_<<now, escrowVars>>
<1> SUFFICES ASSUME [Next]_vars PROVE [EscrowNext]_<<now, escrowVars>>
  OBVIOUS
<1>1. SolvencyCall => UNCHANGED escrowVars
  BY DEF SolvencyCall, submit_solvency_proof, set_bond_token
<1>2. TierCall => UNCHANGED escrowVars
  BY DEF TierCall, submit_tier_proof, EnrollTier, StartPin, StartScan,
         ReadTierLock, EndTierScan, PinMembers, PublishTierRoot,
         AbandonTierRequest
<1> QED BY <1>1, <1>2 DEF Next, vars, EscrowNext

LEMMA EscrowTypeStarts == Init => EscrowTypeOK
<1> SUFFICES ASSUME Init PROVE EscrowTypeOK
  OBVIOUS
<1>1. PICK d \in Deployments :
        balance = [t \in Tokens |-> [h \in Holders |->
                      IF h = EscrowAddr THEN 0 ELSE d.funds[t]]]
  BY DEF Init
<1>2. balance \in [Tokens -> [Holders -> Nat]]
  BY <1>1
<1>3. locks \in [1..counter -> Lock]
  BY DEF Init, Empty
<1> QED BY <1>2, <1>3 DEF Init, EscrowTypeOK

(***************************************************************************)
(* Whatever contract is deployed beside it and is called in between, the   *)
(* escrow stays well typed and keeps non-revocable locks to their end.     *)
(***************************************************************************)
THEOREM LocksHeld == Spec => [](EscrowTypeOK /\ HeldUntilUnlock)
<1>1. Init => HeldUntilUnlock
  BY DEF Init, HeldUntilUnlock, Empty
<1>2. EscrowTypeOK /\ HeldUntilUnlock /\ [Next]_vars
         => (EscrowTypeOK /\ HeldUntilUnlock)'
  BY EscrowMoves, TypeStep, HeldStep
<1> QED BY <1>1, <1>2, EscrowTypeStarts, PTL DEF Spec

\* No company starts with a lock, whatever its accounts hold.
LEMMA BackedStarts == Init => Backed /\ RevocableIsSelf
<1> SUFFICES ASSUME Init PROVE Backed /\ RevocableIsSelf
  OBVIOUS
<1>1. locks = Empty
  BY DEF Init
<1>2. \A t \in Tokens : OwedUnits(t) = {} /\ balance[t][EscrowAddr] = 0
  BY <1>1 DEF Init, Empty, OwedUnits, OpenLocks, Holders
<1>3. IsFiniteSet({}) /\ Cardinality({}) = 0
  BY FS_EmptySet
<1>4. ASSUME NEW t \in Tokens
      PROVE  IsFiniteSet(OwedUnits(t)) /\ Owed(t) <= balance[t][EscrowAddr]
  <2>1. OwedUnits(t) = {} /\ balance[t][EscrowAddr] = 0
    BY <1>2
  <2>2. Owed(t) = 0
    BY <1>3, <2>1 DEF Owed
  <2> QED BY <1>3, <2>1, <2>2
<1> QED BY <1>1, <1>4 DEF Backed, RevocableIsSelf, Empty

(***************************************************************************)
(* Whatever is deployed beside it, the escrow holds at least the sum of    *)
(* its open locks.                                                         *)
(***************************************************************************)
THEOREM LocksStayBacked == Spec => []LocksBacked
<1>1. EscrowTypeOK /\ Backed /\ [Next]_vars => Backed'
  BY EscrowMoves, BackedStep
<1>2. Backed => LocksBacked
  BY DEF Backed, LocksBacked
<1> QED BY <1>1, <1>2, BackedStarts, LocksHeld, PTL DEF Spec

(***************************************************************************)
(* Whatever is deployed beside it, no call removes or weakens a lock.      *)
(***************************************************************************)
THEOREM LocksOnlyStrengthen == Spec => LockOnlyStrengthens
<1>1. EscrowTypeOK /\ [Next]_vars => [Stronger]_<<now, escrowVars>>
  BY EscrowMoves, StrongerStep
<1> QED BY <1>1, LocksHeld, PTL DEF Spec, LockOnlyStrengthens, Stronger

(***************************************************************************)
(* Whatever is deployed beside it, a lock's release pays its claimant and  *)
(* nobody else.                                                            *)
(***************************************************************************)
THEOREM ReleasesPay == Spec => ReleasePaysClaimant
<1>1. EscrowTypeOK /\ RevocableIsSelf /\ [Next]_vars => RevocableIsSelf'
  BY EscrowMoves, RevocableStep
<1>2. EscrowTypeOK /\ RevocableIsSelf /\ [Next]_vars
        => [PaidRight]_<<now, escrowVars>>
  BY EscrowMoves, PaidRightStep
<1> QED BY <1>1, <1>2, BackedStarts, LocksHeld, PTL
        DEF Spec, ReleasePaysClaimant, PaidRight

-------------------------------------------------------------------------------
(* The anonymous tier: what is read, published and granted stays funded.     *)

\* Some lock that meets the tier carries the tag.  It may have been released,
\* though only at its end.
Funded(c, tier) ==
    \E id \in DOMAIN locks :
        locks[id].commitment = c /\ TierMeets(locks[id], tier)

CrowdFunded(crowd, tier) == \A c \in crowd : Funded(c, tier)

Pins == [kind : {"pin"}, members : SUBSET Identities, stage : {"pinning"}]

Scans == [kind : {"publish", "prove"}, members : SUBSET Identities,
          who : Identities \cup {Nobody}, tier : Tiers,
          stage : {"reading", "pinning", "publishing"},
          todo : SUBSET Nat, found : SUBSET Identities]

\* What a scan has found is funded, and it goes on only with enough of it.
ScanFunded(r) ==
    r # Nobody /\ r \in Scans =>
        /\ CrowdFunded(r.found, r.tier)
        /\ r.stage # "reading" => LargeEnough(r.found)

ScansFunded ==
    /\ enrolled \subseteq Identities
    /\ request \in [Requests -> Pins \cup Scans \cup {Nobody}]
    /\ \A q \in Requests : ScanFunded(request[q])

RingsFunded ==
    /\ DOMAIN qual_ring = Tiers
    /\ \A tier \in Tiers :
          /\ qual_ring[tier] \in Seq(SUBSET Identities)
          /\ \A j \in DOMAIN qual_ring[tier] :
                /\ LargeEnough(qual_ring[tier][j])
                /\ CrowdFunded(qual_ring[tier][j], tier)

GrantsFunded ==
    \A a \in DOMAIN tier_grants :
        /\ tier_grants[a].tier \in Tiers
        /\ LargeEnough(tier_grants[a].qual_root)
        /\ CrowdFunded(tier_grants[a].qual_root, tier_grants[a].tier)

TierInv == ScansFunded /\ RingsFunded /\ GrantsFunded

\* A lock that meets a tier meets it for good: locks only strengthen.
LEMMA FundedStays ==
    ASSUME EscrowTypeOK, [EscrowNext]_<<now, escrowVars>>,
           NEW c, NEW tier \in Tiers, Funded(c, tier)
    PROVE  Funded(c, tier)'
<1> PICK id \in DOMAIN locks :
        locks[id].commitment = c /\ TierMeets(locks[id], tier)
  BY DEF Funded
<1>1. /\ id \in DOMAIN locks'
      /\ Terms(locks'[id]) = Terms(locks[id])
      /\ locks'[id].unlock_time >= locks[id].unlock_time
  BY StrongerStep DEF Stronger
<1>2. locks[id].unlock_time \in Nat /\ locks'[id].unlock_time \in Nat
      /\ tier.unlock_after \in Nat
  <2>1. EscrowTypeOK'
    BY TypeStep
  <2>2. locks[id] \in Lock /\ locks'[id] \in Lock
    BY <1>1, <2>1 DEF EscrowTypeOK
  <2> QED BY <2>2 DEF Lock
<1>3. TierMeets(locks'[id], tier)
  BY <1>1, <1>2 DEF TierMeets, Terms
<1> QED BY <1>1, <1>3 DEF Funded, Terms

LEMMA CrowdStays ==
    ASSUME EscrowTypeOK, [EscrowNext]_<<now, escrowVars>>,
           NEW crowd, NEW tier \in Tiers, CrowdFunded(crowd, tier)
    PROVE  CrowdFunded(crowd, tier)'
BY FundedStays DEF CrowdFunded

\* A step of anyone else, the escrow's included.
LEMMA TierStays ==
    ASSUME EscrowTypeOK, TierInv, [EscrowNext]_<<now, escrowVars>>,
           UNCHANGED tierVars
    PROVE  TierInv'
<1>1. \A crowd : \A tier \in Tiers :
         CrowdFunded(crowd, tier) => CrowdFunded(crowd, tier)'
  BY CrowdStays
<1>2. ScansFunded'
  <2>1. \A q \in Requests : request[q] # Nobody /\ request[q] \in Scans =>
           request[q].tier \in Tiers
    BY DEF Scans
  <2>2. \A q \in Requests : ScanFunded(request[q])'
    BY <1>1, <2>1 DEF TierInv, ScansFunded, ScanFunded, tierVars
  <2> QED BY <2>2 DEF TierInv, ScansFunded, tierVars
<1>3. RingsFunded'
  BY <1>1 DEF TierInv, RingsFunded, tierVars, tierGateVars
<1>4. GrantsFunded'
  BY <1>1 DEF TierInv, GrantsFunded, tierVars, tierGateVars
<1> QED BY <1>2, <1>3, <1>4 DEF TierInv

\* The contract and the backend, while no lock changes.
LEMMA SetsRequest ==
    ASSUME ScansFunded, UNCHANGED locks, enrolled' \subseteq Identities,
           NEW q \in Requests, NEW r \in Pins \cup Scans \cup {Nobody},
           Sets(q, r), ScanFunded(r)
    PROVE  ScansFunded'
<1>1. request' \in [Requests -> Pins \cup Scans \cup {Nobody}]
  BY DEF ScansFunded, Sets
<1>2. \A s \in Requests : \E x \in Pins \cup Scans \cup {Nobody} :
         request'[s] = x /\ ScanFunded(x)
  <2>1. \A s \in Requests : request'[s] = r \/ request'[s] = request[s]
    BY DEF ScansFunded, Sets
  <2> QED BY <2>1 DEF ScansFunded
<1>3. \A s \in Requests : ScanFunded(request[s])'
  BY <1>2 DEF ScanFunded, CrowdFunded, Funded
<1> QED BY <1>1, <1>3 DEF ScansFunded

\* Reading a lock adds the tags of locks that meet the tier and nothing else.
LEMMA ReadFunded ==
    ASSUME EscrowTypeOK, ScansFunded, NEW q \in Requests, NEW id \in 1..MaxLocks,
           ReadTierLock(q, id)
    PROVE  ScansFunded'
<1> DEFINE r == request[q]
<1> PICK seen \in {{}} \cup
            {{locks[i].commitment} : i \in
                {j \in DOMAIN locks \cap {id} :
                    ~locks[j].released /\ TierMeets(locks[j], r.tier)}} :
       Sets(q, [r EXCEPT !.todo = r.todo \ {id}, !.found = r.found \cup seen])
  BY DEF ReadTierLock
<1>1. r # Nobody /\ r \in Scans /\ r.stage = "reading"
  BY DEF ReadTierLock, At, ScansFunded, Pins
<1>2. seen \subseteq Identities /\ CrowdFunded(seen, r.tier)
  BY DEF CrowdFunded, Funded, TierMeets
<1> DEFINE x == [r EXCEPT !.todo = r.todo \ {id}, !.found = r.found \cup seen]
<1>3. /\ x \in Scans /\ x.stage = "reading"
      /\ x.found = r.found \cup seen /\ x.tier = r.tier
  BY <1>1, <1>2 DEF Scans
<1>4. ScanFunded(x)
  <2>1. CrowdFunded(r.found, r.tier)
    BY <1>1 DEF ScansFunded, ScanFunded
  <2>2. CrowdFunded(r.found \cup seen, r.tier)
    BY <1>2, <2>1 DEF CrowdFunded
  <2> HIDE DEF x, r
  <2> QED BY <1>3, <2>2 DEF ScanFunded
<1>5. UNCHANGED locks /\ enrolled' \subseteq Identities
  BY DEF ReadTierLock, escrowVars, ScansFunded
<1> HIDE DEF r
<1>6. Sets(q, x)
  BY DEF r
<1> HIDE DEF x
<1> QED BY <1>3, <1>4, <1>5, <1>6, SetsRequest

\* A scan starts with nothing found.
LEMMA StartFunded ==
    ASSUME ScansFunded, NEW q \in Requests, NEW kind \in {"publish", "prove"},
           NEW tier \in Tiers, NEW who \in Identities \cup {Nobody},
           StartScan(q, kind, tier, who)
    PROVE  ScansFunded'
<1> DEFINE x == [kind |-> kind, members |-> enrolled, who |-> who, tier |-> tier,
                 stage |-> "reading", todo |-> 1..MaxLocks, found |-> {}]
<1>1. x \in Scans
  BY DEF Scans, ScansFunded
<1>2. ScanFunded(x)
  BY DEF ScanFunded, CrowdFunded
<1>3. UNCHANGED locks /\ enrolled' \subseteq Identities /\ Sets(q, x)
  BY DEF StartScan, escrowVars, ScansFunded
<1> HIDE DEF x
<1> QED BY <1>1, <1>2, <1>3, SetsRequest

\* Only a scan that found enough goes on.
LEMMA EndFunded ==
    ASSUME ScansFunded, NEW q \in Requests, EndTierScan(q)
    PROVE  ScansFunded'
<1> DEFINE r == request[q]
           x == [r EXCEPT !.stage = IF r.kind = "prove" THEN "pinning"
                                    ELSE "publishing"]
<1>1. r # Nobody /\ r \in Scans /\ LargeEnough(r.found)
  BY DEF EndTierScan, At, ScansFunded, Pins
<1>2. x \in Scans /\ x.found = r.found /\ x.tier = r.tier
  BY <1>1 DEF Scans
<1>3. CrowdFunded(r.found, r.tier)
  BY <1>1 DEF ScansFunded, ScanFunded
<1>4. UNCHANGED locks /\ enrolled' \subseteq Identities /\ Sets(q, x)
  BY DEF EndTierScan, escrowVars, ScansFunded
<1> HIDE DEF r, x
<1>5. ScanFunded(x)
  BY <1>1, <1>2, <1>3 DEF ScanFunded
<1> QED BY <1>2, <1>4, <1>5, SetsRequest

\* Every other request's step: it starts a pin, ends, or has a prove request
\* move on to publishing.
LEMMA OtherRequestFunded ==
    ASSUME ScansFunded, NEW q \in Requests,
           StartPin(q) \/ PinMembers(q) \/ PublishTierRoot(q)
              \/ AbandonTierRequest(q)
    PROVE  ScansFunded'
<1> DEFINE r == request[q]
           next == [r EXCEPT !.stage = "publishing"]
           pin == [kind |-> "pin", members |-> enrolled, stage |-> "pinning"]
<1>1. UNCHANGED locks /\ enrolled' \subseteq Identities
  BY DEF StartPin, PinMembers, PublishTierRoot, AbandonTierRequest, escrowVars,
         ScansFunded
<1>2. CASE StartPin(q)
  <2>1. Sets(q, pin) /\ pin \in Pins /\ pin \notin Scans
    BY <1>2 DEF StartPin, Pins, Scans, ScansFunded
  <2> HIDE DEF pin
  <2>2. ScanFunded(pin)
    BY <2>1 DEF ScanFunded
  <2> QED BY <1>1, <2>1, <2>2, SetsRequest
<1>3. CASE Sets(q, Nobody)
  <2>1. ScanFunded(Nobody)
    BY DEF ScanFunded
  <2> QED BY <1>1, <1>3, <2>1, SetsRequest
<1>4. CASE PinMembers(q) /\ r.kind = "prove"
  <2>1. r # Nobody /\ r \in Scans /\ r.stage = "pinning" /\ Sets(q, next)
    BY <1>4 DEF PinMembers, At, ScansFunded, Pins
  <2>2. next \in Scans /\ next.found = r.found /\ next.tier = r.tier
    BY <2>1 DEF Scans
  <2>3. CrowdFunded(r.found, r.tier) /\ LargeEnough(r.found)
    BY <2>1 DEF ScansFunded, ScanFunded
  <2> HIDE DEF r, next
  <2>4. ScanFunded(next)
    BY <2>2, <2>3 DEF ScanFunded
  <2> QED BY <1>1, <2>1, <2>2, <2>4, SetsRequest
<1>5. PinMembers(q) /\ r.kind # "prove" => Sets(q, Nobody)
  BY DEF PinMembers
<1> QED BY <1>2, <1>3, <1>4, <1>5 DEF PublishTierRoot, AbandonTierRequest

\* A root enters a ring from a scan that found enough; trimming drops one.
LEMMA PublishFunded ==
    ASSUME TierInv, NEW q \in Requests, PublishTierRoot(q)
    PROVE  RingsFunded'
<1> DEFINE r == request[q]
           ring == qual_ring[r.tier]
           long == Append(ring, r.found)
<1>1. /\ r # Nobody /\ r \in Scans /\ r.stage = "publishing"
      /\ r.tier \in Tiers /\ r.found \in SUBSET Identities
  BY DEF PublishTierRoot, At, TierInv, ScansFunded, Pins, Scans
<1>2. LargeEnough(r.found) /\ CrowdFunded(r.found, r.tier)
  BY <1>1 DEF TierInv, ScansFunded, ScanFunded
<1>3. /\ ring \in Seq(SUBSET Identities)
      /\ \A j \in DOMAIN ring : LargeEnough(ring[j])
                               /\ CrowdFunded(ring[j], r.tier)
  BY <1>1 DEF TierInv, RingsFunded
<1>4. UNCHANGED locks
  BY DEF PublishTierRoot, escrowVars
<1>5. qual_ring' = qual_ring
      \/ qual_ring' = [qual_ring EXCEPT ![r.tier] = Trim(long)]
  BY DEF PublishTierRoot, set_qual_root, tierGateVars
<1>6. /\ Trim(long) \in Seq(SUBSET Identities)
      /\ \A j \in DOMAIN Trim(long) : LargeEnough(Trim(long)[j])
                                     /\ CrowdFunded(Trim(long)[j], r.tier)
  <2> DEFINE n == Len(ring)
             found == r.found
             tier == r.tier
  <2>1. /\ found \in SUBSET Identities /\ LargeEnough(found)
        /\ CrowdFunded(found, tier)
    BY <1>1, <1>2
  <2>2. /\ ring \in Seq(SUBSET Identities) /\ n \in Nat /\ DOMAIN ring = 1..n
        /\ \A j \in 1..n : LargeEnough(ring[j]) /\ CrowdFunded(ring[j], tier)
    BY <1>3
  <2>3. long = Append(ring, found)
    OBVIOUS
  <2> HIDE DEF r, ring, long, found, tier
  <2>4. /\ long \in Seq(SUBSET Identities) /\ Len(long) = n + 1
        /\ \A j \in 1..n : long[j] = ring[j]
        /\ long[n + 1] = found
    BY <2>1, <2>2, <2>3, AppendProperties
  <2> HIDE DEF n
  <2>5. \A j \in 1..(n + 1) : LargeEnough(long[j]) /\ CrowdFunded(long[j], tier)
    BY <2>1, <2>2, <2>4
  <2>6. CASE Trim(long) = long
    BY <2>2, <2>4, <2>5, <2>6 DEF tier
  <2>7. CASE Trim(long) = SubSeq(long, 2, n + 1)
    <3>1. /\ SubSeq(long, 2, n + 1) \in Seq(SUBSET Identities)
          /\ DOMAIN SubSeq(long, 2, n + 1) = 1..n
          /\ \A j \in 1..n : SubSeq(long, 2, n + 1)[j] = long[j + 1]
      BY <2>2, <2>4
    <3> QED BY <2>2, <2>5, <2>7, <3>1 DEF tier
  <2> QED BY <2>4, <2>6, <2>7 DEF Trim
<1> HIDE DEF long, ring
<1>7. /\ DOMAIN qual_ring' = Tiers
      /\ \A tier \in Tiers :
            /\ qual_ring'[tier] \in Seq(SUBSET Identities)
            /\ \A j \in DOMAIN qual_ring'[tier] :
                  /\ LargeEnough(qual_ring'[tier][j])
                  /\ CrowdFunded(qual_ring'[tier][j], tier)
  <2>1. CASE qual_ring' = qual_ring
    BY <2>1 DEF TierInv, RingsFunded
  <2>2. CASE qual_ring' = [qual_ring EXCEPT ![r.tier] = Trim(long)]
    BY <1>1, <1>6, <2>2 DEF TierInv, RingsFunded
  <2> QED BY <1>5, <2>1, <2>2
<1> QED BY <1>4, <1>7 DEF RingsFunded, CrowdFunded, Funded

\* A grant is made for a root in the ring of its tier.
LEMMA SubmitFunded ==
    ASSUME TierInv, NEW p \in TierJournals, submit_tier_proof(p)
    PROVE  GrantsFunded'
<1>1. p.tier \in Tiers
  BY DEF TierJournals
<1>2. LargeEnough(p.qual_root) /\ CrowdFunded(p.qual_root, p.tier)
  BY <1>1 DEF submit_tier_proof, TierInv, RingsFunded
<1>3. UNCHANGED locks /\ tier_grants' = Put(tier_grants, p.accessor, p)
  BY DEF submit_tier_proof, escrowVars
<1>4. \A a \in DOMAIN tier_grants' :
        /\ tier_grants'[a].tier \in Tiers
        /\ LargeEnough(tier_grants'[a].qual_root)
        /\ CrowdFunded(tier_grants'[a].qual_root, tier_grants'[a].tier)
  BY <1>1, <1>2, <1>3 DEF Put, TierInv, GrantsFunded
<1> QED BY <1>3, <1>4 DEF GrantsFunded, CrowdFunded, Funded

LEMMA TierStep ==
    EscrowTypeOK /\ TierInv /\ [Next]_vars => TierInv'
<1> SUFFICES ASSUME EscrowTypeOK, TierInv, [Next]_vars PROVE TierInv'
  OBVIOUS
<1>1. CASE UNCHANGED tierVars
  BY <1>1, EscrowMoves, TierStays
<1>2. CASE TierCall
  <2>1. ASSUME UNCHANGED <<locks, qual_ring>> PROVE RingsFunded'
    BY <2>1 DEF TierInv, RingsFunded, CrowdFunded, Funded
  <2>2. ASSUME UNCHANGED <<locks, tier_grants>> PROVE GrantsFunded'
    BY <2>2 DEF TierInv, GrantsFunded, CrowdFunded, Funded
  <2>3. CASE \E p \in TierJournals : submit_tier_proof(p)
    <3>1. GrantsFunded'
      BY <2>3, SubmitFunded
    <3>2. UNCHANGED <<locks, qual_ring, enrolled, request>>
      BY <2>3 DEF submit_tier_proof, escrowVars
    <3>3. ScansFunded'
      BY <3>2 DEF TierInv, ScansFunded, ScanFunded, CrowdFunded, Funded
    <3> QED BY <2>1, <3>1, <3>2, <3>3 DEF TierInv
  <2>4. CASE \E i \in Identities : EnrollTier(i)
    <3>1. UNCHANGED <<locks, qual_ring, tier_grants, request>>
          /\ enrolled' \subseteq Identities
      BY <2>4 DEF EnrollTier, escrowVars, tierGateVars, TierInv, ScansFunded
    <3>2. ScansFunded'
      BY <3>1 DEF TierInv, ScansFunded, ScanFunded, CrowdFunded, Funded
    <3> QED BY <2>1, <2>2, <3>1, <3>2 DEF TierInv
  <2>5. CASE \E q \in Requests : PublishTierRoot(q)
    <3> PICK q \in Requests : PublishTierRoot(q)
      BY <2>5
    <3>1. RingsFunded' /\ ScansFunded'
      BY PublishFunded, OtherRequestFunded DEF TierInv
    <3>2. UNCHANGED <<locks, tier_grants>>
      BY DEF PublishTierRoot, set_qual_root, escrowVars, tierGateVars
    <3> QED BY <2>2, <3>1, <3>2 DEF TierInv
  <2>6. ASSUME NEW q \in Requests,
               \/ StartPin(q)
               \/ \E tier \in Tiers :
                     \/ StartScan(q, "publish", tier, Nobody)
                     \/ \E who \in enrolled : StartScan(q, "prove", tier, who)
               \/ \E id \in 1..MaxLocks : ReadTierLock(q, id)
               \/ EndTierScan(q)
               \/ PinMembers(q)
               \/ AbandonTierRequest(q)
        PROVE  TierInv'
    <3>1. UNCHANGED <<locks, qual_ring, tier_grants>>
      BY <2>6 DEF StartPin, StartScan, ReadTierLock, EndTierScan, PinMembers,
                  set_member_root, AbandonTierRequest, escrowVars, tierGateVars
    <3>2. enrolled \subseteq Identities /\ ScansFunded
      BY DEF TierInv, ScansFunded
    <3>3. ScansFunded'
      BY <2>6, <3>2, StartFunded, ReadFunded, EndFunded, OtherRequestFunded
    <3> QED BY <2>1, <2>2, <3>1, <3>3 DEF TierInv
  <2> QED BY <1>2, <2>3, <2>4, <2>5, <2>6 DEF TierCall
<1> QED BY <1>1, <1>2 DEF Next, vars

(***************************************************************************)
(* Whoever the tier grants hides in a crowd of at least TierMinAnon, and   *)
(* each of them has a lock that meets the tier and is still in the escrow. *)
(***************************************************************************)
THEOREM TierCrowdAlwaysFunded == Spec => []TierCrowdIsFunded
<1>1. Init => TierInv
  <2> SUFFICES ASSUME Init PROVE TierInv
    OBVIOUS
  <2>1. \A S : << >> \in Seq(S)
    OBVIOUS
  <2> QED BY <2>1 DEF Init, TierInit, Empty, TierInv, ScansFunded, RingsFunded,
                      GrantsFunded, ScanFunded
<1>2. EscrowTypeOK /\ HeldUntilUnlock /\ TierInv => TierCrowdIsFunded
  <2> SUFFICES ASSUME EscrowTypeOK, HeldUntilUnlock, TierInv,
                      NEW a \in TierAccessors, tier_is_granted(a)
               PROVE  LET g == tier_grants[a] IN
                      /\ Cardinality(g.qual_root) >= TierMinAnon
                      /\ \A c \in g.qual_root : \E id \in DOMAIN locks :
                            /\ locks[id].commitment = c
                            /\ ~locks[id].released
                            /\ TierMeets(locks[id], g.tier)
    BY DEF TierCrowdIsFunded
  <2> DEFINE g == tier_grants[a]
  <2>1. /\ g.tier \in Tiers /\ LargeEnough(g.qual_root)
        /\ CrowdFunded(g.qual_root, g.tier) /\ now < g.tier.unlock_after
    BY DEF tier_is_granted, TierInv, GrantsFunded
  <2>2. ASSUME NEW id \in DOMAIN locks, TierMeets(locks[id], g.tier)
        PROVE  ~locks[id].released
    <3>1. /\ now \in Nat /\ g.tier.unlock_after \in Nat
          /\ locks[id] \in Lock
      BY <2>1 DEF EscrowTypeOK
    <3> HIDE DEF g
    <3>2. locks[id].unlock_time \in Nat /\ now < locks[id].unlock_time
          /\ ~locks[id].revocable
      BY <2>1, <2>2, <3>1 DEF TierMeets, Lock
    <3> QED BY <3>1, <3>2 DEF HeldUntilUnlock
  <2> HIDE DEF g
  <2>3. /\ Cardinality(g.qual_root) >= TierMinAnon
        /\ \A c \in g.qual_root : \E id \in DOMAIN locks :
              /\ locks[id].commitment = c
              /\ ~locks[id].released
              /\ TierMeets(locks[id], g.tier)
    BY <2>1, <2>2 DEF LargeEnough, CrowdFunded, Funded
  <2> QED BY <2>3 DEF g
<1> QED BY <1>1, <1>2, TierStep, LocksHeld, PTL DEF Spec

-------------------------------------------------------------------------------
(* The token's supply is what its holders have. *)

USE ReservesAssumption, SolvencyAssumption

\* HeldUnits, of any holdings.
Units(f) == UNION {{a} \X (1..f[a]) : a \in TokenHolders}

LEMMA UnitsAdd ==
    ASSUME NEW f \in [TokenHolders -> Nat], IsFiniteSet(Units(f)),
           NEW a \in TokenHolders, NEW n \in Nat
    PROVE  LET g == [f EXCEPT ![a] = f[a] + n] IN
           /\ IsFiniteSet(Units(g))
           /\ Cardinality(Units(g)) = Cardinality(Units(f)) + n
<1> DEFINE g == [f EXCEPT ![a] = f[a] + n]
           more == {a} \X ((f[a] + 1)..(f[a] + n))
<1>1. f[a] \in Nat /\ g[a] = f[a] + n
      /\ \A b \in TokenHolders \ {a} : g[b] = f[b]
  OBVIOUS
<1>2. IsFiniteSet(more) /\ Cardinality(more) = n
  <2>1. IsFiniteSet({a}) /\ Cardinality({a}) = 1
    BY FS_Singleton
  <2>2. /\ IsFiniteSet((f[a] + 1)..(f[a] + n))
        /\ Cardinality((f[a] + 1)..(f[a] + n)) = n
    <3>1. f[a] + 1 \in Int /\ f[a] + n \in Int
      BY <1>1
    <3>2. IsFiniteSet((f[a] + 1)..(f[a] + n))
          /\ Cardinality((f[a] + 1)..(f[a] + n)) =
                IF f[a] + 1 > f[a] + n THEN 0 ELSE (f[a] + n) - (f[a] + 1) + 1
      BY <3>1, FS_Interval
    <3> QED BY <1>1, <3>2
  <2>3. IsFiniteSet(more) /\ Cardinality(more) =
           Cardinality({a}) * Cardinality((f[a] + 1)..(f[a] + n))
    BY <2>1, <2>2, FS_Product
  <2> QED BY <2>1, <2>2, <2>3
<1>3. \A i : i \in 1..g[a] <=> i \in 1..f[a] \/ i \in (f[a] + 1)..(f[a] + n)
  BY <1>1
<1>4. Units(g) = Units(f) \cup more
  <2>1. {a} \X (1..g[a]) = ({a} \X (1..f[a])) \cup more
    BY <1>3
  <2> HIDE DEF more, g
  <2>2. ASSUME NEW u \in Units(g) PROVE u \in Units(f) \cup more
    <3>1. PICK b \in TokenHolders : u \in {b} \X (1..g[b])
      BY DEF Units
    <3>2. CASE b = a
      BY <2>1, <3>1, <3>2 DEF Units
    <3>3. CASE b # a
      BY <1>1, <3>1, <3>3 DEF Units
    <3> QED BY <3>2, <3>3
  <2>3. ASSUME NEW u \in Units(f) PROVE u \in Units(g)
    <3>1. PICK b \in TokenHolders : u \in {b} \X (1..f[b])
      BY DEF Units
    <3>2. CASE b = a
      BY <2>1, <3>1, <3>2 DEF Units
    <3>3. CASE b # a
      BY <1>1, <3>1, <3>3 DEF Units
    <3> QED BY <3>2, <3>3
  <2>4. more \subseteq Units(g)
    BY <2>1 DEF Units
  <2> QED BY <2>2, <2>3, <2>4
<1>5. Units(f) \cap more = {}
  BY <1>1 DEF Units
<1> HIDE DEF more, g
<1>6. /\ IsFiniteSet(Units(g))
      /\ Cardinality(Units(g)) = Cardinality(Units(f)) + n
  BY <1>2, <1>4, <1>5, CardinalityChange
<1> QED BY <1>6 DEF g

LEMMA UnitsTake ==
    ASSUME NEW f \in [TokenHolders -> Nat], IsFiniteSet(Units(f)),
           NEW a \in TokenHolders, NEW n \in Nat, n <= f[a]
    PROVE  LET g == [f EXCEPT ![a] = f[a] - n] IN
           /\ g \in [TokenHolders -> Nat]
           /\ IsFiniteSet(Units(g))
           /\ Cardinality(Units(g)) = Cardinality(Units(f)) - n
<1> DEFINE g == [f EXCEPT ![a] = f[a] - n]
<1>1. /\ g \in [TokenHolders -> Nat] /\ f = [g EXCEPT ![a] = g[a] + n]
      /\ \A b \in TokenHolders : g[b] <= f[b] /\ f[b] \in Nat /\ g[b] \in Nat
  <2>1. f[a] \in Nat /\ f[a] - n \in Nat
    OBVIOUS
  <2>2. g \in [TokenHolders -> Nat] /\ g[a] = f[a] - n
        /\ \A b \in TokenHolders \ {a} : g[b] = f[b]
    BY <2>1
  <2>3. g[a] + n = f[a]
    BY <2>1, <2>2
  <2> HIDE DEF g
  <2>4. \A b \in TokenHolders : [g EXCEPT ![a] = g[a] + n][b] = f[b]
    BY <2>2, <2>3
  <2>5. f = [g EXCEPT ![a] = g[a] + n]
    BY <2>2, <2>4
  <2> QED BY <2>1, <2>2, <2>3, <2>5
<1> HIDE DEF g
<1>2. Units(g) \subseteq Units(f)
  <2>1. \A b \in TokenHolders : 1..g[b] \subseteq 1..f[b]
    BY <1>1
  <2>2. \A b \in TokenHolders : {b} \X (1..g[b]) \subseteq {b} \X (1..f[b])
    BY <2>1
  <2> QED BY <2>2 DEF Units
<1>3. IsFiniteSet(Units(g))
  BY <1>2, FS_Subset
<1>4. Cardinality(Units(f)) = Cardinality(Units(g)) + n
  BY <1>1, <1>3, UnitsAdd
<1>5. Cardinality(Units(g)) \in Nat /\ Cardinality(Units(f)) \in Nat
  BY <1>3, FS_CardinalityType
<1>6. Cardinality(Units(g)) = Cardinality(Units(f)) - n
  BY <1>4, <1>5
<1> QED BY <1>1, <1>3, <1>6 DEF g

SupplyHeld ==
    /\ holdings \in [TokenHolders -> Nat]
    /\ total_supply \in Nat
    /\ IsFiniteSet(HeldUnits)
    /\ Cardinality(HeldUnits) = total_supply

LEMMA SupplyInit == Init => SupplyHeld
<1> SUFFICES ASSUME Init PROVE SupplyHeld
  OBVIOUS
<1>1. HeldUnits = {}
  BY DEF Init, ReservesInit, HeldUnits
<1> QED BY <1>1, FS_EmptySet DEF Init, ReservesInit, SupplyHeld

LEMMA SupplyStep == SupplyHeld /\ [Next]_vars => SupplyHeld'
<1> SUFFICES ASSUME SupplyHeld, [Next]_vars PROVE SupplyHeld'
  OBVIOUS
<1>0. HeldUnits = Units(holdings) /\ HeldUnits' = Units(holdings')
  BY DEF HeldUnits, Units
<1>1. CASE UNCHANGED <<holdings, total_supply>>
  BY <1>1 DEF SupplyHeld, HeldUnits
<1>2. CASE \E to \in TokenHolders, n \in 1..MaxI128 : mint(to, n)
  <2> PICK to \in TokenHolders, n \in 1..MaxI128 : mint(to, n)
    BY <1>2
  <2>1. n \in Nat /\ holdings[to] + n \in Nat
    BY DEF SupplyHeld
  <2>2. /\ holdings' = [holdings EXCEPT ![to] = holdings[to] + n]
        /\ total_supply' = total_supply + n
    BY DEF mint
  <2>3. /\ IsFiniteSet(Units(holdings'))
        /\ Cardinality(Units(holdings')) = Cardinality(Units(holdings)) + n
    BY <1>0, <2>1, <2>2, UnitsAdd DEF SupplyHeld
  <2> QED BY <1>0, <2>1, <2>2, <2>3 DEF SupplyHeld
<1>3. CASE \E from \in TokenHolders, n \in 1..MaxI128 : burn(from, n)
  <2> PICK from \in TokenHolders, n \in 1..MaxI128 : burn(from, n)
    BY <1>3
  <2>1. n \in Nat /\ n <= holdings[from]
    BY DEF SupplyHeld, burn
  <2>2. /\ holdings' = [holdings EXCEPT ![from] = holdings[from] - n]
        /\ total_supply' = total_supply - n
    BY DEF burn
  <2>3. /\ holdings' \in [TokenHolders -> Nat]
        /\ IsFiniteSet(Units(holdings'))
        /\ Cardinality(Units(holdings')) = Cardinality(Units(holdings)) - n
    BY <1>0, <2>1, <2>2, UnitsTake DEF SupplyHeld
  <2>4. total_supply' \in Nat
    BY <1>0, <2>2, <2>3, FS_CardinalityType DEF SupplyHeld
  <2> QED BY <1>0, <2>2, <2>3, <2>4 DEF SupplyHeld
<1>4. CASE \E from, to \in TokenHolders, n \in 1..MaxI128 : move(from, to, n)
  <2> PICK from \in TokenHolders, to \in TokenHolders, n \in 1..MaxI128 :
         move(from, to, n)
    BY <1>4
  <2> DEFINE debited == [holdings EXCEPT ![from] = holdings[from] - n]
  <2>1. n \in Nat /\ n <= holdings[from]
    BY DEF SupplyHeld, move
  <2>2. /\ holdings' = [debited EXCEPT ![to] = debited[to] + n]
        /\ total_supply' = total_supply
    BY DEF move
  <2>3. /\ debited \in [TokenHolders -> Nat]
        /\ IsFiniteSet(Units(debited))
        /\ Cardinality(Units(debited)) = Cardinality(Units(holdings)) - n
    BY <1>0, <2>1, UnitsTake DEF SupplyHeld
  <2> HIDE DEF debited
  <2>4. /\ IsFiniteSet(Units(holdings'))
        /\ Cardinality(Units(holdings')) = Cardinality(Units(debited)) + n
    BY <2>1, <2>2, <2>3, UnitsAdd
  <2>5. holdings' \in [TokenHolders -> Nat]
    BY <2>1, <2>2, <2>3
  <2> QED BY <1>0, <2>1, <2>2, <2>3, <2>4, <2>5 DEF SupplyHeld
<1>5. SolvencyCall => UNCHANGED reserveVars
  BY DEF SolvencyCall, submit_solvency_proof, set_bond_token
<1> QED BY <1>1, <1>2, <1>3, <1>4, <1>5
        DEF Next, vars, reserveVars, ReservesCall, submit_proof_of_reserves

(***************************************************************************)
(* A result is published only while an unexpired word of a listed issuer   *)
(* covers all that the holders have, for any holders and any widths of the *)
(* supply and of the journal's number.                                     *)
(***************************************************************************)
THEOREM ResultsCoverSupply == Spec => ReservesCoverSupply
<1> DEFINE Covered ==
             results' # results =>
               \E e \in Signed("reserves") :
                  /\ e.issuer \in issuers["policy"]
                  /\ e.value >= Cardinality(HeldUnits)
<1>1. SupplyHeld /\ [Next]_vars => Covered
  <2> SUFFICES ASSUME SupplyHeld, [Next]_vars, results' # results
               PROVE  \E e \in Signed("reserves") :
                         /\ e.issuer \in issuers["policy"]
                         /\ e.value >= Cardinality(HeldUnits)
    OBVIOUS
  <2>1. SolvencyCall => UNCHANGED reserveVars
    BY DEF SolvencyCall, submit_solvency_proof, set_bond_token
  <2>2. submit_proof_of_reserves
    BY <2>1 DEF Next, vars, reserveVars, ReservesCall, mint, burn, move
  <2>3. PICK p \in GenericJournals(0..MaxU64) :
           /\ p.claim_type = "reserves"
           /\ Accepted("policy", p)
           /\ BoundToSupply(p.threshold)
    BY <2>2 DEF submit_proof_of_reserves
  <2>4. PICK e \in Envelopes :
           /\ e.claim = "reserves" /\ e.value >= p.threshold
           /\ e.issuer = p.issuer_id /\ e.expiry = p.expiry
    BY <2>3 DEF GenericJournals
  <2> QED BY <2>3, <2>4 DEF Signed, Accepted, BoundToSupply, SupplyHeld
<1>2. Covered => [Covered]_<<now, attestationVars, reserveVars>>
  OBVIOUS
<1>3. SupplyHeld /\ [Next]_vars => [Covered]_<<now, attestationVars, reserveVars>>
  BY <1>1, <1>2
<1>4. Spec => [][Covered]_<<now, attestationVars, reserveVars>>
  <2> HIDE DEF Covered
  <2> QED BY <1>3, SupplyInit, SupplyStep, PTL DEF Spec
<1> QED BY <1>4 DEF ReservesCoverSupply

-------------------------------------------------------------------------------
(* A solvency grant is backed. *)

\* Every record stands on a lock of its owner and on an auditor's word.
RecordsSound ==
    /\ bond_token \in Tokens
    /\ \A a \in DOMAIN records :
          /\ a \in Accounts
          /\ records[a].lock_id \in DOMAIN locks
          /\ locks[records[a].lock_id].depositor = a
          /\ records[a].min_amount \in Nat
          /\ \E e \in Envelopes :
                /\ e.claim = "solvency" /\ e.value >= records[a].supply
                /\ e.nonce = records[a].nonce /\ e.expiry = records[a].expiry

LEMMA RecordsStep ==
    EscrowTypeOK /\ RecordsSound /\ [Next]_vars => RecordsSound'
<1> SUFFICES ASSUME EscrowTypeOK, RecordsSound, [Next]_vars
             PROVE  RecordsSound'
  OBVIOUS
<1>1. \A id \in DOMAIN locks :
         id \in DOMAIN locks' /\ locks'[id].depositor = locks[id].depositor
  BY EscrowMoves, StrongerStep DEF Stronger, Terms
<1>2. CASE UNCHANGED records /\ bond_token' \in Tokens
  BY <1>1, <1>2 DEF RecordsSound
<1>3. CASE \E caller \in Accounts : submit_solvency_proof(caller)
  <2> PICK caller \in Accounts : submit_solvency_proof(caller)
    BY <1>3
  <2>1. PICK p \in SolvencyJournals :
           /\ Bonded(p.lock_id, p.min_amount)
           /\ Owns(caller, p.lock_id)
           /\ records' = Put(records, caller, p)
    BY DEF submit_solvency_proof
  <2>2. UNCHANGED <<locks, bond_token>>
    BY DEF submit_solvency_proof, escrowVars
  <2>3. /\ p.min_amount \in Nat
        /\ \E e \in Envelopes :
              /\ e.claim = "solvency" /\ e.value >= p.supply
              /\ e.nonce = p.nonce /\ e.expiry = p.expiry
    BY DEF SolvencyJournals
  <2>4. p.lock_id \in DOMAIN locks /\ locks[p.lock_id].depositor = caller
    BY <2>1 DEF Bonded, Owns
  <2>5. DOMAIN records' = DOMAIN records \cup {caller}
        /\ records'[caller] = p
        /\ \A a \in DOMAIN records \ {caller} : records'[a] = records[a]
    BY <2>1 DEF Put
  <2>6. ASSUME NEW a \in DOMAIN records'
        PROVE  /\ a \in Accounts
               /\ records'[a].lock_id \in DOMAIN locks
               /\ locks[records'[a].lock_id].depositor = a
               /\ records'[a].min_amount \in Nat
               /\ \E e \in Envelopes :
                     /\ e.claim = "solvency" /\ e.value >= records'[a].supply
                     /\ e.nonce = records'[a].nonce
                     /\ e.expiry = records'[a].expiry
    <3>1. CASE a = caller
      BY <2>3, <2>4, <2>5, <3>1
    <3>2. CASE a # caller
      BY <2>5, <3>2 DEF RecordsSound
    <3> QED BY <3>1, <3>2
  <2> QED BY <2>2, <2>6 DEF RecordsSound
<1> QED BY <1>2, <1>3 DEF RecordsSound, Next, vars, solvencyVars, SolvencyCall,
            set_bond_token

\* The bonds of the granted, unit by unit, are among what the escrow owes.
LEMMA BondsWithin ==
    ASSUME EscrowTypeOK, Backed, RecordsSound
    PROVE  Cardinality(BondUnits) <= balance[bond_token][EscrowAddr]
<1> DEFINE owed == OwedUnits(bond_token)
           f == [u \in BondUnits |-> <<records[u[1]].lock_id, u[2]>>]
<1>1. ASSUME NEW a \in GrantedNow, NEW i \in 1..records[a].min_amount
      PROVE  <<records[a].lock_id, i>> \in owed
  <2> DEFINE id == records[a].lock_id
  <2>1. /\ a \in DOMAIN records /\ records[a].min_amount \in Nat
        /\ Bonded(id, records[a].min_amount)
    BY DEF GrantedNow, solvency_is_granted, RecordsSound
  <2>2. /\ id \in OpenLocks(bond_token)
        /\ locks[id].amount >= records[a].min_amount
    BY <2>1 DEF Bonded, OpenLocks
  <2>3. locks[id].amount \in Nat
    BY <2>2 DEF OpenLocks, EscrowTypeOK, Lock
  <2>4. i \in 1..locks[id].amount
    BY <2>1, <2>2, <2>3
  <2>5. <<id, i>> \in LockUnits(id)
    BY <2>4 DEF LockUnits
  <2> QED BY <2>2, <2>5 DEF OwedUnits
<1>2. \A u \in BondUnits : /\ u = <<u[1], u[2]>> /\ u[1] \in GrantedNow
                           /\ u[2] \in 1..records[u[1]].min_amount
  BY DEF BondUnits
<1>3. f \in [BondUnits -> owed]
  BY <1>1, <1>2
<1>4. ASSUME NEW u \in BondUnits, NEW v \in BondUnits, f[u] = f[v]
      PROVE  u = v
  <2>1. records[u[1]].lock_id = records[v[1]].lock_id /\ u[2] = v[2]
    BY <1>4
  <2>2. u[1] \in DOMAIN records /\ v[1] \in DOMAIN records
    BY <1>2 DEF GrantedNow, solvency_is_granted
  <2>3. u[1] = v[1]
    BY <2>1, <2>2 DEF RecordsSound
  <2> QED BY <1>2, <2>1, <2>3
<1>5. f \in Injection(BondUnits, owed)
  BY <1>3, <1>4 DEF Injection, IsInjective
<1>6. bond_token \in Tokens /\ IsFiniteSet(owed)
      /\ Cardinality(owed) <= balance[bond_token][EscrowAddr]
  BY DEF RecordsSound, Backed, Owed
<1> HIDE DEF f, owed
<1>7. IsFiniteSet(BondUnits) /\ Cardinality(BondUnits) <= Cardinality(owed)
  BY <1>5, <1>6, FS_Injection
<1>8. Cardinality(BondUnits) \in Nat /\ Cardinality(owed) \in Nat
      /\ balance[bond_token][EscrowAddr] \in Nat
  BY <1>6, <1>7, FS_CardinalityType DEF EscrowTypeOK, Holders
<1> QED BY <1>6, <1>7, <1>8

(***************************************************************************)
(* Whoever the solvency gate grants has a word of reserves for today's     *)
(* supply and an own bond to lose, and the escrow holds all the bonds at   *)
(* once: the gate, the token and the escrow together, with any fee.        *)
(***************************************************************************)
THEOREM SolvencyIsBacked == Spec => []GrantIsBacked
<1> DEFINE Inv == EscrowTypeOK /\ Backed /\ RevocableIsSelf /\ RecordsSound
<1>1. Init => Inv
  <2> SUFFICES ASSUME Init PROVE Inv
    OBVIOUS
  <2> QED BY EscrowTypeStarts, BackedStarts DEF Init, SolvencyInit, Empty, RecordsSound
<1>2. Inv /\ [Next]_vars => Inv'
  BY EscrowMoves, TypeStep, BackedStep, RevocableStep, RecordsStep
<1>3. Inv => GrantIsBacked
  <2> SUFFICES ASSUME Inv PROVE GrantIsBacked
    OBVIOUS
  <2>1. ASSUME NEW a \in GrantedNow
        PROVE  /\ locks[records[a].lock_id].claimant = a
               /\ \E e \in Signed("solvency") :
                     e.nonce = records[a].nonce /\ e.value >= total_supply
    <3>1. /\ a \in DOMAIN records /\ records[a].expiry > now
          /\ records[a].supply = total_supply
          /\ records[a].lock_id \in DOMAIN locks
          /\ locks[records[a].lock_id].revocable
      BY DEF GrantedNow, solvency_is_granted, BoundToSupply, Bonded
    <3>2. locks[records[a].lock_id].claimant = a
      BY <3>1 DEF RecordsSound, RevocableIsSelf
    <3>3. PICK e \in Envelopes :
             /\ e.claim = "solvency" /\ e.value >= records[a].supply
             /\ e.nonce = records[a].nonce /\ e.expiry = records[a].expiry
      BY <3>1 DEF RecordsSound
    <3> QED BY <3>1, <3>2, <3>3 DEF Signed
  <2> QED BY <2>1, BondsWithin DEF GrantIsBacked
<1> QED
  <2> HIDE DEF Inv
  <2> QED BY <1>1, <1>2, <1>3, PTL DEF Spec

-------------------------------------------------------------------------------
(* Sealed documents. *)

\* A step either is a call to the data room or leaves its state alone.
LEMMA RoomSteps == [Next]_vars => RoomCall \/ UNCHANGED sealedVars
BY DEF Next, vars

\* What is advertised, whether or not it is still valid.
VouchedTeasers ==
    \A id \in DOMAIN teasers :
        /\ id \in DOMAIN documents
        /\ teasers[id].content_hash = documents[id].journal.content_hash
        /\ \E e \in Envelopes :
              /\ e.claim = "teaser" /\ e.issuer = teasers[id].attester
              /\ e.nonce = teasers[id].field_tag
              /\ e.value >= teasers[id].threshold
              /\ e.expiry = teasers[id].expiry

VouchedFacts ==
    \A id \in DOMAIN facts :
        LET p == facts[id].journal IN
        /\ id[2] = p.msg_digest /\ p.msg_digest \in Statements
        /\ p.msg_digest.issuer = p.issuer_key_hash
        /\ p.msg_digest.value >= p.threshold

\* No document is replaced or removed.
LEMMA DocumentsStay ==
    ASSUME [Next]_vars
    PROVE  \A id \in DOMAIN documents :
              id \in DOMAIN documents' /\ documents'[id] = documents[id]
<1>1. ASSUME NEW j, put_document(j)
      PROVE  \A id \in DOMAIN documents :
                id \in DOMAIN documents' /\ documents'[id] = documents[id]
  BY <1>1 DEF put_document, Put
<1>2. ASSUME RoomCall, ~ \E j : put_document(j)
      PROVE  documents' = documents
  BY <1>2 DEF RoomCall, create_room, prove_seal, disclose_prove,
              ProveSeal, StoreBlob, AnswerSeal,
              SubmitDocument, attest_document_fact, attest_teaser, pin_image,
              set_docauth_issuer, set_teaser_attester, recordVars
<1>3. UNCHANGED sealedVars => documents' = documents
  BY DEF sealedVars, recordVars
<1> QED BY <1>1, <1>2, <1>3, RoomSteps

LEMMA TeasersStep == VouchedTeasers /\ [Next]_vars => VouchedTeasers'
<1> SUFFICES ASSUME VouchedTeasers, [Next]_vars PROVE VouchedTeasers'
  OBVIOUS
<1>1. CASE teasers' = teasers
  BY <1>1, DocumentsStay DEF VouchedTeasers
<1>2. ASSUME NEW p \in GenericJournals(Floors), NEW r \in Rooms, NEW d \in Docs,
             attest_teaser(p, r, d)
      PROVE  VouchedTeasers'
  <2> DEFINE new == <<r, d>>
  <2>1. /\ documents' = documents /\ new \in DOMAIN documents
        /\ DOMAIN teasers' = DOMAIN teasers \cup {new}
        /\ \A id \in DOMAIN teasers \ {new} : teasers'[id] = teasers[id]
    BY <1>2 DEF attest_teaser, Put
  <2>2. /\ teasers'[new].content_hash = documents[new].journal.content_hash
        /\ teasers'[new].field_tag = p.nonce
        /\ teasers'[new].threshold = p.threshold
        /\ teasers'[new].attester = p.issuer_id
        /\ teasers'[new].expiry = p.expiry
    BY <1>2 DEF attest_teaser, Put
  <2>3. PICK e \in Envelopes :
           /\ e.claim = p.claim_type /\ e.issuer = p.issuer_id
           /\ e.nonce = p.nonce /\ e.value >= p.threshold /\ e.expiry = p.expiry
    BY DEF GenericJournals
  <2>4. e.claim = "teaser"
    BY <1>2, <2>3 DEF attest_teaser
  <2> QED BY <2>1, <2>2, <2>3, <2>4 DEF VouchedTeasers
<1>3. ASSUME RoomCall, teasers' # teasers
      PROVE  \E p \in GenericJournals(Floors), r \in Rooms, d \in Docs :
                attest_teaser(p, r, d)
  BY <1>3 DEF RoomCall, create_room, prove_seal, disclose_prove,
              ProveSeal, StoreBlob, AnswerSeal,
              SubmitDocument, put_document, attest_document_fact, pin_image,
              set_docauth_issuer, set_teaser_attester, recordVars
<1>4. UNCHANGED sealedVars => teasers' = teasers
  BY DEF sealedVars, recordVars
<1> QED BY <1>1, <1>2, <1>3, <1>4, RoomSteps

LEMMA FactsStep == VouchedFacts /\ [Next]_vars => VouchedFacts'
<1> SUFFICES ASSUME VouchedFacts, [Next]_vars PROVE VouchedFacts'
  OBVIOUS
<1>1. CASE facts' = facts
  BY <1>1 DEF VouchedFacts
<1>2. ASSUME NEW p \in FactJournals, attest_document_fact(p)
      PROVE  VouchedFacts'
  <2> DEFINE new == <<p.room_id, p.msg_digest>>
  <2>1. /\ DOMAIN facts' = DOMAIN facts \cup {new}
        /\ \A id \in DOMAIN facts \ {new} : facts'[id] = facts[id]
        /\ facts'[new].journal = p
    BY <1>2 DEF attest_document_fact, Put
  <2>2. /\ p.msg_digest \in Statements
        /\ p.msg_digest.issuer = p.issuer_key_hash
        /\ p.msg_digest.value >= p.threshold
    BY DEF FactJournals
  <2> QED BY <2>1, <2>2 DEF VouchedFacts
<1>3. ASSUME RoomCall, facts' # facts
      PROVE  \E p \in FactJournals : attest_document_fact(p)
  BY <1>3 DEF RoomCall, create_room, prove_seal, disclose_prove,
              ProveSeal, StoreBlob, AnswerSeal,
              SubmitDocument, put_document, attest_teaser, pin_image,
              set_docauth_issuer, set_teaser_attester, recordVars
<1>4. UNCHANGED sealedVars => facts' = facts
  BY DEF sealedVars, recordVars
<1> QED BY <1>1, <1>2, <1>3, <1>4, RoomSteps

(***************************************************************************)
(* Whatever is advertised of a sealed document is a listed third party's   *)
(* word about the blob that is anchored, for any envelopes, statements and *)
(* floors.                                                                 *)
(***************************************************************************)
THEOREM AdvertisedAlwaysVouched == Spec => []AdvertisedIsVouched
<1> DEFINE Inv == VouchedTeasers /\ VouchedFacts
<1>1. Init => Inv
  BY DEF Init, SealedInit, Empty, VouchedTeasers, VouchedFacts
<1>2. Inv /\ [Next]_vars => Inv'
  BY TeasersStep, FactsStep
<1>3. Inv => AdvertisedIsVouched
  <2> SUFFICES ASSUME Inv PROVE AdvertisedIsVouched
    OBVIOUS
  <2>1. ASSUME NEW r \in Rooms, NEW d \in Docs, is_teaser_valid(r, d)
        PROVE  /\ teasers[<<r, d>>].content_hash
                     = documents[<<r, d>>].journal.content_hash
               /\ \E e \in Signed("teaser") :
                     /\ e.issuer = teasers[<<r, d>>].attester
                     /\ e.nonce = teasers[<<r, d>>].field_tag
                     /\ e.value >= teasers[<<r, d>>].threshold
                     /\ e.expiry = teasers[<<r, d>>].expiry
    BY <2>1 DEF is_teaser_valid, VouchedTeasers, Signed
  <2> QED BY <2>1 DEF AdvertisedIsVouched, VouchedFacts
<1> QED
  <2> HIDE DEF Inv
  <2> QED BY <1>1, <1>2, <1>3, PTL DEF Spec

\* What can be sealed, and what a seal request is.
Plaintexts ==
    {Text(c) : c \in Contents} \cup {redact(v.doc, v.policy) : v \in Disclosures}

Seal == [room: Rooms, doc: Docs, reader: Readers, plain: Plaintexts,
         from: SUBSET Disclosures, answered: BOOLEAN]

SealsOK == seals \in Seq(Seal) /\ Len(seals) <= MaxSeals

\* The blob of an answered request is stored; a redacted view is a redaction.
SealsStored ==
    \A n \in DOMAIN seals :
        /\ seals[n].answered => Blob(n) \in blobs
        /\ \A v \in seals[n].from : seals[n].plain = redact(v.doc, v.policy)

\* A document under a request's key came of that very request.
SealedByJob ==
    \A id \in DOMAIN documents :
        LET j == documents[id].journal IN
        /\ id = <<j.room_id, j.doc_id>>
        /\ j.ct \in DOMAIN seals \cup {OwnKey}
        /\ j.ct \in DOMAIN seals => seals[j.ct].answered /\ j = JobJournal(j.ct)

SealInv == SealsOK /\ SealsStored /\ SealedByJob

\* A redaction shows no field whole but those it may.
LEMMA RedactHides ==
    ASSUME NEW v \in Disclosures, NEW f \in DOMAIN redact(v.doc, v.policy),
           redact(v.doc, v.policy)[f].shown = "all"
    PROVE  MayShow(v, f)
<1> DEFINE rule == Rule(v.policy, f)
<1>1. CASE rule.tier # "private"
  BY <1>1 DEF Rule, MayShow
<1>2. CASE rule.tier = "private"
  <2>1. applyMask(v.doc[f], rule.mask).shown = "all"
    BY <1>2 DEF redact
  <2>2. rule.mask = "year" /\ v.doc[f].form = "year"
    BY <2>1 DEF applyMask, Withheld
  <2> QED BY <2>2 DEF Rule, MayShow
<1> QED BY <1>1, <1>2

\* A new request: its index is no document's key.
LEMMA ProveSealStep ==
    ASSUME SealInv, NEW r \in Rooms, NEW d \in Docs, NEW x \in Readers,
           NEW plain \in Plaintexts, NEW from \in SUBSET Disclosures,
           \A v \in from : plain = redact(v.doc, v.policy),
           ProveSeal(r, d, x, plain, from)
    PROVE  SealInv'
<1> DEFINE new == [room |-> r, doc |-> d, reader |-> x, plain |-> plain,
                   from |-> from, answered |-> FALSE]
<1>1. /\ seals' = Append(seals, new) /\ Len(seals) < MaxSeals
      /\ blobs' = blobs /\ documents' = documents
  BY DEF ProveSeal, recordVars
<1>2. new \in Seal /\ seals \in Seq(Seal)
  BY DEF Seal, SealInv, SealsOK
<1>3. /\ seals' \in Seq(Seal) /\ Len(seals') = Len(seals) + 1
      /\ \A n \in DOMAIN seals : n \in DOMAIN seals' /\ seals'[n] = seals[n]
      /\ DOMAIN seals' = DOMAIN seals \cup {Len(seals) + 1}
      /\ seals'[Len(seals) + 1] = new
  <2> HIDE DEF new
  <2> QED BY <1>1, <1>2
<1>4. SealsOK'
  BY <1>1, <1>3, SealedAssumption DEF SealInv, SealsOK
<1>5. SealsStored'
  BY <1>1, <1>3 DEF SealInv, SealsStored, Blob
<1>6. SealedByJob'
  <2> SUFFICES ASSUME NEW id \in DOMAIN documents
               PROVE  LET j == documents[id].journal IN
                      /\ id = <<j.room_id, j.doc_id>>
                      /\ j.ct \in DOMAIN seals' \cup {OwnKey}
                      /\ j.ct \in DOMAIN seals' =>
                            seals'[j.ct].answered /\ j = JobJournal(j.ct)'
    BY <1>1 DEF SealedByJob
  <2> DEFINE k == documents[id].journal.ct
  <2>1. k \in DOMAIN seals \cup {OwnKey}
    BY DEF SealInv, SealedByJob
  <2>2. k # Len(seals) + 1
    <3>1. Len(seals) \in Nat /\ DOMAIN seals = 1..Len(seals)
      BY <1>2
    <3> QED BY <1>1, <2>1, <3>1, SealedAssumption DEF OwnKey
  <2>3. k \in DOMAIN seals' => k \in DOMAIN seals /\ seals'[k] = seals[k]
    BY <1>3, <2>2
  <2>4. seals'[k] = seals[k] => JobJournal(k)' = JobJournal(k)
    BY <1>1 DEF JobJournal, Blob
  <2>5. k \in DOMAIN seals' \cup {OwnKey}
    BY <1>3, <2>1
  <2> QED BY <1>1, <2>3, <2>4, <2>5 DEF SealInv, SealedByJob
<1> QED BY <1>4, <1>5, <1>6 DEF SealInv

\* The blob is stored, and the answer sent.
LEMMA StoreStep ==
    ASSUME SealInv, NEW n \in DOMAIN seals, StoreBlob(n) \/ AnswerSeal(n)
    PROVE  SealInv'
<1>1. CASE StoreBlob(n)
  BY <1>1 DEF StoreBlob, SealInv, SealsOK, SealsStored, SealedByJob, Blob,
              JobJournal, recordVars
<1>2. CASE AnswerSeal(n)
  <2>1. /\ seals' = [seals EXCEPT ![n].answered = TRUE] /\ Blob(n) \in blobs
        /\ blobs' = blobs /\ documents' = documents
    BY <1>2 DEF AnswerSeal, recordVars
  <2>2. seals \in Seq(Seal)
    BY DEF SealInv, SealsOK
  <2>3. seals[n] \in Seal
    BY <2>2
  <2>4. [seals[n] EXCEPT !.answered = TRUE] \in Seal
    BY <2>3 DEF Seal
  <2>5. seals' \in Seq(Seal) /\ Len(seals') = Len(seals)
        /\ DOMAIN seals' = DOMAIN seals
    BY <2>1, <2>2, <2>4
  <2>6. \A m \in DOMAIN seals :
           /\ seals'[m].room = seals[m].room /\ seals'[m].doc = seals[m].doc
           /\ seals'[m].reader = seals[m].reader
           /\ seals'[m].plain = seals[m].plain /\ seals'[m].from = seals[m].from
           /\ seals[m].answered => seals'[m].answered
           /\ seals'[m].answered => m = n \/ seals[m].answered
    <3>1. \A m \in DOMAIN seals : seals[m] \in Seal
      BY <2>2
    <3> QED BY <2>1, <3>1 DEF Seal
  <2>7. \A m \in DOMAIN seals : Blob(m)' = Blob(m) /\ JobJournal(m)' = JobJournal(m)
    BY <2>6 DEF Blob, JobJournal
  <2>8. SealsStored'
    BY <2>1, <2>5, <2>6, <2>7 DEF SealInv, SealsStored
  <2>9. SealedByJob'
    BY <2>1, <2>5, <2>6, <2>7 DEF SealInv, SealedByJob
  <2> QED BY <2>5, <2>8, <2>9 DEF SealInv, SealsOK
<1> QED BY <1>1, <1>2

\* A document is anchored: a request's, once it is answered, or an own one.
LEMMA PutStep ==
    ASSUME SealInv, NEW j, put_document(j),
           \/ j \in OwnJournals
           \/ \E n \in DOMAIN seals : seals[n].answered /\ j = JobJournal(n)
    PROVE  SealInv'
<1> DEFINE new == <<j.room_id, j.doc_id>>
<1>1. /\ seals' = seals /\ blobs' = blobs
      /\ DOMAIN documents' = DOMAIN documents \cup {new}
      /\ \A id \in DOMAIN documents \ {new} : documents'[id] = documents[id]
      /\ documents'[new].journal = j
  BY DEF put_document, Put, sealVars
<1>2. /\ j.ct \in DOMAIN seals \cup {OwnKey}
      /\ j.ct \in DOMAIN seals => seals[j.ct].answered /\ j = JobJournal(j.ct)
  <2>1. CASE j \in OwnJournals
    <3>1. j.ct = OwnKey
      BY <2>1 DEF OwnJournals, SealJournal
    <3>2. OwnKey \notin DOMAIN seals
      BY SealedAssumption DEF OwnKey, SealInv, SealsOK
    <3> QED BY <3>1, <3>2
  <2>2. ASSUME NEW n \in DOMAIN seals, seals[n].answered, j = JobJournal(n)
        PROVE  j.ct = n
    BY <2>2 DEF JobJournal, SealJournal
  <2> QED BY <2>1, <2>2
<1>3. SealedByJob'
  BY <1>1, <1>2 DEF SealInv, SealedByJob, JobJournal, Blob
<1> QED BY <1>1, <1>3 DEF SealInv, SealsOK, SealsStored, Blob

LEMMA SealStep == SealInv /\ [Next]_vars => SealInv'
<1> SUFFICES ASSUME SealInv, [Next]_vars PROVE SealInv'
  OBVIOUS
<1>1. CASE UNCHANGED <<documents, seals, blobs>>
  BY <1>1 DEF SealInv, SealsOK, SealsStored, SealedByJob, Blob, JobJournal
<1>2. CASE UNCHANGED sealedVars
  BY <1>1, <1>2 DEF sealedVars, recordVars, sealVars
<1>3. ASSUME NEW r \in Rooms, NEW d \in Docs, NEW x \in Readers,
             NEW c \in Contents, prove_seal(r, d, x, c)
      PROVE  SealInv'
  BY <1>3, ProveSealStep DEF Plaintexts, prove_seal
<1>4. ASSUME NEW r \in Rooms, NEW d \in Docs, NEW x \in Readers,
             NEW v \in Disclosures, disclose_prove(r, d, x, v)
      PROVE  SealInv'
  BY <1>4, ProveSealStep DEF Plaintexts, disclose_prove
<1>5. ASSUME NEW n \in DOMAIN seals,
             StoreBlob(n) \/ AnswerSeal(n) \/ SubmitDocument(n)
      PROVE  SealInv'
  BY <1>5, StoreStep, PutStep DEF SubmitDocument
<1>6. ASSUME NEW j \in OwnJournals, put_document(j)
      PROVE  SealInv'
  BY <1>6, PutStep
<1>7. CASE RoomCall
  <2>1. ASSUME NEW r \in Rooms, create_room(r)
        PROVE  UNCHANGED <<documents, seals, blobs>>
    BY <2>1 DEF create_room, recordVars, sealVars
  <2>2. ASSUME NEW p, NEW r, NEW d,
               attest_document_fact(p) \/ attest_teaser(p, r, d)
        PROVE  UNCHANGED <<documents, seals, blobs>>
    BY <2>2 DEF attest_document_fact, attest_teaser, sealVars
  <2>3. ASSUME NEW k, NEW on,
               \/ pin_image(k)
               \/ set_docauth_issuer(k, on)
               \/ set_teaser_attester(k, on)
        PROVE  UNCHANGED <<documents, seals, blobs>>
    BY <2>3 DEF pin_image, set_docauth_issuer, set_teaser_attester, recordVars,
                sealVars
  <2> QED BY <1>1, <1>3, <1>4, <1>5, <1>6, <1>7, <2>1, <2>2, <2>3 DEF RoomCall
<1> QED BY <1>2, <1>7, RoomSteps

(***************************************************************************)
(* A document that the backend sealed opens for its reader, and only for   *)
(* its reader, as what was given, for any number of requests, readers and  *)
(* seals of other provers.                                                 *)
(***************************************************************************)
THEOREM SealedAlwaysOpens == Spec => []SealedOpens
<1>1. Init => SealInv
  <2> SUFFICES ASSUME Init PROVE SealInv
    OBVIOUS
  <2>1. seals = << >> /\ documents = Empty
    BY DEF Init, SealedInit
  <2> QED BY <2>1, SealedAssumption
          DEF Empty, SealInv, SealsOK, SealsStored, SealedByJob
<1>2. SealInv => SealedOpens
  <2> SUFFICES ASSUME SealInv, NEW id \in DOMAIN documents,
                      documents[id].journal.ct \in DOMAIN seals
               PROVE  LET n == documents[id].journal.ct IN
                      /\ id = <<seals[n].room, seals[n].doc>>
                      /\ \A x \in Readers : Open(id[1], id[2], x) =
                             IF x = seals[n].reader THEN seals[n].plain ELSE Refused
                      /\ \A v \in seals[n].from, f \in DOMAIN seals[n].plain :
                             seals[n].plain[f].shown = "all" => MayShow(v, f)
    BY DEF SealedOpens
  <2> DEFINE n == documents[id].journal.ct
             j == documents[id].journal
  <2>1. /\ j = JobJournal(n) /\ Blob(n) \in blobs
        /\ id = <<j.room_id, j.doc_id>>
    BY DEF SealInv, SealedByJob, SealsStored
  <2>2. /\ j.room_id = seals[n].room /\ j.doc_id = seals[n].doc
        /\ j.recipient_pub = seals[n].reader /\ j.content_hash = Blob(n)
        /\ j.tag = <<n, Blob(n), j.room_id, j.doc_id>>
    BY <2>1 DEF JobJournal, SealJournal, Tag
  <2>3. id = <<seals[n].room, seals[n].doc>> /\ documents[<<id[1], id[2]>>] = documents[id]
    BY <2>1, <2>2
  <2>4. n # Garbled
    BY DEF Garbled, SealInv, SealsOK
  <2>5. Blob(n).key = n /\ Blob(n).plain = seals[n].plain
    BY DEF Blob
  <2>6. ASSUME NEW x \in Readers
        PROVE  Open(id[1], id[2], x) =
                  IF x = seals[n].reader THEN seals[n].plain ELSE Refused
    <3> HIDE DEF n, j
    <3>1. CASE x = seals[n].reader
      BY <2>1, <2>2, <2>3, <2>5, <3>1 DEF Open, Recovered, Tag, n, j
    <3>2. CASE x # seals[n].reader
      <4>1. Recovered(j, x) = Garbled
        BY <2>2, <3>2 DEF Recovered
      <4>2. j.content_hash.key # Garbled
        BY <2>2, <2>4, <2>5
      <4> QED BY <2>3, <3>2, <4>1, <4>2 DEF Open, j
    <3> QED BY <3>1, <3>2
  <2>7. ASSUME NEW v \in seals[n].from, NEW f \in DOMAIN seals[n].plain,
               seals[n].plain[f].shown = "all"
        PROVE  MayShow(v, f)
    <3>1. seals[n] \in Seal
      BY DEF SealInv, SealsOK
    <3>2. v \in Disclosures
      BY <3>1 DEF Seal
    <3>3. seals[n].plain = redact(v.doc, v.policy)
      BY DEF SealInv, SealsStored
    <3> QED BY <2>7, <3>2, <3>3, RedactHides
  <2> QED BY <2>3, <2>6, <2>7
<1> QED BY <1>1, <1>2, SealStep, PTL DEF Spec

===============================================================================
