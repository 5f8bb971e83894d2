---------------------------- MODULE SubmissionProofs ----------------------------
(***************************************************************************)
(* Proofs about the submission of bond proofs, for any work, clients,      *)
(* attempts and faults.                                                    *)
(*                                                                         *)
(* The argument: a grant is recorded under the accessor its proof names    *)
(* and is never removed, so a task that saw one stays right (GrantsStay).  *)
(* Each attempt of a task that ends without one leaves a mark: the gate's  *)
(* reason, a fault, or a grant that only an unread answer hides (TaskOK).  *)
(***************************************************************************)
EXTENDS BondSubmission, SequenceTheorems, TLAPS
USE BondGateAssumption, SubmissionAssumption, MaxJobsAssumption, MaxTimeAssumption

-------------------------------------------------------------------------------
(* The invariant. *)

Task == [stage: Live \cup {"landed", "gave_up", "prove_failed", "timed_out"},
         attempt: Nat, faulted: Nat, refused: SUBSET {"evicted", "spent", "expired"}]

SubmissionTypeOK ==
    /\ now \in Nat
    /\ view \in Seq(Views) /\ Len(view) =< MaxJobs
    /\ asked \in Seq(Work) /\ Len(asked) = Len(view)
    /\ tasks \in [Ids -> Task \cup {None}]
    /\ txs \subseteq [job: DOMAIN asked, attempt: Nat]

Caused(t, p) == t.refused # {} \/ now >= p.req.deadline

\* What the record of a task says of the proof it is for.
TaskOK(t, p) ==
    /\ t.stage = "landed" => Granted(p)
    /\ t.stage = "gave_up" => Caused(t, p) \/ t.faulted >= Attempts
    /\ t.stage \in Live => Caused(t, p) \/ t.faulted >= t.attempt
    /\ t.stage = "rechecking" =>
          Caused(t, p) \/ t.faulted >= t.attempt + 1 \/ Granted(p)

TasksOK ==
    \A j \in Ids : tasks[j] # None => j \in DOMAIN asked /\ TaskOK(tasks[j], asked[j])

SubmissionInv == SubmissionTypeOK /\ TasksOK

LEMMA WorkShape ==
    ASSUME NEW p \in Work
    PROVE  /\ p \in Proofs /\ p.req \in Reqs /\ p.req.deadline \in Nat
           /\ p.claim_type \in {"bond", "bond-open"}
<1>1. p \in Proofs
  OBVIOUS
<1>2. p.req \in Reqs /\ p.claim_type \in {"bond", "bond-open"}
  BY <1>1 DEF Proofs, BondProofs, BondOpenProofs
<1> QED BY <1>1, <1>2

-------------------------------------------------------------------------------
(* What every step leaves standing. *)

\* Grants and time only grow, and a job's proof stays what it was.
GrantsStay ==
    /\ DOMAIN grants \subseteq DOMAIN grants'
    /\ DOMAIN open_grants \subseteq DOMAIN open_grants'
    /\ now' \in Nat /\ now =< now'

LEMMA SubmitGrants ==
    ASSUME NEW p, Submit(p)
    PROVE  /\ Granted(p)'
           /\ DOMAIN grants \subseteq DOMAIN grants'
           /\ DOMAIN open_grants \subseteq DOMAIN open_grants'
BY DEF Submit, submit_bond_proof, submit_bond_open_proof, Granted, Put,
       openVars, membershipVars

LEMMA GateStays ==
    ASSUME now \in Nat, UNCHANGED now,
           \/ UNCHANGED gateVars
           \/ \E p : Submit(p)
           \/ \E req, root : set_qual_root(req, root)
           \/ \E image : initialize(image) \/ set_open_image_id(image)
    PROVE  GrantsStay
BY SubmitGrants
   DEF GrantsStay, gateVars, membershipVars, openVars, set_qual_root, initialize,
       set_open_image_id

\* A record that is not touched stays right.
LEMMA TaskStays ==
    ASSUME now \in Nat, GrantsStay, NEW t \in Task, NEW p \in Work, TaskOK(t, p)
    PROVE  TaskOK(t, p)'
<1>1. Granted(p) => Granted(p)'
  BY DEF GrantsStay, Granted
<1>2. p.req.deadline \in Nat
  BY WorkShape
<1>3. Caused(t, p) => Caused(t, p)'
  BY <1>2 DEF Caused, GrantsStay
<1> QED BY <1>1, <1>3 DEF TaskOK

LEMMA TasksStay ==
    ASSUME SubmissionInv, GrantsStay, UNCHANGED <<asked, tasks>>
    PROVE  TasksOK'
<1> SUFFICES ASSUME NEW j \in Ids, tasks[j] # None
             PROVE  (j \in DOMAIN asked /\ TaskOK(tasks[j], asked[j]))'
  BY DEF TasksOK
<1>1. tasks[j] \in Task /\ j \in DOMAIN asked /\ asked[j] \in Work
      /\ TaskOK(tasks[j], asked[j])
  BY DEF SubmissionInv, SubmissionTypeOK, TasksOK
<1>2. TaskOK(tasks[j], asked[j])'
  <2> DEFINE t == tasks[j]
             p == asked[j]
  <2>1. t' = t /\ p' = p /\ t \in Task /\ p \in Work /\ TaskOK(t, p) /\ now \in Nat
    BY <1>1 DEF SubmissionInv, SubmissionTypeOK
  <2> HIDE DEF t, p
  <2>2. \A u \in Task, q \in Work : TaskOK(u, q) => TaskOK(u, q)'
    BY <2>1, TaskStays
  <2> QED BY <1>1, <2>2
<1> QED BY <1>1, <1>2

\* One task's record is replaced by one that is right.
LEMMA OneTask ==
    ASSUME SubmissionInv, GrantsStay, UNCHANGED <<asked, view>>,
           txs' \subseteq [job: DOMAIN asked, attempt: Nat],
           NEW j \in Ids, j \in DOMAIN asked, NEW t \in Task,
           tasks' = [tasks EXCEPT ![j] = t], TaskOK(t, asked[j])'
    PROVE  SubmissionInv'
<1>1. SubmissionTypeOK'
  BY DEF SubmissionInv, SubmissionTypeOK, GrantsStay
<1>2. ASSUME NEW i \in Ids, tasks'[i] # None
      PROVE  i \in DOMAIN asked' /\ TaskOK(tasks[i], asked[i])'
  <2>1. CASE i = j
    <3>1. tasks'[i] = t /\ asked'[i] = asked'[j]
      BY <2>1 DEF SubmissionInv, SubmissionTypeOK
    <3> QED BY <2>1, <3>1
  <2>2. CASE i # j
    <3>1. tasks'[i] = tasks[i] /\ asked'[i] = asked[i]
      BY <2>2 DEF SubmissionInv, SubmissionTypeOK
    <3>2. tasks[i] \in Task /\ i \in DOMAIN asked /\ asked[i] \in Work
          /\ TaskOK(tasks[i], asked[i]) /\ now \in Nat
      BY <1>2, <3>1 DEF SubmissionInv, SubmissionTypeOK, TasksOK
    <3>3. \A u \in Task, q \in Work : TaskOK(u, q) => TaskOK(u, q)'
      BY <3>2, TaskStays
    <3> QED BY <3>1, <3>2, <3>3
  <2> QED BY <2>1, <2>2
<1> QED BY <1>1, <1>2 DEF SubmissionInv, TasksOK

\* A task's record, and what is known of it.
LEMMA TaskShape ==
    ASSUME SubmissionInv, NEW j \in Ids, tasks[j] # None
    PROVE  /\ tasks[j] \in Task /\ j \in DOMAIN asked /\ asked[j] \in Work
           /\ TaskOK(tasks[j], asked[j])
BY DEF SubmissionInv, SubmissionTypeOK, TasksOK

-------------------------------------------------------------------------------
(* The tasks' steps. *)

\* A task goes to another stage, its counts and reasons as they are.
LEMMA GoesStep ==
    ASSUME SubmissionInv, GrantsStay, UNCHANGED <<asked, view>>,
           txs' \subseteq [job: DOMAIN asked, attempt: Nat],
           NEW j \in Ids, tasks[j] # None, tasks[j].stage \in Live,
           NEW stage \in {"checking", "ready", "sent", "landed", "prove_failed",
                          "timed_out"},
           stage = "landed" => Granted(asked[j])',
           Goes(j, stage)
    PROVE  SubmissionInv'
<1>1. /\ tasks[j] \in Task /\ j \in DOMAIN asked /\ asked[j] \in Work
      /\ TaskOK(tasks[j], asked[j])
  BY TaskShape
<1>2. PICK t \in Task :
        /\ t = [tasks[j] EXCEPT !.stage = stage]
        /\ t.stage = stage /\ t.attempt = tasks[j].attempt
        /\ t.faulted = tasks[j].faulted /\ t.refused = tasks[j].refused
  <2> DEFINE u == [tasks[j] EXCEPT !.stage = stage]
  <2>1. u \in Task
    BY <1>1 DEF Task, Live
  <2>2. /\ u.stage = stage /\ u.attempt = tasks[j].attempt
        /\ u.faulted = tasks[j].faulted /\ u.refused = tasks[j].refused
    BY <1>1 DEF Task
  <2> HIDE DEF u
  <2>3. u = [tasks[j] EXCEPT !.stage = stage]
    BY DEF u
  <2> QED BY <2>1, <2>2, <2>3
<1>3. tasks' = [tasks EXCEPT ![j] = t]
  BY <1>2 DEF Goes
<1>4. /\ Caused(tasks[j], asked[j]) \/ t.faulted >= t.attempt
      /\ Caused(tasks[j], asked[j]) <=> Caused(t, asked[j])
  BY <1>1, <1>2 DEF TaskOK, Caused
<1>5. Caused(t, asked[j]) => Caused(t, asked[j])'
  <2>1. asked[j].req.deadline \in Nat /\ now \in Nat
    BY <1>1, WorkShape DEF SubmissionInv, SubmissionTypeOK
  <2> QED BY <2>1 DEF Caused, GrantsStay
<1>6. TaskOK(t, asked[j])'
  BY <1>2, <1>4, <1>5 DEF TaskOK
<1> QED BY <1>1, <1>2, <1>3, <1>6, OneTask

LEMMA NoChain ==
    ASSUME SubmissionInv, UNCHANGED chainVars
    PROVE  GrantsStay
BY GateStays DEF SubmissionInv, SubmissionTypeOK, chainVars

\* An attempt ends: with a fault, or refused.
LEMMA SpoiledStep ==
    ASSUME SubmissionInv, UNCHANGED <<chainVars, jobVars>>,
           txs' \subseteq [job: DOMAIN asked, attempt: Nat],
           NEW j \in Ids, tasks[j] # None, tasks[j].stage \in Live, Spoiled(j)
    PROVE  SubmissionInv'
<1>1. /\ tasks[j] \in Task /\ j \in DOMAIN asked /\ asked[j] \in Work
      /\ TaskOK(tasks[j], asked[j])
  BY TaskShape
<1>2. PICK t \in Task :
        /\ t = [tasks[j] EXCEPT !.stage = "rechecking",
                          !.faulted = tasks[j].faulted + 1]
        /\ t.stage = "rechecking" /\ t.attempt = tasks[j].attempt
        /\ t.faulted = tasks[j].faulted + 1 /\ t.refused = tasks[j].refused
  <2> DEFINE u == [tasks[j] EXCEPT !.stage = "rechecking",
                          !.faulted = tasks[j].faulted + 1]
  <2>1. u \in Task
    <3>1. tasks[j].faulted + 1 \in Nat
      BY <1>1 DEF Task
    <3> QED BY <1>1, <3>1 DEF Task, Live
  <2>2. /\ u.stage = "rechecking" /\ u.attempt = tasks[j].attempt
        /\ u.faulted = tasks[j].faulted + 1 /\ u.refused = tasks[j].refused
    BY <1>1 DEF Task
  <2> HIDE DEF u
  <2>3. u = [tasks[j] EXCEPT !.stage = "rechecking",
                          !.faulted = tasks[j].faulted + 1]
    BY DEF u
  <2> QED BY <2>1, <2>2, <2>3
<1>3. tasks' = [tasks EXCEPT ![j] = t]
  BY <1>2 DEF Spoiled
<1>4. GrantsStay /\ UNCHANGED <<now, asked, view>>
  BY NoChain DEF chainVars, jobVars
<1>5. Caused(t, asked[j])' \/ tasks[j].faulted >= tasks[j].attempt
  BY <1>1, <1>2, <1>4 DEF TaskOK, Caused
<1>6. TaskOK(t, asked[j])'
  <2>1. tasks[j].faulted \in Nat /\ tasks[j].attempt \in Nat
    BY <1>1 DEF Task
  <2> QED BY <1>2, <1>5, <2>1 DEF TaskOK
<1> QED BY <1>1, <1>2, <1>3, <1>4, <1>6, OneTask

\* The gate had a reason, or the grant is there.
LEMMA RefusedStep ==
    ASSUME SubmissionInv, UNCHANGED <<chainVars, jobVars>>,
           txs' \subseteq [job: DOMAIN asked, attempt: Nat],
           NEW j \in Ids, tasks[j] # None, tasks[j].stage \in Live,
           ~Accepts(asked[j]), Refused(j)
    PROVE  SubmissionInv'
<1>1. /\ tasks[j] \in Task /\ j \in DOMAIN asked /\ asked[j] \in Work
      /\ TaskOK(tasks[j], asked[j])
  BY TaskShape
<1>2. PICK t \in Task :
        /\ t = [tasks[j] EXCEPT !.stage = "rechecking",
                          !.refused = tasks[j].refused \cup Refusals(asked[j])]
        /\ t.stage = "rechecking" /\ t.attempt = tasks[j].attempt
        /\ t.faulted = tasks[j].faulted
        /\ t.refused = tasks[j].refused \cup Refusals(asked[j])
  <2> DEFINE u == [tasks[j] EXCEPT !.stage = "rechecking",
                          !.refused = tasks[j].refused \cup Refusals(asked[j])]
  <2>1. u \in Task
    BY <1>1 DEF Task, Live, Refusals
  <2>2. /\ u.stage = "rechecking" /\ u.attempt = tasks[j].attempt
        /\ u.faulted = tasks[j].faulted
        /\ u.refused = tasks[j].refused \cup Refusals(asked[j])
    BY <1>1 DEF Task
  <2> HIDE DEF u
  <2>3. u = [tasks[j] EXCEPT !.stage = "rechecking",
                          !.refused = tasks[j].refused \cup Refusals(asked[j])]
    BY DEF u
  <2> QED BY <2>1, <2>2, <2>3
<1>3. tasks' = [tasks EXCEPT ![j] = t]
  BY <1>2 DEF Refused
<1>4. GrantsStay /\ UNCHANGED <<now, asked, view>>
  BY NoChain DEF chainVars, jobVars
<1>5. Refusals(asked[j]) # {} \/ Granted(asked[j])
  <2>1. now \in Nat /\ asked[j].req.deadline \in Nat
    BY <1>1, WorkShape DEF SubmissionInv, SubmissionTypeOK
  <2>2. \/ "evicted" \in Refusals(asked[j])
        \/ "spent" \in Refusals(asked[j])
        \/ "expired" \in Refusals(asked[j])
        \/ Granted(asked[j])
    BY <2>1 DEF Accepts, Refusals
  <2> QED BY <2>2
<1>6. Granted(asked[j]) => Granted(asked[j])'
  BY <1>4 DEF Granted, GrantsStay
<1>7. t.refused # {} \/ Granted(asked[j])'
  BY <1>2, <1>5, <1>6
<1>8. Caused(t, asked[j])' \/ tasks[j].faulted >= tasks[j].attempt
  BY <1>1, <1>2, <1>4 DEF TaskOK, Caused
<1>9. TaskOK(t, asked[j])'
  BY <1>2, <1>7, <1>8 DEF TaskOK, Caused
<1> QED BY <1>1, <1>2, <1>3, <1>4, <1>9, OneTask

\* Another attempt, or none is left: the one that ends left its mark.
LEMMA NextAttemptStep ==
    ASSUME SubmissionInv, UNCHANGED <<chainVars, jobVars, txs>>,
           NEW j \in Ids, tasks[j] # None, tasks[j].stage = "rechecking",
           NEW n \in Nat, n >= tasks[j].faulted,
           \/ n = tasks[j].faulted /\ ~IsGranted(asked[j])
           \/ n = tasks[j].faulted + 1,
           NextAttempt(j, n)
    PROVE  SubmissionInv'
<1>1. /\ tasks[j] \in Task /\ j \in DOMAIN asked /\ asked[j] \in Work
      /\ TaskOK(tasks[j], asked[j])
  BY TaskShape
<1> DEFINE u == [tasks[j] EXCEPT
                   !.stage = IF LastAttempt(j) THEN "gave_up" ELSE "ready",
                   !.attempt = tasks[j].attempt + 1,
                   !.faulted = n]
<1>2. PICK t \in Task :
        /\ tasks' = [tasks EXCEPT ![j] = t]
        /\ t.stage = IF LastAttempt(j) THEN "gave_up" ELSE "ready"
        /\ t.attempt = tasks[j].attempt + 1 /\ t.faulted = n
        /\ t.refused = tasks[j].refused
  <2>1. tasks[j].attempt + 1 \in Nat
    BY <1>1 DEF Task
  <2>2. u \in Task
    BY <1>1, <2>1 DEF Task, Live
  <2>3. /\ u.stage = IF LastAttempt(j) THEN "gave_up" ELSE "ready"
        /\ u.attempt = tasks[j].attempt + 1 /\ u.faulted = n
        /\ u.refused = tasks[j].refused
    BY <1>1 DEF Task
  <2>4. tasks' = [tasks EXCEPT ![j] = u]
    BY DEF NextAttempt
  <2> HIDE DEF u
  <2> QED BY <2>2, <2>3, <2>4
<1>3. GrantsStay /\ UNCHANGED <<now, asked, view>>
  BY NoChain DEF chainVars, jobVars
<1>4. /\ now \in Nat /\ asked[j].req.deadline \in Nat /\ Attempts \in Nat
      /\ tasks[j].attempt \in Nat /\ tasks[j].faulted \in Nat
  BY <1>1, WorkShape DEF SubmissionInv, SubmissionTypeOK, Task
<1>5. Caused(tasks[j], asked[j]) \/ n >= tasks[j].attempt + 1
  <2>1. \/ Caused(tasks[j], asked[j])
        \/ tasks[j].faulted >= tasks[j].attempt + 1
        \/ Granted(asked[j]) /\ tasks[j].faulted >= tasks[j].attempt
    BY <1>1 DEF TaskOK, Live
  <2>2. CASE tasks[j].faulted >= tasks[j].attempt + 1
    BY <1>4, <2>2
  <2>3. CASE Granted(asked[j]) /\ tasks[j].faulted >= tasks[j].attempt
    <3>1. CASE n = tasks[j].faulted + 1
      BY <1>4, <2>3, <3>1
    <3>2. CASE ~IsGranted(asked[j])
      BY <1>4, <2>3, <3>2 DEF IsGranted, Caused
    <3> QED BY <3>1, <3>2
  <2> QED BY <2>1, <2>2, <2>3
<1>6. Caused(t, asked[j])' \/ n >= tasks[j].attempt + 1
  BY <1>2, <1>3, <1>5 DEF Caused
<1>7. TaskOK(t, asked[j])'
  <2>1. CASE LastAttempt(j)
    <3>1. t.stage = "gave_up" /\ tasks[j].attempt + 1 = Attempts
      BY <1>2, <2>1 DEF LastAttempt
    <3> QED BY <1>2, <1>6, <3>1 DEF TaskOK, Live
  <2>2. CASE ~LastAttempt(j)
    <3>1. t.stage = "ready"
      BY <1>2, <2>2
    <3> QED BY <1>2, <1>6, <3>1 DEF TaskOK, Live
  <2> QED BY <2>1, <2>2
<1>8. txs' \subseteq [job: DOMAIN asked, attempt: Nat]
  BY DEF SubmissionInv, SubmissionTypeOK
<1> QED BY <1>1, <1>2, <1>3, <1>7, <1>8, OneTask

LEMMA PollStep ==
    ASSUME SubmissionInv, NEW j \in Ids, PollDone(j) \/ PollError(j) \/ PollEnds(j)
    PROVE  SubmissionInv'
<1>1. /\ tasks[j] # None /\ tasks[j].stage \in Live
      /\ Goes(j, "checking") \/ Goes(j, "prove_failed") \/ Goes(j, "timed_out")
      /\ UNCHANGED <<chainVars, jobVars, txs>>
  BY DEF PollDone, PollError, PollEnds, TimesOut, In, Live
<1>2. GrantsStay /\ UNCHANGED <<asked, view>>
  BY <1>1, NoChain DEF jobVars
<1>3. txs' \subseteq [job: DOMAIN asked, attempt: Nat]
  BY <1>1 DEF SubmissionInv, SubmissionTypeOK
<1> QED BY <1>1, <1>2, <1>3, GoesStep

LEMMA CheckStep ==
    ASSUME SubmissionInv, NEW j \in Ids, Check(j)
    PROVE  SubmissionInv'
<1>1. /\ tasks[j] # None /\ tasks[j].stage \in Live
      /\ (IsGranted(asked[j]) /\ Goes(j, "landed")) \/ Goes(j, "ready")
      /\ UNCHANGED <<chainVars, jobVars, txs>>
  BY DEF Check, In, Live
<1>2. GrantsStay /\ UNCHANGED <<asked, view>>
  BY <1>1, NoChain DEF jobVars
<1>3. IsGranted(asked[j]) => Granted(asked[j])'
  BY <1>2 DEF IsGranted, Granted, GrantsStay
<1>4. txs' \subseteq [job: DOMAIN asked, attempt: Nat]
  BY <1>1 DEF SubmissionInv, SubmissionTypeOK
<1> QED BY <1>1, <1>2, <1>3, <1>4, GoesStep

LEMMA SendStep ==
    ASSUME SubmissionInv, NEW j \in Ids, Send(j)
    PROVE  SubmissionInv'
<1>1. /\ tasks[j] # None /\ tasks[j].stage \in Live
      /\ UNCHANGED <<chainVars, jobVars>>
  BY DEF Send, In, Live
<1>2. GrantsStay /\ UNCHANGED <<asked, view>>
  BY <1>1, NoChain DEF jobVars
<1>3. /\ j \in DOMAIN asked /\ tasks[j].attempt \in Nat
      /\ txs \subseteq [job: DOMAIN asked, attempt: Nat]
  BY <1>1, TaskShape DEF SubmissionInv, SubmissionTypeOK, Task
<1>4. CASE txs' = txs \cup {[job |-> j, attempt |-> tasks[j].attempt]} /\ Goes(j, "sent")
  <2>1. txs' \subseteq [job: DOMAIN asked, attempt: Nat]
    BY <1>3, <1>4
  <2> QED BY <1>1, <1>2, <1>4, <2>1, GoesStep
<1>5. CASE UNCHANGED txs /\ ~Accepts(asked[j]) /\ Refused(j)
  BY <1>1, <1>3, <1>5, RefusedStep
<1>6. CASE UNCHANGED txs /\ Spoiled(j)
  BY <1>1, <1>3, <1>6, SpoiledStep
<1> QED BY <1>4, <1>5, <1>6 DEF Send

LEMMA NotFoundStep ==
    ASSUME SubmissionInv, NEW j \in Ids, NotFound(j)
    PROVE  SubmissionInv'
<1>1. /\ tasks[j] # None /\ tasks[j].stage \in Live
      /\ txs' \subseteq txs /\ Spoiled(j)
      /\ UNCHANGED <<chainVars, jobVars>>
  BY DEF NotFound, In, Live
<1>2. txs' \subseteq [job: DOMAIN asked, attempt: Nat]
  BY <1>1 DEF SubmissionInv, SubmissionTypeOK
<1> QED BY <1>1, <1>2, SpoiledStep

LEMMA RecheckStep ==
    ASSUME SubmissionInv, NEW j \in Ids, Recheck(j)
    PROVE  SubmissionInv'
<1>1. /\ tasks[j] # None /\ tasks[j].stage = "rechecking"
      /\ UNCHANGED <<chainVars, jobVars, txs>>
  BY DEF Recheck, In
<1>2. tasks[j].faulted \in Nat
  BY <1>1, TaskShape DEF Task
<1>3. CASE IsGranted(asked[j]) /\ Goes(j, "landed")
  <2>1. GrantsStay /\ UNCHANGED <<asked, view>>
    BY <1>1, NoChain DEF jobVars
  <2>2. Granted(asked[j])'
    BY <1>3, <2>1 DEF IsGranted, Granted, GrantsStay
  <2>3. txs' \subseteq [job: DOMAIN asked, attempt: Nat]
    BY <1>1 DEF SubmissionInv, SubmissionTypeOK
  <2> QED BY <1>1, <1>3, <2>1, <2>2, <2>3, GoesStep DEF Live
<1>4. CASE ~IsGranted(asked[j]) /\ NextAttempt(j, tasks[j].faulted)
  BY <1>1, <1>2, <1>4, NextAttemptStep
<1>5. CASE NextAttempt(j, tasks[j].faulted + 1)
  BY <1>1, <1>2, <1>5, NextAttemptStep
<1> QED BY <1>3, <1>4, <1>5 DEF Recheck, Landed

-------------------------------------------------------------------------------
(* The other steps. *)

\* Nothing is asked or tried; the gate may be called.
LEMMA TasksAlone ==
    ASSUME SubmissionInv, GrantsStay, UNCHANGED <<asked, view, tasks>>,
           txs' \subseteq [job: DOMAIN asked, attempt: Nat]
    PROVE  SubmissionInv'
<1>1. SubmissionTypeOK'
  BY DEF SubmissionInv, SubmissionTypeOK, GrantsStay
<1> QED BY <1>1, TasksStay DEF SubmissionInv

LEMMA GateStep ==
    ASSUME SubmissionInv, UNCHANGED <<now, jobVars, tasks>>, txs' \subseteq txs,
           \/ UNCHANGED gateVars
           \/ \E p : Submit(p)
           \/ \E req, root : set_qual_root(req, root)
           \/ \E image : initialize(image) \/ set_open_image_id(image)
    PROVE  SubmissionInv'
<1>1. GrantsStay
  BY GateStays DEF SubmissionInv, SubmissionTypeOK
<1>2. txs' \subseteq [job: DOMAIN asked, attempt: Nat] /\ UNCHANGED <<asked, view, tasks>>
  BY DEF SubmissionInv, SubmissionTypeOK, jobVars
<1> QED BY <1>1, <1>2, TasksAlone

LEMMA TickStep ==
    ASSUME SubmissionInv, Tick, UNCHANGED <<gateVars, jobVars, backendVars>>
    PROVE  SubmissionInv'
<1>1. GrantsStay
  BY DEF Tick, GrantsStay, SubmissionInv, SubmissionTypeOK, gateVars, membershipVars,
         openVars
<1>2. txs' \subseteq [job: DOMAIN asked, attempt: Nat] /\ UNCHANGED <<asked, view, tasks>>
  BY DEF SubmissionInv, SubmissionTypeOK, jobVars, backendVars
<1> QED BY <1>1, <1>2, TasksAlone

\* A new job comes last, with a task that has tried nothing.
LEMMA ProveStep ==
    ASSUME SubmissionInv, NEW p \in Work, Prove(p)
    PROVE  SubmissionInv'
<1> DEFINE n == Len(view) + 1
<1>1. /\ Len(view) < MaxJobs /\ view' = Append(view, "open")
      /\ asked' = Append(asked, p)
      /\ tasks' = [tasks EXCEPT ![Len(view')] = NewTask]
      /\ UNCHANGED <<chainVars, txs>>
  BY DEF Prove, Queue
<1>2. /\ view \in Seq(Views) /\ asked \in Seq(Work) /\ Len(asked) = Len(view)
      /\ Len(view) \in Nat /\ "open" \in Views
  BY DEF SubmissionInv, SubmissionTypeOK, Views
<1>3. /\ view' \in Seq(Views) /\ Len(view') = n
      /\ asked' \in Seq(Work) /\ Len(asked') = n
      /\ DOMAIN asked = 1..Len(view) /\ DOMAIN asked' = 1..n
      /\ \A j \in DOMAIN asked : asked'[j] = asked[j]
  BY <1>1, <1>2
<1>4. n \in Ids /\ n =< MaxJobs
  BY <1>1, <1>2 DEF Ids
<1>5. NewTask \in Task /\ NewTask.stage = "polling" /\ NewTask.faulted = 0
      /\ NewTask.attempt = 0
  BY DEF NewTask, Task, Live
<1>6. GrantsStay
  BY <1>1, NoChain
<1>7. SubmissionTypeOK'
  <2>1. tasks' \in [Ids -> Task \cup {None}]
    BY <1>1, <1>3, <1>5 DEF SubmissionInv, SubmissionTypeOK
  <2>2. txs' \subseteq [job: DOMAIN asked', attempt: Nat]
    BY <1>1, <1>2, <1>3 DEF SubmissionInv, SubmissionTypeOK
  <2>3. now' \in Nat
    BY <1>6 DEF GrantsStay
  <2> QED BY <1>3, <1>4, <2>1, <2>2, <2>3 DEF SubmissionTypeOK
<1>8. ASSUME NEW i \in Ids, tasks'[i] # None
      PROVE  i \in DOMAIN asked' /\ TaskOK(tasks[i], asked[i])'
  <2>1. CASE i = n
    <3>1. tasks'[i] = NewTask
      BY <1>1, <1>3, <2>1 DEF SubmissionInv, SubmissionTypeOK
    <3>2. tasks'[i].stage = "polling" /\ tasks'[i].faulted = 0
          /\ tasks'[i].attempt = 0
      BY <1>5, <3>1
    <3> QED BY <1>2, <1>3, <2>1, <3>2 DEF TaskOK
  <2>2. CASE i # n
    <3>1. tasks'[i] = tasks[i]
      BY <1>1, <1>3, <2>2 DEF SubmissionInv, SubmissionTypeOK
    <3>2. tasks[i] \in Task /\ i \in DOMAIN asked /\ asked[i] \in Work
          /\ TaskOK(tasks[i], asked[i]) /\ now \in Nat
      BY <1>8, <3>1 DEF SubmissionInv, SubmissionTypeOK, TasksOK
    <3>3. \A u \in Task, q \in Work : TaskOK(u, q) => TaskOK(u, q)'
      BY <1>6, <3>2, TaskStays
    <3>4. asked'[i] = asked[i] /\ i \in DOMAIN asked'
      BY <1>2, <1>3, <3>2
    <3> QED BY <3>1, <3>2, <3>3, <3>4
  <2> QED BY <2>1, <2>2
<1> QED BY <1>7, <1>8 DEF SubmissionInv, TasksOK

\* Answers to polls change; no job is added.
LEMMA ProverStep ==
    ASSUME SubmissionInv, Prover
    PROVE  SubmissionInv'
<1>1. /\ view \in Seq(Views) /\ Len(view) \in Nat /\ DOMAIN view = 1..Len(view)
  BY DEF SubmissionInv, SubmissionTypeOK
<1>2. DOMAIN view' = DOMAIN view /\ view' = [j \in DOMAIN view |-> view'[j]]
      /\ \A j \in DOMAIN view : view'[j] \in Views
  <2>1. ASSUME NEW j \in DOMAIN view, NEW verdict \in {"done", "error"}, End(j, verdict)
        PROVE  /\ DOMAIN view' = DOMAIN view /\ view' = [k \in DOMAIN view |-> view'[k]]
               /\ \A k \in DOMAIN view : view'[k] \in Views
    <3>1. view' = [view EXCEPT ![j] = verdict] /\ verdict \in Views
      BY <2>1 DEF End, Views
    <3>2. view' = [k \in DOMAIN view |-> IF k = j THEN verdict ELSE view[k]]
      BY <1>1, <3>1
    <3>3. \A k \in DOMAIN view : view[k] \in Views
      BY <1>1
    <3>4. DOMAIN view' = DOMAIN view
      BY <3>2
    <3>5. \A k \in DOMAIN view : view'[k] = IF k = j THEN verdict ELSE view[k]
      BY <3>2
    <3>6. view' = [k \in DOMAIN view |-> view'[k]]
      BY <3>2
    <3> QED BY <3>1, <3>3, <3>4, <3>5, <3>6
  <2>2. ASSUME NEW S, Lose(S)
        PROVE  /\ DOMAIN view' = DOMAIN view /\ view' = [k \in DOMAIN view |-> view'[k]]
               /\ \A k \in DOMAIN view : view'[k] \in Views
    BY <1>1, <2>2 DEF Lose, Views
  <2> QED BY <2>1, <2>2 DEF Prover, JobsStep
<1>3. view' \in Seq(Views) /\ Len(view') = Len(view)
  BY <1>1, <1>2
<1>4. GrantsStay /\ UNCHANGED <<asked, tasks, txs>>
  BY NoChain DEF Prover, backendVars
<1>5. SubmissionTypeOK'
  BY <1>3, <1>4 DEF SubmissionInv, SubmissionTypeOK, GrantsStay
<1> QED BY <1>4, <1>5, TasksStay DEF SubmissionInv

LEMMA RestartStep ==
    ASSUME SubmissionInv, RestartBackend
    PROVE  SubmissionInv'
<1>1. tasks' = [j \in Ids |-> None] /\ UNCHANGED <<chainVars, asked, view, txs>>
  BY DEF RestartBackend, jobVars
<1>2. GrantsStay
  BY <1>1, NoChain
<1>3. SubmissionTypeOK'
  BY <1>1, <1>2 DEF SubmissionInv, SubmissionTypeOK, GrantsStay
<1> QED BY <1>1, <1>3 DEF SubmissionInv, TasksOK

\* A transaction is applied: its task, if it still waits, is told.
LEMMA LandStep ==
    ASSUME SubmissionInv, NEW tx \in txs, Land(tx)
    PROVE  SubmissionInv'
<1> DEFINE j == tx.job
           told == In(j, "sent") /\ tasks[j].attempt = tx.attempt
<1>1. /\ j \in DOMAIN asked /\ j \in Ids /\ asked[j] \in Work
  BY DEF SubmissionInv, SubmissionTypeOK, Ids
<1>2. /\ txs' = {} /\ UNCHANGED <<now, jobVars>>
      /\ \/ /\ Submit(asked[j])
            /\ IF told THEN Goes(j, "landed") ELSE UNCHANGED tasks
         \/ /\ ~Accepts(asked[j]) /\ UNCHANGED gateVars
            /\ IF told THEN Refused(j) ELSE UNCHANGED tasks
  BY DEF Land, Tell
<1>3. CASE UNCHANGED tasks
  BY <1>2, <1>3, GateStep
<1>4. CASE told /\ Submit(asked[j]) /\ Goes(j, "landed")
  <2>1. GrantsStay
    BY <1>2, <1>4, GateStays DEF SubmissionInv, SubmissionTypeOK
  <2>2. Granted(asked[j])'
    <3>1. UNCHANGED asked
      BY <1>2 DEF jobVars
    <3> DEFINE p == asked[j]
    <3>2. \A q : Submit(q) => Granted(q)'
      BY SubmitGrants
    <3> QED BY <1>4, <3>1, <3>2
  <2>3. tasks[j] # None /\ tasks[j].stage \in Live
    BY <1>4 DEF In, Live
  <2> QED BY <1>1, <1>2, <1>4, <2>1, <2>2, <2>3, GoesStep DEF jobVars
<1>5. CASE told /\ ~Accepts(asked[j]) /\ UNCHANGED gateVars /\ Refused(j)
  <2>1. tasks[j] # None /\ tasks[j].stage \in Live
    BY <1>5 DEF In, Live
  <2> QED BY <1>1, <1>2, <1>5, <2>1, RefusedStep DEF chainVars
<1> QED BY <1>2, <1>3, <1>4, <1>5

-------------------------------------------------------------------------------
LEMMA SubmissionInvStep == SubmissionInv /\ [Next]_vars => SubmissionInv'
<1> SUFFICES ASSUME SubmissionInv, [Next]_vars PROVE SubmissionInv'
  OBVIOUS
<1>1. CASE UNCHANGED vars
  BY <1>1, GateStep DEF vars, chainVars, backendVars
<1>2. CASE Setup
  BY <1>2, GateStep DEF Setup, backendVars
<1>3. ASSUME NEW p \in Work, Publish(p)
      PROVE  SubmissionInv'
  <2>1. txs' \subseteq txs /\ UNCHANGED <<now, jobVars, tasks>>
    BY <1>3 DEF Publish
  <2> QED BY <1>3, <2>1, GateStep DEF Publish
<1>4. ASSUME NEW p \in Others, ClientSubmits(p)
      PROVE  SubmissionInv'
  <2>1. txs' \subseteq txs /\ UNCHANGED <<now, jobVars, tasks>>
    BY <1>4 DEF ClientSubmits
  <2> QED BY <1>4, <2>1, GateStep DEF ClientSubmits
<1>5. CASE OtherWrite
  <2>1. txs' \subseteq txs /\ UNCHANGED <<now, jobVars, tasks, gateVars>>
    BY <1>5 DEF OtherWrite, chainVars
  <2> QED BY <2>1, GateStep
<1>6. ASSUME NEW j \in Ids, TaskStep(j)
      PROVE  SubmissionInv'
  BY <1>6, PollStep, CheckStep, SendStep, NotFoundStep, RecheckStep DEF TaskStep
<1> QED
  BY <1>1, <1>2, <1>3, <1>4, <1>5, <1>6, ProveStep, ProverStep, RestartStep, LandStep,
     TickStep
     DEF Next, Backend

LEMMA SubmissionInvInit == Init => SubmissionInv
<1> SUFFICES ASSUME Init PROVE SubmissionInv
  OBVIOUS
<1>1. SubmissionTypeOK
  BY DEF Init, JobsInit, SubmissionTypeOK
<1>2. TasksOK
  BY DEF Init, TasksOK
<1> QED BY <1>1, <1>2 DEF SubmissionInv

LEMMA SubmissionInvariant == Spec => []SubmissionInv
BY SubmissionInvInit, SubmissionInvStep, PTL DEF Spec

(***************************************************************************)
(* A task that says its proof was granted is right, for any work, clients, *)
(* attempts, late or lost transactions, and restarts of the backend.       *)
(***************************************************************************)
THEOREM LandedTasksAreGranted == Spec => []LandedIsGranted
<1>1. SubmissionInv => LandedIsGranted
  BY DEF SubmissionInv, TasksOK, TaskOK, LandedIsGranted, In
<1> QED BY <1>1, SubmissionInvariant, PTL

(***************************************************************************)
(* A task gives a finished proof up only if the gate refused it, the       *)
(* deadline passed, or something failed as often as it may try, for any    *)
(* number of attempts.                                                     *)
(***************************************************************************)
THEOREM TasksGiveUpForCause == Spec => []GivesUpForCause
<1>1. SubmissionInv => GivesUpForCause
  BY DEF SubmissionInv, TasksOK, TaskOK, Caused, GivesUpForCause, In
<1> QED BY <1>1, SubmissionInvariant, PTL

(***************************************************************************)
(* The tasks ask of the gateway no more than ProverJobs and do nothing to  *)
(* its jobs but queue them: what they see of it is what the gateway's      *)
(* polls show (PollsSeeJobs).                                              *)
(***************************************************************************)
THEOREM TasksTakeJobs == Spec => JobsSafe
<1>1. Init => JobsInit
  BY DEF Init
<1>2. [Next]_vars => [JobsNext]_view
  <2> SUFFICES ASSUME [Next]_vars PROVE [JobsNext]_view
    OBVIOUS
  <2>1. CASE UNCHANGED vars
    BY <2>1 DEF vars, jobVars
  <2>2. CASE Setup \/ OtherWrite \/ \E tx \in txs : Land(tx)
    BY <2>2 DEF Setup, OtherWrite, Land, jobVars
  <2>3. CASE Prover
    BY <2>3 DEF Prover, JobsNext
  <2>4. CASE Tick /\ UNCHANGED <<gateVars, jobVars, backendVars, faults>>
    BY <2>4 DEF jobVars
  <2>5. CASE Backend
    <3>1. CASE \E p \in Work : Prove(p)
      BY <3>1 DEF Prove, JobsNext
    <3>2. CASE \E p \in Work : Publish(p)
      BY <3>2 DEF Publish, jobVars
    <3>3. CASE (\E p \in Others : ClientSubmits(p)) \/ RestartBackend
      BY <3>3 DEF ClientSubmits, RestartBackend, jobVars
    <3>4. CASE \E j \in Ids : TaskStep(j)
      BY <3>4 DEF TaskStep, PollDone, PollError, PollEnds, Check, Send,
                  NotFound, Recheck, jobVars
    <3> QED BY <2>5, <3>1, <3>2, <3>3, <3>4 DEF Backend
  <2> QED BY <2>1, <2>2, <2>3, <2>4, <2>5 DEF Next
<1> QED BY <1>1, <1>2, PTL DEF Spec, JobsSafe

===============================================================================
