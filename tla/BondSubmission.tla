---------------------------- MODULE BondSubmission ----------------------------
(***************************************************************************)
(* From a request to prove a bond to the grant on chain, seen from the     *)
(* backend (backend/src/server.ts): the prove routes, the tasks that poll  *)
(* the prover in the background and submit the proof, with retries, and    *)
(* the bond gate.  The prover gateway is its promise (ProverJobs).         *)
(*                                                                         *)
(* The relay's calls wait for each other (withTierAdminLock), but one that *)
(* was given up on may still be applied.  Tasks live in memory.            *)
(***************************************************************************)
EXTENDS BondGate, ProverJobs

CONSTANTS
    Work,               \* the proofs asked for, to be submitted by a task
    Others,             \* the bundles clients have
    Attempts,           \* submissions submitProofWithRetry makes
    MaxFaults           \* bound: requests to the chain that fail or lag

ASSUME SubmissionAssumption ==
    /\ Work \subseteq Proofs /\ Others \subseteq Proofs
    /\ Attempts \in Nat \ {0}
    /\ MaxFaults \in Nat

VARIABLES
    asked,              \* asked[j]: the proof job j is for
    tasks,              \* tasks[j]: the backend's task for job j, or None
    txs,                \* submissions that may still be applied
    faults

jobVars == <<asked, view>>
backendVars == <<tasks, txs>>
chainVars == <<now, gateVars>>
vars == <<chainVars, jobVars, backendVars, faults>>

Live == {"polling", "checking", "ready", "sent", "rechecking"}

\* A task is [stage, attempt, faulted, refused].  stage: one of Live, or how it
\* ended; attempt: submissions finished; faulted, refused: history, the attempts
\* and reads a fault spoiled, and why the gate refused the others.

Init ==
    /\ now = 0 /\ GateInit
    /\ asked = <<>>
    /\ JobsInit
    /\ tasks = [j \in Ids |-> None]
    /\ txs = {} /\ faults = 0

\* Grants and refusals of the gate, for either kind of proof.
Submit(p) == submit_bond_proof(p) \/ submit_bond_open_proof(p)

Granted(p) ==
    LET store == IF p.claim_type = "bond" THEN grants ELSE open_grants IN
    <<p.accessor, p.req>> \in DOMAIN store

Used(p) ==
    p.nullifier \in (IF p.claim_type = "bond" THEN nullifiers ELSE open_nullifiers)

InRing(p) == \E k \in DOMAIN ring[p.req] : ring[p.req][k] = p.qual_root

IsGranted(p) == Granted(p) /\ now < p.req.deadline

Accepts(p) == InRing(p) /\ ~Used(p) /\ now < p.req.deadline

Refusals(p) ==
    {why \in {"evicted", "spent", "expired"} :
        \/ why = "evicted" /\ ~InRing(p)
        \/ why = "spent" /\ Used(p) /\ ~Granted(p)
        \/ why = "expired" /\ now >= p.req.deadline}

-------------------------------------------------------------------------------
(* The prove routes. *)

\* Only one of the relay's serialised calls is under way.
RelayFree == \A j \in Ids : tasks[j] # None => tasks[j].stage # "sent"

\* set_qual_root, of a prove route or of the qual-root route.  The relay's next
\* sequence number is used: what it sent before and is not applied is void.
Publish(p) ==
    /\ RelayFree
    /\ set_qual_root(p.req, p.qual_root)
    /\ txs' = {}
    /\ UNCHANGED <<now, jobVars, tasks, faults>>

NewTask == [stage |-> "polling", attempt |-> 0, faulted |-> 0, refused |-> {}]

\* The root is in the ring: the job is queued, with its task.  A job without
\* one is the client's, whose bundle comes with ClientSubmits.
Prove(p) ==
    /\ Queue
    /\ InRing(p)
    /\ now < p.req.deadline
    /\ asked' = Append(asked, p)
    /\ tasks' = [tasks EXCEPT ![Len(view')] = NewTask]
    /\ UNCHANGED <<chainVars, txs, faults>>

-------------------------------------------------------------------------------
(* The background tasks. *)

In(j, stage) == tasks[j] # None /\ tasks[j].stage = stage

Goes(j, stage) == tasks' = [tasks EXCEPT ![j].stage = stage]

\* pollAndSubmitBond reads the job.  A 404 has no status: it polls on.
PollDone(j) ==
    /\ In(j, "polling")
    /\ view[j] = "done"
    /\ Goes(j, "checking")
    /\ UNCHANGED <<chainVars, jobVars, txs, faults>>

PollError(j) ==
    /\ In(j, "polling")
    /\ view[j] = "error"
    /\ Goes(j, "prove_failed")
    /\ UNCHANGED <<chainVars, jobVars, txs, faults>>

\* Wrong: as long as the job is unknown the clock is not looked at.
TimesOut_wrong(j) == In(j, "polling") /\ view[j] # "gone"

\* BOND_BG_TIMEOUT_MS.
TimesOut(j) == In(j, "polling")

PollEnds(j) ==
    /\ TimesOut(j)
    /\ Goes(j, "timed_out")
    /\ UNCHANGED <<chainVars, jobVars, txs, faults>>

Fault == faults < MaxFaults /\ faults' = faults + 1

\* The first isGranted; a read that fails or lags falls through to submit.
Check(j) ==
    /\ In(j, "checking")
    /\ \/ IsGranted(asked[j]) /\ Goes(j, "landed")
       \/ Goes(j, "ready")
    /\ UNCHANGED <<chainVars, jobVars, txs, faults>>

Spoiled(j) ==
    tasks' = [tasks EXCEPT ![j].stage = "rechecking",
                           ![j].faulted = tasks[j].faulted + 1]

Refused(j) ==
    tasks' = [tasks EXCEPT ![j].stage = "rechecking",
                           ![j].refused = tasks[j].refused \cup Refusals(asked[j])]

\* submit: invokeContract simulates and sends, or throws.
Send(j) ==
    /\ In(j, "ready")
    /\ RelayFree
    /\ \/ /\ Accepts(asked[j])
          /\ txs' = txs \cup {[job |-> j, attempt |-> tasks[j].attempt]}
          /\ Goes(j, "sent")
          /\ UNCHANGED faults
       \/ ~Accepts(asked[j]) /\ Refused(j) /\ UNCHANGED <<txs, faults>>
       \/ Fault /\ Spoiled(j) /\ UNCHANGED txs
    /\ UNCHANGED <<chainVars, jobVars>>

\* Not found for 30 s: void or dropped, or only late.
NotFound(j) ==
    /\ In(j, "sent")
    /\ \/ txs' = {tx \in txs : tx.job # j} /\ UNCHANGED faults
       \/ Fault /\ UNCHANGED txs
    /\ Spoiled(j)
    /\ UNCHANGED <<chainVars, jobVars>>

\* Wrong: one attempt too few.
LastAttempt_wrong(j) == tasks[j].attempt + 2 >= Attempts

LastAttempt(j) == tasks[j].attempt + 1 = Attempts

NextAttempt(j, n) ==
    tasks' = [tasks EXCEPT ![j].stage = IF LastAttempt(j) THEN "gave_up" ELSE "ready",
                           ![j].attempt = tasks[j].attempt + 1,
                           ![j].faulted = n]

\* Wrong: a spent nullifier is taken for the grant.
Landed_wrong(j) == Used(asked[j])

Landed(j) == IsGranted(asked[j])

\* The reads after an attempt find the grant; or all find none, or fail.
Recheck(j) ==
    /\ In(j, "rechecking")
    /\ \/ Landed(j) /\ Goes(j, "landed") /\ UNCHANGED faults
       \/ ~IsGranted(asked[j]) /\ NextAttempt(j, tasks[j].faulted)
             /\ UNCHANGED faults
       \/ Fault /\ NextAttempt(j, tasks[j].faulted + 1)
    /\ UNCHANGED <<chainVars, jobVars, txs>>

RestartBackend ==
    /\ tasks' = [j \in Ids |-> None]
    /\ UNCHANGED <<chainVars, jobVars, txs, faults>>

TaskStep(j) ==
    \/ PollDone(j) \/ PollError(j) \/ PollEnds(j)
    \/ Check(j) \/ Send(j) \/ NotFound(j) \/ Recheck(j)

-------------------------------------------------------------------------------
(* The chain. *)

\* The outcome of its transaction reaches the task that waits for it.
Tell(tx, Outcome(_)) ==
    IF In(tx.job, "sent") /\ tasks[tx.job].attempt = tx.attempt
    THEN Outcome(tx.job) ELSE UNCHANGED tasks

\* A submission is applied, or fails on chain; the relay's others are void.
Land(tx) ==
    LET success(j) == Goes(j, "landed") IN
    /\ tx \in txs
    /\ txs' = {}
    /\ \/ Submit(asked[tx.job]) /\ Tell(tx, success)
       \/ ~Accepts(asked[tx.job]) /\ Tell(tx, Refused) /\ UNCHANGED gateVars
    /\ UNCHANGED <<now, jobVars, faults>>

\* A client submits a bundle of its own, by its own request.
ClientSubmits(p) ==
    /\ RelayFree
    /\ Submit(p)
    /\ txs' = {}
    /\ UNCHANGED <<now, jobVars, tasks, faults>>

\* A call of the relay's that is not serialised with these (the batch flusher,
\* the enrollment routes) takes the sequence number.
OtherWrite ==
    /\ txs # {}
    /\ txs' = {}
    /\ UNCHANGED <<chainVars, jobVars, tasks, faults>>

Ready == config # None /\ open_image # None

\* Bound: the gate is set up once.
Setup ==
    /\ ~Ready
    /\ initialize(BondImage) \/ set_open_image_id(OpenImage)
    /\ UNCHANGED <<now, jobVars, backendVars, faults>>

Backend ==
    \/ \E p \in Work : Publish(p) \/ Prove(p)
    \/ \E p \in Others : ClientSubmits(p)
    \/ \E j \in Ids : TaskStep(j)
    \/ RestartBackend

\* What becomes of jobs that nobody polls any more is left out.
Prover ==
    /\ JobsStep
    /\ \E j \in DOMAIN view : In(j, "polling") /\ view'[j] # view[j]
    /\ UNCHANGED <<chainVars, asked, backendVars, faults>>

Next ==
    \/ Setup \/ (Ready /\ Backend)
    \/ Prover
    \/ \E tx \in txs : Land(tx)
    \/ OtherWrite
    \/ Tick /\ UNCHANGED <<gateVars, jobVars, backendVars, faults>>

\* Every wait of a task is a timer's, with an end.
Fairness == \A j \in Ids : WF_vars(TaskStep(j))

Spec == Init /\ [][Next]_vars /\ Fairness

-------------------------------------------------------------------------------
(* Properties. *)

(***************************************************************************)
(* A task that reports its proof granted is right, about the accessor it   *)
(* was started for: after a timeout, a late transaction, a client that     *)
(* submitted too, or another holder key's grant of the same identity.      *)
(***************************************************************************)
LandedIsGranted ==
    \A j \in Ids : In(j, "landed") => Granted(asked[j])

(***************************************************************************)
(* "Without this, a momentary lag stranded a finished proof": a task gives *)
(* a finished proof up only if the gate refused it (its root evicted from  *)
(* the ring, its nullifier spent under another accessor, the deadline      *)
(* passed), or something else went wrong as often as it may try.           *)
(***************************************************************************)
GivesUpForCause ==
    \A j \in Ids :
        In(j, "gave_up") =>
            \/ tasks[j].refused # {}
            \/ tasks[j].faulted >= Attempts
            \/ now >= asked[j].req.deadline

(***************************************************************************)
(* "Bounded; returns once the grant is on-chain or the attempts are        *)
(* exhausted": every task ends, also when the gateway has lost its job.    *)
(***************************************************************************)
TasksEnd ==
    \A j \in Ids :
        (tasks[j] # None /\ tasks[j].stage \in Live)
            ~> (tasks[j] = None \/ tasks[j].stage \notin Live)

===============================================================================
