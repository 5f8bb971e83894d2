----------------------------- MODULE ProverGateway -----------------------------
(***************************************************************************)
(* The prover gateway (prover/gateway/gateway.py), its workers             *)
(* (prover/worker/worker.sh) and its fallback thread.                      *)
(*                                                                         *)
(* Jobs live in memory: a restart loses them.  Ages are not modelled: a    *)
(* queued job may be old, a claim stale and a finished job due for purging *)
(* at any moment.  What is proved plays no part.                           *)
(***************************************************************************)
EXTENDS Naturals, Sequences

CONSTANTS
    Workers,
    None,               \* an absent value
    MaxJobs             \* bound: jobs ever queued

Job == [status: {"queued", "claimed", "proving_local", "done", "error"},
        witness: BOOLEAN, bundle: BOOLEAN]

ASSUME GatewayAssumption ==
    /\ MaxJobs \in Nat
    /\ None \notin Job \cup (1..MaxJobs)

VARIABLES
    jobs,               \* jobs[j]: the j-th job queued, or None: its status,
                        \* whether its inputs (witness) and a bundle are there
    local,              \* the job the fallback thread has, or None
    worker              \* worker[w]: the job it proves, or None

vars == <<jobs, local, worker>>

Init ==
    /\ jobs = <<>>
    /\ local = None
    /\ worker = [w \in Workers |-> None]

Are(status) == {j \in DOMAIN jobs : jobs[j] # None /\ jobs[j].status = status}

Oldest(S) == {j \in S : \A k \in S : j <= k}

-------------------------------------------------------------------------------
\* POST /prove, the fields checked.
Prove ==
    /\ Len(jobs) < MaxJobs
    /\ jobs' = Append(jobs, [status |-> "queued", witness |-> TRUE, bundle |-> FALSE])
    /\ UNCHANGED <<local, worker>>

\* GET /jobs/next.
Claim(w) ==
    /\ worker[w] = None
    /\ \E j \in Oldest(Are("queued")) :
          /\ jobs' = [jobs EXCEPT ![j].status = "claimed"]
          /\ worker' = [worker EXCEPT ![w] = j]
    /\ UNCHANGED local

\* Wrong (definitions named ..._wrong seed the bug one property must catch):
\* the witness of a job that failed is kept.
Finished_wrong(j, proved) ==
    [jobs EXCEPT ![j].status = IF proved THEN "done" ELSE "error",
                 ![j].witness = jobs[j].witness /\ ~proved,
                 ![j].bundle = jobs[j].bundle \/ proved]

\* A bundle or an error comes in, whatever the job's status is by now; an error
\* does not take a bundle away.
Finished(j, proved) ==
    [jobs EXCEPT ![j].status = IF proved THEN "done" ELSE "error",
                 ![j].witness = FALSE,
                 ![j].bundle = jobs[j].bundle \/ proved]

\* POST /jobs/<id>/result: a job that is unknown by now is a 404.
Report(w, proved) ==
    /\ worker[w] # None
    /\ jobs' = IF jobs[worker[w]] = None THEN jobs ELSE Finished(worker[w], proved)
    /\ worker' = [worker EXCEPT ![w] = None]
    /\ UNCHANGED local

\* The worker dies, or its report is lost: it is not sent again.
LoseReport(w) ==
    /\ worker[w] # None
    /\ worker' = [worker EXCEPT ![w] = None]
    /\ UNCHANGED <<jobs, local>>

\* Wrong: a claim never goes stale.
Overdue_wrong == Oldest(Are("queued"))

\* A queued job older than FALLBACK_SECS, a claim older than CLAIM_TIMEOUT.
Overdue == Oldest(Are("queued")) \cup Are("claimed")

\* The fallback thread takes a job ...
Pick ==
    /\ local = None
    /\ \E j \in Overdue :
          /\ jobs' = [jobs EXCEPT ![j].status = "proving_local"]
          /\ local' = [job |-> j, started |-> FALSE]
    /\ UNCHANGED worker

\* ... then, the lock released, reads its inputs and runs the host ...
Start ==
    /\ local # None
    /\ ~local.started
    /\ jobs[local.job] # None /\ jobs[local.job].witness
    /\ local' = [local EXCEPT !.started = TRUE]
    /\ UNCHANGED <<jobs, worker>>

\* ... and writes the outcome into the job, which may have been purged.  With
\* the inputs gone before it read them, it fails.
LocalEnds(proved) ==
    /\ local # None
    /\ proved => local.started
    /\ jobs' = IF jobs[local.job] = None THEN jobs ELSE Finished(local.job, proved)
    /\ local' = None
    /\ UNCHANGED worker

\* JOB_TTL after it finished; the fallback thread does this between jobs.
Purge ==
    /\ local = None
    /\ \E j \in Are("done") \cup Are("error") : jobs' = [jobs EXCEPT ![j] = None]
    /\ UNCHANGED <<local, worker>>

\* Ids are random and never used again.
Forgotten == [j \in DOMAIN jobs |-> None]

RestartGateway ==
    /\ jobs' = Forgotten
    /\ local' = None
    /\ UNCHANGED worker

Fallback == Pick \/ Start \/ \E proved \in BOOLEAN : LocalEnds(proved)

Next ==
    \/ Prove
    \/ \E w \in Workers :
          Claim(w) \/ LoseReport(w) \/ \E proved \in BOOLEAN : Report(w, proved)
    \/ Fallback \/ Purge \/ RestartGateway

\* The fallback thread loops for ever and its host runs have a timeout.  No
\* worker need ever answer.
Spec == Init /\ [][Next]_vars /\ WF_vars(Fallback)

-------------------------------------------------------------------------------
(* Properties. *)

(***************************************************************************)
(* "A finished job keeps only its public result": whichever of a worker    *)
(* and the fallback thread finishes a job, and however late the other      *)
(* reports, its witness is gone, and a job that is done has its bundle.    *)
(***************************************************************************)
FinishedKeepsResult ==
    \A j \in Are("done") \cup Are("error") :
        /\ ~jobs[j].witness
        /\ jobs[j].status = "done" => jobs[j].bundle

(***************************************************************************)
(* What a poll finds: nothing, or a status; a bundle is read when the      *)
(* status is "done".                                                       *)
(***************************************************************************)
PollView(job) ==
    IF job = None THEN "gone"
    ELSE IF job.status \in {"done", "error"} THEN job.status ELSE "open"

Promise == INSTANCE ProverJobs WITH view <- [j \in DOMAIN jobs |-> PollView(jobs[j])]

(***************************************************************************)
(* The gateway keeps its promise to those who poll.  No interleaving of    *)
(* claims, stale claims, late reports, purges and restarts reopens a job   *)
(* or revives a lost one; and "so the service keeps working when the       *)
(* worker is offline", every job ends or is lost, though workers may die   *)
(* with it.                                                                *)
(***************************************************************************)
KeepsJobsPromise == Promise!JobsSpec

===============================================================================
