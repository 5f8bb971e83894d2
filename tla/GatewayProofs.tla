----------------------------- MODULE GatewayProofs -----------------------------
(***************************************************************************)
(* Proofs about the prover gateway, for any number of workers and jobs.    *)
(*                                                                         *)
(* The argument: a job that is finished was finished by Finished, which    *)
(* clears the witness and keeps a bundle once there is one; claims and the *)
(* fallback's pick touch jobs that are open only.  Seen by a poll, every   *)
(* step therefore queues a job, ends one, loses some or changes nothing,   *)
(* provided workers and fallback hold jobs that were queued (InHand).      *)
(***************************************************************************)
EXTENDS ProverGateway, SequenceTheorems, TLAPS
USE GatewayAssumption

-------------------------------------------------------------------------------
(* The invariant. *)

JobsOK == jobs \in Seq(Job \cup {None}) /\ Len(jobs) =< MaxJobs

\* Workers and fallback hold jobs that were queued once.
InHand ==
    /\ worker \in [Workers -> (DOMAIN jobs) \cup {None}]
    /\ local # None => local \in [job: DOMAIN jobs, started: BOOLEAN]

GatewayInv == JobsOK /\ InHand /\ FinishedKeepsResult

\* The jobs after job j was overwritten.
LEMMA Overwritten ==
    ASSUME JobsOK, NEW j \in DOMAIN jobs, NEW job \in Job \cup {None},
           jobs' = [jobs EXCEPT ![j] = job]
    PROVE  /\ JobsOK'
           /\ DOMAIN jobs' = DOMAIN jobs
           /\ \A k \in DOMAIN jobs : jobs'[k] = IF k = j THEN job ELSE jobs[k]
BY DEF JobsOK

\* If the job written keeps its result, all finished ones do.
LEMMA OverwrittenKeeps ==
    ASSUME JobsOK, FinishedKeepsResult,
           NEW j \in DOMAIN jobs, NEW job \in Job \cup {None},
           jobs' = [jobs EXCEPT ![j] = job],
           job # None /\ job.status \in {"done", "error"} =>
               ~job.witness /\ (job.status = "done" => job.bundle)
    PROVE  /\ JobsOK' /\ FinishedKeepsResult'
           /\ DOMAIN jobs' = DOMAIN jobs
BY Overwritten DEF FinishedKeepsResult, Are

LEMMA FinishedJob ==
    ASSUME JobsOK, NEW j \in DOMAIN jobs, jobs[j] # None, NEW proved \in BOOLEAN
    PROVE  \E job \in Job :
              /\ Finished(j, proved) = [jobs EXCEPT ![j] = job]
              /\ job.status = IF proved THEN "done" ELSE "error"
              /\ ~job.witness
              /\ proved => job.bundle
<1> DEFINE job == [jobs[j] EXCEPT !.status = IF proved THEN "done" ELSE "error",
                                  !.witness = FALSE,
                                  !.bundle = jobs[j].bundle \/ proved]
<1>1. jobs[j] \in Job
  BY DEF JobsOK
<1>2. job \in Job /\ job.status = (IF proved THEN "done" ELSE "error")
      /\ ~job.witness /\ (proved => job.bundle)
  BY <1>1 DEF Job
<1>3. Finished(j, proved) = [jobs EXCEPT ![j] = job]
  BY <1>1 DEF Finished
<1> QED BY <1>2, <1>3

-------------------------------------------------------------------------------
(* Every action keeps the invariant. *)

LEMMA ProveStep ==
    ASSUME GatewayInv, Prove
    PROVE  GatewayInv'
<1> DEFINE job == [status |-> "queued", witness |-> TRUE, bundle |-> FALSE]
<1>1. /\ jobs \in Seq(Job \cup {None}) /\ Len(jobs) < MaxJobs
      /\ job \in Job /\ job.status = "queued"
      /\ jobs' = Append(jobs, job)
      /\ UNCHANGED <<local, worker>>
  BY DEF Prove, GatewayInv, JobsOK, Job
<1> HIDE DEF job
<1>2. /\ jobs' \in Seq(Job \cup {None}) /\ Len(jobs') = Len(jobs) + 1
      /\ DOMAIN jobs' = 1..(Len(jobs) + 1) /\ DOMAIN jobs = 1..Len(jobs)
      /\ Len(jobs) \in Nat
      /\ \A k \in DOMAIN jobs' : jobs'[k] = IF k \in DOMAIN jobs THEN jobs[k] ELSE job
  BY <1>1
<1>3. JobsOK'
  BY <1>1, <1>2 DEF JobsOK
<1>4. FinishedKeepsResult'
  BY <1>1, <1>2 DEF FinishedKeepsResult, Are, GatewayInv
<1>5. InHand'
  BY <1>1, <1>2 DEF InHand, GatewayInv
<1> QED BY <1>3, <1>4, <1>5 DEF GatewayInv

\* A job whose status moves on while it is open.
LEMMA OpenStep ==
    ASSUME GatewayInv, NEW j \in DOMAIN jobs, jobs[j] # None,
           NEW status \in {"claimed", "proving_local"},
           jobs' = [jobs EXCEPT ![j].status = status]
    PROVE  /\ JobsOK' /\ FinishedKeepsResult'
           /\ DOMAIN jobs' = DOMAIN jobs
<1> DEFINE job == [jobs[j] EXCEPT !.status = status]
<1>1. jobs[j] \in Job
  BY DEF GatewayInv, JobsOK
<1>2. job \in Job /\ job.status = status
  BY <1>1 DEF Job
<1>3. jobs' = [jobs EXCEPT ![j] = job]
  OBVIOUS
<1> HIDE DEF job
<1> QED BY <1>2, <1>3, OverwrittenKeeps DEF GatewayInv

LEMMA ClaimStep ==
    ASSUME GatewayInv, NEW w \in Workers, Claim(w)
    PROVE  GatewayInv'
<1>1. PICK j \in DOMAIN jobs :
        /\ jobs[j] # None
        /\ jobs' = [jobs EXCEPT ![j].status = "claimed"]
        /\ worker' = [worker EXCEPT ![w] = j]
        /\ UNCHANGED local
  BY DEF Claim, Oldest, Are
<1>2. JobsOK' /\ FinishedKeepsResult' /\ DOMAIN jobs' = DOMAIN jobs
  BY <1>1, OpenStep
<1>3. InHand'
  BY <1>1, <1>2 DEF InHand, GatewayInv
<1> QED BY <1>2, <1>3 DEF GatewayInv

\* Somebody who holds job j ends it, if it is still known.
LEMMA EndedStep ==
    ASSUME GatewayInv, NEW j \in DOMAIN jobs, NEW proved \in BOOLEAN,
           jobs' = IF jobs[j] = None THEN jobs ELSE Finished(j, proved)
    PROVE  /\ JobsOK' /\ FinishedKeepsResult'
           /\ DOMAIN jobs' = DOMAIN jobs
<1>1. CASE jobs[j] = None
  BY <1>1 DEF GatewayInv, JobsOK, FinishedKeepsResult, Are
<1>2. CASE jobs[j] # None
  <2>1. PICK job \in Job :
          /\ jobs' = [jobs EXCEPT ![j] = job]
          /\ job.status = IF proved THEN "done" ELSE "error"
          /\ ~job.witness
          /\ proved => job.bundle
    BY <1>2, FinishedJob DEF GatewayInv
  <2> QED BY <2>1, OverwrittenKeeps DEF GatewayInv
<1> QED BY <1>1, <1>2

LEMMA ReportStep ==
    ASSUME GatewayInv, NEW w \in Workers, NEW proved \in BOOLEAN, Report(w, proved)
    PROVE  GatewayInv'
<1>1. worker[w] \in DOMAIN jobs
  BY DEF Report, GatewayInv, InHand
<1>2. JobsOK' /\ FinishedKeepsResult' /\ DOMAIN jobs' = DOMAIN jobs
  BY <1>1, EndedStep DEF Report
<1>3. InHand'
  BY <1>2 DEF Report, GatewayInv, InHand
<1> QED BY <1>2, <1>3 DEF GatewayInv

LEMMA LocalEndsStep ==
    ASSUME GatewayInv, NEW proved \in BOOLEAN, LocalEnds(proved)
    PROVE  GatewayInv'
<1>1. local.job \in DOMAIN jobs
  BY DEF LocalEnds, GatewayInv, InHand
<1>2. JobsOK' /\ FinishedKeepsResult' /\ DOMAIN jobs' = DOMAIN jobs
  BY <1>1, EndedStep DEF LocalEnds
<1>3. InHand'
  BY <1>2 DEF LocalEnds, GatewayInv, InHand
<1> QED BY <1>2, <1>3 DEF GatewayInv

LEMMA PickStep ==
    ASSUME GatewayInv, Pick
    PROVE  GatewayInv'
<1>1. PICK j \in DOMAIN jobs :
        /\ jobs[j] # None
        /\ jobs' = [jobs EXCEPT ![j].status = "proving_local"]
        /\ local' = [job |-> j, started |-> FALSE]
        /\ UNCHANGED worker
  BY DEF Pick, Overdue, Oldest, Are
<1>2. JobsOK' /\ FinishedKeepsResult' /\ DOMAIN jobs' = DOMAIN jobs
  BY <1>1, OpenStep
<1>3. InHand'
  BY <1>1, <1>2 DEF InHand, GatewayInv
<1> QED BY <1>2, <1>3 DEF GatewayInv

LEMMA PurgeStep ==
    ASSUME GatewayInv, Purge
    PROVE  GatewayInv'
<1>1. PICK j \in DOMAIN jobs :
        /\ jobs' = [jobs EXCEPT ![j] = None]
        /\ UNCHANGED <<local, worker>>
  BY DEF Purge, Are
<1>2. JobsOK' /\ FinishedKeepsResult' /\ DOMAIN jobs' = DOMAIN jobs
  BY <1>1, OverwrittenKeeps DEF GatewayInv
<1> QED BY <1>1, <1>2 DEF GatewayInv, InHand

LEMMA RestartStep ==
    ASSUME GatewayInv, RestartGateway
    PROVE  GatewayInv'
<1>1. /\ jobs' = [j \in DOMAIN jobs |-> None]
      /\ local' = None /\ UNCHANGED worker
  BY DEF RestartGateway, Forgotten
<1>2. Len(jobs) \in Nat /\ DOMAIN jobs = 1..Len(jobs)
  BY DEF GatewayInv, JobsOK
<1>3. jobs' \in Seq(Job \cup {None}) /\ Len(jobs') = Len(jobs) /\ DOMAIN jobs' = DOMAIN jobs
  BY <1>1, <1>2
<1>4. JobsOK'
  BY <1>3 DEF GatewayInv, JobsOK
<1>5. FinishedKeepsResult'
  BY <1>1 DEF FinishedKeepsResult, Are
<1> QED BY <1>1, <1>3, <1>4, <1>5 DEF GatewayInv, InHand

LEMMA GatewayInvStep == GatewayInv /\ [Next]_vars => GatewayInv'
<1> SUFFICES ASSUME GatewayInv, [Next]_vars PROVE GatewayInv'
  OBVIOUS
<1>1. CASE UNCHANGED vars
  BY <1>1 DEF vars, GatewayInv, JobsOK, InHand, FinishedKeepsResult, Are
<1>2. ASSUME NEW w \in Workers, LoseReport(w)
      PROVE  GatewayInv'
  BY <1>2 DEF LoseReport, GatewayInv, JobsOK, InHand, FinishedKeepsResult, Are
<1>3. CASE Start
  BY <1>3 DEF Start, GatewayInv, JobsOK, InHand, FinishedKeepsResult, Are
<1> QED
  BY <1>1, <1>2, <1>3, ProveStep, ClaimStep, ReportStep, LocalEndsStep, PickStep,
     PurgeStep, RestartStep DEF Next, Fallback

LEMMA GatewayInvInit == Init => GatewayInv
BY DEF Init, GatewayInv, JobsOK, InHand, FinishedKeepsResult, Are

LEMMA GatewayInvariant == Spec => []GatewayInv
BY GatewayInvInit, GatewayInvStep, PTL DEF Spec

(***************************************************************************)
(* "A finished job keeps only its public result", for any number of        *)
(* workers and jobs, in every order of reports, the fallback's picks and   *)
(* results, purges and restarts.                                           *)
(***************************************************************************)
THEOREM ResultsAreKept == Spec => []FinishedKeepsResult
<1>1. GatewayInv => FinishedKeepsResult
  BY DEF GatewayInv
<1> QED BY <1>1, GatewayInvariant, PTL

-------------------------------------------------------------------------------
(* The refinement: what polls find moves as ProverJobs promises. *)

View == [j \in DOMAIN jobs |-> PollView(jobs[j])]

\* The poll's view after one job was overwritten.
LEMMA ViewOverwritten ==
    ASSUME JobsOK, NEW j \in DOMAIN jobs, NEW job \in Job \cup {None},
           jobs' = [jobs EXCEPT ![j] = job]
    PROVE  View' = [View EXCEPT ![j] = PollView(job)]
<1>1. /\ DOMAIN jobs' = DOMAIN jobs
      /\ \A k \in DOMAIN jobs : jobs'[k] = IF k = j THEN job ELSE jobs[k]
  BY Overwritten
<1>2. View' = [k \in DOMAIN jobs |-> PollView(IF k = j THEN job ELSE jobs[k])]
  BY <1>1, Zenon DEF View
<1> QED BY <1>2 DEF View

LEMMA ProveQueues ==
    ASSUME GatewayInv, Prove
    PROVE  Promise!Queue
<1> DEFINE job == [status |-> "queued", witness |-> TRUE, bundle |-> FALSE]
<1>1. /\ jobs \in Seq(Job \cup {None}) /\ Len(jobs) < MaxJobs
      /\ jobs' = Append(jobs, job)
  BY DEF Prove, GatewayInv, JobsOK
<1>2. job \in Job /\ job.status = "queued"
  BY DEF Job
<1>3. PollView(job) = "open"
  BY <1>2 DEF PollView
<1> HIDE DEF job
<1>4. /\ Len(jobs) \in Nat /\ DOMAIN jobs = 1..Len(jobs)
      /\ DOMAIN jobs' = 1..(Len(jobs) + 1)
      /\ \A k \in DOMAIN jobs' : jobs'[k] = IF k \in DOMAIN jobs THEN jobs[k] ELSE job
  BY <1>1, <1>2
<1>5. /\ \A k \in 1..Len(jobs) : View[k] = PollView(jobs[k])
      /\ DOMAIN View = 1..Len(jobs)
      /\ View = [k \in 1..Len(jobs) |-> View[k]]
  BY <1>4 DEF View
<1>6. View' = [k \in 1..(Len(jobs) + 1) |->
                 IF k \in 1..Len(jobs) THEN View[k] ELSE "open"]
  BY <1>3, <1>4, <1>5 DEF View
<1> DEFINE v == View
           w == View'
           S == {v[k] : k \in 1..Len(jobs)} \cup {"open"}
<1>7. v = [k \in 1..Len(jobs) |-> v[k]] /\ \A k \in 1..Len(jobs) : v[k] \in S
  BY <1>5
<1>8. w = [k \in 1..(Len(jobs) + 1) |-> IF k \in 1..Len(jobs) THEN v[k] ELSE "open"]
  BY <1>6
<1> HIDE DEF v, w, S
<1>9. v \in Seq(S) /\ Len(v) = Len(jobs)
  BY <1>4, <1>7
<1>10. "open" \in S
  BY DEF S
<1>11. w = Append(v, "open")
  <2>1. /\ Append(v, "open") \in Seq(S)
        /\ Len(Append(v, "open")) = Len(v) + 1
        /\ \A k \in 1..Len(v) : Append(v, "open")[k] = v[k]
        /\ Append(v, "open")[Len(v) + 1] = "open"
    BY <1>9, <1>10, AppendProperties
  <2>2. w \in Seq(S) /\ Len(w) = Len(v) + 1
    BY <1>4, <1>7, <1>8, <1>9, <1>10
  <2>3. \A k \in 1..Len(w) : w[k] = Append(v, "open")[k]
    BY <1>4, <1>8, <1>9, <2>1, <2>2
  <2> QED BY <2>1, <2>2, <2>3, SeqEqual
<1> QED BY <1>1, <1>9, <1>11 DEF Promise!Queue, View, v, w

\* Claims and picks are not seen.
LEMMA OpenUnseen ==
    ASSUME GatewayInv, NEW j \in DOMAIN jobs, jobs[j] # None,
           jobs[j].status \notin {"done", "error"},
           NEW status \in {"claimed", "proving_local"},
           jobs' = [jobs EXCEPT ![j].status = status]
    PROVE  UNCHANGED View
<1> DEFINE job == [jobs[j] EXCEPT !.status = status]
<1>1. jobs[j] \in Job
  BY DEF GatewayInv, JobsOK
<1>2. job \in Job /\ job.status = status /\ jobs' = [jobs EXCEPT ![j] = job]
  BY <1>1 DEF Job
<1> HIDE DEF job
<1>3. View' = [View EXCEPT ![j] = PollView(job)]
  BY <1>2, ViewOverwritten DEF GatewayInv
<1>4. PollView(job) = "open" /\ PollView(jobs[j]) = "open"
  BY <1>2 DEF PollView
<1>5. View[j] = "open"
  BY <1>4 DEF View
<1> QED BY <1>3, <1>4, <1>5 DEF View

\* A report of a job that is kept is its end, the first or a later one.
LEMMA EndSeen ==
    ASSUME GatewayInv, NEW j \in DOMAIN jobs, NEW proved \in BOOLEAN,
           jobs' = IF jobs[j] = None THEN jobs ELSE Finished(j, proved)
    PROVE  UNCHANGED View \/ Promise!JobsStep
<1>1. CASE jobs[j] = None
  BY <1>1 DEF View
<1>2. CASE jobs[j] # None
  <2> DEFINE verdict == IF proved THEN "done" ELSE "error"
  <2>1. PICK job \in Job : /\ jobs' = [jobs EXCEPT ![j] = job]
                           /\ job.status = verdict
    BY <1>2, FinishedJob DEF GatewayInv
  <2>2. View' = [View EXCEPT ![j] = verdict]
    BY <2>1, ViewOverwritten DEF GatewayInv, PollView
  <2>3. View[j] # "gone"
    BY <1>2 DEF View, PollView, GatewayInv, JobsOK, Job
  <2>4. Promise!End(j, verdict)
    BY <2>2, <2>3 DEF Promise!End, View
  <2> QED BY <2>4 DEF Promise!JobsStep, View
<1> QED BY <1>1, <1>2

LEMMA PurgeSeen ==
    ASSUME GatewayInv, Purge
    PROVE  Promise!JobsStep
<1>1. PICK j \in DOMAIN jobs :
        /\ jobs[j] # None /\ jobs[j].status \in {"done", "error"}
        /\ jobs' = [jobs EXCEPT ![j] = None]
  BY DEF Purge, Are
<1>2. View' = [View EXCEPT ![j] = "gone"]
  BY <1>1, ViewOverwritten DEF GatewayInv, PollView
<1>3. View[j] # "open"
  BY <1>1 DEF View, PollView
<1>4. Promise!Lose({j})
  BY <1>2 DEF Promise!Lose, View
<1> QED BY <1>3, <1>4 DEF Promise!JobsStep, View

LEMMA RestartSeen ==
    ASSUME GatewayInv, RestartGateway
    PROVE  Promise!JobsStep
<1>1. jobs' = [j \in DOMAIN jobs |-> None]
  BY DEF RestartGateway, Forgotten
<1>2. View' = [j \in DOMAIN jobs |-> "gone"]
  BY <1>1 DEF View, PollView
<1>3. Promise!Lose(DOMAIN jobs)
  BY <1>2 DEF Promise!Lose, View
<1> QED BY <1>3 DEF Promise!JobsStep

LEMMA StepSeen ==
    ASSUME GatewayInv, [Next]_vars
    PROVE  [Promise!JobsNext]_View
<1>1. CASE UNCHANGED jobs
  BY <1>1 DEF View
<1>2. ASSUME NEW w \in Workers, Claim(w)
      PROVE  UNCHANGED View
  <2>1. PICK j \in DOMAIN jobs :
          /\ jobs[j] # None /\ jobs[j].status = "queued"
          /\ jobs' = [jobs EXCEPT ![j].status = "claimed"]
    BY <1>2 DEF Claim, Oldest, Are
  <2> QED BY <2>1, OpenUnseen
<1>3. CASE Pick
  <2>1. PICK j \in DOMAIN jobs :
          /\ jobs[j] # None /\ jobs[j].status \in {"queued", "claimed"}
          /\ jobs' = [jobs EXCEPT ![j].status = "proving_local"]
    BY <1>3 DEF Pick, Overdue, Oldest, Are
  <2> QED BY <2>1, OpenUnseen
<1>4. ASSUME NEW w \in Workers, NEW proved \in BOOLEAN, Report(w, proved)
      PROVE  UNCHANGED View \/ Promise!JobsStep
  <2>1. worker[w] \in DOMAIN jobs
    BY <1>4 DEF Report, GatewayInv, InHand
  <2> QED BY <1>4, <2>1, EndSeen DEF Report
<1>5. ASSUME NEW proved \in BOOLEAN, LocalEnds(proved)
      PROVE  UNCHANGED View \/ Promise!JobsStep
  <2>1. local.job \in DOMAIN jobs
    BY <1>5 DEF LocalEnds, GatewayInv, InHand
  <2> QED BY <1>5, <2>1, EndSeen DEF LocalEnds
<1>6. UNCHANGED vars \/ Start \/ (\E w \in Workers : LoseReport(w)) => UNCHANGED jobs
  BY DEF vars, Start, LoseReport
<1> QED
  BY <1>1, <1>2, <1>3, <1>4, <1>5, <1>6, ProveQueues, PurgeSeen, RestartSeen
     DEF Next, Fallback, Promise!JobsNext

(***************************************************************************)
(* The safety part of KeepsJobsPromise: whoever polls sees a job queued,   *)
(* ended, ended again or lost, never reopened and never back from being    *)
(* lost.  (That every job ends or is lost is checked by TLC.)              *)
(***************************************************************************)
THEOREM PollsSeeJobs == Spec => Promise!JobsSafe
<1>1. Init => Promise!JobsInit
  BY DEF Init, Promise!JobsInit
<1>2. GatewayInv /\ [Next]_vars
        => [Promise!JobsNext]_[j \in DOMAIN jobs |-> PollView(jobs[j])]
  BY StepSeen DEF View
<1> QED BY <1>1, <1>2, GatewayInvariant, PTL DEF Spec, Promise!JobsSafe

===============================================================================
