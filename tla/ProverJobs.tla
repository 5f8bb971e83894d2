------------------------------- MODULE ProverJobs -------------------------------
(***************************************************************************)
(* What the backend relies on of the prover gateway, and sees of it by     *)
(* GET /prove/<id>: the abstract specification that ProverGateway          *)
(* implements.  A job ends, with a bundle or an error, or is lost.  The    *)
(* verdict is not final: a job may be proven twice, and the later report   *)
(* is the one that is seen, as long as the job is kept.                    *)
(***************************************************************************)
EXTENDS Naturals, Sequences

CONSTANT MaxJobs    \* bound: jobs ever queued

ASSUME MaxJobsAssumption == MaxJobs \in Nat

VARIABLE view       \* view[j]: what a poll of the j-th job queued finds

Ids == 1..MaxJobs

\* done: with a bundle; gone: 404.
Views == {"open", "done", "error", "gone"}

JobsInit == view = <<>>

\* POST /prove.
Queue ==
    /\ Len(view) < MaxJobs
    /\ view' = Append(view, "open")

\* Somebody reports: the first time, or again.
End(j, verdict) ==
    /\ view[j] # "gone"
    /\ view' = [view EXCEPT ![j] = verdict]

\* Finished jobs are purged, and a restart loses them all.
Lose(S) == view' = [j \in DOMAIN view |-> IF j \in S THEN "gone" ELSE view[j]]

JobsStep ==
    \/ \E j \in DOMAIN view, verdict \in {"done", "error"} : End(j, verdict)
    \/ \E j \in DOMAIN view : view[j] # "open" /\ Lose({j})
    \/ Lose(DOMAIN view)

JobsNext == Queue \/ JobsStep

Open(j) == j \in DOMAIN view /\ view[j] = "open"

JobsSafe == JobsInit /\ [][JobsNext]_view

JobsSpec ==
    /\ JobsSafe
    /\ \A j \in Ids : Open(j) ~> ~Open(j)

================================================================================
