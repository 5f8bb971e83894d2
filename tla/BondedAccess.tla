----------------------------- MODULE BondedAccess -----------------------------
(***************************************************************************)
(* Bonded access end to end: the escrow, the off-chain qualifying-set      *)
(* indexer (backend/src/bond.ts, buildBondQualSet) and the bond gate.      *)
(*                                                                         *)
(* The gate reads no lock.  It trusts a root that an indexer computed from *)
(* lock records read one by one, at different ledger times, and published  *)
(* some time later; the proof arrives later still, and the gate keeps      *)
(* accepting older roots.  What makes that sound is the escrow.            *)
(***************************************************************************)
EXTENDS Escrow, BondGate

CONSTANTS
    Scanners,       \* concurrent qual-set requests at the backend
    ScanBatch,      \* SCAN_BATCH
    ScanMax,        \* SCAN_MAX
    MinAnonSet      \* BOND_MIN_ANON_SET

ASSUME BondedAccessAssumption ==
    /\ Identities \subseteq Commitments
    /\ ScanBatch \in Nat \ {0}
    /\ ScanMax \in Nat
    /\ MinAnonSet \in Nat

VARIABLE scan       \* scan[s]: the indexer run of request s

vars == <<now, escrowVars, gateVars, scan>>

\* A run of the indexer: the requirement, the wall-clock time taken at its
\* start, the first id of the current batch, the ids of the batch whose reads
\* have not returned, whether the batch found a lock, and the commitments
\* found.  due is a history field: what qualified when the run started.
Run == [stage: {"reading", "done"}, req: Reqs, clock: Nat, start: Nat,
        pending: SUBSET Nat, any_found: BOOLEAN, found: Roots, due: Roots]

\* The ids of the batch that begins at id start.
Batch(start) == {id \in start..(start + ScanBatch - 1) : id <= ScanMax}

TypeOK ==
    /\ EscrowTypeOK
    /\ GateTypeOK
    /\ scan \in [Scanners -> Run \cup {None}]

Init ==
    /\ EscrowInit
    /\ GateInit
    /\ scan = [s \in Scanners |-> None]

-------------------------------------------------------------------------------
(* The indexer. *)

\* Wrong (definitions named ..._wrong seed the bug one property must catch):
\* revocable locks pass the filter.
Meets_wrong(lock, req) ==
    /\ lock.token = req.token
    /\ lock.amount >= req.min_amount
    /\ lock.unlock_time >= req.deadline
    /\ lock.commitment \in Identities

\* The filter on one lock record: the lock has not been released, the wall
\* clock read at the start is before its unlock time, and it meets the
\* requirement with a commitment that is an identity's (not all zeroes).
Meets(lock, req) ==
    /\ ~lock.revocable
    /\ lock.token = req.token
    /\ lock.amount >= req.min_amount
    /\ lock.unlock_time >= req.deadline
    /\ lock.commitment \in Identities

Qualifies(lock, req, clock) ==
    /\ ~lock.released
    /\ clock < lock.unlock_time
    /\ Meets(lock, req)

\* A request for a requirement with a positive amount starts a run.  The wall
\* clock is the server's own: nothing ties it to the ledger's.
StartScan(s) ==
    \E req \in Reqs, clock \in 0..MaxTime :
        /\ scan[s] = None
        /\ req.min_amount > 0
        /\ scan' = [scan EXCEPT ![s] =
              [stage |-> "reading", req |-> req, clock |-> clock, start |-> 1,
               pending |-> Batch(1), any_found |-> FALSE, found |-> {},
               due |-> {locks[id].commitment : id \in
                          {i \in DOMAIN locks : Qualifies(locks[i], req, clock)}}]]
        /\ UNCHANGED <<now, escrowVars, gateVars>>

\* One get_lock of the current batch returns: the record as it is now, or
\* nothing.
ReadLock(s) ==
    /\ scan[s] # None
    /\ scan[s].stage = "reading"
    /\ \E id \in scan[s].pending :
          scan' = [scan EXCEPT
            ![s].pending = scan[s].pending \ {id},
            ![s].any_found = scan[s].any_found \/ id \in DOMAIN locks,
            ![s].found =
                IF /\ id \in DOMAIN locks
                   /\ Qualifies(locks[id], scan[s].req, scan[s].clock)
                THEN scan[s].found \cup {locks[id].commitment}
                ELSE scan[s].found]
    /\ UNCHANGED <<now, escrowVars, gateVars>>

\* Wrong: stops one batch early.
EndBatch_wrong(s) ==
    /\ scan[s] # None
    /\ scan[s].stage = "reading"
    /\ scan[s].pending = {}
    /\ LET next == scan[s].start + ScanBatch IN
       scan' = IF ~scan[s].any_found \/ next >= ScanMax
               THEN [scan EXCEPT ![s].stage = "done"]
               ELSE [scan EXCEPT ![s].start = next,
                                 ![s].pending = Batch(next),
                                 ![s].any_found = FALSE]
    /\ UNCHANGED <<now, escrowVars, gateVars>>

\* All reads of a batch have returned: stop after an empty batch or at
\* ScanMax, else go on to the next batch.
EndBatch(s) ==
    /\ scan[s] # None
    /\ scan[s].stage = "reading"
    /\ scan[s].pending = {}
    /\ LET next == scan[s].start + ScanBatch IN
       scan' = IF ~scan[s].any_found \/ next > ScanMax
               THEN [scan EXCEPT ![s].stage = "done"]
               ELSE [scan EXCEPT ![s].start = next,
                                 ![s].pending = Batch(next),
                                 ![s].any_found = FALSE]
    /\ UNCHANGED <<now, escrowVars, gateVars>>

\* The backend publishes the root of a large enough set ...
PublishRoot(s) ==
    /\ scan[s] # None
    /\ scan[s].stage = "done"
    /\ Cardinality(scan[s].found) >= MinAnonSet
    /\ set_qual_root(scan[s].req, scan[s].found)
    /\ scan' = [scan EXCEPT ![s] = None]
    /\ UNCHANGED <<now, escrowVars>>

\* ... or the request ends without one: the set is too small, the root is
\* already in the ring, a read failed or the backend restarted.
AbandonScan(s) ==
    /\ scan[s] # None
    /\ scan' = [scan EXCEPT ![s] = None]
    /\ UNCHANGED <<now, escrowVars, gateVars>>

Indexer ==
    \E s \in Scanners :
        StartScan(s) \/ ReadLock(s) \/ EndBatch(s) \/ PublishRoot(s)
            \/ AbandonScan(s)

Next ==
    \/ EscrowCall /\ UNCHANGED <<now, gateVars, scan>>
    \/ GateCall /\ UNCHANGED <<now, escrowVars, scan>>
    \/ Indexer
    \/ Tick /\ UNCHANGED <<escrowVars, gateVars, scan>>

Spec == Init /\ [][Next]_vars

-------------------------------------------------------------------------------
(* Properties. *)

\* Identity i has money in the escrow that meets req and cannot leave yet.
Bonded(i, req) ==
    \E id \in DOMAIN locks :
        /\ locks[id].commitment = i
        /\ Meets(locks[id], req)
        /\ ~locks[id].released

(***************************************************************************)
(* The gate's central promise: an accessor that is_granted_for admits      *)
(* belongs to an identity that is a member of that very root and whose     *)
(* qualifying bond is still in the escrow, although the gate never reads a *)
(* lock, the set was read piecemeal and the accepted root may be old.      *)
(***************************************************************************)
GrantImpliesBondedMember ==
    \A a \in Accessors, req \in Reqs, root \in MemberRoots :
        is_granted_for(a, req, root) =>
            \E i \in root : grants[<<a, req>>].nullifier = <<i, req>>
                            /\ Bonded(i, req)

(***************************************************************************)
(* The same for the approval-free path: is_open_granted means a qualifying *)
(* bond of the identity that proved it is still in the escrow.             *)
(***************************************************************************)
OpenGrantImpliesBonded ==
    \A a \in Accessors, req \in Reqs :
        is_open_granted(a, req) =>
            \E i \in Identities :
                /\ open_grants[<<a, req>>].nullifier = <<i, req>>
                /\ Bonded(i, req)

(***************************************************************************)
(* One grant per identity and requirement on each path, over the whole     *)
(* history: however many proofs an identity makes, with whatever accessor, *)
(* root or nullifier context, it is granted a requirement once.            *)
(***************************************************************************)
Prover(grant) == grant.nullifier[1]

OneGrantPerIdentity ==
    /\ \A j, k \in DOMAIN log :
          Prover(log[j]) = Prover(log[k]) /\ log[j].req = log[k].req => j = k
    /\ \A j, k \in DOMAIN open_log :
          Prover(open_log[j]) = Prover(open_log[k])
            /\ open_log[j].req = open_log[k].req => j = k

(***************************************************************************)
(* The indexer never leaves a member out: when a run ends before the       *)
(* deadline, every commitment that qualified when it began is in its set,  *)
(* whatever was deposited or released while it read.                       *)
(***************************************************************************)
ScanComplete ==
    \A s \in Scanners :
        scan[s] # None =>
            (scan[s].stage = "done" /\ now < scan[s].req.deadline
                => scan[s].due \subseteq scan[s].found)

===============================================================================
