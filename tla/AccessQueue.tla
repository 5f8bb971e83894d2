------------------------------ MODULE AccessQueue ------------------------------
(***************************************************************************)
(* How a member gets in, seen from the backend: the enrollment routes and  *)
(* the eligible and pending stores (backend/src/server.ts,                 *)
(* eligible-store.ts, enroll-store.ts), the queue of anonymous accesses    *)
(* and its flusher (batch-queue-store.ts), and the transactions they make  *)
(* (chain.ts) against the data room, which is DataRoom.                    *)
(*                                                                         *)
(* One room, owned by a wallet or by the relay account, in a deployment    *)
(* whose image is pinned.  The store of eligible members is append-only,   *)
(* so a set of them stands for the list and its Merkle root.  Files        *)
(* survive a restart of the backend; the flush and its calls do not.       *)
(***************************************************************************)
EXTENDS DataRoom

CONSTANTS
    Room,
    HolderKey,          \* the accessor each identity proves with
    Tickets,            \* bound: tickets at once (DR_BATCH_MAX_QUEUE)
    Floor,              \* the anonymity floor members ask for
    MaxCalls,           \* bound: calls and transactions in flight
    MaxCrashes          \* bound: restarts of the backend

Flush == [order: Seq(Tickets), n: Nat \ {0}, stage: {"reading", "sent", "landed"}]

Ticket == [bundle: MembershipProofs, status: {"queued", "submitted", "error"}]

ASSUME AccessQueueAssumption ==
    /\ Room \in Rooms
    /\ IsFiniteSet(Tickets)
    /\ None \notin Flush \cup Ticket
    /\ HolderKey \in [Identities -> Accessors]
    /\ Floor \in Nat /\ MaxCalls \in Nat /\ MaxCrashes \in Nat

VARIABLES
    owner,              \* who owns the room: "relay" or "wallet"
    eligible,           \* eligible-store: members of the room
    pending,            \* enroll-store: requests to join
    queue,              \* the batch queue: queue[t] = [bundle, status], status
                        \* "queued", "submitted" or "error"; or None
    flush,              \* the flush in progress, or None
    calls,              \* calls on their way to being sent, which may hang
    txs,                \* transactions that may still be applied
    crashes

\* A flush is [order, n, stage].  order: the shuffled snapshot; n: the entry
\* being submitted, whose call reads the account and simulates ("reading"),
\* waits for its transaction ("sent"), or has it ("landed").
\*
\* A call or a transaction is [by, awaited, bundle, root].  bundle or root, the
\* other None: what it is to do; by: the account whose sequence number it
\* carries; awaited: by the flush in progress.

storeVars == <<owner, eligible, pending>>
queueVars == <<storeVars, queue, flush, calls, txs, crashes>>
allVars == <<vars, queueVars>>

QueueInit ==
    /\ Init
    /\ owner \in {"relay", "wallet"}
    /\ eligible = {} /\ pending = {}
    /\ queue = [t \in Tickets |-> None]
    /\ flush = None /\ calls = {} /\ txs = {} /\ crashes = 0

\* The store grows; EligibleRoots bounds what it may hold.
Admits(S) == eligible' = eligible \cup S /\ eligible' \in EligibleRoots

MayCall == Cardinality(calls) + Cardinality(txs) < MaxCalls

-------------------------------------------------------------------------------
(* Enrollment. *)

Request(i) ==
    /\ i \notin eligible \cup pending
    /\ pending' = pending \cup {i}
    /\ UNCHANGED <<vars, owner, eligible, queue, flush, calls, txs, crashes>>

Reject(i) ==
    /\ i \in pending
    /\ pending' = pending \ {i}
    /\ UNCHANGED <<vars, owner, eligible, queue, flush, calls, txs, crashes>>

PinTx(by, root) == [by |-> by, awaited |-> FALSE, bundle |-> None, root |-> root]

\* The root of the whole store is to be pinned: the relay makes the call, or
\* the owner's wallet gets the transaction to sign.
Pins(root) ==
    /\ MayCall
    /\ IF owner = "relay"
       THEN calls' = calls \cup {PinTx("relay", root)} /\ UNCHANGED txs
       ELSE txs' = txs \cup {PinTx("wallet", root)} /\ UNCHANGED calls

\* approve: any commitment will do, requested or not.
Approve(i) ==
    /\ Admits({i})
    /\ pending' = pending \ {i}
    /\ Pins(eligible')
    /\ UNCHANGED <<vars, owner, queue, flush, crashes>>

\* approve-batch: only pending ones; those already eligible stay pending.
ApproveBatch(admit) ==
    /\ admit # {} /\ admit \subseteq pending
    /\ Admits(admit)
    /\ pending' = pending \ (admit \ eligible)
    /\ Pins(eligible')
    /\ UNCHANGED <<vars, owner, queue, flush, crashes>>

\* register adds a member and pins nothing; set-root pins what there is.
Register(i) ==
    /\ Admits({i})
    /\ UNCHANGED <<vars, owner, pending, queue, flush, calls, txs, crashes>>

SetRoot ==
    /\ eligible # {}
    /\ MayCall
    /\ calls' = calls \cup {PinTx("relay", eligible)}
    /\ UNCHANGED <<vars, storeVars, queue, flush, txs, crashes>>

-------------------------------------------------------------------------------
(* Members. *)

\* What prove-access makes for a member, of the store as it was when the
\* witness was built, whatever root is pinned; Floor is the size it asks for.
Bundles ==
    {p \in MembershipProofs :
        /\ p.room = Room
        /\ p.eligible_root \subseteq eligible
        /\ Cardinality(p.eligible_root) >= Floor
        /\ p.accessor = HolderKey[p.nullifier[1]]}

Queued == {t \in Tickets : queue[t] # None /\ queue[t].status = "queued"}

\* queue-access: the bundle comes with a nullifier and an accessor nobody holds
\* against it.  A nullifier that is queued already keeps its ticket and its
\* bundle (findQueued), and nothing changes; but any other may be claimed, so no
\* bundle is refused for what is queued.
QueueAccess(t, p) ==
    /\ queue[t] = None
    /\ queue' = [queue EXCEPT ![t] = [bundle |-> p, status |-> "queued"]]
    /\ UNCHANGED <<vars, storeVars, flush, calls, txs, crashes>>

\* What the simulation of request_access finds.
Passes(p) == p.image = membership_image /\ Eligible(p) /\ Fresh(p)

AccessTx(p, awaited) ==
    [by |-> "relay", awaited |-> awaited, bundle |-> p, root |-> None]

\* request-access, the route that does not wait for a window.
RequestNow(p) ==
    /\ MayCall
    /\ calls' = calls \cup {AccessTx(p, FALSE)}
    /\ UNCHANGED <<vars, storeVars, queue, flush, txs, crashes>>

-------------------------------------------------------------------------------
(* The flusher. *)

Orders(S) ==
    {o \in [1..Cardinality(S) -> S] : \A m, n \in DOMAIN o : o[m] = o[n] => m = n}

\* A window ends: the queue is snapshot and shuffled.
StartFlush ==
    /\ flush = None
    /\ Queued # {}
    /\ \E order \in Orders(Queued) :
          flush' = [order |-> order, n |-> 1, stage |-> "reading"]
    /\ UNCHANGED <<vars, storeVars, queue, calls, txs, crashes>>

Submitting == flush # None /\ flush.n <= Len(flush.order)

Current == queue[flush.order[flush.n]].bundle

\* getAccount, the simulation, sendTransaction.
SendAccess ==
    /\ Submitting
    /\ flush.stage = "reading"
    /\ Passes(Current)
    /\ MayCall
    /\ txs' = txs \cup {AccessTx(Current, TRUE)}
    /\ flush' = [flush EXCEPT !.stage = "sent"]
    /\ UNCHANGED <<vars, storeVars, queue, calls, crashes>>

\* markResult, and the next entry.
Marks(status) ==
    /\ queue' = [queue EXCEPT ![flush.order[flush.n]].status = status]
    /\ flush' = [flush EXCEPT !.n = @ + 1, !.stage = "reading"]

\* Wrong: what has been sent is taken for done.
Applied_wrong == Submitting /\ flush.stage # "reading"

Applied == Submitting /\ flush.stage = "landed"

Submitted ==
    /\ Applied
    /\ Marks("submitted")
    /\ UNCHANGED <<vars, storeVars, calls, txs, crashes>>

Unawaited == {[x EXCEPT !.awaited = FALSE] : x \in txs}

\* Wrong: an entry that fails ends the flush.
Failed_wrong ==
    /\ Submitting
    /\ flush' = None
    /\ txs' = Unawaited
    /\ UNCHANGED <<vars, storeVars, queue, calls, crashes>>

\* The simulation refuses it, a request fails, the transaction does, or it is
\* not found for 30 s, in which case it may still be applied.
Failed ==
    /\ Submitting
    /\ Marks("error")
    /\ txs' = Unawaited
    /\ UNCHANGED <<vars, storeVars, calls, crashes>>

\* withTimeout gives up on a call that hangs before it has sent anything; the
\* call is not stopped.
TimesOut ==
    /\ Submitting
    /\ flush.stage = "reading"
    /\ MayCall
    /\ calls' = calls \cup {AccessTx(Current, FALSE)}
    /\ Marks("error")
    /\ UNCHANGED <<vars, storeVars, txs, crashes>>

\* The flush ends and drops old entries that are done with.
EndFlush ==
    /\ flush # None
    /\ flush.n > Len(flush.order)
    /\ flush' = None
    /\ \E old \in SUBSET {t \in Tickets : queue[t] # None /\ t \notin Queued} :
          queue' = [t \in Tickets |-> IF t \in old THEN None ELSE queue[t]]
    /\ UNCHANGED <<vars, storeVars, calls, txs, crashes>>

-------------------------------------------------------------------------------
(* The chain and the backend's process. *)

\* Wrong: an approval whose call throws is taken back.
Throws_wrong(call) ==
    /\ eligible' = IF call.root = None THEN eligible
                   ELSE IF eligible_root[Room] = None THEN {} ELSE eligible_root[Room]
    /\ UNCHANGED txs

Throws(call) == UNCHANGED <<eligible, txs>>

\* A call is simulated and sent, or throws: nothing is undone.
SendCall(call) ==
    /\ call \in calls
    /\ calls' = calls \ {call}
    /\ \/ /\ IF call.bundle = None THEN owner = "relay" ELSE Passes(call.bundle)
          /\ txs' = txs \cup {call}
          /\ UNCHANGED eligible
       \/ Throws(call)
    /\ UNCHANGED <<vars, owner, pending, queue, flush, crashes>>

\* A transaction is applied, successfully or not: its sequence number is used,
\* so the account's others are void.
Land(tx) ==
    /\ tx \in txs
    /\ txs' = {x \in txs : x.by # tx.by}
    /\ \/ /\ tx.root # None
          /\ set_eligible_root(Room, tx.root)
          /\ UNCHANGED flush
       \/ /\ tx.bundle # None
          /\ request_access(tx.bundle)
          /\ flush' = IF tx.awaited THEN [flush EXCEPT !.stage = "landed"] ELSE flush
       \/ /\ tx.bundle # None
          /\ ~Passes(tx.bundle)
          /\ UNCHANGED <<vars, flush>>
    /\ UNCHANGED <<storeVars, queue, calls, crashes>>

\* It is dropped, or too late.
Expire(tx) ==
    /\ tx \in txs
    /\ txs' = txs \ {tx}
    /\ UNCHANGED <<vars, storeVars, queue, flush, calls, crashes>>

\* Between flushes a restart loses calls only, as SendCall may.
Restart ==
    /\ flush # None
    /\ crashes < MaxCrashes
    /\ crashes' = crashes + 1
    /\ flush' = None /\ calls' = {}
    /\ txs' = Unawaited
    /\ UNCHANGED <<vars, storeVars, queue>>

\* The deployment, and the room: bound: before anybody enrolls.
Ready == Room \in rooms /\ membership_image # None

Setup ==
    /\ ~Ready
    /\ \/ create_room(Room)
       \/ \E image \in Images : Room \in rooms /\ set_membership_image_id(image)
    /\ UNCHANGED queueVars

Enrollment ==
    \/ \E i \in Identities : Request(i) \/ Reject(i) \/ Approve(i) \/ Register(i)
    \/ \E admit \in SUBSET pending : ApproveBatch(admit)
    \/ SetRoot

Members ==
    \E p \in Bundles : RequestNow(p) \/ \E t \in Tickets : QueueAccess(t, p)

Flushing == SendAccess \/ Submitted \/ Failed \/ TimesOut \/ EndFlush

QueueNext ==
    \/ Setup
    \/ Ready /\ (Enrollment \/ Members)
    \/ StartFlush \/ Flushing \/ Restart
    \/ \E call \in calls : SendCall(call)
    \/ \E tx \in txs : Land(tx) \/ Expire(tx)

\* The timer fires at every window's end, and no call of a flush lasts for ever.
QueueFairness == WF_allVars(StartFlush) /\ WF_allVars(Flushing)

QueueSpec == QueueInit /\ [][QueueNext]_allVars /\ QueueFairness

-------------------------------------------------------------------------------
(* Properties. *)

(***************************************************************************)
(* What a ticket says is so: a member told its access was submitted has    *)
(* its grant on chain, although transactions are sent with a sequence      *)
(* number others compete for, are applied late or never, and the backend   *)
(* restarts in between.                                                    *)
(***************************************************************************)
SubmittedIsGranted ==
    \A t \in Tickets :
        queue[t] # None /\ queue[t].status = "submitted"
            => <<Room, queue[t].bundle.accessor>> \in DOMAIN grants

(***************************************************************************)
(* The store and the chain are updated in two steps that fail apart.       *)
(* Whatever order approvals' transactions are applied in, and whichever of *)
(* them are not, every leaf of the pinned root is in the store: once the   *)
(* chain knows a member, so does the list its members prove from.          *)
(***************************************************************************)
PinnedIsStored ==
    eligible_root[Room] # None => eligible_root[Room] \subseteq eligible

(***************************************************************************)
(* "A single bundle failing ... never blocks the rest of the batch": every *)
(* queued access is submitted or told its error, whichever others of its   *)
(* batch fail, through restarts.                                           *)
(***************************************************************************)
QueuedEnds == \A t \in Tickets : (t \in Queued) ~> (t \notin Queued)

===============================================================================
