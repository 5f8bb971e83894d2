------------------------------ MODULE QueueProofs ------------------------------
(***************************************************************************)
(* Proofs about enrollment and the access queue, for any members, tickets, *)
(* calls in flight and restarts.                                           *)
(*                                                                         *)
(* The argument: a transaction the flush waits for carries the bundle of   *)
(* the ticket it is at (AwaitedOK), so what lands then is that ticket's    *)
(* access; and everything on its way to be pinned is in the store already, *)
(* which never shrinks (PinsStored).  On the room the queue makes only     *)
(* calls that owners and members may make (QueueOnRoom).                   *)
(***************************************************************************)
EXTENDS AccessQueue, DataRoomProofs
USE AccessQueueAssumption

-------------------------------------------------------------------------------
(* The invariant. *)

RoomProofs == {p \in MembershipProofs : p.room = Room}

\* A call or a transaction.
Tx == [by: {"relay", "wallet"}, awaited: BOOLEAN, bundle: RoomProofs \cup {None},
       root: EligibleRoots \cup {None}]

QueueTypeOK ==
    /\ eligible \in EligibleRoots \cup {{}}
    /\ queue \in [Tickets -> Ticket \cup {None}]
    /\ \A t \in Tickets : queue[t] # None => queue[t].bundle \in RoomProofs
    /\ flush \in Flush \cup {None}
    /\ txs \subseteq Tx
    /\ calls \subseteq Tx /\ \A c \in calls : ~c.awaited

\* The tickets of the flush in progress are there.
FlushOK ==
    flush # None => \A m \in DOMAIN flush.order : queue[flush.order[m]] # None

AwaitedOK ==
    \A x \in txs : x.awaited =>
        /\ Submitting /\ flush.stage = "sent"
        /\ x.by = "relay"
        /\ x.bundle = Current

AppliedIsGranted ==
    Applied => <<Room, Current.accessor>> \in DOMAIN grants

PinsStored ==
    /\ eligible_root \in [Rooms -> EligibleRoots \cup {None}]
    /\ PinnedIsStored
    /\ \A c \in calls \cup txs : c.root # None => c.root \subseteq eligible

QueueInv ==
    /\ QueueTypeOK /\ FlushOK /\ AwaitedOK
    /\ AppliedIsGranted /\ SubmittedIsGranted /\ PinsStored

FlushState == <<queue, flush>>

\* What a step needs of the room: grants stay, and pinned roots come from the
\* store.
RoomKept ==
    /\ DOMAIN grants \subseteq DOMAIN grants'
    /\ eligible_root' \in [Rooms -> EligibleRoots \cup {None}]
    /\ eligible_root'[Room] # None => eligible_root'[Room] \subseteq eligible'

LEMMA RoomAlone ==
    ASSUME QueueInv, UNCHANGED vars, eligible \subseteq eligible'
    PROVE  RoomKept
BY DEF QueueInv, PinsStored, PinnedIsStored, RoomKept, vars, roomVars, memberVars

\* Queue and flush are left alone.
LEMMA FlushKept ==
    ASSUME QueueInv, RoomKept, UNCHANGED FlushState,
           eligible' \in EligibleRoots \cup {{}}, eligible \subseteq eligible',
           calls' \subseteq Tx, \A c \in calls' : ~c.awaited,
           txs' \subseteq Tx, \A x \in txs' : x.awaited => x \in txs,
           \A c \in calls' \cup txs' :
              c.root # None => c \in calls \cup txs \/ c.root \subseteq eligible'
    PROVE  QueueInv'
<1>1. QueueTypeOK'
  BY DEF QueueInv, QueueTypeOK, FlushState
<1>2. FlushOK' /\ AwaitedOK' /\ AppliedIsGranted' /\ SubmittedIsGranted'
  BY DEF QueueInv, FlushOK, AwaitedOK, AppliedIsGranted, SubmittedIsGranted, RoomKept,
         FlushState, Submitting, Applied, Current
<1>3. PinsStored'
  BY DEF QueueInv, PinsStored, PinnedIsStored, RoomKept
<1> QED BY <1>1, <1>2, <1>3 DEF QueueInv

-------------------------------------------------------------------------------
(* Steps that leave queue and flush alone. *)

LEMMA StoreGrows ==
    ASSUME QueueInv, UNCHANGED vars, NEW new, Admits(new)
    PROVE  RoomKept /\ eligible \subseteq eligible' /\ eligible' \in EligibleRoots
BY RoomAlone DEF Admits

LEMMA PinTyped ==
    ASSUME NEW by \in {"relay", "wallet"}, NEW root \in EligibleRoots
    PROVE  /\ PinTx(by, root) \in Tx
           /\ ~PinTx(by, root).awaited /\ PinTx(by, root).root = root
BY DEF PinTx, Tx

LEMMA AccessTyped ==
    ASSUME NEW p \in RoomProofs, NEW awaited \in BOOLEAN
    PROVE  /\ AccessTx(p, awaited) \in Tx
           /\ AccessTx(p, awaited).awaited = awaited
           /\ AccessTx(p, awaited).root = None
           /\ AccessTx(p, awaited).by = "relay"
           /\ AccessTx(p, awaited).bundle = p
BY DEF AccessTx, Tx

LEMMA PinsStep ==
    ASSUME QueueInv, UNCHANGED <<vars, queue, flush>>, NEW new, Admits(new),
           Pins(eligible')
    PROVE  QueueInv'
<1>1. RoomKept /\ eligible \subseteq eligible' /\ eligible' \in EligibleRoots
  BY StoreGrows
<1> DEFINE relayed == PinTx("relay", eligible')
           signed == PinTx("wallet", eligible')
<1>2. /\ relayed \in Tx /\ ~relayed.awaited /\ relayed.root = eligible'
      /\ signed \in Tx /\ ~signed.awaited /\ signed.root = eligible'
  BY <1>1, PinTyped
<1>3. \/ calls' = calls \cup {relayed} /\ txs' = txs
      \/ txs' = txs \cup {signed} /\ calls' = calls
  BY DEF Pins
<1> HIDE DEF relayed, signed
<1>4. /\ txs \subseteq Tx /\ calls \subseteq Tx /\ \A c \in calls : ~c.awaited
  BY DEF QueueInv, QueueTypeOK
<1>5. /\ calls' \subseteq Tx /\ \A c \in calls' : ~c.awaited
      /\ txs' \subseteq Tx /\ \A x \in txs' : x.awaited => x \in txs
      /\ \A c \in calls' \cup txs' :
            c.root # None => c \in calls \cup txs \/ c.root \subseteq eligible'
  BY <1>2, <1>3, <1>4
<1> QED BY <1>1, <1>5, FlushKept DEF FlushState

LEMMA EnrollmentStep ==
    ASSUME QueueInv, Enrollment
    PROVE  QueueInv'
<1>1. ASSUME NEW i \in Identities, Request(i) \/ Reject(i) \/ Register(i)
      PROVE  QueueInv'
  <2>1. RoomKept /\ eligible \subseteq eligible' /\ eligible' \in EligibleRoots \cup {{}}
    <3>1. CASE Request(i) \/ Reject(i)
      BY <3>1, RoomAlone DEF Request, Reject, QueueInv, QueueTypeOK
    <3>2. CASE Register(i)
      BY <3>2, StoreGrows DEF Register
    <3> QED BY <1>1, <3>1, <3>2
  <2>2. UNCHANGED <<queue, flush, calls, txs>>
    BY <1>1 DEF Request, Reject, Register
  <2> QED BY <2>1, <2>2, FlushKept DEF FlushState, QueueInv, QueueTypeOK
<1>2. ASSUME NEW i \in Identities, Approve(i)
      PROVE  QueueInv'
  BY <1>2, PinsStep DEF Approve
<1>3. ASSUME NEW admit \in SUBSET pending, ApproveBatch(admit)
      PROVE  QueueInv'
  BY <1>3, PinsStep DEF ApproveBatch
<1>4. CASE SetRoot
  <2> DEFINE call == PinTx("relay", eligible)
  <2>1. call \in Tx /\ ~call.awaited /\ call.root = eligible
    BY <1>4, PinTyped DEF SetRoot, QueueInv, QueueTypeOK
  <2>2. /\ calls' = calls \cup {call}
        /\ UNCHANGED <<vars, storeVars, queue, flush, txs>>
    BY <1>4 DEF SetRoot
  <2> HIDE DEF call
  <2>3. RoomKept
    BY <2>2, RoomAlone DEF storeVars
  <2> QED BY <2>1, <2>2, <2>3, FlushKept DEF storeVars, FlushState, QueueInv, QueueTypeOK
<1> QED BY <1>1, <1>2, <1>3, <1>4 DEF Enrollment

LEMMA RequestNowStep ==
    ASSUME QueueInv, NEW p \in Bundles, RequestNow(p)
    PROVE  QueueInv'
<1>1. p \in RoomProofs
  BY DEF Bundles, RoomProofs
<1> DEFINE call == AccessTx(p, FALSE)
<1>2. call \in Tx /\ ~call.awaited /\ call.root = None
  BY <1>1, AccessTyped
<1>3. /\ calls' = calls \cup {call}
      /\ UNCHANGED <<vars, storeVars, queue, flush, txs>>
  BY DEF RequestNow
<1> HIDE DEF call
<1>4. RoomKept
  BY <1>3, RoomAlone DEF storeVars
<1> QED BY <1>2, <1>3, <1>4, FlushKept DEF storeVars, FlushState, QueueInv, QueueTypeOK

\* What is sent was on its way.
LEMMA SendCallStep ==
    ASSUME QueueInv, NEW call \in calls, SendCall(call)
    PROVE  QueueInv'
<1>1. /\ UNCHANGED <<vars, eligible, queue, flush>>
      /\ calls' = calls \ {call}
      /\ txs' = txs \/ txs' = txs \cup {call}
  BY DEF SendCall, Throws
<1>2. RoomKept
  BY <1>1, RoomAlone
<1> QED BY <1>1, <1>2, FlushKept DEF FlushState, QueueInv, QueueTypeOK

LEMMA ExpireStep ==
    ASSUME QueueInv, NEW tx \in txs, Expire(tx)
    PROVE  QueueInv'
<1>1. /\ UNCHANGED <<vars, eligible, queue, flush, calls>>
      /\ txs' = txs \ {tx}
  BY DEF Expire, storeVars
<1>2. RoomKept
  BY <1>1, RoomAlone
<1> QED BY <1>1, <1>2, FlushKept DEF FlushState, QueueInv, QueueTypeOK

LEMMA SetupStep ==
    ASSUME QueueInv, Setup
    PROVE  QueueInv'
<1>1. /\ UNCHANGED <<grants, eligible_root>>
      /\ UNCHANGED <<eligible, queue, flush, calls, txs>>
  BY DEF Setup, create_room, set_membership_image_id, memberVars, queueVars, storeVars
<1>2. RoomKept
  BY <1>1 DEF RoomKept, QueueInv, PinsStored, PinnedIsStored
<1> QED BY <1>1, <1>2, FlushKept DEF FlushState, QueueInv, QueueTypeOK

-------------------------------------------------------------------------------
(* Steps of the flush. *)

LEMMA CurrentThere ==
    ASSUME QueueInv, Submitting
    PROVE  /\ flush \in Flush /\ flush.n \in DOMAIN flush.order
           /\ flush.order[flush.n] \in Tickets
           /\ queue[flush.order[flush.n]] \in Ticket
           /\ Current \in RoomProofs
<1>1. flush \in Flush /\ flush.order \in Seq(Tickets) /\ flush.n \in Nat \ {0}
  BY DEF Submitting, QueueInv, QueueTypeOK, Flush
<1>2. flush.n \in DOMAIN flush.order /\ flush.order[flush.n] \in Tickets
  BY <1>1 DEF Submitting
<1>3. queue[flush.order[flush.n]] # None
  BY <1>2 DEF Submitting, QueueInv, FlushOK
<1> QED BY <1>1, <1>2, <1>3 DEF Current, QueueInv, QueueTypeOK

\* The room, the store and the calls are left alone.
Elsewhere == <<vars, eligible, calls>>

LEMMA PinsKept ==
    ASSUME QueueInv, UNCHANGED Elsewhere,
           \A x \in txs' : x.root # None => \E y \in txs : y.root = x.root
    PROVE  PinsStored'
BY RoomAlone DEF Elsewhere, RoomKept, QueueInv, PinsStored, PinnedIsStored

LEMMA QueueAccessStep ==
    ASSUME QueueInv, NEW p \in Bundles, NEW t \in Tickets, QueueAccess(t, p)
    PROVE  QueueInv'
<1> DEFINE ticket == [bundle |-> p, status |-> "queued"]
<1>1. p \in RoomProofs /\ p \in MembershipProofs
  BY DEF Bundles, RoomProofs
<1>2. /\ ticket \in Ticket /\ ticket # None
      /\ ticket.bundle = p /\ ticket.status = "queued"
  BY <1>1, AccessQueueAssumption DEF Ticket
<1>3. /\ queue[t] = None
      /\ queue' = [queue EXCEPT ![t] = ticket]
      /\ UNCHANGED <<vars, eligible, flush, calls, txs>>
  BY DEF QueueAccess, storeVars
<1> HIDE DEF ticket
<1>4. QueueTypeOK'
  BY <1>1, <1>2, <1>3 DEF QueueInv, QueueTypeOK
<1>5. flush # None => \A m \in DOMAIN flush.order :
          flush.order[m] \in Tickets /\ flush.order[m] # t
  <2> SUFFICES ASSUME flush # None, NEW m \in DOMAIN flush.order
               PROVE  flush.order[m] \in Tickets /\ flush.order[m] # t
    OBVIOUS
  <2>1. flush.order \in Seq(Tickets)
    BY DEF QueueInv, QueueTypeOK, Flush
  <2> QED BY <1>3, <2>1 DEF QueueInv, FlushOK
<1>6. FlushOK'
  BY <1>3, <1>5 DEF QueueInv, QueueTypeOK, FlushOK
<1>7. Submitting => Current' = Current
  BY <1>3, <1>5, CurrentThere DEF Submitting, Current, QueueInv, QueueTypeOK
<1>8. AwaitedOK' /\ AppliedIsGranted'
  BY <1>3, <1>7 DEF QueueInv, AwaitedOK, AppliedIsGranted, Submitting, Applied,
                    vars, roomVars, memberVars
<1>9. SubmittedIsGranted'
  BY <1>2, <1>3 DEF QueueInv, QueueTypeOK, SubmittedIsGranted, vars, roomVars,
                    memberVars
<1>10. PinsStored'
  BY <1>3, PinsKept DEF Elsewhere
<1> QED BY <1>4, <1>6, <1>8, <1>9, <1>10 DEF QueueInv

LEMMA StartFlushStep ==
    ASSUME QueueInv, StartFlush
    PROVE  QueueInv'
<1>1. PICK order \in Orders(Queued) :
          flush' = [order |-> order, n |-> 1, stage |-> "reading"]
  BY DEF StartFlush
<1>2. /\ flush = None
      /\ UNCHANGED <<vars, eligible, queue, calls, txs>>
  BY DEF StartFlush, storeVars
<1>3. order \in Seq(Tickets) /\ \A m \in DOMAIN order : order[m] \in Queued
  <2>1. IsFiniteSet(Queued)
    BY FS_Subset, AccessQueueAssumption DEF Queued
  <2>2. Cardinality(Queued) \in Nat
    BY <2>1, FS_CardinalityType
  <2>3. order \in [1..Cardinality(Queued) -> Queued]
    BY <1>1 DEF Orders
  <2>4. Queued \subseteq Tickets
    BY DEF Queued
  <2> QED BY <2>2, <2>3, <2>4
<1>4. flush' \in Flush
  BY <1>1, <1>3 DEF Flush
<1>5. QueueTypeOK'
  BY <1>2, <1>4 DEF QueueInv, QueueTypeOK
<1>6. FlushOK'
  BY <1>1, <1>2, <1>3 DEF FlushOK, Queued
<1>7. AwaitedOK'
  BY <1>2 DEF QueueInv, AwaitedOK, Submitting
<1>8. AppliedIsGranted'
  BY <1>1 DEF AppliedIsGranted, Applied
<1>9. SubmittedIsGranted'
  BY <1>2 DEF QueueInv, SubmittedIsGranted, vars, roomVars, memberVars
<1>10. PinsStored'
  BY <1>2, PinsKept DEF Elsewhere
<1> QED BY <1>5, <1>6, <1>7, <1>8, <1>9, <1>10 DEF QueueInv

LEMMA SendAccessStep ==
    ASSUME QueueInv, SendAccess
    PROVE  QueueInv'
<1> DEFINE tx == AccessTx(Current, TRUE)
<1>1. /\ Submitting /\ flush.stage = "reading"
      /\ txs' = txs \cup {tx}
      /\ flush' = [flush EXCEPT !.stage = "sent"]
      /\ UNCHANGED <<vars, eligible, queue, calls>>
  BY DEF SendAccess, storeVars
<1>2. /\ flush \in Flush /\ flush.n \in DOMAIN flush.order
      /\ Current \in RoomProofs
  BY <1>1, CurrentThere
<1>3. /\ tx \in Tx /\ tx.root = None /\ tx.by = "relay" /\ tx.bundle = Current
  BY <1>2, AccessTyped
<1> HIDE DEF tx
<1>4. /\ flush' \in Flush /\ flush' # None
      /\ flush'.order = flush.order /\ flush'.n = flush.n /\ flush'.stage = "sent"
  BY <1>1, <1>2, AccessQueueAssumption DEF Flush
<1>5. Submitting' /\ Current' = Current
  BY <1>1, <1>4 DEF Submitting, Current
<1>6. QueueTypeOK' /\ FlushOK'
  BY <1>1, <1>3, <1>4 DEF QueueInv, QueueTypeOK, FlushOK, Submitting
<1>7. AwaitedOK'
  BY <1>1, <1>3, <1>4, <1>5 DEF QueueInv, AwaitedOK
<1>8. AppliedIsGranted' /\ SubmittedIsGranted'
  BY <1>1, <1>4 DEF QueueInv, AppliedIsGranted, Applied, SubmittedIsGranted, vars,
                    roomVars, memberVars
<1>9. PinsStored'
  BY <1>1, <1>3, PinsKept DEF Elsewhere
<1> QED BY <1>6, <1>7, <1>8, <1>9 DEF QueueInv

\* What marking the entry at hand does.
LEMMA MarksEffect ==
    ASSUME QueueInv, Submitting, NEW status \in {"submitted", "error"}, Marks(status),
           status = "submitted" => <<Room, Current.accessor>> \in DOMAIN grants,
           UNCHANGED <<vars, eligible>>
    PROVE  /\ queue' \in [Tickets -> Ticket \cup {None}]
           /\ \A t \in Tickets : queue'[t] # None => queue'[t].bundle \in RoomProofs
           /\ flush' \in Flush \cup {None}
           /\ FlushOK' /\ AppliedIsGranted' /\ SubmittedIsGranted'
<1> DEFINE t == flush.order[flush.n]
           ticket == [queue[t] EXCEPT !.status = status]
<1>1. /\ flush \in Flush /\ flush.n \in Nat /\ t \in Tickets
      /\ queue[t] \in Ticket /\ Current \in RoomProofs /\ Current = queue[t].bundle
  BY CurrentThere DEF Current, Flush
<1>2. /\ ticket \in Ticket /\ ticket # None
      /\ ticket.bundle = queue[t].bundle /\ ticket.status = status
  BY <1>1, AccessQueueAssumption DEF Ticket
<1>3. /\ queue' = [queue EXCEPT ![t] = ticket]
      /\ flush' = [flush EXCEPT !.n = flush.n + 1, !.stage = "reading"]
  BY DEF Marks
<1>4. /\ flush' \in Flush /\ flush' # None
      /\ flush'.order = flush.order /\ flush'.stage = "reading"
  <2>1. flush.n + 1 \in Nat \ {0}
    BY <1>1
  <2>2. flush' \in Flush
    BY <1>1, <1>3, <2>1 DEF Flush
  <2>3. flush'.order = flush.order /\ flush'.stage = "reading"
    BY <1>1, <1>3 DEF Flush
  <2> QED BY <2>2, <2>3, AccessQueueAssumption
<1> HIDE DEF t, ticket
<1>5. /\ queue' \in [Tickets -> Ticket \cup {None}]
      /\ \A u \in Tickets : queue'[u] # None => queue'[u].bundle \in RoomProofs
  BY <1>1, <1>2, <1>3 DEF QueueInv, QueueTypeOK
<1>6. \A u \in Tickets : queue[u] # None => queue'[u] # None
  BY <1>1, <1>2, <1>3 DEF QueueInv, QueueTypeOK
<1>7. FlushOK'
  <2>1. flush.order \in Seq(Tickets)
    BY <1>1 DEF Flush
  <2> QED BY <1>4, <1>6, <2>1 DEF QueueInv, FlushOK, Submitting
<1>8. AppliedIsGranted'
  BY <1>4 DEF AppliedIsGranted, Applied
<1>9. SubmittedIsGranted'
  BY <1>1, <1>2, <1>3 DEF QueueInv, QueueTypeOK, SubmittedIsGranted, vars, roomVars,
                          memberVars
<1> QED BY <1>4, <1>5, <1>7, <1>8, <1>9

LEMMA SubmittedStep ==
    ASSUME QueueInv, Submitted
    PROVE  QueueInv'
<1>1. /\ Submitting /\ flush.stage = "landed" /\ Marks("submitted")
      /\ <<Room, Current.accessor>> \in DOMAIN grants
      /\ UNCHANGED <<vars, eligible, calls, txs>>
  BY DEF Submitted, Applied, storeVars, QueueInv, AppliedIsGranted
<1>2. AwaitedOK'
  BY <1>1 DEF QueueInv, AwaitedOK
<1>3. PinsStored'
  BY <1>1, PinsKept DEF Elsewhere
<1> QED BY <1>1, <1>2, <1>3, MarksEffect DEF QueueInv, QueueTypeOK

\* Nothing is awaited any more.
LEMMA UnawaitedTyped ==
    ASSUME txs \subseteq Tx, txs' = Unawaited
    PROVE  /\ txs' \subseteq Tx
           /\ \A x \in txs' : ~x.awaited /\ \E y \in txs : y.root = x.root
BY DEF Unawaited, Tx

LEMMA FailedStep ==
    ASSUME QueueInv, Failed
    PROVE  QueueInv'
<1>1. /\ Submitting /\ Marks("error") /\ txs' = Unawaited
      /\ UNCHANGED <<vars, eligible, calls>>
  BY DEF Failed, storeVars
<1>2. /\ txs' \subseteq Tx
      /\ \A x \in txs' : ~x.awaited /\ \E y \in txs : y.root = x.root
  BY <1>1, UnawaitedTyped DEF QueueInv, QueueTypeOK
<1>3. AwaitedOK'
  BY <1>2 DEF AwaitedOK
<1>4. PinsStored'
  BY <1>1, <1>2, PinsKept DEF Elsewhere
<1> QED BY <1>1, <1>2, <1>3, <1>4, MarksEffect DEF QueueInv, QueueTypeOK

LEMMA TimesOutStep ==
    ASSUME QueueInv, TimesOut
    PROVE  QueueInv'
<1> DEFINE call == AccessTx(Current, FALSE)
<1>1. /\ Submitting /\ flush.stage = "reading" /\ Marks("error")
      /\ calls' = calls \cup {call}
      /\ UNCHANGED <<vars, eligible, txs>>
  BY DEF TimesOut, storeVars
<1>2. call \in Tx /\ ~call.awaited /\ call.root = None
  BY <1>1, CurrentThere, AccessTyped
<1> HIDE DEF call
<1>3. AwaitedOK'
  BY <1>1 DEF QueueInv, AwaitedOK
<1>4. PinsStored'
  BY <1>1, <1>2, RoomAlone DEF RoomKept, QueueInv, PinsStored, PinnedIsStored
<1> QED BY <1>1, <1>2, <1>3, <1>4, MarksEffect DEF QueueInv, QueueTypeOK

LEMMA EndFlushStep ==
    ASSUME QueueInv, EndFlush
    PROVE  QueueInv'
<1>1. /\ ~Submitting /\ flush' = None
      /\ UNCHANGED <<vars, eligible, calls, txs>>
  BY DEF EndFlush, storeVars, Submitting, QueueInv, QueueTypeOK, Flush
<1>2. PICK old : queue' = [t \in Tickets |-> IF t \in old THEN None ELSE queue[t]]
  BY DEF EndFlush
<1>3. QueueTypeOK'
  BY <1>1, <1>2 DEF QueueInv, QueueTypeOK
<1>4. FlushOK' /\ AwaitedOK' /\ AppliedIsGranted'
  BY <1>1 DEF FlushOK, QueueInv, AwaitedOK, AppliedIsGranted, Applied, Submitting
<1>5. SubmittedIsGranted'
  BY <1>1, <1>2 DEF QueueInv, SubmittedIsGranted, vars, roomVars, memberVars
<1>6. PinsStored'
  BY <1>1, PinsKept DEF Elsewhere
<1> QED BY <1>3, <1>4, <1>5, <1>6 DEF QueueInv

LEMMA RestartStep ==
    ASSUME QueueInv, Restart
    PROVE  QueueInv'
<1>1. /\ flush' = None /\ calls' = {} /\ txs' = Unawaited
      /\ UNCHANGED <<vars, eligible, queue>>
  BY DEF Restart, storeVars
<1>2. /\ txs' \subseteq Tx
      /\ \A x \in txs' : ~x.awaited /\ \E y \in txs : y.root = x.root
  BY <1>1, UnawaitedTyped DEF QueueInv, QueueTypeOK
<1>3. QueueTypeOK'
  BY <1>1, <1>2 DEF QueueInv, QueueTypeOK
<1>4. FlushOK' /\ AwaitedOK' /\ AppliedIsGranted' /\ SubmittedIsGranted'
  BY <1>1, <1>2 DEF FlushOK, AwaitedOK, AppliedIsGranted, Applied, Submitting,
                    QueueInv, SubmittedIsGranted, vars, roomVars, memberVars
<1>5. PinsStored'
  BY <1>1, <1>2, RoomAlone DEF RoomKept, QueueInv, PinsStored, PinnedIsStored
<1> QED BY <1>3, <1>4, <1>5 DEF QueueInv

-------------------------------------------------------------------------------
(* The chain applies a transaction. *)

LEMMA LandStep ==
    ASSUME QueueInv, NEW tx \in txs, Land(tx)
    PROVE  QueueInv'
<1>1. /\ txs' = {x \in txs : x.by # tx.by}
      /\ UNCHANGED <<eligible, queue, calls>>
      /\ tx \in Tx
      /\ tx.awaited => /\ Submitting /\ flush.stage = "sent"
                       /\ tx.by = "relay" /\ tx.bundle = Current
  BY DEF Land, storeVars, QueueInv, QueueTypeOK, AwaitedOK
\* The account of the awaited transaction is the relay's.
<1>2. tx.awaited => \A x \in txs' : ~x.awaited
  BY <1>1 DEF QueueInv, AwaitedOK
<1>3. CASE UNCHANGED <<vars, flush>>
  BY <1>1, <1>3, RoomAlone, FlushKept DEF FlushState, QueueInv, QueueTypeOK
<1>4. CASE tx.root # None /\ set_eligible_root(Room, tx.root) /\ UNCHANGED flush
  <2>1. tx.root \in EligibleRoots /\ tx.root \subseteq eligible
    BY <1>1, <1>4 DEF Tx, QueueInv, PinsStored
  <2>2. /\ eligible_root' = [eligible_root EXCEPT ![Room] = tx.root]
        /\ UNCHANGED grants
    BY <1>4 DEF set_eligible_root
  <2>3. RoomKept
    BY <1>1, <2>1, <2>2, AccessQueueAssumption DEF RoomKept, QueueInv, PinsStored
  <2> QED BY <1>1, <1>4, <2>3, FlushKept DEF FlushState, QueueInv, QueueTypeOK
<1>5. CASE /\ tx.bundle # None /\ request_access(tx.bundle)
           /\ flush' = IF tx.awaited THEN [flush EXCEPT !.stage = "landed"] ELSE flush
  <2>1. tx.bundle.room = Room
    BY <1>1, <1>5 DEF Tx, RoomProofs
  <2>2. /\ DOMAIN grants' = DOMAIN grants \cup {<<Room, tx.bundle.accessor>>}
        /\ UNCHANGED eligible_root
    BY <1>5, <2>1 DEF request_access, Put
  <2>3. RoomKept
    BY <1>1, <2>2 DEF RoomKept, QueueInv, PinsStored, PinnedIsStored
  <2>4. CASE ~tx.awaited
    BY <1>1, <1>5, <2>3, <2>4, FlushKept DEF FlushState, QueueInv, QueueTypeOK
  <2>5. CASE tx.awaited
    <3>1. flush' = [flush EXCEPT !.stage = "landed"]
      BY <1>5, <2>5
    <3>2. /\ flush \in Flush /\ flush.n \in DOMAIN flush.order
      BY <1>1, <2>5, CurrentThere
    <3>3. /\ flush' \in Flush /\ flush' # None
          /\ flush'.order = flush.order /\ flush'.n = flush.n
          /\ flush'.stage = "landed"
      BY <3>1, <3>2, AccessQueueAssumption DEF Flush
    <3>4. QueueTypeOK' /\ FlushOK'
      BY <1>1, <2>5, <3>3 DEF QueueInv, QueueTypeOK, FlushOK, Submitting
    <3>5. AwaitedOK'
      BY <1>2, <2>5 DEF AwaitedOK
    <3>6. Current' = tx.bundle
      BY <1>1, <2>5, <3>3 DEF Current
    <3>7. AppliedIsGranted'
      BY <2>2, <3>6 DEF AppliedIsGranted
    <3>8. SubmittedIsGranted'
      BY <1>1, <2>2 DEF QueueInv, SubmittedIsGranted
    <3>9. PinsStored'
      BY <1>1, <2>3 DEF RoomKept, QueueInv, PinsStored, PinnedIsStored
    <3> QED BY <3>4, <3>5, <3>7, <3>8, <3>9 DEF QueueInv
  <2> QED BY <2>4, <2>5
<1> QED BY <1>3, <1>4, <1>5 DEF Land

-------------------------------------------------------------------------------
LEMMA QueueInvStep == QueueInv /\ [QueueNext]_allVars => QueueInv'
<1> SUFFICES ASSUME QueueInv, [QueueNext]_allVars PROVE QueueInv'
  OBVIOUS
<1>1. CASE UNCHANGED allVars
  <2>1. UNCHANGED <<vars, eligible, queue, flush, calls, txs>>
    BY <1>1 DEF allVars, queueVars, storeVars
  <2> QED BY <2>1, RoomAlone, FlushKept DEF FlushState, QueueInv, QueueTypeOK
<1>2. CASE Members
  BY <1>2, RequestNowStep, QueueAccessStep DEF Members
<1>3. CASE Flushing
  BY <1>3, SendAccessStep, SubmittedStep, FailedStep, TimesOutStep, EndFlushStep
     DEF Flushing
<1> QED
  BY <1>1, <1>2, <1>3, SetupStep, EnrollmentStep, StartFlushStep, RestartStep,
     SendCallStep, LandStep, ExpireStep DEF QueueNext

LEMMA QueueInvInit == QueueInit => QueueInv
<1> SUFFICES ASSUME QueueInit PROVE QueueInv
  OBVIOUS
<1>1. QueueTypeOK
  BY DEF QueueInit, QueueTypeOK
<1>2. FlushOK /\ AwaitedOK /\ AppliedIsGranted /\ SubmittedIsGranted
  BY DEF QueueInit, FlushOK, AwaitedOK, AppliedIsGranted, Applied, Submitting,
         SubmittedIsGranted
<1>3. PinsStored
  BY AccessQueueAssumption DEF QueueInit, Init, PinsStored, PinnedIsStored
<1> QED BY <1>1, <1>2, <1>3 DEF QueueInv

LEMMA QueueInvariant == QueueSpec => []QueueInv
BY QueueInvInit, QueueInvStep, PTL DEF QueueSpec

(***************************************************************************)
(* A ticket that says submitted has its grant on chain, for any number of  *)
(* members, tickets and transactions, in any order of landing, time-out    *)
(* and restart: what lands while the flush waits is its own ticket's       *)
(* bundle, and only that marks it.                                         *)
(***************************************************************************)
THEOREM SubmittedAccessIsGranted == QueueSpec => []SubmittedIsGranted
<1>1. QueueInv => SubmittedIsGranted
  BY DEF QueueInv
<1> QED BY <1>1, QueueInvariant, PTL

(***************************************************************************)
(* Whatever the order and the fate of approvals' transactions, every leaf  *)
(* of the pinned root is in the store: every root on its way was taken     *)
(* from the store, and the store only grows.                               *)
(***************************************************************************)
THEOREM PinnedRootsAreStored == QueueSpec => []PinnedIsStored
<1>1. QueueInv => PinnedIsStored
  BY DEF QueueInv, PinsStored
<1> QED BY <1>1, QueueInvariant, PTL

-------------------------------------------------------------------------------
(* On the room, the backend makes only calls the room's users may make.    *)

LEMMA RoomStep ==
    ASSUME QueueInv, [QueueNext]_allVars
    PROVE  [Next]_vars
<1>1. CASE Setup
  BY <1>1, AccessQueueAssumption DEF Setup, Next, AccessStep, Owner
<1>2. ASSUME NEW tx \in txs, Land(tx)
      PROVE  [Next]_vars
  <2>1. tx \in Tx
    BY <1>2 DEF QueueInv, QueueTypeOK
  <2>2. CASE tx.root # None /\ set_eligible_root(Room, tx.root)
    <3>1. tx.root \in EligibleRoots
      BY <2>1, <2>2 DEF Tx
    <3> QED BY <2>2, <3>1, AccessQueueAssumption DEF Next, AccessStep, Owner
  <2>3. CASE tx.bundle # None /\ request_access(tx.bundle)
    <3>1. tx.bundle \in MembershipProofs
      BY <2>1, <2>3 DEF Tx, RoomProofs
    <3> QED BY <2>3, <3>1 DEF Next, AccessStep, Anyone
  <2> QED BY <1>2, <2>2, <2>3 DEF Land
<1>3. CASE Enrollment \/ Members
  BY <1>3 DEF Enrollment, Request, Reject, Approve, Register, ApproveBatch, SetRoot,
              Members, RequestNow, QueueAccess
<1>4. CASE StartFlush \/ Flushing \/ Restart
  BY <1>4 DEF StartFlush, Flushing, SendAccess, Submitted, Failed, TimesOut,
              EndFlush, Restart
<1>5. CASE \/ \E call \in calls : SendCall(call)
           \/ \E tx \in txs : Expire(tx)
           \/ UNCHANGED allVars
  BY <1>5 DEF SendCall, Expire, allVars
<1> QED BY <1>1, <1>2, <1>3, <1>4, <1>5 DEF QueueNext

(***************************************************************************)
(* Enrollment, the queue and their transactions are behaviours of the data *)
(* room: whatever is proved of every use of a room (one access per         *)
(* identity, live grants of eligible members, revoked members staying out) *)
(* holds of a room the backend fills.                                      *)
(***************************************************************************)
THEOREM QueueOnRoom == QueueSpec => Spec
<1>1. QueueInit => Init
  BY DEF QueueInit
<1>2. QueueInv /\ [QueueNext]_allVars => [Next]_vars
  BY RoomStep
<1> QED BY <1>1, <1>2, QueueInvariant, PTL DEF QueueSpec, Spec

(***************************************************************************)
(* With whatever was approved, rejected, lost and retried, whoever the     *)
(* contract grants access now is a member of the store: chain and store    *)
(* agree, although nothing ties their updates together.                    *)
(***************************************************************************)
THEOREM GrantedAreEnrolled ==
    QueueSpec => [](\A a \in Accessors :
                      is_granted(Room, a) => Prover(grants[<<Room, a>>]) \in eligible)
<1>1. GrantedIsEligible /\ PinnedIsStored =>
        \A a \in Accessors :
           is_granted(Room, a) => Prover(grants[<<Room, a>>]) \in eligible
  BY AccessQueueAssumption DEF GrantedIsEligible, PinnedIsStored, is_granted
<1> QED BY <1>1, QueueOnRoom, GrantsAreEligible, PinnedRootsAreStored, PTL

===============================================================================
