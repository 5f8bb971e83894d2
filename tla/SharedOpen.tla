------------------------------ MODULE SharedOpen ------------------------------
(***************************************************************************)
(* Opening a shared document in the browser,                               *)
(* frontend/src/lib/hooks/useSharedOpen.ts, with the local ticket store    *)
(* (lib/dataroom/openTicket.ts), the memory cache of opened documents      *)
(* (openCache.ts), and, in outline, the relay's queue and the room.        *)
(*                                                                         *)
(* Every async function of the hook is a flow: it keeps the address and    *)
(* the room of the render that started it, and goes on after each await    *)
(* whatever happened since, unless the shared ref `cancelled` is set when  *)
(* it looks.  Leaving the panel unmounts the hook: its flows are orphans,  *)
(* whose ref stays set and whose state updates do nothing.                 *)
(*                                                                         *)
(* A room admits members, through the relay's batch, or holders of a bond, *)
(* directly.  The rooms that ask a member for a bond, the inline deposit   *)
(* and the sync of the room list are left out.                             *)
(***************************************************************************)
EXTENDS Integers, FiniteSets

CONSTANTS
    None,
    Accounts,           \* wallet accounts of this browser
    Rooms, Docs,
    RoomOf,             \* the room of each document
    BondRooms,          \* rooms a bond opens; the others admit members
    MaxMoves,           \* bound: times the reader goes to another room, leaves the
                        \* panel or collapses a row, or the wallet locks or
                        \* changes account
    Flows,              \* bound: flows running at once
    Tickets             \* bound: tickets the relay hands out

ASSUME SharedOpenAssumption ==
    /\ RoomOf \in [Docs -> Rooms] /\ BondRooms \subseteq Rooms
    /\ MaxMoves \in Nat
    /\ None \notin Accounts \cup Rooms \cup Docs \cup Tickets

VARIABLES
    address,            \* the connected account, or None
    moves,              \* what MaxMoves bounds
    mounted,            \* whether the panel is shown
    view,               \* the hook's React state
    cancelled,          \* cancelled.current
    resumed,            \* resumedFor.current
    flow,               \* flow[f]: flow f, or None
    cache,              \* openCache: opened documents and expanded rows
    last_room,          \* openCache: the room each account viewed last
    stored,             \* local storage: the ticket of each account and room
    relay,              \* relay[t]: ticket t of the batch queue, or None
    granted,            \* readers admitted now
    spent               \* readers whose nullifier is spent

tabVars == <<address, moves, mounted, resumed, last_room>>
serverVars == <<relay, granted, spent>>
vars == <<tabVars, view, cancelled, flow, cache, stored, serverVars>>

\* A reader: the identity an account derives for a room.
Ids == Accounts \X Rooms

Busy == {"checking", "bond-detecting", "proving", "queuing", "waiting", "opening"}

\* The other phases are "idle", "approved", "bond-ready", "error", and "blocked",
\* which stands for those that only tell the reader what is missing.

\* A flow is [at, address, room, doc, id, ticket, live].  at: the step it is in;
\* address, room: those of the render that started it; live: still mounted.

\* Where a flow goes on to effects outside the panel before it looks at the
\* ref again; elsewhere an orphan just ends.
Outliving == {"proving", "queuing", "submitting", "receiving", "waiting"}

Nothing == [d \in Docs |-> None]

\* resetFlow, in room r.  opened[d] is [by, ok]: who opened d, and whether it
\* was decrypted.
Fresh(r) ==
    [room |-> r, phase |-> "idle", doc |-> None, identity |-> None,
     opened |-> Nothing, failed |-> {}, expanded |-> {}, ready |-> FALSE]

NoCache == [k \in Ids |-> [opened |-> Nothing, expanded |-> {}]]

Init ==
    /\ address = None /\ mounted = TRUE /\ cancelled = TRUE
    /\ moves = 0
    /\ view = Fresh(None)
    /\ resumed = None
    /\ flow = [f \in Flows |-> None]
    /\ cache = NoCache
    /\ last_room = [a \in Accounts |-> None]
    /\ stored = [k \in Ids |-> None]
    /\ relay = [t \in Tickets |-> None]
    /\ granted = {} /\ spent = {}

-------------------------------------------------------------------------------
(* Flows. *)

\* The first unused flow.
Unused(f) == flow[f] = None /\ f = CHOOSE g \in Flows : flow[g] = None

\* An unused flow starts for document d, in the render shown.
Start(f, at, d, id) ==
    /\ Unused(f)
    /\ flow' = [flow EXCEPT ![f] =
          [at |-> at, address |-> address, room |-> view.room, doc |-> d,
           id |-> id, ticket |-> None, live |-> TRUE]]

At(f, at) == flow[f] # None /\ flow[f].at = at

Goes(f, at) == flow' = [flow EXCEPT ![f].at = at]

Ends(f) == flow' = [flow EXCEPT ![f] = None]

\* What flow f finds in its cancelled ref.
Cancelled(f) == cancelled \/ ~flow[f].live

\* A state update of flow f.
Shows(f, v) == view' = IF flow[f].live THEN v ELSE view

Phase(p) == [view EXCEPT !.phase = p]

Stops(f) == Cancelled(f) /\ Ends(f) /\ UNCHANGED view

\* A flow throws: the error is shown, unless it was cancelled.
Fails(f) ==
    Stops(f) \/ (~Cancelled(f) /\ Ends(f) /\ Shows(f, Phase("error")))

ByBond(f) == flow[f].room \in BondRooms

CacheOpened(a, r, opened) ==
    cache' = IF <<a, r>> \in Ids
             THEN [cache EXCEPT ![<<a, r>>].opened = opened] ELSE cache

\* clearOpenTicket: nothing happens under an empty room.
Forget(k) == stored' = IF k \in Ids THEN [stored EXCEPT ![k] = None] ELSE stored

\* doOpen drops what the row of d showed before.
Opening(d) ==
    [view EXCEPT !.phase = "opening", !.doc = d, !.opened[d] = None,
                 !.failed = @ \ {d}]

\* Flow f calls doOpen.
Opens(f, id) ==
    /\ flow' = [flow EXCEPT ![f].at = "opening", ![f].id = id]
    /\ Shows(f, Opening(flow[f].doc))
    /\ IF flow[f].live /\ view.opened[flow[f].doc] # None
       THEN CacheOpened(flow[f].address, flow[f].room, view'.opened)
       ELSE UNCHANGED cache

-------------------------------------------------------------------------------
(* What the reader does, and the effects that follow in the same render. *)

\* selectRoom, with what this account has opened there before.
Restored(a, r) == [Fresh(r) EXCEPT !.opened = cache[<<a, r>>].opened,
                                   !.expanded = cache[<<a, r>>].expanded]

\* Bound: the accesses queued and granted are all of one room.
OneRoom(r) ==
    LET queued == {relay[t].id : t \in {u \in Tickets : relay[u] # None}} IN
    \A k \in spent \cup queued : k[2] = r

\* One of the moves that MaxMoves bounds.
Moves(is_move) ==
    IF is_move THEN moves < MaxMoves /\ moves' = moves + 1 ELSE UNCHANGED moves

SelectRoom(r) ==
    /\ mounted /\ address # None
    /\ Moves(view.room # None)
    /\ cancelled' = TRUE
    /\ view' = Restored(address, r)
    /\ last_room' = [last_room EXCEPT ![address] = r]
    /\ UNCHANGED <<address, mounted, resumed, flow, cache, stored, serverVars>>

\* open(d), once its row is expanded (shown).  With room access landed it only
\* fetches; otherwise it reads, derives and checks.
Open(f, d, shown) ==
    IF shown.opened[d] # None /\ shown.opened[d].ok
    THEN view' = shown /\ UNCHANGED <<flow, cancelled>>
    ELSE /\ cancelled' = FALSE
         /\ IF shown.ready /\ shown.identity # None
            THEN /\ view' = [shown EXCEPT !.phase = "opening", !.doc = d,
                                 !.opened[d] = None, !.failed = @ \ {d}]
                 /\ Start(f, "opening", d, shown.identity)
            ELSE /\ view' = [shown EXCEPT !.phase = "checking", !.doc = d]
                 /\ Start(f, "deriving", d, None)

\* toggleDoc.
Toggle(f, d) ==
    LET wasOpen == d \in view.expanded
        shown == [view EXCEPT !.expanded =
                      IF wasOpen THEN @ \ {d} ELSE @ \cup {d}] IN
    /\ mounted /\ address # None /\ RoomOf[d] = view.room
    /\ OneRoom(view.room) /\ Moves(wasOpen)
    /\ IF <<address, view.room>> \in Ids
       THEN cache' = [cache EXCEPT ![<<address, view.room>>].expanded =
                          shown.expanded]
       ELSE UNCHANGED cache
    /\ IF \/ wasOpen \/ view.opened[d] # None \/ d \in view.failed \/ view.ready
          \/ view.phase \notin {"idle", "error"}
       THEN view' = shown /\ UNCHANGED <<flow, cancelled>>
       ELSE Open(f, d, shown)
    /\ UNCHANGED <<address, mounted, resumed, last_room, stored, serverVars>>

\* "Try again" and "Check again", on a row that failed or on the active one.
Retry(f, d) ==
    /\ mounted /\ address # None /\ RoomOf[d] = view.room
    /\ OneRoom(view.room)
    /\ d \in view.expanded
    /\ IF view.opened[d] # None THEN ~view.opened[d].ok
       ELSE \/ d \in view.failed
            \/ view.doc = d /\ view.phase \in {"blocked", "error"}
    /\ Open(f, d, view)
    /\ IF view'.opened # view.opened
       THEN CacheOpened(address, view.room, view'.opened) ELSE UNCHANGED cache
    /\ UNCHANGED <<tabVars, stored, serverVars>>

\* setupAccess and setupBondAccess, on a click or by the auto-run effect.
Setup(f) ==
    /\ mounted /\ address # None
    /\ view.phase \in {"approved", "bond-ready"}
    /\ view.identity # None /\ view.doc # None
    /\ cancelled' = FALSE
    /\ view' = Phase("proving")
    /\ Start(f, "proving", view.doc, view.identity)
    /\ UNCHANGED <<tabVars, cache, stored, serverVars>>

\* "Not now".
Dismiss ==
    /\ mounted /\ view.phase \in {"approved", "bond-ready"}
    /\ view' = Fresh(view.room)
    /\ UNCHANGED <<tabVars, cancelled, flow, cache, stored, serverVars>>

Row(d) == d \in view.expanded /\ view.opened[d] = None /\ d # view.doc

\* Wrong (definitions named ..._wrong seed the bug one property must catch):
\* a document that failed stalls the rest.
NextRow_wrong(d) == Row(d) /\ view.failed = {}

NextRow(d) == Row(d) /\ d \notin view.failed

\* Once the room's access has landed, the rows that wait open one by one.
AutoOpen(f, d) ==
    /\ mounted /\ view.ready /\ view.identity # None /\ view.phase = "idle"
    /\ NextRow(d)
    /\ view' = Opening(d)
    /\ Start(f, "opening", d, view.identity)
    /\ UNCHANGED <<tabVars, cancelled, cache, stored, serverVars>>

-------------------------------------------------------------------------------
(* The tab and the wallet. *)

HasTicket(a) == {r \in Rooms : a # None /\ stored[<<a, r>>] # None}

\* The resume effect: the account's outstanding ticket, in some room r, is
\* picked up.  The flow's own room is still the one shown before.
Resumes(f, a, r, shown) ==
    LET ticket == stored[<<a, r>>] IN
    /\ cancelled' = FALSE
    /\ view' = [shown EXCEPT !.room = r, !.doc = ticket.doc, !.phase = "waiting",
                             !.expanded = {ticket.doc}]
    /\ Unused(f)
    /\ flow' = [g \in Flows |->
          IF g = f
          THEN [at |-> "resuming", address |-> a,
                room |-> IF mounted THEN view.room ELSE None, doc |-> ticket.doc,
                id |-> None, ticket |-> ticket.ticket, live |-> TRUE]
          ELSE flow[g]]

\* The wallet connects, locks, unlocks or changes account.  Only a change from
\* one account to another drops the view.
SetAddress(f, a) ==
    LET shown == IF address # None /\ a # None THEN Fresh(None) ELSE view IN
    /\ mounted
    /\ a # address
    /\ Moves(address # None)
    /\ address' = a
    /\ resumed' = IF a # None THEN a ELSE resumed
    /\ IF a # None /\ resumed # a /\ HasTicket(a) # {}
       THEN \E r \in HasTicket(a) : Resumes(f, a, r, shown)
       ELSE cancelled' = TRUE /\ view' = shown /\ UNCHANGED flow
    /\ UNCHANGED <<mounted, last_room, cache, stored, serverVars>>

\* Another panel is shown: the hook unmounts.
Leave ==
    /\ mounted
    /\ Moves(TRUE)
    /\ mounted' = FALSE
    /\ cancelled' = TRUE
    /\ view' = Fresh(None)
    /\ flow' = [f \in Flows |->
          IF flow[f] # None /\ flow[f].at \in Outliving
          THEN [flow[f] EXCEPT !.live = FALSE] ELSE None]
    /\ UNCHANGED <<address, resumed, last_room, cache, stored, serverVars>>

\* The hook mounts anew: it resumes a ticket, else the room viewed last.
Return(f) ==
    /\ ~mounted
    /\ mounted' = TRUE
    /\ resumed' = address
    /\ IF HasTicket(address) # {}
       THEN \E r \in HasTicket(address) : Resumes(f, address, r, Fresh(None))
       ELSE /\ cancelled' = TRUE
            /\ view' = IF address # None /\ last_room[address] # None
                       THEN Restored(address, last_room[address]) ELSE Fresh(None)
            /\ UNCHANGED flow
    /\ UNCHANGED <<address, moves, last_room, cache, stored, serverVars>>

\* The page is loaded again: only local storage survives.
Reload ==
    /\ address # None
    /\ address' = None /\ mounted' = TRUE /\ cancelled' = TRUE
    /\ resumed' = None
    /\ view' = Fresh(None)
    /\ flow' = [f \in Flows |-> None]
    /\ cache' = NoCache
    /\ last_room' = [a \in Accounts |-> None]
    /\ UNCHANGED <<moves, stored, serverVars>>

-------------------------------------------------------------------------------
(* The steps of a flow.  Each is what runs between two awaits. *)

\* The requirement is read, then the wallet signs: only the bond path looks at
\* the ref once more before it goes on.
Derived(f) ==
    LET id == <<flow[f].address, flow[f].room>> IN
    /\ At(f, "deriving")
    /\ \/ Stops(f)
       \/ /\ ~(ByBond(f) /\ Cancelled(f))
          /\ flow' = [flow EXCEPT ![f].at = "checking", ![f].id = id]
          /\ Shows(f, [view EXCEPT !.identity = id])
    /\ UNCHANGED <<tabVars, cancelled, cache, stored, serverVars>>

\* The wallet declines, which is shown whatever the ref says.
Declined(f) ==
    /\ At(f, "deriving")
    /\ Ends(f) /\ Shows(f, Phase("error"))
    /\ UNCHANGED <<tabVars, cancelled, cache, stored, serverVars>>

\* canOpenDocument and the enroll status.
Checked(f) ==
    /\ At(f, "checking")
    /\ \/ Stops(f) /\ UNCHANGED cache
       \/ /\ ~Cancelled(f)
          /\ IF flow[f].id \in granted THEN Opens(f, flow[f].id)
             ELSE /\ UNCHANGED cache
                  /\ IF ByBond(f)
                     THEN Goes(f, "detecting") /\ Shows(f, Phase("bond-detecting"))
                     ELSE /\ Ends(f)
                          /\ \E p \in {"approved", "blocked"} : Shows(f, Phase(p))
    /\ UNCHANGED <<tabVars, cancelled, stored, serverVars>>

\* resolveBondPhase.
Detected(f) ==
    /\ At(f, "detecting")
    /\ \/ Stops(f)
       \/ /\ ~Cancelled(f) /\ Ends(f)
          /\ \E p \in {"bond-ready", "blocked", "error"} : Shows(f, Phase(p))
    /\ UNCHANGED <<tabVars, cancelled, cache, stored, serverVars>>

\* The prover is polled: a look at the ref, then the request.  When the proof
\* is ready only the bond path looks again.
Proved(f) ==
    /\ At(f, "proving")
    /\ \/ Stops(f)
       \/ /\ ~(ByBond(f) /\ Cancelled(f))
          /\ flow[f].id[2] = flow[f].room
          /\ Goes(f, IF ByBond(f) THEN "submitting" ELSE "queuing")
          /\ Shows(f, Phase("queuing"))
    /\ UNCHANGED <<tabVars, cancelled, cache, stored, serverVars>>

Receipt(f, t) == flow' = [flow EXCEPT ![f].at = "receiving", ![f].ticket = t]

\* queue-access: the ticket that is queued for this nullifier, or a new one.
Enqueue(f) ==
    LET queued == [id |-> flow[f].id, status |-> "queued"]
        mine == {t \in Tickets : relay[t] = queued} IN
    /\ At(f, "queuing")
    /\ \E t \in IF mine # {} THEN mine ELSE {u \in Tickets : relay[u] = None} :
          /\ relay' = [relay EXCEPT ![t] = queued]
          /\ Receipt(f, t)
    /\ UNCHANGED <<tabVars, view, cancelled, cache, stored, granted, spent>>

\* submitBondOpen lands; an access already recorded counts as done.
SubmitBond(f) ==
    LET id == flow[f].id IN
    /\ At(f, "submitting")
    /\ granted' = IF id \in spent THEN granted ELSE granted \cup {id}
    /\ spent' = spent \cup {id}
    /\ Goes(f, "receiving")
    /\ UNCHANGED <<tabVars, view, cancelled, cache, stored, relay>>

\* The answer: a ticket is stored and waited for, a recorded bond opens.
Received(f) ==
    LET k == <<flow[f].address, flow[f].room>> IN
    /\ At(f, "receiving")
    /\ IF ByBond(f)
       THEN /\ \/ Stops(f) /\ UNCHANGED cache
               \/ ~Cancelled(f) /\ Opens(f, flow[f].id)
            /\ UNCHANGED stored
       ELSE /\ stored' = [stored EXCEPT ![k] =
                  [doc |-> flow[f].doc, ticket |-> flow[f].ticket]]
            /\ Goes(f, "waiting")
            /\ Shows(f, Phase("waiting"))
            /\ UNCHANGED cache
    /\ UNCHANGED <<tabVars, cancelled, serverVars>>

\* A request of the flow fails, or its proof does.
Throws(f) ==
    /\ \E at \in {"checking", "proving", "queuing", "submitting", "receiving"} :
          At(f, at)
    /\ Fails(f)
    /\ UNCHANGED <<tabVars, cancelled, cache, stored, serverVars>>

\* Wrong: past the deadline the loop ends and nothing is shown.
GiveUp_wrong(f) ==
    /\ At(f, "waiting")
    /\ Ends(f) /\ UNCHANGED view
    /\ UNCHANGED <<tabVars, cancelled, cache, stored, serverVars>>

\* The deadline has passed; the ticket is kept.
GiveUp(f) ==
    /\ At(f, "waiting")
    /\ Fails(f)
    /\ UNCHANGED <<tabVars, cancelled, cache, stored, serverVars>>

\* The ticket is polled: a look at the ref, a sleep, the request; its answer is
\* acted on, cancelled meanwhile or not.
Polled(f) ==
    LET status == relay[flow[f].ticket].status IN
    /\ At(f, "waiting")
    /\ \/ Stops(f) /\ UNCHANGED <<cache, stored>>
       \/ /\ status = "submitted"
          /\ Forget(<<flow[f].address, flow[f].room>>)
          /\ Opens(f, flow[f].id)
       \/ /\ status = "error"
          /\ Forget(<<flow[f].address, flow[f].room>>)
          /\ Ends(f) /\ Shows(f, Phase("error"))
          /\ UNCHANGED cache
    /\ UNCHANGED <<tabVars, cancelled, serverVars>>

\* The resumed flow has its identity, or the wallet declined.
Resumed(f) ==
    LET id == <<flow[f].address, RoomOf[flow[f].doc]>> IN
    /\ At(f, "resuming")
    /\ \/ Fails(f)
       \/ /\ ~Cancelled(f)
          /\ flow' = [flow EXCEPT ![f].at = "rechecking", ![f].id = id]
          /\ Shows(f, [view EXCEPT !.identity = id])
    /\ UNCHANGED <<tabVars, cancelled, cache, stored, serverVars>>

\* The access has landed while away, or (as far as it can tell) has not.
Rechecked(f) ==
    /\ At(f, "rechecking")
    /\ \/ Stops(f) /\ UNCHANGED <<cache, stored>>
       \/ /\ ~Cancelled(f) /\ flow[f].id \in granted
          /\ Forget(flow[f].id)
          /\ Opens(f, flow[f].id)
       \/ /\ ~Cancelled(f)
          /\ Goes(f, "waiting") /\ Shows(f, Phase("waiting"))
          /\ UNCHANGED <<cache, stored>>
    /\ UNCHANGED <<tabVars, cancelled, serverVars>>

\* The active row, freed if it is still d's.
Freed(d) == IF view.doc = d THEN None ELSE view.doc

\* openCommitteeDocument answers: decrypted if the reader is admitted in the
\* room it asked, or not released, or not faithful.
Fetched(f) ==
    LET d == flow[f].doc
        mine == flow[f].id \in granted /\ flow[f].id[2] = flow[f].room
        opened(ok) == [view.opened EXCEPT ![d] = [by |-> flow[f].id, ok |-> ok]] IN
    /\ At(f, "opening")
    /\ \/ Stops(f) /\ UNCHANGED cache
       \/ /\ ~Cancelled(f) /\ Ends(f)
          /\ \E ok \in {FALSE, mine} :
                /\ Shows(f, [view EXCEPT !.opened = opened(ok), !.phase = "idle",
                                         !.doc = Freed(d), !.ready = @ \/ ok])
                /\ CacheOpened(flow[f].address, flow[f].room, opened(ok))
    /\ UNCHANGED <<tabVars, cancelled, stored, serverVars>>

\* It throws: the row shows it, and the others go on.
FetchFails(f) ==
    /\ At(f, "opening")
    /\ \/ Stops(f)
       \/ /\ ~Cancelled(f) /\ Ends(f)
          /\ Shows(f, [view EXCEPT !.failed = @ \cup {flow[f].doc},
                                   !.phase = "idle", !.doc = Freed(flow[f].doc)])
    /\ UNCHANGED <<tabVars, cancelled, cache, stored, serverVars>>

-------------------------------------------------------------------------------
(* The relay and the room's owner. *)

\* A queued access is submitted at a window's end, or fails for good.
Flush(t) ==
    LET id == relay[t].id IN
    /\ relay[t] # None
    /\ relay[t].status = "queued"
    /\ \/ /\ id \notin spent
          /\ granted' = granted \cup {id} /\ spent' = spent \cup {id}
          /\ relay' = [relay EXCEPT ![t].status = "submitted"]
       \/ /\ relay' = [relay EXCEPT ![t].status = "error"]
          /\ UNCHANGED <<granted, spent>>
    /\ UNCHANGED <<tabVars, view, cancelled, flow, cache, stored>>

\* The owner pins another root: earlier grants are stale.
Repin(r) ==
    /\ r \notin BondRooms
    /\ granted' = {id \in granted : id[2] # r}
    /\ UNCHANGED <<tabVars, view, cancelled, flow, cache, stored, relay, spent>>

\* What flow f does next, an answer that fails included.
Step(f) ==
    \/ Derived(f) \/ Declined(f) \/ Checked(f) \/ Detected(f) \/ Proved(f)
    \/ Enqueue(f) \/ SubmitBond(f) \/ Received(f) \/ Throws(f) \/ Polled(f)
    \/ GiveUp(f) \/ Resumed(f) \/ Rechecked(f) \/ Fetched(f) \/ FetchFails(f)

Reader(f) ==
    \/ \E d \in Docs : Toggle(f, d) \/ Retry(f, d) \/ AutoOpen(f, d)
    \/ Setup(f)
    \/ \E a \in Accounts \cup {None} : SetAddress(f, a)
    \/ Return(f)

Next ==
    \/ \E f \in Flows : Reader(f) \/ Step(f)
    \/ \E r \in Rooms : SelectRoom(r) \/ Repin(r)
    \/ Dismiss \/ Leave \/ Reload
    \/ \E t \in Tickets : Flush(t)

\* Every request is answered or fails, the wait for a ticket has a deadline, and
\* React runs the effect after each render that enables it.
Fairness ==
    /\ \A f \in Flows : WF_vars(Step(f))
    /\ \A d \in Docs : SF_vars(\E f \in Flows : AutoOpen(f, d))

Spec == Init /\ [][Next]_vars /\ Fairness

-------------------------------------------------------------------------------
(* Properties. *)

(***************************************************************************)
(* The spinner ends: again and again the panel is out of every phase that  *)
(* works or waits, by what a flow comes to, an error or a deadline,        *)
(* whoever leaves, returns or reloads meanwhile, and whichever flow was    *)
(* cancelled and revived.  Not so while the ref stays set, after another   *)
(* room was selected or the wallet changed: the hook then drops the flow   *)
(* that would end its phase, or lets it set a phase and drops it after.    *)
(***************************************************************************)
BusyEnds == []<>(view.phase \notin Busy \/ cancelled)

\* A row that waits behind another document, in a room whose access landed.
Queued(d) ==
    /\ mounted /\ view.ready /\ view.identity # None
    /\ d \in view.expanded /\ d # view.doc
    /\ view.opened[d] = None /\ d \notin view.failed

(***************************************************************************)
(* The auto-open chain does not stall: a row that waits behind another     *)
(* document, failed or not, has its turn, unless the panel comes to an     *)
(* error or to something the reader must do, or the ref is set: the effect *)
(* that opens the next row does not clear it.                              *)
(***************************************************************************)
QueuedRowsOpen ==
    \A d \in Docs :
        []<>(Queued(d) => cancelled \/ view.phase \notin Busy \cup {"idle"})

-------------------------------------------------------------------------------
(* What the repository says and the hook does not do. *)

(***************************************************************************)
(* The seenAddr effect: "so account B never sees account A's plaintext     *)
(* while this panel stays mounted".                                        *)
(***************************************************************************)
OwnPlaintextOnly ==
    \A d \in Docs : address # None /\ view.opened[d] # None
        => view.opened[d].by[1] = address

===============================================================================
