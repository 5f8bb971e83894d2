------------------------------ MODULE KeyRelease ------------------------------
(***************************************************************************)
(* Committee documents end to end: the dealing routes of the backend       *)
(* (backend/src/server.ts: seal-doc, deal-sealed, rotate-doc), the keypers *)
(* (keyper/src/keyper.ts, store.ts) and the data room contract they both   *)
(* read.                                                                   *)
(*                                                                         *)
(* A share is modelled by the key it is a share of: Threshold shares of    *)
(* one key reconstruct it, and no mixture does                             *)
(* (committee.ts, reconstructWithCommitment).  A keyper serves the shares   *)
(* it has in memory and flushes them to a file; a restart reads the file   *)
(* back and forgets what its handlers hold.                                *)
(***************************************************************************)
EXTENDS DataRoom

CONSTANTS
    Keypers,            \* KEYPER_ENDPOINTS
    Threshold,          \* COMMITTEE_THRESHOLD
    Dealers,            \* concurrent dealing requests at the backend
    Kinds,              \* routes in use: "seal", "sealed", "rotate"
    LateDeals,          \* whether a /deal nobody waits for may still arrive
    MaxAsks             \* bound: concurrent /share requests

DocIds == Rooms \X Docs

Job == [kind: Kinds, doc: DocIds, key: Keys,
        stage: {"uploading", "dealing", "anchoring"},
        reply: [Keypers -> {"none", "ok", "failed"}]]

ASSUME KeyReleaseAssumption ==
    /\ IsFiniteSet(Keypers) /\ Threshold \in 1..Cardinality(Keypers)
    /\ Kinds \subseteq {"seal", "sealed", "rotate"}
    /\ LateDeals \in BOOLEAN
    /\ None \notin Keys \cup DocIds \cup Job
    /\ MaxAsks \in Nat

VARIABLES
    share,              \* share[k]: ShareStore.shares of keyper k, doc -> key or None
    disk,               \* disk[k]: the file that store was last flushed to
    dealer,             \* dealer[j]: dealing request j, or None
    mail,               \* /deal requests on their way to a keyper
    asks,               \* /share requests in progress at a keyper
    displaced,          \* history: <<keyper, key>>, a share it overwrote with another key's
    released,           \* history: every share a keyper has sealed
    dealt_for,          \* history: the document each key was made for
    barred,             \* history: accessors not admitted since the key was made
    degraded            \* history: documents whose last re-deal did not complete

storeVars == <<share, disk, displaced>>
keyperVars == <<storeVars, asks, released>>
dealerVars == <<dealer, mail, dealt_for, degraded>>
keyVars == <<keyperVars, dealerVars>>
allVars == <<vars, keyVars, barred>>

Deal == [to: Keypers, doc: DocIds, key: Keys]

Ask == [keyper: Keypers, doc: DocIds, accessor: Accessors, key: Keys,
        stage: {"checking", "admitted"}]

Release == [keyper: Keypers, doc: DocIds, accessor: Accessors, key: Keys,
            recipient_pub: RecipientKeys]

KeyTypeOK ==
    /\ TypeOK
    /\ share \in [Keypers -> [DocIds -> Keys \cup {None}]]
    /\ disk \in [Keypers -> [DocIds -> Keys \cup {None}]]
    /\ dealer \in [Dealers -> Job \cup {None}]
    /\ displaced \subseteq Keypers \X Keys
    /\ mail \subseteq Deal
    /\ asks \subseteq Ask
    /\ released \subseteq Release
    /\ dealt_for \in [Keys -> DocIds \cup {None}]
    /\ barred \in [Keys -> SUBSET Accessors]
    /\ degraded \subseteq DocIds

KeyInit ==
    /\ Init
    /\ share = [k \in Keypers |-> [d \in DocIds |-> None]]
    /\ disk = share
    /\ dealer = [j \in Dealers |-> None]
    /\ mail = {} /\ asks = {} /\ released = {} /\ degraded = {} /\ displaced = {}
    /\ dealt_for = [key \in Keys |-> None]
    /\ barred = [key \in Keys |-> {}]

-------------------------------------------------------------------------------
(* The backend's dealing routes. *)

\* What each route reads on chain before it starts.
MayStart(kind, doc) ==
    /\ doc[1] \in rooms
    /\ kind = "sealed" => doc \notin DOMAIN committee
    /\ kind = "rotate" => doc \in DOMAIN committee

\* A route passes its chain read with a key nobody used before, and uploads
\* the blob.
StartDeal(j) ==
    \E kind \in Kinds, doc \in DocIds, key \in Keys :
        /\ dealer[j] = None
        /\ dealt_for[key] = None
        /\ MayStart(kind, doc)
        /\ dealer' = [dealer EXCEPT ![j] =
              [kind |-> kind, doc |-> doc, key |-> key, stage |-> "uploading",
               reply |-> [k \in Keypers |-> "none"]]]
        /\ dealt_for' = [dealt_for EXCEPT ![key] = doc]
        /\ UNCHANGED <<vars, keyperVars, mail, degraded>>

\* The blob is stored: one /deal goes to every keyper.
SendDeals(j) ==
    /\ dealer[j] # None
    /\ dealer[j].stage = "uploading"
    /\ dealer' = [dealer EXCEPT ![j].stage = "dealing"]
    /\ mail' = mail \cup {[to |-> k, doc |-> dealer[j].doc, key |-> dealer[j].key] :
                            k \in Keypers}
    /\ UNCHANGED <<vars, keyperVars, dealt_for, degraded>>

\* The outcome of request j's /deal to k, if it still waits for it.
Reply(j, k, outcome) ==
    dealer' = [dealer EXCEPT ![j].reply[k] = outcome]

Waits(j, k, key) ==
    /\ dealer[j] # None
    /\ dealer[j].key = key
    /\ dealer[j].stage = "dealing"
    /\ dealer[j].reply[k] = "none"

\* ShareStore.put: the share is written over the one the keyper had, in
\* memory, then flushed: the whole map replaces the file, or the flush throws
\* and leaves the file alone.
PutShare(k, doc, key) ==
    /\ share' = [share EXCEPT ![k][doc] = key]
    /\ displaced' = displaced \cup ({<<k, share[k][doc]>>} \ {<<k, None>>, <<k, key>>})

\* Wrong: the keyper answers before its file is written.
Flush_wrong(k) == UNCHANGED disk

Flush(k) == disk' = [disk EXCEPT ![k] = share'[k]]

\* /deal; the answer comes back in time, or nobody waits for it any more.
StoreShare(m) ==
    /\ m \in mail
    /\ mail' = mail \ {m}
    /\ PutShare(m.to, m.doc, m.key)
    /\ \E outcome \in {"ok", "failed"} :
          /\ IF outcome = "ok" THEN Flush(m.to) ELSE UNCHANGED disk
          /\ \/ \E j \in Dealers : Waits(j, m.to, m.key) /\ Reply(j, m.to, outcome)
             \/ /\ \A j \in Dealers : ~Waits(j, m.to, m.key)
                /\ UNCHANGED dealer
    /\ UNCHANGED <<vars, asks, released, dealt_for, degraded>>

\* The 8 s timeout, a refused request or a lost answer.  The request may have
\* been executed; if LateDeals, it may also be executed later.
DealFails(j, k) ==
    LET m == [to |-> k, doc |-> dealer[j].doc, key |-> dealer[j].key] IN
    /\ dealer[j] # None
    /\ Waits(j, k, dealer[j].key)
    /\ Reply(j, k, "failed")
    /\ \/ mail' = mail \ {m} /\ UNCHANGED storeVars
       \/ LateDeals /\ UNCHANGED <<mail, storeVars>>
       \/ mail' = mail \ {m} /\ PutShare(k, m.doc, m.key) /\ Flush(k)
    /\ UNCHANGED <<vars, asks, released, dealt_for, degraded>>

\* Wrong (definitions named ..._wrong seed the bug one property must catch):
\* the document is anchored whatever the keypers answered.
AllDealt_wrong(j) == \A k \in Keypers : dealer[j].reply[k] # "none"

AllDealt(j) == \A k \in Keypers : dealer[j].reply[k] = "ok"

\* allSettled: anchor only when every keyper took its share.
EndDeals(j) ==
    /\ dealer[j] # None
    /\ dealer[j].stage = "dealing"
    /\ AllDealt(j)
    /\ dealer' = [dealer EXCEPT ![j].stage = "anchoring"]
    /\ UNCHANGED <<vars, keyperVars, mail, dealt_for, degraded>>

\* The anchoring transaction is applied.
AnchorKey(j) ==
    LET doc == dealer[j].doc
        key == dealer[j].key IN
    /\ dealer[j] # None
    /\ dealer[j].stage = "anchoring"
    /\ IF dealer[j].kind = "rotate"
       THEN rotate_committee_document(doc[1], doc[2], key)
       ELSE put_committee_document(doc[1], doc[2], key)
    /\ dealer' = [dealer EXCEPT ![j] = None]
    /\ degraded' = degraded \ {doc}
    /\ UNCHANGED <<keyperVars, mail, dealt_for>>

\* The request ends without an anchor: a deal failed, the transaction failed
\* (the document exists), the owner's browser or the backend went away.  The
\* key is lost; a re-deal of an anchored document that ends so is degraded.
AbandonDeal(j) ==
    /\ dealer[j] # None
    /\ dealer' = [dealer EXCEPT ![j] = None]
    /\ degraded' =
          IF dealer[j].kind = "rotate" /\ dealer[j].stage # "uploading"
          THEN degraded \cup {dealer[j].doc} ELSE degraded
    /\ mail' = IF LateDeals THEN mail ELSE {m \in mail : m.key # dealer[j].key}
    /\ UNCHANGED <<vars, keyperVars, dealt_for>>

-------------------------------------------------------------------------------
(* The keypers' /share. *)

\* Wrong: a document the keyper holds no share of is not refused.
AskShare_wrong(k) ==
    \E doc \in DocIds, a \in Accessors :
        /\ Cardinality(asks) < MaxAsks
        /\ asks' = asks \cup {[keyper |-> k, doc |-> doc, accessor |-> a,
                               key |-> share[k][doc], stage |-> "checking"]}
        /\ UNCHANGED <<vars, storeVars, released, dealerVars>>

\* The handler reads its store first ...
AskShare(k) ==
    \E doc \in DocIds, a \in Accessors :
        /\ Cardinality(asks) < MaxAsks
        /\ share[k][doc] # None
        /\ asks' = asks \cup {[keyper |-> k, doc |-> doc, accessor |-> a,
                               key |-> share[k][doc], stage |-> "checking"]}
        /\ UNCHANGED <<vars, storeVars, released, dealerVars>>

\* ... then asks the chain whether the accessor is admitted ...
CheckAdmitted(q) ==
    /\ q \in asks
    /\ q.stage = "checking"
    /\ asks' = IF is_doc_admitted(q.doc[1], q.doc[2], q.accessor)
               THEN (asks \ {q}) \cup {[q EXCEPT !.stage = "admitted"]}
               ELSE asks \ {q}
    /\ UNCHANGED <<vars, storeVars, released, dealerVars>>

\* Wrong: the store is read after the chain was asked.
SealedKey_wrong(q) == share[q.keyper][q.doc]

SealedKey(q) == q.key

\* ... then for the recipient key, to which it seals the share it read.
SealShare(q) ==
    LET recipient == admission_recipient_pub(q.doc[1], q.accessor) IN
    /\ q \in asks
    /\ q.stage = "admitted"
    /\ asks' = asks \ {q}
    /\ released' = IF recipient = None THEN released
                   ELSE released \cup
                     {[keyper |-> q.keyper, doc |-> q.doc, accessor |-> q.accessor,
                       key |-> SealedKey(q), recipient_pub |-> recipient]}
    /\ UNCHANGED <<vars, storeVars, dealerVars>>

\* A keyper restarts: its requests are gone, its file is read back.
RestartKeyper(k) ==
    /\ share[k] # disk[k] \/ \E q \in asks : q.keyper = k
    /\ share' = [share EXCEPT ![k] = disk[k]]
    /\ asks' = {q \in asks : q.keyper # k}
    /\ UNCHANGED <<vars, disk, displaced, released, dealerVars>>

-------------------------------------------------------------------------------
Dealing ==
    \/ \E j \in Dealers : StartDeal(j) \/ SendDeals(j) \/ EndDeals(j)
                          \/ AnchorKey(j) \/ AbandonDeal(j)
    \/ \E j \in Dealers, k \in Keypers : DealFails(j, k)
    \/ \E m \in mail : StoreShare(m)

Releasing ==
    \/ \E k \in Keypers : AskShare(k) \/ RestartKeyper(k)
    \/ \E q \in asks : CheckAdmitted(q) \/ SealShare(q)

AdmittedFor(key, a) ==
    LET doc == dealt_for[key] IN is_doc_admitted(doc[1], doc[2], a)

\* The history of who has not been admitted since a key was made.
BarredHistory ==
    barred' = [key \in Keys |->
        IF dealt_for'[key] = None THEN {}
        ELSE {a \in (IF dealt_for[key] = None THEN Accessors ELSE barred[key]) :
                ~AdmittedFor(key, a)'}]

KeyNext ==
    /\ \/ AccessStep /\ UNCHANGED keyVars
       \/ Dealing
       \/ Releasing
    /\ BarredHistory

KeySpec == KeyInit /\ [][KeyNext]_allVars

-------------------------------------------------------------------------------
(* Properties. *)

(***************************************************************************)
(* Rotation after a revocation works: an accessor that was not admitted    *)
(* when a key was made, and has not been since, never gets a share of it,  *)
(* although a keyper reads its store and asks the chain at different       *)
(* moments, with deals, revocations and root rotations in between.         *)
(***************************************************************************)
NewKeyWithheld ==
    \A s \in released : s.accessor \notin barred[s.key]

Holders(doc) == {k \in Keypers : share[k][doc] = committee[doc].key}

Recoverable(doc) == Cardinality(Holders(doc)) >= Threshold

\* A re-deal of doc is under way, or the last one did not complete.
Redealing(doc) ==
    \/ doc \in degraded
    \/ \E j \in Dealers : dealer[j] # None /\ dealer[j].kind = "rotate"
                                           /\ dealer[j].doc = doc

(***************************************************************************)
(* "Shares are immutable once anchored" (server.ts, deal-sealed) and       *)
(* "Retrying rotate-doc with a clean re-deal restores a consistent set"    *)
(* (rotate-doc): unless a re-deal is under way or was left incomplete,     *)
(* enough keypers hold shares of the key an anchored document commits to,  *)
(* whatever deals, flushes and keypers failed before or since.             *)
(***************************************************************************)
SharesSurviveAnchoring ==
    \A doc \in DOMAIN committee : Redealing(doc) \/ Recoverable(doc)

(***************************************************************************)
(* A keyper answers /deal when its file is written, and a document is      *)
(* anchored when all have answered: so, whoever deals, how often and how   *)
(* late, the only keypers without a share of an anchored key are those     *)
(* that overwrote theirs with a share of another.  No lost answer, failed  *)
(* flush, restart or abandoned request costs a share.                      *)
(***************************************************************************)
KeysOutlastFailures ==
    \A doc \in DOMAIN committee : \A k \in Keypers :
        k \in Holders(doc) \/ <<k, committee[doc].key>> \in displaced

===============================================================================
