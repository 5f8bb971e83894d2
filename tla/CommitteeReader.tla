---------------------------- MODULE CommitteeReader ----------------------------
(***************************************************************************)
(* Opening a committee document: the backend's collect and open routes     *)
(* (backend/src/server.ts) and the SDK's openCommitteeDocument             *)
(* (sdk/src/client.ts), over the keypers, the dealing routes and the chain *)
(* of KeyRelease.                                                          *)
(*                                                                         *)
(* A reader takes the commitment from the chain, then the recipient key,   *)
(* then a share from every keyper at a time, while documents are re-dealt. *)
(* A keyper answers as of the moment it reads its store: what may happen   *)
(* inside one /share is in KeyRelease.  Readers have the secret of their   *)
(* key, and a share is faithful.                                           *)
(***************************************************************************)
EXTENDS KeyRelease

CONSTANT Readers        \* opens in progress

ASSUME ReaderAssumption == {"none", "failed"} \cap Keys = {}

VARIABLE open           \* open[v]: the open of reader v, or None

\* via: "server", or "direct" when the SDK asks the keypers itself; key: the one
\* whose commitment was read; shares[k]: what keyper k released, "none" yet or
\* "failed"; disturbed: history, a re-deal was incomplete at some moment of it.
Open == [via: {"server", "direct"}, doc: DocIds, accessor: Accessors, key: Keys,
         recipient: RecipientKeys \cup {None},
         shares: [Keypers -> Keys \cup {"none", "failed"}],
         stage: {"reading", "collecting", "opened", "mismatch", "not_released",
                 "keyper_error", "blob_error"},
         disturbed: BOOLEAN]

readVars == <<allVars, open>>

ReaderInit == KeyInit /\ open = [v \in Readers |-> None]

At(v, stage) == open[v] # None /\ open[v].stage = stage

Goes(v, stage) == open' = [open EXCEPT ![v].stage = stage]

\* get_committee_document: no document, nothing to open.
StartOpen(v) ==
    /\ open[v] = None
    /\ \E via \in {"server", "direct"}, doc \in DOMAIN committee, a \in Accessors :
          open' = [open EXCEPT ![v] =
            [via |-> via, doc |-> doc, accessor |-> a, key |-> committee[doc].key,
             recipient |-> None, shares |-> [k \in Keypers |-> "none"],
             stage |-> "reading", disturbed |-> Redealing(doc)]]
    /\ UNCHANGED allVars

\* admission_recipient_pub: with none, the SDK stops here and the server when
\* it has collected.
ReadRecipient(v) ==
    LET recipient == admission_recipient_pub(open[v].doc[1], open[v].accessor) IN
    /\ At(v, "reading")
    /\ open' = [open EXCEPT
          ![v].recipient = recipient,
          ![v].stage = IF recipient = None /\ open[v].via = "direct"
                       THEN "not_released" ELSE "collecting"]
    /\ UNCHANGED allVars

\* The share keyper k releases, if it does.
Releases(k, doc, a) ==
    /\ share[k][doc] # None
    /\ is_doc_admitted(doc[1], doc[2], a)
    /\ admission_recipient_pub(doc[1], a) # None

Answers(v, k, answer) == open' = [open EXCEPT ![v].shares[k] = answer]

Collect(v, k) ==
    /\ At(v, "collecting")
    /\ open[v].shares[k] = "none"
    /\ Answers(v, k, IF Releases(k, open[v].doc, open[v].accessor)
                     THEN share[k][open[v].doc] ELSE "failed")
    /\ UNCHANGED allVars

\* A keyper that cannot be reached.  The server notes the error; in the SDK the
\* rejected fetch rejects the whole Promise.all.
KeyperDown(v, k) ==
    /\ At(v, "collecting")
    /\ open[v].shares[k] = "none"
    /\ IF open[v].via = "server" THEN Answers(v, k, "failed")
       ELSE Goes(v, "keyper_error")
    /\ UNCHANGED allVars

Got(o) == {k \in Keypers : o.shares[k] \in Keys}

\* reconstructWithCommitment: some pair of shares gives the committed key.  Two
\* shares are enough for a polynomial of degree one only.
Reconstructs(o, key) ==
    /\ Threshold <= 2
    /\ key = o.key
    /\ \E k, l \in Got(o) : k # l /\ o.shares[k] = key /\ o.shares[l] = key

\* All keypers have answered; the blob is fetched and decrypted.
FinishOpen(v) ==
    LET o == open[v]
        enough == o.recipient # None /\ Cardinality(Got(o)) >= Threshold
        found == {key \in Keys : Reconstructs(o, key)} IN
    /\ At(v, "collecting")
    /\ \A k \in Keypers : o.shares[k] # "none"
    /\ \/ ~enough /\ Goes(v, "not_released")
       \/ enough /\ found = {} /\ Goes(v, "mismatch")
       \/ enough /\ found # {} /\ Goes(v, "blob_error")
       \/ enough /\ \E key \in found :
             open' = [open EXCEPT ![v].stage = "opened", ![v].key = key]
    /\ UNCHANGED allVars

\* The reader has its result, or goes away.
CloseOpen(v) ==
    /\ open[v] # None
    /\ open' = [open EXCEPT ![v] = None]
    /\ UNCHANGED allVars

Reading ==
    \E v \in Readers :
        \/ StartOpen(v) \/ ReadRecipient(v) \/ FinishOpen(v) \/ CloseOpen(v)
        \/ \E k \in Keypers : Collect(v, k) \/ KeyperDown(v, k)

\* The history of re-deals during an open.
DisturbedDocs == {doc \in DocIds : Redealing(doc)}

Disturbs ==
    open' = [v \in Readers |->
        IF open[v] # None /\ open[v].doc \in DisturbedDocs'
        THEN [open[v] EXCEPT !.disturbed = TRUE] ELSE open[v]]

\* Bound: the accessor is granted first, and stays so.
Ready == \E r \in Rooms, a \in Accessors : is_granted(r, a)

ReaderNext ==
    \/ ~Ready /\ AccessStep /\ UNCHANGED <<keyVars, open>> /\ BarredHistory
    \/ Ready /\ Dealing /\ BarredHistory /\ Disturbs
    \/ (\E k \in Keypers : RestartKeyper(k)) /\ BarredHistory /\ Disturbs
    \/ Reading

ReaderSpec == ReaderInit /\ [][ReaderNext]_readVars

-------------------------------------------------------------------------------
(* Properties. *)

(***************************************************************************)
(* "Robust to one bad/malicious share" and the rest of what lets a reader  *)
(* trust the order of its reads: with enough shares in hand, an open fails *)
(* to find the key, or finds another than the document had when it was     *)
(* read, only if a re-deal of the document was incomplete at some moment   *)
(* while it was reading.                                                   *)
(***************************************************************************)
MismatchIsDisturbed ==
    \A v \in Readers : At(v, "mismatch") => open[v].disturbed

================================================================================
