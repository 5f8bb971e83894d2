---------------------------- MODULE SealedDocuments ----------------------------
(***************************************************************************)
(* The documents of a data room that are sealed to one reader's key, and   *)
(* what third parties say about them: contracts/dataroom put_document,     *)
(* attest_document_fact, attest_teaser; the backend routes that seal a     *)
(* document, or a redacted view of it, and open it again; the blob store.  *)
(*                                                                         *)
(* A hash stands for what was hashed.  Every call that writes to a room    *)
(* is authorised by its owner, who may also seal with a prover of their    *)
(* own.                                                                    *)
(***************************************************************************)
EXTENDS Attestation

CONSTANTS
    Rooms,          \* room ids
    Docs,           \* document ids
    Readers,        \* x25519 keys of readers, auditors included
    Contents,       \* documents given as text or bytes
    Statements,     \* [issuer, value]: the statements banks have signed
    Banks,          \* hashes of RSA keys of banks
    Disclosures,    \* [doc, policy]: structured documents, each field a [form, id],
                    \* and their policies
    Floors,         \* the thresholds that are proved
    MaxSeals        \* bound: calls of the seal routes

Masks == {"drop", "last4", "year", "redact"}

\* What applyMask tells apart in a field's value: exactly four digits; a date
\* that begins with its year; at most four characters; anything longer.
Forms == {"year", "date", "short", "long"}

ASSUME SealedAssumption ==
    /\ MaxSeals \in Nat
    /\ 0 \notin Contents
    /\ \A s \in Statements : s \in [issuer: Banks, value: Nat]
    /\ \A v \in Disclosures :
          /\ \A f \in DOMAIN v.doc : v.doc[f].form \in Forms
          /\ \A f \in DOMAIN v.policy : v.policy[f].mask \in Masks

VARIABLES
    doc_rooms,          \* DataKey::Room
    documents,          \* DataKey::Doc; a room's DocLog is its records by index
    facts,              \* DataKey::DocFact, likewise DocFactLog
    teasers,            \* DataKey::Teaser, likewise TeaserLog
    images,             \* the guests the admin has pinned an image of
    banks,              \* DataKey::DocAuthIssuer
    appraisers,         \* DataKey::TeaserAttester
    seals,              \* seal requests whose job the gateway has accepted
    blobs               \* the blob store, by content hash

recordVars == <<documents, facts, teasers>>
listVars == <<images, banks, appraisers>>
sealVars == <<seals, blobs>>
sealedVars == <<doc_rooms, recordVars, listVars, sealVars>>

SealedInit ==
    /\ doc_rooms = {}
    /\ documents = Empty
    /\ facts = Empty
    /\ teasers = Empty
    /\ images = {}
    /\ banks = {}
    /\ appraisers = {}
    /\ seals = << >>
    /\ blobs = {}

-------------------------------------------------------------------------------
(* Plaintexts: what each field shows, all of a value or what a mask leaves. *)

Text(c) == [text |-> [shown |-> "all", of |-> c]]

\* A field that the policy does not name is private; a private field without
\* a mask is redacted.
Rule(policy, f) ==
    IF f \in DOMAIN policy THEN policy[f] ELSE [tier |-> "private", mask |-> "redact"]

Withheld == [shown |-> "none"]

\* The leading year, or the last four characters of more than four; a value
\* without them is withheld.  Of a value that is four digits the year is all.
applyMask(v, mask) ==
    LET cut == [year |-> {"date"}, last4 |-> {"date", "long"}] IN
    IF mask = "year" /\ v.form = "year" THEN [shown |-> "all", of |-> v]
    ELSE IF mask \in DOMAIN cut /\ v.form \in cut[mask]
    THEN [shown |-> mask, of |-> v]
    ELSE Withheld

\* Public and auditor fields as they are; private ones masked or dropped.
redact(doc, policy) ==
    [f \in {g \in DOMAIN doc : ~(/\ Rule(policy, g).tier = "private"
                                 /\ Rule(policy, g).mask = "drop")} |->
        IF Rule(policy, f).tier = "private"
        THEN applyMask(doc[f], Rule(policy, f).mask)
        ELSE [shown |-> "all", of |-> doc[f]]]

-------------------------------------------------------------------------------
(* Sealing: the guest, the routes and the contract. *)

\* sha256(DOMAIN, K, content_hash, room_id, doc_id)
Tag(k, content_hash, r, d) == <<k, content_hash, r, d>>

\* What the seal guest commits; the key itself only opens with reader's secret.
SealJournal(r, d, reader, k, content_hash) ==
    [room_id |-> r, doc_id |-> d, recipient_pub |-> reader,
     content_hash |-> content_hash, ct |-> k, tag |-> Tag(k, content_hash, r, d)]

\* The n-th request's fresh key is n; its blob is the plaintext under that key.
Blob(n) == [key |-> n, plain |-> seals[n].plain]

JobJournal(n) ==
    SealJournal(seals[n].room, seals[n].doc, seals[n].reader, n, Blob(n))

\* Seals made without the backend, under a key of the owner's own, for a blob
\* that nobody has or for one that is stored.
OwnKey == MaxSeals + 1
OwnJournals ==
    {SealJournal(r, d, x, OwnKey, b) : r \in Rooms, d \in Docs, x \in Readers,
        b \in blobs \cup {[key |-> OwnKey, plain |-> Text(0)]}}

create_room(r) ==
    /\ r \notin doc_rooms
    /\ doc_rooms' = doc_rooms \cup {r}
    /\ UNCHANGED <<recordVars, listVars, sealVars>>

\* What both routes do up to the gateway's answer: the room exists, the
\* plaintext is encrypted under a fresh key and the job queued.
ProveSeal(r, d, x, plain, from) ==
    /\ r \in doc_rooms
    /\ Len(seals) < MaxSeals
    /\ seals' = Append(seals, [room |-> r, doc |-> d, reader |-> x,
                               plain |-> plain, from |-> from,
                               answered |-> FALSE])
    /\ UNCHANGED <<doc_rooms, recordVars, listVars, blobs>>

\* POST /dataroom/prove-seal.
prove_seal(r, d, x, c) == ProveSeal(r, d, x, Text(c), {})

\* POST /dataroom/disclose/prove: what is sealed to the auditor is the view.
disclose_prove(r, d, x, v) == ProveSeal(r, d, x, redact(v.doc, v.policy), {v})

\* getBlobStore().put(blob): the same bytes are kept once.
StoreBlob(n) ==
    /\ ~seals[n].answered
    /\ blobs' = blobs \cup {Blob(n)}
    /\ UNCHANGED <<doc_rooms, recordVars, listVars, seals>>

\* Wrong: the job id is sent before the upload has succeeded.
AnswerSeal_wrong(n) ==
    /\ seals' = [seals EXCEPT ![n].answered = TRUE]
    /\ UNCHANGED <<doc_rooms, recordVars, listVars, blobs>>

\* The client learns the job's id.  A request that fails or dies before this
\* leaves a job, and perhaps a blob, that nobody knows of.
AnswerSeal(n) ==
    /\ Blob(n) \in blobs
    /\ seals' = [seals EXCEPT ![n].answered = TRUE]
    /\ UNCHANGED <<doc_rooms, recordVars, listVars, blobs>>

\* The position the next record of a room takes in the room's log.
NextIndex(store, r) == Cardinality({id \in DOMAIN store : id[1] = r})

\* Wrong: an anchored document is replaced.
put_document_wrong(j) ==
    /\ j.room_id \in doc_rooms
    /\ documents' = Put(documents, <<j.room_id, j.doc_id>>,
           [index |-> NextIndex(documents, j.room_id), journal |-> j])
    /\ UNCHANGED <<doc_rooms, facts, teasers, listVars, sealVars>>

put_document(j) ==
    /\ j.room_id \in doc_rooms
    /\ <<j.room_id, j.doc_id>> \notin DOMAIN documents
    /\ documents' = Put(documents, <<j.room_id, j.doc_id>>,
           [index |-> NextIndex(documents, j.room_id), journal |-> j])
    /\ UNCHANGED <<doc_rooms, facts, teasers, listVars, sealVars>>

\* POST /dataroom/submit-document with the bundle of a job whose id is known.
SubmitDocument(n) == seals[n].answered /\ put_document(JobJournal(n))

\* dataroomEciesOpen: another secret yields some other key.
Garbled == 0
Recovered(doc, secret) == IF secret = doc.recipient_pub THEN doc.ct ELSE Garbled

\* POST /dataroom/open: the key must be the one the tag binds to this document,
\* the bytes fetched must have the anchored hash and decrypt under the key.
Refused == Empty
Open(r, d, secret) ==
    LET doc == documents[<<r, d>>].journal
        k == Recovered(doc, secret)
    IN IF /\ Tag(k, doc.content_hash, doc.room_id, doc.doc_id) = doc.tag
          /\ doc.content_hash \in blobs
          /\ doc.content_hash.key = k
       THEN doc.content_hash.plain
       ELSE Refused

-------------------------------------------------------------------------------
(* Facts about documents. *)

\* The docauth guest: a bank signed the statement and its value is at least
\* the floor; the statement's expiry is not looked at.
FactJournals ==
    LET reaching(t) == {s \in Statements : s.value >= t}
    IN UNION {{[threshold |-> t, issuer_key_hash |-> s.issuer, room_id |-> r,
                msg_digest |-> s] : s \in reaching(t), r \in Rooms} : t \in Floors}

attest_document_fact(p) ==
    LET id == <<p.room_id, p.msg_digest>> IN
    /\ "docauth" \in images
    /\ p.room_id \in doc_rooms
    /\ p.issuer_key_hash \in banks
    /\ id \notin DOMAIN facts
    /\ facts' = Put(facts, id, [index |-> NextIndex(facts, p.room_id), journal |-> p])
    /\ UNCHANGED <<doc_rooms, documents, teasers, listVars, sealVars>>

\* A teaser's journal names neither room nor document: the owner does.
attest_teaser(p, r, d) ==
    LET id == <<r, d>> IN
    /\ "teaser" \in images
    /\ p.claim_type = "teaser"
    /\ id \in DOMAIN documents
    /\ p.issuer_id \in appraisers
    /\ p.expiry > now
    /\ id \notin DOMAIN teasers
    /\ teasers' = Put(teasers, id,
           [index |-> NextIndex(teasers, r),
            content_hash |-> documents[id].journal.content_hash,
            field_tag |-> p.nonce, threshold |-> p.threshold,
            attester |-> p.issuer_id, expiry |-> p.expiry])
    /\ UNCHANGED <<doc_rooms, documents, facts, listVars, sealVars>>

\* set_docauth_image_id, set_teaser_image_id: until then no proof is accepted.
pin_image(guest) ==
    /\ images' = images \cup {guest}
    /\ UNCHANGED <<doc_rooms, recordVars, banks, appraisers, sealVars>>

set_docauth_issuer(k, allowed) ==
    /\ banks' = IF allowed THEN banks \cup {k} ELSE banks \ {k}
    /\ UNCHANGED <<doc_rooms, recordVars, images, appraisers, sealVars>>

set_teaser_attester(k, allowed) ==
    /\ appraisers' = IF allowed THEN appraisers \cup {k} ELSE appraisers \ {k}
    /\ UNCHANGED <<doc_rooms, recordVars, images, banks, sealVars>>

\* An expired teaser stays: it can be read, not renewed.
is_teaser_valid(r, d) ==
    /\ <<r, d>> \in DOMAIN teasers
    /\ teasers[<<r, d>>].expiry > now

RoomCall ==
    /\ "dataroom" \in deployed
    /\ \/ \E r \in Rooms : create_room(r)
       \/ \E r \in Rooms, d \in Docs, x \in Readers :
             \/ \E c \in Contents : prove_seal(r, d, x, c)
             \/ \E v \in Disclosures : disclose_prove(r, d, x, v)
       \/ \E n \in DOMAIN seals : StoreBlob(n) \/ AnswerSeal(n) \/ SubmitDocument(n)
       \/ \E j \in OwnJournals : put_document(j)
       \/ \E p \in FactJournals : attest_document_fact(p)
       \/ \E p \in GenericJournals(Floors), r \in Rooms, d \in Docs : attest_teaser(p, r, d)
       \/ \E guest \in {"docauth", "teaser"} : pin_image(guest)
       \/ \E k \in Banks, on \in BOOLEAN : set_docauth_issuer(k, on)
       \/ \E k \in Issuers, on \in BOOLEAN : set_teaser_attester(k, on)
    /\ UNCHANGED attestationVars

-------------------------------------------------------------------------------
(* Properties. *)

\* What a redacted view may show whole: the policy says so, or masks by its
\* year a value that is nothing else.
MayShow(v, f) ==
    /\ f \in DOMAIN v.policy
    /\ \/ v.policy[f].tier # "private"
       \/ v.policy[f].mask = "year" /\ v.doc[f].form = "year"

(***************************************************************************)
(* An anchored document whose seal the backend made opens, with its        *)
(* reader's secret, to exactly what was given for that room and document,  *)
(* and with any other secret to nothing; of a redacted view the fields     *)
(* that are there as they were are those the policy names as not private,  *)
(* and the values of four digits that it masks by their year.  So no       *)
(* request that failed half way, no second seal for the same document and  *)
(* no seal of another prover leaves such a document without its blob.      *)
(***************************************************************************)
SealedOpens ==
    \A id \in DOMAIN documents :
        LET n == documents[id].journal.ct IN
        n \in DOMAIN seals =>
            /\ id = <<seals[n].room, seals[n].doc>>
            /\ \A x \in Readers : Open(id[1], id[2], x) =
                   IF x = seals[n].reader THEN seals[n].plain ELSE Refused
            /\ \A v \in seals[n].from, f \in DOMAIN seals[n].plain :
                   seals[n].plain[f].shown = "all" => MayShow(v, f)

(***************************************************************************)
(* What anyone may read about a sealed document is somebody else's word    *)
(* about that very document: a teaser that is advertised as valid names    *)
(* the blob that is anchored now and rests on an unexpired envelope of its *)
(* appraiser for at least its figure; a fact rests on a statement that the *)
(* bank it names has signed.                                               *)
(***************************************************************************)
AdvertisedIsVouched ==
    /\ \A r \in Rooms, d \in Docs : is_teaser_valid(r, d) =>
          LET t == teasers[<<r, d>>] IN
          /\ t.content_hash = documents[<<r, d>>].journal.content_hash
          /\ \E e \in Signed("teaser") :
                /\ e.issuer = t.attester /\ e.nonce = t.field_tag
                /\ e.value >= t.threshold /\ e.expiry = t.expiry
    /\ \A id \in DOMAIN facts :
          LET p == facts[id].journal IN
          /\ id[2] = p.msg_digest /\ p.msg_digest \in Statements
          /\ p.msg_digest.issuer = p.issuer_key_hash
          /\ p.msg_digest.value >= p.threshold

===============================================================================
