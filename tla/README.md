# zkorage in TLA+

zkorage keeps confidential documents in *data rooms* on Stellar. Members read
anonymously: they prove in zero knowledge that they belong to a room, that they
locked a bond, or that they hold an attestation; a Soroban contract records the
grant; independent *keypers* release shares of a document key to whoever the
contract admits. This directory models the parts of that system whose
correctness depends on the order in which things happen, checks them with TLC,
and proves their central properties with TLAPS for every value of the constants.

Paths below start at the repository's root (`contract/...` is
`src/contract/...` here). `PROJECT.json` maps every definition to its lines.

## 1. The system

### 1.1 Components, state, operations

| Component | Source | State | Operations |
|---|---|---|---|
| Escrow | `contract/contracts/escrow` | lock counter, locks, token balances | deposit, set_timelock, withdraw, claim, unbond |
| Bond gate | `contract/contracts/bond-gate` | pinned images, ring of accepted roots per requirement, nullifiers, grants and logs of two paths | initialize, submit_bond_proof, submit_bond_open_proof, set_qual_root, set_image_id, set_open_image_id |
| Qual-set indexer | `backend/src/bond.ts`, `server.ts` | a run: ids left to read, members found | scan locks in batches, publish a root |
| Bond submission | `backend/src/server.ts` | background tasks and their polls | prove, submit with retries, publish |
| Data room: access | `contract/contracts/dataroom` | rooms, pinned roots, nullifiers, grants, committee documents and their epochs, policies, bond requirements, revocations, admissions, two logs | one entry point each; `is_doc_admitted` is the decision |
| Data room: sealed documents | `contract/contracts/dataroom`, `backend/src/server.ts`, `redaction.ts`, `disclosure.ts`, `storage.ts` | documents, facts, teasers, blobs | seal, redact, submit-document, open, attest a fact or a teaser |
| Dealing routes | `backend/src/server.ts` (seal-doc, deal-sealed + anchor, rotate-doc) | a request in progress | upload, deal one share to each keyper, anchor |
| Keypers | `keyper/src` | share map in memory, the file it is flushed to | `/deal`, `/share` |
| Document reader | `server.ts` (collect, open), `sdk/src/client.ts` | a read in progress | commitment from chain, recipient key, shares, blob |
| Enrollment | `server.ts`, `enroll-store.ts`, `eligible-store.ts` | pending requests, eligible list, pinned root | request, reject, approve, approve-batch, register, set-root |
| Access batch queue | `batch-queue-store.ts`, `server.ts`, `chain.ts` | queued, submitted, failed bundles, transactions in flight | queue-access, shuffled flush, request-access |
| Prover gateway | `prover/gateway`, `prover/worker` | jobs and their claims | prove, next, result, fallback, purge |
| Opening a shared document | `frontend/src/lib/hooks/useSharedOpen.ts`, `openTicket.ts`, `openCache.ts` | a panel's phase and rows, flows in progress, ticket, caches | select, open, retry, auto-open, resume, leave, lock the wallet |
| Credential gates | `contract/contracts/gate`, `accredited`, `compliance`, `payroll` | issuers, deny root, auditor, grants and logs | submit, is_granted, set_issuers, set_deny_root, page through the log |
| Fundraise | `contract/contracts/fundraise` | bar, gate, revenue record, admissions | submit_revenue_proof, request_access, settings |
| Proof of reserves | `contract/contracts/policy`, `token`, `interface` | balances, supply, results | mint, burn, transfer, attest |
| Solvency gate | `contract/contracts/solvency-gate` | bond token, grants | attest, live is_granted |
| Tier gate | `contract/contracts/tier-gate`, `backend/src/tier.ts`, `server.ts` | member root, rings, nullifiers, grants | enroll, pin, publish, prove, is_granted |
| Guests | `prover/methods` | none | what each can prove |
| Groth16 verifier, ciphers, Shamir, Merkle | various | none | pure |
| Stores, storage, faucet, signer, audit, SDK, MCP, other pages | various | file maps | I/O |

### 1.2 How they interact

* The **escrow** is read on chain by the solvency gate alone. The **indexers**
  (bond, tier) read its locks one by one, at different ledger times, build a set,
  and publish the set's root at the **bond gate** or **tier gate**, which keep the
  last `RING_CAP` roots. A **guest** proves membership of some root; the gate
  checks that the root is in the ring.
* A **prove route** hands a witness to the **prover gateway**, and a background
  task polls it and submits the bundle; its client holds the same bundle and may
  submit it too.
* **Approval** writes the eligible store and then pins the root in the data room;
  the **queue** submits members' proofs in shuffled batches from the relay's
  account, which enrollment and immediate accesses use too.
* The **data room** asks the bond gate (`is_granted_for`, `is_open_granted`) and
  the attestation gates (`is_granted`) at the moment of a decision. The
  **fundraise** asks whichever gate is configured; the **policy** and the
  **solvency gate** ask the token.
* A **dealing route** reads the chain, deals shares over HTTP and anchors the
  key's commitment in a later transaction, for `deal-sealed` in a later HTTP
  request.
* A **keyper** answering `/share` reads its store, then asks the data room
  whether the accessor is admitted, then for the key to seal to. A **reader** takes
  the commitment, the shares of every keyper and the blob one after the other.
* A **seal route** queues the proof first and uploads the ciphertext second; the client
  learns of the job when both are done, and anchors the document in a later request.
* The **browser** asks for a ticket, waits for the queue to flush it, opens the
  document and caches it, with the wallet and the tab doing as they please.

### 1.3 What is hard

No lock spans two of these steps. Roots and grants are stale when used; proofs
are submitted late, repeatedly and by anyone; a transaction reported as failed may
still be applied; deals fail partially, time out while they are executed, or
arrive late; keypers, backend and gateway restart from less than they knew;
owners change roots, policies and requirements between any two steps; a page's
callbacks go on after minutes of awaits in a render that is gone. `PROJECT.json`
lists the hazards at their lines, with the properties that cover each.

### 1.4 What makes each component correct

* **Escrow**: every open lock stays funded; a bond holds until its unlock time;
  a release pays the claimant only; a lock never weakens.
* **Indexer and bond gate**: a grant means a bond in the escrow now, although
  nothing in the chain of reads is current; one grant per identity and
  requirement; a scan leaves nobody out.
* **Bond submission**: a task that reports a landed proof is right, one that gives
  up had a cause, and every task ends.
* **Data room**: a live grant is a current member's only one; revocation holds;
  whoever is admitted is backed by what the policy asks; logs agree with records.
* **Sealed documents**: what the backend sealed opens for its reader, to what was
  given, and for nobody else; what is advertised about a document is somebody's word
  about that document.
* **Enrollment and queue**: no root is pinned that the store does not know; what
  the queue calls submitted is granted; what is queued is settled.
* **Dealing, keypers, reader**: a key made after someone lost access never reaches
  them; an anchored document stays readable; a reader that has enough shares finds
  the committed key, whatever its reads interleave with.
* **Gateway**: a job ends although its worker dies; a finished job keeps a result.
* **Shared-open panel**: busy phases end, waiting rows are opened, one account
  never sees another's plaintext.
* **Credential gates, fundraise**: nobody sanctioned is granted; an audit is a
  snapshot; both legs of an admission were attested when it was made.
* **Reserves, solvency, tier**: a published result covers the supply; a grant
  stands for a bond that is there now; the crowd a tier member hides in is funded.

## 2. The modules

| Module | Models | Used by |
|---|---|---|
| `Ledger` | time (`Tick`), contract storage (`Put`, `Empty`) | all contracts |
| `Escrow` | the escrow and, external to it, a token that may keep a fee | `BondedAccess`, `SolvencyGate`, `TierGate` |
| `BondGate` | the gate and what the two bond guests can prove | `BondedAccess`, `BondSubmission` |
| `BondedAccess` | escrow, indexer and gate together | `BondRefinement` |
| `BondPromise` | the abstract specification of bonded access | `BondRefinement`, `DataRoom` |
| `BondRefinement` | `BondedAccess` implements `BondPromise` (INSTANCE with a refinement mapping) | |
| `DataRoom` | the data room's access control, over `BondPromise` | `KeyRelease`, `AccessQueue` |
| `AccessQueue` | enrollment, both stores, the queue and its flusher, transactions in flight, over `DataRoom` | |
| `KeyRelease` | dealing routes and keypers over the data room | `CommitteeReader` |
| `CommitteeReader` | the two openers of a committee document, over `KeyRelease` | |
| `ProverJobs` | the abstract specification of the prover gateway | `ProverGateway`, `BondSubmission` |
| `ProverGateway` | gateway, workers, fallback thread; implements `ProverJobs` | |
| `BondSubmission` | prove routes and background tasks over `BondGate` and `ProverJobs` | |
| `SharedOpen` | the browser's open flow | |
| `Attestation` | issuers, their envelopes, the guests over them | the five below |
| `CredentialGates` | identity, accredited, compliance and payroll contracts; deny-list tree; paged audit | `Fundraise` |
| `Fundraise` | the fundraise over the gate configured now | `Contracts` |
| `Reserves` | token and reserve policy | `SolvencyGate` |
| `SolvencyGate` | the solvency gate over escrow and token | `Contracts` |
| `TierGate` | the tier gate, its indexer and routes, over the escrow | `Contracts` |
| `SealedDocuments` | documents sealed to one reader, redacted views, facts and teasers | `Contracts` |
| `Contracts` | these contracts, each deployed in the company it reads from | |
| `EscrowProofs`, `BondedAccessProofs`, `DataRoomProofs`, `KeyReleaseProofs` (with the reader), `QueueProofs`, `GatewayProofs`, `SubmissionProofs`, `ContractsProofs` | the proofs (section 4) | |
| `MC*` | TLC instances | |

Actions carry the names of the entry points and routes they model. A call that
returns an error changes nothing on chain, so it is a stuttering step and has no
action. Definitions named `..._wrong` are no part of the specifications: each
states a plausible bug in the definition it is named after and shows that the
property listed with it in `PROJECT.json` catches that bug.

### 2.1 How state corresponds

* **Hashes are what they hash.** An identity stands for `id_secret` and for the
  commitment derived from it; a Merkle root is its set of leaves; a requirement
  id is the requirement record; a nullifier is the pair (identity, context).
* **Proofs.** The Groth16 verifier accepts what an execution of the claimed image
  commits. `BondProofs`, `BondOpenProofs`, `MembershipProofs` and the `*Journals`
  of the other gates are those journals: a prover chooses any root, requirement,
  context and holder key its witness supports. A journal is a member of a set, so
  it may be submitted by anyone, at any time, twice.
* **Storage.** A map of contract keys is a function on the keys that exist (`Put`
  overwrites); an absent value is `None`.
* **Shares.** A share is the key it is a share of. `Threshold` shares of one key
  reconstruct it and no mixture does.
* **The deny list** is the sorted list with its brackets: a subject is outside it
  when two adjacent leaves enclose it, which is what the guest shows. That this
  means "not on the list" is a property, `NoSanctionedGrant`, and not the model.
* **Ciphers.** A seal carries its key and the reader who can recover it; a blob is
  the pair of key and plaintext, and its own hash. A field's value has one of the
  four forms a mask tells apart (exactly four digits, a date, at most four
  characters, more), and a redacted view shows all of it, a part or nothing.
* **Time** is a counter up to `MaxTime`; requirements and locks are compared
  with it as the contracts compare with the ledger's close time. The indexer's
  wall clock is any value: nothing ties it to the ledger's.
* **Integers.** `Reserves` keeps the widths: a mint beyond `MaxI128` traps, a
  journal carries numbers up to `MaxU64`, and the policy compares the two as the
  contract does.
* **Flows.** An `async` function of the backend or of the hook is a record with a
  program counter and what it captured. In `SharedOpen` a flow keeps the address
  and room of the render that started it, and looks at the shared `cancelled` ref
  where the code does.
* **Transactions** (`AccessQueue`, `BondSubmission`) are in flight until they are
  applied or expire; a caller that stops waiting learns nothing of which.
* **History variables** (`due` in a scan; `released`, `dealt_for`, `barred`,
  `degraded`, `displaced` in `KeyRelease`) record what the properties refer to and guard no
  action, with one exception: `dealt_for` also makes a dealing request draw a
  key nobody drew before, which is what 32 random bytes do.

### 2.2 Atomicity

A contract call is one step: Soroban runs it atomically. The backend, the keypers,
the gateway and the browser are split at every `await` or lock release: a scan
takes one step per lock record, a deal one per keyper, `/share` one per read, the
fallback thread one before and one after it releases the gateway's lock. `/deal`
in a keyper is one step because put and flush run without an `await`; the flush
may throw after the memory was written, and the step then leaves the two apart.
In `CommitteeReader` a whole `/share` is one step, at the moment the keyper reads
its store; what happens inside it is in `KeyRelease`.

### 2.3 Assumptions

* The contracts are deployed; the data room is initialised. Admin calls that
  replace trusted code (`upgrade`, `set_verifier`, `set_image_id` outside the bond
  gate) or point a gate at another contract (`set_escrow`, `set_supply_token`,
  `set_token`) are left out. The images an admin pins are those in `Images`, and
  every guest other than the modelled ones is taken to commit nothing the gates
  accept.
* The backend's scanner and owners use requirements of the finite set `Reqs` and
  roots of `EligibleRoots`; the sets are constants, so every choice is covered by
  the proofs.
* In `DataRoom`, `GateAnswerChanges` lets an attestation gate change its answer
  about anybody at any time. The gates of `CredentialGates` do less.
* Tokens keep a fixed fee per transfer and do not change balances on their own. A
  rebasing token would break `LocksBacked`, and the contract does not claim
  otherwise.
* `ScanComplete` holds while lock ids stay within `SCAN_MAX`. Locks with higher
  ids are never read: a cap the code states (`ESCROW_MAX_SCAN`).
* `SharesSurviveAnchoring` and `MismatchIsDisturbed` are checked where the dealing
  routes are used as they are meant to be: no `seal-doc`, one dealing request at a
  time, no deal that arrives after its 8 s timeout (`LateDeals = FALSE`). The first
  fails without any of the three: `seal-doc` deals over an anchored document (3.1),
  two `deal-sealed` requests for one document both pass the chain read before either
  anchors, and an abandoned `/deal` executed late overwrites the share of a newer
  key. Nothing in the code enforces them, so no theorem states these two
  properties. What the code does keep, whoever deals, when and how often, is
  `KeysOutlastFailures`: a keyper is without a share of an anchored key only if it
  overwrote it. It is checked with two dealing requests of all three routes and with
  late deals, and proved. `NewKeyWithheld` needs none of the assumptions either.
* The access queue keeps one ticket per nullifier *claimed* in the request, which
  nobody compares with the bundle's (`server.ts:2813`). Any bundle may therefore be
  queued, twice too, and `QueueAccess` refuses none; a claim that is already queued
  changes nothing, which is a stuttering step.
* An absent value is nobody's value: `None` is no job, ticket, flush, key or
  document, and "none" and "failed", a reader's marks for a keyper that has not
  answered and one that refused, are no keys. The proofs need it wherever a
  variable holds a record or `None`.
* A reader admitted through a *member* bond who never called `request_access` has
  no recipient key, and the keyper answers 409. `AdmittedCanBeSealed` therefore
  speaks of the membership path and of the room-wide approval-free path.
* The tier's numbers stand for what its admin routes do (`pinned` and published
  sets come from one scan each). An admin that calls the contract with roots of
  its own making is outside `TierCrowdIsFunded`, which the contract cannot check.

## 3. The runs

| Run | Question it answers | Bounds |
|---|---|---|
| `bonded` | Is a grant always backed by a bond, on both paths side by side; is a scan complete; is `BondPromise` implemented? | one account and identity, two locks, requirements of one and of two units due at 2, ring of two, scans in batches of one, time 0..2 |
| `dataroom` | Is a live grant current and the only one; does revocation hold; is whoever is admitted backed, and can it be sealed to? | two identities, two accessors, roots `{i1}` and `{i2}`, one requirement due at 1, policies with and without membership, one key epoch |
| `key_release` | Is a new key withheld from whoever lost access before; is a share of an anchored key lost only by being overwritten? | three keys, one keyper, two dealing requests of any route, late deals, two `/share` requests, restarts |
| `reader` | Does an anchored document stay readable, and does a reader with enough shares find the key whatever its reads interleave with? | three keypers, threshold two, three keys, one dealing request (deal-sealed, rotate) at a time, failed flushes, restarts, one reader of either kind |
| `access_queue` | Is every pinned root stored, everything submitted granted, everything queued settled? | two identities, two tickets, anonymity floor two, two calls in flight, one restart |
| `prover_gateway` | Does the gateway implement `ProverJobs`, liveness included? | two workers, three jobs |
| `bond_submission` | Does a task that reports success, or gives up, have reason to, and does it end? | one bond and one approval-free proof, ring of one, two attempts, two gateway jobs, one chain fault, deadline 1 |
| `shared_open` | Does the panel always leave a busy phase, and does a row that waits its turn get it? | a members' and a bond room, three documents, two flows at once, one ticket; accesses of one room land; one move (another room, leaving, collapsing a row, a lock or change of the wallet), any number of reloads and re-pins |
| `contracts` | Does each answer of the other contracts stand for money, supply, credentials and documents as they are? | below |
| `rotation`, `reseal`, `foreign_view` | Is a statement of the repository true? (3.1) | two identities and two roots; one key over another; two accounts |

`contracts` has one behaviour per *deployment*: the escrow alone with a plain and a
fee-taking token (two units of each per account); the fundraise with the two gates it
may ask; the compliance gate; payroll with its audit; token and policy; the solvency
gate over escrow and token; the tier gate over the escrow (one unit per account); the
sealed documents. Two accounts, two locks, one issuer, two auditors, up to three
grants per gate and one log entry per page, supply up to 2 with 64-bit numbers cut
at 1, ring of one, a tier that wants a crowd of two, one document, two readers, two seal requests, one
bank and one appraiser, a disclosure with a field of each form under the mask that cuts it (and one
the policy does not name), time 0..2. A contract that is not deployed does
nothing, so the run asks the same of each company as a run of its own would, with
one state space for all.

**Why the bounds are enough.** Two locks are needed for one to be paid with
another's funds; two identities and two accessors for any confusion between
provers or holder keys; two roots for rotation, a ring of one and one of two for
eviction and for a stale root that is still accepted; deadlines and unlock times
lie strictly inside `0..MaxTime`, so both sides of each comparison occur.
`key_release` needs three keys (the one read, the one re-dealt, the one a second
route deals) and one keyper, since a keyper releases its share on its own;
`reader` needs three keypers with threshold two, so that one failure is survivable
and two are not. Its `VIEW` leaves out `displaced`, which nothing in that run
reads. Keys, keypers and dealing requests are interchangeable in both modules, hence
the symmetry sets. The queue needs two tickets for a floor, and an order; the
gateway two workers for a double claim, and a third job behind both; a submission
needs two attempts for a retry to meet what the first one did. `shared_open` needs
two flows, since the shared ref lets one revive another, one move, which is what
cancels a flow that runs (opening the next room's document then revives it), and
three rows, one of which waits behind a failed one. The audit needs a page boundary inside the log
and a grant appended during the read. Two seal requests for one document are enough
for one to be anchored in the other's place, and a prover of the owner's own for a
document nobody can open; with two documents in one room nothing but the log's
index relates them. `MaxI128` lies above `MaxU64`, so a supply
that does not fit a journal occurs. Each property of each run has a mutant that
the same run rejects, so the case each property is about does occur within the
bounds. The proofs below remove the bounds.

**Fairness.** Safety runs assume none: they hold under any scheduling, with
processes that stop at any moment. Four runs have a liveness property:

| Run | Fairness | Why the code justifies it |
|---|---|---|
| `access_queue` (`QueuedEnds`) | `WF(StartFlush)`, `WF(Flushing)` | the flush timer is an interval the server starts with; every call of a flush is raced against a timeout (`server.ts:2704`) |
| `prover_gateway` (`KeepsJobsPromise`) | `WF(Fallback)` | the fallback thread loops for ever and its host runs have a timeout; no worker is assumed to answer |
| `bond_submission` (`TasksEnd`) | `WF(TaskStep(j))` for each task | each wait of a task (poll, back-off, request) ends by a timer |
| `shared_open` (`BusyEnds`, `QueuedRowsOpen`) | `WF(Step(f))` for each flow, `SF(AutoOpen)` for each document | requests are answered or fail and the ticket's wait has a deadline; React runs the effect after each render that enables it, although a flow may disable it in between |

No chain, worker, wallet or reader is assumed to do anything. Every cfg has
`CHECK_DEADLOCK FALSE` because the bounds stop the models (time reaches `MaxTime`,
locks `MaxLocks`, keys and jobs run out); the programs themselves only stop being
called.

Properties are stated next to their modules, with the behaviour each one is about.
There is a type invariant where a proof rests on it.

### 3.1 Where the code and its documentation differ

Three runs expect a violation: each checks one statement of the repository.

| Run | Statement | What happens |
|---|---|---|
| `rotation` | `backend/scripts/m1-enroll-selftest.ts:53`: after an approval "both members re-prove against the new root" | the first member's nullifier is spent and its grant names the old root: approving the second leaves it no way in |
| `reseal` | `server.ts:3160`: "Shares are immutable once anchored" | `seal-doc` (`server.ts:3063`) does not look for the document and deals over its shares before the anchor fails |
| `foreign_view` | `useSharedOpen.ts:434`: "account B never sees account A's plaintext while this panel stays mounted" | a wallet that locks and is unlocked under another account passes through a null address, which the reset (line 443) does not take for a switch |

Met while modelling, and covered by the models without a run of their own:

* A per-document bond requirement set *before* a room turned bond-only stays
  (`dataroom/src/lib.rs:1591` says a bond-only room is room-uniform); its reader is
  admitted and has no recipient key.
* The bond proof of `set_bond_requirement` "ALSO proves room membership"
  (`lib.rs:1386`); over an approval-free requirement the room stays approval-free
  (`lib.rs:1427`).
* The anonymity floor counts the stored members, which the comment at
  `server.ts:2634` calls "kept in sync with the pinned root". A pin that fails, two
  that land out of order, and `register`, which pins nothing, leave them apart; an out-of-order pin can shrink the pinned root, and
  `approve-batch` after a failed pin has nothing left to approve. What does hold is
  `PinnedIsStored`: the store knows every pinned root.
* "A single-process promise chain is enough" (`server.ts:4474`) for the relay's
  sequence numbers: the flusher and the enrollment routes send from the same key
  without that lock.
* A call a flush gave up on after 90 s still lands, after the calls shuffled behind
  it. A queue-access for a pair already queued keeps the older bundle
  (`batch-queue-store.ts:88`), whose nullifier need not be the one it was queued
  under (2.3).
* The tier's prove route re-pins "the HONEST current roots" (`server.ts:4643`): the
  member root is read before a scan that takes as long as the escrow is large, and
  an enrollment or pin meanwhile is overwritten by the older root until the next
  pin.
* The fundraise's can-access route "can never contradict" the contract
  (`server.ts:1496`): it makes its reads in separate calls.
* A second grant replaces the first even when it expires earlier (the credential
  gates; in the tier gate also another tier's, the record being keyed by the
  accessor alone). Removing an issuer ends no grant made on its word.
* A private field is "never disclosed; MASKED" (`redaction.ts:22`), and what is not
  a date is redacted "rather than leak" (line 72). The pattern there asks for four
  digits and the end of a word: a private value that is just four digits, a year or
  a PIN, is shown whole under the mask `year`. `SealedOpens` states that exception
  (`MayShow`); a value of up to four characters under `last4` is withheld.
* A teaser's journal names neither room nor document (`dataroom/src/lib.rs:442`),
  so an owner may put one appraiser's figure under any document, and its figure is
  the owner's input (`server.ts:3646`). An expired one cannot be renewed
  (`lib.rs:1246`). The document guest does not look at a statement's expiry, as it
  says itself (`guest-docauth/src/main.rs:117`). Removing an appraiser or a bank ends no record.
* `reconstructWithCommitment` tries pairs of shares (`committee.ts:149`, SDK
  `committee.ts:264`), which matches the default `COMMITTEE_THRESHOLD` of 2. With
  three, no pair reconstructs; the model takes `Threshold` shares to be enough. The
  SDK's version throws on a mixture, and its share requests are one `Promise.all`
  (`client.ts:1781`, `:1811`): one keyper that cannot be reached fails the read
  that the route would have completed.
* In the hook, a resumed flow keeps the room of the render that mounted the panel,
  not the ticket's (`useSharedOpen.ts:1031`, against the comment at line 999). A ticket
  is cleared by account and room (`openTicket.ts:38`), so one flow may clear another's.
* The hook's spinner need not end: the "dead waiting screen" that line 539 means to
  avoid is reached while the shared ref `cancelled` stays set. `BusyEnds` and
  `QueuedRowsOpen` claim nothing of those states (their `\/ cancelled`), which are
  these. (a) Another room is selected while `queueAccess` is awaited: the rows of the
  room list stay clickable (`OpenShared.tsx:497`), `selectRoom` sets the ref and the
  phase `idle`, and the old flow stores its ticket, shows `waiting` (line 518) and
  ends at line 522 without a word; `toggleDoc` then starts nothing, since the phase
  is not idle (line 958). The same flow shows `queuing` if its proof was what it
  waited for (line 584), and `opening` if it was a poll that came back `submitted`
  (line 487 ends it). (b) A wallet that locks sets the ref (line 323) under a flow
  that waits or opens; unlocking does not resume it, the account being the same
  (line 1006). (c) After that, or if the wallet locks while rows are expanded, the
  auto-open effect still runs with the ref set: it shows `opening`, fetches, and
  drops the answer. Selecting a room, or "Try again" on another row, which clears
  the ref, ends each of them.
* A flow of the former room, revived by opening a document of the next, marks the
  *next* room's access as landed (`setRoomAccessReady`, line 497). If the wallet
  declined to derive the identity there, no row of that room opens until it is
  selected again: the auto-open effect wants an identity (line 968), and `toggleDoc`
  leaves the row to the effect (line 953). `Queued` therefore asks for the identity.

## 4. What is proved

TLAPS checks, for every value of the constants that satisfies the modules'
`ASSUME`s:

| Theorem | States | Argument |
|---|---|---|
| `EscrowTypeCorrect`, `EscrowHolds`, `EscrowNeverWeakens` | types, `HeldUntilUnlock`, `LockOnlyStrengthens` | inductive as they stand, given the types |
| `EscrowBacked` | `LocksBacked` | the sum of open locks is the cardinality of a set of units; each release removes exactly its lock's units, each deposit adds those it received |
| `ReleasesPayClaimants` | `ReleasePaysClaimant` | a revocable lock's claimant is its depositor (`RevocableIsSelf`), so all three release calls pay the claimant |
| `BondedAccessProofs!TypeCorrect` | `TypeOK`, with the ring's cap | |
| `GrantsAreBonded`, `OpenGrantsAreBonded` | `GrantImpliesBondedMember`, `OpenGrantImpliesBonded` | see below |
| `GrantedOnce` | `OneGrantPerIdentity` | every logged grant's nullifier is spent, and a spent one is refused |
| `PromiseKept` | `KeepsPromise` | every step of the composition maps to a promised step or a stutter |
| `ScanLeavesNoneOut` | `ScanComplete`, if `MaxLocks <= ScanMax` | see below |
| `DataRoomProofs!TypeCorrect` | `TypeOK`; no stored policy is empty | |
| `GrantsAreEligible`, `OneAccess`, `RevokedIsOut` | `GrantedIsEligible`, `OneAccessPerIdentity`, `RevokedStaysOut` | `MemberInv`: a grant is what a proof of a leaf made it, its nullifier is spent, and log and nullifiers grow together |
| `AdmissionsAreBacked`, `AdmittedHaveKeys` | `AdmittedIsBacked`, `AdmittedCanBeSealed` | only the promise of bonded access is used; a room in approval-free mode has a requirement |
| `LogsAreRecords` | `LogsAgree` | an append is the only change of a log, and comes with the record that names its place |
| `RoomTakesPromise` | `Spec => PromiseSpec` | the room reads the promise and leaves it alone; with `PromiseKept`, what is proved of the room rests on what is proved of escrow, indexer and gate |
| `RoomWithin` | `KeySpec => Spec` | dealing and keypers move the room only through its own calls, so every data-room theorem holds of the composed system |
| `KeyTypeCorrect`, `NewKeysAreWithheld` | `KeyTypeOK`, `NewKeyWithheld` | see below |
| `AccessEarnedAlways` | `AccessIsEarned` | `CredentialInv`: logs hold what journals said, records are log entries, the revenue record came from a journal |
| `NoSanctionedGrantEver` | `NoSanctionedGrant` | see below |
| `LocksHeld`, `LocksStayBacked`, `LocksOnlyStrengthen`, `ReleasesPay` | escrow types, `HeldUntilUnlock`, `LocksBacked`, `LockOnlyStrengthens` and `ReleasePaysClaimant` whichever contracts are deployed beside it | the other contracts do not write the escrow (`EscrowMoves`), and the step lemmas of `EscrowProofs` speak of its state only |
| `EscrowWithin` | bonded access implies `EscrowSpec` | gate and indexer only read the escrow |
| `SolvencyIsBacked` | `GrantIsBacked` | see below |
| `ResultsCoverSupply` | `ReservesCoverSupply` | the supply is the cardinality of the set of held units (`SupplyHeld`), whatever is minted, burned or moved |
| `SealedAlwaysOpens`, `AdvertisedAlwaysVouched` | `SealedOpens`, `AdvertisedIsVouched` | see below |
| `TierCrowdAlwaysFunded` | `TierCrowdIsFunded` | see below |
| `AuditsAreSnapshots` | `AuditIsASnapshot` | see below |
| `KeysOutlast` | `KeysOutlastFailures` | see below |
| `ReadersOnlyRead` | `ReaderSpec => KeySpec` | no step of a reader writes what chain, backend or keypers have |
| `MismatchesAreOverwrites` | of the shares a mismatching open holds, no two are from keypers that never overwrote theirs, if `Threshold <= 2` | see below |
| `SubmittedAccessIsGranted`, `PinnedRootsAreStored` | `SubmittedIsGranted`, `PinnedIsStored` | see below |
| `QueueOnRoom`, `GrantedAreEnrolled` | `QueueSpec => Spec`; a live grant of the room is an enrolled member's | the backend and its members make only the room's own calls, so `GrantedIsEligible` carries over, and the pinned root is stored |
| `ResultsAreKept`, `PollsSeeJobs` | `FinishedKeepsResult`; `Spec => Promise!JobsSafe`, the safety half of `KeepsJobsPromise` | see below |
| `LandedTasksAreGranted`, `TasksGiveUpForCause` | `LandedIsGranted`, `GivesUpForCause` | see below |
| `TasksTakeJobs` | `Spec => JobsSafe` | the tasks only queue jobs and look at them; `PollsSeeJobs` is the other side of it |

**Bonded access.** The properties are not inductive: the gate knows a root, not a
lock. The invariant `Sound` says that what a run found, every root in a ring and
every grant name identities that *once* locked a qualifying bond (`Qualified`).
That is stable because no escrow step weakens a lock, so a stale reading never
becomes false, only old; `HeldUntilUnlock` then turns "once locked" into "still
there" before the deadline. **The tier** is proved along the same line
(`TierInv`), for any number of requests at once, although the run serves one.

**Scan.** A member not found yet has a lock whose read has not returned
(`Ahead`): one of this batch, or a later one. Ids have no gaps, so a lock in a
later batch means the first id of this batch is a lock, and the batch is not taken
for the last. The hypothesis on the number of locks is necessary (2.3).

**New keys.** Every share, request and release carries a key of its own document
(`SharesOwn`, `DealsOwn`, `AsksOwn`). A key gets its document once, so the set of
accessors barred since it was made only shrinks; a request that passed the chain
check has left that set for good, and reading the store *before* the check is what
puts the key's making before the check. The mutant `SealedKey_wrong` swaps the two
reads.

**Deny list.** A journal names two leaves of the list that enclose the subject.
`BracketedIsMissing` shows that the upper one is the least leaf above the lower, so
nothing on the list lies between, for lists of any size.

**Solvency.** A grant keeps the supply it was proven for, and is live only while
the token still reports it, the issuer's word is unexpired and the bond open. That
the escrow holds *all* grantees' bonds at once needs one bond per grantee: the
locks of different grants are different because a revocable lock is its
depositor's, which injects `BondUnits` into `OwedUnits`.

**Sealed documents.** Every anchored document under a key of the backend's carries
that request's journal, and the request was answered, hence its blob is stored
(`SealInv`). Blobs are never removed and records never replaced, so it opens for
ever; the tag and the blob's key keep every other secret out. What a view shows
whole is read off the mask rules (`RedactHides`), for every policy and document. A
teaser's hash is its document's for the same reason.

**Keypers' shares.** That keypers hold an anchored key is not inductive: a request
anchors because it was *told* that all took its share. The invariant (`SafeInv`)
ties the three places together. A keyper that answered yes to a request holds the
share in memory and on disk, or has overwritten it since (`Safe`); a request that
anchors has all answers (`JobOK`); so every keyper is `Safe` for every anchored key.
`Safe` is a fact about one keyper and one key that no step undoes: a store, which
flushes the whole map, disturbs only the share it replaces, a flush that throws
leaves both copies as they are, and a restart brings the file back. That is why it
needs no hypothesis on routes, on overlapping requests or on late deals, all of
which only overwrite. The step from there to `Recoverable` is what the code leaves
to its users (2.3).

**The reader.** The keypers of an open are `Safe` for the key whose commitment it
read, because the document was anchored to it; this outlives any rotation that
follows. So a keyper that answers with another key has overwritten its share
(`OpenOK`), and two that have not are a pair that reconstructs. `Threshold <= 2` is
not for convenience: pairs are what `reconstructWithCommitment` tries (3.1).

**Enrollment and the queue.** A flush marks a ticket when *its* transaction lands,
so the invariant says which ticket an awaited transaction serves (`AwaitedOK`),
through timeouts (the transaction stays in flight, no longer awaited) and restarts.
Everything in flight that pins a root pins a subset of the store, and the store only
grows (`PinsStored`); the order in which pins land then does not matter.

**The gateway.** A job is finished by one step, which clears its witness; claims and
the fallback's pick look for open jobs. A late report replaces a result by another
and never reopens a job. That polls see only what `ProverJobs` allows needs that
workers and fallback hold jobs that were queued (`InHand`).

**Submissions.** Grants are never removed, so what a task saw stays. A task that is
out of attempts has a mark for each: the gate's reason, a fault, or a grant that
was hidden by a lost answer (`TaskOK`); in the last case it finds the grant when it
looks again and does not give up.

**The audit.** Between pages the log only grows at its end. What was read is
`SubSeq(log, 1, n)`, with n the number of entries the pages reach, capped by the
log at the last read (`AuditReads`); once no page is left n is at least the count
the audit began with. The rows in which accessors were disclosed last are in
bijection with the accessors, and the units of their salaries with the units the
payroll counts (`UnitsAlike`), whence both numbers (`ReportsPayroll`). A total is
the cardinality of a set of units here for that reason, as the escrow's sums are:
a sum by recursion over a set would put the proof out of reach.

**Only model-checked.** Every safety property of the passing runs is proved, except
`SharesSurviveAnchoring` and `MismatchIsDisturbed`, which rest on assumptions the
code does not enforce (2.3). Liveness under fairness and ENABLED are out
of this prover's reach, so `QueuedEnds`, `TasksEnd`, `BusyEnds`, `QueuedRowsOpen`
and the liveness half of `KeepsJobsPromise` stay with TLC, as do the three
violations, of which there is nothing to prove. `SharedOpen` has no theorem: its
passing questions are liveness. `MaxLocks`, `MaxTime`, `MaxGrants`, `MaxEpoch`,
`MaxAsks`, `MaxJobs` and the other bounds are arbitrary naturals in the proofs.

## 5. Not modelled

`PROJECT.json` gives the reason for each. In short: pairing arithmetic, ciphers and
proof generation are outside TLC's reach and enter by their promise; file stores,
the faucet, the signer, the audit trail, object storage and the MCP server have no
protocol of their own; of the SDK only its reader, and of the frontend only the
shared-open hook with its ticket and cache, keep state across awaits that a
property here is about. Within modelled components these are left out: rate limits
and CORS, the wording of errors and events, storage TTLs, the audit of the
owner's signature on room calls (every call is taken to be authorised), a blob store
that loses what it stored, and the admin calls of 2.3.

## 6. Plan

Done: every contract, the backend routes with a protocol of their own, the gateway,
the keypers and the frontend hook. Left, in this order:

1. The wallet's sync of handle, grants and rooms through the vault
   (`frontend/src/lib`: orchestrator, restore), and the pages that keep state across
   awaits (Tier, Anchor); the hook's remaining parts (the sync of the room list, the
   inline deposit). The questions that module has to settle, read in the code and
   not yet checked: whether two devices that both find the vault empty
   (`bondOpenIdentity.ts:98-108`, the check and the put are separate requests)
   strand the first one's bond; whether turning sync on replaces a local handle that
   was never backed up (`bonded/restore.ts:19-22`); whether a device that still holds
   the old handle pushes its list after a re-mint (`Tier.tsx:528-529`); and whether
   `refreshRequests`, which reads before its awaits and writes after them
   (`useEnroll.ts:140-154`), loses a request written in between.
2. Two tier requests at once in TLC (proved already), larger instances of
   `access_queue` and `reader`.
3. Algorithms against reference definitions: Shamir over a small field, the
   padded eligible tree.
4. Proofs: the safety a liveness argument rests on (a queued ticket is never
   stranded outside a flush, an open job is always somebody's), as lemmas beside
   the four liveness questions.
