------------------------------- MODULE BondGate -------------------------------
(***************************************************************************)
(* The bond gate, contract/contracts/bond-gate/src/lib.rs, together with   *)
(* what the two guests it pins can prove                                   *)
(* (prover/methods/guest-bond, prover/methods/guest-bond-open).            *)
(*                                                                         *)
(* Hashes are modelled by what they hash: an identity stands for id_secret *)
(* and for the lock commitment derived from it, a Merkle root for its set  *)
(* of leaves, a requirement id for the record it digests, a nullifier for  *)
(* the pair (identity, context).  The Groth16 verifier accepts exactly the *)
(* journals that an execution of the claimed image commits, so a proof is  *)
(* a member of Proofs and may be submitted by anyone, late and repeatedly. *)
(***************************************************************************)
EXTENDS Ledger, Sequences, FiniteSets

CONSTANTS
    Identities,     \* id_secrets
    Accessors,      \* ed25519 holder keys grants are recorded under
    RecipientKeys,  \* x25519 keys the bond-open guest binds
    MemberRoots,    \* roots of enrolled sets: sets of identities
    Reqs,           \* requirements: [token, min_amount, deadline]
    BondImage,      \* image id of the bond guest
    OpenImage,      \* image id of the bond-open guest
    None,           \* an absent value
    RingCap,        \* RING_CAP
    Images,         \* the image ids the admin sets
    MaxGrants,      \* bound: grants on the membership path
    MaxOpenGrants   \* bound: grants on the approval-free path

ASSUME BondGateAssumption ==
    /\ MemberRoots \subseteq SUBSET Identities
    /\ \A req \in Reqs : req.min_amount \in Nat /\ req.deadline \in Nat
    /\ BondImage # OpenImage
    /\ None \notin Images
    /\ RingCap \in Nat \ {0}
    /\ MaxGrants \in Nat
    /\ MaxOpenGrants \in Nat

VARIABLES
    config,             \* Config.image_id, or None before initialize
    open_image,         \* OpenImageId, or None
    ring,               \* QualRing(req): accepted roots, oldest first
    nullifiers,         \* Nullifier(_)
    grants,             \* Grant(accessor, req)
    log,                \* Log(0..Count-1); Latest is its last entry
    open_nullifiers,    \* NullifierOpen(_)
    open_grants,        \* OpenGrant(accessor, req)
    open_log            \* OpenLog(0..OpenCount-1)

membershipVars == <<nullifiers, grants, log>>
openVars == <<open_nullifiers, open_grants, open_log>>
gateVars == <<config, open_image, ring, membershipVars, openVars>>

Roots == SUBSET Identities
Nullifiers == Identities \X Reqs

BondGrant == [accessor: Accessors, req: Reqs, member_root: MemberRoots,
              qual_root: Roots, nullifier: Nullifiers]

BondOpenGrant == [accessor: Accessors, req: Reqs, qual_root: Roots,
                  recipient_pub: RecipientKeys, nullifier: Nullifiers]

GateTypeOK ==
    /\ config \in Images \cup {None}
    /\ open_image \in Images \cup {None}
    /\ ring \in [Reqs -> Seq(Roots)]
    /\ \A req \in Reqs : Len(ring[req]) <= RingCap
    /\ nullifiers \subseteq Nullifiers
    /\ DOMAIN grants \subseteq Accessors \X Reqs
    /\ \A k \in DOMAIN grants : grants[k] \in BondGrant
    /\ log \in Seq(BondGrant)
    /\ open_nullifiers \subseteq Nullifiers
    /\ DOMAIN open_grants \subseteq Accessors \X Reqs
    /\ \A k \in DOMAIN open_grants : open_grants[k] \in BondOpenGrant
    /\ open_log \in Seq(BondOpenGrant)

GateInit ==
    /\ config = None
    /\ open_image = None
    /\ ring = [req \in Reqs |-> <<>>]
    /\ nullifiers = {} /\ grants = Empty /\ log = <<>>
    /\ open_nullifiers = {} /\ open_grants = Empty /\ open_log = <<>>

-------------------------------------------------------------------------------
(* What the guests can prove.  The witness is the prover's own: any set it  *)
(* has a path into, any requirement and any context.                        *)

\* guest-bond: one id_secret, a leaf of both trees; the holder key is the
\* accessor.
BondProofs ==
    {[image |-> BondImage, claim_type |-> "bond",
      member_root |-> w[2], qual_root |-> w[3], req |-> w[4],
      context |-> w[5], nullifier |-> <<w[1], w[5]>>, accessor |-> w[6]] :
        w \in {v \in Identities \X MemberRoots \X Roots \X Reqs \X Reqs
                     \X Accessors : v[1] \in v[2] /\ v[1] \in v[3]}}

\* guest-bond-open: no member tree, a signed recipient key instead.
BondOpenProofs ==
    {[image |-> OpenImage, claim_type |-> "bond-open",
      qual_root |-> w[2], req |-> w[3], context |-> w[4],
      nullifier |-> <<w[1], w[4]>>, accessor |-> w[5],
      recipient_pub |-> w[6]] :
        w \in {v \in Identities \X Roots \X Reqs \X Reqs \X Accessors
                     \X RecipientKeys : v[1] \in v[2]}}

Proofs == BondProofs \cup BondOpenProofs

-------------------------------------------------------------------------------
(* Entry points. *)

initialize(image_id) ==
    /\ config = None
    /\ config' = image_id
    /\ UNCHANGED <<open_image, ring, membershipVars, openVars>>

\* Wrong (definitions named ..._wrong seed the bug one property must catch):
\* the nullifier may be scoped to any requirement.
BoundToRequirement_wrong(p) ==
    /\ p.req.min_amount > 0
    /\ \E k \in DOMAIN ring[p.req] : ring[p.req][k] = p.qual_root
    /\ now < p.req.deadline

\* Wrong: any qualifying root is accepted.
BoundToRequirement_wrong_root(p) ==
    /\ p.req.min_amount > 0
    /\ p.context = p.req
    /\ now < p.req.deadline

\* The checks both submissions share: the nullifier's context is the
\* requirement, the qualifying root is a recent accepted one, the deadline
\* has not passed.
BoundToRequirement(p) ==
    /\ p.req.min_amount > 0
    /\ p.context = p.req
    /\ \E k \in DOMAIN ring[p.req] : ring[p.req][k] = p.qual_root
    /\ now < p.req.deadline

submit_bond_proof(p) ==
    LET grant == [accessor |-> p.accessor, req |-> p.req,
                  member_root |-> p.member_root, qual_root |-> p.qual_root,
                  nullifier |-> p.nullifier] IN
    /\ config # None
    /\ p.image = config
    /\ p.claim_type = "bond"
    /\ BoundToRequirement(p)
    /\ p.nullifier \notin nullifiers
    /\ Len(log) < MaxGrants
    /\ nullifiers' = nullifiers \cup {p.nullifier}
    /\ log' = Append(log, grant)
    /\ grants' = Put(grants, <<p.accessor, p.req>>, grant)
    /\ UNCHANGED <<config, open_image, ring, openVars>>

submit_bond_open_proof(p) ==
    LET grant == [accessor |-> p.accessor, req |-> p.req,
                  qual_root |-> p.qual_root, recipient_pub |-> p.recipient_pub,
                  nullifier |-> p.nullifier] IN
    /\ config # None
    /\ open_image # None
    /\ p.image = open_image
    /\ p.claim_type = "bond-open"
    /\ BoundToRequirement(p)
    /\ p.nullifier \notin open_nullifiers
    /\ Len(open_log) < MaxOpenGrants
    /\ open_nullifiers' = open_nullifiers \cup {p.nullifier}
    /\ open_log' = Append(open_log, grant)
    /\ open_grants' = Put(open_grants, <<p.accessor, p.req>>, grant)
    /\ UNCHANGED <<config, open_image, ring, membershipVars>>

\* Wrong: the oldest root is never evicted.
set_qual_root_wrong(req, qual_root) ==
    /\ config # None
    /\ ring' = [ring EXCEPT ![req] = Append(ring[req], qual_root)]
    /\ UNCHANGED <<config, open_image, membershipVars, openVars>>

\* set_qual_root: a ring of the last RingCap roots; re-publishing the newest
\* is a no-op.
set_qual_root(req, qual_root) ==
    LET n == Len(ring[req])
        pushed == Append(ring[req], qual_root) IN
    /\ config # None
    /\ ring' = IF n > 0 /\ ring[req][n] = qual_root THEN ring
               ELSE [ring EXCEPT ![req] =
                        IF Len(pushed) > RingCap THEN Tail(pushed) ELSE pushed]
    /\ UNCHANGED <<config, open_image, membershipVars, openVars>>

set_image_id(image_id) ==
    /\ config # None
    /\ config' = image_id
    /\ UNCHANGED <<open_image, ring, membershipVars, openVars>>

set_open_image_id(image_id) ==
    /\ config # None
    /\ open_image' = image_id
    /\ UNCHANGED <<config, ring, membershipVars, openVars>>

-------------------------------------------------------------------------------
(* Reads the data room makes. *)

is_granted_for(accessor, req, member_root) ==
    /\ <<accessor, req>> \in DOMAIN grants
    /\ now < grants[<<accessor, req>>].req.deadline
    /\ grants[<<accessor, req>>].member_root = member_root

is_open_granted(accessor, req) ==
    /\ <<accessor, req>> \in DOMAIN open_grants
    /\ now < open_grants[<<accessor, req>>].req.deadline

get_open_recipient_pub(accessor, req) ==
    IF <<accessor, req>> \in DOMAIN open_grants
    THEN open_grants[<<accessor, req>>].recipient_pub
    ELSE None

-------------------------------------------------------------------------------
Initialize == \E image \in Images : initialize(image)

SubmitBondProof == \E p \in Proofs : submit_bond_proof(p)

SubmitBondOpenProof == \E p \in Proofs : submit_bond_open_proof(p)

SetImageId == \E image \in Images : set_image_id(image)

SetOpenImageId == \E image \in Images : set_open_image_id(image)

\* Every call but set_qual_root, which takes the indexer's root.
GateCall ==
    \/ Initialize
    \/ SubmitBondProof
    \/ SubmitBondOpenProof
    \/ SetImageId
    \/ SetOpenImageId

===============================================================================
