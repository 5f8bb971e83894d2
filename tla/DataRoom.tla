------------------------------- MODULE DataRoom -------------------------------
(***************************************************************************)
(* The data room, contract/contracts/dataroom/src/lib.rs: rooms, their     *)
(* anonymous membership grants, committee documents, policies, bonded      *)
(* access requirements, admissions and revocation.  Sealed documents,      *)
(* document facts and teasers touch none of this state and are left out.   *)
(*                                                                         *)
(* Only the room's owner calls the actions under "Owner"; everybody calls  *)
(* the others.  The contract is deployed and initialised.  The bond gate   *)
(* is its promise (BondPromise); the compliance and accredited gates are   *)
(* answers that may change at any moment.                                  *)
(***************************************************************************)
EXTENDS BondPromise, Sequences, FiniteSets

CONSTANTS
    Rooms, Docs,
    Keys,               \* document keys; a k_commitment stands for its key
    Gates,              \* the attestation gates a policy can name
    Policies,           \* policies owners set
    EligibleRoots,      \* roots owners pin: sets of identities
    MembershipImage,    \* image id of the membership guest
    Images,             \* image ids the admin pins
    MaxEpoch            \* bound: rotations of one document

ASSUME DataRoomAssumption ==
    /\ EligibleRoots \subseteq SUBSET Identities
    /\ None \notin EligibleRoots
    /\ Policies \subseteq [require_membership: BOOLEAN, gates: SUBSET Gates]
    /\ None \notin Policies \cup Reqs
    /\ None \notin Images \cup RecipientKeys
    /\ \A req \in Reqs : req.deadline \in Nat /\ req.min_amount \in Nat
    /\ MaxEpoch \in Nat

VARIABLES
    rooms,              \* Room(_): the rooms that exist
    membership_image,   \* MembershipImageId, or None
    eligible_root,      \* EligibleRoot(room), or None
    nullifiers,         \* Nullifier(room, _)
    grants,             \* Grant(room, accessor)
    grant_log,          \* GrantLog(room, 0..GrantCount-1)
    committee,          \* CommitteeDoc(room, doc)
    committee_log,      \* CommitteeDocLog(room, 0..CommitteeDocCount-1)
    key_epoch,          \* KeyEpoch(room, doc); absent is 0
    room_policy,        \* RoomPolicy(room), or None
    doc_policy,         \* DocPolicy(room, doc)
    bond_req,           \* BondReq(room), or None
    bond_req_doc,       \* BondReqDoc(room, doc)
    bond_open,          \* BondOpen(_): rooms in approval-free mode
    revoked,            \* Revoked(room, accessor)
    admissions,         \* Admission(room, accessor)
    admission_log,      \* AdmissionLog(room, 0..AdmissionCount-1)
    passed              \* pairs (gate, accessor) the gates grant now

memberVars == <<membership_image, eligible_root, nullifiers, grants, grant_log>>
docVars == <<committee, committee_log, key_epoch>>
policyVars == <<room_policy, doc_policy, bond_req, bond_req_doc, bond_open>>
admissionVars == <<admissions, admission_log>>
gateVars == <<now, promiseVars, passed>>
roomVars == <<rooms, memberVars, docVars, policyVars, revoked, admissionVars>>
vars == <<roomVars, gateVars>>

Grant == [index: Nat, recipient_pub: RecipientKeys,
          eligible_root: SUBSET Identities, nullifier: Identities \X Rooms]

\* Policies that ask for something.
LivePolicies == {p \in Policies : p.require_membership \/ p.gates # {}}

TypeOK ==
    /\ now \in Nat
    /\ PromiseTypeOK
    /\ rooms \subseteq Rooms
    /\ membership_image \in Images \cup {None}
    /\ eligible_root \in [Rooms -> EligibleRoots \cup {None}]
    /\ nullifiers \subseteq Identities \X Rooms
    /\ DOMAIN grants \subseteq Rooms \X Accessors
    /\ \A k \in DOMAIN grants : grants[k] \in Grant
    /\ grant_log \in [Rooms -> Seq(Accessors)]
    /\ DOMAIN committee \subseteq Rooms \X Docs
    /\ \A k \in DOMAIN committee : committee[k] \in [index: Nat, key: Keys]
    /\ committee_log \in [Rooms -> Seq(Docs)]
    /\ key_epoch \in [Rooms \X Docs -> Nat]
    /\ room_policy \in [Rooms -> LivePolicies \cup {None}]
    /\ doc_policy \in [Rooms \X Docs -> LivePolicies \cup {None}]
    /\ bond_req \in [Rooms -> Reqs \cup {None}]
    /\ bond_req_doc \in [Rooms \X Docs -> Reqs \cup {None}]
    /\ bond_open \subseteq Rooms
    /\ revoked \subseteq Rooms \X Accessors
    /\ DOMAIN admissions \subseteq Rooms \X Accessors
    /\ \A k \in DOMAIN admissions :
          admissions[k] \in [index: Nat, required: SUBSET Gates]
    /\ admission_log \in [Rooms -> Seq(Accessors)]
    /\ passed \subseteq Gates \X Accessors

Init ==
    /\ now = 0
    /\ PromiseInit
    /\ rooms = {}
    /\ membership_image = None
    /\ eligible_root = [r \in Rooms |-> None]
    /\ nullifiers = {}
    /\ grants = Empty
    /\ grant_log = [r \in Rooms |-> <<>>]
    /\ committee = Empty
    /\ committee_log = [r \in Rooms |-> <<>>]
    /\ key_epoch = [k \in Rooms \X Docs |-> 0]
    /\ room_policy = [r \in Rooms |-> None]
    /\ doc_policy = [k \in Rooms \X Docs |-> None]
    /\ bond_req = [r \in Rooms |-> None]
    /\ bond_req_doc = [k \in Rooms \X Docs |-> None]
    /\ bond_open = {}
    /\ revoked = {}
    /\ admissions = Empty
    /\ admission_log = [r \in Rooms |-> <<>>]
    /\ passed = {}

-------------------------------------------------------------------------------
(* Reads. *)

\* Wrong (definitions named ..._wrong seed the bug one property must catch):
\* a grant outlives the root it was proven against.
is_granted_wrong(r, a) ==
    /\ <<r, a>> \notin revoked
    /\ <<r, a>> \in DOMAIN grants
    /\ eligible_root[r] # None

\* The live membership decision: a grant proven against the current root.
is_granted(r, a) ==
    /\ <<r, a>> \notin revoked
    /\ <<r, a>> \in DOMAIN grants
    /\ eligible_root[r] # None
    /\ grants[<<r, a>>].eligible_root = eligible_root[r]

\* Wrong: any root the bond was proven against will do.
bond_leg_ok_wrong(r, req, a) ==
    /\ eligible_root[r] # None
    /\ \E root \in MemberRoots : GrantedFor(a, req, root)

\* The member bond leg: a bond proven against the room's current root.
bond_leg_ok(r, req, a) ==
    /\ eligible_root[r] # None
    /\ GrantedFor(a, req, eligible_root[r])

bond_open_leg_ok(req, a) == OpenGranted(a, req)

BondLeg(r, req, a) ==
    IF r \in bond_open THEN bond_open_leg_ok(req, a) ELSE bond_leg_ok(r, req, a)

\* The gates a policy names, asked live.
GatesPass(policy, a) ==
    policy = None \/ \A g \in policy.gates : <<g, a>> \in passed

\* The per-document record if there is one, else the room's.
EffectiveReq(r, d) ==
    IF bond_req_doc[<<r, d>>] # None THEN bond_req_doc[<<r, d>>] ELSE bond_req[r]

EffectivePolicy(r, d) ==
    IF doc_policy[<<r, d>>] # None THEN doc_policy[<<r, d>>] ELSE room_policy[r]

\* A bond requirement replaces the membership leg; the gates are ANDed on top.
\* (is_admitted is this decision on the room's own records.)
Decide(r, req, policy, a) ==
    /\ IF req # None THEN BondLeg(r, req, a)
       ELSE (policy # None /\ policy.require_membership => is_granted(r, a))
    /\ GatesPass(policy, a)

\* What the keypers ask before they release a share.
is_doc_admitted(r, d, a) ==
    LET req == EffectiveReq(r, d)
        policy == EffectivePolicy(r, d) IN
    /\ <<r, a>> \notin revoked
    /\ IF req = None /\ policy = None THEN is_granted(r, a)
       ELSE Decide(r, req, policy, a)

\* The key the keypers seal a share to.
admission_recipient_pub(r, a) ==
    IF r \in bond_open
    THEN IF bond_req[r] # None THEN OpenRecipientPub(a, bond_req[r]) ELSE None
    ELSE IF <<r, a>> \in DOMAIN grants THEN grants[<<r, a>>].recipient_pub
    ELSE None

-------------------------------------------------------------------------------
(* Membership. *)

\* What the membership guest can prove: a leaf of some root, a nullifier of
\* the identity and the room, a holder key that signed the recipient key.
MembershipProofs ==
    {[image |-> MembershipImage, claim_type |-> "membership", room |-> w[1],
      eligible_root |-> w[3], nullifier |-> <<w[2], w[1]>>, accessor |-> w[4],
      recipient_pub |-> w[5]] :
        w \in {v \in Rooms \X Identities \X EligibleRoots \X Accessors
                     \X RecipientKeys : v[2] \in v[3]}}

set_membership_image_id(image_id) ==
    /\ membership_image' = image_id
    /\ UNCHANGED <<rooms, eligible_root, nullifiers, grants, grant_log, docVars,
                   policyVars, revoked, admissionVars, gateVars>>

\* The proof checked the room's current eligible set.
Eligible(p) ==
    /\ p.room \in rooms
    /\ eligible_root[p.room] # None
    /\ p.eligible_root = eligible_root[p.room]

\* Wrong: the nullifier is looked up under the accessor's grant only.
Fresh_wrong(p) == <<p.room, p.accessor>> \notin DOMAIN grants

Fresh(p) == p.nullifier \notin nullifiers

request_access(p) ==
    LET r == p.room
        index == Len(grant_log[r]) IN
    /\ membership_image # None
    /\ p.image = membership_image
    /\ p.claim_type = "membership"
    /\ Eligible(p)
    /\ Fresh(p)
    /\ nullifiers' = nullifiers \cup {p.nullifier}
    /\ grants' = Put(grants, <<r, p.accessor>>,
                     [index |-> index, recipient_pub |-> p.recipient_pub,
                      eligible_root |-> p.eligible_root,
                      nullifier |-> p.nullifier])
    /\ grant_log' = [grant_log EXCEPT ![r] = Append(grant_log[r], p.accessor)]
    /\ UNCHANGED <<rooms, membership_image, eligible_root, docVars, policyVars,
                   revoked, admissionVars, gateVars>>

\* Wrong: a second admission takes a second place in the log.
AdmissionIndex_wrong(r, a) == Len(admission_log[r])

\* A second admission of an accessor keeps its place in the log.
AdmissionIndex(r, a) ==
    IF <<r, a>> \in DOMAIN admissions THEN admissions[<<r, a>>].index
    ELSE Len(admission_log[r])

\* request_room_admission: the room policy, the bond requirements play no part.
request_room_admission(r, a) ==
    LET policy == room_policy[r]
        index == AdmissionIndex(r, a) IN
    /\ policy # None
    /\ <<r, a>> \notin revoked
    /\ policy.require_membership => is_granted(r, a)
    /\ GatesPass(policy, a)
    /\ admissions' = Put(admissions, <<r, a>>,
                         [index |-> index, required |-> policy.gates])
    /\ admission_log' =
          IF index < Len(admission_log[r]) THEN admission_log
          ELSE [admission_log EXCEPT ![r] = Append(admission_log[r], a)]
    /\ UNCHANGED <<rooms, memberVars, docVars, policyVars, revoked, gateVars>>

-------------------------------------------------------------------------------
(* Owner. *)

create_room(r) ==
    /\ r \notin rooms
    /\ rooms' = rooms \cup {r}
    /\ UNCHANGED <<memberVars, docVars, policyVars, revoked, admissionVars,
                   gateVars>>

set_eligible_root(r, root) ==
    /\ r \in rooms
    /\ eligible_root' = [eligible_root EXCEPT ![r] = root]
    /\ UNCHANGED <<rooms, membership_image, nullifiers, grants, grant_log,
                   docVars, policyVars, revoked, admissionVars, gateVars>>

put_committee_document(r, d, key) ==
    /\ r \in rooms
    /\ <<r, d>> \notin DOMAIN committee
    /\ committee' = Put(committee, <<r, d>>,
                        [index |-> Len(committee_log[r]), key |-> key])
    /\ committee_log' = [committee_log EXCEPT ![r] = Append(committee_log[r], d)]
    /\ UNCHANGED <<key_epoch, rooms, memberVars, policyVars, revoked,
                   admissionVars, gateVars>>

rotate_committee_document(r, d, key) ==
    /\ r \in rooms
    /\ <<r, d>> \in DOMAIN committee
    /\ key_epoch[<<r, d>>] < MaxEpoch
    /\ committee' = Put(committee, <<r, d>>,
                        [index |-> committee[<<r, d>>].index, key |-> key])
    /\ key_epoch' = [key_epoch EXCEPT ![<<r, d>>] = key_epoch[<<r, d>>] + 1]
    /\ UNCHANGED <<committee_log, rooms, memberVars, policyVars, revoked,
                   admissionVars, gateVars>>

\* Wrong: the empty policy, which admits everybody, is accepted.
NotEmptyPolicy_wrong(policy) == TRUE

NotEmptyPolicy(policy) == policy.require_membership \/ policy.gates # {}

set_room_policy(r, policy) ==
    /\ r \in rooms
    /\ NotEmptyPolicy(policy)
    /\ room_policy' = [room_policy EXCEPT ![r] = policy]
    /\ UNCHANGED <<doc_policy, bond_req, bond_req_doc, bond_open, rooms,
                   memberVars, docVars, revoked, admissionVars, gateVars>>

set_doc_policy(r, d, policy) ==
    /\ r \in rooms
    /\ <<r, d>> \in DOMAIN committee
    /\ NotEmptyPolicy(policy)
    /\ doc_policy' = [doc_policy EXCEPT ![<<r, d>>] = policy]
    /\ UNCHANGED <<room_policy, bond_req, bond_req_doc, bond_open, rooms,
                   memberVars, docVars, revoked, admissionVars, gateVars>>

\* The approval-free mode of the room, if any, stays on.
set_bond_requirement(r, req) ==
    /\ r \in rooms
    /\ req.min_amount > 0
    /\ bond_req' = [bond_req EXCEPT ![r] = req]
    /\ UNCHANGED <<room_policy, doc_policy, bond_req_doc, bond_open, rooms,
                   memberVars, docVars, revoked, admissionVars, gateVars>>

\* Per-document requirements already set stay.
set_bond_open_requirement(r, req) ==
    /\ r \in rooms
    /\ req.min_amount > 0
    /\ bond_req' = [bond_req EXCEPT ![r] = req]
    /\ bond_open' = bond_open \cup {r}
    /\ UNCHANGED <<room_policy, doc_policy, bond_req_doc, rooms, memberVars,
                   docVars, revoked, admissionVars, gateVars>>

set_doc_bond_requirement(r, d, req) ==
    /\ r \in rooms
    /\ r \notin bond_open
    /\ <<r, d>> \in DOMAIN committee
    /\ req.min_amount > 0
    /\ bond_req_doc' = [bond_req_doc EXCEPT ![<<r, d>>] = req]
    /\ UNCHANGED <<room_policy, doc_policy, bond_req, bond_open, rooms,
                   memberVars, docVars, revoked, admissionVars, gateVars>>

\* Wrong: the mode flag is left set.
clear_bond_requirement_wrong(r) ==
    /\ r \in rooms
    /\ bond_req' = [bond_req EXCEPT ![r] = None]
    /\ UNCHANGED <<room_policy, doc_policy, bond_req_doc, bond_open, rooms,
                   memberVars, docVars, revoked, admissionVars, gateVars>>

clear_bond_requirement(r) ==
    /\ r \in rooms
    /\ bond_req' = [bond_req EXCEPT ![r] = None]
    /\ bond_open' = bond_open \ {r}
    /\ UNCHANGED <<room_policy, doc_policy, bond_req_doc, rooms, memberVars,
                   docVars, revoked, admissionVars, gateVars>>

clear_doc_bond_requirement(r, d) ==
    /\ r \in rooms
    /\ bond_req_doc' = [bond_req_doc EXCEPT ![<<r, d>>] = None]
    /\ UNCHANGED <<room_policy, doc_policy, bond_req, bond_open, rooms,
                   memberVars, docVars, revoked, admissionVars, gateVars>>

revoke_access(r, a, on) ==
    /\ r \in rooms
    /\ revoked' = IF on THEN revoked \cup {<<r, a>>} ELSE revoked \ {<<r, a>>}
    /\ UNCHANGED <<rooms, memberVars, docVars, policyVars, admissionVars,
                   gateVars>>

-------------------------------------------------------------------------------
(* The gates' answers: is_granted of a compliance or an accredited gate is *)
(* live, and may turn either way at any moment.                            *)
GateAnswerChanges(g, a) ==
    /\ passed' = IF <<g, a>> \in passed THEN passed \ {<<g, a>>}
                 ELSE passed \cup {<<g, a>>}
    /\ UNCHANGED <<roomVars, now, promiseVars>>

Anyone ==
    \/ \E p \in MembershipProofs : request_access(p)
    \/ \E r \in Rooms, a \in Accessors : request_room_admission(r, a)

Owner ==
    \E r \in Rooms :
        \/ create_room(r)
        \/ \E root \in EligibleRoots : set_eligible_root(r, root)
        \/ \E policy \in Policies : set_room_policy(r, policy)
        \/ \E req \in Reqs :
              set_bond_requirement(r, req) \/ set_bond_open_requirement(r, req)
        \/ clear_bond_requirement(r)
        \/ \E a \in Accessors, on \in BOOLEAN : revoke_access(r, a, on)

DocOwner ==
    \E r \in Rooms, d \in Docs :
        \/ \E policy \in Policies : set_doc_policy(r, d, policy)
        \/ \E req \in Reqs : set_doc_bond_requirement(r, d, req)
        \/ clear_doc_bond_requirement(r, d)

Anchor ==
    \E r \in Rooms, d \in Docs, key \in Keys :
        put_committee_document(r, d, key) \/ rotate_committee_document(r, d, key)

\* Everything but the anchoring of keys, which follows a deal (KeyRelease).
AccessStep ==
    \/ Anyone
    \/ Owner
    \/ DocOwner
    \/ \E image \in Images : set_membership_image_id(image)
    \/ PromiseStep /\ UNCHANGED <<now, roomVars, passed>>
    \/ \E g \in Gates, a \in Accessors : GateAnswerChanges(g, a)
    \/ Tick /\ UNCHANGED <<roomVars, promiseVars, passed>>

Next == AccessStep \/ Anchor

Spec == Init /\ [][Next]_vars

-------------------------------------------------------------------------------
(* Properties. *)

Prover(grant) == grant.nullifier[1]

\* What opens document d besides the gates: a membership grant, a bond of a
\* member, or a bond alone.
ByMembership(r, d) ==
    LET policy == EffectivePolicy(r, d) IN
    /\ EffectiveReq(r, d) = None
    /\ policy # None => policy.require_membership

ByMemberBond(r, d) == EffectiveReq(r, d) # None /\ r \notin bond_open

ByOpenBond(r, d) == EffectiveReq(r, d) # None /\ r \in bond_open

(***************************************************************************)
(* is_granted keeps the anonymous promise across root rotations, revoked   *)
(* and restored accessors and re-used holder keys: behind a live grant is  *)
(* a leaf of the root that is pinned now, and its nullifier is spent.      *)
(***************************************************************************)
GrantedIsEligible ==
    \A r \in Rooms, a \in Accessors :
        is_granted(r, a) =>
            LET i == Prover(grants[<<r, a>>]) IN
            /\ i \in eligible_root[r]
            /\ <<i, r>> \in nullifiers

(***************************************************************************)
(* One access per identity and room, whatever holder keys it uses and      *)
(* however often the root rotates: two grants never come from one          *)
(* identity, and the grant log has one entry per spent nullifier.          *)
(***************************************************************************)
OneAccessPerIdentity ==
    /\ \A k, l \in DOMAIN grants :
          grants[k].nullifier = grants[l].nullifier => k = l
    /\ \A r \in Rooms :
          Len(grant_log[r]) = Cardinality({n \in nullifiers : n[2] = r})

(***************************************************************************)
(* The audit trail: an accessor is in the admission log exactly when it    *)
(* has an admission record, once, at the index the record gives, however   *)
(* often it is re-admitted; and the grant of an accessor gives the index   *)
(* of its entry in the grant log.                                          *)
(***************************************************************************)
LogsAgree ==
    \A r \in Rooms :
        /\ \A a \in Accessors, n \in DOMAIN admission_log[r] :
              admission_log[r][n] = a <=>
                  /\ <<r, a>> \in DOMAIN admissions
                  /\ admissions[<<r, a>>].index = n - 1
        /\ \A a \in Accessors :
              /\ <<r, a>> \in DOMAIN admissions =>
                    admissions[<<r, a>>].index \in 0..(Len(admission_log[r]) - 1)
              /\ <<r, a>> \in DOMAIN grants =>
                    LET n == grants[<<r, a>>].index + 1 IN
                    n \in DOMAIN grant_log[r] /\ grant_log[r][n] = a

(***************************************************************************)
(* The decision the keypers act on.  Where membership opens a document,    *)
(* an admitted accessor is a leaf of the current root; where a member's    *)
(* bond does, such a leaf has its bond in the escrow now; in an            *)
(* approval-free room the bond is in the escrow now.                       *)
(***************************************************************************)
AdmittedIsBacked ==
    \A r \in Rooms, d \in Docs, a \in Accessors :
        is_doc_admitted(r, d, a) =>
            LET req == EffectiveReq(r, d) IN
            /\ ByMembership(r, d) =>
                  Prover(grants[<<r, a>>]) \in eligible_root[r]
            /\ ByMemberBond(r, d) =>
                  \E i \in eligible_root[r] :
                      bonds[<<a, req>>].identity = i /\ <<i, req>> \in bonded
            /\ ByOpenBond(r, d) =>
                  <<open_bonds[<<a, req>>].identity, req>> \in bonded

(***************************************************************************)
(* A reader the keypers serve can be sealed to: whoever membership admits, *)
(* and whoever a bond admits in a room whose approval-free requirement is  *)
(* the document's, has the key its own proof bound.                        *)
(***************************************************************************)
AdmittedCanBeSealed ==
    \A r \in Rooms, d \in Docs, a \in Accessors :
        /\ is_doc_admitted(r, d, a)
        /\ \/ ByMembership(r, d)
           \/ ByOpenBond(r, d) /\ bond_req_doc[<<r, d>>] = None
        => admission_recipient_pub(r, a) # None

(***************************************************************************)
(* revoke_access: "The revoked member can't re-enter (their room nullifier *)
(* is spent)".  Where membership opens a document, nobody is admitted for  *)
(* the identity behind a revoked accessor's grant.                         *)
(***************************************************************************)
RevokedStaysOut ==
    \A r \in Rooms, d \in Docs, a, b \in Accessors :
        /\ <<r, a>> \in revoked
        /\ <<r, a>> \in DOMAIN grants
        /\ ByMembership(r, d)
        /\ is_doc_admitted(r, d, b)
        => Prover(grants[<<r, b>>]) # Prover(grants[<<r, a>>])

-------------------------------------------------------------------------------
(* What the repository says and the contract does not do. *)

(***************************************************************************)
(* m1-enroll-selftest.ts: "approve m2: the root rotates; both members      *)
(* re-prove against the new root".  Pinning a larger root leaves every     *)
(* member of the old one a way in: a nullifier to spend or a live grant.   *)
(***************************************************************************)
WayIn(r, i) ==
    \/ <<i, r>> \notin nullifiers
    \/ \E a \in Accessors :
          is_granted(r, a) /\ Prover(grants[<<r, a>>]) = i

ApprovalKeepsMembers ==
    [][\A r \in Rooms, root \in EligibleRoots :
          /\ set_eligible_root(r, root)
          /\ eligible_root[r] # None
          /\ eligible_root[r] \subseteq root
          => \A i \in eligible_root[r] : WayIn(r, i) => WayIn(r, i)']_vars

===============================================================================
