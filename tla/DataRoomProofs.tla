---------------------------- MODULE DataRoomProofs ----------------------------
(***************************************************************************)
(* Proofs about the data room.                                             *)
(*                                                                         *)
(* The argument: only request_access writes grants, the grant log and the  *)
(* spent nullifiers, and it writes all three from one proof with a fresh   *)
(* nullifier.  So every grant names an identity of the root it was proven  *)
(* against, no two grants share a nullifier and the log counts them        *)
(* (MemberInv), whatever owners, gates and the bond gate do meanwhile.     *)
(* The decisions then follow from what is_granted compares.                *)
(***************************************************************************)
EXTENDS DataRoom, FiniteSetTheorems, TLAPS

USE DataRoomAssumption

GrantState == <<nullifiers, grants, grant_log>>

-------------------------------------------------------------------------------
(* Which steps matter. *)

LEMMA OwnerQuiet == Owner => UNCHANGED GrantState
<1> SUFFICES ASSUME Owner PROVE UNCHANGED GrantState
  OBVIOUS
<1> PICK r \in Rooms :
        \/ create_room(r)
        \/ \E root \in EligibleRoots : set_eligible_root(r, root)
        \/ \E policy \in Policies : set_room_policy(r, policy)
        \/ \E req \in Reqs :
              set_bond_requirement(r, req) \/ set_bond_open_requirement(r, req)
        \/ clear_bond_requirement(r)
        \/ \E a \in Accessors, on \in BOOLEAN : revoke_access(r, a, on)
  BY DEF Owner
<1> QED
  BY DEF create_room, set_eligible_root, set_room_policy, set_bond_requirement,
         set_bond_open_requirement, clear_bond_requirement, revoke_access,
         memberVars, GrantState

LEMMA DocOwnerQuiet == DocOwner => UNCHANGED GrantState
BY DEF DocOwner, set_doc_policy, set_doc_bond_requirement,
       clear_doc_bond_requirement, memberVars, GrantState

LEMMA AnchorQuiet == Anchor => UNCHANGED GrantState
BY DEF Anchor, put_committee_document, rotate_committee_document, memberVars,
       GrantState

LEMMA QuietStep ==
    ASSUME [Next]_vars
    PROVE  UNCHANGED GrantState \/ \E p \in MembershipProofs : request_access(p)
<1>1. CASE UNCHANGED vars
  BY <1>1 DEF vars, roomVars, memberVars, GrantState
<1>2. CASE Anyone
  BY <1>2 DEF Anyone, request_room_admission, memberVars, GrantState
<1>3. CASE \/ \E image \in Images : set_membership_image_id(image)
           \/ PromiseStep /\ UNCHANGED <<now, roomVars, passed>>
           \/ \E g \in Gates, a \in Accessors : GateAnswerChanges(g, a)
           \/ Tick /\ UNCHANGED <<roomVars, promiseVars, passed>>
  BY <1>3 DEF set_membership_image_id, GateAnswerChanges, roomVars, memberVars,
              GrantState
<1> QED
  BY <1>1, <1>2, <1>3, OwnerQuiet, DocOwnerQuiet, AnchorQuiet
     DEF Next, AccessStep

\* What the membership guest vouches for.
LEMMA MembershipProofShape ==
    ASSUME NEW p \in MembershipProofs
    PROVE  /\ p.room \in Rooms /\ p.accessor \in Accessors
           /\ p.recipient_pub \in RecipientKeys
           /\ p.eligible_root \in EligibleRoots
           /\ \E i \in Identities : /\ p.nullifier = <<i, p.room>>
                                     /\ i \in p.eligible_root
BY DEF MembershipProofs

-------------------------------------------------------------------------------
(* The invariant behind the membership properties. *)

MemberTypeOK ==
    /\ nullifiers \subseteq Identities \X Rooms
    /\ IsFiniteSet(nullifiers)
    /\ DOMAIN grants \subseteq Rooms \X Accessors
    /\ grant_log \in [Rooms -> Seq(Accessors)]

\* Every grant was proven by a leaf of the root it records and spent its
\* nullifier.
GrantProven ==
    \A k \in DOMAIN grants :
        /\ grants[k].nullifier \in nullifiers
        /\ \E i \in Identities : /\ grants[k].nullifier = <<i, k[1]>>
                                  /\ i \in grants[k].eligible_root

GrantUnique ==
    \A k, l \in DOMAIN grants :
        grants[k].nullifier = grants[l].nullifier => k = l

SpentIn(ns, r) == {n \in ns : n[2] = r}

LogCounts == \A r \in Rooms : Len(grant_log[r]) = Cardinality(SpentIn(nullifiers, r))

MemberInv == MemberTypeOK /\ GrantProven /\ GrantUnique /\ LogCounts

LEMMA MemberInit == Init => MemberInv
<1> SUFFICES ASSUME Init PROVE MemberInv
  OBVIOUS
<1>1. \A r \in Rooms : SpentIn(nullifiers, r) = {}
  BY DEF Init, SpentIn
<1>2. LogCounts
  BY <1>1, FS_EmptySet DEF Init, LogCounts
<1>3. MemberTypeOK
  BY FS_EmptySet DEF Init, Empty, MemberTypeOK
<1>4. GrantProven /\ GrantUnique
  BY DEF Init, Empty, GrantProven, GrantUnique
<1> QED
  BY <1>2, <1>3, <1>4 DEF MemberInv

\* One more spent nullifier is one more in its room and none elsewhere.
LEMMA SpentOneMore ==
    ASSUME NEW ns, IsFiniteSet(ns), NEW n, n \notin ns, NEW r
    PROVE  /\ Cardinality(SpentIn(ns, r)) \in Nat
           /\ Cardinality(SpentIn(ns \cup {n}, r)) =
                 Cardinality(SpentIn(ns, r)) + (IF n[2] = r THEN 1 ELSE 0)
<1>1. IsFiniteSet(SpentIn(ns, r))
  BY FS_Subset DEF SpentIn
<1>2. Cardinality(SpentIn(ns, r)) \in Nat
  BY <1>1, FS_CardinalityType
<1>3. CASE n[2] = r
  <2>1. SpentIn(ns \cup {n}, r) = SpentIn(ns, r) \cup {n}
    BY <1>3 DEF SpentIn
  <2>2. n \notin SpentIn(ns, r)
    BY DEF SpentIn
  <2> QED BY <1>1, <1>2, <1>3, <2>1, <2>2, FS_AddElement
<1>4. CASE n[2] # r
  <2>1. SpentIn(ns \cup {n}, r) = SpentIn(ns, r)
    BY <1>4 DEF SpentIn
  <2> QED BY <1>2, <1>4, <2>1
<1> QED BY <1>3, <1>4

LEMMA MemberStep == MemberInv /\ [Next]_vars => MemberInv'
<1> SUFFICES ASSUME MemberInv, [Next]_vars PROVE MemberInv'
  OBVIOUS
<1>1. CASE UNCHANGED GrantState
  BY <1>1 DEF GrantState, MemberInv, MemberTypeOK, GrantProven, GrantUnique,
              LogCounts
<1>2. CASE \E p \in MembershipProofs : request_access(p)
  <2> PICK p \in MembershipProofs : request_access(p)
    BY <1>2
  <2> DEFINE r == p.room
             key == <<r, p.accessor>>
             grant == [index |-> Len(grant_log[r]),
                       recipient_pub |-> p.recipient_pub,
                       eligible_root |-> p.eligible_root,
                       nullifier |-> p.nullifier]
  <2>0. /\ r \in Rooms /\ p.accessor \in Accessors
        /\ p.nullifier \notin nullifiers
        /\ nullifiers' = nullifiers \cup {p.nullifier}
        /\ grants' = Put(grants, key, grant)
        /\ grant_log' = [grant_log EXCEPT ![r] = Append(grant_log[r], p.accessor)]
    BY MembershipProofShape DEF request_access, Fresh
  <2>1. PICK i \in Identities : p.nullifier = <<i, r>> /\ i \in p.eligible_root
    BY MembershipProofShape
  <2>2. /\ DOMAIN grants' = DOMAIN grants \cup {key}
        /\ grants'[key].nullifier = p.nullifier
        /\ grants'[key].eligible_root = p.eligible_root
        /\ \A k \in DOMAIN grants : k # key => grants'[k] = grants[k]
        /\ key \in Rooms \X Accessors /\ key[1] = r
    BY <2>0 DEF Put
  <2> HIDE DEF key, grant
  <2>3. MemberTypeOK'
    <3>1. IsFiniteSet(nullifiers')
      BY <2>0, FS_AddElement DEF MemberInv, MemberTypeOK
    <3>2. nullifiers' \subseteq Identities \X Rooms
      BY <2>0, <2>1 DEF MemberInv, MemberTypeOK
    <3>3. DOMAIN grants' \subseteq Rooms \X Accessors
      BY <2>2 DEF MemberInv, MemberTypeOK
    <3>4. grant_log' \in [Rooms -> Seq(Accessors)]
      BY <2>0 DEF MemberInv, MemberTypeOK
    <3> QED BY <3>1, <3>2, <3>3, <3>4 DEF MemberTypeOK
  <2>4. GrantProven'
    BY <2>0, <2>1, <2>2 DEF MemberInv, GrantProven
  <2>5. GrantUnique'
    BY <2>0, <2>2 DEF MemberInv, GrantProven, GrantUnique
  <2>6. LogCounts'
    <3> SUFFICES ASSUME NEW s \in Rooms
                 PROVE  Len(grant_log'[s]) = Cardinality(SpentIn(nullifiers', s))
      BY DEF LogCounts
    <3>1. Len(grant_log[s]) = Cardinality(SpentIn(nullifiers, s))
      BY DEF MemberInv, LogCounts
    <3>2. Len(grant_log'[s]) = Len(grant_log[s]) + (IF s = r THEN 1 ELSE 0)
      BY <2>0 DEF MemberInv, MemberTypeOK
    <3>3. p.nullifier[2] = r
      BY <2>1
    <3>4. IsFiniteSet(nullifiers)
      BY DEF MemberInv, MemberTypeOK
    <3>5. Cardinality(SpentIn(nullifiers \cup {p.nullifier}, s)) =
             Cardinality(SpentIn(nullifiers, s)) + (IF r = s THEN 1 ELSE 0)
      BY <2>0, <3>3, <3>4, SpentOneMore
    <3> QED
      BY <2>0, <3>1, <3>2, <3>5
  <2> QED BY <2>3, <2>4, <2>5, <2>6 DEF MemberInv
<1> QED BY <1>1, <1>2, QuietStep

LEMMA MemberInvariant == Spec => []MemberInv
BY MemberInit, MemberStep, PTL DEF Spec

-------------------------------------------------------------------------------
(***************************************************************************)
(* A live grant is proven by a leaf of the root pinned now, for any rooms, *)
(* identities, holder keys, roots and policies.                            *)
(***************************************************************************)
THEOREM GrantsAreEligible == Spec => []GrantedIsEligible
<1>1. MemberInv => GrantedIsEligible
  BY DEF MemberInv, GrantProven, GrantedIsEligible, is_granted, Prover
<1> QED BY <1>1, MemberInvariant, PTL

(***************************************************************************)
(* No identity has two grants in a room, and the grant log has one entry   *)
(* for each nullifier spent there.                                         *)
(***************************************************************************)
THEOREM OneAccess == Spec => []OneAccessPerIdentity
<1>1. MemberInv => OneAccessPerIdentity
  BY DEF MemberInv, GrantUnique, LogCounts, SpentIn, OneAccessPerIdentity
<1> QED BY <1>1, MemberInvariant, PTL

\* Where membership opens a document, the admission is a live grant.
LEMMA AdmittedByMembership ==
    ASSUME NEW r, NEW d, NEW a, ByMembership(r, d), is_doc_admitted(r, d, a)
    PROVE  is_granted(r, a)
BY DEF ByMembership, is_doc_admitted, Decide

(***************************************************************************)
(* Where membership opens a document, revoking an accessor shuts out the   *)
(* identity behind its grant, whatever other holder keys it has.           *)
(***************************************************************************)
THEOREM RevokedIsOut == Spec => []RevokedStaysOut
<1>1. MemberInv => RevokedStaysOut
  <2> SUFFICES ASSUME MemberInv, NEW r \in Rooms, NEW d \in Docs,
                      NEW a \in Accessors, NEW b \in Accessors,
                      <<r, a>> \in revoked, <<r, a>> \in DOMAIN grants,
                      ByMembership(r, d), is_doc_admitted(r, d, b),
                      Prover(grants[<<r, b>>]) = Prover(grants[<<r, a>>])
               PROVE  FALSE
    BY DEF RevokedStaysOut
  <2>1. <<r, b>> \notin revoked /\ <<r, b>> \in DOMAIN grants
    BY AdmittedByMembership DEF is_granted
  <2>2. grants[<<r, a>>].nullifier = grants[<<r, b>>].nullifier
    BY <2>1 DEF MemberInv, GrantProven, Prover
  <2>3. <<r, a>> = <<r, b>>
    BY <2>1, <2>2 DEF MemberInv, GrantUnique
  <2> QED BY <2>1, <2>3
<1> QED BY <1>1, MemberInvariant, PTL

-------------------------------------------------------------------------------
(* Type correctness. *)

LEMMA TypeInit == Init => TypeOK
BY DEF Init, PromiseInit, TypeOK, PromiseTypeOK, Empty

\* Writing one record keeps a store typed.
LEMMA PutTyped ==
    ASSUME NEW Dom, NEW Val, NEW f, NEW k \in Dom, NEW v \in Val,
           DOMAIN f \subseteq Dom, \A x \in DOMAIN f : f[x] \in Val
    PROVE  /\ DOMAIN Put(f, k, v) \subseteq Dom
           /\ \A x \in DOMAIN Put(f, k, v) : Put(f, k, v)[x] \in Val
BY DEF Put

LEMMA PromiseTypeStep ==
    ASSUME PromiseTypeOK, PromiseStep
    PROVE  PromiseTypeOK'
<1>1. CASE BondsMove
  BY <1>1 DEF BondsMove, PromiseTypeOK
<1>2. ASSUME NEW i \in Identities, NEW a \in Accessors, NEW req \in Reqs,
             NEW root \in MemberRoots, GrantBond(i, a, req, root)
      PROVE  PromiseTypeOK'
  <2> DEFINE Dom == Accessors \X Reqs
             Val == [identity: Identities, member_root: MemberRoots]
             grant == [identity |-> i, member_root |-> root]
  <2>1. /\ <<a, req>> \in Dom /\ grant \in Val
        /\ DOMAIN bonds \subseteq Dom /\ \A x \in DOMAIN bonds : bonds[x] \in Val
        /\ bonds' = Put(bonds, <<a, req>>, grant)
    BY <1>2 DEF GrantBond, PromiseTypeOK
  <2>2. /\ DOMAIN bonds' \subseteq Dom
        /\ \A x \in DOMAIN bonds' : bonds'[x] \in Val
    <3> HIDE DEF Dom, Val, grant
    <3> QED BY <2>1, PutTyped
  <2>3. spent' \subseteq Pairs
    BY <1>2 DEF GrantBond, PromiseTypeOK, Pairs
  <2> QED BY <1>2, <2>2, <2>3 DEF GrantBond, PromiseTypeOK
<1>3. ASSUME NEW i \in Identities, NEW a \in Accessors, NEW req \in Reqs,
             NEW key \in RecipientKeys, GrantOpenBond(i, a, req, key)
      PROVE  PromiseTypeOK'
  <2> DEFINE Dom == Accessors \X Reqs
             Val == [identity: Identities, recipient_pub: RecipientKeys]
             grant == [identity |-> i, recipient_pub |-> key]
  <2>1. /\ <<a, req>> \in Dom /\ grant \in Val
        /\ DOMAIN open_bonds \subseteq Dom
        /\ \A x \in DOMAIN open_bonds : open_bonds[x] \in Val
        /\ open_bonds' = Put(open_bonds, <<a, req>>, grant)
    BY <1>3 DEF GrantOpenBond, PromiseTypeOK
  <2>2. /\ DOMAIN open_bonds' \subseteq Dom
        /\ \A x \in DOMAIN open_bonds' : open_bonds'[x] \in Val
    <3> HIDE DEF Dom, Val, grant
    <3> QED BY <2>1, PutTyped
  <2>3. open_spent' \subseteq Pairs
    BY <1>3 DEF GrantOpenBond, PromiseTypeOK, Pairs
  <2> QED BY <1>3, <2>2, <2>3 DEF GrantOpenBond, PromiseTypeOK
<1> QED BY <1>1, <1>2, <1>3 DEF PromiseStep

\* TypeOK by the groups of variables that change together.
AroundTypeOK ==
    /\ now \in Nat
    /\ PromiseTypeOK
    /\ passed \subseteq Gates \X Accessors

RoomTypeOK == rooms \subseteq Rooms /\ revoked \subseteq Rooms \X Accessors

AccessTypeOK ==
    /\ membership_image \in Images \cup {None}
    /\ eligible_root \in [Rooms -> EligibleRoots \cup {None}]
    /\ nullifiers \subseteq Identities \X Rooms
    /\ DOMAIN grants \subseteq Rooms \X Accessors
    /\ \A k \in DOMAIN grants : grants[k] \in Grant
    /\ grant_log \in [Rooms -> Seq(Accessors)]

DocTypeOK ==
    /\ DOMAIN committee \subseteq Rooms \X Docs
    /\ \A k \in DOMAIN committee : committee[k] \in [index: Nat, key: Keys]
    /\ committee_log \in [Rooms -> Seq(Docs)]
    /\ key_epoch \in [Rooms \X Docs -> Nat]

PolicyTypeOK ==
    /\ room_policy \in [Rooms -> LivePolicies \cup {None}]
    /\ doc_policy \in [Rooms \X Docs -> LivePolicies \cup {None}]
    /\ bond_req \in [Rooms -> Reqs \cup {None}]
    /\ bond_req_doc \in [Rooms \X Docs -> Reqs \cup {None}]
    /\ bond_open \subseteq Rooms

AdmissionTypeOK ==
    /\ DOMAIN admissions \subseteq Rooms \X Accessors
    /\ \A k \in DOMAIN admissions :
          admissions[k] \in [index: Nat, required: SUBSET Gates]
    /\ admission_log \in [Rooms -> Seq(Accessors)]

LEMMA TypeParts ==
    TypeOK <=> /\ AroundTypeOK /\ RoomTypeOK /\ AccessTypeOK
               /\ DocTypeOK /\ PolicyTypeOK /\ AdmissionTypeOK
BY DEF TypeOK, AroundTypeOK, RoomTypeOK, AccessTypeOK, DocTypeOK, PolicyTypeOK,
       AdmissionTypeOK

LEMMA TypePartsNext ==
    /\ AroundTypeOK' /\ RoomTypeOK' /\ AccessTypeOK'
    /\ DocTypeOK' /\ PolicyTypeOK' /\ AdmissionTypeOK'
    => TypeOK'
BY DEF TypeOK, AroundTypeOK, RoomTypeOK, AccessTypeOK, DocTypeOK, PolicyTypeOK,
       AdmissionTypeOK

\* A group that does not change stays typed.
LEMMA TypeStays ==
    ASSUME TypeOK
    PROVE  /\ UNCHANGED gateVars => AroundTypeOK'
           /\ UNCHANGED <<rooms, revoked>> => RoomTypeOK'
           /\ UNCHANGED memberVars => AccessTypeOK'
           /\ UNCHANGED docVars => DocTypeOK'
           /\ UNCHANGED policyVars => PolicyTypeOK'
           /\ UNCHANGED admissionVars => AdmissionTypeOK'
<1>1. UNCHANGED gateVars => AroundTypeOK'
  BY TypeParts DEF gateVars, promiseVars, AroundTypeOK, PromiseTypeOK
<1>2. UNCHANGED <<rooms, revoked>> => RoomTypeOK'
  BY TypeParts DEF RoomTypeOK
<1>3. UNCHANGED memberVars => AccessTypeOK'
  BY TypeParts DEF memberVars, AccessTypeOK
<1>4. UNCHANGED docVars => DocTypeOK'
  BY TypeParts DEF docVars, DocTypeOK
<1>5. UNCHANGED policyVars => PolicyTypeOK'
  BY TypeParts DEF policyVars, PolicyTypeOK
<1>6. UNCHANGED admissionVars => AdmissionTypeOK'
  BY TypeParts DEF admissionVars, AdmissionTypeOK
<1> QED BY <1>1, <1>2, <1>3, <1>4, <1>5, <1>6

LEMMA OwnerTypeStep ==
    ASSUME TypeOK, Owner \/ DocOwner
    PROVE  TypeOK'
<1> USE TypePartsNext, TypeParts, TypeStays
<1>1. ASSUME NEW r \in Rooms, create_room(r)
      PROVE  TypeOK'
  <2>1. RoomTypeOK'
    BY <1>1 DEF create_room, RoomTypeOK
  <2> QED BY <1>1, <2>1 DEF create_room
<1>2. ASSUME NEW r \in Rooms, NEW root \in EligibleRoots,
             set_eligible_root(r, root)
      PROVE  TypeOK'
  <2>1. AccessTypeOK'
    BY <1>2 DEF set_eligible_root, AccessTypeOK
  <2> QED BY <1>2, <2>1 DEF set_eligible_root
<1>3. ASSUME NEW r \in Rooms, NEW policy \in Policies, set_room_policy(r, policy)
      PROVE  TypeOK'
  <2>1. PolicyTypeOK'
    BY <1>3 DEF set_room_policy, NotEmptyPolicy, LivePolicies, PolicyTypeOK
  <2> QED BY <1>3, <2>1 DEF set_room_policy
<1>4. ASSUME NEW r \in Rooms, NEW req \in Reqs,
             set_bond_requirement(r, req) \/ set_bond_open_requirement(r, req)
      PROVE  TypeOK'
  <2>1. PolicyTypeOK'
    BY <1>4 DEF set_bond_requirement, set_bond_open_requirement, PolicyTypeOK
  <2> QED
    BY <1>4, <2>1 DEF set_bond_requirement, set_bond_open_requirement
<1>5. ASSUME NEW r \in Rooms, clear_bond_requirement(r)
      PROVE  TypeOK'
  <2>1. PolicyTypeOK'
    BY <1>5 DEF clear_bond_requirement, PolicyTypeOK
  <2> QED BY <1>5, <2>1 DEF clear_bond_requirement
<1>6. ASSUME NEW r \in Rooms, NEW a \in Accessors, NEW on \in BOOLEAN,
             revoke_access(r, a, on)
      PROVE  TypeOK'
  <2>1. RoomTypeOK'
    BY <1>6 DEF revoke_access, RoomTypeOK
  <2> QED BY <1>6, <2>1 DEF revoke_access
<1>7. ASSUME NEW r \in Rooms, NEW d \in Docs, NEW policy \in Policies,
             set_doc_policy(r, d, policy)
      PROVE  TypeOK'
  <2>1. PolicyTypeOK'
    BY <1>7 DEF set_doc_policy, NotEmptyPolicy, LivePolicies, PolicyTypeOK
  <2> QED BY <1>7, <2>1 DEF set_doc_policy
<1>8. ASSUME NEW r \in Rooms, NEW d \in Docs, NEW req \in Reqs,
             set_doc_bond_requirement(r, d, req)
      PROVE  TypeOK'
  <2>1. PolicyTypeOK'
    BY <1>8 DEF set_doc_bond_requirement, PolicyTypeOK
  <2> QED BY <1>8, <2>1 DEF set_doc_bond_requirement
<1>9. ASSUME NEW r \in Rooms, NEW d \in Docs, clear_doc_bond_requirement(r, d)
      PROVE  TypeOK'
  <2>1. PolicyTypeOK'
    BY <1>9 DEF clear_doc_bond_requirement, PolicyTypeOK
  <2> QED BY <1>9, <2>1 DEF clear_doc_bond_requirement
<1>10. CASE Owner
  BY <1>1, <1>2, <1>3, <1>4, <1>5, <1>6, <1>10 DEF Owner
<1>11. CASE DocOwner
  BY <1>7, <1>8, <1>9, <1>11 DEF DocOwner
<1> QED BY <1>10, <1>11

\* What anchoring a key, or rotating it, does to the documents.
LEMMA AnchorEffect ==
    ASSUME TypeOK, NEW r \in Rooms, NEW d \in Docs, NEW key \in Keys,
           \/ put_committee_document(r, d, key)
           \/ rotate_committee_document(r, d, key)
    PROVE  /\ \E index \in Nat :
                 committee' = Put(committee, <<r, d>>, [index |-> index, key |-> key])
           /\ committee_log' \in [Rooms -> Seq(Docs)]
           /\ key_epoch' \in [Rooms \X Docs -> Nat]
           /\ UNCHANGED <<rooms, memberVars, policyVars, revoked, admissionVars,
                          gateVars>>
<1> USE DEF TypeOK
<1>1. CASE put_committee_document(r, d, key)
  <2>1. Len(committee_log[r]) \in Nat
    OBVIOUS
  <2> QED BY <1>1, <2>1 DEF put_committee_document
<1>2. CASE rotate_committee_document(r, d, key)
  <2>1. committee[<<r, d>>].index \in Nat
    BY <1>2 DEF rotate_committee_document
  <2>2. key_epoch' \in [Rooms \X Docs -> Nat]
    <3>1. key_epoch[<<r, d>>] \in Nat
      OBVIOUS
    <3> QED BY <1>2, <3>1 DEF rotate_committee_document
  <2> QED BY <1>2, <2>1, <2>2 DEF rotate_committee_document
<1> QED BY <1>1, <1>2

LEMMA AnchorTypeStep ==
    ASSUME TypeOK, Anchor
    PROVE  TypeOK'
<1>0. PICK r \in Rooms, d \in Docs, key \in Keys :
        \/ put_committee_document(r, d, key)
        \/ rotate_committee_document(r, d, key)
  BY DEF Anchor
<1>1. PICK index \in Nat :
        /\ committee' = Put(committee, <<r, d>>, [index |-> index, key |-> key])
        /\ committee_log' \in [Rooms -> Seq(Docs)]
        /\ key_epoch' \in [Rooms \X Docs -> Nat]
        /\ UNCHANGED <<rooms, memberVars, policyVars, revoked, admissionVars,
                       gateVars>>
  BY <1>0, AnchorEffect
<1> DEFINE Dom == Rooms \X Docs
           Val == [index: Nat, key: Keys]
           rec == [index |-> index, key |-> key]
<1>2. /\ <<r, d>> \in Dom /\ rec \in Val /\ DOMAIN committee \subseteq Dom
      /\ \A x \in DOMAIN committee : committee[x] \in Val
      /\ committee' = Put(committee, <<r, d>>, rec)
  BY <1>1 DEF TypeOK
<1>3. /\ DOMAIN committee' \subseteq Dom
      /\ \A x \in DOMAIN committee' : committee'[x] \in Val
  <2> HIDE DEF Dom, Val, rec
  <2> QED BY <1>2, PutTyped
<1>4. DocTypeOK'
  BY <1>1, <1>3 DEF DocTypeOK
<1>5. UNCHANGED gateVars /\ UNCHANGED <<rooms, revoked>>
  BY <1>1
<1> QED BY <1>1, <1>4, <1>5, TypePartsNext, TypeStays

LEMMA AccessTypeStep ==
    ASSUME TypeOK, NEW p \in MembershipProofs, request_access(p)
    PROVE  TypeOK'
<1> DEFINE Dom == Rooms \X Accessors
           grant == [index |-> Len(grant_log[p.room]),
                     recipient_pub |-> p.recipient_pub,
                     eligible_root |-> p.eligible_root,
                     nullifier |-> p.nullifier]
<1>1. /\ p.nullifier \in Identities \X Rooms
      /\ p.eligible_root \in SUBSET Identities
      /\ Len(grant_log[p.room]) \in Nat
  <2>1. p.nullifier \in Identities \X Rooms
    <3>1. PICK i \in Identities : p.nullifier = <<i, p.room>>
      BY MembershipProofShape
    <3>2. p.room \in Rooms
      BY MembershipProofShape
    <3> QED BY <3>1, <3>2
  <2>2. p.eligible_root \in SUBSET Identities
    BY MembershipProofShape, DataRoomAssumption
  <2>3. grant_log[p.room] \in Seq(Accessors)
    BY MembershipProofShape DEF TypeOK
  <2>4. Len(grant_log[p.room]) \in Nat
    BY <2>3
  <2> QED BY <2>1, <2>2, <2>4
<1>2. /\ <<p.room, p.accessor>> \in Dom /\ grant \in Grant
      /\ DOMAIN grants \subseteq Dom
      /\ \A x \in DOMAIN grants : grants[x] \in Grant
      /\ grants' = Put(grants, <<p.room, p.accessor>>, grant)
  BY <1>1, MembershipProofShape DEF request_access, TypeOK, Grant
<1>3. /\ DOMAIN grants' \subseteq Dom
      /\ \A x \in DOMAIN grants' : grants'[x] \in Grant
  <2> HIDE DEF Dom, grant
  <2> QED BY <1>2, PutTyped
<1>4. AccessTypeOK'
  <2>1. nullifiers' \subseteq Identities \X Rooms
    BY <1>1 DEF request_access, TypeOK
  <2>2. grant_log' \in [Rooms -> Seq(Accessors)]
    BY MembershipProofShape DEF request_access, TypeOK
  <2>3. /\ membership_image' \in Images \cup {None}
        /\ eligible_root' \in [Rooms -> EligibleRoots \cup {None}]
    BY DEF request_access, TypeOK
  <2> QED BY <1>3, <2>1, <2>2, <2>3 DEF AccessTypeOK
<1> QED BY <1>4, TypePartsNext, TypeParts, TypeStays DEF request_access

LEMMA AdmissionTypeStep ==
    ASSUME TypeOK, NEW r \in Rooms, NEW a \in Accessors,
           request_room_admission(r, a)
    PROVE  TypeOK'
<1> DEFINE Dom == Rooms \X Accessors
           Val == [index: Nat, required: SUBSET Gates]
           index == AdmissionIndex(r, a)
           rec == [index |-> index, required |-> room_policy[r].gates]
<1>1. index \in Nat
  BY DEF AdmissionIndex, TypeOK
<1>2. room_policy[r].gates \in SUBSET Gates
  BY DEF request_room_admission, TypeOK, LivePolicies
<1>3. /\ <<r, a>> \in Dom /\ rec \in Val /\ DOMAIN admissions \subseteq Dom
      /\ \A x \in DOMAIN admissions : admissions[x] \in Val
      /\ admissions' = Put(admissions, <<r, a>>, rec)
  BY <1>1, <1>2 DEF request_room_admission, TypeOK
<1>4. /\ DOMAIN admissions' \subseteq Dom
      /\ \A x \in DOMAIN admissions' : admissions'[x] \in Val
  <2> HIDE DEF Dom, Val, rec
  <2> QED BY <1>3, PutTyped
<1>5. admission_log' \in [Rooms -> Seq(Accessors)]
  BY DEF request_room_admission, TypeOK
<1>6. AdmissionTypeOK'
  BY <1>4, <1>5 DEF AdmissionTypeOK
<1> QED BY <1>6, TypePartsNext, TypeParts, TypeStays DEF request_room_admission

LEMMA AroundTypeStep ==
    ASSUME TypeOK,
           \/ \E image \in Images : set_membership_image_id(image)
           \/ PromiseStep /\ UNCHANGED <<now, roomVars, passed>>
           \/ \E g \in Gates, a \in Accessors : GateAnswerChanges(g, a)
           \/ Tick /\ UNCHANGED <<roomVars, promiseVars, passed>>
    PROVE  TypeOK'
<1> USE TypePartsNext, TypeParts, TypeStays
<1>1. ASSUME NEW image \in Images, set_membership_image_id(image)
      PROVE  TypeOK'
  <2>1. AccessTypeOK'
    BY <1>1 DEF set_membership_image_id, AccessTypeOK
  <2> QED BY <1>1, <2>1 DEF set_membership_image_id
<1>2. CASE PromiseStep /\ UNCHANGED <<now, roomVars, passed>>
  <2>1. AroundTypeOK'
    BY <1>2, PromiseTypeStep DEF AroundTypeOK
  <2> QED BY <1>2, <2>1 DEF roomVars
<1>3. ASSUME NEW g \in Gates, NEW a \in Accessors, GateAnswerChanges(g, a)
      PROVE  TypeOK'
  <2>1. PromiseTypeOK'
    BY <1>3 DEF GateAnswerChanges, TypeOK, PromiseTypeOK, promiseVars
  <2>2. AroundTypeOK'
    BY <1>3, <2>1 DEF GateAnswerChanges, AroundTypeOK
  <2> QED BY <1>3, <2>2 DEF GateAnswerChanges, roomVars
<1>4. CASE Tick /\ UNCHANGED <<roomVars, promiseVars, passed>>
  <2>1. PromiseTypeOK'
    BY <1>4 DEF TypeOK, PromiseTypeOK, promiseVars
  <2>2. AroundTypeOK'
    BY <1>4, <2>1 DEF Tick, AroundTypeOK
  <2> QED BY <1>4, <2>2 DEF roomVars
<1> QED BY <1>1, <1>2, <1>3, <1>4

LEMMA TypeStep == TypeOK /\ [Next]_vars => TypeOK'
<1> SUFFICES ASSUME TypeOK, [Next]_vars PROVE TypeOK'
  OBVIOUS
<1>1. CASE UNCHANGED vars
  BY <1>1, TypePartsNext, TypeParts, TypeStays DEF vars, roomVars
<1>2. CASE Anyone
  BY <1>2, AccessTypeStep, AdmissionTypeStep DEF Anyone
<1>3. CASE Next /\ ~Anyone
  BY <1>3, OwnerTypeStep, AnchorTypeStep, AroundTypeStep DEF Next, AccessStep
<1> QED BY <1>1, <1>2, <1>3

(***************************************************************************)
(* The data room's state keeps its types under every call, and no stored   *)
(* policy is empty.                                                        *)
(***************************************************************************)
THEOREM TypeCorrect == Spec => []TypeOK
BY TypeInit, TypeStep, PTL DEF Spec

-------------------------------------------------------------------------------
(***************************************************************************)
(* The admissions: what stands behind the decision the keypers act on,     *)
(* that whoever they serve can be sealed to, and that logs and records     *)
(* agree.                                                                  *)
(*                                                                         *)
(* The argument: of the bond gate only its promise is used (BondPromise).  *)
(* A grant of the promise keeps its bond until its requirement's deadline  *)
(* and, on the membership path, names a leaf of its root (PromiseBacked);  *)
(* a room in approval-free mode has a requirement (OpenHasReq); the        *)
(* decision compares the grant with the root that is pinned now.           *)
(***************************************************************************)

-------------------------------------------------------------------------------
(* The promise's grants. *)

MemberBacked ==
    \A k \in DOMAIN bonds :
        /\ bonds[k].identity \in bonds[k].member_root
        /\ now < k[2].deadline => <<bonds[k].identity, k[2]>> \in bonded

OpenBacked ==
    \A k \in DOMAIN open_bonds :
        now < k[2].deadline => <<open_bonds[k].identity, k[2]>> \in bonded

PromiseBacked == MemberBacked /\ OpenBacked

LEMMA DeadlinesTyped ==
    ASSUME TypeOK
    PROVE  /\ now \in Nat
           /\ \A k \in DOMAIN bonds : k[2].deadline \in Nat
           /\ \A k \in DOMAIN open_bonds : k[2].deadline \in Nat
<1>1. ASSUME NEW k \in Accessors \X Reqs
      PROVE  k[2].deadline \in Nat
  <2>1. PICK a \in Accessors, req \in Reqs : k = <<a, req>>
    OBVIOUS
  <2> QED BY <2>1
<1>2. DOMAIN bonds \subseteq Accessors \X Reqs
  BY DEF TypeOK, PromiseTypeOK
<1>3. DOMAIN open_bonds \subseteq Accessors \X Reqs
  BY DEF TypeOK, PromiseTypeOK
<1>4. now \in Nat
  BY DEF TypeOK
<1> QED BY <1>1, <1>2, <1>3, <1>4

\* A bond that a live grant relies on stays when bonds move.
LEMMA BackedWhenMoved ==
    ASSUME TypeOK, PromiseBacked, BondsMove, UNCHANGED now
    PROVE  PromiseBacked'
<1>1. MemberBacked'
  BY DeadlinesTyped DEF BondsMove, PromiseBacked, MemberBacked
<1>2. OpenBacked'
  BY DeadlinesTyped DEF BondsMove, PromiseBacked, OpenBacked
<1> QED BY <1>1, <1>2 DEF PromiseBacked

LEMMA BackedWhenGranted ==
    ASSUME PromiseBacked, UNCHANGED now,
           NEW i \in Identities, NEW a \in Accessors, NEW req \in Reqs,
           NEW root \in MemberRoots, GrantBond(i, a, req, root)
    PROVE  PromiseBacked'
<1> DEFINE grant == [identity |-> i, member_root |-> root]
           key == <<a, req>>
<1>1. /\ grant.identity = i /\ grant.member_root = root /\ key[2] = req
      /\ <<i, req>> \in bonded /\ i \in root
      /\ bonds' = Put(bonds, key, grant)
      /\ UNCHANGED <<bonded, open_bonds>>
  BY DEF GrantBond
<1> HIDE DEF grant, key
<1>2. MemberBacked'
  BY <1>1 DEF Put, PromiseBacked, MemberBacked
<1> QED BY <1>1, <1>2 DEF PromiseBacked, OpenBacked

LEMMA BackedWhenOpenGranted ==
    ASSUME PromiseBacked, UNCHANGED now,
           NEW i \in Identities, NEW a \in Accessors, NEW req \in Reqs,
           NEW pub \in RecipientKeys, GrantOpenBond(i, a, req, pub)
    PROVE  PromiseBacked'
<1> DEFINE grant == [identity |-> i, recipient_pub |-> pub]
           key == <<a, req>>
<1>1. /\ grant.identity = i /\ key[2] = req
      /\ <<i, req>> \in bonded
      /\ open_bonds' = Put(open_bonds, key, grant)
      /\ UNCHANGED <<bonded, bonds>>
  BY DEF GrantOpenBond
<1> HIDE DEF grant, key
<1>2. OpenBacked'
  BY <1>1 DEF Put, PromiseBacked, OpenBacked
<1> QED BY <1>1, <1>2 DEF PromiseBacked, MemberBacked

\* Which steps reach the promise's state or the clock.
LEMMA PromiseQuiet ==
    ASSUME [Next]_vars
    PROVE  \/ UNCHANGED <<now, promiseVars>>
           \/ PromiseStep /\ UNCHANGED now
           \/ Tick /\ UNCHANGED promiseVars
<1>1. CASE Owner
  BY <1>1 DEF Owner, create_room, set_eligible_root, set_room_policy,
              set_bond_requirement, set_bond_open_requirement,
              clear_bond_requirement, revoke_access, gateVars
<1>2. CASE DocOwner
  BY <1>2 DEF DocOwner, set_doc_policy, set_doc_bond_requirement,
              clear_doc_bond_requirement, gateVars
<1>3. CASE Anchor
  BY <1>3 DEF Anchor, put_committee_document, rotate_committee_document, gateVars
<1>4. CASE Anyone
  BY <1>4 DEF Anyone, request_access, request_room_admission, gateVars
<1> QED
  BY <1>1, <1>2, <1>3, <1>4
     DEF Next, AccessStep, set_membership_image_id, GateAnswerChanges, vars, gateVars

LEMMA BackedStep ==
    ASSUME TypeOK, PromiseBacked, [Next]_vars
    PROVE  PromiseBacked'
<1>1. CASE UNCHANGED <<now, promiseVars>>
  BY <1>1 DEF promiseVars, PromiseBacked, MemberBacked, OpenBacked
<1>2. CASE PromiseStep /\ UNCHANGED now
  BY <1>2, BackedWhenMoved, BackedWhenGranted, BackedWhenOpenGranted DEF PromiseStep
<1>3. CASE Tick /\ UNCHANGED promiseVars
  <2>1. now' = now + 1
    BY <1>3 DEF Tick
  <2>2. \A k \in DOMAIN bonds : now' < k[2].deadline => now < k[2].deadline
    BY <2>1, DeadlinesTyped
  <2>3. \A k \in DOMAIN open_bonds : now' < k[2].deadline => now < k[2].deadline
    BY <2>1, DeadlinesTyped
  <2> QED
    BY <1>3, <2>2, <2>3 DEF promiseVars, PromiseBacked, MemberBacked, OpenBacked
<1> QED BY <1>1, <1>2, <1>3, PromiseQuiet

-------------------------------------------------------------------------------
(* Approval-free mode. *)

OpenHasReq == \A r \in bond_open : r \in Rooms /\ bond_req[r] # None

ModeVars == <<bond_req, bond_open>>

LEMMA ModeStep ==
    ASSUME TypeOK, OpenHasReq, [Next]_vars
    PROVE  OpenHasReq'
<1> USE DEF OpenHasReq
<1>1. CASE UNCHANGED ModeVars
  BY <1>1 DEF ModeVars
<1>2. ASSUME NEW r \in Rooms, NEW req \in Reqs,
             set_bond_requirement(r, req) \/ set_bond_open_requirement(r, req)
      PROVE  OpenHasReq'
  BY <1>2 DEF set_bond_requirement, set_bond_open_requirement, TypeOK
<1>3. ASSUME NEW r \in Rooms, clear_bond_requirement(r)
      PROVE  OpenHasReq'
  BY <1>3 DEF clear_bond_requirement, TypeOK
<1>4. CASE Owner
  <2>1. ASSUME NEW r \in Rooms,
               \/ create_room(r)
               \/ \E root \in EligibleRoots : set_eligible_root(r, root)
               \/ \E policy \in Policies : set_room_policy(r, policy)
               \/ \E a \in Accessors, on \in BOOLEAN : revoke_access(r, a, on)
        PROVE  UNCHANGED ModeVars
    BY <2>1 DEF create_room, set_eligible_root, set_room_policy, revoke_access,
                policyVars, ModeVars
  <2> QED BY <1>1, <1>2, <1>3, <1>4, <2>1 DEF Owner
<1>5. CASE DocOwner
  <2>1. UNCHANGED ModeVars
    BY <1>5 DEF DocOwner, set_doc_policy, set_doc_bond_requirement,
                clear_doc_bond_requirement, ModeVars
  <2> QED BY <1>1, <2>1
<1>6. CASE Anchor \/ Anyone
  <2>1. UNCHANGED ModeVars
    BY <1>6 DEF Anchor, put_committee_document, rotate_committee_document, Anyone,
                request_access, request_room_admission, policyVars, ModeVars
  <2> QED BY <1>1, <2>1
<1>7. CASE \/ \E image \in Images : set_membership_image_id(image)
           \/ PromiseStep /\ UNCHANGED <<now, roomVars, passed>>
           \/ \E g \in Gates, a \in Accessors : GateAnswerChanges(g, a)
           \/ Tick /\ UNCHANGED <<roomVars, promiseVars, passed>>
           \/ UNCHANGED vars
  <2>1. UNCHANGED ModeVars
    BY <1>7 DEF set_membership_image_id, GateAnswerChanges, roomVars, policyVars,
                vars, ModeVars
  <2> QED BY <1>1, <2>1
<1> QED BY <1>4, <1>5, <1>6, <1>7 DEF Next, AccessStep

-------------------------------------------------------------------------------
AdmissionInv == TypeOK /\ MemberInv /\ PromiseBacked /\ OpenHasReq

LEMMA AdmissionInvariant == Spec => []AdmissionInv
<1>1. Init => PromiseBacked /\ OpenHasReq
  BY DEF Init, PromiseInit, Empty, PromiseBacked, MemberBacked, OpenBacked, OpenHasReq
<1>2. TypeOK /\ PromiseBacked /\ OpenHasReq /\ [Next]_vars
         => PromiseBacked' /\ OpenHasReq'
  BY BackedStep, ModeStep
<1>3. AdmissionInv <=> TypeOK /\ MemberInv /\ PromiseBacked /\ OpenHasReq
  BY DEF AdmissionInv
<1> QED BY <1>1, <1>2, <1>3, TypeCorrect, MemberInvariant, PTL DEF Spec

-------------------------------------------------------------------------------
(* The decision. *)

LEMMA EffectiveTyped ==
    ASSUME TypeOK, NEW r \in Rooms, NEW d \in Docs
    PROVE  EffectiveReq(r, d) \in Reqs \cup {None}
BY DEF TypeOK, EffectiveReq

\* Where a bond opens a document, the admission is a bond leg.
LEMMA AdmittedByBond ==
    ASSUME NEW r, NEW d, NEW a, EffectiveReq(r, d) # None, is_doc_admitted(r, d, a)
    PROVE  BondLeg(r, EffectiveReq(r, d), a)
BY DEF is_doc_admitted, Decide

(***************************************************************************)
(* Whoever a document admits is backed now: by a leaf of the pinned root,  *)
(* by such a leaf's bond, or, in an approval-free room, by a bond; for any *)
(* rooms, requirements, policies, roots and holder keys.                   *)
(***************************************************************************)
THEOREM AdmissionsAreBacked == Spec => []AdmittedIsBacked
<1>1. AdmissionInv => AdmittedIsBacked
  <2> SUFFICES ASSUME AdmissionInv, NEW r \in Rooms, NEW d \in Docs,
                      NEW a \in Accessors, is_doc_admitted(r, d, a)
               PROVE  /\ ByMembership(r, d) =>
                            Prover(grants[<<r, a>>]) \in eligible_root[r]
                      /\ ByMemberBond(r, d) =>
                            \E i \in eligible_root[r] :
                               /\ bonds[<<a, EffectiveReq(r, d)>>].identity = i
                               /\ <<i, EffectiveReq(r, d)>> \in bonded
                      /\ ByOpenBond(r, d) =>
                            <<open_bonds[<<a, EffectiveReq(r, d)>>].identity,
                              EffectiveReq(r, d)>> \in bonded
    BY DEF AdmittedIsBacked
  <2> DEFINE req == EffectiveReq(r, d)
             key == <<a, req>>
  <2>1. CASE ByMembership(r, d)
    <3>1. is_granted(r, a)
      BY <2>1, AdmittedByMembership
    <3>2. /\ <<r, a>> \in DOMAIN grants
          /\ grants[<<r, a>>].eligible_root = eligible_root[r]
      BY <3>1 DEF is_granted
    <3>3. Prover(grants[<<r, a>>]) \in eligible_root[r]
      BY <3>2 DEF AdmissionInv, MemberInv, GrantProven, Prover
    <3> QED BY <2>1, <3>3 DEF ByMembership, ByMemberBond, ByOpenBond
  <2>2. CASE ByMemberBond(r, d)
    <3>1. bond_leg_ok(r, req, a)
      BY <2>2, AdmittedByBond DEF ByMemberBond, BondLeg
    <3> HIDE DEF req
    <3>2. /\ key \in DOMAIN bonds /\ now < req.deadline
          /\ bonds[key].member_root = eligible_root[r] /\ key[2] = req
      BY <3>1 DEF bond_leg_ok, GrantedFor
    <3> HIDE DEF key
    <3>3. /\ bonds[key].identity \in eligible_root[r]
          /\ <<bonds[key].identity, req>> \in bonded
      BY <3>2 DEF AdmissionInv, PromiseBacked, MemberBacked
    <3> QED BY <2>2, <3>3 DEF ByMembership, ByMemberBond, ByOpenBond, req, key
  <2>3. CASE ByOpenBond(r, d)
    <3>1. bond_open_leg_ok(req, a)
      BY <2>3, AdmittedByBond DEF ByOpenBond, BondLeg
    <3> HIDE DEF req
    <3>2. key \in DOMAIN open_bonds /\ now < req.deadline /\ key[2] = req
      BY <3>1 DEF bond_open_leg_ok, OpenGranted
    <3> HIDE DEF key
    <3>3. <<open_bonds[key].identity, req>> \in bonded
      BY <3>2 DEF AdmissionInv, PromiseBacked, OpenBacked
    <3> QED BY <2>3, <3>3 DEF ByMembership, ByMemberBond, ByOpenBond, req, key
  <2> QED BY <2>1, <2>2, <2>3
<1> QED BY <1>1, AdmissionInvariant, PTL

(***************************************************************************)
(* Whoever membership admits, and whoever the room's own approval-free     *)
(* requirement admits, has a recipient key the keypers can seal to.        *)
(***************************************************************************)
THEOREM AdmittedHaveKeys == Spec => []AdmittedCanBeSealed
<1>1. AdmissionInv => AdmittedCanBeSealed
  <2> SUFFICES ASSUME AdmissionInv, NEW r \in Rooms, NEW d \in Docs,
                      NEW a \in Accessors, is_doc_admitted(r, d, a),
                      \/ ByMembership(r, d)
                      \/ ByOpenBond(r, d) /\ bond_req_doc[<<r, d>>] = None
               PROVE  admission_recipient_pub(r, a) # None
    BY DEF AdmittedCanBeSealed
  <2>1. CASE ByMembership(r, d)
    <3>1. is_granted(r, a)
      BY <2>1, AdmittedByMembership
    <3>2. bond_req[r] = None
      BY <2>1 DEF ByMembership, EffectiveReq
    <3>3. r \notin bond_open
      BY <3>2 DEF AdmissionInv, OpenHasReq
    <3>4. <<r, a>> \in DOMAIN grants
      BY <3>1 DEF is_granted
    <3>5. grants[<<r, a>>].recipient_pub \in RecipientKeys
      BY <3>4 DEF AdmissionInv, TypeOK, Grant
    <3> QED BY <3>3, <3>4, <3>5 DEF admission_recipient_pub
  <2>2. CASE ByOpenBond(r, d) /\ bond_req_doc[<<r, d>>] = None
    <3>1. EffectiveReq(r, d) = bond_req[r] /\ bond_req[r] # None /\ r \in bond_open
      BY <2>2 DEF ByOpenBond, EffectiveReq
    <3>2. bond_open_leg_ok(bond_req[r], a)
      BY <2>2, <3>1, AdmittedByBond DEF ByOpenBond, BondLeg
    <3>3. <<a, bond_req[r]>> \in DOMAIN open_bonds
      BY <3>2 DEF bond_open_leg_ok, OpenGranted
    <3>4. open_bonds[<<a, bond_req[r]>>].recipient_pub \in RecipientKeys
      BY <3>3 DEF AdmissionInv, TypeOK, PromiseTypeOK
    <3> QED BY <3>1, <3>3, <3>4 DEF admission_recipient_pub, OpenRecipientPub
  <2> QED BY <2>1, <2>2
<1> QED BY <1>1, AdmissionInvariant, PTL

-------------------------------------------------------------------------------
(* The logs. *)

AdmissionsAgree ==
    \A r \in Rooms, a \in Accessors :
        /\ \A n \in DOMAIN admission_log[r] :
              admission_log[r][n] = a <=>
                  /\ <<r, a>> \in DOMAIN admissions
                  /\ admissions[<<r, a>>].index = n - 1
        /\ <<r, a>> \in DOMAIN admissions =>
              admissions[<<r, a>>].index \in 0..(Len(admission_log[r]) - 1)

GrantsAgree ==
    \A r \in Rooms, a \in Accessors :
        <<r, a>> \in DOMAIN grants =>
            LET n == grants[<<r, a>>].index + 1 IN
            n \in DOMAIN grant_log[r] /\ grant_log[r][n] = a

\* What appending to a log does to its entries.
LEMMA Appended ==
    ASSUME NEW S, NEW entries \in Seq(S), NEW e \in S
    PROVE  /\ Len(entries) \in Nat /\ DOMAIN entries = 1..Len(entries)
           /\ DOMAIN Append(entries, e) = 1..(Len(entries) + 1)
           /\ Len(Append(entries, e)) = Len(entries) + 1
           /\ \A n \in 1..Len(entries) : Append(entries, e)[n] = entries[n]
           /\ Append(entries, e)[Len(entries) + 1] = e
OBVIOUS

LEMMA GrantsAgreeStep ==
    ASSUME TypeOK, GrantsAgree, [Next]_vars
    PROVE  GrantsAgree'
<1>1. CASE UNCHANGED GrantState
  BY <1>1 DEF GrantState, GrantsAgree
<1>2. ASSUME NEW p \in MembershipProofs, request_access(p)
      PROVE  GrantsAgree'
  <2> DEFINE log == grant_log[p.room]
             grant == [index |-> Len(log),
                       recipient_pub |-> p.recipient_pub,
                       eligible_root |-> p.eligible_root,
                       nullifier |-> p.nullifier]
             key == <<p.room, p.accessor>>
  <2>1. /\ p.room \in Rooms /\ p.accessor \in Accessors
        /\ log \in Seq(Accessors)
    BY MembershipProofShape DEF TypeOK
  <2>2. /\ grants' = Put(grants, key, grant)
        /\ grant_log' = [grant_log EXCEPT ![p.room] = Append(log, p.accessor)]
        /\ grant.index = Len(log)
    BY <1>2 DEF request_access
  <2>3. ASSUME NEW r \in Rooms, NEW a \in Accessors, <<r, a>> \in DOMAIN grants'
        PROVE  /\ grants'[<<r, a>>].index + 1 \in DOMAIN grant_log'[r]
               /\ grant_log'[r][grants'[<<r, a>>].index + 1] = a
    <3> HIDE DEF grant
    <3>1. CASE <<r, a>> = key
      <4>1. /\ grants'[<<r, a>>].index = Len(log)
            /\ r = p.room /\ a = p.accessor
            /\ grant_log'[r] = Append(log, p.accessor)
        BY <2>1, <2>2, <3>1 DEF Put, TypeOK
      <4> HIDE DEF log
      <4> QED BY <2>1, <4>1, Appended
    <3>2. CASE <<r, a>> # key
      <4>1. /\ <<r, a>> \in DOMAIN grants
            /\ grants'[<<r, a>>] = grants[<<r, a>>]
        BY <2>2, <2>3, <3>2 DEF Put
      <4> DEFINE n == grants[<<r, a>>].index + 1
      <4>2. n \in DOMAIN grant_log[r] /\ grant_log[r][n] = a
        BY <4>1 DEF GrantsAgree
      <4> HIDE DEF n
      <4>3. n \in DOMAIN grant_log'[r] /\ grant_log'[r][n] = a
        <5>1. CASE r = p.room
          <6>1. grant_log'[r] = Append(log, p.accessor) /\ grant_log[r] = log
            BY <2>2, <5>1 DEF TypeOK
          <6> HIDE DEF log
          <6> QED BY <2>1, <4>2, <6>1, Appended
        <5>2. CASE r # p.room
          <6>1. grant_log'[r] = grant_log[r]
            BY <2>2, <5>2 DEF TypeOK
          <6> QED BY <4>2, <6>1
        <5> QED BY <5>1, <5>2
      <4> QED BY <4>1, <4>3 DEF n
    <3> QED BY <3>1, <3>2
  <2> QED BY <2>3 DEF GrantsAgree
<1> QED BY <1>1, <1>2, QuietStep

LEMMA AdmissionQuiet ==
    ASSUME [Next]_vars
    PROVE  \/ UNCHANGED admissionVars
           \/ \E r \in Rooms, a \in Accessors : request_room_admission(r, a)
<1>1. CASE Owner
  BY <1>1 DEF Owner, create_room, set_eligible_root, set_room_policy,
              set_bond_requirement, set_bond_open_requirement,
              clear_bond_requirement, revoke_access
<1>2. CASE DocOwner
  BY <1>2 DEF DocOwner, set_doc_policy, set_doc_bond_requirement,
              clear_doc_bond_requirement
<1>3. CASE Anchor
  BY <1>3 DEF Anchor, put_committee_document, rotate_committee_document
<1>4. CASE Anyone
  BY <1>4 DEF Anyone, request_access
<1> QED
  BY <1>1, <1>2, <1>3, <1>4
     DEF Next, AccessStep, set_membership_image_id, GateAnswerChanges, vars, roomVars

LEMMA AdmissionsAgreeStep ==
    ASSUME TypeOK, AdmissionsAgree, [Next]_vars
    PROVE  AdmissionsAgree'
<1>1. CASE UNCHANGED admissionVars
  BY <1>1 DEF admissionVars, AdmissionsAgree
<1>2. ASSUME NEW s \in Rooms, NEW b \in Accessors, request_room_admission(s, b)
      PROVE  AdmissionsAgree'
  <2> DEFINE log == admission_log[s]
             key == <<s, b>>
             record == [index |-> AdmissionIndex(s, b),
                        required |-> room_policy[s].gates]
  <2>1. log \in Seq(Accessors)
    BY DEF TypeOK
  <2>2. /\ admissions' = Put(admissions, key, record)
        /\ record.index = AdmissionIndex(s, b)
        /\ admission_log' =
              IF AdmissionIndex(s, b) < Len(log) THEN admission_log
              ELSE [admission_log EXCEPT ![s] = Append(log, b)]
    BY <1>2 DEF request_room_admission
  <2> HIDE DEF record
  <2>3. CASE key \in DOMAIN admissions
    <3>1. /\ AdmissionIndex(s, b) = admissions[key].index
          /\ admissions[key].index \in 0..(Len(log) - 1)
      BY <2>3 DEF AdmissionIndex, AdmissionsAgree
    <3>2. AdmissionIndex(s, b) < Len(log)
      BY <2>1, <3>1
    <3>3. UNCHANGED admission_log
      BY <2>2, <3>2
    <3>4. /\ DOMAIN admissions' = DOMAIN admissions
          /\ \A k \in DOMAIN admissions : admissions'[k].index = admissions[k].index
      BY <2>2, <2>3, <3>1 DEF Put
    <3>5. ASSUME NEW r \in Rooms, NEW a \in Accessors
          PROVE  /\ <<r, a>> \in DOMAIN admissions' <=> <<r, a>> \in DOMAIN admissions
                 /\ <<r, a>> \in DOMAIN admissions =>
                       admissions'[<<r, a>>].index = admissions[<<r, a>>].index
      BY <3>4
    <3>6. ASSUME NEW r \in Rooms, NEW a \in Accessors
          PROVE  /\ \A n \in DOMAIN admission_log'[r] :
                       admission_log'[r][n] = a <=>
                           /\ <<r, a>> \in DOMAIN admissions'
                           /\ admissions'[<<r, a>>].index = n - 1
                 /\ <<r, a>> \in DOMAIN admissions' =>
                       admissions'[<<r, a>>].index
                           \in 0..(Len(admission_log'[r]) - 1)
      BY <3>3, <3>5 DEF AdmissionsAgree
    <3> QED BY <3>6 DEF AdmissionsAgree
  <2>4. CASE key \notin DOMAIN admissions
    <3>1. AdmissionIndex(s, b) = Len(log)
      BY <2>4 DEF AdmissionIndex
    <3>2. /\ admission_log' = [admission_log EXCEPT ![s] = Append(log, b)]
          /\ Len(log) \in Nat
      BY <2>1, <2>2, <3>1
    <3>3. /\ DOMAIN admissions' = DOMAIN admissions \cup {key}
          /\ admissions'[key].index = Len(log)
          /\ \A k \in DOMAIN admissions : admissions'[k] = admissions[k]
      BY <2>2, <2>4, <3>1 DEF Put
    <3>4. ASSUME NEW r \in Rooms, NEW a \in Accessors
          PROVE  /\ \A n \in DOMAIN admission_log'[r] :
                       admission_log'[r][n] = a <=>
                           /\ <<r, a>> \in DOMAIN admissions'
                           /\ admissions'[<<r, a>>].index = n - 1
                 /\ <<r, a>> \in DOMAIN admissions' =>
                       admissions'[<<r, a>>].index
                           \in 0..(Len(admission_log'[r]) - 1)
      <4>1. /\ \A n \in DOMAIN admission_log[r] :
                  admission_log[r][n] = a <=>
                      /\ <<r, a>> \in DOMAIN admissions
                      /\ admissions[<<r, a>>].index = n - 1
            /\ <<r, a>> \in DOMAIN admissions =>
                  admissions[<<r, a>>].index \in 0..(Len(admission_log[r]) - 1)
        BY DEF AdmissionsAgree
      <4>2. CASE r # s
        <5>1. admission_log'[r] = admission_log[r] /\ <<r, a>> # key
          BY <3>2, <4>2 DEF TypeOK
        <5> QED BY <3>3, <4>1, <5>1
      <4>3. CASE r = s
        <5>1. admission_log'[r] = Append(log, b) /\ admission_log[r] = log
          BY <3>2, <4>3 DEF TypeOK
        <5>2. CASE a = b
          <6>1. <<r, a>> = key
            BY <4>3, <5>2
          <6>2. \A n \in DOMAIN log : log[n] # a
            BY <2>4, <4>1, <5>1, <6>1
          <6> HIDE DEF log, key
          <6>3. /\ <<r, a>> \in DOMAIN admissions'
                /\ admissions'[<<r, a>>].index = Len(log)
            BY <3>3, <6>1
          <6>4. \A n \in DOMAIN Append(log, b) :
                   Append(log, b)[n] = a <=> Len(log) = n - 1
            BY <2>1, <5>2, <6>2, Appended
          <6>5. Len(log) \in 0..(Len(Append(log, b)) - 1)
            BY <2>1, Appended
          <6> QED BY <5>1, <6>3, <6>4, <6>5
        <5>3. CASE a # b
          <6>1. <<r, a>> # key
            BY <4>3, <5>3
          <6>2. /\ <<r, a>> \in DOMAIN admissions' <=> <<r, a>> \in DOMAIN admissions
                /\ <<r, a>> \in DOMAIN admissions =>
                      /\ admissions'[<<r, a>>] = admissions[<<r, a>>]
                      /\ admissions[<<r, a>>].index \in 0..(Len(log) - 1)
            BY <3>3, <4>1, <5>1, <6>1
          <6>3. \A n \in DOMAIN log :
                   log[n] = a <=> /\ <<r, a>> \in DOMAIN admissions
                                  /\ admissions[<<r, a>>].index = n - 1
            BY <4>1, <5>1
          <6> HIDE DEF log, key
          <6>4. ASSUME NEW n \in DOMAIN Append(log, b)
                PROVE  Append(log, b)[n] = a <=>
                          /\ <<r, a>> \in DOMAIN admissions
                          /\ admissions[<<r, a>>].index = n - 1
            <7>1. CASE n \in DOMAIN log
              BY <2>1, <6>3, <7>1, Appended
            <7>2. CASE n = Len(log) + 1
              BY <2>1, <5>3, <6>2, <7>2, Appended
            <7> QED BY <2>1, <7>1, <7>2, Appended
          <6>5. <<r, a>> \in DOMAIN admissions =>
                   admissions[<<r, a>>].index \in 0..(Len(Append(log, b)) - 1)
            BY <2>1, <6>2, Appended
          <6> QED BY <5>1, <6>2, <6>4, <6>5
        <5> QED BY <5>2, <5>3
      <4> QED BY <4>2, <4>3
    <3> QED BY <3>4 DEF AdmissionsAgree
  <2> QED BY <2>3, <2>4
<1> QED BY <1>1, <1>2, AdmissionQuiet

(***************************************************************************)
(* Logs and records agree in every reachable state: one place per admitted *)
(* accessor, and each grant's index points at its accessor.                *)
(***************************************************************************)
THEOREM LogsAreRecords == Spec => []LogsAgree
<1>1. Init => AdmissionsAgree /\ GrantsAgree
  BY DEF Init, Empty, AdmissionsAgree, GrantsAgree
<1>2. TypeOK /\ AdmissionsAgree /\ GrantsAgree /\ [Next]_vars
         => AdmissionsAgree' /\ GrantsAgree'
  BY AdmissionsAgreeStep, GrantsAgreeStep
<1>3. AdmissionsAgree /\ GrantsAgree => LogsAgree
  BY DEF AdmissionsAgree, GrantsAgree, LogsAgree
<1> QED BY <1>1, <1>2, <1>3, TypeCorrect, PTL DEF Spec

-------------------------------------------------------------------------------
(* What the room needs of bonded access. *)

LEMMA OwnerLeavesPromise == Owner => UNCHANGED <<now, promiseVars>>
<1> SUFFICES ASSUME Owner PROVE UNCHANGED <<now, promiseVars>>
  OBVIOUS
<1> PICK r \in Rooms :
        \/ create_room(r)
        \/ \E root \in EligibleRoots : set_eligible_root(r, root)
        \/ \E policy \in Policies : set_room_policy(r, policy)
        \/ \E req \in Reqs :
              set_bond_requirement(r, req) \/ set_bond_open_requirement(r, req)
        \/ clear_bond_requirement(r)
        \/ \E a \in Accessors, on \in BOOLEAN : revoke_access(r, a, on)
  BY DEF Owner
<1> QED BY DEF create_room, set_eligible_root, set_room_policy,
         set_bond_requirement, set_bond_open_requirement,
         clear_bond_requirement, revoke_access, gateVars

(***************************************************************************)
(* The room asks of bonded access no more than BondPromise and does        *)
(* nothing to it: seen by the bond gate, a behaviour of the room is one of *)
(* the promise, which escrow, indexer and gate keep.                       *)
(***************************************************************************)
THEOREM RoomTakesPromise == Spec => PromiseSpec
<1>1. Init => now = 0 /\ PromiseInit
  BY DEF Init
<1>2. [Next]_vars => [PromiseNext]_<<now, promiseVars>>
  <2> SUFFICES ASSUME [Next]_vars PROVE [PromiseNext]_<<now, promiseVars>>
    OBVIOUS
  <2>1. CASE UNCHANGED vars
    BY <2>1 DEF vars, gateVars
  <2>2. CASE Anyone
    BY <2>2 DEF Anyone, request_access, request_room_admission, gateVars
  <2>3. CASE Owner
    BY <2>3, OwnerLeavesPromise
  <2>4. CASE DocOwner \/ Anchor
    BY <2>4 DEF DocOwner, Anchor, set_doc_policy, set_doc_bond_requirement,
         clear_doc_bond_requirement, put_committee_document,
         rotate_committee_document, gateVars
  <2>5. CASE \E image \in Images : set_membership_image_id(image)
    BY <2>5 DEF set_membership_image_id, gateVars
  <2>6. CASE PromiseStep /\ UNCHANGED <<now, roomVars, passed>>
    BY <2>6 DEF PromiseNext
  <2>7. CASE \E g \in Gates, a \in Accessors : GateAnswerChanges(g, a)
    BY <2>7 DEF GateAnswerChanges
  <2>8. CASE Tick /\ UNCHANGED <<roomVars, promiseVars, passed>>
    BY <2>8 DEF PromiseNext
  <2> QED
    BY <2>1, <2>2, <2>3, <2>4, <2>5, <2>6, <2>7, <2>8 DEF Next, AccessStep
<1> QED BY <1>1, <1>2, PTL DEF Spec, PromiseSpec

===============================================================================
