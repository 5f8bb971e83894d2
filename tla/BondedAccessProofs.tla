-------------------------- MODULE BondedAccessProofs --------------------------
(***************************************************************************)
(* Proofs about the bond gate and the indexer over the escrow.             *)
(*                                                                         *)
(* The argument: whatever a lock qualified for once, it qualifies for      *)
(* ever, up to its release, because no escrow step weakens a lock.  So     *)
(* what a run of the indexer found, every root in a ring and every grant   *)
(* names identities that once locked a qualifying bond (Qualified below),  *)
(* however stale the reading.  Before the deadline such a bond is not      *)
(* released, because the escrow holds a non-revocable lock until its       *)
(* unlock time.                                                            *)
(***************************************************************************)
EXTENDS BondRefinement, EscrowProofs

USE BondedAccessAssumption, BondGateAssumption

-------------------------------------------------------------------------------
(* The escrow as seen from the composition. *)

LEMMA EscrowStep == [Next]_vars => [EscrowNext]_<<now, escrowVars>>
BY DEF Next, vars, EscrowNext, Indexer, StartScan, ReadLock, EndBatch,
       PublishRoot, AbandonScan

(***************************************************************************)
(* Gate and indexer leave the escrow to its callers: every theorem about   *)
(* the escrow alone holds of it here.                                      *)
(***************************************************************************)
THEOREM EscrowWithin == Spec => EscrowSpec
<1>1. Init => EscrowInit
  BY DEF Init
<1> QED BY <1>1, EscrowStep, PTL DEF Spec, EscrowSpec

EscrowInv == EscrowTypeOK /\ HeldUntilUnlock

LEMMA EscrowInvariant == Spec => []EscrowInv
<1>1. Init => EscrowInv
  BY TypeInit DEF Init, EscrowInv, EscrowInit, HeldUntilUnlock
<1>2. EscrowInv /\ [Next]_vars => EscrowInv'
  BY EscrowStep, TypeStep, HeldStep DEF EscrowInv
<1> QED BY <1>1, <1>2, PTL DEF Spec

\* Identity i has locked a bond that meets req, released or not.
QualifiedIn(ls, i, req) ==
    \E id \in DOMAIN ls : ls[id].commitment = i /\ Meets(ls[id], req)

Qualified(i, req) == QualifiedIn(locks, i, req)

\* Once qualified, always qualified.
LEMMA QualifiedStep ==
    ASSUME EscrowInv, [Next]_vars, NEW i, NEW req \in Reqs, Qualified(i, req)
    PROVE  QualifiedIn(locks', i, req)
<1>1. PICK id \in DOMAIN locks : locks[id].commitment = i /\ Meets(locks[id], req)
  BY DEF Qualified, QualifiedIn
<1>2. Stronger
  BY EscrowStep, StrongerStep DEF EscrowInv
<1>3. /\ id \in DOMAIN locks'
      /\ Terms(locks'[id]) = Terms(locks[id])
      /\ locks'[id].unlock_time >= locks[id].unlock_time
  BY <1>2 DEF Stronger
<1>4. EscrowTypeOK'
  BY EscrowStep, TypeStep DEF EscrowInv
<1>5. locks[id].unlock_time \in Nat /\ locks'[id].unlock_time \in Nat
  BY <1>3, <1>4 DEF EscrowInv, EscrowTypeOK, Lock
<1>6. Meets(locks'[id], req) /\ locks'[id].commitment = i
  BY <1>1, <1>3, <1>5 DEF Meets, Terms
<1> QED BY <1>3, <1>6 DEF QualifiedIn

-------------------------------------------------------------------------------
(* What a proof the gate accepts is: an identity in every set it names. *)

LEMMA BondProofShape ==
    ASSUME NEW p \in Proofs, p.claim_type = "bond"
    PROVE  /\ p.accessor \in Accessors /\ p.req \in Reqs /\ p.context \in Reqs
           /\ p.member_root \in MemberRoots /\ p.qual_root \in Roots
           /\ \E i \in Identities : /\ p.nullifier = <<i, p.context>>
                                     /\ i \in p.member_root
                                     /\ i \in p.qual_root
<1>1. p \in BondProofs
  BY DEF Proofs, BondOpenProofs
<1> QED BY <1>1 DEF BondProofs

LEMMA OpenProofShape ==
    ASSUME NEW p \in Proofs, p.claim_type = "bond-open"
    PROVE  /\ p.accessor \in Accessors /\ p.req \in Reqs /\ p.context \in Reqs
           /\ p.qual_root \in Roots /\ p.recipient_pub \in RecipientKeys
           /\ \E i \in Identities : /\ p.nullifier = <<i, p.context>>
                                     /\ i \in p.qual_root
<1>1. p \in BondOpenProofs
  BY DEF Proofs, BondProofs
<1> QED BY <1>1 DEF BondOpenProofs

-------------------------------------------------------------------------------
(* Type correctness. *)

\* A stored root is one of the ring or the one just published.
LEMMA RingStep ==
    ASSUME GateTypeOK, NEW req \in Reqs, NEW root \in Roots,
           set_qual_root(req, root)
    PROVE  /\ ring' \in [Reqs -> Seq(Roots)]
           /\ \A r \in Reqs : Len(ring'[r]) <= RingCap
           /\ \A r \in Reqs : \A k \in DOMAIN ring'[r] :
                 \/ \E j \in DOMAIN ring[r] : ring'[r][k] = ring[r][j]
                 \/ r = req /\ ring'[r][k] = root
<1> DEFINE pushed == Append(ring[req], root)
<1>1. ring[req] \in Seq(Roots) /\ Len(ring[req]) \in Nat
  BY DEF GateTypeOK
<1>2. /\ pushed \in Seq(Roots) /\ Len(pushed) = Len(ring[req]) + 1
      /\ DOMAIN pushed = 1..Len(pushed) /\ DOMAIN ring[req] = 1..Len(ring[req])
      /\ \A k \in 1..Len(ring[req]) : pushed[k] = ring[req][k]
      /\ pushed[Len(pushed)] = root
  BY <1>1
<1>3. /\ Tail(pushed) \in Seq(Roots) /\ Len(Tail(pushed)) = Len(ring[req])
      /\ DOMAIN Tail(pushed) = 1..Len(ring[req])
      /\ \A k \in 1..Len(ring[req]) : Tail(pushed)[k] = pushed[k + 1]
  BY <1>1, <1>2
<1>4. CASE ring' = ring
  BY <1>4 DEF GateTypeOK
<1>5. CASE Len(pushed) <= RingCap /\ ring' = [ring EXCEPT ![req] = pushed]
  BY <1>1, <1>2, <1>5 DEF GateTypeOK
<1>6. CASE Len(pushed) > RingCap /\ ring' = [ring EXCEPT ![req] = Tail(pushed)]
  <2>1. Len(Tail(pushed)) <= RingCap
    BY <1>3 DEF GateTypeOK
  <2>2. \A k \in DOMAIN Tail(pushed) :
          \/ \E j \in DOMAIN ring[req] : Tail(pushed)[k] = ring[req][j]
          \/ Tail(pushed)[k] = root
    BY <1>1, <1>2, <1>3
  <2> QED BY <1>3, <1>6, <2>1, <2>2 DEF GateTypeOK
<1>7. Len(pushed) <= RingCap \/ Len(pushed) > RingCap
  BY <1>2
<1> QED BY <1>4, <1>5, <1>6, <1>7 DEF set_qual_root

LEMMA GateTypeStep ==
    ASSUME GateTypeOK, GateCall
    PROVE  GateTypeOK'
<1>1. CASE Initialize
  BY <1>1 DEF Initialize, initialize, GateTypeOK, membershipVars, openVars
<1>2. CASE SubmitBondProof
  <2> PICK p \in Proofs : submit_bond_proof(p)
    BY <1>2 DEF SubmitBondProof
  <2> DEFINE grant == [accessor |-> p.accessor, req |-> p.req,
                       member_root |-> p.member_root,
                       qual_root |-> p.qual_root, nullifier |-> p.nullifier]
  <2>1. p.nullifier \in Nullifiers /\ grant \in BondGrant
    BY BondProofShape DEF submit_bond_proof, Nullifiers, BondGrant
  <2>2. /\ nullifiers' = nullifiers \cup {p.nullifier}
        /\ log' = Append(log, grant)
        /\ grants' = Put(grants, <<p.accessor, p.req>>, grant)
        /\ UNCHANGED <<config, open_image, ring, openVars>>
    BY DEF submit_bond_proof
  <2>3. /\ DOMAIN grants' = DOMAIN grants \cup {<<p.accessor, p.req>>}
        /\ \A k \in DOMAIN grants' :
              \/ grants'[k] = grant
              \/ k \in DOMAIN grants /\ grants'[k] = grants[k]
    BY <2>2 DEF Put
  <2>4. log' \in Seq(BondGrant)
    BY <2>1, <2>2 DEF GateTypeOK
  <2>5. <<p.accessor, p.req>> \in Accessors \X Reqs
    BY BondProofShape DEF submit_bond_proof
  <2> HIDE DEF grant
  <2> QED BY <2>1, <2>2, <2>3, <2>4, <2>5 DEF GateTypeOK, openVars
<1>3. CASE SubmitBondOpenProof
  <2> PICK p \in Proofs : submit_bond_open_proof(p)
    BY <1>3 DEF SubmitBondOpenProof
  <2> DEFINE grant == [accessor |-> p.accessor, req |-> p.req,
                       qual_root |-> p.qual_root,
                       recipient_pub |-> p.recipient_pub,
                       nullifier |-> p.nullifier]
  <2>1. p.nullifier \in Nullifiers /\ grant \in BondOpenGrant
    BY OpenProofShape DEF submit_bond_open_proof, Nullifiers, BondOpenGrant
  <2>2. /\ open_nullifiers' = open_nullifiers \cup {p.nullifier}
        /\ open_log' = Append(open_log, grant)
        /\ open_grants' = Put(open_grants, <<p.accessor, p.req>>, grant)
        /\ UNCHANGED <<config, open_image, ring, membershipVars>>
    BY DEF submit_bond_open_proof
  <2>3. /\ DOMAIN open_grants' = DOMAIN open_grants \cup {<<p.accessor, p.req>>}
        /\ \A k \in DOMAIN open_grants' :
              \/ open_grants'[k] = grant
              \/ k \in DOMAIN open_grants /\ open_grants'[k] = open_grants[k]
    BY <2>2 DEF Put
  <2>4. open_log' \in Seq(BondOpenGrant)
    BY <2>1, <2>2 DEF GateTypeOK
  <2>5. <<p.accessor, p.req>> \in Accessors \X Reqs
    BY OpenProofShape DEF submit_bond_open_proof
  <2> HIDE DEF grant
  <2> QED BY <2>1, <2>2, <2>3, <2>4, <2>5 DEF GateTypeOK, membershipVars
<1>4. CASE SetImageId
  BY <1>4 DEF SetImageId, set_image_id, GateTypeOK, membershipVars, openVars
<1>5. CASE SetOpenImageId
  BY <1>5 DEF SetOpenImageId, set_open_image_id, GateTypeOK, membershipVars,
              openVars
<1> QED BY <1>1, <1>2, <1>3, <1>4, <1>5 DEF GateCall

ScanTypeOK == scan \in [Scanners -> Run \cup {None}]

\* A lock that passes the filter carries an identity's commitment.
LEMMA ScanTypeStep ==
    ASSUME EscrowTypeOK, ScanTypeOK, Indexer
    PROVE  ScanTypeOK'
<1>0. PICK s \in Scanners : \/ StartScan(s) \/ ReadLock(s) \/ EndBatch(s)
                           \/ PublishRoot(s) \/ AbandonScan(s)
  BY DEF Indexer
<1>1. \A n \in Nat : Batch(n) \in SUBSET Nat
  BY DEF Batch
<1>2. CASE StartScan(s)
  <2> PICK req \in Reqs, clock \in 0..MaxTime :
        scan' = [scan EXCEPT ![s] =
          [stage |-> "reading", req |-> req, clock |-> clock, start |-> 1,
           pending |-> Batch(1), any_found |-> FALSE, found |-> {},
           due |-> {locks[id].commitment : id \in
                      {i \in DOMAIN locks : Qualifies(locks[i], req, clock)}}]]
    BY <1>2 DEF StartScan
  <2> DEFINE due == {locks[id].commitment : id \in
                      {i \in DOMAIN locks : Qualifies(locks[i], req, clock)}}
  <2>1. due \in Roots
    BY DEF Qualifies, Meets, Roots
  <2>2. clock \in Nat
    BY MaxTimeAssumption
  <2> HIDE DEF due
  <2>3. [stage |-> "reading", req |-> req, clock |-> clock, start |-> 1,
         pending |-> Batch(1), any_found |-> FALSE, found |-> {},
         due |-> due] \in Run
    BY <1>1, <2>1, <2>2 DEF Run, Roots
  <2> QED BY <2>3 DEF ScanTypeOK, due
<1>3. CASE ReadLock(s)
  <2>1. scan[s] \in Run
    BY <1>3 DEF ReadLock, ScanTypeOK
  <2>2. PICK id \in scan[s].pending :
          scan' = [scan EXCEPT
            ![s].pending = scan[s].pending \ {id},
            ![s].any_found = scan[s].any_found \/ id \in DOMAIN locks,
            ![s].found =
                IF /\ id \in DOMAIN locks
                   /\ Qualifies(locks[id], scan[s].req, scan[s].clock)
                THEN scan[s].found \cup {locks[id].commitment}
                ELSE scan[s].found]
    BY <1>3 DEF ReadLock
  <2> DEFINE found == IF /\ id \in DOMAIN locks
                         /\ Qualifies(locks[id], scan[s].req, scan[s].clock)
                      THEN scan[s].found \cup {locks[id].commitment}
                      ELSE scan[s].found
  <2>3. found \in Roots
    BY <2>1 DEF Qualifies, Meets, Roots, Run
  <2>4. (scan[s].any_found \/ id \in DOMAIN locks) \in BOOLEAN
    BY <2>1 DEF Run
  <2> HIDE DEF found
  <2>5. scan' = [scan EXCEPT ![s] = [scan[s] EXCEPT
                   !.pending = scan[s].pending \ {id},
                   !.any_found = scan[s].any_found \/ id \in DOMAIN locks,
                   !.found = found]]
    BY <2>1, <2>2 DEF found, ScanTypeOK
  <2>6. [scan[s] EXCEPT !.pending = scan[s].pending \ {id},
                        !.any_found = scan[s].any_found \/ id \in DOMAIN locks,
                        !.found = found] \in Run
    BY <2>1, <2>3, <2>4 DEF Run
  <2> QED BY <2>5, <2>6 DEF ScanTypeOK
<1>4. CASE EndBatch(s)
  <2>1. scan[s] \in Run
    BY <1>4 DEF EndBatch, ScanTypeOK
  <2>2. scan[s].start + ScanBatch \in Nat
    BY <2>1 DEF Run
  <2>3. [scan[s] EXCEPT !.stage = "done"] \in Run
    BY <2>1 DEF Run
  <2>4. \A n \in Nat : [scan[s] EXCEPT !.start = n, !.pending = Batch(n),
                                       !.any_found = FALSE] \in Run
    BY <1>1, <2>1 DEF Run
  <2> QED BY <1>4, <2>2, <2>3, <2>4 DEF EndBatch, ScanTypeOK
<1>5. CASE PublishRoot(s) \/ AbandonScan(s)
  BY <1>5 DEF PublishRoot, AbandonScan, ScanTypeOK
<1> QED BY <1>0, <1>2, <1>3, <1>4, <1>5

LEMMA TypeOKStep == TypeOK /\ [Next]_vars => TypeOK'
<1> SUFFICES ASSUME TypeOK, [Next]_vars
             PROVE  TypeOK'
  OBVIOUS
<1>1. EscrowTypeOK'
  BY EscrowStep, TypeStep DEF TypeOK
<1>2. CASE GateCall /\ UNCHANGED <<now, escrowVars, scan>>
  BY <1>1, <1>2, GateTypeStep DEF TypeOK
<1>3. CASE Indexer
  <2>1. ScanTypeOK'
    BY <1>3, ScanTypeStep DEF TypeOK, ScanTypeOK
  <2>2. CASE UNCHANGED gateVars
    BY <1>1, <2>1, <2>2 DEF TypeOK, ScanTypeOK, GateTypeOK, gateVars,
                            membershipVars, openVars
  <2>3. CASE \E s \in Scanners : PublishRoot(s)
    <3> PICK s \in Scanners : PublishRoot(s)
      BY <2>3
    <3>1. scan[s] \in Run /\ set_qual_root(scan[s].req, scan[s].found)
      BY DEF PublishRoot, TypeOK
    <3>2. scan[s].req \in Reqs /\ scan[s].found \in Roots
      BY <3>1 DEF Run
    <3>3. /\ ring' \in [Reqs -> Seq(Roots)]
          /\ \A r \in Reqs : Len(ring'[r]) <= RingCap
      BY <3>1, <3>2, RingStep DEF TypeOK
    <3> QED BY <1>1, <2>1, <3>1, <3>3
            DEF set_qual_root, TypeOK, ScanTypeOK, GateTypeOK, membershipVars,
                openVars
  <2> QED BY <1>3, <2>2, <2>3
          DEF Indexer, StartScan, ReadLock, EndBatch, AbandonScan
<1>4. CASE UNCHANGED <<gateVars, scan>>
  BY <1>1, <1>4 DEF TypeOK, GateTypeOK, gateVars, membershipVars, openVars
<1> QED BY <1>2, <1>3, <1>4 DEF Next, vars

(***************************************************************************)
(* Every value the escrow, the gate and the indexer keep stays in its      *)
(* type; in particular the ring of accepted roots never exceeds RING_CAP.  *)
(***************************************************************************)
THEOREM TypeCorrect == Spec => []TypeOK
<1>1. Init => TypeOK
  BY TypeInit DEF Init, TypeOK, GateInit, GateTypeOK, Empty
<1> QED BY <1>1, TypeOKStep, PTL DEF Spec

-------------------------------------------------------------------------------
(* The inductive invariant: stale or not, everything downstream of the     *)
(* escrow names identities that once locked a qualifying bond.             *)

ScanSound ==
    \A s \in Scanners :
        scan[s] # None => \A i \in scan[s].found : Qualified(i, scan[s].req)

RingSound ==
    \A req \in Reqs : \A k \in DOMAIN ring[req] :
        \A i \in ring[req][k] : Qualified(i, req)

GrantSound ==
    \A k \in DOMAIN grants :
        /\ k = <<grants[k].accessor, grants[k].req>>
        /\ \E i \in grants[k].member_root :
              grants[k].nullifier = <<i, grants[k].req>>
              /\ Qualified(i, grants[k].req)

OpenGrantSound ==
    \A k \in DOMAIN open_grants :
        /\ k = <<open_grants[k].accessor, open_grants[k].req>>
        /\ \E i \in Identities :
              open_grants[k].nullifier = <<i, open_grants[k].req>>
              /\ Qualified(i, open_grants[k].req)

Sound == ScanSound /\ RingSound /\ GrantSound /\ OpenGrantSound

LEMMA SoundInit == Init => Sound
BY DEF Init, GateInit, Empty, Sound, ScanSound, RingSound, GrantSound,
       OpenGrantSound

\* What held of unchanged state still holds: Qualified is stable.
LEMMA SoundStable ==
    ASSUME TypeOK, HeldUntilUnlock, Sound, [Next]_vars
    PROVE  /\ scan' = scan => ScanSound'
           /\ ring' = ring => RingSound'
           /\ grants' = grants => GrantSound'
           /\ open_grants' = open_grants => OpenGrantSound'
<1>0. EscrowInv
  BY DEF TypeOK, EscrowInv
<1>1. \A i, req : req \in Reqs /\ Qualified(i, req) => QualifiedIn(locks', i, req)
  BY <1>0, QualifiedStep
<1>2. ASSUME scan' = scan PROVE ScanSound'
  <2>1. \A s \in Scanners : scan[s] # None => scan[s].req \in Reqs
    BY DEF TypeOK, Run
  <2>2. \A s \in Scanners : scan[s] # None =>
          \A i \in scan[s].found : QualifiedIn(locks', i, scan[s].req)
    BY <1>1, <2>1 DEF Sound, ScanSound
  <2> QED BY <1>2, <2>2 DEF ScanSound, Qualified
<1>3. ASSUME ring' = ring PROVE RingSound'
  BY <1>1, <1>3 DEF Sound, RingSound, Qualified
<1>4. ASSUME grants' = grants PROVE GrantSound'
  <2>1. \A k \in DOMAIN grants : grants[k].req \in Reqs
    BY DEF TypeOK, GateTypeOK, BondGrant
  <2>2. ASSUME NEW k \in DOMAIN grants
        PROVE  /\ k = <<grants[k].accessor, grants[k].req>>
               /\ \E i \in grants[k].member_root :
                     grants[k].nullifier = <<i, grants[k].req>>
                     /\ QualifiedIn(locks', i, grants[k].req)
    BY <1>1, <2>1 DEF Sound, GrantSound
  <2> QED BY <1>4, <2>2 DEF GrantSound, Qualified
<1>5. ASSUME open_grants' = open_grants PROVE OpenGrantSound'
  <2>1. \A k \in DOMAIN open_grants : open_grants[k].req \in Reqs
    BY DEF TypeOK, GateTypeOK, BondOpenGrant
  <2>2. ASSUME NEW k \in DOMAIN open_grants
        PROVE  /\ k = <<open_grants[k].accessor, open_grants[k].req>>
               /\ \E i \in Identities :
                     open_grants[k].nullifier = <<i, open_grants[k].req>>
                     /\ QualifiedIn(locks', i, open_grants[k].req)
    BY <1>1, <2>1 DEF Sound, OpenGrantSound
  <2> QED BY <1>5, <2>2 DEF OpenGrantSound, Qualified
<1> QED BY <1>2, <1>3, <1>4, <1>5

\* A run adds only the commitment of a lock that qualifies as it is read.
LEMMA ScanSoundStep ==
    ASSUME TypeOK, Sound, NEW s \in Scanners, UNCHANGED <<now, escrowVars>>,
           \/ StartScan(s) \/ ReadLock(s) \/ EndBatch(s)
           \/ PublishRoot(s) \/ AbandonScan(s)
    PROVE  ScanSound'
<1>0. locks' = locks /\ scan \in [Scanners -> Run \cup {None}]
  BY DEF escrowVars, TypeOK
<1>1. CASE StartScan(s) \/ PublishRoot(s) \/ AbandonScan(s)
  BY <1>0, <1>1 DEF StartScan, PublishRoot, AbandonScan, Sound, ScanSound, Qualified
<1>2. CASE EndBatch(s)
  <2>1. scan[s] \in Run
    BY <1>0, <1>2 DEF EndBatch
  <2>2. /\ scan'[s].found = scan[s].found /\ scan'[s].req = scan[s].req
        /\ \A r \in Scanners : r # s => scan'[r] = scan[r]
    BY <1>0, <1>2, <2>1 DEF EndBatch, Run
  <2> QED BY <1>0, <1>2, <2>2 DEF EndBatch, Sound, ScanSound, Qualified
<1>3. CASE ReadLock(s)
  <2>1. scan[s] \in Run /\ scan[s] # None
    BY <1>0, <1>3 DEF ReadLock
  <2>2. PICK id \in scan[s].pending :
          scan' = [scan EXCEPT
            ![s].pending = scan[s].pending \ {id},
            ![s].any_found = scan[s].any_found \/ id \in DOMAIN locks,
            ![s].found =
                IF /\ id \in DOMAIN locks
                   /\ Qualifies(locks[id], scan[s].req, scan[s].clock)
                THEN scan[s].found \cup {locks[id].commitment}
                ELSE scan[s].found]
    BY <1>3 DEF ReadLock
  <2>3. /\ scan'[s].req = scan[s].req
        /\ scan'[s].found \subseteq scan[s].found \cup
              {c \in {locks[id].commitment} : id \in DOMAIN locks
                                          /\ Meets(locks[id], scan[s].req)}
        /\ \A r \in Scanners : r # s => scan'[r] = scan[r]
    BY <1>0, <2>1, <2>2 DEF Run, Qualifies
  <2>4. \A i \in scan'[s].found : QualifiedIn(locks, i, scan[s].req)
    BY <2>1, <2>3 DEF Sound, ScanSound, Qualified, QualifiedIn
  <2> QED BY <1>0, <2>3, <2>4 DEF Sound, ScanSound, Qualified
<1> QED BY <1>1, <1>2, <1>3

LEMMA SoundStep == TypeOK /\ HeldUntilUnlock /\ Sound /\ [Next]_vars => Sound'
<1> SUFFICES ASSUME TypeOK, HeldUntilUnlock, Sound, [Next]_vars
             PROVE  Sound'
  OBVIOUS
<1>1. CASE UNCHANGED <<gateVars, scan>>
  BY <1>1, SoundStable DEF Sound, gateVars, membershipVars, openVars
<1>2. CASE GateCall /\ UNCHANGED <<now, escrowVars, scan>>
  <2>0. ring' = ring /\ scan' = scan /\ locks' = locks
    BY <1>2 DEF GateCall, Initialize, initialize, SubmitBondProof,
                submit_bond_proof, SubmitBondOpenProof, submit_bond_open_proof,
                SetImageId, set_image_id, SetOpenImageId, set_open_image_id,
                escrowVars
  <2>1. CASE Initialize \/ SetImageId \/ SetOpenImageId
    BY <2>0, <2>1, SoundStable
       DEF Initialize, initialize, SetImageId, set_image_id, SetOpenImageId,
           set_open_image_id, membershipVars, openVars, Sound
  <2>2. CASE SubmitBondProof
    <3> PICK p \in Proofs : submit_bond_proof(p)
      BY <2>2 DEF SubmitBondProof
    <3> DEFINE grant == [accessor |-> p.accessor, req |-> p.req,
                         member_root |-> p.member_root,
                         qual_root |-> p.qual_root, nullifier |-> p.nullifier]
    <3>1. /\ p.req \in Reqs
          /\ \E i \in p.member_root :
                p.nullifier = <<i, p.req>> /\ i \in p.qual_root
      BY BondProofShape DEF submit_bond_proof, BoundToRequirement
    <3>2. PICK n \in DOMAIN ring[p.req] : ring[p.req][n] = p.qual_root
      BY DEF submit_bond_proof, BoundToRequirement
    <3>3. PICK i \in p.member_root :
              p.nullifier = <<i, p.req>> /\ Qualified(i, p.req)
      BY <3>1, <3>2 DEF Sound, RingSound
    <3>4. grants' = Put(grants, <<p.accessor, p.req>>, grant)
      BY DEF submit_bond_proof
    <3>5. \A k \in DOMAIN grants' :
             \/ k = <<p.accessor, p.req>> /\ grants'[k] = grant
             \/ k \in DOMAIN grants /\ grants'[k] = grants[k]
      BY <3>4 DEF Put
    <3>6. GrantSound'
      BY <2>0, <3>3, <3>5 DEF Sound, GrantSound, Qualified
    <3>7. open_grants' = open_grants
      BY DEF submit_bond_proof, openVars
    <3> QED BY <2>0, <3>6, <3>7, SoundStable DEF Sound
  <2>3. CASE SubmitBondOpenProof
    <3> PICK p \in Proofs : submit_bond_open_proof(p)
      BY <2>3 DEF SubmitBondOpenProof
    <3> DEFINE grant == [accessor |-> p.accessor, req |-> p.req,
                         qual_root |-> p.qual_root,
                         recipient_pub |-> p.recipient_pub,
                         nullifier |-> p.nullifier]
    <3>1. /\ p.req \in Reqs
          /\ \E i \in Identities :
                p.nullifier = <<i, p.req>> /\ i \in p.qual_root
      BY OpenProofShape DEF submit_bond_open_proof, BoundToRequirement
    <3>2. PICK n \in DOMAIN ring[p.req] : ring[p.req][n] = p.qual_root
      BY DEF submit_bond_open_proof, BoundToRequirement
    <3>3. PICK i \in Identities :
              p.nullifier = <<i, p.req>> /\ Qualified(i, p.req)
      BY <3>1, <3>2 DEF Sound, RingSound
    <3>4. open_grants' = Put(open_grants, <<p.accessor, p.req>>, grant)
      BY DEF submit_bond_open_proof
    <3>5. \A k \in DOMAIN open_grants' :
             \/ k = <<p.accessor, p.req>> /\ open_grants'[k] = grant
             \/ k \in DOMAIN open_grants /\ open_grants'[k] = open_grants[k]
      BY <3>4 DEF Put
    <3>6. OpenGrantSound'
      BY <2>0, <3>3, <3>5 DEF Sound, OpenGrantSound, Qualified
    <3>7. grants' = grants
      BY DEF submit_bond_open_proof, membershipVars
    <3> QED BY <2>0, <3>6, <3>7, SoundStable DEF Sound
  <2> QED BY <1>2, <2>1, <2>2, <2>3 DEF GateCall
<1>3. CASE Indexer
  <2> PICK s \in Scanners : \/ StartScan(s) \/ ReadLock(s) \/ EndBatch(s)
                           \/ PublishRoot(s) \/ AbandonScan(s)
    BY <1>3 DEF Indexer
  <2>0. /\ UNCHANGED <<now, escrowVars>>
        /\ grants' = grants /\ open_grants' = open_grants
    BY DEF StartScan, ReadLock, EndBatch, PublishRoot, AbandonScan, gateVars,
           set_qual_root, membershipVars, openVars
  <2>1. ScanSound'
    BY <2>0, ScanSoundStep
  <2>2. CASE ring' = ring
    BY <2>0, <2>1, <2>2, SoundStable DEF Sound
  <2>3. CASE PublishRoot(s)
    <3>1. scan[s] \in Run /\ scan[s] # None
          /\ set_qual_root(scan[s].req, scan[s].found)
      BY <2>3 DEF PublishRoot, TypeOK
    <3>2. scan[s].req \in Reqs /\ scan[s].found \in Roots
      BY <3>1 DEF Run
    <3>3. \A r \in Reqs : \A k \in DOMAIN ring'[r] :
             \/ \E j \in DOMAIN ring[r] : ring'[r][k] = ring[r][j]
             \/ r = scan[s].req /\ ring'[r][k] = scan[s].found
      BY <3>1, <3>2, RingStep DEF TypeOK
    <3>4. \A i \in scan[s].found : Qualified(i, scan[s].req)
      BY <3>1 DEF Sound, ScanSound
    <3>5. RingSound'
      BY <2>0, <3>3, <3>4 DEF Sound, RingSound, Qualified, escrowVars
    <3> QED BY <2>0, <2>1, <3>5, SoundStable DEF Sound
  <2> QED BY <2>2, <2>3 DEF StartScan, ReadLock, EndBatch, AbandonScan, gateVars
<1> QED BY <1>1, <1>2, <1>3 DEF Next, vars

LEMMA SoundInvariant == Spec => [](TypeOK /\ HeldUntilUnlock /\ Sound)
<1>1. EscrowInv => HeldUntilUnlock
  BY DEF EscrowInv
<1> QED BY <1>1, SoundInit, SoundStep, TypeCorrect, EscrowInvariant, PTL DEF Spec

-------------------------------------------------------------------------------
(* What the relying contracts read. *)

\* Before the deadline a bond that qualified once is still in the escrow.
LEMMA StillBonded ==
    ASSUME TypeOK, HeldUntilUnlock, NEW i, NEW req \in Reqs,
           Qualified(i, req), now < req.deadline
    PROVE  Bonded(i, req)
<1>1. PICK id \in DOMAIN locks : locks[id].commitment = i /\ Meets(locks[id], req)
  BY DEF Qualified, QualifiedIn
<1>2. now \in Nat /\ locks[id].unlock_time \in Nat /\ req.deadline \in Nat
  BY DEF TypeOK, EscrowTypeOK, Lock
<1>3. ~(now >= locks[id].unlock_time) /\ ~locks[id].revocable
  BY <1>1, <1>2 DEF Meets
<1>4. ~locks[id].released
  BY <1>3 DEF HeldUntilUnlock
<1> QED BY <1>1, <1>4 DEF Bonded

(***************************************************************************)
(* Whoever is_granted_for admits to a member set belongs to an identity of *)
(* that set whose qualifying bond is in the escrow at this very moment:    *)
(* for any number of accounts, locks, requirements, roots and concurrent   *)
(* indexer runs, whatever the clocks say.                                  *)
(***************************************************************************)
THEOREM GrantsAreBonded == Spec => []GrantImpliesBondedMember
<1>1. TypeOK /\ HeldUntilUnlock /\ Sound => GrantImpliesBondedMember
  <2> SUFFICES ASSUME TypeOK, HeldUntilUnlock, Sound,
                      NEW a \in Accessors, NEW req \in Reqs,
                      NEW root \in MemberRoots, is_granted_for(a, req, root)
               PROVE  \E i \in root : grants[<<a, req>>].nullifier = <<i, req>>
                                      /\ Bonded(i, req)
    BY DEF GrantImpliesBondedMember
  <2> DEFINE g == grants[<<a, req>>]
  <2>1. <<a, req>> \in DOMAIN grants /\ now < g.req.deadline /\ g.member_root = root
    BY DEF is_granted_for
  <2>2. g.req = req
    BY <2>1 DEF Sound, GrantSound
  <2>3. PICK i \in root : g.nullifier = <<i, req>> /\ Qualified(i, req)
    BY <2>1, <2>2 DEF Sound, GrantSound
  <2> QED BY <2>1, <2>2, <2>3, StillBonded
<1> QED BY <1>1, SoundInvariant, PTL

(***************************************************************************)
(* The same of the approval-free path: is_open_granted means a qualifying  *)
(* bond of the identity that proved it is in the escrow.                   *)
(***************************************************************************)
THEOREM OpenGrantsAreBonded == Spec => []OpenGrantImpliesBonded
<1>1. TypeOK /\ HeldUntilUnlock /\ Sound => OpenGrantImpliesBonded
  <2> SUFFICES ASSUME TypeOK, HeldUntilUnlock, Sound,
                      NEW a \in Accessors, NEW req \in Reqs,
                      is_open_granted(a, req)
               PROVE  \E i \in Identities :
                         /\ open_grants[<<a, req>>].nullifier = <<i, req>>
                         /\ Bonded(i, req)
    BY DEF OpenGrantImpliesBonded
  <2> DEFINE g == open_grants[<<a, req>>]
  <2>1. <<a, req>> \in DOMAIN open_grants /\ now < g.req.deadline
    BY DEF is_open_granted
  <2>2. g.req = req
    BY <2>1 DEF Sound, OpenGrantSound
  <2>3. PICK i \in Identities : g.nullifier = <<i, req>> /\ Qualified(i, req)
    BY <2>1, <2>2 DEF Sound, OpenGrantSound
  <2> QED BY <2>1, <2>2, <2>3, StillBonded
<1> QED BY <1>1, SoundInvariant, PTL

-------------------------------------------------------------------------------
(* One grant per identity and requirement. *)

\* Every logged grant is scoped to its requirement, its nullifier is spent,
\* and no two share one.
Spent(entries, spent) ==
    /\ \A j \in DOMAIN entries :
          /\ entries[j].nullifier \in spent
          /\ entries[j].nullifier = <<Prover(entries[j]), entries[j].req>>
    /\ \A j, k \in DOMAIN entries :
          entries[j].nullifier = entries[k].nullifier => j = k

Once == Spent(log, nullifiers) /\ Spent(open_log, open_nullifiers)

\* A grant with an unspent nullifier may be appended.
LEMMA SpentAppend ==
    ASSUME NEW S, NEW entries \in Seq(S), NEW spent, NEW e \in S,
           Spent(entries, spent), e.nullifier \notin spent,
           e.nullifier = <<Prover(e), e.req>>
    PROVE  Spent(Append(entries, e), spent \cup {e.nullifier})
<1>1. /\ DOMAIN entries = 1..Len(entries) /\ Len(entries) \in Nat
      /\ DOMAIN Append(entries, e) = 1..(Len(entries) + 1)
      /\ \A j \in 1..Len(entries) : Append(entries, e)[j] = entries[j]
      /\ Append(entries, e)[Len(entries) + 1] = e
  OBVIOUS
<1>2. \A j \in DOMAIN Append(entries, e) : j \in DOMAIN entries \/ j = Len(entries) + 1
  BY <1>1
<1> QED BY <1>1, <1>2 DEF Spent

LEMMA OnceStep == TypeOK /\ Once /\ [Next]_vars => Once'
<1> SUFFICES ASSUME TypeOK, Once, [Next]_vars
             PROVE  Once'
  OBVIOUS
<1>1. CASE UNCHANGED <<membershipVars, openVars>>
  BY <1>1 DEF membershipVars, openVars, Once
<1>2. CASE SubmitBondProof
  <2> PICK p \in Proofs : submit_bond_proof(p)
    BY <1>2 DEF SubmitBondProof
  <2> DEFINE grant == [accessor |-> p.accessor, req |-> p.req,
                       member_root |-> p.member_root,
                       qual_root |-> p.qual_root, nullifier |-> p.nullifier]
  <2>1. /\ p.nullifier \notin nullifiers
        /\ nullifiers' = nullifiers \cup {p.nullifier}
        /\ log' = Append(log, grant)
        /\ UNCHANGED openVars
    BY DEF submit_bond_proof
  <2>2. grant \in BondGrant /\ grant.nullifier = <<Prover(grant), grant.req>>
    BY BondProofShape DEF submit_bond_proof, BoundToRequirement, BondGrant,
                          Nullifiers, Prover
  <2>3. grant.nullifier = p.nullifier
    OBVIOUS
  <2> HIDE DEF grant
  <2>4. Spent(Append(log, grant), nullifiers \cup {grant.nullifier})
    BY <2>1, <2>2, <2>3, SpentAppend DEF Once, TypeOK, GateTypeOK
  <2> QED BY <2>1, <2>3, <2>4 DEF Once, openVars
<1>3. CASE SubmitBondOpenProof
  <2> PICK p \in Proofs : submit_bond_open_proof(p)
    BY <1>3 DEF SubmitBondOpenProof
  <2> DEFINE grant == [accessor |-> p.accessor, req |-> p.req,
                       qual_root |-> p.qual_root,
                       recipient_pub |-> p.recipient_pub,
                       nullifier |-> p.nullifier]
  <2>1. /\ p.nullifier \notin open_nullifiers
        /\ open_nullifiers' = open_nullifiers \cup {p.nullifier}
        /\ open_log' = Append(open_log, grant)
        /\ UNCHANGED membershipVars
    BY DEF submit_bond_open_proof
  <2>2. grant \in BondOpenGrant /\ grant.nullifier = <<Prover(grant), grant.req>>
    BY OpenProofShape DEF submit_bond_open_proof, BoundToRequirement,
                          BondOpenGrant, Nullifiers, Prover
  <2>3. grant.nullifier = p.nullifier
    OBVIOUS
  <2> HIDE DEF grant
  <2>4. Spent(Append(open_log, grant), open_nullifiers \cup {grant.nullifier})
    BY <2>1, <2>2, <2>3, SpentAppend DEF Once, TypeOK, GateTypeOK
  <2> QED BY <2>1, <2>3, <2>4 DEF Once, membershipVars
<1> QED BY <1>1, <1>2, <1>3
        DEF Next, vars, gateVars, GateCall, Indexer, Initialize, initialize,
            SetImageId, set_image_id, SetOpenImageId, set_open_image_id,
            StartScan, ReadLock, EndBatch, PublishRoot, AbandonScan,
            set_qual_root

(***************************************************************************)
(* An identity is granted a requirement at most once on each path, in the  *)
(* whole history, however many accessors, roots and proofs it uses.        *)
(***************************************************************************)
THEOREM GrantedOnce == Spec => []OneGrantPerIdentity
<1>1. Init => Once
  BY DEF Init, GateInit, Once, Spent
<1>2. Once => OneGrantPerIdentity
  BY DEF Once, Spent, OneGrantPerIdentity
<1> QED BY <1>1, <1>2, OnceStep, TypeCorrect, PTL DEF Spec

-------------------------------------------------------------------------------
(***************************************************************************)
(* Proof that the indexer's scan leaves no member out.                     *)
(*                                                                         *)
(* The argument: a commitment that qualified when a run began and is not   *)
(* in its set yet belongs to a lock whose read has not returned (Ahead):   *)
(* one of this batch, or one of a later batch.  Ids have no gaps, so if    *)
(* there is one of a later batch, the first id of this batch is a lock too *)
(* and the batch is not taken for the last; and no id exceeds ScanMax.  A  *)
(* lock that is read before the deadline still qualifies: no escrow step   *)
(* weakens it.                                                             *)
(***************************************************************************)

\* Lock id is still to be read by the run, which will get to it.
Ahead(run, id) ==
    \/ id \in run.pending
    \/ /\ id >= run.start + ScanBatch
       /\ run.start \in run.pending \/ run.any_found

ToRead(run, ls, i) ==
    \E id \in DOMAIN ls :
        /\ ls[id].commitment = i
        /\ Meets(ls[id], run.req)
        /\ run.clock < ls[id].unlock_time
        /\ Ahead(run, id)

Covered(run, ls) ==
    \A i \in run.due :
        \/ i \in run.found
        \/ run.stage = "reading" /\ ToRead(run, ls, i)

RunCovers(run, ls, t) ==
    /\ run.start >= 1
    /\ t < run.req.deadline => Covered(run, ls)

\* The state of the escrow the argument needs.
Gapless == EscrowInv /\ counter <= ScanMax

-------------------------------------------------------------------------------
(* One step of a run. *)

LEMMA CoveredAtStart ==
    ASSUME Gapless, NEW run \in Run,
           run.stage = "reading", run.start = 1, run.pending = Batch(1),
           run.due = {locks[id].commitment : id \in
                        {i \in DOMAIN locks : Qualifies(locks[i], run.req, run.clock)}}
    PROVE  Covered(run, locks)
<1> SUFFICES ASSUME NEW i \in run.due PROVE ToRead(run, locks, i)
  BY DEF Covered
<1>1. PICK id \in DOMAIN locks :
        locks[id].commitment = i /\ Qualifies(locks[id], run.req, run.clock)
  OBVIOUS
<1>2. id \in 1..counter /\ counter \in Nat /\ counter <= ScanMax
  BY DEF Gapless, EscrowInv, EscrowTypeOK
<1>3. Ahead(run, id)
  <2>1. CASE id <= ScanBatch
    <3>1. id \in Batch(1)
      BY <1>2, <2>1 DEF Batch
    <3> QED BY <3>1 DEF Ahead
  <2>2. CASE id > ScanBatch
    <3>1. 1 \in Batch(1)
      BY <1>2 DEF Batch
    <3>2. id >= 1 + ScanBatch
      BY <1>2, <2>2
    <3> QED BY <3>1, <3>2 DEF Ahead
  <2> QED BY <1>2, <2>1, <2>2
<1> QED BY <1>1, <1>3 DEF ToRead, Qualifies

LEMMA CoveredAfterRead ==
    ASSUME Gapless, NEW run \in Run, NEW next, NEW id \in run.pending,
           run.stage = "reading", run.start >= 1,
           now < run.req.deadline, Covered(run, locks),
           /\ next.stage = run.stage /\ next.req = run.req
           /\ next.clock = run.clock /\ next.due = run.due
           /\ next.start = run.start
           /\ next.pending = run.pending \ {id}
           /\ next.any_found = (run.any_found \/ id \in DOMAIN locks)
           /\ next.found = IF /\ id \in DOMAIN locks
                              /\ Qualifies(locks[id], run.req, run.clock)
                           THEN run.found \cup {locks[id].commitment}
                           ELSE run.found
    PROVE  Covered(next, locks)
<1> SUFFICES ASSUME NEW i \in run.due, i \notin next.found
             PROVE  ToRead(next, locks, i)
  BY DEF Covered
<1>1. i \notin run.found
  OBVIOUS
<1>2. PICK l \in DOMAIN locks :
        /\ locks[l].commitment = i
        /\ Meets(locks[l], run.req)
        /\ run.clock < locks[l].unlock_time
        /\ Ahead(run, l)
  BY <1>1 DEF Covered, ToRead
<1>3. /\ DOMAIN locks = 1..counter /\ counter \in Nat /\ l \in 1..counter
      /\ locks[l] \in Lock /\ now \in Nat
      /\ run.start \in Nat /\ run.req \in Reqs
  <2>1. run.start \in Nat /\ run.req \in Reqs
    BY DEF Run
  <2> QED BY <2>1 DEF Gapless, EscrowInv, EscrowTypeOK
<1>4. ~locks[l].released
  <2>1. locks[l].unlock_time \in Nat /\ run.req.deadline \in Nat
    BY <1>3 DEF Lock
  <2>2. now < locks[l].unlock_time /\ ~locks[l].revocable
    BY <1>2, <1>3, <2>1 DEF Meets
  <2> QED BY <1>3, <2>1, <2>2 DEF Gapless, EscrowInv, HeldUntilUnlock
<1>5. l # id
  BY <1>2, <1>4 DEF Qualifies
<1>6. Ahead(next, l)
  <2>1. CASE l \in run.pending
    BY <1>5, <2>1 DEF Ahead
  <2>2. CASE l \notin run.pending
    <3>1. l >= run.start + ScanBatch /\ (run.start \in run.pending \/ run.any_found)
      BY <1>2, <2>2 DEF Ahead
    <3>2. run.start \in DOMAIN locks
      BY <1>3, <3>1
    <3> QED BY <3>1, <3>2 DEF Ahead
  <2> QED BY <2>1, <2>2
<1> QED BY <1>2, <1>6 DEF ToRead

LEMMA CoveredAfterBatch ==
    ASSUME Gapless, NEW run \in Run, NEW next,
           run.stage = "reading", run.pending = {}, Covered(run, locks),
           /\ next.req = run.req /\ next.clock = run.clock
           /\ next.due = run.due /\ next.found = run.found
           /\ IF ~run.any_found \/ run.start + ScanBatch > ScanMax
              THEN next.stage = "done"
              ELSE /\ next.stage = "reading"
                   /\ next.start = run.start + ScanBatch
                   /\ next.pending = Batch(run.start + ScanBatch)
    PROVE  Covered(next, locks)
<1> SUFFICES ASSUME NEW i \in run.due, i \notin run.found
             PROVE  next.stage = "reading" /\ ToRead(next, locks, i)
  BY DEF Covered
<1>1. PICK l \in DOMAIN locks :
        /\ locks[l].commitment = i
        /\ Meets(locks[l], run.req)
        /\ run.clock < locks[l].unlock_time
        /\ Ahead(run, l)
  BY DEF Covered, ToRead
<1> DEFINE first == run.start + ScanBatch
<1>2. /\ l \in 1..counter /\ counter \in Nat /\ counter <= ScanMax
      /\ run.start \in Nat /\ first \in Nat
  <2>1. run.start \in Nat /\ first \in Nat
    BY DEF Run
  <2> QED BY <2>1 DEF Gapless, EscrowInv, EscrowTypeOK
<1>3. l >= first /\ run.any_found
  BY <1>1 DEF Ahead
<1>4. first <= ScanMax
  BY <1>2, <1>3
<1>5. /\ next.stage = "reading"
      /\ next.start = first /\ next.pending = Batch(first)
  BY <1>2, <1>3, <1>4
<1> HIDE DEF first
<1>6. Ahead(next, l)
  <2>1. CASE l < first + ScanBatch
    <3>1. l \in Batch(first)
      BY <1>2, <1>3, <2>1 DEF Batch
    <3> QED BY <1>5, <3>1 DEF Ahead
  <2>2. CASE l >= first + ScanBatch
    <3>1. first \in Batch(first)
      BY <1>2, <1>4 DEF Batch
    <3> QED BY <1>5, <2>2, <3>1 DEF Ahead
  <2> QED BY <1>2, <2>1, <2>2
<1> QED BY <1>1, <1>5, <1>6 DEF ToRead

-------------------------------------------------------------------------------
(* Steps around a run. *)

Covering ==
    \A s \in Scanners : scan[s] # None => RunCovers(scan[s], locks, now)

\* The escrow only strengthens locks, and the clock only moves on.
LEMMA CoveringStays ==
    ASSUME EscrowInv, EscrowTypeOK', Covering, [Next]_vars, UNCHANGED scan,
           scan \in [Scanners -> Run \cup {None}]
    PROVE  Covering'
<1>1. Stronger
  BY EscrowStep, StrongerStep DEF EscrowInv
<1>2. ASSUME NEW run \in Run, NEW i, ToRead(run, locks, i)
      PROVE  ToRead(run, locks', i)
  <2>1. PICK id \in DOMAIN locks :
          /\ locks[id].commitment = i
          /\ Meets(locks[id], run.req)
          /\ run.clock < locks[id].unlock_time
          /\ Ahead(run, id)
    BY <1>2 DEF ToRead
  <2>2. /\ id \in DOMAIN locks'
        /\ Terms(locks'[id]) = Terms(locks[id])
        /\ locks'[id].unlock_time >= locks[id].unlock_time
    BY <1>1 DEF Stronger
  <2>3. locks[id].unlock_time \in Nat /\ locks'[id].unlock_time \in Nat
    BY <2>2 DEF EscrowInv, EscrowTypeOK, Lock
  <2>4. run.req.deadline \in Nat /\ run.clock \in Nat
    BY DEF Run
  <2>5. /\ locks'[id].commitment = i
        /\ Meets(locks'[id], run.req)
        /\ run.clock < locks'[id].unlock_time
    BY <2>1, <2>2, <2>3, <2>4 DEF Meets, Terms
  <2> QED BY <2>1, <2>2, <2>5 DEF ToRead
<1>3. now' = now \/ now' = now + 1
  BY DEF Next, vars, Indexer, StartScan, ReadLock, EndBatch, PublishRoot,
         AbandonScan, Tick
<1>4. now \in Nat
  BY DEF EscrowInv, EscrowTypeOK
<1>5. ASSUME NEW s \in Scanners, scan[s] # None
      PROVE  RunCovers(scan[s], locks', now')
  <2>1. scan[s] \in Run
    BY <1>5
  <2>2. scan[s].req.deadline \in Nat
    BY <2>1 DEF Run
  <2>3. now' < scan[s].req.deadline => now < scan[s].req.deadline
    BY <1>3, <1>4, <2>2
  <2>4. RunCovers(scan[s], locks, now)
    BY <1>5 DEF Covering
  <2> QED BY <1>2, <2>1, <2>3, <2>4 DEF RunCovers, Covered
<1> QED BY <1>5 DEF Covering

LEMMA RunStep ==
    ASSUME Gapless, Covering, scan \in [Scanners -> Run \cup {None}],
           NEW s \in Scanners, UNCHANGED <<now, locks>>,
           \/ StartScan(s) \/ ReadLock(s) \/ EndBatch(s)
           \/ PublishRoot(s) \/ AbandonScan(s)
    PROVE  Covering'
<1>1. \A r \in Scanners : r # s => scan'[r] = scan[r]
  BY DEF StartScan, ReadLock, EndBatch, PublishRoot, AbandonScan
<1>2. SUFFICES ASSUME scan'[s] # None
               PROVE  RunCovers(scan'[s], locks, now)
  BY <1>1 DEF Covering
<1>3. CASE PublishRoot(s) \/ AbandonScan(s)
  BY <1>2, <1>3 DEF PublishRoot, AbandonScan
<1>4. CASE StartScan(s)
  <2>1. PICK req \in Reqs, clock \in 0..MaxTime :
        scan' = [scan EXCEPT ![s] =
          [stage |-> "reading", req |-> req, clock |-> clock, start |-> 1,
           pending |-> Batch(1), any_found |-> FALSE, found |-> {},
           due |-> {locks[id].commitment : id \in
                      {i \in DOMAIN locks : Qualifies(locks[i], req, clock)}}]]
    BY <1>4 DEF StartScan
  <2> DEFINE due == {locks[id].commitment : id \in
                      {i \in DOMAIN locks : Qualifies(locks[i], req, clock)}}
             run == [stage |-> "reading", req |-> req, clock |-> clock, start |-> 1,
                     pending |-> Batch(1), any_found |-> FALSE, found |-> {},
                     due |-> due]
  <2>2. run \in Run
    <3>1. due \in Roots
      BY DEF Qualifies, Meets, Roots
    <3>2. Batch(1) \in SUBSET Nat
      BY DEF Batch
    <3>3. clock \in Nat
      BY MaxTimeAssumption
    <3> HIDE DEF due
    <3> QED BY <3>1, <3>2, <3>3 DEF Run, Roots
  <2>3. scan'[s] = run
    BY <2>1
  <2>4. /\ run.stage = "reading" /\ run.start = 1 /\ run.pending = Batch(1)
        /\ run.req = req /\ run.clock = clock /\ run.due = due
    OBVIOUS
  <2> HIDE DEF run
  <2>5. Covered(run, locks)
    BY <2>2, <2>4, CoveredAtStart
  <2> QED BY <2>3, <2>4, <2>5 DEF RunCovers
<1>5. CASE ReadLock(s)
  <2>1. scan[s] \in Run /\ scan[s].stage = "reading" /\ RunCovers(scan[s], locks, now)
    BY <1>5 DEF ReadLock, Covering
  <2>2. PICK id \in scan[s].pending :
          scan' = [scan EXCEPT
            ![s].pending = scan[s].pending \ {id},
            ![s].any_found = scan[s].any_found \/ id \in DOMAIN locks,
            ![s].found =
                IF /\ id \in DOMAIN locks
                   /\ Qualifies(locks[id], scan[s].req, scan[s].clock)
                THEN scan[s].found \cup {locks[id].commitment}
                ELSE scan[s].found]
    BY <1>5 DEF ReadLock
  <2> DEFINE run == scan[s]
             next == scan'[s]
  <2>3. /\ next.stage = run.stage /\ next.req = run.req
        /\ next.clock = run.clock /\ next.due = run.due
        /\ next.start = run.start
        /\ next.pending = run.pending \ {id}
        /\ next.any_found = (run.any_found \/ id \in DOMAIN locks)
        /\ next.found = IF /\ id \in DOMAIN locks
                           /\ Qualifies(locks[id], run.req, run.clock)
                        THEN run.found \cup {locks[id].commitment}
                        ELSE run.found
    BY <2>1, <2>2 DEF Run
  <2> HIDE DEF run, next
  <2>4. run \in Run /\ run.stage = "reading" /\ RunCovers(run, locks, now)
        /\ id \in run.pending
    BY <2>1, <2>2 DEF run
  <2>5. now < run.req.deadline => Covered(next, locks)
    BY <2>3, <2>4, CoveredAfterRead DEF RunCovers
  <2> QED BY <2>3, <2>4, <2>5 DEF RunCovers, next
<1>6. CASE EndBatch(s)
  <2>1. /\ scan[s] \in Run /\ scan[s].stage = "reading" /\ scan[s].pending = {}
        /\ RunCovers(scan[s], locks, now)
    BY <1>6 DEF EndBatch, Covering
  <2> DEFINE run == scan[s]
             next == scan'[s]
  <2>2. /\ next.req = run.req /\ next.clock = run.clock
        /\ next.due = run.due /\ next.found = run.found
        /\ IF ~run.any_found \/ run.start + ScanBatch > ScanMax
           THEN next.stage = "done" /\ next.start = run.start
           ELSE /\ next.stage = "reading"
                /\ next.start = run.start + ScanBatch
                /\ next.pending = Batch(run.start + ScanBatch)
    BY <1>6, <2>1 DEF EndBatch, Run
  <2> HIDE DEF run, next
  <2>3. /\ run \in Run /\ run.stage = "reading" /\ run.pending = {}
        /\ RunCovers(run, locks, now)
    BY <2>1 DEF run
  <2>4. now < run.req.deadline => Covered(next, locks)
    BY <2>2, <2>3, CoveredAfterBatch DEF RunCovers
  <2>5. next.start >= 1
    <3>1. run.start \in Nat /\ run.start >= 1
      BY <2>3 DEF Run, RunCovers
    <3> QED BY <2>2, <3>1
  <2> QED BY <2>2, <2>4, <2>5 DEF RunCovers, next
<1> QED BY <1>3, <1>4, <1>5, <1>6

-------------------------------------------------------------------------------
(* Every reachable state. *)

\* The bound on deposits bounds the counter.
LEMMA CounterStep ==
    ASSUME EscrowInv, counter <= MaxLocks, [Next]_vars
    PROVE  counter' <= MaxLocks
<1>1. [EscrowNext]_<<now, escrowVars>>
  BY EscrowStep
<1>2. counter \in Nat /\ MaxLocks \in Nat
  BY EscrowAssumption DEF EscrowInv, EscrowTypeOK
<1>3. CASE UNCHANGED escrowVars
  BY <1>3 DEF escrowVars
<1>4. CASE Deposit
  BY <1>2, <1>4 DEF Deposit, deposit
<1>5. CASE SetTimelock \/ Withdraw \/ Claim \/ Unbond
  BY <1>5 DEF SetTimelock, set_timelock, Withdraw, withdraw, Claim, claim,
              Unbond, unbond, Release
<1> QED BY <1>1, <1>3, <1>4, <1>5 DEF EscrowNext, EscrowCall, escrowVars

ScanInv == EscrowInv /\ TypeOK /\ counter <= MaxLocks /\ Covering

LEMMA ScanInvInit == Init => ScanInv
<1> SUFFICES ASSUME Init PROVE ScanInv
  OBVIOUS
<1>1. EscrowTypeOK /\ EscrowInit
  BY TypeInit DEF Init
<1>2. EscrowInv
  BY <1>1 DEF EscrowInv, EscrowInit, HeldUntilUnlock
<1>3. counter <= MaxLocks
  BY EscrowAssumption DEF Init, EscrowInit
<1>4. TypeOK /\ Covering
  BY <1>1 DEF Init, TypeOK, GateInit, GateTypeOK, Empty, Covering
<1> QED BY <1>2, <1>3, <1>4 DEF ScanInv

LEMMA ScanInvStep ==
    ASSUME MaxLocks <= ScanMax, ScanInv, [Next]_vars
    PROVE  ScanInv'
<1>1. EscrowInv'
  BY EscrowStep, TypeStep, HeldStep DEF ScanInv, EscrowInv
<1>2. TypeOK'
  BY TypeOKStep DEF ScanInv
<1>3. counter' <= MaxLocks
  BY CounterStep DEF ScanInv
<1>4. Gapless
  <2>1. counter \in Nat /\ MaxLocks \in Nat /\ ScanMax \in Nat
    BY EscrowAssumption, BondedAccessAssumption
       DEF ScanInv, EscrowInv, EscrowTypeOK
  <2> QED BY <2>1 DEF ScanInv, Gapless
<1>5. scan \in [Scanners -> Run \cup {None}]
  BY DEF ScanInv, TypeOK
<1>6. Covering'
  <2>1. CASE UNCHANGED scan
    BY <1>1, <1>5, <2>1, CoveringStays DEF ScanInv, EscrowInv
  <2>2. CASE Indexer
    <3>1. PICK s \in Scanners :
            \/ StartScan(s) \/ ReadLock(s) \/ EndBatch(s)
            \/ PublishRoot(s) \/ AbandonScan(s)
      BY <2>2 DEF Indexer
    <3>2. UNCHANGED <<now, locks>>
      BY <3>1 DEF StartScan, ReadLock, EndBatch, PublishRoot, AbandonScan,
                  escrowVars
    <3> QED BY <1>4, <1>5, <3>1, <3>2, RunStep DEF ScanInv
  <2> QED BY <2>1, <2>2 DEF Next, vars
<1> QED BY <1>1, <1>2, <1>3, <1>6 DEF ScanInv

(***************************************************************************)
(* The indexer leaves no member out, for any number of concurrent requests *)
(* and any batch size, while the escrow has no more locks than SCAN_MAX    *)
(* ids are read: a run that ends before the deadline found every           *)
(* commitment that qualified when it began.                                *)
(***************************************************************************)
THEOREM ScanLeavesNoneOut ==
    ASSUME MaxLocks <= ScanMax
    PROVE  Spec => []ScanComplete
<1>1. Init => ScanInv
  BY ScanInvInit
<1>2. ScanInv /\ [Next]_vars => ScanInv'
  BY ScanInvStep
<1>3. ScanInv => ScanComplete
  BY DEF ScanInv, Covering, RunCovers, Covered, ScanComplete
<1> QED BY <1>1, <1>2, <1>3, PTL DEF Spec

-------------------------------------------------------------------------------
(***************************************************************************)
(* Proof that escrow, indexer and gate implement BondPromise, for every    *)
(* value of the constants: every step maps to a step of the promise or to  *)
(* a stutter.                                                              *)
(***************************************************************************)

\* What the refinement mapping needs of a state.
Mapped == TypeOK /\ HeldUntilUnlock /\ Sound

\* Putting a grant in the gate's map puts its image in the abstract one.
LEMMA MemberGrantsPut ==
    ASSUME NEW k, NEW grant, grants' = Put(grants, k, grant)
    PROVE  MemberGrants' =
             Promise!Put(MemberGrants, k,
                 [identity |-> Identity(grant.nullifier),
                  member_root |-> grant.member_root])
BY DEF MemberGrants, Put, Promise!Put, Identity

LEMMA OpenGrantsPut ==
    ASSUME NEW k, NEW grant, open_grants' = Put(open_grants, k, grant)
    PROVE  OpenGrants' =
             Promise!Put(OpenGrants, k,
                 [identity |-> Identity(grant.nullifier),
                  recipient_pub |-> grant.recipient_pub])
BY DEF OpenGrants, Put, Promise!Put, Identity

\* A bond that counts stays at least until the deadline.
LEMMA BondStays ==
    ASSUME Mapped, [Next]_vars, UNCHANGED now, TypeOK', HeldUntilUnlock',
           NEW i \in Identities, NEW req \in Reqs,
           Bonded(i, req), now < req.deadline
    PROVE  \E id \in DOMAIN locks' : /\ locks'[id].commitment = i
                                     /\ Meets(locks'[id], req)
                                     /\ ~locks'[id].released
<1>1. Qualified(i, req)
  BY DEF Bonded, Qualified, QualifiedIn
<1>2. QualifiedIn(locks', i, req)
  BY <1>1, QualifiedStep DEF Mapped, TypeOK, EscrowInv
<1>3. PICK id \in DOMAIN locks' :
          locks'[id].commitment = i /\ Meets(locks'[id], req)
  BY <1>2 DEF QualifiedIn
<1>4. now' \in Nat /\ locks'[id].unlock_time \in Nat /\ req.deadline \in Nat
  BY BondGateAssumption DEF TypeOK, EscrowTypeOK, Lock
<1>5. ~(now' >= locks'[id].unlock_time) /\ ~locks'[id].revocable
  BY <1>3, <1>4 DEF Meets
<1>6. ~locks'[id].released
  BY <1>5 DEF HeldUntilUnlock
<1> QED BY <1>3, <1>6

LEMMA BondsLeaveLate ==
    ASSUME Mapped, [Next]_vars, UNCHANGED now, TypeOK', HeldUntilUnlock'
    PROVE  /\ BondsInPlace' \in SUBSET (Identities \X Reqs)
           /\ \A p \in BondsInPlace \ BondsInPlace' : now >= p[2].deadline
<1>1. BondsInPlace' \in SUBSET (Identities \X Reqs)
  BY DEF BondsInPlace
<1>2. ASSUME NEW p \in BondsInPlace, now < p[2].deadline
      PROVE  p \in BondsInPlace'
  <2>1. PICK i \in Identities, req \in Reqs : p = <<i, req>>
    BY DEF BondsInPlace
  <2>2. Bonded(i, req) /\ now < req.deadline
    BY <1>2, <2>1 DEF BondsInPlace
  <2>3. \E id \in DOMAIN locks' : /\ locks'[id].commitment = i
                                  /\ Meets(locks'[id], req)
                                  /\ ~locks'[id].released
    BY <2>2, BondStays
  <2> QED BY <2>1, <2>3 DEF BondsInPlace, Bonded
<1>3. \A p \in BondsInPlace : now \in Nat /\ p[2].deadline \in Nat
  BY BondGateAssumption DEF BondsInPlace, Mapped, TypeOK, EscrowTypeOK
<1> QED BY <1>1, <1>2, <1>3

\* A step that leaves the gate's grants alone moves bonds at most.
LEMMA OnlyBondsMove ==
    ASSUME Mapped, [Next]_vars, UNCHANGED now, TypeOK', HeldUntilUnlock',
           UNCHANGED <<nullifiers, grants, open_nullifiers, open_grants>>
    PROVE  Promise!BondsMove
BY BondsLeaveLate DEF Promise!BondsMove, Promise!Pairs, MemberGrants, OpenGrants,
                      Identity

\* Whose set an accepted proof names has a bond in place.
LEMMA ProverBonded ==
    ASSUME Mapped, NEW i \in Identities, NEW p \in Proofs, p.req \in Reqs,
           BoundToRequirement(p), i \in p.qual_root
    PROVE  <<i, p.req>> \in BondsInPlace
<1>1. Qualified(i, p.req)
  BY DEF Mapped, Sound, RingSound, BoundToRequirement
<1>2. Bonded(i, p.req)
  BY <1>1, StillBonded DEF Mapped, BoundToRequirement
<1> QED BY <1>2 DEF BondsInPlace

\* An accepted membership-path proof is the promise's GrantBond.
LEMMA SubmitGrants ==
    ASSUME Mapped, NEW p \in Proofs, submit_bond_proof(p), UNCHANGED escrowVars
    PROVE  \E i \in Identities, a \in Accessors, req \in Reqs, root \in MemberRoots :
              Promise!GrantBond(i, a, req, root)
<1>1. /\ p.claim_type = "bond" /\ BoundToRequirement(p)
      /\ p.nullifier \notin nullifiers
      /\ nullifiers' = nullifiers \cup {p.nullifier}
      /\ UNCHANGED <<open_nullifiers, open_grants>>
  BY DEF submit_bond_proof, openVars
<1>2. /\ p.accessor \in Accessors /\ p.req \in Reqs
      /\ p.member_root \in MemberRoots
      /\ p.context = p.req
  BY <1>1, BondProofShape DEF BoundToRequirement
<1>3. PICK i \in Identities : /\ p.nullifier = <<i, p.context>>
                              /\ i \in p.member_root
                              /\ i \in p.qual_root
  BY <1>1, BondProofShape
<1>4. <<i, p.req>> \in BondsInPlace
  BY <1>1, <1>2, <1>3, ProverBonded
<1> DEFINE grant == [accessor |-> p.accessor, req |-> p.req,
                     member_root |-> p.member_root, qual_root |-> p.qual_root,
                     nullifier |-> p.nullifier]
<1>5. grants' = Put(grants, <<p.accessor, p.req>>, grant)
  BY DEF submit_bond_proof
<1>6. Identity(grant.nullifier) = i /\ grant.member_root = p.member_root
  BY <1>3 DEF Identity
<1> HIDE DEF grant
<1>7. MemberGrants' = Promise!Put(MemberGrants, <<p.accessor, p.req>>,
                         [identity |-> i, member_root |-> p.member_root])
  BY <1>5, <1>6, MemberGrantsPut
<1>8. UNCHANGED <<BondsInPlace, OpenGrants>>
  BY <1>1 DEF BondsInPlace, Bonded, OpenGrants, Identity, escrowVars
<1>9. now < p.req.deadline
  BY <1>1 DEF BoundToRequirement
<1>10. Promise!GrantBond(i, p.accessor, p.req, p.member_root)
  BY <1>1, <1>2, <1>3, <1>4, <1>7, <1>8, <1>9 DEF Promise!GrantBond
<1> QED BY <1>2, <1>10

\* An accepted approval-free proof is the promise's GrantOpenBond.
LEMMA SubmitGrantsOpen ==
    ASSUME Mapped, NEW p \in Proofs, submit_bond_open_proof(p), UNCHANGED escrowVars
    PROVE  \E i \in Identities, a \in Accessors, req \in Reqs, key \in RecipientKeys :
              Promise!GrantOpenBond(i, a, req, key)
<1>1. /\ p.claim_type = "bond-open" /\ BoundToRequirement(p)
      /\ p.nullifier \notin open_nullifiers
      /\ open_nullifiers' = open_nullifiers \cup {p.nullifier}
      /\ UNCHANGED <<nullifiers, grants>>
  BY DEF submit_bond_open_proof, membershipVars
<1>2. /\ p.accessor \in Accessors /\ p.req \in Reqs
      /\ p.recipient_pub \in RecipientKeys
      /\ p.context = p.req
  BY <1>1, OpenProofShape DEF BoundToRequirement
<1>3. PICK i \in Identities : p.nullifier = <<i, p.context>> /\ i \in p.qual_root
  BY <1>1, OpenProofShape
<1>4. <<i, p.req>> \in BondsInPlace
  BY <1>1, <1>2, <1>3, ProverBonded
<1> DEFINE grant == [accessor |-> p.accessor, req |-> p.req,
                     qual_root |-> p.qual_root, recipient_pub |-> p.recipient_pub,
                     nullifier |-> p.nullifier]
<1>5. open_grants' = Put(open_grants, <<p.accessor, p.req>>, grant)
  BY DEF submit_bond_open_proof
<1>6. Identity(grant.nullifier) = i /\ grant.recipient_pub = p.recipient_pub
  BY <1>3 DEF Identity
<1> HIDE DEF grant
<1>7. OpenGrants' = Promise!Put(OpenGrants, <<p.accessor, p.req>>,
                       [identity |-> i, recipient_pub |-> p.recipient_pub])
  BY <1>5, <1>6, OpenGrantsPut
<1>8. UNCHANGED <<BondsInPlace, MemberGrants>>
  BY <1>1 DEF BondsInPlace, Bonded, MemberGrants, Identity, escrowVars
<1>9. now < p.req.deadline
  BY <1>1 DEF BoundToRequirement
<1>10. Promise!GrantOpenBond(i, p.accessor, p.req, p.recipient_pub)
  BY <1>1, <1>2, <1>3, <1>4, <1>7, <1>8, <1>9 DEF Promise!GrantOpenBond
<1> QED BY <1>2, <1>10

-------------------------------------------------------------------------------
LEMMA StepImplements ==
    ASSUME Mapped, Mapped', [Next]_vars
    PROVE  [Promise!PromiseNext]_<<now, Promise!promiseVars>>
<1>0. TypeOK' /\ HeldUntilUnlock'
  BY DEF Mapped
<1>1. CASE UNCHANGED vars
  BY <1>1 DEF vars, escrowVars, gateVars, membershipVars, openVars,
              Promise!promiseVars, BondsInPlace, Bonded, MemberGrants, OpenGrants,
              Identity
<1>2. CASE \/ EscrowCall /\ UNCHANGED <<now, gateVars, scan>>
           \/ Indexer
  <2>1. UNCHANGED <<now, nullifiers, grants, open_nullifiers, open_grants>>
    BY <1>2 DEF gateVars, membershipVars, openVars, Indexer, StartScan, ReadLock,
                EndBatch, PublishRoot, AbandonScan, set_qual_root
  <2>2. Promise!BondsMove
    BY <1>0, <2>1, OnlyBondsMove
  <2> QED BY <2>1, <2>2 DEF Promise!PromiseNext, Promise!PromiseStep
<1>3. CASE GateCall /\ UNCHANGED <<now, escrowVars, scan>>
  <2>1. CASE Initialize \/ SetImageId \/ SetOpenImageId
    <3>1. UNCHANGED <<now, nullifiers, grants, open_nullifiers, open_grants>>
      BY <1>3, <2>1 DEF Initialize, initialize, SetImageId, set_image_id,
                        SetOpenImageId, set_open_image_id, membershipVars, openVars
    <3>2. Promise!BondsMove
      BY <1>0, <3>1, OnlyBondsMove
    <3> QED BY <3>1, <3>2 DEF Promise!PromiseNext, Promise!PromiseStep
  <2>2. CASE SubmitBondProof
    <3>1. PICK p \in Proofs : submit_bond_proof(p)
      BY <2>2 DEF SubmitBondProof
    <3> QED
      BY <1>3, <3>1, SubmitGrants DEF Promise!PromiseNext, Promise!PromiseStep
  <2>3. CASE SubmitBondOpenProof
    <3>1. PICK p \in Proofs : submit_bond_open_proof(p)
      BY <2>3 DEF SubmitBondOpenProof
    <3> QED
      BY <1>3, <3>1, SubmitGrantsOpen DEF Promise!PromiseNext, Promise!PromiseStep
  <2> QED BY <1>3, <2>1, <2>2, <2>3 DEF GateCall
<1>4. CASE Tick /\ UNCHANGED <<escrowVars, gateVars, scan>>
  <2>1. Promise!Tick
    BY <1>4 DEF Tick, Promise!Tick
  <2>2. UNCHANGED Promise!promiseVars
    BY <1>4 DEF escrowVars, gateVars, membershipVars, openVars, BondsInPlace, Bonded,
                MemberGrants, OpenGrants, Identity, Promise!promiseVars
  <2> QED BY <2>1, <2>2 DEF Promise!PromiseNext
<1> QED BY <1>1, <1>2, <1>3, <1>4 DEF Next

LEMMA InitImplements == Init => now = 0 /\ Promise!PromiseInit
BY DEF Init, EscrowInit, GateInit, Promise!PromiseInit, Empty, Promise!Empty,
       BondsInPlace, Bonded, MemberGrants, OpenGrants

(***************************************************************************)
(* Escrow, indexer and gate implement the promise the data room relies on: *)
(* each grant goes, once, to an identity whose bond is in place, and no    *)
(* bond that counts leaves before the deadline.                            *)
(***************************************************************************)
THEOREM PromiseKept == Spec => KeepsPromise
<1>1. Mapped /\ Mapped' /\ [Next]_vars => [Promise!PromiseNext]_<<now, Promise!promiseVars>>
  BY StepImplements
<1>2. Spec => []Mapped
  BY SoundInvariant DEF Mapped
<1> QED
  BY <1>1, <1>2, InitImplements, PTL DEF Spec, KeepsPromise, Promise!PromiseSpec

===============================================================================
