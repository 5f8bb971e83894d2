---------------------------- MODULE BondRefinement ----------------------------
(***************************************************************************)
(* BondedAccess implements BondPromise: bonded is read off the escrow's    *)
(* locks, the granted pairs off the spent nullifiers and the grants off    *)
(* the gate's storage.                                                     *)
(***************************************************************************)
EXTENDS BondedAccess

Identity(nullifier) == nullifier[1]

BondsInPlace == {p \in Identities \X Reqs : Bonded(p[1], p[2])}

MemberGrants == [k \in DOMAIN grants |->
    [identity |-> Identity(grants[k].nullifier),
     member_root |-> grants[k].member_root]]

OpenGrants == [k \in DOMAIN open_grants |->
    [identity |-> Identity(open_grants[k].nullifier),
     recipient_pub |-> open_grants[k].recipient_pub]]

Promise == INSTANCE BondPromise WITH
    bonded <- BondsInPlace,
    spent <- nullifiers,
    open_spent <- open_nullifiers,
    bonds <- MemberGrants,
    open_bonds <- OpenGrants

(***************************************************************************)
(* Every behaviour of escrow, indexer and gate is one the data room's view *)
(* allows: a grant goes, once, to an identity whose bond is in place, and  *)
(* no bond that counts leaves before the deadline.                         *)
(***************************************************************************)
KeepsPromise == Promise!PromiseSpec

===============================================================================
