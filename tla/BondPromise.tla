------------------------------ MODULE BondPromise ------------------------------
(***************************************************************************)
(* What the data room relies on of bonded access: the abstract             *)
(* specification that BondedAccess (escrow, indexer and gate) implements.  *)
(*                                                                         *)
(* An identity with a qualifying bond is granted a requirement at most     *)
(* once on each path, and its bond stays in place until the requirement's  *)
(* deadline.  Nothing is said of locks, scans, roots of qualifying sets or *)
(* proofs: module BondRefinement maps them to this state.                  *)
(***************************************************************************)
EXTENDS Ledger

CONSTANTS
    Identities,     \* id_secrets
    Accessors,      \* ed25519 holder keys
    RecipientKeys,  \* x25519 keys
    MemberRoots,    \* roots of enrolled sets: sets of identities
    Reqs,           \* requirements: records with a deadline
    None            \* an absent value

VARIABLES
    bonded,         \* pairs (identity, requirement) backed by the escrow now
    spent,          \* pairs granted on the membership path
    open_spent,     \* pairs granted on the approval-free path
    bonds,          \* (accessor, requirement) -> membership-path grant
    open_bonds      \* (accessor, requirement) -> approval-free grant

promiseVars == <<bonded, spent, open_spent, bonds, open_bonds>>

Pairs == Identities \X Reqs

PromiseTypeOK ==
    /\ bonded \subseteq Pairs
    /\ spent \subseteq Pairs
    /\ open_spent \subseteq Pairs
    /\ DOMAIN bonds \subseteq Accessors \X Reqs
    /\ \A k \in DOMAIN bonds :
          bonds[k] \in [identity: Identities, member_root: MemberRoots]
    /\ DOMAIN open_bonds \subseteq Accessors \X Reqs
    /\ \A k \in DOMAIN open_bonds :
          open_bonds[k] \in [identity: Identities, recipient_pub: RecipientKeys]

PromiseInit ==
    /\ bonded = {}
    /\ spent = {} /\ bonds = Empty
    /\ open_spent = {} /\ open_bonds = Empty

\* Bonds are posted at any time and leave only after the deadline.
BondsMove ==
    /\ bonded' \in SUBSET Pairs
    /\ \A p \in bonded \ bonded' : now >= p[2].deadline
    /\ UNCHANGED <<spent, open_spent, bonds, open_bonds>>

\* A bonded member proves its bond under a holder key of its choice.
GrantBond(i, a, req, root) ==
    /\ <<i, req>> \in bonded \ spent
    /\ i \in root
    /\ now < req.deadline
    /\ spent' = spent \cup {<<i, req>>}
    /\ bonds' = Put(bonds, <<a, req>>, [identity |-> i, member_root |-> root])
    /\ UNCHANGED <<bonded, open_spent, open_bonds>>

\* A bonded identity, member or not, proves its bond and binds a key.
GrantOpenBond(i, a, req, key) ==
    /\ <<i, req>> \in bonded \ open_spent
    /\ now < req.deadline
    /\ open_spent' = open_spent \cup {<<i, req>>}
    /\ open_bonds' =
          Put(open_bonds, <<a, req>>, [identity |-> i, recipient_pub |-> key])
    /\ UNCHANGED <<bonded, spent, bonds>>

PromiseStep ==
    \/ BondsMove
    \/ \E i \in Identities, a \in Accessors, req \in Reqs, root \in MemberRoots :
          GrantBond(i, a, req, root)
    \/ \E i \in Identities, a \in Accessors, req \in Reqs, key \in RecipientKeys :
          GrantOpenBond(i, a, req, key)

PromiseNext ==
    \/ PromiseStep /\ UNCHANGED now
    \/ Tick /\ UNCHANGED promiseVars

PromiseSpec ==
    /\ now = 0
    /\ PromiseInit
    /\ [][PromiseNext]_<<now, promiseVars>>

-------------------------------------------------------------------------------
(* What a caller can read. *)

GrantedFor(a, req, root) ==
    /\ <<a, req>> \in DOMAIN bonds
    /\ now < req.deadline
    /\ bonds[<<a, req>>].member_root = root

OpenGranted(a, req) ==
    /\ <<a, req>> \in DOMAIN open_bonds
    /\ now < req.deadline

OpenRecipientPub(a, req) ==
    IF <<a, req>> \in DOMAIN open_bonds
    THEN open_bonds[<<a, req>>].recipient_pub
    ELSE None

===============================================================================
