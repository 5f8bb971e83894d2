------------------------------- MODULE TierGate -------------------------------
(***************************************************************************)
(* The anonymous bonded tier: contracts/tier-gate, the routes under        *)
(* /bonded/tier of backend/src/server.ts and the indexer of                *)
(* backend/src/tier.ts.                                                    *)
(*                                                                         *)
(* A tier is a floor and a deadline X.  The gate accepts a proof against   *)
(* the member root pinned now and any of the last few roots of locks that  *)
(* qualified; it reads no lock and does not know how large a set is.  Both *)
(* are up to the backend, which writes the two roots one after the other   *)
(* from what it read earlier.                                              *)
(***************************************************************************)
EXTENDS Escrow, Attestation

CONSTANTS
    Identities,     \* identities; one names its member and lock commitments
    TierAccessors,  \* raw keys that grants are made to
    Tiers,          \* [threshold, unlock_after]
    Contexts,       \* nullifier contexts
    TierToken,      \* BOND_TOKEN_ID
    TierMinAnon,    \* TIER_MIN_ANON_SET
    RingCap,        \* RING_CAP
    Requests,       \* bound: admin and prove requests served at once
    Nobody          \* no request, no root

ASSUME TierAssumption ==
    /\ TierToken \in Tokens
    /\ TierMinAnon \in Nat /\ RingCap \in Nat \ {0}
    /\ Tiers \subseteq [threshold: Nat \ {0}, unlock_after: Nat \ {0}]

VARIABLES
    enrolled,       \* the eligible store's list of the tier member set
    member_root,    \* DataKey::MemberRoot; a root names its set
    qual_ring,      \* DataKey::QualRing
    nullifiers,     \* DataKey::Nullifier
    tier_grants,    \* DataKey::Grant(accessor)
    request         \* request[q]: a pin, publish or prove request, or Nobody

tierGateVars == <<member_root, qual_ring, nullifiers, tier_grants>>
tierVars == <<enrolled, tierGateVars, request>>

TierInit ==
    /\ enrolled = {}
    /\ member_root = Nobody
    /\ qual_ring = [tier \in Tiers |-> << >>]
    /\ nullifiers = {}
    /\ tier_grants = Empty
    /\ request = [q \in Requests |-> Nobody]

-------------------------------------------------------------------------------
(* The contract. *)

set_member_root(root) ==
    /\ member_root' = root
    /\ UNCHANGED <<qual_ring, nullifiers, tier_grants>>

\* The last RingCap roots.
Trim(ring) ==
    IF Len(ring) > RingCap THEN SubSeq(ring, 2, Len(ring)) ELSE ring

\* set_qual_root: nothing changes when the root is already the newest.
set_qual_root(tier, root) ==
    LET ring == qual_ring[tier] IN
    /\ qual_ring' = IF ring # << >> /\ ring[Len(ring)] = root THEN qual_ring
                    ELSE [qual_ring EXCEPT ![tier] = Trim(Append(ring, root))]
    /\ UNCHANGED <<member_root, nullifiers, tier_grants>>

\* guest-tier: an identity in both trees, whichever trees and tier those are.
TierJournals ==
    UNION {{[member_root |-> members, qual_root |-> locked, tier |-> t,
             nullifier |-> <<i, c>>, accessor |-> a] :
               i \in members \cap locked, t \in Tiers, c \in Contexts,
               a \in TierAccessors} :
           members \in SUBSET Identities, locked \in SUBSET Identities}

submit_tier_proof(p) ==
    /\ "tier-gate" \in deployed
    /\ p.member_root = member_root
    /\ \E j \in DOMAIN qual_ring[p.tier] : qual_ring[p.tier][j] = p.qual_root
    /\ now < p.tier.unlock_after
    /\ p.nullifier \notin nullifiers
    /\ nullifiers' = nullifiers \cup {p.nullifier}
    /\ tier_grants' = Put(tier_grants, p.accessor, p)
    /\ UNCHANGED <<attestationVars, escrowVars, member_root, qual_ring,
                   enrolled, request>>

\* is_granted
tier_is_granted(a) ==
    /\ a \in DOMAIN tier_grants
    /\ now < tier_grants[a].tier.unlock_after

-------------------------------------------------------------------------------
(* The backend.  A request ends early when a read or a write fails; all run  *)
(* side by side, and withTierAdminLock only keeps single writes apart.      *)

At(q, stage) == request[q] # Nobody /\ request[q].stage = stage

Sets(q, value) == request' = [request EXCEPT ![q] = value]

\* POST /bonded/tier/enroll
EnrollTier(i) ==
    /\ "tier-gate" \in deployed
    /\ enrolled' = enrolled \cup {i}
    /\ UNCHANGED <<attestationVars, escrowVars, tierGateVars, request>>

\* Wrong: locks that can be pulled early count too.
TierMeets_wrong(lock, tier) ==
    /\ lock.token = TierToken
    /\ lock.amount >= tier.threshold
    /\ lock.unlock_time >= tier.unlock_after
    /\ lock.commitment \in Identities

\* The terms buildQualSet asks of a lock; a tag of zeroes is nobody's.
TierMeets(lock, tier) ==
    /\ ~lock.revocable
    /\ lock.token = TierToken
    /\ lock.amount >= tier.threshold
    /\ lock.unlock_time >= tier.unlock_after
    /\ lock.commitment \in Identities

\* POST /bonded/tier/set-member-root
StartPin(q) ==
    /\ "tier-gate" \in deployed
    /\ request[q] = Nobody
    /\ enrolled # {}
    /\ Sets(q, [kind |-> "pin", members |-> enrolled, stage |-> "pinning"])
    /\ UNCHANGED <<attestationVars, escrowVars, tierGateVars, enrolled>>

\* POST /bonded/tier/qual-root and /bonded/tier/prove.  Both read the locks;
\* the second has read the members before, and its identity is one of them.
StartScan(q, kind, tier, who) ==
    /\ "tier-gate" \in deployed
    /\ request[q] = Nobody
    /\ Sets(q, [kind |-> kind, members |-> enrolled, who |-> who, tier |-> tier,
                stage |-> "reading", todo |-> 1..MaxLocks, found |-> {}])
    /\ UNCHANGED <<attestationVars, escrowVars, tierGateVars, enrolled>>

\* One get_lock returns (all are of one batch here; BondedAccess has the
\* batches).  The lock may be past its unlock time by the server's own clock.
ReadTierLock(q, id) ==
    /\ At(q, "reading")
    /\ id \in request[q].todo
    /\ \E seen \in {{}} \cup
            {{locks[i].commitment} : i \in
                {j \in DOMAIN locks \cap {id} :
                    ~locks[j].released /\ TierMeets(locks[j], request[q].tier)}} :
          Sets(q, [request[q] EXCEPT !.todo = request[q].todo \ {id},
                                     !.found = request[q].found \cup seen])
    /\ UNCHANGED <<attestationVars, escrowVars, tierGateVars, enrolled>>

LargeEnough(found) == Cardinality(found) >= TierMinAnon

\* The scan is over and its set may be used.
EndTierScan(q) ==
    /\ At(q, "reading")
    /\ request[q].todo = {}
    /\ LargeEnough(request[q].found)
    /\ request[q].kind = "prove" => request[q].who \in request[q].found
    /\ Sets(q, [request[q] EXCEPT
                   !.stage = IF request[q].kind = "prove" THEN "pinning" ELSE "publishing"])
    /\ UNCHANGED <<attestationVars, escrowVars, tierGateVars, enrolled>>

\* Write the member root as it was read at the start of the request; a prove
\* request that finds it pinned goes on without.
PinMembers(q) ==
    /\ At(q, "pinning")
    /\ \/ set_member_root(request[q].members)
       \/ /\ request[q].kind = "prove" /\ member_root = request[q].members
          /\ UNCHANGED tierGateVars
    /\ Sets(q, IF request[q].kind = "prove"
               THEN [request[q] EXCEPT !.stage = "publishing"] ELSE Nobody)
    /\ UNCHANGED <<attestationVars, escrowVars, enrolled>>

\* Write the root of the locks read; a prove request that finds it in the ring
\* does not.  The proof that is then made can be any (TierJournals).
PublishTierRoot(q) ==
    LET ring == qual_ring[request[q].tier] IN
    /\ At(q, "publishing")
    /\ \/ set_qual_root(request[q].tier, request[q].found)
       \/ /\ request[q].kind = "prove"
          /\ \E j \in DOMAIN ring : ring[j] = request[q].found
          /\ UNCHANGED tierGateVars
    /\ Sets(q, Nobody)
    /\ UNCHANGED <<attestationVars, escrowVars, enrolled>>

\* A refusal, a failed call, a restart of the backend.
AbandonTierRequest(q) ==
    /\ request[q] # Nobody
    /\ Sets(q, Nobody)
    /\ UNCHANGED <<attestationVars, escrowVars, tierGateVars, enrolled>>

TierCall ==
    \/ \E p \in TierJournals : submit_tier_proof(p)
    \/ \E i \in Identities : EnrollTier(i)
    \/ \E q \in Requests :
          \/ StartPin(q)
          \/ \E tier \in Tiers :
                \/ StartScan(q, "publish", tier, Nobody)
                \/ \E who \in enrolled : StartScan(q, "prove", tier, who)
          \/ \E id \in 1..MaxLocks : ReadTierLock(q, id)
          \/ EndTierScan(q)
          \/ PinMembers(q)
          \/ PublishTierRoot(q)
          \/ AbandonTierRequest(q)

-------------------------------------------------------------------------------
(* Properties. *)

(***************************************************************************)
(* Whoever is granted hides in a crowd of at least TIER_MIN_ANON_SET, all  *)
(* of whom still have their qualifying money in the escrow.  The gate can  *)
(* tell neither: it follows from what the backend publishes, from locks    *)
(* that cannot leave before X, and from grants that end there.             *)
(***************************************************************************)
TierCrowdIsFunded ==
    \A a \in TierAccessors : tier_is_granted(a) =>
        LET g == tier_grants[a] IN
        /\ Cardinality(g.qual_root) >= TierMinAnon
        /\ \A c \in g.qual_root : \E id \in DOMAIN locks :
              /\ locks[id].commitment = c
              /\ ~locks[id].released
              /\ TierMeets(locks[id], g.tier)

===============================================================================
