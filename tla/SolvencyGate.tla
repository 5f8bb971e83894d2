----------------------------- MODULE SolvencyGate -----------------------------
(***************************************************************************)
(* The bonded solvency gate, contracts/solvency-gate.  The owner of a      *)
(* revocable escrow lock proves that reserves reach the token's supply;    *)
(* the answer is_granted is worked out anew on every read from the escrow  *)
(* and the token, so that it ends when the bond is pulled or the supply    *)
(* changes.                                                                *)
(***************************************************************************)
EXTENDS Escrow, Reserves

CONSTANT FirstBondToken     \* the bond token initialize is given

ASSUME SolvencyAssumption == FirstBondToken \in Tokens

VARIABLES
    records,        \* DataKey::Record(depositor)
    bond_token      \* Config.bond_token

solvencyVars == <<records, bond_token>>

SolvencyInit ==
    /\ records = Empty
    /\ bond_token = FirstBondToken

-------------------------------------------------------------------------------
\* guest-solvency: reserves of at least supply.  The lock, the amount and the
\* tokens are any the prover names.
SolvencyJournals ==
    LET covering(s) == {e \in Envelopes : e.claim = "solvency" /\ e.value >= s}
    IN UNION {{[issuer_id |-> e.issuer, supply |-> s, nonce |-> e.nonce,
                expiry |-> e.expiry, lock_id |-> id, min_amount |-> m,
                bond_token |-> t] :
                  e \in covering(s), id \in 1..MaxLocks, m \in 0..InitBalance,
                  t \in Tokens} : s \in 0..MaxU64}

\* check_lock_bonded, over get_lock, which fails on an unknown id.
Bonded(id, min_amount) ==
    /\ id \in DOMAIN locks
    /\ min_amount > 0
    /\ ~locks[id].released
    /\ now < locks[id].unlock_time
    /\ locks[id].revocable
    /\ locks[id].token = bond_token
    /\ locks[id].amount >= min_amount

\* lock.depositor.require_auth()
Owns(caller, id) == caller = locks[id].depositor

\* submit_solvency_proof in a transaction that carries caller's authorisation.
submit_solvency_proof(caller) ==
    \E p \in SolvencyJournals :
        /\ Accepted("solvency-gate", p)
        /\ BoundToSupply(p.supply)
        /\ p.bond_token = bond_token
        /\ Bonded(p.lock_id, p.min_amount)
        /\ Owns(caller, p.lock_id)
        /\ records' = Put(records, caller, p)
        /\ UNCHANGED <<attestationVars, escrowVars, reserveVars, bond_token>>

set_bond_token(t) ==
    /\ "solvency-gate" \in deployed
    /\ bond_token' = t
    /\ UNCHANGED <<attestationVars, escrowVars, reserveVars, records>>

\* Wrong: the supply is not read again.
solvency_is_granted_wrong(a) ==
    /\ a \in DOMAIN records
    /\ records[a].expiry > now
    /\ Bonded(records[a].lock_id, records[a].min_amount)

\* is_granted
solvency_is_granted(a) ==
    /\ a \in DOMAIN records
    /\ records[a].expiry > now
    /\ BoundToSupply(records[a].supply)
    /\ Bonded(records[a].lock_id, records[a].min_amount)

SolvencyCall ==
    \/ \E caller \in Accounts : submit_solvency_proof(caller)
    \/ \E t \in Tokens : set_bond_token(t)

-------------------------------------------------------------------------------
(* Properties. *)

\* Whoever is granted now, and what they stand for, unit by unit.
GrantedNow == {a \in Accounts : solvency_is_granted(a)}

BondUnits == UNION {{a} \X (1..records[a].min_amount) : a \in GrantedNow}

(***************************************************************************)
(* Whoever is granted now is solvent now, as far as an unexpired word of   *)
(* an auditor goes (the reserves attested cover today's supply, not that   *)
(* of the day the proof was made), and has skin of their own in the game:  *)
(* no two stand on the same lock, each could still pull the bond and be    *)
(* paid, and the escrow holds what all the bonds claim together.           *)
(***************************************************************************)
GrantIsBacked ==
    /\ \A a \in GrantedNow :
          /\ locks[records[a].lock_id].claimant = a
          /\ \E e \in Signed("solvency") :
                e.nonce = records[a].nonce /\ e.value >= total_supply
    /\ Cardinality(BondUnits) <= balance[bond_token][EscrowAddr]

===============================================================================
