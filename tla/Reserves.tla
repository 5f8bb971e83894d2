------------------------------- MODULE Reserves -------------------------------
(***************************************************************************)
(* The supply-tracking token, contracts/token, and the proof-of-reserves   *)
(* policy, contracts/policy, which takes a proof that reserves reach a     *)
(* threshold only when the threshold is the token's supply at that moment. *)
(* Amounts are i128 and trap on overflow; journals carry 64-bit numbers.   *)
(***************************************************************************)
EXTENDS Attestation

CONSTANTS
    TokenHolders,   \* addresses that hold the token
    MaxI128,        \* i128::MAX
    MaxU64,         \* u64::MAX
    MaxResults      \* bound: entries of the policy's log

ASSUME ReservesAssumption == MaxU64 \in Nat /\ MaxI128 \in Nat

VARIABLES
    holdings,       \* the token's DataKey::Balance
    total_supply,   \* the token's DataKey::TotalSupply
    results         \* the policy's DataKey::Log

reserveVars == <<holdings, total_supply, results>>

ReservesInit ==
    /\ holdings = [a \in TokenHolders |-> 0]
    /\ total_supply = 0
    /\ results = << >>

-------------------------------------------------------------------------------
(* The token. *)

mint(to, amount) ==
    /\ "token" \in deployed
    /\ total_supply + amount <= MaxI128
    /\ holdings' = [holdings EXCEPT ![to] = holdings[to] + amount]
    /\ total_supply' = total_supply + amount
    /\ UNCHANGED <<attestationVars, results>>

burn(from, amount) ==
    /\ "token" \in deployed
    /\ holdings[from] >= amount
    /\ holdings' = [holdings EXCEPT ![from] = holdings[from] - amount]
    /\ total_supply' = total_supply - amount
    /\ UNCHANGED <<attestationVars, results>>

\* transfer.  The receiver's balance is read after the sender's is written:
\* the two may be the same.
move(from, to, amount) ==
    LET debited == [holdings EXCEPT ![from] = holdings[from] - amount] IN
    /\ "token" \in deployed
    /\ holdings[from] >= amount
    /\ holdings' = [debited EXCEPT ![to] = debited[to] + amount]
    /\ UNCHANGED <<attestationVars, total_supply, results>>

-------------------------------------------------------------------------------
(* The policy. *)

\* Wrong: the supply is cut to 64 bits without a look at what is cut off.
BoundToSupply_wrong(supply) == supply = total_supply % (MaxU64 + 1)

\* The supply a journal carries is the token's, read now.
BoundToSupply(supply) ==
    /\ total_supply <= MaxU64
    /\ supply = total_supply

submit_proof_of_reserves ==
    \E p \in GenericJournals(0..MaxU64) :
        /\ p.claim_type = "reserves"
        /\ Accepted("policy", p)
        /\ BoundToSupply(p.threshold)
        /\ Len(results) < MaxResults
        /\ results' = Append(results,
                         [supply |-> p.threshold, issuer_id |-> p.issuer_id,
                          nonce |-> p.nonce, expiry |-> p.expiry])
        /\ UNCHANGED <<attestationVars, holdings, total_supply>>

ReservesCall ==
    \/ \E to \in TokenHolders, n \in 1..MaxI128 : mint(to, n)
    \/ \E from \in TokenHolders, n \in 1..MaxI128 : burn(from, n)
    \/ \E from, to \in TokenHolders, n \in 1..MaxI128 : move(from, to, n)
    \/ submit_proof_of_reserves

-------------------------------------------------------------------------------
(* Properties. *)

\* What the holders have, unit by unit, so that the sum is a cardinality.
HeldUnits == UNION {{a} \X (1..holdings[a]) : a \in TokenHolders}

(***************************************************************************)
(* Whenever the policy publishes a result, some listed issuer's unexpired  *)
(* word stands for reserves that cover all that the token's holders can    *)
(* present at that moment, through any mints, burns and transfers, one to  *)
(* oneself included, and supplies beyond 64 bits.                          *)
(***************************************************************************)
ReservesCoverSupply ==
    [][results' # results =>
          \E e \in Signed("reserves") :
              /\ e.issuer \in issuers["policy"]
              /\ e.value >= Cardinality(HeldUnits)
      ]_<<now, attestationVars, reserveVars>>

===============================================================================
