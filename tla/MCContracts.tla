----------------------------- MODULE MCContracts -----------------------------
(***************************************************************************)
(* Instance of Contracts for TLC: two accounts, a plain token and one that *)
(* keeps a unit of every transfer, one issuer, and one or two signed       *)
(* envelopes of each claim.                                                *)
(***************************************************************************)
EXTENDS Contracts, TLC

CONSTANTS plain, feeTaking, k1, bank

MCTokens == {plain, feeTaking}
MCSymmetry ==
    Permutations(Accounts) \cup Permutations(Identities)
        \cup Permutations(Accessors) \cup Permutations(Auditors)
        \cup Permutations(Readers)
MCFee == [t \in MCTokens |-> IF t = feeTaking THEN 1 ELSE 0]

Env(claim_type, subject, value, nonce, expiry) ==
    [claim |-> claim_type, issuer |-> k1, subject |-> subject, value |-> value,
     nonce |-> nonce, expiry |-> expiry]

MCEnvelopes ==
    {Env("identity", 1, 1, 1, 2), Env("identity", 2, 1, 2, 2),
     Env("accredited", 1, 1, 3, 1), Env("accredited", 1, 0, 4, 2),
     Env("revenue", 1, 1, 5, 2), Env("revenue", 1, 2, 6, 1),
     Env("payroll", 1, 1, 7, 1), Env("payroll", 2, 2, 8, 2),
     Env("reserves", 1, 1, 9, 1),
     Env("solvency", 1, 1, 10, 2),
     Env("teaser", 1, 1, 11, 2), Env("teaser", 1, 2, 12, 1)}

MCDenyLists == {{}, {1}, {1, 3}}
MCTiers == {[threshold |-> 1, unlock_after |-> 2]}
MCMaxGrants == [gate |-> 1, accredited |-> 2, compliance |-> 2, payroll |-> 3]

MCStatements == {[issuer |-> bank, value |-> 1]}
MCFields == [revenue |-> "long", name |-> "long", account |-> "long",
             code |-> "short", born |-> "date", pin |-> "year", note |-> "year"]
MCMasks == [name |-> "drop", account |-> "last4", code |-> "last4",
            born |-> "year", pin |-> "year"]
MCPolicy ==
    [f \in DOMAIN MCMasks \cup {"revenue"} |->
        IF f = "revenue" THEN [tier |-> "public", mask |-> "redact"]
        ELSE [tier |-> "private", mask |-> MCMasks[f]]]
MCDisclosures ==
    {[doc |-> [f \in DOMAIN MCFields |-> [form |-> MCFields[f], id |-> 1]],
      policy |-> MCPolicy]}

Rich == [t \in MCTokens |-> 2]
Poor == [t \in MCTokens |-> 1]
MCDeployments ==
    [contracts: {{"escrow"}}, funds: {Rich}]
    \cup [contracts: {{"gate", "accredited", "fundraise"}, {"compliance"},
                      {"payroll"}, {"token", "policy"},
                      {"escrow", "token", "solvency-gate"},
                      {"escrow", "tier-gate"}, {"dataroom"}},
          funds: {Poor}]

===============================================================================
