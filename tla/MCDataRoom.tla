------------------------------ MODULE MCDataRoom ------------------------------
(***************************************************************************)
(* Instances of DataRoom for TLC: one room, one document, two identities,  *)
(* a requirement due at time 1.                                            *)
(***************************************************************************)
EXTENDS DataRoom, TLC

CONSTANTS i1, i2, tok

MCSymmetry == Permutations(Accessors)
MCReqs == {[token |-> tok, min_amount |-> 1, deadline |-> 1]}
MCRoots == {{i1}, {i1, i2}}
MCOneRoot == {{i1}}
MCSwap == {{i1}, {i2}}
MCPolicies == [require_membership: BOOLEAN, gates: {{}}]

===============================================================================
