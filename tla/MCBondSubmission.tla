---------------------------- MODULE MCBondSubmission ----------------------------
(***************************************************************************)
(* An instance of BondSubmission for TLC: one identity proves the same     *)
(* requirement for two holder keys, on the membership path and on the      *)
(* approval-free one; a ring of one root.                                  *)
(***************************************************************************)
EXTENDS BondSubmission, TLC

CONSTANTS i1, a1, a2, x1, tok

MCReq == [token |-> tok, min_amount |-> 1, deadline |-> 1]
MCReqs == {MCReq}

MCBond(a) ==
    [image |-> BondImage, claim_type |-> "bond", member_root |-> {i1},
     qual_root |-> {i1}, req |-> MCReq, context |-> MCReq,
     nullifier |-> <<i1, MCReq>>, accessor |-> a]

MCOpen ==
    [image |-> OpenImage, claim_type |-> "bond-open", qual_root |-> Identities,
     req |-> MCReq, context |-> MCReq, nullifier |-> <<i1, MCReq>>,
     accessor |-> a1, recipient_pub |-> x1]

MCWork == {MCBond(a1), MCOpen}
MCOthers == {MCBond(a2), MCOpen}
MCRoots == {{i1}}

===============================================================================
