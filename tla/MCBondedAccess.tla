---------------------------- MODULE MCBondedAccess ----------------------------
(***************************************************************************)
(* Instances of BondedAccess for TLC: one token that keeps no fee and two  *)
(* requirements, of one and of two units, due at the same deadline.        *)
(***************************************************************************)
EXTENDS BondRefinement

CONSTANTS tok, i1, zero

MCFee == [t \in {tok} |-> 0]
MCCommitments == Identities \cup {zero}
MCReqs == {[token |-> tok, min_amount |-> m, deadline |-> 2] : m \in 1..2}
MCMemberRoots == SUBSET Identities \ {{}}

===============================================================================
