------------------------------- MODULE MCReader -------------------------------
(***************************************************************************)
(* An instance of CommitteeReader for TLC: one room, one document and one  *)
(* gate a policy may name.                                                 *)
(***************************************************************************)
EXTENDS CommitteeReader, TLC

CONSTANTS i1, kyc

MCRoots == {{i1}}
MCPolicies == {[require_membership |-> FALSE, gates |-> {kyc}]}
MCSymmetry == Permutations(Keypers) \cup Permutations(Keys)

\* Everything but displaced, which this run's actions and invariants do not read.
MCView == <<vars, share, disk, asks, released, dealerVars, barred, open>>

===============================================================================
