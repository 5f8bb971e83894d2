---------------------------- MODULE MCAccessQueue ----------------------------
(***************************************************************************)
(* An instance of AccessQueue for TLC: two members, each with a holder     *)
(* key, and one room.                                                      *)
(***************************************************************************)
EXTENDS AccessQueue, TLC

CONSTANTS i1, i2, a1, a2, r1

MCRoots == {{i1}, {i1, i2}}
MCHolderKey == [i \in Identities |-> IF i = i1 THEN a1 ELSE a2]

==============================================================================
