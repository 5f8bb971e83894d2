----------------------------- MODULE MCKeyRelease -----------------------------
(***************************************************************************)
(* Instances of KeyRelease for TLC: one room and one document.             *)
(***************************************************************************)
EXTENDS KeyRelease, TLC

CONSTANT i1

MCRoots == {{i1}}
MCKeySymmetry == Permutations(Keys) \cup Permutations(Dealers)
MCSymmetry == Permutations(Keypers) \cup Permutations(Keys)

===============================================================================
