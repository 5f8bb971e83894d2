----------------------------- MODULE MCSharedOpen -----------------------------
(***************************************************************************)
(* Instances of SharedOpen for TLC.                                        *)
(***************************************************************************)
EXTENDS SharedOpen, TLC

CONSTANTS r1, r2, d1

MCRoomOf == [d \in Docs |-> IF d = d1 THEN r1 ELSE r2]
MCOneRoom == [d \in Docs |-> r1]

===============================================================================
