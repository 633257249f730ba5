------------------------------ MODULE MCBlockList ------------------------------
(* Two lists.  The first names guardian g1 and wants one signature; the       *)
(* second names every guardian, wants two, and bans this node.                *)
EXTENDS BlockList

CONSTANTS d1, d2, g1

MCGuardians == [d \in Doc |-> IF d = d1 THEN {g1} ELSE Guardian]
MCQuorum    == [d \in Doc |-> IF d = d1 THEN 1 ELSE 2]
================================================================================
