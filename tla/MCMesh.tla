-------------------------------- MODULE MCMesh --------------------------------
(* A relay r, the seed of the other two; a node p, whose user searches for q *)
(* and calls q a relay at one of its addresses; and the node q, which moves  *)
(* between two addresses and is a relay at some starts only.                 *)
EXTENDS Mesh, TLC

CONSTANTS r, p, q, ur, up, uq1, uq2

MCHome  == [n \in Node |-> CASE n = r -> {ur}
                             [] n = p -> {up}
                             [] n = q -> {uq1, uq2}]
MCModes == [n \in Node |-> CASE n = r -> {TRUE}
                             [] n = p -> {FALSE}
                             [] n = q -> BOOLEAN]
MCSeeds  == [n \in Node |-> IF n = r THEN {} ELSE {r}]
MCClaims == {<<q, uq2, TRUE>>}
================================================================================
