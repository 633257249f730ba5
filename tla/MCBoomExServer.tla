---------------------------- MODULE MCBoomExServer ----------------------------
(* m1 goes from b to a, m2 from a to b, m3 from a to the node itself.       *)
EXTENDS BoomExServer, TLC

CONSTANTS a, b, me, m1, m2, m3, c1, c2

MCAddress  == {a, b, me}
AllTo      == m1 :> a @@ m2 :> b @@ m3 :> me
AllFrom    == m1 :> b @@ m2 :> a @@ m3 :> a
MCTo       == [m \in Mail |-> AllTo[m]]
MCFrom     == [m \in Mail |-> AllFrom[m]]
MCSubject  == [m \in Mail |-> "MAIL"]
MCUnique   == [m \in Mail |-> m]
MCNoPrefix == {<<x, x>> : x \in MCAddress}
MCSymmetry == Permutations(Conn)
================================================================================
