--------------------------------- MODULE MCApi ---------------------------------
(* p1 is mail of the node to the peer a, e1 and e2 are its posts to the area*)
(* g, f1 is mail of another node to a.                                      *)
EXTENDS Api, TLC

CONSTANTS a, b, g, me1, me2, p1, e1, e2, f1, r1, r2, c1, c2

MCAddress == {a, b, g, me1, me2}
AllTo     == p1 :> a @@ e1 :> g @@ e2 :> g @@ f1 :> a
AllFrom   == p1 :> me1 @@ e1 :> me1 @@ e2 :> me1 @@ f1 :> b
MCTo      == [m \in Mail |-> AllTo[m]]
MCFrom    == [m \in Mail |-> AllFrom[m]]
MCId      == [m \in Mail |-> m]
MCPrefix  == {<<x, x>> : x \in MCAddress}
MCSymmetry == Permutations(Req) \cup Permutations(Conn)
================================================================================
