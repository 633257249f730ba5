----------------------------- MODULE MCBoomExSend -----------------------------
(* m1 goes from b to a under the subject NO_MAIL, m2 from a to b, m3 from a  *)
(* to the node itself.                                                       *)
EXTENDS BoomExSend, TLC

CONSTANTS a, b, me, m1, m2, m3, c1, c2

MCAddress == {a, b, me}
AllTo     == m1 :> a @@ m2 :> b @@ m3 :> me
AllFrom   == m1 :> b @@ m2 :> a @@ m3 :> a
MCTo      == [m \in Mail |-> AllTo[m]]
MCFrom    == [m \in Mail |-> AllFrom[m]]
MCSubject == [m \in Mail |-> IF m = m1 THEN "NO_MAIL" ELSE "MAIL"]
MCId      == [m \in Mail |-> m]
MCPrefix  == {<<x, x>> : x \in MCAddress}
MCCalls   == {"tcp"} \X {m1, m3} \cup {"dialup", "radio"} \X {m1}
MCTcp     == {<<"tcp", m>> : m \in Mail}
================================================================================
