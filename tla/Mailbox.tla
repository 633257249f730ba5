-------------------------------- MODULE Mailbox --------------------------------
(***************************************************************************)
(* What the relay of a node promises, without connections, rows or crashes:*)
(* mail is kept from the moment the sender is told so until the recipient  *)
(* has asked for it.  BoomExServer and Api implement it when message IDs   *)
(* are unique and no address is a prefix of another.                       *)
(***************************************************************************)
EXTENDS Naturals

CONSTANTS Mail, Address, To

VARIABLES
  held,      \* messages in the relay's care
  promised,  \* messages their senders were told are in its care
  offered    \* <<m, a>>: m was handed out at the request of a

mailbox == <<held, promised, offered>>

Take(m) ==
  /\ held' = held \cup {m}
  /\ UNCHANGED <<promised, offered>>

(* Senders are told of one message or, of a pack, of several at once.  The  *)
(* recipient may have come for some before that.                            *)
Promise(S) ==
  /\ \A m \in S : m \in held \/ <<m, To[m]>> \in offered
  /\ promised' = promised \cup S
  /\ UNCHANGED <<held, offered>>

(* A recipient gets all that is held for it at that moment.                 *)
Offer(a) ==
  /\ offered' = offered \cup ({m \in held : To[m] = a} \X {a})
  /\ UNCHANGED <<held, promised>>

Discard ==
  /\ held' \in SUBSET held
  /\ \A m \in held \ held' : <<m, To[m]>> \in offered
  /\ UNCHANGED <<promised, offered>>

Init == held = {} /\ promised = {} /\ offered = {}

Next ==
  \/ \E m \in Mail : Take(m)
  \/ \E S \in SUBSET Mail : Promise(S)
  \/ \E a \in Address : Offer(a)
  \/ Discard

Spec == Init /\ [][Next]_mailbox
================================================================================
