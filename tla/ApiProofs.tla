------------------------------- MODULE ApiProofs -------------------------------
(***************************************************************************)
(* Theorems about Api, for any number of requests, peers, areas, messages. *)
(***************************************************************************)
EXTENDS Api, MailBucketProofs, FiniteSetTheorems, TLAPS

LEMMA StoreType ==
  ASSUME TypeOK, NEW r \in Req, NEW m \in Mail, Store(r, m) \/ StoreFails
  PROVE  box' \subseteq Row /\ clock' \in Nat /\ saved' \in [Req -> SUBSET Mail]
  BY DEF TypeOK, Store, StoreFails, StoreMessageForRelay, Row

LEMMA ReturnType ==
  ASSUME TypeOK, NEW r \in Req, Return(r)
  PROVE  /\ pc' = [pc EXCEPT ![r] = "idle"]
         /\ peer' \in [Req -> Address \cup {None}]
         /\ mail' \in [Req -> Mail \cup {None}]
         /\ host' \in [Req -> Host \cup {NoHost}]
         /\ left' \in [Req -> SUBSET Mail] /\ saved' \in [Req -> SUBSET Mail]
         /\ \A q \in Req \ {r} : /\ peer'[q] = peer[q] /\ mail'[q] = mail[q]
                                 /\ host'[q] = host[q] /\ left'[q] = left[q]
                                 /\ saved'[q] = saved[q]
  BY DEF TypeOK, Return, Goto

LEMMA InitType == Init => TypeOK
  BY ApiAssumption DEF Init, TypeOK

LEMMA StepType == TypeOK /\ [Next]_vars => TypeOK'
<1> SUFFICES ASSUME TypeOK, [Next]_vars PROVE TypeOK'
  OBVIOUS
<1> USE ApiAssumption, MailAssumption
<1>1. ASSUME NEW r \in Req, NEW a \in Contact, HandlePeers(r, a) PROVE TypeOK'
  BY <1>1 DEF HandlePeers, Idle, TypeOK, Goto, db, history
<1>2. ASSUME NEW r \in Req, AddPeer(r) PROVE TypeOK'
  <2>1. book' \in [Address -> Host \cup {NoHost, Missing}]
    BY <1>2 DEF AddPeer, TypeOK
  <2>2. Return(r)
    BY <1>2 DEF AddPeer
  <2> QED
    BY <1>2, <2>1, <2>2, ReturnType DEF AddPeer, TypeOK, history
<1>3. ASSUME NEW r \in Req, NEW m \in Mail, HandleMsg(r, m) PROVE TypeOK'
  <2>1. To[m] \in Address
    OBVIOUS
  <2>2. book[To[m]] \in Host \cup {NoHost}
    BY <1>3, <2>1 DEF HandleMsg, TypeOK
  <2> QED
    BY <1>3, <2>2 DEF HandleMsg, Compose, Idle, TypeOK, Goto, db
<1>4. ASSUME NEW r \in Req, FindHost(r) PROVE TypeOK'
  BY <1>4 DEF FindHost, TypeOK, Goto, db, history
<1>5. ASSUME NEW r \in Req, UpdatePeerTCP(r) PROVE TypeOK'
  BY <1>5 DEF UpdatePeerTCP, TypeOK, Goto, history
<1>6. ASSUME NEW r \in Req, StoreForRelay(r) PROVE TypeOK'
  <2>1. mail[r] \in Mail
    BY <1>6 DEF StoreForRelay, TypeOK
  <2>2. box' \subseteq Row /\ clock' \in Nat /\ saved' \in [Req -> SUBSET Mail]
    BY <1>6, <2>1, StoreType DEF StoreForRelay
  <2> QED
    BY <1>6, <2>2 DEF StoreForRelay, TypeOK, Goto, history
<1>20. ASSUME NEW r \in Req, ReplyStored(r) PROVE TypeOK'
  <2>1. Return(r) /\ answered' \subseteq Mail
    BY <1>20 DEF ReplyStored, TypeOK
  <2> QED
    BY <1>20, <2>1, ReturnType DEF ReplyStored, TypeOK, db
<1>7. ASSUME NEW r \in Req, SendMessage(r) PROVE TypeOK'
  <2>1. Return(r)
    BY <1>7 DEF SendMessage
  <2> QED
    BY <1>7, <2>1, ReturnType DEF SendMessage, TypeOK, db, history
<1>8. ASSUME NEW a \in Area, Subscribe(a) PROVE TypeOK'
  BY <1>8 DEF Subscribe, TypeOK, EchoArea, request, history
<1>9. ASSUME NEW r \in Req, NEW m \in Mail, PostToEcho(r, m) PROVE TypeOK'
  <2>1. box' \subseteq Row /\ clock' \in Nat /\ saved' \in [Req -> SUBSET Mail]
    BY <1>9, StoreType DEF PostToEcho
  <2>2. stored' \in [Area -> Nat]
    BY <1>9 DEF PostToEcho, TypeOK
  <2>3. made' \subseteq Mail /\ begun' \in Nat
    BY <1>9 DEF PostToEcho, Compose, TypeOK
  <2>4. CASE UNCHANGED <<mail, pc>>
    BY <1>9, <2>1, <2>2, <2>3, <2>4 DEF PostToEcho, TypeOK
  <2>5. CASE mail' = [mail EXCEPT ![r] = m] /\ Goto(r, "count")
    BY <1>9, <2>1, <2>2, <2>3, <2>5 DEF PostToEcho, TypeOK, Goto
  <2> QED
    BY <1>9, <2>4, <2>5 DEF PostToEcho
<1>10. ASSUME NEW r \in Req, CountPost(r) PROVE TypeOK'
  <2>1. mail[r] \in Mail /\ To[mail[r]] \in Area
    BY <1>10 DEF CountPost, TypeOK
  <2>2. /\ areas' \in [Area -> EchoArea \cup {None}]
        /\ confirmed' \in [Area -> Nat] /\ answered' \subseteq Mail
    <3>1. PICK b \in Area : b = To[mail[r]]
      BY <2>1
    <3>2. CASE /\ areas[b] # None
               /\ areas' = [areas EXCEPT ![b].messages = @ + 1]
               /\ confirmed' = [confirmed EXCEPT ![b] = @ + 1]
               /\ answered' = answered \cup saved[r]
      <4>1. areas[b] \in EchoArea
        BY <3>2 DEF TypeOK
      <4>2. PICK e : e = [areas[b] EXCEPT !.messages = @ + 1]
        OBVIOUS
      <4>3. e \in EchoArea /\ areas' = [areas EXCEPT ![b] = e]
        BY <3>2, <4>1, <4>2 DEF EchoArea
      <4>4. areas' \in [Area -> EchoArea \cup {None}]
        BY <4>3 DEF TypeOK
      <4> QED
        BY <2>1, <3>2, <4>4 DEF TypeOK
    <3>3. CASE UNCHANGED <<areas, confirmed, answered>>
      BY <3>3 DEF TypeOK
    <3> QED
      BY <1>10, <3>1, <3>2, <3>3 DEF CountPost
  <2>3. Return(r)
    BY <1>10 DEF CountPost
  <2> QED
    BY <1>10, <2>2, <2>3, ReturnType DEF CountPost, TypeOK
<1>11. ASSUME NEW a \in Address, Export(a) PROVE TypeOK'
  <2>1. exported' \subseteq Mail
    BY <1>11, FetchedRows DEF Export, TypeOK
  <2> QED
    BY <1>11, <2>1 DEF Export, TypeOK, db, request
<1>12. ASSUME NEW r \in Req, NEW S \in SUBSET Mail, HandleImport(r, S)
       PROVE  TypeOK'
  BY <1>12 DEF HandleImport, Idle, TypeOK, Goto, db, history
<1>13. ASSUME NEW r \in Req, ImportNext(r) PROVE TypeOK'
  <2>1. PICK m \in left[r] : /\ Store(r, m) \/ StoreFails
                             /\ left' = [left EXCEPT ![r] = @ \ {m}]
    BY <1>13 DEF ImportNext
  <2>2. m \in Mail
    BY DEF TypeOK
  <2>3. box' \subseteq Row /\ clock' \in Nat /\ saved' \in [Req -> SUBSET Mail]
    BY <2>1, <2>2, StoreType
  <2> QED
    BY <1>13, <2>1, <2>3 DEF ImportNext, TypeOK, history
<1>14. ASSUME NEW r \in Req, ImportDone(r) PROVE TypeOK'
  <2>1. Return(r)
    BY <1>14 DEF ImportDone
  <2> QED
    BY <1>14, <2>1, ReturnType DEF ImportDone, TypeOK, db
<1>15. ASSUME NEW c \in Conn, NEW a \in Address, RemoteFetch(c, a) PROVE TypeOK'
  <2>1. batch' \in [Conn -> SUBSET Row] /\ taken' \subseteq Mail
    BY <1>15, FetchedRows DEF RemoteFetch, TypeOK
  <2> QED
    BY <1>15, <2>1 DEF RemoteFetch, TypeOK, db, request
<1>16. ASSUME NEW c \in Conn, RemotePurge(c) PROVE TypeOK'
  BY <1>16 DEF RemotePurge, TypeOK, DeleteMessagesForRelay, request, history
<1>17. ASSUME Crash PROVE TypeOK'
  BY <1>17 DEF Crash, TypeOK, db, history
<1>18. ASSUME Restart PROVE TypeOK'
  BY <1>18 DEF Restart, TypeOK, db, request, history
<1>19. ASSUME UNCHANGED vars PROVE TypeOK'
  BY <1>19 DEF vars, db, request, history, TypeOK
<1> QED
  BY <1>1, <1>2, <1>3, <1>4, <1>5, <1>6, <1>7, <1>8, <1>9, <1>10, <1>11, <1>12,
     <1>13, <1>14, <1>15, <1>16, <1>17, <1>18, <1>19, <1>20
  DEF Next, Asked, Handles

(* The buckets and the requests keep their types.                           *)
THEOREM TypeCorrect == Spec => []TypeOK
  BY InitType, StepType, PTL DEF Spec

-------------------------------------------------------------------------------
(***************************************************************************)
(* The counters.  That a counter never exceeds the posts stored needs the  *)
(* posts that are between the two transactions of PostToEcho.              *)
(***************************************************************************)
Pending(a) == {r \in Req : pc[r] = "count" /\ To[mail[r]] = a}

Counter(a) == IF areas[a] = None THEN 0 ELSE areas[a].messages

CountInv ==
  \A a \in Area :
    /\ confirmed[a] <= Counter(a)
    /\ Counter(a) + Cardinality(Pending(a)) <= stored[a]

LEMMA PendingFinite ==
  ASSUME NEW a
  PROVE  IsFiniteSet(Pending(a)) /\ Cardinality(Pending(a)) \in Nat
<1>1. IsFiniteSet(Req) /\ Pending(a) \subseteq Req
  BY ApiAssumption DEF Pending
<1> QED
  BY <1>1, FS_Subset, FS_CardinalityType

LEMMA CounterType ==
  ASSUME TypeOK, NEW a \in Area
  PROVE  /\ Counter(a) \in Nat /\ confirmed[a] \in Nat /\ stored[a] \in Nat
         /\ areas[a] # None => Counter(a) = areas[a].messages
         /\ areas[a] = None => Counter(a) = 0
<1>1. areas[a] # None => areas[a].messages \in Nat
  BY DEF TypeOK, EchoArea
<1> QED
  BY <1>1 DEF Counter, TypeOK

(* A step that adds no pending post and leaves the counters alone.          *)
LEMMA CountQuiet ==
  ASSUME TypeOK, CountInv, UNCHANGED <<stored, confirmed>>,
         \A a \in Area : Counter(a)' = Counter(a),
         \A r \in Req : pc'[r] = "count" => pc[r] = "count" /\ mail'[r] = mail[r]
  PROVE  CountInv'
<1> SUFFICES ASSUME NEW a \in Area
    PROVE  /\ (confirmed[a] <= Counter(a))'
           /\ (Counter(a) + Cardinality(Pending(a)) <= stored[a])'
  BY DEF CountInv
<1>1. Pending(a)' \subseteq Pending(a)
  BY DEF Pending
<1>2. PICK P : P = Pending(a)'
  OBVIOUS
<1>3. Cardinality(P) <= Cardinality(Pending(a)) /\ Cardinality(P) \in Nat
  BY <1>1, <1>2, PendingFinite, FS_Subset, FS_CardinalityType
<1> QED
  BY <1>2, <1>3, PendingFinite, CounterType DEF CountInv

LEMMA CountInit == Init => CountInv
<1> SUFFICES ASSUME Init, NEW a \in Area
    PROVE  /\ confirmed[a] <= Counter(a)
           /\ Counter(a) + Cardinality(Pending(a)) <= stored[a]
  BY DEF CountInv
<1>1. Pending(a) = {}
  BY DEF Init, Pending
<1>2. Cardinality(Pending(a)) = 0
  BY <1>1, FS_EmptySet
<1> QED
  BY <1>2 DEF Init, Counter

LEMMA CountStep == TypeOK /\ CountInv /\ [Next]_vars => CountInv'
<1> SUFFICES ASSUME TypeOK, CountInv, [Next]_vars PROVE CountInv'
  OBVIOUS
<1>1. ASSUME NEW r \in Req, NEW a \in Contact, HandlePeers(r, a)
      PROVE  CountInv'
  BY <1>1, CountQuiet DEF HandlePeers, Goto, TypeOK, db, history, Counter
<1>2. ASSUME NEW r \in Req, AddPeer(r) PROVE CountInv'
  BY <1>2, CountQuiet, ReturnType DEF AddPeer, TypeOK, history, Counter
<1>3. ASSUME NEW r \in Req, NEW m \in Mail, HandleMsg(r, m) PROVE CountInv'
  <2>1. pc' = [pc EXCEPT ![r] = "find"] \/ pc' = [pc EXCEPT ![r] = "send"]
    BY <1>3 DEF HandleMsg, Goto
  <2> QED
    BY <1>3, <2>1, CountQuiet DEF HandleMsg, TypeOK, db, Counter
<1>4. ASSUME NEW r \in Req, FindHost(r) PROVE CountInv'
  <2>1. pc' = [pc EXCEPT ![r] = "relay"] \/ pc' = [pc EXCEPT ![r] = "update"]
    BY <1>4 DEF FindHost, Goto
  <2> QED
    BY <1>4, <2>1, CountQuiet DEF FindHost, TypeOK, db, history, Counter
<1>5. ASSUME NEW r \in Req, UpdatePeerTCP(r) PROVE CountInv'
  BY <1>5, CountQuiet DEF UpdatePeerTCP, Goto, TypeOK, history, Counter
<1>6. ASSUME NEW r \in Req, StoreForRelay(r) PROVE CountInv'
  BY <1>6, CountQuiet DEF StoreForRelay, Goto, TypeOK, history, Counter
<1>20. ASSUME NEW r \in Req, ReplyStored(r) PROVE CountInv'
  BY <1>20, CountQuiet, ReturnType DEF ReplyStored, TypeOK, db, Counter
<1>7. ASSUME NEW r \in Req, SendMessage(r) PROVE CountInv'
  BY <1>7, CountQuiet, ReturnType DEF SendMessage, TypeOK, db, history, Counter
<1>8. ASSUME NEW b \in Area, Subscribe(b) PROVE CountInv'
  <2>1. ASSUME NEW a \in Area PROVE Counter(a)' = Counter(a)
    BY <1>8, <2>1, ApiAssumption DEF Subscribe, Counter, TypeOK
  <2> QED
    BY <1>8, <2>1, CountQuiet DEF Subscribe, request, history
<1>9. ASSUME NEW r \in Req, NEW m \in Mail, PostToEcho(r, m) PROVE CountInv'
  <2>1. CASE UNCHANGED <<stored, mail, pc>>
    BY <1>9, <2>1, CountQuiet DEF PostToEcho, Counter
  <2>2. CASE /\ stored' = [stored EXCEPT ![To[m]] = @ + 1]
             /\ mail' = [mail EXCEPT ![r] = m]
             /\ Goto(r, "count")
    <3> SUFFICES ASSUME NEW a \in Area
        PROVE  /\ (confirmed[a] <= Counter(a))'
               /\ (Counter(a) + Cardinality(Pending(a)) <= stored[a])'
      BY DEF CountInv
    <3>1. Counter(a)' = Counter(a) /\ confirmed' = confirmed
      BY <1>9 DEF PostToEcho, Counter
    <3>2. r \notin Pending(a)
      BY <1>9 DEF PostToEcho, Idle, Pending
    <3>3. Pending(a)' \subseteq
            IF To[m] = a THEN Pending(a) \cup {r} ELSE Pending(a)
      BY <2>2 DEF Pending, Goto, TypeOK
    <3>4. PICK P : P = Pending(a)'
      OBVIOUS
    <3>5. CASE To[m] = a
      <4>1. /\ IsFiniteSet(Pending(a) \cup {r})
            /\ Cardinality(Pending(a) \cup {r}) = Cardinality(Pending(a)) + 1
        BY <3>2, PendingFinite, FS_AddElement
      <4>2. Cardinality(P) <= Cardinality(Pending(a)) + 1
            /\ Cardinality(P) \in Nat
        BY <3>3, <3>4, <3>5, <4>1, FS_Subset, FS_CardinalityType
      <4>3. stored'[a] = stored[a] + 1
        BY <2>2, <3>5 DEF TypeOK
      <4> QED
        BY <3>1, <3>4, <4>2, <4>3, PendingFinite, CounterType DEF CountInv
    <3>6. CASE To[m] # a
      <4>1. Cardinality(P) <= Cardinality(Pending(a)) /\ Cardinality(P) \in Nat
        BY <3>3, <3>4, <3>6, PendingFinite, FS_Subset, FS_CardinalityType
      <4>2. stored'[a] = stored[a]
        BY <2>2, <3>6 DEF TypeOK
      <4> QED
        BY <3>1, <3>4, <4>1, <4>2, PendingFinite, CounterType DEF CountInv
    <3> QED
      BY <3>5, <3>6
  <2> QED
    BY <1>9, <2>1, <2>2 DEF PostToEcho
<1>10. ASSUME NEW r \in Req, CountPost(r) PROVE CountInv'
  <2>1. Return(r) /\ stored' = stored /\ pc[r] = "count"
    BY <1>10 DEF CountPost
  <2>2. \A q \in Req : pc'[q] = "count" =>
          q # r /\ pc[q] = "count" /\ mail'[q] = mail[q]
    BY <2>1, ReturnType DEF TypeOK
  <2>3. CASE UNCHANGED <<areas, confirmed>>
    BY <2>1, <2>2, <2>3, CountQuiet DEF Counter
  <2>4. CASE LET b == To[mail[r]] IN
               /\ areas[b] # None
               /\ areas' = [areas EXCEPT ![b].messages = @ + 1]
               /\ confirmed' = [confirmed EXCEPT ![b] = @ + 1]
    <3> SUFFICES ASSUME NEW a \in Area
        PROVE  /\ (confirmed[a] <= Counter(a))'
               /\ (Counter(a) + Cardinality(Pending(a)) <= stored[a])'
      BY DEF CountInv
    <3>1. PICK P : P = Pending(a)'
      OBVIOUS
    <3>2. P \subseteq Pending(a) \ {r}
      BY <2>2, <3>1 DEF Pending
    <3>3. CASE To[mail[r]] = a
      <4>1. r \in Pending(a)
        BY <2>1, <3>3 DEF Pending
      <4>2. /\ IsFiniteSet(Pending(a) \ {r})
            /\ Cardinality(Pending(a) \ {r}) = Cardinality(Pending(a)) - 1
        BY <4>1, PendingFinite, FS_RemoveElement
      <4>3. Cardinality(P) <= Cardinality(Pending(a)) - 1
            /\ Cardinality(P) \in Nat
        BY <3>2, <4>2, FS_Subset, FS_CardinalityType
      <4>4. areas[a] \in EchoArea /\ areas[a].messages \in Nat
        BY <2>4, <3>3 DEF TypeOK, EchoArea
      <4>5. areas'[a] = [areas[a] EXCEPT !.messages = @ + 1]
        BY <2>4, <3>3 DEF TypeOK
      <4>6. areas'[a] \in EchoArea
        BY <4>4, <4>5 DEF EchoArea
      <4>7. areas'[a] # None
        BY <4>6, ApiAssumption DEF EchoArea
      <4> QED
        BY <2>1, <2>4, <3>1, <3>3, <4>3, <4>4, <4>5, <4>7, PendingFinite,
           CounterType DEF CountInv, TypeOK, Counter
    <3>4. CASE To[mail[r]] # a
      <4>1. Cardinality(P) <= Cardinality(Pending(a)) /\ Cardinality(P) \in Nat
        BY <3>2, PendingFinite, FS_Subset, FS_CardinalityType
      <4>2. areas'[a] = areas[a] /\ confirmed'[a] = confirmed[a]
        BY <2>4, <3>4 DEF TypeOK
      <4> QED
        BY <2>1, <3>1, <4>1, <4>2, PendingFinite, CounterType
        DEF CountInv, Counter
    <3> QED
      BY <3>3, <3>4
  <2> QED
    BY <1>10, <2>3, <2>4 DEF CountPost
<1>11. ASSUME NEW a \in Address, Export(a) PROVE CountInv'
  BY <1>11, CountQuiet DEF Export, db, request, Counter
<1>12. ASSUME NEW r \in Req, NEW S \in SUBSET Mail, HandleImport(r, S)
       PROVE  CountInv'
  BY <1>12, CountQuiet DEF HandleImport, Goto, TypeOK, db, history, Counter
<1>13. ASSUME NEW r \in Req, ImportNext(r) PROVE CountInv'
  BY <1>13, CountQuiet DEF ImportNext, history, Counter
<1>14. ASSUME NEW r \in Req, ImportDone(r) PROVE CountInv'
  BY <1>14, CountQuiet, ReturnType DEF ImportDone, TypeOK, db, Counter
<1>15. ASSUME NEW c \in Conn, NEW a \in Address, RemoteFetch(c, a) PROVE CountInv'
  BY <1>15, CountQuiet DEF RemoteFetch, db, request, Counter
<1>16. ASSUME NEW c \in Conn, RemotePurge(c) PROVE CountInv'
  BY <1>16, CountQuiet DEF RemotePurge, request, history, Counter
<1>17. ASSUME Crash PROVE CountInv'
  BY <1>17, CountQuiet DEF Crash, db, history, Counter
<1>18. ASSUME Restart PROVE CountInv'
  BY <1>18, CountQuiet DEF Restart, db, request, history, Counter
<1>19. ASSUME UNCHANGED vars PROVE CountInv'
  BY <1>19, CountQuiet DEF vars, db, request, history, Counter
<1> QED
  BY <1>1, <1>2, <1>3, <1>4, <1>5, <1>6, <1>7, <1>8, <1>9, <1>10, <1>11, <1>12,
     <1>13, <1>14, <1>15, <1>16, <1>17, <1>18, <1>19, <1>20
  DEF Next, Asked, Handles

(* Every confirmed post is counted, and only posts that were stored are.    *)
THEOREM PostsCounted == Spec => []EchoCounted
<1>1. TypeOK /\ CountInv => EchoCounted
  <2> SUFFICES ASSUME TypeOK, CountInv, NEW a \in Area
      PROVE  IF areas[a] = None THEN confirmed[a] = 0
             ELSE /\ confirmed[a] <= areas[a].messages
                  /\ areas[a].messages <= stored[a]
    BY DEF EchoCounted
  <2> QED
    BY PendingFinite, CounterType DEF CountInv
<1> QED
  BY <1>1, InitType, StepType, CountInit, CountStep, PTL DEF Spec

-------------------------------------------------------------------------------
(***************************************************************************)
(* Mail.  A store overwrites nothing because no row is as new as the one   *)
(* it writes, and a delete takes only what a FETCH has found.              *)
(***************************************************************************)
RowsOK ==
  /\ \A q \in box : q.stamp <= clock
  /\ \A c \in Conn : MailOf(batch[c]) \subseteq taken

LEMMA RowsQuiet ==
  ASSUME RowsOK, UNCHANGED <<box, clock, batch>>, taken \subseteq taken'
  PROVE  RowsOK' /\ \A m \in Mail : Kept(m) => Kept(m)'
  BY DEF RowsOK, Kept

LEMMA RowsStore ==
  ASSUME TypeOK, RowsOK, NEW r \in Req, NEW n \in Mail, Store(r, n),
         UNCHANGED <<batch, taken>>
  PROVE  RowsOK' /\ Kept(n)' /\ \A m \in Mail : Kept(m) => Kept(m)'
<1> DEFINE new == [mail |-> n, stamp |-> clock + 1]
<1>1. box' = box \cup {new} /\ clock' = clock + 1
  BY NewStampAdds DEF TypeOK, RowsOK, Store
<1>2. \A q \in box' : q.stamp <= clock'
  BY <1>1 DEF TypeOK, RowsOK, Row
<1>3. MailOf(box) \subseteq MailOf(box') /\ n \in MailOf(box')
  <2>1. new \in box' /\ new.mail = n
    BY <1>1
  <2> QED
    BY <1>1, <2>1 DEF MailOf
<1> QED
  BY <1>2, <1>3 DEF RowsOK, Kept

(* What was kept is kept by every step.                                     *)
LEMMA RowsStep ==
  TypeOK /\ RowsOK /\ [Next]_vars =>
    RowsOK' /\ \A m \in Mail : Kept(m) => Kept(m)'
<1> DEFINE Good == RowsOK' /\ \A m \in Mail : Kept(m) => Kept(m)'
<1> SUFFICES ASSUME TypeOK, RowsOK, [Next]_vars PROVE Good
  OBVIOUS
<1>1. ASSUME NEW r \in Req, Asked(r) PROVE Good
  <2>1. ASSUME NEW a \in Contact, HandlePeers(r, a) PROVE Good
    BY <2>1, RowsQuiet DEF HandlePeers, db, history
  <2>2. ASSUME NEW m \in Mail, HandleMsg(r, m) PROVE Good
    BY <2>2, RowsQuiet DEF HandleMsg, db
  <2>3. ASSUME NEW m \in Mail, PostToEcho(r, m) PROVE Good
    BY <2>3, RowsQuiet, RowsStore DEF PostToEcho, StoreFails
  <2>4. ASSUME NEW S \in SUBSET Mail, HandleImport(r, S) PROVE Good
    BY <2>4, RowsQuiet DEF HandleImport, db, history
  <2> QED
    BY <1>1, <2>1, <2>2, <2>3, <2>4 DEF Asked
<1>2. ASSUME NEW r \in Req, Handles(r) PROVE Good
  <2>1. CASE AddPeer(r)
    BY <2>1, RowsQuiet DEF AddPeer, history
  <2>2. CASE FindHost(r)
    BY <2>2, RowsQuiet DEF FindHost, db, history
  <2>3. CASE UpdatePeerTCP(r)
    BY <2>3, RowsQuiet DEF UpdatePeerTCP, history
  <2>4. CASE StoreForRelay(r)
    <3>1. mail[r] \in Mail
      BY <2>4 DEF StoreForRelay, TypeOK
    <3> QED
      BY <2>4, <3>1, RowsStore, RowsQuiet DEF StoreForRelay, StoreFails, history
  <2>5. CASE CountPost(r)
    BY <2>5, RowsQuiet DEF CountPost
  <2>6. CASE ImportNext(r)
    <3>1. PICK m \in left[r] : Store(r, m) \/ StoreFails
      BY <2>6 DEF ImportNext
    <3>2. m \in Mail
      BY DEF TypeOK
    <3> QED
      BY <2>6, <3>1, <3>2, RowsStore, RowsQuiet DEF ImportNext, StoreFails, history
  <2>7. CASE ImportDone(r)
    BY <2>7, RowsQuiet DEF ImportDone, db
  <2>8. CASE ReplyStored(r)
    BY <2>8, RowsQuiet DEF ReplyStored, db
  <2> QED
    BY <1>2, <2>1, <2>2, <2>3, <2>4, <2>5, <2>6, <2>7, <2>8 DEF Handles
<1>3. ASSUME NEW r \in Req, SendMessage(r) PROVE Good
  BY <1>3, RowsQuiet DEF SendMessage, db, history
<1>4. ASSUME NEW a \in Area, Subscribe(a) PROVE Good
  BY <1>4, RowsQuiet DEF Subscribe, history
<1>5. ASSUME NEW a \in Address, Export(a) PROVE Good
  BY <1>5, RowsQuiet DEF Export, db
<1>6. ASSUME NEW c \in Conn, NEW a \in Address, RemoteFetch(c, a) PROVE Good
  <2>1. \A d \in Conn : MailOf(batch'[d]) \subseteq taken'
    BY <1>6 DEF RemoteFetch, RowsOK, TypeOK
  <2> QED
    BY <1>6, <2>1 DEF RemoteFetch, RowsOK, Kept, db
<1>7. ASSUME NEW c \in Conn, RemotePurge(c) PROVE Good
  <2>1. box' \subseteq box
    BY <1>7 DEF RemotePurge, DeleteMessagesForRelay
  <2>2. \A d \in Conn : MailOf(batch'[d]) \subseteq taken'
    BY <1>7 DEF RemotePurge, MailOf, RowsOK, TypeOK, history
  <2>3. ASSUME NEW m \in Mail, Kept(m) PROVE Kept(m)'
    <3>1. CASE m \in MailOf(box) /\ m \notin MailOf(box')
      <4>1. box' = DeleteMessagesForRelay(box, batch[c])
        BY <1>7, <3>1 DEF RemotePurge
      <4>2. PICK n \in MailOf(batch[c]) : Id[n] = Id[m]
        BY <3>1, <4>1, DeletedById DEF TypeOK
      <4>3. n \in taken'
        BY <1>7, <4>2 DEF RowsOK, RemotePurge, history
      <4> QED
        BY <4>2, <4>3 DEF Kept
    <3>2. CASE ~ (m \in MailOf(box) /\ m \notin MailOf(box'))
      BY <1>7, <2>3, <3>2 DEF Kept, RemotePurge, history
    <3> QED
      BY <3>1, <3>2
  <2> QED
    BY <1>7, <2>1, <2>2, <2>3 DEF RowsOK, RemotePurge
<1>8. ASSUME Crash PROVE Good
  <2>1. \A c \in Conn : MailOf(batch'[c]) = {}
    BY <1>8 DEF Crash, MailOf
  <2> QED
    BY <1>8, <2>1 DEF Crash, RowsOK, Kept, db, history
<1>9. ASSUME Restart PROVE Good
  BY <1>9, RowsQuiet DEF Restart, db, history
<1>10. ASSUME UNCHANGED vars PROVE Good
  BY <1>10, RowsQuiet DEF vars, db, history
<1> QED
  BY <1>1, <1>2, <1>3, <1>4, <1>5, <1>6, <1>7, <1>8, <1>9, <1>10 DEF Next

(* What the requests under way have stored is kept.                         *)
SavedKept == \A r \in Req : \A m \in saved[r] : Kept(m)

KeptInv == RowsOK /\ AnsweredKept /\ SavedKept

LEMMA KeptInit == Init => KeptInv
  BY DEF Init, KeptInv, RowsOK, AnsweredKept, SavedKept, MailOf

(* Steps in which no request stores anything.                               *)
LEMMA SavedQuiet ==
  ASSUME TypeOK, KeptInv, [Next]_vars,
         \A r \in Req : saved'[r] \subseteq saved[r],
         \A m \in answered' \ answered : \E r \in Req : m \in saved[r]
  PROVE  KeptInv'
<1>1. RowsOK' /\ \A m \in Mail : Kept(m) => Kept(m)'
  BY RowsStep DEF KeptInv
<1>2. \A m \in answered' : m \in Mail /\ Kept(m)
  BY DEF KeptInv, AnsweredKept, SavedKept, TypeOK
<1>3. \A r \in Req : \A m \in saved'[r] : m \in Mail /\ Kept(m)
  BY DEF KeptInv, SavedKept, TypeOK
<1> QED
  BY <1>1, <1>2, <1>3 DEF KeptInv, AnsweredKept, SavedKept

(* Steps that do not touch what requests have stored, or forget it.         *)
LEMMA SavedReturn ==
  ASSUME TypeOK, NEW r \in Req, Return(r)
  PROVE  \A q \in Req : saved'[q] \subseteq saved[q]
  BY DEF TypeOK, Return

LEMMA SavedStore ==
  ASSUME TypeOK, KeptInv, [Next]_vars, NEW r \in Req, NEW m \in Mail,
         Store(r, m) \/ StoreFails, UNCHANGED <<batch, taken, answered>>
  PROVE  KeptInv'
<1>1. CASE StoreFails
  BY <1>1, SavedQuiet DEF StoreFails
<1>2. CASE Store(r, m)
  <2>1. RowsOK' /\ Kept(m)' /\ \A n \in Mail : Kept(n) => Kept(n)'
    BY <1>2, RowsStore DEF KeptInv
  <2>2. AnsweredKept'
    BY <2>1 DEF KeptInv, AnsweredKept, TypeOK
  <2>3. \A q \in Req : \A n \in saved'[q] : n = m \/ (n \in Mail /\ Kept(n))
    BY <1>2 DEF KeptInv, SavedKept, TypeOK, Store
  <2>4. SavedKept'
    BY <2>1, <2>3 DEF SavedKept
  <2> QED
    BY <2>1, <2>2, <2>4 DEF KeptInv
<1> QED
  BY <1>1, <1>2

LEMMA KeptStep == TypeOK /\ KeptInv /\ [Next]_vars => KeptInv'
<1> SUFFICES ASSUME TypeOK, KeptInv, [Next]_vars PROVE KeptInv'
  OBVIOUS
<1>1. ASSUME NEW r \in Req, NEW m \in Mail, PostToEcho(r, m) PROVE KeptInv'
  BY <1>1, SavedStore DEF PostToEcho
<1>2. ASSUME NEW r \in Req, StoreForRelay(r) PROVE KeptInv'
  <2>1. mail[r] \in Mail
    BY <1>2 DEF StoreForRelay, TypeOK
  <2> QED
    BY <1>2, <2>1, SavedStore DEF StoreForRelay, history
<1>3. ASSUME NEW r \in Req, ImportNext(r) PROVE KeptInv'
  <2>1. PICK m \in left[r] : Store(r, m) \/ StoreFails
    BY <1>3 DEF ImportNext
  <2>2. m \in Mail
    BY DEF TypeOK
  <2> QED
    BY <1>3, <2>1, <2>2, SavedStore DEF ImportNext, history
<1>4. ASSUME NEW r \in Req,
             AddPeer(r) \/ SendMessage(r) \/ CountPost(r) \/ ReplyStored(r)
               \/ ImportDone(r)
      PROVE  KeptInv'
  <2>1. Return(r) /\ answered' \ answered \subseteq saved[r]
    BY <1>4 DEF AddPeer, SendMessage, CountPost, ReplyStored, ImportDone, history
  <2> QED
    BY <2>1, SavedReturn, SavedQuiet
<1>5. CASE UNCHANGED <<saved, answered>>
  BY <1>5, SavedQuiet
<1>6. CASE Crash
  BY <1>6, SavedQuiet DEF Crash, history
<1>7. \/ \E r \in Req, m \in Mail : PostToEcho(r, m)
      \/ \E r \in Req : StoreForRelay(r) \/ ImportNext(r)
      \/ \E r \in Req : AddPeer(r) \/ SendMessage(r) \/ CountPost(r)
                           \/ ReplyStored(r) \/ ImportDone(r)
      \/ UNCHANGED <<saved, answered>>
      \/ Crash
  BY DEF Next, Asked, Handles, HandlePeers, HandleMsg, HandleImport, FindHost,
         UpdatePeerTCP, Subscribe, Export, RemoteFetch, RemotePurge, Restart,
         vars, request, history
<1> QED
  BY <1>1, <1>2, <1>3, <1>4, <1>5, <1>6, <1>7

(* What the API has confirmed is in the bucket until somebody fetches it.   *)
THEOREM ConfirmedIsKept == Spec => []AnsweredKept
<1>1. KeptInv => AnsweredKept
  BY DEF KeptInv
<1> QED
  BY <1>1, InitType, StepType, KeptInit, KeptStep, PTL DEF Spec

-------------------------------------------------------------------------------
(***************************************************************************)
(* Refinement.  KeptInv says what a mailbox asks of a promise: what is     *)
(* confirmed is what the request has stored, and that is kept.             *)
(***************************************************************************)
LEMMA StoreTakes ==
  ASSUME TypeOK, RowsOK, NEW r \in Req, NEW m \in Mail,
         Store(r, m) \/ StoreFails, UNCHANGED <<taken, answered>>
  PROVE  [Relay!Next]_(Relay!mailbox)
<1>1. CASE StoreFails
  BY <1>1 DEF StoreFails, Relay!mailbox
<1>2. CASE Store(r, m)
  <2> DEFINE new == [mail |-> m, stamp |-> clock + 1]
  <2>1. box' = box \cup {new}
    BY <1>2, NewStampAdds DEF TypeOK, RowsOK, Store
  <2>2. new.mail = m
    OBVIOUS
  <2>3. MailOf(box') = MailOf(box) \cup {m}
    BY <2>1, <2>2 DEF MailOf
  <2>4. Relay!Take(m)
    BY <2>3 DEF Relay!Take
  <2> QED
    BY <2>4 DEF Relay!Next
<1> QED
  BY <1>1, <1>2

LEMMA AnswerPromises ==
  ASSUME UniqueIds, TypeOK, KeptInv, NEW r \in Req,
         answered' = answered \cup saved[r], UNCHANGED <<box, taken>>
  PROVE  [Relay!Next]_(Relay!mailbox)
<1>1. saved[r] \in SUBSET Mail /\ taken \subseteq Mail
  BY DEF TypeOK
<1>2. \A m \in saved[r] : m \in MailOf(box) \/ m \in taken
  BY <1>1 DEF KeptInv, SavedKept, Kept, UniqueIds
<1>3. Relay!Promise(saved[r])
  BY <1>2 DEF Relay!Promise
<1> QED
  BY <1>1, <1>3 DEF Relay!Next

LEMMA FetchOffers ==
  ASSUME PrefixFree, TypeOK, NEW c \in Conn, NEW a \in Address,
         RemoteFetch(c, a)
  PROVE  [Relay!Next]_(Relay!mailbox)
<1>1. \A q \in box : <<a, To[q.mail]>> \in PrefixOf <=> To[q.mail] = a
  BY MailAssumption DEF TypeOK, Row, PrefixFree
<1>2. FetchMessagesForRelay(box, a) = {q \in box : To[q.mail] = a}
  BY <1>1 DEF FetchMessagesForRelay
<1>3. MailOf(FetchMessagesForRelay(box, a)) = {m \in MailOf(box) : To[m] = a}
  BY <1>2 DEF MailOf
<1>4. taken' = taken \cup {m \in MailOf(box) : To[m] = a}
  BY <1>3 DEF RemoteFetch
<1>5. box' = box /\ answered' = answered
  BY DEF RemoteFetch, db
<1>6. Relay!Offer(a)
  BY <1>4, <1>5 DEF Relay!Offer
<1> QED
  BY <1>6 DEF Relay!Next

LEMMA PurgeDiscards ==
  ASSUME UniqueIds, TypeOK, RowsOK, NEW c \in Conn, RemotePurge(c)
  PROVE  [Relay!Next]_(Relay!mailbox)
<1>1. UNCHANGED <<answered, taken>>
  BY DEF RemotePurge, history
<1>2. CASE box' = box
  BY <1>1, <1>2 DEF Relay!mailbox
<1>3. CASE box' = DeleteMessagesForRelay(box, batch[c])
  <2>1. MailOf(box') \subseteq MailOf(box)
    BY <1>3 DEF DeleteMessagesForRelay, MailOf
  <2>2. ASSUME NEW m \in MailOf(box), m \notin MailOf(box')
        PROVE  m \in taken
    <3>1. PICK n \in MailOf(batch[c]) : Id[n] = Id[m]
      BY <1>3, <2>2, DeletedById DEF TypeOK
    <3>2. m \in Mail /\ n \in Mail
      BY DEF TypeOK, MailOf, Row
    <3> QED
      BY <3>1, <3>2 DEF UniqueIds, RowsOK
  <2>3. Relay!Discard
    BY <1>1, <2>1, <2>2 DEF Relay!Discard
  <2> QED
    BY <2>3 DEF Relay!Next
<1> QED
  BY <1>2, <1>3 DEF RemotePurge

LEMMA StepRefines ==
  ASSUME UniqueIds, PrefixFree, TypeOK, KeptInv, [Next]_vars
  PROVE  [Relay!Next]_(Relay!mailbox)
<1>0. RowsOK
  BY DEF KeptInv
<1>1. ASSUME NEW r \in Req, NEW m \in Mail, PostToEcho(r, m)
      PROVE  [Relay!Next]_(Relay!mailbox)
  BY <1>0, <1>1, StoreTakes DEF PostToEcho
<1>2. ASSUME NEW r \in Req, StoreForRelay(r)
      PROVE  [Relay!Next]_(Relay!mailbox)
  <2>1. mail[r] \in Mail
    BY <1>2 DEF StoreForRelay, TypeOK
  <2> QED
    BY <1>0, <1>2, <2>1, StoreTakes DEF StoreForRelay, history
<1>3. ASSUME NEW r \in Req, ImportNext(r)
      PROVE  [Relay!Next]_(Relay!mailbox)
  <2>1. PICK m \in left[r] : Store(r, m) \/ StoreFails
    BY <1>3 DEF ImportNext
  <2>2. m \in Mail
    BY DEF TypeOK
  <2> QED
    BY <1>0, <1>3, <2>1, <2>2, StoreTakes DEF ImportNext, history
<1>4. ASSUME UNCHANGED <<box, taken, answered>>
      PROVE  [Relay!Next]_(Relay!mailbox)
  BY <1>4 DEF Relay!mailbox
<1>5. ASSUME NEW r \in Req, CountPost(r) \/ ReplyStored(r) \/ ImportDone(r)
      PROVE  [Relay!Next]_(Relay!mailbox)
  <2>1. /\ UNCHANGED <<box, taken>>
        /\ answered' = answered \cup saved[r] \/ UNCHANGED answered
    BY <1>5 DEF CountPost, ReplyStored, ImportDone, db
  <2> QED
    BY <1>4, <2>1, AnswerPromises
<1>6. \/ \E r \in Req, m \in Mail : PostToEcho(r, m)
      \/ \E r \in Req : StoreForRelay(r) \/ ImportNext(r)
      \/ \E r \in Req : CountPost(r) \/ ReplyStored(r) \/ ImportDone(r)
      \/ \E c \in Conn, a \in Address : RemoteFetch(c, a)
      \/ \E c \in Conn : RemotePurge(c)
      \/ UNCHANGED <<box, taken, answered>>
  BY DEF Next, Asked, Handles, HandlePeers, HandleMsg, HandleImport, AddPeer,
         FindHost, UpdatePeerTCP, SendMessage, Subscribe, Export, Crash, Restart,
         vars, db, history
<1> QED
  BY <1>0, <1>1, <1>2, <1>3, <1>4, <1>5, <1>6, FetchOffers, PurgeDiscards

(* With unique IDs and prefix-free addresses the HTTP API and the BoomEx    *)
(* server of a node are one mailbox, whatever requests, failing             *)
(* transactions, imports, exports and crashes come in between.              *)
THEOREM ApiImplementsMailbox ==
  ASSUME UniqueIds, PrefixFree
  PROVE  Spec => ApiIsMailbox
<1>1. Init => Relay!Init
  BY DEF Init, Relay!Init, MailOf
<1>2. TypeOK /\ KeptInv /\ [Next]_vars => [Relay!Next]_(Relay!mailbox)
  BY StepRefines
<1> QED
  BY <1>1, <1>2, InitType, StepType, KeptInit, KeptStep, PTL
  DEF Spec, ApiIsMailbox, Relay!Spec

-------------------------------------------------------------------------------
(***************************************************************************)
(* Areas and peers: only three actions write these buckets.                *)
(***************************************************************************)
LEMMA AreaCount ==
  ASSUME TypeOK, NEW b \in Area, areas[b] # None,
         areas' = [areas EXCEPT ![b].messages = @ + 1]
  PROVE  AreaStep
<1> SUFFICES ASSUME NEW a \in Area, areas[a] # None
    PROVE  /\ areas'[a] # None
           /\ areas'[a].moderator = areas[a].moderator
           /\ areas'[a].messages >= areas[a].messages
  BY DEF AreaStep
<1>1. areas[a] \in EchoArea /\ areas[a].messages \in Nat
  BY DEF TypeOK, EchoArea
<1>2. CASE a # b
  BY <1>1, <1>2 DEF TypeOK
<1>3. CASE a = b
  <2>1. areas'[a] = [areas[a] EXCEPT !.messages = @ + 1]
    BY <1>3 DEF TypeOK
  <2>2. areas'[a] \in EchoArea
    BY <1>1, <2>1 DEF EchoArea
  <2> QED
    BY <1>1, <2>1, <2>2, ApiAssumption DEF EchoArea
<1> QED
  BY <1>2, <1>3

LEMMA StepAreas == TypeOK /\ [Next]_vars => AreaStep
<1> SUFFICES ASSUME TypeOK, [Next]_vars PROVE AreaStep
  OBVIOUS
<1>1. CASE areas' = areas
  <2>1. \A a \in Area : areas[a] # None => areas[a].messages \in Nat
    BY DEF TypeOK, EchoArea
  <2> QED
    BY <1>1, <2>1 DEF AreaStep
<1>2. ASSUME NEW b \in Area, Subscribe(b) PROVE AreaStep
  <2>1. \A a \in Area : areas[a] # None =>
          areas'[a] = areas[a] /\ areas[a].messages \in Nat
    BY <1>2 DEF Subscribe, TypeOK, EchoArea
  <2> QED
    BY <2>1 DEF AreaStep
<1>3. ASSUME NEW r \in Req, CountPost(r), areas' # areas PROVE AreaStep
  <2>1. To[mail[r]] \in Area
    BY <1>3 DEF CountPost, TypeOK
  <2> QED
    BY <1>3, <2>1, AreaCount DEF CountPost
<1>4. \/ areas' = areas
      \/ \E b \in Area : Subscribe(b)
      \/ \E r \in Req : CountPost(r)
  BY DEF Next, Asked, Handles, HandlePeers, HandleMsg, PostToEcho, HandleImport,
         AddPeer, FindHost, UpdatePeerTCP, StoreForRelay, ReplyStored, ImportNext,
         ImportDone, SendMessage, Export, RemoteFetch, RemotePurge, Crash, Restart, vars, db
<1> QED
  BY <1>1, <1>2, <1>3, <1>4

(* An area stays with its moderator, and its counter never falls.           *)
THEOREM AreasAreKept == Spec => AreasKept
  BY InitType, StepType, StepAreas, PTL DEF Spec, AreasKept

LEMMA StepPeers == TypeOK /\ [Next]_vars => PeerStep
<1> SUFFICES ASSUME TypeOK, [Next]_vars PROVE PeerStep
  OBVIOUS
<1>1. CASE book' = book
  BY <1>1 DEF PeerStep
<1>2. ASSUME NEW r \in Req, AddPeer(r) PROVE PeerStep
  BY <1>2, ApiAssumption DEF AddPeer, PeerStep, TypeOK
<1>3. ASSUME NEW r \in Req, UpdatePeerTCP(r) PROVE PeerStep
  BY <1>3, ApiAssumption DEF UpdatePeerTCP, PeerStep, TypeOK
<1>4. \/ book' = book
      \/ \E r \in Req : AddPeer(r)
      \/ \E r \in Req : UpdatePeerTCP(r)
  BY DEF Next, Asked, Handles, HandlePeers, HandleMsg, PostToEcho, HandleImport,
         FindHost, StoreForRelay, ReplyStored, CountPost, Subscribe, ImportNext, ImportDone,
         SendMessage, Export, RemoteFetch, RemotePurge, Crash, Restart, vars, db
<1> QED
  BY <1>1, <1>2, <1>3, <1>4

(* A peer stays in the book, and one that was located stays located.        *)
THEOREM PeersAreKept == Spec => PeersKept
  BY InitType, StepType, StepPeers, PTL DEF Spec, PeersKept
================================================================================
