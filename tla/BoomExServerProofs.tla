-------------------------- MODULE BoomExServerProofs --------------------------
(***************************************************************************)
(* Theorems about BoomExServer, for every value of its constants: any      *)
(* number of connections, messages and addresses, IDs and address prefixes *)
(* shared or not.                                                          *)
(***************************************************************************)
EXTENDS BoomExServer, MailBucketProofs, SequenceTheorems, FiniteSetTheorems,
        TLAPS

(* What a frame refers to depends on its type.                              *)
LEMMA RefType ==
  ASSUME TypeOK, NEW c \in Conn, toSrv[c] # <<>>
  PROVE  /\ Head(toSrv[c]) \in Request
         /\ Head(toSrv[c]).type = "MSG" => Ref(c) \in Mail
         /\ Head(toSrv[c]).type = "FETCH" => Ref(c) \in Address
<1>1. toSrv[c] \in Seq(Request)
  BY DEF TypeOK
<1>2. Head(toSrv[c]) \in Request
  BY <1>1, HeadTailProperties
<1> QED
  BY <1>2 DEF Request, Ref

(* Reading a frame keeps the queue well typed.                              *)
LEMMA ConsumeType ==
  ASSUME TypeOK, NEW c \in Conn, toSrv[c] # <<>>, Consume(c)
  PROVE  toSrv' \in [Conn -> Seq(Request)]
<1>1. toSrv[c] \in Seq(Request)
  BY DEF TypeOK
<1>2. Tail(toSrv[c]) \in Seq(Request)
  BY <1>1, HeadTailProperties
<1> QED
  BY <1>2 DEF TypeOK, Consume

(* So does answering one.                                                   *)
LEMMA ReplyType ==
  ASSUME TypeOK, NEW c \in Conn,
         NEW kind \in {"HELO", "ACK", "MAIL"} \cup Note,
         NEW m \in Mail \cup {None}, Reply(c, kind, m)
  PROVE  toCli' \in [Conn -> Seq(Response)]
<1>1. [kind |-> kind, mail |-> m] \in Response
  BY DEF Response
<1>2. toCli[c] \in Seq(Response)
  BY DEF TypeOK
<1>3. Append(toCli[c], [kind |-> kind, mail |-> m]) \in Seq(Response)
  BY <1>1, <1>2, AppendProperties
<1> QED
  BY <1>3 DEF TypeOK, Reply

LEMMA StoreType ==
  ASSUME TypeOK, NEW m \in Mail
  PROVE  /\ StoreMessageForRelay(box, m, clock + 1) \subseteq Row
         /\ clock + 1 \in Nat
  BY DEF TypeOK, StoreMessageForRelay, Row

(* A goroutine that is about to acknowledge a message, or to hand it to the *)
(* handler, has one; only mail for the node itself goes to the handler; a   *)
(* goroutine has a connection that it has not closed.                       *)
SessionOK ==
  \A c \in Conn :
    /\ phase[c] # "free" => link[c] \in {"up", "cut"}
    /\ phase[c] \in {"handler", "ack"} => cur[c] \in Mail
    /\ phase[c] = "handler" => To[cur[c]] = Me

LEMMA InitType == Init => TypeOK /\ SessionOK
  BY DEF Init, TypeOK, SessionOK

(* Any request, whoever sends it.                                           *)
LEMMA FrameType ==
  ASSUME TypeOK, SessionOK, NEW c \in Conn, NEW q \in Request,
         SendsFrame(c, q)
  PROVE  TypeOK' /\ SessionOK'
<1>1. Append(toSrv[c], q) \in Seq(Request)
  BY AppendProperties DEF TypeOK
<1>2. toSrv' = [toSrv EXCEPT ![c] = Append(@, q)] /\ sends' \in Nat
  BY DEF SendsFrame, TypeOK
<1> QED
  BY <1>1, <1>2 DEF TypeOK, SessionOK, SendsFrame, store, session, history

LEMMA StepType ==
  ASSUME TypeOK, SessionOK, [Next]_vars
  PROVE  TypeOK' /\ SessionOK'
<1> USE MailAssumption, ServerAssumption
<1>1. ASSUME NEW c \in Conn, Accept(c) PROVE TypeOK' /\ SessionOK'
  BY <1>1 DEF TypeOK, SessionOK, Accept, Goto, store, history
<1>2. ASSUME NEW c \in Conn, AnswerHelo(c) PROVE TypeOK' /\ SessionOK'
  <2>1. toSrv' \in [Conn -> Seq(Request)]
    BY <1>2, ConsumeType DEF AnswerHelo, Incoming
  <2>2. toCli' \in [Conn -> Seq(Response)]
    BY <1>2, ReplyType DEF AnswerHelo
  <2> QED
    BY <1>2, <2>1, <2>2
    DEF TypeOK, SessionOK, AnswerHelo, Incoming, Goto, store, history
<1>3. ASSUME NEW c \in Conn, EndSession(c), UNCHANGED <<up, store, history>>
      PROVE  TypeOK' /\ SessionOK'
  <2>1. <<>> \in Seq(Request)
    OBVIOUS
  <2> QED
    BY <1>3, <2>1 DEF TypeOK, SessionOK, EndSession, store, history
<1>4. ASSUME NEW c \in Conn, AckDirect(c) PROVE TypeOK' /\ SessionOK'
  <2>1. toSrv' \in [Conn -> Seq(Request)]
    BY <1>4, ConsumeType DEF AckDirect, Incoming
  <2>2. Ref(c) \in Mail
    BY <1>4, RefType DEF AckDirect, Incoming
  <2>3. toCli' \in [Conn -> Seq(Response)]
    BY <1>4, <2>2, ReplyType DEF AckDirect
  <2> QED
    BY <1>4, <2>1, <2>2, <2>3
    DEF TypeOK, SessionOK, AckDirect, Incoming, Goto, store, history
<1>5. ASSUME NEW c \in Conn, CallHandler(c) PROVE TypeOK' /\ SessionOK'
  <2>1. UNCHANGED <<box, clock>>
    BY <1>5 DEF CallHandler, SessionOK
  <2> QED
    BY <1>5, <2>1 DEF TypeOK, SessionOK, CallHandler, Goto, net, history
<1>6. ASSUME NEW c \in Conn, StoreForRelay(c) PROVE TypeOK' /\ SessionOK'
  <2>1. toSrv' \in [Conn -> Seq(Request)]
    BY <1>6, ConsumeType DEF StoreForRelay, ForOthers, Incoming
  <2>2. Ref(c) \in Mail
    BY <1>6, RefType DEF StoreForRelay, ForOthers, Incoming
  <2>3. box' \subseteq Row /\ clock' \in Nat
    BY <1>6, <2>2, StoreType DEF StoreForRelay
  <2> QED
    BY <1>6, <2>1, <2>2, <2>3
    DEF TypeOK, SessionOK, StoreForRelay, ForOthers, Incoming, Goto, history
<1>7. ASSUME NEW c \in Conn, AckRelay(c) PROVE TypeOK' /\ SessionOK'
  <2>1. cur[c] \in Mail
    BY <1>7 DEF AckRelay, SessionOK
  <2>2. toCli' \in [Conn -> Seq(Response)]
    BY <1>7, <2>1, ReplyType DEF AckRelay
  <2> QED
    BY <1>7, <2>1, <2>2 DEF TypeOK, SessionOK, AckRelay, Goto, store
<1>8. ASSUME NEW c \in Conn, RefuseRelay(c) PROVE TypeOK' /\ SessionOK'
  <2>1. toSrv' \in [Conn -> Seq(Request)]
    BY <1>8, ConsumeType DEF RefuseRelay, ForOthers, Incoming
  <2>2. Ref(c) \in Mail
    BY <1>8, RefType DEF RefuseRelay, ForOthers, Incoming
  <2>3. toCli' \in [Conn -> Seq(Response)]
    BY <1>8, <2>2, ReplyType DEF RefuseRelay, Note
  <2> QED
    BY <1>8, <2>1, <2>3 DEF TypeOK, SessionOK, RefuseRelay, store, session, history
<1>9. ASSUME NEW c \in Conn, FetchNothing(c) PROVE TypeOK' /\ SessionOK'
  <2>1. toSrv' \in [Conn -> Seq(Request)]
    BY <1>9, ConsumeType DEF FetchNothing, Incoming
  <2>2. toCli' \in [Conn -> Seq(Response)]
    BY <1>9, ReplyType DEF FetchNothing, Note
  <2> QED
    BY <1>9, <2>1, <2>2 DEF TypeOK, SessionOK, FetchNothing, store, session, history
<1>10. ASSUME NEW c \in Conn, FetchBatch(c) PROVE TypeOK' /\ SessionOK'
  <2>1. toSrv' \in [Conn -> Seq(Request)]
    BY <1>10, ConsumeType DEF FetchBatch, Incoming
  <2>2. Ref(c) \in Address
    BY <1>10, RefType DEF FetchBatch, Incoming
  <2>3. Found(c) \subseteq Row
    BY DEF Found, FetchMessagesForRelay, TypeOK
  <2>4. MailOf(Found(c)) \subseteq Mail
    BY <2>3 DEF MailOf, Row
  <2>5. offered' \subseteq Mail \X Address
    BY <1>10, <2>2, <2>4 DEF FetchBatch, TypeOK
  <2>6. /\ batch' \in [Conn -> SUBSET Row]
        /\ unsent' \in [Conn -> SUBSET Row]
    BY <1>10, <2>3 DEF FetchBatch, TypeOK
  <2> QED
    BY <1>10, <2>1, <2>5, <2>6
    DEF TypeOK, SessionOK, FetchBatch, Incoming, Goto, store
<1>11. ASSUME NEW c \in Conn, Deliver(c) PROVE TypeOK' /\ SessionOK'
  <2>1. PICK r \in FirstOf(unsent[c]) :
          /\ Reply(c, Subject[r.mail], r.mail)
          /\ sent' = sent \cup {r.mail}
          /\ unsent' = [unsent EXCEPT ![c] = @ \ {r}]
          /\ Goto(c, IF unsent[c] = {r} THEN "purge" ELSE "batch")
    BY <1>11 DEF Deliver
  <2>2. r.mail \in Mail
    BY DEF FirstOf, TypeOK, Row
  <2>3. toCli' \in [Conn -> Seq(Response)]
    <3>1. Subject[r.mail] \in {"HELO", "ACK", "MAIL"} \cup Note
      BY <2>2, ServerAssumption
    <3> QED
      BY <2>1, <2>2, <3>1, ReplyType
  <2>4. unsent' \in [Conn -> SUBSET Row]
    BY <2>1 DEF TypeOK
  <2>5. sent' \subseteq Mail
    BY <2>1, <2>2 DEF TypeOK
  <2> QED
    BY <1>11, <2>1, <2>3, <2>4, <2>5 DEF TypeOK, SessionOK, Deliver, Goto, store
<1>12. ASSUME NEW c \in Conn, SendFails(c) PROVE TypeOK' /\ SessionOK'
  <2>1. MailOf(unsent[c]) \subseteq Mail
    BY DEF MailOf, TypeOK, Row
  <2> QED
    BY <1>12, <2>1 DEF TypeOK, SessionOK, SendFails, Goto, store, net
<1>13. ASSUME NEW c \in Conn, Purge(c) PROVE TypeOK' /\ SessionOK'
  <2>1. box' \subseteq Row
    BY <1>13 DEF Purge, DeleteMessagesForRelay, TypeOK
  <2> QED
    BY <1>13, <2>1 DEF TypeOK, SessionOK, Purge, Goto, net, history
<1>14. ASSUME NEW c \in Conn, Ignore(c) PROVE TypeOK' /\ SessionOK'
  <2>1. toSrv' \in [Conn -> Seq(Request)]
    BY <1>14, ConsumeType DEF Ignore, Incoming
  <2> QED
    BY <1>14, <2>1 DEF TypeOK, SessionOK, Ignore, store, session, history
<1>15. ASSUME NEW m \in Mail, Deposit(m) PROVE TypeOK' /\ SessionOK'
  <2>1. box' \subseteq Row /\ clock' \in Nat
    BY <1>15, StoreType DEF Deposit
  <2> QED
    BY <1>15, <2>1 DEF TypeOK, SessionOK, Deposit, session, history
<1>16. ASSUME Crash PROVE TypeOK' /\ SessionOK'
  <2>1. <<>> \in Seq(Request)
    OBVIOUS
  <2>2. link' \in [Conn -> {"none", "up", "cut", "closed"}]
    BY <1>16 DEF Crash, TypeOK
  <2> QED
    BY <1>16, <2>1, <2>2 DEF TypeOK, SessionOK, Crash, store, history
<1>17. ASSUME Restart PROVE TypeOK' /\ SessionOK'
  BY <1>17 DEF TypeOK, SessionOK, Restart, session, net, history
<1>18. ASSUME NEW c \in Conn, PeerSends(c) PROVE TypeOK' /\ SessionOK'
  BY <1>18, FrameType DEF PeerSends
<1>19. ASSUME NEW c \in Conn, PeerReads(c) PROVE TypeOK' /\ SessionOK'
  <2>1. toCli[c] \in Seq(Response)
    BY DEF TypeOK
  <2>2. Tail(toCli[c]) \in Seq(Response)
    BY <1>19, <2>1, HeadTailProperties DEF PeerReads
  <2> QED
    BY <1>19, <2>2 DEF TypeOK, SessionOK, PeerReads, store, session, history
<1>20. ASSUME NEW c \in Conn, PeerGone(c) PROVE TypeOK' /\ SessionOK'
  <2>1. PICK n \in 0..Len(toSrv[c]) :
          toSrv' = [toSrv EXCEPT ![c] = SubSeq(@, 1, n)]
    BY <1>20 DEF PeerGone
  <2>2. toSrv[c] \in Seq(Request)
    BY DEF TypeOK
  <2>3. SubSeq(toSrv[c], 1, n) \in Seq(Request)
    BY <2>2, SubSeqProperties
  <2>4. <<>> \in Seq(Response)
    OBVIOUS
  <2> QED
    BY <1>20, <2>1, <2>3, <2>4
    DEF TypeOK, SessionOK, PeerGone, store, session, history
<1>21. CASE UNCHANGED vars
  BY <1>21 DEF TypeOK, SessionOK, vars, store, session, net, history
<1>22. ASSUME NEW c \in Conn, RefuseHelo(c) \/ ReceiveFails(c) \/ Bye(c)
       PROVE  TypeOK' /\ SessionOK'
  BY <1>3, <1>22 DEF RefuseHelo, ReceiveFails, Bye
<1> QED
  BY <1>1, <1>2, <1>4, <1>5, <1>6, <1>7, <1>8, <1>9, <1>10, <1>11, <1>12,
     <1>13, <1>14, <1>15, <1>16, <1>17, <1>18, <1>19, <1>20, <1>21, <1>22
  DEF Next, ServerStep, PeerStep

(* No step leaves the types: the struct fields, the frames of a queue and   *)
(* the rows of the bucket are what the declarations of boomex.go say.       *)
THEOREM TypeCorrect == Spec => []TypeOK
  BY InitType, StepType, PTL DEF Spec

-------------------------------------------------------------------------------
(***************************************************************************)
(* Conservation.  MailConserved is not inductive: that a DELETE only takes *)
(* what was handed out needs to know what happened to the batch between    *)
(* the two transactions of a FETCH, and that a store overwrites nothing    *)
(* needs that no row is as new as the one being written.                   *)
(***************************************************************************)

(* What has left the batch of a FETCH: sent, or given up.                   *)
Parted == sent \cup skipped

LEMMA CoveredSays ==
  ASSUME NEW m
  PROVE  /\ Covered(m) <=> Stored(m) \/ \E n \in Parted : Id[n] = Id[m]
         /\ Covered(m)' <=> Stored(m)' \/ \E n \in Parted' : Id[n] = Id[m]
  BY DEF Covered, HandedOn, Lost, Parted

(* What a goroutine is about to acknowledge has been stored.                *)
AckCovered == \A c \in Conn : phase[c] = "ack" => Covered(cur[c])

(* What is left of a batch is still to be sent, and a goroutine sends as    *)
(* long as something is left.                                               *)
BatchCovered ==
  \A c \in Conn :
    /\ phase[c] = "batch" <=> unsent[c] # {}
    /\ \A r \in batch[c] \ unsent[c] : r.mail \in Parted

(* Every row is at least as old as the last one written.                    *)
RowsOld == \A r \in box : r.stamp <= clock

ConservedInv ==
  TypeOK /\ SessionOK /\ RowsOld /\ AckCovered /\ BatchCovered /\ MailConserved

(* So a store only adds a row.                                              *)
LEMMA StoreAdds ==
  ASSUME TypeOK, RowsOld, NEW m \in Mail
  PROVE  StoreMessageForRelay(box, m, clock + 1) =
           box \cup {[mail |-> m, stamp |-> clock + 1]}
  BY NewStampAdds DEF TypeOK, RowsOld

(* A message stays covered when rows are only added.                        *)
LEMMA CoverKept ==
  ASSUME NEW m, Covered(m), box \subseteq box',
         Parted \subseteq Parted'
  PROVE  Covered(m)'
  BY CoveredSays DEF Stored, MailOf

LEMMA StoredCovered ==
  ASSUME NEW m, NEW n, box' = box \cup {[mail |-> m, stamp |-> n]}
  PROVE  Covered(m)'
<1>1. [mail |-> m, stamp |-> n].mail = m
  OBVIOUS
<1> QED
  BY <1>1 DEF Covered, Stored, MailOf

(* Most steps leave the rows and the history alone and at most empty a      *)
(* batch.                                                                   *)
QuietFor(c) ==
  /\ <<batch'[c], unsent'[c]>> \in {<<batch[c], unsent[c]>>, <<{}, {}>>}
  /\ phase'[c] = "ack" => phase[c] = "ack" /\ cur'[c] = cur[c]
  /\ phase'[c] = "batch" <=> unsent'[c] # {}

LEMMA QuietStep ==
  ASSUME ConservedInv, TypeOK', SessionOK', UNCHANGED <<box, clock, history>>,
         \A c \in Conn : QuietFor(c)
  PROVE  ConservedInv'
<1>1. \A m : Covered(m) => Covered(m)'
  BY CoverKept DEF history, Parted
<1>2. RowsOld'
  BY DEF ConservedInv, RowsOld
<1>3. AckCovered'
  BY <1>1 DEF ConservedInv, AckCovered, QuietFor
<1>4. BatchCovered'
  BY DEF ConservedInv, BatchCovered, Parted, QuietFor, history
<1>5. MailConserved'
  BY <1>1 DEF ConservedInv, MailConserved, history
<1> QED
  BY <1>2, <1>3, <1>4, <1>5 DEF ConservedInv

(* The steps that are quiet.                                                *)
LEMMA QuietSteps ==
  ASSUME ConservedInv, NEW c \in Conn,
         \/ Accept(c) \/ AnswerHelo(c) \/ RefuseHelo(c) \/ ReceiveFails(c)
         \/ AckDirect(c) \/ CallHandler(c) \/ RefuseRelay(c) \/ FetchNothing(c)
         \/ Bye(c) \/ Ignore(c) \/ PeerStep(c) \/ Crash \/ Restart
         \/ UNCHANGED vars \/ \E q \in Request : SendsFrame(c, q)
  PROVE  UNCHANGED <<box, clock, history>> /\ \A d \in Conn : QuietFor(d)
<1> USE DEF ConservedInv, BatchCovered, QuietFor, TypeOK, Goto, store, session,
            net, history
<1>1. CASE Accept(c)
  BY <1>1 DEF Accept, SessionOK
<1>2. CASE AnswerHelo(c)
  BY <1>2 DEF AnswerHelo, Incoming
<1>3. CASE RefuseHelo(c)
  BY <1>3 DEF RefuseHelo, Incoming, EndSession
<1>4. CASE ReceiveFails(c)
  BY <1>4 DEF ReceiveFails, EndSession
<1>5. CASE AckDirect(c)
  BY <1>5 DEF AckDirect, Incoming
<1>6. CASE CallHandler(c)
  BY <1>6 DEF CallHandler, SessionOK
<1>7. CASE RefuseRelay(c)
  BY <1>7 DEF RefuseRelay
<1>8. CASE FetchNothing(c)
  BY <1>8 DEF FetchNothing
<1>9. CASE Bye(c)
  BY <1>9 DEF Bye, Incoming, EndSession
<1>10. CASE Ignore(c)
  BY <1>10 DEF Ignore
<1>11. CASE PeerStep(c)
  BY <1>11 DEF PeerStep, PeerSends, SendsFrame, PeerReads, PeerGone
<1>12. CASE Crash
  BY <1>12 DEF Crash
<1>13. CASE Restart
  BY <1>13 DEF Restart
<1>14. CASE UNCHANGED vars
  BY <1>14 DEF vars
<1>15. CASE \E q \in Request : SendsFrame(c, q)
  BY <1>15 DEF SendsFrame
<1> QED
  BY <1>1, <1>2, <1>3, <1>4, <1>5, <1>6, <1>7, <1>8, <1>9, <1>10, <1>11,
     <1>12, <1>13, <1>14, <1>15

LEMMA FrameConserved ==
  ASSUME ConservedInv, NEW c \in Conn, NEW q \in Request, SendsFrame(c, q)
  PROVE  ConservedInv'
<1>1. TypeOK' /\ SessionOK'
  BY FrameType DEF ConservedInv
<1> QED
  BY <1>1, QuietSteps, QuietStep

LEMMA InitConserved == Init => ConservedInv
  BY InitType DEF Init, ConservedInv, RowsOld, AckCovered, BatchCovered,
                  MailConserved

LEMMA StepConserved ==
  ASSUME ConservedInv, [Next]_vars
  PROVE  ConservedInv'
<1> USE DEF ConservedInv
<1>1. TypeOK' /\ SessionOK'
  BY StepType
(* A store adds a row; the message it stores is covered by it.              *)
<1>2. ASSUME NEW m \in Mail, UNCHANGED history,
             box' = StoreMessageForRelay(box, m, clock + 1),
             clock' = clock + 1
      PROVE  RowsOld' /\ MailConserved' /\ Covered(m)'
             /\ \A n : Covered(n) => Covered(n)'
  <2>1. box' = box \cup {[mail |-> m, stamp |-> clock + 1]}
    BY <1>2, StoreAdds
  <2>2. \A n : Covered(n) => Covered(n)'
    BY <2>1, <1>2, CoverKept DEF history, Parted
  <2>3. RowsOld'
    <3>1. ASSUME NEW r \in box' PROVE r.stamp <= clock'
      <4>1. CASE r \in box
        <5>1. r.stamp <= clock /\ r.stamp \in Nat /\ clock \in Nat
          BY <4>1 DEF RowsOld, TypeOK, Row
        <5> QED
          BY <5>1, <1>2
      <4>2. CASE r = [mail |-> m, stamp |-> clock + 1]
        BY <4>2, <1>2 DEF TypeOK
      <4> QED
        BY <2>1, <4>1, <4>2
    <3> QED
      BY <3>1 DEF RowsOld
  <2>4. MailConserved'
    BY <2>2, <1>2 DEF MailConserved, history
  <2> QED
    BY <2>1, <2>2, <2>3, <2>4, StoredCovered
<1>3. ASSUME NEW c \in Conn, StoreForRelay(c) PROVE ConservedInv'
  <2>1. Ref(c) \in Mail
    BY <1>3, RefType DEF StoreForRelay, ForOthers, Incoming
  <2> PICK m \in Mail : m = Ref(c)
    BY <2>1
  <2>2. /\ RowsOld' /\ MailConserved' /\ Covered(m)'
        /\ \A n : Covered(n) => Covered(n)'
    BY <1>2, <1>3 DEF StoreForRelay
  <2>3. \A d \in Conn : cur'[d] = IF d = c THEN m ELSE cur[d]
    BY <1>3 DEF StoreForRelay, TypeOK
  <2>4. AckCovered'
    BY <1>3, <2>2, <2>3 DEF StoreForRelay, Goto, TypeOK, AckCovered
  <2>5. BatchCovered'
    BY <1>3 DEF StoreForRelay, ForOthers, Incoming, Goto, TypeOK, BatchCovered,
                Parted, history
  <2> QED
    BY <1>1, <2>2, <2>4, <2>5
<1>4. ASSUME NEW m \in Mail, Deposit(m) PROVE ConservedInv'
  <2>1. /\ RowsOld' /\ MailConserved'
        /\ \A n : Covered(n) => Covered(n)'
    BY <1>2, <1>4 DEF Deposit
  <2>2. AckCovered' /\ BatchCovered'
    BY <1>4, <2>1 DEF Deposit, session, history, AckCovered, BatchCovered,
                     Parted
  <2> QED
    BY <1>1, <2>1, <2>2
(* From here on the rows only change in Purge.                              *)
<1>5. ASSUME NEW c \in Conn, AckRelay(c) PROVE ConservedInv'
  <2>1. \A n : Covered(n) => Covered(n)'
    BY <1>5, CoverKept DEF AckRelay, Parted, store
  <2>2. MailConserved'
    BY <1>5, <2>1 DEF AckRelay, AckCovered, MailConserved
  <2>3. AckCovered' /\ BatchCovered' /\ RowsOld'
    BY <1>5, <2>1
    DEF AckRelay, Goto, store, TypeOK, AckCovered, BatchCovered, Parted,
        RowsOld
  <2> QED
    BY <1>1, <2>2, <2>3
<1>6. ASSUME NEW c \in Conn, FetchBatch(c) PROVE ConservedInv'
  <2>1. \A n : Covered(n) => Covered(n)'
    BY <1>6, CoverKept DEF FetchBatch, Parted, store
  <2>2. AckCovered' /\ MailConserved' /\ RowsOld'
    BY <1>6, <2>1 DEF FetchBatch, Goto, store, TypeOK, AckCovered,
                      MailConserved, RowsOld
  <2>3. BatchCovered'
    BY <1>6 DEF FetchBatch, Goto, TypeOK, BatchCovered, Parted
  <2> QED
    BY <1>1, <2>2, <2>3
<1>7. ASSUME NEW c \in Conn, Deliver(c) PROVE ConservedInv'
  <2>1. PICK r \in FirstOf(unsent[c]) :
          /\ sent' = sent \cup {r.mail}
          /\ unsent' = [unsent EXCEPT ![c] = @ \ {r}]
          /\ Goto(c, IF unsent[c] = {r} THEN "purge" ELSE "batch")
    BY <1>7 DEF Deliver
  <2>2. \A n : Covered(n) => Covered(n)'
    BY <1>7, <2>1, CoverKept DEF Deliver, Parted, store
  <2>3. AckCovered' /\ MailConserved' /\ RowsOld'
    BY <1>7, <2>1, <2>2 DEF Deliver, Goto, store, TypeOK, AckCovered,
                            MailConserved, RowsOld
  <2>4. BatchCovered'
    BY <1>7, <2>1 DEF Deliver, Goto, TypeOK, BatchCovered, Parted
  <2> QED
    BY <1>1, <2>3, <2>4
<1>8. ASSUME NEW c \in Conn, SendFails(c) PROVE ConservedInv'
  <2>1. \A n : Covered(n) => Covered(n)'
    BY <1>8, CoverKept DEF SendFails, Parted, store
  <2>2. AckCovered' /\ MailConserved' /\ RowsOld'
    BY <1>8, <2>1 DEF SendFails, Goto, store, TypeOK, AckCovered,
                      MailConserved, RowsOld
  <2>3. BatchCovered'
    BY <1>8 DEF SendFails, Goto, TypeOK, BatchCovered, Parted, MailOf
  <2> QED
    BY <1>1, <2>2, <2>3
(* What the DELETE takes away has the ID of something that was sent.        *)
<1>9. ASSUME NEW c \in Conn, Purge(c) PROVE ConservedInv'
  <2>1. ASSUME NEW m, Covered(m) PROVE Covered(m)'
    <3>1. CASE \E n \in Parted : Id[n] = Id[m]
      BY <1>9, <3>1, CoveredSays DEF Purge, Parted, history
    <3>2. CASE Stored(m)
      <4>1. PICK r \in box : r.mail = m
        BY <3>2 DEF Stored, MailOf
      <4>2. CASE r \in box'
        BY <4>1, <4>2 DEF Covered, Stored, MailOf
      <4>3. CASE r \notin box'
        <5>1. PICK b \in batch[c] : Id[b.mail] = Id[r.mail]
          BY <1>9, <4>1, <4>3 DEF Purge, DeleteMessagesForRelay
        <5>2. b.mail \in Parted
          BY <1>9 DEF Purge, BatchCovered
        <5> QED
          BY <1>9, <4>1, <5>1, <5>2, CoveredSays DEF Purge, Parted, history
      <4> QED
        BY <4>2, <4>3
    <3> QED
      BY <2>1, <3>1, <3>2, CoveredSays
  <2>2. RowsOld'
    BY <1>9 DEF Purge, DeleteMessagesForRelay, RowsOld
  <2>3. AckCovered' /\ MailConserved'
    BY <1>9, <2>1 DEF Purge, Goto, history, TypeOK, AckCovered, MailConserved
  <2>4. BatchCovered'
    BY <1>9 DEF Purge, Goto, history, TypeOK, BatchCovered, Parted
  <2> QED
    BY <1>1, <2>2, <2>3, <2>4
<1>10. ASSUME UNCHANGED <<box, clock, history>>, \A d \in Conn : QuietFor(d)
       PROVE  ConservedInv'
  BY <1>1, <1>10, QuietStep
<1>11. CASE Crash \/ Restart \/ UNCHANGED vars
  <2>1. CASE Conn = {}
    BY <1>1, <1>10, <1>11, <2>1
    DEF Crash, Restart, vars, store, history
  <2>2. CASE Conn # {}
    BY <1>10, <1>11, <2>2, QuietSteps
  <2> QED
    BY <2>1, <2>2
<1>12. ASSUME NEW c \in Conn, Accept(c) \/ ServerStep(c) \/ PeerStep(c)
       PROVE  ConservedInv'
  BY <1>3, <1>5, <1>6, <1>7, <1>8, <1>9, <1>10, <1>12, QuietSteps
  DEF ServerStep
<1> QED
  BY <1>4, <1>11, <1>12 DEF Next

(* No mail the server has acknowledged is forgotten: it stays in the bucket *)
(* until it, or mail with the same ID, was handed to a connection or skipped*)
(* because that connection broke.  Whatever connections, fetches, crashes   *)
(* and failed deletes come between.                                         *)
THEOREM Conserved == Spec => []MailConserved
<1>1. ConservedInv => MailConserved
  BY DEF ConservedInv
<1> QED
  BY <1>1, InitConserved, StepConserved, PTL DEF Spec

-------------------------------------------------------------------------------
(***************************************************************************)
(* Refinement.  When IDs are unique and no address is a prefix of another, *)
(* the server implements Mailbox.                                          *)
(***************************************************************************)

Kept(m) == Stored(m) \/ <<m, To[m]>> \in offered

(* What a goroutine is about to acknowledge has at worst been offered to its*)
(* recipient already, and a batch is made of offered mail.                  *)
AckKept == \A c \in Conn : phase[c] = "ack" => Kept(cur[c])

BatchOffered ==
  \A c \in Conn : \A r \in batch[c] : <<r.mail, To[r.mail]>> \in offered

RefinementInv == ConservedInv /\ AckKept /\ BatchOffered

LEMMA KeptKept ==
  ASSUME NEW m, Kept(m), MailOf(box) \subseteq MailOf(box'),
         offered \subseteq offered'
  PROVE  Kept(m)'
  BY DEF Kept, Stored

(* Every step of the server is a step of the mailbox or none, and keeps the *)
(* invariant.                                                               *)
LEMMA StepRefines ==
  ASSUME UniqueIds, PrefixFree, RefinementInv, [Next]_vars
  PROVE  RefinementInv' /\ [Relay!Next]_(Relay!mailbox)
<1> USE MailAssumption, ServerAssumption DEF RefinementInv
<1>1. ConservedInv'
  BY StepConserved
<1>2. TypeOK /\ SessionOK /\ RowsOld /\ TypeOK'
  BY <1>1 DEF ConservedInv
<1>3. ASSUME NEW m \in Mail,
             box' = StoreMessageForRelay(box, m, clock + 1),
             UNCHANGED history
      PROVE  /\ Kept(m)'
             /\ \A n : Kept(n) => Kept(n)'
             /\ Relay!Take(m)
  <2>1. box' = box \cup {[mail |-> m, stamp |-> clock + 1]}
    BY <1>2, <1>3, StoreAdds
  <2>2. [mail |-> m, stamp |-> clock + 1].mail = m
    OBVIOUS
  <2>3. MailOf(box') = MailOf(box) \cup {m}
    BY <2>1, <2>2 DEF MailOf
  <2>4. Kept(m)'
    BY <2>3 DEF Kept, Stored
  <2>5. \A n : Kept(n) => Kept(n)'
    BY <2>3, <1>3, KeptKept DEF history
  <2>6. Relay!Take(m)
    BY <2>3, <1>3 DEF Relay!Take, history
  <2> QED
    BY <2>4, <2>5, <2>6
<1>4. ASSUME NEW c \in Conn, StoreForRelay(c)
      PROVE  RefinementInv' /\ [Relay!Next]_(Relay!mailbox)
  <2>1. Ref(c) \in Mail
    BY <1>2, <1>4, RefType DEF StoreForRelay, ForOthers, Incoming
  <2> PICK m \in Mail : m = Ref(c)
    BY <2>1
  <2>2. Kept(m)' /\ (\A n : Kept(n) => Kept(n)') /\ Relay!Take(m)
    BY <1>3, <1>4 DEF StoreForRelay
  <2>3. \A d \in Conn : cur'[d] = IF d = c THEN m ELSE cur[d]
    BY <1>2, <1>4 DEF StoreForRelay, TypeOK
  <2>4. AckKept'
    BY <1>2, <1>4, <2>2, <2>3 DEF StoreForRelay, Goto, TypeOK, AckKept
  <2>5. BatchOffered'
    BY <1>4 DEF StoreForRelay, history, BatchOffered
  <2> QED
    BY <1>1, <2>2, <2>4, <2>5 DEF Relay!Next
<1>5. ASSUME NEW m \in Mail, Deposit(m)
      PROVE  RefinementInv' /\ [Relay!Next]_(Relay!mailbox)
  <2>1. (\A n : Kept(n) => Kept(n)') /\ Relay!Take(m)
    BY <1>3, <1>5 DEF Deposit
  <2>2. AckKept' /\ BatchOffered'
    BY <1>5, <2>1 DEF Deposit, session, history, AckKept, BatchOffered
  <2> QED
    BY <1>1, <2>1, <2>2 DEF Relay!Next
<1>6. ASSUME NEW c \in Conn, AckRelay(c)
      PROVE  RefinementInv' /\ [Relay!Next]_(Relay!mailbox)
  <2>1. cur[c] \in Mail /\ Kept(cur[c])
    BY <1>2, <1>6 DEF AckRelay, SessionOK, AckKept
  <2>2. Relay!Promise({cur[c]})
    BY <1>6, <2>1 DEF AckRelay, store, Relay!Promise, Kept, Stored
  <2>3. \A n : Kept(n) => Kept(n)'
    BY <1>6, KeptKept DEF AckRelay, store
  <2>4. AckKept' /\ BatchOffered'
    BY <1>2, <1>6, <2>3
    DEF AckRelay, Goto, store, TypeOK, AckKept, BatchOffered
  <2> QED
    BY <1>1, <2>1, <2>2, <2>4 DEF Relay!Next
<1>7. ASSUME NEW c \in Conn, FetchBatch(c)
      PROVE  RefinementInv' /\ [Relay!Next]_(Relay!mailbox)
  <2>1. Ref(c) \in Address
    BY <1>2, <1>7, RefType DEF FetchBatch, Incoming
  <2>2. \A r \in box : r \in Found(c) <=> To[r.mail] = Ref(c)
    BY <1>2, <2>1 DEF Found, FetchMessagesForRelay, PrefixFree, TypeOK, Row
  <2>3. MailOf(Found(c)) = {m \in MailOf(box) : To[m] = Ref(c)}
    BY <2>2 DEF MailOf, Found, FetchMessagesForRelay
  <2>4. /\ offered' = offered \cup (MailOf(Found(c)) \X {Ref(c)})
        /\ box' = box /\ acked' = acked
    BY <1>7 DEF FetchBatch, store
  <2>5. Relay!Offer(Ref(c))
    BY <2>3, <2>4 DEF Relay!Offer
  <2>6. \A n : Kept(n) => Kept(n)'
    BY <2>4, KeptKept
  <2>7. AckKept'
    BY <1>2, <1>7, <2>6 DEF FetchBatch, Goto, TypeOK, AckKept
  <2>8. BatchOffered'
    <3>1. ASSUME NEW r \in Found(c) PROVE <<r.mail, To[r.mail]>> \in offered'
      BY <2>2, <2>4, <3>1 DEF MailOf, Found, FetchMessagesForRelay
    <3>2. \A d \in Conn : batch'[d] = IF d = c THEN Found(c) ELSE batch[d]
      BY <1>2, <1>7 DEF FetchBatch, TypeOK
    <3> QED
      BY <2>4, <3>1, <3>2 DEF BatchOffered
  <2> QED
    BY <1>1, <2>1, <2>5, <2>7, <2>8 DEF Relay!Next
<1>8. ASSUME NEW c \in Conn, Purge(c)
      PROVE  RefinementInv' /\ [Relay!Next]_(Relay!mailbox)
  <2>1. box' = box \/ box' = DeleteMessagesForRelay(box, batch[c])
    BY <1>8 DEF Purge
  <2>2. \A d \in batch[c] : <<d.mail, To[d.mail]>> \in offered
    BY DEF BatchOffered
  <2>3. ASSUME box' # box PROVE MailOf(box') = MailOf(box) \ MailOf(batch[c])
    <3>1. ASSUME NEW r \in box
          PROVE  r \in box' <=> r.mail \notin MailOf(batch[c])
      <4>1. \A d \in batch[c] : Id[d.mail] = Id[r.mail] <=> d.mail = r.mail
        BY <1>2 DEF TypeOK, Row, UniqueIds
      <4> QED
        BY <2>1, <2>3, <4>1 DEF DeleteMessagesForRelay, MailOf
    <3>2. box' \subseteq box
      BY <2>1, <2>3 DEF DeleteMessagesForRelay
    <3> QED
      BY <3>1, <3>2 DEF MailOf
  <2>4. \A m \in MailOf(batch[c]) : <<m, To[m]>> \in offered
    BY <2>2 DEF MailOf
  <2>5. offered' = offered /\ acked' = acked
    BY <1>8 DEF Purge, history
  <2>6. [Relay!Next]_(Relay!mailbox)
    <3>1. CASE box' = box
      BY <2>5, <3>1 DEF Relay!mailbox
    <3>2. CASE box' # box
      <4>1. Relay!Discard
        BY <2>3, <2>4, <2>5, <3>2 DEF Relay!Discard
      <4> QED
        BY <4>1 DEF Relay!Next
    <3> QED
      BY <3>1, <3>2
  <2>7. \A n : Kept(n) => Kept(n)'
    BY <2>3, <2>4, <2>5 DEF Kept, Stored
  <2>8. AckKept' /\ BatchOffered'
    BY <1>2, <1>8, <2>5, <2>7 DEF Purge, Goto, TypeOK, AckKept, BatchOffered
  <2> QED
    BY <1>1, <2>6, <2>8
<1>9. ASSUME UNCHANGED <<box, acked, offered>>,
             \A d \in Conn :
               /\ batch'[d] \in {batch[d], {}}
               /\ phase'[d] = "ack" => phase[d] = "ack" /\ cur'[d] = cur[d]
      PROVE  RefinementInv' /\ [Relay!Next]_(Relay!mailbox)
  <2>1. \A n : Kept(n) => Kept(n)'
    BY <1>9, KeptKept
  <2>2. AckKept' /\ BatchOffered'
    BY <1>9, <2>1 DEF AckKept, BatchOffered
  <2> QED
    BY <1>1, <1>9, <2>2 DEF Relay!mailbox
<1>10. ASSUME NEW c \in Conn, Deliver(c) \/ SendFails(c)
       PROVE  RefinementInv' /\ [Relay!Next]_(Relay!mailbox)
  BY <1>2, <1>9, <1>10 DEF Deliver, SendFails, Goto, store, TypeOK
<1>11. ASSUME UNCHANGED <<box, clock, history>>, \A d \in Conn : QuietFor(d)
       PROVE  RefinementInv' /\ [Relay!Next]_(Relay!mailbox)
  BY <1>9, <1>11 DEF QuietFor, history
<1>12. CASE Crash \/ Restart \/ UNCHANGED vars
  <2>1. CASE Conn = {}
    BY <1>11, <1>12, <2>1 DEF Crash, Restart, vars, store, history
  <2>2. CASE Conn # {}
    BY <1>11, <1>12, <2>2, QuietSteps
  <2> QED
    BY <2>1, <2>2
<1>13. ASSUME NEW c \in Conn, Accept(c) \/ ServerStep(c) \/ PeerStep(c)
       PROVE  RefinementInv' /\ [Relay!Next]_(Relay!mailbox)
  BY <1>4, <1>6, <1>7, <1>8, <1>10, <1>11, <1>13, QuietSteps DEF ServerStep
<1> QED
  BY <1>5, <1>12, <1>13 DEF Next

LEMMA InitRefines == Init => RefinementInv /\ Relay!Init
<1>1. Init => ConservedInv
  BY InitConserved
<1> QED
  BY <1>1 DEF Init, RefinementInv, AckKept, BatchOffered, Relay!Init, MailOf

(* The relay is a mailbox that gives up nothing before its recipient has    *)
(* asked for it, whatever the goroutines of its sessions, its two-step      *)
(* FETCH, failed sends and deletes, and crashes do.                         *)
THEOREM ImplementsMailbox ==
  ASSUME UniqueIds, PrefixFree
  PROVE  Spec => IsMailbox
<1>1. Init => RefinementInv /\ Relay!Init
  BY InitRefines
<1>2. RefinementInv /\ [Next]_vars
        => RefinementInv' /\ [Relay!Next]_(Relay!mailbox)
  BY StepRefines
<1> QED
  BY <1>1, <1>2, PTL DEF Spec, IsMailbox, Relay!Spec

(* A peer's frame, beyond the bounds of PeerSends too.                      *)
LEMMA FrameRefines ==
  ASSUME RefinementInv, NEW c \in Conn, NEW q \in Request, SendsFrame(c, q)
  PROVE  RefinementInv' /\ [Relay!Next]_(Relay!mailbox)
<1>1. ConservedInv'
  BY FrameConserved DEF RefinementInv
<1>2. UNCHANGED <<box, acked, offered, phase, cur, batch>>
  BY DEF SendsFrame, store, session, history
<1> QED
  BY <1>1, <1>2 DEF RefinementInv, AckKept, BatchOffered, Kept, Stored,
                    Relay!mailbox

(* What a mailbox keeps.                                                    *)
NothingTaken == \A m \in acked : Kept(m)

LEMMA MailboxTakesNothing == IsMailbox => []NothingTaken
<1>1. Relay!Init => NothingTaken
  BY DEF NothingTaken, Relay!Init
<1>2. NothingTaken /\ [Relay!Next]_(Relay!mailbox) => NothingTaken'
  BY DEF NothingTaken, Kept, Stored, Relay!Next, Relay!mailbox, Relay!Take,
         Relay!Promise, Relay!Offer, Relay!Discard
<1> QED
  BY <1>1, <1>2, PTL DEF IsMailbox, Relay!Spec

(* Hence: what was acknowledged and is no longer stored has been handed out *)
(* to the very address it was for.                                          *)
THEOREM RecipientTakes == Spec => []OnlyRecipientTakes
<1>1. CASE UniqueIds /\ PrefixFree
  <2>1. Spec => IsMailbox
    BY <1>1, ImplementsMailbox
  <2>2. NothingTaken => OnlyRecipientTakes
    BY DEF NothingTaken, Kept, OnlyRecipientTakes
  <2> QED
    BY <2>1, <2>2, MailboxTakesNothing, PTL
<1>2. CASE ~(UniqueIds /\ PrefixFree)
  <2>1. OnlyRecipientTakes
    BY <1>2 DEF OnlyRecipientTakes
  <2> QED
    BY <2>1, PTL
<1> QED
  BY <1>1, <1>2

-------------------------------------------------------------------------------
LEMMA StepPolicy ==
  ASSUME TypeOK, SessionOK, [Next]_vars
  PROVE  PolicyStep
<1>1. ASSUME NEW c \in Conn, StoreForRelay(c) PROVE PolicyStep
  <2>1. box' \ box \subseteq {[mail |-> Ref(c), stamp |-> clock + 1]}
    BY <1>1 DEF StoreForRelay, StoreMessageForRelay
  <2> QED
    BY <1>1, <2>1 DEF PolicyStep, StoreForRelay, ForOthers, Accepts
<1>2. ASSUME box' \subseteq box PROVE PolicyStep
  BY <1>2 DEF PolicyStep
<1>3. ASSUME NEW m \in Mail, Deposit(m) PROVE PolicyStep
  BY <1>3 DEF PolicyStep, Deposit
<1>4. ASSUME NEW c \in Conn, CallHandler(c) PROVE PolicyStep
  <2>1. To[cur[c]] = Me
    BY <1>4 DEF CallHandler, SessionOK
  <2>2. box' = box
    BY <1>4, <2>1 DEF CallHandler
  <2> QED
    BY <1>2, <2>2
<1>5. ASSUME NEW c \in Conn, Purge(c) PROVE PolicyStep
  BY <1>2, <1>5 DEF Purge, DeleteMessagesForRelay
<1>6. CASE Crash \/ Restart \/ UNCHANGED vars
  BY <1>2, <1>6 DEF Crash, Restart, vars, store
<1>7. ASSUME NEW c \in Conn, Accept(c) \/ PeerStep(c) PROVE PolicyStep
  BY <1>2, <1>7 DEF store, Accept, PeerStep, PeerSends, SendsFrame, PeerReads,
                    PeerGone
<1>8. ASSUME NEW c \in Conn, ServerStep(c) PROVE PolicyStep
  BY <1>1, <1>2, <1>4, <1>5, <1>8
  DEF ServerStep, AnswerHelo, RefuseHelo, ReceiveFails, AckDirect, AckRelay,
      RefuseRelay, FetchNothing, FetchBatch, Deliver, SendFails, Bye, Ignore,
      store
<1> QED
  BY <1>3, <1>6, <1>7, <1>8 DEF Next

(* A session only puts into the bucket what the relay policy admits; in     *)
(* particular the store in the handler, which is called for mail to the node*)
(* itself, is never reached.                                                *)
THEOREM PolicyKept == Spec => PolicyHolds
<1>1. TypeOK /\ SessionOK /\ [Next]_vars => PolicyStep
  BY StepPolicy
<1> QED
  BY <1>1, InitType, StepType, PTL DEF Spec, PolicyHolds
-------------------------------------------------------------------------------
(***************************************************************************)
(* Rows and sendings.  A row of the bucket stands for a message that was   *)
(* sent and received, or stored by the API; the messages on their way to   *)
(* the server are counted besides, and counting them takes a renumbering   *)
(* whenever one is read.                                                   *)
(***************************************************************************)

LEMMA TailIn ==
  ASSUME NEW S, NEW s \in Seq(S), s # <<>>, NEW n \in 1..Len(Tail(s))
  PROVE  n + 1 \in 1..Len(s) /\ Tail(s)[n] = s[n + 1]
  BY HeadTailProperties

(* What Consume leaves.                                                     *)
LEMMA Consumed ==
  ASSUME TypeOK, NEW c \in Conn, toSrv[c] # <<>>, Consume(c)
  PROVE  /\ \A d \in Conn \ {c} : toSrv'[d] = toSrv[d]
         /\ toSrv'[c] = Tail(toSrv[c])
         /\ \A n \in 1..Len(toSrv'[c]) :
              n + 1 \in 1..Len(toSrv[c]) /\ toSrv'[c][n] = toSrv[c][n + 1]
<1>1. toSrv'[c] = Tail(toSrv[c])
      /\ \A d \in Conn \ {c} : toSrv'[d] = toSrv[d]
  BY DEF Consume, TypeOK
<1>2. toSrv[c] \in Seq(Request)
  BY DEF TypeOK
<1> QED
  BY <1>1, <1>2, TailIn

(* The messages on their way, by connection and place in the queue.         *)
OnTheirWay ==
  {p \in Conn \X Nat : /\ p[2] \in 1..Len(toSrv[p[1]])
                       /\ toSrv[p[1]][p[2]].type = "MSG"}

CountInv ==
  /\ IsFiniteSet(box) /\ IsFiniteSet(OnTheirWay)
  /\ Cardinality(box) + Cardinality(OnTheirWay) <= sends

(* Nothing is added.                                                        *)
LEMMA CountSame ==
  ASSUME TypeOK, CountInv, box' \subseteq box,
         OnTheirWay' \subseteq OnTheirWay, sends' \in Nat, sends <= sends'
  PROVE  CountInv'
<1>1. PICK P, B : P = OnTheirWay' /\ B = box'
  OBVIOUS
<1>2. /\ IsFiniteSet(B) /\ Cardinality(B) <= Cardinality(box)
      /\ IsFiniteSet(P) /\ Cardinality(P) <= Cardinality(OnTheirWay)
      /\ Cardinality(B) \in Nat /\ Cardinality(box) \in Nat
      /\ Cardinality(P) \in Nat /\ Cardinality(OnTheirWay) \in Nat
  BY <1>1, FS_Subset, FS_CardinalityType DEF CountInv
<1>3. sends \in Nat
  BY DEF TypeOK
<1> QED
  BY <1>1, <1>2, <1>3 DEF CountInv

(* A store adds a row at most.                                              *)
LEMMA CountStore ==
  ASSUME IsFiniteSet(box), NEW m,
         box' = StoreMessageForRelay(box, m, clock + 1)
  PROVE  /\ IsFiniteSet(box')
         /\ Cardinality(box') \in Nat /\ Cardinality(box) \in Nat
         /\ Cardinality(box') <= Cardinality(box) + 1
<1> PICK r : r = [mail |-> m, stamp |-> clock + 1]
  OBVIOUS
<1> PICK B : B = box'
  OBVIOUS
<1>1. B \subseteq box \cup {r}
  BY DEF StoreMessageForRelay
<1>2. /\ IsFiniteSet(box \cup {r})
      /\ Cardinality(box \cup {r}) \in {Cardinality(box), Cardinality(box) + 1}
  BY FS_AddElement
<1> QED
  BY <1>1, <1>2, FS_Subset, FS_CardinalityType

(* A frame that is read leaves the queue, and the others move up.           *)
LEMMA CountConsume ==
  ASSUME TypeOK, CountInv, NEW c \in Conn, toSrv[c] # <<>>, Consume(c)
  PROVE  /\ IsFiniteSet(OnTheirWay')
         /\ Cardinality(OnTheirWay') \in Nat
         /\ Cardinality(OnTheirWay) \in Nat
         /\ Cardinality(OnTheirWay') <=
              IF Head(toSrv[c]).type = "MSG" THEN Cardinality(OnTheirWay) - 1
              ELSE Cardinality(OnTheirWay)
<1> PICK P, Q : P = OnTheirWay /\ Q = OnTheirWay'
  OBVIOUS
<1> DEFINE T == P \ {<<c, 1>>}
           f == [p \in Q |-> IF p[1] = c THEN <<c, p[2] + 1>> ELSE p]
<1>1. /\ \A d \in Conn \ {c} : toSrv'[d] = toSrv[d]
      /\ \A n \in 1..Len(toSrv'[c]) :
           n + 1 \in 1..Len(toSrv[c]) /\ toSrv'[c][n] = toSrv[c][n + 1]
  BY Consumed
<1>2. ASSUME NEW p \in Q PROVE f[p] \in T
  <2>1. /\ p = <<p[1], p[2]>> /\ p[1] \in Conn /\ p[2] \in Nat
        /\ p[2] \in 1..Len(toSrv'[p[1]]) /\ toSrv'[p[1]][p[2]].type = "MSG"
    BY DEF OnTheirWay
  <2>2. CASE p[1] = c
    <3>1. /\ p[2] + 1 \in 1..Len(toSrv[c]) /\ toSrv[c][p[2] + 1].type = "MSG"
      BY <1>1, <2>1, <2>2
    <3>2. <<c, p[2] + 1>> \in P
      BY <2>1, <3>1 DEF OnTheirWay
    <3>3. <<c, p[2] + 1>> # <<c, 1>>
      BY <2>1
    <3> QED
      BY <2>2, <3>2, <3>3
  <2>3. CASE p[1] # c
    <3>1. p \in P
      BY <1>1, <2>1, <2>3 DEF OnTheirWay
    <3> QED
      BY <2>1, <2>3, <3>1
  <2> QED
    BY <2>2, <2>3
<1>3. ASSUME NEW p \in Q, NEW q \in Q, f[p] = f[q] PROVE p = q
  <2>1. /\ p = <<p[1], p[2]>> /\ p[2] \in Nat
        /\ q = <<q[1], q[2]>> /\ q[2] \in Nat
    BY DEF OnTheirWay
  <2> QED
    BY <1>3, <2>1
<1>4. f \in Injection(Q, T)
  <2>1. f \in [Q -> T]
    BY <1>2
  <2> HIDE DEF f, T
  <2> QED
    BY <1>3, <2>1 DEF Injection, IsInjective
<1>5. IsFiniteSet(P) /\ Cardinality(P) \in Nat
  BY FS_CardinalityType DEF CountInv
<1>6. IsFiniteSet(T)
      /\ Cardinality(T) = IF <<c, 1>> \in P THEN Cardinality(P) - 1
                          ELSE Cardinality(P)
  BY <1>5, FS_RemoveElement
<1>7. Head(toSrv[c]).type = "MSG" => <<c, 1>> \in P
  <2>1. toSrv[c] \in Seq(Request)
    BY DEF TypeOK
  <2>2. 1 \in 1..Len(toSrv[c]) /\ toSrv[c][1] = Head(toSrv[c])
    BY <2>1, HeadTailProperties, EmptySeq
  <2> QED
    BY <2>2 DEF OnTheirWay
<1>8. IsFiniteSet(Q) /\ Cardinality(Q) <= Cardinality(T)
      /\ Cardinality(Q) \in Nat
  <2> HIDE DEF f, T
  <2> QED
    BY <1>4, <1>6, FS_Injection, FS_CardinalityType
<1> QED
  BY <1>5, <1>6, <1>7, <1>8

(* A peer's message is counted as it is sent.                               *)
LEMMA CountFrame ==
  ASSUME TypeOK, CountInv, NEW c \in Conn, NEW q \in Request, SendsFrame(c, q)
  PROVE  CountInv'
<1> PICK P, n : P = OnTheirWay' /\ n = Len(toSrv[c]) + 1
  OBVIOUS
<1>1. toSrv[c] \in Seq(Request)
  BY DEF TypeOK
<1>2. /\ \A d \in Conn \ {c} : toSrv'[d] = toSrv[d]
      /\ toSrv'[c] = Append(toSrv[c], q)
      /\ box' = box
      /\ sends' = IF q.type = "MSG" THEN sends + 1 ELSE sends
  BY DEF SendsFrame, TypeOK, store
<1>3. ASSUME NEW p \in P
      PROVE  p \in OnTheirWay \/ (p = <<c, n>> /\ q.type = "MSG")
  <2>1. /\ p = <<p[1], p[2]>> /\ p[1] \in Conn /\ p[2] \in Nat
        /\ p[2] \in 1..Len(toSrv'[p[1]]) /\ toSrv'[p[1]][p[2]].type = "MSG"
    BY DEF OnTheirWay
  <2>2. CASE p[1] = c
    <3>1. /\ Len(toSrv'[c]) = n
          /\ toSrv'[c][n] = q
          /\ \A k \in 1..Len(toSrv[c]) : toSrv'[c][k] = toSrv[c][k]
      BY <1>1, <1>2, AppendProperties
    <3>2. p[2] \in 1..Len(toSrv[c]) \/ p[2] = n
      BY <1>1, <2>1, <2>2, <3>1
    <3> QED
      BY <2>1, <2>2, <3>1, <3>2 DEF OnTheirWay
  <2>3. CASE p[1] # c
    BY <1>2, <2>1, <2>3 DEF OnTheirWay
  <2> QED
    BY <2>2, <2>3
<1>4. CASE q.type # "MSG"
  <2>1. P \subseteq OnTheirWay
    BY <1>3, <1>4
  <2> QED
    BY <1>2, <1>4, <2>1, CountSame DEF TypeOK
<1>5. CASE q.type = "MSG"
  <2>1. P \subseteq OnTheirWay \cup {<<c, n>>}
    BY <1>3
  <2>2. /\ IsFiniteSet(OnTheirWay \cup {<<c, n>>})
        /\ Cardinality(OnTheirWay \cup {<<c, n>>}) \in
             {Cardinality(OnTheirWay), Cardinality(OnTheirWay) + 1}
    BY FS_AddElement DEF CountInv
  <2>3. /\ IsFiniteSet(P) /\ Cardinality(P) \in Nat
        /\ Cardinality(OnTheirWay) \in Nat /\ Cardinality(box) \in Nat
        /\ Cardinality(P) <= Cardinality(OnTheirWay) + 1
    BY <2>1, <2>2, FS_Subset, FS_CardinalityType DEF CountInv
  <2> QED
    BY <1>2, <1>5, <2>3 DEF CountInv, TypeOK
<1> QED
  BY <1>4, <1>5

LEMMA InitCount == Init => CountInv
<1> SUFFICES ASSUME Init PROVE CountInv
  OBVIOUS
<1>1. OnTheirWay = {}
  BY DEF Init, OnTheirWay
<1> QED
  BY <1>1, FS_EmptySet DEF Init, CountInv

LEMMA StepCount ==
  ASSUME TypeOK, SessionOK, CountInv, [Next]_vars
  PROVE  CountInv'
(* Queues that only lose their ends.                                        *)
<1>1. ASSUME box' \subseteq box, sends' = sends,
             \A d \in Conn : \/ toSrv'[d] = toSrv[d]
                             \/ \E n \in 0..Len(toSrv[d]) :
                                  toSrv'[d] = SubSeq(toSrv[d], 1, n)
                             \/ toSrv'[d] = <<>>
      PROVE  CountInv'
  <2>1. ASSUME NEW p \in OnTheirWay' PROVE p \in OnTheirWay
    <3>1. /\ p = <<p[1], p[2]>> /\ p[1] \in Conn /\ p[2] \in Nat
          /\ p[2] \in 1..Len(toSrv'[p[1]]) /\ toSrv'[p[1]][p[2]].type = "MSG"
      BY <2>1 DEF OnTheirWay
    <3>2. toSrv[p[1]] \in Seq(Request)
      BY <3>1 DEF TypeOK
    <3>3. /\ p[2] \in 1..Len(toSrv[p[1]])
          /\ toSrv'[p[1]][p[2]] = toSrv[p[1]][p[2]]
      BY <1>1, <3>1, <3>2, SubSeqProperties
    <3> QED
      BY <3>1, <3>3 DEF OnTheirWay
  <2>2. sends \in Nat
    BY DEF TypeOK
  <2> QED
    BY <1>1, <2>1, <2>2, CountSame
<1>2. ASSUME NEW c \in Conn, toSrv[c] # <<>>, Consume(c), box' = box,
             sends' = sends
      PROVE  CountInv'
  <2>1. Cardinality(OnTheirWay') <= Cardinality(OnTheirWay)
    BY <1>2, CountConsume
  <2> QED
    BY <1>2, <2>1, CountConsume, FS_CardinalityType DEF CountInv, TypeOK
<1>3. ASSUME NEW c \in Conn, StoreForRelay(c) PROVE CountInv'
  <2>1. /\ toSrv[c] # <<>> /\ Head(toSrv[c]).type = "MSG" /\ Consume(c)
        /\ box' = StoreMessageForRelay(box, Ref(c), clock + 1)
        /\ sends' = sends
    BY <1>3 DEF StoreForRelay, ForOthers, Incoming
  <2>2. Cardinality(OnTheirWay') <= Cardinality(OnTheirWay) - 1
    BY <2>1, CountConsume
  <2>3. /\ IsFiniteSet(box')
        /\ Cardinality(box') \in Nat /\ Cardinality(box) \in Nat
        /\ Cardinality(box') <= Cardinality(box) + 1
    BY <2>1, CountStore DEF CountInv
  <2> QED
    BY <2>1, <2>2, <2>3, CountConsume DEF CountInv, TypeOK
<1>4. ASSUME NEW m \in Mail, Deposit(m) PROVE CountInv'
  <2>1. /\ IsFiniteSet(box')
        /\ Cardinality(box') \in Nat /\ Cardinality(box) \in Nat
        /\ Cardinality(box') <= Cardinality(box) + 1
    BY <1>4, CountStore DEF Deposit, CountInv
  <2>2. toSrv' = toSrv /\ sends' = sends + 1
    BY <1>4 DEF Deposit
  <2>3. OnTheirWay' = OnTheirWay
    BY <2>2 DEF OnTheirWay
  <2>4. Cardinality(OnTheirWay) \in Nat
    BY FS_CardinalityType DEF CountInv
  <2> QED
    BY <2>1, <2>2, <2>3, <2>4 DEF CountInv, TypeOK
<1>5. ASSUME NEW c \in Conn, EndSession(c), box' = box PROVE CountInv'
  BY <1>1, <1>5 DEF EndSession, TypeOK
<1>6. ASSUME NEW c \in Conn,
             \/ AnswerHelo(c) \/ AckDirect(c) \/ RefuseRelay(c)
             \/ FetchNothing(c) \/ FetchBatch(c) \/ Ignore(c)
      PROVE  CountInv'
  BY <1>2, <1>6 DEF AnswerHelo, AckDirect, RefuseRelay, FetchNothing, FetchBatch,
                    Ignore, ForOthers, Incoming, store
<1>7. ASSUME NEW c \in Conn,
             \/ Accept(c) \/ AckRelay(c) \/ Deliver(c) \/ SendFails(c)
             \/ PeerReads(c)
      PROVE  CountInv'
  BY <1>1, <1>7 DEF Accept, AckRelay, Deliver, SendFails, PeerReads, store, net
<1>8. ASSUME NEW c \in Conn, CallHandler(c) PROVE CountInv'
  <2>1. box' = box
    BY <1>8 DEF CallHandler, SessionOK
  <2> QED
    BY <1>1, <1>8, <2>1 DEF CallHandler, net
<1>9. ASSUME NEW c \in Conn, Purge(c) PROVE CountInv'
  BY <1>1, <1>9 DEF Purge, DeleteMessagesForRelay, net
<1>10. ASSUME NEW c \in Conn, PeerGone(c) PROVE CountInv'
  BY <1>1, <1>10 DEF PeerGone, TypeOK, store
<1>11. CASE Crash
  BY <1>1, <1>11 DEF Crash, store
<1>12. CASE Restart \/ UNCHANGED vars
  BY <1>1, <1>12 DEF Restart, vars, store, net
<1>13. ASSUME NEW c \in Conn, Accept(c) \/ ServerStep(c) \/ PeerStep(c)
       PROVE  CountInv'
  BY <1>3, <1>5, <1>6, <1>7, <1>8, <1>9, <1>10, <1>13, CountFrame
  DEF ServerStep, PeerStep, PeerSends, RefuseHelo, ReceiveFails, Bye, store
<1> QED
  BY <1>4, <1>11, <1>12, <1>13 DEF Next

LEMMA CountBounds ==
  ASSUME CountInv, TypeOK
  PROVE  StoredOncePerSend
<1>1. Cardinality(box) \in Nat /\ Cardinality(OnTheirWay) \in Nat
  BY FS_CardinalityType DEF CountInv
<1> QED
  BY <1>1 DEF CountInv, StoredOncePerSend, TypeOK

(* No message is stored twice for one sending, whichever way a frame takes  *)
(* through handleConnection and its handler.                                *)
THEOREM StoredOnce == Spec => []StoredOncePerSend
<1>1. TypeOK /\ CountInv => StoredOncePerSend
  BY CountBounds
<1>2. TypeOK /\ SessionOK /\ CountInv /\ [Next]_vars => CountInv'
  BY StepCount
<1> QED
  BY <1>1, <1>2, InitType, StepType, InitCount, PTL DEF Spec
================================================================================
