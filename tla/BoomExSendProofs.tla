--------------------------- MODULE BoomExSendProofs ---------------------------
(***************************************************************************)
(* The clients of the repository at the server: what a sender is told is   *)
(* true, and what holds of the server among any peers holds among these.   *)
(***************************************************************************)
EXTENDS BoomExSend, BoomExServerProofs

(* A client that is not idle is in a function and has a message.            *)
SendTypes ==
  /\ SendTypeOK
  /\ \A c \in Conn : pc[c] # "idle" => kind[c] \in Kinds /\ msg[c] \in Mail

-------------------------------------------------------------------------------
(***************************************************************************)
(* One connection.                                                         *)
(***************************************************************************)

(* A client has a connection unless it is idle or dials; the server has     *)
(* nothing to do with a connection that is gone or that it has closed; there*)
(* is nothing to read for a client that is gone.                            *)
LinkOK(c) ==
  /\ pc[c] \in {"idle", "dialing"} <=> link[c] \in {"none", "cut"}
  /\ link[c] \in {"none", "closed"} => phase[c] = "free" /\ toSrv[c] = <<>>
  /\ link[c] \in {"none", "cut"} => toCli[c] = <<>>

Taken(m) == To[m] = Me \/ m \in acked

(* While the client is there the server has no message but the client's, and*)
(* an ACK on its way to the client says that this one was taken; it fetches *)
(* for no one but the sender of that message.                               *)
AckOK(c) ==
  /\ link[c] = "up" /\ phase[c] = "ack" => cur[c] = msg[c]
  /\ link[c] = "up" =>
       \A n \in 1..Len(toSrv[c]) :
         /\ toSrv[c][n].type = "MSG" => toSrv[c][n].ref = msg[c]
         /\ toSrv[c][n].type = "FETCH" => toSrv[c][n].ref = From[msg[c]]
  /\ link[c] = "up" /\ phase[c] = "batch" =>
       \A r \in unsent[c] : <<r.mail, From[msg[c]]>> \in offered
  /\ \A n \in 1..Len(toCli[c]) : toCli[c][n].kind = "ACK" => Taken(msg[c])

Clear(c) == toSrv[c] = <<>> /\ toCli[c] = <<>>

(* One request that is not yet answered, one answer that is not yet read.   *)
AskedFor(c, t) ==
  /\ toCli[c] = <<>>
  /\ toSrv[c] # <<>> /\ Tail(toSrv[c]) = <<>> /\ Head(toSrv[c]).type = t

OneLeft(c) == toCli[c] # <<>> /\ Tail(toCli[c]) = <<>>

NoEnd(c) == \A n \in 1..Len(toCli[c]) : toCli[c][n].kind # "NO_MAIL"

(* The sender has been offered mail that reads NO_MAIL.                     *)
Deluded(c) == Misled(From[msg[c]])

(* A frame has come, or the server is about to make one.                    *)
Coming(c) ==
  \/ toCli[c] # <<>>
  \/ phase[c] = "ack"
  \/ /\ phase[c] \in {"loop", "batch", "purge"}
     /\ toSrv[c] # <<>> /\ Tail(toSrv[c]) = <<>> /\ Head(toSrv[c]).type = "MSG"

Answers == {"ACK", "HELO", "RELAY_ERROR", "RELAY_DENIED", "RELAY_DISABLED"}

(* The conversation of a TCP or radio client, step by step (over dial-up a  *)
(* read can time out, and the client get out of step).  When it comes to    *)
(* send its message nothing is left of its FETCH on either side, so that the*)
(* next frame is the answer; unless it was deluded, when the server can     *)
(* still be at the batch.                                                   *)
UpOK(c) ==
  /\ pc[c] = "dialed" => phase[c] = "helo" /\ Clear(c)
  /\ pc[c] = "helo" =>
       \/ phase[c] = "helo" /\ AskedFor(c, "HELO")
       \/ phase[c] = "loop" /\ toSrv[c] = <<>> /\ OneLeft(c)
  /\ pc[c] = "ready" => phase[c] = "loop" /\ Clear(c)
  /\ pc[c] = "fetched" =>
       \/ phase[c] = "loop" /\ Clear(c)
       \/ /\ phase[c] \in {"loop", "batch", "purge"} /\ toSrv[c] = <<>>
          /\ Deluded(c)
  /\ pc[c] = "fetch" =>
       \/ phase[c] = "loop" /\ AskedFor(c, "FETCH")
       \/ /\ phase[c] \in {"loop", "batch", "purge"} /\ toSrv[c] = <<>>
          /\ NoEnd(c) \/ Deluded(c)
       \/ phase[c] = "loop" /\ toSrv[c] = <<>> /\ OneLeft(c)
  /\ pc[c] = "wait" =>
       \/ phase[c] = "loop" /\ AskedFor(c, "MSG")
       \/ phase[c] = "ack" /\ Clear(c)
       \/ /\ phase[c] \in {"handler", "loop"} /\ toSrv[c] = <<>> /\ OneLeft(c)
          /\ Head(toCli[c]).kind \in Answers
       \/ Deluded(c) /\ Coming(c)

(* And what is left of it when the server has closed.                       *)
ClosedOK(c) ==
  /\ pc[c] \in {"dialed", "ready"} => toCli[c] = <<>>
  /\ pc[c] = "helo" => toCli[c] = <<>> \/ OneLeft(c)
  /\ pc[c] = "fetch" => NoEnd(c) \/ OneLeft(c) \/ Deluded(c)
  /\ pc[c] = "fetched" => toCli[c] = <<>> \/ Deluded(c)
  /\ pc[c] = "wait" =>
       \/ toCli[c] = <<>>
       \/ Deluded(c)
       \/ OneLeft(c) /\ Head(toCli[c]).kind \in Answers

ConnOK(c) ==
  /\ LinkOK(c) /\ AckOK(c)
  /\ kind[c] # "dialup" /\ link[c] = "up" => UpOK(c)
  /\ kind[c] # "dialup" /\ link[c] = "closed" => ClosedOK(c)

ToldOK ==
  /\ \A k \in Kinds, m \in Mail : <<k, m, "acked">> \in told => Taken(m)
  /\ AnswerMatches

SendInv ==
  ConservedInv /\ SendTypes /\ (\A c \in Conn : ConnOK(c)) /\ ToldOK

-------------------------------------------------------------------------------
(***************************************************************************)
(* Queues.                                                                 *)
(***************************************************************************)
LEMMA AppendIn ==
  ASSUME NEW S, NEW s \in Seq(S), NEW e \in S, NEW n \in 1..Len(Append(s, e))
  PROVE  \/ n \in 1..Len(s) /\ Append(s, e)[n] = s[n]
         \/ Append(s, e)[n] = e
  BY AppendProperties

LEMMA OneFrame ==
  ASSUME NEW S, NEW e \in S
  PROVE  /\ Append(<<>>, e) # <<>>
         /\ Head(Append(<<>>, e)) = e
         /\ Tail(Append(<<>>, e)) = <<>>
  OBVIOUS

(* What a Reply adds.                                                       *)
LEMMA Replied ==
  ASSUME TypeOK, NEW c \in Conn, NEW k \in {"HELO", "ACK", "MAIL"} \cup Note,
         NEW m \in Mail \cup {None}, Reply(c, k, m)
  PROVE  /\ \A d \in Conn \ {c} : toCli'[d] = toCli[d]
         /\ link[c] # "up" => toCli'[c] = toCli[c]
         /\ link[c] = "up" =>
              /\ toCli'[c] # <<>>
              /\ \A n \in 1..Len(toCli'[c]) :
                   \/ n \in 1..Len(toCli[c]) /\ toCli'[c][n] = toCli[c][n]
                   \/ toCli'[c][n].kind = k
              /\ toCli[c] = <<>> =>
                   /\ toCli'[c] # <<>> /\ Tail(toCli'[c]) = <<>>
                   /\ Head(toCli'[c]).kind = k
<1>1. PICK e : e = [kind |-> k, mail |-> m]
  OBVIOUS
<1>2. e \in Response /\ e.kind = k
  BY <1>1 DEF Response
<1>3. toCli[c] \in Seq(Response)
  BY DEF TypeOK
<1>4. CASE link[c] = "up"
  <2>1. toCli' = [toCli EXCEPT ![c] = Append(@, e)]
    BY <1>1, <1>4 DEF Reply
  <2>2. toCli'[c] = Append(toCli[c], e)
        /\ \A d \in Conn \ {c} : toCli'[d] = toCli[d]
    BY <2>1 DEF TypeOK
  <2>3. \A n \in 1..Len(toCli'[c]) :
          \/ n \in 1..Len(toCli[c]) /\ toCli'[c][n] = toCli[c][n]
          \/ toCli'[c][n].kind = k
    BY <1>2, <1>3, <2>2, AppendIn
  <2>4. toCli[c] = <<>> => /\ toCli'[c] # <<>> /\ Tail(toCli'[c]) = <<>>
                           /\ Head(toCli'[c]).kind = k
    BY <1>2, <2>2, OneFrame
  <2>5. toCli'[c] # <<>>
    BY <1>2, <1>3, <2>2, AppendProperties
  <2> QED
    BY <1>4, <2>2, <2>3, <2>4, <2>5
<1>5. CASE link[c] # "up"
  BY <1>5 DEF Reply
<1> QED
  BY <1>4, <1>5

(* The first request is the client's.                                       *)
LEMMA RefIsMsg ==
  ASSUME TypeOK, NEW c \in Conn, AckOK(c), link[c] = "up", toSrv[c] # <<>>
  PROVE  /\ Head(toSrv[c]).type = "MSG" => Ref(c) = msg[c]
         /\ Head(toSrv[c]).type = "FETCH" => Ref(c) = From[msg[c]]
<1>1. toSrv[c] \in Seq(Request)
  BY DEF TypeOK
<1>2. 1 \in 1..Len(toSrv[c]) /\ toSrv[c][1] = Head(toSrv[c])
  BY <1>1, HeadTailProperties, EmptySeq
<1> QED
  BY <1>2 DEF AckOK, Ref

-------------------------------------------------------------------------------
(***************************************************************************)
(* What a step can do to one connection.                                   *)
(***************************************************************************)

(* Nothing at all.                                                          *)
Same(d) ==
  /\ link'[d] = link[d] /\ phase'[d] = phase[d] /\ cur'[d] = cur[d]
  /\ toSrv'[d] = toSrv[d] /\ toCli'[d] = toCli[d] /\ unsent'[d] = unsent[d]
  /\ pc'[d] = pc[d] /\ kind'[d] = kind[d] /\ msg'[d] = msg[d]

(* History only grows.                                                      *)
Growing == acked \subseteq acked' /\ offered \subseteq offered'

LEMMA DeludedStays ==
  ASSUME NEW d, Growing, msg'[d] = msg[d]
  PROVE  Deluded(d) => Deluded(d)'
  BY DEF Growing, Deluded, Misled

LEMMA SameOK ==
  ASSUME NEW d, ConnOK(d), Same(d), Growing
  PROVE  ConnOK(d)'
<1> Deluded(d) => Deluded(d)'
  BY DeludedStays DEF Same
<1>1. LinkOK(d)'
  BY DEF ConnOK, Same, LinkOK
<1>2. AckOK(d)'
  BY DEF ConnOK, Same, AckOK, Taken, Growing
<1>3. UpOK(d) => UpOK(d)'
  BY DEF Same, UpOK, Clear, AskedFor, OneLeft, NoEnd, Coming
<1>4. ClosedOK(d) => ClosedOK(d)'
  BY DEF Same, ClosedOK, OneLeft, NoEnd
<1> QED
  BY <1>1, <1>2, <1>3, <1>4 DEF ConnOK, Same

(* The client is gone already.                                              *)
LEMMA CutOK ==
  ASSUME NEW d, ConnOK(d), link[d] = "cut", link'[d] = "cut",
         toCli'[d] = toCli[d], pc'[d] = pc[d]
  PROVE  ConnOK(d)'
  BY DEF ConnOK, LinkOK, AckOK

(* The client is there and stays.                                           *)
LEMMA StillUp ==
  ASSUME NEW d, ConnOK(d), link[d] = "up", link'[d] = "up", pc'[d] = pc[d],
         kind'[d] = kind[d], AckOK(d)', UpOK(d) => UpOK(d)'
  PROVE  ConnOK(d)'
<1>1. LinkOK(d)'
  BY DEF ConnOK, LinkOK
<1> QED
  BY <1>1 DEF ConnOK

(* The server closes, or dies.                                              *)
LEMMA Closing ==
  ASSUME NEW d, ConnOK(d), Growing,
         \/ link[d] = "up" /\ link'[d] = "closed"
         \/ link[d] \in {"none", "cut"} /\ link'[d] = "none"
         \/ link[d] = "closed" /\ link'[d] = "closed",
         phase'[d] = "free", toSrv'[d] = <<>>, toCli'[d] = toCli[d],
         pc'[d] = pc[d], kind'[d] = kind[d], msg'[d] = msg[d]
  PROVE  ConnOK(d)'
<1> Deluded(d) => Deluded(d)'
  BY DeludedStays
<1>1. LinkOK(d)'
  BY DEF ConnOK, LinkOK
<1>2. AckOK(d)'
  BY DEF ConnOK, AckOK, Taken, Growing
<1>3. UpOK(d) => ClosedOK(d)'
  BY DEF UpOK, ClosedOK, Clear, AskedFor, OneLeft, NoEnd
<1>4. ClosedOK(d) => ClosedOK(d)'
  BY DEF ClosedOK, OneLeft, NoEnd
<1> QED
  BY <1>1, <1>2, <1>3, <1>4 DEF ConnOK

-------------------------------------------------------------------------------
(***************************************************************************)
(* The steps of the server, for the connection of the goroutine.           *)
(***************************************************************************)

(* A request is read and answered at once: HELO, mail for the node itself,  *)
(* mail that is refused, a FETCH that finds nothing.                        *)
LEMMA AnswerOK ==
  ASSUME TypeOK, NEW c \in Conn, ConnOK(c), link[c] = "up", UNCHANGED client,
         UNCHANGED <<link, acked, offered>>,
         NEW k \in {"HELO", "ACK", "MAIL"} \cup Note,
         NEW m \in Mail \cup {None},
         toSrv[c] # <<>>, Consume(c), Reply(c, k, m),
         phase'[c] \in {"handler", "loop"},
         k = "ACK" => Taken(msg[c]),
         \/ /\ phase[c] = "helo" /\ Head(toSrv[c]).type = "HELO" /\ k = "HELO"
            /\ phase'[c] = "loop"
         \/ phase[c] = "loop" /\ Head(toSrv[c]).type = "MSG" /\ k \in Answers
         \/ /\ phase[c] = "loop" /\ Head(toSrv[c]).type = "FETCH"
            /\ phase'[c] = "loop"
  PROVE  ConnOK(c)'
<1> Deluded(c) => Deluded(c)'
  BY DeludedStays DEF Growing, client
<1>1. /\ toSrv'[c] = Tail(toSrv[c])
      /\ \A n \in 1..Len(toSrv'[c]) :
           n + 1 \in 1..Len(toSrv[c]) /\ toSrv'[c][n] = toSrv[c][n + 1]
  BY Consumed
<1>2. /\ toCli'[c] # <<>>
      /\ \A n \in 1..Len(toCli'[c]) :
           \/ n \in 1..Len(toCli[c]) /\ toCli'[c][n] = toCli[c][n]
           \/ toCli'[c][n].kind = k
      /\ toCli[c] = <<>> =>
           /\ toCli'[c] # <<>> /\ Tail(toCli'[c]) = <<>>
           /\ Head(toCli'[c]).kind = k
  BY Replied
<1>3. AckOK(c)'
  BY <1>1, <1>2 DEF ConnOK, AckOK, Taken, client
<1>4. UpOK(c) => UpOK(c)'
  BY <1>1, <1>2 DEF UpOK, Clear, AskedFor, OneLeft, Coming, client
<1> QED
  BY <1>3, <1>4, StillUp DEF client

(* A request is read and the answer put off: mail that is stored, a FETCH   *)
(* that finds something; or it is not answered at all.                      *)
LEMMA ReadOK ==
  ASSUME TypeOK, NEW c \in Conn, ConnOK(c), link[c] = "up", UNCHANGED client,
         UNCHANGED <<link, toCli>>, Growing,
         toSrv[c] # <<>>, Consume(c), phase[c] = "loop",
         phase'[c] = "batch" =>
           \A r \in unsent'[c] : <<r.mail, From[msg[c]]>> \in offered',
         \/ /\ Head(toSrv[c]).type = "MSG" /\ phase'[c] = "ack"
            /\ cur'[c] = msg[c]
         \/ Head(toSrv[c]).type = "FETCH" /\ phase'[c] = "batch"
         \/ Head(toSrv[c]).type \in {"HELO", "OTHER"} /\ phase'[c] = "loop"
  PROVE  ConnOK(c)'
<1> Deluded(c) => Deluded(c)'
  BY DeludedStays DEF client
<1>1. /\ toSrv'[c] = Tail(toSrv[c])
      /\ \A n \in 1..Len(toSrv'[c]) :
           n + 1 \in 1..Len(toSrv[c]) /\ toSrv'[c][n] = toSrv[c][n + 1]
  BY Consumed
<1>2. AckOK(c)'
  BY <1>1 DEF ConnOK, AckOK, Taken, Growing, client
<1>3. UpOK(c) => UpOK(c)'
  BY <1>1 DEF UpOK, Clear, AskedFor, OneLeft, NoEnd, Coming, client
<1> QED
  BY <1>2, <1>3, StillUp DEF client

(* A frame is sent that was put off: the ACK, relayed mail.                 *)
LEMMA LaterOK ==
  ASSUME TypeOK, NEW c \in Conn, ConnOK(c), link[c] = "up", UNCHANGED client,
         UNCHANGED <<link, toSrv>>, Growing,
         NEW k \in {"ACK", "MAIL"} \cup Note, NEW m \in Mail, Reply(c, k, m),
         \/ /\ k = "ACK" /\ phase[c] = "ack" /\ phase'[c] = "loop"
            /\ cur[c] \in acked'
         \/ /\ k # "ACK" /\ phase[c] = "batch"
            /\ phase'[c] \in {"batch", "purge"}
            /\ unsent'[c] \subseteq unsent[c]
            /\ k = "NO_MAIL" => Deluded(c)
  PROVE  ConnOK(c)'
<1> Deluded(c) => Deluded(c)'
  BY DeludedStays DEF client
<1>1. /\ toCli'[c] # <<>>
      /\ \A n \in 1..Len(toCli'[c]) :
           \/ n \in 1..Len(toCli[c]) /\ toCli'[c][n] = toCli[c][n]
           \/ toCli'[c][n].kind = k
      /\ toCli[c] = <<>> =>
           /\ toCli'[c] # <<>> /\ Tail(toCli'[c]) = <<>>
           /\ Head(toCli'[c]).kind = k
  BY Replied
<1>2. AckOK(c)'
  BY <1>1 DEF ConnOK, AckOK, Taken, Growing, client
<1>3. UpOK(c) => UpOK(c)'
  BY <1>1 DEF UpOK, Clear, AskedFor, OneLeft, NoEnd, Coming, Answers, client
<1> QED
  BY <1>2, <1>3, StillUp DEF client

(* A goroutine touches no connection but its own.                           *)
LEMMA OthersSame ==
  ASSUME TypeOK, NEW c \in Conn, NEW d \in Conn \ {c}, UNCHANGED client,
         ServerStep(c)
  PROVE  Same(d) /\ Growing
<1> USE DEF Growing
<1>1. CASE EndSession(c) /\ UNCHANGED history
  BY <1>1 DEF Same, EndSession, TypeOK, client, history
<1>2. CASE AnswerHelo(c) \/ AckDirect(c) \/ RefuseRelay(c) \/ FetchNothing(c)
  BY <1>2 DEF Same, TypeOK, client, history, session, Consume, Reply, Goto,
              AnswerHelo, AckDirect, RefuseRelay, FetchNothing
<1>3. CASE StoreForRelay(c) \/ FetchBatch(c) \/ Ignore(c)
  BY <1>3 DEF Same, TypeOK, client, history, session, Consume, Goto,
              StoreForRelay, FetchBatch, Ignore
<1>4. CASE CallHandler(c) \/ SendFails(c) \/ Purge(c)
  BY <1>4 DEF Same, TypeOK, client, history, net, Goto, CallHandler, SendFails,
              Purge
<1>5. CASE AckRelay(c) \/ Deliver(c)
  BY <1>5 DEF Same, TypeOK, client, Reply, Goto, AckRelay, Deliver
<1> QED
  BY <1>1, <1>2, <1>3, <1>4, <1>5
  DEF ServerStep, RefuseHelo, ReceiveFails, Bye

LEMMA OwnConn ==
  ASSUME TypeOK, SessionOK, NEW c \in Conn, ConnOK(c), UNCHANGED client,
         ServerStep(c)
  PROVE  ConnOK(c)'
<1>1. link[c] \in {"up", "cut"}
  <2>1. phase[c] # "free"
    BY DEF ServerStep, AnswerHelo, RefuseHelo, ReceiveFails, AckDirect,
           CallHandler, StoreForRelay, AckRelay, RefuseRelay, FetchNothing,
           FetchBatch, Deliver, SendFails, Purge, Bye, Ignore, ForOthers,
           Incoming
  <2> QED
    BY <2>1 DEF SessionOK
<1>2. CASE RefuseHelo(c) \/ ReceiveFails(c) \/ Bye(c)
  BY <1>1, <1>2, Closing
  DEF RefuseHelo, ReceiveFails, Bye, EndSession, TypeOK, client, history,
      Growing
<1>3. ASSUME AnswerHelo(c), link[c] = "up" PROVE ConnOK(c)'
  BY <1>3, AnswerOK DEF AnswerHelo, Incoming, Goto, TypeOK, history
<1>4. ASSUME AckDirect(c), link[c] = "up" PROVE ConnOK(c)'
  <2>1. toSrv[c] # <<>> /\ Head(toSrv[c]).type = "MSG" /\ phase[c] = "loop"
    BY <1>4 DEF AckDirect, Incoming
  <2>2. Ref(c) = msg[c] /\ Ref(c) \in Mail
    BY <1>4, <2>1, RefIsMsg, RefType DEF ConnOK
  <2>3. Taken(msg[c])
    BY <1>4, <2>2 DEF AckDirect, Taken
  <2> QED
    BY <1>4, <2>1, <2>2, <2>3, AnswerOK
    DEF AckDirect, Goto, TypeOK, history, Answers
<1>5. ASSUME RefuseRelay(c), link[c] = "up" PROVE ConnOK(c)'
  <2>1. toSrv[c] # <<>> /\ Head(toSrv[c]).type = "MSG" /\ phase[c] = "loop"
    BY <1>5 DEF RefuseRelay, ForOthers, Incoming
  <2>2. Ref(c) \in Mail
    BY <2>1, RefType
  <2>3. PICK k \in {"RELAY_DISABLED", "RELAY_ERROR", "RELAY_DENIED"} :
          Reply(c, k, Ref(c))
    BY <1>5 DEF RefuseRelay
  <2> QED
    BY <1>5, <2>1, <2>2, <2>3, AnswerOK
    DEF RefuseRelay, session, history, Answers, Note
<1>6. ASSUME FetchNothing(c), link[c] = "up" PROVE ConnOK(c)'
  <2>1. PICK k \in {"FETCH_DISABLED", "FETCH_ERROR", "NO_MAIL"} :
          Reply(c, k, None)
    BY <1>6 DEF FetchNothing
  <2> QED
    BY <1>6, <2>1, AnswerOK DEF FetchNothing, Incoming, session, history, Note
<1>7. ASSUME StoreForRelay(c), link[c] = "up" PROVE ConnOK(c)'
  <2>1. toSrv[c] # <<>> /\ Head(toSrv[c]).type = "MSG" /\ phase[c] = "loop"
    BY <1>7 DEF StoreForRelay, ForOthers, Incoming
  <2>2. cur'[c] = msg[c]
    BY <1>7, <2>1, RefIsMsg DEF StoreForRelay, ConnOK, TypeOK
  <2> QED
    BY <1>7, <2>1, <2>2, ReadOK
    DEF StoreForRelay, Goto, TypeOK, history, Growing
<1>8. ASSUME FetchBatch(c) \/ Ignore(c), link[c] = "up" PROVE ConnOK(c)'
  <2>1. CASE FetchBatch(c)
    <3>1. Head(toSrv[c]).type = "FETCH" /\ toSrv[c] # <<>> /\ phase[c] = "loop"
      BY <2>1 DEF FetchBatch, Incoming
    <3>2. Ref(c) = From[msg[c]]
      BY <1>8, <3>1, RefIsMsg DEF ConnOK
    <3>3. \A r \in unsent'[c] : <<r.mail, From[msg[c]]>> \in offered'
      BY <2>1, <3>2 DEF FetchBatch, MailOf, TypeOK
    <3> QED
      BY <1>8, <2>1, <3>1, <3>3, ReadOK
      DEF FetchBatch, Goto, TypeOK, Growing
  <2>2. CASE Ignore(c)
    BY <1>8, <2>2, ReadOK
    DEF Ignore, Incoming, TypeOK, session, history, Growing
  <2> QED
    BY <1>8, <2>1, <2>2
<1>9. ASSUME AckRelay(c), link[c] = "up" PROVE ConnOK(c)'
  <2>1. cur[c] \in Mail
    BY <1>9 DEF AckRelay, SessionOK
  <2> QED
    BY <1>9, <2>1, LaterOK DEF AckRelay, Goto, TypeOK, Growing
<1>10. ASSUME Deliver(c), link[c] = "up" PROVE ConnOK(c)'
  <2>1. PICK r \in FirstOf(unsent[c]) :
          /\ Reply(c, Subject[r.mail], r.mail)
          /\ unsent' = [unsent EXCEPT ![c] = @ \ {r}]
          /\ Goto(c, IF unsent[c] = {r} THEN "purge" ELSE "batch")
    BY <1>10 DEF Deliver
  <2>2. r.mail \in Mail
    BY DEF FirstOf, TypeOK, Row
  <2>3. Subject[r.mail] \in Note \cup {"MAIL"}
    BY <2>2, ServerAssumption
  <2>4. r \in unsent[c]
    BY DEF FirstOf
  <2>5. Subject[r.mail] = "NO_MAIL" => Deluded(c)
    BY <1>10, <2>2, <2>4 DEF Deliver, ConnOK, AckOK, Deluded, Misled
  <2>6. unsent'[c] \subseteq unsent[c]
    BY <2>1 DEF TypeOK
  <2>7. Subject[r.mail] # "ACK"
    BY <2>3 DEF Note
  <2>8. phase[c] = "batch" /\ phase'[c] \in {"batch", "purge"}
    BY <1>10, <2>1 DEF Deliver, Goto, TypeOK
  <2> QED
    BY <1>10, <2>1, <2>2, <2>3, <2>5, <2>6, <2>7, <2>8, LaterOK
    DEF Deliver, Growing
<1>11. ASSUME CallHandler(c) \/ Purge(c), link[c] = "up" PROVE ConnOK(c)'
  <2> Deluded(c) => Deluded(c)'
    BY <1>11, DeludedStays DEF CallHandler, Purge, history, client, Growing
  <2>1. /\ UNCHANGED <<link, toSrv, toCli, acked>>
        /\ \/ phase[c] = "handler" /\ phase'[c] = "loop"
           \/ phase[c] = "purge" /\ phase'[c] = "loop"
    BY <1>11 DEF CallHandler, Purge, Goto, TypeOK, net, history
  <2>2. AckOK(c)'
    BY <2>1 DEF ConnOK, AckOK, Taken, client
  <2>3. UpOK(c) => UpOK(c)'
    BY <2>1 DEF UpOK, Clear, AskedFor, OneLeft, NoEnd, Coming, client
  <2> QED
    BY <1>11, <2>1, <2>2, <2>3, StillUp DEF client
<1>12. ASSUME link[c] = "cut", UNCHANGED <<link, toCli>> PROVE ConnOK(c)'
  BY <1>12, CutOK DEF client
<1>13. ASSUME NEW k, NEW m, Reply(c, k, m), UNCHANGED link, link[c] = "cut"
       PROVE  ConnOK(c)'
  BY <1>12, <1>13 DEF Reply
<1>14. CASE link[c] = "up" /\ ~ (RefuseHelo(c) \/ ReceiveFails(c) \/ Bye(c))
  BY <1>3, <1>4, <1>5, <1>6, <1>7, <1>8, <1>9, <1>10, <1>11, <1>14
  DEF ServerStep, SendFails
<1>15. CASE link[c] = "cut" /\ ~ (RefuseHelo(c) \/ ReceiveFails(c) \/ Bye(c))
  <2>1. CASE StoreForRelay(c) \/ FetchBatch(c) \/ Ignore(c) \/ CallHandler(c)
               \/ SendFails(c) \/ Purge(c)
    BY <1>12, <1>15, <2>1
    DEF StoreForRelay, FetchBatch, Ignore, CallHandler, SendFails, Purge, net
  <2>2. CASE AnswerHelo(c) \/ AckDirect(c) \/ RefuseRelay(c) \/ FetchNothing(c)
               \/ AckRelay(c) \/ Deliver(c)
    BY <1>13, <1>15, <2>2
    DEF AnswerHelo, AckDirect, RefuseRelay, FetchNothing, AckRelay, Deliver
  <2> QED
    BY <1>15, <2>1, <2>2 DEF ServerStep
<1> QED
  BY <1>1, <1>2, <1>14, <1>15

-------------------------------------------------------------------------------
(***************************************************************************)
(* The steps of the client.                                                *)
(***************************************************************************)
ClientMoves(c) ==
  \/ \E m \in Mail : DialSerial(c, m) \/ \E k \in Kinds : Dial(c, m, k)
  \/ Connect(c) \/ ClientStep(c) \/ Kill(c)

(* A client touches no connection but its own.                              *)
LEMMA OtherClients ==
  ASSUME TypeOK, SendTypes, NEW c \in Conn, NEW d \in Conn \ {c},
         ClientMoves(c)
  PROVE  Same(d) /\ Growing
<1> USE DEF Growing, TypeOK, SendTypes, SendTypeOK, Same, At, server, vars, store, session,
            net, history
<1>1. ASSUME NEW m \in Mail, DialSerial(c, m) PROVE Same(d) /\ Growing
  BY <1>1 DEF DialSerial, Begin
<1>2. ASSUME NEW m \in Mail, NEW k \in Kinds, Dial(c, m, k)
      PROVE  Same(d) /\ Growing
  BY <1>2 DEF Dial, Begin, Accept, Goto
<1>3. CASE Connect(c) \/ DialFails(c)
  BY <1>3 DEF Connect, DialFails, Accept, Goto
<1>4. ASSUME NEW from, NEW q, NEW next, Sends(c, from, q, next)
      PROVE  Same(d) /\ Growing
  BY <1>4 DEF Sends, SendsFrame
<1>5. CASE ReadHelo(c) \/ ReadFetched(c) \/ ReadAnswer(c) \/ ReadFails(c)
  BY <1>5 DEF ReadHelo, ReadFetched, ReadAnswer, ReadFails, PeerReads
<1>6. CASE Hangup(c)
  BY <1>6 DEF Hangup, PeerGone
<1> QED
  BY <1>1, <1>2, <1>3, <1>4, <1>5, <1>6
  DEF ClientMoves, ClientStep, SendHelo, SendFetch, SendMsg, Close, Kill

(* Without a connection.                                                    *)
LEMMA DialsOK ==
  ASSUME TypeOK, SendTypes, NEW c \in Conn, ConnOK(c),
         DialFails(c) \/ \E m \in Mail : DialSerial(c, m)
  PROVE  ConnOK(c)'
<1>1. /\ link[c] \in {"none", "cut"}
      /\ pc'[c] \in {"idle", "dialing"}
      /\ UNCHANGED <<link, phase, toSrv, toCli>>
  BY DEF DialFails, DialSerial, Begin, At, SendTypes, SendTypeOK, ConnOK, LinkOK,
         server, vars, session, net
<1>2. LinkOK(c)'
  BY <1>1 DEF ConnOK, LinkOK
<1>3. AckOK(c)'
  BY <1>1 DEF ConnOK, LinkOK, AckOK
<1> QED
  BY <1>1, <1>2, <1>3 DEF ConnOK

LEMMA ConnectsOK ==
  ASSUME TypeOK, SendTypes, NEW c \in Conn, ConnOK(c),
         Connect(c) \/ \E m \in Mail, k \in Kinds : Dial(c, m, k)
  PROVE  ConnOK(c)'
<1>1. /\ link[c] = "none" /\ link'[c] = "up" /\ phase'[c] = "helo"
      /\ pc'[c] = "dialed"
      /\ UNCHANGED <<toSrv, toCli>>
  BY DEF Connect, Dial, Begin, Accept, Goto, At, SendTypes, SendTypeOK, TypeOK
<1>2. Clear(c)
  BY <1>1 DEF ConnOK, LinkOK, Clear
<1>3. LinkOK(c)' /\ AckOK(c)' /\ UpOK(c)'
  BY <1>1, <1>2 DEF LinkOK, AckOK, UpOK, Clear
<1> QED
  BY <1>1, <1>3 DEF ConnOK

LEMMA ReadsOK ==
  ASSUME TypeOK, SendTypes, NEW c \in Conn, ConnOK(c),
         ReadHelo(c) \/ ReadFetched(c) \/ ReadAnswer(c)
  PROVE  ConnOK(c)'
<1> USE DEF SendTypes, SendTypeOK
<1>1. /\ toCli[c] # <<>> /\ toCli'[c] = Tail(toCli[c])
      /\ UNCHANGED <<link, phase, cur, unsent, toSrv, acked, offered, kind, msg>>
      /\ Frame(c) = Head(toCli[c]).kind
  BY DEF ReadHelo, ReadFetched, ReadAnswer, PeerReads, TypeOK, session, history,
         Frame
<1>2. toCli[c] \in Seq(Response)
  BY DEF TypeOK
<1>3. /\ Head(toCli[c]) = toCli[c][1] /\ 1 \in 1..Len(toCli[c])
      /\ \A n \in 1..Len(toCli'[c]) :
           n + 1 \in 1..Len(toCli[c]) /\ toCli'[c][n] = toCli[c][n + 1]
  BY <1>1, <1>2, TailIn, HeadTailProperties, EmptySeq
<1>4. \/ pc[c] = "helo" /\ pc'[c] \in {"ready", "done"}
      \/ pc[c] = "fetch" /\ pc'[c] = "fetched" /\ Frame(c) = "NO_MAIL"
      \/ pc[c] = "fetch" /\ pc'[c] = "fetch"
      \/ pc[c] = "wait" /\ pc'[c] = "done"
  BY DEF ReadHelo, ReadFetched, ReadAnswer, At
<1> Deluded(c) => Deluded(c)'
  BY <1>1, DeludedStays DEF Growing
<1>5. LinkOK(c)'
  BY <1>1, <1>4 DEF ConnOK, LinkOK
<1>6. AckOK(c)'
  BY <1>1, <1>3 DEF ConnOK, AckOK, Taken
<1>7. UpOK(c) => UpOK(c)'
  <2> SUFFICES ASSUME UpOK(c) PROVE UpOK(c)'
    OBVIOUS
  <2>1. CASE pc[c] = "helo" /\ pc'[c] \in {"ready", "done"}
    BY <1>1, <2>1 DEF UpOK, Clear, AskedFor, OneLeft
  <2>2. CASE pc[c] = "fetch" /\ pc'[c] = "fetched" /\ Frame(c) = "NO_MAIL"
    BY <1>1, <1>3, <2>2 DEF UpOK, Clear, AskedFor, OneLeft, NoEnd
  <2>3. CASE pc[c] = "fetch" /\ pc'[c] = "fetch"
    <3>1. NoEnd(c) \/ OneLeft(c) \/ Deluded(c) => NoEnd(c)' \/ Deluded(c)'
      <4>1. NoEnd(c) => NoEnd(c)'
        BY <1>3 DEF NoEnd
      <4>2. OneLeft(c) => toCli'[c] = <<>>
        BY <1>1 DEF OneLeft
      <4>3. toCli'[c] = <<>> => NoEnd(c)'
        BY DEF NoEnd
      <4> QED
        BY <4>1, <4>2, <4>3
    <3>2. /\ phase[c] \in {"loop", "batch", "purge"} /\ toSrv[c] = <<>>
          /\ NoEnd(c) \/ OneLeft(c) \/ Deluded(c)
      BY <1>1, <2>3 DEF UpOK, AskedFor
    <3>3. phase'[c] \in {"loop", "batch", "purge"} /\ toSrv'[c] = <<>>
      BY <1>1, <3>2
    <3> QED
      BY <2>3, <3>1, <3>2, <3>3 DEF UpOK
  <2>4. CASE pc[c] = "wait" /\ pc'[c] = "done"
    BY <2>4 DEF UpOK
  <2> QED
    BY <1>4, <2>1, <2>2, <2>3, <2>4
<1>8. ClosedOK(c) => ClosedOK(c)'
  <2> SUFFICES ASSUME ClosedOK(c) PROVE ClosedOK(c)'
    OBVIOUS
  <2>1. OneLeft(c) => toCli'[c] = <<>> /\ NoEnd(c)'
    <3>1. OneLeft(c) => toCli'[c] = <<>>
      BY <1>1 DEF OneLeft
    <3>2. toCli'[c] = <<>> => NoEnd(c)'
      BY DEF NoEnd
    <3> QED
      BY <3>1, <3>2
  <2>2. NoEnd(c) => NoEnd(c)' /\ Frame(c) # "NO_MAIL"
    BY <1>1, <1>3 DEF NoEnd
  <2>3. CASE pc[c] = "fetch"
    <3>1. pc'[c] = "fetched" => Frame(c) = "NO_MAIL"
      BY <1>4, <2>3
    <3>2. pc'[c] \in {"fetch", "fetched"}
      BY <1>4, <2>3
    <3>3. NoEnd(c) \/ OneLeft(c) \/ Deluded(c)
      BY <2>3 DEF ClosedOK
    <3> QED
      BY <2>1, <2>2, <3>1, <3>2, <3>3 DEF ClosedOK
  <2>4. CASE pc[c] # "fetch"
    BY <1>1, <1>4, <2>1, <2>4 DEF ClosedOK
  <2> QED
    BY <2>3, <2>4
<1> QED
  BY <1>1, <1>5, <1>6, <1>7, <1>8 DEF ConnOK

LEMMA ReadFailsOK ==
  ASSUME TypeOK, SendTypes, NEW c \in Conn, ConnOK(c), ReadFails(c)
  PROVE  ConnOK(c)'
<1>1. /\ UNCHANGED <<link, phase, cur, unsent, toSrv, toCli, acked, offered, kind,
                     msg>>
      /\ toCli[c] = <<>> /\ (link[c] = "closed" \/ kind[c] = "dialup")
      /\ pc[c] \in {"fetch", "helo", "wait"} /\ pc'[c] \in {"fetched", "done"}
  BY DEF ReadFails, At, SendTypes, SendTypeOK, server, vars, session, net, history
<1>2. LinkOK(c)' /\ AckOK(c)'
  BY <1>1 DEF ConnOK, LinkOK, AckOK, Taken
<1>3. link[c] = "closed" => ClosedOK(c)'
  BY <1>1 DEF ClosedOK
<1>4. kind'[c] # "dialup" => link'[c] = "closed"
  BY <1>1
<1> QED
  BY <1>1, <1>2, <1>3, <1>4 DEF ConnOK

LEMMA HangupOK ==
  ASSUME TypeOK, SendTypes, NEW c \in Conn, ConnOK(c), Hangup(c)
  PROVE  ConnOK(c)'
<1>1. PICK n \in 0..Len(toSrv[c]) :
        toSrv' = [toSrv EXCEPT ![c] = SubSeq(@, 1, n)]
  BY DEF Hangup, PeerGone
<1>2. /\ \/ link[c] = "up" /\ link'[c] = "cut"
         \/ link[c] = "closed" /\ link'[c] = "none"
      /\ phase'[c] = phase[c] /\ toCli'[c] = <<>> /\ pc'[c] = "idle"
      /\ toSrv'[c] = SubSeq(toSrv[c], 1, n)
  BY <1>1 DEF Hangup, PeerGone, At, TypeOK, SendTypes, SendTypeOK, session
<1>3. link[c] = "closed" => phase[c] = "free" /\ toSrv'[c] = <<>>
  BY <1>2 DEF ConnOK, LinkOK
<1>4. LinkOK(c)' /\ AckOK(c)'
  BY <1>2, <1>3 DEF LinkOK, AckOK
<1> QED
  BY <1>2, <1>4 DEF ConnOK

(* One of the three frames a client sends, and where it stands then.        *)
LEMMA SendsOK ==
  ASSUME TypeOK, SendTypes, NEW c \in Conn, ConnOK(c), NEW q \in Request,
         NEW from, NEW next, Sends(c, from, q, next),
         \/ from = "dialed" /\ next = "helo" /\ q.type = "HELO"
         \/ /\ from = "ready" /\ next = "fetch" /\ q.type = "FETCH"
            /\ q.ref = From[msg[c]]
         \/ /\ from = (IF kind[c] = "radio" THEN "ready" ELSE "fetched")
            /\ next = "wait" /\ q.type = "MSG" /\ q.ref = msg[c]
  PROVE  ConnOK(c)'
<1> USE DEF SendTypes, SendTypeOK
<1>1. /\ pc[c] = from /\ pc'[c] \in {next, "done"}
      /\ UNCHANGED <<link, phase, cur, unsent, toCli, acked, offered, kind, msg>>
      /\ pc[c] \in {"dialed", "ready", "fetched"}
      /\ pc'[c] \in {"helo", "fetch", "wait", "done"}
  BY DEF Sends, SendsFrame, At, server, vars, session, net, history
<1> Deluded(c) => Deluded(c)'
  BY <1>1, DeludedStays DEF Growing
<1>2. LinkOK(c) => link[c] \notin {"none", "cut"}
  BY <1>1 DEF LinkOK
<1>3. CASE link[c] = "closed"
  <2>1. toSrv'[c] = toSrv[c]
    BY <1>3 DEF Sends, SendsFrame, server, vars, net
  <2>2. LinkOK(c)' /\ AckOK(c)'
    BY <1>1, <1>3, <2>1 DEF ConnOK, LinkOK, AckOK, Taken
  <2>3. ClosedOK(c) => ClosedOK(c)'
    BY <1>1 DEF ClosedOK, NoEnd
  <2> QED
    BY <1>1, <1>3, <2>2, <2>3 DEF ConnOK
<1>4. CASE link[c] = "up"
  <2>1. SendsFrame(c, q) /\ pc'[c] = next
    BY <1>4 DEF Sends, At
  <2>2. toSrv'[c] = Append(toSrv[c], q) /\ toSrv[c] \in Seq(Request)
    BY <2>1 DEF SendsFrame, TypeOK
  <2>3. \A n \in 1..Len(toSrv'[c]) :
          \/ n \in 1..Len(toSrv[c]) /\ toSrv'[c][n] = toSrv[c][n]
          \/ toSrv'[c][n] = q
    BY <2>2, AppendIn
  <2>4. LinkOK(c)'
    BY <1>1, <1>4 DEF ConnOK, LinkOK
  <2>5. AckOK(c)'
    BY <1>1, <1>4, <2>3 DEF ConnOK, AckOK, Taken
  <2>6. toSrv[c] = <<>> =>
          /\ toSrv'[c] # <<>> /\ Tail(toSrv'[c]) = <<>>
          /\ Head(toSrv'[c]) = q
    BY <2>2, OneFrame
  <2>7. UpOK(c) => UpOK(c)'
    BY <1>1, <2>1, <2>6 DEF UpOK, Clear, AskedFor, Coming
  <2> QED
    BY <1>1, <1>4, <2>4, <2>5, <2>7 DEF ConnOK
<1> QED
  BY <1>2, <1>3, <1>4 DEF ConnOK, TypeOK

(* A client only sends requests that the server knows.                      *)
LEMMA Frames ==
  ASSUME SendTypes, NEW c \in Conn
  PROVE  /\ [type |-> "HELO", ref |-> None] \in Request
         /\ pc[c] # "idle" =>
              /\ [type |-> "FETCH", ref |-> From[msg[c]]] \in Request
              /\ [type |-> "MSG", ref |-> msg[c]] \in Request
  BY MailAssumption DEF SendTypes, Request

LEMMA OwnClient ==
  ASSUME TypeOK, SendTypes, NEW c \in Conn, ConnOK(c), ClientMoves(c)
  PROVE  ConnOK(c)'
<1>1. ASSUME SendHelo(c) \/ SendFetch(c) \/ SendMsg(c) PROVE ConnOK(c)'
  <2>1. pc[c] # "idle"
    BY <1>1 DEF SendHelo, SendFetch, SendMsg, Sends
  <2>2. CASE SendHelo(c)
    BY <2>2, Frames, SendsOK DEF SendHelo
  <2>3. CASE SendFetch(c)
    BY <2>1, <2>3, Frames, SendsOK DEF SendFetch
  <2>4. CASE SendMsg(c)
    BY <2>1, <2>4, Frames, SendsOK DEF SendMsg
  <2> QED
    BY <1>1, <2>2, <2>3, <2>4
<1> QED
  BY <1>1, DialsOK, ConnectsOK, ReadsOK, ReadFailsOK, HangupOK
  DEF ClientMoves, ClientStep, Close, Kill

-------------------------------------------------------------------------------
(***************************************************************************)
(* The whole.                                                              *)
(***************************************************************************)
LEMMA NodeConn ==
  ASSUME TypeOK, SessionOK, \A c \in Conn : ConnOK(c), NodeStep,
         UNCHANGED client, NEW d \in Conn
  PROVE  ConnOK(d)'
<1>1. ASSUME NEW c \in Conn, ServerStep(c) PROVE ConnOK(d)'
  <2>1. CASE d = c
    BY <1>1, <2>1, OwnConn
  <2>2. CASE d # c
    BY <1>1, <2>2, OthersSame, SameOK
  <2> QED
    BY <2>1, <2>2
<1>2. CASE Restart \/ \E m \in Mail : Deposit(m)
  <2>1. Same(d) /\ Growing
    BY <1>2 DEF Restart, Deposit, Same, Growing, client, session, net, history
  <2> QED
    BY <2>1, SameOK
<1>3. CASE Crash
  <2>1. /\ phase'[d] = "free" /\ toSrv'[d] = <<>> /\ toCli'[d] = toCli[d]
        /\ Growing
        /\ pc'[d] = pc[d] /\ kind'[d] = kind[d] /\ msg'[d] = msg[d]
    BY <1>3 DEF Crash, client, history, Growing
  <2>2. link'[d] = CASE link[d] = "up"  -> "closed"
                     [] link[d] = "cut" -> "none"
                     [] OTHER           -> link[d]
    BY <1>3 DEF Crash
  <2>3. link[d] \in {"none", "up", "cut", "closed"}
    BY DEF TypeOK
  <2>4. \/ link[d] = "up" /\ link'[d] = "closed"
        \/ link[d] \in {"none", "cut"} /\ link'[d] = "none"
        \/ link[d] = "closed" /\ link'[d] = "closed"
    BY <2>2, <2>3
  <2> QED
    BY <2>1, <2>4, Closing
<1> QED
  BY <1>1, <1>2, <1>3 DEF NodeStep

(* To the server a client is one of its peers, of whose bounds the proofs   *)
(* about the server make no use.                                            *)
AnyFrame == \E c \in Conn : \E q \in Request : SendsFrame(c, q)

LEMMA ToServer ==
  ASSUME SendTypes, [SendNext]_sendVars
  PROVE  [Next]_vars \/ AnyFrame
<1> USE DEF AnyFrame
<1>1. CASE NodeStep \/ UNCHANGED server
  BY <1>1 DEF NodeStep, Next, server
<1>2. ASSUME NEW c \in Conn, ClientMoves(c) PROVE [Next]_vars \/ AnyFrame
  <2>1. ASSUME NEW q \in Request, NEW from, NEW next, Sends(c, from, q, next)
        PROVE  [Next]_vars \/ AnyFrame
    BY <1>1, <2>1 DEF Sends
  <2>2. CASE SendHelo(c)
    BY <2>1, <2>2, Frames DEF SendHelo
  <2>3. CASE SendFetch(c) \/ SendMsg(c)
    <3>1. pc[c] # "idle"
      BY <2>3 DEF SendFetch, SendMsg, Sends
    <3> QED
      BY <2>1, <2>3, <3>1, Frames DEF SendFetch, SendMsg
  <2>4. CASE Connect(c) \/ \E m \in Mail, k \in Kinds : Dial(c, m, k)
    BY <2>4 DEF Connect, Dial, Next
  <2>5. CASE \/ DialFails(c) \/ ReadFails(c)
             \/ \E m \in Mail : DialSerial(c, m)
    BY <1>1, <2>5 DEF DialFails, ReadFails, DialSerial
  <2>6. CASE ReadHelo(c) \/ ReadFetched(c) \/ ReadAnswer(c) \/ Hangup(c)
    BY <2>6 DEF ReadHelo, ReadFetched, ReadAnswer, Hangup, PeerStep, Next
  <2> QED
    BY <1>2, <2>2, <2>3, <2>4, <2>5, <2>6
    DEF ClientMoves, ClientStep, Close, Kill
<1> QED
  BY <1>1, <1>2 DEF SendNext, sendVars, ClientMoves

LEMMA SendConserved ==
  ASSUME ConservedInv, SendTypes, [SendNext]_sendVars
  PROVE  ConservedInv'
<1>1. CASE [Next]_vars
  BY <1>1, StepConserved
<1>2. CASE AnyFrame
  BY <1>2, FrameConserved DEF AnyFrame
<1> QED
  BY <1>1, <1>2, ToServer

(* What a client has is what it was called with.                            *)
LEMMA ClientTypes ==
  ASSUME SendTypes, NEW c \in Conn, ClientMoves(c)
  PROVE  SendTypes'
<1> USE DEF SendTypes, SendTypeOK, At
<1> "dialup" \in Kinds
  BY DEF Kinds
<1>1. ASSUME NEW m \in Mail, NEW k \in Kinds, Begin(c, m, k),
             NEW at \in {"dialing", "dialed"}, At(c, at)
      PROVE  SendTypes'
  BY <1>1 DEF Begin
<1>2. CASE \E m \in Mail : DialSerial(c, m) \/ \E k \in Kinds : Dial(c, m, k)
  BY <1>1, <1>2 DEF DialSerial, Dial
<1>3. CASE DialFails(c) \/ Hangup(c)
  BY <1>3 DEF DialFails, Hangup
<1>4. ASSUME NEW at \in {"dialed", "helo", "ready", "fetch", "fetched", "wait",
                         "done"},
             At(c, at), pc[c] # "idle", UNCHANGED <<kind, msg, told>>
      PROVE  SendTypes'
  BY <1>4
<1>5. CASE Connect(c) \/ ReadHelo(c) \/ ReadFetched(c) \/ ReadFails(c)
  BY <1>4, <1>5 DEF Connect, ReadHelo, ReadFetched, ReadFails
<1>6. CASE SendHelo(c) \/ SendFetch(c) \/ SendMsg(c)
  BY <1>4, <1>6 DEF SendHelo, SendFetch, SendMsg, Sends
<1>7. CASE ReadAnswer(c)
  <2>1. pc[c] = "wait" /\ UNCHANGED <<kind, msg>> /\ pc' = [pc EXCEPT ![c] = "done"]
    BY <1>7 DEF ReadAnswer
  <2>2. told' \subseteq Kinds \X Mail \X {"acked", "nil"}
    <3>1. Verdict(c) = "error" \/ Verdict(c) \in {"acked", "nil"}
      BY DEF Verdict
    <3>2. kind[c] \in Kinds /\ msg[c] \in Mail
      BY <2>1
    <3> QED
      BY <1>7, <3>1, <3>2 DEF ReadAnswer
  <2> QED
    BY <2>1, <2>2
<1> QED
  BY <1>2, <1>3, <1>5, <1>6, <1>7 DEF ClientMoves, ClientStep, Close, Kill

(* What a sender is told.                                                   *)
LEMMA ToldStep ==
  ASSUME TypeOK, SendTypes, \A c \in Conn : ConnOK(c), ToldOK,
         NEW c \in Conn, ClientMoves(c), Growing
  PROVE  ToldOK'
<1>1. /\ \A m : Taken(m) => Taken(m)'
      /\ \A x : Misled(x) => Misled(x)'
  BY DEF Taken, Misled, Growing
<1>2. CASE told' = told
  BY <1>1, <1>2 DEF ToldOK, AnswerMatches
<1>3. CASE ReadAnswer(c)
  <2>1. toCli[c] # <<>> /\ pc[c] = "wait" /\ Frame(c) = Head(toCli[c]).kind
        /\ kind[c] \in Kinds /\ msg[c] \in Mail
    BY <1>3 DEF ReadAnswer, PeerReads, Frame, SendTypes
  <2>2. 1 \in 1..Len(toCli[c]) /\ toCli[c][1] = Head(toCli[c])
    <3>1. toCli[c] \in Seq(Response)
      BY DEF TypeOK
    <3> QED
      BY <2>1, <3>1, HeadTailProperties, EmptySeq
  <2>3. Verdict(c) = "acked" => Taken(msg[c])
    <3>1. Verdict(c) = "acked" => Frame(c) = "ACK"
      BY DEF Verdict
    <3> QED
      BY <2>1, <2>2, <3>1 DEF ConnOK, AckOK
  <2>4. kind[c] = "tcp" =>
          Verdict(c) \in {"acked", "error"} \/ Misled(From[msg[c]])
    <3>1. kind[c] = "tcp" => Frame(c) \in Answers \/ Deluded(c)
      <4>1. link[c] \in {"up", "closed"}
        BY <2>1 DEF ConnOK, LinkOK, TypeOK
      <4> QED
        BY <2>1, <4>1 DEF ConnOK, UpOK, ClosedOK, AskedFor, Clear
    <3> QED
      BY <3>1 DEF Answers, Verdict, Deluded
  <2>5. told' = told
        \/ /\ told' = told \cup {<<kind[c], msg[c], Verdict(c)>>}
           /\ Verdict(c) # "error"
    BY <1>3 DEF ReadAnswer
  <2> QED
    BY <1>1, <2>3, <2>4, <2>5 DEF ToldOK, AnswerMatches
<1> QED
  BY <1>2, <1>3
  DEF ClientMoves, ClientStep, Close, Kill, Connect, DialSerial, Dial, DialFails,
      Begin, SendHelo, SendFetch, SendMsg, Sends, ReadHelo, ReadFetched,
      ReadFails, Hangup

(* What was acknowledged or offered stays so.                               *)
LEMMA HistoryGrows ==
  ASSUME [SendNext]_sendVars
  PROVE  Growing
<1> USE DEF Growing, history, server, vars
<1>1. ASSUME NEW c \in Conn, ServerStep(c) PROVE Growing
  BY <1>1 DEF ServerStep, AnswerHelo, RefuseHelo, ReceiveFails, AckDirect,
       CallHandler, StoreForRelay, AckRelay, RefuseRelay, FetchNothing,
       FetchBatch, Deliver, SendFails, Purge, Bye, Ignore
<1>2. CASE Crash \/ Restart \/ \E m \in Mail : Deposit(m)
  BY <1>2 DEF Crash, Restart, Deposit
<1>3. ASSUME NEW c \in Conn, ClientMoves(c) PROVE Growing
  BY <1>3
  DEF ClientMoves, ClientStep, Close, Kill, Connect, DialSerial, Dial, DialFails,
      SendHelo, SendFetch, SendMsg, Sends, ReadHelo, ReadFetched, ReadAnswer,
      ReadFails, Hangup, Accept, SendsFrame, PeerReads, PeerGone
<1> QED
  BY <1>1, <1>2, <1>3 DEF SendNext, NodeStep, ClientMoves, sendVars

LEMMA InitSendInv == SendInit => SendInv
<1> SUFFICES ASSUME SendInit PROVE SendInv
  OBVIOUS
<1>1. ConservedInv
  BY InitConserved DEF SendInit
<1>2. SendTypes
  BY DEF SendInit, SendTypes, SendTypeOK
<1>3. \A c \in Conn : ConnOK(c)
  BY DEF SendInit, Init, ConnOK, LinkOK, AckOK
<1>4. ToldOK
  BY DEF SendInit, ToldOK, AnswerMatches
<1> QED
  BY <1>1, <1>2, <1>3, <1>4 DEF SendInv

LEMMA StepSendInv ==
  ASSUME SendInv, [SendNext]_sendVars
  PROVE  SendInv'
<1> USE DEF SendInv
<1>1. TypeOK /\ SessionOK
  BY DEF ConservedInv
<1>2. ConservedInv'
  BY SendConserved
<1>3. Growing
  BY HistoryGrows
<1>4. CASE NodeStep /\ UNCHANGED client
  <2>1. SendTypes'
    BY <1>4 DEF client, SendTypes, SendTypeOK
  <2>2. ToldOK'
    BY <1>3, <1>4 DEF client, ToldOK, Taken, AnswerMatches, Misled, Growing
  <2>3. \A d \in Conn : ConnOK(d)'
    BY <1>1, <1>4, NodeConn
  <2> QED
    BY <1>2, <2>1, <2>2, <2>3
<1>5. CASE UNCHANGED sendVars
  <2>1. SendTypes' /\ ToldOK'
    BY <1>5 DEF sendVars, server, vars, history, client, SendTypes, SendTypeOK,
                ToldOK, Taken, AnswerMatches, Misled
  <2>2. ASSUME NEW d \in Conn PROVE ConnOK(d)'
    <3>1. Same(d)
      BY <1>5 DEF sendVars, server, vars, session, net, client, Same
    <3> QED
      BY <1>3, <3>1, SameOK
  <2> QED
    BY <1>2, <2>1, <2>2
<1>6. ASSUME NEW c \in Conn, ClientMoves(c) PROVE SendInv'
  <2>1. SendTypes'
    BY <1>6, ClientTypes
  <2>2. ToldOK'
    BY <1>1, <1>3, <1>6, ToldStep
  <2>3. ASSUME NEW d \in Conn PROVE ConnOK(d)'
    <3>1. CASE d = c
      BY <1>1, <1>6, <3>1, OwnClient
    <3>2. CASE d # c
      BY <1>1, <1>6, <3>2, OtherClients, SameOK
    <3> QED
      BY <3>1, <3>2
  <2> QED
    BY <1>2, <2>1, <2>2, <2>3
<1> QED
  BY <1>4, <1>5, <1>6 DEF SendNext, ClientMoves

(* Every variable of the clients keeps its type.                            *)
THEOREM SendTypeCorrect == SendSpec => []SendTypeOK
<1>1. SendInv => SendTypeOK
  BY DEF SendInv, SendTypes
<1> QED
  BY <1>1, InitSendInv, StepSendInv, PTL DEF SendSpec

(* A TCP send that reports success has read the ACK of its message, whatever*)
(* its FETCH found before, if none of that had the subject NO_MAIL.         *)
THEOREM AnswersMatch == SendSpec => []AnswerMatches
<1>1. SendInv => AnswerMatches
  BY DEF SendInv, ToldOK
<1> QED
  BY <1>1, InitSendInv, StepSendInv, PTL DEF SendSpec

(* A client that waits for a frame is owed one by the server, but for the   *)
(* loop after the automatic FETCH: so that loop is the only place where     *)
(* client and server can come to wait for each other.                       *)
THEOREM WaitsAreAlwaysServed == SendSpec => []WaitsAreServed
<1>1. ASSUME SendInv PROVE WaitsAreServed
  <2> SUFFICES ASSUME NEW c \in Conn, Waits(c)
      PROVE  Owes(c) \/ (pc[c] = "fetch" /\ phase[c] \in {"purge", "loop"})
    BY DEF WaitsAreServed
  <2>1. UpOK(c)
    BY <1>1 DEF SendInv, ConnOK, Waits
  <2>2. phase[c] = "batch" => FirstOf(unsent[c]) # {}
    <3>1. unsent[c] \subseteq Row
      BY <1>1 DEF SendInv, ConservedInv, TypeOK
    <3> QED
      BY <1>1, <3>1, FirstExists DEF SendInv, ConservedInv, BatchCovered
  <2> QED
    BY <2>1, <2>2 DEF Waits, Owes, UpOK, AskedFor, OneLeft, Coming
<1> QED
  BY <1>1, InitSendInv, StepSendInv, PTL DEF SendSpec

-------------------------------------------------------------------------------
(***************************************************************************)
(* What was proved of the server among any peers holds among these clients:*)
(* the composition, too, implements Mailbox.                               *)
(***************************************************************************)

(* No mail the node has acknowledged to one of the repository's clients is  *)
(* forgotten before it, or mail with its ID, was handed out.                *)
THEOREM SendConserves == SendSpec => []MailConserved
<1>1. SendInv => MailConserved
  BY DEF SendInv, ConservedInv
<1> QED
  BY <1>1, InitSendInv, StepSendInv, PTL DEF SendSpec

(* Nor is anything stored twice.                                            *)
THEOREM SendStoresOnce == SendSpec => []StoredOncePerSend
<1>1. SendInit => CountInv
  BY InitCount DEF SendInit
<1>2. SendInv /\ CountInv /\ [SendNext]_sendVars => CountInv'
  <2> SUFFICES ASSUME SendInv, CountInv, [SendNext]_sendVars PROVE CountInv'
    OBVIOUS
  <2>1. TypeOK /\ SessionOK /\ SendTypes
    BY DEF SendInv, ConservedInv
  <2> QED
    BY <2>1, ToServer, StepCount, CountFrame DEF AnyFrame
<1>3. SendInv /\ CountInv => StoredOncePerSend
  BY CountBounds DEF SendInv, ConservedInv
<1> QED
  BY <1>1, <1>2, <1>3, InitSendInv, StepSendInv, PTL DEF SendSpec

LEMMA SendRefines ==
  ASSUME UniqueIds, PrefixFree, RefinementInv, SendTypes, [SendNext]_sendVars
  PROVE  RefinementInv' /\ [Relay!Next]_(Relay!mailbox)
<1>1. CASE [Next]_vars
  BY <1>1, StepRefines
<1>2. CASE AnyFrame
  BY <1>2, FrameRefines DEF AnyFrame
<1> QED
  BY <1>1, <1>2, ToServer

(* The node with its clients, who dial, fetch before they send, give up and *)
(* are killed, is a mailbox that gives up nothing before its recipient has  *)
(* asked for it.                                                            *)
THEOREM SendImplementsMailbox ==
  ASSUME UniqueIds, PrefixFree
  PROVE  SendSpec => IsMailbox
<1>1. SendInit => RefinementInv /\ Relay!Init
  BY InitRefines DEF SendInit
<1>2. SendInit => SendInv
  BY InitSendInv
<1>3. SendInv /\ [SendNext]_sendVars => SendInv'
  BY StepSendInv
<1>4. RefinementInv /\ SendInv /\ [SendNext]_sendVars
        => RefinementInv' /\ [Relay!Next]_(Relay!mailbox)
  BY SendRefines DEF SendInv
<1> QED
  BY <1>1, <1>2, <1>3, <1>4, PTL DEF SendSpec, IsMailbox, Relay!Spec

(* The automatic FETCH that comes before every sending, in the name of the  *)
(* message's sender, takes no mail but that sender's.                       *)
THEOREM SendRecipientTakes == SendSpec => []OnlyRecipientTakes
<1>1. CASE UniqueIds /\ PrefixFree
  <2>1. SendSpec => IsMailbox
    BY <1>1, SendImplementsMailbox
  <2>2. NothingTaken => OnlyRecipientTakes
    BY DEF NothingTaken, Kept, OnlyRecipientTakes
  <2> QED
    BY <2>1, <2>2, MailboxTakesNothing, PTL
<1>2. CASE ~(UniqueIds /\ PrefixFree)
  <2>1. OnlyRecipientTakes
    BY <1>2 DEF OnlyRecipientTakes
  <2> QED
    BY <2>1, PTL
<1> QED
  BY <1>1, <1>2

(* What a sender can make of an ACK, now and ever after: the message was for*)
(* the node, or was stored, and is in the bucket, or was handed on, or lost *)
(* with a batch that could not be sent; where IDs are unique and addresses  *)
(* prefix-free, it is in the bucket until its own recipient has asked.      *)
THEOREM AcksAreHonest == SendSpec => []AckHonest
<1>1. SendInv /\ OnlyRecipientTakes => AckHonest
  BY DEF SendInv, ToldOK, Taken, ConservedInv, MailConserved, Covered,
         OnlyRecipientTakes, AckHonest
<1> QED
  BY <1>1, InitSendInv, StepSendInv, SendRecipientTakes, PTL DEF SendSpec

(* Nothing the clients do gets a row past the relay policy.                 *)
THEOREM SendPolicyKept == SendSpec => PolicyHolds
<1>1. ASSUME SendInv, [SendNext]_sendVars PROVE PolicyStep
  <2>1. CASE [Next]_vars
    BY <1>1, <2>1, StepPolicy DEF SendInv, ConservedInv
  <2>2. CASE AnyFrame
    BY <2>2 DEF AnyFrame, SendsFrame, PolicyStep
  <2> QED
    BY <1>1, <2>1, <2>2, ToServer DEF SendInv
<1> QED
  BY <1>1, InitSendInv, StepSendInv, PTL DEF SendSpec, PolicyHolds
================================================================================
