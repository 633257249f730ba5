----------------------------- MODULE BoomExServer -----------------------------
(***************************************************************************)
(* The BoomEx TCP server of one node (internal/boomex): one goroutine per  *)
(* accepted connection runs handleConnection, all of them share the mail   *)
(* bucket.  A step is what a goroutine does between two points at which    *)
(* another goroutine, the peer, or the end of the process can intervene: a *)
(* received frame and the transaction it leads to, or one Session.Send.    *)
(*                                                                         *)
(* The peers are unconstrained here: any legal frame at any time, closing  *)
(* or losing the connection at any time.  BoomExSend puts the clients of   *)
(* the repository in their place.                                          *)
(***************************************************************************)
EXTENDS MailBucket, Sequences, FiniteSets

CONSTANTS
  Conn,          \* connections
  Me,            \* Server.myAddress
  Subject,       \* the field Message.Subject, which the sender chooses
  Whitelist,     \* Server.whitelist, as a set
  Enabled,       \* RelayConfig.Enabled, the switch relay.enabled: nothing asks it
  Banned,        \* the addresses of the block list loaded at start
  MaxQueue,      \* bound: a peer sends while fewer frames than this are unread
  MaxSends,      \* bound: messages sent by peers or stored by the API, with retries
  None

(* The subjects of the frames the server makes itself.                      *)
Note == {"RELAY_ERROR", "RELAY_DENIED", "RELAY_DISABLED",
         "FETCH_ERROR", "FETCH_DISABLED", "NO_MAIL"}

(* "MAIL" stands for every other subject.                                   *)
ASSUME ServerAssumption ==
  /\ Me \in Address
  /\ Subject \in [Mail -> Note \cup {"MAIL"}]
  /\ Enabled \in BOOLEAN
  /\ Whitelist \subseteq Address
  /\ Banned \subseteq Address
  /\ MaxQueue \in Nat /\ MaxSends \in Nat
  /\ None \notin Mail

VARIABLES
  up,           \* the node process runs
  relayEnabled, \* Server.relayEnabled: the node's mode is "relay"
  bucket,       \* the bucket messages_msg exists
  box,          \* its rows
  clock,        \* the stamp of the newest row
  phase,        \* where the goroutine of a connection stands
  cur,          \* the message it is handling
  batch,        \* the rows its last FETCH found
  unsent,       \* those of them it has still to send
  link,         \* the TCP connection
  toSrv,        \* frames on their way to the server
  toCli,        \* frames on their way to the peer
  sends,        \* how many messages the peers have sent, or the API stored
  \* History, read by no action:
  acked,        \* messages the server has acknowledged as stored for relay
  offered,      \* <<m, a>>: a FETCH by a has found m
  sent,         \* relayed messages handed to Session.Send
  skipped       \* those never sent because a Send of their batch failed

store   == <<relayEnabled, bucket, box, clock>>
session == <<phase, cur, batch, unsent>>
net     == <<link, toSrv, toCli, sends>>
history == <<acked, offered, sent, skipped>>
vars    == <<up, store, session, net, history>>

(* TypeHELO .. TypeFETCH; "OTHER" is any type the switch does not name.     *)
Request ==
  [type : {"HELO", "BYE", "OTHER"}, ref : {None}]
    \cup [type : {"MSG"}, ref : Mail]
    \cup [type : {"FETCH"}, ref : Address]

(* Relayed mail and notes are both frames of TypeMSG.  Their kind is the    *)
(* Subject, all that a client can tell them apart by: mail with the Subject *)
(* of a note is that note to its reader.                                    *)
Response == [kind : {"HELO", "ACK", "MAIL"} \cup Note, mail : Mail \cup {None}]

-------------------------------------------------------------------------------
isInWhitelist(a) == Whitelist = {} \/ a \in Whitelist

Stored(m) == m \in MailOf(box)

(* The goroutine is at Receive and the next frame has one of the types.     *)
Incoming(c, at, types) ==
  /\ phase[c] = at
  /\ toSrv[c] # <<>>
  /\ Head(toSrv[c]).type \in types

Ref(c) == Head(toSrv[c]).ref

Consume(c) == toSrv' = [toSrv EXCEPT ![c] = Tail(@)]

(* Session.Send.  Bytes written to a connection whose peer is gone vanish.  *)
Reply(c, kind, m) ==
  toCli' = IF link[c] = "up"
             THEN [toCli EXCEPT ![c] = Append(@, [kind |-> kind, mail |-> m])]
             ELSE toCli

Goto(c, at) == phase' = [phase EXCEPT ![c] = at]

(* The deferred session.Close: the peer may still read what was sent.       *)
EndSession(c) ==
  /\ phase' = [phase EXCEPT ![c] = "free"]
  /\ link'  = [link EXCEPT ![c] = IF @ = "up" THEN "closed" ELSE "none"]
  /\ toSrv' = [toSrv EXCEPT ![c] = <<>>]
  /\ UNCHANGED <<cur, batch, unsent, toCli, sends>>

-------------------------------------------------------------------------------
(* Before the loop of handleConnection.                                     *)

Accept(c) ==
  /\ up
  /\ link[c] = "none"
  /\ link' = [link EXCEPT ![c] = "up"]
  /\ Goto(c, "helo")
  /\ UNCHANGED <<up, store, cur, batch, unsent, toSrv, toCli, sends, history>>

AnswerHelo(c) ==
  /\ Incoming(c, "helo", {"HELO"})
  /\ Consume(c)
  /\ Reply(c, "HELO", None)
  /\ Goto(c, "loop")
  /\ UNCHANGED <<up, store, cur, batch, unsent, link, sends, history>>

(* Not a HELO, or the HELO response cannot be sent.                         *)
RefuseHelo(c) ==
  /\ \/ Incoming(c, "helo", {"BYE", "OTHER", "MSG", "FETCH"})
     \/ Incoming(c, "helo", {"HELO"}) /\ link[c] = "cut"
  /\ EndSession(c)
  /\ UNCHANGED <<up, store, history>>

(* Receive fails: the peer is gone and everything it sent has been read.    *)
ReceiveFails(c) ==
  /\ phase[c] \in {"helo", "loop"}
  /\ link[c] = "cut"
  /\ toSrv[c] = <<>>
  /\ EndSession(c)
  /\ UNCHANGED <<up, store, history>>

-------------------------------------------------------------------------------
(* case TypeMSG                                                             *)

AckDirect(c) ==
  /\ Incoming(c, "loop", {"MSG"})
  /\ To[Ref(c)] = Me
  /\ Consume(c)
  /\ Reply(c, "ACK", Ref(c))
  /\ cur' = [cur EXCEPT ![c] = Ref(c)]
  /\ Goto(c, "handler")
  /\ UNCHANGED <<up, store, batch, unsent, link, sends, history>>

(* s.handler, the closure of runNode: bans first, then what is not for this *)
(* node is stored for relay (the error, if any, is ignored).  The ban of an *)
(* echo area applies to addresses that name an area, which Me is not.       *)
CallHandler(c) ==
  /\ phase[c] = "handler"
  /\ LET m == cur[c] IN
       IF From[m] \notin Banned /\ To[m] # Me /\ bucket
         THEN /\ box' = StoreMessageForRelay(box, m, clock + 1)
              /\ clock' = clock + 1
         ELSE UNCHANGED <<box, clock>>
  /\ Goto(c, "loop")
  /\ cur' = [cur EXCEPT ![c] = None]
  /\ UNCHANGED <<up, relayEnabled, bucket, batch, unsent, net, history>>

ForOthers(c) == Incoming(c, "loop", {"MSG"}) /\ To[Ref(c)] # Me

(* Mutant: the whitelist is not asked.                                      *)
AcceptsAnyone(c) == relayEnabled

Accepts(c) == relayEnabled /\ isInWhitelist(To[Ref(c)])

(* Mutant: the ACK is made without the message it answers.                  *)
StoreUnnamed(c) ==
  /\ ForOthers(c) /\ Accepts(c) /\ bucket
  /\ Consume(c)
  /\ box' = StoreMessageForRelay(box, Ref(c), clock + 1)
  /\ clock' = clock + 1
  /\ Goto(c, "ack")
  /\ UNCHANGED <<up, relayEnabled, bucket, cur, batch, unsent, link, toCli,
                 sends, history>>

StoreForRelay(c) ==
  /\ ForOthers(c) /\ Accepts(c) /\ bucket
  /\ Consume(c)
  /\ box' = StoreMessageForRelay(box, Ref(c), clock + 1)
  /\ clock' = clock + 1
  /\ cur' = [cur EXCEPT ![c] = Ref(c)]
  /\ Goto(c, "ack")
  /\ UNCHANGED <<up, relayEnabled, bucket, batch, unsent, link, toCli, sends,
                 history>>

(* Mutant: the handler is called for relayed mail, too.                     *)
AckAndHandle(c) ==
  /\ phase[c] = "ack"
  /\ Reply(c, "ACK", cur[c])
  /\ acked' = acked \cup {cur[c]}
  /\ Goto(c, "handler")
  /\ UNCHANGED <<up, store, cur, batch, unsent, link, toSrv, sends,
                 offered, sent, skipped>>

AckRelay(c) ==
  /\ phase[c] = "ack"
  /\ Reply(c, "ACK", cur[c])
  /\ acked' = acked \cup {cur[c]}
  /\ cur' = [cur EXCEPT ![c] = None]
  /\ Goto(c, "loop")
  /\ UNCHANGED <<up, store, batch, unsent, link, toSrv, sends,
                 offered, sent, skipped>>

(* Mutant: the error of the store is not looked at, the mail acknowledged.  *)
AckAnyway(c) ==
  /\ ForOthers(c)
  /\ Consume(c)
  /\ Reply(c, "ACK", Ref(c))
  /\ UNCHANGED <<up, store, session, link, sends, history>>

(* Mutant: mail that is not taken is not answered.                          *)
RefuseSilently(c) ==
  /\ ForOthers(c)
  /\ Consume(c)
  /\ UNCHANGED <<up, store, session, link, toCli, sends, history>>

(* The transaction fails (no bucket, no space), or the mail is not taken.   *)
RefuseRelay(c) ==
  /\ ForOthers(c)
  /\ Consume(c)
  /\ Reply(c, IF ~relayEnabled THEN "RELAY_DISABLED"
              ELSE IF Accepts(c) THEN "RELAY_ERROR" ELSE "RELAY_DENIED",
           Ref(c))
  /\ UNCHANGED <<up, store, session, link, sends, history>>

-------------------------------------------------------------------------------
(* case TypeFETCH                                                           *)

Found(c) == FetchMessagesForRelay(box, Ref(c))

FetchNothing(c) ==
  /\ Incoming(c, "loop", {"FETCH"})
  /\ relayEnabled /\ bucket => Found(c) = {}
  /\ Consume(c)
  /\ Reply(c, IF ~relayEnabled THEN "FETCH_DISABLED"
              ELSE IF ~bucket THEN "FETCH_ERROR" ELSE "NO_MAIL",
           None)
  /\ UNCHANGED <<up, store, session, link, sends, history>>

(* Mutant: the rows are deleted by the transaction that finds them.         *)
FetchAndDelete(c) ==
  /\ Incoming(c, "loop", {"FETCH"})
  /\ relayEnabled /\ bucket
  /\ Found(c) # {}
  /\ Consume(c)
  /\ box' = box \ Found(c)
  /\ batch'  = [batch EXCEPT ![c] = Found(c)]
  /\ unsent' = [unsent EXCEPT ![c] = Found(c)]
  /\ offered' = offered \cup (MailOf(Found(c)) \X {Ref(c)})
  /\ Goto(c, "batch")
  /\ UNCHANGED <<up, relayEnabled, bucket, clock, cur, link, toCli, sends,
                 acked, sent, skipped>>

FetchBatch(c) ==
  /\ Incoming(c, "loop", {"FETCH"})
  /\ relayEnabled /\ bucket
  /\ Found(c) # {}
  /\ Consume(c)
  /\ batch'  = [batch EXCEPT ![c] = Found(c)]
  /\ unsent' = [unsent EXCEPT ![c] = Found(c)]
  /\ offered' = offered \cup (MailOf(Found(c)) \X {Ref(c)})
  /\ Goto(c, "batch")
  /\ UNCHANGED <<up, store, cur, link, toCli, sends, acked, sent, skipped>>

Deliver(c) ==
  /\ phase[c] = "batch"
  /\ \E r \in FirstOf(unsent[c]) :
       /\ Reply(c, Subject[r.mail], r.mail)
       /\ sent' = sent \cup {r.mail}
       /\ unsent' = [unsent EXCEPT ![c] = @ \ {r}]
       /\ Goto(c, IF unsent[c] = {r} THEN "purge" ELSE "batch")
  /\ UNCHANGED <<up, store, cur, batch, link, toSrv, sends,
                 acked, offered, skipped>>

(* A Send fails: the loop over the batch breaks, and the whole batch is     *)
(* deleted all the same.                                                    *)
SendFails(c) ==
  /\ phase[c] = "batch"
  /\ link[c] = "cut"
  /\ skipped' = skipped \cup MailOf(unsent[c])
  /\ unsent' = [unsent EXCEPT ![c] = {}]
  /\ Goto(c, "purge")
  /\ UNCHANGED <<up, store, cur, batch, net, acked, offered, sent>>

(* DeleteMessagesForRelay in a second transaction; its error is ignored.    *)
Purge(c) ==
  /\ phase[c] = "purge"
  /\ \/ box' = DeleteMessagesForRelay(box, batch[c])
     \/ box' = box
  /\ batch' = [batch EXCEPT ![c] = {}]
  /\ Goto(c, "loop")
  /\ UNCHANGED <<up, relayEnabled, bucket, clock, cur, unsent, net, history>>

-------------------------------------------------------------------------------
(* case TypeBYE and default                                                 *)

Bye(c) ==
  /\ Incoming(c, "loop", {"BYE"})
  /\ EndSession(c)
  /\ UNCHANGED <<up, store, history>>

Ignore(c) ==
  /\ Incoming(c, "loop", {"HELO", "OTHER"})
  /\ Consume(c)
  /\ UNCHANGED <<up, store, session, link, toCli, sends, history>>

-------------------------------------------------------------------------------
(* The HTTP API of the same process puts rows into the same bucket and asks *)
(* nobody: mail for a peer it cannot reach, imported mail, echo posts.      *)
Deposit(m) ==
  /\ up /\ bucket
  /\ sends < MaxSends
  /\ sends' = sends + 1
  /\ box' = StoreMessageForRelay(box, m, clock + 1)
  /\ clock' = clock + 1
  /\ UNCHANGED <<up, relayEnabled, bucket, session, link, toSrv, toCli,
                 history>>

-------------------------------------------------------------------------------
(* The process.                                                             *)

(* It ends between two steps: goroutines and sockets are gone, the bucket   *)
(* keeps every committed transaction, the kernel still delivers what was    *)
(* sent.                                                                    *)
Crash ==
  /\ up
  /\ up'     = FALSE
  /\ phase'  = [c \in Conn |-> "free"]
  /\ cur'    = [c \in Conn |-> None]
  /\ batch'  = [c \in Conn |-> {}]
  /\ unsent' = [c \in Conn |-> {}]
  /\ link'   = [c \in Conn |-> CASE link[c] = "up"  -> "closed"
                                 [] link[c] = "cut" -> "none"
                                 [] OTHER           -> link[c]]
  /\ toSrv'  = [c \in Conn |-> <<>>]
  /\ UNCHANGED <<store, toCli, sends, history>>

(* NewServer and Start, with the mode the configuration has by now.         *)
(* createBuckets ignores the error of its transaction.                      *)
Restart ==
  /\ ~up
  /\ up' = TRUE
  /\ relayEnabled' \in BOOLEAN
  /\ bucket' \in {bucket, TRUE}
  /\ UNCHANGED <<box, clock, session, net, history>>

-------------------------------------------------------------------------------
(* The peers.                                                               *)

SendsFrame(c, q) ==
  /\ link[c] = "up"
  /\ toSrv' = [toSrv EXCEPT ![c] = Append(@, q)]
  /\ sends' = IF q.type = "MSG" THEN sends + 1 ELSE sends
  /\ UNCHANGED <<up, store, session, link, toCli, history>>

PeerSends(c) ==
  /\ Len(toSrv[c]) + Len(toCli[c]) < MaxQueue
  /\ \E q \in Request : (q.type = "MSG" => sends < MaxSends) /\ SendsFrame(c, q)

PeerReads(c) ==
  /\ toCli[c] # <<>>
  /\ toCli' = [toCli EXCEPT ![c] = Tail(@)]
  /\ UNCHANGED <<up, store, session, link, toSrv, sends, history>>

(* The peer closes, dies or is cut off.  What it had not read is lost, and  *)
(* of what it had sent only a prefix may still reach the server.            *)
PeerGone(c) ==
  /\ link[c] \in {"up", "closed"}
  /\ link' = [link EXCEPT ![c] = IF @ = "up" THEN "cut" ELSE "none"]
  /\ toCli' = [toCli EXCEPT ![c] = <<>>]
  /\ \E n \in 0..Len(toSrv[c]) :
       toSrv' = [toSrv EXCEPT ![c] = SubSeq(@, 1, n)]
  /\ UNCHANGED <<up, store, session, sends, history>>

-------------------------------------------------------------------------------
Init ==
  /\ up = TRUE
  /\ relayEnabled \in BOOLEAN
  /\ bucket \in BOOLEAN
  /\ box = {}
  /\ clock = 0
  /\ phase  = [c \in Conn |-> "free"]
  /\ cur    = [c \in Conn |-> None]
  /\ batch  = [c \in Conn |-> {}]
  /\ unsent = [c \in Conn |-> {}]
  /\ link   = [c \in Conn |-> "none"]
  /\ toSrv  = [c \in Conn |-> <<>>]
  /\ toCli  = [c \in Conn |-> <<>>]
  /\ sends = 0
  /\ acked = {} /\ offered = {} /\ sent = {} /\ skipped = {}

ServerStep(c) ==
  \/ AnswerHelo(c) \/ RefuseHelo(c) \/ ReceiveFails(c)
  \/ AckDirect(c) \/ CallHandler(c)
  \/ StoreForRelay(c) \/ AckRelay(c) \/ RefuseRelay(c)
  \/ FetchNothing(c) \/ FetchBatch(c)
  \/ Deliver(c) \/ SendFails(c) \/ Purge(c)
  \/ Bye(c) \/ Ignore(c)

PeerStep(c) == PeerSends(c) \/ PeerReads(c) \/ PeerGone(c)

Next ==
  \/ \E c \in Conn : Accept(c) \/ ServerStep(c) \/ PeerStep(c)
  \/ \E m \in Mail : Deposit(m)
  \/ Crash
  \/ Restart

Spec == Init /\ [][Next]_vars

-------------------------------------------------------------------------------
(* Every variable keeps its type: the values the code's structs can hold.   *)
TypeOK ==
  /\ up \in BOOLEAN
  /\ relayEnabled \in BOOLEAN
  /\ bucket \in BOOLEAN
  /\ box \subseteq Row
  /\ clock \in Nat
  /\ phase \in [Conn -> {"free", "helo", "loop", "handler", "ack",
                         "batch", "purge"}]
  /\ cur \in [Conn -> Mail \cup {None}]
  /\ batch \in [Conn -> SUBSET Row]
  /\ unsent \in [Conn -> SUBSET Row]
  /\ link \in [Conn -> {"none", "up", "cut", "closed"}]
  /\ toSrv \in [Conn -> Seq(Request)]
  /\ toCli \in [Conn -> Seq(Response)]
  /\ sends \in Nat
  /\ acked \subseteq Mail
  /\ offered \subseteq Mail \X Address
  /\ sent \subseteq Mail
  /\ skipped \subseteq Mail

(* What may have become of mail that is in the bucket no more.  DELETE goes *)
(* by ID, so mail shares the fate of any other message with its ID.         *)
HandedOn(m) == \E n \in sent : Id[n] = Id[m]
Lost(m)     == \E n \in skipped : Id[n] = Id[m]

Covered(m) == Stored(m) \/ HandedOn(m) \/ Lost(m)

(* Conservation of relayed mail.  A message the server has acknowledged is  *)
(* in the bucket until it, or a message with the same ID, has been handed to*)
(* Session.Send, or was in the rest of a batch of which a Send failed: those*)
(* are deleted without having been sent, and that is the only way to lose   *)
(* mail.  It speaks of the order of store and ACK, and of the two           *)
(* transactions of a FETCH with the stores and fetches of other connections,*)
(* process crashes and failed deletes between them.                         *)
MailConserved == \A m \in acked : Covered(m)

(* When the IDs are unique and no address is a prefix of another, nobody    *)
(* but the recipient makes the server part with a message: one that was     *)
(* acknowledged and is no longer stored has been found by a FETCH of the    *)
(* very address it is for.                                                  *)
OnlyRecipientTakes ==
  UniqueIds /\ PrefixFree =>
    \A m \in acked : Stored(m) \/ <<m, To[m]>> \in offered

(* Nothing is stored twice: whatever becomes of connections, retries and    *)
(* restarts, the bucket has no more rows than messages were sent to the node*)
(* or stored by its API.  A session has two calls that store, one before the*)
(* ACK and one in the handler after it.                                     *)
StoredOncePerSend == Cardinality(box) <= sends

(* The policy the code asks: a session puts a row into the bucket only if   *)
(* node.mode is relay and the whitelist has its recipient, and never mail   *)
(* for the node itself, although the handler that runs after the ACK of such*)
(* mail has a call that stores, too.  (relay.enabled: see SwitchHolds.)     *)
PolicyStep ==
  session' # session =>
    \A r \in box' \ box :
      relayEnabled /\ isInWhitelist(To[r.mail]) /\ To[r.mail] # Me

PolicyHolds == [][PolicyStep]_vars

(* relay.enabled, "accept messages for others?": where it is false a session*)
(* puts nothing into the bucket.  It is read into the configuration and     *)
(* never asked; node.mode alone decides.                                    *)
SwitchStep == session' # session /\ ~Enabled => box' \subseteq box

SwitchHolds == [][SwitchStep]_vars

(* "Blocked message from globally banned": a session puts nothing into the  *)
(* bucket that a banned address sends.  Only the handler looks at the block *)
(* list, and it is not called for mail that is relayed.                     *)
BanStep ==
  session' # session => \A r \in box' \ box : From[r.mail] \notin Banned

BansHold == [][BanStep]_vars

-------------------------------------------------------------------------------
Relay == INSTANCE Mailbox WITH
  held <- MailOf(box), promised <- acked, offered <- offered

(* The relay of the node, with its goroutines, its two transactions per     *)
(* FETCH and its crashes, behaves like the mailbox of Mailbox: it gives up  *)
(* only mail its own recipient has asked for, hands out at a FETCH exactly  *)
(* what is held for the one who asks, and confirms only what it holds or    *)
(* has handed out.                                                          *)
IsMailbox == Relay!Spec
================================================================================
