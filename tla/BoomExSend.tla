------------------------------ MODULE BoomExSend ------------------------------
(***************************************************************************)
(* The BoomEx server of BoomExServer with the clients of the repository as *)
(* its peers: SendMessageToPeer (TCP), SendMessageViaDialup and            *)
(* SendMessageViaRadio.  A connection is used by one client at a time,     *)
(* which sends one message over it; a client step is one Send, one Receive *)
(* with what the code does about the frame, or the deferred Close.         *)
(***************************************************************************)
EXTENDS BoomExServer

CONSTANT Calls   \* <<k, m>>: the user may call function k with message m

Kinds == {"tcp", "dialup", "radio"}

ASSUME SendAssumption == Calls \subseteq Kinds \X Mail

VARIABLES
  pc,    \* where the client of a connection stands
  kind,  \* which function it is in
  msg,   \* the message it has to send
  told   \* history: <<k, m, v>>, a sending of m by k ended without an error;
         \* v is "acked" if an ACK was read, else "nil"

client   == <<pc, kind, msg, told>>
server   == vars
sendVars == <<server, client>>

-------------------------------------------------------------------------------
At(c, at) == pc' = [pc EXCEPT ![c] = at]

Active == {c \in Conn : pc[c] # "idle"}

(* Every message being sent may still count.                                *)
WithinBound == sends + Cardinality(Active) < MaxSends

Begin(c, m, k) ==
  /\ pc[c] = "idle"
  /\ <<k, m>> \in Calls
  /\ WithinBound
  /\ kind' = [kind EXCEPT ![c] = k]
  /\ msg' = [msg EXCEPT ![c] = m]
  /\ UNCHANGED told

Dial(c, m, k) ==
  /\ k # "dialup"
  /\ Begin(c, m, k)
  /\ Accept(c)
  /\ At(c, "dialed")

(* dialSerial: the modem is told to dial ...                                *)
DialSerial(c, m) ==
  /\ Begin(c, m, "dialup")
  /\ At(c, "dialing")
  /\ UNCHANGED server

(* ... and says CONNECT, after other lines or at once ...                   *)
Connect(c) ==
  /\ pc[c] = "dialing"
  /\ Accept(c)
  /\ At(c, "dialed")
  /\ UNCHANGED <<kind, msg, told>>

(* ... or BUSY, NO CARRIER, ERROR, or nothing until the timeout.            *)
DialFails(c) ==
  /\ pc[c] = "dialing"
  /\ At(c, "idle")
  /\ kind' = [kind EXCEPT ![c] = None]
  /\ msg' = [msg EXCEPT ![c] = None]
  /\ UNCHANGED <<server, told>>

(* Session.Send.  When the server has closed, the bytes vanish or the Send  *)
(* fails; SendMessageViaDialup does not look at the error of its FETCH.     *)
Sends(c, from, q, next) ==
  /\ pc[c] = from
  /\ \/ SendsFrame(c, q) /\ At(c, next)
     \/ link[c] = "closed" /\ At(c, next) /\ UNCHANGED server
     \/ /\ link[c] = "closed"
        /\ ~ (q.type = "FETCH" /\ kind[c] = "dialup")
        /\ At(c, "done")
        /\ UNCHANGED server
  /\ UNCHANGED <<kind, msg, told>>

SendHelo(c) == Sends(c, "dialed", [type |-> "HELO", ref |-> None], "helo")

SendFetch(c) ==
  /\ kind[c] # "radio"
  /\ Sends(c, "ready", [type |-> "FETCH", ref |-> From[msg[c]]], "fetch")

SendMsg(c) ==
  Sends(c, IF kind[c] = "radio" THEN "ready" ELSE "fetched",
        [type |-> "MSG", ref |-> msg[c]], "wait")

Frame(c) == Head(toCli[c]).kind

(* Handshake: the answer must be a HELO.                                    *)
ReadHelo(c) ==
  /\ pc[c] = "helo"
  /\ PeerReads(c)
  /\ At(c, IF Frame(c) = "HELO" THEN "ready" ELSE "done")
  /\ UNCHANGED <<kind, msg, told>>

(* Mutant: one frame is read after a FETCH.                                 *)
ReadOneFetched(c) ==
  /\ pc[c] = "fetch"
  /\ PeerReads(c)
  /\ At(c, "fetched")
  /\ UNCHANGED <<kind, msg, told>>

(* The loop after FETCH: only the subject NO_MAIL, of whatever frame, or an *)
(* error ends it.                                                           *)
ReadFetched(c) ==
  /\ pc[c] = "fetch"
  /\ PeerReads(c)
  /\ At(c, IF Frame(c) = "NO_MAIL" THEN "fetched" ELSE "fetch")
  /\ UNCHANGED <<kind, msg, told>>

(* What the function makes of the answer to its message: over dial-up and   *)
(* radio no answer is an error.                                             *)
Verdict(c) ==
  IF Frame(c) = "ACK" THEN "acked"
  ELSE IF /\ kind[c] = "tcp"
          /\ Frame(c) \in {"RELAY_ERROR", "RELAY_DISABLED", "RELAY_DENIED",
                           "HELO"}
    THEN "error" ELSE "nil"

(* Mutant: an error note does not make the sending fail.                    *)
ReadAnyAnswer(c) ==
  /\ pc[c] = "wait"
  /\ PeerReads(c)
  /\ told' = told \cup {<<kind[c], msg[c], Verdict(c)>>}
  /\ At(c, "done")
  /\ UNCHANGED <<kind, msg>>

ReadAnswer(c) ==
  /\ pc[c] = "wait"
  /\ PeerReads(c)
  /\ told' = IF Verdict(c) = "error" THEN told
             ELSE told \cup {<<kind[c], msg[c], Verdict(c)>>}
  /\ At(c, "done")
  /\ UNCHANGED <<kind, msg>>

(* Mutant: an error does not end the loop after FETCH.                      *)
ReadFailsOnce(c) ==
  /\ toCli[c] = <<>>
  /\ link[c] = "closed" \/ kind[c] = "dialup"
  /\ pc[c] \in {"helo", "wait"}
  /\ At(c, "done")
  /\ UNCHANGED <<server, kind, msg, told>>

(* Receive fails at the end of the stream.  The serial port of a dial-up    *)
(* connection has a read timeout, and bufio gives up after 100 empty reads. *)
ReadFails(c) ==
  /\ toCli[c] = <<>>
  /\ link[c] = "closed" \/ kind[c] = "dialup"
  /\ \/ pc[c] = "fetch" /\ At(c, "fetched")
     \/ pc[c] \in {"helo", "wait"} /\ At(c, "done")
  /\ UNCHANGED <<server, kind, msg, told>>

(* The deferred conn.Close, or the process is killed.                       *)
Hangup(c) ==
  /\ PeerGone(c)
  /\ At(c, "idle")
  /\ kind' = [kind EXCEPT ![c] = None]
  /\ msg' = [msg EXCEPT ![c] = None]
  /\ UNCHANGED told

Close(c) == pc[c] = "done" /\ Hangup(c)
Kill(c)  == pc[c] \notin {"idle", "dialing", "done"} /\ Hangup(c)

ClientStep(c) ==
  \/ DialFails(c)
  \/ SendHelo(c) \/ SendFetch(c) \/ SendMsg(c)
  \/ ReadHelo(c) \/ ReadFetched(c) \/ ReadAnswer(c) \/ ReadFails(c)
  \/ Close(c)

-------------------------------------------------------------------------------
SendInit ==
  /\ Init
  /\ pc = [c \in Conn |-> "idle"]
  /\ kind = [c \in Conn |-> None]
  /\ msg  = [c \in Conn |-> None]
  /\ told = {}

NodeStep ==
  \/ \E c \in Conn : ServerStep(c)
  \/ WithinBound /\ \E m \in Mail : Deposit(m)
  \/ Crash
  \/ Restart

SendNext ==
  \/ NodeStep /\ UNCHANGED client
  \/ \E c \in Conn :
       \/ \E m \in Mail : DialSerial(c, m) \/ \E k \in Kinds : Dial(c, m, k)
       \/ Connect(c) \/ ClientStep(c) \/ Kill(c)

SendSpec == SendInit /\ [][SendNext]_sendVars

(* Goroutines that can run do, and the client processes too; nobody need    *)
(* ever dial, kill a client, stop or start the node.                        *)
Fairness ==
  \A c \in Conn :
    /\ WF_sendVars(ServerStep(c) /\ UNCHANGED client)
    /\ WF_sendVars(ClientStep(c))

FairSendSpec == SendSpec /\ Fairness

-------------------------------------------------------------------------------
SendTypeOK ==
  /\ pc \in [Conn -> {"idle", "dialing", "dialed", "helo", "ready", "fetch",
                      "fetched", "wait", "done"}]
  /\ kind \in [Conn -> Kinds \cup {None}]
  /\ msg \in [Conn -> Mail \cup {None}]
  /\ told \subseteq Kinds \X Mail \X {"acked", "nil"}

(* A sender that reads "delivered and acknowledged" is told this much: the  *)
(* message was for the node, or the node has stored it, and from then on it *)
(* is in the bucket, or was handed to a Send for somebody who fetched it, or*)
(* was lost with the batch of a broken connection (or one of the last two   *)
(* happened to mail with its ID).  With unique IDs and prefix-free addresses*)
(* nobody but its recipient can have made it leave.  That it arrives is more*)
(* than the code gives.                                                     *)
AckHonest ==
  \A k \in Kinds, m \in Mail :
    <<k, m, "acked">> \in told =>
      \/ To[m] = Me
      \/ /\ m \in acked
         /\ Stored(m) \/ HandedOn(m) \/ Lost(m)
         /\ UniqueIds /\ PrefixFree => Stored(m) \/ <<m, To[m]>> \in offered

(* A FETCH in the name of this sender has found mail that reads NO_MAIL.     *)
Misled(sender) ==
  \E m \in Mail : Subject[m] = "NO_MAIL" /\ <<m, sender>> \in offered

(* SendMessageToPeer takes the first frame after its message for the answer *)
(* to it.  It is: the frames of the FETCH before it are all read, so a TCP  *)
(* send without an error has been acknowledged.  Unless there was mail with *)
(* the subject NO_MAIL for the sender, which ends the loop before its time. *)
AnswerMatches ==
  \A t \in told : t[1] = "tcp" => t[3] = "acked" \/ Misled(From[t[2]])

(* The client waits for a NO_MAIL, the server for the next request.         *)
Starved(c) ==
  /\ pc[c] = "fetch"
  /\ link[c] = "up" /\ toCli[c] = <<>>
  /\ phase[c] = "loop" /\ toSrv[c] = <<>>

(* Nobody waits for an answer that is not due: while a client is at Receive *)
(* with no frame on its way, the goroutine of its connection has its request*)
(* before it, or owes it an ACK or the next row of a batch.  That goes for a*)
(* client, too, that sends its message while a batch is still being sent.   *)
(* The one exception is the loop after the automatic FETCH.  (The serial    *)
(* port of a dial-up client has a timeout.)                                 *)
Waits(c) ==
  /\ pc[c] \in {"helo", "fetch", "wait"} /\ kind[c] # "dialup"
  /\ link[c] = "up" /\ toCli[c] = <<>>

Owes(c) ==
  \/ phase[c] \in {"helo", "loop", "purge"} /\ toSrv[c] # <<>>
  \/ phase[c] = "ack"
  \/ phase[c] = "batch" /\ FirstOf(unsent[c]) # {}

WaitsAreServed ==
  \A c \in Conn :
    Waits(c) => Owes(c) \/ (pc[c] = "fetch" /\ phase[c] \in {"purge", "loop"})

(* Sending comes to an end, unless client and server come to wait for each  *)
(* other after the automatic FETCH.  (Over radio nothing ends a Receive.)   *)
SendEndsOrStarves ==
  \A c \in Conn :
    pc[c] = "dialed" /\ kind[c] # "radio" ~> pc[c] = "idle" \/ Starved(c)

(* "Send message to peer": sending comes to an end.                         *)
SendEnds == \A c \in Conn : pc[c] = "dialed" ~> pc[c] = "idle"
================================================================================
