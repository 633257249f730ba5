---------------------------------- MODULE Api ----------------------------------
(***************************************************************************)
(* The HTTP server of a node (internal/api) over its database: the peer    *)
(* book (internal/peer), the echo areas (internal/echo) and the bucket of  *)
(* mail (MailBucket).  net/http runs each request in a goroutine of its    *)
(* own; its bbolt transactions are atomic, what it does between them is    *)
(* not.  The mesh is asked by FindPeer and may answer anything; the BoomEx *)
(* server of the same process hands out and deletes mail.  Requests that   *)
(* are refused before they do anything, and those that only read, change   *)
(* nothing and are left out, but for export, whose pack can come back.     *)
(***************************************************************************)
EXTENDS MailBucket, FiniteSets

CONSTANTS
  Req,        \* requests under way at one time
  Conn,       \* FETCHes of the BoomEx server under way at one time
  None,
  Area,       \* the addresses that name echo areas
  Contact,    \* bound: the addresses that the user adds as peers
  Self,       \* the addresses the node has had (key and geo make it)
  Host,       \* host:port of a BoomEx server
  NoHost,     \* the empty TCPHost of a peer nobody has located
  Missing,    \* the peer is not in the book
  MaxStores   \* bound: requests that store mail

ASSUME ApiAssumption ==
  /\ Area \subseteq Address
  /\ Contact \subseteq Address
  /\ Self \subseteq Address
  /\ NoHost \notin Host /\ Missing \notin Host /\ NoHost # Missing
  /\ None \notin Mail /\ None \notin Address
  /\ None \notin [moderator : Self, messages : Nat]
  /\ MaxStores \in Nat
  /\ IsFiniteSet(Req)

VARIABLES
  up, me,        \* the process runs; its address
  book,          \* bucket "peers": TCPHost of each address, or Missing
  areas,         \* bucket "echoes": [moderator, messages] of each area, or None
  box, clock,    \* bucket "messages_msg" and the clock of its keys
  pc,            \* where a request stands
  peer, mail,    \* whom and which message it is about
  host,          \* the TCP address it has found
  left,          \* what of the pack it imports is still to be stored
  saved,         \* the messages it has stored
  batch,         \* rows that each FETCH has found and will delete
  begun,         \* counts the requests that store mail, for the bound
  made,          \* history: messages this node has made
  exported,      \* history: messages in packs exported by this node
  answered,      \* history: messages confirmed by a request that has stored them
  taken,         \* history: messages found by a FETCH
  stored,        \* history: posts to an area whose store was committed
  confirmed      \* history: posts to an area confirmed to their authors

db      == <<book, areas, box, clock>>
request == <<pc, peer, mail, host, left, saved>>
history == <<made, exported, answered, taken, stored, confirmed>>
vars    == <<up, me, db, request, batch, begun, history>>

EchoArea == [moderator : Self, messages : Nat]

-------------------------------------------------------------------------------
Idle(r) == up /\ pc[r] = "idle"

Goto(r, at) == pc' = [pc EXCEPT ![r] = at]

(* The handler returns and forgets its variables.                           *)
Return(r) ==
  /\ Goto(r, "idle")
  /\ peer' = [peer EXCEPT ![r] = None]
  /\ mail' = [mail EXCEPT ![r] = None]
  /\ host' = [host EXCEPT ![r] = NoHost]
  /\ left' = [left EXCEPT ![r] = {}]
  /\ saved' = [saved EXCEPT ![r] = {}]

(* boomex.StoreMessageForRelay, in one transaction.                         *)
Store(r, m) ==
  /\ box' = StoreMessageForRelay(box, m, clock + 1)
  /\ clock' = clock + 1
  /\ saved' = [saved EXCEPT ![r] = @ \cup {m}]

StoreFails == UNCHANGED <<box, clock, saved>>

(* A message of this node is made once: its ID is the time.                 *)
Compose(m) ==
  /\ m \notin made /\ From[m] = me
  /\ made' = made \cup {m}
  /\ begun < MaxStores
  /\ begun' = begun + 1

-------------------------------------------------------------------------------
(* POST /api/peers: the mesh is asked first, then the peer is put into the  *)
(* book, with the address found or without one.                             *)
HandlePeers(r, a) ==
  /\ Idle(r)
  /\ \E h \in Host \cup {NoHost} : host' = [host EXCEPT ![r] = h]
  /\ peer' = [peer EXCEPT ![r] = a]
  /\ Goto(r, "addPeer")
  /\ UNCHANGED <<up, me, db, mail, left, saved, batch, begun, history>>

(* Mutant: a peer that exists is written anew.                              *)
AddPeerAnew(r) ==
  /\ pc[r] = "addPeer"
  /\ book' = [book EXCEPT ![peer[r]] = host[r]]
  /\ Return(r)
  /\ UNCHANGED <<up, me, areas, box, clock, batch, begun, history>>

(* The peer exists already, or the transaction fails: an error is answered. *)
AddPeer(r) ==
  /\ pc[r] = "addPeer"
  /\ \/ book[peer[r]] = Missing /\ book' = [book EXCEPT ![peer[r]] = host[r]]
     \/ book' = book
  /\ Return(r)
  /\ UNCHANGED <<up, me, areas, box, clock, batch, begun, history>>

-------------------------------------------------------------------------------
(* POST /api/msg                                                            *)

(* Mutant: a peer that is not in the book is taken for one without address. *)
HandleAnyMsg(r, m) ==
  /\ Idle(r)
  /\ Compose(m)
  /\ mail' = [mail EXCEPT ![r] = m]
  /\ host' = [host EXCEPT ![r] = book[To[m]]]
  /\ Goto(r, IF book[To[m]] = NoHost THEN "find" ELSE "send")
  /\ UNCHANGED <<up, me, db, peer, left, saved, batch, exported, answered,
                 taken, stored, confirmed>>

(* GetPeer: 404 for a peer that is not in the book.                         *)
HandleMsg(r, m) ==
  /\ Idle(r)
  /\ book[To[m]] # Missing
  /\ Compose(m)
  /\ mail' = [mail EXCEPT ![r] = m]
  /\ host' = [host EXCEPT ![r] = book[To[m]]]
  /\ Goto(r, IF book[To[m]] = NoHost THEN "find" ELSE "send")
  /\ UNCHANGED <<up, me, db, peer, left, saved, batch, exported, answered,
                 taken, stored, confirmed>>

FindHost(r) ==
  /\ pc[r] = "find"
  /\ \E h \in Host \cup {NoHost} :
       /\ host' = [host EXCEPT ![r] = h]
       /\ Goto(r, IF h = NoHost THEN "relay" ELSE "update")
  /\ UNCHANGED <<up, me, db, peer, mail, left, saved, batch, begun, history>>

(* The address is written to the book whatever is there by now; the error of*)
(* a failing transaction is ignored.                                        *)
UpdatePeerTCP(r) ==
  /\ pc[r] = "update"
  /\ LET dest == To[mail[r]] IN
       \/ book[dest] # Missing /\ book' = [book EXCEPT ![dest] = host[r]]
       \/ book' = book
  /\ Goto(r, "send")
  /\ UNCHANGED <<up, me, areas, box, clock, peer, mail, host, left, saved,
                 batch, begun, history>>

(* The error of a store that fails is ignored ...                           *)
StoreForRelay(r) ==
  /\ pc[r] = "relay"
  /\ Store(r, mail[r]) \/ StoreFails
  /\ Goto(r, "reply")
  /\ UNCHANGED <<up, me, book, areas, peer, mail, host, left, batch, begun,
                 history>>

(* ... and "Peer offline. Message stored for relay." answered all the same. *)
ReplyStored(r) ==
  /\ pc[r] = "reply"
  /\ answered' = answered \cup saved[r]
  /\ Return(r)
  /\ UNCHANGED <<up, me, db, batch, begun, made, exported, taken, stored,
                 confirmed>>

(* boomex.SendMessageToPeer, which may fail and need not return: nothing of *)
(* the database depends on it.                                              *)
SendMessage(r) ==
  /\ pc[r] = "send"
  /\ Return(r)
  /\ UNCHANGED <<up, me, db, batch, begun, history>>

-------------------------------------------------------------------------------
(* Echo areas                                                               *)

(* Mutant: an area that exists is written anew.                             *)
SubscribeAnew(a) ==
  /\ up
  /\ areas' = [areas EXCEPT ![a] = [moderator |-> me, messages |-> 0]]
  /\ UNCHANGED <<up, me, book, box, clock, request, batch, begun, history>>

(* POST /api/echoes: one transaction, which leaves an area that exists.     *)
Subscribe(a) ==
  /\ up
  /\ areas[a] = None
  /\ areas' = [areas EXCEPT ![a] = [moderator |-> me, messages |-> 0]]
  /\ UNCHANGED <<up, me, book, box, clock, request, batch, begun, history>>

(* PostToEcho stores the post, to any area ...                              *)
PostToEcho(r, m) ==
  /\ Idle(r)
  /\ To[m] \in Area
  /\ Compose(m)
  /\ \/ /\ Store(r, m)
        /\ stored' = [stored EXCEPT ![To[m]] = @ + 1]
        /\ mail' = [mail EXCEPT ![r] = m]
        /\ Goto(r, "count")
     \/ StoreFails /\ UNCHANGED <<stored, mail, pc>>
  /\ UNCHANGED <<up, me, book, areas, peer, host, left, batch, exported,
                 answered, taken, confirmed>>

(* Mutant: the post is confirmed whether or not it was counted.             *)
CountPostUnseen(r) ==
  /\ pc[r] = "count"
  /\ LET area == To[mail[r]] IN
       /\ \/ areas[area] # None /\ areas' = [areas EXCEPT ![area].messages = @ + 1]
          \/ areas' = areas
       /\ confirmed' = [confirmed EXCEPT ![area] = @ + 1]
  /\ answered' = answered \cup saved[r]
  /\ Return(r)
  /\ UNCHANGED <<up, me, book, box, clock, batch, begun, made, exported,
                 taken, stored>>

(* ... and counts it in a second transaction: an error if there is no such  *)
(* area or the transaction fails, and the post stays stored.                *)
CountPost(r) ==
  /\ pc[r] = "count"
  /\ \/ LET area == To[mail[r]] IN
          /\ areas[area] # None
          /\ areas' = [areas EXCEPT ![area].messages = @ + 1]
          /\ confirmed' = [confirmed EXCEPT ![area] = @ + 1]
          /\ answered' = answered \cup saved[r]
     \/ UNCHANGED <<areas, confirmed, answered>>
  /\ Return(r)
  /\ UNCHANGED <<up, me, book, box, clock, batch, begun, made, exported,
                 taken, stored>>

-------------------------------------------------------------------------------
(* Sneakernet                                                               *)

(* Mutant: what is exported is deleted.                                     *)
ExportAndDelete(a) ==
  /\ up
  /\ FetchMessagesForRelay(box, a) # {}
  /\ exported' = exported \cup MailOf(FetchMessagesForRelay(box, a))
  /\ box' = box \ FetchMessagesForRelay(box, a)
  /\ UNCHANGED <<up, me, book, areas, clock, request, batch, begun, made,
                 answered, taken, stored, confirmed>>

(* POST /api/export: the rows of the recipient, which stay in the bucket.   *)
Export(a) ==
  /\ up
  /\ FetchMessagesForRelay(box, a) # {}
  /\ exported' = exported \cup MailOf(FetchMessagesForRelay(box, a))
  /\ UNCHANGED <<up, me, db, request, batch, begun, made, answered, taken,
                 stored, confirmed>>

(* A pack holds mail exported here or, of other nodes' mail, anything.      *)
Importable == exported \cup {m \in Mail : From[m] \notin Self}

(* POST /api/import                                                         *)
HandleImport(r, S) ==
  /\ Idle(r)
  /\ S # {} /\ S \subseteq Importable
  /\ begun < MaxStores
  /\ begun' = begun + 1
  /\ left' = [left EXCEPT ![r] = S]
  /\ Goto(r, "import")
  /\ UNCHANGED <<up, me, db, peer, mail, host, saved, batch, history>>

(* One transaction per message; the error of one that fails is ignored.     *)
ImportNext(r) ==
  /\ pc[r] = "import"
  /\ \E m \in left[r] :
       /\ Store(r, m) \/ StoreFails
       /\ left' = [left EXCEPT ![r] = @ \ {m}]
  /\ UNCHANGED <<up, me, book, areas, pc, peer, mail, host, batch, begun,
                 history>>

(* "Imported %d messages"                                                   *)
ImportDone(r) ==
  /\ pc[r] = "import"
  /\ left[r] = {}
  /\ answered' = answered \cup saved[r]
  /\ Return(r)
  /\ UNCHANGED <<up, me, db, batch, begun, made, exported, taken, stored,
                 confirmed>>

-------------------------------------------------------------------------------
(* The BoomEx server of the node, as BoomExServer has it: a FETCH finds     *)
(* rows, and later all rows with their IDs are deleted, while its other     *)
(* goroutines may do the same.                                              *)
RemoteFetch(c, a) ==
  /\ up /\ batch[c] = {}
  /\ FetchMessagesForRelay(box, a) # {}
  /\ batch' = [batch EXCEPT ![c] = FetchMessagesForRelay(box, a)]
  /\ taken' = taken \cup MailOf(FetchMessagesForRelay(box, a))
  /\ UNCHANGED <<up, me, db, request, begun, made, exported, answered,
                 stored, confirmed>>

(* Mutant: the delete goes by recipient.                                    *)
PurgeRecipient(c) ==
  /\ batch[c] # {}
  /\ box' \in {box, {q \in box : \A d \in batch[c] : To[d.mail] # To[q.mail]}}
  /\ batch' = [batch EXCEPT ![c] = {}]
  /\ UNCHANGED <<up, me, book, areas, clock, request, begun, history>>

RemotePurge(c) ==
  /\ batch[c] # {}
  /\ box' \in {box, DeleteMessagesForRelay(box, batch[c])}
  /\ batch' = [batch EXCEPT ![c] = {}]
  /\ UNCHANGED <<up, me, book, areas, clock, request, begun, history>>

(* The process ends and is started again; a new key or another geo in the   *)
(* configuration gives it another address.                                  *)
Crash ==
  /\ up
  /\ up' = FALSE
  /\ pc'   = [r \in Req |-> "idle"]
  /\ peer' = [r \in Req |-> None]
  /\ mail' = [r \in Req |-> None]
  /\ host' = [r \in Req |-> NoHost]
  /\ left' = [r \in Req |-> {}]
  /\ saved' = [r \in Req |-> {}]
  /\ batch' = [c \in Conn |-> {}]
  /\ UNCHANGED <<me, db, begun, history>>

Restart ==
  /\ ~up
  /\ up' = TRUE
  /\ me' \in Self
  /\ UNCHANGED <<db, request, batch, begun, history>>

-------------------------------------------------------------------------------
Init ==
  /\ up = TRUE /\ me \in Self
  /\ book = [a \in Address |-> Missing]
  /\ areas = [a \in Area |-> None]
  /\ box = {} /\ clock = 0
  /\ pc   = [r \in Req |-> "idle"]
  /\ peer = [r \in Req |-> None]
  /\ mail = [r \in Req |-> None]
  /\ host = [r \in Req |-> NoHost]
  /\ left = [r \in Req |-> {}]
  /\ saved = [r \in Req |-> {}]
  /\ batch = [c \in Conn |-> {}] /\ begun = 0
  /\ made = {} /\ exported = {} /\ answered = {} /\ taken = {}
  /\ stored = [a \in Area |-> 0]
  /\ confirmed = [a \in Area |-> 0]

Asked(r) ==
  \/ \E a \in Contact : HandlePeers(r, a)
  \/ \E m \in Mail : HandleMsg(r, m) \/ PostToEcho(r, m)
  \/ \E S \in SUBSET Mail : HandleImport(r, S)

(* Steps of a handler that has begun.                                       *)
Handles(r) ==
  \/ AddPeer(r)
  \/ FindHost(r) \/ UpdatePeerTCP(r) \/ StoreForRelay(r)
  \/ ReplyStored(r)
  \/ CountPost(r)
  \/ ImportNext(r) \/ ImportDone(r)

Next ==
  \/ \E r \in Req : Asked(r) \/ Handles(r) \/ SendMessage(r)
  \/ \E a \in Area : Subscribe(a)
  \/ \E a \in Address : Export(a)
  \/ \E c \in Conn : RemotePurge(c) \/ \E a \in Address : RemoteFetch(c, a)
  \/ Crash \/ Restart

Spec == Init /\ [][Next]_vars

-------------------------------------------------------------------------------
(* The buckets hold what the structs of the code can hold, and a request's  *)
(* variables what its place in the handler needs.                           *)
TypeOK ==
  /\ up \in BOOLEAN /\ me \in Self
  /\ book \in [Address -> Host \cup {NoHost, Missing}]
  /\ areas \in [Area -> EchoArea \cup {None}]
  /\ box \subseteq Row /\ batch \in [Conn -> SUBSET Row]
  /\ clock \in Nat /\ begun \in Nat
  /\ pc \in [Req -> {"idle", "addPeer", "find", "update", "relay", "reply",
                     "send", "count", "import"}]
  /\ peer \in [Req -> Address \cup {None}]
  /\ mail \in [Req -> Mail \cup {None}]
  /\ host \in [Req -> Host \cup {NoHost}]
  /\ left \in [Req -> SUBSET Mail] /\ saved \in [Req -> SUBSET Mail]
  /\ made \subseteq Mail /\ exported \subseteq Mail
  /\ answered \subseteq Mail /\ taken \subseteq Mail
  /\ stored \in [Area -> Nat] /\ confirmed \in [Area -> Nat]
  /\ \A r \in Req :
       /\ pc[r] = "addPeer" => peer[r] \in Address
       /\ pc[r] \in {"find", "update", "relay", "count"} => mail[r] \in Mail
       /\ pc[r] = "update" => host[r] \in Host
       /\ pc[r] = "count" => To[mail[r]] \in Area

(* The counter of an area is wrong in one direction at most: it has every   *)
(* post that was confirmed to its author, and never more than were stored,  *)
(* whatever comes between the two transactions of PostToEcho: other posts,  *)
(* subscriptions, the end of the process.                                   *)
EchoCounted ==
  \A a \in Area :
    IF areas[a] = None THEN confirmed[a] = 0
    ELSE confirmed[a] <= areas[a].messages /\ areas[a].messages <= stored[a]

Kept(m) == m \in MailOf(box) \/ \E n \in taken : Id[n] = Id[m]

(* Mail that the API has confirmed ("stored for relay", "Posted",           *)
(* "Imported") and had stored, for it says so as well when a store failed,  *)
(* is in the bucket until a FETCH finds it or mail with its ID.  Export     *)
(* leaves it there, and a delete by the BoomEx server that was under way    *)
(* when it came takes nothing that was not found.                           *)
AnsweredKept == \A m \in answered : Kept(m)

(* "Do not overwrite an existing area": it stays, with its first moderator, *)
(* and its counter never falls, however often it is subscribed to and by    *)
(* whatever address the node has by then.                                   *)
AreaStep ==
  \A a \in Area :
    areas[a] # None =>
      /\ areas'[a] # None
      /\ areas'[a].moderator = areas[a].moderator
      /\ areas'[a].messages >= areas[a].messages

AreasKept == [][AreaStep]_vars

(* A peer in the book stays there, and one that was located stays located:  *)
(* no request that asked the mesh in vain, before another one had success,  *)
(* puts the empty address back.                                             *)
PeerStep ==
  \A a \in Address :
    /\ book[a] # Missing => book'[a] # Missing
    /\ book[a] \in Host => book'[a] \in Host

PeersKept == [][PeerStep]_vars

(* The mailbox once more, of the mail that comes in through the API.        *)
Relay == INSTANCE Mailbox WITH
  held <- MailOf(box), promised <- answered,
  offered <- {<<m, To[m]>> : m \in taken}

(* The API and the BoomEx server of a node keep one mailbox: requests whose *)
(* stores, counts and answers are separate steps, exports, imports of what  *)
(* was exported, and the two transactions of a FETCH give up nothing before *)
(* its recipient has asked for it.                                          *)
ApiIsMailbox == Relay!Spec
================================================================================
