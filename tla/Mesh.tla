--------------------------------- MODULE Mesh ---------------------------------
(***************************************************************************)
(* The peer discovery of internal/mesh: every node keeps a table of peers  *)
(* (DHT) and exchanges UDP datagrams with them.  Datagrams are lost,       *)
(* duplicated and reordered; a node changes its UDP address, or restarts   *)
(* with an empty table and its seeds, as a relay or as a client.           *)
(*                                                                         *)
(* Every list of addresses in the code has one element: ANNOUNCE and       *)
(* AddPeer make such lists, FOUND copies them.  So an entry has one address*)
(* here.  PING, HOLEPUNCH and PONG touch no state and nobody sends the     *)
(* first two; they are left out.                                           *)
(***************************************************************************)
EXTENDS Naturals, FiniteSets

CONSTANTS
  Node,      \* the nodes, by BM address
  Addr,      \* UDP addresses
  Home,      \* [Node -> SUBSET Addr]: the addresses a node can have
  Modes,     \* [Node -> SUBSET BOOLEAN]: whether node.mode is "relay", as the
             \* configuration says at one start or another
  Seeds,     \* [Node -> SUBSET Node]: seeds.json
  Users,     \* the nodes whose user calls the HTTP API
  Claims,    \* what users say of peers: <<peer, address, is_relay>>
  NoEntry,
  Wanted,    \* bound: the peers that users search for
  MaxNet     \* bound: datagrams under way at one time

ASSUME MeshAssumption ==
  /\ Home \in [Node -> SUBSET Addr]
  /\ Modes \in [Node -> SUBSET BOOLEAN]
  /\ Seeds \in [Node -> SUBSET Node]
  /\ Users \subseteq Node /\ Wanted \subseteq Node
  /\ Claims \subseteq Node \X Addr \X BOOLEAN
  /\ MaxNet \in Nat

VARIABLES
  where,     \* the address a node has
  was,       \* history: the addresses it has had
  relay,     \* Server.isRelay
  wasRelay,  \* history: it has been started as a relay
  table,     \* DHT.peers
  asked,     \* history: the node has sent a FIND
  net        \* datagrams under way

modes == <<relay, wasRelay>>
vars == <<where, was, modes, table, asked, net>>

(* MeshPeer.  Time is not modelled: LastSeen can be 15 minutes ago whenever *)
(* the table is cleaned up.                                                 *)
Entry == [addr : Addr, relay : BOOLEAN]

(* MeshMessage with its source and destination; what no handler reads is    *)
(* left out.                                                                *)

(* Mutant: a node names the address it is configured with.                  *)
AnnounceClaimed(n, dst) ==
  [type |-> "ANNOUNCE", from |-> n, relay |-> relay[n],
   src |-> CHOOSE u \in Home[n] : TRUE, dst |-> dst]

Announce(n, dst) ==
  [type |-> "ANNOUNCE", from |-> n, relay |-> relay[n],
   src |-> where[n], dst |-> dst]
Find(n, from, to, dst) ==
  [type |-> "FIND", from |-> from, to |-> to, src |-> where[n], dst |-> dst]
Found(to, addr, dst) ==
  [type |-> "FOUND", to |-> to, addr |-> addr, dst |-> dst]

Datagram ==
  [type : {"ANNOUNCE"}, from : Node, relay : BOOLEAN, src : Addr, dst : Addr]
    \cup [type : {"FIND"}, from : Node, to : Node, src : Addr, dst : Addr]
    \cup [type : {"FOUND"}, to : Node, addr : Addr, dst : Addr]

-------------------------------------------------------------------------------
(* Any part of what is sent is lost at once.                                *)
Send(rest, datagrams) ==
  \E kept \in SUBSET datagrams :
    /\ Cardinality(rest \cup kept) <= MaxNet
    /\ net' = rest \cup kept

Known(n) == {x \in Node : table[n][x] # NoEntry}

(* DHT.GetAll, as the addresses written to.                                 *)
PeerAddrs(n) == {table[n][x].addr : x \in Known(n)}

AddOrUpdate(n, x, addr, isRelay) ==
  table' = [table EXCEPT ![n][x] = [addr |-> addr, relay |-> isRelay]]

(* handleMessage.  rest is what stays under way: the network may deliver a  *)
(* datagram again.                                                          *)

HandleAnnounce(n, d, rest) ==
  /\ d.type = "ANNOUNCE"
  /\ d.dst = where[n]
  /\ AddOrUpdate(n, d.from, d.src, d.relay)
  /\ Send(rest, {Announce(n, d.src)})
  /\ UNCHANGED <<where, was, modes, asked>>

(* Mutant: the answer is made out to the target, with the address of the    *)
(* node that answers.                                                       *)
AnswerWithOwn(n, d, rest) ==
  /\ d.type = "FIND"
  /\ d.dst = where[n]
  /\ table[n][d.to] # NoEntry
  /\ Send(rest, {Found(d.to, where[n], d.src)})
  /\ UNCHANGED <<where, was, modes, table, asked>>

(* The answer goes to whom the datagram came from, made out to the node that*)
(* began the search.                                                        *)
AnswerFind(n, d, rest) ==
  /\ d.type = "FIND"
  /\ d.dst = where[n]
  /\ table[n][d.to] # NoEntry
  /\ Send(rest, {Found(d.from, table[n][d.to].addr, d.src)})
  /\ UNCHANGED <<where, was, modes, table, asked>>

ForwardFind(n, d, rest) ==
  /\ d.type = "FIND"
  /\ d.dst = where[n]
  /\ table[n][d.to] = NoEntry
  /\ Send(rest, {Find(n, d.from, d.to, u) : u \in PeerAddrs(n) \ {d.src}})
  /\ UNCHANGED <<where, was, modes, table, asked>>

(* Mutant: what is found is taken for a relay.                              *)
FoundRelay(n, d, rest) ==
  /\ d.type = "FOUND"
  /\ d.dst = where[n]
  /\ AddOrUpdate(n, d.to, d.addr, TRUE)
  /\ net' = rest
  /\ UNCHANGED <<where, was, modes, asked>>

HandleFound(n, d, rest) ==
  /\ d.type = "FOUND"
  /\ d.dst = where[n]
  /\ AddOrUpdate(n, d.to, d.addr, FALSE)
  /\ net' = rest
  /\ UNCHANGED <<where, was, modes, asked>>

(* The other goroutines: beaconLoop, cleanupLoop, and the HTTP API.         *)
Beacon(n) ==
  /\ Send(net, {Announce(n, u) : u \in PeerAddrs(n)})
  /\ UNCHANGED <<where, was, modes, table, asked>>

(* FindPeer for a peer that is not in the table.                            *)
FindPeer(n, x) ==
  /\ table[n][x] = NoEntry
  /\ Send(net, {Find(n, n, x, u) : u \in PeerAddrs(n)})
  /\ asked' = [asked EXCEPT ![n] = TRUE]
  /\ UNCHANGED <<where, was, modes, table>>

(* POST /api/mesh takes the address and the is_relay of the request.        *)
AddPeer(n, x) ==
  /\ \E u \in Addr, b \in BOOLEAN :
       <<x, u, b>> \in Claims /\ AddOrUpdate(n, x, u, b)
  /\ UNCHANGED <<where, was, modes, asked, net>>

RemoveStale(n) ==
  /\ \E stale \in (SUBSET Known(n)) \ {{}} :
       table' = [table EXCEPT ![n] =
                   [x \in Node |-> IF x \in stale THEN NoEntry ELSE @[x]]]
  /\ UNCHANGED <<where, was, modes, asked, net>>

(* The environment.                                                         *)
Lose(d) ==
  /\ net' = net \ {d}
  /\ UNCHANGED <<where, was, modes, table, asked>>

Move(n) ==
  /\ \E u \in Home[n] :
       /\ \A x \in Node : where[x] # u
       /\ where' = [where EXCEPT ![n] = u]
       /\ was' = [was EXCEPT ![n] = @ \cup {u}]
  /\ UNCHANGED <<modes, table, asked, net>>

(* Mutant: a seed is added although its name did not resolve.               *)
UnresolvedSeed(n, x, book) ==
  IF x \in Seeds[n]
  THEN [addr |-> IF x \in DOMAIN book THEN book[x] ELSE NoEntry, relay |-> TRUE]
  ELSE NoEntry

(* A seed is entered as a relay whatever it is, unless its UDP address does *)
(* not resolve.                                                             *)
SeedEntry(n, x, book) ==
  IF x \in Seeds[n] \cap DOMAIN book THEN [addr |-> book[x], relay |-> TRUE]
  ELSE NoEntry

(* The node reads its mode anew.  The seeds' names that resolve do so to    *)
(* addresses the seeds have had.                                            *)
Restart(n) ==
  /\ \E resolved \in SUBSET Seeds[n] :
       \E book \in [resolved -> UNION {was[x] : x \in resolved}] :
         /\ \A x \in resolved : book[x] \in was[x]
         /\ table' = [table EXCEPT ![n] = [x \in Node |-> SeedEntry(n, x, book)]]
  /\ \E b \in Modes[n] :
       /\ relay' = [relay EXCEPT ![n] = b]
       /\ wasRelay' = [wasRelay EXCEPT ![n] = @ \/ b]
  /\ UNCHANGED <<where, was, asked, net>>

-------------------------------------------------------------------------------
Init ==
  /\ where \in {w \in [Node -> Addr] :
                  /\ \A n \in Node : w[n] \in Home[n]
                  /\ \A m, n \in Node : w[m] = w[n] => m = n}
  /\ was = [n \in Node |-> {where[n]}]
  /\ relay \in {b \in [Node -> BOOLEAN] : \A n \in Node : b[n] \in Modes[n]}
  /\ wasRelay = relay
  /\ table = [n \in Node |-> [x \in Node |-> SeedEntry(n, x, where)]]
  /\ asked = [n \in Node |-> FALSE]
  /\ net = {}

NodeStep(n) ==
  \/ \E d \in net : \E rest \in {net, net \ {d}} :
       \/ HandleAnnounce(n, d, rest)
       \/ AnswerFind(n, d, rest) \/ ForwardFind(n, d, rest)
       \/ HandleFound(n, d, rest)
  \/ Beacon(n) \/ RemoveStale(n)

UserStep(n) ==
  \/ \E x \in Wanted : FindPeer(n, x)
  \/ \E x \in Node : AddPeer(n, x)

Next ==
  \/ \E n \in Node : NodeStep(n) \/ Move(n) \/ Restart(n)
  \/ \E n \in Users : UserStep(n)
  \/ \E d \in net : Lose(d)

Spec == Init /\ [][Next]_vars

-------------------------------------------------------------------------------
TypeOK ==
  /\ where \in [Node -> Addr]
  /\ was \in [Node -> SUBSET Addr]
  /\ relay \in [Node -> BOOLEAN] /\ wasRelay \in [Node -> BOOLEAN]
  /\ table \in [Node -> [Node -> Entry \cup {NoEntry}]]
  /\ asked \in [Node -> BOOLEAN]
  /\ net \subseteq Datagram

(* The user of n may have said so.                                          *)
Told(n, claim) == n \in Users /\ claim \in Claims

(* A table gives for a node an address that the node has or had, or that the*)
(* table's own user gave.                                                   *)
Truthful(n, x) ==
  table[n][x] # NoEntry =>
    \/ table[n][x].addr \in was[x]
    \/ \E b \in BOOLEAN : Told(n, <<x, table[n][x].addr, b>>)

(* "List known DHT peers" lists their addresses.                            *)
AddressesTrue == \A n, x \in Node : Truthful(n, x)

(* It does for every node that has never searched for a peer: whatever is   *)
(* lost, duplicated or overtaken, an ANNOUNCE carries the source address of *)
(* the very node it names, what one user says is not believed elsewhere, and*)
(* only a FOUND made out to the searching node says otherwise.              *)
SilentNodesTrue == \A n, x \in Node : ~asked[x] => Truthful(n, x)

(* Some node has the address or had it, or a user gave it for one.          *)
Inhabited(u) ==
  \/ \E y \in Node : u \in was[y]
  \/ \E n, y \in Node, b \in BOOLEAN : Told(n, <<y, u, b>>)

(* And an entry can be filed under the wrong name, but is never made up: the*)
(* address in it is a node's or a user's, through whatever chain of FIND,   *)
(* FOUND and ANNOUNCE it came.                                              *)
AddressesOfNodes ==
  \A n, x \in Node : table[n][x] # NoEntry => Inhabited(table[n][x].addr)

(* A node lists as a relay only what has been one, by that node's own word  *)
(* whenever it was given and however late it comes, or what its own seeds or*)
(* its own user call one: the name of a relay does not go from table to     *)
(* table, and the entry a FOUND makes is not one.  It may be one no longer. *)
RelaysWereRelays ==
  \A n, x \in Node :
    table[n][x] # NoEntry /\ table[n][x].relay =>
      \/ wasRelay[x]
      \/ x \in Seeds[n]
      \/ \E u \in Addr : Told(n, <<x, u, TRUE>>)
================================================================================
