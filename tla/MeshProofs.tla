------------------------------ MODULE MeshProofs ------------------------------
(***************************************************************************)
(* Theorems about Mesh, for any number of nodes, addresses and datagrams.  *)
(***************************************************************************)
EXTENDS Mesh, TLAPS

(* A datagram of the type carries the fields of that type.                  *)
LEMMA Fields ==
  ASSUME NEW d \in Datagram
  PROVE  /\ d.type = "ANNOUNCE" => /\ d.from \in Node /\ d.relay \in BOOLEAN
                                   /\ d.src \in Addr
         /\ d.type = "FIND" => d.from \in Node /\ d.to \in Node /\ d.src \in Addr
         /\ d.type = "FOUND" => d.to \in Node /\ d.addr \in Addr
  BY DEF Datagram

(* What a datagram says is true: an ANNOUNCE comes from an address of the   *)
(* node it names, which has been a relay if it says so, only a node that has*)
(* searched is named in a FIND or a FOUND, and what is found is an address. *)
Honest(d) ==
  /\ d \in Datagram
  /\ d.type = "ANNOUNCE" => d.src \in was[d.from] /\ (d.relay => wasRelay[d.from])
  /\ d.type = "FIND" => asked[d.from]
  /\ d.type = "FOUND" => asked[d.to] /\ Inhabited(d.addr)

(* An address stays one while the history grows.                            *)
LEMMA InhabitedGrows ==
  ASSUME \A n \in Node : was[n] \subseteq was'[n]
  PROVE  \A u : Inhabited(u) => Inhabited(u)'
  BY DEF Inhabited, Told

MeshInv ==
  /\ TypeOK
  /\ \A n \in Node : where[n] \in was[n] /\ (relay[n] => wasRelay[n])
  /\ \A d \in net : Honest(d)
  /\ SilentNodesTrue
  /\ AddressesOfNodes
  /\ RelaysWereRelays

(* It is enough to look at what is new: honest datagrams stay so, and a     *)
(* history only grows.                                                      *)
LEMMA NetHonest ==
  ASSUME MeshInv, NEW new, net' \subseteq net \cup new,
         \A d \in new : Honest(d)',
         was' \in [Node -> SUBSET Addr], asked' \in [Node -> BOOLEAN],
         \A n \in Node : /\ was[n] \subseteq was'[n] /\ (asked[n] => asked'[n])
                         /\ wasRelay[n] => wasRelay'[n]
  PROVE  net' \subseteq Datagram /\ \A d \in net' : Honest(d)'
<1>1. ASSUME NEW d \in net PROVE Honest(d)'
  <2>1. Honest(d) /\ d \in Datagram
    BY DEF MeshInv, Honest
  <2> QED
    BY <2>1, Fields, InhabitedGrows DEF Honest
<1>2. \A d \in net' : Honest(d)'
  BY <1>1
<1> QED
  BY <1>2 DEF Honest

(* An entry put into a table is the only thing to look at.                  *)
LEMMA TableHonest ==
  ASSUME MeshInv, NEW n \in Node, NEW x \in Node, NEW u \in Addr,
         NEW b \in BOOLEAN, AddOrUpdate(n, x, u, b),
         UNCHANGED <<was, wasRelay, asked>>,
         asked[x] \/ u \in was[x] \/ Told(n, <<x, u, b>>), Inhabited(u),
         b => wasRelay[x] \/ Told(n, <<x, u, b>>)
  PROVE  /\ table' \in [Node -> [Node -> Entry \cup {NoEntry}]]
         /\ SilentNodesTrue' /\ AddressesOfNodes' /\ RelaysWereRelays'
<1> DEFINE e == [addr |-> u, relay |-> b]
<1>1. e \in Entry
  BY DEF Entry
<1>2. table \in [Node -> [Node -> Entry \cup {NoEntry}]]
  BY DEF MeshInv, TypeOK
<1>3. table' \in [Node -> [Node -> Entry \cup {NoEntry}]]
  BY <1>1, <1>2 DEF AddOrUpdate
<1>4. \A m, y \in Node :
        table'[m][y] = IF m = n /\ y = x THEN e ELSE table[m][y]
  BY <1>2 DEF AddOrUpdate
<1>5. e.addr = u /\ e.relay = b
  OBVIOUS
<1>6. /\ table'[n][x].addr = u /\ table'[n][x].relay = b
      /\ \A m, y \in Node : m # n \/ y # x => table'[m][y] = table[m][y]
  BY <1>4, <1>5
<1>7. ASSUME NEW m \in Node, NEW y \in Node, table'[m][y] # NoEntry
      PROVE  /\ ~asked'[y] => Truthful(m, y)'
             /\ Inhabited(table[m][y].addr)'
             /\ table'[m][y].relay =>
                  \/ wasRelay'[y] \/ y \in Seeds[m]
                  \/ \E v \in Addr : Told(m, <<y, v, TRUE>>)
  <2>1. CASE m = n /\ y = x
    <3>1. ~asked'[y] => Truthful(m, y)'
      BY <1>6, <2>1 DEF Truthful, Told
    <3>2. Inhabited(table[m][y].addr)'
      BY <1>6, <2>1 DEF Inhabited, Told
    <3> QED
      BY <1>6, <2>1, <3>1, <3>2
  <2>2. CASE m # n \/ y # x
    <3>1. table'[m][y] = table[m][y]
      BY <1>6, <2>2
    <3>2. ~asked'[y] => Truthful(m, y)'
      BY <1>7, <3>1 DEF MeshInv, SilentNodesTrue, Truthful, Told
    <3>3. Inhabited(table[m][y].addr)
      BY <1>7, <3>1 DEF MeshInv, AddressesOfNodes
    <3>4. Inhabited(table[m][y].addr)'
      BY <3>1, <3>3 DEF Inhabited, Told
    <3>5. table'[m][y].relay =>
            \/ wasRelay'[y] \/ y \in Seeds[m]
            \/ \E v \in Addr : Told(m, <<y, v, TRUE>>)
      BY <1>7, <3>1 DEF MeshInv, RelaysWereRelays
    <3> QED
      BY <3>2, <3>4, <3>5
  <2> QED
    BY <2>1, <2>2
<1>8. SilentNodesTrue'
  BY <1>7 DEF SilentNodesTrue, Truthful
<1>9. AddressesOfNodes'
  BY <1>7 DEF AddressesOfNodes
<1>10. RelaysWereRelays'
  BY <1>7 DEF RelaysWereRelays, Told
<1> QED
  BY <1>3, <1>8, <1>9, <1>10

LEMMA MeshInit == Init => MeshInv
<1> SUFFICES ASSUME Init PROVE MeshInv
  OBVIOUS
<1>1. \A n, x \in Node :
        table[n][x] = IF x \in Seeds[n] THEN [addr |-> where[x], relay |-> TRUE]
                      ELSE NoEntry
  BY DEF Init, SeedEntry
<1>2. TypeOK
  <2>1. \A n, x \in Node : SeedEntry(n, x, where) \in Entry \cup {NoEntry}
    BY DEF Init, SeedEntry, Entry
  <2> QED
    BY <2>1 DEF Init, TypeOK
<1>3. \A n \in Node : where[n] \in was[n]
  BY DEF Init
<1>4. SilentNodesTrue /\ AddressesOfNodes
  <2>1. ASSUME NEW n \in Node, NEW x \in Node, table[n][x] # NoEntry
        PROVE  table[n][x].addr \in was[x]
    <3>1. table[n][x] = [addr |-> where[x], relay |-> TRUE]
      BY <1>1, <2>1
    <3>2. table[n][x].addr = where[x]
      BY <3>1
    <3> QED
      BY <1>3, <3>2
  <2> QED
    BY <2>1 DEF SilentNodesTrue, AddressesOfNodes, Truthful, Inhabited
<1>5. RelaysWereRelays
  BY <1>1 DEF RelaysWereRelays
<1> QED
  BY <1>2, <1>3, <1>4, <1>5 DEF Init, MeshInv

LEMMA MeshStep ==
  ASSUME MeshInv, [Next]_vars
  PROVE  MeshInv'
<1> USE MeshAssumption DEF modes
<1>1. /\ where \in [Node -> Addr] /\ was \in [Node -> SUBSET Addr]
      /\ table \in [Node -> [Node -> Entry \cup {NoEntry}]]
      /\ relay \in [Node -> BOOLEAN] /\ wasRelay \in [Node -> BOOLEAN]
      /\ asked \in [Node -> BOOLEAN] /\ net \subseteq Datagram
      /\ \A n \in Node : where[n] \in was[n] /\ (relay[n] => wasRelay[n])
  BY DEF MeshInv, TypeOK
(* The addresses a node writes to are addresses.                            *)
<1>2. \A n \in Node : PeerAddrs(n) \subseteq Addr
  BY <1>1 DEF PeerAddrs, Known, Entry
<1>3. \A n \in Node : \A u \in Addr : Honest(Announce(n, u))
  BY <1>1 DEF Announce, Datagram, Honest
<1>4. ASSUME NEW new, net' \subseteq net \cup new, \A d \in new : Honest(d)',
             UNCHANGED <<where, was, modes, table>>, asked' \in [Node -> BOOLEAN],
             \A n \in Node : asked[n] => asked'[n]
      PROVE  MeshInv'
  <2>1. net' \subseteq Datagram /\ \A d \in net' : Honest(d)'
    BY <1>1, <1>4, NetHonest
  <2>2. SilentNodesTrue'
    BY <1>4 DEF MeshInv, SilentNodesTrue, Truthful, Told
  <2>3. AddressesOfNodes'
    BY <1>4, InhabitedGrows DEF MeshInv, AddressesOfNodes
  <2>4. RelaysWereRelays'
    BY <1>4 DEF MeshInv, RelaysWereRelays, Told
  <2> QED
    BY <1>1, <1>4, <2>1, <2>2, <2>3, <2>4 DEF MeshInv, TypeOK
<1>5. ASSUME NEW n \in Node, NEW d \in net, NEW rest \in SUBSET net,
             HandleAnnounce(n, d, rest)
      PROVE  MeshInv'
  <2>1. /\ d \in Datagram /\ d.from \in Node /\ d.relay \in BOOLEAN
        /\ d.src \in Addr /\ d.src \in was[d.from]
        /\ d.relay => wasRelay[d.from]
        /\ Inhabited(d.src)
    BY <1>1, <1>5, Fields DEF MeshInv, Honest, HandleAnnounce, Inhabited
  <2>2. AddOrUpdate(n, d.from, d.src, d.relay) /\ UNCHANGED <<where, was, modes, asked>>
    BY <1>5 DEF HandleAnnounce
  <2>3. /\ table' \in [Node -> [Node -> Entry \cup {NoEntry}]]
        /\ SilentNodesTrue' /\ AddressesOfNodes' /\ RelaysWereRelays'
    BY <2>1, <2>2, TableHonest
  <2> PICK new : new = {Announce(n, d.src)}
    OBVIOUS
  <2>4. net' \subseteq net \cup new
    BY <1>5 DEF HandleAnnounce, Send
  <2>5. \A g \in new : Honest(g)'
    BY <1>3, <2>1, <2>2 DEF Honest, Inhabited
  <2>6. net' \subseteq Datagram /\ \A g \in net' : Honest(g)'
    BY <1>1, <2>2, <2>4, <2>5, NetHonest
  <2> QED
    BY <1>1, <2>2, <2>3, <2>6 DEF MeshInv, TypeOK
<1>6. ASSUME NEW n \in Node, NEW d \in net, NEW rest \in SUBSET net,
             AnswerFind(n, d, rest) \/ ForwardFind(n, d, rest)
      PROVE  MeshInv'
  <2>1. /\ d \in Datagram /\ d.from \in Node /\ d.to \in Node /\ d.src \in Addr
        /\ asked[d.from]
    BY <1>1, <1>6, Fields DEF MeshInv, Honest, AnswerFind, ForwardFind
  <2>2. UNCHANGED <<where, was, modes, table, asked>>
    BY <1>6 DEF AnswerFind, ForwardFind
  <2>3. CASE AnswerFind(n, d, rest)
    <3> PICK new : new = {Found(d.from, table[n][d.to].addr, d.src)}
      OBVIOUS
    <3>1. table[n][d.to].addr \in Addr /\ Inhabited(table[n][d.to].addr)
      BY <1>1, <2>1, <2>3
      DEF AnswerFind, Entry, MeshInv, AddressesOfNodes
    <3>2. Inhabited(table[n][d.to].addr)'
      BY <2>2, <3>1, InhabitedGrows
    <3>3. \A g \in new : Honest(g)'
      BY <2>1, <2>2, <3>1, <3>2 DEF Found, Honest, Datagram
    <3>4. net' \subseteq net \cup new
      BY <2>3 DEF AnswerFind, Send
    <3> QED
      BY <1>1, <1>4, <2>2, <3>3, <3>4
  <2>4. CASE ForwardFind(n, d, rest)
    <3> DEFINE fwd == {Find(n, d.from, d.to, u) : u \in PeerAddrs(n) \ {d.src}}
    <3>1. \A g \in fwd : Honest(g)
      BY <1>1, <1>2, <2>1 DEF Find, Honest, Datagram
    <3>2. net' \subseteq net \cup fwd
      BY <2>4 DEF ForwardFind, Send
    <3>3. \A g \in fwd : Honest(g)'
      BY <2>2, <3>1 DEF Honest, Inhabited
    <3> HIDE DEF fwd
    <3> QED
      BY <1>1, <1>4, <2>2, <3>2, <3>3
  <2> QED
    BY <1>6, <2>3, <2>4
<1>7. ASSUME NEW n \in Node, NEW d \in net, NEW rest \in SUBSET net,
             HandleFound(n, d, rest)
      PROVE  MeshInv'
  <2>1. /\ d \in Datagram /\ d.to \in Node /\ d.addr \in Addr /\ asked[d.to]
        /\ Inhabited(d.addr)
    BY <1>1, <1>7, Fields DEF MeshInv, Honest, HandleFound
  <2>2. AddOrUpdate(n, d.to, d.addr, FALSE) /\ UNCHANGED <<where, was, modes, asked>>
    BY <1>7 DEF HandleFound
  <2>3. /\ table' \in [Node -> [Node -> Entry \cup {NoEntry}]]
        /\ SilentNodesTrue' /\ AddressesOfNodes' /\ RelaysWereRelays'
    BY <2>1, <2>2, TableHonest
  <2> PICK none : none = {}
    OBVIOUS
  <2>4. net' \subseteq net \cup none /\ \A g \in none : Honest(g)'
    BY <1>7 DEF HandleFound
  <2>5. net' \subseteq Datagram /\ \A g \in net' : Honest(g)'
    BY <1>1, <2>2, <2>4, NetHonest
  <2> QED
    BY <1>1, <2>2, <2>3, <2>5 DEF MeshInv, TypeOK
<1>8. ASSUME NEW n \in Node, Beacon(n) PROVE MeshInv'
  <2> DEFINE new == {Announce(n, u) : u \in PeerAddrs(n)}
  <2>1. \A d \in new : Honest(d)
    BY <1>2, <1>3
  <2>2. net' \subseteq net \cup new /\ UNCHANGED <<where, was, modes, table, asked>>
    BY <1>8 DEF Beacon, Send
  <2>3. \A d \in new : Honest(d)'
    BY <2>1, <2>2 DEF Honest, Inhabited
  <2> HIDE DEF new
  <2> QED
    BY <1>1, <1>4, <2>2, <2>3
<1>9. ASSUME NEW n \in Node, NEW x \in Node, FindPeer(n, x) PROVE MeshInv'
  <2> DEFINE new == {Find(n, n, x, u) : u \in PeerAddrs(n)}
  <2>1. /\ net' \subseteq net \cup new /\ UNCHANGED <<where, was, modes, table>>
        /\ asked' = [asked EXCEPT ![n] = TRUE]
    BY <1>9 DEF FindPeer, Send
  <2>2. \A d \in new : Honest(d)'
    BY <1>1, <1>2, <2>1 DEF Find, Honest, Datagram
  <2>3. asked' \in [Node -> BOOLEAN] /\ \A m \in Node : asked[m] => asked'[m]
    BY <1>1, <2>1
  <2> HIDE DEF new
  <2> QED
    BY <1>4, <2>1, <2>2, <2>3
<1>10. ASSUME NEW n \in Users, NEW x \in Node, AddPeer(n, x) PROVE MeshInv'
  <2>1. PICK u \in Addr, b \in BOOLEAN :
          <<x, u, b>> \in Claims /\ AddOrUpdate(n, x, u, b)
    BY <1>10 DEF AddPeer
  <2>2. UNCHANGED <<where, was, modes, asked, net>>
    BY <1>10 DEF AddPeer
  <2>3. n \in Node /\ Told(n, <<x, u, b>>)
    BY <2>1 DEF Told
  <2>4. Inhabited(u)
    BY <2>3 DEF Inhabited
  <2>5. UNCHANGED <<was, wasRelay, asked>>
    BY <2>2
  <2>6. /\ table' \in [Node -> [Node -> Entry \cup {NoEntry}]]
        /\ SilentNodesTrue' /\ AddressesOfNodes' /\ RelaysWereRelays'
    BY <2>1, <2>3, <2>4, <2>5, TableHonest
  <2>7. \A d \in net' : Honest(d)'
    BY <2>2, InhabitedGrows DEF MeshInv, Honest
  <2> QED
    BY <1>1, <2>2, <2>6, <2>7 DEF MeshInv, TypeOK
(* Cleaning up and restarting leave entries that were there or are seeds.   *)
<1>11. ASSUME UNCHANGED <<where, was, asked, net>>,
              relay' \in [Node -> BOOLEAN], wasRelay' \in [Node -> BOOLEAN],
              \A m \in Node : /\ relay'[m] => wasRelay'[m]
                              /\ wasRelay[m] => wasRelay'[m],
              table' \in [Node -> [Node -> Entry \cup {NoEntry}]],
              \A m, y \in Node :
                \/ table'[m][y] = table[m][y]
                \/ table'[m][y] = NoEntry
                \/ table'[m][y].addr \in was[y] /\ y \in Seeds[m]
       PROVE  MeshInv'
  <2>1. net' \subseteq Datagram /\ \A d \in net' : Honest(d)'
    <3> PICK none : none = {}
      OBVIOUS
    <3>1. net' \subseteq net \cup none /\ \A d \in none : Honest(d)'
      BY <1>11
    <3> QED
      BY <1>1, <1>11, <3>1, NetHonest
  <2>2. SilentNodesTrue'
    BY <1>1, <1>11 DEF MeshInv, SilentNodesTrue, Truthful, Told
  <2>3. AddressesOfNodes'
    BY <1>1, <1>11 DEF MeshInv, AddressesOfNodes, Inhabited, Told
  <2>4. RelaysWereRelays'
    BY <1>1, <1>11 DEF MeshInv, RelaysWereRelays, Told
  <2> QED
    BY <1>1, <1>11, <2>1, <2>2, <2>3, <2>4 DEF MeshInv, TypeOK
<1>12. ASSUME NEW n \in Node, RemoveStale(n) PROVE MeshInv'
  <2>1. PICK stale \in SUBSET Known(n) :
          table' = [table EXCEPT ![n] =
                      [x \in Node |-> IF x \in stale THEN NoEntry ELSE @[x]]]
    BY <1>12 DEF RemoveStale
  <2>2. \A m, y \in Node : table'[m][y] \in {table[m][y], NoEntry}
    BY <1>1, <2>1
  <2>3. table' \in [Node -> [Node -> Entry \cup {NoEntry}]]
    BY <1>1, <2>1
  <2>4. UNCHANGED <<where, was, modes, asked, net>>
    BY <1>12 DEF RemoveStale
  <2> QED
    BY <1>1, <1>11, <2>2, <2>3, <2>4
<1>13. ASSUME NEW n \in Node, Restart(n) PROVE MeshInv'
  <2> PICK resolved \in SUBSET Seeds[n] :
        \E book \in [resolved -> UNION {was[x] : x \in resolved}] :
          /\ \A x \in resolved : book[x] \in was[x]
          /\ table' = [table EXCEPT ![n] =
                         [x \in Node |-> SeedEntry(n, x, book)]]
    BY <1>13 DEF Restart
  <2>1. PICK book \in [resolved -> UNION {was[x] : x \in resolved}] :
          /\ \A x \in resolved : book[x] \in was[x]
          /\ table' = [table EXCEPT ![n] =
                         [x \in Node |-> SeedEntry(n, x, book)]]
    OBVIOUS
  <2>2. \A x \in Node :
          /\ SeedEntry(n, x, book) \in Entry \cup {NoEntry}
          /\ \/ SeedEntry(n, x, book) = NoEntry
             \/ SeedEntry(n, x, book).addr \in was[x] /\ x \in Seeds[n]
    BY <1>1, <2>1 DEF SeedEntry, Entry
  <2>3. table' \in [Node -> [Node -> Entry \cup {NoEntry}]]
    BY <1>1, <2>1, <2>2
  <2>4. \A m, y \in Node :
          table'[m][y] = IF m = n THEN SeedEntry(n, y, book) ELSE table[m][y]
    BY <1>1, <2>1
  <2>5. PICK b \in Modes[n] : /\ relay' = [relay EXCEPT ![n] = b]
                              /\ wasRelay' = [wasRelay EXCEPT ![n] = @ \/ b]
    BY <1>13 DEF Restart
  <2>6. /\ relay' \in [Node -> BOOLEAN] /\ wasRelay' \in [Node -> BOOLEAN]
        /\ \A m \in Node : /\ relay'[m] => wasRelay'[m]
                           /\ wasRelay[m] => wasRelay'[m]
    BY <1>1, <2>5
  <2>7. UNCHANGED <<where, was, asked, net>>
    BY <1>13 DEF Restart
  <2> QED
    BY <1>11, <2>2, <2>3, <2>4, <2>6, <2>7
<1>14. ASSUME NEW n \in Node, Move(n) PROVE MeshInv'
  <2>1. PICK u \in Home[n] : /\ where' = [where EXCEPT ![n] = u]
                             /\ was' = [was EXCEPT ![n] = @ \cup {u}]
    BY <1>14 DEF Move
  <2>2. u \in Addr
    OBVIOUS
  <2>3. /\ where' \in [Node -> Addr] /\ was' \in [Node -> SUBSET Addr]
        /\ \A m \in Node : where'[m] \in was'[m] /\ was[m] \subseteq was'[m]
    BY <1>1, <2>1, <2>2
  <2>4. UNCHANGED <<modes, table, asked, net>>
    BY <1>14 DEF Move
  <2>5. net' \subseteq Datagram /\ \A d \in net' : Honest(d)'
    <3> PICK none : none = {}
      OBVIOUS
    <3>1. net' \subseteq net \cup none /\ \A d \in none : Honest(d)'
      BY <2>4
    <3> QED
      BY <1>1, <2>3, <2>4, <3>1, NetHonest
  <2>6. \A m, x \in Node : Truthful(m, x) => Truthful(m, x)'
    BY <2>3, <2>4 DEF Truthful, Told
  <2>7. SilentNodesTrue' /\ RelaysWereRelays'
    BY <2>4, <2>6 DEF MeshInv, SilentNodesTrue, RelaysWereRelays, Told
  <2>8. AddressesOfNodes'
    BY <2>3, <2>4, InhabitedGrows DEF MeshInv, AddressesOfNodes
  <2> QED
    BY <1>1, <2>3, <2>4, <2>5, <2>7, <2>8 DEF MeshInv, TypeOK
<1>15. ASSUME NEW d \in net, Lose(d) PROVE MeshInv'
  <2> PICK none : none = {}
    OBVIOUS
  <2>1. net' \subseteq net \cup none /\ \A g \in none : Honest(g)'
    BY <1>15 DEF Lose
  <2> QED
    BY <1>1, <1>4, <1>15, <2>1 DEF Lose
<1>16. CASE UNCHANGED vars
  <2> PICK none : none = {}
    OBVIOUS
  <2>1. net' \subseteq net \cup none /\ \A g \in none : Honest(g)'
    BY <1>16 DEF vars
  <2> QED
    BY <1>1, <1>4, <1>16, <2>1 DEF vars
<1>17. ASSUME NEW n \in Node, NodeStep(n) PROVE MeshInv'
  <2>1. CASE Beacon(n) \/ RemoveStale(n)
    BY <1>8, <1>12, <2>1
  <2>2. ASSUME NEW d \in net, NEW rest \in SUBSET net,
               \/ HandleAnnounce(n, d, rest)
               \/ AnswerFind(n, d, rest) \/ ForwardFind(n, d, rest)
               \/ HandleFound(n, d, rest)
        PROVE  MeshInv'
    BY <1>5, <1>6, <1>7, <2>2
  <2>3. \A d \in net : \A rest \in {net, net \ {d}} : rest \in SUBSET net
    OBVIOUS
  <2> QED
    BY <1>17, <2>1, <2>2, <2>3 DEF NodeStep
<1>18. ASSUME NEW n \in Users, UserStep(n) PROVE MeshInv'
  BY <1>9, <1>10, <1>18, n \in Node DEF UserStep
<1> QED
  BY <1>13, <1>14, <1>15, <1>16, <1>17, <1>18 DEF Next

(* The tables, the datagrams and the histories keep their types.            *)
THEOREM MeshTypes == Spec => []TypeOK
<1>1. MeshInv => TypeOK
  BY DEF MeshInv
<1> QED
  BY <1>1, MeshInit, MeshStep, PTL DEF Spec

(* A node that has never searched for a peer is listed by everybody with an *)
(* address it has or had, whatever the network does with the datagrams.     *)
THEOREM SilentTrue == Spec => []SilentNodesTrue
<1>1. MeshInv => SilentNodesTrue
  BY DEF MeshInv
<1> QED
  BY <1>1, MeshInit, MeshStep, PTL DEF Spec

(* No table has an address that no node has or had and no user gave.       *)
THEOREM NoneInvented == Spec => []AddressesOfNodes
<1>1. MeshInv => AddressesOfNodes
  BY DEF MeshInv
<1> QED
  BY <1>1, MeshInit, MeshStep, PTL DEF Spec

(* Nobody lists as a relay what has never been one, but by its own seeds or *)
(* its own user's word.                                                     *)
THEOREM RelaysOwnWord == Spec => []RelaysWereRelays
<1>1. MeshInv => RelaysWereRelays
  BY DEF MeshInv
<1> QED
  BY <1>1, MeshInit, MeshStep, PTL DEF Spec
================================================================================
