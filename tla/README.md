# BoomNode in TLA+

BoomNode (Go) is one program that is a mail relay, a peer-to-peer discovery
node, a sender over TCP, modem and radio, and a command line for all of it.
This directory holds TLA+ modules of its parts, TLC configurations that check
them on small instances, and proofs, checked by TLAPS, of what matters most
for instances of any size. Paths below are relative to `src/`.

## 1. The system

| part | state | operations | how it meets the others |
|---|---|---|---|
| BoomEx server (`internal/boomex`, `handleConnection`) | one goroutine per connection; bbolt bucket `messages_msg` | HELO, MSG, FETCH, BYE; store, find and delete rows in one transaction each | shares the bucket with its own other connections and with the HTTP API; after the ACK of mail for the node itself calls the handler of `runNode` |
| BoomEx clients (`SendMessageToPeer`, `SendMessageViaDialup`, `SendMessageViaRadio`) | one connection, one message | HELO, automatic FETCH (not over radio), MSG, wait for the answer | run in the API's process or in the command line |
| Mesh (`internal/mesh`) | table BM address -> UDP address, last seen, relay flag | ANNOUNCE, FIND, FOUND; beacon every 30 s, cleanup every 5 min | seeds put in by `runNode`; the API adds peers, lists them and searches |
| Identity (`internal/crypto`, `runNode`) | two key files | load, or generate and save | its address names the node everywhere |
| Block list (`internal/block`, `cmd/boomnode`) | `block.json`, the map loaded from it | download at start and every hour, load at start, `sign-block` | the handler of BoomEx asks the map |
| HTTP API (`internal/api`) | none of its own | send, export, import, echo, peers, mesh | stores into the bucket, calls the clients and the mesh |
| Peer book (`internal/peer`), echo areas (`internal/echo`), storage (`internal/storage`) | buckets `peers`, `echoes`, `bans`; the database file and its lock | single transactions, some used two at a time | API and command line |
| Modem and radio transports (`internal/transport`, `dialSerial`) | a serial port, an audio stream | dial, read, write, modulate | carry the clients' sessions |
| Configuration, command line, version check | none | - | - |

What makes it hard, and what must hold:

* **Relay.** A FETCH is a read transaction, a series of sends and a delete
  transaction; other connections store, fetch and delete between them, the
  process can stop between any two, sends and deletes can fail, deletes go by
  message ID. *Acknowledged mail is kept until its recipient has asked for it,
  and leaves in no other way than the code's own; an ACK follows a committed store;
  what mode and whitelist exclude is never stored.*
* **Sending.** The client reads frames and guesses from their type, and a Subject
  that any sender can choose, which question they answer. *An ACK read means mail
  taken in, and what can become of it then is known; no other frame is taken for
  one; sending comes to an end.*
* **Mesh.** UDP loses, repeats and reorders; addresses change. *A table says of
  a node only what has been true of it, or what the user said; a relay is what
  has been one.*
* **Identity and block list.** Files written in place, in several steps, by a
  process that can stop, next to tools that read or write the same files; only
  the lock of the database keeps two nodes apart. *One pair of keys, kept for
  good, the same for all who run; no list in force that was not signed as it is.*
* **HTTP API.** Each request is a goroutine; most of them take several
  transactions, errors of some of which are dropped, while other requests, the
  BoomEx server and the end of the process come between. *What was confirmed to
  the user is kept and counted; nothing that exists is overwritten.*
* **Sound.** An encoder and a decoder with loop bounds and steps of their own.
  *What is read is what was written.*

`PROJECT.json` lists the hazards one by one with their lines and the properties
that would catch them.

## 2. The modules

`MailBucket` - the bucket as operators on a set of rows, one per transaction:
`StoreMessageForRelay` (a Put under the key To, From, stamp overwrites),
`FetchMessagesForRelay` (prefix scan, so it finds the rows of addresses that
begin with the recipient), `DeleteMessagesForRelay` (by ID, whoever the rows are
for), `FirstOf` (the order of the scan as far as it is fixed). A row's stamp is
the node's clock; the modules that use it count it up with every store, that is,
they take the clock to be strictly increasing. Rows whose JSON does not parse do
not occur: only these functions write the bucket.

`Mailbox` - the abstract specification of a relay: mail is taken in, promised to
its sender (one message, or a pack at once) only when held or already handed out,
offered to those who ask, and discarded only when its own recipient has been offered
it. `BoomExServer` and `Api` implement it.

`BoomExServer` - the server. `phase[c]` is the place of connection c's goroutine
in `handleConnection`: `helo` (530), `loop` (558), `ack` between transaction and
ACK (602), `handler` between ACK and handler (583), `batch` in the loop over
fetched mail (660), `purge` before the delete (666). One action per received
frame with the transaction it leads to, or per `Send`; TCP is a FIFO per
direction and a `link` state. The peers are arbitrary: any frame at any time,
gone at any time, with a suffix of what they sent lost. `Crash` is possible in
every state, `Restart` reads the mode from the configuration anew (`relayEnabled`)
and runs `createBuckets`, whose error is ignored, so `bucket` may be missing.
Notes and relayed mail are frames of one type, told apart by their subject: `Deliver`
sends a message under its `Subject`, a constant, which may be that of a note.
`Enabled` is `relay.enabled` of the configuration, which no action reads. `sent` and
`skipped` are histories of what was handed to a `Send` and of what a broken batch left
unsent before the delete.
`Deposit` is any store of the HTTP API (`handleMsg` 139-144,
`handleImport` 309-311, `echo.PostToEcho` 97). The handler's branch that stores
(main.go:490) is in `CallHandler` although it cannot be taken: `PolicyHolds`
says so.

`BoomExSend` - `BoomExServer` with the three client functions as its peers, one
per connection. `kind[c]` says which of them, `pc[c]` the place in it, `msg[c]` its
message, `told` what the functions have reported, `Calls` what users may send and how.
`ReadFetched` leaves the loop at the subject NO_MAIL, whoever wrote it; `Misled` says
that a sender has met mail of that subject. `DialSerial`, `Connect` and
`DialFails` are the dialogue with the modem: lines that mean nothing are read over,
so only its outcome is a step. A dial-up client's Receive may fail at any time (read
timeout of the serial port). Over radio the clients are those of the code on a
transport that carries frames; that the code's own does not is the run `radio`.

`Mesh` - all nodes' tables, the datagrams under way, and each node's address.
`rest` is what stays under way when a datagram is handled, so delivery twice and
in any order is included; `Send` loses any part of what is sent. Time is left
out: an entry can be stale whenever the cleanup runs. Lists of UDP addresses
always have one element in this code and are that element. A restarted node reads
its mode anew (`relay`; `wasRelay` is its history) and has its seeds, those whose names
resolve, at addresses the seeds have or had. A seed is entered as a relay whatever it
is (main.go:463). `AddPeer` is `POST /api/mesh`: a user may claim any address and
`is_relay` for any peer (`Claims`).

`Identity` - the two key files as absent, broken or half of a pair, and any number
of processes in one data directory. `Run` processes are `bn run`: `Open` takes the
lock of boomnode.db (`storage.Open`, bbolt's flock, main.go:380) before the keys are
loaded (387). `Tool` processes are the other commands: `OpenReadOnly` is `ban`, which
shares the lock with other readers and waits for a node to end, `Begin` the commands
that load keys without any lock. `LoadKeys` reads one file, then the other; the
saving is one action per truncation and per write of `os.WriteFile`; writes fail,
processes end (`End`), the power fails and loses what was not written back, and
reads of intact files fail (`GenerateKeys` with both files in order).

`BlockList` - `block.json` with its signatures, the node's start and hourly
sync, `sign-block` as a second process in the same directory, and the people who
edit, paste signatures and publish.

`Api` - the HTTP server over the three buckets: `book` (peers), `areas` (echoes),
`box` (mail, with the operators of `MailBucket`). `pc[r]` is the place of request r
between two transactions of its handler: `addPeer` after the mesh was asked
(`handlePeers`), `find`, `update`, `relay`, `reply`, `send` (`handleMsg` 117-148),
`count` between the two transactions of `echo.PostToEcho`, `import` in the loop of
`handleImport`. `saved[r]` is what the request has stored: its answer to the user
says "stored" whether or not the store failed, and only what was stored is a promise.
The mesh may answer anything (`FindHost`; `Mesh` is the detail), a send may do anything
but touch the database (`SendMessage`; `BoomExSend` is the detail), and `RemoteFetch`
and `RemotePurge` are the two transactions of a FETCH of `BoomExServer`, one batch for
each connection in `Conn`. Transactions whose error the handler drops may fail. The node's
address may change between two runs: `me` is chosen anew by `Restart`.

`Afsk` - the codec of the radio: `afskEncode` as a function from bytes to samples,
`afskDecode` as a loop with one action per iteration. A sample is its sign, which
is all that `detectFrequency` counts; the signs of the two tones at 22050 samples
a second were computed from the phase that `generateTone` gives them.

`MC...` modules only give values to constants. `...Proofs` modules hold the
theorems. Operators with a comment that begins "Mutant:" are plausible bugs;
nothing uses them, `PROJECT.json` names for each property the one that breaks it.

## 3. What TLC checks

| run | instance | shows |
|---|---|---|
| `relay` | 2 connections (symmetric), 3 messages (to relay, to an address off the whitelist, to the node itself), 2 sends, queues of 1 | `TypeOK`, `MailConserved`, `OnlyRecipientTakes`, `StoredOncePerSend`, `IsMailbox`: the server implements `Mailbox`; `PolicyHolds` |
| `send` | 1 connection, used by one client after another, TCP, dial-up or radio; 3 messages (one under the subject NO_MAIL, one to the node itself), 3 sends, weak fairness | `SendTypeOK`, `AckHonest`, `AnswerMatches`, `WaitsAreServed`, `SendEndsOrStarves` |
| `mesh` | a relay that is the seed of two nodes, one of which moves between two addresses and is a relay at some starts only; the other's user searches for it and claims one of its addresses for it, and that it is a relay; 1 datagram under way | `TypeOK`, `SilentNodesTrue`, `AddressesOfNodes`, `RelaysWereRelays` |
| `identity` | 2 nodes, 1 tool, 4 key pairs | `PairMatches`, `IdentityKept`, `OneIdentity` |
| `block_list` | 2 lists (one bans the node; quorum 1 and 2), 1 guardian, 2 signatures to a file | `EnforcedSigned` |
| `api` | 2 requests (symmetric), 1 peer with 1 host, 1 area, 4 messages (to the peer, two posts, one of another node), 2 requests that store, 2 FETCHes (symmetric), 2 addresses of the node | `TypeOK`, `EchoCounted`, `AnsweredKept`, `AreasKept`, `PeersKept`, `ApiIsMailbox` |

Runs that TLC must find violated, each a disagreement of the code with a text of
the repository (quoted in `PROJECT.json`):

| run | property | what happens |
|---|---|---|
| `send_stuck` | `SendEnds` | after a FETCH that delivered mail, or that a node in client mode answered with FETCH_DISABLED, the client waits for a NO_MAIL, the server for a request, for ever (boomex.go:190-201, 658-666, 679-689) |
| `banned_relayed` | `BansHold` | relayed mail does not pass the handler that looks at the block list |
| `relay_switch` | `SwitchHolds` | `relay.enabled` (boomnode.yaml:10, "accept messages for others?") is read into the configuration and never asked; node.mode alone decides (main.go:443, 496), so a relay that has it off stores mail of others |
| `mesh_found` | `AddressesTrue` | a FOUND files the target's address under the asker's name (mesh.go:225, 250) |
| `radio` | `ReadBack` | the decoder takes the start bit's tone for none, reads ones for zeros, stops a byte early and steps half a bit too far (radio.go:75, 76, 87, 92) |
| `signatures` | `SignaturesKept` | `sign-block` deletes the earlier signatures before it reads them (main.go:311, 317) |

What the properties of mail do not say. The code loses acknowledged mail by itself in
one way: a `Send` fails, and the whole batch is deleted (boomex.go:661-666). No text of
the repository promises otherwise, so `MailConserved` and `AckHonest` name that case
(`Lost`) and say that there is no other; and as the delete goes by ID, a message can
share the fate of another with its ID. `AckHonest` is thus not that mail arrives. With
unique IDs and prefix-free addresses it adds, as `OnlyRecipientTakes` does, that only a
FETCH of the recipient can have begun what made it leave. `AnswerMatches` likewise names
the one case in which a send over TCP reports success without an ACK: the sender has
been given mail with the subject NO_MAIL, which ends its loop after the FETCH
(boomex.go:195), so that the next row of the batch is read as the answer (207-219).
`RelaysWereRelays` says that a listed relay was one once, not that it still is: a
delayed ANNOUNCE, or the code's own lack of a look at `Timestamp`, keeps an old mode.

**Bounds.** `MaxSends` bounds how often a message enters the system: two sends
are a retry, a duplicate, an overwrite, or a message that arrives between the two
transactions of a FETCH for another; three, in `send`, fill a batch of two
before a client fetches. `MaxQueue` bounds the unread frames of an
arbitrary peer (a batch of mail may exceed it). One is enough for the server's
invariants, because a goroutine takes a frame only when it is done with the one
before; the clients of `BoomExSend` are not bounded by it. Every run lets the
node restart in either mode. Two connections give every interleaving of two
goroutines on the bucket; the invariants speak of single messages, and the proofs
remove the bound. `send` has one connection, so that batches, subjects and fairness
fit; what other connections can do to the bucket in the meantime is in `relay`, the
deposits of the API stand for it in `send`, and the theorems about `BoomExSend` are for
any number of connections and messages. Messages with one ID and
addresses that are prefixes of others are left to the proofs: `Conserved` has no
hypothesis about them, and `OnlyRecipientTakes` and the refinement need there to
be none.

`MaxNet` = 1 still gives every order and duplication of deliveries, as a handled
datagram may stay under way while its answer replaces it or is lost; two
datagrams at a time only add pairs of deliveries that the invariants, which look at
one datagram or entry, do not tell apart, and the proof has no bound. `Wanted` bounds
whom users search for (the node that moves), `Claims` what they say; the theorems hold
for any. `MaxSigs` = 2 meets the quorum of 2; `Guardian` has one member in `block_list`
for the size of the run, and the theorem any number.

Two nodes and a tool are what it takes for the keys of one to come between the
steps of another; four keys always leave a fresh one beside the two files and the
saved one. In `api`, `MaxStores` counts requests that store mail: two, so that two
posts meet between their transactions, a post meets an import, or an export comes
back; requests that store nothing are not bounded. Two FETCHes let one delete between
the two transactions of the other. `Contact` is the one address
that is added as a peer, as peers do not meet. `radio` writes two bytes, of three
values each, and reads the sound in one piece; one byte would be shorter than what
the decoder leaves unread at the end.

**Fairness** (`BoomExSend` only). Weak fairness of each connection's goroutine
and of its client: the Go runtime and the kernel run what can run, and a client
in the middle of its function is such a process. No fairness for dialling,
killing a client, crashes, restarts or deposits. `SendEndsOrStarves` excepts the
one state `Starved`, in which both sides wait; that it is the only one is the
point, and `send_stuck` shows that it is reached. The property is about TCP and
dial-up clients from the moment they are connected; of the latter the read timeout of
the serial port is a step of the client. A radio connection has no end of stream to
wake its client, and how long a modem dials is the modem's affair.

**Deadlock** is checked in every run but `radio`, where the decoder has an end.

## 4. What is proved

Assumptions are only the named `ASSUME`s of the modules: types and distinctness of
constants, finitely many requests at a time (`ApiAssumption`).

* `MailBucketProofs`: lemmas about the bucket's operators, for the modules that
  keep rows (what a store adds, what a delete can take, that a non-empty set of rows
  has a first one), and `FetchThenDelete`: a FETCH whose delete succeeds leaves
  nothing for the next one, and, with unique IDs and prefix-free addresses, all other
  mail.
* `BoomExServerProofs`: `TypeCorrect`; `PolicyKept`; `Conserved` from the
  invariant that what a goroutine is about to acknowledge is covered, that no row is
  newer than the clock (so a store overwrites nothing), that only a goroutine in the
  loop over a batch has rows left to send, and that every other row of a batch has
  been sent or skipped - without this link between `batch`, `unsent`, `sent` and
  `skipped` the delete could not be shown harmless; `ImplementsMailbox` from the
  invariant that every row of a batch has been offered to the address it is for, which needs unique
  IDs (the delete goes by ID) and prefix-free addresses (the scan goes by prefix),
  stated as hypotheses; `RecipientTakes` from that refinement and what the mailbox
  itself keeps; `StoredOnce` from `CountInv`: the rows of the bucket and the message
  frames that no goroutine has taken yet are together at most the sendings so far. The
  frames are counted as places in the queues; a frame that is taken moves all the
  others by one place, which is an injection into the places before.
* `BoomExSendProofs`: `SendTypeCorrect`, `AcksAreHonest`, `AnswersMatch`,
  `WaitsAreAlwaysServed`, and all that is proved of the server among any peers:
  `SendConserves`, `SendImplementsMailbox`, `SendRecipientTakes`, `SendPolicyKept`,
  `SendStoresOnce`. The latter need one lemma, `ToServer`: every step of the
  composition is a step of the server, or sends a frame that `PeerSends` would not
  for its bounds (`AnyFrame`), of which the server's proofs make no use. The invariant
  `SendInv` has three layers: the server's own; for each connection `ConnOK`, which
  relates the client's place to the goroutine's and to both queues; and `ToldOK`, which
  carries that over to what was reported before. While a client is there, the server
  has no message but the client's (`AckOK`), and over TCP there is, at any time, one
  request without an answer or one answer unread, but for the mail after a FETCH (`UpOK`,
  and `ClosedOK` for what can still be read from a server that has closed). Of that mail
  nothing is left when the message is sent, so that the next frame is its answer, unless
  the loop was left at mail with the subject NO_MAIL, which some FETCH in the sender's
  name has then found (`Deluded`, `Misled`). A client that waits for a frame when none
  is under way is owed one, but in the one place that `send_stuck` shows: the loop after a FETCH that was answered
  with mail or refused. That a goroutine in its batch owes a frame rests on the order
  of the stamps (`FirstExists`). Each step is shown to touch one connection
  (`OthersSame`, `OtherClients`), then to keep `ConnOK` there.
* `MeshProofs`: `MeshTypes`, `SilentTrue`, `RelaysOwnWord`, `NoneInvented`. The
  invariant adds that every datagram under way is honest: an ANNOUNCE has a source its
  sender had and a mode it was started in, a FIND names a node that asks, and a FOUND is
  made out to one and carries an address some node had or some user gave.
* `IdentityProofs`: `PairAlwaysMatches`, `IdentityIsKept`, `OneKeyAtATime`. The
  invariant `IdInv`: a node that is past `Open` holds the lock alone (`LockOK`); a
  public key on disk has its private key beside it and is the one saved, and nothing
  is saved while SaveKeys is at work (`FilesOK`: it writes the private key first and
  starts only when one of the files is unreadable, which, of the two, the public one
  then is); a holder of the lock has read the private key that is still on disk, and
  commands only know public keys that were saved (`HalvesOK`).
* `BlockListProofs`: `EnforcedIsSigned`, from: every signature in any copy of the
  list, on disk, published, downloaded or read by the tool, was made. A list with
  a quorum of zero needs no signature and is excepted by the property itself.
* `ApiProofs`: `TypeCorrect`; `PostsCounted`, from the invariant `CountInv` that a
  counter and the requests between the two transactions of a post to its area
  together are at most the posts stored; `ConfirmedIsKept`, from: rows are no newer
  than the clock (`RowsOK`), what the BoomEx server will delete was found by a FETCH,
  and what a request has stored but not yet confirmed is kept (`SavedKept`);
  `ApiImplementsMailbox` from the same invariant, step by step, under the hypotheses of
  `ImplementsMailbox`; `AreasAreKept` and `PeersAreKept`, step by step.
* `AfskProofs`: `NeverReadBack`, for every message of one byte or more. The encoder
  makes 180 samples of a byte (`Encoded`), the decoder uses up 189 for each it returns
  and begins none in the last 180, so it always returns fewer bytes than were written
  (`SamplesTaken`). `BreakNotTaken` shows why `DecodeByte` can leave out the check at
  radio.go:83. The run `radio` shows in addition that the bytes it does return are wrong.

Only model-checked: `SendEndsOrStarves` (liveness under fairness, which this prover
does not do), and all violated properties but `ReadBack`, whose failure is a theorem. Every
invariant and action property of a passing run is a theorem. Without the hypotheses of the
two refinements `IsMailbox` and `ApiIsMailbox` are false (one ID for two messages, or an
address that begins another, is enough), and of what is kept then `Conserved` and
`ConfirmedIsKept` say the rest. Not stated because it would hold by the shape of the
model: that the mail of one sender comes in the order of its stamps. No module declares a
recursive operator.

## 5. What is not modelled

* Contents, encodings and lengths of frames; frames that do not parse (the
  connection ends, as in `ReceiveFails`). Of subjects only which note they name,
  if any.
* The wall clock: stamps in keys never repeat, timeouts may fire at any time.
* Torn reads of mesh entries through shared pointers (a data race in the code;
  with one address per entry it gives the old or the new one), and how the
  exchange of ANNOUNCEs grows: with a bound on datagrams under way the model
  cannot count them, and the source promises no quiescence.
* Bans of an area. `ban` opens the database read-only (main.go:265) and then writes to
  it (289), which bbolt refuses, so that the bucket `bans` is always empty and
  `IsBannedInEcho` always false. That it waits for a running node without a timeout is
  in `Identity`.
* What the command line does over HTTP. Two things met on the way: `bn import` posts
  the bare file (main.go:189-190) where `handleImport` wants a multipart form
  (server.go:298), so `Api` has the import as the handler does it; and `bn msg` of
  a BM address never looks into the peer book (main.go:605).
* `transport.DialUpDial` and `DialUpConn`, which nobody calls; the programs that
  `RadioListen` starts to record and play, and sound that reaches `Read` in pieces;
  text of the modem within the stream, and bytes that came with its CONNECT line, which
  `serialConn.Read` passes over (boomex.go:397).
* Configuration and the version check have no state worth a model. `max_storage_mb`
  (boomnode.yaml:12) is, like `relay.enabled`, read and never asked: the bucket has no
  limit in the code, and none in the models. Nor is the order of the start of `runNode`
  beyond the steps named above.

## 6. Plan

Done, in this order: `MailBucket`, `Mailbox`, `BoomExServer` with its proofs,
`BoomExSend`, `Mesh` with its proofs, `Identity`, `BlockList` with theirs; then `Api`
with its proofs, `Identity` with several processes and the lock, dialling in
`BoomExSend`, `Afsk`, and the proofs of `BoomExSend`; then the refinement, policy and
row counts of the composition with the clients, the waits of the clients, the API as a
second implementation of `Mailbox`, and the proof about `Afsk`.

Worth doing next, should the code change there:

1. Mesh liveness: two nodes that know a common live relay come to know it and stay known;
   seeds after a long silence. The source promises neither so far.
2. A clock that repeats or goes back, with a statement of what the keys of the bucket
   are to guarantee then.
3. Bans of an area, once they can be written; the RadioConn as the transport of
   `BoomExSend`, once it carries what it is given.
