# A formal model of the gossiper

TLA+ modules, TLC runs and TLAPS proofs for the decentralised messenger in
`src/code` (Go, with a small browser client). Nodes exchange signed messages by
rumormongering and anti-entropy over UDP and keep them in an SQLite table; a
page served by every node shows them, sends them and edits the peer list.

## 1. Inventory

| component | source | state | operations |
|---|---|---|---|
| message store | `database.go` | the table `messages`, keyed by (ID, Origin), on disk | `NextID`, `VectorClock`, `InsertOrUpdateMessage`, `GetMessage`, UI queries |
| clocks, verification, insertion | `context.go`, `message.go` | none of its own | `VerifyMessage`, `TryInsertMessage`, `VectorClockEquals`, `VectorClockDifference`, `InsertKeyAnnouncementMessage` |
| gossip | `gossiper.go` | `StatusSubscriptions` (one handler per peer), one goroutine per mongering | peer handler, `startRumormongering`, `synchronizeMessages`, anti-entropy ticker |
| posting | `AddNewMessage` in `context.go`, POST handlers of `webserver.go` | the HTTP goroutine: the ID taken, the message being worked on | take an ID, proof of work, insert, spread |
| peer list | `gossiper.go:42-49,56-73`, `webserver.go:234-251`, `common.go:8-32` | `PeerSet`, text of an address to its class | flag, learn, toggle |
| event loop | `gossiper.go:52,142-146`, `request.go`, `RunSync` | `EventQueue`, 10 closures | receiver, ticker, HTTP and mongering goroutines push; the main thread runs |
| socket | `socket.go` | none | `Send`, `Receive` |
| proof of work | `message.go:111-138`, `common.go:48-76` | none | `ComputeNonce`, `NumLeadingZeros`, `CompareHashes` |
| private content | `context.go:60-91`, `webserver.go:71-113` | none | encrypt for two readers, split, decrypt |
| launch | `main` | flags, `key.bin`, `messages.db` | load, announce the key, start the threads |
| keys and encryption | `encryption.go` | key pair | RSA-PSS, RSA-OAEP, name from key |
| chat tabs | `webclient/peersterUi.js`, the tabs widget of `jquery-ui.js` | the tabs of the document and those the widget knows, the timer of a key | open, close, click, keys; the recipient of a message |
| page updates | `webclient/peersterUi.js`, `$.when` of `jquery-3.2.1.js` | requests under way, what is displayed | `update()`, sending a message |

How they interact. Every node has one main thread that runs closures from
`EventQueue`: one per datagram (`request.go:26`), one per tick of the
anti-entropy timer (`gossiper.go:135`), one at the end of every mongering
(`gossiper.go:185`) and those of `RunSync` (`context.go:298`), which block an
HTTP goroutine until they ran. A post needs three of them, with the proof of
work outside the loop between the first and the second. A mongering goroutine
gets its answer through the handler it left in `StatusSubscriptions`; a status
without a handler is treated as an anti-entropy one. Nodes interact by UDP
datagrams only. The page of a node reaches it by HTTP: four GETs every second,
one more per open chat, and POSTs for messages and peers.

What is hard: two posts at the same time; one subscription slot per peer shared
by several goroutines; statuses that arrive before, during or after a select;
loss, duplication and reordering; conflicts between two messages with one ID;
crashes between any two closures, and databases that are deleted while the key
is kept; convergence by anti-entropy alone; a bounded queue that its own
callers wait on; addresses with several spellings; a page whose rounds of
requests overlap, and tabs that the widget still knows after they were closed.
`PROJECT.json` lists each of these hazards at its line.

What makes each component correct:

- store: one row per (origin, ID), no gaps (`ExactlyOneRow`); clocks do not go
  back (`ClockNeverGoesBack`);
- insertion: a conflict is decided by the hash, in any order of arrival
  (`LowestHashWins`);
- posting: an ID is never issued twice (`AuthorIsAhead`), the author keeps what
  it posted (`PostedMessageIsStored`, `AuthorKeepsEverything`), a post returns
  (`PostsReturn`);
- gossip: handlers go away with their goroutines (`HandlersAreRemoved`), nodes
  converge (`Convergence`);
- event loop: closures run one at a time in the order handed over
  (`SerialExecution`), a `RunSync` has exactly one closure
  (`OneClosurePerCall`), nothing blocks for ever (`LoopKeepsTurning`,
  `RequestsEnd`, `MongeringEnds`);
- peer list: an endpoint has one name, and a peer listed under the address it
  sends from is recognised by it (`AnswersAreRecognised`), its class is kept
  (`ClassIsKept`), nodes find each other (`Discovery`);
- proof of work: the search finds the first nonce that fits
  (`FirstNonceIsTaken`, `SearchEnds`), every node counts and orders hashes in
  one way (`ZerosArePowersOfTwo`, `HashesAreOrdered`);
- private content: both readers, and nobody else, find their part
  (`ReadersReadTheText`);
- chat tabs: one chat is on the screen (`OneChatIsShown`,
  `OpeningShowsATab`) and what is typed goes there
  (`MessagesGoToTheShownChat`);
- page updates: a round is shown as a whole (`AllOrNothing`), is as new as its
  caller needs (`RoundIsRecent`), and the page ends with the data of the node
  (`PageCatchesUp`).

## 2. Modules

| module | models |
|---|---|
| `RumorStore` | one store as the set of its rows, and the functions of `database.go`, `context.go` and `message.go` over it |
| `Gossip` (extends `RumorStore`, implements `ReplicatedLog`) | a network of nodes: posting, mongering, anti-entropy, crashes |
| `ReplicatedLog` | abstract: what gossiping promises |
| `SerialExecutor` | abstract: what an event loop promises |
| `EventLoop` (implements `SerialExecutor`) | the threads of one node around `EventQueue` |
| `Peers` | the peer lists of several nodes with the texts of addresses |
| `NewMessage` | one message: content, nonce, hash, what every page shows of it |
| `Tabs` | the chat tabs and the tabs widget |
| `PageUpdates` | the rounds of `update()` and the sending of a message |
| `MCGossip`, `MCEventLoop`, `MCPeers`, `MCNewMessage`, `MCTabs`, `MCPageUpdates` | values of the constants for TLC |
| `GossipProofs`, `GossipAuthorProofs`, `EventLoopProofs`, `PeersProofs`, `PageUpdatesProofs`, `NewMessageProofs`, `TabsProofs` | lemmas and theorems |
| `Induction` | induction and recursion over numbers, for the proofs about bytes and tabs |

How they fit together. `Gossip` and `Peers` take a closure of the event loop as
one step; `EventLoop` has the queue, the threads and their waits, and its
refinement of `SerialExecutor` is what justifies that. `Gossip` has one address
per node; `Peers` has the spellings. `RumorStore` takes hashes as ranks
(`Digest`) and proofs of work as numbers (`Zeros`); `NewMessage` shows that
`CompareHashes` is such an order and what the zeros count. `Gossip` takes the
nonce search as a step that ends; `NewMessage` has its loop. `PageUpdates` takes
the data of a node as one version number, and uses that a GET is one closure
which changes nothing.

Definitions marked `(mutant)` are faulty variants of the definition after them:
each shows a property that notices the fault (`PROJECT.json`, `mutants`). No
specification uses them.

### Gossip

| variable | code |
|---|---|
| `db[n]` | the rows of `messages.db`; the only state that survives a crash |
| `peers[n]` | keys of `PeerSet` |
| `subs[n][q]` | the entry of `StatusSubscriptions` for q: the goroutine behind it |
| `task[n][t]` | a goroutine of `startRumormongering`: `spawned` (not in its select), `waiting`, `answered`/`timedout` (its closure is queued) |
| `call[n][c]` | an HTTP goroutine in `AddNewMessage`: `pow` (ID taken), `stored` (inserted, not spread) |
| `net` | datagrams in flight |
| `fresh`, `quota` | messages still to be composed, environment steps still allowed |

A closure on the event loop runs alone, so it is one action with everything it
does: `Compose`, `StoreOwn`, `SpreadOwn` are the three closures of a post;
`DropRumor`, `AcknowledgeRumor`, `AcceptRumor`, `ForwardStatus`, `AnswerStatus`
are the five outcomes of the peer handler, each with the learning of the sender;
`FinishMongering`, `ContinueMongering`, `SynchronizePeer` are the outcomes of
the closure of a mongering goroutine. `EnterSelect` and `TimeOut` are steps of
the goroutine itself. `AntiEntropy` is the tick, `TogglePeer` POST `/node`.
`Restart`, `WipeAndRestart` and `Lose` are the environment. Closures ready at
the same time run in any order here, which covers every order of the queue.

Abstractions, and why they keep what the properties tell apart:

- Name, key pair and address of a node are one value. Messages are signed by
  their origin only, so the signature check never fails; the proof of work and
  the missing key of an unknown origin still do.
- The body of a message is one value for destination, content, signature and
  nonce. RSA-PSS and OAEP are randomised, so two posts never have one body.
  `Digest` ranks the hashes (injective: no SHA-256 collision), `Zeros` is their
  proof of work.
- A clock is a total function; an origin the Go slice does not list has 0, which
  no listed origin has.
- The network is a set of packets: a packet sent twice while the first is in
  flight is one element, and a duplicate is a packet that stays (`MaxCopy`).
- A crash inside a closure equals a crash before it, or after it with the
  packets it had yet to send lost (`Lose`). The time a node is down is merged
  with its relaunch: packets that arrive meanwhile are lost ones.
- `RefusePrivate` may refuse any private message: the recipient can be unknown
  or the text too long for OAEP.
- The nonce search always ends with a nonce that is good enough: `Compose` takes
  a body whose `Zeros` reach the difficulty of the node.
- Uint32 IDs do not wrap in the lifetime of a node.
- Packets with both a rumor and a status are decoded by the code but never sent.

The refinement (`ImplementsLog`) maps a database to logs: `LogOf(db[n], o)` are
the bodies of the rows of o at n, in the order of their IDs. `ReplicatedLog` has
two steps, an author that appends and a replica that takes the next entry; every
packet, goroutine, crash and clock is hidden. It says more than the invariants:
entries are never changed, and a replica never has one that its author lacks.

One page never has two posts under way, because `sendMessage` disables its
input until the answer; two pages of one node do. Hence the runs with one client
and those with two.

### SerialExecutor and EventLoop

| variable | code |
|---|---|
| `line` | `EventQueue`: its first `Capacity` elements are the buffer, the rest belong to senders blocked on it (Go serves them in order) |
| `main` | the main thread: receiving, running a closure, or blocked at `proceed <- true` |
| `pc[t]` | every other thread; `pushed` is inside the send, `waiting` at `<-proceed` |
| `req[h]`, `body[h]` | the request an HTTP goroutine serves, the `RunSync` calls it has left, and whether its body has come |
| `subs`, `target` | the handlers, and the peer of each mongering goroutine |

`Receive` and `TickerFires` push a closure nobody waits for, `PushSync` one of
`RunSync`; `NextRound`, `AwaitProceed` and `Exit` are the return of the send,
possible once the closure is in the buffer. `Take` and the `Run...` actions are
the main thread; `Signal` is the rendezvous on `proceed`. POST `/node` decodes
its body inside its closure (`webserver.go:47`, `236`), so there the main thread
waits for the browser (`BodyArrives`). `RunStatus` offers the status to a
goroutine that is in its select, and does not wait (`gossiper.go:80-85`).
Closures are control only.

The refinement maps the closures not executed yet (the running one and `line`)
to `todo`, and a caller to `waiting` until its closure has run, then to
`answered`. It hides the buffer and the two-way handshake.

### Peers

`peers[n]` is `PeerSet` from texts to classes, `page[n]` what the page of n
listed last, `asked[n]` the requests for `/node` under way, `net` packets with
the endpoints they come from and go to. `Denotes` is `net.ResolveUDPAddr`,
`Written` is `String` of an address; `Resolved` is the text stored for what was
typed. A host name, and a text no packet will ever come with, are allowed.
`GossipWith` sends to a listed peer (the order of what it sends is in `Gossip`),
`Handle` is the part of the peer handler that learns the sender, `Ignore` the
branch for a packet of the own address (`gossiper.go:59`), `HandleNodes` the
toggle of POST `/node`, `Ask` and `Refresh` the page. A node that listens on all
interfaces has one unbound socket: whatever address it was reached at, its
packets to other nodes carry the source address the system routes by, its
`Home`. What it sends to itself comes from the address it is sent to.

### Tabs

`list` is the document, `ui` the widget: the tabs it knows, the active one and
its index, what is selected (`aria-selected`) and what is visible. They differ:
closing a tab takes it out of the document, and the widget is told (`refresh`)
only when the next tab is opened. `Activated`, `Reactivated` and `Refreshed`
translate `_eventHandler`, `_toggle`, `refresh` and `_refresh` with their early
returns and the error thrown when neither panel exists. The arrow keys select at
once and activate by a timer (`Arrow`, `TimerFires`), which other keys cancel.
`keyboard` tells users who press keys on the tabs from those who do not; what
is guaranteed to them differs. `Recipient` is the first lines of `sendMessage`.

### PageUpdates

`request[u][x]` is a GET of round u, `round[u]` its `$.when` with the counter
of answers missing, `shown` the page, `version` the data of the node, `sending`
the POST of a message. `Tick` is the interval, `SendSucceeds` the `update()`
after a post. `Fulfilled` and `Rejected` are what `$.when` does with an answer
or a failure, `Show` its callback, which also asks for the open chats; they are
displayed one by one when they arrive (`Arrive`). Rounds overlap, and their
answers come in any order.

### NewMessage

`hash` is SHA-256 of this message as a function of its nonce, `msg` the fields,
`nonce` and `phase` the loop of `ComputeNonce`. `Compose` makes the content (two
ciphertexts behind the length of the first, for a private message), `Try` is one
round of the loop with its carry, `Post` its end. `ConvertMessageFormat` is what
the page of any node shows; `ChunkEnd` is the sum of `webserver.go:97` and `100`,
which is taken in two bytes. Bytes have `Bits` bits.

## 3. Runs

| run | instance | question | result |
|---|---|---|---|
| `pair` | 2 nodes, posts one at a time, public or private to b, 1 crash, 1 duplicate, 1 peer edit | are IDs, copies and clocks safe against the network and crashes; refinement of `ReplicatedLog` | holds |
| `clients` | 2 posts at a time, 2 goroutines, 1 deleted database | what survives two messages with one ID | holds |
| `live` | node a launched without its database, a post at b, fairness | convergence, the restoring of what was lost, posts return | holds |
| `lostpost` | 2 posts at a time | a post adds its message (`context.go:41`) | violated |
| `reusedid` | as `live`, but a posts | "synchronize messages as usual" (`src/README.md:44`) | violated |
| `loop` | 2 HTTP goroutines, 1 mongering goroutine, 2 peers, a buffer of 1 | deadlock; is every `RunSync` answered by its own closure | holds |
| `serial` | 1 HTTP goroutine, 1 peer, a buffer of 1, fairness | refinement of `SerialExecutor`; does everything come to its end | holds |
| `peers` | 2 nodes, one with 2 addresses, 2 edits per user, fairness | names, classes, discovery | holds |
| `tabs` | 5 tabs opened, 3 nodes | what is shown and who gets the message | holds |
| `page` | 2 overlapping rounds of 2 resources, 1 chat, 2 failures, 1 change, fairness | is the page whole, recent, and in the end right | holds |
| `content` | bytes of 2 bits, nonces and hashes of 2 bytes, ciphertexts of 13, all affine hash functions of the family, all difficulties | search, counting, order, the two halves | holds |
| `zeros` | as `content` | "the number of leading zero bits" (`common.go:47`) | violated |

Bounds of `Gossip`. Two nodes are enough for every protocol between an author
and a replica; node a knows b only, so that b has to learn a. `MaxNet = 2` or
`3` lets two packets overtake each other and a duplicate meet its answer; a step
that would exceed it waits, which only removes interleavings of safety runs. In
`live` `MaxNet = 20` is never reached (there are fewer different packets), since
a blocked send would be an artificial obstacle to liveness; in `reusedid` a
counterexample is a behaviour of the code whatever the bound. Two posts are the
least that conflict, two goroutines the least that share a subscription.
`MaxCopy`, `MaxRestart`, `MaxWipe` and `MaxToggle` count events of the
environment. A third node (relaying, a mongering that goes on with another peer)
is beyond what TLC enumerates here and is covered by the theorems, which hold
for any number.

Bounds of the others. A buffer of 1 is full most of the time, which is where a
queue blocks; the code's 10 only delays that, and the theorems hold for every
capacity. Two HTTP goroutines and two peers let one closure start a mongering
while another waits. In `peers` two edits are an addition and a removal of the
same or of two peers. In `tabs` five openings allow every order of three chats
and a chat that is closed and opened again. In `page` two rounds are the least
that overtake each other, and two failures hit one round or both. In `content`
two bytes are the least with a carry and with a first byte that ties; a byte is
below 4, so ciphertexts of 13 bytes are the longest whose end, 2 + 13, two bytes
can tell.

Symmetry: the goroutine slots, and the clients where there are two, are
interchangeable in `Gossip` (nodes and bodies are not: peers, hash ranks), HTTP
goroutines and peers in `EventLoop`, nodes in `Tabs`. It is used in safety runs
only. Deadlock is checked in every run but `pair`, where a user can remove the
only peer of a node that nobody else knows, and then nothing is left to do, and
`content` and `zeros`, where the search ends.

What the violations show:

- `lostpost`: `AddNewMessage` reads the next ID in its first closure and inserts
  in its second. Two posts in progress (two browser tabs) take the same ID. The
  later insertion deletes the earlier message (`context.go:112`), and both
  requests return 200.
- `reusedid`: a node that lost `messages.db` gets everything back (`live`),
  unless it posts first: then it reuses an ID (`context.go:324`), the clocks
  agree and no synchronisation happens, although the stores differ.
- `zeros`: `NumLeadingZeros` visits the bits of a byte from the least significant
  one (`common.go:52`), so it does not give the leading zero bits its comment and
  the flag (`src/README.md:34`) speak of. All nodes count alike, and
  `ZerosArePowersOfTwo` says what they count: a difficulty costs as much as with
  leading zeros, but other hashes fit.

## 4. Fairness

- `Gossip`: weak fairness of every goroutine and closure (the Go scheduler and
  the event loop, which always drains); weak fairness of `AntiEntropy` per peer
  (the ticker never stops and `RandomPeer` is uniform, so every peer is picked
  again and again with probability 1); strong fairness of `FinishMongering`,
  because the coin cannot say "continue" for ever; and strong fairness of
  delivery per link and kind of packet: `Lose` stays enabled for ever, but a
  link that carries statuses (or rumors) again and again delivers some. No
  single packet is ever guaranteed to arrive. Nothing is assumed of users,
  crashes or peer edits.
- `EventLoop`: weak fairness of every thread, and of `BodyArrives`: a browser
  sends the body it announced or closes the connection. This is an assumption
  about the browser, the code has no read timeout; without it the whole node
  stops for one POST `/node` (section 6), and the liveness of the loop says
  nothing of that. Datagrams, ticks and requests need not come.
- `Peers`: strong fairness of gossip and of delivery per pair of nodes, for the
  reasons given for `Gossip`; requests are served.
- `PageUpdates`: the interval, the event loop and the network go on. Users and
  failures are free.
- `NewMessage`: the goroutine that searches a nonce goes on.

## 5. Proofs

The theorems hold for any number of nodes, clients, goroutines, packets,
crashes, rounds and tabs of the page, and for any sizes. Their assumptions are
those of the constants, named in each module (`StoreAssumption`,
`GossipAssumption`, `EventLoopAssumption`, ...), and what is said here. Every
safety property the passing runs check is the subject of a theorem.

`Gossip`. Keys and hashes are injective, a node's announcement satisfies its own
difficulty, and the databases found at the first launch have no gaps.

- `GossipProofs!InOrder`: the inductive invariant `IInv`, that is `TypeOK`,
  stores without gaps and with one row per ID, and the link that makes it
  inductive: the ID a post has taken is at most the next ID of its node. Stores
  grow in between, so the later insertion fills the next slot or replaces a row,
  and never leaves a gap (`InsertInOrder`). A relaunch clears the posts, so this
  holds with deleted databases too.
- `TypeCorrect` and `RowsAreThere` (`ExactlyOneRow`) follow from it. Typing
  needs the order of the stores: a status carries natural numbers because the
  next ID of a store without gaps is one.
- `ClocksGrow` (`ClockNeverGoesBack`), for `MaxWipe = 0`: a database changes in
  `StoreOwn`, `AcceptRumor` and a relaunch only (`StoreChanges`), each in order.
- `ConflictsAreDecidedByHash` (`LowestHashWins`), without restriction: an
  insertion below the next ID passed `Preferred`, one at the next ID replaces
  nothing, and the unconditional insertion is of the own origin.
- `HandlersGoAway` (`HandlersAreRemoved`) is inductive on top of `IInv`: one
  step per action, with `MongerLinks` for all three ways to start a mongering.
- `GossipAuthorProofs!AuthorsAreAhead` (`AuthorIsAhead`), for `MaxWipe = 0` and
  first databases in which no message is ahead of its author: clocks of authors
  grow, and every copy made by a step is an old one or a row of its author
  (`CopiesStep`, `AheadGrows`).
- `AuthorsKeepTheirMessages` (`AuthorKeepsEverything`) and `PostsAreStored`
  (`PostedMessageIsStored`), for `MaxWipe = 0`, one post at a time (`OnePost`)
  and first databases in which every message is also in its author's
  (`NothingLost`). The invariant is `KeptInv`: nodes have announced themselves,
  a post in its proof of work has the next ID and a message that passes the
  checks, a stored one is in the table, and every copy is a row of its author.
  `OwnRowsStay` is the key: only the own second closure could replace an own
  row, and with one post it fills the next ID. That `lostpost` is violated shows
  that `OnePost` cannot be dropped, `reusedid` and `clients` that `MaxWipe = 0`
  cannot.
- `GossipIsALog` (`ImplementsLog`), under the same assumptions: every step of the
  network is `Publish`, `Copy` or a stutter of `ReplicatedLog`. A step changes at
  most one database, by one insertion at the next ID (`InsertExtends`,
  `LogsStep`): an insertion below it would replace a row of its author by another
  one, and `KeptInv` says every copy is that row. The new entry of a replica is
  the one its author has there for the same reason (`ReplicasHavePrefixes`), and
  appending a row appends to one log only (`InsertAppends`).

`EventLoop`, for any capacity.

- `LoopTypeCorrect` and `CallsHaveOneClosure` (`OneClosurePerCall`) from the
  invariant `IInv`: types; the closure of a caller in `RunSync` is in line once,
  or on the main thread, or executed with its signal pending (`Placed`); a
  goroutine without a request is idle.
- `LoopIsSerial`: the loop implements the safety part of `SerialExecutor`. Every
  action is a step of it or a stutter; `Placed` is what makes `Execute` of a
  closure of `RunSync` answer exactly its caller.

`Peers`: `PeersTypeCorrect`; `AnswersRecognised` (`AnswersAreRecognised`) from
the invariant that every listed text was written by `String` for an endpoint
(`Recognised`) and that packets between nodes come from the home of their sender
(`FromHome`): resolving what `String` wrote gives the same endpoint, or nothing
(`PeersAssumption`), so a listed text that denotes the home of a node is what
its packets come with; `ClassesAreKept` (`ClassIsKept`).

`Tabs`, for any nodes and number of openings. The invariant `IInv` relates the
document to the widget: the public tab stays, ids are given once and below the
counter, the list of the widget is not empty and no longer than the tabs opened,
and the visible panel is that of the active tab if it still has one
(`ui.shown = {ui.active} \cap In(list)`). Without keys the same holds of
`aria-selected`; keys run ahead of it. `Activates` and `Refreshes` say once what
an activation and a refresh leave; `WithoutKeeps` (closing) needs an induction
over the list. From it follow `TypeCorrect`, `AtMostOneChat`
(`OneChatIsShown`), `RecipientIsShown` (`MessagesGoToTheShownChat`) and `OpeningShows` (`OpeningShowsATab`).

`PageUpdates`: `PageTypeCorrect`, `RoundsAreAllOrNothing` (`AllOrNothing`) and
`RoundsAreRecent` (`RoundIsRecent`). The invariant counts: the answers missing
of a round are as many as its requests not arrived, so the counter of `$.when`
is 0 only when all of them are here; and every answer is as new as its round.

`NewMessage`, for nonces and hashes of any number of bytes of any size.

- `NewMessageTypeCorrect`, and `ReadersRead` (`ReadersReadTheText`) for every
  ciphertext length to which 2 can be added in two bytes
  (`NewMessageAssumption`; 256 in the code): `TwoBytes` restores the length,
  `EndIsThere` finds the end of the first half, `ContentIsSplit` the two halves,
  `OnlyAddressee` keeps others out.
- `HashesAreTotallyOrdered` (trichotomy and transitivity of `CompareHashes`) and
  `HashesAreNumbers` (`HashesAreOrdered`): the order is that of the big-endian
  numbers. `LowerIsLess` goes along the bytes: equal before the first that
  differs, less from there on.
- `FirstIsTaken` (`FirstNonceIsTaken`): `IncrementedIsNext` shows that the carry
  over the bytes adds 1 or starts again from 0 (`CarryIsOneMore`), `SameNonce`
  that different nonces are different numbers; so the nonces tried are all those
  below the current one.
- `ZerosArePowers` (`ZerosArePowersOfTwo`): `BitsOfHash` shows that the bits
  `NumLeadingZeros` visits are those of the little-endian number, by giving what
  is left of it after each bit; `ZeroBits` that a number with such bits is
  divisible by `2 ^ k` exactly if the first k are 0. It uses `PowersOfTwo`, which
  is arithmetic (the provers have none of powers) and evaluated by TLC.

Numbers are folds over bytes, and what a fold computes needs induction. The
lemmas of `Induction` state it with sets instead of operators (`Inductive`,
`InductiveUpTo`), and the existence of a recursive function with a function of
one step (`Iterates`), from the well-foundedness of the natural numbers.

Only model-checked: all liveness, that is `Convergence`, `PostsReturn`,
`LoopKeepsTurning`, `RequestsEnd`, `MongeringEnds`, the fairness part of
`SerialExecution`, `Discovery`, `PageCatchesUp` and `SearchEnds`. Liveness under
fairness is out of reach of the prover.

## 6. Behaviours found without a run

Read in the code while modelling. No comment or test says otherwise in a form a
property could state, or the property would be about a single line.

- `webserver.go:238` compares the typed text with the own address before it is
  resolved. Another spelling of it (a host name, another interface) is added, the
  node then sends to itself, and its packet reaches "This should not happen"
  (`gossiper.go:59`) when it comes back under the text of the flag, or is handled
  like one of another node. The entry whose text is the own address cannot be
  removed again: the same comparison refuses it. The `peers` run reaches these
  states (user of a).
- `common.go:18` writes an IPv6 address without brackets, so the text of an IPv6
  peer cannot be resolved and nothing is ever sent to it. `PeersAssumption`
  allows such texts.
- `peersterUi.js:138` and `147`: the cross of a peer sends a toggle. A double
  click, or a list that is out of date, adds the peer again, as `manual`.
- `jquery-ui.js:17494-17506`: an arrow key selects a tab and leaves its
  activation to a timer. Another key may cancel the timer, and then the selected
  tab, which receives the messages, is not the chat on the screen. This is why
  `MessagesGoToTheShownChat` is stated for users without keys.
- `context.go:50`: two simultaneous posts share an ID, and if the first has been
  spread, two messages of an honest node do; the comment at `context.go:171`
  speaks of misbehaving senders. The author's own insertion ignores the rule of
  the lower hash, so its store and those of others may differ with equal clocks.
- `gossiper.go:189`: the first of two goroutines that monger with one peer
  deletes the handler of the second (`gossiper.go:118` overwrote the first), whose
  status is then handled as an anti-entropy one, and which runs into its timeout.
  Convergence does not depend on it.
- `socket.go:45`, `gossiper.go:110`: a node that listens on all interfaces and was
  entered under one of its addresses sends from another. It is learned under that
  one too, so it is listed twice; the handler of a mongering with the first entry
  is missed (its statuses are handled as anti-entropy ones) and the goroutine runs
  into its timeout. `AnswersAreRecognised` says nothing of such an entry; the
  `peers` run reaches it (a is entered as ea and sends from wa).
- `webserver.go:47`: POST `/node` decodes its body on the main thread, and the
  server has no read timeout: while a browser keeps the connection open without
  sending the body, the node handles no packet and no other request.
- `webserver.go:97`, `100`: `2+splitPoint` is a `uint16`. It would wrap for
  ciphertexts of 65534 and 65535 bytes, and the slice would be a panic; the code
  only makes ciphertexts of 256.
- `peersterUi.js:185`: closing the selected tab leaves no tab selected, and the
  next message goes to the public room, until a tab is clicked or opened
  (`OpeningShowsATab`).
- `peersterUi.js:125`: rounds of `update()` are not compared. One that takes longer
  than a later one is displayed after it and shows older data until the next.
- `context.go:121`: a node with a higher `powDifficulty` rejects a message of a
  node with a lower one, and as IDs have no gaps all later ones too, for ever.
  `PowTarget` may differ per node in `Gossip` and in its theorems; the runs have
  one difficulty.

## 7. Not modelled, and why

- RSA, PSS, OAEP, SHA-256, base64 and the derivation of names: library code that
  keeps no state. The modules use what it guarantees.
- The queries of the UI (`NodeList`, `GetAllMessagesTo`,
  `GetAllMessagesBetween`), the JSON of the GET handlers and the HTML made of it:
  reads and formatting.
- The size of datagrams (`socket.go:37`): messages fit. A message above 64 kB is
  never sent, and would make `Convergence` fail by itself.
- A deleted `key.bin`: it makes another node.
- Logging, the ring scripts, and the parts of jQuery and jQuery UI that
  `peersterUi.js` does not call.

## 8. How to run

    tlc -workers 2 -config MCGossip_pair.cfg MCGossip
    tlapm GossipAuthorProofs.tla

A cfg `MC<module>_<run>.cfg` belongs to the module `MC<module>`. Every run takes
between a few seconds and about two minutes.

## 9. Plan

Done, in this order: `RumorStore` and `Gossip` with safety and convergence runs;
their proofs; `EventLoop` and its refinement; `Peers`; `NewMessage`; `Tabs` and
`PageUpdates`; the proofs about authors, the loop, peers, updates and content;
those about tabs and about hashes and nonces as numbers; `ReplicatedLog` and its
refinement.

Left: runs of `Gossip` with different difficulties and with messages that fit no
datagram, which need a weaker convergence; convergence with three nodes, for
which the fairness has to be checked on a smaller protocol; what survives of the
log when two posts share an ID or a database is deleted.
