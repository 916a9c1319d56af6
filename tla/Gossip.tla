------------------------------- MODULE Gossip -------------------------------
(***************************************************************************)
(* A network of gossipers: gossiper.go (the peer handler, the anti-entropy *)
(* timer, rumormongering, synchronisation), AddNewMessage of context.go,   *)
(* the HTTP handlers that post messages and edit the peer list             *)
(* (webserver.go), and restarts.                                           *)
(*                                                                         *)
(* Every closure pushed on Context.EventQueue runs alone on the main       *)
(* thread of its node, so each one is a single action here; what lies      *)
(* between two closures (the proof of work, the select of a mongering      *)
(* goroutine, the wait for the queue) is a control state.                  *)
(***************************************************************************)
EXTENDS RumorStore

CONSTANTS
    WithUI,      \* the nodes started with -UIPort
    Client,      \* the posts a node can be serving at the same time
    Task,        \* mongering goroutines a node can have at the same time (bound)
    NoTask,      \* an address without a StatusSubscriptions entry
    PeerFlag,    \* PeerFlag[n]: the -peers of node n
    Stored,      \* Stored[n]: the messages.db found by n's first launch
    MaxNet,      \* packets in flight (bound)
    MaxCopy,     \* packets the network delivers once more (bound)
    MaxRestart,  \* crashes followed by a relaunch (bound)
    MaxWipe,     \* relaunches with a deleted messages.db (bound)
    MaxToggle    \* edits of the peer list through the UI (bound)

ASSUME GossipAssumption ==
    /\ WithUI \subseteq Node
    /\ NoTask \notin Task
    /\ PeerFlag \in [Node -> SUBSET Node]
    /\ \A n \in Node : n \notin PeerFlag[n]
    /\ Stored \in [Node -> SUBSET Message]
    /\ \A n \in Node : WellFormed(Stored[n])
    /\ {MaxNet, MaxCopy, MaxRestart, MaxWipe, MaxToggle} \subseteq Nat

VARIABLES
    db,     \* Context.Database of each node: its rows, they survive a crash
    peers,  \* the keys of Context.PeerSet of each node
    subs,   \* Context.StatusSubscriptions: the goroutine behind each handler
    task,   \* the mongering goroutines of each node
    call,   \* the AddNewMessage calls in progress at each node
    fresh,  \* bodies nobody has composed yet
    quota,  \* duplicates, restarts, wipes and peer list edits still allowed (bound)
    net     \* UDP packets in flight

vars == <<db, peers, subs, task, call, fresh, quota, net>>

Want == [Node -> Nat]

RumorPacket(n, q, m) == [kind |-> "rumor", from |-> n, to |-> q, msg |-> m]
StatusPacket(n, q, w) == [kind |-> "status", from |-> n, to |-> q, want |-> w]

Packet ==
    [kind : {"rumor"}, from : Node, to : Node, msg : Message]
        \cup [kind : {"status"}, from : Node, to : Node, want : Want]

Idle == [phase |-> "idle"]

\* "spawned": not yet in its select.  "waiting": in its select.  "answered" and
\* "timedout": its closure is on the event queue.
TaskState ==
    {Idle} \cup [phase : {"spawned", "waiting", "timedout"}, peer : Node, msg : Message]
        \cup [phase : {"answered"}, peer : Node, msg : Message, want : Want]

\* "pow": ID taken, nonce being computed.  "stored": inserted, not yet spread.
CallState == {Idle} \cup [phase : {"pow", "stored"}, msg : Message]

TypeOK ==
    /\ db \in [Node -> SUBSET Message]
    /\ peers \in [Node -> SUBSET Node]
    /\ subs \in [Node -> [Node -> Task \cup {NoTask}]]
    /\ task \in [Node -> [Task -> TaskState]]
    /\ call \in [Node -> [Client -> CallState]]
    /\ fresh \subseteq Body
    /\ quota \in [copy : Nat, restart : Nat, wipe : Nat, toggle : Nat]
    /\ net \subseteq Packet

NoTasks == [t \in Task |-> Idle]
NoHandlers == [q \in Node |-> NoTask]
NoCalls == [c \in Client |-> Idle]

Init ==
    /\ db = [n \in Node |-> Launched(n, Stored[n])]
    /\ peers = PeerFlag
    /\ subs = [n \in Node |-> NoHandlers]
    /\ task = [n \in Node |-> NoTasks]
    /\ call = [n \in Node |-> NoCalls]
    /\ fresh = {b \in Body : /\ \A n \in Node : KeyBody[n] # b
                             /\ \A n \in Node : \A m \in Stored[n] : m.body # b}
    /\ quota = [copy |-> MaxCopy, restart |-> MaxRestart, wipe |-> MaxWipe,
                toggle |-> MaxToggle]
    /\ net = {}

-----------------------------------------------------------------------------
(* Sending and mongering *)

\* The packets of rest stay in flight, those of out are sent.
Transmit(rest, out) ==
    /\ net' = rest \cup out
    /\ Cardinality(net') <= MaxNet

\* startRumormongering(m, q) by goroutine t, after handlers and tasks became
\* what the closure left of them: a handler already there is replaced.
StartMongering(n, m, q, t, handlers, tasks, rest, out) ==
    /\ tasks[t] = Idle
    /\ task' = [task EXCEPT ![n] =
                  [tasks EXCEPT ![t] = [phase |-> "spawned", peer |-> q, msg |-> m]]]
    /\ subs' = [subs EXCEPT ![n] = [handlers EXCEPT ![q] = t]]
    /\ Transmit(rest, out \cup {RumorPacket(n, q, m)})

\* (mutant) nobody looks whether RandomPeer found a peer: without one it returns ""
MongerUnchecked(n, m, valid, handlers, tasks, rest, out) ==
    \E q \in IF valid = {} THEN {""} ELSE valid, t \in Task :
        StartMongering(n, m, q, t, handlers, tasks, rest, out)

\* Pick a RandomPeer of valid and monger m with it, if there is one.
Monger(n, m, valid, handlers, tasks, rest, out) ==
    \/ \E q \in valid, t \in Task :
          StartMongering(n, m, q, t, handlers, tasks, rest, out)
    \/ /\ valid = {}
       /\ task' = [task EXCEPT ![n] = tasks]
       /\ subs' = [subs EXCEPT ![n] = handlers]
       /\ Transmit(rest, out)

\* synchronizeMessages(want, q)
Synchronization(n, want, q) ==
    {RumorPacket(n, q, m) : m \in Missing(db[n], want)}

-----------------------------------------------------------------------------
(* Posting a message: the three closures of POST /message and /privateMessage *)

\* First closure of AddNewMessage: take the next ID, build the message.  The
\* nonce search that follows ends with enough zeros for this node.
Compose(n, c, b) ==
    /\ n \in WithUI
    /\ call[n][c] = Idle
    /\ b \in fresh
    /\ \A d \in Recipient[b] : KeyKnown(db[n], d)
    /\ Zeros[b] >= PowTarget[n]
    /\ fresh' = fresh \ {b}
    /\ call' = [call EXCEPT ![n][c] =
                  [phase |-> "pow",
                   msg |-> [origin |-> n, id |-> NextID(db[n], n), body |-> b]]]
    /\ UNCHANGED <<db, peers, subs, task, quota, net>>

\* The same closure for a private message whose recipient is unknown or whose
\* text is too long to encrypt: status 500, nothing stored
RefusePrivate(n, c, b) ==
    /\ n \in WithUI
    /\ call[n][c] = Idle
    /\ b \in fresh
    /\ Recipient[b] # {}
    /\ fresh' = fresh \ {b}
    /\ UNCHANGED <<db, peers, subs, task, call, quota, net>>

\* Second closure of AddNewMessage, after the proof of work.  VerifyMessage, whose
\* failure would be a panic, succeeds here: that is PostedMessageIsStored.
StoreOwn(n, c) ==
    /\ call[n][c].phase = "pow"
    /\ db' = [db EXCEPT ![n] = InsertOrUpdateMessage(@, call[n][c].msg)]
    /\ call' = [call EXCEPT ![n][c].phase = "stored"]
    /\ UNCHANGED <<peers, subs, task, fresh, quota, net>>

\* (mutant) spread before it is stored
SpreadUnstored(n, c) ==
    /\ call[n][c] # Idle
    /\ Monger(n, call[n][c].msg, peers[n], subs[n], task[n], net, {})
    /\ UNCHANGED <<db, peers, call, fresh, quota>>

\* (mutant) the post returns only when nobody is left to spread to
SpreadForEver(n, c) ==
    /\ call[n][c].phase = "stored"
    /\ Monger(n, call[n][c].msg, peers[n], subs[n], task[n], net, {})
    /\ call' = IF peers[n] = {} THEN [call EXCEPT ![n][c] = Idle] ELSE call
    /\ UNCHANGED <<db, peers, fresh, quota>>

\* Closure of the handler: spread whatever row now has the ID it was given
SpreadOwn(n, c) ==
    /\ call[n][c].phase = "stored"
    /\ \E m \in GetMessage(db[n], n, call[n][c].msg.id) :
          Monger(n, m, peers[n], subs[n], task[n], net, {})
    /\ call' = [call EXCEPT ![n][c] = Idle]
    /\ UNCHANGED <<db, peers, fresh, quota>>

-----------------------------------------------------------------------------
(* The peer handler.  rest is what stays in flight: p too if it is duplicated. *)

Receives(n, p, rest) ==
    /\ p \in net
    /\ p.to = n
    /\ \/ /\ rest = net \ {p}
          /\ UNCHANGED quota
       \/ /\ rest = net
          /\ quota.copy > 0
          /\ quota' = [quota EXCEPT !.copy = @ - 1]
    /\ peers' = [peers EXCEPT ![n] = @ \cup {p.from}]

\* A rumor that fails VerifyMessage is dropped without an acknowledgement.
DropRumor(n, p, rest) ==
    /\ Receives(n, p, rest)
    /\ p.kind = "rumor"
    /\ ~VerifyMessage(n, db[n], p.msg)
    /\ Transmit(rest, {})
    /\ UNCHANGED <<db, subs, task, call, fresh>>

\* A verified rumor that is old or out of order is only acknowledged.
AcknowledgeRumor(n, p, rest) ==
    /\ Receives(n, p, rest)
    /\ p.kind = "rumor"
    /\ VerifyMessage(n, db[n], p.msg)
    /\ ~Accepts(db[n], p.msg)
    /\ Transmit(rest, {StatusPacket(n, p.from, VectorClock(db[n]))})
    /\ UNCHANGED <<db, subs, task, call, fresh>>

\* A new or preferred rumor is stored, acknowledged and mongered further.
AcceptRumor(n, p, rest) ==
    /\ Receives(n, p, rest)
    /\ p.kind = "rumor"
    /\ VerifyMessage(n, db[n], p.msg)
    /\ Accepts(db[n], p.msg)
    /\ db' = [db EXCEPT ![n] = InsertOrUpdateMessage(@, p.msg)]
    /\ Monger(n, p.msg, peers[n] \ {p.from}, subs[n], task[n], rest,
              {StatusPacket(n, p.from, VectorClock(db'[n]))})
    /\ UNCHANGED <<call, fresh>>

\* A status goes to the handler subscribed for its sender, which passes it on
\* only if the goroutine is in its select.
ForwardStatus(n, p, rest) ==
    LET t == subs[n][p.from] IN
    /\ Receives(n, p, rest)
    /\ p.kind = "status"
    /\ t # NoTask
    /\ \/ /\ task[n][t].phase = "waiting"
          /\ task' = [task EXCEPT ![n][t] =
                        [phase |-> "answered", peer |-> @.peer,
                         msg |-> @.msg, want |-> p.want]]
       \/ /\ task[n][t].phase # "waiting"
          /\ UNCHANGED task
    /\ Transmit(rest, {})
    /\ UNCHANGED <<db, subs, call, fresh>>

\* Without a handler the status is an anti-entropy one.
AnswerStatus(n, p, rest) ==
    /\ Receives(n, p, rest)
    /\ p.kind = "status"
    /\ subs[n][p.from] = NoTask
    /\ Transmit(rest, Synchronization(n, p.want, p.from))
    /\ UNCHANGED <<db, subs, task, call, fresh>>

\* The anti-entropy ticker picks q.
AntiEntropy(n, q) ==
    /\ q \in peers[n]
    /\ Transmit(net, {StatusPacket(n, q, VectorClock(db[n]))})
    /\ UNCHANGED <<db, peers, subs, task, call, fresh, quota>>

-----------------------------------------------------------------------------
(* The goroutine of startRumormongering and the closure it leaves *)

EnterSelect(n, t) ==
    /\ task[n][t].phase = "spawned"
    /\ task' = [task EXCEPT ![n][t].phase = "waiting"]
    /\ UNCHANGED <<db, peers, subs, call, fresh, quota, net>>

TimeOut(n, t) ==
    /\ task[n][t].phase = "waiting"
    /\ task' = [task EXCEPT ![n][t].phase = "timedout"]
    /\ UNCHANGED <<db, peers, subs, call, fresh, quota, net>>

\* (mutant) the subscription is left in place
StillSubscribed(n, t) == subs[n]

\* What the closure does first: delete the entry of its peer, whoever set it
Unsubscribed(n, t) == [subs[n] EXCEPT ![task[n][t].peer] = NoTask]

\* Timeout, or the peer has the same clock: the coin is flipped.
CoinIsFlipped(n, t) ==
    \/ task[n][t].phase = "timedout"
    \/ task[n][t].phase = "answered" /\ SameClock(db[n], task[n][t].want)

FinishMongering(n, t) ==
    /\ CoinIsFlipped(n, t)
    /\ subs' = [subs EXCEPT ![n] = Unsubscribed(n, t)]
    /\ task' = [task EXCEPT ![n][t] = Idle]
    /\ UNCHANGED <<db, peers, call, fresh, quota, net>>

ContinueMongering(n, t) ==
    /\ CoinIsFlipped(n, t)
    /\ Monger(n, task[n][t].msg, peers[n] \ {task[n][t].peer}, Unsubscribed(n, t),
              [task[n] EXCEPT ![t] = Idle], net, {})
    /\ UNCHANGED <<db, peers, call, fresh, quota>>

SynchronizePeer(n, t) ==
    /\ task[n][t].phase = "answered"
    /\ ~SameClock(db[n], task[n][t].want)
    /\ subs' = [subs EXCEPT ![n] = Unsubscribed(n, t)]
    /\ task' = [task EXCEPT ![n][t] = Idle]
    /\ Transmit(net, Synchronization(n, task[n][t].want, task[n][t].peer))
    /\ UNCHANGED <<db, peers, call, fresh, quota>>

-----------------------------------------------------------------------------
(* The user and the environment *)

\* POST /node: remove the peer if it is there, add it otherwise
TogglePeer(n, q) ==
    /\ n \in WithUI
    /\ q # n
    /\ quota.toggle > 0
    /\ peers' = [peers EXCEPT ![n] = IF q \in @ THEN @ \ {q} ELSE @ \cup {q}]
    /\ quota' = [quota EXCEPT !.toggle = @ - 1]
    /\ UNCHANGED <<db, subs, task, call, fresh, net>>

\* A crash and the next launch on the store left on disk.  A crash inside a
\* closure is one before it, or one after it with its packets lost.
Relaunch(n, store) ==
    /\ db' = [db EXCEPT ![n] = Launched(n, store)]
    /\ peers' = [peers EXCEPT ![n] = PeerFlag[n]]
    /\ subs' = [subs EXCEPT ![n] = NoHandlers]
    /\ task' = [task EXCEPT ![n] = NoTasks]
    /\ call' = [call EXCEPT ![n] = NoCalls]
    /\ UNCHANGED <<fresh, net>>

Restart(n) ==
    /\ quota.restart > 0
    /\ quota' = [quota EXCEPT !.restart = @ - 1]
    /\ Relaunch(n, db[n])

\* The same after messages.db was deleted; key.bin keeps the identity.
WipeAndRestart(n) ==
    /\ quota.wipe > 0
    /\ quota' = [quota EXCEPT !.wipe = @ - 1]
    /\ Relaunch(n, {})

Lose(p) ==
    /\ p \in net
    /\ net' = net \ {p}
    /\ UNCHANGED <<db, peers, subs, task, call, fresh, quota>>

-----------------------------------------------------------------------------

Deliver(n, p, rest) ==
    \/ DropRumor(n, p, rest)
    \/ AcknowledgeRumor(n, p, rest)
    \/ AcceptRumor(n, p, rest)
    \/ ForwardStatus(n, p, rest)
    \/ AnswerStatus(n, p, rest)

Next ==
    \/ \E n \in Node, c \in Client :
          \/ \E b \in fresh : Compose(n, c, b) \/ RefusePrivate(n, c, b)
          \/ StoreOwn(n, c)
          \/ SpreadOwn(n, c)
    \/ \E n \in Node, p \in net : \E rest \in {net, net \ {p}} : Deliver(n, p, rest)
    \/ \E n \in Node, t \in Task :
          \/ EnterSelect(n, t)
          \/ TimeOut(n, t)
          \/ FinishMongering(n, t)
          \/ ContinueMongering(n, t)
          \/ SynchronizePeer(n, t)
    \/ \E n, q \in Node : AntiEntropy(n, q) \/ TogglePeer(n, q)
    \/ \E n \in Node : Restart(n) \/ WipeAndRestart(n)
    \/ \E p \in net : Lose(p)

Spec == Init /\ [][Next]_vars

(***************************************************************************)
(* Fairness.  Goroutines and the event loop keep running; the coin of      *)
(* mongering cannot say "continue" for ever; the ticker picks every peer   *)
(* again and again (RandomPeer is uniform).  UDP may lose any packet, and  *)
(* Lose stays possible for ever, but a link on which a kind of packet is   *)
(* in flight again and again delivers some of them (the network does not   *)
(* duplicate for ever: MaxCopy).                                           *)
(***************************************************************************)
DeliverKind(n, q, kind) ==
    \E p \in net : p.from = n /\ p.kind = kind /\ Deliver(q, p, net \ {p})

Fairness ==
    /\ \A n \in Node, c \in Client : WF_vars(StoreOwn(n, c)) /\ WF_vars(SpreadOwn(n, c))
    /\ \A n \in Node, t \in Task :
          /\ WF_vars(EnterSelect(n, t))
          /\ WF_vars(TimeOut(n, t))
          /\ SF_vars(FinishMongering(n, t))
          /\ WF_vars(SynchronizePeer(n, t))
    /\ \A n \in Node : \A q \in Node \ {n} :
          /\ WF_vars(AntiEntropy(n, q))
          /\ SF_vars(DeliverKind(n, q, "rumor"))
          /\ SF_vars(DeliverKind(n, q, "status"))

FairSpec == Spec /\ Fairness

-----------------------------------------------------------------------------
(* Safety *)

Rumors == {p.msg : p \in {r \in net : r.kind = "rumor"}}

Mongered(n) == {task[n][t].msg : t \in {u \in Task : task[n][u] # Idle}}

\* Every copy of a message outside the request that composes it
Copies == Rumors \cup UNION {db[n] \cup Mongered(n) : n \in Node}

(***************************************************************************)
(* Below the next ID of an origin every ID has exactly one row.            *)
(* TryInsertMessage (context.go:174) and BuildRumorMessage (context.go:    *)
(* 201) dereference the result of GetMessage for such IDs without looking  *)
(* for nil, whatever IDs other nodes send.                                 *)
(***************************************************************************)
ExactlyOneRow ==
    \A n, o \in Node : \A i \in 0 .. NextID(db[n], o) - 1 :
        \E m \in db[n] : GetMessage(db[n], o, i) = {m}

(***************************************************************************)
(* No node ever holds, mongers or has in flight a message whose ID its     *)
(* author has not committed yet, across restarts and losses: an author     *)
(* never issues an ID that is already in use somewhere.                    *)
(***************************************************************************)
AuthorIsAhead == \A m \in Copies : m.id < NextID(db[m.origin], m.origin)

(***************************************************************************)
(* The author holds every message that exists under its name, the very     *)
(* same one: nobody can be left with a message the author would not give   *)
(* out again.  Needs one post at a time and an intact database.            *)
(***************************************************************************)
AuthorKeepsEverything == \A m \in Copies : m \in db[m.origin]

(***************************************************************************)
(* Once AddNewMessage has returned an ID to the handler, the row with that *)
(* ID is the message that was posted (context.go:41), and until then the   *)
(* message would pass the check before which line 109 panics.              *)
(***************************************************************************)
PostedMessageIsStored ==
    \A n \in Node, c \in Client :
        /\ call[n][c].phase = "pow" => VerifyMessage(n, db[n], call[n][c].msg)
        /\ call[n][c].phase = "stored" => call[n][c].msg \in db[n]

(***************************************************************************)
(* A StatusSubscriptions entry belongs to a goroutine that still has to    *)
(* remove it: none outlives its goroutine and swallows every later status  *)
(* of that peer (gossiper.go:114).                                         *)
(***************************************************************************)
HandlersAreRemoved ==
    \A n, q \in Node : subs[n][q] # NoTask =>
        /\ task[n][subs[n][q]] # Idle
        /\ task[n][subs[n][q]].peer = q

-----------------------------------------------------------------------------
(* Action properties *)

(***************************************************************************)
(* The next ID a node expects from an origin never goes back, not through  *)
(* a conflict, a duplicate or a crash: what it tells its peers in a status *)
(* stays true.                                                             *)
(***************************************************************************)
ClockNeverGoesBack ==
    [][\A n, o \in Node : NextID(db'[n], o) >= NextID(db[n], o)]_vars

(***************************************************************************)
(* At every node but the author a stored message is only ever replaced by  *)
(* one with a lower hash (context.go:170), so replicas that see the same   *)
(* versions end with the same one, in whatever order they arrive.          *)
(***************************************************************************)
LowestHashWins ==
    [][\A n \in Node : \A m \in db[n], k \in db'[n] :
         m.origin = k.origin /\ m.id = k.id /\ m.origin # n
            => Digest[k.body] <= Digest[m.body]]_vars

-----------------------------------------------------------------------------
(* Refinement: the rows of o at n, in the order of their IDs, are what n has *)
(* of the log of o.                                                          *)

Row(store, o, i) == CHOOSE m \in GetMessage(store, o, i) : TRUE

LogOf(store, o) == [i \in 1 .. NextID(store, o) |-> Row(store, o, i - 1).body]

Log == INSTANCE ReplicatedLog WITH
    log <- [n \in Node |-> [o \in Node |-> LogOf(db[n], o)]]

(***************************************************************************)
(* Seen from its databases, the network is a replicated log: authors only  *)
(* append, replicas hold prefixes, whatever packets are lost or come       *)
(* twice, wherever a node crashes between taking an ID, storing and        *)
(* spreading.  Needs one post at a time and intact databases.              *)
(***************************************************************************)
ImplementsLog == Log!Spec

-----------------------------------------------------------------------------
(* Liveness, under FairSpec *)

\* All nodes end up with the same messages.
Convergence == <>[](\A n, q \in Node : db[n] = db[q])

\* Every post is answered: its two waits for the event loop end.
PostsReturn ==
    \A n \in Node, c \in Client : call[n][c].phase = "pow" ~> call[n][c] = Idle
=============================================================================
