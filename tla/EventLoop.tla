------------------------------ MODULE EventLoop ------------------------------
(***************************************************************************)
(* The threads of one gossiper around Context.EventQueue: the main thread, *)
(* which runs the closures (gossiper.go:142), the UDP receiver             *)
(* (request.go), the anti-entropy ticker, the goroutines of mongering, and *)
(* the HTTP goroutines, which wait for their closures (RunSync).           *)
(*                                                                         *)
(* Here closures are control only: what they do to messages and peers is   *)
(* in Gossip, which takes each of them as one step.                        *)
(***************************************************************************)
EXTENDS Naturals, Sequences

CONSTANTS
    Http,      \* HTTP goroutines, one per request being served
    Monger,    \* goroutines of startRumormongering (bound)
    Peer,      \* addresses of other gossipers
    Receiver,  \* the goroutine of RequestListener.Start
    Ticker,    \* the anti-entropy goroutine
    Capacity,  \* buffer size of EventQueue: 10 in the code
    None       \* no handler

ASSUME EventLoopAssumption ==
    /\ Capacity \in Nat
    /\ None \notin Monger
    /\ Receiver # Ticker
    /\ {Receiver, Ticker} \cap (Http \cup Monger) = {}
    /\ Http \cap Monger = {}

Thread == Http \cup Monger \cup {Receiver, Ticker}

\* The closures: a datagram, a tick, the end of a mongering, one of RunSync
Rumor(q) == [kind |-> "rumor", from |-> q]
Status(q) == [kind |-> "status", from |-> q]
Tick == [kind |-> "tick"]
Done(g) == [kind |-> "done", by |-> g]
SyncOf(h) == [kind |-> "sync", by |-> h]

SyncClosure == {SyncOf(h) : h \in Http}
Closure ==
    {Rumor(q) : q \in Peer} \cup {Status(q) : q \in Peer} \cup {Tick}
        \cup {Done(g) : g \in Monger} \cup SyncClosure

VARIABLES
    line,   \* EventQueue: the first Capacity closures are in its buffer, the
            \* others belong to senders blocked on it, in the order they came
    main,   \* the main thread
    pc,     \* the other threads
    req,    \* what each HTTP goroutine serves, and its RunSync calls left
    body,   \* whether the body of that request has arrived
    subs,   \* StatusSubscriptions: the goroutine behind each handler
    target  \* the peer of each mongering goroutine

vars == <<line, main, pc, req, body, subs, target>>

Receiving == [phase |-> "receive"]

NoRequest == [kind |-> "none", left |-> 0]

\* A GET and a message that is refused run one closure, as does POST /node; the
\* POST of a message runs three.
Request ==
    {[kind |-> k, left |-> 1] : k \in {"single", "node"}}
        \cup {[kind |-> "post", left |-> i] : i \in 1 .. 3}

TypeOK ==
    /\ line \in Seq(Closure)
    /\ main \in {Receiving} \cup [phase : {"run"}, event : Closure]
                    \cup [phase : {"signal"}, event : SyncClosure]
    /\ pc \in [Thread -> {"idle", "ready", "pushed", "waiting", "spawned", "select"}]
    /\ req \in [Http -> Request \cup {NoRequest}]
    /\ body \in [Http -> BOOLEAN]
    /\ subs \in [Peer -> Monger \cup {None}]
    /\ target \in [Monger -> Peer \cup {None}]

Init ==
    /\ line = <<>>
    /\ main = Receiving
    /\ pc = [t \in Thread |-> "idle"]
    /\ req = [h \in Http |-> NoRequest]
    /\ body = [h \in Http |-> FALSE]
    /\ subs = [q \in Peer |-> None]
    /\ target = [g \in Monger |-> None]

-----------------------------------------------------------------------------
(* Sending to the queue.  A Go channel serves blocked senders in order.    *)

Push(t, e) ==
    /\ line' = Append(line, e)
    /\ pc' = [pc EXCEPT ![t] = "pushed"]

\* The sender of e is not blocked: e is in the buffer or was taken from it.
Sent(e) == \A i \in DOMAIN line : line[i] = e => i <= Capacity

\* A datagram, a tick: the goroutine comes back for the next one.
Receive(e) ==
    /\ pc[Receiver] = "idle"
    /\ Push(Receiver, e)
    /\ UNCHANGED <<main, req, body, subs, target>>

TickerFires ==
    /\ pc[Ticker] = "idle"
    /\ Push(Ticker, Tick)
    /\ UNCHANGED <<main, req, body, subs, target>>

\* The send of the receiver or the ticker returns.  Its closure is the last one
\* of its kind, so it is in the buffer when all of them are.
NextRound(t, own) ==
    /\ pc[t] = "pushed"
    /\ \A e \in own : Sent(e)
    /\ pc' = [pc EXCEPT ![t] = "idle"]
    /\ UNCHANGED <<line, main, req, body, subs, target>>

-----------------------------------------------------------------------------
(* HTTP goroutines *)

\* Only POST /node reads its body later, inside its closure.
Serve(h, r) ==
    /\ req[h] = NoRequest
    /\ r.kind = "post" => r.left = 3
    /\ req' = [req EXCEPT ![h] = r]
    /\ body' = [body EXCEPT ![h] = r.kind # "node"]
    /\ pc' = [pc EXCEPT ![h] = "ready"]
    /\ UNCHANGED <<line, main, subs, target>>

\* The browser sends the rest of the request, or closes the connection.
BodyArrives(h) ==
    /\ req[h].kind = "node"
    /\ ~body[h]
    /\ body' = [body EXCEPT ![h] = TRUE]
    /\ UNCHANGED <<line, main, pc, req, subs, target>>

\* RunSync: c.EventQueue <- func() {...}
PushSync(h) ==
    /\ pc[h] = "ready"
    /\ h \in Http
    /\ Push(h, SyncOf(h))
    /\ UNCHANGED <<main, req, body, subs, target>>

\* (mutant) the caller does not wait for long
GiveUp(h) ==
    /\ pc[h] = "pushed"
    /\ Sent(SyncOf(h))
    /\ pc' = [pc EXCEPT ![h] = "ready"]
    /\ UNCHANGED <<line, main, req, body, subs, target>>

\* RunSync: <-proceed
AwaitProceed(h) ==
    /\ pc[h] = "pushed"
    /\ Sent(SyncOf(h))
    /\ pc' = [pc EXCEPT ![h] = "waiting"]
    /\ UNCHANGED <<line, main, req, body, subs, target>>

-----------------------------------------------------------------------------
(* Mongering goroutines *)

EnterSelect(g) ==
    /\ pc[g] = "spawned"
    /\ pc' = [pc EXCEPT ![g] = "select"]
    /\ UNCHANGED <<line, main, req, body, subs, target>>

\* (mutant) the goroutine returns when its time is over
TimeOutAndReturn(g) ==
    /\ pc[g] = "select"
    /\ pc' = [pc EXCEPT ![g] = "idle"]
    /\ UNCHANGED <<line, main, req, body, subs, target>>

TimeOut(g) ==
    /\ pc[g] = "select"
    /\ pc' = [pc EXCEPT ![g] = "ready"]
    /\ UNCHANGED <<line, main, req, body, subs, target>>

PushDone(g) ==
    /\ pc[g] = "ready"
    /\ g \in Monger
    /\ Push(g, Done(g))
    /\ UNCHANGED <<main, req, body, subs, target>>

Exit(g) ==
    /\ pc[g] = "pushed"
    /\ Sent(Done(g))
    /\ pc' = [pc EXCEPT ![g] = "idle"]
    /\ UNCHANGED <<line, main, req, body, subs, target>>

-----------------------------------------------------------------------------
(* The main thread *)

Take ==
    /\ main = Receiving
    /\ line # <<>>
    /\ main' = [phase |-> "run", event |-> Head(line)]
    /\ line' = Tail(line)
    /\ UNCHANGED <<pc, req, body, subs, target>>

\* startRumormongering(m, q): g is a goroutine of its own, whose closure, if the
\* slot had one, has been executed
StartMongering(g, q, handlers) ==
    /\ pc[g] = "idle"
    /\ \A i \in DOMAIN line : line[i] # Done(g)
    /\ subs' = [handlers EXCEPT ![q] = g]
    /\ target' = [target EXCEPT ![g] = q]
    /\ pc' = [pc EXCEPT ![g] = "spawned"]

\* It is called, or there was no new message, no other peer, or no luck.
MayMonger(valid, handlers) ==
    \/ \E g \in Monger, q \in valid : StartMongering(g, q, handlers)
    \/ subs' = handlers /\ UNCHANGED <<target, pc>>

Running(kind) == main.phase = "run" /\ main.event.kind = kind

RunRumor ==
    /\ Running("rumor")
    /\ MayMonger(Peer \ {main.event.from}, subs)
    /\ main' = Receiving
    /\ UNCHANGED <<line, req, body>>

\* (mutant) the handler waits until the goroutine takes the status
RunStatusBlocking ==
    /\ Running("status")
    /\ LET g == subs[main.event.from] IN
       \/ g = None /\ UNCHANGED pc
       \/ g # None /\ pc[g] = "select" /\ pc' = [pc EXCEPT ![g] = "ready"]
    /\ main' = Receiving
    /\ UNCHANGED <<line, req, body, subs, target>>

\* The handler offers the status to its goroutine and does not wait.
RunStatus ==
    /\ Running("status")
    /\ LET g == subs[main.event.from] IN
       \/ g # None /\ pc[g] = "select" /\ pc' = [pc EXCEPT ![g] = "ready"]
       \/ ~(g # None /\ pc[g] = "select") /\ UNCHANGED pc
    /\ main' = Receiving
    /\ UNCHANGED <<line, req, body, subs, target>>

RunTick ==
    /\ Running("tick")
    /\ main' = Receiving
    /\ UNCHANGED <<line, pc, req, body, subs, target>>

RunDone ==
    /\ Running("done")
    /\ LET q == target[main.event.by] IN MayMonger(Peer \ {q}, [subs EXCEPT ![q] = None])
    /\ main' = Receiving
    /\ UNCHANGED <<line, req, body>>

\* The event of RunSync; that of POST /node first reads the body.  The last one
\* of a post mongers the message.
RunSyncEvent ==
    /\ Running("sync")
    /\ body[main.event.by]
    /\ MayMonger(IF req[main.event.by] = [kind |-> "post", left |-> 1] THEN Peer ELSE {}, subs)
    /\ main' = [phase |-> "signal", event |-> main.event]
    /\ UNCHANGED <<line, req, body>>

\* (mutant) proceed is sent instead of running the event first
SignalFirst(h) ==
    /\ Running("sync")
    /\ main.event = SyncOf(h)
    /\ pc[h] = "waiting"
    /\ pc' = [pc EXCEPT ![h] = IF req[h].left > 1 THEN "ready" ELSE "idle"]
    /\ req' = [req EXCEPT ![h] = IF @.left > 1 THEN [req[h] EXCEPT !.left = @ - 1]
                                  ELSE NoRequest]
    /\ main' = Receiving
    /\ UNCHANGED <<line, body, subs, target>>

\* (mutant) the request is not closed after its last call
SignalAgain(h) ==
    /\ main = [phase |-> "signal", event |-> SyncOf(h)]
    /\ pc[h] = "waiting"
    /\ pc' = [pc EXCEPT ![h] = "ready"]
    /\ req' = [req EXCEPT ![h].left = @ - 1]
    /\ main' = Receiving
    /\ UNCHANGED <<line, body, subs, target>>

\* proceed <- true meets <-proceed; the HTTP goroutine goes on to its next
\* RunSync (after the proof of work) or is done.
Signal(h) ==
    /\ main = [phase |-> "signal", event |-> SyncOf(h)]
    /\ pc[h] = "waiting"
    /\ pc' = [pc EXCEPT ![h] = IF req[h].left > 1 THEN "ready" ELSE "idle"]
    /\ req' = [req EXCEPT ![h] = IF @.left > 1 THEN [req[h] EXCEPT !.left = @ - 1]
                                  ELSE NoRequest]
    /\ main' = Receiving
    /\ UNCHANGED <<line, body, subs, target>>

-----------------------------------------------------------------------------

MainNext == Take \/ RunRumor \/ RunStatus \/ RunTick \/ RunDone \/ RunSyncEvent

ReceiverEvents == {Rumor(q) : q \in Peer} \cup {Status(q) : q \in Peer}

Next ==
    \/ MainNext
    \/ \E e \in ReceiverEvents : Receive(e)
    \/ TickerFires
    \/ NextRound(Receiver, ReceiverEvents)
    \/ NextRound(Ticker, {Tick})
    \/ \E h \in Http :
          \/ \E r \in Request : Serve(h, r)
          \/ BodyArrives(h)
          \/ PushSync(h)
          \/ AwaitProceed(h)
          \/ Signal(h)
    \/ \E g \in Monger : EnterSelect(g) \/ TimeOut(g) \/ PushDone(g) \/ Exit(g)

Spec == Init /\ [][Next]_vars

(***************************************************************************)
(* Fairness: the Go scheduler runs every thread that can run, and browsers *)
(* send the bodies they announced.  Nothing makes datagrams, ticks or      *)
(* requests come.                                                          *)
(***************************************************************************)
Fairness ==
    /\ WF_vars(MainNext)
    /\ \A h \in Http :
          /\ WF_vars(BodyArrives(h))
          /\ WF_vars(PushSync(h))
          /\ WF_vars(AwaitProceed(h))
          /\ WF_vars(Signal(h))
    /\ \A g \in Monger :
          WF_vars(EnterSelect(g)) /\ WF_vars(TimeOut(g)) /\ WF_vars(PushDone(g)) /\ WF_vars(Exit(g))

FairSpec == Spec /\ Fairness

-----------------------------------------------------------------------------

\* The closures handed over and not executed yet
Unexecuted == IF main.phase = "run" THEN <<main.event>> \o line ELSE line

Signalled(h) == main = [phase |-> "signal", event |-> SyncOf(h)]

(***************************************************************************)
(* An HTTP goroutine inside RunSync (context.go:298) has exactly one       *)
(* closure in the queue or on the main thread, and one outside has none:   *)
(* no proceed is sent that nobody receives, and none is waited for in      *)
(* vain.                                                                   *)
(***************************************************************************)
OneClosurePerCall ==
    \A h \in Http :
        LET mine == {i \in DOMAIN Unexecuted : Unexecuted[i] = SyncOf(h)} IN
        IF pc[h] \in {"pushed", "waiting"}
        THEN IF Signalled(h) THEN mine = {} ELSE \E i \in mine : mine = {i}
        ELSE mine = {} /\ ~Signalled(h)

(***************************************************************************)
(* The loop is a serial executor without a bound on its queue: the buffer  *)
(* of 10, the blocked senders and the two waits of RunSync change neither  *)
(* the order of the closures nor who has to run.                           *)
(***************************************************************************)
Serial == INSTANCE SerialExecutor WITH
    Caller <- Http,
    Sync <- [h \in Http |-> {SyncOf(h)}],
    todo <- Unexecuted,
    call <- [h \in Http |-> IF pc[h] \notin {"pushed", "waiting"} THEN "idle"
                            ELSE IF Signalled(h) THEN "answered" ELSE "waiting"]

SerialExecution == Serial!Spec

\* Whatever a closure does, the main thread comes back for the next one.
LoopKeepsTurning == []<>(main = Receiving)

\* Every HTTP request is answered, also with a full queue.
RequestsEnd == \A h \in Http : req[h] # NoRequest ~> req[h] = NoRequest

\* A mongering goroutine, whose handler waits to be removed, gets its turn.
MongeringEnds == \A g \in Monger : pc[g] = "spawned" ~> main = [phase |-> "run", event |-> Done(g)]
=============================================================================
