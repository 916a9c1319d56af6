--------------------------- MODULE EventLoopProofs ---------------------------
(* The event loop, for any number of requests, goroutines and peers and any *)
(* size of the queue.                                                       *)
EXTENDS EventLoop, SequenceTheorems, TLAPS

\* Where the closure of h waits in a sequence of closures
Mine(h, s) == {i \in DOMAIN s : s[i] = SyncOf(h)}

One(h, s) == \E i \in Mine(h, s) : Mine(h, s) = {i}

Held(h) == main.phase = "run" /\ main.event = SyncOf(h)

(***************************************************************************)
(* The closure of an HTTP goroutine that is in RunSync is in one of three  *)
(* places: in line, on the main thread, or executed with proceed pending.  *)
(* One that is not in RunSync has none, and without a request it is idle.  *)
(***************************************************************************)
Placed(h) ==
    IF pc[h] \in {"pushed", "waiting"}
    THEN \/ One(h, line) /\ ~Held(h) /\ ~Signalled(h)
         \/ Mine(h, line) = {} /\ Held(h) /\ ~Signalled(h)
         \/ Mine(h, line) = {} /\ ~Held(h) /\ Signalled(h)
    ELSE Mine(h, line) = {} /\ ~Held(h) /\ ~Signalled(h)

IInv ==
    /\ TypeOK
    /\ \A h \in Http : Placed(h) /\ (req[h] = NoRequest => pc[h] = "idle")

-----------------------------------------------------------------------------
(* Sequences of closures *)

LEMMA MineAppend ==
    ASSUME NEW s \in Seq(Closure), NEW e, NEW h
    PROVE  /\ Append(s, e) # <<>>
           /\ e # SyncOf(h) => Mine(h, Append(s, e)) = Mine(h, s)
           /\ e = SyncOf(h) /\ Mine(h, s) = {} => One(h, Append(s, e))
<1>1. /\ DOMAIN s = 1 .. Len(s) /\ Len(s) \in Nat
      /\ DOMAIN Append(s, e) = 1 .. Len(s) + 1
      /\ \A i \in 1 .. Len(s) : Append(s, e)[i] = s[i]
      /\ Append(s, e)[Len(s) + 1] = e
  OBVIOUS
<1>2. e # SyncOf(h) => Mine(h, Append(s, e)) = Mine(h, s)
  BY <1>1 DEF Mine
<1>3. ASSUME e = SyncOf(h), Mine(h, s) = {}
      PROVE  Mine(h, Append(s, e)) = {Len(s) + 1}
  BY <1>1, <1>3 DEF Mine
<1>. QED BY <1>1, <1>2, <1>3 DEF One

\* Taking the first closure off the line
LEMMA MineTail ==
    ASSUME NEW s \in Seq(Closure), s # <<>>, NEW h
    PROVE  /\ Head(s) \in Closure /\ Tail(s) \in Seq(Closure)
           /\ <<Head(s)>> \o Tail(s) = s
           /\ Mine(h, s) = {} => Head(s) # SyncOf(h) /\ Mine(h, Tail(s)) = {}
           /\ One(h, s) => IF Head(s) = SyncOf(h) THEN Mine(h, Tail(s)) = {}
                                                   ELSE One(h, Tail(s))
<1>1. /\ DOMAIN s = 1 .. Len(s) /\ Len(s) \in Nat /\ Len(s) >= 1
      /\ Head(s) = s[1] /\ Head(s) \in Closure /\ Tail(s) \in Seq(Closure)
      /\ DOMAIN Tail(s) = 1 .. Len(s) - 1
      /\ \A i \in 1 .. Len(s) - 1 : Tail(s)[i] = s[i + 1]
  OBVIOUS
<1>2. <<Head(s)>> \o Tail(s) = s
  BY <1>1
<1>3. Mine(h, s) = {} => Head(s) # SyncOf(h) /\ Mine(h, Tail(s)) = {}
  BY <1>1 DEF Mine
<1>4. ASSUME One(h, s), Head(s) = SyncOf(h) PROVE Mine(h, Tail(s)) = {}
  <2>1. 1 \in Mine(h, s)
    BY <1>1, <1>4 DEF Mine
  <2>2. Mine(h, s) = {1}
    BY <1>4, <2>1 DEF One
  <2>. QED BY <1>1, <2>2 DEF Mine
<1>5. ASSUME One(h, s), Head(s) # SyncOf(h) PROVE One(h, Tail(s))
  <2>1. PICK i \in Mine(h, s) : Mine(h, s) = {i}
    BY <1>5 DEF One
  <2>2. i \in 2 .. Len(s) /\ s[i] = SyncOf(h)
    BY <1>1, <1>5, <2>1 DEF Mine
  <2>3. i - 1 \in Mine(h, Tail(s))
    BY <1>1, <2>2 DEF Mine
  <2>4. \A j \in Mine(h, Tail(s)) : j = i - 1
    BY <1>1, <2>1, <2>2 DEF Mine
  <2>. QED BY <2>3, <2>4 DEF One
<1>. QED BY <1>1, <1>2, <1>3, <1>4, <1>5

\* A closure before the line
LEMMA MineCons ==
    ASSUME NEW s \in Seq(Closure), NEW e \in Closure, NEW h
    PROVE  /\ Head(<<e>> \o s) = e /\ Tail(<<e>> \o s) = s /\ <<e>> \o s # <<>>
           /\ \A x \in Closure : Append(<<e>> \o s, x) = <<e>> \o Append(s, x)
           /\ e # SyncOf(h) /\ One(h, s) => One(h, <<e>> \o s)
           /\ e # SyncOf(h) /\ Mine(h, s) = {} => Mine(h, <<e>> \o s) = {}
           /\ e = SyncOf(h) /\ Mine(h, s) = {} => One(h, <<e>> \o s)
<1> DEFINE t == <<e>> \o s
<1>1. /\ DOMAIN s = 1 .. Len(s) /\ Len(s) \in Nat
      /\ DOMAIN t = 1 .. Len(s) + 1 /\ t[1] = e
      /\ \A i \in 2 .. Len(s) + 1 : t[i] = s[i - 1]
      /\ t \in Seq(Closure) /\ Len(t) = Len(s) + 1
  OBVIOUS
<1>2. Head(t) = e /\ t # <<>>
  BY <1>1
<1>3. Tail(t) = s
  OBVIOUS
<1>4. \A x \in Closure : Append(t, x) = <<e>> \o Append(s, x)
  OBVIOUS
<1>. HIDE DEF t
<1>5. ASSUME e # SyncOf(h), One(h, s) PROVE One(h, t)
  <2>1. PICK i \in Mine(h, s) : Mine(h, s) = {i}
    BY <1>5 DEF One
  <2>2. i \in 1 .. Len(s) /\ s[i] = SyncOf(h)
    BY <1>1, <2>1 DEF Mine
  <2>3. i + 1 \in Mine(h, t)
    BY <1>1, <2>2 DEF Mine
  <2>4. \A j \in Mine(h, t) : j = i + 1
    <3>1. ASSUME NEW j \in Mine(h, t) PROVE j = i + 1
      <4>1. j \in 2 .. Len(s) + 1 /\ s[j - 1] = SyncOf(h)
        BY <1>1, <1>5 DEF Mine
      <4>2. j - 1 \in Mine(h, s)
        BY <1>1, <4>1 DEF Mine
      <4>. QED BY <2>1, <2>2, <4>1, <4>2
    <3>. QED BY <3>1
  <2>. QED BY <2>3, <2>4 DEF One
<1>6. ASSUME e # SyncOf(h), Mine(h, s) = {} PROVE Mine(h, t) = {}
  BY <1>1, <1>6 DEF Mine
<1>7. ASSUME e = SyncOf(h), Mine(h, s) = {} PROVE One(h, t)
  <2>1. Mine(h, t) = {1}
    <3>1. 1 \in Mine(h, t)
      BY <1>1, <1>7 DEF Mine
    <3>2. ASSUME NEW j \in Mine(h, t), j # 1 PROVE FALSE
      <4>1. j \in 2 .. Len(s) + 1 /\ s[j - 1] = SyncOf(h)
        BY <1>1, <3>2 DEF Mine
      <4>2. j - 1 \in Mine(h, s)
        BY <1>1, <4>1 DEF Mine
      <4>. QED BY <1>7, <4>2
    <3>. QED BY <3>1, <3>2
  <2>. QED BY <2>1 DEF One
<1>. QED BY <1>2, <1>3, <1>4, <1>5, <1>6, <1>7 DEF t

-----------------------------------------------------------------------------
(* The types of the two places closures are in, and what a step does to pc *)

LEMMA ClosureKinds ==
    ASSUME NEW e \in Closure
    PROVE  /\ e.kind \in {"rumor", "status", "tick", "done", "sync"}
           /\ e.kind \in {"rumor", "status"} => e.from \in Peer
           /\ e.kind = "done" => e.by \in Monger
           /\ e.kind = "sync" => e.by \in Http /\ e = SyncOf(e.by)
BY DEF Closure, SyncClosure, Rumor, Status, Tick, Done, SyncOf

LEMMA SyncIsClosure ==
    ASSUME NEW h \in Http
    PROVE  /\ SyncOf(h) \in Closure /\ SyncOf(h) \in SyncClosure
           /\ SyncOf(h).kind = "sync" /\ SyncOf(h).by = h
           /\ \A g \in Http : SyncOf(g) = SyncOf(h) => g = h
BY DEF Closure, SyncClosure, SyncOf

\* The line and pc after a send to the queue
LEMMA PushType ==
    ASSUME TypeOK, NEW t \in Thread, NEW e \in Closure, Push(t, e)
    PROVE  /\ line' \in Seq(Closure)
           /\ pc' \in [Thread -> {"idle", "ready", "pushed", "waiting", "spawned", "select"}]
           /\ pc'[t] = "pushed" /\ \A s \in Thread : s # t => pc'[s] = pc[s]
BY DEF TypeOK, Push

\* Mongering may start or not: HTTP goroutines notice nothing of it.
LEMMA MongerType ==
    ASSUME EventLoopAssumption, TypeOK, NEW valid \in SUBSET Peer,
           NEW handlers \in [Peer -> Monger \cup {None}], MayMonger(valid, handlers)
    PROVE  /\ subs' \in [Peer -> Monger \cup {None}]
           /\ target' \in [Monger -> Peer \cup {None}]
           /\ pc' \in [Thread -> {"idle", "ready", "pushed", "waiting", "spawned", "select"}]
           /\ \A h \in Http : pc'[h] = pc[h]
<1>1. CASE subs' = handlers /\ UNCHANGED <<target, pc>>
  BY <1>1 DEF TypeOK
<1>2. ASSUME NEW g \in Monger, NEW q \in valid, StartMongering(g, q, handlers)
      PROVE  /\ subs' \in [Peer -> Monger \cup {None}]
             /\ target' \in [Monger -> Peer \cup {None}]
             /\ pc' \in [Thread -> {"idle", "ready", "pushed", "waiting", "spawned", "select"}]
             /\ \A h \in Http : pc'[h] = pc[h]
  BY <1>2 DEF StartMongering, TypeOK, EventLoopAssumption, Thread
<1>. QED BY <1>1, <1>2 DEF MayMonger

\* A step that leaves the closures of h and h itself alone
LEMMA StillPlaced ==
    ASSUME NEW h \in Http, Placed(h), pc'[h] = pc[h], main' = main,
           Mine(h, line') = Mine(h, line)
    PROVE  Placed(h)'
BY DEF Placed, One, Held, Signalled

-----------------------------------------------------------------------------
(* The invariant, step by step *)

LEMMA LoopAtFirst ==
    ASSUME Init
    PROVE  IInv
<1>1. TypeOK
  BY DEF Init, TypeOK, Receiving
<1>2. ASSUME NEW h \in Http PROVE Placed(h)
  BY DEF Init, Placed, Mine, Held, Signalled, Receiving, Thread
<1>3. \A h \in Http : pc[h] = "idle"
  BY DEF Init, Thread
<1>. QED BY <1>1, <1>2, <1>3 DEF IInv

\* A send of a closure nobody waits for
LEMMA PushStep ==
    ASSUME EventLoopAssumption, IInv, NEW t \in Thread \ Http, NEW e \in Closure,
           e.kind # "sync", Push(t, e), UNCHANGED <<main, req, body, subs, target>>
    PROVE  IInv'
<1>1. /\ line' \in Seq(Closure)
      /\ pc' \in [Thread -> {"idle", "ready", "pushed", "waiting", "spawned", "select"}]
      /\ \A h \in Http : pc'[h] = pc[h]
  BY PushType DEF IInv, Thread
<1>2. ASSUME NEW h \in Http PROVE Placed(h)'
  <2>1. e # SyncOf(h)
    BY SyncIsClosure
  <2>2. Mine(h, line') = Mine(h, line)
    BY <2>1, MineAppend DEF Push, IInv, TypeOK
  <2>. QED BY <1>1, <2>2, StillPlaced DEF IInv
<1>. QED BY <1>1, <1>2 DEF IInv, TypeOK

LEMMA PushSyncStep ==
    ASSUME EventLoopAssumption, IInv, NEW h \in Http, PushSync(h)
    PROVE  IInv'
<1>. USE DEF IInv
<1>1. h \in Thread /\ SyncOf(h) \in Closure /\ Push(h, SyncOf(h)) /\ pc[h] = "ready"
      /\ UNCHANGED <<main, req, body, subs, target>> /\ line' = Append(line, SyncOf(h))
  BY SyncIsClosure DEF PushSync, Push, Thread
<1>2. /\ line' \in Seq(Closure)
      /\ pc' \in [Thread -> {"idle", "ready", "pushed", "waiting", "spawned", "select"}]
      /\ pc'[h] = "pushed" /\ \A g \in Thread : g # h => pc'[g] = pc[g]
  BY <1>1, PushType
<1>3. ASSUME NEW g \in Http, g # h PROVE Placed(g)'
  <2>1. SyncOf(h) # SyncOf(g)
    BY <1>3, SyncIsClosure
  <2>2. Mine(g, line') = Mine(g, line)
    BY <1>1, <2>1, MineAppend DEF TypeOK
  <2>. QED BY <1>1, <1>2, <1>3, <2>2, StillPlaced DEF Thread
<1>4. Placed(h)'
  <2>1. Mine(h, line) = {} /\ ~Held(h) /\ ~Signalled(h)
    BY <1>1 DEF Placed
  <2>2. One(h, line')
    BY <1>1, <2>1, MineAppend DEF TypeOK
  <2>. QED BY <1>1, <1>2, <2>1, <2>2 DEF Placed, One, Held, Signalled
<1>5. ASSUME NEW g \in Http, req'[g] = NoRequest PROVE pc'[g] = "idle"
  BY <1>1, <1>2, <1>5 DEF Thread
<1>. QED BY <1>1, <1>2, <1>3, <1>4, <1>5 DEF TypeOK

\* The other threads that do not run requests
LEMMA OtherThreadsStep ==
    ASSUME EventLoopAssumption, IInv, NEW t \in Thread \ Http,
           NEW s \in {"idle", "ready", "pushed", "waiting", "spawned", "select"},
           pc' = [pc EXCEPT ![t] = s], UNCHANGED <<line, main, req, body, subs, target>>
    PROVE  IInv'
<1>1. \A h \in Http : pc'[h] = pc[h]
  BY DEF IInv, TypeOK, Thread
<1>2. ASSUME NEW h \in Http PROVE Placed(h)'
  BY <1>1, StillPlaced DEF IInv
<1>. QED BY <1>1, <1>2 DEF IInv, TypeOK

LEMMA ServeStep ==
    ASSUME EventLoopAssumption, IInv, NEW h \in Http, NEW r \in Request, Serve(h, r)
    PROVE  IInv'
<1>. USE DEF IInv
<1>1. pc[h] = "idle" /\ h \in Thread
  BY DEF Serve, Thread
<1>2. pc'[h] = "ready" /\ \A g \in Http : g # h => pc'[g] = pc[g] /\ req'[g] = req[g]
  BY <1>1 DEF Serve, TypeOK, Thread
<1>3. r # NoRequest /\ req'[h] = r
  BY DEF Request, NoRequest, Serve, TypeOK
<1>4. ASSUME NEW g \in Http PROVE Placed(g)'
  BY <1>1, <1>2 DEF Serve, Placed, Held, Signalled, One
<1>5. TypeOK'
  BY DEF Serve, TypeOK
<1>. QED BY <1>2, <1>3, <1>4, <1>5

LEMMA AwaitStep ==
    ASSUME EventLoopAssumption, IInv, NEW h \in Http, AwaitProceed(h)
    PROVE  IInv'
<1>. USE DEF IInv
<1>1. pc[h] = "pushed" /\ pc'[h] = "waiting" /\ \A g \in Http : g # h => pc'[g] = pc[g]
  BY DEF AwaitProceed, TypeOK, Thread
<1>2. ASSUME NEW g \in Http PROVE Placed(g)'
  BY <1>1 DEF AwaitProceed, Placed, Held, Signalled, One
<1>3. TypeOK'
  BY DEF AwaitProceed, TypeOK
<1>. QED BY <1>1, <1>2, <1>3 DEF AwaitProceed

LEMMA TakeStep ==
    ASSUME EventLoopAssumption, IInv, Take
    PROVE  IInv'
<1>. USE DEF IInv
<1>1. /\ line \in Seq(Closure) /\ line # <<>> /\ line' = Tail(line)
      /\ main = Receiving /\ main' = [phase |-> "run", event |-> Head(line)]
      /\ UNCHANGED <<pc, req, body, subs, target>>
  BY DEF Take, TypeOK
<1>2. Head(line) \in Closure /\ Tail(line) \in Seq(Closure)
  BY <1>1, MineTail
<1>3. ASSUME NEW h \in Http PROVE Placed(h)'
  <2>1. ~Held(h) /\ ~Signalled(h) /\ ~Signalled(h)'
    BY <1>1 DEF Held, Signalled, Receiving
  <2>2. Held(h)' <=> Head(line) = SyncOf(h)
    BY <1>1 DEF Held
  <2>3. /\ Mine(h, line) = {} => Head(line) # SyncOf(h) /\ Mine(h, line') = {}
        /\ One(h, line) => IF Head(line) = SyncOf(h) THEN Mine(h, line') = {} ELSE One(h, line')
    BY <1>1, MineTail
  <2>4. One(h, line)' <=> One(h, line')
    BY DEF One, Mine
  <2>5. pc'[h] = pc[h] /\ Placed(h)
    BY <1>1
  <2>. QED BY <2>1, <2>2, <2>3, <2>4, <2>5 DEF Placed
<1>4. TypeOK'
  BY <1>1, <1>2 DEF TypeOK
<1>. QED BY <1>1, <1>3, <1>4

\* The execution of a closure nobody waits for
LEMMA RunStep ==
    ASSUME EventLoopAssumption, IInv, main.phase = "run", main.event.kind # "sync",
           main' = Receiving, UNCHANGED <<line, req, body>>,
           subs' \in [Peer -> Monger \cup {None}],
           target' \in [Monger -> Peer \cup {None}],
           pc' \in [Thread -> {"idle", "ready", "pushed", "waiting", "spawned", "select"}],
           \A h \in Http : pc'[h] = pc[h]
    PROVE  IInv'
<1>. USE DEF IInv
<1>1. ASSUME NEW h \in Http PROVE Placed(h)'
  <2>1. ~Held(h) /\ ~Signalled(h) /\ ~Held(h)' /\ ~Signalled(h)'
    BY SyncIsClosure DEF Held, Signalled, Receiving
  <2>. QED BY <2>1 DEF Placed, One
<1>2. TypeOK'
  BY DEF TypeOK
<1>. QED BY <1>1, <1>2

LEMMA RunSyncEventStep ==
    ASSUME EventLoopAssumption, IInv, RunSyncEvent
    PROVE  IInv'
<1>. USE DEF IInv
<1>1. /\ main.phase = "run" /\ main.event \in Closure /\ main.event.kind = "sync"
      /\ main' = [phase |-> "signal", event |-> main.event] /\ UNCHANGED <<line, req, body>>
  BY DEF RunSyncEvent, Running, TypeOK, Receiving
<1>2. PICK h \in Http : main.event = SyncOf(h)
  BY <1>1, ClosureKinds
<1>3. /\ subs' \in [Peer -> Monger \cup {None}]
      /\ target' \in [Monger -> Peer \cup {None}]
      /\ pc' \in [Thread -> {"idle", "ready", "pushed", "waiting", "spawned", "select"}]
      /\ \A g \in Http : pc'[g] = pc[g]
  <2>1. \E valid \in SUBSET Peer : MayMonger(valid, subs)
    BY DEF RunSyncEvent
  <2>. QED BY <2>1, MongerType DEF TypeOK
<1>4. ASSUME NEW g \in Http PROVE Placed(g)'
  <2>1. CASE g = h
    <3>1. Held(h) /\ ~Held(h)' /\ Signalled(h)'
      BY <1>1, <1>2 DEF Held, Signalled
    <3>. QED BY <1>1, <1>3, <2>1, <3>1 DEF Placed
  <2>2. CASE g # h
    <3>1. SyncOf(g) # SyncOf(h)
      BY <2>2, SyncIsClosure
    <3>2. ~Held(g) /\ ~Signalled(g) /\ ~Held(g)' /\ ~Signalled(g)'
      BY <1>1, <1>2, <3>1 DEF Held, Signalled
    <3>. QED BY <1>1, <1>3, <3>2 DEF Placed, One
  <2>. QED BY <2>1, <2>2
<1>5. main' \in [phase : {"signal"}, event : SyncClosure]
  BY <1>1, <1>2, SyncIsClosure
<1>. QED BY <1>1, <1>3, <1>4, <1>5 DEF TypeOK

LEMMA SignalStep ==
    ASSUME EventLoopAssumption, IInv, NEW h \in Http, Signal(h)
    PROVE  IInv'
<1>. USE DEF IInv
<1>1. /\ Signalled(h) /\ pc[h] = "waiting" /\ main' = Receiving
      /\ UNCHANGED <<line, body, subs, target>>
      /\ req[h] \in Request \cup {NoRequest} /\ h \in Thread
  BY DEF Signal, Signalled, TypeOK, Thread
<1>2. /\ pc'[h] = IF req[h].left > 1 THEN "ready" ELSE "idle"
      /\ req'[h] = IF req[h].left > 1 THEN [req[h] EXCEPT !.left = @ - 1] ELSE NoRequest
      /\ \A g \in Http : g # h => pc'[g] = pc[g] /\ req'[g] = req[g]
  <2>1. pc' = [pc EXCEPT ![h] = IF req[h].left > 1 THEN "ready" ELSE "idle"]
    BY DEF Signal
  <2>2. req' = [req EXCEPT ![h] = IF req[h].left > 1 THEN [req[h] EXCEPT !.left = req[h].left - 1]
                                                    ELSE NoRequest]
    BY DEF Signal
  <2>3. /\ pc'[h] = IF req[h].left > 1 THEN "ready" ELSE "idle"
        /\ \A g \in Http : g # h => pc'[g] = pc[g]
    BY <1>1, <2>1 DEF TypeOK, Thread
  <2>4. /\ req'[h] = IF req[h].left > 1 THEN [req[h] EXCEPT !.left = req[h].left - 1] ELSE NoRequest
        /\ \A g \in Http : g # h => req'[g] = req[g]
    BY <2>2 DEF TypeOK
  <2>. QED BY <2>3, <2>4
<1>3. req'[h] \in Request \cup {NoRequest} /\ (req'[h] = NoRequest => pc'[h] = "idle")
  <2>1. CASE req[h].left > 1
    <3>1. req[h].kind = "post" /\ req[h].left \in 2 .. 3
             /\ req[h] = [kind |-> "post", left |-> req[h].left]
      BY <1>1, <2>1 DEF Request, NoRequest
    <3>2. req'[h] = [kind |-> "post", left |-> req[h].left - 1] /\ req[h].left - 1 \in 1 .. 2
      BY <1>2, <2>1, <3>1
    <3>. QED BY <3>2 DEF Request, NoRequest
  <2>2. CASE ~(req[h].left > 1)
    BY <1>2, <2>2
  <2>. QED BY <2>1, <2>2
<1>4. ASSUME NEW g \in Http PROVE Placed(g)'
  <2>1. ~Held(g)' /\ ~Signalled(g)'
    BY <1>1 DEF Held, Signalled, Receiving
  <2>2. CASE g = h
    <3>1. Mine(h, line) = {}
      BY <1>1 DEF Placed
    <3>. QED BY <1>1, <1>2, <2>1, <2>2, <3>1 DEF Placed
  <2>3. CASE g # h
    <3>1. ~Held(g) /\ ~Signalled(g)
      <4>1. SyncOf(g) # SyncOf(h)
        BY <2>3, SyncIsClosure
      <4>. QED BY <1>1, <4>1 DEF Held, Signalled
    <3>. QED BY <1>1, <1>2, <2>1, <2>3, <3>1 DEF Placed, One
  <2>. QED BY <2>2, <2>3
<1>5. TypeOK'
  <2>1. pc' \in [Thread -> {"idle", "ready", "pushed", "waiting", "spawned", "select"}]
    BY DEF Signal, TypeOK
  <2>2. req' \in [Http -> Request \cup {NoRequest}]
    BY <1>3 DEF Signal, TypeOK
  <2>. QED BY <1>1, <2>1, <2>2 DEF TypeOK
<1>. QED BY <1>2, <1>3, <1>4, <1>5

\* The events of the threads that send and do not wait
LEMMA SenderKinds ==
    ASSUME EventLoopAssumption
    PROVE  /\ Receiver \in Thread \ Http /\ Ticker \in Thread \ Http
           /\ \A g \in Monger : g \in Thread \ Http
           /\ \A e \in ReceiverEvents : e \in Closure /\ e.kind # "sync"
           /\ Tick \in Closure /\ Tick.kind # "sync"
           /\ \A g \in Monger : Done(g) \in Closure /\ Done(g).kind # "sync"
<1>1. \A e \in ReceiverEvents : e \in Closure /\ e.kind # "sync"
  BY DEF ReceiverEvents, Closure, Rumor, Status
<1>2. Tick \in Closure /\ Tick.kind # "sync"
  BY DEF Tick, Closure
<1>3. \A g \in Monger : Done(g) \in Closure /\ Done(g).kind # "sync"
  BY DEF Done, Closure
<1>. QED BY <1>1, <1>2, <1>3 DEF EventLoopAssumption, Thread

\* The closures that end without a signal
LEMMA RunsStep ==
    ASSUME EventLoopAssumption, TypeOK, RunRumor \/ RunStatus \/ RunTick \/ RunDone
    PROVE  /\ main.phase = "run" /\ main.event \in Closure /\ main.event.kind # "sync"
           /\ main' = Receiving /\ UNCHANGED <<line, req, body>>
           /\ subs' \in [Peer -> Monger \cup {None}]
           /\ target' \in [Monger -> Peer \cup {None}]
           /\ pc' \in [Thread -> {"idle", "ready", "pushed", "waiting", "spawned", "select"}]
           /\ \A h \in Http : pc'[h] = pc[h]
<1>1. /\ main.phase = "run" /\ main.event \in Closure /\ main.event.kind # "sync"
      /\ main' = Receiving /\ UNCHANGED <<line, req, body>>
  BY DEF RunRumor, RunStatus, RunTick, RunDone, Running, TypeOK, Receiving
<1>2. CASE RunRumor
  <2>1. MayMonger(Peer \ {main.event.from}, subs)
    BY <1>2 DEF RunRumor
  <2>. QED BY <1>1, <2>1, MongerType DEF TypeOK
<1>3. CASE RunStatus
  <2>1. main.event.from \in Peer
    BY <1>1, <1>3, ClosureKinds DEF RunStatus, Running
  <2>2. subs[main.event.from] \in Monger \cup {None}
    BY <2>1 DEF TypeOK
  <2>3. UNCHANGED <<subs, target>>
    BY <1>3 DEF RunStatus
  <2>4. pc' = pc \/ \E g \in Monger : pc' = [pc EXCEPT ![g] = "ready"]
    BY <1>3, <2>2 DEF RunStatus
  <2>. QED BY <1>1, <2>3, <2>4 DEF TypeOK, EventLoopAssumption, Thread
<1>4. CASE RunTick
  BY <1>1, <1>4 DEF RunTick, TypeOK
<1>5. CASE RunDone
  <2>1. \E q : MayMonger(Peer \ {q}, [subs EXCEPT ![q] = None])
    BY <1>5 DEF RunDone
  <2>2. PICK q : MayMonger(Peer \ {q}, [subs EXCEPT ![q] = None])
    BY <2>1
  <2>3. [subs EXCEPT ![q] = None] \in [Peer -> Monger \cup {None}]
    BY DEF TypeOK
  <2>. QED BY <1>1, <2>2, <2>3, MongerType
<1>. QED BY <1>1, <1>2, <1>3, <1>4, <1>5

\* A step is one of these: a send nobody waits for, one that is waited for, a step
\* of another thread alone, one of a request, or one of the main thread.
LEMMA KindsOfSteps ==
    ASSUME EventLoopAssumption, IInv, Next
    PROVE  \/ \E t \in Thread \ Http, e \in Closure :
                 /\ e.kind # "sync" /\ Push(t, e)
                 /\ UNCHANGED <<main, req, body, subs, target>>
           \/ \E h \in Http : PushSync(h)
           \/ \E t \in Thread \ Http,
                 s \in {"idle", "ready", "pushed", "waiting", "spawned", "select"} :
                 /\ pc' = [pc EXCEPT ![t] = s]
                 /\ UNCHANGED <<line, main, req, body, subs, target>>
           \/ \E h \in Http, r \in Request : Serve(h, r)
           \/ \E h \in Http : BodyArrives(h)
           \/ \E h \in Http : AwaitProceed(h)
           \/ \E h \in Http : Signal(h)
           \/ Take \/ RunSyncEvent
           \/ RunRumor \/ RunStatus \/ RunTick \/ RunDone
<1>1. ASSUME NEW e \in ReceiverEvents, Receive(e)
      PROVE  \E t \in Thread \ Http, d \in Closure :
                 /\ d.kind # "sync" /\ Push(t, d) /\ UNCHANGED <<main, req, body, subs, target>>
  BY <1>1, SenderKinds DEF Receive
<1>2. ASSUME TickerFires
      PROVE  \E t \in Thread \ Http, d \in Closure :
                 /\ d.kind # "sync" /\ Push(t, d) /\ UNCHANGED <<main, req, body, subs, target>>
  BY <1>2, SenderKinds DEF TickerFires
<1>3. ASSUME NEW g \in Monger, PushDone(g)
      PROVE  \E t \in Thread \ Http, d \in Closure :
                 /\ d.kind # "sync" /\ Push(t, d) /\ UNCHANGED <<main, req, body, subs, target>>
  BY <1>3, SenderKinds DEF PushDone
<1>4. ASSUME NEW g \in Monger, EnterSelect(g) \/ TimeOut(g) \/ Exit(g)
      PROVE  \E s \in {"idle", "ready", "select"} :
                 /\ pc' = [pc EXCEPT ![g] = s]
                 /\ UNCHANGED <<line, main, req, body, subs, target>>
  BY <1>4 DEF EnterSelect, TimeOut, Exit
<1>5. ASSUME NextRound(Receiver, ReceiverEvents) \/ NextRound(Ticker, {Tick})
      PROVE  \E t \in {Receiver, Ticker} :
                 /\ pc' = [pc EXCEPT ![t] = "idle"]
                 /\ UNCHANGED <<line, main, req, body, subs, target>>
  BY <1>5 DEF NextRound
<1>6. \/ MainNext
      \/ \E e \in ReceiverEvents : Receive(e)
      \/ TickerFires
      \/ NextRound(Receiver, ReceiverEvents) \/ NextRound(Ticker, {Tick})
      \/ \E h \in Http : \/ \E r \in Request : Serve(h, r)
                         \/ BodyArrives(h) \/ PushSync(h) \/ AwaitProceed(h) \/ Signal(h)
      \/ \E g \in Monger : PushDone(g)
      \/ \E g \in Monger : EnterSelect(g) \/ TimeOut(g) \/ Exit(g)
  BY DEF Next
<1>7. CASE MainNext
  BY <1>7 DEF MainNext
<1>8. CASE NextRound(Receiver, ReceiverEvents) \/ NextRound(Ticker, {Tick})
  BY <1>5, <1>8, SenderKinds
<1>9. CASE \E g \in Monger : EnterSelect(g) \/ TimeOut(g) \/ Exit(g)
  BY <1>4, <1>9, SenderKinds
<1>10. CASE \E h \in Http : \/ \E r \in Request : Serve(h, r)
                           \/ BodyArrives(h) \/ PushSync(h) \/ AwaitProceed(h) \/ Signal(h)
  <2>1. PICK h \in Http : \/ \E r \in Request : Serve(h, r)
                         \/ BodyArrives(h) \/ PushSync(h) \/ AwaitProceed(h) \/ Signal(h)
    BY <1>10
  <2>. QED BY <2>1
<1>11. CASE \E e \in ReceiverEvents : Receive(e)
  BY <1>1, <1>11
<1>12. CASE TickerFires
  BY <1>2, <1>12
<1>13. CASE \E g \in Monger : PushDone(g)
  BY <1>3, <1>13
<1>. QED BY <1>6, <1>7, <1>8, <1>9, <1>10, <1>11, <1>12, <1>13

LEMMA LoopStep ==
    ASSUME EventLoopAssumption, IInv, [Next]_vars
    PROVE  IInv'
<1>1. CASE UNCHANGED vars
  <2>1. ASSUME NEW h \in Http PROVE Placed(h)'
    BY <1>1, StillPlaced DEF vars, IInv
  <2>. QED BY <1>1, <2>1 DEF vars, IInv, TypeOK
<1>2. ASSUME NEW h \in Http, BodyArrives(h) PROVE IInv'
  <2>1. ASSUME NEW g \in Http PROVE Placed(g)'
    BY <1>2, StillPlaced DEF BodyArrives, IInv
  <2>. QED BY <1>2, <2>1 DEF BodyArrives, IInv, TypeOK
<1>3. CASE RunRumor \/ RunStatus \/ RunTick \/ RunDone
  BY <1>3, RunsStep, RunStep DEF IInv
<1>4. CASE Next
  BY <1>2, <1>3, <1>4, KindsOfSteps, PushStep, PushSyncStep, OtherThreadsStep, ServeStep,
     AwaitStep, TakeStep, RunSyncEventStep, SignalStep
<1>. QED BY <1>1, <1>4

LEMMA LoopInv == Spec => []IInv
<1>1. Init => IInv
  BY LoopAtFirst
<1>2. IInv /\ [Next]_vars => IInv'
  BY EventLoopAssumption, LoopStep
<1>. QED BY <1>1, <1>2, PTL DEF Spec

-----------------------------------------------------------------------------
(* The results *)

\* Every thread, request and closure keeps its type, for any size of the queue.
THEOREM LoopTypeCorrect == Spec => []TypeOK
BY LoopInv, PTL DEF IInv

\* RunSync (context.go:298): who waits for proceed has one closure under way, and
\* who does not has none.
THEOREM CallsHaveOneClosure == Spec => []OneClosurePerCall
<1>1. ASSUME IInv, NEW h \in Http
      PROVE  IF pc[h] \in {"pushed", "waiting"}
             THEN IF Signalled(h) THEN Mine(h, Unexecuted) = {} ELSE One(h, Unexecuted)
             ELSE Mine(h, Unexecuted) = {} /\ ~Signalled(h)
  <2>1. line \in Seq(Closure) /\ Placed(h)
    BY <1>1 DEF IInv, TypeOK
  <2>2. CASE main.phase = "run"
    <3>1. main.event \in Closure /\ Unexecuted = <<main.event>> \o line /\ ~Signalled(h)
      BY <1>1, <2>2 DEF IInv, TypeOK, Receiving, Unexecuted, Signalled
    <3>2. /\ main.event # SyncOf(h) /\ One(h, line) => One(h, Unexecuted)
          /\ main.event # SyncOf(h) /\ Mine(h, line) = {} => Mine(h, Unexecuted) = {}
          /\ main.event = SyncOf(h) /\ Mine(h, line) = {} => One(h, Unexecuted)
      BY <2>1, <3>1, MineCons
    <3>. QED BY <2>1, <2>2, <3>1, <3>2 DEF Placed, Held
  <2>3. CASE main.phase # "run"
    BY <2>1, <2>3 DEF Placed, Held, Unexecuted
  <2>. QED BY <2>2, <2>3
<1>2. IInv => OneClosurePerCall
  BY <1>1 DEF OneClosurePerCall, Mine, One
<1>. QED BY <1>2, LoopInv, PTL

-----------------------------------------------------------------------------
(* The loop implements the serial executor.  Calls is what the refinement   *)
(* mapping puts for its variable call.                                      *)

Calls == [h \in Http |-> IF pc[h] \notin {"pushed", "waiting"} THEN "idle"
                         ELSE IF Signalled(h) THEN "answered" ELSE "waiting"]

LEMMA CallsSame ==
    ASSUME \A h \in Http : /\ pc[h] \in {"pushed", "waiting"} <=> pc'[h] \in {"pushed", "waiting"}
                           /\ Signalled(h)' <=> Signalled(h)
    PROVE  Calls' = Calls
BY DEF Calls

\* A closure handed over comes last, also while the main thread runs another.
LEMMA HandedOver ==
    ASSUME IInv, NEW e \in Closure, line' = Append(line, e), main' = main
    PROVE  Unexecuted' = Append(Unexecuted, e)
<1>1. CASE main.phase = "run"
  <2>1. main.event \in Closure
    BY <1>1 DEF IInv, TypeOK, Receiving
  <2>2. line \in Seq(Closure)
    BY DEF IInv, TypeOK
  <2>3. Append(<<main.event>> \o line, e) = <<main.event>> \o Append(line, e)
    BY <2>1, <2>2, MineCons
  <2>. QED BY <1>1, <2>3 DEF Unexecuted
<1>. QED BY <1>1 DEF Unexecuted

LEMMA SubmitStep ==
    ASSUME EventLoopAssumption, IInv, NEW t \in Thread \ Http, NEW e \in Closure,
           e.kind # "sync", Push(t, e), UNCHANGED <<main, req, body, subs, target>>
    PROVE  Serial!Submit(e)
<1>1. \A h \in Http : e \notin {SyncOf(h)}
  BY SyncIsClosure
<1>2. Unexecuted' = Append(Unexecuted, e)
  BY HandedOver DEF Push
<1>3. Calls' = Calls
  <2>1. \A h \in Http : pc'[h] = pc[h] /\ (Signalled(h)' <=> Signalled(h))
    BY DEF Push, IInv, TypeOK, Thread, Signalled
  <2>. QED BY <2>1, CallsSame
<1>. QED BY <1>1, <1>2, <1>3 DEF Serial!Submit, Calls

LEMMA CallStep ==
    ASSUME EventLoopAssumption, IInv, NEW h \in Http, PushSync(h)
    PROVE  Serial!Call(h, SyncOf(h))
<1>1. /\ pc[h] = "ready" /\ Push(h, SyncOf(h)) /\ main' = main /\ SyncOf(h) \in Closure
      /\ ~Signalled(h)
  BY SyncIsClosure DEF PushSync, IInv, Placed
<1>2. Unexecuted' = Append(Unexecuted, SyncOf(h))
  BY <1>1, HandedOver DEF Push
<1>3. pc'[h] = "pushed" /\ \A g \in Http : g # h => pc'[g] = pc[g]
  BY <1>1 DEF Push, IInv, TypeOK, Thread
<1>4. \A g \in Http : Signalled(g)' <=> Signalled(g)
  BY <1>1 DEF Signalled
<1>5. Calls[h] = "idle" /\ Calls' = [Calls EXCEPT ![h] = "waiting"]
  BY <1>1, <1>3, <1>4 DEF Calls
<1>. QED BY <1>2, <1>5 DEF Serial!Call, Calls

\* A step of a thread that hands nothing over and gets nothing back
LEMMA SilentStep ==
    ASSUME line' = line, main' = main,
           \A h \in Http : pc[h] \in {"pushed", "waiting"} <=> pc'[h] \in {"pushed", "waiting"}
    PROVE  Unexecuted' = Unexecuted /\ Calls' = Calls
<1>1. \A h \in Http : Signalled(h)' <=> Signalled(h)
  BY DEF Signalled
<1>. QED BY <1>1, CallsSame DEF Unexecuted

LEMMA TakeIsSilent ==
    ASSUME IInv, Take
    PROVE  Unexecuted' = Unexecuted /\ Calls' = Calls
<1>1. /\ line \in Seq(Closure) /\ line # <<>> /\ line' = Tail(line) /\ pc' = pc
      /\ main = Receiving /\ main' = [phase |-> "run", event |-> Head(line)]
  BY DEF Take, IInv, TypeOK
<1>2. Unexecuted = line /\ Unexecuted' = <<Head(line)>> \o Tail(line)
  BY <1>1 DEF Unexecuted, Receiving
<1>3. \A h \in Http : ~Signalled(h) /\ ~Signalled(h)'
  BY <1>1 DEF Signalled, Receiving
<1>. QED BY <1>1, <1>2, <1>3, CallsSame, MineTail

LEMMA ExecuteStep ==
    ASSUME EventLoopAssumption, IInv, RunRumor \/ RunStatus \/ RunTick \/ RunDone \/ RunSyncEvent
    PROVE  Serial!Execute
<1>. USE DEF IInv
<1>1. /\ main.phase = "run" /\ main.event \in Closure /\ line' = line /\ line \in Seq(Closure)
      /\ \A h \in Http : pc'[h] = pc[h]
      /\ main' = IF main.event.kind = "sync" THEN [phase |-> "signal", event |-> main.event]
                                             ELSE Receiving
  <2>1. CASE RunSyncEvent
    <3>1. \E valid \in SUBSET Peer : MayMonger(valid, subs)
      BY <2>1 DEF RunSyncEvent
    <3>2. \A h \in Http : pc'[h] = pc[h]
      BY <3>1, MongerType DEF TypeOK
    <3>. QED BY <2>1, <3>2 DEF RunSyncEvent, Running, TypeOK, Receiving
  <2>2. CASE RunRumor \/ RunStatus \/ RunTick \/ RunDone
    BY <2>2, RunsStep DEF TypeOK
  <2>. QED BY <2>1, <2>2
<1>2. /\ Unexecuted # <<>> /\ Head(Unexecuted) = main.event /\ Tail(Unexecuted) = line
      /\ Unexecuted' = line
  <2>1. main'.phase # "run"
    BY <1>1 DEF Receiving
  <2>. QED BY <1>1, <2>1, MineCons DEF Unexecuted
<1>3. ASSUME NEW h \in Http
      PROVE  Calls'[h] = IF main.event \in {SyncOf(h)} THEN "answered" ELSE Calls[h]
  <2>1. ~Signalled(h)
    BY <1>1 DEF Signalled
  <2>2. CASE main.event = SyncOf(h)
    <3>1. pc'[h] \in {"pushed", "waiting"}
      BY <1>1, <2>2 DEF Placed, Held
    <3>2. Signalled(h)'
      BY <1>1, <2>2, SyncIsClosure DEF Signalled
    <3>. QED BY <2>2, <3>1, <3>2 DEF Calls
  <2>3. CASE main.event # SyncOf(h)
    <3>1. ~Signalled(h)'
      BY <1>1, <2>3 DEF Signalled, Receiving
    <3>. QED BY <1>1, <2>1, <2>3, <3>1 DEF Calls
  <2>. QED BY <2>2, <2>3
<1>4. Calls' = [h \in Http |-> IF main.event \in {SyncOf(h)} THEN "answered" ELSE Calls[h]]
  BY <1>3 DEF Calls
<1>. QED BY <1>2, <1>4 DEF Serial!Execute, Calls

LEMMA ReturnStep ==
    ASSUME EventLoopAssumption, IInv, NEW h \in Http, Signal(h)
    PROVE  Serial!Return(h)
<1>. USE DEF IInv
<1>1. /\ Signalled(h) /\ pc[h] = "waiting" /\ main' = Receiving /\ line' = line /\ h \in Thread
      /\ pc' = [pc EXCEPT ![h] = IF req[h].left > 1 THEN "ready" ELSE "idle"]
  BY DEF Signal, Signalled, Thread
<1>2. pc'[h] \notin {"pushed", "waiting"} /\ \A g \in Http : g # h => pc'[g] = pc[g]
  BY <1>1 DEF TypeOK, Thread
<1>3. ASSUME NEW g \in Http, g # h PROVE ~Signalled(g) /\ ~Signalled(g)'
  <2>1. SyncOf(g) # SyncOf(h)
    BY <1>3, SyncIsClosure
  <2>. QED BY <1>1, <2>1 DEF Signalled, Receiving
<1>4. Calls[h] = "answered" /\ Calls' = [Calls EXCEPT ![h] = "idle"]
  BY <1>1, <1>2, <1>3 DEF Calls
<1>5. Unexecuted' = Unexecuted
  BY <1>1 DEF Unexecuted, Signalled, Receiving
<1>. QED BY <1>4, <1>5 DEF Serial!Return, Calls

LEMMA SerialStep ==
    ASSUME EventLoopAssumption, IInv, [Next]_vars
    PROVE  Serial!Next \/ (Unexecuted' = Unexecuted /\ Calls' = Calls)
<1>1. CASE UNCHANGED vars
  BY <1>1, SilentStep DEF vars
<1>2. ASSUME NEW t \in Thread \ Http, NEW e \in Closure, e.kind # "sync", Push(t, e),
             UNCHANGED <<main, req, body, subs, target>>
      PROVE  Serial!Next
  BY <1>2, SubmitStep DEF Serial!Next
<1>3. ASSUME NEW h \in Http, PushSync(h) PROVE Serial!Next
  BY <1>3, CallStep, SyncIsClosure DEF Serial!Next
<1>4. ASSUME NEW t \in Thread \ Http,
             NEW s \in {"idle", "ready", "pushed", "waiting", "spawned", "select"},
             pc' = [pc EXCEPT ![t] = s], UNCHANGED <<line, main, req, body, subs, target>>
      PROVE  Unexecuted' = Unexecuted /\ Calls' = Calls
  <2>1. \A h \in Http : pc'[h] = pc[h]
    BY <1>4 DEF IInv, TypeOK, Thread
  <2>. QED BY <1>4, <2>1, SilentStep
<1>5. ASSUME NEW h \in Http, NEW r \in Request, Serve(h, r)
      PROVE  Unexecuted' = Unexecuted /\ Calls' = Calls
  <2>1. pc[h] = "idle" /\ line' = line /\ main' = main /\ pc' = [pc EXCEPT ![h] = "ready"]
    BY <1>5 DEF Serve, IInv
  <2>2. \A g \in Http : pc[g] \in {"pushed", "waiting"} <=> pc'[g] \in {"pushed", "waiting"}
    BY <2>1 DEF IInv, TypeOK, Thread
  <2>. QED BY <2>1, <2>2, SilentStep
<1>6. ASSUME NEW h \in Http, BodyArrives(h) PROVE Unexecuted' = Unexecuted /\ Calls' = Calls
  BY <1>6, SilentStep DEF BodyArrives
<1>7. ASSUME NEW h \in Http, AwaitProceed(h) PROVE Unexecuted' = Unexecuted /\ Calls' = Calls
  <2>1. pc[h] = "pushed" /\ line' = line /\ main' = main /\ pc' = [pc EXCEPT ![h] = "waiting"]
    BY <1>7 DEF AwaitProceed
  <2>2. \A g \in Http : pc[g] \in {"pushed", "waiting"} <=> pc'[g] \in {"pushed", "waiting"}
    BY <2>1 DEF IInv, TypeOK, Thread
  <2>. QED BY <2>1, <2>2, SilentStep
<1>8. ASSUME NEW h \in Http, Signal(h) PROVE Serial!Next
  BY <1>8, ReturnStep DEF Serial!Next
<1>9. CASE RunRumor \/ RunStatus \/ RunTick \/ RunDone \/ RunSyncEvent
  BY <1>9, ExecuteStep DEF Serial!Next
<1>10. CASE Take
  BY <1>10, TakeIsSilent
<1>11. CASE Next
  BY <1>2, <1>3, <1>4, <1>5, <1>6, <1>7, <1>8, <1>9, <1>10, <1>11, KindsOfSteps
<1>. QED BY <1>1, <1>11

\* EventQueue and RunSync (context.go:298), with a buffer of any size and any
\* number of requests: closures run one at a time in the order they were handed
\* over, and a caller goes on only after its own closure was executed.
THEOREM LoopIsSerial == Spec => Serial!SafeSpec
<1>1. Init => Serial!Init
  BY DEF Init, Serial!Init, Unexecuted, Receiving, Thread
<1>2. IInv /\ [Next]_vars => [Serial!Next]_<<Unexecuted, Calls>>
  BY EventLoopAssumption, SerialStep
<1>. QED BY <1>1, <1>2, LoopInv, PTL DEF Spec, Serial!SafeSpec, Calls
=============================================================================
