----------------------------- MODULE GossipProofs -----------------------------
(***************************************************************************)
(* Theorems about Gossip, for all values of its constants: the inductive   *)
(* invariant, and what the order of the stores gives for clocks, conflicts *)
(* and handlers.                                                           *)
(***************************************************************************)
EXTENDS Gossip, TLAPS

-----------------------------------------------------------------------------
(* Facts about one store *)

\* NextID of an origin whose IDs are 0 .. k-1 is k: the MAX(ID) + 1 of
\* database.go:50 counts the messages.
LEMMA NextIDOfRange ==
    ASSUME NEW store, NEW o, NEW k \in Nat, IDs(store, o) = 0 .. k - 1
    PROVE  NextID(store, o) = k
<1>1. CASE k = 0
  BY <1>1 DEF NextID
<1>2. CASE k > 0
  <2>1. k - 1 \in IDs(store, o) /\ \A i \in IDs(store, o) : k - 1 >= i
    BY <1>2
  <2>2. ASSUME NEW x \in IDs(store, o), \A i \in IDs(store, o) : x >= i
        PROVE  x = k - 1
    <3>1. x \in 0 .. k - 1 /\ x >= k - 1
      BY <2>1, <2>2
    <3>. QED BY <3>1
  <2>3. Max(IDs(store, o)) = k - 1
    BY <2>1, <2>2 DEF Max
  <2>. QED BY <1>2, <2>1, <2>3 DEF NextID
<1>. QED BY <1>1, <1>2

\* InsertOrUpdateMessage adds one ID to one origin.
LEMMA IDsAfterInsert ==
    ASSUME NEW store, NEW m, NEW o
    PROVE  IDs(InsertOrUpdateMessage(store, m), o) =
             IF o = m.origin THEN IDs(store, o) \cup {m.id} ELSE IDs(store, o)
BY DEF IDs, InsertOrUpdateMessage, GetMessage

\* The store a node starts from when it has no database.
LEMMA EmptyIsWellFormed == WellFormed({})
BY DEF WellFormed, NoGap, OneRowPerID, IDs, NextID

\* Inserting a message that is not out of order (context.go:159 and 168) keeps
\* the store in shape and moves no clock back.
LEMMA InsertInOrder ==
    ASSUME NEW store, WellFormed(store),
           NEW m \in Message, m.id <= NextID(store, m.origin)
    PROVE  /\ WellFormed(InsertOrUpdateMessage(store, m))
           /\ \A o \in Node :
                 NextID(InsertOrUpdateMessage(store, m), o) >= NextID(store, o)
           /\ m.id < NextID(InsertOrUpdateMessage(store, m), m.origin)
<1> DEFINE new == InsertOrUpdateMessage(store, m)
           k == NextID(store, m.origin)
           j == IF m.id = k THEN k + 1 ELSE k
<1>1. m.origin \in Node /\ m.id \in Nat
  BY DEF Message
<1>2. \A o \in Node : NextID(store, o) \in Nat /\ IDs(store, o) = 0 .. NextID(store, o) - 1
  BY DEF WellFormed, NoGap
<1>3. NextID(new, m.origin) = j /\ IDs(new, m.origin) = 0 .. j - 1
  <2>1. k \in Nat /\ j \in Nat /\ m.id <= k
    BY <1>1, <1>2
  <2>2. (0 .. k - 1) \cup {m.id} = 0 .. j - 1
    BY <1>1, <2>1
  <2>3. IDs(new, m.origin) = IDs(store, m.origin) \cup {m.id}
    BY IDsAfterInsert
  <2>4. IDs(new, m.origin) = 0 .. j - 1
    BY <1>1, <1>2, <2>2, <2>3
  <2>. QED BY <2>1, <2>4, NextIDOfRange
<1>4. ASSUME NEW o \in Node, o # m.origin
      PROVE  NextID(new, o) = NextID(store, o) /\ IDs(new, o) = 0 .. NextID(store, o) - 1
  <2>1. IDs(new, o) = IDs(store, o)
    BY <1>4, IDsAfterInsert
  <2>. QED BY <1>2, <2>1 DEF NextID
<1>5. NoGap(new)
  <2>1. j \in Nat
    BY <1>1, <1>2
  <2>. HIDE DEF new, j
  <2>. QED BY <1>2, <1>3, <1>4, <2>1 DEF NoGap
<1>6. OneRowPerID(new)
  BY DEF WellFormed, OneRowPerID, InsertOrUpdateMessage, GetMessage
<1>7. \A o \in Node : NextID(new, o) >= NextID(store, o)
  <2>1. j >= k
    BY <1>1, <1>2
  <2>. HIDE DEF new, j
  <2>2. ASSUME NEW o \in Node PROVE NextID(new, o) >= NextID(store, o)
    <3>1. CASE o = m.origin
      BY <1>3, <2>1, <3>1
    <3>2. CASE o # m.origin
      BY <1>2, <1>4, <3>2
    <3>. QED BY <3>1, <3>2
  <2>. QED BY <2>2
<1>8. m.id < NextID(new, m.origin)
  BY <1>1, <1>2, <1>3
<1>. QED BY <1>5, <1>6, <1>7, <1>8 DEF WellFormed

\* In a well-formed store GetMessage finds exactly one row for every ID below
\* the next one.
LEMMA ExactlyOne ==
    ASSUME NEW store, WellFormed(store), NEW o \in Node,
           NEW i \in 0 .. NextID(store, o) - 1
    PROVE  \E m \in store : GetMessage(store, o, i) = {m}
<1>1. i \in IDs(store, o)
  BY DEF WellFormed, NoGap
<1>2. PICK m \in store : m.origin = o /\ m.id = i
  BY <1>1 DEF IDs
<1>3. GetMessage(store, o, i) = {m}
  BY <1>2 DEF GetMessage, WellFormed, OneRowPerID
<1>. QED BY <1>3

\* The key announcement of a launch leaves a well-formed store with a row for
\* this node, and moves no clock back.
LEMMA LaunchInOrder ==
    ASSUME NEW n \in Node, NEW store, WellFormed(store), StoreAssumption
    PROVE  /\ WellFormed(Launched(n, store))
           /\ \A o \in Node : NextID(Launched(n, store), o) >= NextID(store, o)
           /\ NextID(Launched(n, store), n) > 0
<1>1. Announcement(n) \in Message /\ Announcement(n).origin = n /\ Announcement(n).id = 0
  BY DEF Announcement, Message, StoreAssumption
<1>2. \A o \in Node : NextID(store, o) \in Nat
  BY DEF WellFormed, NoGap
<1>3. CASE NextID(store, n) = 0
  <2>1. Launched(n, store) = InsertOrUpdateMessage(store, Announcement(n))
    BY <1>3 DEF Launched
  <2>2. /\ WellFormed(InsertOrUpdateMessage(store, Announcement(n)))
        /\ \A o \in Node : NextID(InsertOrUpdateMessage(store, Announcement(n)), o)
                             >= NextID(store, o)
        /\ Announcement(n).id < NextID(InsertOrUpdateMessage(store, Announcement(n)),
                                       Announcement(n).origin)
    BY <1>1, <1>3, InsertInOrder
  <2>. QED BY <1>1, <2>1, <2>2
<1>4. CASE NextID(store, n) # 0
  BY <1>2, <1>4 DEF Launched
<1>. QED BY <1>3, <1>4
-----------------------------------------------------------------------------

(***************************************************************************)
(* The strengthening that makes ExactlyOneRow inductive: the stores have   *)
(* no gaps, and an ID that a post has taken is not beyond the next ID of   *)
(* its node, so that storing it later leaves no gap whatever was stored in *)
(* between.                                                                *)
(***************************************************************************)
StoresInOrder == \A n \in Node : WellFormed(db[n])

CallsInOrder ==
    \A n \in Node, c \in Client :
        call[n][c] # Idle => /\ call[n][c].msg.origin = n
                             /\ call[n][c].msg.id <= NextID(db[n], n)

IInv == TypeOK /\ StoresInOrder /\ CallsInOrder

-----------------------------------------------------------------------------
(* What the helpers of the actions return *)

LEMMA ClockIsWant ==
    ASSUME NEW store, WellFormed(store)
    PROVE  VectorClock(store) \in Want
BY DEF WellFormed, NoGap, VectorClock, Want

LEMMA SynchronizationIsPackets ==
    ASSUME TypeOK, NEW n \in Node, NEW q \in Node, NEW want
    PROVE  Synchronization(n, want, q) \subseteq Packet
<1>1. Missing(db[n], want) \subseteq Message
  BY DEF Missing, GetMessage, TypeOK
<1>. QED BY <1>1 DEF Synchronization, RumorPacket, Packet

\* Monger leaves tasks, handlers and packets.
LEMMA MongerType ==
    ASSUME NEW n \in Node, NEW m \in Message, NEW valid \in SUBSET Node,
           NEW handlers \in [Node -> Task \cup {NoTask}],
           NEW tasks \in [Task -> TaskState],
           NEW rest \in SUBSET Packet, NEW out \in SUBSET Packet,
           TypeOK, Monger(n, m, valid, handlers, tasks, rest, out)
    PROVE  /\ task' \in [Node -> [Task -> TaskState]]
           /\ subs' \in [Node -> [Node -> Task \cup {NoTask}]]
           /\ net' \subseteq Packet
<1>1. CASE valid = {}
  <2>1. /\ task' = [task EXCEPT ![n] = tasks]
        /\ subs' = [subs EXCEPT ![n] = handlers]
        /\ net' = rest \cup out
    BY <1>1 DEF Monger, Transmit
  <2>2. task' \in [Node -> [Task -> TaskState]]
    BY <2>1 DEF TypeOK
  <2>3. subs' \in [Node -> [Node -> Task \cup {NoTask}]]
    BY <2>1 DEF TypeOK
  <2>. QED BY <2>1, <2>2, <2>3
<1>2. ASSUME NEW q \in valid, NEW t \in Task,
             StartMongering(n, m, q, t, handlers, tasks, rest, out)
      PROVE  /\ task' \in [Node -> [Task -> TaskState]]
             /\ subs' \in [Node -> [Node -> Task \cup {NoTask}]]
             /\ net' \subseteq Packet
  <2>1. [phase |-> "spawned", peer |-> q, msg |-> m] \in TaskState
    BY DEF TaskState
  <2>2. [tasks EXCEPT ![t] = [phase |-> "spawned", peer |-> q, msg |-> m]]
          \in [Task -> TaskState]
    BY <2>1
  <2>3. task' \in [Node -> [Task -> TaskState]]
    BY <1>2, <2>2 DEF StartMongering, TypeOK
  <2>4. subs' \in [Node -> [Node -> Task \cup {NoTask}]]
    BY <1>2 DEF StartMongering, TypeOK
  <2>5. RumorPacket(n, q, m) \in Packet
    BY DEF RumorPacket, Packet
  <2>6. net' \subseteq Packet
    BY <1>2, <2>5 DEF StartMongering, Transmit
  <2>. QED BY <2>3, <2>4, <2>6
<1>. QED BY <1>1, <1>2 DEF Monger

LEMMA ReceivesType ==
    ASSUME TypeOK, NEW n \in Node, NEW p \in net, NEW rest, Receives(n, p, rest)
    PROVE  /\ p \in Packet
           /\ p.from \in Node
           /\ rest \in SUBSET Packet
           /\ peers' \in [Node -> SUBSET Node]
           /\ quota' \in [copy : Nat, restart : Nat, wipe : Nat, toggle : Nat]
<1>1. p \in Packet /\ p.from \in Node
  BY DEF TypeOK, Packet
<1>2. rest \in SUBSET Packet
  BY DEF Receives, TypeOK
<1>3. peers' \in [Node -> SUBSET Node]
  BY <1>1 DEF Receives, TypeOK
<1>4. quota' \in [copy : Nat, restart : Nat, wipe : Nat, toggle : Nat]
  <2>1. quota \in [copy : Nat, restart : Nat, wipe : Nat, toggle : Nat]
    BY DEF TypeOK
  <2>2. CASE UNCHANGED quota
    BY <2>1, <2>2
  <2>3. CASE quota.copy > 0 /\ quota' = [quota EXCEPT !.copy = @ - 1]
    <3>1. quota.copy - 1 \in Nat
      BY <2>1, <2>3
    <3>. QED BY <2>1, <2>3, <3>1
  <2>. QED BY <2>2, <2>3 DEF Receives
<1>. QED BY <1>1, <1>2, <1>3, <1>4

-----------------------------------------------------------------------------
(* The stores and the posts stay in order *)

\* A store that only grows in order, and calls that stay as they are
LEMMA OrderGrows ==
    ASSUME IInv, NEW n \in Node, NEW new, WellFormed(new),
           \A o \in Node : NextID(new, o) >= NextID(db[n], o),
           db' = [db EXCEPT ![n] = new], UNCHANGED call
    PROVE  (StoresInOrder /\ CallsInOrder)'
<1>1. \A q \in Node : db'[q] = IF q = n THEN new ELSE db[q]
  BY DEF IInv, TypeOK
<1>2. StoresInOrder'
  BY <1>1 DEF IInv, StoresInOrder
<1>3. \A q, o \in Node : /\ NextID(db[q], o) \in Nat
                        /\ NextID(db'[q], o) \in Nat
                        /\ NextID(db'[q], o) >= NextID(db[q], o)
  <2>1. \A q, o \in Node : NextID(db[q], o) \in Nat /\ NextID(new, o) \in Nat
    BY DEF IInv, StoresInOrder, WellFormed, NoGap
  <2>. QED BY <1>1, <2>1
<1>4. CallsInOrder'
  <2>. SUFFICES ASSUME NEW q \in Node, NEW c \in Client, call[q][c] # Idle
                PROVE  /\ call[q][c].msg.origin = q
                       /\ call[q][c].msg.id <= NextID(db'[q], q)
    BY DEF CallsInOrder
  <2>1. call[q][c].msg.origin = q /\ call[q][c].msg.id <= NextID(db[q], q)
    BY DEF IInv, CallsInOrder
  <2>2. call[q][c].msg.id \in Nat
    BY DEF IInv, TypeOK, CallState, Message, Idle
  <2>. QED BY <1>3, <2>1, <2>2
<1>. QED BY <1>2, <1>4

\* A launch empties the calls of its node and starts from a store in order.
LEMMA OrderRelaunches ==
    ASSUME StoreAssumption, IInv, NEW n \in Node, NEW store, WellFormed(store),
           Relaunch(n, store)
    PROVE  (StoresInOrder /\ CallsInOrder)'
<1>1. WellFormed(Launched(n, store))
  BY LaunchInOrder
<1>2. \A q \in Node : /\ db'[q] = IF q = n THEN Launched(n, store) ELSE db[q]
                     /\ call'[q] = IF q = n THEN NoCalls ELSE call[q]
  BY DEF Relaunch, IInv, TypeOK
<1>3. StoresInOrder'
  BY <1>1, <1>2 DEF IInv, StoresInOrder
<1>4. CallsInOrder'
  <2>. SUFFICES ASSUME NEW q \in Node, NEW c \in Client, call'[q][c] # Idle
                PROVE  /\ call'[q][c].msg.origin = q
                       /\ call'[q][c].msg.id <= NextID(db'[q], q)
    BY DEF CallsInOrder
  <2>1. q # n
    BY <1>2 DEF NoCalls
  <2>. QED BY <1>2, <2>1 DEF IInv, CallsInOrder
<1>. QED BY <1>3, <1>4

LEMMA OrderStep ==
    ASSUME StoreAssumption, IInv, [Next]_vars
    PROVE  (StoresInOrder /\ CallsInOrder)'
<1>0. CASE UNCHANGED <<db, call>>
  BY <1>0 DEF IInv, StoresInOrder, CallsInOrder
<1>1. ASSUME NEW n \in Node, NEW c \in Client, NEW b \in fresh, Compose(n, c, b)
      PROVE  (StoresInOrder /\ CallsInOrder)'
  <2>1. StoresInOrder'
    BY <1>1 DEF Compose, IInv, StoresInOrder
  <2>2. NextID(db[n], n) \in Nat
    BY DEF IInv, StoresInOrder, WellFormed, NoGap
  <2>3. \A q \in Node, d \in Client :
          call'[q][d] = IF q = n /\ d = c
                        THEN [phase |-> "pow",
                              msg |-> [origin |-> n, id |-> NextID(db[n], n), body |-> b]]
                        ELSE call[q][d]
    BY <1>1 DEF Compose, IInv, TypeOK
  <2>4. CallsInOrder'
    <3>. SUFFICES ASSUME NEW q \in Node, NEW d \in Client, call'[q][d] # Idle
                  PROVE  /\ call'[q][d].msg.origin = q
                         /\ call'[q][d].msg.id <= NextID(db[q], q)
      BY <1>1 DEF CallsInOrder, Compose
    <3>1. CASE q = n /\ d = c
      BY <2>2, <2>3, <3>1
    <3>2. CASE ~(q = n /\ d = c)
      BY <2>3, <3>2 DEF IInv, CallsInOrder
    <3>. QED BY <3>1, <3>2
  <2>. QED BY <2>1, <2>4
<1>2. ASSUME NEW n \in Node, NEW c \in Client, StoreOwn(n, c)
      PROVE  (StoresInOrder /\ CallsInOrder)'
  <2> DEFINE m == call[n][c].msg
             new == InsertOrUpdateMessage(db[n], m)
  <2>1. call[n][c] # Idle /\ m \in Message
    BY <1>2 DEF StoreOwn, IInv, TypeOK, CallState, Idle
  <2>2. m.origin = n /\ m.id <= NextID(db[n], m.origin)
    BY <2>1 DEF IInv, CallsInOrder
  <2>3. WellFormed(new) /\ \A o \in Node : NextID(new, o) >= NextID(db[n], o)
    BY <2>1, <2>2, InsertInOrder DEF IInv, StoresInOrder
  <2>4. db' = [db EXCEPT ![n] = new]
    BY <1>2 DEF StoreOwn
  <2>5. \A q \in Node : db'[q] = IF q = n THEN new ELSE db[q]
    BY <2>4 DEF IInv, TypeOK
  <2>6. \A q \in Node, d \in Client :
          call'[q][d] = IF q = n /\ d = c
                        THEN [call[n][c] EXCEPT !.phase = "stored"] ELSE call[q][d]
    BY <1>2 DEF StoreOwn, IInv, TypeOK
  <2>7. StoresInOrder'
    BY <2>3, <2>5 DEF IInv, StoresInOrder
  <2>8. [call[n][c] EXCEPT !.phase = "stored"].msg = m
    BY <2>1 DEF IInv, TypeOK, CallState, Idle
  <2>9. \A q \in Node : NextID(db[q], q) \in Nat /\ NextID(db'[q], q) \in Nat
    BY <2>7 DEF IInv, StoresInOrder, WellFormed, NoGap
  <2>10. \A q \in Node : NextID(db'[q], q) >= NextID(db[q], q)
    BY <2>3, <2>5, <2>9
  <2>11. CallsInOrder'
    <3>. SUFFICES ASSUME NEW q \in Node, NEW d \in Client, call'[q][d] # Idle
                  PROVE  /\ call'[q][d].msg.origin = q
                         /\ call'[q][d].msg.id <= NextID(db'[q], q)
      BY DEF CallsInOrder
    <3>1. call[q][d] # Idle /\ call'[q][d].msg = call[q][d].msg
      BY <2>1, <2>6, <2>8
    <3>2. call[q][d].msg.origin = q /\ call[q][d].msg.id <= NextID(db[q], q)
      BY <3>1 DEF IInv, CallsInOrder
    <3>3. call[q][d].msg.id \in Nat
      BY <3>1 DEF IInv, TypeOK, CallState, Message, Idle
    <3>. QED BY <2>9, <2>10, <3>1, <3>2, <3>3
  <2>. QED BY <2>7, <2>11
<1>3. ASSUME NEW n \in Node, NEW c \in Client, SpreadOwn(n, c)
      PROVE  (StoresInOrder /\ CallsInOrder)'
  <2>1. \A q \in Node, d \in Client : call'[q][d] = call[q][d] \/ call'[q][d] = Idle
    BY <1>3 DEF SpreadOwn, IInv, TypeOK
  <2>. QED BY <1>3, <2>1 DEF SpreadOwn, IInv, StoresInOrder, CallsInOrder
<1>4. ASSUME NEW n \in Node, NEW p \in net, NEW rest, AcceptRumor(n, p, rest)
      PROVE  (StoresInOrder /\ CallsInOrder)'
  <2>1. p.msg \in Message
    BY <1>4 DEF AcceptRumor, IInv, TypeOK, Packet
  <2>2. p.msg.id <= NextID(db[n], p.msg.origin)
    <3>1. p.msg.id \in Nat /\ NextID(db[n], p.msg.origin) \in Nat
      BY <2>1 DEF Message, IInv, StoresInOrder, WellFormed, NoGap
    <3>. QED BY <1>4, <3>1 DEF AcceptRumor, Accepts
  <2>3. WellFormed(db[n])
    BY DEF IInv, StoresInOrder
  <2>4. /\ WellFormed(InsertOrUpdateMessage(db[n], p.msg))
        /\ \A o \in Node :
              NextID(InsertOrUpdateMessage(db[n], p.msg), o) >= NextID(db[n], o)
    BY <2>1, <2>2, <2>3, InsertInOrder
  <2>5. /\ db' = [db EXCEPT ![n] = InsertOrUpdateMessage(db[n], p.msg)]
        /\ UNCHANGED call
    BY <1>4 DEF AcceptRumor
  <2>. QED BY <2>4, <2>5, OrderGrows
<1>5. ASSUME NEW n \in Node, Restart(n)
      PROVE  (StoresInOrder /\ CallsInOrder)'
  BY <1>5, OrderRelaunches DEF Restart, IInv, StoresInOrder
<1>6. ASSUME NEW n \in Node, WipeAndRestart(n)
      PROVE  (StoresInOrder /\ CallsInOrder)'
  BY <1>6, EmptyIsWellFormed, OrderRelaunches DEF WipeAndRestart
<1>. HIDE DEF StoresInOrder, CallsInOrder
<1>7. CASE Next
  <2>1. ASSUME NEW n \in Node, NEW p \in net, NEW rest, Deliver(n, p, rest)
        PROVE  AcceptRumor(n, p, rest) \/ UNCHANGED <<db, call>>
    BY <2>1 DEF Deliver, DropRumor, AcknowledgeRumor, ForwardStatus, AnswerStatus
  <2>2. ASSUME NEW n \in Node, NEW t \in Task,
               \/ EnterSelect(n, t) \/ TimeOut(n, t) \/ FinishMongering(n, t)
               \/ ContinueMongering(n, t) \/ SynchronizePeer(n, t)
        PROVE  UNCHANGED <<db, call>>
    BY <2>2 DEF EnterSelect, TimeOut, FinishMongering, ContinueMongering, SynchronizePeer
  <2>3. ASSUME NEW n \in Node, NEW q \in Node, AntiEntropy(n, q) \/ TogglePeer(n, q)
        PROVE  UNCHANGED <<db, call>>
    BY <2>3 DEF AntiEntropy, TogglePeer
  <2>4. ASSUME NEW p \in net, Lose(p)
        PROVE  UNCHANGED <<db, call>>
    BY <2>4 DEF Lose
  <2>5. ASSUME NEW n \in Node, NEW c \in Client, NEW b \in fresh, RefusePrivate(n, c, b)
        PROVE  UNCHANGED <<db, call>>
    BY <2>5 DEF RefusePrivate
  <2>. QED BY <1>0, <1>1, <1>2, <1>3, <1>4, <1>5, <1>6, <1>7,
              <2>1, <2>2, <2>3, <2>4, <2>5 DEF Next
<1>8. CASE UNCHANGED vars
  BY <1>0, <1>8 DEF vars
<1>. QED BY <1>7, <1>8

-----------------------------------------------------------------------------
(* Type correctness *)

\* Rebuilding a task state or a call state keeps it one.
LEMMA TaskStateParts ==
    ASSUME NEW s \in TaskState, s # Idle
    PROVE  s.peer \in Node /\ s.msg \in Message
BY DEF TaskState, Idle

LEMMA TypeRelaunches ==
    ASSUME StoreAssumption, GossipAssumption, TypeOK,
           NEW n \in Node, NEW store \in SUBSET Message, Relaunch(n, store),
           quota' \in [copy : Nat, restart : Nat, wipe : Nat, toggle : Nat]
    PROVE  TypeOK'
<1>1. Launched(n, store) \subseteq Message
  BY DEF Launched, InsertOrUpdateMessage, Announcement, Message, StoreAssumption
<1>2. db' \in [Node -> SUBSET Message]
  BY <1>1 DEF Relaunch, TypeOK
<1>3. peers' \in [Node -> SUBSET Node]
  BY DEF Relaunch, TypeOK, GossipAssumption
<1>4. subs' \in [Node -> [Node -> Task \cup {NoTask}]]
  BY DEF Relaunch, TypeOK, NoHandlers
<1>5. task' \in [Node -> [Task -> TaskState]]
  BY DEF Relaunch, TypeOK, NoTasks, TaskState
<1>6. call' \in [Node -> [Client -> CallState]]
  BY DEF Relaunch, TypeOK, NoCalls, CallState
<1>. QED BY <1>2, <1>3, <1>4, <1>5, <1>6 DEF Relaunch, TypeOK

LEMMA TypePosts ==
    ASSUME StoreAssumption, IInv, NEW n \in Node, NEW c \in Client,
           \/ \E b \in fresh : Compose(n, c, b) \/ RefusePrivate(n, c, b)
           \/ StoreOwn(n, c)
           \/ SpreadOwn(n, c)
    PROVE  TypeOK'
<1>1. ASSUME NEW b \in fresh, Compose(n, c, b)
      PROVE  TypeOK'
  <2>1. [phase |-> "pow", msg |-> [origin |-> n, id |-> NextID(db[n], n), body |-> b]]
          \in CallState
    <3>1. NextID(db[n], n) \in Nat
      BY DEF IInv, StoresInOrder, WellFormed, NoGap
    <3>2. b \in Body
      BY DEF IInv, TypeOK
    <3>. QED BY <3>1, <3>2 DEF CallState, Message
  <2>2. call' \in [Node -> [Client -> CallState]]
    BY <1>1, <2>1 DEF Compose, IInv, TypeOK
  <2>. QED BY <1>1, <2>2 DEF Compose, IInv, TypeOK
<1>2. ASSUME NEW b \in fresh, RefusePrivate(n, c, b)
      PROVE  TypeOK'
  BY <1>2 DEF RefusePrivate, IInv, TypeOK
<1>3. CASE StoreOwn(n, c)
  <2>1. call[n][c].msg \in Message /\ [call[n][c] EXCEPT !.phase = "stored"] \in CallState
    BY <1>3 DEF StoreOwn, IInv, TypeOK, CallState, Idle
  <2>2. call' \in [Node -> [Client -> CallState]]
    BY <1>3, <2>1 DEF StoreOwn, IInv, TypeOK
  <2>3. db' \in [Node -> SUBSET Message]
    BY <1>3, <2>1 DEF StoreOwn, IInv, TypeOK, InsertOrUpdateMessage
  <2>. QED BY <1>3, <2>2, <2>3 DEF StoreOwn, IInv, TypeOK
<1>4. CASE SpreadOwn(n, c)
  <2>1. PICK m \in GetMessage(db[n], n, call[n][c].msg.id) :
               Monger(n, m, peers[n], subs[n], task[n], net, {})
    BY <1>4 DEF SpreadOwn
  <2>2. m \in Message
    BY DEF GetMessage, IInv, TypeOK
  <2>3. /\ task' \in [Node -> [Task -> TaskState]]
        /\ subs' \in [Node -> [Node -> Task \cup {NoTask}]]
        /\ net' \subseteq Packet
    <3>1. /\ peers[n] \in SUBSET Node
          /\ subs[n] \in [Node -> Task \cup {NoTask}]
          /\ task[n] \in [Task -> TaskState]
          /\ net \in SUBSET Packet
          /\ {} \in SUBSET Packet
      BY DEF IInv, TypeOK
    <3>. QED BY <2>1, <2>2, <3>1, MongerType DEF IInv
  <2>4. call' \in [Node -> [Client -> CallState]]
    BY <1>4 DEF SpreadOwn, IInv, TypeOK, CallState
  <2>. QED BY <1>4, <2>3, <2>4 DEF SpreadOwn, IInv, TypeOK
<1>. QED BY <1>1, <1>2, <1>3, <1>4

LEMMA TypeDelivers ==
    ASSUME IInv, StoresInOrder', NEW n \in Node, NEW p \in net, NEW rest,
           Deliver(n, p, rest)
    PROVE  TypeOK'
<1>1. Receives(n, p, rest)
  BY DEF Deliver, DropRumor, AcknowledgeRumor, AcceptRumor, ForwardStatus, AnswerStatus
<1>2. /\ p \in Packet
      /\ p.from \in Node
      /\ rest \in SUBSET Packet
      /\ peers' \in [Node -> SUBSET Node]
      /\ quota' \in [copy : Nat, restart : Nat, wipe : Nat, toggle : Nat]
  BY <1>1, ReceivesType DEF IInv
<1>3. \A w \in Want : StatusPacket(n, p.from, w) \in Packet
  BY <1>2 DEF StatusPacket, Packet
<1>4. CASE DropRumor(n, p, rest)
  BY <1>2, <1>4 DEF DropRumor, Transmit, IInv, TypeOK
<1>5. CASE AcknowledgeRumor(n, p, rest)
  <2>1. StatusPacket(n, p.from, VectorClock(db[n])) \in Packet
    BY <1>3, ClockIsWant DEF IInv, StoresInOrder
  <2>. QED BY <1>2, <1>5, <2>1 DEF AcknowledgeRumor, Transmit, IInv, TypeOK
<1>6. CASE AcceptRumor(n, p, rest)
  <2>1. StatusPacket(n, p.from, VectorClock(db'[n])) \in Packet
    BY <1>3, ClockIsWant DEF StoresInOrder
  <2>2. p.msg \in Message
    BY <1>2, <1>6 DEF AcceptRumor, Packet
  <2>3. /\ task' \in [Node -> [Task -> TaskState]]
        /\ subs' \in [Node -> [Node -> Task \cup {NoTask}]]
        /\ net' \subseteq Packet
    <3>1. /\ peers[n] \ {p.from} \in SUBSET Node
          /\ subs[n] \in [Node -> Task \cup {NoTask}]
          /\ task[n] \in [Task -> TaskState]
          /\ {StatusPacket(n, p.from, VectorClock(db'[n]))} \in SUBSET Packet
      BY <2>1 DEF IInv, TypeOK
    <3>2. Monger(n, p.msg, peers[n] \ {p.from}, subs[n], task[n], rest,
                 {StatusPacket(n, p.from, VectorClock(db'[n]))})
      BY <1>6 DEF AcceptRumor
    <3>. QED BY <1>2, <2>2, <3>1, <3>2, MongerType DEF IInv
  <2>4. db' \in [Node -> SUBSET Message]
    BY <1>6, <2>2 DEF AcceptRumor, IInv, TypeOK, InsertOrUpdateMessage
  <2>. QED BY <1>2, <1>6, <2>3, <2>4 DEF AcceptRumor, IInv, TypeOK
<1>7. CASE ForwardStatus(n, p, rest)
  <2>1. task' \in [Node -> [Task -> TaskState]]
    <3> DEFINE t == subs[n][p.from]
    <3>1. CASE task[n][t].phase = "waiting" /\ t \in Task
      <4>1. task[n][t] \in TaskState /\ task[n][t] # Idle
        BY <3>1 DEF IInv, TypeOK, Idle
      <4>2. p.want \in Want
        BY <1>2, <1>7 DEF ForwardStatus, Packet
      <4>3. [phase |-> "answered", peer |-> task[n][t].peer, msg |-> task[n][t].msg,
             want |-> p.want] \in TaskState
        BY <4>1, <4>2, TaskStateParts DEF TaskState
      <4>4. task' = [task EXCEPT ![n][t] =
                       [phase |-> "answered", peer |-> task[n][t].peer,
                        msg |-> task[n][t].msg, want |-> p.want]]
        BY <1>7, <3>1 DEF ForwardStatus
      <4>. QED BY <3>1, <4>3, <4>4 DEF IInv, TypeOK
    <3>2. CASE task[n][t].phase # "waiting"
      BY <1>7, <3>2 DEF ForwardStatus, IInv, TypeOK
    <3>3. t \in Task
      BY <1>2, <1>7 DEF ForwardStatus, IInv, TypeOK
    <3>. QED BY <3>1, <3>2, <3>3
  <2>. QED BY <1>2, <1>7, <2>1 DEF ForwardStatus, Transmit, IInv, TypeOK
<1>8. CASE AnswerStatus(n, p, rest)
  <2>1. Synchronization(n, p.want, p.from) \subseteq Packet
    BY <1>2, SynchronizationIsPackets DEF IInv
  <2>. QED BY <1>2, <1>8, <2>1 DEF AnswerStatus, Transmit, IInv, TypeOK
<1>. QED BY <1>4, <1>5, <1>6, <1>7, <1>8 DEF Deliver

LEMMA TypeMongers ==
    ASSUME IInv, NEW n \in Node, NEW t \in Task,
           \/ EnterSelect(n, t)
           \/ TimeOut(n, t)
           \/ FinishMongering(n, t)
           \/ ContinueMongering(n, t)
           \/ SynchronizePeer(n, t)
    PROVE  TypeOK'
<1>1. /\ task[n][t] \in TaskState
      /\ task[n][t] # Idle
      /\ task[n][t].peer \in Node
      /\ task[n][t].msg \in Message
  <2>1. task[n][t] \in TaskState
    BY DEF IInv, TypeOK
  <2>2. task[n][t] # Idle
    BY DEF EnterSelect, TimeOut, FinishMongering, ContinueMongering, SynchronizePeer,
           CoinIsFlipped, Idle
  <2>. QED BY <2>1, <2>2, TaskStateParts
<1>2. Unsubscribed(n, t) \in [Node -> Task \cup {NoTask}]
  BY DEF Unsubscribed, IInv, TypeOK
<1>3. ASSUME NEW s \in TaskState
      PROVE  [task EXCEPT ![n][t] = s] \in [Node -> [Task -> TaskState]]
  BY DEF IInv, TypeOK
<1>4. [subs EXCEPT ![n] = Unsubscribed(n, t)] \in [Node -> [Node -> Task \cup {NoTask}]]
  BY <1>2 DEF IInv, TypeOK
<1>5. Idle \in TaskState
  BY DEF TaskState
<1>6. CASE EnterSelect(n, t)
  <2>1. [task[n][t] EXCEPT !.phase = "waiting"] \in TaskState
    BY <1>1, <1>6 DEF EnterSelect, TaskState, Idle
  <2>2. task' = [task EXCEPT ![n][t] = [task[n][t] EXCEPT !.phase = "waiting"]]
    BY <1>6 DEF EnterSelect, IInv, TypeOK
  <2>. QED BY <1>3, <1>6, <2>1, <2>2 DEF EnterSelect, IInv, TypeOK
<1>7. CASE TimeOut(n, t)
  <2>1. [task[n][t] EXCEPT !.phase = "timedout"] \in TaskState
    BY <1>1, <1>7 DEF TimeOut, TaskState, Idle
  <2>2. task' = [task EXCEPT ![n][t] = [task[n][t] EXCEPT !.phase = "timedout"]]
    BY <1>7 DEF TimeOut, IInv, TypeOK
  <2>. QED BY <1>3, <1>7, <2>1, <2>2 DEF TimeOut, IInv, TypeOK
<1>8. CASE FinishMongering(n, t)
  BY <1>3, <1>4, <1>5, <1>8 DEF FinishMongering, IInv, TypeOK
<1>9. CASE ContinueMongering(n, t)
  <2>1. /\ peers[n] \ {task[n][t].peer} \in SUBSET Node
        /\ [task[n] EXCEPT ![t] = Idle] \in [Task -> TaskState]
        /\ net \in SUBSET Packet
        /\ {} \in SUBSET Packet
    BY <1>5 DEF IInv, TypeOK
  <2>2. Monger(n, task[n][t].msg, peers[n] \ {task[n][t].peer}, Unsubscribed(n, t),
               [task[n] EXCEPT ![t] = Idle], net, {})
    BY <1>9 DEF ContinueMongering
  <2>3. /\ task' \in [Node -> [Task -> TaskState]]
        /\ subs' \in [Node -> [Node -> Task \cup {NoTask}]]
        /\ net' \subseteq Packet
    BY <1>1, <1>2, <2>1, <2>2, MongerType DEF IInv
  <2>. QED BY <1>9, <2>3 DEF ContinueMongering, IInv, TypeOK
<1>10. CASE SynchronizePeer(n, t)
  <2>1. Synchronization(n, task[n][t].want, task[n][t].peer) \subseteq Packet
    BY <1>1, SynchronizationIsPackets DEF IInv
  <2>. QED BY <1>3, <1>4, <1>5, <1>10, <2>1 DEF SynchronizePeer, Transmit, IInv, TypeOK
<1>. QED BY <1>6, <1>7, <1>8, <1>9, <1>10

LEMMA TypeStep ==
    ASSUME StoreAssumption, GossipAssumption, IInv, StoresInOrder', [Next]_vars
    PROVE  TypeOK'
<1>1. ASSUME NEW n \in Node, NEW q \in Node, AntiEntropy(n, q)
      PROVE  TypeOK'
  <2>1. StatusPacket(n, q, VectorClock(db[n])) \in Packet
    BY ClockIsWant DEF IInv, StoresInOrder, StatusPacket, Packet
  <2>. QED BY <1>1, <2>1 DEF AntiEntropy, Transmit, IInv, TypeOK
<1>2. ASSUME NEW n \in Node, NEW q \in Node, TogglePeer(n, q)
      PROVE  TypeOK'
  <2>1. peers' \in [Node -> SUBSET Node]
    BY <1>2 DEF TogglePeer, IInv, TypeOK
  <2>2. quota.toggle \in Nat /\ quota.toggle - 1 \in Nat
    BY <1>2 DEF TogglePeer, IInv, TypeOK
  <2>3. quota' \in [copy : Nat, restart : Nat, wipe : Nat, toggle : Nat]
    BY <1>2, <2>2 DEF TogglePeer, IInv, TypeOK
  <2>. QED BY <1>2, <2>1, <2>3 DEF TogglePeer, IInv, TypeOK
<1>3. ASSUME NEW n \in Node, Restart(n)
      PROVE  TypeOK'
  <2>1. quota.restart - 1 \in Nat /\ db[n] \in SUBSET Message
    BY <1>3 DEF Restart, IInv, TypeOK
  <2>2. quota' \in [copy : Nat, restart : Nat, wipe : Nat, toggle : Nat]
    BY <1>3, <2>1 DEF Restart, IInv, TypeOK
  <2>. QED BY <1>3, <2>1, <2>2, TypeRelaunches DEF Restart, IInv
<1>4. ASSUME NEW n \in Node, WipeAndRestart(n)
      PROVE  TypeOK'
  <2>1. quota.wipe - 1 \in Nat
    BY <1>4 DEF WipeAndRestart, IInv, TypeOK
  <2>2. quota' \in [copy : Nat, restart : Nat, wipe : Nat, toggle : Nat]
    BY <1>4, <2>1 DEF WipeAndRestart, IInv, TypeOK
  <2>3. {} \in SUBSET Message
    OBVIOUS
  <2>. QED BY <1>4, <2>2, <2>3, TypeRelaunches DEF WipeAndRestart, IInv
<1>5. ASSUME NEW p \in net, Lose(p)
      PROVE  TypeOK'
  BY <1>5 DEF Lose, IInv, TypeOK
<1>6. CASE UNCHANGED vars
  BY <1>6 DEF vars, IInv, TypeOK
<1>7. CASE Next
  BY <1>1, <1>2, <1>3, <1>4, <1>5, <1>7, TypePosts, TypeDelivers, TypeMongers DEF Next
<1>. QED BY <1>6, <1>7

-----------------------------------------------------------------------------
(* The theorems *)

LEMMA InitInOrder ==
    ASSUME StoreAssumption, GossipAssumption, Init
    PROVE  IInv
<1>1. \A n \in Node : WellFormed(Launched(n, Stored[n])) /\ Launched(n, Stored[n]) \subseteq Message
  <2>. SUFFICES ASSUME NEW n \in Node
                PROVE  WellFormed(Launched(n, Stored[n])) /\ Launched(n, Stored[n]) \subseteq Message
    OBVIOUS
  <2>1. WellFormed(Stored[n]) /\ Stored[n] \subseteq Message
    BY DEF GossipAssumption
  <2>2. Launched(n, Stored[n]) \subseteq Message
    BY <2>1 DEF Launched, InsertOrUpdateMessage, Announcement, Message, StoreAssumption
  <2>. QED BY <2>1, <2>2, LaunchInOrder
<1>2. StoresInOrder
  BY <1>1 DEF Init, StoresInOrder
<1>3. CallsInOrder
  BY DEF Init, CallsInOrder, NoCalls
<1>4. db \in [Node -> SUBSET Message]
  BY <1>1 DEF Init
<1>5. quota \in [copy : Nat, restart : Nat, wipe : Nat, toggle : Nat]
  BY DEF Init, GossipAssumption
<1>6. /\ subs \in [Node -> [Node -> Task \cup {NoTask}]]
      /\ task \in [Node -> [Task -> TaskState]]
      /\ call \in [Node -> [Client -> CallState]]
  BY DEF Init, NoHandlers, NoTasks, NoCalls, TaskState, CallState
<1>7. peers \in [Node -> SUBSET Node] /\ fresh \subseteq Body /\ net \subseteq Packet
  BY DEF Init, GossipAssumption
<1>. QED BY <1>2, <1>3, <1>4, <1>5, <1>6, <1>7 DEF IInv, TypeOK

\* The inductive invariant holds in every reachable state, through any
\* number of posts, packets, losses, crashes and deleted databases.
THEOREM InOrder == Spec => []IInv
<1>1. Init => IInv
  BY InitInOrder, StoreAssumption, GossipAssumption
<1>2. IInv /\ [Next]_vars => IInv'
  BY OrderStep, TypeStep, StoreAssumption, GossipAssumption DEF IInv
<1>. QED BY <1>1, <1>2, PTL DEF Spec

\* Every variable keeps the type the Go declarations give it.
THEOREM TypeCorrect == Spec => []TypeOK
<1>1. IInv => TypeOK
  BY DEF IInv
<1>. QED BY <1>1, InOrder, PTL

\* The rows context.go:174 and context.go:201 dereference without a nil check
\* are always there, and there is one of each, whatever the network does and
\* however many posts run at a time.
THEOREM RowsAreThere == Spec => []ExactlyOneRow
<1>1. IInv => ExactlyOneRow
  BY ExactlyOne DEF IInv, StoresInOrder, ExactlyOneRow
<1>. QED BY <1>1, InOrder, PTL

-----------------------------------------------------------------------------
(* Steps on databases *)

\* The only steps that touch a database
LEMMA StoreChanges ==
    ASSUME [Next]_vars
    PROVE  \/ UNCHANGED db
           \/ \E n \in Node, c \in Client : StoreOwn(n, c)
           \/ \E n \in Node, p \in net : \E rest : AcceptRumor(n, p, rest)
           \/ \E n \in Node : Restart(n) \/ WipeAndRestart(n)
<1>1. ASSUME NEW n \in Node, NEW p \in net, NEW rest, Deliver(n, p, rest)
      PROVE  AcceptRumor(n, p, rest) \/ UNCHANGED db
  BY <1>1 DEF Deliver, DropRumor, AcknowledgeRumor, ForwardStatus, AnswerStatus
<1>2. ASSUME NEW n \in Node, NEW c \in Client, NEW b \in fresh,
             Compose(n, c, b) \/ RefusePrivate(n, c, b)
      PROVE  UNCHANGED db
  BY <1>2 DEF Compose, RefusePrivate
<1>3. ASSUME NEW n \in Node, NEW c \in Client, SpreadOwn(n, c)
      PROVE  UNCHANGED db
  BY <1>3 DEF SpreadOwn
<1>4. ASSUME NEW n \in Node, NEW t \in Task,
             \/ EnterSelect(n, t) \/ TimeOut(n, t) \/ FinishMongering(n, t)
             \/ ContinueMongering(n, t) \/ SynchronizePeer(n, t)
      PROVE  UNCHANGED db
  BY <1>4 DEF EnterSelect, TimeOut, FinishMongering, ContinueMongering, SynchronizePeer
<1>5. ASSUME NEW n \in Node, NEW q \in Node, AntiEntropy(n, q) \/ TogglePeer(n, q)
      PROVE  UNCHANGED db
  BY <1>5 DEF AntiEntropy, TogglePeer
<1>6. ASSUME NEW p \in net, Lose(p)
      PROVE  UNCHANGED db
  BY <1>6 DEF Lose
<1>7. CASE Next
  BY <1>1, <1>2, <1>3, <1>4, <1>5, <1>6, <1>7 DEF Next
<1>8. CASE UNCHANGED vars
  BY <1>8 DEF vars
<1>. QED BY <1>7, <1>8

\* A post stores its message in order.
LEMMA OwnInOrder ==
    ASSUME IInv, NEW n \in Node, NEW c \in Client, StoreOwn(n, c)
    PROVE  LET m == call[n][c].msg IN
           /\ m \in Message /\ m.origin = n /\ m.id <= NextID(db[n], n)
           /\ db' = [db EXCEPT ![n] = InsertOrUpdateMessage(db[n], m)]
<1>1. call[n][c] # Idle /\ call[n][c].msg \in Message
  BY DEF StoreOwn, IInv, TypeOK, CallState, Idle
<1>2. db' = [db EXCEPT ![n] = InsertOrUpdateMessage(db[n], call[n][c].msg)]
  BY DEF StoreOwn
<1>. QED BY <1>1, <1>2 DEF IInv, CallsInOrder

\* An accepted rumor is in order.
LEMMA RumorInOrder ==
    ASSUME IInv, NEW n \in Node, NEW p \in net, NEW rest, AcceptRumor(n, p, rest)
    PROVE  /\ p.kind = "rumor" /\ p.msg \in Message
           /\ p.msg.id <= NextID(db[n], p.msg.origin)
           /\ db' = [db EXCEPT ![n] = InsertOrUpdateMessage(db[n], p.msg)]
<1>1. p.kind = "rumor" /\ p.msg \in Message
  BY DEF AcceptRumor, IInv, TypeOK, Packet
<1>2. p.msg.id \in Nat /\ NextID(db[n], p.msg.origin) \in Nat
  BY <1>1 DEF Message, IInv, StoresInOrder, WellFormed, NoGap
<1>3. p.msg.id <= NextID(db[n], p.msg.origin)
  BY <1>2 DEF AcceptRumor, Accepts
<1>4. db' = [db EXCEPT ![n] = InsertOrUpdateMessage(db[n], p.msg)]
  BY DEF AcceptRumor
<1>. QED BY <1>1, <1>3, <1>4

-----------------------------------------------------------------------------
(* Clocks *)

LEMMA ClockStep ==
    ASSUME StoreAssumption, IInv, [Next]_vars, quota.wipe = 0,
           NEW n \in Node, NEW o \in Node
    PROVE  NextID(db'[n], o) >= NextID(db[n], o)
<1>. WellFormed(db[n]) /\ NextID(db[n], o) \in Nat
  BY DEF IInv, StoresInOrder, WellFormed, NoGap
<1>1. CASE UNCHANGED db
  BY <1>1
<1>2. ASSUME NEW q \in Node, NEW m \in Message, m.id <= NextID(db[q], m.origin),
             db' = [db EXCEPT ![q] = InsertOrUpdateMessage(db[q], m)]
      PROVE  NextID(db'[n], o) >= NextID(db[n], o)
  <2>1. CASE n = q
    <3>1. db'[n] = InsertOrUpdateMessage(db[n], m)
      BY <1>2, <2>1 DEF IInv, TypeOK
    <3>. QED BY <1>2, <2>1, <3>1, InsertInOrder
  <2>2. CASE n # q
    <3>1. db'[n] = db[n]
      BY <1>2, <2>2 DEF IInv, TypeOK
    <3>. QED BY <3>1
  <2>. QED BY <2>1, <2>2
<1>3. ASSUME NEW q \in Node, NEW c \in Client, StoreOwn(q, c)
      PROVE  NextID(db'[n], o) >= NextID(db[n], o)
  BY <1>2, <1>3, OwnInOrder
<1>4. ASSUME NEW q \in Node, NEW p \in net, NEW rest, AcceptRumor(q, p, rest)
      PROVE  NextID(db'[n], o) >= NextID(db[n], o)
  BY <1>2, <1>4, RumorInOrder
<1>5. ASSUME NEW q \in Node, Restart(q)
      PROVE  NextID(db'[n], o) >= NextID(db[n], o)
  <2>1. db'[n] = IF n = q THEN Launched(n, db[n]) ELSE db[n]
    BY <1>5 DEF Restart, Relaunch, IInv, TypeOK
  <2>. QED BY <2>1, LaunchInOrder
<1>6. ASSUME NEW q \in Node PROVE ~WipeAndRestart(q)
  BY DEF WipeAndRestart
<1>. QED BY <1>1, <1>3, <1>4, <1>5, <1>6, StoreChanges

\* With every messages.db left in place no wipe is ever possible.
LEMMA NoWipe ==
    ASSUME GossipAssumption, MaxWipe = 0
    PROVE  Spec => [](quota.wipe = 0)
<1>1. Init => quota.wipe = 0
  BY DEF Init
<1>2. quota.wipe = 0 /\ IInv /\ [Next]_vars => (quota.wipe = 0)'
  <2>. SUFFICES ASSUME quota.wipe = 0, IInv, [Next]_vars
                PROVE  quota'.wipe = 0
    OBVIOUS
  <2>1. quota \in [copy : Nat, restart : Nat, wipe : Nat, toggle : Nat]
    BY DEF IInv, TypeOK
  <2>2. ASSUME NEW n \in Node, NEW p \in net, NEW rest, Deliver(n, p, rest)
        PROVE  quota'.wipe = 0
    BY <2>1, <2>2 DEF Deliver, DropRumor, AcknowledgeRumor, AcceptRumor, ForwardStatus,
                      AnswerStatus, Receives
  <2>3. ASSUME NEW n \in Node, NEW c \in Client,
               \/ \E b \in fresh : Compose(n, c, b) \/ RefusePrivate(n, c, b)
               \/ StoreOwn(n, c) \/ SpreadOwn(n, c)
        PROVE  UNCHANGED quota
    BY <2>3 DEF Compose, RefusePrivate, StoreOwn, SpreadOwn
  <2>4. ASSUME NEW n \in Node, NEW t \in Task,
               \/ EnterSelect(n, t) \/ TimeOut(n, t) \/ FinishMongering(n, t)
               \/ ContinueMongering(n, t) \/ SynchronizePeer(n, t)
        PROVE  UNCHANGED quota
    BY <2>4 DEF EnterSelect, TimeOut, FinishMongering, ContinueMongering, SynchronizePeer
  <2>5. ASSUME NEW n \in Node, NEW q \in Node, AntiEntropy(n, q) \/ TogglePeer(n, q)
        PROVE  quota'.wipe = 0
    BY <2>1, <2>5 DEF AntiEntropy, TogglePeer
  <2>6. ASSUME NEW n \in Node, Restart(n) \/ WipeAndRestart(n)
        PROVE  quota'.wipe = 0
    BY <2>1, <2>6 DEF Restart, WipeAndRestart
  <2>7. ASSUME NEW p \in net, Lose(p)
        PROVE  UNCHANGED quota
    BY <2>7 DEF Lose
  <2>8. CASE UNCHANGED vars
    BY <2>8 DEF vars
  <2>9. CASE Next
    BY <2>2, <2>3, <2>4, <2>5, <2>6, <2>7, <2>9 DEF Next
  <2>. QED BY <2>8, <2>9
<1>. QED BY <1>1, <1>2, InOrder, PTL DEF Spec

\* While no messages.db is deleted, no clock entry of any node ever goes back.
THEOREM ClocksGrow ==
    ASSUME MaxWipe = 0
    PROVE  Spec => ClockNeverGoesBack
<1>1. IInv /\ quota.wipe = 0 /\ [Next]_vars
        => [\A n, o \in Node : NextID(db'[n], o) >= NextID(db[n], o)]_vars
  BY ClockStep, StoreAssumption
<1>2. Spec => [](quota.wipe = 0)
  BY NoWipe, GossipAssumption
<1>. QED BY <1>1, <1>2, InOrder, PTL DEF Spec, ClockNeverGoesBack

-----------------------------------------------------------------------------
(* Conflicts *)

LEMMA ConflictStep ==
    ASSUME StoreAssumption, IInv, [Next]_vars, NEW n \in Node,
           NEW m \in db[n], NEW k \in db'[n],
           m.origin = k.origin, m.id = k.id, m.origin # n
    PROVE  Digest[k.body] <= Digest[m.body]
<1>1. m \in Message /\ Digest[m.body] \in Nat
  BY DEF IInv, TypeOK, Message, StoreAssumption
<1>2. CASE k \in db[n]
  <2>1. k = m
    BY <1>2 DEF IInv, StoresInOrder, WellFormed, OneRowPerID
  <2>. QED BY <1>1, <2>1
<1>3. ASSUME k \notin db[n], NEW q \in Node, NEW c \in Client, StoreOwn(q, c)
      PROVE  FALSE
  <2>1. call[q][c].msg.origin = q /\ db' = [db EXCEPT ![q] = InsertOrUpdateMessage(db[q], call[q][c].msg)]
    BY <1>3, OwnInOrder
  <2>2. q = n /\ k = call[q][c].msg
    BY <1>3, <2>1 DEF IInv, TypeOK, InsertOrUpdateMessage
  <2>. QED BY <2>1, <2>2
<1>4. ASSUME k \notin db[n], NEW q \in Node, NEW p \in net, NEW rest, AcceptRumor(q, p, rest)
      PROVE  Digest[k.body] <= Digest[m.body]
  <2>1. p.msg \in Message /\ db' = [db EXCEPT ![q] = InsertOrUpdateMessage(db[q], p.msg)]
    BY <1>4, RumorInOrder
  <2>2. q = n /\ k = p.msg
    BY <1>4, <2>1 DEF IInv, TypeOK, InsertOrUpdateMessage
  <2>3. m \in GetMessage(db[n], k.origin, k.id)
    BY DEF GetMessage
  <2>4. k.id # NextID(db[n], k.origin)
    <3>1. m.id \in IDs(db[n], k.origin)
      BY DEF IDs
    <3>2. NextID(db[n], k.origin) \in Nat
          /\ IDs(db[n], k.origin) = 0 .. NextID(db[n], k.origin) - 1
      BY <1>1 DEF Message, IInv, StoresInOrder, WellFormed, NoGap
    <3>. QED BY <3>1, <3>2
  <2>5. Preferred(db[n], k)
    BY <1>4, <2>2, <2>4 DEF AcceptRumor, Accepts
  <2>6. Digest[k.body] < Digest[m.body]
    BY <2>3, <2>5 DEF Preferred
  <2>7. Digest[k.body] \in Nat
    BY <2>1, <2>2 DEF Message, StoreAssumption
  <2>. QED BY <1>1, <2>6, <2>7
<1>5. ASSUME k \notin db[n], NEW q \in Node, Restart(q) \/ WipeAndRestart(q)
      PROVE  FALSE
  <2>1. PICK store \in {db[q], {}} : db' = [db EXCEPT ![q] = Launched(q, store)]
    BY <1>5 DEF Restart, WipeAndRestart, Relaunch
  <2>2. q = n
    BY <1>5, <2>1 DEF IInv, TypeOK
  <2>3. k = Announcement(n)
    BY <1>5, <2>1, <2>2 DEF IInv, TypeOK, Launched, InsertOrUpdateMessage
  <2>. QED BY <2>3 DEF Announcement
<1>. QED BY <1>2, <1>3, <1>4, <1>5, StoreChanges

\* Whatever versions of a message arrive, and whatever databases are deleted,
\* a replica only ever moves to a version with a lower hash.
THEOREM ConflictsAreDecidedByHash == Spec => LowestHashWins
<1>1. IInv /\ [Next]_vars
        => [\A n \in Node : \A m \in db[n], k \in db'[n] :
              m.origin = k.origin /\ m.id = k.id /\ m.origin # n
                 => Digest[k.body] <= Digest[m.body]]_vars
  BY ConflictStep, StoreAssumption
<1>. QED BY <1>1, InOrder, PTL DEF Spec, LowestHashWins

-----------------------------------------------------------------------------
(* Handlers *)

\* HandlersAreRemoved for one node
Linked(handlers, tasks) ==
    \A q \in Node : handlers[q] # NoTask =>
        tasks[handlers[q]] # Idle /\ tasks[handlers[q]].peer = q

LEMMA MongerLinks ==
    ASSUME IInv, HandlersAreRemoved, NEW n \in Node, NEW m, NEW valid \in SUBSET Node,
           NEW handlers \in [Node -> Task \cup {NoTask}],
           NEW tasks \in [Task -> TaskState], NEW rest, NEW out,
           Linked(handlers, tasks),
           Monger(n, m, valid, handlers, tasks, rest, out)
    PROVE  HandlersAreRemoved'
<1>1. \A r \in Node \ {n} : subs'[r] = subs[r] /\ task'[r] = task[r]
  BY DEF Monger, StartMongering, IInv, TypeOK
<1>2. Linked(subs'[n], task'[n])
  <2>1. CASE valid = {}
    <3>1. subs'[n] = handlers /\ task'[n] = tasks
      BY <2>1 DEF Monger, IInv, TypeOK
    <3>. QED BY <3>1
  <2>2. ASSUME NEW q \in valid, NEW t \in Task,
               StartMongering(n, m, q, t, handlers, tasks, rest, out)
        PROVE  Linked(subs'[n], task'[n])
    <3>1. /\ subs'[n] = [handlers EXCEPT ![q] = t]
          /\ task'[n] = [tasks EXCEPT ![t] = [phase |-> "spawned", peer |-> q, msg |-> m]]
          /\ tasks[t] = Idle
      BY <2>2 DEF StartMongering, IInv, TypeOK
    <3>2. \A r \in Node : handlers[r] # t
      BY <3>1, GossipAssumption DEF Linked, GossipAssumption
    <3>3. [phase |-> "spawned", peer |-> q, msg |-> m] # Idle
      BY DEF Idle
    <3>. QED BY <3>1, <3>2, <3>3 DEF Linked
  <2>. QED BY <2>1, <2>2 DEF Monger
<1>. QED BY <1>1, <1>2 DEF HandlersAreRemoved, Linked

LEMMA HandlersStep ==
    ASSUME IInv, HandlersAreRemoved, [Next]_vars
    PROVE  HandlersAreRemoved'
<1>1. CASE UNCHANGED <<subs, task>>
  BY <1>1 DEF HandlersAreRemoved
<1>2. ASSUME NEW n \in Node
      PROVE  /\ Linked(subs[n], task[n])
             /\ subs[n] \in [Node -> Task \cup {NoTask}]
             /\ task[n] \in [Task -> TaskState]
             /\ peers[n] \in SUBSET Node
  BY DEF HandlersAreRemoved, Linked, IInv, TypeOK
<1>3. ASSUME NEW n \in Node, NEW c \in Client, SpreadOwn(n, c)
      PROVE  HandlersAreRemoved'
  <2>1. PICK m : Monger(n, m, peers[n], subs[n], task[n], net, {})
    BY <1>3 DEF SpreadOwn
  <2>. QED BY <1>2, <2>1, MongerLinks
<1>4. ASSUME NEW n \in Node, NEW p \in net, NEW rest, AcceptRumor(n, p, rest)
      PROVE  HandlersAreRemoved'
  <2>1. Monger(n, p.msg, peers[n] \ {p.from}, subs[n], task[n], rest,
               {StatusPacket(n, p.from, VectorClock(db'[n]))})
    BY <1>4 DEF AcceptRumor
  <2>2. peers[n] \ {p.from} \in SUBSET Node
    BY <1>2
  <2>. QED BY <1>2, <2>1, <2>2, MongerLinks
\* A goroutine that moves on keeps its peer.
<1>5. ASSUME NEW n \in Node, NEW t \in Task, NEW s,
             task[n][t] # Idle, s # Idle, s.peer = task[n][t].peer,
             UNCHANGED subs, task' = [task EXCEPT ![n][t] = s]
      PROVE  HandlersAreRemoved'
  BY <1>5 DEF HandlersAreRemoved, IInv, TypeOK
<1>6. ASSUME NEW n \in Node, NEW p \in net, NEW rest, ForwardStatus(n, p, rest)
      PROVE  HandlersAreRemoved'
  <2> DEFINE t == subs[n][p.from]
  <2>1. CASE UNCHANGED task
    BY <1>1, <1>6, <2>1 DEF ForwardStatus
  <2>2. CASE /\ task[n][t].phase = "waiting"
             /\ task' = [task EXCEPT ![n][t] =
                           [phase |-> "answered", peer |-> task[n][t].peer,
                            msg |-> task[n][t].msg, want |-> p.want]]
    <3>1. t \in Task /\ UNCHANGED subs
      BY <1>6 DEF ForwardStatus, IInv, TypeOK, Packet
    <3>2. task[n][t] # Idle
      BY <2>2 DEF Idle
    <3>3. [phase |-> "answered", peer |-> task[n][t].peer, msg |-> task[n][t].msg,
           want |-> p.want] # Idle
      BY DEF Idle
    <3>. HIDE DEF t
    <3>. QED BY <1>5, <2>2, <3>1, <3>2, <3>3
  <2>. QED BY <1>6, <2>1, <2>2 DEF ForwardStatus
<1>7. ASSUME NEW n \in Node, NEW t \in Task, EnterSelect(n, t) \/ TimeOut(n, t)
      PROVE  HandlersAreRemoved'
  <2>1. task[n][t] \in TaskState /\ task[n][t] # Idle
    BY <1>2, <1>7 DEF EnterSelect, TimeOut, Idle
  <2>2. PICK ph \in {"waiting", "timedout"} :
          task' = [task EXCEPT ![n][t] = [task[n][t] EXCEPT !.phase = ph]]
    BY <1>7 DEF EnterSelect, TimeOut, IInv, TypeOK
  <2>3. /\ [task[n][t] EXCEPT !.phase = ph] # Idle
        /\ [task[n][t] EXCEPT !.phase = ph].peer = task[n][t].peer
    BY <2>1 DEF TaskState, Idle
  <2>. QED BY <1>5, <1>7, <2>1, <2>2, <2>3 DEF EnterSelect, TimeOut
\* A goroutine that ends takes the handler of its peer with it.
<1>8. ASSUME NEW n \in Node, NEW t \in Task, task[n][t] # Idle
      PROVE  /\ Linked(Unsubscribed(n, t), [task[n] EXCEPT ![t] = Idle])
             /\ Unsubscribed(n, t) \in [Node -> Task \cup {NoTask}]
             /\ [task[n] EXCEPT ![t] = Idle] \in [Task -> TaskState]
  <2>1. task[n][t].peer \in Node
    BY <1>2, <1>8, TaskStateParts
  <2>2. Unsubscribed(n, t) \in [Node -> Task \cup {NoTask}]
    BY <1>2 DEF Unsubscribed
  <2>3. [task[n] EXCEPT ![t] = Idle] \in [Task -> TaskState]
    BY <1>2 DEF TaskState
  <2>4. Linked(Unsubscribed(n, t), [task[n] EXCEPT ![t] = Idle])
    <3>. SUFFICES ASSUME NEW q \in Node, Unsubscribed(n, t)[q] # NoTask
                  PROVE  /\ [task[n] EXCEPT ![t] = Idle][subs[n][q]] # Idle
                         /\ [task[n] EXCEPT ![t] = Idle][subs[n][q]].peer = q
                         /\ Unsubscribed(n, t)[q] = subs[n][q]
      BY DEF Linked
    <3>1. q # task[n][t].peer /\ Unsubscribed(n, t)[q] = subs[n][q]
      BY <1>2, <2>1 DEF Unsubscribed
    <3>2. task[n][subs[n][q]] # Idle /\ task[n][subs[n][q]].peer = q
      BY <1>2, <3>1 DEF Linked
    <3>3. subs[n][q] # t /\ subs[n][q] \in Task
      BY <1>2, <3>1, <3>2
    <3>. QED BY <1>2, <3>1, <3>2, <3>3
  <2>. QED BY <2>2, <2>3, <2>4
<1>9. ASSUME NEW n \in Node, NEW t \in Task,
             FinishMongering(n, t) \/ SynchronizePeer(n, t)
      PROVE  HandlersAreRemoved'
  <2>1. task[n][t] # Idle
    BY <1>9 DEF FinishMongering, SynchronizePeer, CoinIsFlipped, Idle
  <2>2. \A r \in Node :
          /\ subs'[r] = IF r = n THEN Unsubscribed(n, t) ELSE subs[r]
          /\ task'[r] = IF r = n THEN [task[n] EXCEPT ![t] = Idle] ELSE task[r]
    BY <1>9 DEF FinishMongering, SynchronizePeer, IInv, TypeOK
  <2>. QED BY <1>8, <2>1, <2>2 DEF HandlersAreRemoved, Linked
<1>10. ASSUME NEW n \in Node, NEW t \in Task, ContinueMongering(n, t)
       PROVE  HandlersAreRemoved'
  <2>1. task[n][t] # Idle
    BY <1>10 DEF ContinueMongering, CoinIsFlipped, Idle
  <2>2. Monger(n, task[n][t].msg, peers[n] \ {task[n][t].peer}, Unsubscribed(n, t),
               [task[n] EXCEPT ![t] = Idle], net, {})
    BY <1>10 DEF ContinueMongering
  <2>3. peers[n] \ {task[n][t].peer} \in SUBSET Node
    BY <1>2
  <2>. QED BY <1>8, <2>1, <2>2, <2>3, MongerLinks
<1>11. ASSUME NEW n \in Node, Restart(n) \/ WipeAndRestart(n)
       PROVE  HandlersAreRemoved'
  <2>1. \A r \in Node : /\ subs'[r] = IF r = n THEN NoHandlers ELSE subs[r]
                       /\ task'[r] = IF r = n THEN NoTasks ELSE task[r]
    BY <1>11 DEF Restart, WipeAndRestart, Relaunch, IInv, TypeOK
  <2>. QED BY <2>1 DEF HandlersAreRemoved, NoHandlers
<1>12. ASSUME NEW n \in Node, NEW c \in Client, NEW b \in fresh,
              Compose(n, c, b) \/ RefusePrivate(n, c, b) \/ StoreOwn(n, c)
       PROVE  HandlersAreRemoved'
  BY <1>1, <1>12 DEF Compose, RefusePrivate, StoreOwn
<1>13. ASSUME NEW n \in Node, NEW c \in Client, StoreOwn(n, c)
       PROVE  HandlersAreRemoved'
  BY <1>1, <1>13 DEF StoreOwn
<1>14. ASSUME NEW n \in Node, NEW p \in net, NEW rest,
              \/ DropRumor(n, p, rest) \/ AcknowledgeRumor(n, p, rest)
              \/ AnswerStatus(n, p, rest)
       PROVE  HandlersAreRemoved'
  BY <1>1, <1>14 DEF DropRumor, AcknowledgeRumor, AnswerStatus
<1>15. ASSUME NEW n \in Node, NEW q \in Node, AntiEntropy(n, q) \/ TogglePeer(n, q)
       PROVE  HandlersAreRemoved'
  BY <1>1, <1>15 DEF AntiEntropy, TogglePeer
<1>16. ASSUME NEW p \in net, Lose(p)
       PROVE  HandlersAreRemoved'
  BY <1>1, <1>16 DEF Lose
<1>17. CASE UNCHANGED vars
  BY <1>1, <1>17 DEF vars
<1>18. CASE Next
  <2>1. ASSUME NEW n \in Node, NEW p \in net, NEW rest, Deliver(n, p, rest)
        PROVE  HandlersAreRemoved'
    BY <1>4, <1>6, <1>14, <2>1 DEF Deliver
  <2>. QED BY <1>3, <1>7, <1>9, <1>10, <1>11, <1>12, <1>13, <1>15, <1>16, <1>18, <2>1 DEF Next
<1>. QED BY <1>17, <1>18

\* No subscription outlives the goroutine that has to remove it, with any
\* number of goroutines mongering with the same peer.
THEOREM HandlersGoAway == Spec => []HandlersAreRemoved
<1>1. Init => HandlersAreRemoved
  BY DEF Init, HandlersAreRemoved, NoHandlers
<1>2. HandlersAreRemoved /\ IInv /\ [Next]_vars => HandlersAreRemoved'
  BY HandlersStep
<1>. QED BY <1>1, <1>2, InOrder, PTL DEF Spec

===============================================================================
