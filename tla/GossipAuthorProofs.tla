-------------------------- MODULE GossipAuthorProofs --------------------------
(***************************************************************************)
(* Authors, the copies of their messages and the log the network keeps of  *)
(* them, for any number of nodes, while no messages.db is deleted.  From   *)
(* the second part on every node serves one post at a time, which is what  *)
(* the page does: it disables its input until the answer comes.            *)
(***************************************************************************)
EXTENDS GossipProofs, Sequences

-----------------------------------------------------------------------------
(* Authors are ahead of the copies of their messages, however many posts *)

\* Where a copy can be
LEMMA WhereCopiesAre ==
    ASSUME NEW m
    PROVE  m \in Copies <=> \/ \E n \in Node : m \in db[n]
                            \/ \E n \in Node, t \in Task : task[n][t] # Idle /\ task[n][t].msg = m
                            \/ \E p \in net : p.kind = "rumor" /\ p.msg = m
BY DEF Copies, Mongered, Rumors

\* If clocks grow and every copy is an old one or a row of its author, the
\* authors stay ahead.
LEMMA AheadGrows ==
    ASSUME StoreAssumption, IInv, StoresInOrder', [Next]_vars, quota.wipe = 0,
           AuthorIsAhead,
           \A m \in Copies' : m \in Copies \/ \E n \in Node : m.origin = n /\ m \in db'[n]
    PROVE  AuthorIsAhead'
<1>0. ASSUME NEW m, NEW n \in Node, m.origin = n, m \in db'[n]
      PROVE  m.id < NextID(db'[m.origin], m.origin)
  <2>1. m.id \in IDs(db'[n], n)
    BY <1>0 DEF IDs
  <2>2. NextID(db'[n], n) \in Nat /\ m.id \in 0 .. NextID(db'[n], n) - 1
    BY <2>1 DEF StoresInOrder, WellFormed, NoGap
  <2>. QED BY <1>0, <2>2
<1>. SUFFICES ASSUME NEW m \in Copies', m \in Copies
              PROVE  m.id < NextID(db'[m.origin], m.origin)
  BY <1>0 DEF AuthorIsAhead
<1>1. m \in Message
  <2>1. ASSUME NEW n \in Node, m \in db[n]
        PROVE  m \in Message
    BY <2>1 DEF IInv, TypeOK
  <2>2. ASSUME NEW n \in Node, NEW t \in Task, task[n][t] # Idle, task[n][t].msg = m
        PROVE  m \in Message
    <3>1. task[n][t] \in TaskState
      BY DEF IInv, TypeOK
    <3>. QED BY <2>2, <3>1, TaskStateParts
  <2>3. ASSUME NEW p \in net, p.kind = "rumor", p.msg = m
        PROVE  m \in Message
    BY <2>3 DEF IInv, TypeOK, Packet
  <2>. QED BY <2>1, <2>2, <2>3, WhereCopiesAre
<1>2. m.origin \in Node /\ m.id \in Nat
  BY <1>1 DEF Message
<1>3. m.id < NextID(db[m.origin], m.origin)
  BY DEF AuthorIsAhead
<1>4. NextID(db'[m.origin], m.origin) >= NextID(db[m.origin], m.origin)
  BY <1>2, ClockStep
<1>5. NextID(db[m.origin], m.origin) \in Nat /\ NextID(db'[m.origin], m.origin) \in Nat
  BY <1>2 DEF IInv, StoresInOrder, WellFormed, NoGap
<1>. QED BY <1>2, <1>3, <1>4, <1>5

\* Monger makes copies of its message only.
LEMMA MongerCopies ==
    ASSUME IInv, NEW n \in Node, NEW k \in Copies, NEW valid \in SUBSET Node,
           NEW handlers, NEW tasks \in [Task -> TaskState], NEW rest, NEW out,
           rest \subseteq net, \A p \in out : p.kind # "rumor",
           \A t \in Task : tasks[t] # Idle => tasks[t] = task[n][t],
           Monger(n, k, valid, handlers, tasks, rest, out)
    PROVE  /\ \A q \in Node, t \in Task : task'[q][t] # Idle => task'[q][t].msg \in Copies
           /\ \A p \in net' : p.kind = "rumor" => p.msg \in Copies
<1>1. \A q \in Node, t \in Task : task[q][t] # Idle => task[q][t].msg \in Copies
  BY WhereCopiesAre
<1>2. \A p \in rest \cup out : p.kind = "rumor" => p.msg \in Copies
  BY WhereCopiesAre
<1>3. CASE valid = {}
  <2>1. net' = rest \cup out /\ task' = [task EXCEPT ![n] = tasks]
    BY <1>3 DEF Monger, Transmit
  <2>. QED BY <1>1, <1>2, <2>1 DEF IInv, TypeOK
<1>4. ASSUME NEW q \in valid, NEW t \in Task,
             StartMongering(n, k, q, t, handlers, tasks, rest, out)
      PROVE  /\ \A r \in Node, u \in Task : task'[r][u] # Idle => task'[r][u].msg \in Copies
             /\ \A p \in net' : p.kind = "rumor" => p.msg \in Copies
  <2>1. /\ net' = rest \cup out \cup {RumorPacket(n, q, k)}
        /\ task' = [task EXCEPT ![n] =
                      [tasks EXCEPT ![t] = [phase |-> "spawned", peer |-> q, msg |-> k]]]
    BY <1>4 DEF StartMongering, Transmit
  <2>2. RumorPacket(n, q, k).msg = k
    BY DEF RumorPacket
  <2>3. \A p \in net' : p.kind = "rumor" => p.msg \in Copies
    BY <1>2, <2>1, <2>2
  <2>4. ASSUME NEW r \in Node, NEW u \in Task, task'[r][u] # Idle
        PROVE  task'[r][u].msg \in Copies
    <3>1. CASE r = n /\ u = t
      BY <2>1, <3>1 DEF IInv, TypeOK
    <3>2. CASE r = n /\ u # t
      BY <1>1, <2>1, <2>4, <3>2 DEF IInv, TypeOK
    <3>3. CASE r # n
      BY <1>1, <2>1, <2>4, <3>3 DEF IInv, TypeOK
    <3>. QED BY <3>1, <3>2, <3>3
  <2>. QED BY <2>3, <2>4
<1>. QED BY <1>3, <1>4 DEF Monger

\* Synchronisation sends copies of stored messages.
LEMMA SynchronizationCopies ==
    ASSUME NEW n \in Node, NEW want, NEW q, NEW p \in Synchronization(n, want, q)
    PROVE  p.msg \in Copies
<1>1. PICK m \in Missing(db[n], want) : p = RumorPacket(n, q, m)
  BY DEF Synchronization
<1>2. m \in db[n]
  BY DEF Missing, GetMessage
<1>. QED BY <1>1, <1>2, WhereCopiesAre DEF RumorPacket

\* A step that keeps the stores makes only copies of what it knows, and new rows
\* of its author.
LEMMA CopiesStep ==
    ASSUME IInv, [Next]_vars, quota.wipe = 0, NEW m \in Copies'
    PROVE  m \in Copies \/ \E n \in Node : m.origin = n /\ m \in db'[n]
<1> DEFINE Old == /\ \A q \in Node, t \in Task :
                        task'[q][t] # Idle => task'[q][t].msg \in Copies
                  /\ \A p \in net' : p.kind = "rumor" => p.msg \in Copies
<1>0. /\ \A q \in Node, t \in Task : task[q][t] # Idle => task[q][t].msg \in Copies
      /\ \A p \in net : p.kind = "rumor" => p.msg \in Copies
      /\ \A q \in Node : db[q] \subseteq Copies
  BY WhereCopiesAre
<1>1. \/ \E n \in Node : m \in db'[n]
      \/ \E n \in Node, t \in Task : task'[n][t] # Idle /\ task'[n][t].msg = m
      \/ \E p \in net' : p.kind = "rumor" /\ p.msg = m
  BY DEF Copies, Mongered, Rumors
<1>2. ASSUME Old, NEW n \in Node, m \in db'[n], m \notin Copies
      PROVE  m.origin = n
  <2>1. CASE UNCHANGED db
    BY <1>0, <1>2, <2>1
  <2>2. ASSUME NEW q \in Node, NEW c \in Client, StoreOwn(q, c)
        PROVE  m.origin = n
    <3> DEFINE k == call[q][c].msg
    <3>1. k.origin = q /\ db' = [db EXCEPT ![q] = InsertOrUpdateMessage(db[q], k)]
      BY <2>2, OwnInOrder
    <3>2. n = q /\ m = k
      BY <1>0, <1>2, <3>1 DEF IInv, TypeOK, InsertOrUpdateMessage
    <3>. QED BY <3>1, <3>2
  <2>3. ASSUME NEW q \in Node, NEW p \in net, NEW rest, AcceptRumor(q, p, rest)
        PROVE  FALSE
    <3>1. p.kind = "rumor" /\ db' = [db EXCEPT ![q] = InsertOrUpdateMessage(db[q], p.msg)]
      BY <2>3, RumorInOrder
    <3>2. db'[n] \subseteq db[n] \cup {p.msg}
      BY <3>1 DEF IInv, TypeOK, InsertOrUpdateMessage
    <3>. QED BY <1>0, <1>2, <3>1, <3>2
  <2>4. ASSUME NEW q \in Node, Restart(q)
        PROVE  m.origin = n
    <3>1. db' = [db EXCEPT ![q] = Launched(q, db[q])]
      BY <2>4 DEF Restart, Relaunch
    <3>2. n = q /\ m = Announcement(q)
      BY <1>0, <1>2, <3>1 DEF IInv, TypeOK, Launched, InsertOrUpdateMessage
    <3>. QED BY <3>2 DEF Announcement
  <2>5. \A q \in Node : ~WipeAndRestart(q)
    BY DEF WipeAndRestart
  <2>. QED BY <2>1, <2>2, <2>3, <2>4, <2>5, StoreChanges
<1>3. ASSUME NEW n \in Node
      PROVE  task[n] \in [Task -> TaskState] /\ peers[n] \in SUBSET Node
  BY DEF IInv, TypeOK
<1>4. ASSUME UNCHANGED task, net' \subseteq net
      PROVE  Old
  BY <1>0, <1>4
<1>5. ASSUME NEW n \in Node, NEW c \in Client, SpreadOwn(n, c)
      PROVE  Old
  <2>1. PICK k \in db[n] : Monger(n, k, peers[n], subs[n], task[n], net, {})
    BY <1>5 DEF SpreadOwn, GetMessage
  <2>2. k \in Copies
    BY <1>0
  <2>. QED BY <1>3, <2>1, <2>2, MongerCopies
<1>6. ASSUME NEW n \in Node, NEW p \in net, NEW rest, Deliver(n, p, rest)
      PROVE  Old
  <2>0. rest \subseteq net /\ p.from \in Node
    BY <1>6 DEF Deliver, DropRumor, AcknowledgeRumor, AcceptRumor, ForwardStatus,
                AnswerStatus, Receives, IInv, TypeOK, Packet
  <2>1. CASE DropRumor(n, p, rest)
    BY <1>4, <2>0, <2>1 DEF DropRumor, Transmit
  <2>2. CASE AcknowledgeRumor(n, p, rest)
    BY <1>0, <2>0, <2>2 DEF AcknowledgeRumor, Transmit, StatusPacket
  <2>3. CASE AcceptRumor(n, p, rest)
    <3>1. p.msg \in Copies
      BY <1>0, <2>3 DEF AcceptRumor
    <3>2. Monger(n, p.msg, peers[n] \ {p.from}, subs[n], task[n], rest,
                 {StatusPacket(n, p.from, VectorClock(db'[n]))})
      BY <2>3 DEF AcceptRumor
    <3>3. peers[n] \ {p.from} \in SUBSET Node
      BY <1>3
    <3>4. StatusPacket(n, p.from, VectorClock(db'[n])).kind # "rumor"
      BY DEF StatusPacket
    <3>. QED BY <1>3, <2>0, <3>1, <3>2, <3>3, <3>4, MongerCopies
  <2>4. CASE ForwardStatus(n, p, rest)
    <3>1. net' = rest
      BY <2>4 DEF ForwardStatus, Transmit
    <3>2. CASE UNCHANGED task
      BY <1>0, <2>0, <3>1, <3>2
    <3>3. CASE /\ task[n][subs[n][p.from]].phase = "waiting"
               /\ task' = [task EXCEPT ![n][subs[n][p.from]] =
                            [phase |-> "answered", peer |-> task[n][subs[n][p.from]].peer,
                             msg |-> task[n][subs[n][p.from]].msg, want |-> p.want]]
      <4>1. task[n][subs[n][p.from]] # Idle
        BY <3>3 DEF Idle
      <4>2. subs[n][p.from] \in Task
        BY <2>0, <2>4 DEF ForwardStatus, IInv, TypeOK
      <4>3. ASSUME NEW q \in Node, NEW t \in Task, task'[q][t] # Idle
            PROVE  task'[q][t].msg \in Copies
        BY <1>0, <3>3, <4>1, <4>2, <4>3 DEF IInv, TypeOK
      <4>. QED BY <1>0, <2>0, <3>1, <4>3
    <3>. QED BY <2>4, <3>2, <3>3 DEF ForwardStatus
  <2>5. CASE AnswerStatus(n, p, rest)
    <3>1. UNCHANGED task /\ net' = rest \cup Synchronization(n, p.want, p.from)
      BY <2>5 DEF AnswerStatus, Transmit
    <3>. QED BY <1>0, <2>0, <3>1, SynchronizationCopies
  <2>. QED BY <1>6, <2>1, <2>2, <2>3, <2>4, <2>5 DEF Deliver
<1>7. ASSUME NEW n \in Node, NEW t \in Task, EnterSelect(n, t) \/ TimeOut(n, t)
      PROVE  Old
  <2>1. task[n][t] \in TaskState /\ task[n][t] # Idle
    BY <1>3, <1>7 DEF EnterSelect, TimeOut, Idle
  <2>2. PICK ph \in {"waiting", "timedout"} :
          task' = [task EXCEPT ![n][t] = [task[n][t] EXCEPT !.phase = ph]]
    BY <1>7 DEF EnterSelect, TimeOut, IInv, TypeOK
  <2>3. [task[n][t] EXCEPT !.phase = ph].msg = task[n][t].msg
    BY <2>1 DEF TaskState, Idle
  <2>4. UNCHANGED net
    BY <1>7 DEF EnterSelect, TimeOut
  <2>5. \A q \in Node, u \in Task : task'[q][u] # Idle => task'[q][u].msg \in Copies
    BY <1>0, <2>1, <2>2, <2>3 DEF IInv, TypeOK
  <2>. QED BY <1>0, <2>4, <2>5
<1>8. ASSUME NEW n \in Node, NEW t \in Task, FinishMongering(n, t)
      PROVE  Old
  BY <1>0, <1>8 DEF FinishMongering, IInv, TypeOK
<1>9. ASSUME NEW n \in Node, NEW t \in Task, SynchronizePeer(n, t)
      PROVE  Old
  <2>1. /\ task' = [task EXCEPT ![n][t] = Idle]
        /\ net' = net \cup Synchronization(n, task[n][t].want, task[n][t].peer)
    BY <1>9 DEF SynchronizePeer, Transmit
  <2>2. \A q \in Node, u \in Task : task'[q][u] # Idle => task'[q][u].msg \in Copies
    BY <1>0, <2>1 DEF IInv, TypeOK
  <2>. QED BY <1>0, <2>1, <2>2, SynchronizationCopies
<1>10. ASSUME NEW n \in Node, NEW t \in Task, ContinueMongering(n, t)
       PROVE  Old
  <2>1. task[n][t] # Idle
    BY <1>10 DEF ContinueMongering, CoinIsFlipped, Idle
  <2>2. task[n][t].msg \in Copies
    BY <1>0, <2>1
  <2>3. Monger(n, task[n][t].msg, peers[n] \ {task[n][t].peer}, Unsubscribed(n, t),
               [task[n] EXCEPT ![t] = Idle], net, {})
    BY <1>10 DEF ContinueMongering
  <2>4. peers[n] \ {task[n][t].peer} \in SUBSET Node
    BY <1>3
  <2>5. /\ [task[n] EXCEPT ![t] = Idle] \in [Task -> TaskState]
        /\ \A u \in Task : [task[n] EXCEPT ![t] = Idle][u] # Idle
                            => [task[n] EXCEPT ![t] = Idle][u] = task[n][u]
    BY <1>3 DEF TaskState
  <2>. QED BY <2>2, <2>3, <2>4, <2>5, MongerCopies
<1>11. ASSUME NEW n \in Node, NEW q \in Node, AntiEntropy(n, q)
       PROVE  Old
  BY <1>0, <1>11 DEF AntiEntropy, Transmit, StatusPacket
<1>12. ASSUME NEW n \in Node, Restart(n) \/ WipeAndRestart(n)
       PROVE  Old
  <2>1. UNCHANGED net /\ task' = [task EXCEPT ![n] = NoTasks]
    BY <1>12 DEF Restart, WipeAndRestart, Relaunch
  <2>2. \A q \in Node, u \in Task : task'[q][u] # Idle => task'[q][u] = task[q][u]
    BY <2>1 DEF IInv, TypeOK, NoTasks
  <2>. QED BY <1>0, <2>1, <2>2
<1>13. ASSUME NEW n \in Node, NEW c \in Client, NEW b \in fresh,
              Compose(n, c, b) \/ RefusePrivate(n, c, b)
       PROVE  Old
  BY <1>4, <1>13 DEF Compose, RefusePrivate
<1>14. ASSUME NEW n \in Node, NEW c \in Client, StoreOwn(n, c)
       PROVE  Old
  BY <1>4, <1>14 DEF StoreOwn
<1>15. ASSUME NEW n \in Node, NEW q \in Node, TogglePeer(n, q)
       PROVE  Old
  BY <1>4, <1>15 DEF TogglePeer
<1>16. ASSUME NEW p \in net, Lose(p)
       PROVE  Old
  BY <1>4, <1>16 DEF Lose
<1>17. CASE UNCHANGED vars
  <2>1. Old
    BY <1>4, <1>17 DEF vars
  <2>. QED BY <1>1, <1>2, <2>1
<1>18. CASE Next
  <2>1. Old
    <3>. HIDE DEF Old
    <3>. QED BY <1>5, <1>6, <1>7, <1>8, <1>9, <1>10, <1>11, <1>12, <1>13, <1>14, <1>15,
                <1>16, <1>18 DEF Next
  <2>. QED BY <1>1, <1>2, <2>1
<1>. QED BY <1>17, <1>18

\* The databases of a first launch come from earlier runs in which nobody
\* lost a database either, so no node holds a message its author does not.
LEMMA AheadAtFirst ==
    ASSUME StoreAssumption, GossipAssumption, Init,
           \A n \in Node : \A m \in Stored[n] : m.id < NextID(Stored[m.origin], m.origin)
    PROVE  AuthorIsAhead
<1>1. SUFFICES ASSUME NEW m \in Copies
               PROVE  m.id < NextID(db[m.origin], m.origin)
  BY DEF AuthorIsAhead
<1>2. PICK n \in Node : m \in db[n]
  BY WhereCopiesAre DEF Init, NoTasks
<1>3. CASE m \in Stored[n]
  <2>1. m \in Message
    BY <1>3 DEF GossipAssumption
  <2>2. m.origin \in Node /\ m.id \in Nat
    BY <2>1 DEF Message
  <2>3. /\ NextID(Launched(m.origin, Stored[m.origin]), m.origin)
              >= NextID(Stored[m.origin], m.origin)
        /\ WellFormed(Launched(m.origin, Stored[m.origin]))
        /\ WellFormed(Stored[m.origin])
    BY <2>2, LaunchInOrder DEF GossipAssumption
  <2>4. /\ NextID(Launched(m.origin, Stored[m.origin]), m.origin) \in Nat
        /\ NextID(Stored[m.origin], m.origin) \in Nat
    BY <2>2, <2>3 DEF WellFormed, NoGap
  <2>. QED BY <1>3, <2>2, <2>3, <2>4 DEF Init
<1>4. CASE m \notin Stored[n]
  <2>1. m = Announcement(n)
    BY <1>2, <1>4 DEF Init, Launched, InsertOrUpdateMessage
  <2>2. NextID(Launched(n, Stored[n]), n) > 0
    BY LaunchInOrder DEF GossipAssumption
  <2>. QED BY <2>1, <2>2 DEF Init, Announcement
<1>. QED BY <1>3, <1>4

\* While no messages.db is deleted, no message exists anywhere whose ID its
\* author could issue again: through crashes, losses, duplicates, and any
\* number of posts at a time.
THEOREM AuthorsAreAhead ==
    ASSUME MaxWipe = 0,
           \A n \in Node : \A m \in Stored[n] : m.id < NextID(Stored[m.origin], m.origin)
    PROVE  Spec => []AuthorIsAhead
<1>1. Init => AuthorIsAhead
  BY AheadAtFirst, StoreAssumption, GossipAssumption
<1>2. AuthorIsAhead /\ IInv /\ IInv' /\ quota.wipe = 0 /\ [Next]_vars => AuthorIsAhead'
  BY AheadGrows, CopiesStep, StoreAssumption DEF IInv
<1>3. Spec => [](quota.wipe = 0)
  BY NoWipe, GossipAssumption
<1>. QED BY <1>1, <1>2, <1>3, InOrder, PTL DEF Spec
-----------------------------------------------------------------------------
(* Authors keep their messages *)

OnePost == \A c, d \in Client : c = d

\* No database is older than a message of its node that another one has.
NothingLost == \A n \in Node : \A m \in Stored[n] : m \in Stored[m.origin]

\* Every node has its announcement, since its launch.
Announced == \A n \in Node : NextID(db[n], n) > 0

\* The post of a node has the ID that comes next, and fits its difficulty.
PostIsNext ==
    \A n \in Node, c \in Client :
        call[n][c].phase = "pow" => /\ call[n][c].msg.id = NextID(db[n], n)
                                    /\ SanityCheck(n, call[n][c].msg)

PostIsStored ==
    \A n \in Node, c \in Client : call[n][c].phase = "stored" => call[n][c].msg \in db[n]

KeptInv == AuthorKeepsEverything /\ Announced /\ PostIsNext /\ PostIsStored

-----------------------------------------------------------------------------

\* A row that is there is not disturbed by itself, nor by one of another origin.
LEMMA InsertKeeps ==
    ASSUME NEW store, WellFormed(store), NEW o \in Node, NEW m \in Message,
           m.origin = o => m \in store
    PROVE  LET new == InsertOrUpdateMessage(store, m) IN
           /\ \A k \in store : k.origin = o => k \in new
           /\ NextID(new, o) = NextID(store, o)
<1> DEFINE new == InsertOrUpdateMessage(store, m)
<1>1. CASE m.origin = o
  <2>1. new = store
    BY <1>1 DEF InsertOrUpdateMessage, GetMessage, WellFormed, OneRowPerID
  <2>. QED BY <2>1
<1>2. CASE m.origin # o
  <2>1. \A k \in store : k.origin = o => k \in new
    BY <1>2 DEF InsertOrUpdateMessage, GetMessage
  <2>2. IDs(new, o) = IDs(store, o)
    BY <1>2, IDsAfterInsert
  <2>. QED BY <2>1, <2>2 DEF NextID
<1>. QED BY <1>1, <1>2

\* The next message of a node disturbs none.
LEMMA InsertNext ==
    ASSUME NEW store, WellFormed(store), NEW m \in Message, m.id = NextID(store, m.origin)
    PROVE  /\ \A k \in store : k \in InsertOrUpdateMessage(store, m)
           /\ m \in InsertOrUpdateMessage(store, m)
           /\ NextID(InsertOrUpdateMessage(store, m), m.origin) > 0
<1>1. m.origin \in Node /\ m.id \in Nat
  BY DEF Message
<1>2. NextID(store, m.origin) \notin IDs(store, m.origin)
  BY <1>1 DEF WellFormed, NoGap
<1>3. GetMessage(store, m.origin, m.id) = {}
  BY <1>2 DEF GetMessage, IDs
<1>4. InsertOrUpdateMessage(store, m) = store \cup {m}
  BY <1>3 DEF InsertOrUpdateMessage
<1>5. NextID(InsertOrUpdateMessage(store, m), m.origin) > 0
  <2>1. /\ WellFormed(InsertOrUpdateMessage(store, m))
        /\ m.id < NextID(InsertOrUpdateMessage(store, m), m.origin)
    BY <1>1, InsertInOrder
  <2>2. NextID(InsertOrUpdateMessage(store, m), m.origin) \in Nat
    BY <1>1, <2>1 DEF WellFormed, NoGap
  <2>. QED BY <1>1, <2>1, <2>2
<1>. QED BY <1>4, <1>5

\* The rows of a node in its own database: all stay, and there is a new one only
\* when a post is stored.
LEMMA OwnRowsStay ==
    ASSUME StoreAssumption, IInv, KeptInv, [Next]_vars, quota.wipe = 0, NEW n \in Node
    PROVE  /\ \A m \in db[n] : m.origin = n => m \in db'[n]
           /\ NextID(db'[n], n) > 0
           /\ NextID(db'[n], n) = NextID(db[n], n) \/ \E c \in Client : StoreOwn(n, c)
<1>. WellFormed(db[n]) /\ NextID(db[n], n) > 0
  BY DEF IInv, StoresInOrder, KeptInv, Announced
<1>1. CASE db'[n] = db[n]
  BY <1>1
<1>2. ASSUME NEW c \in Client, StoreOwn(n, c)
      PROVE  (\A m \in db[n] : m \in db'[n]) /\ NextID(db'[n], n) > 0
  <2> DEFINE k == call[n][c].msg
  <2>1. k \in Message /\ k.origin = n /\ db' = [db EXCEPT ![n] = InsertOrUpdateMessage(db[n], k)]
    BY <1>2, OwnInOrder
  <2>2. k.id = NextID(db[n], n)
    BY <1>2 DEF StoreOwn, KeptInv, PostIsNext
  <2>3. db'[n] = InsertOrUpdateMessage(db[n], k)
    BY <2>1 DEF IInv, TypeOK
  <2>. QED BY <2>1, <2>2, <2>3, InsertNext
<1>3. ASSUME NEW q \in Node, NEW c \in Client, StoreOwn(q, c), q # n
      PROVE  db'[n] = db[n]
  BY <1>3 DEF StoreOwn, IInv, TypeOK
<1>4. ASSUME NEW q \in Node, NEW p \in net, NEW rest, AcceptRumor(q, p, rest)
      PROVE  /\ \A m \in db[n] : m.origin = n => m \in db'[n]
             /\ NextID(db'[n], n) = NextID(db[n], n)
  <2>1. /\ p.kind = "rumor" /\ p.msg \in Message
        /\ db' = [db EXCEPT ![q] = InsertOrUpdateMessage(db[q], p.msg)]
    BY <1>4, RumorInOrder
  <2>2. p.msg \in db[p.msg.origin]
    BY <2>1, WhereCopiesAre DEF KeptInv, AuthorKeepsEverything
  <2>3. CASE q = n
    <3>1. db'[n] = InsertOrUpdateMessage(db[n], p.msg)
      BY <2>1, <2>3 DEF IInv, TypeOK
    <3>. QED BY <2>1, <2>2, <3>1, InsertKeeps
  <2>4. CASE q # n
    BY <2>1, <2>4 DEF IInv, TypeOK
  <2>. QED BY <2>3, <2>4
<1>5. ASSUME NEW q \in Node, Restart(q)
      PROVE  db'[n] = db[n]
  <2>1. db' = [db EXCEPT ![q] = Launched(q, db[q])]
    BY <1>5 DEF Restart, Relaunch
  <2>2. Launched(n, db[n]) = db[n]
    BY DEF Launched
  <2>. QED BY <2>1, <2>2 DEF IInv, TypeOK
<1>6. \A q \in Node : ~WipeAndRestart(q)
  BY DEF WipeAndRestart
<1>7. ASSUME NEW q \in Node, NEW c \in Client, StoreOwn(q, c)
      PROVE  /\ \A m \in db[n] : m.origin = n => m \in db'[n]
             /\ NextID(db'[n], n) > 0
             /\ NextID(db'[n], n) = NextID(db[n], n) \/ StoreOwn(n, c)
  BY <1>2, <1>3, <1>7
<1>. QED BY <1>1, <1>4, <1>5, <1>6, <1>7, StoreChanges

\* Steps that neither take an ID nor store a post leave the posts alone, or end
\* them.
LEMMA PostChanges ==
    ASSUME IInv, [Next]_vars, NEW n \in Node, NEW c \in Client, call'[n][c] # Idle
    PROVE  \/ call'[n][c] = call[n][c] /\ ~StoreOwn(n, c)
           \/ \E b \in fresh : Compose(n, c, b)
           \/ StoreOwn(n, c)
<1>1. ASSUME NEW q \in Node, NEW d \in Client, NEW b \in fresh, Compose(q, d, b), q # n \/ d # c
      PROVE  call'[n][c] = call[n][c]
  BY <1>1 DEF Compose, IInv, TypeOK
<1>2. ASSUME NEW q \in Node, NEW d \in Client, StoreOwn(q, d), q # n \/ d # c
      PROVE  call'[n][c] = call[n][c]
  <2>1. call' = [call EXCEPT ![q] = [call[q] EXCEPT ![d] = [call[q][d] EXCEPT !.phase = "stored"]]]
    BY <1>2 DEF StoreOwn
  <2>. QED BY <1>2, <2>1 DEF IInv, TypeOK
<1>3. ASSUME NEW q \in Node, NEW d \in Client, SpreadOwn(q, d)
      PROVE  call'[n][c] = call[n][c]
  <2>1. call' = [call EXCEPT ![q] = [call[q] EXCEPT ![d] = Idle]]
    BY <1>3 DEF SpreadOwn
  <2>. QED BY <2>1 DEF IInv, TypeOK
<1>4. ASSUME NEW q \in Node, Restart(q) \/ WipeAndRestart(q)
      PROVE  call'[n][c] = call[n][c]
  <2>1. call' = [call EXCEPT ![q] = NoCalls]
    BY <1>4 DEF Restart, WipeAndRestart, Relaunch
  <2>. QED BY <2>1 DEF IInv, TypeOK, NoCalls
<1>5. ASSUME NEW q \in Node, NEW p \in net, NEW rest, Deliver(q, p, rest)
      PROVE  UNCHANGED call
  BY <1>5 DEF Deliver, DropRumor, AcknowledgeRumor, AcceptRumor, ForwardStatus, AnswerStatus
<1>6. ASSUME NEW q \in Node, NEW t \in Task,
             \/ EnterSelect(q, t) \/ TimeOut(q, t) \/ FinishMongering(q, t)
             \/ ContinueMongering(q, t) \/ SynchronizePeer(q, t)
      PROVE  UNCHANGED call
  BY <1>6 DEF EnterSelect, TimeOut, FinishMongering, ContinueMongering, SynchronizePeer
<1>7. ASSUME NEW q \in Node, NEW r \in Node, AntiEntropy(q, r) \/ TogglePeer(q, r)
      PROVE  UNCHANGED call
  BY <1>7 DEF AntiEntropy, TogglePeer
<1>8. ASSUME NEW p \in net, Lose(p)
      PROVE  UNCHANGED call
  BY <1>8 DEF Lose
<1>9. ASSUME NEW q \in Node, NEW d \in Client, NEW b \in fresh, RefusePrivate(q, d, b)
      PROVE  UNCHANGED call
  BY <1>9 DEF RefusePrivate
<1>10. CASE UNCHANGED vars
  BY <1>10 DEF vars
<1>11. CASE Next
  BY <1>1, <1>2, <1>3, <1>4, <1>5, <1>6, <1>7, <1>8, <1>9, <1>11 DEF Next
<1>. QED BY <1>10, <1>11

LEMMA KeptStep ==
    ASSUME StoreAssumption, OnePost, IInv, IInv', KeptInv, [Next]_vars, quota.wipe = 0
    PROVE  KeptInv'
<1>1. AuthorKeepsEverything'
  <2>1. ASSUME NEW m \in Copies'
        PROVE  m \in db'[m.origin]
    <3>1. CASE m \in Copies
      <4>1. m \in db[m.origin]
        BY <3>1 DEF KeptInv, AuthorKeepsEverything
      <4>2. m.origin \in Node
        <5>1. ASSUME NEW n \in Node, m \in db[n]
              PROVE  m.origin \in Node
          BY <5>1 DEF IInv, TypeOK, Message
        <5>2. ASSUME NEW n \in Node, NEW t \in Task, task[n][t] # Idle, task[n][t].msg = m
              PROVE  m.origin \in Node
          <6>1. task[n][t] \in TaskState
            BY DEF IInv, TypeOK
          <6>. QED BY <5>2, <6>1, TaskStateParts DEF Message
        <5>3. ASSUME NEW p \in net, p.kind = "rumor", p.msg = m
              PROVE  m.origin \in Node
          BY <5>3 DEF IInv, TypeOK, Packet, Message
        <5>. QED BY <3>1, <5>1, <5>2, <5>3, WhereCopiesAre
      <4>. QED BY <4>1, <4>2, OwnRowsStay
    <3>2. CASE m \notin Copies
      BY <3>2, CopiesStep
    <3>. QED BY <3>1, <3>2
  <2>. QED BY <2>1 DEF AuthorKeepsEverything
<1>2. Announced'
  BY OwnRowsStay DEF Announced
<1>3. ASSUME NEW n \in Node, NEW c \in Client, NEW b \in fresh, Compose(n, c, b)
      PROVE  /\ call'[n][c].phase = "pow" /\ call'[n][c].msg.id = NextID(db'[n], n)
             /\ SanityCheck(n, call'[n][c].msg)
  <2>1. /\ call' = [call EXCEPT ![n] = [call[n] EXCEPT ![c] =
                      [phase |-> "pow",
                       msg |-> [origin |-> n, id |-> NextID(db[n], n), body |-> b]]]]
        /\ Zeros[b] >= PowTarget[n] /\ UNCHANGED db
    BY <1>3 DEF Compose
  <2>2. call'[n][c] = [phase |-> "pow",
                       msg |-> [origin |-> n, id |-> NextID(db[n], n), body |-> b]]
    BY <2>1 DEF IInv, TypeOK
  <2>. QED BY <2>1, <2>2 DEF SanityCheck
<1>4. ASSUME NEW n \in Node, NEW c \in Client, StoreOwn(n, c)
      PROVE  call'[n][c].phase = "stored" /\ call'[n][c].msg \in db'[n]
  <2>1. /\ call' = [call EXCEPT ![n] = [call[n] EXCEPT ![c] = [call[n][c] EXCEPT !.phase = "stored"]]]
        /\ db' = [db EXCEPT ![n] = InsertOrUpdateMessage(db[n], call[n][c].msg)]
    BY <1>4 DEF StoreOwn
  <2>2. call[n][c] \in CallState /\ call[n][c] # Idle
    BY <1>4 DEF StoreOwn, IInv, TypeOK, Idle
  <2>3. call'[n][c].phase = "stored" /\ call'[n][c].msg = call[n][c].msg
    BY <2>1, <2>2 DEF IInv, TypeOK, CallState, Idle
  <2>. QED BY <2>1, <2>3 DEF IInv, TypeOK, InsertOrUpdateMessage
<1>5. ASSUME NEW n \in Node, NEW c \in Client, call'[n][c] = call[n][c], ~StoreOwn(n, c)
      PROVE  NextID(db'[n], n) = NextID(db[n], n)
  <2>1. \A d \in Client : ~StoreOwn(n, d)
    BY <1>5 DEF OnePost
  <2>. QED BY <2>1, OwnRowsStay
<1>6. PostIsNext'
  <2>1. ASSUME NEW n \in Node, NEW c \in Client, call'[n][c].phase = "pow"
        PROVE  call'[n][c].msg.id = NextID(db'[n], n) /\ SanityCheck(n, call'[n][c].msg)
    <3>1. call'[n][c] # Idle
      BY <2>1 DEF Idle
    <3>2. CASE call'[n][c] = call[n][c] /\ ~StoreOwn(n, c)
      BY <1>5, <2>1, <3>2 DEF KeptInv, PostIsNext
    <3>3. ~StoreOwn(n, c)
      BY <1>4, <2>1
    <3>. QED BY <1>3, <3>1, <3>2, <3>3, PostChanges
  <2>. QED BY <2>1 DEF PostIsNext, SanityCheck
<1>7. PostIsStored'
  <2>1. ASSUME NEW n \in Node, NEW c \in Client, call'[n][c].phase = "stored"
        PROVE  call'[n][c].msg \in db'[n]
    <3>1. call'[n][c] # Idle
      BY <2>1 DEF Idle
    <3>2. CASE call'[n][c] = call[n][c]
      <4>1. call[n][c].msg \in db[n] /\ call[n][c].msg.origin = n
        BY <2>1, <3>1, <3>2 DEF KeptInv, PostIsStored, IInv, CallsInOrder
      <4>. QED BY <3>2, <4>1, OwnRowsStay
    <3>. QED BY <1>3, <1>4, <2>1, <3>1, <3>2, PostChanges
  <2>. QED BY <2>1 DEF PostIsStored
<1>. QED BY <1>1, <1>2, <1>6, <1>7 DEF KeptInv

LEMMA KeptAtFirst ==
    ASSUME StoreAssumption, GossipAssumption, NothingLost, Init
    PROVE  KeptInv
<1>1. \A n \in Node : db[n] = Launched(n, Stored[n]) /\ WellFormed(Stored[n])
  BY DEF Init, GossipAssumption
<1>2. Announced
  BY <1>1, LaunchInOrder DEF Announced
<1>3. ASSUME NEW m \in Copies PROVE m \in db[m.origin]
  <2>1. PICK n \in Node : m \in db[n]
    BY WhereCopiesAre DEF Init, NoTasks
  <2>2. CASE m \in Stored[n]
    <3>1. m \in Stored[m.origin] /\ m.origin \in Node
      BY <2>2 DEF NothingLost, GossipAssumption, Message
    <3>2. NextID(Stored[m.origin], m.origin) # 0
      <4>1. m.id \in IDs(Stored[m.origin], m.origin)
        BY <3>1 DEF IDs
      <4>. QED BY <1>1, <3>1, <4>1 DEF WellFormed, NoGap
    <3>. QED BY <1>1, <3>1, <3>2 DEF Launched
  <2>3. CASE m \notin Stored[n]
    <3>1. m = Announcement(n)
      BY <1>1, <2>1, <2>3 DEF Launched, InsertOrUpdateMessage
    <3>. QED BY <2>1, <3>1 DEF Announcement
  <2>. QED BY <2>2, <2>3
<1>4. PostIsNext /\ PostIsStored
  BY DEF Init, NoCalls, Idle, PostIsNext, PostIsStored
<1>. QED BY <1>2, <1>3, <1>4 DEF KeptInv, AuthorKeepsEverything

LEMMA Kept ==
    ASSUME OnePost, NothingLost, MaxWipe = 0
    PROVE  Spec => []KeptInv
<1>1. Init => KeptInv
  BY KeptAtFirst, StoreAssumption, GossipAssumption
<1>2. KeptInv /\ IInv /\ IInv' /\ quota.wipe = 0 /\ [Next]_vars => KeptInv'
  BY KeptStep, StoreAssumption
<1>3. Spec => [](quota.wipe = 0)
  BY NoWipe, GossipAssumption
<1>. QED BY <1>1, <1>2, <1>3, InOrder, PTL DEF Spec

-----------------------------------------------------------------------------

\* With one post at a time and every messages.db left in place, whatever exists
\* anywhere under the name of a node is a row of its own database, through
\* crashes, losses and duplicates: no node ends with a version its author would
\* not give out, and the conflict rule of context.go:170 never replaces an own row.
THEOREM AuthorsKeepTheirMessages ==
    ASSUME OnePost, NothingLost, MaxWipe = 0
    PROVE  Spec => []AuthorKeepsEverything
BY Kept, PTL DEF KeptInv

\* Under the same assumptions the ID AddNewMessage returns is that of the message
\* that was posted, and the check before the panic of context.go:109 succeeds.
THEOREM PostsAreStored ==
    ASSUME OnePost, NothingLost, MaxWipe = 0
    PROVE  Spec => []PostedMessageIsStored
<1>1. ASSUME IInv, KeptInv
      PROVE  PostedMessageIsStored
  <2>1. ASSUME NEW n \in Node, NEW c \in Client, call[n][c].phase = "pow"
        PROVE  VerifyMessage(n, db[n], call[n][c].msg)
    <3>1. /\ call[n][c].msg.origin = n /\ call[n][c].msg.id = NextID(db[n], n)
          /\ SanityCheck(n, call[n][c].msg) /\ WellFormed(db[n]) /\ NextID(db[n], n) > 0
      BY <1>1, <2>1 DEF KeptInv, PostIsNext, Announced, IInv, CallsInOrder, StoresInOrder, Idle
    <3>2. 0 \in 0 .. NextID(db[n], n) - 1
      BY <3>1 DEF WellFormed, NoGap
    <3>3. KeyKnown(db[n], n)
      BY <3>1, <3>2, ExactlyOne DEF KeyKnown
    <3>. QED BY <3>1, <3>3 DEF VerifyMessage
  <2>. QED BY <1>1, <2>1 DEF PostedMessageIsStored, KeptInv, PostIsStored
<1>. QED BY <1>1, InOrder, Kept, PTL
-----------------------------------------------------------------------------
(* The network implements a replicated log *)

logs == [n \in Node |-> [o \in Node |-> LogOf(db[n], o)]]

\* The row that has an ID is the only one.
LEMMA RowIsTheOne ==
    ASSUME NEW store, WellFormed(store), NEW o \in Node, NEW m \in store, m.origin = o
    PROVE  /\ m.id \in 0 .. NextID(store, o) - 1
           /\ Row(store, o, m.id) = m
<1>1. m.id \in IDs(store, o)
  BY DEF IDs
<1>2. m.id \in 0 .. NextID(store, o) - 1
  BY <1>1 DEF WellFormed, NoGap
<1>3. GetMessage(store, o, m.id) = {m}
  BY DEF GetMessage, WellFormed, OneRowPerID
<1>. QED BY <1>2, <1>3 DEF Row

LEMMA RowIsThere ==
    ASSUME NEW store, WellFormed(store), NEW o \in Node, NEW i \in 0 .. NextID(store, o) - 1
    PROVE  /\ Row(store, o, i) \in store
           /\ Row(store, o, i).origin = o /\ Row(store, o, i).id = i
<1>1. PICK m \in store : GetMessage(store, o, i) = {m}
  BY ExactlyOne
<1>2. Row(store, o, i) = m
  BY <1>1 DEF Row
<1>. QED BY <1>1, <1>2 DEF GetMessage

LEMMA LogIsSeq ==
    ASSUME NEW store \in SUBSET Message, WellFormed(store), NEW o \in Node
    PROVE  /\ LogOf(store, o) \in Seq(Body)
           /\ Len(LogOf(store, o)) = NextID(store, o)
<1>1. NextID(store, o) \in Nat
  BY DEF WellFormed, NoGap
<1>2. ASSUME NEW i \in 1 .. NextID(store, o)
      PROVE  Row(store, o, i - 1).body \in Body
  <2>1. i - 1 \in 0 .. NextID(store, o) - 1
    BY <1>1
  <2>2. Row(store, o, i - 1) \in Message
    BY <2>1, RowIsThere
  <2>. QED BY <2>2 DEF Message
<1>. QED BY <1>1, <1>2 DEF LogOf

\* The next message of an origin becomes the last entry of its log.
LEMMA InsertAppends ==
    ASSUME NEW store \in SUBSET Message, WellFormed(store), NEW m \in Message,
           m.id = NextID(store, m.origin), NEW o \in Node
    PROVE  LogOf(InsertOrUpdateMessage(store, m), o) =
             IF o = m.origin THEN Append(LogOf(store, o), m.body) ELSE LogOf(store, o)
<1> DEFINE new == InsertOrUpdateMessage(store, m)
<1>1. m.origin \in Node /\ m.id \in Nat /\ NextID(store, o) \in Nat
  BY DEF Message, WellFormed, NoGap
<1>2. m.id <= NextID(store, m.origin)
  BY <1>1
<1>3. WellFormed(new)
  BY <1>2, InsertInOrder
<1>4. (\A k \in store : k \in new) /\ m \in new
  BY InsertNext
<1>5. ASSUME NEW i \in 0 .. NextID(store, o) - 1
      PROVE  Row(new, o, i) = Row(store, o, i)
  <2> DEFINE k == Row(store, o, i)
  <2>1. k \in store /\ k.origin = o /\ k.id = i
    BY RowIsThere
  <2>2. k \in new
    BY <1>4, <2>1
  <2>. HIDE DEF k, new
  <2>3. Row(new, o, k.id) = k
    BY <1>3, <2>1, <2>2, RowIsTheOne
  <2>. QED BY <2>1, <2>3 DEF k
<1>6. CASE o # m.origin
  <2>1. IDs(new, o) = IDs(store, o)
    BY <1>6, IDsAfterInsert
  <2>2. NextID(new, o) = NextID(store, o)
    BY <2>1 DEF NextID
  <2>. HIDE DEF new
  <2>3. \A i \in 1 .. NextID(store, o) : i - 1 \in 0 .. NextID(store, o) - 1
    BY <1>1
  <2>4. \A i \in 1 .. NextID(store, o) : Row(new, o, i - 1) = Row(store, o, i - 1)
    BY <1>5, <2>3
  <2>5. LogOf(new, o) = LogOf(store, o)
    BY <2>2, <2>4 DEF LogOf
  <2>. QED BY <1>6, <2>5 DEF new
<1>7. CASE o = m.origin
  <2>1. IDs(new, o) = IDs(store, o) \cup {m.id} /\ IDs(store, o) = 0 .. NextID(store, o) - 1
    BY <1>7, IDsAfterInsert DEF WellFormed, NoGap
  <2>2. IDs(new, o) = 0 .. (NextID(store, o) + 1) - 1
    BY <1>1, <1>7, <2>1
  <2>3. NextID(new, o) = NextID(store, o) + 1
    BY <1>1, <2>2, NextIDOfRange
  <2>4. Row(new, o, m.id) = m
    BY <1>3, <1>4, <1>7, RowIsTheOne
  <2> DEFINE N == NextID(store, o)
             old == LogOf(store, o)
             log == LogOf(new, o)
  <2>5. log = [i \in 1 .. N + 1 |-> Row(new, o, i - 1).body]
    BY <2>3 DEF LogOf
  <2>6. old \in Seq(Body) /\ Len(old) = N /\ m.body \in Body
    BY LogIsSeq DEF Message
  <2>7. old = [i \in 1 .. N |-> Row(store, o, i - 1).body]
    BY DEF LogOf
  <2>8. N \in Nat /\ m.id = N
    BY <1>1, <1>7
  <2>9. \A i \in 1 .. N : Row(new, o, i - 1) = Row(store, o, i - 1)
    <3>1. \A i \in 1 .. N : i - 1 \in 0 .. N - 1
      BY <2>8
    <3>. QED BY <1>5, <3>1
  <2>10. Row(new, o, (N + 1) - 1).body = m.body
    <3>1. (N + 1) - 1 = m.id
      BY <2>8
    <3>. QED BY <2>4, <3>1
  <2>. HIDE DEF N, old, log, new
  <2>11. \A i \in 1 .. N : log[i] = old[i]
    BY <2>5, <2>7, <2>8, <2>9
  <2>12. log[N + 1] = m.body
    BY <2>5, <2>8, <2>10
  <2>13. log \in Seq(Body) /\ Len(log) = N + 1
    <3>1. \A i \in 1 .. N + 1 : log[i] \in Body
      <4>1. \A i \in 1 .. N : old[i] \in Body
        BY <2>6, <2>8
      <4>2. \A i \in 1 .. N + 1 : i \in 1 .. N \/ i = N + 1
        BY <2>8
      <4>. QED BY <2>6, <2>11, <2>12, <4>1, <4>2
    <3>2. log = [i \in 1 .. N + 1 |-> log[i]]
      BY <2>5
    <3>. QED BY <2>8, <3>1, <3>2
  <2>14. log = Append(old, m.body)
    BY <2>6, <2>8, <2>11, <2>12, <2>13
  <2>. QED BY <1>7, <2>14 DEF log, old, new
<1>. QED BY <1>6, <1>7

\* A replica has a prefix of what the author has.
LEMMA ReplicasHavePrefixes ==
    ASSUME IInv, AuthorKeepsEverything, NEW n \in Node, NEW o \in Node
    PROVE  /\ NextID(db[n], o) <= NextID(db[o], o)
           /\ \A i \in 0 .. NextID(db[n], o) - 1 : Row(db[n], o, i) = Row(db[o], o, i)
<1>1. WellFormed(db[n]) /\ WellFormed(db[o])
  BY DEF IInv, StoresInOrder
<1>2. ASSUME NEW i \in 0 .. NextID(db[n], o) - 1
      PROVE  /\ i \in 0 .. NextID(db[o], o) - 1
             /\ Row(db[n], o, i) = Row(db[o], o, i)
  <2> DEFINE m == Row(db[n], o, i)
  <2>1. m \in db[n] /\ m.origin = o /\ m.id = i
    BY <1>1, RowIsThere
  <2>. HIDE DEF m
  <2>2. m \in db[o]
    BY <2>1, WhereCopiesAre DEF AuthorKeepsEverything
  <2>3. m.id \in 0 .. NextID(db[o], o) - 1 /\ Row(db[o], o, m.id) = m
    BY <1>1, <2>1, <2>2, RowIsTheOne
  <2>. QED BY <2>1, <2>3 DEF m
<1>3. NextID(db[n], o) \in Nat /\ NextID(db[o], o) \in Nat
  BY <1>1 DEF WellFormed, NoGap
<1>4. NextID(db[n], o) <= NextID(db[o], o)
  <2>1. SUFFICES ASSUME NextID(db[n], o) > NextID(db[o], o) PROVE FALSE
    BY <1>3
  <2>2. NextID(db[o], o) \in 0 .. NextID(db[n], o) - 1
    BY <1>3, <2>1
  <2>. QED BY <1>2, <1>3, <2>2
<1>. QED BY <1>2, <1>4

LEMMA LogsAtFirst ==
    ASSUME IInv, AuthorKeepsEverything
    PROVE  Log!Init
<1>1. \A n \in Node : db[n] \in SUBSET Message /\ WellFormed(db[n])
  BY DEF IInv, TypeOK, StoresInOrder
<1>2. \A n, o \in Node : LogOf(db[n], o) \in Seq(Body)
  BY <1>1, LogIsSeq
<1>3. ASSUME NEW n \in Node, NEW o \in Node
      PROVE  Log!IsPrefix(LogOf(db[n], o), LogOf(db[o], o))
  <2> DEFINE s == LogOf(db[n], o)
             t == LogOf(db[o], o)
  <2>1. /\ s \in Seq(Body) /\ t \in Seq(Body)
        /\ Len(s) = NextID(db[n], o) /\ Len(t) = NextID(db[o], o)
    BY <1>1, LogIsSeq
  <2>2. Len(s) <= Len(t) /\ \A i \in 0 .. Len(s) - 1 : Row(db[n], o, i) = Row(db[o], o, i)
    BY <2>1, ReplicasHavePrefixes
  <2>3. ASSUME NEW i \in 1 .. Len(s) PROVE s[i] = t[i]
    <3>1. i - 1 \in 0 .. Len(s) - 1 /\ i \in 1 .. Len(t) /\ Len(s) \in Nat
      BY <2>1, <2>2
    <3>2. s[i] = Row(db[n], o, i - 1).body /\ t[i] = Row(db[o], o, i - 1).body
      BY <2>1, <3>1 DEF LogOf
    <3>. QED BY <2>2, <3>1, <3>2
  <2>. HIDE DEF s, t
  <2>4. SubSeq(s, 1, Len(s)) = SubSeq(t, 1, Len(s))
    BY <2>1, <2>2, <2>3
  <2>5. Log!IsPrefix(s, t)
    BY <2>2, <2>4 DEF Log!IsPrefix
  <2>. QED BY <2>5 DEF s, t
<1>. QED BY <1>2, <1>3 DEF Log!Init

\* A table in which one entry of one row changes
LEMMA ChangedAt ==
    ASSUME NEW S, NEW f \in [Node -> [Node -> S]], NEW g \in [Node -> [Node -> S]],
           NEW n \in Node, NEW o \in Node, NEW x,
           \A q, p \in Node : g[q][p] = IF q = n /\ p = o THEN x ELSE f[q][p]
    PROVE  g = [f EXCEPT ![n][o] = x]
<1> DEFINE h == [f EXCEPT ![n][o] = x]
<1>1. x \in S
  <2>1. g[n][o] \in S /\ g[n][o] = x
    OBVIOUS
  <2>. QED BY <2>1
<1>2. /\ h \in [Node -> [Node -> S]]
      /\ \A q, p \in Node : h[q][p] = IF q = n /\ p = o THEN x ELSE f[q][p]
  BY <1>1
<1>. HIDE DEF h
<1>3. \A q \in Node : g[q] = h[q]
  <2>1. ASSUME NEW q \in Node PROVE g[q] = h[q]
    <3>1. g[q] \in [Node -> S] /\ h[q] \in [Node -> S]
      BY <1>2
    <3>2. \A p \in Node : g[q][p] = h[q][p]
      BY <1>2
    <3>. QED BY <3>1, <3>2
  <2>. QED BY <2>1
<1>4. g = h
  BY <1>2, <1>3
<1>. QED BY <1>4 DEF h

\* A database that gets the next message of o: one log is extended.
LEMMA InsertExtends ==
    ASSUME IInv, NEW n \in Node, NEW m \in Message, m.id = NextID(db[n], m.origin),
           db' = [db EXCEPT ![n] = InsertOrUpdateMessage(db[n], m)]
    PROVE  /\ m.origin \in Node /\ m.body \in Body
           /\ LogOf(db'[n], m.origin) = Append(LogOf(db[n], m.origin), m.body)
           /\ logs' = [logs EXCEPT ![n][m.origin] = LogOf(db'[n], m.origin)]
<1>1. m.origin \in Node /\ m.body \in Body
  BY DEF Message
<1>2. /\ db \in [Node -> SUBSET Message] /\ db[n] \in SUBSET Message /\ WellFormed(db[n])
  BY DEF IInv, TypeOK, StoresInOrder
<1>3. /\ db'[n] = InsertOrUpdateMessage(db[n], m)
      /\ \A q \in Node : q # n => db'[q] = db[q]
  BY <1>2
<1>4. \A o \in Node : LogOf(db'[n], o) =
         IF o = m.origin THEN Append(LogOf(db[n], o), m.body) ELSE LogOf(db[n], o)
  BY <1>2, <1>3, InsertAppends
<1> DEFINE o == m.origin
           changed == [logs EXCEPT ![n][o] = LogOf(db'[n], o)]
<1>5. /\ logs = [q \in Node |-> [p \in Node |-> LogOf(db[q], p)]]
      /\ logs' = [q \in Node |-> [p \in Node |-> LogOf(db'[q], p)]]
  BY DEF logs
<1>6. ASSUME NEW q \in Node, NEW p \in Node
      PROVE  logs'[q][p] = changed[q][p]
  <2>1. logs'[q][p] = LogOf(db'[q], p) /\ logs[q][p] = LogOf(db[q], p)
    BY <1>5
  <2>2. changed[q][p] = IF q = n /\ p = o THEN LogOf(db'[n], o) ELSE logs[q][p]
    BY <1>1, <1>5
  <2>3. CASE q = n /\ p = o
    BY <2>1, <2>2, <2>3
  <2>4. CASE q = n /\ p # o
    <3>1. LogOf(db'[n], p) = LogOf(db[n], p)
      BY <1>4, <2>4
    <3>. QED BY <2>1, <2>2, <2>4, <3>1
  <2>5. CASE q # n
    BY <1>3, <2>1, <2>2, <2>5
  <2>. QED BY <2>3, <2>4, <2>5
<1>7. \A q, p \in Node :
         logs'[q][p] = IF q = n /\ p = o THEN LogOf(db'[n], o) ELSE logs[q][p]
  <2>. HIDE DEF o
  <2>1. \A q, p \in Node :
           changed[q][p] = IF q = n /\ p = o THEN LogOf(db'[n], o) ELSE logs[q][p]
    BY <1>5
  <2>. HIDE DEF changed
  <2>. QED BY <1>6, <2>1
<1>8. logs' = changed
  <2>. HIDE DEF o
  <2>1. o \in Node
    BY <1>1 DEF o
  <2>2. logs \in [Node -> [Node -> Seq(Body)]] /\ logs' \in [Node -> [Node -> Seq(Body)]]
    <3>1. \A q, p \in Node : LogOf(db[q], p) \in Seq(Body)
      BY LogIsSeq DEF IInv, TypeOK, StoresInOrder
    <3>2. \A q, p \in Node : LogOf(db'[q], p) \in Seq(Body)
      <4>1. \A p \in Node : Append(LogOf(db[n], p), m.body) \in Seq(Body)
        BY <1>1, <3>1
      <4>. QED BY <1>3, <1>4, <3>1, <4>1
    <3>. QED BY <1>5, <3>1, <3>2
  <2>. QED BY <1>7, <2>1, <2>2, ChangedAt
<1>. QED BY <1>1, <1>4, <1>8

\* Every step either leaves the databases as they are, or it is the author that
\* stores its next message, or a replica that stores the next one of an author.
LEMMA LogsStep ==
    ASSUME StoreAssumption, IInv, KeptInv, [Next]_vars, quota.wipe = 0
    PROVE  UNCHANGED db \/ Log!Next
<1>1. db \in [Node -> SUBSET Message]
  BY DEF IInv, TypeOK
<1>2. ASSUME NEW n \in Node, NEW c \in Client, StoreOwn(n, c)
      PROVE  Log!Next
  <2> DEFINE m == call[n][c].msg
  <2>1. /\ m \in Message /\ m.origin = n
        /\ db' = [db EXCEPT ![n] = InsertOrUpdateMessage(db[n], m)]
    BY <1>2, OwnInOrder
  <2>2. m.id = NextID(db[n], n)
    BY <1>2 DEF StoreOwn, KeptInv, PostIsNext
  <2>. HIDE DEF m
  <2>3. /\ m.body \in Body /\ LogOf(db'[n], n) = Append(LogOf(db[n], n), m.body)
        /\ logs' = [logs EXCEPT ![n][n] = LogOf(db'[n], n)]
    <3>1. m.id = NextID(db[n], m.origin)
      BY <2>1, <2>2
    <3>2. /\ m.body \in Body
          /\ LogOf(db'[n], m.origin) = Append(LogOf(db[n], m.origin), m.body)
          /\ logs' = [logs EXCEPT ![n][m.origin] = LogOf(db'[n], m.origin)]
      <4>. HIDE DEF LogOf, logs
      <4>. QED BY <2>1, <3>1, InsertExtends
    <3>. QED BY <2>1, <3>2
  <2>4. Log!Publish(n, m.body)
    BY <2>3 DEF Log!Publish, Log!Extend, logs
  <2>. QED BY <2>3, <2>4 DEF Log!Next
<1>3. ASSUME NEW n \in Node, NEW p \in net, NEW rest, AcceptRumor(n, p, rest)
      PROVE  UNCHANGED db \/ Log!Next
  <2> DEFINE m == p.msg
             o == m.origin
  <2>1. /\ p.kind = "rumor" /\ m \in Message /\ m.id <= NextID(db[n], o)
        /\ db' = [db EXCEPT ![n] = InsertOrUpdateMessage(db[n], m)]
    BY <1>3, RumorInOrder
  <2>2. m \in db[o]
    BY <2>1, WhereCopiesAre DEF KeptInv, AuthorKeepsEverything
  <2>3. o \in Node /\ m.id \in Nat
    BY <2>1 DEF Message
  <2>4. WellFormed(db[n]) /\ WellFormed(db[o])
    BY <2>3 DEF IInv, StoresInOrder
  <2>. HIDE DEF m, o
  <2>5. m.origin = o
    BY DEF o
  <2>6. m.id \in 0 .. NextID(db[o], o) - 1 /\ Row(db[o], o, m.id) = m
    BY <2>2, <2>3, <2>4, <2>5, RowIsTheOne
  <2>7. NextID(db[n], o) \in Nat /\ NextID(db[o], o) \in Nat
    BY <2>3, <2>4 DEF WellFormed, NoGap
  <2>8. CASE m.id < NextID(db[n], o)
    <3>1. m.id \in 0 .. NextID(db[n], o) - 1
      BY <2>3, <2>7, <2>8
    <3>2. Row(db[n], o, m.id) = m
      BY <2>3, <2>6, <3>1, ReplicasHavePrefixes DEF KeptInv
    <3>3. m \in db[n]
      BY <2>3, <2>4, <3>1, <3>2, RowIsThere
    <3>4. InsertOrUpdateMessage(db[n], m) = db[n]
      BY <2>4, <3>3 DEF InsertOrUpdateMessage, GetMessage, WellFormed, OneRowPerID
    <3>. QED BY <1>1, <2>1, <3>4
  <2>9. CASE m.id = NextID(db[n], o)
    <3>1. /\ LogOf(db'[n], o) = Append(LogOf(db[n], o), m.body)
          /\ logs' = [logs EXCEPT ![n][o] = LogOf(db'[n], o)]
      <4>1. m.id = NextID(db[n], m.origin)
        BY <2>5, <2>9
      <4>2. /\ LogOf(db'[n], m.origin) = Append(LogOf(db[n], m.origin), m.body)
            /\ logs' = [logs EXCEPT ![n][m.origin] = LogOf(db'[n], m.origin)]
        <5>. HIDE DEF LogOf, logs
        <5>. QED BY <2>1, <4>1, InsertExtends
      <4>. QED BY <2>5, <4>2
    <3>2. /\ Len(LogOf(db[n], o)) = NextID(db[n], o)
          /\ Len(LogOf(db[o], o)) = NextID(db[o], o)
      BY <1>1, <2>3, <2>4, LogIsSeq
    <3>3. m.id + 1 \in 1 .. NextID(db[o], o) /\ (m.id + 1) - 1 = m.id
      BY <2>3, <2>6, <2>7
    <3>4. LogOf(db[o], o)[m.id + 1] = m.body
      BY <2>6, <3>3 DEF LogOf
    <3>5. Len(LogOf(db[n], o)) < Len(LogOf(db[o], o))
      BY <2>6, <2>7, <2>9, <3>2
    <3>6. LogOf(db[o], o)[Len(LogOf(db[n], o)) + 1] = m.body
      BY <2>9, <3>2, <3>4
    <3>. HIDE DEF LogOf
    <3>7. Log!Copy(n, o)
      BY <2>3, <3>1, <3>5, <3>6 DEF Log!Copy, Log!Extend, logs
    <3>. QED BY <2>3, <3>7 DEF Log!Next
  <2>. QED BY <2>1, <2>3, <2>5, <2>7, <2>8, <2>9
<1>4. ASSUME NEW n \in Node, Restart(n)
      PROVE  UNCHANGED db
  <2>1. db' = [db EXCEPT ![n] = Launched(n, db[n])]
    BY <1>4 DEF Restart, Relaunch
  <2>2. NextID(db[n], n) > 0
    BY DEF KeptInv, Announced
  <2>3. Launched(n, db[n]) = db[n]
    BY <2>2 DEF Launched
  <2>. QED BY <1>1, <2>1, <2>3
<1>5. \A n \in Node : ~WipeAndRestart(n)
  BY DEF WipeAndRestart
<1>. QED BY <1>2, <1>3, <1>4, <1>5, StoreChanges

\* With one post at a time and every messages.db left in place, the network of
\* gossipers is a replicated log: what a node shows of an author is a prefix of
\* what the author wrote and only grows, through the peer handler, mongering,
\* synchronisation, losses, duplicates, reordering and crashes.
THEOREM GossipIsALog ==
    ASSUME OnePost, NothingLost, MaxWipe = 0
    PROVE  Spec => ImplementsLog
<1>1. Init => Log!Init
  <2>. SUFFICES ASSUME Init PROVE Log!Init
    OBVIOUS
  <2>1. IInv /\ AuthorKeepsEverything
    BY StoreAssumption, GossipAssumption, InitInOrder, KeptAtFirst DEF KeptInv
  <2>. QED BY <2>1, LogsAtFirst
<1>2. IInv /\ KeptInv /\ quota.wipe = 0 /\ [Next]_vars => [Log!Next]_logs
  <2>. SUFFICES ASSUME IInv, KeptInv, quota.wipe = 0, [Next]_vars
                PROVE  Log!Next \/ UNCHANGED logs
    OBVIOUS
  <2>1. UNCHANGED db => UNCHANGED logs
    BY DEF logs
  <2>. QED BY <2>1, LogsStep, StoreAssumption
<1>3. Spec => [](quota.wipe = 0)
  BY NoWipe, GossipAssumption
<1>. QED BY <1>1, <1>2, <1>3, InOrder, Kept, PTL DEF Spec, ImplementsLog, Log!Spec, logs
===============================================================================
