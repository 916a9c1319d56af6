-------------------------- MODULE PageUpdatesProofs --------------------------
(* Rounds of update(), for any number of resources, chats and rounds. *)
EXTENDS PageUpdates, FiniteSetTheorems, TLAPS

\* The answers $.when still waits for, the failed ones included
Outstanding(u) == {x \in Resource : request[u][x].stage # "arrived"}

(***************************************************************************)
(* What $.when counts is what has not arrived; a round is rejected as long *)
(* as one of its requests has failed, which therefore never arrives; and a *)
(* GET answered during the round saw the node after update() was called.   *)
(***************************************************************************)
Counted(u) == round[u].remaining = Cardinality(Outstanding(u))

Following(u) ==
    /\ round[u].master = "idle" =>
          round[u].remaining = 0 /\ \A x \in Item : request[u][x] = Unsent
    /\ round[u].master # "idle" => Counted(u)
    /\ round[u].master \in {"resolved", "shown"} => Outstanding(u) = {}
    /\ round[u].master = "pending" =>
          \A x \in Resource : request[u][x].stage \in {"sent", "answered", "arrived"}
    /\ round[u].master = "rejected" => \E x \in Resource : request[u][x].stage = "failed"

Recent(u) ==
    /\ round[u].since <= version
    /\ \A x \in Resource : request[u][x].stage \in {"answered", "arrived"} =>
                              request[u][x].value >= round[u].since

IInv ==
    /\ TypeOK
    /\ \A u \in Round : Following(u) /\ Recent(u)

LEMMA OutstandingIsFinite ==
    ASSUME PageUpdatesAssumption, NEW u
    PROVE  /\ IsFiniteSet(Outstanding(u)) /\ Cardinality(Outstanding(u)) \in Nat
           /\ Cardinality(Outstanding(u)) = 0 <=> Outstanding(u) = {}
<1>1. IsFiniteSet(Outstanding(u))
  BY FS_Subset DEF PageUpdatesAssumption, Outstanding
<1>. QED BY <1>1, FS_CardinalityType, FS_EmptySet

\* The page at its first update().
LEMMA RoundsAtFirst ==
    ASSUME PageUpdatesAssumption, Init
    PROVE  IInv
<1>1. Cardinality(Resource) \in Nat
  BY FS_CardinalityType DEF PageUpdatesAssumption
<1>2. TypeOK
  BY <1>1 DEF Init, TypeOK, PageUpdatesAssumption, Version, Unsent, NoRound, Master
<1>3. ASSUME NEW u \in Round PROVE Following(u) /\ Recent(u)
  BY DEF Init, Following, Recent, Unsent, NoRound, Item
<1>. QED BY <1>2, <1>3 DEF IInv

\* A step that touches one round at most leaves the others as they are.
LEMMA OtherRounds ==
    ASSUME TypeOK, NEW v \in Round, Following(v), Recent(v),
           request'[v] = request[v], round'[v] = round[v],
           version' \in Nat, version' >= version
    PROVE  Following(v)' /\ Recent(v)'
<1>1. version \in Nat /\ round[v].since \in Nat
  BY DEF TypeOK, Version
<1>2. Outstanding(v)' = Outstanding(v)
  BY DEF Outstanding
<1>3. Following(v)'
  BY <1>2 DEF Following, Counted
<1>4. Recent(v)'
  BY <1>1 DEF Recent
<1>. QED BY <1>3, <1>4

LEMMA RoundStarts ==
    ASSUME PageUpdatesAssumption, IInv, NEW u \in Round, Start(u), UNCHANGED version
    PROVE  /\ round' \in [Round -> [remaining : 0 .. Cardinality(Resource),
                                    master : Master, since : Version]]
           /\ request' \in [Round -> [Item ->
                 [stage : {"none", "sent", "answered", "arrived", "failed"}, value : Version]]]
           /\ \A v \in Round : Following(v)' /\ Recent(v)'
<1>1. Cardinality(Resource) \in Nat /\ 0 \in Version
  BY FS_CardinalityType DEF PageUpdatesAssumption, Version
<1>2. round' \in [Round -> [remaining : 0 .. Cardinality(Resource),
                           master : Master, since : Version]]
  BY <1>1 DEF IInv, TypeOK, Start, Master
<1>3. request' \in [Round -> [Item ->
        [stage : {"none", "sent", "answered", "arrived", "failed"}, value : Version]]]
  BY <1>1 DEF IInv, TypeOK, Start, Asked
<1>4. ASSUME NEW v \in Round, v # u PROVE Following(v)' /\ Recent(v)'
  <2>1. request'[v] = request[v] /\ round'[v] = round[v]
    BY <1>4 DEF IInv, TypeOK, Start, Asked
  <2>2. version' \in Nat /\ version' >= version
    BY DEF IInv, TypeOK, Version
  <2>. QED BY <2>1, <2>2, OtherRounds DEF IInv
<1>5. Following(u)' /\ Recent(u)'
  <2>1. /\ round'[u] = [remaining |-> Cardinality(Resource), master |-> "pending",
                        since |-> version]
        /\ \A x \in Resource : request'[u][x] = [stage |-> "sent", value |-> 0]
    BY DEF IInv, TypeOK, Start, Asked, Item
  <2>2. Outstanding(u)' = Resource
    BY <2>1 DEF Outstanding
  <2>. QED BY <2>1, <2>2 DEF IInv, TypeOK, Version, Following, Counted, Recent
<1>. QED BY <1>2, <1>3, <1>4, <1>5

LEMMA StartsStep ==
    ASSUME PageUpdatesAssumption, IInv, NEW u \in Round, Tick(u) \/ SendSucceeds(u)
    PROVE  IInv'
<1>1. Start(u) /\ UNCHANGED <<version, shown, failures>> /\ sending' \in {sending, "no"}
  BY DEF Tick, SendSucceeds
<1>2. /\ round' \in [Round -> [remaining : 0 .. Cardinality(Resource),
                               master : Master, since : Version]]
      /\ request' \in [Round -> [Item ->
            [stage : {"none", "sent", "answered", "arrived", "failed"}, value : Version]]]
      /\ \A v \in Round : Following(v)' /\ Recent(v)'
  BY <1>1, RoundStarts
<1>. QED BY <1>1, <1>2 DEF IInv, TypeOK

LEMMA ServeStep ==
    ASSUME PageUpdatesAssumption, IInv, NEW u \in Round, NEW x \in Item, Serve(u, x)
    PROVE  IInv'
<1>. USE DEF IInv
<1>1. TypeOK'
  BY DEF Serve, TypeOK
<1>2. version \in Nat
  BY DEF TypeOK, Version
<1>3. ASSUME NEW v \in Round, v # u PROVE Following(v)' /\ Recent(v)'
  BY <1>2, <1>3, OtherRounds DEF Serve, TypeOK
<1>4. Following(u)' /\ Recent(u)'
  <2>1. /\ request'[u] = [request[u] EXCEPT ![x] = [stage |-> "answered", value |-> version]]
        /\ round' = round /\ version' = version
        /\ request[u][x].stage = "sent" /\ request[u] \in [Item -> [stage :
              {"none", "sent", "answered", "arrived", "failed"}, value : Version]]
    BY DEF Serve, TypeOK
  <2>2. Outstanding(u)' = Outstanding(u)
    BY <2>1 DEF Outstanding, Item
  <2>3. Following(u)'
    BY <2>1, <2>2 DEF Following, Counted, Unsent, Item
  <2>4. Recent(u)'
    BY <1>2, <2>1 DEF Recent, Item
  <2>. QED BY <2>3, <2>4
<1>. QED BY <1>1, <1>3, <1>4

\* The last answer to arrive is the one $.when waits for: a failed request is
\* outstanding for ever, so the count of a rejected round never gets to 0.
LEMMA ArriveStep ==
    ASSUME PageUpdatesAssumption, IInv, NEW u \in Round, NEW x \in Item, Arrive(u, x)
    PROVE  IInv'
<1>. USE DEF IInv
<1>1. /\ request'[u] = [request[u] EXCEPT ![x].stage = "arrived"]
      /\ request[u][x].stage = "answered" /\ request[u] \in [Item -> [stage :
              {"none", "sent", "answered", "arrived", "failed"}, value : Version]]
      /\ version' = version /\ version \in Nat
  BY DEF Arrive, TypeOK, Version
<1>2. request' \in [Round -> [Item ->
            [stage : {"none", "sent", "answered", "arrived", "failed"}, value : Version]]]
  <2>1. request'[u] \in [Item ->
            [stage : {"none", "sent", "answered", "arrived", "failed"}, value : Version]]
    BY <1>1
  <2>. QED BY <2>1 DEF Arrive, TypeOK
<1>3. shown' \in [Item -> Version]
  <2>1. request[u][x].value \in Version
    BY <1>1
  <2>. QED BY <2>1 DEF Arrive, TypeOK
<1>4. ASSUME NEW v \in Round, v # u PROVE Following(v)' /\ Recent(v)'
  BY <1>1, <1>4, OtherRounds DEF Arrive, TypeOK
<1>5. CASE x \notin Resource
  <2>1. round' = round
    BY <1>5 DEF Arrive
  <2>2. Outstanding(u)' = Outstanding(u)
    BY <1>1, <1>5 DEF Outstanding, Item
  <2>3. Following(u)' /\ Recent(u)'
    BY <1>1, <1>5, <2>1, <2>2 DEF Following, Counted, Recent, Unsent, Item
  <2>. QED BY <1>2, <1>3, <1>4, <2>1, <2>3 DEF Arrive, TypeOK
<1>6. CASE x \in Resource
  <2>1. round' = [round EXCEPT ![u] = Fulfilled(@)]
    BY <1>6 DEF Arrive
  <2>2. round[u] \in [remaining : 0 .. Cardinality(Resource), master : Master, since : Version]
    BY DEF TypeOK
  <2>3. round'[u] = [round[u] EXCEPT !.remaining = @ - 1,
                        !.master = IF round[u].remaining = 1 THEN "resolved" ELSE @]
    BY <2>1 DEF Fulfilled, TypeOK
  <2>4. x \in Outstanding(u) /\ Outstanding(u)' = Outstanding(u) \ {x}
    BY <1>1, <1>6 DEF Outstanding, Item
  <2>5. round[u].master \in {"pending", "rejected"} /\ Counted(u)
    BY <1>1, <2>2, <2>4 DEF Following, Unsent, Master
  <2>6. /\ IsFiniteSet(Outstanding(u)) /\ Cardinality(Outstanding(u)) \in Nat
        /\ Cardinality(Outstanding(u) \ {x}) = Cardinality(Outstanding(u)) - 1
        /\ Cardinality(Outstanding(u) \ {x}) \in Nat
        /\ Cardinality(Outstanding(u) \ {x}) = 0 <=> Outstanding(u) \ {x} = {}
    <3>1. IsFiniteSet(Outstanding(u)) /\ IsFiniteSet(Outstanding(u) \ {x})
      BY OutstandingIsFinite, FS_RemoveElement
    <3>. QED BY <2>4, <3>1, FS_RemoveElement, FS_CardinalityType, FS_EmptySet
  <2>7. Cardinality(Resource) \in Nat
    BY FS_CardinalityType DEF PageUpdatesAssumption
  <2>8. round'[u] \in [remaining : 0 .. Cardinality(Resource), master : Master, since : Version]
    <3>1. round[u].remaining \in 1 .. Cardinality(Resource)
      BY <2>2, <2>5, <2>6, <2>7 DEF Counted
    <3>2. round[u].remaining - 1 \in 0 .. Cardinality(Resource)
      BY <2>7, <3>1
    <3>. QED BY <2>2, <2>3, <3>2 DEF Master
  <2>9. round' \in [Round -> [remaining : 0 .. Cardinality(Resource),
                             master : Master, since : Version]]
    BY <2>1, <2>8 DEF TypeOK
  <2>10. Counted(u)'
    BY <2>2, <2>3, <2>4, <2>5, <2>6 DEF Counted
  <2>11. Following(u)'
    <3>1. CASE round[u].remaining = 1
      <4>1. Outstanding(u)' = {}
        BY <2>4, <2>5, <2>6, <3>1 DEF Counted
      <4>2. round'[u].master = "resolved"
        BY <2>2, <2>3, <3>1
      <4>. QED BY <2>10, <4>1, <4>2 DEF Following
    <3>2. CASE round[u].remaining # 1
      <4>1. round'[u].master = round[u].master
        BY <2>2, <2>3, <3>2
      <4>2. \A y \in Resource :
               request'[u][y].stage = IF y = x THEN "arrived" ELSE request[u][y].stage
        BY <1>1, <1>6 DEF Item
      <4>. QED BY <1>1, <2>5, <2>10, <4>1, <4>2 DEF Following
    <3>. QED BY <3>1, <3>2
  <2>13. Recent(u)'
    BY <1>1, <1>6, <2>2, <2>3 DEF Recent, Item
  <2>. QED BY <1>2, <1>3, <1>4, <2>9, <2>11, <2>13 DEF Arrive, TypeOK
<1>. QED BY <1>5, <1>6

LEMMA FailStep ==
    ASSUME PageUpdatesAssumption, IInv, NEW u \in Round, NEW x \in Item, Fail(u, x)
    PROVE  IInv'
<1>. USE DEF IInv
<1>1. /\ request'[u] = [request[u] EXCEPT ![x].stage = "failed"]
      /\ request[u][x].stage \in {"sent", "answered"} /\ request[u] \in [Item -> [stage :
              {"none", "sent", "answered", "arrived", "failed"}, value : Version]]
      /\ version' = version /\ version \in Nat
  BY DEF Fail, TypeOK, Version
<1>2. request' \in [Round -> [Item ->
            [stage : {"none", "sent", "answered", "arrived", "failed"}, value : Version]]]
  <2>1. request'[u] \in [Item ->
            [stage : {"none", "sent", "answered", "arrived", "failed"}, value : Version]]
    BY <1>1
  <2>. QED BY <2>1 DEF Fail, TypeOK
<1>3. round[u] \in [remaining : 0 .. Cardinality(Resource), master : Master, since : Version]
  BY DEF TypeOK
<1>4. round'[u] = IF x \in Resource THEN Rejected(round[u]) ELSE round[u]
  BY DEF Fail, TypeOK
<1>5. round' \in [Round -> [remaining : 0 .. Cardinality(Resource),
                           master : Master, since : Version]]
  <2>1. round'[u] \in [remaining : 0 .. Cardinality(Resource), master : Master, since : Version]
    BY <1>3, <1>4 DEF Rejected, Master
  <2>. QED BY <2>1 DEF Fail, TypeOK
<1>6. TypeOK'
  BY <1>2, <1>5 DEF Fail, TypeOK, PageUpdatesAssumption
<1>7. ASSUME NEW v \in Round, v # u PROVE Following(v)' /\ Recent(v)'
  BY <1>1, <1>7, OtherRounds DEF Fail, TypeOK
<1>8. Outstanding(u)' = Outstanding(u)
  BY <1>1 DEF Outstanding, Item
<1>9. Following(u)' /\ Recent(u)'
  <2>1. CASE x \notin Resource
    BY <1>1, <1>4, <1>8, <2>1 DEF Following, Counted, Recent, Unsent, Item
  <2>2. CASE x \in Resource
    <3>1. round[u].master \in {"pending", "rejected"}
      BY <1>1, <1>3, <2>2 DEF Following, Outstanding, Unsent, Item, Master
    <3>2. round'[u].master = "rejected" /\ round'[u].remaining = round[u].remaining
             /\ round'[u].since = round[u].since
      BY <1>3, <1>4, <2>2, <3>1 DEF Rejected
    <3>3. request'[u][x].stage = "failed"
      BY <1>1
    <3>4. Following(u)'
      BY <1>8, <2>2, <3>1, <3>2, <3>3 DEF Following, Counted
    <3>5. Recent(u)'
      BY <1>1, <2>2, <3>2 DEF Recent, Item
    <3>. QED BY <3>4, <3>5
  <2>. QED BY <2>1, <2>2
<1>. QED BY <1>6, <1>7, <1>9

LEMMA ShowStep ==
    ASSUME PageUpdatesAssumption, IInv, NEW u \in Round, Show(u)
    PROVE  IInv'
<1>. USE DEF IInv
<1>1. /\ request'[u] = [x \in Item |-> IF x \in Chat THEN [stage |-> "sent", value |-> 0]
                                        ELSE request[u][x]]
      /\ round'[u] = [round[u] EXCEPT !.master = "shown"] /\ round[u].master = "resolved"
      /\ version' = version /\ version \in Nat /\ 0 \in Version
  BY DEF Show, Asked, TypeOK, Version, PageUpdatesAssumption
<1>2. TypeOK'
  <2>1. \A x \in Resource : request[u][x].value \in Version
    BY DEF TypeOK, Item
  <2>2. shown' \in [Item -> Version]
    BY <2>1 DEF Show, TypeOK
  <2>3. request' \in [Round -> [Item ->
            [stage : {"none", "sent", "answered", "arrived", "failed"}, value : Version]]]
    BY <1>1 DEF Show, Asked, TypeOK
  <2>4. round' \in [Round -> [remaining : 0 .. Cardinality(Resource),
                             master : Master, since : Version]]
    BY DEF Show, TypeOK, Master
  <2>. QED BY <2>2, <2>3, <2>4 DEF Show, TypeOK
<1>3. ASSUME NEW v \in Round, v # u PROVE Following(v)' /\ Recent(v)'
  BY <1>1, <1>3, OtherRounds DEF Show, Asked, TypeOK
<1>4. \A x \in Resource : request'[u][x] = request[u][x]
  BY <1>1 DEF Item, PageUpdatesAssumption
<1>5. Outstanding(u)' = Outstanding(u)
  BY <1>4 DEF Outstanding
<1>6. Following(u)' /\ Recent(u)'
  <2>1. round'[u].master = "shown" /\ round'[u].remaining = round[u].remaining
            /\ round'[u].since = round[u].since
    BY <1>1 DEF TypeOK
  <2>. QED BY <1>1, <1>4, <1>5, <2>1 DEF Following, Counted, Recent
<1>. QED BY <1>2, <1>3, <1>6

LEMMA FinishStep ==
    ASSUME PageUpdatesAssumption, IInv, NEW u \in Round, Finish(u)
    PROVE  IInv'
<1>. USE DEF IInv
<1>1. /\ request'[u] = [x \in Item |-> Unsent] /\ round'[u] = NoRound
      /\ version' = version /\ version \in Nat /\ 0 \in Version
  BY DEF Finish, TypeOK, Version, PageUpdatesAssumption
<1>2. Cardinality(Resource) \in Nat
  BY FS_CardinalityType DEF PageUpdatesAssumption
<1>3. TypeOK'
  BY <1>1, <1>2 DEF Finish, TypeOK, Unsent, NoRound, Master
<1>4. ASSUME NEW v \in Round, v # u PROVE Following(v)' /\ Recent(v)'
  BY <1>1, <1>4, OtherRounds DEF Finish, TypeOK
<1>5. Following(u)' /\ Recent(u)'
  BY <1>1 DEF Following, Recent, Unsent, NoRound, Item
<1>. QED BY <1>3, <1>4, <1>5

LEMMA RoundsStep ==
    ASSUME PageUpdatesAssumption, IInv, [Next]_vars
    PROVE  IInv'
<1>1. CASE UNCHANGED vars
  <2>1. version \in Nat /\ version' >= version
    BY <1>1 DEF vars, IInv, TypeOK, Version
  <2>2. \A v \in Round : Following(v)' /\ Recent(v)'
    BY <1>1, <2>1, OtherRounds DEF vars, IInv
  <2>. QED BY <1>1, <2>2 DEF vars, IInv, TypeOK
<1>2. CASE Send \/ SendFails \/ Alert
  <2>1. /\ UNCHANGED <<version, request, round, shown, failures>>
        /\ sending' \in {"no", "sent", "failed"}
    BY <1>2 DEF Send, SendFails, Alert
  <2>2. version \in Nat /\ version' >= version
    BY <2>1 DEF IInv, TypeOK, Version
  <2>3. \A v \in Round : Following(v)' /\ Recent(v)'
    BY <2>1, <2>2, OtherRounds DEF IInv
  <2>. QED BY <2>1, <2>3 DEF IInv, TypeOK
<1>3. CASE Store \/ Change
  <2>1. /\ version' \in Version /\ version' \in Nat /\ version' >= version
        /\ UNCHANGED <<request, round, shown, failures>> /\ sending' \in {sending, "stored"}
    BY <1>3 DEF Store, Change, IInv, TypeOK, Version, PageUpdatesAssumption
  <2>2. \A v \in Round : Following(v)' /\ Recent(v)'
    BY <2>1, OtherRounds DEF IInv
  <2>. QED BY <2>1, <2>2 DEF IInv, TypeOK
<1>. QED BY <1>1, <1>2, <1>3, StartsStep, ServeStep, ArriveStep, FailStep, ShowStep, FinishStep
         DEF Next

LEMMA RoundsInv == Spec => []IInv
<1>1. Init => IInv
  BY PageUpdatesAssumption, RoundsAtFirst
<1>2. IInv /\ [Next]_vars => IInv'
  BY PageUpdatesAssumption, RoundsStep
<1>. QED BY <1>1, <1>2, PTL DEF Spec

\* The counter of $.when stays between 0 and the number of resources, whatever
\* arrives and fails, in whatever order.
THEOREM PageTypeCorrect == Spec => []TypeOK
BY RoundsInv, PTL DEF IInv

\* $.when resolves a round only when all its answers have come, and rejects it
\* with the first failure (jquery-3.2.1.js:3817, 3476).
THEOREM RoundsAreAllOrNothing == Spec => []AllOrNothing
<1>1. IInv => AllOrNothing
    <2>1. ASSUME IInv, NEW u \in Round
        PROVE  /\ round[u].master \in {"resolved", "shown"} =>
                    \A x \in Resource : request[u][x].stage = "arrived"
               /\ round[u].master \in {"idle", "pending"} =>
                    \A x \in Item : request[u][x].stage # "failed" \/ x \in Chat
    BY <2>1 DEF IInv, Following, Outstanding, Unsent, Item
  <2>. QED BY <2>1 DEF AllOrNothing
<1>. QED BY <1>1, RoundsInv, PTL

\* A round displays nothing older than the moment update() was called, so the
\* message whose success called it is shown (peersterUi.js:28).
THEOREM RoundsAreRecent == Spec => RoundIsRecent
<1>1. ASSUME IInv, Next, NEW u \in Round, round[u].master = "resolved",
             round'[u].master = "shown", NEW x \in Resource
      PROVE  shown'[x] >= round[u].since
  <2>1. Show(u)
    <3>1. round[u] \in [remaining : 0 .. Cardinality(Resource), master : Master, since : Version]
      BY <1>1 DEF IInv, TypeOK
    <3>2. ASSUME NEW v \in Round, Tick(v) \/ SendSucceeds(v) PROVE round'[u].master # "shown"
      BY <1>1, <3>2 DEF IInv, TypeOK, Tick, SendSucceeds, Start
    <3>3. ASSUME NEW v \in Round, Finish(v) PROVE round'[u].master # "shown"
      BY <1>1, <3>3 DEF IInv, TypeOK, Finish, NoRound
    <3>4. ASSUME NEW v \in Round, NEW y \in Item, Serve(v, y) \/ Arrive(v, y) \/ Fail(v, y)
          PROVE  round'[u].master # "shown"
      <4>1. round'[u] \in {round[u], Fulfilled(round[u]), Rejected(round[u])}
        <5>1. CASE Serve(v, y)
          BY <5>1 DEF Serve
        <5>2. CASE Arrive(v, y)
          BY <5>2 DEF IInv, TypeOK, Arrive
        <5>3. CASE Fail(v, y)
          BY <5>3 DEF IInv, TypeOK, Fail
        <5>. QED BY <3>4, <5>1, <5>2, <5>3
      <4>. QED BY <1>1, <3>1, <4>1 DEF Fulfilled, Rejected
    <3>5. ASSUME NEW v \in Round, Show(v) PROVE u = v
      BY <1>1, <3>5 DEF IInv, TypeOK, Show
    <3>6. ~UNCHANGED round
      BY <1>1
    <3>. QED BY <1>1, <3>2, <3>3, <3>4, <3>5, <3>6 DEF Next, Send, Store, SendFails, Alert, Change
  <2>2. request[u][x].stage = "arrived" /\ request[u][x].value >= round[u].since
    BY <1>1 DEF IInv, Following, Recent, Outstanding
  <2>3. shown'[x] = request[u][x].value
    BY <2>1 DEF Show, Item
  <2>. QED BY <2>2, <2>3
<1>2. IInv /\ [Next]_vars =>
        [\A u \in Round : round[u].master = "resolved" /\ round'[u].master = "shown" =>
           \A x \in Resource : shown'[x] >= round[u].since]_vars
  BY <1>1
<1>. QED BY <1>2, RoundsInv, PTL DEF Spec, RoundIsRecent
==============================================================================
