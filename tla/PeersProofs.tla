----------------------------- MODULE PeersProofs -----------------------------
(* The peer lists, for any texts, endpoints and gossipers. *)
EXTENDS Peers, TLAPS

\* Every listed text is one that packets come with.
Recognised == \A n \in Node : \A t \in Peer(n) : \E e \in Endpoint : Written[e] = t

\* A packet of one node to another comes from the home of its sender.
SentFromHome(p) == Owner[p.from] # Owner[p.to] => p.from = Home[Owner[p.from]]

FromHome == \A p \in net : SentFromHome(p)

IInv == TypeOK /\ Recognised /\ FromHome

\* Send only makes packets between existing sockets, from home to others.
LEMMA SentIsPackets ==
    ASSUME PeersAssumption, NEW n \in Node, NEW t \in Text
    PROVE  SentTo(n, t) \subseteq Packet /\ \A p \in SentTo(n, t) : SentFromHome(p)
<1>1. CASE Valid(t) /\ Owner[Denotes[t]] = n
  BY <1>1 DEF SentTo, Valid, Packet, PeersAssumption, SentFromHome
<1>2. CASE Valid(t) /\ Owner[Denotes[t]] # n
  <2>1. Home[n] \in Endpoint /\ Denotes[t] \in Endpoint /\ Owner[Home[n]] = n
    BY <1>2 DEF Valid, PeersAssumption
  <2>2. SentTo(n, t) = {[from |-> Home[n], to |-> Denotes[t]]}
    BY <1>2 DEF SentTo
  <2>. QED BY <2>1, <2>2 DEF Packet, SentFromHome
<1>3. CASE ~Valid(t)
  BY <1>3 DEF SentTo
<1>. QED BY <1>1, <1>2, <1>3

\* What the -peers flag, the page and other nodes put into a list are texts that
\* AddressToString writes.
LEMMA ResolvedIsWritten ==
    ASSUME PeersAssumption, NEW t \in Text, Valid(t)
    PROVE  Denotes[t] \in Endpoint /\ Resolved(t) = Written[Denotes[t]] /\ Resolved(t) \in Text
BY DEF Valid, Resolved, PeersAssumption

\* The launch: every -peers is resolved before it is listed (gossiper.go:41-49).
LEMMA ListsAtFirst ==
    ASSUME PeersAssumption, Init
    PROVE  IInv
<1>1. TypeOK
  BY DEF Init, TypeOK, Class
<1>2. ASSUME NEW n \in Node, NEW t \in Peer(n)
      PROVE  \E e \in Endpoint : Written[e] = t
  <2>1. PICK f \in PeerFlag[n] : Resolved(f) = t
    BY <1>2 DEF Init, Peer
  <2>2. f \in Text /\ Valid(f)
    BY DEF PeersAssumption, Valid
  <2>. QED BY <2>1, <2>2, ResolvedIsWritten
<1>3. FromHome
  BY DEF Init, FromHome
<1>. QED BY <1>1, <1>2, <1>3 DEF IInv, Recognised

\* A change of the list of one node that adds at most one text.
LEMMA OneMore ==
    ASSUME PeersAssumption, IInv, NEW n \in Node, NEW e \in Endpoint,
           NEW class \in Class \cup {Absent},
           peers' = [peers EXCEPT ![n][Written[e]] = class]
    PROVE  peers' \in [Node -> [Text -> Class \cup {Absent}]] /\ Recognised'
<1>1. Written[e] \in Text
  BY DEF PeersAssumption
<1>2. peers' \in [Node -> [Text -> Class \cup {Absent}]]
  BY <1>1 DEF IInv, TypeOK
<1>3. ASSUME NEW m \in Node, NEW t \in Peer(m)'
      PROVE  \E d \in Endpoint : Written[d] = t
  <2>1. CASE m = n /\ t = Written[e]
    BY <2>1
  <2>2. CASE ~(m = n /\ t = Written[e])
    <3>1. t \in Text /\ peers'[m][t] = peers[m][t]
      BY <1>1, <1>3, <2>2 DEF IInv, TypeOK, Peer
    <3>2. t \in Peer(m)
      BY <1>3, <3>1 DEF Peer
    <3>. QED BY <3>2 DEF IInv, Recognised
  <2>. QED BY <2>1, <2>2
<1>. QED BY <1>2, <1>3 DEF Recognised

LEMMA ListsStep ==
    ASSUME PeersAssumption, IInv, [Next]_vars
    PROVE  IInv'
<1>. USE DEF IInv
<1>1. CASE UNCHANGED vars
  BY <1>1 DEF vars, TypeOK, Recognised, Peer, FromHome
<1>2. ASSUME NEW n \in Node, NEW t \in Text, GossipWith(n, t)
      PROVE  IInv'
  <2>1. SentTo(n, t) \subseteq Packet /\ \A p \in SentTo(n, t) : SentFromHome(p)
    BY SentIsPackets
  <2>2. net' = net \cup SentTo(n, t) /\ UNCHANGED <<peers, page, asked, edits>>
    BY <1>2 DEF GossipWith
  <2>3. FromHome'
    BY <2>1, <2>2 DEF FromHome
  <2>. QED BY <2>1, <2>2, <2>3 DEF TypeOK, Recognised, Peer
<1>3. ASSUME NEW n \in Node, Refresh(n)
      PROVE  IInv'
  BY <1>3 DEF Refresh, TypeOK, Recognised, Peer, FromHome
<1>4. ASSUME NEW n \in Node, NEW t \in Text, NEW place \in Place, Ask(n, t, place)
      PROVE  IInv'
  <2>1. asked' \in [Node -> [Text \X Place -> Nat]]
    <3>1. asked \in [Node -> [Text \X Place -> Nat]] /\ <<t, place>> \in Text \X Place
      BY DEF TypeOK
    <3>2. asked[n][<<t, place>>] + 1 \in Nat
      BY <3>1
    <3>3. asked' = [asked EXCEPT ![n][<<t, place>>] = asked[n][<<t, place>>] + 1]
      BY <1>4 DEF Ask
    <3>. QED BY <3>1, <3>2, <3>3
  <2>2. UNCHANGED <<peers, page, net>> /\ edits' = [edits EXCEPT ![n] = edits[n] + 1]
    BY <1>4 DEF Ask
  <2>3. edits' \in [Node -> Nat]
    BY <2>2 DEF TypeOK
  <2>. QED BY <2>1, <2>2, <2>3 DEF TypeOK, Recognised, Peer, FromHome
<1>5. ASSUME NEW n \in Node, NEW t \in Text, NEW place \in Place, HandleNodes(n, t, place)
      PROVE  IInv'
  <2>1. asked' \in [Node -> [Text \X Place -> Nat]]
    <3>1. asked \in [Node -> [Text \X Place -> Nat]] /\ <<t, place>> \in Text \X Place
      BY DEF TypeOK
    <3>2. asked[n][<<t, place>>] - 1 \in Nat
      <4>1. asked[n][<<t, place>>] \in Nat /\ asked[n][<<t, place>>] > 0
        BY <1>5, <3>1 DEF HandleNodes
      <4>. QED BY <4>1
    <3>3. asked' = [asked EXCEPT ![n][<<t, place>>] = asked[n][<<t, place>>] - 1]
      BY <1>5 DEF HandleNodes
    <3>. QED BY <3>1, <3>2, <3>3
  <2>2. CASE t # Self[n] /\ Valid(t)
    <3>1. Denotes[t] \in Endpoint /\ Resolved(t) = Written[Denotes[t]] /\ Resolved(t) \in Text
      BY <2>2, ResolvedIsWritten
    <3>2. \E class \in Class \cup {Absent} : peers' = [peers EXCEPT ![n][Written[Denotes[t]]] = class]
      BY <1>5, <2>2, <3>1 DEF HandleNodes, Toggled, Class
    <3>3. peers' \in [Node -> [Text -> Class \cup {Absent}]] /\ Recognised'
      BY <3>1, <3>2, OneMore
    <3>. QED BY <1>5, <2>1, <3>3 DEF HandleNodes, TypeOK, FromHome
  <2>3. CASE ~(t # Self[n] /\ Valid(t))
    BY <1>5, <2>1, <2>3 DEF HandleNodes, TypeOK, Recognised, Peer, FromHome
  <2>. QED BY <2>2, <2>3
<1>6. ASSUME NEW p \in net, Handle(p)
      PROVE  IInv'
  <2>. DEFINE n == Owner[p.to]
              t == Written[p.from]
  <2>1. p.from \in Endpoint /\ p.to \in Endpoint
    BY DEF TypeOK, Packet
  <2>2. n \in Node /\ t \in Text
    BY <2>1 DEF PeersAssumption
  <2>3. PICK class \in Class \cup {Absent} : peers' = [peers EXCEPT ![n][t] = class]
    <3>1. peers[n][t] \in Class \cup {Absent}
      BY <2>2 DEF TypeOK
    <3>2. peers' = [peers EXCEPT ![n][t] = IF peers[n][t] = Absent THEN "learned" ELSE peers[n][t]]
      BY <1>6 DEF Handle, Learn
    <3>. QED BY <3>1, <3>2 DEF Class
  <2>4. peers' \in [Node -> [Text -> Class \cup {Absent}]] /\ Recognised'
    BY <2>1, <2>2, <2>3, OneMore
  <2>5. net' \subseteq Packet /\ FromHome'
    <3>1. SentTo(n, t) \subseteq Packet /\ \A q \in SentTo(n, t) : SentFromHome(q)
      BY <2>2, SentIsPackets
    <3>2. net' \subseteq net \cup SentTo(n, t)
      BY <1>6 DEF Handle
    <3>. QED BY <3>1, <3>2 DEF TypeOK, FromHome
  <2>. QED BY <1>6, <2>4, <2>5 DEF Handle, TypeOK
<1>7. ASSUME NEW p \in net, Ignore(p) \/ Lose(p)
      PROVE  IInv'
  BY <1>7 DEF Ignore, Lose, TypeOK, Recognised, Peer, FromHome
<1>. QED BY <1>1, <1>2, <1>3, <1>4, <1>5, <1>6, <1>7 DEF Next

LEMMA ListsInv == Spec => []IInv
<1>1. Init => IInv
  BY PeersAssumption, ListsAtFirst
<1>2. IInv /\ [Next]_vars => IInv'
  BY PeersAssumption, ListsStep
<1>. QED BY <1>1, <1>2, PTL DEF Spec

\* The types of the peer lists, of what pages have asked and of the packets.
THEOREM PeersTypeCorrect == Spec => []TypeOK
BY ListsInv, PTL DEF IInv

\* A packet of a node that is listed under its home comes under the listed name,
\* which is that of the handler its answer is for (gossiper.go:110-114), and no
\* endpoint is listed twice: a text that is listed is what AddressToString writes.
THEOREM AnswersRecognised == Spec => []AnswersAreRecognised
<1>1. ASSUME IInv, NEW n \in Node, NEW t \in Peer(n), Valid(t)
      PROVE  Written[Denotes[t]] = t
  <2>1. PICK e \in Endpoint : Written[e] = t
    BY <1>1 DEF IInv, Recognised
  <2>2. Denotes[t] \in {e, Nowhere}
    BY <2>1, PeersAssumption DEF PeersAssumption
  <2>. QED BY <1>1, <2>1, <2>2 DEF Valid
<1>2. ASSUME IInv, NEW n \in Node, NEW t \in Peer(n), NamesHome(n, t), NEW p \in net,
             Owner[p.from] = Owner[Denotes[t]], Owner[p.to] = n
      PROVE  Written[p.from] = t
  <2>1. p.from = Denotes[t]
    BY <1>2 DEF NamesHome, IInv, FromHome, SentFromHome
  <2>. QED BY <1>1, <1>2, <2>1 DEF NamesHome
<1>3. ASSUME IInv, NEW n \in Node, NEW t \in Peer(n), NEW s \in Peer(n),
             Valid(s), Denotes[s] = Denotes[t]
      PROVE  s = t
  <2>1. Valid(t)
    BY <1>3 DEF Valid
  <2>. QED BY <1>1, <1>3, <2>1
<1>4. IInv => AnswersAreRecognised
  BY <1>2, <1>3 DEF AnswersAreRecognised
<1>. QED BY <1>4, ListsInv, PTL

\* A step removes peers and adds new ones but changes the class of none.
LEMMA ClassStep ==
    ASSUME PeersAssumption, TypeOK, Next, NEW n \in Node, NEW t \in Peer(n)
    PROVE  peers'[n][t] \in {peers[n][t], Absent}
<1>. t \in Text /\ peers[n][t] # Absent
  BY DEF Peer
<1>1. CASE UNCHANGED peers
  BY <1>1
<1>2. ASSUME NEW m \in Node, NEW s \in Text, NEW place \in Place, HandleNodes(m, s, place),
             peers' = Toggled(m, s), Valid(s)
      PROVE  peers'[n][t] \in {peers[n][t], Absent}
  <2>1. Resolved(s) \in Text
    BY <1>2, ResolvedIsWritten
  <2>2. CASE n = m /\ t = Resolved(s)
    BY <1>2, <2>1, <2>2 DEF Toggled, TypeOK
  <2>3. CASE ~(n = m /\ t = Resolved(s))
    BY <1>2, <2>1, <2>3 DEF Toggled, TypeOK
  <2>. QED BY <2>2, <2>3
<1>3. ASSUME NEW p \in net, Handle(p)
      PROVE  peers'[n][t] \in {peers[n][t], Absent}
  <2>1. Owner[p.to] \in Node /\ Written[p.from] \in Text
    BY DEF TypeOK, Packet, PeersAssumption
  <2>2. peers' = Learn(Owner[p.to], Written[p.from])
    BY <1>3 DEF Handle
  <2>. QED BY <2>1, <2>2 DEF Learn, TypeOK
<1>4. \/ UNCHANGED peers
      \/ \E m \in Node, s \in Text, place \in Place :
            HandleNodes(m, s, place) /\ peers' = Toggled(m, s) /\ Valid(s)
      \/ \E p \in net : Handle(p)
  BY DEF Next, Refresh, GossipWith, Ask, HandleNodes, Ignore, Lose
<1>. QED BY <1>1, <1>2, <1>3, <1>4

\* A peer the user entered stays "manual" when it sends packets, a learned one
\* "learned" when the user looks at it (gossiper.go:70-73).
THEOREM ClassesAreKept == Spec => ClassIsKept
<1>1. IInv /\ [Next]_vars =>
        [\A n \in Node : \A t \in Peer(n) : peers'[n][t] \in {peers[n][t], Absent}]_vars
  BY PeersAssumption, ClassStep DEF IInv
<1>. QED BY <1>1, ListsInv, PTL DEF Spec, ClassIsKept
==============================================================================
