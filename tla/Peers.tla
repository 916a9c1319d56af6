-------------------------------- MODULE Peers --------------------------------
(***************************************************************************)
(* The peer list of every gossiper (Context.PeerSet): what the -peers      *)
(* flag, the Add/remove field, the (X) of the page and the packets of      *)
(* others do to it.  Gossip identifies a node with its address; here an    *)
(* address is a text, several texts denote one endpoint, a node has        *)
(* several endpoints, and a node may end up with itself as a peer.         *)
(*                                                                         *)
(* Every POST /node and every packet is one closure of the event loop,     *)
(* hence one step.                                                         *)
(***************************************************************************)
EXTENDS Naturals

CONSTANTS
    Node,
    Text,      \* what is typed, printed and stored as an address
    Endpoint,  \* sockets: an IP address and a port
    Nowhere,
    Owner,     \* Owner[e]: the gossiper that listens at e
    Home,      \* Home[n]: where the packets of n to others come from
    Denotes,   \* Denotes[t]: net.ResolveUDPAddr with an IP, or Nowhere
    Written,     \* Written[e]: AddressToString, also used by Receive for senders
    Self,      \* Self[n]: ThisNodeAddress, the text of -gossipAddr
    PeerFlag,  \* PeerFlag[n]: the texts of -peers
    Typed,     \* Typed[n]: what the user of n may type in Add/remove
    MaxEdit    \* bound: requests for the peer list, per node

Absent == "absent"
Class == {"manual", "learned"}

\* A node refuses to start with a -peers it cannot resolve (FailOnError).  What
\* is printed for an endpoint denotes it or nothing: an IPv6 address is printed
\* without its brackets and cannot be read again.
ASSUME PeersAssumption ==
    /\ Nowhere \notin Endpoint
    /\ Owner \in [Endpoint -> Node]
    /\ Home \in [Node -> Endpoint]
    /\ Denotes \in [Text -> Endpoint \cup {Nowhere}]
    /\ Written \in [Endpoint -> Text]
    /\ Self \in [Node -> Text]
    /\ PeerFlag \in [Node -> SUBSET {t \in Text : Denotes[t] # Nowhere}]
    /\ Typed \in [Node -> SUBSET Text]
    /\ \A n \in Node : Owner[Home[n]] = n
    /\ \A d, e \in Endpoint : Written[d] = Written[e] => d = e
    /\ \A e \in Endpoint : Denotes[Written[e]] \in {e, Nowhere}
    /\ MaxEdit \in Nat

VARIABLES
    peers,  \* PeerSet: the class of every peer of a node
    page,   \* the peers the page of a node lists
    asked,  \* requests POST /node on their way, by text and place of the click
    edits,  \* requests the user of a node has made
    net     \* packets in flight: from an endpoint to an endpoint (a second one
            \* of the same kind changes nothing)

vars == <<peers, page, asked, edits, net>>

Peer(n) == {t \in Text : peers[n][t] # Absent}

Packet == [from : Endpoint, to : Endpoint]

Place == {"field", "cross"}

TypeOK ==
    /\ peers \in [Node -> [Text -> Class \cup {Absent}]]
    /\ page \in [Node -> SUBSET Text]
    /\ asked \in [Node -> [Text \X Place -> Nat]]
    /\ edits \in [Node -> Nat]
    /\ net \subseteq Packet

\* CheckAndResolveAddress
Valid(t) == Denotes[t] # Nowhere

Resolved(t) == Written[Denotes[t]]

Init ==
    /\ peers = [n \in Node |-> [t \in Text |->
                   IF \E f \in PeerFlag[n] : Resolved(f) = t THEN "manual" ELSE Absent]]
    /\ page = [n \in Node |-> {}]
    /\ asked = [n \in Node |-> [r \in Text \X Place |-> 0]]
    /\ edits = [n \in Node |-> 0]
    /\ net = {}

\* Send resolves the text again and drops what it cannot resolve.  What a node
\* sends to itself comes from the endpoint it is sent to.
SentTo(n, t) ==
    IF Valid(t)
    THEN {[from |-> IF Owner[Denotes[t]] = n THEN Denotes[t] ELSE Home[n], to |-> Denotes[t]]}
    ELSE {}

-----------------------------------------------------------------------------
(* Packets *)

\* RandomPeer picks t, for anti-entropy, for mongering or to go on mongering.
GossipWith(n, t) ==
    /\ t \in Peer(n)
    /\ net' = net \cup SentTo(n, t)
    /\ UNCHANGED <<peers, page, asked, edits>>

\* (mutant) the class is set without looking whether the peer is known
LearnAlways(n, t) == [peers EXCEPT ![n][t] = "learned"]

\* (mutant) the sender gets the class only the page knows
LearnAsShortCircuit(n, t) ==
    [peers EXCEPT ![n][t] = IF @ = Absent THEN "short-circuited" ELSE @]

\* (mutant) packets do not touch the list
LearnNobody(n, t) == peers

\* What a packet does to the list, whatever it holds
Learn(n, t) == [peers EXCEPT ![n][t] = IF @ = Absent THEN "learned" ELSE @]

\* A packet of another node, or of this one that does not look like it: it may
\* be answered (an acknowledgement, missing messages) or not.
Handle(p) ==
    LET n == Owner[p.to] IN
    /\ Written[p.from] # Self[n]
    /\ peers' = Learn(n, Written[p.from])
    /\ \E answer \in {{}, SentTo(n, Written[p.from])} : net' = (net \ {p}) \cup answer
    /\ UNCHANGED <<page, asked, edits>>

\* "This should not happen"
Ignore(p) ==
    /\ Written[p.from] = Self[Owner[p.to]]
    /\ net' = net \ {p}
    /\ UNCHANGED <<peers, page, asked, edits>>

Lose(p) ==
    /\ net' = net \ {p}
    /\ UNCHANGED <<peers, page, asked, edits>>

-----------------------------------------------------------------------------
(* The user *)

\* The page asks for the list now and then.
Refresh(n) ==
    /\ page' = [page EXCEPT ![n] = Peer(n)]
    /\ UNCHANGED <<peers, asked, edits, net>>

Ask(n, t, place) ==
    /\ edits[n] < MaxEdit
    /\ t \in IF place = "cross" THEN page[n] ELSE Typed[n]
    /\ asked' = [asked EXCEPT ![n][<<t, place>>] = @ + 1]
    /\ edits' = [edits EXCEPT ![n] = @ + 1]
    /\ UNCHANGED <<peers, page, net>>

\* (mutant) the text is stored as it was typed
ToggledAsTyped(n, t) == [peers EXCEPT ![n][t] = IF @ = Absent THEN "manual" ELSE Absent]

\* handleNodes: remove the peer if it is there, otherwise add it
Toggled(n, t) == [peers EXCEPT ![n][Resolved(t)] = IF @ = Absent THEN "manual" ELSE Absent]

HandleNodes(n, t, place) ==
    /\ asked[n][<<t, place>>] > 0
    /\ asked' = [asked EXCEPT ![n][<<t, place>>] = @ - 1]
    /\ peers' = IF t # Self[n] /\ Valid(t) THEN Toggled(n, t) ELSE peers
    /\ UNCHANGED <<page, edits, net>>

-----------------------------------------------------------------------------

Next ==
    \/ \E n \in Node :
          \/ Refresh(n)
          \/ \E t \in Text :
                \/ GossipWith(n, t)
                \/ \E place \in Place : Ask(n, t, place) \/ HandleNodes(n, t, place)
    \/ \E p \in net : Handle(p) \/ Ignore(p) \/ Lose(p)

Spec == Init /\ [][Next]_vars

\* Anti-entropy picks every peer again and again, a link does not lose
\* everything, and requests are served.
Fairness ==
    /\ \A n \in Node : \A m \in Node \ {n} :
          /\ SF_vars(\E t \in Peer(n) : Valid(t) /\ Owner[Denotes[t]] = m /\ GossipWith(n, t))
          /\ SF_vars(\E p \in net : Owner[p.from] = n /\ Owner[p.to] = m /\ Handle(p))
    /\ \A n \in Node :
          WF_vars(\E t \in Text, place \in Place : HandleNodes(n, t, place))

FairSpec == Spec /\ Fairness

-----------------------------------------------------------------------------

\* t denotes the endpoint the packets of another node come from.
NamesHome(n, t) ==
    /\ Valid(t)
    /\ Owner[Denotes[t]] # n
    /\ Denotes[t] = Home[Owner[Denotes[t]]]

(***************************************************************************)
(* A packet of a node that is listed under the address it sends from has   *)
(* the name under which it is listed: a handler set for that peer is the   *)
(* one its answer is looked up for (gossiper.go:110-114, socket.go:45).    *)
(* And no endpoint is listed under two names.  A node that was entered     *)
(* under another of its addresses answers under a name of its own, and the *)
(* handler is missed: nothing is said of such an entry.                    *)
(***************************************************************************)
AnswersAreRecognised ==
    \A n \in Node : \A t \in Peer(n) :
        /\ NamesHome(n, t) =>
              \A p \in net : Owner[p.from] = Owner[Denotes[t]] /\ Owner[p.to] = n
                                => Written[p.from] = t
        /\ \A s \in Peer(n) : Valid(s) /\ Denotes[s] = Denotes[t] => s = t

(***************************************************************************)
(* The class of a peer says how it came into the list: a peer the user     *)
(* entered does not turn into a learned one by talking, nor the other way  *)
(* round.                                                                  *)
(***************************************************************************)
ClassIsKept ==
    [][\A n \in Node : \A t \in Peer(n) : peers'[n][t] \in {peers[n][t], Absent}]_vars

Lists(n, m) == \E t \in Peer(n) : Valid(t) /\ Owner[Denotes[t]] = m

(***************************************************************************)
(* One direction is enough: a node that keeps a gossiper in its list ends  *)
(* up in the list of that gossiper, also when it was removed there.        *)
(***************************************************************************)
Discovery ==
    \A n, m \in Node : n # m => (<>[]Lists(n, m) => <>[](Written[Home[n]] \in Peer(m)))
==============================================================================
