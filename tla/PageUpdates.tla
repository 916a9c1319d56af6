------------------------------ MODULE PageUpdates ------------------------------
(***************************************************************************)
(* How the page of a gossiper follows its node: update() asks for four     *)
(* resources at once every second and after every request that succeeded,  *)
(* without waiting for the round before; $.when collects the answers and   *)
(* their display asks for the messages of every open chat.                 *)
(*                                                                         *)
(* The data of the node is a version number: what a GET of any resource    *)
(* returns is the version at the time its closure runs.                    *)
(***************************************************************************)
EXTENDS Naturals, FiniteSets

CONSTANTS
    Resource,    \* /id, /node, /message and /routes
    Chat,        \* nodes with an open tab
    Round,       \* rounds of update() under way (bound)
    MaxVersion,  \* bound: changes of the node's data
    MaxFailure   \* bound: requests that fail

ASSUME PageUpdatesAssumption ==
    /\ Resource # {}
    /\ Resource \cap Chat = {}
    /\ IsFiniteSet(Resource)
    /\ MaxVersion \in Nat /\ MaxFailure \in Nat

VARIABLES
    version,   \* the data of the node
    request,   \* the GETs of a round: not sent, sent, answered with a version,
               \* arrived with it, failed
    round,     \* $.when of a round: the answers missing, its state, and the
               \* version when update() was called
    shown,     \* what the page displays of every resource and chat
    sending,   \* the message being sent: "no", "sent", "stored" or "failed"
    failures

vars == <<version, request, round, shown, sending, failures>>

Version == 0 .. MaxVersion

Item == Resource \cup Chat

Unsent == [stage |-> "none", value |-> 0]

Master == {"idle", "pending", "resolved", "rejected", "shown"}

TypeOK ==
    /\ version \in Version
    /\ request \in [Round -> [Item ->
          [stage : {"none", "sent", "answered", "arrived", "failed"}, value : Version]]]
    /\ round \in [Round ->
          [remaining : 0 .. Cardinality(Resource), master : Master, since : Version]]
    /\ shown \in [Item -> Version]
    /\ sending \in {"no", "sent", "stored", "failed"}
    /\ failures \in 0 .. MaxFailure

NoRound == [remaining |-> 0, master |-> "idle", since |-> 0]

Init ==
    /\ version = 0
    /\ request = [u \in Round |-> [x \in Item |-> Unsent]]
    /\ round = [u \in Round |-> NoRound]
    /\ shown = [x \in Item |-> 0]
    /\ sending = "no"
    /\ failures = 0

-----------------------------------------------------------------------------
(* One round of update() *)

Asked(u, items) ==
    [request EXCEPT ![u] = [x \in Item |-> IF x \in items
                                           THEN [stage |-> "sent", value |-> 0] ELSE @[x]]]

\* Call update() with u for its $.when
Start(u) ==
    /\ round[u].master = "idle"
    /\ request' = Asked(u, Resource)
    /\ round' = [round EXCEPT ![u] = [remaining |-> Cardinality(Resource),
                                      master |-> "pending", since |-> version]]

\* Every second
Tick(u) ==
    /\ Start(u)
    /\ UNCHANGED <<version, shown, sending, failures>>

\* (mutant) the answer was made before the node changed last
ServeOld(u, x) ==
    /\ request[u][x].stage = "sent"
    /\ request' = [request EXCEPT ![u][x] =
                      [stage |-> "answered", value |-> IF version = 0 THEN 0 ELSE version - 1]]
    /\ UNCHANGED <<version, round, shown, sending, failures>>

\* The closure of the GET runs on the event loop of the node.
Serve(u, x) ==
    /\ request[u][x].stage = "sent"
    /\ request' = [request EXCEPT ![u][x] = [stage |-> "answered", value |-> version]]
    /\ UNCHANGED <<version, round, shown, sending, failures>>

\* updateFunc of $.when: the last answer resolves the master.
Fulfilled(m) ==
    [m EXCEPT !.remaining = @ - 1, !.master = IF m.remaining = 1 THEN "resolved" ELSE @]

\* adoptValue: the first failure rejects the master, once.
Rejected(m) == [m EXCEPT !.master = IF @ = "pending" THEN "rejected" ELSE @]

\* (mutant) the answer of a chat counts as one of the round
ArriveCounted(u, x) ==
    /\ request[u][x].stage = "answered"
    /\ request' = [request EXCEPT ![u][x].stage = "arrived"]
    /\ round' = [round EXCEPT ![u] = Fulfilled(@)]
    /\ shown' = IF x \in Chat THEN [shown EXCEPT ![x] = request[u][x].value] ELSE shown
    /\ UNCHANGED <<version, sending, failures>>

\* The answer of a resource, or of a chat, which is displayed at once
Arrive(u, x) ==
    /\ request[u][x].stage = "answered"
    /\ request' = [request EXCEPT ![u][x].stage = "arrived"]
    /\ round' = IF x \in Resource THEN [round EXCEPT ![u] = Fulfilled(@)] ELSE round
    /\ shown' = IF x \in Chat THEN [shown EXCEPT ![x] = request[u][x].value] ELSE shown
    /\ UNCHANGED <<version, sending, failures>>

\* (mutant) a failed request counts as an answer
FailAsAnswer(u, x) ==
    /\ failures < MaxFailure
    /\ request[u][x].stage \in {"sent", "answered"}
    /\ request' = [request EXCEPT ![u][x].stage = "failed"]
    /\ round' = IF x \in Resource THEN [round EXCEPT ![u] = Fulfilled(@)] ELSE round
    /\ failures' = failures + 1
    /\ UNCHANGED <<version, shown, sending>>

Fail(u, x) ==
    /\ failures < MaxFailure
    /\ request[u][x].stage \in {"sent", "answered"}
    /\ request' = [request EXCEPT ![u][x].stage = "failed"]
    /\ round' = IF x \in Resource THEN [round EXCEPT ![u] = Rejected(@)] ELSE round
    /\ failures' = failures + 1
    /\ UNCHANGED <<version, shown, sending>>

\* (mutant) the open chats are left as they are
ShowNoChats(u) ==
    /\ round[u].master = "resolved"
    /\ shown' = [x \in Item |-> IF x \in Resource THEN request[u][x].value ELSE shown[x]]
    /\ round' = [round EXCEPT ![u].master = "shown"]
    /\ UNCHANGED <<version, request, sending, failures>>

\* The callback of then: display the four resources, ask for the open chats.
Show(u) ==
    /\ round[u].master = "resolved"
    /\ shown' = [x \in Item |-> IF x \in Resource THEN request[u][x].value ELSE shown[x]]
    /\ request' = Asked(u, Chat)
    /\ round' = [round EXCEPT ![u].master = "shown"]
    /\ UNCHANGED <<version, sending, failures>>

\* Nothing of the round is under way any more.
Finish(u) ==
    /\ round[u].master \in {"rejected", "shown"}
    /\ \A x \in Item : request[u][x].stage \in {"none", "arrived", "failed"}
    /\ request' = [request EXCEPT ![u] = [x \in Item |-> Unsent]]
    /\ round' = [round EXCEPT ![u] = NoRound]
    /\ UNCHANGED <<version, shown, sending, failures>>

-----------------------------------------------------------------------------
(* Sending a message: the button is disabled until the answer. *)

Send ==
    /\ sending = "no"
    /\ sending' = "sent"
    /\ UNCHANGED <<version, request, round, shown, failures>>

\* The node stores the message.
Store ==
    /\ sending = "sent"
    /\ version < MaxVersion
    /\ version' = version + 1
    /\ sending' = "stored"
    /\ UNCHANGED <<request, round, shown, failures>>

SendFails ==
    /\ sending \in {"sent", "stored"}
    /\ sending' = "failed"
    /\ UNCHANGED <<version, request, round, shown, failures>>

\* success: update() and a new message can be typed
SendSucceeds(u) ==
    /\ sending = "stored"
    /\ Start(u)
    /\ sending' = "no"
    /\ UNCHANGED <<version, shown, failures>>

\* error: an alert
Alert ==
    /\ sending = "failed"
    /\ sending' = "no"
    /\ UNCHANGED <<version, request, round, shown, failures>>

\* The node changes by itself.
Change ==
    /\ version < MaxVersion
    /\ version' = version + 1
    /\ UNCHANGED <<request, round, shown, sending, failures>>

-----------------------------------------------------------------------------

Next ==
    \/ \E u \in Round :
          \/ Tick(u) \/ Show(u) \/ Finish(u) \/ SendSucceeds(u)
          \/ \E x \in Item : Serve(u, x) \/ Arrive(u, x) \/ Fail(u, x)
    \/ Send \/ Store \/ SendFails \/ Alert
    \/ Change

Spec == Init /\ [][Next]_vars

\* The timer, the event loop and the network go on.
Fairness ==
    \A u \in Round :
        /\ WF_vars(Tick(u))
        /\ WF_vars(Show(u))
        /\ WF_vars(Finish(u))
        /\ \A x \in Item : WF_vars(Serve(u, x)) /\ WF_vars(Arrive(u, x))

FairSpec == Spec /\ Fairness

-----------------------------------------------------------------------------

(***************************************************************************)
(* A round is displayed only when all of its answers have come             *)
(* (peersterUi.js:119): one that failed shows no part of it.               *)
(***************************************************************************)
AllOrNothing ==
    \A u \in Round :
        /\ round[u].master \in {"resolved", "shown"} =>
              \A x \in Resource : request[u][x].stage = "arrived"
        /\ round[u].master \in {"idle", "pending"} =>
              \A x \in Item : request[u][x].stage # "failed" \/ x \in Chat

(***************************************************************************)
(* What a round displays is not older than its update() call: the message  *)
(* whose success called it is there (peersterUi.js:28, 49).  A round       *)
(* before it that takes longer may still take it off the page for a while. *)
(***************************************************************************)
RoundIsRecent ==
    [][\A u \in Round : round[u].master = "resolved" /\ round'[u].master = "shown" =>
           \A x \in Resource : shown'[x] >= round[u].since]_vars

(***************************************************************************)
(* However rounds overlap and whatever failed, the page ends up with the   *)
(* data of the node.                                                       *)
(***************************************************************************)
PageCatchesUp == <>[](\A x \in Item : shown[x] = version)
================================================================================
