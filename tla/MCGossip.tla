------------------------------ MODULE MCGossip ------------------------------
(* Values for the constants of Gossip in the TLC runs. *)
EXTENDS Gossip, TLC

CONSTANTS a, b, ka, kb, x, y

Pair == {a, b}
PairKeys == (a :> ka @@ b :> kb)

\* Hash ranks and proof of work: x is the preferred version of a conflict.
Rank == (x :> 1 @@ y :> 2 @@ ka :> 3 @@ kb :> 4)
Enough == [v \in Body |-> 1]
SameTarget == [n \in Node |-> 1]

AllPublic == [v \in Body |-> {}]
\* y is a private message to b
PrivateToB == [v \in Body |-> IF v = y THEN {b} ELSE {}]

\* a knows b; b has to learn of a
OneWay == (a :> {b} @@ b :> {})

\* First launches on empty databases
Empty == [n \in Node |-> {}]
\* Launches on databases that hold every announcement
Announced == [n \in Node |-> {Announcement(o) : o \in Node}]
\* The same, but b also holds a message of a, and a has lost its messages.db
AuthorLostIts ==
    (a :> {} @@ b :> {Announcement(a), Announcement(b), [origin |-> a, id |-> 1, body |-> x]})

ClientTaskSymmetry == Permutations(Task) \cup Permutations(Client)
=============================================================================
