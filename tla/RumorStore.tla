------------------------------ MODULE RumorStore ------------------------------
(***************************************************************************)
(* The message store of one gossiper and the pure functions over it:       *)
(* database.go (the SQLite table "messages"), the vector clocks and the    *)
(* verification and insertion rules of context.go, and the parts of        *)
(* message.go they call.                                                   *)
(*                                                                         *)
(* A store is the set of rows of the table.  A node's display name, its    *)
(* key pair and its address are one identity, an element of Node.  The     *)
(* body of a message stands for everything in it but origin and ID:        *)
(* destination, content, signature and nonce.  RSA-PSS salts every         *)
(* signature and OAEP every ciphertext, so two composed messages never     *)
(* have the same body, not even for the same text.                         *)
(***************************************************************************)
EXTENDS Naturals, FiniteSetsExt

CONSTANTS
    Node,       \* the gossipers
    Body,       \* message bodies
    KeyBody,    \* KeyBody[n]: the body of n's public key announcement
    Recipient,  \* Recipient[b]: {} for a public message, {d} for one to d
    Digest,     \* Digest[b]: the rank of the SHA-256 hash of a message with body b
    Zeros,      \* Zeros[b]: what NumLeadingZeros gives for that hash
    PowTarget   \* PowTarget[n]: the -powDifficulty of node n

\* A node computes the nonces of its messages for its own difficulty, its
\* announcement included; names are derived from keys, so keys differ.
ASSUME StoreAssumption ==
    /\ KeyBody \in [Node -> Body]
    /\ \A n, o \in Node : KeyBody[n] = KeyBody[o] => n = o
    /\ Recipient \in [Body -> SUBSET Node]
    /\ Digest \in [Body -> Nat]
    /\ \A b, c \in Body : Digest[b] = Digest[c] => b = c
    /\ Zeros \in [Body -> Nat]
    /\ PowTarget \in [Node -> Nat]
    /\ \A n \in Node : Zeros[KeyBody[n]] >= PowTarget[n]

\* RumorMessage, what a row and a rumor packet hold
Message == [origin : Node, id : Nat, body : Body]

Announcement(n) == [origin |-> n, id |-> 0, body |-> KeyBody[n]]

(***************************************************************************)
(* database.go                                                             *)
(***************************************************************************)

\* SELECT ... WHERE Origin = o AND ID = i: a set of rows, empty where Go returns nil
GetMessage(store, o, i) == {m \in store : m.origin = o /\ m.id = i}

IDs(store, o) == {m.id : m \in {r \in store : r.origin = o}}

\* (mutant) MAX(ID) without the + 1
LastID(store, o) == IF IDs(store, o) = {} THEN 0 ELSE Max(IDs(store, o))

NextID(store, o) ==
    IF IDs(store, o) = {} THEN 0 ELSE Max(IDs(store, o)) + 1

\* Origins without a row are absent from the Go slice; here they map to 0, a
\* value no origin with a row can have.
VectorClock(store) == [o \in Node |-> NextID(store, o)]

InsertOrUpdateMessage(store, m) ==
    (store \ GetMessage(store, m.origin, m.id)) \cup {m}

(***************************************************************************)
(* context.go                                                              *)
(***************************************************************************)

\* GetPublicKeyOf succeeds: the announcement of o, the message with ID 0, is stored
KeyKnown(store, o) == GetMessage(store, o, 0) # {}

\* SanityCheck: messages built by this program have the right field lengths,
\* what is left is the proof of work
SanityCheck(n, m) == Zeros[m.body] >= PowTarget[n]

\* (mutant) a node refuses rumors under its own name
VerifyForeign(n, store, m) == m.origin # n /\ SanityCheck(n, m)

\* Signatures always match here: only its origin signs a message.
VerifyMessage(n, store, m) ==
    /\ SanityCheck(n, m)
    /\ IF m.id = 0 THEN m.body = KeyBody[m.origin] ELSE KeyKnown(store, m.origin)

\* (mutant) the comparison the other way round
HighestPreferred(store, m) ==
    \A old \in GetMessage(store, m.origin, m.id) : Digest[m.body] > Digest[old.body]

\* CompareHashes(...) == -1 against the row with the same origin and ID
Preferred(store, m) ==
    \A old \in GetMessage(store, m.origin, m.id) : Digest[m.body] < Digest[old.body]

\* (mutant) out-of-order messages are inserted too
AcceptsGap(store, m) == m.id >= NextID(store, m.origin) \/ Preferred(store, m)

\* TryInsertMessage returns true
Accepts(store, m) ==
    \/ m.id = NextID(store, m.origin)
    \/ m.id < NextID(store, m.origin) /\ Preferred(store, m)

\* VectorClockEquals
SameClock(store, want) == VectorClock(store) = want

\* First result of VectorClockDifference: <<origin, next ID the other side wants>>
\* where this store is ahead (an origin the other side does not list wants 0)
Ahead(store, want) ==
    {<<o, want[o]>> : o \in {p \in Node : NextID(store, p) > want[p]}}

\* The rumors synchronizeMessages sends: one per origin, the next in order
Missing(store, want) == UNION {GetMessage(store, d[1], d[2]) : d \in Ahead(store, want)}

\* (mutants) no announcement; a new table at every launch
LaunchedSilently(n, store) == store
LaunchedOnNewTable(n, store) == {Announcement(n)}

\* InsertKeyAnnouncementMessage, run at every launch on the store found on disk
Launched(n, store) ==
    IF NextID(store, n) = 0
    THEN InsertOrUpdateMessage(store, Announcement(n))
    ELSE store
(***************************************************************************)
(* What every store is meant to look like: the IDs of an origin are those  *)
(* below its next one, and no two rows share origin and ID.                *)
(***************************************************************************)
NoGap(store) ==
    \A o \in Node : /\ NextID(store, o) \in Nat
                    /\ IDs(store, o) = 0 .. NextID(store, o) - 1

OneRowPerID(store) ==
    \A m, k \in store : m.origin = k.origin /\ m.id = k.id => m = k

WellFormed(store) == NoGap(store) /\ OneRowPerID(store)
===============================================================================
