---------------------------- MODULE ReplicatedLog ----------------------------
(***************************************************************************)
(* What gossiping promises, without packets, goroutines, clocks or         *)
(* crashes: every node writes a log of its own messages that only grows,   *)
(* and every other node holds a prefix of it, which it extends with the    *)
(* entry that comes next.  Nothing that was there once is taken back or    *)
(* changed.                                                                *)
(***************************************************************************)
EXTENDS SequencesExt

CONSTANTS
    Node,
    Body    \* the entries

VARIABLE
    log     \* log[n][o]: the log of o as n has it

Init ==
    /\ log \in [Node -> [Node -> Seq(Body)]]
    /\ \A n, o \in Node : IsPrefix(log[n][o], log[o][o])

\* b is the next entry of o for n; no other log changes.
Extend(n, o, b) ==
    /\ log'[n][o] = Append(log[n][o], b)
    /\ log' = [log EXCEPT ![n][o] = log'[n][o]]

\* The author writes an entry; nobody has it yet.
Publish(o, b) == Extend(o, o, b)

\* A node gets the first entry of o that it lacks.
Copy(n, o) ==
    /\ Len(log[n][o]) < Len(log[o][o])
    /\ Extend(n, o, log[o][o][Len(log[n][o]) + 1])

Next ==
    \/ \E o \in Node, b \in Body : Publish(o, b)
    \/ \E n, o \in Node : Copy(n, o)

Spec == Init /\ [][Next]_log
==============================================================================
