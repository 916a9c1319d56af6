---------------------------- MODULE SerialExecutor ----------------------------
(***************************************************************************)
(* What the event loop of a gossiper promises: closures handed to it are   *)
(* executed one at a time, each exactly once, in the order they were       *)
(* handed over, and a caller of RunSync gets control back only after its   *)
(* own closure was executed.  There is no bound on the closures waiting.   *)
(***************************************************************************)
EXTENDS Sequences

CONSTANTS
    Caller,   \* the threads that call RunSync
    Closure,  \* the closures
    Sync      \* Sync[c]: the closures c waits for

VARIABLES
    todo,  \* closures handed over and not executed yet, oldest first
    call   \* "idle", "waiting" for the closure, or "answered": it was executed

Init ==
    /\ todo = <<>>
    /\ call = [c \in Caller |-> "idle"]

\* Hand over a closure nobody waits for.
Submit(e) ==
    /\ \A c \in Caller : e \notin Sync[c]
    /\ todo' = Append(todo, e)
    /\ UNCHANGED call

\* Hand over a closure and wait for it.
Call(c, e) ==
    /\ call[c] = "idle"
    /\ e \in Sync[c]
    /\ todo' = Append(todo, e)
    /\ call' = [call EXCEPT ![c] = "waiting"]

Execute ==
    /\ todo # <<>>
    /\ todo' = Tail(todo)
    /\ call' = [c \in Caller |-> IF Head(todo) \in Sync[c] THEN "answered" ELSE call[c]]

Return(c) ==
    /\ call[c] = "answered"
    /\ call' = [call EXCEPT ![c] = "idle"]
    /\ UNCHANGED todo

Next ==
    \/ \E e \in Closure : Submit(e)
    \/ \E c \in Caller, e \in Closure : Call(c, e)
    \/ Execute
    \/ \E c \in Caller : Return(c)

SafeSpec == Init /\ [][Next]_<<todo, call>>

Spec == SafeSpec /\ WF_<<todo, call>>(Execute)
                 /\ \A c \in Caller : WF_<<todo, call>>(Return(c))
===============================================================================
