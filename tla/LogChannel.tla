---------------------------- MODULE LogChannel ----------------------------
(***************************************************************************)
(* What the network logging promises to the tasks that log: a queue of     *)
(* lines, first in first out over all tasks, from which a line is missing  *)
(* for two reasons only.  It was logged when the queue was full, or its    *)
(* turn to be sent came without a connection.  No ring, no client task and *)
(* no protocol.                                                            *)
(*                                                                         *)
(* The promise is for one writer at a time and for lines that are not too  *)
(* long.  After a second writer has begun, or a line overrun its array,    *)
(* nothing is promised.                                                    *)
(***************************************************************************)
EXTENDS Integers, Sequences

CONSTANTS
    Tasks,       \* the tasks that log
    Capacity     \* the lines the queue has room for

VARIABLES
    logged,      \* lines logged so far, by task: they have these numbers
    writing,     \* the line being written, in a set of at most one
    queue,       \* the lines waiting
    taken,       \* the line the client has taken, in a set of at most one
    sent,        \* the lines given to the network
    connected,   \* is there a connection?
    spoilt       \* have two tasks been writing at once, or a line overrun?

vars == <<logged, writing, queue, taken, sent, connected, spoilt>>

Init ==
    /\ logged = [t \in Tasks |-> 0]
    /\ writing = {} /\ queue = << >> /\ taken = {} /\ sent = << >>
    /\ connected \in BOOLEAN /\ spoilt = FALSE

HasRoom == Len(queue) < Capacity

Count(t) == logged' = [logged EXCEPT ![t] = @ + 1]

Drop(t) ==
    /\ ~HasRoom /\ Count(t)
    /\ UNCHANGED <<writing, queue, taken, sent, connected, spoilt>>

Begin(t) ==
    /\ HasRoom /\ writing = {} /\ Count(t)
    /\ writing' = {<<t, logged'[t]>>}
    /\ UNCHANGED <<queue, taken, sent, connected, spoilt>>

End ==
    /\ \E line \in writing : queue' = Append(queue, line)
    /\ writing' = {}
    /\ UNCHANGED <<logged, taken, sent, connected, spoilt>>

Take ==
    /\ queue # << >> /\ taken = {}
    /\ taken' = {Head(queue)} /\ queue' = Tail(queue)
    /\ UNCHANGED <<logged, writing, sent, connected, spoilt>>

Send ==
    /\ \E line \in taken : sent' = Append(sent, line)
    /\ taken' = {}
    /\ UNCHANGED <<logged, writing, queue, connected, spoilt>>

Skip ==
    /\ ~connected /\ taken # {} /\ taken' = {}
    /\ UNCHANGED <<logged, writing, queue, sent, connected, spoilt>>

Link ==
    /\ connected' = ~connected
    /\ UNCHANGED <<logged, writing, queue, taken, sent, spoilt>>

\* A second writer, or a line too long; what becomes of the lines from here on
\* is left open.
Spoil(t) == Count(t) /\ spoilt' = TRUE

Spoilt == spoilt /\ spoilt' = TRUE

Next == \/ \E t \in Tasks : Drop(t) \/ Begin(t) \/ Spoil(t)
        \/ End \/ Take \/ Send \/ Skip \/ Link
        \/ Spoilt

Spec == Init /\ [][Next]_vars

============================================================================
