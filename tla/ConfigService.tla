---------------------------- MODULE ConfigService ----------------------------
(***************************************************************************)
(* What the replicated control plane promises its readers: there is one    *)
(* append-only history of commands; every node serves the latest routing   *)
(* configuration of a prefix of it, and the prefix a node has seen never   *)
(* shrinks unless the node's storage is broken.                            *)
(***************************************************************************)
EXTENDS Integers, Sequences

CONSTANTS Node, Noop, None

VARIABLES
    history,  \* the one sequence of commands
    view,     \* view[n]: how much of the history node n has seen
    served,   \* served[n]: the configuration n answers reads with
    broken    \* broken[n]: n may restart with an older view

vars == <<history, view, served, broken>>

\* The latest configuration in the first k commands of h.
Latest(h, k) ==
    LET configs == {i \in 1..k : h[i].cmd # Noop}
    IN IF configs = {} THEN None
       ELSE LET i == CHOOSE i \in configs : \A j \in configs : j <= i
            IN [revision |-> i, term |-> h[i].term, cmd |-> h[i].cmd]

Init ==
    /\ history = << >>
    /\ view = [n \in Node |-> 0]
    /\ served = [n \in Node |-> None]
    /\ broken = [n \in Node |-> FALSE]

Extends(longer, shorter) ==
    /\ Len(longer) >= Len(shorter)
    /\ SubSeq(longer, 1, Len(shorter)) = shorter

\* Node n sees more of the history, which may grow on the way.
Learn(n) ==
    /\ Extends(history', history)
    /\ view'[n] \in view[n]..Len(history')
    /\ view' = [view EXCEPT ![n] = view'[n]]
    /\ served' = [served EXCEPT ![n] = Latest(history', view'[n])]
    /\ broken' \in {broken, [broken EXCEPT ![n] = TRUE]}

\* Node n restarts; it comes back healthy, with at most what it had seen,
\* and with exactly that unless it was broken.
Restart(n) ==
    /\ UNCHANGED history
    /\ view'[n] \in IF broken[n] THEN 0..Len(history) ELSE {view[n]}
    /\ view' = [view EXCEPT ![n] = view'[n]]
    /\ served' = [served EXCEPT ![n] = Latest(history, view'[n])]
    /\ broken' = [broken EXCEPT ![n] = FALSE]

Next == \E n \in Node : Learn(n) \/ Restart(n)

\* Some time in the life of the service, its start included.
Midway ==
    /\ \A n \in Node : view[n] \in 0..Len(history)
    /\ served = [n \in Node |-> Latest(history, view[n])]
    /\ broken \in [Node -> BOOLEAN]

Spec == Midway /\ [][Next]_vars
=============================================================================
