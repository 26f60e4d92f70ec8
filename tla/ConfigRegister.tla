--------------------------- MODULE ConfigRegister ---------------------------
(***************************************************************************)
(* What configuration delivery promises a node, without its mechanism: the *)
(* control plane publishes configurations under growing version numbers,   *)
(* and the node serves one of them, exactly as it was published.  While it *)
(* runs it only moves to later versions; a restart may take it back.       *)
(***************************************************************************)
EXTENDS Integers

CONSTANTS Content, None

VARIABLES
    history,    \* what was published, by version
    serving,    \* the version the node serves, 0 for nothing
    served      \* the configuration it serves

vars == <<history, serving, served>>

Extended(h, v, c) == [x \in DOMAIN h \cup {v} |-> IF x = v THEN c ELSE h[x]]

Init ==
    /\ history = [v \in {} |-> None]
    /\ serving = 0
    /\ served = None

Publish(v, c) ==
    /\ v > 0 /\ \A x \in DOMAIN history : x < v
    /\ history' = Extended(history, v, c)
    /\ UNCHANGED <<serving, served>>

Serve(v) ==
    /\ v \in DOMAIN history /\ v > serving
    /\ serving' = v
    /\ served' = history[v]
    /\ UNCHANGED history

\* The node stops.  Its restart is a Serve: of a version it had kept, or of
\* the newest once it reaches the control plane.
Stop ==
    /\ serving' = 0
    /\ served' = None
    /\ UNCHANGED history

Next ==
    \/ \E v \in DOMAIN history' \ DOMAIN history, c \in Content : Publish(v, c)
    \/ \E v \in DOMAIN history : Serve(v)
    \/ Stop

Spec == Init /\ [][Next]_vars
=============================================================================
