------------------------------ MODULE MCHealth ------------------------------
(* Scenes for the model checker. *)
EXTENDS HealthIngest, TLC

CONSTANTS n1, n2, x1, t1

\* What an agent has: the rule's service, if any, and the relay, if any.
Has(rule, relay) == (x1 :> rule) @@ (t1 :> relay)

\* One node whose beats overlap, with a rule and a relay.
Overlapping(rule, relay) ==
    [nodes |-> {n1}, services |-> {x1, t1}, slots |-> {1, 2},
     world |-> (n1 :> Has(rule, relay)) @@ (n2 :> Has(None, None)),
     hosts |-> (x1 :> {n1}), changes |-> 1, mishaps |-> 0]

\* Two nodes, of which at first one serves the rule, while it is paused and resumed,
\* moved, or stops being served.
Shared(own, other) ==
    [nodes |-> {n1, n2}, services |-> {x1}, slots |-> {1},
     world |-> (n1 :> Has(own, None)) @@ (n2 :> Has(other, None)),
     hosts |-> (x1 :> {n1}), changes |-> 0, mishaps |-> 1]

\* Ready and failed may be exchanged, so that the first to be named is ready.
MCScenes ==
    {Overlapping("ready", other) : other \in {"ready", "failed", None}}
        \cup {Overlapping(None, other) : other \in {"ready", None}}
        \cup {Shared("ready", other) : other \in {"ready", "failed", None}}
        \cup {Shared(None, other) : other \in {"ready", None}}

=============================================================================
