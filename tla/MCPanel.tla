------------------------------ MODULE MCPanel ------------------------------
(* A small instance of Panel: three nodes, of which two have a port range. *)
EXTENDS Panel, TLC

CONSTANTS t1, t2, u1, a1, a2, a3, b2, dst, m1, m2

MCRange == {[lo |-> 10, hi |-> 12], [lo |-> 20, hi |-> 20]}

Node1 == [address |-> a1, ports |-> None]
Node2 == [address |-> a2, ports |-> [lo |-> 10, hi |-> 12]]
Node3 == [address |-> a3, ports |-> [lo |-> 20, hi |-> 20]]
Node2Moved == [address |-> b2, ports |-> [lo |-> 10, hi |-> 12]]

MCNodeRows == {Node2, Node2Moved}

In1(t)  == [tunnel |-> t, node |-> 1, end |-> "in", tls |-> FALSE, index |-> 0]
Out(t, n, tls) == [tunnel |-> t, node |-> n, end |-> "out", tls |-> tls, index |-> 0]

\* Links of the first tunnel to each node, and of the second to two of them.
MCLinkRows ==
    {In1(t1), Out(t1, 3, FALSE), Out(t1, 3, TRUE), Out(t1, 2, TRUE), In1(t2), Out(t2, 2, TRUE)}

Rule1(t, owner, exit) ==
    [tunnel |-> t, listen |-> 5, exit |-> exit, target |-> dst, owner |-> owner, paused |-> FALSE]

MCRuleRows ==
    {Rule1(t1, u1, 0), Rule1(t2, None, 7), [Rule1(t1, None, 0) EXCEPT !.target = Unparsable],
     [Rule1(t1, None, 0) EXCEPT !.paused = TRUE]}

\* Edits give every field, or one of them only.
MCLinkPatches == {LinkFields, {"node"}}
MCRulePatches == {RuleFields, {"exit"}}

\* A quiet platform with one complete tunnel and one still empty, with the
\* link of the tunnel over TLS or plain.
Seed(tls, m, spent) ==
    [node |-> (1 :> Node1) @@ (2 :> Node2) @@ (3 :> Node3),
     tunnel |-> (t1 :> [tls |-> tls]) @@ (t2 :> None),
     link |-> (1 :> In1(t1)) @@ (2 :> Out(t1, 2, TRUE)) @@ (3 :> None),
     rule |-> (1 :> Rule1(t1, u1, 0)),
     user |-> (u1 :> "served"),
     material |-> m,
     writes |-> spent]

MCQuietSeeds == {Seed(TRUE, m1, 0), Seed(FALSE, None, 1)}

\* Two tunnels that are served, so that a link or a rule taken from one to the
\* other changes what nodes of both are sent.  Two writes are left: a write and
\* what overtakes it.
Busy(t, status, entry, exit) ==
    [node |-> (1 :> Node1) @@ (2 :> Node2) @@ (3 :> Node3),
     tunnel |-> (t1 :> [tls |-> FALSE]) @@ (t2 :> [tls |-> FALSE]),
     link |-> (1 :> In1(t1)) @@ (2 :> [In1(t2) EXCEPT !.node = entry])
               @@ (3 :> Out(t1, exit, TRUE)),
     rule |-> (1 :> Rule1(t, u1, 7)),
     user |-> (u1 :> status),
     material |-> None,
     writes |-> 1]

MCBusySeeds ==
    {Busy(t1, "served", 3, 2), Busy(t2, "served", 3, 2), Busy(t1, "stopped", 3, 2), Busy(t2, "served", 1, 3)}

MCSeeds == MCQuietSeeds \cup MCBusySeeds
=============================================================================
