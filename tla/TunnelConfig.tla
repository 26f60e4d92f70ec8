---------------------------- MODULE TunnelConfig ----------------------------
(***************************************************************************)
(* The control plane's tables and the configuration it renders from them   *)
(* for one node (apps/server/src/db/repo.ts, the rows of db/schema.ts).    *)
(*                                                                         *)
(* A tunnel joins nodes by links.  Its entry node listens on the port of   *)
(* each rule and dials the exit nodes; an exit node listens on a port both *)
(* sides compute from the same rows and dials the target of the rule.      *)
(* Everything here is a state function of the rows.  How the rows change,  *)
(* and when a configuration is rendered anew, is module Panel.             *)
(***************************************************************************)
EXTENDS Integers, FiniteSets

CONSTANTS
    Node, Rule, Link,     \* row numbers of the tables, as the code uses them
    Tunnel, User,         \* rows whose numbers do not matter
    PortRange,            \* port ranges of a node, [lo, hi]
    Address, Target,      \* node addresses; rule targets
    Unparsable,           \* a rule target that is not host:port
    Material,             \* generations of the TLS material
    None                  \* absence of a row or of a value

ASSUME RowAssumption ==
    Node \subseteq Nat /\ Rule \subseteq Nat /\ Link \subseteq Nat /\ IsFiniteSet(Link)
ASSUME RangeAssumption ==
    \A p \in PortRange : p.lo \in Nat /\ p.hi \in Nat /\ 1 <= p.lo /\ p.lo <= p.hi

VARIABLES
    node,       \* relay_nodes : address and port range of each node
    tunnel,     \* tunnels : the tls_enabled flag
    link,       \* chains : tunnel, node, end, transport, index
    rule,       \* relay_rules
    user,       \* users and subscriptions: has the user an allowance
    material    \* app_settings.tls_domain with tls_material

NodeRow == [address : Address, ports : PortRange \cup {None}]
TunnelRow == [tls : BOOLEAN]
LinkRow == [tunnel : Tunnel, node : Node, end : {"in", "out"}, tls : BOOLEAN, index : Nat]
RuleRow == [tunnel : Tunnel \cup {None}, listen : Nat, exit : Nat,
            target : Target \cup {Unparsable}, owner : User \cup {None}, paused : BOOLEAN]

ASSUME NoneAssumption ==
    /\ None \notin PortRange \cup Material \cup Tunnel \cup User
    /\ None \notin NodeRow /\ None \notin TunnelRow /\ None \notin LinkRow /\ None \notin RuleRow

RowsOK ==
    /\ node \in [Node -> NodeRow \cup {None}]
    /\ tunnel \in [Tunnel -> TunnelRow \cup {None}]
    /\ link \in [Link -> LinkRow \cup {None}]
    /\ rule \in [Rule -> RuleRow \cup {None}]
    /\ user \in [User -> {"absent", "served", "stopped"}]
    /\ material \in Material \cup {None}

-----------------------------------------------------------------------------
LinksOf(t) == {l \in Link : link[l] # None /\ link[l].tunnel = t}
Ins(t) == {l \in LinksOf(t) : link[l].end = "in"}
Outs(t) == {l \in LinksOf(t) : link[l].end = "out"}

NodesOf(t) == {link[l].node : l \in LinksOf(t)}
TunnelsOf(n) == {t \in Tunnel : n \in NodesOf(t)}

\* Out links in the order both ends sort them: by index, then by row number.
Before(l, m) ==
    \/ link[l].index < link[m].index
    \/ link[l].index = link[m].index /\ l < m

FirstOut(t) == CHOOSE l \in Outs(t) : \A m \in Outs(t) \ {l} : Before(l, m)

\* TLS needs the flag of the tunnel and the transport of its first out link;
\* other shapes degrade to plaintext.
TlsLink(t) == tunnel[t].tls /\ Outs(t) # {} /\ link[FirstOut(t)].tls

\* Every out link is an exit, except that a TLS tunnel stays single-exit.
Exits(t) == IF TlsLink(t) THEN {FirstOut(t)} ELSE Outs(t)

\* The rules of a tunnel, less those whose owner has no allowance left.
LiveRules(t) ==
    {r \in Rule : /\ rule[r] # None /\ rule[r].tunnel = t
                  /\ rule[r].owner # None => user[rule[r].owner] = "served"}

\* The port a rule gets on an exit node; 0 when the range does not parse.
AllocatePort(r, n) ==
    IF node[n].ports = None
    THEN 0
    ELSE node[n].ports.lo + ((r * 31 + n) % (node[n].ports.hi - node[n].ports.lo + 1))

ExitPort(r, n) == IF rule[r].exit > 0 THEN rule[r].exit ELSE AllocatePort(r, n)

\* A node renders a tunnel that has exactly one entry and of which the node
\* holds one end, not both.
IsEntry(n, t) == \E l \in Ins(t) : link[l].node = n
IsExit(n, t) == \E l \in Outs(t) : link[l].node = n

Renders(n, t) ==
    /\ Cardinality(Ins(t)) = 1
    /\ IsEntry(n, t) \/ IsExit(n, t)
    /\ ~(IsEntry(n, t) /\ IsExit(n, t))

-----------------------------------------------------------------------------
(* A rendered service: the rule it is named after, the port it listens on, *)
(* where it sends connections, and which side of a TLS link it is.  A      *)
(* target is a pair <<address, port>> of an exit node, or <<target>>, the  *)
(* target of the rule.                                                     *)

ExitTarget(r, l) == <<node[link[l].node].address, ExitPort(r, link[l].node)>>

SideOf(t, side) == IF TlsLink(t) THEN side ELSE "none"

EntryService(t, r) ==
    [rule |-> r, port |-> rule[r].listen,
     to |-> IF Exits(t) = {}
            THEN {<<rule[r].target>>}
            ELSE {ExitTarget(r, l) : l \in {x \in Exits(t) : ExitPort(r, link[x].node) > 0}},
     tls |-> SideOf(t, "connect")]

\* The first exit must have a port, and a tunnel without exits needs a
\* target that parses.
HasEntryService(t, r) ==
    IF Exits(t) = {}
    THEN rule[r].target # Unparsable
    ELSE ExitPort(r, link[FirstOut(t)].node) > 0

EntryServices(n, t) ==
    IF IsEntry(n, t)
    THEN {EntryService(t, r) : r \in {x \in LiveRules(t) : HasEntryService(t, x)}}
    ELSE {}

\* The exit side looks at the flag of the tunnel and forgets the transport.
ExitServiceByFlag(n, t, r) ==
    [rule |-> r, port |-> ExitPort(r, n), to |-> {<<rule[r].target>>},
     tls |-> IF tunnel[t].tls THEN "listen" ELSE "none"]

ExitService(n, t, r) ==
    [rule |-> r, port |-> ExitPort(r, n), to |-> {<<rule[r].target>>},
     tls |-> SideOf(t, "listen")]

HasExitService(n, r) == rule[r].target # Unparsable /\ ExitPort(r, n) > 0

\* Rendered for every node of the tunnel: the code runs this loop for its
\* entry node too.
ExitServices(n, t) ==
    {ExitService(n, t, r) : r \in {x \in LiveRules(t) : HasExitService(n, x)}}

ServicesOf(n) ==
    UNION {EntryServices(n, t) \cup ExitServices(n, t) : t \in {x \in TunnelsOf(n) : Renders(n, x)}}

Plain(s) == [s EXCEPT !.tls = "none"]

\* Without a TLS domain every link of the node degrades to plaintext.
Degraded(services) == {Plain(s) : s \in services}

\* buildRealmNodeConfig: what the node is sent.
Render(n) ==
    LET services  == ServicesOf(n)
        tlsWanted == \E s \in services : s.tls # "none"
    IN  IF node[n] = None
        THEN None
        ELSE IF tlsWanted /\ material = None
             THEN [services |-> Degraded(services), material |-> None]
             ELSE [services |-> services, material |-> IF tlsWanted THEN material ELSE None]

-----------------------------------------------------------------------------
\* Both ends of a link agree without coordination: wherever an entry node
\* sends the connections of a rule whose target parses, the exit node renders
\* a listener of that rule on that port, on the listening side of a TLS link
\* exactly if the entry is on its connecting side.
LegsMeet ==
    \A t \in Tunnel, n \in Node :
       Renders(n, t) /\ node[n] # None /\ IsEntry(n, t) =>
          \A r \in LiveRules(t), l \in Exits(t) :
             LET m == link[l].node
                 entry == {s \in Render(n).services :
                             s.rule = r /\ ExitTarget(r, l) \in s.to}
                 exit  == {s \in Render(m).services :
                             /\ s.rule = r /\ s.port = ExitPort(r, m)
                             /\ s.to = {<<rule[r].target>>}}
             IN  rule[r].target # Unparsable =>
                    \A s \in entry : \E x \in exit :
                       (s.tls = "connect") <=> (x.tls = "listen")

=============================================================================
