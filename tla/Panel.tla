------------------------------- MODULE Panel -------------------------------
(***************************************************************************)
(* The admin panel's writes and the snapshots they lead to                 *)
(* (apps/server/src/routes/admin.ts, services/recompute.ts, the cron of    *)
(* index.ts, recomputeNodeConfig of db/repo.ts).                           *)
(*                                                                         *)
(* A route writes its rows, answers, and leaves the recomputation of the   *)
(* nodes it affects to run later: the rows may have changed again by then. *)
(* Most routes read before they write, in another transaction: what they   *)
(* check, and which tunnels or nodes to recompute afterwards.  `staged`    *)
(* holds such writes between the two, each with what it saw of rows that   *)
(* another write may have changed since.  The reads of one route are one   *)
(* step here, and so are rendering and storing one node's snapshot.        *)
(***************************************************************************)
EXTENDS TunnelConfig

CONSTANTS
    NodeRows, LinkRows, RuleRows,   \* the rows an operator may write
    LinkPatches, RulePatches,       \* the sets of fields an edit may give
    Seeds,                          \* the databases to start from, with the writes they take off the bound
    MaxStaged,                      \* bound on writes between check and write
    MaxWrites                       \* bound on writes, sweeps, failures, ends of allowances

LinkFields == {"tunnel", "node", "end", "tls", "index"}
RuleFields == {"tunnel", "listen", "exit", "target", "owner", "paused"}

ASSUME InputAssumption ==
    /\ NodeRows \subseteq NodeRow
    /\ LinkRows \subseteq LinkRow
    /\ RuleRows \subseteq [tunnel : Tunnel, listen : Nat, exit : Nat,
                           target : Target \cup {Unparsable},
                           owner : User \cup {None}, paused : BOOLEAN]
    /\ LinkPatches \subseteq SUBSET LinkFields /\ RulePatches \subseteq SUBSET RuleFields
    /\ MaxStaged \in Nat /\ MaxWrites \in Nat

\* The rows a database starts from have their types, and a link's tunnel and node are there.
ASSUME SeedAssumption ==
    \A s \in Seeds :
        /\ s.node \in [Node -> NodeRow \cup {None}] /\ s.tunnel \in [Tunnel -> TunnelRow \cup {None}]
        /\ s.link \in [Link -> LinkRow \cup {None}] /\ s.rule \in [Rule -> RuleRow \cup {None}]
        /\ s.user \in [User -> {"absent", "served", "stopped"}] /\ s.material \in Material \cup {None}
        /\ s.writes \in 0 .. MaxWrites
        /\ \A l \in Link : s.link[l] # None =>
              s.node[s.link[l].node] # None /\ s.tunnel[s.link[l].tunnel] # None

VARIABLES
    snapshot,   \* node_configs : the configuration stored for each node
    pending,    \* deferred work of the routes that have answered
    staged,     \* writes that have read what they need and are not yet made
    behind,     \* history: nodes a write has affected and did not schedule
    overdue,    \* history: nodes whose last recomputation failed, or that
                \* serve a user whose allowance has ended
    writes      \* how many writes, sweeps and failures there have been

vars == <<node, tunnel, link, rule, user, material, snapshot, pending, staged, behind, overdue, writes>>

Pending == [nodes : SUBSET Node, tunnels : SUBSET Tunnel, users : SUBSET User, tls : BOOLEAN]
NoWork == [nodes |-> {}, tunnels |-> {}, users |-> {}, tls |-> FALSE]

\* A write under way.  `saw`: the tunnels (or, for a deleted tunnel, the nodes)
\* the route has read and will recompute; `given`: the fields an edit gives.
StagedTunnel == [tunnel : Tunnel, row : TunnelRow]
StagedLink ==
    [link : Link, row : LinkRow, given : SUBSET LinkFields, create : {FALSE}, saw : SUBSET Tunnel]
       \cup [link : Link, row : LinkRow, given : {LinkFields}, create : {TRUE}, saw : {{}}]
StagedRule ==
    [rule : Rule, row : RuleRow, given : SUBSET RuleFields, create : {FALSE}, saw : SUBSET Tunnel]
       \cup [rule : Rule, row : RuleRow, given : {RuleFields}, create : {TRUE}, saw : {{}}]
Removal(kind, ids, seen) == [remove : {kind}, id : ids, saw : SUBSET seen]
Removals ==
    Removal("node", Node, Tunnel) \cup Removal("tunnel", Tunnel, Node) \cup Removal("link", Link, Tunnel)
       \cup Removal("rule", Rule, Tunnel) \cup Removal("user", User, Tunnel)
Staged == StagedTunnel \cup StagedLink \cup StagedRule \cup Removals

NodesOfTunnels(ts) == UNION {NodesOf(t) : t \in ts}

\* recomputeUserNodes: the tunnels of the rules a user owns.
TunnelsOfUsers(us) ==
    {rule[r].tunnel : r \in {x \in Rule : rule[x] # None /\ rule[x].owner \in us}} \ {None}

TlsTunnels == {t \in Tunnel : tunnel[t] # None /\ tunnel[t].tls}

\* The nodes the pending work would recompute if it all ran now.
Scheduled ==
    pending.nodes
       \cup NodesOfTunnels(pending.tunnels \cup TunnelsOfUsers(pending.users))
       \cup (IF pending.tls THEN NodesOfTunnels(TlsTunnels) ELSE {})

\* deferRecompute: schedule work to run after the response.
Defer(ns, ts, us, tls) ==
    pending' = [nodes |-> pending.nodes \cup ns, tunnels |-> pending.tunnels \cup ts,
                users |-> pending.users \cup us, tls |-> pending.tls \/ tls]

MayWrite == writes < MaxWrites /\ writes' = writes + 1

\* A write that has read what it needs waits for its turn.
Stage(w) == Cardinality(staged) < MaxStaged /\ staged' = staged \cup {w}
Unstage(w) == staged' = staged \ {w}

\* DELETE of a row up to the delete itself: what it will recompute is read.
StageRemoval(kind, id, saw) ==
    /\ MayWrite
    /\ Stage([remove |-> kind, id |-> id, saw |-> saw])
    /\ UNCHANGED <<node, tunnel, link, rule, user, material, snapshot, pending, behind, overdue>>

Removing(kind) == {w \in staged \cap Removals : w.remove = kind}

\* The tunnel an edit names, if it gives one.
Named(w) == IF "tunnel" \in w.given THEN {w.row.tunnel} \ {None} ELSE {}

\* The nodes of tunnels `now` that a write affects but, overtaken by another
\* write since it read its rows, knows nothing of.
Overtaken(now, known) == NodesOfTunnels(now \ known)

-----------------------------------------------------------------------------
(* tunnelShape, with the link `l` left out of its own tunnel and the row   *)
(* `new` put in.                                                           *)
InsWith(l, new) == Cardinality(Ins(new.tunnel) \ {l}) + (IF new.end = "in" THEN 1 ELSE 0)
OutsWith(l, new) == Cardinality(Outs(new.tunnel) \ {l}) + (IF new.end = "out" THEN 1 ELSE 0)

\* The transport judged is that of the new row, or that of the first out
\* link in row order, the link being changed included.
OldestOut(t) == CHOOSE l \in Outs(t) : \A m \in Outs(t) : l <= m

OutIsTls(l, new) == IF new.end = "out" THEN new.tls ELSE link[OldestOut(new.tunnel)].tls

\* validateProjectedShape: one entry at most; a TLS tunnel has one exit at
\* most, over the tls transport.
ShapeAllows(l, new) ==
    /\ tunnel[new.tunnel] # None
    /\ InsWith(l, new) <= 1
    /\ tunnel[new.tunnel].tls =>
          /\ OutsWith(l, new) <= 1
          /\ OutsWith(l, new) = 1 => OutIsTls(l, new)

\* validateTunnelMode.
TlsAllowed(t) ==
    LinksOf(t) # {} =>
       /\ Cardinality(Ins(t)) <= 1 /\ Cardinality(Outs(t)) <= 1
       /\ \A l \in Outs(t) : link[l].tls
       /\ material # None

\* A complete TLS tunnel must keep its two links until TLS is off.
DeletionAllowed(l) ==
    LET t == link[l].tunnel
    IN  ~(tunnel[t].tls /\ Cardinality(Ins(t)) = 1 /\ Cardinality(Outs(t)) = 1)

-----------------------------------------------------------------------------
Init ==
    /\ \E s \in Seeds :
          /\ node = s.node /\ tunnel = s.tunnel /\ link = s.link
          /\ rule = s.rule /\ user = s.user /\ material = s.material
          /\ writes = s.writes
    /\ snapshot = [n \in Node |-> Render(n)]
    /\ pending = NoWork
    /\ staged = {}
    /\ behind = {}
    /\ overdue = {}

\* POST /nodes.
CreateNode(n, new) ==
    /\ MayWrite
    /\ node[n] = None
    /\ node' = [node EXCEPT ![n] = new]
    /\ Defer({n}, {}, {}, FALSE)
    /\ UNCHANGED <<tunnel, link, rule, user, material, snapshot, staged, behind, overdue>>

\* The entry nodes that dial a node as an exit.
Dialing(n) == {m \in Node : \E t \in Tunnel : IsEntry(m, t) /\ IsExit(n, t)}

\* PUT /nodes/:id recomputes that node, not the nodes that dial it.
UpdateNode(n, new) ==
    /\ MayWrite
    /\ node[n] # None
    /\ node' = [node EXCEPT ![n] = new]
    /\ Defer({n}, {}, {}, FALSE)
    /\ behind' = behind \cup (Dialing(n) \ {n})
    /\ UNCHANGED <<tunnel, link, rule, user, material, snapshot, staged, overdue>>

StageDeleteNode(n) == node[n] # None /\ StageRemoval("node", n, TunnelsOf(n))

\* The snapshot outlives its node.
DeleteNodeKeepsSnapshot(w) ==
    /\ node[w.id] # None
    /\ node' = [node EXCEPT ![w.id] = None]
    /\ link' = [l \in Link |-> IF link[l] # None /\ link[l].node = w.id THEN None ELSE link[l]]
    /\ Defer({}, w.saw, {}, FALSE)
    /\ behind' = behind \cup Overtaken(TunnelsOf(w.id), w.saw)
    /\ Unstage(w)
    /\ UNCHANGED <<tunnel, rule, user, material, snapshot, overdue, writes>>

\* DELETE /nodes/:id: links and snapshot go with the row.
DeleteNode(w) ==
    /\ node[w.id] # None
    /\ node' = [node EXCEPT ![w.id] = None]
    /\ link' = [l \in Link |-> IF link[l] # None /\ link[l].node = w.id THEN None ELSE link[l]]
    /\ snapshot' = [snapshot EXCEPT ![w.id] = None]
    /\ Defer({}, w.saw, {}, FALSE)
    /\ behind' = behind \cup Overtaken(TunnelsOf(w.id), w.saw)
    /\ Unstage(w)
    /\ UNCHANGED <<tunnel, rule, user, material, overdue, writes>>

\* POST /tunnels: nothing to recompute, a new tunnel has no links.
CreateTunnel(t, new) ==
    /\ MayWrite
    /\ tunnel[t] = None
    /\ new.tls => material # None
    /\ tunnel' = [tunnel EXCEPT ![t] = new]
    /\ UNCHANGED <<node, link, rule, user, material, snapshot, pending, staged, behind, overdue>>

\* PUT /tunnels/:id up to its last check, and the write.
StageTunnel(t, new) ==
    /\ MayWrite
    /\ tunnel[t] # None
    /\ new.tls => TlsAllowed(t)
    /\ Stage([tunnel |-> t, row |-> new])
    /\ UNCHANGED <<node, tunnel, link, rule, user, material, snapshot, pending, behind, overdue>>

UpdateTunnel(w) ==
    /\ tunnel[w.tunnel] # None
    /\ tunnel' = [tunnel EXCEPT ![w.tunnel] = w.row]
    /\ Defer({}, {w.tunnel}, {}, FALSE)
    /\ Unstage(w)
    /\ UNCHANGED <<node, link, rule, user, material, snapshot, behind, overdue, writes>>

StageDeleteTunnel(t) == tunnel[t] # None /\ StageRemoval("tunnel", t, NodesOf(t))

\* DELETE /tunnels/:id: its links go with it, its rules lose their tunnel.
DeleteTunnel(w) ==
    /\ tunnel[w.id] # None
    /\ tunnel' = [tunnel EXCEPT ![w.id] = None]
    /\ link' = [l \in Link |-> IF l \in LinksOf(w.id) THEN None ELSE link[l]]
    /\ rule' = [r \in Rule |-> IF rule[r] # None /\ rule[r].tunnel = w.id
                               THEN [rule[r] EXCEPT !.tunnel = None] ELSE rule[r]]
    /\ Defer(w.saw, {}, {}, FALSE)
    /\ behind' = behind \cup (NodesOf(w.id) \ w.saw)
    /\ Unstage(w)
    /\ UNCHANGED <<node, user, material, snapshot, overdue, writes>>

\* The row an edit leaves: the fields it gives, and the others as they are.
LinkPatched(old, new, given) ==
    [tunnel |-> IF "tunnel" \in given THEN new.tunnel ELSE old.tunnel,
     node |-> IF "node" \in given THEN new.node ELSE old.node,
     end |-> IF "end" \in given THEN new.end ELSE old.end,
     tls |-> IF "tls" \in given THEN new.tls ELSE old.tls,
     index |-> IF "index" \in given THEN new.index ELSE old.index]

\* POST /chains, and PUT /chains/:id with any of its fields, up to the last check.
StageNewLink(l, new) ==
    /\ MayWrite
    /\ link[l] = None
    /\ ShapeAllows(l, new)
    /\ Stage([link |-> l, row |-> new, given |-> LinkFields, create |-> TRUE, saw |-> {}])
    /\ UNCHANGED <<node, tunnel, link, rule, user, material, snapshot, pending, behind, overdue>>

StageLink(l, new, given) ==
    /\ MayWrite
    /\ link[l] # None
    /\ LET row == LinkPatched(link[l], new, given)
       IN  /\ ShapeAllows(l, row)
           /\ Stage([link |-> l, row |-> row, given |-> given, create |-> FALSE,
                     saw |-> {link[l].tunnel}])
    /\ UNCHANGED <<node, tunnel, link, rule, user, material, snapshot, pending, behind, overdue>>

\* Only the tunnel it names.
AffectedByLinkNewOnly(w) == Named(w)

\* The tunnels a link write recomputes: the one it saw the link in and the one it names.
AffectedByLink(w) == w.saw \cup Named(w)

\* The nodes that hold no link of a tunnel of `ts` after this step.
Leaving(ns, ts) == {n \in ns : \A t \in ts : n \notin NodesOf(t)'}

\* The insert or the update, if the rows it needs are still there.  The node a
\* link leaves, or joins in a tunnel another write moved it to, may be in none of
\* the recomputed tunnels when the work runs.
LinkNow(w) == IF w.create THEN w.row ELSE LinkPatched(link[w.link], w.row, w.given)

WriteLink(w) ==
    /\ w.create <=> link[w.link] = None
    /\ tunnel[LinkNow(w).tunnel] # None /\ node[LinkNow(w).node] # None
    /\ link' = [link EXCEPT ![w.link] = LinkNow(w)]
    /\ Defer({}, AffectedByLink(w), {}, FALSE)
    /\ behind' = behind \cup
          (IF w.create
           THEN {}
           ELSE Leaving({link[w.link].node, LinkNow(w).node}, AffectedByLink(w))
                   \cup Overtaken({link[w.link].tunnel}, w.saw \cup Named(w)))
    /\ Unstage(w)
    /\ UNCHANGED <<node, tunnel, rule, user, material, snapshot, overdue, writes>>

\* A staged write does not happen: its row is gone, or the route has died.
DropStaged(w) ==
    /\ Unstage(w)
    /\ UNCHANGED <<node, tunnel, link, rule, user, material, snapshot, pending, behind, overdue, writes>>

StageDeleteLink(l) ==
    link[l] # None /\ DeletionAllowed(l) /\ StageRemoval("link", l, {link[l].tunnel})

\* DELETE /chains/:id recomputes the nodes left in the tunnel it saw, whether or
\* not the row was still there.
DeleteLink(w) ==
    /\ link' = [link EXCEPT ![w.id] = None]
    /\ Defer({}, w.saw, {}, FALSE)
    /\ behind' = behind \cup
          (IF link[w.id] = None
           THEN {}
           ELSE Leaving({link[w.id].node}, w.saw) \cup Overtaken({link[w.id].tunnel}, w.saw))
    /\ Unstage(w)
    /\ UNCHANGED <<node, tunnel, rule, user, material, snapshot, overdue, writes>>

RulePatched(old, new, given) ==
    [tunnel |-> IF "tunnel" \in given THEN new.tunnel ELSE old.tunnel,
     listen |-> IF "listen" \in given THEN new.listen ELSE old.listen,
     exit |-> IF "exit" \in given THEN new.exit ELSE old.exit,
     target |-> IF "target" \in given THEN new.target ELSE old.target,
     owner |-> IF "owner" \in given THEN new.owner ELSE old.owner,
     paused |-> IF "paused" \in given THEN new.paused ELSE old.paused]

OwnerThere(row) == row.owner # None => user[row.owner] # "absent"

\* POST /rules, and PUT /rules/:id with any of its fields, up to the last check.
StageNewRule(r, new) ==
    /\ MayWrite
    /\ rule[r] = None
    /\ tunnel[new.tunnel] # None /\ OwnerThere(new)
    /\ Stage([rule |-> r, row |-> new, given |-> RuleFields, create |-> TRUE, saw |-> {}])
    /\ UNCHANGED <<node, tunnel, link, rule, user, material, snapshot, pending, behind, overdue>>

StageRule(r, new, given) ==
    /\ MayWrite
    /\ rule[r] # None
    /\ LET row == RulePatched(rule[r], new, given)
       IN  /\ OwnerThere(row)
           /\ Stage([rule |-> r, row |-> row, given |-> given, create |-> FALSE,
                     saw |-> {rule[r].tunnel} \ {None}])
    /\ UNCHANGED <<node, tunnel, link, rule, user, material, snapshot, pending, behind, overdue>>

\* The tunnels a rule write recomputes: the one it saw the rule in and the one it names.
RuleTunnels(w) == w.saw \cup Named(w)

RuleNow(w) == IF w.create THEN w.row ELSE RulePatched(rule[w.rule], w.row, w.given)

WriteRule(w) ==
    /\ w.create <=> rule[w.rule] = None
    /\ RuleNow(w).tunnel # None => tunnel[RuleNow(w).tunnel] # None
    /\ OwnerThere(RuleNow(w))
    /\ rule' = [rule EXCEPT ![w.rule] = RuleNow(w)]
    /\ Defer({}, RuleTunnels(w), {}, FALSE)
    /\ behind' = behind \cup
          (IF w.create THEN {} ELSE Overtaken({rule[w.rule].tunnel} \ {None}, w.saw \cup Named(w)))
    /\ Unstage(w)
    /\ UNCHANGED <<node, tunnel, link, user, material, snapshot, overdue, writes>>

StageDeleteRule(r) == rule[r] # None /\ StageRemoval("rule", r, {rule[r].tunnel} \ {None})

DeleteRule(w) ==
    /\ rule' = [rule EXCEPT ![w.id] = None]
    /\ Defer({}, w.saw, {}, FALSE)
    /\ behind' = behind \cup
          (IF rule[w.id] = None THEN {} ELSE Overtaken({rule[w.id].tunnel} \ {None}, w.saw))
    /\ Unstage(w)
    /\ UNCHANGED <<node, tunnel, link, user, material, snapshot, overdue, writes>>

\* A user is disabled or enabled, subscribes, or its package is edited.
UpdateUser(u, status) ==
    /\ MayWrite
    /\ user[u] # "absent" /\ user[u] # status
    /\ user' = [user EXCEPT ![u] = status]
    /\ Defer({}, {}, {u}, FALSE)
    /\ UNCHANGED <<node, tunnel, link, rule, material, snapshot, staged, behind, overdue>>

\* A subscription expires or its traffic is used up: no write tells anybody.
AllowanceEnds(u) ==
    /\ MayWrite
    /\ user[u] = "served"
    /\ user' = [user EXCEPT ![u] = "stopped"]
    /\ overdue' = overdue \cup NodesOfTunnels(TunnelsOfUsers({u}))
    /\ UNCHANGED <<node, tunnel, link, rule, material, snapshot, pending, staged, behind>>

\* The traffic of a stopped user's rule is billed: while one of its rules is
\* in some snapshot its nodes are recomputed.
QuotaSweep(u) ==
    /\ user[u] = "stopped" /\ u \notin pending.users
    /\ \E n \in Node, r \in Rule :
          /\ rule[r] # None /\ rule[r].owner = u
          /\ snapshot[n] # None /\ \E s \in snapshot[n].services : s.rule = r
    /\ Defer({}, {}, {u}, FALSE)
    /\ UNCHANGED <<node, tunnel, link, rule, user, material, snapshot, staged, behind, overdue, writes>>

StageDeleteUser(u) == user[u] # "absent" /\ StageRemoval("user", u, TunnelsOfUsers({u}))

\* DELETE /users/:id: the rules of the user stay, without an owner.
DeleteUser(w) ==
    /\ user[w.id] # "absent"
    /\ user' = [user EXCEPT ![w.id] = "absent"]
    /\ rule' = [r \in Rule |-> IF rule[r] # None /\ rule[r].owner = w.id
                               THEN [rule[r] EXCEPT !.owner = None] ELSE rule[r]]
    /\ Defer({}, w.saw, {}, FALSE)
    /\ behind' = behind \cup Overtaken(TunnelsOfUsers({w.id}), w.saw)
    /\ Unstage(w)
    /\ UNCHANGED <<node, tunnel, link, material, snapshot, overdue, writes>>

\* The TLS domain or profile is set, or the cron renews the material.
SetMaterial(m) ==
    /\ MayWrite
    /\ material # m
    /\ material' = m
    /\ Defer({}, {}, {}, TRUE)
    /\ UNCHANGED <<node, tunnel, link, rule, user, snapshot, staged, behind, overdue>>

-----------------------------------------------------------------------------
(* Deferred work: find the nodes, then recompute each.                     *)

\* Only the entry nodes of the tunnel.
ExpandTunnelEntries(t) ==
    /\ t \in pending.tunnels
    /\ pending' = [pending EXCEPT !.tunnels = @ \ {t},
                                  !.nodes = @ \cup {n \in NodesOf(t) : IsEntry(n, t)}]
    /\ UNCHANGED <<node, tunnel, link, rule, user, material, snapshot, staged, behind, overdue, writes>>

\* recomputeTunnelNodes: the nodes that hold a link of the tunnel now.
ExpandTunnel(t) ==
    /\ t \in pending.tunnels
    /\ pending' = [pending EXCEPT !.tunnels = @ \ {t}, !.nodes = @ \cup NodesOf(t)]
    /\ UNCHANGED <<node, tunnel, link, rule, user, material, snapshot, staged, behind, overdue, writes>>

ExpandUser(u) ==
    /\ u \in pending.users
    /\ pending' = [pending EXCEPT !.users = @ \ {u},
                                  !.tunnels = @ \cup TunnelsOfUsers({u})]
    /\ UNCHANGED <<node, tunnel, link, rule, user, material, snapshot, staged, behind, overdue, writes>>

\* recomputeTlsNodes.
ExpandTls ==
    /\ pending.tls
    /\ pending' = [pending EXCEPT !.tls = FALSE, !.nodes = @ \cup NodesOfTunnels(TlsTunnels)]
    /\ UNCHANGED <<node, tunnel, link, rule, user, material, snapshot, staged, behind, overdue, writes>>

\* The daily cron, and the explicit recompute of one node.
Sweep(ns) ==
    /\ MayWrite
    /\ pending' = [pending EXCEPT !.nodes = @ \cup ns]
    /\ UNCHANGED <<node, tunnel, link, rule, user, material, snapshot, staged, behind, overdue>>

\* recomputeNodeConfig.
Recompute(n) ==
    /\ n \in pending.nodes
    /\ snapshot' = [snapshot EXCEPT ![n] = Render(n)]
    /\ pending' = [pending EXCEPT !.nodes = @ \ {n}]
    /\ behind' = behind \ {n}
    /\ overdue' = overdue \ {n}
    /\ UNCHANGED <<node, tunnel, link, rule, user, material, staged, writes>>

\* A recomputation that throws is logged and given up.
RecomputeFails(n) ==
    /\ MayWrite
    /\ n \in pending.nodes
    /\ pending' = [pending EXCEPT !.nodes = @ \ {n}]
    /\ overdue' = overdue \cup {n}
    /\ UNCHANGED <<node, tunnel, link, rule, user, material, snapshot, staged, behind>>

Next ==
    \/ \E n \in Node, new \in NodeRows : CreateNode(n, new)
    \/ \E n \in Node, new \in NodeRows : UpdateNode(n, new)
    \/ \E n \in Node : StageDeleteNode(n)
    \/ \E w \in Removing("node") : DeleteNode(w)
    \/ \E t \in Tunnel, new \in TunnelRow : CreateTunnel(t, new)
    \/ \E t \in Tunnel, new \in TunnelRow : StageTunnel(t, new)
    \/ \E w \in staged \cap StagedTunnel : UpdateTunnel(w)
    \/ \E t \in Tunnel : StageDeleteTunnel(t)
    \/ \E w \in Removing("tunnel") : DeleteTunnel(w)
    \/ \E l \in Link, new \in LinkRows : StageNewLink(l, new)
    \/ \E l \in Link, new \in LinkRows, given \in LinkPatches : StageLink(l, new, given)
    \/ \E w \in staged \cap StagedLink : WriteLink(w)
    \/ \E w \in staged : DropStaged(w)
    \/ \E l \in Link : StageDeleteLink(l)
    \/ \E w \in Removing("link") : DeleteLink(w)
    \/ \E r \in Rule, new \in RuleRows : StageNewRule(r, new)
    \/ \E r \in Rule, new \in RuleRows, given \in RulePatches : StageRule(r, new, given)
    \/ \E w \in staged \cap StagedRule : WriteRule(w)
    \/ \E r \in Rule : StageDeleteRule(r)
    \/ \E w \in Removing("rule") : DeleteRule(w)
    \/ \E u \in User, status \in {"served", "stopped"} : UpdateUser(u, status)
    \/ \E u \in User : AllowanceEnds(u)
    \/ \E u \in User : QuotaSweep(u)
    \/ \E u \in User : StageDeleteUser(u)
    \/ \E w \in Removing("user") : DeleteUser(w)
    \/ \E m \in Material : SetMaterial(m)
    \/ \E t \in Tunnel : ExpandTunnel(t)
    \/ \E u \in User : ExpandUser(u)
    \/ ExpandTls
    \/ \E ns \in {Node} \cup {{n} : n \in Node} : Sweep(ns)
    \/ \E n \in Node : Recompute(n)
    \/ \E n \in Node : RecomputeFails(n)

Spec == Init /\ [][Next]_vars

-----------------------------------------------------------------------------
\* Every variable has its type; a snapshot belongs to a node that exists.
TypeOK ==
    /\ RowsOK
    /\ \A n \in Node : node[n] = None => snapshot[n] = None
    /\ pending \in Pending
    /\ staged \in SUBSET Staged /\ Cardinality(staged) <= MaxStaged
    /\ behind \in SUBSET Node
    /\ overdue \in SUBSET Node
    /\ writes \in 0 .. MaxWrites

\* A snapshot that is out of date belongs to a node the pending work will
\* recompute, whatever the order the work and later writes come in.  The others
\* are left for the next sweep: their recomputation failed or an allowance ended
\* (`overdue`), or a write affected them that does not recompute them
\* (`behind`): they left a tunnel, they dial an exit that was edited, or they
\* are in a tunnel the write knew nothing of, because it took the link, rule,
\* node, tunnel or user from where another write had put it since it was read.
StaleIsScheduled ==
    \A n \in Node : snapshot[n] # Render(n) => n \in Scheduled \cup behind \cup overdue

\* Outside pending work the ends of a link agree in what the nodes are really
\* sent, as long as neither is behind.
StoredLegsMeet ==
    \A t \in Tunnel, n \in Node :
       Renders(n, t) /\ node[n] # None /\ IsEntry(n, t) =>
          \A r \in LiveRules(t), l \in Exits(t) :
             LET m == link[l].node
             IN  /\ rule[r].target # Unparsable
                 /\ {n, m} \cap (Scheduled \cup behind \cup overdue) = {}
                 => \A s \in snapshot[n].services :
                       s.rule = r /\ ExitTarget(r, l) \in s.to =>
                          \E x \in snapshot[m].services :
                             /\ x.rule = r /\ x.port = ExitPort(r, m)
                             /\ (s.tls = "connect") <=> (x.tls = "listen")

\* Every write recomputes the nodes it affects (docs/deployment.md, section on
\* configuring the platform): once the deferred work is done, and no node waits
\* for a sweep, each node's snapshot is what the tables render to.
EveryWriteReachesItsNodes ==
    pending = NoWork /\ overdue = {} => \A n \in Node : snapshot[n] = Render(n)
=============================================================================
