------------------------------ MODULE Accounts ------------------------------
(***************************************************************************)
(* Tenants, what they have bought, the rules they own, the tunnels' links  *)
(* that decide which nodes those use, and the endpoints they forward to    *)
(* (routes/admin.ts), with the usage their allowance is measured by        *)
(* (services/quota.ts).  Every handler validates what it has read and      *)
(* writes later, each in awaits of its own, and D1 has no transaction      *)
(* around them: any other request fits in between.                         *)
(*                                                                         *)
(* What a write makes the nodes do, and which links fit a tunnel, is the   *)
(* subject of Panel; how traffic gets into the ledger that of              *)
(* TrafficLedger.                                                          *)
(***************************************************************************)
EXTENDS Integers, FiniteSets, FiniteSetsExt

CONSTANTS
    User, Rule, Endpoint, Package, Tunnel, Node, Link, Address,
    Plan,       \* what a package can offer
    Request,    \* requests that can be under way at once
    None,
    Keep,       \* a field the form leaves out
    MaxTime,    \* bound on the clock, in half hours
    MaxWrites,  \* bound on requests
    MaxDeaths,  \* bound on requests that die half way
    MaxBilled   \* bound on the bytes billed

ASSUME AccountsAssumption ==
    /\ {None, Keep} \cap (User \cup Rule \cup Endpoint \cup Package \cup Tunnel \cup Address) = {}
    /\ None \notin {"active", "disabled"} /\ None \notin Plan /\ None # Keep
    /\ IsFiniteSet(Rule)
    /\ \A p \in Plan : p.bytes \in Nat /\ p.maxRules \in Nat /\ p.period \in Nat
    /\ {MaxTime, MaxWrites, MaxDeaths, MaxBilled} \subseteq Nat

VARIABLES
    clock,
    users,      \* None, "active" or "disabled"
    sub,        \* user_packages: None or [pkg, since, expires]
    packages,   \* None or a plan
    links,      \* chains: None or [tunnel, node]
    rules,      \* None or [tunnel, user, endpoint, targets]
    endpoints,  \* None or an address
    ledger,     \* traffic_hourly: billed bytes of a rule in an hour
    req,        \* the requests under way
    excused,    \* history: users pushed out of their plan by the plan, a link or a stale write
    drifted,    \* history: endpoints a stale or a missing write made drift
    consumed,   \* history: bytes billed to a user's rules since it last subscribed, in hours since then
    carried,    \* history: bytes of that hour from before
    moved,      \* history: users that won or lost a rule with traffic since
    writes, deaths, billed

accounts == <<users, sub, packages, links>>
targets == <<rules, endpoints>>
usage == <<ledger, consumed, carried, moved, billed>>
vars == <<clock, accounts, targets, usage, req, excused, drifted, writes, deaths>>

HourOf(t) == t \div 2
Hour == 0 .. HourOf(MaxTime)

RuleRow == [tunnel : Tunnel, user : User \cup {None}, endpoint : Endpoint \cup {None}, targets : Address]

LinkRow == [tunnel : Tunnel, node : Node]

\* A row that is there is not a missing one.
ASSUME RuleRowAssumption == None \notin RuleRow \cup LinkRow

Resting == [op |-> "idle", step |-> "idle", id |-> None, form |-> None, owner |-> None,
            tunnel |-> None, endpoint |-> None, address |-> None, saw |-> None]

-----------------------------------------------------------------------------
(* Allowances. *)

Owned(u) == {x \in Rule : rules[x] # None /\ rules[x].user = u}

PlanOf(u) == packages[sub[u].pkg]

Expired(u) == sub[u].expires # None /\ sub[u].expires <= clock

\* The window begins with the first full hour of the subscription.
WindowFull(since) == {h \in Hour : 2 * h >= since}

\* The window begins with the hour of the subscription.
Window(since) == {h \in Hour : h >= HourOf(since)}

Bytes(xs, hours) == MapThenSumSet(LAMBDA p : ledger[p[1]][p[2]], xs \X hours)

\* userUsageBytes: what is counted is the rules the user owns now.
UsageBytes(u) == Bytes(Owned(u), Window(sub[u].since))

\* quotaForUser: why the rules of a user are not served, if they are not.
Decision(u) ==
    CASE users[u] # "active" -> "user_disabled"
      [] users[u] = "active" /\ sub[u] = None -> "no_subscription"
      [] users[u] = "active" /\ sub[u] # None /\ Expired(u) -> "expired"
      [] OTHER -> IF PlanOf(u).bytes > 0 /\ UsageBytes(u) >= PlanOf(u).bytes THEN "exhausted" ELSE "served"

\* The nodes of each tunnel, by its links.
NodesOf == [t \in Tunnel |->
    {links[l].node : l \in {k \in Link : links[k] # None /\ links[k].tunnel = t}}]

\* A list that is not there grants everything.
Grants(plan, t, nodes) ==
    /\ plan.tunnels # None => t \in plan.tunnels
    /\ plan.nodes # None => nodes \subseteq plan.nodes

\* One too many.
HasRoomForOneMore(u, x) ==
    PlanOf(u).maxRules > 0 => Cardinality(Owned(u) \ {x}) <= PlanOf(u).maxRules

HasRoom(u, x) ==
    PlanOf(u).maxRules > 0 => Cardinality(Owned(u) \ {x}) < PlanOf(u).maxRules

\* validateRuleOwnership, for rule x (None when it is new) in tunnel t.
MayOwn(u, t, x) ==
    /\ users[u] = "active" /\ sub[u] # None /\ ~Expired(u)
    /\ Grants(PlanOf(u), t, NodesOf[t])
    /\ HasRoom(u, x)

-----------------------------------------------------------------------------
(* The promises about rows, and who is excused for breaking them.           *)

Within(u) ==
    users[u] # None /\ sub[u] # None =>
        /\ PlanOf(u).maxRules > 0 => Cardinality(Owned(u)) <= PlanOf(u).maxRules
        /\ \A x \in Owned(u) : Grants(PlanOf(u), rules[x].tunnel, NodesOf[rules[x].tunnel])

Follows(e) ==
    \A x \in Rule : rules[x] # None /\ rules[x].endpoint = e => rules[x].targets = endpoints[e]

\* A user stays excused until its rules fit its plan again, an endpoint until its
\* rules follow it again.
Excuse(us) == excused' = {u \in excused \cup us : ~Within(u)'}
Drift(es) == drifted' = {e \in drifted \cup es : ~Follows(e)'}
NoExcuse == Excuse({}) /\ Drift({})

\* The rule's traffic no longer tells what its old or its new owner has used.
Transfer(x, us) ==
    moved' = IF Bytes({x}, Hour) > 0 THEN moved \cup (us \ {None}) ELSE moved

-----------------------------------------------------------------------------
(* Requests. *)

Idle(r) == req[r].op = "idle"
Ends(r) == req' = [req EXCEPT ![r] = Resting]
At(r, op, step) == req[r].op = op /\ req[r].step = step

\* A request arrives; the bound is MaxWrites.
Write == writes < MaxWrites /\ writes' = writes + 1

Begins(r, q) ==
    /\ Idle(r) /\ Write
    /\ req' = [req EXCEPT ![r] = q]
    /\ UNCHANGED <<clock, accounts, targets, usage, excused, drifted, deaths>>

\* Ids are never given twice: one that a request still holds is not free.
Held(i) == \E r \in Request : i \in {req[r].id, req[r].owner, req[r].endpoint}

\* A handler that writes in its only await.
AtOnce == Write /\ UNCHANGED <<clock, req, deaths>>

\* What a validation depends on: of the user, of the rule it is about, and of the
\* tunnel that will have.
Picture(u, t, x) ==
    [user |-> IF u = None THEN None ELSE users[u],
     sub |-> IF u = None THEN None ELSE sub[u],
     nodes |-> IF u = None THEN {} ELSE NodesOf[t],
     plan |-> IF u = None \/ sub[u] = None THEN None ELSE PlanOf(u),
     rules |-> IF u = None THEN {} ELSE {<<y, rules[y].tunnel>> : y \in Owned(u) \ {x}},
     row |-> IF x = None \/ rules[x] = None THEN None ELSE <<rules[x].tunnel, rules[x].user>>]

\* What a request has validated is no longer so.
Overtaken(r) == req[r].saw # Picture(req[r].owner, req[r].tunnel, req[r].id)

\* Nor is the address it has resolved that of the rule's endpoint.
StaleAddress(r, e) ==
    e # None /\ (e # req[r].endpoint \/ endpoints[e] # req[r].address)

\* POST /rules: validated, ...
PostRule(r, form) ==
    /\ form.user # None => MayOwn(form.user, form.tunnel, None)
    /\ Begins(r, [Resting EXCEPT !.op = "create", !.step = "resolve", !.form = form,
                  !.owner = form.user, !.tunnel = form.tunnel, !.endpoint = form.endpoint,
                  !.saw = Picture(form.user, form.tunnel, None)])

Given(value, otherwise) == IF value = Keep THEN otherwise ELSE value

\* PUT /rules/:id: validated for the owner and the tunnel it will have, ...
PutRule(r, x, patch) ==
    /\ rules[x] # None
    /\ LET user == Given(patch.user, rules[x].user)
           tunnel == Given(patch.tunnel, rules[x].tunnel)
       IN  /\ user # None => MayOwn(user, tunnel, x)
           /\ Begins(r, [Resting EXCEPT !.op = "edit", !.step = "resolve", !.id = x, !.form = patch,
                         !.owner = user, !.tunnel = tunnel,
                         !.endpoint = Given(patch.endpoint, rules[x].endpoint),
                         !.saw = Picture(user, tunnel, x)])

\* ... the address of the endpoint looked up, ...
Resolve(r) ==
    /\ req[r].op \in {"create", "edit"} /\ req[r].step = "resolve"
    /\ IF req[r].endpoint = None THEN req' = [req EXCEPT ![r].step = "write"]
       ELSE IF endpoints[req[r].endpoint] = None THEN Ends(r)
       ELSE req' = [req EXCEPT ![r].step = "write", ![r].address = endpoints[req[r].endpoint]]
    /\ UNCHANGED <<clock, accounts, targets, usage, excused, drifted, writes, deaths>>

\* ... and written.  The foreign keys of a new row must be there.
KeysExist(row) ==
    /\ row.user # None => users[row.user] # None
    /\ row.endpoint # None => endpoints[row.endpoint] # None

InsertRule(r) ==
    /\ At(r, "create", "write")
    /\ LET form == req[r].form
           row == [form EXCEPT !.targets = IF form.endpoint = None THEN @ ELSE req[r].address]
       IN  IF ~KeysExist(row) THEN UNCHANGED rules
           ELSE \E x \in Rule :
                /\ rules[x] = None /\ ~Held(x) /\ Bytes({x}, Hour) = 0
                /\ rules' = [rules EXCEPT ![x] = row]
    /\ Ends(r)
    /\ UNCHANGED <<clock, accounts, endpoints, usage, writes, deaths>>
    /\ Excuse(IF rules' # rules /\ Overtaken(r) THEN {req[r].form.user} \ {None} ELSE {})
    /\ Drift(IF rules' # rules /\ StaleAddress(r, req[r].form.endpoint) THEN {req[r].form.endpoint} ELSE {})

\* The endpoint that the rule keeps does not decide its address.
PatchedByForm(r, row) ==
    [tunnel |-> Given(req[r].form.tunnel, row.tunnel), user |-> Given(req[r].form.user, row.user),
     endpoint |-> Given(req[r].form.endpoint, row.endpoint),
     targets |-> IF req[r].form.endpoint \notin {None, Keep} THEN req[r].address
                 ELSE Given(req[r].form.targets, row.targets)]

\* A set endpoint decides the address, whatever the form says.
Patched(r, row) ==
    [tunnel |-> Given(req[r].form.tunnel, row.tunnel), user |-> Given(req[r].form.user, row.user),
     endpoint |-> Given(req[r].form.endpoint, row.endpoint),
     targets |-> IF req[r].endpoint # None THEN req[r].address
                 ELSE Given(req[r].form.targets, row.targets)]

UpdateRule(r) ==
    /\ At(r, "edit", "write")
    /\ LET x == req[r].id IN
        IF rules[x] = None \/ ~KeysExist(Patched(r, rules[x])) THEN UNCHANGED <<targets, moved, excused, drifted>>
        ELSE LET row == Patched(r, rules[x]) IN
             /\ rules' = [rules EXCEPT ![x] = row]
             /\ UNCHANGED <<accounts, endpoints>>
             /\ IF row.user # rules[x].user THEN Transfer(x, {row.user, rules[x].user}) ELSE UNCHANGED moved
             /\ Excuse(IF Overtaken(r) THEN {row.user} \ {None} ELSE {})
             /\ Drift(IF StaleAddress(r, row.endpoint) THEN {row.endpoint} ELSE {})
    /\ Ends(r)
    /\ UNCHANGED <<clock, accounts, ledger, consumed, carried, billed, writes, deaths>>

DeleteRule(x) ==
    /\ AtOnce
    /\ rules[x] # None
    /\ rules' = [rules EXCEPT ![x] = None]
    /\ Transfer(x, {rules[x].user})
    /\ UNCHANGED <<accounts, endpoints, ledger, consumed, carried, billed>>
    /\ NoExcuse

-----------------------------------------------------------------------------
(* Endpoints. *)

PostEndpoint(e, a) ==
    /\ AtOnce
    /\ endpoints[e] = None /\ ~Held(e)
    /\ endpoints' = [endpoints EXCEPT ![e] = a]
    /\ UNCHANGED <<accounts, rules, usage>>
    /\ NoExcuse

\* PUT /endpoints/:id reads the row, ...
PutEndpoint(r, e, a) ==
    /\ endpoints[e] # None
    /\ Begins(r, [Resting EXCEPT !.op = "endpoint", !.step = "update", !.id = e,
                  !.address = a, !.saw = endpoints[e]])

\* ... updates it, ...
UpdateEndpoint(r) ==
    /\ At(r, "endpoint", "update")
    /\ LET e == req[r].id
           a == req[r].address
           changed == a # req[r].saw
       IN  IF endpoints[e] = None THEN Ends(r) /\ UNCHANGED <<targets, drifted>>
           ELSE /\ endpoints' = [endpoints EXCEPT ![e] = a]
                /\ UNCHANGED rules
                /\ IF changed THEN req' = [req EXCEPT ![r].step = "sync"] ELSE Ends(r)
                /\ Drift(IF ~changed /\ endpoints[e] # a THEN {e} ELSE {})
    /\ UNCHANGED <<clock, accounts, usage, excused, writes, deaths>>

\* ... and if the address is not the one read, re-syncs the rules that refer to it.
SyncRules(r) ==
    /\ At(r, "endpoint", "sync")
    /\ LET e == req[r].id
           a == req[r].address
       IN  /\ rules' = [x \in Rule |->
                IF rules[x] # None /\ rules[x].endpoint = e THEN [rules[x] EXCEPT !.targets = a] ELSE rules[x]]
           /\ UNCHANGED endpoints
           /\ Drift(IF endpoints[e] # a THEN {e} ELSE {})
    /\ Ends(r)
    /\ UNCHANGED <<clock, accounts, usage, excused, writes, deaths>>

\* DELETE /endpoints/:id, once no rule refers to it; a rule that does by then
\* loses the reference and keeps the address.
RemoveEndpoint(r, e) ==
    /\ endpoints[e] # None
    /\ \A x \in Rule : rules[x] # None => rules[x].endpoint # e
    /\ Begins(r, [Resting EXCEPT !.op = "unlist", !.step = "write", !.id = e])

DeleteEndpoint(r) ==
    /\ At(r, "unlist", "write")
    /\ endpoints' = [endpoints EXCEPT ![req[r].id] = None]
    /\ rules' = [x \in Rule |-> IF rules[x] # None /\ rules[x].endpoint = req[r].id
                                THEN [rules[x] EXCEPT !.endpoint = None] ELSE rules[x]]
    /\ Ends(r)
    /\ Drift({})
    /\ UNCHANGED <<clock, accounts, usage, excused, writes, deaths>>

-----------------------------------------------------------------------------
(* Users, packages and subscriptions. *)

PostUser(u) ==
    /\ AtOnce
    /\ users[u] = None /\ ~Held(u)
    /\ users' = [users EXCEPT ![u] = "active"]
    /\ UNCHANGED <<sub, packages, links, targets, usage, excused, drifted>>

PutUser(u, status) ==
    /\ AtOnce
    /\ users[u] # None
    /\ users' = [users EXCEPT ![u] = status]
    /\ UNCHANGED <<sub, packages, links, targets, usage, excused, drifted>>

\* The foreign keys take the subscription along and leave the rules to the
\* administrator.
DeleteUser(u) ==
    /\ AtOnce
    /\ users[u] # None
    /\ users' = [users EXCEPT ![u] = None]
    /\ sub' = [sub EXCEPT ![u] = None]
    /\ rules' = [x \in Rule |-> IF x \in Owned(u) THEN [rules[x] EXCEPT !.user = None] ELSE rules[x]]
    /\ consumed' = [consumed EXCEPT ![u] = 0]
    /\ carried' = [carried EXCEPT ![u] = 0]
    /\ moved' = moved \ {u}
    /\ UNCHANGED <<packages, links, endpoints, ledger, billed>>
    /\ NoExcuse

\* POST /users/:id/subscribe reads the package, ...
Subscribe(r, u, k) ==
    /\ users[u] # None /\ packages[k] # None
    /\ Begins(r, [Resting EXCEPT !.op = "subscribe", !.step = "write", !.owner = u, !.id = k,
                  !.form = packages[k].period])

\* ... and upserts the subscription with a window of its own.
UpsertSubscription(r) ==
    /\ At(r, "subscribe", "write")
    /\ LET u == req[r].owner
           k == req[r].id
       IN  IF users[u] = None \/ packages[k] = None
           THEN UNCHANGED <<sub, consumed, carried, moved, excused, drifted>>
           ELSE /\ sub' = [sub EXCEPT ![u] = [pkg |-> k, since |-> clock,
                        expires |-> IF req[r].form > 0 THEN clock + req[r].form ELSE None]]
                /\ consumed' = [consumed EXCEPT ![u] = 0]
                /\ carried' = [carried EXCEPT ![u] = Bytes(Owned(u), {HourOf(clock)})]
                /\ moved' = moved \ {u}
                /\ UNCHANGED <<users, packages, links, targets>>
                /\ Excuse({u}) /\ Drift({})
    /\ Ends(r)
    /\ UNCHANGED <<clock, users, packages, links, targets, ledger, billed, writes, deaths>>

PostPackage(k, plan) ==
    /\ AtOnce
    /\ packages[k] = None /\ ~Held(k)
    /\ packages' = [packages EXCEPT ![k] = plan]
    /\ UNCHANGED <<users, sub, links, targets, usage, excused, drifted>>

\* An edited package is at once that of its subscribers.
PutPackage(k, plan) ==
    /\ AtOnce
    /\ packages[k] \notin {None, plan}
    /\ packages' = [packages EXCEPT ![k] = plan]
    /\ UNCHANGED <<users, sub, links, targets, usage, drifted>>
    /\ Excuse({u \in User : sub[u] # None /\ sub[u].pkg = k})

\* DELETE /packages/:id, once nobody is subscribed to it; the foreign key
\* refuses when somebody is by then.
RemovePackage(r, k) ==
    /\ packages[k] # None
    /\ \A u \in User : sub[u] # None => sub[u].pkg # k
    /\ Begins(r, [Resting EXCEPT !.op = "withdraw", !.step = "write", !.id = k])

DeletePackage(r) ==
    /\ At(r, "withdraw", "write")
    /\ packages' = IF \E u \in User : sub[u] # None /\ sub[u].pkg = req[r].id THEN packages
                   ELSE [packages EXCEPT ![req[r].id] = None]
    /\ Ends(r)
    /\ UNCHANGED <<clock, users, sub, links, targets, usage, excused, drifted, writes, deaths>>

-----------------------------------------------------------------------------
(* The links of the tunnels.  Nobody asks whose rules go through them.      *)

\* The owners of the rules in a tunnel.
Owners(t) ==
    {rules[x].user : x \in {y \in Rule : rules[y] # None /\ rules[y].tunnel = t}} \ {None}

\* A link with the nodes it gives its tunnel.
WriteLink(l, row) ==
    /\ AtOnce
    /\ links' = [links EXCEPT ![l] = row]
    /\ UNCHANGED <<users, sub, packages, targets, usage>>
    /\ Excuse(IF row = None THEN {} ELSE Owners(row.tunnel)) /\ Drift({})

\* POST /chains
PostLink(l, row) == links[l] = None /\ WriteLink(l, row)

\* PUT /chains/:id: to another node, or to another tunnel.
PutLink(l, row) == links[l] \notin {None, row} /\ WriteLink(l, row)

\* DELETE /chains/:id
DeleteLink(l) == links[l] # None /\ WriteLink(l, None)

-----------------------------------------------------------------------------

\* The hour that a byte is billed in is one of the subscription.
BilledIn(u, h) == sub[u] # None /\ h >= HourOf(sub[u].since)

\* A byte is billed to a rule, in the hour read some awaits before the ledger is
\* written.  The row of a rule deleted in between counts for nobody.
Bill(x, h) ==
    /\ rules[x] # None /\ billed < MaxBilled /\ h <= HourOf(clock)
    /\ billed' = billed + 1
    /\ ledger' = [ledger EXCEPT ![x][h] = @ + 1]
    /\ consumed' = LET u == rules[x].user
                   IN  IF u # None /\ BilledIn(u, h) THEN [consumed EXCEPT ![u] = @ + 1] ELSE consumed
    /\ UNCHANGED <<clock, accounts, targets, req, carried, moved, excused, drifted, writes, deaths>>

Tick ==
    /\ clock < MaxTime
    /\ clock' = clock + 1
    /\ UNCHANGED <<accounts, targets, usage, req, excused, drifted, writes, deaths>>

\* A worker dies between two awaits.  An endpoint is edited by then, and its rules
\* are not.
Die(r) ==
    /\ ~Idle(r) /\ deaths < MaxDeaths
    /\ deaths' = deaths + 1
    /\ Ends(r)
    /\ UNCHANGED <<clock, accounts, targets, usage, excused, writes>>
    /\ Drift(IF At(r, "endpoint", "sync") THEN {req[r].id} ELSE {})

RuleForm ==
    {form \in RuleRow : form.endpoint # None => form.targets = (CHOOSE a \in Address : TRUE)}

\* One field at a time; a form that changes none writes all the same.
Unchanged == [tunnel |-> Keep, user |-> Keep, endpoint |-> Keep, targets |-> Keep]
PatchForm ==
    {Unchanged}
    \cup {[Unchanged EXCEPT !.tunnel = t] : t \in Tunnel}
    \cup {[Unchanged EXCEPT !.user = u] : u \in User \cup {None}}
    \cup {[Unchanged EXCEPT !.endpoint = e] : e \in Endpoint \cup {None}}
    \cup {[Unchanged EXCEPT !.targets = a] : a \in Address}

\* Every user has subscribed to a package, or there is none yet; every endpoint
\* has an address, and there may be a rule already; the tunnels have no links yet.
Init ==
    /\ clock = 0
    /\ users = [u \in User |-> "active"]
    /\ \/ \E plans \in [Package -> Plan], k \in Package :
            /\ packages = plans
            /\ sub = [u \in User |-> [pkg |-> k, since |-> 0,
                        expires |-> IF plans[k].period > 0 THEN plans[k].period ELSE None]]
       \/ packages = [k \in Package |-> None] /\ sub = [u \in User |-> None]
    /\ endpoints \in [Endpoint -> Address]
    /\ links = [l \in Link |-> None]
    /\ \/ rules = [x \in Rule |-> None]
       \/ \E first \in Rule, u \in User, t \in Tunnel, e \in Endpoint :
            /\ sub[u] # None /\ Grants(PlanOf(u), t, NodesOf[t])
            /\ rules = [x \in Rule |-> IF x # first THEN None
                    ELSE [tunnel |-> t, user |-> u, endpoint |-> e, targets |-> endpoints[e]]]
    /\ ledger = [x \in Rule |-> [h \in Hour |-> 0]]
    /\ req = [r \in Request |-> Resting]
    /\ excused = {} /\ drifted = {} /\ moved = {}
    /\ consumed = [u \in User |-> 0]
    /\ carried = [u \in User |-> 0]
    /\ writes = 0 /\ deaths = 0 /\ billed = 0

RuleRequests ==
    \/ \E r \in Request, form \in RuleForm : PostRule(r, form)
    \/ \E r \in Request, x \in Rule, patch \in PatchForm : PutRule(r, x, patch)
    \/ \E r \in Request : Resolve(r) \/ InsertRule(r) \/ UpdateRule(r)
    \/ \E x \in Rule : DeleteRule(x)

EndpointRequests ==
    \/ \E e \in Endpoint, a \in Address : PostEndpoint(e, a)
    \/ \E r \in Request, e \in Endpoint, a \in Address : PutEndpoint(r, e, a)
    \/ \E r \in Request, e \in Endpoint : RemoveEndpoint(r, e)
    \/ \E r \in Request : UpdateEndpoint(r) \/ SyncRules(r) \/ DeleteEndpoint(r)

UserRequests ==
    \/ \E u \in User : PostUser(u) \/ DeleteUser(u)
    \/ \E u \in User, status \in {"active", "disabled"} : PutUser(u, status)
    \/ \E r \in Request, u \in User, k \in Package : Subscribe(r, u, k)
    \/ \E r \in Request : UpsertSubscription(r)

PackageRequests ==
    \/ \E k \in Package, plan \in Plan : PostPackage(k, plan) \/ PutPackage(k, plan)
    \/ \E r \in Request, k \in Package : RemovePackage(r, k)
    \/ \E r \in Request : DeletePackage(r)

LinkRequests ==
    \/ \E l \in Link, row \in LinkRow : PostLink(l, row) \/ PutLink(l, row)
    \/ \E l \in Link : DeleteLink(l)

Next ==
    \/ RuleRequests \/ EndpointRequests \/ UserRequests \/ PackageRequests \/ LinkRequests
    \/ \E x \in Rule, h \in Hour : Bill(x, h)
    \/ \E r \in Request : Die(r)
    \/ Tick

Spec == Init /\ [][Next]_vars

-----------------------------------------------------------------------------

\* An edit of e is between its two statements.
Syncing(e) == \E r \in Request : At(r, "endpoint", "sync") /\ req[r].id = e

\* routes/admin.ts:998-1001, the copy of the address that every rule keeps: it is
\* that of the endpoint, but while an edit re-syncs, and after a write on the
\* strength of an address read before, or of an edit that died before it re-synced.
TargetsFollow ==
    \A e \in Endpoint : endpoints[e] # None => Follows(e) \/ e \in drifted \/ Syncing(e)

\* routes/admin.ts, validateRuleOwnership: what a user owns is within what it has
\* bought, however rules and their owners are edited; but for a plan that was
\* changed around its rules, a link that took one of its tunnels to a node outside
\* the plan (no handler of chains asks for plans), and a rule written on a
\* validation that something else has overtaken.
RulesWithinPlan == \A u \in User : Within(u) \/ u \in excused

\* services/quota.ts, quotaForUser over userUsageBytes: a user is served only while
\* less was billed to it than it bought, and is called exhausted only when that is
\* used up by what was billed since it subscribed and in the rest of that hour;
\* unless rules with traffic have come or gone.  What an ingest stores late, under an
\* hour before the subscription, is not billed to it.
UsageIsFair ==
    \A u \in User : sub[u] # None /\ u \notin moved /\ PlanOf(u).bytes > 0 =>
        /\ Decision(u) = "served" => consumed[u] < PlanOf(u).bytes
        /\ Decision(u) = "exhausted" => consumed[u] + carried[u] >= PlanOf(u).bytes

=============================================================================
