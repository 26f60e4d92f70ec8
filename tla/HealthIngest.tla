---------------------------- MODULE HealthIngest ----------------------------
(***************************************************************************)
(* What the panel believes about the nodes (services/health.ts,            *)
(* services/dashboard.ts): heartbeats arrive over the push object's        *)
(* sockets (do/nodePush.ts) or POST /heartbeat (routes/agent.ts), and each *)
(* replaces the node's rows of service_health and derives the status of    *)
(* the rules, statement by statement, while other beats do the same.       *)
(*                                                                         *)
(* A service is named after its rule, or is the relay of a whole tunnel.   *)
(* Which snapshots an agent takes is the subject of Supervisor.            *)
(***************************************************************************)
EXTENDS Integers, FiniteSets, FiniteSetsExt

CONSTANTS
    Node, Rule,
    Relay,       \* services of tunnels
    Slot,        \* beats of a node that can be under way at once: 1 .. n
    Heartbeat,   \* the sentinel's service name
    None,
    Chunk,       \* rows per statement
    Latency,     \* bound on the ticks a beat takes, from the agent to its last statement
    Offline,     \* age at which a report no longer counts, in ticks of a heartbeat
    Scenes,      \* what can take part, and how much of the bounds is spent
    MaxChanges,  \* bound on what operators and agents change
    MaxMishaps   \* bound on beats that are lost or die half way

Service == Rule \cup Relay

State == {"ready", "failed"}
Status == {"created", "paused", "running", "error"}
Snapshot == [Service -> State \cup {None}]

ASSUME HealthAssumption ==
    /\ IsFiniteSet(Service) /\ Heartbeat \notin Service /\ None \notin Service
    /\ None \notin Nat /\ None \notin State /\ None \notin [state : State, age : Nat] /\ None \notin Snapshot
    /\ {Chunk, Latency, Offline} \subseteq Nat \ {0}
    /\ {MaxChanges, MaxMishaps} \subseteq Nat
    /\ Slot \subseteq Nat
    /\ \A s \in Scenes :
        /\ s.nodes \subseteq Node /\ s.services \subseteq Service /\ s.slots \subseteq Slot
        /\ s.world \in [Node -> Snapshot] /\ s.hosts \in [Rule -> SUBSET s.nodes]
        /\ s.changes \in Nat /\ s.mishaps \in Nat

VARIABLES
    scene,    \* which of the scenes this is; never changes
    alive,    \* agents that run
    world,    \* the state of every service an agent has, None for the others
    due,      \* agents whose heartbeat timer has fired
    rows,     \* service_health: None or [state, age]
    beats,    \* beats under way
    hosts,    \* nodes that take part in the tunnel of a rule
    status,   \* relay_rules.status
    halted,   \* history: rules whose operator's last word is a pause
    shown,    \* history: the snapshot of the last beat, None if others got in between
    noted,    \* history: age of the last beat the sentinel was stamped for
    changes, mishaps

vars == <<scene, alive, world, due, rows, beats, hosts, status, halted, shown, noted, changes, mishaps>>

Resting == [step |-> "idle", snapshot |-> None, age |-> 0, left |-> {}, alone |-> TRUE]

Steps == {"idle", "stamp", "upsert", "diff", "delete", "lookup", "update"}
Storing == Steps \ {"idle", "stamp"}

Older(age) == IF age < Offline THEN age + 1 ELSE age

-----------------------------------------------------------------------------
(* What a snapshot says. *)

Reports(snapshot) == {s \in Service : snapshot[s] # None}

\* Of a rule: that it runs, that it does not, or nothing.
Verdict(snapshot, r) ==
    CASE snapshot[r] = "ready" -> "running"
      [] snapshot[r] = "failed" -> "error"
      [] OTHER -> None

\* What is kept of a node's rows.
Kept(snapshot) == Reports(snapshot) \cup {Heartbeat}

-----------------------------------------------------------------------------
(* The dashboard. *)

Stored(n) == {s \in Service \cup {Heartbeat} : rows[n][s] # None}

\* The service rows alone.
LastReportOfServices(n) ==
    IF Stored(n) \cap Service = {} THEN None ELSE Min({rows[n][s].age : s \in Stored(n) \cap Service})

\* The age of the freshest row, the sentinel's among them.
LastReport(n) ==
    IF Stored(n) = {} THEN None ELSE Min({rows[n][s].age : s \in Stored(n)})

Online(n) == LastReport(n) # None /\ LastReport(n) < Offline

Count(n, states) == Cardinality({s \in Stored(n) \cap Service : rows[n][s].state \in states})

\* nodeHealthKind, in the panel.
Kind(n) ==
    CASE LastReport(n) = None -> "unreported"
      [] LastReport(n) # None /\ ~Online(n) -> "offline"
      [] Online(n) /\ Count(n, {"failed"}) > 0 -> "abnormal"
      [] Online(n) /\ Count(n, {"failed"}) = 0 -> IF Count(n, State) = 0 THEN "idle" ELSE "ready"

\* GET /nodes/:id/health.
Shown(n) == [s \in Service |-> IF rows[n][s] = None THEN None ELSE rows[n][s].state]

-----------------------------------------------------------------------------
(* A beat. *)

At(n, k, step) == beats[n][k].step = step
Goes(n, k, fields) == beats' = [beats EXCEPT ![n][k] = fields]

Observed == <<scene, alive, world, hosts, halted, changes>>
Rest == <<noted, due, mishaps>>

\* The timer has fired: the agent takes a snapshot and sends it, and the handler
\* reads the clock as soon as it has parsed the message.
Beat(n, k) ==
    /\ n \in alive /\ due[n]
    /\ k \in scene.slots /\ At(n, k, "idle") /\ \A j \in scene.slots : j < k => ~At(n, j, "idle")
    /\ due' = [due EXCEPT ![n] = FALSE]
    /\ Goes(n, k, [Resting EXCEPT !.step = "stamp", !.snapshot = world[n]])
    /\ UNCHANGED <<Observed, rows, status, shown, noted, mishaps>>

\* The beat does not get there; the agent does not repeat it.
Lose(n) ==
    /\ n \in alive /\ due[n] /\ mishaps < MaxMishaps
    /\ due' = [due EXCEPT ![n] = FALSE]
    /\ mishaps' = mishaps + 1
    /\ UNCHANGED <<Observed, rows, beats, status, shown, noted>>

Others(n, k) == {j \in Slot \ {k} : beats[n][j].step \in Storing /\ beats[n][j].snapshot # beats[n][k].snapshot}

Row(state, age) == [state |-> state, age |-> age]

\* The liveness stamp comes first.
Stamp(n, k) ==
    /\ At(n, k, "stamp")
    /\ LET b == beats[n][k] IN
        /\ rows' = [rows EXCEPT ![n][Heartbeat] = Row("ready", b.age)]
        /\ noted' = [noted EXCEPT ![n] = Min({@, b.age})]
        /\ beats' = [beats EXCEPT ![n] = [j \in Slot |->
                CASE j = k -> [b EXCEPT !.step = IF Reports(b.snapshot) = {} THEN "diff" ELSE "upsert",
                                        !.left = Reports(b.snapshot), !.alone = Others(n, k) = {}]
                  [] j \in Others(n, k) -> [@[j] EXCEPT !.alone = FALSE]
                  [] OTHER -> @[j]]]
    /\ shown' = [shown EXCEPT ![n] = None]
    /\ UNCHANGED <<Observed, status, due, mishaps>>

\* The next statement takes Chunk rows, or those that are left.
Part(left, part) == part \subseteq left /\ Cardinality(part) = Min({Chunk, Cardinality(left)})

\* The rows outside the statement's own chunk are deleted with it.
UpsertedNotIn(old, b, part) ==
    [s \in DOMAIN old |-> IF s \in part THEN Row(b.snapshot[s], b.age)
                          ELSE IF s = Heartbeat THEN old[s] ELSE None]

Upserted(old, b, part) ==
    [s \in DOMAIN old |-> IF s \in part THEN Row(b.snapshot[s], b.age) ELSE old[s]]

Upsert(n, k) ==
    /\ At(n, k, "upsert")
    /\ LET b == beats[n][k] IN
        \E part \in SUBSET b.left :
            /\ Part(b.left, part)
            /\ rows' = [rows EXCEPT ![n] = Upserted(@, b, part)]
            /\ Goes(n, k, [b EXCEPT !.left = @ \ part, !.step = IF b.left = part THEN "diff" ELSE @])
    /\ UNCHANGED <<Observed, status, shown, Rest>>

Verdicts(b) == {r \in Rule : Verdict(b.snapshot, r) # None}

\* The beat is over, or goes on with the rules it has a verdict on.
Concludes(n, k, b) ==
    IF Verdicts(b) # {}
    THEN Goes(n, k, [b EXCEPT !.step = "lookup", !.left = {}]) /\ UNCHANGED shown
    ELSE /\ Goes(n, k, Resting)
         /\ shown' = [shown EXCEPT ![n] = IF b.alone THEN b.snapshot ELSE None]

\* What is stored is read, ...
Diff(n, k) ==
    /\ At(n, k, "diff")
    /\ LET b == beats[n][k]
           stale == Stored(n) \ Kept(b.snapshot)
       IN  IF stale = {} THEN Concludes(n, k, b)
           ELSE Goes(n, k, [b EXCEPT !.step = "delete", !.left = stale]) /\ UNCHANGED shown
    /\ UNCHANGED <<Observed, rows, status, Rest>>

\* ... and what the snapshot no longer has is deleted.
Delete(n, k) ==
    /\ At(n, k, "delete")
    /\ LET b == beats[n][k] IN
        \E part \in SUBSET b.left :
            /\ Part(b.left, part)
            /\ rows' = [rows EXCEPT ![n] = [s \in DOMAIN @ |-> IF s \in part THEN None ELSE @[s]]]
            /\ IF b.left = part THEN Concludes(n, k, b)
               ELSE Goes(n, k, [b EXCEPT !.left = @ \ part]) /\ UNCHANGED shown
    /\ UNCHANGED <<Observed, status, Rest>>

\* A node speaks for whatever it names.
AuthorizedAll(n) == Rule

\* nodeRuleTunnels: a node speaks for the rules of its own tunnels.
Authorized(n) == {r \in Rule : n \in hosts[r]}

\* The current statuses are read, and those that are to change are noted.
Lookup(n, k) ==
    /\ At(n, k, "lookup")
    /\ LET b == beats[n][k]
           changed == {r \in Verdicts(b) \cap Authorized(n) : status[r] # Verdict(b.snapshot, r)}
       IN  IF changed # {} THEN Goes(n, k, [b EXCEPT !.step = "update", !.left = changed]) /\ UNCHANGED shown
           ELSE /\ Goes(n, k, Resting)
                /\ shown' = [shown EXCEPT ![n] = IF b.alone THEN b.snapshot ELSE None]
    /\ UNCHANGED <<Observed, rows, status, Rest>>

\* A status that is paused by now stays.
Derived(old, verdict) == IF old = "paused" THEN old ELSE verdict

UpdateStatus(n, k) ==
    /\ At(n, k, "update")
    /\ LET b == beats[n][k] IN
        \E r \in b.left :
            /\ status' = [status EXCEPT ![r] = Derived(@, Verdict(b.snapshot, r))]
            /\ IF b.left # {r} THEN Goes(n, k, [b EXCEPT !.left = @ \ {r}]) /\ UNCHANGED shown
               ELSE /\ Goes(n, k, Resting)
                    /\ shown' = [shown EXCEPT ![n] = IF b.alone THEN b.snapshot ELSE None]
    /\ UNCHANGED <<Observed, rows, Rest>>

\* A statement fails, and what is stored stays.
Fail(n, k) ==
    /\ ~At(n, k, "idle") /\ mishaps < MaxMishaps
    /\ mishaps' = mishaps + 1
    /\ Goes(n, k, Resting)
    /\ UNCHANGED <<Observed, rows, status, shown, noted, due>>

-----------------------------------------------------------------------------
(* Time, and what others do; the bound is MaxChanges. *)

\* A heartbeat interval passes.  No timer stays unanswered for one, and no beat
\* takes longer than Latency of them.
Tick ==
    /\ \A n \in alive : ~due[n]
    /\ \A n \in Node, k \in Slot : ~At(n, k, "idle") => beats[n][k].age < Latency
    /\ due' = [n \in Node |-> n \in alive]
    /\ rows' = [n \in Node |-> [s \in Service \cup {Heartbeat} |->
            IF rows[n][s] = None THEN None ELSE [rows[n][s] EXCEPT !.age = Older(@)]]]
    /\ beats' = [n \in Node |-> [k \in Slot |->
            IF At(n, k, "idle") THEN Resting ELSE [beats[n][k] EXCEPT !.age = @ + 1]]]
    /\ noted' = [n \in Node |-> Older(noted[n])]
    /\ UNCHANGED <<Observed, status, shown, mishaps>>

Change == changes < MaxChanges /\ changes' = changes + 1

\* A service starts, fails, or leaves the configuration.
AgentChanges(n, s, state) ==
    /\ n \in scene.nodes /\ s \in scene.services
    /\ Change /\ world[n][s] # state
    /\ world' = [world EXCEPT ![n][s] = state]
    /\ UNCHANGED <<scene, alive, due, rows, beats, hosts, status, halted, shown, noted, mishaps>>

AgentStopsOrStarts(n) ==
    /\ n \in scene.nodes /\ Change
    /\ alive' = IF n \in alive THEN alive \ {n} ELSE alive \cup {n}
    /\ due' = [due EXCEPT ![n] = n \notin alive]
    /\ UNCHANGED <<scene, world, rows, beats, hosts, status, halted, shown, noted, mishaps>>

\* The rule form sends a status with every edit.
OperatorSetsStatus(r, value) ==
    /\ Change
    /\ status' = [status EXCEPT ![r] = value]
    /\ halted' = IF value = "paused" THEN halted \cup {r} ELSE halted \ {r}
    /\ UNCHANGED <<scene, alive, world, due, rows, beats, hosts, shown, noted, mishaps>>

\* The rule moves to another tunnel, or its tunnel's links change.
HostsChange(r, ns) ==
    /\ ns \subseteq scene.nodes /\ Change /\ hosts[r] # ns
    /\ hosts' = [hosts EXCEPT ![r] = ns]
    /\ UNCHANGED <<scene, alive, world, due, rows, beats, status, halted, shown, noted, mishaps>>

\* A panel that has not heard of its nodes yet.
Init ==
    /\ scene \in Scenes
    /\ alive = scene.nodes
    /\ world = scene.world
    /\ due = [n \in Node |-> FALSE]
    /\ rows = [n \in Node |-> [s \in Service \cup {Heartbeat} |-> None]]
    /\ beats = [n \in Node |-> [k \in Slot |-> Resting]]
    /\ hosts = scene.hosts
    /\ status = [r \in Rule |-> "created"]
    /\ halted = {}
    /\ shown = [n \in Node |-> None]
    /\ noted = [n \in Node |-> Offline]
    /\ changes = scene.changes /\ mishaps = scene.mishaps

Works(n, k) ==
    Stamp(n, k) \/ Upsert(n, k) \/ Diff(n, k) \/ Delete(n, k)
        \/ Lookup(n, k) \/ UpdateStatus(n, k)

Next ==
    \/ \E n \in Node, k \in Slot : Beat(n, k) \/ Works(n, k) \/ Fail(n, k)
    \/ \E n \in Node : Lose(n)
    \/ Tick
    \/ \E n \in Node, s \in Service, state \in State \cup {None} : AgentChanges(n, s, state)
    \/ \E n \in Node : AgentStopsOrStarts(n)
    \/ \E r \in Rule, value \in Status : OperatorSetsStatus(r, value)
    \/ \E r \in Rule, ns \in SUBSET Node : HostsChange(r, ns)

\* Timers fire, agents answer theirs, and a beat that is not lost gets done.
Spec ==
    /\ Init /\ [][Next]_vars
    /\ WF_vars(Tick)
    /\ \A n \in Node : WF_vars(\E k \in Slot : Beat(n, k))
    /\ \A n \in Node, k \in Slot : WF_vars(Works(n, k))

-----------------------------------------------------------------------------

\* services/health.ts:79-94: between beats the rows of a node are exactly the services
\* of its last snapshot, in their states, be it in several statements or empty; unless
\* a beat with another snapshot was storing at the same time, or one died.
RowsAreTheSnapshot ==
    \A n \in Node : shown[n] # None => Shown(n) = shown[n]

\* services/dashboard.ts:112-124, OFFLINE_AFTER_MS, as the panel shows it: a node whose
\* beat was stamped recently is online, whatever older beats write after it and whether
\* or not it has a service, and one without such a beat since the threshold is not.
OnlineMeansBeating ==
    \A n \in Node :
        /\ noted[n] + Latency < Offline => Kind(n) \notin {"unreported", "offline"}
        /\ noted[n] = Offline => Kind(n) \in {"unreported", "offline"}

\* What the nodes of a rule that are running say of it.
Evidence(r) == {Verdict(world[n], r) : n \in hosts[r] \cap alive} \ {None}

\* services/health.ts:98-104: in the end a rule is paused if the operator's last word
\* was that, and else, resumed or never paused, has the status its own running nodes
\* give it, if they agree; a node of another tunnel that still reports the service, or
\* whose beat is still being stored when the rule leaves it, has no say.
StatusSettles ==
    \A r \in Rule : <>[](IF r \in halted THEN status[r] = "paused"
                         ELSE Cardinality(Evidence(r)) = 1 => status[r] \in Evidence(r))

=============================================================================
