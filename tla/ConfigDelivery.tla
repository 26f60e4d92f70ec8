--------------------------- MODULE ConfigDelivery ---------------------------
(***************************************************************************)
(* How one node comes to serve what the panel's tables say: recomputations *)
(* on the server (db/repo.ts, services/recompute.ts), each of which reads  *)
(* the tables, compares with the stored snapshot and writes it in separate *)
(* awaits; the notification through the node's push object; the agent's    *)
(* conditional fetch, its application and its cache on disk                *)
(* (apps/agent/src/control.rs, lib.rs, store.rs).                          *)
(*                                                                         *)
(* A configuration is a model value: what module Panel renders and module  *)
(* Supervisor applies.  When the agent asks is the subject of AgentLink;   *)
(* here a poll timer may elapse or never elapse.                           *)
(***************************************************************************)
EXTENDS Integers, FiniteSets

CONSTANTS
    Content,    \* what the tables can render to
    Empty,      \* the configuration of a node without chains
    Refused,    \* those the agent refuses as a whole
    Worker,     \* recomputations that can be under way at once
    None,
    MaxNow,     \* bound on the epoch seconds read by the workers
    MaxWrites,  \* bound on administrative writes
    MaxFaults   \* bound on things that go wrong

ASSUME DeliveryAssumption ==
    /\ Refused \subseteq Content
    /\ Empty \in Content \ Refused
    /\ None \notin Content /\ None \notin [version : Nat, content : Content]
    /\ MaxNow \in Nat \ {0} /\ MaxWrites \in Nat /\ MaxFaults \in Nat

VARIABLES
    rendered,   \* what the tables render to now
    row,        \* node_configs: None or [version, content]
    work,       \* each worker: [step, content, tells]
    online,     \* the agent holds a session of the push channel
    due,        \* the control loop has a reason to poll
    agent,      \* "down", "waiting", "asking", "awaiting", "applying", "saving"
    version,    \* Control.version
    reply,      \* the response being applied
    held,       \* the configuration the supervisor was last given
    heldVersion,
    whole,      \* it came up without failures
    cache,      \* last-config.toml: None or [version, content]
    history,    \* history: every snapshot stored, by version
    writes,
    faults

serverVars == <<rendered, row, work, history, writes>>
runtimeVars == <<held, heldVersion, whole>>
agentVars == <<agent, version, reply, cache, runtimeVars>>
vars == <<serverVars, agentVars, online, due, faults>>

Snapshot == [version : Nat, content : Content]

Resting == [step |-> "idle", content |-> None, tells |-> FALSE]

\* The node has just been created, and its first recomputation deferred.
Init ==
    /\ rendered = Empty
    /\ row = None
    /\ \E first \in Worker : work = [w \in Worker |->
            IF w = first THEN [step |-> "start", content |-> None, tells |-> TRUE] ELSE Resting]
    /\ online = FALSE
    /\ due = FALSE
    /\ agent = "down"
    /\ version = 0
    /\ reply = None
    /\ held = None /\ heldVersion = 0 /\ whole = FALSE
    /\ cache = None
    /\ history = [v \in {} |-> None]
    /\ writes = 0
    /\ faults = 0

\* Something goes wrong; the bound is MaxFaults.
Fault == faults < MaxFaults /\ faults' = faults + 1

-----------------------------------------------------------------------------
(* The server. *)

Idle(w) == work[w].step = "idle"

Begins(w, tells) == work' = [work EXCEPT ![w] = [step |-> "start", content |-> None, tells |-> tells]]

\* An administrative write changes what the node should serve, and defers the
\* node's recomputation.
AdminWrite(w, c) ==
    /\ Idle(w) /\ writes < MaxWrites /\ c # rendered
    /\ rendered' = c
    /\ writes' = writes + 1
    /\ Begins(w, TRUE)
    /\ UNCHANGED <<row, history, agentVars, online, due, faults>>

\* The daily sweep recomputes the node; nothing tells its start from its first
\* read of the tables.
Cron(w) ==
    /\ Idle(w)
    /\ work' = [work EXCEPT ![w] = [step |-> "built", content |-> rendered, tells |-> TRUE]]
    /\ UNCHANGED <<rendered, row, history, writes, agentVars, online, due, faults>>

\* buildRealmNodeConfig reads the tables.
Build(w) ==
    /\ work[w].step = "start"
    /\ work' = [work EXCEPT ![w].step = "built", ![w].content = rendered]
    /\ UNCHANGED <<rendered, row, history, writes, agentVars, online, due, faults>>

\* The stored snapshot is read: an equal one ends the recomputation.
Compare(w) ==
    /\ work[w].step = "built"
    /\ work' = IF row # None /\ row.content = work[w].content
               THEN [work EXCEPT ![w] = Resting]
               ELSE [work EXCEPT ![w].step = "store"]
    /\ UNCHANGED <<rendered, row, history, writes, agentVars, online, due, faults>>

\* The version is the clock, whatever is stored.
UpsertedByClock(now) == now

\* The version is the worker's clock, bumped past the stored one.
Upserted(now) == IF row # None /\ row.version >= now THEN row.version + 1 ELSE now

\* upsertNodeConfigSnapshot, one statement.  The workers' clocks need not agree.
Store(w) ==
    /\ work[w].step = "store"
    /\ \E now \in 1 .. MaxNow :
        LET v == Upserted(now)
            c == work[w].content
        IN  /\ row' = [version |-> v, content |-> c]
            /\ history' = [x \in DOMAIN history \cup {v} |-> IF x = v THEN c ELSE history[x]]
    /\ work' = IF work[w].tells THEN [work EXCEPT ![w].step = "notify"]
                                ELSE [work EXCEPT ![w] = Resting]
    /\ UNCHANGED <<rendered, writes, agentVars, online, due, faults>>

\* notifyConfigChanged: reaches a live session, and nobody otherwise.
Notify(w) ==
    /\ work[w].step = "notify"
    /\ work' = [work EXCEPT ![w] = Resting]
    /\ due' = (due \/ online)
    /\ UNCHANGED <<rendered, row, history, writes, agentVars, online, faults>>

\* Any await of a recomputation fails, the notification's included; it is
\* logged and forgotten.
WorkFails(w) ==
    /\ ~Idle(w)
    /\ Fault
    /\ work' = [work EXCEPT ![w] = Resting]
    /\ UNCHANGED <<rendered, row, history, writes, agentVars, online, due>>

-----------------------------------------------------------------------------
(* The agent. *)

\* A handshake succeeds, and the loop keeps waiting.
ConnectWithoutPoll ==
    /\ agent # "down" /\ ~online
    /\ online' = TRUE
    /\ UNCHANGED <<serverVars, agentVars, due, faults>>

\* A handshake succeeds; the session starts with a poll.
Connect ==
    /\ agent # "down" /\ ~online
    /\ online' = TRUE
    /\ due' = TRUE
    /\ UNCHANGED <<serverVars, agentVars, faults>>

Disconnect ==
    /\ online
    /\ online' = FALSE
    /\ UNCHANGED <<serverVars, agentVars, due, faults>>

\* The poll timer elapses.
PollTimer ==
    /\ agent = "waiting" /\ ~due
    /\ due' = TRUE
    /\ UNCHANGED <<serverVars, agentVars, online, faults>>

Ask ==
    /\ agent = "waiting" /\ due
    /\ due' = FALSE
    /\ agent' = "asking"
    /\ UNCHANGED <<serverVars, version, reply, cache, runtimeVars, online, faults>>

OnDemand == \E w \in Worker : ~Idle(w) /\ ~work[w].tells

\* No snapshot yet: the handler of GET /config recomputes the node, and tells
\* nobody else.
AggregateOnDemand(w) ==
    /\ agent = "asking" /\ row = None /\ Idle(w)
    /\ Begins(w, FALSE)
    /\ agent' = "awaiting"
    /\ UNCHANGED <<rendered, row, history, writes>>
    /\ UNCHANGED <<version, reply, cache, runtimeVars, online, due, faults>>

Answerable == row # None /\ (agent = "asking" \/ (agent = "awaiting" /\ ~OnDemand))

\* 304 when the snapshot is not newer than the agent's version, else the
\* snapshot.
Answer ==
    /\ Answerable
    /\ IF row.version <= version
       THEN agent' = "waiting" /\ reply' = None
       ELSE agent' = "applying" /\ reply' = row
    /\ UNCHANGED <<serverVars, version, cache, runtimeVars, online, due, faults>>

FetchEnds ==
    /\ agent' = "waiting"
    /\ UNCHANGED <<serverVars, version, reply, cache, runtimeVars, online, due>>

\* The fetch fails on its way.  The timer of the backoff is PollTimer.
FetchFails ==
    /\ agent \in {"asking", "awaiting"}
    /\ Fault
    /\ FetchEnds

\* There still is no snapshot after the handler's own recomputation failed.
FetchInVain ==
    /\ agent = "awaiting" /\ row = None /\ ~OnDemand
    /\ FetchEnds
    /\ UNCHANGED faults

Applies(intact) ==
    /\ held' = reply.content
    /\ heldVersion' = reply.version
    /\ whole' = intact

ApplySucceeds ==
    /\ agent = "applying" /\ reply.content \notin Refused
    /\ Applies(TRUE)
    /\ agent' = "saving"
    /\ UNCHANGED <<serverVars, version, reply, cache, online, due, faults>>

\* Some services failed: what came up serves, the version is not adopted.
ApplyIsPartial ==
    /\ agent = "applying" /\ reply.content \notin Refused
    /\ Fault
    /\ Applies(FALSE)
    /\ agent' = "waiting" /\ reply' = None
    /\ UNCHANGED <<serverVars, version, cache, online, due>>

ApplyIsRefused ==
    /\ agent = "applying" /\ reply.content \in Refused
    /\ agent' = "waiting" /\ reply' = None
    /\ UNCHANGED <<serverVars, version, cache, runtimeVars, online, due, faults>>

\* As Save, and what woke the loop during the poll is taken for served.
SaveSwallowing ==
    /\ agent = "saving"
    /\ cache' = reply
    /\ version' = reply.version
    /\ agent' = "waiting" /\ reply' = None
    /\ due' = FALSE
    /\ UNCHANGED <<serverVars, runtimeVars, online, faults>>

\* The response is cached, and its version adopted whether or not the cache
\* could be written.
Save ==
    /\ agent = "saving"
    /\ \/ cache' = reply /\ UNCHANGED faults
       \/ Fault /\ UNCHANGED cache
    /\ version' = reply.version
    /\ agent' = "waiting" /\ reply' = None
    /\ UNCHANGED <<serverVars, runtimeVars, online, due>>

\* The process dies and forgets its version later than it should.
CrashKeepingVersion ==
    /\ agent # "down"
    /\ Fault
    /\ agent' = "down" /\ reply' = None
    /\ held' = None /\ heldVersion' = 0 /\ whole' = FALSE
    /\ online' = FALSE /\ due' = FALSE
    /\ UNCHANGED <<serverVars, version, cache>>

\* The agent's process dies at any point; its cache stays.
Crash ==
    /\ agent # "down"
    /\ Fault
    /\ agent' = "down" /\ reply' = None /\ version' = 0
    /\ held' = None /\ heldVersion' = 0 /\ whole' = FALSE
    /\ online' = FALSE /\ due' = FALSE
    /\ UNCHANGED <<serverVars, cache>>

\* It starts: the cached response is applied, in part or as a whole, and its
\* version is the baseline of the first poll either way.
Boot ==
    /\ agent = "down"
    /\ agent' = "waiting"
    /\ IF cache = None
       THEN UNCHANGED <<version, runtimeVars, faults>>
       ELSE /\ version' = cache.version
            /\ held' = cache.content
            /\ heldVersion' = cache.version
            /\ \/ whole' = TRUE /\ UNCHANGED faults
               \/ whole' = FALSE /\ Fault
    /\ UNCHANGED <<serverVars, reply, cache, online, due>>

-----------------------------------------------------------------------------
Recomputes(w) == Build(w) \/ Compare(w) \/ Store(w) \/ Notify(w)

\* The agent's task between two waits.
Serves ==
    \/ Ask
    \/ Answer
    \/ ApplySucceeds
    \/ ApplyIsRefused
    \/ Save
    \/ Boot
    \/ \E w \in Worker : AggregateOnDemand(w)
    \/ FetchInVain

Next ==
    \/ \E w \in Worker, c \in Content : AdminWrite(w, c)
    \/ \E w \in Worker : Cron(w)
    \/ \E w \in Worker : Recomputes(w)
    \/ \E w \in Worker : WorkFails(w)
    \/ \E w \in Worker : AggregateOnDemand(w)
    \/ Connect
    \/ Disconnect
    \/ PollTimer
    \/ Ask
    \/ Answer
    \/ FetchFails
    \/ FetchInVain
    \/ ApplySucceeds
    \/ ApplyIsPartial
    \/ ApplyIsRefused
    \/ Save
    \/ Crash
    \/ Boot

\* Every recomputation goes on, the sweep comes every day, the agent's task
\* goes on, its supervisor restarts it, and its channel keeps dialing.  The
\* poll timer has no fairness: AgentLink shows that it may never elapse.
Fairness ==
    /\ \A w \in Worker : WF_vars(Recomputes(w))
    /\ WF_vars(\E w \in Worker : Cron(w))
    /\ WF_vars(Serves)
    /\ WF_vars(Connect)

Spec == Init /\ [][Next]_vars
FairSpec == Spec /\ Fairness

-----------------------------------------------------------------------------
\* Types, and what a stopped agent and a stored snapshot look like.
TypeOK ==
    /\ rendered \in Content
    /\ row \in Snapshot \cup {None}
    /\ work \in [Worker -> [step : {"idle", "start", "built", "store", "notify"},
                            content : Content \cup {None}, tells : BOOLEAN]]
    /\ online \in BOOLEAN /\ due \in BOOLEAN
    /\ agent \in {"down", "waiting", "asking", "awaiting", "applying", "saving"}
    /\ version \in Nat
    /\ reply \in Snapshot \cup {None}
    /\ held \in Content \cup {None}
    /\ heldVersion \in Nat
    /\ whole \in BOOLEAN
    /\ cache \in Snapshot \cup {None}
    /\ DOMAIN history \subseteq Nat
    /\ writes \in 0 .. MaxWrites /\ faults \in 0 .. MaxFaults
    /\ agent = "down" => version = 0 /\ held = None /\ heldVersion = 0 /\ ~online
    /\ agent \in {"applying", "saving"} <=> reply # None

\* A 304 is never wrong (agent.ts:45): an agent whose version is not behind the
\* stored snapshot was given exactly that snapshot's configuration, although
\* recomputations race, versions come from unsynchronised clocks and the
\* version may be that of a cache written before a crash.
NotModifiedIsTrue ==
    agent # "down" /\ row # None /\ version >= row.version => held = row.content

\* The mechanism keeps the promise of ConfigRegister: snapshots are published
\* under growing versions, and a running agent only moves forward through
\* what was published, whatever fails and in whatever order it happens.
Register == INSTANCE ConfigRegister WITH serving <- heldVersion, served <- held
ImplementsRegister == Register!Spec

\* The node serves what the tables say, all of it or what has come up of it.
Settled == rendered \in Refused \/ (agent # "down" /\ held = rendered)
SettledWhole == rendered \in Refused \/ (Settled /\ whole)

\* While nothing fails, the node ends up serving what the tables say in the end: a
\* session that is away for a while and a push during a poll lose no change.  Of two
\* recomputations the one that read older tables may store last (repo.ts:420): that
\* does lose one, and only the daily sweep brings it back.
ChangesArrive == [](faults = 0) => <>[]SettledWhole

\* A version is adopted only for a configuration that came up without failures
\* (control.rs:94-96, "The version is NOT adopted so the next poll re-fetches
\* the same config").  A boot from the cache adopts its version whatever came up.
AdoptedMeansWhole ==
    agent # "down" /\ held # None /\ version = heldVersion => whole

\* After any bounded number of failures and crashes the same holds, provided
\* the session breaks once in a while: a lost notification is made up for by
\* the poll of the next session, a lost recomputation by the sweep.  The services
\* that failed come up as well, unless the agent has booted from its cache in part.
FailuresAreRepaired ==
    []<>(~online) => <>[]Settled /\ ([]AdoptedMeansWhole => <>[]SettledWhole)
=============================================================================
