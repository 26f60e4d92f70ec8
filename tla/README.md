# tyz: a formal model of the tunnel relay platform

tyz relays TCP connections through tunnels. A **server** (`apps/server`, TypeScript on a Cloudflare
worker with D1 and a Durable Object per node) holds the tables an operator edits, renders one
configuration per node from them, and pushes a note when it changes. An **agent** on every node
(`apps/agent`, Rust) fetches its configuration, runs one listener per service, and reports health and
traffic. A **web panel** (`apps/web`, React) is what the operator edits with. This directory specifies how
that works in TLA+, checks it with TLC, and proves the parts that matter most with TLAPS.

    tlc -workers 2 -config Supervisor.cfg MCSupervisor     # a run
    tlapm AgentProofs.tla                                  # a proof module

`PROJECT.json` lists the runs, the mutants (for each property, a plausible bug that breaks it), the lines
each definition stands for, the hazards and the findings.

## 1. Inventory

### Components, their state and operations

| Component | Source | State | Operations | Modelled in |
|---|---|---|---|---|
| Service supervisor | agent `runtime/mod.rs`, `runtime/service.rs`, `runtime/tlsconf.rs`, `translate.rs` | `running`, `last`, `failures`, `material`; the listeners behind the handles | apply a payload service by service, restart directive, health snapshot, shutdown; accept loops die on their own | `Supervisor` |
| Configuration renderer | server `db/repo.ts` | none: a function of the rows | `buildNodeConfig`, `buildRealmNodeConfig`, `allocatePort` | `TunnelConfig` |
| Panel writes and recomputation | server `routes/admin.ts`, `services/recompute.ts`, cron of `index.ts` | tables; deferred jobs in flight | create / update / delete of nodes, tunnels, chains, rules, users, TLS settings; expansion of a deferred job; recompute; sweep | `Panel` |
| Push channel | agent `cp/ws.rs` | mode, failure window, backoff, heartbeat, watchdog, event queue | connect, session frames, close, fail, demote, promote | `WsChannel` |
| Control loop | agent `control.rs` | poll timer, heartbeat tick, backoff | the select over timer, tick and events; one poll | `AgentLink` |
| Push object, notification | server `do/nodePush.ts`, `services/notify.ts` | live sockets of a node | broadcast | `AgentLink`, `ConfigDelivery` |
| Configuration delivery | server `repo.ts`, `routes/agent.ts`; agent `control.rs`, `lib.rs`, `store.rs` | `node_configs` row, agent version, cache on disk | recompute in three awaits, `GET /config`, apply, cache, adopt, crash, boot | `ConfigDelivery`, `ConfigRegister` |
| Quotas | server `services/quota.ts` | subscriptions, usage | which rules are live; the end of an allowance; sweep after billing; the plan, its window, the usage of the rules owned | `TunnelConfig.LiveRules`, `Panel`, `Accounts` |
| Tenants | server `routes/admin.ts` | users, packages, subscriptions, rules, endpoints | create / update / delete, subscribe; the copy of an endpoint's address in its rules | `Accounts` |
| Data-plane connections | agent `runtime/service.rs`, `runtime/net.rs` | connection registry, caps, counters | accept, register, forward, drain | planned: `ServiceConns` |
| Traffic | agent `stats.rs`, `control.rs` (`Flush`), server `services/traffic.ts`, `routes/agent.ts` | cumulative counters, sample buffer; stored counters, hourly ledger | snapshot, merge, flush in chunks; ingest, gate, bill, store | `TrafficLedger`, `TrafficFlow` |
| TLS material | server `services/tls.ts` | `tls_material`, the profile and the domain in `app_settings` | ensure, set domain, set profile, renew, status; the DER encoding | `TlsMaterial`, `Der` |
| Health | server `services/health.ts`, `services/dashboard.ts`, `do/nodePush.ts` | `service_health`, status of rules | a beat's upserts, clean-up and verdicts; online or not | `HealthIngest` |
| Sessions | server `middleware/adminAuth.ts`, `routes/setup.ts`; `router.tsx`, `Login`, `Setup`, `Profile` | administrators, session key, its cache per isolate, cookies, guards | setup, login, logout, authenticated requests, change of password | `Sessions` |
| Web panel | `apps/web` | the query cache, the open dialog, requests under way | list, open, type, save, confirm, toggle, refresh, move between pages | `Console`, `Forms` |
| Shared schemas | `packages/shared` | none | what a form may send and a heartbeat contains | `Forms`, `HealthIngest`, `Accounts` |
| Rate limiter | agent `ratelimit.rs` | token buckets | take, refill | planned |
| Zero-copy relay | agent `runtime/zero.rs` | pipes and buffers | splice | not modelled: system calls, no protocol |
| Audit log, dashboard sums | server `services/audit.ts`, `services/dashboard.ts` | a log | append; aggregates | not modelled: nothing depends on them |

### How they interact

1. A route of the panel writes its rows, answers, and defers a recomputation (`waitUntil`).
2. Which tunnels are affected is mostly what the route read before its write. The deferred job finds their
   nodes *from the rows as they are when it runs*, renders each
   node, compares with the stored snapshot, stores a changed one under a new version, and asks the node's
   push object to broadcast `config_changed`.
3. The agent's push channel turns the frame into an event for the control loop. Independently the loop
   polls: on a short interval without a session, on a long one with it, and at the start of each session.
4. A poll is a conditional fetch: 304 if the stored version is not newer. A new configuration goes through
   the certificates, the supervisor and the cache, and its version is adopted only at the end.
5. The supervisor compares the payload with its handles and rebuilds what differs. Its failures and its
   running services are the health snapshot, which the server takes for the whole truth: it replaces the
   node's rows of `service_health`, derives the status of the rules, and makes the node online.
6. A rendering of a TLS tunnel issues what material is missing; the settings forms and the daily sweep
   replace it, and recompute the nodes that have it.
7. The panel reads lists through a cache, opens dialogs on their rows, and sends whole forms back. Its
   requests carry a cookie signed with a key that every isolate of the worker reads from the database.

### What is hard

- **Races on the server.** Nothing is serialised: jobs of different requests, the cron and a fetch that
  aggregates on demand recompute one node at once; validation and write are separate transactions.
- **Loss and disconnection.** A broadcast reaches the sockets that are live and nobody else, and one that fails is
  swallowed.
- **Crashes.** Between applying, caching and adopting; a cached configuration is replayed at boot.
- **Partial failure.** One service of many fails to bind; one node of many fails to recompute.
- **Two sides computing the same thing.** The port and the TLS side of a link are computed once for its
  entry and once for its exit, and nothing compares them.
- **Statements without a transaction.** D1 runs one statement at a time: a form that deletes and inserts, a
  beat in chunks, or an address that is copied into several rows is open to everybody else in between.
- **Copies.** A cached list, the values of a dialog, a rule's copy of an address, an isolate's copy of a key.
- **Timers that restart.** Both event loops create their sleeps anew at every turn.

The list with lines is `hazards` in `PROJECT.json`; the properties were chosen from it.

### What makes each component correct

- Supervisor: the health snapshot covers exactly the desired services; a failure hidden behind a running
  row is a failed port move and nothing else; an apply ends with each desired service built or listed as
  failed; a port move never leaves a gap.
- Renderer: the two ends of a link agree, for any rows.
- Panel: a stale snapshot has work scheduled for it, or one of the named reasons why nothing is.
- Push channel and loop: an agent that has missed a change has something ahead that will make it ask, unless the
  push was dropped over a session that stays up.
- Delivery: 304 is never wrong; a running agent only moves forward through what was published; in the end it
  serves what the tables say.
- Ledger: a count that was stored has been billed, whoever died when; nothing is billed twice but by a death
  between two writes or by ingests that overlap; in the end all that was counted is accounted for.
- TLS material: the stored leaves are accepted under the stored CA and are what the settings say; complete
  and valid material reaches every node in the end.
- Health: the rows are the last snapshot; a node that beats is online; a rule ends up with the status its
  nodes report, or paused if the operator said so.
- Tenants: nobody owns more than the plan allows, nor uses what it does not grant; usage is measured fairly; an address is its endpoint's.
- Sessions: setups make one administrator but for those that race; nobody is thrown out early; an operator
  gets in.
- Web panel: an acknowledged write is on show; a save changes what was typed in; a dialog closes for its own
  answer.

## 2. Modules

    ConfigRegister         what delivery promises (abstract)
      ^ refines
    ConfigDelivery         one node: recomputations, notification, poll, cache, crashes
      ConfigDeliveryProofs
    TunnelConfig           the tables and what they render to
      Panel                writes, deferred recomputation
        PanelProofs
        MCPanel            a small instance
    WsChannel              the push channel
      AgentLink            the control loop beside it
    Supervisor             the listeners of one node
      MCSupervisor         a small instance
      AgentProofs          about Supervisor, and about AgentLink
    TrafficLedger          the server's ledger of one node, for any uploads
      TrafficFlow          the agent's counters, buffer and flush in front of it
        TrafficProofs      about the ledger, and about both
    TlsMaterial            the certificate authority and its leaves
      TlsProofs
    Der                    how a certificate is encoded
        MCTlsMaterial      both together
    HealthIngest           heartbeats into rows, rows into statuses
        MCHealth           two scenes
      HealthIngestProofs
    Accounts               users, packages, rules, endpoints, and the usage
        AccountsProofs
        MCAccounts         a small instance
    Forms                  the dialogs of the panel as tables
      Console              one tab: cache, dialogs, writes
    Sessions               setup, login, cookies and keys
      WebProofs            about Sessions, and about Console

The interfaces between them are values: a configuration is what `TunnelConfig!Render` yields, a model
value in `ConfigDelivery`, and a function from names to shapes in `Supervisor`. `AgentLink` has the time
and the sessions and abstracts the configuration to one bit (`unseen`); `ConfigDelivery` has the
configurations and versions and abstracts time to a timer that may elapse. `Panel` takes the TLS material as one
value and an allowance as a switch; how the value comes about is `TlsMaterial`, how the switch is computed
`Accounts`. `HealthIngest` takes the snapshots that `Supervisor` justifies; `Console` takes a table as a
number of changes and one row, written by the handlers that `Panel` and `Accounts` have in full.

### Supervisor

`running`, `last`, `failures`, `material` are the fields of `Supervisor`. The supervisor is behind a mutex,
so an apply, a restart and a snapshot exclude each other, but an apply awaits at every service: `job` is
the apply between two awaits. `BeginApply` is `apply_config` up to its first await (translation,
replacement of `last`, removal of services no longer named), `KeepService` and `BuildService` one turn of
its loop, `FinishApply` its end. A handle is reduced to what it was built from: configuration, certificate
generation, and whether its accept loop still runs. A name may occur twice in a payload, and the code then
uses the earlier entry in one place and the later in another: hence `first` and `chosen`.
A restart directive is `RestartRunning` or `RestartFailed`, atomic because nothing observes the
supervisor while it holds the mutex (a listener dying in between is the same as one dying after).

### TunnelConfig and Panel

`TunnelConfig` translates `buildRealmNodeConfig`: which tunnels a node renders, its entry and exit
services, `allocatePort` with its arithmetic, TLS sides, the degradation without a TLS domain. The several
reads of one rendering are one step.

`Panel` has one action per write. Most routes read first and write in another statement: `StageLink`, `StageRule`,
`StageTunnel`, `StageDeleteNode` and the like are a route up to its write, with what it has read and will recompute in
`saw`, and other routes fit in between; `MaxStaged` writes may wait so at once. An edit gives any set of the
fields (`given`) and leaves the others as they are at the write. `pending` is the deferred work, at three
stages: users or tunnels whose nodes are yet to be found, and nodes to recompute. A job that throws is
logged and forgotten (`RecomputeFails`). Endpoint edits, which rewrite several rules, are represented by
`WriteRule` one rule at a time; package edits by `UpdateUser`. Ownership checks are over-approximated here
and exact in `Accounts`.
Two history variables name the ways a snapshot may be stale without scheduled work. `overdue`: a recomputation
failed, or an allowance ended by the clock. `behind`: the code schedules nothing (finding a below), because the node
dials an edited exit (`Dialing`), has left a tunnel (`Leaving`), or is in a tunnel the write did not know of, another
write having moved the link, rule, node or user there since it was read (`Overtaken`).

### WsChannel and AgentLink

`WsChannel` is the task of `cp/ws.rs`: `phase` says whether it connects, is in a session, or sleeps.
`failures` holds the ages of the failures in the window, so that no absolute time is needed.
`AgentLink` adds the loop of `control.rs` and the clock: `Tick` passes one unit of time when nothing is
due, and requests and attempts to connect may take any time. The sleeps are recreated where the code
recreates them. On the server a change is stored first (`ConfigChanges`) and pushed later, in a call to the node's
object (`PushSent`, which reaches the live socket or nobody) that may fail or not be made at all (`PushFails`); no one
retries it. `dropped` is history: such a push was of an unseen change, over a live session, and none has been sent
since. The two sends and the mode swap at a successful handshake are one step; a malformed URL is
a refused connection; the stub without a push channel (`WS_ENABLED=false`) is not modelled.

### ConfigDelivery and ConfigRegister

Each `Worker` is a recomputation under way: `start` (nothing read), `built` (tables read), `store`
(snapshot compared), `notify`. Every interleaving of two workers is explored, with clocks that need not
agree (`Store` takes any second in `1 .. MaxNow`). On the agent, `agent` is where the poll is between two
awaits. `Crash` may happen at any of them and `Boot` replays the cache. `ConfigRegister` is the promise:
configurations are published under growing versions and a running node only moves forward, to exactly
what was published. `history` records what was stored by version, for that mapping.

### TrafficLedger and TrafficFlow

`TrafficLedger` is the ingest of one node: `ingest[q]` is one `POST /stats` between two awaits, from the
tunnels of the node (read by the route) over the stored counters and the rules (the billing gate) to the
ledger rows and the counter rows. It may fail anywhere (`IngestFails`: logged, and answered as a success) or
die (`WorkerDies`). One row is one step, where the code writes a dozen per statement: every order and
every death the code allows is included. `LedgerSpec` lets any uploads come in; the proofs are about it.
Three variables are history: `foreign` (counted for services that are not the node's to bill),
`unsaved` (billed by an ingest that died before it stored) and, in `TrafficFlow`, `relayed`.

`TrafficFlow` puts an agent in front: `Accept` and `Relay` move the counters, `BeginFlush` takes the
snapshot (`pending`), `Merge` pushes one of its rows into the buffer, in the snapshot's order, replacing the row
of the same key in place and dropping the first above the cap; `SendChunk` posts the first chunk,
`Acknowledged` drops it. The agent may give up while the server is still at work (`GivesUp`), which is
how two ingests of one node come to overlap although the agent flushes one chunk at a time. Left out: the
display counters, the hourly connection rollup, the peak of current connections, rates and their rounding,
the hour a byte is booked on, and the raw sample rows.

### TlsMaterial and Der

`req[r]` is a request between two awaits: a rendering that ensures the material, one of the two settings
forms, or the daily renewal. Each read (`ReadDomain`, `ReadRows`, `ReadProfile`, `Reload`) and each
statement that writes (`UpsertDomain`, `DropServerLeaf`, `Insert` row by row, `Persist`, `Wipe`, `Update`) is a
step. A certificate is its rows: who signed it, under which name, for which domain and how many days. Key
pairs are drawn fresh (`NewKey`) and given back when nobody holds them, so that six stand for any number.
`current` is the set of nodes whose snapshot has what is now stored. `tainted` is history: issuing requests have
overlapped, or one died, since the rows were last empty.

`Der` is the encoding half of `tls.ts` as operators on sequences of octets: lengths, tags, object identifiers,
integers, bit strings, dates, the certificate around them and `spkiFromCertDer`, which takes one apart again.
`EncodingReadsBack` compares each with its inverse at the boundaries (127, 128, 255, 256 octets; the top bit;
every key usage; the years 1950 to 2049). `MCTlsMaterial` puts both into one run.

### HealthIngest

`beats[n][k]` is a beat of node n under way, in the handler's order: the liveness stamp, the upserts in chunks, the
read of what is stored, the deletes, the look-up of the rules' statuses, and the updates. `Beat` takes the
snapshot, `Lose` loses it, `Fail` ends a handler at any statement. Time is ages: a row carries how many heartbeat
intervals ago it was reported, up to the age at which it no longer counts. Operators pause and resume
(`OperatorSetsStatus`), tunnels move between nodes (`HostsChange`), agents stop, start and change their services.
`Kind` is the panel's word for a node, over the dashboard's reading of the rows. A node's own tunnels and the statuses
are two reads in the code and one step here (`Lookup`); the updates that follow may be late in either. `scene` says
which nodes, services and overlapping beats take part; it never changes, and the theorems hold for any set of scenes.

### Accounts

The handlers of `routes/admin.ts` for rules, endpoints, users, packages, subscriptions and links, each await a step:
`PostRule` / `PutRule` validate, `Resolve` looks the endpoint's address up, `InsertRule` / `UpdateRule` write;
`PutEndpoint`, `UpdateEndpoint`, `SyncRules` are the two statements of an address edit. The reads inside
`validateRuleOwnership` are one step; the nodes of a tunnel are those of its links at that moment (`NodesOf`). `PostLink`,
`PutLink` and `DeleteLink` change them without a look at plans; which links a tunnel admits is `Panel`'s. `Bill` writes
the ledger under an hour that was read earlier. Usage is the sum `userUsageBytes` takes over the ledger, from the hour the
subscription began in, over the rules owned now. Two excuses are history variables with the conditions under
which the code cannot know better: `excused` (a plan changed around its rules, a link gave their tunnel another node, or a rule was written on a
validation something else had overtaken) and `drifted` (an address read before an edit, or an edit that died
between its statements). An excuse ends as soon as the promise holds again. `consumed`, `carried` and `moved`
are what was really billed to a user, for the comparison with the sum.

### Forms and Console

`Forms` is the dialogs as data: for every table its fields and the kind of each, and for a kind what is shown of
a stored value (`Shown`), what can be entered, when it is refused, what is sent (`Sent`) and what the handlers
make of it (`Normal`, `Updated`, `Created`). It is from the form components, their `onSubmit`, and the
update handlers.

`Console` is one tab. A list is the number of changes to what its GET returns (`rev`), an entry of the query cache
which of them it shows and whether a fetch is under way (`since` when, and `passed` if an invalidation let
it run). `Looked` and `Invalidated` are what TanStack Query does when a page is shown and when a write settles.
A save is `Submit`, then `ServeSave` on the server, then `Settle` or `Toast` in the tab, with navigation, other
saves and other writers in between. Which lists a write changes (`Affects`) is read from the handlers, which
ones the pages invalidate (`Invalidates`) from the pages; `LeftOld` names the pairs no page invalidates.

### Sessions

`call[t]` is a tab's request between two database accesses: `Check`, `InsertAdmin`, `SetupSecret` are the wizard's
POST; `Check`, `Verify`, `Session` the login's; `Session` with `Mint` and `Reread` is `sessionSecret`, for any
isolate that may or may not have the key cached. The guards of `router.tsx` are `Ensured` and `Guarded`: a cached
answer, however old, decides. `Wipe` is the seed script, which empties `app_settings` under running isolates;
`FailRequest` and `FailGuard` are lost requests and answers.

## 3. Runs

| Run | Checks | Shows |
|---|---|---|
| `supervisor` | `TypeOK`, `SnapshotCoversDesired`, `HiddenFailureIsPortMove`, `RunningHasOneFailureAtMost`, `ApplyConverges`, `PortMoveIsSeamless` | 320 thousand states; every failure pattern of two services that want each other's port |
| `panel` | `TypeOK`, `LegsMeet`, `StaleIsScheduled`, `StoredLegsMeet` | 613 thousand states; any three writes or mishaps from a TLS tunnel, any two from a plain one, and two writes that overlap, of all fields or of some, where two tunnels are served |
| `agent_link` | `LinkTypeOK`, `DemotedPollsOften`, `UnseenIsCovered`, `ChangesAreSeen` | 834 thousand states; all timers, in the order of the code's constants; pushes that are late or dropped |
| `config_delivery` | `TypeOK`, `NotModifiedIsTrue`, `ImplementsRegister`, `ChangesArrive`, `FailuresAreRepaired` | 380 thousand states; two racing recomputations, one fault |
| `traffic` | `TypeOK`, `LedgerCoversCounters`, `BilledOnceButForCrashes`, `TrafficIsAccounted` | one million states, two minutes; lost answers, timeouts, swallowed failures, deaths, a restart and a rule or node that moves |
| `tls_material` | `StoredMaterialFits`, `CertificatesReadBack`, `MaterialArrives` | renderings, forms and the renewal, two at a time, one that dies, a certificate that ages; two minutes |
| `accounts` | `TargetsFollow`, `RulesWithinPlan`, `UsageIsFair` | 338 thousand states up to symmetry; any two requests, overlapping or not, over an hour of billing |
| `health` | `RowsAreTheSnapshot`, `OnlineMeansBeating`, `StatusSettles` | 275 thousand states, in two kinds of scenes: two beats of one node that overlap, one that is lost or fails, one change; and two nodes, of which one at first serves the rule, and two changes: a pause and its end, a move, an agent that stops |
| `console` | `OwnWritesShown`, `SavedAsShown`, `DialogsCloseForTheirOwn` | 1.6 million states: every table and every kind of field |
| `sessions` | `OneShot`, `SessionsLast`, `GetsIn` | 755 thousand states, two minutes: two tabs, two isolates, one mishap |

and two runs that end in a counterexample, each a finding:

| Run | Property | What TLC finds |
|---|---|---|
| `panel_stale` | `EveryWriteReachesItsNodes` | a. editing an exit node recomputes it and not the entries that dial it (`admin.ts:345`); a link's old node is not recomputed either; nor is a tunnel that an overtaken write did not know of (`admin.ts:624`) |
| `link_safety_net` | `SafetyNetHolds` | b. the heartbeat tick restarts the safety-net timer before it elapses (`control.rs:131`). What b. costs: a push that is dropped over a session that stays up (`notify.ts:23`, `nodePush.ts:55-62`) is made good by nothing but the next push or the session's end |

### Known disagreements

Where the code does something else than its comments, its documentation or its other half say. The models
reproduce each as it is, and the properties name it as an exception where they meet it.

*Agent.*
- An apply that rotates certificates and fails to move a TLS service to another port puts the old handle back;
  moving back finds it unchanged, and the old certificate serves on (`runtime/mod.rs:146`, against :76-77).
- A boot from the cache adopts the cached version although services failed (`lib.rs:68`), where the loop does not
  (`control.rs:94-96`): they stay down until the configuration changes. `FailuresAreRepaired` has it as the
  hypothesis `AdoptedMeansWhole`.
- Service-level rows are sampled first so that the buffer's cap should spare them (`stats.rs:112-113`), and the cap
  drops what came first (`stats.rs:168`): past 1000 rows billing loses traffic. `FitsBuffer` excludes it.

*Server.*
- Finding a: not every write reaches its nodes, against `docs/deployment.md:204`.
- Nor does a recomputation that is overtaken: it reads the tables (`db/repo.ts:413`), then the stored snapshot (419),
  then stores whatever differs (423), so that of two under way the one that read older tables may store last, under the
  higher version. Nothing failed and nothing is logged; the daily sweep, meant for failures (`recompute.ts:22-23`),
  repairs it. `ChangesArrive` holds only by way of that sweep.
- A package's `node_ids` is checked when a rule is written (`admin.ts:737-746`) and not when a link is
  (574-675): a link may take a user's tunnel to a node outside the plan, and the rule is served there.
- An entry node with a manual exit port or a port range renders two services of one name (`db/repo.ts:344`, against
  :373-375).
- The renderer does not look at the status of a rule (`db/repo.ts:121`): a paused rule is rendered and served, as
  `health.ts:97-98` says (a display label) and `admin.ts:763-764` does not (a reason for not being served).
- Two setups at once make two administrators (`routes/setup.ts:43-57`). `OneShot` bounds them by what races.
- The status of a rule is meant to come from its entry service, exits being called after their tunnel
  (`services/health.ts:96`, :108). A raw exit is called after its rule too (`repo.ts:356`), and its node's word
  counts as much as the entry's.
- The dashboard counts administrators among the users.

*Panel.*
- `queryClient.ts:5-6` says that all writes invalidate, so that lists are fresh. The pairs of `LeftOld` are not
  invalidated: for one, deleting a node leaves its links and the counts of the tunnels as cached.
- After setup and logout the wizard is offered again: the guard reads the cached answer (`queries.ts:10`).
- The rule dialog rounds rates to hundredths of a Mb/s and drops per-IP limits it does not show; optional texts
  cannot be emptied, except where null is sent. `SavedAsShown` names them in `Survives` and in its last case.
- A save whose answer is awaited closes a dialog of the same kind opened since (`ui.tsx:616`); one's own save and
  a quick second edit from a list that is not refreshed yet undoes the first.
- A node's port range is checked without its outer blanks and sent with them (`Nodes.tsx:143`).
- The submit button of the subscription dialog is outside of a form (`Users.tsx:132`).
- A rotated node token works on for up to a minute where an isolate has the old one cached (`nodeAuth.ts`), which
  the confirmation denies (`Nodes.tsx:667`). Logging out does not clear the cached name of the administrator.

### Bounds, and why they are enough

- `Supervisor.cfg`: two services, two ports, four shapes (both TLS sides and plain), one rotation. Two
  services are the least that can swap ports; the properties speak of one service and a second one in its
  way. The theorems lift the bound. Deadlock is off: the process may shut down.
- `Panel.cfg`: three nodes (no range, a range of three ports, a range of one), two tunnels, three links,
  one rule, one user, two staged writes, edits that give all fields or one; from a complete tunnel with TLS
  and one without. `MaxWrites = 3` counts writes, sweeps, failures and ends of allowances; deferred work is not counted. Three is what the longest hazard
  takes (a validated write, a conflicting write, and a failure or sweep). Deadlock is off: when the
  writes are used up and the work is done, nothing is left to do.
  The plain one and four more databases start with one of the three spent: two tunnels are served in those, so that a link or a
  rule taken from one to the other changes what nodes of both are sent, and two writes are a write and what overtakes it.
- `AgentLink.cfg`: window 4, threshold 3, backoff 1 to 4, heartbeat 4, probe 2, poll 1, safety net 6. The
  order of the code's constants where it matters is kept: the heartbeat is shorter than the safety net (60 s
  and 300 s), the poll interval shorter than both, three probes fit the window. The queue holds two events
  (16 in the code): the two of one handshake, so that a full queue happens. Two pushes may be under way: one that is
  dropped and a later one.
- `ConfigDelivery.cfg`: two workers, three configurations of which one is refused, two clock seconds, one
  write beyond the first, one fault. Two stores in one second, and a clock behind the stored version, both
  occur.
- `TrafficFlow.cfg`: one service, one direction, two bytes, two ingests at once, chunks of one row, one
  restart, one fault (a failed post, a timeout, a failed or dead ingest), one move. The ledger treats
  services apart, and the two directions together only in deciding whether a counter went back, which the
  theorem covers for any. Two bytes are the least that make a difference of two counts. The rows of one client and its
  service fit the buffer of two. Deadlock is off: with no connection there is nothing to flush.
- `TlsMaterial.cfg`: two requests, one node, two domains, one typed identity, two validities, one saved form, one
  death, one certificate that ages; from a fresh deployment and from one with rows of the older version. A race
  needs two requests; one form against renderings and the renewal is every kind of overlap. Deadlock is off:
  with nothing due and everything delivered, nothing starts.
- `HealthIngest.cfg`: two kinds of scenes. One node with a rule and a relay, two beats at once, one row per statement
  (90 in the code), one change, one mishap. And two nodes with one beat each, one rule, which one of them serves at
  first, two changes and no mishap: two nodes are the least that can disagree, or of which one has no say. The agents
  start with any services, up to exchanging ready and failed. Chunks of one make every order of the rows happen. The
  last interval of `Offline` is two beats long, so that one lost beat is not yet offline.
- `Accounts.cfg`: one user, two rules, two endpoints, two tunnels, two nodes, one link, one package with two possible plans (one small, for one node, and ending,
  one open but for one tunnel) or none sold yet, two writes, one death, one byte, an hour in two halves. Two writes are a validation
  and what overtakes it; a third would only repeat one of them.
- `Console.cfg`: one write of this tab and one of another writer. One row and one sample field of each kind per
  table, since handlers and dialogs treat the fields of one kind alike. A tab either stays on its page beside
  the other writer or roams between two pages alone; both at once would only delay one of them. The 30 s and
  five minutes of the cache are choices (`Aged`). Deadlock is off: the writes are used up.
- `Sessions.cfg`: two tabs, one of them with a persistent operator, two isolates (the least that can disagree
  on a key), one change of password, one mishap. A tab makes one request at a time, and a cookie does not
  expire during one.

### Fairness

- `ConfigDelivery`: recomputations under way go on (the platform runs `waitUntil` work), the sweep comes
  every day (cron), the agent's task goes on and is restarted (systemd), its channel keeps dialing. The
  poll timer has none, because `link_safety_net` shows it may never elapse. `FailuresAreRepaired` assumes
  besides that sessions break once in a while, and says so in its formula.
- `AgentLink`: the runtime schedules every task, the clock runs, an attempt to connect ends, a dead socket
  reports an error in the end, a live socket delivers, and a worker's call to push is made or fails (`Notifies`). `SF` on `Deliver` is a TCP stream being read:
  frames without an event may come first, but not for ever. `ChangesAreSeen` assumes in its formula that
  no poll fails, that sessions come back, and that a dropped push is followed by one that is sent.
- `TrafficFlow`: the flush timer ticks and a flush goes on, whether its posts succeed or not; a request that
  reached a worker goes on. Failures and deaths are bounded, not excluded. `TrafficIsAccounted` assumes
  in its formula that the agent is not restarted and that its rows fit the buffer.
- `TlsMaterial`: a request goes on, and the sweep comes to each node and to the renewal. `SF` for these two: that
  both request slots are taken at the moment is a bound of the model and not of the platform.
- `HealthIngest`: timers fire, agents that live answer theirs, and a beat that is not lost is handled.
- `Sessions`: the worker handles its requests and an isolate's minute ends (`WF`). The persistent operator uses what
  the page offers and tries again (`SF`, since the page may change under the operator), and knows the password.
- `Supervisor`, `Panel`, `Accounts` and `Console` check safety only.

## 4. Proofs

**`AgentProofs`, the supervisor**, for any finite set of services, any ports, shapes and payloads. None of the
invariants is inductive, because they are silent while an apply runs. The inductive invariant `IInv` says
what holds in the middle of one: `Progress` relates every service already visited to its handle or to
`job.failed`, and the services still to come are desired; `Accounted` is the coverage of the snapshot
outside an apply. With the type invariant, each action preserves the conjunction (one step per action, under
it one per conjunct it can disturb). `SnapshotCoverage`, `HiddenFailures` and `FailureRows` are its
consequences. `ApplyConvergence` and `SeamlessPortMove` are action properties: the step `FinishApply`
reads `Progress` for every service; the steps of an apply are examined against `Kept`.

**`AgentProofs`, channel and loop**, for any intervals, thresholds and queue bounds. `LinkTypeOK` bounds every timer, by the longest
backoff and the longest wait the constants allow. `UnseenIsCovered` needs to be strengthened for the time of an apply (`CoverInv`):
the loop's own backoff, which the coverage may otherwise count on, is about to be reset then, so that a push or
something of the channel's must be pending, or the push was dropped. A push that is sent over a live session becomes a
broadcast under way, and one that finds no session leaves the next handshake to announce it. The lemmas
on queues say what is still queued after an event is put in or taken out, and that a full queue drops only
what is put in. `DemotedPollsOften` is inductive with the types.

**`ConfigDeliveryProofs`**, for any set of configurations, any number of workers, any clocks, writes,
faults and crashes. `IInv` strengthens the types with three facts: the stored row is the newest thing
published (`RowIsNewest`, from the bump of the upsert: lemma `StorePublishes`); whatever the agent
applies, holds or has cached was published under the version it carries (`KeptWasPublished`); and a
version is adopted after its configuration was given to the supervisor (`VersionIsHeld`,
`ReplyIsNotOlder`). `NotModified` follows: the version adopted is not above the one held, the one held was
published, nothing published is above the row, so the agent holds the row. `Implements` maps a store to
`Publish`, an application or a boot to `Serve`, a crash to `Stop`, and everything else to a stutter.

**`TrafficProofs`, the ledger**, for any services, directions, tunnels, samples and number of ingests.
`LedgerCoversCounters` is not inductive: an ingest stores what it sampled, and bills a difference to what it
read, much later. `LedgerInv` adds what each ingest relies on: what it read was accounted for
(`ReadIsCovered`), and so are the samples it has billed (`BilledIsCovered`). Since the accounts only grow
(`AccountsGrow`), other ingests cannot take that away (`Undisturbed`); one difference brings the account
up to the sample whether the counter went on or back (`DeltaCatchesUp`). With the two writing phases
exchanged, `BilledIsCovered` fails, and the mutant of the run shows bytes lost.

**`TrafficProofs`, the agent in front of it**, for any services, clients, buffer caps, chunks, restarts and faults. `FlowIngests` is a
refinement: every step of agent and ledger is a step of `LedgerSpec` or leaves the ledger alone, so that what
the ledger promises for any uploads holds for these (`FlowCoverage`). `BilledOnce` needs what the uploads of an
agent have and arbitrary ones lack. Call *settled* what is accounted for with its counters stored: the account
less what dead ingests and the one under way have billed and not stored. `FlowInv` says of every service
(`OnceFor`) that the settled account is no more than what was relayed before the agent last started, or exceeds
that by the stored counts at most, and then every sample still held is above the stored counts; and that a sample in flight
is such a one, or is from before the start and fits in the first bound. The two cases are the two branches of the
difference (the counter went on, or back). It is an invariant as long as no two ingests overlap (`Alone`), which is the hypothesis
of the property. `RowsFit` is the buffer's half: keys differ, and nothing waits that was not counted.

**`PanelProofs`**, for any nodes, tunnels, links, rules and users. `RowsMeet` is about `TunnelConfig` alone: for
any typed rows that keep the foreign keys, the entry of a link dials the port its exit listens on, with the same
TLS side; the port is a function of the link's rows and the tunnel's first out link, which a least index
determines. `BothEndsAgree` adds that the writes keep such rows: a staged write may have been overtaken, but
foreign keys are checked with the write (`Inv`). `StaleIsDue` is inductive with `Inv`, and its proof has
one lemma per kind of write, each in two halves: what a rendering reads (`RenderIsLocal`, `SameServices`), so that other nodes
render to what they did; and that a node whose rendering changes is in a tunnel the deferred job names, or in one
the write did not know of, or has left one (`behind`). `StoredEndsAgree` follows from both:
two fresh snapshots are two renderings of the same rows.

**`AccountsProofs`**, for any tenants, plans, rules, endpoints and requests under way. `IInv` has the types of the rows,
their foreign keys, and `Requests`: what a request has validated, stated about the picture of the rows
it was validated on (`saw`), which no other request can change. `PlansBound` then compares the picture with the
rows at the write: where they differ the user is excused, and where not the count is the validated one plus
one, and the tunnel's nodes are those the plan was compared with. A link that goes can only shrink what a tunnel
needs; one that comes excuses the owners of its rules (`LinkRequestsFit`). `CopiesFollow` goes through the two statements of an address edit: between them the endpoint is in `Syncing`.
`UsageCounted` is about the equation in `Metered`: the sum over the rules a user owns now, in the hours its window has
now, is what was billed to it since it subscribed and in the part of that hour before. It holds only with `Timely`
(nothing is billed, and no subscription begins, ahead of the clock) and only while no rule with traffic has changed hands.
It rests on facts about `MapThenSumSet` that the library does not state: the function it takes its value from exists
(`CountsExists`), it does not matter which element goes first (`CountsIsSum`), a sum splits (`SumOfRest`) and
one byte more makes one more of it (`SumOfOneMore`). Each is an induction over the size of a finite set, done by
a least counterexample (`Naturals`, `Subsets`), since the provers cannot instantiate the library's rules.
`RuleRowAssumption` is used here: a row that is there is not `None`.

**`WebProofs`, getting in**, for any tabs, isolates, mishaps and changes of a password. `KeysCurrent` says that every key in a
cookie or an isolate is the stored one or one a wipe took, over the conditional insertion and the re-read of
`sessionSecret`; `SessionsLast` is an action property that follows. `RoomForAll` counts the setups that
have passed their check with the rows there are, which bounds the administrators (`OneShot`).

**`WebProofs`, a tab at work**, for every table, field and list, any number of its own and of foreign writes. The lemmas on forms
are about every value a field may hold (`Value`, `Input`); those the specification enumerates are among them.
`OwnWritesSeen` needs what is about to be shown as well: `ListsAreHonest` says that a fetch under way began no earlier than the
last acknowledged write that the page promises to show, or was let run by an invalidation and is marked; an acknowledgement
raises that bound, and `WritesAreTold` (what is promised is invalidated) is why every raised list loses its freshness in the same step.
`EditsSaveAsShown` is a fact about the forms and holds for each kind of field by a lemma of its own: what is shown of a
stored value can be entered (`ShownHolds`), what is not refused can be stored (`SentFits`), and what is sent unchanged comes back
unchanged (`EditKeeps`), rates by the arithmetic of `Rounded`. The invariant adds that every request carries the payload of the
dialog it was sent from (`IsRequest`). `AnswersCloseTheirOwn` needs `WaitsForItsOwn`: while a dialog that was not opened late is
open, the page's unanswered saves of its kind are its own.

**`TlsProofs`**, for any domains, identities, validities and nodes, and any number of requests under way. What makes
`StoredMaterialFits` hold is ownership: as long as no two requests issue at once (`tainted` says when they have), the one
that issues owns the tables, and everybody else waits at an await where nothing of theirs has been read. `Phase` says for each of its
awaits how what it has read and is about to write relates to the rows and the settings: before an insertion the rows that
exist and the fresh ones together make a complete, matching set (`Merged`), before an update the fresh leaves are the stored CA's, before a
wipe it is known which part goes. `Calm` is how it finds the tables and leaves them. `tainted` is reset only when the rows
are empty and nobody holds anything read from them (`Clean`), which is calm again. `Shape` has the types, the stages a request of each kind goes through, and that
nothing is stored before there is a domain.

**`HealthIngestProofs`**, for any nodes, services, rules and beats under way, and whatever is lost or dies. `RowsMatch` follows a beat that
is alone, which has only beats with its own snapshot beside it: what it has written is there (`AloneProgress`), what it will not delete is its own, and
what is shown once it is through stays so as long as whoever still stores has the same snapshot (`ShownHolds`). `OnlineIsBeating` bounds the
rows by the freshest stamp on both sides: none is fresher (`NothingFresher`), and the sentinel's is older by no more
than a beat takes (`SentinelFollows`), whatever order beats are stored in. `PausesStay` states for every moment what the
handler's conditional update is for: a rule the operator paused stays paused beside any verdicts that are still
being written.

The assumptions are those named in the modules (`ServiceAssumption`, `ConfigAssumption`,
`DesiredAssumption`, `NoneAssumption`, `CertAssumption`, `DeliveryAssumption`, `CountsAssumption`, `FlowAssumption`,
`RowAssumption`, `RangeAssumption`, `InputAssumption`, `SeedAssumption`, `LoopAssumption`, `WsAssumption`,
`AccountsAssumption`, `RuleRowAssumption`, `SessionsAssumption`, `TlsAssumption`, `HealthAssumption`, `FormsAssumption`, `ConsoleAssumption`); TLC evaluates them in every run. They say that intervals and bounds are
numbers, that port ranges are not empty, that the sets which are counted are finite, that the rows a database
starts from keep their types and foreign keys, that there is a domain and a key pair, and that `None`, `Null` and `Keep` are
not values of anything they stand beside.

**Only model-checked.** Liveness (`ChangesArrive`, `FailuresAreRepaired`, `ChangesAreSeen`,
`TrafficIsAccounted`, `MaterialArrives`, `StatusSettles`, `GetsIn`): the prover does not handle
fairness. `CertificatesReadBack`: the encoding is recursive over octets, with `RECURSIVE`
operators. Every other property of a passing run is a theorem.

## 5. Not modelled, and why

- One rendering reads the tables several times; a write between two of its reads is not explored. The next
  recomputation, which that write schedules, repairs it.
- A deferred job that fails before it knows its nodes; only the failure of one node's recomputation is.
- Deletion of a node's row during delivery. Row numbers are not given twice (`autoIncrement`).
- Middle hops of chains: `end` is `in` or `out`, as the schema has it for rows written today.
- An agent that restarts and counts past the stored counters before its first report: the difference
  is taken for an increase and the bytes below it are not billed (`traffic.ts:152`). `TrafficFlow` has the
  behaviour; its liveness property excludes restarts because of it.
- Moving a link of a live TLS tunnel to another tunnel (`PUT /chains/:id`, `admin.ts:662`) renders the tunnel it
  leaves in plaintext, which deleting the link is refused for. `Panel` has the behaviour; no property is about it.
- `Accounts`: creation and deletion of tunnels and nodes, with the links and references that go with them. The
  recomputations that its writes defer are `Panel`'s.
- `HealthIngest`: deletion of a node with its rows, the dashboard's counts of rules and sums of traffic.
- `Forms`: a number field that was cleared holds NaN, which passes the dialog's check of a port (`Rules.tsx:212`,
  `Endpoints.tsx:104`) and is sent as null and refused by the server; in the model the dialog refuses it. No row is
  written in either case.
- `Console`: two tabs of one browser share nothing but the server, so that the second one is `Foreign`. The dialogs
  for subscriptions, tokens and settings, searching, sorting and paging, and the polling of the dashboard.
- `Sessions`: a key given as `SESSION_SECRET`, which is a constant; requests before the schema exists; clashes of
  administrators' names; the token cache of `nodeAuth`; answers to a tab's earlier requests after a login.
- `certs.rs`: the PEM files, each replaced by a rename, before the supervisor is given the configuration.
- Contents: targets, addresses and limits are model values; keys and signatures are what they vouch for.
- The connections of the data plane and the rate limiter, which are planned; `splice`, the audit log and the
  aggregates of the dashboard, which keep no state the rest depends on.

## 6. Plan

Done: 1. `Supervisor` and its proofs. 2. `TunnelConfig`, `Panel`. 3. `WsChannel`, `AgentLink`.
4. `ConfigRegister`, `ConfigDelivery` and their proofs. 5. `TrafficLedger` and its proofs, `TrafficFlow`.
6. `TlsMaterial` and `Der`. 7. `HealthIngest`. 8. `Accounts`. 9. `Forms` and `Console`. 10. `Sessions`.
11. The proofs of `Panel`, `AgentLink`, `TrafficFlow`, `Accounts` and `Sessions`. 12. The proofs of `TlsMaterial`,
`HealthIngest` and `Console`.

Next, in this order:

13. `ServiceConns`: accept, registration, cap, drain, restart and generations of one service.
14. A composition of `AgentLink` with `Supervisor` for listeners that die while the configuration does not
    change.
15. The rate limiter as operators over bounded clocks.
