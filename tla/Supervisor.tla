----------------------------- MODULE Supervisor -----------------------------
(***************************************************************************)
(* The node agent's service supervisor: one listener per managed service,  *)
(* rebuilt from the configuration the control plane sends                  *)
(* (apps/agent/src/runtime/mod.rs, with the handles of runtime/service.rs  *)
(* and the TLS assembly of runtime/tlsconf.rs).                            *)
(*                                                                         *)
(* The supervisor sits behind a mutex, so an apply, a restart directive    *)
(* and a health snapshot exclude each other; an apply awaits at every      *)
(* service, and accept loops die and other processes take and free ports   *)
(* between its steps.  Connections are the subject of another module: a    *)
(* handle here is its listener and what it was built from.                 *)
(***************************************************************************)
EXTENDS Integers, FiniteSets

CONSTANTS
    Service,   \* service names, numbered in the order the code sorts them
    Port,      \* TCP ports of the node
    Config,    \* the translated services a payload can hold
    Desired,   \* what a payload can say of one name, see below
    None,      \* absence of a map entry
    MaxCert    \* bound on certificate rotations

TlsSide == {"none", "listen", "connect"}

ASSUME ServiceAssumption == IsFiniteSet(Service) /\ Service \subseteq Nat
ASSUME ConfigAssumption == \A c \in Config : c.port \in Port /\ c.tls \in TlsSide
ASSUME CertAssumption == MaxCert \in Nat

VARIABLES
    running,    \* Supervisor.running : handle of each service that has one
    last,       \* Supervisor.last : the last desired world, failures included
    failures,   \* Supervisor.failures : how many entries each name has
    material,   \* Supervisor.material.is_some()
    cert,       \* generation of the TLS material on disk and in the payload
    job,        \* the apply in progress, between two of its awaits
    foreign,    \* ports held by other processes of the host
    stopped     \* the process has shut down

vars == <<running, last, failures, material, cert, job, foreign, stopped>>

-----------------------------------------------------------------------------
(* A live handle remembers what it was built from; `alive` is ~is_dead().  *)
Handle == [cfg : Config, alive : BOOLEAN, cert : 0 .. MaxCert]

\* The payload may list one name twice.  The map built from it keeps the
\* later entry (`chosen`), a search of the list finds the earlier (`first`).
ASSUME DesiredAssumption == Desired \subseteq [first : Config, chosen : Config]

Job == [busy : BOOLEAN, todo : SUBSET Service, failed : SUBSET Service, tls : BOOLEAN]

Idle == [busy |-> FALSE, todo |-> {}, failed |-> {}, tls |-> FALSE]

ASSUME NoneAssumption == None \notin Handle /\ None \notin Desired

Wanted == {s \in Service : last[s] # None}

Listening(s) == running[s] # None /\ running[s].alive

\* An apply visits the services in name order.
TurnOf(s) == job.busy /\ s \in job.todo /\ \A t \in job.todo : s <= t

\* Any TLS side in the payload needs the material (translate rejects it
\* otherwise, and nothing changes).
NeedsMaterial(d) ==
    \E s \in Service : d[s] # None /\ (d[s].first.tls # "none" \/ d[s].chosen.tls # "none")

\* What a spawn needs: the port, the material of a connector, and readable
\* PEM files for an acceptor (`pem`).  The service's own old listener is
\* never in the way: on the same port it was stopped first.
SpawnOk(s, c, pem) ==
    /\ c.port \notin foreign
    /\ \A t \in Service \ {s} : Listening(t) => running[t].cfg.port # c.port
    /\ c.tls = "connect" => material
    /\ c.tls = "listen" => pem

\* A rotation that reaches only services whose configuration changed too.
ChangedIgnoringRotation(old, new) == old # new

\* `raw` differs, the port differs, or the certificates of a TLS service do.
Changed(old, new) == old # new \/ (job.tls /\ new.tls # "none")

\* Nothing to do for a service that is alive and unchanged.
UpToDate(s) == Listening(s) /\ ~Changed(running[s].cfg, last[s].chosen)

Fresh(c) == [cfg |-> c, alive |-> TRUE, cert |-> cert]

\* The old handle is put back whatever port it holds.
KeptAlways(old, new) == old

\* Never swap: the old listener is stopped before the new one is tried.
KeptNever(old, new) == None

\* What a failed rebuild leaves: the old listener when the port moves, and
\* nothing when the rebuild was on the same port.
Kept(old, new) == IF old # None /\ old.cfg.port # new.port THEN old ELSE None

\* Failures appended to those of earlier applies.
RecordedAppending(failed) ==
    [s \in Service |-> failures[s] + (IF s \in failed THEN 1 ELSE 0)]

\* FinishApply replaces the failures with those of this apply.
Recorded(failed) == [s \in Service |-> IF s \in failed THEN 1 ELSE 0]

\* A restart that succeeds forgets to clear the entries of its service.
ClearedNot(s) == failures

Cleared(s) == [failures EXCEPT ![s] = 0]

\* A failed restart that leaves no trace.
PushedNot(s) == failures

Pushed(s) == [failures EXCEPT ![s] = @ + 1]

-----------------------------------------------------------------------------
Init ==
    /\ running = [s \in Service |-> None]
    /\ last = [s \in Service |-> None]
    /\ failures = [s \in Service |-> 0]
    /\ material = FALSE
    /\ cert = 0
    /\ job = Idle
    /\ foreign = {}
    /\ stopped = FALSE

\* apply_config up to the first await: the payload is accepted, becomes the
\* last desired world, and the services it no longer names are stopped.
BeginApply(d, m, rotated) ==
    /\ ~stopped /\ ~job.busy
    /\ NeedsMaterial(d) => m
    /\ rotated => m /\ cert < MaxCert
    /\ last' = d
    /\ material' = m
    /\ cert' = IF rotated THEN cert + 1 ELSE cert
    /\ running' = [s \in Service |-> IF d[s] = None THEN None ELSE running[s]]
    /\ job' = [busy |-> TRUE, todo |-> {s \in Service : d[s] # None},
               failed |-> {}, tls |-> rotated]
    /\ UNCHANGED <<failures, foreign, stopped>>

\* The service of the turn needs nothing: alive and unchanged.
KeepService(s) ==
    /\ TurnOf(s)
    /\ UpToDate(s)
    /\ job' = [job EXCEPT !.todo = @ \ {s}]
    /\ UNCHANGED <<running, last, failures, material, cert, foreign, stopped>>

\* Create, hot-swap or heal the service of the turn.
BuildService(s, pem) ==
    /\ TurnOf(s)
    /\ ~UpToDate(s)
    /\ LET new == last[s].chosen
           ok  == SpawnOk(s, new, pem)
       IN  /\ running' = [running EXCEPT ![s] = IF ok THEN Fresh(new) ELSE Kept(@, new)]
           /\ job' = [job EXCEPT !.todo = @ \ {s},
                                 !.failed = IF ok THEN @ ELSE @ \cup {s}]
    /\ UNCHANGED <<last, failures, material, cert, foreign, stopped>>

FinishApply ==
    /\ job.busy /\ job.todo = {}
    /\ failures' = Recorded(job.failed)
    /\ job' = Idle
    /\ UNCHANGED <<running, last, material, cert, foreign, stopped>>

\* The restart directive on a running service: its own handle is rebuilt.
RestartRunning(s, pem) ==
    /\ ~stopped /\ ~job.busy
    /\ running[s] # None
    /\ LET c  == running[s].cfg
           ok == SpawnOk(s, c, pem)
       IN  /\ running' = [running EXCEPT ![s] = IF ok THEN Fresh(c) ELSE None]
           /\ failures' = IF ok THEN Cleared(s) ELSE Pushed(s)
    /\ UNCHANGED <<last, material, cert, job, foreign, stopped>>

\* The restart directive on a desired service without a handle: a manual
\* retry from `last`.  A failed retry changes nothing.
RestartFailed(s, pem) ==
    /\ ~stopped /\ ~job.busy
    /\ running[s] = None /\ last[s] # None
    /\ SpawnOk(s, last[s].first, pem)
    /\ running' = [running EXCEPT ![s] = Fresh(last[s].first)]
    /\ failures' = Cleared(s)
    /\ UNCHANGED <<last, material, cert, job, foreign, stopped>>

\* A fatal accept error: the listener closes, the handle stays in the map.
AcceptLoopDies(s) ==
    /\ ~stopped
    /\ Listening(s)
    /\ running' = [running EXCEPT ![s].alive = FALSE]
    /\ UNCHANGED <<last, failures, material, cert, job, foreign, stopped>>

\* Other processes bind and release ports.
PortTaken(p) ==
    /\ ~stopped
    /\ p \notin foreign /\ \A s \in Service : Listening(s) => running[s].cfg.port # p
    /\ foreign' = foreign \cup {p}
    /\ UNCHANGED <<running, last, failures, material, cert, job, stopped>>

PortFreed(p) ==
    /\ ~stopped
    /\ p \in foreign
    /\ foreign' = foreign \ {p}
    /\ UNCHANGED <<running, last, failures, material, cert, job, stopped>>

\* Shutdown aborts the control task, an apply in progress included, and
\* drains the running services.
Shutdown ==
    /\ ~stopped
    /\ stopped' = TRUE
    /\ running' = [s \in Service |-> None]
    /\ job' = Idle
    /\ UNCHANGED <<last, failures, material, cert, foreign>>

Next ==
    \/ \E d \in [Service -> Desired \cup {None}], m, rotated \in BOOLEAN :
          BeginApply(d, m, rotated)
    \/ \E s \in Service : KeepService(s)
    \/ \E s \in Service, pem \in BOOLEAN : BuildService(s, pem)
    \/ FinishApply
    \/ \E s \in Service, pem \in BOOLEAN : RestartRunning(s, pem)
    \/ \E s \in Service, pem \in BOOLEAN : RestartFailed(s, pem)
    \/ \E s \in Service : AcceptLoopDies(s)
    \/ \E p \in Port : PortTaken(p)
    \/ \E p \in Port : PortFreed(p)
    \/ Shutdown

Spec == Init /\ [][Next]_vars

-----------------------------------------------------------------------------
\* Every variable has its type; a name has two failure entries at most.
TypeOK ==
    /\ running \in [Service -> Handle \cup {None}]
    /\ last \in [Service -> Desired \cup {None}]
    /\ failures \in [Service -> 0 .. 2]
    /\ material \in BOOLEAN
    /\ cert \in 0 .. MaxCert
    /\ job \in Job
    /\ foreign \in SUBSET Port
    /\ stopped \in BOOLEAN

Quiet == ~stopped /\ ~job.busy

\* health_snapshot covers `last` and nothing else: the control plane deletes
\* the health rows of the services absent from a snapshot, so whenever one
\* can be taken each desired service has a running or a failure row, and no
\* other name has any (mod.rs, comment above health_snapshot).
SnapshotCoversDesired ==
    Quiet => \A s \in Service : s \in Wanted <=> (running[s] # None \/ failures[s] > 0)

\* An apply ends with each desired service built from the configuration it
\* was given, on the rotated certificate if there was a rotation, or listed
\* as failed; and with no handle of any other service.
Converged(s) ==
    IF last[s] = None
    THEN running[s] = None
    ELSE \/ s \in job.failed
         \/ /\ running[s] # None
            /\ running[s].cfg = last[s].chosen
            /\ job.tls /\ running[s].cfg.tls # "none" => running[s].cert = cert

ApplyConverges ==
    [][job.busy /\ ~job'.busy /\ ~stopped' =>
          \A s \in Service :
             /\ Converged(s)
             /\ (failures'[s] > 0 <=> s \in job.failed)
             /\ running'[s] = running[s]]_vars

\* A failure the snapshot hides behind a running row is always that of a
\* service still held on another port than the desired one: a failed rebuild
\* on the same port is never reported as running.
HiddenFailureIsPortMove ==
    Quiet => \A s \in Service :
                running[s] # None /\ failures[s] > 0 =>
                    running[s].cfg.port # last[s].chosen.port

\* The restart directive after a failed port move can leave a name with two
\* entries; once it runs again it has one at most.
RunningHasOneFailureAtMost ==
    Quiet => \A s \in Service : running[s] # None => failures[s] <= 1

\* A step of an apply that moves a service to another port never closes the
\* old listener without a new one: a bad new port keeps the old one serving.
PortMoveIsSeamless ==
    [][~stopped' /\ job' # job =>
          \A s \in Service :
             /\ Listening(s) /\ last'[s] # None
             /\ running[s].cfg.port # last'[s].chosen.port
             => Listening(s)']_vars

=============================================================================
