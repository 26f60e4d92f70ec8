--------------------------- MODULE TrafficLedger ---------------------------
(***************************************************************************)
(* The server's traffic ledger for one node (apps/server/src/services/     *)
(* traffic.ts, behind POST /stats of routes/agent.ts).                     *)
(*                                                                         *)
(* Agents report cumulative counters.  An ingest reads the counters it     *)
(* stored last, bills the differences, and stores the new counters, in     *)
(* separate awaits: it may be overtaken by another ingest of the node, and *)
(* it may stop between any two of them.  The ledger comes first, so that   *)
(* whoever stops bills too much rather than too little.                    *)
(*                                                                         *)
(* What an upload holds is arbitrary here; what agents really upload is    *)
(* module TrafficFlow.                                                     *)
(***************************************************************************)
EXTENDS Integers

CONSTANTS
    Service,    \* the services of the node
    Tunnel,     \* the tunnels their rules can be on
    Direction,  \* what is counted of a service: upload and download
    Request,    \* uploads that can be under way at once
    None        \* absence of a sample, of a stored counter or of a rule

Counts == [Direction -> Nat]

ASSUME CountsAssumption == None \notin Counts /\ None \notin Tunnel

VARIABLES
    last,       \* traffic_counters: the last counts stored of each service
    billed,     \* traffic_hourly, summed over the hours
    ruleOn,     \* relay_rules: the tunnel of the rule a service is named after
    chained,    \* chains: the tunnels the node is an entry or an exit of
    ingest,     \* the uploads under way
    foreign,    \* history: counted for services the node did not serve
    unsaved     \* history: billed by an ingest that stopped before it stored
                \* the counts it had billed

ledgerVars == <<last, billed, ruleOn, chained, ingest, foreign, unsaved>>

Samples == [Service -> Counts \cup {None}]

Zero == [d \in Direction |-> 0]
Plus(a, b) == [d \in Direction |-> a[d] + b[d]]

Steps == {"idle", "entering", "reading", "gating", "billing", "storing", "answering"}

\* An upload: its service-level samples, the tunnels of the node and the stored
\* counts it read, the services it may bill, and those it has yet to bill or
\* to store.
Ingest == [step : Steps, samples : Samples, tunnels : SUBSET Tunnel, last : Samples,
           owned : SUBSET Service, todo : SUBSET Service]

NoSamples == [s \in Service |-> None]
Resting == [step |-> "idle", samples |-> NoSamples, tunnels |-> {}, last |-> NoSamples,
            owned |-> {}, todo |-> {}]

Reported(q) == {s \in Service : ingest[q].samples[s] # None}

\* A difference that is never taken for a new count.
DeltaUnchecked(cur, prev) ==
    IF prev # None THEN [d \in Direction |-> cur[d] - prev[d]] ELSE cur

\* A difference that takes an unchanged count for a new one.
DeltaStrict(cur, prev) ==
    IF prev # None /\ \A d \in Direction : cur[d] > prev[d]
    THEN [d \in Direction |-> cur[d] - prev[d]]
    ELSE cur

\* The traffic since the last report: all of it when some count went back.
Delta(cur, prev) ==
    IF prev # None /\ \A d \in Direction : cur[d] >= prev[d]
    THEN [d \in Direction |-> cur[d] - prev[d]]
    ELSE cur

DeltaOf(q, s) == Delta(ingest[q].samples[s], ingest[q].last[s])

\* The services an ingest has billed and not stored.
BilledOnly(q) ==
    CASE ingest[q].step = "billing" -> ingest[q].owned \ ingest[q].todo
      [] ingest[q].step = "storing" -> ingest[q].owned \cap ingest[q].todo
      [] OTHER -> {}

\* The two writing phases: the counters first, the ledger second.
PhasesCountersFirst == <<"storing", "billing">>

\* The two writing phases: the ledger first, the counters second.
Phases == <<"billing", "storing">>

LedgerInit ==
    /\ last = NoSamples
    /\ billed = [s \in Service |-> Zero]
    /\ ruleOn \in [Service -> Tunnel \cup {None}]
    /\ chained = Tunnel
    /\ ingest = [q \in Request |-> Resting]
    /\ foreign = [s \in Service |-> Zero]
    /\ unsaved = [s \in Service |-> Zero]

\* POST /stats arrives.  Without service-level samples there is nothing to do.
Receive(q, samples) ==
    /\ ingest[q] = Resting
    /\ ingest' = [ingest EXCEPT ![q] =
         [Resting EXCEPT !.step = IF samples = NoSamples THEN "answering" ELSE "entering",
                         !.samples = samples]]
    /\ UNCHANGED <<last, billed, ruleOn, chained, foreign, unsaved>>

\* The tunnels of the node are read.
ReadTunnels(q) ==
    /\ ingest[q].step = "entering"
    /\ ingest' = [ingest EXCEPT ![q].step = "reading", ![q].tunnels = chained]
    /\ UNCHANGED <<last, billed, ruleOn, chained, foreign, unsaved>>

\* The stored counters are read.
ReadCounters(q) ==
    /\ ingest[q].step = "reading"
    /\ ingest' = [ingest EXCEPT ![q].step = "gating", ![q].last = last]
    /\ UNCHANGED <<last, billed, ruleOn, chained, foreign, unsaved>>

\* The rules are read: one on a tunnel of the node may be billed.
ReadGate(q) ==
    LET owned == {s \in Reported(q) : ruleOn[s] \in ingest[q].tunnels}
    IN  /\ ingest[q].step = "gating"
        /\ ingest' = [ingest EXCEPT ![q].step = Phases[1], ![q].owned = owned,
                                    ![q].todo = IF Phases[1] = "billing" THEN owned ELSE Reported(q)]
        /\ UNCHANGED <<last, billed, ruleOn, chained, foreign, unsaved>>

\* A row of the ledger.
Bill(q, s) ==
    /\ ingest[q].step = "billing" /\ s \in ingest[q].todo
    /\ billed' = [billed EXCEPT ![s] = Plus(@, DeltaOf(q, s))]
    /\ ingest' = [ingest EXCEPT ![q].todo = @ \ {s}]
    /\ UNCHANGED <<last, ruleOn, chained, foreign, unsaved>>

\* A row of the counters.
StoreCounter(q, s) ==
    /\ ingest[q].step = "storing" /\ s \in ingest[q].todo
    /\ last' = [last EXCEPT ![s] = ingest[q].samples[s]]
    /\ foreign' = IF s \in ingest[q].owned
                  THEN foreign
                  ELSE [foreign EXCEPT ![s] = Plus(@, DeltaOf(q, s))]
    /\ ingest' = [ingest EXCEPT ![q].todo = @ \ {s}]
    /\ UNCHANGED <<billed, ruleOn, chained, unsaved>>

\* One phase is done: on to the next, or to the answer.
PhaseDone(q) ==
    /\ ingest[q].step \in {"billing", "storing"} /\ ingest[q].todo = {}
    /\ ingest' = IF ingest[q].step = Phases[2]
                 THEN [ingest EXCEPT ![q] = [Resting EXCEPT !.step = "answering"]]
                 ELSE [ingest EXCEPT ![q].step = Phases[2],
                                     ![q].todo = IF Phases[2] = "storing" THEN Reported(q)
                                                                          ELSE ingest[q].owned]
    /\ UNCHANGED <<last, billed, ruleOn, chained, foreign, unsaved>>

\* The ingest ends early.
Stops(q, step) ==
    /\ unsaved' = [s \in Service |->
                     IF s \in BilledOnly(q) THEN Plus(unsaved[s], DeltaOf(q, s)) ELSE unsaved[s]]
    /\ ingest' = [ingest EXCEPT ![q] = [Resting EXCEPT !.step = step]]
    /\ UNCHANGED <<last, billed, ruleOn, chained, foreign>>

\* A statement fails: logged, and answered as if nothing had happened.
IngestFails(q) ==
    /\ ingest[q].step \in {"reading", "gating", "billing", "storing"}
    /\ Stops(q, "answering")

\* The worker dies, or the request fails before the ingest: no acknowledgement.
WorkerDies(q) ==
    /\ ingest[q].step \notin {"idle", "answering"}
    /\ Stops(q, "idle")

\* The answer leaves.
Answered(q) ==
    /\ ingest[q].step = "answering"
    /\ ingest' = [ingest EXCEPT ![q] = Resting]
    /\ UNCHANGED <<last, billed, ruleOn, chained, foreign, unsaved>>

\* A rule moves to another tunnel, or is deleted.
RuleMoves(s, t) ==
    /\ ruleOn' = [ruleOn EXCEPT ![s] = t]
    /\ UNCHANGED <<last, billed, chained, ingest, foreign, unsaved>>

\* A tunnel is linked to the node, or leaves it.
NodeMoves(t) ==
    /\ chained' = IF t \in chained THEN chained \ {t} ELSE chained \cup {t}
    /\ UNCHANGED <<last, billed, ruleOn, ingest, foreign, unsaved>>

\* An ingest goes on.
Proceeds(q) ==
    \/ ReadTunnels(q)
    \/ ReadCounters(q)
    \/ ReadGate(q)
    \/ \E s \in Service : Bill(q, s)
    \/ \E s \in Service : StoreCounter(q, s)
    \/ PhaseDone(q)

\* The ledger under any uploads whatever.
LedgerNext ==
    \/ \E q \in Request, samples \in Samples : Receive(q, samples)
    \/ \E q \in Request : Proceeds(q)
    \/ \E q \in Request : IngestFails(q)
    \/ \E q \in Request : WorkerDies(q)
    \/ \E q \in Request : Answered(q)
    \/ \E s \in Service, t \in Tunnel \cup {None} : RuleMoves(s, t)
    \/ \E t \in Tunnel : NodeMoves(t)

LedgerSpec == LedgerInit /\ [][LedgerNext]_ledgerVars

-----------------------------------------------------------------------------
LedgerTypeOK ==
    /\ last \in Samples
    /\ billed \in [Service -> Counts]
    /\ ruleOn \in [Service -> Tunnel \cup {None}]
    /\ chained \in SUBSET Tunnel
    /\ ingest \in [Request -> Ingest]
    /\ foreign \in [Service -> Counts]
    /\ unsaved \in [Service -> Counts]

Accounted(s, d) == billed[s][d] + foreign[s][d]

\* Over, never under (traffic.ts, above hourFloorIso): whatever is uploaded in
\* whatever order, however many ingests overlap, fail or die between their
\* writes, a count that was stored has been accounted for in full.  What is
\* stored can be subtracted from later reports without losing a byte.
LedgerCoversCounters ==
    \A s \in Service : last[s] # None => \A d \in Direction : last[s][d] <= Accounted(s, d)
=============================================================================
