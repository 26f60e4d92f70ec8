--------------------------- MODULE TrafficProofs ---------------------------
(***************************************************************************)
(* The node's ledger for any uploads (first part), and for those of an     *)
(* agent that flushes its counters (second part).                          *)
(***************************************************************************)
EXTENDS TrafficFlow, SequenceTheorems, TLAPS

-----------------------------------------------------------------------------
(***************************************************************************)
(* The ledger of module TrafficLedger covers the stored counters, for any  *)
(* uploads: any services, any number of ingests under way, any samples,    *)
(* failures and deaths at any await.                                       *)
(*                                                                         *)
(* Billed and foreign counts only grow.  So whatever an ingest once knew   *)
(* to be accounted for still is when it acts on it: the counters it read,  *)
(* and then, for the services it may bill, the samples it has billed and   *)
(* is about to store.                                                      *)
(***************************************************************************)

\* c is accounted for at service s, in every direction.
Covered(c, s) == \A d \in Direction : c[d] <= Accounted(s, d)

\* What an ingest read was stored, and so accounted for.
ReadIsCovered(q) ==
    ingest[q].step \in {"gating", "billing", "storing"} =>
        \A s \in Service : ingest[q].last[s] # None => Covered(ingest[q].last[s], s)

\* What it has billed is accounted for.
BilledIsCovered(q) ==
    /\ ingest[q].step = "billing" =>
         \A s \in ingest[q].owned \ ingest[q].todo : Covered(ingest[q].samples[s], s)
    /\ ingest[q].step = "storing" =>
         \A s \in ingest[q].owned : Covered(ingest[q].samples[s], s)

\* It works on the services it has samples of.
WorksOnReported(q) == ingest[q].owned \subseteq Reported(q) /\ ingest[q].todo \subseteq Reported(q)

\* All that an ingest relies on.
IngestOK(q) == ReadIsCovered(q) /\ BilledIsCovered(q) /\ WorksOnReported(q)

\* The inductive invariant.
LedgerInv ==
    /\ LedgerTypeOK
    /\ LedgerCoversCounters
    /\ \A q \in Request : IngestOK(q)

-----------------------------------------------------------------------------
\* The difference of two counts is a count, and brings an account that covers
\* the earlier one to cover the later one (ingestTraffic, traffic.ts:149-155).
LEMMA DeltaCatchesUp ==
    ASSUME NEW cur \in Counts, NEW prev \in Counts \cup {None}, NEW acc \in Counts,
           prev # None => \A d \in Direction : prev[d] <= acc[d]
    PROVE  /\ Delta(cur, prev) \in Counts
           /\ \A d \in Direction : cur[d] <= acc[d] + Delta(cur, prev)[d]
  <1>1. CASE prev # None /\ \A d \in Direction : cur[d] >= prev[d]
    <2>1. Delta(cur, prev) = [d \in Direction |-> cur[d] - prev[d]]
      BY <1>1 DEF Delta
    <2>2. prev \in Counts
      BY <1>1
    <2>3. \A d \in Direction : /\ cur[d] - prev[d] \in Nat
                               /\ cur[d] <= acc[d] + (cur[d] - prev[d])
      BY <1>1, <2>2 DEF Counts
    <2> QED
      BY <2>1, <2>3 DEF Counts
  <1>2. CASE ~(prev # None /\ \A d \in Direction : cur[d] >= prev[d])
    <2>1. Delta(cur, prev) = cur
      BY <1>2 DEF Delta
    <2> QED
      BY <2>1 DEF Counts
  <1> QED
    BY <1>1, <1>2

LEMMA PlusIsCounts ==
    ASSUME NEW a \in Counts, NEW b \in Counts
    PROVE  /\ Plus(a, b) \in Counts
           /\ \A d \in Direction : Plus(a, b)[d] = a[d] + b[d]
  BY DEF Plus, Counts

\* The difference of a reported service is a count.
LEMMA DeltaOfIsCounts ==
    ASSUME LedgerTypeOK, NEW q \in Request, NEW s \in Reported(q)
    PROVE  DeltaOf(q, s) \in Counts
  <1>1. /\ ingest[q].samples[s] \in Counts
        /\ ingest[q].last[s] \in Counts \cup {None}
    BY DEF LedgerTypeOK, Ingest, Samples, Reported
  <1>2. \A cur \in Counts, prev \in Counts \cup {None} : Delta(cur, prev) \in Counts
    BY DEF Delta, Counts
  <1> QED
    BY <1>1, <1>2 DEF DeltaOf

LEMMA PhaseNames == Phases[1] = "billing" /\ Phases[2] = "storing"
  BY DEF Phases

LEMMA RestingIsIngest ==
    Resting \in Ingest /\ Resting.step = "idle" /\ Resting.owned = {} /\ Resting.todo = {}
  BY DEF Resting, Ingest, Steps, Samples, NoSamples

\* Every step keeps the types, as long as ingests work on what was reported.
LEMMA TypeStep ==
    ASSUME LedgerTypeOK, \A q \in Request : WorksOnReported(q), [LedgerNext]_ledgerVars
    PROVE  LedgerTypeOK'
  <1> USE DEF LedgerTypeOK
  <1>1. ASSUME NEW q \in Request, NEW samples \in Samples, Receive(q, samples)
        PROVE  LedgerTypeOK'
    <2>1. [Resting EXCEPT !.step = IF samples = NoSamples THEN "answering" ELSE "entering",
                          !.samples = samples] \in Ingest
      BY RestingIsIngest DEF Ingest, Steps
    <2> QED
      BY <1>1, <2>1 DEF Receive
  <1>2. ASSUME NEW q \in Request, ReadTunnels(q)
        PROVE  LedgerTypeOK'
    <2>1. [ingest[q] EXCEPT !.step = "reading", !.tunnels = chained] \in Ingest
      BY DEF Ingest, Steps
    <2> QED
      BY <1>2, <2>1 DEF ReadTunnels
  <1>3. ASSUME NEW q \in Request, ReadCounters(q)
        PROVE  LedgerTypeOK'
    <2>1. [ingest[q] EXCEPT !.step = "gating", !.last = last] \in Ingest
      BY DEF Ingest, Steps
    <2> QED
      BY <1>3, <2>1 DEF ReadCounters
  <1>4. ASSUME NEW q \in Request, ReadGate(q)
        PROVE  LedgerTypeOK'
    <2> DEFINE owned == {s \in Reported(q) : ruleOn[s] \in ingest[q].tunnels}
    <2>1. [ingest[q] EXCEPT !.step = "billing", !.owned = owned, !.todo = owned] \in Ingest
      BY DEF Ingest, Steps, Reported
    <2>2. ingest' = [ingest EXCEPT ![q].step = "billing", ![q].owned = owned, ![q].todo = owned]
      BY <1>4, PhaseNames DEF ReadGate
    <2>3. UNCHANGED <<last, billed, ruleOn, chained, foreign, unsaved>>
      BY <1>4 DEF ReadGate
    <2> HIDE DEF owned
    <2> QED
      BY <2>1, <2>2, <2>3
  <1>5. ASSUME NEW q \in Request, NEW s \in Service, Bill(q, s)
        PROVE  LedgerTypeOK'
    <2>1. DeltaOf(q, s) \in Counts
      BY <1>5, DeltaOfIsCounts DEF WorksOnReported, Bill
    <2>2. Plus(billed[s], DeltaOf(q, s)) \in Counts
      BY <2>1, PlusIsCounts
    <2>3. [ingest[q] EXCEPT !.todo = @ \ {s}] \in Ingest
      BY DEF Ingest
    <2> QED
      BY <1>5, <2>2, <2>3 DEF Bill
  <1>6. ASSUME NEW q \in Request, NEW s \in Service, StoreCounter(q, s)
        PROVE  LedgerTypeOK'
    <2>1. DeltaOf(q, s) \in Counts /\ s \in Reported(q)
      BY <1>6, DeltaOfIsCounts DEF WorksOnReported, StoreCounter
    <2>2. Plus(foreign[s], DeltaOf(q, s)) \in Counts
      BY <2>1, PlusIsCounts
    <2>3. foreign' \in [Service -> Counts]
      BY <1>6, <2>2 DEF StoreCounter
    <2>4. last' \in Samples
      BY <1>6 DEF StoreCounter, Samples, Ingest
    <2>5. [ingest[q] EXCEPT !.todo = @ \ {s}] \in Ingest
      BY DEF Ingest
    <2> QED
      BY <1>6, <2>3, <2>4, <2>5 DEF StoreCounter
  <1>7. ASSUME NEW q \in Request, PhaseDone(q)
        PROVE  LedgerTypeOK'
    <2>1. /\ [Resting EXCEPT !.step = "answering"] \in Ingest
          /\ [ingest[q] EXCEPT !.step = "storing", !.todo = Reported(q)] \in Ingest
      BY RestingIsIngest DEF Ingest, Steps, Reported
    <2>2. \/ ingest' = [ingest EXCEPT ![q] = [Resting EXCEPT !.step = "answering"]]
          \/ ingest' = [ingest EXCEPT ![q].step = "storing", ![q].todo = Reported(q)]
      BY <1>7, PhaseNames DEF PhaseDone
    <2> QED
      BY <1>7, <2>1, <2>2 DEF PhaseDone
  <1>8. ASSUME NEW q \in Request, NEW step \in {"idle", "answering"}, Stops(q, step)
        PROVE  LedgerTypeOK'
    <2>1. \A s \in BilledOnly(q) : Plus(unsaved[s], DeltaOf(q, s)) \in Counts
      <3> SUFFICES ASSUME NEW s \in BilledOnly(q)
                   PROVE  Plus(unsaved[s], DeltaOf(q, s)) \in Counts
        OBVIOUS
      <3>1. s \in Reported(q) /\ s \in Service
        BY DEF BilledOnly, WorksOnReported, Reported
      <3>2. DeltaOf(q, s) \in Counts /\ unsaved[s] \in Counts
        BY <3>1, DeltaOfIsCounts
      <3> QED
        BY <3>2, PlusIsCounts
    <2>2. unsaved' \in [Service -> Counts]
      BY <1>8, <2>1 DEF Stops
    <2>3. [Resting EXCEPT !.step = step] \in Ingest
      BY RestingIsIngest DEF Ingest, Steps
    <2> QED
      BY <1>8, <2>2, <2>3 DEF Stops
  <1>9. ASSUME NEW q \in Request, Answered(q)
        PROVE  LedgerTypeOK'
    BY <1>9, RestingIsIngest DEF Answered
  <1>10. ASSUME NEW s \in Service, NEW t \in Tunnel \cup {None}, RuleMoves(s, t)
         PROVE  LedgerTypeOK'
    BY <1>10 DEF RuleMoves
  <1>11. ASSUME NEW t \in Tunnel, NodeMoves(t)
         PROVE  LedgerTypeOK'
    BY <1>11 DEF NodeMoves
  <1>12. CASE UNCHANGED ledgerVars
    BY <1>12 DEF ledgerVars
  <1> QED
    BY <1>1, <1>2, <1>3, <1>4, <1>5, <1>6, <1>7, <1>8, <1>9, <1>10, <1>11, <1>12
    DEF LedgerNext, Proceeds, IngestFails, WorkerDies

-----------------------------------------------------------------------------
\* No step takes anything from what is accounted for.
LEMMA AccountsGrow ==
    ASSUME LedgerTypeOK, \A q \in Request : WorksOnReported(q), [LedgerNext]_ledgerVars
    PROVE  \A s \in Service, d \in Direction : Accounted(s, d) <= Accounted(s, d)'
  <1> SUFFICES ASSUME NEW z \in Service, NEW d \in Direction
               PROVE  Accounted(z, d) <= Accounted(z, d)'
    OBVIOUS
  <1>1. /\ billed[z][d] \in Nat /\ foreign[z][d] \in Nat
        /\ billed \in [Service -> Counts] /\ foreign \in [Service -> Counts]
    BY DEF LedgerTypeOK, Counts
  <1>2. ASSUME NEW q \in Request, NEW s \in Service, Bill(q, s)
        PROVE  Accounted(z, d) <= Accounted(z, d)'
    <2>1. DeltaOf(q, s)[d] \in Nat
      BY <1>2, DeltaOfIsCounts DEF WorksOnReported, Bill, Counts
    <2>2. /\ billed' = [billed EXCEPT ![s] = Plus(billed[s], DeltaOf(q, s))]
          /\ foreign' = foreign
      BY <1>2 DEF Bill
    <2>3. billed'[z][d] = IF z = s THEN billed[z][d] + DeltaOf(q, s)[d] ELSE billed[z][d]
      BY <1>1, <2>2 DEF Plus
    <2> QED
      BY <1>1, <2>1, <2>2, <2>3 DEF Accounted
  <1>3. ASSUME NEW q \in Request, NEW s \in Service, StoreCounter(q, s)
        PROVE  Accounted(z, d) <= Accounted(z, d)'
    <2>1. DeltaOf(q, s)[d] \in Nat
      BY <1>3, DeltaOfIsCounts DEF WorksOnReported, StoreCounter, Counts
    <2>2. /\ billed' = billed
          /\ \/ foreign' = foreign
             \/ foreign' = [foreign EXCEPT ![s] = Plus(foreign[s], DeltaOf(q, s))]
      BY <1>3 DEF StoreCounter
    <2>3. \/ foreign'[z][d] = foreign[z][d]
          \/ foreign'[z][d] = foreign[z][d] + DeltaOf(q, s)[d]
      BY <1>1, <2>2 DEF Plus
    <2> QED
      BY <1>1, <2>1, <2>2, <2>3 DEF Accounted
  <1>4. ASSUME UNCHANGED <<billed, foreign>>
        PROVE  Accounted(z, d) <= Accounted(z, d)'
    BY <1>1, <1>4 DEF Accounted
  <1> QED
    BY <1>2, <1>3, <1>4
    DEF LedgerNext, Proceeds, Receive, ReadTunnels, ReadCounters, ReadGate, PhaseDone, IngestFails,
        WorkerDies, Stops, Answered, RuleMoves, NodeMoves, ledgerVars

\* What was covered stays covered.
LEMMA CoveredStays ==
    ASSUME LedgerTypeOK, LedgerTypeOK', NEW s \in Service, NEW c \in Counts, Covered(c, s),
           \A z \in Service, d \in Direction : Accounted(z, d) <= Accounted(z, d)'
    PROVE  \A d \in Direction : c[d] <= Accounted(s, d)'
  <1> SUFFICES ASSUME NEW d \in Direction
               PROVE  c[d] <= Accounted(s, d)'
    OBVIOUS
  <1>1. c[d] \in Nat /\ Accounted(s, d) \in Nat /\ Accounted(s, d)' \in Nat
    BY DEF LedgerTypeOK, Counts, Accounted
  <1> QED
    BY <1>1 DEF Covered

\* An ingest that does not move keeps what it relies on.
LEMMA Undisturbed ==
    ASSUME LedgerTypeOK, LedgerTypeOK', NEW r \in Request, IngestOK(r), ingest'[r] = ingest[r],
           \A s \in Service, d \in Direction : Accounted(s, d) <= Accounted(s, d)'
    PROVE  IngestOK(r)'
  <1>1. /\ \A s \in Service : ingest[r].last[s] # None => ingest[r].last[s] \in Counts
        /\ \A s \in Reported(r) : ingest[r].samples[s] \in Counts /\ s \in Service
        /\ Reported(r)' = Reported(r)
    BY DEF LedgerTypeOK, Ingest, Samples, Reported
  <1>2. WorksOnReported(r)'
    BY <1>1 DEF IngestOK, WorksOnReported
  <1>3. ReadIsCovered(r)'
    BY <1>1, CoveredStays DEF IngestOK, ReadIsCovered, Covered
  <1>4. BilledIsCovered(r)'
    BY <1>1, CoveredStays DEF IngestOK, BilledIsCovered, WorksOnReported, Covered
  <1> QED
    BY <1>2, <1>3, <1>4 DEF IngestOK

\* One report brings the account of a service up to its sample.
LEMMA ReportCatchesUp ==
    ASSUME LedgerTypeOK, NEW q \in Request, NEW s \in Reported(q),
           ingest[q].last[s] # None => Covered(ingest[q].last[s], s)
    PROVE  \A d \in Direction : ingest[q].samples[s][d] <= Accounted(s, d) + DeltaOf(q, s)[d]
  <1> DEFINE acc == [d \in Direction |-> Accounted(s, d)]
  <1>1. /\ s \in Service /\ ingest[q].samples[s] \in Counts
        /\ ingest[q].last[s] \in Counts \cup {None}
    BY DEF LedgerTypeOK, Ingest, Samples, Reported
  <1>2. acc \in Counts
    BY <1>1 DEF LedgerTypeOK, Counts, Accounted
  <1>3. ingest[q].last[s] # None => \A d \in Direction : ingest[q].last[s][d] <= acc[d]
    BY DEF Covered
  <1>4. \A d \in Direction : acc[d] = Accounted(s, d)
    OBVIOUS
  <1> HIDE DEF acc
  <1>5. \A d \in Direction :
          ingest[q].samples[s][d] <= acc[d] + Delta(ingest[q].samples[s], ingest[q].last[s])[d]
    BY <1>1, <1>2, <1>3, DeltaCatchesUp
  <1> QED
    BY <1>4, <1>5 DEF DeltaOf

LEMMA LedgerInvStep ==
    ASSUME LedgerInv, [LedgerNext]_ledgerVars
    PROVE  LedgerInv'
  <1>1. LedgerTypeOK /\ LedgerCoversCounters /\ \A q \in Request : IngestOK(q) /\ WorksOnReported(q)
    BY DEF LedgerInv, IngestOK
  <1>2. LedgerTypeOK'
    BY <1>1, TypeStep
  <1>3. \A s \in Service, d \in Direction : Accounted(s, d) <= Accounted(s, d)'
    BY <1>1, AccountsGrow
  <1>4. ASSUME NEW r \in Request, ingest'[r] = ingest[r]
        PROVE  IngestOK(r)'
    BY <1>1, <1>2, <1>3, <1>4, Undisturbed
  <1>5. ASSUME last' = last
        PROVE  LedgerCoversCounters'
    <2> SUFFICES ASSUME NEW s \in Service, last[s] # None
                 PROVE  \A d \in Direction : last[s][d] <= Accounted(s, d)'
      BY <1>5 DEF LedgerCoversCounters
    <2>1. last[s] \in Counts /\ Covered(last[s], s)
      BY <1>1 DEF LedgerTypeOK, Samples, LedgerCoversCounters, Covered
    <2> QED
      BY <1>1, <1>2, <1>3, <2>1, CoveredStays
  <1>6. ASSUME NEW q \in Request, NEW samples \in Samples, Receive(q, samples)
        PROVE  LedgerInv'
    <2>1. /\ ingest'[q].step \in {"entering", "answering"}
          /\ ingest'[q].owned = {} /\ ingest'[q].todo = {}
      BY <1>1, <1>6, RestingIsIngest DEF Receive, LedgerTypeOK, Ingest
    <2>2. IngestOK(q)'
      BY <2>1 DEF IngestOK, ReadIsCovered, BilledIsCovered, WorksOnReported
    <2>3. \A r \in Request \ {q} : ingest'[r] = ingest[r]
      BY <1>1, <1>6 DEF Receive, LedgerTypeOK
    <2>4. last' = last
      BY <1>6 DEF Receive
    <2> QED
      BY <1>2, <1>4, <1>5, <2>2, <2>3, <2>4 DEF LedgerInv
  <1>7. ASSUME NEW q \in Request, ReadTunnels(q)
        PROVE  LedgerInv'
    <2>1. /\ ingest'[q].step = "reading"
          /\ ingest'[q].samples = ingest[q].samples
          /\ ingest'[q].owned = ingest[q].owned /\ ingest'[q].todo = ingest[q].todo
      BY <1>1, <1>7 DEF ReadTunnels, LedgerTypeOK, Ingest
    <2>2. IngestOK(q)'
      BY <1>1, <2>1 DEF IngestOK, ReadIsCovered, BilledIsCovered, WorksOnReported, Reported
    <2>3. \A r \in Request \ {q} : ingest'[r] = ingest[r]
      BY <1>1, <1>7 DEF ReadTunnels, LedgerTypeOK
    <2>4. last' = last
      BY <1>7 DEF ReadTunnels
    <2> QED
      BY <1>2, <1>4, <1>5, <2>2, <2>3, <2>4 DEF LedgerInv
  <1>8. ASSUME NEW q \in Request, ReadCounters(q)
        PROVE  LedgerInv'
    <2>1. /\ ingest'[q].step = "gating" /\ ingest'[q].last = last
          /\ ingest'[q].samples = ingest[q].samples
          /\ ingest'[q].owned = ingest[q].owned /\ ingest'[q].todo = ingest[q].todo
      BY <1>1, <1>8 DEF ReadCounters, LedgerTypeOK, Ingest
    <2>2. last' = last
      BY <1>8 DEF ReadCounters
    <2>3. LedgerCoversCounters'
      BY <1>5, <2>2
    <2>4. ReadIsCovered(q)'
      BY <2>1, <2>2, <2>3 DEF ReadIsCovered, Covered, LedgerCoversCounters
    <2>5. IngestOK(q)'
      BY <1>1, <2>1, <2>4 DEF IngestOK, BilledIsCovered, WorksOnReported, Reported
    <2>6. \A r \in Request \ {q} : ingest'[r] = ingest[r]
      BY <1>1, <1>8 DEF ReadCounters, LedgerTypeOK
    <2> QED
      BY <1>2, <1>4, <2>3, <2>5, <2>6 DEF LedgerInv
  <1>9. ASSUME NEW q \in Request, ReadGate(q)
        PROVE  LedgerInv'
    <2> DEFINE owned == {s \in Reported(q) : ruleOn[s] \in ingest[q].tunnels}
    <2>1. /\ ingest' = [ingest EXCEPT ![q].step = "billing", ![q].owned = owned, ![q].todo = owned]
          /\ ingest[q].step = "gating" /\ last' = last
      BY <1>9, PhaseNames DEF ReadGate
    <2>2. owned \subseteq Reported(q)
      OBVIOUS
    <2> HIDE DEF owned
    <2>3. /\ ingest'[q].step = "billing" /\ ingest'[q].last = ingest[q].last
          /\ ingest'[q].samples = ingest[q].samples
          /\ ingest'[q].owned = owned /\ ingest'[q].todo = owned
      BY <1>1, <2>1 DEF LedgerTypeOK, Ingest
    <2>4. \A s \in Service : ingest[q].last[s] # None =>
             /\ ingest[q].last[s] \in Counts
             /\ Covered(ingest[q].last[s], s)
      BY <1>1, <2>1 DEF IngestOK, ReadIsCovered, LedgerTypeOK, Ingest, Samples
    <2>5. ReadIsCovered(q)'
      BY <1>1, <1>2, <1>3, <2>3, <2>4, CoveredStays DEF ReadIsCovered, Covered
    <2>6. BilledIsCovered(q)' /\ WorksOnReported(q)'
      BY <2>2, <2>3 DEF BilledIsCovered, WorksOnReported, Reported
    <2>7. \A r \in Request \ {q} : ingest'[r] = ingest[r]
      BY <1>1, <2>1 DEF LedgerTypeOK
    <2> QED
      BY <1>2, <1>4, <1>5, <2>1, <2>5, <2>6, <2>7 DEF LedgerInv, IngestOK
  <1>10. ASSUME NEW q \in Request, NEW s \in Service, Bill(q, s)
         PROVE  LedgerInv'
    <2>1. /\ ingest[q].step = "billing" /\ s \in ingest[q].todo /\ s \in Reported(q)
          /\ ingest' = [ingest EXCEPT ![q].todo = ingest[q].todo \ {s}]
          /\ billed' = [billed EXCEPT ![s] = Plus(billed[s], DeltaOf(q, s))]
          /\ last' = last /\ foreign' = foreign
      BY <1>1, <1>10 DEF Bill, WorksOnReported
    <2>2. /\ ingest'[q].step = "billing" /\ ingest'[q].last = ingest[q].last
          /\ ingest'[q].samples = ingest[q].samples
          /\ ingest'[q].owned = ingest[q].owned
          /\ ingest'[q].todo = ingest[q].todo \ {s}
      BY <1>1, <2>1 DEF LedgerTypeOK, Ingest
    <2>3. \A z \in Service : ingest[q].last[z] # None =>
             /\ ingest[q].last[z] \in Counts
             /\ Covered(ingest[q].last[z], z)
      BY <1>1, <2>1 DEF IngestOK, ReadIsCovered, LedgerTypeOK, Ingest, Samples
    <2>4. ReadIsCovered(q)'
      BY <1>1, <1>2, <1>3, <2>2, <2>3, CoveredStays DEF ReadIsCovered, Covered
    <2>5. \A d \in Direction : ingest[q].samples[s][d] <= Accounted(s, d)'
      <3>1. \A d \in Direction : ingest[q].samples[s][d] <= Accounted(s, d) + DeltaOf(q, s)[d]
        BY <1>1, <2>1, <2>3, ReportCatchesUp
      <3>2. /\ DeltaOf(q, s) \in Counts /\ billed \in [Service -> Counts]
            /\ foreign[s] \in Counts
        BY <1>1, <2>1, DeltaOfIsCounts DEF LedgerTypeOK
      <3>3. \A d \in Direction : billed'[s][d] = billed[s][d] + DeltaOf(q, s)[d]
        BY <2>1, <3>2, PlusIsCounts
      <3>4. \A d \in Direction : Accounted(s, d)' = Accounted(s, d) + DeltaOf(q, s)[d]
        BY <2>1, <3>2, <3>3 DEF Accounted, Counts
      <3> QED
        BY <3>1, <3>4
    <2>6. \A z \in ingest[q].owned \ ingest[q].todo :
             /\ z \in Service /\ ingest[q].samples[z] \in Counts
             /\ Covered(ingest[q].samples[z], z)
      BY <1>1, <2>1
      DEF IngestOK, BilledIsCovered, WorksOnReported, Reported, LedgerTypeOK, Ingest, Samples
    <2>7. \A z \in ingest[q].owned \ ingest[q].todo, d \in Direction :
             ingest[q].samples[z][d] <= Accounted(z, d)'
      BY <1>1, <1>2, <1>3, <2>6, CoveredStays
    <2>8. BilledIsCovered(q)'
      BY <2>2, <2>5, <2>7 DEF BilledIsCovered, Covered
    <2>9. WorksOnReported(q)'
      BY <1>1, <2>2 DEF WorksOnReported, Reported
    <2>10. \A r \in Request \ {q} : ingest'[r] = ingest[r]
      BY <1>1, <2>1 DEF LedgerTypeOK
    <2> QED
      BY <1>2, <1>4, <1>5, <2>1, <2>4, <2>8, <2>9, <2>10 DEF LedgerInv, IngestOK
  <1>11. ASSUME NEW q \in Request, NEW s \in Service, StoreCounter(q, s)
         PROVE  LedgerInv'
    <2>1. /\ ingest[q].step = "storing" /\ s \in ingest[q].todo /\ s \in Reported(q)
          /\ ingest' = [ingest EXCEPT ![q].todo = ingest[q].todo \ {s}]
          /\ last' = [last EXCEPT ![s] = ingest[q].samples[s]]
          /\ billed' = billed
          /\ s \notin ingest[q].owned =>
                foreign' = [foreign EXCEPT ![s] = Plus(foreign[s], DeltaOf(q, s))]
      BY <1>1, <1>11 DEF StoreCounter, WorksOnReported
    <2>2. /\ ingest'[q].step = "storing" /\ ingest'[q].last = ingest[q].last
          /\ ingest'[q].samples = ingest[q].samples
          /\ ingest'[q].owned = ingest[q].owned
          /\ ingest'[q].todo = ingest[q].todo \ {s}
      BY <1>1, <2>1 DEF LedgerTypeOK, Ingest
    <2>3. \A z \in Service : ingest[q].last[z] # None =>
             /\ ingest[q].last[z] \in Counts
             /\ Covered(ingest[q].last[z], z)
      BY <1>1, <2>1 DEF IngestOK, ReadIsCovered, LedgerTypeOK, Ingest, Samples
    <2>4. ReadIsCovered(q)'
      BY <1>1, <1>2, <1>3, <2>2, <2>3, CoveredStays DEF ReadIsCovered, Covered
    <2>5. \A z \in ingest[q].owned :
             /\ z \in Service /\ ingest[q].samples[z] \in Counts
             /\ Covered(ingest[q].samples[z], z)
      BY <1>1, <2>1
      DEF IngestOK, BilledIsCovered, WorksOnReported, Reported, LedgerTypeOK, Ingest, Samples
    <2>6. \A z \in ingest[q].owned, d \in Direction :
             ingest[q].samples[z][d] <= Accounted(z, d)'
      BY <1>1, <1>2, <1>3, <2>5, CoveredStays
    <2>7. BilledIsCovered(q)'
      BY <2>2, <2>6 DEF BilledIsCovered, Covered
    <2>8. WorksOnReported(q)'
      BY <1>1, <2>2 DEF WorksOnReported, Reported
    <2>9. ASSUME s \notin ingest[q].owned, NEW d \in Direction
          PROVE  ingest[q].samples[s][d] <= Accounted(s, d)'
      <3>1. ingest[q].samples[s][d] <= Accounted(s, d) + DeltaOf(q, s)[d]
        BY <1>1, <2>1, <2>3, ReportCatchesUp
      <3>2. /\ DeltaOf(q, s) \in Counts /\ foreign \in [Service -> Counts]
            /\ billed[s] \in Counts
        BY <1>1, <2>1, DeltaOfIsCounts DEF LedgerTypeOK
      <3>3. foreign'[s][d] = foreign[s][d] + DeltaOf(q, s)[d]
        BY <2>1, <2>9, <3>2, PlusIsCounts
      <3>4. Accounted(s, d)' = Accounted(s, d) + DeltaOf(q, s)[d]
        BY <2>1, <3>2, <3>3 DEF Accounted, Counts
      <3> QED
        BY <3>1, <3>4
    <2>10. \A d \in Direction : last'[s][d] <= Accounted(s, d)'
      BY <1>1, <2>1, <2>6, <2>9 DEF LedgerTypeOK, Samples
    <2>11. \A z \in Service \ {s} : last'[z] = last[z]
      BY <1>1, <2>1 DEF LedgerTypeOK, Samples
    <2>12. \A z \in Service : last[z] # None => last[z] \in Counts /\ Covered(last[z], z)
      BY <1>1 DEF LedgerTypeOK, Samples, LedgerCoversCounters, Covered
    <2>13. \A z \in Service, d \in Direction : last[z] # None => last[z][d] <= Accounted(z, d)'
      BY <1>1, <1>2, <1>3, <2>12, CoveredStays
    <2>14. LedgerCoversCounters'
      BY <2>10, <2>11, <2>13 DEF LedgerCoversCounters
    <2>15. \A r \in Request \ {q} : ingest'[r] = ingest[r]
      BY <1>1, <2>1 DEF LedgerTypeOK
    <2> QED
      BY <1>2, <1>4, <2>4, <2>7, <2>8, <2>14, <2>15 DEF LedgerInv, IngestOK
  <1>12. ASSUME NEW q \in Request, PhaseDone(q)
         PROVE  LedgerInv'
    <2>1. /\ ingest[q].todo = {} /\ last' = last
          /\ \/ ingest' = [ingest EXCEPT ![q] = [Resting EXCEPT !.step = "answering"]]
             \/ /\ ingest[q].step = "billing"
                /\ ingest' = [ingest EXCEPT ![q].step = "storing", ![q].todo = Reported(q)]
      BY <1>12, PhaseNames DEF PhaseDone
    <2>2. \A r \in Request \ {q} : ingest'[r] = ingest[r]
      BY <1>1, <2>1 DEF LedgerTypeOK
    <2>3. ASSUME ingest' = [ingest EXCEPT ![q] = [Resting EXCEPT !.step = "answering"]]
          PROVE  IngestOK(q)'
      <3>1. ingest'[q].step = "answering" /\ ingest'[q].owned = {} /\ ingest'[q].todo = {}
        BY <1>1, <2>3, RestingIsIngest DEF LedgerTypeOK, Ingest
      <3> QED
        BY <3>1 DEF IngestOK, ReadIsCovered, BilledIsCovered, WorksOnReported
    <2>4. ASSUME ingest[q].step = "billing",
                 ingest' = [ingest EXCEPT ![q].step = "storing", ![q].todo = Reported(q)]
          PROVE  IngestOK(q)'
      <3>1. /\ ingest'[q].step = "storing" /\ ingest'[q].last = ingest[q].last
            /\ ingest'[q].samples = ingest[q].samples
            /\ ingest'[q].owned = ingest[q].owned
            /\ ingest'[q].todo = Reported(q)
        BY <1>1, <2>4 DEF LedgerTypeOK, Ingest
      <3>2. \A z \in Service : ingest[q].last[z] # None =>
               /\ ingest[q].last[z] \in Counts
               /\ Covered(ingest[q].last[z], z)
        BY <1>1, <2>4 DEF IngestOK, ReadIsCovered, LedgerTypeOK, Ingest, Samples
      <3>3. ReadIsCovered(q)'
        BY <1>1, <1>2, <1>3, <3>1, <3>2, CoveredStays DEF ReadIsCovered, Covered
      <3>4. \A z \in ingest[q].owned :
               /\ z \in Service /\ ingest[q].samples[z] \in Counts
               /\ Covered(ingest[q].samples[z], z)
        <4>1. ingest[q].owned \ ingest[q].todo = ingest[q].owned
          BY <2>1
        <4>2. \A z \in ingest[q].owned : Covered(ingest[q].samples[z], z)
          BY <1>1, <2>4, <4>1 DEF IngestOK, BilledIsCovered
        <4>3. \A z \in ingest[q].owned : z \in Service /\ ingest[q].samples[z] \in Counts
          BY <1>1 DEF WorksOnReported, Reported, LedgerTypeOK, Ingest, Samples
        <4> QED
          BY <4>2, <4>3
      <3>5. \A z \in ingest[q].owned, d \in Direction :
               ingest[q].samples[z][d] <= Accounted(z, d)'
        BY <1>1, <1>2, <1>3, <3>4, CoveredStays
      <3>6. BilledIsCovered(q)'
        BY <3>1, <3>5 DEF BilledIsCovered, Covered
      <3>7. WorksOnReported(q)'
        BY <1>1, <3>1 DEF WorksOnReported, Reported
      <3> QED
        BY <3>3, <3>6, <3>7 DEF IngestOK
    <2> QED
      BY <1>2, <1>4, <1>5, <2>1, <2>2, <2>3, <2>4 DEF LedgerInv
  <1>13. ASSUME NEW q \in Request, NEW step \in {"idle", "answering"}, last' = last,
                ingest' = [ingest EXCEPT ![q] = [Resting EXCEPT !.step = step]]
         PROVE  LedgerInv'
    <2>1. ingest'[q].step = step /\ ingest'[q].owned = {} /\ ingest'[q].todo = {}
      BY <1>1, <1>13, RestingIsIngest DEF LedgerTypeOK, Ingest
    <2>2. IngestOK(q)'
      BY <2>1 DEF IngestOK, ReadIsCovered, BilledIsCovered, WorksOnReported
    <2>3. \A r \in Request \ {q} : ingest'[r] = ingest[r]
      BY <1>1, <1>13 DEF LedgerTypeOK
    <2> QED
      BY <1>2, <1>4, <1>5, <1>13, <2>2, <2>3 DEF LedgerInv
  <1>14. ASSUME NEW q \in Request, IngestFails(q) \/ WorkerDies(q)
         PROVE  LedgerInv'
    BY <1>13, <1>14 DEF IngestFails, WorkerDies, Stops
  <1>15. ASSUME NEW q \in Request, Answered(q)
         PROVE  LedgerInv'
    <2>1. Resting = [Resting EXCEPT !.step = "idle"]
      BY DEF Resting
    <2> QED
      BY <1>13, <1>15, <2>1 DEF Answered
  <1>16. ASSUME UNCHANGED <<last, ingest>>
         PROVE  LedgerInv'
    BY <1>2, <1>4, <1>5, <1>16 DEF LedgerInv
  <1> QED
    BY <1>6, <1>7, <1>8, <1>9, <1>10, <1>11, <1>12, <1>14, <1>15, <1>16
    DEF LedgerNext, Proceeds, RuleMoves, NodeMoves, ledgerVars

\* In the beginning nothing is stored, and no ingest is under way.
LEMMA LedgerInvInit == LedgerInit => LedgerInv
  <1> SUFFICES ASSUME LedgerInit
               PROVE  LedgerInv
    OBVIOUS
  <1>1. LedgerTypeOK
    BY RestingIsIngest DEF LedgerInit, LedgerTypeOK, Samples, NoSamples, Zero, Counts
  <1>2. LedgerCoversCounters
    BY DEF LedgerInit, LedgerCoversCounters, NoSamples
  <1>3. \A q \in Request : IngestOK(q)
    BY RestingIsIngest DEF LedgerInit, IngestOK, ReadIsCovered, BilledIsCovered, WorksOnReported
  <1> QED
    BY <1>1, <1>2, <1>3 DEF LedgerInv

\* Every variable of the ledger keeps its type: no difference is ever negative.
THEOREM LedgerTypeCorrect == LedgerSpec => []LedgerTypeOK
  <1>1. LedgerInv => LedgerTypeOK
    BY DEF LedgerInv
  <1> QED
    BY <1>1, LedgerInvInit, LedgerInvStep, PTL DEF LedgerSpec

\* Over, never under: for any uploads, any number of ingests of the node that
\* overlap, fail or die between their awaits (ingestTraffic), what is stored as
\* counted has been billed, or was not the node's to bill.
THEOREM LedgerCoverage == LedgerSpec => []LedgerCoversCounters
  <1>1. LedgerInv => LedgerCoversCounters
    BY DEF LedgerInv
  <1> QED
    BY <1>1, LedgerInvInit, LedgerInvStep, PTL DEF LedgerSpec

-----------------------------------------------------------------------------
(***************************************************************************)
(* Traffic is billed once, for any services, clients, buffers, chunks and  *)
(* numbers of restarts and faults.                                         *)
(*                                                                         *)
(* An agent's flushes are uploads that module TrafficLedger ingests: every *)
(* step here is one of the ledger or leaves it alone.  What the ledger     *)
(* promises for any uploads holds for these.                               *)
(*                                                                         *)
(* For these it promises more.  What is accounted for counts as settled    *)
(* once its counters are stored.  The settled account of a service is      *)
(* either no more than what was relayed before the agent last started, or  *)
(* exceeds that by the stored counts at most, and every sample the agent   *)
(* still holds is then above the stored counts.  A sample on its way to    *)
(* the ledger is such a one, or it is from before the start and fits in    *)
(* the first bound.                                                        *)
(***************************************************************************)

Within(a, b) == \A d \in Direction : a[d] <= b[d]

\* What the running agent has counted of s, and what others had before it.
Counted(s) == IF counters[s] = None THEN Zero ELSE counters[s]
Before(s, d) == relayed[s][d] - Counted(s)[d]

\* The samples the agent holds, and those of s among them that are billed.
Held == pending \cup {buffer[i] : i \in 1 .. Len(buffer)}
Waiting(s) == {row.counts : row \in {r \in Held : r.service = s /\ r.client = 0}}

KeysDiffer(rows) == \A i, j \in 1 .. Len(rows) : SameKey(rows[i], rows[j]) => i = j

\* What an agent holds it has counted, and what it has counted was relayed.
RowsFit ==
    /\ \A row \in Held : row.client = 0 => row.counts # None
    /\ KeysDiffer(buffer)
    /\ flush # "merging" => pending = {}
    /\ \A s \in Service : \A w \in Waiting(s) : Within(w, Counted(s))
    /\ \A s \in Service : Within(Counted(s), relayed[s])

\* The services ingest i may yet store, and those it has billed and not stored.
AheadOf(i) ==
    CASE i.step \in {"entering", "reading", "gating", "billing"} -> {s \in Service : i.samples[s] # None}
      [] i.step = "storing" -> i.todo
      [] OTHER -> {}

BilledBy(i) ==
    CASE i.step = "billing" -> i.owned \ i.todo
      [] i.step = "storing" -> i.owned \cap i.todo
      [] OTHER -> {}

\* What some ingest among ing has billed of s and not stored.
Underway(ing, s, d) ==
    IF \E q \in Request : s \in BilledBy(ing[q])
    THEN LET q == CHOOSE r \in Request : s \in BilledBy(ing[r])
         IN  Delta(ing[q].samples[s], ing[q].last[s])[d]
    ELSE 0

\* What is accounted for with its counters stored.
Settled(s, d) == Accounted(s, d) - unsaved[s][d] - Underway(ingest, s, d)

\* A count c of s may be stored: the account is settled up to the agent's
\* start, or up to stored counts that c is not below.
Follows(s, c) ==
    \/ \A d \in Direction : Settled(s, d) <= Before(s, d)
    \/ /\ last[s] # None /\ Within(last[s], c)
       /\ \A d \in Direction : Settled(s, d) <= Before(s, d) + last[s][d]

\* c is from before the start.
Stale(s, c) == \A d \in Direction : Settled(s, d) + Delta(c, last[s])[d] <= Before(s, d)

\* c is from the running agent, and no sample it holds is older.
Current(s, c) ==
    Within(c, Counted(s)) /\ Follows(s, c) /\ \A w \in Waiting(s) : Within(c, w)

Fits(q, s) == Stale(s, ingest[q].samples[s]) \/ Current(s, ingest[q].samples[s])

OnceFor(s) ==
    /\ Follows(s, Counted(s))
    /\ \A w \in Waiting(s) : Follows(s, w)
    /\ \A q \in Request : s \in AheadOf(ingest[q]) => Fits(q, s)

\* One ingest at a time, which stores over the counts it read.
Alone == \A q, r \in Request : ingest[q] # Resting /\ ingest[r] # Resting => q = r

ReadIsStored ==
    \A q \in Request : ingest[q].step \in {"gating", "billing", "storing"} =>
        \A s \in AheadOf(ingest[q]) : ingest[q].last[s] = last[s]

InTurn == Alone /\ ReadIsStored /\ \A s \in Service : OnceFor(s)

\* An ingest has only services it may bill to bill.
BillsOwned == \A q \in Request : ingest[q].step = "billing" => ingest[q].todo \subseteq ingest[q].owned

\* The inductive invariant.
FlowInv == TypeOK /\ LedgerInv /\ RowsFit /\ BillsOwned /\ (~overlapped => InTurn)

-----------------------------------------------------------------------------
(* The buffer.                                                             *)

\* A push keeps the buffer's length and its keys apart, and adds the row at most
\* (SampleBuffer::push).
LEMMA PushKeeps ==
    ASSUME NEW rows \in Seq(Row), Len(rows) <= MaxBuffered, KeysDiffer(rows), NEW row \in Row
    PROVE  /\ Push(rows, row) \in Seq(Row) /\ Len(Push(rows, row)) <= MaxBuffered
           /\ KeysDiffer(Push(rows, row))
           /\ \A i \in 1 .. Len(Push(rows, row)) :
                Push(rows, row)[i] = row \/ \E j \in 1 .. Len(rows) : Push(rows, row)[i] = rows[j]
  <1>0. Len(rows) \in Nat /\ MaxBuffered \in Nat \ {0}
    BY FlowAssumption
  <1>1. CASE \E i \in 1 .. Len(rows) : SameKey(rows[i], row)
    <2> DEFINE new == [i \in 1 .. Len(rows) |-> IF SameKey(rows[i], row) THEN row ELSE rows[i]]
    <2>1. Push(rows, row) = new
      BY <1>1 DEF Push
    <2>2. new \in Seq(Row) /\ Len(new) = Len(rows)
      BY <1>0
    <2>3. KeysDiffer(new)
      BY <2>2 DEF KeysDiffer, SameKey
    <2>4. \A i \in 1 .. Len(new) : new[i] = row \/ \E j \in 1 .. Len(rows) : new[i] = rows[j]
      BY <2>2
    <2> QED
      BY <2>1, <2>2, <2>3, <2>4
  <1>2. CASE ~\E i \in 1 .. Len(rows) : SameKey(rows[i], row)
    <2> DEFINE base == IF Len(rows) >= MaxBuffered THEN Tail(rows) ELSE rows
    <2>1. Push(rows, row) = Append(base, row)
      BY <1>2 DEF Push
    <2>2. /\ base \in Seq(Row) /\ Len(base) + 1 <= MaxBuffered
          /\ \E n \in {0, 1} : n + Len(base) = Len(rows) /\ \A i \in 1 .. Len(base) : base[i] = rows[i + n]
      <3>1. CASE Len(rows) >= MaxBuffered
        <4>1. Tail(rows) \in Seq(Row) /\ Len(Tail(rows)) = Len(rows) - 1
          BY <1>0, <3>1
        <4>2. \A i \in 1 .. Len(rows) - 1 : Tail(rows)[i] = rows[i + 1]
          BY <1>0, <3>1
        <4> QED
          BY <1>0, <3>1, <4>1, <4>2
      <3>2. CASE ~(Len(rows) >= MaxBuffered)
        BY <1>0, <3>2
      <3> QED
        BY <3>1, <3>2
    <2> HIDE DEF base
    <2>3. PICK n \in {0, 1} : n + Len(base) = Len(rows) /\ \A i \in 1 .. Len(base) : base[i] = rows[i + n]
      BY <2>2
    <2>4. Len(base) \in Nat
      BY <2>2
    <2>5. Append(base, row) \in Seq(Row) /\ Len(Append(base, row)) = Len(base) + 1
      BY <2>2
    <2>6. /\ \A i \in 1 .. Len(base) : Append(base, row)[i] = rows[i + n] /\ i + n \in 1 .. Len(rows)
          /\ Append(base, row)[Len(base) + 1] = row
      BY <1>0, <2>2, <2>3, <2>4
    <2>7. KeysDiffer(Append(base, row))
      <3>1. SUFFICES ASSUME NEW i \in 1 .. Len(base) + 1, NEW j \in 1 .. Len(base) + 1,
                            SameKey(Append(base, row)[i], Append(base, row)[j])
                     PROVE  i = j
        BY <2>5 DEF KeysDiffer
      <3>2. \A k \in 1 .. Len(rows) : ~SameKey(rows[k], row) /\ ~SameKey(row, rows[k])
        BY <1>2 DEF SameKey
      <3>3. CASE i \in 1 .. Len(base) /\ j \in 1 .. Len(base)
        <4>1. i + n = j + n
          BY <2>6, <3>1, <3>3 DEF KeysDiffer
        <4> QED
          BY <2>4, <4>1
      <3>4. CASE i = Len(base) + 1 /\ j \in 1 .. Len(base)
        BY <2>6, <3>1, <3>2, <3>4
      <3>5. CASE i \in 1 .. Len(base) /\ j = Len(base) + 1
        BY <2>6, <3>1, <3>2, <3>5
      <3> QED
        BY <2>4, <3>3, <3>4, <3>5
    <2>8. \A i \in 1 .. Len(base) + 1 :
            Append(base, row)[i] = row \/ \E j \in 1 .. Len(rows) : Append(base, row)[i] = rows[j]
      BY <2>4, <2>6
    <2> QED
      BY <2>1, <2>2, <2>5, <2>7, <2>8
  <1> QED
    BY <1>1, <1>2

\* What is left after a chunk was sent (SampleBuffer::commit_chunk).
LEMMA CommitKeeps ==
    ASSUME NEW rows \in Seq(Row), KeysDiffer(rows), NEW n \in 0 .. Len(rows)
    PROVE  LET rest == SubSeq(rows, n + 1, Len(rows))
           IN  /\ rest \in Seq(Row) /\ Len(rest) <= Len(rows)
               /\ KeysDiffer(rest)
               /\ \A i \in 1 .. Len(rest) : \E j \in 1 .. Len(rows) : rest[i] = rows[j]
  <1> DEFINE rest == SubSeq(rows, n + 1, Len(rows))
  <1>1. Len(rows) \in Nat
    OBVIOUS
  <1>2. rest \in Seq(Row) /\ Len(rest) = Len(rows) - n
    BY <1>1
  <1>3. \A i \in 1 .. Len(rest) : rest[i] = rows[n + i] /\ n + i \in 1 .. Len(rows)
    BY <1>1, <1>2
  <1> HIDE DEF rest
  <1>4. KeysDiffer(rest)
    <2>1. SUFFICES ASSUME NEW i \in 1 .. Len(rest), NEW j \in 1 .. Len(rest), SameKey(rest[i], rest[j])
                   PROVE  i = j
      BY DEF KeysDiffer
    <2>2. n + i = n + j
      BY <1>3, <2>1 DEF KeysDiffer
    <2> QED
      BY <1>1, <1>2, <2>2
  <1>5. \A i \in 1 .. Len(rest) : \E j \in 1 .. Len(rows) : rest[i] = rows[j]
    BY <1>3
  <1> QED
    BY <1>1, <1>2, <1>4, <1>5 DEF rest

-----------------------------------------------------------------------------
(* Uploads, and types.                                                     *)

\* A chunk is a prefix of the buffer.
LEMMA ChunkLengthFits == ASSUME buffer \in Seq(Row) PROVE ChunkLength \in 0 .. Len(buffer)
  BY FlowAssumption DEF ChunkLength

\* A chunk is an upload: its service-level rows carry counts, one per service at
\* most, and those were waiting.
LEMMA ChunkIsUpload ==
    ASSUME TypeOK, RowsFit
    PROVE  /\ ChunkSamples \in Samples
           /\ \A s \in Service : ChunkSamples[s] # None => ChunkSamples[s] \in Waiting(s)
  <1> SUFFICES ASSUME NEW s \in Service
               PROVE  /\ ChunkSamples[s] \in Counts \cup {None}
                      /\ ChunkSamples[s] # None => ChunkSamples[s] \in Waiting(s)
    BY DEF ChunkSamples, Samples
  <1> DEFINE rows == {i \in 1 .. ChunkLength : buffer[i].service = s /\ buffer[i].client = 0}
             i == CHOOSE x \in rows : TRUE
  <1>1. ChunkSamples[s] = IF rows = {} THEN None ELSE buffer[i].counts
    BY DEF ChunkSamples
  <1>2. CASE rows = {}
    BY <1>1, <1>2
  <1>3. CASE rows # {}
    <2>1. i \in 1 .. Len(buffer) /\ buffer[i].service = s /\ buffer[i].client = 0
      BY <1>3, ChunkLengthFits DEF TypeOK
    <2> HIDE DEF i
    <2>2. buffer[i] \in Row
      BY <2>1 DEF TypeOK
    <2>3. buffer[i] \in Held
      BY <2>1 DEF Held
    <2> QED
      BY <1>1, <1>3, <2>1, <2>2, <2>3 DEF Row, Waiting
  <1> QED
    BY <1>2, <1>3

\* Every step is one of the ledger, or leaves it alone.
LEMMA FlowStepIngests ==
    ASSUME TypeOK, RowsFit, [Next]_vars
    PROVE  [LedgerNext]_ledgerVars
  <1>1. ASSUME NEW q \in Request, SendChunk(q)
        PROVE  LedgerNext
    BY <1>1, ChunkIsUpload DEF SendChunk, LedgerNext
  <1>2. ASSUME NEW q \in Request, Acknowledged(q)
        PROVE  LedgerNext
    BY <1>2 DEF Acknowledged, LedgerNext
  <1>3. ASSUME NEW q \in Request, Ingests(q)
        PROVE  LedgerNext
    BY <1>3 DEF Ingests, LedgerNext
  <1>4. ASSUME NEW q \in Request, IngestStops(q)
        PROVE  LedgerNext
    BY <1>4 DEF IngestStops, LedgerNext
  <1>5. ASSUME NEW q \in Request, Unheard(q)
        PROVE  LedgerNext
    BY <1>5 DEF Unheard, LedgerNext
  <1>6. ASSUME Redeploys
        PROVE  LedgerNext
    BY <1>6 DEF Redeploys, LedgerNext
  <1>7. CASE UNCHANGED vars
    BY <1>7 DEF vars
  <1> QED
    BY <1>1, <1>2, <1>3, <1>4, <1>5, <1>6, <1>7
    DEF Next, Accept, Relay, BeginFlush, Merge, SendFails, AnswerIsLost, GivesUp, Restart

\* The rows of a snapshot are rows, with the counts there are.
LEMMA RowsAreRows ==
    ASSUME TypeOK
    PROVE  /\ Rows \subseteq Row
           /\ \A row \in Rows : row.client = 0 => row.counts # None /\ row.counts = counters[row.service]
  <1>1. \A s \in Service : counters[s] \in Counts \cup {None} /\ seen[s] \subseteq Client
    BY DEF TypeOK, Samples
  <1>2. ASSUME NEW row \in Rows
        PROVE  row \in Row /\ (row.client = 0 => row.counts # None /\ row.counts = counters[row.service])
    <2>1. CASE \E s \in Service : counters[s] # None
                 /\ row = [service |-> s, client |-> 0, counts |-> counters[s]]
      BY <1>1, <2>1 DEF Row
    <2>2. CASE \E s \in Service : \E c \in seen[s] : row = [service |-> s, client |-> c, counts |-> None]
      BY <1>1, <2>2, FlowAssumption DEF Row
    <2> QED
      BY <1>2, <2>1, <2>2 DEF Rows
  <1> QED
    BY <1>2

\* A byte relayed is one more of what is counted.
LEMMA RelayCounts ==
    ASSUME TypeOK, NEW s \in Service, NEW d \in Direction, Relay(s, d)
    PROVE  /\ counters[s] \in Counts
           /\ counters' = [counters EXCEPT ![s] = [counters[s] EXCEPT ![d] = @ + 1]]
           /\ relayed' = [relayed EXCEPT ![s] = [relayed[s] EXCEPT ![d] = @ + 1]]
           /\ counters' \in Samples /\ relayed' \in [Service -> Counts]
  <1>1. counters[s] \in Counts /\ relayed[s] \in Counts
    BY DEF Relay, TypeOK, Samples
  <1>2. \A c \in Counts : [c EXCEPT ![d] = @ + 1] \in Counts
    BY DEF Counts
  <1>3. /\ counters' = [counters EXCEPT ![s] = [counters[s] EXCEPT ![d] = @ + 1]]
        /\ relayed' = [relayed EXCEPT ![s] = [relayed[s] EXCEPT ![d] = @ + 1]]
    BY DEF Relay
  <1>4. /\ [counters[s] EXCEPT ![d] = @ + 1] \in Counts
        /\ [relayed[s] EXCEPT ![d] = @ + 1] \in Counts
    BY <1>1, <1>2
  <1> QED
    BY <1>1, <1>3, <1>4 DEF TypeOK, Samples

\* Every step keeps the types.
LEMMA FlowTypeStep ==
    ASSUME TypeOK, RowsFit, LedgerTypeOK', [Next]_vars
    PROVE  TypeOK'
  <1>0. /\ MaxRestarts \in Nat /\ MaxFaults \in Nat /\ MaxMoves \in Nat /\ MaxBuffered \in Nat
        /\ restarts \in Nat /\ faults \in Nat /\ moves \in Nat
    BY FlowAssumption DEF TypeOK
  <1>1. ASSUME NEW s \in Service, NEW c \in Client, Accept(s, c)
        PROVE  TypeOK'
    <2>1. Zero \in Counts
      BY DEF Zero, Counts
    <2>2. counters' \in Samples
      BY <1>1, <2>1 DEF Accept, TypeOK, Samples
    <2>3. seen' \in [Service -> SUBSET Client]
      BY <1>1 DEF Accept, TypeOK
    <2> QED
      BY <1>1, <2>2, <2>3 DEF Accept, TypeOK, bounds
  <1>2. ASSUME NEW s \in Service, NEW d \in Direction, Relay(s, d)
        PROVE  TypeOK'
    BY <1>2, RelayCounts DEF Relay, TypeOK, bounds
  <1>3. CASE BeginFlush
    BY <1>3, RowsAreRows DEF BeginFlush, TypeOK, bounds
  <1>4. ASSUME NEW row \in pending, Merge(row)
        PROVE  TypeOK'
    <2>1. row \in Row /\ KeysDiffer(buffer)
      BY DEF TypeOK, RowsFit
    <2>2. buffer' \in Seq(Row) /\ Len(buffer') <= MaxBuffered
      BY <1>4, <2>1, PushKeeps DEF Merge, TypeOK
    <2> QED
      BY <1>4, <2>2 DEF Merge, TypeOK, bounds
  <1>5. ASSUME NEW q \in Request, SendChunk(q)
        PROVE  TypeOK'
    BY <1>5 DEF SendChunk, TypeOK, bounds
  <1>6. CASE SendFails
    BY <1>0, <1>6 DEF SendFails, Fault, TypeOK
  <1>7. ASSUME NEW q \in Request, Acknowledged(q)
        PROVE  TypeOK'
    <2>1. KeysDiffer(buffer) /\ buffer \in Seq(Row) /\ Len(buffer) <= MaxBuffered /\ Len(buffer) \in Nat
      BY DEF TypeOK, RowsFit
    <2>2. buffer' \in Seq(Row) /\ Len(buffer') <= Len(buffer) /\ Len(buffer') \in Nat
      <3>1. buffer' = SubSeq(buffer, ChunkLength + 1, Len(buffer)) /\ ChunkLength \in 0 .. Len(buffer)
        BY <1>7, <2>1, ChunkLengthFits DEF Acknowledged
      <3>2. buffer' \in Seq(Row) /\ Len(buffer') <= Len(buffer)
        BY <2>1, <3>1, CommitKeeps
      <3> QED
        BY <3>2
    <2>3. Len(buffer') <= MaxBuffered
      BY <1>0, <2>1, <2>2
    <2> QED
      BY <1>7, <2>2, <2>3 DEF Acknowledged, TypeOK, bounds
  <1>8. ASSUME NEW q \in Request, AnswerIsLost(q)
        PROVE  TypeOK'
    BY <1>8 DEF AnswerIsLost, TypeOK, bounds
  <1>9. ASSUME NEW q \in Request, GivesUp(q)
        PROVE  TypeOK'
    BY <1>0, <1>9 DEF GivesUp, Fault, TypeOK
  <1>10. CASE Restart
    <2>1. /\ counters' \in Samples /\ seen' \in [Service -> SUBSET Client]
          /\ buffer' \in Seq(Row) /\ Len(buffer') <= MaxBuffered /\ pending' \subseteq Row
      BY <1>0, <1>10 DEF Restart, Samples
    <2> QED
      BY <1>0, <1>10, <2>1 DEF Restart, TypeOK
  <1>11. ASSUME NEW q \in Request, Ingests(q)
         PROVE  TypeOK'
    BY <1>11 DEF Ingests, OnServer, flowVars, TypeOK, bounds
  <1>12. ASSUME NEW q \in Request, IngestStops(q)
         PROVE  TypeOK'
    BY <1>0, <1>12 DEF IngestStops, Fault, OnServer, flowVars, TypeOK
  <1>13. ASSUME NEW q \in Request, Unheard(q)
         PROVE  TypeOK'
    BY <1>13 DEF Unheard, OnServer, flowVars, TypeOK, bounds
  <1>14. CASE Redeploys
    BY <1>0, <1>14 DEF Redeploys, OnServer, flowVars, TypeOK
  <1>15. CASE UNCHANGED vars
    BY <1>15 DEF vars, flowVars, bounds, TypeOK
  <1> QED
    BY <1>1, <1>2, <1>3, <1>4, <1>5, <1>6, <1>7, <1>8, <1>9, <1>10, <1>11, <1>12, <1>13, <1>14, <1>15
    DEF Next

-----------------------------------------------------------------------------
(* What the agent holds.                                                   *)

\* A row held after a step was held before, or is a sample just taken.
LEMMA HeldStep ==
    ASSUME TypeOK, RowsFit, [Next]_vars
    PROVE  /\ KeysDiffer(buffer')
           /\ flush' # "merging" => pending' = {}
           /\ \A row \in Held' :
                row \notin Held /\ row.client = 0 => row.counts # None /\ row.counts = counters'[row.service]
  <1> DEFINE Goal == /\ KeysDiffer(buffer')
                     /\ flush' # "merging" => pending' = {}
                     /\ \A row \in Held' : row \notin Held /\ row.client = 0
                          => row.counts # None /\ row.counts = counters'[row.service]
  <1> SUFFICES Goal
    OBVIOUS
  <1> HIDE DEF Goal
  <1>0. /\ KeysDiffer(buffer) /\ (flush # "merging" => pending = {})
        /\ buffer \in Seq(Row) /\ Len(buffer) \in Nat /\ Len(buffer) <= MaxBuffered /\ pending \subseteq Row
    BY DEF RowsFit, TypeOK
  <1>1. ASSUME buffer' = buffer, pending' = pending, flush' # "merging" => flush # "merging" \/ pending' = {}
        PROVE  Goal
    BY <1>0, <1>1 DEF Held, Goal
  <1>2. CASE BeginFlush
    <2>1. \A row \in pending' : row.client = 0 => row.counts # None /\ row.counts = counters'[row.service]
      BY <1>2, RowsAreRows DEF BeginFlush
    <2>2. buffer' = buffer /\ flush' = "merging"
      BY <1>2 DEF BeginFlush
    <2> QED
      BY <1>0, <2>1, <2>2 DEF Held, Goal
  <1>3. ASSUME NEW row \in pending, Merge(row)
        PROVE  Goal
    <2>1. buffer' = Push(buffer, row) /\ pending' = pending \ {row} /\ (flush' # "merging" => pending' = {})
      BY <1>3 DEF Merge
    <2>2. /\ KeysDiffer(buffer')
          /\ \A i \in 1 .. Len(buffer') : buffer'[i] = row \/ \E j \in 1 .. Len(buffer) : buffer'[i] = buffer[j]
      <3>1. row \in Row
        BY <1>0
      <3>2. /\ KeysDiffer(Push(buffer, row))
            /\ \A i \in 1 .. Len(Push(buffer, row)) :
                 Push(buffer, row)[i] = row \/ \E j \in 1 .. Len(buffer) : Push(buffer, row)[i] = buffer[j]
        BY <1>0, <3>1, PushKeeps
      <3> QED
        BY <2>1, <3>2
    <2>3. Held' \subseteq Held
      BY <2>1, <2>2 DEF Held
    <2> QED
      BY <2>1, <2>2, <2>3 DEF Goal
  <1>4. ASSUME NEW q \in Request, Acknowledged(q)
        PROVE  Goal
    <2>1. /\ buffer' = SubSeq(buffer, ChunkLength + 1, Len(buffer)) /\ ChunkLength \in 0 .. Len(buffer)
          /\ pending' = pending /\ flush = q
      BY <1>0, <1>4, ChunkLengthFits DEF Acknowledged
    <2>2. /\ KeysDiffer(buffer')
          /\ \A i \in 1 .. Len(buffer') : \E j \in 1 .. Len(buffer) : buffer'[i] = buffer[j]
      BY <1>0, <2>1, CommitKeeps
    <2>3. pending = {} /\ pending' = {}
      BY <1>0, <2>1, FlowAssumption
    <2>4. Held' \subseteq Held
      BY <2>2, <2>3 DEF Held
    <2> QED
      BY <2>2, <2>3, <2>4 DEF Goal
  <1>5. CASE Restart
    BY <1>5 DEF Restart, KeysDiffer, Held, Goal
  <1>6. ASSUME NEW q \in Request, SendChunk(q)
        PROVE  Goal
    BY <1>1, <1>6, FlowAssumption DEF SendChunk
  <1>7. ASSUME NEW q \in Request, AnswerIsLost(q) \/ GivesUp(q)
        PROVE  Goal
    BY <1>1, <1>7, FlowAssumption DEF AnswerIsLost, GivesUp
  <1>8. CASE SendFails
    <2>1. buffer' = buffer /\ pending' = pending /\ flush = "sending"
      BY <1>8 DEF SendFails
    <2> QED
      BY <1>1, <2>1
  <1>9. ASSUME NEW s \in Service, NEW c \in Client, Accept(s, c)
        PROVE  Goal
    BY <1>1, <1>9 DEF Accept
  <1>10. ASSUME NEW s \in Service, NEW d \in Direction, Relay(s, d)
         PROVE  Goal
    BY <1>1, <1>10 DEF Relay
  <1>11. CASE OnServer \/ UNCHANGED vars
    <2>1. UNCHANGED <<pending, buffer, flush>>
      BY <1>11 DEF OnServer, vars, flowVars
    <2> QED
      BY <1>1, <2>1
  <1> QED
    BY <1>2, <1>3, <1>4, <1>5, <1>6, <1>7, <1>8, <1>9, <1>10, <1>11
    DEF Next, Ingests, IngestStops, Unheard, Redeploys

\* What is counted is a count, with a connection or without.
LEMMA CountedIsCounts ==
    ASSUME TypeOK, NEW s \in Service
    PROVE  /\ Counted(s) \in Counts /\ relayed[s] \in Counts
           /\ \A d \in Direction : Before(s, d) = relayed[s][d] - Counted(s)[d] /\ Before(s, d) \in Int
  <1>1. Counted(s) \in Counts /\ relayed[s] \in Counts
    BY DEF TypeOK, Samples, Counted, Zero, Counts
  <1> QED
    BY <1>1 DEF Before, Counts

\* But for a start, the agent's counts only grow, and with them what was relayed.
LEMMA CountsStep ==
    ASSUME TypeOK, RowsFit, [Next]_vars, NEW s \in Service
    PROVE  /\ Within(Counted(s)', relayed'[s])
           /\ ~Restart => /\ Within(Counted(s), Counted(s)')
                          /\ \A d \in Direction : Before(s, d)' = Before(s, d)
  <1>0. /\ Counted(s) \in Counts /\ relayed[s] \in Counts
        /\ \A d \in Direction : /\ Counted(s)[d] \in Nat /\ relayed[s][d] \in Nat
                                /\ Counted(s)[d] <= relayed[s][d]
    BY CountedIsCounts DEF RowsFit, Within, Counts
  <1>1. ASSUME Counted(s)' = Counted(s), relayed'[s] = relayed[s]
        PROVE  /\ Within(Counted(s)', relayed'[s]) /\ Within(Counted(s), Counted(s)')
               /\ \A d \in Direction : Before(s, d)' = Before(s, d)
    BY <1>0, <1>1 DEF Within, Before
  <1>2. ASSUME NEW z \in Service, NEW c \in Client, Accept(z, c)
        PROVE  Counted(s)' = Counted(s) /\ relayed'[s] = relayed[s]
    <2>1. counters' = [counters EXCEPT ![z] = IF @ = None THEN Zero ELSE @] /\ relayed' = relayed
      BY <1>2 DEF Accept
    <2>2. counters \in [Service -> Counts \cup {None}] /\ Zero \in Counts /\ Zero # None
      BY CountsAssumption DEF TypeOK, Samples, Zero, Counts
    <2> QED
      BY <2>1, <2>2 DEF Counted
  <1>3. ASSUME NEW z \in Service, NEW e \in Direction, Relay(z, e)
        PROVE  /\ Within(Counted(s)', relayed'[s]) /\ Within(Counted(s), Counted(s)')
               /\ \A d \in Direction : Before(s, d)' = Before(s, d)
    <2>1. CASE z = s
      <3>1. /\ counters[s] \in Counts /\ counters' \in Samples
            /\ counters'[s] = [counters[s] EXCEPT ![e] = @ + 1]
            /\ relayed'[s] = [relayed[s] EXCEPT ![e] = @ + 1]
        BY <1>3, <2>1, RelayCounts DEF TypeOK, Samples
      <3>2. counters[s] # None /\ counters'[s] \in Counts /\ counters'[s] # None
        <4>1. [counters[s] EXCEPT ![e] = @ + 1] \in Counts
          BY <3>1 DEF Counts
        <4> QED
          BY <3>1, <4>1, CountsAssumption
      <3>3. Counted(s) = counters[s] /\ Counted(s)' = counters'[s]
        BY <3>2 DEF Counted
      <3>4. \A d \in Direction : /\ Counted(s)'[d] = IF d = e THEN Counted(s)[d] + 1 ELSE Counted(s)[d]
                                /\ relayed'[s][d] = IF d = e THEN relayed[s][d] + 1 ELSE relayed[s][d]
        BY <1>0, <3>1, <3>3 DEF Counts
      <3> QED
        BY <1>0, <3>4 DEF Within, Before
    <2>2. CASE z # s
      <3>1. counters'[s] = counters[s] /\ relayed'[s] = relayed[s]
        BY <1>3, <2>2, RelayCounts DEF TypeOK, Samples
      <3> QED
        BY <1>1, <3>1 DEF Counted
    <2> QED
      BY <2>1, <2>2
  <1>4. CASE Restart
    <2>1. counters'[s] = None /\ relayed' = relayed
      BY <1>4 DEF Restart
    <2>2. Counted(s)' = Zero
      BY <2>1 DEF Counted
    <2> QED
      BY <1>0, <1>4, <2>1, <2>2 DEF Within, Zero
  <1>5. ASSUME UNCHANGED <<counters, relayed>>
        PROVE  Counted(s)' = Counted(s) /\ relayed'[s] = relayed[s]
    BY <1>5 DEF Counted
  <1> QED
    BY <1>1, <1>2, <1>3, <1>4, <1>5
    DEF Next, BeginFlush, Merge, SendChunk, SendFails, Acknowledged, AnswerIsLost, GivesUp,
        Ingests, IngestStops, Unheard, Redeploys, OnServer, vars, flowVars

\* A sample that waits after a step waited before, or is the newest there is.
LEMMA WaitingStep ==
    ASSUME TypeOK, TypeOK', RowsFit, [Next]_vars, NEW s \in Service, NEW w \in Waiting(s)'
    PROVE  w \in Counts /\ (w \in Waiting(s) \/ w = Counted(s)')
  <1>1. PICK row \in Held' : row.service = s /\ row.client = 0 /\ w = row.counts
    BY DEF Waiting
  <1>2. CASE row \in Held
    <2>1. row \in Row
      BY <1>2 DEF Held, TypeOK
    <2>2. w \in Waiting(s) /\ w # None /\ w \in Counts \cup {None}
      BY <1>1, <1>2, <2>1 DEF Waiting, RowsFit, Row
    <2> QED
      BY <2>2
  <1>3. CASE row \notin Held
    <2>0. row.counts # None /\ row.counts = counters'[row.service]
      BY <1>1, <1>3, HeldStep
    <2>1. w = counters'[s] /\ counters'[s] # None /\ counters'[s] \in Counts \cup {None}
      BY <1>1, <2>0 DEF TypeOK, Samples
    <2> QED
      BY <2>1 DEF Counted
  <1> QED
    BY <1>2, <1>3

\* Every step keeps the rows within what was counted, and that within what was relayed.
LEMMA RowsFitStep ==
    ASSUME TypeOK, TypeOK', RowsFit, [Next]_vars
    PROVE  RowsFit'
  <1>1. \A row \in Held' : row.client = 0 => row.counts # None
    BY HeldStep DEF RowsFit
  <1>2. KeysDiffer(buffer)' /\ (flush' # "merging" => pending' = {})
    BY HeldStep DEF KeysDiffer
  <1>3. ASSUME NEW s \in Service, NEW w \in Waiting(s)'
        PROVE  Within(w, Counted(s)')
    <2>1. w \in Counts /\ (w \in Waiting(s) \/ w = Counted(s)')
      BY <1>3, WaitingStep
    <2>2. Counted(s) \in Counts
      BY CountedIsCounts
    <2>3. Counted(s)' \in Counts
      BY DEF Counted, TypeOK, Samples, Zero, Counts
    <2>4. CASE Restart
      <3>1. Waiting(s)' = {}
        BY <2>4 DEF Restart, Waiting, Held
      <3> QED
        BY <1>3, <3>1
    <2>5. CASE ~Restart /\ w \in Waiting(s)
      <3>1. Within(w, Counted(s)) /\ Within(Counted(s), Counted(s)')
        BY <2>5, CountsStep DEF RowsFit
      <3> QED
        BY <2>1, <2>2, <2>3, <3>1 DEF Within, Counts
    <2>6. CASE w = Counted(s)'
      BY <2>3, <2>6 DEF Within, Counts
    <2> QED
      BY <2>1, <2>4, <2>5, <2>6
  <1>4. \A s \in Service : Within(Counted(s), relayed[s])'
    BY CountsStep DEF Within
  <1> QED
    BY <1>1, <1>2, <1>3, <1>4 DEF RowsFit, Within

-----------------------------------------------------------------------------
(* What is settled.                                                        *)

\* The share of an account that ingest i has billed and not stored.
Share(i, s, d) == IF s \in BilledBy(i) THEN Delta(i.samples[s], i.last[s])[d] ELSE 0

\* A request that rests has billed nothing and has nothing to store.
LEMMA RestingIsIdle == BilledBy(Resting) = {} /\ AheadOf(Resting) = {} /\ Resting.step = "idle"
  BY DEF BilledBy, AheadOf, Resting

\* With one ingest, what is billed and not stored is its own difference.
LEMMA UnderwayAlone ==
    ASSUME NEW ing, NEW q \in Request, \A r \in Request \ {q} : ing[r] = Resting, NEW s, NEW d
    PROVE  Underway(ing, s, d) = Share(ing[q], s, d)
  <1>1. \A r \in Request : s \in BilledBy(ing[r]) => r = q
    BY RestingIsIdle
  <1> QED
    BY <1>1 DEF Underway, Share

\* That share is a number.
LEMMA ShareIsInt ==
    ASSUME LedgerTypeOK, \A q \in Request : WorksOnReported(q), NEW q \in Request, NEW s \in Service,
           NEW d \in Direction
    PROVE  Share(ingest[q], s, d) \in Nat
  <1>1. CASE s \in BilledBy(ingest[q])
    <2>1. s \in Reported(q)
      BY <1>1 DEF BilledBy, WorksOnReported
    <2>2. DeltaOf(q, s) \in Counts
      BY <2>1, DeltaOfIsCounts
    <2> QED
      BY <1>1, <2>2 DEF Share, DeltaOf, Counts
  <1> QED
    BY <1>1 DEF Share

\* So is what is accounted for,
LEMMA AccountIsInt ==
    ASSUME LedgerTypeOK, NEW s \in Service, NEW d \in Direction
    PROVE  /\ billed[s][d] \in Nat /\ foreign[s][d] \in Nat /\ unsaved[s][d] \in Nat
           /\ Accounted(s, d) = billed[s][d] + foreign[s][d] /\ Accounted(s, d) \in Nat
  BY DEF LedgerTypeOK, Counts, Accounted

\* and what of it is settled.
LEMMA SettledIsInt ==
    ASSUME LedgerTypeOK, \A q \in Request : WorksOnReported(q), Alone, NEW s \in Service, NEW d \in Direction
    PROVE  Settled(s, d) \in Int
  <1>1. Underway(ingest, s, d) \in Int
    <2>1. CASE \E q \in Request : s \in BilledBy(ingest[q])
      <3>1. PICK q \in Request : s \in BilledBy(ingest[q])
        BY <2>1
      <3>2. \A r \in Request \ {q} : ingest[r] = Resting
        BY <3>1, RestingIsIdle DEF Alone
      <3> QED
        BY <3>2, UnderwayAlone, ShareIsInt
    <2>2. CASE ~\E q \in Request : s \in BilledBy(ingest[q])
      BY <2>2 DEF Underway
    <2> QED
      BY <2>1, <2>2
  <1> QED
    BY <1>1, AccountIsInt DEF Settled

\* Around a step of one ingest the others rest.
LEMMA OthersRest ==
    ASSUME Alone, Alone', NEW q \in Request, \A r \in Request \ {q} : ingest'[r] = ingest[r],
           ingest[q] # Resting \/ ingest'[q] # Resting
    PROVE  \A r \in Request \ {q} : ingest[r] = Resting /\ ingest'[r] = Resting
  BY DEF Alone

\* What a step of ingest q adds to what is settled.
LEMMA SettledChange ==
    ASSUME Alone, Alone', NEW q \in Request, \A r \in Request \ {q} : ingest'[r] = ingest[r],
           ingest[q] # Resting \/ ingest'[q] # Resting, NEW s \in Service, NEW d \in Direction
    PROVE  /\ Settled(s, d) = Accounted(s, d) - unsaved[s][d] - Share(ingest[q], s, d)
           /\ Settled(s, d)' = Accounted(s, d)' - unsaved'[s][d] - Share(ingest'[q], s, d)
  <1>1. \A r \in Request \ {q} : ingest[r] = Resting /\ ingest'[r] = Resting
    BY OthersRest
  <1>2. Underway(ingest, s, d) = Share(ingest[q], s, d) /\ Underway(ingest', s, d) = Share(ingest'[q], s, d)
    BY <1>1, UnderwayAlone
  <1> QED
    BY <1>2 DEF Settled

\* A stored counter settles what was counted since the last one.
LEMMA SettledStores ==
    ASSUME LedgerTypeOK, \A q \in Request : WorksOnReported(q), Alone, Alone',
           NEW q \in Request, NEW s \in Service, StoreCounter(q, s), NEW d \in Direction
    PROVE  Settled(s, d)' = Settled(s, d) + DeltaOf(q, s)[d]
  <1>1. /\ ingest[q].step = "storing" /\ s \in ingest[q].todo
        /\ foreign' = IF s \in ingest[q].owned THEN foreign
                      ELSE [foreign EXCEPT ![s] = Plus(@, DeltaOf(q, s))]
        /\ ingest' = [ingest EXCEPT ![q].todo = @ \ {s}]
        /\ billed' = billed /\ unsaved' = unsaved
    BY DEF StoreCounter
  <1>2. /\ ingest \in [Request -> Ingest] /\ ingest[q] \in Ingest
        /\ ingest'[q] = [ingest[q] EXCEPT !.todo = @ \ {s}]
        /\ \A r \in Request \ {q} : ingest'[r] = ingest[r]
    BY <1>1 DEF LedgerTypeOK
  <1>3. ingest[q] # Resting
    BY <1>1, RestingIsIdle
  <1>4. /\ Settled(s, d) = Accounted(s, d) - unsaved[s][d] - Share(ingest[q], s, d)
        /\ Settled(s, d)' = Accounted(s, d)' - unsaved'[s][d] - Share(ingest'[q], s, d)
    BY <1>2, <1>3, SettledChange
  <1>5. DeltaOf(q, s) \in Counts /\ DeltaOf(q, s)[d] \in Nat
    BY <1>1, DeltaOfIsCounts DEF WorksOnReported, Counts
  <1>6. ingest'[q].step = "storing" /\ s \notin ingest'[q].todo
    BY <1>1, <1>2 DEF Ingest
  <1>7. Share(ingest'[q], s, d) = 0
    BY <1>6 DEF Share, BilledBy
  <1>8. CASE s \in ingest[q].owned
    <2>1. Share(ingest[q], s, d) = DeltaOf(q, s)[d]
      BY <1>1, <1>8 DEF Share, BilledBy, DeltaOf
    <2>2. Accounted(s, d)' = Accounted(s, d)
      BY <1>1, <1>8 DEF Accounted
    <2> QED
      BY <1>1, <1>4, <1>5, <1>7, <2>1, <2>2, AccountIsInt
  <1>9. CASE s \notin ingest[q].owned
    <2>1. Share(ingest[q], s, d) = 0
      BY <1>1, <1>9 DEF Share, BilledBy
    <2>2. foreign[s] \in Counts /\ foreign'[s] = Plus(foreign[s], DeltaOf(q, s))
      BY <1>1, <1>9 DEF LedgerTypeOK
    <2>3. foreign'[s][d] = foreign[s][d] + DeltaOf(q, s)[d]
      BY <1>5, <2>2, PlusIsCounts
    <2>4. Accounted(s, d)' = Accounted(s, d) + DeltaOf(q, s)[d]
      BY <1>1, <1>5, <2>3, AccountIsInt DEF Accounted
    <2> QED
      BY <1>1, <1>4, <1>5, <1>7, <2>1, <2>4, AccountIsInt
  <1> QED
    BY <1>8, <1>9

\* Nothing else changes what is settled: billing is settled when it is stored,
\* and what an ingest that ends leaves behind is excused.
LEMMA SettledStays ==
    ASSUME LedgerTypeOK, \A q \in Request : WorksOnReported(q), BillsOwned, Alone, Alone',
           [LedgerNext]_ledgerVars, NEW s \in Service, \A q \in Request : ~StoreCounter(q, s), NEW d \in Direction
    PROVE  Settled(s, d)' = Settled(s, d)
  <1>0. ingest \in [Request -> Ingest] /\ \A q \in Request : ingest[q] \in Ingest
    BY DEF LedgerTypeOK
  <1>1. ASSUME NEW q \in Request, \A r \in Request \ {q} : ingest'[r] = ingest[r],
               ingest[q] # Resting \/ ingest'[q] # Resting,
               Accounted(s, d)' = Accounted(s, d), unsaved'[s][d] = unsaved[s][d],
               Share(ingest'[q], s, d) = Share(ingest[q], s, d)
        PROVE  Settled(s, d)' = Settled(s, d)
    BY <1>1, SettledChange
  <1>2. ASSUME UNCHANGED <<billed, foreign, unsaved>>
        PROVE  Accounted(s, d)' = Accounted(s, d) /\ unsaved'[s][d] = unsaved[s][d]
    BY <1>2 DEF Accounted
  <1>3. ASSUME NEW q \in Request, NEW samples \in Samples, Receive(q, samples)
        PROVE  Settled(s, d)' = Settled(s, d)
    <2> DEFINE new == [Resting EXCEPT !.step = IF samples = NoSamples THEN "answering" ELSE "entering",
                                      !.samples = samples]
    <2>1. ingest[q] = Resting /\ ingest' = [ingest EXCEPT ![q] = new] /\ UNCHANGED <<billed, foreign, unsaved>>
      BY <1>3 DEF Receive
    <2>2. new.step \in {"answering", "entering"}
      BY DEF Resting
    <2>3. BilledBy(new) = {} /\ new # Resting
      BY <2>2, RestingIsIdle DEF BilledBy
    <2> HIDE DEF new
    <2>4. ingest'[q] = new /\ \A r \in Request \ {q} : ingest'[r] = ingest[r]
      BY <1>0, <2>1
    <2>5. Share(ingest'[q], s, d) = Share(ingest[q], s, d)
      BY <2>1, <2>3, <2>4, RestingIsIdle DEF Share
    <2> QED
      BY <1>1, <1>2, <2>1, <2>3, <2>4, <2>5
  <1>4. ASSUME NEW q \in Request, ReadTunnels(q) \/ ReadCounters(q)
        PROVE  Settled(s, d)' = Settled(s, d)
    <2>1. /\ ingest[q].step \in {"entering", "reading"} /\ ingest'[q].step \in {"reading", "gating"}
          /\ \A r \in Request \ {q} : ingest'[r] = ingest[r]
          /\ UNCHANGED <<billed, foreign, unsaved>>
      BY <1>0, <1>4 DEF ReadTunnels, ReadCounters, Ingest
    <2>2. BilledBy(ingest[q]) = {} /\ BilledBy(ingest'[q]) = {} /\ ingest[q] # Resting
      BY <2>1, RestingIsIdle DEF BilledBy
    <2> QED
      BY <1>1, <1>2, <2>1, <2>2 DEF Share
  <1>5. ASSUME NEW q \in Request, ReadGate(q)
        PROVE  Settled(s, d)' = Settled(s, d)
    <2>1. /\ ingest[q].step = "gating" /\ ingest'[q].step = "billing" /\ ingest'[q].owned = ingest'[q].todo
          /\ \A r \in Request \ {q} : ingest'[r] = ingest[r]
          /\ UNCHANGED <<billed, foreign, unsaved>>
      BY <1>0, <1>5, PhaseNames DEF ReadGate, Ingest
    <2>2. BilledBy(ingest[q]) = {} /\ BilledBy(ingest'[q]) = {} /\ ingest[q] # Resting
      BY <2>1, RestingIsIdle DEF BilledBy
    <2> QED
      BY <1>1, <1>2, <2>1, <2>2 DEF Share
  <1>6. ASSUME NEW q \in Request, NEW z \in Service, Bill(q, z)
        PROVE  Settled(s, d)' = Settled(s, d)
    <2>1. /\ ingest[q].step = "billing" /\ z \in ingest[q].todo
          /\ billed' = [billed EXCEPT ![z] = Plus(@, DeltaOf(q, z))]
          /\ ingest' = [ingest EXCEPT ![q].todo = @ \ {z}]
          /\ foreign' = foreign /\ unsaved' = unsaved
      BY <1>6 DEF Bill
    <2>2. /\ ingest'[q] = [ingest[q] EXCEPT !.todo = @ \ {z}]
          /\ \A r \in Request \ {q} : ingest'[r] = ingest[r]
      BY <1>0, <2>1
    <2>3. /\ ingest'[q].step = "billing" /\ ingest'[q].todo = ingest[q].todo \ {z}
          /\ ingest'[q].owned = ingest[q].owned /\ ingest'[q].samples = ingest[q].samples
          /\ ingest'[q].last = ingest[q].last
      BY <1>0, <2>1, <2>2 DEF Ingest
    <2>4. ingest[q] # Resting
      BY <2>1, RestingIsIdle
    <2>5. CASE z = s /\ s \in ingest[q].owned
      <3>1. Share(ingest[q], s, d) = 0 /\ Share(ingest'[q], s, d) = DeltaOf(q, s)[d]
        BY <2>1, <2>3, <2>5 DEF Share, BilledBy, DeltaOf
      <3>2. DeltaOf(q, s) \in Counts /\ DeltaOf(q, s)[d] \in Nat
        BY <2>1, <2>5, DeltaOfIsCounts DEF WorksOnReported, Counts
      <3>3. billed'[s] = Plus(billed[s], DeltaOf(q, s)) /\ billed[s] \in Counts
        BY <2>1, <2>5 DEF LedgerTypeOK
      <3>4. Accounted(s, d)' = Accounted(s, d) + DeltaOf(q, s)[d]
        BY <2>1, <3>2, <3>3, PlusIsCounts, AccountIsInt DEF Accounted
      <3> QED
        <4>1. /\ Settled(s, d) = Accounted(s, d) - unsaved[s][d] - Share(ingest[q], s, d)
              /\ Settled(s, d)' = Accounted(s, d)' - unsaved'[s][d] - Share(ingest'[q], s, d)
          BY <2>2, <2>4, SettledChange
        <4> QED
          BY <2>1, <3>1, <3>2, <3>4, <4>1, AccountIsInt
    <2>6. CASE z # s
      <3>1. billed'[s] = billed[s]
        BY <2>1, <2>6 DEF LedgerTypeOK
      <3>2. Share(ingest'[q], s, d) = Share(ingest[q], s, d)
        BY <2>1, <2>3, <2>6 DEF Share, BilledBy
      <3> QED
        BY <1>1, <2>1, <2>2, <2>4, <3>1, <3>2 DEF Accounted
    <2>7. z = s => s \in ingest[q].owned
      BY <2>1 DEF BillsOwned
    <2> QED
      BY <2>5, <2>6, <2>7
  <1>7. ASSUME NEW q \in Request, NEW z \in Service, StoreCounter(q, z)
        PROVE  Settled(s, d)' = Settled(s, d)
    <2>1. /\ ingest[q].step = "storing" /\ z # s
          /\ foreign' = IF z \in ingest[q].owned THEN foreign
                        ELSE [foreign EXCEPT ![z] = Plus(@, DeltaOf(q, z))]
          /\ ingest' = [ingest EXCEPT ![q].todo = @ \ {z}]
          /\ billed' = billed /\ unsaved' = unsaved
      BY <1>7 DEF StoreCounter
    <2>2. /\ ingest'[q] = [ingest[q] EXCEPT !.todo = @ \ {z}]
          /\ \A r \in Request \ {q} : ingest'[r] = ingest[r]
      BY <1>0, <2>1
    <2>3. /\ ingest'[q].step = "storing" /\ ingest'[q].todo = ingest[q].todo \ {z}
          /\ ingest'[q].owned = ingest[q].owned /\ ingest'[q].samples = ingest[q].samples
          /\ ingest'[q].last = ingest[q].last
      BY <1>0, <2>1, <2>2 DEF Ingest
    <2>4. Share(ingest'[q], s, d) = Share(ingest[q], s, d)
      BY <2>1, <2>3 DEF Share, BilledBy
    <2>5. ingest[q] # Resting
      BY <2>1, RestingIsIdle
    <2>6. foreign'[s] = foreign[s]
      BY <2>1 DEF LedgerTypeOK
    <2> QED
      BY <1>1, <2>1, <2>2, <2>4, <2>5, <2>6 DEF Accounted
  <1>8. ASSUME NEW q \in Request, PhaseDone(q)
        PROVE  Settled(s, d)' = Settled(s, d)
    <2>1. /\ ingest[q].step \in {"billing", "storing"} /\ ingest[q].todo = {}
          /\ ingest' = IF ingest[q].step = "storing"
                       THEN [ingest EXCEPT ![q] = [Resting EXCEPT !.step = "answering"]]
                       ELSE [ingest EXCEPT ![q].step = "storing", ![q].todo = Reported(q)]
          /\ UNCHANGED <<billed, foreign, unsaved>>
      BY <1>8, PhaseNames DEF PhaseDone
    <2>2. ingest[q] # Resting /\ \A r \in Request \ {q} : ingest'[r] = ingest[r]
      BY <1>0, <2>1, RestingIsIdle
    <2>3. CASE ingest[q].step = "storing"
      <3>1. ingest'[q] = [Resting EXCEPT !.step = "answering"]
        BY <1>0, <2>1, <2>3
      <3>2. ingest'[q].step = "answering"
        BY <3>1 DEF Resting
      <3>3. BilledBy(ingest[q]) = {} /\ BilledBy(ingest'[q]) = {}
        BY <2>1, <2>3, <3>2 DEF BilledBy
      <3> QED
        BY <1>1, <1>2, <2>1, <2>2, <3>3 DEF Share
    <2>4. CASE ingest[q].step = "billing"
      <3>1. ingest'[q] = [ingest[q] EXCEPT !.step = "storing", !.todo = Reported(q)]
        BY <1>0, <2>1, <2>4
      <3>2. /\ ingest'[q].step = "storing" /\ ingest'[q].todo = Reported(q)
            /\ ingest'[q].owned = ingest[q].owned /\ ingest'[q].samples = ingest[q].samples
            /\ ingest'[q].last = ingest[q].last
        BY <1>0, <3>1 DEF Ingest
      <3>3. ingest[q].owned \subseteq Reported(q)
        BY DEF WorksOnReported
      <3>4. BilledBy(ingest[q]) = BilledBy(ingest'[q])
        BY <2>1, <2>4, <3>2, <3>3 DEF BilledBy
      <3>5. Share(ingest'[q], s, d) = Share(ingest[q], s, d)
        BY <3>2, <3>4 DEF Share
      <3> QED
        BY <1>1, <1>2, <2>1, <2>2, <3>5
    <2> QED
      BY <2>1, <2>3, <2>4
  <1>9. ASSUME NEW q \in Request, NEW step \in {"idle", "answering"}, Stops(q, step),
               ingest[q].step # "idle"
        PROVE  Settled(s, d)' = Settled(s, d)
    <2>1. /\ unsaved' = [z \in Service |->
                           IF z \in BilledOnly(q) THEN Plus(unsaved[z], DeltaOf(q, z)) ELSE unsaved[z]]
          /\ ingest' = [ingest EXCEPT ![q] = [Resting EXCEPT !.step = step]]
          /\ UNCHANGED <<billed, foreign>>
      BY <1>9 DEF Stops
    <2>2. /\ ingest'[q] = [Resting EXCEPT !.step = step] /\ ingest[q] # Resting
          /\ \A r \in Request \ {q} : ingest'[r] = ingest[r]
      BY <1>0, <1>9, <2>1, RestingIsIdle
    <2>3. ingest'[q].step = step
      BY <2>2 DEF Resting
    <2>4. Share(ingest'[q], s, d) = 0
      BY <2>3 DEF Share, BilledBy
    <2>5. BilledOnly(q) = BilledBy(ingest[q])
      BY DEF BilledOnly, BilledBy
    <2>6. Accounted(s, d)' = Accounted(s, d)
      BY <2>1 DEF Accounted
    <2>7. /\ Settled(s, d) = Accounted(s, d) - unsaved[s][d] - Share(ingest[q], s, d)
          /\ Settled(s, d)' = Accounted(s, d)' - unsaved'[s][d] - Share(ingest'[q], s, d)
      BY <2>2, SettledChange
    <2>8. unsaved'[s][d] = unsaved[s][d] + Share(ingest[q], s, d)
      <3>1. CASE s \in BilledOnly(q)
        <4>1. s \in Reported(q)
          BY <3>1 DEF BilledOnly, WorksOnReported
        <4>2. DeltaOf(q, s) \in Counts /\ unsaved[s] \in Counts
          BY <4>1, DeltaOfIsCounts DEF LedgerTypeOK
        <4>3. unsaved'[s] = Plus(unsaved[s], DeltaOf(q, s))
          BY <2>1, <3>1
        <4>4. unsaved'[s][d] = unsaved[s][d] + DeltaOf(q, s)[d]
          BY <4>2, <4>3, PlusIsCounts
        <4> QED
          BY <2>5, <3>1, <4>4 DEF Share, DeltaOf
      <3>2. CASE s \notin BilledOnly(q)
        BY <2>1, <2>5, <3>2, AccountIsInt DEF Share
      <3> QED
        BY <3>1, <3>2
    <2> QED
      BY <2>4, <2>6, <2>7, <2>8, AccountIsInt, ShareIsInt
  <1>10. ASSUME NEW q \in Request, Answered(q)
         PROVE  Settled(s, d)' = Settled(s, d)
    <2>1. /\ ingest[q].step = "answering" /\ ingest'[q] = Resting /\ UNCHANGED <<billed, foreign, unsaved>>
          /\ \A r \in Request \ {q} : ingest'[r] = ingest[r]
      BY <1>0, <1>10 DEF Answered
    <2>2. BilledBy(ingest[q]) = {} /\ ingest[q] # Resting
      BY <2>1, RestingIsIdle DEF BilledBy
    <2> QED
      BY <1>1, <1>2, <2>1, <2>2, RestingIsIdle DEF Share
  <1>11. ASSUME UNCHANGED <<billed, foreign, unsaved, ingest>>
         PROVE  Settled(s, d)' = Settled(s, d)
    BY <1>11 DEF Settled, Accounted
  <1>12. ASSUME NEW q \in Request, IngestFails(q) \/ WorkerDies(q)
         PROVE  Settled(s, d)' = Settled(s, d)
    BY <1>9, <1>12 DEF IngestFails, WorkerDies
  <1> QED
    BY <1>3, <1>4, <1>5, <1>6, <1>7, <1>8, <1>10, <1>11, <1>12
    DEF LedgerNext, Proceeds, RuleMoves, NodeMoves, ledgerVars

-----------------------------------------------------------------------------
(* One ingest at a time.                                                   *)

\* As long as no ingests overlap there is one at most.
LEMMA AloneStep ==
    ASSUME TypeOK, RowsFit, Alone, [Next]_vars, ~overlapped'
    PROVE  Alone'
  <1>0. ingest \in [Request -> Ingest]
    BY DEF TypeOK, LedgerTypeOK
  <1>1. ASSUME NEW q \in Request, SendChunk(q)
        PROVE  Alone'
    <2>1. /\ \A r \in Request : ingest[r] = Resting
          /\ \A r \in Request \ {q} : ingest'[r] = ingest[r]
      BY <1>0, <1>1 DEF SendChunk, Receive
    <2> QED
      BY <2>1 DEF Alone
  <1>2. ASSUME NEW q \in Request, ingest[q] # Resting, \A r \in Request \ {q} : ingest'[r] = ingest[r]
        PROVE  Alone'
    BY <1>2 DEF Alone
  <1>3. ASSUME NEW q \in Request, Proceeds(q) \/ IngestFails(q) \/ WorkerDies(q) \/ Answered(q)
        PROVE  Alone'
    <2>1. ingest[q].step # "idle"
      BY <1>3 DEF Proceeds, ReadTunnels, ReadCounters, ReadGate, Bill, StoreCounter, PhaseDone,
                  IngestFails, WorkerDies, Answered
    <2>2. \A r \in Request \ {q} : ingest'[r] = ingest[r]
      <3>1. CASE Proceeds(q)
        BY <1>0, <3>1 DEF Proceeds, ReadTunnels, ReadCounters, ReadGate, Bill, StoreCounter, PhaseDone
      <3>2. CASE IngestFails(q) \/ WorkerDies(q) \/ Answered(q)
        BY <1>0, <3>2 DEF IngestFails, WorkerDies, Answered, Stops
      <3> QED
        BY <1>3, <3>1, <3>2
    <2> QED
      BY <1>2, <2>1, <2>2, RestingIsIdle
  <1>4. ASSUME ingest' = ingest
        PROVE  Alone'
    BY <1>4 DEF Alone
  <1> QED
    BY <1>1, <1>3, <1>4
    DEF Next, Accept, Relay, BeginFlush, Merge, SendFails, Acknowledged, AnswerIsLost, GivesUp, Restart,
        Ingests, IngestStops, Unheard, Redeploys, RuleMoves, NodeMoves, vars, ledgerVars

\* Bills come from the services that may be billed.
LEMMA BillsOwnedStep ==
    ASSUME LedgerTypeOK, BillsOwned, [LedgerNext]_ledgerVars
    PROVE  BillsOwned'
  <1>0. ingest \in [Request -> Ingest] /\ \A q \in Request : ingest[q] \in Ingest
    BY DEF LedgerTypeOK
  <1>1. ASSUME NEW q \in Request, \A r \in Request \ {q} : ingest'[r] = ingest[r],
               ingest'[q].step = "billing" => ingest'[q].todo \subseteq ingest'[q].owned
        PROVE  BillsOwned'
    BY <1>1 DEF BillsOwned
  <1>2. ASSUME NEW q \in Request, NEW samples \in Samples, Receive(q, samples)
        PROVE  BillsOwned'
    BY <1>0, <1>1, <1>2 DEF Receive, Resting
  <1>3. ASSUME NEW q \in Request, ReadTunnels(q) \/ ReadCounters(q)
        PROVE  BillsOwned'
    BY <1>0, <1>1, <1>3 DEF ReadTunnels, ReadCounters, Ingest
  <1>4. ASSUME NEW q \in Request, ReadGate(q)
        PROVE  BillsOwned'
    BY <1>0, <1>1, <1>4, PhaseNames DEF ReadGate, Ingest
  <1>5. ASSUME NEW q \in Request, NEW s \in Service, Bill(q, s) \/ StoreCounter(q, s)
        PROVE  BillsOwned'
    BY <1>0, <1>1, <1>5 DEF Bill, StoreCounter, Ingest, BillsOwned
  <1>6. ASSUME NEW q \in Request, PhaseDone(q)
        PROVE  BillsOwned'
    BY <1>0, <1>1, <1>6, PhaseNames DEF PhaseDone, Ingest, Resting
  <1>7. ASSUME NEW q \in Request, IngestFails(q) \/ WorkerDies(q) \/ Answered(q)
        PROVE  BillsOwned'
    BY <1>0, <1>1, <1>7 DEF IngestFails, WorkerDies, Answered, Stops, Resting
  <1>8. ASSUME ingest' = ingest
        PROVE  BillsOwned'
    BY <1>8 DEF BillsOwned
  <1> QED
    BY <1>2, <1>3, <1>4, <1>5, <1>6, <1>7, <1>8 DEF LedgerNext, Proceeds, RuleMoves, NodeMoves, ledgerVars

\* What an ingest may yet store after a step it could before, unless it has just
\* arrived; the samples stay, and so do the counts it read.
LEMMA AheadStep ==
    ASSUME LedgerTypeOK, \A q \in Request : WorksOnReported(q), [LedgerNext]_ledgerVars,
           NEW q \in Request, NEW s \in AheadOf(ingest'[q]), \A samples \in Samples : ~Receive(q, samples)
    PROVE  /\ s \in AheadOf(ingest[q]) /\ ingest'[q].samples[s] = ingest[q].samples[s]
           /\ ingest'[q].step \in {"gating", "billing", "storing"} =>
                \/ ReadCounters(q)
                \/ ingest[q].step \in {"gating", "billing", "storing"} /\ ingest'[q].last = ingest[q].last
           /\ ~StoreCounter(q, s)
  <1>0. ingest \in [Request -> Ingest] /\ \A r \in Request : ingest[r] \in Ingest
    BY DEF LedgerTypeOK
  <1> DEFINE Goal == /\ s \in AheadOf(ingest[q]) /\ ingest'[q].samples[s] = ingest[q].samples[s]
                     /\ ingest'[q].step \in {"gating", "billing", "storing"} =>
                          \/ ReadCounters(q)
                          \/ ingest[q].step \in {"gating", "billing", "storing"} /\ ingest'[q].last = ingest[q].last
                     /\ ~StoreCounter(q, s)
  <1> SUFFICES Goal
    OBVIOUS
  <1>1. ASSUME ingest'[q] = ingest[q]
        PROVE  Goal
    <2>1. ~StoreCounter(q, s)
      <3>1. SUFFICES ASSUME StoreCounter(q, s)
                     PROVE  FALSE
        OBVIOUS
      <3>2. s \in ingest[q].todo /\ ingest'[q].todo = ingest[q].todo \ {s}
        BY <1>0, <3>1 DEF StoreCounter, Ingest
      <3> QED
        BY <1>1, <3>2
    <2>2. s \in AheadOf(ingest[q])
      BY <1>1
    <2> QED
      BY <1>1, <2>1, <2>2
  <1>2. CASE ReadTunnels(q)
    BY <1>0, <1>2 DEF ReadTunnels, Ingest, AheadOf, StoreCounter
  <1>3. CASE ReadCounters(q)
    BY <1>0, <1>3 DEF ReadCounters, Ingest, AheadOf, StoreCounter
  <1>4. CASE ReadGate(q)
    BY <1>0, <1>4, PhaseNames DEF ReadGate, Ingest, AheadOf, StoreCounter
  <1>5. ASSUME NEW z \in Service, Bill(q, z)
        PROVE  Goal
    BY <1>0, <1>5 DEF Bill, Ingest, AheadOf, StoreCounter
  <1>6. ASSUME NEW z \in Service, StoreCounter(q, z)
        PROVE  Goal
    <2>1. /\ ingest[q].step = "storing" /\ ingest'[q].step = "storing"
          /\ ingest'[q].todo = ingest[q].todo \ {z} /\ ingest'[q].samples = ingest[q].samples
          /\ ingest'[q].last = ingest[q].last
      BY <1>0, <1>6 DEF StoreCounter, Ingest
    <2>2. s \in ingest[q].todo \ {z} /\ s \in AheadOf(ingest[q])
      BY <2>1 DEF AheadOf
    <2>3. ~StoreCounter(q, s)
      <3>1. SUFFICES ASSUME StoreCounter(q, s)
                     PROVE  FALSE
        OBVIOUS
      <3>2. ingest'[q].todo = ingest[q].todo \ {s}
        BY <1>0, <3>1 DEF StoreCounter, Ingest
      <3> QED
        BY <2>1, <2>2, <3>2
    <2> QED
      BY <2>1, <2>2, <2>3
  <1>7. CASE PhaseDone(q)
    <2>1. /\ ingest[q].step \in {"billing", "storing"} /\ ingest[q].todo = {}
          /\ ingest' = IF ingest[q].step = "storing"
                       THEN [ingest EXCEPT ![q] = [Resting EXCEPT !.step = "answering"]]
                       ELSE [ingest EXCEPT ![q].step = "storing", ![q].todo = Reported(q)]
      BY <1>7, PhaseNames DEF PhaseDone
    <2>2. CASE ingest[q].step = "storing"
      <3>1. ingest'[q].step = "answering"
        BY <1>0, <2>1, <2>2 DEF Resting
      <3> QED
        BY <3>1 DEF AheadOf
    <2>3. CASE ingest[q].step = "billing"
      <3>1. /\ ingest'[q].step = "storing" /\ ingest'[q].todo = Reported(q)
            /\ ingest'[q].samples = ingest[q].samples /\ ingest'[q].last = ingest[q].last
        BY <1>0, <2>1, <2>3 DEF Ingest
      <3>2. s \in Reported(q)
        BY <3>1 DEF AheadOf
      <3>3. s \in AheadOf(ingest[q])
        BY <2>3, <3>2 DEF AheadOf, Reported
      <3> QED
        BY <2>1, <2>3, <3>1, <3>3 DEF StoreCounter
    <2> QED
      BY <2>1, <2>2, <2>3
  <1>8. CASE IngestFails(q) \/ WorkerDies(q) \/ Answered(q)
    <2>1. ingest'[q].step \in {"idle", "answering"}
      BY <1>0, <1>8 DEF IngestFails, WorkerDies, Answered, Stops, Resting
    <2> QED
      BY <2>1 DEF AheadOf
  <1>9. ASSUME NEW r \in Request \ {q}, \/ \E samples \in Samples : Receive(r, samples)
                                        \/ Proceeds(r) \/ IngestFails(r) \/ WorkerDies(r) \/ Answered(r)
        PROVE  ingest'[q] = ingest[q]
    BY <1>0, <1>9 DEF Receive, Proceeds, ReadTunnels, ReadCounters, ReadGate, Bill, StoreCounter, PhaseDone,
                      IngestFails, WorkerDies, Answered, Stops
  <1> HIDE DEF Goal
  <1> QED
    BY <1>1, <1>2, <1>3, <1>4, <1>5, <1>6, <1>7, <1>8, <1>9
    DEF LedgerNext, Proceeds, RuleMoves, NodeMoves, ledgerVars

\* A sample an ingest may yet store carries counts.
LEMMA AheadIsCounts ==
    ASSUME LedgerTypeOK, \A q \in Request : WorksOnReported(q), NEW q \in Request, NEW s \in AheadOf(ingest[q])
    PROVE  s \in Service /\ ingest[q].samples[s] \in Counts /\ s \in Reported(q)
  <1>1. s \in Reported(q)
    BY DEF AheadOf, WorksOnReported, Reported
  <1> QED
    BY <1>1 DEF Reported, LedgerTypeOK, Ingest, Samples

\* An ingest alone has read what is stored, whatever the step.
LEMMA ReadIsStoredStep ==
    ASSUME LedgerTypeOK, \A q \in Request : WorksOnReported(q), Alone, Alone', ReadIsStored, [LedgerNext]_ledgerVars
    PROVE  ReadIsStored'
  <1>0. ingest \in [Request -> Ingest] /\ \A r \in Request : ingest[r] \in Ingest
    BY DEF LedgerTypeOK
  <1> SUFFICES ASSUME NEW q \in Request, ingest'[q].step \in {"gating", "billing", "storing"},
                      NEW s \in AheadOf(ingest'[q])
               PROVE  ingest'[q].last[s] = last'[s]
    BY DEF ReadIsStored
  <1>1. \A samples \in Samples : ~Receive(q, samples)
    <2>1. SUFFICES ASSUME NEW samples \in Samples, Receive(q, samples)
                   PROVE  FALSE
      OBVIOUS
    <2>2. ingest'[q].step \in {"entering", "answering"}
      BY <1>0, <2>1 DEF Receive, Resting
    <2> QED
      BY <2>2
  <1>2. s \in AheadOf(ingest[q]) /\ ~StoreCounter(q, s) /\ s \in Service
    BY <1>1, AheadStep, AheadIsCounts
  <1>3. CASE ReadCounters(q)
    <2>1. ingest'[q].last = last /\ last' = last
      BY <1>0, <1>3 DEF ReadCounters, Ingest
    <2> QED
      BY <2>1
  <1>4. CASE ingest[q].step \in {"gating", "billing", "storing"} /\ ingest'[q].last = ingest[q].last
    <2>1. ingest[q].last[s] = last[s]
      BY <1>2, <1>4 DEF ReadIsStored
    <2>2. last'[s] = last[s]
      <3>1. ASSUME NEW r \in Request, NEW z \in Service, StoreCounter(r, z)
            PROVE  last'[s] = last[s]
        <4>1. r = q
          <5>1. ingest[r] # Resting /\ ingest[q] # Resting
            BY <1>4, <3>1, RestingIsIdle DEF StoreCounter
          <5> QED
            BY <5>1 DEF Alone
        <4>2. z # s /\ last' = [last EXCEPT ![z] = ingest[r].samples[z]]
          BY <1>2, <3>1, <4>1 DEF StoreCounter
        <4> QED
          BY <1>2, <4>2 DEF LedgerTypeOK, Samples
      <3>2. ASSUME last' = last
            PROVE  last'[s] = last[s]
        BY <3>2
      <3> QED
        BY <3>1, <3>2
        DEF LedgerNext, Receive, Proceeds, ReadTunnels, ReadCounters, ReadGate, Bill, PhaseDone, IngestFails, WorkerDies,
            Stops, Answered, RuleMoves, NodeMoves, ledgerVars
    <2> QED
      BY <1>4, <2>1, <2>2
  <1> QED
    BY <1>1, <1>3, <1>4, AheadStep

\* A counter that is not stored stays.
LEMMA LastStays ==
    ASSUME LedgerTypeOK, [LedgerNext]_ledgerVars, NEW s \in Service, \A q \in Request : ~StoreCounter(q, s)
    PROVE  last'[s] = last[s]
  <1>1. ASSUME NEW r \in Request, NEW z \in Service, StoreCounter(r, z)
        PROVE  last'[s] = last[s]
    BY <1>1 DEF StoreCounter, LedgerTypeOK, Samples
  <1>2. ASSUME last' = last
        PROVE  last'[s] = last[s]
    BY <1>2
  <1> QED
    BY <1>1, <1>2
    DEF LedgerNext, Receive, Proceeds, ReadTunnels, ReadCounters, ReadGate, Bill, PhaseDone, IngestFails, WorkerDies,
        Stops, Answered, RuleMoves, NodeMoves, ledgerVars

-----------------------------------------------------------------------------
(* Billed once.                                                            *)

\* The facts about numbers that the steps below rest on.
LEMMA NumbersAreInts ==
    ASSUME TypeOK, \A q \in Request : WorksOnReported(q), Alone, NEW s \in Service
    PROVE  /\ Counted(s) \in Counts /\ last[s] \in Counts \cup {None}
           /\ \A d \in Direction : Settled(s, d) \in Int /\ Before(s, d) \in Int
           /\ \A c \in Counts : Delta(c, last[s]) \in Counts
  <1>1. LedgerTypeOK
    BY DEF TypeOK
  <1>2. last[s] \in Counts \cup {None}
    BY <1>1 DEF LedgerTypeOK, Samples
  <1>3. \A c \in Counts, p \in Counts \cup {None} : Delta(c, p) \in Counts
    BY DEF Delta, Counts
  <1> QED
    BY <1>1, <1>2, <1>3, CountedIsCounts, SettledIsInt

\* A larger count may be stored as well.
LEMMA FollowsUp ==
    ASSUME NEW s \in Service, NEW c \in Counts, NEW e \in Counts, Follows(s, c), Within(c, e),
           last[s] \in Counts \cup {None}
    PROVE  Follows(s, e)
  <1>1. CASE \A d \in Direction : Settled(s, d) <= Before(s, d)
    BY <1>1 DEF Follows
  <1>2. CASE /\ last[s] # None /\ Within(last[s], c)
             /\ \A d \in Direction : Settled(s, d) <= Before(s, d) + last[s][d]
    <2>1. Within(last[s], e)
      BY <1>2 DEF Within, Counts
    <2> QED
      BY <1>2, <2>1 DEF Follows
  <1> QED
    BY <1>1, <1>2 DEF Follows

\* What a count that may be stored adds to the settled account brings it to the
\* count at most (the difference of ingestTraffic, traffic.ts:149-155).
LEMMA FollowsAdds ==
    ASSUME TypeOK, \A q \in Request : WorksOnReported(q), Alone, NEW s \in Service, NEW c \in Counts, Follows(s, c)
    PROVE  \A d \in Direction : Settled(s, d) + Delta(c, last[s])[d] <= Before(s, d) + c[d]
  <1>0. /\ last[s] \in Counts \cup {None} /\ Delta(c, last[s]) \in Counts
        /\ \A d \in Direction : Settled(s, d) \in Int /\ Before(s, d) \in Int /\ c[d] \in Nat
    BY NumbersAreInts DEF Counts
  <1>1. CASE \A d \in Direction : Settled(s, d) <= Before(s, d)
    <2>1. \A d \in Direction : Delta(c, last[s])[d] <= c[d] /\ Delta(c, last[s])[d] \in Nat
      <3>1. CASE last[s] # None /\ \A d \in Direction : c[d] >= last[s][d]
        <4>1. Delta(c, last[s]) = [d \in Direction |-> c[d] - last[s][d]]
          BY <3>1 DEF Delta
        <4>2. \A d \in Direction : c[d] - last[s][d] <= c[d] /\ c[d] - last[s][d] \in Nat
          BY <1>0, <3>1 DEF Counts
        <4> QED
          BY <4>1, <4>2
      <3>2. CASE ~(last[s] # None /\ \A d \in Direction : c[d] >= last[s][d])
        <4>1. Delta(c, last[s]) = c
          BY <3>2 DEF Delta
        <4> QED
          BY <1>0, <4>1
      <3> QED
        BY <3>1, <3>2
    <2> QED
      BY <1>0, <1>1, <2>1
  <1>2. CASE /\ last[s] # None /\ Within(last[s], c)
             /\ \A d \in Direction : Settled(s, d) <= Before(s, d) + last[s][d]
    <2>1. /\ last[s] \in Counts /\ \A d \in Direction : last[s][d] \in Nat /\ c[d] >= last[s][d]
      BY <1>0, <1>2 DEF Within, Counts
    <2>2. Delta(c, last[s]) = [d \in Direction |-> c[d] - last[s][d]]
      BY <1>2, <2>1 DEF Delta
    <2> QED
      BY <1>0, <1>2, <2>1, <2>2
  <1> QED
    BY <1>1, <1>2 DEF Follows

\* In the buffer there is one sample of a service to be billed.
LEMMA ChunkIsNewest ==
    ASSUME TypeOK, RowsFit, flush = "sending", NEW s \in Service, ChunkSamples[s] # None, NEW w \in Waiting(s)
    PROVE  w = ChunkSamples[s]
  <1>1. pending = {}
    BY DEF RowsFit
  <1> DEFINE rows == {i \in 1 .. ChunkLength : buffer[i].service = s /\ buffer[i].client = 0}
             k == CHOOSE x \in rows : TRUE
  <1>2. ChunkSamples[s] = IF rows = {} THEN None ELSE buffer[k].counts
    BY DEF ChunkSamples
  <1>3. k \in 1 .. Len(buffer) /\ buffer[k].service = s /\ buffer[k].client = 0 /\ ChunkSamples[s] = buffer[k].counts
    BY <1>2, ChunkLengthFits DEF TypeOK
  <1>4. PICK i \in 1 .. Len(buffer) : buffer[i].service = s /\ buffer[i].client = 0 /\ w = buffer[i].counts
    BY <1>1 DEF Waiting, Held
  <1>5. i = k
    BY <1>3, <1>4 DEF RowsFit, KeysDiffer, SameKey
  <1> QED
    BY <1>3, <1>4, <1>5

\* Most steps leave what is settled and what is stored alone, and the agent's
\* samples only move: into the buffer, into an upload, out of sight.
LEMMA OnceStays ==
    ASSUME TypeOK, TypeOK', \A q \in Request : WorksOnReported(q), Alone, RowsFit, NEW s \in Service, OnceFor(s),
           \A d \in Direction : Settled(s, d)' = Settled(s, d),
           \A d \in Direction : Before(s, d)' = Before(s, d),
           last'[s] = last[s],
           Within(Counted(s), Counted(s)'),
           \A w \in Waiting(s)' : w \in Counts /\ (w \in Waiting(s) \/ w = Counted(s)'),
           \A q \in Request : s \in AheadOf(ingest'[q]) =>
              \/ s \in AheadOf(ingest[q]) /\ ingest'[q].samples[s] = ingest[q].samples[s]
              \/ /\ ingest'[q].samples[s] \in Waiting(s) /\ ingest'[q].samples[s] \in Counts
                 /\ \A w \in Waiting(s)' : w = ingest'[q].samples[s]
    PROVE  OnceFor(s)'
  <1>0. Counted(s) \in Counts /\ last[s] \in Counts \cup {None}
    BY NumbersAreInts
  <1>1. Counted(s)' \in Counts
    BY DEF Counted, TypeOK, Samples, Zero, Counts
  <1>2. ASSUME NEW c, Follows(s, c)
        PROVE  Follows(s, c)'
    BY <1>2 DEF Follows
  <1>3. Follows(s, Counted(s)')
    BY <1>0, <1>1, FollowsUp DEF OnceFor
  <1>4. Follows(s, Counted(s))'
    BY <1>3 DEF Follows
  <1>5. ASSUME NEW w \in Waiting(s)'
        PROVE  Follows(s, w)'
    <2>1. Follows(s, w)
      BY <1>3, <1>5 DEF OnceFor
    <2> QED
      BY <1>2, <2>1
  <1>6. ASSUME NEW q \in Request, s \in AheadOf(ingest'[q])
        PROVE  Fits(q, s)'
    <2>0. PICK c : c = ingest'[q].samples[s]
      OBVIOUS
    <2> SUFFICES Stale(s, c)' \/ Current(s, c)'
      BY <2>0 DEF Fits, Stale, Current, Follows, Within
    <2>1. CASE s \in AheadOf(ingest[q]) /\ c = ingest[q].samples[s]
      <3>1. c \in Counts /\ Fits(q, s)
        BY <2>1, AheadIsCounts DEF TypeOK, OnceFor
      <3>2. CASE Stale(s, ingest[q].samples[s])
        BY <2>1, <3>2 DEF Stale
      <3>3. CASE Current(s, ingest[q].samples[s])
        <4>1. Within(c, Counted(s)) /\ Follows(s, c) /\ \A w \in Waiting(s) : Within(c, w)
          BY <2>1, <3>3 DEF Current
        <4>2. Within(c, Counted(s)')
          BY <1>0, <1>1, <3>1, <4>1 DEF Within, Counts
        <4>3. \A w \in Waiting(s)' : Within(c, w)
          BY <4>1, <4>2
        <4>4. /\ \A d \in Direction : Settled(s, d)' = Settled(s, d) /\ Before(s, d)' = Before(s, d)
              /\ last'[s] = last[s]
          OBVIOUS
        <4> QED
          BY <4>1, <4>2, <4>3, <4>4 DEF Current, Follows, Within
      <3> QED
        BY <2>1, <3>1, <3>2, <3>3 DEF Fits
    <2>2. CASE c \in Waiting(s) /\ c \in Counts /\ \A w \in Waiting(s)' : w = c
      <3>1. Within(c, Counted(s)) /\ Follows(s, c)
        BY <2>2 DEF OnceFor, RowsFit
      <3>2. Within(c, Counted(s)')
        BY <1>0, <1>1, <2>2, <3>1 DEF Within, Counts
      <3>3. \A w \in Waiting(s)' : Within(c, w)
        BY <2>2 DEF Within, Counts
      <3>4. /\ \A d \in Direction : Settled(s, d)' = Settled(s, d) /\ Before(s, d)' = Before(s, d)
            /\ last'[s] = last[s]
        OBVIOUS
      <3> QED
        BY <3>1, <3>2, <3>3, <3>4 DEF Current, Follows, Within
    <2> QED
      BY <1>6, <2>0, <2>1, <2>2
  <1> QED
    BY <1>4, <1>5, <1>6 DEF OnceFor

\* How a step touches an ingest.
LEMMA WhoMoves ==
    ASSUME TypeOK, [Next]_vars, NEW q \in Request
    PROVE  \/ ingest'[q] = ingest[q]
           \/ SendChunk(q)
           \/ Answered(q)
           \/ OnServer /\ (Proceeds(q) \/ IngestFails(q) \/ WorkerDies(q))
  <1>0. ingest \in [Request -> Ingest]
    BY DEF TypeOK, LedgerTypeOK
  <1>1. ASSUME NEW r \in Request \ {q}, SendChunk(r)
        PROVE  ingest'[q] = ingest[q]
    BY <1>0, <1>1 DEF SendChunk, Receive
  <1>2. ASSUME NEW r \in Request \ {q}, Answered(r)
        PROVE  ingest'[q] = ingest[q]
    BY <1>0, <1>2 DEF Answered
  <1>3. ASSUME NEW r \in Request \ {q}, Proceeds(r)
        PROVE  ingest'[q] = ingest[q]
    BY <1>0, <1>3 DEF Proceeds, ReadTunnels, ReadCounters, ReadGate, Bill, StoreCounter, PhaseDone
  <1>4. ASSUME NEW r \in Request \ {q}, IngestFails(r) \/ WorkerDies(r)
        PROVE  ingest'[q] = ingest[q]
    BY <1>0, <1>4 DEF IngestFails, WorkerDies, Stops
  <1>5. ASSUME ingest' = ingest
        PROVE  ingest'[q] = ingest[q]
    BY <1>5
  <1> QED
    BY <1>1, <1>2, <1>3, <1>4, <1>5
    DEF Next, Accept, Relay, BeginFlush, Merge, SendFails, Acknowledged, AnswerIsLost, GivesUp, Restart,
        Ingests, IngestStops, Unheard, Redeploys, RuleMoves, NodeMoves, vars, ledgerVars

\* Counters are stored while the agent does nothing.
LEMMA StoresOnServer ==
    ASSUME TypeOK, [Next]_vars, NEW q \in Request, NEW s \in Service, StoreCounter(q, s)
    PROVE  OnServer
  <1>1. /\ ingest[q].step = "storing" /\ ingest'[q].step = "storing"
        /\ s \in ingest[q].todo /\ s \notin ingest'[q].todo
    BY DEF StoreCounter, TypeOK, LedgerTypeOK, Ingest
  <1>2. ~SendChunk(q) /\ ~Answered(q)
    BY <1>1, RestingIsIdle DEF SendChunk, Answered
  <1> QED
    BY <1>1, <1>2, WhoMoves

\* What arrives is a chunk.
LEMMA ArrivalsAreChunks ==
    ASSUME TypeOK, [Next]_vars, NEW q \in Request, NEW samples \in Samples, Receive(q, samples)
    PROVE  SendChunk(q)
  <1>1. ingest[q].step = "idle" /\ ingest'[q].step \in {"entering", "answering"}
    BY RestingIsIdle DEF Receive, TypeOK, LedgerTypeOK, Resting
  <1>2. ingest'[q] # ingest[q]
    BY <1>1
  <1>3. ~Answered(q) /\ ~Proceeds(q) /\ ~IngestFails(q) /\ ~WorkerDies(q)
    BY <1>1 DEF Answered, Proceeds, ReadTunnels, ReadCounters, ReadGate, Bill, StoreCounter, PhaseDone,
                IngestFails, WorkerDies
  <1> QED
    BY <1>2, <1>3, WhoMoves

\* A counter is stored: the account is settled up to it, or up to the agent's start.
LEMMA OnceStores ==
    ASSUME TypeOK, TypeOK', \A q \in Request : WorksOnReported(q), Alone, Alone', ReadIsStored, RowsFit,
           NEW s \in Service, OnceFor(s), NEW q \in Request, StoreCounter(q, s), OnServer
    PROVE  OnceFor(s)'
  <1>0. LedgerTypeOK
    BY DEF TypeOK
  <1>1. /\ ingest[q].step = "storing" /\ s \in ingest[q].todo
        /\ ingest'[q].step = "storing" /\ s \notin ingest'[q].todo
        /\ last'[s] = ingest[q].samples[s]
        /\ \A r \in Request \ {q} : ingest'[r] = ingest[r]
    BY <1>0 DEF StoreCounter, LedgerTypeOK, Ingest, Samples
  <1>2. s \in AheadOf(ingest[q])
    BY <1>1 DEF AheadOf
  <1> DEFINE y == ingest[q].samples[s]
  <1>3. y \in Counts /\ ingest[q].last[s] = last[s] /\ Fits(q, s)
    BY <1>0, <1>1, <1>2, AheadIsCounts DEF ReadIsStored, OnceFor
  <1>4. \A d \in Direction : Settled(s, d)' = Settled(s, d) + Delta(y, last[s])[d]
    BY <1>0, <1>3, SettledStores DEF DeltaOf
  <1>5. /\ Counted(s)' = Counted(s) /\ \A d \in Direction : Before(s, d)' = Before(s, d)
    BY DEF OnServer, flowVars, Counted, Before
  <1>6. Waiting(s)' = Waiting(s)
    BY DEF OnServer, flowVars, Waiting, Held
  <1>7. ASSUME NEW r \in Request
        PROVE  s \notin AheadOf(ingest'[r])
    <2>1. CASE r = q
      BY <1>1, <2>1 DEF AheadOf
    <2>2. CASE r # q
      <3>1. ingest[r] = Resting
        BY <1>1, <2>2, RestingIsIdle DEF Alone
      <3> QED
        BY <1>1, <2>2, <3>1, RestingIsIdle
    <2> QED
      BY <2>1, <2>2
  <1>8. CASE Stale(s, y)
    <2>1. \A d \in Direction : Settled(s, d)' <= Before(s, d)'
      BY <1>4, <1>5, <1>8 DEF Stale
    <2>2. \A c : Follows(s, c)'
      BY <2>1 DEF Follows
    <2>3. Follows(s, Counted(s))'
      BY <2>1 DEF Follows
    <2> QED
      BY <1>7, <2>2, <2>3 DEF OnceFor
  <1>9. CASE Current(s, y)
    <2>1. \A d \in Direction : Settled(s, d)' <= Before(s, d)' + last'[s][d]
      <3>1. \A d \in Direction : Settled(s, d) + Delta(y, last[s])[d] <= Before(s, d) + y[d]
        BY <1>3, <1>9, FollowsAdds DEF Current
      <3> QED
        BY <1>1, <1>4, <1>5, <3>1
    <2>2. last'[s] # None
      BY <1>1, <1>3, CountsAssumption
    <2>3. ASSUME NEW c, Within(y, c)
          PROVE  Follows(s, c)'
      <3>1. Within(last'[s], c)
        BY <1>1, <2>3
      <3> QED
        BY <2>1, <2>2, <3>1 DEF Follows, Within
    <2>4. Within(y, Counted(s)) /\ \A w \in Waiting(s) : Within(y, w)
      BY <1>9 DEF Current
    <2>5. Follows(s, Counted(s))'
      <3>1. Within(last'[s], Counted(s)')
        BY <1>1, <1>5, <2>4
      <3> QED
        BY <2>1, <2>2, <3>1 DEF Follows, Within
    <2>6. \A w \in Waiting(s)' : Follows(s, w)'
      BY <1>6, <2>3, <2>4
    <2> QED
      BY <1>7, <2>5, <2>6 DEF OnceFor
  <1> QED
    BY <1>3, <1>8, <1>9 DEF Fits

\* The agent starts again: all that was counted is from before the start.
LEMMA OnceRestarts ==
    ASSUME TypeOK, TypeOK', \A q \in Request : WorksOnReported(q), Alone, RowsFit,
           NEW s \in Service, OnceFor(s), Restart
    PROVE  OnceFor(s)'
  <1>0. /\ Counted(s) \in Counts /\ last[s] \in Counts \cup {None}
        /\ \A d \in Direction : /\ Settled(s, d) \in Int /\ Before(s, d) \in Int /\ Counted(s)[d] \in Nat
                                /\ relayed[s][d] \in Nat /\ Before(s, d) = relayed[s][d] - Counted(s)[d]
    BY NumbersAreInts, CountedIsCounts DEF Counts
  <1>1. /\ counters'[s] = None /\ relayed' = relayed /\ pending' = {} /\ buffer' = <<>>
        /\ ingest' = ingest /\ last' = last /\ billed' = billed /\ foreign' = foreign /\ unsaved' = unsaved
    BY DEF Restart, ledgerVars
  <1>2. \A d \in Direction : Settled(s, d)' = Settled(s, d)
    BY <1>1 DEF Settled, Accounted
  <1>3. \A d \in Direction : Before(s, d)' = Before(s, d) + Counted(s)[d]
    <2>1. Counted(s)' = Zero
      BY <1>1 DEF Counted
    <2>2. \A d \in Direction : Before(s, d)' = relayed[s][d] - 0
      BY <1>1, <2>1 DEF Before, Zero
    <2> QED
      BY <1>0, <2>2
  <1>4. Waiting(s)' = {}
    BY <1>1 DEF Waiting, Held
  <1>5. Follows(s, Counted(s))'
    <2>1. CASE \A d \in Direction : Settled(s, d) <= Before(s, d)
      <3>1. \A d \in Direction : Settled(s, d)' <= Before(s, d)'
        BY <1>0, <1>2, <1>3, <2>1
      <3> QED
        BY <3>1 DEF Follows
    <2>2. CASE /\ last[s] # None /\ Within(last[s], Counted(s))
               /\ \A d \in Direction : Settled(s, d) <= Before(s, d) + last[s][d]
      <3>1. \A d \in Direction : last[s][d] \in Nat /\ last[s][d] <= Counted(s)[d]
        BY <1>0, <2>2 DEF Within, Counts
      <3>2. \A d \in Direction : Settled(s, d)' <= Before(s, d)'
        BY <1>0, <1>2, <1>3, <2>2, <3>1
      <3> QED
        BY <3>2 DEF Follows
    <2> QED
      BY <2>1, <2>2 DEF OnceFor, Follows
  <1>6. ASSUME NEW q \in Request, s \in AheadOf(ingest'[q])
        PROVE  Fits(q, s)'
    <2> DEFINE c == ingest[q].samples[s]
    <2>1. s \in AheadOf(ingest[q]) /\ Fits(q, s)
      BY <1>1, <1>6 DEF OnceFor
    <2>2. c \in Counts /\ Delta(c, last[s]) \in Counts
      BY <2>1, AheadIsCounts, NumbersAreInts DEF TypeOK
    <2>3. \A d \in Direction : c[d] \in Nat /\ Delta(c, last[s])[d] \in Nat
      BY <2>2 DEF Counts
    <2>4. CASE Stale(s, c)
      <3>1. \A d \in Direction : Settled(s, d) + Delta(c, last[s])[d] <= Before(s, d) + Counted(s)[d]
        BY <1>0, <2>3, <2>4 DEF Stale
      <3> QED
        BY <1>1, <1>2, <1>3, <3>1 DEF Fits, Stale
    <2>5. CASE Current(s, c)
      <3>1. \A d \in Direction : Settled(s, d) + Delta(c, last[s])[d] <= Before(s, d) + c[d] /\ c[d] <= Counted(s)[d]
        BY <2>2, <2>5, FollowsAdds DEF Current, Within
      <3>2. \A d \in Direction : Settled(s, d) + Delta(c, last[s])[d] <= Before(s, d) + Counted(s)[d]
        BY <1>0, <2>3, <3>1
      <3> QED
        BY <1>1, <1>2, <1>3, <3>2 DEF Fits, Stale
    <2> QED
      BY <2>1, <2>4, <2>5 DEF Fits
  <1> QED
    BY <1>4, <1>5, <1>6 DEF OnceFor

\* Every step keeps the bound on what is settled, while no two ingests overlap.
LEMMA OnceStep ==
    ASSUME TypeOK, TypeOK', \A q \in Request : WorksOnReported(q), BillsOwned, RowsFit, InTurn, Alone',
           [Next]_vars, [LedgerNext]_ledgerVars, NEW s \in Service
    PROVE  OnceFor(s)'
  <1>0. LedgerTypeOK /\ Alone /\ ReadIsStored /\ OnceFor(s)
    BY DEF TypeOK, InTurn
  <1>1. ASSUME NEW q \in Request, StoreCounter(q, s)
        PROVE  OnceFor(s)'
    BY <1>0, <1>1, StoresOnServer, OnceStores
  <1>2. CASE Restart
    BY <1>0, <1>2, OnceRestarts
  <1>3. CASE ~Restart /\ \A q \in Request : ~StoreCounter(q, s)
    <2>1. \A d \in Direction : Settled(s, d)' = Settled(s, d)
      BY <1>0, <1>3, SettledStays
    <2>2. Within(Counted(s), Counted(s)') /\ \A d \in Direction : Before(s, d)' = Before(s, d)
      BY <1>3, CountsStep
    <2>3. last'[s] = last[s]
      BY <1>0, <1>3, LastStays
    <2>4. \A w \in Waiting(s)' : w \in Counts /\ (w \in Waiting(s) \/ w = Counted(s)')
      BY WaitingStep
    <2>5. ASSUME NEW q \in Request, s \in AheadOf(ingest'[q])
          PROVE  \/ s \in AheadOf(ingest[q]) /\ ingest'[q].samples[s] = ingest[q].samples[s]
                 \/ /\ ingest'[q].samples[s] \in Waiting(s) /\ ingest'[q].samples[s] \in Counts
                    /\ \A w \in Waiting(s)' : w = ingest'[q].samples[s]
      <3>1. CASE \A samples \in Samples : ~Receive(q, samples)
        BY <1>0, <2>5, <3>1, AheadStep
      <3>2. CASE SendChunk(q)
        <4>1. /\ flush = "sending" /\ pending' = pending /\ buffer' = buffer
              /\ ingest'[q].samples = ChunkSamples
              /\ ingest'[q].step = "entering" \/ ingest'[q].step = "answering"
          BY <1>0, <3>2 DEF SendChunk, Receive, LedgerTypeOK, Resting
        <4>2. ChunkSamples[s] # None
          BY <2>5, <4>1 DEF AheadOf
        <4>3. ChunkSamples[s] \in Waiting(s) /\ ChunkSamples[s] \in Counts
          BY <4>2, ChunkIsUpload DEF Samples
        <4>4. Waiting(s)' = Waiting(s)
          BY <4>1 DEF Waiting, Held
        <4>5. \A w \in Waiting(s) : w = ChunkSamples[s]
          BY <4>1, <4>2, ChunkIsNewest
        <4> QED
          BY <4>1, <4>3, <4>4, <4>5
      <3> QED
        BY <3>1, <3>2, ArrivalsAreChunks
    <2> QED
      BY <1>0, <2>1, <2>2, <2>3, <2>4, <2>5, OnceStays
  <1> QED
    BY <1>1, <1>2, <1>3

-----------------------------------------------------------------------------
\* Every step keeps the invariant,
LEMMA FlowInvStep ==
    ASSUME FlowInv, [Next]_vars
    PROVE  FlowInv' /\ [LedgerNext]_ledgerVars
  <1>1. TypeOK /\ LedgerInv /\ RowsFit /\ BillsOwned /\ LedgerTypeOK /\ \A q \in Request : WorksOnReported(q)
    BY DEF FlowInv, LedgerInv, IngestOK
  <1>2. [LedgerNext]_ledgerVars
    BY <1>1, FlowStepIngests
  <1>3. LedgerInv'
    BY <1>1, <1>2, LedgerInvStep
  <1>4. TypeOK'
    <2>1. LedgerTypeOK'
      BY <1>3 DEF LedgerInv
    <2> QED
      BY <1>1, <2>1, FlowTypeStep
  <1>5. RowsFit'
    BY <1>1, <1>4, RowsFitStep
  <1>6. BillsOwned'
    BY <1>1, <1>2, BillsOwnedStep
  <1>7. ASSUME ~overlapped'
        PROVE  InTurn'
    <2>1. InTurn
      <3>1. overlapped \in BOOLEAN /\ (overlapped => overlapped')
        BY <1>1 DEF Next, Accept, Relay, BeginFlush, Merge, SendChunk, SendFails, Acknowledged, AnswerIsLost, GivesUp,
                    Restart, Ingests, IngestStops, Unheard, Redeploys, OnServer, vars, TypeOK
      <3> QED
        BY <1>7, <3>1 DEF FlowInv
    <2>2. Alone /\ ReadIsStored
      BY <2>1 DEF InTurn
    <2>3. Alone'
      BY <1>1, <1>7, <2>2, AloneStep
    <2>4. ReadIsStored'
      BY <1>1, <1>2, <2>2, <2>3, ReadIsStoredStep
    <2>5. \A s \in Service : OnceFor(s)'
      BY <1>1, <1>2, <1>4, <2>1, <2>3, OnceStep
    <2> QED
      BY <2>3, <2>4, <2>5 DEF InTurn
  <1> QED
    BY <1>2, <1>3, <1>4, <1>5, <1>6, <1>7 DEF FlowInv

\* which holds in the beginning.
LEMMA FlowInvInit ==
    ASSUME Init
    PROVE  FlowInv /\ LedgerInit
  <1>1. LedgerInit /\ LedgerInv /\ LedgerTypeOK
    BY LedgerInvInit DEF Init, LedgerInv
  <1>2. /\ counters = [s \in Service |-> None] /\ seen = [s \in Service |-> {}] /\ pending = {} /\ buffer = <<>>
        /\ flush = "idle" /\ relayed = [s \in Service |-> Zero] /\ overlapped = FALSE
        /\ restarts = 0 /\ faults = 0 /\ moves = 0
    BY DEF Init
  <1>3. /\ last = NoSamples /\ billed = [s \in Service |-> Zero] /\ foreign = [s \in Service |-> Zero]
        /\ unsaved = [s \in Service |-> Zero] /\ ingest = [q \in Request |-> Resting]
    BY <1>1 DEF LedgerInit
  <1>4. Zero \in Counts /\ \A d \in Direction : Zero[d] = 0
    BY DEF Zero, Counts
  <1>5. TypeOK
    <2>1. buffer \in Seq(Row) /\ Len(buffer) <= MaxBuffered
      BY <1>2, FlowAssumption
    <2>2. counters \in Samples /\ seen \in [Service -> SUBSET Client] /\ relayed \in [Service -> Counts]
      BY <1>2, <1>4 DEF Samples
    <2>3. restarts \in 0 .. MaxRestarts /\ faults \in 0 .. MaxFaults /\ moves \in 0 .. MaxMoves
      BY <1>2, FlowAssumption
    <2> QED
      BY <1>1, <1>2, <2>1, <2>2, <2>3 DEF TypeOK
  <1>6. \A s \in Service : Waiting(s) = {} /\ Counted(s) = Zero
    <2>1. Held = {}
      BY <1>2 DEF Held
    <2> QED
      BY <1>2, <2>1 DEF Waiting, Counted
  <1>7. RowsFit
    BY <1>2, <1>4, <1>6 DEF RowsFit, Held, KeysDiffer, Within
  <1>8. BillsOwned /\ Alone /\ ReadIsStored
    BY <1>3, RestingIsIdle DEF BillsOwned, Alone, ReadIsStored
  <1>9. ASSUME NEW s \in Service
        PROVE  OnceFor(s)
    <2>1. \A d \in Direction : Underway(ingest, s, d) = 0
      BY <1>3, RestingIsIdle DEF Underway
    <2>2. \A d \in Direction : Settled(s, d) = 0 /\ Before(s, d) = 0
      BY <1>2, <1>3, <1>4, <1>6, <2>1 DEF Settled, Accounted, Before
    <2>3. Follows(s, Counted(s))
      BY <2>2 DEF Follows
    <2> QED
      BY <1>3, <1>6, <2>3, RestingIsIdle DEF OnceFor
  <1> QED
    BY <1>1, <1>5, <1>7, <1>8, <1>9 DEF FlowInv, InTurn

\* What an agent uploads, flush by flush, is among what the ledger is proved for:
\* every behaviour of the agent and its node's ledger is one of the ledger.
THEOREM FlowIngests == Spec => LedgerSpec
  <1> QED
    BY FlowInvInit, FlowInvStep, PTL DEF Spec, LedgerSpec

\* Every variable of the flow keeps its type; the buffer never exceeds its cap.
THEOREM FlowTypes == Spec => []TypeOK
  <1>1. FlowInv => TypeOK
    BY DEF FlowInv
  <1> QED
    BY <1>1, FlowInvInit, FlowInvStep, PTL DEF Spec

\* Over, never under, for what agents upload: a count that was stored has been
\* accounted for (ingestTraffic behind Flush::flush).
THEOREM FlowCoverage == Spec => []LedgerCoversCounters
  BY FlowIngests, LedgerCoverage, PTL

\* Retries, lost answers, swallowed failures and restarts of the agent bill
\* nothing twice, as long as the ingests of the node do not overlap: but for what
\* an ingest billed and died before it could store (ingestTraffic, Flush::flush).
THEOREM BilledOnce == Spec => []BilledOnceButForCrashes
  <1>1. ASSUME FlowInv
        PROVE  BilledOnceButForCrashes
    <2>1. SUFFICES ASSUME ~overlapped, NEW s \in Service, NEW d \in Direction
                   PROVE  Accounted(s, d) <= relayed[s][d] + unsaved[s][d]
      BY DEF BilledOnceButForCrashes
    <2>2. TypeOK /\ LedgerTypeOK /\ RowsFit /\ Alone /\ ReadIsStored /\ OnceFor(s)
          /\ \A q \in Request : WorksOnReported(q)
      BY <1>1, <2>1 DEF FlowInv, InTurn, TypeOK, LedgerInv, IngestOK
    <2>3. /\ Counted(s) \in Counts /\ last[s] \in Counts \cup {None}
          /\ Settled(s, d) \in Int /\ Before(s, d) = relayed[s][d] - Counted(s)[d]
          /\ Counted(s)[d] \in Nat /\ relayed[s][d] \in Nat /\ Counted(s)[d] <= relayed[s][d]
      BY <2>2, NumbersAreInts, CountedIsCounts DEF Counts, RowsFit, Within
    <2>4. Accounted(s, d) \in Nat /\ unsaved[s][d] \in Nat
      BY <2>2, AccountIsInt
    <2>5. ASSUME NEW q \in Request, s \in BilledBy(ingest[q])
          PROVE  Accounted(s, d) <= relayed[s][d] + unsaved[s][d]
      <3> DEFINE c == ingest[q].samples[s]
      <3>1. s \in AheadOf(ingest[q]) /\ ingest[q].step \in {"billing", "storing"}
        BY <2>2, <2>5 DEF BilledBy, AheadOf, WorksOnReported, Reported
      <3>2. /\ c \in Counts /\ c[d] \in Nat /\ ingest[q].last[s] = last[s] /\ Fits(q, s)
            /\ Delta(c, last[s])[d] \in Nat
        BY <2>2, <3>1, AheadIsCounts, NumbersAreInts DEF ReadIsStored, OnceFor, Counts
      <3>3. \A r \in Request \ {q} : ingest[r] = Resting
        BY <2>2, <3>1, RestingIsIdle DEF Alone
      <3>4. Settled(s, d) = Accounted(s, d) - unsaved[s][d] - Delta(c, last[s])[d]
        BY <2>5, <3>2, <3>3, UnderwayAlone DEF Settled, Share
      <3>5. Settled(s, d) + Delta(c, last[s])[d] <= relayed[s][d]
        <4>1. CASE Stale(s, c)
          BY <2>3, <3>2, <4>1 DEF Stale
        <4>2. CASE Current(s, c)
          <5>1. Settled(s, d) + Delta(c, last[s])[d] <= Before(s, d) + c[d] /\ c[d] <= Counted(s)[d]
            BY <2>2, <3>2, <4>2, FollowsAdds DEF Current, Within
          <5> QED
            BY <2>3, <3>2, <5>1
        <4> QED
          BY <3>2, <4>1, <4>2 DEF Fits
      <3> QED
        BY <2>3, <2>4, <3>2, <3>4, <3>5
    <2>6. CASE \A q \in Request : s \notin BilledBy(ingest[q])
      <3>1. Underway(ingest, s, d) = 0
        BY <2>6 DEF Underway
      <3>2. Settled(s, d) = Accounted(s, d) - unsaved[s][d]
        BY <2>4, <3>1 DEF Settled
      <3>3. Settled(s, d) <= relayed[s][d]
        <4>1. CASE Settled(s, d) <= Before(s, d)
          BY <2>3, <4>1
        <4>2. CASE /\ last[s] # None /\ Within(last[s], Counted(s))
                   /\ Settled(s, d) <= Before(s, d) + last[s][d]
          <5>1. last[s][d] \in Nat /\ last[s][d] <= Counted(s)[d]
            BY <2>3, <4>2 DEF Within, Counts
          <5> QED
            BY <2>3, <4>2, <5>1
        <4> QED
          BY <2>2, <4>1, <4>2 DEF OnceFor, Follows
      <3> QED
        BY <2>3, <2>4, <3>2, <3>3
    <2> QED
      BY <2>5, <2>6
  <1> QED
    BY <1>1, FlowInvInit, FlowInvStep, PTL DEF Spec
=============================================================================
