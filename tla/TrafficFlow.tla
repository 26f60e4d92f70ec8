---------------------------- MODULE TrafficFlow ----------------------------
(***************************************************************************)
(* Traffic from an agent's counters into the server's ledger: the counters *)
(* and the sample buffer (apps/agent/src/stats.rs), the flush loop         *)
(* (Flush of apps/agent/src/control.rs), and the uploads that module       *)
(* TrafficLedger ingests.                                                  *)
(*                                                                         *)
(* Each service has a row of its own and one per client; the ledger        *)
(* consumes only the first, but all of them share the buffer.  A flush     *)
(* takes a sample of every row and uploads the buffer chunk by chunk; a    *)
(* chunk stays in the buffer until it is acknowledged, and the agent gives *)
(* up waiting while the server may still be at work on it.                 *)
(***************************************************************************)
EXTENDS TrafficLedger, FiniteSets, Functions, Sequences

CONSTANTS
    Client,         \* client addresses, numbered from 1 in their order
    MaxBuffered,    \* MAX_BUFFERED_SAMPLES
    Chunk,          \* STATS_UPLOAD_CHUNK
    MaxBytes,       \* bound on the bytes a service relays
    MaxRestarts,    \* bound on restarts of the agent
    MaxFaults,      \* bound on failed uploads, ingests and waits
    MaxMoves        \* bound on moves of rules and of the node

ASSUME FlowAssumption ==
    /\ Service \subseteq Nat /\ Client \subseteq Nat \ {0}
    /\ MaxBuffered \in Nat \ {0} /\ Chunk \in Nat \ {0}
    /\ MaxBytes \in Nat /\ MaxRestarts \in Nat /\ MaxFaults \in Nat /\ MaxMoves \in Nat
    /\ {"idle", "merging", "sending"} \cap Request = {}

VARIABLES
    counters,   \* StatsRegistry: the counts of each service, None before the first connection
    seen,       \* StatsRegistry: the clients each service has a row for
    pending,    \* Flush::flush: the samples of the snapshot still to be pushed
    buffer,     \* SampleBuffer
    flush,      \* "idle", "merging", "sending", or the upload waited for
    relayed,    \* history: what each service relayed, over all restarts
    overlapped, \* history: two ingests of the node were under way at once
    restarts, faults, moves

flowVars == <<counters, seen, pending, buffer, flush>>
bounds == <<restarts, faults, moves>>
vars == <<ledgerVars, flowVars, relayed, overlapped, bounds>>

\* A row of the registry: client 0 is the service as a whole.  The bytes of a
\* client are not consumed by anybody here.
Row == [service : Service, client : Client \cup {0}, counts : Counts \cup {None}]

Fault == faults < MaxFaults /\ faults' = faults + 1

Rows ==
    {[service |-> s, client |-> 0, counts |-> counters[s]] : s \in {x \in Service : counters[x] # None}}
    \cup UNION {{[service |-> s, client |-> c, counts |-> None] : c \in seen[s]} : s \in Service}

\* The order of a snapshot: service-level rows first.
Precedes(a, b) == a.client < b.client \/ (a.client = b.client /\ a.service < b.service)

SameKey(a, b) == a.service = b.service /\ a.client = b.client

\* SampleBuffer::push: the newest sample of a row replaces the older one in
\* its place; when the buffer is full its oldest row goes.
Push(rows, row) ==
    IF \E i \in 1 .. Len(rows) : SameKey(rows[i], row)
    THEN [i \in 1 .. Len(rows) |-> IF SameKey(rows[i], row) THEN row ELSE rows[i]]
    ELSE Append(IF Len(rows) >= MaxBuffered THEN Tail(rows) ELSE rows, row)

ChunkLength == IF Len(buffer) < Chunk THEN Len(buffer) ELSE Chunk

\* The service-level samples of the next chunk.
ChunkSamples ==
    [s \in Service |->
        LET rows == {i \in 1 .. ChunkLength : buffer[i].service = s /\ buffer[i].client = 0}
        IN  IF rows = {} THEN None ELSE buffer[CHOOSE i \in rows : TRUE].counts]

\* Every service starts as that of a rule of the node, and may be moved away.
Init ==
    /\ LedgerInit /\ ruleOn \in [Service -> Tunnel]
    /\ counters = [s \in Service |-> None]
    /\ seen = [s \in Service |-> {}]
    /\ pending = {} /\ buffer = <<>>
    /\ flush = "idle"
    /\ relayed = [s \in Service |-> Zero]
    /\ overlapped = FALSE
    /\ restarts = 0 /\ faults = 0 /\ moves = 0

-----------------------------------------------------------------------------
(* The agent.                                                              *)

\* A connection is accepted: it has counters, as a part of its service and of
\* its client.
Accept(s, c) ==
    /\ c \notin seen[s]
    /\ counters' = [counters EXCEPT ![s] = IF @ = None THEN Zero ELSE @]
    /\ seen' = [seen EXCEPT ![s] = @ \cup {c}]
    /\ UNCHANGED <<ledgerVars, pending, buffer, flush, relayed, overlapped, bounds>>

\* A byte is relayed.
Relay(s, d) ==
    /\ counters[s] # None /\ FoldFunction(+, 0, relayed[s]) < MaxBytes
    /\ counters' = [counters EXCEPT ![s][d] = @ + 1]
    /\ relayed' = [relayed EXCEPT ![s][d] = @ + 1]
    /\ UNCHANGED <<ledgerVars, seen, pending, buffer, flush, overlapped, bounds>>

\* Flush::flush: a sample of every row is taken at once.
BeginFlush ==
    /\ flush = "idle" /\ Rows # {}
    /\ pending' = Rows
    /\ flush' = "merging"
    /\ UNCHANGED <<ledgerVars, counters, seen, buffer, relayed, overlapped, bounds>>

\* The samples are pushed into the buffer, one after the other.
Merge(row) ==
    /\ flush = "merging"
    /\ \A other \in pending \ {row} : Precedes(row, other)
    /\ buffer' = Push(buffer, row)
    /\ pending' = pending \ {row}
    /\ flush' = IF pending' = {} THEN "sending" ELSE "merging"
    /\ UNCHANGED <<ledgerVars, counters, seen, relayed, overlapped, bounds>>

\* The next chunk is posted.
SendChunk(q) ==
    /\ flush = "sending" /\ buffer # <<>>
    /\ ingest[q] = Resting /\ q = CHOOSE r \in Request : ingest[r] = Resting
    /\ Receive(q, ChunkSamples)
    /\ flush' = q
    /\ overlapped' = (overlapped \/ \E r \in Request : ingest[r] # Resting)
    /\ UNCHANGED <<counters, seen, pending, buffer, relayed, bounds>>

\* It does not reach the server: the flush ends, the buffer stays.
SendFails ==
    /\ flush = "sending" /\ buffer # <<>>
    /\ Fault
    /\ flush' = "idle"
    /\ UNCHANGED <<ledgerVars, counters, seen, pending, buffer, relayed, overlapped, restarts, moves>>

\* The chunk is acknowledged and leaves the buffer.
Acknowledged(q) ==
    /\ flush = q
    /\ Answered(q)
    /\ buffer' = SubSeq(buffer, ChunkLength + 1, Len(buffer))
    /\ flush' = IF buffer' = <<>> THEN "idle" ELSE "sending"
    /\ UNCHANGED <<counters, seen, pending, relayed, overlapped, bounds>>

\* The server is gone, or answers an error.
AnswerIsLost(q) ==
    /\ flush = q /\ ingest[q] = Resting
    /\ flush' = "idle"
    /\ UNCHANGED <<ledgerVars, counters, seen, pending, buffer, relayed, overlapped, bounds>>

\* HTTP_TIMEOUT elapses first, and the ingest goes on unheard.
GivesUp(q) ==
    /\ flush = q /\ ingest[q] # Resting
    /\ Fault
    /\ flush' = "idle"
    /\ UNCHANGED <<ledgerVars, counters, seen, pending, buffer, relayed, overlapped, restarts, moves>>

\* The agent stops, with or without a last flush, and starts again: counters
\* and buffer are in memory.
Restart ==
    /\ restarts < MaxRestarts
    /\ restarts' = restarts + 1
    /\ counters' = [s \in Service |-> None]
    /\ seen' = [s \in Service |-> {}]
    /\ pending' = {} /\ buffer' = <<>>
    /\ flush' = "idle"
    /\ UNCHANGED <<ledgerVars, relayed, overlapped, faults, moves>>

-----------------------------------------------------------------------------
(* The server.                                                             *)

OnServer == UNCHANGED <<flowVars, relayed, overlapped>>

Ingests(q) == Proceeds(q) /\ OnServer /\ UNCHANGED bounds

IngestStops(q) ==
    /\ IngestFails(q) \/ WorkerDies(q)
    /\ Fault
    /\ OnServer /\ UNCHANGED <<restarts, moves>>

\* An answer nobody waits for.
Unheard(q) == flush # q /\ Answered(q) /\ OnServer /\ UNCHANGED bounds

Redeploys ==
    /\ moves < MaxMoves /\ moves' = moves + 1
    /\ \/ \E s \in Service, t \in Tunnel \cup {None} : ruleOn[s] # t /\ RuleMoves(s, t)
       \/ \E t \in Tunnel : NodeMoves(t)
    /\ OnServer /\ UNCHANGED <<restarts, faults>>

Flushes ==
    \/ BeginFlush
    \/ \E row \in pending : Merge(row)
    \/ \E q \in Request : SendChunk(q) \/ Acknowledged(q) \/ AnswerIsLost(q)

Next ==
    \/ \E s \in Service, c \in Client : Accept(s, c)
    \/ \E s \in Service, d \in Direction : Relay(s, d)
    \/ BeginFlush
    \/ \E row \in pending : Merge(row)
    \/ \E q \in Request : SendChunk(q)
    \/ SendFails
    \/ \E q \in Request : Acknowledged(q)
    \/ \E q \in Request : AnswerIsLost(q)
    \/ \E q \in Request : GivesUp(q)
    \/ Restart
    \/ \E q \in Request : Ingests(q)
    \/ \E q \in Request : IngestStops(q)
    \/ \E q \in Request : Unheard(q)
    \/ Redeploys

\* The flush timer ticks and the flush goes on, and so does every request that
\* has reached a worker.
Fairness ==
    /\ WF_vars(Flushes)
    /\ \A q \in Request : WF_vars(Ingests(q) \/ Unheard(q))

Spec == Init /\ [][Next]_vars
FairSpec == Spec /\ Fairness

-----------------------------------------------------------------------------
TypeOK ==
    /\ LedgerTypeOK
    /\ counters \in Samples
    /\ seen \in [Service -> SUBSET Client]
    /\ pending \subseteq Row
    /\ buffer \in Seq(Row) /\ Len(buffer) <= MaxBuffered
    /\ flush \in Request \cup {"idle", "merging", "sending"}
    /\ relayed \in [Service -> Counts]
    /\ overlapped \in BOOLEAN
    /\ restarts \in 0 .. MaxRestarts /\ faults \in 0 .. MaxFaults /\ moves \in 0 .. MaxMoves

\* Retries, lost answers, swallowed failures and restarts of the agent bill
\* nothing twice: as long as the ingests of the node do not overlap, what is
\* accounted for exceeds what was relayed at most by what some ingest billed
\* and died before it could store (traffic.ts: "a crash between the two
\* re-deltas from the OLD counter").
BilledOnceButForCrashes ==
    ~overlapped =>
        \A s \in Service, d \in Direction : Accounted(s, d) <= relayed[s][d] + unsaved[s][d]

\* As long as the registry fits the buffer and the agent is not restarted,
\* all it relays is accounted for in the end, whatever fails on the way: a lost
\* or a swallowed report is made up for by the next.
FitsBuffer == Cardinality(Rows) <= MaxBuffered

TrafficIsAccounted ==
    [](FitsBuffer /\ restarts = 0) =>
        <>[](\A s \in Service, d \in Direction :
                counters[s] # None => Accounted(s, d) >= counters[s][d])

=============================================================================
