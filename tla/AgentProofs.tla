---------------------------- MODULE AgentProofs ----------------------------
(***************************************************************************)
(* The agent.  First the safety of its supervisor, for every set of        *)
(* services, ports and payloads; then what holds of its control loop and   *)
(* its push channel, for every interval, every threshold and every bound   *)
(* on the queue.                                                           *)
(***************************************************************************)
EXTENDS Supervisor, AgentLink, TLAPS

-----------------------------------------------------------------------------
(* The supervisor.                                                         *)

(***************************************************************************)
(* While an apply is under way, the services it has passed are converged,  *)
(* those it has not are still to come, and no other has a handle.  Outside *)
(* an apply, the failure entries explain every gap between the desired and *)
(* the running services.                                                   *)
(***************************************************************************)
Progress ==
    /\ job.todo \subseteq Wanted
    /\ job.failed \subseteq Wanted
    /\ ~job.busy => job = Idle
    /\ job.busy =>
          /\ ~stopped
          /\ \A s \in Service \ job.todo : Converged(s)
          /\ \A s \in job.failed : running[s] # None => running[s].cfg.port # last[s].chosen.port
          /\ job.todo \cap job.failed = {}

OnlyWantedRun == \A s \in Service : running[s] # None => last[s] # None

IInv ==
    /\ TypeOK
    /\ Progress
    /\ OnlyWantedRun
    /\ SnapshotCoversDesired
    /\ HiddenFailureIsPortMove
    /\ RunningHasOneFailureAtMost

\* The initial state satisfies the inductive invariant.
LEMMA InitIInv == Init => IInv
<1> SUFFICES ASSUME Init PROVE IInv
  OBVIOUS
<1>1. TypeOK
  <2>1. Idle \in Job
    BY DEF Idle, Job
  <2>2. cert \in 0 .. MaxCert
    BY CertAssumption DEF Init
  <2>3. /\ running \in [Service -> Handle \cup {None}]
        /\ last \in [Service -> Desired \cup {None}]
    BY DEF Init
  <2>4. failures \in [Service -> 0 .. 2]
    BY DEF Init
  <2> QED
    BY <2>1, <2>2, <2>3, <2>4 DEF Init, TypeOK
<1>2. Progress /\ OnlyWantedRun
  BY DEF Init, Progress, OnlyWantedRun, Idle
<1>3. SnapshotCoversDesired
  BY DEF Init, SnapshotCoversDesired, Wanted
<1>4. HiddenFailureIsPortMove /\ RunningHasOneFailureAtMost
  BY DEF Init, HiddenFailureIsPortMove, RunningHasOneFailureAtMost
<1> QED
  BY <1>1, <1>2, <1>3, <1>4 DEF IInv

\* A fresh handle is a handle, and what a failed rebuild keeps is one too.
LEMMA FreshHandle ==
    ASSUME TypeOK, NEW c \in Config
    PROVE  Fresh(c) \in Handle /\ Fresh(c) # None
<1>1. cert \in 0 .. MaxCert
  BY DEF TypeOK
<1>2. Fresh(c) \in Handle
  BY <1>1 DEF Fresh, Handle
<1> QED
  BY <1>2, NoneAssumption

\* The two views a payload gives of a desired service are configurations.
LEMMA DesiredConfigs ==
    ASSUME TypeOK, NEW s \in Service, last[s] # None
    PROVE  last[s].first \in Config /\ last[s].chosen \in Config
BY DesiredAssumption DEF TypeOK

\* What a failed rebuild keeps is the old handle, on another port, or none.
LEMMA KeptHandle ==
    ASSUME NEW old, NEW new
    PROVE  /\ Kept(old, new) \in {old, None}
           /\ Kept(old, new) # None => old.cfg.port # new.port
BY DEF Kept

\* Every step preserves the types.
LEMMA NextTypeOK == TypeOK /\ Progress /\ RunningHasOneFailureAtMost /\ [Next]_vars => TypeOK'
<1> SUFFICES ASSUME TypeOK, Progress, RunningHasOneFailureAtMost, [Next]_vars PROVE TypeOK'
  OBVIOUS
<1>1. ASSUME NEW d \in [Service -> Desired \cup {None}], NEW m \in BOOLEAN,
             NEW rotated \in BOOLEAN, BeginApply(d, m, rotated)
      PROVE  TypeOK'
  BY <1>1, CertAssumption DEF BeginApply, TypeOK, Job
<1>2. ASSUME NEW s \in Service, KeepService(s) PROVE TypeOK'
  BY <1>2 DEF KeepService, TypeOK, Job
<1>3. ASSUME NEW s \in Service, NEW pem \in BOOLEAN, BuildService(s, pem) PROVE TypeOK'
  <2>1. last[s] # None
    BY <1>3 DEF BuildService, TurnOf, Progress, Wanted
  <2>2. Fresh(last[s].chosen) \in Handle
    BY <2>1, DesiredConfigs, FreshHandle
  <2>3. Kept(running[s], last[s].chosen) \in Handle \cup {None}
    BY KeptHandle DEF TypeOK
  <2>4. running' \in [Service -> Handle \cup {None}]
    BY <1>3, <2>2, <2>3 DEF BuildService, TypeOK
  <2>5. job' \in Job
    BY <1>3 DEF BuildService, TypeOK, Job
  <2> QED
    BY <1>3, <2>4, <2>5 DEF BuildService, TypeOK
<1>4. CASE FinishApply
  BY <1>4 DEF FinishApply, TypeOK, Recorded, Job, Idle
<1>5. ASSUME NEW s \in Service, NEW pem \in BOOLEAN, RestartRunning(s, pem) PROVE TypeOK'
  <2>1. running[s].cfg \in Config
    BY <1>5 DEF RestartRunning, TypeOK, Handle
  <2>2. Fresh(running[s].cfg) \in Handle
    BY <2>1, FreshHandle
  <2>3. failures[s] <= 1
    BY <1>5 DEF RestartRunning, RunningHasOneFailureAtMost, Quiet
  <2>4. failures' \in [Service -> 0 .. 2]
    BY <1>5, <2>3 DEF RestartRunning, TypeOK, Cleared, Pushed
  <2>5. running' \in [Service -> Handle \cup {None}]
    BY <1>5, <2>2 DEF RestartRunning, TypeOK
  <2> QED
    BY <1>5, <2>4, <2>5 DEF RestartRunning, TypeOK
<1>6. ASSUME NEW s \in Service, NEW pem \in BOOLEAN, RestartFailed(s, pem) PROVE TypeOK'
  <2>1. Fresh(last[s].first) \in Handle
    BY <1>6, DesiredConfigs, FreshHandle DEF RestartFailed
  <2> QED
    BY <1>6, <2>1 DEF RestartFailed, TypeOK, Cleared
<1>7. ASSUME NEW s \in Service, AcceptLoopDies(s) PROVE TypeOK'
  <2>1. running[s] \in Handle
    BY <1>7 DEF AcceptLoopDies, Listening, TypeOK
  <2>2. [running[s] EXCEPT !.alive = FALSE] \in Handle
    BY <2>1 DEF Handle
  <2> QED
    BY <1>7, <2>2 DEF AcceptLoopDies, TypeOK
<1>8. ASSUME NEW p \in Port, PortTaken(p) \/ PortFreed(p) PROVE TypeOK'
  BY <1>8 DEF PortTaken, PortFreed, TypeOK
<1>9. CASE Shutdown
  BY <1>9 DEF Shutdown, TypeOK, Job, Idle
<1>10. CASE UNCHANGED vars
  BY <1>10 DEF vars, TypeOK
<1> QED
  BY <1>1, <1>2, <1>3, <1>4, <1>5, <1>6, <1>7, <1>8, <1>9, <1>10 DEF Next

\* Every step preserves the progress of the apply and the handles' ownership.
LEMMA NextProgress ==
    TypeOK /\ Progress /\ OnlyWantedRun /\ [Next]_vars => Progress' /\ OnlyWantedRun'
<1> SUFFICES ASSUME TypeOK, Progress, OnlyWantedRun, [Next]_vars
             PROVE  Progress' /\ OnlyWantedRun'
  OBVIOUS
<1>1. ASSUME NEW d \in [Service -> Desired \cup {None}], NEW m \in BOOLEAN,
             NEW rotated \in BOOLEAN, BeginApply(d, m, rotated)
      PROVE  Progress' /\ OnlyWantedRun'
  <2>1. \A s \in Service : running'[s] = IF d[s] = None THEN None ELSE running[s]
    BY <1>1 DEF BeginApply
  <2>2. job'.todo = Wanted' /\ job'.failed = {} /\ job'.busy /\ ~stopped'
    BY <1>1 DEF BeginApply, Wanted
  <2>3. \A s \in Service \ job'.todo : last'[s] = None /\ running'[s] = None
    BY <1>1, <2>1, <2>2 DEF BeginApply, Wanted
  <2> QED
    BY <1>1, <2>1, <2>2, <2>3 DEF BeginApply, Progress, OnlyWantedRun, Converged, Wanted
<1>2. ASSUME NEW s \in Service, KeepService(s) PROVE Progress' /\ OnlyWantedRun'
  <2>1. s \in Wanted /\ job.busy /\ ~stopped
    BY <1>2 DEF KeepService, TurnOf, Progress
  <2>2. Converged(s)'
    BY <1>2, <2>1 DEF KeepService, Converged, UpToDate, Changed, Listening, Wanted
  <2>3. \A t \in Service \ job.todo : Converged(t)'
    BY <1>2, <2>1 DEF KeepService, Converged, Progress, TypeOK, Job
  <2> QED
    BY <1>2, <2>1, <2>2, <2>3 DEF KeepService, Progress, OnlyWantedRun, Wanted, TypeOK, Job
<1>3. ASSUME NEW s \in Service, NEW pem \in BOOLEAN, BuildService(s, pem)
      PROVE  Progress' /\ OnlyWantedRun'
  <2>1. s \in Wanted /\ job.busy /\ ~stopped /\ s \in job.todo
    BY <1>3 DEF BuildService, TurnOf, Progress
  <2>2. PICK ok \in BOOLEAN :
           /\ running' = [running EXCEPT ![s] = IF ok THEN Fresh(last[s].chosen)
                                                ELSE Kept(@, last[s].chosen)]
           /\ job' = [job EXCEPT !.todo = @ \ {s},
                                 !.failed = IF ok THEN @ ELSE @ \cup {s}]
    BY <1>3 DEF BuildService, SpawnOk
  <2>3. Fresh(last[s].chosen) # None
    BY <2>1, DesiredConfigs, FreshHandle DEF Wanted
  <2>4. /\ running'[s] = IF ok THEN Fresh(last[s].chosen) ELSE Kept(running[s], last[s].chosen)
        /\ \A t \in Service \ {s} : running'[t] = running[t]
    BY <2>2 DEF TypeOK
  <2>5. /\ job'.todo = job.todo \ {s} /\ job'.busy /\ job'.tls = job.tls
        /\ job'.failed = IF ok THEN job.failed ELSE job.failed \cup {s}
    BY <2>1, <2>2 DEF TypeOK, Job
  <2>6. Converged(s)'
    BY <1>3, <2>1, <2>3, <2>4, <2>5 DEF BuildService, Converged, Fresh, Wanted
  <2>7. \A t \in Service \ job.todo : Converged(t)'
    BY <1>3, <2>1, <2>4, <2>5 DEF BuildService, Converged, Progress
  <2>8. \A t \in job'.failed : running'[t] # None => running'[t].cfg.port # last'[t].chosen.port
    BY <1>3, <2>1, <2>4, <2>5, KeptHandle DEF BuildService, Progress
  <2> QED
    BY <1>3, <2>1, <2>4, <2>5, <2>6, <2>7, <2>8
    DEF BuildService, Progress, OnlyWantedRun, Wanted
<1>4. CASE FinishApply
  BY <1>4 DEF FinishApply, Progress, OnlyWantedRun, Idle, Wanted
<1>5. ASSUME NEW s \in Service, NEW pem \in BOOLEAN,
             RestartRunning(s, pem) \/ RestartFailed(s, pem)
      PROVE  Progress' /\ OnlyWantedRun'
  <2>1. last[s] # None /\ ~job.busy /\ last' = last /\ job' = job
    BY <1>5 DEF RestartRunning, RestartFailed, OnlyWantedRun
  <2>2. \A t \in Service \ {s} : running'[t] = running[t]
    BY <1>5 DEF RestartRunning, RestartFailed, TypeOK
  <2> QED
    BY <2>1, <2>2 DEF Progress, OnlyWantedRun, Wanted, Idle
<1>6. ASSUME NEW s \in Service, AcceptLoopDies(s) PROVE Progress' /\ OnlyWantedRun'
  <2>1. running[s] \in Handle
    BY <1>6 DEF AcceptLoopDies, Listening, TypeOK
  <2>2. /\ running'[s] \in Handle
        /\ running'[s].cfg = running[s].cfg /\ running'[s].cert = running[s].cert
        /\ \A t \in Service \ {s} : running'[t] = running[t]
    BY <1>6, <2>1 DEF AcceptLoopDies, TypeOK, Handle
  <2>3. \A t \in Service : running'[t] = None <=> running[t] = None
    BY <2>1, <2>2, NoneAssumption
  <2>4. /\ last' = last /\ job' = job /\ cert' = cert /\ stopped' = stopped
    BY <1>6 DEF AcceptLoopDies
  <2>5. \A t \in Service : Converged(t) => Converged(t)'
    BY <2>2, <2>3, <2>4 DEF Converged
  <2>6. \A t \in Service : running'[t] # None => running'[t].cfg = running[t].cfg
    BY <2>2, <2>3
  <2> QED
    BY <2>3, <2>4, <2>5, <2>6 DEF Progress, OnlyWantedRun, Wanted, TypeOK, Job
<1>7. ASSUME NEW p \in Port, PortTaken(p) \/ PortFreed(p) PROVE Progress' /\ OnlyWantedRun'
  BY <1>7 DEF PortTaken, PortFreed, Progress, OnlyWantedRun, Converged, Wanted, Idle
<1>8. CASE Shutdown
  BY <1>8 DEF Shutdown, Progress, OnlyWantedRun, Idle, Wanted
<1>9. CASE UNCHANGED vars
  BY <1>9 DEF vars, Progress, OnlyWantedRun, Converged, Wanted, Idle
<1> QED
  BY <1>1, <1>2, <1>3, <1>4, <1>5, <1>6, <1>7, <1>8, <1>9 DEF Next

\* What the failure entries say of each service once no apply is under way.
Accounted(s) ==
    /\ s \in Wanted <=> (running[s] # None \/ failures[s] > 0)
    /\ running[s] # None /\ failures[s] > 0 => running[s].cfg.port # last[s].chosen.port
    /\ running[s] # None => failures[s] <= 1

LEMMA AccountedIsInvariant ==
    (Quiet => \A s \in Service : Accounted(s))
        <=> SnapshotCoversDesired /\ HiddenFailureIsPortMove /\ RunningHasOneFailureAtMost
BY DEF Accounted, SnapshotCoversDesired, HiddenFailureIsPortMove, RunningHasOneFailureAtMost

\* Every step keeps each gap explained.
LEMMA NextAccounted ==
    IInv /\ [Next]_vars => (Quiet => \A s \in Service : Accounted(s))'
<1> SUFFICES ASSUME IInv, [Next]_vars, Quiet'
             PROVE  \A s \in Service : Accounted(s)'
  OBVIOUS
<1> USE DEF IInv
<1>1. Quiet => \A s \in Service : Accounted(s)
  BY AccountedIsInvariant
<1>2. ASSUME NEW d \in [Service -> Desired \cup {None}], NEW m \in BOOLEAN,
             NEW rotated \in BOOLEAN, BeginApply(d, m, rotated)
      PROVE  FALSE
  BY <1>2 DEF BeginApply, Quiet
<1>3. ASSUME NEW s \in Service, NEW pem \in BOOLEAN, KeepService(s) \/ BuildService(s, pem)
      PROVE  FALSE
  BY <1>3 DEF KeepService, BuildService, TurnOf, Quiet, TypeOK, Job
<1>4. CASE FinishApply
  <2>1. \A s \in Service : failures'[s] = IF s \in job.failed THEN 1 ELSE 0
    BY <1>4 DEF FinishApply, Recorded
  <2>2. \A s \in Service : Converged(s)
    BY <1>4 DEF FinishApply, Progress
  <2>3. \A s \in job.failed : last[s] # None
                /\ (running[s] # None => running[s].cfg.port # last[s].chosen.port)
    BY <1>4 DEF FinishApply, Progress, Wanted
  <2> QED
    BY <1>4, <2>1, <2>2, <2>3 DEF FinishApply, Accounted, Converged, Wanted
<1>5. ASSUME NEW s \in Service, NEW pem \in BOOLEAN, RestartRunning(s, pem)
      PROVE  \A t \in Service : Accounted(t)'
  <2>1. /\ \A t \in Service : Accounted(t)
        /\ last' = last /\ last[s] # None
    BY <1>1, <1>5 DEF RestartRunning, Quiet, OnlyWantedRun
  <2>2. \A t \in Service \ {s} : running'[t] = running[t] /\ failures'[t] = failures[t]
    BY <1>5 DEF RestartRunning, TypeOK, Cleared, Pushed
  <2>3. running[s].cfg \in Config
    BY <1>5 DEF RestartRunning, TypeOK, Handle
  <2>4. Fresh(running[s].cfg) # None
    BY <2>3, FreshHandle
  <2>5. \/ running'[s] # None /\ failures'[s] = 0
        \/ running'[s] = None /\ failures'[s] > 0
    BY <1>5, <2>4 DEF RestartRunning, TypeOK, Cleared, Pushed
  <2> QED
    BY <2>1, <2>2, <2>5 DEF Accounted, Wanted
<1>6. ASSUME NEW s \in Service, NEW pem \in BOOLEAN, RestartFailed(s, pem)
      PROVE  \A t \in Service : Accounted(t)'
  <2>1. /\ \A t \in Service : Accounted(t)
        /\ last' = last /\ last[s] # None
    BY <1>1, <1>6 DEF RestartFailed, Quiet
  <2>2. \A t \in Service \ {s} : running'[t] = running[t] /\ failures'[t] = failures[t]
    BY <1>6 DEF RestartFailed, TypeOK, Cleared
  <2>3. Fresh(last[s].first) # None
    BY <2>1, DesiredConfigs, FreshHandle
  <2>4. running'[s] # None /\ failures'[s] = 0
    BY <1>6, <2>3 DEF RestartFailed, TypeOK, Cleared
  <2> QED
    BY <2>1, <2>2, <2>4 DEF Accounted, Wanted
<1>7. ASSUME NEW s \in Service, AcceptLoopDies(s)
      PROVE  \A t \in Service : Accounted(t)'
  <2>1. \A t \in Service : Accounted(t)
    BY <1>1, <1>7 DEF AcceptLoopDies, Quiet
  <2>2. running[s] \in Handle
    BY <1>7 DEF AcceptLoopDies, Listening, TypeOK
  <2>3. /\ running'[s] \in Handle /\ running'[s].cfg = running[s].cfg
        /\ \A t \in Service \ {s} : running'[t] = running[t]
    BY <1>7, <2>2 DEF AcceptLoopDies, TypeOK, Handle
  <2>4. \A t \in Service : /\ running'[t] = None <=> running[t] = None
                           /\ running[t] # None => running'[t].cfg = running[t].cfg
    BY <2>2, <2>3, NoneAssumption
  <2> QED
    BY <1>7, <2>1, <2>4 DEF AcceptLoopDies, Accounted, Wanted
<1>8. ASSUME NEW p \in Port, PortTaken(p) \/ PortFreed(p)
      PROVE  \A s \in Service : Accounted(s)'
  BY <1>1, <1>8 DEF PortTaken, PortFreed, Accounted, Wanted, Quiet
<1>9. CASE Shutdown
  BY <1>9 DEF Shutdown, Quiet
<1>10. CASE UNCHANGED vars
  BY <1>1, <1>10 DEF vars, Accounted, Wanted, Quiet
<1> QED
  BY <1>2, <1>3, <1>4, <1>5, <1>6, <1>7, <1>8, <1>9, <1>10 DEF Next

LEMMA NextIInv == IInv /\ [Next]_vars => IInv'
<1> SUFFICES ASSUME IInv, [Next]_vars PROVE IInv'
  OBVIOUS
<1>1. TypeOK'
  BY NextTypeOK DEF IInv
<1>2. Progress' /\ OnlyWantedRun'
  BY NextProgress DEF IInv
<1>3. (Quiet => \A s \in Service : Accounted(s))'
  BY NextAccounted
<1>4. SnapshotCoversDesired' /\ HiddenFailureIsPortMove' /\ RunningHasOneFailureAtMost'
  BY <1>3 DEF Accounted, SnapshotCoversDesired, HiddenFailureIsPortMove,
              RunningHasOneFailureAtMost
<1> QED
  BY <1>1, <1>2, <1>4 DEF IInv

\* The supervisor's inductive invariant holds throughout.
THEOREM Invariance == Spec => []IInv
<1> QED
  BY InitIInv, NextIInv, PTL DEF Spec

\* Every variable keeps its type; a name has at most two failure entries.
THEOREM TypeCorrect == Spec => []TypeOK
<1>1. IInv => TypeOK
  BY DEF IInv
<1> QED
  BY <1>1, Invariance, PTL

\* A health snapshot lists the desired services and no other: the control
\* plane never drops the row of a service it still wants.
THEOREM SnapshotCoverage == Spec => []SnapshotCoversDesired
<1>1. IInv => SnapshotCoversDesired
  BY DEF IInv
<1> QED
  BY <1>1, Invariance, PTL

\* A failure hidden behind a running row is always a port move.
THEOREM HiddenFailures == Spec => []HiddenFailureIsPortMove
<1>1. IInv => HiddenFailureIsPortMove
  BY DEF IInv
<1> QED
  BY <1>1, Invariance, PTL

\* A running service carries one failure entry at most.
THEOREM FailureRows == Spec => []RunningHasOneFailureAtMost
<1>1. IInv => RunningHasOneFailureAtMost
  BY DEF IInv
<1> QED
  BY <1>1, Invariance, PTL

\* An apply that runs to its end leaves each desired service built as asked or
\* listed as failed.
THEOREM ApplyConvergence == Spec => ApplyConverges
<1> DEFINE A == job.busy /\ ~job'.busy /\ ~stopped' =>
                   \A s \in Service :
                      /\ Converged(s)
                      /\ (failures'[s] > 0 <=> s \in job.failed)
                      /\ running'[s] = running[s]
<1>1. IInv /\ [Next]_vars => [A]_vars
  <2> SUFFICES ASSUME IInv, Next, job.busy, ~job'.busy, ~stopped' PROVE A
    OBVIOUS
  <2>1. job \in Job
    BY DEF IInv, TypeOK
  <2>2. FinishApply
    BY <2>1 DEF Next, BeginApply, KeepService, BuildService, RestartRunning, RestartFailed,
                AcceptLoopDies, PortTaken, PortFreed, Shutdown, Job
  <2> QED
    BY <2>2 DEF FinishApply, IInv, Progress, Recorded
<1> HIDE DEF A
<1>2. Spec => [][A]_vars
  BY <1>1, Invariance, PTL DEF Spec
<1> QED
  BY <1>2 DEF A, ApplyConverges

\* A step of an apply never silences a service whose port moves.
THEOREM SeamlessPortMove == Spec => PortMoveIsSeamless
<1> DEFINE A == ~stopped' /\ job' # job =>
                   \A s \in Service :
                      /\ Listening(s) /\ last'[s] # None
                      /\ running[s].cfg.port # last'[s].chosen.port
                      => Listening(s)'
<1>1. IInv /\ [Next]_vars => [A]_vars
  <2> SUFFICES ASSUME IInv, Next, ~stopped', job' # job,
                      NEW s \in Service, Listening(s), last'[s] # None,
                      running[s].cfg.port # last'[s].chosen.port
               PROVE  Listening(s)'
    OBVIOUS
  <2>1. ASSUME NEW d \in [Service -> Desired \cup {None}], NEW m \in BOOLEAN,
               NEW rotated \in BOOLEAN, BeginApply(d, m, rotated)
        PROVE  Listening(s)'
    BY <2>1 DEF BeginApply, Listening
  <2>2. ASSUME NEW t \in Service, KeepService(t) PROVE Listening(s)'
    BY <2>2 DEF KeepService, Listening
  <2>3. ASSUME NEW t \in Service, NEW pem \in BOOLEAN, BuildService(t, pem)
        PROVE  Listening(s)'
    <3>1. CASE s # t
      BY <2>3, <3>1 DEF BuildService, Listening, IInv, TypeOK
    <3>2. CASE s = t
      <4>1. PICK ok \in BOOLEAN :
               running'[s] = IF ok THEN Fresh(last[s].chosen) ELSE Kept(running[s], last[s].chosen)
        BY <2>3, <3>2 DEF BuildService, SpawnOk, IInv, TypeOK
      <4>2. last' = last
        BY <2>3 DEF BuildService
      <4>3. Fresh(last[s].chosen) # None /\ Fresh(last[s].chosen).alive
        BY <4>2, DesiredConfigs, FreshHandle DEF Fresh, IInv
      <4>4. Kept(running[s], last[s].chosen) = running[s]
        BY <4>2 DEF Kept, Listening
      <4> QED
        BY <4>1, <4>3, <4>4 DEF Listening
    <3> QED
      BY <3>1, <3>2
  <2>4. CASE FinishApply
    BY <2>4 DEF FinishApply, Listening
  <2> QED
    BY <2>1, <2>2, <2>3, <2>4 DEF Next, RestartRunning, RestartFailed, AcceptLoopDies,
       PortTaken, PortFreed, Shutdown
<1> HIDE DEF A
<1>2. Spec => [][A]_vars
  BY <1>1, Invariance, PTL DEF Spec
<1> QED
  BY <1>2 DEF A, PortMoveIsSeamless

-----------------------------------------------------------------------------
(* The control loop and its push channel.  The events of the channel are a *)
(* sequence: the first lemmas say what a queue still holds after an event  *)
(* is put in or taken out.                                                 *)

USE DEF Event

-----------------------------------------------------------------------------
(* Queues. *)

Among(e, s) == \E i \in 1 .. Len(s) : s[i] = e

\* What a queue holds, as module AgentLink asks for it.
LEMMA QueuedIsAmong == \A e : Queued(e) <=> Among(e, queue)
BY DEF Queued, Among

\* Events put behind a queue hide nothing in it, and all of them are in it.
LEMMA AmongConcat ==
    ASSUME NEW s \in Seq(Event), NEW t \in Seq(Event)
    PROVE  /\ s \o t \in Seq(Event) /\ Len(s \o t) = Len(s) + Len(t)
           /\ \A e : Among(e, s) \/ Among(e, t) => Among(e, s \o t)
<1>1. s \o t \in Seq(Event) /\ Len(s \o t) = Len(s) + Len(t)
  OBVIOUS
<1>2. ASSUME NEW e, Among(e, s) PROVE Among(e, s \o t)
  <2>1. PICK i \in 1 .. Len(s) : s[i] = e
    BY <1>2 DEF Among
  <2>2. i \in 1 .. Len(s \o t) /\ (s \o t)[i] = e
    BY <2>1, <1>1
  <2> QED
    BY <2>2 DEF Among
<1>3. ASSUME NEW e, Among(e, t) PROVE Among(e, s \o t)
  <2>1. PICK i \in 1 .. Len(t) : t[i] = e
    BY <1>3 DEF Among
  <2>2. i + Len(s) \in 1 .. Len(s \o t) /\ (s \o t)[i + Len(s)] = e
    BY <2>1, <1>1
  <2> QED
    BY <2>2 DEF Among
<1> QED
  BY <1>1, <1>2, <1>3

\* The same for a single event.
LEMMA AmongAppend ==
    ASSUME NEW s \in Seq(Event), NEW x \in Event
    PROVE  /\ Append(s, x) \in Seq(Event) /\ Len(Append(s, x)) = Len(s) + 1
           /\ \A e : Among(e, s) \/ e = x => Among(e, Append(s, x))
<1>1. Append(s, x) \in Seq(Event) /\ Len(Append(s, x)) = Len(s) + 1
  OBVIOUS
<1>2. ASSUME NEW e, Among(e, s) PROVE Among(e, Append(s, x))
  <2>1. PICK i \in 1 .. Len(s) : s[i] = e
    BY <1>2 DEF Among
  <2>2. i \in 1 .. Len(Append(s, x)) /\ Append(s, x)[i] = e
    BY <2>1, <1>1
  <2> QED
    BY <2>2 DEF Among
<1>3. Among(x, Append(s, x))
  <2>1. Len(s) + 1 \in 1 .. Len(Append(s, x)) /\ Append(s, x)[Len(s) + 1] = x
    BY <1>1
  <2> QED
    BY <2>1 DEF Among
<1> QED
  BY <1>1, <1>2, <1>3

\* Taking the head leaves every other event.
LEMMA AmongTail ==
    ASSUME NEW s \in Seq(Event), s # <<>>
    PROVE  /\ Head(s) \in Event /\ Tail(s) \in Seq(Event) /\ Len(Tail(s)) = Len(s) - 1
           /\ \A e : Among(e, s) /\ e # Head(s) => Among(e, Tail(s))
<1>1. Head(s) \in Event /\ Head(s) = s[1] /\ Tail(s) \in Seq(Event) /\ Len(Tail(s)) = Len(s) - 1
  OBVIOUS
<1>2. ASSUME NEW e, Among(e, s), e # Head(s) PROVE Among(e, Tail(s))
  <2>1. PICK i \in 1 .. Len(s) : s[i] = e
    BY <1>2 DEF Among
  <2>2. i # 1
    BY <2>1, <1>2, <1>1
  <2>3. i - 1 \in 1 .. Len(Tail(s)) /\ Tail(s)[i - 1] = e
    BY <2>1, <2>2, <1>1
  <2> QED
    BY <2>3 DEF Among
<1> QED
  BY <1>1, <1>2

\* A change of mode is announced by one event, and no other event is.
LEMMA AnnounceType ==
    ASSUME NEW mode \in BOOLEAN
    PROVE  /\ Announce(mode) \in Seq(Event)
           /\ Len(Announce(mode)) \in Nat /\ Len(Announce(mode)) <= 1
           /\ mode # wsMode => Among("mode_changed", Announce(mode))
<1>1. CASE mode # wsMode
  <2>1. Announce(mode) = <<"mode_changed">>
    BY <1>1 DEF Announce
  <2>2. <<"mode_changed">> \in Seq(Event) /\ Len(<<"mode_changed">>) = 1 /\ <<"mode_changed">>[1] = "mode_changed"
    OBVIOUS
  <2>3. Among("mode_changed", <<"mode_changed">>)
    BY <2>2 DEF Among
  <2> QED
    BY <2>1, <2>2, <2>3
<1>2. CASE mode = wsMode
  BY <1>2 DEF Announce
<1> QED
  BY <1>1, <1>2

-----------------------------------------------------------------------------
(* Types. *)

\* What the loop may wait is bounded by a fifth more than its longest interval.
LEMMA WaitsAreBounded ==
    ASSUME NEW b \in 0 .. LongestBackoff
    PROVE  /\ LongestWait \in Nat \ {0} /\ SafetyNet <= LongestWait
           /\ Waits(b) \subseteq 1 .. LongestWait
           /\ ~wsMode => Waits(0) = {PollInterval}
BY LoopAssumption DEF Waits, Jittered, LongestWait, LongestBackoff, Greater

\* The backoff grows from zero and stays within the longest.
LEMMA GrownIsBounded ==
    ASSUME NEW b \in 0 .. LongestBackoff
    PROVE  Grown(b) \in 1 .. LongestBackoff
BY LoopAssumption DEF Grown, Lesser, LongestBackoff, Greater

\* The first state is one of the channel and of the loop.
LEMMA InitTypes == LinkInit => LinkTypeOK
<1> SUFFICES ASSUME LinkInit PROVE LinkTypeOK
  OBVIOUS
<1> USE WsAssumption, LoopAssumption DEF LinkInit, WsInit
<1>1. queue \in Seq(Event) /\ Len(queue) = 0
  OBVIOUS
<1>2. wsFailures \in SUBSET (0 .. Window - 1)
  OBVIOUS
<1>3. /\ wsMode \in BOOLEAN /\ peer \in BOOLEAN
      /\ phase \in {"connecting", "session", "sleeping"}
  OBVIOUS
<1>4. /\ pause \in 0 .. (BackoffMax + ProbeInterval) /\ retry \in BackoffMin .. BackoffMax
      /\ beat \in 0 .. Heartbeat /\ watchdog \in 0 .. 2 * Heartbeat
      /\ Len(queue) <= QueueBound
  BY <1>1
<1>5. WsTypeOK
  BY <1>1, <1>2, <1>3, <1>4 DEF WsTypeOK
<1>6. 0 \in 0 .. LongestBackoff
  BY DEF LongestBackoff, Greater
<1>7. LongestWait \in Nat \ {0} /\ SafetyNet <= LongestWait
  BY <1>6, WaitsAreBounded
<1>8. /\ wait \in 0 .. LongestWait /\ tick \in 0 .. Heartbeat
      /\ backoff \in 0 .. LongestBackoff /\ idle \in 0 .. LongestWait + 1
  BY <1>6, <1>7
<1>9. unseen \in BOOLEAN /\ dropped \in BOOLEAN /\ loop = "waiting"
  OBVIOUS
<1>10. calls \in Nat /\ broadcasts \in Nat /\ calls + broadcasts <= MaxPushes
  <2>1. calls = 0 /\ broadcasts = 0 /\ MaxPushes \in Nat
    BY Zenon
  <2> QED
    BY <2>1
<1> QED
  BY <1>5, <1>8, <1>9, <1>10 DEF LinkTypeOK

\* A recorded failure leaves a channel that sleeps, and announces a change of mode.
LEMMA RecordFailureTypes == WsTypeOK /\ RecordFailure => WsTypeOK'
<1> SUFFICES ASSUME WsTypeOK, RecordFailure PROVE WsTypeOK'
  OBVIOUS
<1> USE WsAssumption
<1> DEFINE mode == ~Demoted(wsFailures \cup {0})
<1>0. mode \in BOOLEAN
  BY DEF Demoted
<1>1. Announce(mode) \in Seq(Event) /\ Len(Announce(mode)) \in Nat /\ Len(Announce(mode)) <= 1
  BY <1>0, AnnounceType
<1>2. queue' \in Seq(Event) /\ Len(queue') <= QueueBound
  <2>1. queue' = queue \o Announce(mode) /\ HasRoom(1)
    BY DEF RecordFailure
  <2>2. queue' \in Seq(Event) /\ Len(queue') = Len(queue) + Len(Announce(mode))
    BY <2>1, <1>1, AmongConcat DEF WsTypeOK
  <2> QED
    BY <2>1, <2>2, <1>1, Len(queue) \in Nat DEF HasRoom, WsTypeOK
<1>3. retry' \in BackoffMin .. BackoffMax /\ pause' \in 0 .. (BackoffMax + ProbeInterval)
  BY DEF RecordFailure, WsTypeOK, Lesser
<1>4. wsFailures' \in SUBSET (0 .. Window - 1)
  BY DEF RecordFailure, WsTypeOK
<1>5. wsMode' \in BOOLEAN
  BY <1>0, Zenon DEF RecordFailure
<1>6. phase' \in {"connecting", "session", "sleeping"} /\ peer' \in BOOLEAN
  BY DEF RecordFailure
<1>7. beat' \in 0 .. Heartbeat /\ watchdog' \in 0 .. 2 * Heartbeat
  BY DEF RecordFailure
<1> QED
  BY <1>2, <1>3, <1>4, <1>5, <1>6, <1>7 DEF WsTypeOK

\* A connection is announced behind the change of mode it may bring.
LEMMA ConnectTypes ==
    WsTypeOK /\ Connect =>
        /\ WsTypeOK'
        /\ \A e : Among(e, queue) \/ e = "connected" => Among(e, queue')
<1> SUFFICES ASSUME WsTypeOK, Connect
             PROVE  /\ WsTypeOK'
                    /\ \A e : Among(e, queue) \/ e = "connected" => Among(e, queue')
  OBVIOUS
<1> USE WsAssumption
<1> DEFINE q == queue \o Announce(TRUE)
<1>1. Announce(TRUE) \in Seq(Event) /\ Len(Announce(TRUE)) \in Nat /\ Len(Announce(TRUE)) <= 1
  BY AnnounceType
<1>q. queue \in Seq(Event) /\ Len(queue) \in Nat
  BY DEF WsTypeOK
<1>2. /\ q \in Seq(Event) /\ Len(q) = Len(queue) + Len(Announce(TRUE))
      /\ \A e : Among(e, queue) => Among(e, q)
  BY <1>1, <1>q, AmongConcat
<1>3. <<"connected">> \in Seq(Event) /\ Len(<<"connected">>) = 1 /\ Among("connected", <<"connected">>)
  BY DEF Among
<1>4. queue' = q \o <<"connected">>
  BY DEF Connect
<1> HIDE DEF q
<1>5. /\ queue' \in Seq(Event) /\ Len(queue') = Len(q) + 1
      /\ \A e : Among(e, q) \/ Among(e, <<"connected">>) => Among(e, queue')
  BY <1>2, <1>3, <1>4, AmongConcat
<1>6. Len(queue') <= QueueBound
  <2>1. Len(queue) + 2 <= QueueBound
    BY DEF Connect, HasRoom
  <2>2. Len(Announce(TRUE)) \in Nat
    BY <1>1
  <2>3. Len(queue') = Len(queue) + Len(Announce(TRUE)) + 1
    BY <1>2, <1>5, <1>q, <2>2
  <2>4. ASSUME NEW m \in Nat, NEW n \in Nat, n <= 1, m + 2 <= QueueBound PROVE m + n + 1 <= QueueBound
    BY <2>4
  <2>5. Len(queue) + Len(Announce(TRUE)) + 1 <= QueueBound
    BY <1>1, <1>q, <2>1, <2>4
  <2> QED
    BY <2>3, <2>5
<1>7. \A e : Among(e, queue) \/ e = "connected" => Among(e, queue')
  BY <1>2, <1>3, <1>5
<1>8. WsTypeOK'
  <2>1. wsMode' \in BOOLEAN /\ peer' \in BOOLEAN /\ phase' \in {"connecting", "session", "sleeping"}
    BY DEF Connect
  <2>2. wsFailures' \in SUBSET (0 .. Window - 1)
    BY DEF Connect
  <2>3. /\ pause' \in 0 .. (BackoffMax + ProbeInterval) /\ retry' \in BackoffMin .. BackoffMax
        /\ beat' \in 0 .. Heartbeat /\ watchdog' \in 0 .. 2 * Heartbeat
    BY DEF Connect, WsTypeOK
  <2> QED
    BY <1>5, <1>6, <2>1, <2>2, <2>3 DEF WsTypeOK
<1> QED
  BY <1>7, <1>8

\* A frame puts one event into the queue, or none.
LEMMA FrameTypes ==
    ASSUME WsTypeOK, NEW x \in Event, HasRoom(1), queue' = Append(queue, x)
    PROVE  /\ queue' \in Seq(Event) /\ Len(queue') <= QueueBound
           /\ \A e : Among(e, queue) \/ e = x => Among(e, queue')
<1>1. /\ queue' \in Seq(Event) /\ Len(queue') = Len(queue) + 1
      /\ \A e : Among(e, queue) \/ e = x => Among(e, queue')
  BY AmongAppend DEF WsTypeOK
<1> QED
  BY <1>1, WsAssumption DEF HasRoom, WsTypeOK

\* Time passes: every timer runs down, and a failure leaves before it is Window old.
LEMMA TickTypes == WsTypeOK /\ WsTick => WsTypeOK'
<1> SUFFICES ASSUME WsTypeOK, WsTick PROVE WsTypeOK'
  OBVIOUS
<1>1. wsFailures' \in SUBSET (0 .. Window - 1)
  <2>1. wsFailures \in SUBSET (0 .. Window - 1) /\ wsFailures' = Aged(wsFailures)
    BY DEF WsTypeOK, WsTick
  <2>2. \A x \in wsFailures : x + 1 < Window => x + 1 \in 0 .. Window - 1
    BY <2>1, WsAssumption
  <2>3. \A y \in Aged(wsFailures) : \E x \in wsFailures : x + 1 < Window /\ y = x + 1
    BY DEF Aged
  <2> QED
    BY <2>1, <2>2, <2>3
<1> USE WsAssumption DEF WsTypeOK, WsTick
<1>2. /\ pause' \in 0 .. (BackoffMax + ProbeInterval)
      /\ beat' \in 0 .. Heartbeat /\ watchdog' \in 0 .. 2 * Heartbeat
  BY DEF CountDown
<1> QED
  BY <1>1, <1>2

\* The loop takes an event: every other one is still queued.
LEMMA TakeEventTypes ==
    ASSUME WsTypeOK, TakeEvent
    PROVE  /\ Head(queue) \in Event
           /\ queue' \in Seq(Event) /\ Len(queue') <= QueueBound
           /\ \A e : Among(e, queue) /\ e # Head(queue) => Among(e, queue')
<1>1. queue \in Seq(Event) /\ queue # <<>> /\ queue' = Tail(queue) /\ Len(queue) <= QueueBound
  BY DEF WsTypeOK, TakeEvent
<1>2. /\ Head(queue) \in Event /\ queue' \in Seq(Event) /\ Len(queue') = Len(queue) - 1
      /\ \A e : Among(e, queue) /\ e # Head(queue) => Among(e, queue')
  BY <1>1, AmongTail
<1> QED
  BY <1>1, <1>2, WsAssumption

\* Every step of the channel keeps its types; those that are the loop's leave it alone.
LEMMA ChannelTypes ==
    WsTypeOK /\ (ConnectEnds \/ Due \/ SocketDies \/ Remote \/ Deliver) => WsTypeOK'
<1> SUFFICES ASSUME WsTypeOK, ConnectEnds \/ Due \/ SocketDies \/ Remote \/ Deliver PROVE WsTypeOK'
  OBVIOUS
<1> USE WsAssumption
<1>1. CASE Connect
  BY <1>1, ConnectTypes
<1>2. CASE RecordFailure
  BY <1>2, RecordFailureTypes
<1>3. CASE Reconnect
  BY <1>3 DEF Reconnect, WsTypeOK
<1>4. CASE Beat \/ IdleFrame
  <2>1. beat' \in 0 .. Heartbeat /\ watchdog' \in 0 .. 2 * Heartbeat
    BY <1>4 DEF Beat, IdleFrame, WsTypeOK
  <2> QED
    BY <1>4, <2>1 DEF Beat, IdleFrame, WsTypeOK
<1>7. CASE PeerVanishes
  BY <1>7 DEF PeerVanishes, WsTypeOK
<1>5. CASE RestartFrame
  <2>1. queue' \in Seq(Event) /\ Len(queue') <= QueueBound
    BY <1>5, FrameTypes, "restart_service" \in Event DEF RestartFrame
  <2> QED
    BY <1>5, <2>1 DEF RestartFrame, WsTypeOK
<1>6. CASE ConfigFrame
  <2>1. queue' \in Seq(Event) /\ Len(queue') <= QueueBound
    BY <1>6, FrameTypes, "config_changed" \in Event DEF ConfigFrame
  <2> QED
    BY <1>6, <2>1 DEF ConfigFrame, WsTypeOK
<1> QED
  BY <1>1, <1>2, <1>3, <1>4, <1>5, <1>6, <1>7
     DEF ConnectEnds, Due, SocketDies, Remote, Deliver, ConnectRefused, SessionCloses, SessionFails

\* Every step keeps the types of the channel and of the loop.
LEMMA NextTypes == LinkTypeOK /\ [LinkNext]_linkVars => LinkTypeOK'
<1> SUFFICES ASSUME LinkTypeOK, [LinkNext]_linkVars PROVE LinkTypeOK'
  OBVIOUS
<1> USE LoopAssumption, WsAssumption
<1>a. LongestWait \in Nat \ {0} /\ \A b \in 0 .. LongestBackoff : Waits(b) \subseteq 1 .. LongestWait
  BY WaitsAreBounded DEF LongestBackoff, Greater
<1>b. 0 \in 0 .. LongestBackoff /\ backoff \in 0 .. LongestBackoff
  BY DEF LinkTypeOK, LongestBackoff, Greater
<1>c. WsTypeOK
  BY DEF LinkTypeOK
<1>1. CASE Loop
  <2>1. WsTypeOK'
    <3>1. CASE TakeEvent /\ UNCHANGED <<wsMode, phase, pause, wsFailures, retry, beat, watchdog, peer>>
      BY <3>1, <1>c, TakeEventTypes DEF WsTypeOK
    <3>2. CASE UNCHANGED wsVars
      BY <3>2, <1>c DEF WsTypeOK, wsVars
    <3> QED
      BY <1>1, <3>1, <3>2 DEF Loop, TimerElapses, HeartbeatTick, HeartbeatSent, WakeToPoll, WakeToRearm,
         FetchAnswered, FetchFails, PollEnds
  <2>2. CASE TimerElapses \/ WakeToPoll
    BY <2>1, <2>2, <1>a DEF LinkTypeOK, pushVars, TimerElapses, WakeToPoll, StartPoll
  <2>3. CASE HeartbeatTick
    BY <2>1, <2>3, <1>a, <1>b DEF LinkTypeOK, pushVars, HeartbeatTick, Rearm
  <2>4. CASE HeartbeatSent \/ WakeToRearm
    BY <2>1, <2>4, <1>a, <1>b DEF LinkTypeOK, pushVars, HeartbeatSent, WakeToRearm, Rearm
  <2>5. CASE FetchAnswered
    BY <2>1, <2>5 DEF LinkTypeOK, FetchAnswered
  <2>6. CASE FetchFails
    <3>1. backoff' \in 0 .. LongestBackoff
      BY <2>6, <1>b, GrownIsBounded DEF FetchFails
    <3> QED
      BY <2>1, <2>6, <3>1, <1>a DEF LinkTypeOK, pushVars, FetchFails, Rearm
  <2>7. CASE PollEnds
    BY <2>1, <2>7, <1>a, <1>b DEF LinkTypeOK, pushVars, PollEnds, Rearm
  <2> QED
    BY <1>1, <2>2, <2>3, <2>4, <2>5, <2>6, <2>7 DEF Loop
<1>2. CASE ConnectEnds \/ Due \/ SocketDies \/ Remote \/ Deliver
  <2>1. WsTypeOK'
    BY <1>2, <1>c, ChannelTypes
  <2>2. UNCHANGED <<loop, wait, tick, backoff, unseen, idle, calls, dropped>>
    BY <1>2 DEF ConnectEnds, Due, SocketDies, Remote, Deliver, OnItsOwn, loopVars
  <2>3. broadcasts' \in Nat /\ calls + broadcasts' <= MaxPushes
    <3>1. broadcasts' \in {0, broadcasts} \/ (broadcasts > 0 /\ broadcasts' = broadcasts - 1)
      BY <1>2 DEF ConnectEnds, Due, SocketDies, Remote, Deliver, OnItsOwn
    <3> QED
      BY <3>1 DEF LinkTypeOK
  <2> QED
    BY <2>1, <2>2, <2>3 DEF LinkTypeOK
<1>3. CASE ConfigChanges \/ PushSent \/ PushFails
  <2>1. /\ UNCHANGED <<wsVars, loop, wait, tick, backoff, idle>> /\ unseen' \in BOOLEAN /\ dropped' \in BOOLEAN
        /\ calls' \in Nat /\ broadcasts' \in Nat /\ calls' + broadcasts' <= MaxPushes
    <3>1. CASE ConfigChanges
      BY <3>1 DEF ConfigChanges, LinkTypeOK
    <3>2. CASE PushSent
      <4>1. calls' = calls - 1 /\ broadcasts' \in {broadcasts, broadcasts + 1} /\ calls > 0
        BY <3>2 DEF PushSent, LinkTypeOK
      <4> QED
        BY <3>2, <4>1 DEF PushSent, LinkTypeOK, loopVars, Live
    <3>3. CASE PushFails
      BY <3>3 DEF PushFails, LinkTypeOK, loopVars, Live
    <3> QED
      BY <1>3, <3>1, <3>2, <3>3
  <2> QED
    BY <2>1, <1>c DEF LinkTypeOK, WsTypeOK, wsVars
<1>4. CASE Tick
  <2>1. WsTypeOK'
    BY <1>4, <1>c, TickTypes DEF Tick
  <2>2. wait' \in 0 .. LongestWait /\ tick' \in 0 .. Heartbeat
    BY <1>4, <1>a DEF Tick, LinkTypeOK, CountDown
  <2>3. idle' \in 0 .. LongestWait + 1
    BY <1>4, <1>a DEF Tick, LinkTypeOK, Lesser
  <2> QED
    BY <1>4, <2>1, <2>2, <2>3 DEF Tick, LinkTypeOK, pushVars
<1>5. CASE UNCHANGED linkVars
  BY <1>5 DEF linkVars, wsVars, loopVars, pushVars, LinkTypeOK, WsTypeOK
<1> QED
  BY <1>1, <1>2, <1>3, <1>4, <1>5 DEF LinkNext

\* For every interval and bound, the timers of the channel and of the loop, its
\* backoff and the queue between them stay within theirs.
THEOREM LinkTypes == LinkSpec => []LinkTypeOK
<1> QED
  BY InitTypes, NextTypes, PTL DEF LinkSpec

-----------------------------------------------------------------------------
(* A change the agent has not been sent. *)

\* What is done about a change: its push is to come or on its way, it waits in the
\* queue, or the session it was lost with is gone and the next one starts with a
\* poll; or it is dropped.
Pending ==
    \/ calls > 0 \/ broadcasts > 0
    \/ Queued("connected") \/ Queued("config_changed")
    \/ ~Live
    \/ dropped

\* The loop may rely on its own backoff only until it has an answer: while it
\* applies one, nothing but the channel will tell it of a change, and the backoff
\* is about to be reset.
CoverInv ==
    unseen => Pending \/ loop = "fetching" \/ (backoff > 0 /\ loop # "applying")

\* The channel drops nothing that is pending: an event stays queued, and a broadcast
\* is lost only with its session.
LEMMA ChannelKeepsPending ==
    LinkTypeOK /\ Pending /\ (ConnectEnds \/ Due \/ SocketDies \/ Remote \/ Deliver) => Pending'
<1> SUFFICES ASSUME LinkTypeOK, Pending, ConnectEnds \/ Due \/ SocketDies \/ Remote \/ Deliver
             PROVE  Pending'
  OBVIOUS
<1>a. WsTypeOK /\ WsTypeOK'
  BY ChannelTypes DEF LinkTypeOK
<1>b. \A e : (Queued(e) <=> Among(e, queue)) /\ (Queued(e)' <=> Among(e, queue'))
  BY DEF Queued, Among
<1>1. CASE Connect
  <2>1. Among("connected", queue')
    BY <1>1, <1>a, ConnectTypes
  <2> QED
    BY <2>1, <1>b DEF Pending
<1>2. CASE RecordFailure
  <2>1. phase' # "session"
    BY <1>2 DEF RecordFailure
  <2> QED
    BY <2>1 DEF Pending, Live
<1>3. CASE (Reconnect \/ Beat \/ IdleFrame) /\ OnItsOwn
  <2>1. /\ queue' = queue /\ peer' = peer /\ UNCHANGED <<calls, dropped>>
        /\ phase' \in {phase, "connecting"} /\ (peer' => broadcasts' = broadcasts)
    BY <1>3 DEF Reconnect, Beat, IdleFrame, OnItsOwn
  <2> QED
    BY <2>1, <1>b DEF Pending, Live
<1>4. CASE PeerVanishes
  <2>1. ~peer'
    BY <1>4 DEF PeerVanishes
  <2> QED
    BY <2>1 DEF Pending, Live
<1>5. CASE RestartFrame /\ OnItsOwn
  <2>1. \A e : Among(e, queue) => Among(e, queue')
    BY <1>5, <1>a, FrameTypes, "restart_service" \in Event DEF RestartFrame
  <2>2. peer' = peer /\ phase' = phase /\ (peer' => broadcasts' = broadcasts) /\ UNCHANGED <<calls, dropped>>
    BY <1>5 DEF RestartFrame, OnItsOwn
  <2> QED
    BY <2>1, <2>2, <1>b DEF Pending, Live
<1>6. CASE ConfigFrame
  <2>1. Among("config_changed", queue')
    BY <1>6, <1>a, FrameTypes, "config_changed" \in Event DEF ConfigFrame
  <2> QED
    BY <2>1, <1>b DEF Pending
<1> QED
  BY <1>1, <1>2, <1>3, <1>4, <1>5, <1>6
     DEF ConnectEnds, Due, SocketDies, Remote, Deliver, ConnectRefused, SessionCloses, SessionFails

\* The loop drops nothing either, but the event it takes.
LEMMA LoopKeepsPending ==
    LinkTypeOK /\ Pending /\ Loop => Pending' \/ loop' = "fetching" \/ ~unseen'
<1> SUFFICES ASSUME LinkTypeOK, Pending, Loop, loop' # "fetching", unseen' PROVE Pending'
  OBVIOUS
<1>1. CASE UNCHANGED <<wsVars, pushVars>>
  BY <1>1 DEF Pending, Queued, Live, wsVars, pushVars
<1>2. CASE WakeToRearm
  <2>1. Head(queue) \notin {"connected", "config_changed"}
    BY <1>2 DEF WakeToRearm
  <2>2. \A e : Among(e, queue) /\ e # Head(queue) => Among(e, queue')
    BY <1>2, TakeEventTypes DEF WakeToRearm, LinkTypeOK
  <2>3. \A e : (Queued(e) <=> Among(e, queue)) /\ (Queued(e)' <=> Among(e, queue'))
    BY DEF Queued, Among
  <2>4. phase' = phase /\ peer' = peer /\ UNCHANGED pushVars
    BY <1>2 DEF WakeToRearm
  <2> QED
    BY <2>1, <2>2, <2>3, <2>4 DEF Pending, Live, pushVars
<1> QED
  BY <1>1, <1>2 DEF Loop, TimerElapses, HeartbeatTick, HeartbeatSent, WakeToPoll, FetchAnswered, FetchFails,
     PollEnds, StartPoll

\* Every step covers the changes the agent has not been sent.
LEMMA CoverStep == LinkTypeOK /\ CoverInv /\ [LinkNext]_linkVars => CoverInv'
<1> SUFFICES ASSUME LinkTypeOK, CoverInv, [LinkNext]_linkVars, unseen'
             PROVE  Pending' \/ loop' = "fetching" \/ (backoff' > 0 /\ loop' # "applying")
  BY DEF CoverInv
<1>1. CASE ConfigChanges
  BY <1>1 DEF ConfigChanges, Pending, LinkTypeOK
<1>2. CASE Loop
  <2>1. CASE TimerElapses \/ WakeToPoll
    BY <2>1 DEF TimerElapses, WakeToPoll, StartPoll
  <2>2. CASE FetchAnswered
    BY <2>2 DEF FetchAnswered
  <2>3. CASE FetchFails
    <3>1. backoff' > 0 /\ loop' = "waiting"
      BY <2>3, GrownIsBounded DEF FetchFails, Rearm, LinkTypeOK
    <3> QED
      BY <3>1
  <2>4. CASE PollEnds
    <3>1. Pending
      BY <2>4 DEF PollEnds, CoverInv
    <3> QED
      BY <3>1, <1>2, LoopKeepsPending
  <2>5. CASE HeartbeatTick \/ HeartbeatSent \/ WakeToRearm
    <3>1. unseen /\ loop # "fetching" /\ backoff' = backoff /\ loop' # "applying"
      BY <2>5 DEF HeartbeatTick, HeartbeatSent, WakeToRearm, TakeEvent, Rearm
    <3>2. CASE Pending
      BY <3>2, <1>2, LoopKeepsPending
    <3> QED
      BY <3>1, <3>2 DEF CoverInv
  <2> QED
    BY <1>2, <2>1, <2>2, <2>3, <2>4, <2>5 DEF Loop
<1>3. CASE ConnectEnds \/ Due \/ SocketDies \/ Remote \/ Deliver
  <2>1. UNCHANGED <<loop, backoff, unseen>>
    BY <1>3 DEF ConnectEnds, Due, SocketDies, Remote, Deliver, OnItsOwn, loopVars
  <2>2. CASE Pending
    BY <1>3, <2>2, ChannelKeepsPending
  <2> QED
    BY <2>1, <2>2 DEF CoverInv
<1>4. CASE Tick
  BY <1>4 DEF Tick, WsTick, CoverInv, Pending, Queued, Live, pushVars
<1>5. CASE UNCHANGED linkVars
  BY <1>5 DEF linkVars, wsVars, loopVars, pushVars, CoverInv, Pending, Queued, Live
<1>6. CASE PushSent
  <2>1. UNCHANGED <<wsVars, loopVars>>
    BY <1>6 DEF PushSent
  <2>2. Live => broadcasts' > 0
    BY <1>6 DEF PushSent, LinkTypeOK
  <2>3. Live' <=> Live
    BY <2>1 DEF Live, wsVars
  <2> QED
    BY <2>2, <2>3 DEF Pending
<1>7. CASE PushFails
  <2>1. UNCHANGED <<wsVars, loopVars>> /\ (unseen /\ Live => dropped')
    BY <1>7 DEF PushFails
  <2>2. (Live' <=> Live) /\ unseen' = unseen
    BY <2>1 DEF Live, wsVars, loopVars
  <2> QED
    BY <2>1, <2>2 DEF Pending
<1> QED
  BY <1>1, <1>2, <1>3, <1>4, <1>5, <1>6, <1>7 DEF LinkNext

\* For every interval, bound and order of events: a change the agent has not been
\* sent always has something that will make it ask (ws.rs, comment on Connected),
\* unless the push that was to tell it was dropped over a live session (notify.ts).
THEOREM UnseenCover == LinkSpec => []UnseenIsCovered
<1>1. LinkInit => CoverInv
  BY DEF LinkInit, WsInit, CoverInv, Pending, Live
<1>2. CoverInv => UnseenIsCovered
  BY DEF CoverInv, Pending, UnseenIsCovered
<1> QED
  BY <1>1, <1>2, CoverStep, LinkTypes, PTL DEF LinkSpec

-----------------------------------------------------------------------------
(* The interval of a demoted channel. *)

\* The first state is in ws mode.
LEMMA InitDemoted == LinkInit => DemotedPollsOften
BY DEF LinkInit, WsInit, DemotedPollsOften

\* The channel announces a demotion, and never takes an announcement back.
LEMMA ChannelKeepsAnnouncements ==
    LinkTypeOK /\ (ConnectEnds \/ Due \/ SocketDies \/ Remote \/ Deliver) =>
        \/ wsMode'
        \/ Queued("mode_changed")'
        \/ ~wsMode /\ ~Queued("mode_changed")
<1> SUFFICES ASSUME LinkTypeOK, ConnectEnds \/ Due \/ SocketDies \/ Remote \/ Deliver,
                    ~wsMode', wsMode \/ Queued("mode_changed")
             PROVE  Queued("mode_changed")'
  OBVIOUS
<1>a. WsTypeOK
  BY DEF LinkTypeOK
<1>b. \A e : (Queued(e) <=> Among(e, queue)) /\ (Queued(e)' <=> Among(e, queue'))
  BY DEF Queued, Among
<1>1. CASE Connect
  BY <1>1 DEF Connect
<1>2. CASE RecordFailure
  <2> DEFINE mode == ~Demoted(wsFailures \cup {0})
  <2>1. mode \in BOOLEAN /\ wsMode' = mode /\ queue' = queue \o Announce(mode)
    BY <1>2, Zenon DEF RecordFailure, Demoted
  <2>2. Announce(mode) \in Seq(Event) /\ (wsMode => Among("mode_changed", Announce(mode)))
    BY <2>1, AnnounceType
  <2>3. queue \in Seq(Event)
    BY <1>a DEF WsTypeOK
  <2>4. \A e : Among(e, queue) \/ Among(e, Announce(mode)) => Among(e, queue')
    BY <2>1, <2>2, <2>3, AmongConcat
  <2> QED
    BY <2>2, <2>4, <1>b
<1>3. CASE UNCHANGED <<wsMode, queue>>
  BY <1>3 DEF Queued
<1>4. CASE RestartFrame
  <2>1. wsMode' = wsMode /\ \A e : Among(e, queue) => Among(e, queue')
    BY <1>4, <1>a, FrameTypes, "restart_service" \in Event DEF RestartFrame
  <2> QED
    BY <2>1, <1>b
<1>5. CASE ConfigFrame
  <2>1. wsMode' = wsMode /\ \A e : Among(e, queue) => Among(e, queue')
    BY <1>5, <1>a, FrameTypes, "config_changed" \in Event DEF ConfigFrame
  <2> QED
    BY <2>1, <1>b
<1> QED
  BY <1>1, <1>2, <1>3, <1>4, <1>5
     DEF ConnectEnds, Due, SocketDies, Remote, Deliver, ConnectRefused, SessionCloses, SessionFails,
         Reconnect, Beat, IdleFrame, PeerVanishes

\* Every step of the system keeps the wait of a demoted channel short.
LEMMA DemotedStep == LinkTypeOK /\ DemotedPollsOften /\ [LinkNext]_linkVars => DemotedPollsOften'
<1> SUFFICES ASSUME LinkTypeOK, DemotedPollsOften, [LinkNext]_linkVars,
                    loop' = "waiting", ~wsMode', backoff' = 0, ~Queued("mode_changed")'
             PROVE  wait' <= PollInterval
  BY DEF DemotedPollsOften
<1>a. 0 \in 0 .. LongestBackoff /\ PollInterval \in Nat
  BY LoopAssumption DEF LongestBackoff, Greater
<1>b. ~wsMode => Waits(0) = {PollInterval}
  BY <1>a, WaitsAreBounded
<1>1. CASE Loop
  <2>1. wsMode' = wsMode
    BY <1>1 DEF Loop, TimerElapses, HeartbeatTick, HeartbeatSent, WakeToPoll, WakeToRearm, FetchAnswered,
       FetchFails, PollEnds, wsVars
  <2>2. wait' \in Waits(0)
    BY <1>1, <2>1 DEF Loop, TimerElapses, HeartbeatTick, HeartbeatSent, WakeToPoll, WakeToRearm, FetchAnswered,
       FetchFails, PollEnds, StartPoll, Rearm
  <2> QED
    BY <1>a, <1>b, <2>1, <2>2
<1>2. CASE ConnectEnds \/ Due \/ SocketDies \/ Remote \/ Deliver
  <2>1. ~wsMode /\ ~Queued("mode_changed")
    BY <1>2, ChannelKeepsAnnouncements
  <2>2. UNCHANGED <<loop, wait, backoff>>
    BY <1>2 DEF ConnectEnds, Due, SocketDies, Remote, Deliver, OnItsOwn, loopVars
  <2> QED
    BY <2>1, <2>2 DEF DemotedPollsOften
<1>3. CASE ConfigChanges \/ PushSent \/ PushFails \/ UNCHANGED linkVars
  BY <1>3 DEF ConfigChanges, PushSent, PushFails, linkVars, wsVars, loopVars, DemotedPollsOften, Queued
<1>4. CASE Tick
  <2>1. wait <= PollInterval /\ wait \in Nat
    BY <1>4 DEF Tick, WsTick, DemotedPollsOften, Queued, LinkTypeOK
  <2>2. wait' = CountDown(wait)
    BY <1>4 DEF Tick
  <2> QED
    BY <1>a, <2>1, <2>2 DEF CountDown
<1> QED
  BY <1>1, <1>2, <1>3, <1>4 DEF LinkNext

\* For every interval, threshold and bound: once the announcement of a demotion is
\* taken, a loop without backoff waits no longer than the poll interval.
THEOREM DemotedInterval == LinkSpec => []DemotedPollsOften
<1> QED
  BY InitDemoted, DemotedStep, LinkTypes, PTL DEF LinkSpec
=============================================================================
