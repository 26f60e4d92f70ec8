------------------------ MODULE ConfigDeliveryProofs ------------------------
(***************************************************************************)
(* What holds of configuration delivery for any set of configurations, any *)
(* number of racing recomputations, any clocks, writes, failures and       *)
(* crashes: 304 answers are true, and the mechanism implements             *)
(* ConfigRegister.                                                         *)
(*                                                                         *)
(* Neither is inductive.  Both follow from three facts: the stored         *)
(* snapshot is the newest one published; whatever the agent holds, applies *)
(* or has cached was published under the version it carries; and a version *)
(* is only adopted after its configuration was handed to the supervisor.   *)
(***************************************************************************)
EXTENDS ConfigDelivery, TLAPS

WasPublished(v, c) == v \in DOMAIN history /\ history[v] = c

\* A finished reading of the tables has a configuration to store.
ReadingsHaveContent ==
    \A w \in Worker : work[w].step \in {"built", "store"} => work[w].content \in Content

VersionsArePositive ==
    /\ \A v \in DOMAIN history : v \in Nat \ {0}
    /\ row # None => row.version \in Nat /\ row.content \in Content

RowIsNewest ==
    /\ row = None => history = [v \in {} |-> None]
    /\ row # None => /\ WasPublished(row.version, row.content)
                     /\ \A v \in DOMAIN history : v <= row.version

KeptWasPublished ==
    /\ reply # None => WasPublished(reply.version, reply.content)
    /\ cache # None => WasPublished(cache.version, cache.content)
    /\ heldVersion = 0 => held = None
    /\ heldVersion # 0 => WasPublished(heldVersion, held)

VersionIsHeld == version <= heldVersion

\* What is being applied is not older than what the supervisor holds.
ReplyIsNotOlder ==
    /\ agent = "applying" => reply # None /\ reply.version >= heldVersion
    /\ agent = "saving" => reply # None /\ reply.version = heldVersion

IInv ==
    /\ TypeOK
    /\ ReadingsHaveContent
    /\ VersionsArePositive
    /\ RowIsNewest
    /\ KeptWasPublished
    /\ VersionIsHeld
    /\ ReplyIsNotOlder
-----------------------------------------------------------------------------
LEMMA FaultsStayBounded ==
    ASSUME TypeOK, Fault \/ UNCHANGED faults PROVE faults' \in 0 .. MaxFaults
BY DeliveryAssumption DEF TypeOK, Fault

\* A snapshot is stored under a version above every earlier one, whatever the
\* worker's clock says (the CASE of upsertNodeConfigSnapshot).
LEMMA StorePublishes ==
    ASSUME IInv, NEW w \in Worker, Store(w)
    PROVE  \E v \in Nat \ {0}, c \in Content :
              /\ row' = [version |-> v, content |-> c]
              /\ history' = [x \in DOMAIN history \cup {v} |-> IF x = v THEN c ELSE history[x]]
              /\ \A x \in DOMAIN history : x < v
<1>1. PICK now \in 1 .. MaxNow :
         /\ row' = [version |-> Upserted(now), content |-> work[w].content]
         /\ history' = [x \in DOMAIN history \cup {Upserted(now)} |->
                           IF x = Upserted(now) THEN work[w].content ELSE history[x]]
  BY DEF Store
<1>2. work[w].content \in Content
  BY DEF IInv, ReadingsHaveContent, Store
<1>3. now \in Nat \ {0}
  BY DeliveryAssumption
<1>4. CASE row = None
  <2>1. Upserted(now) = now
    BY <1>4 DEF Upserted
  <2>2. DOMAIN history = {}
    BY <1>4 DEF IInv, RowIsNewest
  <2> QED
    BY <1>1, <1>2, <1>3, <2>1, <2>2
<1>5. CASE row # None
  <2>1. row.version \in Nat
    BY <1>5 DEF IInv, VersionsArePositive
  <2>2. \A x \in DOMAIN history : x \in Nat /\ x <= row.version
    BY <1>5 DEF IInv, RowIsNewest, VersionsArePositive
  <2>3. Upserted(now) \in Nat \ {0} /\ row.version < Upserted(now)
    BY <1>3, <1>5, <2>1 DEF Upserted
  <2>4. \A x \in DOMAIN history : x < Upserted(now)
    BY <2>1, <2>2, <2>3
  <2> QED
    BY <1>1, <1>2, <2>3, <2>4
<1> QED
  BY <1>4, <1>5

\* Nothing that was published is forgotten or altered by a later store.
LEMMA StoreKeepsPublished ==
    ASSUME IInv, NEW w \in Worker, Store(w), NEW v, NEW c, WasPublished(v, c)
    PROVE  WasPublished(v, c)'
<1>1. PICK n \in Nat \ {0}, d \in Content :
         /\ history' = [x \in DOMAIN history \cup {n} |-> IF x = n THEN d ELSE history[x]]
         /\ \A x \in DOMAIN history : x < n
  BY StorePublishes
<1>2. v \in DOMAIN history /\ history[v] = c
  BY DEF WasPublished
<1>3. v \in Nat
  BY <1>2 DEF IInv, VersionsArePositive
<1>4. v # n
  BY <1>1, <1>2, <1>3
<1> QED
  BY <1>1, <1>2, <1>4 DEF WasPublished

LEMMA InitIInv == Init => IInv
<1> SUFFICES ASSUME Init PROVE IInv
  OBVIOUS
<1>1. TypeOK
  <2>1. work \in [Worker -> [step : {"idle", "start", "built", "store", "notify"},
                             content : Content \cup {None}, tells : BOOLEAN]]
    BY DEF Init, Resting
  <2>2. DOMAIN history \subseteq Nat
    BY DEF Init
  <2>3. 0 \in 0 .. MaxWrites /\ 0 \in 0 .. MaxFaults
    BY DeliveryAssumption
  <2> QED
    BY <2>1, <2>2, <2>3, DeliveryAssumption DEF Init, TypeOK
<1>2. ReadingsHaveContent
  <2> SUFFICES ASSUME NEW w \in Worker PROVE work[w].step \notin {"built", "store"}
    BY DEF ReadingsHaveContent
  <2> QED
    BY DEF Init, Resting
<1>3. VersionsArePositive /\ RowIsNewest /\ KeptWasPublished /\ VersionIsHeld /\ ReplyIsNotOlder
  BY DEF Init, VersionsArePositive, RowIsNewest, KeptWasPublished, VersionIsHeld, ReplyIsNotOlder
<1> QED
  BY <1>1, <1>2, <1>3 DEF IInv

\* Every step of the system preserves the invariant: first the steps of the
\* server, whose effect on the agent is at most a reason to poll.
LEMMA WorkKeepsIInv ==
    ASSUME IInv, NEW w \in Worker,
           \/ \E c \in Content : AdminWrite(w, c)
           \/ Cron(w) \/ Build(w) \/ Compare(w) \/ Notify(w) \/ WorkFails(w)
           \/ AggregateOnDemand(w)
    PROVE  IInv'
<1> USE DEF IInv
<1>1. CASE \E c \in Content : AdminWrite(w, c)
  <2>1. TypeOK'
    BY <1>1, DeliveryAssumption DEF TypeOK, AdminWrite, Begins, serverVars, agentVars, runtimeVars
  <2>2. ReadingsHaveContent'
    BY <1>1 DEF TypeOK, ReadingsHaveContent, AdminWrite, Begins, serverVars, agentVars, runtimeVars
  <2>3. VersionsArePositive' /\ RowIsNewest' /\ KeptWasPublished' /\ VersionIsHeld' /\ ReplyIsNotOlder'
    BY <1>1 DEF VersionsArePositive, RowIsNewest, KeptWasPublished, VersionIsHeld,
       ReplyIsNotOlder, WasPublished, AdminWrite, Begins, serverVars, agentVars, runtimeVars
  <2> QED
    BY <2>1, <2>2, <2>3
<1>2. CASE Cron(w)
  <2>1. TypeOK'
    BY <1>2, DeliveryAssumption DEF TypeOK, Cron, serverVars, agentVars, runtimeVars
  <2>2. ReadingsHaveContent'
    BY <1>2 DEF TypeOK, ReadingsHaveContent, Cron, serverVars, agentVars, runtimeVars
  <2>3. VersionsArePositive' /\ RowIsNewest' /\ KeptWasPublished' /\ VersionIsHeld' /\ ReplyIsNotOlder'
    BY <1>2 DEF VersionsArePositive, RowIsNewest, KeptWasPublished, VersionIsHeld,
       ReplyIsNotOlder, WasPublished, Cron, serverVars, agentVars, runtimeVars
  <2> QED
    BY <2>1, <2>2, <2>3
<1>3. CASE Build(w)
  <2>1. TypeOK'
    <3>1. work' \in [Worker -> [step : {"idle", "start", "built", "store", "notify"},
                                content : Content \cup {None}, tells : BOOLEAN]]
      BY <1>3 DEF TypeOK, Build
    <3> QED
      BY <1>3, <3>1, DeliveryAssumption DEF TypeOK, Build, serverVars, agentVars, runtimeVars
  <2>2. ReadingsHaveContent'
    BY <1>3 DEF TypeOK, ReadingsHaveContent, Build, serverVars, agentVars, runtimeVars
  <2>3. VersionsArePositive' /\ RowIsNewest' /\ KeptWasPublished' /\ VersionIsHeld' /\ ReplyIsNotOlder'
    BY <1>3 DEF VersionsArePositive, RowIsNewest, KeptWasPublished, VersionIsHeld,
       ReplyIsNotOlder, WasPublished, Build, serverVars, agentVars, runtimeVars
  <2> QED
    BY <2>1, <2>2, <2>3
<1>4. CASE Compare(w)
  <2>1. TypeOK'
    BY <1>4, DeliveryAssumption DEF TypeOK, Compare, Resting, serverVars, agentVars, runtimeVars
  <2>2. ReadingsHaveContent'
    BY <1>4 DEF TypeOK, ReadingsHaveContent, Compare, Resting, serverVars, agentVars, runtimeVars
  <2>3. VersionsArePositive' /\ RowIsNewest' /\ KeptWasPublished' /\ VersionIsHeld' /\ ReplyIsNotOlder'
    BY <1>4 DEF VersionsArePositive, RowIsNewest, KeptWasPublished, VersionIsHeld,
       ReplyIsNotOlder, WasPublished, Compare, Resting, serverVars, agentVars, runtimeVars
  <2> QED
    BY <2>1, <2>2, <2>3
<1>5. CASE Notify(w)
  <2>1. TypeOK'
    BY <1>5, DeliveryAssumption DEF TypeOK, Notify, Resting, serverVars, agentVars, runtimeVars
  <2>2. ReadingsHaveContent'
    BY <1>5 DEF TypeOK, ReadingsHaveContent, Notify, Resting, serverVars, agentVars, runtimeVars
  <2>3. VersionsArePositive' /\ RowIsNewest' /\ KeptWasPublished' /\ VersionIsHeld' /\ ReplyIsNotOlder'
    BY <1>5 DEF VersionsArePositive, RowIsNewest, KeptWasPublished, VersionIsHeld,
       ReplyIsNotOlder, WasPublished, Notify, Resting, serverVars, agentVars, runtimeVars
  <2> QED
    BY <2>1, <2>2, <2>3
<1>6. CASE WorkFails(w)
  <2>1. TypeOK'
    BY <1>6, DeliveryAssumption DEF TypeOK, WorkFails, Resting, Fault, serverVars, agentVars, runtimeVars
  <2>2. ReadingsHaveContent'
    BY <1>6 DEF TypeOK, ReadingsHaveContent, WorkFails, Resting, Fault, serverVars, agentVars, runtimeVars
  <2>3. VersionsArePositive' /\ RowIsNewest' /\ KeptWasPublished' /\ VersionIsHeld' /\ ReplyIsNotOlder'
    BY <1>6 DEF VersionsArePositive, RowIsNewest, KeptWasPublished, VersionIsHeld,
       ReplyIsNotOlder, WasPublished, WorkFails, Resting, Fault, serverVars, agentVars, runtimeVars
  <2> QED
    BY <2>1, <2>2, <2>3
<1>7. CASE AggregateOnDemand(w)
  <2>1. TypeOK'
    BY <1>7, DeliveryAssumption DEF TypeOK, AggregateOnDemand, Begins, serverVars, agentVars, runtimeVars
  <2>2. ReadingsHaveContent'
    BY <1>7 DEF TypeOK, ReadingsHaveContent, AggregateOnDemand, Begins, serverVars, agentVars, runtimeVars
  <2>3. VersionsArePositive' /\ RowIsNewest' /\ KeptWasPublished' /\ VersionIsHeld' /\ ReplyIsNotOlder'
    BY <1>7 DEF VersionsArePositive, RowIsNewest, KeptWasPublished, VersionIsHeld,
       ReplyIsNotOlder, WasPublished, AggregateOnDemand, Begins, serverVars, agentVars, runtimeVars
  <2> QED
    BY <2>1, <2>2, <2>3
<1> QED
  BY <1>1, <1>2, <1>3, <1>4, <1>5, <1>6, <1>7

\* A store moves the row forward and leaves what is kept published.
LEMMA StoreKeepsIInv ==
    ASSUME IInv, NEW w \in Worker, Store(w)
    PROVE  IInv'
<1>1. PICK v \in Nat \ {0}, c \in Content :
         /\ row' = [version |-> v, content |-> c]
         /\ history' = [x \in DOMAIN history \cup {v} |-> IF x = v THEN c ELSE history[x]]
         /\ \A x \in DOMAIN history : x < v
  BY StorePublishes
<1>2. UNCHANGED <<rendered, writes, agentVars, online, due, faults>>
  BY DEF Store
<1>3. TypeOK'
  <2>1. work' \in [Worker -> [step : {"idle", "start", "built", "store", "notify"},
                             content : Content \cup {None}, tells : BOOLEAN]]
    BY DEF IInv, TypeOK, Store, Resting
  <2>2. row' \in Snapshot \cup {None} /\ DOMAIN history' \subseteq Nat
    BY <1>1 DEF IInv, TypeOK, Snapshot
  <2> QED
    BY <1>2, <2>1, <2>2 DEF IInv, TypeOK, agentVars, runtimeVars
<1>4. ReadingsHaveContent'
  BY DEF IInv, TypeOK, ReadingsHaveContent, Store, Resting
<1>5. VersionsArePositive' /\ RowIsNewest'
  <2>1. row' # None
    BY <1>1, DeliveryAssumption
  <2>2. row'.version = v /\ row'.content = c
    BY <1>1
  <2>3. DOMAIN history' = DOMAIN history \cup {v} /\ history'[v] = c
    BY <1>1
  <2>4. \A x \in DOMAIN history' : x \in Nat \ {0} /\ x <= v
    BY <1>1, <2>3 DEF IInv, VersionsArePositive
  <2> QED
    BY <2>1, <2>2, <2>3, <2>4 DEF VersionsArePositive, RowIsNewest, WasPublished
<1>6. KeptWasPublished'
  <2>1. ASSUME NEW n, NEW d, WasPublished(n, d) PROVE WasPublished(n, d)'
    BY <2>1, StoreKeepsPublished
  <2>2. UNCHANGED <<reply, cache, heldVersion, held>>
    BY <1>2 DEF agentVars, runtimeVars
  <2> QED
    BY <2>1, <2>2 DEF IInv, KeptWasPublished, WasPublished
<1>7. VersionIsHeld' /\ ReplyIsNotOlder'
  BY <1>2 DEF IInv, VersionIsHeld, ReplyIsNotOlder, agentVars, runtimeVars
<1> QED
  BY <1>3, <1>4, <1>5, <1>6, <1>7 DEF IInv

\* The steps of the agent and of its channel leave the server alone.
LEMMA AgentKeepsIInv ==
    ASSUME IInv,
           \/ Connect \/ Disconnect \/ PollTimer \/ Ask \/ Answer \/ FetchFails \/ FetchInVain
           \/ ApplySucceeds \/ ApplyIsPartial \/ ApplyIsRefused \/ Save \/ Crash \/ Boot
    PROVE  IInv'
<1> USE DEF IInv
<1>1. CASE Connect
  <2>1. TypeOK'
    BY <1>1, DeliveryAssumption DEF TypeOK, Snapshot, Connect, serverVars, agentVars, runtimeVars
  <2>2. ReadingsHaveContent' /\ VersionsArePositive' /\ RowIsNewest'
    BY <1>1 DEF ReadingsHaveContent, VersionsArePositive, RowIsNewest, WasPublished, Connect, serverVars, agentVars, runtimeVars
  <2>3. KeptWasPublished'
    BY <1>1 DEF TypeOK, Snapshot, RowIsNewest, KeptWasPublished, ReplyIsNotOlder, VersionsArePositive, WasPublished, Connect, serverVars, agentVars, runtimeVars
  <2>4. VersionIsHeld' /\ ReplyIsNotOlder'
    BY <1>1 DEF TypeOK, Snapshot, RowIsNewest, KeptWasPublished, VersionIsHeld, ReplyIsNotOlder,
       VersionsArePositive, WasPublished, Connect, serverVars, agentVars, runtimeVars
  <2> QED
    BY <2>1, <2>2, <2>3, <2>4
<1>2. CASE Disconnect
  <2>1. TypeOK'
    BY <1>2, DeliveryAssumption DEF TypeOK, Snapshot, Disconnect, serverVars, agentVars, runtimeVars
  <2>2. ReadingsHaveContent' /\ VersionsArePositive' /\ RowIsNewest'
    BY <1>2 DEF ReadingsHaveContent, VersionsArePositive, RowIsNewest, WasPublished, Disconnect, serverVars, agentVars, runtimeVars
  <2>3. KeptWasPublished'
    BY <1>2 DEF TypeOK, Snapshot, RowIsNewest, KeptWasPublished, ReplyIsNotOlder, VersionsArePositive, WasPublished, Disconnect, serverVars, agentVars, runtimeVars
  <2>4. VersionIsHeld' /\ ReplyIsNotOlder'
    BY <1>2 DEF TypeOK, Snapshot, RowIsNewest, KeptWasPublished, VersionIsHeld, ReplyIsNotOlder,
       VersionsArePositive, WasPublished, Disconnect, serverVars, agentVars, runtimeVars
  <2> QED
    BY <2>1, <2>2, <2>3, <2>4
<1>3. CASE PollTimer
  <2>1. TypeOK'
    BY <1>3, DeliveryAssumption DEF TypeOK, Snapshot, PollTimer, serverVars, agentVars, runtimeVars
  <2>2. ReadingsHaveContent' /\ VersionsArePositive' /\ RowIsNewest'
    BY <1>3 DEF ReadingsHaveContent, VersionsArePositive, RowIsNewest, WasPublished, PollTimer, serverVars, agentVars, runtimeVars
  <2>3. KeptWasPublished'
    BY <1>3 DEF TypeOK, Snapshot, RowIsNewest, KeptWasPublished, ReplyIsNotOlder, VersionsArePositive, WasPublished, PollTimer, serverVars, agentVars, runtimeVars
  <2>4. VersionIsHeld' /\ ReplyIsNotOlder'
    BY <1>3 DEF TypeOK, Snapshot, RowIsNewest, KeptWasPublished, VersionIsHeld, ReplyIsNotOlder,
       VersionsArePositive, WasPublished, PollTimer, serverVars, agentVars, runtimeVars
  <2> QED
    BY <2>1, <2>2, <2>3, <2>4
<1>4. CASE Ask
  <2>1. TypeOK'
    BY <1>4, DeliveryAssumption DEF TypeOK, Snapshot, Ask, serverVars, agentVars, runtimeVars
  <2>2. ReadingsHaveContent' /\ VersionsArePositive' /\ RowIsNewest'
    BY <1>4 DEF ReadingsHaveContent, VersionsArePositive, RowIsNewest, WasPublished, Ask, serverVars, agentVars, runtimeVars
  <2>3. KeptWasPublished'
    BY <1>4 DEF TypeOK, Snapshot, RowIsNewest, KeptWasPublished, ReplyIsNotOlder, VersionsArePositive, WasPublished, Ask, serverVars, agentVars, runtimeVars
  <2>4. VersionIsHeld' /\ ReplyIsNotOlder'
    BY <1>4 DEF TypeOK, Snapshot, RowIsNewest, KeptWasPublished, VersionIsHeld, ReplyIsNotOlder,
       VersionsArePositive, WasPublished, Ask, serverVars, agentVars, runtimeVars
  <2> QED
    BY <2>1, <2>2, <2>3, <2>4
<1>5. CASE Answer
  <2>1. TypeOK'
    BY <1>5, DeliveryAssumption DEF TypeOK, Snapshot, Answer, Answerable, serverVars, agentVars, runtimeVars
  <2>2. ReadingsHaveContent' /\ VersionsArePositive' /\ RowIsNewest'
    BY <1>5 DEF ReadingsHaveContent, VersionsArePositive, RowIsNewest, WasPublished, Answer, Answerable, serverVars, agentVars, runtimeVars
  <2>3. KeptWasPublished'
    BY <1>5 DEF TypeOK, Snapshot, RowIsNewest, KeptWasPublished, ReplyIsNotOlder, VersionsArePositive, WasPublished, Answer, Answerable, serverVars, agentVars, runtimeVars
  <2>4. VersionIsHeld' /\ ReplyIsNotOlder'
    BY <1>5 DEF TypeOK, Snapshot, RowIsNewest, KeptWasPublished, VersionIsHeld, ReplyIsNotOlder,
       VersionsArePositive, WasPublished, Answer, Answerable, serverVars, agentVars, runtimeVars
  <2> QED
    BY <2>1, <2>2, <2>3, <2>4
<1>6. CASE FetchFails
  <2>1. TypeOK'
    BY <1>6, DeliveryAssumption DEF TypeOK, Snapshot, FetchFails, Fault, FetchEnds, serverVars, agentVars, runtimeVars
  <2>2. ReadingsHaveContent' /\ VersionsArePositive' /\ RowIsNewest'
    BY <1>6 DEF ReadingsHaveContent, VersionsArePositive, RowIsNewest, WasPublished, FetchFails, Fault, FetchEnds, serverVars, agentVars, runtimeVars
  <2>3. KeptWasPublished'
    BY <1>6 DEF TypeOK, Snapshot, RowIsNewest, KeptWasPublished, ReplyIsNotOlder, VersionsArePositive, WasPublished, FetchFails, Fault, FetchEnds, serverVars, agentVars, runtimeVars
  <2>4. VersionIsHeld' /\ ReplyIsNotOlder'
    BY <1>6 DEF TypeOK, Snapshot, RowIsNewest, KeptWasPublished, VersionIsHeld, ReplyIsNotOlder,
       VersionsArePositive, WasPublished, FetchFails, Fault, FetchEnds, serverVars, agentVars, runtimeVars
  <2> QED
    BY <2>1, <2>2, <2>3, <2>4
<1>7. CASE FetchInVain
  <2>1. TypeOK'
    BY <1>7, DeliveryAssumption DEF TypeOK, Snapshot, FetchInVain, FetchEnds, serverVars, agentVars, runtimeVars
  <2>2. ReadingsHaveContent' /\ VersionsArePositive' /\ RowIsNewest'
    BY <1>7 DEF ReadingsHaveContent, VersionsArePositive, RowIsNewest, WasPublished, FetchInVain, FetchEnds, serverVars, agentVars, runtimeVars
  <2>3. KeptWasPublished'
    BY <1>7 DEF TypeOK, Snapshot, RowIsNewest, KeptWasPublished, ReplyIsNotOlder, VersionsArePositive, WasPublished, FetchInVain, FetchEnds, serverVars, agentVars, runtimeVars
  <2>4. VersionIsHeld' /\ ReplyIsNotOlder'
    BY <1>7 DEF TypeOK, Snapshot, RowIsNewest, KeptWasPublished, VersionIsHeld, ReplyIsNotOlder,
       VersionsArePositive, WasPublished, FetchInVain, FetchEnds, serverVars, agentVars, runtimeVars
  <2> QED
    BY <2>1, <2>2, <2>3, <2>4
<1>8. CASE ApplySucceeds
  <2>1. TypeOK'
    BY <1>8, DeliveryAssumption DEF TypeOK, Snapshot, ApplySucceeds, Applies, serverVars, agentVars, runtimeVars
  <2>2. ReadingsHaveContent' /\ VersionsArePositive' /\ RowIsNewest'
    BY <1>8 DEF ReadingsHaveContent, VersionsArePositive, RowIsNewest, WasPublished, ApplySucceeds, Applies, serverVars, agentVars, runtimeVars
  <2>3. KeptWasPublished'
    BY <1>8 DEF TypeOK, Snapshot, RowIsNewest, KeptWasPublished, ReplyIsNotOlder, VersionsArePositive, WasPublished, ApplySucceeds, Applies, serverVars, agentVars, runtimeVars
  <2>4. VersionIsHeld' /\ ReplyIsNotOlder'
    BY <1>8 DEF TypeOK, Snapshot, RowIsNewest, KeptWasPublished, VersionIsHeld, ReplyIsNotOlder,
       VersionsArePositive, WasPublished, ApplySucceeds, Applies, serverVars, agentVars, runtimeVars
  <2> QED
    BY <2>1, <2>2, <2>3, <2>4
<1>9. CASE ApplyIsPartial
  <2>1. TypeOK'
    <3>1. faults' \in 0 .. MaxFaults
      BY <1>9, FaultsStayBounded DEF ApplyIsPartial
    <3>2. UNCHANGED <<rendered, row, work, history, writes>>
      BY <1>9 DEF ApplyIsPartial, serverVars
    <3> QED
      BY <1>9, <3>1, <3>2, DeliveryAssumption DEF TypeOK, Snapshot, ApplyIsPartial, Applies, agentVars, runtimeVars
  <2>2. ReadingsHaveContent' /\ VersionsArePositive' /\ RowIsNewest'
    BY <1>9 DEF ReadingsHaveContent, VersionsArePositive, RowIsNewest, WasPublished, ApplyIsPartial, Applies, Fault, serverVars, agentVars, runtimeVars
  <2>3. KeptWasPublished'
    BY <1>9 DEF TypeOK, Snapshot, RowIsNewest, KeptWasPublished, ReplyIsNotOlder, VersionsArePositive, WasPublished, ApplyIsPartial, Applies, Fault, serverVars, agentVars, runtimeVars
  <2>4. VersionIsHeld' /\ ReplyIsNotOlder'
    BY <1>9 DEF TypeOK, Snapshot, RowIsNewest, KeptWasPublished, VersionIsHeld, ReplyIsNotOlder,
       VersionsArePositive, WasPublished, ApplyIsPartial, Applies, Fault, serverVars, agentVars, runtimeVars
  <2> QED
    BY <2>1, <2>2, <2>3, <2>4
<1>10. CASE ApplyIsRefused
  <2>1. TypeOK'
    BY <1>10, DeliveryAssumption DEF TypeOK, Snapshot, ApplyIsRefused, serverVars, agentVars, runtimeVars
  <2>2. ReadingsHaveContent' /\ VersionsArePositive' /\ RowIsNewest'
    BY <1>10 DEF ReadingsHaveContent, VersionsArePositive, RowIsNewest, WasPublished, ApplyIsRefused, serverVars, agentVars, runtimeVars
  <2>3. KeptWasPublished'
    BY <1>10 DEF TypeOK, Snapshot, RowIsNewest, KeptWasPublished, ReplyIsNotOlder, VersionsArePositive, WasPublished, ApplyIsRefused, serverVars, agentVars, runtimeVars
  <2>4. VersionIsHeld' /\ ReplyIsNotOlder'
    BY <1>10 DEF TypeOK, Snapshot, RowIsNewest, KeptWasPublished, VersionIsHeld, ReplyIsNotOlder,
       VersionsArePositive, WasPublished, ApplyIsRefused, serverVars, agentVars, runtimeVars
  <2> QED
    BY <2>1, <2>2, <2>3, <2>4
<1>11. CASE Save
  <2>1. TypeOK'
    BY <1>11, DeliveryAssumption DEF TypeOK, Snapshot, Save, Fault, serverVars, agentVars, runtimeVars
  <2>2. ReadingsHaveContent' /\ VersionsArePositive' /\ RowIsNewest'
    BY <1>11 DEF ReadingsHaveContent, VersionsArePositive, RowIsNewest, WasPublished, Save, Fault, serverVars, agentVars, runtimeVars
  <2>3. KeptWasPublished'
    BY <1>11 DEF TypeOK, Snapshot, RowIsNewest, KeptWasPublished, ReplyIsNotOlder, VersionsArePositive, WasPublished, Save, Fault, serverVars, agentVars, runtimeVars
  <2>4. VersionIsHeld' /\ ReplyIsNotOlder'
    BY <1>11 DEF TypeOK, Snapshot, RowIsNewest, KeptWasPublished, VersionIsHeld, ReplyIsNotOlder,
       VersionsArePositive, WasPublished, Save, Fault, serverVars, agentVars, runtimeVars
  <2> QED
    BY <2>1, <2>2, <2>3, <2>4
<1>12. CASE Crash
  <2>1. TypeOK'
    <3>1. faults' \in 0 .. MaxFaults
      BY <1>12, FaultsStayBounded DEF Crash
    <3>2. UNCHANGED <<rendered, row, work, history, writes>>
      BY <1>12 DEF Crash, serverVars
    <3> QED
      BY <1>12, <3>1, <3>2, DeliveryAssumption DEF TypeOK, Snapshot, Crash, agentVars, runtimeVars
  <2>2. ReadingsHaveContent' /\ VersionsArePositive' /\ RowIsNewest'
    BY <1>12 DEF ReadingsHaveContent, VersionsArePositive, RowIsNewest, WasPublished, Crash, Fault, serverVars, agentVars, runtimeVars
  <2>3. KeptWasPublished'
    BY <1>12 DEF TypeOK, Snapshot, RowIsNewest, KeptWasPublished, ReplyIsNotOlder, VersionsArePositive, WasPublished, Crash, Fault, serverVars, agentVars, runtimeVars
  <2>4. VersionIsHeld' /\ ReplyIsNotOlder'
    BY <1>12 DEF TypeOK, Snapshot, RowIsNewest, KeptWasPublished, VersionIsHeld, ReplyIsNotOlder,
       VersionsArePositive, WasPublished, Crash, Fault, serverVars, agentVars, runtimeVars
  <2> QED
    BY <2>1, <2>2, <2>3, <2>4
<1>13. CASE Boot
  <2>1. TypeOK'
    <3>1. faults' \in 0 .. MaxFaults
      BY <1>13, FaultsStayBounded DEF Boot
    <3>2. UNCHANGED <<rendered, row, work, history, writes>>
      BY <1>13 DEF Boot, serverVars
    <3> QED
      BY <1>13, <3>1, <3>2, DeliveryAssumption DEF TypeOK, Snapshot, Boot, agentVars, runtimeVars
  <2>2. ReadingsHaveContent' /\ VersionsArePositive' /\ RowIsNewest'
    BY <1>13 DEF ReadingsHaveContent, VersionsArePositive, RowIsNewest, WasPublished, Boot, Fault, serverVars, agentVars, runtimeVars
  <2>3. KeptWasPublished'
    BY <1>13 DEF TypeOK, Snapshot, RowIsNewest, KeptWasPublished, ReplyIsNotOlder, VersionsArePositive, WasPublished, Boot, Fault, serverVars, agentVars, runtimeVars
  <2>4. VersionIsHeld' /\ ReplyIsNotOlder'
    BY <1>13 DEF TypeOK, Snapshot, RowIsNewest, KeptWasPublished, VersionIsHeld, ReplyIsNotOlder,
       VersionsArePositive, WasPublished, Boot, Fault, serverVars, agentVars, runtimeVars
  <2> QED
    BY <2>1, <2>2, <2>3, <2>4
<1> QED
  BY <1>1, <1>2, <1>3, <1>4, <1>5, <1>6, <1>7, <1>8, <1>9, <1>10, <1>11, <1>12, <1>13
-----------------------------------------------------------------------------
LEMMA NextKeepsIInv == IInv /\ [Next]_vars => IInv'
<1> SUFFICES ASSUME IInv, [Next]_vars PROVE IInv'
  OBVIOUS
<1>1. CASE Next
  BY <1>1, WorkKeepsIInv, StoreKeepsIInv, AgentKeepsIInv DEF Next, Recomputes
<1>2. CASE UNCHANGED vars
  BY <1>2 DEF vars, serverVars, agentVars, runtimeVars, IInv, TypeOK, ReadingsHaveContent,
     VersionsArePositive, RowIsNewest, KeptWasPublished, VersionIsHeld, ReplyIsNotOlder,
     WasPublished, Snapshot
<1> QED
  BY <1>1, <1>2

LEMMA Invariance == Spec => []IInv
<1> QED
  BY InitIInv, NextKeepsIInv, PTL DEF Spec

\* Rows, responses and caches are snapshots, and a stopped agent holds nothing.
THEOREM TypeCorrect == Spec => []TypeOK
<1>1. IInv => TypeOK
  BY DEF IInv
<1> QED
  BY <1>1, Invariance, PTL

\* 304 answers are true (routes/agent.ts:45): an agent whose version is not
\* behind the stored snapshot was given exactly its configuration.  The version
\* it adopted is not above the one it holds, what it holds was published, and
\* nothing published is above the row: so it holds the row.
THEOREM NotModified == Spec => []NotModifiedIsTrue
<1>1. IInv => NotModifiedIsTrue
  <2> SUFFICES ASSUME IInv, row # None, version >= row.version PROVE held = row.content
    BY DEF NotModifiedIsTrue
  <2>1. row.version \in Nat \ {0} /\ history[row.version] = row.content
    BY DEF IInv, VersionsArePositive, RowIsNewest, WasPublished
  <2>2. version \in Nat /\ heldVersion \in Nat /\ version <= heldVersion
    BY DEF IInv, TypeOK, VersionIsHeld
  <2>3. heldVersion # 0
    BY <2>1, <2>2
  <2>4. heldVersion \in DOMAIN history /\ history[heldVersion] = held
    BY <2>3 DEF IInv, KeptWasPublished, WasPublished
  <2>5. heldVersion <= row.version
    BY <2>4 DEF IInv, RowIsNewest
  <2>6. heldVersion = row.version
    BY <2>1, <2>2, <2>5
  <2> QED
    BY <2>1, <2>4, <2>6
<1> QED
  BY <1>1, Invariance, PTL

\* A store is a publication; an application, and the replay of the cache, a
\* move to a published version; a crash a stop.  Every other step leaves the
\* register alone, a second application of what is already held included.
LEMMA StepIsRegisterStep ==
    ASSUME IInv, [Next]_vars PROVE [Register!Next]_Register!vars
<1> USE DEF Register!vars
<1>1. ASSUME NEW w \in Worker, Store(w) PROVE Register!Next
  <2>1. PICK v \in Nat \ {0}, c \in Content :
           /\ history' = [x \in DOMAIN history \cup {v} |-> IF x = v THEN c ELSE history[x]]
           /\ \A x \in DOMAIN history : x < v
    BY <1>1, StorePublishes
  <2>2. UNCHANGED <<heldVersion, held>>
    BY <1>1 DEF Store, agentVars, runtimeVars
  <2>3. Register!Publish(v, c)
    BY <2>1, <2>2 DEF Register!Publish, Register!Extended
  <2>4. v \in DOMAIN history' \ DOMAIN history
    BY <2>1
  <2> QED
    BY <2>3, <2>4 DEF Register!Next
<1>2. ASSUME NEW v \in Nat, WasPublished(v, held'), v >= heldVersion,
             heldVersion' = v, UNCHANGED history
      PROVE  Register!Next \/ UNCHANGED <<history, heldVersion, held>>
  <2>1. CASE v > heldVersion
    BY <1>2, <2>1 DEF WasPublished, Register!Next, Register!Serve
  <2>2. CASE v = heldVersion
    BY <1>2, <2>2 DEF WasPublished, IInv, KeptWasPublished, VersionsArePositive
  <2> QED
    BY <1>2, <2>1, <2>2 DEF IInv, TypeOK
<1>3. CASE ApplySucceeds \/ ApplyIsPartial
  BY <1>2, <1>3 DEF ApplySucceeds, ApplyIsPartial, Applies, IInv, TypeOK, Snapshot,
     KeptWasPublished, ReplyIsNotOlder, serverVars, WasPublished
<1>4. CASE Boot
  <2>1. CASE cache = None
    BY <1>4, <2>1 DEF Boot, serverVars, runtimeVars
  <2>2. CASE cache # None
    <3>1. cache.version \in Nat /\ WasPublished(cache.version, cache.content)
      BY <2>2 DEF IInv, TypeOK, Snapshot, KeptWasPublished
    <3>2. heldVersion = 0 /\ heldVersion' = cache.version /\ held' = cache.content
      BY <1>4, <2>2 DEF Boot, IInv, TypeOK
    <3> QED
      BY <1>2, <1>4, <2>2, <3>1, <3>2 DEF Boot, serverVars
  <2> QED
    BY <2>1, <2>2
<1>5. CASE Crash
  BY <1>5 DEF Crash, serverVars, Register!Next, Register!Stop
<1>6. ASSUME NEW w \in Worker, (\E c \in Content : AdminWrite(w, c)) \/ Cron(w) \/ Build(w)
             \/ Compare(w) \/ Notify(w) \/ WorkFails(w) \/ AggregateOnDemand(w)
      PROVE  UNCHANGED <<history, heldVersion, held>>
  BY <1>6 DEF AdminWrite, Cron, Build, Compare, Notify, WorkFails, AggregateOnDemand,
     agentVars, runtimeVars
<1>7. CASE \/ Connect \/ Disconnect \/ PollTimer \/ Ask \/ Answer \/ FetchFails \/ FetchInVain
           \/ ApplyIsRefused \/ Save
  BY <1>7 DEF Connect, Disconnect, PollTimer, Ask, Answer, FetchFails, FetchInVain, FetchEnds,
     ApplyIsRefused, Save, serverVars, agentVars, runtimeVars
<1>8. CASE UNCHANGED vars
  BY <1>8 DEF vars, serverVars, agentVars, runtimeVars
<1> QED
  BY <1>1, <1>3, <1>4, <1>5, <1>6, <1>7, <1>8 DEF Next, Recomputes

\* The mechanism implements ConfigRegister: a running node only ever moves
\* forward through configurations that were published, exactly as they were.
THEOREM Implements == Spec => ImplementsRegister
<1>1. Init => Register!Init
  BY DEF Init, Register!Init
<1>2. IInv /\ [Next]_vars => [Register!Next]_Register!vars
  BY StepIsRegisterStep
<1> QED
  BY <1>1, <1>2, Invariance, PTL DEF Spec, ImplementsRegister, Register!Spec
=============================================================================
