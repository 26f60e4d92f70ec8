------------------------- MODULE HealthIngestProofs -------------------------
(***************************************************************************)
(* What the panel believes of the nodes, for any number of nodes, services *)
(* and beats under way, and whatever is lost or dies.                      *)
(*                                                                         *)
(* Everything is stated node by node, since a beat touches its own node's  *)
(* rows.  A beat that is alone has only beats with its own snapshot beside *)
(* it, so that what it has written and what it has found stale stays so;   *)
(* and no row is fresher than the freshest stamp, nor the sentinel's much  *)
(* older.                                                                  *)
(***************************************************************************)
EXTENDS HealthIngest, FiniteSetTheorems, NaturalsInduction, WellFoundedInduction, TLAPS

HealthRow == [state : State, age : Nat]
BeatRecord == [step : Steps, snapshot : Snapshot \cup {None}, age : Nat,
               left : SUBSET Service, alone : BOOLEAN]

TypeOK ==
    /\ alive \subseteq Node
    /\ world \in [Node -> Snapshot]
    /\ rows \in [Node -> [Service \cup {Heartbeat} -> HealthRow \cup {None}]]
    /\ beats \in [Node -> [Slot -> BeatRecord]]
    /\ status \in [Rule -> Status]
    /\ shown \in [Node -> Snapshot \cup {None}]
    /\ noted \in [Node -> 0 .. Offline]

Stores(n, k) == beats[n][k].step \in Storing

\* A beat has a snapshot and is not late; the rows it has still to write are in the
\* snapshot, those it has to delete are not, and it updates rules it has a verdict on.
BeatFits(n, k) ==
    LET b == beats[n][k]
    IN  /\ b.age <= Latency
        /\ b.step # "idle" => b.snapshot \in Snapshot
        /\ b.step = "upsert" => b.left \subseteq Reports(b.snapshot)
        /\ b.step = "delete" => b.left \cap Reports(b.snapshot) = {}
        /\ b.step = "update" => b.left \subseteq Verdicts(b)

\* Beside a beat that is alone, others store the same snapshot.
AloneAgrees(n, k) ==
    Stores(n, k) /\ beats[n][k].alone =>
        \A j \in Slot : Stores(n, j) => beats[n][j].snapshot = beats[n][k].snapshot

\* What a beat that is alone has written is there, and what it will not delete is its own.
AloneProgress(n, k) ==
    LET b == beats[n][k]
    IN  Stores(n, k) /\ b.alone =>
        /\ \A s \in Reports(b.snapshot) :
             \/ b.step = "upsert" /\ s \in b.left
             \/ rows[n][s] # None /\ rows[n][s].state = b.snapshot[s]
        /\ b.step \notin {"upsert", "diff"} => \A s \in Service :
             rows[n][s] # None => s \in Reports(b.snapshot) \/ (b.step = "delete" /\ s \in b.left)

\* What is shown is in the rows, and whoever still stores will leave it so.
ShownHolds(n) ==
    shown[n] # None =>
        /\ Shown(n) = shown[n]
        /\ \A j \in Slot : Stores(n, j) => beats[n][j].snapshot = shown[n]

\* No row, and no beat that may still write one, is fresher than the freshest stamp.
NothingFresher(n) ==
    /\ \A s \in Service \cup {Heartbeat} : rows[n][s] # None => noted[n] <= rows[n][s].age
    /\ \A k \in Slot : Stores(n, k) => noted[n] <= beats[n][k].age

\* The sentinel's row may be an older beat's, by what a beat takes.
SentinelFollows(n) ==
    noted[n] < Offline =>
        rows[n][Heartbeat] # None /\ rows[n][Heartbeat].age <= noted[n] + Latency

Good(n) ==
    /\ \A k \in Slot : BeatFits(n, k) /\ AloneAgrees(n, k) /\ AloneProgress(n, k)
    /\ ShownHolds(n) /\ NothingFresher(n) /\ SentinelFollows(n)

PausesHold == \A r \in halted : status[r] = "paused"

IInv == TypeOK /\ \A n \in Node : Good(n)

-----------------------------------------------------------------------------
(* The least of a set of ages.                                             *)

\* A set of numbers has a least one.
LEMMA MinIsLeast ==
    ASSUME NEW S \in SUBSET Nat, S # {}
    PROVE  Min(S) \in S /\ \A x \in S : Min(S) <= x
<1> DEFINE R == OpToRel(<, Nat)
<1>1. IsWellFoundedOn(R, Nat)
  BY NatLessThanWellFounded
<1>2. PICK m \in S : \A x \in S : ~(<<x, m>> \in R)
  <2> HIDE DEF R
  <2> QED
    BY <1>1, WFMin
<1>3. \A x \in S : ~(x < m)
  <2> SUFFICES ASSUME NEW x \in S, x < m PROVE FALSE
    OBVIOUS
  <2>1. <<x, m>> \in R
    BY DEF OpToRel
  <2> HIDE DEF R
  <2> QED
    BY <1>2, <2>1
<1> HIDE DEF R
<1>4. m \in S /\ \A x \in S : m <= x
  BY <1>3
<1> QED
  BY <1>4 DEF Min

\* The fresher of two.
LEMMA MinOfTwo ==
    ASSUME NEW a \in Nat, NEW b \in Nat
    PROVE  Min({a, b}) \in {a, b} /\ Min({a, b}) <= a /\ Min({a, b}) <= b
<1>1. {a, b} \in SUBSET Nat /\ {a, b} # {}
  OBVIOUS
<1>2. Min({a, b}) \in {a, b} /\ \A x \in {a, b} : Min({a, b}) <= x
  BY <1>1, MinIsLeast
<1> QED
  BY <1>2

\* The bounds are positive.
LEMMA Bounds ==
    /\ Latency \in Nat /\ 0 <= Latency /\ 1 <= Latency
    /\ Offline \in Nat /\ 0 <= Offline /\ 1 <= Offline
    /\ Heartbeat \notin Service
<1>1. Latency \in Nat \ {0} /\ Offline \in Nat \ {0} /\ Heartbeat \notin Service
  BY HealthAssumption
<1> QED
  BY <1>1

-----------------------------------------------------------------------------
(* The steps of a beat.                                                    *)

\* Of the beats of n only k has moved: it has ended, or stores on.
GoesOn(n, k) ==
    /\ \A j \in Slot \ {k} : beats'[n][j] = beats[n][j]
    /\ \/ beats'[n][k] = Resting
       \/ /\ beats'[n][k].step \in Storing
          /\ beats'[n][k].snapshot = beats[n][k].snapshot
          /\ beats'[n][k].age = beats[n][k].age
          /\ beats'[n][k].alone = beats[n][k].alone

\* What it has done to the rows is to write some of its snapshot and to delete what is not in it.
WritesOwn(n, k) ==
    /\ rows'[n][Heartbeat] = rows[n][Heartbeat]
    /\ \A s \in Service :
         \/ rows'[n][s] = rows[n][s]
         \/ s \in Reports(beats[n][k].snapshot) /\ rows'[n][s] = Row(beats[n][k].snapshot[s], beats[n][k].age)
         \/ s \notin Reports(beats[n][k].snapshot) /\ rows'[n][s] = None

\* A row that is written is one.
LEMMA RowsAreRows ==
    ASSUME NEW S \in Snapshot, NEW s \in Reports(S), NEW a \in Nat
    PROVE  /\ s \in Service /\ S[s] \in State /\ Row(S[s], a) \in HealthRow
           /\ Row(S[s], a) # None /\ Row(S[s], a).state = S[s] /\ Row(S[s], a).age = a
BY HealthAssumption DEF Reports, Snapshot, Row, HealthRow

\* A beat that keeps to that leaves everything as it should be, if what it has done is its own progress
\* and what it shows, if anything, is what is stored.
LEMMA WorkKeeps ==
    ASSUME TypeOK, NEW n \in Node, NEW k \in Slot, Good(n), Stores(n, k),
           GoesOn(n, k), WritesOwn(n, k), noted'[n] = noted[n],
           BeatFits(n, k)', AloneProgress(n, k)',
           \/ shown'[n] = shown[n]
           \/ shown'[n] = None
           \/ beats[n][k].alone /\ shown'[n] = beats[n][k].snapshot /\ Shown(n)' = beats[n][k].snapshot
    PROVE  Good(n)'
<1> DEFINE S == beats[n][k].snapshot
<1>0. /\ S \in Snapshot /\ beats[n][k].age \in Nat /\ beats[n][k].step # "idle"
      /\ \A s \in Service \cup {Heartbeat} : rows[n][s] \in HealthRow \cup {None}
      /\ Heartbeat \notin Service /\ noted[n] \in Nat
  BY HealthAssumption DEF TypeOK, BeatRecord, Good, BeatFits, Stores, Storing
<1>1. /\ ~Stores(n, k)' \/ (beats'[n][k].snapshot = S /\ beats'[n][k].alone = beats[n][k].alone
                             /\ beats'[n][k].age = beats[n][k].age)
      /\ \A j \in Slot \ {k} : beats'[n][j] = beats[n][j]
  BY DEF GoesOn, Stores, Storing, Resting
<1>2. \A s \in Reports(S) : /\ Row(S[s], beats[n][k].age) # None
                            /\ Row(S[s], beats[n][k].age).state = S[s]
                            /\ Row(S[s], beats[n][k].age).age = beats[n][k].age
  BY <1>0, RowsAreRows
<1>3. \A j \in Slot : BeatFits(n, j)'
  BY <1>1 DEF Good, BeatFits
<1>4. ASSUME NEW j \in Slot PROVE AloneAgrees(n, j)'
  BY <1>1 DEF Good, AloneAgrees, Stores
<1>5. ASSUME NEW j \in Slot \ {k}, Stores(n, j), beats[n][j].alone PROVE beats[n][j].snapshot = S
  BY <1>5 DEF Good, AloneAgrees
<1>6. ASSUME NEW j \in Slot PROVE AloneProgress(n, j)'
  <2>1. CASE j = k
    BY <2>1
  <2>2. CASE j # k /\ Stores(n, j) /\ beats[n][j].alone
    <3> DEFINE b == beats[n][j]
    <3>1. b.snapshot = S /\ beats'[n][j] = b /\ AloneProgress(n, j) /\ S = beats[n][k].snapshot
      BY <1>1, <1>5, <2>2 DEF Good
    <3>2. \A s \in Reports(S) : \/ b.step = "upsert" /\ s \in b.left
                                \/ rows'[n][s] # None /\ rows'[n][s].state = S[s]
      <4> SUFFICES ASSUME NEW s \in Reports(S), ~(b.step = "upsert" /\ s \in b.left)
                   PROVE  rows'[n][s] # None /\ rows'[n][s].state = S[s]
        OBVIOUS
      <4>1. rows[n][s] # None /\ rows[n][s].state = S[s]
        BY <2>2, <3>1 DEF AloneProgress
      <4>2. s \in Service
        BY DEF Reports
      <4>3. rows'[n][s] = rows[n][s] \/ rows'[n][s] = Row(S[s], beats[n][k].age)
        BY <4>2 DEF WritesOwn
      <4> QED
        BY <1>2, <4>1, <4>3
    <3>3. b.step \notin {"upsert", "diff"} => \A s \in Service :
             rows'[n][s] # None => s \in Reports(S) \/ (b.step = "delete" /\ s \in b.left)
      BY <2>2, <3>1 DEF AloneProgress, WritesOwn
    <3> QED
      BY <3>1, <3>2, <3>3 DEF AloneProgress
  <2>3. CASE j # k /\ ~(Stores(n, j) /\ beats[n][j].alone)
    BY <1>1, <2>3 DEF AloneProgress, Stores
  <2> QED
    BY <2>1, <2>2, <2>3
<1>7. ShownHolds(n)'
  <2>1. CASE shown'[n] = shown[n] /\ shown[n] # None
    <3>1. Shown(n) = shown[n] /\ shown[n] = S /\ \A j \in Slot : Stores(n, j) => beats[n][j].snapshot = S
      BY <2>1 DEF Good, ShownHolds
    <3>2. \A s \in Service : (IF rows[n][s] = None THEN None ELSE rows[n][s].state) = S[s]
      BY <3>1 DEF Shown
    <3>3. ASSUME NEW s \in Service PROVE (IF rows'[n][s] = None THEN None ELSE rows'[n][s].state) = S[s]
      BY <1>2, <3>2 DEF WritesOwn, Reports
    <3>4. Shown(n)' = S
      BY <1>0, <3>3 DEF Shown, Snapshot
    <3> QED
      BY <1>1, <2>1, <3>1, <3>4 DEF ShownHolds, Stores
  <2>2. CASE shown'[n] = None
    BY <2>2 DEF ShownHolds
  <2>3. CASE beats[n][k].alone /\ shown'[n] = S /\ Shown(n)' = S
    <3>1. \A j \in Slot : Stores(n, j) => beats[n][j].snapshot = S
      BY <2>3 DEF Good, AloneAgrees
    <3>2. \A j \in Slot : Stores(n, j)' => beats'[n][j].snapshot = S
      BY <1>1, <3>1 DEF Stores
    <3> QED
      BY <2>3, <3>2 DEF ShownHolds
  <2> QED
    BY <2>1, <2>2, <2>3
<1>8. NothingFresher(n)'
  <2>1. \A j \in Slot : Stores(n, j)' => noted[n] <= beats'[n][j].age
    BY <1>1 DEF NothingFresher, Good, Stores
  <2>2. noted[n] <= beats[n][k].age
    BY DEF NothingFresher, Good
  <2>3. \A s \in Service \cup {Heartbeat} : rows'[n][s] # None => noted[n] <= rows'[n][s].age
    BY <1>2, <2>2 DEF NothingFresher, Good, WritesOwn
  <2> QED
    BY <2>1, <2>3 DEF NothingFresher
<1>9. SentinelFollows(n)'
  BY DEF SentinelFollows, Good, WritesOwn
<1> QED
  BY <1>3, <1>4, <1>6, <1>7, <1>8, <1>9 DEF Good

\* A beat that does not store, or no longer, disturbs nothing.
LEMMA RestKeeps ==
    ASSUME TypeOK, NEW n \in Node, NEW k \in Slot, Good(n),
           \A j \in Slot \ {k} : beats'[n][j] = beats[n][j],
           ~Stores(n, k)', BeatFits(n, k)', rows'[n] = rows[n], shown'[n] = shown[n], noted'[n] = noted[n]
    PROVE  Good(n)'
<1>1. \A j \in Slot : BeatFits(n, j)'
  BY DEF Good, BeatFits
<1>2. \A j \in Slot : AloneAgrees(n, j)'
  BY DEF Good, AloneAgrees, Stores
<1>3. \A j \in Slot : AloneProgress(n, j)'
  BY DEF Good, AloneProgress, Stores
<1>4. ShownHolds(n)'
  <2>1. Shown(n)' = Shown(n)
    BY DEF Shown
  <2> QED
    BY <2>1 DEF Good, ShownHolds, Stores
<1>5. NothingFresher(n)' /\ SentinelFollows(n)'
  BY DEF Good, NothingFresher, SentinelFollows, Stores
<1> QED
  BY <1>1, <1>2, <1>3, <1>4, <1>5 DEF Good

\* What belongs to other nodes stays.
LEMMA OtherNode ==
    ASSUME NEW n \in Node, Good(n), rows'[n] = rows[n], beats'[n] = beats[n], shown'[n] = shown[n], noted'[n] = noted[n]
    PROVE  Good(n)'
<1>1. Shown(n)' = Shown(n)
  BY DEF Shown
<1> QED
  BY <1>1 DEF Good, BeatFits, AloneAgrees, AloneProgress, ShownHolds, NothingFresher, SentinelFollows, Stores

\* A beat is put in another's place.
LEMMA GoesTo ==
    ASSUME TypeOK, NEW n \in Node, NEW k \in Slot, NEW b \in BeatRecord, Goes(n, k, b)
    PROVE  /\ beats' \in [Node -> [Slot -> BeatRecord]]
           /\ beats'[n][k] = b
           /\ \A j \in Slot \ {k} : beats'[n][j] = beats[n][j]
           /\ \A m \in Node \ {n} : beats'[m] = beats[m]
BY DEF Goes, TypeOK

\* A beat that is over is one that does not store.
LEMMA RestingIsBeat ==
    Resting \in BeatRecord /\ Resting.step = "idle" /\ Resting.age = 0 /\ ~(Resting.step \in Storing)
BY DEF Resting, BeatRecord, Steps, Storing

\* What is shown is kept by one node.
LEMMA ShowsTo ==
    ASSUME TypeOK, NEW n \in Node, NEW v \in Snapshot \cup {None}, shown' = [shown EXCEPT ![n] = v]
    PROVE  /\ shown' \in [Node -> Snapshot \cup {None}] /\ shown'[n] = v
           /\ \A m \in Node \ {n} : shown'[m] = shown[m]
BY DEF TypeOK

\* A beat sets out.
LEMMA BeatStep ==
    ASSUME IInv, NEW n \in Node, NEW k \in Slot, Beat(n, k)
    PROVE  IInv'
<1> DEFINE b == [Resting EXCEPT !.step = "stamp", !.snapshot = world[n]]
<1>1. b \in BeatRecord /\ b.step = "stamp" /\ b.snapshot \in Snapshot /\ b.age = 0 /\ Goes(n, k, b)
  BY DEF Beat, IInv, TypeOK, Resting, BeatRecord, Steps
<1> HIDE DEF b
<1>2. /\ beats' \in [Node -> [Slot -> BeatRecord]] /\ beats'[n][k] = b
      /\ \A j \in Slot \ {k} : beats'[n][j] = beats[n][j]
      /\ \A m \in Node \ {n} : beats'[m] = beats[m]
  BY <1>1, GoesTo DEF IInv
<1>3. UNCHANGED <<alive, world, hosts, halted, changes, rows, status, shown, noted, mishaps>>
  BY DEF Beat, Observed
<1>4. TypeOK'
  BY <1>2, <1>3 DEF IInv, TypeOK
<1>5. BeatFits(n, k)' /\ ~Stores(n, k)'
  BY <1>1, <1>2, Bounds DEF BeatFits, Stores, Storing
<1>6. Good(n)'
  BY <1>2, <1>3, <1>5, RestKeeps DEF IInv
<1>7. \A m \in Node \ {n} : Good(m)'
  BY <1>2, <1>3, OtherNode DEF IInv
<1> QED
  BY <1>4, <1>6, <1>7 DEF IInv

\* A handler dies.
LEMMA FailStep ==
    ASSUME IInv, NEW n \in Node, NEW k \in Slot, Fail(n, k)
    PROVE  IInv'
<1>1. /\ beats' \in [Node -> [Slot -> BeatRecord]] /\ beats'[n][k] = Resting
      /\ \A j \in Slot \ {k} : beats'[n][j] = beats[n][j]
      /\ \A m \in Node \ {n} : beats'[m] = beats[m]
  BY RestingIsBeat, GoesTo DEF IInv, Fail
<1>2. UNCHANGED <<alive, world, hosts, halted, changes, rows, status, shown, noted>>
  BY DEF Fail, Observed
<1>3. TypeOK'
  BY <1>1, <1>2 DEF IInv, TypeOK
<1>4. BeatFits(n, k)' /\ ~Stores(n, k)'
  BY <1>1, RestingIsBeat, Bounds DEF BeatFits, Stores
<1>5. Good(n)'
  BY <1>1, <1>2, <1>4, RestKeeps DEF IInv
<1>6. \A m \in Node \ {n} : Good(m)'
  BY <1>1, <1>2, OtherNode DEF IInv
<1> QED
  BY <1>3, <1>5, <1>6 DEF IInv

\* What is stored of a snapshot and nothing else is that snapshot.
LEMMA StoredIsShown ==
    ASSUME NEW n \in Node, NEW S \in Snapshot,
           \A s \in Reports(S) : rows[n][s] # None /\ rows[n][s].state = S[s],
           \A s \in Service : rows[n][s] # None => s \in Reports(S)
    PROVE  Shown(n) = S
<1>1. \A s \in Service : (IF rows[n][s] = None THEN None ELSE rows[n][s].state) = S[s]
  BY DEF Reports
<1> QED
  BY <1>1 DEF Shown, Snapshot

\* What a beat that stores is made of.
LEMMA StoringBeat ==
    ASSUME IInv, NEW n \in Node, NEW k \in Slot, Stores(n, k)
    PROVE  /\ beats[n][k] \in BeatRecord /\ beats[n][k].snapshot \in Snapshot
           /\ beats[n][k].age \in 0 .. Latency /\ beats[n][k].left \subseteq Service
           /\ Reports(beats[n][k].snapshot) \subseteq Service
           /\ Good(n) /\ TypeOK /\ BeatFits(n, k) /\ AloneProgress(n, k)
           /\ beats[n][k].alone \in BOOLEAN
           /\ DOMAIN rows[n] = Service \cup {Heartbeat}
<1>1. Good(n) /\ TypeOK /\ BeatFits(n, k) /\ AloneProgress(n, k)
  BY DEF IInv, Good
<1>2. beats[n][k] \in BeatRecord
  BY <1>1 DEF TypeOK
<1>3. beats[n][k].left \subseteq Service /\ beats[n][k].alone \in BOOLEAN /\ beats[n][k].age \in Nat
  BY <1>2 DEF BeatRecord
<1>4. beats[n][k].age \in 0 .. Latency /\ beats[n][k].snapshot \in Snapshot
  BY <1>1, <1>3, HealthAssumption DEF BeatFits, Stores, Storing
<1>5. DOMAIN rows[n] = Service \cup {Heartbeat}
  BY <1>1 DEF TypeOK
<1> QED
  BY <1>1, <1>2, <1>3, <1>4, <1>5 DEF Reports

\* A step of a beat that stores: what is left to show, whichever step it is.
LEMMA WorkStep ==
    ASSUME IInv, NEW n \in Node, NEW k \in Slot, Stores(n, k),
           NEW b \in BeatRecord, Goes(n, k, b), GoesOn(n, k), WritesOwn(n, k),
           rows'[n] \in [Service \cup {Heartbeat} -> HealthRow \cup {None}],
           rows' = [rows EXCEPT ![n] = rows'[n]],
           status' \in [Rule -> Status], UNCHANGED <<Observed, noted, due>>,
           BeatFits(n, k)', AloneProgress(n, k)',
           \/ shown' = shown
           \/ shown' = [shown EXCEPT ![n] = None]
           \/ /\ beats[n][k].alone /\ shown' = [shown EXCEPT ![n] = beats[n][k].snapshot]
              /\ Shown(n)' = beats[n][k].snapshot
    PROVE  IInv'
<1>1. /\ beats' \in [Node -> [Slot -> BeatRecord]]
      /\ \A m \in Node \ {n} : beats'[m] = beats[m]
  BY GoesTo DEF IInv
<1>2. UNCHANGED <<alive, world, noted>>
  BY DEF Observed
<1>3. beats[n][k].snapshot \in Snapshot /\ TypeOK /\ Good(n)
  BY StoringBeat
<1>4. /\ shown' \in [Node -> Snapshot \cup {None}]
      /\ \A m \in Node \ {n} : shown'[m] = shown[m]
      /\ \/ shown'[n] = shown[n]
         \/ shown'[n] = None
         \/ beats[n][k].alone /\ shown'[n] = beats[n][k].snapshot /\ Shown(n)' = beats[n][k].snapshot
  BY <1>3, ShowsTo DEF TypeOK
<1>5. rows' \in [Node -> [Service \cup {Heartbeat} -> HealthRow \cup {None}]] /\ \A m \in Node \ {n} : rows'[m] = rows[m]
  BY <1>3 DEF TypeOK
<1>6. TypeOK'
  BY <1>1, <1>2, <1>3, <1>4, <1>5 DEF TypeOK
<1>7. Good(n)'
  BY <1>2, <1>3, <1>4, WorkKeeps
<1>8. \A m \in Node \ {n} : Good(m)'
  BY <1>1, <1>2, <1>4, <1>5, OtherNode DEF IInv
<1> QED
  BY <1>6, <1>7, <1>8 DEF IInv

\* Rows are written.
LEMMA UpsertStep ==
    ASSUME IInv, NEW n \in Node, NEW k \in Slot, Upsert(n, k)
    PROVE  IInv'
<1> DEFINE b == beats[n][k]
           S == b.snapshot
<1>1. /\ b.step = "upsert" /\ Stores(n, k) /\ b.left \subseteq Reports(S)
      /\ b \in BeatRecord /\ S \in Snapshot /\ b.age \in Nat
      /\ DOMAIN rows[n] = Service \cup {Heartbeat} /\ Heartbeat \notin Reports(S)
      /\ TypeOK /\ AloneProgress(n, k) /\ Good(n)
  <2>1. b.step = "upsert" /\ Stores(n, k)
    BY DEF Upsert, At, Stores, Storing, Steps
  <2> QED
    BY <2>1, StoringBeat, HealthAssumption DEF BeatFits
<1>2. PICK part \in SUBSET b.left :
        /\ rows' = [rows EXCEPT ![n] = Upserted(@, b, part)]
        /\ Goes(n, k, [b EXCEPT !.left = @ \ part, !.step = IF b.left = part THEN "diff" ELSE @])
  BY DEF Upsert
<1> DEFINE c == [b EXCEPT !.left = @ \ part, !.step = IF b.left = part THEN "diff" ELSE @]
<1>3. /\ c \in BeatRecord /\ c.left = b.left \ part /\ c.step = IF b.left = part THEN "diff" ELSE "upsert"
      /\ c.snapshot = S /\ c.age = b.age /\ c.alone = b.alone
  BY <1>1 DEF BeatRecord, Steps
<1> HIDE DEF c
<1>4. beats'[n][k] = c /\ \A j \in Slot \ {k} : beats'[n][j] = beats[n][j]
  BY <1>1, <1>2, <1>3, GoesTo DEF c
<1>5. \A s \in Service \cup {Heartbeat} : rows'[n][s] = IF s \in part THEN Row(S[s], b.age) ELSE rows[n][s]
  BY <1>1, <1>2 DEF Upserted, TypeOK
<1>6. \A s \in part : Row(S[s], b.age) \in HealthRow /\ Row(S[s], b.age) # None /\ Row(S[s], b.age).state = S[s]
  BY <1>1, RowsAreRows
<1>7. rows'[n] \in [Service \cup {Heartbeat} -> HealthRow \cup {None}] /\ rows' = [rows EXCEPT ![n] = rows'[n]]
  <2>1. rows' = [rows EXCEPT ![n] = Upserted(rows[n], b, part)] /\ n \in DOMAIN rows
    BY <1>1, <1>2 DEF TypeOK
  <2>2. rows'[n] = [s \in Service \cup {Heartbeat} |-> IF s \in part THEN Row(S[s], b.age) ELSE rows[n][s]]
    BY <1>1, <2>1 DEF Upserted
  <2>3. \A s \in Service \cup {Heartbeat} : rows[n][s] \in HealthRow \cup {None}
    BY <1>1 DEF TypeOK
  <2>4. rows'[n] \in [Service \cup {Heartbeat} -> HealthRow \cup {None}]
    BY <1>6, <2>2, <2>3
  <2> QED
    BY <2>1, <2>4
<1>8. GoesOn(n, k) /\ WritesOwn(n, k)
  <2>1. GoesOn(n, k)
    BY <1>3, <1>4 DEF GoesOn, Storing, Steps
  <2>2. WritesOwn(n, k)
    BY <1>1, <1>5 DEF WritesOwn
  <2> QED
    BY <2>1, <2>2
<1>9. BeatFits(n, k)'
  BY <1>1, <1>3, <1>4 DEF BeatFits, Good
<1>10. AloneProgress(n, k)'
  <2> SUFFICES ASSUME b.alone PROVE AloneProgress(n, k)'
    BY <1>3, <1>4 DEF AloneProgress
  <2>1. ASSUME NEW s \in Reports(S) PROVE (c.step = "upsert" /\ s \in c.left) \/ (rows'[n][s] # None /\ rows'[n][s].state = S[s])
    BY <1>1, <1>3, <1>5, <1>6 DEF AloneProgress, Reports
  <2> QED
    BY <1>3, <1>4, <2>1 DEF AloneProgress
<1>11. status' \in [Rule -> Status] /\ UNCHANGED <<Observed, noted, due>> /\ shown' = shown
  BY <1>1 DEF Upsert, Rest, TypeOK
<1> QED
  BY <1>1, <1>2, <1>3, <1>7, <1>8, <1>9, <1>10, <1>11, WorkStep DEF c

\* A beat that has nothing more to delete: it looks the rules up, or it is over and is shown.
LEMMA Concluding ==
    ASSUME IInv, NEW n \in Node, NEW k \in Slot, Stores(n, k), Concludes(n, k, beats[n][k]),
           WritesOwn(n, k), rows'[n] \in [Service \cup {Heartbeat} -> HealthRow \cup {None}],
           rows' = [rows EXCEPT ![n] = rows'[n]],
           status' \in [Rule -> Status], UNCHANGED <<Observed, noted, due>>,
           beats[n][k].alone =>
             /\ \A s \in Reports(beats[n][k].snapshot) :
                  rows'[n][s] # None /\ rows'[n][s].state = beats[n][k].snapshot[s]
             /\ \A s \in Service : rows'[n][s] # None => s \in Reports(beats[n][k].snapshot)
    PROVE  IInv'
<1> DEFINE b == beats[n][k]
           S == b.snapshot
<1>1. b \in BeatRecord /\ S \in Snapshot /\ TypeOK /\ Good(n) /\ b.age <= Latency /\ b.alone \in BOOLEAN
  BY StoringBeat DEF BeatFits
<1>2. b.alone => Shown(n)' = S
  <2> SUFFICES ASSUME b.alone PROVE Shown(n)' = S
    OBVIOUS
  <2>1. \A s \in Service : (IF rows'[n][s] = None THEN None ELSE rows'[n][s].state) = S[s]
    BY DEF Reports
  <2> QED
    BY <1>1, <2>1 DEF Shown, Snapshot
<1>3. CASE Verdicts(b) # {}
  <2> DEFINE c == [b EXCEPT !.step = "lookup", !.left = {}]
  <2>1. /\ c \in BeatRecord /\ c.step = "lookup" /\ c.left = {}
        /\ c.snapshot = S /\ c.age = b.age /\ c.alone = b.alone
    BY <1>1 DEF BeatRecord, Steps
  <2>2. Goes(n, k, c) /\ shown' = shown
    BY <1>3 DEF Concludes
  <2> HIDE DEF c
  <2>3. beats'[n][k] = c /\ \A j \in Slot \ {k} : beats'[n][j] = beats[n][j]
    BY <1>1, <2>1, <2>2, GoesTo
  <2>4. GoesOn(n, k)
    BY <2>1, <2>3 DEF GoesOn, Storing, Steps
  <2>5. BeatFits(n, k)' /\ AloneProgress(n, k)'
    BY <1>1, <2>1, <2>3 DEF BeatFits, AloneProgress
  <2> QED
    BY <2>1, <2>2, <2>4, <2>5, WorkStep
<1>4. CASE Verdicts(b) = {}
  <2>1. Goes(n, k, Resting) /\ shown' = [shown EXCEPT ![n] = IF b.alone THEN S ELSE None]
    BY <1>4 DEF Concludes
  <2>2. beats'[n][k] = Resting /\ \A j \in Slot \ {k} : beats'[n][j] = beats[n][j]
    BY <1>1, <2>1, RestingIsBeat, GoesTo
  <2>3. GoesOn(n, k)
    BY <2>2 DEF GoesOn
  <2>4. BeatFits(n, k)' /\ AloneProgress(n, k)'
    BY <2>2, RestingIsBeat, Bounds DEF BeatFits, AloneProgress, Stores
  <2>5. \/ shown' = [shown EXCEPT ![n] = None]
        \/ b.alone /\ shown' = [shown EXCEPT ![n] = S] /\ Shown(n)' = S
    BY <1>1, <1>2, <2>1
  <2> QED
    BY <2>1, <2>3, <2>4, <2>5, RestingIsBeat, WorkStep
<1> QED
  BY <1>3, <1>4

\* The rows are read.
LEMMA DiffStep ==
    ASSUME IInv, NEW n \in Node, NEW k \in Slot, Diff(n, k)
    PROVE  IInv'
<1> DEFINE b == beats[n][k]
           S == b.snapshot
           stale == Stored(n) \ Kept(S)
<1>1. b.step = "diff" /\ Stores(n, k)
  BY DEF Diff, At, Stores, Storing, Steps
<1>2. /\ b \in BeatRecord /\ S \in Snapshot /\ TypeOK /\ Good(n) /\ AloneProgress(n, k) /\ b.age <= Latency
      /\ DOMAIN rows[n] = Service \cup {Heartbeat}
  BY <1>1, StoringBeat DEF BeatFits
<1>3. UNCHANGED <<Observed, rows, status, noted, due>>
  BY DEF Diff, Rest
<1>4. /\ rows'[n] \in [Service \cup {Heartbeat} -> HealthRow \cup {None}] /\ rows' = [rows EXCEPT ![n] = rows'[n]]
      /\ WritesOwn(n, k) /\ status' \in [Rule -> Status]
  BY <1>2, <1>3 DEF TypeOK, WritesOwn
<1>5. b.alone => \A s \in Reports(S) : rows'[n][s] # None /\ rows'[n][s].state = S[s]
  BY <1>1, <1>2, <1>3 DEF AloneProgress
<1>6. CASE stale = {}
  <2>1. Concludes(n, k, b)
    BY <1>6 DEF Diff
  <2>2. \A s \in Service : rows'[n][s] # None => s \in Reports(S)
    BY <1>3, <1>6, HealthAssumption DEF Stored, Kept
  <2> QED
    BY <1>1, <1>3, <1>4, <1>5, <2>1, <2>2, Concluding
<1>7. CASE stale # {}
  <2> DEFINE c == [b EXCEPT !.step = "delete", !.left = stale]
  <2>1. stale \subseteq Service /\ stale \cap Reports(S) = {}
    BY DEF Stored, Kept
  <2>2. /\ c \in BeatRecord /\ c.step = "delete" /\ c.left = stale
        /\ c.snapshot = S /\ c.age = b.age /\ c.alone = b.alone
    BY <1>2, <2>1 DEF BeatRecord, Steps
  <2>3. Goes(n, k, c) /\ shown' = shown
    BY <1>7 DEF Diff
  <2> HIDE DEF c
  <2>4. beats'[n][k] = c /\ \A j \in Slot \ {k} : beats'[n][j] = beats[n][j]
    BY <1>2, <2>2, <2>3, GoesTo
  <2>5. GoesOn(n, k)
    BY <2>2, <2>4 DEF GoesOn, Storing, Steps
  <2>6. BeatFits(n, k)'
    BY <1>2, <2>1, <2>2, <2>4 DEF BeatFits
  <2>7. \A s \in Service : rows'[n][s] # None => s \in Reports(S) \/ s \in stale
    BY <1>3, HealthAssumption DEF Stored, Kept
  <2>8. AloneProgress(n, k)'
    BY <1>5, <2>2, <2>4, <2>7 DEF AloneProgress
  <2> QED
    BY <1>1, <1>3, <1>4, <2>2, <2>3, <2>5, <2>6, <2>8, WorkStep
<1> QED
  BY <1>6, <1>7

\* What the snapshot no longer has is deleted.
LEMMA DeleteStep ==
    ASSUME IInv, NEW n \in Node, NEW k \in Slot, Delete(n, k)
    PROVE  IInv'
<1> DEFINE b == beats[n][k]
           S == b.snapshot
<1>1. b.step = "delete" /\ Stores(n, k)
  BY DEF Delete, At, Stores, Storing, Steps
<1>2. /\ b \in BeatRecord /\ S \in Snapshot /\ TypeOK /\ Good(n) /\ AloneProgress(n, k) /\ b.age <= Latency
      /\ b.left \subseteq Service /\ b.left \cap Reports(S) = {} /\ Heartbeat \notin Service
      /\ DOMAIN rows[n] = Service \cup {Heartbeat}
  BY <1>1, StoringBeat, HealthAssumption DEF BeatFits
<1>3. PICK part \in SUBSET b.left :
        /\ rows' = [rows EXCEPT ![n] = [s \in DOMAIN @ |-> IF s \in part THEN None ELSE @[s]]]
        /\ IF b.left = part THEN Concludes(n, k, b)
           ELSE Goes(n, k, [b EXCEPT !.left = @ \ part]) /\ UNCHANGED shown
  BY DEF Delete
<1>4. UNCHANGED <<Observed, status, noted, due>> /\ status' \in [Rule -> Status]
  BY <1>2 DEF Delete, Rest, TypeOK
<1>5. rows'[n] = [s \in Service \cup {Heartbeat} |-> IF s \in part THEN None ELSE rows[n][s]]
  BY <1>2, <1>3 DEF TypeOK
<1>6. rows'[n] \in [Service \cup {Heartbeat} -> HealthRow \cup {None}] /\ rows' = [rows EXCEPT ![n] = rows'[n]]
  <2>1. \A s \in Service \cup {Heartbeat} : rows[n][s] \in HealthRow \cup {None}
    BY <1>2 DEF TypeOK
  <2> QED
    BY <1>2, <1>3, <1>5, <2>1 DEF TypeOK
<1>7. WritesOwn(n, k)
  BY <1>2, <1>5 DEF WritesOwn
<1>8. b.alone =>
        /\ \A s \in Reports(S) : rows'[n][s] # None /\ rows'[n][s].state = S[s]
        /\ \A s \in Service : rows'[n][s] # None => s \in Reports(S) \/ s \in b.left \ part
  BY <1>1, <1>2, <1>5 DEF AloneProgress, Reports
<1>9. CASE b.left = part
  <2>1. Concludes(n, k, b)
    BY <1>3, <1>9
  <2> QED
    BY <1>1, <1>4, <1>6, <1>7, <1>8, <1>9, <2>1, Concluding
<1>10. CASE b.left # part
  <2> DEFINE c == [b EXCEPT !.left = @ \ part]
  <2>1. /\ c \in BeatRecord /\ c.step = "delete" /\ c.left = b.left \ part
        /\ c.snapshot = S /\ c.age = b.age /\ c.alone = b.alone
    BY <1>1, <1>2 DEF BeatRecord
  <2>2. Goes(n, k, c) /\ shown' = shown
    BY <1>3, <1>10
  <2> HIDE DEF c
  <2>3. beats'[n][k] = c /\ \A j \in Slot \ {k} : beats'[n][j] = beats[n][j]
    BY <1>2, <2>1, <2>2, GoesTo
  <2>4. GoesOn(n, k)
    BY <2>1, <2>3 DEF GoesOn, Storing, Steps
  <2>5. BeatFits(n, k)'
    BY <1>2, <2>1, <2>3 DEF BeatFits
  <2>6. AloneProgress(n, k)'
    BY <1>8, <2>1, <2>3 DEF AloneProgress
  <2> QED
    BY <1>1, <1>4, <1>6, <1>7, <2>1, <2>2, <2>4, <2>5, <2>6, WorkStep
<1> QED
  BY <1>9, <1>10

\* The statuses of rules are read or written: what is stored of the node stays.
LEMMA RulesStep ==
    ASSUME IInv, NEW n \in Node, NEW k \in Slot, beats[n][k].step \in {"lookup", "update"},
           rows' = rows, status' \in [Rule -> Status], UNCHANGED <<Observed, noted, due>>,
           \/ /\ Goes(n, k, Resting)
              /\ shown' = [shown EXCEPT ![n] = IF beats[n][k].alone THEN beats[n][k].snapshot ELSE None]
           \/ /\ shown' = shown
              /\ \E rs \in SUBSET Verdicts(beats[n][k]) :
                   Goes(n, k, [beats[n][k] EXCEPT !.step = "update", !.left = rs])
    PROVE  IInv'
<1> DEFINE b == beats[n][k]
           S == b.snapshot
<1>1. Stores(n, k)
  BY DEF Stores, Storing, Steps
<1>2. /\ b \in BeatRecord /\ S \in Snapshot /\ TypeOK /\ Good(n) /\ AloneProgress(n, k) /\ b.age <= Latency
      /\ b.alone \in BOOLEAN
  BY <1>1, StoringBeat DEF BeatFits
<1>3. /\ rows'[n] \in [Service \cup {Heartbeat} -> HealthRow \cup {None}] /\ rows' = [rows EXCEPT ![n] = rows'[n]]
      /\ WritesOwn(n, k)
  BY <1>2 DEF TypeOK, WritesOwn
<1>4. b.alone => /\ \A s \in Reports(S) : rows[n][s] # None /\ rows[n][s].state = S[s]
                 /\ \A s \in Service : rows[n][s] # None => s \in Reports(S)
  BY <1>1, <1>2 DEF AloneProgress
<1>5. CASE /\ Goes(n, k, Resting)
           /\ shown' = [shown EXCEPT ![n] = IF b.alone THEN S ELSE None]
  <2>1. beats'[n][k] = Resting /\ \A j \in Slot \ {k} : beats'[n][j] = beats[n][j]
    BY <1>2, <1>5, RestingIsBeat, GoesTo
  <2>2. GoesOn(n, k)
    BY <2>1 DEF GoesOn
  <2>3. BeatFits(n, k)'
    <3>1. 0 <= Latency /\ Resting.age = 0 /\ Resting.step = "idle"
      BY RestingIsBeat, Bounds
    <3> QED
      BY <2>1, <3>1 DEF BeatFits
  <2>6. AloneProgress(n, k)'
    BY <2>1, RestingIsBeat DEF AloneProgress, Stores
  <2>4. b.alone => Shown(n)' = S
    <3>1. b.alone => Shown(n) = S
      BY <1>2, <1>4, StoredIsShown
    <3> QED
      BY <3>1 DEF Shown
  <2>5. \/ shown' = [shown EXCEPT ![n] = None]
        \/ b.alone /\ shown' = [shown EXCEPT ![n] = S] /\ Shown(n)' = S
    BY <1>2, <1>5, <2>4
  <2> QED
    BY <1>1, <1>3, <1>5, <2>2, <2>3, <2>5, <2>6, RestingIsBeat, WorkStep
<1>6. ASSUME NEW rs \in SUBSET Verdicts(b), Goes(n, k, [b EXCEPT !.step = "update", !.left = rs]), shown' = shown
      PROVE  IInv'
  <2> DEFINE c == [b EXCEPT !.step = "update", !.left = rs]
  <2>1. /\ c \in BeatRecord /\ c.step = "update" /\ c.left = rs
        /\ c.snapshot = S /\ c.age = b.age /\ c.alone = b.alone
    <3>1. rs \subseteq Service
      BY DEF Verdicts, Service
    <3> QED
      BY <1>2, <3>1 DEF BeatRecord, Steps
  <2>2. Goes(n, k, c)
    BY <1>6
  <2> HIDE DEF c
  <2>3. beats'[n][k] = c /\ \A j \in Slot \ {k} : beats'[n][j] = beats[n][j]
    BY <1>2, <2>1, <2>2, GoesTo
  <2>4. GoesOn(n, k)
    BY <2>1, <2>3 DEF GoesOn, Storing, Steps
  <2>5. BeatFits(n, k)'
    BY <1>2, <2>1, <2>3 DEF BeatFits, Verdicts
  <2>6. AloneProgress(n, k)'
    BY <1>4, <2>1, <2>3 DEF AloneProgress
  <2> QED
    BY <1>1, <1>3, <1>6, <2>1, <2>2, <2>4, <2>5, <2>6, WorkStep
<1> QED
  BY <1>5, <1>6

\* The statuses of its rules are read, and those that differ are written.
LEMMA LookupStep ==
    ASSUME IInv, NEW n \in Node, NEW k \in Slot, Lookup(n, k) \/ UpdateStatus(n, k)
    PROVE  IInv'
<1>1. CASE Lookup(n, k)
  <2> DEFINE changed == {r \in Verdicts(beats[n][k]) \cap Authorized(n) :
                           status[r] # Verdict(beats[n][k].snapshot, r)}
  <2>1. beats[n][k].step = "lookup" /\ rows' = rows /\ status' = status /\ UNCHANGED <<Observed, noted, due>>
    BY <1>1 DEF Lookup, At, Rest
  <2>2. status' \in [Rule -> Status]
    BY <2>1 DEF IInv, TypeOK
  <2>3. changed \in SUBSET Verdicts(beats[n][k])
    OBVIOUS
  <2>4. \/ /\ Goes(n, k, Resting)
           /\ shown' = [shown EXCEPT ![n] = IF beats[n][k].alone THEN beats[n][k].snapshot ELSE None]
        \/ shown' = shown /\ Goes(n, k, [beats[n][k] EXCEPT !.step = "update", !.left = changed])
    BY <1>1 DEF Lookup
  <2> HIDE DEF changed
  <2> QED
    BY <2>1, <2>2, <2>3, <2>4, RulesStep
<1>2. CASE UpdateStatus(n, k)
  <2>1. /\ beats[n][k].step = "update" /\ rows' = rows /\ UNCHANGED <<Observed, noted, due>>
        /\ status \in [Rule -> Status] /\ beats[n][k] \in BeatRecord
    BY <1>2 DEF UpdateStatus, At, Rest, IInv, TypeOK
  <2>2. PICK r \in beats[n][k].left :
          /\ status' = [status EXCEPT ![r] = Derived(@, Verdict(beats[n][k].snapshot, r))]
          /\ IF beats[n][k].left # {r}
             THEN Goes(n, k, [beats[n][k] EXCEPT !.left = @ \ {r}]) /\ UNCHANGED shown
             ELSE /\ Goes(n, k, Resting)
                  /\ shown' = [shown EXCEPT ![n] = IF beats[n][k].alone THEN beats[n][k].snapshot ELSE None]
    BY <1>2 DEF UpdateStatus
  <2>3. beats[n][k].left \subseteq Verdicts(beats[n][k]) /\ status[r] \in Status /\ r \in Rule
    BY <2>1, <2>2 DEF IInv, Good, BeatFits, Verdicts, TypeOK
  <2>4. Verdict(beats[n][k].snapshot, r) \in {"running", "error"}
    BY <2>3 DEF Verdicts, Verdict
  <2>5. status' \in [Rule -> Status]
    BY <2>1, <2>2, <2>3, <2>4 DEF Derived, Status
  <2>6. CASE beats[n][k].left = {r}
    BY <2>1, <2>2, <2>5, <2>6, RulesStep
  <2>7. CASE beats[n][k].left # {r}
    <3> DEFINE rs == beats[n][k].left \ {r}
    <3>1. [beats[n][k] EXCEPT !.left = @ \ {r}] = [beats[n][k] EXCEPT !.step = "update", !.left = rs]
      BY <2>1 DEF BeatRecord
    <3>2. rs \in SUBSET Verdicts(beats[n][k]) /\ shown' = shown
      BY <2>2, <2>3, <2>7
    <3>3. Goes(n, k, [beats[n][k] EXCEPT !.step = "update", !.left = rs])
      BY <2>2, <2>7, <3>1
    <3> HIDE DEF rs
    <3> QED
      BY <2>1, <2>5, <3>2, <3>3, RulesStep
  <2> QED
    BY <2>6, <2>7
<1> QED
  BY <1>1, <1>2

-----------------------------------------------------------------------------
(* Stamps and time.                                                        *)

\* The liveness stamp: beats with other snapshots are no longer alone, nor is this one beside them.
LEMMA StampStep ==
    ASSUME IInv, NEW n \in Node, NEW k \in Slot, Stamp(n, k)
    PROVE  IInv'
<1> DEFINE b == beats[n][k]
           c == [b EXCEPT !.step = IF Reports(b.snapshot) = {} THEN "diff" ELSE "upsert",
                          !.left = Reports(b.snapshot), !.alone = Others(n, k) = {}]
<1>0. TypeOK /\ Good(n)
  BY DEF IInv
<1>1. /\ b \in BeatRecord /\ b.step = "stamp" /\ b.snapshot \in Snapshot /\ b.age \in 0 .. Latency
      /\ ~Stores(n, k) /\ Reports(b.snapshot) \subseteq Service
  <2>1. b.step = "stamp"
    BY DEF Stamp, At
  <2>2. b \in BeatRecord
    BY <1>0 DEF TypeOK
  <2>3. b.age \in Nat
    BY <2>2 DEF BeatRecord
  <2> QED
    BY <1>0, <2>1, <2>2, <2>3, Bounds DEF Good, BeatFits, Stores, Storing, Reports
<1>2. /\ c \in BeatRecord /\ c.step = (IF Reports(b.snapshot) = {} THEN "diff" ELSE "upsert")
      /\ c.left = Reports(b.snapshot) /\ c.alone = (Others(n, k) = {})
      /\ c.snapshot = b.snapshot /\ c.age = b.age
  <2>1. (Others(n, k) = {}) \in BOOLEAN
    OBVIOUS
  <2> QED
    BY <1>1, <2>1 DEF BeatRecord, Steps
<1>3. beats' = [beats EXCEPT ![n] = [j \in Slot |-> CASE j = k -> c
                  [] j \in Others(n, k) -> [beats[n][j] EXCEPT !.alone = FALSE]
                  [] OTHER -> beats[n][j]]]
  BY <1>0 DEF Stamp, TypeOK
<1> HIDE DEF c
<1>4. /\ beats'[n][k] = c
      /\ \A j \in Slot \ {k} : beats'[n][j] = IF j \in Others(n, k) THEN [beats[n][j] EXCEPT !.alone = FALSE] ELSE beats[n][j]
      /\ \A m \in Node \ {n} : beats'[m] = beats[m]
      /\ DOMAIN beats' = Node /\ DOMAIN beats'[n] = Slot
      /\ beats'[n] = [j \in Slot |-> beats'[n][j]]
  BY <1>0, <1>3 DEF TypeOK, Others
<1>5. \A j \in Slot \ {k} :
        /\ beats[n][j] \in BeatRecord /\ beats'[n][j] \in BeatRecord
        /\ beats'[n][j].step = beats[n][j].step /\ beats'[n][j].snapshot = beats[n][j].snapshot
        /\ beats'[n][j].age = beats[n][j].age /\ beats'[n][j].left = beats[n][j].left
        /\ beats'[n][j].alone = (beats[n][j].alone /\ j \notin Others(n, k))
  <2> SUFFICES ASSUME NEW j \in Slot \ {k}
               PROVE  /\ beats[n][j] \in BeatRecord /\ beats'[n][j] \in BeatRecord
                      /\ beats'[n][j].step = beats[n][j].step /\ beats'[n][j].snapshot = beats[n][j].snapshot
                      /\ beats'[n][j].age = beats[n][j].age /\ beats'[n][j].left = beats[n][j].left
                      /\ beats'[n][j].alone = (beats[n][j].alone /\ j \notin Others(n, k))
    OBVIOUS
  <2>1. beats[n][j] \in BeatRecord
    BY <1>0 DEF TypeOK
  <2>2. CASE j \in Others(n, k)
    <3>1. beats'[n][j] = [beats[n][j] EXCEPT !.alone = FALSE]
      BY <1>4, <2>2
    <3> QED
      BY <2>1, <2>2, <3>1 DEF BeatRecord
  <2>3. CASE j \notin Others(n, k)
    <3>1. beats'[n][j] = beats[n][j] /\ beats[n][j].alone \in BOOLEAN
      BY <1>4, <2>1, <2>3 DEF BeatRecord
    <3> QED
      BY <2>1, <2>3, <3>1
  <2> QED
    BY <2>2, <2>3
<1>6. /\ rows' = [rows EXCEPT ![n][Heartbeat] = Row("ready", b.age)]
      /\ noted' = [noted EXCEPT ![n] = Min({@, b.age})] /\ shown' = [shown EXCEPT ![n] = None]
      /\ UNCHANGED <<alive, world, status>>
  BY DEF Stamp, Observed
<1>7. /\ Row("ready", b.age) \in HealthRow /\ Row("ready", b.age) # None /\ Row("ready", b.age).age = b.age
      /\ Heartbeat \notin Service
  <2>1. b.age \in Nat /\ "ready" \in State
    BY <1>1, Bounds DEF State
  <2>2. Row("ready", b.age) \in HealthRow /\ Row("ready", b.age).age = b.age
    BY <2>1 DEF Row, HealthRow
  <2> QED
    BY <2>2, Bounds, HealthAssumption DEF HealthRow
<1>8. /\ \A s \in Service : rows'[n][s] = rows[n][s]
      /\ rows'[n][Heartbeat] = Row("ready", b.age) /\ shown'[n] = None
      /\ noted'[n] = Min({noted[n], b.age}) /\ noted[n] \in 0 .. Offline
  BY <1>0, <1>6, <1>7 DEF TypeOK
<1>9. noted'[n] \in 0 .. Offline /\ noted'[n] <= noted[n] /\ noted'[n] <= b.age
  BY <1>0, <1>1, <1>8, MinOfTwo, Bounds
<1>10. TypeOK'
  <2>1. beats' \in [Node -> [Slot -> BeatRecord]]
    <3>1. beats'[n] \in [Slot -> BeatRecord]
      BY <1>2, <1>4, <1>5
    <3> QED
      BY <1>0, <1>3, <1>4, <3>1 DEF TypeOK
  <2>2. rows' \in [Node -> [Service \cup {Heartbeat} -> HealthRow \cup {None}]]
    BY <1>0, <1>6, <1>7 DEF TypeOK
  <2>3. noted' \in [Node -> 0 .. Offline] /\ shown' \in [Node -> Snapshot \cup {None}]
    BY <1>0, <1>6, <1>8, <1>9 DEF TypeOK
  <2> QED
    BY <1>0, <1>6, <2>1, <2>2, <2>3 DEF TypeOK
<1>11. ASSUME NEW m \in Node \ {n} PROVE Good(m)'
  BY <1>0, <1>4, <1>6, OtherNode DEF TypeOK, IInv
<1>12. ASSUME NEW j \in Slot PROVE BeatFits(n, j)'
  <2>1. CASE j = k
    BY <1>1, <1>2, <1>4, <2>1 DEF BeatFits
  <2>2. CASE j # k
    BY <1>0, <1>5, <2>2 DEF Good, BeatFits, Verdicts
  <2> QED
    BY <2>1, <2>2
<1>13. ASSUME NEW j \in Slot PROVE AloneAgrees(n, j)'
  <2>1. CASE j = k
    <3> SUFFICES ASSUME Others(n, k) = {}, NEW i \in Slot \ {k}, Stores(n, i)'
                 PROVE  beats'[n][i].snapshot = beats'[n][k].snapshot
      BY <1>2, <1>4, <2>1 DEF AloneAgrees
    <3>1. Stores(n, i)
      BY <1>5 DEF Stores
    <3>2. beats[n][i].snapshot = b.snapshot
      BY <3>1 DEF Stores, Others
    <3> QED
      BY <1>2, <1>4, <1>5, <3>2
  <2>2. CASE j # k
    <3> SUFFICES ASSUME Stores(n, j)', beats'[n][j].alone, NEW i \in Slot, Stores(n, i)'
                 PROVE  beats'[n][i].snapshot = beats'[n][j].snapshot
      BY DEF AloneAgrees
    <3>1. Stores(n, j) /\ beats[n][j].alone /\ beats[n][j].snapshot = b.snapshot
      BY <1>5, <2>2 DEF Stores, Others
    <3> QED
      BY <1>0, <1>2, <1>4, <1>5, <2>2, <3>1 DEF Good, AloneAgrees, Stores
  <2> QED
    BY <2>1, <2>2
<1>14. ASSUME NEW j \in Slot PROVE AloneProgress(n, j)'
  <2>1. CASE j = k
    <3>1. \A s \in Reports(b.snapshot) : c.step = "upsert" /\ s \in c.left
      BY <1>2
    <3>2. c.step \in {"upsert", "diff"}
      BY <1>2
    <3> QED
      BY <1>2, <1>4, <2>1, <3>1, <3>2 DEF AloneProgress
  <2>2. CASE j # k
    <3> SUFFICES ASSUME Stores(n, j)', beats'[n][j].alone PROVE AloneProgress(n, j)'
      BY DEF AloneProgress
    <3>1. AloneProgress(n, j) /\ Stores(n, j) /\ beats[n][j].alone
      BY <1>0, <1>5, <2>2 DEF Good, Stores
    <3>2. Reports(beats[n][j].snapshot) \subseteq Service
      BY DEF Reports
    <3> QED
      BY <1>5, <1>8, <2>2, <3>1, <3>2 DEF AloneProgress
  <2> QED
    BY <2>1, <2>2
<1>15. ShownHolds(n)'
  BY <1>8 DEF ShownHolds
<1>16. NothingFresher(n)'
  <2>1. \A s \in Service \cup {Heartbeat} : rows[n][s] \in HealthRow \cup {None}
    BY <1>0 DEF TypeOK
  <2>2. \A s \in Service \cup {Heartbeat} : rows'[n][s] # None => noted'[n] <= rows'[n][s].age
    BY <1>0, <1>7, <1>8, <1>9, <2>1 DEF Good, NothingFresher, HealthRow
  <2>3. \A j \in Slot : beats[n][j].age \in Nat
    BY <1>0 DEF TypeOK, BeatRecord
  <2>4. \A j \in Slot : Stores(n, j)' => noted'[n] <= beats'[n][j].age
    BY <1>0, <1>2, <1>4, <1>5, <1>8, <1>9, <2>3 DEF Good, NothingFresher, Stores
  <2> QED
    BY <2>2, <2>4 DEF NothingFresher
<1>17. SentinelFollows(n)'
  BY <1>0, <1>1, <1>7, <1>8, <1>9, Bounds DEF SentinelFollows
<1> QED
  BY <1>10, <1>11, <1>12, <1>13, <1>14, <1>15, <1>16, <1>17 DEF IInv, Good

\* Ages of rows grow until they no longer count.
LEMMA OlderAges ==
    ASSUME NEW a \in Nat
    PROVE  Older(a) \in Nat /\ a <= Older(a) /\ Older(a) <= a + 1 /\ (a \in 0 .. Offline => Older(a) \in 0 .. Offline)
BY Bounds DEF Older

\* Neither rows nor beats get ahead of the freshest stamp by getting older.
LEMMA OlderKeepsOrder ==
    ASSUME NEW a \in 0 .. Offline, NEW b \in Nat, a <= b
    PROVE  Older(a) <= Older(b) /\ Older(a) <= b + 1 /\ (Older(a) < Offline => a < Offline /\ Older(a) = a + 1)
BY Bounds DEF Older

\* A tick: everything gets older alike, and a beat that could get late has kept it from happening.
LEMMA TickStep ==
    ASSUME IInv, Tick
    PROVE  IInv'
<1>0. TypeOK /\ \A n \in Node : Good(n)
  BY DEF IInv
<1>1. /\ rows' = [n \in Node |-> [s \in Service \cup {Heartbeat} |->
             IF rows[n][s] = None THEN None ELSE [rows[n][s] EXCEPT !.age = Older(@)]]]
      /\ beats' = [n \in Node |-> [k \in Slot |->
             IF At(n, k, "idle") THEN Resting ELSE [beats[n][k] EXCEPT !.age = @ + 1]]]
      /\ noted' = [n \in Node |-> Older(noted[n])]
      /\ UNCHANGED <<alive, world, status, shown>>
      /\ \A n \in Node, k \in Slot : ~At(n, k, "idle") => beats[n][k].age < Latency
  BY DEF Tick, Observed
<1>2. ASSUME NEW n \in Node, NEW s \in Service \cup {Heartbeat}
      PROVE  /\ rows'[n][s] \in HealthRow \cup {None} /\ rows[n][s] \in HealthRow \cup {None}
             /\ rows'[n][s] = None <=> rows[n][s] = None
             /\ rows[n][s] # None => /\ rows[n][s].age \in Nat /\ rows'[n][s].state = rows[n][s].state
                                     /\ rows'[n][s].age = Older(rows[n][s].age)
  <2>1. rows[n][s] \in HealthRow \cup {None} /\ None \notin HealthRow
    BY <1>0, HealthAssumption DEF TypeOK, HealthRow
  <2>2. CASE rows[n][s] = None
    BY <1>1, <2>2
  <2>3. CASE rows[n][s] # None
    <3>1. rows[n][s] \in HealthRow /\ rows[n][s].age \in Nat
      BY <2>1, <2>3 DEF HealthRow
    <3>2. rows'[n][s] = [rows[n][s] EXCEPT !.age = Older(@)] /\ Older(rows[n][s].age) \in Nat
      BY <1>1, <2>3, <3>1, OlderAges
    <3>3. rows'[n][s] \in HealthRow /\ rows'[n][s].state = rows[n][s].state /\ rows'[n][s].age = Older(rows[n][s].age)
      BY <3>1, <3>2 DEF HealthRow
    <3> QED
      BY <2>1, <2>3, <3>1, <3>3
  <2> QED
    BY <2>2, <2>3
<1>3. ASSUME NEW n \in Node, NEW k \in Slot
      PROVE  /\ beats'[n][k] \in BeatRecord /\ beats[n][k] \in BeatRecord
             /\ beats'[n][k].step = beats[n][k].step
             /\ beats[n][k].step # "idle" =>
                  /\ beats'[n][k].snapshot = beats[n][k].snapshot /\ beats'[n][k].left = beats[n][k].left
                  /\ beats'[n][k].alone = beats[n][k].alone
                  /\ beats'[n][k].age = beats[n][k].age + 1 /\ beats[n][k].age < Latency
             /\ beats[n][k].step = "idle" => beats'[n][k].age = 0
  <2>1. beats[n][k] \in BeatRecord
    BY <1>0 DEF TypeOK
  <2>2. CASE beats[n][k].step = "idle"
    BY <1>1, <2>1, <2>2, RestingIsBeat DEF At
  <2>3. CASE beats[n][k].step # "idle"
    <3>1. beats'[n][k] = [beats[n][k] EXCEPT !.age = @ + 1] /\ beats[n][k].age < Latency
      BY <1>1, <2>3 DEF At
    <3> QED
      BY <2>1, <2>3, <3>1 DEF BeatRecord
  <2> QED
    BY <2>2, <2>3
<1>4. ASSUME NEW n \in Node
      PROVE  noted[n] \in 0 .. Offline /\ noted'[n] = Older(noted[n]) /\ noted'[n] \in 0 .. Offline
  <2>1. noted[n] \in 0 .. Offline
    BY <1>0 DEF TypeOK
  <2>2. noted[n] \in Nat
    BY <2>1, Bounds
  <2> QED
    BY <1>1, <2>1, <2>2, OlderAges
<1>5. TypeOK'
  <2>1. rows' \in [Node -> [Service \cup {Heartbeat} -> HealthRow \cup {None}]]
    BY <1>1, <1>2
  <2>2. beats' \in [Node -> [Slot -> BeatRecord]]
    BY <1>1, <1>3
  <2>3. noted' \in [Node -> 0 .. Offline]
    BY <1>1, <1>4
  <2> QED
    BY <1>0, <1>1, <2>1, <2>2, <2>3 DEF TypeOK
<1>6. ASSUME NEW n \in Node PROVE Good(n)'
  <2>0. Good(n)
    BY <1>0
  <2>1. ASSUME NEW k \in Slot PROVE Stores(n, k)' <=> Stores(n, k)
    BY <1>3 DEF Stores
  <2>2. ASSUME NEW k \in Slot, Stores(n, k) PROVE beats[n][k].step # "idle"
    BY <2>2 DEF Stores, Storing
  <2>3. ASSUME NEW k \in Slot PROVE BeatFits(n, k)'
    <3>1. BeatFits(n, k)
      BY <2>0 DEF Good
    <3>2. CASE beats[n][k].step = "idle"
      BY <1>3, <3>2, Bounds DEF BeatFits
    <3>3. CASE beats[n][k].step # "idle"
      <4>1. beats'[n][k].age <= Latency
        <5>1. beats[n][k].age \in Nat
          BY <1>3 DEF BeatRecord
        <5> QED
          BY <1>3, <3>3, <5>1, Bounds
      <4> QED
        BY <1>3, <3>1, <3>3, <4>1 DEF BeatFits, Verdicts
    <3> QED
      BY <3>2, <3>3
  <2>4. ASSUME NEW k \in Slot PROVE AloneAgrees(n, k)'
    <3> SUFFICES ASSUME Stores(n, k)', beats'[n][k].alone, NEW j \in Slot, Stores(n, j)'
                 PROVE  beats'[n][j].snapshot = beats'[n][k].snapshot
      BY DEF AloneAgrees
    <3>1. Stores(n, k) /\ beats[n][k].alone /\ Stores(n, j)
      BY <1>3, <2>1, <2>2
    <3>2. beats[n][j].snapshot = beats[n][k].snapshot
      BY <2>0, <3>1 DEF Good, AloneAgrees
    <3> QED
      BY <1>3, <2>2, <3>1, <3>2
  <2>5. ASSUME NEW k \in Slot PROVE AloneProgress(n, k)'
    <3> SUFFICES ASSUME Stores(n, k)', beats'[n][k].alone PROVE AloneProgress(n, k)'
      BY DEF AloneProgress
    <3>1. Stores(n, k) /\ beats[n][k].alone /\ beats[n][k].step # "idle"
      BY <1>3, <2>1, <2>2
    <3>2. AloneProgress(n, k) /\ Reports(beats[n][k].snapshot) \subseteq Service
      BY <2>0 DEF Good, Reports
    <3> QED
      BY <1>2, <1>3, <3>1, <3>2 DEF AloneProgress
  <2>6. ShownHolds(n)'
    <3> SUFFICES ASSUME shown[n] # None PROVE ShownHolds(n)'
      BY <1>1 DEF ShownHolds
    <3>1. Shown(n) = shown[n] /\ \A j \in Slot : Stores(n, j) => beats[n][j].snapshot = shown[n]
      BY <2>0 DEF Good, ShownHolds
    <3>2. Shown(n)' = Shown(n)
      <4>1. ASSUME NEW s \in Service
            PROVE  (IF rows'[n][s] = None THEN None ELSE rows'[n][s].state)
                     = (IF rows[n][s] = None THEN None ELSE rows[n][s].state)
        BY <1>2
      <4> QED
        BY <4>1 DEF Shown
    <3>3. \A j \in Slot : Stores(n, j)' => beats'[n][j].snapshot = shown[n]
      BY <1>3, <2>1, <2>2, <3>1
    <3> QED
      BY <1>1, <3>1, <3>2, <3>3 DEF ShownHolds
  <2>7. NothingFresher(n)'
    <3>1. ASSUME NEW s \in Service \cup {Heartbeat}, rows'[n][s] # None PROVE noted'[n] <= rows'[n][s].age
      <4>1. rows[n][s] # None /\ rows[n][s].age \in Nat /\ rows'[n][s].age = Older(rows[n][s].age)
        BY <1>2, <3>1
      <4>2. noted[n] <= rows[n][s].age
        BY <2>0, <4>1 DEF Good, NothingFresher
      <4> QED
        BY <1>4, <4>1, <4>2, OlderKeepsOrder
    <3>2. ASSUME NEW k \in Slot, Stores(n, k)' PROVE noted'[n] <= beats'[n][k].age
      <4>1. Stores(n, k) /\ beats[n][k].age \in Nat /\ beats'[n][k].age = beats[n][k].age + 1
        <5>1. Stores(n, k) /\ beats[n][k] \in BeatRecord
          BY <1>3, <2>1, <3>2
        <5> QED
          BY <1>3, <2>2, <5>1 DEF BeatRecord
      <4>2. noted[n] <= beats[n][k].age
        BY <2>0, <4>1 DEF Good, NothingFresher
      <4> QED
        BY <1>4, <4>1, <4>2, OlderKeepsOrder
    <3> QED
      BY <3>1, <3>2 DEF NothingFresher
  <2>8. SentinelFollows(n)'
    <3> SUFFICES ASSUME noted'[n] < Offline
                 PROVE  rows'[n][Heartbeat] # None /\ rows'[n][Heartbeat].age <= noted'[n] + Latency
      BY DEF SentinelFollows
    <3>1. noted[n] < Offline /\ noted'[n] = noted[n] + 1 /\ noted[n] \in Nat
      BY <1>4, Bounds DEF Older
    <3>2. rows[n][Heartbeat] # None /\ rows[n][Heartbeat].age <= noted[n] + Latency
      BY <2>0, <3>1 DEF Good, SentinelFollows
    <3>3. /\ rows'[n][Heartbeat] # None /\ rows[n][Heartbeat].age \in Nat
          /\ rows'[n][Heartbeat].age = Older(rows[n][Heartbeat].age)
      BY <1>2, <3>2
    <3>4. /\ rows'[n][Heartbeat].age \in Nat
          /\ rows'[n][Heartbeat].age <= rows[n][Heartbeat].age + 1
      BY <3>3, OlderAges
    <3> QED
      BY <3>1, <3>2, <3>3, <3>4, Bounds
  <2> QED
    BY <2>3, <2>4, <2>5, <2>6, <2>7, <2>8 DEF Good
<1> QED
  BY <1>5, <1>6 DEF IInv

-----------------------------------------------------------------------------
(* Theorems.                                                               *)

\* A panel that has not heard of its nodes yet has nothing to be wrong about.
LEMMA InitIInv == Init => IInv
<1> SUFFICES ASSUME Init PROVE IInv
  OBVIOUS
<1>1. /\ rows = [n \in Node |-> [s \in Service \cup {Heartbeat} |-> None]]
      /\ beats = [n \in Node |-> [k \in Slot |-> Resting]]
      /\ shown = [n \in Node |-> None] /\ noted = [n \in Node |-> Offline]
      /\ alive \subseteq Node /\ world \in [Node -> Snapshot] /\ status = [r \in Rule |-> "created"]
  BY HealthAssumption DEF Init
<1>2. TypeOK
  <2>1. Offline \in 0 .. Offline
    BY Bounds
  <2> QED
    BY <1>1, <2>1, RestingIsBeat DEF TypeOK, Status
<1>3. ASSUME NEW n \in Node PROVE Good(n)
  <2>1. ASSUME NEW k \in Slot
        PROVE  ~Stores(n, k) /\ beats[n][k].step = "idle" /\ beats[n][k].age = 0
    BY <1>1, RestingIsBeat DEF Stores
  <2>2. ASSUME NEW k \in Slot PROVE BeatFits(n, k) /\ AloneAgrees(n, k) /\ AloneProgress(n, k)
    BY <2>1, Bounds DEF BeatFits, AloneAgrees, AloneProgress
  <2>3. ShownHolds(n) /\ NothingFresher(n)
    BY <1>1, <2>1 DEF ShownHolds, NothingFresher
  <2>4. SentinelFollows(n)
    BY <1>1, Bounds DEF SentinelFollows
  <2> QED
    BY <2>2, <2>3, <2>4 DEF Good
<1> QED
  BY <1>2, <1>3 DEF IInv

\* What operators and agents do touches neither beats nor what they have stored.
LEMMA OthersStep ==
    ASSUME IInv, UNCHANGED <<rows, beats, shown, noted>>,
           alive' \subseteq Node, world' \in [Node -> Snapshot], status' \in [Rule -> Status]
    PROVE  IInv'
<1>1. TypeOK'
  BY DEF IInv, TypeOK
<1>2. \A n \in Node : Good(n)'
  BY OtherNode DEF IInv
<1> QED
  BY <1>1, <1>2 DEF IInv

\* Every step leaves every node as it should be.
LEMMA NextIInv ==
    ASSUME IInv, [Next]_vars
    PROVE  IInv'
<1> USE DEF IInv
<1>0. TypeOK
  OBVIOUS
<1>1. ASSUME NEW n \in Node, NEW k \in Slot, Beat(n, k) \/ Works(n, k) \/ Fail(n, k) PROVE IInv'
  BY <1>1, BeatStep, StampStep, UpsertStep, DiffStep, DeleteStep, LookupStep, FailStep DEF Works
<1>2. ASSUME NEW n \in Node, Lose(n) PROVE IInv'
  BY <1>0, <1>2, OthersStep DEF Lose, Observed, TypeOK
<1>3. CASE Tick
  BY <1>3, TickStep
<1>4. ASSUME NEW n \in Node, NEW s \in Service, NEW state \in State \cup {None}, AgentChanges(n, s, state) PROVE IInv'
  <2>1. world' \in [Node -> Snapshot]
    BY <1>0, <1>4 DEF AgentChanges, TypeOK, Snapshot
  <2> QED
    BY <1>0, <1>4, <2>1, OthersStep DEF AgentChanges, TypeOK
<1>5. ASSUME NEW n \in Node, AgentStopsOrStarts(n) PROVE IInv'
  <2>1. alive' \subseteq Node
    BY <1>0, <1>5 DEF AgentStopsOrStarts, TypeOK
  <2> QED
    BY <1>0, <1>5, <2>1, OthersStep DEF AgentStopsOrStarts, TypeOK
<1>6. ASSUME NEW r \in Rule, NEW value \in Status, OperatorSetsStatus(r, value) PROVE IInv'
  <2>1. status' \in [Rule -> Status]
    BY <1>0, <1>6 DEF OperatorSetsStatus, TypeOK
  <2> QED
    BY <1>0, <1>6, <2>1, OthersStep DEF OperatorSetsStatus, TypeOK
<1>7. ASSUME NEW r \in Rule, NEW ns \in SUBSET Node, HostsChange(r, ns) PROVE IInv'
  BY <1>0, <1>7, OthersStep DEF HostsChange, TypeOK
<1>8. CASE UNCHANGED vars
  BY <1>0, <1>8, OthersStep DEF vars, TypeOK
<1> QED
  BY <1>1, <1>2, <1>3, <1>4, <1>5, <1>6, <1>7, <1>8 DEF Next

\* The age of the freshest row is that of a row, and no row is fresher.
LEMMA FreshestRow ==
    ASSUME TypeOK, NEW n \in Node, Stored(n) # {}
    PROVE  /\ LastReport(n) \in Nat /\ LastReport(n) # None
           /\ \E s \in Stored(n) : LastReport(n) = rows[n][s].age
           /\ \A s \in Stored(n) : LastReport(n) <= rows[n][s].age
<1> DEFINE ages == {rows[n][s].age : s \in Stored(n)}
<1>1. ASSUME NEW s \in Stored(n) PROVE rows[n][s].age \in Nat
  <2>1. s \in Service \cup {Heartbeat} /\ rows[n][s] # None
    BY <1>1 DEF Stored
  <2>2. rows[n][s] \in HealthRow
    BY <2>1 DEF TypeOK
  <2> QED
    BY <2>2 DEF HealthRow
<1>2. ages \in SUBSET Nat /\ ages # {}
  BY <1>1
<1>3. LastReport(n) = Min(ages)
  BY DEF LastReport
<1> HIDE DEF ages
<1>4. Min(ages) \in ages /\ \A x \in ages : Min(ages) <= x
  BY <1>2, MinIsLeast
<1>5. Min(ages) \in Nat /\ Min(ages) # None
  BY <1>2, <1>4, HealthAssumption
<1>6. (\E s \in Stored(n) : Min(ages) = rows[n][s].age) /\ \A s \in Stored(n) : Min(ages) <= rows[n][s].age
  BY <1>4 DEF ages
<1> QED
  BY <1>3, <1>5, <1>6

\* A node whose freshest row counts is not offline.
LEMMA FreshNodeIsOnline ==
    ASSUME TypeOK, NEW n \in Node, NEW s \in Stored(n), rows[n][s].age < Offline
    PROVE  Kind(n) \notin {"unreported", "offline"}
<1>1. Stored(n) # {} /\ rows[n][s].age \in Nat
  <2>1. rows[n][s] \in HealthRow
    BY DEF Stored, TypeOK
  <2> QED
    BY <2>1 DEF HealthRow
<1>2. LastReport(n) \in Nat /\ LastReport(n) # None /\ LastReport(n) <= rows[n][s].age
  BY <1>1, FreshestRow
<1>3. Online(n) /\ LastReport(n) # None
  BY <1>1, <1>2, Bounds DEF Online
<1>4. CASE Count(n, {"failed"}) > 0
  BY <1>3, <1>4 DEF Kind
<1>5. CASE Count(n, {"failed"}) = 0
  BY <1>3, <1>5 DEF Kind
<1>6. Count(n, {"failed"}) \in Nat
  <2>1. IsFiniteSet({x \in Stored(n) \cap Service : rows[n][x].state \in {"failed"}})
    BY HealthAssumption, FS_Subset
  <2> QED
    BY <2>1, FS_CardinalityType DEF Count
<1> QED
  BY <1>4, <1>5, <1>6

\* A node without a row that counts is unreported or offline.
LEMMA StaleNodeIsNot ==
    ASSUME TypeOK, NEW n \in Node, \A s \in Stored(n) : Offline <= rows[n][s].age
    PROVE  Kind(n) \in {"unreported", "offline"}
<1>1. CASE Stored(n) = {}
  <2>1. LastReport(n) = None
    BY <1>1 DEF LastReport
  <2> QED
    BY <2>1 DEF Kind, Online
<1>2. CASE Stored(n) # {}
  <2>1. LastReport(n) \in Nat /\ LastReport(n) # None /\ Offline <= LastReport(n)
    BY <1>2, FreshestRow
  <2>2. ~Online(n)
    BY <2>1, Bounds DEF Online
  <2> QED
    BY <2>1, <2>2 DEF Kind
<1> QED
  BY <1>1, <1>2

\* Whatever the nodes, the services and the beats under way: between the beats of a node its rows are exactly
\* the services of its last snapshot, in their states, unless beats with other snapshots
\* stored at the same time or one died (services/health.ts:79-94).
THEOREM RowsMatch == Spec => []RowsAreTheSnapshot
<1>1. IInv => RowsAreTheSnapshot
  BY DEF IInv, Good, ShownHolds, RowsAreTheSnapshot
<1> QED
  BY <1>1, InitIInv, NextIInv, PTL DEF Spec

\* A node is shown online as long as its freshest stamp, with what a beat takes added, is within the
\* threshold, and as offline once that stamp has reached it (services/dashboard.ts:112-124).
THEOREM OnlineIsBeating == Spec => []OnlineMeansBeating
<1>1. IInv => OnlineMeansBeating
  <2> SUFFICES ASSUME IInv, NEW n \in Node
               PROVE  /\ noted[n] + Latency < Offline => Kind(n) \notin {"unreported", "offline"}
                      /\ noted[n] = Offline => Kind(n) \in {"unreported", "offline"}
    BY DEF OnlineMeansBeating
  <2>1. TypeOK /\ Good(n) /\ noted[n] \in 0 .. Offline
    BY DEF IInv, TypeOK
  <2>2. ASSUME noted[n] + Latency < Offline PROVE Kind(n) \notin {"unreported", "offline"}
    <3>1. rows[n][Heartbeat] # None /\ rows[n][Heartbeat].age <= noted[n] + Latency
      BY <2>1, <2>2, Bounds DEF Good, SentinelFollows
    <3>2. Heartbeat \in Stored(n)
      BY <3>1 DEF Stored
    <3>3. rows[n][Heartbeat].age \in Nat
      <4>1. rows[n][Heartbeat] \in HealthRow
        BY <2>1, <3>1 DEF TypeOK
      <4> QED
        BY <4>1 DEF HealthRow
    <3>4. rows[n][Heartbeat].age < Offline
      BY <2>1, <2>2, <3>1, <3>3, Bounds
    <3> QED
      BY <2>1, <3>2, <3>4, FreshNodeIsOnline
  <2>3. ASSUME noted[n] = Offline PROVE Kind(n) \in {"unreported", "offline"}
    <3>1. \A s \in Stored(n) : Offline <= rows[n][s].age
      BY <2>1, <2>3 DEF Good, NothingFresher, Stored
    <3> QED
      BY <2>1, <3>1, StaleNodeIsNot
  <2> QED
    BY <2>2, <2>3
<1> QED
  BY <1>1, InitIInv, NextIInv, PTL DEF Spec

\* A rule whose operator's last word is a pause is paused at any moment, also while beats that
\* have read another status before are still writing theirs (services/health.ts:101-104).
THEOREM PausesStay == Spec => []PausesHold
<1> DEFINE PInv == PausesHold /\ halted \subseteq Rule
<1>1. Init => PInv
  BY DEF Init, PausesHold
<1>2. ASSUME IInv, PInv, [Next]_vars PROVE PInv'
  <2>1. status \in [Rule -> Status] /\ halted \subseteq Rule /\ \A r \in halted : status[r] = "paused"
    BY <1>2 DEF IInv, TypeOK, PausesHold
  <2>2. CASE UNCHANGED <<status, halted>>
    BY <2>1, <2>2 DEF PausesHold
  <2>3. ASSUME NEW n \in Node, NEW k \in Slot, UpdateStatus(n, k) PROVE PInv'
    <3>1. PICK r : status' = [status EXCEPT ![r] = Derived(@, Verdict(beats[n][k].snapshot, r))]
      BY <2>3 DEF UpdateStatus
    <3>2. halted' = halted
      BY <2>3 DEF UpdateStatus, Observed
    <3> QED
      BY <2>1, <3>1, <3>2 DEF PausesHold, Derived
  <2>4. ASSUME NEW r \in Rule, NEW value \in Status, OperatorSetsStatus(r, value) PROVE PInv'
    BY <2>1, <2>4 DEF OperatorSetsStatus, PausesHold
  <2>5. ASSUME NEW n \in Node, NEW k \in Slot, Beat(n, k) \/ Works(n, k) \/ Fail(n, k), ~UpdateStatus(n, k)
        PROVE  UNCHANGED <<status, halted>>
    BY <2>5 DEF Beat, Works, Stamp, Upsert, Diff, Delete, Lookup, Fail, Observed
  <2>6. \/ UNCHANGED <<status, halted>>
        \/ \E n \in Node, k \in Slot : UpdateStatus(n, k)
        \/ \E r \in Rule, value \in Status : OperatorSetsStatus(r, value)
    BY <1>2, <2>5 DEF Next, vars, Lose, Tick, AgentChanges, AgentStopsOrStarts, HostsChange, Observed
  <2> QED
    BY <2>2, <2>3, <2>4, <2>6
<1>3. PInv => PausesHold
  OBVIOUS
<1> HIDE DEF PInv
<1> QED
  BY <1>1, <1>2, <1>3, InitIInv, NextIInv, PTL DEF Spec
=============================================================================
