------------------------------ MODULE TlsProofs ------------------------------
(***************************************************************************)
(* The stored certificates fit each other and the settings, for any        *)
(* domains, identities, validities and nodes, and any number of requests   *)
(* under way.                                                              *)
(*                                                                         *)
(* As long as no two requests issue at the same time, the one that does    *)
(* owns the tables: Phase says, for every await it can be at, how what it  *)
(* has read and is about to write relates to the rows and the settings;    *)
(* Calm is how it leaves them.                                             *)
(***************************************************************************)
EXTENDS TlsMaterial, TLAPS

Profile == [identity : Identity, days : Days]
Form == [identity : Custom \cup {None}, days : Days \cup {None}]
Authority == [key : Key, subject : Identity]
Certificate == [ca : Key, issuer : Identity, domain : Domain \cup {None}, days : Days]
Rows == {rows \in [Kind -> Authority \cup Certificate \cup {None}] :
            /\ rows["ca"] \in Authority \cup {None}
            /\ \A k \in Leaf : rows[k] \in Certificate \cup {None}}

RequestRecord ==
    [op : {"idle", "ensure", "domain", "profile", "renew"},
     pc : {"idle", "upsert", "drop", "domain", "rows", "profile", "insert", "update", "persist", "wipe", "reload"},
     node : Node \cup {None}, want : Domain \cup Form \cup {None}, domain : Domain \cup {None},
     seen : Rows, late : SUBSET Kind, profile : Profile \cup {None}, fresh : Rows,
     edit : {"none", "issue", "leaves", "all"}]

TypeOK ==
    /\ domain \in Domain \cup {None}
    /\ keys \in [identity : Identity \cup {None}, days : Days \cup {None}]
    /\ stored \in Rows
    /\ due \subseteq Kind
    /\ req \in [Request -> RequestRecord]

Is(q, op, pcs) == q.op = op /\ q.pc \in pcs

\* Where a request of each kind can be, and what it has by then.
Stage(q) ==
    /\ q.op = "idle" => q.pc = "idle"
    /\ q.op = "ensure" => q.pc \in {"domain", "rows", "profile", "insert", "persist", "reload"}
    /\ q.op = "domain" => q.pc \in {"upsert", "drop"} /\ q.want \in Domain
    /\ q.op = "profile" => q.pc \in {"rows", "profile", "persist", "wipe"}
    /\ q.op = "renew" => q.pc \in {"rows", "profile", "update", "wipe", "insert", "persist"}
    /\ q.pc = "domain" => q.node = None
    /\ Is(q, "profile", {"rows", "profile"}) => q.want \in Form
    /\ q.pc \in {"insert", "persist"} \/ Is(q, "renew", {"wipe"}) => q.profile \in Profile
    /\ Is(q, "profile", {"wipe"}) => q.edit \in {"leaves", "all"}
    /\ Is(q, "renew", {"wipe"}) => q.edit = "all"
    /\ Is(q, "renew", {"profile"}) => Whole(q.seen)

\* What is under way before the first domain is set.
Early(q) ==
    \/ q.op = "idle"
    \/ Is(q, "domain", {"upsert"})
    \/ Is(q, "profile", {"rows", "profile", "persist"}) /\ (q.pc = "persist" => q.edit = "none") /\ q.domain = None

\* Before the first domain there is nothing.
DomainComesFirst == domain = None => stored = NoRows /\ \A r \in Request : Early(req[r])

Shape == TypeOK /\ (\A r \in Request : Stage(req[r])) /\ DomainComesFirst

\* The profile that a CA which exists is held against.
Current == Resolve(domain, TRUE)

\* The rows a profile leads to.
Made(rows, profile) ==
    /\ rows["ca"] = None => rows = NoRows
    /\ rows["ca"] # None => rows["ca"].subject = profile.identity
    /\ \A k \in Leaf : rows[k] # None => Accepted(rows[k], rows["ca"]) /\ rows[k].days = profile.days

Named(rows, name) == rows["server"] # None => rows["server"].domain = name

Signed == stored["ca"] # None => \A k \in Leaf : stored[k] # None => Accepted(stored[k], stored["ca"])

\* A rendering that has not read the rows yet has the domain that is set.
UpToDate(q) == Is(q, "ensure", {"rows"}) /\ q.node # None => q.domain = domain

\* How a request that issues finds the tables, and leaves them.
Calm ==
    /\ Made(stored, Current) /\ Named(stored, domain)
    /\ Whole(stored) \/ (stored = NoRows /\ \A r \in Request : UpToDate(req[r]))

\* The rows when all that is issued is stored.
Merged(fresh) == [k \in Kind |-> IF stored[k] # None THEN stored[k] ELSE fresh[k]]

\* The tables while a request that issues is at each of its awaits.
Phase(q) ==
    /\ Signed
    /\ Is(q, "domain", {"upsert"}) \/ Is(q, "profile", {"rows", "profile", "persist"})
         \/ Is(q, "renew", {"rows", "profile", "update"}) => Calm
    /\ Is(q, "domain", {"drop"}) => Made(stored, Current)
    /\ Is(q, "ensure", {"domain", "rows", "profile"}) => Made(stored, Current) /\ Named(stored, domain)
    /\ Is(q, "ensure", {"rows", "profile", "insert"}) \/ q.op \in {"profile", "renew"} => q.domain = domain
    /\ q.pc = "profile" => q.seen = stored
    /\ Is(q, "ensure", {"profile"}) => ~Whole(stored)
    /\ Is(q, "renew", {"profile", "update"}) => Whole(stored)
    /\ q.pc = "insert" =>
         /\ \A k \in Kind : stored[k] = None <=> q.fresh[k] # None
         /\ Made(Merged(q.fresh), q.profile) /\ Named(Merged(q.fresh), domain)
    /\ q.pc = "update" =>
         \A k \in Kind : q.fresh[k] # None =>
            /\ k # "ca" /\ Accepted(q.fresh[k], stored["ca"]) /\ q.fresh[k].days = Current.days
            /\ k = "server" => q.fresh[k].domain = domain
    /\ Is(q, "ensure", {"persist"}) \/ Is(q, "renew", {"persist"}) =>
         Whole(stored) /\ Made(stored, q.profile) /\ Named(stored, domain)
    /\ Is(q, "ensure", {"reload"}) => Whole(stored) /\ Made(stored, Current) /\ Named(stored, domain)
    /\ Is(q, "profile", {"persist"}) =>
         /\ q.edit = "none" => stored = NoRows \/ q.profile = Current
         /\ q.edit = "issue" => stored = NoRows
         /\ q.edit = "leaves" => stored["ca"] # None /\ q.profile.identity = Current.identity
    /\ Is(q, "profile", {"wipe"}) /\ q.edit = "leaves" =>
         stored["ca"] # None /\ stored["ca"].subject = Current.identity

Good ==
    /\ Overlap => tainted
    /\ tainted \/ (\A r \in Request : Issuing(r) => Phase(req[r]))
    /\ tainted \/ (\E r \in Request : Issuing(r)) \/ Calm

IInv == Shape /\ Good

-----------------------------------------------------------------------------
(* What is issued.                                                         *)

\* No row and no setting is None.
LEMMA NothingIsNone ==
    /\ None \notin Authority /\ None \notin Certificate /\ None \notin Identity
    /\ None \notin Domain /\ None \notin Days /\ None \notin Node
BY TlsAssumption DEF Authority, Certificate, Identity

\* A row is of its kind.
LEMMA RowTypes ==
    ASSUME NEW rows \in Rows
    PROVE  /\ rows \in [Kind -> Authority \cup Certificate \cup {None}]
           /\ rows["ca"] \in Authority \cup {None}
           /\ rows["server"] \in Certificate \cup {None} /\ rows["client"] \in Certificate \cup {None}
           /\ \A k \in Leaf : rows[k] \in Certificate \cup {None}
BY DEF Rows, Leaf

\* Rows of their kinds are rows.
LEMMA MakesRows ==
    ASSUME NEW rows, DOMAIN rows = Kind, rows = [k \in Kind |-> rows[k]],
           rows["ca"] \in Authority \cup {None},
           rows["server"] \in Certificate \cup {None}, rows["client"] \in Certificate \cup {None}
    PROVE  rows \in Rows
BY DEF Rows, Kind, Leaf

\* A database without the table's rows.
LEMMA NoRowsAreRows ==
    NoRows \in Rows /\ \A k \in Kind : NoRows[k] = None
<1>1. NoRows["ca"] = None /\ NoRows["server"] = None /\ NoRows["client"] = None /\ DOMAIN NoRows = Kind
  BY DEF NoRows, Kind
<1> QED
  BY <1>1, MakesRows DEF NoRows

\* Rows without a row are none.
LEMMA EmptyRows ==
    ASSUME NEW rows \in Rows, \A k \in Kind : rows[k] = None
    PROVE  rows = NoRows
BY DEF Rows, NoRows

\* There is a key pair.
LEMMA NewKeyIsKey == NewKey \in Key
<1>1. \E key \in Key : Key \subseteq Used \/ key \notin Used
  BY TlsAssumption
<1> QED
  BY <1>1 DEF NewKey

\* The profile is complete.
LEMMA ResolveTyped ==
    ASSUME TypeOK, NEW name \in Domain \cup {None}, NEW exists
    PROVE  Resolve(name, exists) \in Profile
<1>1. keys.identity \in Identity \cup {None} /\ keys.days \in Days \cup {None}
  BY DEF TypeOK
<1>2. Legacy \in Identity /\ Blank \in Identity /\ Domain \subseteq Identity /\ DefaultDays \in Days
  BY TlsAssumption DEF Identity
<1>3. (IF keys.identity # None THEN keys.identity ELSE IF exists THEN Legacy ELSE IF name = None THEN Blank ELSE name)
        \in Identity
  BY <1>1, <1>2
<1>4. (IF keys.days # None THEN keys.days ELSE DefaultDays) \in Days
  BY <1>1, <1>2
<1> QED
  BY <1>3, <1>4 DEF Resolve, Profile

\* Settings that are stored are the profile.
LEMMA StoredProfile ==
    ASSUME NEW profile \in Profile, keys = profile, NEW name, NEW exists
    PROVE  Resolve(name, exists) = profile
<1>1. profile.identity # None /\ profile.days # None /\ profile = [identity |-> profile.identity, days |-> profile.days]
  BY NothingIsNone DEF Profile
<1> QED
  BY <1>1 DEF Resolve

\* A leaf is a certificate of its CA.
LEMMA IssueLeafTyped ==
    ASSUME NEW name \in Domain \cup {None}, NEW profile \in Profile, NEW ca \in Authority
    PROVE  /\ IssueLeaf(name, profile, ca) \in Certificate /\ IssueLeaf(name, profile, ca) # None
           /\ IssueLeaf(name, profile, ca).ca = ca.key /\ IssueLeaf(name, profile, ca).issuer = profile.identity
           /\ IssueLeaf(name, profile, ca).domain = name /\ IssueLeaf(name, profile, ca).days = profile.days
<1>1. IssueLeaf(name, profile, ca) \in Certificate
  BY DEF IssueLeaf, Profile, Authority, Certificate
<1> QED
  BY <1>1, NothingIsNone DEF IssueLeaf

\* A new CA with its leaves is a complete set.
LEMMA GenerateMade ==
    ASSUME NEW name \in Domain \cup {None}, NEW profile \in Profile
    PROVE  /\ Generate(name, profile) \in Rows /\ Whole(Generate(name, profile))
           /\ Made(Generate(name, profile), profile) /\ Named(Generate(name, profile), name)
<1> DEFINE ca == [key |-> NewKey, subject |-> profile.identity]
           G == Generate(name, profile)
           leaf == IssueLeaf(name, profile, ca)
<1>1. ca \in Authority /\ ca # None /\ ca.key = NewKey /\ ca.subject = profile.identity
  <2>1. ca \in Authority
    BY NewKeyIsKey DEF Authority, Profile
  <2> QED
    BY <2>1, NothingIsNone
<1>2. G = [k \in Kind |-> IF k = "ca" THEN ca ELSE leaf]
  BY DEF Generate
<1> HIDE DEF ca, G
<1>3. /\ leaf \in Certificate /\ leaf # None /\ leaf.ca = ca.key /\ leaf.issuer = profile.identity
      /\ leaf.domain = name /\ leaf.days = profile.days
  BY <1>1, IssueLeafTyped
<1> HIDE DEF leaf
<1>4. G["ca"] = ca /\ G["server"] = leaf /\ G["client"] = leaf /\ DOMAIN G = Kind
  BY <1>2 DEF Kind
<1>5. G \in Rows
  BY <1>1, <1>2, <1>3, <1>4, MakesRows
<1>6. Whole(G)
  BY <1>1, <1>3, <1>4 DEF Whole, Kind
<1>7. Made(G, profile) /\ Named(G, name)
  BY <1>1, <1>3, <1>4 DEF Made, Named, Leaf, Accepted
<1> QED
  BY <1>5, <1>6, <1>7 DEF G

\* Leaves under a CA that exists.
LEMMA IssueLeavesTyped ==
    ASSUME NEW kinds \in SUBSET Leaf, NEW name \in Domain \cup {None}, NEW profile \in Profile, NEW ca \in Authority
    PROVE  /\ IssueLeaves(kinds, name, profile, ca) \in Rows
           /\ \A k \in Kind : IssueLeaves(kinds, name, profile, ca)[k] =
                                 IF k \in kinds THEN IssueLeaf(name, profile, ca) ELSE None
<1> DEFINE R == IssueLeaves(kinds, name, profile, ca)
           leaf == IssueLeaf(name, profile, ca)
<1>1. leaf \in Certificate
  BY IssueLeafTyped
<1>2. R = [k \in Kind |-> IF k \in kinds THEN leaf ELSE None]
  BY DEF IssueLeaves
<1> HIDE DEF leaf, R
<1>3. /\ DOMAIN R = Kind /\ R["ca"] = None
      /\ R["server"] \in Certificate \cup {None} /\ R["client"] \in Certificate \cup {None}
  BY <1>1, <1>2 DEF Kind, Leaf
<1>4. R \in Rows
  BY <1>2, <1>3, MakesRows
<1> QED
  BY <1>2, <1>4 DEF R, leaf

\* Rows that a profile leads to are signed.
LEMMA MadeIsSigned ==
    ASSUME Made(stored, Current) \/ \E profile \in Profile : Made(stored, profile)
    PROVE  Signed
BY DEF Made, Signed

-----------------------------------------------------------------------------
(* One request goes on.                                                    *)

Others(r) == \A s \in Request \ {r} : req'[s] = req[s]

\* A request is put in another's place.
LEMMA ShapeStep ==
    ASSUME Shape, NEW r \in Request, NEW q \in RequestRecord, req' = [req EXCEPT ![r] = q], Stage(q),
           domain' \in Domain \cup {None}, keys' \in [identity : Identity \cup {None}, days : Days \cup {None}],
           stored' \in Rows, due' \subseteq Kind,
           domain' = None => domain = None /\ stored' = NoRows /\ Early(q)
    PROVE  Shape' /\ Others(r) /\ req'[r] = q
<1>1. TypeOK
  BY DEF Shape
<1>2. req'[r] = q /\ Others(r) /\ req' \in [Request -> RequestRecord]
  BY <1>1 DEF TypeOK, Others
<1>3. TypeOK'
  BY <1>2 DEF TypeOK
<1>4. \A s \in Request : Stage(req[s])'
  BY <1>2 DEF Shape, Others, Stage, Is
<1>5. DomainComesFirst'
  BY <1>2 DEF Shape, DomainComesFirst, Others, Early, Is
<1> QED
  BY <1>2, <1>3, <1>4, <1>5 DEF Shape

\* A request that is over.
LEMMA RestingIsRequest ==
    Resting \in RequestRecord /\ Stage(Resting) /\ Early(Resting) /\ Resting.op = "idle" /\ Resting.pc = "idle"
BY NoRowsAreRows DEF Resting, RequestRecord, Stage, Early, Is

\* What is known of a request under way.
LEMMA RequestTypes ==
    ASSUME Shape, NEW r \in Request
    PROVE  /\ TypeOK /\ req[r] \in RequestRecord /\ Stage(req[r])
           /\ req[r].domain \in Domain \cup {None} /\ req[r].seen \in Rows /\ req[r].fresh \in Rows
           /\ req[r].late \subseteq Kind /\ req[r].node \in Node \cup {None}
           /\ domain = None => stored = NoRows /\ Early(req[r])
<1>1. TypeOK /\ Stage(req[r]) /\ (domain = None => stored = NoRows /\ Early(req[r]))
  BY DEF Shape, DomainComesFirst
<1>2. req[r] \in RequestRecord
  BY <1>1 DEF TypeOK
<1> QED
  BY <1>1, <1>2 DEF RequestRecord

\* Which requests have which awaits.
LEMMA Places ==
    ASSUME Shape, NEW r \in Request, req[r].op # "idle"
    PROVE  /\ req[r].pc \in {"upsert", "drop"} => req[r].op = "domain" /\ req[r].want \in Domain
           /\ req[r].pc \in {"domain", "reload"} => req[r].op = "ensure"
           /\ req[r].pc = "domain" => req[r].node = None
           /\ req[r].pc = "update" => req[r].op = "renew"
           /\ req[r].pc = "insert" => req[r].op \in {"ensure", "renew"} /\ req[r].profile \in Profile
           /\ req[r].pc = "wipe" => req[r].op \in {"profile", "renew"}
           /\ req[r].pc \in {"rows", "profile", "persist"} => req[r].op \in {"ensure", "profile", "renew"}
           /\ req[r].pc = "persist" => req[r].profile \in Profile
<1>1. req[r].op \in {"ensure", "domain", "profile", "renew"} /\ Stage(req[r])
  BY RequestTypes DEF RequestRecord
<1> QED
  BY <1>1 DEF Stage

\* Nobody else issues.
Alone(r) == \A s \in Request \ {r} : ~Issuing(s)

\* The tables as a request that is alone with them has or leaves them.
Found(r) == (Issuing(r) => Phase(req[r])) /\ (~Issuing(r) => Calm)

\* Calm tables stay so if the step writes none of them and adds no rendering with another domain.
LEMMA CalmStays ==
    ASSUME Calm, NEW r \in Request, Others(r), UNCHANGED tables, UpToDate(req[r])'
    PROVE  Calm' /\ Signed'
<1>1. Made(stored, Current)' /\ Named(stored, domain)'
  BY DEF Calm, tables, Made, Named, Current, Resolve, Accepted
<1>2. Whole(stored)' \/ (stored' = NoRows /\ \A s \in Request : UpToDate(req[s])')
  BY DEF Calm, tables, Whole, Others, UpToDate, Is
<1>3. Calm'
  BY <1>1, <1>2 DEF Calm
<1> QED
  BY <1>1, <1>3 DEF Made, Signed

\* A CA that exists is held against the same profile whatever the domain.
LEMMA CurrentStays ==
    ASSUME keys' = keys
    PROVE  Current' = Current
BY DEF Current, Resolve

\* A complete set that fits is calm.
LEMMA WholeIsCalm ==
    ASSUME Whole(stored), Made(stored, Current), Named(stored, domain)
    PROVE  Calm /\ Signed
BY DEF Calm, Made, Signed

\* Nothing is issued by a request that is over.
LEMMA EndIsIdle ==
    ASSUME NEW r, req[r] = Resting
    PROVE  ~Issuing(r)
BY DEF Issuing, Resting

\* A request comes in.
LEMMA StartStep ==
    ASSUME Shape, NEW r \in Request, Starts(r)
    PROVE  Shape' /\ Others(r) /\ (Alone(r) /\ Found(r) => Found(r)')
<1>1. CASE domain = None /\ \E n \in Node : Idle(r) /\ UNCHANGED <<tables, due, req, bounds>>
  <2>1. UNCHANGED <<domain, keys, stored, due, req>>
    BY <1>1 DEF tables
  <2>2. Shape' /\ Others(r)
    BY <2>1 DEF Shape, TypeOK, DomainComesFirst, Stage, Early, Is, Others
  <2>3. Found(r) => Found(r)'
    <3>1. ~Issuing(r) /\ ~Issuing(r)'
      BY <1>1, <2>1 DEF Idle, Issuing
    <3>2. Calm => Calm'
      BY <2>1 DEF Calm, Made, Named, Current, Resolve, Accepted, Whole, UpToDate, Is
    <3> QED
      BY <3>1, <3>2 DEF Found
  <2> QED
    BY <2>2, <2>3
<1>2. ASSUME NEW q \in RequestRecord, Start(r, q), Stage(q), domain = None => Early(q),
             \/ Is(q, "ensure", {"rows"}) /\ q.node # None /\ q.domain = domain
             \/ Is(q, "domain", {"upsert"})
             \/ Is(q, "profile", {"rows"}) /\ q.domain = domain
             \/ Is(q, "renew", {"rows"}) /\ q.domain = domain
      PROVE  Shape' /\ Others(r) /\ (Alone(r) /\ Found(r) => Found(r)')
  <2>1. Idle(r) /\ req' = [req EXCEPT ![r] = q] /\ UNCHANGED <<tables, due>>
    BY <1>2 DEF Start
  <2>2. Shape' /\ Others(r) /\ req'[r] = q
    BY <1>2, <2>1, RequestTypes, ShapeStep DEF TypeOK, tables
  <2>3. ASSUME Found(r) PROVE Found(r)'
    <3>1. ~Issuing(r)
      BY <2>1 DEF Idle, Issuing
    <3>2. Calm
      BY <2>3, <3>1 DEF Found
    <3>3. UpToDate(req[r])'
      BY <1>2, <2>1, <2>2 DEF UpToDate, Is, tables
    <3>4. Calm' /\ Signed'
      BY <2>1, <2>2, <3>2, <3>3, CalmStays
    <3>5. Issuing(r)' => Phase(req[r])'
      BY <1>2, <2>1, <2>2, <3>4 DEF Issuing, Phase, Is, tables
    <3> QED
      BY <3>4, <3>5 DEF Found
  <2> QED
    BY <2>2, <2>3
<1>3. TypeOK
  BY DEF Shape
<1>4. ASSUME NEW n \in Node, StartRender(r, n) PROVE Shape' /\ Others(r) /\ (Alone(r) /\ Found(r) => Found(r)')
  <2> DEFINE q == [Resting EXCEPT !.op = "ensure", !.pc = "rows", !.node = n, !.domain = domain]
  <2>1. CASE domain # None /\ Start(r, q)
    <3>1. /\ q \in RequestRecord /\ q.op = "ensure" /\ q.pc = "rows" /\ q.node = n /\ q.domain = domain
          /\ n # None
      BY <1>3, RestingIsRequest, NothingIsNone DEF RequestRecord, TypeOK
    <3> HIDE DEF q
    <3>2. Stage(q)
      BY <3>1 DEF Stage, Is
    <3> QED
      BY <1>2, <2>1, <3>1, <3>2 DEF Is
  <2>2. CASE ~(domain # None /\ Start(r, q))
    BY <1>1, <1>4, <2>2 DEF StartRender
  <2> QED
    BY <2>1, <2>2
<1>5. ASSUME NEW d \in Domain, StartSetDomain(r, d) PROVE Shape' /\ Others(r) /\ (Alone(r) /\ Found(r) => Found(r)')
  <2> DEFINE q == [Resting EXCEPT !.op = "domain", !.pc = "upsert", !.want = d]
  <2>1. q \in RequestRecord /\ q.op = "domain" /\ q.pc = "upsert" /\ q.want = d /\ Start(r, q)
    BY <1>5, RestingIsRequest DEF RequestRecord, StartSetDomain
  <2> HIDE DEF q
  <2>2. Stage(q) /\ Early(q)
    BY <2>1 DEF Stage, Early, Is
  <2> QED
    BY <1>2, <2>1, <2>2 DEF Is
<1>6. ASSUME NEW input \in ProfileForm, StartSetProfile(r, input)
      PROVE  Shape' /\ Others(r) /\ (Alone(r) /\ Found(r) => Found(r)')
  <2> DEFINE q == [Resting EXCEPT !.op = "profile", !.pc = "rows", !.domain = domain, !.want = input]
  <2>1. input \in Form
    BY DEF ProfileForm, Form
  <2>2. /\ q \in RequestRecord /\ q.op = "profile" /\ q.pc = "rows" /\ q.want = input /\ q.domain = domain
        /\ Start(r, q)
    BY <1>3, <1>6, <2>1, RestingIsRequest DEF RequestRecord, StartSetProfile, TypeOK
  <2> HIDE DEF q
  <2>3. Stage(q) /\ (domain = None => Early(q))
    BY <2>1, <2>2 DEF Stage, Early, Is
  <2> QED
    BY <1>2, <2>2, <2>3 DEF Is
<1>7. CASE StartRenew(r)
  <2> DEFINE q == [Resting EXCEPT !.op = "renew", !.pc = "rows", !.domain = domain]
  <2>1. q \in RequestRecord /\ q.op = "renew" /\ q.pc = "rows" /\ q.domain = domain /\ Start(r, q) /\ domain # None
    BY <1>3, <1>7, RestingIsRequest DEF RequestRecord, StartRenew, TypeOK
  <2> HIDE DEF q
  <2>2. Stage(q)
    BY <2>1 DEF Stage, Is
  <2> QED
    BY <1>2, <2>1, <2>2 DEF Is
<1> QED
  BY <1>4, <1>5, <1>6, <1>7 DEF Starts

\* The domain is stored, and then the leaf that names the old one is deleted.
LEMMA DomainStep ==
    ASSUME Shape, NEW r \in Request, UpsertDomain(r) \/ DropServerLeaf(r) \/ ReadDomain(r)
    PROVE  Shape' /\ Others(r) /\ (Alone(r) /\ Found(r) => Found(r)')
<1>0. /\ TypeOK /\ req[r] \in RequestRecord /\ Stage(req[r]) /\ stored \in Rows
      /\ domain = None => stored = NoRows /\ Early(req[r])
  BY RequestTypes DEF TypeOK
<1>1. CASE UpsertDomain(r)
  <2> DEFINE q == [req[r] EXCEPT !.pc = "drop"]
  <2>1. /\ req[r].op = "domain" /\ req[r].pc = "upsert" /\ req[r].want \in Domain /\ domain' = req[r].want
        /\ UNCHANGED <<keys, stored, due>>
    BY <1>1, Places DEF UpsertDomain, At
  <2>2. q \in RequestRecord /\ q.op = "domain" /\ q.pc = "drop" /\ q.want = req[r].want
    BY <1>0, <2>1 DEF RequestRecord
  <2>3. req' = [req EXCEPT ![r] = q]
    BY <1>0, <1>1 DEF UpsertDomain, Moves, TypeOK
  <2> HIDE DEF q
  <2>4. Stage(q) /\ domain' # None
    BY <2>1, <2>2, NothingIsNone DEF Stage, Is
  <2>5. Shape' /\ Others(r) /\ req'[r] = q
    BY <1>0, <2>1, <2>2, <2>3, <2>4, ShapeStep DEF TypeOK
  <2>6. ASSUME Found(r) PROVE Found(r)'
    <3>1. Issuing(r) /\ Issuing(r)'
      BY <2>1, <2>2, <2>5 DEF Issuing
    <3>2. Made(stored, Current)
      BY <2>1, <2>6, <3>1 DEF Found, Phase, Is, Calm
    <3>3. Made(stored, Current)' /\ Signed'
      BY <2>1, <3>2, CurrentStays DEF Made, Signed, Accepted
    <3>4. Phase(req[r])'
      BY <2>2, <2>5, <3>3 DEF Phase, Is
    <3> QED
      BY <3>1, <3>4 DEF Found
  <2> QED
    BY <2>5, <2>6
<1>2. CASE DropServerLeaf(r)
  <2> DEFINE q == [Resting EXCEPT !.op = "ensure", !.pc = "domain"]
  <2>1. /\ req[r].op = "domain" /\ req[r].pc = "drop" /\ req' = [req EXCEPT ![r] = q]
        /\ stored' = [k \in Kind |-> IF k \in {"server"} THEN None ELSE stored[k]] /\ due' \subseteq Kind
        /\ UNCHANGED <<domain, keys>> /\ domain # None
    <3>1. /\ req[r].pc = "drop" /\ req[r].op # "idle" /\ Deletes({"server"}) /\ Ensures(r) /\ UNCHANGED <<domain, keys>>
      BY <1>2 DEF DropServerLeaf, At
    <3>2. req[r].op = "domain"
      BY <3>1, Places
    <3>3. domain # None
      BY <1>0, <3>1, <3>2 DEF Early, Is
    <3> QED
      BY <1>0, <3>1, <3>2, <3>3 DEF Deletes, Ensures, TypeOK
  <2>2. q \in RequestRecord /\ q.op = "ensure" /\ q.pc = "domain" /\ q.node = None
    BY RestingIsRequest DEF RequestRecord, Resting
  <2> HIDE DEF q
  <2>3. Stage(q)
    BY <2>2 DEF Stage, Is
  <2>4. /\ stored'["ca"] = stored["ca"] /\ stored'["client"] = stored["client"] /\ stored'["server"] = None
        /\ stored' \in Rows
    <3>1. /\ stored'["ca"] = stored["ca"] /\ stored'["client"] = stored["client"] /\ stored'["server"] = None
          /\ DOMAIN stored' = Kind /\ stored' = [k \in Kind |-> stored'[k]]
      BY <2>1 DEF Kind
    <3> QED
      BY <1>0, <3>1, RowTypes, MakesRows
  <2>5. Shape' /\ Others(r) /\ req'[r] = q
    BY <1>0, <2>1, <2>2, <2>3, <2>4, ShapeStep DEF TypeOK
  <2>6. ASSUME Found(r) PROVE Found(r)'
    <3>1. Issuing(r) /\ Issuing(r)'
      BY <2>1, <2>2, <2>5 DEF Issuing
    <3>2. Made(stored, Current)
      BY <2>1, <2>6, <3>1 DEF Found, Phase, Is
    <3>3. Made(stored', Current) /\ Named(stored', domain)
      <4>1. CASE stored["ca"] = None
        <5>1. stored = NoRows
          BY <3>2, <4>1 DEF Made
        <5>2. stored' = NoRows
          BY <2>1, <5>1, NoRowsAreRows DEF NoRows
        <5> QED
          BY <2>4, <5>2, NoRowsAreRows DEF Made, Named, Leaf, Kind
      <4>2. CASE stored["ca"] # None
        BY <2>4, <3>2, <4>2 DEF Made, Named, Leaf
      <4> QED
        BY <4>1, <4>2
    <3>4. Made(stored, Current)' /\ Named(stored, domain)' /\ Signed'
      BY <2>1, <3>3, CurrentStays DEF Made, Named, Signed, Accepted
    <3>5. Phase(req[r])'
      BY <2>2, <2>5, <3>4 DEF Phase, Is
    <3> QED
      BY <3>1, <3>5 DEF Found
  <2> QED
    BY <2>5, <2>6
<1>3. CASE ReadDomain(r)
  <2> DEFINE q == [req[r] EXCEPT !.domain = domain, !.pc = "rows"]
  <2>1. req[r].op = "ensure" /\ req[r].pc = "domain" /\ req[r].node = None /\ UNCHANGED <<domain, keys, stored, due>>
    BY <1>3, Places DEF ReadDomain, At, tables
  <2>2. q \in RequestRecord /\ q.op = "ensure" /\ q.pc = "rows" /\ q.node = None /\ q.domain = domain
    <3>1. req[r] \in RequestRecord /\ domain \in Domain \cup {None}
      BY <1>0 DEF TypeOK
    <3>2. q \in RequestRecord
      BY <3>1 DEF RequestRecord
    <3> QED
      BY <2>1, <3>1, <3>2 DEF RequestRecord
  <2>3. req' = [req EXCEPT ![r] = q]
    BY <1>0, <1>3 DEF ReadDomain, TypeOK
  <2> HIDE DEF q
  <2>4. Stage(q) /\ domain' # None
    BY <1>0, <2>1, <2>2 DEF Stage, Is, Early
  <2>5. Shape' /\ Others(r) /\ req'[r] = q
    BY <1>0, <2>1, <2>2, <2>3, <2>4, ShapeStep DEF TypeOK
  <2>6. ASSUME Found(r) PROVE Found(r)'
    <3>1. Issuing(r) /\ Issuing(r)'
      BY <2>1, <2>2, <2>5 DEF Issuing
    <3>2. Made(stored, Current) /\ Named(stored, domain) /\ Signed
      BY <2>1, <2>6, <3>1 DEF Found, Phase, Is
    <3>3. Made(stored, Current)' /\ Named(stored, domain)' /\ Signed'
      BY <2>1, <3>2, CurrentStays DEF Made, Named, Signed, Accepted
    <3>4. Phase(req[r])'
      BY <2>1, <2>2, <2>5, <3>3 DEF Phase, Is
    <3> QED
      BY <3>1, <3>4 DEF Found
  <2> QED
    BY <2>5, <2>6
<1> QED
  BY <1>1, <1>2, <1>3

\* A request that ends leaves the tables calm if it has found them so.
LEMMA EndsStep ==
    ASSUME Shape, NEW r \in Request, Ends(r), UNCHANGED <<tables, due>>, Found(r) => Calm
    PROVE  Shape' /\ Others(r) /\ (Found(r) => Found(r)')
<1>1. req' = [req EXCEPT ![r] = Resting] /\ UNCHANGED <<domain, keys, stored, due>>
  BY DEF Ends, tables
<1>2. Shape' /\ Others(r) /\ req'[r] = Resting
  BY <1>1, RestingIsRequest, RequestTypes, ShapeStep DEF TypeOK
<1>3. ASSUME Calm PROVE Found(r)'
  <2>1. UpToDate(req[r])' /\ ~Issuing(r)'
    BY <1>2, RestingIsRequest DEF UpToDate, Is, Issuing
  <2>2. Calm'
    BY <1>1, <1>2, <1>3, <2>1, CalmStays DEF tables
  <2> QED
    BY <2>1, <2>2 DEF Found
<1> QED
  BY <1>2, <1>3

\* The rows are read, and by a rendering without need of others handed out.
LEMMA ReadRowsStep ==
    ASSUME Shape, NEW r \in Request, ReadRows(r)
    PROVE  Shape' /\ Others(r) /\ (Alone(r) /\ Found(r) => Found(r)')
<1>0. /\ TypeOK /\ req[r] \in RequestRecord /\ Stage(req[r]) /\ stored \in Rows /\ due \subseteq Kind
      /\ domain = None => stored = NoRows /\ Early(req[r])
  BY RequestTypes DEF TypeOK
<1>1. /\ req[r].pc = "rows" /\ req[r].op \in {"ensure", "profile", "renew"} /\ UNCHANGED <<domain, keys, stored, due>>
      /\ UNCHANGED tables
  BY Places DEF ReadRows, At, tables
<1>2. CASE req[r].op = "ensure" /\ Whole(stored)
  <2>1. Ends(r)
    BY <1>2 DEF ReadRows, Delivers
  <2>2. ASSUME Found(r) PROVE Calm
    <3>1. CASE Issuing(r)
      BY <1>1, <1>2, <2>2, <3>1, WholeIsCalm DEF Found, Phase, Is
    <3>2. CASE ~Issuing(r)
      BY <2>2, <3>2 DEF Found
    <3> QED
      BY <3>1, <3>2
  <2> QED
    BY <1>1, <2>1, <2>2, EndsStep
<1>3. CASE req[r].op = "renew" /\ ~Whole(stored)
  <2>1. Ends(r)
    BY <1>3 DEF ReadRows
  <2>2. ASSUME Found(r) PROVE Calm
    BY <1>1, <1>3, <2>2 DEF Found, Issuing, Phase, Is
  <2> QED
    BY <1>1, <2>1, <2>2, EndsStep
<1>4. CASE ~(req[r].op = "ensure" /\ Whole(stored)) /\ ~(req[r].op = "renew" /\ ~Whole(stored))
  <2> DEFINE q == [req[r] EXCEPT !.seen = stored, !.late = due, !.pc = "profile"]
  <2>1. /\ q \in RequestRecord /\ q.op = req[r].op /\ q.pc = "profile" /\ q.node = req[r].node /\ q.want = req[r].want
        /\ q.domain = req[r].domain /\ q.seen = stored /\ q.edit = req[r].edit
    <3>1. req[r] \in RequestRecord /\ stored \in Rows /\ due \subseteq Kind
      BY <1>0
    <3>2. q \in RequestRecord
      BY <3>1 DEF RequestRecord
    <3> QED
      BY <3>1, <3>2 DEF RequestRecord
  <2>2. req' = [req EXCEPT ![r] = q]
    BY <1>0, <1>4 DEF ReadRows, TypeOK
  <2> HIDE DEF q
  <2>3. Stage(q) /\ (domain = None => Early(q))
    BY <1>0, <1>1, <1>4, <2>1 DEF Stage, Is, Early
  <2>4. Shape' /\ Others(r) /\ req'[r] = q
    BY <1>0, <1>1, <2>1, <2>2, <2>3, ShapeStep DEF TypeOK
  <2>5. ASSUME Found(r) PROVE Found(r)'
    <3>1. Issuing(r)'
      BY <1>1, <2>1, <2>4 DEF Issuing
    <3>2. CASE req[r].op = "ensure"
      <4>1. Made(stored, Current) /\ Named(stored, domain) /\ Signed /\ req[r].domain = domain
        <5>1. CASE Issuing(r)
          BY <1>1, <2>5, <3>2, <5>1 DEF Found, Phase, Is
        <5>2. CASE ~Issuing(r)
          <6>1. Calm /\ req[r].node # None
            BY <2>5, <3>2, <5>2 DEF Found, Issuing
          <6>2. UpToDate(req[r])
            BY <1>4, <3>2, <6>1 DEF Calm
          <6> QED
            BY <1>1, <3>2, <6>1, <6>2 DEF Calm, UpToDate, Is, Made, Signed
        <5> QED
          BY <5>1, <5>2
      <4>2. Made(stored, Current)' /\ Named(stored, domain)' /\ Signed'
        BY <1>1, <4>1, CurrentStays DEF Made, Named, Signed, Accepted
      <4>3. ~Whole(stored')
        BY <1>1, <1>4, <3>2
      <4>4. Phase(req[r])'
        BY <1>1, <2>1, <2>4, <3>2, <4>1, <4>2, <4>3 DEF Phase, Is
      <4> QED
        BY <3>1, <4>4 DEF Found
    <3>3. CASE req[r].op \in {"profile", "renew"}
      <4>1. Calm /\ req[r].domain = domain
        BY <1>1, <2>5, <3>3 DEF Found, Issuing, Phase, Is
      <4>2. Calm' /\ Signed'
        BY <1>1, <2>1, <2>4, <3>3, <4>1, CalmStays DEF UpToDate, Is
      <4>3. req[r].op = "renew" => Whole(stored')
        BY <1>1, <1>4
      <4>4. Phase(req[r])'
        BY <1>1, <2>1, <2>4, <3>3, <4>1, <4>2, <4>3 DEF Phase, Is
      <4> QED
        BY <3>1, <4>4 DEF Found
    <3> QED
      BY <1>1, <3>2, <3>3
  <2> QED
    BY <2>4, <2>5
<1> QED
  BY <1>2, <1>3, <1>4

\* The rows are read again at the end.
LEMMA ReloadStep ==
    ASSUME Shape, NEW r \in Request, Reload(r)
    PROVE  Shape' /\ Others(r) /\ (Alone(r) /\ Found(r) => Found(r)')
<1>1. /\ req[r].pc = "reload" /\ req[r].op = "ensure" /\ UNCHANGED <<tables, due>> /\ Ends(r)
  BY Places DEF Reload, At, Delivers
<1>2. ASSUME Found(r) PROVE Calm
  <2>1. CASE Issuing(r)
    BY <1>1, <1>2, <2>1, WholeIsCalm DEF Found, Phase, Is
  <2>2. CASE ~Issuing(r)
    BY <1>2, <2>2 DEF Found
  <2> QED
    BY <2>1, <2>2
<1> QED
  BY <1>1, <1>2, EndsStep

\* What is missing is issued: everything, or leaves that fit the CA that has been read.
LEMMA IssuedFits ==
    ASSUME TypeOK, domain # None, Made(stored, Current), Named(stored, domain), NEW profile \in Profile,
           stored # NoRows => profile = Current
    PROVE  LET fresh == ToIssue(domain, profile, stored)
           IN  /\ fresh \in Rows
               /\ \A k \in Kind : stored[k] = None <=> fresh[k] # None
               /\ Made(Merged(fresh), profile) /\ Named(Merged(fresh), domain)
<1> DEFINE fresh == ToIssue(domain, profile, stored)
<1>0. stored \in Rows /\ domain \in Domain \cup {None}
  BY DEF TypeOK
<1>1. CASE stored["ca"] = None
  <2>1. stored = NoRows /\ \A k \in Kind : stored[k] = None
    BY <1>1, NoRowsAreRows DEF Made
  <2>2. fresh = Generate(domain, profile)
    BY <1>1 DEF ToIssue
  <2>3. /\ Generate(domain, profile) \in Rows /\ Whole(Generate(domain, profile))
        /\ Made(Generate(domain, profile), profile) /\ Named(Generate(domain, profile), domain)
    BY <1>0, GenerateMade
  <2>4. Merged(fresh) = fresh
    <3>1. fresh = [k \in Kind |-> fresh[k]]
      BY <2>2, <2>3 DEF Rows
    <3> HIDE DEF fresh
    <3> QED
      BY <2>1, <3>1 DEF Merged
  <2> HIDE DEF fresh
  <2>5. \A k \in Kind : fresh[k] # None
    BY <2>2, <2>3 DEF Whole
  <2>6. fresh \in Rows /\ Made(Merged(fresh), profile) /\ Named(Merged(fresh), domain)
    BY <2>2, <2>3, <2>4
  <2> QED
    BY <2>1, <2>5, <2>6 DEF fresh
<1>2. CASE stored["ca"] # None
  <2> DEFINE ca == stored["ca"]
             leaf == IssueLeaf(domain, profile, ca)
             M == Merged(fresh)
  <2>1. ca \in Authority /\ ca.subject = profile.identity /\ profile = Current
    <3>1. stored # NoRows
      BY <1>2, NoRowsAreRows DEF Kind
    <3> QED
      BY <1>0, <1>2, <3>1, RowTypes DEF Made
  <2>2. Missing(stored) \in SUBSET Leaf
    BY DEF Missing
  <2>3. /\ fresh \in Rows /\ \A k \in Kind : fresh[k] = IF k \in Missing(stored) THEN leaf ELSE None
    <3>1. fresh = IssueLeaves(Missing(stored), domain, profile, ca)
      BY <1>2 DEF ToIssue
    <3> HIDE DEF fresh
    <3> QED
      BY <1>0, <2>1, <2>2, <3>1, IssueLeavesTyped
  <2>4. /\ leaf # None /\ leaf.ca = ca.key /\ leaf.issuer = profile.identity /\ leaf.domain = domain
        /\ leaf.days = profile.days
    BY <1>0, <2>1, IssueLeafTyped
  <2> HIDE DEF fresh, leaf
  <2>5. \A k \in Kind : stored[k] = None <=> fresh[k] # None
    <3>1. \A k \in Kind : k = "ca" \/ k \in Leaf
      BY DEF Kind, Leaf
    <3> QED
      BY <1>2, <2>3, <2>4, <3>1 DEF Missing, Leaf
  <2>6. M["ca"] = ca /\ \A k \in Leaf : M[k] = IF stored[k] # None THEN stored[k] ELSE leaf
    BY <1>2, <2>3 DEF Merged, Kind, Leaf, Missing
  <2> HIDE DEF M
  <2>7. Made(M, profile)
    BY <1>2, <2>1, <2>4, <2>6 DEF Made, Accepted
  <2>8. Named(M, domain)
    BY <2>4, <2>6 DEF Named, Leaf
  <2> QED
    BY <2>3, <2>5, <2>7, <2>8 DEF M, fresh
<1> QED
  BY <1>1, <1>2

\* A rendering issues what is missing.
LEMMA EnsureIssuesStep ==
    ASSUME Shape, NEW r \in Request, req[r].op = "ensure", req[r].pc = "profile", EnsureIssues(r), UNCHANGED <<tables, due>>
    PROVE  Shape' /\ Others(r) /\ (Alone(r) /\ Found(r) => Found(r)')
<1> DEFINE name == req[r].domain
           rows == req[r].seen
           exists == \E k \in Kind : rows[k] # None
           profile == Resolve(name, exists)
           fresh == ToIssue(name, profile, rows)
           q == [req[r] EXCEPT !.pc = "insert", !.profile = profile, !.seen = NoRows, !.late = {}, !.fresh = fresh]
<1>0. /\ TypeOK /\ req[r] \in RequestRecord /\ Stage(req[r]) /\ name \in Domain \cup {None} /\ rows \in Rows
      /\ domain = None => stored = NoRows /\ Early(req[r])
  BY RequestTypes
<1>1. profile \in Profile
  BY <1>0, ResolveTyped
<1>2. fresh \in Rows
  <2> HIDE DEF profile
  <2>1. CASE rows["ca"] = None
    BY <1>0, <1>1, <2>1, GenerateMade DEF ToIssue
  <2>2. CASE rows["ca"] # None
    <3>1. rows["ca"] \in Authority /\ Missing(rows) \in SUBSET Leaf
      BY <1>0, <2>2, RowTypes DEF Missing
    <3> QED
      BY <1>0, <1>1, <2>2, <3>1, IssueLeavesTyped DEF ToIssue
  <2> QED
    BY <2>1, <2>2
<1>3. req' = [req EXCEPT ![r] = q]
  BY <1>0 DEF EnsureIssues, TypeOK
<1> HIDE DEF profile, fresh
<1>4. /\ q \in RequestRecord /\ q.op = "ensure" /\ q.pc = "insert" /\ q.node = req[r].node /\ q.profile = profile
      /\ q.fresh = fresh /\ q.domain = name
  BY <1>0, <1>1, <1>2, NoRowsAreRows DEF RequestRecord
<1> HIDE DEF q
<1>5. Stage(q) /\ domain # None
  BY <1>0, <1>1, <1>4 DEF Stage, Is, Early
<1>6. UNCHANGED <<domain, keys, stored, due>>
  BY DEF tables
<1>7. Shape' /\ Others(r) /\ req'[r] = q
  BY <1>0, <1>3, <1>4, <1>5, <1>6, ShapeStep DEF TypeOK
<1>8. ASSUME Found(r) PROVE Found(r)'
  <2>1. Issuing(r) /\ Issuing(r)'
    BY <1>4, <1>7 DEF Issuing
  <2>2. /\ Made(stored, Current) /\ Named(stored, domain) /\ Signed /\ name = domain /\ rows = stored
    BY <1>8, <2>1 DEF Found, Phase, Is
  <2>3. stored # NoRows => profile = Current
    <3>1. stored # NoRows => exists
      BY <1>0, <2>2, EmptyRows
    <3> QED
      BY <3>1 DEF profile, Current, Resolve
  <2>4. /\ \A k \in Kind : stored[k] = None <=> fresh[k] # None
        /\ Made(Merged(fresh), profile) /\ Named(Merged(fresh), domain)
    BY <1>0, <1>1, <1>5, <2>2, <2>3, IssuedFits DEF fresh
  <2>5. Merged(req[r].fresh)' = Merged(fresh) /\ req'[r].profile = profile /\ req'[r].fresh = fresh
    BY <1>4, <1>6, <1>7 DEF Merged
  <2>6. Made(Merged(req[r].fresh), req[r].profile)' /\ Named(Merged(req[r].fresh), domain)'
    BY <1>6, <2>4, <2>5 DEF Made, Named, Accepted
  <2>7. /\ \A k \in Kind : stored'[k] = None <=> req'[r].fresh[k] # None
        /\ req'[r].domain = domain' /\ req'[r].op = "ensure" /\ req'[r].pc = "insert"
    BY <1>4, <1>6, <1>7, <2>2, <2>4, <2>5
  <2>8. Signed'
    BY <1>6, <2>2 DEF Signed, Accepted
  <2> QED
    BY <2>1, <2>6, <2>7, <2>8 DEF Found, Phase, Is
<1> QED
  BY <1>7, <1>8

\* A form is compared with the profile that holds.
LEMMA EditProfileStep ==
    ASSUME Shape, NEW r \in Request, req[r].op = "profile", req[r].pc = "profile", EditProfile(r), UNCHANGED <<tables, due>>
    PROVE  Shape' /\ Others(r) /\ (Alone(r) /\ Found(r) => Found(r)')
<1> DEFINE name == req[r].domain
           want == req[r].want
           exists == req[r].seen["ca"] # None
           was == Resolve(name, exists)
           next == [identity |-> IF want.identity # None THEN want.identity ELSE was.identity,
                    days |-> IF want.days # None THEN want.days ELSE was.days]
           edit == ProfileEdit(was, next, exists, name)
           q == [req[r] EXCEPT !.pc = "persist", !.profile = next, !.seen = NoRows, !.late = {}, !.want = None,
                               !.edit = edit]
<1>0. /\ TypeOK /\ req[r] \in RequestRecord /\ Stage(req[r]) /\ name \in Domain \cup {None}
      /\ domain = None => stored = NoRows /\ Early(req[r])
  BY RequestTypes
<1>1. was \in Profile
  BY <1>0, ResolveTyped
<1>2. want \in Form
  <2>1. Stage(req[r]) /\ Is(req[r], "profile", {"rows", "profile"})
    BY <1>0 DEF Is
  <2> QED
    BY <2>1 DEF Stage
<1>3. req' = [req EXCEPT ![r] = q]
  <2>1. req' = [req EXCEPT ![r].pc = "persist", ![r].profile = next, ![r].seen = NoRows, ![r].late = {},
                           ![r].want = None, ![r].edit = edit]
    BY DEF EditProfile
  <2> HIDE DEF next, edit
  <2> QED
    BY <1>0, <2>1 DEF TypeOK
<1> HIDE DEF was
<1>4. next \in Profile
  BY <1>1, <1>2 DEF Form, Profile, Identity
<1>5. edit \in {"none", "issue", "leaves", "all"} /\ (name = None => edit = "none")
  BY DEF ProfileEdit
<1> HIDE DEF next, edit
<1>6. /\ q \in RequestRecord /\ q.op = "profile" /\ q.pc = "persist" /\ q.node = req[r].node /\ q.profile = next
      /\ q.edit = edit /\ q.domain = name
  BY <1>0, <1>4, <1>5, NoRowsAreRows DEF RequestRecord
<1> HIDE DEF q
<1>7. Stage(q) /\ (domain = None => Early(q))
  BY <1>0, <1>4, <1>5, <1>6 DEF Stage, Is, Early
<1>8. UNCHANGED <<domain, keys, stored, due>>
  BY DEF tables
<1>9. Shape' /\ Others(r) /\ req'[r] = q
  BY <1>0, <1>3, <1>6, <1>7, <1>8, ShapeStep DEF TypeOK
<1>10. ASSUME Found(r) PROVE Found(r)'
  <2>1. Issuing(r) /\ Issuing(r)'
    BY <1>6, <1>9 DEF Issuing
  <2>2. Calm /\ name = domain /\ req[r].seen = stored
    BY <1>10, <2>1 DEF Found, Phase, Is
  <2>3. Calm' /\ Signed'
    BY <1>6, <1>9, <2>2, CalmStays DEF UpToDate, Is
  <2>4. exists => was = Current
    BY DEF was, Current, Resolve
  <2>5. ~exists => stored = NoRows
    BY <2>2 DEF Calm, Made
  <2>6. /\ edit = "none" => stored = NoRows \/ next = Current
        /\ edit = "issue" => stored = NoRows
        /\ edit = "leaves" => stored["ca"] # None /\ next.identity = Current.identity
    <3>1. CASE name = None
      BY <1>0, <1>5, <2>2, <3>1
    <3>2. CASE name # None /\ ~exists
      BY <2>5, <3>2 DEF edit, ProfileEdit
    <3>3. CASE name # None /\ exists
      <4>1. edit = "none" => next.identity = was.identity /\ next.days = was.days
        BY <3>3 DEF edit, ProfileEdit
      <4>2. edit = "leaves" => next.identity = was.identity
        BY <3>3 DEF edit, ProfileEdit
      <4>3. edit # "issue"
        BY <3>3 DEF edit, ProfileEdit
      <4>4. next.identity = was.identity /\ next.days = was.days => next = was
        BY <1>1, <1>4 DEF Profile
      <4> QED
        BY <2>2, <2>4, <3>3, <4>1, <4>2, <4>3, <4>4
    <3> QED
      BY <3>1, <3>2, <3>3
  <2>7. Current' = Current /\ stored' = stored /\ domain' = domain
    BY <1>8, CurrentStays
  <2>8. Phase(req[r])'
    BY <1>6, <1>9, <2>2, <2>3, <2>6, <2>7 DEF Phase, Is
  <2> QED
    BY <2>1, <2>8 DEF Found
<1> QED
  BY <1>9, <1>10

\* The renewal goes on with what is due.
LEMMA RenewIssuesStep ==
    ASSUME Shape, NEW r \in Request, req[r].op = "renew", req[r].pc = "profile", RenewIssues(r), UNCHANGED <<tables, due>>
    PROVE  Shape' /\ Others(r) /\ (Alone(r) /\ Found(r) => Found(r)')
<1> DEFINE name == req[r].domain
           late == req[r].late
           ca == req[r].seen["ca"]
           profile == Resolve(name, TRUE)
           fresh == IssueLeaves(late, name, profile, ca)
<1>0. /\ TypeOK /\ req[r] \in RequestRecord /\ Stage(req[r]) /\ name \in Domain \cup {None} /\ late \subseteq Kind
      /\ domain # None
  <2>1. domain = None => Early(req[r])
    BY RequestTypes
  <2> QED
    BY <2>1, RequestTypes DEF Early, Is
<1>1. profile \in Profile /\ profile = Current
  BY <1>0, ResolveTyped DEF Current, Resolve
<1>2. UNCHANGED <<domain, keys, stored, due>>
  BY DEF tables
<1>3. ca \in Authority
  <2>1. Whole(req[r].seen)
    BY <1>0 DEF Stage, Is
  <2> QED
    BY <2>1, RequestTypes, RowTypes DEF Whole, Kind
<1>4. Issuing(r)
  BY DEF Issuing
<1>5. Found(r) => Calm /\ Signed /\ name = domain /\ req[r].seen = stored /\ Whole(stored)
  BY <1>4 DEF Found, Phase, Is
<1>6. CASE "ca" \in late
  <2> DEFINE q == [req[r] EXCEPT !.pc = "wipe", !.profile = profile, !.seen = NoRows, !.late = {}, !.edit = "all"]
  <2>1. req' = [req EXCEPT ![r] = q]
    BY <1>0, <1>6 DEF RenewIssues, TypeOK
  <2> HIDE DEF profile
  <2>2. /\ q \in RequestRecord /\ q.op = "renew" /\ q.pc = "wipe" /\ q.node = req[r].node /\ q.profile = profile
        /\ q.edit = "all" /\ q.domain = name
    BY <1>0, <1>1, NoRowsAreRows DEF RequestRecord
  <2> HIDE DEF q
  <2>3. Stage(q)
    BY <1>1, <2>2 DEF Stage, Is
  <2>4. Shape' /\ Others(r) /\ req'[r] = q
    BY <1>0, <1>2, <2>1, <2>2, <2>3, ShapeStep DEF TypeOK
  <2>5. ASSUME Found(r) PROVE Found(r)'
    <3>1. Signed'
      BY <1>2, <1>5, <2>5 DEF Signed, Accepted
    <3>2. Phase(req[r])' /\ Issuing(r)'
      BY <1>2, <1>5, <2>2, <2>4, <2>5, <3>1 DEF Phase, Is, Issuing
    <3> QED
      BY <3>2 DEF Found
  <2> QED
    BY <2>4, <2>5
<1>7. CASE late = {}
  <2>1. Ends(r)
    BY <1>7 DEF RenewIssues
  <2> QED
    BY <1>5, <2>1, EndsStep
<1>8. CASE "ca" \notin late /\ late # {}
  <2> DEFINE q == [req[r] EXCEPT !.pc = "update", !.seen = NoRows, !.late = {}, !.fresh = fresh]
  <2>1. req' = [req EXCEPT ![r] = q]
    BY <1>0, <1>8 DEF RenewIssues, TypeOK
  <2>2. late \in SUBSET Leaf
    BY <1>0, <1>8 DEF Kind, Leaf
  <2> DEFINE leaf == IssueLeaf(name, profile, ca)
  <2> HIDE DEF profile
  <2>3. fresh \in Rows /\ \A k \in Kind : fresh[k] = IF k \in late THEN leaf ELSE None
    <3> HIDE DEF ca, name, late
    <3>1. /\ IssueLeaves(late, name, profile, ca) \in Rows
          /\ \A k \in Kind : IssueLeaves(late, name, profile, ca)[k] =
                                IF k \in late THEN IssueLeaf(name, profile, ca) ELSE None
      BY <1>0, <1>1, <1>3, <2>2, IssueLeavesTyped
    <3> QED
      BY <3>1
  <2>4. leaf.ca = ca.key /\ leaf.issuer = profile.identity /\ leaf.domain = name /\ leaf.days = profile.days
    BY <1>0, <1>1, <1>3, IssueLeafTyped
  <2> HIDE DEF fresh, leaf
  <2>5. /\ q \in RequestRecord /\ q.op = "renew" /\ q.pc = "update" /\ q.node = req[r].node
        /\ q.fresh = fresh /\ q.domain = name
    BY <1>0, <2>3, NoRowsAreRows DEF RequestRecord
  <2> HIDE DEF q
  <2>6. Stage(q)
    BY <2>5 DEF Stage, Is
  <2>7. Shape' /\ Others(r) /\ req'[r] = q
    BY <1>0, <1>2, <2>1, <2>5, <2>6, ShapeStep DEF TypeOK
  <2>8. ASSUME Found(r) PROVE Found(r)'
    <3>1. Calm' /\ Signed' /\ Whole(stored')
      BY <1>2, <1>5, <2>5, <2>7, <2>8, CalmStays DEF UpToDate, Is
    <3>2. ca.subject = Current.identity
      BY <1>5, <2>8 DEF Calm, Made, Whole, Kind
    <3>3. \A k \in Kind : fresh[k] # None =>
            /\ k # "ca" /\ Accepted(fresh[k], stored["ca"]) /\ fresh[k].days = Current.days
            /\ k = "server" => fresh[k].domain = domain
      BY <1>1, <1>5, <1>8, <2>3, <2>4, <2>8, <3>2 DEF Accepted
    <3>4. Current' = Current
      BY <1>2, CurrentStays
    <3>5. \A k \in Kind : req'[r].fresh[k] # None =>
            /\ k # "ca" /\ Accepted(req'[r].fresh[k], stored'["ca"]) /\ req'[r].fresh[k].days = Current'.days
            /\ k = "server" => req'[r].fresh[k].domain = domain'
      BY <1>2, <2>5, <2>7, <3>3, <3>4
    <3>6. Phase(req[r])' /\ Issuing(r)'
      BY <1>2, <1>5, <2>5, <2>7, <2>8, <3>1, <3>5 DEF Phase, Is, Issuing
    <3> QED
      BY <3>6 DEF Found
  <2> QED
    BY <2>7, <2>8
<1> QED
  BY <1>6, <1>7, <1>8

\* One row is replaced.
LEMMA ReplacedRow ==
    ASSUME NEW rows \in Rows, NEW fresh \in Rows, NEW k \in Kind
    PROVE  /\ [rows EXCEPT ![k] = fresh[k]] \in Rows
           /\ \A j \in Kind : [rows EXCEPT ![k] = fresh[k]][j] = IF j = k THEN fresh[k] ELSE rows[j]
<1> DEFINE R == [rows EXCEPT ![k] = fresh[k]]
<1>1. /\ DOMAIN R = Kind /\ R = [j \in Kind |-> R[j]]
      /\ \A j \in Kind : R[j] = IF j = k THEN fresh[k] ELSE rows[j]
  BY RowTypes
<1> HIDE DEF R
<1>2. R \in Rows
  BY <1>1, RowTypes, MakesRows DEF Kind
<1> QED
  BY <1>1, <1>2 DEF R

\* One row is deleted.
LEMMA ClearedRow ==
    ASSUME NEW rows \in Rows, NEW k \in Kind
    PROVE  /\ [rows EXCEPT ![k] = None] \in Rows
           /\ \A j \in Kind : [rows EXCEPT ![k] = None][j] = IF j = k THEN None ELSE rows[j]
<1> DEFINE R == [rows EXCEPT ![k] = None]
<1>1. /\ DOMAIN R = Kind /\ R = [j \in Kind |-> R[j]]
      /\ \A j \in Kind : R[j] = IF j = k THEN None ELSE rows[j]
  BY RowTypes
<1> HIDE DEF R
<1>2. R \in Rows
  BY <1>1, RowTypes, MakesRows DEF Kind
<1> QED
  BY <1>1, <1>2 DEF R

\* A request that has ended and left the tables calm.
LEMMA EndsCalm ==
    ASSUME Shape, NEW r \in Request, Ends(r), domain' = domain, stored' \in Rows, due' \subseteq Kind,
           domain = None => stored' = NoRows,
           keys' \in [identity : Identity \cup {None}, days : Days \cup {None}]
    PROVE  Shape' /\ Others(r) /\ req'[r] = Resting /\ (Calm' => Found(r)')
<1>1. Shape' /\ Others(r) /\ req'[r] = Resting
  BY RestingIsRequest, RequestTypes, ShapeStep DEF TypeOK, Ends
<1>2. ~Issuing(r)'
  BY <1>1, RestingIsRequest DEF Issuing
<1> QED
  BY <1>1, <1>2 DEF Found

\* A row is inserted where there is none.
LEMMA InsertStep ==
    ASSUME Shape, NEW r \in Request, NEW k \in Kind, Insert(r, k)
    PROVE  Shape' /\ Others(r) /\ (Alone(r) /\ Found(r) => Found(r)')
<1> DEFINE fresh == req[r].fresh
           left == [fresh EXCEPT ![k] = None]
           pc == IF left # NoRows THEN "insert" ELSE "persist"
           q == [req[r] EXCEPT !.fresh = left, !.pc = pc]
<1>0. /\ TypeOK /\ req[r] \in RequestRecord /\ Stage(req[r]) /\ fresh \in Rows /\ stored \in Rows /\ due \subseteq Kind
      /\ domain = None => stored = NoRows /\ Early(req[r])
  BY RequestTypes DEF TypeOK
<1>1. /\ req[r].pc = "insert" /\ req[r].op \in {"ensure", "renew"} /\ req[r].profile \in Profile
      /\ fresh[k] # None /\ UNCHANGED <<domain, keys>>
  BY Places DEF Insert, At, Row
<1>2. /\ left \in Rows /\ \A j \in Kind : left[j] = IF j = k THEN None ELSE fresh[j]
  BY <1>0, ClearedRow
<1>3. req' = [req EXCEPT ![r] = q]
  <2>1. CASE left # NoRows
    <3>1. req' = [req EXCEPT ![r].fresh = left]
      BY <2>1 DEF Insert, Written
    <3>2. q = [req[r] EXCEPT !.fresh = left]
      BY <1>0, <1>1, <2>1 DEF RequestRecord
    <3> QED
      BY <1>0, <3>1, <3>2 DEF TypeOK
  <2>2. CASE left = NoRows
    BY <1>0, <2>2 DEF Insert, Written, TypeOK
  <2> QED
    BY <2>1, <2>2
<1> HIDE DEF left
<1>4. /\ q \in RequestRecord /\ q.op = req[r].op /\ q.pc = (IF left # NoRows THEN "insert" ELSE "persist")
      /\ q.node = req[r].node /\ q.profile = req[r].profile /\ q.fresh = left /\ q.domain = req[r].domain
  <2>1. req[r] \in RequestRecord /\ left \in Rows /\ pc \in {"insert", "persist"}
    BY <1>0, <1>2
  <2> HIDE DEF pc
  <2>2. q \in RequestRecord
    BY <2>1 DEF RequestRecord
  <2>3. pc = IF left # NoRows THEN "insert" ELSE "persist"
    BY DEF pc
  <2> QED
    BY <2>1, <2>2, <2>3 DEF RequestRecord
<1> HIDE DEF q
<1>5. Stage(q) /\ domain # None
  BY <1>0, <1>1, <1>4 DEF Stage, Is, Early
<1>6. /\ stored[k] = None => stored' = [stored EXCEPT ![k] = fresh[k]]
      /\ stored[k] # None => stored' = stored
      /\ due' \subseteq Kind
  BY <1>0 DEF Insert, Puts
<1>7. stored' \in Rows
  BY <1>0, <1>6, ReplacedRow
<1>8. Shape' /\ Others(r) /\ req'[r] = q
  BY <1>0, <1>1, <1>3, <1>4, <1>5, <1>6, <1>7, ShapeStep DEF TypeOK
<1>9. ASSUME Found(r) PROVE Found(r)'
  <2>1. Issuing(r) /\ Issuing(r)'
    BY <1>1, <1>4, <1>8 DEF Issuing
  <2>2. /\ \A j \in Kind : stored[j] = None <=> fresh[j] # None
        /\ Made(Merged(fresh), req[r].profile) /\ Named(Merged(fresh), domain)
        /\ req[r].domain = domain
    <3>1. Phase(req[r])
      BY <1>9, <2>1 DEF Found
    <3>2. req[r].domain = domain
      BY <1>1, <3>1 DEF Phase, Is
    <3> QED
      BY <1>1, <3>1, <3>2 DEF Phase
  <2>3. \A j \in Kind : stored'[j] = IF j = k THEN fresh[k] ELSE stored[j]
    BY <1>0, <1>1, <1>6, <2>2, ReplacedRow
  <2>4. \A j \in Kind : stored'[j] = None <=> left[j] # None
    BY <1>1, <1>2, <2>2, <2>3
  <2>5. [j \in Kind |-> IF stored'[j] # None THEN stored'[j] ELSE left[j]] = Merged(fresh)
    BY <1>1, <1>2, <2>2, <2>3 DEF Merged
  <2> DEFINE M == Merged(fresh)
  <2>6. M \in [Kind -> Authority \cup Certificate \cup {None}] /\ \A j \in Kind : stored'[j] # None => stored'[j] = M[j]
    <3>1. \A j \in Kind : M[j] = IF stored'[j] # None THEN stored'[j] ELSE left[j]
      BY <2>5
    <3> QED
      BY <1>2, <1>7, <2>5, <3>1, RowTypes
  <2>7. Signed'
    BY <2>2, <2>6 DEF Signed, Made, Kind, Leaf
  <2>8. CASE left # NoRows
    <3>1. req'[r].pc = "insert" /\ req'[r].profile = req[r].profile /\ req'[r].fresh = left
      BY <1>4, <1>8, <2>8
    <3>2. Merged(req[r].fresh)' = M
      BY <2>5, <3>1 DEF Merged
    <3> HIDE DEF M
    <3>3. Made(Merged(req[r].fresh), req[r].profile)' /\ Named(Merged(req[r].fresh), domain)'
      BY <1>1, <2>2, <3>1, <3>2 DEF Made, Named, Accepted, M
    <3>4. Phase(req[r])'
      BY <1>1, <1>4, <1>8, <2>2, <2>4, <2>7, <3>1, <3>3 DEF Phase, Is
    <3> QED
      BY <2>1, <3>4 DEF Found
  <2>9. CASE left = NoRows
    <3>1. \A j \in Kind : stored'[j] # None
      BY <2>4, <2>9, NoRowsAreRows
    <3>2. \A j \in Kind : stored'[j] = M[j]
      BY <2>6, <3>1
    <3> HIDE DEF M
    <3>3. Made(stored', req[r].profile) /\ Named(stored', domain)
      BY <2>2, <3>1, <3>2 DEF Made, Named, Accepted, Kind, Leaf, M
    <3>4. req'[r].pc = "persist" /\ req'[r].profile = req[r].profile
      BY <1>4, <1>8, <2>9
    <3>5. Whole(stored)' /\ Made(stored, req[r].profile)' /\ Named(stored, domain)'
      BY <1>1, <3>1, <3>3, <3>4 DEF Whole, Made, Named, Accepted
    <3>6. Phase(req[r])'
      BY <1>1, <1>4, <1>8, <2>2, <2>7, <3>4, <3>5 DEF Phase, Is
    <3> QED
      BY <2>1, <3>6 DEF Found
  <2> QED
    BY <2>8, <2>9
<1> QED
  BY <1>8, <1>9

\* A leaf is replaced in place.
LEMMA UpdateStep ==
    ASSUME Shape, NEW r \in Request, NEW k \in Kind, Update(r, k)
    PROVE  Shape' /\ Others(r) /\ (Alone(r) /\ Found(r) => Found(r)')
<1> DEFINE fresh == req[r].fresh
           left == [fresh EXCEPT ![k] = None]
<1>0. /\ TypeOK /\ req[r] \in RequestRecord /\ Stage(req[r]) /\ fresh \in Rows /\ stored \in Rows /\ due \subseteq Kind
      /\ domain = None => stored = NoRows /\ Early(req[r])
  BY RequestTypes DEF TypeOK
<1>1. /\ req[r].pc = "update" /\ req[r].op = "renew" /\ fresh[k] # None /\ UNCHANGED <<domain, keys>> /\ domain # None
  <2>1. req[r].pc = "update" /\ req[r].op = "renew" /\ fresh[k] # None /\ UNCHANGED <<domain, keys>>
    BY Places DEF Update, At, Row
  <2> QED
    BY <1>0, <2>1 DEF Early, Is
<1>2. /\ left \in Rows /\ \A j \in Kind : left[j] = IF j = k THEN None ELSE fresh[j]
  BY <1>0, ClearedRow
<1>3. /\ stored[k] # None => stored' = [stored EXCEPT ![k] = fresh[k]]
      /\ stored[k] = None => stored' = stored
      /\ due' \subseteq Kind
  BY <1>0 DEF Update, Puts
<1>4. stored' \in Rows
  BY <1>0, <1>3, ReplacedRow
<1>5. keys \in [identity : Identity \cup {None}, days : Days \cup {None}]
  BY <1>0 DEF TypeOK
<1>6. ASSUME Found(r)
      PROVE  /\ Whole(stored') /\ Made(stored', Current) /\ Named(stored', domain) /\ req[r].domain = domain
             /\ Current' = Current
             /\ \A j \in Kind : left[j] # None =>
                  /\ j # "ca" /\ Accepted(left[j], stored'["ca"]) /\ left[j].days = Current.days
                  /\ j = "server" => left[j].domain = domain
  <2>1. Issuing(r)
    BY <1>1 DEF Issuing
  <2>2. /\ Calm /\ Whole(stored) /\ req[r].domain = domain
        /\ \A j \in Kind : fresh[j] # None =>
              /\ j # "ca" /\ Accepted(fresh[j], stored["ca"]) /\ fresh[j].days = Current.days
              /\ j = "server" => fresh[j].domain = domain
    BY <1>1, <1>6, <2>1 DEF Found, Phase, Is
  <2> HIDE DEF left, fresh
  <2>3. \A j \in Kind : stored'[j] = IF j = k THEN fresh[k] ELSE stored[j]
    <3>1. stored' = [stored EXCEPT ![k] = fresh[k]]
      BY <1>3, <2>2 DEF Whole
    <3> QED
      BY <1>0, <3>1, ReplacedRow
  <2>4. stored'["ca"] = stored["ca"] /\ stored["ca"] # None /\ k # "ca"
    BY <1>1, <2>2, <2>3 DEF Whole, Kind
  <2>5. Whole(stored')
    BY <1>1, <2>2, <2>3 DEF Whole
  <2>6. Made(stored', Current) /\ Named(stored', domain)
    BY <1>1, <2>2, <2>3, <2>4 DEF Calm, Made, Named, Accepted, Leaf, Kind
  <2>7. \A j \in Kind : left[j] # None =>
          /\ j # "ca" /\ Accepted(left[j], stored'["ca"]) /\ left[j].days = Current.days
          /\ j = "server" => left[j].domain = domain
    BY <1>2, <2>2, <2>4
  <2> QED
    BY <1>1, <2>2, <2>5, <2>6, <2>7, CurrentStays
<1>7. ASSUME Found(r) PROVE Calm' /\ Signed'
  <2>1. Whole(stored)' /\ Made(stored, Current)' /\ Named(stored, domain)'
    BY <1>1, <1>6, <1>7 DEF Whole, Made, Named, Accepted
  <2> QED
    BY <2>1 DEF Calm, Made, Signed
<1>8. CASE left = NoRows
  <2>1. Ends(r)
    BY <1>8 DEF Update, Written
  <2> QED
    BY <1>1, <1>3, <1>4, <1>5, <1>7, <2>1, EndsCalm
<1>9. CASE left # NoRows
  <2> DEFINE q == [req[r] EXCEPT !.fresh = left]
  <2>1. req' = [req EXCEPT ![r] = q]
    BY <1>0, <1>9 DEF Update, Written, TypeOK
  <2> HIDE DEF left
  <2>2. /\ q \in RequestRecord /\ q.op = "renew" /\ q.pc = "update" /\ q.node = req[r].node /\ q.fresh = left
        /\ q.domain = req[r].domain
    BY <1>0, <1>1, <1>2 DEF RequestRecord
  <2> HIDE DEF q
  <2>3. Stage(q)
    BY <2>2 DEF Stage, Is
  <2>4. Shape' /\ Others(r) /\ req'[r] = q
    BY <1>0, <1>1, <1>3, <1>4, <1>5, <2>1, <2>2, <2>3, ShapeStep DEF TypeOK
  <2>5. ASSUME Found(r) PROVE Found(r)'
    <3>1. req'[r].op = "renew" /\ req'[r].pc = "update" /\ req'[r].fresh = left /\ req'[r].domain = domain'
      BY <1>1, <1>6, <2>2, <2>4, <2>5
    <3>2. \A j \in Kind : req'[r].fresh[j] # None =>
            /\ j # "ca" /\ Accepted(req'[r].fresh[j], stored'["ca"]) /\ req'[r].fresh[j].days = Current'.days
            /\ j = "server" => req'[r].fresh[j].domain = domain'
      BY <1>1, <1>6, <2>5, <3>1
    <3>3. Phase(req[r])' /\ Issuing(r)'
      BY <1>6, <1>7, <2>5, <3>1, <3>2 DEF Phase, Is, Issuing
    <3> QED
      BY <3>3 DEF Found
  <2> QED
    BY <2>4, <2>5
<1> QED
  BY <1>8, <1>9

\* What is persisted is the profile from now on.
LEMMA PersistedIsCurrent ==
    ASSUME NEW profile \in Profile, keys' = profile
    PROVE  Current' = profile /\ keys' \in [identity : Identity \cup {None}, days : Days \cup {None}]
<1>1. profile.identity # None /\ profile.days # None /\ profile = [identity |-> profile.identity, days |-> profile.days]
  BY NothingIsNone DEF Profile
<1> QED
  BY <1>1 DEF Current, Resolve, Profile

\* A request that goes on as ensureTlsMaterial has nothing yet.
LEMMA EnsuresShape ==
    ASSUME Shape, NEW r \in Request, Ensures(r), domain' = domain, domain # None, stored' \in Rows, due' \subseteq Kind,
           keys' \in [identity : Identity \cup {None}, days : Days \cup {None}]
    PROVE  /\ Shape' /\ Others(r)
           /\ (Made(stored, Current)' /\ Named(stored, domain)' /\ Signed' => Found(r)')
<1> DEFINE q == [Resting EXCEPT !.op = "ensure", !.pc = "domain"]
<1>1. q \in RequestRecord /\ q.op = "ensure" /\ q.pc = "domain" /\ q.node = None
  BY RestingIsRequest DEF RequestRecord, Resting
<1>2. req' = [req EXCEPT ![r] = q] /\ domain \in Domain \cup {None}
  BY DEF Ensures, Shape, TypeOK
<1> HIDE DEF q
<1>3. Stage(q)
  BY <1>1 DEF Stage, Is
<1>4. Shape' /\ Others(r) /\ req'[r] = q
  BY <1>1, <1>2, <1>3, ShapeStep
<1>5. Issuing(r)'
  BY <1>1, <1>4 DEF Issuing
<1>6. Made(stored, Current)' /\ Named(stored, domain)' /\ Signed' => Phase(req[r])'
  BY <1>1, <1>4 DEF Phase, Is
<1> QED
  BY <1>4, <1>5, <1>6 DEF Found

\* The profile is persisted.
LEMMA PersistStep ==
    ASSUME Shape, NEW r \in Request, Persist(r)
    PROVE  Shape' /\ Others(r) /\ (Alone(r) /\ Found(r) => Found(r)')
<1>0. /\ TypeOK /\ req[r] \in RequestRecord /\ Stage(req[r]) /\ stored \in Rows /\ due \subseteq Kind
      /\ domain \in Domain \cup {None}
      /\ domain = None => stored = NoRows /\ Early(req[r])
  BY RequestTypes DEF TypeOK
<1>1. /\ req[r].pc = "persist" /\ req[r].op \in {"ensure", "profile", "renew"} /\ req[r].profile \in Profile
      /\ keys' = req[r].profile /\ UNCHANGED <<domain, stored, due>>
  BY Places DEF Persist, At
<1>2. Current' = req[r].profile /\ keys' \in [identity : Identity \cup {None}, days : Days \cup {None}]
  BY <1>1, PersistedIsCurrent
<1>3. /\ stored' \in Rows /\ due' \subseteq Kind /\ domain' = domain
      /\ domain = None => stored' = NoRows
  BY <1>0, <1>1
<1>4. Issuing(r)
  BY <1>1 DEF Issuing
<1>5. Found(r) => Phase(req[r]) /\ Signed'
  BY <1>1, <1>4 DEF Found, Phase, Signed, Accepted
<1>6. ASSUME Found(r), req[r].op \in {"ensure", "renew"}
      PROVE  Whole(stored)' /\ Made(stored, Current)' /\ Named(stored, domain)' /\ Calm'
  <2>1. Whole(stored) /\ Made(stored, req[r].profile) /\ Named(stored, domain)
    BY <1>1, <1>5, <1>6 DEF Phase, Is
  <2>2. Whole(stored)' /\ Made(stored, Current)' /\ Named(stored, domain)'
    BY <1>1, <1>2, <2>1 DEF Whole, Made, Named, Accepted
  <2> QED
    BY <2>2 DEF Calm
<1>7. CASE req[r].op = "ensure"
  <2> DEFINE q == [req[r] EXCEPT !.pc = "reload"]
  <2>1. req' = [req EXCEPT ![r] = q]
    BY <1>0, <1>7 DEF Persist, Moves, TypeOK
  <2>2. q \in RequestRecord /\ q.op = "ensure" /\ q.pc = "reload"
    BY <1>0, <1>7 DEF RequestRecord
  <2> HIDE DEF q
  <2>3. Stage(q) /\ domain # None
    BY <1>0, <1>1, <1>7, <2>2 DEF Stage, Is, Early
  <2>4. Shape' /\ Others(r) /\ req'[r] = q
    BY <1>0, <1>2, <1>3, <2>1, <2>2, <2>3, ShapeStep
  <2>5. Found(r) => Phase(req[r])'
    BY <1>5, <1>6, <1>7, <2>2, <2>4 DEF Phase, Is
  <2> QED
    BY <1>6, <1>7, <2>4, <2>5 DEF Found
<1>8. CASE req[r].op = "renew"
  <2>1. Ends(r)
    BY <1>8 DEF Persist
  <2> QED
    BY <1>2, <1>3, <1>6, <1>8, <2>1, EndsCalm
<1>9. CASE req[r].op = "profile"
  <2>0. req[r].edit \in {"none", "issue", "leaves", "all"}
    BY <1>0 DEF RequestRecord
  <2>1. Found(r) =>
          /\ Calm
          /\ req[r].edit = "none" => stored = NoRows \/ req[r].profile = Current
          /\ req[r].edit = "issue" => stored = NoRows
          /\ req[r].edit = "leaves" => stored["ca"] # None /\ req[r].profile.identity = Current.identity
          /\ req[r].domain = domain
    BY <1>1, <1>5, <1>9 DEF Phase, Is
  <2>2. ASSUME Found(r), stored = NoRows \/ req[r].profile = Current
        PROVE  Made(stored, Current)' /\ Named(stored, domain)'
    <3>1. CASE stored = NoRows
      BY <1>1, <3>1, NoRowsAreRows DEF Made, Named, Leaf, Kind
    <3>2. CASE req[r].profile = Current
      BY <1>1, <1>2, <2>1, <2>2, <3>2 DEF Calm, Made, Named, Accepted
    <3> QED
      BY <2>2, <3>1, <3>2
  <2>3. CASE req[r].edit = "none"
    <3>1. Ends(r)
      BY <1>9, <2>3 DEF Persist
    <3>2. Shape' /\ Others(r) /\ req'[r] = Resting /\ (Calm' => Found(r)')
      BY <1>2, <1>3, <3>1, EndsCalm
    <3>3. ASSUME Found(r) PROVE Calm'
      <4>1. Made(stored, Current)' /\ Named(stored, domain)'
        BY <2>1, <2>2, <2>3, <3>3
      <4>2. Whole(stored)' \/ (stored' = NoRows /\ \A s \in Request : UpToDate(req[s])')
        BY <1>1, <2>1, <3>2, <3>3, RestingIsRequest DEF Calm, Whole, Others, UpToDate, Is
      <4> QED
        BY <4>1, <4>2 DEF Calm
    <3> QED
      BY <3>2, <3>3
  <2>4. CASE req[r].edit = "issue"
    <3>1. Ensures(r) /\ domain # None
      BY <1>0, <1>1, <1>9, <2>4 DEF Persist, Early, Is
    <3> QED
      BY <1>2, <1>3, <1>5, <2>1, <2>2, <2>4, <3>1, EnsuresShape
  <2>5. CASE req[r].edit \in {"all", "leaves"}
    <3> DEFINE q == [req[r] EXCEPT !.pc = "wipe"]
    <3>1. req' = [req EXCEPT ![r] = q]
      BY <1>0, <1>9, <2>5 DEF Persist, Moves, TypeOK
    <3>2. q \in RequestRecord /\ q.op = "profile" /\ q.pc = "wipe" /\ q.edit = req[r].edit /\ q.domain = req[r].domain
      BY <1>0, <1>9 DEF RequestRecord
    <3> HIDE DEF q
    <3>3. Stage(q) /\ domain # None
      BY <1>0, <1>1, <1>9, <2>5, <3>2 DEF Stage, Is, Early
    <3>4. Shape' /\ Others(r) /\ req'[r] = q
      BY <1>0, <1>2, <1>3, <3>1, <3>2, <3>3, ShapeStep
    <3>5. ASSUME Found(r) PROVE Found(r)'
      <4>1. req[r].edit = "leaves" => stored'["ca"] # None /\ stored'["ca"].subject = Current'.identity
        BY <1>1, <1>2, <2>1, <3>5 DEF Calm, Made
      <4>2. Phase(req[r])' /\ Issuing(r)'
        BY <1>1, <1>5, <2>1, <3>2, <3>4, <3>5, <4>1 DEF Phase, Is, Issuing
      <4> QED
        BY <4>2 DEF Found
    <3> QED
      BY <3>4, <3>5
  <2> QED
    BY <2>0, <2>3, <2>4, <2>5
<1> QED
  BY <1>1, <1>7, <1>8, <1>9

\* Rows are wiped, and all or the leaves issued again.
LEMMA WipeStep ==
    ASSUME Shape, NEW r \in Request, Wipe(r)
    PROVE  Shape' /\ Others(r) /\ (Alone(r) /\ Found(r) => Found(r)')
<1>0. /\ TypeOK /\ req[r] \in RequestRecord /\ Stage(req[r]) /\ stored \in Rows /\ due \subseteq Kind
      /\ keys \in [identity : Identity \cup {None}, days : Days \cup {None}]
      /\ domain \in Domain \cup {None}
      /\ domain = None => stored = NoRows /\ Early(req[r])
  BY RequestTypes DEF TypeOK
<1>1. /\ req[r].pc = "wipe" /\ req[r].op \in {"profile", "renew"} /\ UNCHANGED <<domain, keys>> /\ domain # None
  <2>1. req[r].pc = "wipe" /\ req[r].op \in {"profile", "renew"} /\ UNCHANGED <<domain, keys>>
    BY Places DEF Wipe, At
  <2> QED
    BY <1>0, <2>1 DEF Early, Is
<1>2. Current' = Current /\ Issuing(r)
  BY <1>1, CurrentStays DEF Issuing
<1>3. due' \subseteq Kind /\ stored' = [k \in Kind |-> IF k \in (IF req[r].edit = "leaves" THEN Leaf ELSE Kind) THEN None ELSE stored[k]]
  BY <1>0 DEF Wipe, Deletes
<1>4. req[r].edit # "leaves" => stored' = NoRows
  BY <1>3 DEF NoRows
<1>5. req[r].edit = "leaves" => stored'["ca"] = stored["ca"] /\ stored'["server"] = None /\ stored'["client"] = None
  BY <1>3 DEF Kind, Leaf
<1>6. stored' \in Rows
  <2>1. CASE req[r].edit = "leaves"
    <3>1. DOMAIN stored' = Kind /\ stored' = [k \in Kind |-> stored'[k]]
      BY <1>3
    <3> QED
      BY <1>0, <1>5, <2>1, <3>1, RowTypes, MakesRows
  <2>2. CASE req[r].edit # "leaves"
    BY <1>4, <2>2, NoRowsAreRows
  <2> QED
    BY <2>1, <2>2
<1>7. CASE req[r].op = "profile"
  <2>1. Ensures(r)
    BY <1>7 DEF Wipe
  <2>2. ASSUME Found(r) PROVE Made(stored, Current)' /\ Named(stored, domain)' /\ Signed'
    <3>1. req[r].edit = "leaves" => stored["ca"] # None /\ stored["ca"].subject = Current.identity
      BY <1>1, <1>2, <1>7, <2>2 DEF Found, Phase, Is
    <3>2. CASE req[r].edit = "leaves"
      BY <1>2, <1>5, <3>1, <3>2 DEF Made, Named, Signed, Leaf
    <3>3. CASE req[r].edit # "leaves"
      BY <1>4, <3>3, NoRowsAreRows DEF Made, Named, Signed, Leaf, Kind
    <3> QED
      BY <3>2, <3>3
  <2> QED
    BY <1>0, <1>1, <1>3, <1>6, <2>1, <2>2, EnsuresShape
<1>8. CASE req[r].op = "renew"
  <2> DEFINE fresh == Generate(req[r].domain, req[r].profile)
             q == [req[r] EXCEPT !.pc = "insert", !.fresh = fresh]
  <2>1. req[r].edit = "all" /\ req[r].profile \in Profile /\ req[r].domain \in Domain \cup {None}
    BY <1>0, <1>1, <1>8, RequestTypes DEF Stage, Is
  <2>2. fresh \in Rows /\ Whole(fresh) /\ Made(fresh, req[r].profile) /\ Named(fresh, req[r].domain)
    BY <2>1, GenerateMade
  <2>3. req' = [req EXCEPT ![r] = q]
    BY <1>0, <1>8 DEF Wipe, TypeOK
  <2> HIDE DEF fresh
  <2>4. /\ q \in RequestRecord /\ q.op = "renew" /\ q.pc = "insert" /\ q.fresh = fresh /\ q.domain = req[r].domain
        /\ q.profile = req[r].profile
    BY <1>0, <1>8, <2>2 DEF RequestRecord
  <2> HIDE DEF q
  <2>5. Stage(q)
    BY <2>1, <2>4 DEF Stage, Is
  <2>6. Shape' /\ Others(r) /\ req'[r] = q
    BY <1>0, <1>1, <1>3, <1>6, <2>3, <2>4, <2>5, ShapeStep
  <2>7. ASSUME Found(r) PROVE Found(r)'
    <3>1. req[r].domain = domain
      BY <1>2, <1>8, <2>7 DEF Found, Phase
    <3>2. \A k \in Kind : stored'[k] = None /\ fresh[k] # None
      BY <1>4, <2>1, <2>2, NoRowsAreRows DEF Whole
    <3>3. fresh = [k \in Kind |-> fresh[k]]
      BY <2>2, RowTypes
    <3>4. Merged(req[r].fresh)' = fresh
      BY <2>4, <2>6, <3>2, <3>3 DEF Merged
    <3>5. Made(Merged(req[r].fresh), req[r].profile)' /\ Named(Merged(req[r].fresh), domain)'
      BY <1>1, <2>2, <2>4, <2>6, <3>1, <3>4 DEF Made, Named, Accepted
    <3>6. Signed'
      BY <3>2 DEF Signed, Kind
    <3>7. Phase(req[r])' /\ Issuing(r)'
      BY <1>1, <2>4, <2>6, <3>1, <3>2, <3>5, <3>6 DEF Phase, Is, Issuing
    <3> QED
      BY <3>7 DEF Found
  <2> QED
    BY <2>6, <2>7
<1> QED
  BY <1>1, <1>7, <1>8

-----------------------------------------------------------------------------
(* All requests. *)

\* The profile is read by one of three kinds of request.
LEMMA ReadProfileStep ==
    ASSUME Shape, NEW r \in Request, ReadProfile(r)
    PROVE  Shape' /\ Others(r) /\ (Alone(r) /\ Found(r) => Found(r)')
<1>1. req[r].pc = "profile" /\ req[r].op \in {"ensure", "profile", "renew"} /\ UNCHANGED <<tables, due>>
  BY Places DEF ReadProfile, At
<1>2. /\ req[r].op = "ensure" => EnsureIssues(r)
      /\ req[r].op = "profile" => EditProfile(r)
      /\ req[r].op = "renew" => RenewIssues(r)
  BY DEF ReadProfile
<1> QED
  BY <1>1, <1>2, EnsureIssuesStep, EditProfileStep, RenewIssuesStep

\* Whatever a request does next, it leaves the tables as it should if it is alone with them.
LEMMA RequestStep ==
    ASSUME Shape, NEW r \in Request, Starts(r) \/ Steps(r)
    PROVE  Shape' /\ Others(r) /\ (Alone(r) /\ Found(r) => Found(r)')
<1>1. CASE Starts(r)
  BY <1>1, StartStep
<1>2. CASE Reads(r)
  BY <1>2, DomainStep, ReadRowsStep, ReadProfileStep, ReloadStep DEF Reads
<1>3. CASE Writes(r)
  BY <1>3, DomainStep, PersistStep, WipeStep, InsertStep, UpdateStep DEF Writes
<1> QED
  BY <1>1, <1>2, <1>3 DEF Steps

\* A rendering that finds all it needs touches no table.
LEMMA RenderingOnlyReads ==
    ASSUME Shape, NEW r \in Request, Starts(r) \/ Steps(r), Others(r), ~Issuing(r), ~Issuing(r)'
    PROVE  UNCHANGED tables /\ UpToDate(req[r])'
<1>0. req[r] \in RequestRecord /\ Stage(req[r]) /\ req \in [Request -> RequestRecord]
  BY RequestTypes DEF TypeOK
<1>a. domain \in Domain \cup {None}
  BY DEF Shape, TypeOK
<1>1. CASE req[r].op = "idle"
  <2>1. Starts(r)
    <3>1. ~Steps(r)
      BY <1>1 DEF Steps, Reads, Writes, ReadDomain, ReadRows, ReadProfile, Reload, UpsertDomain, DropServerLeaf,
                  Persist, Wipe, Insert, Update, At
    <3> QED
      BY <3>1
  <2>2. ASSUME NEW n \in Node, StartRender(r, n) PROVE UNCHANGED tables /\ UpToDate(req[r])'
    <3> DEFINE q == [Resting EXCEPT !.op = "ensure", !.pc = "rows", !.node = n, !.domain = domain]
    <3>1. CASE domain # None /\ Start(r, q)
      <4>1. req'[r] = q /\ UNCHANGED tables /\ q.domain = domain
        BY <1>0, <3>1 DEF Start, Resting
      <4> QED
        BY <4>1 DEF UpToDate, tables
    <3>2. CASE Idle(r) /\ UNCHANGED <<tables, due, req, bounds>>
      BY <1>1, <3>2 DEF UpToDate, Is
    <3> QED
      BY <2>2, <3>1, <3>2 DEF StartRender
  <2>3. ASSUME NEW q \in RequestRecord, Start(r, q), q.op \in {"domain", "profile", "renew"} PROVE FALSE
    <3>1. req'[r] = q
      BY <1>0, <2>3 DEF Start
    <3> QED
      BY <2>3, <3>1 DEF Issuing
  <2>4. ASSUME NEW d \in Domain, StartSetDomain(r, d) PROVE FALSE
    <3> DEFINE q == [Resting EXCEPT !.op = "domain", !.pc = "upsert", !.want = d]
    <3>1. q \in RequestRecord /\ q.op = "domain" /\ Start(r, q)
      BY <2>4, RestingIsRequest DEF RequestRecord, StartSetDomain
    <3> HIDE DEF q
    <3> QED
      BY <2>3, <3>1
  <2>5. ASSUME NEW input \in ProfileForm, StartSetProfile(r, input) PROVE FALSE
    <3> DEFINE q == [Resting EXCEPT !.op = "profile", !.pc = "rows", !.domain = domain, !.want = input]
    <3>1. input \in Form
      BY DEF ProfileForm, Form
    <3>2. q \in RequestRecord /\ q.op = "profile" /\ Start(r, q)
      BY <1>a, <2>5, <3>1, RestingIsRequest DEF RequestRecord, StartSetProfile
    <3> HIDE DEF q
    <3> QED
      BY <2>3, <3>2
  <2>6. ASSUME StartRenew(r) PROVE FALSE
    <3> DEFINE q == [Resting EXCEPT !.op = "renew", !.pc = "rows", !.domain = domain]
    <3>1. q \in RequestRecord /\ q.op = "renew" /\ Start(r, q)
      BY <1>a, <2>6, RestingIsRequest DEF RequestRecord, StartRenew
    <3> HIDE DEF q
    <3> QED
      BY <2>3, <3>1
  <2> QED
    BY <2>1, <2>2, <2>4, <2>5, <2>6 DEF Starts
<1>2. CASE req[r].op # "idle"
  <2>1. req[r].op = "ensure" /\ req[r].pc \in {"rows", "reload"}
    BY <1>0, <1>2 DEF Issuing, Stage, RequestRecord
  <2>2. ReadRows(r) \/ Reload(r)
    BY <1>2, <2>1 DEF Starts, StartRender, StartSetDomain, StartSetProfile, StartRenew, Start, Idle, Steps, Reads, Writes,
       ReadDomain, ReadProfile, UpsertDomain, DropServerLeaf, Persist, Wipe, Insert, Update, At
  <2>3. CASE Ends(r)
    <3>1. req'[r] = Resting
      BY <1>0, <2>3 DEF Ends
    <3> QED
      BY <2>2, <3>1, RestingIsRequest DEF ReadRows, Reload, UpToDate, Is
  <2>4. CASE ~Ends(r)
    <3>1. ReadRows(r) /\ req' = [req EXCEPT ![r].seen = stored, ![r].late = due, ![r].pc = "profile"]
      BY <2>2, <2>4 DEF ReadRows, Reload, Delivers
    <3>2. req'[r].pc = "profile"
      BY <1>0, <3>1 DEF RequestRecord
    <3> QED
      BY <3>1, <3>2 DEF ReadRows, UpToDate, Is
  <2> QED
    BY <2>3, <2>4
<1> QED
  BY <1>1, <1>2

\* What a request that issues relies on is left alone by one that only reads.
LEMMA PhaseStays ==
    ASSUME NEW r \in Request, NEW s \in Request \ {r}, Others(r), UNCHANGED tables, UpToDate(req[r])', Phase(req[s])
    PROVE  Phase(req[s])'
<1>1. domain' = domain /\ keys' = keys /\ stored' = stored /\ req'[s] = req[s]
  BY DEF tables, Others
<1>2. Current' = Current
  BY <1>1, CurrentStays
<1>3. Calm => Calm'
  BY CalmStays
<1>4. Signed'
  BY <1>1 DEF Phase, Signed, Accepted
<1>5. \A rows, profile : Made(rows, profile) => Made(rows, profile)'
  BY DEF Made, Accepted
<1>6. Merged(req[s].fresh)' = Merged(req[s].fresh)
  BY <1>1 DEF Merged
<1>7. Made(Merged(req[s].fresh), req[s].profile) => Made(Merged(req[s].fresh), req[s].profile)'
  BY <1>1, <1>6 DEF Made, Accepted
<1>8. Named(Merged(req[s].fresh), domain) => Named(Merged(req[s].fresh), domain)'
  BY <1>1, <1>6 DEF Named
<1>9. /\ Made(stored, Current) => Made(stored, Current)'
      /\ Made(stored, req[s].profile) => Made(stored, req[s].profile)'
      /\ Named(stored, domain) => Named(stored, domain)'
      /\ Whole(stored) => Whole(stored)' /\ (~Whole(stored) => ~Whole(stored)')
  BY <1>1, <1>2 DEF Made, Named, Accepted, Whole
<1> QED
  BY <1>1, <1>2, <1>3, <1>4, <1>7, <1>8, <1>9 DEF Phase, Is, Accepted

\* Rows wiped and nothing held: what went wrong before is over.
LEMMA CleanIsGood ==
    ASSUME Shape, Clean, ~Overlap
    PROVE  Good
<1>1. Made(stored, Current) /\ Named(stored, domain) /\ Signed
  BY NoRowsAreRows DEF Clean, Made, Named, Signed, Leaf, Kind
<1>2. Calm
  BY <1>1 DEF Calm, Clean, UpToDate, Is
<1>3. ASSUME NEW r \in Request, Issuing(r) PROVE Phase(req[r])
  <2>1. req[r].pc \in {"domain", "upsert"} /\ req[r].op \in {"ensure", "domain"}
    BY <1>3 DEF Issuing, Shape, Stage, Clean
  <2>2. req[r].pc = "domain" => req[r].op = "ensure"
    BY <2>1 DEF Shape, Stage
  <2> QED
    BY <1>1, <1>2, <2>1, <2>2 DEF Phase, Is
<1> QED
  BY <1>2, <1>3 DEF Good

\* The same of the state a step leads to.
LEMMA CleanStep == Shape' /\ Clean' /\ ~Overlap' => Good'
<1>1. Shape /\ Clean /\ ~Overlap => Good
  BY CleanIsGood
<1> QED
  BY <1>1, PTL

\* A step of one request when nothing has gone wrong.
LEMMA GoodStep ==
    ASSUME Good, ~tainted, NEW r \in Request, Others(r), Alone(r) /\ Found(r) => Found(r)',
           ~Issuing(r) /\ ~Issuing(r)' => UNCHANGED tables /\ UpToDate(req[r])',
           ~Overlap'
    PROVE  Good'
<1>1. ~Overlap
  BY DEF Good
<1>2. \A s \in Request \ {r} : Issuing(s)' <=> Issuing(s)
  BY DEF Others, Issuing
<1>3. CASE Alone(r)
  <2>1. Found(r)
    BY <1>3 DEF Good, Alone, Found
  <2>2. Found(r)'
    BY <1>3, <2>1
  <2> QED
    BY <1>2, <1>3, <2>2 DEF Good, Alone, Found
<1>4. CASE ~Alone(r)
  <2>1. PICK s \in Request \ {r} : Issuing(s)
    BY <1>4 DEF Alone
  <2>2. ~Issuing(r) /\ ~Issuing(r)' /\ Issuing(s)'
    BY <1>1, <1>2, <2>1 DEF Overlap
  <2>3. \A t \in Request : Issuing(t)' => t = s
    BY <2>1, <2>2 DEF Overlap
  <2>4. Phase(req[s])'
    BY <2>1, <2>2, PhaseStays DEF Good
  <2> QED
    BY <2>1, <2>2, <2>3, <2>4 DEF Good
<1> QED
  BY <1>3, <1>4

\* The settings are empty, or those of a deployment from before the profile was configurable.
LEMMA InitIInv == Init => IInv
<1> SUFFICES ASSUME Init PROVE IInv
  OBVIOUS
<1>1. /\ req = [r \in Request |-> Resting] /\ due = {} /\ keys = [identity |-> None, days |-> None] /\ tainted = FALSE
      /\ \A r \in Request : req[r] = Resting
  BY DEF Init
<1>2. \A r \in Request : ~Issuing(r) /\ UpToDate(req[r])
  BY <1>1, RestingIsRequest DEF Issuing, UpToDate, Is
<1>3. ~Overlap
  BY <1>2 DEF Overlap
<1>4. CASE domain = None /\ stored = NoRows
  <2>1. Shape
    BY <1>1, <1>4, RestingIsRequest, NoRowsAreRows DEF Shape, TypeOK, DomainComesFirst
  <2>2. Calm
    BY <1>2, <1>4, NoRowsAreRows DEF Calm, Made, Named, Leaf, Kind
  <2> QED
    BY <1>2, <1>3, <2>1, <2>2 DEF IInv, Good
<1>5. CASE domain # None \/ stored # NoRows
  <2>1. domain \in Domain /\ \E key \in Key : stored = LegacyRows(key, domain)
    BY <1>5, TlsAssumption DEF Init
  <2>2. PICK key \in Key : stored = LegacyRows(key, domain)
    BY <2>1
  <2> DEFINE ca == [key |-> key, subject |-> Legacy]
             profile == [identity |-> Legacy, days |-> DefaultDays]
             leaf == IssueLeaf(domain, profile, ca)
  <2>3. /\ ca \in Authority /\ ca # None /\ ca.key = key /\ ca.subject = Legacy
        /\ profile \in Profile /\ profile.identity = Legacy /\ profile.days = DefaultDays
    <3>1. ca \in Authority /\ profile \in Profile
      BY TlsAssumption DEF Authority, Profile, Identity
    <3> QED
      BY <3>1, NothingIsNone
  <2>4. stored = [k \in Kind |-> IF k = "ca" THEN ca ELSE leaf]
    BY <2>2 DEF LegacyRows
  <2>5. Current = profile
    BY <1>1 DEF Current, Resolve
  <2> HIDE DEF ca, profile
  <2>6. /\ leaf \in Certificate /\ leaf # None /\ leaf.ca = ca.key /\ leaf.issuer = profile.identity
        /\ leaf.domain = domain /\ leaf.days = profile.days
    BY <2>1, <2>3, IssueLeafTyped
  <2> HIDE DEF leaf
  <2>7. stored["ca"] = ca /\ stored["server"] = leaf /\ stored["client"] = leaf /\ DOMAIN stored = Kind
    BY <2>4 DEF Kind
  <2>8. stored \in Rows
    BY <2>3, <2>4, <2>6, <2>7, MakesRows
  <2>9. Whole(stored) /\ Made(stored, Current) /\ Named(stored, domain)
    BY <2>3, <2>5, <2>6, <2>7 DEF Whole, Made, Named, Accepted, Kind, Leaf
  <2>10. Shape
    BY <1>1, <2>1, <2>8, RestingIsRequest, NothingIsNone DEF Shape, TypeOK, DomainComesFirst
  <2> QED
    BY <1>2, <1>3, <2>9, <2>10, WholeIsCalm DEF IInv, Good
<1> QED
  BY <1>4, <1>5

\* What is known of the tables and the requests says nothing of snapshots, history and bounds.
LEMMA OtherState ==
    ASSUME IInv, UNCHANGED <<domain, keys, stored, req, tainted>>, due' \subseteq Kind
    PROVE  IInv'
<1>1. domain' = domain /\ keys' = keys /\ stored' = stored /\ req' = req /\ tainted' = tainted
  OBVIOUS
<1>2. Shape'
  BY <1>1 DEF IInv, Shape, TypeOK, DomainComesFirst, Stage, Early, Is, Whole
<1>3. (\A r \in Request : Issuing(r)' <=> Issuing(r)) /\ (Overlap' <=> Overlap)
  BY <1>1 DEF Issuing, Overlap
<1>4. Current' = Current
  BY <1>1, CurrentStays
<1>5. Calm => Calm'
  BY <1>1, <1>4 DEF Calm, Made, Named, Whole, UpToDate, Is, Accepted
<1>6. ASSUME NEW r \in Request, Phase(req[r]) PROVE Phase(req[r])'
  <2>1. Merged(req[r].fresh)' = Merged(req[r].fresh)
    BY <1>1 DEF Merged
  <2>2. /\ Made(Merged(req[r].fresh), req[r].profile) => Made(Merged(req[r].fresh), req[r].profile)'
        /\ Named(Merged(req[r].fresh), domain) => Named(Merged(req[r].fresh), domain)'
    BY <1>1, <2>1 DEF Made, Named, Accepted
  <2>3. /\ Made(stored, Current) => Made(stored, Current)'
        /\ Made(stored, req[r].profile) => Made(stored, req[r].profile)'
        /\ Named(stored, domain) => Named(stored, domain)'
        /\ Whole(stored) => Whole(stored)' /\ (~Whole(stored) => ~Whole(stored)')
        /\ Signed => Signed'
    BY <1>1, <1>4 DEF Made, Named, Accepted, Whole, Signed
  <2> QED
    BY <1>1, <1>4, <1>5, <1>6, <2>2, <2>3 DEF Phase, Is, Accepted
<1>7. Good'
  BY <1>1, <1>3, <1>5, <1>6 DEF IInv, Good
<1> QED
  BY <1>2, <1>7 DEF IInv

\* A request that dies without having issued leaves the tables to the one that does.
LEMMA DieStep ==
    ASSUME IInv, NEW r \in Request, Die(r), tainted' = (tainted \/ Issuing(r))
    PROVE  IInv'
<1>1. Ends(r) /\ UNCHANGED <<tables, due>> /\ Shape
  BY DEF Die, IInv
<1>2. req'[r] = Resting /\ Others(r)
  BY <1>1 DEF Ends, Others, Shape, TypeOK
<1>3. ~Issuing(r)' /\ UpToDate(req[r])'
  BY <1>2, RestingIsRequest DEF Issuing, UpToDate, Is
<1>4. Shape'
  BY <1>1, RestingIsRequest, RequestTypes, ShapeStep DEF TypeOK, Ends, tables
<1>5. Overlap' => Overlap
  <2>1. \A s \in Request : Issuing(s)' => Issuing(s)
    BY <1>2, <1>3 DEF Others, Issuing
  <2> QED
    BY <2>1 DEF Overlap
<1>6. CASE tainted'
  BY <1>4, <1>6 DEF IInv, Good
<1>7. CASE ~tainted'
  <2>1. ~tainted /\ ~Issuing(r) /\ Good /\ ~Overlap'
    BY <1>5, <1>7 DEF IInv, Good
  <2>2. Found(r) => Found(r)'
    BY <1>1, <2>1, EndsStep DEF Found
  <2> QED
    BY <1>1, <1>2, <1>3, <1>4, <2>1, <2>2, GoodStep DEF IInv
<1> QED
  BY <1>6, <1>7

\* The inductive step.
LEMMA NextIInv == IInv /\ [Next]_vars => IInv'
<1> SUFFICES ASSUME IInv, [Next]_vars PROVE IInv'
  OBVIOUS
<1>0. Shape /\ Good /\ due \subseteq Kind
  BY DEF IInv, Shape, TypeOK
<1>1. ASSUME NEW r \in Request, Starts(r) \/ Steps(r), Taints PROVE IInv'
  <2>1. Shape' /\ Others(r) /\ (Alone(r) /\ Found(r) => Found(r)')
    BY <1>0, <1>1, RequestStep
  <2>2. ~Issuing(r) /\ ~Issuing(r)' => UNCHANGED tables /\ UpToDate(req[r])'
    BY <1>0, <1>1, <2>1, RenderingOnlyReads
  <2>3. CASE tainted'
    BY <2>1, <2>3 DEF IInv, Good
  <2>4. CASE ~tainted'
    <3>1. ~Overlap' /\ (~tainted \/ Clean')
      BY <1>1, <2>4 DEF Taints
    <3>2. CASE Clean'
      BY <2>1, <3>1, <3>2, CleanStep DEF IInv
    <3>3. CASE ~tainted
      BY <1>0, <2>1, <2>2, <3>1, <3>3, GoodStep DEF IInv
    <3> QED
      BY <3>1, <3>2, <3>3
  <2> QED
    BY <2>3, <2>4
<1>2. ASSUME NEW r \in Request, Die(r), tainted' = (tainted \/ Issuing(r)) PROVE IInv'
  BY <1>2, DieStep
<1>3. ASSUME NEW k \in Kind, Age(k), UNCHANGED tainted PROVE IInv'
  BY <1>0, <1>3, OtherState DEF Age, tables
<1>4. CASE UNCHANGED vars
  BY <1>0, <1>4, OtherState DEF vars, tables
<1> QED
  BY <1>1, <1>2, <1>3, <1>4 DEF Next

\* What is calm is as the settings page says.
LEMMA GoodFits == IInv => StoredMaterialFits
<1> SUFFICES ASSUME IInv, ~tainted PROVE StoredMaterialFits
  BY DEF StoredMaterialFits
<1>1. Good /\ stored \in Rows
  BY DEF IInv, Shape, TypeOK
<1>2. Calm => Signed
  BY DEF Calm, Made, Signed
<1>3. Signed
  BY <1>1, <1>2 DEF Good, Phase
<1>4. ASSUME \A r \in Request : ~Issuing(r)
      PROVE  /\ stored["server"] # None => stored["server"].domain = domain
             /\ stored["ca"] # None => stored["ca"].subject = Status.identity
             /\ \A k \in Leaf : stored[k] # None => stored[k].days = Status.days
  <2>1. Made(stored, Current) /\ Named(stored, domain)
    BY <1>1, <1>4 DEF Good, Calm
  <2>2. stored # NoRows => Status = Current
    BY DEF Status, Current, Resolve
  <2>3. \A k \in Kind : NoRows[k] = None
    BY NoRowsAreRows
  <2> QED
    BY <2>1, <2>2, <2>3 DEF Made, Named, Leaf, Kind
<1> QED
  BY <1>3, <1>4 DEF StoredMaterialFits, Signed

-----------------------------------------------------------------------------

\* services/tls.ts: however renderings, both settings forms and the renewal interleave, as long as no
\* two of them issue at the same time and none dies while it does, the stored leaves are accepted under
\* the stored CA at every moment, and name the domain and have the profile the settings page shows as
\* soon as nobody issues.
THEOREM MaterialFits == Spec => []StoredMaterialFits
<1>1. Init => IInv
  BY InitIInv
<1>2. IInv /\ [Next]_vars => IInv'
  BY NextIInv
<1>3. IInv => StoredMaterialFits
  BY GoodFits
<1> QED
  BY <1>1, <1>2, <1>3, PTL DEF Spec
=============================================================================
