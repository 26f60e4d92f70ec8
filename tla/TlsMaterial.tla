---------------------------- MODULE TlsMaterial ----------------------------
(***************************************************************************)
(* The platform's link-TLS material (services/tls.ts): one certificate     *)
(* authority and two leaves in table tls_material, the certificate profile *)
(* and the disguise domain in app_settings.  Four kinds of request work on *)
(* them, each a chain of awaits that any other may interleave with:        *)
(* renderings of node configurations, which issue what is missing; the two *)
(* settings forms; the daily renewal.  A request may die at any await.     *)
(*                                                                         *)
(* A certificate is what its rows say: the names and signatures by which a *)
(* peer accepts it.  Its encoding is the subject of module Der.            *)
(***************************************************************************)
EXTENDS Integers, FiniteSets

CONSTANTS
    Domain,     \* disguise domains
    Custom,     \* CA identities (CN, O, CA validity) an administrator may type
    Days,       \* leaf validities
    DefaultDays,
    Node,
    Request,    \* requests that can be under way at once
    None,
    MaxWrites,  \* bound on settings saved
    MaxDeaths,  \* bound on requests that die
    MaxAges,    \* bound on certificates that come close to expiry
    Key         \* CA key pairs that can be told apart at once

\* The identity derived from a domain is named by that domain; Blank is the one
\* derived from no domain at all.
Legacy == "legacy"
Blank == "blank"
Identity == Domain \cup Custom \cup {Legacy, Blank}

ASSUME TlsAssumption ==
    /\ DefaultDays \in Days /\ Domain # {} /\ Key # {}
    /\ None \notin Identity \cup Days \cup Node
    /\ None \notin [key : Key, subject : Identity]
    /\ None \notin [ca : Key, issuer : Identity, domain : Domain \cup {None}, days : Days]
    /\ MaxWrites \in Nat /\ MaxDeaths \in Nat /\ MaxAges \in Nat

VARIABLES
    domain,     \* app_settings tls_domain
    keys,       \* app_settings tls_ca_* and tls_leaf_validity_days
    stored,     \* tls_material
    due,        \* the stored certificates within the renewal threshold
    current,    \* the nodes whose snapshot has the material now stored
    req,        \* the requests under way
    tainted,    \* history: issuing requests overlapped or died since the last wipe
    writes, deaths, ages

tables == <<domain, keys, stored>>
bounds == <<writes, deaths, ages>>
vars == <<tables, due, current, req, tainted, bounds>>

Kind == {"ca", "server", "client"}
Leaf == {"server", "client"}

\* The row of the CA is its key and its subject's identity; that of a leaf the key and the identity of
\* the CA that signed it, the domain it names and its validity in days.
NoRows == [k \in Kind |-> None]
Whole(rows) == \A k \in Kind : rows[k] # None

Resting == [op |-> "idle", pc |-> "idle", node |-> None, want |-> None, domain |-> None,
            seen |-> NoRows, late |-> {}, profile |-> None, fresh |-> NoRows, edit |-> "none"]

\* Request r goes on with the given fields changed.
Idle(r) == req[r].op = "idle"
Ends(r) == req' = [req EXCEPT ![r] = Resting]
At(r, pc) == req[r].pc = pc /\ req[r].op # "idle"

-----------------------------------------------------------------------------
(* Issuing. *)

KeysOf(rows) ==
    {rows[k].ca : k \in {x \in Leaf : rows[x] # None}}
    \cup (IF rows["ca"] = None THEN {} ELSE {rows["ca"].key})

Used == KeysOf(stored) \cup UNION {KeysOf(req[r].seen) \cup KeysOf(req[r].fresh) : r \in Request}

\* A key pair nobody has; Key has enough of them.
NewKey == CHOOSE key \in Key : Key \subseteq Used \/ key \notin Used

\* issueLeaf: the issuer name is the profile's, the signature the CA's.
IssueLeaf(name, profile, ca) ==
    [ca |-> ca.key, issuer |-> profile.identity, domain |-> name, days |-> profile.days]

\* Leaves of the given kinds under an existing CA.
IssueLeaves(kinds, name, profile, ca) ==
    [k \in Kind |-> IF k \in kinds THEN IssueLeaf(name, profile, ca) ELSE None]

\* generateTlsMaterial: a new CA and both leaves under it.
Generate(name, profile) ==
    LET ca == [key |-> NewKey, subject |-> profile.identity]
    IN  [k \in Kind |-> IF k = "ca" THEN ca ELSE IssueLeaf(name, profile, ca)]

\* resolveTlsProfile: stored values win; a CA from before they were stored keeps
\* its hardcoded identity; a fresh deployment derives one from its domain.
Resolve(name, exists) ==
    [identity |-> IF keys.identity # None THEN keys.identity
                  ELSE IF exists THEN Legacy
                  ELSE IF name = None THEN Blank ELSE name,
     days |-> IF keys.days # None THEN keys.days ELSE DefaultDays]

-----------------------------------------------------------------------------
(* Where requests come from.  Nothing tells the start of a request from its  *)
(* first read.                                                              *)

Start(r, q) ==
    /\ Idle(r)
    /\ req' = [req EXCEPT ![r] = q]
    /\ UNCHANGED <<tables, due, deaths, ages>>

\* A node with a TLS link is rendered: by the daily sweep, by the recomputation
\* a settings form defers, by any other write.  Without a domain the links are
\* degraded.
StartRender(r, n) ==
    \/ /\ domain # None
       /\ Start(r, [Resting EXCEPT !.op = "ensure", !.pc = "rows", !.node = n, !.domain = domain])
       /\ UNCHANGED <<current, writes>>
    \/ /\ domain = None /\ Idle(r)
       /\ current' = current \cup {n}
       /\ UNCHANGED <<tables, due, req, bounds>>

\* A settings form is saved; the bound is MaxWrites.
Write == writes < MaxWrites /\ writes' = writes + 1 /\ UNCHANGED current

\* Saving the domain that is set already does nothing.
StartSetDomain(r, d) ==
    /\ d # domain
    /\ Start(r, [Resting EXCEPT !.op = "domain", !.pc = "upsert", !.want = d])
    /\ Write

StartSetProfile(r, input) ==
    /\ Start(r, [Resting EXCEPT !.op = "profile", !.pc = "rows", !.domain = domain, !.want = input])
    /\ Write

\* The daily renewal; one that finds nothing due changes nothing.
StartRenew(r) ==
    /\ domain # None
    /\ due # {}
    /\ Start(r, [Resting EXCEPT !.op = "renew", !.pc = "rows", !.domain = domain])
    /\ UNCHANGED <<current, writes>>

-----------------------------------------------------------------------------
(* setTlsDomain, up to the call of ensureTlsMaterial. *)

Moves(r, pc) == req' = [req EXCEPT ![r].pc = pc]

\* Going on as ensureTlsMaterial, for no node in particular.
Ensures(r) == req' = [req EXCEPT ![r] = [Resting EXCEPT !.op = "ensure", !.pc = "domain"]]

\* Rows change: no snapshot has them yet.
Puts(k, certificate) ==
    /\ stored' = [stored EXCEPT ![k] = certificate]
    /\ due' = due \ {k}
    /\ current' = {}

Deletes(kinds) ==
    /\ stored' = [k \in Kind |-> IF k \in kinds THEN None ELSE stored[k]]
    /\ due' = due \ kinds
    /\ current' = {}

UpsertDomain(r) ==
    /\ At(r, "upsert")
    /\ domain' = req[r].want
    /\ current' = {}
    /\ Moves(r, "drop")
    /\ UNCHANGED <<keys, stored, due, bounds>>

DropServerLeaf(r) ==
    /\ At(r, "drop")
    /\ Deletes({"server"})
    /\ Ensures(r)
    /\ UNCHANGED <<domain, keys, bounds>>

-----------------------------------------------------------------------------
(* The reads that ensureTlsMaterial, setTlsProfile and renewTlsMaterial     *)
(* begin with.                                                             *)

ReadDomain(r) ==
    /\ At(r, "domain")
    /\ req' = [req EXCEPT ![r].domain = domain, ![r].pc = "rows"]
    /\ UNCHANGED <<tables, due, current, bounds>>

\* ensureTlsMaterial hands out the rows it has read, if they are complete, and a
\* rendering stores them.  (That a slow rendering stores late is the subject of
\* ConfigDelivery.)
Delivers(r) ==
    /\ Ends(r)
    /\ current' = IF Whole(stored) /\ req[r].domain = domain
                  THEN current \cup ({req[r].node} \ {None})
                  ELSE current \ {req[r].node}

ReadRows(r) ==
    /\ At(r, "rows")
    /\ IF req[r].op = "ensure" /\ Whole(stored) THEN Delivers(r)
       ELSE /\ IF req[r].op = "renew" /\ ~Whole(stored) THEN Ends(r)
               ELSE req' = [req EXCEPT ![r].seen = stored, ![r].late = due, ![r].pc = "profile"]
            /\ UNCHANGED current
    /\ UNCHANGED <<tables, due, bounds>>

\* Only the leaf a change of domain drops is missed.
MissingServer(rows) == {k \in {"server"} : rows[k] = None}

\* ensureTlsMaterial: everything when there is no CA, else the missing leaves.
Missing(rows) == {k \in Leaf : rows[k] = None}

ToIssue(name, profile, rows) ==
    IF rows["ca"] = None THEN Generate(name, profile)
    ELSE IssueLeaves(Missing(rows), name, profile, rows["ca"])

EnsureIssues(r) ==
    LET q == req[r]
        profile == Resolve(q.domain, \E k \in Kind : q.seen[k] # None)
    IN  req' = [req EXCEPT ![r].pc = "insert", ![r].profile = profile, ![r].seen = NoRows,
                           ![r].late = {}, ![r].fresh = ToIssue(q.domain, profile, q.seen)]

\* A changed identity has the leaves re-issued under it.
ProfileEditLeaves(was, next, exists, name) ==
    IF name = None THEN "none"
    ELSE IF ~exists THEN "issue"
    ELSE IF next # was THEN "leaves" ELSE "none"

\* setTlsProfile: what the form leaves out stays as it is.
ProfileEdit(was, next, exists, name) ==
    IF name = None THEN "none"
    ELSE IF ~exists THEN "issue"
    ELSE IF next.identity # was.identity THEN "all"
    ELSE IF next.days # was.days THEN "leaves" ELSE "none"

EditProfile(r) ==
    LET q == req[r]
        exists == q.seen["ca"] # None
        was == Resolve(q.domain, exists)
        next == [identity |-> IF q.want.identity # None THEN q.want.identity ELSE was.identity,
                 days |-> IF q.want.days # None THEN q.want.days ELSE was.days]
    IN  req' = [req EXCEPT ![r].pc = "persist", ![r].profile = next, ![r].seen = NoRows,
                           ![r].late = {}, ![r].want = None, ![r].edit = ProfileEdit(was, next, exists, q.domain)]

\* renewTlsMaterial: an expiring CA takes everything with it.
RenewIssues(r) ==
    LET q == req[r]
        profile == Resolve(q.domain, TRUE)
    IN  IF "ca" \in q.late
        THEN req' = [req EXCEPT ![r].pc = "wipe", ![r].profile = profile, ![r].seen = NoRows,
                                ![r].late = {}, ![r].edit = "all"]
        ELSE IF q.late = {} THEN Ends(r)
        ELSE req' = [req EXCEPT ![r].pc = "update", ![r].seen = NoRows, ![r].late = {},
                    ![r].fresh = IssueLeaves(q.late, q.domain, profile, q.seen["ca"])]

ReadProfile(r) ==
    /\ At(r, "profile")
    /\ CASE req[r].op = "ensure" -> EnsureIssues(r)
         [] req[r].op = "profile" -> EditProfile(r)
         [] req[r].op = "renew" -> RenewIssues(r)
    /\ UNCHANGED <<tables, due, current, bounds>>

-----------------------------------------------------------------------------
(* The writes. *)

\* The row to be written next: the CA, then the server leaf, then the client's.
Row(r, k) ==
    /\ req[r].fresh[k] # None
    /\ k = "client" => req[r].fresh["server"] = None
    /\ k # "ca" => req[r].fresh["ca"] = None

Written(r, k, then) ==
    LET left == [req[r].fresh EXCEPT ![k] = None]
    IN  IF left # NoRows THEN req' = [req EXCEPT ![r].fresh = left]
        ELSE IF then = "end" THEN Ends(r)
        ELSE req' = [req EXCEPT ![r].fresh = left, ![r].pc = then]

\* insertMaterialIfAbsent, one row.
Insert(r, k) ==
    /\ At(r, "insert") /\ Row(r, k)
    /\ IF stored[k] = None THEN Puts(k, req[r].fresh[k]) ELSE UNCHANGED <<stored, due, current>>
    /\ Written(r, k, "persist")
    /\ UNCHANGED <<domain, keys, bounds>>

\* The renewal of a leaf in place: a row that is gone by now is not restored.
Update(r, k) ==
    /\ At(r, "update") /\ Row(r, k)
    /\ IF stored[k] # None THEN Puts(k, req[r].fresh[k]) ELSE UNCHANGED <<stored, due, current>>
    /\ Written(r, k, "end")
    /\ UNCHANGED <<domain, keys, bounds>>

\* persistProfileKeys.
Persist(r) ==
    /\ At(r, "persist")
    /\ keys' = req[r].profile
    /\ CASE req[r].op = "ensure" -> Moves(r, "reload")
         [] req[r].op = "renew" -> Ends(r)
         [] req[r].op = "profile" /\ req[r].edit = "none" -> Ends(r)
         [] req[r].op = "profile" /\ req[r].edit = "issue" -> Ensures(r)
         [] req[r].op = "profile" /\ req[r].edit \in {"all", "leaves"} -> Moves(r, "wipe")
    /\ UNCHANGED <<domain, stored, due, current, bounds>>

\* A changed identity, like an expiring CA, deletes every row; a changed leaf
\* validity the leaves.
Wipe(r) ==
    /\ At(r, "wipe")
    /\ Deletes(IF req[r].edit = "leaves" THEN Leaf ELSE Kind)
    /\ IF req[r].op = "profile" THEN Ensures(r)
       ELSE req' = [req EXCEPT ![r].pc = "insert",
                               ![r].fresh = Generate(req[r].domain, req[r].profile)]
    /\ UNCHANGED <<domain, keys, bounds>>

Reload(r) ==
    /\ At(r, "reload")
    /\ Delivers(r)
    /\ UNCHANGED <<tables, due, bounds>>

-----------------------------------------------------------------------------

\* The worker of a request is evicted, or one of its awaits fails.
Die(r) ==
    /\ ~Idle(r) /\ deaths < MaxDeaths
    /\ deaths' = deaths + 1
    /\ Ends(r)
    /\ UNCHANGED <<tables, due, current, writes, ages>>

\* 30 days are left of a leaf, or 90 of the CA.
Age(k) ==
    /\ ages < MaxAges /\ stored[k] # None /\ k \notin due
    /\ ages' = ages + 1
    /\ due' = due \cup {k}
    /\ UNCHANGED <<tables, current, req, writes, deaths>>

\* Material of a deployment from before the profile was configurable.
LegacyRows(key, d) ==
    LET ca == [key |-> key, subject |-> Legacy]
        leaf == IssueLeaf(d, [identity |-> Legacy, days |-> DefaultDays], ca)
    IN  [k \in Kind |-> IF k = "ca" THEN ca ELSE leaf]

Init ==
    /\ req = [r \in Request |-> Resting]
    /\ \/ domain = None /\ stored = NoRows
       \/ /\ domain = (CHOOSE d \in Domain : TRUE)
          /\ \E key \in {CHOOSE k \in Key : TRUE} : stored = LegacyRows(key, domain)
    /\ keys = [identity |-> None, days |-> None]
    /\ due = {}
    /\ current = {}
    /\ tainted = FALSE
    /\ writes = 0 /\ deaths = 0 /\ ages = 0

\* One field at a time.
ProfileForm ==
    {[identity |-> i, days |-> None] : i \in Custom} \cup {[identity |-> None, days |-> d] : d \in Days}

Reads(r) == ReadDomain(r) \/ ReadRows(r) \/ ReadProfile(r) \/ Reload(r)

Writes(r) ==
    \/ UpsertDomain(r) \/ DropServerLeaf(r) \/ Persist(r) \/ Wipe(r)
    \/ \E k \in Kind : Insert(r, k) \/ Update(r, k)

Steps(r) == Reads(r) \/ Writes(r)

Starts(r) ==
    \/ \E n \in Node : StartRender(r, n)
    \/ \E d \in Domain : StartSetDomain(r, d)
    \/ \E input \in ProfileForm : StartSetProfile(r, input)
    \/ StartRenew(r)

\* A request that may still issue on the strength of what it has read, or has
\* begun to change what the others read.
Issuing(r) ==
    \/ req[r].op \in {"domain", "profile", "renew"}
    \/ req[r].op = "ensure" /\ (req[r].node = None
                                \/ req[r].pc \in {"profile", "insert", "persist"})

Overlap == \E r, s \in Request : r # s /\ Issuing(r) /\ Issuing(s)

\* Nothing is stored, and nobody holds anything read.
Clean == stored = NoRows /\ \A r \in Request : req[r].pc \in {"idle", "domain", "upsert"}

Taints == tainted' = ((tainted /\ ~Clean') \/ Overlap')

Next ==
    \/ \E r \in Request :
        /\ Starts(r) \/ Steps(r)
        /\ Taints
    \/ \E r \in Request : Die(r) /\ tainted' = (tainted \/ Issuing(r))
    \/ \E k \in Kind : Age(k) /\ UNCHANGED tainted

Spec == Init /\ [][Next]_vars

\* Requests get on; the sweep comes to every node and the renewal comes too.
\* (How many requests can be under way is a bound of the model: that all of them
\* are taken holds up neither for ever.)
FairSpec ==
    /\ Spec
    /\ \A r \in Request : WF_vars(Steps(r) /\ Taints)
    /\ \A n \in Node : SF_vars(\E r \in Request : StartRender(r, n) /\ Taints)
    /\ SF_vars(\E r \in Request : StartRenew(r) /\ Taints)

-----------------------------------------------------------------------------

\* getTlsStatus: the profile the settings page shows.
Status == Resolve(domain, stored # NoRows)

\* A leaf that peers accept: signed by the CA, under the name the CA goes by.
Accepted(leaf, ca) == leaf.ca = ca.key /\ leaf.issuer = ca.subject

\* services/tls.ts, the whole of it: the stored leaves are accepted under the
\* stored CA, and when nobody is issuing the server's names the domain, both have
\* the validity the settings page shows, and the CA the identity it shows.  The two
\* ways out are known: requests that issue at the same time, and one that dies
\* between its writes; what they leave lasts until the whole set is wiped.
StoredMaterialFits ==
    tainted \/
        /\ stored["ca"] # None => \A k \in Leaf :
                stored[k] # None => Accepted(stored[k], stored["ca"])
        /\ (\A r \in Request : ~Issuing(r)) =>
            /\ stored["server"] # None => stored["server"].domain = domain
            /\ stored["ca"] # None => stored["ca"].subject = Status.identity
            /\ \A k \in Leaf : stored[k] # None => stored[k].days = Status.days

\* index.ts, the daily sweep, and the issuing inside a rendering: once the
\* settings rest, the material becomes complete and leaves no certificate near
\* its expiry, and every node holds it, whatever died half way.
MaterialArrives ==
    <>[]((domain # None => Whole(stored) /\ due = {}) /\ current = Node)

=============================================================================
