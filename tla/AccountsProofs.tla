--------------------------- MODULE AccountsProofs ---------------------------
(***************************************************************************)
(* What holds of tenants, rules and endpoints for any number of them, of   *)
(* plans and of requests under way.                                        *)
(*                                                                         *)
(* The inductive invariant has three parts: the types of the rows and of   *)
(* what a request remembers between its awaits; the foreign keys; and what *)
(* a request has validated, stated about the picture of the rows it was    *)
(* validated on, which no other request can change.                        *)
(*                                                                         *)
(* What is counted of a user's traffic (Metered) needs sums over sets      *)
(* first: that there is one, and that it is the same in every order.       *)
(***************************************************************************)
EXTENDS Accounts, FiniteSetTheorems, NaturalsInduction, WellFoundedInduction, TLAPS

-----------------------------------------------------------------------------
(* Types. *)

SubRow == [pkg : Package, since : Nat, expires : Nat \cup {None}]

\* A request as a record, whatever it holds.
Field == {"op", "step", "id", "form", "owner", "tunnel", "endpoint", "address", "saw"}
IsRequest(q) == q = [f \in Field |-> q[f]]

\* What the later awaits of a request rely on.
RequestOK(q) ==
    /\ IsRequest(q)
    /\ q.op = "create" =>
         /\ q.form \in RuleForm /\ q.owner = q.form.user /\ q.endpoint = q.form.endpoint
         /\ q.id = None
    /\ q.op = "edit" =>
         /\ q.id \in Rule /\ q.form \in PatchForm
         /\ q.owner \in User \cup {None} /\ q.endpoint \in Endpoint \cup {None}
    /\ q.op \in {"create", "edit"} /\ q.step = "write" /\ q.endpoint # None => q.address \in Address
    /\ q.op = "endpoint" => q.id \in Endpoint /\ q.address \in Address
    /\ q.op = "unlist" => q.id \in Endpoint
    /\ q.op = "subscribe" => q.owner \in User /\ q.id \in Package /\ q.form \in Nat
    /\ q.op = "withdraw" => q.id \in Package

\* The types of the stored rows.
Rows ==
    /\ clock \in Nat
    /\ users \in [User -> {"active", "disabled", None}]
    /\ sub \in [User -> SubRow \cup {None}]
    /\ packages \in [Package -> Plan \cup {None}]
    /\ links \in [Link -> LinkRow \cup {None}]
    /\ rules \in [Rule -> RuleRow \cup {None}]
    /\ endpoints \in [Endpoint -> Address \cup {None}]

\* Their foreign keys.
RowKeys(x) == rules[x] # None => KeysExist(rules[x])

Keys ==
    /\ \A u \in User : users[u] = None => sub[u] = None
    /\ \A u \in User : sub[u] # None => packages[sub[u].pkg] # None
    /\ \A x \in Rule : RowKeys(x)

\* The picture a request was validated on allows one more rule in its tunnel.
Allowed(q) ==
    q.owner # None =>
        /\ Grants(q.saw.plan, q.tunnel, q.saw.nodes)
        /\ q.saw.plan.maxRules > 0 => Cardinality(q.saw.rules) < q.saw.plan.maxRules

\* What a request about a rule has validated.
Validated(q) ==
    /\ q.op = "create" => q.tunnel = q.form.tunnel /\ Allowed(q)
    /\ q.op = "edit" =>
         /\ q.owner = Given(q.form.user, q.saw.row[2])
         /\ q.tunnel = Given(q.form.tunnel, q.saw.row[1])
         /\ Allowed(q)

Requests ==
    /\ req = [r \in Request |-> req[r]]
    /\ \A r \in Request : RequestOK(req[r]) /\ Validated(req[r])

IInv == Rows /\ Keys /\ Requests

-----------------------------------------------------------------------------
(* Requests. *)

\* A picture is as large as what it shows.
LEMMA PictureRules ==
    ASSUME NEW S \in SUBSET Rule
    PROVE  /\ IsFiniteSet(S) /\ Cardinality(S) \in Nat
           /\ Cardinality({<<y, rules[y].tunnel>> : y \in S}) = Cardinality(S)
<1>1. IsFiniteSet(S)
  BY AccountsAssumption, FS_Subset
<1> DEFINE T == {<<y, rules[y].tunnel>> : y \in S}
           f == [y \in S |-> <<y, rules[y].tunnel>>]
<1>2. f \in [S -> T] /\ \A a, b \in S : f[a] = f[b] => a = b
  OBVIOUS
<1>3. \A t \in T : \E y \in S : f[y] = t
  OBVIOUS
<1>4. f \in Bijection(S, T)
  BY <1>2, <1>3 DEF Bijection, Injection, Surjection, IsInjective
<1>5. Cardinality(T) = Cardinality(S)
  BY <1>1, <1>4, FS_Bijection DEF ExistsBijection
<1> QED
  BY <1>1, <1>5, FS_CardinalityType

\* A request that rests has nothing to remember.
LEMMA RestingIsGood == RequestOK(Resting) /\ Validated(Resting)
<1>1. IsRequest(Resting)
  BY DEF Resting, IsRequest, Field
<1>2. Resting.op = "idle"
  BY DEF Resting
<1> QED
  BY <1>1, <1>2 DEF RequestOK, Validated

\* One request changes: the others remember what they did.
LEMMA OneRequest ==
    ASSUME Requests, NEW r \in Request, NEW q, RequestOK(q), Validated(q), req' = [req EXCEPT ![r] = q]
    PROVE  Requests'
<1>1. \A s \in Request : req'[s] = IF s = r THEN q ELSE req[s]
  BY DEF Requests
<1>2. req' = [s \in Request |-> req'[s]]
  BY DEF Requests
<1> QED
  BY <1>1, <1>2 DEF Requests

\* A request about a rule begins with what it has validated.
LEMMA MayOwnIsAllowed ==
    ASSUME Rows, Keys, NEW u \in User \cup {None}, NEW t, NEW x, u # None => MayOwn(u, t, x),
           NEW q, q.owner = u, q.tunnel = t, q.saw = Picture(u, t, x)
    PROVE  Allowed(q)
<1> SUFFICES ASSUME u # None
             PROVE  /\ Grants(q.saw.plan, t, q.saw.nodes)
                    /\ q.saw.plan.maxRules > 0 => Cardinality(q.saw.rules) < q.saw.plan.maxRules
  BY DEF Allowed
<1>1. sub[u] # None /\ Grants(PlanOf(u), t, NodesOf[t])
      /\ (PlanOf(u).maxRules > 0 => Cardinality(Owned(u) \ {x}) < PlanOf(u).maxRules)
  BY DEF MayOwn, HasRoom
<1>2. q.saw.plan = PlanOf(u) /\ q.saw.nodes = NodesOf[t] /\ q.saw.rules = {<<y, rules[y].tunnel>> : y \in Owned(u) \ {x}}
  BY <1>1 DEF Picture
<1>3. Owned(u) \ {x} \in SUBSET Rule
  BY DEF Owned
<1> QED
  BY <1>1, <1>2, <1>3, PictureRules

\* POST /rules remembers a form and the picture it was validated on.
LEMMA PostRuleRequest ==
    ASSUME IInv, NEW r \in Request, NEW form \in RuleForm, PostRule(r, form)
    PROVE  Requests'
<1> DEFINE q == [Resting EXCEPT !.op = "create", !.step = "resolve", !.form = form,
                  !.owner = form.user, !.tunnel = form.tunnel, !.endpoint = form.endpoint,
                  !.saw = Picture(form.user, form.tunnel, None)]
<1>a. req' = [req EXCEPT ![r] = q]
  BY DEF PostRule, Begins
<1>b. Resting.id = None
  BY DEF Resting
<1>c. /\ IsRequest(q) /\ q.id = None
      /\ q.op = "create" /\ q.step = "resolve" /\ q.form = form /\ q.owner = form.user
      /\ q.tunnel = form.tunnel /\ q.endpoint = form.endpoint /\ q.saw = Picture(form.user, form.tunnel, None)
  BY <1>b, RestingIsGood DEF RequestOK, IsRequest, Field
<1> HIDE DEF q
<1>1. /\ req' = [req EXCEPT ![r] = q]
      /\ q.op = "create" /\ q.step = "resolve" /\ q.id = None /\ q.form = form /\ q.owner = form.user
      /\ q.tunnel = form.tunnel /\ q.endpoint = form.endpoint /\ q.saw = Picture(form.user, form.tunnel, None)
  BY <1>a, <1>c
<1>2. form.user \in User \cup {None}
  BY DEF RuleForm, RuleRow
<1>3. RequestOK(q)
  BY <1>1, <1>c DEF RequestOK
<1>4. Validated(q)
  <2>1. Allowed(q)
    BY <1>1, <1>2, MayOwnIsAllowed DEF PostRule, IInv
  <2> QED
    BY <1>1, <2>1 DEF Validated
<1> QED
  BY <1>1, <1>3, <1>4, OneRequest DEF IInv

\* What a form may leave out is given or kept.
LEMMA PatchTypes ==
    ASSUME NEW patch \in PatchForm, NEW row \in RuleRow
    PROVE  /\ Given(patch.user, row.user) \in User \cup {None}
           /\ Given(patch.tunnel, row.tunnel) \in Tunnel
           /\ Given(patch.endpoint, row.endpoint) \in Endpoint \cup {None}
           /\ Given(patch.targets, row.targets) \in Address
BY DEF PatchForm, Unchanged, RuleRow, Given

\* PUT /rules/:id remembers a patch and the picture of the owner it will have.
LEMMA PutRuleRequest ==
    ASSUME IInv, NEW r \in Request, NEW x \in Rule, NEW patch \in PatchForm, PutRule(r, x, patch)
    PROVE  Requests'
<1> DEFINE user == Given(patch.user, rules[x].user)
           tunnel == Given(patch.tunnel, rules[x].tunnel)
           endpoint == Given(patch.endpoint, rules[x].endpoint)
           q == [Resting EXCEPT !.op = "edit", !.step = "resolve", !.id = x, !.form = patch,
                         !.owner = user, !.tunnel = tunnel, !.endpoint = endpoint,
                         !.saw = Picture(user, tunnel, x)]
<1>a. /\ req' = [req EXCEPT ![r] = q]
      /\ rules[x] # None /\ (user # None => MayOwn(user, tunnel, x))
  BY DEF PutRule, Begins
<1>b. /\ IsRequest(q)
      /\ q.op = "edit" /\ q.step = "resolve" /\ q.id = x /\ q.form = patch /\ q.owner = user
      /\ q.tunnel = tunnel /\ q.endpoint = endpoint /\ q.saw = Picture(user, tunnel, x)
  BY RestingIsGood DEF RequestOK, IsRequest, Field
<1> HIDE DEF q
<1>1. /\ req' = [req EXCEPT ![r] = q]
      /\ q.op = "edit" /\ q.step = "resolve" /\ q.id = x /\ q.form = patch /\ q.owner = user
      /\ q.tunnel = tunnel /\ q.endpoint = endpoint /\ q.saw = Picture(user, tunnel, x)
      /\ rules[x] # None /\ (user # None => MayOwn(user, tunnel, x))
  BY <1>a, <1>b
<1>2. rules[x] \in RuleRow
  BY <1>1 DEF IInv, Rows
<1>3. user \in User \cup {None} /\ endpoint \in Endpoint \cup {None}
  BY <1>2, PatchTypes
<1>4. RequestOK(q)
  BY <1>1, <1>3, <1>b DEF RequestOK
<1>5. Validated(q)
  <2>1. q.saw.row = <<rules[x].tunnel, rules[x].user>>
    <3>1. x # None
      BY AccountsAssumption
    <3> QED
      BY <1>1, <3>1 DEF Picture
  <2>2. Allowed(q)
    BY <1>1, <1>3, MayOwnIsAllowed DEF IInv
  <2> QED
    BY <1>1, <2>1, <2>2 DEF Validated
<1> QED
  BY <1>1, <1>4, <1>5, OneRequest DEF IInv

\* The address a request has looked up is that of an endpoint.
LEMMA ResolveRequest ==
    ASSUME IInv, NEW r \in Request, Resolve(r)
    PROVE  Requests'
<1>1. RequestOK(req[r]) /\ Validated(req[r]) /\ req[r].op \in {"create", "edit"}
  BY DEF IInv, Requests, Resolve
<1>2. CASE req' = [req EXCEPT ![r].step = "write"] /\ req[r].endpoint = None
  <2> DEFINE q == [req[r] EXCEPT !.step = "write"]
  <2>1. req' = [req EXCEPT ![r] = q]
    BY <1>2
  <2>2. /\ IsRequest(q) /\ q.step = "write"
        /\ \A f \in Field \ {"step"} : q[f] = req[r][f]
    BY <1>1 DEF RequestOK, IsRequest, Field
  <2> HIDE DEF q
  <2>3. RequestOK(q) /\ Validated(q)
    BY <1>1, <1>2, <2>2 DEF RequestOK, Field, Validated, Allowed
  <2> QED
    BY <2>1, <2>3, OneRequest DEF IInv
<1>3. CASE Ends(r)
  BY <1>3, RestingIsGood, OneRequest DEF Ends, IInv
<1>4. CASE /\ req' = [req EXCEPT ![r].step = "write", ![r].address = endpoints[req[r].endpoint]]
           /\ req[r].endpoint # None /\ endpoints[req[r].endpoint] # None
  <2> DEFINE a == endpoints[req[r].endpoint]
             q == [[req[r] EXCEPT !.step = "write"] EXCEPT !.address = a]
  <2>1. req' = [req EXCEPT ![r] = q]
    <3>1. req = [s \in Request |-> req[s]]
      BY DEF IInv, Requests
    <3> QED
      BY <1>4, <3>1
  <2>2. /\ IsRequest(q) /\ q.step = "write" /\ q.address = a
        /\ \A f \in Field \ {"step", "address"} : q[f] = req[r][f]
    BY <1>1 DEF RequestOK, IsRequest, Field
  <2>3. req[r].endpoint \in Endpoint
    BY <1>1, <1>4 DEF RequestOK, RuleForm, RuleRow
  <2>4. a \in Address
    BY <1>4, <2>3 DEF IInv, Rows
  <2> HIDE DEF q
  <2>5. RequestOK(q) /\ Validated(q)
    BY <1>1, <2>2, <2>4 DEF RequestOK, Field, Validated, Allowed
  <2> QED
    BY <2>1, <2>5, OneRequest DEF IInv
<1> QED
  BY <1>2, <1>3, <1>4 DEF Resolve

\* The other requests that begin remember ids of rows that were there.
LEMMA OtherRequests ==
    ASSUME IInv,
           NEW r \in Request,
           \/ \E e \in Endpoint, a \in Address : PutEndpoint(r, e, a)
           \/ \E e \in Endpoint : RemoveEndpoint(r, e)
           \/ \E u \in User, k \in Package : Subscribe(r, u, k)
           \/ \E k \in Package : RemovePackage(r, k)
    PROVE  Requests'
<1>1. ASSUME NEW e \in Endpoint, NEW a \in Address, PutEndpoint(r, e, a) PROVE Requests'
  <2> DEFINE q == [Resting EXCEPT !.op = "endpoint", !.step = "update", !.id = e,
                              !.address = a, !.saw = endpoints[e]]
  <2>1. req' = [req EXCEPT ![r] = q]
    BY <1>1 DEF PutEndpoint, Begins
  <2>2. IsRequest(q) /\ q.op = "endpoint" /\ q.id = e /\ q.address = a
    BY RestingIsGood DEF RequestOK, IsRequest, Field
  <2> HIDE DEF q
  <2>3. RequestOK(q) /\ Validated(q)
    BY <2>2 DEF RequestOK, Validated
  <2> QED
    BY <2>1, <2>3, OneRequest DEF IInv
<1>2. ASSUME NEW e \in Endpoint, RemoveEndpoint(r, e) PROVE Requests'
  <2> DEFINE q == [Resting EXCEPT !.op = "unlist", !.step = "write", !.id = e]
  <2>1. req' = [req EXCEPT ![r] = q]
    BY <1>2 DEF RemoveEndpoint, Begins
  <2>2. IsRequest(q) /\ q.op = "unlist" /\ q.id = e
    BY RestingIsGood DEF RequestOK, IsRequest, Field
  <2> HIDE DEF q
  <2>3. RequestOK(q) /\ Validated(q)
    BY <2>2 DEF RequestOK, Validated
  <2> QED
    BY <2>1, <2>3, OneRequest DEF IInv
<1>3. ASSUME NEW u \in User, NEW k \in Package, Subscribe(r, u, k) PROVE Requests'
  <2> DEFINE q == [Resting EXCEPT !.op = "subscribe", !.step = "write", !.owner = u, !.id = k,
                              !.form = packages[k].period]
  <2>1. req' = [req EXCEPT ![r] = q] /\ packages[k] # None
    BY <1>3 DEF Subscribe, Begins
  <2>2. IsRequest(q) /\ q.op = "subscribe" /\ q.owner = u /\ q.id = k /\ q.form = packages[k].period
    BY RestingIsGood DEF RequestOK, IsRequest, Field
  <2> HIDE DEF q
  <2>3. packages[k].period \in Nat
    BY <2>1, AccountsAssumption DEF IInv, Rows
  <2>4. RequestOK(q) /\ Validated(q)
    BY <2>2, <2>3 DEF RequestOK, Validated
  <2> QED
    BY <2>1, <2>4, OneRequest DEF IInv
<1>4. ASSUME NEW k \in Package, RemovePackage(r, k) PROVE Requests'
  <2> DEFINE q == [Resting EXCEPT !.op = "withdraw", !.step = "write", !.id = k]
  <2>1. req' = [req EXCEPT ![r] = q]
    BY <1>4 DEF RemovePackage, Begins
  <2>2. IsRequest(q) /\ q.op = "withdraw" /\ q.id = k
    BY RestingIsGood DEF RequestOK, IsRequest, Field
  <2> HIDE DEF q
  <2>3. RequestOK(q) /\ Validated(q)
    BY <2>2 DEF RequestOK, Validated
  <2> QED
    BY <2>1, <2>3, OneRequest DEF IInv
<1> QED
  BY <1>1, <1>2, <1>3, <1>4

\* Every step keeps what the requests remember, and what they have validated.
LEMMA RequestsStep == IInv /\ [Next]_vars => Requests'
<1> SUFFICES ASSUME IInv, [Next]_vars PROVE Requests'
  OBVIOUS
<1>1. CASE UNCHANGED req
  BY <1>1 DEF IInv, Requests
<1>2. ASSUME NEW r \in Request, Ends(r) PROVE Requests'
  BY <1>2, RestingIsGood, OneRequest DEF Ends, IInv
<1>3. ASSUME NEW r \in Request, UpdateEndpoint(r) PROVE Requests'
  <2>1. CASE Ends(r)
    BY <2>1, <1>2
  <2>2. CASE req' = [req EXCEPT ![r].step = "sync"]
    <3> DEFINE q == [req[r] EXCEPT !.step = "sync"]
    <3>1. RequestOK(req[r]) /\ Validated(req[r]) /\ req[r].op = "endpoint"
      BY <1>3 DEF IInv, Requests, UpdateEndpoint, At
    <3>2. req' = [req EXCEPT ![r] = q]
      BY <2>2
    <3>3. IsRequest(q) /\ q.step = "sync" /\ \A f \in Field \ {"step"} : q[f] = req[r][f]
      BY <3>1 DEF RequestOK, IsRequest, Field
    <3> HIDE DEF q
    <3>4. RequestOK(q) /\ Validated(q)
      BY <3>1, <3>3 DEF RequestOK, Field, Validated
    <3> QED
      BY <3>2, <3>4, OneRequest DEF IInv
  <2> QED
    BY <1>3, <2>1, <2>2 DEF UpdateEndpoint
<1>4. CASE RuleRequests
  <2>1. CASE \E x \in Rule : DeleteRule(x)
    BY <2>1, <1>1 DEF DeleteRule, AtOnce
  <2>2. CASE \E r \in Request : InsertRule(r) \/ UpdateRule(r)
    BY <2>2, <1>2 DEF InsertRule, UpdateRule
  <2> QED
    BY <1>4, <2>1, <2>2, PostRuleRequest, PutRuleRequest, ResolveRequest DEF RuleRequests
<1>5. CASE EndpointRequests
  <2>1. CASE \E e \in Endpoint, a \in Address : PostEndpoint(e, a)
    BY <2>1, <1>1 DEF PostEndpoint, AtOnce
  <2>2. CASE \E r \in Request : SyncRules(r) \/ DeleteEndpoint(r)
    BY <2>2, <1>2 DEF SyncRules, DeleteEndpoint
  <2> QED
    BY <1>5, <1>3, <2>1, <2>2, OtherRequests DEF EndpointRequests
<1>6. CASE UserRequests
  <2>1. CASE \E u \in User : PostUser(u) \/ DeleteUser(u) \/ \E status \in {"active", "disabled"} : PutUser(u, status)
    BY <2>1, <1>1 DEF PostUser, DeleteUser, PutUser, AtOnce
  <2>2. CASE \E r \in Request : UpsertSubscription(r)
    BY <2>2, <1>2 DEF UpsertSubscription
  <2> QED
    BY <1>6, <2>1, <2>2, OtherRequests DEF UserRequests
<1>7. CASE PackageRequests
  <2>1. CASE \E k \in Package, plan \in Plan : PostPackage(k, plan) \/ PutPackage(k, plan)
    BY <2>1, <1>1 DEF PostPackage, PutPackage, AtOnce
  <2>2. CASE \E r \in Request : DeletePackage(r)
    BY <2>2, <1>2 DEF DeletePackage
  <2> QED
    BY <1>7, <2>1, <2>2, OtherRequests DEF PackageRequests
<1>8. CASE \/ \E x \in Rule, h \in Hour : Bill(x, h)
           \/ Tick
           \/ LinkRequests
           \/ UNCHANGED vars
  BY <1>8, <1>1 DEF Bill, Tick, LinkRequests, PostLink, PutLink, DeleteLink, WriteLink, AtOnce, vars
<1>9. CASE \E r \in Request : Die(r)
  BY <1>9, <1>2 DEF Die
<1> QED
  BY <1>4, <1>5, <1>6, <1>7, <1>8, <1>9 DEF Next

-----------------------------------------------------------------------------
(* Rows and their keys. *)

\* What POST /rules writes, if it writes: a row of the form it validated, with the
\* address it has looked up.
LEMMA InsertWrites ==
    ASSUME IInv, NEW r \in Request, InsertRule(r)
    PROVE  \/ rules' = rules
           \/ /\ rules' # rules
              /\ \E x \in Rule, row \in RuleRow :
                    /\ rules[x] = None /\ rules' = [rules EXCEPT ![x] = row] /\ KeysExist(row)
                    /\ row.tunnel = req[r].form.tunnel /\ row.user = req[r].form.user
                    /\ row.endpoint = req[r].form.endpoint
                    /\ row.endpoint # None => row.targets = req[r].address
<1> DEFINE form == req[r].form
           row == [form EXCEPT !.targets = IF form.endpoint = None THEN @ ELSE req[r].address]
<1>1. /\ RequestOK(req[r]) /\ req[r].op = "create" /\ req[r].step = "write"
      /\ form \in RuleRow /\ (form.endpoint # None => req[r].address \in Address)
  BY DEF IInv, Requests, RequestOK, InsertRule, At, RuleForm
<1>2. /\ row \in RuleRow /\ row.tunnel = form.tunnel /\ row.user = form.user
      /\ row.endpoint = form.endpoint /\ (row.endpoint # None => row.targets = req[r].address)
  BY <1>1 DEF RuleRow
<1>3. \/ rules' = rules
      \/ KeysExist(row) /\ \E x \in Rule : rules[x] = None /\ rules' = [rules EXCEPT ![x] = row]
  BY DEF InsertRule
<1> QED
  BY <1>2, <1>3

\* What PUT /rules/:id writes, if it writes: the row it finds, patched.
LEMMA UpdateWrites ==
    ASSUME IInv, NEW r \in Request, UpdateRule(r)
    PROVE  \/ UNCHANGED <<targets, excused, drifted>>
           \/ \E x \in Rule, row \in RuleRow :
                 /\ x = req[r].id /\ rules[x] # None /\ rules[x] \in RuleRow /\ row = Patched(r, rules[x])
                 /\ rules' = [rules EXCEPT ![x] = row] /\ KeysExist(row) /\ UNCHANGED endpoints
                 /\ Excuse(IF Overtaken(r) THEN {row.user} \ {None} ELSE {})
                 /\ Drift(IF StaleAddress(r, row.endpoint) THEN {row.endpoint} ELSE {})
<1> DEFINE x == req[r].id
           row == Patched(r, rules[x])
<1>1. /\ RequestOK(req[r]) /\ req[r].op = "edit" /\ req[r].step = "write"
      /\ x \in Rule /\ req[r].form \in PatchForm
      /\ (req[r].endpoint # None => req[r].address \in Address)
  BY DEF IInv, Requests, RequestOK, UpdateRule, At
<1>2. CASE rules[x] = None \/ ~KeysExist(row)
  BY <1>2 DEF UpdateRule
<1>3. CASE rules[x] # None /\ KeysExist(row)
  <2>1. rules[x] \in RuleRow
    BY <1>1, <1>3 DEF IInv, Rows
  <2>2. row \in RuleRow
    BY <1>1, <2>1, PatchTypes DEF Patched, RuleRow
  <2>3. /\ rules' = [rules EXCEPT ![x] = row] /\ UNCHANGED endpoints
        /\ Excuse(IF Overtaken(r) THEN {row.user} \ {None} ELSE {})
        /\ Drift(IF StaleAddress(r, row.endpoint) THEN {row.endpoint} ELSE {})
    BY <1>3 DEF UpdateRule
  <2> HIDE DEF row
  <2> QED
    BY <1>1, <1>3, <2>1, <2>2, <2>3 DEF row
<1> QED
  BY <1>2, <1>3

\* One row changes: its type and its keys are those of the new row.
LEMMA OneRow ==
    ASSUME Rows, Keys, NEW x \in Rule, NEW row \in RuleRow \cup {None}, row # None => KeysExist(row),
           rules' = [rules EXCEPT ![x] = row], UNCHANGED <<clock, users, sub, packages, links, endpoints>>
    PROVE  Rows' /\ Keys'
<1>1. \A y \in Rule : rules'[y] = IF y = x THEN row ELSE rules[y]
  BY DEF Rows
<1>2. Rows'
  BY DEF Rows
<1>3. \A y \in Rule : RowKeys(y)'
  BY <1>1 DEF Keys, RowKeys, RowKeys, KeysExist
<1> QED
  BY <1>2, <1>3 DEF Keys

\* Requests about rules keep the rows and their keys.
LEMMA RuleRequestsRows == IInv /\ RuleRequests => Rows' /\ Keys'
<1> SUFFICES ASSUME IInv, RuleRequests PROVE Rows' /\ Keys'
  OBVIOUS
<1> USE DEF accounts, targets, usage
<1>0. Rows /\ Keys
  BY DEF IInv
<1>1. CASE UNCHANGED <<clock, users, sub, packages, links, rules, endpoints>>
  BY <1>0, <1>1 DEF Rows, Keys, RowKeys, KeysExist
<1>2. ASSUME NEW r \in Request, InsertRule(r) PROVE Rows' /\ Keys'
  <2>1. UNCHANGED <<clock, users, sub, packages, links, endpoints>>
    BY <1>2 DEF InsertRule
  <2>2. CASE rules' = rules
    BY <2>1, <2>2, <1>1
  <2>3. CASE \E x \in Rule, row \in RuleRow : rules' = [rules EXCEPT ![x] = row] /\ KeysExist(row)
    BY <2>1, <2>3, <1>0, OneRow
  <2> QED
    BY <1>2, <2>2, <2>3, InsertWrites
<1>3. ASSUME NEW r \in Request, UpdateRule(r) PROVE Rows' /\ Keys'
  <2>1. UNCHANGED <<clock, users, sub, packages, links>>
    BY <1>3 DEF UpdateRule
  <2>2. CASE UNCHANGED targets
    BY <2>1, <2>2, <1>1
  <2>3. CASE /\ UNCHANGED endpoints
             /\ \E x \in Rule, row \in RuleRow : rules' = [rules EXCEPT ![x] = row] /\ KeysExist(row)
    BY <2>1, <2>3, <1>0, OneRow
  <2> QED
    BY <1>3, <2>2, <2>3, UpdateWrites
<1>4. ASSUME NEW x \in Rule, DeleteRule(x) PROVE Rows' /\ Keys'
  BY <1>4, <1>0, OneRow DEF DeleteRule, AtOnce
<1>5. ASSUME NEW r \in Request, Resolve(r) PROVE Rows' /\ Keys'
  BY <1>5, <1>1 DEF Resolve
<1>6. ASSUME NEW r \in Request, NEW form, PostRule(r, form) PROVE Rows' /\ Keys'
  BY <1>6, <1>1 DEF PostRule, Begins
<1>7. ASSUME NEW r \in Request, NEW x, NEW patch, PutRule(r, x, patch) PROVE Rows' /\ Keys'
  BY <1>7, <1>1 DEF PutRule, Begins
<1> QED
  BY <1>2, <1>3, <1>4, <1>5, <1>6, <1>7 DEF RuleRequests

\* A rule is there only if it was, with the user and the endpoint it had.
SameKeys(x) ==
    rules'[x] # None =>
        rules[x] # None /\ rules'[x].user = rules[x].user /\ rules'[x].endpoint = rules[x].endpoint

\* What the re-sync and the foreign key of a removed endpoint write into rules.
LEMMA EndpointRequestsRows == IInv /\ EndpointRequests => Rows' /\ Keys'
<1> SUFFICES ASSUME IInv, EndpointRequests PROVE Rows' /\ Keys'
  OBVIOUS
<1> USE DEF accounts, targets, usage
<1>0. Rows /\ Keys
  BY DEF IInv
<1>1. CASE UNCHANGED <<clock, users, sub, packages, links, rules, endpoints>>
  BY <1>0, <1>1 DEF Rows, Keys, RowKeys, KeysExist
<1>2. ASSUME NEW e \in Endpoint, NEW a \in Address, endpoints' = [endpoints EXCEPT ![e] = a],
             UNCHANGED <<clock, users, sub, packages, links, rules>>
      PROVE  Rows' /\ Keys'
  <2>1. a # None
    BY AccountsAssumption
  <2>2. \A d \in Endpoint : endpoints[d] # None => endpoints'[d] # None
    BY <1>0, <1>2, <2>1 DEF Rows
  <2>3. Rows'
    BY <1>0, <1>2 DEF Rows
  <2>4. \A x \in Rule : rules[x] # None => rules[x].endpoint \in Endpoint \cup {None}
    BY <1>0 DEF Rows, RuleRow
  <2> QED
    BY <1>0, <1>2, <2>2, <2>3, <2>4 DEF Keys, RowKeys, KeysExist
<1>3. ASSUME NEW e \in Endpoint, NEW a \in Address, PostEndpoint(e, a) PROVE Rows' /\ Keys'
  BY <1>2, <1>3 DEF PostEndpoint, AtOnce
<1>4. ASSUME NEW r \in Request, UpdateEndpoint(r) PROVE Rows' /\ Keys'
  <2>1. req[r].id \in Endpoint /\ req[r].address \in Address
    BY <1>4 DEF IInv, Requests, RequestOK, UpdateEndpoint, At
  <2> QED
    BY <1>1, <1>2, <1>4, <2>1 DEF UpdateEndpoint
<1>5. ASSUME NEW r \in Request, SyncRules(r) PROVE Rows' /\ Keys'
  <2>1. req[r].address \in Address
    BY <1>5 DEF IInv, Requests, RequestOK, SyncRules, At
  <2>2. \A x \in Rule : /\ SameKeys(x)
                       /\ rules'[x] \in RuleRow \cup {None}
    BY <1>0, <1>5, <2>1 DEF SyncRules, Rows, RuleRow, SameKeys
  <2>3. UNCHANGED <<clock, users, sub, packages, links, endpoints>>
    BY <1>5 DEF SyncRules
  <2>4. rules' \in [Rule -> RuleRow \cup {None}]
    BY <1>5, <2>2 DEF SyncRules
  <2>5. Rows'
    BY <1>0, <2>3, <2>4 DEF Rows
  <2> QED
    BY <1>0, <2>2, <2>3, <2>5 DEF Keys, RowKeys, KeysExist, SameKeys
<1>6. ASSUME NEW r \in Request, DeleteEndpoint(r) PROVE Rows' /\ Keys'
  <2>1. req[r].id \in Endpoint
    BY <1>6 DEF IInv, Requests, RequestOK, DeleteEndpoint, At
  <2> DEFINE e == req[r].id
  <2>2. /\ UNCHANGED <<clock, users, sub, packages, links>>
        /\ endpoints' = [endpoints EXCEPT ![e] = None]
        /\ rules' = [x \in Rule |-> IF rules[x] # None /\ rules[x].endpoint = e
                                   THEN [rules[x] EXCEPT !.endpoint = None] ELSE rules[x]]
    BY <1>6 DEF DeleteEndpoint
  <2> HIDE DEF e
  <2>3. ASSUME NEW x \in Rule, rules[x] # None, rules[x].endpoint = e
        PROVE  /\ rules'[x] \in RuleRow
               /\ rules'[x].user = rules[x].user /\ rules'[x].endpoint = None
    BY <1>0, <2>2, <2>3 DEF Rows, RuleRow
  <2>4. ASSUME NEW x \in Rule, ~(rules[x] # None /\ rules[x].endpoint = e)
        PROVE  rules'[x] = rules[x] /\ rules'[x] \in RuleRow \cup {None}
    BY <1>0, <2>2, <2>4 DEF Rows
  <2>5. rules' \in [Rule -> RuleRow \cup {None}]
    BY <2>2, <2>3, <2>4
  <2>6. Rows'
    BY <1>0, <2>2, <2>5 DEF Rows
  <2>7. ASSUME NEW x \in Rule PROVE RowKeys(x)'
    <3>1. RowKeys(x)
      BY <1>0 DEF Keys
    <3>2. CASE rules[x] # None /\ rules[x].endpoint = e
      BY <2>2, <2>3, <3>1, <3>2 DEF RowKeys, KeysExist
    <3>3. CASE rules[x] = None
      BY <2>4, <3>3 DEF RowKeys
    <3>4. CASE rules[x] # None /\ rules[x].endpoint # e
      <4>1. rules[x].endpoint \in Endpoint \cup {None}
        BY <1>0, <3>4 DEF Rows, RuleRow
      <4>2. rules[x].endpoint # None => endpoints'[rules[x].endpoint] = endpoints[rules[x].endpoint]
        BY <1>0, <2>2, <3>4, <4>1 DEF Rows
      <4>3. rules'[x] = rules[x]
        BY <2>4, <3>4
      <4> QED
        BY <2>2, <3>1, <3>4, <4>2, <4>3 DEF RowKeys, KeysExist
    <3> QED
      BY <3>2, <3>3, <3>4
  <2> QED
    BY <1>0, <2>2, <2>6, <2>7 DEF Keys
<1>7. ASSUME NEW r \in Request, NEW e, NEW a, PutEndpoint(r, e, a) \/ RemoveEndpoint(r, e) PROVE Rows' /\ Keys'
  BY <1>7, <1>1 DEF PutEndpoint, RemoveEndpoint, Begins
<1> QED
  BY <1>3, <1>4, <1>5, <1>6, <1>7 DEF EndpointRequests

\* What the cascade of a removed user takes along, and the subscription upserted.
LEMMA UserRequestsRows == IInv /\ UserRequests => Rows' /\ Keys'
<1> SUFFICES ASSUME IInv, UserRequests PROVE Rows' /\ Keys'
  OBVIOUS
<1> USE DEF accounts, targets, usage
<1>0. Rows /\ Keys
  BY DEF IInv
<1>1. CASE UNCHANGED <<clock, users, sub, packages, links, rules, endpoints>>
  BY <1>0, <1>1 DEF Rows, Keys, RowKeys, KeysExist
<1>2. ASSUME NEW u \in User, NEW status \in {"active", "disabled"}, users' = [users EXCEPT ![u] = status],
             UNCHANGED <<clock, sub, packages, links, rules, endpoints>>
      PROVE  Rows' /\ Keys'
  <2>1. status # None
    BY AccountsAssumption
  <2>2. \A v \in User : users'[v] = IF v = u THEN status ELSE users[v]
    BY <1>0, <1>2 DEF Rows
  <2>3. Rows'
    BY <1>0, <1>2 DEF Rows
  <2>4. \A x \in Rule : rules[x] # None => rules[x].user \in User \cup {None}
    BY <1>0 DEF Rows, RuleRow
  <2> QED
    BY <1>0, <1>2, <2>1, <2>2, <2>3, <2>4 DEF Keys, RowKeys, KeysExist
<1>3. ASSUME NEW u \in User, PostUser(u) PROVE Rows' /\ Keys'
  BY <1>2, <1>3 DEF PostUser, AtOnce
<1>4. ASSUME NEW u \in User, NEW status \in {"active", "disabled"}, PutUser(u, status) PROVE Rows' /\ Keys'
  BY <1>2, <1>4 DEF PutUser, AtOnce
<1>5. ASSUME NEW u \in User, DeleteUser(u) PROVE Rows' /\ Keys'
  <2>1. /\ UNCHANGED <<clock, packages, links, endpoints>>
        /\ users' = [users EXCEPT ![u] = None] /\ sub' = [sub EXCEPT ![u] = None]
        /\ rules' = [x \in Rule |-> IF rules[x] # None /\ rules[x].user = u
                                   THEN [rules[x] EXCEPT !.user = None] ELSE rules[x]]
    BY <1>5 DEF DeleteUser, AtOnce, Owned
  <2>2. ASSUME NEW x \in Rule, rules[x] # None, rules[x].user = u
        PROVE  /\ rules'[x] \in RuleRow
               /\ rules'[x].endpoint = rules[x].endpoint /\ rules'[x].user = None
    BY <1>0, <2>1, <2>2 DEF Rows, RuleRow
  <2>3. ASSUME NEW x \in Rule, ~(rules[x] # None /\ rules[x].user = u)
        PROVE  rules'[x] = rules[x] /\ rules'[x] \in RuleRow \cup {None}
    BY <1>0, <2>1, <2>3 DEF Rows
  <2>4. rules' \in [Rule -> RuleRow \cup {None}]
    BY <2>1, <2>2, <2>3
  <2>5. Rows'
    BY <1>0, <2>1, <2>4 DEF Rows
  <2>6. ASSUME NEW x \in Rule PROVE RowKeys(x)'
    <3>1. RowKeys(x)
      BY <1>0 DEF Keys
    <3>2. CASE rules[x] # None /\ rules[x].user = u
      BY <2>1, <2>2, <3>1, <3>2 DEF RowKeys, KeysExist
    <3>3. CASE rules[x] = None
      BY <2>3, <3>3 DEF RowKeys
    <3>4. CASE rules[x] # None /\ rules[x].user # u
      <4>1. rules[x].user \in User \cup {None}
        BY <1>0, <3>4 DEF Rows, RuleRow
      <4>2. rules[x].user # None => users'[rules[x].user] = users[rules[x].user]
        BY <1>0, <2>1, <3>4, <4>1 DEF Rows
      <4>3. rules'[x] = rules[x]
        BY <2>3, <3>4
      <4> QED
        BY <2>1, <3>1, <3>4, <4>2, <4>3 DEF RowKeys, KeysExist
    <3> QED
      BY <3>2, <3>3, <3>4
  <2>7. \A v \in User : (users'[v] = None => sub'[v] = None) /\ (sub'[v] # None => packages'[sub'[v].pkg] # None)
    BY <1>0, <2>1 DEF Keys, Rows
  <2> QED
    BY <2>5, <2>6, <2>7 DEF Keys
<1>6. ASSUME NEW r \in Request, UpsertSubscription(r) PROVE Rows' /\ Keys'
  <2> DEFINE u == req[r].owner
             k == req[r].id
             row == [pkg |-> k, since |-> clock, expires |-> IF req[r].form > 0 THEN clock + req[r].form ELSE None]
  <2>1. u \in User /\ k \in Package /\ req[r].form \in Nat
    BY <1>6 DEF IInv, Requests, RequestOK, UpsertSubscription, At
  <2>2. UNCHANGED <<clock, users, packages, links, rules, endpoints>>
    BY <1>6 DEF UpsertSubscription
  <2>3. CASE UNCHANGED sub
    BY <1>1, <2>2, <2>3
  <2>4. CASE users[u] # None /\ packages[k] # None /\ sub' = [sub EXCEPT ![u] = row]
    <3>1. row \in SubRow /\ row.pkg = k
      BY <1>0, <2>1 DEF SubRow, Rows
    <3> HIDE DEF row
    <3>2. \A v \in User : sub'[v] = IF v = u THEN row ELSE sub[v]
      BY <1>0, <2>4 DEF Rows
    <3>3. Rows'
      BY <1>0, <2>2, <2>4, <3>1 DEF Rows
    <3> QED
      BY <1>0, <2>2, <2>4, <3>1, <3>2, <3>3 DEF Keys, RowKeys, KeysExist
  <2> QED
    BY <1>6, <2>3, <2>4 DEF UpsertSubscription
<1>7. ASSUME NEW r \in Request, NEW u, NEW k, Subscribe(r, u, k) PROVE Rows' /\ Keys'
  BY <1>7, <1>1 DEF Subscribe, Begins
<1> QED
  BY <1>3, <1>4, <1>5, <1>6, <1>7 DEF UserRequests

\* A package goes only when nobody is subscribed to it.
LEMMA PackageRequestsRows == IInv /\ PackageRequests => Rows' /\ Keys'
<1> SUFFICES ASSUME IInv, PackageRequests PROVE Rows' /\ Keys'
  OBVIOUS
<1> USE DEF accounts, targets, usage
<1>0. Rows /\ Keys
  BY DEF IInv
<1>1. CASE UNCHANGED <<clock, users, sub, packages, links, rules, endpoints>>
  BY <1>0, <1>1 DEF Rows, Keys, RowKeys, KeysExist
<1>2. ASSUME NEW k \in Package, NEW plan \in Plan, PostPackage(k, plan) \/ PutPackage(k, plan)
      PROVE  Rows' /\ Keys'
  <2>1. packages' = [packages EXCEPT ![k] = plan] /\ UNCHANGED <<clock, users, sub, links, rules, endpoints>>
    BY <1>2 DEF PostPackage, PutPackage, AtOnce
  <2>2. plan # None
    BY AccountsAssumption
  <2>3. \A j \in Package : packages'[j] = IF j = k THEN plan ELSE packages[j]
    BY <1>0, <2>1 DEF Rows
  <2>4. \A u \in User : sub[u] # None => sub[u].pkg \in Package
    BY <1>0 DEF Rows, SubRow
  <2>5. Rows'
    BY <1>0, <2>1 DEF Rows
  <2> QED
    BY <1>0, <2>1, <2>2, <2>3, <2>4, <2>5 DEF Keys, RowKeys, KeysExist
<1>3. ASSUME NEW r \in Request, DeletePackage(r) PROVE Rows' /\ Keys'
  <2>1. UNCHANGED <<clock, users, sub, links, rules, endpoints>>
    BY <1>3 DEF DeletePackage
  <2>2. CASE UNCHANGED packages
    BY <1>1, <2>1, <2>2
  <2>3. CASE /\ packages' = [packages EXCEPT ![req[r].id] = None]
             /\ ~\E u \in User : sub[u] # None /\ sub[u].pkg = req[r].id
    <3>1. \A u \in User : sub[u] # None => sub[u].pkg \in Package
      BY <1>0 DEF Rows, SubRow
    <3>2. \A u \in User : sub[u] # None => packages'[sub[u].pkg] = packages[sub[u].pkg]
      BY <1>0, <2>3, <3>1 DEF Rows
    <3>3. Rows'
      BY <1>0, <2>1, <2>3 DEF Rows
    <3> QED
      BY <1>0, <2>1, <3>2, <3>3 DEF Keys, RowKeys, KeysExist
  <2> QED
    BY <1>3, <2>2, <2>3 DEF DeletePackage
<1>4. ASSUME NEW r \in Request, NEW k, RemovePackage(r, k) PROVE Rows' /\ Keys'
  BY <1>4, <1>1 DEF RemovePackage, Begins
<1> QED
  BY <1>2, <1>3, <1>4 DEF PackageRequests

\* The first rows have their types and their keys, and no request is under way.
LEMMA InitIInv == Init => IInv
<1> SUFFICES ASSUME Init PROVE IInv
  OBVIOUS
<1>1. Requests
  BY RestingIsGood DEF Init, Requests
<1>2. clock = 0 /\ users = [u \in User |-> "active"] /\ endpoints \in [Endpoint -> Address]
  BY DEF Init
<1>3. /\ packages \in [Package -> Plan \cup {None}] /\ sub \in [User -> SubRow \cup {None}]
      /\ \A u \in User : sub[u] # None => packages[sub[u].pkg] # None
  <2>1. ASSUME NEW plans \in [Package -> Plan], NEW k \in Package, packages = plans,
               sub = [u \in User |-> [pkg |-> k, since |-> 0,
                        expires |-> IF plans[k].period > 0 THEN plans[k].period ELSE None]]
        PROVE  /\ packages \in [Package -> Plan \cup {None}] /\ sub \in [User -> SubRow \cup {None}]
               /\ \A u \in User : sub[u] # None => packages[sub[u].pkg] # None
    <3>1. plans[k] \in Plan /\ plans[k].period \in Nat /\ plans[k] # None
      BY AccountsAssumption
    <3> DEFINE row == [pkg |-> k, since |-> 0, expires |-> IF plans[k].period > 0 THEN plans[k].period ELSE None]
    <3>2. row \in SubRow /\ row.pkg = k
      BY <3>1 DEF SubRow
    <3> HIDE DEF row
    <3>3. sub = [u \in User |-> row]
      BY <2>1 DEF row
    <3> QED
      BY <2>1, <3>1, <3>2, <3>3
  <2>2. CASE packages = [k \in Package |-> None] /\ sub = [u \in User |-> None]
    BY <2>2
  <2> QED
    BY <2>1, <2>2 DEF Init
<1>4. rules \in [Rule -> RuleRow \cup {None}] /\ \A x \in Rule : RowKeys(x)
  <2>1. CASE rules = [x \in Rule |-> None]
    BY <2>1 DEF RowKeys
  <2>2. ASSUME NEW first \in Rule, NEW u \in User, NEW t \in Tunnel, NEW e \in Endpoint,
               rules = [x \in Rule |-> IF x # first THEN None
                    ELSE [tunnel |-> t, user |-> u, endpoint |-> e, targets |-> endpoints[e]]]
        PROVE  rules \in [Rule -> RuleRow \cup {None}] /\ \A x \in Rule : RowKeys(x)
    <3> DEFINE row == [tunnel |-> t, user |-> u, endpoint |-> e, targets |-> endpoints[e]]
    <3>1. row \in RuleRow /\ row.user = u /\ row.endpoint = e
      BY <1>2 DEF RuleRow
    <3>2. KeysExist(row)
      <4>1. users[u] # None /\ endpoints[e] # None
        BY <1>2, AccountsAssumption
      <4> QED
        BY <3>1, <4>1 DEF KeysExist
    <3> HIDE DEF row
    <3>3. rules = [x \in Rule |-> IF x # first THEN None ELSE row]
      BY <2>2 DEF row
    <3> QED
      BY <3>1, <3>2, <3>3 DEF RowKeys
  <2> QED
    BY <2>1, <2>2 DEF Init
<1>5. Rows
  <2>1. links \in [Link -> LinkRow \cup {None}]
    BY DEF Init
  <2> QED
    BY <1>2, <1>3, <1>4, <2>1 DEF Rows
<1>6. Keys
  BY <1>2, <1>3, <1>4, AccountsAssumption DEF Keys
<1> QED
  BY <1>1, <1>5, <1>6 DEF IInv

\* Every step keeps the inductive invariant.
LEMMA NextIInv == IInv /\ [Next]_vars => IInv'
<1> SUFFICES ASSUME IInv, [Next]_vars PROVE Rows' /\ Keys'
  BY RequestsStep DEF IInv
<1>1. CASE \/ \E x \in Rule, h \in Hour : Bill(x, h)
           \/ \E r \in Request : Die(r)
           \/ UNCHANGED vars
  <2>1. UNCHANGED <<clock, users, sub, packages, links, rules, endpoints>>
    BY <1>1 DEF Bill, Die, vars, accounts, targets
  <2> QED
    BY <2>1 DEF IInv, Rows, Keys, RowKeys, KeysExist
<1>2. CASE Tick
  <2>1. clock' \in Nat /\ UNCHANGED <<users, sub, packages, links, rules, endpoints>>
    BY <1>2 DEF Tick, accounts, targets, IInv, Rows
  <2> QED
    BY <2>1 DEF IInv, Rows, Keys, RowKeys, KeysExist
<1>3. CASE LinkRequests
  <2>1. /\ UNCHANGED <<clock, users, sub, packages, rules, endpoints>>
        /\ \E l \in Link, row \in LinkRow \cup {None} : links' = [links EXCEPT ![l] = row]
    BY <1>3 DEF LinkRequests, PostLink, PutLink, DeleteLink, WriteLink, AtOnce, targets
  <2>2. links' \in [Link -> LinkRow \cup {None}]
    BY <2>1 DEF IInv, Rows
  <2> QED
    BY <2>1, <2>2 DEF IInv, Rows, Keys, RowKeys, KeysExist
<1> QED
  BY <1>1, <1>2, <1>3, RuleRequestsRows, EndpointRequestsRows, UserRequestsRows, PackageRequestsRows DEF Next

\* For any number of tenants and of requests under way: the foreign keys of the
\* stored rows hold, and what a request has validated was true of the rows then.
THEOREM StoredKeys == Spec => [](Rows /\ Keys)
<1>1. IInv => Rows /\ Keys
  BY DEF IInv
<1> QED
  BY <1>1, InitIInv, NextIInv, PTL DEF Spec

-----------------------------------------------------------------------------
(* Rules follow their endpoints. *)

\* e may be written to by no more than the request that says so.
Follow(e) == endpoints[e] # None => Follows(e) \/ e \in drifted \/ Syncing(e)

\* The rules of e are some of those it had, with the addresses they had.
SameTargets(e) ==
    \A x \in Rule : rules'[x] # None /\ rules'[x].endpoint = e =>
        rules[x] # None /\ rules[x].endpoint = e /\ rules'[x].targets = rules[x].targets

\* An endpoint named as drifting does, or its rules follow it.
LEMMA DriftNames ==
    ASSUME NEW es, Drift(es), NEW e, e \in drifted \/ e \in es
    PROVE  Follows(e)' \/ e \in drifted'
BY DEF Drift

\* An edit between its statements stays there, unless it is the one that moves.
LEMMA SyncingStays ==
    ASSUME NEW e, NEW r \in Request, NEW q, IInv, req' = [req EXCEPT ![r] = q],
           At(r, "endpoint", "sync") => req[r].id # e, Syncing(e)
    PROVE  Syncing(e)'
<1>1. PICK s \in Request : At(s, "endpoint", "sync") /\ req[s].id = e
  BY DEF Syncing
<1>2. s # r
  BY <1>1
<1>3. req'[s] = req[s]
  BY <1>2 DEF IInv, Requests
<1> QED
  BY <1>1, <1>3 DEF Syncing, At

\* Nothing that e's rules copy changes: they follow it if they did.
LEMMA FollowStays ==
    ASSUME NEW e, Follow(e), endpoints'[e] # None => endpoints'[e] = endpoints[e], SameTargets(e),
           Syncing(e) => Syncing(e)', drifted' = drifted \/ Drift({}) \/ \E d : Drift({d})
    PROVE  Follow(e)'
<1> SUFFICES ASSUME endpoints'[e] # None PROVE Follows(e)' \/ e \in drifted' \/ Syncing(e)'
  BY DEF Follow
<1>1. endpoints'[e] = endpoints[e]
  OBVIOUS
<1>2. CASE Follows(e)
  BY <1>1, <1>2 DEF Follows, SameTargets
<1>3. CASE e \in drifted
  BY <1>3, DriftNames
<1>4. CASE Syncing(e)
  BY <1>4
<1> QED
  BY <1>1, <1>2, <1>3, <1>4 DEF Follow

\* A written rule has the address of its endpoint, or that endpoint is named.
LEMMA WrittenRuleFollows ==
    ASSUME IInv, NEW r \in Request, NEW x \in Rule, NEW row \in RuleRow,
           rules' = [rules EXCEPT ![x] = row], UNCHANGED endpoints,
           row.endpoint # None /\ row.endpoint = req[r].endpoint => row.targets = req[r].address,
           Drift(IF StaleAddress(r, row.endpoint) THEN {row.endpoint} ELSE {}),
           NEW e \in Endpoint, Follow(e), Syncing(e) => Syncing(e)'
    PROVE  Follow(e)'
<1> SUFFICES ASSUME endpoints'[e] # None PROVE Follows(e)' \/ e \in drifted' \/ Syncing(e)'
  BY DEF Follow
<1>0. \A y \in Rule : rules'[y] = IF y = x THEN row ELSE rules[y]
  BY DEF IInv, Rows
<1>1. CASE row.endpoint # e
  <2>1. SameTargets(e)
    BY <1>0, <1>1 DEF SameTargets
  <2>2. Drift({}) \/ \E d : Drift({d})
    OBVIOUS
  <2>3. Follow(e)'
    BY <2>1, <2>2, FollowStays
  <2> QED
    BY <2>3 DEF Follow
<1>2. CASE row.endpoint = e /\ StaleAddress(r, e)
  BY <1>2, DriftNames
<1>3. CASE row.endpoint = e /\ ~StaleAddress(r, e)
  <2>1. e # None
    BY AccountsAssumption
  <2>2. row.targets = endpoints[e]
    BY <1>3, <2>1 DEF StaleAddress
  <2>3. CASE Follows(e)
    BY <1>0, <1>3, <2>2, <2>3 DEF Follows
  <2>4. CASE e \in drifted
    BY <2>4, DriftNames
  <2>5. CASE Syncing(e)
    BY <2>5
  <2> QED
    BY <2>3, <2>4, <2>5 DEF Follow
<1> QED
  BY <1>1, <1>2, <1>3

\* A request that begins, or ends, was in the middle of no other edit.
LEMMA SyncingElsewhere ==
    ASSUME IInv, NEW e, NEW r \in Request, ~At(r, "endpoint", "sync"), \E q : req' = [req EXCEPT ![r] = q],
           Syncing(e)
    PROVE  Syncing(e)'
BY SyncingStays

\* What requests about rules do to the addresses.
LEMMA RuleRequestsFollow ==
    ASSUME IInv, RuleRequests, NEW e \in Endpoint, Follow(e)
    PROVE  Follow(e)'
<1> USE DEF targets
<1>1. ASSUME NEW r \in Request, InsertRule(r) PROVE Follow(e)'
  <2>1. Syncing(e) => Syncing(e)'
    BY <1>1, SyncingElsewhere DEF InsertRule, Ends, At
  <2>2. /\ UNCHANGED endpoints
        /\ Drift(IF rules' # rules /\ StaleAddress(r, req[r].form.endpoint) THEN {req[r].form.endpoint} ELSE {})
    BY <1>1 DEF InsertRule
  <2>3. CASE rules' = rules
    <3>1. SameTargets(e)
      BY <2>3 DEF SameTargets
    <3> QED
      BY <2>1, <2>2, <2>3, <3>1, FollowStays
  <2>4. ASSUME rules' # rules, NEW x \in Rule, NEW row \in RuleRow, rules' = [rules EXCEPT ![x] = row],
               row.endpoint = req[r].form.endpoint, row.endpoint # None => row.targets = req[r].address
        PROVE  Follow(e)'
    <3>1. Drift(IF StaleAddress(r, row.endpoint) THEN {row.endpoint} ELSE {})
      BY <2>2, <2>4
    <3> QED
      BY <2>1, <2>2, <2>4, <3>1, WrittenRuleFollows
  <2> QED
    BY <1>1, <2>3, <2>4, InsertWrites
<1>2. ASSUME NEW r \in Request, UpdateRule(r) PROVE Follow(e)'
  <2>1. Syncing(e) => Syncing(e)'
    BY <1>2, SyncingElsewhere DEF UpdateRule, Ends, At
  <2>2. CASE UNCHANGED <<targets, excused, drifted>>
    <3>1. SameTargets(e)
      BY <2>2 DEF SameTargets
    <3> QED
      BY <2>1, <2>2, <3>1, FollowStays
  <2>3. ASSUME NEW x \in Rule, NEW row \in RuleRow, rules' = [rules EXCEPT ![x] = row],
               row = Patched(r, rules[x]), UNCHANGED endpoints,
               Drift(IF StaleAddress(r, row.endpoint) THEN {row.endpoint} ELSE {})
        PROVE  Follow(e)'
    <3>1. row.endpoint # None /\ row.endpoint = req[r].endpoint => row.targets = req[r].address
      BY <2>3 DEF Patched
    <3> QED
      BY <2>1, <2>3, <3>1, WrittenRuleFollows
  <2> QED
    BY <1>2, <2>2, <2>3, UpdateWrites
<1>3. ASSUME NEW x \in Rule, DeleteRule(x) PROVE Follow(e)'
  <2>1. SameTargets(e)
    BY <1>3 DEF DeleteRule, SameTargets, IInv, Rows
  <2>2. UNCHANGED <<endpoints, req>> /\ Drift({})
    BY <1>3 DEF DeleteRule, AtOnce, NoExcuse
  <2> QED
    BY <2>1, <2>2, FollowStays DEF Syncing, At
<1>4. ASSUME NEW r \in Request, Resolve(r) PROVE Follow(e)'
  <2>1. Syncing(e) => Syncing(e)'
    BY <1>4, SyncingElsewhere DEF Resolve, Ends, At
  <2>2. UNCHANGED <<rules, endpoints, drifted>>
    BY <1>4 DEF Resolve
  <2> QED
    BY <2>1, <2>2, FollowStays DEF SameTargets
<1>5. ASSUME NEW r \in Request, NEW q, Begins(r, q) PROVE Follow(e)'
  <2>1. Syncing(e) => Syncing(e)'
    BY <1>5, SyncingElsewhere DEF Begins, Idle, At
  <2>2. UNCHANGED <<rules, endpoints, drifted>>
    BY <1>5 DEF Begins
  <2> QED
    BY <2>1, <2>2, FollowStays DEF SameTargets
<1>6. ASSUME NEW r \in Request, NEW form, PostRule(r, form) PROVE Follow(e)'
  BY <1>5, <1>6 DEF PostRule
<1>7. ASSUME NEW r \in Request, NEW x, NEW patch, PutRule(r, x, patch) PROVE Follow(e)'
  BY <1>5, <1>7 DEF PutRule
<1> QED
  BY <1>1, <1>2, <1>3, <1>4, <1>6, <1>7 DEF RuleRequests

\* What requests about endpoints do to the addresses: a changed one is re-synced,
\* and an address nobody uses can be anything.
LEMMA EndpointRequestsFollow ==
    ASSUME IInv, EndpointRequests, NEW e \in Endpoint, Follow(e)
    PROVE  Follow(e)'
<1> USE DEF targets
<1>1. ASSUME NEW d \in Endpoint, NEW a \in Address, PostEndpoint(d, a) PROVE Follow(e)'
  <2>1. UNCHANGED <<rules, req>> /\ Drift({}) /\ endpoints[d] = None /\ endpoints' = [endpoints EXCEPT ![d] = a]
    BY <1>1 DEF PostEndpoint, AtOnce, NoExcuse
  <2>2. CASE d = e
    <3>1. \A x \in Rule : rules[x] # None => rules[x].endpoint # e
      <4>1. e # None
        BY AccountsAssumption
      <4> QED
        BY <2>1, <2>2, <4>1 DEF IInv, Keys, RowKeys, KeysExist
    <3>2. Follows(e)'
      BY <2>1, <3>1 DEF Follows
    <3> QED
      BY <3>2 DEF Follow
  <2>3. CASE d # e
    <3>1. endpoints'[e] = endpoints[e]
      BY <2>1, <2>3 DEF IInv, Rows
    <3>2. SameTargets(e) /\ (Syncing(e) => Syncing(e)')
      BY <2>1 DEF SameTargets, Syncing, At
    <3> QED
      BY <2>1, <3>1, <3>2, FollowStays
  <2> QED
    BY <2>2, <2>3
<1>2. ASSUME NEW r \in Request, UpdateEndpoint(r) PROVE Follow(e)'
  <2> DEFINE d == req[r].id
             a == req[r].address
  <2>0. /\ req[r].op = "endpoint" /\ req[r].step = "update" /\ d \in Endpoint /\ ~At(r, "endpoint", "sync")
        /\ UNCHANGED rules
    BY <1>2 DEF IInv, Requests, RequestOK, UpdateEndpoint, At
  <2>1. Syncing(e) => Syncing(e)'
    BY <1>2, <2>0, SyncingElsewhere DEF UpdateEndpoint, Ends
  <2>2. SameTargets(e)
    BY <2>0 DEF SameTargets
  <2>3. CASE endpoints[d] = None
    BY <1>2, <2>1, <2>2, <2>3, FollowStays DEF UpdateEndpoint
  <2>4. CASE endpoints[d] # None
    <3>1. /\ endpoints' = [endpoints EXCEPT ![d] = a]
          /\ Drift(IF a = req[r].saw /\ endpoints[d] # a THEN {d} ELSE {})
          /\ (a # req[r].saw => req' = [req EXCEPT ![r].step = "sync"])
      BY <1>2, <2>4 DEF UpdateEndpoint
    <3>2. CASE d # e \/ a = endpoints[d]
      <4>1. endpoints'[e] = endpoints[e]
        BY <2>0, <3>1, <3>2 DEF IInv, Rows
      <4>2. Drift({}) \/ \E f : Drift({f})
        BY <3>1
      <4> QED
        BY <2>1, <2>2, <4>1, <4>2, FollowStays
    <3>3. CASE d = e /\ a # endpoints[d] /\ a = req[r].saw
      <4>1. Follows(e)' \/ e \in drifted'
        BY <3>1, <3>3, DriftNames
      <4> QED
        BY <4>1 DEF Follow
    <3>4. CASE d = e /\ a # req[r].saw
      <4>1. req'[r].op = "endpoint" /\ req'[r].step = "sync" /\ req'[r].id = e
        <5>1. IsRequest(req[r]) /\ req'[r] = [req[r] EXCEPT !.step = "sync"]
          BY <3>1, <3>4 DEF IInv, Requests, RequestOK
        <5> QED
          BY <2>0, <3>4, <5>1 DEF IsRequest, Field
      <4> QED
        BY <4>1 DEF Follow, Syncing, At
    <3> QED
      BY <3>2, <3>3, <3>4
  <2> QED
    BY <2>3, <2>4
<1>3. ASSUME NEW r \in Request, SyncRules(r) PROVE Follow(e)'
  <2> DEFINE d == req[r].id
             a == req[r].address
  <2>1. /\ rules' = [x \in Rule |-> IF rules[x] # None /\ rules[x].endpoint = d
                                   THEN [rules[x] EXCEPT !.targets = a] ELSE rules[x]]
        /\ UNCHANGED endpoints
        /\ Drift(IF endpoints[d] # a THEN {d} ELSE {})
        /\ req' = [req EXCEPT ![r] = Resting]
    BY <1>3 DEF SyncRules, Ends
  <2>2. CASE d # e
    <3>1. Syncing(e) => Syncing(e)'
      BY <2>1, <2>2, SyncingStays
    <3>2. SameTargets(e)
      BY <2>1, <2>2 DEF SameTargets, IInv, Rows, RuleRow
    <3>3. Drift({}) \/ \E f : Drift({f})
      BY <2>1
    <3> QED
      BY <2>1, <3>1, <3>2, <3>3, FollowStays
  <2>3. CASE d = e /\ endpoints[d] # a
    <3>1. Follows(e)' \/ e \in drifted'
      BY <2>1, <2>3, DriftNames
    <3> QED
      BY <3>1 DEF Follow
  <2>4. CASE d = e /\ endpoints[d] = a
    <3>1. \A x \in Rule : rules'[x] # None /\ rules'[x].endpoint = e => rules'[x].targets = a
      BY <2>1, <2>4 DEF IInv, Rows, RuleRow
    <3> QED
      BY <2>1, <2>4, <3>1 DEF Follow, Follows
  <2> QED
    BY <2>2, <2>3, <2>4
<1>4. ASSUME NEW r \in Request, DeleteEndpoint(r) PROVE Follow(e)'
  <2> DEFINE d == req[r].id
  <2>1. /\ endpoints' = [endpoints EXCEPT ![d] = None] /\ Drift({}) /\ ~At(r, "endpoint", "sync")
        /\ rules' = [x \in Rule |-> IF rules[x] # None /\ rules[x].endpoint = d
                                   THEN [rules[x] EXCEPT !.endpoint = None] ELSE rules[x]]
    BY <1>4 DEF DeleteEndpoint, At
  <2>2. Syncing(e) => Syncing(e)'
    BY <1>4, <2>1, SyncingElsewhere DEF DeleteEndpoint, Ends
  <2>3. endpoints'[e] # None => endpoints'[e] = endpoints[e]
    BY <2>1 DEF IInv, Rows
  <2>4. SameTargets(e)
    <3>1. e # None
      BY AccountsAssumption
    <3> QED
      BY <2>1, <3>1 DEF SameTargets, IInv, Rows, RuleRow
  <2> QED
    BY <2>1, <2>2, <2>3, <2>4, FollowStays
<1>5. ASSUME NEW r \in Request, NEW q, Begins(r, q) PROVE Follow(e)'
  <2>1. Syncing(e) => Syncing(e)'
    BY <1>5, SyncingElsewhere DEF Begins, Idle, At
  <2>2. UNCHANGED <<rules, endpoints, drifted>>
    BY <1>5 DEF Begins
  <2> QED
    BY <2>1, <2>2, FollowStays DEF SameTargets
<1>6. ASSUME NEW r \in Request, NEW d, NEW a, PutEndpoint(r, d, a) \/ RemoveEndpoint(r, d) PROVE Follow(e)'
  BY <1>5, <1>6 DEF PutEndpoint, RemoveEndpoint
<1> QED
  BY <1>1, <1>2, <1>3, <1>4, <1>6 DEF EndpointRequests

\* What everything else does to them: a removed user leaves its rules their targets.
LEMMA OthersFollow ==
    ASSUME IInv, NEW e \in Endpoint, Follow(e),
           \/ UserRequests \/ PackageRequests \/ LinkRequests \/ Tick \/ UNCHANGED vars
           \/ \E x \in Rule, h \in Hour : Bill(x, h)
           \/ \E r \in Request : Die(r)
    PROVE  Follow(e)'
<1> USE DEF targets
<1>1. CASE UNCHANGED <<rules, endpoints, drifted, req>>
  BY <1>1 DEF Follow, Follows, Syncing, At
<1>2. ASSUME NEW r \in Request, ~At(r, "endpoint", "sync"), NEW q, req' = [req EXCEPT ![r] = q],
             UNCHANGED <<rules, endpoints>>, drifted' = drifted \/ Drift({})
      PROVE  Follow(e)'
  <2>1. Syncing(e) => Syncing(e)'
    BY <1>2, SyncingElsewhere
  <2> QED
    BY <1>2, <2>1, FollowStays DEF SameTargets
<1>3. ASSUME NEW u \in User, DeleteUser(u) PROVE Follow(e)'
  <2>1. /\ UNCHANGED <<endpoints, req>> /\ Drift({})
        /\ rules' = [x \in Rule |-> IF rules[x] # None /\ rules[x].user = u
                                   THEN [rules[x] EXCEPT !.user = None] ELSE rules[x]]
    BY <1>3 DEF DeleteUser, AtOnce, NoExcuse, Owned
  <2>2. SameTargets(e)
    BY <2>1 DEF SameTargets, IInv, Rows, RuleRow
  <2>3. Syncing(e) => Syncing(e)'
    BY <2>1 DEF Syncing, At
  <2> QED
    BY <2>1, <2>2, <2>3, FollowStays
<1>L. CASE LinkRequests
  <2>1. UNCHANGED <<rules, endpoints, req>> /\ Drift({})
    BY <1>L DEF LinkRequests, PostLink, PutLink, DeleteLink, WriteLink, AtOnce
  <2>2. Syncing(e) => Syncing(e)'
    BY <2>1 DEF Syncing, At
  <2> QED
    BY <2>1, <2>2, FollowStays DEF SameTargets
<1>4. CASE UserRequests
  <2>1. ASSUME NEW u \in User, PostUser(u) \/ \E status \in {"active", "disabled"} : PutUser(u, status)
        PROVE  Follow(e)'
    BY <2>1, <1>1 DEF PostUser, PutUser, AtOnce
  <2>2. ASSUME NEW r \in Request, NEW u \in User, NEW k \in Package, Subscribe(r, u, k) PROVE Follow(e)'
    BY <2>2, <1>2 DEF Subscribe, Begins, Idle, At
  <2>3. ASSUME NEW r \in Request, UpsertSubscription(r) PROVE Follow(e)'
    <3>1. ~At(r, "endpoint", "sync") /\ Ends(r) /\ UNCHANGED <<rules, endpoints>>
      BY <2>3 DEF UpsertSubscription, At
    <3>2. drifted' = drifted \/ Drift({})
      BY <2>3 DEF UpsertSubscription
    <3> QED
      BY <3>1, <3>2, <1>2 DEF Ends
  <2> QED
    BY <1>3, <1>4, <2>1, <2>2, <2>3 DEF UserRequests
<1>5. CASE PackageRequests
  <2>1. ASSUME NEW k \in Package, NEW plan \in Plan, PostPackage(k, plan) \/ PutPackage(k, plan) PROVE Follow(e)'
    BY <2>1, <1>1 DEF PostPackage, PutPackage, AtOnce
  <2>2. ASSUME NEW r \in Request, NEW k \in Package, RemovePackage(r, k) PROVE Follow(e)'
    BY <2>2, <1>2 DEF RemovePackage, Begins, Idle, At
  <2>3. ASSUME NEW r \in Request, DeletePackage(r) PROVE Follow(e)'
    BY <2>3, <1>2 DEF DeletePackage, Ends, At
  <2> QED
    BY <1>5, <2>1, <2>2, <2>3 DEF PackageRequests
<1>6. CASE Tick \/ UNCHANGED vars \/ \E x \in Rule, h \in Hour : Bill(x, h)
  BY <1>6, <1>1 DEF Tick, vars, Bill
<1>7. ASSUME NEW r \in Request, Die(r) PROVE Follow(e)'
  <2>1. /\ UNCHANGED <<rules, endpoints>> /\ req' = [req EXCEPT ![r] = Resting]
        /\ Drift(IF At(r, "endpoint", "sync") THEN {req[r].id} ELSE {})
    BY <1>7 DEF Die, Ends
  <2>2. SameTargets(e) /\ (Drift({}) \/ \E d : Drift({d}))
    BY <2>1 DEF SameTargets
  <2>3. CASE At(r, "endpoint", "sync") /\ req[r].id = e
    <3>1. Follows(e)' \/ e \in drifted'
      BY <2>1, <2>3, DriftNames
    <3> QED
      BY <3>1 DEF Follow
  <2>4. CASE ~(At(r, "endpoint", "sync") /\ req[r].id = e)
    <3>1. Syncing(e) => Syncing(e)'
      BY <2>1, <2>4, SyncingStays
    <3> QED
      BY <2>1, <2>2, <3>1, FollowStays
  <2> QED
    BY <2>3, <2>4
<1> QED
  BY <1>L, <1>4, <1>5, <1>6, <1>7

\* For any number of rules, endpoints and requests under way, and any of them dying:
\* the copy of the address that a rule keeps is that of its endpoint, but while an
\* edit re-syncs and after the writes named as stale (routes/admin.ts:998-1001).
THEOREM CopiesFollow == Spec => []TargetsFollow
<1>1. TargetsFollow <=> \A e \in Endpoint : Follow(e)
  BY DEF TargetsFollow, Follow
<1>2. Init => TargetsFollow
  <2> SUFFICES ASSUME Init, NEW e \in Endpoint PROVE Follows(e)
    BY <1>1 DEF Follow
  <2>1. CASE rules = [x \in Rule |-> None]
    BY <2>1 DEF Follows
  <2>2. ASSUME NEW first \in Rule, NEW u \in User, NEW t \in Tunnel, NEW d \in Endpoint,
               rules = [x \in Rule |-> IF x # first THEN None
                    ELSE [tunnel |-> t, user |-> u, endpoint |-> d, targets |-> endpoints[d]]]
        PROVE  Follows(e)
    BY <2>2 DEF Follows
  <2> QED
    BY <2>1, <2>2 DEF Init
<1>3. IInv /\ TargetsFollow /\ [Next]_vars => TargetsFollow'
  <2> SUFFICES ASSUME IInv, TargetsFollow, [Next]_vars, NEW e \in Endpoint PROVE Follow(e)'
    BY DEF TargetsFollow, Follow
  <2>1. Follow(e)
    BY <1>1
  <2> QED
    BY <2>1, RuleRequestsFollow, EndpointRequestsFollow, OthersFollow DEF Next
<1> QED
  BY <1>2, <1>3, InitIInv, NextIInv, PTL DEF Spec

-----------------------------------------------------------------------------
(* Users stay within what they have bought. *)

Fits(u) == Within(u) \/ u \in excused

\* The rules of u are some of those it had, in the tunnels they were in.
FewerRules(u) ==
    /\ Owned(u)' \subseteq Owned(u)
    /\ \A x \in Owned(u)' : rules'[x].tunnel = rules[x].tunnel

\* A user named as excused is, or its rules fit its plan.
LEMMA ExcuseNames ==
    ASSUME NEW us, Excuse(us), NEW u, u \in excused \/ u \in us
    PROVE  Fits(u)'
BY DEF Excuse, Fits

\* The plan of a subscriber is one that is offered.
LEMMA PlanIsOffered ==
    ASSUME Rows, Keys, NEW u \in User, sub[u] # None
    PROVE  PlanOf(u) \in Plan /\ PlanOf(u).maxRules \in Nat
<1>1. sub[u].pkg \in Package
  BY DEF Rows, SubRow
<1>2. PlanOf(u) \in Plan
  BY <1>1 DEF Rows, Keys, PlanOf
<1> QED
  BY <1>2, AccountsAssumption

\* The plan stays, and rules only go: they fit it if they did.
LEMMA FitsStays ==
    ASSUME Rows, Keys, NEW u \in User, Fits(u),
           UNCHANGED links, users'[u] # None => users[u] # None, sub'[u] = sub[u],
           sub[u] # None => packages'[sub[u].pkg] = packages[sub[u].pkg], FewerRules(u),
           excused' = excused \/ \E us : Excuse(us)
    PROVE  Fits(u)'
<1>1. CASE u \in excused
  BY <1>1, ExcuseNames DEF Fits
<1>2. CASE Within(u)
  <2> SUFFICES ASSUME users'[u] # None, sub'[u] # None
               PROVE  /\ PlanOf(u)'.maxRules > 0 => Cardinality(Owned(u)') <= PlanOf(u)'.maxRules
                      /\ \A x \in Owned(u)' : Grants(PlanOf(u)', rules'[x].tunnel, NodesOf'[rules'[x].tunnel])
    BY DEF Fits, Within, Grants
  <2>0. NodesOf' = NodesOf
    BY DEF NodesOf
  <2>1. PlanOf(u)' = PlanOf(u) /\ PlanOf(u).maxRules \in Nat
    BY PlanIsOffered DEF PlanOf
  <2>2. /\ PlanOf(u).maxRules > 0 => Cardinality(Owned(u)) <= PlanOf(u).maxRules
        /\ \A x \in Owned(u) : Grants(PlanOf(u), rules[x].tunnel, NodesOf[rules[x].tunnel])
    BY <1>2 DEF Within
  <2>3. Owned(u) \in SUBSET Rule /\ Owned(u)' \in SUBSET Owned(u)
    BY DEF Owned, FewerRules
  <2>4. /\ Cardinality(Owned(u)) \in Nat /\ Cardinality(Owned(u)') \in Nat
        /\ Cardinality(Owned(u)') <= Cardinality(Owned(u))
    BY <2>3, AccountsAssumption, FS_Subset, FS_CardinalityType
  <2>5. \A x \in Owned(u)' : Grants(PlanOf(u)', rules'[x].tunnel, NodesOf'[rules'[x].tunnel])
    BY <2>0, <2>1, <2>2, <2>3 DEF FewerRules
  <2>6. PlanOf(u).maxRules > 0 => Cardinality(Owned(u)') <= PlanOf(u).maxRules
    BY <2>1, <2>2, <2>4
  <2> QED
    BY <2>1, <2>5, <2>6
<1> QED
  BY <1>1, <1>2 DEF Fits

\* There is room for one rule more in a tunnel the plan grants: with it they fit.
LEMMA OneMoreFits ==
    ASSUME Rows, Keys, NEW u \in User, Fits(u), UNCHANGED <<users, sub, packages, links>>, \E us : Excuse(us),
           NEW x \in Rule, Owned(u)' \subseteq Owned(u) \cup {x},
           \A y \in Owned(u)' \ {x} : rules'[y].tunnel = rules[y].tunnel,
           sub[u] # None => Grants(PlanOf(u), rules'[x].tunnel, NodesOf[rules'[x].tunnel]),
           sub[u] # None => (PlanOf(u).maxRules > 0 => Cardinality(Owned(u) \ {x}) < PlanOf(u).maxRules)
    PROVE  Fits(u)'
<1>1. CASE u \in excused
  BY <1>1, ExcuseNames
<1>2. CASE Within(u)
  <2> SUFFICES ASSUME users'[u] # None, sub'[u] # None
               PROVE  /\ PlanOf(u)'.maxRules > 0 => Cardinality(Owned(u)') <= PlanOf(u)'.maxRules
                      /\ \A y \in Owned(u)' : Grants(PlanOf(u)', rules'[y].tunnel, NodesOf'[rules'[y].tunnel])
    BY DEF Fits, Within, Grants
  <2>0. NodesOf' = NodesOf
    BY DEF NodesOf
  <2>1. PlanOf(u)' = PlanOf(u) /\ PlanOf(u).maxRules \in Nat /\ users[u] # None /\ sub[u] # None
    BY PlanIsOffered DEF PlanOf
  <2> DEFINE S == Owned(u) \ {x}
  <2>2. S \in SUBSET Rule /\ Owned(u)' \in SUBSET (S \cup {x}) /\ x \notin S
    BY DEF Owned
  <2> HIDE DEF S
  <2>3. /\ IsFiniteSet(S) /\ Cardinality(S) \in Nat /\ IsFiniteSet(S \cup {x})
        /\ Cardinality(S \cup {x}) = Cardinality(S) + 1
    BY <2>2, AccountsAssumption, FS_Subset, FS_CardinalityType, FS_AddElement
  <2>4. Cardinality(Owned(u)') \in Nat /\ Cardinality(Owned(u)') <= Cardinality(S) + 1
    BY <2>2, <2>3, FS_Subset, FS_CardinalityType
  <2>5. PlanOf(u).maxRules > 0 => Cardinality(S) < PlanOf(u).maxRules
    BY <2>1 DEF S
  <2>6. PlanOf(u).maxRules > 0 => Cardinality(Owned(u)') <= PlanOf(u).maxRules
    BY <2>1, <2>3, <2>4, <2>5
  <2>7. ASSUME NEW y \in Owned(u)' PROVE Grants(PlanOf(u), rules'[y].tunnel, NodesOf[rules'[y].tunnel])
    <3>1. CASE y = x
      BY <2>1, <3>1
    <3>2. CASE y # x
      <4>1. y \in Owned(u) /\ rules'[y].tunnel = rules[y].tunnel
        BY <2>7, <3>2
      <4> QED
        BY <1>2, <2>1, <4>1 DEF Within
    <3> QED
      BY <3>1, <3>2
  <2> QED
    BY <2>0, <2>1, <2>6, <2>7
<1> QED
  BY <1>1, <1>2 DEF Fits

\* A request that nothing has overtaken finds the user and the rule as it has
\* validated them: with the rule it writes, they fit.
LEMMA WrittenRuleFits ==
    ASSUME IInv, NEW r \in Request, NEW x \in Rule, NEW row \in RuleRow,
           rules' = [rules EXCEPT ![x] = row], UNCHANGED <<users, sub, packages, links>>,
           Excuse(IF Overtaken(r) THEN {row.user} \ {None} ELSE {}),
           ~Overtaken(r) => /\ row.user = req[r].owner /\ Allowed(req[r]) /\ req[r].tunnel = row.tunnel
                            /\ req[r].id = x \/ (req[r].id = None /\ rules[x] = None),
           NEW u \in User, Fits(u)
    PROVE  Fits(u)'
<1>0. \A y \in Rule : rules'[y] = IF y = x THEN row ELSE rules[y]
  BY DEF IInv, Rows
<1>1. /\ Rows /\ Keys /\ \E us : Excuse(us) /\ u # None
  BY AccountsAssumption DEF IInv
<1>2. CASE row.user # u
  <2>1. FewerRules(u)
    BY <1>0, <1>2 DEF FewerRules, Owned
  <2> QED
    BY <1>1, <2>1, FitsStays
<1>3. CASE row.user = u /\ Overtaken(r)
  BY <1>1, <1>3, ExcuseNames
<1>4. CASE row.user = u /\ ~Overtaken(r)
  <2>1. req[r].owner = u /\ req[r].saw = Picture(u, row.tunnel, req[r].id) /\ Allowed(req[r]) /\ req[r].tunnel = row.tunnel
    BY <1>4 DEF Overtaken
  <2>2. Owned(u) \ {req[r].id} = Owned(u) \ {x}
    <3>1. CASE req[r].id = x
      BY <3>1
    <3>2. CASE req[r].id = None /\ rules[x] = None
      <4>1. None \notin Rule
        BY AccountsAssumption
      <4> QED
        BY <3>2, <4>1 DEF Owned
    <3> QED
      BY <1>4, <3>1, <3>2
  <2>3. ASSUME sub[u] # None
        PROVE  /\ Grants(PlanOf(u), row.tunnel, NodesOf[row.tunnel])
               /\ PlanOf(u).maxRules > 0 => Cardinality(Owned(u) \ {x}) < PlanOf(u).maxRules
    <3>1. /\ req[r].saw.plan = PlanOf(u) /\ req[r].saw.nodes = NodesOf[row.tunnel]
          /\ req[r].saw.rules = {<<y, rules[y].tunnel>> : y \in Owned(u) \ {x}}
      BY <1>1, <2>1, <2>2, <2>3 DEF Picture
    <3>2. Owned(u) \ {x} \in SUBSET Rule
      BY DEF Owned
    <3> QED
      BY <1>1, <2>1, <3>1, <3>2, PictureRules DEF Allowed
  <2>4. /\ Owned(u)' \subseteq Owned(u) \cup {x}
        /\ \A y \in Owned(u)' \ {x} : rules'[y].tunnel = rules[y].tunnel
        /\ rules'[x].tunnel = row.tunnel
    BY <1>0 DEF Owned
  <2> QED
    BY <1>1, <2>3, <2>4, OneMoreFits
<1> QED
  BY <1>2, <1>3, <1>4

\* Users, plans and rules as they are: what fits still does.
LEMMA UnchangedFits ==
    ASSUME Rows, Keys, NEW u \in User, Fits(u), UNCHANGED <<users, sub, packages, links, rules>>,
           excused' = excused \/ \E us : Excuse(us)
    PROVE  Fits(u)'
<1>1. FewerRules(u)
  BY DEF FewerRules, Owned
<1> QED
  BY <1>1, FitsStays

\* What requests about rules do to the allowance of a user.
LEMMA RuleRequestsFit ==
    ASSUME IInv, RuleRequests, NEW u \in User, Fits(u)
    PROVE  Fits(u)'
<1> USE DEF accounts, targets
<1>0. Rows /\ Keys
  BY DEF IInv
<1>1. ASSUME NEW r \in Request, InsertRule(r) PROVE Fits(u)'
  <2>1. /\ UNCHANGED <<users, sub, packages, links>>
        /\ Excuse(IF rules' # rules /\ Overtaken(r) THEN {req[r].form.user} \ {None} ELSE {})
    BY <1>1 DEF InsertRule
  <2>2. CASE rules' = rules
    <3>1. \E us : Excuse(us)
      BY <2>1
    <3> QED
      BY <1>0, <2>1, <2>2, <3>1, UnchangedFits
  <2>3. ASSUME rules' # rules, NEW x \in Rule, NEW row \in RuleRow, rules[x] = None,
               rules' = [rules EXCEPT ![x] = row], row.tunnel = req[r].form.tunnel, row.user = req[r].form.user
        PROVE  Fits(u)'
    <3>1. Excuse(IF Overtaken(r) THEN {row.user} \ {None} ELSE {})
      BY <2>1, <2>3
    <3>2. /\ row.user = req[r].owner /\ Allowed(req[r]) /\ req[r].tunnel = row.tunnel /\ req[r].id = None
      BY <1>1, <2>3 DEF IInv, Requests, RequestOK, Validated, InsertRule, At
    <3> QED
      BY <2>1, <2>3, <3>1, <3>2, WrittenRuleFits
  <2> QED
    BY <1>1, <2>2, <2>3, InsertWrites
<1>2. ASSUME NEW r \in Request, UpdateRule(r) PROVE Fits(u)'
  <2>1. UNCHANGED <<users, sub, packages, links>>
    BY <1>2 DEF UpdateRule
  <2>2. CASE UNCHANGED <<targets, excused, drifted>>
    BY <1>0, <2>1, <2>2, UnchangedFits
  <2>3. ASSUME NEW x \in Rule, NEW row \in RuleRow, x = req[r].id, rules[x] # None,
               row = Patched(r, rules[x]), rules' = [rules EXCEPT ![x] = row],
               Excuse(IF Overtaken(r) THEN {row.user} \ {None} ELSE {})
        PROVE  Fits(u)'
    <3>1. ASSUME ~Overtaken(r) PROVE row.user = req[r].owner /\ Allowed(req[r]) /\ req[r].tunnel = row.tunnel
      <4>1. /\ req[r].owner = Given(req[r].form.user, req[r].saw.row[2])
            /\ req[r].tunnel = Given(req[r].form.tunnel, req[r].saw.row[1]) /\ Allowed(req[r])
        BY <1>2 DEF IInv, Requests, Validated, UpdateRule, At
      <4>2. x # None /\ rules[x] # None
        BY <2>3, AccountsAssumption
      <4>3. req[r].saw.row = <<rules[x].tunnel, rules[x].user>>
        BY <2>3, <3>1, <4>2 DEF Overtaken, Picture
      <4>4. row.user = Given(req[r].form.user, rules[x].user) /\ row.tunnel = Given(req[r].form.tunnel, rules[x].tunnel)
        BY <2>3 DEF Patched
      <4> QED
        BY <4>1, <4>3, <4>4
    <3> QED
      BY <2>1, <2>3, <3>1, WrittenRuleFits
  <2>4. \/ UNCHANGED <<targets, excused, drifted>>
        \/ \E x \in Rule, row \in RuleRow :
             /\ x = req[r].id /\ rules[x] # None /\ row = Patched(r, rules[x])
             /\ rules' = [rules EXCEPT ![x] = row]
             /\ Excuse(IF Overtaken(r) THEN {row.user} \ {None} ELSE {})
    BY <1>2, UpdateWrites
  <2> QED
    BY <2>2, <2>3, <2>4
<1>3. ASSUME NEW x \in Rule, DeleteRule(x) PROVE Fits(u)'
  <2>1. UNCHANGED <<users, sub, packages, links>> /\ Excuse({}) /\ rules' = [rules EXCEPT ![x] = None]
    BY <1>3 DEF DeleteRule, NoExcuse
  <2>2. FewerRules(u)
    BY <1>0, <2>1 DEF FewerRules, Owned, Rows
  <2> QED
    BY <1>0, <2>1, <2>2, FitsStays
<1>4. ASSUME NEW r \in Request, Resolve(r) \/ \E q : Begins(r, q) PROVE Fits(u)'
  BY <1>0, <1>4, UnchangedFits DEF Resolve, Begins
<1>5. ASSUME NEW r \in Request, NEW form, PostRule(r, form) PROVE Fits(u)'
  BY <1>4, <1>5 DEF PostRule
<1>6. ASSUME NEW r \in Request, NEW x, NEW patch, PutRule(r, x, patch) PROVE Fits(u)'
  BY <1>4, <1>6 DEF PutRule
<1> QED
  BY <1>1, <1>2, <1>3, <1>4, <1>5, <1>6 DEF RuleRequests

\* Endpoints have nothing to do with it.
LEMMA EndpointRequestsFit ==
    ASSUME IInv, EndpointRequests, NEW u \in User, Fits(u)
    PROVE  Fits(u)'
<1> USE DEF accounts, targets
<1>0. Rows /\ Keys
  BY DEF IInv
<1>1. ASSUME FewerRules(u), UNCHANGED <<users, sub, packages, links>>, excused' = excused \/ Excuse({}) PROVE Fits(u)'
  BY <1>0, <1>1, FitsStays
<1>2. ASSUME UNCHANGED rules, UNCHANGED <<users, sub, packages, links>>, excused' = excused \/ Excuse({}) PROVE Fits(u)'
  BY <1>0, <1>2, UnchangedFits
<1>3. ASSUME NEW e \in Endpoint, NEW a \in Address, PostEndpoint(e, a) PROVE Fits(u)'
  BY <1>2, <1>3 DEF PostEndpoint, NoExcuse
<1>4. ASSUME NEW r \in Request, UpdateEndpoint(r) PROVE Fits(u)'
  BY <1>2, <1>4 DEF UpdateEndpoint
<1>5. ASSUME NEW r \in Request, SyncRules(r) PROVE Fits(u)'
  <2>1. FewerRules(u)
    BY <1>0, <1>5 DEF SyncRules, FewerRules, Owned, Rows, RuleRow
  <2> QED
    BY <1>1, <1>5, <2>1 DEF SyncRules
<1>6. ASSUME NEW r \in Request, DeleteEndpoint(r) PROVE Fits(u)'
  <2>1. FewerRules(u)
    BY <1>0, <1>6 DEF DeleteEndpoint, FewerRules, Owned, Rows, RuleRow
  <2> QED
    BY <1>1, <1>6, <2>1 DEF DeleteEndpoint
<1>7. ASSUME NEW r \in Request, NEW e, NEW a, PutEndpoint(r, e, a) \/ RemoveEndpoint(r, e) PROVE Fits(u)'
  BY <1>2, <1>7 DEF PutEndpoint, RemoveEndpoint, Begins
<1> QED
  BY <1>3, <1>4, <1>5, <1>6, <1>7 DEF EndpointRequests

\* What happens to a user, and what it subscribes to, concerns that user alone.
LEMMA UserRequestsFit ==
    ASSUME IInv, UserRequests, NEW u \in User, Fits(u)
    PROVE  Fits(u)'
<1> USE DEF accounts, targets
<1>0. Rows /\ Keys /\ Rows' /\ Keys'
  BY UserRequestsRows DEF IInv
<1>1. ASSUME NEW v \in User, PostUser(v) PROVE Fits(u)'
  <2>1. /\ users[v] = None /\ sub[v] = None /\ users' = [users EXCEPT ![v] = "active"]
        /\ UNCHANGED <<sub, packages, links, rules, excused>>
    BY <1>0, <1>1 DEF PostUser, Keys
  <2>2. CASE v = u
    BY <2>1, <2>2 DEF Fits, Within
  <2>3. CASE v # u
    <3>1. users'[u] = users[u] /\ FewerRules(u)
      BY <1>0, <2>1, <2>3 DEF Rows, FewerRules, Owned
    <3> QED
      BY <1>0, <2>1, <3>1, FitsStays
  <2> QED
    BY <2>2, <2>3
<1>2. ASSUME NEW v \in User, NEW status \in {"active", "disabled"}, PutUser(v, status) PROVE Fits(u)'
  <2>1. /\ users[v] # None /\ users' = [users EXCEPT ![v] = status]
        /\ UNCHANGED <<sub, packages, links, rules, excused>>
    BY <1>2 DEF PutUser
  <2>2. (users'[u] # None => users[u] # None) /\ FewerRules(u)
    BY <1>0, <2>1 DEF Rows, FewerRules, Owned
  <2> QED
    BY <1>0, <2>1, <2>2, FitsStays
<1>3. ASSUME NEW v \in User, DeleteUser(v) PROVE Fits(u)'
  <2>1. /\ users' = [users EXCEPT ![v] = None] /\ sub' = [sub EXCEPT ![v] = None]
        /\ UNCHANGED <<packages, links>> /\ Excuse({})
        /\ rules' = [x \in Rule |-> IF rules[x] # None /\ rules[x].user = v
                                   THEN [rules[x] EXCEPT !.user = None] ELSE rules[x]]
    BY <1>3 DEF DeleteUser, NoExcuse, Owned
  <2>2. CASE v = u
    <3>1. users'[u] = None
      BY <1>0, <2>1, <2>2 DEF Rows
    <3> QED
      BY <3>1 DEF Fits, Within
  <2>3. CASE v # u
    <3>1. users'[u] = users[u] /\ sub'[u] = sub[u]
      BY <1>0, <2>1, <2>3 DEF Rows
    <3>2. u # None
      BY AccountsAssumption
    <3>3. FewerRules(u)
      BY <1>0, <2>1, <2>3, <3>2 DEF Rows, FewerRules, Owned, RuleRow
    <3> QED
      BY <1>0, <2>1, <3>1, <3>3, FitsStays
  <2> QED
    BY <2>2, <2>3
<1>4. ASSUME NEW r \in Request, UpsertSubscription(r) PROVE Fits(u)'
  <2> DEFINE v == req[r].owner
  <2>0. UNCHANGED <<users, packages, links, rules>> /\ v \in User
    BY <1>4 DEF UpsertSubscription, IInv, Requests, RequestOK, At
  <2>1. CASE UNCHANGED sub /\ UNCHANGED excused
    BY <1>0, <2>0, <2>1, UnchangedFits
  <2>2. ASSUME NEW row, sub' = [sub EXCEPT ![v] = row], Excuse({v}) PROVE Fits(u)'
    <3>1. CASE v = u
      BY <2>2, <3>1, ExcuseNames
    <3>2. CASE v # u
      <4>1. sub'[u] = sub[u] /\ FewerRules(u)
        BY <1>0, <2>0, <2>2, <3>2 DEF Rows, FewerRules, Owned
      <4> QED
        BY <1>0, <2>0, <2>2, <4>1, FitsStays
    <3> QED
      BY <3>1, <3>2
  <2> QED
    BY <1>4, <2>1, <2>2 DEF UpsertSubscription
<1>5. ASSUME NEW r \in Request, NEW v, NEW k, Subscribe(r, v, k) PROVE Fits(u)'
  BY <1>0, <1>5, UnchangedFits DEF Subscribe, Begins
<1> QED
  BY <1>1, <1>2, <1>3, <1>4, <1>5 DEF UserRequests

\* A changed package excuses its subscribers, a new or a removed one has none.
LEMMA PackageRequestsFit ==
    ASSUME IInv, PackageRequests, NEW u \in User, Fits(u)
    PROVE  Fits(u)'
<1> USE DEF accounts, targets
<1>0. Rows /\ Keys /\ (sub[u] # None => sub[u].pkg \in Package /\ packages[sub[u].pkg] # None)
  BY DEF IInv, Rows, SubRow, Keys
<1>1. FewerRules(u) \/ rules' # rules
  BY DEF FewerRules, Owned
<1>2. ASSUME NEW k \in Package, NEW plan \in Plan, PostPackage(k, plan) PROVE Fits(u)'
  <2>1. /\ packages[k] = None /\ packages' = [packages EXCEPT ![k] = plan]
        /\ UNCHANGED <<users, sub, links, rules, excused>>
    BY <1>2 DEF PostPackage
  <2>2. sub[u] # None => packages'[sub[u].pkg] = packages[sub[u].pkg]
    BY <1>0, <2>1 DEF Rows
  <2> QED
    BY <1>0, <1>1, <2>1, <2>2, FitsStays
<1>3. ASSUME NEW k \in Package, NEW plan \in Plan, PutPackage(k, plan) PROVE Fits(u)'
  <2>1. /\ packages' = [packages EXCEPT ![k] = plan]
        /\ UNCHANGED <<users, sub, links, rules>> /\ Excuse({v \in User : sub[v] # None /\ sub[v].pkg = k})
    BY <1>3 DEF PutPackage
  <2>2. CASE sub[u] # None /\ sub[u].pkg = k
    BY <2>1, <2>2, ExcuseNames
  <2>3. CASE ~(sub[u] # None /\ sub[u].pkg = k)
    <3>1. sub[u] # None => packages'[sub[u].pkg] = packages[sub[u].pkg]
      BY <1>0, <2>1, <2>3 DEF Rows
    <3> QED
      BY <1>0, <1>1, <2>1, <3>1, FitsStays
  <2> QED
    BY <2>2, <2>3
<1>4. ASSUME NEW r \in Request, DeletePackage(r) PROVE Fits(u)'
  <2>1. UNCHANGED <<users, sub, links, rules, excused>>
    BY <1>4 DEF DeletePackage
  <2>2. CASE UNCHANGED packages
    BY <1>0, <2>1, <2>2, UnchangedFits
  <2>3. CASE /\ packages' = [packages EXCEPT ![req[r].id] = None]
             /\ ~\E v \in User : sub[v] # None /\ sub[v].pkg = req[r].id
    <3>1. sub[u] # None => packages'[sub[u].pkg] = packages[sub[u].pkg]
      BY <1>0, <2>3 DEF Rows
    <3> QED
      BY <1>0, <1>1, <2>1, <3>1, FitsStays
  <2> QED
    BY <1>4, <2>2, <2>3 DEF DeletePackage
<1>5. ASSUME NEW r \in Request, NEW k, RemovePackage(r, k) PROVE Fits(u)'
  BY <1>0, <1>5, UnchangedFits DEF RemovePackage, Begins
<1> QED
  BY <1>2, <1>3, <1>4, <1>5 DEF PackageRequests

\* A link that comes into a tunnel excuses whoever owns rules there, one that goes
\* takes a node away.
LEMMA LinkRequestsFit ==
    ASSUME IInv, LinkRequests, NEW u \in User, Fits(u)
    PROVE  Fits(u)'
<1> USE DEF accounts, targets
<1>0. Rows /\ u # None
  BY AccountsAssumption DEF IInv
<1>1. ASSUME NEW l \in Link, NEW row \in LinkRow \cup {None}, WriteLink(l, row) PROVE Fits(u)'
  <2>1. /\ links' = [links EXCEPT ![l] = row] /\ UNCHANGED <<users, sub, packages, rules>>
        /\ Excuse(IF row = None THEN {} ELSE Owners(row.tunnel))
    BY <1>1 DEF WriteLink
  <2>2. CASE u \in excused
    BY <2>1, <2>2, ExcuseNames
  <2>3. CASE row # None /\ u \in Owners(row.tunnel)
    BY <2>1, <2>3, ExcuseNames
  <2>4. CASE Within(u) /\ ~(row # None /\ u \in Owners(row.tunnel))
    <3> SUFFICES ASSUME users'[u] # None, sub'[u] # None
                 PROVE  /\ PlanOf(u)'.maxRules > 0 => Cardinality(Owned(u)') <= PlanOf(u)'.maxRules
                        /\ \A x \in Owned(u)' : Grants(PlanOf(u)', rules'[x].tunnel, NodesOf'[rules'[x].tunnel])
      BY DEF Fits, Within, Grants
    <3>1. PlanOf(u)' = PlanOf(u) /\ Owned(u)' = Owned(u)
      BY <2>1 DEF PlanOf, Owned
    <3>2. /\ PlanOf(u).maxRules > 0 => Cardinality(Owned(u)) <= PlanOf(u).maxRules
          /\ \A x \in Owned(u) : Grants(PlanOf(u), rules[x].tunnel, NodesOf[rules[x].tunnel])
      BY <2>1, <2>4 DEF Within
    <3>3. ASSUME NEW x \in Owned(u) PROVE Grants(PlanOf(u), rules[x].tunnel, NodesOf'[rules[x].tunnel])
      <4> DEFINE t == rules[x].tunnel
      <4>1. x \in Rule /\ t \in Tunnel /\ rules[x] # None /\ rules[x].user = u
        BY <1>0 DEF Owned, Rows, RuleRow
      <4>2. row # None => row.tunnel # t
        BY <1>0, <2>4, <4>1 DEF Owners
      <4>3. \A k \in Link : links'[k] = IF k = l THEN row ELSE links[k]
        BY <1>0, <2>1 DEF Rows
      <4> HIDE DEF t
      <4>4. NodesOf'[t] \subseteq NodesOf[t]
        BY <4>1, <4>2, <4>3 DEF NodesOf
      <4>5. Grants(PlanOf(u), t, NodesOf[t])
        BY <3>2 DEF t
      <4>6. Grants(PlanOf(u), t, NodesOf'[t])
        BY <4>4, <4>5 DEF Grants
      <4> QED
        BY <4>6 DEF t
    <3> QED
      BY <2>1, <3>1, <3>2, <3>3
  <2> QED
    BY <2>2, <2>3, <2>4 DEF Fits
<1> QED
  BY <1>1 DEF LinkRequests, PostLink, PutLink, DeleteLink

\* For any number of users, rules, plans, links and requests under way: what a user
\* owns is within what it has bought, but for a plan that was changed around its rules,
\* a link that took its tunnel to a node outside the plan, and a rule written on a
\* validation something else has overtaken (validateRuleOwnership).
THEOREM PlansBound == Spec => []RulesWithinPlan
<1>1. RulesWithinPlan <=> \A u \in User : Fits(u)
  BY DEF RulesWithinPlan, Fits
<1>2. Init => RulesWithinPlan
  <2> SUFFICES ASSUME Init, NEW u \in User PROVE Within(u)
    BY DEF RulesWithinPlan
  <2>1. CASE rules = [x \in Rule |-> None]
    <3>1. Owned(u) = {}
      BY <2>1 DEF Owned
    <3>2. sub[u] # None => PlanOf(u).maxRules \in Nat
      BY InitIInv, PlanIsOffered DEF IInv
    <3> QED
      BY <3>1, <3>2, FS_EmptySet DEF Within
  <2>2. ASSUME NEW first \in Rule, NEW v \in User, NEW t \in Tunnel, NEW e \in Endpoint,
               sub[v] # None, Grants(PlanOf(v), t, NodesOf[t]),
               rules = [x \in Rule |-> IF x # first THEN None
                    ELSE [tunnel |-> t, user |-> v, endpoint |-> e, targets |-> endpoints[e]]]
        PROVE  Within(u)
    <3>1. Owned(u) \subseteq {first} /\ \A x \in Owned(u) : rules[x].tunnel = t /\ u = v
      BY <2>2 DEF Owned
    <3>2. sub[u] # None => PlanOf(u).maxRules \in Nat
      BY InitIInv, PlanIsOffered DEF IInv
    <3>3. Cardinality(Owned(u)) \in Nat /\ Cardinality(Owned(u)) <= 1
      <4>1. IsFiniteSet({first}) /\ Cardinality({first}) = 1
        BY FS_Singleton
      <4>2. IsFiniteSet(Owned(u)) /\ Cardinality(Owned(u)) <= Cardinality({first})
        BY <3>1, <4>1, FS_Subset
      <4> QED
        BY <4>1, <4>2, FS_CardinalityType
    <3>4. \A x \in Owned(u) : Grants(PlanOf(u), rules[x].tunnel, NodesOf[rules[x].tunnel])
      BY <2>2, <3>1
    <3> QED
      BY <3>2, <3>3, <3>4 DEF Within
  <2> QED
    BY <2>1, <2>2 DEF Init
<1>3. IInv /\ RulesWithinPlan /\ [Next]_vars => RulesWithinPlan'
  <2> SUFFICES ASSUME IInv, RulesWithinPlan, [Next]_vars, NEW u \in User PROVE Fits(u)'
    BY DEF RulesWithinPlan, Fits
  <2>1. Fits(u) /\ Rows /\ Keys
    BY <1>1 DEF IInv
  <2>2. CASE \/ \E x \in Rule, h \in Hour : Bill(x, h)
             \/ \E r \in Request : Die(r)
             \/ Tick
             \/ UNCHANGED vars
    <3>1. UNCHANGED <<users, sub, packages, links, rules, excused>>
      BY <2>2 DEF Bill, Die, Tick, vars, accounts, targets
    <3> QED
      BY <2>1, <3>1, UnchangedFits
  <2> QED
    BY <2>1, <2>2, RuleRequestsFit, EndpointRequestsFit, UserRequestsFit, PackageRequestsFit, LinkRequestsFit DEF Next
<1> QED
  BY <1>2, <1>3, InitIInv, NextIInv, PTL DEF Spec

-----------------------------------------------------------------------------
(* Sums over sets (MapThenSumSet).  They are defined by taking one element *)
(* after the other, whichever CHOOSE picks; a sum is a function of the     *)
(* subsets of the pairs of a rule and an hour.                             *)

\* A set of numbers with 0 and with the successor of each is that of all.
LEMMA Naturals ==
    ASSUME NEW S \in SUBSET Nat, 0 \in S, \A n \in S : n + 1 \in S
    PROVE  S = Nat
<1> SUFFICES ASSUME Nat \ S # {} PROVE FALSE
  OBVIOUS
<1> DEFINE R == OpToRel(<, Nat)
           T == Nat \ S
<1>1. IsWellFoundedOn(R, Nat)
  BY NatLessThanWellFounded
<1>2. PICK m \in T : \A y \in T : ~(<<y, m>> \in R)
  <2> T \subseteq Nat /\ T # {}
    OBVIOUS
  <2> HIDE DEF R, T
  <2> QED
    BY <1>1, WFMin
<1>3. m \in Nat /\ m # 0 /\ m \notin S
  OBVIOUS
<1>4. m - 1 \in Nat /\ m - 1 < m /\ (m - 1) + 1 = m
  BY <1>3
<1>5. <<m - 1, m>> \in R
  BY <1>3, <1>4 DEF OpToRel
<1>6. m - 1 \in S
  <2> HIDE DEF R
  <2> QED
    BY <1>2, <1>4, <1>5
<1> QED
  BY <1>3, <1>4, <1>6

\* A family of subsets of a finite set with the empty one, and with every other
\* that is in it without one of its elements, is that of all.
LEMMA Subsets ==
    ASSUME NEW D, IsFiniteSet(D), NEW C \in SUBSET (SUBSET D), {} \in C,
           \A s \in SUBSET D : s # {} /\ (\A y \in s : s \ {y} \in C) => s \in C
    PROVE  C = SUBSET D
<1> DEFINE N == {n \in Nat : \A s \in SUBSET D : Cardinality(s) = n => s \in C}
<1>1. \A s \in SUBSET D : IsFiniteSet(s) /\ Cardinality(s) \in Nat
  BY FS_Subset, FS_CardinalityType
<1>2. 0 \in N
  BY <1>1, FS_EmptySet
<1>3. ASSUME NEW n \in N PROVE n + 1 \in N
  <2> SUFFICES ASSUME NEW s \in SUBSET D, Cardinality(s) = n + 1 PROVE s \in C
    OBVIOUS
  <2>1. s # {}
    BY FS_EmptySet
  <2>2. ASSUME NEW y \in s PROVE s \ {y} \in C
    <3>1. Cardinality(s \ {y}) = n
      BY <1>1, FS_RemoveElement
    <3> QED
      BY <3>1
  <2> QED
    BY <2>1, <2>2
<1>4. N = Nat
  <2> N \in SUBSET Nat
    OBVIOUS
  <2> HIDE DEF N
  <2> QED
    BY <1>2, <1>3, Naturals
<1> QED
  BY <1>1, <1>4

\* The sum over every subset of D of the weights its elements have.
IsSum(h, D, w) ==
    /\ h \in [SUBSET D -> Nat]
    /\ h[{}] = 0
    /\ \A s \in SUBSET D : \A y \in s : h[s] = w[y] + h[s \ {y}]

\* What taking one element after the other computes.
Counts(h, D, w) ==
    h = [s \in SUBSET D |-> IF s = {} THEN 0
                            ELSE w[CHOOSE x \in s : TRUE] + h[s \ {CHOOSE x \in s : TRUE}]]

\* There is such a function: it is built up from the smaller subsets.
LEMMA CountsExists ==
    ASSUME NEW D, IsFiniteSet(D), NEW w \in [D -> Nat]
    PROVE  \E h : Counts(h, D, w)
<1> DEFINE Small(n) == {s \in SUBSET D : Cardinality(s) <= n}
           Body(h, s) == IF s = {} THEN 0 ELSE w[CHOOSE x \in s : TRUE] + h[s \ {CHOOSE x \in s : TRUE}]
           N == {n \in Nat : \E h : h = [s \in Small(n) |-> Body(h, s)]}
<1>1. \A s \in SUBSET D : IsFiniteSet(s) /\ Cardinality(s) \in Nat /\ (Cardinality(s) = 0 <=> s = {})
  BY FS_Subset, FS_CardinalityType, FS_EmptySet
<1>2. \A s \in SUBSET D : s # {} =>
         s \ {CHOOSE x \in s : TRUE} \in SUBSET D /\ Cardinality(s \ {CHOOSE x \in s : TRUE}) = Cardinality(s) - 1
  BY <1>1, FS_RemoveElement
<1>3. 0 \in N
  <2> DEFINE h == [s \in Small(0) |-> 0]
  <2>1. \A s \in Small(0) : Body(h, s) = 0
    BY <1>1
  <2>2. h = [s \in Small(0) |-> Body(h, s)]
    BY <2>1
  <2> HIDE DEF h, Body, Small
  <2> QED
    BY <2>2
<1>4. ASSUME NEW n \in N PROVE n + 1 \in N
  <2>1. PICK h : h = [s \in Small(n) |-> Body(h, s)]
    OBVIOUS
  <2> DEFINE g == [s \in Small(n + 1) |-> Body(h, s)]
  <2>2. \A s \in Small(n + 1) : s # {} => s \ {CHOOSE x \in s : TRUE} \in Small(n)
    BY <1>1, <1>2
  <2>3. \A s \in Small(n) : s \in Small(n + 1) /\ g[s] = h[s]
    <3>1. \A s \in Small(n) : s \in Small(n + 1)
      BY <1>1
    <3>2. \A s \in Small(n) : h[s] = Body(h, s)
      BY <2>1
    <3> HIDE DEF Body, Small
    <3> QED
      BY <3>1, <3>2
  <2>4. \A s \in Small(n + 1) : Body(g, s) = Body(h, s)
    <3>1. ASSUME NEW s \in Small(n + 1), s # {}
          PROVE  g[s \ {CHOOSE x \in s : TRUE}] = h[s \ {CHOOSE x \in s : TRUE}]
      <4> HIDE DEF g, Body, Small
      <4> QED
        BY <2>2, <2>3, <3>1
    <3>2. ASSUME NEW s \in Small(n + 1) PROVE Body(g, s) = Body(h, s)
      <4> HIDE DEF g, Small
      <4> QED
        BY <3>1, <3>2
    <3> HIDE DEF g, Body, Small
    <3> QED
      BY <3>2
  <2>5. g = [s \in Small(n + 1) |-> Body(g, s)]
    <3> DEFINE k == [s \in Small(n + 1) |-> Body(g, s)]
    <3>1. g = k
      <4> HIDE DEF Body, Small
      <4> QED
        BY <2>4
    <3> QED
      BY <3>1
  <2> HIDE DEF g, Body, Small
  <2> QED
    BY <2>5
<1>5. N = Nat
  <2> N \in SUBSET Nat
    OBVIOUS
  <2> HIDE DEF N
  <2> QED
    BY <1>3, <1>4, Naturals
<1>6. Cardinality(D) \in N /\ Small(Cardinality(D)) = SUBSET D
  <2>1. \A s \in SUBSET D : Cardinality(s) <= Cardinality(D)
    BY FS_Subset
  <2> QED
    BY <1>1, <1>5, <2>1
<1> QED
  BY <1>6 DEF Counts

\* It does not matter which element goes first.
LEMMA CountsIsSum ==
    ASSUME NEW D, IsFiniteSet(D), NEW w \in [D -> Nat], NEW h, Counts(h, D, w)
    PROVE  IsSum(h, D, w)
<1>1. /\ h[{}] = 0
      /\ \A s \in SUBSET D : s # {} => \E x \in s : h[s] = w[x] + h[s \ {x}]
  <2>1. \A s \in SUBSET D : h[s] = IF s = {} THEN 0
                            ELSE w[CHOOSE x \in s : TRUE] + h[s \ {CHOOSE x \in s : TRUE}]
    BY DEF Counts
  <2>2. ASSUME NEW s \in SUBSET D, s # {} PROVE \E x \in s : h[s] = w[x] + h[s \ {x}]
    <3>1. (CHOOSE x \in s : TRUE) \in s
      BY <2>2
    <3> QED
      BY <2>1, <2>2, <3>1
  <2> QED
    BY <2>1, <2>2
<1>2. {s \in SUBSET D : h[s] \in Nat} = SUBSET D
  <2> DEFINE C == {s \in SUBSET D : h[s] \in Nat}
  <2>1. {} \in C
    BY <1>1
  <2>2. ASSUME NEW s \in SUBSET D, s # {}, \A y \in s : s \ {y} \in C PROVE s \in C
    <3>1. PICK x \in s : h[s] = w[x] + h[s \ {x}]
      BY <1>1, <2>2
    <3>2. w[x] \in Nat /\ h[s \ {x}] \in Nat
      BY <2>2
    <3> QED
      BY <3>1, <3>2
  <2>3. C \in SUBSET (SUBSET D)
    OBVIOUS
  <2> HIDE DEF C
  <2>4. C = SUBSET D
    BY <2>1, <2>2, <2>3, Subsets
  <2> QED
    BY <2>4 DEF C
<1>3. h \in [SUBSET D -> Nat]
  BY <1>2 DEF Counts
<1>4. {s \in SUBSET D : \A y \in s : h[s] = w[y] + h[s \ {y}]} = SUBSET D
  <2> DEFINE C == {s \in SUBSET D : \A y \in s : h[s] = w[y] + h[s \ {y}]}
  <2>1. {} \in C
    OBVIOUS
  <2>2. ASSUME NEW s \in SUBSET D, s # {}, \A y \in s : s \ {y} \in C PROVE s \in C
    <3> SUFFICES ASSUME NEW y \in s PROVE h[s] = w[y] + h[s \ {y}]
      OBVIOUS
    <3>1. PICK x \in s : h[s] = w[x] + h[s \ {x}]
      BY <1>1, <2>2
    <3>2. CASE x = y
      BY <3>1, <3>2
    <3>3. CASE x # y
      <4>1. s \ {x} \in C /\ y \in s \ {x} /\ s \ {y} \in C /\ x \in s \ {y}
        BY <2>2, <3>3
      <4>2. /\ h[s \ {x}] = w[y] + h[(s \ {x}) \ {y}]
            /\ h[s \ {y}] = w[x] + h[(s \ {y}) \ {x}]
        BY <4>1
      <4>3. (s \ {x}) \ {y} = (s \ {y}) \ {x} /\ (s \ {x}) \ {y} \in SUBSET D
        OBVIOUS
      <4>4. w[x] \in Nat /\ w[y] \in Nat /\ h[(s \ {x}) \ {y}] \in Nat
        BY <1>3, <4>3
      <4> QED
        BY <3>1, <4>2, <4>3, <4>4
    <3> QED
      BY <3>2, <3>3
  <2>3. C \in SUBSET (SUBSET D)
    OBVIOUS
  <2> HIDE DEF C
  <2>4. C = SUBSET D
    BY <2>1, <2>2, <2>3, Subsets
  <2> QED
    BY <2>4 DEF C
<1> QED
  BY <1>1, <1>3, <1>4 DEF IsSum

\* Two sums of the same weights are the same where both are defined.
LEMMA SumsAgree ==
    ASSUME NEW D, IsFiniteSet(D), NEW E, NEW w, NEW v, NEW h, NEW k, IsSum(h, D, w), IsSum(k, E, v),
           NEW S, S \in SUBSET D, S \in SUBSET E, \A y \in S : v[y] = w[y]
    PROVE  h[S] = k[S]
<1> DEFINE C == {s \in SUBSET S : h[s] = k[s]}
<1>1. IsFiniteSet(S)
  BY FS_Subset
<1>2. {} \in C
  BY DEF IsSum
<1>3. ASSUME NEW s \in SUBSET S, s # {}, \A y \in s : s \ {y} \in C PROVE s \in C
  <2>1. PICK y \in s : TRUE
    BY <1>3
  <2>2. h[s \ {y}] = k[s \ {y}] /\ v[y] = w[y] /\ s \in SUBSET D /\ s \in SUBSET E
    BY <1>3
  <2>3. h[s] = w[y] + h[s \ {y}] /\ k[s] = v[y] + k[s \ {y}]
    BY <2>2 DEF IsSum
  <2> QED
    BY <2>2, <2>3
<1>4. C \in SUBSET (SUBSET S)
  OBVIOUS
<1> HIDE DEF C
<1>5. C = SUBSET S
  BY <1>1, <1>2, <1>3, <1>4, Subsets
<1> QED
  BY <1>5 DEF C

\* The sum over two sets that have nothing in common.
LEMMA SumOfBoth ==
    ASSUME NEW D, IsFiniteSet(D), NEW w \in [D -> Nat], NEW h, IsSum(h, D, w),
           NEW S \in SUBSET D, NEW T \in SUBSET D, S \cap T = {}
    PROVE  h[S \cup T] = h[S] + h[T] /\ h[S] \in Nat /\ h[T] \in Nat
<1> DEFINE C == {s \in SUBSET T : h[S \cup s] = h[S] + h[s]}
<1>1. IsFiniteSet(T)
  BY FS_Subset
<1>2. \A s \in SUBSET D : h[s] \in Nat
  BY DEF IsSum
<1>3. {} \in C
  <2>1. S \cup {} = S
    OBVIOUS
  <2> QED
    BY <1>2, <2>1 DEF IsSum
<1>4. ASSUME NEW s \in SUBSET T, s # {}, \A y \in s : s \ {y} \in C PROVE s \in C
  <2>1. PICK y \in s : TRUE
    BY <1>4
  <2>2. h[S \cup (s \ {y})] = h[S] + h[s \ {y}]
    BY <1>4
  <2>3. (S \cup s) \ {y} = S \cup (s \ {y}) /\ S \cup s \in SUBSET D /\ s \in SUBSET D
    OBVIOUS
  <2>4. h[S \cup s] = w[y] + h[S \cup (s \ {y})] /\ h[s] = w[y] + h[s \ {y}]
    <3>1. h[S \cup s] = w[y] + h[(S \cup s) \ {y}] /\ h[s] = w[y] + h[s \ {y}]
      BY <2>3 DEF IsSum
    <3> QED
      BY <2>3, <3>1
  <2>5. h[S] \in Nat /\ h[s \ {y}] \in Nat /\ w[y] \in Nat
    BY <1>2
  <2>6. h[S \cup s] = h[S] + h[s]
    BY <2>2, <2>4, <2>5
  <2> QED
    BY <2>6
<1>5. C \in SUBSET (SUBSET T)
  OBVIOUS
<1> HIDE DEF C
<1>6. C = SUBSET T
  BY <1>1, <1>3, <1>4, <1>5, Subsets
<1> QED
  BY <1>2, <1>6 DEF C

\* The sum over a set is that over a part of it and that over the rest.
LEMMA SumOfRest ==
    ASSUME NEW D, IsFiniteSet(D), NEW w \in [D -> Nat], NEW h, IsSum(h, D, w),
           NEW T \in SUBSET D, NEW S \in SUBSET T
    PROVE  h[T] = h[S] + h[T \ S] /\ h[S] \in Nat /\ h[T \ S] \in Nat
<1>1. S \cup (T \ S) = T /\ S \cap (T \ S) = {} /\ S \in SUBSET D /\ T \ S \in SUBSET D
  OBVIOUS
<1>2. h[S \cup (T \ S)] = h[S] + h[T \ S] /\ h[S] \in Nat /\ h[T \ S] \in Nat
  BY <1>1, SumOfBoth
<1> QED
  BY <1>1, <1>2

\* What comes to nothing may as well be left out.
LEMMA SumWithout ==
    ASSUME NEW D, IsFiniteSet(D), NEW w \in [D -> Nat], NEW h, IsSum(h, D, w),
           NEW Z \in SUBSET D, h[Z] = 0, NEW M \in SUBSET D
    PROVE  h[M] = h[M \ Z]
<1> DEFINE B == M \cap Z
<1>1. B \in SUBSET Z /\ B \in SUBSET M /\ M \ B = M \ Z
  OBVIOUS
<1> HIDE DEF B
<1>2. h[B] = 0
  <2>1. h[Z] = h[B] + h[Z \ B] /\ h[B] \in Nat /\ h[Z \ B] \in Nat
    BY <1>1, SumOfRest
  <2> QED
    BY <2>1
<1>3. h[M] = h[B] + h[M \ B] /\ h[B] \in Nat /\ h[M \ B] \in Nat
  BY <1>1, SumOfRest
<1> QED
  BY <1>1, <1>2, <1>3

\* The sum of nothing but zeros.
LEMMA SumOfZeros ==
    ASSUME NEW D, IsFiniteSet(D), NEW w, NEW h, IsSum(h, D, w),
           NEW S \in SUBSET D, \A y \in S : w[y] = 0
    PROVE  h[S] = 0
<1> DEFINE z == [s \in SUBSET S |-> 0]
<1>1. IsSum(z, S, [y \in S |-> 0])
  BY DEF IsSum
<1>2. z[S] = 0 /\ \A y \in S : [t \in S |-> 0][y] = w[y]
  OBVIOUS
<1> HIDE DEF z
<1>3. h[S] = z[S]
  BY <1>1, <1>2, SumsAgree
<1> QED
  BY <1>2, <1>3

\* One more of one of the weights makes one more of the sum.
LEMMA SumOfOneMore ==
    ASSUME NEW D, IsFiniteSet(D), NEW w \in [D -> Nat], NEW v, NEW h, NEW k, IsSum(h, D, w), IsSum(k, D, v),
           NEW S \in SUBSET D, NEW y \in S, v[y] = w[y] + 1, \A x \in S \ {y} : v[x] = w[x]
    PROVE  k[S] = h[S] + 1
<1>1. h[S] = w[y] + h[S \ {y}] /\ k[S] = v[y] + k[S \ {y}]
  BY DEF IsSum
<1>2. S \ {y} \in SUBSET D
  OBVIOUS
<1>3. h[S \ {y}] = k[S \ {y}]
  BY <1>2, SumsAgree
<1>4. w[y] \in Nat /\ h[S \ {y}] \in Nat
  BY <1>2 DEF IsSum
<1> QED
  BY <1>1, <1>3, <1>4

-----------------------------------------------------------------------------
(* What was billed to rules in some hours.                                 *)

\* The pairs of a rule and an hour, and what the ledger has for each.
Entry == Rule \X Hour
Weights == [p \in Entry |-> ledger[p[1]][p[2]]]

\* The ledger and what is kept about it.
Meters ==
    /\ clock \in 0 .. MaxTime
    /\ ledger \in [Rule -> [Hour -> Nat]]
    /\ consumed \in [User -> Nat]
    /\ carried \in [User -> Nat]

LEMMA Entries == IsFiniteSet(Entry)
<1>1. MaxTime \in Nat
  BY AccountsAssumption
<1>2. HourOf(MaxTime) \in Int
  BY <1>1 DEF HourOf
<1>3. IsFiniteSet(Hour)
  BY <1>2, FS_Interval DEF Hour
<1> QED
  BY <1>3, AccountsAssumption, FS_Product DEF Entry

LEMMA WeightsType ==
    ASSUME Meters
    PROVE  Weights \in [Entry -> Nat]
BY DEF Meters, Weights, Entry

\* What MapThenSumSet makes of the ledger l, for the entries in S.
Takes(f, S, l) ==
    f = [s \in SUBSET S |-> IF s = {} THEN 0
            ELSE l[(CHOOSE x \in s : TRUE)[1]][(CHOOSE x \in s : TRUE)[2]] + f[s \ {CHOOSE x \in s : TRUE}]]

\* It is a sum.  (k is the function that is chosen to be that, if there is one.)
LEMMA LedgerSum ==
    ASSUME Meters, NEW h, IsSum(h, Entry, Weights),
           NEW S \in SUBSET Entry, NEW k, (\E f : Takes(f, S, ledger)) => Takes(k, S, ledger)
    PROVE  k[S] = h[S] /\ k[S] \in Nat
<1> DEFINE w == [p \in S |-> ledger[p[1]][p[2]]]
<1>1. w \in [S -> Nat] /\ \A p \in S : w[p] = Weights[p]
  BY DEF Meters, Weights, Entry
<1>2. IsFiniteSet(S)
  BY Entries, FS_Subset
<1>3. PICK g : Counts(g, S, w)
  <2> HIDE DEF w
  <2> QED
    BY <1>1, <1>2, CountsExists
<1>4. ASSUME NEW s \in SUBSET S, s # {}
      PROVE  w[CHOOSE x \in s : TRUE] = ledger[(CHOOSE x \in s : TRUE)[1]][(CHOOSE x \in s : TRUE)[2]]
  <2>1. (CHOOSE x \in s : TRUE) \in S
    BY <1>4
  <2> QED
    BY <2>1
<1>5. \A f : Counts(f, S, w) <=> Takes(f, S, ledger)
  <2> HIDE DEF w
  <2> QED
    BY <1>4 DEF Counts, Takes
<1> HIDE DEF w
<1>6. IsSum(k, S, w)
  BY <1>1, <1>2, <1>3, <1>5, CountsIsSum
<1>7. S \in SUBSET S
  OBVIOUS
<1>8. k[S] \in Nat
  BY <1>6, <1>7 DEF IsSum
<1>9. k[S] = h[S]
  BY <1>1, <1>2, <1>6, <1>7, SumsAgree
<1> QED
  BY <1>8, <1>9

\* What is billed to the rules a user owns, in the hours that count.
Meter(u) == Owned(u) \X Window(sub[u].since)

\* There is a sum of what the ledger has, and the usage of a user is one of it.
UsageSums ==
    Meters => /\ Weights \in [Entry -> Nat]
              /\ \E h : IsSum(h, Entry, Weights)
              /\ \A h : IsSum(h, Entry, Weights) =>
                   /\ \A u \in User : Meter(u) \in SUBSET Entry /\ UsageBytes(u) = h[Meter(u)]
                   /\ \A x \in Rule : Bytes({x}, Hour) = h[{x} \X Hour] /\ Bytes({x}, Hour) \in Nat

LEMMA UsageIsSum == UsageSums
<1> SUFFICES ASSUME Meters
             PROVE  /\ Weights \in [Entry -> Nat]
                    /\ \E h : IsSum(h, Entry, Weights)
                    /\ \A h : IsSum(h, Entry, Weights) =>
                         /\ \A u \in User : Meter(u) \in SUBSET Entry /\ UsageBytes(u) = h[Meter(u)]
                         /\ \A x \in Rule : Bytes({x}, Hour) = h[{x} \X Hour] /\ Bytes({x}, Hour) \in Nat
  BY DEF UsageSums
<1>1. Weights \in [Entry -> Nat] /\ IsFiniteSet(Entry)
  BY WeightsType, Entries
<1>2. \E h : IsSum(h, Entry, Weights)
  BY <1>1, CountsExists, CountsIsSum
<1>3. ASSUME NEW h, IsSum(h, Entry, Weights)
      PROVE  /\ \A u \in User : Meter(u) \in SUBSET Entry /\ UsageBytes(u) = h[Meter(u)]
             /\ \A x \in Rule : Bytes({x}, Hour) = h[{x} \X Hour] /\ Bytes({x}, Hour) \in Nat
  <2>1. ASSUME NEW u \in User PROVE Meter(u) \in SUBSET Entry /\ UsageBytes(u) = h[Meter(u)]
    <3> DEFINE S == Owned(u) \X Window(sub[u].since)
               k == CHOOSE k : k = [s \in SUBSET S |-> IF s = {} THEN 0
                        ELSE ledger[(CHOOSE x \in s : TRUE)[1]][(CHOOSE x \in s : TRUE)[2]]
                             + k[s \ {CHOOSE x \in s : TRUE}]]
    <3>1. UsageBytes(u) = k[S]
      BY DEF UsageBytes, Bytes, MapThenSumSet, MapThenFoldSet
    <3>2. S \in SUBSET Entry /\ S = Meter(u)
      BY DEF Entry, Owned, Window, Meter
    <3>3. (\E f : Takes(f, S, ledger)) => Takes(k, S, ledger)
      <4> HIDE DEF S
      <4> QED
        BY Zenon DEF Takes
    <3> HIDE DEF S, k
    <3>4. k[S] = h[S]
      BY <1>3, <3>2, <3>3, LedgerSum
    <3> QED
      BY <3>1, <3>2, <3>4
  <2>2. ASSUME NEW x \in Rule PROVE Bytes({x}, Hour) = h[{x} \X Hour] /\ Bytes({x}, Hour) \in Nat
    <3> DEFINE S == {x} \X Hour
               k == CHOOSE k : k = [s \in SUBSET S |-> IF s = {} THEN 0
                        ELSE ledger[(CHOOSE y \in s : TRUE)[1]][(CHOOSE y \in s : TRUE)[2]]
                             + k[s \ {CHOOSE y \in s : TRUE}]]
    <3>1. Bytes({x}, Hour) = k[S]
      BY DEF Bytes, MapThenSumSet, MapThenFoldSet
    <3>2. S \in SUBSET Entry
      BY DEF Entry
    <3>3. (\E f : Takes(f, S, ledger)) => Takes(k, S, ledger)
      <4> HIDE DEF S
      <4> QED
        BY Zenon DEF Takes
    <3> HIDE DEF S, k
    <3>4. k[S] = h[S] /\ k[S] \in Nat
      BY <1>3, <3>2, <3>3, LedgerSum
    <3> QED
      BY <3>1, <3>4 DEF S
  <2> QED
    BY <2>1, <2>2
<1> QED
  BY <1>1, <1>2, <1>3

\* So it is in the next state.
LEMMA UsageIsSumNext == UsageSums'
BY UsageIsSum, PTL

-----------------------------------------------------------------------------
(* What is counted is what was billed.                                     *)

\* Nothing is billed ahead of the clock, and no subscription begins ahead of it.
Timely ==
    /\ \A x \in Rule, h \in Hour : h > HourOf(clock) => ledger[x][h] = 0
    /\ \A u \in User : sub[u] # None => sub[u].since <= clock

\* The usage of u is what was billed to it since it subscribed, and in the part of
\* that hour before; but for rules with traffic that have come or gone.
Accounted(u) == sub[u] # None /\ u \notin moved => UsageBytes(u) = consumed[u] + carried[u]

Metered == Meters /\ Timely /\ \A u \in User : Accounted(u)

\* Of what this depends on, a step has touched no more than who owns which rule.
Unmetered == UNCHANGED <<clock, sub, ledger, consumed, carried>> /\ moved \subseteq moved'

LEMMA UnmeteredMeters ==
    ASSUME Meters, Timely, Unmetered
    PROVE  Meters' /\ Timely'
BY DEF Meters, Timely, Unmetered

\* Nothing has changed for u, which owns the rules it did.
LEMMA SameUsage ==
    ASSUME Metered, Meters', ledger' = ledger, NEW u \in User, Owned(u)' = Owned(u),
           sub'[u] = sub[u], consumed'[u] = consumed[u], carried'[u] = carried[u],
           u \in moved => u \in moved'
    PROVE  Accounted(u)'
<1>1. Weights' = Weights /\ Meter(u)' = Meter(u)
  BY DEF Weights, Meter, Window
<1>2. PICK h : IsSum(h, Entry, Weights)
  BY UsageIsSum DEF UsageSums, Metered
<1>3. UsageBytes(u) = h[Meter(u)]
  BY <1>2, UsageIsSum DEF UsageSums, Metered
<1>4. UsageBytes(u)' = h[Meter(u)']
  BY <1>1, <1>2, UsageIsSumNext DEF UsageSums
<1>5. UsageBytes(u)' = UsageBytes(u)
  BY <1>1, <1>3, <1>4
<1> QED
  BY <1>5 DEF Metered, Accounted

\* u owns the rules it did.
LEMMA SameRules ==
    ASSUME Metered, Unmetered, NEW u \in User, Owned(u)' = Owned(u)
    PROVE  Accounted(u)'
<1>1. /\ Meters' /\ ledger' = ledger /\ sub'[u] = sub[u] /\ consumed'[u] = consumed[u]
      /\ carried'[u] = carried[u] /\ (u \in moved => u \in moved')
  BY UnmeteredMeters DEF Metered, Unmetered
<1> QED
  BY <1>1, SameUsage

\* It has won or lost a rule without any traffic.
LEMMA IdleRuleMoves ==
    ASSUME Metered, Unmetered, NEW u \in User, NEW x \in Rule, Bytes({x}, Hour) = 0,
           Owned(u)' \cup {x} = Owned(u) \cup {x}
    PROVE  Accounted(u)'
<1> DEFINE M == Meter(u)
           N == Meter(u)'
           Z == {x} \X Hour
<1>1. Meters /\ Meters' /\ Weights' = Weights /\ Weights \in [Entry -> Nat] /\ IsFiniteSet(Entry)
  BY UnmeteredMeters, WeightsType, Entries DEF Metered, Unmetered, Weights
<1>2. PICK h : IsSum(h, Entry, Weights)
  BY <1>1, UsageIsSum DEF UsageSums
<1>3. M \in SUBSET Entry /\ UsageBytes(u) = h[M] /\ Bytes({x}, Hour) = h[Z]
  BY <1>1, <1>2, UsageIsSum DEF UsageSums
<1>4. N \in SUBSET Entry /\ UsageBytes(u)' = h[N]
  BY <1>1, <1>2, UsageIsSumNext DEF UsageSums
<1>5. Z \in SUBSET Entry
  BY DEF Entry
<1>6. M \ Z = N \ Z
  <2>1. Window(sub[u].since)' = Window(sub[u].since)
    BY DEF Unmetered, Window
  <2> DEFINE O == Owned(u)
             P == Owned(u)'
             W == Window(sub[u].since)
  <2>2. M = O \X W /\ N = P \X W /\ P \cup {x} = O \cup {x} /\ W \in SUBSET Hour
    BY <2>1 DEF Meter, Window
  <2> HIDE DEF M, N, O, P, W
  <2> QED
    BY <2>2
<1> HIDE DEF M, N, Z
<1>7. ASSUME NEW S \in SUBSET Entry PROVE h[S] = h[S \ Z]
  BY <1>1, <1>2, <1>3, <1>5, SumWithout
<1>8. h[M] = h[N]
  BY <1>3, <1>4, <1>6, <1>7
<1> QED
  BY <1>3, <1>4, <1>8 DEF Metered, Accounted, Unmetered

\* One row is written: whoever owned the rule, and whoever owns it now, has moved
\* unless it is the same or there was no traffic.
LEMMA RowMoves ==
    ASSUME Rows, Metered, Unmetered, NEW u \in User, NEW x \in Rule, NEW row \in RuleRow \cup {None},
           rules' = [rules EXCEPT ![x] = row],
           \/ Bytes({x}, Hour) = 0
           \/ rules[x] # None /\ row # None /\ row.user = rules[x].user
           \/ {y \in User : (row # None /\ row.user = y) \/ (rules[x] # None /\ rules[x].user = y)} \subseteq moved'
    PROVE  Accounted(u)'
<1>1. \A y \in Rule : rules'[y] = IF y = x THEN row ELSE rules[y]
  BY DEF Rows
<1>2. CASE Bytes({x}, Hour) = 0
  <2>1. Owned(u)' \cup {x} = Owned(u) \cup {x}
    BY <1>1 DEF Owned
  <2> QED
    BY <1>2, <2>1, IdleRuleMoves
<1>3. CASE rules[x] # None /\ row # None /\ row.user = rules[x].user
  <2>1. Owned(u)' = Owned(u)
    BY <1>1, <1>3 DEF Owned
  <2> QED
    BY <2>1, SameRules
<1>4. CASE {y \in User : (row # None /\ row.user = y) \/ (rules[x] # None /\ rules[x].user = y)} \subseteq moved'
  <2>1. CASE u \in moved'
    BY <2>1 DEF Accounted
  <2>2. CASE u \notin moved'
    <3>1. Owned(u)' = Owned(u)
      BY <1>1, <1>4, <2>2 DEF Owned
    <3> QED
      BY <3>1, SameRules
  <2> QED
    BY <2>1, <2>2
<1> QED
  BY <1>2, <1>3, <1>4

\* Requests about rules.
LEMMA RuleRequestsMetered ==
    ASSUME IInv, Metered, RuleRequests
    PROVE  Metered'
<1> USE DEF accounts, targets, usage
<1>0. Rows
  BY DEF IInv
<1>1. ASSUME NEW r \in Request, InsertRule(r) PROVE Metered'
  <2>1. Unmetered
    BY <1>1 DEF InsertRule, Unmetered
  <2>2. CASE rules' = rules
    <3>1. \A u \in User : Accounted(u)'
      BY <2>1, <2>2, SameRules DEF Owned
    <3> QED
      BY <2>1, <3>1, UnmeteredMeters DEF Metered
  <2>3. CASE rules' # rules
    <3>1. req[r].form \in RuleRow /\ (req[r].form.endpoint # None => req[r].address \in Address)
      BY <1>1 DEF IInv, Requests, RequestOK, InsertRule, At, RuleForm
    <3> DEFINE row == [req[r].form EXCEPT !.targets = IF req[r].form.endpoint = None THEN @ ELSE req[r].address]
    <3>2. row \in RuleRow
      BY <3>1 DEF RuleRow
    <3>3. PICK x \in Rule : Bytes({x}, Hour) = 0 /\ rules' = [rules EXCEPT ![x] = row]
      BY <1>1, <2>3 DEF InsertRule
    <3> HIDE DEF row
    <3>4. \A u \in User : Accounted(u)'
      BY <1>0, <2>1, <3>2, <3>3, RowMoves
    <3> QED
      BY <2>1, <3>4, UnmeteredMeters DEF Metered
  <2> QED
    BY <2>2, <2>3
<1>2. ASSUME NEW r \in Request, UpdateRule(r) PROVE Metered'
  <2> DEFINE x == req[r].id
             row == Patched(r, rules[x])
  <2>1. UNCHANGED <<clock, sub, ledger, consumed, carried>>
    BY <1>2 DEF UpdateRule
  <2>2. CASE UNCHANGED <<rules, moved>>
    <3>1. Unmetered
      BY <2>1, <2>2 DEF Unmetered
    <3>2. \A u \in User : Accounted(u)'
      BY <2>2, <3>1, SameRules DEF Owned
    <3> QED
      BY <3>1, <3>2, UnmeteredMeters DEF Metered
  <2>3. CASE ~UNCHANGED <<rules, moved>>
    <3>1. /\ rules[x] # None /\ rules' = [rules EXCEPT ![x] = row]
          /\ IF row.user # rules[x].user THEN Transfer(x, {row.user, rules[x].user}) ELSE UNCHANGED moved
      BY <1>2, <2>3 DEF UpdateRule
    <3>2. /\ RequestOK(req[r]) /\ x \in Rule /\ req[r].form \in PatchForm
          /\ (req[r].op = "edit") /\ (req[r].step = "write")
          /\ (req[r].endpoint # None => req[r].address \in Address)
      BY <1>2 DEF IInv, Requests, RequestOK, UpdateRule, At
    <3>3. rules[x] \in RuleRow
      BY <1>0, <3>1, <3>2 DEF Rows
    <3>4. row \in RuleRow
      BY <3>2, <3>3, PatchTypes DEF Patched, RuleRow
    <3> HIDE DEF row
    <3>5. PICK z \in Rule : z = x
      BY <3>2
    <3>6. CASE row.user = rules[z].user
      <4>1. Unmetered
        BY <2>1, <3>1, <3>5, <3>6 DEF Unmetered
      <4>2. rules[z] # None /\ row # None /\ rules' = [rules EXCEPT ![z] = row]
        BY <3>1, <3>4, <3>5, RuleRowAssumption
      <4>3. \A u \in User : Accounted(u)'
        BY <1>0, <3>4, <3>6, <4>1, <4>2, RowMoves
      <4> QED
        BY <4>1, <4>3, UnmeteredMeters DEF Metered
    <3>7. CASE row.user # rules[z].user
      <4>1. moved' = IF Bytes({z}, Hour) > 0 THEN moved \cup ({row.user, rules[z].user} \ {None}) ELSE moved
        BY <3>1, <3>5, <3>7 DEF Transfer
      <4>2. Unmetered
        BY <2>1, <4>1 DEF Unmetered
      <4>3. Bytes({z}, Hour) \in Nat
        BY UsageIsSum DEF UsageSums, Metered
      <4>4. \/ Bytes({z}, Hour) = 0
            \/ {y \in User : (row # None /\ row.user = y) \/ (rules[z] # None /\ rules[z].user = y)} \subseteq moved'
        <5>1. \A y \in User : y # None
          BY AccountsAssumption
        <5>2. CASE Bytes({z}, Hour) > 0
          <6>1. moved' = moved \cup ({row.user, rules[z].user} \ {None})
            BY <4>1, <5>2
          <6> QED
            BY <5>1, <6>1
        <5> QED
          BY <4>3, <5>2
      <4>5. rules' = [rules EXCEPT ![z] = row]
        BY <3>1, <3>5
      <4>6. \A u \in User : Accounted(u)'
        BY <1>0, <3>4, <4>2, <4>4, <4>5, RowMoves
      <4> QED
        BY <4>2, <4>6, UnmeteredMeters DEF Metered
    <3> QED
      BY <3>6, <3>7
  <2> QED
    BY <2>2, <2>3
<1>3. ASSUME NEW x \in Rule, DeleteRule(x) PROVE Metered'
  <2>1. /\ rules' = [rules EXCEPT ![x] = None] /\ rules[x] # None
        /\ moved' = IF Bytes({x}, Hour) > 0 THEN moved \cup ({rules[x].user} \ {None}) ELSE moved
    BY <1>3 DEF DeleteRule, Transfer
  <2>2. Unmetered
    BY <1>3, <2>1 DEF DeleteRule, AtOnce, Unmetered
  <2>3. Bytes({x}, Hour) \in Nat
    BY UsageIsSum DEF UsageSums, Metered
  <2>4. \/ Bytes({x}, Hour) = 0
        \/ {y \in User : rules[x].user = y} \subseteq moved'
    BY <2>1, <2>3, AccountsAssumption
  <2>5. \A u \in User : Accounted(u)'
    BY <1>0, <2>1, <2>2, <2>4, RowMoves
  <2> QED
    BY <2>2, <2>5, UnmeteredMeters DEF Metered
<1>4. ASSUME NEW r \in Request, Resolve(r) \/ \E q : Begins(r, q) PROVE Metered'
  <2>1. Unmetered /\ UNCHANGED rules
    BY <1>4 DEF Resolve, Begins, Unmetered
  <2>2. \A u \in User : Accounted(u)'
    BY <2>1, SameRules DEF Owned
  <2> QED
    BY <2>1, <2>2, UnmeteredMeters DEF Metered
<1>5. ASSUME NEW r \in Request, NEW form, PostRule(r, form) PROVE Metered'
  BY <1>4, <1>5 DEF PostRule
<1>6. ASSUME NEW r \in Request, NEW x, NEW patch, PutRule(r, x, patch) PROVE Metered'
  BY <1>4, <1>6 DEF PutRule
<1> QED
  BY <1>1, <1>2, <1>3, <1>4, <1>5, <1>6 DEF RuleRequests

\* Every user owns the rules it did.
LEMMA NothingMoves ==
    ASSUME Metered, Unmetered, \A u \in User : Owned(u)' = Owned(u)
    PROVE  Metered'
<1>1. \A u \in User : Accounted(u)'
  BY SameRules
<1> QED
  BY <1>1, UnmeteredMeters DEF Metered

\* Requests about endpoints change no owner, those about packages no rule.
LEMMA EndpointRequestsMetered ==
    ASSUME IInv, Metered, EndpointRequests \/ PackageRequests
    PROVE  Metered'
<1> USE DEF accounts, targets, usage
<1>0. Rows /\ \A u \in User : u # None
  BY AccountsAssumption DEF IInv
<1>1. ASSUME NEW r \in Request, SyncRules(r) PROVE Metered'
  <2>1. Unmetered
    BY <1>1 DEF SyncRules, Unmetered
  <2>2. \A u \in User : Owned(u)' = Owned(u)
    <3>1. \A x \in Rule :
            /\ rules'[x] = None <=> rules[x] = None
            /\ rules[x] # None => rules'[x].user = rules[x].user
      <4>1. rules' = [x \in Rule |-> IF rules[x] # None /\ rules[x].endpoint = req[r].id
                                     THEN [rules[x] EXCEPT !.targets = req[r].address] ELSE rules[x]]
        BY <1>1 DEF SyncRules
      <4>2. req[r].address \in Address
        BY <1>1 DEF SyncRules, At, IInv, Requests, RequestOK
      <4>3. ASSUME NEW x \in Rule, rules[x] # None
            PROVE  /\ [rules[x] EXCEPT !.targets = req[r].address] \in RuleRow
                   /\ [rules[x] EXCEPT !.targets = req[r].address].user = rules[x].user
        BY <1>0, <4>2, <4>3 DEF Rows, RuleRow
      <4> QED
        BY <4>1, <4>3, RuleRowAssumption
    <3> QED
      BY <3>1 DEF Owned
  <2> QED
    BY <2>1, <2>2, NothingMoves
<1>2. ASSUME NEW r \in Request, DeleteEndpoint(r) PROVE Metered'
  <2>1. Unmetered
    BY <1>2 DEF DeleteEndpoint, Unmetered
  <2>2. \A u \in User : Owned(u)' = Owned(u)
    <3>1. \A x \in Rule :
            /\ rules'[x] = None <=> rules[x] = None
            /\ rules[x] # None => rules'[x].user = rules[x].user
      <4>1. rules' = [x \in Rule |-> IF rules[x] # None /\ rules[x].endpoint = req[r].id
                                     THEN [rules[x] EXCEPT !.endpoint = None] ELSE rules[x]]
        BY <1>2 DEF DeleteEndpoint
      <4>2. ASSUME NEW x \in Rule, rules[x] # None
            PROVE  /\ [rules[x] EXCEPT !.endpoint = None] \in RuleRow
                   /\ [rules[x] EXCEPT !.endpoint = None].user = rules[x].user
        BY <1>0, <4>2 DEF Rows, RuleRow
      <4> QED
        BY <4>1, <4>2, RuleRowAssumption
    <3> QED
      BY <3>1 DEF Owned
  <2> QED
    BY <2>1, <2>2, NothingMoves
<1>3. ASSUME Unmetered, UNCHANGED rules PROVE Metered'
  BY <1>3, NothingMoves DEF Owned
<1>4. ASSUME NEW r \in Request, UpdateEndpoint(r) \/ DeletePackage(r) PROVE Metered'
  <2>1. Unmetered /\ UNCHANGED rules
    BY <1>4 DEF UpdateEndpoint, DeletePackage, Unmetered
  <2> QED
    BY <1>3, <2>1
<1>5. ASSUME NEW e, NEW a, PostEndpoint(e, a) \/ PostPackage(e, a) \/ PutPackage(e, a) PROVE Metered'
  <2>1. Unmetered /\ UNCHANGED rules
    BY <1>5 DEF PostEndpoint, PostPackage, PutPackage, AtOnce, Unmetered
  <2> QED
    BY <1>3, <2>1
<1>6. ASSUME NEW r \in Request, NEW e, NEW a, PutEndpoint(r, e, a) \/ RemoveEndpoint(r, e) \/ RemovePackage(r, e)
      PROVE  Metered'
  <2>1. Unmetered /\ UNCHANGED rules
    BY <1>6 DEF PutEndpoint, RemoveEndpoint, RemovePackage, Begins, Unmetered
  <2> QED
    BY <1>3, <2>1
<1> QED
  BY <1>1, <1>2, <1>4, <1>5, <1>6 DEF EndpointRequests, PackageRequests

\* A subscription starts with what its hour has had so far.
LEMMA SubscriptionMetered ==
    ASSUME IInv, Metered, NEW r \in Request, UpsertSubscription(r)
    PROVE  Metered'
<1> USE DEF accounts, targets, usage
<1>0. Rows
  BY DEF IInv
<1>1. PICK v \in User : v = req[r].owner
  BY DEF UpsertSubscription, IInv, Requests, RequestOK, At
<1>2. UNCHANGED <<clock, ledger, rules>>
  BY DEF UpsertSubscription
<1>3. CASE UNCHANGED <<sub, consumed, carried, moved>>
  <2>1. Unmetered
    BY <1>2, <1>3 DEF Unmetered
  <2> QED
    BY <1>2, <2>1, NothingMoves DEF Owned
<1>4. CASE ~UNCHANGED <<sub, consumed, carried, moved>>
  <2> DEFINE S == Owned(v) \X {HourOf(clock)}
             k == CHOOSE k : k = [s \in SUBSET S |-> IF s = {} THEN 0
                        ELSE ledger[(CHOOSE x \in s : TRUE)[1]][(CHOOSE x \in s : TRUE)[2]]
                             + k[s \ {CHOOSE x \in s : TRUE}]]
  <2>1. PICK row : row.since = clock /\ sub' = [sub EXCEPT ![v] = row]
    BY <1>1, <1>4 DEF UpsertSubscription
  <2>2. /\ consumed' = [consumed EXCEPT ![v] = 0] /\ carried' = [carried EXCEPT ![v] = k[S]]
        /\ moved' = moved \ {v}
    BY <1>1, <1>4 DEF UpsertSubscription, Bytes, MapThenSumSet, MapThenFoldSet
  <2>3. (\E f : Takes(f, S, ledger)) => Takes(k, S, ledger)
    <3> HIDE DEF S
    <3> QED
      BY Zenon DEF Takes
  <2>4. S \in SUBSET Entry /\ HourOf(clock) \in Hour
    <3>1. HourOf(clock) \in Hour
      BY AccountsAssumption DEF Metered, Meters, HourOf, Hour
    <3> QED
      BY <3>1 DEF Owned, Entry
  <2>5. PICK h : IsSum(h, Entry, Weights)
    BY UsageIsSum DEF UsageSums, Metered
  <2>6. k[S] = h[S] /\ k[S] \in Nat
    <3> HIDE DEF S, k
    <3> QED
      BY <2>3, <2>4, <2>5, LedgerSum DEF Metered
  <2> DEFINE N == Owned(v) \X {t \in Hour : t >= HourOf(clock)}
             late == N \ S
  <2>7. S \in SUBSET N /\ N \in SUBSET Entry /\ \A p \in late : Weights[p] = 0
    <3>1. S \in SUBSET N /\ N \in SUBSET Entry
      BY <2>4 DEF HourOf, Hour, Owned, Entry
    <3>2. ASSUME NEW p \in late PROVE Weights[p] = 0
      <4>1. PICK x \in Rule, t \in Hour : p = <<x, t>> /\ t >= HourOf(clock) /\ t # HourOf(clock)
        BY DEF Owned
      <4>2. HourOf(clock) \in Int /\ t \in Int
        BY <2>4 DEF Hour, HourOf
      <4>3. t > HourOf(clock)
        BY <4>1, <4>2
      <4>4. ledger[x][t] = 0
        BY <4>3 DEF Metered, Timely
      <4> QED
        BY <4>1, <4>4 DEF Weights, Entry
    <3> QED
      BY <3>1, <3>2
  <2> HIDE DEF S, k
  <2>8. h[N] = h[S]
    <3> HIDE DEF N
    <3>1. Weights \in [Entry -> Nat] /\ IsFiniteSet(Entry)
      BY WeightsType, Entries DEF Metered
    <3>2. h[N] = h[S] + h[N \ S] /\ h[S] \in Nat /\ h[N \ S] \in Nat
      BY <2>5, <2>7, <3>1, SumOfRest
    <3>3. late \in SUBSET Entry
      BY <2>7
    <3> HIDE DEF late
    <3>4. h[late] = 0
      BY <2>5, <2>7, <3>1, <3>3, SumOfZeros
    <3> QED
      BY <3>2, <3>4 DEF late
  <2>9. Meters' /\ Timely'
    <3>1. Meters'
      BY <1>2, <2>2, <2>6 DEF Metered, Meters
    <3>2. \A u \in User : sub'[u] # None => sub'[u].since <= clock'
      <4>1. \A u \in User : sub'[u] = IF u = v THEN row ELSE sub[u]
        BY <1>0, <2>1 DEF Rows
      <4>2. clock' = clock /\ clock \in Int
        BY <1>2 DEF Metered, Meters
      <4> QED
        BY <2>1, <4>1, <4>2 DEF Metered, Timely
    <3> QED
      BY <1>2, <3>1, <3>2 DEF Metered, Timely
  <2>10. ASSUME NEW u \in User PROVE Accounted(u)'
    <3>1. CASE u = v
      <4>1. Meter(v)' = N
        <5>1. sub'[v].since = clock /\ Owned(v)' = Owned(v)
          BY <1>0, <1>2, <2>1 DEF Rows, Owned
        <5> QED
          BY <5>1 DEF Meter, Window
      <4>2. Weights' = Weights
        BY <1>2 DEF Weights
      <4>3. UsageBytes(v)' = h[Meter(v)']
        BY <2>5, <2>9, <4>2, UsageIsSumNext DEF UsageSums
      <4>4. consumed'[v] = 0 /\ carried'[v] = k[S]
        BY <2>2 DEF Metered, Meters
      <4>5. UsageBytes(v)' = consumed'[v] + carried'[v]
        BY <2>6, <2>8, <4>1, <4>3, <4>4
      <4> QED
        BY <3>1, <4>5 DEF Accounted
    <3>2. CASE u # v
      <4>1. /\ sub'[u] = sub[u] /\ consumed'[u] = consumed[u] /\ carried'[u] = carried[u]
            /\ (u \in moved => u \in moved') /\ Owned(u)' = Owned(u)
        BY <1>0, <1>2, <2>1, <2>2, <3>2 DEF Rows, Metered, Meters, Owned
      <4> QED
        BY <1>2, <2>9, <4>1, SameUsage
    <3> QED
      BY <3>1, <3>2
  <2> QED
    BY <2>9, <2>10 DEF Metered
<1> QED
  BY <1>3, <1>4

\* Requests about users.
LEMMA UserRequestsMetered ==
    ASSUME IInv, Metered, UserRequests
    PROVE  Metered'
<1> USE DEF accounts, targets, usage
<1>0. Rows /\ \A u \in User : u # None
  BY AccountsAssumption DEF IInv
<1>1. ASSUME NEW v \in User, DeleteUser(v) PROVE Metered'
  <2>1. /\ sub' = [sub EXCEPT ![v] = None] /\ consumed' = [consumed EXCEPT ![v] = 0]
        /\ carried' = [carried EXCEPT ![v] = 0] /\ moved' = moved \ {v}
        /\ UNCHANGED <<clock, ledger>>
        /\ rules' = [x \in Rule |-> IF rules[x] # None /\ rules[x].user = v
                                    THEN [rules[x] EXCEPT !.user = None] ELSE rules[x]]
    BY <1>1 DEF DeleteUser, AtOnce, Owned
  <2>2. Meters' /\ Timely'
    BY <1>0, <2>1 DEF Metered, Meters, Timely, Rows
  <2>3. ASSUME NEW u \in User PROVE Accounted(u)'
    <3>1. CASE u = v
      <4>1. sub'[u] = None
        BY <1>0, <2>1, <3>1 DEF Rows
      <4> QED
        BY <4>1 DEF Accounted
    <3>2. CASE u # v
      <4>1. /\ sub'[u] = sub[u] /\ consumed'[u] = consumed[u] /\ carried'[u] = carried[u]
            /\ (u \in moved => u \in moved') /\ ledger' = ledger
        BY <1>0, <2>1, <3>2 DEF Rows, Metered, Meters
      <4>2. Owned(u)' = Owned(u)
        <5>1. ASSUME NEW x \in Rule, rules[x] # None
              PROVE  /\ [rules[x] EXCEPT !.user = None] \in RuleRow
                     /\ [rules[x] EXCEPT !.user = None].user = None
          BY <1>0, <5>1 DEF Rows, RuleRow
        <5>2. \A x \in Rule : (rules'[x] # None /\ rules'[x].user = u) <=> (rules[x] # None /\ rules[x].user = u)
          BY <1>0, <2>1, <3>2, <5>1
        <5> QED
          BY <5>2 DEF Owned
      <4> QED
        BY <2>2, <4>1, <4>2, SameUsage
    <3> QED
      BY <3>1, <3>2
  <2> QED
    BY <2>2, <2>3 DEF Metered
<1>2. ASSUME NEW v \in User, PostUser(v) \/ \E status : PutUser(v, status) PROVE Metered'
  <2>1. Unmetered /\ UNCHANGED rules
    BY <1>2 DEF PostUser, PutUser, AtOnce, Unmetered
  <2> QED
    BY <2>1, NothingMoves DEF Owned
<1>3. ASSUME NEW r \in Request, NEW v, NEW k, Subscribe(r, v, k) PROVE Metered'
  <2>1. Unmetered /\ UNCHANGED rules
    BY <1>3 DEF Subscribe, Begins, Unmetered
  <2> QED
    BY <2>1, NothingMoves DEF Owned
<1> QED
  BY <1>1, <1>2, <1>3, SubscriptionMetered DEF UserRequests

\* A byte is billed in an hour that counts, to the user that owns the rule.
LEMMA BillMetered ==
    ASSUME IInv, Metered, NEW x \in Rule, NEW hour \in Hour, Bill(x, hour)
    PROVE  Metered'
<1> USE DEF accounts, targets
<1> DEFINE now == HourOf(clock)
           y == <<x, hour>>
<1>1. /\ rules[x] # None /\ rules[x] \in RuleRow /\ UNCHANGED <<clock, sub, rules, carried, moved>>
      /\ ledger' = [ledger EXCEPT ![x][hour] = @ + 1] /\ hour <= now
      /\ consumed' = IF rules[x].user # None /\ BilledIn(rules[x].user, hour)
                     THEN [consumed EXCEPT ![rules[x].user] = @ + 1] ELSE consumed
  BY DEF Bill, IInv, Rows
<1>2. now \in Hour /\ now \in Int /\ hour \in Int /\ y \in Entry
  BY AccountsAssumption DEF Metered, Meters, HourOf, Hour, Entry
<1>3. ledger \in [Rule -> [Hour -> Nat]] /\ consumed \in [User -> Nat] /\ carried \in [User -> Nat]
      /\ clock \in 0 .. MaxTime
  BY DEF Metered, Meters
<1>4. \A z \in Rule, t \in Hour : ledger'[z][t] = IF z = x /\ t = hour THEN ledger[z][t] + 1 ELSE ledger[z][t]
  <2> HIDE DEF now
  <2> QED
    BY <1>1, <1>2, <1>3
<1>5. Meters'
  <2>1. ledger' \in [Rule -> [Hour -> Nat]]
    <3> HIDE DEF now
    <3> QED
      BY <1>1, <1>2, <1>3
  <2>2. consumed' \in [User -> Nat]
    BY <1>1, <1>3 DEF RuleRow
  <2> QED
    BY <1>1, <1>3, <2>1, <2>2 DEF Meters
<1>6. Timely'
  <2>1. ASSUME NEW z \in Rule, NEW t \in Hour, t > HourOf(clock)' PROVE ledger'[z][t] = 0
    <3>1. t > now /\ t # hour
      BY <1>1, <1>2, <2>1 DEF HourOf, Hour
    <3> QED
      BY <1>4, <3>1 DEF Metered, Timely
  <2> QED
    BY <1>1, <2>1 DEF Metered, Timely
<1>7. Weights \in [Entry -> Nat] /\ IsFiniteSet(Entry)
      /\ \A p \in Entry : Weights'[p] = IF p = y THEN Weights[p] + 1 ELSE Weights[p]
  <2>1. Weights \in [Entry -> Nat] /\ IsFiniteSet(Entry)
    BY WeightsType, Entries DEF Metered
  <2>2. ASSUME NEW p \in Entry PROVE Weights'[p] = IF p = y THEN Weights[p] + 1 ELSE Weights[p]
    <3>1. PICK z \in Rule, t \in Hour : p = <<z, t>>
      BY DEF Entry
    <3>2. Weights'[p] = ledger'[z][t] /\ Weights[p] = ledger[z][t]
      BY <3>1 DEF Weights, Entry
    <3> HIDE DEF now
    <3> QED
      BY <1>4, <3>1, <3>2
  <2> QED
    BY <2>1, <2>2
<1>8. PICK h : IsSum(h, Entry, Weights)
  BY UsageIsSum DEF UsageSums, Metered
<1>9. PICK k : IsSum(k, Entry, Weights')
  BY <1>5, UsageIsSumNext DEF UsageSums
<1>10. ASSUME NEW u \in User, sub[u] # None, u \notin moved PROVE Accounted(u)'
  <2>1. Meter(u)' = Meter(u) /\ Meter(u) \in SUBSET Entry
        /\ UsageBytes(u) = h[Meter(u)] /\ UsageBytes(u)' = k[Meter(u)]
    <3>1. Meter(u)' = Meter(u)
      BY <1>1 DEF Meter, Owned, Window
    <3>2. UsageBytes(u)' = k[Meter(u)']
      BY <1>5, <1>9, UsageIsSumNext DEF UsageSums
    <3>3. Meter(u) \in SUBSET Entry /\ UsageBytes(u) = h[Meter(u)]
      BY <1>8, UsageIsSum DEF UsageSums, Metered
    <3> QED
      BY <3>1, <3>2, <3>3
  <2>2. UsageBytes(u) = consumed[u] + carried[u]
    BY <1>10 DEF Metered, Accounted
  <2>3. consumed[u] \in Nat /\ carried[u] \in Nat /\ carried'[u] = carried[u]
    BY <1>1, <1>3
  <2>4. CASE rules[x].user = u /\ BilledIn(u, hour)
    <3>1. y \in Meter(u)
      <4>1. hour \in Window(sub[u].since)
        BY <2>4 DEF BilledIn, Window
      <4> QED
        BY <1>1, <2>4, <4>1 DEF Meter, Owned
    <3>2. consumed'[u] = consumed[u] + 1
      BY <1>1, <1>3, <2>4, AccountsAssumption
    <3> DEFINE M == Meter(u)
    <3>3. M \in SUBSET Entry /\ y \in M
      BY <2>1, <3>1
    <3>4. k[M] = h[M] + 1
      <4>1. Weights'[y] = Weights[y] + 1 /\ \A p \in M \ {y} : Weights'[p] = Weights[p]
        BY <1>2, <1>7, <3>3
      <4> HIDE DEF M, y
      <4> QED
        BY <1>7, <1>8, <1>9, <3>3, <4>1, SumOfOneMore
    <3>5. UsageBytes(u)' = consumed'[u] + carried'[u]
      <4>1. h[M] = consumed[u] + carried[u] /\ UsageBytes(u)' = k[M]
        BY <2>1, <2>2
      <4>2. k[M] = (consumed[u] + 1) + carried[u]
        BY <2>3, <3>4, <4>1
      <4> QED
        BY <2>3, <3>2, <4>1, <4>2
    <3> QED
      BY <3>5 DEF Accounted
  <2>5. CASE ~(rules[x].user = u /\ BilledIn(u, hour))
    <3>1. y \notin Meter(u)
      BY <1>10, <2>5 DEF Meter, Owned, Window, BilledIn
    <3>2. consumed'[u] = consumed[u]
      BY <1>1, <1>3, <2>5
    <3> DEFINE M == Meter(u)
    <3>3. M \in SUBSET Entry /\ \A p \in M : Weights'[p] = Weights[p]
      BY <1>7, <2>1, <3>1
    <3>4. h[M] = k[M]
      <4> HIDE DEF M
      <4> QED
        BY <1>7, <1>8, <1>9, <3>3, SumsAgree
    <3>5. UsageBytes(u)' = consumed'[u] + carried'[u]
      BY <2>1, <2>2, <2>3, <3>2, <3>4
    <3> QED
      BY <3>5 DEF Accounted
  <2> QED
    BY <2>4, <2>5
<1>11. \A u \in User : Accounted(u)'
  <2>1. ASSUME NEW u \in User, ~(sub[u] # None /\ u \notin moved) PROVE Accounted(u)'
    BY <1>1, <2>1 DEF Accounted
  <2> QED
    BY <1>10, <2>1
<1> QED
  BY <1>5, <1>6, <1>11 DEF Metered

\* Time goes by.
LEMMA TickMetered ==
    ASSUME IInv, Metered, Tick
    PROVE  Metered'
<1> USE DEF accounts, targets, usage
<1>1. clock' = clock + 1 /\ clock < MaxTime /\ clock \in 0 .. MaxTime /\ MaxTime \in Nat
      /\ UNCHANGED <<sub, rules, ledger, consumed, carried, moved>>
  BY AccountsAssumption DEF Tick, Metered, Meters
<1>2. Meters'
  BY <1>1 DEF Metered, Meters
<1>3. Timely'
  <2>1. ASSUME NEW x \in Rule, NEW t \in Hour, t > HourOf(clock)' PROVE ledger'[x][t] = 0
    <3>1. t > HourOf(clock)
      BY <1>1, <2>1 DEF HourOf, Hour
    <3> QED
      BY <1>1, <3>1 DEF Metered, Timely
  <2>2. ASSUME NEW u \in User, sub'[u] # None PROVE sub'[u].since <= clock'
    <3>1. sub[u].since \in Nat /\ sub[u].since <= clock
      BY <1>1, <2>2 DEF IInv, Rows, SubRow, Metered, Timely
    <3> QED
      BY <1>1, <3>1
  <2> QED
    BY <2>1, <2>2 DEF Timely
<1>4. ASSUME NEW u \in User PROVE Accounted(u)'
  <2>1. Owned(u)' = Owned(u)
    BY <1>1 DEF Owned
  <2> QED
    BY <1>1, <1>2, <2>1, SameUsage
<1> QED
  BY <1>2, <1>3, <1>4 DEF Metered

\* Nothing is billed at first.
LEMMA InitMetered == Init => Metered
<1> SUFFICES ASSUME Init PROVE Metered
  OBVIOUS
<1>1. MaxTime \in Nat
  BY AccountsAssumption
<1>2. Meters
  BY <1>1 DEF Init, Meters
<1>3. Timely
  <2>1. \A u \in User : sub[u] # None => sub[u].since = 0
    BY DEF Init
  <2> QED
    BY <2>1 DEF Init, Timely
<1>4. ASSUME NEW u \in User PROVE Accounted(u)
  <2>1. PICK h : IsSum(h, Entry, Weights)
    BY <1>2, UsageIsSum DEF UsageSums
  <2>2. Meter(u) \in SUBSET Entry /\ UsageBytes(u) = h[Meter(u)]
    BY <1>2, <2>1, UsageIsSum DEF UsageSums
  <2>3. \A p \in Entry : Weights[p] = 0
    BY DEF Init, Weights, Entry
  <2>4. h[Meter(u)] = 0
    BY <2>1, <2>2, <2>3, Entries, SumOfZeros
  <2> QED
    BY <2>2, <2>4 DEF Init, Accounted
<1> QED
  BY <1>2, <1>3, <1>4 DEF Metered

LEMMA NextMetered == IInv /\ Metered /\ [Next]_vars => Metered'
<1> SUFFICES ASSUME IInv, Metered, [Next]_vars PROVE Metered'
  OBVIOUS
<1>1. CASE (\E r \in Request : Die(r)) \/ UNCHANGED vars
  <2>1. Unmetered /\ UNCHANGED rules
    BY <1>1 DEF Die, vars, accounts, targets, usage, Unmetered
  <2> QED
    BY <2>1, NothingMoves DEF Owned
<1>2. CASE LinkRequests
  <2>1. Unmetered /\ UNCHANGED rules
    BY <1>2 DEF LinkRequests, PostLink, PutLink, DeleteLink, WriteLink, AtOnce, targets, usage, Unmetered
  <2> QED
    BY <2>1, NothingMoves DEF Owned
<1> QED
  BY <1>1, <1>2, RuleRequestsMetered, EndpointRequestsMetered, UserRequestsMetered, BillMetered, TickMetered DEF Next

\* For any number of users, rules, plans and requests under way, and for any number
\* of bytes: a user is served only while less was billed to it than it bought, and is
\* called exhausted only when that is used up by what was billed since it subscribed
\* and in the rest of that hour; but for rules with traffic that have come or gone
\* (services/quota.ts, quotaForUser over userUsageBytes).
THEOREM UsageCounted == Spec => []UsageIsFair
<1>1. IInv /\ Metered => UsageIsFair
  <2> SUFFICES ASSUME IInv, Metered, NEW u \in User, sub[u] # None, u \notin moved, PlanOf(u).bytes > 0
               PROVE  /\ Decision(u) = "served" => consumed[u] < PlanOf(u).bytes
                      /\ Decision(u) = "exhausted" => consumed[u] + carried[u] >= PlanOf(u).bytes
    BY DEF UsageIsFair
  <2>1. UsageBytes(u) = consumed[u] + carried[u] /\ consumed[u] \in Nat /\ carried[u] \in Nat
    BY DEF Metered, Meters, Accounted
  <2>2. PlanOf(u).bytes \in Nat
    BY PlanIsOffered, AccountsAssumption DEF IInv
  <2>3. /\ Decision(u) = "served" => UsageBytes(u) < PlanOf(u).bytes
        /\ Decision(u) = "exhausted" => UsageBytes(u) >= PlanOf(u).bytes
    BY <2>1, <2>2 DEF Decision
  <2> QED
    BY <2>1, <2>2, <2>3
<1> QED
  BY <1>1, InitIInv, NextIInv, InitMetered, NextMetered, PTL DEF Spec
=============================================================================
