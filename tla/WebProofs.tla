------------------------------ MODULE WebProofs ------------------------------
(* The panel in the browser.  First how an operator gets in and stays in:   *)
(* the setup race and the session keys, for every number of tabs, isolates, *)
(* mishaps and changes of a password.  Then a tab at work: what its lists   *)
(* show after its own writes, what its dialogs save and which of them an    *)
(* answer closes, for every table, every number of writes and other writers *)
(* beside it.                                                               *)
EXTENDS Sessions, Console, FiniteSetTheorems, SequenceTheorems, TLAPS

-----------------------------------------------------------------------------
(* Getting in, and staying in.                                             *)

Kinds == {"setup", "login", "query", "logout", "password"}

\* The steps a request of each kind goes through.
StepsOf(kind) ==
    CASE kind = "setup" -> {"check", "insert", "secret", "session", "mint", "reread"}
      [] kind = "login" -> {"check", "verify", "session", "mint", "reread"}
      [] kind = "password" -> {"session", "mint", "reread", "verify", "update"}
      [] OTHER -> {"session", "mint", "reread"}

\* The page a request of each kind is sent from.
PageOf(kind) == IF kind \in {"setup", "login"} THEN kind ELSE "app"

\* A request under way stays on the page it was sent from, goes through the steps of its kind, names
\* an administrator there is, and knows its isolate while it mints a key.
CallOK(t) ==
    /\ call[t].kind \in Kinds
    /\ call[t] = [kind |-> call[t].kind, pc |-> call[t].pc, admin |-> call[t].admin,
                  password |-> call[t].password, isolate |-> call[t].isolate]
    /\ call[t].pc \in StepsOf(call[t].kind)
    /\ call[t].admin \in 1 .. Len(admins) \cup {None}
    /\ call[t].pc = "update" => call[t].admin # None
    /\ call[t].pc \in {"mint", "reread"} => call[t].isolate \in Isolates
    /\ path[t] = PageOf(call[t].kind)

TypeOK ==
    /\ admins \in Seq(Nat)
    /\ minted \in Nat
    /\ secret \in 1 .. minted \cup {None}
    /\ lost \subseteq 1 .. minted
    /\ known \in [Isolates -> 1 .. minted \cup {None}]
    /\ cookie \in [Tabs -> 1 .. minted \cup {None}]
    /\ path \in [Tabs -> {"setup", "login", "app"}]
    /\ denied \in [Tabs -> BOOLEAN]
    /\ DOMAIN call = Tabs
    /\ \A t \in Tabs : call[t] # None => CallOK(t)

\* Every key in use is the stored one or one that a wipe took, and no key is drawn twice.
KeysCurrent ==
    /\ \A t \in Tabs : cookie[t] # None => cookie[t] = secret \/ cookie[t] \in lost
    /\ \A i \in Isolates : known[i] # None => known[i] = secret \/ known[i] \in lost
    /\ secret \notin lost

\* The setups whose check has passed and whose row is still to come.
Joining == {t \in Tabs : At(t, "insert")}

\* They are counted with the rows there are: a check passes only where there is none.
RoomForAll == Len(admins) + Cardinality(Joining) =< Cardinality(Tabs)

IInv == TypeOK /\ KeysCurrent /\ RoomForAll

-----------------------------------------------------------------------------
(* What the parts of an action do.                                         *)

\* The end of a request moves only its own tab, and its cookie to nothing or to the key it is given.
LEMMA AnswerEffect ==
    ASSUME TypeOK, NEW t \in Tabs, NEW a, NEW k \in 1 .. minted \cup {None}, Answer(t, a, k)
    PROVE  /\ call' = [call EXCEPT ![t] = None]
           /\ cookie' \in [Tabs -> 1 .. minted \cup {None}]
           /\ \A u \in Tabs : cookie'[u] \in {cookie[u], None, k}
           /\ \A u \in Tabs \ {t} : cookie'[u] = cookie[u] /\ path'[u] = path[u]
           /\ path' \in [Tabs -> {"setup", "login", "app"}]
           /\ denied' \in [Tabs -> BOOLEAN]
<1>1. call' = [call EXCEPT ![t] = None]
  BY DEF Answer
<1>2. \E c \in {cookie[t], None, k} : cookie' = [cookie EXCEPT ![t] = c]
  BY DEF Answer, TypeOK
<1>3. \/ \E p \in {"setup", "login", "app"}, d \in BOOLEAN : Arrive(t, p, d)
      \/ UNCHANGED <<path, denied>>
  <2>1. denied[t] \in BOOLEAN
    BY DEF TypeOK
  <2>2. Guarded("login", Ensured(t)) \in {"setup", "login", "app"}
    BY DEF Guarded
  <2>3. Ensured(t) \in BOOLEAN
    BY DEF Ensured
  <2> QED
    BY <2>1, <2>2, <2>3 DEF Answer, Go
<1>4. /\ path' \in [Tabs -> {"setup", "login", "app"}]
      /\ denied' \in [Tabs -> BOOLEAN]
      /\ \A u \in Tabs \ {t} : path'[u] = path[u]
  BY <1>3 DEF Arrive, TypeOK
<1>5. /\ cookie' \in [Tabs -> 1 .. minted \cup {None}]
      /\ \A u \in Tabs : cookie'[u] \in {cookie[u], None, k}
      /\ \A u \in Tabs \ {t} : cookie'[u] = cookie[u]
  <2>1. cookie \in [Tabs -> 1 .. minted \cup {None}]
    BY DEF TypeOK
  <2> QED
    BY <1>2, <2>1
<1> QED
  BY <1>1, <1>4, <1>5

\* A key that is inserted where there is none is a new one.
LEMMA InsertOnceEffect ==
    ASSUME TypeOK, KeysCurrent, InsertOnce
    PROVE  /\ minted' \in Nat /\ minted =< minted'
           /\ secret' \in 1 .. minted' \cup {None}
           /\ secret' \notin lost
           /\ secret # None => secret' = secret
BY SessionsAssumption DEF InsertOnce, Upsert, TypeOK, KeysCurrent

\* What an isolate answers with the key it has got hold of.
LEMMA WithKeyEffect ==
    ASSUME TypeOK, NEW t \in Tabs, NEW i \in Isolates, NEW k \in 1 .. minted, WithKey(t, i, k)
    PROVE  /\ known' = [known EXCEPT ![i] = k]
           /\ \/ \E a : Answer(t, a, None)
              \/ Answer(t, "ok", k)
              \/ call[t].kind = "password" /\ Then(t, "verify")
BY DEF WithKey

-----------------------------------------------------------------------------
(* Types.                                                                  *)

\* The requests of the other tabs are as they were while rows are only added and their pages stay.
LEMMA OthersStay ==
    ASSUME TypeOK, NEW t \in Tabs, DOMAIN call' = Tabs, admins' \in Seq(Nat), Len(admins) =< Len(admins'),
           \A u \in Tabs \ {t} : call'[u] = call[u] /\ path'[u] = path[u]
    PROVE  \A u \in Tabs \ {t} : call'[u] # None => CallOK(u)'
<1> SUFFICES ASSUME NEW u \in Tabs \ {t}, call'[u] # None PROVE CallOK(u)'
  OBVIOUS
<1>1. CallOK(u)
  BY DEF TypeOK
<1>2. 1 .. Len(admins) \subseteq 1 .. Len(admins')
  BY DEF TypeOK
<1> QED
  BY <1>1, <1>2 DEF CallOK

\* A request that is moved on to a step of its kind.
LEMMA ThenOK ==
    ASSUME TypeOK, NEW t \in Tabs, call[t] # None, NEW pc \in StepsOf(call[t].kind) \ {"update", "mint"},
           pc = "reread" => call[t].isolate \in Isolates,
           call' = [call EXCEPT ![t].pc = pc], UNCHANGED path,
           admins' \in Seq(Nat), Len(admins) =< Len(admins')
    PROVE  DOMAIN call' = Tabs /\ \A u \in Tabs : call'[u] # None => CallOK(u)'
<1>1. CallOK(t) /\ DOMAIN call' = Tabs
  BY DEF TypeOK
<1>2. call'[t] = [call[t] EXCEPT !.pc = pc]
  BY DEF TypeOK
<1>3. 1 .. Len(admins) \subseteq 1 .. Len(admins')
  BY DEF TypeOK
<1>4. call'[t] = [kind |-> call[t].kind, pc |-> pc, admin |-> call[t].admin,
                  password |-> call[t].password, isolate |-> call[t].isolate]
  BY <1>1, <1>2 DEF CallOK
<1>5. CallOK(t)'
  BY <1>1, <1>3, <1>4 DEF CallOK
<1>6. \A u \in Tabs \ {t} : call'[u] # None => CallOK(u)'
  BY <1>1, OthersStay DEF TypeOK
<1> QED
  BY <1>1, <1>5, <1>6

\* A request that ends leaves the others.
LEMMA AnswerOK ==
    ASSUME TypeOK, NEW t \in Tabs, NEW a, NEW k \in 1 .. minted \cup {None}, Answer(t, a, k),
           admins' \in Seq(Nat), Len(admins) =< Len(admins')
    PROVE  DOMAIN call' = Tabs /\ \A u \in Tabs : call'[u] # None => CallOK(u)'
<1>1. /\ call' = [call EXCEPT ![t] = None]
      /\ \A u \in Tabs \ {t} : path'[u] = path[u]
  BY AnswerEffect
<1>2. DOMAIN call' = Tabs /\ call'[t] = None /\ \A u \in Tabs \ {t} : call'[u] = call[u]
  BY <1>1 DEF TypeOK
<1>3. \A u \in Tabs \ {t} : call'[u] # None => CallOK(u)'
  BY <1>1, <1>2, OthersStay
<1> QED
  BY <1>2, <1>3

\* A request that is sent.
LEMMA OpenOK ==
    ASSUME TypeOK, NEW t \in Tabs, NEW kind \in Kinds, NEW n \in 1 .. Len(admins) \cup {None}, NEW w,
           Open(t, kind, n, w), path[t] = PageOf(kind), UNCHANGED <<server, known, tabs, lost, mishaps>>
    PROVE  TypeOK'
<1>1. DOMAIN call' = Tabs /\ \A u \in Tabs \ {t} : call'[u] = call[u]
  BY DEF Open, TypeOK
<1>2. UNCHANGED <<admins, minted, secret, lost, known, cookie, path, denied>>
  BY DEF server, tabs
<1>3. \A u \in Tabs \ {t} : call'[u] # None => CallOK(u)'
  BY <1>1, <1>2, OthersStay DEF TypeOK
<1>4. call'[t] = [kind |-> kind, pc |-> IF kind \in {"setup", "login"} THEN "check" ELSE "session",
                  admin |-> n, password |-> w, isolate |-> None]
  BY DEF Open, TypeOK
<1>5. CallOK(t)'
  BY <1>2, <1>4 DEF CallOK, StepsOf, PageOf, Kinds
<1> QED
  BY <1>1, <1>2, <1>3, <1>5 DEF TypeOK

\* A request that ends and leaves the server alone.
LEMMA AnswerTypeOK ==
    ASSUME TypeOK, NEW t \in Tabs, NEW a, NEW k \in 1 .. minted \cup {None}, Answer(t, a, k),
           UNCHANGED <<server, lost>>, known' \in [Isolates -> 1 .. minted \cup {None}]
    PROVE  TypeOK'
<1>1. UNCHANGED <<admins, minted, secret, lost>>
  BY DEF server
<1>2. admins' \in Seq(Nat) /\ Len(admins) =< Len(admins')
  BY <1>1 DEF TypeOK
<1>3. DOMAIN call' = Tabs /\ \A u \in Tabs : call'[u] # None => CallOK(u)'
  BY <1>2, AnswerOK
<1> QED
  BY <1>1, <1>3, AnswerEffect DEF TypeOK

\* A request that is moved on and leaves the keys alone.
LEMMA ThenTypeOK ==
    ASSUME TypeOK, NEW t \in Tabs, call[t] # None, NEW pc \in StepsOf(call[t].kind) \ {"update", "mint"},
           pc = "reread" => call[t].isolate \in Isolates,
           call' = [call EXCEPT ![t].pc = pc], UNCHANGED <<tabs, secret, minted, lost>>,
           known' \in [Isolates -> 1 .. minted \cup {None}],
           admins' \in Seq(Nat), Len(admins) =< Len(admins')
    PROVE  TypeOK'
<1>1. UNCHANGED <<minted, secret, lost, cookie, path, denied>>
  BY DEF tabs
<1>2. DOMAIN call' = Tabs /\ \A u \in Tabs : call'[u] # None => CallOK(u)'
  BY <1>1, ThenOK
<1> QED
  BY <1>1, <1>2 DEF TypeOK

\* The same, with the rows as they were.
LEMMA MoveOnTypeOK ==
    ASSUME TypeOK, NEW t \in Tabs, call[t] # None, NEW pc \in StepsOf(call[t].kind) \ {"update", "mint", "reread"},
           Then(t, pc), UNCHANGED <<server, lost>>, known' \in [Isolates -> 1 .. minted \cup {None}]
    PROVE  TypeOK'
<1>1. UNCHANGED <<admins, secret, minted, lost, tabs>> /\ call' = [call EXCEPT ![t].pc = pc]
  BY DEF server, Then
<1>2. admins' \in Seq(Nat) /\ Len(admins) =< Len(admins')
  BY <1>1 DEF TypeOK
<1>3. UNCHANGED <<tabs, secret, minted, lost>> /\ pc \in StepsOf(call[t].kind) \ {"update", "mint"} /\ pc # "reread"
  BY <1>1
<1> QED
  BY <1>1, <1>2, <1>3, ThenTypeOK

\* An isolate that has got hold of a key.
LEMMA WithKeyTypeOK ==
    ASSUME TypeOK, NEW t \in Tabs, NEW i \in Isolates, NEW k \in 1 .. minted, call[t] # None,
           WithKey(t, i, k), UNCHANGED <<server, lost>>
    PROVE  TypeOK'
<1>1. UNCHANGED <<admins, minted, secret, lost>>
  BY DEF server
<1>2. known' \in [Isolates -> 1 .. minted \cup {None}]
  BY WithKeyEffect DEF TypeOK
<1>3. ASSUME NEW a, Answer(t, a, None) PROVE TypeOK'
  BY <1>2, <1>3, AnswerTypeOK
<1>4. CASE Answer(t, "ok", k)
  BY <1>2, <1>4, AnswerTypeOK
<1>5. CASE call[t].kind = "password" /\ Then(t, "verify")
  <2>1. "verify" \in StepsOf(call[t].kind) \ {"update", "mint", "reread"}
    BY <1>5 DEF StepsOf
  <2> QED
    BY <1>2, <1>5, <2>1, MoveOnTypeOK
<1> QED
  BY <1>3, <1>4, <1>5, WithKeyEffect

\* A key that is inserted while the request is moved on.
LEMMA InsertTypeOK ==
    ASSUME TypeOK, KeysCurrent, NEW t \in Tabs, call[t] # None,
           NEW pc \in StepsOf(call[t].kind) \ {"update", "mint"},
           pc = "reread" => call[t].isolate \in Isolates,
           InsertOnce, Then(t, pc), UNCHANGED <<admins, known, lost>>
    PROVE  TypeOK'
<1>1. UNCHANGED <<cookie, path, denied>>
  BY DEF Then, tabs
<1>2. DOMAIN call' = Tabs /\ \A u \in Tabs : call'[u] # None => CallOK(u)'
  <2>1. /\ call' = [call EXCEPT ![t].pc = pc] /\ UNCHANGED path
        /\ admins' \in Seq(Nat) /\ Len(admins) =< Len(admins')
    BY <1>1 DEF Then, TypeOK
  <2> QED
    BY <2>1, ThenOK
<1>3. /\ minted' \in Nat /\ secret' \in 1 .. minted' \cup {None}
      /\ 1 .. minted \subseteq 1 .. minted'
  BY InsertOnceEffect DEF TypeOK
<1>4. /\ known' \in [Isolates -> 1 .. minted' \cup {None}]
      /\ cookie' \in [Tabs -> 1 .. minted' \cup {None}]
      /\ lost' \subseteq 1 .. minted'
  BY <1>1, <1>3 DEF TypeOK
<1> QED
  BY <1>1, <1>2, <1>3, <1>4 DEF TypeOK

\* Nothing has happened yet.
LEMMA InitTypeOK == Init => TypeOK
BY DEF Init, TypeOK

\* Every step preserves the types.
LEMMA NextTypeOK == TypeOK /\ KeysCurrent /\ [Next]_vars => TypeOK'
<1> SUFFICES ASSUME TypeOK, KeysCurrent, [Next]_vars PROVE TypeOK'
  OBVIOUS
<1>1. ASSUME NEW t \in Tabs, SubmitSetup(t) \/ SubmitLogin(t) \/ Query(t) \/ Logout(t) \/ SubmitPassword(t)
      PROVE  TypeOK'
  <2>1. CASE SubmitSetup(t)
    BY <2>1, OpenOK DEF SubmitSetup, Kinds, PageOf
  <2>2. CASE SubmitLogin(t)
    BY <2>2, OpenOK DEF SubmitLogin, Kinds, PageOf
  <2>3. CASE Query(t) \/ Logout(t)
    BY <2>3, OpenOK DEF Query, Logout, Kinds, PageOf
  <2>4. CASE SubmitPassword(t)
    BY <2>4, OpenOK DEF SubmitPassword, Kinds, PageOf
  <2> QED
    BY <1>1, <2>1, <2>2, <2>3, <2>4
<1>2. ASSUME NEW t \in Tabs, Reload(t) \/ FailGuard(t) PROVE TypeOK'
  <2>1. \E p \in {"setup", "login", "app"}, d \in BOOLEAN : Arrive(t, p, d)
    <3>1. \A p \in {"setup", "login"} : Guarded(p, Initialized) \in {"setup", "login", "app"}
      BY DEF Guarded
    <3>2. Initialized \in BOOLEAN
      BY DEF Initialized
    <3>3. CASE Reload(t)
      BY <3>1, <3>2, <3>3 DEF Reload
    <3>4. CASE FailGuard(t)
      BY <3>4 DEF FailGuard
    <3> QED
      BY <1>2, <3>3, <3>4
  <2>2. /\ path' \in [Tabs -> {"setup", "login", "app"}] /\ denied' \in [Tabs -> BOOLEAN]
        /\ \A u \in Tabs \ {t} : path'[u] = path[u]
    BY <2>1 DEF Arrive, TypeOK
  <2>3. UNCHANGED <<admins, minted, secret, lost, known, cookie, call>> /\ call[t] = None
    BY <1>2 DEF Reload, FailGuard, server
  <2>4. \A u \in Tabs : call'[u] # None => CallOK(u)'
    BY <2>2, <2>3 DEF TypeOK, CallOK
  <2> QED
    BY <2>2, <2>3, <2>4 DEF TypeOK
<1>3. ASSUME NEW t \in Tabs, RefreshStatus(t) PROVE TypeOK'
  <2>1. UNCHANGED <<admins, minted, secret, lost, known, cookie, path, call>>
    BY <1>3 DEF RefreshStatus, server
  <2>2. denied' \in [Tabs -> BOOLEAN]
    BY <1>3 DEF RefreshStatus, TypeOK
  <2>3. \A u \in Tabs : call'[u] # None => CallOK(u)'
    BY <2>1 DEF TypeOK, CallOK
  <2> QED
    BY <2>1, <2>2, <2>3 DEF TypeOK
<1>4. ASSUME NEW t \in Tabs, Expire(t) PROVE TypeOK'
  <2>1. UNCHANGED <<admins, minted, secret, lost, known, path, denied, call>>
    BY <1>4 DEF Expire, server
  <2>2. cookie' \in [Tabs -> 1 .. minted \cup {None}]
    BY <1>4 DEF Expire, TypeOK
  <2>3. \A u \in Tabs : call'[u] # None => CallOK(u)'
    BY <2>1 DEF TypeOK, CallOK
  <2> QED
    BY <2>1, <2>2, <2>3 DEF TypeOK
<1>5. ASSUME NEW t \in Tabs, Check(t) PROVE TypeOK'
  <2>1. UNCHANGED <<server, known, lost>> /\ call[t] # None
    BY <1>5 DEF Check, Quiet, At
  <2>2. CASE call[t].kind = "setup" /\ Then(t, "insert")
    <3>1. "insert" \in StepsOf(call[t].kind) \ {"update", "mint", "reread"}
      BY <2>2 DEF StepsOf
    <3> QED
      BY <2>1, <2>2, <3>1, MoveOnTypeOK DEF TypeOK
  <2>3. CASE call[t].kind = "login" /\ Then(t, "verify")
    <3>1. "verify" \in StepsOf(call[t].kind) \ {"update", "mint", "reread"}
      BY <2>3 DEF StepsOf
    <3> QED
      BY <2>1, <2>3, <3>1, MoveOnTypeOK DEF TypeOK
  <2>4. CASE Answer(t, "refused", None)
    BY <2>1, <2>4, AnswerTypeOK DEF TypeOK
  <2> QED
    BY <1>5, <2>2, <2>3, <2>4 DEF Check
<1>6. ASSUME NEW t \in Tabs, InsertAdmin(t) PROVE TypeOK'
  <2>1. admins' \in Seq(Nat) /\ Len(admins) =< Len(admins')
    BY <1>6 DEF InsertAdmin, TypeOK
  <2>2. call[t] # None /\ CallOK(t) /\ call[t].pc = "insert"
    BY <1>6 DEF InsertAdmin, At, TypeOK
  <2>3. "secret" \in StepsOf(call[t].kind) \ {"update", "mint"}
    BY <2>2 DEF CallOK, StepsOf
  <2> QED
    BY <1>6, <2>1, <2>2, <2>3, ThenTypeOK DEF InsertAdmin, Quiet, TypeOK
<1>7. ASSUME NEW t \in Tabs, SetupSecret(t) PROVE TypeOK'
  <2>1. call[t] # None /\ CallOK(t) /\ call[t].pc = "secret"
    BY <1>7 DEF SetupSecret, At, TypeOK
  <2>2. "session" \in StepsOf(call[t].kind) \ {"update", "mint"}
    BY <2>1 DEF CallOK, StepsOf
  <2> QED
    BY <1>7, <2>1, <2>2, InsertTypeOK DEF SetupSecret, Quiet
<1>8. ASSUME NEW t \in Tabs, Mint(t) PROVE TypeOK'
  <2>1. call[t] # None /\ CallOK(t) /\ call[t].pc = "mint"
    BY <1>8 DEF Mint, At, TypeOK
  <2>2. "reread" \in StepsOf(call[t].kind) \ {"update", "mint"} /\ call[t].isolate \in Isolates
    BY <2>1 DEF CallOK, StepsOf
  <2> QED
    BY <1>8, <2>1, <2>2, InsertTypeOK DEF Mint, Quiet
<1>9. ASSUME NEW t \in Tabs, Verify(t) PROVE TypeOK'
  <2>1. /\ UNCHANGED <<server, known, lost>> /\ UNCHANGED <<admins, minted, secret>>
        /\ call[t] # None /\ CallOK(t) /\ call[t].pc = "verify"
    BY <1>9 DEF Verify, At, Quiet, TypeOK, server
  <2>2. CASE \E a : Answer(t, a, None)
    BY <2>1, <2>2, AnswerTypeOK DEF TypeOK
  <2>3. CASE /\ UNCHANGED tabs /\ call[t].admin # None
             /\ LET login == call[t].kind = "login"
                IN  call' = [call EXCEPT ![t].pc = IF login THEN "session" ELSE "update",
                                         ![t].password = None, ![t].admin = IF login THEN None ELSE @]
    <3>1. UNCHANGED <<cookie, path, denied>>
      BY <2>3 DEF tabs
    <3>2. DOMAIN call' = Tabs /\ \A u \in Tabs \ {t} : call'[u] = call[u]
      BY <2>3 DEF TypeOK
    <3>3. call'[t] = [kind |-> call[t].kind, pc |-> IF call[t].kind = "login" THEN "session" ELSE "update",
                      admin |-> IF call[t].kind = "login" THEN None ELSE call[t].admin,
                      password |-> None, isolate |-> call[t].isolate]
      BY <2>1, <2>3 DEF TypeOK, CallOK
    <3>4. call[t].kind \in {"login", "password"}
      BY <2>1 DEF CallOK, Kinds, StepsOf
    <3>5. CallOK(t)'
      <4>1. CASE call[t].kind = "login"
        BY <2>1, <3>1, <3>3, <4>1 DEF CallOK, StepsOf, Kinds
      <4>2. CASE call[t].kind = "password"
        <5>1. call'[t] = [kind |-> "password", pc |-> "update", admin |-> call[t].admin,
                          password |-> None, isolate |-> call[t].isolate]
          BY <3>3, <4>2
        <5>2. call[t].admin \in 1 .. Len(admins) /\ path[t] = "app"
          BY <2>1, <2>3, <4>2 DEF CallOK, PageOf
        <5>3. "update" \in StepsOf("password") /\ PageOf("password") = "app" /\ "password" \in Kinds
          BY DEF StepsOf, PageOf, Kinds
        <5>4. path'[t] = "app" /\ call[t].admin \in 1 .. Len(admins') \cup {None} /\ call[t].admin # None
          BY <2>1, <2>3, <3>1, <5>2
        <5> QED
          BY <5>1, <5>3, <5>4 DEF CallOK
      <4> QED
        BY <3>4, <4>1, <4>2
    <3>6. \A u \in Tabs \ {t} : call'[u] # None => CallOK(u)'
      <4>1. \A u \in Tabs \ {t} : call'[u] = call[u] /\ path'[u] = path[u]
        BY <3>1, <3>2
      <4>2. admins' \in Seq(Nat) /\ Len(admins) =< Len(admins')
        BY <2>1 DEF TypeOK
      <4> QED
        BY <3>2, <4>1, <4>2, OthersStay
    <3> QED
      BY <2>1, <3>1, <3>2, <3>5, <3>6 DEF TypeOK
  <2> QED
    BY <1>9, <2>2, <2>3 DEF Verify
<1>10. ASSUME NEW t \in Tabs, Session(t) PROVE TypeOK'
  <2>1. /\ UNCHANGED <<server, lost>> /\ UNCHANGED <<admins, minted, secret>>
        /\ call[t] # None /\ CallOK(t) /\ call[t].pc = "session"
    BY <1>10 DEF Session, At, Quiet, TypeOK, server
  <2>2. CASE Answer(t, "unauthorized", None) /\ UNCHANGED known
    BY <2>1, <2>2, AnswerTypeOK DEF TypeOK
  <2>3. ASSUME NEW i \in Isolates, NEW k \in 1 .. minted, WithKey(t, i, k) PROVE TypeOK'
    BY <2>1, <2>3, WithKeyTypeOK
  <2>4. ASSUME NEW i \in Isolates, call' = [call EXCEPT ![t].pc = "mint", ![t].isolate = i],
               UNCHANGED <<known, tabs>>
        PROVE  TypeOK'
    <3>1. UNCHANGED <<cookie, path, denied, known>>
      BY <2>4 DEF tabs
    <3>2. DOMAIN call' = Tabs /\ \A u \in Tabs \ {t} : call'[u] = call[u]
      BY <2>4 DEF TypeOK
    <3>3. call'[t] = [kind |-> call[t].kind, pc |-> "mint", admin |-> call[t].admin,
                      password |-> call[t].password, isolate |-> i]
      BY <2>1, <2>4 DEF TypeOK, CallOK
    <3>4. CallOK(t)'
      BY <2>1, <3>1, <3>3 DEF CallOK, StepsOf, Kinds
    <3>5. \A u \in Tabs \ {t} : call'[u] # None => CallOK(u)'
      BY <2>1, <3>1, <3>2, OthersStay DEF TypeOK
    <3> QED
      BY <2>1, <3>1, <3>2, <3>4, <3>5 DEF TypeOK
  <2>5. \A i \in Isolates : known[i] # None => known[i] \in 1 .. minted
    BY DEF TypeOK
  <2>6. secret # None => secret \in 1 .. minted
    BY DEF TypeOK
  <2> QED
    BY <1>10, <2>2, <2>3, <2>4, <2>5, <2>6 DEF Session
<1>11. ASSUME NEW t \in Tabs, Reread(t) PROVE TypeOK'
  <2>1. /\ UNCHANGED <<server, lost>>
        /\ call[t] # None /\ CallOK(t) /\ call[t].pc = "reread"
    BY <1>11 DEF Reread, At, Quiet, TypeOK
  <2>2. CASE secret # None /\ WithKey(t, call[t].isolate, secret)
    BY <2>1, <2>2, WithKeyTypeOK DEF TypeOK, CallOK
  <2>3. CASE UNCHANGED known /\ \E a : Answer(t, a, None)
    BY <2>1, <2>3, AnswerTypeOK DEF TypeOK
  <2> QED
    BY <1>11, <2>2, <2>3 DEF Reread
<1>12. ASSUME NEW t \in Tabs, UpdatePassword(t) PROVE TypeOK'
  <2>1. /\ UNCHANGED <<minted, secret, lost, known>> /\ Answer(t, "ok", None)
        /\ call[t] # None /\ CallOK(t) /\ call[t].pc = "update"
    BY <1>12 DEF UpdatePassword, At, Quiet, TypeOK
  <2>2. call[t].admin \in 1 .. Len(admins)
    BY <2>1 DEF CallOK
  <2>3. admins' \in Seq(Nat) /\ Len(admins') = Len(admins)
    BY <1>12, <2>2, ExceptSeq DEF UpdatePassword, TypeOK
  <2>4. DOMAIN call' = Tabs /\ \A u \in Tabs : call'[u] # None => CallOK(u)'
    <3>1. None \in 1 .. minted \cup {None} /\ Len(admins) =< Len(admins')
      BY <2>3 DEF TypeOK
    <3> QED
      BY <2>1, <2>3, <3>1, AnswerOK
  <2> QED
    BY <2>1, <2>3, <2>4, AnswerEffect DEF TypeOK
<1>13. ASSUME NEW t \in Tabs, FailRequest(t) PROVE TypeOK'
  BY <1>13, AnswerTypeOK DEF FailRequest, TypeOK
<1>14. ASSUME NEW i \in Isolates, Forget(i) PROVE TypeOK'
  <2>1. UNCHANGED <<admins, minted, secret, lost, cookie, path, denied, call>>
    BY <1>14 DEF Forget, server, tabs
  <2>2. known' \in [Isolates -> 1 .. minted \cup {None}]
    BY <1>14 DEF Forget, TypeOK
  <2>3. \A u \in Tabs : call'[u] # None => CallOK(u)'
    BY <2>1 DEF TypeOK, CallOK
  <2> QED
    BY <2>1, <2>2, <2>3 DEF TypeOK
<1>15. CASE Wipe
  <2>1. UNCHANGED <<admins, minted, known, cookie, path, denied, call>>
    BY <1>15 DEF Wipe, tabs
  <2>2. lost' \subseteq 1 .. minted /\ secret' = None
    BY <1>15 DEF Wipe, TypeOK
  <2>3. \A u \in Tabs : call'[u] # None => CallOK(u)'
    BY <2>1 DEF TypeOK, CallOK
  <2> QED
    BY <2>1, <2>2, <2>3 DEF TypeOK
<1>16. CASE UNCHANGED vars
  <2>1. UNCHANGED <<admins, minted, secret, lost, known, cookie, path, denied, call>>
    BY <1>16 DEF vars, server, tabs
  <2>2. \A u \in Tabs : call'[u] # None => CallOK(u)'
    BY <2>1 DEF TypeOK, CallOK
  <2> QED
    BY <2>1, <2>2 DEF TypeOK
<1> QED
  BY <1>1, <1>2, <1>3, <1>4, <1>5, <1>6, <1>7, <1>8, <1>9, <1>10, <1>11, <1>12, <1>13, <1>14,
     <1>15, <1>16 DEF Next, Serve

-----------------------------------------------------------------------------
(* Keys.                                                                   *)

\* A key that is handed out is one the database or an isolate held.
LEMMA HandedOutCurrent ==
    ASSUME TypeOK, KeysCurrent, UNCHANGED <<secret, lost>>,
           NEW k, k = None \/ k = secret \/ k \in lost,
           \A t \in Tabs : cookie'[t] \in {cookie[t], None, k},
           \A i \in Isolates : known'[i] \in {known[i], None, k}
    PROVE  KeysCurrent'
BY DEF KeysCurrent

\* A request that ends without a key.
LEMMA AnswerCurrent ==
    ASSUME TypeOK, KeysCurrent, NEW t \in Tabs, NEW a, Answer(t, a, None), UNCHANGED <<secret, lost, known>>
    PROVE  KeysCurrent'
<1>1. \A u \in Tabs : cookie'[u] \in {cookie[u], None}
  BY AnswerEffect DEF TypeOK
<1> QED
  BY <1>1, HandedOutCurrent

\* An isolate that has got hold of the stored key, or of one it kept.
LEMMA WithKeyCurrent ==
    ASSUME TypeOK, KeysCurrent, NEW t \in Tabs, NEW i \in Isolates, NEW k \in 1 .. minted,
           k = secret \/ k \in lost, WithKey(t, i, k), UNCHANGED <<secret, lost>>
    PROVE  KeysCurrent'
<1>1. \A j \in Isolates : known'[j] \in {known[j], k}
  BY WithKeyEffect DEF TypeOK
<1>2. \A u \in Tabs : cookie'[u] \in {cookie[u], None, k}
  <2>1. ASSUME NEW a, Answer(t, a, None) PROVE \A u \in Tabs : cookie'[u] \in {cookie[u], None}
    BY <2>1, AnswerEffect DEF TypeOK
  <2>2. CASE Answer(t, "ok", k)
    BY <2>2, AnswerEffect DEF TypeOK
  <2>3. CASE Then(t, "verify")
    BY <2>3 DEF Then, tabs
  <2> QED
    BY <2>1, <2>2, <2>3, WithKeyEffect
<1> QED
  BY <1>1, <1>2, HandedOutCurrent

\* A key is inserted only when there is none, so that it invalidates no cookie and no cache.
LEMMA InsertCurrent ==
    ASSUME TypeOK, KeysCurrent, InsertOnce, UNCHANGED <<cookie, known, lost>>
    PROVE  KeysCurrent'
BY InsertOnceEffect DEF KeysCurrent

\* Every step keeps the keys current.
LEMMA NextKeysCurrent == TypeOK /\ KeysCurrent /\ [Next]_vars => KeysCurrent'
<1> SUFFICES ASSUME TypeOK, KeysCurrent, [Next]_vars PROVE KeysCurrent'
  OBVIOUS
<1>1. ASSUME NEW t \in Tabs, SubmitSetup(t) \/ SubmitLogin(t) \/ Query(t) \/ Logout(t) \/ SubmitPassword(t)
                             \/ Reload(t) \/ RefreshStatus(t) \/ FailGuard(t)
      PROVE  KeysCurrent'
  <2>1. UNCHANGED <<secret, lost, known, cookie>>
    BY <1>1 DEF SubmitSetup, SubmitLogin, Query, Logout, SubmitPassword, Reload, RefreshStatus, FailGuard,
               server, tabs
  <2> QED
    BY <2>1 DEF KeysCurrent
<1>2. ASSUME NEW t \in Tabs, Expire(t) PROVE KeysCurrent'
  <2>1. UNCHANGED <<secret, lost, known>> /\ \A u \in Tabs : cookie'[u] \in {cookie[u], None}
    BY <1>2 DEF Expire, server, TypeOK
  <2> QED
    BY <2>1, HandedOutCurrent
<1>3. ASSUME NEW t \in Tabs, Check(t) PROVE KeysCurrent'
  <2>1. UNCHANGED <<secret, lost, known>>
    BY <1>3 DEF Check, Quiet, server
  <2>2. CASE UNCHANGED tabs
    BY <2>1, <2>2 DEF tabs, KeysCurrent
  <2>3. CASE Answer(t, "refused", None)
    BY <2>1, <2>3, AnswerCurrent
  <2> QED
    BY <1>3, <2>2, <2>3 DEF Check, Then
<1>4. ASSUME NEW t \in Tabs, InsertAdmin(t) PROVE KeysCurrent'
  BY <1>4 DEF InsertAdmin, Quiet, tabs, KeysCurrent
<1>5. ASSUME NEW t \in Tabs, SetupSecret(t) \/ Mint(t) PROVE KeysCurrent'
  <2>1. InsertOnce /\ UNCHANGED <<cookie, known, lost>>
    BY <1>5 DEF SetupSecret, Mint, Then, Quiet, tabs
  <2> QED
    BY <2>1, InsertCurrent
<1>6. ASSUME NEW t \in Tabs, Verify(t) PROVE KeysCurrent'
  <2>1. UNCHANGED <<secret, lost, known>>
    BY <1>6 DEF Verify, Quiet, server
  <2>2. CASE UNCHANGED tabs
    BY <2>1, <2>2 DEF tabs, KeysCurrent
  <2>3. CASE \E a : Answer(t, a, None)
    BY <2>1, <2>3, AnswerCurrent
  <2> QED
    BY <1>6, <2>2, <2>3 DEF Verify
<1>7. ASSUME NEW t \in Tabs, Session(t) PROVE KeysCurrent'
  <2>1. UNCHANGED <<secret, lost>>
    BY <1>7 DEF Session, Quiet, server
  <2>2. CASE Answer(t, "unauthorized", None) /\ UNCHANGED known
    BY <2>1, <2>2, AnswerCurrent
  <2>3. ASSUME NEW i \in Isolates, known[i] # None, WithKey(t, i, known[i]) PROVE KeysCurrent'
    <3>1. known[i] \in 1 .. minted /\ (known[i] = secret \/ known[i] \in lost)
      BY <2>3 DEF TypeOK, KeysCurrent
    <3> QED
      BY <2>1, <2>3, <3>1, WithKeyCurrent
  <2>4. ASSUME NEW i \in Isolates, secret # None, WithKey(t, i, secret) PROVE KeysCurrent'
    <3>1. secret \in 1 .. minted
      BY <2>4 DEF TypeOK
    <3> QED
      BY <2>1, <2>4, <3>1, WithKeyCurrent
  <2>5. CASE UNCHANGED <<known, tabs>>
    BY <2>1, <2>5 DEF tabs, KeysCurrent
  <2> QED
    BY <1>7, <2>2, <2>3, <2>4, <2>5 DEF Session
<1>8. ASSUME NEW t \in Tabs, Reread(t) PROVE KeysCurrent'
  <2>1. UNCHANGED <<secret, lost>>
    BY <1>8 DEF Reread, Quiet, server
  <2>2. CASE secret # None /\ WithKey(t, call[t].isolate, secret)
    <3>1. call[t].isolate \in Isolates /\ secret \in 1 .. minted
      BY <1>8, <2>2 DEF Reread, At, TypeOK, CallOK
    <3> QED
      BY <2>1, <2>2, <3>1, WithKeyCurrent
  <2>3. CASE UNCHANGED known /\ \E a : Answer(t, a, None)
    BY <2>1, <2>3, AnswerCurrent
  <2> QED
    BY <1>8, <2>2, <2>3 DEF Reread
<1>9. ASSUME NEW t \in Tabs, UpdatePassword(t) \/ FailRequest(t) PROVE KeysCurrent'
  <2>1. UNCHANGED <<secret, lost, known>> /\ \E a : Answer(t, a, None)
    BY <1>9 DEF UpdatePassword, FailRequest, Quiet, server
  <2> QED
    BY <2>1, AnswerCurrent
<1>10. ASSUME NEW i \in Isolates, Forget(i) PROVE KeysCurrent'
  <2>1. UNCHANGED <<secret, lost, cookie>> /\ \A j \in Isolates : known'[j] \in {known[j], None}
    BY <1>10 DEF Forget, server, tabs, TypeOK
  <2> QED
    BY <2>1, HandedOutCurrent
<1>11. CASE Wipe
  <2>1. lost' = lost \cup {secret} /\ secret' = None /\ UNCHANGED <<known, cookie>>
    BY <1>11 DEF Wipe, tabs
  <2>2. None \notin lost'
    <3>1. None \notin 1 .. minted
      BY SessionsAssumption DEF TypeOK
    <3> QED
      BY <1>11, <2>1, <3>1 DEF Wipe, TypeOK
  <2> QED
    BY <2>1, <2>2 DEF KeysCurrent
<1>12. CASE UNCHANGED vars
  BY <1>12 DEF vars, server, tabs, KeysCurrent
<1> QED
  BY <1>1, <1>2, <1>3, <1>4, <1>5, <1>6, <1>7, <1>8, <1>9, <1>10, <1>11, <1>12 DEF Next, Serve

-----------------------------------------------------------------------------
(* The setup race.                                                         *)

\* The count is kept by a step that adds no row and lets no setup past its check.
LEMMA NoneJoins ==
    ASSUME RoomForAll, TypeOK, admins' \in Seq(Nat), Len(admins') = Len(admins), Joining' \subseteq Joining
    PROVE  RoomForAll'
<1>1. IsFiniteSet(Joining)
  BY SessionsAssumption, FS_Subset DEF Joining
<1>2. IsFiniteSet(Joining') /\ Cardinality(Joining') =< Cardinality(Joining)
  BY <1>1, FS_Subset
<1>3. Cardinality(Joining') \in Nat /\ Cardinality(Joining) \in Nat /\ Cardinality(Tabs) \in Nat /\ Len(admins) \in Nat
  BY <1>1, <1>2, SessionsAssumption, FS_CardinalityType DEF TypeOK
<1> QED
  BY <1>2, <1>3 DEF RoomForAll

\* Only one tab's request moves, and not to the insertion.
LEMMA OneMoves ==
    ASSUME NEW t \in Tabs, \A u \in Tabs \ {t} : call'[u] = call[u], ~At(t, "insert")'
    PROVE  Joining' \subseteq Joining
BY DEF Joining, At

\* The end of a request, or another step of it, lets no setup past its check.
LEMMA MovesOnJoins ==
    ASSUME TypeOK, NEW t \in Tabs,
           \/ call' = [call EXCEPT ![t] = None]
           \/ call[t] # None /\ \E pc : pc # "insert" /\ call' = [call EXCEPT ![t].pc = pc]
    PROVE  Joining' \subseteq Joining
<1>1. \A u \in Tabs \ {t} : call'[u] = call[u]
  BY DEF TypeOK
<1>2. CASE call' = [call EXCEPT ![t] = None]
  BY <1>1, <1>2, OneMoves DEF At, TypeOK
<1>3. ASSUME NEW pc, pc # "insert", call[t] # None, call' = [call EXCEPT ![t].pc = pc]
      PROVE  Joining' \subseteq Joining
  <2>1. call'[t] = [call[t] EXCEPT !.pc = pc]
    BY <1>3 DEF TypeOK
  <2>2. call'[t].pc = pc
    BY <1>3, <2>1 DEF TypeOK, CallOK
  <2> QED
    BY <1>1, <1>3, <2>2, OneMoves DEF At
<1> QED
  BY <1>2, <1>3

\* Every step keeps the count: a setup passes its check only where there is no row, and gives its
\* place up for the row it inserts.
LEMMA NextRoomForAll == TypeOK /\ RoomForAll /\ [Next]_vars => RoomForAll'
<1> SUFFICES ASSUME TypeOK, RoomForAll, [Next]_vars PROVE RoomForAll'
  OBVIOUS
<1>1. ASSUME NEW t \in Tabs, SubmitSetup(t) \/ SubmitLogin(t) \/ Query(t) \/ Logout(t) \/ SubmitPassword(t)
      PROVE  RoomForAll'
  <2>1. UNCHANGED admins /\ \E kind, n, w : Open(t, kind, n, w)
    BY <1>1 DEF SubmitSetup, SubmitLogin, Query, Logout, SubmitPassword, server
  <2>2. call'[t].pc # "insert" /\ \A u \in Tabs \ {t} : call'[u] = call[u]
    BY <2>1 DEF Open, TypeOK
  <2>3. Joining' \subseteq Joining
    BY <2>2, OneMoves DEF At
  <2> QED
    BY <2>1, <2>3, NoneJoins DEF TypeOK
<1>2. ASSUME NEW t \in Tabs, Reload(t) \/ RefreshStatus(t) \/ Expire(t) \/ FailGuard(t) PROVE RoomForAll'
  <2>1. UNCHANGED <<admins, call>>
    BY <1>2 DEF Reload, RefreshStatus, Expire, FailGuard, server
  <2>2. Joining' = Joining
    BY <2>1 DEF Joining, At
  <2> QED
    BY <2>1, <2>2 DEF RoomForAll
<1>3. ASSUME NEW t \in Tabs, Check(t) PROVE RoomForAll'
  <2>1. UNCHANGED admins /\ call[t] # None
    BY <1>3 DEF Check, At, server
  <2>2. CASE admins = <<>>
    <3>1. Joining' \subseteq Tabs
      BY DEF Joining
    <3>2. Cardinality(Joining') =< Cardinality(Tabs)
      BY <3>1, SessionsAssumption, FS_Subset
    <3>3. Cardinality(Joining') \in Nat
      BY <3>1, SessionsAssumption, FS_Subset, FS_CardinalityType
    <3> QED
      BY <2>1, <2>2, <3>2, <3>3 DEF RoomForAll
  <2>3. CASE admins # <<>>
    <3>1. Then(t, "verify") \/ Answer(t, "refused", None)
      BY <1>3, <2>3 DEF Check, Initialized
    <3>2. Joining' \subseteq Joining
      BY <2>1, <3>1, MovesOnJoins DEF Then, Answer
    <3> QED
      BY <2>1, <3>2, NoneJoins DEF TypeOK
  <2> QED
    BY <2>2, <2>3
<1>4. ASSUME NEW t \in Tabs, InsertAdmin(t) PROVE RoomForAll'
  <2>1. Len(admins') = Len(admins) + 1 /\ t \in Joining
    BY <1>4 DEF InsertAdmin, TypeOK, Joining
  <2>2. Joining' \subseteq Joining /\ t \notin Joining'
    <3>1. call[t] # None /\ call' = [call EXCEPT ![t].pc = "secret"]
      BY <1>4 DEF InsertAdmin, At
    <3>2. Joining' \subseteq Joining
      BY <3>1, MovesOnJoins
    <3>3. call'[t].pc = "secret"
      BY <3>1 DEF TypeOK, CallOK
    <3> QED
      BY <3>2, <3>3 DEF Joining, At
  <2>3. IsFiniteSet(Joining)
    BY SessionsAssumption, FS_Subset DEF Joining
  <2>4. IsFiniteSet(Joining \ {t}) /\ Cardinality(Joining \ {t}) = Cardinality(Joining) - 1
    BY <2>1, <2>3, FS_RemoveElement
  <2>5. Joining' \subseteq Joining \ {t}
    BY <2>2
  <2>6. IsFiniteSet(Joining') /\ Cardinality(Joining') =< Cardinality(Joining \ {t})
    BY <2>4, <2>5, FS_Subset
  <2>7. /\ Cardinality(Joining') \in Nat /\ Cardinality(Joining) \in Nat
        /\ Cardinality(Tabs) \in Nat /\ Len(admins) \in Nat
    BY <2>3, <2>6, SessionsAssumption, FS_CardinalityType DEF TypeOK
  <2> QED
    BY <2>1, <2>4, <2>6, <2>7 DEF RoomForAll
<1>5. ASSUME NEW t \in Tabs, SetupSecret(t) \/ Mint(t) \/ Reread(t) \/ FailRequest(t) PROVE RoomForAll'
  <2>1. UNCHANGED admins
    BY <1>5 DEF SetupSecret, Mint, Reread, FailRequest, server
  <2>2. \/ call' = [call EXCEPT ![t] = None]
        \/ call[t] # None /\ \E pc : pc # "insert" /\ call' = [call EXCEPT ![t].pc = pc]
    BY <1>5 DEF SetupSecret, Mint, Reread, FailRequest, WithKey, Then, Answer, At
  <2> QED
    BY <2>1, <2>2, MovesOnJoins, NoneJoins DEF TypeOK
<1>6. ASSUME NEW t \in Tabs, Verify(t) \/ Session(t) PROVE RoomForAll'
  <2>1. UNCHANGED admins /\ call[t] # None
    BY <1>6 DEF Verify, Session, At, server
  <2>2. CASE \/ call' = [call EXCEPT ![t] = None]
             \/ \E pc : pc # "insert" /\ call' = [call EXCEPT ![t].pc = pc]
    BY <2>1, <2>2, MovesOnJoins, NoneJoins DEF TypeOK
  <2>3. ASSUME NEW n, NEW pc \in {"session", "update"},
               call' = [call EXCEPT ![t].pc = pc, ![t].password = None, ![t].admin = n]
        PROVE  RoomForAll'
    <3>1. call'[t] = [[[call[t] EXCEPT !.pc = pc] EXCEPT !.password = None] EXCEPT !.admin = n]
      BY <2>3 DEF TypeOK
    <3>2. call'[t].pc = pc /\ \A u \in Tabs \ {t} : call'[u] = call[u]
      BY <2>1, <2>3, <3>1 DEF TypeOK, CallOK
    <3> QED
      BY <2>1, <3>2, OneMoves, NoneJoins DEF At, TypeOK
  <2>4. ASSUME NEW i \in Isolates, call' = [call EXCEPT ![t].pc = "mint", ![t].isolate = i]
        PROVE  RoomForAll'
    <3>1. call'[t] = [[call[t] EXCEPT !.pc = "mint"] EXCEPT !.isolate = i]
      BY <2>4 DEF TypeOK
    <3>2. call'[t].pc = "mint" /\ \A u \in Tabs \ {t} : call'[u] = call[u]
      BY <2>1, <2>4, <3>1 DEF TypeOK, CallOK
    <3> QED
      BY <2>1, <3>2, OneMoves, NoneJoins DEF At, TypeOK
  <2>5. CASE Verify(t)
    BY <2>2, <2>3, <2>5 DEF Verify, Answer
  <2>6. CASE Session(t)
    BY <2>2, <2>4, <2>6 DEF Session, WithKey, Then, Answer
  <2> QED
    BY <1>6, <2>5, <2>6
<1>7. ASSUME NEW t \in Tabs, UpdatePassword(t) PROVE RoomForAll'
  <2>1. call[t] # None /\ CallOK(t) /\ call[t].pc = "update" /\ call' = [call EXCEPT ![t] = None]
    BY <1>7 DEF UpdatePassword, At, TypeOK, Answer
  <2>2. call[t].admin \in 1 .. Len(admins)
    BY <2>1 DEF CallOK
  <2>3. admins' \in Seq(Nat) /\ Len(admins') = Len(admins)
    BY <1>7, <2>2, ExceptSeq DEF UpdatePassword, TypeOK
  <2> QED
    BY <2>1, <2>3, MovesOnJoins, NoneJoins
<1>8. ASSUME UNCHANGED <<admins, call>> PROVE RoomForAll'
  <2>1. Joining' = Joining
    BY <1>8 DEF Joining, At
  <2> QED
    BY <1>8, <2>1 DEF RoomForAll
<1>9. ASSUME NEW i \in Isolates, Forget(i) PROVE RoomForAll'
  BY <1>8, <1>9 DEF Forget, server
<1>10. CASE Wipe
  BY <1>8, <1>10 DEF Wipe
<1>11. CASE UNCHANGED vars
  BY <1>8, <1>11 DEF vars, server
<1> QED
  BY <1>1, <1>2, <1>3, <1>4, <1>5, <1>6, <1>7, <1>9, <1>10, <1>11 DEF Next, Serve

-----------------------------------------------------------------------------
(* The theorems.                                                           *)

\* The inductive invariant holds throughout.
LEMMA Invariance == Spec => []IInv
<1>1. Init => IInv
  <2> SUFFICES ASSUME Init PROVE IInv
    OBVIOUS
  <2>1. KeysCurrent
    BY DEF Init, KeysCurrent
  <2>2. RoomForAll
    <3>1. Joining = {}
      BY DEF Init, Joining, At
    <3> QED
      BY <3>1, SessionsAssumption, FS_EmptySet, FS_CardinalityType DEF Init, RoomForAll
  <2> QED
    BY <2>1, <2>2, InitTypeOK DEF IInv
<1>2. IInv /\ [Next]_vars => IInv'
  BY NextTypeOK, NextKeysCurrent, NextRoomForAll DEF IInv
<1> QED
  BY <1>1, <1>2, PTL DEF Spec

\* The wizard makes no more administrators than there are setups handled at the same time, however
\* the checks and the insertions interleave (setup.ts:43-57).
THEOREM SetupsAreBounded == Spec => []OneShot
<1>1. IInv => OneShot
  <2>1. IsFiniteSet(Joining) /\ Cardinality(Joining) \in Nat
    BY SessionsAssumption, FS_Subset, FS_CardinalityType DEF Joining
  <2> QED
    BY <2>1, SessionsAssumption, FS_CardinalityType DEF IInv, RoomForAll, OneShot, TypeOK
<1> QED
  BY <1>1, Invariance, PTL

\* A cookie or a cached key that is not the stored key was taken by a wipe of the settings: no
\* isolate, however many mint the first key at once, signs with a key of its own, and no insertion
\* replaces a key in use (adminAuth.ts:46-76, setup.ts:57-63).
THEOREM OneKeyAtATime == Spec => []KeysCurrent
<1>1. IInv => KeysCurrent
  BY DEF IInv
<1> QED
  BY <1>1, Invariance, PTL

\* An answer that takes a page of the panel away from a tab is a 401.
LEMMA ThrownOut ==
    ASSUME TypeOK, NEW t \in Tabs, NEW a, NEW k, Answer(t, a, k),
           path[t] = "app", path'[t] # "app", call[t].kind # "logout"
    PROVE  a = "unauthorized"
BY DEF Answer, Arrive, TypeOK

\* A page of the panel never sends its operator to the login over a cookie that is signed with the
\* stored key, unless the isolate that looks at it still holds a key that a wipe took: no race of
\* isolates over the first key and no change of a password ends a session
\* (adminAuth.ts:46-76, 104-125).
THEOREM SessionsSurvive == Spec => SessionsLast
<1>1. ASSUME TypeOK, KeysCurrent, [Next]_vars, NEW t \in Tabs,
             path[t] = "app", path'[t] # "app", call[t] # None, call[t].kind # "logout", cookie[t] # None
      PROVE  cookie[t] \in lost \/ \E i \in Isolates : known'[i] \in lost
  <2>1. cookie[t] = secret \/ cookie[t] \in lost
    BY <1>1 DEF KeysCurrent
  <2>2. CallOK(t) /\ call[t].kind \in {"query", "password"}
    BY <1>1 DEF TypeOK, CallOK, Kinds, PageOf
  <2>3. \A u \in Tabs \ {t} : ~Reload(u) /\ ~FailGuard(u) /\ \A a, k : ~Answer(u, a, k)
    BY <1>1 DEF Reload, FailGuard, Answer, Go, Arrive, TypeOK
  <2>4. ~Reload(t) /\ ~FailGuard(t)
    BY <1>1 DEF Reload, FailGuard
  <2>5. ~UNCHANGED path
    BY <1>1
  <2>6. \E a, k : /\ Answer(t, a, k)
                  /\ Check(t) \/ Verify(t) \/ Session(t) \/ Reread(t) \/ UpdatePassword(t) \/ FailRequest(t)
    <3>1. \A u \in Tabs : ~(\/ SubmitSetup(u) \/ SubmitLogin(u) \/ Query(u) \/ SubmitPassword(u) \/ Logout(u)
                            \/ RefreshStatus(u) \/ Expire(u) \/ InsertAdmin(u) \/ SetupSecret(u) \/ Mint(u))
      BY <2>5 DEF SubmitSetup, SubmitLogin, Query, SubmitPassword, Logout, RefreshStatus, Expire,
                  InsertAdmin, SetupSecret, Mint, Then, tabs
    <3>2. ~Wipe /\ (\A i \in Isolates : ~Forget(i)) /\ ~UNCHANGED vars
      BY <2>5 DEF Wipe, Forget, vars, tabs
    <3>3. \E u \in Tabs : Check(u) \/ Verify(u) \/ Session(u) \/ Reread(u) \/ UpdatePassword(u) \/ FailRequest(u)
      BY <1>1, <2>3, <2>4, <3>1, <3>2 DEF Next, Serve
    <3>4. \A u \in Tabs : Check(u) \/ Verify(u) \/ Session(u) \/ Reread(u) \/ UpdatePassword(u) \/ FailRequest(u)
                            => \E a, k : Answer(u, a, k)
      <4>1. \A u \in Tabs : Check(u) => UNCHANGED path \/ \E a, k : Answer(u, a, k)
        BY DEF Check, Then, tabs
      <4>2. \A u \in Tabs : Verify(u) => UNCHANGED path \/ \E a, k : Answer(u, a, k)
        BY DEF Verify, tabs
      <4>3. \A u \in Tabs : Session(u) \/ Reread(u) => UNCHANGED path \/ \E a, k : Answer(u, a, k)
        BY DEF Session, Reread, WithKey, Then, tabs
      <4> QED
        BY <2>5, <4>1, <4>2, <4>3 DEF UpdatePassword, FailRequest
    <3> QED
      BY <2>3, <3>3, <3>4
  <2>7. \A a, k : Answer(t, a, k) => a = "unauthorized"
    BY <1>1, ThrownOut
  <2>8. CASE Check(t) \/ UpdatePassword(t) \/ FailRequest(t)
    BY <2>2, <2>5, <2>7, <2>8 DEF Check, UpdatePassword, FailRequest, Then, tabs
  <2>9. CASE Verify(t)
    BY <2>2, <2>5, <2>7, <2>9 DEF Verify, tabs
  <2>10. ASSUME NEW i \in Isolates, NEW k \in 1 .. minted, WithKey(t, i, k), k = secret \/ k = known[i]
         PROVE  cookie[t] \in lost \/ \E j \in Isolates : known'[j] \in lost
    <3>1. cookie[t] # k
      BY <2>2, <2>5, <2>7, <2>10 DEF WithKey, Then, tabs
    <3>2. known'[i] = k
      BY <1>1, <2>10 DEF WithKey, TypeOK
    <3>3. k = secret \/ k \in lost
      BY <1>1, <2>10, SessionsAssumption DEF KeysCurrent, TypeOK
    <3> QED
      BY <2>1, <3>1, <3>2, <3>3
  <2>11. CASE Session(t)
    BY <1>1, <2>5, <2>7, <2>10, <2>11 DEF Session, TypeOK, tabs
  <2>12. CASE Reread(t)
    BY <1>1, <2>1, <2>2, <2>7, <2>10, <2>12 DEF Reread, At, CallOK, TypeOK
  <2> QED
    BY <2>6, <2>8, <2>9, <2>11, <2>12
<1>2. ASSUME IInv, [Next]_vars
      PROVE  [\A t \in Tabs :
        (path[t] = "app" /\ path'[t] # "app" /\ call[t] # None /\ call[t].kind # "logout" /\ cookie[t] # None)
            => cookie[t] \in lost \/ \E i \in Isolates : known'[i] \in lost]_vars
  BY <1>1, <1>2 DEF IInv
<1> QED
  BY <1>2, Invariance, PTL DEF Spec, SessionsLast

-----------------------------------------------------------------------------
(* Forms.  What each kind of field may hold, in a row and in a dialog.     *)

FieldKinds == {"text", "choice", "optional", "nullable", "required", "rate", "entry", "port", "endpoint", "address", "unshown"}

Text == Word \ {""}

Value(kind) ==
    CASE kind \in {"text", "choice", "address"} -> Text
      [] kind \in {"optional", "nullable", "required", "endpoint"} -> Text \cup {Null}
      [] kind = "rate" -> Nat \cup {Null}
      [] kind = "entry" -> {"in", "out"}
      [] kind = "port" -> Int
      [] kind = "unshown" -> Word \cup {Null}

Input(kind) ==
    CASE kind \in {"text", "optional", "nullable", "required", "endpoint", "address"} -> Word
      [] kind = "choice" -> Text
      [] kind = "rate" -> Int \cup {Null}
      [] kind = "entry" -> {"in", "out"}
      [] kind = "port" -> Int
      [] kind = "unshown" -> {""}

Fits(t, r) == \A f \in FieldsOf(t) : r[f] \in Value(Form[t][f])
Holds(t, values) == \A f \in FieldsOf(t) : values[f] \in Input(Form[t][f])

\* The fields of the dialogs.  A link with a port has a type, and a rule with a target an endpoint.
LEMMA FormKinds ==
    ASSUME NEW t \in Table, NEW f \in FieldsOf(t)
    PROVE  /\ Form[t][f] \in FieldKinds
           /\ Form[t][f] = "port" => "chain_type" \in FieldsOf(t) /\ Form[t]["chain_type"] = "entry"
           /\ Form[t][f] = "address" =>
                t = "rules" /\ f = "targets" /\ "endpoint_id" \in FieldsOf(t) /\ Form[t]["endpoint_id"] = "endpoint"
<1>1. DOMAIN Form = {"nodes", "tunnels", "chains", "rules", "endpoints", "users", "packages"}
  BY DEF Form
<1>2. CASE t = "nodes"
  BY <1>2 DEF Form, NodeForm, FieldsOf, FieldKinds
<1>3. CASE t = "tunnels"
  BY <1>3 DEF Form, TunnelForm, FieldsOf, FieldKinds
<1>4. CASE t = "chains"
  BY <1>4 DEF Form, ChainForm, FieldsOf, FieldKinds
<1>5. CASE t = "rules"
  BY <1>5 DEF Form, RuleForm, FieldsOf, FieldKinds
<1>6. CASE t = "endpoints"
  BY <1>6 DEF Form, EndpointForm, FieldsOf, FieldKinds
<1>7. CASE t = "users"
  BY <1>7 DEF Form, UserForm, FieldsOf, FieldKinds
<1>8. CASE t = "packages"
  BY <1>8 DEF Form, PackageForm, FieldsOf, FieldKinds
<1> QED
  BY <1>1, <1>2, <1>3, <1>4, <1>5, <1>6, <1>7, <1>8 DEF Table

\* A row is shown by what its field may hold.
LEMMA ShownHolds ==
    ASSUME NEW kind \in FieldKinds, NEW v \in Value(kind)
    PROVE  Shown(kind, v) \in Input(kind)
<1>1. CASE kind = "rate"
  <2>1. v \in Nat \cup {Null} /\ Input(kind) = Int \cup {Null}
    BY <1>1 DEF Value, Input
  <2>2. Shown(kind, v) = IF v = Null THEN Null ELSE Rounded(v)
    BY <1>1 DEF Shown
  <2>3. v \in Nat => Rounded(v) \in Int
    BY DEF Rounded, Hundredth
  <2> QED
    BY <2>1, <2>2, <2>3
<1>2. CASE kind # "rate"
  BY <1>2, FormsAssumption DEF Word, FieldKinds, Value, Input, Shown, Text
<1> QED
  BY <1>1, <1>2

\* What can be entered, and what a new dialog begins with, a field may hold.
LEMMA EnteredHolds ==
    ASSUME NEW kind \in FieldKinds
    PROVE  Entered(kind) \subseteq Input(kind) /\ Filled(kind) \in Input(kind)
<1>1. CASE kind = "rate"
  <2>1. Entered(kind) = {Null, 0, 100, 200} /\ Input(kind) = Int \cup {Null}
    BY <1>1 DEF Entered, Input
  <2>2. Filled(kind) = Null
    BY <1>1 DEF Filled, Blank
  <2> QED
    BY <2>1, <2>2
<1>4. CASE kind = "port"
  <2>1. Entered(kind) = {0, 1000} /\ Input(kind) = Int
    BY <1>4 DEF Entered, Input
  <2>2. Filled(kind) = 0
    BY <1>4 DEF Filled, Blank
  <2> QED
    BY <2>1, <2>2
<1>2. CASE kind = "choice"
  <2>1. Entered(kind) = {"a", "b"} /\ Input(kind) = Text
    BY <1>2 DEF Entered, Input
  <2>2. Filled(kind) = "a"
    BY <1>2 DEF Filled, Blank
  <2> QED
    BY <2>1, <2>2 DEF Text, Word
<1>5. CASE kind = "entry"
  BY <1>5 DEF Entered, Input, Filled, Blank
<1>6. CASE kind = "unshown"
  BY <1>6 DEF Entered, Input, Filled, Blank
<1>3. CASE kind \in {"text", "optional", "nullable", "required", "endpoint", "address"}
  <2>1. Input(kind) = Word
    BY <1>3 DEF Input
  <2>2. Entered(kind) \subseteq {"", "a", "b", "e"}
    <3>1. ASSUME kind \in {"text", "optional", "nullable", "required"} PROVE Entered(kind) = {"", "a", "b"}
      <4>1. CASE kind = "text"
        BY <4>1 DEF Entered
      <4>2. CASE kind = "optional"
        BY <4>2 DEF Entered
      <4>3. CASE kind = "nullable"
        BY <4>3 DEF Entered
      <4>4. CASE kind = "required"
        BY <4>4 DEF Entered
      <4> QED
        BY <3>1, <4>1, <4>2, <4>3, <4>4
    <3>2. CASE kind = "endpoint"
      BY <3>2 DEF Entered
    <3>3. CASE kind = "address"
      BY <3>3 DEF Entered
    <3> QED
      BY <1>3, <3>1, <3>2, <3>3
  <2>3. Filled(kind) \in {"", "a"}
    BY <1>3 DEF Filled, Blank
  <2> QED
    BY <2>1, <2>2, <2>3 DEF Word
<1> QED
  BY <1>1, <1>2, <1>3, <1>4, <1>5, <1>6 DEF FieldKinds

\* What is sent of a field that is not refused is what the row may hold, or leaves it.
LEMMA SentFits ==
    ASSUME NEW kind \in FieldKinds, NEW s \in Input(kind), ~Refused(kind, s)
    PROVE  /\ kind = "address" /\ s # "" => SentNull(kind, s) \in Value(kind)
           /\ kind # "address" => SentNull(kind, s) \in Value(kind)
           /\ SentNull(kind, s) # Keep
           /\ kind # "optional" \/ s # "" => Sent(kind, s) = SentNull(kind, s)
           /\ kind = "optional" /\ s = "" => Sent(kind, s) = Keep
<1>1. CASE kind = "rate"
  <2>1. s \in Int \cup {Null} /\ Value(kind) = Nat \cup {Null}
    BY <1>1 DEF Value, Input
  <2>2. SentNull(kind, s) = IF s = Null THEN Null ELSE s * Hundredth
    BY <1>1 DEF SentNull
  <2>3. s # Null => s \in Nat /\ s * Hundredth \in Nat
    BY <1>1, <2>1 DEF Refused, Hundredth
  <2>4. SentNull(kind, s) \in Value(kind) /\ SentNull(kind, s) # Keep
    BY <2>1, <2>2, <2>3, FormsAssumption
  <2> QED
    BY <1>1, <2>4 DEF Sent
<1>2. CASE kind = "port"
  BY <1>2, FormsAssumption DEF Word, Value, Input, Sent, SentNull, Refused
<1>3. CASE kind \in FieldKinds \ {"rate", "port"}
  <2>1. s \in Word
    BY <1>3 DEF Word, FieldKinds, Input, Text
  <2>2. SentNull(kind, s) = IF s = "" THEN Null ELSE s
    BY <1>3 DEF SentNull
  <2>3. SentNull(kind, s) # Keep
    BY <2>1, <2>2, FormsAssumption
  <2>4. s # "" => s \in Value(kind)
    BY <1>3, <2>1 DEF FieldKinds, Value, Input, Text
  <2>5. s = "" /\ kind # "address" => Null \in Value(kind)
    BY <1>3 DEF FieldKinds, Value, Input, Text, Refused
  <2> QED
    BY <2>1, <2>2, <2>3, <2>4, <2>5 DEF Sent
<1> QED
  BY <1>1, <1>2, <1>3

\* What can be sent: every field has what its kind may hold, or is left alone.
Leaves(t, p) == \A f \in FieldsOf(t) : p[f] \in Value(Form[t][f]) \cup {Keep}

\* Every field but an optional one is there.
Complete(t, p) == \A f \in FieldsOf(t) : p[f] \in Value(Form[t][f]) \/ (p[f] = Keep /\ Form[t][f] = "optional")

\* A row never holds the mark of a field that is not sent.
LEMMA KeepIsNoValue == \A kind \in FieldKinds : Keep \notin Value(kind)
<1> SUFFICES ASSUME NEW kind \in FieldKinds PROVE Keep \notin Value(kind)
  OBVIOUS
<1>1. kind = "rate" => Value(kind) = Nat \cup {Null}
  BY DEF Value
<1>2. kind = "port" => Value(kind) = Int
  BY DEF Value
<1>3. kind \in FieldKinds \ {"rate", "port"} => Value(kind) \subseteq Word \cup {Null}
  BY DEF FieldKinds, Value, Text, Word
<1> QED
  BY <1>1, <1>2, <1>3, FormsAssumption

\* A target that comes from an endpoint is one.
LEMMA AddressFits == \A e : AddressOf(e) \in Value("address") /\ AddressOf(e) # Keep
BY FormsAssumption DEF AddressOf, Value, Text, Word

\* A form that is not refused sends a complete row.
LEMMA PayloadFits ==
    ASSUME NEW t \in Table, NEW values, Holds(t, values), ~Invalid(t, values)
    PROVE  Complete(t, Payload(t, values)) /\ Leaves(t, Payload(t, values))
<1> DEFINE p == Payload(t, values)
<1>1. ASSUME NEW f \in FieldsOf(t) PROVE p[f] \in Value(Form[t][f]) \/ (p[f] = Keep /\ Form[t][f] = "optional")
  <2> DEFINE kind == Form[t][f]
  <2>1. kind \in FieldKinds /\ values[f] \in Input(kind) /\ ~Refused(kind, values[f])
    BY FormKinds DEF Holds, Invalid
  <2>2. CASE kind = "port" /\ values["chain_type"] = "in"
    <3>1. p[f] = 0
      BY <2>2 DEF Payload
    <3> QED
      BY <2>2, <3>1 DEF Value
  <2>3. CASE kind = "address" /\ values["endpoint_id"] # ""
    <3>1. p[f] = AddressOf(values["endpoint_id"])
      BY <2>3 DEF Payload
    <3> QED
      BY <2>3, <3>1, AddressFits
  <2>4. CASE ~(kind = "port" /\ values["chain_type"] = "in") /\ ~(kind = "address" /\ values["endpoint_id"] # "")
    <3>1. p[f] = Sent(kind, values[f])
      BY <2>4 DEF Payload
    <3>2. kind = "address" => values[f] # ""
      <4> SUFFICES ASSUME kind = "address" PROVE values[f] # ""
        OBVIOUS
      <4>1. t = "rules" /\ f = "targets"
        BY FormKinds
      <4>2. values["endpoint_id"] = ""
        BY <2>4
      <4> QED
        BY <4>1, <4>2 DEF Invalid
    <3> HIDE DEF p, kind
    <3> QED
      BY <2>1, <3>1, <3>2, SentFits DEF kind
  <2> QED
    BY <2>2, <2>3, <2>4
<1> QED
  BY <1>1 DEF Complete, Leaves

\* The handlers' last look at a row leaves it one.
LEMMA NormalFits ==
    ASSUME NEW t \in Table, NEW r, Fits(t, r)
    PROVE  Fits(t, Normal(t, r))
<1>1. ASSUME NEW f \in FieldsOf(t) PROVE Normal(t, r)[f] \in Value(Form[t][f])
  <2>1. CASE Form[t][f] = "port" /\ r["chain_type"] = "in"
    <3>1. Normal(t, r)[f] = 0
      BY <2>1 DEF Normal
    <3> QED
      BY <2>1, <3>1 DEF Value
  <2>2. CASE Form[t][f] = "address" /\ r["endpoint_id"] # Null
    <3>1. Normal(t, r)[f] = AddressOf(r["endpoint_id"])
      BY <2>2 DEF Normal
    <3> QED
      BY <2>2, <3>1, AddressFits
  <2>3. CASE ~(Form[t][f] = "port" /\ r["chain_type"] = "in") /\ ~(Form[t][f] = "address" /\ r["endpoint_id"] # Null)
    <3>1. Normal(t, r)[f] = r[f]
      BY <2>3 DEF Normal
    <3> QED
      BY <3>1 DEF Fits
  <2> QED
    BY <2>1, <2>2, <2>3
<1> QED
  BY <1>1 DEF Fits

\* A row that is updated stays one.
LEMMA UpdatedFits ==
    ASSUME NEW t \in Table, NEW r, Fits(t, r), NEW p, Leaves(t, p)
    PROVE  Fits(t, Updated(t, r, p))
<1> DEFINE m == [f \in FieldsOf(t) |-> IF p[f] = Keep THEN r[f] ELSE p[f]]
<1>1. Fits(t, m)
  BY DEF Fits, Leaves
<1> HIDE DEF m
<1>2. Fits(t, Normal(t, m))
  BY <1>1, NormalFits
<1> QED
  BY <1>2 DEF Updated, m

\* A complete row is created.
LEMMA CreatedFits ==
    ASSUME NEW t \in Table, NEW p, Complete(t, p)
    PROVE  Fits(t, Created(t, p))
<1> DEFINE m == [f \in FieldsOf(t) |-> IF p[f] = Keep THEN Null ELSE p[f]]
<1>1. ASSUME NEW f \in FieldsOf(t) PROVE m[f] \in Value(Form[t][f])
  <2>1. Form[t][f] = "optional" => Null \in Value(Form[t][f])
    BY DEF Value
  <2>2. CASE p[f] = Keep
    <3>1. m[f] = Null
      BY <2>2
    <3>2. Keep \notin Value(Form[t][f])
      BY FormKinds, KeepIsNoValue
    <3> QED
      BY <2>1, <2>2, <3>1, <3>2 DEF Complete
  <2>3. CASE p[f] # Keep
    BY <2>3 DEF Complete
  <2> QED
    BY <2>2, <2>3
<1>2. Fits(t, m)
  BY <1>1 DEF Fits
<1> HIDE DEF m
<1>3. Fits(t, Normal(t, m))
  BY <1>2, NormalFits
<1> QED
  BY <1>3 DEF Created, m

-----------------------------------------------------------------------------
(* What an edit does to a row.                                             *)

Typed == {Untyped} \cup Input(Form[subject][focus])

\* The fields of a dialog that was opened on a row, or on none.
Edited(base, typed) ==
    [f \in FieldsOf(subject) |->
        CASE f = focus /\ typed # Untyped -> typed
          [] ~(f = focus /\ typed # Untyped) /\ base = Null -> Filled(Form[subject][f])
          [] OTHER -> Shown(Form[subject][f], base[f])]

\* A dialog holds what its fields may.
LEMMA EditedHolds ==
    ASSUME subject \in Table, focus \in FieldsOf(subject), NEW typed \in Typed, NEW base, base # Null => Fits(subject, base)
    PROVE  Holds(subject, Edited(base, typed))
<1>1. ASSUME NEW f \in FieldsOf(subject) PROVE Edited(base, typed)[f] \in Input(Form[subject][f])
  <2>1. Form[subject][f] \in FieldKinds
    BY FormKinds
  <2>2. CASE f = focus /\ typed # Untyped
    BY <2>2 DEF Edited, Typed
  <2>3. CASE ~(f = focus /\ typed # Untyped) /\ base = Null
    <3>1. Edited(base, typed)[f] = Filled(Form[subject][f])
      BY <2>3 DEF Edited
    <3> QED
      BY <2>1, <3>1, EnteredHolds
  <2>4. CASE ~(f = focus /\ typed # Untyped) /\ base # Null
    <3>1. Edited(base, typed)[f] = Shown(Form[subject][f], base[f])
      BY <2>4 DEF Edited
    <3> QED
      BY <2>1, <2>4, <3>1, ShownHolds DEF Fits
  <2> QED
    BY <2>2, <2>3, <2>4
<1> QED
  BY <1>1 DEF Holds

\* A field of the row is what was typed in, or what it was before.
FieldSaved(f, typed, base, new) ==
    IF f = focus /\ typed # Untyped
    THEN Arrives(f, new) /\ ~(Form[subject][f] = "optional" /\ typed = "")
            => new[f] = SentNull(Form[subject][f], typed)
    ELSE Survives(f, new) /\ Survives(f, base) => new[f] = base[f]

\* An edit of a row as it is stored changes what was typed in and nothing else.
LEMMA EditKeeps ==
    ASSUME subject \in Table, focus \in FieldsOf(subject), NEW typed \in Typed, NEW base, base # Null, Fits(subject, base),
           ~Invalid(subject, Edited(base, typed)), NEW f \in FieldsOf(subject),
           NEW new, new = Updated(subject, base, Payload(subject, Edited(base, typed)))
    PROVE  FieldSaved(f, typed, base, new)
<1> DEFINE values == Edited(base, typed)
           p == Payload(subject, values)
           m == [g \in FieldsOf(subject) |-> IF p[g] = Keep THEN base[g] ELSE p[g]]
<1>1. Holds(subject, values) /\ Leaves(subject, p)
  BY EditedHolds, PayloadFits
<1>2. new = Normal(subject, m)
  BY DEF Updated
<1>3. \A g \in FieldsOf(subject) :
        /\ Form[subject][g] \in FieldKinds /\ values[g] \in Input(Form[subject][g]) /\ ~Refused(Form[subject][g], values[g])
        /\ base[g] \in Value(Form[subject][g])
        /\ values[g] = IF g = focus /\ typed # Untyped THEN typed ELSE Shown(Form[subject][g], base[g])
  <2> SUFFICES ASSUME NEW g \in FieldsOf(subject)
               PROVE  /\ Form[subject][g] \in FieldKinds /\ values[g] \in Input(Form[subject][g])
                      /\ ~Refused(Form[subject][g], values[g]) /\ base[g] \in Value(Form[subject][g])
                      /\ values[g] = IF g = focus /\ typed # Untyped THEN typed ELSE Shown(Form[subject][g], base[g])
    OBVIOUS
  <2>1. Form[subject][g] \in FieldKinds /\ values[g] \in Input(Form[subject][g]) /\ base[g] \in Value(Form[subject][g])
    BY <1>1, FormKinds DEF Holds, Fits
  <2>2. ~Refused(Form[subject][g], values[g])
    BY DEF Invalid
  <2>3. values[g] = IF g = focus /\ typed # Untyped THEN typed ELSE Shown(Form[subject][g], base[g])
    BY DEF Edited
  <2> QED
    BY <2>1, <2>2, <2>3
<1> HIDE DEF values
<1>4. \A g \in FieldsOf(subject) :
        /\ Form[subject][g] = "port" /\ values["chain_type"] = "in" => p[g] = 0
        /\ Form[subject][g] = "address" /\ values["endpoint_id"] # "" => p[g] = AddressOf(values["endpoint_id"])
        /\ ~(Form[subject][g] = "port" /\ values["chain_type"] = "in")
             /\ ~(Form[subject][g] = "address" /\ values["endpoint_id"] # "")
             => p[g] = Sent(Form[subject][g], values[g])
  BY DEF Payload
<1>5. \A g \in FieldsOf(subject) :
        /\ Form[subject][g] = "port" /\ m["chain_type"] = "in" => new[g] = 0
        /\ Form[subject][g] = "address" /\ m["endpoint_id"] # Null => new[g] = AddressOf(m["endpoint_id"])
        /\ ~(Form[subject][g] = "port" /\ m["chain_type"] = "in")
             /\ ~(Form[subject][g] = "address" /\ m["endpoint_id"] # Null)
             => new[g] = m[g]
  BY <1>2 DEF Normal
<1>6. \A g \in FieldsOf(subject) : m[g] = IF p[g] = Keep THEN base[g] ELSE p[g]
  OBVIOUS
<1> HIDE DEF p, m
<1>7. \A g \in FieldsOf(subject) : Form[subject][g] = "entry" => new[g] = values[g] /\ m[g] = values[g]
  <2> SUFFICES ASSUME NEW g \in FieldsOf(subject), Form[subject][g] = "entry" PROVE new[g] = values[g] /\ m[g] = values[g]
    OBVIOUS
  <2>1. values[g] \in {"in", "out"}
    BY <1>3 DEF Input
  <2>2. p[g] = values[g] /\ values[g] # Keep
    BY <1>4, <2>1, FormsAssumption DEF Sent, SentNull, Word
  <2> QED
    BY <1>5, <1>6, <2>2
<1>8. \A g \in FieldsOf(subject) : Form[subject][g] = "endpoint" =>
        new[g] = m[g] /\ m[g] = IF values[g] = "" THEN Null ELSE values[g]
  <2> SUFFICES ASSUME NEW g \in FieldsOf(subject), Form[subject][g] = "endpoint"
               PROVE  new[g] = m[g] /\ m[g] = IF values[g] = "" THEN Null ELSE values[g]
    OBVIOUS
  <2>1. values[g] \in Word
    BY <1>3 DEF Input
  <2>2. p[g] = IF values[g] = "" THEN Null ELSE values[g]
    BY <1>4 DEF Sent, SentNull
  <2>3. p[g] # Keep
    BY <2>1, <2>2, FormsAssumption
  <2> QED
    BY <1>5, <1>6, <2>2, <2>3
<1> DEFINE kind == Form[subject][f]
<1>9. /\ kind \in FieldKinds /\ values[f] \in Input(kind) /\ ~Refused(kind, values[f]) /\ base[f] \in Value(kind)
      /\ values[f] = IF f = focus /\ typed # Untyped THEN typed ELSE Shown(kind, base[f])
  BY <1>3
\* The value of a field that does not follow from another one.
<1>10. kind = "port" /\ new["chain_type"] = "out" => values["chain_type"] # "in" /\ m["chain_type"] # "in"
  BY <1>7, FormKinds
<1>11. kind = "address" /\ new["endpoint_id"] = Null => values["endpoint_id"] = "" /\ m["endpoint_id"] = Null
  <2> SUFFICES ASSUME kind = "address", new["endpoint_id"] = Null
               PROVE  values["endpoint_id"] = "" /\ m["endpoint_id"] = Null
    OBVIOUS
  <2>1. "endpoint_id" \in FieldsOf(subject) /\ Form[subject]["endpoint_id"] = "endpoint"
    BY FormKinds
  <2>2. values["endpoint_id"] \in Word
    BY <1>3, <2>1 DEF Input
  <2> QED
    BY <1>8, <2>1, <2>2, FormsAssumption
<1>12. ASSUME kind = "port" => new["chain_type"] = "out", kind = "address" => new["endpoint_id"] = Null
       PROVE  IF kind = "optional" /\ values[f] = "" THEN new[f] = base[f] ELSE new[f] = SentNull(kind, values[f])
  <2>1. p[f] = Sent(kind, values[f]) /\ new[f] = m[f]
    BY <1>4, <1>5, <1>10, <1>11, <1>12
  <2> HIDE DEF kind
  <2>2. CASE kind = "optional" /\ values[f] = ""
    BY <1>6, <1>9, <2>1, <2>2, SentFits
  <2>3. CASE ~(kind = "optional" /\ values[f] = "")
    <3>1. Sent(kind, values[f]) = SentNull(kind, values[f]) /\ SentNull(kind, values[f]) # Keep
      BY <1>9, <2>3, SentFits
    <3> QED
      BY <1>6, <2>1, <2>3, <3>1
  <2> QED
    BY <2>2, <2>3
<1>13. CASE f = focus /\ typed # Untyped
  <2>1. Arrives(f, new) => (kind = "port" => new["chain_type"] = "out") /\ (kind = "address" => new["endpoint_id"] = Null)
    BY DEF Arrives, Survives
  <2> QED
    BY <1>9, <1>12, <1>13, <2>1 DEF FieldSaved
<1>14. CASE ~(f = focus /\ typed # Untyped)
  <2> SUFFICES ASSUME Survives(f, new), Survives(f, base) PROVE new[f] = base[f]
    BY <1>14 DEF FieldSaved
  <2>1. (kind = "port" => new["chain_type"] = "out") /\ (kind = "address" => new["endpoint_id"] = Null) /\ kind # "unshown"
    BY DEF Survives
  <2>2. values[f] = Shown(kind, base[f])
    BY <1>9, <1>14
  <2>3. CASE kind = "rate"
    <3>1. base[f] = Null \/ (base[f] \in Nat /\ base[f] % Hundredth = 0)
      BY <1>9, <2>3 DEF Survives, Value
    <3>2. new[f] = SentNull(kind, values[f])
      BY <1>12, <2>1, <2>3
    <3>3. CASE base[f] = Null
      BY <2>2, <2>3, <3>2, <3>3 DEF Shown, SentNull
    <3>4. CASE base[f] # Null
      <4>1. values[f] = Rounded(base[f])
        BY <2>2, <2>3, <3>4 DEF Shown
      <4>2. Rounded(base[f]) \in Int /\ Rounded(base[f]) * Hundredth = base[f]
        BY <3>1, <3>4 DEF Rounded, Hundredth
      <4>3. Rounded(base[f]) # Null
        BY <4>2, FormsAssumption
      <4> QED
        BY <2>3, <3>2, <4>1, <4>2, <4>3 DEF SentNull
    <3> QED
      BY <3>3, <3>4
  <2>4. CASE kind = "port"
    <3>1. base[f] \in Int /\ base[f] # Null
      BY <1>9, <2>4, FormsAssumption DEF Value
    <3>2. values[f] = base[f]
      BY <2>2, <2>4, <3>1 DEF Shown
    <3> QED
      BY <1>12, <2>1, <2>4, <3>2 DEF SentNull
  <2>5. CASE kind \in FieldKinds \ {"rate", "port", "unshown"}
    <3>1. base[f] # Null => base[f] # "" /\ values[f] = base[f]
      BY <1>9, <2>2, <2>5 DEF Value, Text, Shown, FieldKinds, Word
    <3>2. base[f] = Null => values[f] = ""
      BY <2>2, <2>5 DEF Shown
    <3>3. SentNull(kind, values[f]) = IF values[f] = "" THEN Null ELSE values[f]
      BY <2>5 DEF SentNull
    <3> QED
      BY <1>12, <2>1, <3>1, <3>2, <3>3
  <2> QED
    BY <1>9, <2>1, <2>3, <2>4, <2>5
<1> QED
  BY <1>13, <1>14
-----------------------------------------------------------------------------
(* The inductive invariant.                                                *)

\* The rows a table may hold.
Stock == {r \in [FieldsOf(subject) -> Word \cup Int \cup {Null}] : Fits(subject, r)}

\* A list is at a later revision than what was fetched or acknowledged of it; what is fresh, or will
\* be, is no older than what was acknowledged, unless an invalidation let an earlier fetch run.
IsData(d, now) ==
    /\ d = [rev |-> d.rev, passed |-> d.passed]
    /\ d.rev \in Nat /\ d.rev <= now /\ d.passed \in BOOLEAN

IsFlight(g, now, least) ==
    /\ g = [since |-> g.since, passed |-> g.passed]
    /\ g.since \in Nat /\ g.passed \in BOOLEAN
    /\ ~g.passed => g.since >= least

Honest(e, now, least) ==
    /\ e = [data |-> e.data, fresh |-> e.fresh, failed |-> e.failed, flight |-> e.flight]
    /\ e.fresh \in BOOLEAN /\ e.failed \in BOOLEAN
    /\ e.data = Null \/ IsData(e.data, now)
    /\ e.fresh => IsData(e.data, now)
    /\ e.fresh /\ ~e.data.passed => e.data.rev >= least
    /\ e.flight = Null \/ IsFlight(e.flight, now, least)

ListsAreHonest ==
    /\ rev \in [Lists -> Nat] /\ acked \in [Lists -> Nat]
    /\ cache = [k \in Lists |-> cache[k]]
    /\ \A k \in Lists : acked[k] <= rev[k] /\ Honest(cache[k], rev[k], acked[k])

TableIsKept ==
    /\ subject \in Table /\ focus \in FieldsOf(subject)
    /\ rows \in Seq(Stock \cup {Null}) /\ Len(rows) = rev[subject] + 1

IsDialog(d) ==
    /\ d = [op |-> d.op, base |-> d.base, typed |-> d.typed, late |-> d.late]
    /\ d.op \in {"create", "edit"} /\ d.typed \in Typed
    /\ d.op = "create" => d.base = Null
    /\ d.op = "edit" => d.base # Null /\ d.base \in Stock

DialogIsOpen == draft \in Typed /\ (dialog = Null \/ IsDialog(dialog))

\* What is sent comes from a dialog that was not refused, or is the status alone.
IsRequest(q, now) ==
    /\ q = [op |-> q.op, base |-> q.base, typed |-> q.typed, payload |-> q.payload, mine |-> q.mine,
            done |-> q.done, at |-> q.at]
    /\ q.op \in {"create", "edit", "toggle", "delete"}
    /\ q.at = Null \/ (q.at \in [Lists -> Nat] /\ \A k \in Lists : q.at[k] <= now[k])
    /\ q.op = "create" => Complete(subject, q.payload)
    /\ q.op = "toggle" => Leaves(subject, q.payload)
    /\ q.op = "edit" =>
         /\ q.base # Null /\ q.base \in Stock /\ q.typed \in Typed
         /\ ~Invalid(subject, Edited(q.base, q.typed))
         /\ q.payload = Payload(subject, Edited(q.base, q.typed))

RequestsAreSent == \A q \in requests : IsRequest(q, rev)

\* While a dialog that was not opened late is open, what the page waits for of its kind is its own.
WaitsForItsOwn ==
    dialog # Null /\ ~dialog.late =>
        \A q \in requests : q.mine /\ q.op = dialog.op => q.base = dialog.base

ConsoleInv ==
    /\ TableIsKept
    /\ ListsAreHonest
    /\ DialogIsOpen
    /\ RequestsAreSent
    /\ WaitsForItsOwn

\* Every write changes its own table's list, and a page invalidates what it counts on to change.
LEMMA WritesAreTold ==
    ASSUME NEW t \in Table, NEW op \in {"create", "edit", "toggle", "delete"}
    PROVE  t \in Affects(t, op) /\ Promised(t, op) \subseteq Invalidates(t, op)
<1>1. Table = {"nodes", "tunnels", "chains", "rules", "endpoints", "users", "packages"}
  BY DEF Table, Form
<1>2. CASE t = "nodes"
  BY <1>2 DEF Affects, Promised, LeftOld, Invalidates
<1>3. CASE t = "tunnels"
  BY <1>3 DEF Affects, Promised, LeftOld, Invalidates
<1>4. CASE t = "chains"
  BY <1>4 DEF Affects, Promised, LeftOld, Invalidates
<1>5. CASE t = "rules"
  BY <1>5 DEF Affects, Promised, LeftOld, Invalidates
<1>6. CASE t = "endpoints"
  BY <1>6 DEF Affects, Promised, LeftOld, Invalidates
<1>7. CASE t = "users"
  BY <1>7 DEF Affects, Promised, LeftOld, Invalidates
<1>8. CASE t = "packages"
  BY <1>8 DEF Affects, Promised, LeftOld, Invalidates
<1> QED
  BY <1>1, <1>2, <1>3, <1>4, <1>5, <1>6, <1>7, <1>8

-----------------------------------------------------------------------------
(* Entries of the cache.                                                   *)

\* Nothing is known of a list that was never fetched.
LEMMA NoEntryHonest == \A now, least : Honest(NoEntry, now, least)
BY DEF Honest, NoEntry

\* A fetch that starts now will bring what is acknowledged.
LEMMA AskedHonest ==
    ASSUME NEW k, rev[k] \in Nat, NEW least \in Nat, least <= rev[k], NEW e, Honest(e, rev[k], least)
    PROVE  Honest([e EXCEPT !.flight = Asking(k)], rev[k], least)
<1>1. IsFlight(Asking(k), rev[k], least)
  BY DEF IsFlight, Asking
<1> QED
  BY <1>1 DEF Honest

\* So does one that starts only where none is under way.
LEMMA FetchingHonest ==
    ASSUME NEW k, rev[k] \in Nat, NEW least \in Nat, least <= rev[k], NEW e, Honest(e, rev[k], least)
    PROVE  Honest(Fetching(k, e), rev[k], least) /\ Honest(Refetching(k, e), rev[k], least)
BY AskedHonest DEF Fetching, Refetching

\* An entry that is not fresh promises nothing but what its fetch will bring.
LEMMA StaleHonest ==
    ASSUME NEW now, NEW least, NEW data, data = Null \/ IsData(data, now), NEW failed \in BOOLEAN,
           NEW flight, flight = Null \/ IsFlight(flight, now, least)
    PROVE  Honest([data |-> data, fresh |-> FALSE, failed |-> failed, flight |-> flight], now, least)
BY DEF Honest

\* A fetch that is let run is the same one.
LEMMA FlightPasses ==
    ASSUME NEW g, NEW since, NEW passed \in BOOLEAN, NEW yes \in BOOLEAN, g = [since |-> since, passed |-> passed]
    PROVE  [g EXCEPT !.passed = yes] = [since |-> since, passed |-> yes]
OBVIOUS

\* After an invalidation whatever is acknowledged by then may be counted on.
LEMMA InvalidatedHonest ==
    ASSUME NEW k, rev[k] \in Nat, NEW least, NEW later \in Nat, later <= rev[k], NEW e, Honest(e, rev[k], least)
    PROVE  Honest(Invalidated(k, e), rev[k], later)
<1> DEFINE m == [e EXCEPT !.fresh = FALSE]
<1>1. m = [data |-> e.data, fresh |-> FALSE, failed |-> e.failed, flight |-> e.flight]
  <2>1. PICK data, fresh, failed, flight : e = [data |-> data, fresh |-> fresh, failed |-> failed, flight |-> flight]
    BY DEF Honest
  <2> DEFINE no == FALSE
  <2>2. no = FALSE
    OBVIOUS
  <2> HIDE DEF no
  <2>3. [e EXCEPT !.fresh = no] = [data |-> data, fresh |-> no, failed |-> failed, flight |-> flight]
    BY <2>1, <2>2
  <2>4. m = [e EXCEPT !.fresh = no]
    BY <2>2, Zenon
  <2>5. m = [data |-> data, fresh |-> no, failed |-> failed, flight |-> flight]
    BY <2>3, <2>4, Zenon
  <2>6. data = e.data /\ failed = e.failed /\ flight = e.flight
    BY <2>1
  <2> HIDE DEF m
  <2> QED
    BY <2>2, <2>5, <2>6, Zenon
<1>2. m.data = e.data /\ m.fresh = FALSE /\ m.failed = e.failed /\ m.flight = e.flight
  BY <1>1
<1>3. (e.data = Null \/ IsData(e.data, rev[k])) /\ (e.flight = Null \/ IsFlight(e.flight, rev[k], least)) /\ e.failed \in BOOLEAN
  BY DEF Honest
<1>4. Invalidated(k, e) = IF OnShow(k) /\ (e.data # Null \/ e.flight = Null) THEN Refetching(k, m) ELSE Passed(m)
  BY DEF Invalidated
<1> HIDE DEF m
<1>5. CASE OnShow(k) /\ (e.data # Null \/ e.flight = Null)
  <2>1. Refetching(k, m) = [data |-> e.data, fresh |-> FALSE, failed |-> e.failed, flight |-> Asking(k)]
    BY <1>1, <1>2, <1>5 DEF Refetching
  <2>2. IsFlight(Asking(k), rev[k], later)
    BY DEF IsFlight, Asking
  <2> QED
    BY <1>3, <1>4, <1>5, <2>1, <2>2, StaleHonest
<1>6. CASE ~(OnShow(k) /\ (e.data # Null \/ e.flight = Null))
  <2>1. CASE e.flight = Null
    <3>1. Passed(m) = m
      BY <1>2, <2>1 DEF Passed
    <3> QED
      BY <1>1, <1>2, <1>3, <1>4, <1>6, <2>1, <3>1 DEF Honest
  <2>2. CASE e.flight # Null
    <3>1. /\ e.flight = [since |-> e.flight.since, passed |-> e.flight.passed]
          /\ e.flight.since \in Nat /\ e.flight.passed \in BOOLEAN
      BY <1>3, <2>2 DEF IsFlight
    <3>2. [e.flight EXCEPT !.passed = TRUE] = [since |-> e.flight.since, passed |-> TRUE]
      <4>1. PICK since \in Nat, passed \in BOOLEAN : e.flight = [since |-> since, passed |-> passed]
        BY <3>1
      <4>2. since = e.flight.since
        BY <4>1
      <4> DEFINE yes == TRUE
      <4>3. yes = TRUE /\ yes \in BOOLEAN
        OBVIOUS
      <4> HIDE DEF yes
      <4>5. [e.flight EXCEPT !.passed = yes] = [since |-> since, passed |-> yes]
        <5> DEFINE g == e.flight
        <5>1. g = [since |-> since, passed |-> passed]
          BY <4>1
        <5> HIDE DEF g
        <5>2. [g EXCEPT !.passed = yes] = [since |-> since, passed |-> yes]
          BY <4>3, <5>1, FlightPasses
        <5> QED
          BY <5>2 DEF g
      <4> QED
        BY <4>2, <4>3, <4>5, Zenon
    <3>3. Passed(m) = [data |-> e.data, fresh |-> FALSE, failed |-> e.failed,
                       flight |-> [since |-> e.flight.since, passed |-> TRUE]]
      BY <1>1, <1>2, <2>2, <3>2 DEF Passed
    <3>4. IsFlight([since |-> e.flight.since, passed |-> TRUE], rev[k], later)
      BY <3>1 DEF IsFlight
    <3> QED
      BY <1>3, <1>4, <1>6, <3>3, <3>4, StaleHonest
  <2> QED
    BY <2>1, <2>2
<1> QED
  BY <1>5, <1>6

\* Time takes nothing away from that.
LEMMA AgedHonest ==
    ASSUME NEW k, NEW now, NEW least, NEW e, Honest(e, now, least), NEW a \in Aged(k, e)
    PROVE  Honest(a, now, least)
<1>1. a = e \/ a = [e EXCEPT !.fresh = FALSE] \/ a = NoEntry
  BY DEF Aged
<1>2. CASE a = [e EXCEPT !.fresh = FALSE]
  BY <1>2 DEF Honest
<1> QED
  BY <1>1, <1>2, NoEntryHonest

\* Nor does a longer history.
LEMMA LaterHonest ==
    ASSUME NEW now \in Nat, NEW later \in Nat, now <= later, NEW least, NEW e, Honest(e, now, least)
    PROVE  Honest(e, later, least)
<1>1. ASSUME NEW d, IsData(d, now) PROVE IsData(d, later)
  BY <1>1 DEF IsData
<1>2. ASSUME NEW g, IsFlight(g, now, least) PROVE IsFlight(g, later, least)
  BY <1>2 DEF IsFlight
<1> QED
  BY <1>1, <1>2 DEF Honest

\* The lists a page looks at.
LEMMA LookedHonest ==
    ASSUME ListsAreHonest, NEW ks, Looked(ks)
    PROVE  cache' = [k \in Lists |-> cache'[k]] /\ \A k \in Lists : Honest(cache'[k], rev[k], acked[k])
<1>1. PICK aged :
        /\ \A k \in Lists : aged[k] \in IF k \in ks THEN Aged(k, cache[k]) ELSE {cache[k]}
        /\ cache' = [k \in Lists |-> IF k \in ks THEN Fetching(k, aged[k]) ELSE cache[k]]
  BY DEF Looked
<1>2. ASSUME NEW k \in Lists PROVE Honest(cache'[k], rev[k], acked[k])
  <2>1. rev[k] \in Nat /\ acked[k] \in Nat /\ acked[k] <= rev[k] /\ Honest(cache[k], rev[k], acked[k])
    BY DEF ListsAreHonest
  <2>2. CASE k \in ks
    <3>1. Honest(aged[k], rev[k], acked[k])
      BY <1>1, <2>1, <2>2, AgedHonest
    <3>2. Honest(Fetching(k, aged[k]), rev[k], acked[k])
      BY <2>1, <3>1, FetchingHonest
    <3> QED
      BY <1>1, <2>2, <3>2
  <2>3. CASE k \notin ks
    BY <1>1, <2>1, <2>3
  <2> QED
    BY <2>2, <2>3
<1> QED
  BY <1>1, <1>2

-----------------------------------------------------------------------------
(* What each part of the invariant reads.                                  *)

\* The revisions, the rows, the lists, the dialog and the requests, while the tab's sample stays.
LEMMA TableStays ==
    ASSUME TableIsKept, UNCHANGED <<fixed, tables>>
    PROVE  TableIsKept'
BY DEF TableIsKept, fixed, tables, Stock, FieldsOf

\* A step that leaves revisions and acknowledgements alone has only the entries to answer for.
LEMMA ListsFrom ==
    ASSUME ListsAreHonest, UNCHANGED <<fixed, tables, acked>>, cache' = [k \in Lists |-> cache'[k]],
           \A k \in Lists : Honest(cache'[k], rev[k], acked[k])
    PROVE  ListsAreHonest'
<1>1. Lists' = Lists /\ rev' = rev /\ acked' = acked
  BY DEF fixed, tables, Lists
<1>2. \A k \in Lists : acked[k] <= rev[k]
  BY DEF ListsAreHonest
<1>3. rev \in [Lists -> Nat] /\ acked \in [Lists -> Nat]
  BY DEF ListsAreHonest
<1> QED
  BY <1>1, <1>2, <1>3 DEF ListsAreHonest

\* A step that leaves the lists alone leaves them honest.
LEMMA ListsStay ==
    ASSUME ListsAreHonest, UNCHANGED <<fixed, tables, acked, cache>>
    PROVE  ListsAreHonest'
<1>1. cache' = [k \in Lists |-> cache'[k]] /\ \A k \in Lists : Honest(cache'[k], rev[k], acked[k])
  BY DEF ListsAreHonest
<1> QED
  BY <1>1, ListsFrom

\* A step has only the dialog it leaves open to answer for.
LEMMA DialogFrom ==
    ASSUME UNCHANGED fixed, draft' \in Typed, dialog' = Null \/ IsDialog(dialog')
    PROVE  DialogIsOpen'
<1>1. Typed' = Typed /\ Stock' = Stock
  BY DEF fixed, Typed, Stock, Fits
<1> QED
  BY <1>1 DEF DialogIsOpen, IsDialog

\* A step that leaves the dialog alone leaves it what it was.
LEMMA DialogStays ==
    ASSUME DialogIsOpen, UNCHANGED <<fixed, dialog, draft>>
    PROVE  DialogIsOpen'
<1>1. draft' \in Typed /\ (dialog' = Null \/ IsDialog(dialog'))
  BY DEF DialogIsOpen
<1> QED
  BY <1>1, DialogFrom

\* A step has only the requests it leaves under way to answer for.
LEMMA RequestsFrom ==
    ASSUME UNCHANGED fixed, \A q \in requests' : IsRequest(q, rev')
    PROVE  RequestsAreSent'
<1>1. Typed' = Typed /\ Stock' = Stock /\ Lists' = Lists /\ subject' = subject
  BY DEF fixed, Typed, Stock, Fits, Lists
<1>2. \A base, typed : Edited(base, typed)' = Edited(base, typed)
  BY DEF fixed, Edited
<1>3. \A q : IsRequest(q, rev)' <=> IsRequest(q, rev')
  BY <1>1, <1>2 DEF IsRequest
<1> QED
  BY <1>3 DEF RequestsAreSent

\* What was answered at some revision stays so.
LEMMA LaterRequest ==
    ASSUME rev \in [Lists -> Nat], NEW later \in [Lists -> Nat], \A k \in Lists : rev[k] <= later[k],
           NEW q, IsRequest(q, rev)
    PROVE  IsRequest(q, later)
<1>1. ASSUME q.at \in [Lists -> Nat], \A k \in Lists : q.at[k] <= rev[k], NEW k \in Lists
      PROVE  q.at[k] <= later[k]
  BY <1>1
<1> QED
  BY <1>1 DEF IsRequest

\* A step that sends nothing and writes nothing leaves the requests what they were.
LEMMA RequestsStay ==
    ASSUME RequestsAreSent, UNCHANGED <<fixed, tables>>, requests' \subseteq requests
    PROVE  RequestsAreSent'
<1>1. \A q \in requests' : IsRequest(q, rev')
  BY DEF RequestsAreSent, tables
<1> QED
  BY <1>1, RequestsFrom DEF fixed

\* A step that sends nothing and opens nothing leaves nobody waiting for another's answer.
LEMMA WaitsStay ==
    ASSUME WaitsForItsOwn, requests' \subseteq requests, dialog' = Null \/ dialog' = dialog
    PROVE  WaitsForItsOwn'
BY DEF WaitsForItsOwn

\* A step of the cache alone.
LEMMA CacheStep ==
    ASSUME ConsoleInv, UNCHANGED <<fixed, tables, ui, requests, acked, budget>>, cache' = [k \in Lists |-> cache'[k]],
           \A k \in Lists : Honest(cache'[k], rev[k], acked[k])
    PROVE  ConsoleInv'
<1>1. TableIsKept'
  BY TableStays DEF ConsoleInv
<1>2. ListsAreHonest'
  BY ListsFrom DEF ConsoleInv
<1>3. DialogIsOpen'
  BY DialogStays DEF ConsoleInv, ui
<1>4. RequestsAreSent'
  BY RequestsStay DEF ConsoleInv
<1>5. WaitsForItsOwn'
  BY WaitsStay DEF ConsoleInv, ui
<1> QED
  BY <1>1, <1>2, <1>3, <1>4, <1>5 DEF ConsoleInv

\* A step of the dialog alone.
LEMMA DialogStep ==
    ASSUME ConsoleInv, UNCHANGED <<fixed, tables, cache, requests, acked>>, draft' \in Typed,
           dialog' = Null \/ IsDialog(dialog'), WaitsForItsOwn'
    PROVE  ConsoleInv'
<1>1. TableIsKept'
  BY TableStays DEF ConsoleInv
<1>2. ListsAreHonest'
  BY ListsStay DEF ConsoleInv
<1>3. DialogIsOpen'
  BY DialogFrom
<1>4. RequestsAreSent'
  BY RequestsStay DEF ConsoleInv
<1> QED
  BY <1>1, <1>2, <1>3, <1>4 DEF ConsoleInv

-----------------------------------------------------------------------------
(* Fetches.                                                                *)

\* A failed fetch leaves the data, which is then no longer fresh.
LEMMA EntryFails ==
    ASSUME NEW e, e = [data |-> e.data, fresh |-> e.fresh, failed |-> e.failed, flight |-> e.flight],
           NEW new, new = [e EXCEPT !.flight = Null, !.failed = TRUE, !.fresh = FALSE]
    PROVE  /\ new = [data |-> new.data, fresh |-> new.fresh, failed |-> new.failed, flight |-> new.flight]
           /\ new.data = e.data /\ new.fresh = FALSE /\ new.failed = TRUE /\ new.flight = Null
OBVIOUS

\* What arrives was there since the fetch began, and so since what was acknowledged by then.
LEMMA StepLand == ASSUME ConsoleInv, NEW k \in Lists, Land(k) PROVE ConsoleInv'
<1> DEFINE g == cache[k].flight
<1>1. /\ rev \in [Lists -> Nat] /\ cache = [j \in Lists |-> cache[j]]
      /\ \A j \in Lists : Honest(cache[j], rev[j], acked[j])
  BY DEF ConsoleInv, ListsAreHonest
<1>2. IsFlight(g, rev[k], acked[k])
  BY <1>1 DEF Land, Honest
<1>3. PICK n \in g.since .. rev[k] :
        cache' = [cache EXCEPT ![k] =
            [data |-> [rev |-> n, passed |-> g.passed], fresh |-> TRUE, failed |-> FALSE, flight |-> Null]]
  BY DEF Land
<1> DEFINE d == [rev |-> n, passed |-> g.passed]
           e == [data |-> d, fresh |-> TRUE, failed |-> FALSE, flight |-> Null]
<1>4. g.since \in Nat /\ rev[k] \in Nat /\ g.passed \in BOOLEAN /\ (~g.passed => g.since >= acked[k])
  BY <1>1, <1>2 DEF IsFlight
<1>5. n \in Nat /\ n <= rev[k] /\ n >= g.since /\ acked[k] \in Nat
  BY <1>3, <1>4 DEF ConsoleInv, ListsAreHonest
<1> HIDE DEF g
<1>6. d.rev = n /\ d.passed = g.passed /\ d = [rev |-> n, passed |-> g.passed]
  OBVIOUS
<1> HIDE DEF d
<1>7. IsData(d, rev[k]) /\ (~d.passed => d.rev >= acked[k])
  BY <1>4, <1>5, <1>6 DEF IsData
<1>8. Honest(e, rev[k], acked[k])
  BY <1>7 DEF Honest
<1> HIDE DEF e
<1>9. cache' = [j \in Lists |-> IF j = k THEN e ELSE cache[j]]
  BY <1>1, <1>3 DEF e, d, g
<1>10. cache' = [j \in Lists |-> cache'[j]] /\ \A j \in Lists : Honest(cache'[j], rev[j], acked[j])
  BY <1>1, <1>8, <1>9
<1>11. UNCHANGED <<fixed, tables, ui, requests, acked, budget>>
  BY DEF Land
<1> QED
  BY <1>10, <1>11, CacheStep

\* A fetch that fails shows nothing new.
LEMMA StepFailGet == ASSUME ConsoleInv, NEW k \in Lists, FailGet(k) PROVE ConsoleInv'
<1> DEFINE e == cache[k]
           new == [e EXCEPT !.flight = Null, !.failed = TRUE, !.fresh = FALSE]
<1>1. cache = [j \in Lists |-> cache[j]] /\ \A j \in Lists : Honest(cache[j], rev[j], acked[j])
  BY DEF ConsoleInv, ListsAreHonest
<1>2. cache' = [cache EXCEPT ![k] = new]
  BY DEF FailGet
<1>3. Honest(e, rev[k], acked[k])
  BY <1>1
<1> HIDE DEF e
<1>4. e = [data |-> e.data, fresh |-> e.fresh, failed |-> e.failed, flight |-> e.flight]
  BY <1>3 DEF Honest
<1>5. /\ new = [data |-> new.data, fresh |-> new.fresh, failed |-> new.failed, flight |-> new.flight]
      /\ new.data = e.data /\ new.fresh = FALSE /\ new.failed = TRUE /\ new.flight = Null
  BY <1>4, EntryFails
<1> HIDE DEF new
<1>6. Honest(new, rev[k], acked[k])
  BY <1>3, <1>5 DEF Honest
<1>7. cache' = [j \in Lists |-> IF j = k THEN new ELSE cache[j]]
  BY <1>1, <1>2
<1>8. cache' = [j \in Lists |-> cache'[j]] /\ \A j \in Lists : Honest(cache'[j], rev[j], acked[j])
  BY <1>1, <1>6, <1>7
<1>9. UNCHANGED <<fixed, tables, ui, requests, acked, budget>>
  BY DEF FailGet
<1> QED
  BY <1>8, <1>9, CacheStep

\* The button fetches what there is now.
LEMMA StepRefresh == ASSUME ConsoleInv, Refresh PROVE ConsoleInv'
<1>1. /\ cache = [j \in Lists |-> cache[j]]
      /\ \A j \in Lists : rev[j] \in Nat /\ acked[j] \in Nat /\ acked[j] <= rev[j] /\ Honest(cache[j], rev[j], acked[j])
  BY DEF ConsoleInv, ListsAreHonest
<1>2. subject \in Lists
  BY DEF Lists
<1>3. Honest(Refetching(subject, cache[subject]), rev[subject], acked[subject])
  BY <1>1, <1>2, FetchingHonest
<1>4. cache' = [j \in Lists |-> IF j = subject THEN Refetching(subject, cache[subject]) ELSE cache[j]]
  BY <1>1, <1>2 DEF Refresh
<1>5. cache' = [j \in Lists |-> cache'[j]] /\ \A j \in Lists : Honest(cache'[j], rev[j], acked[j])
  BY <1>1, <1>3, <1>4
<1> QED
  BY <1>5, CacheStep DEF Refresh

\* So does a link.
LEMMA StepHover == ASSUME ConsoleInv, NEW p, Hover(p) PROVE ConsoleInv'
<1>1. Looked({p} \cap Lists) /\ UNCHANGED <<fixed, tables, ui, requests, acked, budget>>
  BY DEF Hover
<1>2. cache' = [j \in Lists |-> cache'[j]] /\ \A j \in Lists : Honest(cache'[j], rev[j], acked[j])
  BY <1>1, LookedHonest DEF ConsoleInv
<1> QED
  BY <1>1, <1>2, CacheStep

\* A request that is marked keeps the rest.
LEMMA MarkedRequest ==
    ASSUME NEW q, NEW n,
           q = [op |-> q.op, base |-> q.base, typed |-> q.typed, payload |-> q.payload, mine |-> q.mine,
                done |-> q.done, at |-> q.at],
           n = [q EXCEPT !.mine = FALSE]
    PROVE  /\ n = [op |-> n.op, base |-> n.base, typed |-> n.typed, payload |-> n.payload, mine |-> n.mine,
                   done |-> n.done, at |-> n.at]
           /\ n.op = q.op /\ n.base = q.base /\ n.typed = q.typed /\ n.payload = q.payload /\ n.at = q.at
OBVIOUS

\* A page that is left takes nothing from its requests but their dialogs.
LEMMA LeftRequest ==
    ASSUME NEW q, NEW now, IsRequest(q, now)
    PROVE  IsRequest([q EXCEPT !.mine = FALSE], now)
<1> DEFINE n == [q EXCEPT !.mine = FALSE]
<1>1. q = [op |-> q.op, base |-> q.base, typed |-> q.typed, payload |-> q.payload, mine |-> q.mine,
           done |-> q.done, at |-> q.at]
  BY DEF IsRequest
<1>2. /\ n = [op |-> n.op, base |-> n.base, typed |-> n.typed, payload |-> n.payload, mine |-> n.mine,
              done |-> n.done, at |-> n.at]
      /\ n.op = q.op /\ n.base = q.base /\ n.typed = q.typed /\ n.payload = q.payload /\ n.at = q.at
  BY <1>1, MarkedRequest
<1> HIDE DEF n
<1>3. IsRequest(n, now)
  BY <1>2 DEF IsRequest
<1> QED
  BY <1>3 DEF n

\* A page that is left takes its dialog with it, and its requests wait for none.
LEMMA StepNavigate == ASSUME ConsoleInv, NEW p, Navigate(p) PROVE ConsoleInv'
<1>1. /\ Looked(Shows[p] \cap Lists) /\ UNCHANGED <<fixed, tables, acked>>
      /\ dialog' = Null /\ draft' = Untyped /\ requests' = {[q EXCEPT !.mine = FALSE] : q \in requests}
  BY DEF Navigate
<1>2. TableIsKept'
  BY <1>1, TableStays DEF ConsoleInv
<1>3. ListsAreHonest'
  <2>1. cache' = [j \in Lists |-> cache'[j]] /\ \A j \in Lists : Honest(cache'[j], rev[j], acked[j])
    BY <1>1, LookedHonest DEF ConsoleInv
  <2> QED
    BY <1>1, <2>1, ListsFrom DEF ConsoleInv
<1>4. DialogIsOpen'
  BY <1>1, DialogFrom DEF Typed
<1>5. RequestsAreSent'
  <2>1. \A q \in requests : IsRequest(q, rev')
    BY <1>1 DEF ConsoleInv, RequestsAreSent, tables
  <2>2. \A q \in requests' : IsRequest(q, rev')
    BY <1>1, <2>1, LeftRequest
  <2> QED
    BY <1>1, <2>2, RequestsFrom
<1>6. WaitsForItsOwn'
  BY <1>1 DEF WaitsForItsOwn
<1> QED
  BY <1>2, <1>3, <1>4, <1>5, <1>6 DEF ConsoleInv

-----------------------------------------------------------------------------
(* Dialogs.                                                                *)

\* A row of the subject that is known is one.
LEMMA RowFits ==
    ASSUME ConsoleInv, Row # Null
    PROVE  Row \in Stock
<1>1. subject \in Lists
  BY DEF Lists
<1>2. cache[subject].data # Null /\ Row = rows[cache[subject].data.rev + 1]
  BY DEF Row
<1>3. cache[subject].data.rev \in Nat /\ cache[subject].data.rev <= rev[subject] /\ rev[subject] \in Nat
  BY <1>1, <1>2 DEF ConsoleInv, ListsAreHonest, Honest, IsData
<1>4. rows \in Seq(Stock \cup {Null}) /\ Len(rows) = rev[subject] + 1
  BY DEF ConsoleInv, TableIsKept
<1>5. cache[subject].data.rev + 1 \in 1 .. Len(rows)
  BY <1>3, <1>4
<1> HIDE DEF Row
<1> QED
  BY <1>2, <1>4, <1>5

\* A dialog opens with the draft, late if a save of its kind is awaited.
LEMMA StepOpenCreate == ASSUME ConsoleInv, OpenCreate PROVE ConsoleInv'
<1>1. /\ UNCHANGED <<fixed, tables, cache, requests, acked>> /\ draft' = draft /\ draft \in Typed
      /\ dialog' = [op |-> "create", base |-> Null, typed |-> draft, late |-> Waiting("create")]
  BY DEF OpenCreate, ConsoleInv, DialogIsOpen
<1>2. IsDialog(dialog')
  BY <1>1 DEF IsDialog
<1>3. dialog'.op = "create" /\ (~dialog'.late => ~Waiting("create"))
  BY <1>1
<1>4. WaitsForItsOwn'
  BY <1>1, <1>3 DEF WaitsForItsOwn, Waiting
<1> QED
  BY <1>1, <1>2, <1>4, DialogStep

\* A dialog opens on a row of the table, late if a save of its kind is awaited.
LEMMA StepOpenEdit == ASSUME ConsoleInv, OpenEdit PROVE ConsoleInv'
<1>1. /\ UNCHANGED <<fixed, tables, cache, requests, acked>> /\ draft' = draft /\ draft \in Typed
      /\ Row # Null
      /\ dialog' = [op |-> "edit", base |-> Row, typed |-> Untyped, late |-> Waiting("edit")]
  BY DEF OpenEdit, OnRow, ConsoleInv, DialogIsOpen
<1>2. Row \in Stock /\ Untyped \in Typed
  BY <1>1, RowFits DEF Typed
<1>3. IsDialog(dialog')
  BY <1>1, <1>2 DEF IsDialog
<1>4. dialog'.op = "edit" /\ (~dialog'.late => ~Waiting("edit"))
  BY <1>1
<1>5. WaitsForItsOwn'
  BY <1>1, <1>4 DEF WaitsForItsOwn, Waiting
<1> QED
  BY <1>1, <1>3, <1>5, DialogStep

\* What is typed can be entered.
LEMMA StepType == ASSUME ConsoleInv, NEW v \in Entered(Form[subject][focus]), Type(v) PROVE ConsoleInv'
<1>1. /\ UNCHANGED <<fixed, tables, cache, requests, acked>> /\ draft' = draft /\ draft \in Typed
      /\ dialog # Null /\ dialog' = [dialog EXCEPT !.typed = v] /\ IsDialog(dialog)
  BY DEF Type, ConsoleInv, DialogIsOpen
<1>2. v \in Typed
  <2>1. Form[subject][focus] \in FieldKinds
    BY FormKinds DEF ConsoleInv, TableIsKept
  <2> QED
    BY <2>1, EnteredHolds DEF Typed
<1>3. dialog = [op |-> dialog.op, base |-> dialog.base, typed |-> dialog.typed, late |-> dialog.late]
  BY <1>1 DEF IsDialog
<1>4. /\ dialog' = [op |-> dialog'.op, base |-> dialog'.base, typed |-> dialog'.typed, late |-> dialog'.late]
      /\ dialog'.op = dialog.op /\ dialog'.base = dialog.base /\ dialog'.typed = v /\ dialog'.late = dialog.late
  BY <1>1, <1>3
<1>5. IsDialog(dialog')
  BY <1>1, <1>2, <1>4 DEF IsDialog
<1>6. WaitsForItsOwn'
  BY <1>1, <1>4 DEF ConsoleInv, WaitsForItsOwn
<1> QED
  BY <1>1, <1>5, <1>6, DialogStep

\* A draft is what was typed.
LEMMA StepCancel == ASSUME ConsoleInv, Cancel PROVE ConsoleInv'
<1>1. /\ UNCHANGED <<fixed, tables, cache, requests, acked>>
      /\ dialog # Null /\ dialog' = Null /\ IsDialog(dialog)
      /\ draft' = IF subject = "users" THEN dialog.typed ELSE Untyped
  BY DEF Cancel, ConsoleInv, DialogIsOpen
<1>2. draft' \in Typed
  BY <1>1 DEF IsDialog, Typed
<1>3. WaitsForItsOwn'
  BY <1>1 DEF WaitsForItsOwn
<1> QED
  BY <1>1, <1>2, <1>3, DialogStep

\* A step that sends, or leaves, what it may.
LEMMA SendStep ==
    ASSUME ConsoleInv, UNCHANGED <<fixed, tables, dialog, draft, cache, acked>>,
           NEW q, requests' = requests \/ requests' = requests \cup {q},
           requests' # requests => IsRequest(q, rev),
           requests' # requests /\ dialog # Null /\ q.op = dialog.op => q.base = dialog.base
    PROVE  ConsoleInv'
<1>1. TableIsKept'
  BY TableStays DEF ConsoleInv
<1>2. ListsAreHonest'
  BY ListsStay DEF ConsoleInv
<1>3. DialogIsOpen'
  BY DialogStays DEF ConsoleInv
<1>4. RequestsAreSent'
  <2>1. \A r \in requests' : IsRequest(r, rev')
    BY DEF ConsoleInv, RequestsAreSent, tables
  <2> QED
    BY <2>1, RequestsFrom
<1>5. WaitsForItsOwn'
  BY DEF ConsoleInv, WaitsForItsOwn
<1> QED
  BY <1>1, <1>2, <1>3, <1>4, <1>5 DEF ConsoleInv

\* What is sent first.
LEMMA NewRequest ==
    ASSUME NEW op, NEW base, NEW typed, NEW payload, NEW q, q = Request(op, base, typed, payload)
    PROVE  /\ q = [op |-> q.op, base |-> q.base, typed |-> q.typed, payload |-> q.payload, mine |-> q.mine,
                   done |-> q.done, at |-> q.at]
           /\ q.op = op /\ q.base = base /\ q.typed = typed /\ q.payload = payload /\ q.at = Null /\ ~q.done
BY DEF Request

\* What a dialog sends is its own, and was not refused.
LEMMA StepSubmit == ASSUME ConsoleInv, Submit PROVE ConsoleInv'
<1> DEFINE q == Request(dialog.op, dialog.base, dialog.typed, Payload(subject, Values(dialog)))
<1>1. /\ UNCHANGED <<fixed, tables, dialog, draft, cache, acked>>
      /\ requests' = requests \cup {q} /\ dialog # Null /\ ~Invalid(subject, Values(dialog)) /\ IsDialog(dialog)
  BY DEF Submit, Send, ui, ConsoleInv, DialogIsOpen
<1>2. Values(dialog) = Edited(dialog.base, dialog.typed)
  BY DEF Values, Edited
<1>3. q = Request(dialog.op, dialog.base, dialog.typed, Payload(subject, Values(dialog)))
  OBVIOUS
<1> HIDE DEF q
<1>4. /\ q = [op |-> q.op, base |-> q.base, typed |-> q.typed, payload |-> q.payload, mine |-> q.mine,
              done |-> q.done, at |-> q.at]
      /\ q.op = dialog.op /\ q.base = dialog.base /\ q.typed = dialog.typed
      /\ q.payload = Payload(subject, Values(dialog)) /\ q.at = Null
  BY <1>3, NewRequest
<1>5. IsRequest(q, rev)
  <2>1. dialog.op \in {"create", "edit"} /\ dialog.typed \in Typed
    BY <1>1 DEF IsDialog
  <2>2. dialog.op = "create" => Complete(subject, q.payload)
    <3>1. dialog.op = "create" => dialog.base = Null
      BY <1>1 DEF IsDialog
    <3>2. dialog.op = "create" => Holds(subject, Values(dialog))
      BY <1>2, <2>1, <3>1, EditedHolds DEF ConsoleInv, TableIsKept
    <3> QED
      BY <1>1, <1>4, <3>2, PayloadFits DEF ConsoleInv, TableIsKept
  <2>3. dialog.op = "edit" => dialog.base # Null /\ dialog.base \in Stock
    BY <1>1 DEF IsDialog
  <2> QED
    BY <1>1, <1>2, <1>4, <2>1, <2>2, <2>3 DEF IsRequest
<1> QED
  BY <1>1, <1>4, <1>5, SendStep

\* A status is sent alone.
LEMMA StepToggle == ASSUME ConsoleInv, Toggle PROVE ConsoleInv'
<1> DEFINE other == IF Row["status"] = "a" THEN "b" ELSE "a"
           payload == [f \in FieldsOf(subject) |-> IF f = "status" THEN other ELSE Keep]
           q == Request("toggle", Row, other, payload)
<1>1. /\ UNCHANGED <<fixed, tables, dialog, draft, cache, acked>>
      /\ requests' = requests \cup {q} /\ dialog = Null /\ subject = "users"
  BY DEF Toggle, Send, ui
<1>2. Leaves(subject, payload)
  <2>1. Form["users"]["status"] = "choice"
    BY DEF Form, UserForm
  <2>2. "a" \in Value("choice") /\ "b" \in Value("choice")
    BY DEF Value, Text, Word
  <2>3. other \in Value("choice")
    BY <2>2
  <2> HIDE DEF other
  <2> QED
    BY <1>1, <2>1, <2>3 DEF Leaves
<1>3. q = Request("toggle", Row, other, payload)
  OBVIOUS
<1> HIDE DEF other, payload, q
<1>4. /\ q = [op |-> q.op, base |-> q.base, typed |-> q.typed, payload |-> q.payload, mine |-> q.mine,
              done |-> q.done, at |-> q.at]
      /\ q.op = "toggle" /\ q.payload = payload /\ q.at = Null
  BY <1>3, NewRequest
<1>5. IsRequest(q, rev)
  BY <1>2, <1>4 DEF IsRequest
<1> QED
  BY <1>1, <1>5, SendStep

\* A confirmation that opens sends nothing.
LEMMA StepAsk == ASSUME ConsoleInv, Ask PROVE ConsoleInv'
<1>1. UNCHANGED <<fixed, tables, dialog, draft, cache, acked>> /\ requests' = requests
  BY DEF Ask
<1> QED
  BY <1>1, SendStep

\* A deletion waits for no dialog.
LEMMA StepConfirm == ASSUME ConsoleInv, Confirm PROVE ConsoleInv'
<1> DEFINE q == Request("delete", Null, Untyped, Null)
<1>1. /\ UNCHANGED <<fixed, tables, dialog, draft, cache, acked>>
      /\ requests' = requests \/ requests' = requests \cup {q}
  BY DEF Confirm, Send
<1>2. q = Request("delete", Null, Untyped, Null)
  OBVIOUS
<1> HIDE DEF q
<1>3. /\ q = [op |-> q.op, base |-> q.base, typed |-> q.typed, payload |-> q.payload, mine |-> q.mine,
              done |-> q.done, at |-> q.at]
      /\ q.op = "delete" /\ q.at = Null
  BY <1>2, NewRequest
<1>4. IsRequest(q, rev)
  BY <1>3 DEF IsRequest
<1>5. dialog # Null => dialog.op # "delete"
  BY DEF ConsoleInv, DialogIsOpen, IsDialog
<1> QED
  BY <1>1, <1>3, <1>4, <1>5, SendStep

-----------------------------------------------------------------------------
(* Writes.                                                                 *)

\* Whatever fits the fields of the table is a row of it.
LEMMA FitIsStock ==
    ASSUME subject \in Table, NEW r, r = [f \in FieldsOf(subject) |-> r[f]], Fits(subject, r)
    PROVE  r \in Stock
<1>1. ASSUME NEW kind \in FieldKinds PROVE Value(kind) \subseteq Word \cup Int \cup {Null}
  <2>1. kind = "rate" => Value(kind) = Nat \cup {Null}
    BY DEF Value
  <2>2. kind = "port" => Value(kind) = Int
    BY DEF Value
  <2>3. kind \in FieldKinds \ {"rate", "port"} => Value(kind) \subseteq Word \cup {Null}
    BY DEF FieldKinds, Value, Text, Word
  <2> QED
    BY <2>1, <2>2, <2>3
<1>2. \A f \in FieldsOf(subject) : r[f] \in Word \cup Int \cup {Null}
  BY <1>1, FormKinds DEF Fits
<1>3. r \in [FieldsOf(subject) -> Word \cup Int \cup {Null}]
  BY <1>2
<1> QED
  BY <1>3 DEF Stock

\* What the handlers write is a function of the fields.
LEMMA NormalIsRow == \A t, r : Normal(t, r) = [f \in FieldsOf(t) |-> Normal(t, r)[f]]
BY DEF Normal

\* A write adds to the history of its table, and takes no revision back.
LEMMA WriteStep ==
    ASSUME ConsoleInv, NEW op \in {"create", "edit", "toggle", "delete"}, NEW x \in Stock \cup {Null},
           UNCHANGED <<fixed, cache, acked>>, rows' = Append(rows, x), rev' = Bumped(op)
    PROVE  /\ TableIsKept' /\ ListsAreHonest'
           /\ rev' \in [Lists -> Nat] /\ \A k \in Lists : rev[k] <= rev'[k]
<1>1. subject \in Lists /\ subject \in Table /\ focus \in FieldsOf(subject) /\ rev \in [Lists -> Nat]
  BY DEF ConsoleInv, TableIsKept, ListsAreHonest, Lists
<1>2. rev' \in [Lists -> Nat] /\ \A k \in Lists : rev[k] <= rev'[k]
  BY <1>1 DEF Bumped
<1>3. rev'[subject] = rev[subject] + 1
  BY <1>1, WritesAreTold DEF Bumped
<1>4. Lists' = Lists /\ Stock' = Stock /\ subject' = subject /\ focus' = focus
  BY DEF fixed, Lists, Stock, Fits
<1>5. rows' \in Seq(Stock \cup {Null}) /\ Len(rows') = Len(rows) + 1 /\ Len(rows) = rev[subject] + 1
  BY DEF ConsoleInv, TableIsKept
<1>6. TableIsKept'
  BY <1>1, <1>3, <1>4, <1>5 DEF TableIsKept
<1>7. ASSUME NEW k \in Lists PROVE acked'[k] <= rev'[k] /\ Honest(cache'[k], rev'[k], acked'[k])
  <2>1. rev[k] \in Nat /\ rev'[k] \in Nat /\ rev[k] <= rev'[k] /\ acked[k] \in Nat /\ acked[k] <= rev[k]
    BY <1>1, <1>2 DEF ConsoleInv, ListsAreHonest
  <2>2. Honest(cache[k], rev[k], acked[k])
    BY DEF ConsoleInv, ListsAreHonest
  <2>3. Honest(cache[k], rev'[k], acked[k])
    BY <2>1, <2>2, LaterHonest
  <2> QED
    BY <2>1, <2>3
<1>8. ListsAreHonest'
  <2>1. cache = [k \in Lists |-> cache[k]] /\ acked \in [Lists -> Nat]
    BY DEF ConsoleInv, ListsAreHonest
  <2>2. cache' = [k \in Lists |-> cache'[k]] /\ acked' \in [Lists -> Nat]
    BY <2>1
  <2> QED
    BY <1>2, <1>4, <1>7, <2>2 DEF ListsAreHonest
<1> QED
  BY <1>2, <1>6, <1>8

\* What a handler writes is a row, or none.
LEMMA WrittenFits ==
    ASSUME ConsoleInv, NEW q \in requests, q.op = "create" <=> row = Null
    PROVE  Written(q) \in Stock \cup {Null}
<1>1. subject \in Table /\ IsRequest(q, rev)
  BY DEF ConsoleInv, TableIsKept, RequestsAreSent
<1>2. row # Null => Fits(subject, row)
  <2>1. rows \in Seq(Stock \cup {Null}) /\ Len(rows) = rev[subject] + 1 /\ rev[subject] \in Nat
    BY DEF ConsoleInv, TableIsKept, ListsAreHonest, Lists
  <2>2. row \in Stock \cup {Null}
    BY <2>1 DEF row
  <2> QED
    BY <2>2 DEF Stock
<1>3. CASE q.op = "create"
  <2>1. Written(q) = Created(subject, q.payload) /\ Complete(subject, q.payload)
    BY <1>1, <1>3 DEF Written, IsRequest
  <2>2. Fits(subject, Created(subject, q.payload))
    BY <1>1, <2>1, CreatedFits
  <2>3. Created(subject, q.payload) = [f \in FieldsOf(subject) |-> Created(subject, q.payload)[f]]
    BY NormalIsRow DEF Created
  <2> QED
    BY <1>1, <2>1, <2>2, <2>3, FitIsStock
<1>4. CASE q.op \in {"edit", "toggle"}
  <2>1. Written(q) = Updated(subject, row, q.payload)
    BY <1>4 DEF Written
  <2>2. Leaves(subject, q.payload)
    <3>1. CASE q.op = "toggle"
      BY <1>1, <3>1 DEF IsRequest
    <3>2. CASE q.op = "edit"
      <4>1. /\ q.base # Null /\ q.base \in Stock /\ q.typed \in Typed
            /\ ~Invalid(subject, Edited(q.base, q.typed)) /\ q.payload = Payload(subject, Edited(q.base, q.typed))
        BY <1>1, <3>2 DEF IsRequest
      <4>2. Holds(subject, Edited(q.base, q.typed))
        BY <4>1, EditedHolds DEF Stock, ConsoleInv, TableIsKept
      <4> QED
        BY <1>1, <4>1, <4>2, PayloadFits
    <3> QED
      BY <1>4, <3>1, <3>2
  <2>3. Fits(subject, Updated(subject, row, q.payload))
    BY <1>1, <1>2, <1>4, <2>2, UpdatedFits
  <2>4. Updated(subject, row, q.payload) = [f \in FieldsOf(subject) |-> Updated(subject, row, q.payload)[f]]
    BY NormalIsRow DEF Updated
  <2> QED
    BY <1>1, <2>1, <2>3, <2>4, FitIsStock
<1>5. CASE q.op = "delete"
  BY <1>5 DEF Written
<1> QED
  BY <1>1, <1>3, <1>4, <1>5 DEF IsRequest

\* An answer changes nothing of what was asked.
LEMMA AnsweredRequest ==
    ASSUME NEW q, NEW n, NEW at,
           q = [op |-> q.op, base |-> q.base, typed |-> q.typed, payload |-> q.payload, mine |-> q.mine,
                done |-> q.done, at |-> q.at],
           n = [q EXCEPT !.done = TRUE, !.at = at]
    PROVE  /\ n = [op |-> n.op, base |-> n.base, typed |-> n.typed, payload |-> n.payload, mine |-> n.mine,
                   done |-> n.done, at |-> n.at]
           /\ n.op = q.op /\ n.base = q.base /\ n.typed = q.typed /\ n.payload = q.payload /\ n.at = at
           /\ n.mine = q.mine
OBVIOUS

\* An answer tells the revisions as they are, and belongs to the dialog it belonged to.
LEMMA AnswerStep ==
    ASSUME ConsoleInv, NEW q \in requests, NEW at, Answered(q, at), UNCHANGED <<fixed, dialog>>,
           rev' \in [Lists -> Nat], \A k \in Lists : rev[k] <= rev'[k], at = Null \/ at = rev'
    PROVE  RequestsAreSent' /\ WaitsForItsOwn'
<1> DEFINE n == [q EXCEPT !.done = TRUE, !.at = at]
<1>1. IsRequest(q, rev) /\ rev \in [Lists -> Nat]
  BY DEF ConsoleInv, RequestsAreSent, ListsAreHonest
<1>2. q = [op |-> q.op, base |-> q.base, typed |-> q.typed, payload |-> q.payload, mine |-> q.mine,
           done |-> q.done, at |-> q.at]
  BY <1>1 DEF IsRequest
<1>3. /\ n = [op |-> n.op, base |-> n.base, typed |-> n.typed, payload |-> n.payload, mine |-> n.mine,
              done |-> n.done, at |-> n.at]
      /\ n.op = q.op /\ n.base = q.base /\ n.typed = q.typed /\ n.payload = q.payload /\ n.at = at
      /\ n.mine = q.mine
  <2>1. n = [q EXCEPT !.done = TRUE, !.at = at]
    OBVIOUS
  <2> HIDE DEF n
  <2> QED
    BY <1>2, <2>1, AnsweredRequest
<1>4. requests' = (requests \ {q}) \cup {n}
  BY DEF Answered
<1> HIDE DEF n
<1>5. IsRequest(n, rev')
  <2>1. at = Null \/ (at \in [Lists -> Nat] /\ \A k \in Lists : at[k] <= rev'[k])
    OBVIOUS
  <2> QED
    BY <1>1, <1>3, <2>1 DEF IsRequest
<1>6. \A r \in requests : IsRequest(r, rev')
  BY <1>1, LaterRequest DEF ConsoleInv, RequestsAreSent
<1>7. RequestsAreSent'
  <2>1. \A r \in requests' : IsRequest(r, rev')
    BY <1>4, <1>5, <1>6
  <2> QED
    BY <2>1, RequestsFrom
<1>8. WaitsForItsOwn'
  <2>1. dialog' = dialog
    OBVIOUS
  <2> QED
    BY <1>3, <1>4, <2>1 DEF ConsoleInv, WaitsForItsOwn
<1> QED
  BY <1>7, <1>8

\* A handler writes a row or refuses, and answers.
LEMMA StepServeSave == ASSUME ConsoleInv, NEW q \in requests, ServeSave(q) PROVE ConsoleInv'
<1>1. UNCHANGED <<fixed, cache, acked, dialog, draft>>
  BY DEF ServeSave, ui
<1>2. DialogIsOpen'
  BY <1>1, DialogStays DEF ConsoleInv
<1>3. rev \in [Lists -> Nat] /\ IsRequest(q, rev)
  BY DEF ConsoleInv, ListsAreHonest, RequestsAreSent
<1>4. CASE /\ q.op = "create" <=> row = Null
           /\ rows' = Append(rows, Written(q)) /\ rev' = Bumped(q.op) /\ Answered(q, rev')
  <2>1. q.op \in {"create", "edit", "toggle", "delete"} /\ Written(q) \in Stock \cup {Null}
    BY <1>3, <1>4, WrittenFits DEF IsRequest
  <2>2. /\ TableIsKept' /\ ListsAreHonest'
        /\ rev' \in [Lists -> Nat] /\ \A k \in Lists : rev[k] <= rev'[k]
    BY <1>1, <1>4, <2>1, WriteStep
  <2>3. RequestsAreSent' /\ WaitsForItsOwn'
    BY <1>1, <1>4, <2>2, AnswerStep
  <2> QED
    BY <1>2, <2>2, <2>3 DEF ConsoleInv
<1>5. CASE UNCHANGED tables /\ Answered(q, Null)
  <2>1. TableIsKept' /\ ListsAreHonest'
    BY <1>1, <1>5, TableStays, ListsStay DEF ConsoleInv
  <2>2. rev' \in [Lists -> Nat] /\ \A k \in Lists : rev[k] <= rev'[k]
    BY <1>3, <1>5 DEF tables
  <2>3. RequestsAreSent' /\ WaitsForItsOwn'
    BY <1>1, <1>5, <2>2, AnswerStep
  <2> QED
    BY <1>2, <2>1, <2>3 DEF ConsoleInv
<1> QED
  BY <1>4, <1>5 DEF ServeSave

\* What is acknowledged from now on was invalidated in the same step.
LEMMA StepSettle == ASSUME ConsoleInv, NEW q \in requests, Settle(q) PROVE ConsoleInv'
<1>1. /\ UNCHANGED <<fixed, tables>> /\ requests' = requests \ {q}
      /\ dialog' = IF Closes(q) THEN Null ELSE dialog
      /\ draft' = IF q.op = "create" THEN Untyped ELSE draft
      /\ q.at # Null
  BY DEF Settle
<1>2. cache' = [k \in Lists |-> IF k \in Invalidates(subject, q.op) THEN Invalidated(k, cache[k]) ELSE cache[k]]
  BY DEF Settle
<1>3. acked' = [k \in Lists |-> IF k \in Promised(subject, q.op) /\ q.at[k] > acked[k] THEN q.at[k] ELSE acked[k]]
  BY DEF Settle
<1>4. IsRequest(q, rev) /\ subject \in Table
  BY DEF ConsoleInv, RequestsAreSent, TableIsKept
<1>5. q.at \in [Lists -> Nat] /\ (\A k \in Lists : q.at[k] <= rev[k]) /\ q.op \in {"create", "edit", "toggle", "delete"}
  BY <1>1, <1>4 DEF IsRequest
<1>6. Promised(subject, q.op) \subseteq Invalidates(subject, q.op)
  BY <1>4, <1>5, WritesAreTold
<1>7. TableIsKept'
  BY <1>1, TableStays DEF ConsoleInv
<1>8. ListsAreHonest'
  <2>1. rev \in [Lists -> Nat] /\ acked \in [Lists -> Nat]
        /\ \A k \in Lists : acked[k] <= rev[k] /\ Honest(cache[k], rev[k], acked[k])
    BY DEF ConsoleInv, ListsAreHonest
  <2>2. ASSUME NEW k \in Lists
        PROVE  acked'[k] \in Nat /\ acked'[k] <= rev[k] /\ Honest(cache'[k], rev[k], acked'[k])
    <3>1. acked'[k] \in Nat /\ acked'[k] <= rev[k]
      BY <1>3, <1>5, <2>1
    <3>2. CASE k \in Invalidates(subject, q.op)
      <4>1. cache'[k] = Invalidated(k, cache[k])
        BY <1>2, <3>2
      <4>2. Honest(cache[k], rev[k], acked[k]) /\ rev[k] \in Nat
        BY <2>1
      <4>3. Honest(Invalidated(k, cache[k]), rev[k], acked'[k])
        BY <3>1, <4>2, InvalidatedHonest
      <4> QED
        BY <3>1, <4>1, <4>3
    <3>3. CASE k \notin Invalidates(subject, q.op)
      <4>1. acked'[k] = acked[k]
        BY <1>3, <1>6, <3>3
      <4>2. cache'[k] = cache[k]
        BY <1>2, <3>3
      <4> QED
        BY <2>1, <3>1, <4>1, <4>2
    <3> QED
      BY <3>2, <3>3
  <2>3. Lists' = Lists /\ rev' = rev
    BY <1>1 DEF fixed, tables, Lists
  <2>4. acked' \in [Lists -> Nat]
    BY <1>3, <2>2
  <2>5. cache' = [k \in Lists |-> cache'[k]]
    BY <1>2
  <2> QED
    BY <2>1, <2>2, <2>3, <2>4, <2>5 DEF ListsAreHonest
<1>9. DialogIsOpen'
  <2>1. draft \in Typed /\ (dialog = Null \/ IsDialog(dialog))
    BY DEF ConsoleInv, DialogIsOpen
  <2>2. draft' \in Typed /\ (dialog' = Null \/ IsDialog(dialog'))
    BY <1>1, <2>1 DEF Typed
  <2> QED
    BY <1>1, <2>2, DialogFrom
<1>10. RequestsAreSent'
  BY <1>1, RequestsStay DEF ConsoleInv
<1>11. WaitsForItsOwn'
  BY <1>1, WaitsStay DEF ConsoleInv
<1> QED
  BY <1>7, <1>8, <1>9, <1>10, <1>11 DEF ConsoleInv

\* A refused save leaves its dialog open.
LEMMA StepToast == ASSUME ConsoleInv, NEW q \in requests, Toast(q) PROVE ConsoleInv'
<1>1. UNCHANGED <<fixed, tables, dialog, draft, cache, acked>> /\ requests' = requests \ {q}
  BY DEF Toast, ui
<1>2. TableIsKept' /\ ListsAreHonest' /\ DialogIsOpen'
  BY <1>1, TableStays, ListsStay, DialogStays DEF ConsoleInv
<1>3. RequestsAreSent' /\ WaitsForItsOwn'
  BY <1>1, RequestsStay, WaitsStay DEF ConsoleInv
<1> QED
  BY <1>2, <1>3 DEF ConsoleInv

\* What may be stored in a field it may hold.
LEMMA StoredFits ==
    ASSUME NEW kind \in FieldKinds
    PROVE  StoredValue(kind) \subseteq Value(kind) /\ Plain(kind) \in Value(kind)
<1>1. CASE kind = "rate"
  <2>1. Value(kind) = Nat \cup {Null}
    BY <1>1 DEF Value
  <2>2. StoredValue(kind) = {Null, 100 * Hundredth, 100 * Hundredth + 1, 500} /\ Plain(kind) = 100 * Hundredth
    BY <1>1 DEF StoredValue, Plain
  <2> QED
    BY <2>1, <2>2 DEF Hundredth
<1>2. CASE kind = "port"
  <2>1. Value(kind) = Int
    BY <1>2 DEF Value
  <2>2. StoredValue(kind) = {0, 1000} /\ Plain(kind) = 1000
    BY <1>2 DEF StoredValue, Plain
  <2> QED
    BY <2>1, <2>2
<1>3. CASE kind \in {"text", "choice"}
  <2>1. StoredValue(kind) = {"a", "b"}
    <3>1. CASE kind = "text"
      BY <3>1 DEF StoredValue
    <3>2. CASE kind = "choice"
      BY <3>2 DEF StoredValue
    <3> QED
      BY <1>3, <3>1, <3>2
  <2>2. Plain(kind) = "a"
    BY <1>3 DEF Plain
  <2>3. Value(kind) = Text
    BY <1>3 DEF Value
  <2> QED
    BY <2>1, <2>2, <2>3 DEF Text, Word
<1>8. CASE kind \in {"optional", "nullable", "required"}
  <2>1. StoredValue(kind) = {Null, "a", "b"}
    <3>1. CASE kind = "optional"
      BY <3>1 DEF StoredValue
    <3>2. CASE kind = "nullable"
      BY <3>2 DEF StoredValue
    <3>3. CASE kind = "required"
      BY <3>3 DEF StoredValue
    <3> QED
      BY <1>8, <3>1, <3>2, <3>3
  <2>2. Plain(kind) = "a"
    <3>1. kind \notin {"rate", "entry", "port", "endpoint"}
      BY <1>8
    <3> QED
      BY <3>1 DEF Plain
  <2>3. Value(kind) = Text \cup {Null}
    BY <1>8 DEF Value
  <2> QED
    BY <2>1, <2>2, <2>3 DEF Text, Word
<1>4. CASE kind = "entry"
  BY <1>4 DEF StoredValue, Plain, Value
<1>5. CASE kind = "endpoint"
  BY <1>5 DEF StoredValue, Plain, Value, Text, Word
<1>6. CASE kind = "address"
  BY <1>6 DEF StoredValue, Plain, Value, Text, Word
<1>7. CASE kind = "unshown"
  BY <1>7 DEF StoredValue, Plain, Value, Text, Word
<1> QED
  BY <1>1, <1>2, <1>3, <1>4, <1>5, <1>6, <1>7, <1>8 DEF FieldKinds

\* Another writer's row fits the table too.
LEMMA StepForeign == ASSUME ConsoleInv, Foreign PROVE ConsoleInv'
<1>1. UNCHANGED <<fixed, cache, acked, dialog, draft, requests>> /\ row # Null
  BY DEF Foreign, ui
<1>2. subject \in Table /\ focus \in FieldsOf(subject) /\ rev \in [Lists -> Nat]
  BY DEF ConsoleInv, TableIsKept, ListsAreHonest
<1>3. PICK x \in Stock \cup {Null}, op \in {"edit", "delete"} : rows' = Append(rows, x) /\ rev' = Bumped(op)
  <2>1. CASE rows' = Append(rows, Null) /\ rev' = Bumped("delete")
    BY <2>1
  <2>2. ASSUME NEW v \in StoredValue(Form[subject][focus]),
               rows' = Append(rows, Normal(subject, [row EXCEPT ![focus] = v])), rev' = Bumped("edit")
        PROVE  \E x \in Stock \cup {Null}, op \in {"edit", "delete"} : rows' = Append(rows, x) /\ rev' = Bumped(op)
    <3> DEFINE r == [row EXCEPT ![focus] = v]
    <3>1. row \in Stock
      <4>1. rows \in Seq(Stock \cup {Null}) /\ Len(rows) = rev[subject] + 1 /\ rev[subject] \in Nat
        BY DEF ConsoleInv, TableIsKept, ListsAreHonest, Lists
      <4> QED
        BY <1>1, <4>1 DEF row
    <3>2. v \in Value(Form[subject][focus])
      BY <1>2, FormKinds, StoredFits
    <3>3. \A f \in FieldsOf(subject) : r[f] = IF f = focus THEN v ELSE row[f]
      BY <3>1 DEF Stock
    <3> HIDE DEF r
    <3>4. Fits(subject, r)
      BY <3>1, <3>2, <3>3 DEF Fits, Stock
    <3>5. Fits(subject, Normal(subject, r))
      BY <1>2, <3>4, NormalFits
    <3>6. Normal(subject, r) \in Stock
      BY <1>2, <3>5, NormalIsRow, FitIsStock
    <3> QED
      BY <2>2, <3>6 DEF r
  <2> QED
    BY <2>1, <2>2 DEF Foreign
<1>4. /\ TableIsKept' /\ ListsAreHonest'
      /\ rev' \in [Lists -> Nat] /\ \A k \in Lists : rev[k] <= rev'[k]
  BY <1>1, <1>3, WriteStep
<1>5. DialogIsOpen'
  BY <1>1, DialogStays DEF ConsoleInv
<1>6. RequestsAreSent'
  <2>1. \A r \in requests' : IsRequest(r, rev')
    BY <1>1, <1>2, <1>4, LaterRequest DEF ConsoleInv, RequestsAreSent
  <2> QED
    BY <1>1, <2>1, RequestsFrom
<1>7. WaitsForItsOwn'
  BY <1>1, WaitsStay DEF ConsoleInv
<1> QED
  BY <1>4, <1>5, <1>6, <1>7 DEF ConsoleInv

-----------------------------------------------------------------------------
(* The invariant holds.                                                    *)

\* Every table has a field that must be filled in.
LEMMA PrincipalIsField == \A t \in Table : Principal(t) \in FieldsOf(t)
<1> SUFFICES ASSUME NEW t \in Table PROVE \E f \in FieldsOf(t) : Form[t][f] \in {"text", "required"}
  BY DEF Principal
<1>1. Table = {"nodes", "tunnels", "chains", "rules", "endpoints", "users", "packages"}
  BY DEF Table, Form
<1>2. CASE t = "chains"
  <2>1. "node_id" \in FieldsOf(t) /\ Form[t]["node_id"] = "required"
    BY <1>2 DEF Form, ChainForm, FieldsOf
  <2> QED
    BY <2>1
<1>3. CASE t = "nodes"
  <2>1. "name" \in FieldsOf(t) /\ Form[t]["name"] = "text"
    BY <1>3 DEF Form, NodeForm, FieldsOf
  <2> QED
    BY <2>1
<1>4. CASE t = "tunnels"
  <2>1. "name" \in FieldsOf(t) /\ Form[t]["name"] = "text"
    BY <1>4 DEF Form, TunnelForm, FieldsOf
  <2> QED
    BY <2>1
<1>5. CASE t = "rules"
  <2>1. "name" \in FieldsOf(t) /\ Form[t]["name"] = "text"
    BY <1>5 DEF Form, RuleForm, FieldsOf
  <2> QED
    BY <2>1
<1>6. CASE t = "endpoints"
  <2>1. "name" \in FieldsOf(t) /\ Form[t]["name"] = "text"
    BY <1>6 DEF Form, EndpointForm, FieldsOf
  <2> QED
    BY <2>1
<1>7. CASE t = "users"
  <2>1. "name" \in FieldsOf(t) /\ Form[t]["name"] = "text"
    BY <1>7 DEF Form, UserForm, FieldsOf
  <2> QED
    BY <2>1
<1>8. CASE t = "packages"
  <2>1. "name" \in FieldsOf(t) /\ Form[t]["name"] = "text"
    BY <1>8 DEF Form, PackageForm, FieldsOf
  <2> QED
    BY <2>1
<1> QED
  BY <1>1, <1>2, <1>3, <1>4, <1>5, <1>6, <1>7, <1>8

\* The rows a tab begins with.
LEMMA StoredIsStock == ASSUME subject \in Table, NEW f \in FieldsOf(subject) PROVE Stored(subject, f) \subseteq Stock
<1> SUFFICES ASSUME NEW v \in StoredValue(Form[subject][f])
             PROVE  Normal(subject, [g \in FieldsOf(subject) |-> IF g = f THEN v ELSE Plain(Form[subject][g])]) \in Stock
  BY DEF Stored
<1> DEFINE r == [g \in FieldsOf(subject) |-> IF g = f THEN v ELSE Plain(Form[subject][g])]
<1>1. ASSUME NEW g \in FieldsOf(subject) PROVE r[g] \in Value(Form[subject][g])
  <2>1. Form[subject][g] \in FieldKinds
    BY FormKinds
  <2>2. StoredValue(Form[subject][g]) \subseteq Value(Form[subject][g]) /\ Plain(Form[subject][g]) \in Value(Form[subject][g])
    BY <2>1, StoredFits
  <2>3. r[g] = IF g = f THEN v ELSE Plain(Form[subject][g])
    OBVIOUS
  <2> HIDE DEF r
  <2> QED
    BY <2>2, <2>3
<1>2. Fits(subject, r)
  BY <1>1 DEF Fits
<1> HIDE DEF r
<1>3. Fits(subject, Normal(subject, r))
  BY <1>2, NormalFits
<1>4. Normal(subject, r) \in Stock
  BY <1>3, NormalIsRow, FitIsStock
<1> QED
  BY <1>4 DEF r

\* So is one whose fields are all plain.
LEMMA PlainIsStock ==
    ASSUME subject \in Table PROVE [g \in FieldsOf(subject) |-> Plain(Form[subject][g])] \in Stock
<1> DEFINE r == [g \in FieldsOf(subject) |-> Plain(Form[subject][g])]
<1>1. \A g \in FieldsOf(subject) : r[g] \in Value(Form[subject][g])
  BY FormKinds, StoredFits
<1>2. r = [g \in FieldsOf(subject) |-> r[g]]
  OBVIOUS
<1> HIDE DEF r
<1>3. r \in Stock
  BY <1>1, <1>2, FitIsStock DEF Fits
<1> QED
  BY <1>3 DEF r

\* A tab begins with the invariant.
LEMMA InitKept == ConsoleInit => ConsoleInv
<1> SUFFICES ASSUME ConsoleInit PROVE ConsoleInv
  OBVIOUS
<1>1. subject \in Table /\ subject \in Lists
  BY DEF ConsoleInit, Lists
<1>2. focus \in FieldsOf(subject) /\ rows \in {<<r>> : r \in Stock \cup {Null}}
  <2>1. CASE watched = subject
    <3>1. focus \in Samples(subject) /\ rows \in {<<r>> : r \in Stored(subject, focus) \cup {Null}}
      BY <2>1 DEF ConsoleInit
    <3>2. focus \in FieldsOf(subject)
      BY <3>1 DEF Samples
    <3>3. Stored(subject, focus) \subseteq Stock
      BY <1>1, <3>2, StoredIsStock
    <3> QED
      BY <3>1, <3>2, <3>3
  <2>2. CASE watched # subject
    <3>1. focus = Principal(subject) /\ rows \in {<<Null>>, <<[g \in FieldsOf(subject) |-> Plain(Form[subject][g])]>>}
      BY <2>2 DEF ConsoleInit
    <3>2. focus \in FieldsOf(subject)
      BY <1>1, <3>1, PrincipalIsField
    <3>3. [g \in FieldsOf(subject) |-> Plain(Form[subject][g])] \in Stock
      BY <1>1, PlainIsStock
    <3> QED
      BY <3>1, <3>2, <3>3
  <2> QED
    BY <2>1, <2>2
<1>3. TableIsKept
  <2>1. PICK r \in Stock \cup {Null} : rows = <<r>>
    BY <1>2
  <2>2. rows \in Seq(Stock \cup {Null}) /\ Len(rows) = 1
    BY <2>1
  <2>3. rev[subject] = 0
    BY <1>1 DEF ConsoleInit
  <2> QED
    BY <1>1, <1>2, <2>2, <2>3 DEF TableIsKept
<1>4. ListsAreHonest
  <2>1. rev = [k \in Lists |-> 0] /\ acked = [k \in Lists |-> 0]
    BY DEF ConsoleInit
  <2>2. cache = [k \in Lists |-> IF k \in Shows[page] THEN Fetching(k, NoEntry) ELSE NoEntry]
    BY DEF ConsoleInit, Mounted
  <2>3. ASSUME NEW k \in Lists PROVE Honest(cache[k], rev[k], acked[k])
    <3>1. rev[k] = 0 /\ acked[k] = 0 /\ Honest(NoEntry, rev[k], acked[k])
      BY <2>1, NoEntryHonest
    <3>2. Honest(Fetching(k, NoEntry), rev[k], acked[k])
      BY <3>1, FetchingHonest
    <3> QED
      BY <2>2, <3>1, <3>2
  <2>4. cache = [k \in Lists |-> cache[k]]
    BY <2>2
  <2> QED
    BY <2>1, <2>3, <2>4 DEF ListsAreHonest
<1>5. DialogIsOpen /\ RequestsAreSent /\ WaitsForItsOwn
  BY DEF ConsoleInit, DialogIsOpen, Typed, RequestsAreSent, WaitsForItsOwn
<1> QED
  BY <1>3, <1>4, <1>5 DEF ConsoleInv

\* Every step keeps it.
LEMMA NextKept == ConsoleInv /\ [ConsoleNext]_consoleVars => ConsoleInv'
<1> SUFFICES ASSUME ConsoleInv, [ConsoleNext]_consoleVars PROVE ConsoleInv'
  OBVIOUS
<1>1. ASSUME NEW k \in Lists, Land(k) \/ FailGet(k) PROVE ConsoleInv'
  BY <1>1, StepLand, StepFailGet
<1>2. ASSUME NEW p \in Places, Hover(p) \/ Navigate(p) PROVE ConsoleInv'
  BY <1>2, StepHover, StepNavigate
<1>3. CASE Refresh \/ OpenCreate \/ OpenEdit \/ Cancel \/ Submit \/ Toggle \/ Ask \/ Confirm
  BY <1>3, StepRefresh, StepOpenCreate, StepOpenEdit, StepCancel, StepSubmit, StepToggle, StepAsk, StepConfirm
<1>4. ASSUME NEW v \in Entered(Form[subject][focus]), Type(v) PROVE ConsoleInv'
  BY <1>4, StepType
<1>5. ASSUME NEW q \in requests, ServeSave(q) \/ Settle(q) \/ Toast(q) PROVE ConsoleInv'
  BY <1>5, StepServeSave, StepSettle, StepToast
<1>6. CASE Foreign
  BY <1>6, StepForeign
<1>7. CASE UNCHANGED consoleVars
  <2>1. UNCHANGED <<fixed, tables, dialog, draft, cache, acked, requests>>
    BY <1>7 DEF consoleVars, ui
  <2>2. requests' = requests
    BY <2>1
  <2> QED
    BY <2>1, <2>2, SendStep
<1> QED
  BY <1>1, <1>2, <1>3, <1>4, <1>5, <1>6, <1>7 DEF ConsoleNext

\* So it always holds.
LEMMA ConsoleKept == ConsoleSpec => []ConsoleInv
BY InitKept, NextKept, PTL DEF ConsoleSpec

\* After a write of this tab has been acknowledged, a list that its page counts on to change shows the
\* change, unless it is known to be out of date, could not be fetched, or came from a fetch that the
\* invalidation let run: whatever the tab does meanwhile, and whoever else writes.
THEOREM OwnWritesSeen == ConsoleSpec => []OwnWritesShown
<1>1. ConsoleInv => OwnWritesShown
  BY DEF ConsoleInv, ListsAreHonest, Honest, OwnWritesShown
<1> QED
  BY <1>1, ConsoleKept, PTL

\* A save of a dialog that was opened on the row as it is stored changes what was typed in and nothing
\* else, in every table and whatever the fields hold.
THEOREM EditsSaveAsShown == ConsoleSpec => SavedAsShown
<1> DEFINE A == \A q \in requests :
        q.op = "edit" /\ ~q.done /\ rows' # rows /\ q \notin requests' /\ row = q.base =>
            \A f \in FieldsOf(subject) :
                IF f = focus /\ q.typed # Untyped
                THEN Arrives(f, row') /\ ~(Form[subject][f] = "optional" /\ q.typed = "")
                        => row'[f] = SentNull(Form[subject][f], q.typed)
                ELSE Survives(f, row') /\ Survives(f, row) => row'[f] = row[f]
<1>1. ConsoleInv /\ [ConsoleNext]_consoleVars => [A]_consoleVars
  <2> SUFFICES ASSUME ConsoleInv, ConsoleNext, NEW q \in requests, q.op = "edit", ~q.done, rows' # rows, q \notin requests',
                      row = q.base, NEW f \in FieldsOf(subject)
               PROVE  IF f = focus /\ q.typed # Untyped
                      THEN Arrives(f, row') /\ ~(Form[subject][f] = "optional" /\ q.typed = "")
                              => row'[f] = SentNull(Form[subject][f], q.typed)
                      ELSE Survives(f, row') /\ Survives(f, row) => row'[f] = row[f]
    OBVIOUS
  <2>1. PICK r \in requests : ServeSave(r)
    <3>1. ASSUME NEW k \in Lists, Land(k) \/ FailGet(k) PROVE rows' = rows
      BY <3>1 DEF Land, FailGet, tables
    <3>2. ASSUME NEW p \in Places, Hover(p) \/ Navigate(p) PROVE rows' = rows
      BY <3>2 DEF Hover, Navigate, tables
    <3>3. CASE Refresh \/ OpenCreate \/ OpenEdit \/ Cancel \/ Submit \/ Toggle \/ Ask \/ Confirm
      BY <3>3 DEF Refresh, OpenCreate, OpenEdit, Cancel, Submit, Toggle, Ask, Confirm, tables
    <3>4. ASSUME NEW v \in Entered(Form[subject][focus]), Type(v) PROVE rows' = rows
      BY <3>4 DEF Type, tables
    <3>5. ASSUME NEW r \in requests, Settle(r) \/ Toast(r) PROVE rows' = rows
      BY <3>5 DEF Settle, Toast, tables
    <3>6. CASE Foreign
      BY <3>6 DEF Foreign
    <3> QED
      BY <3>1, <3>2, <3>3, <3>4, <3>5, <3>6 DEF ConsoleNext
  <2>2. rows' = Append(rows, Written(r)) /\ requests' = (requests \ {r}) \cup {[r EXCEPT !.done = TRUE, !.at = rev']}
    BY <2>1 DEF ServeSave, Answered, tables
  <2>3. r = q
    BY <2>2
  <2>4. rows \in Seq(Stock \cup {Null}) /\ Len(rows) \in Nat
    BY DEF ConsoleInv, TableIsKept
  <2>5. row' = Updated(subject, q.base, q.payload)
    <3>1. Written(q) = Updated(subject, row, q.payload)
      BY DEF Written
    <3>2. \A x : Len(Append(rows, x)) = Len(rows) + 1 /\ Append(rows, x)[Len(rows) + 1] = x
      BY <2>4
    <3>3. row' = Written(q)
      BY <2>2, <2>3, <3>2 DEF row
    <3> QED
      BY <3>1, <3>3
  <2>6. /\ q.base # Null /\ q.base \in Stock /\ q.typed \in Typed
        /\ ~Invalid(subject, Edited(q.base, q.typed)) /\ q.payload = Payload(subject, Edited(q.base, q.typed))
    BY DEF ConsoleInv, RequestsAreSent, IsRequest
  <2>7. subject \in Table /\ focus \in FieldsOf(subject) /\ Fits(subject, q.base)
    BY <2>6 DEF ConsoleInv, TableIsKept, Stock
  <2> QED
    <3>1. row' = Updated(subject, q.base, Payload(subject, Edited(q.base, q.typed)))
      BY <2>5, <2>6
    <3>2. ASSUME NEW new, NEW base, new = Updated(subject, base, Payload(subject, Edited(base, q.typed))), base = q.base
          PROVE  FieldSaved(f, q.typed, base, new)
      <4>1. base # Null /\ Fits(subject, base) /\ ~Invalid(subject, Edited(base, q.typed)) /\ q.typed \in Typed
        BY <2>6, <2>7, <3>2
      <4> QED
        BY <2>7, <3>2, <4>1, EditKeeps
    <3>3. row' = Updated(subject, row, Payload(subject, Edited(row, q.typed)))
      BY <3>1
    <3> QED
      BY <3>2, <3>3 DEF FieldSaved
<1>2. SavedAsShown <=> [][A]_consoleVars
  BY DEF SavedAsShown
<1> HIDE DEF A
<1> QED
  BY <1>1, <1>2, ConsoleKept, PTL DEF ConsoleSpec

\* An answer closes the dialog that was waiting for it and no other one, but for a dialog of the same
\* kind that was opened while it was awaited.
THEOREM AnswersCloseTheirOwn == ConsoleSpec => DialogsCloseForTheirOwn
<1> DEFINE A == dialog # Null /\ dialog' = Null /\ page' = page /\ requests' # requests =>
        \/ dialog.late
        \/ \E q \in requests \ requests' : q.mine /\ q.op = dialog.op /\ q.base = dialog.base
<1>1. ConsoleInv /\ [ConsoleNext]_consoleVars => [A]_consoleVars
  <2> SUFFICES ASSUME ConsoleInv, ConsoleNext, dialog # Null, dialog' = Null, page' = page, requests' # requests, ~dialog.late
               PROVE  \E q \in requests \ requests' : q.mine /\ q.op = dialog.op /\ q.base = dialog.base
    OBVIOUS
  <2>1. PICK q \in requests : Settle(q)
    <3>1. ASSUME NEW k \in Lists, Land(k) \/ FailGet(k) PROVE FALSE
      BY <3>1 DEF Land, FailGet
    <3>2. ASSUME NEW p \in Places, Hover(p) \/ Navigate(p) PROVE FALSE
      BY <3>2 DEF Hover, Navigate
    <3>3. CASE Refresh \/ OpenCreate \/ OpenEdit \/ Cancel \/ Submit \/ Toggle \/ Ask \/ Confirm
      BY <3>3 DEF Refresh, OpenCreate, OpenEdit, Cancel, Submit, Toggle, Ask, Confirm, ui
    <3>4. ASSUME NEW v \in Entered(Form[subject][focus]), Type(v) PROVE FALSE
      BY <3>4 DEF Type
    <3>5. ASSUME NEW r \in requests, ServeSave(r) \/ Toast(r) PROVE FALSE
      BY <3>5 DEF ServeSave, Toast, ui
    <3>6. CASE Foreign
      BY <3>6 DEF Foreign
    <3> QED
      BY <3>1, <3>2, <3>3, <3>4, <3>5, <3>6 DEF ConsoleNext
  <2>2. requests' = requests \ {q} /\ dialog' = IF Closes(q) THEN Null ELSE dialog
    BY <2>1 DEF Settle
  <2>3. q.mine /\ dialog.op = q.op
    BY <2>2 DEF Closes
  <2>4. q.base = dialog.base
    BY <2>3 DEF ConsoleInv, WaitsForItsOwn
  <2> QED
    BY <2>2, <2>3, <2>4
<1>2. DialogsCloseForTheirOwn <=> [][A]_consoleVars
  BY DEF DialogsCloseForTheirOwn
<1> HIDE DEF A
<1> QED
  BY <1>1, <1>2, ConsoleKept, PTL DEF ConsoleSpec
=============================================================================
