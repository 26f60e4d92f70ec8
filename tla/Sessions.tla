------------------------------ MODULE Sessions ------------------------------
(***************************************************************************)
(* How an operator gets into the panel and stays in: the wizard that makes *)
(* the first administrator, the login, the session cookie and the key it   *)
(* is signed with, which every isolate of the Worker reads from the        *)
(* database and keeps for a minute, and the guards of the panel's router,  *)
(* which decide between wizard and login by a cached answer.               *)
(*                                                                         *)
(* A request is handled by one isolate, one access of the database per     *)
(* step.  An administrator is the position of its row, a key the number of *)
(* the random value it is.  SESSION_SECRET is not set: with it the key is  *)
(* a constant.                                                             *)
(***************************************************************************)
EXTENDS Naturals, SequencesExt

CONSTANTS
    Tabs,           \* browsers with one tab each
    Eager,          \* those whose operator keeps trying
    Isolates,
    None,
    MaxPassword,    \* bound: changes of a password
    MaxMishaps      \* bound: requests that fail, fetches that fail, and wipes of the settings

ASSUME SessionsAssumption ==
    /\ IsFiniteSet(Tabs) /\ Eager \subseteq Tabs
    /\ None \notin Nat \cup Tabs \cup Isolates
    /\ MaxPassword \in Nat /\ MaxMishaps \in Nat

VARIABLES
    admins,     \* the passwords of the rows with role='admin', in the order of their ids
    secret,     \* the session_secret of app_settings, or None
    minted,     \* the number of keys that have been stored
    known,      \* isolate |-> secretCache
    cookie,     \* tab |-> the key its cookie is signed with, or None; whose it is is left out
    path,       \* tab |-> the page it is on: "setup", "login" or "app"
    denied,     \* tab |-> it has setup-status cached, as not initialized
    call,       \* tab |-> its request under way, or None
    lost,       \* history: the keys that a wipe of the settings took
    mishaps

server == <<admins, secret, minted>>
tabs == <<cookie, path, denied>>
vars == <<server, known, tabs, call, lost, mishaps>>

Initialized == admins # <<>>

-----------------------------------------------------------------------------
(* The guards.                                                             *)

\* ensureQueryData: what is cached, however old, else what the server says.  An answer that says
\* initialized never becomes wrong, so that keeping it is the same as asking again.
Ensured(t) == Initialized /\ ~denied[t]

\* /login sends to the wizard before there is an administrator, /setup to the login once there is one.
Guarded(p, initialized) ==
    CASE p = "login" /\ ~initialized -> "setup"
      [] p = "setup" /\ initialized -> "login"
      [] OTHER -> p

Arrive(t, p, denied_) ==
    /\ path' = [path EXCEPT ![t] = p]
    /\ denied' = [denied EXCEPT ![t] = denied_]

Go(t, p) == Arrive(t, Guarded(p, Ensured(t)), ~Ensured(t))

-----------------------------------------------------------------------------
(* The tab.  Its requests are made one at a time.                          *)

\* The request is done.  Its cookie is set or cleared; an error is shown; a 401 sends a page of the
\* panel to the login, where it only means wrong credentials; and logging out goes there anyway.
Answer(t, answer, key) ==
    LET kind == call[t].kind
        in == answer = "ok" /\ kind \in {"setup", "login"}
    IN  /\ call' = [call EXCEPT ![t] = None]
        /\ cookie' = [cookie EXCEPT ![t] =
                CASE in -> key
                  [] kind = "logout" /\ answer = "ok" -> None
                  [] OTHER -> @]
        /\ CASE in -> Arrive(t, "app", denied[t])
             [] kind = "logout" \/ (answer = "unauthorized" /\ path[t] = "app") -> Go(t, "login")
             [] OTHER -> UNCHANGED <<path, denied>>

Open(t, kind, n, password) ==
    /\ call[t] = None
    /\ call' = [call EXCEPT ![t] =
        [kind |-> kind, pc |-> IF kind \in {"setup", "login"} THEN "check" ELSE "session",
         admin |-> n, password |-> password, isolate |-> None]]

\* The form of the wizard.
SubmitSetup(t) ==
    /\ path[t] = "setup"
    /\ Open(t, "setup", None, None)
    /\ UNCHANGED <<server, known, tabs, lost, mishaps>>

\* The form of the login: an administrator's name and password, or something else, an old password
\* for one.
SubmitLogin(t) ==
    /\ path[t] = "login"
    /\ \/ Open(t, "login", None, None)
       \/ \E n \in 1 .. Len(admins) : Open(t, "login", n, admins[n])
    /\ UNCHANGED <<server, known, tabs, lost, mishaps>>

\* The pages' queries, the button in the header, and the form of the profile, which changes the
\* password of the cookie's administrator.
Query(t) ==
    /\ path[t] = "app"
    /\ Open(t, "query", None, None)
    /\ UNCHANGED <<server, known, tabs, lost, mishaps>>

Logout(t) ==
    /\ path[t] = "app"
    /\ Open(t, "logout", None, None)
    /\ UNCHANGED <<server, known, tabs, lost, mishaps>>

Changes == FoldSeq(+, 0, admins)

SubmitPassword(t) ==
    /\ path[t] = "app" /\ cookie[t] # None
    /\ Changes < MaxPassword
    /\ \E n \in 1 .. Len(admins) : Open(t, "password", n, admins[n])
    /\ UNCHANGED <<server, known, tabs, lost, mishaps>>

\* An address that is typed in loads the panel afresh.
Reload(t) ==
    /\ call[t] = None
    /\ \/ Arrive(t, "app", FALSE)
       \/ \E p \in {"setup", "login"} : Arrive(t, Guarded(p, Initialized), ~Initialized)
    /\ UNCHANGED <<server, known, cookie, call, lost, mishaps>>

\* The wizard asks anew when it is mounted; elsewhere the answer is dropped after five minutes.
RefreshStatus(t) ==
    /\ denied[t]
    /\ denied' = [denied EXCEPT ![t] = path[t] = "setup" /\ ~Initialized]
    /\ UNCHANGED <<server, known, cookie, path, call, lost, mishaps>>

\* Seven days, of the cookie's age and of its expiry; not while a request is under way.
Expire(t) ==
    /\ cookie[t] # None /\ call[t] = None
    /\ cookie' = [cookie EXCEPT ![t] = None]
    /\ UNCHANGED <<server, known, path, denied, call, lost, mishaps>>

-----------------------------------------------------------------------------
(* The server.                                                             *)

At(t, pc) == call[t] # None /\ call[t].pc = pc

Then(t, pc) == call' = [call EXCEPT ![t].pc = pc] /\ UNCHANGED tabs

Quiet == UNCHANGED <<lost, mishaps>>

\* hasAdminAccount: 409 of the wizard, 503 of the login.
CheckNothing(t) ==
    /\ At(t, "check")
    /\ Then(t, IF call[t].kind = "setup" THEN "insert" ELSE "verify")
    /\ UNCHANGED <<server, known>> /\ Quiet

Check(t) ==
    /\ At(t, "check")
    /\ CASE call[t].kind = "setup" /\ ~Initialized -> Then(t, "insert")
         [] call[t].kind = "login" /\ Initialized -> Then(t, "verify")
         [] OTHER -> Answer(t, "refused", None)
    /\ UNCHANGED <<server, known>> /\ Quiet

InsertAdmin(t) ==
    /\ At(t, "insert")
    /\ admins' = Append(admins, 0)
    /\ call' = [call EXCEPT ![t].pc = "secret"]
    /\ UNCHANGED <<tabs, secret, minted, known>> /\ Quiet

\* A key is drawn; the row is inserted only where there is none.
Upsert == secret' = minted + 1 /\ minted' = minted + 1

InsertOnce == IF secret = None THEN Upsert ELSE UNCHANGED <<secret, minted>>

SetupSecret(t) ==
    /\ At(t, "secret") /\ Then(t, "session")
    /\ InsertOnce
    /\ UNCHANGED <<admins, known>> /\ Quiet

\* verifyAdminCredentials: 401 of the login, 403 of the profile.
Verify(t) ==
    /\ At(t, "verify")
    /\ LET login == call[t].kind = "login"
           right == call[t].admin # None /\ call[t].password = admins[call[t].admin]
       IN  IF right
           THEN /\ call' = [call EXCEPT ![t].pc = IF login THEN "session" ELSE "update",
                                        ![t].password = None, ![t].admin = IF login THEN None ELSE @]
                /\ UNCHANGED tabs
           ELSE Answer(t, IF login THEN "unauthorized" ELSE "refused", None)
    /\ UNCHANGED <<server, known>> /\ Quiet

Authenticated(t) == call[t].kind \in {"query", "logout", "password"}

\* issueSessionCookie and adminAuth, once the isolate i has the key k, which it keeps.
WithKey(t, i, k) ==
    /\ known' = [known EXCEPT ![i] = k]
    /\ CASE Authenticated(t) /\ cookie[t] # k -> Answer(t, "unauthorized", None)
         [] call[t].kind = "password" -> Then(t, "verify")
         [] OTHER -> Answer(t, "ok", k)

\* adminAuth up to the key, and sessionSecret up to its first read.
Session(t) ==
    /\ At(t, "session")
    /\ IF Authenticated(t) /\ cookie[t] = None
       THEN Answer(t, "unauthorized", None) /\ UNCHANGED known
       ELSE \E i \in Isolates :
            CASE known[i] # None -> WithKey(t, i, known[i])
              [] known[i] = None /\ secret # None -> WithKey(t, i, secret)
              [] OTHER -> /\ call' = [call EXCEPT ![t].pc = "mint", ![t].isolate = i]
                          /\ UNCHANGED <<known, tabs>>
    /\ UNCHANGED server /\ Quiet

\* sessionSecret where there is no row.
MintNever(t) ==
    /\ At(t, "mint") /\ Then(t, "reread")
    /\ UNCHANGED <<server, known>> /\ Quiet

Mint(t) ==
    /\ At(t, "mint")
    /\ InsertOnce
    /\ Then(t, "reread")
    /\ UNCHANGED <<admins, known>> /\ Quiet

\* Whoever inserted it, the row is the key.
Reread(t) ==
    /\ At(t, "reread")
    /\ IF secret # None THEN WithKey(t, call[t].isolate, secret)
       ELSE Answer(t, IF Authenticated(t) THEN "unauthorized" ELSE "refused", None) /\ UNCHANGED known
    /\ UNCHANGED server /\ Quiet

UpdatePassword(t) ==
    /\ At(t, "update") /\ Answer(t, "ok", None)
    /\ admins' = [admins EXCEPT ![call[t].admin] = @ + 1]
    /\ UNCHANGED <<secret, minted, known>> /\ Quiet

\* The minute of an isolate's cache is over, or the isolate is.
Forget(i) ==
    /\ known[i] # None
    /\ known' = [known EXCEPT ![i] = None]
    /\ UNCHANGED <<server, tabs, call, lost, mishaps>>

-----------------------------------------------------------------------------
(* What goes wrong.                                                        *)

Mishap == mishaps < MaxMishaps /\ mishaps' = mishaps + 1

\* A request, or its answer, is lost: what it has written so far stays.
FailRequest(t) ==
    /\ Mishap
    /\ call[t] # None /\ Answer(t, "failed", None)
    /\ UNCHANGED <<server, known, lost>>

\* The fetch a guard waits for fails: it lets pass.
FailGuard(t) ==
    /\ Mishap
    /\ call[t] = None
    /\ \E p \in {"setup", "login"} : Arrive(t, p, FALSE)
    /\ UNCHANGED <<server, known, cookie, call, lost>>

\* The seed script empties app_settings.
Wipe ==
    /\ Mishap
    /\ secret # None
    /\ lost' = lost \cup {secret}
    /\ secret' = None
    /\ UNCHANGED <<admins, minted, known, tabs, call>>

-----------------------------------------------------------------------------
Init ==
    /\ admins = <<>> /\ secret = None /\ minted = 0
    /\ known = [i \in Isolates |-> None]
    /\ cookie = [t \in Tabs |-> None]
    /\ path = [t \in Tabs |-> "app"]
    /\ denied = [t \in Tabs |-> FALSE]
    /\ call = [t \in Tabs |-> None]
    /\ lost = {} /\ mishaps = 0

Serve(t) ==
    \/ Check(t) \/ InsertAdmin(t) \/ SetupSecret(t) \/ Verify(t) \/ Session(t)
    \/ Mint(t) \/ Reread(t) \/ UpdatePassword(t)

Next ==
    \/ \E t \in Tabs :
        \/ SubmitSetup(t) \/ SubmitLogin(t) \/ Query(t) \/ SubmitPassword(t) \/ Logout(t)
        \/ Reload(t) \/ RefreshStatus(t) \/ Expire(t)
        \/ Serve(t) \/ FailRequest(t) \/ FailGuard(t)
    \/ \E i \in Isolates : Forget(i)
    \/ Wipe

\* An operator who wants in uses what the page offers, knows the password, and tries another page.
Retries(t) == Reload(t) /\ path'[t] # "app"

Looks(t) == Query(t) \/ Retries(t)

Enters(t) ==
    \/ ~Initialized /\ SubmitSetup(t)
    \/ SubmitLogin(t) /\ call'[t].admin # None

Fairness ==
    /\ \A t \in Tabs : WF_vars(Serve(t))
    /\ \A i \in Isolates : WF_vars(Forget(i))
    /\ \A t \in Eager : SF_vars(Looks(t)) /\ SF_vars(Enters(t))

Spec == Init /\ [][Next]_vars /\ Fairness

-----------------------------------------------------------------------------
(* Properties.                                                             *)

\* Nobody is thrown out early: a page sends an operator whose cookie is within its seven days to
\* the login only if the settings were wiped since, and its own key is lost or the isolate still
\* holds a lost one.  In particular no race between isolates that mint the first key, and no change
\* of the password, ends a session (adminAuth.ts:43-44, admin.ts:104-105).
SessionsLast ==
    [][\A t \in Tabs :
        (path[t] = "app" /\ path'[t] # "app" /\ call[t] # None /\ call[t].kind # "logout" /\ cookie[t] # None)
            => cookie[t] \in lost \/ \E i \in Isolates : known'[i] \in lost]_vars

\* The wizard makes one administrator, but for setups whose checks all pass before the first of
\* them inserts its row (setup.ts:43-57): never more than are handled at the same time.
OneShot == Len(admins) =< Cardinality(Tabs)

\* Whatever a crash left behind half done (an administrator without a key, a wiped key, a cached
\* answer that sends a tab to the wrong page), an operator who knows a password, or comes first,
\* gets in again.
GetsIn ==
    \A t \in Eager : []<>(path[t] = "app" /\ cookie[t] # None /\ cookie[t] = secret)
=============================================================================
