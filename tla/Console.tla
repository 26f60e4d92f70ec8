------------------------------ MODULE Console ------------------------------
(***************************************************************************)
(* One tab of the panel over the API: the lists it caches, the dialogs it  *)
(* opens from them, and the writes it sends, beside the other writers of   *)
(* the same tables.                                                        *)
(*                                                                         *)
(* A list is a number that counts the changes to what its GET returns; the *)
(* subject's own list also carries the row the dialogs are opened on.  The *)
(* cache is TanStack Query's, as the pages and the router use it: a list   *)
(* is fetched when a page that shows it is mounted, or its link is hovered *)
(* over, and it is missing, invalidated or more than 30 s old; an          *)
(* invalidation refetches the lists that are on show, anew where there is  *)
(* data already, and lets any other fetch that is under way run.           *)
(***************************************************************************)
EXTENDS Forms, Sequences, FiniteSets

CONSTANTS
    Untyped,        \* a field nobody has typed in
    MaxWrites,      \* bound: writes of this tab
    MaxForeign      \* bound: writes of the others, while it stays on a page

ASSUME ConsoleAssumption ==
    /\ MaxWrites \in Nat /\ MaxForeign \in Nat
    /\ Untyped \notin {Null, Keep}

VARIABLES
    subject,    \* the table that is written
    focus,      \* the field of it that is written
    watched,    \* the list that is watched: the subject's, or one that depends on it
    rows,       \* what the row of the subject was and, last, is; Null where there is none
    rev,        \* list |-> how often what it returns has changed
    page,       \* the page on show
    cache,      \* list |-> its entry in the query cache
    dialog,     \* the open dialog, or Null
    draft,      \* what was left in the dialog for new users
    asked,      \* the confirmation for the deletion is open
    requests,   \* the writes under way
    acked,      \* list |-> its revision of the last acknowledged write that changed it
    writes, foreign

fixed == <<subject, focus, watched>>
tables == <<rows, rev>>
budget == <<writes, foreign>>
ui == <<page, dialog, draft, asked>>
consoleVars == <<fixed, tables, ui, cache, requests, acked, budget>>

Lists == {subject, watched}
row == rows[Len(rows)]

\* The lists a page shows.  The links are in a drawer of the tunnels' page.
Shows == [
    nodes |-> {"nodes"}, tunnels |-> {"tunnels", "nodes"}, chains |-> {"chains", "tunnels", "nodes"},
    rules |-> {"rules", "tunnels", "users", "endpoints"}, endpoints |-> {"endpoints"},
    users |-> {"users"}, packages |-> {"packages", "nodes", "tunnels"}]

\* Bound: a tab whose own list is watched stays on its page, beside other writers; else it goes to the
\* other list's page and back, deletes as well, and is alone.
Roams == watched # subject
Places == {subject, watched}
OnShow(k) == k \in Shows[page]

\* What the lists return depends on other tables: counts of links and rules, states of rules and
\* of subscriptions, addresses that follow their endpoint.
Affects(t, op) ==
    CASE t = "nodes" -> IF op = "delete" THEN {"nodes", "tunnels", "chains"} ELSE {"nodes"}
      [] t = "tunnels" -> IF op = "delete" THEN {"tunnels", "chains", "rules"} ELSE {"tunnels"}
      [] t = "chains" -> IF op = "edit" THEN {"chains"} ELSE {"chains", "tunnels"}
      [] t = "rules" -> {"rules", "endpoints"}
      [] t = "endpoints" -> IF op = "edit" THEN {"endpoints", "rules"} ELSE {"endpoints"}
      [] t = "users" -> IF op = "create" THEN {"users"} ELSE {"users", "rules"}
      [] t = "packages" -> IF op = "edit" THEN {"packages", "users", "rules"} ELSE {"packages"}

InvalidatesOwn(t, op) == {t}

\* What each page invalidates after a write.
Invalidates(t, op) ==
    CASE t = "chains" -> {"chains", "tunnels"}
      [] t = "endpoints" /\ op # "delete" -> {"endpoints", "rules"}
      [] OTHER -> {t}

\* Lists that a write leaves as they are in the cache, up to 30 s old when they are next shown.
LeftOld(t, op) ==
    CASE t = "nodes" /\ op = "delete" -> {"tunnels", "chains"}
      [] t = "tunnels" /\ op = "delete" -> {"chains", "rules"}
      [] t = "rules" -> {"endpoints"}
      [] t = "users" -> {"rules"}
      [] t = "packages" /\ op = "edit" -> {"users", "rules"}
      [] OTHER -> {}

Promised(t, op) == Affects(t, op) \ LeftOld(t, op)

-----------------------------------------------------------------------------
(* The query cache.                                                        *)

NoEntry == [data |-> Null, fresh |-> FALSE, failed |-> FALSE, flight |-> Null]

\* A fetch brings what its list returned at some moment since then.
Asking(k) == [since |-> rev[k], passed |-> FALSE]

Fetching(k, e) == IF ~e.fresh /\ e.flight = Null THEN [e EXCEPT !.flight = Asking(k)] ELSE e

\* refetch(): anew where there is data, else the fetch under way is enough.
Refetching(k, e) ==
    IF e.flight = Null \/ e.data # Null THEN [e EXCEPT !.flight = Asking(k)] ELSE e

\* A fetch that an invalidation lets run may bring what was there before.
Passed(e) == IF e.flight = Null THEN e ELSE [e EXCEPT !.flight.passed = TRUE]

Invalidated(k, e) ==
    LET m == [e EXCEPT !.fresh = FALSE]
    IN  IF OnShow(k) /\ (e.data # Null \/ e.flight = Null) THEN Refetching(k, m) ELSE Passed(m)

\* What time does to an entry before it is next looked at: 30 s make it stale, and five minutes off
\* the screen remove it.
Aged(k, e) ==
    {e, [e EXCEPT !.fresh = FALSE]}
        \cup IF ~OnShow(k) /\ e.flight = Null THEN {NoEntry} ELSE {}

Looked(ks) ==
    \E aged \in [Lists -> UNION {Aged(k, cache[k]) : k \in Lists}] :
        /\ \A k \in Lists :
            aged[k] \in IF k \in ks THEN Aged(k, cache[k]) ELSE {cache[k]}
        /\ cache' = [k \in Lists |-> IF k \in ks THEN Fetching(k, aged[k]) ELSE cache[k]]

\* The first page of the tab.
Mounted(p) == [k \in Lists |-> IF k \in Shows[p] THEN Fetching(k, NoEntry) ELSE NoEntry]

Land(k) ==
    /\ cache[k].flight # Null
    /\ \E n \in cache[k].flight.since .. rev[k] :
        cache' = [cache EXCEPT ![k] =
            [data |-> [rev |-> n, passed |-> cache[k].flight.passed], fresh |-> TRUE,
             failed |-> FALSE, flight |-> Null]]
    /\ UNCHANGED <<fixed, tables, ui, requests, acked, budget>>

\* The request and its retry have failed: an error, even where there is data.
FailGet(k) ==
    /\ cache[k].flight # Null
    /\ cache' = [cache EXCEPT ![k].flight = Null, ![k].failed = TRUE, ![k].fresh = FALSE]
    /\ UNCHANGED <<fixed, tables, ui, requests, acked, budget>>

\* The button above the table, or the one in place of a table that could not be fetched.  The
\* drawer has none.
Refresh ==
    /\ page = subject /\ subject # "chains"
    /\ cache' = [cache EXCEPT ![subject] = Refetching(subject, @)]
    /\ UNCHANGED <<fixed, tables, ui, requests, acked, budget>>

\* The pointer on the link to a page.
Hover(p) ==
    /\ p # "chains" /\ Roams
    /\ Looked({p} \cap Lists)
    /\ UNCHANGED <<fixed, tables, ui, requests, acked, budget>>

\* The page that is left takes its dialogs and its hooks with it, not the confirmation, which hangs
\* at the root, and not what it has sent.
Navigate(p) ==
    /\ p # page
    /\ page' = p
    /\ Looked(Shows[p] \cap Lists)
    /\ dialog' = Null /\ draft' = Untyped
    /\ requests' = {[q EXCEPT !.mine = FALSE] : q \in requests}
    /\ UNCHANGED <<fixed, tables, asked, acked, budget>>

-----------------------------------------------------------------------------
(* The dialogs.                                                            *)

\* The row as it is on show.  An error takes the place of a page's table, and leaves the
\* drawer of the links as it was.
Row == IF cache[subject].data # Null /\ (subject = "chains" \/ ~cache[subject].failed)
       THEN rows[cache[subject].data.rev + 1] ELSE Null

OnRow == page = subject /\ Row # Null

\* In the dialog for a new row the other fields that must be filled in are.
Filled(kind) == IF kind \in {"text", "required", "address"} THEN "a" ELSE Blank(kind)

Values(d) ==
    [f \in FieldsOf(subject) |->
        CASE f = focus /\ d.typed # Untyped -> d.typed
          [] ~(f = focus /\ d.typed # Untyped) /\ d.base = Null -> Filled(Form[subject][f])
          [] OTHER -> Shown(Form[subject][f], d.base[f])]

Waiting(op) == \E q \in requests : q.op = op /\ q.mine

\* `late`: opened while an earlier save of the same dialog is still unanswered.
OpenCreate ==
    /\ page = subject /\ dialog = Null /\ row = Null
    /\ dialog' = [op |-> "create", base |-> Null, typed |-> draft, late |-> Waiting("create")]
    /\ UNCHANGED <<fixed, tables, page, draft, asked, cache, requests, acked, budget>>

OpenEdit ==
    /\ OnRow /\ dialog = Null /\ subject # "users"
    /\ dialog' = [op |-> "edit", base |-> Row, typed |-> Untyped, late |-> Waiting("edit")]
    /\ UNCHANGED <<fixed, tables, page, draft, asked, cache, requests, acked, budget>>

Type(v) ==
    /\ dialog # Null /\ dialog.typed = Untyped
    /\ ~(subject = "users" /\ focus = "status")
    /\ dialog' = [dialog EXCEPT !.typed = v]
    /\ UNCHANGED <<fixed, tables, page, draft, asked, cache, requests, acked, budget>>

\* The dialog for new users keeps what was typed.
Cancel ==
    /\ dialog # Null
    /\ dialog' = Null
    /\ draft' = IF subject = "users" THEN dialog.typed ELSE Untyped
    /\ UNCHANGED <<fixed, tables, page, asked, cache, requests, acked, budget>>

Request(op, base, typed, payload) ==
    [op |-> op, base |-> base, typed |-> typed, payload |-> payload, mine |-> TRUE,
     done |-> FALSE, at |-> Null]

Send(q) ==
    /\ writes < MaxWrites
    /\ writes' = writes + 1
    /\ requests' = requests \cup {q}

\* The button of a dialog waits for the dialog's save.
Submit ==
    /\ dialog # Null /\ ~Waiting(dialog.op)
    /\ ~Invalid(subject, Values(dialog))
    /\ Send(Request(dialog.op, dialog.base, dialog.typed, Payload(subject, Values(dialog))))
    /\ UNCHANGED <<fixed, tables, ui, cache, acked, foreign>>

\* A user's status becomes the other one than is shown.
Toggle ==
    /\ subject = "users" /\ OnRow /\ dialog = Null
    /\ LET other == IF Row["status"] = "a" THEN "b" ELSE "a"
       IN  Send(Request("toggle", Row, other,
                        [f \in FieldsOf(subject) |-> IF f = "status" THEN other ELSE Keep]))
    /\ UNCHANGED <<fixed, tables, ui, cache, acked, foreign>>

Ask ==
    /\ OnRow /\ dialog = Null /\ ~asked /\ Roams
    /\ asked' = TRUE
    /\ UNCHANGED <<fixed, tables, page, dialog, draft, cache, requests, acked, budget>>

\* The confirmation runs what it was opened with, whatever is on show by now.
Confirm ==
    /\ asked /\ asked' = FALSE
    /\ \/ Send(Request("delete", Null, Untyped, Null))
       \/ UNCHANGED <<requests, writes>>
    /\ UNCHANGED <<fixed, tables, page, dialog, draft, cache, acked, foreign>>

-----------------------------------------------------------------------------
(* The writes.                                                             *)

Bumped(op) == [k \in Lists |-> IF k \in Affects(subject, op) THEN rev[k] + 1 ELSE rev[k]]

Written(q) ==
    CASE q.op = "create" -> Created(subject, q.payload)
      [] q.op \in {"edit", "toggle"} -> Updated(subject, row, q.payload)
      [] q.op = "delete" -> Null

Answered(q, at) == requests' = (requests \ {q}) \cup {[q EXCEPT !.done = TRUE, !.at = at]}

\* The handler writes the row, or refuses: an unknown id, a conflict, a failure.
ServeSave(q) ==
    /\ ~q.done
    /\ \/ /\ q.op = "create" <=> row = Null
          /\ rows' = Append(rows, Written(q))
          /\ rev' = Bumped(q.op)
          /\ Answered(q, rev')
       \/ /\ UNCHANGED tables
          /\ Answered(q, Null)
    /\ UNCHANGED <<fixed, ui, cache, acked, budget>>

\* settle(): invalidate, and close the dialog of this kind, whichever row it is open for.
ClosesAny(q) == q.mine /\ dialog # Null

Closes(q) == q.mine /\ dialog # Null /\ dialog.op = q.op

Settle(q) ==
    /\ q.done /\ q.at # Null
    /\ cache' = [k \in Lists |->
                    IF k \in Invalidates(subject, q.op)
                    THEN Invalidated(k, cache[k]) ELSE cache[k]]
    /\ dialog' = IF Closes(q) THEN Null ELSE dialog
    /\ draft' = IF q.op = "create" THEN Untyped ELSE draft
    /\ acked' = [k \in Lists |->
                    IF k \in Promised(subject, q.op) /\ q.at[k] > acked[k]
                    THEN q.at[k] ELSE acked[k]]
    /\ requests' = requests \ {q}
    /\ UNCHANGED <<fixed, tables, page, asked, budget>>

\* Refused, or an answer that is lost: a message, and the dialog stays.
Toast(q) ==
    /\ q.done
    /\ requests' = requests \ {q}
    /\ UNCHANGED <<fixed, tables, ui, cache, acked, budget>>

\* Another administrator, or the API.
Foreign ==
    /\ ~Roams
    /\ foreign < MaxForeign /\ foreign' = foreign + 1
    /\ row # Null
    /\ \/ \E v \in StoredValue(Form[subject][focus]) :
            /\ v # row[focus]
            /\ rows' = Append(rows, Normal(subject, [row EXCEPT ![focus] = v]))
            /\ rev' = Bumped("edit")
       \/ rows' = Append(rows, Null) /\ rev' = Bumped("delete")
    /\ UNCHANGED <<fixed, ui, cache, requests, acked, writes>>

-----------------------------------------------------------------------------
Plain(kind) ==
    CASE kind = "rate" -> 100 * Hundredth
      [] kind = "entry" -> "out"
      [] kind = "port" -> 1000
      [] kind = "endpoint" -> Null
      [] kind \notin {"rate", "entry", "port", "endpoint"} -> "a"

\* One field of each kind is written; the others are plain.
Stored(t, f) ==
    {Normal(t, [g \in FieldsOf(t) |-> IF g = f THEN v ELSE Plain(Form[t][g])]) :
        v \in StoredValue(Form[t][f])}

\* Bound: one field of each kind, and the other lists for the sake of one field of a plain row.
Samples(t) ==
    {CHOOSE f \in FieldsOf(t) : Form[t][f] = kind :
        kind \in {Form[t][f] : f \in FieldsOf(t)} \ {"unshown"}}

Principal(t) == CHOOSE f \in FieldsOf(t) : Form[t][f] \in {"text", "required"}

ConsoleInit ==
    /\ subject \in Table
    /\ watched \in UNION {Affects(subject, op) : op \in {"create", "edit", "delete"}}
    /\ IF watched = subject
       THEN focus \in Samples(subject) /\ rows \in {<<r>> : r \in Stored(subject, focus) \cup {Null}}
       ELSE /\ focus = Principal(subject)
            /\ rows \in {<<Null>>, <<[g \in FieldsOf(subject) |-> Plain(Form[subject][g])]>>}
    /\ rev = [k \in Lists |-> 0]
    /\ page = watched
    /\ cache = Mounted(page)
    /\ dialog = Null /\ draft = Untyped /\ asked = FALSE
    /\ requests = {}
    /\ acked = [k \in Lists |-> 0]
    /\ writes = 0 /\ foreign = 0

ConsoleNext ==
    \/ \E k \in Lists : Land(k) \/ FailGet(k)
    \/ \E p \in Places : Hover(p) \/ Navigate(p)
    \/ Refresh \/ OpenCreate \/ OpenEdit \/ Cancel \/ Submit \/ Toggle \/ Ask \/ Confirm
    \/ \E v \in Entered(Form[subject][focus]) : Type(v)
    \/ \E q \in requests : ServeSave(q) \/ Settle(q) \/ Toast(q)
    \/ Foreign

ConsoleSpec == ConsoleInit /\ [][ConsoleNext]_consoleVars

-----------------------------------------------------------------------------
(* Properties.                                                             *)

\* After a write of this tab has been acknowledged, a list that its page counts on to change shows
\* the change, unless the list is known to be out of date, could not be fetched, or came from a fetch
\* that the invalidation let run.
OwnWritesShown ==
    \A k \in Lists :
        cache[k].fresh /\ ~cache[k].data.passed
            => cache[k].data.rev >= acked[k]

\* A value that the dialog rounds, or a field that follows from another one, cannot stay.
Survives(f, r) ==
    CASE Form[subject][f] = "rate" -> r[f] = Null \/ r[f] % Hundredth = 0
      [] Form[subject][f] = "port" -> r["chain_type"] = "out"
      [] Form[subject][f] = "address" -> r["endpoint_id"] = Null
      [] Form[subject][f] = "unshown" -> FALSE
      [] OTHER -> TRUE

Arrives(f, r) ==
    CASE Form[subject][f] \in {"port", "address"} -> Survives(f, r)
      [] OTHER -> TRUE

\* A save of a dialog that was opened on the row as it is stored changes what was typed in and
\* nothing else; only the emptying of an optional text is dropped.
SavedAsShown ==
    [][\A q \in requests :
        q.op = "edit" /\ ~q.done /\ rows' # rows /\ q \notin requests' /\ row = q.base =>
            \A f \in FieldsOf(subject) :
                IF f = focus /\ q.typed # Untyped
                THEN Arrives(f, row') /\ ~(Form[subject][f] = "optional" /\ q.typed = "")
                        => row'[f] = SentNull(Form[subject][f], q.typed)
                ELSE Survives(f, row') /\ Survives(f, row) => row'[f] = row[f]]_consoleVars

\* An answer closes the dialog that was waiting for it and no other one, but for a dialog of the same
\* kind that was opened while it was awaited.
DialogsCloseForTheirOwn ==
    [][dialog # Null /\ dialog' = Null /\ page' = page /\ requests' # requests =>
        \/ dialog.late
        \/ \E q \in requests \ requests' :
                q.mine /\ q.op = dialog.op /\ q.base = dialog.base]_consoleVars

=============================================================================
