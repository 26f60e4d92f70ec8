------------------------------- MODULE Forms -------------------------------
(***************************************************************************)
(* The panel's dialogs as tables: which fields each one has and of which   *)
(* kind.  The kind says how a stored value is shown, what can be entered,  *)
(* when the dialog refuses it, and what is sent; the handlers write what   *)
(* is sent and leave alone what is not.                                    *)
(*                                                                         *)
(*   text      must not be empty (or zero, for a port)                     *)
(*   choice    a number, a switch or a selection that is always valid      *)
(*   optional  stored as NULL when empty; an empty one is not sent         *)
(*   nullable  stored as NULL when empty; an empty one is sent as null     *)
(*   required  a selection that may be stored as NULL but not sent so      *)
(*   rate      Mb/s with two decimals in the form, bytes/s in the row      *)
(*   entry     the type of a link; port  its port, which an entry has not  *)
(*   endpoint  a rule's endpoint; address  its target, the endpoint's if   *)
(*             there is one                                                *)
(*   unshown   set through the API only; what the dialog sends erases it   *)
(***************************************************************************)
EXTENDS Integers

CONSTANTS
    Null,       \* NULL
    Keep        \* a field that is not sent

\* The texts that can be told apart.
Word == {"", "a", "b", "e", "in", "out", "address of e"}

ASSUME FormsAssumption ==
    /\ Null # Keep
    /\ Null \notin Word /\ Null \notin Int
    /\ Keep \notin Word /\ Keep \notin Int

NodeForm == [
    name |-> "text", address |-> "text", display_address |-> "optional", ports |-> "text",
    level |-> "choice", traffic_limit |-> "choice", rate |-> "choice", is_public |-> "choice",
    description |-> "optional"]

TunnelForm == [
    name |-> "text", ingress_display_address |-> "optional", description |-> "optional",
    tls_enabled |-> "choice"]

ChainForm == [
    node_id |-> "required", chain_type |-> "entry", transport |-> "choice", index |-> "choice",
    port |-> "port", strategy |-> "choice"]

RuleForm == [
    name |-> "text", listen_port |-> "text", endpoint_id |-> "endpoint", targets |-> "address",
    status |-> "choice", description |-> "optional", tunnel_id |-> "required",
    user_id |-> "nullable", exit_port |-> "choice", service_in |-> "rate", service_out |-> "rate",
    conn_in |-> "rate", conn_out |-> "rate", service_limit |-> "nullable",
    ips |-> "unshown"]

EndpointForm == [name |-> "text", host |-> "text", port |-> "text", note |-> "optional"]

\* Users are created from a dialog; of an existing one the page changes the status only.
UserForm == [name |-> "text", note |-> "optional", status |-> "choice"]

PackageForm == [
    name |-> "text", traffic_bytes |-> "choice", period_days |-> "choice", max_rules |-> "choice",
    node_ids |-> "nullable", tunnel_ids |-> "nullable", note |-> "optional"]

Form == [
    nodes |-> NodeForm, tunnels |-> TunnelForm, chains |-> ChainForm, rules |-> RuleForm,
    endpoints |-> EndpointForm, users |-> UserForm, packages |-> PackageForm]

Table == DOMAIN Form

FieldsOf(t) == DOMAIN Form[t]

-----------------------------------------------------------------------------
(* Values.  Two of each kind are enough to tell a changed one from an      *)
(* unchanged one; a rate can also be one that the API has written and      *)
(* that is no multiple of a hundredth of a Mb/s, or less than one.         *)

Hundredth == 1250       \* bytes/s in 0.01 Mb/s

StoredValue(kind) ==
    CASE kind \in {"text", "choice"} -> {"a", "b"}
      [] kind \in {"optional", "nullable", "required"} -> {Null, "a", "b"}
      [] kind = "unshown" -> {Null, "a"}
      [] kind = "rate" -> {Null, 100 * Hundredth, 100 * Hundredth + 1, 500}
      [] kind = "entry" -> {"in", "out"}
      [] kind = "port" -> {0, 1000}
      [] kind = "endpoint" -> {Null, "e"}
      [] kind = "address" -> {"a", "b", "address of e"}

Entered(kind) ==
    CASE kind \in {"text", "optional", "nullable", "required"} -> {"", "a", "b"}
      [] kind = "choice" -> {"a", "b"}
      [] kind = "rate" -> {Null, 0, 100, 200}
      [] kind = "entry" -> {"in", "out"}
      [] kind = "port" -> {0, 1000}
      [] kind = "endpoint" -> {"", "e"}
      [] kind = "address" -> {"", "a", "b"}
      [] kind = "unshown" -> {}

\* bytesToMbps: two decimals.
Rounded(bytes) == (bytes + Hundredth \div 2) \div Hundredth

\* nodeFormValues and the like: the row in the dialog.
Shown(kind, v) ==
    CASE v = Null \/ kind = "unshown" -> IF kind = "rate" THEN Null ELSE ""
      [] v # Null /\ kind = "rate" -> Rounded(v)
      [] v # Null /\ kind \notin {"rate", "unshown"} -> v

\* A new row's dialog.
Blank(kind) ==
    CASE kind \in {"text", "optional", "nullable", "required", "endpoint", "address", "unshown"} -> ""
      [] kind = "choice" -> "a"
      [] kind = "rate" -> Null
      [] kind = "entry" -> "in"
      [] kind = "port" -> 0

Refused(kind, s) ==
    \/ kind \in {"text", "required"} /\ s = ""
    \/ kind = "rate" /\ s # Null /\ s <= 0

\* A target is asked for only where there is no endpoint to give it.
Invalid(t, values) ==
    \/ \E f \in FieldsOf(t) : Refused(Form[t][f], values[f])
    \/ t = "rules" /\ values["endpoint_id"] = "" /\ values["targets"] = ""

\* What is sent when an empty field means null throughout.
SentNull(kind, s) ==
    CASE kind = "rate" -> IF s = Null THEN Null ELSE s * Hundredth
      [] kind = "port" -> s
      [] kind \notin {"rate", "port"} -> IF s = "" THEN Null ELSE s

SentFilled(kind, s) ==
    IF kind \notin {"rate", "port"} /\ s = "" THEN Keep ELSE SentNull(kind, s)

\* `|| undefined` for the texts, null for the others.
Sent(kind, s) == IF kind = "optional" /\ s = "" THEN Keep ELSE SentNull(kind, s)

AddressOf(e) == "address of e"

\* A link that enters has no port, and an endpoint gives the target.
Payload(t, values) ==
    [f \in FieldsOf(t) |->
        CASE Form[t][f] = "port" /\ values["chain_type"] = "in" -> 0
          [] Form[t][f] = "address" /\ values["endpoint_id"] # "" -> AddressOf(values["endpoint_id"])
          [] OTHER -> Sent(Form[t][f], values[f])]

\* The handlers see to it once more, whatever is sent.
Normal(t, r) ==
    [f \in FieldsOf(t) |->
        CASE Form[t][f] = "port" /\ r["chain_type"] = "in" -> 0
          [] Form[t][f] = "address" /\ r["endpoint_id"] # Null -> AddressOf(r["endpoint_id"])
          [] OTHER -> r[f]]

\* PUT: what is not sent stays.
Updated(t, r, p) == Normal(t, [f \in FieldsOf(t) |-> IF p[f] = Keep THEN r[f] ELSE p[f]])

\* POST: what is not sent is NULL.
Created(t, p) == Normal(t, [f \in FieldsOf(t) |-> IF p[f] = Keep THEN Null ELSE p[f]])

=============================================================================
