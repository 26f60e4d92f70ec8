----------------------------- MODULE MCAccounts -----------------------------
(* Two plans: a small one for one node that ends, and a wide one for one tunnel. *)
EXTENDS Accounts, TLC

CONSTANTS t1, n1

MCPlan == {
    [bytes |-> 1, maxRules |-> 1, tunnels |-> None, nodes |-> {n1}, period |-> 2],
    [bytes |-> 0, maxRules |-> 0, tunnels |-> {t1}, nodes |-> None, period |-> 0]}

Symmetric == Permutations(Request) \cup Permutations(Rule) \cup Permutations(Endpoint)

=============================================================================
