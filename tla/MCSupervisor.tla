---------------------------- MODULE MCSupervisor ----------------------------
(* A small instance of Supervisor: two services that can want each other's *)
(* port, with a plaintext, a TLS-listening and a TLS-dialling shape.       *)
EXTENDS Supervisor

MCConfig ==
    {[port |-> 1, tls |-> "none"], [port |-> 1, tls |-> "listen"],
     [port |-> 2, tls |-> "listen"], [port |-> 2, tls |-> "connect"]}

Once(c) == [first |-> c, chosen |-> c]

\* The payload is sorted by name and port, so the later of two entries with
\* one name is the one on the higher port; both legs of a TLS tunnel have a
\* TLS side.
MCDesired ==
    {Once(c) : c \in MCConfig}
    \cup {[first |-> [port |-> 1, tls |-> "listen"], chosen |-> [port |-> 2, tls |-> "connect"]]}
=============================================================================
