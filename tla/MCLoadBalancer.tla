--------------------------- MODULE MCLoadBalancer ---------------------------
(* Two buckets in use of three, one client that gives the maximum and one   *)
(* that does not; nonces and sources that spread over all buckets.          *)
EXTENDS LoadBalancer

CONSTANTS c0, c1

Indices == [c \in Clients |-> IF c = c0 THEN 0 ELSE 1]
Maxima == [c \in Clients |-> IF c = c0 THEN 2 ELSE 0]
Hashes == [n \in Nonces \cup {0} |-> [s \in Sources |-> n + s]]
=============================================================================
