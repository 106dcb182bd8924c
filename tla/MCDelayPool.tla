---------------------------- MODULE MCDelayPool ----------------------------
(* Bounded instances of DelayPool for TLC: addresses that share a bucket. *)
EXTENDS DelayPool

CONSTANTS p1, p2, a, b, k1

Colliding == [i \in Ip |-> k1]
=============================================================================
