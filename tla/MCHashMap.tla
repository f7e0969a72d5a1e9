----------------------------- MODULE MCHashMap -----------------------------
(* Instances of HashMap for TLC. *)
EXTENDS HashMap, TLC

CONSTANTS k1, k2, k3, k4

(* Homes collide, and one is the last slot, so that probes wrap; the       *)
(* collisions change when the table grows.                                 *)
CollidingHash == (k1 :> 3) @@ (k2 :> 3) @@ (k3 :> 7) @@ (k4 :> 0)

=============================================================================
