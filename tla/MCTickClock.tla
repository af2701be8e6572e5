---------------------------- MODULE MCTickClock ----------------------------
(* Instances of TickClock for TLC. *)
EXTENDS TickClock, TLC

CONSTANTS t1, t2

\* One transaction due at once, one later, with two and one operations.
Starts == (t1 :> 0) @@ (t2 :> 2)
Ops    == (t1 :> 2) @@ (t2 :> 1)
=============================================================================
