--------------------------- MODULE PinnedAccounts ---------------------------
(***************************************************************************)
(* What lab_3/src/buffer_pool.c promises transactions: an account loaded   *)
(* by a transaction stays pinned until that transaction unloads it, and at *)
(* most PoolSize accounts are pinned at a time, counting an account once   *)
(* for each load.                                                          *)
(***************************************************************************)
EXTENDS Integers, FiniteSets

CONSTANTS Threads, Accounts, PoolSize

Pins == Threads \X Accounts \X (1 .. 2)

VARIABLE pinned   \* the loads not yet unloaded

Init == pinned = {}

Pin(p) ==
  /\ p \notin pinned
  /\ Cardinality(pinned) < PoolSize
  /\ pinned' = pinned \cup {p}

Unpin(p) ==
  /\ p \in pinned
  /\ pinned' = pinned \ {p}

Next == \E p \in Pins : Pin(p) \/ Unpin(p)

Spec == Init /\ [][Next]_pinned
=============================================================================
