------------------------------- MODULE MCBank -------------------------------
(* Instances of Bank for TLC. *)
EXTENDS Bank, TLC

CONSTANTS t1, t2, t3

Call(type, account, target, amount) ==
  [type |-> type, account |-> account, target |-> target, amount |-> amount]

\* Three accounts with little money: refusals, and transfers in both
\* directions around a ring of accounts and on one account.
SmallBalance == (0 :> 2) @@ (1 :> 1) @@ (2 :> 0)

SmallCalls ==
  {Call("deposit", 0, 0, 1), Call("withdraw", 0, 0, 2), Call("balance", 0, 0, 0),
   Call("transfer", 0, 1, 2), Call("transfer", 1, 0, 1),
   Call("transfer", 1, 2, 1), Call("transfer", 2, 0, 1), Call("transfer", 2, 2, 5)}

\* Two accounts near the ends of the range.
TwoBalance == (0 :> 2) @@ (1 :> 1)

\* Ints of three bits and amounts of either sign: sums leave the range.
WrapCalls ==
  {Call("deposit", 0, 0, 3), Call("withdraw", 0, 0, -2), Call("balance", 1, 0, 0),
   Call("transfer", 0, 1, 3), Call("transfer", 1, 0, -4)}

ThreadSymmetry == Permutations(Threads)
=============================================================================
