---------------------------- MODULE MCTraceParser ----------------------------
(* An instance of TraceParser for TLC. *)
EXTENDS TraceParser

Account(id, balance) == [id |-> id, balance |-> balance]
Line(id, tick, op, account, target, amount) ==
  [id |-> id, tick |-> tick, op |-> op, account |-> account, target |-> target,
   amount |-> amount]

\* Both ends of the range of accounts, numbers beyond it, and a balance that
\* does not fit an int.
SmallAccounts == {Account(0, 3), Account(0, 9), Account(1, 2), Account(2, 1), Account(-1, 1)}

\* Three transactions for two slots, later lines of the first one, the label
\* without a number and the number of the sentinel.
SmallTrace ==
  {Line(1, 0, "DEPOSIT", 0, 0, 1), Line(1, 2, "BALANCE", 0, 0, 5),
   Line(2, 1, "TRANSFER", 0, 1, 2), Line(3, 0, "WITHDRAW", 1, 1, 1),
   Line(0, 3, "UNKNOWN", 1, 0, 4), Line(-1, 0, "DEPOSIT", 1, 0, 2)}
=============================================================================
