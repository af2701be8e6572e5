---------------------------- MODULE MCBankEngine ----------------------------
(* Instances of BankEngine for TLC. *)
EXTENDS BankEngine, TLC

CONSTANTS t1, t2, t3, t4, t5

Do(type, account, target, amount) ==
  [type |-> type, account |-> account, target |-> target, amount |-> amount]

Money == [a \in Accounts |-> IF a = 0 THEN 2 ELSE 1]

\* Transfers both ways between two accounts and on a single one, a deposit that
\* makes a later transfer possible, and a withdrawal that may abort its
\* transaction.
MixedProgram ==
  (t1 :> <<Do("deposit", 0, 0, 1), Do("transfer", 0, 1, 3)>>)
  @@ (t2 :> <<Do("transfer", 1, 0, 1), Do("transfer", 1, 1, 5)>>)
  @@ (t3 :> <<Do("withdraw", 1, 1, 1)>>)
MixedStart == (t1 :> 0) @@ (t2 :> 0) @@ (t3 :> 1)

\* Five transfers with the five slots of the program.
FiveTransfers ==
  [t \in Transactions |-> <<Do("transfer", 0, 1, 1)>>]
AllAtOnce == [t \in Transactions |-> 0]
=============================================================================
