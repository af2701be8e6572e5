----------------------------- MODULE AtomicBank -----------------------------
(***************************************************************************)
(* What lab_3/src/bank.c promises its callers: every call takes effect in  *)
(* one step between its invocation and its return.  A deposit or a         *)
(* withdrawal moves centavos between an account and the reserve, a         *)
(* transfer moves them between two accounts, and nothing else moves money. *)
(* Module Bank, with its locks and its windows, implements this module.    *)
(***************************************************************************)
EXTENDS Integers, FiniteSetsExt

CONSTANTS
  Threads,         \* the callers
  Accounts,        \* account identifiers
  Calls,           \* the calls a thread may make (see Bank)
  InitialBalance,  \* [Accounts -> Int], the accounts file
  None

VARIABLES
  funds,           \* [Accounts -> Int]
  reserve,         \* the bank's own side of deposits and withdrawals
  request,         \* [Threads -> Calls \cup {None}]
  answered,        \* [Threads -> BOOLEAN], the request has taken effect
  ok,              \* [Threads -> BOOLEAN], what the call returns
  read             \* [Threads -> Int], what a BALANCE call returns

vars == <<funds, reserve, request, answered, ok, read>>

Init ==
  /\ funds = InitialBalance
  /\ reserve = 0
  /\ request = [t \in Threads |-> None]
  /\ answered = [t \in Threads |-> FALSE]
  /\ ok = [t \in Threads |-> TRUE]
  /\ read = [t \in Threads |-> 0]

Invoke(t, c) ==
  /\ request[t] = None
  /\ request' = [request EXCEPT ![t] = c]
  /\ ok' = [ok EXCEPT ![t] = TRUE]
  /\ UNCHANGED <<funds, reserve, answered, read>>

Pending(t) == request[t] # None /\ ~answered[t]

\* The three ways a call can take effect.
Moves(t, newFunds, newReserve) ==
  /\ funds' = newFunds
  /\ reserve' = newReserve
  /\ answered' = [answered EXCEPT ![t] = TRUE]
  /\ UNCHANGED <<request, ok, read>>

Refuses(t) ==
  /\ ok' = [ok EXCEPT ![t] = FALSE]
  /\ answered' = [answered EXCEPT ![t] = TRUE]
  /\ UNCHANGED <<funds, reserve, request, read>>

Deposit(t) ==
  LET c == request[t] IN
    /\ Pending(t) /\ c.type = "deposit"
    /\ Moves(t, [funds EXCEPT ![c.account] = @ + c.amount], reserve - c.amount)

Withdraw(t) ==
  LET c == request[t] IN
    /\ Pending(t) /\ c.type = "withdraw"
    /\ \/ /\ funds[c.account] < c.amount
          /\ Refuses(t)
       \/ /\ funds[c.account] >= c.amount
          /\ Moves(t, [funds EXCEPT ![c.account] = @ - c.amount],
                   reserve + c.amount)

Transfer(t) ==
  LET c == request[t] IN
    /\ Pending(t) /\ c.type = "transfer"
    /\ \/ /\ c.account = c.target
          /\ Moves(t, funds, reserve)
       \/ /\ c.account # c.target
          /\ funds[c.account] < c.amount
          /\ Refuses(t)
       \/ /\ c.account # c.target
          /\ funds[c.account] >= c.amount
          /\ Moves(t, [funds EXCEPT ![c.account] = @ - c.amount,
                                    ![c.target]  = @ + c.amount], reserve)

Balance(t) ==
  LET c == request[t] IN
    /\ Pending(t) /\ c.type = "balance"
    /\ read' = [read EXCEPT ![t] = funds[c.account]]
    /\ answered' = [answered EXCEPT ![t] = TRUE]
    /\ UNCHANGED <<funds, reserve, request, ok>>

Return(t) ==
  /\ request[t] # None /\ answered[t]
  /\ request' = [request EXCEPT ![t] = None]
  /\ answered' = [answered EXCEPT ![t] = FALSE]
  /\ UNCHANGED <<funds, reserve, ok, read>>

Next ==
  \E t \in Threads :
    \/ \E c \in Calls : Invoke(t, c)
    \/ Deposit(t) \/ Withdraw(t) \/ Transfer(t) \/ Balance(t)
    \/ Return(t)

Spec == Init /\ [][Next]_vars
=============================================================================
