-------------------------------- MODULE Bank --------------------------------
(***************************************************************************)
(* lab_3/src/bank.c: accounts guarded by one pthread_rwlock_t each and a   *)
(* reserve kept in an atomic counter.                                      *)
(*                                                                         *)
(* A thread runs one call at a time.  Each step below is a stretch of code *)
(* between two points where another thread can interfere: acquiring a      *)
(* lock, an update made under it, releasing it, the atomic update of the   *)
(* reserve that deposit() and withdraw() make AFTER releasing the lock.    *)
(* transfer() debits and credits in two statements, so in two steps.       *)
(*                                                                         *)
(* Balances are C ints: CInt wraps them.  pthread_rwlock_t is external and *)
(* modelled without a preference between readers and writers.              *)
(***************************************************************************)
EXTENDS Integers, FiniteSets, Functions

CONSTANTS
  Threads,         \* callers of the bank
  Accounts,        \* account identifiers, compared by transfer()
  Calls,           \* the calls a thread may make
  InitialBalance,  \* [Accounts -> Int], loaded before init_bank
  IntMax,          \* INT_MAX
  MaxCalls,        \* bound of a run: calls per thread
  None             \* no thread, no call

CallTypes == {"deposit", "withdraw", "transfer", "balance"}

CInts == -(IntMax + 1) .. IntMax

ASSUME BankAssumption ==
  /\ IsFiniteSet(Threads) /\ IsFiniteSet(Accounts)
  /\ Accounts \subseteq Nat
  /\ IntMax \in Nat
  /\ MaxCalls \in Nat
  /\ InitialBalance \in [Accounts -> CInts]
  /\ Calls \subseteq [type : CallTypes, account : Accounts,
                      target : Accounts, amount : CInts]
  /\ None \notin Threads
  /\ None \notin Calls

VARIABLES
  balance,   \* Account.balance_centavos
  reserve,   \* bank.reserve_balance_centavos, a long long: never wraps
  writer,    \* the thread holding the write lock of an account, or None
  readers,   \* the threads holding the read lock of an account
  call,      \* the call a thread is executing, or None
  at,        \* where in that call it is
  ok,        \* the boolean withdraw() and transfer() return
  read,      \* the value get_balance() returns
  served     \* number of calls a thread has completed (bounds the run)

money   == <<balance, reserve>>
locks   == <<writer, readers>>
thread  == <<call, at, ok, read, served>>
vars    == <<money, locks, thread>>

\* Signed addition as the compiled program does it: modulo 2^32.
CInt(x) == ((x + IntMax + 1) % (2 * (IntMax + 1))) - (IntMax + 1)

Places == {"idle", "lock", "lock2", "update", "debit", "credit",
           "unlock2", "unlock", "settle", "return"}

TypeOK ==
  /\ balance \in [Accounts -> CInts]
  /\ reserve \in Int
  /\ writer \in [Accounts -> Threads \cup {None}]
  /\ readers \in [Accounts -> SUBSET Threads]
  /\ call \in [Threads -> Calls \cup {None}]
  /\ at \in [Threads -> Places]
  /\ ok \in [Threads -> BOOLEAN]
  /\ read \in [Threads -> CInts]
  /\ served \in [Threads -> Nat]

Init ==
  /\ balance = InitialBalance
  /\ reserve = 0
  /\ writer = [a \in Accounts |-> None]
  /\ readers = [a \in Accounts |-> {}]
  /\ call = [t \in Threads |-> None]
  /\ at = [t \in Threads |-> "idle"]
  /\ ok = [t \in Threads |-> TRUE]
  /\ read = [t \in Threads |-> 0]
  /\ served = [t \in Threads |-> 0]

-----------------------------------------------------------------------------
\* The lock a call takes first, and the second one a transfer takes: the lower
\* identifier first, whatever the direction of the transfer.
ArgumentOrder(c) == <<c.account, c.target>>
LockOrder(c) ==
  IF c.type = "transfer" /\ c.target < c.account
    THEN <<c.target, c.account>>
    ELSE <<c.account, c.target>>
First(c)  == LockOrder(c)[1]
Second(c) == LockOrder(c)[2]

\* pthread_rwlock_t: who may enter.
Readable(a)   == writer[a] = None
Free(a)       == writer[a] = None /\ readers[a] = {}

\* The test withdraw() and transfer() make before they debit.
Empty(c)        == balance[c.account] <= 0
Insufficient(c) == balance[c.account] < c.amount

Goto(t, from, to) == at[t] = from /\ at' = [at EXCEPT ![t] = to]

-----------------------------------------------------------------------------
\* The caller enters bank.c.
Invoke(t, c) ==
  /\ Goto(t, "idle", "lock")
  /\ call' = [call EXCEPT ![t] = c]
  /\ ok' = [ok EXCEPT ![t] = TRUE]
  /\ UNCHANGED <<money, locks, read, served>>

\* transfer() from an account to itself returns at once.
SkipSelfTransfer(t) ==
  /\ Goto(t, "lock", "return")
  /\ call[t].type = "transfer" /\ call[t].account = call[t].target
  /\ UNCHANGED <<money, locks, call, ok, read, served>>

\* pthread_rwlock_rdlock in get_balance().
AcquireNothing(t) ==
  /\ Goto(t, "lock", "update")
  /\ call[t].type = "balance"
  /\ UNCHANGED <<money, locks, call, ok, read, served>>
AcquireRead(t) ==
  LET a == call[t].account IN
    /\ Goto(t, "lock", "update")
    /\ call[t].type = "balance"
    /\ Readable(a)
    /\ readers' = [readers EXCEPT ![a] = @ \cup {t}]
    /\ UNCHANGED <<money, writer, call, ok, read, served>>

\* pthread_rwlock_wrlock in deposit() and withdraw().
AcquireWrite(t) ==
  LET a == call[t].account IN
    /\ Goto(t, "lock", "update")
    /\ call[t].type \in {"deposit", "withdraw"}
    /\ Free(a)
    /\ writer' = [writer EXCEPT ![a] = t]
    /\ UNCHANGED <<money, readers, call, ok, read, served>>

\* transfer() locks the account with the lower identifier ...
AcquireFirst(t) ==
  LET a == First(call[t]) IN
    /\ Goto(t, "lock", "lock2")
    /\ call[t].type = "transfer" /\ call[t].account # call[t].target
    /\ Free(a)
    /\ writer' = [writer EXCEPT ![a] = t]
    /\ UNCHANGED <<money, readers, call, ok, read, served>>

\* ... and then, holding it, the other one.
AcquireSecond(t) ==
  LET a == Second(call[t]) IN
    /\ Goto(t, "lock2", "debit")
    /\ Free(a)
    /\ writer' = [writer EXCEPT ![a] = t]
    /\ UNCHANGED <<money, readers, call, ok, read, served>>

ApplyDeposit(t) ==
  LET c == call[t] IN
    /\ Goto(t, "update", "unlock")
    /\ c.type = "deposit"
    /\ balance' = [balance EXCEPT ![c.account] = CInt(@ + c.amount)]
    /\ UNCHANGED <<reserve, locks, call, ok, read, served>>

ApplyWithdraw(t) ==
  LET c == call[t] IN
    /\ Goto(t, "update", "unlock")
    /\ c.type = "withdraw"
    /\ \/ /\ Insufficient(c)
          /\ ok' = [ok EXCEPT ![t] = FALSE]
          /\ UNCHANGED balance
       \/ /\ ~Insufficient(c)
          /\ balance' = [balance EXCEPT ![c.account] = CInt(@ - c.amount)]
          /\ UNCHANGED ok
    /\ UNCHANGED <<reserve, locks, call, read, served>>

ReadBalance(t) ==
  /\ Goto(t, "update", "unlock")
  /\ call[t].type = "balance"
  /\ read' = [read EXCEPT ![t] = balance[call[t].account]]
  /\ UNCHANGED <<money, locks, call, ok, served>>

\* transfer() checks the funds and debits ...
Debit(t) ==
  LET c == call[t] IN
    /\ at[t] = "debit"
    /\ \/ /\ Insufficient(c)
          /\ Goto(t, "debit", "unlock2")
          /\ ok' = [ok EXCEPT ![t] = FALSE]
          /\ UNCHANGED balance
       \/ /\ ~Insufficient(c)
          /\ Goto(t, "debit", "credit")
          /\ balance' = [balance EXCEPT ![c.account] = CInt(@ - c.amount)]
          /\ UNCHANGED ok
    /\ UNCHANGED <<reserve, locks, call, read, served>>

\* ... and only then credits, both locks held.
Credit(t) ==
  LET c == call[t] IN
    /\ Goto(t, "credit", "unlock2")
    /\ balance' = [balance EXCEPT ![c.target] = CInt(@ + c.amount)]
    /\ UNCHANGED <<reserve, locks, call, ok, read, served>>

KeepSecond(t) ==
  /\ Goto(t, "unlock2", "unlock")
  /\ UNCHANGED <<money, locks, call, ok, read, served>>

ReleaseSecond(t) ==
  /\ Goto(t, "unlock2", "unlock")
  /\ writer' = [writer EXCEPT ![Second(call[t])] = None]
  /\ UNCHANGED <<money, readers, call, ok, read, served>>

\* deposit() and a successful withdraw() still have the reserve to update.
OwesAlways(t) == call[t].type \in {"deposit", "withdraw"}
OwesReserve(t) ==
  \/ call[t].type = "deposit"
  \/ call[t].type = "withdraw" /\ ok[t]

ReleaseFirst(t) ==
  LET a == First(call[t]) IN
    /\ Goto(t, "unlock", IF OwesReserve(t) THEN "settle" ELSE "return")
    /\ IF call[t].type = "balance"
         THEN /\ readers' = [readers EXCEPT ![a] = @ \ {t}]
              /\ UNCHANGED writer
         ELSE /\ writer' = [writer EXCEPT ![a] = None]
              /\ UNCHANGED readers
    /\ UNCHANGED <<money, call, ok, read, served>>

\* atomic_fetch_sub in deposit(), atomic_fetch_add in withdraw(): no lock held.
SettleReserve(t) ==
  LET c == call[t] IN
    /\ Goto(t, "settle", "return")
    /\ reserve' = IF c.type = "deposit" THEN reserve - c.amount
                                        ELSE reserve + c.amount
    /\ UNCHANGED <<balance, locks, call, ok, read, served>>

Return(t) ==
  /\ Goto(t, "return", "idle")
  /\ call' = [call EXCEPT ![t] = None]
  /\ served' = [served EXCEPT ![t] = @ + 1]
  /\ UNCHANGED <<money, locks, ok, read>>

\* One step of the body of a call, from its entry to its return statement.
Step(t) ==
  \/ SkipSelfTransfer(t)
  \/ AcquireRead(t) \/ AcquireWrite(t) \/ AcquireFirst(t) \/ AcquireSecond(t)
  \/ ApplyDeposit(t) \/ ApplyWithdraw(t) \/ ReadBalance(t)
  \/ Debit(t) \/ Credit(t)
  \/ ReleaseSecond(t) \/ ReleaseFirst(t)
  \/ SettleReserve(t)

\* Callers are free to call anything; MaxCalls bounds how often.
Next ==
  \E t \in Threads :
    \/ \E c \in Calls : served[t] < MaxCalls /\ Invoke(t, c)
    \/ Step(t)
    \/ Return(t)

Spec == Init /\ [][Next]_vars

\* Every thread keeps running its call as long as it can take a step.
FairSpec == Spec /\ \A t \in Threads : WF_vars(Step(t) \/ Return(t))
-----------------------------------------------------------------------------
(* Locking *)

\* The stretches of a call during which it holds its first and second lock.
HoldsFirst(t) ==
  at[t] \in {"lock2", "update", "debit", "credit", "unlock2", "unlock"}
HoldsSecond(t) == at[t] \in {"debit", "credit", "unlock2"}

Holds(t, a) ==
  \/ HoldsFirst(t)  /\ a = First(call[t])
  \/ HoldsSecond(t) /\ a = Second(call[t])

\* The lock a thread is about to acquire.
Wants(t, a) ==
  \/ /\ at[t] = "lock" /\ a = First(call[t])
     /\ ~(call[t].type = "transfer" /\ call[t].account = call[t].target)
  \/ at[t] = "lock2" /\ a = Second(call[t])

\* The accounts whose balance the next statement of a thread reads or writes.
Touches(t, a) ==
  \/ at[t] = "update" /\ a = call[t].account
  \/ at[t] \in {"debit", "credit"} /\ a \in {call[t].account, call[t].target}

\* No two threads are about to access one account unless both only read it
\* (bank.c 16-18, 24-26, 33-39, 59-72: every access is under the account's
\* lock, a write under the write lock).
NoDataRace ==
  \A t, u \in Threads : \A a \in Accounts :
    t # u /\ Touches(t, a) /\ Touches(u, a)
      => call[t].type = "balance" /\ call[u].type = "balance"

\* A thread that waits for a lock while holding another waits for an account
\* with a higher identifier than the one it holds (bank.c 50-60).
OrderedWaiting ==
  \A t \in Threads : \A a, b \in Accounts :
    Holds(t, a) /\ Wants(t, b) => a < b

-----------------------------------------------------------------------------
(* Money *)

Total(f) == SumFunctionOnSet(f, Accounts)

\* What a thread has taken from the accounts and not yet given to the reserve.
OwedToReserve(t) ==
  IF at[t] \in {"unlock", "settle"} /\ OwesReserve(t)
    THEN IF call[t].type = "deposit" THEN -call[t].amount ELSE call[t].amount
    ELSE 0

\* What a transfer has debited and not yet credited.
OwedToTarget(t) == IF at[t] = "credit" THEN call[t].amount ELSE 0

ToReserve == [t \in Threads |-> OwedToReserve(t)]
ToTarget == [t \in Threads |-> OwedToTarget(t)]

GrandTotal ==
  reserve + Total(balance)
    + SumFunctionOnSet(ToReserve, Threads) + SumFunctionOnSet(ToTarget, Threads)

\* The next update of a balance yields an int.
NoOverflow ==
  \A t \in Threads :
    LET c == call[t]
    IN  /\ at[t] = "update" /\ c.type = "deposit" =>
             balance[c.account] + c.amount \in CInts
        /\ (at[t] = "update" /\ c.type = "withdraw") \/ at[t] = "debit" =>
             Insufficient(c) \/ balance[c.account] - c.amount \in CInts
        /\ at[t] = "credit" => balance[c.target] + c.amount \in CInts

\* Centavos are neither created nor destroyed, at every step of every
\* interleaving, counting what is in flight between two steps of a call: the
\* check main.c 57-65 makes at the end, while no amount overflows an int.
Conservation == GrandTotal = Total(InitialBalance)

\* With overflow the books still agree modulo 2^32 (bank.c 25, 38, 68, 69).
ConservationModulo ==
  (GrandTotal - Total(InitialBalance)) % (2 * (IntMax + 1)) = 0

\* No interleaving of calls overdraws an account: the funds seen by the check
\* are the funds debited (bank.c 34-38, 62-68).
NoOverdraft == \A a \in Accounts : balance[a] >= 0

\* The transfers that have debited an account and not yet credited the other.
InTransit(a) == {t \in Threads : at[t] = "credit" /\ call[t].account = a}

\* The balances and the reserve as if every call took effect at once, between
\* its invocation and its return: a transfer when it credits or refuses, any
\* other call when it updates.
Funds ==
  [a \in Accounts |-> balance[a] + SumFunctionOnSet(ToTarget, InTransit(a))]
Reserve == reserve + SumFunctionOnSet(ToReserve, Threads)
Answered ==
  [t \in Threads |-> at[t] \in {"unlock2", "unlock", "settle", "return"}]

Atomic == INSTANCE AtomicBank WITH
  funds <- Funds, reserve <- Reserve, request <- call, answered <- Answered

\* bank.c implements AtomicBank.
Atomicity == Atomic!Spec

\* A call that has started returns: locks are never lost or waited for in a
\* circle (a failed call unlocks too, bank.c 35, 63-64).
EveryCallReturns == \A t \in Threads : at[t] # "idle" ~> at[t] = "idle"
=============================================================================
