----------------------------- MODULE BankProofs -----------------------------
(***************************************************************************)
(* Proofs about Bank for any threads, accounts, calls and balances: type   *)
(* correctness, the ownership of the locks, and from it the absence of     *)
(* data races, the order in which locks are waited for, the conservation   *)
(* of money, the absence of overdrafts and the atomicity of every call.    *)
(***************************************************************************)
EXTENDS Bank, FoldProofs

\* The places where only a transfer between two accounts can be.
TransferPlaces == {"lock2", "debit", "credit", "unlock2"}

\* A thread inside bank.c has a call, of the kind its place implies; nothing
\* has failed before the update, and who settles owes the reserve.
CallMatchesPlace ==
  \A t \in Threads :
    /\ IF at[t] = "idle" THEN call[t] = None ELSE call[t] \in Calls
    /\ at[t] \in TransferPlaces =>
         call[t].type = "transfer" /\ call[t].account # call[t].target
    /\ at[t] = "update" => call[t].type # "transfer"
    /\ at[t] \in {"lock", "lock2", "update", "debit", "credit"} => ok[t]
    /\ at[t] = "settle" => OwesReserve(t)

\* A lock is held by exactly the threads whose place says so, in the mode of
\* their call, and never for reading and writing at once.
LocksMatchPlaces ==
  \A a \in Accounts :
    /\ \A t \in Threads :
         /\ writer[a] = t <=> Holds(t, a) /\ call[t].type # "balance"
         /\ t \in readers[a] <=> Holds(t, a) /\ call[t].type = "balance"
    /\ writer[a] # None => readers[a] = {}

LockInv == CallMatchesPlace /\ LocksMatchPlaces

\* What a thread may do, whoever makes it call: MaxCalls plays no part.
CallStep(t) == Step(t) \/ Return(t) \/ \E c \in Calls : Invoke(t, c)

-----------------------------------------------------------------------------
\* Wrapping yields an int that differs by a multiple of 2^32, and changes
\* nothing where the sum fits (bank.c 25, 38, 68, 69).
Modulus == 2 * (IntMax + 1)

\* A value stored as a C int is the value modulo 2^w, and itself if it fits.
LEMMA CIntWraps ==
  ASSUME NEW x \in Int
  PROVE  /\ CInt(x) \in CInts
         /\ \E k \in Int : CInt(x) = x + k * Modulus
         /\ x \in CInts => CInt(x) = x
<1> DEFINE m == Modulus
           y == x + IntMax + 1
<1>1. IntMax \in Nat /\ m \in Nat /\ m > 0 /\ m = 2 * (IntMax + 1) /\ y \in Int
  BY BankAssumption DEF Modulus
<1>2. CInt(x) = (y % m) - (IntMax + 1)
  BY DEF CInt, Modulus
<1>3. /\ y % m \in 0 .. m - 1
      /\ y \div m \in Int
      /\ y = m * (y \div m) + (y % m)
  <2> HIDE DEF m, y
  <2>1. QED
    BY <1>1
<1>4. CInt(x) \in CInts
  BY <1>1, <1>2, <1>3 DEF CInts
<1>5. CInt(x) = x + (-(y \div m)) * m /\ -(y \div m) \in Int
  <2>1. \A q \in Int : (-q) * m = -(m * q)
    <3> HIDE DEF m
    <3>1. QED
      BY <1>1
  <2>2. (-(y \div m)) * m = -(m * (y \div m)) /\ m * (y \div m) \in Int
    BY <1>1, <1>3, <2>1
  <2> DEFINE w == m * (y \div m)
             r == y % m
  <2>3. w \in Int /\ r \in Int /\ y = w + r
    BY <1>3, <2>2
  <2> HIDE DEF w, r, m
  <2>4. x = y - (IntMax + 1) /\ CInt(x) = r - (IntMax + 1)
    BY <1>1, <1>2 DEF r
  <2>5. CInt(x) = x + (-w)
    BY <1>1, <2>3, <2>4
  <2>6. QED
    BY <1>3, <2>2, <2>5 DEF w
<1>6. ASSUME x \in CInts PROVE CInt(x) = x
  <2>1. y \in 0 .. m - 1
    BY <1>1, <1>6 DEF CInts
  <2>2. y % m = y
    <3> HIDE DEF m, y
    <3>1. QED
      BY <1>1, <2>1
  <2>3. QED
    BY <1>1, <1>2, <2>2
<1>7. QED
  BY <1>4, <1>5, <1>6

\* A call names two accounts and locks no others: the locks of a transfer are
\* its two accounts, the lower identifier first, and any other call locks the
\* account it names (bank.c 50-60).
LEMMA CallLocks ==
  ASSUME NEW c \in Calls
  PROVE  /\ c.type \in CallTypes /\ c.amount \in Int
         /\ c.account \in Accounts /\ c.target \in Accounts
         /\ First(c) \in Accounts /\ Second(c) \in Accounts
         /\ c.type = "transfer" /\ c.account # c.target =>
              /\ First(c) < Second(c)
              /\ {First(c), Second(c)} = {c.account, c.target}
         /\ c.type # "transfer" => First(c) = c.account
<1>1. /\ c.type \in CallTypes /\ c.amount \in Int
      /\ c.account \in Accounts /\ c.target \in Accounts
      /\ First(c) \in Accounts /\ Second(c) \in Accounts
  BY BankAssumption DEF First, Second, LockOrder, CInts
<1>2. c.account \in Nat /\ c.target \in Nat
  BY <1>1, BankAssumption
<1>3. ASSUME c.type = "transfer", c.account # c.target
      PROVE  /\ First(c) < Second(c)
             /\ {First(c), Second(c)} = {c.account, c.target}
  <2>1. CASE c.target < c.account
    BY <1>2, <1>3, <2>1 DEF First, Second, LockOrder
  <2>2. CASE c.account < c.target
    BY <1>2, <1>3, <2>2 DEF First, Second, LockOrder
  <2>3. QED
    BY <1>2, <1>3, <2>1, <2>2
<1>4. c.type # "transfer" => First(c) = c.account
  BY DEF First, LockOrder
<1>5. QED
  BY <1>1, <1>3, <1>4

-----------------------------------------------------------------------------
\* Before any call no lock is held.
LEMMA InitLockInv == Init => TypeOK /\ LockInv
<1> SUFFICES ASSUME Init PROVE TypeOK /\ LockInv
  OBVIOUS
<1> USE DEF Init
<1>1. TypeOK
  <2>1. 0 \in CInts
    BY BankAssumption DEF CInts
  <2>2. QED
    BY <2>1, BankAssumption DEF TypeOK, Places
<1>2. CallMatchesPlace
  BY DEF CallMatchesPlace, TransferPlaces
<1>3. LocksMatchPlaces
  BY BankAssumption DEF LocksMatchPlaces, Holds, HoldsFirst, HoldsSecond
<1>4. QED
  BY <1>1, <1>2, <1>3 DEF LockInv

\* Types are preserved by every step of a call.
LEMMA TypeStep ==
  ASSUME TypeOK, LockInv, NEW t \in Threads, CallStep(t)
  PROVE  TypeOK'
<1> USE DEF TypeOK, Goto, Places, money, locks
<1>1. ASSUME NEW c \in Calls, Invoke(t, c) PROVE TypeOK'
  BY <1>1 DEF Invoke
<1>2. ASSUME Return(t) PROVE TypeOK'
  BY <1>2 DEF Return
<1>3. ASSUME Step(t) PROVE TypeOK'
  <2>0. at[t] # "idle" => call[t] \in Calls
    BY DEF LockInv, CallMatchesPlace
  <2>1. CASE SkipSelfTransfer(t)
    BY <2>1 DEF SkipSelfTransfer
  <2>2. CASE AcquireRead(t)
    BY <2>2 DEF AcquireRead
  <2>3. CASE AcquireWrite(t)
    BY <2>3 DEF AcquireWrite
  <2>4. CASE AcquireFirst(t)
    BY <2>4 DEF AcquireFirst
  <2>5. CASE AcquireSecond(t)
    BY <2>5 DEF AcquireSecond
  <2>6. CASE ApplyDeposit(t)
    <3>1. call[t] \in Calls
      BY <2>0, <2>6 DEF ApplyDeposit
    <3>2. balance[call[t].account] + call[t].amount \in Int
      BY <3>1, CallLocks DEF CInts
    <3>3. CInt(balance[call[t].account] + call[t].amount) \in CInts
      BY <3>2, CIntWraps
    <3>4. QED
      BY <2>6, <3>3 DEF ApplyDeposit
  <2>7. CASE ApplyWithdraw(t)
    <3>1. call[t] \in Calls
      BY <2>0, <2>7 DEF ApplyWithdraw
    <3>2. balance[call[t].account] - call[t].amount \in Int
      BY <3>1, CallLocks DEF CInts
    <3>3. CInt(balance[call[t].account] - call[t].amount) \in CInts
      BY <3>2, CIntWraps
    <3>4. QED
      BY <2>7, <3>3 DEF ApplyWithdraw
  <2>8. CASE ReadBalance(t)
    <3>1. balance[call[t].account] \in CInts
      BY <2>0, <2>8, CallLocks DEF ReadBalance
    <3>2. QED
      BY <2>8, <3>1 DEF ReadBalance
  <2>9. CASE Debit(t)
    <3>1. call[t] \in Calls
      BY <2>0, <2>9 DEF Debit
    <3>2. balance[call[t].account] - call[t].amount \in Int
      BY <3>1, CallLocks DEF CInts
    <3>3. CInt(balance[call[t].account] - call[t].amount) \in CInts
      BY <3>2, CIntWraps
    <3>4. QED
      BY <2>9, <3>3 DEF Debit
  <2>10. CASE Credit(t)
    <3>1. call[t] \in Calls
      BY <2>0, <2>10 DEF Credit
    <3>2. balance[call[t].target] + call[t].amount \in Int
      BY <3>1, CallLocks DEF CInts
    <3>3. CInt(balance[call[t].target] + call[t].amount) \in CInts
      BY <3>2, CIntWraps
    <3>4. QED
      BY <2>10, <3>3 DEF Credit
  <2>11. CASE ReleaseSecond(t)
    BY <2>11 DEF ReleaseSecond
  <2>12. CASE ReleaseFirst(t)
    BY <2>12 DEF ReleaseFirst
  <2>13. CASE SettleReserve(t)
    <3>1. call[t] \in Calls
      BY <2>0, <2>13 DEF SettleReserve
    <3>2. reserve' \in Int
      BY <2>13, <3>1, CallLocks DEF SettleReserve
    <3>3. QED
      BY <2>13, <3>2 DEF SettleReserve
  <2>14. QED
    BY <1>3, <2>1, <2>2, <2>3, <2>4, <2>5, <2>6, <2>7, <2>8, <2>9, <2>10,
       <2>11, <2>12, <2>13 DEF Step
<1>4. QED
  BY <1>1, <1>2, <1>3 DEF CallStep

\* The invariant about the locks is preserved by every step of a call.
LEMMA LockStep ==
  ASSUME TypeOK, LockInv, NEW t \in Threads, CallStep(t)
  PROVE  LockInv'
<1> USE BankAssumption
    DEF TypeOK, LockInv, Goto, Places, TransferPlaces, money, locks,
        Holds, HoldsFirst, HoldsSecond, OwesReserve
<1>1. ASSUME NEW c \in Calls, Invoke(t, c) PROVE LockInv'
  BY <1>1 DEF Invoke, CallMatchesPlace, LocksMatchPlaces
<1>2. ASSUME Return(t) PROVE LockInv'
  BY <1>2 DEF Return, CallMatchesPlace, LocksMatchPlaces
<1>3. ASSUME Step(t) PROVE LockInv'
  <2>a. at[t] # "idle" /\ call[t].type # "transfer" => First(call[t]) = call[t].account
    BY CallLocks DEF CallMatchesPlace
  <2>b. at[t] \in TransferPlaces => /\ First(call[t]) \in Accounts
                                    /\ Second(call[t]) \in Accounts
                                    /\ First(call[t]) # Second(call[t])
    <3>1. SUFFICES ASSUME at[t] \in TransferPlaces
                   PROVE  /\ First(call[t]) \in Accounts
                          /\ Second(call[t]) \in Accounts
                          /\ First(call[t]) # Second(call[t])
      OBVIOUS
    <3>2. call[t] \in Calls /\ call[t].type = "transfer" /\ call[t].account # call[t].target
      BY <3>1 DEF CallMatchesPlace
    <3>3. First(call[t]) \in Nat /\ Second(call[t]) \in Nat
      BY <3>2, CallLocks
    <3>4. QED
      BY <3>2, <3>3, CallLocks
  <2>1. CASE SkipSelfTransfer(t)
    <3>1. CallMatchesPlace'
      BY <2>1 DEF SkipSelfTransfer, CallMatchesPlace
    <3>2. LocksMatchPlaces'
      BY <2>1 DEF SkipSelfTransfer, CallMatchesPlace,
             LocksMatchPlaces, Free, Readable
    <3>3. QED
      BY <3>1, <3>2 DEF LockInv
  <2>2. CASE AcquireRead(t)
    <3>1. CallMatchesPlace'
      BY <2>2 DEF AcquireRead, CallMatchesPlace
    <3>2. LocksMatchPlaces'
      BY <2>2, <2>a DEF AcquireRead, CallMatchesPlace,
             LocksMatchPlaces, Free, Readable
    <3>3. QED
      BY <3>1, <3>2 DEF LockInv
  <2>3. CASE AcquireWrite(t)
    <3>1. CallMatchesPlace'
      BY <2>3 DEF AcquireWrite, CallMatchesPlace
    <3>2. LocksMatchPlaces'
      BY <2>3, <2>a DEF AcquireWrite, CallMatchesPlace,
             LocksMatchPlaces, Free, Readable
    <3>3. QED
      BY <3>1, <3>2 DEF LockInv
  <2>4. CASE AcquireFirst(t)
    <3>1. CallMatchesPlace'
      BY <2>4 DEF AcquireFirst, CallMatchesPlace
    <3>2. LocksMatchPlaces'
      BY <2>4 DEF AcquireFirst, CallMatchesPlace,
             LocksMatchPlaces, Free, Readable
    <3>3. QED
      BY <3>1, <3>2 DEF LockInv
  <2>5. CASE AcquireSecond(t)
    <3>1. CallMatchesPlace'
      BY <2>5 DEF AcquireSecond, CallMatchesPlace
    <3>2. LocksMatchPlaces'
      BY <2>5 DEF AcquireSecond, CallMatchesPlace,
             LocksMatchPlaces, Free, Readable
    <3>3. QED
      BY <3>1, <3>2 DEF LockInv
  <2>6. CASE ApplyDeposit(t)
    <3>1. CallMatchesPlace'
      BY <2>6 DEF ApplyDeposit, CallMatchesPlace
    <3>2. LocksMatchPlaces'
      BY <2>6 DEF ApplyDeposit, CallMatchesPlace,
             LocksMatchPlaces, Free, Readable
    <3>3. QED
      BY <3>1, <3>2 DEF LockInv
  <2>7. CASE ApplyWithdraw(t)
    <3>1. CallMatchesPlace'
      BY <2>7 DEF ApplyWithdraw, CallMatchesPlace
    <3>2. LocksMatchPlaces'
      BY <2>7 DEF ApplyWithdraw, CallMatchesPlace,
             LocksMatchPlaces, Free, Readable
    <3>3. QED
      BY <3>1, <3>2 DEF LockInv
  <2>8. CASE ReadBalance(t)
    <3>1. CallMatchesPlace'
      BY <2>8 DEF ReadBalance, CallMatchesPlace
    <3>2. LocksMatchPlaces'
      BY <2>8, <2>a DEF ReadBalance, CallMatchesPlace,
             LocksMatchPlaces, Free, Readable
    <3>3. QED
      BY <3>1, <3>2 DEF LockInv
  <2>9. CASE Debit(t)
    <3>1. CallMatchesPlace'
      BY <2>9 DEF Debit, CallMatchesPlace
    <3>2. LocksMatchPlaces'
      BY <2>9 DEF Debit, CallMatchesPlace,
             LocksMatchPlaces, Free, Readable
    <3>3. QED
      BY <3>1, <3>2 DEF LockInv
  <2>10. CASE Credit(t)
    <3>1. CallMatchesPlace'
      BY <2>10 DEF Credit, CallMatchesPlace
    <3>2. LocksMatchPlaces'
      BY <2>10 DEF Credit, CallMatchesPlace,
             LocksMatchPlaces, Free, Readable
    <3>3. QED
      BY <3>1, <3>2 DEF LockInv
  <2>11. CASE ReleaseSecond(t)
    <3>1. CallMatchesPlace'
      BY <2>11 DEF ReleaseSecond, CallMatchesPlace
    <3>2. LocksMatchPlaces'
      BY <2>11, <2>b DEF ReleaseSecond, CallMatchesPlace,
             LocksMatchPlaces, Free, Readable
    <3>3. QED
      BY <3>1, <3>2 DEF LockInv
  <2>12. CASE ReleaseFirst(t)
    <3>1. CallMatchesPlace'
      BY <2>12 DEF ReleaseFirst, CallMatchesPlace
    <3>2. LocksMatchPlaces'
      BY <2>12 DEF ReleaseFirst, CallMatchesPlace,
             LocksMatchPlaces, Free, Readable
    <3>3. QED
      BY <3>1, <3>2 DEF LockInv
  <2>13. CASE SettleReserve(t)
    <3>1. CallMatchesPlace'
      BY <2>13 DEF SettleReserve, CallMatchesPlace
    <3>2. LocksMatchPlaces'
      BY <2>13 DEF SettleReserve, CallMatchesPlace,
             LocksMatchPlaces, Free, Readable
    <3>3. QED
      BY <3>1, <3>2 DEF LockInv
  <2>14. QED
    BY <1>3, <2>1, <2>2, <2>3, <2>4, <2>5, <2>6, <2>7, <2>8, <2>9, <2>10,
       <2>11, <2>12, <2>13 DEF Step
<1>4. QED
  BY <1>1, <1>2, <1>3 DEF CallStep

\* Nothing but a step of a call disturbs it.
LEMMA LockUnchanged ==
  TypeOK /\ LockInv /\ UNCHANGED vars => (TypeOK /\ LockInv)'
BY DEF vars, thread, money, locks, TypeOK, LockInv, CallMatchesPlace,
       LocksMatchPlaces, Holds, HoldsFirst, HoldsSecond, OwesReserve

\* Types and locks are right in every reachable state.
LEMMA LockInvariant == Spec => [](TypeOK /\ LockInv)
<1>1. TypeOK /\ LockInv /\ UNCHANGED vars => (TypeOK /\ LockInv)'
  BY LockUnchanged
<1>2. TypeOK /\ LockInv /\ Next => (TypeOK /\ LockInv)'
  BY TypeStep, LockStep DEF Next, CallStep
<1>3. QED
  BY InitLockInv, <1>1, <1>2, PTL DEF Spec

-----------------------------------------------------------------------------
\* Every variable keeps its type in every reachable state, balances included:
\* an overflow wraps inside the int (bank.c 25, 38, 68, 69).
THEOREM TypeCorrect == Spec => []TypeOK
BY LockInvariant, PTL

\* Locks are held exactly where bank.c holds them, never forgotten on a
\* failure path and never shared by a writer.
THEOREM LocksOwned == Spec => []LockInv
BY LockInvariant, PTL

\* An account is read or written only while its lock is held.
LEMMA TouchedIsHeld ==
  ASSUME LockInv, NEW t \in Threads, NEW a \in Accounts, Touches(t, a)
  PROVE  Holds(t, a)
<1>1. call[t] \in Calls
  BY DEF Touches, LockInv, CallMatchesPlace
<1>2. CASE at[t] = "update"
  BY <1>1, <1>2, CallLocks
  DEF Touches, LockInv, CallMatchesPlace, Holds, HoldsFirst
<1>3. CASE at[t] \in {"debit", "credit"}
  <2>1. a \in {First(call[t]), Second(call[t])}
    BY <1>1, <1>3, CallLocks
    DEF Touches, LockInv, CallMatchesPlace, TransferPlaces
  <2>2. QED
    BY <2>1, <1>3 DEF Holds, HoldsFirst, HoldsSecond
<1>4. QED
  BY <1>2, <1>3 DEF Touches

\* The locks as they are owned exclude data races.
LEMMA LocksExclude == LockInv => NoDataRace
<1> SUFFICES ASSUME LockInv,
                    NEW t \in Threads, NEW u \in Threads, NEW a \in Accounts,
                    t # u, Touches(t, a), Touches(u, a)
             PROVE  call[t].type = "balance" /\ call[u].type = "balance"
  BY DEF NoDataRace
<1>1. Holds(t, a) /\ Holds(u, a)
  BY TouchedIsHeld
<1>2. QED
  BY <1>1, BankAssumption DEF LockInv, LocksMatchPlaces

\* Two threads are never about to access one balance unless both only read it.
THEOREM RaceFree == Spec => []NoDataRace
BY LocksOwned, LocksExclude, PTL

\* A thread that holds one account's lock and waits for another's waits for a
\* higher identifier, so no circle of waiting threads can close.
THEOREM WaitsUpwards == Spec => []OrderedWaiting
<1>1. LockInv => OrderedWaiting
  <2> SUFFICES ASSUME LockInv,
                      NEW t \in Threads, NEW a \in Accounts, NEW b \in Accounts,
                      Holds(t, a), Wants(t, b)
               PROVE  a < b
    BY DEF OrderedWaiting
  <2>1. at[t] = "lock2" /\ a = First(call[t]) /\ b = Second(call[t])
    BY DEF Holds, HoldsFirst, HoldsSecond, Wants
  <2>2. QED
    BY <2>1, CallLocks DEF LockInv, CallMatchesPlace, TransferPlaces
<1>2. QED
  BY LocksOwned, <1>1, PTL

-----------------------------------------------------------------------------
(* Money *)

\* A step of one thread leaves the others where they are.
LEMMA OneThread ==
  ASSUME TypeOK, NEW t \in Threads, CallStep(t)
  PROVE  \A u \in Threads \ {t} :
           at'[u] = at[u] /\ call'[u] = call[u] /\ ok'[u] = ok[u]
<1> USE DEF TypeOK, Goto
<1>1. ASSUME NEW c \in Calls, Invoke(t, c)
      PROVE  \A u \in Threads \ {t} :
               at'[u] = at[u] /\ call'[u] = call[u] /\ ok'[u] = ok[u]
  BY <1>1 DEF Invoke
<1>2. CASE Return(t)
  BY <1>2 DEF Return
<1>3. CASE Step(t)
  BY <1>3 DEF Step, SkipSelfTransfer, AcquireRead, AcquireWrite, AcquireFirst,
              AcquireSecond, ApplyDeposit, ApplyWithdraw, ReadBalance, Debit,
              Credit, ReleaseSecond, ReleaseFirst, SettleReserve
<1>4. QED
  BY <1>1, <1>2, <1>3 DEF CallStep

\* What a thread owes is an integer.
LEMMA OwesInt ==
  ASSUME LockInv, NEW t \in Threads
  PROVE  ToReserve[t] \in Int /\ ToTarget[t] \in Int
<1>1. at[t] # "idle" => call[t].amount \in Int
  BY CallLocks DEF LockInv, CallMatchesPlace
<1>2. QED
  BY <1>1 DEF ToReserve, ToTarget, OwedToReserve, OwedToTarget

\* What is in flight changes by what the thread taking the step owes.
LEMMA InFlightChange ==
  ASSUME TypeOK, LockInv, LockInv', NEW t \in Threads, CallStep(t)
  PROVE  /\ SumFunctionOnSet(ToReserve, Threads) \in Int
         /\ SumFunctionOnSet(ToTarget, Threads) \in Int
         /\ SumFunctionOnSet(ToReserve, Threads)' =
              SumFunctionOnSet(ToReserve, Threads) + ToReserve'[t] - ToReserve[t]
         /\ SumFunctionOnSet(ToTarget, Threads)' =
              SumFunctionOnSet(ToTarget, Threads) + ToTarget'[t] - ToTarget[t]
<1>1. \A u \in Threads : /\ ToReserve[u] \in Int /\ ToTarget[u] \in Int
                         /\ ToReserve'[u] \in Int /\ ToTarget'[u] \in Int
  <2>1. \A u \in Threads : ToReserve[u] \in Int /\ ToTarget[u] \in Int
    BY OwesInt
  <2>2. \A u \in Threads : ToReserve'[u] \in Int /\ ToTarget'[u] \in Int
    <3>1. ASSUME NEW u \in Threads PROVE ToReserve'[u] \in Int /\ ToTarget'[u] \in Int
      <4>1. at'[u] # "idle" => call'[u].amount \in Int
        BY CallLocks DEF LockInv, CallMatchesPlace
      <4>2. QED
        BY <4>1 DEF ToReserve, ToTarget, OwedToReserve, OwedToTarget
    <3>2. QED
      BY <3>1
  <2>3. QED
    BY <2>1, <2>2
<1>2. \A u \in Threads \ {t} : ToReserve'[u] = ToReserve[u] /\ ToTarget'[u] = ToTarget[u]
  BY OneThread DEF ToReserve, ToTarget, OwedToReserve, OwedToTarget, OwesReserve
<1>3. IsFiniteSet(Threads)
  BY BankAssumption
<1> HIDE DEF ToReserve, ToTarget
<1>4. /\ SumFunctionOnSet(ToReserve, Threads) \in Int
      /\ SumFunctionOnSet(ToReserve', Threads) =
           SumFunctionOnSet(ToReserve, Threads) + ToReserve'[t] - ToReserve[t]
  BY <1>1, <1>2, <1>3, SumChange
<1>5. /\ SumFunctionOnSet(ToTarget, Threads) \in Int
      /\ SumFunctionOnSet(ToTarget', Threads) =
           SumFunctionOnSet(ToTarget, Threads) + ToTarget'[t] - ToTarget[t]
  BY <1>1, <1>2, <1>3, SumChange
<1>6. QED
  BY <1>4, <1>5

\* The total changes by the change of the one balance that is written.
LEMMA TotalChange ==
  ASSUME TypeOK, TypeOK', NEW a \in Accounts,
         \A b \in Accounts \ {a} : balance'[b] = balance[b]
  PROVE  /\ Total(balance) \in Int
         /\ Total(balance)' = Total(balance) + balance'[a] - balance[a]
<1>1. \A b \in Accounts : balance[b] \in Int /\ balance'[b] \in Int
  BY BankAssumption DEF TypeOK, CInts
<1>2. IsFiniteSet(Accounts)
  BY BankAssumption
<1>3. /\ SumFunctionOnSet(balance, Accounts) \in Int
      /\ SumFunctionOnSet(balance', Accounts) =
           SumFunctionOnSet(balance, Accounts) + balance'[a] - balance[a]
  BY <1>1, <1>2, SumChange
<1>4. QED
  BY <1>3 DEF Total

\* A step neither makes nor loses money but for the wrapping of an int.
LEMMA MoneyStep ==
  ASSUME TypeOK, LockInv, TypeOK', LockInv', NEW t \in Threads, CallStep(t)
  PROVE  /\ GrandTotal \in Int
         /\ \E k \in Int : /\ GrandTotal' = GrandTotal + k * Modulus
                           /\ NoOverflow => k = 0
<1> DEFINE R == SumFunctionOnSet(ToReserve, Threads)
           W == SumFunctionOnSet(ToTarget, Threads)
           r0 == ToReserve[t]   r1 == ToReserve'[t]
           w0 == ToTarget[t]    w1 == ToTarget'[t]
<1>1. /\ reserve \in Int /\ reserve' \in Int
      /\ r0 \in Int /\ r1 \in Int /\ w0 \in Int /\ w1 \in Int
  <2>1. r1 \in Int /\ w1 \in Int
    <3>1. at'[t] # "idle" => call'[t].amount \in Int
      BY CallLocks DEF LockInv, CallMatchesPlace
    <3>2. QED
      BY <3>1 DEF ToReserve, ToTarget, OwedToReserve, OwedToTarget
  <2>2. QED
    BY <2>1, OwesInt DEF TypeOK
<1>2. R \in Int /\ W \in Int /\ R' = R + r1 - r0 /\ W' = W + w1 - w0
  BY InFlightChange
<1>3. Modulus \in Int
  BY BankAssumption DEF Modulus
<1>4. /\ GrandTotal = reserve + Total(balance) + R + W
      /\ GrandTotal' = reserve' + Total(balance)' + R' + W'
  BY DEF GrandTotal
<1> HIDE DEF R, W
\* It is enough to weigh the changes against each other.
<1>5. ASSUME NEW a \in Accounts, NEW k \in Int,
             \A b \in Accounts \ {a} : balance'[b] = balance[b],
             balance'[a] - balance[a] + (reserve' - reserve) + (r1 - r0) + (w1 - w0)
               = k * Modulus,
             NoOverflow => k = 0
      PROVE  /\ GrandTotal \in Int
             /\ \E n \in Int : /\ GrandTotal' = GrandTotal + n * Modulus
                               /\ NoOverflow => n = 0
  <2>1. /\ Total(balance) \in Int
        /\ Total(balance)' = Total(balance) + balance'[a] - balance[a]
    BY <1>5, TotalChange
  <2>2. balance[a] \in Int /\ balance'[a] \in Int
    BY BankAssumption DEF TypeOK, CInts
  <2> DEFINE d == k * Modulus
  <2>3. d \in Int
    BY <1>3
  <2>4. balance'[a] - balance[a] + (reserve' - reserve) + (r1 - r0) + (w1 - w0) = d
    BY <1>5
  <2> HIDE DEF d, r0, r1, w0, w1
  <2>5. GrandTotal \in Int /\ GrandTotal' = GrandTotal + d
    BY <1>1, <1>2, <1>4, <2>1, <2>2, <2>3, <2>4
  <2>6. QED
    BY <1>5, <2>5 DEF d
<1>6. ASSUME UNCHANGED <<balance, reserve>>, r1 = r0, w1 = w0
      PROVE  /\ GrandTotal \in Int
             /\ \E n \in Int : /\ GrandTotal' = GrandTotal + n * Modulus
                               /\ NoOverflow => n = 0
  <2>1. Total(balance) \in Int /\ Total(balance)' = Total(balance)
    <3>1. /\ IsFiniteSet(Accounts)
          /\ \A b \in Accounts : balance[b] \in Int
      BY BankAssumption DEF TypeOK, CInts
    <3>2. SumFunctionOnSet(balance, Accounts) \in Int
      BY <3>1, SumSplit
    <3>3. QED
      BY <1>6, <3>2 DEF Total
  <2> HIDE DEF r0, r1, w0, w1
  <2>2. GrandTotal \in Int /\ GrandTotal' = GrandTotal + 0 * Modulus
    BY <1>1, <1>2, <1>3, <1>4, <1>6, <2>1
  <2>3. QED
    BY <2>2
<1>7. at[t] # "idle" => /\ call[t] \in Calls /\ call[t].amount \in Int
                        /\ call[t].account \in Accounts
                        /\ call[t].target \in Accounts
  BY CallLocks DEF LockInv, CallMatchesPlace
<1>8. /\ r0 = OwedToReserve(t) /\ w0 = OwedToTarget(t)
      /\ r1 = OwedToReserve(t)' /\ w1 = OwedToTarget(t)'
  BY DEF ToReserve, ToTarget
<1>9. \A a \in Accounts : balance[a] \in Int /\ balance'[a] \in Int
  BY BankAssumption DEF TypeOK, CInts
\* An update of one balance, by what the thread owes or no longer owes.
<1>10. ASSUME NEW a \in Accounts, NEW x \in Int,
              balance' = [balance EXCEPT ![a] = CInt(x)], reserve' = reserve,
              x - balance[a] + (r1 - r0) + (w1 - w0) = 0,
              NoOverflow => x \in CInts
       PROVE  /\ GrandTotal \in Int
              /\ \E n \in Int : /\ GrandTotal' = GrandTotal + n * Modulus
                                /\ NoOverflow => n = 0
  <2>1. PICK k \in Int : CInt(x) = x + k * Modulus /\ (NoOverflow => k = 0)
    <3>1. CASE NoOverflow
      <4>1. CInt(x) = x + 0 * Modulus
        BY <1>3, <1>10, <3>1, CIntWraps
      <4>2. QED
        BY <4>1
    <3>2. CASE ~NoOverflow
      BY <3>2, CIntWraps
    <3>3. QED
      BY <3>1, <3>2
  <2>2. /\ balance'[a] = CInt(x) /\ balance[a] \in Int
        /\ \A b \in Accounts \ {a} : balance'[b] = balance[b]
    BY <1>9, <1>10 DEF TypeOK
  <2>3. balance'[a] - balance[a] + (reserve' - reserve) + (r1 - r0) + (w1 - w0)
          = k * Modulus
    <3> DEFINE d == k * Modulus
    <3>1. d \in Int
      BY <1>3
    <3> HIDE DEF d, r0, r1, w0, w1
    <3>2. balance'[a] = x + d
      BY <2>1, <2>2 DEF d
    <3>3. /\ x - balance[a] + (r1 - r0) + (w1 - w0) = 0
          /\ reserve' = reserve /\ x \in Int /\ balance[a] \in Int
      BY <1>10, <2>2
    <3>4. balance'[a] - balance[a] + (reserve' - reserve) + (r1 - r0) + (w1 - w0) = d
      <4> DEFINE b1 == balance'[a]
                 b0 == balance[a]
      <4>1. /\ b0 \in Int /\ b1 = x + d /\ x - b0 + (r1 - r0) + (w1 - w0) = 0
        BY <3>2, <3>3
      <4>2. reserve' - reserve = 0
        BY <1>1, <3>3
      <4> HIDE DEF b0, b1
      <4>3. b1 - b0 + 0 + (r1 - r0) + (w1 - w0) = d
        BY <1>1, <3>1, <3>3, <4>1
      <4>4. QED
        BY <4>2, <4>3 DEF b0, b1
    <3>5. QED
      BY <3>4 DEF d
  <2>4. QED
    BY <1>5, <2>1, <2>2, <2>3
<1> USE DEF Goto, money, locks, OwedToReserve, OwedToTarget, OwesReserve
<1>11. ASSUME NEW c \in Calls, Invoke(t, c) PROVE r1 = r0 /\ w1 = w0
  BY <1>8, <1>11 DEF Invoke, TypeOK
<1>12. CASE Return(t)
  BY <1>6, <1>8, <1>12 DEF Return, TypeOK
<1>13. CASE ApplyDeposit(t)
  <2> DEFINE a == call[t].account
             x == balance[a] + call[t].amount
  <2>1. /\ at[t] = "update" /\ call[t].type = "deposit"
        /\ at'[t] = "unlock" /\ call'[t] = call[t]
        /\ balance' = [balance EXCEPT ![a] = CInt(x)] /\ reserve' = reserve
    BY <1>13 DEF ApplyDeposit, TypeOK
  <2>2. x \in Int /\ a \in Accounts
    BY <1>7, <1>9, <2>1
  <2>3. r0 = 0 /\ r1 = -call[t].amount /\ w0 = 0 /\ w1 = 0
    BY <1>8, <2>1
  <2>4. NoOverflow => x \in CInts
    BY <2>1 DEF NoOverflow
  <2>5. x - balance[a] + (r1 - r0) + (w1 - w0) = 0
    BY <1>7, <1>9, <2>1, <2>2, <2>3
  <2>6. QED
    BY <1>10, <2>1, <2>2, <2>4, <2>5
<1>14. CASE ApplyWithdraw(t)
  <2> DEFINE a == call[t].account
             x == balance[a] - call[t].amount
  <2>1. /\ at[t] = "update" /\ call[t].type = "withdraw" /\ ok[t]
        /\ at'[t] = "unlock" /\ call'[t] = call[t] /\ reserve' = reserve
    BY <1>14 DEF ApplyWithdraw, TypeOK, LockInv, CallMatchesPlace
  <2>2. CASE Insufficient(call[t])
    <3>1. balance' = balance /\ ~ok'[t]
      BY <1>14, <2>2 DEF ApplyWithdraw, TypeOK
    <3>2. r1 = r0 /\ w1 = w0
      BY <1>8, <2>1, <3>1
    <3>3. QED
      BY <1>6, <2>1, <3>1, <3>2
  <2>3. CASE ~Insufficient(call[t])
    <3>1. balance' = [balance EXCEPT ![a] = CInt(x)] /\ ok'[t]
      BY <1>14, <2>1, <2>3 DEF ApplyWithdraw
    <3>2. x \in Int /\ a \in Accounts
      BY <1>7, <1>9, <2>1
    <3>3. r0 = 0 /\ r1 = call[t].amount /\ w0 = 0 /\ w1 = 0
      BY <1>8, <2>1, <3>1
    <3>4. NoOverflow => x \in CInts
      BY <2>1, <2>3 DEF NoOverflow
    <3>5. x - balance[a] + (r1 - r0) + (w1 - w0) = 0
      BY <1>7, <1>9, <2>1, <3>2, <3>3
    <3>6. QED
      BY <1>10, <2>1, <3>1, <3>2, <3>4, <3>5
  <2>4. QED
    BY <2>2, <2>3
<1>15. CASE Debit(t)
  <2> DEFINE a == call[t].account
             x == balance[a] - call[t].amount
  <2>1. at[t] = "debit" /\ call'[t] = call[t] /\ reserve' = reserve
    BY <1>15 DEF Debit
  <2>2. CASE Insufficient(call[t])
    <3>1. balance' = balance /\ at'[t] = "unlock2"
      BY <1>15, <2>2 DEF Debit, TypeOK
    <3>2. r1 = r0 /\ w1 = w0
      BY <1>8, <2>1, <3>1
    <3>3. QED
      BY <1>6, <2>1, <3>1, <3>2
  <2>3. CASE ~Insufficient(call[t])
    <3>1. balance' = [balance EXCEPT ![a] = CInt(x)] /\ at'[t] = "credit"
      BY <1>15, <2>3 DEF Debit, TypeOK
    <3>2. x \in Int /\ a \in Accounts
      BY <1>7, <1>9, <2>1
    <3>3. r0 = 0 /\ r1 = 0 /\ w0 = 0 /\ w1 = call[t].amount
      BY <1>8, <2>1, <3>1
    <3>4. NoOverflow => x \in CInts
      BY <2>1, <2>3 DEF NoOverflow
    <3>5. x - balance[a] + (r1 - r0) + (w1 - w0) = 0
      BY <1>7, <1>9, <2>1, <3>2, <3>3
    <3>6. QED
      BY <1>10, <2>1, <3>1, <3>2, <3>4, <3>5
  <2>4. QED
    BY <2>2, <2>3
<1>16. CASE Credit(t)
  <2> DEFINE a == call[t].target
             x == balance[a] + call[t].amount
  <2>1. /\ at[t] = "credit" /\ at'[t] = "unlock2" /\ call'[t] = call[t]
        /\ balance' = [balance EXCEPT ![a] = CInt(x)] /\ reserve' = reserve
    BY <1>16 DEF Credit, TypeOK
  <2>2. x \in Int /\ a \in Accounts
    BY <1>7, <1>9, <2>1
  <2>3. r0 = 0 /\ r1 = 0 /\ w0 = call[t].amount /\ w1 = 0
    BY <1>8, <2>1
  <2>4. NoOverflow => x \in CInts
    BY <2>1 DEF NoOverflow
  <2>5. x - balance[a] + (r1 - r0) + (w1 - w0) = 0
    BY <1>7, <1>9, <2>1, <2>2, <2>3
  <2>6. QED
    BY <1>10, <2>1, <2>2, <2>4, <2>5
\* What was in flight to the reserve arrives.
<1>17. CASE SettleReserve(t)
  <2>1. /\ at[t] = "settle" /\ at'[t] = "return" /\ balance' = balance
        /\ OwesReserve(t)
        /\ reserve' = IF call[t].type = "deposit" THEN reserve - call[t].amount
                                                  ELSE reserve + call[t].amount
    BY <1>17 DEF SettleReserve, TypeOK, LockInv, CallMatchesPlace
  <2>2. r1 = 0 /\ w0 = 0 /\ w1 = 0
    BY <1>8, <2>1
  <2>3. r0 = IF call[t].type = "deposit" THEN -call[t].amount ELSE call[t].amount
    BY <1>8, <2>1
  <2>4. CASE Accounts = {}
    BY <1>7, <2>1, <2>4
  <2>5. ASSUME NEW a \in Accounts
        PROVE  balance'[a] - balance[a] + (reserve' - reserve) + (r1 - r0) + (w1 - w0)
                 = 0 * Modulus
    BY <1>1, <1>3, <1>7, <1>9, <2>1, <2>2, <2>3
  <2>6. QED
    BY <1>5, <2>1, <2>4, <2>5
\* The other steps move no money.
<1>18. ASSUME \/ SkipSelfTransfer(t) \/ AcquireRead(t) \/ AcquireWrite(t)
              \/ AcquireFirst(t) \/ AcquireSecond(t) \/ ReadBalance(t)
              \/ ReleaseSecond(t) \/ ReleaseFirst(t)
       PROVE  UNCHANGED <<balance, reserve>> /\ r1 = r0 /\ w1 = w0
  <2>1. CASE ReleaseSecond(t)
    BY <1>8, <2>1 DEF ReleaseSecond, TypeOK, LockInv, CallMatchesPlace, TransferPlaces
  <2>2. CASE ReleaseFirst(t)
    BY <1>8, <2>2 DEF ReleaseFirst, TypeOK
  <2>3. CASE ReadBalance(t)
    BY <1>8, <2>3 DEF ReadBalance, TypeOK
  <2>4. CASE \/ SkipSelfTransfer(t) \/ AcquireRead(t) \/ AcquireWrite(t)
             \/ AcquireFirst(t) \/ AcquireSecond(t)
    BY <1>8, <2>4 DEF SkipSelfTransfer, AcquireRead, AcquireWrite, AcquireFirst,
                      AcquireSecond, TypeOK
  <2>5. QED
    BY <1>18, <2>1, <2>2, <2>3, <2>4
<1>19. ASSUME NEW c \in Calls, Invoke(t, c)
       PROVE  UNCHANGED <<balance, reserve>>
  BY <1>19 DEF Invoke
<1>20. QED
  BY <1>6, <1>11, <1>12, <1>13, <1>14, <1>15, <1>16, <1>17, <1>18, <1>19
  DEF CallStep, Step

\* Before any call nothing is in flight (main.c 26-31).
LEMMA InitMoney == Init => GrandTotal = Total(InitialBalance) /\ GrandTotal \in Int
<1> SUFFICES ASSUME Init
             PROVE  GrandTotal = Total(InitialBalance) /\ GrandTotal \in Int
  OBVIOUS
<1>1. \A t \in Threads : ToReserve[t] = 0 /\ ToTarget[t] = 0
  BY DEF Init, ToReserve, ToTarget, OwedToReserve, OwedToTarget
<1>2. SumFunctionOnSet(ToReserve, Threads) = 0 /\ SumFunctionOnSet(ToTarget, Threads) = 0
  BY <1>1, BankAssumption, SumZero
<1>3. Total(InitialBalance) \in Int
  <2>1. IsFiniteSet(Accounts) /\ \A a \in Accounts : InitialBalance[a] \in Int
    BY BankAssumption DEF CInts
  <2>2. QED
    BY <2>1, SumSplit DEF Total
<1>4. reserve = 0 /\ Total(balance) = Total(InitialBalance)
  BY DEF Init
<1>5. QED
  BY <1>2, <1>3, <1>4 DEF GrandTotal

\* What every step of Spec keeps is kept by every step of a call.
LEMMA UnchangedMoney ==
  UNCHANGED vars => UNCHANGED <<GrandTotal, balance>>
BY DEF vars, money, thread, GrandTotal, ToReserve, ToTarget, OwedToReserve,
       OwedToTarget, OwesReserve

\* With overflow the books still agree modulo 2^32 at every step, whatever is
\* called by however many threads (bank.c 25, 38, 68, 69).
THEOREM MoneyConservedModulo == Spec => []ConservationModulo
<1> DEFINE Inv == /\ GrandTotal \in Int
                  /\ \E k \in Int : GrandTotal = Total(InitialBalance) + k * Modulus
           I == Total(InitialBalance)
<1>1. I \in Int
  <2>1. IsFiniteSet(Accounts) /\ \A a \in Accounts : InitialBalance[a] \in Int
    BY BankAssumption DEF CInts
  <2>2. QED
    BY <2>1, SumSplit DEF Total
<1>2. Modulus \in Nat /\ Modulus > 0
  BY BankAssumption DEF Modulus
<1>3. Init => Inv
  <2>1. I = I + 0 * Modulus
    BY <1>1, <1>2
  <2>2. QED
    BY <2>1, InitMoney
<1>4. TypeOK /\ LockInv /\ (TypeOK /\ LockInv)' /\ Inv /\ [Next]_vars => Inv'
  <2> SUFFICES ASSUME TypeOK, LockInv, TypeOK', LockInv', Inv, [Next]_vars
               PROVE  Inv'
    OBVIOUS
  <2>1. ASSUME NEW t \in Threads, CallStep(t) PROVE Inv'
    <3>1. PICK k \in Int : GrandTotal = I + k * Modulus
      OBVIOUS
    <3>2. SUFFICES ASSUME NEW n \in Int, GrandTotal' = GrandTotal + n * Modulus
                   PROVE  Inv'
      BY <2>1, MoneyStep
    <3> HIDE DEF I
    <3>3. (k + n) * Modulus = k * Modulus + n * Modulus /\ k + n \in Int
      BY <1>2
    <3>4. GrandTotal' = I + (k + n) * Modulus /\ GrandTotal' \in Int
      BY <1>1, <1>2, <3>1, <3>2, <3>3
    <3>5. QED
      BY <3>3, <3>4 DEF I
  <2>2. CASE UNCHANGED vars
    <3>1. GrandTotal' = GrandTotal
      BY <2>2, UnchangedMoney
    <3>2. QED
      BY <3>1
  <2>3. QED
    BY <2>1, <2>2 DEF Next, CallStep
<1>5. Inv => ConservationModulo
  <2> SUFFICES ASSUME Inv PROVE (GrandTotal - I) % Modulus = 0
    BY DEF ConservationModulo, Modulus
  <2>1. PICK k \in Int : GrandTotal = I + k * Modulus
    OBVIOUS
  <2> HIDE DEF I
  <2>2. GrandTotal - I = k * Modulus
    BY <1>1, <1>2, <2>1
  <2>3. (k * Modulus) % Modulus = 0
    BY <1>2
  <2>4. QED
    BY <2>2, <2>3
<1> HIDE DEF Inv
<1>6. QED
  BY LockInvariant, <1>3, <1>4, <1>5, PTL DEF Spec

\* As long as no balance overflows, centavos are neither created nor destroyed
\* at any step of any interleaving (bank.c 20-76, main.c 57-65).
THEOREM MoneyConserved == Spec /\ []NoOverflow => []Conservation
<1>1. Init => Conservation
  BY InitMoney DEF Conservation
<1>2. ASSUME TypeOK, LockInv, TypeOK', LockInv', NoOverflow, Conservation, [Next]_vars
      PROVE  Conservation'
  <2>1. ASSUME NEW t \in Threads, CallStep(t) PROVE GrandTotal' = GrandTotal
    <3>1. SUFFICES ASSUME NEW n \in Int, NoOverflow => n = 0,
                          GrandTotal' = GrandTotal + n * Modulus
                   PROVE  GrandTotal' = GrandTotal
      BY <1>2, <2>1, MoneyStep
    <3>2. n = 0 /\ Modulus \in Int /\ GrandTotal \in Int
      BY <1>2, <2>1, <3>1, MoneyStep, BankAssumption DEF Modulus
    <3>3. QED
      BY <3>1, <3>2
  <2>2. GrandTotal' = GrandTotal
    BY <1>2, <2>1, UnchangedMoney DEF Next, CallStep
  <2>3. QED
    BY <1>2, <2>2 DEF Conservation
<1>3. QED
  BY LockInvariant, <1>1, <1>2, PTL DEF Spec

-----------------------------------------------------------------------------
(* Overdrafts *)

\* A balance changes only in a step that was about to write it, and then by an
\* amount that wraps (bank.c 25, 38, 68, 69).
LEMMA OneWriter ==
  ASSUME TypeOK, LockInv, NEW t \in Threads, CallStep(t),
         NEW a \in Accounts, balance'[a] # balance[a]
  PROVE  /\ Touches(t, a) /\ call[t].type # "balance"
         /\ \/ /\ at[t] = "update" /\ call[t].type = "deposit"
               /\ a = call[t].account
               /\ balance'[a] = CInt(balance[a] + call[t].amount)
            \/ /\ at[t] = "credit" /\ a = call[t].target
               /\ balance'[a] = CInt(balance[a] + call[t].amount)
            \/ /\ \/ at[t] = "update" /\ call[t].type = "withdraw"
                  \/ at[t] = "debit"
               /\ a = call[t].account
               /\ ~Insufficient(call[t])
               /\ balance'[a] = CInt(balance[a] - call[t].amount)
<1> USE DEF TypeOK, Goto, money, locks, Touches
<1>1. CASE ApplyDeposit(t)
  BY <1>1 DEF ApplyDeposit
<1>2. CASE ApplyWithdraw(t)
  BY <1>2 DEF ApplyWithdraw
<1>3. CASE Debit(t)
  BY <1>3 DEF Debit, LockInv, CallMatchesPlace, TransferPlaces
<1>4. CASE Credit(t)
  BY <1>4 DEF Credit, LockInv, CallMatchesPlace, TransferPlaces
<1>5. ASSUME \/ SkipSelfTransfer(t) \/ AcquireRead(t) \/ AcquireWrite(t)
             \/ AcquireFirst(t) \/ AcquireSecond(t) \/ ReadBalance(t)
             \/ ReleaseSecond(t) \/ ReleaseFirst(t) \/ SettleReserve(t)
             \/ Return(t) \/ \E c \in Calls : Invoke(t, c)
      PROVE  balance' = balance
  BY <1>5 DEF SkipSelfTransfer, AcquireRead, AcquireWrite, AcquireFirst,
              AcquireSecond, ReadBalance, ReleaseSecond, ReleaseFirst,
              SettleReserve, Return, Invoke
<1>6. QED
  BY <1>1, <1>2, <1>3, <1>4, <1>5 DEF CallStep, Step

\* The accounts a run of the bank is loaded with, and the calls the traces
\* make when every amount is written without a sign.
NoDebts ==
  /\ \A a \in Accounts : InitialBalance[a] >= 0
  /\ \A c \in Calls : c.amount >= 0

\* An overdraft would take a debit of more than the funds.
LEMMA OverdraftStep ==
  ASSUME TypeOK, LockInv, NEW t \in Threads, CallStep(t),
         NoDebts, NoOverflow, NoOverdraft
  PROVE  NoOverdraft'
<1> SUFFICES ASSUME NEW a \in Accounts PROVE balance'[a] >= 0
  BY DEF NoOverdraft
<1>1. balance[a] \in Int /\ balance[a] >= 0
  BY BankAssumption DEF TypeOK, CInts, NoOverdraft
<1>2. CASE balance'[a] = balance[a]
  BY <1>1, <1>2
<1>3. CASE balance'[a] # balance[a]
  <2>1. call[t] \in Calls /\ call[t].amount \in Int /\ call[t].amount >= 0
    BY <1>3, OneWriter, CallLocks DEF Touches, LockInv, CallMatchesPlace, NoDebts
  <2>2. CASE balance'[a] = CInt(balance[a] + call[t].amount)
             /\ balance[a] + call[t].amount \in CInts
    BY <1>1, <2>1, <2>2, CIntWraps
  <2>3. CASE balance'[a] = CInt(balance[a] - call[t].amount)
             /\ balance[a] - call[t].amount \in CInts
             /\ ~(balance[a] < call[t].amount)
    BY <1>1, <2>1, <2>3, CIntWraps
  <2>4. QED
    BY <1>3, <2>2, <2>3, OneWriter DEF NoOverflow, Insufficient
<1>4. QED
  BY <1>2, <1>3

\* No interleaving overdraws an account that starts without debts, as long as
\* no amount is negative and no balance overflows: the funds the check sees are
\* the funds that are debited (bank.c 34-38, 62-68).
THEOREM NeverOverdrawn ==
  ASSUME NoDebts
  PROVE  Spec /\ []NoOverflow => []NoOverdraft
<1>1. Init => NoOverdraft
  BY DEF Init, NoDebts, NoOverdraft
<1>2. TypeOK /\ LockInv /\ NoOverflow /\ NoOverdraft /\ [Next]_vars => NoOverdraft'
  BY OverdraftStep DEF Next, CallStep, vars, money, NoOverdraft
<1>3. QED
  BY LockInvariant, <1>1, <1>2, PTL DEF Spec

-----------------------------------------------------------------------------
(* Every call takes effect at once *)

\* What a transfer has debited and not yet credited is still in the account it
\* came from: nobody else can write that account.
DebitFunded ==
  \A t \in Threads : at[t] = "credit" => balance[call[t].account] >= 0

\* It stays so because the write lock is held from the debit to the credit.
LEMMA DebitFundedStep ==
  ASSUME TypeOK, LockInv, NEW t \in Threads, CallStep(t), NoOverflow, DebitFunded
  PROVE  DebitFunded'
<1> SUFFICES ASSUME NEW u \in Threads, at'[u] = "credit"
             PROVE  balance'[call'[u].account] >= 0
  BY DEF DebitFunded
<1>1. CASE at[u] = "credit"
  <2>1. /\ call[u] \in Calls /\ call[u].account \in Accounts
        /\ call[u].account # call[u].target /\ call[u].type # "balance"
    BY <1>1, CallLocks DEF LockInv, CallMatchesPlace, TransferPlaces
  <2>2. u # t
    BY <1>1 DEF CallStep, Step, Goto, TypeOK, SkipSelfTransfer, AcquireRead,
                AcquireWrite, AcquireFirst, AcquireSecond, ApplyDeposit,
                ApplyWithdraw, ReadBalance, Debit, Credit, ReleaseSecond,
                ReleaseFirst, SettleReserve, Return, Invoke
  <2>3. call'[u] = call[u]
    BY <2>2, OneThread
  <2>4. balance'[call[u].account] = balance[call[u].account]
    BY <1>1, <2>1, <2>2, OneWriter, LocksExclude DEF NoDataRace, Touches
  <2>5. QED
    BY <1>1, <2>3, <2>4 DEF DebitFunded
<1>2. CASE at[u] # "credit"
  <2>1. u = t /\ Debit(t) /\ ~Insufficient(call[t])
    BY <1>2, OneThread
    DEF CallStep, Step, Goto, TypeOK, SkipSelfTransfer, AcquireRead,
        AcquireWrite, AcquireFirst, AcquireSecond, ApplyDeposit,
        ApplyWithdraw, ReadBalance, Debit, Credit, ReleaseSecond,
        ReleaseFirst, SettleReserve, Return, Invoke
  <2> DEFINE x == balance[call[t].account] - call[t].amount
  <2>2. /\ at[t] = "debit" /\ call'[t] = call[t]
        /\ balance' = [balance EXCEPT ![call[t].account] = CInt(x)]
    BY <2>1 DEF Debit
  <2>3. /\ call[t].account \in Accounts /\ call[t].amount \in Int
        /\ balance[call[t].account] \in Int
    <3>1. call[t] \in Calls
      BY <2>2 DEF LockInv, CallMatchesPlace
    <3>2. \A a \in Accounts : balance[a] \in Int
      BY BankAssumption DEF TypeOK, CInts
    <3>3. QED
      BY <3>1, <3>2, CallLocks
  <2>4. x \in CInts /\ x >= 0
    BY <2>1, <2>2, <2>3 DEF NoOverflow, Insufficient
  <2>5. CInt(x) = x /\ balance'[call[t].account] = CInt(x)
    BY <2>2, <2>3, <2>4, CIntWraps DEF TypeOK
  <2> HIDE DEF x
  <2>6. QED
    BY <2>1, <2>2, <2>4, <2>5
<1>3. QED
  BY <1>1, <1>2

Transit(a) == SumFunctionOnSet(ToTarget, InTransit(a))

\* At most one transfer is between its debit and its credit on an account, and
\* none while another thread is about to read or write the balance.
LEMMA TransitAlone ==
  ASSUME LockInv, NEW t \in Threads
  PROVE  /\ at[t] = "credit" =>
              /\ InTransit(call[t].account) = {t}
              /\ Transit(call[t].account) = call[t].amount
         /\ \A a \in Accounts :
              Touches(t, a) /\ ~(at[t] = "credit" /\ call[t].account = a)
                => InTransit(a) = {} /\ Transit(a) = 0
<1>1. ASSUME NEW u \in Threads, at[u] = "credit"
      PROVE  /\ Touches(u, call[u].account) /\ call[u].type # "balance"
             /\ call[u].account \in Accounts /\ call[u].amount \in Int
  BY <1>1, CallLocks DEF LockInv, CallMatchesPlace, TransferPlaces, Touches
<1>2. ASSUME at[t] = "credit"
      PROVE  /\ InTransit(call[t].account) = {t}
             /\ Transit(call[t].account) = call[t].amount
  <2>1. InTransit(call[t].account) = {t}
    BY <1>1, <1>2, LocksExclude DEF NoDataRace, InTransit
  <2>2. ToTarget[t] = call[t].amount /\ call[t].amount \in Int
    BY <1>1, <1>2 DEF ToTarget, OwedToTarget
  <2>3. QED
    BY <2>1, <2>2, SumSmall DEF Transit
<1>3. ASSUME NEW a \in Accounts, Touches(t, a),
             ~(at[t] = "credit" /\ call[t].account = a)
      PROVE  InTransit(a) = {} /\ Transit(a) = 0
  <2>1. InTransit(a) = {}
    BY <1>1, <1>3, LocksExclude DEF NoDataRace, InTransit
  <2>2. QED
    BY <2>1, SumSmall DEF Transit
<1>4. QED
  BY <1>2, <1>3

\* What is in transit from an account changes only when the thread taking the
\* step debits it or credits what it has debited.
LEMMA TransitKept ==
  ASSUME TypeOK, NEW t \in Threads, CallStep(t), NEW a \in Accounts,
         ~(at[t] = "credit" /\ call[t].account = a),
         ~(at'[t] = "credit" /\ call'[t].account = a)
  PROVE  Transit(a)' = Transit(a)
<1>1. InTransit(a)' = InTransit(a) /\ t \notin InTransit(a)
  BY OneThread DEF InTransit
<1>2. \A u \in InTransit(a) : ToTarget'[u] = ToTarget[u]
  BY <1>1, OneThread DEF InTransit, ToTarget, OwedToTarget
<1>3. IsFiniteSet(InTransit(a))
  BY BankAssumption, FS_Subset DEF InTransit
<1>4. SumFunctionOnSet(ToTarget, InTransit(a)) = SumFunctionOnSet(ToTarget', InTransit(a))
  BY <1>2, <1>3, SumAgree
<1>5. QED
  BY <1>1, <1>4 DEF Transit

\* The state of AtomicBank before and after a step of one thread.
LEMMA MappedState ==
  ASSUME TypeOK, LockInv, TypeOK', LockInv', NEW t \in Threads, CallStep(t)
  PROVE  /\ \A a \in Accounts :
              /\ balance[a] \in Int /\ balance'[a] \in Int
              /\ Funds[a] = balance[a] + Transit(a)
              /\ Funds'[a] = balance'[a] + Transit(a)'
         /\ Funds = [a \in Accounts |-> Funds[a]]
         /\ Funds' = [a \in Accounts |-> Funds'[a]]
         /\ Answered[t] = (at[t] \in {"unlock2", "unlock", "settle", "return"})
         /\ Answered' = [Answered EXCEPT ![t] =
                           at'[t] \in {"unlock2", "unlock", "settle", "return"}]
         /\ Reserve \in Int
         /\ Reserve' = Reserve + (reserve' - reserve)
                         + OwedToReserve(t)' - OwedToReserve(t)
<1>1. \A a \in Accounts :
        /\ balance[a] \in Int /\ balance'[a] \in Int
        /\ Funds[a] = balance[a] + Transit(a)
        /\ Funds'[a] = balance'[a] + Transit(a)'
  BY BankAssumption DEF TypeOK, CInts, Funds, Transit
<1>2. Funds = [a \in Accounts |-> Funds[a]] /\ Funds' = [a \in Accounts |-> Funds'[a]]
  BY DEF Funds
<1>3. /\ Answered[t] = (at[t] \in {"unlock2", "unlock", "settle", "return"})
      /\ Answered' = [Answered EXCEPT ![t] =
                        at'[t] \in {"unlock2", "unlock", "settle", "return"}]
  BY OneThread DEF Answered
<1>4. Reserve \in Int /\ Reserve' = Reserve + (reserve' - reserve)
                                      + OwedToReserve(t)' - OwedToReserve(t)
  <2> DEFINE S == SumFunctionOnSet(ToReserve, Threads)
             r0 == OwedToReserve(t)
             r1 == OwedToReserve(t)'
  <2>1. S \in Int /\ S' = S + r1 - r0
    BY InFlightChange DEF ToReserve
  <2>2. r0 \in Int /\ ToReserve'[t] = r1
    BY OwesInt DEF ToReserve
  <2>3. r1 \in Int
    <3>1. at'[t] # "idle" => call'[t].amount \in Int
      BY CallLocks DEF LockInv, CallMatchesPlace
    <3>2. QED
      BY <3>1 DEF OwedToReserve
  <2>4. Reserve = reserve + S /\ Reserve' = reserve' + S'
    BY DEF Reserve
  <2>5. reserve \in Int /\ reserve' \in Int
    BY DEF TypeOK
  <2> HIDE DEF S, r0, r1
  <2>6. Reserve \in Int /\ Reserve' = Reserve + (reserve' - reserve) + r1 - r0
    BY <2>1, <2>2, <2>3, <2>4, <2>5
  <2>7. QED
    BY <2>6 DEF r0, r1
<1>5. QED
  BY <1>1, <1>2, <1>3, <1>4

\* Away from a debit and a credit the funds change as the balances do.
LEMMA FundsFollow ==
  ASSUME TypeOK, LockInv, TypeOK', LockInv', NEW t \in Threads, CallStep(t),
         at[t] # "credit", at'[t] # "credit",
         NEW a \in Accounts, NEW x, balance' = [balance EXCEPT ![a] = x],
         Transit(a) = 0
  PROVE  Funds' = [Funds EXCEPT ![a] = x]
<1>1. \A b \in Accounts : Transit(b)' = Transit(b)
  BY TransitKept
<1>2. \A b \in Accounts : balance'[b] = IF b = a THEN x ELSE balance[b]
  BY DEF TypeOK
<1>3. \A b \in Accounts : Funds'[b] = IF b = a THEN x ELSE Funds[b]
  BY <1>1, <1>2, MappedState
<1>4. QED
  BY <1>3, MappedState

\* Nor do they change when no balance does.
LEMMA FundsStay ==
  ASSUME TypeOK, LockInv, TypeOK', LockInv', NEW t \in Threads, CallStep(t),
         at[t] # "credit", at'[t] # "credit", balance' = balance
  PROVE  Funds' = Funds
<1>1. \A b \in Accounts : Funds'[b] = Funds[b]
  BY TransitKept, MappedState
<1>2. QED
  BY <1>1, MappedState

\* Every step of bank.c is a step of AtomicBank or invisible there.
LEMMA AtomicStep ==
  ASSUME TypeOK, LockInv, TypeOK', LockInv', NEW t \in Threads, CallStep(t),
         NoOverflow, DebitFunded
  PROVE  Atomic!Next \/ UNCHANGED Atomic!vars
<1> DEFINE c == call[t]
<1>1. at[t] # "idle" => /\ c \in Calls /\ c # None /\ c.amount \in Int
                        /\ c.account \in Accounts /\ c.target \in Accounts
  BY CallLocks, BankAssumption DEF LockInv, CallMatchesPlace
<1>2. /\ Answered[t] = (at[t] \in {"unlock2", "unlock", "settle", "return"})
      /\ Answered' = [Answered EXCEPT ![t] =
                        at'[t] \in {"unlock2", "unlock", "settle", "return"}]
      /\ Answered = [Answered EXCEPT ![t] =
                        at[t] \in {"unlock2", "unlock", "settle", "return"}]
      /\ Reserve \in Int
      /\ Reserve' = Reserve + (reserve' - reserve)
                      + OwedToReserve(t)' - OwedToReserve(t)
  BY MappedState DEF Answered
<1>3. OwedToReserve(t) \in Int /\ reserve \in Int /\ reserve' \in Int
  BY <1>1 DEF OwedToReserve, TypeOK
<1>4. reserve' = reserve /\ OwedToReserve(t)' = OwedToReserve(t) => Reserve' = Reserve
  BY <1>2, <1>3
<1> USE DEF Goto, money, locks
\* The caller enters and leaves.
<1>5. ASSUME NEW d \in Calls, Invoke(t, d) PROVE Atomic!Invoke(t, d)
  <2>1. /\ at[t] = "idle" /\ at'[t] = "lock" /\ call[t] = None
        /\ balance' = balance /\ reserve' = reserve
    BY <1>5 DEF Invoke, TypeOK, LockInv, CallMatchesPlace
  <2>2. Funds' = Funds
    BY <2>1, FundsStay
  <2>3. Reserve' = Reserve
    BY <1>4, <2>1 DEF OwedToReserve
  <2>4. Answered' = Answered
    BY <1>2, <2>1
  <2>5. QED
    BY <1>5, <2>1, <2>2, <2>3, <2>4 DEF Invoke, Atomic!Invoke
<1>6. CASE Return(t)
  <2>1. /\ at[t] = "return" /\ at'[t] = "idle"
        /\ balance' = balance /\ reserve' = reserve
    BY <1>6 DEF Return, TypeOK
  <2>2. Funds' = Funds
    BY <2>1, FundsStay
  <2>3. Reserve' = Reserve
    BY <1>4, <2>1 DEF OwedToReserve
  <2>4. Answered[t] /\ Answered' = [Answered EXCEPT ![t] = FALSE]
    <3>1. (at'[t] \in {"unlock2", "unlock", "settle", "return"}) = FALSE
      BY <2>1
    <3>2. Answered' = [Answered EXCEPT ![t] = FALSE]
      BY <1>2, <3>1, Zenon
    <3>3. QED
      BY <1>2, <2>1, <3>2
  <2>5. Atomic!Return(t)
    BY <1>1, <1>6, <2>1, <2>2, <2>3, <2>4 DEF Return, Atomic!Return
  <2>6. QED
    BY <2>5 DEF Atomic!Next
\* The steps at which a call takes effect.
<1>7. CASE SkipSelfTransfer(t)
  <2>1. /\ at[t] = "lock" /\ at'[t] = "return" /\ call' = call
        /\ balance' = balance /\ reserve' = reserve
        /\ c.type = "transfer" /\ c.account = c.target
    BY <1>7 DEF SkipSelfTransfer, TypeOK
  <2>2. Funds' = Funds
    BY <2>1, FundsStay
  <2>3. Reserve' = Reserve
    BY <1>4, <2>1 DEF OwedToReserve
  <2>4. ~Answered[t] /\ Answered' = [Answered EXCEPT ![t] = TRUE]
    BY <1>2, <2>1
  <2>5. Atomic!Transfer(t)
    BY <1>1, <1>7, <2>1, <2>2, <2>3, <2>4
    DEF SkipSelfTransfer, Atomic!Transfer, Atomic!Pending, Atomic!Moves
  <2>6. QED
    BY <2>5 DEF Atomic!Next
<1>8. CASE ApplyDeposit(t)
  <2> DEFINE x == balance[c.account] + c.amount
  <2>1. /\ at[t] = "update" /\ at'[t] = "unlock" /\ call' = call
        /\ reserve' = reserve /\ c.type = "deposit"
        /\ balance' = [balance EXCEPT ![c.account] = CInt(x)]
        /\ UNCHANGED <<ok, read>>
    BY <1>8 DEF ApplyDeposit, TypeOK
  <2>2. x \in CInts
    BY <2>1 DEF NoOverflow
  <2>3. CInt(x) = x
    BY <1>1, <2>1, <2>2, CIntWraps, MappedState
  <2>4. Transit(c.account) = 0
    BY <1>1, <2>1, TransitAlone DEF Touches
  <2>5. Funds' = [Funds EXCEPT ![c.account] = x]
    BY <1>1, <2>1, <2>3, <2>4, FundsFollow
  <2>6. Funds[c.account] + c.amount = x
    BY <1>1, <2>1, <2>4, MappedState
  <2>7. Reserve' = Reserve - c.amount
    BY <1>1, <1>2, <1>3, <2>1 DEF OwedToReserve, OwesReserve
  <2>8. ~Answered[t] /\ Answered' = [Answered EXCEPT ![t] = TRUE]
    BY <1>2, <2>1
  <2>9. Atomic!Deposit(t)
    BY <1>1, <2>1, <2>5, <2>6, <2>7, <2>8
    DEF Atomic!Deposit, Atomic!Pending, Atomic!Moves
  <2>10. QED
    BY <2>9 DEF Atomic!Next
<1>9. CASE ApplyWithdraw(t)
  <2> DEFINE x == balance[c.account] - c.amount
  <2>1. /\ at[t] = "update" /\ at'[t] = "unlock" /\ call' = call /\ ok[t]
        /\ reserve' = reserve /\ read' = read /\ c.type = "withdraw"
    BY <1>9 DEF ApplyWithdraw, TypeOK, LockInv, CallMatchesPlace
  <2>2. Transit(c.account) = 0
    BY <1>1, <2>1, TransitAlone DEF Touches
  <2>3. Funds[c.account] = balance[c.account] /\ balance[c.account] \in Int
    BY <1>1, <2>1, <2>2, MappedState
  <2>4. ~Answered[t] /\ Answered' = [Answered EXCEPT ![t] = TRUE]
    BY <1>2, <2>1
  <2>5. CASE Insufficient(c)
    <3>1. balance' = balance /\ ok' = [ok EXCEPT ![t] = FALSE]
      BY <1>9, <2>5 DEF ApplyWithdraw
    <3>2. Funds' = Funds
      BY <2>1, <3>1, FundsStay
    <3>3. ~ok'[t]
      BY <3>1 DEF TypeOK
    <3>4. Reserve' = Reserve
      BY <1>4, <2>1, <3>3 DEF OwedToReserve, OwesReserve
    <3>5. Atomic!Withdraw(t)
      BY <1>1, <2>1, <2>3, <2>4, <2>5, <3>1, <3>2, <3>4
      DEF Insufficient, Atomic!Withdraw, Atomic!Pending, Atomic!Refuses
    <3>6. QED
      BY <3>5 DEF Atomic!Next
  <2>6. CASE ~Insufficient(c)
    <3>1. balance' = [balance EXCEPT ![c.account] = CInt(x)] /\ ok' = ok
      BY <1>9, <2>6 DEF ApplyWithdraw
    <3>2. x \in CInts
      BY <2>1, <2>6 DEF NoOverflow
    <3>3. CInt(x) = x
      BY <1>1, <2>1, <2>3, <3>2, CIntWraps
    <3>4. Funds' = [Funds EXCEPT ![c.account] = x]
      BY <1>1, <2>1, <2>2, <3>1, <3>3, FundsFollow
    <3>5. Reserve' = Reserve + c.amount
      BY <1>1, <1>2, <1>3, <2>1, <3>1 DEF OwedToReserve, OwesReserve
    <3>6. Atomic!Withdraw(t)
      BY <1>1, <2>1, <2>3, <2>4, <2>6, <3>1, <3>4, <3>5
      DEF Insufficient, Atomic!Withdraw, Atomic!Pending, Atomic!Moves
    <3>7. QED
      BY <3>6 DEF Atomic!Next
  <2>7. QED
    BY <2>5, <2>6
<1>10. CASE ReadBalance(t)
  <2>1. /\ at[t] = "update" /\ at'[t] = "unlock" /\ call' = call /\ ok' = ok
        /\ balance' = balance /\ reserve' = reserve /\ c.type = "balance"
        /\ read' = [read EXCEPT ![t] = balance[c.account]]
    BY <1>10 DEF ReadBalance, TypeOK
  <2>2. Transit(c.account) = 0
    BY <1>1, <2>1, TransitAlone DEF Touches
  <2>3. Funds[c.account] = balance[c.account]
    BY <1>1, <2>1, <2>2, MappedState
  <2>4. Funds' = Funds
    BY <2>1, FundsStay
  <2>5. Reserve' = Reserve
    BY <1>4, <2>1 DEF OwedToReserve, OwesReserve
  <2>6. ~Answered[t] /\ Answered' = [Answered EXCEPT ![t] = TRUE]
    BY <1>2, <2>1
  <2>7. Atomic!Balance(t)
    BY <1>1, <2>1, <2>3, <2>4, <2>5, <2>6 DEF Atomic!Balance, Atomic!Pending
  <2>8. QED
    BY <2>7 DEF Atomic!Next
\* A transfer takes effect when it is refused or credits; the debit alone is
\* invisible.
<1>11. CASE Debit(t)
  <2> DEFINE x == balance[c.account] - c.amount
  <2>1. /\ at[t] = "debit" /\ call' = call /\ ok[t]
        /\ reserve' = reserve /\ read' = read
        /\ c.type = "transfer" /\ c.account # c.target
    BY <1>11 DEF Debit, LockInv, CallMatchesPlace, TransferPlaces
  <2>2. Transit(c.account) = 0
    BY <1>1, <2>1, TransitAlone DEF Touches
  <2>3. Funds[c.account] = balance[c.account] /\ balance[c.account] \in Int
    BY <1>1, <2>1, <2>2, MappedState
  <2>4. CASE Insufficient(c)
    <3>1. /\ balance' = balance /\ ok' = [ok EXCEPT ![t] = FALSE]
          /\ at'[t] = "unlock2"
      BY <1>11, <2>4 DEF Debit, TypeOK
    <3>2. Funds' = Funds
      BY <2>1, <3>1, FundsStay
    <3>3. Reserve' = Reserve
      BY <1>4, <2>1, <3>1 DEF OwedToReserve
    <3>4. ~Answered[t] /\ Answered' = [Answered EXCEPT ![t] = TRUE]
      BY <1>2, <2>1, <3>1
    <3>5. Atomic!Transfer(t)
      BY <1>1, <2>1, <2>3, <2>4, <3>1, <3>2, <3>3, <3>4
      DEF Insufficient, Atomic!Transfer, Atomic!Pending, Atomic!Refuses
    <3>6. QED
      BY <3>5 DEF Atomic!Next
  <2>5. CASE ~Insufficient(c)
    <3>1. /\ balance' = [balance EXCEPT ![c.account] = CInt(x)] /\ ok' = ok
          /\ at'[t] = "credit"
      BY <1>11, <2>5 DEF Debit, TypeOK
    <3>2. x \in CInts
      BY <2>1, <2>5 DEF NoOverflow
    <3>3. CInt(x) = x
      BY <1>1, <2>1, <2>3, <3>2, CIntWraps
    <3>4. Transit(c.account)' = c.amount
      <4>1. PICK d \in Accounts : d = c.account
        BY <1>1, <2>1
      <4>2. InTransit(d) = {}
        BY <2>1, <4>1, TransitAlone DEF Touches
      <4>3. InTransit(d)' = {t}
        BY <2>1, <3>1, <4>1, <4>2, OneThread DEF InTransit
      <4>4. ToTarget'[t] = c.amount
        BY <2>1, <3>1 DEF ToTarget, OwedToTarget
      <4>5. SumFunctionOnSet(ToTarget', {t}) = c.amount
        BY <1>1, <2>1, <4>4, SumSmall
      <4>6. Transit(d)' = c.amount
        BY <4>3, <4>5 DEF Transit
      <4>7. QED
        BY <2>1, <4>1, <4>6
    <3>5. Funds'[c.account] = Funds[c.account]
      <4>1. balance'[c.account] = balance[c.account] - c.amount
        BY <1>1, <2>1, <3>1, <3>3 DEF TypeOK
      <4>2. QED
        BY <1>1, <2>1, <2>3, <3>4, <4>1, MappedState
    <3>6. ASSUME NEW a \in Accounts, a # c.account PROVE Funds'[a] = Funds[a]
      <4>1. Transit(a)' = Transit(a) /\ balance'[a] = balance[a]
        BY <2>1, <3>1, <3>6, TransitKept DEF TypeOK
      <4>2. QED
        BY <4>1, MappedState
    <3>7. Funds' = Funds
      BY <3>5, <3>6, MappedState
    <3>8. Reserve' = Reserve
      BY <1>4, <2>1, <3>1 DEF OwedToReserve
    <3>9. Answered' = Answered
      BY <1>2, <2>1, <3>1
    <3>10. QED
      BY <2>1, <3>1, <3>7, <3>8, <3>9 DEF Atomic!vars
  <2>6. QED
    BY <2>4, <2>5
<1>12. CASE Credit(t)
  <2> DEFINE x == balance[c.target] + c.amount
  <2>0. SUFFICES ASSUME NEW d \in Accounts, NEW e \in Accounts,
                        d = c.account, e = c.target
                 PROVE  Atomic!Next
    BY <1>1, <1>12 DEF Credit
  <2>1. /\ at[t] = "credit" /\ at'[t] = "unlock2" /\ call' = call
        /\ reserve' = reserve /\ read' = read /\ ok' = ok
        /\ c.type = "transfer" /\ d # e
        /\ balance' = [balance EXCEPT ![e] = CInt(x)]
    BY <1>12, <2>0 DEF Credit, TypeOK, LockInv, CallMatchesPlace, TransferPlaces
  <2>2. d \in Accounts /\ e \in Accounts /\ c.amount \in Int
    BY <1>1, <2>1
  <2>3. balance[d] \in Int /\ balance[e] \in Int
    BY <2>2, MappedState
  <2>4. CInt(x) = x
    <3>1. x \in CInts
      BY <2>1 DEF NoOverflow
    <3>2. QED
      BY <2>0, <2>2, <2>3, <3>1, CIntWraps
  <2>5. Transit(d) = c.amount /\ Transit(e) = 0
    BY <2>0, <2>1, <2>2, TransitAlone DEF Touches
  <2>6. Transit(d)' = 0
    <3>1. InTransit(d)' = {}
      <4>1. InTransit(d) = {t}
        BY <2>0, <2>1, TransitAlone
      <4>2. QED
        BY <2>0, <2>1, <4>1, OneThread DEF InTransit
    <3>2. SumFunctionOnSet(ToTarget', {}) = 0
      BY SumSmall
    <3>3. QED
      BY <3>1, <3>2 DEF Transit
  <2>7. balance[d] >= 0
    BY <2>0, <2>1 DEF DebitFunded
  <2>8. Funds[d] = balance[d] + c.amount /\ Funds'[d] = Funds[d] - c.amount
    <3>1. balance'[d] = balance[d]
      BY <2>1, <2>2 DEF TypeOK
    <3>2. Funds[d] = balance[d] + c.amount /\ Funds'[d] = balance[d] + 0
      BY <2>2, <2>5, <2>6, <3>1, MappedState
    <3>3. QED
      BY <2>2, <2>3, <3>2
  <2>9. Funds[e] = balance[e] /\ Funds'[e] = Funds[e] + c.amount
    <3>1. balance'[e] = x
      BY <2>1, <2>2, <2>4 DEF TypeOK
    <3>2. Transit(e)' = 0
      BY <2>0, <2>1, <2>2, <2>5, TransitKept
    <3>3. Funds[e] = balance[e] + 0 /\ Funds'[e] = x + 0
      BY <2>2, <2>5, <3>1, <3>2, MappedState
    <3>4. QED
      BY <2>0, <2>2, <2>3, <3>3
  <2>10. ASSUME NEW a \in Accounts, a # d, a # e PROVE Funds'[a] = Funds[a]
    <3>1. Transit(a)' = Transit(a) /\ balance'[a] = balance[a]
      BY <2>0, <2>1, <2>10, TransitKept DEF TypeOK
    <3>2. QED
      BY <3>1, MappedState
  <2>11. Funds' = [Funds EXCEPT ![d] = @ - c.amount, ![e] = @ + c.amount]
    BY <2>1, <2>2, <2>8, <2>9, <2>10, MappedState
  <2>12. Funds[d] >= c.amount
    BY <2>2, <2>3, <2>7, <2>8
  <2>13. Reserve' = Reserve
    BY <1>4, <2>1 DEF OwedToReserve
  <2>14. ~Answered[t] /\ Answered' = [Answered EXCEPT ![t] = TRUE]
    BY <1>2, <2>1
  <2>15. Atomic!Transfer(t)
    BY <1>1, <2>0, <2>1, <2>11, <2>12, <2>13, <2>14
    DEF Atomic!Transfer, Atomic!Pending, Atomic!Moves
  <2>16. QED
    BY <2>15 DEF Atomic!Next
\* The other steps are invisible: what they owe is counted already.
<1>13. CASE SettleReserve(t)
  <2>1. /\ at[t] = "settle" /\ at'[t] = "return" /\ call' = call
        /\ balance' = balance /\ ok' = ok /\ read' = read /\ OwesReserve(t)
        /\ reserve' = IF c.type = "deposit" THEN reserve - c.amount
                                            ELSE reserve + c.amount
    BY <1>13 DEF SettleReserve, TypeOK, LockInv, CallMatchesPlace
  <2>2. Funds' = Funds
    BY <2>1, FundsStay
  <2>3. Reserve' = Reserve
    BY <1>1, <1>2, <1>3, <2>1 DEF OwedToReserve
  <2>4. Answered' = Answered
    BY <1>2, <2>1
  <2>5. QED
    BY <2>1, <2>2, <2>3, <2>4 DEF Atomic!vars
<1>14. CASE \/ AcquireRead(t) \/ AcquireWrite(t) \/ AcquireFirst(t)
            \/ AcquireSecond(t) \/ ReleaseSecond(t) \/ ReleaseFirst(t)
  <2>1. /\ call' = call /\ balance' = balance /\ reserve' = reserve
        /\ ok' = ok /\ read' = read
        /\ at[t] # "credit" /\ at'[t] # "credit"
        /\ at[t] \in {"unlock2", "unlock", "settle", "return"} <=>
             at'[t] \in {"unlock2", "unlock", "settle", "return"}
        /\ OwedToReserve(t)' = OwedToReserve(t)
    <3>1. CASE ReleaseSecond(t)
      BY <3>1 DEF ReleaseSecond, TypeOK, LockInv, CallMatchesPlace,
                  TransferPlaces, OwedToReserve, OwesReserve
    <3>2. CASE ReleaseFirst(t)
      BY <3>2 DEF ReleaseFirst, TypeOK, OwedToReserve, OwesReserve
    <3>3. CASE \/ AcquireRead(t) \/ AcquireWrite(t) \/ AcquireFirst(t)
               \/ AcquireSecond(t)
      BY <3>3 DEF AcquireRead, AcquireWrite, AcquireFirst, AcquireSecond,
                  TypeOK, OwedToReserve
    <3>4. QED
      BY <1>14, <3>1, <3>2, <3>3
  <2>2. Funds' = Funds
    BY <2>1, FundsStay
  <2>3. Reserve' = Reserve
    BY <1>4, <2>1
  <2>4. Answered' = Answered
    <3>1. (at'[t] \in {"unlock2", "unlock", "settle", "return"}) =
            (at[t] \in {"unlock2", "unlock", "settle", "return"})
      BY <2>1
    <3>2. QED
      BY <1>2, <3>1, Zenon
  <2>5. QED
    BY <2>1, <2>2, <2>3, <2>4 DEF Atomic!vars
<1>15. QED
  BY <1>5, <1>6, <1>7, <1>8, <1>9, <1>10, <1>11, <1>12, <1>13, <1>14
  DEF CallStep, Step, Atomic!Next

\* Before any call the balances are those of AtomicBank.
LEMMA AtomicInit == Init => Atomic!Init
<1> SUFFICES ASSUME Init PROVE Atomic!Init
  OBVIOUS
<1>1. TypeOK
  BY InitLockInv
<1>2. \A t \in Threads : ToReserve[t] = 0
  BY DEF Init, ToReserve, OwedToReserve
<1>3. Reserve = 0
  BY <1>2, BankAssumption, SumZero DEF Init, Reserve
<1>4. Funds = InitialBalance
  <2>1. \A a \in Accounts : InTransit(a) = {}
    BY DEF Init, InTransit
  <2>2. \A a \in Accounts : balance[a] + 0 = InitialBalance[a]
    BY BankAssumption DEF Init, CInts
  <2>3. \A a \in Accounts : Funds[a] = InitialBalance[a]
    BY <2>1, <2>2, SumSmall DEF Funds
  <2>4. QED
    BY <2>3, BankAssumption DEF Funds
<1>5. Answered = [t \in Threads |-> FALSE]
  <2>1. \A t \in Threads :
          (at[t] \in {"unlock2", "unlock", "settle", "return"}) = FALSE
    BY DEF Init
  <2>2. QED
    BY <2>1, Zenon DEF Answered
<1>6. QED
  BY <1>3, <1>4, <1>5 DEF Init, Atomic!Init

\* While no balance overflows, bank.c implements AtomicBank: whatever the
\* interleaving, every call takes effect in one step between its invocation
\* and its return, or not at all when it is refused.
THEOREM BankIsAtomic == Spec /\ []NoOverflow => Atomicity
<1>1. Init => DebitFunded
  BY DEF Init, DebitFunded
<1>2. TypeOK /\ LockInv /\ NoOverflow /\ DebitFunded /\ [Next]_vars => DebitFunded'
  BY DebitFundedStep DEF Next, CallStep, vars, money, thread, DebitFunded
<1>3. ASSUME TypeOK, LockInv, TypeOK', LockInv', NoOverflow, DebitFunded, [Next]_vars
      PROVE  [Atomic!Next]_(Atomic!vars)
  <2>1. ASSUME UNCHANGED vars PROVE UNCHANGED Atomic!vars
    BY <2>1 DEF vars, money, thread, Atomic!vars, Funds, InTransit, ToTarget,
                OwedToTarget, Reserve, ToReserve, OwedToReserve, OwesReserve,
                Answered
  <2>2. QED
    BY <1>3, <2>1, AtomicStep DEF Next, CallStep
<1>4. QED
  BY LockInvariant, AtomicInit, <1>1, <1>2, <1>3, PTL
  DEF Spec, Atomicity, Atomic!Spec

-----------------------------------------------------------------------------
(* A bank that cannot overflow *)

\* What a thread has yet to deposit, in calls: a call counts until it has taken
\* effect.
Remaining ==
  [t \in Threads |-> MaxCalls - served[t] - (IF Answered[t] THEN 1 ELSE 0)]

\* No amount exceeds m, and all the deposits the callers can make fit in an int
\* on top of everything the accounts hold at the start.
FitsInt(m) ==
  /\ \A c \in Calls : c.amount <= m
  /\ Total(InitialBalance) + m * (Cardinality(Threads) * MaxCalls) <= IntMax

\* Nobody calls more often than MaxCalls.
CallsCounted ==
  \A t \in Threads :
    IF at[t] = "idle" THEN served[t] <= MaxCalls ELSE served[t] < MaxCalls

\* What is in the accounts or between two of them, with all that can still be
\* deposited, fits in an int.
RoomLeft(m) ==
  Total(balance) + SumFunctionOnSet(ToTarget, Threads)
    + m * SumFunctionOnSet(Remaining, Threads) <= IntMax

RoomInv(m) == CallsCounted /\ NoOverdraft /\ RoomLeft(m)

\* The sums of RoomLeft are naturals and bound their summands.
LEMMA RoomSums ==
  ASSUME TypeOK, LockInv, NoDebts, CallsCounted, NoOverdraft
  PROVE  /\ Total(balance) \in Nat
         /\ SumFunctionOnSet(ToTarget, Threads) \in Nat
         /\ SumFunctionOnSet(Remaining, Threads) \in Nat
         /\ \A a \in Accounts : balance[a] \in Nat /\ balance[a] <= Total(balance)
         /\ \A t \in Threads :
              /\ ToTarget[t] <= SumFunctionOnSet(ToTarget, Threads)
              /\ Remaining[t] \in Nat
              /\ Remaining[t] <= SumFunctionOnSet(Remaining, Threads)
<1>1. IsFiniteSet(Threads) /\ IsFiniteSet(Accounts) /\ MaxCalls \in Nat
  BY BankAssumption
<1>2. \A a \in Accounts : balance[a] \in Nat
  BY BankAssumption DEF TypeOK, CInts, NoOverdraft
<1>3. \A t \in Threads : ToTarget[t] \in Nat
  <2>1. \A t \in Threads : at[t] = "credit" =>
          call[t].amount \in Int /\ call[t].amount >= 0
    BY CallLocks DEF LockInv, CallMatchesPlace, NoDebts
  <2>2. QED
    BY <2>1 DEF ToTarget, OwedToTarget
<1>4. \A t \in Threads : Remaining[t] \in Nat
  <2>1. \A t \in Threads : served[t] \in Nat /\ (Answered[t] => at[t] # "idle")
    BY DEF TypeOK, Answered
  <2>2. QED
    BY <1>1, <2>1 DEF Remaining, CallsCounted
<1>5. Total(balance) \in Nat /\ \A a \in Accounts : balance[a] <= Total(balance)
  BY <1>1, <1>2, SumBounds DEF Total
<1> HIDE DEF Remaining, ToTarget
<1>6. /\ SumFunctionOnSet(ToTarget, Threads) \in Nat
      /\ SumFunctionOnSet(Remaining, Threads) \in Nat
      /\ \A t \in Threads :
           /\ ToTarget[t] <= SumFunctionOnSet(ToTarget, Threads)
           /\ Remaining[t] <= SumFunctionOnSet(Remaining, Threads)
  BY <1>1, <1>3, <1>4, SumBounds
<1>7. QED
  BY <1>2, <1>4, <1>5, <1>6

\* As long as there is room no update overflows.
LEMMA RoomNoOverflow ==
  ASSUME TypeOK, LockInv, NoDebts, NEW m \in Nat, FitsInt(m), RoomInv(m)
  PROVE  NoOverflow
<1> DEFINE T == Total(balance)
           W == SumFunctionOnSet(ToTarget, Threads)
           R == SumFunctionOnSet(Remaining, Threads)
<1>1. T \in Nat /\ W \in Nat /\ R \in Nat /\ T + W + m * R <= IntMax
  BY RoomSums DEF RoomInv, RoomLeft
<1>2. IntMax \in Nat
  BY BankAssumption
<1>3. SUFFICES ASSUME NEW t \in Threads, at[t] \in {"update", "debit", "credit"}
      PROVE LET c == call[t]
            IN  /\ at[t] = "update" /\ c.type = "deposit" =>
                     balance[c.account] + c.amount \in CInts
                /\ (at[t] = "update" /\ c.type = "withdraw") \/ at[t] = "debit" =>
                     Insufficient(c) \/ balance[c.account] - c.amount \in CInts
                /\ at[t] = "credit" => balance[c.target] + c.amount \in CInts
  BY DEF NoOverflow
<1>4. PICK c \in Calls : c = call[t]
  BY <1>3 DEF LockInv, CallMatchesPlace
<1>5. /\ c.account \in Accounts /\ c.target \in Accounts
      /\ c.amount \in Nat /\ c.amount <= m
  BY CallLocks DEF NoDebts, FitsInt
<1>6. /\ balance[c.account] \in Nat /\ balance[c.account] <= T
      /\ balance[c.target] \in Nat /\ balance[c.target] <= T
  BY <1>5, RoomSums DEF RoomInv
<1>7. m <= m * R
  <2>1. Remaining[t] >= 1 /\ Remaining[t] <= R /\ Remaining[t] \in Nat
    <3>1. Remaining[t] <= R /\ Remaining[t] \in Nat
      BY RoomSums DEF RoomInv
    <3>2. served[t] < MaxCalls /\ ~Answered[t]
      BY <1>3 DEF RoomInv, CallsCounted, Answered
    <3>3. served[t] \in Nat /\ MaxCalls \in Nat
      BY BankAssumption DEF TypeOK
    <3>4. Remaining[t] = MaxCalls - served[t]
      BY <3>2, <3>3 DEF Remaining
    <3>5. QED
      BY <3>1, <3>2, <3>3, <3>4
  <2>2. R >= 1
    BY <1>1, <2>1
  <2> HIDE DEF R
  <2>3. \A r \in Nat : m * (r + 1) = m * r + m /\ m * r \in Nat
    OBVIOUS
  <2>4. R - 1 \in Nat /\ (R - 1) + 1 = R
    BY <1>1, <2>2
  <2>5. m * R = m * (R - 1) + m /\ m * (R - 1) \in Nat
    BY <2>3, <2>4
  <2>6. QED
    BY <2>5
<1> DEFINE p == m * R
<1>8. p \in Nat
  BY <1>1
<1> HIDE DEF T, W, R, p
<1>9. balance[c.account] + c.amount <= IntMax
  BY <1>1, <1>2, <1>5, <1>6, <1>7, <1>8 DEF p
<1>10. at[t] = "credit" => balance[c.target] + c.amount <= IntMax
  BY <1>1, <1>2, <1>5, <1>6, <1>7, <1>8 DEF p
<1>11. QED
  BY <1>2, <1>4, <1>5, <1>6, <1>9, <1>10 DEF CInts, Insufficient

\* A step of Next counts the calls it begins and ends.
LEMMA CountStep ==
  ASSUME TypeOK, CallsCounted, NEW t \in Threads,
         \/ Step(t) \/ Return(t)
         \/ \E c \in Calls : served[t] < MaxCalls /\ Invoke(t, c)
  PROVE  /\ CallsCounted'
         /\ \A u \in Threads \ {t} : Remaining'[u] = Remaining[u]
         /\ Remaining'[t] \in {Remaining[t], Remaining[t] - 1}
         /\ at[t] \in {"update", "credit"} => Remaining'[t] = Remaining[t] - 1
<1>1. MaxCalls \in Nat /\ \A u \in Threads : served[u] \in Nat
  BY BankAssumption DEF TypeOK
<1>2. CallStep(t)
  BY DEF CallStep
<1>3. \A u \in Threads \ {t} : at'[u] = at[u] /\ served'[u] = served[u]
  <2>1. \A u \in Threads \ {t} : at'[u] = at[u]
    BY <1>2, OneThread
  <2>2. \A u \in Threads \ {t} : served'[u] = served[u]
    BY DEF TypeOK, Step, SkipSelfTransfer, AcquireRead, AcquireWrite,
           AcquireFirst, AcquireSecond, ApplyDeposit, ApplyWithdraw,
           ReadBalance, Debit, Credit, ReleaseSecond, ReleaseFirst,
           SettleReserve, Return, Invoke
  <2>3. QED
    BY <2>1, <2>2
<1> DEFINE done(p) == p \in {"unlock2", "unlock", "settle", "return"}
\* How far one step takes a call.
<1>4. \/ /\ at[t] = "idle" /\ at'[t] = "lock"
         /\ served'[t] = served[t] /\ served[t] < MaxCalls
      \/ /\ at[t] = "return" /\ at'[t] = "idle" /\ served'[t] = served[t] + 1
      \/ /\ at[t] # "idle" /\ at'[t] # "idle" /\ served'[t] = served[t]
         /\ done(at[t]) => done(at'[t])
         /\ at[t] \in {"update", "credit"} => done(at'[t])
  BY DEF TypeOK, Goto, Step, SkipSelfTransfer, AcquireRead, AcquireWrite,
         AcquireFirst, AcquireSecond, ApplyDeposit, ApplyWithdraw, ReadBalance,
         Debit, Credit, ReleaseSecond, ReleaseFirst, SettleReserve, Return, Invoke
<1>5. CallsCounted'
  BY <1>1, <1>3, <1>4 DEF CallsCounted
<1>6. \A u \in Threads \ {t} : Remaining'[u] = Remaining[u]
  BY <1>3 DEF Remaining, Answered
<1>7. /\ Remaining[t] = MaxCalls - served[t] - (IF done(at[t]) THEN 1 ELSE 0)
      /\ Remaining'[t] = MaxCalls - served'[t] - (IF done(at'[t]) THEN 1 ELSE 0)
  BY DEF Remaining, Answered
<1>8. /\ Remaining'[t] \in {Remaining[t], Remaining[t] - 1}
      /\ at[t] \in {"update", "credit"} => Remaining'[t] = Remaining[t] - 1
  BY <1>1, <1>4, <1>7
<1>9. QED
  BY <1>5, <1>6, <1>8

\* No step leaves less room than there was: a deposit uses up the room kept for
\* it, and a transfer only moves what it debits.
LEMMA RoomStep ==
  ASSUME TypeOK, LockInv, TypeOK', LockInv', NoDebts,
         NEW m \in Nat, FitsInt(m), RoomInv(m), NEW t \in Threads,
         \/ Step(t) \/ Return(t)
         \/ \E c \in Calls : served[t] < MaxCalls /\ Invoke(t, c)
  PROVE  RoomInv(m)'
<1>1. CallStep(t) /\ NoOverflow
  BY RoomNoOverflow DEF CallStep
<1>2. NoOverdraft'
  BY <1>1, OverdraftStep DEF RoomInv
<1>3. CallsCounted'
  BY CountStep DEF RoomInv
<1> DEFINE T == Total(balance)
           W == SumFunctionOnSet(ToTarget, Threads)
           R == SumFunctionOnSet(Remaining, Threads)
           w0 == ToTarget[t]
           w1 == ToTarget'[t]
<1>4. T \in Nat /\ W \in Nat /\ R \in Nat /\ T + W + m * R <= IntMax
  BY RoomSums DEF RoomInv, RoomLeft
<1>5. W' = W + w1 - w0
  BY <1>1, InFlightChange
<1>6. R' = R + Remaining'[t] - Remaining[t]
  <2>1. \A u \in Threads : Remaining[u] \in Int /\ Remaining'[u] \in Int
    <3>1. MaxCalls \in Nat
      BY BankAssumption
    <3>2. \A u \in Threads : served[u] \in Nat /\ served'[u] \in Nat
      BY DEF TypeOK
    <3>3. QED
      BY <3>1, <3>2 DEF Remaining
  <2>2. IsFiniteSet(Threads)
    BY BankAssumption
  <2>3. \A u \in Threads \ {t} : Remaining'[u] = Remaining[u]
    BY CountStep DEF RoomInv
  <2> HIDE DEF Remaining
  <2>4. /\ SumFunctionOnSet(Remaining, Threads) \in Int
        /\ SumFunctionOnSet(Remaining', Threads) =
             SumFunctionOnSet(Remaining, Threads) + Remaining'[t] - Remaining[t]
    BY <2>1, <2>2, <2>3, SumChange
  <2>5. QED
    BY <2>4
<1>7. /\ Remaining'[t] \in {Remaining[t], Remaining[t] - 1} /\ Remaining[t] \in Nat
      /\ at[t] \in {"update", "credit"} => Remaining'[t] = Remaining[t] - 1
  BY CountStep, RoomSums DEF RoomInv
<1>8. R' = R \/ R' = R - 1
  <2> HIDE DEF R
  <2>1. QED
    BY <1>4, <1>6, <1>7
<1>9. at[t] \in {"update", "credit"} => R' = R - 1
  <2> HIDE DEF R
  <2>1. QED
    BY <1>4, <1>6, <1>7
<1>10. m * R \in Nat /\ m * R' \in Int /\ (R' = R - 1 => m * R' = m * R - m)
  <2> HIDE DEF R
  <2>1. \A r \in Int : m * (r - 1) = m * r - m /\ m * r \in Int
    OBVIOUS
  <2>2. m * R \in Nat
    BY <1>4
  <2>3. R \in Int /\ R' \in Int
    BY <1>4, <1>8
  <2>4. m * R' \in Int /\ m * (R - 1) = m * R - m
    BY <2>1, <2>3
  <2>5. R' = R - 1 => m * R' = m * (R - 1)
    OBVIOUS
  <2>6. QED
    BY <2>2, <2>4, <2>5
<1>11. /\ at[t] # "idle" => call[t] \in Calls /\ call[t].amount \in Nat
                              /\ call[t].amount <= m
       /\ w0 = OwedToTarget(t) /\ w1 = OwedToTarget(t)'
  BY CallLocks DEF LockInv, CallMatchesPlace, NoDebts, FitsInt, ToTarget
\* What the accounts and the transfers between them gain together.
<1>12. at'[t] = "credit" =>
         /\ at[t] = "debit" /\ call'[t] = call[t]
         /\ balance' = [balance EXCEPT ![call[t].account] =
                          CInt(balance[call[t].account] - call[t].amount)]
         /\ ~Insufficient(call[t])
  BY <1>1 DEF TypeOK, Goto, CallStep, Step, SkipSelfTransfer, AcquireRead,
              AcquireWrite, AcquireFirst, AcquireSecond, ApplyDeposit,
              ApplyWithdraw, ReadBalance, Debit, Credit, ReleaseSecond,
              ReleaseFirst, SettleReserve, Return, Invoke
<1>13. /\ w0 \in Nat /\ w1 \in Nat
       /\ w1 # 0 => at[t] = "debit" /\ w1 = call[t].amount
       /\ at[t] = "credit" => w0 = call[t].amount
       /\ at[t] # "credit" => w0 = 0
  BY <1>11, <1>12 DEF OwedToTarget
\* Both are off by no more than the rounding of an int, and nothing is rounded.
<1>14. ASSUME NEW a \in Accounts
       PROVE  /\ balance[a] \in Nat
              /\ balance[a] + call[t].amount \in CInts =>
                   CInt(balance[a] + call[t].amount) = balance[a] + call[t].amount
              /\ balance[a] - call[t].amount \in CInts =>
                   CInt(balance[a] - call[t].amount) = balance[a] - call[t].amount
  <2>1. balance[a] \in Nat
    BY RoomSums DEF RoomInv
  <2>2. \A x \in CInts : CInt(x) = x
    BY CIntWraps, BankAssumption DEF CInts
  <2>3. QED
    BY <2>1, <2>2
\* What the accounts and the transfers between them gain together.
<1>15. /\ T' \in Int
       /\ \/ T' + w1 <= T + w0
          \/ at[t] = "update" /\ T' + w1 <= T + w0 + m
  <2>1. CASE \A a \in Accounts : balance'[a] = balance[a]
    <3>1. T' = T
      <4>1. SumFunctionOnSet(balance, Accounts) = SumFunctionOnSet(balance', Accounts)
        BY <2>1, BankAssumption, SumAgree
      <4>2. QED
        BY <4>1 DEF Total
    <3>2. w1 = 0
      <4>1. SUFFICES ASSUME w1 # 0 PROVE FALSE
        OBVIOUS
      <4>2. at[t] = "debit" /\ at'[t] = "credit" /\ w1 = call[t].amount
        BY <1>11, <1>13, <4>1 DEF OwedToTarget
      <4>3. PICK a \in Accounts : a = call[t].account
        BY <1>11, <4>2, CallLocks
      <4>4. balance'[a] = CInt(balance[a] - call[t].amount)
        BY <1>12, <4>2, <4>3 DEF TypeOK
      <4>5. balance[a] - call[t].amount \in CInts
        BY <1>1, <1>12, <4>2, <4>3 DEF NoOverflow
      <4>6. balance[a] = balance[a] - call[t].amount
        BY <1>14, <2>1, <4>4, <4>5
      <4>7. QED
        BY <1>11, <1>14, <4>1, <4>2, <4>6
    <3> HIDE DEF T, w0, w1
    <3>3. QED
      BY <1>4, <1>13, <3>1, <3>2
  <2>2. ASSUME NEW a \in Accounts, balance'[a] # balance[a]
        PROVE  /\ T' \in Int
               /\ \/ T' + w1 <= T + w0
                  \/ at[t] = "update" /\ T' + w1 <= T + w0 + m
    <3>1. \A b \in Accounts \ {a} : balance'[b] = balance[b]
      BY <1>1, <2>2, OneWriter
    <3>2. T' = T + balance'[a] - balance[a]
      BY <3>1, TotalChange
    <3>3. balance[a] \in Nat /\ call[t].amount \in Nat /\ call[t].amount <= m
      BY <1>1, <1>11, <1>14, <2>2, OneWriter DEF Touches
    <3>4. \/ /\ at[t] = "update" /\ balance'[a] = balance[a] + call[t].amount
          \/ /\ at[t] = "credit" /\ balance'[a] = balance[a] + call[t].amount
          \/ /\ at[t] \in {"update", "debit"}
             /\ balance'[a] = balance[a] - call[t].amount
      BY <1>1, <1>14, <2>2, OneWriter DEF NoOverflow
    <3> DEFINE b0 == balance[a]
               b1 == balance'[a]
               n == call[t].amount
    <3>5. /\ T' = T + b1 - b0 /\ b0 \in Nat /\ n \in Nat /\ n <= m
          /\ \/ at[t] = "update" /\ b1 = b0 + n
             \/ at[t] = "credit" /\ b1 = b0 + n
             \/ at[t] \in {"update", "debit"} /\ b1 = b0 - n
          /\ w0 \in Nat /\ w1 \in Nat
          /\ w1 # 0 => at[t] = "debit" /\ w1 = n
          /\ at[t] = "credit" => w0 = n
      BY <1>13, <3>2, <3>3, <3>4
    <3> HIDE DEF T, w0, w1, b0, b1, n
    <3>6. QED
      BY <1>4, <3>5
  <2>3. QED
    BY <2>1, <2>2
<1>16. T' + W' + m * R' <= IntMax
  <2>1. IntMax \in Nat
    BY BankAssumption
  <2> DEFINE p == m * R   q == m * R'
  <2>2. p \in Nat /\ q \in Int /\ q <= p /\ (at[t] = "update" => q = p - m)
    BY <1>8, <1>9, <1>10
  <2>3. /\ T \in Nat /\ W \in Nat /\ T + W + p <= IntMax
        /\ w0 \in Nat /\ w1 \in Nat /\ W' = W + w1 - w0
    BY <1>4, <1>5, <1>13
  <2> HIDE DEF T, W, R, w0, w1, p, q
  <2>4. T' + W' + q <= IntMax
    BY <1>13, <1>15, <2>1, <2>2, <2>3, BankAssumption DEF FitsInt
  <2>5. QED
    BY <2>4 DEF q
<1>17. QED
  BY <1>2, <1>3, <1>16 DEF RoomInv, RoomLeft

\* At the start there is room.
LEMMA RoomInit ==
  ASSUME NoDebts, NEW m \in Nat, FitsInt(m), Init
  PROVE  RoomInv(m)
<1>1. CallsCounted
  BY BankAssumption DEF Init, CallsCounted
<1>2. NoOverdraft
  BY DEF Init, NoDebts, NoOverdraft
<1>3. /\ Total(balance) = Total(InitialBalance)
      /\ \A t \in Threads : ToTarget[t] = 0 /\ Remaining[t] = MaxCalls
  <2>1. MaxCalls - 0 - 0 = MaxCalls
    BY BankAssumption
  <2>2. \A t \in Threads : at[t] = "idle" /\ served[t] = 0 /\ ~Answered[t]
    BY DEF Init, Answered
  <2>3. \A t \in Threads : ToTarget[t] = 0 /\ Remaining[t] = MaxCalls
    BY <2>1, <2>2 DEF ToTarget, OwedToTarget, Remaining
  <2>4. QED
    BY <2>3 DEF Init
<1>4. /\ SumFunctionOnSet(ToTarget, Threads) = 0
      /\ SumFunctionOnSet(Remaining, Threads) = Cardinality(Threads) * MaxCalls
  BY <1>3, BankAssumption, SumZero, SumConstant
<1>5. Total(balance) \in Nat
  BY <1>1, <1>2, InitLockInv, RoomSums
<1> DEFINE T == Total(balance)
           p == m * (Cardinality(Threads) * MaxCalls)
<1>6. p \in Int
  BY BankAssumption, FS_CardinalityType
<1>7. T + p <= IntMax /\ T \in Int
  BY <1>3, <1>5 DEF FitsInt
<1> HIDE DEF T, p
<1>8. T + 0 + p <= IntMax
  BY <1>6, <1>7
<1>9. RoomLeft(m)
  BY <1>4, <1>8 DEF RoomLeft, T, p
<1>10. QED
  BY <1>1, <1>2, <1>9 DEF RoomInv

\* The room is lost in no other way.
LEMMA RoomUnchanged ==
  ASSUME NEW m \in Nat, RoomInv(m), UNCHANGED vars
  PROVE  RoomInv(m)'
<1>1. CallsCounted' /\ NoOverdraft'
  BY DEF RoomInv, CallsCounted, NoOverdraft, vars, money, thread
<1>2. balance' = balance /\ ToTarget' = ToTarget /\ Remaining' = Remaining
  BY DEF vars, money, thread, ToTarget, OwedToTarget, Remaining, Answered
<1>3. RoomLeft(m)'
  BY <1>2 DEF RoomInv, RoomLeft, Total
<1>4. QED
  BY <1>1, <1>3 DEF RoomInv

\* A bank whose accounts and deposits fit in an int never overflows a balance,
\* in any interleaving: the hypothesis of the theorems above is met.
THEOREM NothingOverflows ==
  ASSUME NoDebts, NEW m \in Nat, FitsInt(m)
  PROVE  Spec => []NoOverflow
<1> DEFINE Room == RoomInv(m)
<1>1. Init => Room
  BY RoomInit
<1>2. ASSUME TypeOK, LockInv, TypeOK', LockInv', Room, [Next]_vars PROVE Room'
  BY <1>2, RoomStep, RoomUnchanged DEF Next
<1>3. TypeOK /\ LockInv /\ Room => NoOverflow
  BY RoomNoOverflow
<1> HIDE DEF Room
<1>4. QED
  BY LockInvariant, <1>1, <1>2, <1>3, PTL DEF Spec

\* Such a bank keeps its promises without reserve: no centavo is lost, no
\* account is overdrawn, and every call is atomic.
THEOREM BankCorrect ==
  ASSUME NoDebts, NEW m \in Nat, FitsInt(m)
  PROVE  Spec => []Conservation /\ []NoOverdraft /\ Atomicity
BY NothingOverflows, MoneyConserved, NeverOverdrawn, BankIsAtomic, PTL
=============================================================================
