---------------------------- MODULE EngineProofs ----------------------------
(***************************************************************************)
(* Proofs about BankEngine for any program of transactions, any accounts   *)
(* and any pool: an account a bank call works on is loaded all the while,  *)
(* although other transactions load and unload the same account; every     *)
(* slot is given back on every path; the reported number of blocked loads  *)
(* is never too low; and, by the proofs about Bank, with the transactions  *)
(* as its threads and at most one call per operation, the books balance    *)
(* when main() audits them.                                                *)
(***************************************************************************)
EXTENDS BankEngine, FiniteSetTheorems, TLAPS

\* The lemmas about the pool, for the transactions as its threads.
Slot == INSTANCE BufferPoolProofs WITH Threads <- Transactions, MaxLoads <- 0

-----------------------------------------------------------------------------
(* What a transaction has loaded, account by account: a transfer to oneself *)
(* loads one account twice.                                                 *)

Owned(t) == {l \in Accounts \X Pool!Uses : <<t, l[1], l[2]>> \in claims}

OwnsNone(t) == Owned(t) = {}
OwnsOne(t, a) == \E m : Owned(t) = {<<a, m>>}
OwnsTwo(t, a, b) ==
  \E m, k : <<a, m>> # <<b, k>> /\ Owned(t) = {<<a, m>>, <<b, k>>}

OwnsAll(t, s) ==
  \/ Len(s) = 1 /\ OwnsOne(t, s[1])
  \/ Len(s) = 2 /\ OwnsTwo(t, s[1], s[2])

\* The places of an operation's loads, of the call, and of its unloads.
Loading == {"load", "loading"}
Calling == {"call", "bank"}
Unloading == {"await_next", "unload", "undo", "unloading", "undoing"}

\* Below, s stands for the accounts of the current operation and r for todo.

\* The loads of an operation: r is what is left of its accounts.
LoadsSoFar(t, s, r) ==
  /\ pc[t] \in Loading =>
       \/ r = s /\ OwnsNone(t)
       \/ Len(s) = 2 /\ r = Tail(s) /\ OwnsOne(t, s[1])
  /\ pc[t] = "loading" => wanted[t] = Head(r)

\* From the last load to the return from the bank all are loaded, and the
\* thread is inside bank.c nowhere else.
LoadedForCall(t, s) ==
  /\ pc[t] \in Calling => OwnsAll(t, s)
  /\ pc[t] = "bank" => call[t] = Op(t)
  /\ at[t] # "idle" => pc[t] = "bank"

\* The unloads: r is what is still loaded, but for the account being unloaded;
\* outside an operation nothing is.
UnloadsSoFar(t, r) ==
  /\ pc[t] \in {"await_next", "unload", "undo"} => OwnsAll(t, r)
  /\ pc[t] \in {"unloading", "undoing"} =>
       \/ Len(r) = 1 /\ OwnsNone(t)
       \/ Len(r) = 2 /\ OwnsOne(t, r[2])
  /\ pc[t] \in {"await_start", "loop", "exited"} => OwnsNone(t)

\* An operation under way is one of the program's, the pool is entered only for
\* a load or an unload, and the status of an exited transaction tells whether
\* it ran all of its operations.
Progress(t) ==
  /\ pc[t] \in Loading \cup Calling \cup Unloading => i[t] < Len(Program[t])
  /\ pc[t] \notin {"loading", "unloading", "undoing"} => doing[t] = "none"
  /\ pc[t] = "exited" => (status[t] = "TX_COMMITTED" <=> i[t] >= Len(Program[t]))
  /\ pc[t] # "exited" => status[t] = "TX_RUNNING"

TransactionInv(t) ==
  /\ \A s, r : s = Needs(Op(t)) /\ r = todo[t] =>
       LoadsSoFar(t, s, r) /\ LoadedForCall(t, s) /\ UnloadsSoFar(t, r)
  /\ Progress(t)

\* The variables that a transaction's own steps change have a value for each.
PerTransaction ==
  /\ DOMAIN pc = Transactions /\ i \in [Transactions -> Nat]
  /\ DOMAIN todo = Transactions /\ DOMAIN wanted = Transactions
  /\ DOMAIN call = Transactions /\ DOMAIN at = Transactions
  /\ DOMAIN status = Transactions /\ DOMAIN doing = Transactions

\* Once a load has found the pool full there have been as many loads begun or
\* done as slots and blocked loads together.
BlockedCounted ==
  /\ blocked_loads \in Nat
  /\ Cardinality(Slot!Doing("cleared")) <= total_unloads
  /\ blocked_loads > 0 =>
       blocked_loads + PoolSize <=
         total_loads + Cardinality(Slot!Doing("admitted"))
                     + Cardinality(Slot!Doing("blocked"))

\* main audits once all have exited.
AuditedLast == main = "audited" => \A t \in Transactions : pc[t] = "exited"

EngineInv ==
  /\ PerTransaction
  /\ \A t \in Transactions : TransactionInv(t)
  /\ AuditedLast
  /\ Slot!PoolInv
  /\ BlockedCounted

-----------------------------------------------------------------------------
\* An operation needs one account, or the two of a transfer: those that the
\* bank call works on (transaction.c 36, 46, 66-70, 89).
LEMMA NeedsShape ==
  ASSUME NEW op
  PROVE  \/ op.type # "transfer" /\ Needs(op) = <<op.account>>
         \/ /\ op.type = "transfer"
            /\ \E a, b : /\ Needs(op) = <<a, b>>
                         /\ {a, b} = {op.account, op.target}
<1>1. CASE op.type = "transfer"
  <2>1. Needs(op) = <<B!First(op), B!Second(op)>>
    BY <1>1 DEF Needs
  <2>2. {B!First(op), B!Second(op)} = {op.account, op.target}
    BY <1>1 DEF B!First, B!Second, B!LockOrder
  <2>3. QED
    BY <1>1, <2>1, <2>2
<1>2. CASE op.type # "transfer"
  BY <1>2 DEF Needs
<1>3. QED
  BY <1>1, <1>2

\* A step inside bank.c moves one thread that is inside, its call unchanged.
LEMMA BankStep ==
  ASSUME NEW t, B!Step(t)
  PROVE  /\ at[t] # "idle" /\ call' = call
         /\ \E place : at' = [at EXCEPT ![t] = place]
<1> USE DEF B!Goto
<1>1. CASE B!SkipSelfTransfer(t)
  BY <1>1 DEF B!SkipSelfTransfer
<1>2. CASE B!AcquireRead(t)
  BY <1>2 DEF B!AcquireRead
<1>3. CASE B!AcquireWrite(t)
  BY <1>3 DEF B!AcquireWrite
<1>4. CASE B!AcquireFirst(t)
  BY <1>4 DEF B!AcquireFirst
<1>5. CASE B!AcquireSecond(t)
  BY <1>5 DEF B!AcquireSecond
<1>6. CASE B!ApplyDeposit(t)
  BY <1>6 DEF B!ApplyDeposit
<1>7. CASE B!ApplyWithdraw(t)
  BY <1>7 DEF B!ApplyWithdraw
<1>8. CASE B!ReadBalance(t)
  BY <1>8 DEF B!ReadBalance
<1>9. CASE B!Debit(t)
  BY <1>9 DEF B!Debit
<1>10. CASE B!Credit(t)
  BY <1>10 DEF B!Credit
<1>11. CASE B!ReleaseSecond(t)
  BY <1>11 DEF B!ReleaseSecond
<1>12. CASE B!ReleaseFirst(t)
  BY <1>12 DEF B!ReleaseFirst
<1>13. CASE B!SettleReserve(t)
  BY <1>13 DEF B!SettleReserve
<1>14. QED
  BY <1>1, <1>2, <1>3, <1>4, <1>5, <1>6, <1>7, <1>8, <1>9, <1>10, <1>11,
     <1>12, <1>13 DEF B!Step

\* A stored load adds one account to what its thread has loaded; an unload,
\* which may clear the slot of another thread's load, takes one off
\* (buffer_pool.c 20-38, 45-58).
LEMMA LoadedAccounts ==
  ASSUME NEW t, NEW b
  PROVE  /\ Pool!StoreSlot(t) /\ wanted[t] = b /\ b \in Accounts =>
              /\ OwnsNone(t) => OwnsOne(t, b)'
              /\ \A a : OwnsOne(t, a) => OwnsTwo(t, a, b)'
              /\ \A u : u # t => Owned(u)' = Owned(u)
         /\ Pool!ClearSlot(t, b) =>
              /\ OwnsOne(t, b) => OwnsNone(t)'
              /\ \A a : OwnsTwo(t, b, a) => OwnsOne(t, a)'
              /\ \A u : u # t => Owned(u)' = Owned(u)
<1>1. ASSUME Pool!StoreSlot(t), wanted[t] = b, b \in Accounts
      PROVE  /\ OwnsNone(t) => OwnsOne(t, b)'
             /\ \A a : OwnsOne(t, a) => OwnsTwo(t, a, b)'
             /\ \A u : u # t => Owned(u)' = Owned(u)
  <2>1. PICK n \in Pool!Uses : /\ <<t, b, n>> \notin claims
                               /\ claims' = claims \cup {<<t, b, n>>}
    BY <1>1 DEF Pool!StoreSlot, Pool!FirstOf
  <2>2. /\ Owned(t)' = Owned(t) \cup {<<b, n>>} /\ <<b, n>> \notin Owned(t)
        /\ \A u : u # t => Owned(u)' = Owned(u)
    BY <1>1, <2>1 DEF Owned
  <2>3. OwnsNone(t) => OwnsOne(t, b)'
    BY <2>2 DEF OwnsNone, OwnsOne
  <2>4. ASSUME NEW a, OwnsOne(t, a) PROVE OwnsTwo(t, a, b)'
    <3>1. PICK m : Owned(t) = {<<a, m>>}
      BY <2>4 DEF OwnsOne
    <3>2. Owned(t)' = {<<a, m>>, <<b, n>>} /\ <<a, m>> # <<b, n>>
      BY <2>2, <3>1
    <3>3. QED
      BY <3>2 DEF OwnsTwo
  <2>5. QED
    BY <2>2, <2>3, <2>4
<1>2. ASSUME Pool!ClearSlot(t, b)
      PROVE  /\ OwnsOne(t, b) => OwnsNone(t)'
             /\ \A a : OwnsTwo(t, b, a) => OwnsOne(t, a)'
             /\ \A u : u # t => Owned(u)' = Owned(u)
  <2>1. PICK n \in Pool!Uses : /\ <<t, b, n>> \in claims
                               /\ claims' = claims \ {<<t, b, n>>}
    BY <1>2 DEF Pool!ClearSlot, Pool!FirstOf
  <2>2. /\ Owned(t)' = Owned(t) \ {<<b, n>>}
        /\ b \in Accounts => <<b, n>> \in Owned(t)
        /\ \A u : u # t => Owned(u)' = Owned(u)
    BY <2>1 DEF Owned
  <2>3. \A l \in Owned(t) : l[1] \in Accounts
    BY DEF Owned
  <2>4. OwnsOne(t, b) => OwnsNone(t)'
    BY <2>2, <2>3 DEF OwnsNone, OwnsOne
  <2>5. ASSUME NEW a, OwnsTwo(t, b, a) PROVE OwnsOne(t, a)'
    <3>1. PICK m, k : <<b, m>> # <<a, k>> /\ Owned(t) = {<<b, m>>, <<a, k>>}
      BY <2>5 DEF OwnsTwo
    <3>2. <<b, n>> \in {<<b, m>>, <<a, k>>}
      BY <2>2, <2>3, <3>1
    <3>3. CASE n = m
      <4>1. Owned(t)' = {<<a, k>>}
        BY <2>2, <3>1, <3>3
      <4>2. QED
        BY <4>1 DEF OwnsOne
    <3>4. CASE n # m
      <4>1. Owned(t)' = {<<a, m>>}
        BY <2>2, <3>1, <3>2, <3>4
      <4>2. QED
        BY <4>1 DEF OwnsOne
    <3>5. QED
      BY <3>3, <3>4
  <2>6. QED
    BY <2>2, <2>4, <2>5
<1>3. QED
  BY <1>1, <1>2

-----------------------------------------------------------------------------
\* The engine's pool is the pool of BufferPoolProofs.
LEMMA SamePool ==
  ASSUME NEW t, NEW a
  PROVE  /\ Pool!Init <=> Slot!Init
         /\ Pool!SemWait(t, a) <=> Slot!SemWait(t, a)
         /\ Pool!SemWake(t) <=> Slot!SemWake(t)
         /\ Pool!StoreSlot(t) <=> Slot!StoreSlot(t)
         /\ Pool!ClearSlot(t, a) <=> Slot!ClearSlot(t, a)
         /\ Pool!SemPost(t) <=> Slot!SemPost(t)
<1> USE DEF Pool!Slots, Slot!Slots, Pool!Uses, Slot!Uses,
            Pool!SlotsOf, Slot!SlotsOf, Pool!FirstOf, Slot!FirstOf,
            Pool!OnFirst, Slot!OnFirst, Pool!counters, Slot!counters
<1>1. Pool!Init <=> Slot!Init
  BY DEF Pool!Init, Slot!Init, Pool!InitialPermits, Slot!InitialPermits
<1>2. Pool!SemWait(t, a) <=> Slot!SemWait(t, a)
  BY DEF Pool!SemWait, Slot!SemWait
<1>3. Pool!SemWake(t) <=> Slot!SemWake(t)
  BY DEF Pool!SemWake, Slot!SemWake
<1>4. Pool!StoreSlot(t) <=> Slot!StoreSlot(t)
  BY DEF Pool!StoreSlot, Slot!StoreSlot
<1>5. Pool!ClearSlot(t, a) <=> Slot!ClearSlot(t, a)
  BY DEF Pool!ClearSlot, Slot!ClearSlot, Pool!Matching, Slot!Matching
<1>6. Pool!SemPost(t) <=> Slot!SemPost(t)
  BY DEF Pool!SemPost, Slot!SemPost
<1>7. QED
  BY <1>1, <1>2, <1>3, <1>4, <1>5, <1>6

\* What the invariant says of a transaction depends on no more than this.
LEMMA OnlyItsOwn ==
  ASSUME NEW u, TransactionInv(u),
         pc'[u] = pc[u], i'[u] = i[u], todo'[u] = todo[u], wanted'[u] = wanted[u],
         doing'[u] = doing[u], status'[u] = status[u],
         call'[u] = call[u], at'[u] = at[u],
         Owned(u)' = Owned(u)
  PROVE  TransactionInv(u)'
<1>1. Op(u)' = Op(u) /\ Needs(Op(u))' = Needs(Op(u))
  BY DEF Op, Needs, B!First, B!Second, B!LockOrder
<1>2. OwnsNone(u)' <=> OwnsNone(u)
  BY DEF OwnsNone
<1>3. ASSUME NEW a PROVE OwnsOne(u, a)' <=> OwnsOne(u, a)
  BY DEF OwnsOne
<1>4. ASSUME NEW a, NEW b PROVE OwnsTwo(u, a, b)' <=> OwnsTwo(u, a, b)
  BY DEF OwnsTwo
<1>5. ASSUME NEW s PROVE OwnsAll(u, s)' <=> OwnsAll(u, s)
  BY <1>3, <1>4 DEF OwnsAll
<1>6. ASSUME NEW s, NEW r, s = Needs(Op(u)), r = todo[u]
      PROVE  /\ LoadsSoFar(u, s, r)' /\ LoadedForCall(u, s)'
             /\ UnloadsSoFar(u, r)'
  <2>1. LoadsSoFar(u, s, r) /\ LoadedForCall(u, s) /\ UnloadsSoFar(u, r)
    BY <1>6 DEF TransactionInv
  <2>2. QED
    BY <1>1, <1>2, <1>3, <1>5, <2>1 DEF LoadsSoFar, LoadedForCall, UnloadsSoFar
<1>7. Progress(u)'
  BY DEF TransactionInv, Progress
<1>8. QED
  BY <1>1, <1>6, <1>7 DEF TransactionInv

\* The next account to load is one of the table's.
LEMMA NextAccount ==
  ASSUME PerTransaction, NEW t \in Transactions, TransactionInv(t), pc[t] \in Loading
  PROVE  Head(todo[t]) \in Accounts
<1>1. Op(t).account \in Accounts /\ Op(t).target \in Accounts
  <2> DEFINE Ops == [type : B!CallTypes, account : Accounts,
                     target : Accounts, amount : B!CInts]
  <2>1. Program[t] \in Seq(Ops)
    BY EngineAssumption
  <2>2. i[t] \in Nat /\ i[t] < Len(Program[t])
    BY DEF PerTransaction, TransactionInv, Progress
  <2> HIDE DEF Ops
  <2>3. Op(t) \in Ops
    BY <2>1, <2>2 DEF Op
  <2>4. QED
    BY <2>3 DEF Ops
<1>2. PICK s, r : s = Needs(Op(t)) /\ r = todo[t]
  OBVIOUS
<1>3. todo[t] = s \/ (Len(s) = 2 /\ todo[t] = Tail(s))
  <2>1. LoadsSoFar(t, s, r)
    BY <1>2 DEF TransactionInv
  <2>2. QED
    BY <1>2, <2>1 DEF LoadsSoFar
<1>4. CASE s = <<Op(t).account>>
  BY <1>1, <1>3, <1>4
<1>5. ASSUME NEW a, NEW b, s = <<a, b>>, {a, b} = {Op(t).account, Op(t).target}
      PROVE  Head(todo[t]) \in Accounts
  BY <1>1, <1>3, <1>5
<1>6. QED
  BY <1>2, <1>4, <1>5, NeedsShape

\* A step of one transaction leaves every other where it is, with its call and
\* with every account it has loaded.
LEMMA OthersUntouched ==
  ASSUME PerTransaction, NEW t \in Transactions, Run(t), TransactionInv(t)
  PROVE  /\ PerTransaction'
         /\ \A u \in Transactions : u # t =>
              /\ pc'[u] = pc[u] /\ i'[u] = i[u] /\ todo'[u] = todo[u]
              /\ wanted'[u] = wanted[u] /\ doing'[u] = doing[u]
              /\ status'[u] = status[u]
              /\ call'[u] = call[u] /\ at'[u] = at[u]
              /\ Owned(u)' = Owned(u)
<1> USE DEF PerTransaction, Goto, poolVars, bankVars
<1>0. ASSUME UNCHANGED claims PROVE \A u : Owned(u)' = Owned(u)
  BY <1>0 DEF Owned
<1>1. CASE Start(t)
  BY <1>1, <1>0 DEF Start
<1>2. CASE BeginOperation(t)
  BY <1>2, <1>0 DEF BeginOperation
<1>3. CASE Commit(t)
  BY <1>3, <1>0 DEF Commit
<1>4. CASE Load(t)
  <2>1. /\ wanted' = [wanted EXCEPT ![t] = Head(todo[t])] /\ UNCHANGED claims
        /\ \E d : doing' = [doing EXCEPT ![t] = d]
    BY <1>4 DEF Load, Pool!SemWait
  <2>2. QED
    BY <1>4, <1>0, <2>1 DEF Load
<1>5. CASE LoadWakes(t)
  BY <1>5, <1>0 DEF LoadWakes, Pool!SemWake, control
<1>6. CASE Loaded(t)
  <2>1. PICK b : b = wanted[t]
    OBVIOUS
  <2>2. b \in Accounts
    BY <1>6, <2>1, NextAccount DEF Loaded, TransactionInv, LoadsSoFar, Loading
  <2>3. \A u : u # t => Owned(u)' = Owned(u)
    BY <1>6, <2>1, <2>2, LoadedAccounts DEF Loaded
  <2>4. /\ wanted' = [wanted EXCEPT ![t] = None]
        /\ doing' = [doing EXCEPT ![t] = "none"]
    BY <1>6 DEF Loaded, Pool!StoreSlot
  <2>5. QED
    BY <1>6, <2>3, <2>4 DEF Loaded
<1>7. CASE CallBank(t)
  BY <1>7, <1>0 DEF CallBank, B!Invoke, B!Goto
<1>8. CASE InBank(t)
  BY <1>8, <1>0, BankStep DEF InBank, control
<1>9. CASE Succeeded(t)
  BY <1>9, <1>0 DEF Succeeded, B!Return, B!Goto
<1>10. CASE Failed(t)
  BY <1>10, <1>0 DEF Failed, B!Return, B!Goto
<1>11. CASE NextTickCame(t)
  BY <1>11, <1>0 DEF NextTickCame
<1>12. CASE Unload(t)
  <2>1. PICK b : b = Head(todo[t])
    OBVIOUS
  <2>2. \A u : u # t => Owned(u)' = Owned(u)
    BY <1>12, <2>1, LoadedAccounts DEF Unload
  <2>3. wanted' = wanted /\ doing' = [doing EXCEPT ![t] = "cleared"]
    BY <1>12 DEF Unload, Pool!ClearSlot
  <2>4. QED
    BY <1>12, <2>2, <2>3 DEF Unload
<1>13. CASE Unloaded(t)
  <2>1. /\ UNCHANGED <<wanted, claims, call, at>>
        /\ doing' = [doing EXCEPT ![t] = "none"]
    BY <1>13 DEF Unloaded, Pool!SemPost
  <2>2. \E x, y, z : /\ pc' = [pc EXCEPT ![t] = x]
                     /\ todo' = [todo EXCEPT ![t] = y]
                     /\ status' = status \/ status' = [status EXCEPT ![t] = z]
    BY <1>13 DEF Unloaded
  <2>3. i' = i \/ i' = [i EXCEPT ![t] = @ + 1]
    BY <1>13 DEF Unloaded
  <2>4. QED
    BY <1>0, <2>1, <2>2, <2>3
<1>14. QED
  BY <1>1, <1>2, <1>3, <1>4, <1>5, <1>6, <1>7, <1>8, <1>9, <1>10, <1>11,
     <1>12, <1>13 DEF Run

-----------------------------------------------------------------------------
\* load_account returned: either the other account of a transfer is next or all
\* of the operation's are loaded (transaction.c 36, 46, 69-70, 89).
LEMMA LoadedStep ==
  ASSUME PerTransaction, NEW t \in Transactions, TransactionInv(t), Loaded(t)
  PROVE  TransactionInv(t)'
<1>0. PICK s, r, b : s = Needs(Op(t)) /\ r = todo[t] /\ b = Head(todo[t])
  OBVIOUS
<1>1. LoadsSoFar(t, s, r) /\ LoadedForCall(t, s) /\ Progress(t)
  BY <1>0 DEF TransactionInv
<1>2. /\ pc[t] = "loading" /\ todo'[t] = Tail(r) /\ doing'[t] = "none"
      /\ pc'[t] = IF Len(r) = 1 THEN "call" ELSE "load"
      /\ i' = i /\ at' = at /\ status' = status
  BY <1>0 DEF Loaded, Goto, PerTransaction, bankVars, Pool!StoreSlot
<1>3. Needs(Op(t))' = s
  BY <1>0, <1>2 DEF Op, Needs, B!First, B!Second, B!LockOrder
<1>4. /\ OwnsNone(t) => OwnsOne(t, b)'
      /\ \A a : OwnsOne(t, a) => OwnsTwo(t, a, b)'
  <2>1. b = wanted[t] /\ b \in Accounts
    BY <1>0, <1>1, <1>2, NextAccount DEF LoadsSoFar, Loading
  <2>2. QED
    BY <2>1, LoadedAccounts DEF Loaded
<1>5. Progress(t)'
  BY <1>1, <1>2 DEF Progress, Loading, Calling, Unloading
<1>6. at'[t] = "idle"
  BY <1>1, <1>2 DEF LoadedForCall
<1>7. \E a : s = <<a>> \/ \E c : s = <<a, c>>
  BY <1>0, NeedsShape
<1>8. LoadsSoFar(t, s, Tail(r))' /\ LoadedForCall(t, s)' /\ UnloadsSoFar(t, Tail(r))'
  <2>1. CASE r = s /\ OwnsNone(t) /\ Len(s) = 1
    <3>1. pc'[t] = "call" /\ OwnsAll(t, s)'
      BY <1>0, <1>2, <1>4, <1>7, <2>1 DEF OwnsAll
    <3>2. QED
      BY <3>1, <1>6 DEF LoadsSoFar, LoadedForCall, UnloadsSoFar, Loading, Calling
  <2>2. CASE r = s /\ OwnsNone(t) /\ Len(s) = 2
    <3>1. pc'[t] = "load" /\ OwnsOne(t, s[1])'
      BY <1>0, <1>2, <1>4, <1>7, <2>2
    <3>2. QED
      BY <2>2, <3>1, <1>6 DEF LoadsSoFar, LoadedForCall, UnloadsSoFar, Loading, Calling
  <2>3. CASE Len(s) = 2 /\ r = Tail(s) /\ OwnsOne(t, s[1])
    <3>1. pc'[t] = "call" /\ b = s[2]
      <4>1. PICK a, c : s = <<a, c>>
        BY <1>7, <2>3
      <4>2. r = <<c>>
        BY <2>3, <4>1
      <4>3. QED
        BY <1>0, <1>2, <4>1, <4>2
    <3>2. OwnsAll(t, s)'
      BY <1>4, <2>3, <3>1 DEF OwnsAll
    <3>3. QED
      BY <3>1, <3>2, <1>6 DEF LoadsSoFar, LoadedForCall, UnloadsSoFar, Loading, Calling
  <2>4. QED
    BY <1>1, <1>2, <1>7, <2>1, <2>2, <2>3 DEF LoadsSoFar, Loading
<1>9. QED
  BY <1>2, <1>3, <1>5, <1>8 DEF TransactionInv

\* The unloads of an operation, after the next tick in reverse order and after
\* a failed call at once: each takes one account off what is loaded
\* (transaction.c 49, 73-74, 109-122).
LEMMA UnloadStep ==
  ASSUME PerTransaction, NEW t \in Transactions, TransactionInv(t),
         Succeeded(t) \/ Failed(t) \/ NextTickCame(t) \/ Unload(t) \/ Unloaded(t)
  PROVE  TransactionInv(t)'
<1> USE DEF PerTransaction, Goto, poolVars, bankVars, Loading, Calling, Unloading
<1>0. PICK s, r : s = Needs(Op(t)) /\ r = todo[t]
  OBVIOUS
<1>1. LoadedForCall(t, s) /\ UnloadsSoFar(t, r) /\ Progress(t)
  BY <1>0 DEF TransactionInv
\* Away from the loads and the call only the unloads are spoken of.
<1>2. ASSUME pc'[t] \notin Loading \cup Calling, at'[t] = "idle", Progress(t)',
             NEW q, q = todo'[t], UnloadsSoFar(t, q)'
      PROVE  TransactionInv(t)'
  BY <1>2 DEF TransactionInv, LoadsSoFar, LoadedForCall
<1>3. pc[t] # "bank" => at[t] = "idle"
  BY <1>1 DEF LoadedForCall
<1>4. ASSUME UNCHANGED claims
      PROVE  /\ OwnsNone(t)' <=> OwnsNone(t)
             /\ \A a : OwnsOne(t, a)' <=> OwnsOne(t, a)
             /\ \A q : OwnsAll(t, q)' <=> OwnsAll(t, q)
  <2>1. Owned(t)' = Owned(t)
    BY <1>4 DEF Owned
  <2>2. QED
    BY <2>1 DEF OwnsNone, OwnsOne, OwnsTwo, OwnsAll
<1>5. CASE Succeeded(t)
  <2>1. /\ pc[t] = "bank" /\ pc'[t] = "await_next" /\ at'[t] = "idle"
        /\ todo'[t] = Reverse(s) /\ UNCHANGED <<i, status, doing, claims>>
    BY <1>0, <1>5 DEF Succeeded, B!Return, B!Goto
  <2>2. OwnsAll(t, Reverse(s))
    <3>1. OwnsAll(t, s)
      BY <1>1, <2>1 DEF LoadedForCall
    <3>2. ASSUME NEW a, s = <<a>> PROVE OwnsAll(t, Reverse(s))
      <4>1. Reverse(s) = <<a>>
        BY <3>2 DEF Reverse
      <4>2. QED
        BY <3>1, <3>2, <4>1
    <3>3. ASSUME NEW a, NEW b, s = <<a, b>> PROVE OwnsAll(t, Reverse(s))
      <4>1. Reverse(s) = <<b, a>>
        BY <3>3 DEF Reverse
      <4>2. OwnsTwo(t, a, b) => OwnsTwo(t, b, a)
        BY DEF OwnsTwo
      <4>3. QED
        BY <3>1, <3>3, <4>1, <4>2 DEF OwnsAll
    <3>4. QED
      BY <1>0, <3>2, <3>3, NeedsShape
  <2>3. PICK q : q = Reverse(s)
    OBVIOUS
  <2>4. UnloadsSoFar(t, q)' /\ Progress(t)'
    BY <1>1, <1>4, <2>1, <2>2, <2>3 DEF UnloadsSoFar, Progress
  <2>5. QED
    BY <1>2, <2>1, <2>3, <2>4
<1>6. CASE Failed(t)
  <2>1. /\ pc[t] = "bank" /\ pc'[t] = "undo" /\ at'[t] = "idle"
        /\ todo'[t] = s /\ UNCHANGED <<i, status, doing, claims>>
    BY <1>0, <1>6 DEF Failed, UndoAll, B!Return, B!Goto
  <2>2. UnloadsSoFar(t, s)' /\ Progress(t)'
    BY <1>1, <1>4, <2>1 DEF LoadedForCall, UnloadsSoFar, Progress
  <2>3. QED
    BY <1>2, <2>1, <2>2
<1>7. CASE NextTickCame(t)
  <2>1. /\ pc[t] = "await_next" /\ pc'[t] = "unload" /\ at'[t] = "idle"
        /\ todo'[t] = r /\ UNCHANGED <<i, status, doing, claims>>
    BY <1>0, <1>3, <1>7 DEF NextTickCame
  <2>2. UnloadsSoFar(t, r)' /\ Progress(t)'
    BY <1>1, <1>4, <2>1 DEF UnloadsSoFar, Progress
  <2>3. QED
    BY <1>2, <2>1, <2>2
<1>8. CASE Unload(t)
  <2>1. PICK b : b = Head(r)
    OBVIOUS
  <2>2. /\ pc[t] \in {"unload", "undo"} /\ pc'[t] \in {"unloading", "undoing"}
        /\ at'[t] = "idle" /\ todo'[t] = r /\ UNCHANGED <<i, status>>
        /\ Pool!ClearSlot(t, b)
    BY <1>0, <1>3, <1>8, <2>1 DEF Unload
  <2>3. OwnsAll(t, r)
    BY <1>1, <2>2 DEF UnloadsSoFar
  <2>4. b = r[1]
    BY <2>1
  <2>5. \/ Len(r) = 1 /\ OwnsNone(t)'
        \/ Len(r) = 2 /\ OwnsOne(t, r[2])'
    BY <2>2, <2>3, <2>4, LoadedAccounts DEF OwnsAll
  <2>6. UnloadsSoFar(t, r)' /\ Progress(t)'
    BY <1>1, <2>2, <2>5 DEF UnloadsSoFar, Progress
  <2>7. QED
    BY <1>2, <2>2, <2>6
<1>9. CASE Unloaded(t)
  <2>1. /\ pc[t] \in {"unloading", "undoing"} /\ at'[t] = "idle"
        /\ todo'[t] = Tail(r) /\ doing'[t] = "none" /\ UNCHANGED claims
    BY <1>0, <1>3, <1>9 DEF Unloaded, Pool!SemPost
  <2>2. PICK q : q = Tail(r)
    OBVIOUS
  <2>3. CASE Len(r) > 1
    <3>1. pc'[t] \in {"unload", "undo"} /\ UNCHANGED <<i, status>>
      BY <1>0, <1>9, <2>3 DEF Unloaded
    <3>2. Len(q) = 1 /\ q[1] = r[2] /\ OwnsOne(t, r[2])
      BY <1>1, <2>1, <2>2, <2>3 DEF UnloadsSoFar
    <3>3. UnloadsSoFar(t, q)' /\ Progress(t)'
      BY <1>1, <1>4, <2>1, <3>1, <3>2 DEF UnloadsSoFar, OwnsAll, Progress
    <3>4. QED
      BY <1>2, <2>1, <2>2, <3>1, <3>3
  <2>4. CASE ~(Len(r) > 1)
    <3>1. \/ pc'[t] = "loop" /\ i'[t] = i[t] + 1 /\ UNCHANGED status
          \/ pc'[t] = "exited" /\ status'[t] = "TX_ABORTED" /\ UNCHANGED i
      BY <1>0, <1>9, <2>4 DEF Unloaded
    <3>2. OwnsNone(t)
      BY <1>1, <2>1, <2>4 DEF UnloadsSoFar
    <3>3. i[t] < Len(Program[t]) /\ i[t] \in Nat /\ Len(Program[t]) \in Nat
      BY <1>1, <2>1, EngineAssumption DEF Progress
    <3>4. UnloadsSoFar(t, q)' /\ Progress(t)'
      BY <1>1, <1>4, <2>1, <3>1, <3>2, <3>3 DEF UnloadsSoFar, Progress
    <3>5. QED
      BY <1>2, <2>1, <2>2, <3>1, <3>4
  <2>5. QED
    BY <2>3, <2>4
<1>10. QED
  BY <1>5, <1>6, <1>7, <1>8, <1>9

\* Every step of a transaction keeps its own part of the invariant.
LEMMA OwnStep ==
  ASSUME PerTransaction, NEW t \in Transactions, Run(t), TransactionInv(t)
  PROVE  TransactionInv(t)'
<1> USE DEF PerTransaction, Goto, poolVars, bankVars, Loading, Calling, Unloading
<1>0. PICK s, r : s = Needs(Op(t)) /\ r = todo[t]
  OBVIOUS
<1>1. /\ LoadsSoFar(t, s, r) /\ LoadedForCall(t, s) /\ UnloadsSoFar(t, r)
      /\ Progress(t)
  BY <1>0 DEF TransactionInv
<1>2. pc[t] # "bank" => at[t] = "idle"
  BY <1>1 DEF LoadedForCall
<1>3. ASSUME UNCHANGED i PROVE Needs(Op(t))' = s /\ Op(t)' = Op(t)
  BY <1>0, <1>3 DEF Op, Needs, B!First, B!Second, B!LockOrder
<1>4. ASSUME UNCHANGED claims
      PROVE  /\ OwnsNone(t)' <=> OwnsNone(t)
             /\ \A a : OwnsOne(t, a)' <=> OwnsOne(t, a)
             /\ \A q : OwnsAll(t, q)' <=> OwnsAll(t, q)
  <2>1. Owned(t)' = Owned(t)
    BY <1>4 DEF Owned
  <2>2. QED
    BY <2>1 DEF OwnsNone, OwnsOne, OwnsTwo, OwnsAll
<1>5. i[t] \in Nat /\ Len(Program[t]) \in Nat
  BY EngineAssumption
\* The rest of the case analysis ends here.
<1>6. ASSUME UNCHANGED i, Progress(t)', NEW q, q = todo'[t],
             LoadsSoFar(t, s, q)', LoadedForCall(t, s)', UnloadsSoFar(t, q)'
      PROVE  TransactionInv(t)'
  BY <1>3, <1>6 DEF TransactionInv
<1> USE DEF LoadsSoFar, LoadedForCall, UnloadsSoFar, Progress
<1>7. CASE Start(t)
  BY <1>7, <1>0, <1>1, <1>2, <1>4, <1>6 DEF Start
<1>8. CASE BeginOperation(t)
  <2>1. /\ pc[t] = "loop" /\ pc'[t] = "load" /\ at'[t] = "idle" /\ todo'[t] = s
        /\ UNCHANGED <<i, claims, status, doing>> /\ i[t] < Len(Program[t])
    BY <1>8, <1>0, <1>2, <1>5 DEF BeginOperation, AllDone
  <2>2. QED
    BY <1>1, <1>4, <1>6, <2>1
<1>9. CASE Commit(t)
  <2>1. /\ pc[t] = "loop" /\ pc'[t] = "exited" /\ at'[t] = "idle" /\ todo'[t] = r
        /\ status'[t] = "TX_COMMITTED" /\ i[t] >= Len(Program[t])
        /\ UNCHANGED <<i, claims, doing>>
    BY <1>9, <1>0, <1>2, <1>5 DEF Commit, AllDone
  <2>2. QED
    BY <1>1, <1>4, <1>6, <2>1
<1>10. CASE Load(t)
  <2>1. /\ pc[t] = "load" /\ pc'[t] = "loading" /\ at'[t] = "idle"
        /\ todo'[t] = r /\ wanted'[t] = Head(r)
        /\ UNCHANGED <<i, claims, status>>
    BY <1>10, <1>0, <1>2 DEF Load, Pool!SemWait
  <2>2. QED
    BY <1>1, <1>4, <1>6, <2>1
<1>11. CASE LoadWakes(t)
  <2>1. /\ pc[t] = "loading"
        /\ UNCHANGED <<pc, i, todo, wanted, claims, call, at, status>>
    BY <1>11 DEF LoadWakes, control, Pool!SemWake
  <2>2. QED
    BY <1>0, <1>1, <1>3, <1>4, <1>6, <2>1
<1>12. CASE CallBank(t)
  <2>1. /\ pc[t] = "call" /\ pc'[t] = "bank" /\ call'[t] = Op(t) /\ todo'[t] = r
        /\ UNCHANGED <<i, claims, status, doing>>
    BY <1>12, <1>0 DEF CallBank, B!Invoke
  <2>2. QED
    BY <1>1, <1>3, <1>4, <1>6, <2>1
<1>13. CASE InBank(t)
  <2>1. /\ pc[t] = "bank"
        /\ UNCHANGED <<pc, i, todo, wanted, claims, call, status, doing>>
    BY <1>13, BankStep DEF InBank, control
  <2>2. QED
    BY <1>0, <1>1, <1>3, <1>4, <1>6, <2>1
<1>14. QED
  BY <1>7, <1>8, <1>9, <1>10, <1>11, <1>12, <1>13, LoadedStep, UnloadStep DEF Run

-----------------------------------------------------------------------------
\* The engine uses the pool as BufferPoolProofs supposes, and a load that finds
\* the pool full is counted: all the permits are then with loads that were done
\* or are about to be, or with unloads of such.
LEMMA PoolStep ==
  ASSUME EngineInv, NEW t \in Transactions, Run(t)
  PROVE  Slot!PoolInv' /\ BlockedCounted'
<1> DEFINE Count(step) == Cardinality(Slot!Doing(step))
<1> USE DEF Goto
<1>a. Slot!PoolAssumption
  BY EngineAssumption DEF Slot!PoolAssumption, Slot!IsFiniteSet, IsFiniteSet
<1>b. \A S : Slot!Cardinality(S) = Cardinality(S)
  BY DEF Slot!Cardinality, Cardinality
<1>c. Slot!PoolInv /\ Slot!Shape /\ TransactionInv(t) /\ PerTransaction
  BY DEF EngineInv, Slot!PoolInv
<1>d. /\ Count("admitted") \in Nat /\ Count("blocked") \in Nat
      /\ Count("cleared") \in Nat
      /\ total_loads \in Nat /\ total_unloads \in Nat /\ empty_slots \in Nat
      /\ PoolSize \in Nat /\ blocked_loads \in Nat
  BY <1>a, <1>b, <1>c, Slot!ThreadCounts, EngineAssumption
     DEF Slot!PoolInv, Slot!Numbers, EngineInv, BlockedCounted
<1>e. ASSUME NEW from, NEW to \in Slot!Steps, doing[t] = from, from # to,
             doing' = [doing EXCEPT ![t] = to]
      PROVE  /\ Count(to)' = Count(to) + 1 /\ Count(from)' = Count(from) - 1
             /\ \A w : w # to /\ w # from => Count(w)' = Count(w)
  BY <1>a, <1>b, <1>c, <1>e, Slot!ThreadMoves
<1>f. ASSUME UNCHANGED <<doing, total_loads, total_unloads, blocked_loads>>
      PROVE  BlockedCounted'
  BY <1>f DEF EngineInv, BlockedCounted, Slot!Doing
<1>g. \/ blocked_loads = 0
      \/ blocked_loads + PoolSize <= total_loads + Count("admitted") + Count("blocked")
  BY <1>d DEF EngineInv, BlockedCounted
<1>h. Count("cleared") <= total_unloads
  BY DEF EngineInv, BlockedCounted
<1>i. ASSUME Count("cleared")' <= total_unloads', blocked_loads' \in Nat,
             blocked_loads' > 0 =>
               blocked_loads' + PoolSize <=
                 total_loads' + Count("admitted")' + Count("blocked")'
      PROVE  BlockedCounted'
  BY <1>i DEF BlockedCounted
<1> HIDE DEF Count
<1>1. CASE Load(t)
  <2>1. PICK a \in Accounts : Pool!SemWait(t, a)
    BY <1>1, <1>c, NextAccount DEF Load, Loading
  <2>2. Slot!SemWait(t, a)
    BY <2>1, SamePool
  <2>3. Slot!PoolInv'
    BY <1>a, <1>c, <2>2, Slot!SemWaitStep
  <2>4. UNCHANGED <<total_loads, total_unloads>>
    BY <2>1 DEF Pool!SemWait, Pool!counters
  <2>5. CASE doing' = [doing EXCEPT ![t] = "admitted"] /\ doing[t] = "none"
    <3>1. /\ Count("admitted")' = Count("admitted") + 1
          /\ UNCHANGED <<Count("cleared"), Count("blocked")>>
      BY <1>e, <2>5 DEF Slot!Steps
    <3>2. doing'[t] = "admitted"
      BY <1>c, <2>5 DEF PerTransaction
    <3>3. blocked_loads' = blocked_loads
      BY <1>1, <1>d, <3>2 DEF Load
    <3>4. QED
      BY <1>d, <1>g, <1>h, <1>i, <2>3, <2>4, <3>1, <3>3
  <2>6. CASE doing' = [doing EXCEPT ![t] = "blocked"] /\ doing[t] = "none" /\ empty_slots = 0
    <3>1. /\ Count("blocked")' = Count("blocked") + 1
          /\ UNCHANGED <<Count("cleared"), Count("admitted")>>
      BY <1>e, <2>6 DEF Slot!Steps
    <3>2. doing'[t] = "blocked"
      BY <1>c, <2>6 DEF PerTransaction
    <3>3. blocked_loads' = blocked_loads + 1
      BY <1>1, <3>2 DEF Load
    <3>4. PoolSize <= total_loads + Count("admitted")
      <4>1. PoolSize = total_loads - total_unloads + Count("admitted") + Count("cleared")
        BY <1>b, <1>c, <1>d, <2>6, <1>a, Slot!SlotCounts
           DEF Slot!PoolInv, Slot!FreeSlots, Slot!Counters, Slot!Numbers, Count
      <4>2. QED
        BY <1>d, <1>h, <4>1
    <3>5. QED
      BY <1>d, <1>g, <1>h, <1>i, <2>3, <2>4, <3>1, <3>3, <3>4
  <2>7. QED
    BY <2>1, <2>5, <2>6 DEF Pool!SemWait
<1>2. CASE LoadWakes(t)
  <2>1. Pool!SemWake(t) /\ Slot!SemWake(t)
    BY <1>2, SamePool DEF LoadWakes
  <2>2. Slot!PoolInv'
    BY <1>a, <1>c, <2>1, Slot!SemWakeStep
  <2>3. /\ doing[t] = "blocked" /\ doing' = [doing EXCEPT ![t] = "admitted"]
        /\ UNCHANGED <<total_loads, total_unloads, blocked_loads>>
    BY <1>2, <2>1 DEF LoadWakes, control, Pool!SemWake, Pool!counters
  <2>4. /\ Count("admitted")' = Count("admitted") + 1
        /\ Count("blocked")' = Count("blocked") - 1
        /\ UNCHANGED Count("cleared")
    BY <1>e, <2>3 DEF Slot!Steps
  <2>5. QED
    BY <1>d, <1>g, <1>h, <1>i, <2>2, <2>3, <2>4
<1>3. CASE Loaded(t)
  <2>1. Pool!StoreSlot(t) /\ Slot!StoreSlot(t)
    BY <1>3, SamePool DEF Loaded
  <2>2. Slot!PoolInv'
    BY <1>a, <1>c, <2>1, Slot!StoreSlotStep
  <2>3. /\ doing[t] = "admitted" /\ doing' = [doing EXCEPT ![t] = "none"]
        /\ total_loads' = total_loads + 1
        /\ UNCHANGED <<total_unloads, blocked_loads>>
    BY <1>3, <2>1 DEF Loaded, Pool!StoreSlot
  <2>4. /\ Count("admitted")' = Count("admitted") - 1
        /\ UNCHANGED <<Count("cleared"), Count("blocked")>>
    BY <1>e, <2>3 DEF Slot!Steps
  <2>5. QED
    BY <1>d, <1>g, <1>h, <1>i, <2>2, <2>3, <2>4
<1>4. CASE Unload(t)
  <2>0. PICK a : Pool!ClearSlot(t, a)
    BY <1>4 DEF Unload
  <2>1. Slot!ClearSlot(t, a)
    BY <2>0, SamePool
  <2>2. a \in Accounts
    BY <1>c, <2>1 DEF Slot!ClearSlot, Slot!FirstOf, Slot!PoolInv, Slot!Shape
  <2>3. Slot!PoolInv'
    BY <1>a, <1>c, <2>1, <2>2, Slot!ClearSlotStep
  <2>4. /\ doing[t] = "none" /\ doing' = [doing EXCEPT ![t] = "cleared"]
        /\ total_unloads' = total_unloads + 1
        /\ UNCHANGED <<total_loads, blocked_loads>>
    BY <1>4, <2>0 DEF Unload, Pool!ClearSlot
  <2>5. /\ Count("cleared")' = Count("cleared") + 1
        /\ UNCHANGED <<Count("admitted"), Count("blocked")>>
    BY <1>e, <2>4 DEF Slot!Steps
  <2>6. QED
    BY <1>d, <1>g, <1>h, <1>i, <2>3, <2>4, <2>5
<1>5. CASE Unloaded(t)
  <2>1. Pool!SemPost(t) /\ Slot!SemPost(t)
    BY <1>5, SamePool DEF Unloaded
  <2>2. Slot!PoolInv'
    BY <1>a, <1>c, <2>1, Slot!SemPostStep
  <2>3. /\ doing[t] = "cleared" /\ doing' = [doing EXCEPT ![t] = "none"]
        /\ UNCHANGED <<total_loads, total_unloads, blocked_loads>>
    BY <1>5, <2>1 DEF Unloaded, Pool!SemPost, Pool!counters
  <2>4. /\ Count("cleared")' = Count("cleared") - 1
        /\ UNCHANGED <<Count("admitted"), Count("blocked")>>
    BY <1>e, <2>3 DEF Slot!Steps
  <2>5. QED
    BY <1>d, <1>g, <1>h, <1>i, <2>2, <2>3, <2>4
\* The other steps do not touch the pool.
<1>6. ASSUME UNCHANGED <<poolVars, blocked_loads>>
      PROVE  Slot!PoolInv' /\ BlockedCounted'
  <2>1. UNCHANGED Slot!poolVars
    BY <1>6 DEF poolVars, Slot!poolVars, Slot!counters
  <2>2. Slot!PoolInv'
    BY <1>a, <1>c, <2>1, Slot!PoolStep
  <2>3. QED
    BY <1>6, <1>f, <2>2 DEF poolVars
<1>7. QED
  BY <1>1, <1>2, <1>3, <1>4, <1>5, <1>6
     DEF Run, Start, BeginOperation, Commit, CallBank, InBank, Succeeded,
         Failed, NextTickCame, control

-----------------------------------------------------------------------------
\* Before main starts the threads nothing is loaded and nobody is in the bank,
\* and every step keeps the invariant.
LEMMA EngineInvariant == Spec => []EngineInv
<1>1. Init => EngineInv
  <2> SUFFICES ASSUME Init PROVE EngineInv
    OBVIOUS
  <2>1. Slot!PoolAssumption
    BY EngineAssumption DEF Slot!PoolAssumption, Slot!IsFiniteSet, IsFiniteSet
  <2>2. Slot!Init
    BY SamePool DEF Init
  <2>3. Slot!PoolInv
    BY <2>1, <2>2, Slot!PoolInit
  <2>4. PerTransaction
    BY DEF Init, Pool!Init, B!Init, PerTransaction
  <2>5. ASSUME NEW t \in Transactions PROVE TransactionInv(t)
    <3>1. /\ pc[t] = "await_start" /\ at[t] = "idle" /\ status[t] = "TX_RUNNING"
          /\ doing[t] = "none" /\ claims = {}
      BY DEF Init, Pool!Init, B!Init
    <3>2. OwnsNone(t)
      BY <3>1 DEF OwnsNone, Owned
    <3>3. QED
      BY <3>1, <3>2 DEF TransactionInv, LoadsSoFar, LoadedForCall, UnloadsSoFar,
           Progress, Loading, Calling, Unloading
  <2>6. AuditedLast
    BY DEF Init, AuditedLast
  <2>7. BlockedCounted
    <3>1. Slot!Doing("cleared") = {}
      BY DEF Init, Pool!Init, Slot!Doing
    <3>2. Cardinality(Slot!Doing("cleared")) = 0
      BY <3>1, FS_EmptySet
    <3>3. total_unloads = 0 /\ blocked_loads = 0
      BY DEF Init, Pool!Init
    <3>4. QED
      BY <3>2, <3>3 DEF BlockedCounted
  <2>8. QED
    BY <2>3, <2>4, <2>5, <2>6, <2>7 DEF EngineInv
<1>2. EngineInv /\ [Next]_vars => EngineInv'
  <2> SUFFICES ASSUME EngineInv, [Next]_vars PROVE EngineInv'
    OBVIOUS
  <2>1. ASSUME NEW t \in Transactions, Run(t) PROVE EngineInv'
    <3>1. PerTransaction /\ TransactionInv(t)
      BY DEF EngineInv
    <3>2. TransactionInv(t)' /\ PerTransaction'
      BY <2>1, <3>1, OwnStep, OthersUntouched
    <3>3. ASSUME NEW u \in Transactions, u # t PROVE TransactionInv(u)'
      <4>1. TransactionInv(u)
        BY DEF EngineInv
      <4>2. QED
        BY <2>1, <3>1, <3>3, <4>1, OthersUntouched, OnlyItsOwn
    <3>4. pc[t] # "exited" /\ main' = main
      BY <2>1, <3>1
         DEF Run, Start, BeginOperation, Commit, Load, LoadWakes, Loaded,
             CallBank, InBank, Succeeded, Failed, NextTickCame, Unload, Unloaded,
             Goto, control
    <3>5. AuditedLast'
      BY <3>4 DEF EngineInv, AuditedLast
    <3>6. QED
      BY <2>1, <3>2, <3>3, <3>5, PoolStep DEF EngineInv
  \* Ticks and the join leave transactions, pool and bank alone.
  <2>2. ASSUME UNCHANGED <<poolVars, bankVars, pc, i, todo, status, blocked_loads>>,
               main' = main \/ \A t \in Transactions : pc[t] = "exited"
        PROVE  EngineInv'
    <3>1. PerTransaction'
      BY <2>2 DEF EngineInv, PerTransaction, poolVars, bankVars
    <3>2. ASSUME NEW u \in Transactions PROVE TransactionInv(u)'
      <4>1. Owned(u)' = Owned(u)
        BY <2>2 DEF poolVars, Owned
      <4>2. TransactionInv(u)
        BY DEF EngineInv
      <4>3. QED
        BY <2>2, <4>1, <4>2, OnlyItsOwn DEF poolVars, bankVars
    <3>3. AuditedLast'
      BY <2>2 DEF EngineInv, AuditedLast
    <3>4. Slot!PoolInv'
      <4>1. Slot!PoolAssumption
        BY EngineAssumption DEF Slot!PoolAssumption, Slot!IsFiniteSet, IsFiniteSet
      <4>2. UNCHANGED Slot!poolVars
        BY <2>2 DEF poolVars, Slot!poolVars, Slot!counters
      <4>3. QED
        BY <4>1, <4>2, Slot!PoolStep DEF EngineInv
    <3>5. BlockedCounted'
      BY <2>2 DEF EngineInv, BlockedCounted, poolVars, Slot!Doing
    <3>6. QED
      BY <3>1, <3>2, <3>3, <3>4, <3>5 DEF EngineInv
  <2>3. QED
    BY <2>1, <2>2 DEF Next, Tick, JoinAll, vars, control
<1>3. QED
  BY <1>1, <1>2, PTL DEF Spec

\* A bank call runs only on accounts that its transaction has in the pool,
\* however its steps interleave with the loads, unloads and aborts of others
\* (transaction.c 36-37, 46-48, 69-72, 89-90).
THEOREM CallsOnLoadedAccounts == Spec => []AccountsLoaded
<1>1. EngineInv => AccountsLoaded
  <2> SUFFICES ASSUME EngineInv, NEW t \in Transactions, at[t] # "idle",
                      NEW a \in {call[t].account} \cup
                        (IF call[t].type = "transfer" THEN {call[t].target} ELSE {})
               PROVE  Pool!Holding(t, a)
    BY DEF AccountsLoaded
  <2>1. PICK s, r : s = Needs(Op(t)) /\ r = todo[t]
    OBVIOUS
  <2>2. LoadedForCall(t, s)
    BY <2>1 DEF EngineInv, TransactionInv
  <2>3. call[t] = Op(t) /\ OwnsAll(t, s)
    BY <2>2 DEF LoadedForCall, Calling
  <2>4. ASSUME NEW b, \E n : <<b, n>> \in Owned(t)
        PROVE  Pool!Holding(t, b)
    BY <2>4 DEF Owned, Pool!Holding
  <2>5. CASE s = <<Op(t).account>> /\ Op(t).type # "transfer"
    <3>1. a = s[1] /\ Len(s) = 1
      BY <2>3, <2>5
    <3>2. OwnsOne(t, a)
      BY <2>3, <3>1 DEF OwnsAll
    <3>3. QED
      BY <2>4, <3>2 DEF OwnsOne
  <2>6. ASSUME NEW b, NEW c, s = <<b, c>>, {b, c} = {Op(t).account, Op(t).target}
        PROVE  Pool!Holding(t, a)
    <3>1. s[1] = b /\ s[2] = c /\ Len(s) = 2
      BY <2>6
    <3>2. OwnsTwo(t, b, c)
      BY <2>3, <3>1 DEF OwnsAll
    <3>3. a = b \/ a = c
      BY <2>3, <2>6
    <3>4. QED
      BY <2>4, <3>2, <3>3 DEF OwnsTwo
  <2>7. QED
    BY <2>1, <2>5, <2>6, NeedsShape
<1>2. QED
  BY EngineInvariant, <1>1, PTL

\* When main reports, every slot has been given back, whether its transaction
\* committed or aborted, and the committed are those that ran all of their
\* operations (transaction.c 49, 73-74, 113-119; metrics.c 38-42).
THEOREM ShutdownIsClean == Spec => [](PoolReturned /\ CommittedDidAll)
<1>1. EngineInv => PoolReturned /\ CommittedDidAll
  <2> SUFFICES ASSUME EngineInv, main = "audited"
               PROVE  /\ empty_slots = PoolSize /\ Pool!InUse = {} /\ claims = {}
                      /\ total_loads = total_unloads
                      /\ \A t \in Transactions : t \in Aborted <=> i[t] < Len(Program[t])
    BY DEF PoolReturned, CommittedDidAll
  <2>1. ASSUME NEW t \in Transactions
        PROVE  /\ pc[t] = "exited" /\ doing[t] = "none" /\ Owned(t) = {}
               /\ status[t] = "TX_COMMITTED" <=> i[t] >= Len(Program[t])
    <3>1. pc[t] = "exited"
      BY DEF EngineInv, AuditedLast
    <3>2. PICK s, r : s = Needs(Op(t)) /\ r = todo[t]
      OBVIOUS
    <3>3. UnloadsSoFar(t, r) /\ Progress(t)
      BY <3>2 DEF EngineInv, TransactionInv
    <3>4. QED
      BY <3>1, <3>3 DEF UnloadsSoFar, Progress, OwnsNone
  <2>2. \A t \in Transactions : t \in Aborted <=> i[t] < Len(Program[t])
    <3>1. \A t \in Transactions : i[t] \in Nat /\ Len(Program[t]) \in Nat
      BY EngineAssumption DEF EngineInv, PerTransaction
    <3>2. QED
      BY <2>1, <3>1 DEF Aborted, Committed
  <2>3. claims = {}
    <3>1. claims \subseteq Transactions \X Accounts \X Pool!Uses
      BY DEF EngineInv, Slot!PoolInv, Slot!Shape, Slot!Uses, Pool!Uses
    <3>2. ASSUME NEW t \in Transactions, NEW a \in Accounts, NEW n \in Pool!Uses
          PROVE  <<t, a, n>> \notin claims
      <4>1. <<a, n>> \notin Owned(t)
        BY <2>1
      <4>2. QED
        BY <4>1 DEF Owned
    <3>3. QED
      BY <3>1, <3>2
  <2>4. Slot!PoolAssumption
    BY EngineAssumption DEF Slot!PoolAssumption, Slot!IsFiniteSet, IsFiniteSet
  <2>5. \A S : Slot!Cardinality(S) = Cardinality(S)
    BY DEF Slot!Cardinality, Cardinality
  <2>6. Slot!Doing("admitted") = {} /\ Slot!Doing("cleared") = {}
    BY <2>1 DEF Slot!Doing
  <2>7. Cardinality({}) = 0
    BY FS_EmptySet
  <2>8. current_usage = 0
    BY <2>3, <2>5, <2>7 DEF EngineInv, Slot!PoolInv, Slot!Claimed
  <2>9. /\ Cardinality(Slot!SlotsOf(None)) = PoolSize
        /\ Cardinality(Slot!SlotsOf(None)) = empty_slots
        /\ total_loads = total_unloads
    <3>1. /\ total_loads \in Nat /\ total_unloads \in Nat /\ empty_slots \in Nat
          /\ PoolSize \in Nat /\ Cardinality(Slot!SlotsOf(None)) \in Nat
      BY <2>4, <2>5, Slot!SlotCounts, EngineAssumption
         DEF EngineInv, Slot!PoolInv, Slot!Numbers
    <3>2. /\ current_usage + Cardinality(Slot!SlotsOf(None)) = PoolSize
          /\ current_usage = total_loads - total_unloads
      BY <2>5 DEF EngineInv, Slot!PoolInv, Slot!Counters
    <3>3. Cardinality(Slot!SlotsOf(None)) = empty_slots + 0 + 0
      BY <2>5, <2>6, <2>7 DEF EngineInv, Slot!PoolInv, Slot!FreeSlots
    <3>4. QED
      BY <2>8, <3>1, <3>2, <3>3
  <2>10. Pool!InUse = {}
    <3>1. Cardinality(Slot!InUse) = 0 /\ IsFiniteSet(Slot!InUse)
      <4>1. Slot!PoolInv
        BY DEF EngineInv
      <4>2. Slot!Cardinality(Slot!InUse) = PoolSize - Slot!Cardinality(Slot!SlotsOf(None))
        BY <2>4, <4>1, Slot!InUseCount
      <4>3. Cardinality(Slot!InUse) = 0
        BY <2>5, <2>9, <4>2, EngineAssumption
      <4>4. IsFiniteSet(Slot!InUse)
        <5>1. IsFiniteSet(Slot!Slots)
          BY EngineAssumption, FS_Interval DEF Slot!Slots
        <5>2. QED
          BY <5>1, FS_Subset DEF Slot!InUse
      <4>5. QED
        BY <4>3, <4>4
    <3>2. Slot!InUse = {}
      BY <3>1, FS_EmptySet
    <3>3. QED
      BY <3>2 DEF Slot!InUse, Pool!InUse, Slot!Slots, Pool!Slots
  <2>11. QED
    BY <2>2, <2>3, <2>9, <2>10
<1>2. QED
  BY EngineInvariant, <1>1, PTL

\* The report never understates how often a load had to wait for a slot
\* (metrics.c 57-58).
THEOREM ReportedBlockedEnough == Spec => []BlockedNotUnderstated
<1>1. EngineInv => BlockedNotUnderstated
  <2> SUFFICES ASSUME EngineInv, main = "audited"
               PROVE  blocked_loads <= BlockedOperations
    BY DEF BlockedNotUnderstated
  <2>1. ASSUME NEW t \in Transactions PROVE doing[t] = "none"
    <3>1. pc[t] = "exited" /\ Progress(t)
      BY DEF EngineInv, AuditedLast, TransactionInv
    <3>2. QED
      BY <3>1 DEF Progress
  <2>2. Slot!Doing("admitted") = {} /\ Slot!Doing("blocked") = {}
    BY <2>1 DEF Slot!Doing
  <2>3. total_loads \in Nat /\ PoolSize \in Nat /\ blocked_loads \in Nat
    BY EngineAssumption DEF EngineInv, Slot!PoolInv, Slot!Numbers, BlockedCounted
  <2>4. blocked_loads = 0 \/ blocked_loads + PoolSize <= total_loads
    BY <2>2, <2>3, FS_EmptySet DEF EngineInv, BlockedCounted
  <2>5. QED
    BY <2>3, <2>4 DEF BlockedOperations
<1>2. QED
  BY EngineInvariant, <1>1, PTL

-----------------------------------------------------------------------------
(* The books *)

\* The calls of the bank are the operations of the program.
AllOps == UNION {OpsOf(t) : t \in Transactions}

\* The lemmas about the bank, for the transactions as its threads.
Books == INSTANCE BankProofs WITH Threads <- Transactions, MaxCalls <- MaxOps,
                                  Calls <- AllOps

-----------------------------------------------------------------------------
\* The engine's bank is the bank of BankProofs.
LEMMA SameBank ==
  ASSUME NEW t, NEW c
  PROVE  /\ B!Init <=> Books!Init
         /\ B!Invoke(t, c) <=> Books!Invoke(t, c)
         /\ B!Step(t) <=> Books!Step(t)
         /\ B!Return(t) <=> Books!Return(t)
<1> USE DEF B!Goto, Books!Goto, B!money, Books!money, B!locks, Books!locks
<1>1. B!Init <=> Books!Init
  BY DEF B!Init, Books!Init
<1>2. B!Invoke(t, c) <=> Books!Invoke(t, c)
  BY DEF B!Invoke, Books!Invoke
<1>3. B!Return(t) <=> Books!Return(t)
  BY DEF B!Return, Books!Return
<1>4. B!SkipSelfTransfer(t) <=> Books!SkipSelfTransfer(t)
  BY DEF B!SkipSelfTransfer, Books!SkipSelfTransfer
<1>5. /\ B!First(call[t]) = Books!First(call[t])
      /\ B!Second(call[t]) = Books!Second(call[t])
  BY DEF B!First, Books!First, B!Second, Books!Second, B!LockOrder, Books!LockOrder
<1>6. B!AcquireRead(t) <=> Books!AcquireRead(t)
  BY DEF B!AcquireRead, Books!AcquireRead, B!Readable, Books!Readable
<1>7. B!AcquireWrite(t) <=> Books!AcquireWrite(t)
  BY DEF B!AcquireWrite, Books!AcquireWrite, B!Free, Books!Free
<1>8. B!AcquireFirst(t) <=> Books!AcquireFirst(t)
  BY <1>5 DEF B!AcquireFirst, Books!AcquireFirst, B!Free, Books!Free
<1>9. B!AcquireSecond(t) <=> Books!AcquireSecond(t)
  BY <1>5 DEF B!AcquireSecond, Books!AcquireSecond, B!Free, Books!Free
<1>10. B!ApplyDeposit(t) <=> Books!ApplyDeposit(t)
  BY DEF B!ApplyDeposit, Books!ApplyDeposit, B!CInt, Books!CInt
<1>11. B!ApplyWithdraw(t) <=> Books!ApplyWithdraw(t)
  BY DEF B!ApplyWithdraw, Books!ApplyWithdraw, B!CInt, Books!CInt,
         B!Insufficient, Books!Insufficient
<1>12. B!ReadBalance(t) <=> Books!ReadBalance(t)
  BY DEF B!ReadBalance, Books!ReadBalance
<1>13. B!Debit(t) <=> Books!Debit(t)
  BY DEF B!Debit, Books!Debit, B!CInt, Books!CInt, B!Insufficient, Books!Insufficient
<1>14. B!Credit(t) <=> Books!Credit(t)
  BY DEF B!Credit, Books!Credit, B!CInt, Books!CInt
<1>15. B!ReleaseSecond(t) <=> Books!ReleaseSecond(t)
  BY <1>5 DEF B!ReleaseSecond, Books!ReleaseSecond
<1>16. B!ReleaseFirst(t) <=> Books!ReleaseFirst(t)
  BY <1>5 DEF B!ReleaseFirst, Books!ReleaseFirst, B!OwesReserve, Books!OwesReserve
<1>17. B!SettleReserve(t) <=> Books!SettleReserve(t)
  BY DEF B!SettleReserve, Books!SettleReserve
<1>18. B!Step(t) <=> Books!Step(t)
  BY <1>4, <1>6, <1>7, <1>8, <1>9, <1>10, <1>11, <1>12, <1>13, <1>14, <1>15,
     <1>16, <1>17 DEF B!Step, Books!Step
<1>19. QED
  BY <1>1, <1>2, <1>3, <1>18

\* What the engine assumes of its constants is what the bank assumes.
LEMMA BooksAssumption == Books!BankAssumption
<1>1. \A S : Books!IsFiniteSet(S) <=> IsFiniteSet(S)
  BY DEF Books!IsFiniteSet, IsFiniteSet
<1>2. Books!CInts = B!CInts /\ Books!CallTypes = B!CallTypes
  BY DEF Books!CInts, B!CInts, Books!CallTypes, B!CallTypes
<1>3. AllOps \subseteq [type : B!CallTypes, account : Accounts,
                        target : Accounts, amount : B!CInts]
  <2> DEFINE Ops == [type : B!CallTypes, account : Accounts,
                     target : Accounts, amount : B!CInts]
  <2>1. SUFFICES ASSUME NEW t \in Transactions, NEW op \in OpsOf(t) PROVE op \in Ops
    BY DEF AllOps
  <2>2. Program[t] \in Seq(Ops)
    BY EngineAssumption
  <2> HIDE DEF Ops
  <2>3. QED
    BY <2>1, <2>2 DEF OpsOf, ToSet
<1>4. None \notin AllOps
  BY EngineAssumption DEF AllOps
<1>5. MaxOps \in Nat
  BY DEF MaxOps
<1>6. QED
  BY <1>1, <1>2, <1>3, <1>4, <1>5, EngineAssumption DEF Books!BankAssumption

\* Both add up the same balances.
LEMMA SameTotal == \A f : B!Total(f) = Books!Total(f)
BY DEF B!Total, Books!Total, B!SumFunctionOnSet, Books!SumFunctionOnSet,
       B!FoldFunctionOnSet, Books!FoldFunctionOnSet,
       B!MapThenFoldSet, Books!MapThenFoldSet

-----------------------------------------------------------------------------
\* One call of the bank per operation: it counts as served from its return,
\* the operation as done when its accounts are unloaded.
CallPerOperation(t) ==
  /\ served[t] \in Nat /\ served[t] <= Len(Program[t])
  /\ pc[t] \in {"await_start", "loop"} \cup Loading \cup Calling => served[t] = i[t]
  /\ pc[t] \in Unloading => served[t] = i[t] + 1

BooksInv ==
  /\ Books!TypeOK /\ Books!LockInv
  /\ \A t \in Transactions : CallPerOperation(t)

\* How a step of the engine moves the bank: by a step of one call, or not at
\* all (transaction.c 36-49, 69-74, 89-90).
LEMMA EngineMovesBank ==
  ASSUME EngineInv, BooksInv, [Next]_vars
  PROVE  \/ \E t \in Transactions :
              \/ Books!Step(t) \/ Books!Return(t)
              \/ \E c \in AllOps : served[t] < MaxOps /\ Books!Invoke(t, c)
         \/ UNCHANGED bankVars
<1>1. ASSUME NEW t \in Transactions, CallBank(t)
      PROVE  \E c \in AllOps : served[t] < MaxOps /\ Books!Invoke(t, c)
  <2>1. /\ i[t] \in Nat /\ i[t] < Len(Program[t]) /\ pc[t] = "call"
        /\ Len(Program[t]) <= MaxOps /\ served[t] = i[t]
    BY <1>1, EngineAssumption
    DEF CallBank, Goto, EngineInv, PerTransaction, TransactionInv, Progress,
        BooksInv, CallPerOperation, Calling
  <2>2. Op(t) \in AllOps
    <3>1. i[t] + 1 \in DOMAIN Program[t]
      <4>1. Program[t] \in Seq([type : B!CallTypes, account : Accounts,
                                target : Accounts, amount : B!CInts])
        BY EngineAssumption
      <4>2. QED
        BY <2>1, <4>1
    <3>2. QED
      BY <3>1 DEF Op, AllOps, OpsOf, ToSet
  <2>3. Books!Invoke(t, Op(t))
    BY <1>1, SameBank DEF CallBank
  <2>4. served[t] < MaxOps
    BY <2>1 DEF MaxOps, BooksInv, CallPerOperation
  <2>5. QED
    BY <2>2, <2>3, <2>4
<1>2. ASSUME NEW t \in Transactions, InBank(t) PROVE Books!Step(t)
  BY <1>2, SameBank DEF InBank
<1>3. ASSUME NEW t \in Transactions, Succeeded(t) \/ Failed(t) PROVE Books!Return(t)
  BY <1>3, SameBank DEF Succeeded, Failed
<1>4. ASSUME NEW t \in Transactions,
             \/ Start(t) \/ BeginOperation(t) \/ Commit(t) \/ Load(t)
             \/ LoadWakes(t) \/ Loaded(t) \/ NextTickCame(t) \/ Unload(t)
             \/ Unloaded(t)
      PROVE  UNCHANGED bankVars
  BY <1>4 DEF Start, BeginOperation, Commit, Load, LoadWakes, Loaded,
              NextTickCame, Unload, Unloaded
<1>5. CASE Tick \/ JoinAll \/ UNCHANGED vars
  BY <1>5 DEF Tick, JoinAll, vars
<1>6. QED
  BY <1>1, <1>2, <1>3, <1>4, <1>5 DEF Next, Run

\* Only a return from the bank counts a call.
LEMMA ReturnCounts ==
  ASSUME NEW t, NEW c
  PROVE  /\ B!Step(t) \/ B!Invoke(t, c) => served' = served
         /\ B!Return(t) => served' = [served EXCEPT ![t] = @ + 1]
BY DEF B!Step, B!Invoke, B!Return, B!SkipSelfTransfer, B!AcquireRead,
       B!AcquireWrite, B!AcquireFirst, B!AcquireSecond, B!ApplyDeposit,
       B!ApplyWithdraw, B!ReadBalance, B!Debit, B!Credit, B!ReleaseSecond,
       B!ReleaseFirst, B!SettleReserve

\* Calls and operations stay in step.
LEMMA CallsCountOperations ==
  ASSUME EngineInv, BooksInv, [Next]_vars, NEW u \in Transactions
  PROVE  CallPerOperation(u)'
<1> USE DEF Goto, Loading, Calling, Unloading
<1>1. /\ i[u] \in Nat /\ DOMAIN pc = Transactions /\ i \in [Transactions -> Nat]
      /\ DOMAIN served = Transactions /\ Len(Program[u]) \in Nat
      /\ pc[u] = "bank" => i[u] < Len(Program[u])
      /\ CallPerOperation(u)
  BY EngineAssumption DEF EngineInv, PerTransaction, TransactionInv, Progress,
                          BooksInv, Books!TypeOK
<1>2. ASSUME pc'[u] = pc[u], i'[u] = i[u], served'[u] = served[u]
      PROVE  CallPerOperation(u)'
  BY <1>1, <1>2 DEF CallPerOperation
<1>3. ASSUME NEW t \in Transactions, Run(t), t # u PROVE CallPerOperation(u)'
  <2>1. pc'[u] = pc[u] /\ i'[u] = i[u]
    BY <1>3, OthersUntouched DEF EngineInv
  <2>2. served'[u] = served[u]
    BY <1>1, <1>3, ReturnCounts
    DEF Run, Start, BeginOperation, Commit, Load, LoadWakes, Loaded, CallBank,
        InBank, Succeeded, Failed, NextTickCame, Unload, Unloaded, bankVars
  <2>3. QED
    BY <1>2, <2>1, <2>2
<1>4. CASE Start(u) \/ BeginOperation(u) \/ Commit(u) \/ Load(u) \/ Loaded(u)
           \/ NextTickCame(u) \/ Unload(u)
  BY <1>1, <1>4
  DEF CallPerOperation, Start, BeginOperation, Commit, Load, Loaded,
      NextTickCame, Unload, bankVars
<1>5. CASE LoadWakes(u)
  BY <1>2, <1>5 DEF LoadWakes, bankVars, control
<1>6. CASE CallBank(u)
  BY <1>1, <1>6, ReturnCounts DEF CallPerOperation, CallBank
<1>7. CASE InBank(u)
  BY <1>2, <1>7, ReturnCounts DEF InBank, control
<1>8. CASE Succeeded(u) \/ Failed(u)
  <2>1. /\ pc[u] = "bank" /\ pc'[u] \in {"await_next", "undo"}
        /\ i' = i /\ served' = [served EXCEPT ![u] = @ + 1]
    BY <1>1, <1>8, ReturnCounts DEF Succeeded, Failed
  <2>2. QED
    BY <1>1, <2>1 DEF CallPerOperation
<1>9. CASE Unloaded(u)
  BY <1>1, <1>9 DEF CallPerOperation, Unloaded, bankVars
<1>10. CASE Tick \/ JoinAll \/ UNCHANGED vars
  BY <1>2, <1>10 DEF Tick, JoinAll, vars, bankVars, control
<1>11. QED
  BY <1>3, <1>4, <1>5, <1>6, <1>7, <1>8, <1>9, <1>10 DEF Next, Run

\* The bank's invariants hold in the engine.
LEMMA BooksInvariant == Spec => [](EngineInv /\ BooksInv)
<1>1. Init => BooksInv
  <2> SUFFICES ASSUME Init PROVE BooksInv
    OBVIOUS
  <2>1. Books!TypeOK /\ Books!LockInv
    BY BooksAssumption, SameBank, Books!InitLockInv DEF Init
  <2>2. ASSUME NEW t \in Transactions PROVE CallPerOperation(t)
    <3>1. pc[t] = "await_start" /\ i[t] = 0 /\ served[t] = 0
      BY DEF Init, B!Init
    <3>2. Len(Program[t]) \in Nat
      BY EngineAssumption
    <3>3. QED
      BY <3>1, <3>2 DEF CallPerOperation, Unloading
  <2>3. QED
    BY <2>1, <2>2 DEF BooksInv
<1>2. EngineInv /\ BooksInv /\ [Next]_vars => BooksInv'
  <2> SUFFICES ASSUME EngineInv, BooksInv, [Next]_vars PROVE BooksInv'
    OBVIOUS
  <2>1. ASSUME NEW t \in Transactions, Books!CallStep(t)
        PROVE  Books!TypeOK' /\ Books!LockInv'
    BY <2>1, BooksAssumption, Books!TypeStep, Books!LockStep DEF BooksInv
  <2>2. CASE UNCHANGED bankVars
    <3>1. UNCHANGED Books!vars
      BY <2>2 DEF bankVars, Books!vars, Books!money, Books!locks, Books!thread
    <3>2. QED
      BY <3>1, BooksAssumption, Books!LockUnchanged, CallsCountOperations DEF BooksInv
  <2>3. QED
    BY <2>1, <2>2, EngineMovesBank, CallsCountOperations DEF BooksInv, Books!CallStep
<1>3. QED
  BY EngineInvariant, <1>1, <1>2, PTL DEF Spec

-----------------------------------------------------------------------------
\* Once every transaction has exited nothing is in flight in the bank, so the
\* total main() audits is the whole of the money.
LEMMA NothingInFlight ==
  ASSUME EngineInv, BooksInv, main = "audited",
         Books!GrandTotal = Books!Total(InitialBalance)
  PROVE  reserve + B!Total(balance) = B!Total(InitialBalance)
<1>1. \A t \in Transactions : at[t] = "idle"
  <2>1. ASSUME NEW t \in Transactions PROVE at[t] = "idle"
    <3>1. pc[t] = "exited"
      BY DEF EngineInv, AuditedLast
    <3>2. PICK s : s = Needs(Op(t))
      OBVIOUS
    <3>3. LoadedForCall(t, s)
      BY <3>2 DEF EngineInv, TransactionInv
    <3>4. QED
      BY <3>1, <3>3 DEF LoadedForCall
  <2>2. QED
    BY <2>1
<1>2. \A t \in Transactions : Books!ToReserve[t] = 0 /\ Books!ToTarget[t] = 0
  BY <1>1 DEF Books!ToReserve, Books!ToTarget, Books!OwedToReserve, Books!OwedToTarget
<1>3. Books!IsFiniteSet(Transactions)
  BY EngineAssumption DEF Books!IsFiniteSet, IsFiniteSet
<1>4. /\ Books!SumFunctionOnSet(Books!ToReserve, Transactions) = 0
      /\ Books!SumFunctionOnSet(Books!ToTarget, Transactions) = 0
  BY <1>2, <1>3, BooksAssumption, Books!SumZero
<1>5. reserve \in Int /\ Books!Total(balance) \in Int
  <2>1. \A a \in Accounts : balance[a] \in Int
    BY EngineAssumption DEF BooksInv, Books!TypeOK, Books!CInts
  <2>2. Books!IsFiniteSet(Accounts)
    BY EngineAssumption DEF Books!IsFiniteSet, IsFiniteSet
  <2>3. Books!SumFunctionOnSet(balance, Accounts) \in Int
    BY <2>1, <2>2, BooksAssumption, Books!SumSplit
  <2>4. QED
    BY <2>3 DEF BooksInv, Books!TypeOK, Books!Total
<1>6. reserve + Books!Total(balance) = Books!Total(InitialBalance)
  BY <1>4, <1>5 DEF Books!GrandTotal
<1>7. QED
  BY <1>6, SameTotal

\* A step of the engine moves money as a step of the bank does: nowhere, if no
\* balance overflows.
LEMMA EngineMoney ==
  ASSUME EngineInv, BooksInv, BooksInv', [Next]_vars, Books!NoOverflow
  PROVE  Books!GrandTotal' = Books!GrandTotal
<1>1. ASSUME NEW t \in Transactions, Books!CallStep(t)
      PROVE  Books!GrandTotal' = Books!GrandTotal
  <2>1. SUFFICES ASSUME NEW n \in Int, Books!NoOverflow => n = 0,
                        Books!GrandTotal \in Int,
                        Books!GrandTotal' = Books!GrandTotal + n * Books!Modulus
                 PROVE  Books!GrandTotal' = Books!GrandTotal
    BY <1>1, BooksAssumption, Books!MoneyStep DEF BooksInv
  <2>2. n = 0 /\ Books!Modulus \in Int
    BY <2>1, EngineAssumption DEF Books!Modulus
  <2>3. QED
    BY <2>1, <2>2
<1>2. CASE UNCHANGED bankVars
  <2>1. UNCHANGED Books!vars
    BY <1>2 DEF bankVars, Books!vars, Books!money, Books!locks, Books!thread
  <2>2. QED
    BY <2>1, BooksAssumption, Books!UnchangedMoney
<1>3. QED
  BY <1>1, <1>2, EngineMovesBank DEF Books!CallStep

\* When main() audits the bank the books balance, whatever the transactions
\* did and however many of them aborted half-way, as long as no balance
\* overflowed an int on the way (main.c 56-65).
THEOREM BooksBalance == Spec /\ []Books!NoOverflow => []CleanShutdown
<1> DEFINE Conserved == Books!GrandTotal = Books!Total(InitialBalance)
<1>1. Init => Conserved
  BY BooksAssumption, SameBank, Books!InitMoney DEF Init
<1>2. EngineInv /\ BooksInv /\ BooksInv' /\ [Next]_vars /\ Books!NoOverflow /\ Conserved
        => Conserved'
  BY EngineMoney
<1>3. EngineInv /\ BooksInv /\ Conserved /\ PoolReturned /\ CommittedDidAll
        => CleanShutdown
  BY NothingInFlight DEF CleanShutdown
<1> HIDE DEF Conserved
<1>4. QED
  BY BooksInvariant, ShutdownIsClean, <1>1, <1>2, <1>3, PTL DEF Spec

\* With accounts and amounts that leave room for every operation of every
\* transaction none does, so the audit passes, and no account is ever overdrawn.
THEOREM AuditPasses ==
  ASSUME Books!NoDebts, NEW m \in Nat, Books!FitsInt(m)
  PROVE  Spec => []CleanShutdown /\ []Books!NoOverdraft
<1> DEFINE Room == Books!RoomInv(m)
<1>1. Init => Room
  BY BooksAssumption, SameBank, Books!RoomInit DEF Init
<1>2. EngineInv /\ BooksInv /\ BooksInv' /\ Room /\ [Next]_vars => Room'
  <2> SUFFICES ASSUME EngineInv, BooksInv, BooksInv', Room, [Next]_vars PROVE Room'
    OBVIOUS
  <2>1. ASSUME NEW t \in Transactions,
               \/ Books!Step(t) \/ Books!Return(t)
               \/ \E c \in AllOps : served[t] < MaxOps /\ Books!Invoke(t, c)
        PROVE  Room'
    BY <2>1, BooksAssumption, Books!RoomStep DEF BooksInv
  <2>2. CASE UNCHANGED bankVars
    <3>1. UNCHANGED Books!vars
      BY <2>2 DEF bankVars, Books!vars, Books!money, Books!locks, Books!thread
    <3>2. QED
      BY <3>1, BooksAssumption, Books!RoomUnchanged
  <2>3. QED
    BY <2>1, <2>2, EngineMovesBank
<1>3. BooksInv /\ Room => Books!NoOverflow
  BY BooksAssumption, Books!RoomNoOverflow DEF BooksInv
<1>4. Room => Books!NoOverdraft
  BY DEF Books!RoomInv
<1> HIDE DEF Room
<1>5. QED
  BY BooksInvariant, BooksBalance, <1>1, <1>2, <1>3, <1>4, PTL DEF Spec
=============================================================================
