----------------------------- MODULE BankEngine -----------------------------
(***************************************************************************)
(* lab_3: transaction threads (transaction.c) that load the accounts of an *)
(* operation into the buffer pool (BufferPool), call the bank (Bank), hold *)
(* the accounts until the next tick, unload them, and main() (main.c) that *)
(* starts them, joins them and audits the bank.                            *)
(*                                                                         *)
(* The actions of Bank and BufferPool are used as they are; this module    *)
(* adds the control of execute_transaction around them.  Time is kept as   *)
(* the ticks still due to each thread, target - global_tick of TickClock:  *)
(* wait_until_tick returns when none is due.                               *)
(***************************************************************************)
EXTENDS Integers, FiniteSets, Sequences, SequencesExt

CONSTANTS
  Transactions,    \* one thread each
  Accounts,
  Program,         \* [Transactions -> Seq(bank calls)]: ops of a transaction
  StartTick,       \* [Transactions -> Nat]
  InitialBalance, IntMax, PoolSize,
  None

VARIABLES
  \* buffer_pool.c
  slots, empty_slots, total_loads, total_unloads, current_usage, peak_usage,
  doing, wanted, claims,
  \* bank.c
  balance, reserve, writer, readers, call, at, ok, read, served,
  \* transaction.c, timer.c and main.c
  pc,       \* where execute_transaction is
  i,        \* operations completed
  todo,     \* accounts still to load or to unload for this operation
  status,   \* tx->status
  due,      \* ticks until wait_until_tick returns
  main,     \* "joining", then "audited"
  blocked_loads   \* history: calls of load_account that found the pool full

OpsOf(t) == ToSet(Program[t])

Pool == INSTANCE BufferPool WITH Threads <- Transactions, MaxLoads <- 0
B    == INSTANCE Bank WITH Threads <- Transactions, MaxCalls <- 0,
                           Calls <- UNION {OpsOf(t) : t \in Transactions}

\* The room for operations in a transaction.
MaxOps == 256

\* Operations name accounts of the table (see TraceParser), balances and amounts
\* are C ints.
ASSUME EngineAssumption ==
  /\ IsFiniteSet(Transactions) /\ IsFiniteSet(Accounts)
  /\ PoolSize \in Nat \ {0}
  /\ IntMax \in Nat
  /\ Accounts \subseteq Nat
  /\ InitialBalance \in [Accounts -> B!CInts]
  /\ Program \in [Transactions -> Seq([type : B!CallTypes, account : Accounts,
                                       target : Accounts, amount : B!CInts])]
  /\ \A t \in Transactions : Len(Program[t]) <= MaxOps /\ None \notin OpsOf(t)
  /\ None \notin Accounts
  /\ None \notin Transactions

poolVars == <<slots, empty_slots, total_loads, total_unloads, current_usage,
              peak_usage, doing, wanted, claims>>
bankVars == <<balance, reserve, writer, readers, call, at, ok, read, served>>
control == <<pc, i, todo, status, due, main, blocked_loads>>
vars == <<poolVars, bankVars, control>>

Init ==
  /\ Pool!Init
  /\ B!Init
  /\ pc = [t \in Transactions |-> "await_start"]
  /\ i = [t \in Transactions |-> 0]
  /\ todo = [t \in Transactions |-> <<>>]
  /\ status = [t \in Transactions |-> "TX_RUNNING"]
  /\ due = StartTick
  /\ main = "joining"
  /\ blocked_loads = 0

-----------------------------------------------------------------------------
Op(t) == Program[t][i[t] + 1]

\* for (i = 0; i < tx->num_ops; i++)
AllDone(t) == i[t] >= Len(Program[t])

\* The accounts of an operation, the lower identifier first.
NeedsSource(op) == <<op.account>>
NeedsBoth(op)   == <<op.account, op.target>>
Needs(op) ==
  IF op.type = "transfer" THEN <<B!First(op), B!Second(op)>> ELSE <<op.account>>

Goto(t, from, to) == pc[t] = from /\ pc' = [pc EXCEPT ![t] = to]

\* wait_until_tick(start_tick), then the loop.
Start(t) ==
  /\ Goto(t, "await_start", "loop")
  /\ due[t] = 0
  /\ UNCHANGED <<poolVars, bankVars, i, todo, status, due, main, blocked_loads>>

BeginOperation(t) ==
  /\ Goto(t, "loop", "load")
  /\ ~AllDone(t)
  /\ todo' = [todo EXCEPT ![t] = Needs(Op(t))]
  /\ UNCHANGED <<poolVars, bankVars, i, status, due, main, blocked_loads>>

Commit(t) ==
  /\ Goto(t, "loop", "exited")
  /\ AllDone(t)
  /\ status' = [status EXCEPT ![t] = "TX_COMMITTED"]
  /\ UNCHANGED <<poolVars, bankVars, i, todo, due, main, blocked_loads>>

-----------------------------------------------------------------------------
\* load_account, once per account.
Load(t) ==
  /\ Goto(t, "load", "loading")
  /\ Pool!SemWait(t, Head(todo[t]))
  /\ blocked_loads' = blocked_loads + (IF doing'[t] = "blocked" THEN 1 ELSE 0)
  /\ UNCHANGED <<bankVars, i, todo, status, due, main>>

LoadWakes(t) ==
  /\ pc[t] = "loading"
  /\ Pool!SemWake(t)
  /\ UNCHANGED <<bankVars, control>>

Loaded(t) ==
  /\ Goto(t, "loading", IF Len(todo[t]) = 1 THEN "call" ELSE "load")
  /\ Pool!StoreSlot(t)
  /\ todo' = [todo EXCEPT ![t] = Tail(@)]
  /\ UNCHANGED <<bankVars, i, status, due, main, blocked_loads>>

\* deposit(), withdraw(), transfer() or get_balance().
CallBank(t) ==
  /\ Goto(t, "call", "bank")
  /\ B!Invoke(t, Op(t))
  /\ UNCHANGED <<poolVars, i, todo, status, due, main, blocked_loads>>

InBank(t) ==
  /\ pc[t] = "bank"
  /\ B!Step(t)
  /\ UNCHANGED <<poolVars, control>>

\* The call succeeded: wait for the next tick, the accounts still loaded, and
\* then unload them in the opposite order.
Succeeded(t) ==
  /\ Goto(t, "bank", "await_next")
  /\ ok[t]
  /\ B!Return(t)
  /\ todo' = [todo EXCEPT ![t] = Reverse(Needs(Op(t)))]
  /\ due' = [due EXCEPT ![t] = 1]
  /\ UNCHANGED <<poolVars, i, status, main, blocked_loads>>

\* Insufficient funds: unload at once, in the order of loading, and give up
\* the transaction.  What its earlier operations did stays done.
UndoFirst(op) == <<Head(Needs(op))>>
UndoAll(op)   == Needs(op)
Failed(t) ==
  /\ Goto(t, "bank", "undo")
  /\ ~ok[t]
  /\ B!Return(t)
  /\ todo' = [todo EXCEPT ![t] = UndoAll(Op(t))]
  /\ UNCHANGED <<poolVars, i, status, due, main, blocked_loads>>

NextTickCame(t) ==
  /\ Goto(t, "await_next", "unload")
  /\ due[t] = 0
  /\ UNCHANGED <<poolVars, bankVars, i, todo, status, due, main, blocked_loads>>

-----------------------------------------------------------------------------
\* unload_account, once per account.
Unload(t) ==
  /\ Goto(t, "unload", "unloading") \/ Goto(t, "undo", "undoing")
  /\ Pool!ClearSlot(t, Head(todo[t]))
  /\ UNCHANGED <<bankVars, i, todo, status, due, main, blocked_loads>>

Unloaded(t) ==
  /\ Pool!SemPost(t)
  /\ todo' = [todo EXCEPT ![t] = Tail(@)]
  /\ IF Len(todo[t]) > 1
       THEN /\ Goto(t, "unloading", "unload") \/ Goto(t, "undoing", "undo")
            /\ UNCHANGED <<i, status>>
       ELSE \/ /\ Goto(t, "unloading", "loop")
               /\ i' = [i EXCEPT ![t] = @ + 1]
               /\ UNCHANGED status
            \/ /\ Goto(t, "undoing", "exited")
               /\ status' = [status EXCEPT ![t] = "TX_ABORTED"]
               /\ UNCHANGED i
  /\ UNCHANGED <<bankVars, due, main, blocked_loads>>

-----------------------------------------------------------------------------
\* The timer thread, while simulation_running.
Tick ==
  /\ main = "joining"
  /\ \E t \in Transactions : due[t] > 0
  /\ due' = [t \in Transactions |-> IF due[t] > 0 THEN due[t] - 1 ELSE 0]
  /\ UNCHANGED <<poolVars, bankVars, pc, i, todo, status, main, blocked_loads>>

\* main() has joined every thread; the timer stops and the audit runs.
JoinAll ==
  /\ main = "joining"
  /\ \A t \in Transactions : pc[t] = "exited"
  /\ main' = "audited"
  /\ UNCHANGED <<poolVars, bankVars, pc, i, todo, status, due, blocked_loads>>

\* print_summary counts what has not been committed as aborted.
Committed == {t \in Transactions : status[t] = "TX_COMMITTED"}
Aborted == Transactions \ Committed

\* print_buffer_pool_report derives the blocked operations from the loads.
BlockedByPeak ==
  IF peak_usage > PoolSize THEN total_loads - PoolSize ELSE 0
BlockedOperations ==
  IF total_loads > PoolSize THEN total_loads - PoolSize ELSE 0

Run(t) ==
  \/ Start(t) \/ BeginOperation(t) \/ Commit(t)
  \/ Load(t) \/ LoadWakes(t) \/ Loaded(t)
  \/ CallBank(t) \/ InBank(t) \/ Succeeded(t) \/ Failed(t)
  \/ NextTickCame(t) \/ Unload(t) \/ Unloaded(t)

Next == Tick \/ JoinAll \/ \E t \in Transactions : Run(t)

Spec == Init /\ [][Next]_vars

\* Every thread that can run does, the timer included; a thread waiting on a
\* semaphore or a lock has no claim to it before others.
FairSpec ==
  /\ Spec
  /\ WF_vars(Tick) /\ WF_vars(JoinAll)
  /\ \A t \in Transactions : WF_vars(Run(t))

-----------------------------------------------------------------------------
\* A transaction inside the bank has every account of the call loaded: an
\* account in use is never without a slot (transaction.c 36-37, 46-48, 69-72).
AccountsLoaded ==
  \A t \in Transactions : at[t] # "idle" =>
    \A a \in {call[t].account} \cup
             (IF call[t].type = "transfer" THEN {call[t].target} ELSE {}) :
      Pool!Holding(t, a)

\* When main() reports, every slot has been given back, by committed and by
\* aborted transactions alike (transaction.c 49, 73-74, 113-119) ...
PoolReturned ==
  main = "audited" =>
    /\ empty_slots = PoolSize /\ Pool!InUse = {} /\ claims = {}
    /\ total_loads = total_unloads

\* ... the committed are those with all of their operations done (metrics.c
\* 38-42) ...
CommittedDidAll ==
  main = "audited" => \A t \in Transactions : t \in Aborted <=> i[t] < Len(Program[t])

\* ... and the books balance (main.c 56-65).
CleanShutdown ==
  /\ PoolReturned /\ CommittedDidAll
  /\ main = "audited" =>
       reserve + B!Total(balance) = B!Total(InitialBalance)

\* The report never understates how often a load had to wait for a slot,
\* whatever the interleaving, though it counts loads and not waits
\* (metrics.c 57-58).
BlockedNotUnderstated ==
  main = "audited" => blocked_loads <= BlockedOperations

\* main() joins every transaction and reports.
Termination == <>(main = "audited")

\* The transactions that can run or will be woken by one that can are never
\* shut out: no set of transactions holds the whole pool while each of its
\* members waits for one more slot.
NoCircularWait ==
  \A S \in SUBSET Transactions \ {{}} :
    ~ /\ \A t \in S : doing[t] = "blocked"
      /\ Cardinality({c \in claims : c[1] \in S}) = PoolSize
=============================================================================
