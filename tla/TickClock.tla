------------------------------ MODULE TickClock ------------------------------
(***************************************************************************)
(* lab_3/src/timer.c and the timing of lab_3/src/transaction.c: one thread *)
(* advances global_tick and broadcasts, the transaction threads wait for a *)
(* tick on a condition variable, stamp their start and end and account for *)
(* the ticks an operation was blocked.                                     *)
(*                                                                         *)
(* Each stretch under tick_lock is one step: it blocks only in             *)
(* pthread_cond_wait, which releases the lock and parks the thread in one  *)
(* indivisible action of the (external) pthread library.  A parked thread  *)
(* resumes on a broadcast or spuriously and tests its condition again.     *)
(* The operation itself is a step that takes any number of ticks.          *)
(***************************************************************************)
EXTENDS Integers

CONSTANTS
  Threads,     \* transaction threads
  start_tick,  \* [Threads -> Int], from the trace
  num_ops,     \* [Threads -> Nat]
  MaxTick      \* bound of a run: no tick after it, no wait past it

ASSUME TickAssumption ==
  /\ start_tick \in [Threads -> Int]
  /\ num_ops \in [Threads -> Nat]
  /\ MaxTick \in Nat

VARIABLES
  global_tick, simulation_running,
  timer,        \* where timer_thread is: testing the flag, asleep, returned
  pc,           \* where execute_transaction is
  parked,       \* the threads inside pthread_cond_wait
  target,       \* the argument of the current wait_until_tick
  op,           \* the loop variable i: operations completed
  tick_before,  \* read before an operation
  actual_start, actual_end, wait_ticks, status

stamps == <<actual_start, actual_end, wait_ticks, status>>
vars == <<global_tick, simulation_running, timer, pc, parked, target, op,
          tick_before, stamps>>

Places == {"await_start", "stamp_start", "loop", "operate", "account",
           "await_next", "commit", "abort", "exited"}

\* The two calls of wait_until_tick.
Waiting == {"await_start", "await_next"}

TypeOK ==
  /\ global_tick \in Nat
  /\ simulation_running \in BOOLEAN
  /\ timer \in {"test", "sleep", "returned"}
  /\ pc \in [Threads -> Places]
  /\ parked \subseteq Threads
  /\ target \in [Threads -> Int]
  /\ op \in [Threads -> Nat]
  /\ tick_before \in [Threads -> Nat]
  /\ actual_start \in [Threads -> Nat]
  /\ actual_end \in [Threads -> Nat]
  /\ wait_ticks \in [Threads -> Nat]
  /\ status \in [Threads -> {"TX_RUNNING", "TX_COMMITTED", "TX_ABORTED"}]

Zero == [t \in Threads |-> 0]

Init ==
  /\ global_tick = 0 /\ simulation_running = TRUE
  /\ timer = "test"
  /\ pc = [t \in Threads |-> "await_start"]
  /\ parked = {}
  /\ target = start_tick
  /\ op = Zero /\ tick_before = Zero
  /\ actual_start = Zero /\ actual_end = Zero /\ wait_ticks = Zero
  /\ status = [t \in Threads |-> "TX_RUNNING"]

Goto(t, from, to) == pc[t] = from /\ pc' = [pc EXCEPT ![t] = to]

-----------------------------------------------------------------------------
(* The timer thread *)

TestRunning ==
  /\ timer = "test"
  /\ timer' = IF simulation_running THEN "sleep" ELSE "returned"
  /\ UNCHANGED <<global_tick, simulation_running, pc, parked, target, op,
                 tick_before, stamps>>

\* usleep ends; under tick_lock the tick advances and all waiters are woken.
NoneWoken == parked
StillParked == {}
Tick ==
  /\ timer = "sleep"
  /\ global_tick < MaxTick
  /\ global_tick' = global_tick + 1
  /\ parked' = StillParked
  /\ timer' = "test"
  /\ UNCHANGED <<simulation_running, pc, target, op, tick_before, stamps>>

-----------------------------------------------------------------------------
(* wait_until_tick *)

After(place) == IF place = "await_start" THEN "stamp_start" ELSE "loop"

\* Too early: park.
Park(t) ==
  /\ pc[t] \in Waiting /\ t \notin parked
  /\ global_tick < target[t]
  /\ parked' = parked \cup {t}
  /\ UNCHANGED <<global_tick, simulation_running, timer, pc, target, op,
                 tick_before, stamps>>

\* The tick has come.  After the wait that ends an operation its slots are
\* unloaded and the loop variable advances.
Resume(t) ==
  /\ pc[t] \in Waiting /\ t \notin parked
  /\ global_tick >= target[t]
  /\ pc' = [pc EXCEPT ![t] = After(@)]
  /\ op' = IF pc[t] = "await_next" THEN [op EXCEPT ![t] = @ + 1] ELSE op
  /\ UNCHANGED <<global_tick, simulation_running, timer, parked, target,
                 tick_before, stamps>>

SpuriousWakeup(t) ==
  /\ t \in parked
  /\ parked' = parked \ {t}
  /\ UNCHANGED <<global_tick, simulation_running, timer, pc, target, op,
                 tick_before, stamps>>

-----------------------------------------------------------------------------
(* execute_transaction *)

StampStart(t) ==
  /\ Goto(t, "stamp_start", "loop")
  /\ actual_start' = [actual_start EXCEPT ![t] = global_tick]
  /\ UNCHANGED <<global_tick, simulation_running, timer, parked, target, op,
                 tick_before, actual_end, wait_ticks, status>>

BeginOperation(t) ==
  /\ Goto(t, "loop", "operate")
  /\ op[t] < num_ops[t]
  /\ tick_before' = [tick_before EXCEPT ![t] = global_tick]
  /\ UNCHANGED <<global_tick, simulation_running, timer, parked, target, op, stamps>>

EndLoop(t) ==
  /\ Goto(t, "loop", "commit")
  /\ op[t] >= num_ops[t]
  /\ UNCHANGED <<global_tick, simulation_running, timer, parked, target, op,
                 tick_before, stamps>>

\* The load and the bank call: succeeds, or fails for want of funds.
Operate(t) ==
  /\ Goto(t, "operate", "account") \/ Goto(t, "operate", "abort")
  /\ UNCHANGED <<global_tick, simulation_running, timer, parked, target, op,
                 tick_before, stamps>>

\* The current tick is read once: wait_ticks and next_tick come from it.
SameTick(t)   == global_tick
NextTarget(t) == global_tick + 1
Waited(t)     == global_tick - tick_before[t]
Account(t) ==
  /\ Goto(t, "account", "await_next")
  /\ global_tick < MaxTick
  /\ wait_ticks' = [wait_ticks EXCEPT ![t] = @ + Waited(t)]
  /\ target' = [target EXCEPT ![t] = NextTarget(t)]
  /\ UNCHANGED <<global_tick, simulation_running, timer, parked, op,
                 tick_before, actual_start, actual_end, status>>

Finish(t) ==
  /\ \/ Goto(t, "commit", "exited") /\ status' = [status EXCEPT ![t] = "TX_COMMITTED"]
     \/ Goto(t, "abort", "exited")  /\ status' = [status EXCEPT ![t] = "TX_ABORTED"]
  /\ actual_end' = [actual_end EXCEPT ![t] = global_tick]
  /\ UNCHANGED <<global_tick, simulation_running, timer, parked, target, op,
                 tick_before, actual_start, wait_ticks>>

\* main() has joined every transaction thread.
StopTimer ==
  /\ simulation_running
  /\ \A t \in Threads : pc[t] = "exited"
  /\ simulation_running' = FALSE
  /\ UNCHANGED <<global_tick, timer, pc, parked, target, op, tick_before, stamps>>

Transaction(t) ==
  \/ Park(t) \/ Resume(t) \/ StampStart(t) \/ BeginOperation(t) \/ EndLoop(t)
  \/ Operate(t) \/ Account(t) \/ Finish(t)

Next ==
  \/ TestRunning \/ Tick \/ StopTimer
  \/ \E t \in Threads : Transaction(t) \/ SpuriousWakeup(t)

Spec == Init /\ [][Next]_vars

\* The operating system runs the timer and every thread that can run.
FairSpec ==
  /\ Spec
  /\ WF_vars(TestRunning \/ Tick)
  /\ \A t \in Threads : WF_vars(Transaction(t))

-----------------------------------------------------------------------------
\* No wake-up is missed: a thread stays parked only while the tick it waits
\* for is in the future (timer.c 23-28, 34-37: test and park, tick and
\* broadcast, each in one section under tick_lock).
NoMissedWakeup ==
  \A t \in parked : pc[t] \in Waiting /\ global_tick < target[t]

\* The performance metrics of a finished transaction add up: it started no
\* earlier than asked, and its ticks cover one tick per completed operation
\* plus the ticks it reports as waiting (transaction.c 14-17, 100-107, 125-128).
MetricsAddUp ==
  \A t \in Threads : pc[t] = "exited" =>
    /\ start_tick[t] <= actual_start[t]
    /\ actual_start[t] + wait_ticks[t] + op[t] <= actual_end[t]
    /\ status[t] = "TX_COMMITTED" => op[t] = num_ops[t]

\* A thread that waits for a tick runs again (timer.c 33-39).
EveryWaitEnds ==
  \A t \in Threads : pc[t] \in Waiting ~> pc[t] \notin Waiting
=============================================================================
