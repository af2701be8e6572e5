# CMSC125_LAB in TLA+

The repository holds three laboratory programs for an operating systems course,
written in C and independent of each other:

| Lab | Program | Concurrency |
| --- | --- | --- |
| `lab_1` | `mysh`, a shell with redirection and background jobs | one process, its children end at any time |
| `lab_2/schedsim-2` | a discrete event simulator of five CPU scheduling algorithms | none; the difficulty is the order of events |
| `lab_2/schedsim` | an earlier prototype of it | does not compile (merge conflict markers); not modelled |
| `lab_3` | `bankdb`, transactions on shared accounts in pthreads | one thread per transaction, a timer thread, `main` |

This directory specifies them, checks the specifications with TLC on small
instances and proves most of their invariants with TLAPS for every value of the
constants: any threads, accounts and calls of the bank, any workload and any
settings of the simulator, any process ids of the shell.

## Inventory

### lab_3: bankdb

* **Bank** (`bank.c`). State: a balance (an `int`) and a reader-writer lock per
  account, one atomic reserve (`long long`). Operations: `get_balance`,
  `deposit`, `withdraw`, `transfer`. `transfer` takes the lock of the lower
  account first; `deposit` and `withdraw` update the reserve *after* releasing
  the lock. Correct when: no data race, no circular wait, every call atomic,
  money conserved, no account overdrawn.
* **Buffer pool** (`buffer_pool.c`). State: five slots under `pool_lock`, a
  counting semaphore of free slots, usage counters. Operations: `load_account`,
  `unload_account`. Semaphore and slots change at different times, several slots
  may hold one account, and an unload clears the first match, perhaps one that
  another thread loaded. Correct when permits, slots, counters and outstanding
  loads agree.
* **Timer** (`timer.c`). A thread advances `global_tick` and broadcasts;
  `wait_until_tick` waits on a condition variable. Correct when no wake-up is
  missed and every wait ends.
* **Transactions** (`transaction.c`). A thread per transaction: for each
  operation load its accounts, call the bank, wait for the next tick, unload;
  on insufficient funds unload and abort. Effects of earlier operations stay.
  Correct when accounts are loaded while in use and given back afterwards.
* **main** (`main.c`) starts the threads, joins them, stops the timer and audits
  the total. The **report** (`metrics.c`) derives some of its figures.
* **Trace parser** (`parser.c`). State: the accounts and the table of
  transactions, cleared at the start. Reads the options, the accounts and the
  trace; a line joins the first slot with the number of its label, or takes the
  next one, and the slot behind the last gets the sentinel number -1 at which the
  loops of `main` stop. Correct when what is started is what the files say.

The threads interact through the account locks, the semaphore, `pool_lock`, the
atomic reserve and the condition variable.

### lab_2: schedsim-2

* **Engine** (`simulator.c`). State: the processes, the running one, the waiting
  queue, the clock, the chart, the event queue. Handlers: arrival, completion,
  quantum expiry, priority boost. A run is charged and drawn when it *starts*,
  so whatever interrupts it must take back the rest.
* **Event queue** (`event-queue.c`), ordered by time and then by position (for
  SJF and STCF by remaining time among events at one time).
* **Queues** (`data-structures/*-queue.c`): a list, two sorted lists, RR's three
  rotating lists, MLFQ's levels.
* **Algorithms** (`schedulers/*.c`): run time, time stamps, MLFQ's allotment and
  demotion.
* **Metrics and chart** (`metrics.c`, `gantt.c`).
* **Configuration** (`mlfq-config.c`): MLFQ's levels and boost period from a
  file, or a refusal.
* **Workloads** (`scheduler.c`): the processes from a file or a string. The
  variables that `sscanf` fills are not initialized; those of a file live for all
  of its lines (18-19), those of a string for one token (40-41).
* **Command line and comparison** (`main.c`, `command.c`, `compare.c`): one
  algorithm with the user's settings, or all five in one process, each on a copy
  of the processes, with settings of their own and a table of averages and
  context switches at the end.

Correct when nobody is lost or queued twice, one CPU serves one process at a
time, charts and metrics agree with the service given, the program ends, each
algorithm keeps its promise about the order, files are read as written, and one
test of the comparison has no effect on the next.

### lab_1: mysh

* **Parser** (`parser.c`): from the tokens of a line to a `Command`.
* **Interpreter** (`interpreter.c`): built-ins, `fork`, foreground wait, the
  table of background jobs, `cleanup_background_jobs` before each prompt, which
  moves the last entry into the place of a finished one while it loops.
* **Main loop** (`mysh.c`).

Correct when the table holds distinct children nobody has waited for, a cleanup
misses none that has ended, and the prompt always comes back.

`PROJECT.json` lists the components with their status, and the hazards at the
lines where they bite with the properties that cover them.

## Modules

| Module | Models | Correspondence |
| --- | --- | --- |
| `AtomicBank` | what the bank promises | a call is requested, takes effect in one step, is answered |
| `Bank` | `bank.c` | one step per stretch between two points of interference: each lock, each update, each unlock, the reserve. `at` is the place in the call, `call` its arguments |
| `PinnedAccounts` | what the pool promises | a bounded bag of loaded accounts |
| `BufferPool` | `buffer_pool.c` | `SemWait`/`SemWake`, `StoreSlot` under `pool_lock`; `ClearSlot`, `SemPost`. `claims` is a history variable: the loads not yet undone |
| `TickClock` | `timer.c`, the stamps of `transaction.c`, `StopTimer` of `main.c` | each section under `tick_lock` is a step; `parked` are the threads inside `pthread_cond_wait`; spurious wake-ups are an action |
| `BankEngine` | `transaction.c`, `main.c`, counts of `metrics.c` | composes `Bank` and `BufferPool` by INSTANCE over shared variables, with the control of `execute_transaction` around their actions; ticks are kept as those still due |
| `TraceParser` | `parser.c`, the loop of `main.c` that starts threads | a step takes an option, reads a line or creates a thread; the environment chooses the next line, and history variables keep the lines read |
| `EventQueue` | `event-queue.c` | operators on a sequence; `NextArrival` is the position that `peek_next_arrival` points to |
| `ReadyQueue` | the five queues | operators on a tuple of lists; RR's list 1 is active, 2 the round's and 3 pending; MLFQ's list *k* is level *k* - 1 |
| `Simulator` | `simulator.c`, `schedulers/` | one action per handler, `Report` at the end; `Begin` is `simulate_scheduler` up to its loop |
| `MLFQConfig` | `mlfq-config.c` | a recursive function over the lines of the file, and the validation |
| `Workload` | `scheduler.c` | for a file, a recursive function over the lines, with the variables that `sscanf` fills as its state; for a string, each token by itself on whatever the stack holds then. What the stack may hold is the constant `Stack`, so one input may be read as several lists |
| `SchedSim` | `main.c`, `command.c`, `compare.c` | the program around `Simulator`: load, select or test, simulate, exit; it chooses among the workloads, commands and contents of files that are its constants |
| `SimulatorProperties` | the properties of `SchedSim` | |
| `CommandParser` | `get_command` | one action per turn of its two loops and one per way out |
| `Shell` | `interpreter.c`, `mysh.c` | one action per iteration of the cleanup loop and one per outcome of `interpreter`; process ids are used again once reaped |
| `FoldProofs` | lemmas on sums and recursive functions | extends no model |
| `BankProofs`, `BufferPoolProofs`, `TickClockProofs`, `EngineProofs`, `ShellProofs`, `SimulatorProofs` | theorems | extend the module they are about; `TickClockProofs` is also about `TraceParser` and `ShellProofs` about `CommandParser`, which is why the names of the two parsers' specifications are their own (`TraceSpec`, `ParserSpec`); `SimulatorProofs` is about `SimulatorProperties` and what it extends |
| `ChartProofs` | theorems on the simulator's CPU, chart and metrics | extends `SimulatorProofs` |
| `MC*` | instances for TLC | constants only |

`BankEngine` reuses the actions of `Bank` and `BufferPool` unchanged, so what is
checked alone is what runs in the composition. `Simulator` extends `ReadyQueue`
and `EventQueue`; `SchedSim` extends `Simulator`, `MLFQConfig` and `Workload`,
takes the simulator's handlers as one disjunct of its own steps and starts each
simulation with `Begin`.

The operators that stand next to a definition with a name of their own, such as
`ArgumentOrder` beside `LockOrder` or `AlsoPass` beside `AfterRemoval`, are
plausible mistakes in that code. Nothing uses them in a run; `PROJECT.json` pairs
each with the property that fails if the mistake is made.

## Runs

All the runs together take a few minutes on two cores.

| Run | Bounds | Shows |
| --- | --- | --- |
| `bank` | 3 threads, one of 8 calls each, 3 accounts (87 541 states) | `NoDataRace`, `OrderedWaiting`, `Conservation`, `NoOverdraft`; `Atomicity` (implements `AtomicBank`); `EveryCallReturns` |
| `bank_wrap` | 2 threads, 2 calls each, ints of 3 bits, signed amounts, symmetry | the books agree modulo the width (`ConservationModulo`) |
| `pool` | 3 threads, 2 accounts, 3 slots, 4 loads, symmetry | `EveryPermitAccounted`, `SlotsMatchClaims`, `CountersMatchSlots`; `BoundedPinning` (implements `PinnedAccounts`) |
| `clock` | 2 transactions of 2 and 1 operations, 4 ticks | `NoMissedWakeup`, `MetricsAddUp`, `EveryWaitEnds` |
| `engine` | 3 transactions, 5 operations, 2 accounts, 3 slots | `AccountsLoaded`, `CleanShutdown`, `BlockedNotUnderstated`, `Termination` |
| `engine_deadlock` | 5 transactions, 5 slots | *violated*: `NoCircularWait` |
| `trace` | up to 5 lines in the two files, 2 accounts, a table of 3 transactions, ints of 4 bits | `AccountsAsWritten`, `StartedAsWritten`; `EveryTraceRuns` |
| `simulator` | all workloads of 3 processes with the first arrival at 0, the others by 20, bursts 0, 10 or 35; three with names that share a letter, the two small shipped ones, irregular ones; the comparison and single commands (73 026 states) | `WorkloadAsWritten`, `ConfigAsWritten`; no process twice in a queue; one event for the CPU; charts and metrics; each algorithm's order; `SwitchesCounted`, `ShortestFirstIsBest`; `EveryComparisonEnds` |
| `boost_lost` | MLFQ with a boost every 30, bursts to 50 | *violated*: `AllComplete` |
| `stcf_shorter` | STCF, the same workloads | *violated*: `ShortestRuns` |
| `parser` | every line of up to 6 tokens over 2 words and the 4 symbols | `ParsesGrammar` |
| `shell` | 4 process ids, a table of 3, failing `malloc` | `TypeOK`, `JobsUnreaped`, `JobsKept`, `ReapedByPass`, `Responsive` |

### Why the bounds are enough

* Three threads are what it takes for a ring of transfers over three accounts
  and for a third thread that reads between two writers. The balances are so
  small that some orders of the calls have insufficient funds and others not.
  Overflow needs a width only: three bits overflow in one call.
* Three pool slots and three threads holding up to two accounts reach a full
  pool, blocked loads, two slots with one account, and an unload that clears the
  slot of another thread.
* In `engine`, two transactions hold two slots at most and one holds one, so
  three slots are exactly enough to avoid a circle: one to spare beside the
  first slot of each transfer. `engine_deadlock` uses the program's own five.
* The simulator's workloads cover ties, gaps, empty bursts, bursts equal to and
  longer than a quantum with a remainder, and enough levels to be demoted twice.
  Times are in tens because the comparison's quantum of 10 for RR is fixed. The
  configuration files demote soon, leave a level out, define one twice, boost
  while processes run, and fail in each of the ways the loader knows.
  `BoostSlack` replaces the constant 1000 that only adds later boosts.
  `MaxGantt` is kept above what a run draws: the silent truncation of the chart
  at 1024 segments is not exercised. `MaxProcesses` is 4, one less than the
  longest string.
* `trace`'s table has one slot too few for the numbers in its lines beside the
  sentinel, and five lines are enough for a label without a number before and
  behind the transaction it joins, a repeated account and a late line of an
  early transaction.
* The parser's line is one token longer than `MaxTokens`, so the rejection of
  too long a line is reached; two redirections with files and a background
  symbol fit.
* A table one shorter than the number of process ids fills up.

`MaxCalls`, `MaxLoads`, `MaxTick` bound runs and stand in the guards
(`MaxTick` also in that of the action that would wait beyond it). `CHECK_DEADLOCK`
is off everywhere because each program ends, or its callers stop at their bound;
runs with a liveness property notice a system that stops early.

### Fairness

* `Bank`, `BankEngine`, `TickClock`: weak fairness for each thread and for the
  timer. The operating system runs every runnable thread. No strong fairness for
  locks or the semaphore: a waiter may be overtaken as long as others come, and
  the liveness properties hold because calls and operations are finite in number.
* `SchedSim`: weak fairness of the single sequential program.
* `TraceParser`: weak fairness from the end of the trace on, which always comes;
  how long the files are is not bounded by fairness.
* `Shell`: weak fairness of the shell's own steps only. The user may stop typing
  and a child may run for ever, so `Responsive` speaks of the prompt after a
  cleanup or after the end of the foreground child.

## What the violations show

* `boost_lost`: `handle_priority_boost` (`simulator.c:260-304`) leaves the event
  of the process it takes off the CPU in the queue, while the preemption of
  `handle_arrival` removes it (136). The stale event is later applied to whoever
  runs, and a process can be dropped with part of its burst never run.
  `MetricsMatchChart` is therefore promised up to the first boost only
  (`Undisturbed`), and so is the part of `OneCpuEvent` that knows of no other
  event than the running process's own and of its time. That its own is pending
  holds through boosts, as the other properties do.
* `stcf_shorter`: `schedule_stcf` treats an arrival due now but not handled yet
  as no arrival, charges the process to its end, and `handle_arrival` no longer
  preempts it because its `remaining_time` is 0.
* `engine_deadlock`: lock order removes the circle among account locks
  (`OrderedWaiting`), not the one among buffer slots: five concurrent transfers
  hold one slot each and wait for a second.

Other disagreements between code and documents, read in the code and too direct
to need a model checker:

* an `int` balance that overflows makes the final audit of `main.c:57-65` fail;
* a full pool makes a load wait (`buffer_pool.c:22`); `docs/design.md:28`
  describes an eviction; the timer expires nothing, against `docs/design.md:48`;
* the report derives blocked operations from the number of loads (`metrics.c:57`),
  which is never too few (`BlockedNotUnderstated`) but more than none as soon as
  five loads have been made one after the other;
* a label `T-1` in a trace is taken for the sentinel, and one without a number
  joins a transaction introduced later (`StartedAsWritten` says which);
* a boost that meets a process charged to its end resets nobody
  (`simulator.c:256`), and a boost in the middle of a run draws it to its
  planned end (`simulator.c:287`);
* under MLFQ an arrival at the top level does not preempt (`simulator.c:159`),
  and the allotment may be overrun by less than a quantum (`AllotmentBounded`
  states what does hold);
* `count_context_switches` compares only first letters (`compare.c:57`), so that
  the comparison of the shipped `workload-1.txt`, whose processes are 124, 131
  and 141, counts none; `SwitchesCounted` states what does hold;
* a level with quantum 0 and an allotment, or at the bottom, runs for ever, and
  at the top gives everyone a response in no time; the loader accepts both;
* `get_command` takes `&` wherever it stands behind the arguments
  (`parser.c:130-132`), so that redirections and further `&` may follow:
  `cmd & > f` is accepted. `lab_1/README.md:78` says it must be last, and line 198
  lists it among the errors handled. `ParsesGrammar` is the grammar of that
  document, `&` last included: that nothing else is returned is promised of the
  lines with no `&` before their end, and that none of the grammar is refused, of
  all lines;
* a background child is forked (`interpreter.c:141`) before the table is tested for
  room (261). With a full one the shell says that there are too many jobs (317),
  but the child runs on and nobody waits for it: more than the "maximum concurrent
  background jobs" of `lab_1/README.md:183`. `shell` reaches such children;
  `TypeOK` says that the table does not overflow, not that it lists all of them;
* at the end of input the shell asks for ever.

## Proofs

All theorems hold for any values of the constants under the named assumptions.
`BankAssumption`, `PoolAssumption`, `TickAssumption`, `ShellAssumption` and the two
`EngineAssumption`s say that constants have their types and that `None` is a value
of its own (in the simulator: no number); threads, accounts and transactions are
finite sets, the pool has a slot, and a transaction of the engine has at most
`MaxOps` = 256 operations, the size of its array. `NullAssumption` says that a refused
configuration file is none of the configurations. `InputsAssumption`,
`TimesAssumption` and `ConfigAssumption` of `SchedSim` keep out the files for which
the program's behaviour is not defined or does not end (see the limits below).
`ParserAssumption` says of the command lines that no word is one of the four symbols,
and of the traces that the tables have room for one entry.

**`FoldProofs`.** Balances and run times are summed with the folds of the community
modules, and files are read by recursive functions. The library's induction
theorems cannot be used, so induction is the smallest counterexample of a set of
numbers (`LeastNatural`, `NatSetInduction`): `RecursionExists` gives a recursively
defined function its equation, and `SumSplit`, `SumAgree`, `SumBounds` and
`SumChange` are what the models need to know of a sum over a finite set. Sums by group
(`SumByGroup`) and by pairs (`PairSumAtLeast`) are for the comparison of averages.

**`BankProofs`.** `RaceFree` and `WaitsUpwards` do not follow from a thread's own
place alone. The inductive invariant `LockInv` adds who holds each lock:
`CallMatchesPlace` (a thread inside a call is at a place of that kind of call)
and `LocksMatchPlaces` (a lock is held by exactly the threads whose place says
so, in the mode of their call, and never for reading and writing at once). Each
action moves one thread and changes at most one lock, and the proof has a lemma
per kind of action. Two threads at the same account then contradict the lock's
single owner. `TypeCorrect` rests on `CIntType`: wrapping yields an int.

Money is in the balances, in the reserve, and with threads between two updates
(`OwedToReserve`, `OwedToTarget`). `MoneyStep` shows that a step of one thread moves
an amount between two of these sums and leaves `GrandTotal` alone, up to the wrap of
an int: so `MoneyConservedModulo` holds always, and `MoneyConserved` as long as no
balance overflows (`NoOverflow`). `NeverOverdrawn` needs besides that nobody starts
with a debt or passes a negative amount (`NoDebts`), and that the funds tested are
those debited: `DebitFunded`, kept because the account stays locked in between.

`BankIsAtomic` is the refinement. A transfer takes effect in one step when it credits
or refuses, any other call when it reads or updates the balance, in each case with
its locks still held. The abstract state is the balances with the amounts in transit
given back to their senders (`InTransit`, `Funds`), the reserve with the updates
still owed to it (`Reserve`), and the calls whose answer is settled (`Answered`).
Between debit and credit of a transfer both accounts are locked, so that nobody else
sees the half of it.

`NoOverflow` is a hypothesis about behaviours. `NothingOverflows` reduces it to the
constants: without debts, and with accounts and deposits that fit in an int
together (`FitsInt(m)`, where `m` bounds the amounts), the room left covers every
call still to come (`RoomInv`). `BankCorrect` is the result: such a bank loses
nothing, overdraws nobody and is atomic. Accounts and amounts of the run `bank` are
such; `bank_wrap` is the other case.

**`BufferPoolProofs`.** `EveryPermitAccounted` counts `admitted` and `cleared`
threads together with the semaphore. `PoolInv` strengthens it to the number of
free slots (`FreeSlots`), the number of slots per account (`SlotsMatchClaims`)
and the relation of the counters to them. `AdmittedFindsSlot` and
`ClaimFindsSlot` derive from it that the loops of `load_account` and
`unload_account` always find their slot, so that every step changes exactly the
numbers it should. `ImplementsPinnedAccounts` is the refinement: a stored slot is
a pin, a cleared one an unpin, everything else stutters.

**`TickClockProofs`.** `ClockInv` says of each place how the start, the reported
waiting and the completed operations relate to the current tick, the tick read
before the operation and the target; `MetricsSound` is its last line, and
`WakeupsReachAll` follows because test and park, and tick and broadcast, are
each one section.

Its second part is about `TraceParser`. A file is read line by line, and later lines
may overwrite, add to or fall behind what earlier ones did; the invariants say what the
tables are after the lines so far. `AccountsInv`: each balance is that of the last
line with its number, wrapped as `atoi` does, or 0. `SlotsInv`: as many slots are taken
as lines introduce a transaction (`Introductions`), the one of line `j` is the number
of introductions before it, and its operations are those of all lines with that
transaction's number, in their order, whether they stand before or after; the slot
after the last collects the lines with the number 0, which is that of an empty
slot, and holds the sentinel once the file ends. `KnownLine` and `NewLine` are
the two ways a line goes. With `ThreadsInv`, that the loop of `main` has passed no
sentinel so far, this gives `TransactionsAsWritten`; the balances are
`BalancesAsWritten`. Both hold for every file, tables of any size and ints of any width.

**`EngineProofs`.** `CallsOnLoadedAccounts` is about the composition: the pool
does not know who loaded an account, so a transaction that unloaded once too often
would take the slot of another. `EngineInv` therefore says at each place of
`execute_transaction` exactly which loads are the transaction's own
(`TransactionInv`: so many of its accounts while it loads, all of them from the last
load to the first unload, then the rest), and keeps the pool's own invariant next
to it. `Slot == INSTANCE BufferPoolProofs` brings in the pool's lemmas with the
transactions as threads, so that the steps inside the pool are not proved twice.
`ShutdownIsClean` proves `PoolReturned` and `CommittedDidAll`, two of the three
parts of `CleanShutdown`. The third is the balance of the books, and
`Books == INSTANCE BankProofs` brings it in the same way, with the operations of the
transactions as calls: a step of the engine is a step of the bank or none
(`EngineMovesBank`), and when everyone has been joined nobody owes anything
(`NothingInFlight`). `BooksBalance` is all of `CleanShutdown` while no balance
overflows; `AuditPasses` replaces this by a condition on accounts and amounts.
`ReportedBlockedEnough` rests on `BlockedCounted`: once a load has found the pool
full, the loads begun are at least the slots and the blocked loads together.

**`SimulatorProofs`.** The inductive invariant `Inv` says that files have been
loaded as processes with natural times and that the simulator is cleared (`Empty`)
or running (`Kept`). `Good` is what its handlers keep, stated for the processes, the
running process, the lists and the events as parameters, because a handler goes
through intermediate combinations of them: records of the right type, events in
order with one arrival at most for each process (`EventsOK`), no process in two
places (`PlacesOK`), lists that match priorities and times within allotments. The
lemmas below it are about single operators: what `EnqueueEvent`, `RemoveEvent`,
`Enqueue`, `Dequeue`, `Requeue`, `Move` and `Boosted` do to positions and to the set
of entries. `Steps` is the case distinction on `Next`. `EventsInOrder`,
`OnePlaceEach`, `ListsArePriorities` and `AllotmentsBound` follow. All hold through
boosts as well, for all five algorithms and the comparison.

Its last section is about the files. `ListAsWritten` compares the variables that
`sscanf` fills with what has been written: in a file with the latest line that has the
field (`LatestRead`, by induction on the line; `FileAsWritten`), which is where a value
of an earlier line, or of the stack, comes from; in a string with the token alone, and
any value of `Stack` for what it lacks (`StringAsWritten`).
`SettingsAsWritten` does so for the configuration: `ReadUpTo` says what the levels and
the period are after so many lines (`LineTaken`, `FileAsRead`), and `LatestOfAll` that
this is the last definition of each.

**`ChartProofs`.** `OneEnd` rests on two invariants. `PendingEnd`: the running process's
own event is pending, of the right kind, and comes when the last segment of the chart
ends or, if the run is empty and none was drawn, at the current time. It holds through
boosts, since each handler either leaves the running process and its event alone
(`StillPending`) or dispatches (`DispatchPending`). That it is the only one, up to the
first boost, is `CpuKept`: there is
a time `e` at which the CPU becomes free, all segments end by then, and under STCF a
run that leaves something to do ends at the next arrival, so that only a process
arriving at `e` can preempt. This ends with the first boost; a boost that
comes later than `Horizon`, when all work can be done, must find nobody, and for that
the work left (`Work`, a sum) has to be done by the horizon at every step: it shrinks
by what the clock is ahead. `BooksMatchChart` adds the books of each process
(`Ledger`): charged is what its segments sum up to (`TimeIn`), it started with the
first and finished with the last, and it fits in between arrival and now (`InTime`);
and that nobody is lost (`Accounts`): who has not arrived has not run, who waits has
something left, and everyone else is done. At the end of a simulation the queue of
events is empty, so everyone is done and the metrics are those of the chart. The
theorem has the hypothesis that the chart has room: `append_gantt_entry` drops what
does not fit (`gantt.c:8`), and then they differ.

`OrderIsKept` is the promise of the two algorithms that do not preempt. Its invariant
`InTurn` relates list, events and chart. Under FCFS there is one order, by arrival and
place in the workload (`EarlierIn`): the list is in it, then the arrivals still planned
(`ArrivalsInTurn`: the events are queued so, and the one queue operation that compares
remaining times is not used), and everyone shown on the chart is before all these.
Under SJF the list is sorted (`SortedByBurst`), those in it or to arrive have not
started, all others have (`SoFar`): so whoever arrived before a dispatch and is shorter
than the head of the list has started by then.

`WaitIsBounded` is RR's promise. Between two processes in line, `q` may still run
before `p` does once if it stands before `p` (`Once`: in the active list, or in the
other two, which follow it in turn), and twice only if `p` has just arrived and `q` is
in the active list (`Twice`). What is inductive is `Turns`: for everyone in line,
whether waiting or on the CPU with work left, the runs of `q` counted so far
(`Waited`) are at most two, at most one if it may run once more, and none if it may
run twice. Each operation on the three lists has a lemma that says it moves nobody
back: `TurnOfRound`, `TurnOfHead`, `TurnPutBack`, `TurnOfNew`; and `RunAdded` says that
a segment more on the chart is one run more of its process and starts the count of
that process anew. Here the chart may be full: what is not drawn is not counted.

`FewestSwitches` is about the count of the comparison. Every
process shown besides the first makes the letters change where it is shown first
(`ChangesAtLeast`), and there are no more changes if nobody is shown twice
(`ChangesAtMost`), as under FCFS by `OrderIsKept`. So the counts compare because all five
charts show the same processes, those with work (`AllShown`). That is the invariant
`Drawing`: who has work is on the chart, or in line with the whole burst ahead and at
the top level, where no quantum is zero. It holds through boosts, which drop work but
nobody unseen; a stale event can end a run, but only that of a process which is
drawn. Nobody waits at the end because a run's end is to come while someone runs, and
the CPU is never left free with somebody waiting (`EndToCome`).
`FewestSwitches` has the hypothesis that all charts had room, as a condition on the
behaviour, because counts of tests that are over stay in the table.

`ShortestIsBest` is the comparison of averages, in two parts that meet at `Least`, the
total turnaround of a schedule in which each process waits for just the shorter ones.
No chart has less (`NoneIsBetter`): by `BooksMatchChart`'s ledger each process ends
after the work of those last seen on the chart before it (`ChartTakes`), of two
processes one is last seen before the other, and waits for at least the burst of the
shorter one of the two, which is all that this pair costs the shortest first
(`TurnaroundsAtLeast`, a comparison of two double sums pair by pair). And SJF and STCF
have exactly that: `ShortestNext` says that those who have not run are in line, the
shorter ones first, that all others are shorter still and have had their turn to the
end (`HadTurn`), and that the next run begins when these are done (`TimeOf`). It is kept
because nobody is preempted: who runs has been charged for everything, so an arrival
finds nothing left to take (`ShortestStep`) and is put last (`ArriverIsLast`). So both
report the same turnaround, waiting and response, and the same switches, since there
is only one sequence of processes with work that is in order (`OneAscends`). The
hypotheses are those of the other theorems: charts with room, and, for the result of MLFQ,
no boost that finds anybody.

**`ShellProofs`.** `EntriesUnreaped` and `NoJobLost` rest on `RemovalTakesOne`: the
array closes the gap with its last entry, so exactly one pid goes as long as no pid
is entered twice, and that holds because a pid is given out again only when its
last bearer has been waited for. The type invariant (`TypeCorrect`) carries the range
of the loop variable of the cleanup while entries disappear under it.

Its second part is about `CommandParser`. `ParsesGrammar` says that a command is returned
exactly for the lines that can be read as words, redirections, at most one of each
kind, and `&` at the end, and that it is the one the line denotes, where `&` does not
stand earlier. `ParserInv` relates the tokens in front
of the next one to a reading of them (`ReadAs`: words up to `cut`, operators at `ops`).
For a rejected line no reading at all may exist, so the invariant also says that
there is no choice: any reading of the whole line agrees with the one so far
(`OnlyReadAs`). `CommandsAsWritten` holds for lines of any length, whatever the
words are and however many tokens fit.

Only model-checked: all liveness (`EveryComparisonEnds` and the like), since liveness
under fairness and ENABLED are beyond TLAPS as installed. Every safety invariant of the
passing runs is stated by a theorem, some under a named hypothesis. No module declares a
RECURSIVE operator, so that later proofs may use any of them.

## Limits of the model

* `pthread_rwlock_t`, semaphores, mutexes, condition variables, processes and
  `waitpid` are external and modelled from their use. Reader-writer locks have
  no preference.
* `NoOverdraft` assumes amounts that are not negative. The trace parser accepts
  negative ones; `bank_wrap` has both signs.
* In `TickClock` the pool and bank work of an operation is one opaque step of
  any duration; `BankEngine` models it. In `BankEngine` time is the number of
  ticks still due, so a tick that nobody waits for is not a step.
* `NonPreemptiveOrder` counts arrivals strictly before the dispatch: a completion event
  precedes an arrival at the same time in the queue.
* A failed `strdup` in `get_command` is left out, and so is what a child does
  between `fork` and its end.
* `ConfigAssumption` keeps out the configurations with which a run does not end
  (see above). Numbers of levels below 0, which the loader writes in front of its
  array, are left out, and so is a file of more than `MAX_PROCESSES` processes
  (`InputsAssumption`), more than 256 operations of a transaction, and accounts
  of operations beyond the table: the program writes out of bounds there.
* Text is abstracted to fields: a line is what `sscanf` makes of it. A transfer
  or deposit whose amount is missing in the trace reads as 0.
* Not modelled: the layout of charts and reports, the averages of
  `print_performance_metrics`, and the prototype `schedsim`, eight of whose files
  contain merge conflict markers: it is no program.

## Plan

Done: all modules of the table above, and the proofs of the bank, the pool, the
clock, the traces, the engine, the shell and its command lines, and of the simulator's
files, queues, CPU, chart, metrics, switches and averages, the order of FCFS and SJF, and
the turns of RR. What is left is beyond the provers (liveness) or outside the model (see
the limits above).
