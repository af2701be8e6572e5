---------------------------- MODULE TraceParser ----------------------------
(***************************************************************************)
(* lab_3: from the command line and its two files to the running           *)
(* transactions (parser.c, and the loop of main.c that starts them).       *)
(*                                                                         *)
(* A step takes an option, reads a line or starts a thread.  A line is a   *)
(* record of its fields: a missing amount or target reads as 0, and a      *)
(* label T<n> is the number n that atoi makes of it, 0 if there is none.   *)
(* Comments and lines that do not parse have no effect and are no step.    *)
(***************************************************************************)
EXTENDS Integers, Sequences, FiniteSets, FiniteSetsExt

CONSTANTS
  MaxAccounts, MaxTransactions,   \* MAX_ACCOUNTS, MAX_TRANSACTIONS
  IntMax,                         \* INT_MAX
  AccountLines,                   \* set of [id, balance]
  TraceLines,                     \* set of [id, tick, op, account, target, amount]
  TickOptions,                    \* what strtol may make of --tick-ms
  MaxLines                        \* bound on the lines of both files

TRANSACTION_END == -1
TICK_INTERVAL_MS == 10

ASSUME ParserAssumption ==
  /\ MaxAccounts \in Nat \ {0} /\ MaxTransactions \in Nat \ {0}
  /\ IntMax \in Nat /\ MaxLines \in Nat
  /\ TickOptions \subseteq Int

VARIABLES
  stage,         \* "options", "accounts", "trace", "starting", "running", "exited"
  given,      \* the files named so far
  tick_ms,
  balances,   \* bank.accounts[].balance_centavos
  tsx,        \* the transactions, in slots 0..MaxTransactions-1
  tx_count,
  started,    \* slots whose thread main() has created
  accountFile, traceFile    \* history: the lines that have been read

arguments == <<given, tick_ms>>
transactions == <<tsx, tx_count, started>>
files == <<accountFile, traceFile>>
traceVars == <<stage, arguments, balances, transactions, files>>

Slots == 0..(MaxTransactions - 1)
EmptySlot == [tx_id |-> 0, start_tick |-> 0, ops |-> <<>>]

TraceInit ==
  /\ stage = "options" /\ given = {} /\ tick_ms = TICK_INTERVAL_MS
  /\ balances = [a \in 0..(MaxAccounts - 1) |-> 0]
  /\ tsx = [n \in Slots |-> EmptySlot] /\ tx_count = 0
  /\ started = 0
  /\ accountFile = <<>> /\ traceFile = <<>>

-----------------------------------------------------------------------------
\* The options, in any order and number; --verbose and --deadlock only set
\* their flags.
NameFile(f) ==
  /\ stage = "options"
  /\ given' = given \cup {f}
  /\ UNCHANGED <<stage, tick_ms, balances, transactions, files>>

SetTick(ms) ==
  /\ stage = "options"
  /\ tick_ms' = ms
  /\ stage' = IF ms <= 0 THEN "exited" ELSE stage
  /\ UNCHANGED <<given, balances, transactions, files>>

NeedsBoth == given = {"accounts", "trace"}
EndOptions ==
  /\ stage = "options"
  /\ stage' = IF NeedsBoth THEN "accounts" ELSE "exited"
  /\ UNCHANGED <<arguments, balances, transactions, files>>

\* An option nobody knows, a number that is none, a file that does not open.
GiveUp ==
  /\ \/ stage = "options"
     \/ stage = "accounts" /\ accountFile = <<>>
     \/ stage = "trace" /\ traceFile = <<>>
  /\ stage' = "exited"
  /\ UNCHANGED <<arguments, balances, transactions, files>>

-----------------------------------------------------------------------------
\* load_accounts.  The balance is read as a long and stored as an int.
IntOf(x) == ((x + IntMax + 1) % (2 * (IntMax + 1))) - (IntMax + 1)

ValidAccount(id) == 0 <= id /\ id < MaxAccounts

FirstBalance(b, l) ==
  IF ValidAccount(l.id) /\ b[l.id] = 0
    THEN [b EXCEPT ![l.id] = IntOf(l.balance)] ELSE b
SetBalance(b, l) ==
  IF ValidAccount(l.id)
    THEN [b EXCEPT ![l.id] = IntOf(l.balance)] ELSE b

RoomToRead == Len(accountFile) + Len(traceFile) < MaxLines

ReadAccount(l) ==
  /\ stage = "accounts" /\ RoomToRead
  /\ balances' = SetBalance(balances, l)
  /\ accountFile' = Append(accountFile, l)
  /\ UNCHANGED <<stage, arguments, transactions, traceFile>>

EndAccounts ==
  /\ stage = "accounts"
  /\ stage' = "trace"
  /\ UNCHANGED <<arguments, balances, transactions, files>>

-----------------------------------------------------------------------------
\* load_transactions.

\* An operation nobody knows is a balance inquiry; only a transfer has a
\* target, and a balance inquiry no amount.
get_op_type(op) ==
  IF op \in {"DEPOSIT", "WITHDRAW", "TRANSFER"} THEN op ELSE "BALANCE"

Operation(l) ==
  LET type == get_op_type(l.op)
  IN  [type |-> type, account_id |-> l.account,
       target_account |-> IF type = "TRANSFER" THEN l.target ELSE 0,
       amount_centavos |-> IF type = "BALANCE" THEN 0 ELSE l.amount]

\* The slot of a label is the first one with its number.  A slot not taken yet
\* has number 0, so that a label 0 finds one and takes none.
LastSlotOf(id) == {n \in Slots : n = tx_count - 1 /\ tsx[n].tx_id = id}
SlotsOf(id) == {n \in Slots : tsx[n].tx_id = id}

\* A new transaction keeps the operations its slot has gathered before.
NewTransaction(slot, l) == [slot EXCEPT !.tx_id = l.id, !.start_tick = l.tick]
AddOperation(slot, l) == [slot EXCEPT !.ops = Append(@, Operation(l))]

AnySlot == tx_count < MaxTransactions
RoomForSentinel == tx_count < MaxTransactions - 1

ReadOperation(l) ==
  /\ stage = "trace" /\ RoomForSentinel /\ RoomToRead
  /\ IF SlotsOf(l.id) # {}
       THEN /\ tsx' = [tsx EXCEPT ![Min(SlotsOf(l.id))] = AddOperation(@, l)]
            /\ UNCHANGED tx_count
       ELSE /\ tsx' = [tsx EXCEPT ![tx_count] = AddOperation(NewTransaction(@, l), l)]
            /\ tx_count' = tx_count + 1
  /\ traceFile' = Append(traceFile, l)
  /\ UNCHANGED <<stage, arguments, balances, started, accountFile>>

\* The end of the file, or no slot left: the rest of the file is not read.
EndTrace ==
  /\ stage = "trace"
  /\ tsx' = [tsx EXCEPT ![tx_count].tx_id = TRANSACTION_END]
  /\ stage' = "starting"
  /\ UNCHANGED <<arguments, balances, tx_count, started, files>>

-----------------------------------------------------------------------------
\* main() creates a thread for each slot up to the first TRANSACTION_END.
CreateThread ==
  /\ stage = "starting" /\ started \in Slots
  /\ tsx[started].tx_id # TRANSACTION_END
  /\ started' = started + 1
  /\ UNCHANGED <<stage, arguments, balances, tsx, tx_count, files>>

AllCreated ==
  /\ stage = "starting" /\ started \in Slots
  /\ tsx[started].tx_id = TRANSACTION_END
  /\ stage' = "running"
  /\ UNCHANGED <<arguments, balances, transactions, files>>

TraceNext ==
  \/ \E f \in {"accounts", "trace"} : NameFile(f)
  \/ \E ms \in TickOptions : SetTick(ms)
  \/ EndOptions \/ GiveUp
  \/ \E l \in AccountLines : ReadAccount(l)
  \/ EndAccounts
  \/ \E l \in TraceLines : ReadOperation(l)
  \/ EndTrace \/ CreateThread \/ AllCreated

TraceSpec == TraceInit /\ [][TraceNext]_traceVars
FairTraceSpec == TraceSpec /\ WF_traceVars(EndTrace \/ CreateThread \/ AllCreated)

-----------------------------------------------------------------------------
\* Each account has the balance of the last line that names it, as an int, and
\* nothing else of the file has any effect (parser.c 27-40).
AccountsAsWritten ==
  stage # "options" => \A a \in DOMAIN balances :
    LET lines == {k \in DOMAIN accountFile : accountFile[k].id = a}
    IN  balances[a] = IF lines = {} THEN 0 ELSE IntOf(accountFile[Max(lines)].balance)

\* The lines that introduce a number, and whose operation a line becomes: a
\* line without a number belongs to the next transaction that is introduced.
Introduces(j) ==
  /\ traceFile[j].id # 0
  /\ \A m \in 1..(j - 1) : traceFile[m].id # traceFile[j].id
Introductions == {j \in DOMAIN traceFile : Introduces(j)}
Owner(j) ==
  LET later == {m \in Introductions : m > j}
  IN  IF traceFile[j].id # 0 THEN traceFile[j].id
      ELSE IF later # {} THEN traceFile[Min(later)].id ELSE 0

\* How many come before, the lines a number owns, and their operations.
Before(S, j) == Cardinality({m \in S : m < j})
LinesOf(id) == {j \in DOMAIN traceFile : Owner(j) = id}
OperationsOf(ops, lines) ==
  /\ Len(ops) = Cardinality(lines)
  /\ \A j \in lines : ops[Before(lines, j) + 1] = Operation(traceFile[j])

\* The transactions main() starts are those of the trace, in the order in which
\* it introduces them, each at the tick of its first line and with exactly its
\* own operations in the order of the trace, up to a transaction whose number
\* is that of the sentinel (parser.c 66-103, main.c 38-40).
StartedAsWritten ==
  LET ended == {j \in Introductions : traceFile[j].id = TRANSACTION_END}
  IN  /\ stage \in {"starting", "running"} =>
           /\ tx_count = Cardinality(Introductions)
           /\ \A j \in Introductions :
                LET slot == tsx[Before(Introductions, j)]
                IN  /\ slot.tx_id = traceFile[j].id
                    /\ slot.start_tick = traceFile[j].tick
                    /\ OperationsOf(slot.ops, LinesOf(slot.tx_id))
      /\ stage = "running" =>
           started = IF ended = {} THEN tx_count
                                   ELSE Before(Introductions, Min(ended))

\* Once a trace is being read its transactions get going: whatever the trace,
\* main() finds a sentinel inside the array and both files and a period for the
\* timer were given (parser.c 62-103, 153-179; main.c 38-44).
EveryTraceRuns ==
  stage = "starting" ~> (stage = "running" /\ tick_ms > 0 /\ NeedsBoth)
=============================================================================
