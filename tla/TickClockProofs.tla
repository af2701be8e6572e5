-------------------------- MODULE TickClockProofs --------------------------
(***************************************************************************)
(* Proofs about TickClock for any transactions, start ticks and numbers of *)
(* operations: no wake-up is missed and the reported metrics add up.  Then *)
(* about TraceParser, which makes those threads: for any two files, what   *)
(* is loaded and started is what is written.                               *)
(***************************************************************************)
EXTENDS TickClock, TraceParser, FoldProofs

\* What the start, the ticks reported as waiting and the completed operations
\* of a thread amount to.
Covered(t) == actual_start[t] + wait_ticks[t] + op[t]

\* What is known of a thread at each place of execute_transaction.
Timed(t) ==
  /\ pc[t] = "await_start" => target[t] = start_tick[t]
  /\ pc[t] = "stamp_start" => start_tick[t] <= global_tick
  /\ pc[t] \in {"await_start", "stamp_start"} => op[t] = 0 /\ wait_ticks[t] = 0
  /\ pc[t] \notin {"await_start", "stamp_start"} => start_tick[t] <= actual_start[t]
  /\ pc[t] \in {"loop", "commit"} => Covered(t) <= global_tick
  /\ pc[t] \in {"operate", "account", "abort"} =>
       Covered(t) <= tick_before[t] /\ tick_before[t] <= global_tick
  /\ pc[t] = "await_next" => Covered(t) + 1 <= target[t]
  /\ pc[t] = "exited" => Covered(t) <= actual_end[t]

\* How many operations a thread has completed at each place.
Counted(t) ==
  /\ pc[t] \notin {"commit", "exited", "abort"} => op[t] <= num_ops[t]
  /\ pc[t] \in {"operate", "account", "await_next"} => op[t] < num_ops[t]
  /\ pc[t] = "commit" => op[t] = num_ops[t]
  /\ status[t] = "TX_COMMITTED" => op[t] = num_ops[t] /\ pc[t] = "exited"

ClockInv ==
  /\ TypeOK
  /\ NoMissedWakeup
  /\ \A t \in Threads : Timed(t) /\ Counted(t)

\* No thread has been started at tick 0.
LEMMA ClockInit == Init => ClockInv
BY TickAssumption
DEF Init, ClockInv, TypeOK, NoMissedWakeup, Timed, Counted, Covered, Places,
    Waiting, Zero

\* A step of one thread leaves every other thread's facts as they were.
LEMMA ClockStep == ClockInv /\ [Next]_vars => ClockInv'
<1> SUFFICES ASSUME ClockInv, [Next]_vars PROVE ClockInv'
  OBVIOUS
<1> USE TickAssumption
    DEF ClockInv, TypeOK, NoMissedWakeup, Timed, Counted, Covered, Places,
        Waiting, Goto, stamps
<1>1. CASE UNCHANGED vars
  BY <1>1 DEF vars
<1>2. CASE TestRunning
  BY <1>2 DEF TestRunning
<1>3. CASE Tick
  BY <1>3 DEF Tick, StillParked
<1>4. CASE StopTimer
  BY <1>4 DEF StopTimer
<1>5. ASSUME NEW t \in Threads, SpuriousWakeup(t) PROVE ClockInv'
  BY <1>5 DEF SpuriousWakeup
<1>6. ASSUME NEW t \in Threads, Park(t) PROVE ClockInv'
  BY <1>6 DEF Park
<1>7. ASSUME NEW t \in Threads, Resume(t) PROVE ClockInv'
  BY <1>7 DEF Resume, After
<1>8. ASSUME NEW t \in Threads, StampStart(t) PROVE ClockInv'
  BY <1>8 DEF StampStart
<1>9. ASSUME NEW t \in Threads, BeginOperation(t) PROVE ClockInv'
  BY <1>9 DEF BeginOperation
<1>10. ASSUME NEW t \in Threads, EndLoop(t) PROVE ClockInv'
  BY <1>10 DEF EndLoop
<1>11. ASSUME NEW t \in Threads, Operate(t) PROVE ClockInv'
  BY <1>11 DEF Operate
<1>12. ASSUME NEW t \in Threads, Account(t) PROVE ClockInv'
  BY <1>12 DEF Account, NextTarget, Waited
<1>13. ASSUME NEW t \in Threads, Finish(t) PROVE ClockInv'
  BY <1>13 DEF Finish
<1>14. QED
  BY <1>1, <1>2, <1>3, <1>4, <1>5, <1>6, <1>7, <1>8, <1>9, <1>10, <1>11,
     <1>12, <1>13 DEF Next, Transaction

\* So it always holds.
LEMMA ClockInvariant == Spec => []ClockInv
BY ClockInit, ClockStep, PTL DEF Spec

\* Every variable keeps its type; no reported wait is negative.
THEOREM ClockTypes == Spec => []TypeOK
<1>1. ClockInv => TypeOK
  BY DEF ClockInv
<1>2. QED
  BY ClockInvariant, <1>1, PTL

\* A parked thread waits for a tick that has not come.
THEOREM WakeupsReachAll == Spec => []NoMissedWakeup
<1>1. ClockInv => NoMissedWakeup
  BY DEF ClockInv
<1>2. QED
  BY ClockInvariant, <1>1, PTL

\* The start, waits and operations a transaction reports fit between its start
\* and its end.
THEOREM MetricsSound == Spec => []MetricsAddUp
<1>1. ClockInv => MetricsAddUp
  BY DEF ClockInv, MetricsAddUp, Timed, Counted, Covered
<1>2. QED
  BY ClockInvariant, <1>1, PTL

-----------------------------------------------------------------------------
\* main() and parser.c, which make the transactions of these threads out of the
\* two files.

\* A new number beyond all of a set of naturals is the greatest, and changes
\* the least only of the empty set.
LEMMA BeyondAll ==
  ASSUME NEW S \in SUBSET Nat, NEW n \in Nat, \A m \in S : m < n
  PROVE  /\ Max(S \cup {n}) = n
         /\ Min({n}) = n
         /\ S # {} => Min(S) \in S /\ Min(S \cup {n}) = Min(S)
<1>1. Max(S \cup {n}) = n
  <2>1. n \in S \cup {n} /\ \A y \in S \cup {n} : n >= y
    OBVIOUS
  <2>2. \A x \in S \cup {n} : (\A y \in S \cup {n} : x >= y) => x = n
    OBVIOUS
  <2>3. QED
    BY <2>1, <2>2 DEF Max
<1>2. Min({n}) = n
  BY DEF Min
<1>3. ASSUME S # {} PROVE Min(S) \in S /\ Min(S \cup {n}) = Min(S)
  <2>1. PICK k \in S : \A m \in S : k <= m
    BY <1>3, LeastNatural
  <2>2. \A x \in S \cup {n} : (\A y \in S \cup {n} : x <= y) <=> x = k
    BY <2>1
  <2>3. \A x \in S : (\A y \in S : x <= y) <=> x = k
    BY <2>1
  <2>4. Min(S) = k
    BY <2>1, <2>3 DEF Min
  <2>5. Min(S \cup {n}) = k
    BY <2>1, <2>2 DEF Min
  <2>6. QED
    BY <2>1, <2>4, <2>5
<1>4. QED
  BY <1>1, <1>2, <1>3

-----------------------------------------------------------------------------
\* The balances are those of the lines read so far.
Written(a) == {k \in DOMAIN accountFile : accountFile[k].id = a}
AccountsInv ==
  /\ DOMAIN balances = 0..(MaxAccounts - 1)
  /\ accountFile \in Seq(AccountLines)
  /\ \A a \in DOMAIN balances :
       balances[a] = IF Written(a) = {} THEN 0
                     ELSE IntOf(accountFile[Max(Written(a))].balance)

\* A line sets the balance of its account and no other.
LEMMA AccountRead ==
  ASSUME AccountsInv, NEW l \in AccountLines, ReadAccount(l)
  PROVE  AccountsInv'
<1> DEFINE n == Len(accountFile) + 1
<1>1. /\ balances' = SetBalance(balances, l)
      /\ accountFile' = Append(accountFile, l)
  BY DEF ReadAccount
<1>2. /\ accountFile \in Seq(AccountLines) /\ n \in Nat \ {0} /\ DOMAIN accountFile = 1..(n - 1)
      /\ accountFile' \in Seq(AccountLines) /\ DOMAIN accountFile' = 1..n
      /\ accountFile'[n] = l /\ \A k \in 1..(n - 1) : accountFile'[k] = accountFile[k]
  BY <1>1 DEF AccountsInv
<1>3. DOMAIN balances' = DOMAIN balances /\ DOMAIN balances = 0..(MaxAccounts - 1)
  BY <1>1 DEF SetBalance, AccountsInv
<1> HIDE DEF n
<1>4. ASSUME NEW a \in DOMAIN balances
      PROVE  balances'[a] = IF Written(a)' = {} THEN 0
                            ELSE IntOf(accountFile'[Max(Written(a)')].balance)
  <2>1. Written(a)' = {k \in DOMAIN accountFile' : accountFile'[k].id = a}
    BY DEF Written
  <2>2. CASE a = l.id
    <3>1. ValidAccount(l.id)
      BY <1>3, <2>2, ParserAssumption DEF ValidAccount
    <3>2. balances'[a] = IntOf(l.balance)
      BY <1>1, <2>2, <3>1 DEF SetBalance
    <3>3. Written(a)' = Written(a) \cup {n}
      <4>1. \A k \in 1..n : k \in 1..(n - 1) \/ k = n
        BY <1>2
      <4>2. \A k \in 1..(n - 1) : k \in 1..n /\ k # n
        BY <1>2
      <4>3. n \in 1..n
        BY <1>2
      <4>4. QED
        BY <1>2, <2>1, <2>2, <4>1, <4>2, <4>3 DEF Written
    <3>4. Written(a) \in SUBSET Nat /\ \A m \in Written(a) : m < n
      BY <1>2 DEF Written
    <3>5. Max(Written(a)') = n
      <4>1. Max(Written(a) \cup {n}) = n
        BY <1>2, <3>4, BeyondAll
      <4>2. QED
        BY <3>3, <4>1
    <3>6. QED
      BY <1>2, <3>2, <3>3, <3>5
  <2>3. CASE a # l.id
    <3>1. balances'[a] = balances[a]
      BY <1>1, <2>3 DEF SetBalance
    <3>2. Written(a)' = Written(a)
      BY <1>2, <2>1, <2>3 DEF Written
    <3>3. Written(a) # {} => Max(Written(a)) \in Written(a)
      <4> SUFFICES ASSUME Written(a) # {} PROVE Max(Written(a)) \in Written(a)
        OBVIOUS
      <4>1. Written(a) \in SUBSET Nat /\ \A m \in Written(a) : m < n
        BY <1>2 DEF Written
      <4>2. {n - m : m \in Written(a)} \subseteq Nat /\ {n - m : m \in Written(a)} # {}
        BY <1>2, <4>1
      <4>3. PICK d \in {n - m : m \in Written(a)} : \A e \in {n - m : m \in Written(a)} : d <= e
        BY <4>2, LeastNatural
      <4>4. PICK x \in Written(a) : d = n - x
        OBVIOUS
      <4>5. \A y \in Written(a) : x >= y
        <5> TAKE y \in Written(a)
        <5>1. d <= n - y
          BY <4>3
        <5>2. QED
          BY <1>2, <4>1, <4>4, <5>1
      <4>6. QED
        BY <4>5 DEF Max
    <3>4. Max(Written(a)) \in Written(a) =>
            accountFile'[Max(Written(a))] = accountFile[Max(Written(a))]
      BY <1>2 DEF Written
    <3>5. QED
      BY <3>1, <3>2, <3>3, <3>4 DEF AccountsInv
  <2>4. QED
    BY <2>2, <2>3
<1>5. QED
  <2>1. \A a : Written(a)' = {k \in DOMAIN accountFile' : accountFile'[k].id = a}
    BY DEF Written
  <2>2. \A x : IntOf(x)' = IntOf(x)
    BY DEF IntOf
  <2>3. QED
    BY <1>2, <1>3, <1>4 DEF AccountsInv

\* Each account has the balance of the last line that names it, as an int, and
\* nothing else of the file has any effect (parser.c 27-40).
THEOREM BalancesAsWritten == TraceSpec => []AccountsAsWritten
<1>1. ASSUME TraceInit PROVE AccountsInv
  <2>1. accountFile = << >> /\ DOMAIN accountFile = {}
    BY <1>1 DEF TraceInit
  <2>2. QED
    BY <1>1, <2>1 DEF TraceInit, AccountsInv, Written
<1>2. ASSUME AccountsInv, [TraceNext]_traceVars
      PROVE  AccountsInv'
  <2>1. ASSUME NEW l \in AccountLines, ReadAccount(l) PROVE AccountsInv'
    BY <1>2, <2>1, AccountRead
  <2>2. ASSUME UNCHANGED <<balances, accountFile>> PROVE AccountsInv'
    BY <1>2, <2>2 DEF AccountsInv, Written
  <2>3. QED
    BY <1>2, <2>1, <2>2
       DEF TraceNext, traceVars, files, NameFile, SetTick,
           EndOptions, GiveUp, EndAccounts, ReadOperation,
           EndTrace, CreateThread, AllCreated
<1>3. AccountsInv => AccountsAsWritten
  BY DEF AccountsInv, Written, AccountsAsWritten
<1>4. QED
  <2>1. TraceInit => AccountsInv
    BY <1>1
  <2>2. AccountsInv /\ [TraceNext]_traceVars => AccountsInv'
    BY <1>2
  <2>3. QED
    BY <1>3, <2>1, <2>2, PTL DEF TraceSpec

-----------------------------------------------------------------------------
\* A new number beyond all of a finite set of naturals comes after them, and
\* changes nobody's place.
LEMMA PlaceBeyond ==
  ASSUME NEW S \in SUBSET Nat, IsFiniteSet(S), NEW n \in Nat, \A m \in S : m < n
  PROVE  /\ Cardinality(S \cup {n}) = Cardinality(S) + 1
         /\ Cardinality(S) \in Nat
         /\ Before(S \cup {n}, n) = Cardinality(S)
         /\ \A j \in S : /\ Before(S \cup {n}, j) = Before(S, j)
                         /\ Before(S, j) \in 0..(Cardinality(S) - 1)
<1>1. n \notin S
  OBVIOUS
<1>2. Cardinality(S \cup {n}) = Cardinality(S) + 1 /\ Cardinality(S) \in Nat
  BY <1>1, FS_AddElement, FS_CardinalityType
<1>3. {m \in S \cup {n} : m < n} = S
  <2>1. ~(n < n)
    OBVIOUS
  <2>2. QED
    BY <2>1, Zenon
<1>4. ASSUME NEW j \in S
      PROVE  /\ Before(S \cup {n}, j) = Before(S, j)
             /\ Before(S, j) \in 0..(Cardinality(S) - 1)
  <2> DEFINE below == {m \in S : m < j}
  <2>1. {m \in S \cup {n} : m < j} = below
    OBVIOUS
  <2>2. below \in SUBSET (S \ {j})
    OBVIOUS
  <2>3. IsFiniteSet(S \ {j}) /\ Cardinality(S \ {j}) = Cardinality(S) - 1
    BY FS_RemoveElement
  <2>4. IsFiniteSet(below) /\ Cardinality(below) <= Cardinality(S) - 1
    BY <2>2, <2>3, FS_Subset
  <2>5. Cardinality(below) \in Nat
    BY <2>4, FS_CardinalityType
  <2>6. Before(S, j) = Cardinality(below) /\ Before(S \cup {n}, j) = Cardinality(below)
    BY <2>1 DEF Before
  <2>7. QED
    BY <1>2, <2>4, <2>5, <2>6
<1>5. QED
  BY <1>2, <1>3, <1>4 DEF Before

\* A line is read: number l.id has been introduced before, or needs no
\* introduction, and owns one line more.
TraceGrows(l) ==
  /\ traceFile \in Seq(TraceLines) /\ l \in TraceLines
  /\ traceFile' = Append(traceFile, l)
Known(id) == id = 0 \/ \E k \in DOMAIN traceFile : traceFile[k].id = id

\* The lines that were there stay where they are.
LEMMA TraceMore ==
  ASSUME NEW l, TraceGrows(l), NEW n, n = Len(traceFile) + 1
  PROVE  /\ traceFile \in Seq(TraceLines) /\ traceFile' \in Seq(TraceLines)
         /\ n \in Nat \ {0} /\ DOMAIN traceFile = 1..(n - 1)
         /\ DOMAIN traceFile' = DOMAIN traceFile \cup {n}
         /\ traceFile'[n] = l /\ \A k \in DOMAIN traceFile : traceFile'[k] = traceFile[k]
<1>1. traceFile \in Seq(TraceLines) /\ l \in TraceLines /\ traceFile' = Append(traceFile, l)
  BY DEF TraceGrows
<1>2. n \in Nat \ {0} /\ DOMAIN traceFile = 1..(n - 1)
  BY <1>1
<1>3. DOMAIN traceFile' = 1..n
  BY <1>1
<1>4. 1..n = (1..(n - 1)) \cup {n}
  BY <1>2
<1>5. /\ traceFile' \in Seq(TraceLines) /\ traceFile'[n] = l
      /\ \A k \in DOMAIN traceFile : traceFile'[k] = traceFile[k]
  BY <1>1
<1>6. QED
  BY <1>1, <1>2, <1>3, <1>4, <1>5

\* The introductions so far stay what they are, and the new line may be one.
LEMMA IntroductionsMore ==
  ASSUME NEW l, TraceGrows(l), NEW n, n = Len(traceFile) + 1
  PROVE  Introductions' =
           IF Known(l.id) THEN Introductions ELSE Introductions \cup {n}
<1>1. /\ n \in Nat \ {0} /\ DOMAIN traceFile = 1..(n - 1)
      /\ DOMAIN traceFile' = DOMAIN traceFile \cup {n}
      /\ traceFile'[n] = l /\ \A k \in DOMAIN traceFile : traceFile'[k] = traceFile[k]
  BY TraceMore
<1>2. ASSUME NEW j \in DOMAIN traceFile PROVE Introduces(j)' <=> Introduces(j)
  <2>1. \A m \in 1..(j - 1) : m \in DOMAIN traceFile
    BY <1>1
  <2>2. QED
    BY <1>1, <2>1 DEF Introduces
<1>3. Introduces(n)' <=> ~Known(l.id)
  BY <1>1 DEF Introduces, Known
<1>4. Introductions' = {j \in DOMAIN traceFile' : Introduces(j)'}
  BY DEF Introductions
<1>5. \A j : j \in Introductions' <=>
               j \in Introductions \/ (j = n /\ ~Known(l.id))
  BY <1>1, <1>2, <1>3, <1>4 DEF Introductions
<1>6. QED
  BY <1>5

\* The line belongs to its number, and so do those without a number that
\* waited for the introduction of one.
LEMMA OwnersMore ==
  ASSUME NEW l, TraceGrows(l), NEW n, n = Len(traceFile) + 1, NEW x
  PROVE  /\ Known(l.id) => LinesOf(x)' = IF x = l.id THEN LinesOf(x) \cup {n}
                                                           ELSE LinesOf(x)
         /\ ~Known(l.id) => LinesOf(x)' =
              IF x = l.id THEN LinesOf(0) \cup {n}
              ELSE IF x = 0 THEN {} ELSE LinesOf(x)
<1>1. /\ n \in Nat \ {0} /\ DOMAIN traceFile = 1..(n - 1)
      /\ DOMAIN traceFile' = DOMAIN traceFile \cup {n}
      /\ traceFile'[n] = l /\ \A k \in DOMAIN traceFile : traceFile'[k] = traceFile[k]
  BY TraceMore
<1> DEFINE later(j) == {m \in Introductions : m > j}
<1>2. Introductions' =
        IF Known(l.id) THEN Introductions ELSE Introductions \cup {n}
  BY IntroductionsMore
<1>3. Introductions \subseteq DOMAIN traceFile
  BY DEF Introductions
<1>4. ASSUME NEW j \in DOMAIN traceFile
      PROVE  {m \in Introductions' : m > j} = IF Known(l.id) THEN later(j) ELSE later(j) \cup {n}
  BY <1>1, <1>2
<1>5. {m \in Introductions' : m > n} = {}
  BY <1>1, <1>2, <1>3
<1>6. \A j : Owner(j)' =
        IF traceFile'[j].id # 0 THEN traceFile'[j].id
        ELSE IF {m \in Introductions' : m > j} # {}
             THEN traceFile'[Min({m \in Introductions' : m > j})].id ELSE 0
  BY DEF Owner, Min
<1>7. Owner(n)' = l.id
  BY <1>1, <1>5, <1>6
<1>8. ASSUME NEW j \in DOMAIN traceFile
      PROVE  /\ later(j) # {} =>
                  /\ Min(later(j)) \in later(j)
                  /\ traceFile'[Min(later(j))] = traceFile[Min(later(j))]
                  /\ Min(later(j) \cup {n}) = Min(later(j))
             /\ Min({n}) = n
  <2>1. later(j) \in SUBSET Nat /\ \A m \in later(j) : m < n
    BY <1>1, <1>3
  <2> HIDE DEF later
  <2>2. /\ later(j) # {} => Min(later(j)) \in later(j)
                            /\ Min(later(j) \cup {n}) = Min(later(j))
        /\ Min({n}) = n
    BY <1>1, <2>1, BeyondAll
  <2>3. later(j) \subseteq DOMAIN traceFile
    BY <1>3 DEF later
  <2>4. QED
    BY <1>1, <2>2, <2>3
<1>9. \A j \in DOMAIN traceFile :
        Owner(j) = IF traceFile[j].id # 0 THEN traceFile[j].id
                         ELSE IF later(j) # {} THEN traceFile[Min(later(j))].id ELSE 0
  BY DEF Owner
<1> HIDE DEF later
<1>10. ASSUME NEW j \in DOMAIN traceFile, Known(l.id)
       PROVE  Owner(j)' = Owner(j)
  BY <1>1, <1>4, <1>6, <1>8, <1>9, <1>10
<1>11. ASSUME NEW j \in DOMAIN traceFile, ~Known(l.id)
       PROVE  /\ Owner(j)' = IF Owner(j) = 0 THEN l.id ELSE Owner(j)
              /\ Owner(j) # l.id
  <2>1. l.id # 0 /\ \A k \in DOMAIN traceFile : traceFile[k].id # l.id
    BY <1>11 DEF Known
  <2>2. CASE traceFile[j].id # 0
    BY <1>1, <1>6, <1>9, <2>1, <2>2
  <2>3. CASE traceFile[j].id = 0 /\ later(j) # {}
    <3>1. Min(later(j)) \in DOMAIN traceFile /\ traceFile[Min(later(j))].id # 0
      BY <1>3, <1>8, <2>3 DEF later, Introductions, Introduces
    <3>2. {m \in Introductions' : m > j} = later(j) \cup {n}
      BY <1>4, <1>11
    <3>3. Owner(j)' = traceFile'[Min(later(j) \cup {n})].id
      BY <1>1, <1>6, <2>3, <3>2
    <3>4. QED
      BY <1>8, <1>9, <2>1, <2>3, <3>1, <3>3
  <2>4. CASE traceFile[j].id = 0 /\ later(j) = {}
    <3>1. {m \in Introductions' : m > j} = {n}
      BY <1>4, <1>11, <2>4
    <3>2. Owner(j)' = traceFile'[Min({n})].id
      BY <1>1, <1>6, <2>4, <3>1
    <3>3. QED
      BY <1>1, <1>8, <1>9, <2>1, <2>4, <3>2
  <2>5. QED
    BY <2>2, <2>3, <2>4
<1>12. \A j : j \in LinesOf(x)' <=> j \in DOMAIN traceFile' /\ Owner(j)' = x
  BY DEF LinesOf
<1>13. \A j, y : j \in LinesOf(y) <=> j \in DOMAIN traceFile /\ Owner(j) = y
  BY DEF LinesOf
<1>14. ASSUME Known(l.id)
       PROVE  LinesOf(x)' = IF x = l.id THEN LinesOf(x) \cup {n} ELSE LinesOf(x)
  BY <1>1, <1>7, <1>10, <1>12, <1>13, <1>14
<1>15. ASSUME ~Known(l.id)
       PROVE  LinesOf(x)' = IF x = l.id THEN LinesOf(0) \cup {n}
                                  ELSE IF x = 0 THEN {} ELSE LinesOf(x)
  <2>1. l.id # 0
    BY <1>15 DEF Known
  <2>2. \A j \in DOMAIN traceFile :
          Owner(j)' = IF Owner(j) = 0 THEN l.id ELSE Owner(j)
    BY <1>11, <1>15
  <2>3. \A j \in DOMAIN traceFile : Owner(j) # l.id
    BY <1>11, <1>15
  <2>4. \A j : j \in LinesOf(x)' <=>
                 \/ j = n /\ x = l.id
                 \/ j \in DOMAIN traceFile /\ Owner(j)' = x
    BY <1>1, <1>7, <1>12
  <2>5. CASE x = l.id
    BY <1>13, <2>1, <2>2, <2>3, <2>4, <2>5
  <2>6. CASE x = 0
    BY <2>1, <2>2, <2>4, <2>6
  <2>7. CASE x # l.id /\ x # 0
    BY <1>13, <2>2, <2>4, <2>7
  <2>8. QED
    BY <2>1, <2>5, <2>6, <2>7
<1>16. QED
  BY <1>14, <1>15

\* The operations of these lines stay what they are, and one more follows.
Ops == {Operation(l) : l \in TraceLines}

\* A number that owns one line more has one operation more, after its others.
LEMMA OperationsMore ==
  ASSUME NEW l, TraceGrows(l), NEW n, n = Len(traceFile) + 1,
         NEW lines \in SUBSET (DOMAIN traceFile), NEW ops \in Seq(Ops),
         OperationsOf(ops, lines), NEW more, more = Append(ops, Operation(l))
  PROVE  /\ more \in Seq(Ops)
         /\ OperationsOf(ops, lines)' /\ OperationsOf(more, lines \cup {n})'
<1>1. /\ n \in Nat \ {0} /\ DOMAIN traceFile = 1..(n - 1)
      /\ traceFile'[n] = l /\ \A k \in DOMAIN traceFile : traceFile'[k] = traceFile[k]
  BY TraceMore
<1>2. l \in TraceLines
  BY DEF TraceGrows
<1>3. lines \in SUBSET Nat /\ IsFiniteSet(lines) /\ \A m \in lines : m < n
  <2>1. lines \in SUBSET Nat /\ \A m \in lines : m < n /\ m <= n
    BY <1>1
  <2>2. QED
    BY <1>1, <2>1, FS_BoundedSetOfNaturals
<1>4. /\ Cardinality(lines \cup {n}) = Cardinality(lines) + 1
      /\ Cardinality(lines) \in Nat
      /\ Before(lines \cup {n}, n) = Cardinality(lines)
      /\ \A j \in lines : /\ Before(lines \cup {n}, j) = Before(lines, j)
                          /\ Before(lines, j) \in 0..(Cardinality(lines) - 1)
  BY <1>1, <1>3, PlaceBeyond
<1>5. /\ Len(ops) = Cardinality(lines)
      /\ \A j \in lines : ops[Before(lines, j) + 1] = Operation(traceFile[j])
  BY DEF OperationsOf
<1>6. /\ more \in Seq(Ops) /\ Len(more) = Len(ops) + 1
      /\ more[Len(ops) + 1] = Operation(l)
      /\ \A k \in 1..Len(ops) : more[k] = ops[k]
  BY <1>2 DEF Ops
<1>7. \A j \in lines : traceFile'[j] = traceFile[j]
  BY <1>1
<1>8. \A m : OperationsOf(ops, m)' <=>
        /\ Len(ops) = Cardinality(m)
        /\ \A j \in m : ops[Before(m, j) + 1] = Operation(traceFile'[j])
  BY DEF OperationsOf, Before, Operation, get_op_type
<1>9. \A m : OperationsOf(more, m)' <=>
        /\ Len(more) = Cardinality(m)
        /\ \A j \in m : more[Before(m, j) + 1] = Operation(traceFile'[j])
  BY DEF OperationsOf, Before, Operation, get_op_type
<1>10. OperationsOf(ops, lines)'
  BY <1>5, <1>7, <1>8
<1>11. \A j \in lines : Before(lines, j) + 1 \in 1..Len(ops)
  BY <1>4, <1>5
<1>12. OperationsOf(more, lines \cup {n})'
  <2>1. ASSUME NEW j \in lines
        PROVE  more[Before(lines \cup {n}, j) + 1] = Operation(traceFile'[j])
    BY <1>4, <1>5, <1>6, <1>7, <1>11
  <2>2. more[Before(lines \cup {n}, n) + 1] = Operation(traceFile'[n])
    BY <1>1, <1>4, <1>5, <1>6
  <2>3. Len(more) = Cardinality(lines \cup {n})
    BY <1>4, <1>5, <1>6
  <2>4. QED
    BY <1>9, <2>1, <2>2, <2>3
<1>13. QED
  BY <1>6, <1>10, <1>12

\* The slots: each introduction has one, in their order, with its operations so
\* far; the next slot gathers those that wait for a number and is marked as the
\* end once the file has been read; and the rest are empty.
SlotRecords ==
  [tx_id : {l.id : l \in TraceLines} \cup {0, TRANSACTION_END},
   start_tick : {l.tick : l \in TraceLines} \cup {0},
   ops : Seq(Ops)]
Loaded == stage \in {"starting", "running"}
Mark == IF Loaded THEN TRANSACTION_END ELSE 0
SlotTaken(n, j) ==
  /\ tsx[n].tx_id = traceFile[j].id /\ tsx[n].start_tick = traceFile[j].tick
  /\ OperationsOf(tsx[n].ops, LinesOf(traceFile[j].id))
SlotsInv ==
  /\ traceFile \in Seq(TraceLines)
  /\ tsx \in [Slots -> SlotRecords]
  /\ tx_count \in Slots /\ tx_count = Cardinality(Introductions)
  /\ \A n \in 0..(tx_count - 1) :
       \E j \in Introductions : Before(Introductions, j) = n
  /\ \A k \in DOMAIN traceFile : traceFile[k].id # 0 =>
       \E j \in Introductions : traceFile[j].id = traceFile[k].id
  /\ \A j \in Introductions : SlotTaken(Before(Introductions, j), j)
  /\ OperationsOf(tsx[tx_count].ops, LinesOf(0))
  /\ tsx[tx_count].tx_id = Mark
  /\ \A n \in Slots : n > tx_count => tsx[n].tx_id = 0 /\ tsx[n].ops = << >>

\* The threads: one for each slot in front of a sentinel.
ThreadsInv ==
  /\ started \in 0..tx_count
  /\ \A n \in 0..(started - 1) : tsx[n].tx_id # TRANSACTION_END
  /\ ~Loaded => started = 0
  /\ stage = "running" => tsx[started].tx_id = TRANSACTION_END

\* An introduction has a place of its own in front of the slot in use, under a
\* number no other slot has.
LEMMA SlotOfLine ==
  ASSUME SlotsInv
  PROVE  /\ Introductions \in SUBSET Nat /\ IsFiniteSet(Introductions)
         /\ \A j \in Introductions :
              /\ Before(Introductions, j) \in 0..(tx_count - 1)
              /\ j \in DOMAIN traceFile /\ traceFile[j].id # 0
         /\ \A j, k \in Introductions : traceFile[j].id = traceFile[k].id => j = k
         /\ 0..(tx_count - 1) \subseteq Slots /\ tx_count \in Nat
         /\ \A n \in 0..(tx_count - 1) : tsx[n].tx_id # 0
<1>1. \A j \in Introductions :
        /\ j \in DOMAIN traceFile /\ traceFile[j].id # 0
        /\ \A m \in 1..(j - 1) : traceFile[m].id # traceFile[j].id
  BY DEF Introductions, Introduces
<1>2. DOMAIN traceFile = 1..Len(traceFile) /\ Len(traceFile) \in Nat
  BY DEF SlotsInv
<1>3. \A j, k \in Introductions : traceFile[j].id = traceFile[k].id => j = k
  <2>1. ASSUME NEW j \in Introductions, NEW k \in Introductions,
               traceFile[j].id = traceFile[k].id, j < k
        PROVE  FALSE
    <3>1. j \in 1..(k - 1)
      BY <1>1, <1>2, <2>1
    <3>2. QED
      BY <1>1, <2>1, <3>1
  <2>2. QED
    BY <1>1, <1>2, <2>1
<1>4. Introductions \in SUBSET Nat /\ \A j \in Introductions : j <= Len(traceFile)
  BY <1>1, <1>2
<1>5. IsFiniteSet(Introductions)
  BY <1>2, <1>4, FS_BoundedSetOfNaturals
<1>6. \A j \in Introductions :
        Before(Introductions, j) \in 0..(Cardinality(Introductions) - 1)
  <2>1. Len(traceFile) + 1 \in Nat /\ \A m \in Introductions : m < Len(traceFile) + 1
    BY <1>2, <1>4
  <2>2. QED
    BY <1>4, <1>5, <2>1, PlaceBeyond
<1>7. tx_count = Cardinality(Introductions) /\ tx_count \in Slots
  BY DEF SlotsInv
<1>8. 0..(tx_count - 1) \subseteq Slots /\ tx_count \in Nat
  BY <1>7, ParserAssumption DEF Slots
<1>9. \A n \in 0..(tx_count - 1) : tsx[n].tx_id # 0
  <2> TAKE n \in 0..(tx_count - 1)
  <2>1. PICK j \in Introductions : Before(Introductions, j) = n
    BY DEF SlotsInv
  <2>2. tsx[n].tx_id = traceFile[j].id
    BY <2>1 DEF SlotsInv, SlotTaken
  <2>3. QED
    BY <1>1, <2>2
<1>10. QED
  BY <1>1, <1>3, <1>4, <1>5, <1>6, <1>7, <1>8, <1>9

\* A line of a number that is there goes to the slot of that number, and one
\* without a number to the slot that gathers.
LEMMA KnownLine ==
  ASSUME SlotsInv, stage = "trace", NEW l, TraceGrows(l),
         Known(l.id), ReadOperation(l)
  PROVE  SlotsInv' /\ tx_count' = tx_count
<1>0. PICK n : n = Len(traceFile) + 1
  OBVIOUS
<1> DEFINE I == Introductions
           place(j) == Before(I, j)
<1>1. /\ I \in SUBSET Nat /\ IsFiniteSet(I)
      /\ \A j \in I : /\ place(j) \in 0..(tx_count - 1)
                      /\ j \in DOMAIN traceFile /\ traceFile[j].id # 0
      /\ \A j, k \in I : traceFile[j].id = traceFile[k].id => j = k
      /\ 0..(tx_count - 1) \subseteq Slots /\ tx_count \in Nat
      /\ \A m \in 0..(tx_count - 1) : tsx[m].tx_id # 0
  BY SlotOfLine
<1>2. /\ n \in Nat \ {0} /\ DOMAIN traceFile = 1..(n - 1)
      /\ traceFile' \in Seq(TraceLines)
      /\ DOMAIN traceFile' = DOMAIN traceFile \cup {n}
      /\ traceFile'[n] = l /\ \A k \in DOMAIN traceFile : traceFile'[k] = traceFile[k]
  BY <1>0, TraceMore
<1>3. /\ \A j \in I : \A k \in I : traceFile[k].id = traceFile[j].id => place(k) = place(j)
      /\ \A m \in 0..(tx_count - 1) : \E j \in I : place(j) = m
      /\ \A j \in I : SlotTaken(place(j), j)
      /\ \A k \in DOMAIN traceFile : traceFile[k].id # 0 => \E j \in I : traceFile[j].id = traceFile[k].id
      /\ tsx[tx_count].tx_id = 0
      /\ \A m \in Slots : m > tx_count => tsx[m].tx_id = 0
  BY <1>1 DEF SlotsInv, Mark, Loaded
<1>4. /\ tsx \in [Slots -> SlotRecords]
      /\ tx_count \in Slots /\ Slots \subseteq Nat
  BY DEF SlotsInv, Slots
<1> DEFINE at(s) == /\ s \in Slots /\ tsx[s].tx_id = l.id
                    /\ IF l.id = 0 THEN s = tx_count
                                   ELSE \E j \in I : traceFile[j].id = l.id /\ place(j) = s
<1>5. \E s : at(s) /\ \A m \in SlotsOf(l.id) : s <= m
  <2>1. CASE l.id = 0
    <3>1. ASSUME NEW m \in SlotsOf(l.id) PROVE tx_count <= m
      <4>1. m \in Nat /\ tsx[m].tx_id = 0
        BY <1>4, <2>1 DEF SlotsOf
      <4>2. m \notin 0..(tx_count - 1)
        BY <1>1, <4>1
      <4>3. QED
        BY <1>1, <4>1, <4>2
    <3>2. QED
      BY <1>3, <1>4, <2>1, <3>1
  <2>2. CASE l.id # 0
    <3>1. PICK k \in DOMAIN traceFile : traceFile[k].id = l.id
      BY <2>2 DEF Known
    <3>2. PICK j \in I : traceFile[j].id = l.id
      BY <1>3, <2>2, <3>1
    <3>3. tsx[place(j)].tx_id = l.id /\ place(j) \in Slots
      BY <1>1, <1>3, <3>2 DEF SlotTaken
    <3>4. ASSUME NEW m \in SlotsOf(l.id) PROVE m = place(j)
      <4>1. m \in Slots /\ m \in Nat /\ tsx[m].tx_id = l.id
        BY <1>4 DEF SlotsOf
      <4>2. m \in 0..(tx_count - 1)
        BY <1>1, <1>3, <2>2, <4>1
      <4>3. PICK k1 \in I : place(k1) = m
        BY <1>3, <4>2
      <4>4. traceFile[k1].id = l.id
        BY <1>3, <4>1, <4>3 DEF SlotTaken
      <4>5. QED
        BY <1>3, <3>2, <4>3, <4>4
    <3>5. QED
      BY <1>4, <2>2, <3>2, <3>3, <3>4
  <2>3. QED
    BY <2>1, <2>2
<1>6. PICK s : at(s) /\ \A m \in SlotsOf(l.id) : s <= m
  BY <1>5
<1>7. s \in SlotsOf(l.id)
  BY <1>6 DEF SlotsOf
<1>8. Min(SlotsOf(l.id)) = s
  <2>1. SlotsOf(l.id) \subseteq Nat
    BY <1>4 DEF SlotsOf
  <2>2. \A x \in SlotsOf(l.id) : (\A y \in SlotsOf(l.id) : x <= y) => x = s
    BY <1>6, <1>7, <2>1
  <2>3. QED
    BY <1>6, <1>7, <2>2 DEF Min
<1>9. /\ tsx' = [tsx EXCEPT ![s] = [tsx[s] EXCEPT !.ops = Append(tsx[s].ops, Operation(l))]]
      /\ tx_count' = tx_count /\ stage' = stage
  BY <1>7, <1>8 DEF ReadOperation, AddOperation
<1>10. /\ tsx[s] \in SlotRecords /\ tsx[s].ops \in Seq(Ops) /\ s \in Slots
  BY <1>4, <1>6 DEF SlotRecords
<1>11. PICK more : more = Append(tsx[s].ops, Operation(l))
  OBVIOUS
<1>12. Operation(l) \in Ops
  BY DEF Ops, TraceGrows
<1>13. more \in Seq(Ops)
  BY <1>10, <1>11, <1>12
<1>14. /\ tsx' \in [Slots -> SlotRecords]
       /\ tsx'[s].ops = more /\ tsx'[s].tx_id = tsx[s].tx_id
       /\ tsx'[s].start_tick = tsx[s].start_tick
       /\ \A m \in Slots : m # s => tsx'[m] = tsx[m]
  BY <1>4, <1>9, <1>10, <1>11, <1>13 DEF SlotRecords
<1>15. /\ Introductions' = I
       /\ \A x : LinesOf(x)' = IF x = l.id THEN LinesOf(x) \cup {n}
                                                 ELSE LinesOf(x)
  BY <1>0, IntroductionsMore, OwnersMore
<1>16. ASSUME NEW m \in Slots, NEW x, OperationsOf(tsx[m].ops, LinesOf(x)),
              m = s <=> x = l.id
       PROVE  OperationsOf(tsx[m].ops, LinesOf(x))'
  <2>1. PICK lines, longer, ops : /\ lines = LinesOf(x) /\ longer = LinesOf(x)'
                                  /\ ops = tsx[m].ops
    OBVIOUS
  <2>2. lines \in SUBSET (DOMAIN traceFile) /\ ops \in Seq(Ops)
    BY <1>4, <2>1 DEF LinesOf, SlotRecords
  <2>3. OperationsOf(ops, lines)
    BY <1>16, <2>1
  <2>4. PICK new : new = Append(ops, Operation(l))
    OBVIOUS
  <2>5. OperationsOf(ops, lines)' /\ OperationsOf(new, lines \cup {n})'
    BY <1>0, <2>2, <2>3, <2>4, OperationsMore
  <2>6. CASE m = s
    <3>1. longer = lines \cup {n} /\ tsx'[m].ops = new
      BY <1>11, <1>14, <1>15, <1>16, <2>1, <2>4, <2>6
    <3>2. OperationsOf(new, longer)'
      BY <2>5, <3>1
    <3>3. QED
      BY <2>1, <3>1, <3>2 DEF OperationsOf, Before
  <2>7. CASE m # s
    <3>1. longer = lines /\ tsx'[m].ops = ops
      BY <1>14, <1>15, <1>16, <2>1, <2>7
    <3>2. OperationsOf(ops, longer)'
      BY <2>5, <3>1
    <3>3. QED
      BY <2>1, <3>1, <3>2 DEF OperationsOf, Before
  <2>8. QED
    BY <2>6, <2>7
<1>17. ASSUME NEW j \in I PROVE SlotTaken(place(j), j)'
  <2>1. SlotTaken(place(j), j) /\ place(j) \in 0..(tx_count - 1) /\ place(j) \in Slots
    BY <1>1, <1>3
  <2>2. PICK m, x, w : m = place(j) /\ x = traceFile[j].id /\ w = traceFile[j].tick
    OBVIOUS
  <2>3. /\ tsx[m].tx_id = x /\ tsx[m].start_tick = w
        /\ OperationsOf(tsx[m].ops, LinesOf(x))
    BY <2>1, <2>2 DEF SlotTaken
  <2>4. traceFile'[j].id = x /\ traceFile'[j].tick = w /\ m \in Slots
    BY <1>1, <1>2, <2>1, <2>2
  <2>5. m = s <=> x = l.id
    <3>1. ASSUME m = s PROVE x = l.id
      BY <1>6, <2>3, <3>1
    <3>2. ASSUME x = l.id PROVE m = s
      <4>1. l.id # 0
        BY <1>1, <2>2, <3>2
      <4>2. PICK k \in I : traceFile[k].id = l.id /\ place(k) = s
        BY <1>6, <4>1
      <4>3. QED
        BY <1>3, <2>2, <3>2, <4>2
    <3>3. QED
      BY <3>1, <3>2
  <2>6. OperationsOf(tsx[m].ops, LinesOf(x))'
    BY <1>16, <2>3, <2>4, <2>5
  <2>7. tsx'[m].tx_id = x /\ tsx'[m].start_tick = w
    BY <1>14, <2>3, <2>4
  <2>8. SlotTaken(m, j)'
    BY <2>4, <2>6, <2>7 DEF SlotTaken
  <2>9. place(j)' = m
    BY <1>15, <2>2 DEF Before
  <2>10. QED
    BY <2>8, <2>9 DEF SlotTaken
<1>18. OperationsOf(tsx[tx_count].ops, LinesOf(0))'
  <2>1. PICK m : m = tx_count
    OBVIOUS
  <2>2. m = s <=> 0 = l.id
    <3>1. CASE l.id = 0
      BY <1>6, <2>1, <3>1
    <3>2. CASE l.id # 0
      <4>1. PICK j \in I : place(j) = s
        BY <1>6, <3>2
      <4>2. s \in 0..(tx_count - 1)
        BY <1>1, <4>1
      <4>3. m # s
        BY <1>1, <2>1, <4>2
      <4>4. QED
        BY <3>2, <4>3
    <3>3. QED
      BY <3>1, <3>2
  <2>3. OperationsOf(tsx[m].ops, LinesOf(0))
    BY <2>1 DEF SlotsInv
  <2>4. OperationsOf(tsx[m].ops, LinesOf(0))'
    BY <1>4, <1>16, <2>1, <2>2, <2>3
  <2>5. tx_count' = m
    BY <1>9, <2>1
  <2>6. QED
    BY <2>4, <2>5 DEF OperationsOf
<1>19. /\ tsx'[tx_count].tx_id = 0
       /\ \A m \in Slots : m > tx_count => tsx'[m].tx_id = 0 /\ tsx'[m].ops = << >>
  <2>1. s <= tx_count
    BY <1>1, <1>6
  <2>2. \A m \in Slots : m > tx_count => m # s
    BY <1>1, <1>4, <1>6, <2>1
  <2>3. \A m \in Slots : m > tx_count => tsx[m].tx_id = 0 /\ tsx[m].ops = << >>
    BY DEF SlotsInv
  <2>4. tsx'[tx_count].tx_id = 0
    BY <1>3, <1>4, <1>14
  <2>5. QED
    BY <1>14, <2>2, <2>3, <2>4
<1>20. \A k \in DOMAIN traceFile' : traceFile'[k].id # 0 =>
         \E j \in I : traceFile'[j].id = traceFile'[k].id
  <2> TAKE k \in DOMAIN traceFile'
  <2> HAVE traceFile'[k].id # 0
  <2>1. \E k1 \in DOMAIN traceFile : traceFile[k1].id = traceFile'[k].id
    BY <1>2 DEF Known
  <2>2. PICK j \in I : traceFile[j].id = traceFile'[k].id
    BY <1>3, <2>1
  <2>3. QED
    BY <1>1, <1>2, <2>2
<1>21. tx_count = Cardinality(Introductions)'
  BY <1>15 DEF SlotsInv
<1>22. \A m \in 0..(tx_count' - 1) :
         \E j \in Introductions' : Before(Introductions, j)' = m
  <2>1. \A j : Before(Introductions, j)' = place(j)
    BY <1>15 DEF Before
  <2>2. QED
    BY <1>3, <1>9, <1>15, <2>1
<1>23. Mark' = 0
  BY <1>9 DEF Mark, Loaded
<1>24. QED
  BY <1>2, <1>4, <1>9, <1>14, <1>15, <1>17, <1>18, <1>19, <1>20, <1>21, <1>22, <1>23
     DEF SlotsInv, Slots

\* A line of a new number takes the slot that gathers, with what is in it, and
\* the next one gathers.
LEMMA NewLine ==
  ASSUME SlotsInv, stage = "trace", NEW l, TraceGrows(l),
         ~Known(l.id), ReadOperation(l)
  PROVE  SlotsInv' /\ tx_count' = tx_count + 1
<1>0. PICK n : n = Len(traceFile) + 1
  OBVIOUS
<1> DEFINE I == Introductions
           place(j) == Before(I, j)
<1>1. /\ I \in SUBSET Nat /\ IsFiniteSet(I)
      /\ \A j \in I : /\ place(j) \in 0..(tx_count - 1)
                      /\ j \in DOMAIN traceFile /\ traceFile[j].id # 0
      /\ 0..(tx_count - 1) \subseteq Slots /\ tx_count \in Nat
  BY SlotOfLine
<1>2. /\ n \in Nat \ {0} /\ DOMAIN traceFile = 1..(n - 1)
      /\ traceFile' \in Seq(TraceLines)
      /\ DOMAIN traceFile' = DOMAIN traceFile \cup {n}
      /\ traceFile'[n] = l /\ \A k \in DOMAIN traceFile : traceFile'[k] = traceFile[k]
  BY <1>0, TraceMore
<1>3. /\ \A m \in 0..(tx_count - 1) : \E j \in I : place(j) = m
      /\ \A j \in I : SlotTaken(place(j), j)
      /\ \A k \in DOMAIN traceFile : traceFile[k].id # 0 => \E j \in I : traceFile[j].id = traceFile[k].id
      /\ tsx[tx_count].tx_id = 0
      /\ \A m \in Slots : m > tx_count => tsx[m].tx_id = 0 /\ tsx[m].ops = << >>
      /\ tx_count = Cardinality(I)
  BY DEF SlotsInv, Mark, Loaded
<1>4. /\ tsx \in [Slots -> SlotRecords]
      /\ tx_count \in Slots /\ Slots = 0..(MaxTransactions - 1)
  BY DEF SlotsInv, Slots
<1>5. l.id # 0 /\ \A k \in DOMAIN traceFile : traceFile[k].id # l.id
  BY DEF Known
<1>6. SlotsOf(l.id) = {}
  <2> SUFFICES ASSUME NEW m \in SlotsOf(l.id) PROVE FALSE
    OBVIOUS
  <2>1. m \in Slots /\ m \in Nat /\ tsx[m].tx_id = l.id
    BY <1>4 DEF SlotsOf
  <2>2. m \in 0..(tx_count - 1)
    BY <1>1, <1>3, <1>5, <2>1
  <2>3. PICK j \in I : place(j) = m
    BY <1>3, <2>2
  <2>4. traceFile[j].id = l.id
    BY <1>3, <2>1, <2>3 DEF SlotTaken
  <2>5. QED
    BY <1>1, <1>5, <2>4
<1>7. PICK s : s = tx_count
  OBVIOUS
<1>8. /\ tsx' = [tsx EXCEPT ![s] =
                   [[tsx[s] EXCEPT !.tx_id = l.id, !.start_tick = l.tick]
                      EXCEPT !.ops = Append(@, Operation(l))]]
      /\ tx_count' = s + 1 /\ stage' = stage /\ s + 1 \in Slots
  <2>1. /\ tsx' = [tsx EXCEPT ![s] =
                     [[tsx[s] EXCEPT !.tx_id = l.id, !.start_tick = l.tick]
                        EXCEPT !.ops = Append(@, Operation(l))]]
        /\ tx_count' = s + 1 /\ stage' = stage /\ tx_count < MaxTransactions - 1
    BY <1>6, <1>7 DEF ReadOperation, AddOperation, NewTransaction,
                      RoomForSentinel
  <2>2. s + 1 \in Slots
    BY <1>1, <1>4, <1>7, <2>1, ParserAssumption
  <2>3. QED
    BY <2>1, <2>2
<1>9. /\ tsx[s] \in SlotRecords /\ tsx[s].ops \in Seq(Ops) /\ s \in Slots /\ s \in Nat
  BY <1>1, <1>4, <1>7 DEF SlotRecords
<1>10. PICK old, more : old = tsx[s].ops /\ more = Append(old, Operation(l))
  OBVIOUS
<1>11. /\ tsx'[s] = [tx_id |-> l.id, start_tick |-> l.tick, ops |-> more]
       /\ \A m \in Slots : m # s => tsx'[m] = tsx[m]
       /\ DOMAIN tsx' = Slots
  BY <1>4, <1>8, <1>9, <1>10 DEF SlotRecords
<1>12. PICK lines : lines = LinesOf(0)
  OBVIOUS
<1>13. /\ more \in Seq(Ops) /\ OperationsOf(more, lines \cup {n})'
  <2>1. old \in Seq(Ops) /\ lines \in SUBSET (DOMAIN traceFile)
    BY <1>9, <1>10, <1>12 DEF LinesOf
  <2>2. OperationsOf(old, lines)
    BY <1>7, <1>10, <1>12 DEF SlotsInv
  <2>3. QED
    BY <1>0, <1>10, <2>1, <2>2, OperationsMore
<1>14. tsx' \in [Slots -> SlotRecords]
  <2>1. tsx'[s] \in SlotRecords
    BY <1>11, <1>13 DEF SlotRecords, TraceGrows
  <2>2. \A m \in Slots : tsx'[m] \in SlotRecords
    BY <1>4, <1>11, <2>1
  <2>3. tsx' = [m \in Slots |-> tsx'[m]]
    BY <1>4, <1>8
  <2>4. QED
    BY <2>2, <2>3
<1>15. /\ Introductions' = I \cup {n}
       /\ \A x : LinesOf(x)' = IF x = l.id THEN lines \cup {n}
                                     ELSE IF x = 0 THEN {} ELSE LinesOf(x)
  BY <1>0, <1>12, IntroductionsMore, OwnersMore
<1>16. /\ Cardinality(I \cup {n}) = s + 1
       /\ Before(I \cup {n}, n) = s
       /\ \A j \in I : Before(I \cup {n}, j) = place(j)
       /\ \A m \in I : m < n
  <2>1. \A m \in I : m < n
    BY <1>1, <1>2
  <2>2. PICK S : S = I
    OBVIOUS
  <2>3. /\ Cardinality(S \cup {n}) = Cardinality(S) + 1
        /\ Cardinality(S) \in Nat
        /\ Before(S \cup {n}, n) = Cardinality(S)
        /\ \A j \in S : /\ Before(S \cup {n}, j) = Before(S, j)
                        /\ Before(S, j) \in 0..(Cardinality(S) - 1)
    <3>1. S \in SUBSET Nat /\ IsFiniteSet(S) /\ n \in Nat /\ \A m \in S : m < n
      BY <1>1, <1>2, <2>1, <2>2
    <3> HIDE DEF I, place
    <3>2. QED
      BY <3>1, PlaceBeyond
  <2>4. QED
    BY <1>3, <1>7, <2>1, <2>2, <2>3
<1>17. /\ Cardinality(Introductions)' = s + 1
       /\ Before(Introductions, n)' = s
       /\ \A j \in I : Before(Introductions, j)' = place(j)
  BY <1>15, <1>16 DEF Before
<1>18. SlotTaken(s, n)'
  <2>1. PICK x, longer : x = l.id /\ longer = lines \cup {n}
    OBVIOUS
  <2>2. LinesOf(x)' = longer /\ tsx'[s].ops = more /\ traceFile'[n].id = x
    BY <1>2, <1>11, <1>15, <2>1
  <2>3. OperationsOf(more, longer)'
    BY <1>13, <2>1
  <2>4. OperationsOf(tsx[s].ops, LinesOf(traceFile[n].id))'
    BY <2>2, <2>3 DEF OperationsOf, Before
  <2>5. QED
    BY <1>2, <1>11, <2>4 DEF SlotTaken
<1>19. ASSUME NEW j \in I
       PROVE  SlotTaken(place(j), j)' /\ Before(Introductions, j)' = place(j)
  <2>1. PICK m, x, w, own, ops : /\ m = place(j) /\ x = traceFile[j].id /\ w = traceFile[j].tick
                                 /\ own = LinesOf(x) /\ ops = tsx[m].ops
    OBVIOUS
  <2>2. m \in 0..(tx_count - 1) /\ m \in Slots /\ m # s /\ m \in Nat
    BY <1>1, <1>7, <1>9, <2>1
  <2>3. /\ tsx[m].tx_id = x /\ tsx[m].start_tick = w /\ OperationsOf(ops, own)
    BY <1>3, <2>1 DEF SlotTaken
  <2>4. own \in SUBSET (DOMAIN traceFile) /\ ops \in Seq(Ops)
    BY <1>4, <2>1, <2>2 DEF LinesOf, SlotRecords
  <2>5. PICK new : new = Append(ops, Operation(l))
    OBVIOUS
  <2>6. OperationsOf(ops, own)'
    BY <1>0, <2>3, <2>4, <2>5, OperationsMore
  <2>7. x # 0 /\ x # l.id /\ traceFile'[j].id = x /\ traceFile'[j].tick = w
    BY <1>1, <1>2, <1>5, <2>1
  <2>8. LinesOf(x)' = own
    BY <1>15, <2>1, <2>7
  <2>9. tsx'[m] = tsx[m]
    BY <1>11, <2>2
  <2>10. OperationsOf(tsx[m].ops, LinesOf(traceFile[j].id))'
    <3>1. (tsx[m].ops)' = ops /\ LinesOf(traceFile[j].id)' = own
      <4>1. LinesOf(traceFile[j].id)' = LinesOf(x)'
        BY <2>7 DEF LinesOf
      <4>2. QED
        BY <2>1, <2>8, <2>9, <4>1
    <3>2. QED
      BY <2>6, <3>1 DEF OperationsOf, Before
  <2>11. SlotTaken(m, j)'
    BY <2>3, <2>7, <2>9, <2>10 DEF SlotTaken
  <2>12. Before(Introductions, j)' = m
    BY <1>17, <2>1
  <2>13. place(j)' = m
    BY <2>12
  <2>14. QED
    BY <2>1, <2>11, <2>12, <2>13 DEF SlotTaken
<1>20. \A j \in Introductions' : SlotTaken(Before(Introductions, j), j)'
  BY <1>15, <1>17, <1>18, <1>19 DEF SlotTaken
<1>21. \A m \in 0..s : \E j \in Introductions' : Before(Introductions, j)' = m
  <2> TAKE m \in 0..s
  <2>1. CASE m = s
    BY <1>15, <1>17, <2>1
  <2>2. CASE m # s
    <3>1. m \in 0..(tx_count - 1)
      BY <1>7, <1>9, <2>2
    <3>2. PICK j \in I : place(j) = m
      BY <1>3, <3>1
    <3>3. QED
      BY <1>15, <1>17, <3>2
  <2>3. QED
    BY <2>1, <2>2
<1>22. \A k \in DOMAIN traceFile' : traceFile'[k].id # 0 =>
         \E j \in Introductions' : traceFile'[j].id = traceFile'[k].id
  <2> TAKE k \in DOMAIN traceFile'
  <2> HAVE traceFile'[k].id # 0
  <2>1. CASE k = n
    BY <1>15, <2>1
  <2>2. CASE k # n
    <3>1. k \in DOMAIN traceFile /\ traceFile'[k] = traceFile[k]
      BY <1>2, <2>2
    <3>2. PICK j \in I : traceFile[j].id = traceFile[k].id
      BY <1>3, <3>1
    <3>3. traceFile'[j] = traceFile[j]
      BY <1>1, <1>2
    <3>4. QED
      BY <1>15, <3>1, <3>2, <3>3
  <2>3. QED
    BY <2>1, <2>2
<1>23. PICK c : c = s + 1
  OBVIOUS
<1>24. /\ c \in Slots /\ tsx'[c].tx_id = 0 /\ tsx'[c].ops = << >>
       /\ \A m \in Slots : m > c => tsx'[m].tx_id = 0 /\ tsx'[m].ops = << >>
  <2>1. c \in Slots /\ c > s /\ c # s
    BY <1>8, <1>9, <1>23
  <2>2. \A m \in Slots : m > c => m > s /\ m # s
    BY <1>4, <1>9, <2>1, <1>23
  <2>3. QED
    BY <1>3, <1>7, <1>11, <2>1, <2>2
<1>25. OperationsOf(tsx[c].ops, LinesOf(0))'
  <2>1. LinesOf(0)' = {}
    BY <1>5, <1>15
  <2>2. Cardinality({}) = 0
    BY FS_EmptySet
  <2>3. OperationsOf(<< >>, {})'
    BY <2>2 DEF OperationsOf
  <2>4. QED
    BY <1>24, <2>1, <2>3 DEF OperationsOf, Before
<1>26. tx_count' = c /\ c - 1 = s
  BY <1>8, <1>9, <1>23
<1>27. Mark' = 0
  BY <1>8 DEF Mark, Loaded
<1>28. /\ tx_count' \in Slots' /\ tx_count' = Cardinality(Introductions)'
  BY <1>17, <1>23, <1>24, <1>26 DEF Slots
<1>29. OperationsOf(tsx[tx_count].ops, LinesOf(0))'
  BY <1>25, <1>26 DEF OperationsOf
<1>30. SlotsInv'
  BY <1>2, <1>14, <1>20, <1>21, <1>22, <1>24, <1>26, <1>27, <1>28, <1>29
     DEF SlotsInv, Slots
<1>31. QED
  BY <1>7, <1>8, <1>30

TraceInv == SlotsInv /\ ThreadsInv

\* While no line is read, nobody's place and nobody's lines change.
LEMMA SameLines ==
  ASSUME traceFile' = traceFile
  PROVE  /\ Introductions' = Introductions
         /\ Cardinality(Introductions)' = Cardinality(Introductions)
         /\ \A j : Before(Introductions, j)' = Before(Introductions, j)
         /\ \A x : LinesOf(x)' = LinesOf(x)
         /\ \A ops, lines : OperationsOf(ops, lines)' <=> OperationsOf(ops, lines)
<1>1. \A j : Introduces(j)' <=> Introduces(j)
  BY DEF Introduces
<1>2. Introductions' = Introductions
  BY <1>1 DEF Introductions
<1>3. \A j : Owner(j)' = Owner(j)
  BY <1>2 DEF Owner, Min
<1>4. \A x : LinesOf(x)' = LinesOf(x)
  BY <1>2, <1>3 DEF LinesOf
<1>5. \A ops, lines : OperationsOf(ops, lines)' <=> OperationsOf(ops, lines)
  BY DEF OperationsOf, Before, Operation, get_op_type
<1>6. /\ \A j : Before(Introductions, j)' = Before(Introductions, j)
      /\ Cardinality(Introductions)' = Cardinality(Introductions)
  BY <1>2 DEF Before
<1>7. QED
  BY <1>2, <1>4, <1>5, <1>6

\* The end of the file marks the slot that gathers; what it has gathered is
\* nobody's.
LEMMA FileEnds ==
  ASSUME TraceInv, EndTrace
  PROVE  TraceInv'
<1>1. /\ stage = "trace" /\ stage' = "starting" /\ tx_count' = tx_count
      /\ started' = started /\ traceFile' = traceFile
      /\ tsx' = [tsx EXCEPT ![tx_count].tx_id = TRANSACTION_END]
  BY DEF EndTrace, files
<1>2. /\ \A j \in Introductions : Before(Introductions, j) \in 0..(tx_count - 1)
      /\ 0..(tx_count - 1) \subseteq Slots /\ tx_count \in Nat
  BY SlotOfLine DEF TraceInv
<1>3. tsx \in [Slots -> SlotRecords] /\ tx_count \in Slots /\ Slots \subseteq Nat
  BY DEF TraceInv, SlotsInv, Slots
<1>4. /\ tsx' \in [Slots -> SlotRecords]
      /\ tsx'[tx_count].tx_id = TRANSACTION_END
      /\ tsx'[tx_count].ops = tsx[tx_count].ops
      /\ \A m \in Slots : m # tx_count => tsx'[m] = tsx[m]
  BY <1>1, <1>3 DEF SlotRecords
<1>5. /\ Introductions' = Introductions
      /\ \A x : LinesOf(x)' = LinesOf(x)
  BY <1>1, SameLines
<1>6. \A ops, lines : OperationsOf(ops, lines)' <=> OperationsOf(ops, lines)
  BY <1>1, SameLines
<1>7. \A j : Before(Introductions, j)' = Before(Introductions, j)
  BY <1>1, SameLines
<1>8. ASSUME NEW j \in Introductions
      PROVE  SlotTaken(Before(Introductions, j), j)'
  <2>1. PICK m, x, own : /\ m = Before(Introductions, j) /\ x = traceFile[j].id
                         /\ own = LinesOf(x)
    OBVIOUS
  <2>2. m \in 0..(tx_count - 1) /\ m \in Slots /\ m # tx_count
    BY <1>2, <2>1
  <2>3. SlotTaken(m, j)
    BY <2>1 DEF TraceInv, SlotsInv
  <2>4. tsx'[m] = tsx[m] /\ traceFile'[j].id = x /\ LinesOf(x)' = own
    BY <1>1, <1>4, <1>5, <2>1, <2>2
  <2>5. PICK ops : ops = tsx[m].ops
    OBVIOUS
  <2>6. OperationsOf(ops, own)'
    BY <1>6, <2>1, <2>3, <2>5 DEF SlotTaken
  <2>7. LinesOf(traceFile[j].id)' = own
    <3>1. LinesOf(traceFile[j].id)' = LinesOf(x)'
      BY <2>4 DEF LinesOf
    <3>2. QED
      BY <2>4, <3>1
  <2>8. OperationsOf(tsx[m].ops, LinesOf(traceFile[j].id))'
    BY <2>4, <2>5, <2>6, <2>7 DEF OperationsOf, Before
  <2>9. SlotTaken(m, j)'
    BY <1>1, <2>3, <2>4, <2>8 DEF SlotTaken
  <2>10. Before(Introductions, j)' = m
    BY <1>7, <2>1
  <2>11. QED
    BY <2>9, <2>10 DEF SlotTaken
<1>9. OperationsOf(tsx[tx_count].ops, LinesOf(0))'
  <2>1. PICK own, ops : own = LinesOf(0) /\ ops = tsx[tx_count].ops
    OBVIOUS
  <2>2. OperationsOf(ops, own)'
    BY <1>6, <2>1 DEF TraceInv, SlotsInv
  <2>3. (tsx[tx_count].ops)' = ops /\ LinesOf(0)' = own
    BY <1>1, <1>4, <1>5, <2>1
  <2>4. QED
    BY <2>2, <2>3 DEF OperationsOf, Before
<1>10. Mark' = TRANSACTION_END
  BY <1>1 DEF Mark, Loaded, TRANSACTION_END
<1>11. \A m \in Slots : m > tx_count => tsx'[m] = tsx[m]
  BY <1>2, <1>3, <1>4
<1>12. Cardinality(Introductions)' = Cardinality(Introductions)
  BY <1>1, SameLines
<1>13. SlotsInv'
  <2>1. /\ tsx' \in [Slots' -> SlotRecords'] /\ tx_count' \in Slots'
        /\ traceFile' \in Seq(TraceLines)
    BY <1>1, <1>3, <1>4 DEF Slots, SlotRecords, TraceInv, SlotsInv, Ops, Operation,
                             get_op_type, TRANSACTION_END
  <2>2. \A m \in 0..(tx_count' - 1) :
          \E j \in Introductions' : Before(Introductions, j)' = m
    BY <1>1, <1>5, <1>7 DEF TraceInv, SlotsInv
  <2>3. \A j \in Introductions' : SlotTaken(Before(Introductions, j), j)'
    BY <1>5, <1>8
  <2>4. \A k \in DOMAIN traceFile' : traceFile'[k].id # 0 =>
          \E j \in Introductions' : traceFile'[j].id = traceFile'[k].id
    BY <1>1, <1>5 DEF TraceInv, SlotsInv
  <2>5. tx_count' = Cardinality(Introductions)'
    BY <1>1, <1>12 DEF TraceInv, SlotsInv
  <2>6. \A m \in Slots' : m > tx_count' => tsx'[m].tx_id = 0 /\ tsx'[m].ops = << >>
    BY <1>1, <1>11 DEF TraceInv, SlotsInv, Slots
  <2>7. tsx'[tx_count'].tx_id = Mark'
    BY <1>1, <1>4, <1>10
  <2>8. QED
    BY <1>9, <2>1, <2>2, <2>3, <2>4, <2>5, <2>6, <2>7 DEF SlotsInv
<1>14. ThreadsInv'
  <2>1. started = 0
    BY <1>1 DEF TraceInv, ThreadsInv, Loaded
  <2>2. QED
    BY <1>1, <1>2, <2>1 DEF ThreadsInv, Loaded
<1>15. QED
  BY <1>13, <1>14 DEF TraceInv

\* Nothing else touches the slots.
LEMMA SlotsKept ==
  ASSUME SlotsInv, UNCHANGED <<tsx, tx_count, traceFile>>, Mark' = Mark
  PROVE  SlotsInv'
<1>1. /\ Introductions' = Introductions
      /\ Cardinality(Introductions)' = Cardinality(Introductions)
      /\ \A j : Before(Introductions, j)' = Before(Introductions, j)
      /\ \A x : LinesOf(x)' = LinesOf(x)
      /\ \A ops, lines : OperationsOf(ops, lines)' <=> OperationsOf(ops, lines)
  BY SameLines
<1>2. ASSUME NEW ops, NEW x, OperationsOf(ops, LinesOf(x))
      PROVE  OperationsOf(ops, LinesOf(x))'
  <2>1. PICK own : own = LinesOf(x)
    OBVIOUS
  <2>2. OperationsOf(ops, own)' /\ LinesOf(x)' = own
    BY <1>1, <1>2, <2>1
  <2>3. QED
    BY <2>2 DEF OperationsOf, Before
<1>3. ASSUME NEW j \in Introductions
      PROVE  SlotTaken(Before(Introductions, j), j)'
  <2>1. PICK m, x, ops : /\ m = Before(Introductions, j) /\ x = traceFile[j].id
                         /\ ops = tsx[m].ops
    OBVIOUS
  <2>2. /\ tsx[m].tx_id = x /\ tsx[m].start_tick = traceFile[j].tick
        /\ OperationsOf(ops, LinesOf(x))
    BY <2>1 DEF SlotsInv, SlotTaken
  <2>3. OperationsOf(ops, LinesOf(x))'
    BY <1>2, <2>2
  <2>4. tsx'[m].ops = ops /\ traceFile'[j].id = x
    BY <2>1
  <2>5. LinesOf(traceFile[j].id)' = LinesOf(x)'
    BY <2>4 DEF LinesOf
  <2>6. OperationsOf(tsx[m].ops, LinesOf(traceFile[j].id))'
    BY <2>3, <2>4, <2>5 DEF OperationsOf, Before
  <2>7. tsx'[m].tx_id = traceFile'[j].id /\ tsx'[m].start_tick = traceFile'[j].tick
    BY <2>1, <2>2, <2>4
  <2>8. SlotTaken(m, j)'
    BY <2>6, <2>7 DEF SlotTaken
  <2>9. Before(Introductions, j)' = m
    BY <1>1, <2>1
  <2>10. QED
    BY <2>8, <2>9 DEF SlotTaken
<1>4. OperationsOf(tsx[tx_count].ops, LinesOf(0))'
  <2>1. PICK ops : ops = tsx[tx_count].ops
    OBVIOUS
  <2>2. OperationsOf(ops, LinesOf(0))'
    BY <1>2, <2>1 DEF SlotsInv
  <2>3. (tsx[tx_count].ops)' = ops
    BY <2>1
  <2>4. QED
    BY <2>2, <2>3 DEF OperationsOf, Before
<1>5. /\ tsx' \in [Slots' -> SlotRecords'] /\ tx_count' \in Slots'
      /\ traceFile' \in Seq(TraceLines)
  BY DEF Slots, SlotRecords, SlotsInv, Ops, Operation, get_op_type,
         TRANSACTION_END
<1>6. \A m \in 0..(tx_count' - 1) :
        \E j \in Introductions' : Before(Introductions, j)' = m
  BY <1>1 DEF SlotsInv
<1>7. \A k \in DOMAIN traceFile' : traceFile'[k].id # 0 =>
        \E j \in Introductions' : traceFile'[j].id = traceFile'[k].id
  BY <1>1 DEF SlotsInv
<1>8. tx_count' = Cardinality(Introductions)'
  BY <1>1 DEF SlotsInv
<1>9. \A m \in Slots' : m > tx_count' => tsx'[m].tx_id = 0 /\ tsx'[m].ops = << >>
  BY DEF SlotsInv, Slots
<1>10. tsx'[tx_count'].tx_id = Mark'
  BY DEF SlotsInv
<1>11. \A j \in Introductions' : SlotTaken(Before(Introductions, j), j)'
  BY <1>1, <1>3
<1>12. QED
  BY <1>4, <1>5, <1>6, <1>7, <1>8, <1>9, <1>10, <1>11 DEF SlotsInv

\* So every step keeps the invariant of the transactions.
LEMMA TraceStep ==
  ASSUME TraceInv, [TraceNext]_traceVars
  PROVE  TraceInv'
<1>1. tx_count \in Nat
  BY SlotOfLine DEF TraceInv
<1>2. ASSUME NEW l \in TraceLines, ReadOperation(l) PROVE TraceInv'
  <2>1. /\ stage = "trace" /\ stage' = stage /\ started' = started /\ TraceGrows(l)
    BY <1>2 DEF ReadOperation, TraceGrows, TraceInv, SlotsInv
  <2>2. SlotsInv' /\ tx_count' \in {tx_count, tx_count + 1}
    BY <1>2, <2>1, KnownLine, NewLine DEF TraceInv
  <2>3. started = 0
    BY <2>1 DEF TraceInv, ThreadsInv, Loaded
  <2>4. ThreadsInv'
    BY <1>1, <2>1, <2>2, <2>3 DEF ThreadsInv, Loaded
  <2>5. QED
    BY <2>2, <2>4 DEF TraceInv
<1>3. ASSUME EndTrace PROVE TraceInv'
  BY <1>3, FileEnds
<1>4. ASSUME UNCHANGED <<tsx, tx_count, traceFile, started>>,
             (~Loaded /\ ~Loaded') \/ stage' = stage
      PROVE  TraceInv'
  <2>1. Mark' = Mark /\ (Loaded' <=> Loaded)
    BY <1>4 DEF Mark, Loaded, TRANSACTION_END
  <2>2. SlotsInv'
    BY <1>4, <2>1, SlotsKept DEF TraceInv
  <2>3. ThreadsInv'
    <3>1. Loaded' => stage' = stage
      BY <1>4, <2>1
    <3>2. QED
      BY <1>4, <2>1, <3>1 DEF TraceInv, ThreadsInv, TRANSACTION_END, Loaded
  <2>4. QED
    BY <2>2, <2>3 DEF TraceInv
<1>5. ASSUME CreateThread PROVE TraceInv'
  <2>1. /\ stage = "starting" /\ stage' = stage /\ started' = started + 1
        /\ UNCHANGED <<tsx, tx_count, traceFile>>
        /\ tsx[started].tx_id # TRANSACTION_END
    BY <1>5 DEF CreateThread, files
  <2>2. SlotsInv'
    BY <2>1, SlotsKept DEF TraceInv, Mark, Loaded, TRANSACTION_END
  <2>3. tsx[tx_count].tx_id = TRANSACTION_END
    BY <2>1 DEF TraceInv, SlotsInv, Mark, Loaded
  <2>4. started \in 0..tx_count /\ started # tx_count
    BY <2>1, <2>3 DEF TraceInv, ThreadsInv
  <2>5. ThreadsInv'
    <3>1. \A n \in 0..(started' - 1) : n \in 0..(started - 1) \/ n = started
      BY <1>1, <2>1, <2>4
    <3>2. \A n \in 0..(started' - 1) : tsx[n].tx_id # TRANSACTION_END
      BY <2>1, <3>1 DEF TraceInv, ThreadsInv
    <3>3. started' \in 0..tx_count'
      BY <1>1, <2>1, <2>4
    <3>4. QED
      BY <2>1, <3>2, <3>3 DEF ThreadsInv, Loaded, TRANSACTION_END
  <2>6. QED
    BY <2>2, <2>5 DEF TraceInv
<1>6. ASSUME AllCreated PROVE TraceInv'
  <2>1. /\ stage = "starting" /\ stage' = "running" /\ UNCHANGED <<tsx, tx_count, traceFile, started>>
        /\ tsx[started].tx_id = TRANSACTION_END
    BY <1>6 DEF AllCreated, files, transactions
  <2>2. SlotsInv'
    BY <2>1, SlotsKept DEF TraceInv, Mark, Loaded, TRANSACTION_END
  <2>3. ThreadsInv'
    BY <2>1 DEF TraceInv, ThreadsInv, Loaded, TRANSACTION_END
  <2>4. QED
    BY <2>2, <2>3 DEF TraceInv
<1>7. QED
  BY <1>2, <1>3, <1>4, <1>5, <1>6
     DEF TraceNext, traceVars, files, transactions, NameFile,
         SetTick, EndOptions, GiveUp, EndAccounts,
         ReadAccount, Loaded

\* The transactions main() starts are those of the trace, in the order in which
\* it introduces them, each at the tick of its first line and with exactly its
\* own operations, up to one whose number is that of the sentinel
\* (parser.c 66-103, main.c 38-40).
THEOREM TransactionsAsWritten == TraceSpec => []StartedAsWritten
<1>1. ASSUME TraceInit PROVE TraceInv
  <2>1. /\ stage = "options" /\ tsx = [n \in Slots |-> EmptySlot]
        /\ tx_count = 0 /\ started = 0 /\ traceFile = << >>
    BY <1>1 DEF TraceInit
  <2>2. DOMAIN traceFile = {} /\ traceFile \in Seq(TraceLines)
    BY <2>1
  <2>3. Introductions = {} /\ \A x : LinesOf(x) = {}
    BY <2>2 DEF Introductions, LinesOf
  <2>4. Cardinality({}) = 0
    BY FS_EmptySet
  <2>5. 0 \in Slots
    BY <1>1, ParserAssumption DEF Slots
  <2>6. \A n \in Slots : tsx[n] = [tx_id |-> 0, start_tick |-> 0, ops |-> << >>]
    BY <2>1 DEF EmptySlot
  <2>7. << >> \in Seq(Ops) /\ Len(<< >>) = 0
    OBVIOUS
  <2>8. tsx \in [Slots -> SlotRecords]
    BY <2>1, <2>7 DEF SlotRecords, EmptySlot
  <2>9. OperationsOf(tsx[0].ops, {})
    BY <2>4, <2>5, <2>6, <2>7 DEF OperationsOf
  <2>10. Mark = 0 /\ ~Loaded
    BY <2>1 DEF Mark, Loaded
  <2>11. SlotsInv
    <3>1. 0..(tx_count - 1) = {}
      BY <2>1
    <3>2. OperationsOf(tsx[tx_count].ops, LinesOf(0))
      BY <2>1, <2>3, <2>9
    <3>3. tx_count = Cardinality(Introductions) /\ tx_count \in Slots
      BY <2>1, <2>3, <2>4, <2>5
    <3>4. \A n \in Slots : tsx[n].tx_id = 0 /\ tsx[n].ops = << >>
      BY <2>6
    <3>5. tsx[tx_count].tx_id = Mark
      BY <2>1, <2>5, <2>10, <3>4
    <3>6. QED
      BY <2>2, <2>3, <2>8, <3>1, <3>2, <3>3, <3>4, <3>5 DEF SlotsInv
  <2>12. ThreadsInv
    BY <2>1, <2>10 DEF ThreadsInv
  <2>13. QED
    BY <2>11, <2>12 DEF TraceInv
<1>2. ASSUME TraceInv PROVE StartedAsWritten
  <2> DEFINE I == Introductions
             place(j) == Before(I, j)
             ended == {j \in I : traceFile[j].id = TRANSACTION_END}
  <2>1. /\ \A j \in I : place(j) \in 0..(tx_count - 1)
        /\ \A j, k \in I : traceFile[j].id = traceFile[k].id => j = k
        /\ tx_count \in Nat
    BY <1>2, SlotOfLine DEF TraceInv
  <2>2. /\ tx_count = Cardinality(I)
        /\ \A j \in I : SlotTaken(place(j), j)
        /\ \A m \in 0..(tx_count - 1) : \E j \in I : place(j) = m
        /\ Loaded => tsx[tx_count].tx_id = TRANSACTION_END
    BY <1>2 DEF TraceInv, SlotsInv, Mark
  <2>3. stage = "running" =>
          started = IF ended = {} THEN tx_count ELSE place(Min(ended))
    <3> SUFFICES ASSUME stage = "running"
                 PROVE  started = IF ended = {} THEN tx_count ELSE place(Min(ended))
      OBVIOUS
    <3>1. /\ started \in 0..tx_count /\ tsx[started].tx_id = TRANSACTION_END
          /\ \A m \in 0..(started - 1) : tsx[m].tx_id # TRANSACTION_END
      BY <1>2 DEF TraceInv, ThreadsInv
    <3>2. CASE started = tx_count
      <4>1. ended = {}
        BY <2>1, <2>2, <3>1, <3>2 DEF SlotTaken
      <4>2. QED
        BY <3>2, <4>1
    <3>3. CASE started # tx_count
      <4>1. started \in 0..(tx_count - 1)
        BY <2>1, <3>1, <3>3
      <4>2. PICK j \in I : place(j) = started
        BY <2>2, <4>1
      <4>3. j \in ended
        BY <2>2, <3>1, <4>2 DEF SlotTaken
      <4>4. \A k \in ended : k = j
        BY <2>1, <4>3
      <4>5. j \in Nat
        BY <1>2, SlotOfLine DEF TraceInv
      <4>6. ended = {j}
        BY <4>3, <4>4
      <4>7. Min({j}) = j
        BY <4>5 DEF Min
      <4>8. Min(ended) = j
        BY <4>6, <4>7, Zenon
      <4>9. QED
        BY <4>2, <4>3, <4>8
    <3>4. QED
      BY <3>2, <3>3
  <2>4. \A j \in I : LET slot == tsx[place(j)]
                     IN  /\ slot.tx_id = traceFile[j].id
                         /\ slot.start_tick = traceFile[j].tick
                         /\ OperationsOf(slot.ops, LinesOf(slot.tx_id))
    BY <2>2 DEF SlotTaken
  <2>5. QED
    BY <2>2, <2>3, <2>4 DEF StartedAsWritten
<1>3. QED
  <2>1. TraceInit => TraceInv
    BY <1>1
  <2>2. TraceInv /\ [TraceNext]_traceVars => TraceInv'
    BY TraceStep
  <2>3. TraceInv => StartedAsWritten
    BY <1>2
  <2>4. QED
    BY <2>1, <2>2, <2>3, PTL DEF TraceSpec
=============================================================================
