----------------------------- MODULE ChartProofs -----------------------------
(***************************************************************************)
(* Proofs about the simulator's one CPU, for any workload, settings and    *)
(* configuration file: which event ends the current run, that chart,       *)
(* charges and metrics agree, in which order FCFS and SJF run, how often   *)
(* others may run before one who waits under RR, how many switches the     *)
(* comparison counts, and whose average turnaround is the smallest.        *)
(***************************************************************************)
EXTENDS SimulatorProofs

\* Nothing ends; or the one run that ends is that of r, at time e, and it is
\* the last one if nothing is left.
NoCpu(q) == \A k \in 1..Len(q) : ~IsCpuEvent(q[k])
EndsAt(q, r, left, e) ==
  \E k \in 1..Len(q) :
    /\ IsCpuEvent(q[k]) /\ q[k].process = r /\ q[k].time = e
    /\ q[k].type = "COMPLETION" <=> left = 0
    /\ \A j \in 1..Len(q) : IsCpuEvent(q[j]) => j = k
NoneArrivesBefore(q, e) == \A k \in 1..Len(q) : q[k].type = "ARRIVAL" => q[k].time >= e

\* The end of a run comes to a queue that has none.
LEMMA EndComes ==
  ASSUME NEW S, NEW q \in Seq(S), NoCpu(q), NEW e \in S, IsCpuEvent(e), NEW left,
         e.type = "COMPLETION" <=> left = 0, NEW pr, NEW b
  PROVE  /\ EndsAt(EnqueueEvent(q, e, pr, b), e.process, left, e.time)
         /\ \A time : NoneArrivesBefore(q, time) =>
              NoneArrivesBefore(EnqueueEvent(q, e, pr, b), time)
<1> DEFINE t == EnqueueEvent(q, e, pr, b)
<1>1. t \in Seq(S)
  BY EnqueuedAt
<1>2. PICK i \in 1..(Len(q) + 1) : Inserted(t, q, i, e)
  BY EnqueuedAt
<1> HIDE DEF t
<1>3. i \in 1..Len(t) /\ t[i] = e
  BY <1>2 DEF Inserted
<1> DEFINE from(j) == IF j < i THEN j ELSE j - 1
<1>4. \A j \in 1..Len(t) : j # i => from(j) \in 1..Len(q) /\ t[j] = q[from(j)]
  BY <1>1, <1>2, InsertedFrom
<1> HIDE DEF from
<1>5. \A j \in 1..Len(t) : IsCpuEvent(t[j]) => j = i
  BY <1>4 DEF NoCpu
<1>6. EndsAt(t, e.process, left, e.time)
  BY <1>3, <1>5 DEF EndsAt
<1>7. e.type # "ARRIVAL"
  BY DEF IsCpuEvent
<1>8. ASSUME NEW time, NoneArrivesBefore(q, time) PROVE NoneArrivesBefore(t, time)
  BY <1>3, <1>4, <1>7, <1>8 DEF NoneArrivesBefore
<1>9. QED
  BY <1>6, <1>8 DEF t

\* An event leaves the queue.
LEMMA EventGoes ==
  ASSUME NEW S, NEW q \in Seq(S), NEW t \in Seq(S), NEW i \in 1..Len(q), Removed(t, q, i)
  PROVE  /\ NoCpu(q) => NoCpu(t)
         /\ \A time : NoneArrivesBefore(q, time) => NoneArrivesBefore(t, time)
         /\ \A r, left, e : EndsAt(q, r, left, e) =>
              IF IsCpuEvent(q[i])
                THEN NoCpu(t) /\ q[i].process = r /\ q[i].time = e
                     /\ (q[i].type = "COMPLETION" <=> left = 0)
                ELSE EndsAt(t, r, left, e)
<1> DEFINE from(j) == IF j < i THEN j ELSE j + 1
           to(k) == IF k < i THEN k ELSE k - 1
<1>1. /\ \A j \in 1..Len(t) : from(j) \in 1..Len(q) /\ t[j] = q[from(j)]
      /\ \A k \in 1..Len(q) : k # i => to(k) \in 1..Len(t) /\ q[k] = t[to(k)]
  BY RemovedFrom
<1>2. \A j, k \in 1..Len(t) : /\ from(j) = from(k) => j = k
                              /\ from(j) # i
  OBVIOUS
<1> HIDE DEF from, to
<1>3. NoCpu(q) => NoCpu(t)
  BY <1>1 DEF NoCpu
<1>4. ASSUME NEW time, NoneArrivesBefore(q, time) PROVE NoneArrivesBefore(t, time)
  BY <1>1, <1>4 DEF NoneArrivesBefore
<1>5. ASSUME NEW r, NEW left, NEW e, EndsAt(q, r, left, e)
      PROVE  IF IsCpuEvent(q[i])
               THEN NoCpu(t) /\ q[i].process = r /\ q[i].time = e
                    /\ (q[i].type = "COMPLETION" <=> left = 0)
               ELSE EndsAt(t, r, left, e)
  <2>1. PICK k \in 1..Len(q) :
               /\ IsCpuEvent(q[k]) /\ q[k].process = r /\ q[k].time = e
               /\ q[k].type = "COMPLETION" <=> left = 0
               /\ \A j \in 1..Len(q) : IsCpuEvent(q[j]) => j = k
    BY <1>5 DEF EndsAt
  <2>2. CASE IsCpuEvent(q[i])
    <3>1. k = i
      BY <2>1, <2>2
    <3>2. NoCpu(t)
      BY <1>1, <1>2, <2>1, <3>1 DEF NoCpu
    <3>3. QED
      BY <2>1, <2>2, <3>1, <3>2
  <2>3. CASE ~IsCpuEvent(q[i])
    <3>1. k # i /\ to(k) \in 1..Len(t) /\ q[k] = t[to(k)]
      BY <1>1, <2>1, <2>3
    <3>2. \A j \in 1..Len(t) : IsCpuEvent(t[j]) => from(j) = k
      BY <1>1, <2>1
    <3>3. from(to(k)) = k
      BY <2>1, <3>1 DEF from, to
    <3>4. \A j \in 1..Len(t) : IsCpuEvent(t[j]) => j = to(k)
      BY <1>2, <3>1, <3>2, <3>3
    <3>5. EndsAt(t, r, left, e)
      BY <2>1, <3>1, <3>4 DEF EndsAt
    <3>6. QED
      BY <2>3, <3>5
  <2>4. QED
    BY <2>2, <2>3
<1>6. QED
  BY <1>3, <1>4, <1>5

-----------------------------------------------------------------------------
\* What is left to do, what there was to do, and when it is done at the latest,
\* since the CPU is idle only while it waits for an arrival.
Work(pr) == SumFunction([p \in DOMAIN pr |-> pr[p].remaining_time])
Total(pr) == SumFunction([p \in DOMAIN pr |-> pr[p].burst_time])
Horizon(pr) == MaxTime(pr) - BoostSlack

\* The events as initialize_events plans them: an arrival at the time of its
\* process, a boost under MLFQ only, not before the first period is over.
PlannedFor(s, period, pr, P) ==
  {e \in EventsOf(P) :
     /\ e.type = "ARRIVAL" => e.time = pr[e.process].arrival_time
     /\ e.type = "PRIORITY_BOOST" =>
          /\ e.process = None /\ s = "mlfq"
          /\ period > 0 /\ e.time >= period}
Planned(pr, P) == PlannedFor(scheduler, config.boost_period, pr, P)

\* All this depends on the times of the workload alone, and the work on what is
\* left of each process.
SameTimes(pr, pr2) ==
  /\ DOMAIN pr2 = DOMAIN pr
  /\ \A p \in DOMAIN pr : /\ pr2[p].arrival_time = pr[p].arrival_time
                          /\ pr2[p].burst_time = pr[p].burst_time
SameWork(pr, pr2) ==
  SameTimes(pr, pr2) /\ \A p \in DOMAIN pr : pr2[p].remaining_time = pr[p].remaining_time
\* So the rest of the records may change.
LEMMA SameHorizon ==
  ASSUME NEW pr, NEW pr2, SameTimes(pr, pr2)
  PROVE  /\ MaxTime(pr2) = MaxTime(pr) /\ Total(pr2) = Total(pr) /\ Horizon(pr2) = Horizon(pr)
         /\ Planned(pr2, DOMAIN pr) = Planned(pr, DOMAIN pr)
         /\ SameWork(pr, pr2) => Work(pr2) = Work(pr)
<1>1. {pr2[p].arrival_time : p \in DOMAIN pr2} = {pr[p].arrival_time : p \in DOMAIN pr}
  BY DEF SameTimes
<1>2. [p \in DOMAIN pr2 |-> pr2[p].burst_time] = [p \in DOMAIN pr |-> pr[p].burst_time]
  BY DEF SameTimes
<1>3. MaxTime(pr2) = MaxTime(pr) /\ Total(pr2) = Total(pr)
  BY <1>1, <1>2 DEF MaxTime, Total
<1>4. ASSUME NEW e \in EventsOf(DOMAIN pr), e.type = "ARRIVAL"
      PROVE  pr2[e.process].arrival_time = pr[e.process].arrival_time
  BY <1>4 DEF SameTimes, EventsOf
<1>5. Planned(pr2, DOMAIN pr) = Planned(pr, DOMAIN pr)
  BY <1>4 DEF Planned, PlannedFor
<1>6. ASSUME SameWork(pr, pr2) PROVE Work(pr2) = Work(pr)
  <2>1. [p \in DOMAIN pr2 |-> pr2[p].remaining_time] = [p \in DOMAIN pr |-> pr[p].remaining_time]
    BY <1>6 DEF SameWork, SameTimes
  <2>2. QED
    BY <2>1 DEF Work
<1>7. QED
  BY <1>3, <1>5, <1>6 DEF Horizon

\* Everything that arrives can be done by the horizon.
LEMMA WorkBounds ==
  ASSUME NEW n \in Nat, NEW pr, RecordsOK(pr, 1..n)
  PROVE  /\ Work(pr) \in Nat /\ Total(pr) \in Nat /\ Horizon(pr) \in Nat
         /\ \A p \in 1..n : pr[p].arrival_time + Total(pr) <= Horizon(pr)
         /\ \A p \in 1..n : pr[p].remaining_time <= Work(pr)
<1> DEFINE arrival == [p \in 1..n |-> pr[p].arrival_time]
           burst == [p \in 1..n |-> pr[p].burst_time]
           left == [p \in 1..n |-> pr[p].remaining_time]
           last == Max({0} \cup {arrival[p] : p \in 1..n})
<1>1. \A p \in 1..n : /\ arrival[p] \in Nat /\ burst[p] \in Nat /\ left[p] \in Nat
                      /\ arrival[p] = pr[p].arrival_time /\ left[p] = pr[p].remaining_time
  BY DEF RecordsOK, Records
<1>2. IsFiniteSet(1..n) /\ DOMAIN burst = 1..n /\ DOMAIN left = 1..n /\ DOMAIN pr = 1..n
  BY FS_Interval DEF RecordsOK
<1>3. MaxTime(pr) = last + Total(pr) + BoostSlack /\ Total(pr) = SumFunction(burst)
  <2>1. {arrival[p] : p \in 1..n} = {pr[p].arrival_time : p \in 1..n}
    OBVIOUS
  <2>2. QED
    BY <1>2, <2>1 DEF MaxTime, Total
<1>4. Work(pr) = SumFunctionOnSet(left, 1..n) /\ Total(pr) = SumFunctionOnSet(burst, 1..n)
  BY <1>2, <1>3 DEF Work, SumFunction
<1> HIDE DEF arrival, burst, left
<1>5. last \in Nat /\ \A p \in 1..n : arrival[p] <= last
  BY <1>1, LastArrival
<1>6. Work(pr) \in Nat /\ \A p \in 1..n : left[p] <= Work(pr)
  BY <1>1, <1>2, <1>4, SumBounds
<1>7. Total(pr) \in Nat
  BY <1>1, <1>2, <1>4, SumBounds
<1> HIDE DEF last
<1>8. Horizon(pr) = last + Total(pr)
  BY <1>3, <1>5, <1>7, EngineAssumption DEF Horizon
<1>9. ASSUME NEW p \in 1..n
      PROVE  /\ pr[p].arrival_time + Total(pr) <= Horizon(pr)
             /\ pr[p].remaining_time <= Work(pr)
  <2>1. arrival[p] \in Nat /\ arrival[p] = pr[p].arrival_time /\ arrival[p] <= last
    BY <1>1, <1>5
  <2>2. left[p] = pr[p].remaining_time /\ left[p] <= Work(pr)
    BY <1>1, <1>6
  <2>3. QED
    BY <1>5, <1>7, <1>8, <2>1, <2>2
<1>10. QED
  BY <1>5, <1>6, <1>7, <1>8, <1>9

\* A charge is work done.
LEMMA WorkDone ==
  ASSUME NEW n \in Nat, NEW pr, RecordsOK(pr, 1..n), NEW pr2, RecordsOK(pr2, 1..n),
         NEW p \in 1..n, NEW run \in Nat, pr2[p].remaining_time = pr[p].remaining_time - run,
         \A x \in (1..n) \ {p} : pr2[x].remaining_time = pr[x].remaining_time
  PROVE  Work(pr2) = Work(pr) - run
<1> DEFINE left == [x \in 1..n |-> pr[x].remaining_time]
           left2 == [x \in 1..n |-> pr2[x].remaining_time]
<1>1. \A x \in 1..n : left[x] \in Int /\ left2[x] \in Int
  <2>1. \A r \in Records : r.remaining_time \in Int
    BY DEF Records
  <2>2. QED
    BY <2>1 DEF RecordsOK
<1>2. \A x \in (1..n) \ {p} : left2[x] = left[x]
  OBVIOUS
<1>3. left2[p] = left[p] - run
  OBVIOUS
<1>4. IsFiniteSet(1..n) /\ DOMAIN left = 1..n /\ DOMAIN left2 = 1..n
  BY FS_Interval
<1>5. Work(pr) = SumFunctionOnSet(left, 1..n) /\ Work(pr2) = SumFunctionOnSet(left2, 1..n)
  <2>1. DOMAIN pr = 1..n /\ DOMAIN pr2 = 1..n
    BY DEF RecordsOK
  <2>2. QED
    BY <1>4, <2>1 DEF Work, SumFunction
<1>6. left2[p] \in Int /\ left[p] \in Int
  BY <1>1
<1> HIDE DEF left, left2
<1> DEFINE S == 1..n
<1>7. /\ p \in S /\ IsFiniteSet(S)
      /\ \A x \in S : left[x] \in Int /\ left2[x] \in Int
      /\ \A x \in S \ {p} : left2[x] = left[x]
  BY <1>1, <1>2, <1>4
<1>8. Work(pr) = SumFunctionOnSet(left, S) /\ Work(pr2) = SumFunctionOnSet(left2, S)
  BY <1>5
<1> HIDE DEF S
<1>9. IsFiniteSet(S \ {p})
  BY <1>7, FS_Subset
<1> DEFINE rest == SumFunctionOnSet(left, S \ {p})
<1>10. SumFunctionOnSet(left2, S \ {p}) = rest /\ rest \in Int
  <2>1. SumFunctionOnSet(left2, S \ {p}) = rest
    BY <1>7, <1>9, SumAgree
  <2>2. \A x \in S \ {p} : left[x] \in Int
    BY <1>7
  <2>3. rest \in Int
    BY <1>9, <2>2, SumSplit
  <2>4. QED
    BY <2>1, <2>3
<1>11. SumFunctionOnSet(left, S) = left[p] + rest /\ SumFunctionOnSet(left2, S) = left2[p] + rest
  <2>1. \A x \in S : left[x] \in Int
    BY <1>7
  <2>2. \A x \in S : left2[x] \in Int
    BY <1>7
  <2>3. SumFunctionOnSet(left, S) = left[p] + rest
    BY <1>7, <2>1, SumSplit
  <2>4. SumFunctionOnSet(left2, S) = left2[p] + SumFunctionOnSet(left2, S \ {p})
    BY <1>7, <2>2, SumSplit
  <2>5. QED
    BY <1>10, <2>3, <2>4
<1> HIDE DEF rest
<1>12. QED
  BY <1>3, <1>6, <1>8, <1>10, <1>11

-----------------------------------------------------------------------------
Entries(P) == [name : P, start : Nat, end : Nat]

\* The chart up to time e: one segment after the other.
ChartOK(g, e, P) ==
  /\ g \in Seq(Entries(P))
  /\ \A k \in 1..Len(g) : g[k].start <= g[k].end /\ g[k].end <= e
  /\ \A k \in 2..Len(g) : g[k - 1].end <= g[k].start

\* Its times are numbers, and a chart up to a time is one up to any later time.
LEMMA ChartTimes ==
  ASSUME NEW P, NEW g, NEW e, ChartOK(g, e, P)
  PROVE  \A k \in 1..Len(g) : g[k].name \in P /\ g[k].start \in Nat /\ g[k].end \in Nat
<1>1. SUFFICES ASSUME NEW k \in 1..Len(g)
               PROVE  g[k].name \in P /\ g[k].start \in Nat /\ g[k].end \in Nat
  OBVIOUS
<1>2. g[k] \in Entries(P)
  BY DEF ChartOK
<1>3. QED
  BY <1>2 DEF Entries

\* A chart that reaches some moment is one that does not go beyond a later one.
LEMMA ChartLater ==
  ASSUME NEW P, NEW g, NEW e \in Nat, ChartOK(g, e, P), NEW f \in Nat, e <= f
  PROVE  ChartOK(g, f, P)
<1>1. \A k \in 1..Len(g) : g[k].end \in Nat
  BY ChartTimes
<1>2. \A k \in 1..Len(g) : g[k].end <= e
  BY DEF ChartOK
<1>3. \A k \in 1..Len(g) : g[k].end <= f
  BY <1>1, <1>2
<1>4. QED
  BY <1>3 DEF ChartOK

\* It goes on with the run of p that starts now.
LEMMA ChartGrows ==
  ASSUME NEW P, NEW p \in P, Now \in Nat, NEW run \in Nat, ChartOK(gantt, Now, P)
  PROVE  ChartOK(Drawn(p, run), Now + run, P)
<1> DEFINE g == gantt
           h == Drawn(p, run)
           s == [name |-> p, start |-> Now, end |-> Now + run]
<1>1. g \in Seq(Entries(P)) /\ Len(g) \in Nat
  BY DEF ChartOK
<1>2. \A k \in 1..Len(g) : g[k].end \in Nat /\ g[k].start \in Nat
  BY ChartTimes
<1>3. CASE h = g
  <2>1. \A k \in 1..Len(g) : g[k].end \in Nat
    BY <1>2
  <2>2. \A k \in 1..Len(g) : g[k].end <= Now
    BY DEF ChartOK
  <2>3. \A k \in 1..Len(g) : g[k].end <= Now + run
    BY <2>1, <2>2
  <2>4. QED
    BY <1>3, <2>3 DEF ChartOK
<1>4. CASE h = Append(g, s)
  <2>1. s \in Entries(P)
    BY DEF Entries
  <2> HIDE DEF s
  <2>2. /\ h \in Seq(Entries(P)) /\ Len(h) = Len(g) + 1
        /\ h[Len(g) + 1] = s /\ \A k \in 1..Len(g) : h[k] = g[k]
    BY <1>1, <1>4, <2>1
  <2> HIDE DEF h
  <2>3. s.start = Now /\ s.end = Now + run
    BY DEF s
  <2>4. \A k \in 1..Len(g) : g[k].end \in Nat /\ g[k].start \in Nat
    BY <1>2
  <2>5. \A k \in 1..Len(g) : g[k].start <= g[k].end /\ g[k].end <= Now
    BY DEF ChartOK
  <2>6. \A k \in 1..Len(h) : h[k].start <= h[k].end /\ h[k].end <= Now + run
    <3>1. SUFFICES ASSUME NEW k \in 1..Len(h)
                   PROVE  h[k].start <= h[k].end /\ h[k].end <= Now + run
      OBVIOUS
    <3>2. CASE k \in 1..Len(g)
      <4>1. h[k] = g[k]
        BY <2>2, <3>2
      <4>2. g[k].start <= g[k].end /\ g[k].end <= Now /\ g[k].end \in Nat
        BY <2>4, <2>5, <3>2
      <4> HIDE DEF g
      <4>3. QED
        BY <4>1, <4>2
    <3>3. CASE k = Len(g) + 1
      BY <2>2, <2>3, <3>3
    <3>4. QED
      BY <1>1, <2>2, <3>1, <3>2, <3>3
  <2>7. \A k \in 2..Len(h) : h[k - 1].end <= h[k].start
    <3>1. SUFFICES ASSUME NEW k \in 2..Len(h) PROVE h[k - 1].end <= h[k].start
      OBVIOUS
    <3>2. CASE k \in 2..Len(g)
      <4>1. h[k] = g[k] /\ h[k - 1] = g[k - 1]
        <5>1. k \in 1..Len(g) /\ k - 1 \in 1..Len(g)
          BY <1>1, <3>2
        <5>2. QED
          BY <2>2, <5>1
      <4>2. QED
        BY <3>2, <4>1 DEF ChartOK
    <3>3. CASE k = Len(g) + 1
      <4>1. k - 1 \in 1..Len(g) /\ h[k - 1] = g[k - 1] /\ h[k] = s
        BY <1>1, <2>2, <3>1, <3>3
      <4>2. QED
        BY <2>3, <2>5, <4>1
    <3>4. QED
      BY <1>1, <2>2, <3>1, <3>2, <3>3
  <2>8. QED
    BY <2>2, <2>6, <2>7 DEF ChartOK, h
<1>5. QED
  BY <1>3, <1>4 DEF Drawn

-----------------------------------------------------------------------------
\* Under STCF a run that leaves something to do ends at the next arrival.
LEMMA RunsToArrival ==
  ASSUME scheduler = "stcf", NEW P, NEW q \in Seq(EventsOf(P)), InOrder(q),
         NEW r \in Records, NEW now \in Nat, RunTime(r, now, q) # r.remaining_time
  PROVE  NoneArrivesBefore(q, now + RunTime(r, now, q))
<1> DEFINE T == {k \in 1..Len(q) : q[k].type = "ARRIVAL"}
           next == NextArrival(q)
<1>1. next = IF T # {} THEN Min(T) ELSE 0
  BY DEF NextArrival, SelectInSeq
<1>2. RunTime(r, now, q) = IF next # 0 /\ q[next].time > now
                             THEN AtMost(r.remaining_time, q[next].time - now)
                             ELSE r.remaining_time
  BY DEF RunTime, IsFuture
<1>3. next # 0 /\ RunTime(r, now, q) = q[next].time - now
  BY <1>2 DEF AtMost
<1>4. Len(q) \in Nat /\ T \subseteq 1..Len(q) /\ T # {}
  BY <1>1, <1>3
<1> HIDE DEF next
<1>5. next \in 1..Len(q) /\ \A k \in T : next <= k
  <2> HIDE DEF T
  <2>1. QED
    BY <1>1, <1>4, LeastPosition
<1>6. q[next].time \in Nat
  BY <1>5 DEF EventsOf
<1>7. \A k \in T : q[next].time <= q[k].time
  BY <1>5 DEF InOrder
<1>8. now + RunTime(r, now, q) = q[next].time
  BY <1>3, <1>6
<1>9. QED
  BY <1>7, <1>8 DEF NoneArrivesBefore

\* The CPU is free at time e.
Free(pr, q, g, e, P) ==
  /\ q \in Seq(Planned(pr, P)) /\ NoCpu(q)
  /\ ChartOK(g, e, P)
  /\ Work(pr) <= Total(pr)

\* With r on the CPU, it is so until time e, and not beyond the horizon.
Served(pr, r, w, q, g, e, P) ==
  /\ q \in Seq(Planned(pr, P))
  /\ ChartOK(g, e, P)
  /\ Work(pr) <= Total(pr)
  /\ r = None => NoCpu(q) /\ IsEmpty(w)
  /\ r # None =>
       /\ EndsAt(q, r, pr[r].remaining_time, e)
       /\ e + Work(pr) <= Horizon(pr)
       /\ scheduler = "stcf" /\ pr[r].remaining_time > 0 => NoneArrivesBefore(q, e)

\* What Dispatch does to the records: one is charged for its run.
Charges(pr, pr2, p, run) ==
  /\ DOMAIN pr2 = DOMAIN pr
  /\ pr2[p] = Charged(pr[p], Now, run)
  /\ \A x \in DOMAIN pr : x # p => pr2[x] = pr[x]
\* This is so of some run, and it is work done.
LEMMA DispatchCharges ==
  ASSUME SettingsOK, NEW n \in Nat, NEW pr, RecordsOK(pr, 1..n), NEW p \in 1..n,
         NEW q \in Seq(EventsOf(1..n)), Now \in Nat, NEW w, Dispatch(p, pr, w, q)
  PROVE  LET run == RunTime(pr[p], Now, q)
         IN  /\ run \in Nat /\ run <= pr[p].remaining_time
             /\ Charges(pr, proc', p, run)
             /\ RecordsOK(proc', 1..n) /\ SameTimes(pr, proc')
             /\ proc'[p].remaining_time = pr[p].remaining_time - run
             /\ Work(proc') = Work(pr) - run
<1> DEFINE run == RunTime(pr[p], Now, q)
<1>1. /\ pr[p] \in Records /\ DOMAIN pr = 1..n
      /\ scheduler = "mlfq" => pr[p].priority + 1 \in 1..Len(Levels)
  BY DEF RecordsOK
<1>2. run \in Nat /\ run <= pr[p].remaining_time
  BY <1>1, RunTimeBounds
<1>3. proc' = [pr EXCEPT ![p] = Charged(@, Now, run)]
  BY DEF Dispatch
<1> HIDE DEF run
<1>4. Charges(pr, proc', p, run)
  BY <1>1, <1>3 DEF Charges
<1>5. /\ proc'[p] \in Records /\ proc'[p].priority = pr[p].priority
      /\ proc'[p].remaining_time = pr[p].remaining_time - run
      /\ proc'[p].arrival_time = pr[p].arrival_time
      /\ proc'[p].burst_time = pr[p].burst_time
  BY <1>1, <1>2, <1>4, ChargedRecord DEF Charges
<1>6. RecordsOK(proc', 1..n)
  BY <1>1, <1>4, <1>5 DEF RecordsOK, Charges
<1>7. SameTimes(pr, proc')
  BY <1>1, <1>4, <1>5 DEF SameTimes, Charges
<1>8. Work(proc') = Work(pr) - run
  <2>1. \A x \in (1..n) \ {p} : proc'[x].remaining_time = pr[x].remaining_time
    BY <1>1, <1>4 DEF Charges
  <2>2. SUFFICES ASSUME NEW pr2, pr2 = proc' PROVE Work(pr2) = Work(pr) - run
    OBVIOUS
  <2>3. /\ RecordsOK(pr2, 1..n) /\ pr2[p].remaining_time = pr[p].remaining_time - run
        /\ \A x \in (1..n) \ {p} : pr2[x].remaining_time = pr[x].remaining_time
    BY <1>5, <1>6, <2>1, <2>2
  <2>4. QED
    BY <1>2, <2>3, WorkDone
<1>9. QED
  BY <1>2, <1>4, <1>5, <1>6, <1>7, <1>8 DEF run

\* Whoever gets a free CPU has it for its run.
LEMMA RunServed ==
  ASSUME SettingsOK, NEW n \in Nat, NEW pr, NEW w, NEW q, NEW p \in 1..n,
         RecordsOK(pr, 1..n), InOrder(q), Now \in Nat,
         Free(pr, q, gantt, Now, 1..n), Now + Work(pr) <= Horizon(pr),
         Dispatch(p, pr, w, q)
  PROVE  \E e \in Nat : /\ e = Now + RunTime(pr[p], Now, q) /\ running' = p
                        /\ Served(proc', running', waiting', event_queue', gantt', e, 1..n)
<1> DEFINE P == 1..n
           run == RunTime(pr[p], Now, q)
           left == pr[p].remaining_time - run
           type == IF left = 0 THEN "COMPLETION" ELSE "QUANTUM_EXPIRE"
           e == Event(Now + run, type, p)
           b == SortsByRemaining(scheduler)
<1>1. q \in Seq(EventsOf(P)) /\ q \in Seq(Planned(pr, P))
  BY DEF Free, Planned, PlannedFor
<1>2. /\ run \in Nat /\ run <= pr[p].remaining_time
      /\ RecordsOK(proc', P) /\ SameTimes(pr, proc')
      /\ proc'[p].remaining_time = left
      /\ Work(proc') = Work(pr) - run
  BY <1>1, DispatchCharges
<1>3. /\ running' = p /\ waiting' = w /\ gantt' = Drawn(p, run)
      /\ event_queue' = EnqueueEvent(q, e, proc', b)
  <2>1. proc'[p].remaining_time = left
    BY <1>2
  <2>2. QED
    BY <2>1 DEF Dispatch
<1>4. /\ MaxTime(proc') = MaxTime(pr) /\ Total(proc') = Total(pr)
      /\ Horizon(proc') = Horizon(pr) /\ Planned(proc', P) = Planned(pr, P)
  <2>1. DOMAIN pr = P
    BY DEF RecordsOK
  <2>2. QED
    BY <1>2, <2>1, SameHorizon
<1>5. pr[p].remaining_time \in Nat /\ pr[p] \in Records
  BY DEF RecordsOK, Records
<1>6. Work(pr) \in Nat /\ Total(pr) \in Nat /\ Horizon(pr) \in Nat
  BY WorkBounds
<1> HIDE DEF run
<1>7. e \in Planned(pr, P) /\ e.type # "ARRIVAL" /\ IsCpuEvent(e)
      /\ (e.type = "COMPLETION" <=> left = 0) /\ e.process = p /\ e.time = Now + run
  BY <1>2 DEF Planned, PlannedFor, EventsOf, EventTypes, Event, IsCpuEvent
<1> HIDE DEF e, b
<1>8. event_queue' \in Seq(Planned(proc', P))
  BY <1>1, <1>3, <1>4, <1>7, EnqueuedAt
<1>9. ChartOK(gantt', Now + run, P)
  <2>1. ChartOK(gantt, Now, P)
    BY DEF Free
  <2>2. QED
    BY <1>2, <1>3, <2>1, ChartGrows
<1>10. Work(proc') <= Total(proc')
  BY <1>2, <1>4, <1>6 DEF Free
<1>11. Now + run + Work(proc') <= Horizon(proc')
  BY <1>2, <1>4, <1>6
<1>12. EndsAt(event_queue', p, left, Now + run)
  <2>1. NoCpu(q)
    BY DEF Free
  <2> HIDE DEF left
  <2>2. EndsAt(EnqueueEvent(q, e, proc', b), e.process, left, e.time)
    BY <1>1, <1>7, <2>1, EndComes
  <2>3. QED
    BY <1>3, <1>7, <2>2
<1>13. ASSUME scheduler = "stcf", left > 0
       PROVE  NoneArrivesBefore(event_queue', Now + run)
  <2>1. run # pr[p].remaining_time
    BY <1>2, <1>5, <1>13
  <2>2. NoneArrivesBefore(q, Now + run)
    BY <1>1, <1>5, <1>13, <2>1, RunsToArrival DEF run
  <2>3. NoCpu(q)
    BY DEF Free
  <2> HIDE DEF left
  <2>4. QED
    BY <1>1, <1>3, <1>7, <2>2, <2>3, EndComes
<1>14. Served(proc', running', waiting', event_queue', gantt', Now + run, P)
  <2>1. p # None
    BY EngineAssumption
  <2> HIDE DEF left
  <2>2. QED
    BY <1>2, <1>3, <1>8, <1>9, <1>10, <1>11, <1>12, <1>13, <2>1 DEF Served
<1>15. QED
  BY <1>2, <1>3, <1>14 DEF run

\* The first of the queue gets the free CPU, or nobody does.
LEMMA NextServed ==
  ASSUME SettingsOK, NEW n \in Nat, NEW pr, NEW w, NEW q, Good(pr, None, w, q, 1..n),
         Now \in Nat, Free(pr, q, gantt, Now, 1..n), Now + Work(pr) <= Horizon(pr),
         DispatchNext(pr, w, q)
  PROVE  \E e \in Nat : /\ running' = None => e <= Now
                        /\ Served(proc', running', waiting', event_queue', gantt', e, 1..n)
<1> DEFINE P == 1..n
<1>1. CASE IsEmpty(w)
  <2>1. running' = None /\ waiting' = w /\ proc' = pr /\ event_queue' = q /\ gantt' = gantt
    BY <1>1 DEF DispatchNext
  <2>2. Served(pr, None, w, q, gantt, Now, P)
    BY <1>1 DEF Served, Free
  <2>3. QED
    BY <2>1, <2>2
<1>2. CASE ~IsEmpty(w)
  <2> DEFINE p == Taken(scheduler, w)
             v == Left(scheduler, w)
  <2>1. Dispatch(p, pr, v, q)
    BY <1>2 DEF DispatchNext
  <2>2. w \in Lists(ListCount, P) /\ Distinct(w) /\ scheduler \in AlgorithmNames /\ LevelsTyped
    BY DEF Good, PlacesOK, SettingsOK, LevelsTyped, LevelsOK
  <2>3. p \in InQueue(w)
    BY <1>2, <2>2, DequeuedWaiting
  <2> HIDE DEF p, v
  <2>4. p \in P /\ p # None
    <3>1. p \in P
      BY <2>2, <2>3 DEF Lists, InQueue, ToSet
    <3>2. QED
      BY <3>1, EngineAssumption
  <2>5. RecordsOK(pr, P) /\ InOrder(q) /\ q \in Seq(EventsOf(P))
    BY DEF Good, EventsOK
  <2>6. \E e \in Nat : /\ running' = p
                       /\ Served(proc', running', waiting', event_queue', gantt', e, P)
    BY <2>1, <2>4, <2>5, RunServed
  <2>7. QED
    BY <2>4, <2>6
<1>3. QED
  BY <1>1, <1>2

\* What the first event is, with the CPU in use until time e or free.
LEMMA FirstServed ==
  ASSUME NEW n \in Nat, Good(proc, running, waiting, event_queue, 1..n), event_queue # <<>>,
         NEW e \in Nat, Served(proc, running, waiting, event_queue, gantt, e, 1..n)
  PROVE  LET t == Tail(event_queue)
             first == Head(event_queue)
         IN  /\ first \in Planned(proc, 1..n) /\ t \in Seq(Planned(proc, 1..n))
             /\ InOrder(t)
             /\ running = None => NoCpu(t) /\ ~IsCpuEvent(first)
             /\ running # None /\ IsCpuEvent(first) =>
                  /\ NoCpu(t) /\ Now = e /\ Subject = running
                  /\ first.type = "COMPLETION" <=> proc[running].remaining_time = 0
             /\ running # None /\ ~IsCpuEvent(first) =>
                  EndsAt(t, running, proc[running].remaining_time, e)
             /\ running # None => Now <= e
             /\ \A time : NoneArrivesBefore(event_queue, time) => NoneArrivesBefore(t, time)
             /\ first.type = "ARRIVAL" =>
                  /\ Subject \in 1..n /\ Now = proc[Subject].arrival_time
                  /\ \A time : NoneArrivesBefore(event_queue, time) => Now >= time
<1> DEFINE P == 1..n
           q == event_queue
           t == Tail(q)
           first == Head(q)
<1>1. q \in Seq(Planned(proc, P)) /\ q \in Seq(EventsOf(P)) /\ EventsOK(q, P)
  BY DEF Served, Good, EventsOK
<1>2. /\ t \in Seq(Planned(proc, P)) /\ Removed(t, q, 1) /\ Len(q) \in Nat \ {0}
      /\ first = q[1] /\ first \in Planned(proc, P)
  BY <1>1, TailRemoves
<1>3. 1 \in 1..Len(q) /\ t \in Seq(EventsOf(P))
  BY <1>1, <1>2, TailRemoves
<1>4. Now = q[1].time /\ Subject = q[1].process
  BY <1>2 DEF Now, Subject
<1>5. InOrder(t)
  <2> HIDE DEF t, q
  <2>1. QED
    BY <1>1, <1>2, <1>3, RemovedOK DEF EventsOK
<1>6. running = None => NoCpu(t) /\ ~IsCpuEvent(first)
  <2>1. SUFFICES ASSUME running = None PROVE NoCpu(t) /\ ~IsCpuEvent(first)
    OBVIOUS
  <2>2. NoCpu(q)
    BY <2>1 DEF Served
  <2>3. ~IsCpuEvent(first)
    BY <1>2, <1>3, <2>2 DEF NoCpu
  <2> HIDE DEF t, q
  <2>4. NoCpu(t)
    BY <1>1, <1>2, <1>3, <2>2, EventGoes
  <2>5. QED
    BY <2>3, <2>4
<1> DEFINE left == proc[running].remaining_time
<1>7. running # None => IF IsCpuEvent(q[1])
                          THEN NoCpu(t) /\ q[1].process = running /\ q[1].time = e
                               /\ (q[1].type = "COMPLETION" <=> left = 0)
                          ELSE EndsAt(t, running, left, e)
  <2>1. SUFFICES ASSUME running # None
                 PROVE  IF IsCpuEvent(q[1])
                          THEN NoCpu(t) /\ q[1].process = running /\ q[1].time = e
                               /\ (q[1].type = "COMPLETION" <=> left = 0)
                          ELSE EndsAt(t, running, left, e)
    OBVIOUS
  <2>2. EndsAt(q, running, left, e)
    BY <2>1 DEF Served
  <2> HIDE DEF t, q, left
  <2>3. QED
    BY <1>1, <1>2, <1>3, <2>2, EventGoes
<1>8. running # None => Now <= e
  <2>1. SUFFICES ASSUME running # None PROVE Now <= e
    OBVIOUS
  <2>2. PICK k \in 1..Len(q) : q[k].time = e
    BY <2>1 DEF Served, EndsAt
  <2>3. q[1].time <= q[k].time
    BY <1>1, <1>3, <2>2 DEF EventsOK, InOrder
  <2>4. QED
    BY <1>4, <2>2, <2>3
<1>9. \A time : NoneArrivesBefore(q, time) => NoneArrivesBefore(t, time)
  <2> HIDE DEF t, q
  <2>1. QED
    BY <1>1, <1>2, <1>3, EventGoes
<1>10. first.type = "ARRIVAL" =>
         /\ Subject \in P /\ Now = proc[Subject].arrival_time
         /\ \A time : NoneArrivesBefore(q, time) => Now >= time
  <2>1. SUFFICES ASSUME first.type = "ARRIVAL"
                 PROVE  /\ Subject \in P /\ Now = proc[Subject].arrival_time
                        /\ \A time : NoneArrivesBefore(q, time) => Now >= time
    OBVIOUS
  <2>2. Subject \in P /\ Now = proc[Subject].arrival_time
    BY <1>2, <1>4, <2>1 DEF Planned, PlannedFor, EventsOf
  <2>3. \A time : NoneArrivesBefore(q, time) => Now >= time
    BY <1>2, <1>3, <1>4, <2>1 DEF NoneArrivesBefore
  <2>4. QED
    BY <2>2, <2>3
<1>11. QED
  BY <1>2, <1>4, <1>5, <1>6, <1>7, <1>8, <1>9, <1>10

-----------------------------------------------------------------------------
\* The handlers, one by one.  Before the first boost the CPU is in use until the
\* time of its event, or free.
OnCpu(e, P) ==
  /\ running = None => e <= current_time
  /\ Served(proc, running, waiting, event_queue, gantt, e, P)
OnCpuNext(P) ==
  \E e \in Nat : /\ running' = None => e <= Now
                 /\ Served(proc', running', waiting', event_queue', gantt', e, P)

\* The event that is taken back by a preemption is the end of the run.
LEMMA TakenBack ==
  ASSUME NEW n \in Nat, NEW pr, NEW t \in Seq(Planned(pr, 1..n)), InOrder(t),
         NEW r \in 1..n, r \notin Arriving(t), NEW left, NEW e, EndsAt(t, r, left, e)
  PROVE  LET q == RemoveEvent(t, r)
         IN  /\ q \in Seq(Planned(pr, 1..n)) /\ InOrder(q) /\ NoCpu(q)
             /\ Arriving(q) = Arriving(t)
<1> DEFINE q == RemoveEvent(t, r)
<1>1. PICK k \in 1..Len(t) : IsCpuEvent(t[k]) /\ t[k].process = r
  BY DEF EndsAt
<1>2. q \in Seq(Planned(pr, 1..n)) /\ \E i \in 1..Len(t) : Removed(q, t, i) /\ t[i].process = r
  BY <1>1, RemovedEvent
<1>3. PICK i \in 1..Len(t) : Removed(q, t, i) /\ t[i].process = r
  BY <1>2
<1> HIDE DEF q
<1>4. IsCpuEvent(t[i]) /\ t[i].type # "ARRIVAL"
  <2>1. t[i] \in Planned(pr, 1..n)
    OBVIOUS
  <2>2. t[i].type # "ARRIVAL"
    BY <1>3 DEF Arriving
  <2>3. t[i].type # "PRIORITY_BOOST"
    BY <1>3, <2>1, EngineAssumption DEF Planned, PlannedFor
  <2>4. QED
    BY <2>1, <2>2, <2>3 DEF Planned, PlannedFor, EventsOf, EventTypes, IsCpuEvent
<1>5. NoCpu(q)
  BY <1>2, <1>3, <1>4, EventGoes
<1> DEFINE from(j) == IF j < i THEN j ELSE j + 1
           to(j) == IF j < i THEN j ELSE j - 1
<1>6. /\ \A j \in 1..Len(q) : from(j) \in 1..Len(t) /\ q[j] = t[from(j)]
      /\ \A j \in 1..Len(t) : j # i => to(j) \in 1..Len(q) /\ t[j] = q[to(j)]
  BY <1>2, <1>3, RemovedFrom
<1>7. \A j, l \in 1..Len(q) : j <= l => from(j) <= from(l)
  OBVIOUS
<1> HIDE DEF from, to
<1>8. InOrder(q)
  BY <1>6, <1>7 DEF InOrder
<1>9. Arriving(q) = Arriving(t)
  <2>1. ASSUME NEW x \in Arriving(q) PROVE x \in Arriving(t)
    BY <1>6 DEF Arriving
  <2>2. ASSUME NEW x \in Arriving(t) PROVE x \in Arriving(q)
    <3>1. PICK j \in 1..Len(t) : t[j].type = "ARRIVAL" /\ t[j].process = x
      BY <2>2 DEF Arriving
    <3>2. j # i
      BY <1>4, <3>1
    <3>3. to(j) \in 1..Len(q) /\ q[to(j)].type = "ARRIVAL" /\ q[to(j)].process = x
      BY <1>6, <3>1, <3>2
    <3>4. QED
      BY <3>3 DEF Arriving
  <2>3. QED
    BY <2>1, <2>2
<1>10. QED
  BY <1>2, <1>5, <1>8, <1>9 DEF q

\* handle_arrival.
LEMMA ArrivalServed ==
  ASSUME SettingsOK, NEW n \in Nat, Good(proc, running, waiting, event_queue, 1..n),
         NoneBefore(event_queue, current_time), current_time \in Nat,
         NEW e \in Nat, OnCpu(e, 1..n), handle_arrival
  PROVE  OnCpuNext(1..n)
<1> DEFINE P == 1..n
           s == Subject
           t == Tail(event_queue)
<1>1. /\ event_queue # <<>> /\ Head(event_queue).type = "ARRIVAL"
      /\ ArrivalDispatches \/ ArrivalPreempts \/ ArrivalWaits
  BY DEF handle_arrival, Handle
<1>2. None \notin P
  BY EngineAssumption
<1>3. /\ Now \in Nat /\ Good(proc, running, waiting, t, P)
      /\ s \in P /\ s \notin Arriving(t) /\ current_time <= Now
  BY <1>1, <1>2, FirstEvent
<1>4. Served(proc, running, waiting, event_queue, gantt, e, P)
      /\ (running = None => e <= Now)
  BY <1>3 DEF OnCpu
<1>5. /\ t \in Seq(Planned(proc, P)) /\ InOrder(t)
      /\ running = None => NoCpu(t)
      /\ running # None => EndsAt(t, running, proc[running].remaining_time, e) /\ Now <= e
      /\ \A time : NoneArrivesBefore(event_queue, time) => NoneArrivesBefore(t, time)
      /\ Now = proc[s].arrival_time
      /\ \A time : NoneArrivesBefore(event_queue, time) => Now >= time
  <2>1. ~IsCpuEvent(Head(event_queue))
    BY <1>1 DEF IsCpuEvent
  <2>2. QED
    BY <1>1, <1>4, <2>1, FirstServed
<1>6. RecordsOK(proc, P)
  BY DEF Good
<1>7. /\ Work(proc) \in Nat /\ Total(proc) \in Nat /\ Horizon(proc) \in Nat
      /\ proc[s].arrival_time + Total(proc) <= Horizon(proc)
  BY <1>3, <1>6, WorkBounds
<1>8. Work(proc) <= Total(proc) /\ ChartOK(gantt, e, P)
  BY <1>4 DEF Served
<1> HIDE DEF s, t, P
<1>9. ASSUME NEW q \in Seq(EventsOf(P)), NEW w, Dispatch(s, proc, w, q),
             InOrder(q), Free(proc, q, gantt, Now, P)
      PROVE  OnCpuNext(P)
  <2>1. Now + Work(proc) <= Horizon(proc)
    BY <1>3, <1>5, <1>7, <1>8
  <2>2. \E f \in Nat : /\ running' = s
                       /\ Served(proc', running', waiting', event_queue', gantt', f, P)
    BY <1>3, <1>6, <1>9, <2>1, RunServed DEF P
  <2>3. QED
    BY <1>2, <1>3, <2>2 DEF OnCpuNext
<1>10. \A q : q \in Seq(Planned(proc, P)) => q \in Seq(EventsOf(P))
  <2>1. Planned(proc, P) \subseteq EventsOf(P)
    BY DEF Planned, PlannedFor
  <2>2. QED
    BY <2>1
<1>11. CASE ArrivalDispatches
  <2>1. Dispatch(s, proc, waiting, t) /\ running = None
    BY <1>11 DEF ArrivalDispatches, s, t
  <2>2. ChartOK(gantt, Now, P)
    <3>1. e <= Now
      BY <1>4, <2>1
    <3>2. QED
      BY <1>3, <1>8, <3>1, ChartLater
  <2>3. Free(proc, t, gantt, Now, P)
    BY <1>5, <1>8, <2>1, <2>2 DEF Free
  <2>4. QED
    BY <1>5, <1>9, <1>10, <2>1, <2>3 DEF P
<1>12. CASE ArrivalPreempts
  <2> DEFINE w == Enqueue(scheduler, waiting, running, proc)
             q == RemoveEvent(t, running)
  <2>1. /\ Dispatch(s, proc, w, q) /\ running # None /\ scheduler = "stcf"
        /\ proc[s].remaining_time < proc[running].remaining_time
    BY <1>12 DEF ArrivalPreempts, Preempts, s, t
  <2>2. running \in P /\ running \notin Arriving(t)
    BY <1>3, <2>1 DEF Good, PlacesOK
  <2>3. proc[running].remaining_time > 0
    <3>1. \A r \in Records : r.remaining_time \in Nat
      BY DEF Records
    <3>2. proc[s].remaining_time \in Nat /\ proc[running].remaining_time \in Nat
      BY <1>3, <1>6, <2>2, <3>1 DEF RecordsOK
    <3>3. QED
      BY <2>1, <3>2
  <2>4. Now = e
    <3>1. NoneArrivesBefore(event_queue, e)
      BY <1>4, <2>1, <2>3 DEF Served
    <3>2. QED
      BY <1>3, <1>5, <2>1, <3>1
  <2>5. q \in Seq(Planned(proc, P)) /\ InOrder(q) /\ NoCpu(q)
    BY <1>5, <2>1, <2>2, TakenBack DEF P
  <2> HIDE DEF q, w
  <2>6. Free(proc, q, gantt, Now, P)
    BY <1>8, <2>4, <2>5 DEF Free
  <2>7. QED
    BY <1>9, <1>10, <2>1, <2>5, <2>6 DEF P
<1>13. CASE ArrivalWaits
  <2>1. /\ running' = running /\ proc' = proc /\ event_queue' = t /\ gantt' = gantt
        /\ running # None
    BY <1>13 DEF ArrivalWaits, s, t
  <2>2. Served(proc, running, waiting', t, gantt, e, P)
    BY <1>4, <1>5, <1>8, <2>1 DEF Served
  <2>3. QED
    BY <2>1, <2>2 DEF OnCpuNext, P
<1>14. QED
  BY <1>1, <1>11, <1>12, <1>13

\* What the handlers do to the records apart from the charge.
LEMMA SameWorkAll ==
  ASSUME NEW n \in Nat, NEW w, NEW q, Good(proc, running, w, q, 1..n)
  PROVE  /\ \A time : SameWork(proc, FinishRunning(time))
         /\ SameWork(proc, AfterDemotion)
         /\ SameWork(proc, BoostedProcesses)
<1> DEFINE P == 1..n
           Keeps(r, s) == /\ s.arrival_time = r.arrival_time /\ s.burst_time = r.burst_time
                          /\ s.remaining_time = r.remaining_time
<1>1. DOMAIN proc = P /\ running \in P \cup {None} /\ \A p \in P : proc[p] \in Records
  BY DEF Good, RecordsOK, PlacesOK
<1>2. \A time : \A r \in Records : \A k \in Nat :
        /\ Keeps(r, [r EXCEPT !.finish_time = time])
        /\ Keeps(r, AtLevel(r, k))
  BY DEF Records, AtLevel
<1>3. \A r \in Records : r.priority + 1 \in Nat
  BY DEF Records
<1>4. ASSUME NEW time PROVE SameWork(proc, FinishRunning(time))
  <2>1. CASE running # None /\ proc[running].finish_time = UNKNOWN_TIME
    <3>1. FinishRunning(time) = [proc EXCEPT ![running].finish_time = time] /\ running \in P
      BY <1>1, <2>1 DEF FinishRunning
    <3>2. /\ DOMAIN FinishRunning(time) = P
          /\ FinishRunning(time)[running] = [proc[running] EXCEPT !.finish_time = time]
          /\ \A p \in P : p # running => FinishRunning(time)[p] = proc[p]
      BY <1>1, <3>1
    <3>3. Keeps(proc[running], FinishRunning(time)[running])
      BY <1>1, <1>2, <3>1, <3>2
    <3>4. QED
      BY <1>1, <3>2, <3>3 DEF SameWork, SameTimes
  <2>2. CASE ~(running # None /\ proc[running].finish_time = UNKNOWN_TIME)
    BY <2>2 DEF FinishRunning, SameWork, SameTimes
  <2>3. QED
    BY <2>1, <2>2
<1>5. SameWork(proc, AfterDemotion)
  <2>1. CASE running # None /\ Demoted(running)
    <3>1. AfterDemotion = [proc EXCEPT ![running] = AtLevel(proc[running], proc[running].priority + 1)]
          /\ running \in P
      BY <1>1, <2>1 DEF AfterDemotion, AtLevel
    <3>2. /\ DOMAIN AfterDemotion = P
          /\ AfterDemotion[running] = AtLevel(proc[running], proc[running].priority + 1)
          /\ \A p \in P : p # running => AfterDemotion[p] = proc[p]
      BY <1>1, <3>1
    <3>3. Keeps(proc[running], AfterDemotion[running])
      BY <1>1, <1>2, <1>3, <3>1, <3>2
    <3>4. QED
      BY <1>1, <3>2, <3>3 DEF SameWork, SameTimes
  <2>2. CASE ~(running # None /\ Demoted(running))
    BY <2>2 DEF AfterDemotion, SameWork, SameTimes
  <2>3. QED
    BY <2>1, <2>2
<1>6. SameWork(proc, BoostedProcesses)
  <2>1. DOMAIN BoostedProcesses = P
        /\ \A p \in P : BoostedProcesses[p] \in {proc[p], AtLevel(proc[p], 0)}
    BY <1>1 DEF BoostedProcesses, Processes, AtLevel
  <2>2. \A p \in P : Keeps(proc[p], BoostedProcesses[p])
    BY <1>1, <1>2, <2>1
  <2>3. QED
    BY <1>1, <2>1, <2>2 DEF SameWork, SameTimes
<1>7. QED
  BY <1>4, <1>5, <1>6

\* No step touches the times of the workload.
LEMMA TimesStay ==
  ASSUME SettingsOK, NEW n \in Nat, Good(proc, running, waiting, event_queue, 1..n), Simulate
  PROVE  SameTimes(proc, proc')
<1> DEFINE P == 1..n
           t == Tail(event_queue)
<1>1. None \notin P
  BY EngineAssumption
<1>2. ASSUME NEW pr, SameTimes(proc, pr), RecordsOK(pr, P), Now \in Nat,
             NEW p \in P, NEW w, NEW q \in Seq(EventsOf(P)), Dispatch(p, pr, w, q)
      PROVE  SameTimes(proc, proc')
  <2>1. SameTimes(pr, proc')
    BY <1>2, DispatchCharges
  <2>2. QED
    BY <1>2, <2>1 DEF SameTimes
<1>3. ASSUME NEW pr, SameTimes(proc, pr), NEW w, NEW q, Good(pr, None, w, q, P),
             Now \in Nat, DispatchNext(pr, w, q)
      PROVE  SameTimes(proc, proc')
  <2>1. CASE IsEmpty(w)
    BY <1>3, <2>1 DEF DispatchNext
  <2>2. CASE ~IsEmpty(w)
    <3> DEFINE p == Taken(scheduler, w)
    <3>1. \E v : Dispatch(p, pr, v, q)
      BY <1>3, <2>2 DEF DispatchNext
    <3>2. w \in Lists(ListCount, P) /\ Distinct(w) /\ scheduler \in AlgorithmNames /\ LevelsTyped
      BY <1>3 DEF Good, PlacesOK, SettingsOK, LevelsTyped, LevelsOK
    <3>3. p \in InQueue(w)
      BY <2>2, <3>2, DequeuedWaiting
    <3> HIDE DEF p
    <3>4. p \in P
      BY <3>2, <3>3 DEF Lists, InQueue, ToSet
    <3>5. RecordsOK(pr, P) /\ q \in Seq(EventsOf(P))
      BY <1>3 DEF Good, EventsOK
    <3> HIDE DEF P
    <3>6. QED
      BY <1>2, <1>3, <3>1, <3>4, <3>5
  <2>3. QED
    BY <2>1, <2>2
<1>4. ASSUME event_queue # <<>>
      PROVE  /\ Now \in Nat /\ Good(proc, running, waiting, t, P)
             /\ Head(event_queue).type = "ARRIVAL" => Subject \in P
  BY <1>1, <1>4, FirstEvent
<1>5. /\ \A time : SameTimes(proc, FinishRunning(time))
      /\ SameTimes(proc, AfterDemotion) /\ SameTimes(proc, BoostedProcesses)
      /\ SameTimes(proc, proc)
  BY SameWorkAll DEF SameWork, SameTimes
<1>6. CASE handle_arrival
  <2>1. /\ event_queue # <<>> /\ Head(event_queue).type = "ARRIVAL"
        /\ ArrivalDispatches \/ ArrivalPreempts \/ ArrivalWaits
    BY <1>6 DEF handle_arrival, Handle
  <2>2. CASE ArrivalWaits
    BY <1>5, <2>2 DEF ArrivalWaits
  <2>3. CASE ArrivalDispatches \/ ArrivalPreempts
    <3>1. \E w : \E q \in {t, RemoveEvent(t, running)} : Dispatch(Subject, proc, w, q)
      BY <2>3 DEF ArrivalDispatches, ArrivalPreempts
    <3>2. t \in Seq(EventsOf(P)) /\ RecordsOK(proc, P)
      BY <1>4, <2>1 DEF Good, EventsOK
    <3>3. RemoveEvent(t, running) \in Seq(EventsOf(P))
      BY <3>2, RemovedEvent
    <3>4. QED
      BY <1>2, <1>4, <1>5, <2>1, <3>1, <3>2, <3>3
  <2>4. QED
    BY <2>1, <2>2, <2>3
<1>7. CASE handle_completion
  <2>1. event_queue # <<>> /\ DispatchNext(FinishRunning(Now), waiting, t)
    BY <1>7 DEF handle_completion, Handle
  <2>2. Good(FinishRunning(Now), running, waiting, t, P)
    BY <1>1, <1>4, <2>1, FinishGood
  <2>3. Good(FinishRunning(Now), None, waiting, t, P)
    BY <1>1, <2>2, OffTheCpu
  <2>4. QED
    BY <1>3, <1>4, <1>5, <2>1, <2>3
<1>8. CASE handle_quantum_expire
  <2>1. event_queue # <<>> /\ DispatchNext(AfterDemotion, PutBack, t)
    BY <1>8 DEF handle_quantum_expire, Handle
  <2>2. Good(AfterDemotion, None, PutBack, t, P)
    BY <1>1, <1>4, <2>1, PutBackGood
  <2>3. QED
    BY <1>3, <1>4, <1>5, <2>1, <2>2
<1>9. CASE handle_priority_boost
  <2>1. event_queue # <<>>
    BY <1>9 DEF handle_priority_boost, Handle
  <2>2. CASE proc' = proc
    BY <1>5, <2>2
  <2>3. CASE DispatchNext(BoostedProcesses, BoostedQueue, t)
    <3>1. Good(BoostedProcesses, None, BoostedQueue, t, P)
      BY <1>1, <1>4, <2>1, BoostedGood
    <3>2. QED
      BY <1>3, <1>4, <1>5, <2>1, <2>3, <3>1
  <2>4. QED
    BY <1>9, <2>2, <2>3 DEF handle_priority_boost
<1>10. CASE Report
  BY <1>5, <1>10 DEF Report
<1>11. QED
  BY <1>6, <1>7, <1>8, <1>9, <1>10 DEF Simulate

\* A run has ended: the CPU is free, whatever else changes in the records.
LEMMA EndServed ==
  ASSUME SettingsOK, NEW n \in Nat, Good(proc, running, waiting, event_queue, 1..n),
         event_queue # <<>>, IsCpuEvent(Head(event_queue)), NEW e \in Nat, OnCpu(e, 1..n),
         NEW pr, SameWork(proc, pr), NEW w, Good(pr, None, w, Tail(event_queue), 1..n),
         DispatchNext(pr, w, Tail(event_queue))
  PROVE  OnCpuNext(1..n)
<1> DEFINE P == 1..n
           t == Tail(event_queue)
<1>1. None \notin P
  BY EngineAssumption
<1>2. Now \in Nat
  BY <1>1, FirstEvent
<1>3. Served(proc, running, waiting, event_queue, gantt, e, P)
  BY DEF OnCpu
<1>4. running # None /\ NoCpu(t) /\ Now = e /\ t \in Seq(Planned(proc, P))
  BY <1>3, FirstServed
<1>5. /\ ChartOK(gantt, Now, P) /\ Work(proc) <= Total(proc)
      /\ Now + Work(proc) <= Horizon(proc)
  BY <1>3, <1>4 DEF Served
<1>6. DOMAIN proc = P
  BY DEF Good, RecordsOK
<1>7. /\ Planned(pr, P) = Planned(proc, P) /\ Total(pr) = Total(proc)
      /\ Horizon(pr) = Horizon(proc) /\ Work(pr) = Work(proc)
  BY <1>6, SameHorizon DEF SameWork
<1>8. Free(pr, t, gantt, Now, P)
  BY <1>4, <1>5, <1>7 DEF Free
<1> HIDE DEF t
<1>9. QED
  BY <1>2, <1>5, <1>7, <1>8, NextServed DEF OnCpuNext, t

\* handle_completion.
LEMMA CompletionServed ==
  ASSUME SettingsOK, NEW n \in Nat, Good(proc, running, waiting, event_queue, 1..n),
         NEW e \in Nat, OnCpu(e, 1..n), handle_completion
  PROVE  OnCpuNext(1..n)
<1> DEFINE P == 1..n
           t == Tail(event_queue)
<1>1. event_queue # <<>> /\ DispatchNext(FinishRunning(Now), waiting, t)
      /\ IsCpuEvent(Head(event_queue))
  BY DEF handle_completion, Handle, IsCpuEvent
<1>2. None \notin P
  BY EngineAssumption
<1>3. Now \in Nat /\ Good(proc, running, waiting, t, P)
  BY <1>1, <1>2, FirstEvent
<1>4. Good(FinishRunning(Now), None, waiting, t, P)
  <2>1. Good(FinishRunning(Now), running, waiting, t, P)
    BY <1>2, <1>3, FinishGood
  <2>2. QED
    BY <1>2, <2>1, OffTheCpu
<1>5. SameWork(proc, FinishRunning(Now))
  BY SameWorkAll
<1> HIDE DEF t
<1>6. QED
  BY <1>1, <1>4, <1>5, EndServed DEF t

\* handle_quantum_expire.
LEMMA ExpireServed ==
  ASSUME SettingsOK, NEW n \in Nat, Good(proc, running, waiting, event_queue, 1..n),
         NEW e \in Nat, OnCpu(e, 1..n), handle_quantum_expire
  PROVE  OnCpuNext(1..n)
<1> DEFINE P == 1..n
           t == Tail(event_queue)
<1>1. event_queue # <<>> /\ DispatchNext(AfterDemotion, PutBack, t)
      /\ IsCpuEvent(Head(event_queue))
  BY DEF handle_quantum_expire, Handle, IsCpuEvent
<1>2. None \notin P
  BY EngineAssumption
<1>3. Good(proc, running, waiting, t, P)
  BY <1>1, <1>2, FirstEvent
<1>4. Good(AfterDemotion, None, PutBack, t, P)
  BY <1>2, <1>3, PutBackGood
<1>5. SameWork(proc, AfterDemotion)
  BY SameWorkAll
<1> HIDE DEF t
<1>6. QED
  BY <1>1, <1>4, <1>5, EndServed DEF t

\* A boost beyond the horizon finds nobody there.
BeforeBoosts(time, pr) ==
  scheduler = "mlfq" /\ config.boost_period > 0 =>
    time < config.boost_period \/ config.boost_period > Horizon(pr)

\* Boosts that come alone find nobody running and nobody waiting.
LEMMA BoostAlone ==
  ASSUME SettingsOK, NEW n \in Nat, Good(proc, running, waiting, event_queue, 1..n),
         NEW e \in Nat, OnCpu(e, 1..n), BeforeBoosts(Now, proc), handle_priority_boost
  PROVE  /\ running = None /\ running' = None /\ IsEmpty(waiting) /\ IsEmpty(waiting')
         /\ InQueue(waiting') = {}
         /\ DOMAIN proc' = 1..n /\ \A p \in 1..n : proc'[p] = proc[p]
         /\ event_queue' = Tail(event_queue) /\ gantt' = gantt
<1> DEFINE P == 1..n
           t == Tail(event_queue)
<1>1. event_queue # <<>> /\ Head(event_queue).type = "PRIORITY_BOOST"
  BY DEF handle_priority_boost, Handle
<1>2. None \notin P
  BY EngineAssumption
<1>3. Now \in Nat /\ Good(proc, running, waiting, t, P)
  BY <1>1, <1>2, FirstEvent
<1>4. Served(proc, running, waiting, event_queue, gantt, e, P)
  BY DEF OnCpu
<1>5. Head(event_queue) \in Planned(proc, P) /\ (running # None => Now <= e)
  BY <1>1, <1>4, FirstServed
<1>6. /\ scheduler = "mlfq" /\ config.boost_period > 0
      /\ Now >= config.boost_period /\ config.boost_period \in Int
  BY <1>1, <1>5 DEF Planned, PlannedFor, Now, SettingsOK
<1>7. Horizon(proc) \in Nat /\ Work(proc) \in Nat
  BY WorkBounds DEF Good
<1>8. config.boost_period > Horizon(proc)
  BY <1>3, <1>6 DEF BeforeBoosts
<1>9. running = None
  <2>1. ASSUME running # None PROVE FALSE
    <3>1. e + Work(proc) <= Horizon(proc) /\ Now <= e
      BY <1>4, <1>5, <2>1 DEF Served
    <3>2. QED
      BY <1>3, <1>6, <1>7, <1>8, <3>1
  <2>2. QED
    BY <2>1
<1>10. IsEmpty(waiting)
  BY <1>4, <1>9 DEF Served
<1>11. InQueue(waiting) = {}
  BY <1>10 DEF IsEmpty, InQueue, ToSet
<1>12. BoostedQueue = Boosted(waiting)
  BY <1>9 DEF BoostedQueue
<1>13. waiting \in Lists(ListCount, P) /\ Distinct(waiting) /\ ListCount \in Nat \ {0}
  BY DEF Good, PlacesOK, SettingsOK, LevelsOK, ListCount, NumLists, AlgorithmNames
<1>14. BoostedQueue \in Lists(ListCount, P) /\ InQueue(BoostedQueue) = {}
  BY <1>11, <1>12, <1>13, BoostedLists
<1>15. IsEmpty(BoostedQueue)
  <2>1. SUFFICES ASSUME NEW k \in DOMAIN BoostedQueue PROVE BoostedQueue[k] = <<>>
    BY DEF IsEmpty
  <2>2. BoostedQueue[k] \in Seq(P) /\ ToSet(BoostedQueue[k]) = {}
    BY <1>14, <2>1 DEF Lists, InQueue
  <2>3. \A s : s \in Seq(P) /\ ToSet(s) = {} => s = <<>>
    BY DEF ToSet
  <2>4. QED
    BY <2>2, <2>3
<1>16. DispatchNext(BoostedProcesses, BoostedQueue, t)
  BY <1>9 DEF handle_priority_boost
<1>17. /\ running' = None /\ waiting' = BoostedQueue /\ proc' = BoostedProcesses
       /\ event_queue' = t /\ gantt' = gantt
  BY <1>15, <1>16 DEF DispatchNext
<1>18. DOMAIN proc = P
  BY DEF Good, RecordsOK
<1>19. DOMAIN BoostedProcesses = P /\ \A p \in P : BoostedProcesses[p] = proc[p]
  BY <1>2, <1>9, <1>11, <1>18 DEF BoostedProcesses, Processes
<1>20. QED
  BY <1>9, <1>10, <1>14, <1>15, <1>17, <1>19

\* handle_priority_boost.
LEMMA BoostServed ==
  ASSUME SettingsOK, NEW n \in Nat, Good(proc, running, waiting, event_queue, 1..n),
         NoneBefore(event_queue, current_time), current_time \in Nat,
         NEW e \in Nat, OnCpu(e, 1..n), BeforeBoosts(Now, proc), handle_priority_boost
  PROVE  OnCpuNext(1..n)
<1> DEFINE P == 1..n
           t == Tail(event_queue)
<1>1. /\ running = None /\ running' = None /\ IsEmpty(waiting')
      /\ DOMAIN proc' = P /\ \A p \in P : proc'[p] = proc[p]
      /\ event_queue' = t /\ gantt' = gantt
  BY BoostAlone
<1>2. event_queue # <<>> /\ None \notin P
  BY EngineAssumption DEF handle_priority_boost, Handle
<1>3. Now \in Nat /\ current_time <= Now
  BY <1>2, FirstEvent
<1>4. Served(proc, running, waiting, event_queue, gantt, e, P) /\ e <= Now
  BY <1>1, <1>3 DEF OnCpu
<1>5. NoCpu(t) /\ t \in Seq(Planned(proc, P))
  BY <1>1, <1>2, <1>4, FirstServed
<1>6. DOMAIN proc = P
  BY DEF Good, RecordsOK
<1>7. SameWork(proc, proc')
  BY <1>1, <1>6 DEF SameWork, SameTimes
<1>8. Planned(proc', P) = Planned(proc, P) /\ Total(proc') = Total(proc) /\ Work(proc') = Work(proc)
  BY <1>6, <1>7, SameHorizon DEF SameWork
<1>9. Served(proc', running', waiting', event_queue', gantt', e, P)
  BY <1>1, <1>4, <1>5, <1>8 DEF Served
<1>10. QED
  BY <1>4, <1>9 DEF OnCpuNext

-----------------------------------------------------------------------------
\* The one run of the CPU, in every state before the first boost.
CpuKept == Undisturbed => \E e \in Nat : OnCpu(e, Processes)

\* What is not disturbed after a step was not before it.
LEMMA StillUndisturbed ==
  ASSUME SettingsOK, NEW n \in Nat, Good(proc, running, waiting, event_queue, 1..n),
         NoneBefore(event_queue, current_time), current_time \in Nat,
         Simulate, Undisturbed'
  PROVE  /\ Undisturbed
         /\ current_time' = Now => BeforeBoosts(Now, proc)
<1>1. SameTimes(proc, proc')
  BY TimesStay
<1>2. MaxTime(proc') = MaxTime(proc)
  BY <1>1, SameHorizon
<1>3. scheduler' = scheduler /\ config' = config
  BY DEF Simulate, handle_arrival, handle_completion, handle_quantum_expire,
         handle_priority_boost, Handle, Report, settings
<1>4. current_time' \in Nat /\ current_time <= current_time'
  <2>1. CASE current_time' = current_time
    BY <2>1
  <2>2. CASE event_queue # <<>> /\ current_time' = Now
    <3>1. None \notin 1..n
      BY EngineAssumption
    <3>2. QED
      BY <2>2, <3>1, FirstEvent
  <2>3. QED
    BY <2>1, <2>2 DEF Simulate, handle_arrival, handle_completion, handle_quantum_expire,
       handle_priority_boost, Handle, Report
<1>5. scheduler = "mlfq" => config.boost_period \in Int
  BY DEF SettingsOK
<1>6. scheduler = "mlfq" /\ config.boost_period > 0 =>
        \/ current_time' < config.boost_period
        \/ config.boost_period > MaxTime(proc) - BoostSlack
  BY <1>2, <1>3 DEF Undisturbed
<1>7. Undisturbed
  BY <1>4, <1>5, <1>6 DEF Undisturbed
<1>8. QED
  BY <1>6, <1>7 DEF BeforeBoosts, Horizon

\* The handlers keep it.
LEMMA HandlersServe ==
  ASSUME SettingsOK, NEW n \in Nat, Good(proc, running, waiting, event_queue, 1..n),
         NoneBefore(event_queue, current_time), current_time \in Nat,
         Simulate, ~Report, Undisturbed', NEW e \in Nat, OnCpu(e, 1..n)
  PROVE  current_time' = Now /\ OnCpuNext(1..n)
<1>1. current_time' = Now
  BY DEF Simulate, handle_arrival, handle_completion, handle_quantum_expire,
         handle_priority_boost, Handle
<1>2. BeforeBoosts(Now, proc)
  BY <1>1, StillUndisturbed
<1>3. CASE handle_arrival
  BY <1>1, <1>3, ArrivalServed
<1>4. CASE handle_completion
  BY <1>1, <1>4, CompletionServed
<1>5. CASE handle_quantum_expire
  BY <1>1, <1>5, ExpireServed
<1>6. CASE handle_priority_boost
  BY <1>1, <1>2, <1>6, BoostServed
<1>7. QED
  BY <1>3, <1>4, <1>5, <1>6 DEF Simulate

\* At the end nobody is on the CPU.
LEMMA ReportIdle ==
  ASSUME NEW n \in Nat, NEW e \in Nat, OnCpu(e, 1..n), Report
  PROVE  running = None /\ proc' = proc
<1>1. Len(event_queue) = 0
  BY DEF Report
<1>2. running = None
  BY <1>1 DEF OnCpu, Served, EndsAt
<1>3. QED
  BY <1>2 DEF Report, FinishRunning

\* The simulator keeps it.
LEMMA SimulateServes ==
  ASSUME Kept, CpuKept, Simulate
  PROVE  CpuKept'
<1>1. SUFFICES ASSUME Undisturbed' PROVE (\E e \in Nat : OnCpu(e, Processes))'
  BY DEF CpuKept
<1>2. PICK n \in Nat : /\ SettingsOK
                       /\ Good(proc, running, waiting, event_queue, 1..n)
                       /\ NoneBefore(event_queue, current_time)
                       /\ current_time \in Nat
  BY DEF Kept
<1>3. Processes = 1..n
  BY <1>2 DEF Good, RecordsOK, Processes
<1>4. PICK e \in Nat : OnCpu(e, 1..n)
  BY <1>1, <1>2, <1>3, StillUndisturbed DEF CpuKept
<1>5. Processes' = 1..n
  BY <1>2, <1>3, TimesStay DEF SameTimes, Processes
<1>6. scheduler' = scheduler /\ config' = config
  BY DEF Simulate, handle_arrival, handle_completion, handle_quantum_expire,
         handle_priority_boost, Handle, Report, settings
<1>7. CASE ~Report
  <2>1. current_time' = Now /\ OnCpuNext(1..n)
    BY <1>1, <1>2, <1>4, <1>7, HandlersServe
  <2>2. PICK f \in Nat : /\ running' = None => f <= Now
                         /\ Served(proc', running', waiting', event_queue', gantt', f, 1..n)
    BY <2>1 DEF OnCpuNext
  <2>3. Served(proc, running, waiting, event_queue, gantt, f, 1..n)'
    BY <1>6, <2>2 DEF Served, Planned
  <2>4. QED
    BY <1>5, <2>1, <2>2, <2>3 DEF OnCpu
<1>8. CASE Report
  <2>1. /\ proc' = proc /\ running' = running /\ waiting' = waiting /\ gantt' = gantt
        /\ event_queue' = event_queue /\ current_time' = current_time
    BY <1>4, <1>8, ReportIdle DEF Report
  <2>2. OnCpu(e, 1..n)'
    BY <1>4, <1>6, <2>1 DEF OnCpu, Served, Planned
  <2>3. QED
    BY <1>5, <2>2
<1>9. QED
  BY <1>7, <1>8

\* At the start of a simulation the CPU is free, and everyone is to arrive.
LEMMA BegunServed ==
  ASSUME NEW n \in Nat, NEW pr \in [1..n -> Records],
         \A p \in 1..n : pr[p].remaining_time = pr[p].burst_time,
         NEW s, NEW q, NEW c, s = "mlfq" => c.boost_period \in Int, Begin(s, q, c, pr)
  PROVE  /\ OnCpu(0, Processes)'
         /\ Arriving(event_queue') = 1..n
<1> DEFINE P == 1..n
           E == {f \in PlannedFor(s, c.boost_period, pr, P) : ~IsCpuEvent(f)}
           b == SortsByRemaining(s)
           arrivals == ArrivalEvents(pr, b)
<1>1. /\ scheduler' = s /\ config' = c /\ proc' = pr
      /\ event_queue' = InitialEvents(s, c, pr) /\ running' = None
      /\ waiting' = EmptyQueue(s, c.levels) /\ current_time' = 0 /\ gantt' = <<>>
  BY DEF Begin
<1>2. EventsOK(arrivals, P) /\ NoneBefore(arrivals, 0) /\ arrivals \in Seq(E)
      /\ Arriving(arrivals) = P
  <2>1. \A m \in P : Event(pr[m].arrival_time, "ARRIVAL", m) \in E
    BY DEF Event, PlannedFor, EventsOf, EventTypes, Records, IsCpuEvent
  <2> HIDE DEF E, b
  <2>2. QED
    BY <2>1, ArrivalsOK
<1>3. event_queue' \in Seq(E) /\ Arriving(event_queue') = P
  <2>1. CASE s = "mlfq" /\ c.boost_period > 0
    <3>1. event_queue' = WithBoosts(arrivals, pr, c.boost_period)
      BY <1>1, <2>1 DEF InitialEvents
    <3>2. c.boost_period \in Nat \ {0}
      BY <2>1
    <3>3. \A time \in Nat : time >= c.boost_period => Event(time, "PRIORITY_BOOST", None) \in E
      BY <2>1 DEF Event, PlannedFor, EventsOf, EventTypes, IsCpuEvent
    <3> HIDE DEF arrivals, E
    <3>4. QED
      BY <1>2, <3>1, <3>2, <3>3, BoostsOK
  <2>2. CASE ~(s = "mlfq" /\ c.boost_period > 0)
    <3>1. event_queue' = arrivals
      BY <1>1, <2>2 DEF InitialEvents
    <3>2. QED
      BY <1>2, <3>1
  <2>3. QED
    BY <2>1, <2>2
<1>4. event_queue' \in Seq(PlannedFor(s, c.boost_period, pr, P)) /\ NoCpu(event_queue')
  BY <1>3 DEF NoCpu
<1>5. ChartOK(<<>>, 0, P)
  BY DEF ChartOK
<1>6. Work(pr) = Total(pr) /\ Work(pr) \in Nat
  <2>1. DOMAIN pr = P
    OBVIOUS
  <2>2. [p \in DOMAIN pr |-> pr[p].remaining_time] = [p \in DOMAIN pr |-> pr[p].burst_time]
    BY <2>1
  <2>3. Work(pr) = Total(pr)
    BY <2>2 DEF Work, Total
  <2> DEFINE left == [p \in P |-> pr[p].remaining_time]
  <2>4. \A p \in P : left[p] \in Nat
    BY DEF Records
  <2>5. IsFiniteSet(P) /\ DOMAIN left = P /\ Work(pr) = SumFunctionOnSet(left, P)
    BY <2>1, FS_Interval DEF Work, SumFunction
  <2> HIDE DEF left, P
  <2>6. Work(pr) \in Nat
    BY <2>4, <2>5, SumBounds
  <2>7. QED
    BY <2>3, <2>6
<1>7. IsEmpty(waiting')
  BY <1>1 DEF IsEmpty, EmptyQueue
<1>8. Served(proc, running, waiting, event_queue, gantt, 0, P)'
  <2>1. Work(pr) <= Total(pr)
    BY <1>6
  <2>2. QED
    BY <1>1, <1>4, <1>5, <1>7, <2>1 DEF Served, Planned
<1>9. Processes' = P
  BY <1>1 DEF Processes
<1>10. QED
  BY <1>1, <1>3, <1>8, <1>9 DEF OnCpu

\* It is so in every state.
LEMMA CpuAlways == Spec => []CpuKept
<1>1. Init => CpuKept
  <2> SUFFICES ASSUME Init PROVE OnCpu(0, Processes)
    BY DEF CpuKept
  <2>1. /\ proc = <<>> /\ running = None /\ waiting = <<>> /\ current_time = 0
        /\ gantt = <<>> /\ event_queue = <<>>
    BY DEF Init
  <2>2. Work(proc) <= Total(proc)
    <3>1. DOMAIN proc = {}
      BY <2>1
    <3>2. [p \in DOMAIN proc |-> proc[p].remaining_time] = [p \in DOMAIN proc |-> proc[p].burst_time]
      BY <3>1
    <3>3. Work(proc) = SumFunctionOnSet([p \in DOMAIN proc |-> proc[p].remaining_time], {})
      BY <3>1 DEF Work, SumFunction
    <3>4. Work(proc) = 0 /\ Total(proc) = Work(proc)
      BY <3>2, <3>3, SumSmall DEF Work, Total
    <3>5. QED
      BY <3>4
  <2>3. NoCpu(event_queue) /\ IsEmpty(waiting) /\ ChartOK(gantt, 0, Processes)
    BY <2>1 DEF NoCpu, IsEmpty, ChartOK
  <2>4. event_queue \in Seq(Planned(proc, Processes))
    BY <2>1
  <2>5. QED
    BY <2>1, <2>2, <2>3, <2>4 DEF OnCpu, Served
<1>2. Inv /\ CpuKept /\ [Next]_vars => CpuKept'
  <2> SUFFICES ASSUME Inv, CpuKept, [Next]_vars PROVE CpuKept'
    OBVIOUS
  <2>1. CASE UNCHANGED engine
    BY <2>1 DEF CpuKept, OnCpu, Served, Planned, Processes, Undisturbed, engine, settings
  <2>2. CASE phase = "simulate" /\ Simulate
    BY <2>2, SimulateServes DEF Inv, Empty
  <2>3. CASE \E s \in AlgorithmNames : \E q, c : Run(s, q, c) /\ StartOK(s, q, c)
    <3>1. PICK s, q, c : Run(s, q, c) /\ StartOK(s, q, c)
      BY <2>3
    <3>2. PICK n \in Nat : /\ CopiedProcesses \in [1..n -> Records]
                           /\ \A p \in 1..n : Fresh(CopiedProcesses[p])
      BY Copied DEF Inv
    <3>3. Begin(s, q, c, CopiedProcesses)
      BY <3>1 DEF Run
    <3>4. \A p \in 1..n : CopiedProcesses[p].remaining_time = CopiedProcesses[p].burst_time
      BY <3>2 DEF Fresh
    <3>5. OnCpu(0, Processes)'
      BY <3>1, <3>2, <3>3, <3>4, BegunServed DEF StartOK
    <3>6. QED
      BY <3>5 DEF CpuKept
  <2>4. QED
    BY <2>1, <2>2, <2>3, Steps DEF Inv
<1>3. QED
  BY <1>1, <1>2, InvAlways, PTL DEF Spec

\* The last of some places in the chart is one of them.
LEMMA LastPlace ==
  ASSUME NEW n \in Nat, NEW T, T \subseteq 1..n, T # {}
  PROVE  Max(T) \in T /\ \A k \in T : k <= Max(T)
<1> DEFINE U == {n - k : k \in T}
<1>1. U \subseteq Nat /\ U # {}
  <2>1. \A k \in T : n - k \in Nat
    OBVIOUS
  <2>2. QED
    BY <2>1
<1>2. PICK u \in U : \A v \in U : u <= v
  <2> HIDE DEF U
  <2>1. QED
    BY <1>1, LeastNatural
<1>3. PICK t \in T : u = n - t
  OBVIOUS
<1>4. \A k \in T : t >= k
  <2>1. TAKE k \in T
  <2>2. n - k \in U
    OBVIOUS
  <2>3. n - t <= n - k
    BY <1>2, <1>3, <2>2
  <2>4. QED
    BY <2>3
<1>5. Max(T) \in T /\ \A k \in T : Max(T) >= k
  BY <1>3, <1>4 DEF Max
<1>6. QED
  BY <1>5

-----------------------------------------------------------------------------
\* The pending end of the run of r, where left is still to do: it comes when the
\* last segment of chart g ends, or now if the run is empty.  A full chart does
\* not say when.
OwnEnd(q, r, left, g, now) ==
  \E k \in 1..Len(q) :
    /\ IsCpuEvent(q[k]) /\ q[k].process = r
    /\ q[k].type = "COMPLETION" <=> left = 0
    /\ Len(g) < MaxGantt =>
         \/ g # <<>> /\ g[Len(g)].name = r /\ g[Len(g)].end = q[k].time
         \/ q[k].time = now
PendingEnd ==
  /\ gantt \in Seq(Entries(Nat))
  /\ running # None =>
       OwnEnd(event_queue, running, proc[running].remaining_time, gantt, current_time)
PendingNext ==
  /\ gantt' \in Seq(Entries(Nat))
  /\ running' # None =>
       OwnEnd(event_queue', running', proc'[running'].remaining_time, gantt', Now)

\* Who gets the CPU gets the end of its run with it.
LEMMA DispatchPending ==
  ASSUME SettingsOK, NEW n \in Nat, NEW pr, RecordsOK(pr, 1..n), NEW p \in 1..n,
         NEW q \in Seq(EventsOf(1..n)), Now \in Nat, NEW w, Dispatch(p, pr, w, q),
         gantt \in Seq(Entries(Nat))
  PROVE  PendingNext
<1> DEFINE P == 1..n
           run == RunTime(pr[p], Now, q)
           left == proc'[p].remaining_time
           type == IF left = 0 THEN "COMPLETION" ELSE "QUANTUM_EXPIRE"
           e == Event(Now + run, type, p)
           t == EnqueueEvent(q, e, proc', SortsByRemaining(scheduler))
<1>1. run \in Nat
  BY DispatchCharges
<1>2. running' = p /\ gantt' = Drawn(p, run) /\ event_queue' = t
  BY DEF Dispatch
<1> HIDE DEF run
<1>3. /\ e \in EventsOf(P) /\ IsCpuEvent(e) /\ e.process = p /\ e.time = Now + run
      /\ e.type = "COMPLETION" <=> left = 0
  BY <1>1 DEF Event, EventsOf, EventTypes, IsCpuEvent
<1> HIDE DEF e
<1>4. PICK i \in 1..(Len(q) + 1) : Inserted(t, q, i, e)
  BY <1>3, EnqueuedAt
<1> HIDE DEF t
<1>5. i \in 1..Len(t) /\ t[i] = e
  BY <1>4 DEF Inserted
<1> DEFINE s == [name |-> p, start |-> Now, end |-> Now + run]
<1>6. s \in Entries(Nat) /\ s.name = p /\ s.end = Now + run
  BY <1>1 DEF Entries
<1>7. gantt' = gantt \/ gantt' = Append(gantt, s)
  BY <1>2 DEF Drawn
<1>8. gantt' \in Seq(Entries(Nat))
  <2>1. s \in Entries(Nat)
    BY <1>6
  <2> HIDE DEF s
  <2>2. Append(gantt, s) \in Seq(Entries(Nat))
    BY <2>1
  <2>3. QED
    BY <1>7, <2>2
<1>9. ASSUME Len(gantt') < MaxGantt
      PROVE  \/ gantt' # <<>> /\ gantt'[Len(gantt')].name = p /\ gantt'[Len(gantt')].end = e.time
             \/ e.time = Now
  <2>1. CASE run = 0
    BY <1>3, <2>1
  <2>2. CASE run # 0
    <3>1. Len(gantt) < MaxGantt
      <4> HIDE DEF s
      <4>1. Len(gantt) \in Nat /\ Len(gantt) <= Len(gantt') /\ Len(gantt') \in Nat
        BY <1>6, <1>7
      <4>2. QED
        BY <1>9, <4>1, EngineAssumption
    <3>2. ~(run <= 0) /\ ~(Len(gantt) >= MaxGantt)
      BY <1>1, <2>2, <3>1, EngineAssumption
    <3>3. gantt' = Append(gantt, s)
      BY <1>2, <3>2 DEF Drawn
    <3> HIDE DEF s
    <3>4. s \in Entries(Nat)
      BY <1>6
    <3>5. Len(gantt') = Len(gantt) + 1 /\ gantt'[Len(gantt) + 1] = s
      BY <3>3, <3>4
    <3>6. gantt' # <<>>
      <4>1. Len(gantt') # 0
        BY <3>5
      <4>2. QED
        BY <4>1
    <3>7. QED
      BY <1>3, <1>6, <3>5, <3>6
  <2>3. QED
    BY <2>1, <2>2
<1> HIDE DEF s, left
<1>10. OwnEnd(t, p, left, gantt', Now)
  BY <1>3, <1>5, <1>9 DEF OwnEnd
<1>11. QED
  BY <1>2, <1>8, <1>10 DEF PendingNext, left

\* The next of a waiting queue has it, and an idle CPU needs none.
LEMMA NextPending ==
  ASSUME SettingsOK, NEW n \in Nat, NEW pr, NEW w, NEW q, Good(pr, None, w, q, 1..n),
         Now \in Nat, DispatchNext(pr, w, q), gantt \in Seq(Entries(Nat))
  PROVE  PendingNext
<1> DEFINE P == 1..n
           p == Taken(scheduler, w)
<1>1. CASE IsEmpty(w)
  BY <1>1 DEF DispatchNext, PendingNext
<1>2. CASE ~IsEmpty(w)
  <2>1. \E v : Dispatch(p, pr, v, q)
    BY <1>2 DEF DispatchNext
  <2>2. w \in Lists(ListCount, P) /\ Distinct(w) /\ scheduler \in AlgorithmNames /\ LevelsTyped
    BY DEF Good, PlacesOK, SettingsOK, LevelsTyped, LevelsOK
  <2>3. p \in InQueue(w)
    BY <1>2, <2>2, DequeuedWaiting
  <2> HIDE DEF p
  <2>4. p \in P
    BY <2>2, <2>3 DEF Lists, InQueue, ToSet
  <2>5. RecordsOK(pr, P) /\ q \in Seq(EventsOf(P))
    BY DEF Good, EventsOK
  <2>6. QED
    BY <2>1, <2>4, <2>5, DispatchPending
<1>3. QED
  BY <1>1, <1>2

\* Who stays on the CPU while another event is handled keeps it.
LEMMA StillPending ==
  ASSUME NEW n \in Nat, Good(proc, running, waiting, event_queue, 1..n),
         event_queue # <<>>, ~IsCpuEvent(Head(event_queue)),
         NoneBefore(event_queue, current_time), current_time \in Nat, PendingEnd,
         event_queue' = Tail(event_queue), UNCHANGED <<running, proc, gantt>>
  PROVE  PendingNext
<1> DEFINE q == event_queue
           t == Tail(event_queue)
           left == proc[running].remaining_time
<1>1. running' = running /\ proc' = proc /\ gantt' = gantt
  OBVIOUS
<1>2. SUFFICES ASSUME running # None PROVE OwnEnd(t, running, left, gantt, Now)
  BY <1>1 DEF PendingNext, PendingEnd
<1>3. q \in Seq(EventsOf(1..n)) /\ InOrder(q)
  BY DEF Good, EventsOK
<1>4. t \in Seq(EventsOf(1..n)) /\ Removed(t, q, 1) /\ Len(q) \in Nat \ {0} /\ Head(q) = q[1]
  BY <1>3, TailRemoves
<1>5. 1 \in 1..Len(q)
  BY <1>4
<1>6. PICK k \in 1..Len(q) :
        /\ IsCpuEvent(q[k]) /\ q[k].process = running
        /\ q[k].type = "COMPLETION" <=> left = 0
        /\ Len(gantt) < MaxGantt =>
             \/ gantt # <<>> /\ gantt[Len(gantt)].name = running
                /\ gantt[Len(gantt)].end = q[k].time
             \/ q[k].time = current_time
  BY <1>2 DEF PendingEnd, OwnEnd
<1> DEFINE j == IF k < 1 THEN k ELSE k - 1
<1>7. k # 1
  BY <1>4, <1>6
<1> HIDE DEF t, left
<1>8. j \in 1..Len(t) /\ q[k] = t[j]
  BY <1>3, <1>4, <1>5, <1>7, RemovedFrom
<1>9. current_time <= Now /\ Now <= q[k].time /\ Now \in Nat /\ q[k].time \in Nat
  <2>1. Now = q[1].time
    BY <1>4 DEF Now
  <2>2. q[1].time \in Nat /\ q[k].time \in Nat
    BY <1>3, <1>5 DEF EventsOf
  <2>3. q[1].time <= q[k].time
    BY <1>4, <1>5 DEF InOrder, Good, EventsOK
  <2>4. QED
    BY <1>5, <2>1, <2>2, <2>3 DEF NoneBefore
<1>10. q[k].time = current_time => q[k].time = Now
  BY <1>9
<1> HIDE DEF j
<1>11. QED
  BY <1>6, <1>8, <1>10 DEF OwnEnd, t, left

\* The simulator keeps it, boosts and all.
LEMMA SimulatePending ==
  ASSUME SettingsOK, NEW n \in Nat, Good(proc, running, waiting, event_queue, 1..n),
         NoneBefore(event_queue, current_time), current_time \in Nat, PendingEnd, Simulate
  PROVE  PendingEnd'
<1> DEFINE P == 1..n
           t == Tail(event_queue)
<1>1. None \notin P /\ gantt \in Seq(Entries(Nat))
  BY EngineAssumption DEF PendingEnd
<1>2. ASSUME event_queue # <<>>, current_time' = Now, PendingNext PROVE PendingEnd'
  BY <1>2 DEF PendingNext, PendingEnd, OwnEnd
<1>3. ASSUME event_queue # <<>>
      PROVE  /\ Now \in Nat /\ Good(proc, running, waiting, t, P)
             /\ Head(event_queue).type = "ARRIVAL" => Subject \in P
  BY <1>1, <1>3, FirstEvent
<1>4. CASE handle_arrival
  <2>1. /\ event_queue # <<>> /\ current_time' = Now /\ Head(event_queue).type = "ARRIVAL"
        /\ ArrivalDispatches \/ ArrivalPreempts \/ ArrivalWaits
    BY <1>4 DEF handle_arrival, Handle
  <2>2. CASE ArrivalWaits
    <3>1. event_queue' = t /\ UNCHANGED <<running, proc, gantt>>
      BY <2>2 DEF ArrivalWaits
    <3>2. ~IsCpuEvent(Head(event_queue))
      BY <2>1 DEF IsCpuEvent
    <3>3. PendingNext
      BY <2>1, <3>1, <3>2, StillPending
    <3>4. QED
      BY <1>2, <2>1, <3>3
  <2>3. CASE ArrivalDispatches \/ ArrivalPreempts
    <3>1. \E w : \E q \in {t, RemoveEvent(t, running)} : Dispatch(Subject, proc, w, q)
      BY <2>3 DEF ArrivalDispatches, ArrivalPreempts
    <3>2. t \in Seq(EventsOf(P)) /\ RecordsOK(proc, P)
      BY <1>3, <2>1 DEF Good, EventsOK
    <3>3. RemoveEvent(t, running) \in Seq(EventsOf(P))
      BY <3>2, RemovedEvent
    <3>4. PendingNext
      BY <1>1, <1>3, <2>1, <3>1, <3>2, <3>3, DispatchPending
    <3>5. QED
      BY <1>2, <2>1, <3>4
  <2>4. QED
    BY <2>1, <2>2, <2>3
<1>5. CASE handle_completion
  <2>1. event_queue # <<>> /\ current_time' = Now /\ DispatchNext(FinishRunning(Now), waiting, t)
    BY <1>5 DEF handle_completion, Handle
  <2>2. Good(FinishRunning(Now), running, waiting, t, P)
    BY <1>1, <1>3, <2>1, FinishGood
  <2>3. Good(FinishRunning(Now), None, waiting, t, P)
    BY <1>1, <2>2, OffTheCpu
  <2>4. QED
    BY <1>1, <1>2, <1>3, <2>1, <2>3, NextPending
<1>6. CASE handle_quantum_expire
  <2>1. event_queue # <<>> /\ current_time' = Now /\ DispatchNext(AfterDemotion, PutBack, t)
    BY <1>6 DEF handle_quantum_expire, Handle
  <2>2. Good(AfterDemotion, None, PutBack, t, P)
    BY <1>1, <1>3, <2>1, PutBackGood
  <2>3. QED
    BY <1>1, <1>2, <1>3, <2>1, <2>2, NextPending
<1>7. CASE handle_priority_boost
  <2>1. /\ event_queue # <<>> /\ current_time' = Now /\ ~IsCpuEvent(Head(event_queue))
    BY <1>7 DEF handle_priority_boost, Handle, IsCpuEvent
  <2>2. CASE event_queue' = t /\ UNCHANGED <<running, proc, gantt>>
    <3>1. PendingNext
      BY <2>1, <2>2, StillPending
    <3>2. QED
      BY <1>2, <2>1, <3>1
  <2>3. CASE DispatchNext(BoostedProcesses, BoostedQueue, t)
    <3>1. Good(BoostedProcesses, None, BoostedQueue, t, P)
      BY <1>1, <1>3, <2>1, BoostedGood
    <3>2. QED
      BY <1>1, <1>2, <1>3, <2>1, <2>3, <3>1, NextPending
  <2>4. QED
    BY <1>7, <2>2, <2>3 DEF handle_priority_boost
<1>8. CASE Report
  <2>1. event_queue = <<>> /\ running' = running /\ gantt' = gantt
    BY <1>8 DEF Report
  <2>2. running = None
    BY <2>1 DEF PendingEnd, OwnEnd
  <2>3. QED
    BY <1>1, <2>1, <2>2 DEF PendingEnd
<1>9. QED
  BY <1>4, <1>5, <1>6, <1>7, <1>8 DEF Simulate

\* It is so in every state.
LEMMA PendingAlways == Spec => []PendingEnd
<1>1. Init => PendingEnd
  BY DEF Init, PendingEnd
<1>2. Inv /\ PendingEnd /\ [Next]_vars => PendingEnd'
  <2> SUFFICES ASSUME Inv, PendingEnd, [Next]_vars PROVE PendingEnd'
    OBVIOUS
  <2>1. CASE UNCHANGED engine
    BY <2>1 DEF PendingEnd, engine
  <2>2. CASE phase = "simulate" /\ Simulate
    BY <2>2, SimulatePending DEF Inv, Empty, Kept
  <2>3. CASE \E s \in AlgorithmNames : \E q, c : Run(s, q, c) /\ StartOK(s, q, c)
    <3>1. running' = None /\ gantt' = <<>>
      BY <2>3 DEF Run, Begin
    <3>2. QED
      BY <3>1 DEF PendingEnd
  <2>4. QED
    BY <2>1, <2>2, <2>3, Steps DEF Inv
<1>3. QED
  BY <1>1, <1>2, InvAlways, PTL DEF Spec

\* The larger of two numbers.
LEMMA GreatestOfTwo ==
  \A a, b \in Nat : Max({a, b}) = IF a >= b THEN a ELSE b
<1>1. SUFFICES ASSUME NEW a \in Nat, NEW b \in Nat PROVE Max({a, b}) = IF a >= b THEN a ELSE b
  OBVIOUS
<1>2. \E x \in {a, b} : \A y \in {a, b} : x >= y
  OBVIOUS
<1>3. Max({a, b}) \in {a, b} /\ \A y \in {a, b} : Max({a, b}) >= y
  BY <1>2 DEF Max
<1>4. QED
  BY <1>3

\* When a run ends is when its segment does, if it has one that was drawn for it,
\* and the clock is not past it.
LEMMA EndOfCharge ==
  ASSUME NEW P, NEW e \in Nat, ChartOK(gantt, e, P), NEW p, current_time \in Nat,
         current_time <= e,
         \/ gantt # <<>> /\ gantt[Len(gantt)].name = p /\ gantt[Len(gantt)].end = e
         \/ e = current_time
  PROVE  ChargeEnd(p) = e
<1>1. /\ Len(gantt) \in Nat /\ DOMAIN gantt = 1..Len(gantt)
      /\ \A k \in 1..Len(gantt) : gantt[k].end \in Nat /\ gantt[k].end <= e
  <2>1. \A k \in 1..Len(gantt) : gantt[k].end \in Nat
    BY ChartTimes
  <2>2. gantt \in Seq(Entries(P)) /\ \A k \in 1..Len(gantt) : gantt[k].end <= e
    BY DEF ChartOK
  <2>3. QED
    BY <2>1, <2>2
<1>2. Segments(p) \subseteq 1..Len(gantt)
  BY <1>1 DEF Segments
<1>3. CASE Segments(p) = {}
  <2>1. e = current_time
    <3>1. ASSUME gantt # <<>>, gantt[Len(gantt)].name = p PROVE FALSE
      <4>1. Len(gantt) \in DOMAIN gantt
        BY <1>1, <3>1 DEF ChartOK
      <4>2. QED
        BY <1>3, <3>1, <4>1 DEF Segments
    <3>2. QED
      BY <3>1
  <2>2. QED
    BY <1>3, <2>1 DEF ChargeEnd
<1>4. CASE Segments(p) # {}
  <2> DEFINE last == Max(Segments(p))
  <2>1. last \in Segments(p) /\ \A k \in Segments(p) : k <= last
    BY <1>1, <1>2, <1>4, LastPlace
  <2>2. last \in 1..Len(gantt)
    BY <1>2, <2>1
  <2>3. ChargeEnd(p) = Max({gantt[last].end, current_time})
    BY <1>4 DEF ChargeEnd, LastRun
  <2> HIDE DEF last
  <2>4. gantt[last].end \in Nat /\ gantt[last].end <= e
    BY <1>1, <2>2
  <2>5. gantt[last].end = e \/ current_time = e
    <3>1. ASSUME gantt # <<>>, gantt[Len(gantt)].name = p, gantt[Len(gantt)].end = e
          PROVE  gantt[last].end = e
      <4>1. Len(gantt) \in Segments(p)
        BY <1>1, <3>1 DEF ChartOK, Segments
      <4>2. Len(gantt) \in Nat /\ Len(gantt) <= last /\ last <= Len(gantt) /\ last \in Nat
        BY <1>1, <2>1, <2>2, <4>1
      <4>3. last = Len(gantt)
        BY <4>2
      <4>4. QED
        BY <3>1, <4>3
    <3>2. QED
      BY <3>1
  <2>6. QED
    BY <2>3, <2>4, <2>5, GreatestOfTwo
<1>5. QED
  BY <1>3, <1>4

\* While a process is on the CPU its completion or expiry is pending, of the kind
\* its remaining time says, whatever boosts have done.  Up to the first boost it
\* is the only one, none is pending while the CPU is free, and it comes exactly
\* when the run ends: a preemption takes back the one it outdates
\* (simulator.c 109-153, 172-193, 216-246, 281-304).
THEOREM OneEnd == Spec => []OneCpuEvent
<1>1. Inv /\ CpuKept /\ PendingEnd => OneCpuEvent
  <2> SUFFICES ASSUME Inv, CpuKept, PendingEnd PROVE OneCpuEvent
    OBVIOUS
  <2>1. /\ DOMAIN event_queue = 1..Len(event_queue)
        /\ current_time \in Nat \/ event_queue = <<>>
        /\ NoneBefore(event_queue, current_time) \/ event_queue = <<>>
    <3>1. CASE Empty
      BY <3>1 DEF Empty
    <3>2. CASE Kept
      BY <3>2 DEF Kept, Good, EventsOK
    <3>3. QED
      BY <3>1, <3>2 DEF Inv
  <2>2. ASSUME Undisturbed, running # None
        PROVE  \E k \in CpuEvents :
                 /\ event_queue[k].process = running
                 /\ event_queue[k].type = "COMPLETION" <=> proc[running].remaining_time = 0
                 /\ Len(gantt) < MaxGantt => event_queue[k].time = ChargeEnd(running)
                 /\ CpuEvents = {k}
    <3>1. PICK e \in Nat : OnCpu(e, Processes)
      BY <2>2 DEF CpuKept
    <3>2. /\ ChartOK(gantt, e, Processes)
          /\ EndsAt(event_queue, running, proc[running].remaining_time, e)
      BY <2>2, <3>1 DEF OnCpu, Served
    <3>3. PICK k \in 1..Len(event_queue) :
            /\ IsCpuEvent(event_queue[k]) /\ event_queue[k].process = running
            /\ event_queue[k].time = e
            /\ event_queue[k].type = "COMPLETION" <=> proc[running].remaining_time = 0
            /\ \A j \in 1..Len(event_queue) : IsCpuEvent(event_queue[j]) => j = k
      BY <3>2 DEF EndsAt
    <3>4. k \in CpuEvents /\ CpuEvents = {k}
      BY <2>1, <3>3 DEF CpuEvents
    <3>5. Len(gantt) < MaxGantt =>
             \/ gantt # <<>> /\ gantt[Len(gantt)].name = running /\ gantt[Len(gantt)].end = e
             \/ e = current_time
      BY <2>2, <3>3 DEF PendingEnd, OwnEnd
    <3>6. current_time \in Nat /\ current_time <= e
      BY <2>1, <3>3 DEF NoneBefore
    <3>7. Len(gantt) < MaxGantt => ChargeEnd(running) = e
      BY <3>2, <3>5, <3>6, EndOfCharge
    <3>8. QED
      BY <3>3, <3>4, <3>7
  <2>3. ASSUME Undisturbed, running = None PROVE CpuEvents = {}
    <3>1. NoCpu(event_queue)
      BY <2>3 DEF CpuKept, OnCpu, Served
    <3>2. QED
      BY <2>1, <3>1 DEF NoCpu, CpuEvents
  <2>4. ASSUME running # None
        PROVE  \E k \in CpuEvents :
                 /\ event_queue[k].process = running
                 /\ event_queue[k].type = "COMPLETION" <=> proc[running].remaining_time = 0
    BY <2>1, <2>4 DEF PendingEnd, OwnEnd, CpuEvents
  <2>5. Undisturbed => Cardinality(CpuEvents) = IF running = None THEN 0 ELSE 1
    BY <2>2, <2>3, FS_EmptySet, FS_Singleton
  <2>6. QED
    BY <2>2, <2>4, <2>5 DEF OneCpuEvent
<1>2. QED
  BY <1>1, InvAlways, CpuAlways, PendingAlways, PTL

-----------------------------------------------------------------------------
\* The books: what a process has been charged is on the chart.
SegmentsIn(g, p) == {k \in DOMAIN g : g[k].name = p}
TimeIn(g, p) == SumFunctionOnSet([k \in DOMAIN g |-> g[k].end - g[k].start], SegmentsIn(g, p))

\* A segment is added to the chart of its process, and to no other.
LEMMA SegmentAdded ==
  ASSUME NEW P, NEW g \in Seq(Entries(P)), NEW s \in Entries(P)
  PROVE  LET h == Append(g, s)
             last == Len(g) + 1
         IN  /\ SegmentsIn(h, s.name) = SegmentsIn(g, s.name) \cup {last}
             /\ TimeIn(h, s.name) = TimeIn(g, s.name) + (s.end - s.start)
             /\ \A x : x # s.name => /\ SegmentsIn(h, x) = SegmentsIn(g, x)
                                     /\ TimeIn(h, x) = TimeIn(g, x)
             /\ h[last] = s /\ \A k \in 1..Len(g) : h[k] = g[k]
             /\ \A x : SegmentsIn(g, x) \subseteq 1..Len(g)
<1> DEFINE h == Append(g, s)
           last == Len(g) + 1
           N == 1..Len(g)
           f == [k \in DOMAIN g |-> g[k].end - g[k].start]
           e == [k \in DOMAIN h |-> h[k].end - h[k].start]
<1>1. /\ Len(g) \in Nat /\ DOMAIN g = N /\ DOMAIN h = N \cup {last} /\ last \notin N
      /\ h[last] = s /\ \A k \in N : h[k] = g[k]
  OBVIOUS
<1>2. s.end - s.start \in Int /\ \A k \in N : g[k].end - g[k].start \in Int
  <2>1. \A t \in Entries(P) : t.end - t.start \in Int
    BY DEF Entries
  <2>2. QED
    BY <1>1, <2>1
<1>3. /\ \A k \in N : f[k] \in Int /\ e[k] = f[k]
      /\ e[last] = s.end - s.start
  BY <1>1, <1>2
<1> HIDE DEF h, f, e
<1>4. \A x : SegmentsIn(g, x) \subseteq N /\ IsFiniteSet(SegmentsIn(g, x))
  <2>1. \A x : SegmentsIn(g, x) \subseteq N
    BY <1>1 DEF SegmentsIn
  <2>2. \A n \in Nat : IsFiniteSet(1..n)
    BY FS_Interval
  <2>3. IsFiniteSet(N)
    <3>1. Len(g) \in Nat
      BY <1>1
    <3> QED
      BY <2>2, <3>1
  <2> HIDE DEF N
  <2>4. QED
    BY <2>1, <2>3, FS_Subset
<1>5. \A x : SegmentsIn(h, x) = IF x = s.name THEN SegmentsIn(g, x) \cup {last}
                                              ELSE SegmentsIn(g, x)
  BY <1>1 DEF SegmentsIn
<1>6. TimeIn(h, s.name) = TimeIn(g, s.name) + (s.end - s.start)
  <2> DEFINE S == SegmentsIn(g, s.name)
             T == S \cup {last}
  <2>1. IsFiniteSet(S) /\ S \subseteq N /\ last \notin S
    BY <1>1, <1>4
  <2>2. IsFiniteSet(T) /\ T \ {last} = S /\ last \in T
    BY <2>1, FS_AddElement
  <2>3. \A k \in T : e[k] \in Int
    BY <1>2, <1>3, <2>1
  <2>4. TimeIn(h, s.name) = SumFunctionOnSet(e, T)
    BY <1>5 DEF TimeIn, e
  <2>5. \A k \in S : e[k] = f[k]
    BY <1>3, <2>1
  <2>6. \A k \in S : f[k] \in Int
    BY <1>3, <2>1
  <2> HIDE DEF S, T
  <2>7. SumFunctionOnSet(e, T) = e[last] + SumFunctionOnSet(e, T \ {last})
    BY <2>2, <2>3, SumSplit
  <2>8. SumFunctionOnSet(e, S) = SumFunctionOnSet(f, S)
    BY <2>1, <2>5, SumAgree
  <2>9. SumFunctionOnSet(f, S) \in Int
    BY <2>1, <2>6, SumSplit
  <2>10. TimeIn(g, s.name) = SumFunctionOnSet(f, S)
    BY DEF TimeIn, f, S
  <2>11. SumFunctionOnSet(e, T) = (s.end - s.start) + SumFunctionOnSet(f, S)
    BY <1>3, <2>2, <2>7, <2>8
  <2>12. QED
    <3> DEFINE total == SumFunctionOnSet(f, S)
               length == s.end - s.start
    <3>1. length + total = total + length
      <4>1. length \in Int /\ total \in Int
        BY <1>2, <2>9
      <4> HIDE DEF length, total
      <4>2. QED
        BY <4>1
    <3>2. QED
      BY <2>4, <2>10, <2>11, <3>1
<1>7. ASSUME NEW x, x # s.name PROVE TimeIn(h, x) = TimeIn(g, x)
  <2>1. SegmentsIn(h, x) = SegmentsIn(g, x) /\ IsFiniteSet(SegmentsIn(g, x))
    BY <1>4, <1>5, <1>7
  <2>2. \A k \in SegmentsIn(g, x) : e[k] = f[k]
    BY <1>3, <1>4
  <2>3. SumFunctionOnSet(e, SegmentsIn(g, x)) = SumFunctionOnSet(f, SegmentsIn(g, x))
    BY <2>1, <2>2, SumAgree
  <2>4. QED
    BY <2>1, <2>3 DEF TimeIn, e, f
<1>8. QED
  BY <1>1, <1>4, <1>5, <1>6, <1>7 DEF h

\* The book of a process: it has been charged what the chart shows, since its
\* arrival, from the start of its first segment to the end of its last.
Started(r) == r.start_time # UNKNOWN_TIME
Done(r) == Started(r) /\ r.remaining_time = 0
Ledger(r, g, p) ==
  /\ r.remaining_time <= r.burst_time
  /\ TimeIn(g, p) = r.burst_time - r.remaining_time
  /\ ~Started(r) => /\ SegmentsIn(g, p) = {}
                    /\ r.remaining_time = r.burst_time /\ r.priority = 0
  /\ Started(r) => /\ r.start_time >= r.arrival_time
                   /\ SegmentsIn(g, p) = {} => r.remaining_time = 0
                   /\ SegmentsIn(g, p) # {} => r.start_time = g[Min(SegmentsIn(g, p))].start
                   /\ scheduler \in {"fcfs", "sjf"} => r.remaining_time = 0
  /\ Done(r) => /\ r.finish_time >= r.arrival_time + r.burst_time
                /\ SegmentsIn(g, p) # {} => r.finish_time = g[Max(SegmentsIn(g, p))].end

\* Its runs so far fit between its arrival and now; a waiting process has some
\* of its burst left, unless it has not run.
InTime(r, now) == r.arrival_time + (r.burst_time - r.remaining_time) <= now
Ready(r, now) == InTime(r, now) /\ (Started(r) => r.remaining_time > 0)

\* Nobody runs for no time unless nothing is left to do: the first quantum is
\* not zero.
LEMMA RunsAtAll ==
  ASSUME SettingsOK, NEW P, NEW q \in Seq(EventsOf(P)), NEW r \in Records, NEW now \in Nat,
         r.priority = 0, RunTime(r, now, q) = 0
  PROVE  r.remaining_time = 0
<1>1. r.remaining_time \in Nat
  BY DEF Records
<1>2. CASE scheduler \in {"fcfs", "sjf"}
  BY <1>2 DEF RunTime
<1>3. CASE scheduler = "stcf"
  <2> DEFINE T == {k \in 1..Len(q) : q[k].type = "ARRIVAL"}
             next == NextArrival(q)
  <2>1. next = IF T # {} THEN Min(T) ELSE 0
    BY DEF NextArrival, SelectInSeq
  <2>2. RunTime(r, now, q) = IF next # 0 /\ q[next].time > now
                               THEN AtMost(r.remaining_time, q[next].time - now)
                               ELSE r.remaining_time
    BY <1>3 DEF RunTime, IsFuture
  <2>3. next # 0 => q[next].time \in Nat
    <3>1. Len(q) \in Nat /\ T \subseteq 1..Len(q)
      OBVIOUS
    <3> HIDE DEF T
    <3>2. next # 0 => next \in 1..Len(q)
      BY <2>1, <3>1, LeastPosition
    <3>3. QED
      BY <3>2 DEF EventsOf
  <2> HIDE DEF next
  <2>4. QED
    BY <1>1, <2>2, <2>3 DEF AtMost
<1>4. CASE scheduler = "rr"
  BY <1>1, <1>4 DEF RunTime, AtMost, SettingsOK
<1>5. CASE scheduler = "mlfq"
  <2> DEFINE quantum == Levels[1].time_quantum
  <2>1. quantum \in Nat \cup {-1} /\ quantum # 0
    BY <1>5 DEF SettingsOK, LevelsOK
  <2>2. RunTime(r, now, q) = IF quantum = -1 THEN r.remaining_time
                                             ELSE AtMost(r.remaining_time, quantum)
    <3>1. r.priority + 1 = 1
      OBVIOUS
    <3>2. QED
      BY <1>5, <3>1 DEF RunTime
  <2> HIDE DEF quantum
  <2>3. QED
    BY <1>1, <2>1, <2>2 DEF AtMost
<1>6. QED
  BY <1>2, <1>3, <1>4, <1>5 DEF SettingsOK, AlgorithmNames

\* The first and the last place of places in the chart when a later one is added.
LEMMA PlacesGrow ==
  ASSUME NEW n \in Nat, NEW S, S \subseteq 1..n
  PROVE  LET T == S \cup {n + 1}
         IN  /\ Max(T) = n + 1
             /\ Min(T) = IF S = {} THEN n + 1 ELSE Min(S)
             /\ S # {} => Min(S) \in S
<1> DEFINE m == n + 1
           T == S \cup {m}
<1>1. m \in Nat /\ T # {} /\ T \subseteq 1..m /\ m \in T /\ \A k \in S : k \in Nat /\ k < m
  OBVIOUS
<1> HIDE DEF m, T
<1>2. Max(T) \in T /\ m <= Max(T) /\ Min(T) \in T /\ \A k \in T : Min(T) <= k
  BY <1>1, LastPlace, LeastPosition
<1>3. Max(T) = m
  <2>1. Max(T) \in 1..m
    BY <1>1, <1>2
  <2>2. QED
    BY <1>1, <1>2, <2>1
<1>4. S = {} => Min(T) = m
  BY <1>2 DEF T
<1>5. S # {} => Min(S) \in S /\ \A k \in S : Min(S) <= k
  BY LeastPosition
<1>6. S # {} => Min(T) = Min(S)
  <2>1. SUFFICES ASSUME S # {} PROVE Min(T) = Min(S)
    OBVIOUS
  <2>2. Min(S) \in S /\ Min(S) \in T /\ Min(T) <= Min(S)
    BY <1>2, <1>5, <2>1 DEF T
  <2>3. Min(T) \in S
    <3>1. Min(S) < m /\ Min(S) \in Nat
      BY <1>1, <2>2
    <3>2. Min(T) # m
      BY <1>1, <2>2, <3>1
    <3>3. QED
      BY <1>2, <3>2 DEF T
  <2>4. Min(S) <= Min(T)
    BY <1>5, <2>1, <2>3
  <2>5. Min(S) \in Nat /\ Min(T) \in Nat
    BY <1>1, <2>2, <2>3
  <2>6. QED
    BY <2>2, <2>4, <2>5
<1>7. QED
  BY <1>3, <1>4, <1>5, <1>6 DEF m, T

\* When the charge lets a process start and finish.
LEMMA ChargedTimes ==
  ASSUME NEW r \in Records, NEW now \in Nat, NEW run \in Nat
  PROVE  LET rec == Charged(r, now, run)
             alone == scheduler \in {"fcfs", "sjf"}
         IN  /\ rec.start_time = IF alone \/ ~Started(r) THEN now ELSE r.start_time
             /\ rec.finish_time = IF alone THEN now + r.burst_time
                                  ELSE IF run = r.remaining_time THEN now + run
                                  ELSE r.finish_time
             /\ Started(rec)
<1>1. r.start_time \in Int
  BY DEF Records
<1>2. now # UNKNOWN_TIME
  BY DEF UNKNOWN_TIME
<1>3. QED
  BY <1>1, <1>2 DEF Charged, Records, Started

\* A charged process has its run on the chart, as long as the chart has room.
LEMMA ChargeBooked ==
  ASSUME SettingsOK, NEW P, NEW p \in P, NEW q \in Seq(EventsOf(P)), NEW r \in Records,
         scheduler = "mlfq" => r.priority + 1 \in 1..Len(Levels), Now \in Nat,
         ChartOK(gantt, Now, P), Len(gantt) < MaxGantt, Ledger(r, gantt, p), Ready(r, Now)
  PROVE  LET run == RunTime(r, Now, q)
             rec == Charged(r, Now, run)
         IN  /\ Started(rec) /\ Ledger(rec, Drawn(p, run), p) /\ InTime(rec, Now + run)
             /\ \A s, x : x # p /\ Ledger(s, gantt, x) => Ledger(s, Drawn(p, run), x)
<1> DEFINE run == RunTime(r, Now, q)
           rec == Charged(r, Now, run)
           alone == scheduler \in {"fcfs", "sjf"}
           h == Drawn(p, run)
           S == SegmentsIn(gantt, p)
<1>1. run \in Nat /\ run <= r.remaining_time
  BY RunTimeBounds
<1>2. /\ r.remaining_time \in Nat /\ r.burst_time \in Nat /\ r.arrival_time \in Nat
      /\ r.start_time \in Int /\ r.finish_time \in Int
  BY DEF Records
<1>3. alone => run = r.remaining_time
  BY DEF RunTime
<1>4. ~Started(r) /\ run = 0 => r.remaining_time = 0
  BY RunsAtAll DEF Ledger
<1> HIDE DEF run
<1>5. /\ rec.remaining_time = r.remaining_time - run
      /\ rec.arrival_time = r.arrival_time /\ rec.burst_time = r.burst_time
  BY <1>1, ChargedRecord
<1>6. /\ rec.start_time = IF alone \/ ~Started(r) THEN Now ELSE r.start_time
      /\ rec.finish_time = IF alone THEN Now + r.burst_time
                           ELSE IF run = r.remaining_time THEN Now + run
                           ELSE r.finish_time
      /\ Started(rec)
  BY <1>1, ChargedTimes
<1> HIDE DEF rec, alone
<1>7. /\ r.remaining_time <= r.burst_time
      /\ TimeIn(gantt, p) = r.burst_time - r.remaining_time
      /\ ~Started(r) => S = {} /\ r.remaining_time = r.burst_time
      /\ Started(r) => /\ r.start_time >= r.arrival_time
                       /\ S # {} /\ r.start_time = gantt[Min(S)].start
                       /\ ~alone /\ r.remaining_time > 0
      /\ r.arrival_time + (r.burst_time - r.remaining_time) <= Now
  BY DEF Ledger, Ready, InTime, S, alone
<1>8. InTime(rec, Now + run)
  BY <1>1, <1>2, <1>5, <1>7 DEF InTime
<1>9. rec.start_time >= r.arrival_time
  BY <1>2, <1>6, <1>7
<1>10. Done(rec) => rec.finish_time = Now + run /\ rec.finish_time >= r.arrival_time + r.burst_time
  <2>1. SUFFICES ASSUME rec.remaining_time = 0
                 PROVE  rec.finish_time = Now + run /\ rec.finish_time >= r.arrival_time + r.burst_time
    BY DEF Done
  <2>2. run = r.remaining_time
    BY <1>1, <1>2, <1>5, <2>1
  <2>3. alone => r.burst_time = run
    BY <1>7, <2>2
  <2>4. rec.finish_time = Now + run
    BY <1>6, <2>2, <2>3
  <2>5. Now + run >= r.arrival_time + r.burst_time
    BY <1>1, <1>2, <1>7, <2>2
  <2>6. QED
    BY <2>4, <2>5
<1>11. /\ rec.remaining_time <= rec.burst_time
       /\ alone => rec.remaining_time = 0
  BY <1>1, <1>2, <1>3, <1>5, <1>7
<1>12. CASE run = 0
  <2>1. h = gantt
    BY <1>12 DEF Drawn
  <2>2. S = {} => rec.remaining_time = 0
    BY <1>4, <1>5, <1>7, <1>12
  <2>3. S # {} => Started(r) /\ rec.start_time = r.start_time /\ ~Done(rec)
    BY <1>5, <1>6, <1>7, <1>12 DEF Done
  <2>4. TimeIn(gantt, p) = rec.burst_time - rec.remaining_time
    BY <1>2, <1>5, <1>7, <1>12
  <2>5. Ledger(rec, gantt, p)
    BY <1>5, <1>6, <1>7, <1>9, <1>10, <1>11, <2>2, <2>3, <2>4 DEF Ledger, S, alone
  <2>6. QED
    BY <1>6, <1>8, <2>1, <2>5 DEF rec, run
<1>13. CASE run > 0
  <2> DEFINE s == [name |-> p, start |-> Now, end |-> Now + run]
             last == Len(gantt) + 1
  <2>1. gantt \in Seq(Entries(P)) /\ Len(gantt) \in Nat /\ s \in Entries(P)
    BY <1>1 DEF ChartOK, Entries
  <2>2. h = Append(gantt, s)
    <3>1. ~(run <= 0 \/ Len(gantt) >= MaxGantt)
      BY <1>1, <1>13, <2>1, EngineAssumption
    <3>2. QED
      BY <3>1 DEF Drawn
  <2>3. s.name = p /\ s.start = Now /\ s.end = Now + run
    OBVIOUS
  <2> HIDE DEF s
  <2>4. /\ SegmentsIn(h, p) = S \cup {last}
        /\ TimeIn(h, p) = TimeIn(gantt, p) + (s.end - s.start)
        /\ \A x : x # p => SegmentsIn(h, x) = SegmentsIn(gantt, x) /\ TimeIn(h, x) = TimeIn(gantt, x)
        /\ h[last] = s /\ \A k \in 1..Len(gantt) : h[k] = gantt[k]
        /\ \A x : SegmentsIn(gantt, x) \subseteq 1..Len(gantt)
    <3> HIDE DEF h, last
    <3>1. LET g == Append(gantt, s)
              m == Len(gantt) + 1
          IN  /\ SegmentsIn(g, s.name) = SegmentsIn(gantt, s.name) \cup {m}
              /\ TimeIn(g, s.name) = TimeIn(gantt, s.name) + (s.end - s.start)
              /\ \A x : x # s.name => /\ SegmentsIn(g, x) = SegmentsIn(gantt, x)
                                      /\ TimeIn(g, x) = TimeIn(gantt, x)
              /\ g[m] = s /\ \A k \in 1..Len(gantt) : g[k] = gantt[k]
              /\ \A x : SegmentsIn(gantt, x) \subseteq 1..Len(gantt)
      BY <2>1, SegmentAdded
    <3>2. QED
      BY <2>2, <2>3, <3>1 DEF last
  <2> HIDE DEF h
  <2>5. S \subseteq 1..Len(gantt)
    BY <2>4
  <2> HIDE DEF S
  <2>6. /\ Max(S \cup {last}) = last
        /\ Min(S \cup {last}) = IF S = {} THEN last ELSE Min(S)
        /\ S # {} => Min(S) \in S
    BY <2>1, <2>5, PlacesGrow
  <2>7. TimeIn(h, p) = rec.burst_time - rec.remaining_time
    <3>1. s.end - s.start = run
      BY <1>1, <2>3
    <3>2. QED
      BY <1>1, <1>2, <1>5, <1>7, <2>4, <3>1
  <2>8. rec.start_time = h[Min(S \cup {last})].start
    <3>1. CASE S = {}
      BY <1>6, <1>7, <2>3, <2>4, <2>6, <3>1
    <3>2. CASE S # {}
      <4>1. h[Min(S)] = gantt[Min(S)]
        BY <2>4, <2>5, <2>6, <3>2
      <4>2. QED
        BY <1>6, <1>7, <2>6, <3>2, <4>1
    <3>3. QED
      BY <3>1, <3>2
  <2>9. Done(rec) => rec.finish_time = h[Max(S \cup {last})].end
    BY <1>10, <2>3, <2>4, <2>6
  <2>10. S \cup {last} # {}
    OBVIOUS
  <2> HIDE DEF last
  <2>11. Ledger(rec, h, p)
    BY <1>5, <1>6, <1>9, <1>10, <1>11, <2>4, <2>7, <2>8, <2>9, <2>10 DEF Ledger, alone
  <2>12. ASSUME NEW u, NEW x, x # p, Ledger(u, gantt, x) PROVE Ledger(u, h, x)
    <3> DEFINE X == SegmentsIn(gantt, x)
    <3>1. SegmentsIn(h, x) = X /\ TimeIn(h, x) = TimeIn(gantt, x)
      BY <2>4, <2>12
    <3>2. X \subseteq 1..Len(gantt)
      BY <2>4
    <3>3. /\ TimeIn(gantt, x) = u.burst_time - u.remaining_time
          /\ u.remaining_time <= u.burst_time
          /\ ~Started(u) => X = {} /\ u.remaining_time = u.burst_time /\ u.priority = 0
          /\ Started(u) => /\ u.start_time >= u.arrival_time
                           /\ X = {} => u.remaining_time = 0
                           /\ X # {} => u.start_time = gantt[Min(X)].start
                           /\ scheduler \in {"fcfs", "sjf"} => u.remaining_time = 0
          /\ Done(u) => /\ u.finish_time >= u.arrival_time + u.burst_time
                        /\ X # {} => u.finish_time = gantt[Max(X)].end
      BY <2>12 DEF Ledger
    <3> HIDE DEF X
    <3>4. X # {} => h[Min(X)] = gantt[Min(X)] /\ h[Max(X)] = gantt[Max(X)]
      <4>1. X # {} => Min(X) \in 1..Len(gantt) /\ Max(X) \in 1..Len(gantt)
        BY <2>1, <3>2, LeastPosition, LastPlace
      <4>2. QED
        BY <2>4, <4>1
    <3>5. QED
      BY <3>1, <3>3, <3>4 DEF Ledger
  <2>13. QED
    BY <1>6, <1>8, <2>11, <2>12 DEF rec, run, h
<1>14. QED
  BY <1>1, <1>12, <1>13

-----------------------------------------------------------------------------
\* Nobody is lost: who has not arrived has not run, who waits may run, and who
\* neither waits nor runs is done.  A is who arrives, W who waits, r who runs.
Accounts(pr, g, P, A, W, r, now) ==
  \A p \in P :
    /\ Ledger(pr[p], g, p)
    /\ p \in A => ~Started(pr[p])
    /\ p \in W => Ready(pr[p], now)
    /\ p = r => Started(pr[p])
    /\ p \in A \cup W \cup {r} \/ Done(pr[p])
InTimeAt(q, rec) == \A k \in 1..Len(q) : IsCpuEvent(q[k]) => InTime(rec, q[k].time)
Books(pr, r, w, q, g, now, P) ==
  /\ Accounts(pr, g, P, Arriving(q), InQueue(w), r, now)
  /\ r # None => InTimeAt(q, pr[r])

\* Who is ready stays so as time goes by.
LEMMA ReadyLater ==
  ASSUME NEW r \in Records, NEW now \in Nat, Ready(r, now), NEW later \in Nat, now <= later
  PROVE  Ready(r, later)
<1>1. r.arrival_time \in Nat /\ r.burst_time \in Nat /\ r.remaining_time \in Nat
  BY DEF Records
<1>2. QED
  BY <1>1 DEF Ready, InTime

\* Whoever gets a free CPU is accounted for.
LEMMA DispatchBooked ==
  ASSUME SettingsOK, NEW n \in Nat, NEW pr, RecordsOK(pr, 1..n), NEW w, NEW q, NEW p \in 1..n,
         EventsOK(q, 1..n), NoCpu(q), Now \in Nat, ChartOK(gantt, Now, 1..n),
         Len(gantt) < MaxGantt, p \notin Arriving(q), p \notin InQueue(w),
         Accounts(pr, gantt, 1..n, Arriving(q), InQueue(w) \cup {p}, None, Now),
         Dispatch(p, pr, w, q)
  PROVE  Books(proc', running', waiting', event_queue', gantt', Now, 1..n)
<1> DEFINE P == 1..n
           run == RunTime(pr[p], Now, q)
           rec == Charged(pr[p], Now, run)
           left == pr[p].remaining_time - run
           type == IF left = 0 THEN "COMPLETION" ELSE "QUANTUM_EXPIRE"
           e == Event(Now + run, type, p)
           b == SortsByRemaining(scheduler)
<1>1. q \in Seq(EventsOf(P)) /\ None \notin P
  BY EngineAssumption DEF EventsOK
<1>2. /\ run \in Nat
      /\ proc'[p] = rec /\ DOMAIN pr = P /\ DOMAIN proc' = P
      /\ \A x \in P : x # p => proc'[x] = pr[x]
      /\ proc'[p].remaining_time = left
  BY <1>1, DispatchCharges DEF Charges, RecordsOK
<1>3. /\ pr[p] \in Records
      /\ scheduler = "mlfq" => pr[p].priority + 1 \in 1..Len(Levels)
  BY DEF RecordsOK
<1>4. Ledger(pr[p], gantt, p) /\ Ready(pr[p], Now)
  BY DEF Accounts
<1>5. /\ Started(rec) /\ Ledger(rec, Drawn(p, run), p) /\ InTime(rec, Now + run)
      /\ \A s, x : x # p /\ Ledger(s, gantt, x) => Ledger(s, Drawn(p, run), x)
  BY <1>1, <1>3, <1>4, ChargeBooked
<1>6. /\ running' = p /\ waiting' = w /\ gantt' = Drawn(p, run)
      /\ event_queue' = EnqueueEvent(q, e, proc', b)
  <2>1. proc'[p].remaining_time = left
    BY <1>2
  <2>2. QED
    BY <2>1 DEF Dispatch
<1> HIDE DEF run
<1>7. e \in EventsOf(P) /\ e.type # "ARRIVAL" /\ IsCpuEvent(e) /\ e.time = Now + run
      /\ (e.type = "COMPLETION" <=> left = 0)
  BY <1>2 DEF EventsOf, EventTypes, Event, IsCpuEvent
<1> HIDE DEF e, b, left, rec
<1>8. Arriving(event_queue') = Arriving(q)
  BY <1>6, <1>7, EnqueuedOK
<1>9. EndsAt(event_queue', e.process, left, Now + run)
  BY <1>1, <1>6, <1>7, EndComes
<1>10. InTimeAt(event_queue', proc'[p])
  BY <1>2, <1>5, <1>9 DEF InTimeAt, EndsAt
<1>11. Accounts(proc', gantt', P, Arriving(event_queue'), InQueue(waiting'), p, Now)
  <2>1. SUFFICES ASSUME NEW x \in P
                 PROVE  /\ Ledger(proc'[x], gantt', x)
                        /\ x \in Arriving(q) => ~Started(proc'[x])
                        /\ x \in InQueue(w) => Ready(proc'[x], Now)
                        /\ x = p => Started(proc'[x])
                        /\ x \in Arriving(q) \cup InQueue(w) \cup {p} \/ Done(proc'[x])
    BY <1>6, <1>8 DEF Accounts
  <2>2. CASE x = p
    BY <1>2, <1>5, <1>6, <2>2
  <2>3. CASE x # p
    <3>1. /\ Ledger(pr[x], gantt, x)
          /\ x \in Arriving(q) => ~Started(pr[x])
          /\ x \in InQueue(w) => Ready(pr[x], Now)
          /\ x \in Arriving(q) \cup InQueue(w) \/ Done(pr[x])
      BY <1>1, <2>3 DEF Accounts
    <3>2. QED
      BY <1>2, <1>5, <1>6, <2>3, <3>1
  <2>4. QED
    BY <2>2, <2>3
<1>12. QED
  BY <1>6, <1>10, <1>11 DEF Books

\* And so is everyone when the first of the queue gets it, or nobody does.
LEMMA NextBooked ==
  ASSUME SettingsOK, NEW n \in Nat, NEW pr, NEW w, NEW q, Good(pr, None, w, q, 1..n),
         NoCpu(q), Now \in Nat, ChartOK(gantt, Now, 1..n), Len(gantt) < MaxGantt,
         Accounts(pr, gantt, 1..n, Arriving(q), InQueue(w), None, Now),
         DispatchNext(pr, w, q)
  PROVE  Books(proc', running', waiting', event_queue', gantt', Now, 1..n)
<1> DEFINE P == 1..n
<1>1. CASE IsEmpty(w)
  <2>1. running' = None /\ waiting' = w /\ proc' = pr /\ event_queue' = q /\ gantt' = gantt
    BY <1>1 DEF DispatchNext
  <2>2. QED
    BY <2>1 DEF Books
<1>2. CASE ~IsEmpty(w)
  <2> DEFINE p == Taken(scheduler, w)
             v == Left(scheduler, w)
  <2>1. Dispatch(p, pr, v, q)
    BY <1>2 DEF DispatchNext
  <2>2. w \in Lists(ListCount, P) /\ Distinct(w) /\ scheduler \in AlgorithmNames /\ LevelsTyped
    BY DEF Good, PlacesOK, SettingsOK, LevelsTyped, LevelsOK
  <2>3. p \in InQueue(w) /\ InQueue(v) = InQueue(w) \ {p}
    BY <1>2, <2>2, DequeuedWaiting
  <2> HIDE DEF p, v
  <2>4. p \in P /\ p \notin Arriving(q) /\ p \notin InQueue(v) /\ InQueue(v) \cup {p} = InQueue(w)
    <3>1. p \in P
      BY <2>2, <2>3 DEF Lists, InQueue, ToSet
    <3>2. QED
      BY <2>3, <3>1 DEF Good, PlacesOK
  <2>5. RecordsOK(pr, P) /\ EventsOK(q, P)
    BY DEF Good
  <2>6. QED
    BY <2>1, <2>4, <2>5, DispatchBooked
<1>3. QED
  BY <1>1, <1>2

\* The books when the clock goes to the first event, which leaves the queue: who
\* arrives now is ready.
LEMMA BooksAtEvent ==
  ASSUME NEW n \in Nat, Good(proc, running, waiting, event_queue, 1..n), event_queue # <<>>,
         NoneBefore(event_queue, current_time), current_time \in Nat,
         NEW e \in Nat, OnCpu(e, 1..n),
         Books(proc, running, waiting, event_queue, gantt, current_time, 1..n)
  PROVE  LET t == Tail(event_queue)
             come == IF Head(event_queue).type = "ARRIVAL" THEN {Subject} ELSE {}
         IN  /\ Accounts(proc, gantt, 1..n, Arriving(t), InQueue(waiting) \cup come, running, Now)
             /\ running # None => /\ InTimeAt(t, proc[running])
                                  /\ InTime(proc[running], e)
<1> DEFINE P == 1..n
           q == event_queue
           t == Tail(event_queue)
           arrives == Head(event_queue).type = "ARRIVAL"
           come == IF arrives THEN {Subject} ELSE {}
<1>1. None \notin P
  BY EngineAssumption
<1>2. /\ Now \in Nat /\ current_time <= Now
      /\ arrives => Subject \in P
  BY <1>1, FirstEvent
<1>3. q \in Seq(EventsOf(P)) /\ EventsOK(q, P)
  BY DEF Good, EventsOK
<1>4. /\ t \in Seq(EventsOf(P)) /\ Removed(t, q, 1) /\ Len(q) \in Nat \ {0}
      /\ q[1].type = Head(q).type /\ Subject = q[1].process
  BY <1>3, TailRemoves DEF Subject
<1>5. 1 \in 1..Len(q)
  BY <1>4
<1>6. Arriving(t) = Arriving(q) \ come
  <2> HIDE DEF t, q
  <2>1. Arriving(t) = IF q[1].type = "ARRIVAL" THEN Arriving(q) \ {q[1].process} ELSE Arriving(q)
    BY <1>3, <1>4, <1>5, RemovedOK
  <2>2. QED
    BY <1>4, <2>1 DEF q
<1>7. come \subseteq Arriving(q)
  BY <1>4, <1>5 DEF Arriving
<1>8. arrives => Now = proc[Subject].arrival_time
  BY FirstServed DEF OnCpu
<1>9. Accounts(proc, gantt, P, Arriving(q), InQueue(waiting), running, current_time)
  BY DEF Books
<1>10. \A p \in P : proc[p] \in Records
  BY DEF Good, RecordsOK
<1>11. ASSUME NEW p \in come PROVE Ready(proc[p], Now)
  <2>1. p \in P /\ Now = proc[p].arrival_time
    BY <1>2, <1>8, <1>11
  <2>2. ~Started(proc[p]) /\ proc[p].remaining_time = proc[p].burst_time
    BY <1>7, <1>9, <1>11, <2>1 DEF Accounts, Ledger
  <2>3. proc[p].burst_time \in Nat
    BY <1>10, <2>1 DEF Records
  <2>4. Now + (proc[p].burst_time - proc[p].remaining_time) <= Now
    BY <1>2, <2>2, <2>3
  <2>5. QED
    BY <2>1, <2>2, <2>4 DEF Ready, InTime
<1> HIDE DEF t, q, come, arrives
<1>12. Accounts(proc, gantt, P, Arriving(t), InQueue(waiting) \cup come, running, Now)
  <2>1. SUFFICES ASSUME NEW p \in P
                 PROVE  /\ Ledger(proc[p], gantt, p)
                        /\ p \in Arriving(t) => ~Started(proc[p])
                        /\ p \in InQueue(waiting) \cup come => Ready(proc[p], Now)
                        /\ p = running => Started(proc[p])
                        /\ p \in Arriving(t) \cup (InQueue(waiting) \cup come) \cup {running}
                           \/ Done(proc[p])
    BY DEF Accounts
  <2>2. /\ Ledger(proc[p], gantt, p)
        /\ p \in Arriving(q) => ~Started(proc[p])
        /\ p \in InQueue(waiting) => Ready(proc[p], current_time)
        /\ p = running => Started(proc[p])
        /\ p \in Arriving(q) \cup InQueue(waiting) \cup {running} \/ Done(proc[p])
    BY <1>9 DEF Accounts
  <2>3. p \in InQueue(waiting) => Ready(proc[p], Now)
    BY <1>2, <1>10, <2>2, ReadyLater
  <2>4. QED
    BY <1>6, <1>11, <2>2, <2>3
<1>13. ASSUME running # None
       PROVE  InTimeAt(t, proc[running]) /\ InTime(proc[running], e)
  <2>1. InTimeAt(q, proc[running])
    BY <1>13 DEF Books, q
  <2>2. \A j \in 1..Len(t) : /\ (IF j < 1 THEN j ELSE j + 1) \in 1..Len(q)
                             /\ t[j] = q[IF j < 1 THEN j ELSE j + 1]
    BY <1>3, <1>4, <1>5, RemovedFrom
  <2>3. InTimeAt(t, proc[running])
    BY <2>1, <2>2 DEF InTimeAt
  <2>4. EndsAt(q, running, proc[running].remaining_time, e)
    BY <1>13 DEF OnCpu, Served, q
  <2>5. InTime(proc[running], e)
    BY <2>1, <2>4 DEF InTimeAt, EndsAt
  <2>6. QED
    BY <2>3, <2>5
<1>14. QED
  BY <1>12, <1>13 DEF t, come, arrives

\* handle_arrival.
LEMMA ArrivalBooked ==
  ASSUME SettingsOK, NEW n \in Nat, Good(proc, running, waiting, event_queue, 1..n),
         NoneBefore(event_queue, current_time), current_time \in Nat,
         NEW e \in Nat, OnCpu(e, 1..n), Len(gantt) < MaxGantt,
         Books(proc, running, waiting, event_queue, gantt, current_time, 1..n), handle_arrival
  PROVE  Books(proc', running', waiting', event_queue', gantt', Now, 1..n)
<1> DEFINE P == 1..n
           s == Subject
           t == Tail(event_queue)
<1>1. /\ event_queue # <<>> /\ Head(event_queue).type = "ARRIVAL"
      /\ ArrivalDispatches \/ ArrivalPreempts \/ ArrivalWaits
  BY DEF handle_arrival, Handle
<1>2. None \notin P
  BY EngineAssumption
<1>3. /\ Now \in Nat /\ Good(proc, running, waiting, t, P) /\ current_time <= Now
      /\ s \in P /\ s \notin InQueue(waiting) /\ s # running /\ s \notin Arriving(t)
      /\ scheduler = "mlfq" => Within(proc[s])
  BY <1>1, <1>2, FirstEvent
<1>4. Served(proc, running, waiting, event_queue, gantt, e, P)
      /\ (running = None => e <= Now)
  BY <1>3 DEF OnCpu
<1>5. /\ t \in Seq(Planned(proc, P)) /\ InOrder(t)
      /\ running = None => NoCpu(t)
      /\ running # None => EndsAt(t, running, proc[running].remaining_time, e) /\ Now <= e
      /\ \A time : NoneArrivesBefore(event_queue, time) => Now >= time
  <2>1. ~IsCpuEvent(Head(event_queue))
    BY <1>1 DEF IsCpuEvent
  <2>2. QED
    BY <1>1, <1>4, <2>1, FirstServed
<1>6. /\ Accounts(proc, gantt, P, Arriving(t), InQueue(waiting) \cup {s}, running, Now)
      /\ running # None => InTimeAt(t, proc[running]) /\ InTime(proc[running], e)
  BY <1>1, BooksAtEvent
<1>7. RecordsOK(proc, P) /\ EventsOK(t, P) /\ ChartOK(gantt, e, P)
  BY <1>3, <1>4 DEF Good, Served
<1>8. t \in Seq(EventsOf(P))
  BY <1>7 DEF EventsOK
<1> HIDE DEF s, t, P
<1>9. CASE ArrivalDispatches
  <2>1. Dispatch(s, proc, waiting, t) /\ running = None
    BY <1>9 DEF ArrivalDispatches, s, t
  <2>2. ChartOK(gantt, Now, P)
    <3>1. e <= Now
      BY <1>4, <2>1
    <3>2. QED
      BY <1>3, <1>7, <3>1, ChartLater
  <2>3. Accounts(proc, gantt, P, Arriving(t), InQueue(waiting) \cup {s}, None, Now)
    BY <1>6, <2>1
  <2>4. QED
    BY <1>3, <1>5, <1>7, <2>1, <2>2, <2>3, DispatchBooked DEF P
<1>10. CASE ArrivalPreempts
  <2> DEFINE w == Enqueue(scheduler, waiting, running, proc)
             q == RemoveEvent(t, running)
  <2>1. /\ Dispatch(s, proc, w, q) /\ running # None /\ scheduler = "stcf"
        /\ proc[s].remaining_time < proc[running].remaining_time
    BY <1>10 DEF ArrivalPreempts, Preempts, s, t
  <2>2. running \in P /\ running \notin Arriving(t) /\ running \notin InQueue(waiting)
    BY <1>3, <2>1 DEF Good, PlacesOK
  <2>3. proc[running].remaining_time > 0
    <3>1. \A r \in Records : r.remaining_time \in Nat
      BY DEF Records
    <3>2. proc[s].remaining_time \in Nat /\ proc[running].remaining_time \in Nat
      BY <1>3, <1>7, <2>2, <3>1 DEF RecordsOK
    <3>3. QED
      BY <2>1, <3>2
  <2>4. Now = e
    <3>1. NoneArrivesBefore(event_queue, e)
      BY <1>4, <2>1, <2>3 DEF Served
    <3>2. QED
      BY <1>3, <1>5, <2>1, <3>1
  <2>5. NoCpu(q) /\ Arriving(q) = Arriving(t)
    BY <1>5, <2>1, <2>2, TakenBack DEF P
  <2>6. EventsOK(q, P)
    <3>1. CASE q = t
      BY <1>7, <3>1
    <3>2. CASE \E i \in 1..Len(t) : Removed(q, t, i)
      <4>1. q \in Seq(EventsOf(P))
        BY <1>8, RemovedEvent
      <4> HIDE DEF q
      <4>2. QED
        BY <1>7, <3>2, <4>1, RemovedOK
    <3>3. QED
      BY <1>8, <3>1, <3>2, RemovedEvent
  <2>7. InQueue(w) = InQueue(waiting) \cup {running}
    <3>1. Good(proc, None, waiting, t, P)
      BY <1>2, <1>3, OffTheCpu
    <3>2. QED
      BY <1>2, <2>1, <2>2, <3>1, EnqueuedGood
  <2> HIDE DEF q, w
  <2>8. Ready(proc[running], Now)
    BY <1>6, <2>1, <2>3, <2>4 DEF Ready
  <2>9. Accounts(proc, gantt, P, Arriving(q), InQueue(w) \cup {s}, None, Now)
    BY <1>2, <1>6, <2>5, <2>7, <2>8 DEF Accounts
  <2>10. s \notin InQueue(w)
    BY <1>3, <2>7
  <2>11. QED
    BY <1>3, <1>7, <2>1, <2>4, <2>5, <2>6, <2>9, <2>10, DispatchBooked DEF P
<1>11. CASE ArrivalWaits
  <2> DEFINE w == Enqueue(scheduler, waiting, s, proc)
  <2>1. /\ running' = running /\ proc' = proc /\ event_queue' = t /\ gantt' = gantt
        /\ waiting' = w /\ running # None
    BY <1>11 DEF ArrivalWaits, s, t
  <2>2. InQueue(w) = InQueue(waiting) \cup {s}
    BY <1>2, <1>3, EnqueuedGood
  <2> HIDE DEF w
  <2>3. QED
    BY <1>6, <2>1, <2>2 DEF Books, P
<1>12. QED
  BY <1>1, <1>9, <1>10, <1>11 DEF P

\* The books when a run ends.
LEMMA BooksAtEnd ==
  ASSUME NEW n \in Nat, Good(proc, running, waiting, event_queue, 1..n), event_queue # <<>>,
         NoneBefore(event_queue, current_time), current_time \in Nat,
         NEW e \in Nat, OnCpu(e, 1..n), IsCpuEvent(Head(event_queue)),
         Books(proc, running, waiting, event_queue, gantt, current_time, 1..n)
  PROVE  LET t == Tail(event_queue)
         IN  /\ Now \in Nat /\ Good(proc, running, waiting, t, 1..n) /\ NoCpu(t)
             /\ ChartOK(gantt, Now, 1..n)
             /\ Accounts(proc, gantt, 1..n, Arriving(t), InQueue(waiting), running, Now)
             /\ running \in 1..n /\ Started(proc[running]) /\ InTime(proc[running], Now)
             /\ Head(event_queue).type = "COMPLETION" <=> proc[running].remaining_time = 0
<1> DEFINE P == 1..n
           t == Tail(event_queue)
<1>1. None \notin P
  BY EngineAssumption
<1>2. Now \in Nat /\ Good(proc, running, waiting, t, P)
  BY <1>1, FirstEvent
<1>3. Served(proc, running, waiting, event_queue, gantt, e, P)
  BY DEF OnCpu
<1>4. /\ running # None /\ NoCpu(t) /\ Now = e
      /\ Head(event_queue).type = "COMPLETION" <=> proc[running].remaining_time = 0
  BY <1>3, FirstServed
<1>5. /\ Accounts(proc, gantt, P, Arriving(t), InQueue(waiting), running, Now)
      /\ InTime(proc[running], Now)
  <2>1. Head(event_queue).type # "ARRIVAL"
    BY DEF IsCpuEvent
  <2>2. InQueue(waiting) \cup {} = InQueue(waiting)
    OBVIOUS
  <2>3. QED
    BY <1>4, <2>1, <2>2, BooksAtEvent
<1>6. running \in P /\ ChartOK(gantt, Now, P)
  BY <1>2, <1>3, <1>4 DEF Good, PlacesOK, Served
<1>7. QED
  BY <1>2, <1>4, <1>5, <1>6 DEF Accounts

\* handle_completion: the process is done, and its end is known.
LEMMA CompletionBooked ==
  ASSUME SettingsOK, NEW n \in Nat, Good(proc, running, waiting, event_queue, 1..n),
         NoneBefore(event_queue, current_time), current_time \in Nat,
         NEW e \in Nat, OnCpu(e, 1..n), Len(gantt) < MaxGantt,
         Books(proc, running, waiting, event_queue, gantt, current_time, 1..n), handle_completion
  PROVE  Books(proc', running', waiting', event_queue', gantt', Now, 1..n)
<1> DEFINE P == 1..n
           t == Tail(event_queue)
<1>1. /\ event_queue # <<>> /\ DispatchNext(FinishRunning(Now), waiting, t)
      /\ IsCpuEvent(Head(event_queue)) /\ Head(event_queue).type = "COMPLETION"
  BY DEF handle_completion, Handle, IsCpuEvent
<1>2. None \notin P
  BY EngineAssumption
<1>3. /\ Now \in Nat /\ Good(proc, running, waiting, t, P) /\ NoCpu(t)
      /\ ChartOK(gantt, Now, P)
      /\ Accounts(proc, gantt, P, Arriving(t), InQueue(waiting), running, Now)
      /\ running \in P /\ Done(proc[running])
  BY <1>1, BooksAtEnd DEF Done
<1> HIDE DEF t, P
<1>4. FinishRunning(Now) = proc
  <2>1. proc[running] \in Records
    BY <1>3 DEF Good, RecordsOK
  <2>2. proc[running].finish_time >= proc[running].arrival_time + proc[running].burst_time
    BY <1>3 DEF Accounts, Ledger
  <2>3. proc[running].finish_time # UNKNOWN_TIME
    BY <2>1, <2>2 DEF Records, UNKNOWN_TIME
  <2>4. QED
    BY <2>3 DEF FinishRunning
<1>5. Good(proc, None, waiting, t, P)
  BY <1>2, <1>3, OffTheCpu
<1>6. Accounts(proc, gantt, P, Arriving(t), InQueue(waiting), None, Now)
  BY <1>2, <1>3 DEF Accounts
<1>7. QED
  BY <1>1, <1>3, <1>4, <1>5, <1>6, NextBooked DEF P

\* handle_quantum_expire: the process goes on waiting, with what is left.
LEMMA ExpireBooked ==
  ASSUME SettingsOK, NEW n \in Nat, Good(proc, running, waiting, event_queue, 1..n),
         NoneBefore(event_queue, current_time), current_time \in Nat,
         NEW e \in Nat, OnCpu(e, 1..n), Len(gantt) < MaxGantt,
         Books(proc, running, waiting, event_queue, gantt, current_time, 1..n),
         handle_quantum_expire
  PROVE  Books(proc', running', waiting', event_queue', gantt', Now, 1..n)
<1> DEFINE P == 1..n
           t == Tail(event_queue)
           pr == AfterDemotion
<1>1. /\ event_queue # <<>> /\ DispatchNext(pr, PutBack, t)
      /\ IsCpuEvent(Head(event_queue)) /\ Head(event_queue).type = "QUANTUM_EXPIRE"
  BY DEF handle_quantum_expire, Handle, IsCpuEvent
<1>2. None \notin P
  BY EngineAssumption
<1>3. /\ Now \in Nat /\ Good(proc, running, waiting, t, P) /\ NoCpu(t)
      /\ ChartOK(gantt, Now, P)
      /\ Accounts(proc, gantt, P, Arriving(t), InQueue(waiting), running, Now)
      /\ running \in P /\ Started(proc[running]) /\ InTime(proc[running], Now)
      /\ proc[running].remaining_time # 0
  BY <1>1, BooksAtEnd
<1>4. /\ Good(pr, None, PutBack, t, P)
      /\ InQueue(PutBack) = InQueue(waiting) \cup {running}
  <2>1. {running} \ {None} = {running}
    BY <1>2, <1>3
  <2>2. QED
    BY <1>2, <1>3, <2>1, PutBackGood
<1>5. /\ DOMAIN proc = P /\ proc[running] \in Records
      /\ \A p \in P : p # running => pr[p] = proc[p]
      /\ pr[running] \in {proc[running], AtLevel(proc[running], proc[running].priority + 1)}
  BY <1>3 DEF Good, RecordsOK, AfterDemotion, AtLevel
<1>6. \A f \in {"arrival_time", "burst_time", "remaining_time", "start_time", "finish_time"} :
        pr[running][f] = proc[running][f]
  BY <1>5 DEF AtLevel, Records
<1> HIDE DEF t, P, pr
<1>7. /\ Started(pr[running]) /\ Ledger(pr[running], gantt, running) /\ Ready(pr[running], Now)
  <2>1. proc[running].remaining_time > 0
    BY <1>3, <1>5 DEF Records
  <2>2. Ledger(proc[running], gantt, running)
    BY <1>3 DEF Accounts
  <2>3. /\ pr[running].arrival_time = proc[running].arrival_time
        /\ pr[running].burst_time = proc[running].burst_time
        /\ pr[running].remaining_time = proc[running].remaining_time
        /\ pr[running].start_time = proc[running].start_time
        /\ pr[running].finish_time = proc[running].finish_time
    BY <1>6
  <2>4. QED
    BY <1>3, <2>1, <2>2, <2>3 DEF Started, Done, Ledger, Ready, InTime
<1>8. Accounts(pr, gantt, P, Arriving(t), InQueue(PutBack), None, Now)
  <2>1. SUFFICES ASSUME NEW p \in P
                 PROVE  /\ Ledger(pr[p], gantt, p)
                        /\ p \in Arriving(t) => ~Started(pr[p])
                        /\ p \in InQueue(PutBack) => Ready(pr[p], Now)
                        /\ p = None => Started(pr[p])
                        /\ p \in Arriving(t) \cup InQueue(PutBack) \cup {None} \/ Done(pr[p])
    BY DEF Accounts
  <2>2. CASE p = running
    BY <1>2, <1>3, <1>4, <1>7, <2>2 DEF Good, PlacesOK
  <2>3. CASE p # running
    BY <1>2, <1>3, <1>4, <1>5, <2>1, <2>3 DEF Accounts
  <2>4. QED
    BY <2>2, <2>3
<1>9. QED
  BY <1>1, <1>3, <1>4, <1>8, NextBooked DEF P

\* handle_priority_boost.
LEMMA BoostBooked ==
  ASSUME SettingsOK, NEW n \in Nat, Good(proc, running, waiting, event_queue, 1..n),
         NoneBefore(event_queue, current_time), current_time \in Nat,
         NEW e \in Nat, OnCpu(e, 1..n), BeforeBoosts(Now, proc),
         Books(proc, running, waiting, event_queue, gantt, current_time, 1..n),
         handle_priority_boost
  PROVE  Books(proc', running', waiting', event_queue', gantt', Now, 1..n)
<1> DEFINE P == 1..n
           t == Tail(event_queue)
<1>1. event_queue # <<>> /\ Head(event_queue).type = "PRIORITY_BOOST"
  BY DEF handle_priority_boost, Handle
<1>2. /\ running = None /\ running' = None /\ IsEmpty(waiting) /\ InQueue(waiting') = {}
      /\ DOMAIN proc' = P /\ \A p \in P : proc'[p] = proc[p]
      /\ event_queue' = t /\ gantt' = gantt
  BY BoostAlone
<1>3. InQueue(waiting) = {}
  BY <1>2 DEF IsEmpty, InQueue, ToSet
<1>4. Accounts(proc, gantt, P, Arriving(t), InQueue(waiting), running, Now)
  <2>1. InQueue(waiting) \cup {} = InQueue(waiting)
    OBVIOUS
  <2>2. QED
    BY <1>1, <2>1, BooksAtEvent
<1>5. QED
  BY <1>2, <1>3, <1>4 DEF Accounts, Books

-----------------------------------------------------------------------------
\* The books agree with the chart in every state before the first boost, as long
\* as the chart has room; the metrics come when no event is left.
BooksKept ==
  Undisturbed /\ Len(gantt) < MaxGantt =>
    Books(proc, running, waiting, event_queue, gantt, current_time, Processes)
ReportedAtEnd == reported => event_queue = <<>>

\* The handlers keep them.
LEMMA HandlersBook ==
  ASSUME SettingsOK, NEW n \in Nat, Good(proc, running, waiting, event_queue, 1..n),
         NoneBefore(event_queue, current_time), current_time \in Nat,
         NEW e \in Nat, OnCpu(e, 1..n), Len(gantt) < MaxGantt,
         Books(proc, running, waiting, event_queue, gantt, current_time, 1..n),
         Simulate, ~Report, Undisturbed'
  PROVE  Books(proc', running', waiting', event_queue', gantt', Now, 1..n)
<1>1. current_time' = Now
  BY DEF Simulate, handle_arrival, handle_completion, handle_quantum_expire,
         handle_priority_boost, Handle
<1>2. BeforeBoosts(Now, proc)
  BY <1>1, StillUndisturbed
<1>3. CASE handle_arrival
  BY <1>3, ArrivalBooked
<1>4. CASE handle_completion
  BY <1>4, CompletionBooked
<1>5. CASE handle_quantum_expire
  BY <1>5, ExpireBooked
<1>6. CASE handle_priority_boost
  BY <1>2, <1>6, BoostBooked
<1>7. QED
  BY <1>3, <1>4, <1>5, <1>6 DEF Simulate

\* A step adds a segment at most.
LEMMA ChartGoesOn ==
  ASSUME Simulate PROVE gantt' = gantt \/ \E s : gantt' = Append(gantt, s)
<1>1. ASSUME NEW p, NEW pr, NEW w, NEW q, Dispatch(p, pr, w, q)
      PROVE  gantt' = gantt \/ \E s : gantt' = Append(gantt, s)
  <2>1. \E run : gantt' = Drawn(p, run)
    BY <1>1 DEF Dispatch
  <2>2. QED
    BY <2>1 DEF Drawn
<1>2. ASSUME NEW pr, NEW w, NEW q, DispatchNext(pr, w, q)
      PROVE  gantt' = gantt \/ \E s : gantt' = Append(gantt, s)
  <2>1. gantt' = gantt \/ \E p, v : Dispatch(p, pr, v, q)
    BY <1>2 DEF DispatchNext
  <2>2. QED
    BY <1>1, <2>1
<1>3. CASE handle_arrival
  <2>1. gantt' = gantt \/ \E p, w, q : Dispatch(p, proc, w, q)
    BY <1>3 DEF handle_arrival, ArrivalDispatches, ArrivalPreempts, ArrivalWaits
  <2>2. QED
    BY <1>1, <2>1
<1>4. CASE ~handle_arrival
  <2>1. gantt' = gantt \/ \E pr, w, q : DispatchNext(pr, w, q)
    BY <1>4 DEF Simulate, handle_completion, handle_quantum_expire, handle_priority_boost, Report
  <2>2. QED
    BY <1>2, <2>1
<1>5. QED
  BY <1>3, <1>4

\* The simulator keeps them.
LEMMA SimulateBooks ==
  ASSUME Kept, CpuKept, BooksKept, Simulate
  PROVE  BooksKept'
<1>1. SUFFICES ASSUME Undisturbed', Len(gantt') < MaxGantt
               PROVE  Books(proc', running', waiting', event_queue', gantt', current_time', Processes')
  <2>1. scheduler' = scheduler
    BY DEF Simulate, handle_arrival, handle_completion, handle_quantum_expire,
           handle_priority_boost, Handle, Report, settings
  <2>2. QED
    BY <2>1 DEF BooksKept, Books, Accounts, Ledger
<1>2. PICK n \in Nat : /\ SettingsOK
                       /\ Good(proc, running, waiting, event_queue, 1..n)
                       /\ NoneBefore(event_queue, current_time)
                       /\ current_time \in Nat
  BY DEF Kept
<1>3. Processes = 1..n
  BY <1>2 DEF Good, RecordsOK, Processes
<1>4. Undisturbed
  BY <1>1, <1>2, StillUndisturbed
<1>5. PICK e \in Nat : OnCpu(e, 1..n)
  BY <1>3, <1>4 DEF CpuKept
<1>6. Processes' = 1..n
  BY <1>2, <1>3, TimesStay DEF SameTimes, Processes
<1>7. Len(gantt) < MaxGantt
  <2>1. gantt \in Seq(Entries(1..n)) /\ Len(gantt) \in Nat
    BY <1>5 DEF OnCpu, Served, ChartOK
  <2>2. CASE gantt' = gantt
    BY <1>1, <2>2
  <2>3. CASE \E s : gantt' = Append(gantt, s)
    <3>1. Len(gantt') = Len(gantt) + 1
      BY <2>1, <2>3
    <3>2. QED
      BY <1>1, <2>1, <3>1, EngineAssumption
  <2>4. QED
    BY <2>2, <2>3, ChartGoesOn
<1>8. Books(proc, running, waiting, event_queue, gantt, current_time, 1..n)
  BY <1>3, <1>4, <1>7 DEF BooksKept
<1>9. CASE ~Report
  <2>1. current_time' = Now
    BY <1>9 DEF Simulate, handle_arrival, handle_completion, handle_quantum_expire,
           handle_priority_boost, Handle
  <2>2. Books(proc', running', waiting', event_queue', gantt', Now, 1..n)
    BY <1>1, <1>2, <1>5, <1>7, <1>8, <1>9, HandlersBook
  <2>3. QED
    BY <1>6, <2>1, <2>2
<1>10. CASE Report
  <2>1. /\ proc' = proc /\ running' = running /\ waiting' = waiting /\ gantt' = gantt
        /\ event_queue' = event_queue /\ current_time' = current_time
    BY <1>5, <1>10, ReportIdle DEF Report
  <2>2. QED
    BY <1>6, <1>8, <2>1
<1>11. QED
  BY <1>9, <1>10

\* At the start of a simulation the chart is empty and everyone has the whole
\* burst left.
LEMMA BegunBooked ==
  ASSUME NEW n \in Nat, NEW pr \in [1..n -> Records], \A p \in 1..n : Fresh(pr[p]),
         NEW s, NEW q, NEW c, s = "mlfq" => c.boost_period \in Int, Begin(s, q, c, pr)
  PROVE  Books(proc, running, waiting, event_queue, gantt, current_time, Processes)'
<1>1. /\ proc' = pr /\ running' = None /\ waiting' = EmptyQueue(s, c.levels)
      /\ gantt' = <<>> /\ current_time' = 0 /\ Processes' = 1..n
  BY DEF Begin, Processes
<1>2. Arriving(event_queue') = 1..n
  <2>1. \A p \in 1..n : pr[p].remaining_time = pr[p].burst_time
    BY DEF Fresh
  <2>2. QED
    BY <2>1, BegunServed
<1>3. InQueue(waiting') = {}
  BY <1>1 DEF EmptyQueue, InQueue, ToSet
<1>4. ASSUME NEW p \in 1..n
      PROVE  /\ SegmentsIn(<<>>, p) = {} /\ TimeIn(<<>>, p) = 0
             /\ pr[p].remaining_time = pr[p].burst_time /\ pr[p].burst_time \in Nat
             /\ pr[p].priority = 0 /\ ~Started(pr[p])
  <2>1. SegmentsIn(<<>>, p) = {}
    BY DEF SegmentsIn
  <2>2. TimeIn(<<>>, p) = 0
    BY <2>1, SumSmall DEF TimeIn
  <2>3. QED
    BY <2>1, <2>2 DEF Fresh, Started, Records
<1>5. None \notin 1..n
  BY EngineAssumption
<1>6. Accounts(proc, gantt, 1..n, Arriving(event_queue), InQueue(waiting), running, current_time)'
  BY <1>1, <1>2, <1>3, <1>4, <1>5 DEF Accounts, Ledger, Done
<1>7. QED
  BY <1>1, <1>6 DEF Books

\* They agree in every state.
LEMMA BooksAlways == Spec => [](BooksKept /\ ReportedAtEnd)
<1>1. Init => BooksKept /\ ReportedAtEnd
  BY DEF Init, BooksKept, ReportedAtEnd, Books, Accounts, Processes
<1>2. Inv /\ CpuKept /\ BooksKept /\ ReportedAtEnd /\ [Next]_vars => (BooksKept /\ ReportedAtEnd)'
  <2> SUFFICES ASSUME Inv, CpuKept, BooksKept, ReportedAtEnd, [Next]_vars
               PROVE  BooksKept' /\ ReportedAtEnd'
    OBVIOUS
  <2>1. CASE UNCHANGED engine
    BY <2>1 DEF BooksKept, ReportedAtEnd, Books, Accounts, Ledger, Processes, Undisturbed,
         engine, settings
  <2>2. CASE phase = "simulate" /\ Simulate
    <3>1. BooksKept'
      BY <2>2, SimulateBooks DEF Inv, Empty
    <3>2. ReportedAtEnd'
      BY <2>2 DEF ReportedAtEnd, Simulate, handle_arrival, handle_completion,
         handle_quantum_expire, handle_priority_boost, Handle, Report
    <3>3. QED
      BY <3>1, <3>2
  <2>3. CASE \E s \in AlgorithmNames : \E q, c : Run(s, q, c) /\ StartOK(s, q, c)
    <3>1. PICK s, q, c : Run(s, q, c) /\ StartOK(s, q, c)
      BY <2>3
    <3>2. PICK n \in Nat : /\ CopiedProcesses \in [1..n -> Records]
                           /\ \A p \in 1..n : Fresh(CopiedProcesses[p])
      BY Copied DEF Inv
    <3>3. Begin(s, q, c, CopiedProcesses) /\ reported' = FALSE
      BY <3>1 DEF Run, Begin
    <3>4. Books(proc, running, waiting, event_queue, gantt, current_time, Processes)'
      BY <3>1, <3>2, <3>3, BegunBooked DEF StartOK
    <3>5. QED
      BY <3>3, <3>4 DEF BooksKept, ReportedAtEnd
  <2>4. QED
    BY <2>1, <2>2, <2>3, Steps DEF Inv
<1>3. QED
  BY <1>1, <1>2, InvAlways, CpuAlways, PTL DEF Spec

\* At the end everyone has had his burst.
LEMMA DoneAtEnd ==
  ASSUME Inv, CpuKept, BooksKept, ReportedAtEnd, Len(gantt) < MaxGantt, Undisturbed, reported
  PROVE  \A p \in Processes : Done(proc[p]) /\ Ledger(proc[p], gantt, p)
<1>1. PICK e \in Nat : OnCpu(e, Processes)
  BY DEF CpuKept
<1>2. Accounts(proc, gantt, Processes, Arriving(event_queue), InQueue(waiting), running, current_time)
  BY DEF BooksKept, Books
<1>3. Len(event_queue) = 0
  BY DEF ReportedAtEnd
<1>4. running = None /\ IsEmpty(waiting)
  BY <1>1, <1>3 DEF OnCpu, Served, EndsAt
<1>5. Arriving(event_queue) = {} /\ InQueue(waiting) = {}
  BY <1>3, <1>4 DEF Arriving, IsEmpty, InQueue, ToSet
<1>6. None \notin Processes
  <2>1. Processes \subseteq Nat
    BY DEF Inv, Empty, Kept, Good, RecordsOK, Processes
  <2>2. QED
    BY <2>1, EngineAssumption
<1>7. QED
  BY <1>2, <1>4, <1>5, <1>6 DEF Accounts

\* One CPU, and honest books: the segments of the chart follow each other, each
\* process has on it what it has been charged, never more than its burst, and
\* the reported metrics are those of the chart: everyone has had the whole burst,
\* started at the first segment, finished at the end of the last and waited in
\* between (simulator.c 113-153, metrics.c 7-21), as long as the chart, which
\* drops what does not fit, is not full (gantt.c 8-10).
THEOREM BooksMatchChart == Spec => [](Len(gantt) < MaxGantt => MetricsMatchChart)
<1>1. Inv /\ CpuKept /\ BooksKept /\ ReportedAtEnd /\ Len(gantt) < MaxGantt => MetricsMatchChart
  <2> SUFFICES ASSUME Inv, CpuKept, BooksKept, ReportedAtEnd, Len(gantt) < MaxGantt, Undisturbed
               PROVE  /\ \A k \in 2..Len(gantt) : gantt[k - 1].end <= gantt[k].start
                      /\ \A p \in Processes :
                           /\ TimeServed(p) = proc[p].burst_time - proc[p].remaining_time
                           /\ proc[p].remaining_time >= 0
                           /\ reported =>
                                /\ proc[p].remaining_time = 0
                                /\ ResponseTime(p) >= 0 /\ WaitingTime(p) >= 0
                                /\ Segments(p) # {} =>
                                     /\ proc[p].finish_time = LastRun(p).end
                                     /\ proc[p].start_time = gantt[Min(Segments(p))].start
                                     /\ WaitingTime(p) = TurnaroundTime(p) - TimeServed(p)
    BY DEF MetricsMatchChart
  <2>1. PICK e \in Nat : OnCpu(e, Processes)
    BY DEF CpuKept
  <2>2. \A k \in 2..Len(gantt) : gantt[k - 1].end <= gantt[k].start
    BY <2>1 DEF OnCpu, Served, ChartOK
  <2>3. Accounts(proc, gantt, Processes, Arriving(event_queue), InQueue(waiting), running, current_time)
    BY DEF BooksKept, Books
  <2>4. \A p \in Processes : Segments(p) = SegmentsIn(gantt, p) /\ TimeServed(p) = TimeIn(gantt, p)
    BY DEF Segments, SegmentsIn, TimeServed, SegmentTimes, TimeIn
  <2>5. \A p \in Processes : proc[p] \in Records
    <3>1. CASE Empty
      BY <3>1 DEF Empty, Processes
    <3>2. CASE Kept
      BY <3>2 DEF Kept, Good, RecordsOK, Processes
    <3>3. QED
      BY <3>1, <3>2 DEF Inv
  <2>6. reported => \A p \in Processes : Done(proc[p])
    BY DoneAtEnd
  <2>7. SUFFICES ASSUME NEW p \in Processes
                 PROVE  /\ TimeIn(gantt, p) = proc[p].burst_time - proc[p].remaining_time
                        /\ proc[p].remaining_time >= 0
                        /\ reported =>
                             /\ proc[p].remaining_time = 0
                             /\ ResponseTime(p) >= 0 /\ WaitingTime(p) >= 0
                             /\ SegmentsIn(gantt, p) # {} =>
                                  /\ proc[p].finish_time = gantt[Max(SegmentsIn(gantt, p))].end
                                  /\ proc[p].start_time = gantt[Min(SegmentsIn(gantt, p))].start
                                  /\ WaitingTime(p) = TurnaroundTime(p) - TimeIn(gantt, p)
    BY <2>2, <2>4 DEF LastRun
  <2>8. Ledger(proc[p], gantt, p)
    BY <2>3 DEF Accounts
  <2>9. /\ proc[p].remaining_time \in Nat /\ proc[p].burst_time \in Nat
        /\ proc[p].arrival_time \in Nat /\ proc[p].start_time \in Int /\ proc[p].finish_time \in Int
    BY <2>5 DEF Records
  <2>10. TimeIn(gantt, p) = proc[p].burst_time - proc[p].remaining_time
    BY <2>8 DEF Ledger
  <2>11. ASSUME reported
         PROVE  /\ proc[p].remaining_time = 0
                /\ ResponseTime(p) >= 0 /\ WaitingTime(p) >= 0
                /\ SegmentsIn(gantt, p) # {} =>
                     /\ proc[p].finish_time = gantt[Max(SegmentsIn(gantt, p))].end
                     /\ proc[p].start_time = gantt[Min(SegmentsIn(gantt, p))].start
                     /\ WaitingTime(p) = TurnaroundTime(p) - TimeIn(gantt, p)
    <3>1. Done(proc[p]) /\ Started(proc[p]) /\ proc[p].remaining_time = 0
      BY <2>6, <2>11 DEF Done
    <3>2. /\ proc[p].start_time >= proc[p].arrival_time
          /\ proc[p].finish_time >= proc[p].arrival_time + proc[p].burst_time
          /\ SegmentsIn(gantt, p) # {} =>
               /\ proc[p].finish_time = gantt[Max(SegmentsIn(gantt, p))].end
               /\ proc[p].start_time = gantt[Min(SegmentsIn(gantt, p))].start
      BY <2>8, <3>1 DEF Ledger
    <3>3. ResponseTime(p) >= 0
      BY <2>9, <3>2 DEF ResponseTime
    <3>4. WaitingTime(p) >= 0
      BY <2>9, <3>2 DEF WaitingTime, TurnaroundTime
    <3>5. WaitingTime(p) = TurnaroundTime(p) - TimeIn(gantt, p)
      <4>1. TimeIn(gantt, p) = proc[p].burst_time
        BY <2>9, <2>10, <3>1
      <4>2. QED
        BY <4>1 DEF WaitingTime
    <3>6. QED
      BY <3>1, <3>2, <3>3, <3>4, <3>5
  <2>12. QED
    BY <2>9, <2>10, <2>11
<1>2. QED
  BY <1>1, InvAlways, CpuAlways, BooksAlways, PTL

-----------------------------------------------------------------------------
\* The order of FCFS and SJF.

\* R holds between one arrival and every later one in the queue.
ArriveInTurn(q, R) ==
  \A j, k \in 1..Len(q) :
    j < k /\ q[j].type = "ARRIVAL" /\ q[k].type = "ARRIVAL" => <<q[j].process, q[k].process>> \in R

\* An event that goes, or one that comes and is no arrival, leaves it so.
LEMMA TurnStays ==
  ASSUME NEW S, NEW q \in Seq(S), NEW R, ArriveInTurn(q, R)
  PROVE  /\ q # <<>> => /\ ArriveInTurn(Tail(q), R)
                        /\ q[1].type = "ARRIVAL" =>
                             \A b \in Arriving(Tail(q)) : <<q[1].process, b>> \in R
         /\ \A e \in S : \A pr, b : e.type # "ARRIVAL" => ArriveInTurn(EnqueueEvent(q, e, pr, b), R)
<1>1. ASSUME q # <<>>
      PROVE  /\ ArriveInTurn(Tail(q), R)
             /\ q[1].type = "ARRIVAL" => \A b \in Arriving(Tail(q)) : <<q[1].process, b>> \in R
  <2> DEFINE t == Tail(q)
  <2>1. t \in Seq(S) /\ Removed(t, q, 1) /\ Len(q) \in Nat \ {0}
    BY <1>1, TailRemoves
  <2> HIDE DEF t
  <2>2. \A j \in 1..Len(t) : j + 1 \in 1..Len(q) /\ t[j] = q[j + 1] /\ 1 < j + 1
    BY <2>1 DEF Removed
  <2>3. ArriveInTurn(t, R)
    <3>1. SUFFICES ASSUME NEW j \in 1..Len(t), NEW k \in 1..Len(t),
                          j < k, t[j].type = "ARRIVAL", t[k].type = "ARRIVAL"
                   PROVE  <<t[j].process, t[k].process>> \in R
      BY DEF ArriveInTurn
    <3>2. j + 1 < k + 1
      BY <3>1
    <3>3. QED
      BY <2>2, <3>1, <3>2 DEF ArriveInTurn
  <2>4. ASSUME q[1].type = "ARRIVAL", NEW b \in Arriving(t)
        PROVE  <<q[1].process, b>> \in R
    <3>1. PICK j \in 1..Len(t) : t[j].type = "ARRIVAL" /\ t[j].process = b
      BY <2>4 DEF Arriving
    <3>2. 1 \in 1..Len(q)
      BY <2>1
    <3>3. QED
      BY <2>2, <2>4, <3>1, <3>2 DEF ArriveInTurn
  <2>5. QED
    BY <2>3, <2>4 DEF t
<1>2. ASSUME NEW e \in S, NEW pr, NEW b, e.type # "ARRIVAL"
      PROVE  ArriveInTurn(EnqueueEvent(q, e, pr, b), R)
  <2> DEFINE t == EnqueueEvent(q, e, pr, b)
  <2>1. PICK i \in 1..(Len(q) + 1) : t \in Seq(S) /\ Inserted(t, q, i, e)
    BY EnqueuedAt
  <2> HIDE DEF t
  <2> DEFINE from(j) == IF j < i THEN j ELSE j - 1
  <2>2. \A j \in 1..Len(t) : j # i => from(j) \in 1..Len(q) /\ t[j] = q[from(j)]
    BY <2>1, InsertedFrom
  <2>3. t[i] = e
    BY <2>1 DEF Inserted
  <2>4. \A j, k \in 1..Len(t) : j < k /\ j # i /\ k # i => from(j) < from(k)
    BY <2>1
  <2> HIDE DEF from
  <2>5. SUFFICES ASSUME NEW j \in 1..Len(t), NEW k \in 1..Len(t),
                        j < k, t[j].type = "ARRIVAL", t[k].type = "ARRIVAL"
                 PROVE  <<t[j].process, t[k].process>> \in R
    BY DEF ArriveInTurn, t
  <2>6. j # i /\ k # i
    BY <1>2, <2>3, <2>5
  <2>7. QED
    BY <2>2, <2>4, <2>5, <2>6 DEF ArriveInTurn
<1>3. QED
  BY <1>1, <1>2

\* p arrives before q, or at the same time and is before it in the workload.
Earlier(pr, p, q) ==
  \/ pr[p].arrival_time < pr[q].arrival_time
  \/ pr[p].arrival_time = pr[q].arrival_time /\ p < q
EarlierIn(pr, P) == {x \in P \X P : Earlier(pr, x[1], x[2])}

\* Under FCFS the arrivals are planned in that order.
LEMMA ArrivalsInTurn ==
  ASSUME NEW n \in Nat, NEW pr \in [1..n -> Records]
  PROVE  ArriveInTurn(ArrivalEvents(pr, FALSE), EarlierIn(pr, 1..n))
<1> DEFINE P == 1..n
           R == EarlierIn(pr, P)
           arrival(m) == Event(pr[m].arrival_time, "ARRIVAL", m)
<1>1. \A m \in P : /\ arrival(m) \in EventsOf(P) /\ arrival(m).type = "ARRIVAL"
                   /\ arrival(m).process = m /\ arrival(m).time = pr[m].arrival_time
                   /\ pr[m].arrival_time \in Nat
  BY DEF Event, EventsOf, EventTypes, Records
<1>2. PICK queue :
        /\ queue[0] = <<>> /\ ArrivalEvents(pr, FALSE) = queue[n]
        /\ \A m \in P : queue[m] = EnqueueEvent(queue[m - 1], arrival(m), pr, FALSE)
  BY ArrivalsUnfold
<1> HIDE DEF arrival
<1> DEFINE Ok(m) == /\ queue[m] \in Seq(EventsOf(P)) /\ InOrder(queue[m])
                    /\ \A k \in 1..Len(queue[m]) : \E x \in 1..m : queue[m][k] = arrival(x)
                    /\ ArriveInTurn(queue[m], R)
           T == {m \in Nat : m <= n => Ok(m)}
<1>3. 0 \in T
  <2>1. <<>> \in Seq(EventsOf(P)) /\ InOrder(<<>>) /\ ArriveInTurn(<<>>, R) /\ Len(<<>>) = 0
    BY DEF InOrder, ArriveInTurn
  <2>2. Ok(0)
    BY <1>2, <2>1
  <2> HIDE DEF Ok
  <2>3. QED
    BY <2>2
<1>4. ASSUME NEW m \in Nat, m \in T PROVE m + 1 \in T
  <2> DEFINE x == m + 1
             s == queue[m]
             t == queue[x]
  <2>1. SUFFICES ASSUME x <= n PROVE Ok(x)
    OBVIOUS
  <2>2. x \in P /\ x - 1 = m /\ Ok(m) /\ \A y \in 1..m : y < x /\ y \in P
    BY <1>4, <2>1
  <2>3. t = EnqueueEvent(s, arrival(x), pr, FALSE)
    BY <1>2, <2>2
  <2> HIDE DEF x, s, t
  <2>4. /\ s \in Seq(EventsOf(P)) /\ InOrder(s) /\ ArriveInTurn(s, R)
        /\ \A k \in 1..Len(s) : \E y \in 1..m : s[k] = arrival(y)
    BY <2>2 DEF s
  <2> HIDE DEF Ok, R, T
  <2>5. InOrder(t)
    BY <1>1, <2>2, <2>3, <2>4, EnqueuedInOrder
  <2>6. PICK i \in 1..(Len(s) + 1) :
          /\ t \in Seq(EventsOf(P)) /\ Inserted(t, s, i, arrival(x))
          /\ i <= Len(s) => Precedes(arrival(x), s[i], pr, FALSE)
          /\ \A j \in 1..(i - 1) : ~Precedes(arrival(x), s[j], pr, FALSE)
    BY <1>1, <2>2, <2>3, <2>4, EnqueuedAt
  <2> DEFINE from(j) == IF j < i THEN j ELSE j - 1
  <2>7. \A j \in 1..Len(t) : j # i => from(j) \in 1..Len(s) /\ t[j] = s[from(j)]
    BY <2>4, <2>6, InsertedFrom
  <2>8. t[i] = arrival(x) /\ Len(t) = Len(s) + 1 /\ Len(s) \in Nat
    BY <2>4, <2>6 DEF Inserted
  <2>9. \A k \in 1..Len(t) : \E y \in 1..x : t[k] = arrival(y)
    BY <2>2, <2>4, <2>7, <2>8
  <2>10. ArriveInTurn(t, R)
    <3>1. SUFFICES ASSUME NEW j \in 1..Len(t), NEW k \in 1..Len(t), j < k
                   PROVE  <<t[j].process, t[k].process>> \in R
      BY DEF ArriveInTurn
    <3>2. CASE j # i /\ k # i
      <4>1. from(j) < from(k)
        BY <2>8, <3>1, <3>2
      <4> HIDE DEF from
      <4>2. s[from(j)].type = "ARRIVAL" /\ s[from(k)].type = "ARRIVAL"
        BY <1>1, <2>2, <2>4, <2>7, <3>2
      <4>3. QED
        BY <2>4, <2>7, <3>2, <4>1, <4>2 DEF ArriveInTurn
    <3>3. CASE k = i
      <4>1. j \in 1..(i - 1) /\ j \in 1..Len(s) /\ t[j] = s[j]
        BY <2>6, <2>8, <3>1, <3>3 DEF Inserted
      <4>2. PICK y \in 1..m : s[j] = arrival(y)
        BY <2>4, <4>1
      <4>3. ~(pr[x].arrival_time < pr[y].arrival_time)
        BY <1>1, <2>2, <2>6, <4>1, <4>2 DEF Precedes
      <4>4. y \in P /\ x \in P /\ y < x /\ pr[y].arrival_time <= pr[x].arrival_time
        BY <1>1, <2>2, <4>3
      <4>5. <<y, x>> \in R
        BY <1>1, <4>4 DEF R, EarlierIn, Earlier
      <4>6. QED
        BY <1>1, <2>8, <3>3, <4>1, <4>2, <4>4, <4>5
    <3>4. CASE j = i
      <4>1. k - 1 \in 1..Len(s) /\ t[k] = s[k - 1] /\ i \in 1..Len(s) /\ i <= k - 1
        BY <2>7, <2>8, <3>1, <3>4
      <4>2. PICK y \in 1..m : s[k - 1] = arrival(y)
        BY <2>4, <4>1
      <4>3. pr[x].arrival_time < s[i].time
        BY <1>1, <2>2, <2>6, <4>1 DEF Precedes
      <4>4. s[i].time <= pr[y].arrival_time /\ s[i].time \in Nat
        <5>1. s[i].time <= s[k - 1].time
          BY <2>4, <4>1 DEF InOrder
        <5>2. s[i].time \in Nat
          BY <2>4, <4>1 DEF EventsOf
        <5>3. s[k - 1].time = pr[y].arrival_time
          BY <1>1, <2>2, <4>2
        <5>4. QED
          BY <5>1, <5>2, <5>3
      <4>5. pr[x].arrival_time < pr[y].arrival_time
        BY <1>1, <2>2, <4>3, <4>4
      <4>6. y \in P /\ x \in P
        BY <2>2
      <4>7. <<x, y>> \in R
        BY <4>5, <4>6 DEF R, EarlierIn, Earlier
      <4>8. QED
        BY <1>1, <2>8, <3>4, <4>1, <4>2, <4>6, <4>7
    <3>5. QED
      BY <3>2, <3>3, <3>4
  <2>11. QED
    BY <2>5, <2>6, <2>9, <2>10 DEF Ok, t
<1>5. Ok(n)
  <2>1. n \in T
    <3> HIDE DEF T
    <3>1. QED
      BY <1>3, <1>4, NatSetInduction
  <2> HIDE DEF Ok
  <2>2. QED
    BY <2>1
<1>6. QED
  BY <1>2, <1>5

\* Neither is preempted: each has one list and runs a process to its end.
Plain == scheduler \in {"fcfs", "sjf"}
NoExpiry(q) == \A k \in 1..Len(q) : q[k].type # "QUANTUM_EXPIRE"

\* Like STCF, the plain algorithms have one list, and take its head.
LEMMA OneList ==
  ASSUME Plain \/ scheduler = "stcf", NEW P, NEW w \in Lists(ListCount, P)
  PROVE  /\ w[1] \in Seq(P) /\ InQueue(w) = ToSet(w[1]) /\ w # <<>>
         /\ IsEmpty(w) <=> w[1] = <<>>
         /\ ~IsEmpty(w) => /\ Taken(scheduler, w) = Head(w[1])
                           /\ Left(scheduler, w)[1] = Tail(w[1])
<1>1. ListCount = 1 /\ scheduler # "rr"
  BY DEF Plain, ListCount, NumLists
<1>2. DOMAIN w = {1} /\ w[1] \in Seq(P)
  BY <1>1 DEF Lists
<1>3. InQueue(w) = ToSet(w[1]) /\ (IsEmpty(w) <=> w[1] = <<>>)
  BY <1>2 DEF InQueue, IsEmpty
<1>4. w # <<>>
  <2>1. DOMAIN <<>> = {}
    OBVIOUS
  <2>2. QED
    BY <1>2, <2>1
<1>5. ASSUME ~IsEmpty(w)
      PROVE  Taken(scheduler, w) = Head(w[1]) /\ Left(scheduler, w)[1] = Tail(w[1])
  <2>1. Turned(scheduler, w) = w
    BY <1>1 DEF Turned
  <2>2. {k \in DOMAIN w : w[k] # <<>>} = {1}
    BY <1>2, <1>3, <1>5
  <2>3. FirstList(w) = 1
    <3>1. Min({1}) = 1
      BY DEF Min
    <3>2. QED
      BY <2>2, <3>1 DEF FirstList
  <2>4. QED
    BY <1>2, <2>1, <2>3 DEF Taken, Left
<1>6. QED
  BY <1>2, <1>3, <1>4, <1>5

\* What a step of the simulator may be.
LEMMA PlainStep ==
  ASSUME Plain, NEW n \in Nat, Good(proc, running, waiting, event_queue, 1..n),
         NEW e \in Nat, OnCpu(e, 1..n), NoExpiry(event_queue), Simulate
  PROVE  \/ /\ proc' = proc /\ waiting' = waiting /\ gantt' = gantt
            /\ event_queue' = event_queue /\ current_time' = current_time
         \/ /\ event_queue # <<>> /\ current_time' = Now
            /\ \/ /\ Head(event_queue).type = "ARRIVAL" /\ IsEmpty(waiting)
                  /\ Dispatch(Subject, proc, waiting, Tail(event_queue))
               \/ /\ Head(event_queue).type = "ARRIVAL"
                  /\ waiting' = Enqueue(scheduler, waiting, Subject, proc)
                  /\ event_queue' = Tail(event_queue)
                  /\ proc' = proc /\ gantt' = gantt
               \/ /\ Head(event_queue).type = "COMPLETION" /\ ~IsEmpty(waiting)
                  /\ Dispatch(Taken(scheduler, waiting), FinishRunning(Now),
                              Left(scheduler, waiting), Tail(event_queue))
               \/ /\ Head(event_queue).type = "COMPLETION"
                  /\ waiting' = waiting /\ event_queue' = Tail(event_queue)
                  /\ proc' = FinishRunning(Now) /\ gantt' = gantt
<1>1. event_queue \in Seq(Planned(proc, 1..n)) /\ (running = None => IsEmpty(waiting))
  BY DEF OnCpu, Served
<1>2. event_queue # <<>> =>
        /\ Head(event_queue).type # "PRIORITY_BOOST" /\ Head(event_queue).type # "QUANTUM_EXPIRE"
  <2> SUFFICES ASSUME event_queue # <<>>
               PROVE  /\ Head(event_queue).type # "PRIORITY_BOOST"
                      /\ Head(event_queue).type # "QUANTUM_EXPIRE"
    OBVIOUS
  <2>1. /\ Len(event_queue) \in Nat \ {0} /\ Head(event_queue) = event_queue[1]
        /\ Head(event_queue) \in Planned(proc, 1..n)
    BY <1>1, TailRemoves
  <2>2. QED
    BY <2>1 DEF NoExpiry, Planned, PlannedFor, Plain
<1>3. CASE handle_arrival
  BY <1>1, <1>3 DEF handle_arrival, Handle, ArrivalDispatches, ArrivalPreempts, ArrivalWaits,
                    Preempts, Plain
<1>4. CASE handle_completion
  BY <1>4 DEF handle_completion, Handle, DispatchNext
<1>5. CASE handle_quantum_expire
  BY <1>2, <1>5 DEF handle_quantum_expire, Handle
<1>6. CASE handle_priority_boost
  BY <1>2, <1>6 DEF handle_priority_boost, Handle
<1>7. CASE Report
  BY <1>7, ReportIdle DEF Report
<1>8. QED
  BY <1>3, <1>4, <1>5, <1>6, <1>7 DEF Simulate

\* The chart h is g, or shows besides that p starts now.
Shows(h, g, p) ==
  \/ h = g
  \/ \E end : h = Append(g, [name |-> p, start |-> Now, end |-> end])

\* A process that gets the CPU starts now and runs to its end.
LEMMA PlainDispatch ==
  ASSUME Plain, NEW n \in Nat, NEW pr, RecordsOK(pr, 1..n), NEW p \in 1..n,
         NEW q \in Seq(EventsOf(1..n)), Now \in Nat, NEW w, Dispatch(p, pr, w, q)
  PROVE  /\ waiting' = w /\ Shows(gantt', gantt, p)
         /\ \E f \in EventsOf(1..n) : \E b :
              f.type = "COMPLETION" /\ event_queue' = EnqueueEvent(q, f, proc', b)
         /\ DOMAIN proc' = 1..n /\ proc'[p].start_time = Now
         /\ proc'[p].arrival_time = pr[p].arrival_time /\ proc'[p].burst_time = pr[p].burst_time
         /\ \A x \in (1..n) \ {p} : proc'[x] = pr[x]
<1> DEFINE run == RunTime(pr[p], Now, q)
           f == Event(Now + run, "COMPLETION", p)
<1>1. pr[p] \in Records /\ DOMAIN pr = 1..n
  BY DEF RecordsOK
<1>2. run = pr[p].remaining_time /\ run \in Nat
  BY <1>1 DEF RunTime, Plain, Records
<1>3. /\ waiting' = w /\ gantt' = Drawn(p, run)
      /\ proc' = [pr EXCEPT ![p] = Charged(@, Now, run)]
      /\ event_queue' = EnqueueEvent(q,
           Event(Now + run, IF proc'[p].remaining_time = 0 THEN "COMPLETION"
                                                           ELSE "QUANTUM_EXPIRE", p),
           proc', SortsByRemaining(scheduler))
  BY DEF Dispatch
<1> HIDE DEF run
<1>4. /\ DOMAIN proc' = 1..n /\ proc'[p] = Charged(pr[p], Now, run)
      /\ \A x \in (1..n) \ {p} : proc'[x] = pr[x]
  BY <1>1, <1>3
<1>5. /\ Charged(pr[p], Now, run).start_time = Now
      /\ Charged(pr[p], Now, run).arrival_time = pr[p].arrival_time
      /\ Charged(pr[p], Now, run).burst_time = pr[p].burst_time
      /\ Charged(pr[p], Now, run).remaining_time = 0
  BY <1>1, <1>2 DEF Charged, Records, Plain
<1>6. f \in EventsOf(1..n) /\ f.type = "COMPLETION"
  BY <1>2 DEF Event, EventsOf, EventTypes
<1>7. event_queue' = EnqueueEvent(q, f, proc', SortsByRemaining(scheduler))
  BY <1>3, <1>4, <1>5
<1>8. Shows(gantt', gantt, p)
  BY <1>3 DEF Drawn, Shows
<1> HIDE DEF f
<1>9. QED
  BY <1>3, <1>4, <1>5, <1>6, <1>7, <1>8

\* R holds between one element of the sequence and every later one.
Ascends(s, R) == \A j, k \in 1..Len(s) : j < k => <<s[j], s[k]>> \in R

\* Its head can go, and one that comes after all of it can be appended.
LEMMA AscendsStill ==
  ASSUME NEW P, NEW s \in Seq(P), NEW R, Ascends(s, R)
  PROVE  /\ s # <<>> => /\ Ascends(Tail(s), R)
                        /\ \A y \in ToSet(Tail(s)) : <<Head(s), y>> \in R
         /\ \A p \in P : (\A y \in ToSet(s) : <<y, p>> \in R) => Ascends(Append(s, p), R)
<1>1. ASSUME s # <<>>
      PROVE  Ascends(Tail(s), R) /\ \A y \in ToSet(Tail(s)) : <<Head(s), y>> \in R
  <2> DEFINE t == Tail(s)
  <2>1. t \in Seq(P) /\ Removed(t, s, 1) /\ Len(s) \in Nat \ {0} /\ Head(s) = s[1]
    BY <1>1, TailRemoves
  <2> HIDE DEF t
  <2>2. \A j \in 1..Len(t) : j + 1 \in 1..Len(s) /\ t[j] = s[j + 1] /\ 1 < j + 1
    BY <2>1 DEF Removed
  <2>3. Ascends(t, R)
    <3>1. SUFFICES ASSUME NEW j \in 1..Len(t), NEW k \in 1..Len(t), j < k
                   PROVE  <<t[j], t[k]>> \in R
      BY DEF Ascends
    <3>2. j + 1 < k + 1
      BY <3>1
    <3>3. QED
      BY <2>2, <3>2 DEF Ascends
  <2>4. ASSUME NEW y \in ToSet(t) PROVE <<s[1], y>> \in R
    <3>1. PICK j \in 1..Len(t) : t[j] = y
      BY <2>1 DEF ToSet
    <3>2. 1 \in 1..Len(s)
      BY <2>1
    <3>3. QED
      BY <2>2, <3>1, <3>2 DEF Ascends
  <2>5. QED
    BY <2>1, <2>3, <2>4 DEF t
<1>2. ASSUME NEW p \in P, \A y \in ToSet(s) : <<y, p>> \in R
      PROVE  Ascends(Append(s, p), R)
  <2> DEFINE t == Append(s, p)
  <2>1. /\ t \in Seq(P) /\ Len(t) = Len(s) + 1 /\ t[Len(s) + 1] = p /\ Len(s) \in Nat
        /\ \A j \in 1..Len(s) : t[j] = s[j]
    BY AppendProperties
  <2> HIDE DEF t
  <2>2. SUFFICES ASSUME NEW j \in 1..Len(t), NEW k \in 1..Len(t), j < k
                 PROVE  <<t[j], t[k]>> \in R
    BY DEF Ascends, t
  <2>3. j \in 1..Len(s) /\ t[j] = s[j] /\ s[j] \in ToSet(s)
    BY <2>1, <2>2 DEF ToSet
  <2>4. CASE k \in 1..Len(s)
    BY <2>1, <2>2, <2>3, <2>4 DEF Ascends
  <2>5. CASE k = Len(s) + 1
    BY <1>2, <2>1, <2>3, <2>5
  <2>6. QED
    BY <2>1, <2>4, <2>5
<1>3. QED
  BY <1>1, <1>2

\* x's burst is not longer than y's.
NoLonger(pr, P) == {x \in P \X P : pr[x[1]].burst_time <= pr[x[2]].burst_time}

\* The list of SJF is kept in the order of the bursts.
LEMMA SortedByBurst ==
  ASSUME NEW P, NEW pr, \A x \in P : pr[x].burst_time \in Nat,
         NEW w, DOMAIN w = {1}, NEW s \in Seq(P), w[1] = s, Ascends(s, NoLonger(pr, P)),
         NEW p \in P
  PROVE  Ascends(ByBurst(w, p, pr)[1], NoLonger(pr, P))
<1> DEFINE T == {k \in 1..Len(s) : pr[p].burst_time < pr[s[k]].burst_time}
           i == Place(T, Len(s))
           t == InsertAt(s, i, p)
           R == NoLonger(pr, P)
<1>1. Len(s) \in Nat /\ T \subseteq 1..Len(s) /\ DOMAIN s = 1..Len(s)
  OBVIOUS
<1>2. ByBurst(w, p, pr)[1] = t
  BY DEF ByBurst, InsertBeforeFirst, SelectInSeq, Place
<1>3. /\ i \in 1..(Len(s) + 1)
      /\ i <= Len(s) => i \in T
      /\ \A j \in 1..(i - 1) : j \notin T
  <2> HIDE DEF T
  <2>1. QED
    BY <1>1, PlaceOfInsertion
<1>4. i <= Len(s) => pr[p].burst_time < pr[s[i]].burst_time
  BY <1>3
<1>5. \A j \in 1..(i - 1) : j \in 1..Len(s) /\ ~(pr[p].burst_time < pr[s[j]].burst_time)
  <2>1. \A j \in 1..(i - 1) : j \in 1..Len(s)
    <3> HIDE DEF i
    <3>1. QED
      BY <1>1, <1>3
  <2>2. QED
    BY <1>3, <2>1
<1> HIDE DEF i, T
<1>6. t \in Seq(P) /\ Inserted(t, s, i, p)
  <2>1. i \in 1..(Len(s) + 1)
    BY <1>3
  <2>2. /\ InsertAt(s, i, p) \in Seq(P)
        /\ Len(InsertAt(s, i, p)) = Len(s) + 1
        /\ InsertAt(s, i, p)[i] = p
        /\ \A j \in 1..(i - 1) : InsertAt(s, i, p)[j] = s[j]
        /\ \A j \in (i + 1)..(Len(s) + 1) : InsertAt(s, i, p)[j] = s[j - 1]
    BY <2>1, InsertedAt
  <2>3. QED
    BY <2>2 DEF Inserted
<1> HIDE DEF t
<1> DEFINE from(j) == IF j < i THEN j ELSE j - 1
<1>7. \A j \in 1..Len(t) : j # i => from(j) \in 1..Len(s) /\ t[j] = s[from(j)]
  BY <1>3, <1>6, InsertedFrom
<1>8. t[i] = p /\ Len(t) = Len(s) + 1
  BY <1>6 DEF Inserted
<1>9. \A k \in 1..Len(s) : s[k] \in P /\ pr[s[k]].burst_time \in Nat
  OBVIOUS
<1>10. SUFFICES ASSUME NEW j \in 1..Len(t), NEW k \in 1..Len(t), j < k
                PROVE  <<t[j], t[k]>> \in R
  BY <1>2 DEF Ascends
<1>11. CASE j # i /\ k # i
  <2>1. from(j) < from(k)
    BY <1>1, <1>3, <1>8, <1>10, <1>11
  <2> HIDE DEF from, R
  <2>2. QED
    BY <1>7, <1>11, <2>1 DEF Ascends, R
<1>12. CASE k = i
  <2>1. j \in 1..(i - 1) /\ t[j] = s[j] /\ j \in 1..Len(s)
    BY <1>3, <1>5, <1>6, <1>8, <1>10, <1>12 DEF Inserted
  <2>2. pr[s[j]].burst_time <= pr[p].burst_time
    BY <1>5, <1>9, <2>1
  <2>3. QED
    BY <1>8, <1>9, <1>12, <2>1, <2>2 DEF NoLonger
<1>13. CASE j = i
  <2>1. k - 1 \in 1..Len(s) /\ t[k] = s[k - 1] /\ i \in 1..Len(s) /\ i <= k - 1
    BY <1>1, <1>3, <1>7, <1>8, <1>10, <1>13
  <2>2. pr[p].burst_time < pr[s[i]].burst_time
    BY <1>4, <2>1
  <2>3. pr[s[i]].burst_time <= pr[s[k - 1]].burst_time
    <3>1. CASE i = k - 1
      BY <1>9, <2>1, <3>1
    <3>2. CASE i < k - 1
      <4>1. <<s[i], s[k - 1]>> \in NoLonger(pr, P)
        BY <2>1, <3>2 DEF Ascends
      <4>2. QED
        BY <4>1 DEF NoLonger
    <3>3. QED
      BY <2>1, <3>1, <3>2
  <2>4. pr[p].burst_time <= pr[s[k - 1]].burst_time
    BY <1>9, <2>1, <2>2, <2>3
  <2>5. QED
    BY <1>8, <1>9, <1>13, <2>1, <2>4 DEF NoLonger
<1>14. QED
  BY <1>11, <1>12, <1>13

\* The chart shows the processes in the order R, all of them before those in X.
InLine(g, X, R) ==
  /\ \A j, k \in 1..Len(g) : j < k => <<g[j].name, g[k].name>> \in R
  /\ \A k \in 1..Len(g) : \A x \in X : <<g[k].name, x>> \in R

\* So it does when the first in X is shown.
LEMMA NextInLine ==
  ASSUME NEW P, NEW g \in Seq(Entries(P)), NEW X \in SUBSET P, NEW R, InLine(g, X, R),
         NEW p \in X, NEW Y \in SUBSET X, \A y \in Y : <<p, y>> \in R,
         NEW h, Now \in Nat, Shows(h, g, p)
  PROVE  InLine(h, Y, R)
<1>1. CASE h = g
  BY <1>1 DEF InLine
<1>2. CASE \E end : h = Append(g, [name |-> p, start |-> Now, end |-> end])
  <2>1. PICK end : h = Append(g, [name |-> p, start |-> Now, end |-> end])
    BY <1>2
  <2> DEFINE s == [name |-> p, start |-> Now, end |-> end]
  <2>2. s.name = p
    OBVIOUS
  <2>3. Len(g) \in Nat
    OBVIOUS
  <2> HIDE DEF s
  <2>4. h = Append(g, s)
    BY <2>1 DEF s
  <2>5. Len(h) = Len(g) + 1 /\ h[Len(g) + 1] = s /\ \A j \in 1..Len(g) : h[j] = g[j]
    BY <2>3, <2>4
  <2>6. \A k \in 1..Len(h) : k \in 1..Len(g) \/ k = Len(g) + 1
    BY <2>3, <2>5
  <2>7. ASSUME NEW j \in 1..Len(h), NEW k \in 1..Len(h), j < k
        PROVE  <<h[j].name, h[k].name>> \in R
    <3>1. j \in 1..Len(g) /\ h[j] = g[j]
      BY <2>3, <2>5, <2>7
    <3>2. CASE k \in 1..Len(g)
      BY <2>5, <2>7, <3>1, <3>2 DEF InLine
    <3>3. CASE k = Len(g) + 1
      BY <2>2, <2>5, <3>1, <3>3 DEF InLine
    <3>4. QED
      BY <2>6, <3>2, <3>3
  <2>8. ASSUME NEW k \in 1..Len(h), NEW y \in Y PROVE <<h[k].name, y>> \in R
    BY <2>2, <2>5, <2>6 DEF InLine
  <2>9. QED
    BY <2>7, <2>8 DEF InLine
<1>3. QED
  BY <1>1, <1>2 DEF Shows

\* Those in X have not started, the others have.  Whoever arrived before a
\* segment and is shorter than its process had started by then.
SoFar(pr, g, X, now, P) ==
  /\ \A x \in P : IF x \in X THEN pr[x].start_time = UNKNOWN_TIME
                             ELSE pr[x].start_time \in 0..now
  /\ \A k \in 1..Len(g) : \A x \in P :
       /\ pr[x].arrival_time < g[k].start
       /\ pr[x].burst_time < pr[g[k].name].burst_time
       => pr[x].start_time \in 0..g[k].start

\* Time may pass, and anything else may change in the records.
LEMMA SoFarLater ==
  ASSUME NEW P, NEW pr, NEW pr2, NEW g \in Seq(Entries(P)), NEW X, NEW now \in Nat,
         SoFar(pr, g, X, now, P), NEW later \in Nat, now <= later,
         \A x \in P : /\ pr2[x].arrival_time = pr[x].arrival_time
                      /\ pr2[x].burst_time = pr[x].burst_time
                      /\ pr2[x].start_time = pr[x].start_time
  PROVE  SoFar(pr2, g, X, later, P)
<1>1. \A x \in P : pr[x].start_time \in 0..now => pr2[x].start_time \in 0..later
  OBVIOUS
<1>2. ASSUME NEW k \in 1..Len(g), NEW x \in P,
             pr2[x].arrival_time < g[k].start, pr2[x].burst_time < pr2[g[k].name].burst_time
      PROVE  pr2[x].start_time \in 0..g[k].start
  <2>1. g[k].name \in P
    <3>1. g[k] \in Entries(P)
      OBVIOUS
    <3>2. QED
      BY <3>1 DEF Entries
  <2>2. pr[x].arrival_time < g[k].start /\ pr[x].burst_time < pr[g[k].name].burst_time
    BY <1>2, <2>1
  <2>3. pr[x].start_time \in 0..g[k].start
    BY <2>2 DEF SoFar
  <2>4. QED
    BY <2>3
<1>3. \A x \in P : IF x \in X THEN pr2[x].start_time = UNKNOWN_TIME
                              ELSE pr2[x].start_time \in 0..later
  BY <1>1 DEF SoFar
<1>4. QED
  BY <1>2, <1>3 DEF SoFar

\* It stays so when p starts, if nobody in X is shorter and arrived before.
LEMMA ShortestStarts ==
  ASSUME NEW P, NEW pr, NEW pr2, NEW g \in Seq(Entries(P)), NEW X \in SUBSET P, NEW now \in Nat,
         SoFar(pr, g, X, now, P), Now \in Nat, now <= Now, NEW p \in X,
         \A x \in P : /\ pr2[x].arrival_time = pr[x].arrival_time
                      /\ pr2[x].burst_time = pr[x].burst_time
                      /\ pr[x].burst_time \in Nat,
         \A x \in P \ {p} : pr2[x].start_time = pr[x].start_time,
         pr2[p].start_time = Now,
         \A x \in X : pr[x].arrival_time < Now => pr[p].burst_time <= pr[x].burst_time,
         NEW h, Shows(h, g, p)
  PROVE  SoFar(pr2, h, X \ {p}, Now, P)
<1>1. ASSUME NEW x \in P
      PROVE  IF x \in X \ {p} THEN pr2[x].start_time = UNKNOWN_TIME
                              ELSE pr2[x].start_time \in 0..Now
  <2>1. CASE x = p
    BY <2>1
  <2>2. CASE x # p
    <3>1. pr2[x].start_time = pr[x].start_time
      BY <2>2
    <3>2. IF x \in X THEN pr[x].start_time = UNKNOWN_TIME ELSE pr[x].start_time \in 0..now
      BY DEF SoFar
    <3>3. pr[x].start_time \in 0..now => pr[x].start_time \in 0..Now
      OBVIOUS
    <3>4. QED
      BY <2>2, <3>1, <3>2, <3>3
  <2>3. QED
    BY <2>1, <2>2
<1>2. \A k \in 1..Len(g) : g[k].name \in P
  <2>1. SUFFICES ASSUME NEW k \in 1..Len(g) PROVE g[k].name \in P
    OBVIOUS
  <2>2. g[k] \in Entries(P)
    OBVIOUS
  <2>3. QED
    BY <2>2 DEF Entries
<1>3. ASSUME NEW k \in 1..Len(g), NEW x \in P,
             pr2[x].arrival_time < g[k].start, pr2[x].burst_time < pr2[g[k].name].burst_time
      PROVE  pr2[x].start_time \in 0..g[k].start
  <2>1. pr[x].arrival_time < g[k].start /\ pr[x].burst_time < pr[g[k].name].burst_time
    BY <1>2, <1>3
  <2>2. pr[x].start_time \in 0..g[k].start
    BY <2>1 DEF SoFar
  <2>3. x # p
    <3>1. pr[p].start_time = -1
      BY DEF SoFar, UNKNOWN_TIME
    <3>2. QED
      BY <2>2, <3>1
  <2>4. QED
    BY <2>2, <2>3
<1>4. ASSUME NEW x \in P, pr2[x].arrival_time < Now, pr2[x].burst_time < pr2[p].burst_time
      PROVE  pr2[x].start_time \in 0..Now
  <2>1. pr[x].arrival_time < Now /\ pr[x].burst_time < pr[p].burst_time
    BY <1>4
  <2>2. x \notin X
    BY <2>1
  <2>3. QED
    BY <1>1, <2>2
<1>5. ASSUME NEW k \in 1..Len(h), NEW x \in P,
             pr2[x].arrival_time < h[k].start, pr2[x].burst_time < pr2[h[k].name].burst_time
      PROVE  pr2[x].start_time \in 0..h[k].start
  <2>1. CASE h = g
    BY <1>3, <1>5, <2>1
  <2>2. CASE \E end : h = Append(g, [name |-> p, start |-> Now, end |-> end])
    <3>1. PICK end : h = Append(g, [name |-> p, start |-> Now, end |-> end])
      BY <2>2
    <3> DEFINE s == [name |-> p, start |-> Now, end |-> end]
    <3>2. s.name = p /\ s.start = Now /\ Len(g) \in Nat
      OBVIOUS
    <3> HIDE DEF s
    <3>3. h = Append(g, s)
      BY <3>1 DEF s
    <3>4. Len(h) = Len(g) + 1 /\ h[Len(g) + 1] = s /\ \A j \in 1..Len(g) : h[j] = g[j]
      BY <3>2, <3>3
    <3>5. CASE k \in 1..Len(g)
      <4>1. h[k] = g[k]
        BY <3>4, <3>5
      <4>2. QED
        BY <1>3, <1>5, <3>5, <4>1
    <3>6. CASE k = Len(g) + 1
      <4>1. h[k].name = p /\ h[k].start = Now
        BY <3>2, <3>4, <3>6
      <4>2. QED
        BY <1>4, <1>5, <4>1
    <3>7. QED
      BY <3>2, <3>4, <3>5, <3>6
  <2>3. QED
    BY <2>1, <2>2 DEF Shows
<1>6. QED
  BY <1>1, <1>5 DEF SoFar

\* What holds in every state: under FCFS the waiting list s, and then the
\* arrivals of q, are in the order of the arrivals, behind everyone on the chart
\* g; under SJF s is in the order of the bursts.
Line(R, s, q) ==
  /\ Ascends(s, R) /\ ArriveInTurn(q, R)
  /\ \A a \in ToSet(s), b \in Arriving(q) : <<a, b>> \in R
InTurn(pr, s, q, g, now, P) ==
  /\ NoExpiry(q)
  /\ scheduler = "fcfs" => /\ Line(EarlierIn(pr, P), s, q)
                           /\ InLine(g, ToSet(s) \cup Arriving(q), EarlierIn(pr, P))
  /\ scheduler = "sjf" => /\ Ascends(s, NoLonger(pr, P))
                          /\ SoFar(pr, g, ToSet(s) \cup Arriving(q), now, P)

\* These orders depend on the times of the workload alone.
LEMMA SameOrders ==
  ASSUME NEW P, NEW pr, DOMAIN pr = P, NEW pr2, SameTimes(pr, pr2)
  PROVE  EarlierIn(pr2, P) = EarlierIn(pr, P) /\ NoLonger(pr2, P) = NoLonger(pr, P)
BY DEF SameTimes, EarlierIn, Earlier, NoLonger

\* Who is left when the first event is taken, and when the first in the list is.
LEMMA WhoIsLeft ==
  ASSUME Plain \/ scheduler = "stcf", NEW n \in Nat, Good(proc, running, waiting, event_queue, 1..n),
         event_queue # <<>>, event_queue \in Seq(Planned(proc, 1..n)),
         NEW s, s = waiting[1], NEW t, t = Tail(event_queue)
  PROVE  /\ s \in Seq(1..n) /\ t \in Seq(EventsOf(1..n))
         /\ ToSet(s) \cup Arriving(event_queue) \in SUBSET (1..n)
         /\ Head(event_queue).type = "ARRIVAL" =>
              /\ Subject \in Arriving(event_queue) \ ToSet(s)
              /\ Arriving(t) = Arriving(event_queue) \ {Subject}
         /\ Head(event_queue).type # "ARRIVAL" => Arriving(t) = Arriving(event_queue)
         /\ s # <<>> => /\ Head(s) \in ToSet(s) \ Arriving(event_queue)
                        /\ Tail(s) \in Seq(1..n) /\ ToSet(Tail(s)) = ToSet(s) \ {Head(s)}
         /\ \A x \in Arriving(t) : proc[x].arrival_time >= Now
<1> DEFINE P == 1..n
           q == event_queue
<1>1. None \notin P
  BY EngineAssumption
<1>2. /\ waiting \in Lists(ListCount, P) /\ Distinct(waiting) /\ EventsOK(q, P)
      /\ Arriving(q) \cap InQueue(waiting) = {} /\ q \in Seq(EventsOf(P))
  BY DEF Good, PlacesOK, EventsOK
<1>3. s \in Seq(P) /\ InQueue(waiting) = ToSet(s)
  BY <1>2, OneList
<1>4. IsInjective(s)
  <2>1. DOMAIN waiting = 1..ListCount /\ ListCount = 1
    BY <1>2 DEF Lists, Plain, ListCount, NumLists
  <2>2. QED
    BY <1>2, <2>1 DEF Distinct
<1>5. /\ t \in Seq(EventsOf(P)) /\ Removed(t, q, 1) /\ Len(q) \in Nat \ {0} /\ Head(q) = q[1]
      /\ 1 \in 1..Len(q)
  <2>1. /\ t \in Seq(EventsOf(P)) /\ Removed(t, q, 1) /\ Len(q) \in Nat \ {0} /\ Head(q) = q[1]
    BY <1>2, TailRemoves
  <2>2. QED
    BY <2>1
<1>6. Arriving(t) = IF q[1].type = "ARRIVAL" THEN Arriving(q) \ {q[1].process} ELSE Arriving(q)
  BY <1>2, <1>5, RemovedOK
<1>7. Arriving(q) \subseteq P
  BY <1>2 DEF Arriving, EventsOf
<1>8. ToSet(s) \subseteq P
  BY <1>3 DEF ToSet
<1>9. q[1].type = "ARRIVAL" => Subject \in Arriving(q) \ ToSet(s) /\ Subject = q[1].process
  BY <1>2, <1>3, <1>5 DEF Arriving, Subject
<1>10. s # <<>> => /\ Head(s) \in ToSet(s) \ Arriving(q)
                   /\ Tail(s) \in Seq(P) /\ ToSet(Tail(s)) = ToSet(s) \ {Head(s)}
  <2>1. s # <<>> => /\ Head(s) \in ToSet(s) /\ Tail(s) \in Seq(P)
                    /\ ToSet(Tail(s)) = ToSet(s) \ {Head(s)}
    BY <1>3, <1>4, ElementsOfTail
  <2>2. QED
    BY <1>2, <1>3, <2>1
<1>11. ASSUME NEW x \in Arriving(t) PROVE proc[x].arrival_time >= Now
  <2>1. t \in Seq(Planned(proc, P)) /\ NoneBefore(t, Now) /\ Now \in Nat
    BY <1>1, FirstEvent, TailRemoves
  <2>2. PICK k \in 1..Len(t) : t[k].type = "ARRIVAL" /\ t[k].process = x
    BY <1>11 DEF Arriving
  <2>3. t[k] \in Planned(proc, P) /\ Now <= t[k].time
    BY <2>1, <2>2 DEF NoneBefore
  <2>4. t[k].time = proc[x].arrival_time /\ t[k].time \in Nat
    BY <2>2, <2>3 DEF Planned, PlannedFor, EventsOf
  <2>5. QED
    BY <2>1, <2>3, <2>4
<1>12. QED
  BY <1>3, <1>5, <1>6, <1>7, <1>8, <1>9, <1>10, <1>11

\* p is the one to run now, and leaves s waiting and t planned: under FCFS it
\* is before all others, under SJF nobody who has arrived before is shorter.
Picks(p, s, t, P) ==
  LET X == ToSet(waiting[1]) \cup Arriving(event_queue)
  IN  /\ p \in X /\ ToSet(s) \cup Arriving(t) = X \ {p}
      /\ NoExpiry(t)
      /\ scheduler = "fcfs" => /\ Line(EarlierIn(proc, P), s, t)
                               /\ \A y \in X \ {p} : <<p, y>> \in EarlierIn(proc, P)
      /\ scheduler = "sjf" =>
           /\ Ascends(s, NoLonger(proc, P))
           /\ \A x \in X : proc[x].arrival_time < Now => proc[p].burst_time <= proc[x].burst_time

\* So it is of one who arrives when nobody waits.
LEMMA ArrivalPicked ==
  ASSUME Plain, NEW n \in Nat, Good(proc, running, waiting, event_queue, 1..n),
         event_queue # <<>>, event_queue \in Seq(Planned(proc, 1..n)),
         NEW g, NEW now, InTurn(proc, waiting[1], event_queue, g, now, 1..n),
         Head(event_queue).type = "ARRIVAL", IsEmpty(waiting)
  PROVE  Picks(Subject, waiting[1], Tail(event_queue), 1..n)
<1> DEFINE P == 1..n
           q == event_queue
           t == Tail(event_queue)
           R == EarlierIn(proc, P)
           s == waiting[1]
           X == ToSet(s) \cup Arriving(q)
<1>1. waiting \in Lists(ListCount, P)
  BY DEF Good, PlacesOK
<1>2. s = <<>>
  BY <1>1, OneList
<1>3. ToSet(s) = {} /\ Ascends(s, R) /\ Ascends(s, NoLonger(proc, P))
  <2>1. DOMAIN <<>> = {} /\ Len(<<>>) = 0
    OBVIOUS
  <2>2. QED
    BY <1>2, <2>1 DEF ToSet, Ascends
<1>4. /\ X \in SUBSET P /\ Subject \in Arriving(q) /\ Arriving(t) = Arriving(q) \ {Subject}
      /\ \A x \in Arriving(t) : proc[x].arrival_time >= Now
  BY WhoIsLeft
<1>5. /\ q \in Seq(EventsOf(P)) /\ t \in Seq(EventsOf(P)) /\ Removed(t, q, 1)
      /\ Len(q) \in Nat \ {0} /\ Head(q) = q[1]
  <2>1. q \in Seq(EventsOf(P))
    BY DEF Good, EventsOK
  <2>2. QED
    BY <2>1, TailRemoves
<1>6. NoExpiry(t)
  BY <1>5 DEF InTurn, NoExpiry, Removed
<1>7. ASSUME scheduler = "fcfs"
      PROVE  Line(R, s, t) /\ \A y \in X \ {Subject} : <<Subject, y>> \in R
  <2>1. ArriveInTurn(q, R)
    BY <1>7 DEF InTurn, Line
  <2>2. ArriveInTurn(t, R) /\ \A b \in Arriving(t) : <<q[1].process, b>> \in R
    BY <1>5, <2>1, TurnStays
  <2>3. Subject = q[1].process /\ X \ {Subject} = Arriving(t)
    BY <1>3, <1>4, <1>5 DEF Subject
  <2>4. QED
    BY <1>3, <2>2, <2>3 DEF Line
<1>8. ASSUME NEW x \in X, proc[x].arrival_time < Now
      PROVE  proc[Subject].burst_time <= proc[x].burst_time
  <2>1. x \in P /\ proc[x].arrival_time \in Nat /\ proc[x].burst_time \in Nat
    BY <1>4 DEF Good, RecordsOK, Records
  <2>2. Now \in Nat
    BY EngineAssumption, FirstEvent
  <2>3. x \notin Arriving(t)
    BY <1>4, <1>8, <2>1, <2>2
  <2>4. x = Subject
    BY <1>3, <1>4, <2>3
  <2>5. QED
    BY <2>1, <2>4
<1> HIDE DEF t, R
<1>9. ToSet(s) \cup Arriving(t) = X \ {Subject}
  BY <1>3, <1>4
<1>10. Picks(Subject, s, t, P)
  BY <1>3, <1>4, <1>6, <1>7, <1>8, <1>9 DEF Picks, R
<1>11. QED
  BY <1>10 DEF t

\* And of the first in the list when the CPU becomes free.
LEMMA HeadPicked ==
  ASSUME Plain, NEW n \in Nat, Good(proc, running, waiting, event_queue, 1..n),
         event_queue # <<>>, event_queue \in Seq(Planned(proc, 1..n)),
         NEW g, NEW now, InTurn(proc, waiting[1], event_queue, g, now, 1..n),
         Head(event_queue).type # "ARRIVAL", waiting[1] # <<>>
  PROVE  Picks(Head(waiting[1]), Tail(waiting[1]), Tail(event_queue), 1..n)
<1> DEFINE P == 1..n
           q == event_queue
           t == Tail(event_queue)
           R == EarlierIn(proc, P)
           s == waiting[1]
           X == ToSet(s) \cup Arriving(q)
           p == Head(s)
           r == Tail(s)
<1>1. /\ s \in Seq(P) /\ X \in SUBSET P /\ Arriving(t) = Arriving(q)
      /\ \A x \in Arriving(t) : proc[x].arrival_time >= Now
  <2>1. s = waiting[1] /\ t = Tail(event_queue)
    OBVIOUS
  <2> HIDE DEF s, t, p, r
  <2>2. QED
    BY <2>1, WhoIsLeft
<1>2. p \in ToSet(s) \ Arriving(q) /\ r \in Seq(P) /\ ToSet(r) = ToSet(s) \ {p}
  BY WhoIsLeft
<1>3. q \in Seq(EventsOf(P))
  BY DEF Good, EventsOK
<1>4. NoExpiry(t)
  BY <1>3, TailRemoves DEF InTurn, NoExpiry, Removed
<1>5. ASSUME scheduler = "fcfs"
      PROVE  Line(R, r, t) /\ \A y \in X \ {p} : <<p, y>> \in R
  <2>1. Line(R, s, q)
    BY <1>5 DEF InTurn
  <2>2. ArriveInTurn(t, R)
    BY <1>3, <2>1, TurnStays DEF Line
  <2>3. Ascends(r, R) /\ \A y \in ToSet(r) : <<p, y>> \in R
    BY <1>1, <2>1, AscendsStill DEF Line
  <2> HIDE DEF R, p, r, t
  <2>4. Line(R, r, t)
    BY <1>1, <1>2, <2>1, <2>2, <2>3 DEF Line
  <2>5. ASSUME NEW y \in X \ {p} PROVE <<p, y>> \in R
    <3>1. y \in ToSet(r) \/ y \in Arriving(q)
      BY <1>2
    <3>2. QED
      BY <1>2, <2>1, <2>3, <3>1 DEF Line
  <2>6. QED
    BY <2>4, <2>5
<1>6. ASSUME scheduler = "sjf"
      PROVE  /\ Ascends(r, NoLonger(proc, P))
             /\ \A x \in X : proc[x].arrival_time < Now => proc[p].burst_time <= proc[x].burst_time
  <2>1. Ascends(s, NoLonger(proc, P))
    BY <1>6 DEF InTurn
  <2>2. /\ Ascends(r, NoLonger(proc, P))
        /\ \A y \in ToSet(r) : <<p, y>> \in NoLonger(proc, P)
    BY <1>1, <2>1, AscendsStill
  <2>3. ASSUME NEW x \in X, proc[x].arrival_time < Now
        PROVE  proc[p].burst_time <= proc[x].burst_time
    <3>1. x \in P /\ proc[x].arrival_time \in Nat /\ proc[x].burst_time \in Nat
      BY <1>1 DEF Good, RecordsOK, Records
    <3>2. Now \in Nat
      BY EngineAssumption, FirstEvent
    <3>3. x \notin Arriving(t)
      BY <1>1, <2>3, <3>1, <3>2
    <3>4. x = p \/ x \in ToSet(r)
      BY <1>1, <1>2, <3>3
    <3>5. CASE x = p
      BY <3>1, <3>5
    <3>6. CASE x \in ToSet(r)
      <4>1. <<p, x>> \in NoLonger(proc, P)
        BY <2>2, <3>6
      <4> HIDE DEF p, r
      <4>2. QED
        BY <4>1 DEF NoLonger
    <3>7. QED
      BY <3>4, <3>5, <3>6
  <2>4. QED
    BY <2>2, <2>3
<1> HIDE DEF t, R, p, r
<1>7. ToSet(r) \cup Arriving(t) = X \ {p} /\ p \in X
  BY <1>1, <1>2
<1>8. Picks(p, r, t, P)
  BY <1>4, <1>5, <1>6, <1>7 DEF Picks, R
<1>9. QED
  BY <1>8 DEF p, r, t

\* A completion comes among the events.
LEMMA EndPlanned ==
  ASSUME NEW P, NEW q, EventsOK(q, P), NoExpiry(q),
         NEW f \in EventsOf(P), f.type = "COMPLETION", NEW pr, NEW b
  PROVE  LET t == EnqueueEvent(q, f, pr, b)
         IN  /\ Arriving(t) = Arriving(q) /\ NoExpiry(t)
             /\ \A R : ArriveInTurn(q, R) => ArriveInTurn(t, R)
<1> DEFINE t == EnqueueEvent(q, f, pr, b)
<1>1. q \in Seq(EventsOf(P))
  BY DEF EventsOK
<1>2. Arriving(t) = Arriving(q)
  BY EnqueuedOK
<1>3. \A R : ArriveInTurn(q, R) => ArriveInTurn(t, R)
  BY <1>1, TurnStays
<1>4. PICK i \in 1..(Len(q) + 1) : t \in Seq(EventsOf(P)) /\ Inserted(t, q, i, f)
  BY <1>1, EnqueuedAt
<1> HIDE DEF t
<1> DEFINE from(j) == IF j < i THEN j ELSE j - 1
<1>5. \A j \in 1..Len(t) : j # i => from(j) \in 1..Len(q) /\ t[j] = q[from(j)]
  BY <1>1, <1>4, InsertedFrom
<1>6. t[i] = f
  BY <1>4 DEF Inserted
<1> HIDE DEF from
<1>7. NoExpiry(t)
  BY <1>5, <1>6 DEF NoExpiry
<1>8. QED
  BY <1>2, <1>3, <1>7 DEF t

\* The one picked gets the CPU.
LEMMA DispatchInTurn ==
  ASSUME Plain, NEW n \in Nat, Good(proc, running, waiting, event_queue, 1..n),
         NoneBefore(event_queue, current_time), current_time \in Nat,
         event_queue # <<>>, gantt \in Seq(Entries(1..n)),
         InTurn(proc, waiting[1], event_queue, gantt, current_time, 1..n),
         NEW pr, RecordsOK(pr, 1..n), SameTimes(proc, pr),
         \A x \in 1..n : pr[x].start_time = proc[x].start_time,
         NEW w, NEW p, Picks(p, w[1], Tail(event_queue), 1..n),
         ToSet(waiting[1]) \cup Arriving(event_queue) \in SUBSET (1..n),
         Dispatch(p, pr, w, Tail(event_queue))
  PROVE  InTurn(proc', waiting'[1], event_queue', gantt', Now, 1..n)
<1> DEFINE P == 1..n
           t == Tail(event_queue)
           X == ToSet(waiting[1]) \cup Arriving(event_queue)
           s == w[1]
<1>1. Now \in Nat /\ EventsOK(t, P) /\ t \in Seq(EventsOf(P)) /\ current_time <= Now
  BY EngineAssumption, FirstEvent DEF Good, EventsOK
<1>2. /\ p \in X /\ p \in P /\ ToSet(s) \cup Arriving(t) = X \ {p} /\ NoExpiry(t)
  BY DEF Picks
<1>3. /\ waiting' = w /\ Shows(gantt', gantt, p)
      /\ \E f \in EventsOf(P) : \E b :
           f.type = "COMPLETION" /\ event_queue' = EnqueueEvent(t, f, proc', b)
      /\ DOMAIN proc' = P /\ proc'[p].start_time = Now
      /\ proc'[p].arrival_time = pr[p].arrival_time /\ proc'[p].burst_time = pr[p].burst_time
      /\ \A x \in P \ {p} : proc'[x] = pr[x]
  <2> HIDE DEF t
  <2>1. Dispatch(p, pr, w, t)
    BY DEF t
  <2>2. QED
    BY <1>1, <1>2, <2>1, PlainDispatch
<1>4. PICK f \in EventsOf(P) : \E b :
        f.type = "COMPLETION" /\ event_queue' = EnqueueEvent(t, f, proc', b)
  BY <1>3
<1>5. /\ Arriving(event_queue') = Arriving(t) /\ NoExpiry(event_queue')
      /\ \A R : ArriveInTurn(t, R) => ArriveInTurn(event_queue', R)
  BY <1>1, <1>2, <1>4, EndPlanned
<1>6. DOMAIN proc = P /\ \A x \in P : proc[x].burst_time \in Nat
  BY DEF Good, RecordsOK, Records
<1>7. \A x \in P : /\ proc'[x].arrival_time = proc[x].arrival_time
                   /\ proc'[x].burst_time = proc[x].burst_time
                   /\ x # p => proc'[x].start_time = proc[x].start_time
  BY <1>3, <1>6 DEF SameTimes
<1>8. SameTimes(proc, proc')
  BY <1>3, <1>6, <1>7 DEF SameTimes
<1>9. EarlierIn(proc', P) = EarlierIn(proc, P) /\ NoLonger(proc', P) = NoLonger(proc, P)
  BY <1>6, <1>8, SameOrders
<1> HIDE DEF t, s, X, P
<1>10. ToSet(s) \cup Arriving(event_queue') = X \ {p}
  BY <1>2, <1>5
<1>11. waiting'[1] = s
  BY <1>3 DEF s
<1>12. ASSUME scheduler = "fcfs"
       PROVE  /\ Line(EarlierIn(proc', P), s, event_queue')
              /\ InLine(gantt', X \ {p}, EarlierIn(proc', P))
  <2> DEFINE R == EarlierIn(proc, P)
  <2>1. Line(R, s, t) /\ \A y \in X \ {p} : <<p, y>> \in R
    BY <1>12 DEF Picks, s, t, X, P
  <2>2. InLine(gantt, X, R)
    BY <1>12 DEF InTurn, X, P
  <2> HIDE DEF R
  <2>3. Line(R, s, event_queue')
    BY <1>5, <2>1 DEF Line
  <2>4. X \in SUBSET P /\ X \ {p} \in SUBSET X /\ gantt \in Seq(Entries(P))
    BY DEF X, P
  <2>5. InLine(gantt', X \ {p}, R)
    BY <1>1, <1>2, <1>3, <2>1, <2>2, <2>4, NextInLine
  <2>6. QED
    BY <1>9, <2>3, <2>5 DEF R
<1>13. ASSUME scheduler = "sjf"
       PROVE  /\ Ascends(s, NoLonger(proc', P))
              /\ SoFar(proc', gantt', X \ {p}, Now, P)
  <2>1. /\ Ascends(s, NoLonger(proc, P))
        /\ \A x \in X : proc[x].arrival_time < Now => proc[p].burst_time <= proc[x].burst_time
    BY <1>13 DEF Picks, s, t, X, P
  <2>2. SoFar(proc, gantt, X, current_time, P)
    BY <1>13 DEF InTurn, X, P
  <2>3. X \in SUBSET P /\ gantt \in Seq(Entries(P))
    BY DEF X, P
  <2>4. SoFar(proc', gantt', X \ {p}, Now, P)
    BY <1>1, <1>2, <1>3, <1>6, <1>7, <2>1, <2>2, <2>3, ShortestStarts
  <2>5. QED
    BY <1>9, <2>1, <2>4
<1>14. QED
  BY <1>5, <1>10, <1>11, <1>12, <1>13 DEF InTurn, P

\* Who arrives while the CPU is in use waits in his turn.
LEMMA WaitsInTurn ==
  ASSUME SettingsOK, Plain, NEW n \in Nat, Good(proc, running, waiting, event_queue, 1..n),
         NoneBefore(event_queue, current_time), current_time \in Nat,
         event_queue # <<>>, event_queue \in Seq(Planned(proc, 1..n)),
         gantt \in Seq(Entries(1..n)),
         InTurn(proc, waiting[1], event_queue, gantt, current_time, 1..n),
         Head(event_queue).type = "ARRIVAL"
  PROVE  InTurn(proc, Enqueue(scheduler, waiting, Subject, proc)[1], Tail(event_queue),
                gantt, Now, 1..n)
<1> DEFINE P == 1..n
           q == event_queue
           t == Tail(event_queue)
           s == waiting[1]
           v == Enqueue(scheduler, waiting, Subject, proc)
           r == v[1]
           R == EarlierIn(proc, P)
           p == Subject
<1>1. None \notin P
  BY EngineAssumption
<1>2. /\ Now \in Nat /\ current_time <= Now /\ Good(proc, running, waiting, t, P)
      /\ p \in P /\ p \notin InQueue(waiting) /\ p # running /\ p \notin Arriving(t)
  BY <1>1, FirstEvent
<1>3. Good(proc, running, v, t, P) /\ InQueue(v) = InQueue(waiting) \cup {p}
  <2>1. scheduler = "mlfq" => Within(proc[p])
    BY DEF Plain
  <2> HIDE DEF t, P
  <2>2. QED
    BY <1>1, <1>2, <2>1, EnqueuedGood
<1>4. waiting \in Lists(ListCount, P) /\ v \in Lists(ListCount, P)
  BY <1>3 DEF Good, PlacesOK
<1>5. /\ s \in Seq(P) /\ r \in Seq(P) /\ ToSet(s) = InQueue(waiting) /\ ToSet(r) = InQueue(v)
  <2> HIDE DEF v
  <2>1. QED
    BY <1>4, OneList
<1>6. p \in Arriving(q) /\ Arriving(t) = Arriving(q) \ {p} /\ t \in Seq(EventsOf(P))
  <2>1. s = waiting[1] /\ t = Tail(event_queue)
    OBVIOUS
  <2> HIDE DEF s, t
  <2>2. QED
    BY <2>1, WhoIsLeft
<1>7. /\ q \in Seq(EventsOf(P)) /\ Removed(t, q, 1) /\ Len(q) \in Nat \ {0} /\ Head(q) = q[1]
  <2>1. q \in Seq(EventsOf(P))
    BY DEF Good, EventsOK
  <2>2. QED
    BY <2>1, TailRemoves
<1>8. NoExpiry(t)
  BY <1>7 DEF InTurn, NoExpiry, Removed
<1>9. ToSet(r) \cup Arriving(t) = ToSet(s) \cup Arriving(q)
  <2> HIDE DEF r, s, t, q, p
  <2>1. QED
    BY <1>3, <1>5, <1>6
<1>10. ASSUME scheduler = "fcfs"
       PROVE  Line(R, r, t)
  <2>1. Line(R, s, q) /\ q[1].type = "ARRIVAL" /\ p = q[1].process
    BY <1>7, <1>10 DEF InTurn, Subject
  <2>2. ArriveInTurn(t, R) /\ \A b \in Arriving(t) : <<p, b>> \in R
    BY <1>7, <2>1, TurnStays DEF Line
  <2>3. r = Append(s, p)
    <3>1. DOMAIN waiting = {1}
      BY <1>4 DEF Lists, Plain, ListCount, NumLists
    <3>2. QED
      BY <1>10, <3>1 DEF Enqueue, Push
  <2> HIDE DEF R, r, s, t, q, p
  <2>4. Ascends(r, R)
    BY <1>2, <1>5, <1>6, <2>1, <2>3, AscendsStill DEF Line
  <2>5. ASSUME NEW a \in ToSet(r), NEW b \in Arriving(t) PROVE <<a, b>> \in R
    <3>1. a \in ToSet(s) \/ a = p
      BY <1>3, <1>5
    <3>2. b \in Arriving(q)
      BY <1>6
    <3>3. QED
      BY <2>1, <2>2, <3>1, <3>2 DEF Line
  <2>6. QED
    BY <2>2, <2>4, <2>5 DEF Line
<1>11. ASSUME scheduler = "sjf"
       PROVE  Ascends(r, NoLonger(proc, P)) /\ SoFar(proc, gantt, ToSet(s) \cup Arriving(q), Now, P)
  <2>1. /\ Ascends(s, NoLonger(proc, P))
        /\ SoFar(proc, gantt, ToSet(s) \cup Arriving(q), current_time, P)
    BY <1>11 DEF InTurn
  <2>2. DOMAIN waiting = {1}
    <3>1. ListCount = 1
      BY DEF Plain, ListCount, NumLists
    <3>2. QED
      BY <1>4, <3>1 DEF Lists
  <2>3. v = ByBurst(waiting, p, proc)
    BY <1>11 DEF Enqueue
  <2>4. \A x \in P : proc[x].burst_time \in Nat
    BY DEF Good, RecordsOK, Records
  <2>5. Ascends(ByBurst(waiting, p, proc)[1], NoLonger(proc, P))
    <3>1. s = waiting[1]
      OBVIOUS
    <3> HIDE DEF s, p, P
    <3>2. QED
      BY <1>2, <1>5, <2>1, <2>2, <2>4, <3>1, SortedByBurst
  <2>6. SoFar(proc, gantt, ToSet(s) \cup Arriving(q), Now, P)
    BY <1>2, <2>1, SoFarLater
  <2>7. QED
    BY <2>3, <2>5, <2>6
<1>12. ASSUME scheduler = "fcfs" PROVE InLine(gantt, ToSet(s) \cup Arriving(q), R)
  BY <1>12 DEF InTurn
<1> HIDE DEF r, t, R
<1>13. InTurn(proc, r, t, gantt, Now, P)
  BY <1>8, <1>9, <1>10, <1>11, <1>12 DEF InTurn, R
<1>14. QED
  BY <1>13 DEF r, t

\* The end of a run changes nothing in the order.
LEMMA EndKeepsTimes ==
  ASSUME NEW P, None \notin P, NEW q, Good(proc, running, waiting, q, P), NEW time \in Nat
  PROVE  /\ RecordsOK(FinishRunning(time), P) /\ SameTimes(proc, FinishRunning(time))
         /\ \A x \in P : FinishRunning(time)[x].start_time = proc[x].start_time
<1> DEFINE pr == FinishRunning(time)
<1>1. RecordsOK(pr, P)
  BY FinishGood DEF Good
<1>2. /\ DOMAIN proc = P /\ running \in P \cup {None}
      /\ \A p \in P : proc[p] \in Records
  BY DEF Good, RecordsOK, PlacesOK
<1>3. /\ DOMAIN pr = P
      /\ \A p \in P : /\ pr[p].arrival_time = proc[p].arrival_time
                      /\ pr[p].burst_time = proc[p].burst_time
                      /\ pr[p].start_time = proc[p].start_time
  <2>1. CASE running # None /\ proc[running].finish_time = UNKNOWN_TIME
    <3>1. pr = [proc EXCEPT ![running].finish_time = time] /\ running \in P
      BY <1>2, <2>1 DEF FinishRunning
    <3>2. pr[running] = [proc[running] EXCEPT !.finish_time = time] /\ DOMAIN pr = P
          /\ \A p \in P : p # running => pr[p] = proc[p]
      BY <1>2, <3>1
    <3>3. proc[running] \in Records
      BY <1>2, <3>1
    <3>4. /\ pr[running].arrival_time = proc[running].arrival_time
          /\ pr[running].burst_time = proc[running].burst_time
          /\ pr[running].start_time = proc[running].start_time
      BY <3>2, <3>3 DEF Records
    <3>5. QED
      BY <3>2, <3>4
  <2>2. CASE ~(running # None /\ proc[running].finish_time = UNKNOWN_TIME)
    BY <1>2, <2>2 DEF FinishRunning
  <2>3. QED
    BY <2>1, <2>2
<1>4. QED
  BY <1>1, <1>2, <1>3 DEF SameTimes

\* Nobody starts when the CPU stays free.
LEMMA EndInTurn ==
  ASSUME NEW n \in Nat, Good(proc, running, waiting, event_queue, 1..n), Plain,
         NoneBefore(event_queue, current_time), current_time \in Nat,
         event_queue # <<>>, event_queue \in Seq(Planned(proc, 1..n)),
         gantt \in Seq(Entries(1..n)),
         InTurn(proc, waiting[1], event_queue, gantt, current_time, 1..n),
         Head(event_queue).type # "ARRIVAL"
  PROVE  InTurn(FinishRunning(Now), waiting[1], Tail(event_queue), gantt, Now, 1..n)
<1> DEFINE P == 1..n
           q == event_queue
           t == Tail(event_queue)
           s == waiting[1]
           pr == FinishRunning(Now)
<1>1. None \notin P
  BY EngineAssumption
<1>2. Now \in Nat /\ current_time <= Now
  BY <1>1, FirstEvent
<1>3. /\ SameTimes(proc, pr) /\ DOMAIN proc = P
      /\ \A x \in P : pr[x].start_time = proc[x].start_time
  BY <1>1, <1>2, EndKeepsTimes DEF Good, RecordsOK
<1> HIDE DEF pr
<1>4. EarlierIn(pr, P) = EarlierIn(proc, P) /\ NoLonger(pr, P) = NoLonger(proc, P)
  BY <1>3, SameOrders
<1>5. Arriving(t) = Arriving(q)
  <2>1. s = waiting[1] /\ t = Tail(event_queue)
    OBVIOUS
  <2> HIDE DEF s, t
  <2>2. QED
    BY <2>1, WhoIsLeft
<1>6. q \in Seq(EventsOf(P))
  BY DEF Good, EventsOK
<1>7. NoExpiry(t)
  BY <1>6, TailRemoves DEF InTurn, NoExpiry, Removed
<1>8. \A R : ArriveInTurn(q, R) => ArriveInTurn(t, R)
  BY <1>6, TurnStays
<1>9. ASSUME scheduler = "sjf" PROVE SoFar(pr, gantt, ToSet(s) \cup Arriving(q), Now, P)
  <2>1. SoFar(proc, gantt, ToSet(s) \cup Arriving(q), current_time, P)
    BY <1>9 DEF InTurn
  <2>2. \A x \in P : /\ pr[x].arrival_time = proc[x].arrival_time
                     /\ pr[x].burst_time = proc[x].burst_time
                     /\ pr[x].start_time = proc[x].start_time
    BY <1>3 DEF SameTimes
  <2>3. QED
    BY <1>2, <2>1, <2>2, SoFarLater
<1> HIDE DEF t, s
<1>10. InTurn(pr, s, t, gantt, Now, P)
  BY <1>4, <1>5, <1>7, <1>8, <1>9 DEF InTurn, Line, s
<1>11. QED
  BY <1>10 DEF pr, s, t

\* The simulator keeps the order.
LEMMA SimulateInTurn ==
  ASSUME SettingsOK, Plain, NEW n \in Nat, Good(proc, running, waiting, event_queue, 1..n),
         NoneBefore(event_queue, current_time), current_time \in Nat,
         NEW e \in Nat, OnCpu(e, 1..n),
         InTurn(proc, waiting[1], event_queue, gantt, current_time, 1..n), Simulate
  PROVE  InTurn(proc', waiting'[1], event_queue', gantt', current_time', 1..n)
<1> DEFINE P == 1..n
           t == Tail(event_queue)
           s == waiting[1]
<1>1. None \notin P
  BY EngineAssumption
<1>2. event_queue \in Seq(Planned(proc, P)) /\ gantt \in Seq(Entries(P))
  BY DEF OnCpu, Served, ChartOK
<1>3. NoExpiry(event_queue) /\ waiting \in Lists(ListCount, P)
  BY DEF InTurn, Good, PlacesOK
<1>4. DOMAIN proc = P /\ RecordsOK(proc, P) /\ SameTimes(proc, proc)
  BY DEF Good, RecordsOK, SameTimes
<1>5. ASSUME event_queue # <<>>, NEW p, NEW pr, RecordsOK(pr, P), SameTimes(proc, pr),
             \A x \in P : pr[x].start_time = proc[x].start_time,
             NEW w, Picks(p, w[1], t, P), Dispatch(p, pr, w, t)
      PROVE  InTurn(proc', waiting'[1], event_queue', gantt', Now, P)
  <2>1. ToSet(s) \cup Arriving(event_queue) \in SUBSET P
    <3>1. s = waiting[1] /\ t = Tail(event_queue)
      OBVIOUS
    <3> HIDE DEF s, t
    <3>2. QED
      BY <1>2, <1>5, <3>1, WhoIsLeft
  <2>2. QED
    BY <1>2, <1>5, <2>1, DispatchInTurn
<1>6. CASE UNCHANGED <<proc, waiting, gantt, event_queue, current_time>>
  BY <1>6
<1>7. CASE /\ event_queue # <<>> /\ current_time' = Now
           /\ Head(event_queue).type = "ARRIVAL" /\ IsEmpty(waiting)
           /\ Dispatch(Subject, proc, waiting, t)
  <2>1. Picks(Subject, waiting[1], t, P)
    BY <1>2, <1>7, ArrivalPicked
  <2>2. QED
    BY <1>4, <1>5, <1>7, <2>1
<1>8. CASE /\ event_queue # <<>> /\ current_time' = Now
           /\ Head(event_queue).type = "ARRIVAL"
           /\ waiting' = Enqueue(scheduler, waiting, Subject, proc)
           /\ event_queue' = t /\ proc' = proc /\ gantt' = gantt
  BY <1>2, <1>8, WaitsInTurn
<1>9. ASSUME event_queue # <<>>
      PROVE  /\ RecordsOK(FinishRunning(Now), P) /\ SameTimes(proc, FinishRunning(Now))
             /\ \A x \in P : FinishRunning(Now)[x].start_time = proc[x].start_time
  BY <1>1, <1>9, FirstEvent, EndKeepsTimes
<1>10. CASE /\ event_queue # <<>> /\ current_time' = Now
            /\ Head(event_queue).type = "COMPLETION" /\ ~IsEmpty(waiting)
            /\ Dispatch(Taken(scheduler, waiting), FinishRunning(Now), Left(scheduler, waiting), t)
  <2>1. /\ s # <<>> /\ Taken(scheduler, waiting) = Head(s)
        /\ Left(scheduler, waiting)[1] = Tail(s)
    BY <1>3, <1>10, OneList
  <2>2. Picks(Head(s), Tail(s), t, P)
    BY <1>2, <1>10, <2>1, HeadPicked
  <2>3. Picks(Taken(scheduler, waiting), Left(scheduler, waiting)[1], t, P)
    BY <2>1, <2>2
  <2>4. QED
    BY <1>5, <1>9, <1>10, <2>3
<1>11. CASE /\ event_queue # <<>> /\ current_time' = Now
            /\ Head(event_queue).type = "COMPLETION"
            /\ waiting' = waiting /\ event_queue' = t
            /\ proc' = FinishRunning(Now) /\ gantt' = gantt
  BY <1>2, <1>11, EndInTurn
<1>12. QED
  BY <1>3, <1>6, <1>7, <1>8, <1>10, <1>11, PlainStep

\* At the start nobody waits or has run, and all are to arrive in their order.
LEMMA BegunInTurn ==
  ASSUME NEW n \in Nat, NEW pr \in [1..n -> Records], \A p \in 1..n : Fresh(pr[p]),
         NEW s \in {"fcfs", "sjf"}, NEW q, NEW c, Begin(s, q, c, pr)
  PROVE  /\ waiting' # <<>>
         /\ InTurn(proc, waiting[1], event_queue, gantt, current_time, Processes)'
<1> DEFINE P == 1..n
<1>1. /\ scheduler' = s /\ proc' = pr /\ event_queue' = InitialEvents(s, c, pr)
      /\ running' = None /\ waiting' = EmptyQueue(s, c.levels) /\ current_time' = 0
      /\ gantt' = <<>> /\ Processes' = P
  BY DEF Begin, Processes
<1>2. OnCpu(0, Processes)' /\ Arriving(event_queue') = P
  <2>1. \A p \in P : pr[p].remaining_time = pr[p].burst_time
    BY DEF Fresh
  <2>2. s # "mlfq"
    OBVIOUS
  <2>3. QED
    BY <2>1, <2>2, BegunServed
<1>3. NoExpiry(event_queue')
  BY <1>1, <1>2 DEF OnCpu, Served, NoCpu, NoExpiry, IsCpuEvent
<1>4. DOMAIN waiting' = {1} /\ waiting'[1] = <<>>
  BY <1>1 DEF EmptyQueue, NumLists
<1>5. DOMAIN <<>> = {} /\ Len(<<>>) = 0
  OBVIOUS
<1>6. waiting' # <<>> /\ ToSet(waiting'[1]) = {}
  BY <1>4, <1>5 DEF ToSet
<1>7. \A R : Ascends(waiting'[1], R) /\ InLine(gantt', P, R)
  BY <1>1, <1>4, <1>5 DEF Ascends, InLine
<1>8. ASSUME s = "fcfs" PROVE Line(EarlierIn(pr, P), waiting'[1], event_queue')
  <2>1. event_queue' = ArrivalEvents(pr, FALSE)
    <3>1. SortsByRemaining(s) = FALSE
      BY <1>8 DEF SortsByRemaining
    <3>2. event_queue' = ArrivalEvents(pr, SortsByRemaining(s))
      BY <1>1, <1>8 DEF InitialEvents
    <3>3. QED
      BY <3>1, <3>2
  <2>2. ArriveInTurn(event_queue', EarlierIn(pr, P))
    BY <2>1, ArrivalsInTurn
  <2>3. QED
    BY <1>6, <1>7, <2>2 DEF Line
<1>9. SoFar(pr, gantt', P, 0, P)
  BY <1>1, <1>5 DEF SoFar, Fresh
<1>10. ToSet(waiting'[1]) \cup Arriving(event_queue') = P
  BY <1>2, <1>6
<1> HIDE DEF P
<1>11. InTurn(proc, waiting[1], event_queue, gantt, current_time, Processes)'
  BY <1>1, <1>3, <1>7, <1>8, <1>9, <1>10 DEF InTurn
<1>12. QED
  BY <1>6, <1>11

\* Every algorithm has a list.
LEMMA SomeList ==
  ASSUME SettingsOK, NEW P, NEW w \in Lists(ListCount, P)
  PROVE  w # <<>>
<1>1. 1 \in 1..ListCount
  BY DEF SettingsOK, LevelsOK, AlgorithmNames, ListCount, NumLists
<1>2. DOMAIN <<>> = {} /\ DOMAIN w = 1..ListCount
  BY DEF Lists
<1>3. QED
  BY <1>1, <1>2

\* The order, in every state.  Before the first simulation there is no list.
OrderKept ==
  /\ waiting = <<>> => gantt = <<>>
  /\ Plain /\ waiting # <<>> =>
       InTurn(proc, waiting[1], event_queue, gantt, current_time, Processes)
\* It stays so from one simulation to the next.
LEMMA OrderAlways == Spec => []OrderKept
<1>1. Init => OrderKept
  BY DEF Init, OrderKept
<1>2. Inv /\ CpuKept /\ OrderKept /\ [Next]_vars => OrderKept'
  <2> SUFFICES ASSUME Inv, CpuKept, OrderKept, [Next]_vars
               PROVE  OrderKept'
    OBVIOUS
  <2>1. CASE UNCHANGED engine
    BY <2>1 DEF OrderKept, Plain, InTurn, Processes, engine, settings
  <2>2. CASE phase = "simulate" /\ Simulate
    <3>1. PICK n \in Nat : /\ SettingsOK
                           /\ Good(proc, running, waiting, event_queue, 1..n)
                           /\ NoneBefore(event_queue, current_time)
                           /\ current_time \in Nat
      BY <2>2 DEF Inv, Empty, Kept
    <3>2. Processes = 1..n /\ Processes' = 1..n
      BY <2>2, <3>1, TimesStay DEF SameTimes, Good, RecordsOK, Processes
    <3>3. UNCHANGED settings
      BY <2>2 DEF Simulate, handle_arrival, handle_completion, handle_quantum_expire,
                  handle_priority_boost, Handle, Report
    <3>4. waiting' # <<>>
      <4>1. PICK m \in Nat : Good(proc, running, waiting, event_queue, 1..m)'
        BY <2>2, SimulateKeeps DEF Inv, Empty, Kept
      <4>2. ListCount' = ListCount
        BY <3>3 DEF settings, ListCount, Levels
      <4>3. waiting' \in Lists(ListCount, 1..m)
        BY <4>1, <4>2 DEF Good, PlacesOK
      <4>4. QED
        BY <3>1, <4>3, SomeList
    <3>5. ASSUME Plain
          PROVE  InTurn(proc', waiting'[1], event_queue', gantt', current_time', 1..n)
      <4>1. waiting # <<>>
        BY <3>1, <3>5, OneList DEF Good, PlacesOK
      <4>2. Undisturbed
        BY <3>5 DEF Plain, Undisturbed
      <4>3. PICK e \in Nat : OnCpu(e, 1..n)
        BY <3>2, <4>2 DEF CpuKept
      <4>4. InTurn(proc, waiting[1], event_queue, gantt, current_time, 1..n)
        BY <3>2, <3>5, <4>1 DEF OrderKept
      <4>5. QED
        BY <2>2, <3>1, <3>5, <4>3, <4>4, SimulateInTurn
    <3>6. QED
      BY <3>2, <3>3, <3>4, <3>5 DEF OrderKept, Plain, InTurn, settings
  <2>3. CASE \E s \in AlgorithmNames : \E q, c : Run(s, q, c) /\ StartOK(s, q, c)
    <3>1. PICK s, q, c : Run(s, q, c) /\ StartOK(s, q, c)
      BY <2>3
    <3>2. PICK n \in Nat : /\ CopiedProcesses \in [1..n -> Records]
                           /\ \A p \in 1..n : Fresh(CopiedProcesses[p])
      BY Copied DEF Inv
    <3>3. Begin(s, q, c, CopiedProcesses) /\ gantt' = <<>> /\ scheduler' = s
      BY <3>1 DEF Run, Begin
    <3>4. s \in {"fcfs", "sjf"} =>
            InTurn(proc, waiting[1], event_queue, gantt, current_time, Processes)'
      BY <3>2, <3>3, BegunInTurn
    <3>5. QED
      BY <3>3, <3>4 DEF OrderKept, Plain
  <2>4. QED
    BY <2>1, <2>2, <2>3, Steps DEF Inv
<1>3. QED
  BY <1>1, <1>2, InvAlways, CpuAlways, PTL DEF Spec

\* FCFS runs the processes in order of arrival, in the order of the workload
\* when they arrive together; SJF never starts a process while a shorter one
\* that arrived before that moment is waiting (fcfs-queue.c 20-46,
\* sjf-queue.c 22-46).
THEOREM OrderIsKept == Spec => []NonPreemptiveOrder
<1>1. Inv /\ CpuKept /\ OrderKept => NonPreemptiveOrder
  <2> SUFFICES ASSUME Inv, CpuKept, OrderKept, Plain PROVE NonPreemptiveOrder
    BY DEF NonPreemptiveOrder, Plain
  <2>1. CASE waiting = <<>>
    <3>1. gantt = <<>> /\ DOMAIN gantt = {}
      BY <2>1 DEF OrderKept
    <3>2. QED
      BY <3>1 DEF NonPreemptiveOrder
  <2>2. CASE waiting # <<>>
    <3>1. InTurn(proc, waiting[1], event_queue, gantt, current_time, Processes)
      BY <2>2 DEF OrderKept
    <3>2. PICK e \in Nat : OnCpu(e, Processes)
      BY DEF CpuKept, Undisturbed, Plain
    <3>3. DOMAIN gantt = 1..Len(gantt)
      BY <3>2 DEF OnCpu, Served, ChartOK
    <3>4. ASSUME scheduler = "fcfs", NEW j \in DOMAIN gantt, NEW k \in DOMAIN gantt, j < k
          PROVE  LET p == gantt[j].name  q == gantt[k].name
                 IN  \/ proc[p].arrival_time < proc[q].arrival_time
                     \/ proc[p].arrival_time = proc[q].arrival_time /\ p < q
      <4>1. <<gantt[j].name, gantt[k].name>> \in EarlierIn(proc, Processes)
        BY <3>1, <3>3, <3>4 DEF InTurn, InLine
      <4>2. QED
        BY <4>1 DEF EarlierIn, Earlier
    <3>5. ASSUME scheduler = "sjf", NEW k \in DOMAIN gantt, NEW q \in Processes,
                 proc[q].arrival_time < gantt[k].start,
                 proc[q].burst_time < proc[gantt[k].name].burst_time
          PROVE  proc[q].start_time \in 0..gantt[k].start
      BY <3>1, <3>3, <3>5 DEF InTurn, SoFar
    <3>6. QED
      BY <3>4, <3>5 DEF NonPreemptiveOrder
  <2>3. QED
    BY <2>1, <2>2
<1>2. QED
  BY <1>1, InvAlways, CpuAlways, OrderAlways, PTL

-----------------------------------------------------------------------------
\* The turns of RR.

\* x stands before y.
Before(s, x, y) == \E j, k \in 1..Len(s) : j < k /\ s[j] = x /\ s[k] = y

\* Both are in the sequence.
LEMMA BeforeIn ==
  ASSUME NEW P, NEW s \in Seq(P)
  PROVE  \A x, y : Before(s, x, y) => x \in ToSet(s) /\ y \in ToSet(s)
BY DEF Before, ToSet

\* Who stands before whom when the head leaves: it stood before everyone.
LEMMA BeforeTail ==
  ASSUME NEW P, NEW s \in Seq(P), s # <<>>
  PROVE  /\ \A x, y : Before(Tail(s), x, y) => Before(s, x, y)
         /\ \A y \in ToSet(Tail(s)) : Before(s, Head(s), y)
<1> DEFINE t == Tail(s)
<1>1. t \in Seq(P) /\ Removed(t, s, 1) /\ Len(s) \in Nat \ {0} /\ Head(s) = s[1]
  BY TailRemoves
<1> HIDE DEF t
<1>2. \A j \in 1..Len(t) : j + 1 \in 1..Len(s) /\ t[j] = s[j + 1] /\ 1 < j + 1
  BY <1>1 DEF Removed
<1>3. ASSUME NEW x, NEW y, Before(t, x, y) PROVE Before(s, x, y)
  <2>1. PICK j \in 1..Len(t), k \in 1..Len(t) : j < k /\ t[j] = x /\ t[k] = y
    BY <1>3 DEF Before
  <2>2. j + 1 < k + 1
    BY <2>1
  <2>3. QED
    BY <1>2, <2>1, <2>2 DEF Before
<1>4. ASSUME NEW y \in ToSet(t) PROVE Before(s, s[1], y)
  <2>1. PICK k \in 1..Len(t) : t[k] = y
    BY <1>1 DEF ToSet
  <2>2. 1 \in 1..Len(s)
    BY <1>1
  <2>3. QED
    BY <1>2, <2>1, <2>2 DEF Before
<1>5. QED
  BY <1>1, <1>3, <1>4 DEF t

\* ... when one comes to the end.
LEMMA BeforeAppend ==
  ASSUME NEW P, NEW s \in Seq(P), NEW p \in P
  PROVE  \A x, y : Before(Append(s, p), x, y) => Before(s, x, y) \/ (x \in ToSet(s) /\ y = p)
<1> DEFINE t == Append(s, p)
<1>1. /\ t \in Seq(P) /\ Len(t) = Len(s) + 1 /\ t[Len(s) + 1] = p /\ Len(s) \in Nat
      /\ \A j \in 1..Len(s) : t[j] = s[j]
  BY AppendProperties
<1> HIDE DEF t
<1>2. SUFFICES ASSUME NEW x, NEW y, Before(t, x, y)
               PROVE  Before(s, x, y) \/ (x \in ToSet(s) /\ y = p)
  BY DEF t
<1>3. PICK j \in 1..Len(t), k \in 1..Len(t) : j < k /\ t[j] = x /\ t[k] = y
  BY <1>2 DEF Before
<1>4. j \in 1..Len(s) /\ x = s[j]
  BY <1>1, <1>3
<1>5. CASE k \in 1..Len(s)
  BY <1>1, <1>3, <1>4, <1>5 DEF Before
<1>6. CASE k = Len(s) + 1
  BY <1>1, <1>3, <1>4, <1>6 DEF ToSet
<1>7. QED
  BY <1>1, <1>5, <1>6

\* ... when another sequence follows.
LEMMA BeforeConcat ==
  ASSUME NEW P, NEW s \in Seq(P), NEW t \in Seq(P)
  PROVE  \A x, y : Before(s \o t, x, y) =>
           Before(s, x, y) \/ Before(t, x, y) \/ (x \in ToSet(s) /\ y \in ToSet(t))
<1> DEFINE u == s \o t
<1>1. /\ Len(u) = Len(s) + Len(t) /\ Len(s) \in Nat /\ Len(t) \in Nat
      /\ \A j \in 1..Len(u) : u[j] = IF j <= Len(s) THEN s[j] ELSE t[j - Len(s)]
  BY ConcatProperties
<1> HIDE DEF u
<1>2. SUFFICES ASSUME NEW x, NEW y, Before(u, x, y)
               PROVE  Before(s, x, y) \/ Before(t, x, y) \/ (x \in ToSet(s) /\ y \in ToSet(t))
  BY DEF u
<1>3. PICK j \in 1..Len(u), k \in 1..Len(u) : j < k /\ u[j] = x /\ u[k] = y
  BY <1>2 DEF Before
<1>4. CASE k <= Len(s)
  <2>1. j \in 1..Len(s) /\ k \in 1..Len(s) /\ x = s[j] /\ y = s[k]
    BY <1>1, <1>3, <1>4
  <2>2. QED
    BY <1>3, <2>1 DEF Before
<1>5. CASE ~(k <= Len(s)) /\ j <= Len(s)
  <2>1. j \in 1..Len(s) /\ k - Len(s) \in 1..Len(t) /\ x = s[j] /\ y = t[k - Len(s)]
    BY <1>1, <1>3, <1>5
  <2>2. QED
    BY <2>1 DEF ToSet
<1>6. CASE ~(j <= Len(s))
  <2>1. /\ j - Len(s) \in 1..Len(t) /\ k - Len(s) \in 1..Len(t) /\ j - Len(s) < k - Len(s)
        /\ x = t[j - Len(s)] /\ y = t[k - Len(s)]
    BY <1>1, <1>3, <1>6
  <2>2. QED
    BY <2>1 DEF Before
<1>7. QED
  BY <1>1, <1>4, <1>5, <1>6

\* q runs once more before p does, or after p has run while r is on the CPU and
\* p waits in w; and q runs twice before p.
Once(w, r, p, q) ==
  \/ Before(w[Active], q, p)
  \/ p \in ToSet(w[Round]) /\ (q \in ToSet(w[Active]) \/ Before(w[Round], q, p))
  \/ p \in ToSet(w[Pending]) /\ \/ q \in ToSet(w[Active]) \cup ToSet(w[Round]) \cup {r}
                                \/ Before(w[Pending], q, p)
  \/ p = r /\ q \in ToSet(w[Active]) \cup ToSet(w[Round])
Twice(w, p, q) == p \in ToSet(w[Pending]) /\ q \in ToSet(w[Active])

\* The three lists: nobody is in two places.
Rounds(w, r, P) ==
  /\ DOMAIN w = 1..3 /\ \A k \in 1..3 : w[k] \in Seq(P) /\ IsInjective(w[k])
  /\ \A k \in 1..3 : r \notin ToSet(w[k])
  /\ \A j, k \in 1..3 : j # k => ToSet(w[j]) \cap ToSet(w[k]) = {}

\* When a round begins, nobody's turn comes later than it did.
LEMMA TurnOfRound ==
  ASSUME NEW P, NEW r, NEW w, Rounds(w, r, P)
  PROVE  LET v == Turned("rr", w)
         IN  /\ Rounds(v, r, P) /\ InQueue(v) = InQueue(w)
             /\ \A p, q : Once(v, None, p, q) /\ p # None => Once(w, None, p, q)
             /\ \A p, q : Twice(v, p, q) => Twice(w, p, q)
             /\ InQueue(w) # {} => v[Active] # <<>>
<1> DEFINE v == Turned("rr", w)
           s == w[Round]
           t == w[Pending]
           u == s \o t
<1>1. DOMAIN <<>> = {} /\ ToSet(<<>>) = {} /\ IsInjective(<<>>) /\ <<>> \in Seq(P)
      /\ Len(<<>>) = 0
  BY DEF ToSet, IsInjective
<1>2. InQueue(w) = ToSet(w[Active]) \cup ToSet(s) \cup ToSet(t)
  BY DEF InQueue, Rounds, Active, Round, Pending
<1>3. CASE w[Active] # <<>>
  <2>1. v = w
    BY <1>3 DEF Turned
  <2>2. QED
    BY <1>3, <2>1
<1>4. CASE w[Active] = <<>>
  <2>1. v = <<u, <<>>, <<>>>>
    BY <1>4 DEF Turned, NewRound
  <2>2. s \in Seq(P) /\ t \in Seq(P) /\ u \in Seq(P) /\ IsInjective(u) /\ ToSet(u) = ToSet(s) \cup ToSet(t)
    BY ElementsOfConcat DEF Rounds, Round, Pending
  <2> HIDE DEF u, v
  <2>3. DOMAIN v = 1..3 /\ v[1] = u /\ v[2] = <<>> /\ v[3] = <<>>
    BY <2>1
  <2>4. \A k \in 1..3 : k = 1 \/ k = 2 \/ k = 3
    OBVIOUS
  <2>5. Rounds(v, r, P)
    <3>1. \A k \in 1..3 : v[k] \in Seq(P) /\ IsInjective(v[k])
      BY <1>1, <2>2, <2>3, <2>4
    <3>2. r \notin ToSet(u)
      BY <2>2 DEF Rounds, Round, Pending
    <3>3. \A k \in 1..3 : r \notin ToSet(v[k])
      BY <1>1, <2>3, <2>4, <3>2
    <3>4. \A j, k \in 1..3 : j # k => ToSet(v[j]) \cap ToSet(v[k]) = {}
      BY <1>1, <2>3, <2>4
    <3>5. QED
      BY <2>3, <3>1, <3>3, <3>4 DEF Rounds
  <2>6. InQueue(v) = InQueue(w)
    <3>1. InQueue(v) = ToSet(u)
      BY <1>1, <2>3, <2>4 DEF InQueue
    <3>2. QED
      BY <1>1, <1>2, <1>4, <2>2, <3>1
  <2>7. ASSUME NEW p, NEW q, Once(v, None, p, q), p # None PROVE Once(w, None, p, q)
    <3>1. Before(u, q, p)
      BY <1>1, <2>3, <2>7 DEF Once, Active, Round, Pending
    <3>2. Before(s, q, p) \/ Before(t, q, p) \/ (q \in ToSet(s) /\ p \in ToSet(t))
      BY <2>2, <3>1, BeforeConcat DEF u
    <3>3. Before(s, q, p) => p \in ToSet(s)
      BY <2>2, BeforeIn
    <3>4. Before(t, q, p) => p \in ToSet(t)
      BY <2>2, BeforeIn
    <3>5. QED
      BY <3>2, <3>3, <3>4 DEF Once
  <2>8. \A p, q : ~Twice(v, p, q)
    BY <1>1, <2>3 DEF Twice, Pending
  <2>9. InQueue(w) # {} => v[Active] # <<>>
    BY <1>1, <2>3, <2>6, <2>4 DEF InQueue, Active
  <2>10. QED
    BY <2>5, <2>6, <2>7, <2>8, <2>9 DEF v
<1>5. QED
  BY <1>3, <1>4

\* The head of the active list gets the CPU: everyone who waits had to wait for
\* it, twice if he has to wait for it again.
LEMMA TurnOfHead ==
  ASSUME NEW P, None \notin P, NEW w, Rounds(w, None, P), w[Active] # <<>>,
         NEW x, x = Head(w[Active]),
         NEW v, DOMAIN v = 1..3, v[Active] = Tail(w[Active]),
         v[Round] = w[Round], v[Pending] = w[Pending]
  PROVE  /\ x \in InQueue(w) /\ x \in P /\ InQueue(v) = InQueue(w) \ {x}
         /\ \A p \in InQueue(v) :
              /\ Once(w, None, p, x)
              /\ Once(v, x, p, x) => Twice(w, p, x)
              /\ ~Twice(v, p, x)
              /\ \A q : q # x /\ Once(v, x, p, q) => Once(w, None, p, q)
              /\ \A q : Twice(v, p, q) => Twice(w, p, q)
<1> DEFINE s == w[Active]
           t == Tail(s)
<1>1. s \in Seq(P) /\ IsInjective(s) /\ s # <<>>
  BY DEF Rounds, Active
<1>2. /\ x \in ToSet(s) /\ t \in Seq(P) /\ ToSet(t) = ToSet(s) \ {x}
      /\ \A y, z : Before(t, y, z) => Before(s, y, z)
      /\ \A y \in ToSet(t) : Before(s, x, y)
      /\ \A y, z : Before(t, y, z) => y \in ToSet(t) /\ z \in ToSet(t)
  BY <1>1, ElementsOfTail, BeforeTail, BeforeIn
<1>3. /\ ToSet(s) \cap ToSet(w[Round]) = {} /\ ToSet(s) \cap ToSet(w[Pending]) = {}
      /\ ToSet(w[Round]) \cap ToSet(w[Pending]) = {}
      /\ \A y, z : Before(w[Round], y, z) => y \in ToSet(w[Round])
      /\ \A y, z : Before(w[Pending], y, z) => y \in ToSet(w[Pending])
  BY BeforeIn DEF Rounds, Active, Round, Pending
<1>4. InQueue(w) = ToSet(s) \cup ToSet(w[Round]) \cup ToSet(w[Pending])
  BY DEF InQueue, Rounds, Active, Round, Pending
<1>5. v[Active] = t
  OBVIOUS
<1>6. InQueue(v) = ToSet(t) \cup ToSet(w[Round]) \cup ToSet(w[Pending])
  <2> HIDE DEF t
  <2>1. QED
    BY <1>5 DEF InQueue, Active, Round, Pending
<1>7. x \in P
  BY <1>1, <1>2 DEF ToSet
<1> HIDE DEF t, s
<1>8. x \in InQueue(w) /\ InQueue(v) = InQueue(w) \ {x}
  BY <1>2, <1>3, <1>4, <1>6
<1>9. ASSUME NEW p \in InQueue(v)
      PROVE  /\ Once(w, None, p, x)
             /\ Once(v, x, p, x) => Twice(w, p, x)
             /\ ~Twice(v, p, x)
             /\ \A q : q # x /\ Once(v, x, p, q) => Once(w, None, p, q)
             /\ \A q : Twice(v, p, q) => Twice(w, p, q)
  <2>1. p # x /\ p # None
    <3>1. InQueue(w) \subseteq P
      BY DEF InQueue, Rounds, ToSet
    <3>2. QED
      BY <1>8, <1>9, <3>1
  <2>2. Once(w, None, p, x)
    BY <1>2, <1>6 DEF Once, s
  <2>3. Once(v, x, p, x) => Twice(w, p, x)
    BY <1>2, <1>3, <1>5, <2>1 DEF Once, Twice, s
  <2>4. ~Twice(v, p, x)
    BY <1>2, <1>5 DEF Twice
  <2>5. \A q : q # x /\ Once(v, x, p, q) => Once(w, None, p, q)
    BY <1>2, <1>5, <2>1 DEF Once, s
  <2>6. \A q : Twice(v, p, q) => Twice(w, p, q)
    BY <1>2, <1>5 DEF Twice, s
  <2>7. QED
    BY <2>2, <2>3, <2>4, <2>5, <2>6
<1>10. QED
  BY <1>7, <1>8, <1>9

\* Rounds and queue when a process is put at the end of one list.
LEMMA RoundsGrow ==
  ASSUME NEW P, NEW r, NEW w, Rounds(w, r, P), NEW k \in 1..3,
         NEW p \in P, p \notin InQueue(w), NEW o \in {r, None}, None \notin P, p # o,
         NEW v, v = Push(w, k, p)
  PROVE  /\ Rounds(v, o, P) /\ InQueue(v) = InQueue(w) \cup {p}
         /\ ToSet(v[k]) = ToSet(w[k]) \cup {p}
         /\ \A j \in 1..3 : j # k => v[j] = w[j]
         /\ \A j \in 1..3 : p \notin ToSet(w[j])
<1> DEFINE s == w[k]
           t == Append(s, p)
<1>1. s \in Seq(P) /\ IsInjective(s) /\ DOMAIN w = 1..3 /\ InQueue(w) = UNION {ToSet(w[j]) : j \in 1..3}
  BY DEF Rounds, InQueue
<1>2. \A j \in 1..3 : p \notin ToSet(w[j])
  BY <1>1
<1>3. t \in Seq(P) /\ Inserted(t, s, Len(s) + 1, p) /\ Len(s) + 1 \in 1..(Len(s) + 1)
  BY <1>1, AppendProperties DEF Inserted
<1>4. v = [w EXCEPT ![k] = t]
  BY DEF Push
<1> HIDE DEF t
<1>5. IsInjective(t) /\ ToSet(t) = ToSet(s) \cup {p}
  BY <1>1, <1>2, <1>3, ElementsInserted
<1>6. DOMAIN v = 1..3 /\ v[k] = t /\ \A j \in 1..3 : j # k => v[j] = w[j]
  BY <1>1, <1>4
<1>7. InQueue(v) = UNION {ToSet(v[j]) : j \in 1..3}
  BY <1>6 DEF InQueue
<1> HIDE DEF s
<1>8. ToSet(v[k]) = ToSet(w[k]) \cup {p}
  BY <1>5, <1>6 DEF s
<1>9. InQueue(v) = InQueue(w) \cup {p}
  BY <1>1, <1>6, <1>7, <1>8
<1>10. \A j \in 1..3 : w[j] \in Seq(P) /\ o \notin ToSet(w[j])
  BY DEF Rounds, ToSet
<1>11. \A j \in 1..3 : v[j] \in Seq(P) /\ IsInjective(v[j])
  BY <1>3, <1>5, <1>6 DEF Rounds
<1>12. \A j \in 1..3 : o \notin ToSet(v[j])
  BY <1>6, <1>8, <1>10
<1>13. \A i, j \in 1..3 : i # j => ToSet(v[i]) \cap ToSet(v[j]) = {}
  BY <1>2, <1>6, <1>8 DEF Rounds
<1>14. Rounds(v, o, P)
  BY <1>6, <1>11, <1>12, <1>13 DEF Rounds
<1>15. QED
  BY <1>2, <1>6, <1>8, <1>9, <1>14 DEF s

\* One who is put back waits behind those of the round, and nobody else waits
\* longer than before.
LEMMA TurnPutBack ==
  ASSUME NEW P, None \notin P, NEW r \in P, NEW w, Rounds(w, r, P), NEW v, v = Push(w, Round, r)
  PROVE  /\ Rounds(v, None, P) /\ InQueue(v) = InQueue(w) \cup {r}
         /\ \A p \in InQueue(v), q \in P :
              /\ Once(v, None, p, q) => Once(w, r, p, q)
              /\ Twice(v, p, q) => Twice(w, p, q)
<1>1. r \notin InQueue(w) /\ Round \in 1..3 /\ InQueue(w) \subseteq P
  BY DEF Rounds, InQueue, Round, ToSet
<1>2. /\ Rounds(v, None, P) /\ InQueue(v) = InQueue(w) \cup {r}
      /\ v[Round] = Append(w[Round], r) /\ ToSet(v[Round]) = ToSet(w[Round]) \cup {r}
      /\ v[Active] = w[Active] /\ v[Pending] = w[Pending]
      /\ r \notin ToSet(w[Active]) /\ r \notin ToSet(w[Round]) /\ r \notin ToSet(w[Pending])
  <2>1. Active \in 1..3 /\ Pending \in 1..3 /\ Active # Round /\ Pending # Round
    BY DEF Active, Round, Pending
  <2>2. PICK k \in 1..3, o \in {r, None} : k = Round /\ o = None
    BY <1>1, <2>1
  <2>3. v = Push(w, k, r) /\ r # o
    BY <2>2
  <2>4. Rounds(v, o, P)
    BY <1>1, <2>3, RoundsGrow
  <2>5. InQueue(v) = InQueue(w) \cup {r}
    BY <1>1, <2>3, RoundsGrow
  <2>6. v[Round] = Append(w[Round], r)
    BY <1>1, <2>1 DEF Push, Rounds
  <2>7. ToSet(v[k]) = ToSet(w[k]) \cup {r}
    BY <1>1, <2>3, RoundsGrow
  <2>8. \A j \in 1..3 : j # k => v[j] = w[j]
    BY <1>1, <2>3, RoundsGrow
  <2>9. \A j \in 1..3 : r \notin ToSet(w[j])
    BY <1>1, <2>3, RoundsGrow
  <2>10. QED
    BY <1>1, <2>1, <2>2, <2>4, <2>5, <2>6, <2>7, <2>8, <2>9
<1>3. /\ w[Round] \in Seq(P) /\ w[Active] \in Seq(P)
      /\ \A x, y : Before(v[Round], x, y) => Before(w[Round], x, y) \/ (x \in ToSet(w[Round]) /\ y = r)
  <2>1. w[Round] \in Seq(P) /\ w[Active] \in Seq(P)
    BY DEF Rounds, Round, Active
  <2>2. QED
    BY <1>2, <2>1, BeforeAppend
<1>4. \A x, y : Before(w[Round], x, y) => y \in ToSet(w[Round])
  BY <1>3, BeforeIn
<1>5. ASSUME NEW p \in InQueue(v), NEW q \in P
      PROVE  /\ Once(v, None, p, q) => Once(w, r, p, q)
             /\ Twice(v, p, q) => Twice(w, p, q)
  <2>1. p # None /\ q # None
    BY <1>1, <1>2
  <2>2. Twice(v, p, q) => Twice(w, p, q)
    BY <1>2 DEF Twice
  <2>3. ASSUME Once(v, None, p, q) PROVE Once(w, r, p, q)
    <3>1. CASE Before(v[Active], q, p)
      BY <1>2, <3>1 DEF Once
    <3>2. CASE p \in ToSet(v[Round]) /\ q \in ToSet(v[Active])
      <4>1. p = r \/ p \in ToSet(w[Round])
        BY <1>2, <3>2
      <4>2. q \in ToSet(w[Active])
        BY <1>2, <3>2
      <4>3. QED
        BY <4>1, <4>2 DEF Once
    <3>3. CASE Before(v[Round], q, p)
      <4>1. Before(w[Round], q, p) \/ (q \in ToSet(w[Round]) /\ p = r)
        BY <1>3, <3>3
      <4>2. Before(w[Round], q, p) => p \in ToSet(w[Round])
        BY <1>4
      <4>3. QED
        BY <4>1, <4>2 DEF Once
    <3>4. CASE p \in ToSet(v[Pending]) /\ q \in ToSet(v[Active]) \cup ToSet(v[Round])
      <4>1. p \in ToSet(w[Pending])
        BY <1>2, <3>4
      <4>2. q \in ToSet(w[Active]) \cup ToSet(w[Round]) \cup {r}
        BY <1>2, <3>4
      <4>3. QED
        BY <4>1, <4>2 DEF Once
    <3>5. CASE p \in ToSet(v[Pending]) /\ Before(v[Pending], q, p)
      BY <1>2, <3>5 DEF Once
    <3>6. QED
      BY <2>1, <2>3, <3>1, <3>2, <3>3, <3>4, <3>5 DEF Once
  <2>4. QED
    BY <2>2, <2>3
<1>6. QED
  BY <1>2, <1>5

\* One who arrives waits behind everyone, and nobody else waits longer.
LEMMA TurnOfNew ==
  ASSUME NEW P, None \notin P, NEW r, NEW w, Rounds(w, r, P),
         NEW p \in P, p \notin InQueue(w), p # r, NEW v, v = Push(w, Pending, p)
  PROVE  /\ Rounds(v, r, P) /\ InQueue(v) = InQueue(w) \cup {p}
         /\ \A x \in InQueue(w) \cup {r} : \A q :
              /\ Once(v, r, x, q) => Once(w, r, x, q)
              /\ Twice(v, x, q) => Twice(w, x, q)
         /\ ~Twice(v, p, r)
<1>1. /\ Rounds(v, r, P) /\ InQueue(v) = InQueue(w) \cup {p}
      /\ v[Pending] = Append(w[Pending], p) /\ ToSet(v[Pending]) = ToSet(w[Pending]) \cup {p}
      /\ v[Active] = w[Active] /\ v[Round] = w[Round]
      /\ p \notin ToSet(w[Active]) /\ p \notin ToSet(w[Round]) /\ p \notin ToSet(w[Pending])
  <2>1. /\ Active \in 1..3 /\ Round \in 1..3 /\ Pending \in 1..3
        /\ Active # Pending /\ Pending # Round
    BY DEF Active, Round, Pending
  <2>2. PICK k \in 1..3, o \in {r, None} : k = Pending /\ o = r
    BY <2>1
  <2>3. v = Push(w, k, p) /\ p # o
    BY <2>2
  <2>4. Rounds(v, o, P)
    BY <2>3, RoundsGrow
  <2>5. InQueue(v) = InQueue(w) \cup {p}
    BY <2>3, RoundsGrow
  <2>6. v[Pending] = Append(w[Pending], p)
    BY <2>1 DEF Push, Rounds
  <2>7. ToSet(v[k]) = ToSet(w[k]) \cup {p}
    BY <2>3, RoundsGrow
  <2>8. \A j \in 1..3 : j # k => v[j] = w[j]
    BY <2>3, RoundsGrow
  <2>9. \A j \in 1..3 : p \notin ToSet(w[j])
    BY <2>3, RoundsGrow
  <2>10. QED
    BY <2>1, <2>2, <2>4, <2>5, <2>6, <2>7, <2>8, <2>9
<1>2. w[Pending] \in Seq(P) /\ r \notin ToSet(w[Active])
  BY DEF Rounds, Pending, Active
<1>3. \A x, y : Before(v[Pending], x, y) =>
                  Before(w[Pending], x, y) \/ (x \in ToSet(w[Pending]) /\ y = p)
  BY <1>1, <1>2, BeforeAppend
<1>4. ASSUME NEW x \in InQueue(w) \cup {r}, NEW q
      PROVE  /\ Once(v, r, x, q) => Once(w, r, x, q)
             /\ Twice(v, x, q) => Twice(w, x, q)
  <2>1. x # p
    OBVIOUS
  <2>2. x \in ToSet(v[Pending]) => x \in ToSet(w[Pending])
    BY <1>1, <2>1
  <2>3. Twice(v, x, q) => Twice(w, x, q)
    BY <1>1, <2>2 DEF Twice
  <2>4. Before(v[Pending], q, x) => Before(w[Pending], q, x)
    BY <1>3, <2>1
  <2>5. Once(v, r, x, q) => Once(w, r, x, q)
    BY <1>1, <2>2, <2>4 DEF Once
  <2>6. QED
    BY <2>3, <2>5
<1>5. ~Twice(v, p, r)
  BY <1>1, <1>2 DEF Twice
<1>6. QED
  BY <1>1, <1>4, <1>5

\* The runs of q that start at some time or later, and those since p has last run
\* or has arrived.
SinceIn(g, pr, p) ==
  IF SegmentsIn(g, p) = {} THEN pr[p].arrival_time ELSE g[Max(SegmentsIn(g, p))].end
RunsFrom(g, q, time) == {k \in SegmentsIn(g, q) : g[k].start >= time}
Waited(g, pr, p, q) == Cardinality(RunsFrom(g, q, SinceIn(g, pr, p)))

\* They can be counted.
LEMMA RunsCounted ==
  ASSUME NEW P, NEW g \in Seq(Entries(P))
  PROVE  /\ \A q : \A time : /\ IsFiniteSet(RunsFrom(g, q, time))
                             /\ Cardinality(RunsFrom(g, q, time)) \in Nat
         /\ \A pr : \A p : \A q : Waited(g, pr, p, q) \in Nat
<1>1. Len(g) \in Nat /\ DOMAIN g = 1..Len(g)
  OBVIOUS
<1>2. \A q : \A time : RunsFrom(g, q, time) \subseteq 1..Len(g)
  BY <1>1 DEF RunsFrom, SegmentsIn
<1>3. IsFiniteSet(1..Len(g))
  BY <1>1, FS_Interval
<1>4. ASSUME NEW q, NEW time
      PROVE  /\ IsFiniteSet(RunsFrom(g, q, time))
             /\ Cardinality(RunsFrom(g, q, time)) \in Nat
  BY <1>2, <1>3, FS_Subset, FS_CardinalityType
<1>5. QED
  BY <1>4 DEF Waited

\* There are none if all end before.
LEMMA NoRuns ==
  ASSUME NEW P, NEW g \in Seq(Entries(P)), NEW q, NEW time \in Nat,
         \A k \in 1..Len(g) : g[k].name = q => g[k].start < time
  PROVE  Cardinality(RunsFrom(g, q, time)) = 0
<1>1. \A k \in 1..Len(g) : g[k].start \in Nat
  <2>1. \A k \in 1..Len(g) : g[k] \in Entries(P)
    OBVIOUS
  <2>2. QED
    BY <2>1 DEF Entries
<1>2. RunsFrom(g, q, time) = {}
  BY <1>1 DEF RunsFrom, SegmentsIn
<1>3. QED
  BY <1>2, FS_EmptySet

\* A run more on the chart is one run more of its process, who has run last then.
OneMore(h, g, s, pr) ==
  /\ \A x : \A y : x # s.name =>
       /\ y # s.name => Waited(h, pr, x, y) = Waited(g, pr, x, y)
       /\ Waited(h, pr, x, s.name) <= Waited(g, pr, x, s.name) + 1
  /\ SinceIn(h, pr, s.name) = s.end
  /\ \A x : x # s.name => SegmentsIn(h, x) = SegmentsIn(g, x)
  /\ \A time \in Nat : \A x : x # s.name => RunsFrom(h, x, time) = RunsFrom(g, x, time)
\* This is what drawing a segment does.
LEMMA RunAdded ==
  ASSUME NEW P, NEW g \in Seq(Entries(P)), NEW s \in Entries(P), NEW h, h = Append(g, s),
         NEW pr
  PROVE  OneMore(h, g, s, pr)
<1> DEFINE last == Len(g) + 1
<1>1. /\ SegmentsIn(h, s.name) = SegmentsIn(g, s.name) \cup {last}
      /\ \A x : x # s.name => SegmentsIn(h, x) = SegmentsIn(g, x)
      /\ h[last] = s /\ \A k \in 1..Len(g) : h[k] = g[k]
      /\ \A x : SegmentsIn(g, x) \subseteq 1..Len(g)
  BY SegmentAdded
<1>2. Len(g) \in Nat
  OBVIOUS
<1>3. \A x : \A time : x # s.name => RunsFrom(h, x, time) = RunsFrom(g, x, time)
  BY <1>1 DEF RunsFrom
<1>4. ASSUME NEW time
      PROVE  Cardinality(RunsFrom(h, s.name, time)) <= Cardinality(RunsFrom(g, s.name, time)) + 1
  <2> DEFINE S == RunsFrom(g, s.name, time)
             T == S \cup {last}
  <2>1. RunsFrom(h, s.name, time) \subseteq T
    BY <1>1 DEF RunsFrom
  <2>2. IsFiniteSet(S) /\ Cardinality(S) \in Nat
    BY RunsCounted
  <2> HIDE DEF S
  <2>3. IsFiniteSet(T) /\ Cardinality(T) <= Cardinality(S) + 1 /\ Cardinality(T) \in Nat
    <3>1. /\ IsFiniteSet(T)
          /\ Cardinality(T) = IF last \in S THEN Cardinality(S) ELSE Cardinality(S) + 1
      BY <2>2, FS_AddElement
    <3> HIDE DEF T, last
    <3>2. QED
      BY <2>2, <3>1
  <2> HIDE DEF T
  <2>4. /\ Cardinality(RunsFrom(h, s.name, time)) <= Cardinality(T)
        /\ Cardinality(RunsFrom(h, s.name, time)) \in Nat
    BY <2>1, <2>3, FS_Subset, FS_CardinalityType
  <2>5. QED
    BY <2>2, <2>3, <2>4 DEF S
<1>5. ASSUME NEW x, x # s.name PROVE SinceIn(h, pr, x) = SinceIn(g, pr, x)
  <2>1. SegmentsIn(g, x) # {} => Max(SegmentsIn(g, x)) \in 1..Len(g)
    BY <1>1, <1>2, LastPlace
  <2>2. QED
    BY <1>1, <1>5, <2>1 DEF SinceIn
<1>6. SinceIn(h, pr, s.name) = s.end
  <2>1. Max(SegmentsIn(h, s.name)) = last
    BY <1>1, <1>2, PlacesGrow
  <2>2. QED
    BY <1>1, <2>1 DEF SinceIn
<1>7. QED
  BY <1>1, <1>3, <1>4, <1>5, <1>6 DEF Waited, OneMore

\* What holds of those in line, L: how often q may still run before p is what q
\* has not run yet, as long as the chart has room.
TurnsOK(pr, g, w, r, L, P) ==
  \A p \in L : \A q \in P : p # q =>
    /\ Waited(g, pr, p, q) <= 2
    /\ Len(g) < MaxGantt => /\ Once(w, r, p, q) => Waited(g, pr, p, q) <= 1
                            /\ Twice(w, p, q) => Waited(g, pr, p, q) = 0

\* No segment is empty or begins after now, and only that of the running process
\* r ends after now.
Past(g, r, now) ==
  \A k \in 1..Len(g) : /\ g[k].start < g[k].end /\ g[k].start <= now
                       /\ g[k].name # r => g[k].end <= now
InLineFor(pr, r, w, P) == InQueue(w) \cup {p \in P : p = r /\ pr[p].remaining_time > 0}
Turns(pr, r, w, q, g, now, P) ==
  /\ Past(g, r, now)
  /\ \A x \in Arriving(q) : SegmentsIn(g, x) = {}
  /\ TurnsOK(pr, g, w, r, InLineFor(pr, r, w, P), P)

\* One who arrives has waited for nobody, unless one who gets the CPU at the same
\* moment came first.
LEMMA ArriverWaits ==
  ASSUME NEW P, NEW now \in Nat, NEW g, NEW e, ChartOK(g, e, P), NEW r, Past(g, r, now),
         NEW x, SegmentsIn(g, x) = {}, NEW pr, pr[x].arrival_time \in Nat,
         now <= pr[x].arrival_time
  PROVE  \A q : /\ q # r => Waited(g, pr, x, q) = 0
                /\ Waited(g, pr, x, q) <= 1
<1> DEFINE time == pr[x].arrival_time
<1>1. SUFFICES ASSUME NEW q
               PROVE  /\ q # r => Waited(g, pr, x, q) = 0
                      /\ Waited(g, pr, x, q) <= 1
  OBVIOUS
<1>2. Waited(g, pr, x, q) = Cardinality(RunsFrom(g, q, time))
  BY DEF Waited, SinceIn
<1>3. time \in Nat /\ now <= time
  OBVIOUS
<1> HIDE DEF time
<1>4. /\ g \in Seq(Entries(P)) /\ Len(g) \in Nat
      /\ \A k \in 1..Len(g) : g[k].start \in Nat /\ g[k].end \in Nat
      /\ \A k \in 1..Len(g) : g[k].start < g[k].end /\ g[k].start <= now
  <2>1. g \in Seq(Entries(P)) /\ Len(g) \in Nat
    BY DEF ChartOK
  <2>2. \A k \in 1..Len(g) : g[k].start \in Nat /\ g[k].end \in Nat
    BY ChartTimes
  <2>3. \A k \in 1..Len(g) : g[k].start < g[k].end /\ g[k].start <= now
    BY DEF Past
  <2>4. QED
    BY <2>1, <2>2, <2>3
<1>5. ASSUME q # r PROVE Cardinality(RunsFrom(g, q, time)) = 0
  <2>1. \A k \in 1..Len(g) : g[k].name = q => g[k].start < time
    <3>1. SUFFICES ASSUME NEW k \in 1..Len(g), g[k].name = q PROVE g[k].start < time
      OBVIOUS
    <3>2. g[k].end <= now
      BY <1>5, <3>1 DEF Past
    <3>3. QED
      BY <1>3, <1>4, <3>2
  <2>2. QED
    BY <1>3, <1>4, <2>1, NoRuns
<1>6. Cardinality(RunsFrom(g, q, time)) <= 1
  <2> DEFINE T == {Len(g)}
             S == RunsFrom(g, q, time)
  <2>1. ASSUME NEW k \in S PROVE k = Len(g)
    <3>1. k \in 1..Len(g) /\ g[k].start >= time
      BY <1>4 DEF RunsFrom, SegmentsIn
    <3>2. CASE k < Len(g)
      <4>1. k + 1 \in 2..Len(g) /\ k + 1 \in 1..Len(g) /\ (k + 1) - 1 = k
        BY <1>4, <3>1, <3>2
      <4>2. g[k].end <= g[k + 1].start
        BY <4>1 DEF ChartOK
      <4>3. g[k + 1].start <= now /\ g[k + 1].start \in Nat /\ g[k].start < g[k].end
            /\ g[k].start \in Nat /\ g[k].end \in Nat
        BY <1>4, <3>1, <4>1
      <4>4. QED
        BY <1>3, <3>1, <4>2, <4>3
    <3>3. QED
      BY <1>4, <3>1, <3>2
  <2>2. S \subseteq T
    BY <2>1
  <2> HIDE DEF S
  <2>3. IsFiniteSet(T) /\ Cardinality(T) = 1
    BY FS_Singleton
  <2> HIDE DEF T
  <2>4. QED
    BY <2>2, <2>3, FS_Subset DEF S
<1>7. QED
  BY <1>2, <1>5, <1>6

\* What is counted depends on the records only through the time of arrival.
LEMMA SameWaits ==
  ASSUME NEW pr, NEW pr2, NEW x, pr2[x].arrival_time = pr[x].arrival_time
  PROVE  \A g : \A y : Waited(g, pr2, x, y) = Waited(g, pr, x, y)
BY DEF Waited, SinceIn

\* What those in the queue v, and p, may still expect when p gets the CPU.
Expects(pr, g, v, p, P) ==
  /\ \A y \in P : y # p => Waited(g, pr, p, y) <= 2
  /\ \A x \in InQueue(v) : \A y \in P : x # y =>
       /\ Waited(g, pr, x, y) <= 2
       /\ Len(g) < MaxGantt =>
            /\ y = p => Waited(g, pr, x, y) <= 1
            /\ Once(v, p, x, y) => Waited(g, pr, x, y) <= 1 /\ (y = p => Waited(g, pr, x, y) = 0)
            /\ Twice(v, x, y) => Waited(g, pr, x, y) = 0 /\ y # p

\* RR puts p on the CPU: it has had its turn, and is the last of the others.
LEMMA RunTakesTurn ==
  ASSUME SettingsOK, scheduler = "rr", NEW n \in Nat, NEW pr, RecordsOK(pr, 1..n),
         NEW q \in Seq(EventsOf(1..n)), Now \in Nat,
         ChartOK(gantt, Now, 1..n), Past(gantt, None, Now),
         NEW p \in 1..n, NEW v, InQueue(v) \subseteq 1..n, p \notin InQueue(v),
         Expects(pr, gantt, v, p, 1..n), Dispatch(p, pr, v, q)
  PROVE  /\ Past(gantt', p, Now)
         /\ \A x : x # p => SegmentsIn(gantt', x) = SegmentsIn(gantt, x)
         /\ TurnsOK(proc', gantt', v, p, InLineFor(proc', p, v, 1..n), 1..n)
<1> DEFINE P == 1..n
           run == RunTime(pr[p], Now, q)
           s == [name |-> p, start |-> Now, end |-> Now + run]
<1>1. /\ run \in Nat /\ run <= pr[p].remaining_time /\ SameTimes(pr, proc')
      /\ proc'[p].remaining_time = pr[p].remaining_time - run
  BY DispatchCharges
<1>2. gantt' = Drawn(p, run)
  BY DEF Dispatch
<1>3. pr[p].remaining_time \in Nat /\ DOMAIN pr = P
  BY DEF RecordsOK, Records
<1>4. run = AtMost(pr[p].remaining_time, quantum_time) /\ quantum_time \in Nat \ {0}
  BY DEF RunTime, SettingsOK
<1> HIDE DEF run
<1>5. proc'[p].remaining_time > 0 => run > 0
  BY <1>1, <1>3, <1>4 DEF AtMost
<1>6. /\ gantt \in Seq(Entries(P)) /\ Len(gantt) \in Nat
      /\ \A x : \A y : Waited(gantt, pr, x, y) \in Nat
      /\ MaxGantt \in Nat
  <2>1. gantt \in Seq(Entries(P))
    BY DEF ChartOK
  <2>2. QED
    BY <2>1, RunsCounted, EngineAssumption
<1>7. \A x \in P : \A g : \A y : Waited(g, proc', x, y) = Waited(g, pr, x, y)
  <2>1. SUFFICES ASSUME NEW x \in P PROVE \A g : \A y : Waited(g, proc', x, y) = Waited(g, pr, x, y)
    OBVIOUS
  <2>2. proc'[x].arrival_time = pr[x].arrival_time
    BY <1>1, <1>3 DEF SameTimes
  <2>3. QED
    BY <2>2, SameWaits
<1>8. CASE run > 0 /\ Len(gantt) < MaxGantt
  <2>1. gantt' = Append(gantt, s)
    BY <1>1, <1>2, <1>6, <1>8 DEF Drawn
  <2>2. s \in Entries(P) /\ s.name = p /\ s.start = Now /\ s.end = Now + run
    BY <1>1 DEF Entries
  <2> HIDE DEF s
  <2>3. Len(gantt') = Len(gantt) + 1 /\ gantt'[Len(gantt) + 1] = s
        /\ \A k \in 1..Len(gantt) : gantt'[k] = gantt[k]
    BY <1>6, <2>1, <2>2
  <2>4. \A k \in 1..Len(gantt) : gantt[k].start < gantt[k].end /\ gantt[k].start <= Now
                                 /\ gantt[k].end <= Now
    BY DEF Past, ChartOK
  <2>5. Past(gantt', p, Now)
    <3>1. SUFFICES ASSUME NEW k \in 1..Len(gantt')
                   PROVE  /\ gantt'[k].start < gantt'[k].end /\ gantt'[k].start <= Now
                          /\ gantt'[k].name # p => gantt'[k].end <= Now
      BY DEF Past
    <3>2. CASE k \in 1..Len(gantt)
      BY <2>3, <2>4, <3>2
    <3>3. CASE k = Len(gantt) + 1
      BY <1>1, <1>8, <2>2, <2>3, <3>3
    <3>4. QED
      BY <1>6, <2>3, <3>2, <3>3
  <2>6. /\ \A x : \A y : x # p =>
             /\ y # p => Waited(gantt', pr, x, y) = Waited(gantt, pr, x, y)
             /\ Waited(gantt', pr, x, p) <= Waited(gantt, pr, x, p) + 1
        /\ SinceIn(gantt', pr, p) = Now + run
        /\ \A x : x # p => SegmentsIn(gantt', x) = SegmentsIn(gantt, x)
        /\ \A time \in Nat : \A x : x # p => RunsFrom(gantt', x, time) = RunsFrom(gantt, x, time)
    <3>1. /\ \A x : \A y : x # s.name =>
               /\ y # s.name => Waited(gantt', pr, x, y) = Waited(gantt, pr, x, y)
               /\ Waited(gantt', pr, x, s.name) <= Waited(gantt, pr, x, s.name) + 1
          /\ SinceIn(gantt', pr, s.name) = s.end
          /\ \A x : x # s.name => SegmentsIn(gantt', x) = SegmentsIn(gantt, x)
          /\ \A time \in Nat : \A x : x # s.name =>
               RunsFrom(gantt', x, time) = RunsFrom(gantt, x, time)
      <4>1. PICK h : h = gantt'
        OBVIOUS
      <4>2. h = Append(gantt, s)
        BY <2>1, <4>1
      <4>3. OneMore(h, gantt, s, pr)
        BY <1>6, <2>2, <4>2, RunAdded
      <4>4. QED
        BY <4>1, <4>3 DEF OneMore
    <3>2. QED
      BY <2>2, <3>1
  <2>7. \A y \in P : y # p => Waited(gantt', pr, p, y) = 0
    <3>1. SUFFICES ASSUME NEW y \in P, y # p
                   PROVE  Cardinality(RunsFrom(gantt', y, Now + run)) = 0
      BY <2>6 DEF Waited
    <3>2. Now + run \in Nat /\ Now < Now + run
      BY <1>1, <1>8
    <3>3. RunsFrom(gantt', y, Now + run) = RunsFrom(gantt, y, Now + run)
      BY <2>6, <3>1, <3>2
    <3>4. \A k \in 1..Len(gantt) : gantt[k].start < Now + run
      <4>1. \A k \in 1..Len(gantt) : gantt[k].start \in Nat
        BY ChartTimes
      <4>2. QED
        BY <1>1, <2>4, <3>2, <4>1
    <3>5. Cardinality(RunsFrom(gantt, y, Now + run)) = 0
      BY <1>6, <3>2, <3>4, NoRuns
    <3>6. QED
      BY <3>3, <3>5
  <2>8. gantt' \in Seq(Entries(P))
    BY <1>6, <2>1, <2>2
  <2>9. \A x : \A y : Waited(gantt', pr, x, y) \in Nat
    BY <2>8, RunsCounted
  <2>10. ASSUME NEW x \in InLineFor(proc', p, v, P), NEW y \in P, x # y
         PROVE  /\ Waited(gantt', proc', x, y) <= 2
                /\ Once(v, p, x, y) => Waited(gantt', proc', x, y) <= 1
                /\ Twice(v, x, y) => Waited(gantt', proc', x, y) = 0
    <3>1. x \in P /\ Waited(gantt', proc', x, y) = Waited(gantt', pr, x, y)
      BY <1>7, <2>10 DEF InLineFor
    <3>2. CASE x = p
      BY <2>7, <2>10, <3>1, <3>2
    <3>3. CASE x # p
      <4> DEFINE N == Waited(gantt, pr, x, y)
                 M == Waited(gantt', pr, x, y)
      <4>1. x \in InQueue(v)
        BY <2>10, <3>3 DEF InLineFor
      <4>2. /\ N <= 2 /\ (y = p => N <= 1)
            /\ Once(v, p, x, y) => N <= 1 /\ (y = p => N = 0)
            /\ Twice(v, x, y) => N = 0 /\ y # p
        BY <1>8, <2>10, <4>1 DEF Expects
      <4>3. N \in Nat /\ M \in Nat
        BY <1>6, <2>9
      <4>4. (y # p => M = N) /\ (y = p => M <= N + 1)
        BY <2>6, <3>3
      <4> HIDE DEF N, M
      <4>5. /\ M <= 2
            /\ Once(v, p, x, y) => M <= 1
            /\ Twice(v, x, y) => M = 0
        BY <4>2, <4>3, <4>4
      <4>6. QED
        BY <3>1, <4>5 DEF M
    <3>4. QED
      BY <3>2, <3>3
  <2>11. QED
    BY <2>5, <2>6, <2>10 DEF TurnsOK
<1>9. CASE ~(run > 0 /\ Len(gantt) < MaxGantt)
  <2>1. gantt' = gantt
    BY <1>1, <1>2, <1>6, <1>9 DEF Drawn
  <2>2. Past(gantt', p, Now)
    BY <2>1 DEF Past, ChartOK
  <2>3. ASSUME NEW x \in InLineFor(proc', p, v, P), NEW y \in P, x # y
        PROVE  /\ Waited(gantt', proc', x, y) <= 2
               /\ Len(gantt') < MaxGantt =>
                    /\ Once(v, p, x, y) => Waited(gantt', proc', x, y) <= 1
                    /\ Twice(v, x, y) => Waited(gantt', proc', x, y) = 0
    <3>1. x \in P /\ Waited(gantt', proc', x, y) = Waited(gantt, pr, x, y)
      BY <1>7, <2>1, <2>3 DEF InLineFor
    <3>2. CASE x \in InQueue(v)
      BY <2>1, <2>3, <3>1, <3>2 DEF Expects
    <3>3. CASE x = p /\ proc'[p].remaining_time > 0
      <4>1. ~(Len(gantt') < MaxGantt)
        BY <1>5, <1>9, <2>1, <3>3
      <4>2. QED
        BY <2>3, <3>1, <3>3, <4>1 DEF Expects
    <3>4. QED
      BY <2>3, <3>2, <3>3 DEF InLineFor
  <2>4. QED
    BY <2>1, <2>2, <2>3 DEF TurnsOK
<1>10. QED
  BY <1>8, <1>9

\* The end of a run is no arrival.
LEMMA SameArrivals ==
  ASSUME SettingsOK, NEW n \in Nat, NEW pr, RecordsOK(pr, 1..n), NEW p \in 1..n,
         NEW q, EventsOK(q, 1..n), Now \in Nat, NEW w, Dispatch(p, pr, w, q)
  PROVE  Arriving(event_queue') = Arriving(q) /\ running' = p /\ waiting' = w
<1> DEFINE P == 1..n
           run == RunTime(pr[p], Now, q)
           type == IF proc'[p].remaining_time = 0 THEN "COMPLETION" ELSE "QUANTUM_EXPIRE"
           f == Event(Now + run, type, p)
<1>1. q \in Seq(EventsOf(P))
  BY DEF EventsOK
<1>2. run \in Nat
  BY <1>1, DispatchCharges
<1>3. /\ event_queue' = EnqueueEvent(q, f, proc', SortsByRemaining(scheduler))
      /\ running' = p /\ waiting' = w
  BY DEF Dispatch
<1> HIDE DEF run
<1>4. f \in EventsOf(P) /\ f.type # "ARRIVAL"
  BY <1>2 DEF Event, EventsOf, EventTypes
<1> HIDE DEF f
<1>5. QED
  BY <1>3, <1>4, EnqueuedOK

\* RR puts p on the CPU and leaves the others of the queue and those to arrive.
LEMMA DispatchTurns ==
  ASSUME SettingsOK, scheduler = "rr", NEW n \in Nat, NEW pr, RecordsOK(pr, 1..n),
         NEW q, EventsOK(q, 1..n), Now \in Nat,
         ChartOK(gantt, Now, 1..n), Past(gantt, None, Now),
         NEW p \in 1..n, NEW v, InQueue(v) \subseteq 1..n, p \notin InQueue(v),
         p \notin Arriving(q), \A x \in Arriving(q) : SegmentsIn(gantt, x) = {},
         Expects(pr, gantt, v, p, 1..n), Dispatch(p, pr, v, q)
  PROVE  Turns(proc', running', waiting', event_queue', gantt', Now, 1..n)
<1>1. Arriving(event_queue') = Arriving(q) /\ running' = p /\ waiting' = v
  BY SameArrivals
<1>2. q \in Seq(EventsOf(1..n))
  BY DEF EventsOK
<1>3. /\ Past(gantt', p, Now)
      /\ \A x : x # p => SegmentsIn(gantt', x) = SegmentsIn(gantt, x)
      /\ TurnsOK(proc', gantt', v, p, InLineFor(proc', p, v, 1..n), 1..n)
  BY <1>2, RunTakesTurn
<1>4. \A x \in Arriving(event_queue') : SegmentsIn(gantt', x) = {}
  BY <1>1, <1>3
<1>5. QED
  BY <1>1, <1>3, <1>4 DEF Turns

\* The queue of RR is its three lists.
LEMMA RoundsOfGood ==
  ASSUME scheduler = "rr", NEW P, None \notin P, NEW r, NEW w \in Lists(ListCount, P), Distinct(w),
         r \notin InQueue(w)
  PROVE  Rounds(w, r, P) /\ InQueue(w) \subseteq P
<1>1. ListCount = 3
  BY DEF ListCount, NumLists
<1>2. DOMAIN w = 1..3 /\ \A k \in 1..3 : w[k] \in Seq(P)
  BY <1>1 DEF Lists
<1>3. InQueue(w) = UNION {ToSet(w[k]) : k \in 1..3}
  BY <1>2 DEF InQueue
<1>4. \A k \in 1..3 : r \notin ToSet(w[k])
  BY <1>3
<1>5. Rounds(w, r, P)
  BY <1>2, <1>4 DEF Rounds, Distinct
<1>6. InQueue(w) \subseteq P
  BY <1>2, <1>3 DEF ToSet
<1>7. QED
  BY <1>5, <1>6

\* When the CPU is free the first in turn gets it, and nobody else if there is none.
LEMMA NextTurns ==
  ASSUME SettingsOK, scheduler = "rr", NEW n \in Nat, NEW pr, NEW w, NEW q,
         Good(pr, None, w, q, 1..n), Now \in Nat,
         ChartOK(gantt, Now, 1..n), Past(gantt, None, Now),
         TurnsOK(pr, gantt, w, None, InQueue(w), 1..n),
         \A x \in Arriving(q) : SegmentsIn(gantt, x) = {},
         DispatchNext(pr, w, q)
  PROVE  Turns(proc', running', waiting', event_queue', gantt', Now, 1..n)
<1> DEFINE P == 1..n
<1>1. None \notin P
  BY EngineAssumption
<1>2. /\ RecordsOK(pr, P) /\ EventsOK(q, P)
      /\ w \in Lists(ListCount, P) /\ Distinct(w) /\ None \notin InQueue(w)
      /\ Arriving(q) \cap InQueue(w) = {}
  BY DEF Good, PlacesOK
<1> HIDE DEF P
<1>3. Rounds(w, None, P) /\ InQueue(w) \subseteq P
  BY <1>1, <1>2, RoundsOfGood
<1>4. CASE IsEmpty(w)
  <2>1. running' = None /\ waiting' = w /\ proc' = pr /\ event_queue' = q /\ gantt' = gantt
    BY <1>4 DEF DispatchNext
  <2>2. InLineFor(pr, None, w, P) = InQueue(w)
    BY <1>1 DEF InLineFor
  <2>3. QED
    BY <2>1, <2>2 DEF Turns, P
<1>5. CASE ~IsEmpty(w)
  <2> DEFINE u == Turned("rr", w)
             p == Head(u[Active])
             v == [u EXCEPT ![Active] = Tail(@)]
  <2>1. InQueue(w) # {}
    <3>1. scheduler \in AlgorithmNames /\ LevelsTyped
      BY DEF AlgorithmNames, LevelsTyped
    <3>2. Taken(scheduler, w) \in InQueue(w)
      BY <1>2, <1>5, <3>1, DequeuedWaiting
    <3>3. QED
      BY <3>2
  <2>2. /\ Rounds(u, None, P) /\ InQueue(u) = InQueue(w) /\ u[Active] # <<>>
        /\ \A x, y : Once(u, None, x, y) /\ x # None => Once(w, None, x, y)
        /\ \A x, y : Twice(u, x, y) => Twice(w, x, y)
    BY <1>3, <2>1, TurnOfRound
  <2> HIDE DEF u
  <2>3. Taken(scheduler, w) = p /\ Left(scheduler, w) = v
    <3>1. FirstList(u) = Active
      <4>1. 1 \in {k \in DOMAIN u : u[k] # <<>>} /\ {k \in DOMAIN u : u[k] # <<>>} \subseteq 1..3
        BY <2>2 DEF Rounds, Active
      <4>2. Min({k \in DOMAIN u : u[k] # <<>>}) = 1
        <5> DEFINE T == {k \in DOMAIN u : u[k] # <<>>}
        <5>1. T # {} /\ T \subseteq 1..3 /\ 1 \in T
          BY <4>1
        <5> HIDE DEF T
        <5>2. Min(T) \in T /\ Min(T) <= 1
          BY <5>1, LeastPosition
        <5>3. Min(T) \in 1..3
          BY <5>1, <5>2
        <5>4. Min(T) = 1
          BY <5>2, <5>3
        <5>5. QED
          BY <5>4 DEF T
      <4>3. QED
        BY <4>2 DEF FirstList, Active
    <3>2. QED
      BY <3>1 DEF Taken, Left, u
  <2>4. Dispatch(p, pr, v, q)
    BY <1>5, <2>3 DEF DispatchNext
  <2>5. DOMAIN v = 1..3 /\ v[Active] = Tail(u[Active]) /\ v[Round] = u[Round]
        /\ v[Pending] = u[Pending]
    BY <2>2 DEF Rounds, Active, Round, Pending
  <2> HIDE DEF p, v
  <2>6. /\ p \in InQueue(u) /\ p \in P /\ InQueue(v) = InQueue(u) \ {p}
        /\ \A x \in InQueue(v) :
             /\ Once(u, None, x, p)
             /\ Once(v, p, x, p) => Twice(u, x, p)
             /\ ~Twice(v, x, p)
             /\ \A y : y # p /\ Once(v, p, x, y) => Once(u, None, x, y)
             /\ \A y : Twice(v, x, y) => Twice(u, x, y)
    BY <1>1, <2>2, <2>5, TurnOfHead DEF p
  <2>7. InQueue(v) \subseteq P /\ p \notin InQueue(v) /\ p \notin Arriving(q)
    BY <1>2, <1>3, <2>2, <2>6
  <2>8. Expects(pr, gantt, v, p, P)
    <3>1. \A y \in P : y # p => Waited(gantt, pr, p, y) <= 2
      BY <2>2, <2>6 DEF TurnsOK, P
    <3>2. ASSUME NEW x \in InQueue(v), NEW y \in P, x # y
          PROVE  /\ Waited(gantt, pr, x, y) <= 2
                 /\ Len(gantt) < MaxGantt =>
                      /\ Once(w, None, x, y) => Waited(gantt, pr, x, y) <= 1
                      /\ Twice(w, x, y) => Waited(gantt, pr, x, y) = 0
      <4>1. x \in InQueue(w)
        BY <2>2, <2>6
      <4>2. QED
        BY <3>2, <4>1 DEF TurnsOK, P
    <3>3. \A x \in InQueue(v) : x # None
      BY <1>1, <2>7
    <3>4. ASSUME NEW x \in InQueue(v), NEW y \in P, x # y, Len(gantt) < MaxGantt
          PROVE  /\ y = p => Waited(gantt, pr, x, y) <= 1
                 /\ Once(v, p, x, y) => Waited(gantt, pr, x, y) <= 1
                                        /\ (y = p => Waited(gantt, pr, x, y) = 0)
                 /\ Twice(v, x, y) => Waited(gantt, pr, x, y) = 0 /\ y # p
      <4>1. y = p => Waited(gantt, pr, x, y) <= 1
        BY <2>2, <2>6, <3>2, <3>3, <3>4
      <4>2. Once(v, p, x, y) /\ y = p => Waited(gantt, pr, x, y) = 0
        BY <2>2, <2>6, <3>2, <3>4
      <4>3. Once(v, p, x, y) /\ y # p => Waited(gantt, pr, x, y) <= 1
        BY <2>2, <2>6, <3>2, <3>3, <3>4
      <4>4. Twice(v, x, y) => Waited(gantt, pr, x, y) = 0 /\ y # p
        BY <2>2, <2>6, <3>2, <3>4
      <4>5. QED
        BY <4>1, <4>2, <4>3, <4>4
    <3>5. QED
      BY <3>1, <3>2, <3>4 DEF Expects
  <2>9. QED
    BY <1>2, <2>4, <2>6, <2>7, <2>8, DispatchTurns DEF P
<1>6. QED
  BY <1>4, <1>5

\* What a step of the simulator under RR may be.
LEMMA RRStep ==
  ASSUME scheduler = "rr", NEW n \in Nat, Good(proc, running, waiting, event_queue, 1..n),
         NEW e \in Nat, OnCpu(e, 1..n), Simulate
  PROVE  \/ /\ UNCHANGED <<proc, running, waiting, gantt, event_queue, current_time>>
         \/ /\ event_queue # <<>> /\ current_time' = Now
            /\ \/ /\ Head(event_queue).type = "ARRIVAL"
                  /\ running = None /\ IsEmpty(waiting)
                  /\ Dispatch(Subject, proc, waiting, Tail(event_queue))
               \/ /\ Head(event_queue).type = "ARRIVAL"
                  /\ running # None
                  /\ waiting' = Push(waiting, Pending, Subject)
                  /\ event_queue' = Tail(event_queue)
                  /\ UNCHANGED <<running, proc, gantt>>
               \/ /\ Head(event_queue).type = "COMPLETION"
                  /\ DispatchNext(FinishRunning(Now), waiting, Tail(event_queue))
               \/ /\ Head(event_queue).type = "QUANTUM_EXPIRE"
                  /\ running # None /\ proc[running].remaining_time > 0
                  /\ DispatchNext(proc, Push(waiting, Round, running), Tail(event_queue))
<1>1. /\ event_queue \in Seq(Planned(proc, 1..n)) /\ (running = None => IsEmpty(waiting))
      /\ Served(proc, running, waiting, event_queue, gantt, e, 1..n)
  BY DEF OnCpu, Served
<1>2. event_queue # <<>> => Head(event_queue).type # "PRIORITY_BOOST"
  <2> SUFFICES ASSUME event_queue # <<>> PROVE Head(event_queue).type # "PRIORITY_BOOST"
    OBVIOUS
  <2>1. Head(event_queue) \in Planned(proc, 1..n)
    BY <1>1, TailRemoves
  <2>2. QED
    BY <2>1 DEF Planned, PlannedFor
<1>3. CASE handle_arrival
  <2>1. ~Preempts(Subject)
    BY DEF Preempts
  <2>2. Enqueue(scheduler, waiting, Subject, proc) = Push(waiting, Pending, Subject)
    BY DEF Enqueue
  <2>3. QED
    BY <1>1, <1>3, <2>1, <2>2 DEF handle_arrival, Handle, ArrivalDispatches, ArrivalPreempts,
                                  ArrivalWaits
<1>4. CASE handle_completion
  BY <1>4 DEF handle_completion, Handle
<1>5. CASE handle_quantum_expire
  <2>1. /\ event_queue # <<>> /\ Head(event_queue).type = "QUANTUM_EXPIRE"
        /\ current_time' = Now /\ DispatchNext(AfterDemotion, PutBack, Tail(event_queue))
    BY <1>5 DEF handle_quantum_expire, Handle
  <2>2. running # None /\ proc[running].remaining_time # 0
    BY <1>1, <2>1, FirstServed DEF IsCpuEvent
  <2>3. running \in 1..n
    BY <2>2 DEF Good, PlacesOK
  <2>4. proc[running].remaining_time \in Nat
    BY <2>3 DEF Good, RecordsOK, Records
  <2>5. AfterDemotion = proc /\ PutBack = Push(waiting, Round, running)
    BY <2>2 DEF AfterDemotion, Demoted, PutBack, Requeue
  <2>6. proc[running].remaining_time > 0
    BY <2>2, <2>4
  <2>7. QED
    BY <2>1, <2>2, <2>5, <2>6
<1>6. CASE handle_priority_boost
  BY <1>2, <1>6 DEF handle_priority_boost, Handle
<1>7. CASE Report
  BY <1>7, ReportIdle DEF Report
<1>8. QED
  BY <1>3, <1>4, <1>5, <1>6, <1>7 DEF Simulate

\* The first event, the others, and what holds when it is handled.
LEMMA TurnsAtEvent ==
  ASSUME NEW n \in Nat, Good(proc, running, waiting, event_queue, 1..n),
         NoneBefore(event_queue, current_time), current_time \in Nat, event_queue # <<>>,
         NEW e \in Nat, OnCpu(e, 1..n),
         Turns(proc, running, waiting, event_queue, gantt, current_time, 1..n)
  PROVE  LET t == Tail(event_queue)
         IN  /\ Now \in Nat /\ current_time <= Now
             /\ Good(proc, running, waiting, t, 1..n)
             /\ Past(gantt, running, Now)
             /\ \A x \in Arriving(t) : SegmentsIn(gantt, x) = {}
             /\ ChartOK(gantt, e, 1..n) /\ (running = None => ChartOK(gantt, Now, 1..n))
             /\ IsCpuEvent(Head(event_queue)) => running # None /\ Now = e
             /\ Head(event_queue).type = "ARRIVAL" =>
                  /\ Subject \in 1..n /\ Subject \notin InQueue(waiting) /\ Subject # running
                  /\ Subject \notin Arriving(t)
                  /\ SegmentsIn(gantt, Subject) = {} /\ proc[Subject].arrival_time = Now
<1> DEFINE P == 1..n
           q == event_queue
           t == Tail(event_queue)
<1>1. None \notin P
  BY EngineAssumption
<1>2. /\ Now \in Nat /\ Good(proc, running, waiting, t, P) /\ current_time <= Now
      /\ Head(q).type = "ARRIVAL" =>
           /\ Subject \in P /\ Subject \notin InQueue(waiting) /\ Subject # running
           /\ Subject \notin Arriving(t)
  BY <1>1, FirstEvent
<1>3. Served(proc, running, waiting, event_queue, gantt, e, P) /\ (running = None => e <= current_time)
  BY DEF OnCpu
<1>4. ChartOK(gantt, e, P)
  BY <1>3 DEF Served
<1>5. running = None => ChartOK(gantt, Now, P)
  BY <1>2, <1>3, <1>4, ChartLater
<1>6. /\ IsCpuEvent(Head(q)) => running # None /\ Now = e
      /\ Head(q).type = "ARRIVAL" => Now = proc[Subject].arrival_time
  BY <1>3, FirstServed
<1>7. q \in Seq(EventsOf(P)) /\ EventsOK(q, P)
  BY DEF Good, EventsOK
<1>8. /\ t \in Seq(EventsOf(P)) /\ Removed(t, q, 1) /\ Len(q) \in Nat \ {0} /\ Head(q) = q[1]
      /\ 1 \in 1..Len(q)
  <2>1. /\ t \in Seq(EventsOf(P)) /\ Removed(t, q, 1) /\ Len(q) \in Nat \ {0} /\ Head(q) = q[1]
    BY <1>7, TailRemoves
  <2>2. QED
    BY <2>1
<1>9. Arriving(t) = IF q[1].type = "ARRIVAL" THEN Arriving(q) \ {q[1].process} ELSE Arriving(q)
  BY <1>7, <1>8, RemovedOK
<1>10. q[1].type = "ARRIVAL" => Subject \in Arriving(q)
  BY <1>8 DEF Arriving, Subject
<1>11. \A x \in Arriving(q) : SegmentsIn(gantt, x) = {}
  BY DEF Turns
<1>12. Past(gantt, running, Now)
  <2>1. \A k \in 1..Len(gantt) : gantt[k].start \in Nat /\ gantt[k].end \in Nat
    BY <1>4, ChartTimes
  <2>2. Past(gantt, running, current_time)
    BY DEF Turns
  <2>3. SUFFICES ASSUME NEW k \in 1..Len(gantt)
                 PROVE  /\ gantt[k].start < gantt[k].end /\ gantt[k].start <= Now
                        /\ gantt[k].name # running => gantt[k].end <= Now
    BY DEF Past
  <2>4. /\ gantt[k].start < gantt[k].end /\ gantt[k].start <= current_time
        /\ gantt[k].name # running => gantt[k].end <= current_time
    BY <2>2 DEF Past
  <2>5. QED
    BY <1>2, <2>1, <2>4
<1> HIDE DEF t
<1>13. QED
  BY <1>2, <1>4, <1>5, <1>6, <1>8, <1>9, <1>10, <1>11, <1>12 DEF t

\* handle_arrival when the CPU is free for the process that arrives.
LEMMA ArrivalTurns ==
  ASSUME SettingsOK, scheduler = "rr", NEW n \in Nat,
         Good(proc, running, waiting, event_queue, 1..n),
         NoneBefore(event_queue, current_time), current_time \in Nat, event_queue # <<>>,
         NEW e \in Nat, OnCpu(e, 1..n),
         Turns(proc, running, waiting, event_queue, gantt, current_time, 1..n),
         Head(event_queue).type = "ARRIVAL", running = None, IsEmpty(waiting),
         Dispatch(Subject, proc, waiting, Tail(event_queue))
  PROVE  Turns(proc', running', waiting', event_queue', gantt', Now, 1..n)
<1> DEFINE P == 1..n
           s == Subject
           t == Tail(event_queue)
<1>1. None \notin P
  BY EngineAssumption
<1>2. /\ Now \in Nat /\ current_time <= Now
      /\ Good(proc, running, waiting, t, P)
      /\ Past(gantt, None, Now) /\ ChartOK(gantt, Now, P)
      /\ \A x \in Arriving(t) : SegmentsIn(gantt, x) = {}
      /\ s \in P /\ s \notin InQueue(waiting) /\ s \notin Arriving(t)
      /\ SegmentsIn(gantt, s) = {} /\ proc[s].arrival_time = Now
  BY TurnsAtEvent
<1>3. InQueue(waiting) = {}
  <2>1. \A k \in DOMAIN waiting : ToSet(waiting[k]) = {}
    <3>1. ToSet(<<>>) = {}
      BY DEF ToSet
    <3>2. QED
      BY <3>1 DEF IsEmpty
  <2>2. QED
    BY <2>1 DEF InQueue
<1> HIDE DEF s, t, P
<1>4. \A y : Waited(gantt, proc, s, y) <= 1 /\ (y # None => Waited(gantt, proc, s, y) = 0)
  BY <1>2, ArriverWaits
<1>5. Expects(proc, gantt, waiting, s, P)
  <2>1. \A y \in P : Waited(gantt, proc, s, y) = 0
    BY <1>1, <1>4
  <2>2. QED
    BY <1>3, <2>1 DEF Expects
<1>6. RecordsOK(proc, P) /\ EventsOK(t, P)
  BY <1>2 DEF Good
<1>7. Dispatch(s, proc, waiting, t) /\ InQueue(waiting) \subseteq P
  BY <1>3 DEF s, t
<1>8. QED
  BY <1>2, <1>5, <1>6, <1>7, DispatchTurns DEF P

\* handle_arrival when it has to wait.
LEMMA WaitsTurns ==
  ASSUME scheduler = "rr", NEW n \in Nat, Good(proc, running, waiting, event_queue, 1..n),
         NoneBefore(event_queue, current_time), current_time \in Nat, event_queue # <<>>,
         NEW e \in Nat, OnCpu(e, 1..n),
         Turns(proc, running, waiting, event_queue, gantt, current_time, 1..n),
         Head(event_queue).type = "ARRIVAL", running # None,
         NEW v, v = Push(waiting, Pending, Subject)
  PROVE  Turns(proc, running, v, Tail(event_queue), gantt, Now, 1..n)
<1> DEFINE P == 1..n
           s == Subject
           t == Tail(event_queue)
<1>1. None \notin P
  BY EngineAssumption
<1>2. /\ Now \in Nat /\ current_time <= Now
      /\ Past(gantt, running, Now) /\ ChartOK(gantt, e, P)
      /\ \A x \in Arriving(t) : SegmentsIn(gantt, x) = {}
      /\ s \in P /\ s \notin InQueue(waiting) /\ s # running
      /\ SegmentsIn(gantt, s) = {} /\ proc[s].arrival_time = Now
  BY TurnsAtEvent
<1>3. Rounds(waiting, running, P) /\ running \in P
  <2>1. /\ waiting \in Lists(ListCount, P) /\ Distinct(waiting)
        /\ running \notin InQueue(waiting) /\ running \in P \cup {None}
    BY DEF Good, PlacesOK
  <2>2. QED
    BY <1>1, <2>1, RoundsOfGood
<1> HIDE DEF s, t, P
<1>4. v = Push(waiting, Pending, s)
  BY DEF s
<1>5. /\ InQueue(v) = InQueue(waiting) \cup {s}
      /\ \A x \in InQueue(waiting) \cup {running} : \A q :
           /\ Once(v, running, x, q) => Once(waiting, running, x, q)
           /\ Twice(v, x, q) => Twice(waiting, x, q)
      /\ ~Twice(v, s, running)
  BY <1>1, <1>2, <1>3, <1>4, TurnOfNew
<1>6. \A y : Waited(gantt, proc, s, y) <= 1 /\ (y # running => Waited(gantt, proc, s, y) = 0)
  <2>1. Now <= proc[s].arrival_time /\ proc[s].arrival_time \in Nat
    BY <1>2
  <2>2. QED
    BY <1>2, <2>1, ArriverWaits
<1>7. gantt \in Seq(Entries(P)) /\ \A x : \A y : Waited(gantt, proc, x, y) \in Nat
  <2>1. gantt \in Seq(Entries(P))
    BY <1>2 DEF ChartOK
  <2>2. QED
    BY <2>1, RunsCounted
<1>8. ASSUME NEW x \in InLineFor(proc, running, v, P), NEW y \in P, x # y
      PROVE  /\ Waited(gantt, proc, x, y) <= 2
             /\ Len(gantt) < MaxGantt =>
                  /\ Once(v, running, x, y) => Waited(gantt, proc, x, y) <= 1
                  /\ Twice(v, x, y) => Waited(gantt, proc, x, y) = 0
  <2>1. CASE x = s
    <3>1. Waited(gantt, proc, x, y) <= 1 /\ Waited(gantt, proc, x, y) \in Nat
      BY <1>6, <1>7, <2>1
    <3>2. Twice(v, x, y) => Waited(gantt, proc, x, y) = 0
      BY <1>5, <1>6, <2>1
    <3>3. QED
      BY <3>1, <3>2
  <2>2. CASE x # s
    <3>1. x \in InLineFor(proc, running, waiting, P) /\ x \in InQueue(waiting) \cup {running}
      BY <1>5, <1>8, <2>2 DEF InLineFor
    <3>2. TurnsOK(proc, gantt, waiting, running, InLineFor(proc, running, waiting, P), P)
      BY DEF Turns, P
    <3>3. QED
      BY <1>5, <1>8, <3>1, <3>2 DEF TurnsOK
  <2>3. QED
    BY <2>1, <2>2
<1>9. QED
  BY <1>2, <1>8 DEF Turns, TurnsOK, P, t

\* handle_completion: the next one in turn gets the CPU.
LEMMA EndTurns ==
  ASSUME SettingsOK, scheduler = "rr", NEW n \in Nat,
         Good(proc, running, waiting, event_queue, 1..n),
         NoneBefore(event_queue, current_time), current_time \in Nat, event_queue # <<>>,
         NEW e \in Nat, OnCpu(e, 1..n),
         Turns(proc, running, waiting, event_queue, gantt, current_time, 1..n),
         Head(event_queue).type = "COMPLETION",
         DispatchNext(FinishRunning(Now), waiting, Tail(event_queue))
  PROVE  Turns(proc', running', waiting', event_queue', gantt', Now, 1..n)
<1> DEFINE P == 1..n
           t == Tail(event_queue)
           pr == FinishRunning(Now)
<1>1. None \notin P
  BY EngineAssumption
<1>2. /\ Now \in Nat /\ Good(proc, running, waiting, t, P)
      /\ ChartOK(gantt, Now, P) /\ running # None /\ Past(gantt, running, Now)
      /\ \A x \in Arriving(t) : SegmentsIn(gantt, x) = {}
  BY TurnsAtEvent DEF IsCpuEvent
<1>3. Past(gantt, None, Now)
  BY <1>2 DEF Past, ChartOK
<1>4. Good(pr, None, waiting, t, P)
  <2>1. Good(pr, running, waiting, t, P)
    BY <1>1, <1>2, FinishGood
  <2>2. QED
    BY <1>1, <2>1, OffTheCpu
<1>5. SameTimes(proc, pr) /\ DOMAIN proc = P
  BY <1>1, <1>2, EndKeepsTimes DEF Good, RecordsOK
<1> HIDE DEF pr, t
<1>6. InQueue(waiting) \subseteq P
  BY <1>1, RoundsOfGood DEF Good, PlacesOK
<1>7. TurnsOK(pr, gantt, waiting, None, InQueue(waiting), P)
  <2>1. SUFFICES ASSUME NEW x \in InQueue(waiting), NEW y \in P, x # y
                 PROVE  /\ Waited(gantt, pr, x, y) <= 2
                        /\ Len(gantt) < MaxGantt =>
                             /\ Once(waiting, None, x, y) => Waited(gantt, pr, x, y) <= 1
                             /\ Twice(waiting, x, y) => Waited(gantt, pr, x, y) = 0
    BY DEF TurnsOK
  <2>2. x \in P /\ x # None /\ y # None /\ x \in InLineFor(proc, running, waiting, P)
    BY <1>1, <1>6 DEF InLineFor
  <2>3. pr[x].arrival_time = proc[x].arrival_time
    BY <1>5, <2>2 DEF SameTimes
  <2>4. Waited(gantt, pr, x, y) = Waited(gantt, proc, x, y)
    BY <2>3, SameWaits
  <2>5. Once(waiting, None, x, y) => Once(waiting, running, x, y)
    BY <2>2 DEF Once
  <2>6. TurnsOK(proc, gantt, waiting, running, InLineFor(proc, running, waiting, P), P)
    BY DEF Turns
  <2>7. QED
    BY <2>1, <2>2, <2>4, <2>5, <2>6 DEF TurnsOK
<1>8. DispatchNext(pr, waiting, t)
  BY DEF pr, t
<1>9. QED
  BY <1>2, <1>3, <1>4, <1>7, <1>8, NextTurns

\* handle_quantum_expire: the process is put back, and the next one gets the CPU.
LEMMA ExpireTurns ==
  ASSUME SettingsOK, scheduler = "rr", NEW n \in Nat,
         Good(proc, running, waiting, event_queue, 1..n),
         NoneBefore(event_queue, current_time), current_time \in Nat, event_queue # <<>>,
         NEW e \in Nat, OnCpu(e, 1..n),
         Turns(proc, running, waiting, event_queue, gantt, current_time, 1..n),
         Head(event_queue).type = "QUANTUM_EXPIRE", proc[running].remaining_time > 0,
         NEW v, v = Push(waiting, Round, running), DispatchNext(proc, v, Tail(event_queue))
  PROVE  Turns(proc', running', waiting', event_queue', gantt', Now, 1..n)
<1> DEFINE P == 1..n
           t == Tail(event_queue)
<1>1. None \notin P
  BY EngineAssumption
<1>2. /\ Now \in Nat /\ Good(proc, running, waiting, t, P)
      /\ ChartOK(gantt, Now, P) /\ running # None /\ Past(gantt, running, Now)
      /\ \A x \in Arriving(t) : SegmentsIn(gantt, x) = {}
  BY TurnsAtEvent DEF IsCpuEvent
<1>3. Past(gantt, None, Now)
  BY <1>2 DEF Past, ChartOK
<1>4. v = PutBack /\ proc = AfterDemotion
  BY <1>2 DEF PutBack, AfterDemotion, Demoted, Requeue
<1>5. Good(proc, None, v, t, P)
  <2>1. Good(AfterDemotion, None, PutBack, t, P)
    BY <1>1, <1>2, PutBackGood
  <2>2. QED
    BY <1>4, <2>1
<1>6. Rounds(waiting, running, P) /\ running \in P
  <2>1. /\ waiting \in Lists(ListCount, P) /\ Distinct(waiting)
        /\ running \notin InQueue(waiting) /\ running \in P \cup {None}
    BY DEF Good, PlacesOK
  <2>2. QED
    BY <1>1, <1>2, <2>1, RoundsOfGood
<1> HIDE DEF t, P
<1>7. /\ InQueue(v) = InQueue(waiting) \cup {running}
      /\ \A p \in InQueue(v), q \in P :
           /\ Once(v, None, p, q) => Once(waiting, running, p, q)
           /\ Twice(v, p, q) => Twice(waiting, p, q)
  BY <1>1, <1>6, TurnPutBack
<1>8. InQueue(v) = InLineFor(proc, running, waiting, P)
  BY <1>6, <1>7 DEF InLineFor
<1>9. TurnsOK(proc, gantt, waiting, running, InLineFor(proc, running, waiting, P), P)
  BY DEF Turns, P
<1>10. TurnsOK(proc, gantt, v, None, InQueue(v), P)
  BY <1>7, <1>8, <1>9 DEF TurnsOK
<1>11. DispatchNext(proc, v, t)
  BY DEF t
<1>12. QED
  BY <1>2, <1>3, <1>5, <1>10, <1>11, NextTurns DEF P

\* Every step keeps the turns.
LEMMA SimulateTurns ==
  ASSUME SettingsOK, scheduler = "rr", NEW n \in Nat,
         Good(proc, running, waiting, event_queue, 1..n),
         NoneBefore(event_queue, current_time), current_time \in Nat,
         NEW e \in Nat, OnCpu(e, 1..n),
         Turns(proc, running, waiting, event_queue, gantt, current_time, 1..n), Simulate
  PROVE  Turns(proc', running', waiting', event_queue', gantt', current_time', 1..n)
<1>1. CASE UNCHANGED <<proc, running, waiting, gantt, event_queue, current_time>>
  BY <1>1
<1>2. CASE /\ event_queue # <<>> /\ current_time' = Now
           /\ Head(event_queue).type = "ARRIVAL" /\ running = None /\ IsEmpty(waiting)
           /\ Dispatch(Subject, proc, waiting, Tail(event_queue))
  <2>1. Turns(proc', running', waiting', event_queue', gantt', Now, 1..n)
    BY <1>2, ArrivalTurns
  <2>2. QED
    BY <1>2, <2>1
<1>3. CASE /\ event_queue # <<>> /\ current_time' = Now
           /\ Head(event_queue).type = "ARRIVAL" /\ running # None
           /\ waiting' = Push(waiting, Pending, Subject)
           /\ event_queue' = Tail(event_queue)
           /\ UNCHANGED <<running, proc, gantt>>
  <2>1. PICK v : v = Push(waiting, Pending, Subject)
    OBVIOUS
  <2>2. Turns(proc, running, v, Tail(event_queue), gantt, Now, 1..n)
    BY <1>3, <2>1, WaitsTurns
  <2>3. QED
    BY <1>3, <2>1, <2>2
<1>4. CASE /\ event_queue # <<>> /\ current_time' = Now
           /\ Head(event_queue).type = "COMPLETION"
           /\ DispatchNext(FinishRunning(Now), waiting, Tail(event_queue))
  <2>1. Turns(proc', running', waiting', event_queue', gantt', Now, 1..n)
    BY <1>4, EndTurns
  <2>2. QED
    BY <1>4, <2>1
<1>5. CASE /\ event_queue # <<>> /\ current_time' = Now
           /\ Head(event_queue).type = "QUANTUM_EXPIRE"
           /\ running # None /\ proc[running].remaining_time > 0
           /\ DispatchNext(proc, Push(waiting, Round, running), Tail(event_queue))
  <2>1. PICK v : v = Push(waiting, Round, running)
    OBVIOUS
  <2>2. DispatchNext(proc, v, Tail(event_queue))
    BY <1>5, <2>1
  <2>3. Turns(proc', running', waiting', event_queue', gantt', Now, 1..n)
    BY <1>5, <2>1, <2>2, ExpireTurns
  <2>4. QED
    BY <1>5, <2>3
<1>6. QED
  BY <1>1, <1>2, <1>3, <1>4, <1>5, RRStep

\* Nobody is in line for the CPU before the first event, or has run.
LEMMA NobodyInLine ==
  ASSUME NEW pr, NEW w, \A k \in DOMAIN w : w[k] = <<>>, NEW q, NEW time, NEW P, None \notin P
  PROVE  Turns(pr, None, w, q, <<>>, time, P)
<1>1. DOMAIN <<>> = {} /\ Len(<<>>) = 0 /\ ToSet(<<>>) = {}
  BY DEF ToSet
<1>2. InQueue(w) = {}
  BY <1>1 DEF InQueue
<1>3. InLineFor(pr, None, w, P) = {}
  BY <1>2 DEF InLineFor
<1>4. SegmentsIn(<<>>, None) = {} /\ \A x : SegmentsIn(<<>>, x) = {}
  BY <1>1 DEF SegmentsIn
<1>5. Past(<<>>, None, time)
  BY <1>1 DEF Past
<1>6. QED
  BY <1>3, <1>4, <1>5 DEF Turns, TurnsOK

\* The turns, in every state.
TurnsKept ==
  scheduler = "rr" => Turns(proc, running, waiting, event_queue, gantt, current_time, Processes)
\* They are kept from one simulation to the next.
LEMMA TurnsAlways == Spec => []TurnsKept
<1>1. Init => TurnsKept
  <2> SUFFICES ASSUME Init PROVE Turns(proc, running, waiting, event_queue, gantt, current_time, Processes)
    BY DEF TurnsKept
  <2>1. DOMAIN <<>> = {}
    OBVIOUS
  <2>2. /\ proc = <<>> /\ running = None /\ waiting = <<>> /\ gantt = <<>>
        /\ Processes = {}
    BY <2>1 DEF Init, Processes
  <2>3. \A k \in DOMAIN waiting : waiting[k] = <<>>
    BY <2>1, <2>2
  <2>4. None \notin Processes
    BY <2>2
  <2>5. QED
    BY <2>2, <2>3, <2>4, NobodyInLine
<1>2. Inv /\ CpuKept /\ TurnsKept /\ [Next]_vars => TurnsKept'
  <2> SUFFICES ASSUME Inv, CpuKept, TurnsKept, [Next]_vars
               PROVE  TurnsKept'
    OBVIOUS
  <2>1. CASE UNCHANGED engine
    BY <2>1 DEF TurnsKept, Turns, Processes, engine, settings
  <2>2. CASE phase = "simulate" /\ Simulate
    <3>1. PICK n \in Nat : /\ SettingsOK
                           /\ Good(proc, running, waiting, event_queue, 1..n)
                           /\ NoneBefore(event_queue, current_time)
                           /\ current_time \in Nat
      BY <2>2 DEF Inv, Empty, Kept
    <3>2. Processes = 1..n /\ Processes' = 1..n
      BY <2>2, <3>1, TimesStay DEF SameTimes, Good, RecordsOK, Processes
    <3>3. scheduler' = scheduler
      BY <2>2 DEF Simulate, handle_arrival, handle_completion, handle_quantum_expire,
                  handle_priority_boost, Handle, Report, settings
    <3>4. ASSUME scheduler = "rr"
          PROVE  Turns(proc', running', waiting', event_queue', gantt', current_time', 1..n)
      <4>1. PICK e \in Nat : OnCpu(e, 1..n)
        BY <3>2, <3>4 DEF CpuKept, Undisturbed
      <4>2. Turns(proc, running, waiting, event_queue, gantt, current_time, 1..n)
        BY <3>2, <3>4 DEF TurnsKept
      <4>3. QED
        BY <2>2, <3>1, <3>4, <4>1, <4>2, SimulateTurns
    <3>5. QED
      BY <3>2, <3>3, <3>4 DEF TurnsKept
  <2>3. CASE \E s \in AlgorithmNames : \E q, c : Run(s, q, c) /\ StartOK(s, q, c)
    <3>1. PICK s, q, c : Run(s, q, c) /\ StartOK(s, q, c)
      BY <2>3
    <3>2. PICK n \in Nat : CopiedProcesses \in [1..n -> Records]
      BY Copied DEF Inv
    <3>3. /\ proc' = CopiedProcesses /\ running' = None /\ gantt' = <<>>
          /\ waiting' = EmptyQueue(s, c.levels)
      BY <3>1 DEF Run, Begin
    <3>4. None \notin Processes'
      BY <3>2, <3>3, EngineAssumption DEF Processes
    <3>5. \A k \in DOMAIN waiting' : waiting'[k] = <<>>
      BY <3>3 DEF EmptyQueue
    <3>6. Turns(proc', None, waiting', event_queue', <<>>, current_time', Processes')
      BY <3>4, <3>5, NobodyInLine
    <3>7. QED
      BY <3>3, <3>6 DEF TurnsKept
  <2>4. QED
    BY <2>1, <2>2, <2>3, Steps DEF Inv
<1>3. QED
  BY <1>1, <1>2, InvAlways, CpuAlways, PTL DEF Spec

\* Under RR nobody is put on the CPU more than twice while another one waits for
\* it: what is left of the round, and once more for those who come before it in
\* the next (rr-queue.c 62-74).
THEOREM WaitIsBounded == Spec => []RRBoundedWait
<1>1. TurnsKept => RRBoundedWait
  <2> SUFFICES ASSUME TurnsKept, scheduler = "rr", NEW p \in InQueue(waiting),
                      NEW q \in Processes \ {p}
               PROVE  Cardinality({k \in Segments(q) : gantt[k].start >= Since(p)}) <= 2
    BY DEF RRBoundedWait
  <2>1. p \in InLineFor(proc, running, waiting, Processes)
    BY DEF InLineFor
  <2>2. Waited(gantt, proc, p, q) <= 2
    BY <2>1 DEF TurnsKept, Turns, TurnsOK
  <2>3. Since(p) = SinceIn(gantt, proc, p)
    BY DEF Since, SinceIn, SegmentsIn, Segments, LastRun
  <2>4. {k \in Segments(q) : gantt[k].start >= Since(p)}
          = RunsFrom(gantt, q, SinceIn(gantt, proc, p))
    BY <2>3 DEF RunsFrom, SegmentsIn, Segments
  <2>5. QED
    BY <2>2, <2>4 DEF Waited
<1>2. QED
  BY <1>1, TurnsAlways, PTL
-----------------------------------------------------------------------------
\* The count of context switches.  Who has work to do has been shown on the
\* chart g, or is in line (in L: waits or has yet to arrive) with all of it
\* ahead; nobody is shown without work.
Shown(g) == {g[k].name : k \in 1..Len(g)}
Untouched(r) == r.remaining_time = r.burst_time /\ r.priority = 0
Drawing(pr, g, L, P) ==
  /\ \A p \in Shown(g) : pr[p].burst_time > 0
  /\ \A p \in P : /\ pr[p].remaining_time <= pr[p].burst_time
                  /\ pr[p].burst_time > 0 => p \in Shown(g) \/ (Untouched(pr[p]) /\ p \in L)
\* While someone runs an end of a run is to come; while nobody does, nobody waits.
EndToCome(r, w, q) ==
  /\ r = None => InQueue(w) = {}
  /\ r # None => \E k \in 1..Len(q) : IsCpuEvent(q[k])

\* A segment shows its process.
LEMMA NewShown ==
  ASSUME NEW P, NEW g \in Seq(Entries(P)), NEW s \in Entries(P)
  PROVE  Shown(Append(g, s)) = Shown(g) \cup {s.name}
<1> DEFINE h == Append(g, s)
<1>1. /\ Len(g) \in Nat /\ Len(h) = Len(g) + 1
      /\ h[Len(g) + 1] = s /\ \A k \in 1..Len(g) : h[k] = g[k]
  OBVIOUS
<1> HIDE DEF h
<1>2. Shown(h) \subseteq Shown(g) \cup {s.name}
  BY <1>1 DEF Shown
<1>3. Shown(g) \subseteq Shown(h)
  BY <1>1 DEF Shown
<1>4. s.name \in Shown(h)
  <2>1. Len(g) + 1 \in 1..Len(h)
    BY <1>1
  <2>2. QED
    BY <1>1, <2>1 DEF Shown
<1>5. QED
  BY <1>2, <1>3, <1>4 DEF h

\* Only processes are drawn.
LEMMA DrawnTyped ==
  ASSUME NEW P, NEW p \in P, gantt \in Seq(Entries(P)), Now \in Nat, NEW run \in Nat
  PROVE  Drawn(p, run) \in Seq(Entries(P))
<1>1. [name |-> p, start |-> Now, end |-> Now + run] \in Entries(P)
  BY DEF Entries
<1>2. QED
  BY <1>1 DEF Drawn

\* Nobody has more left than the burst, and nobody stays unseen who runs: the
\* first run is not for nothing.
LEMMA DispatchDraws ==
  ASSUME SettingsOK, NEW n \in Nat, NEW pr, RecordsOK(pr, 1..n), NEW p \in 1..n, NEW q,
         EventsOK(q, 1..n), Now \in Nat, NEW w, Dispatch(p, pr, w, q),
         gantt \in Seq(Entries(1..n)), Len(gantt) < MaxGantt,
         NEW L, Drawing(pr, gantt, L, 1..n)
  PROVE  /\ Drawing(proc', gantt', L \ {p}, 1..n)
         /\ Arriving(event_queue') = Arriving(q)
         /\ \E k \in 1..Len(event_queue') : IsCpuEvent(event_queue'[k])
<1> DEFINE P == 1..n
           run == RunTime(pr[p], Now, q)
           s == [name |-> p, start |-> Now, end |-> Now + run]
<1>1. q \in Seq(EventsOf(P))
  BY DEF EventsOK
<1>2. /\ run \in Nat /\ run <= pr[p].remaining_time
      /\ Charges(pr, proc', p, run) /\ SameTimes(pr, proc')
      /\ proc'[p].remaining_time = pr[p].remaining_time - run
  BY <1>1, DispatchCharges
<1>3. DOMAIN pr = P /\ \A x \in P : pr[x] \in Records
  BY DEF RecordsOK
<1>4. gantt' = Drawn(p, run)
  BY DEF Dispatch
<1>5. run = 0 => pr[p].priority # 0 \/ pr[p].remaining_time = 0
  BY <1>1, <1>3, RunsAtAll
<1> HIDE DEF run
<1>6. gantt' = IF run = 0 THEN gantt ELSE Append(gantt, s)
  <2>1. Len(gantt) \in Nat /\ MaxGantt \in Nat
    BY EngineAssumption
  <2>2. QED
    BY <1>2, <1>4, <2>1 DEF Drawn
<1>7. Shown(gantt') = IF run = 0 THEN Shown(gantt) ELSE Shown(gantt) \cup {p}
  <2>1. s \in Entries(P) /\ s.name = p
    BY <1>2 DEF Entries
  <2> HIDE DEF s
  <2>2. QED
    BY <1>6, <2>1, NewShown
<1>8. Shown(gantt) \subseteq P
  <2>1. \A k \in 1..Len(gantt) : gantt[k] \in Entries(P)
    OBVIOUS
  <2>2. QED
    BY <2>1 DEF Shown, Entries
<1>9. ASSUME NEW x \in Shown(gantt') PROVE proc'[x].burst_time > 0
  <2>1. x \in P /\ proc'[x].burst_time = pr[x].burst_time
    BY <1>2, <1>3, <1>7, <1>8, <1>9 DEF SameTimes
  <2>2. CASE x \in Shown(gantt)
    BY <2>1, <2>2 DEF Drawing
  <2>3. CASE x = p /\ run # 0
    <3>1. pr[p].remaining_time \in Nat /\ pr[p].burst_time \in Nat
      BY <1>3 DEF Records
    <3>2. pr[p].remaining_time <= pr[p].burst_time
      BY DEF Drawing
    <3>3. QED
      BY <1>2, <2>1, <2>3, <3>1, <3>2
  <2>4. QED
    BY <1>7, <1>9, <2>2, <2>3
<1>10. ASSUME NEW x \in P
       PROVE  /\ proc'[x].remaining_time <= proc'[x].burst_time
              /\ proc'[x].burst_time > 0 =>
                   x \in Shown(gantt') \/ (Untouched(proc'[x]) /\ x \in L \ {p})
  <2>1. proc'[x].burst_time = pr[x].burst_time /\ pr[x].burst_time \in Nat
        /\ pr[x].remaining_time \in Nat
    BY <1>2, <1>3 DEF SameTimes, Records
  <2>2. /\ pr[x].remaining_time <= pr[x].burst_time
        /\ pr[x].burst_time > 0 => x \in Shown(gantt) \/ (Untouched(pr[x]) /\ x \in L)
    BY DEF Drawing
  <2>3. CASE x = p
    <3>1. proc'[x].remaining_time <= proc'[x].burst_time
      BY <1>2, <2>1, <2>2, <2>3
    <3>2. ASSUME pr[p].burst_time > 0 PROVE p \in Shown(gantt')
      <4>1. CASE p \in Shown(gantt)
        BY <1>7, <4>1
      <4>2. CASE p \notin Shown(gantt)
        <5>1. pr[p].priority = 0 /\ pr[p].remaining_time # 0
          BY <2>1, <2>2, <2>3, <3>2, <4>2 DEF Untouched
        <5>2. QED
          BY <1>5, <1>7, <5>1
      <4>3. QED
        BY <4>1, <4>2
    <3>3. QED
      BY <2>1, <2>3, <3>1, <3>2
  <2>4. CASE x # p
    <3>1. proc'[x] = pr[x]
      BY <1>2, <1>3, <2>4 DEF Charges
    <3>2. QED
      BY <1>7, <2>2, <2>4, <3>1
  <2>5. QED
    BY <2>3, <2>4
<1>11. PICK f \in EventsOf(P) : /\ IsCpuEvent(f) /\ f.type # "ARRIVAL"
                                /\ \E pr2, b : event_queue' = EnqueueEvent(q, f, pr2, b)
  <2> DEFINE type == IF proc'[p].remaining_time = 0 THEN "COMPLETION" ELSE "QUANTUM_EXPIRE"
             f == Event(Now + run, type, p)
  <2>1. \E pr2, b : event_queue' = EnqueueEvent(q, f, pr2, b)
    BY DEF Dispatch, run
  <2>2. f \in EventsOf(P) /\ IsCpuEvent(f) /\ f.type # "ARRIVAL"
    BY <1>2 DEF Event, EventsOf, EventTypes, IsCpuEvent
  <2> HIDE DEF f
  <2>3. QED
    BY <2>1, <2>2
<1>12. PICK pr2, b : event_queue' = EnqueueEvent(q, f, pr2, b)
  BY <1>11
<1>13. Arriving(event_queue') = Arriving(q)
  BY <1>11, <1>12, EnqueuedOK
<1>14. \E k \in 1..Len(event_queue') : IsCpuEvent(event_queue'[k])
  <2>1. PICK i \in 1..(Len(q) + 1) : Inserted(event_queue', q, i, f)
    BY <1>1, <1>11, <1>12, EnqueuedAt
  <2>2. i \in 1..Len(event_queue') /\ event_queue'[i] = f
    BY <2>1 DEF Inserted
  <2>3. QED
    BY <1>11, <2>2
<1>15. QED
  BY <1>9, <1>10, <1>13, <1>14 DEF Drawing

\* DispatchNext.
LEMMA NextDraws ==
  ASSUME SettingsOK, NEW n \in Nat, NEW pr, NEW w, NEW q, Good(pr, None, w, q, 1..n),
         Now \in Nat, DispatchNext(pr, w, q), gantt \in Seq(Entries(1..n)),
         Len(gantt) < MaxGantt, Drawing(pr, gantt, InQueue(w) \cup Arriving(q), 1..n)
  PROVE  /\ Drawing(proc', gantt', InQueue(waiting') \cup Arriving(event_queue'), 1..n)
         /\ EndToCome(running', waiting', event_queue')
<1>1. CASE IsEmpty(w)
  <2>1. running' = None /\ waiting' = w /\ proc' = pr /\ event_queue' = q /\ gantt' = gantt
    BY <1>1 DEF DispatchNext
  <2>2. InQueue(w) = {}
    BY <1>1 DEF IsEmpty, InQueue, ToSet
  <2>3. QED
    BY <2>1, <2>2 DEF EndToCome
<1>2. CASE ~IsEmpty(w)
  <2> DEFINE p == Taken(scheduler, w)
             v == Left(scheduler, w)
  <2>1. Dispatch(p, pr, v, q)
    BY <1>2 DEF DispatchNext
  <2>2. /\ w \in Lists(ListCount, 1..n) /\ Distinct(w) /\ scheduler \in AlgorithmNames
        /\ LevelsTyped /\ Arriving(q) \cap InQueue(w) = {}
    BY DEF Good, PlacesOK, SettingsOK, LevelsTyped, LevelsOK
  <2>3. p \in InQueue(w) /\ InQueue(v) = InQueue(w) \ {p}
    BY <1>2, <2>2, DequeuedWaiting
  <2> HIDE DEF p, v
  <2>4. p \in 1..n
    BY <2>2, <2>3 DEF Lists, InQueue, ToSet
  <2>5. RecordsOK(pr, 1..n) /\ EventsOK(q, 1..n)
    BY DEF Good
  <2>6. /\ Drawing(proc', gantt', (InQueue(w) \cup Arriving(q)) \ {p}, 1..n)
        /\ Arriving(event_queue') = Arriving(q)
        /\ \E k \in 1..Len(event_queue') : IsCpuEvent(event_queue'[k])
    BY <2>1, <2>4, <2>5, DispatchDraws
  <2>7. waiting' = v /\ running' = p
    BY <2>1 DEF Dispatch
  <2>8. (InQueue(w) \cup Arriving(q)) \ {p} = InQueue(waiting') \cup Arriving(event_queue')
    BY <2>2, <2>3, <2>6, <2>7
  <2>9. p # None
    BY <2>4, EngineAssumption
  <2>10. QED
    BY <2>6, <2>7, <2>8, <2>9 DEF EndToCome
<1>3. QED
  BY <1>1, <1>2

\* Records may change otherwise, if nobody in line is moved down a level.
LEMMA StillDrawn ==
  ASSUME NEW pr, NEW pr2, NEW P, DOMAIN pr = P, SameWork(pr, pr2), NEW g, NEW L, NEW M,
         L \subseteq M, Drawing(pr, g, L, P), Shown(g) \subseteq P,
         \A p \in L \cap P : pr2[p].priority \in {0, pr[p].priority}
  PROVE  Drawing(pr2, g, M, P)
BY DEF Drawing, SameWork, SameTimes, Untouched

\* Whom the chart shows.
LEMMA ShownProcesses ==
  ASSUME NEW P, NEW g \in Seq(Entries(P))
  PROVE  Shown(g) \subseteq P
<1>1. \A k \in 1..Len(g) : g[k] \in Entries(P)
  OBVIOUS
<1>2. QED
  BY <1>1 DEF Shown, Entries

\* The first event goes: an arrival is one fewer to come, others leave them as
\* they are.
LEMMA FirstGoes ==
  ASSUME NEW P, EventsOK(event_queue, P), event_queue # <<>>
  PROVE  Arriving(event_queue) =
           IF Head(event_queue).type = "ARRIVAL" THEN Arriving(Tail(event_queue)) \cup {Subject}
                                                 ELSE Arriving(Tail(event_queue))
<1> DEFINE q == event_queue
           t == Tail(event_queue)
<1>1. /\ q \in Seq(EventsOf(P)) /\ t \in Seq(EventsOf(P)) /\ Removed(t, q, 1)
      /\ Len(q) \in Nat \ {0} /\ Head(q) = q[1]
  BY TailRemoves DEF EventsOK
<1>2. 1 \in 1..Len(q) /\ Subject = q[1].process
  BY <1>1 DEF Subject
<1>3. Arriving(t) = IF q[1].type = "ARRIVAL" THEN Arriving(q) \ {q[1].process} ELSE Arriving(q)
  BY <1>1, <1>2, RemovedOK
<1>4. q[1].type = "ARRIVAL" => q[1].process \in Arriving(q)
  BY <1>2 DEF Arriving
<1>5. QED
  BY <1>1, <1>2, <1>3, <1>4

\* An end that is still to come does not go with an arrival or a boost.
LEMMA EndStays ==
  ASSUME NEW P, EventsOK(event_queue, P), event_queue # <<>>,
         Head(event_queue).type \in {"ARRIVAL", "PRIORITY_BOOST"},
         \E k \in 1..Len(event_queue) : IsCpuEvent(event_queue[k])
  PROVE  \E k \in 1..Len(Tail(event_queue)) : IsCpuEvent(Tail(event_queue)[k])
<1> DEFINE q == event_queue
           t == Tail(event_queue)
<1>1. /\ q \in Seq(EventsOf(P)) /\ t \in Seq(EventsOf(P)) /\ Removed(t, q, 1)
      /\ Len(q) \in Nat \ {0} /\ Head(q) = q[1]
  BY TailRemoves DEF EventsOK
<1>2. PICK k \in 1..Len(q) : IsCpuEvent(q[k])
  OBVIOUS
<1>3. k # 1
  BY <1>1, <1>2 DEF IsCpuEvent
<1>4. Len(t) = Len(q) - 1 /\ \A j \in 1..(Len(q) - 1) : t[j] = q[j + 1]
  BY <1>1 DEF Removed
<1> HIDE DEF q, t
<1>5. k - 1 \in 1..Len(t) /\ t[k - 1] = q[k]
  BY <1>1, <1>2, <1>3, <1>4
<1>6. QED
  BY <1>2, <1>5 DEF t

\* A boost loses nobody who waits.
LEMMA BoostedWho ==
  ASSUME SettingsOK, NEW P, None \notin P, NEW t, Good(proc, running, waiting, t, P)
  PROVE  InQueue(waiting) \subseteq InQueue(BoostedQueue)
<1> DEFINE w == Boosted(waiting)
<1>1. /\ running \in P \cup {None} /\ running \notin InQueue(waiting)
      /\ waiting \in Lists(ListCount, P) /\ Distinct(waiting)
  BY DEF Good, PlacesOK
<1>2. ListCount \in Nat \ {0} /\ 1 \in 1..ListCount
  BY DEF SettingsOK, LevelsOK, ListCount, NumLists, AlgorithmNames
<1>3. w \in Lists(ListCount, P) /\ Distinct(w) /\ InQueue(w) = InQueue(waiting)
  BY <1>1, <1>2, BoostedLists
<1>4. BoostedQueue = IF running = None THEN w ELSE Push(w, 1, running)
  BY DEF BoostedQueue
<1> HIDE DEF w
<1>5. running # None => InQueue(Push(w, 1, running)) = InQueue(w) \cup {running}
  BY <1>1, <1>2, <1>3, Pushed
<1>6. QED
  BY <1>3, <1>4, <1>5

\* handle_arrival.
LEMMA ArrivalDraws ==
  ASSUME SettingsOK, NEW n \in Nat, Good(proc, running, waiting, event_queue, 1..n),
         gantt \in Seq(Entries(1..n)), Len(gantt) < MaxGantt,
         Drawing(proc, gantt, InQueue(waiting) \cup Arriving(event_queue), 1..n),
         EndToCome(running, waiting, event_queue), handle_arrival
  PROVE  /\ Drawing(proc', gantt', InQueue(waiting') \cup Arriving(event_queue'), 1..n)
         /\ EndToCome(running', waiting', event_queue')
<1> DEFINE P == 1..n
           s == Subject
           t == Tail(event_queue)
           L == InQueue(waiting) \cup Arriving(event_queue)
<1>1. None \notin P
  BY EngineAssumption
<1>2. /\ event_queue # <<>> /\ Head(event_queue).type = "ARRIVAL"
      /\ ArrivalDispatches \/ ArrivalPreempts \/ ArrivalWaits
  BY DEF handle_arrival, Handle
<1>3. /\ Now \in Nat /\ Good(proc, running, waiting, t, P)
      /\ s \in P /\ s \notin InQueue(waiting) /\ s # running /\ s \notin Arriving(t)
      /\ scheduler = "mlfq" => Within(proc[s])
  BY <1>1, <1>2, FirstEvent
<1>4. RecordsOK(proc, P) /\ EventsOK(event_queue, P) /\ EventsOK(t, P)
      /\ t \in Seq(EventsOf(P)) /\ running \in P \cup {None}
      /\ running \notin InQueue(waiting) /\ running \notin Arriving(event_queue)
      /\ running \notin Arriving(t)
  BY <1>3 DEF Good, EventsOK, PlacesOK
<1>5. Arriving(event_queue) = Arriving(t) \cup {s}
  BY <1>2, <1>4, FirstGoes
<1>6. DOMAIN proc = P /\ Shown(gantt) \subseteq P
  BY <1>4, ShownProcesses DEF RecordsOK
<1>7. s # None
  BY <1>1, <1>3
<1> HIDE DEF P, s, t
<1>8. CASE ArrivalDispatches
  <2>1. running = None /\ Dispatch(s, proc, waiting, t)
    BY <1>8 DEF ArrivalDispatches, s, t
  <2>2. running' = s /\ waiting' = waiting
    BY <2>1 DEF Dispatch
  <2>3. /\ Drawing(proc', gantt', L \ {s}, P) /\ Arriving(event_queue') = Arriving(t)
        /\ \E k \in 1..Len(event_queue') : IsCpuEvent(event_queue'[k])
    BY <1>3, <1>4, <2>1, DispatchDraws DEF P
  <2>4. L \ {s} = InQueue(waiting') \cup Arriving(event_queue')
    BY <1>3, <1>5, <2>2, <2>3
  <2>5. QED
    BY <1>7, <2>2, <2>3, <2>4 DEF EndToCome, P
<1>9. CASE ArrivalPreempts
  <2> DEFINE v == Enqueue(scheduler, waiting, running, proc)
             u == RemoveEvent(t, running)
  <2>1. running # None /\ Dispatch(s, proc, v, u)
    BY <1>9 DEF ArrivalPreempts, s, t
  <2>2. InQueue(v) = InQueue(waiting) \cup {running}
    <3>1. scheduler = "stcf"
      BY <1>9 DEF ArrivalPreempts, Preempts
    <3>2. Good(proc, None, waiting, t, P)
      BY <1>1, <1>3, OffTheCpu
    <3>3. QED
      BY <1>1, <1>4, <2>1, <3>1, <3>2, EnqueuedGood
  <2>3. EventsOK(u, P) /\ Arriving(u) = Arriving(t)
    <3>1. CASE u = t
      BY <1>4, <3>1
    <3>2. CASE u # t
      <4>1. PICK i \in 1..Len(t) : Removed(u, t, i) /\ t[i].process = running
        BY <1>4, <3>2, RemovedEvent
      <4>2. u \in Seq(EventsOf(P))
        BY <1>4, RemovedEvent
      <4> HIDE DEF u
      <4>3. /\ EventsOK(u, P)
            /\ Arriving(u) = IF t[i].type = "ARRIVAL" THEN Arriving(t) \ {t[i].process}
                                                      ELSE Arriving(t)
        BY <1>4, <4>1, <4>2, RemovedOK
      <4>4. QED
        BY <1>4, <4>1, <4>3
    <3>3. QED
      BY <3>1, <3>2
  <2> HIDE DEF v, u
  <2>4. running' = s /\ waiting' = v
    BY <2>1 DEF Dispatch
  <2>5. Drawing(proc, gantt, L \cup {running}, P)
    <3>1. SameWork(proc, proc)
      BY DEF SameWork, SameTimes
    <3>2. Drawing(proc, gantt, L, P)
      BY DEF P
    <3>3. QED
      BY <1>6, <3>1, <3>2, StillDrawn
  <2>6. /\ Drawing(proc', gantt', (L \cup {running}) \ {s}, P)
        /\ Arriving(event_queue') = Arriving(u)
        /\ \E k \in 1..Len(event_queue') : IsCpuEvent(event_queue'[k])
    BY <1>3, <1>4, <2>1, <2>3, <2>5, DispatchDraws DEF P
  <2>7. (L \cup {running}) \ {s} = InQueue(waiting') \cup Arriving(event_queue')
    BY <1>3, <1>5, <2>2, <2>3, <2>4, <2>6
  <2>8. QED
    BY <1>7, <2>4, <2>6, <2>7 DEF EndToCome, P
<1>10. CASE ArrivalWaits
  <2> DEFINE v == Enqueue(scheduler, waiting, s, proc)
  <2>1. /\ running # None /\ waiting' = v /\ event_queue' = t
        /\ running' = running /\ proc' = proc /\ gantt' = gantt
    BY <1>10 DEF ArrivalWaits, s, t
  <2>2. InQueue(v) = InQueue(waiting) \cup {s}
    BY <1>1, <1>3, EnqueuedGood
  <2>3. L = InQueue(waiting') \cup Arriving(event_queue')
    BY <1>5, <2>1, <2>2
  <2>4. \E k \in 1..Len(t) : IsCpuEvent(t[k])
    <3>1. \E k \in 1..Len(event_queue) : IsCpuEvent(event_queue[k])
      BY <2>1 DEF EndToCome
    <3>2. QED
      BY <1>2, <1>4, <3>1, EndStays DEF t
  <2>5. QED
    BY <2>1, <2>3, <2>4 DEF EndToCome, P
<1>11. QED
  BY <1>2, <1>8, <1>9, <1>10

\* handle_completion, handle_quantum_expire.
LEMMA EndDraws ==
  ASSUME SettingsOK, NEW n \in Nat, Good(proc, running, waiting, event_queue, 1..n),
         gantt \in Seq(Entries(1..n)), Len(gantt) < MaxGantt,
         Drawing(proc, gantt, InQueue(waiting) \cup Arriving(event_queue), 1..n),
         handle_completion \/ handle_quantum_expire
  PROVE  /\ Drawing(proc', gantt', InQueue(waiting') \cup Arriving(event_queue'), 1..n)
         /\ EndToCome(running', waiting', event_queue')
<1> DEFINE P == 1..n
           t == Tail(event_queue)
           L == InQueue(waiting) \cup Arriving(event_queue)
<1>1. None \notin P
  BY EngineAssumption
<1>2. event_queue # <<>> /\ Head(event_queue).type # "ARRIVAL"
  BY DEF handle_completion, handle_quantum_expire, Handle
<1>3. Now \in Nat /\ Good(proc, running, waiting, t, P)
  BY <1>1, <1>2, FirstEvent
<1>4. /\ DOMAIN proc = P /\ Shown(gantt) \subseteq P
      /\ EventsOK(event_queue, P) /\ running \in P \cup {None}
      /\ running \notin InQueue(waiting) /\ running \notin Arriving(event_queue)
      /\ \A p \in P : proc[p] \in Records
  BY ShownProcesses DEF Good, RecordsOK, PlacesOK
<1>5. Arriving(event_queue) = Arriving(t)
  BY <1>2, <1>4, FirstGoes
<1>6. Drawing(proc, gantt, L, P)
  OBVIOUS
<1>7. SameWork(proc, FinishRunning(Now)) /\ SameWork(proc, AfterDemotion)
  BY SameWorkAll
<1> HIDE DEF P, t
<1>8. CASE handle_completion
  <2> DEFINE pr == FinishRunning(Now)
  <2>1. DispatchNext(pr, waiting, t)
    BY <1>8 DEF handle_completion, Handle, t
  <2>2. Good(pr, None, waiting, t, P)
    <3>1. Good(pr, running, waiting, t, P)
      BY <1>1, <1>3, FinishGood
    <3> HIDE DEF pr
    <3>2. QED
      BY <1>1, <3>1, OffTheCpu
  <2>3. \A p \in L \cap P : pr[p].priority \in {0, proc[p].priority}
    BY <1>4 DEF FinishRunning, P
  <2> HIDE DEF pr
  <2>4. Drawing(pr, gantt, InQueue(waiting) \cup Arriving(t), P)
    <3>1. SameWork(proc, pr)
      BY <1>7 DEF pr
    <3>2. QED
      BY <1>4, <1>5, <1>6, <2>3, <3>1, StillDrawn
  <2>5. QED
    BY <1>3, <2>1, <2>2, <2>4, NextDraws DEF P
<1>9. CASE handle_quantum_expire
  <2>1. DispatchNext(AfterDemotion, PutBack, t)
    BY <1>9 DEF handle_quantum_expire, Handle, t
  <2>2. /\ Good(AfterDemotion, None, PutBack, t, P)
        /\ InQueue(PutBack) = InQueue(waiting) \cup ({running} \ {None})
    BY <1>1, <1>3, PutBackGood
  <2>3. \A p \in L \cap P : AfterDemotion[p].priority \in {0, proc[p].priority}
    BY <1>4 DEF AfterDemotion, P
  <2>4. Drawing(AfterDemotion, gantt, InQueue(PutBack) \cup Arriving(t), P)
    BY <1>4, <1>5, <1>6, <1>7, <2>2, <2>3, StillDrawn
  <2>5. QED
    BY <1>3, <2>1, <2>2, <2>4, NextDraws DEF P
<1>10. QED
  BY <1>8, <1>9

\* handle_priority_boost.
LEMMA BoostDraws ==
  ASSUME SettingsOK, NEW n \in Nat, Good(proc, running, waiting, event_queue, 1..n),
         gantt \in Seq(Entries(1..n)), Len(gantt) < MaxGantt,
         Drawing(proc, gantt, InQueue(waiting) \cup Arriving(event_queue), 1..n),
         EndToCome(running, waiting, event_queue), handle_priority_boost
  PROVE  /\ Drawing(proc', gantt', InQueue(waiting') \cup Arriving(event_queue'), 1..n)
         /\ EndToCome(running', waiting', event_queue')
<1> DEFINE P == 1..n
           t == Tail(event_queue)
           L == InQueue(waiting) \cup Arriving(event_queue)
<1>1. None \notin P
  BY EngineAssumption
<1>2. event_queue # <<>> /\ Head(event_queue).type = "PRIORITY_BOOST"
  BY DEF handle_priority_boost, Handle
<1>3. Now \in Nat /\ Good(proc, running, waiting, t, P)
  BY <1>1, <1>2, FirstEvent
<1>4. /\ DOMAIN proc = P /\ Shown(gantt) \subseteq P /\ EventsOK(event_queue, P)
      /\ \A p \in P : proc[p] \in Records
  BY ShownProcesses DEF Good, RecordsOK
<1>5. Arriving(event_queue) = Arriving(t)
  BY <1>2, <1>4, FirstGoes
<1>6. Drawing(proc, gantt, L, P)
  OBVIOUS
<1> HIDE DEF P, t
<1>7. CASE running # None /\ proc[running].remaining_time = 0
  <2>1. /\ event_queue' = t /\ running' = running /\ waiting' = waiting
        /\ proc' = proc /\ gantt' = gantt
    BY <1>7 DEF handle_priority_boost, t
  <2>2. \E k \in 1..Len(t) : IsCpuEvent(t[k])
    <3>1. \E k \in 1..Len(event_queue) : IsCpuEvent(event_queue[k])
      BY <1>7 DEF EndToCome
    <3>2. QED
      BY <1>2, <1>4, <3>1, EndStays DEF t
  <2>3. QED
    BY <1>5, <1>6, <1>7, <2>1, <2>2 DEF EndToCome, P
<1>8. CASE ~(running # None /\ proc[running].remaining_time = 0)
  <2> DEFINE pr == BoostedProcesses
             w == BoostedQueue
  <2>1. DispatchNext(pr, w, t)
    BY <1>8 DEF handle_priority_boost, t
  <2>2. Good(pr, None, w, t, P)
    BY <1>1, <1>3, BoostedGood
  <2>3. InQueue(waiting) \subseteq InQueue(w)
    BY <1>1, <1>3, BoostedWho
  <2>4. \A p \in P : pr[p].priority \in {0, proc[p].priority}
    BY <1>4 DEF BoostedProcesses, Processes, Records
  <2>5. SameWork(proc, pr)
    BY SameWorkAll
  <2> HIDE DEF pr, w
  <2>6. Drawing(pr, gantt, InQueue(w) \cup Arriving(t), P)
    BY <1>4, <1>5, <1>6, <2>3, <2>4, <2>5, StillDrawn
  <2>7. QED
    BY <1>3, <2>1, <2>2, <2>6, NextDraws DEF P
<1>9. QED
  BY <1>7, <1>8

\* Every handler, and the report at the end.
LEMMA SimulateDraws ==
  ASSUME SettingsOK, NEW n \in Nat, Good(proc, running, waiting, event_queue, 1..n),
         gantt \in Seq(Entries(1..n)), Len(gantt) < MaxGantt,
         Drawing(proc, gantt, InQueue(waiting) \cup Arriving(event_queue), 1..n),
         EndToCome(running, waiting, event_queue), Simulate
  PROVE  /\ Drawing(proc', gantt', InQueue(waiting') \cup Arriving(event_queue'), 1..n)
         /\ EndToCome(running', waiting', event_queue')
<1>1. CASE handle_arrival
  BY <1>1, ArrivalDraws
<1>2. CASE handle_completion \/ handle_quantum_expire
  BY <1>2, EndDraws
<1>3. CASE handle_priority_boost
  BY <1>3, BoostDraws
<1>4. CASE Report
  <2> DEFINE L == InQueue(waiting) \cup Arriving(event_queue)
             pr == FinishRunning(current_time)
  <2>1. /\ proc' = pr /\ running' = running /\ waiting' = waiting
        /\ gantt' = gantt /\ event_queue' = event_queue
    BY <1>4 DEF Report
  <2>2. DOMAIN proc = 1..n /\ Shown(gantt) \subseteq 1..n /\ \A p \in 1..n : proc[p] \in Records
    BY ShownProcesses DEF Good, RecordsOK
  <2>3. \A p \in 1..n : pr[p].priority \in {0, proc[p].priority}
    BY <2>2 DEF FinishRunning
  <2>4. SameWork(proc, pr) /\ Drawing(proc, gantt, L, 1..n)
    BY SameWorkAll
  <2> HIDE DEF pr, L
  <2>5. Drawing(pr, gantt, L, 1..n)
    BY <2>2, <2>3, <2>4, StillDrawn
  <2>6. QED
    BY <2>1, <2>5 DEF L
<1>5. QED
  BY <1>1, <1>2, <1>3, <1>4 DEF Simulate

\* The chart shows processes only, whether it has room or not.
LEMMA ChartShowsProcesses ==
  ASSUME SettingsOK, NEW n \in Nat, Good(proc, running, waiting, event_queue, 1..n),
         gantt \in Seq(Entries(1..n)), Simulate
  PROVE  gantt' \in Seq(Entries(1..n))
<1> DEFINE P == 1..n
           t == Tail(event_queue)
<1>1. None \notin P
  BY EngineAssumption
<1>2. ASSUME NEW pr, RecordsOK(pr, P), Now \in Nat, NEW p \in P, NEW w,
             NEW q \in Seq(EventsOf(P)), Dispatch(p, pr, w, q)
      PROVE  gantt' \in Seq(Entries(P))
  <2>1. RunTime(pr[p], Now, q) \in Nat
    BY <1>2, DispatchCharges
  <2>2. QED
    BY <1>2, <2>1, DrawnTyped DEF Dispatch
<1>3. ASSUME NEW pr, NEW w, NEW q, Good(pr, None, w, q, P), Now \in Nat, DispatchNext(pr, w, q)
      PROVE  gantt' \in Seq(Entries(P))
  <2>1. CASE IsEmpty(w)
    BY <1>3, <2>1 DEF DispatchNext
  <2>2. CASE ~IsEmpty(w)
    <3> DEFINE p == Taken(scheduler, w)
    <3>1. \E v : Dispatch(p, pr, v, q)
      BY <1>3, <2>2 DEF DispatchNext
    <3>2. w \in Lists(ListCount, P) /\ Distinct(w) /\ scheduler \in AlgorithmNames /\ LevelsTyped
      BY <1>3 DEF Good, PlacesOK, SettingsOK, LevelsTyped, LevelsOK
    <3>3. p \in InQueue(w)
      BY <2>2, <3>2, DequeuedWaiting
    <3> HIDE DEF p
    <3>4. p \in P
      BY <3>2, <3>3 DEF Lists, InQueue, ToSet
    <3>5. RecordsOK(pr, P) /\ q \in Seq(EventsOf(P))
      BY <1>3 DEF Good, EventsOK
    <3> HIDE DEF P
    <3>6. QED
      BY <1>2, <1>3, <3>1, <3>4, <3>5
  <2>3. QED
    BY <2>1, <2>2
<1>4. ASSUME event_queue # <<>>
      PROVE  /\ Now \in Nat /\ Good(proc, running, waiting, t, P)
             /\ Head(event_queue).type = "ARRIVAL" => Subject \in P
  BY <1>1, <1>4, FirstEvent
<1>5. CASE handle_arrival
  <2>1. /\ event_queue # <<>> /\ Head(event_queue).type = "ARRIVAL"
        /\ ArrivalDispatches \/ ArrivalPreempts \/ ArrivalWaits
    BY <1>5 DEF handle_arrival, Handle
  <2>2. CASE ArrivalWaits
    BY <2>2 DEF ArrivalWaits
  <2>3. CASE ArrivalDispatches \/ ArrivalPreempts
    <3>1. \E w : \E q \in {t, RemoveEvent(t, running)} : Dispatch(Subject, proc, w, q)
      BY <2>3 DEF ArrivalDispatches, ArrivalPreempts
    <3>2. t \in Seq(EventsOf(P)) /\ RecordsOK(proc, P)
      BY <1>4, <2>1 DEF Good, EventsOK
    <3>3. RemoveEvent(t, running) \in Seq(EventsOf(P))
      BY <3>2, RemovedEvent
    <3>4. QED
      BY <1>2, <1>4, <2>1, <3>1, <3>2, <3>3
  <2>4. QED
    BY <2>1, <2>2, <2>3
<1>6. CASE handle_completion
  <2>1. event_queue # <<>> /\ DispatchNext(FinishRunning(Now), waiting, t)
    BY <1>6 DEF handle_completion, Handle
  <2>2. Good(FinishRunning(Now), running, waiting, t, P)
    BY <1>1, <1>4, <2>1, FinishGood
  <2>3. Good(FinishRunning(Now), None, waiting, t, P)
    BY <1>1, <2>2, OffTheCpu
  <2>4. QED
    BY <1>3, <1>4, <2>1, <2>3
<1>7. CASE handle_quantum_expire
  <2>1. event_queue # <<>> /\ DispatchNext(AfterDemotion, PutBack, t)
    BY <1>7 DEF handle_quantum_expire, Handle
  <2>2. Good(AfterDemotion, None, PutBack, t, P)
    BY <1>1, <1>4, <2>1, PutBackGood
  <2>3. QED
    BY <1>3, <1>4, <2>1, <2>2
<1>8. CASE handle_priority_boost
  <2>1. event_queue # <<>>
    BY <1>8 DEF handle_priority_boost, Handle
  <2>2. CASE gantt' = gantt
    BY <2>2
  <2>3. CASE DispatchNext(BoostedProcesses, BoostedQueue, t)
    <3>1. Good(BoostedProcesses, None, BoostedQueue, t, P)
      BY <1>1, <1>4, <2>1, BoostedGood
    <3>2. QED
      BY <1>3, <1>4, <2>1, <2>3, <3>1
  <2>4. QED
    BY <1>8, <2>2, <2>3 DEF handle_priority_boost
<1>9. CASE Report
  BY <1>9 DEF Report
<1>10. QED
  BY <1>5, <1>6, <1>7, <1>8, <1>9 DEF Simulate

\* At the start of a simulation everyone is to arrive.
LEMMA BegunDraws ==
  ASSUME NEW n \in Nat, NEW pr \in [1..n -> Records], \A p \in 1..n : Fresh(pr[p]),
         NEW s, NEW q, NEW c, s = "mlfq" => c.boost_period \in Int, Begin(s, q, c, pr)
  PROVE  /\ Drawing(proc', gantt', InQueue(waiting') \cup Arriving(event_queue'), 1..n)
         /\ EndToCome(running', waiting', event_queue')
         /\ proc' = pr /\ gantt' = <<>>
<1>1. /\ proc' = pr /\ running' = None /\ waiting' = EmptyQueue(s, c.levels) /\ gantt' = <<>>
  BY DEF Begin
<1>2. Arriving(event_queue') = 1..n
  <2>1. \A p \in 1..n : pr[p].remaining_time = pr[p].burst_time
    BY DEF Fresh
  <2>2. QED
    BY <2>1, BegunServed
<1>3. InQueue(waiting') = {}
  BY <1>1 DEF EmptyQueue, InQueue, ToSet
<1>4. Shown(gantt') = {}
  BY <1>1 DEF Shown
<1>5. \A p \in 1..n : Untouched(pr[p]) /\ pr[p].remaining_time <= pr[p].burst_time
  BY DEF Fresh, Untouched, Records
<1>6. QED
  BY <1>1, <1>2, <1>3, <1>4, <1>5 DEF Drawing, EndToCome

\* The places of the chart at which the letters f of the names change, and the
\* fewest changes there can be with those in W shown.
Changes(g, f) == {k \in 2..Len(g) : f[g[k].name] # f[g[k - 1].name]}
Fewest(W) == IF W = {} THEN 0 ELSE Cardinality(W) - 1

\* Where the first element differs from another process shown, that one is shown
\* for the first time at a place of its own, and there the letters change.
LEMMA ChangesAtLeast ==
  ASSUME NEW P, NEW g \in Seq(Entries(P)), NEW f, \A x, y \in P : f[x] = f[y] => x = y
  PROVE  /\ IsFiniteSet(Shown(g)) /\ IsFiniteSet(Changes(g, f))
         /\ Cardinality(Changes(g, f)) \in Nat
         /\ g # <<>> => Cardinality(Shown(g)) - 1 <= Cardinality(Changes(g, f))
<1> DEFINE N == 1..Len(g)
           C == Changes(g, f)
           W == Shown(g)
           At(p) == {k \in N : g[k].name = p}
<1>1. Len(g) \in Nat /\ \A k \in N : g[k].name \in P
  <2>1. \A k \in N : g[k] \in Entries(P)
    OBVIOUS
  <2>2. QED
    BY <2>1 DEF Entries
<1>2. IsFiniteSet(C) /\ Cardinality(C) \in Nat
  <2>1. IsFiniteSet(2..Len(g)) /\ C \in SUBSET (2..Len(g))
    BY <1>1, FS_Interval DEF Changes
  <2>2. QED
    BY <2>1, FS_Subset, FS_CardinalityType
<1>3. ASSUME NEW p \in W
      PROVE  Min(At(p)) \in N /\ g[Min(At(p))].name = p /\ \A k \in At(p) : Min(At(p)) <= k
  <2>1. At(p) \subseteq N /\ At(p) # {}
    BY DEF Shown
  <2>2. QED
    BY <1>1, <2>1, LeastPosition
<1>4. IsFiniteSet(W)
  <2> DEFINE h == [p \in W |-> Min(At(p))]
  <2>1. h \in Injection(W, N)
    <3>1. h \in [W -> N] /\ \A p \in W : g[h[p]].name = p
      BY <1>3
    <3> HIDE DEF h, W
    <3>2. QED
      BY <3>1 DEF Injection, IsInjective
  <2>2. IsFiniteSet(N)
    BY <1>1, FS_Interval
  <2> HIDE DEF h, N, W
  <2>3. QED
    BY <2>1, <2>2, FS_Injection
<1>5. ASSUME g # <<>> PROVE Cardinality(W) - 1 <= Cardinality(C)
  <2> DEFINE x == g[1].name
             V == W \ {x}
             h == [p \in V |-> Min(At(p))]
  <2>1. x \in W /\ x \in P
    <3>1. 1 \in N
      BY <1>1, <1>5, EmptySeq
    <3>2. QED
      BY <1>1, <3>1 DEF Shown
  <2>2. ASSUME NEW p \in V PROVE Min(At(p)) \in C
    <3> DEFINE m == Min(At(p))
    <3>1. m \in N /\ g[m].name = p /\ \A k \in At(p) : m <= k
      BY <1>3
    <3>2. m # 1
      BY <3>1
    <3> HIDE DEF m
    <3>3. m \in 2..Len(g) /\ m - 1 \in N /\ ~(m <= m - 1)
      BY <1>1, <3>1, <3>2
    <3>4. g[m - 1].name # p
      BY <3>1, <3>3
    <3>5. f[g[m].name] # f[g[m - 1].name]
      BY <1>1, <3>1, <3>3, <3>4
    <3>6. QED
      BY <3>3, <3>5 DEF Changes, m
  <2>3. h \in Injection(V, C)
    <3>1. h \in [V -> C]
      BY <2>2
    <3>2. \A p \in V : g[h[p]].name = p
      BY <1>3
    <3> HIDE DEF h, V
    <3>3. QED
      BY <3>1, <3>2 DEF Injection, IsInjective
  <2> HIDE DEF h, C, W
  <2>4. Cardinality(V) <= Cardinality(C)
    BY <1>2, <2>3, FS_Injection
  <2>5. Cardinality(V) = Cardinality(W) - 1
    BY <1>4, <2>1, FS_RemoveElement
  <2>6. QED
    BY <2>4, <2>5
<1>6. QED
  BY <1>2, <1>4, <1>5

\* If nobody is shown twice there are no more.
LEMMA ChangesAtMost ==
  ASSUME NEW P, NEW g \in Seq(Entries(P)), NEW f, g # <<>>,
         \A j, k \in 1..Len(g) : j < k => g[j].name # g[k].name
  PROVE  Cardinality(Changes(g, f)) <= Cardinality(Shown(g)) - 1
<1> DEFINE N == 1..Len(g)
           C == Changes(g, f)
           W == Shown(g)
           x == g[1].name
           V == W \ {x}
           h == [k \in C |-> g[k].name]
<1>1. Len(g) \in Nat /\ 1 \in N
  BY EmptySeq
<1>2. IsFiniteSet(W) /\ x \in W
  <2>1. IsFiniteSet(N)
    BY <1>1, FS_Interval
  <2> DEFINE e == [k \in N |-> g[k].name]
  <2>2. e \in Surjection(N, W)
    BY DEF Surjection, Shown
  <2>3. x \in W
    BY <1>1 DEF Shown
  <2> HIDE DEF e, N, W
  <2>4. QED
    BY <2>1, <2>2, <2>3, FS_Surjection
<1>3. C \subseteq 2..Len(g)
  BY DEF Changes
<1>4. ASSUME NEW k \in C PROVE g[k].name \in V
  <2>1. k \in N /\ 1 < k
    BY <1>1, <1>3
  <2>2. g[k].name \in W
    BY <2>1 DEF Shown
  <2>3. QED
    BY <1>1, <2>1, <2>2
<1>5. h \in Injection(C, V)
  <2>1. ASSUME NEW j \in C, NEW k \in C, j # k PROVE g[j].name # g[k].name
    <3>1. j \in N /\ k \in N /\ (j < k \/ k < j)
      BY <1>1, <1>3, <2>1
    <3>2. QED
      BY <3>1
  <2>2. h \in [C -> V]
    BY <1>4
  <2> HIDE DEF C, V
  <2>3. QED
    BY <2>1, <2>2 DEF Injection, IsInjective
<1>6. IsFiniteSet(V) /\ Cardinality(V) = Cardinality(W) - 1
  BY <1>2, FS_RemoveElement
<1> HIDE DEF h, C, V, W
<1>7. Cardinality(C) <= Cardinality(V)
  BY <1>5, <1>6, FS_Injection
<1>8. QED
  BY <1>6, <1>7 DEF C, W

\* The program's count is between the two: at least Fewest if the names have
\* different letters, at most that if each process runs once.
LEMMA CountBounds ==
  ASSUME NEW P, gantt \in Seq(Entries(P)), P \subseteq DOMAIN base, DistinctLetters
  PROVE  /\ count_context_switches \in Nat
         /\ Fewest(Shown(gantt)) <= count_context_switches
         /\ (\A j, k \in DOMAIN gantt : j < k => gantt[j].name # gantt[k].name)
              => count_context_switches <= Fewest(Shown(gantt))
<1> DEFINE g == gantt
           f == [p \in P |-> base[p].pid[1]]
           n == Cardinality(Changes(g, f))
           m == Cardinality(Shown(g))
           EachOnce == \A j, k \in 1..Len(g) : j < k => g[j].name # g[k].name
<1>1. /\ Len(g) \in Nat /\ DOMAIN g = 1..Len(g)
      /\ \A k \in 1..Len(g) : g[k].name \in P
  <2>1. \A k \in 1..Len(g) : g[k] \in Entries(P)
    OBVIOUS
  <2>2. QED
    BY <2>1 DEF Entries
<1>2. LetterChanges = n
  <2>1. \A k \in 2..Len(g) : k \in 1..Len(g) /\ k - 1 \in 1..Len(g)
    BY <1>1
  <2>2. \A k \in 1..Len(g) : Letter(k) = f[g[k].name]
    BY <1>1 DEF Letter
  <2>3. {k \in 2..Len(g) : Letter(k) # Letter(k - 1)} = Changes(g, f)
    BY <2>1, <2>2 DEF Changes
  <2>4. QED
    BY <2>3 DEF LetterChanges
<1>3. \A x, y \in P : f[x] = f[y] => x = y
  BY DEF DistinctLetters
<1> HIDE DEF f
<1>4. /\ n \in Nat /\ IsFiniteSet(Shown(g))
      /\ g # <<>> => m - 1 <= n
  BY <1>3, ChangesAtLeast
<1>5. g # <<>> /\ EachOnce => n <= m - 1
  BY ChangesAtMost
<1>6. g = <<>> <=> Shown(g) = {}
  <2>1. g = <<>> => Len(g) = 0
    OBVIOUS
  <2>2. g # <<>> => 1 \in 1..Len(g)
    BY <1>1, EmptySeq
  <2>3. g = <<>> => Shown(g) = {}
    BY <2>1 DEF Shown
  <2>4. g # <<>> => g[1].name \in Shown(g)
    BY <2>2 DEF Shown
  <2>5. QED
    BY <2>3, <2>4
<1>7. Len(g) = 0 <=> g = <<>>
  BY EmptySeq
<1>8. Len(g) = 1 => n = 0 /\ m = 1
  <2> SUFFICES ASSUME Len(g) = 1 PROVE n = 0 /\ m = 1
    OBVIOUS
  <2>1. Changes(g, f) = {}
    BY DEF Changes
  <2>2. Shown(g) = {g[1].name}
    BY DEF Shown
  <2>3. QED
    BY <2>1, <2>2, FS_EmptySet, FS_Singleton
<1>9. count_context_switches = IF Len(g) <= 1 THEN 0 ELSE n
  BY <1>2 DEF count_context_switches
<1>10. Fewest(Shown(g)) = IF g = <<>> THEN 0 ELSE m - 1
  BY <1>6 DEF Fewest
<1>11. m \in Nat
  BY <1>4, FS_CardinalityType
<1> HIDE DEF n, m, g, EachOnce
<1>12. CASE g = <<>>
  BY <1>7, <1>9, <1>10, <1>12 DEF g
<1>13. CASE Len(g) = 1
  BY <1>7, <1>8, <1>9, <1>10, <1>13 DEF g
<1>14. CASE g # <<>> /\ Len(g) # 1
  <2>1. ~(Len(g) <= 1)
    BY <1>1, <1>7, <1>14
  <2>2. /\ count_context_switches = n /\ Fewest(Shown(g)) = m - 1
    BY <1>9, <1>10, <1>14, <2>1
  <2>3. QED
    BY <1>1, <1>4, <1>5, <1>11, <1>14, <2>2 DEF EachOnce, g
<1>15. QED
  BY <1>12, <1>13, <1>14 DEF g

\* With or without different letters the count is at most the transitions.
LEMMA CountIsTransitions ==
  ASSUME NEW P, gantt \in Seq(Entries(P)), P \subseteq DOMAIN base
  PROVE  /\ count_context_switches <= Transitions
         /\ DistinctLetters => count_context_switches = Transitions
<1> DEFINE g == gantt
           N == 1..Len(g)
           A == {k \in 2..Len(g) : Letter(k) # Letter(k - 1)}
           B == {k \in 2..Len(g) : g[k].name # g[k - 1].name}
<1>1. Len(g) \in Nat /\ \A k \in N : g[k].name \in P
  <2>1. \A k \in N : g[k] \in Entries(P)
    OBVIOUS
  <2>2. QED
    BY <2>1 DEF Entries
<1>2. IsFiniteSet(B) /\ Cardinality(B) \in Nat
  <2>1. IsFiniteSet(2..Len(g)) /\ B \in SUBSET (2..Len(g))
    BY <1>1, FS_Interval
  <2>2. QED
    BY <2>1, FS_Subset, FS_CardinalityType
<1>3. A \subseteq B
  BY DEF Letter
<1>4. Cardinality(A) <= Cardinality(B)
  <2> HIDE DEF A, B
  <2>1. QED
    BY <1>2, <1>3, FS_Subset
<1>5. DistinctLetters => A = B
  <2>1. \A k \in 2..Len(g) : k \in N /\ k - 1 \in N
    BY <1>1
  <2>2. ASSUME DistinctLetters, NEW k \in B PROVE k \in A
    <3>1. g[k].name \in DOMAIN base /\ g[k - 1].name \in DOMAIN base
      BY <1>1, <2>1
    <3>2. QED
      BY <2>2, <3>1 DEF DistinctLetters, Letter
  <2>3. QED
    BY <1>3, <2>2
<1>6. Len(g) <= 1 => B = {}
  BY <1>1
<1>7. Transitions = Cardinality(B) /\ LetterChanges = Cardinality(A)
  BY DEF Transitions, LetterChanges
<1>8. count_context_switches = IF Len(g) <= 1 THEN 0 ELSE Cardinality(A)
  BY <1>7 DEF count_context_switches
<1> HIDE DEF A, B
<1>9. QED
  BY <1>2, <1>4, <1>5, <1>6, <1>7, <1>8, FS_EmptySet

\* What the program around the simulator does in a step.
LEMMA ProgramSteps ==
  ASSUME args \in Commands, [Next]_vars
  PROVE  /\ args' = args
         /\ \/ Load
            \/ FinishTest
            \/ UNCHANGED <<base, results, phase>> /\ phase = "simulate" /\ Simulate
            \/ /\ UNCHANGED <<base, results, engine>>
               /\ phase' = "simulate" => phase = "simulate"
               /\ phase' = "load" => phase = "load"
            \/ \E s \in AlgorithmNames : \E q, c :
                 /\ Run(s, q, c) /\ StartOK(s, q, c)
                 /\ args.compare_mode => Testing(s)
                 /\ args.compare_mode /\ results = <<>> => s = "fcfs"
<1>1. args' = args
  BY DEF Next, vars, program, Load, NoInput, SelectAlgorithm, SelectRR, SelectMLFQ, Refuse,
         TestPlain, TestRR, TestMLFQ, FinishTest, Exit, Run
<1>2. ASSUME NEW s, Testing(s), results = <<>> PROVE s = "fcfs"
  <2>1. Len(results) + 1 = 1
    BY <1>2
  <2>2. QED
    BY <1>2, <2>1 DEF Testing, Algorithms
<1>3. CASE SelectAlgorithm \/ TestPlain
  <2>1. PICK s \in {"fcfs", "sjf", "stcf"} :
          Run(s, 0, NothingRead) /\ (~args.compare_mode \/ Testing(s))
    BY <1>3 DEF SelectAlgorithm, TestPlain
  <2>2. s \in AlgorithmNames /\ StartOK(s, 0, NothingRead)
    BY DEF AlgorithmNames, StartOK
  <2>3. QED
    BY <1>1, <1>2, <2>1, <2>2
<1>4. CASE SelectRR \/ TestRR
  <2>1. PICK q \in Nat \ {0} : Run("rr", q, NothingRead) /\ (~args.compare_mode \/ Testing("rr"))
    BY <1>4, ConfigAssumption DEF SelectRR, TestRR
  <2>2. "rr" \in AlgorithmNames /\ StartOK("rr", q, NothingRead)
    BY DEF AlgorithmNames, StartOK
  <2>3. QED
    BY <1>1, <1>2, <2>1, <2>2
<1>5. CASE SelectMLFQ \/ TestMLFQ
  <2>1. PICK c : /\ Run("mlfq", 0, c) /\ LevelsOK(c.levels) /\ c.boost_period \in Int
                 /\ ~args.compare_mode \/ Testing("mlfq")
    BY <1>5, ConfigUsable DEF SelectMLFQ, TestMLFQ
  <2>2. "mlfq" \in AlgorithmNames /\ StartOK("mlfq", 0, c)
    BY <2>1 DEF AlgorithmNames, StartOK
  <2>3. QED
    BY <1>1, <1>2, <2>1, <2>2
<1>6. QED
  BY <1>1, <1>3, <1>4, <1>5 DEF Next, vars, program, NoInput, Refuse, Exit

\* While a simulation runs, its processes are those of the list, its chart shows
\* them, and what has to be on it is; the first test of a comparison is FCFS.
DrawingKept ==
  /\ phase = "load" => results = <<>>
  /\ \E X : results \in Seq(X)
  /\ phase = "simulate" =>
       /\ SameTimes(base, proc)
       /\ gantt \in Seq(Entries(DOMAIN base))
       /\ Len(gantt) < MaxGantt =>
            /\ Drawing(proc, gantt, InQueue(waiting) \cup Arriving(event_queue), DOMAIN base)
            /\ EndToCome(running, waiting, event_queue)
       /\ args.compare_mode /\ results = <<>> => scheduler = "fcfs"
\* The simulator keeps it.
LEMMA SimulateKeepsDrawing ==
  ASSUME Kept, DrawingKept, phase = "simulate", Simulate, args' = args,
         UNCHANGED <<base, results, phase>>
  PROVE  DrawingKept'
<1>1. PICK n \in Nat : /\ SettingsOK
                       /\ Good(proc, running, waiting, event_queue, 1..n)
                       /\ NoneBefore(event_queue, current_time)
                       /\ current_time \in Nat
  BY DEF Kept
<1>2. DOMAIN proc = 1..n /\ DOMAIN base = 1..n /\ SameTimes(base, proc)
  BY <1>1 DEF Good, RecordsOK, DrawingKept, SameTimes
<1>3. SameTimes(proc, proc')
  BY <1>1, TimesStay
<1>4. SameTimes(base, proc')
  BY <1>2, <1>3 DEF SameTimes
<1>5. gantt \in Seq(Entries(1..n))
  BY <1>2 DEF DrawingKept
<1>6. gantt' \in Seq(Entries(1..n))
  BY <1>1, <1>5, ChartShowsProcesses
<1>7. scheduler' = scheduler
  BY DEF Simulate, handle_arrival, handle_completion, handle_quantum_expire,
         handle_priority_boost, Handle, Report, settings
<1>8. ASSUME Len(gantt') < MaxGantt
      PROVE  /\ Drawing(proc', gantt', InQueue(waiting') \cup Arriving(event_queue'), 1..n)
             /\ EndToCome(running', waiting', event_queue')
  <2>1. Len(gantt) < MaxGantt
    <3>1. Len(gantt) \in Nat
      BY <1>5
    <3>2. CASE gantt' = gantt
      BY <1>8, <3>2
    <3>3. CASE \E s : gantt' = Append(gantt, s)
      <4>1. Len(gantt') = Len(gantt) + 1
        BY <1>5, <3>3
      <4>2. QED
        BY <1>8, <3>1, <4>1, EngineAssumption
    <3>4. QED
      BY <3>2, <3>3, ChartGoesOn
  <2>2. /\ Drawing(proc, gantt, InQueue(waiting) \cup Arriving(event_queue), 1..n)
        /\ EndToCome(running, waiting, event_queue)
    BY <1>2, <2>1 DEF DrawingKept
  <2>3. QED
    BY <1>1, <1>5, <2>1, <2>2, SimulateDraws
<1>9. base' = base /\ results' = results /\ phase' = phase
  OBVIOUS
<1>10. SameTimes(base, proc)' /\ EndToCome(running, waiting, event_queue)'
         = EndToCome(running', waiting', event_queue')
  BY <1>4, <1>9 DEF SameTimes, EndToCome
<1>11. QED
  BY <1>2, <1>6, <1>7, <1>8, <1>9, <1>10 DEF DrawingKept, Drawing

\* It holds in every state.
LEMMA DrawingAlways == Spec => []DrawingKept
<1>1. Init => DrawingKept
  <2> SUFFICES ASSUME Init PROVE DrawingKept
    OBVIOUS
  <2>1. results \in Seq({}) /\ phase = "load"
    BY DEF Init
  <2>2. QED
    BY <2>1 DEF Init, DrawingKept
<1>2. Inv /\ DrawingKept /\ [Next]_vars => DrawingKept'
  <2> SUFFICES ASSUME Inv, DrawingKept, [Next]_vars PROVE DrawingKept'
    OBVIOUS
  <2>1. args' = args /\ args \in Commands
    BY ProgramSteps DEF Inv
  <2>2. CASE Load
    BY <2>2 DEF Load, DrawingKept
  <2>3. CASE FinishTest
    <3>1. phase' = "select" /\ results' = Append(results, Result)
      BY <2>3 DEF FinishTest
    <3>2. PICK X : results \in Seq(X)
      BY DEF DrawingKept
    <3>3. results' \in Seq(X \cup {Result})
      <4>1. results \in Seq(X \cup {Result}) /\ Result \in X \cup {Result}
        BY <3>2
      <4>2. QED
        BY <3>1, <4>1
    <3>4. QED
      BY <3>1, <3>3 DEF DrawingKept
  <2>4. CASE UNCHANGED <<base, results, phase>> /\ phase = "simulate" /\ Simulate
    <3>1. Kept
      BY <2>4 DEF Inv, Empty
    <3>2. QED
      BY <2>1, <2>4, <3>1, SimulateKeepsDrawing
  <2>5. CASE /\ UNCHANGED <<base, results, engine>>
             /\ phase' = "simulate" => phase = "simulate"
             /\ phase' = "load" => phase = "load"
    <3>1. /\ base' = base /\ results' = results /\ proc' = proc /\ running' = running
          /\ waiting' = waiting /\ gantt' = gantt /\ event_queue' = event_queue
          /\ scheduler' = scheduler
      BY <2>5 DEF engine, settings
    <3>2. QED
      BY <2>1, <2>5, <3>1 DEF DrawingKept, SameTimes, Drawing, EndToCome
  <2>6. CASE \E s \in AlgorithmNames : \E q, c :
               /\ Run(s, q, c) /\ StartOK(s, q, c)
               /\ args.compare_mode => Testing(s)
               /\ args.compare_mode /\ results = <<>> => s = "fcfs"
    <3>1. PICK s, q, c : /\ Run(s, q, c) /\ StartOK(s, q, c)
                         /\ args.compare_mode /\ results = <<>> => s = "fcfs"
      BY <2>6
    <3>2. PICK n \in Nat : /\ CopiedProcesses \in [1..n -> Records]
                           /\ \A p \in 1..n : Fresh(CopiedProcesses[p])
      BY Copied DEF Inv
    <3>3. /\ Begin(s, q, c, CopiedProcesses) /\ phase' = "simulate"
          /\ base' = base /\ results' = results
      BY <3>1 DEF Run
    <3>4. /\ DOMAIN base = 1..n /\ SameTimes(base, CopiedProcesses)
      BY <3>2 DEF CopiedProcesses, NewProcess, SameTimes
    <3>5. /\ Drawing(proc', gantt', InQueue(waiting') \cup Arriving(event_queue'), 1..n)
          /\ EndToCome(running', waiting', event_queue')
          /\ proc' = CopiedProcesses /\ gantt' = <<>>
      BY <3>1, <3>2, <3>3, BegunDraws DEF StartOK
    <3>6. scheduler' = s /\ gantt' \in Seq(Entries(1..n))
      BY <3>3, <3>5 DEF Begin
    <3>7. \E X : results' \in Seq(X)
      BY <3>3 DEF DrawingKept
    <3>8. SameTimes(base', proc') /\ DOMAIN base' = 1..n
      BY <3>3, <3>4, <3>5
    <3>9. QED
      BY <2>1, <3>1, <3>3, <3>5, <3>6, <3>7, <3>8
      DEF DrawingKept, Drawing, EndToCome, SameTimes
  <2>7. QED
    BY <2>1, <2>2, <2>3, <2>4, <2>5, <2>6, ProgramSteps
<1>3. QED
  BY <1>1, <1>2, InvAlways, PTL DEF Spec

\* Who has work to do.
WithWork == {p \in DOMAIN base : base[p].burst_time > 0}

\* At the end of a simulation the chart shows everyone who has.
LEMMA AllShown ==
  ASSUME DrawingKept, ReportedAtEnd, phase = "simulate", reported, Len(gantt) < MaxGantt
  PROVE  Shown(gantt) = WithWork
<1> DEFINE P == DOMAIN base
<1>1. event_queue = <<>> /\ Len(event_queue) = 0
  BY DEF ReportedAtEnd
<1>2. /\ Drawing(proc, gantt, InQueue(waiting) \cup Arriving(event_queue), P)
      /\ EndToCome(running, waiting, event_queue)
      /\ SameTimes(base, proc) /\ gantt \in Seq(Entries(P))
  BY DEF DrawingKept
<1>3. InQueue(waiting) = {} /\ Arriving(event_queue) = {}
  BY <1>1, <1>2 DEF EndToCome, Arriving
<1>4. Shown(gantt) \subseteq P
  BY <1>2, ShownProcesses
<1>5. \A p \in P : proc[p].burst_time = base[p].burst_time
  BY <1>2 DEF SameTimes
<1>6. QED
  BY <1>2, <1>3, <1>4, <1>5 DEF Drawing, WithWork

\* The tests so far have counted no fewer switches than there must be, and the
\* first, that of FCFS, no more.
Counted(r, k) ==
  /\ r.context_switches \in Nat
  /\ Fewest(WithWork) <= r.context_switches
  /\ k = 1 => r.context_switches <= Fewest(WithWork)
CountsKept == DistinctLetters => \A k \in 1..Len(results) : Counted(results[k], k)

\* A test that is over has counted so.
LEMMA TestCounted ==
  ASSUME Inv, DrawingKept, ReportedAtEnd, NonPreemptiveOrder, Len(gantt) < MaxGantt,
         DistinctLetters, FinishTest
  PROVE  Counted(Result, Len(results) + 1)
<1> DEFINE P == DOMAIN base
           c == count_context_switches
           EachOnce == \A j, k \in DOMAIN gantt : j < k => gantt[j].name # gantt[k].name
<1>1. phase = "simulate" /\ reported /\ args.compare_mode
  BY DEF FinishTest
<1>2. Shown(gantt) = WithWork
  BY <1>1, AllShown
<1>3. gantt \in Seq(Entries(P)) /\ SameTimes(base, proc)
  BY <1>1 DEF DrawingKept
<1>4. /\ c \in Nat /\ Fewest(WithWork) <= c
      /\ EachOnce => c <= Fewest(WithWork)
  BY <1>2, <1>3, CountBounds
<1>5. PICK n \in Nat : /\ P = 1..n /\ \A p \in 1..n : base[p].arrival_time \in Nat
  BY DEF Inv, LoadedOK
<1>6. ASSUME scheduler = "fcfs" PROVE EachOnce
  <2>1. ASSUME NEW j \in DOMAIN gantt, NEW k \in DOMAIN gantt, j < k,
               gantt[j].name = gantt[k].name
        PROVE  FALSE
    <3> DEFINE p == gantt[j].name
    <3>1. \/ proc[p].arrival_time < proc[p].arrival_time
          \/ proc[p].arrival_time = proc[p].arrival_time /\ p < p
      BY <1>6, <2>1 DEF NonPreemptiveOrder
    <3>2. p \in P
      <4>1. gantt[j] \in Entries(P)
        BY <1>3, <2>1
      <4>2. QED
        BY <4>1 DEF Entries
    <3> HIDE DEF p
    <3>3. p \in Nat /\ proc[p].arrival_time \in Nat
      BY <1>3, <1>5, <3>2 DEF SameTimes
    <3>4. QED
      BY <3>1, <3>3
  <2>2. QED
    BY <2>1
<1>7. ASSUME Len(results) + 1 = 1 PROVE scheduler = "fcfs"
  <2>1. PICK X : results \in Seq(X)
    BY DEF DrawingKept
  <2>2. results = <<>>
    BY <1>7, <2>1, EmptySeq
  <2>3. QED
    BY <1>1, <2>2 DEF DrawingKept
<1>8. Result.context_switches = c
  BY DEF Result
<1> HIDE DEF c, EachOnce
<1>9. QED
  BY <1>4, <1>6, <1>7, <1>8 DEF Counted

\* "Counted as transitions between different processes in Gantt chart": never
\* more than these, and exactly these when no two names share their first
\* letter; then "FCFS: Minimum switches" is true: everyone with work is shown at
\* least once by every algorithm, and only once by FCFS (compare.c 52-62).  This
\* needs charts with room: a full one shows the first segments only.
THEOREM FewestSwitches == Spec /\ [](Len(gantt) < MaxGantt) => []SwitchesCounted
<1>1. Init => CountsKept
  <2>1. Init => Len(results) = 0
    BY DEF Init
  <2>2. QED
    BY <2>1 DEF CountsKept
<1>2. /\ Inv /\ DrawingKept /\ ReportedAtEnd /\ NonPreemptiveOrder /\ Len(gantt) < MaxGantt
      /\ CountsKept /\ [Next]_vars
      => CountsKept'
  <2> SUFFICES ASSUME Inv, DrawingKept, ReportedAtEnd, NonPreemptiveOrder,
                      Len(gantt) < MaxGantt, CountsKept, [Next]_vars, DistinctLetters'
               PROVE  \A k \in 1..Len(results') : Counted(results[k], k)'
    BY DEF CountsKept
  <2>1. CASE Load
    <3>1. results' = <<>>
      BY <2>1 DEF Load, DrawingKept
    <3>2. Len(results') = 0
      BY <3>1
    <3>3. QED
      BY <3>2
  <2>2. CASE base' = base /\ results' = results
    <3>1. DistinctLetters /\ Fewest(WithWork)' = Fewest(WithWork)
      BY <2>2 DEF DistinctLetters, Fewest, WithWork
    <3>2. QED
      BY <2>2, <3>1 DEF CountsKept, Counted
  <2>3. CASE FinishTest
    <3>1. base' = base /\ results' = Append(results, Result)
      BY <2>3 DEF FinishTest
    <3>2. DistinctLetters /\ Fewest(WithWork)' = Fewest(WithWork)
      BY <3>1 DEF DistinctLetters, Fewest, WithWork
    <3>3. PICK X : results \in Seq(X)
      BY DEF DrawingKept
    <3>4. PICK r : r = Result
      OBVIOUS
    <3>5. /\ Len(results) \in Nat /\ Len(results') = Len(results) + 1
          /\ results'[Len(results) + 1] = r /\ \A k \in 1..Len(results) : results'[k] = results[k]
      BY <3>1, <3>3, <3>4
    <3>6. Counted(r, Len(results) + 1) /\ \A k \in 1..Len(results) : Counted(results[k], k)
      BY <2>3, <3>2, <3>4, TestCounted DEF CountsKept
    <3>7. \A k \in 1..Len(results') : Counted(results'[k], k)
      <4>1. \A k \in 1..Len(results') : k \in 1..Len(results) \/ k = Len(results) + 1
        BY <3>5
      <4>2. QED
        BY <3>5, <3>6, <4>1
    <3>8. QED
      BY <3>2, <3>7 DEF Counted
  <2>4. QED
    <3>1. CASE \E s, q, c : Run(s, q, c)
      BY <2>2, <3>1 DEF Run
    <3>2. QED
      BY <2>1, <2>2, <2>3, <3>1, ProgramSteps DEF Inv
<1>3. Inv /\ DrawingKept /\ CountsKept => SwitchesCounted
  <2> SUFFICES ASSUME Inv, DrawingKept, CountsKept PROVE SwitchesCounted
    OBVIOUS
  <2>1. ASSUME reported, phase = "simulate"
        PROVE  /\ count_context_switches <= Transitions
               /\ DistinctLetters => count_context_switches = Transitions
    BY <2>1, CountIsTransitions DEF DrawingKept
  <2>2. ASSUME DistinctLetters, NEW k \in DOMAIN results
        PROVE  results[1].context_switches <= results[k].context_switches
    <3>1. PICK X : results \in Seq(X)
      BY DEF DrawingKept
    <3>2. k \in 1..Len(results) /\ 1 \in 1..Len(results)
      BY <2>2, <3>1
    <3>3. Counted(results[k], k) /\ Counted(results[1], 1)
      BY <2>2, <3>2 DEF CountsKept
    <3>4. Fewest(WithWork) \in Int
      <4>1. IsFiniteSet(WithWork)
        <5>1. PICK n \in Nat : DOMAIN base = 1..n
          BY DEF Inv, LoadedOK
        <5>2. IsFiniteSet(1..n) /\ WithWork \in SUBSET (1..n)
          BY <5>1, FS_Interval DEF WithWork
        <5>3. QED
          BY <5>2, FS_Subset
      <4>2. QED
        BY <4>1, FS_CardinalityType DEF Fewest
    <3>5. QED
      BY <3>3, <3>4 DEF Counted
  <2>3. QED
    BY <2>1, <2>2 DEF SwitchesCounted
<1>4. QED
  BY <1>1, <1>2, <1>3, InvAlways, DrawingAlways, BooksAlways, OrderIsKept, PTL DEF Spec
-----------------------------------------------------------------------------
\* Shortest first, when everyone arrives at the same time.

\* p before q: the shorter one, and of two that are equal the first in the
\* workload.
Shorter(pr, p, q) ==
  \/ pr[p].burst_time < pr[q].burst_time
  \/ pr[p].burst_time = pr[q].burst_time /\ p < q
ShorterIn(pr, P) == {x \in P \X P : Shorter(pr, x[1], x[2])}
Ahead(pr, p) == {q \in DOMAIN pr : Shorter(pr, q, p)}

\* The work of those in S, how long p waits for the shorter ones, and the
\* turnaround of all together if everyone does.
Bursts(pr) == [p \in DOMAIN pr |-> pr[p].burst_time]
BurstsOf(pr, S) == SumFunctionOnSet(Bursts(pr), S)
WaitFor(pr, p) == BurstsOf(pr, Ahead(pr, p))
Least(pr) == SumFunction([p \in DOMAIN pr |-> WaitFor(pr, p) + pr[p].burst_time])

\* One of two processes is before the other.
LEMMA OneIsShorter ==
  ASSUME NEW n \in Nat, NEW pr, \A p \in 1..n : pr[p].burst_time \in Nat,
         NEW p \in 1..n, NEW q \in 1..n
  PROVE  /\ ~Shorter(pr, p, p)
         /\ p # q => (Shorter(pr, p, q) <=> ~Shorter(pr, q, p))
         /\ Shorter(pr, p, q) => pr[p].burst_time <= pr[q].burst_time
BY DEF Shorter

\* Work is a number, and the same for records with the same bursts.
LEMMA BurstsTyped ==
  ASSUME NEW n \in Nat, NEW pr, DOMAIN pr = 1..n, \A p \in 1..n : pr[p].burst_time \in Nat
  PROVE  /\ \A p \in 1..n : Bursts(pr)[p] = pr[p].burst_time
         /\ \A S \in SUBSET (1..n) : IsFiniteSet(S) /\ BurstsOf(pr, S) \in Nat
         /\ \A p \in 1..n : Ahead(pr, p) \in SUBSET (1..n) /\ WaitFor(pr, p) \in Nat
<1>1. \A p \in 1..n : Bursts(pr)[p] = pr[p].burst_time
  BY DEF Bursts
<1>2. ASSUME NEW S \in SUBSET (1..n) PROVE IsFiniteSet(S) /\ BurstsOf(pr, S) \in Nat
  <2>1. IsFiniteSet(1..n)
    BY FS_Interval
  <2>2. IsFiniteSet(S)
    BY <2>1, FS_Subset
  <2>3. \A p \in S : Bursts(pr)[p] \in Nat
    BY <1>1
  <2>4. QED
    BY <2>2, <2>3, SumBounds DEF BurstsOf
<1>3. \A p \in 1..n : Ahead(pr, p) \in SUBSET (1..n)
  BY DEF Ahead
<1>4. QED
  BY <1>1, <1>2, <1>3 DEF WaitFor

\* If everyone is last seen on the CPU at a place of his own on the chart, and his
\* turnaround is not less than the work of all who are last seen before him, then
\* all together have at least the turnaround of the shortest first: of two
\* processes the later one waits for the other, which is no less than the work of
\* the shorter one.
LEMMA TurnaroundsAtLeast ==
  ASSUME NEW n \in Nat, NEW pr, DOMAIN pr = 1..n, \A p \in 1..n : pr[p].burst_time \in Nat,
         NEW last, \A p \in 1..n : last[p] \in Nat,
         NEW f, DOMAIN f = 1..n,
         \A p \in 1..n : /\ f[p] \in Int
                         /\ BurstsOf(pr, {q \in 1..n : last[q] <= last[p]}) <= f[p]
  PROVE  Least(pr) <= SumFunction(f)
<1> DEFINE P == 1..n
           b == Bursts(pr)
           e == [p \in P |-> [q \in P |-> IF last[q] <= last[p] THEN b[q] ELSE 0]]
           r == [p \in P |-> [q \in P |-> IF q = p \/ Shorter(pr, q, p) THEN b[q] ELSE 0]]
<1>1. IsFiniteSet(P) /\ \A p \in P : b[p] = pr[p].burst_time /\ b[p] \in Nat
  <2>1. IsFiniteSet(P)
    BY FS_Interval
  <2>2. \A p \in P : b[p] = pr[p].burst_time
    BY BurstsTyped
  <2>3. QED
    BY <2>1, <2>2
<1> HIDE DEF b
<1>2. \A p, q \in P : /\ e[p][q] = IF last[q] <= last[p] THEN b[q] ELSE 0
                      /\ r[p][q] = IF q = p \/ Shorter(pr, q, p) THEN b[q] ELSE 0
                      /\ e[p][q] \in Int /\ r[p][q] \in Int
  BY <1>1
<1> HIDE DEF e, r
<1>3. ASSUME NEW p \in P, NEW q \in P
      PROVE  r[p][q] + r[q][p] <= e[p][q] + e[q][p]
  <2>1. last[p] \in Nat /\ last[q] \in Nat /\ b[p] \in Nat /\ b[q] \in Nat
    BY <1>1
  <2>2. /\ e[p][q] = IF last[q] <= last[p] THEN b[q] ELSE 0
        /\ e[q][p] = IF last[p] <= last[q] THEN b[p] ELSE 0
        /\ r[p][q] = IF q = p \/ Shorter(pr, q, p) THEN b[q] ELSE 0
        /\ r[q][p] = IF p = q \/ Shorter(pr, p, q) THEN b[p] ELSE 0
    BY <1>2
  <2>3. CASE p = q
    <3>1. e[p][q] = b[p] /\ e[q][p] = b[p] /\ r[p][q] = b[p] /\ r[q][p] = b[p]
      BY <2>1, <2>3, <2>2
    <3>2. QED
      BY <2>1, <3>1
  <2>4. CASE p # q
    <3>1. r[p][q] + r[q][p] <= b[p] /\ r[p][q] + r[q][p] <= b[q]
      <4>1. /\ Shorter(pr, p, q) <=> ~Shorter(pr, q, p)
            /\ Shorter(pr, p, q) => b[p] <= b[q]
            /\ Shorter(pr, q, p) => b[q] <= b[p]
        BY <1>1, <2>4, OneIsShorter
      <4>2. CASE Shorter(pr, p, q)
        BY <2>1, <2>4, <2>2, <4>1, <4>2
      <4>3. CASE Shorter(pr, q, p)
        BY <2>1, <2>4, <2>2, <4>1, <4>3
      <4>4. QED
        BY <4>1, <4>2, <4>3
    <3>2. b[q] <= e[p][q] + e[q][p] \/ b[p] <= e[p][q] + e[q][p]
      <4>1. CASE last[q] <= last[p]
        BY <2>1, <2>2, <4>1
      <4>2. CASE ~(last[q] <= last[p])
        <5>1. last[p] <= last[q]
          BY <2>1, <4>2
        <5>2. QED
          BY <2>1, <2>2, <4>2, <5>1
      <4>3. QED
        BY <4>1, <4>2
    <3>3. /\ r[p][q] \in Int /\ r[q][p] \in Int /\ e[p][q] \in Int /\ e[q][p] \in Int
      BY <1>2
    <3>4. CASE b[q] <= e[p][q] + e[q][p]
      BY <2>1, <3>1, <3>3, <3>4
    <3>5. CASE b[p] <= e[p][q] + e[q][p]
      BY <2>1, <3>1, <3>3, <3>5
    <3>6. QED
      BY <3>2, <3>4, <3>5
  <2>5. QED
    BY <2>3, <2>4
<1>4. PairSum(r, P) <= PairSum(e, P)
  BY <1>1, <1>2, <1>3, PairSumAtLeast
<1>5. ASSUME NEW p \in P
      PROVE  /\ SumFunctionOnSet(r[p], P) = WaitFor(pr, p) + pr[p].burst_time
             /\ SumFunctionOnSet(e[p], P) \in Int /\ SumFunctionOnSet(e[p], P) <= f[p]
  <2> DEFINE A == Ahead(pr, p)
             B == A \cup {p}
             C == {q \in P : last[q] <= last[p]}
  <2>1. A \in SUBSET P /\ IsFiniteSet(A) /\ WaitFor(pr, p) \in Nat
    BY BurstsTyped
  <2>2. p \notin A /\ B \in SUBSET P /\ C \in SUBSET P /\ IsFiniteSet(B) /\ p \in B /\ B \ {p} = A
    <3>1. ~Shorter(pr, p, p)
      BY OneIsShorter
    <3>2. p \notin A
      BY <3>1 DEF Ahead
    <3> HIDE DEF A
    <3>3. QED
      BY <2>1, <3>2, FS_AddElement
  <2>3. \A q \in P : q \in B <=> q = p \/ Shorter(pr, q, p)
    BY DEF Ahead
  <2> HIDE DEF A, B
  <2>4. SumFunctionOnSet(r[p], P) = SumFunctionOnSet(b, B)
    <3>1. \A q \in P : r[p][q] = IF q \in B THEN b[q] ELSE 0
      BY <1>2, <2>3
    <3>2. \A q \in B : b[q] \in Int
      BY <1>1, <2>2
    <3>3. PICK h : h = r[p]
      OBVIOUS
    <3>4. \A q \in P : h[q] = IF q \in B THEN b[q] ELSE 0
      BY <3>1, <3>3
    <3>5. IsFiniteSet(P) /\ B \in SUBSET P
      BY <1>1, <2>2
    <3> HIDE DEF P
    <3>6. SumFunctionOnSet(h, P) = SumFunctionOnSet(b, B)
      BY <3>2, <3>4, <3>5, SumWhere
    <3>7. QED
      BY <3>3, <3>6
  <2>5. SumFunctionOnSet(b, B) = b[p] + SumFunctionOnSet(b, A)
    <3>1. \A q \in B : b[q] \in Int
      BY <1>1, <2>2
    <3>2. SumFunctionOnSet(b, B) = b[p] + SumFunctionOnSet(b, B \ {p})
      BY <2>2, <3>1, SumSplit
    <3>3. QED
      BY <2>2, <3>2
  <2>6. SumFunctionOnSet(b, A) = WaitFor(pr, p)
    BY DEF WaitFor, BurstsOf, A, b
  <2>7. SumFunctionOnSet(e[p], P) = BurstsOf(pr, C)
    <3>1. \A q \in P : e[p][q] = IF q \in C THEN b[q] ELSE 0
      BY <1>2
    <3>2. \A q \in C : b[q] \in Int
      BY <1>1
    <3> HIDE DEF C
    <3>3. PICK h : h = e[p]
      OBVIOUS
    <3>4. \A q \in P : h[q] = IF q \in C THEN b[q] ELSE 0
      BY <3>1, <3>3
    <3>5. IsFiniteSet(P) /\ C \in SUBSET P
      BY <1>1, <2>2
    <3> HIDE DEF P
    <3>6. SumFunctionOnSet(h, P) = SumFunctionOnSet(b, C)
      BY <3>2, <3>4, <3>5, SumWhere
    <3>7. QED
      BY <3>3, <3>6 DEF BurstsOf, b
  <2>8. BurstsOf(pr, C) \in Nat /\ BurstsOf(pr, C) <= f[p]
    BY <2>2, BurstsTyped
  <2>9. SumFunctionOnSet(r[p], P) = WaitFor(pr, p) + pr[p].burst_time
    <3>1. b[p] = pr[p].burst_time /\ b[p] \in Nat
      BY <1>1
    <3>2. QED
      BY <2>1, <2>4, <2>5, <2>6, <3>1
  <2>10. QED
    BY <2>7, <2>8, <2>9
<1>6. Least(pr) = PairSum(r, P)
  <2>1. [p \in P |-> SumFunctionOnSet(r[p], P)]
          = [p \in P |-> WaitFor(pr, p) + pr[p].burst_time]
    BY <1>5
  <2>2. QED
    BY <2>1 DEF Least, SumFunction, PairSum
<1>7. PairSum(e, P) <= SumFunction(f)
  <2> DEFINE h == [p \in P |-> SumFunctionOnSet(e[p], P)]
  <2>1. \A p \in P : h[p] \in Int /\ f[p] \in Int /\ h[p] <= f[p]
    BY <1>5
  <2>2. PairSum(e, P) = SumFunctionOnSet(h, P)
    BY DEF PairSum
  <2> HIDE DEF h
  <2>3. SumFunctionOnSet(h, P) <= SumFunctionOnSet(f, P)
    BY <1>1, <2>1, SumAtMost
  <2>4. QED
    BY <2>2, <2>3 DEF SumFunction
<1>8. PairSum(e, P) \in Int /\ PairSum(r, P) \in Int /\ SumFunction(f) \in Int
  <2> DEFINE h == [p \in P |-> SumFunctionOnSet(e[p], P)]
             g == [p \in P |-> SumFunctionOnSet(r[p], P)]
  <2>1. \A p \in P : h[p] \in Int /\ g[p] \in Int
    <3>1. \A p \in P : WaitFor(pr, p) \in Nat
      BY BurstsTyped
    <3>2. QED
      BY <1>5, <3>1
  <2>2. PairSum(e, P) = SumFunctionOnSet(h, P) /\ PairSum(r, P) = SumFunctionOnSet(g, P)
    BY DEF PairSum
  <2> HIDE DEF h, g
  <2>3. SumFunctionOnSet(h, P) \in Int /\ SumFunctionOnSet(g, P) \in Int
        /\ SumFunctionOnSet(f, P) \in Int
    BY <1>1, <2>1, SumSplit
  <2>4. QED
    BY <2>2, <2>3 DEF SumFunction
<1>9. QED
  BY <1>4, <1>6, <1>7, <1>8

\* How long the segments are.
Lengths(g) == [k \in DOMAIN g |-> g[k].end - g[k].start]

\* A segment ends no earlier than all work up to it takes, from when the first
\* can start.
LEMMA ChartTakes ==
  ASSUME NEW P, NEW g, NEW e, ChartOK(g, e, P), NEW a \in Nat,
         1 \in 1..Len(g) => a <= g[1].start
  PROVE  /\ Len(g) \in Nat /\ DOMAIN g = 1..Len(g)
         /\ \A k \in 1..Len(g) : /\ Lengths(g)[k] \in Nat
                                 /\ SumFunctionOnSet(Lengths(g), 1..k) <= g[k].end - a
<1> DEFINE len == Lengths(g)
           Sum(S) == SumFunctionOnSet(len, S)
           N == 1..Len(g)
           T == {k \in Nat : k \in N => Sum(1..k) \in Nat /\ Sum(1..k) + a <= g[k].end}
<1>1. Len(g) \in Nat /\ DOMAIN g = N
  BY DEF ChartOK
<1>2. \A k \in N : /\ g[k].start \in Nat /\ g[k].end \in Nat /\ g[k].start <= g[k].end
                   /\ len[k] = g[k].end - g[k].start /\ len[k] \in Nat
  <2>1. \A k \in N : g[k].start \in Nat /\ g[k].end \in Nat
    BY ChartTimes
  <2>2. \A k \in N : g[k].start <= g[k].end
    BY DEF ChartOK
  <2>3. \A k \in N : len[k] = g[k].end - g[k].start
    BY <1>1 DEF Lengths
  <2>4. QED
    BY <2>1, <2>2, <2>3
<1> HIDE DEF len
<1>3. ASSUME NEW k \in Nat, k \in T PROVE k + 1 \in T
  <2> DEFINE m == k + 1
  <2>1. SUFFICES ASSUME m \in N PROVE Sum(1..m) \in Nat /\ Sum(1..m) + a <= g[m].end
    OBVIOUS
  <2>2. IsFiniteSet(1..m) /\ m \in 1..m /\ (1..m) \ {m} = 1..k /\ \A j \in 1..m : j \in N
    <3>1. IsFiniteSet(1..m)
      BY FS_Interval
    <3>2. QED
      BY <1>1, <2>1, <3>1
  <2>3. Sum(1..m) = len[m] + Sum(1..k)
    <3>1. \A j \in 1..m : len[j] \in Int
      BY <1>2, <2>2
    <3>2. Sum(1..m) = len[m] + Sum((1..m) \ {m})
      BY <2>2, <3>1, SumSplit
    <3>3. QED
      BY <2>2, <3>2
  <2>4. Sum(1..k) \in Nat /\ Sum(1..k) + a <= g[m].start
    <3>1. CASE k = 0
      <4>1. 1..k = {} /\ Sum({}) = 0
        BY <3>1, SumSmall
      <4>2. a <= g[m].start
        BY <2>1, <3>1
      <4>3. QED
        BY <4>1, <4>2
    <3>2. CASE k # 0
      <4>1. k \in N /\ m \in 2..Len(g) /\ m - 1 = k
        BY <1>1, <2>1, <3>2
      <4>2. Sum(1..k) \in Nat /\ Sum(1..k) + a <= g[k].end
        BY <1>3, <4>1
      <4>3. g[m - 1].end <= g[m].start
        BY <4>1 DEF ChartOK
      <4>4. g[k].end \in Nat /\ g[m].start \in Nat /\ g[k].end <= g[m].start
        BY <1>2, <2>1, <4>1, <4>3
      <4> HIDE DEF Sum, m, T, N
      <4>5. QED
        BY <4>2, <4>4
    <3>3. QED
      BY <3>1, <3>2
  <2>5. len[m] = g[m].end - g[m].start /\ len[m] \in Nat /\ g[m].end \in Nat /\ g[m].start \in Nat
    BY <1>2, <2>1
  <2> HIDE DEF Sum, m
  <2>6. PICK x : x = Sum(1..k)
    OBVIOUS
  <2>7. x \in Nat /\ x + a <= g[m].start /\ Sum(1..m) = len[m] + x
    BY <2>3, <2>4, <2>6
  <2>8. len[m] + x \in Nat /\ len[m] + x + a <= g[m].end
    BY <2>5, <2>7
  <2>9. QED
    BY <2>7, <2>8
<1>4. \A k \in Nat : k \in T
  <2>1. 0 \in T
    OBVIOUS
  <2> HIDE DEF T
  <2>2. QED
    BY <1>3, <2>1, NatSetInduction
<1>5. \A k \in N : Sum(1..k) <= g[k].end - a
  <2>1. TAKE k \in N
  <2>2. Sum(1..k) \in Nat /\ Sum(1..k) + a <= g[k].end /\ g[k].end \in Nat
    BY <1>2, <1>4
  <2> HIDE DEF Sum
  <2>3. QED
    BY <2>2
<1>6. QED
  BY <1>1, <1>2, <1>5 DEF len

\* The segments of those in W.
SegmentsOf(g, W) == {k \in 1..Len(g) : g[k].name \in W}

\* If everyone is shown for his burst, the segments of those in W last as long as
\* their work.
LEMMA ShownWork ==
  ASSUME NEW pr, IsFiniteSet(DOMAIN pr), NEW g, Len(g) \in Nat, DOMAIN g = 1..Len(g),
         \A k \in 1..Len(g) : Lengths(g)[k] \in Nat,
         \A p \in DOMAIN pr : TimeIn(g, p) = pr[p].burst_time, NEW W \in SUBSET DOMAIN pr
  PROVE  BurstsOf(pr, W) = SumFunctionOnSet(Lengths(g), SegmentsOf(g, W))
<1>1. PICK N : N = 1..Len(g)
  OBVIOUS
<1>2. PICK b : b = Bursts(pr)
  OBVIOUS
<1>3. PICK len : len = Lengths(g)
  OBVIOUS
<1>4. PICK name : name = [k \in N |-> g[k].name]
  OBVIOUS
<1>5. IsFiniteSet(N) /\ IsFiniteSet(W)
  <2>1. IsFiniteSet(1..Len(g))
    BY FS_Interval
  <2>2. QED
    BY <1>1, <2>1, FS_Subset
<1>6. \A k \in N : len[k] \in Int /\ name[k] = g[k].name
  BY <1>1, <1>3, <1>4
<1>7. ASSUME NEW w \in W
      PROVE  b[w] = SumFunctionOnSet(len, Group(N, name, {w}))
  <2>1. b[w] = pr[w].burst_time
    <3>1. \A p \in DOMAIN pr : Bursts(pr)[p] = pr[p].burst_time
      BY DEF Bursts
    <3>2. QED
      BY <1>2, <3>1
  <2>2. TimeIn(g, w) = SumFunctionOnSet(len, SegmentsIn(g, w))
    BY <1>3 DEF TimeIn, Lengths
  <2>3. SegmentsIn(g, w) = Group(N, name, {w})
    BY <1>1, <1>6 DEF SegmentsIn, Group
  <2>4. QED
    BY <2>1, <2>2, <2>3
<1>8. SumFunctionOnSet(b, W) = SumFunctionOnSet(len, Group(N, name, W))
  <2>1. Grouped(b, len, N, name, W)
    BY <1>7 DEF Grouped
  <2>2. \A k \in N : len[k] \in Int
    BY <1>6
  <2>3. QED
    BY <1>5, <2>1, <2>2, SumByGroup
<1>9. Group(N, name, W) = SegmentsOf(g, W)
  BY <1>1, <1>6 DEF Group, SegmentsOf
<1>10. QED
  BY <1>2, <1>3, <1>8, <1>9 DEF BurstsOf

\* Nothing is shown before a, everyone is shown for his burst, and f is how long
\* it takes from a to the end of his last segment.
Finishes(pr, g, f, a) ==
  /\ 1 \in 1..Len(g) => a <= g[1].start
  /\ DOMAIN f = DOMAIN pr
  /\ \A p \in DOMAIN pr :
       /\ f[p] \in Nat /\ TimeIn(g, p) = pr[p].burst_time
       /\ SegmentsIn(g, p) # {} => f[p] = g[Max(SegmentsIn(g, p))].end - a

\* Then all together take at least the turnaround of the shortest first: whoever is
\* last seen before p has had all his work before.
LEMMA ChartTakesLeast ==
  ASSUME NEW n \in Nat, NEW pr, DOMAIN pr = 1..n, \A p \in 1..n : pr[p].burst_time \in Nat,
         NEW g, NEW e, ChartOK(g, e, 1..n), NEW a \in Nat, NEW f, Finishes(pr, g, f, a)
  PROVE  Least(pr) <= SumFunction(f)
<1>1. /\ 1 \in 1..Len(g) => a <= g[1].start
      /\ DOMAIN f = 1..n
      /\ \A p \in 1..n :
           /\ f[p] \in Nat /\ TimeIn(g, p) = pr[p].burst_time
           /\ SegmentsIn(g, p) # {} => f[p] = g[Max(SegmentsIn(g, p))].end - a
  BY DEF Finishes
<1> DEFINE P == 1..n
           N == 1..Len(g)
           last == [p \in P |-> IF SegmentsIn(g, p) = {} THEN 0 ELSE Max(SegmentsIn(g, p))]
<1>2. /\ Len(g) \in Nat /\ DOMAIN g = N
      /\ \A k \in N : /\ Lengths(g)[k] \in Nat
                      /\ SumFunctionOnSet(Lengths(g), 1..k) <= g[k].end - a
  BY <1>1, ChartTakes
<1>3. IsFiniteSet(N) /\ \A k \in N : g[k].name \in P /\ g[k].end \in Nat
  <2>1. IsFiniteSet(N)
    BY <1>2, FS_Interval
  <2>2. QED
    BY <2>1, ChartTimes
<1>4. \A p \in P : /\ SegmentsIn(g, p) \in SUBSET N
                   /\ SegmentsIn(g, p) = {k \in N : g[k].name = p}
  BY <1>2 DEF SegmentsIn
<1>5. \A p \in P : /\ last[p] \in Nat
                   /\ SegmentsIn(g, p) = {} => last[p] = 0
                   /\ SegmentsIn(g, p) # {} => /\ last[p] = Max(SegmentsIn(g, p))
                                               /\ last[p] \in N
                   /\ \A k \in SegmentsIn(g, p) : k <= last[p]
  <2>1. TAKE p \in P
  <2>2. CASE SegmentsIn(g, p) = {}
    BY <2>2
  <2>3. CASE SegmentsIn(g, p) # {}
    <3>1. Max(SegmentsIn(g, p)) \in SegmentsIn(g, p)
          /\ \A k \in SegmentsIn(g, p) : k <= Max(SegmentsIn(g, p))
      BY <1>2, <1>4, <2>3, LastPlace
    <3>2. Max(SegmentsIn(g, p)) \in N /\ Max(SegmentsIn(g, p)) \in Nat
      BY <1>2, <1>4, <3>1
    <3>3. QED
      BY <2>3, <3>1, <3>2
  <2>4. QED
    BY <2>2, <2>3
<1> HIDE DEF last
<1>6. ASSUME NEW p \in P PROVE BurstsOf(pr, {q \in P : last[q] <= last[p]}) <= f[p]
  <2> DEFINE W == {q \in P : last[q] <= last[p]}
             len == Lengths(g)
             S == {k \in N : g[k].name \in W}
  <2>1. W \in SUBSET P /\ IsFiniteSet(W) /\ BurstsOf(pr, W) \in Nat
    <3>1. W \in SUBSET P
      OBVIOUS
    <3> HIDE DEF W
    <3>2. QED
      BY <3>1, BurstsTyped
  <2>2. BurstsOf(pr, W) = SumFunctionOnSet(len, S)
    <3>1. PICK V \in SUBSET P : V = W
      BY <2>1
    <3>2. \A k \in 1..Len(g) : Lengths(g)[k] \in Nat
      BY <1>2
    <3>3. IsFiniteSet(DOMAIN pr) /\ V \in SUBSET DOMAIN pr
      BY <3>1, FS_Interval
    <3>4. BurstsOf(pr, V) = SumFunctionOnSet(Lengths(g), SegmentsOf(g, V))
      BY <1>1, <1>2, <3>2, <3>3, ShownWork
    <3>5. QED
      BY <3>1, <3>4 DEF SegmentsOf
  <2>3. CASE SegmentsIn(g, p) = {}
    <3>1. \A k \in N : k \in SegmentsIn(g, g[k].name) /\ k \in Nat \ {0}
      BY <1>2, <1>3, <1>4
    <3>2. \A k \in N : ~(last[g[k].name] <= 0)
      BY <1>3, <1>5, <3>1
    <3>3. S = {}
      BY <1>5, <2>3, <3>2
    <3>4. SumFunctionOnSet(len, S) = 0 /\ f[p] \in Nat
      BY <1>1, <3>3, SumSmall
    <3>5. QED
      BY <2>2, <3>4
  <2>4. CASE SegmentsIn(g, p) # {}
    <3> DEFINE m == last[p]
    <3>1. m \in N /\ f[p] = g[m].end - a
      BY <1>1, <1>5, <2>4
    <3>2. SumFunctionOnSet(len, 1..m) <= g[m].end - a
      BY <1>2, <3>1
    <3>3. S \in SUBSET (1..m)
      <4>1. ASSUME NEW k \in S PROVE k \in 1..m
        <5>1. k \in N /\ g[k].name \in P /\ last[g[k].name] <= m
          BY <1>3
        <5>2. k \in SegmentsIn(g, g[k].name)
          BY <1>4, <5>1
        <5>3. k <= last[g[k].name] /\ last[g[k].name] \in Nat
          BY <1>5, <5>1, <5>2
        <5> HIDE DEF S, N
        <5>4. m \in Nat /\ k \in Nat /\ 1 <= k
          BY <1>2, <1>5, <5>1 DEF N
        <5>5. QED
          BY <5>1, <5>3, <5>4
      <4>2. QED
        BY <4>1
    <3>4. \A k \in 1..m : len[k] \in Nat
      BY <1>2, <3>1
    <3>5. IsFiniteSet(1..m)
      <4>1. m \in Nat
        BY <1>2, <3>1
      <4>2. \A j \in Nat : IsFiniteSet(1..j)
        BY FS_Interval
      <4>3. QED
        BY <4>1, <4>2
    <3> HIDE DEF S, len, m
    <3>6. /\ SumFunctionOnSet(len, S) \in Nat
          /\ SumFunctionOnSet(len, S) <= SumFunctionOnSet(len, 1..m)
      BY <3>3, <3>4, <3>5, SumSubset
    <3>7. SumFunctionOnSet(len, 1..m) \in Int
      <4>1. \A k \in 1..m : len[k] \in Int
        BY <3>4
      <4>2. QED
        BY <3>5, <4>1, SumSplit
    <3>8. f[p] \in Nat
      BY <1>1
    <3> HIDE DEF W
    <3>9. BurstsOf(pr, W) <= f[p]
      BY <2>2, <3>1, <3>2, <3>6, <3>7, <3>8
    <3>10. QED
      BY <3>9 DEF W
  <2>5. QED
    BY <2>3, <2>4
<1>7. \A p \in 1..n : /\ f[p] \in Int
                     /\ BurstsOf(pr, {q \in 1..n : last[q] <= last[p]}) <= f[p]
  BY <1>1, <1>6
<1>8. \A p \in 1..n : last[p] \in Nat
  BY <1>5
<1>9. QED
  BY <1>1, <1>7, <1>8, TurnaroundsAtLeast

\* When everyone arrives at the same time, no chart that is reported has a
\* smaller total turnaround than that of the shortest first.
LEMMA NoneIsBetter ==
  ASSUME Inv, CpuKept, BooksKept, ReportedAtEnd, Len(gantt) < MaxGantt, Undisturbed, reported,
         NEW a \in Nat, \A p \in Processes : proc[p].arrival_time = a
  PROVE  Least(proc) <= TotalOf([p \in Processes |-> TurnaroundTime(p)])
<1>1. PICK n \in Nat : Processes = 1..n /\ DOMAIN proc = 1..n /\ \A p \in 1..n : proc[p] \in Records
  <2>1. CASE Empty
    <3>1. DOMAIN proc = 1..0
      BY <2>1 DEF Empty
    <3>2. QED
      BY <3>1 DEF Processes
  <2>2. CASE Kept
    BY <2>2 DEF Kept, Good, RecordsOK, Processes
  <2>3. QED
    BY <2>1, <2>2 DEF Inv
<1>2. \A p \in 1..n : proc[p].burst_time \in Nat /\ proc[p].finish_time \in Int
  BY <1>1 DEF Records
<1>3. PICK e \in Nat : ChartOK(gantt, e, 1..n)
  BY <1>1 DEF CpuKept, OnCpu, Served
<1>4. \A p \in 1..n : Done(proc[p]) /\ Ledger(proc[p], gantt, p)
  BY <1>1, DoneAtEnd
<1>5. PICK f : f = [p \in Processes |-> TurnaroundTime(p)]
  OBVIOUS
<1>6. DOMAIN f = 1..n
  BY <1>1, <1>5
<1>7. ASSUME NEW p \in 1..n
      PROVE  /\ f[p] \in Nat /\ TimeIn(gantt, p) = proc[p].burst_time
             /\ SegmentsIn(gantt, p) # {} => f[p] = gantt[Max(SegmentsIn(gantt, p))].end - a
  <2>1. f[p] = proc[p].finish_time - a
    BY <1>1, <1>5 DEF TurnaroundTime
  <2>2. proc[p].remaining_time = 0 /\ TimeIn(gantt, p) = proc[p].burst_time - proc[p].remaining_time
    BY <1>4 DEF Done, Ledger
  <2>3. /\ proc[p].finish_time >= a + proc[p].burst_time
        /\ SegmentsIn(gantt, p) # {} => proc[p].finish_time = gantt[Max(SegmentsIn(gantt, p))].end
    BY <1>1, <1>4 DEF Ledger
  <2>4. QED
    BY <1>2, <2>1, <2>2, <2>3
<1>8. ASSUME 1 \in 1..Len(gantt) PROVE a <= gantt[1].start
  <2>1. PICK p \in 1..n : p = gantt[1].name
    BY <1>3, <1>8, ChartTimes
  <2>2. Len(gantt) \in Nat /\ DOMAIN gantt = 1..Len(gantt)
    BY <1>3 DEF ChartOK
  <2>3. 1 \in SegmentsIn(gantt, p) /\ SegmentsIn(gantt, p) \subseteq 1..Len(gantt)
    BY <1>8, <2>1, <2>2 DEF SegmentsIn
  <2>4. Min(SegmentsIn(gantt, p)) = 1
    <3>1. PICK m : m = Min(SegmentsIn(gantt, p))
      OBVIOUS
    <3>2. m \in SegmentsIn(gantt, p) /\ m <= 1
      BY <2>2, <2>3, <3>1, LeastPosition
    <3>3. m \in 1..Len(gantt)
      BY <2>3, <3>2
    <3>4. QED
      BY <2>2, <3>1, <3>2, <3>3
  <2>5. proc[p].start_time = gantt[1].start /\ proc[p].start_time >= a
    BY <1>1, <1>4, <2>3, <2>4 DEF Done, Ledger
  <2>6. gantt[1].start \in Nat
    BY <1>3, <1>8, ChartTimes
  <2>7. QED
    BY <2>5, <2>6
<1>9. Least(proc) <= SumFunction(f)
  <2>1. PICK pr : pr = proc
    OBVIOUS
  <2>2. PICK g : g = gantt
    OBVIOUS
  <2>3. DOMAIN pr = 1..n /\ \A p \in 1..n : pr[p].burst_time \in Nat
    BY <1>1, <1>2, <2>1
  <2>4. ChartOK(g, e, 1..n) /\ Finishes(pr, g, f, a)
    BY <1>1, <1>3, <1>6, <1>7, <1>8, <2>1, <2>2 DEF Finishes
  <2>5. Least(pr) <= SumFunction(f)
    BY <2>3, <2>4, ChartTakesLeast
  <2>6. QED
    BY <2>1, <2>5
<1>10. QED
  BY <1>5, <1>9 DEF TotalOf

\* The order, the work and that turnaround depend on the bursts alone.
LEMMA SameLeast ==
  ASSUME NEW pr, NEW pr2, SameTimes(pr, pr2)
  PROVE  Least(pr2) = Least(pr)
<1>1. DOMAIN pr2 = DOMAIN pr /\ \A p \in DOMAIN pr : pr2[p].burst_time = pr[p].burst_time
  BY DEF SameTimes
<1>2. Bursts(pr2) = Bursts(pr)
  BY <1>1 DEF Bursts
<1>3. \A p \in DOMAIN pr : Ahead(pr2, p) = Ahead(pr, p)
  BY <1>1 DEF Ahead, Shorter
<1>4. \A p \in DOMAIN pr : WaitFor(pr2, p) = WaitFor(pr, p)
  BY <1>2, <1>3 DEF WaitFor, BurstsOf
<1>5. [p \in DOMAIN pr2 |-> WaitFor(pr2, p) + pr2[p].burst_time]
        = [p \in DOMAIN pr |-> WaitFor(pr, p) + pr[p].burst_time]
  BY <1>1, <1>4
<1>6. QED
  BY <1>5 DEF Least

\* Under SJF and STCF those who arrive together are planned in that order.
LEMMA ArrivalsShortest ==
  ASSUME NEW n \in Nat, NEW pr \in [1..n -> Records], NEW a,
         \A p \in 1..n : pr[p].arrival_time = a /\ pr[p].remaining_time = pr[p].burst_time
  PROVE  ArriveInTurn(ArrivalEvents(pr, TRUE), ShorterIn(pr, 1..n))
<1> DEFINE P == 1..n
           R == ShorterIn(pr, P)
           arrival(m) == Event(pr[m].arrival_time, "ARRIVAL", m)
<1>1. \A m \in P : /\ arrival(m) \in EventsOf(P) /\ arrival(m).type = "ARRIVAL"
                   /\ arrival(m).process = m /\ arrival(m).time = a /\ a \in Nat
                   /\ pr[m].burst_time \in Nat /\ pr[m].remaining_time = pr[m].burst_time
  BY DEF Event, EventsOf, EventTypes, Records
<1>2. PICK queue :
        /\ queue[0] = <<>> /\ ArrivalEvents(pr, TRUE) = queue[n]
        /\ \A m \in P : queue[m] = EnqueueEvent(queue[m - 1], arrival(m), pr, TRUE)
  BY ArrivalsUnfold
<1>3. \A x, y \in P : Precedes(arrival(x), arrival(y), pr, TRUE) <=>
                        pr[x].burst_time < pr[y].burst_time
  BY <1>1 DEF Precedes
<1> HIDE DEF arrival
<1> DEFINE Ok(m) == /\ queue[m] \in Seq(EventsOf(P))
                    /\ \A k \in 1..Len(queue[m]) : \E x \in 1..m : queue[m][k] = arrival(x)
                    /\ ArriveInTurn(queue[m], R)
           T == {m \in Nat : m <= n => Ok(m)}
<1>4. 0 \in T
  <2>1. <<>> \in Seq(EventsOf(P)) /\ ArriveInTurn(<<>>, R) /\ Len(<<>>) = 0
    BY DEF ArriveInTurn
  <2>2. Ok(0)
    BY <1>2, <2>1
  <2> HIDE DEF Ok
  <2>3. QED
    BY <2>2
<1>5. ASSUME NEW m \in Nat, m \in T PROVE m + 1 \in T
  <2> DEFINE x == m + 1
             s == queue[m]
             t == queue[x]
  <2>1. SUFFICES ASSUME x <= n PROVE Ok(x)
    OBVIOUS
  <2>2. x \in P /\ x - 1 = m /\ Ok(m) /\ \A y \in 1..m : y < x /\ y \in P
    BY <1>5, <2>1
  <2>3. t = EnqueueEvent(s, arrival(x), pr, TRUE)
    BY <1>2, <2>2
  <2> HIDE DEF x, s, t
  <2>4. /\ s \in Seq(EventsOf(P)) /\ ArriveInTurn(s, R)
        /\ \A k \in 1..Len(s) : \E y \in 1..m : s[k] = arrival(y)
    BY <2>2 DEF s
  <2> HIDE DEF Ok, T
  <2>5. PICK i \in 1..(Len(s) + 1) :
          /\ t \in Seq(EventsOf(P)) /\ Inserted(t, s, i, arrival(x))
          /\ i <= Len(s) => Precedes(arrival(x), s[i], pr, TRUE)
          /\ \A j \in 1..(i - 1) : ~Precedes(arrival(x), s[j], pr, TRUE)
    BY <1>1, <2>2, <2>3, <2>4, EnqueuedAt
  <2> DEFINE from(j) == IF j < i THEN j ELSE j - 1
  <2>6. \A j \in 1..Len(t) : j # i => from(j) \in 1..Len(s) /\ t[j] = s[from(j)]
    BY <2>4, <2>5, InsertedFrom
  <2>7. t[i] = arrival(x) /\ Len(t) = Len(s) + 1 /\ Len(s) \in Nat
    BY <2>4, <2>5 DEF Inserted
  <2>8. \A k \in 1..Len(t) : \E y \in 1..x : t[k] = arrival(y)
    BY <2>2, <2>4, <2>6, <2>7
  <2>9. ArriveInTurn(t, R)
    <3>1. SUFFICES ASSUME NEW j \in 1..Len(t), NEW k \in 1..Len(t), j < k
                   PROVE  <<t[j].process, t[k].process>> \in R
      BY DEF ArriveInTurn
    <3>2. CASE j # i /\ k # i
      <4>1. from(j) < from(k)
        BY <2>7, <3>1, <3>2
      <4> HIDE DEF from, R
      <4>2. s[from(j)].type = "ARRIVAL" /\ s[from(k)].type = "ARRIVAL"
        BY <1>1, <2>2, <2>4, <2>6, <3>2
      <4>3. QED
        BY <2>4, <2>6, <3>2, <4>1, <4>2 DEF ArriveInTurn
    <3>3. CASE k = i
      <4>1. j \in 1..(i - 1) /\ j \in 1..Len(s) /\ t[j] = s[j]
        BY <2>5, <2>7, <3>1, <3>3 DEF Inserted
      <4>2. PICK y \in 1..m : s[j] = arrival(y)
        BY <2>4, <4>1
      <4>3. y \in P /\ x \in P /\ y < x /\ ~(pr[x].burst_time < pr[y].burst_time)
        BY <1>3, <2>2, <2>5, <4>1, <4>2
      <4>4. Shorter(pr, y, x)
        BY <1>1, <4>3 DEF Shorter
      <4>5. <<y, x>> \in R
        BY <4>3, <4>4 DEF ShorterIn
      <4>6. t[j].process = y /\ t[k].process = x
        BY <1>1, <2>7, <3>3, <4>1, <4>2, <4>3
      <4>7. QED
        BY <4>5, <4>6
    <3>4. CASE j = i
      <4>1. k - 1 \in 1..Len(s) /\ t[k] = s[k - 1] /\ i \in 1..Len(s) /\ i <= k - 1
        BY <2>6, <2>7, <3>1, <3>4
      <4>2. PICK y \in 1..m : s[k - 1] = arrival(y)
        BY <2>4, <4>1
      <4>3. PICK z \in 1..m : s[i] = arrival(z)
        BY <2>4, <4>1
      <4>4. x \in P /\ y \in P /\ z \in P
        BY <2>2
      <4>5. pr[x].burst_time < pr[z].burst_time
        <5>1. i <= Len(s)
          BY <2>7, <4>1
        <5>2. Precedes(arrival(x), arrival(z), pr, TRUE)
          BY <2>5, <4>3, <5>1
        <5>3. QED
          BY <1>3, <4>4, <5>2
      <4>6. pr[z].burst_time <= pr[y].burst_time
        <5>1. arrival(y).process = y /\ arrival(z).process = z
              /\ arrival(y).type = "ARRIVAL" /\ arrival(z).type = "ARRIVAL"
          BY <1>1, <4>4
        <5>2. CASE i = k - 1
          <6>1. y = z
            BY <4>2, <4>3, <5>1, <5>2
          <6>2. QED
            BY <1>1, <4>4, <6>1
        <5>3. CASE i # k - 1
          <6>1. i < k - 1
            BY <4>1, <5>3
          <6> HIDE DEF R
          <6>2. <<s[i].process, s[k - 1].process>> \in R
            BY <2>4, <4>1, <4>2, <4>3, <5>1, <6>1 DEF ArriveInTurn
          <6>3. <<z, y>> \in ShorterIn(pr, P)
            BY <4>2, <4>3, <5>1, <6>2 DEF R
          <6>4. Shorter(pr, z, y)
            BY <6>3 DEF ShorterIn
          <6>5. QED
            BY <1>1, <4>4, <6>4 DEF Shorter
        <5>4. QED
          BY <5>2, <5>3
      <4>7. Shorter(pr, x, y)
        BY <1>1, <4>4, <4>5, <4>6 DEF Shorter
      <4>8. <<x, y>> \in R
        BY <4>4, <4>7 DEF ShorterIn
      <4>9. t[j].process = x /\ t[k].process = y
        BY <1>1, <2>7, <3>4, <4>1, <4>2, <4>4
      <4>10. QED
        BY <4>8, <4>9
    <3>5. QED
      BY <3>2, <3>3, <3>4
  <2>10. QED
    BY <2>5, <2>8, <2>9 DEF Ok, t
<1>6. Ok(n)
  <2>1. n \in T
    <3> HIDE DEF T
    <3>1. QED
      BY <1>4, <1>5, NatSetInduction
  <2> HIDE DEF Ok
  <2>2. QED
    BY <2>1
<1>7. QED
  BY <1>2, <1>6

\* Nobody in the list has more work, or more left to do, than p.
NoneIsLonger(pr, p, s) ==
  \A y \in ToSet(s) : /\ ~(pr[p].burst_time < pr[y].burst_time)
                      /\ ~(pr[p].remaining_time < pr[y].remaining_time)

\* Who is not shorter than anybody in the list comes last in it.
LEMMA LongestComesLast ==
  ASSUME NEW P, NEW s \in Seq(P), NEW p \in P, NEW pr, NEW w, DOMAIN w = {1}, w[1] = s,
         NoneIsLonger(pr, p, s)
  PROVE  ByBurst(w, p, pr)[1] = Append(s, p) /\ ByRemaining(w, p, pr)[1] = Append(s, p)
<1> DEFINE B == {k \in 1..Len(s) : pr[p].burst_time < pr[s[k]].burst_time}
           L == {k \in 1..Len(s) : pr[p].remaining_time < pr[s[k]].remaining_time}
           i == Len(s) + 1
<1>1. Len(s) \in Nat /\ DOMAIN s = 1..Len(s)
  OBVIOUS
<1>2. B = {} /\ L = {}
  BY <1>1 DEF ToSet, NoneIsLonger
<1>3. ByBurst(w, p, pr)[1] = InsertAt(s, i, p) /\ ByRemaining(w, p, pr)[1] = InsertAt(s, i, p)
  <2>1. /\ ByBurst(w, p, pr)[1] = InsertAt(s, Place(B, Len(s)), p)
        /\ ByRemaining(w, p, pr)[1] = InsertAt(s, Place(L, Len(s)), p)
    BY DEF ByBurst, ByRemaining, InsertBeforeFirst, SelectInSeq, Place
  <2>2. Place({}, Len(s)) = i
    BY DEF Place
  <2>3. QED
    BY <1>2, <2>1, <2>2
<1>4. InsertAt(s, i, p) = Append(s, p)
  <2> DEFINE t == InsertAt(s, i, p)
             u == Append(s, p)
  <2>1. i \in 1..(Len(s) + 1) /\ i - 1 = Len(s)
    BY <1>1
  <2>2. /\ t \in Seq(P) /\ Len(t) = Len(s) + 1 /\ t[i] = p
        /\ \A j \in 1..(i - 1) : t[j] = s[j]
    <3>1. PICK m \in 1..(Len(s) + 1) : m = i
      BY <2>1
    <3>2. /\ InsertAt(s, m, p) \in Seq(P) /\ Len(InsertAt(s, m, p)) = Len(s) + 1
          /\ InsertAt(s, m, p)[m] = p
          /\ \A j \in 1..(m - 1) : InsertAt(s, m, p)[j] = s[j]
      BY InsertedAt
    <3>3. QED
      BY <3>1, <3>2
  <2>3. /\ u \in Seq(P) /\ Len(u) = Len(s) + 1 /\ u[i] = p
        /\ \A j \in 1..Len(s) : u[j] = s[j]
    BY <1>1, AppendProperties
  <2> HIDE DEF t, u
  <2>4. \A j \in 1..Len(t) : t[j] = u[j]
    <3>1. \A j \in 1..Len(t) : j \in 1..Len(s) \/ j = i
      BY <1>1, <2>2
    <3>2. QED
      BY <2>1, <2>2, <2>3, <3>1
  <2>5. t = u
    BY <2>2, <2>3, <2>4, SeqEqual
  <2>6. QED
    BY <2>5 DEF t, u
<1>5. QED
  BY <1>3, <1>4

\* d has run from when the shorter ones of b had, to the end of his burst.
HadTurn(b, r, d, a) ==
  /\ r.start_time = a + WaitFor(b, d)
  /\ r.finish_time = a + WaitFor(b, d) + b[d].burst_time
  /\ r.remaining_time = 0
\* p comes before the others in X, all of D before all of X; everyone arrives at a.
AllBefore(D, X, R) == \A d \in D, x \in X : <<d, x>> \in R
Leads(p, X, R) == \A y \in X \ {p} : <<p, y>> \in R
ArriveAt(pr, P, a) == \A p \in P : pr[p].arrival_time = a
\* Those in X have not run, the others, all of them shorter, have; e is when the
\* next can.
BestSoFar(b, pr, g, X, a, P) ==
  /\ InLine(g, X, ShorterIn(b, P))
  /\ \A x \in X : Fresh(pr[x])
  /\ \A d \in P \ X : HadTurn(b, pr[d], d, a)
  /\ AllBefore(P \ X, X, ShorterIn(b, P))
TimeOf(b, X, a, P) == a + BurstsOf(b, P \ X)
EndsWith(q, e) == \A k \in 1..Len(q) : IsCpuEvent(q[k]) => q[k].time = e

\* What holds in every state under SJF and STCF when everyone arrives at a.
ShortestNext(b, pr, r, s, q, g, now, a, P) ==
  LET X == ToSet(s) \cup Arriving(q)
  IN  /\ NoExpiry(q) /\ Line(ShorterIn(b, P), s, q)
      /\ BestSoFar(b, pr, g, X, a, P)
      /\ EndsWith(q, TimeOf(b, X, a, P))
      /\ r = None => s = <<>> /\ (X = P \/ TimeOf(b, X, a, P) <= now)
      /\ r # None => r \in P \ X

\* A run that starts when everyone has arrived is one to the end.
LEMMA RunsToEnd ==
  ASSUME scheduler \in {"sjf", "stcf"}, NEW P, NEW t \in Seq(Planned(proc, P)),
         NEW a \in Nat, ArriveAt(proc, P, a), None \notin P,
         NEW r \in Records, NEW now \in Nat, a <= now
  PROVE  RunTime(r, now, t) = r.remaining_time
<1>1. CASE scheduler = "sjf"
  BY <1>1 DEF RunTime
<1>2. CASE scheduler = "stcf"
  <2> DEFINE T == {k \in 1..Len(t) : t[k].type = "ARRIVAL"}
             next == NextArrival(t)
  <2>1. next = IF T # {} THEN Min(T) ELSE 0
    BY DEF NextArrival, SelectInSeq
  <2>2. RunTime(r, now, t) = IF next # 0 /\ t[next].time > now
                               THEN AtMost(r.remaining_time, t[next].time - now)
                               ELSE r.remaining_time
    BY <1>2 DEF RunTime, IsFuture
  <2>3. ASSUME next # 0 PROVE t[next].time = a
    <3>1. T # {} /\ Len(t) \in Nat /\ T \subseteq 1..Len(t)
      BY <2>1, <2>3
    <3> HIDE DEF next
    <3>2. next \in T
      <4> HIDE DEF T
      <4>1. QED
        BY <2>1, <3>1, LeastPosition
    <3>3. t[next] \in Planned(proc, P) /\ t[next].type = "ARRIVAL"
      BY <3>2
    <3>4. t[next].process \in P /\ t[next].time = proc[t[next].process].arrival_time
      BY <3>3 DEF Planned, PlannedFor, EventsOf
    <3>5. QED
      BY <3>4 DEF ArriveAt
  <2> HIDE DEF next
  <2>4. QED
    BY <2>2, <2>3
<1>3. QED
  BY <1>1, <1>2

\* p, of X, is the next in the order of all n in b.
FirstIn(b, n, X, p) ==
  /\ DOMAIN b = 1..n /\ \A x \in 1..n : b[x].burst_time \in Nat
  /\ X \in SUBSET (1..n) /\ p \in X
  /\ Leads(p, X, ShorterIn(b, 1..n)) /\ AllBefore((1..n) \ X, X, ShorterIn(b, 1..n))
\* He waits for those who have run, and runs to the end of his burst.
TurnOf(b, n, X, p, a) ==
  /\ TimeOf(b, X, a, 1..n) = a + WaitFor(b, p)
  /\ WaitFor(b, p) \in Nat
  /\ TimeOf(b, X \ {p}, a, 1..n) = a + WaitFor(b, p) + b[p].burst_time

\* Whoever is before all others of X waits for just those who have run.
LEMMA FirstOfRest ==
  ASSUME NEW n \in Nat, NEW b, NEW X, NEW p, NEW a \in Nat, FirstIn(b, n, X, p)
  PROVE  TurnOf(b, n, X, p, a)
<1> DEFINE P == 1..n
           D == P \ X
           E == P \ (X \ {p})
<1>1. /\ DOMAIN b = 1..n /\ \A x \in 1..n : b[x].burst_time \in Nat
      /\ X \in SUBSET (1..n) /\ p \in X
      /\ Leads(p, X, ShorterIn(b, 1..n)) /\ AllBefore((1..n) \ X, X, ShorterIn(b, 1..n))
  BY DEF FirstIn
<1>2. \A x, y \in P : /\ ~Shorter(b, x, x)
                      /\ x # y => (Shorter(b, x, y) <=> ~Shorter(b, y, x))
  BY <1>1, OneIsShorter
<1>3. \A x, y : <<x, y>> \in ShorterIn(b, P) => Shorter(b, x, y)
  BY DEF ShorterIn
<1>4. Ahead(b, p) = D
  <2>1. \A d \in D : Shorter(b, d, p)
    BY <1>1, <1>3 DEF AllBefore
  <2>2. \A y \in X : ~Shorter(b, y, p)
    BY <1>1, <1>2, <1>3 DEF Leads
  <2>3. Ahead(b, p) = {q \in P : Shorter(b, q, p)}
    BY <1>1 DEF Ahead
  <2>4. QED
    BY <1>1, <2>1, <2>2, <2>3
<1>5. WaitFor(b, p) = BurstsOf(b, D) /\ BurstsOf(b, D) \in Nat
  <2>1. D \in SUBSET (1..n)
    OBVIOUS
  <2> HIDE DEF D
  <2>2. BurstsOf(b, D) \in Nat
    BY <1>1, <2>1, BurstsTyped
  <2>3. QED
    BY <1>1, <1>4, <2>2 DEF WaitFor
<1>6. BurstsOf(b, E) = b[p].burst_time + BurstsOf(b, D)
  <2>1. E \in SUBSET (1..n) /\ p \in E /\ E \ {p} = D
    BY <1>1
  <2> HIDE DEF D, E
  <2>2. IsFiniteSet(E) /\ \A x \in E : Bursts(b)[x] = b[x].burst_time /\ Bursts(b)[x] \in Int
    <3>1. IsFiniteSet(E)
      BY <1>1, <2>1, BurstsTyped
    <3>2. \A x \in 1..n : Bursts(b)[x] = b[x].burst_time
      BY <1>1, BurstsTyped
    <3>3. QED
      BY <1>1, <2>1, <3>1, <3>2
  <2>3. SumFunctionOnSet(Bursts(b), E) = Bursts(b)[p] + SumFunctionOnSet(Bursts(b), E \ {p})
    BY <2>1, <2>2, SumSplit
  <2>4. QED
    BY <2>1, <2>2, <2>3 DEF BurstsOf
<1>7. b[p].burst_time \in Nat
  BY <1>1
<1> HIDE DEF D, E
<1>8. TimeOf(b, X, a, P) = a + BurstsOf(b, D) /\ TimeOf(b, X \ {p}, a, P) = a + BurstsOf(b, E)
  BY DEF TimeOf, D, E
<1>9. QED
  BY <1>5, <1>6, <1>7, <1>8 DEF TurnOf

\* The record of one who has not run, once charged for all of his burst.
LEMMA FullCharge ==
  ASSUME scheduler \in {"sjf", "stcf"}, NEW r \in Records, Fresh(r), NEW now \in Nat
  PROVE  /\ Charged(r, now, r.remaining_time).start_time = now
         /\ Charged(r, now, r.remaining_time).finish_time = now + r.burst_time
         /\ Charged(r, now, r.remaining_time).remaining_time = 0
<1>1. r.remaining_time = r.burst_time /\ r.burst_time \in Nat /\ r.start_time = UNKNOWN_TIME
  BY DEF Fresh, Records
<1>2. DOMAIN r = {"arrival_time", "burst_time", "remaining_time", "start_time", "finish_time",
                  "priority", "time_in_queue"}
  BY DEF Records
<1>3. QED
  BY <1>1, <1>2 DEF Charged

\* The first of those who have not run gets the CPU.
LEMMA ShortestGoes ==
  ASSUME scheduler \in {"sjf", "stcf"}, NEW n \in Nat, NEW b, DOMAIN b = 1..n,
         \A p \in 1..n : b[p].burst_time \in Nat, NEW a \in Nat,
         ArriveAt(b, 1..n, a), RecordsOK(proc, 1..n), SameTimes(b, proc),
         gantt \in Seq(Entries(1..n)), NEW X \in SUBSET (1..n),
         BestSoFar(b, proc, gantt, X, a, 1..n),
         NEW p \in X, Leads(p, X, ShorterIn(b, 1..n)),
         NEW t \in Seq(Planned(proc, 1..n)), EventsOK(t, 1..n), NoCpu(t), NoExpiry(t),
         Now = TimeOf(b, X, a, 1..n),
         NEW w, Line(ShorterIn(b, 1..n), w[1], t), ToSet(w[1]) \cup Arriving(t) = X \ {p},
         Dispatch(p, proc, w, t)
  PROVE  ShortestNext(b, proc', running', waiting'[1], event_queue', gantt', Now, a, 1..n)
<1> DEFINE P == 1..n
           R == ShorterIn(b, P)
           Y == X \ {p}
           r == proc[p]
           run == RunTime(r, Now, t)
           f == Event(Now + run, "COMPLETION", p)
<1>1. None \notin P
  BY EngineAssumption
<1>2. /\ TimeOf(b, X, a, P) = a + WaitFor(b, p) /\ WaitFor(b, p) \in Nat
      /\ TimeOf(b, Y, a, P) = a + WaitFor(b, p) + b[p].burst_time
  <2>1. AllBefore((1..n) \ X, X, ShorterIn(b, 1..n))
    BY DEF BestSoFar
  <2>2. FirstIn(b, n, X, p)
    BY <2>1 DEF FirstIn
  <2>3. TurnOf(b, n, X, p, a)
    BY <2>2, FirstOfRest
  <2>4. QED
    BY <2>3 DEF TurnOf
<1>3. /\ p \in P /\ DOMAIN proc = P /\ r \in Records /\ Fresh(r)
      /\ r.burst_time = b[p].burst_time /\ r.remaining_time = b[p].burst_time
      /\ b[p].burst_time \in Nat
      /\ ArriveAt(proc, P, a)
  BY DEF RecordsOK, BestSoFar, Fresh, SameTimes, ArriveAt
<1>4. Now = a + WaitFor(b, p) /\ Now \in Nat /\ a <= Now
  BY <1>2
<1>5. run = r.remaining_time /\ run \in Nat /\ run = b[p].burst_time
  <2>1. RunTime(r, Now, t) = r.remaining_time
    BY <1>1, <1>3, <1>4, RunsToEnd
  <2>2. QED
    BY <1>3, <2>1
<1> HIDE DEF run
<1>6. /\ running' = p /\ waiting' = w /\ gantt' = Drawn(p, run)
      /\ proc' = [proc EXCEPT ![p] = Charged(@, Now, run)]
      /\ event_queue' = EnqueueEvent(t,
           Event(Now + run, IF proc'[p].remaining_time = 0 THEN "COMPLETION"
                                                           ELSE "QUANTUM_EXPIRE", p),
           proc', SortsByRemaining(scheduler))
  BY DEF Dispatch, run
<1>7. /\ DOMAIN proc' = P /\ proc'[p] = Charged(r, Now, run)
      /\ \A x \in P \ {p} : proc'[x] = proc[x]
  BY <1>3, <1>6
<1> HIDE DEF r
<1>8. HadTurn(b, proc'[p], p, a)
  <2>1. /\ Charged(r, Now, r.remaining_time).start_time = Now
        /\ Charged(r, Now, r.remaining_time).finish_time = Now + r.burst_time
        /\ Charged(r, Now, r.remaining_time).remaining_time = 0
    BY <1>3, <1>4, FullCharge
  <2>2. QED
    BY <1>3, <1>4, <1>5, <1>7, <2>1 DEF HadTurn
<1>9. f \in EventsOf(P) /\ f.type = "COMPLETION" /\ f.process = p /\ f.time = Now + run
  BY <1>3, <1>4, <1>5 DEF Event, EventsOf, EventTypes
<1>10. event_queue' = EnqueueEvent(t, f, proc', SortsByRemaining(scheduler))
  BY <1>6, <1>8 DEF HadTurn
<1> HIDE DEF f
<1>11. /\ Arriving(event_queue') = Arriving(t) /\ NoExpiry(event_queue')
       /\ \A Q : ArriveInTurn(t, Q) => ArriveInTurn(event_queue', Q)
  BY <1>9, <1>10, EndPlanned
<1>12. EndsWith(event_queue', TimeOf(b, Y, a, P))
  <2>1. EndsAt(event_queue', p, 0, Now + run)
    <3>1. t \in Seq(EventsOf(P)) /\ IsCpuEvent(f) /\ (f.type = "COMPLETION" <=> 0 = 0)
      BY <1>9 DEF EventsOK, IsCpuEvent
    <3>2. EndsAt(EnqueueEvent(t, f, proc', SortsByRemaining(scheduler)), f.process, 0, f.time)
      BY <1>9, <3>1, EndComes
    <3>3. QED
      BY <1>9, <1>10, <3>2
  <2>2. Now + run = TimeOf(b, Y, a, P)
    BY <1>2, <1>4, <1>5
  <2>3. QED
    BY <2>1, <2>2 DEF EndsAt, EndsWith
<1>13. InLine(gantt', Y, R)
  <2>1. InLine(gantt, X, R)
    BY DEF BestSoFar
  <2>2. Shows(gantt', gantt, p)
    BY <1>6 DEF Drawn, Shows
  <2> HIDE DEF R
  <2>3. Y \in SUBSET X /\ \A y \in Y : <<p, y>> \in R
    BY DEF R, Leads
  <2>4. QED
    BY <1>4, <2>1, <2>2, <2>3, NextInLine
<1>14. BestSoFar(b, proc', gantt', Y, a, P)
  <2>1. \A x \in Y : Fresh(proc'[x])
    BY <1>7 DEF BestSoFar
  <2>2. \A d \in P \ Y : HadTurn(b, proc'[d], d, a) /\ \A x \in Y : <<d, x>> \in R
    <3>1. TAKE d \in P \ Y
    <3>2. CASE d = p
      BY <1>8, <3>2 DEF Leads
    <3>3. CASE d # p
      <4>1. d \in P \ X /\ proc'[d] = proc[d]
        BY <1>7, <3>3
      <4>2. QED
        BY <4>1 DEF BestSoFar, AllBefore
    <3>4. QED
      BY <3>2, <3>3
  <2>3. QED
    BY <1>13, <2>1, <2>2 DEF BestSoFar, AllBefore
<1>15. /\ ToSet(waiting'[1]) \cup Arriving(event_queue') = Y
       /\ Line(R, waiting'[1], event_queue')
  BY <1>6, <1>11 DEF Line
<1>16. running' \in P \ Y /\ running' # None
  BY <1>1, <1>3, <1>6
<1> HIDE DEF Y, R
<1>17. QED
  BY <1>11, <1>12, <1>14, <1>15, <1>16 DEF ShortestNext, R

\* What a step of the simulator may be then: nobody is preempted, since whoever
\* runs has been charged for all he has.
LEMMA ShortestStep ==
  ASSUME scheduler \in {"sjf", "stcf"}, NEW n \in Nat,
         Good(proc, running, waiting, event_queue, 1..n),
         NEW e \in Nat, OnCpu(e, 1..n), NoExpiry(event_queue),
         running # None => /\ proc[running].remaining_time = 0
                           /\ proc[running].finish_time # UNKNOWN_TIME,
         Simulate
  PROVE  \/ UNCHANGED <<proc, running, waiting, gantt, event_queue, current_time>>
         \/ /\ event_queue # <<>> /\ current_time' = Now
            /\ \/ /\ Head(event_queue).type = "ARRIVAL" /\ running = None
                  /\ Dispatch(Subject, proc, waiting, Tail(event_queue))
               \/ /\ Head(event_queue).type = "ARRIVAL" /\ running # None
                  /\ waiting' = Enqueue(scheduler, waiting, Subject, proc)
                  /\ event_queue' = Tail(event_queue)
                  /\ UNCHANGED <<running, proc, gantt>>
               \/ /\ Head(event_queue).type = "COMPLETION" /\ ~IsEmpty(waiting)
                  /\ Dispatch(Taken(scheduler, waiting), proc,
                              Left(scheduler, waiting), Tail(event_queue))
               \/ /\ Head(event_queue).type = "COMPLETION" /\ IsEmpty(waiting)
                  /\ running' = None /\ event_queue' = Tail(event_queue)
                  /\ UNCHANGED <<waiting, proc, gantt>>
<1>1. event_queue \in Seq(Planned(proc, 1..n)) /\ None \notin 1..n
  BY EngineAssumption DEF OnCpu, Served
<1>2. event_queue # <<>> =>
        /\ Head(event_queue).type # "PRIORITY_BOOST" /\ Head(event_queue).type # "QUANTUM_EXPIRE"
        /\ Head(event_queue).type = "ARRIVAL" => Subject \in 1..n
  <2> SUFFICES ASSUME event_queue # <<>>
               PROVE  /\ Head(event_queue).type # "PRIORITY_BOOST"
                      /\ Head(event_queue).type # "QUANTUM_EXPIRE"
                      /\ Head(event_queue).type = "ARRIVAL" => Subject \in 1..n
    OBVIOUS
  <2>1. /\ Len(event_queue) \in Nat \ {0} /\ Head(event_queue) = event_queue[1]
        /\ Head(event_queue) \in Planned(proc, 1..n)
    BY <1>1, TailRemoves
  <2>2. Head(event_queue).type = "ARRIVAL" => Subject \in 1..n
    BY <1>1, FirstEvent
  <2>3. QED
    BY <2>1, <2>2 DEF NoExpiry, Planned, PlannedFor
<1>3. ASSUME NEW p \in 1..n, running # None PROVE ~Preempts(p)
  <2>1. proc[p].remaining_time \in Nat
    BY DEF Good, RecordsOK, Records
  <2>2. QED
    BY <1>3, <2>1 DEF Preempts
<1>4. FinishRunning(Now) = proc
  BY DEF FinishRunning
<1>5. CASE handle_arrival
  BY <1>2, <1>3, <1>5 DEF handle_arrival, Handle, ArrivalDispatches, ArrivalPreempts, ArrivalWaits
<1>6. CASE handle_completion
  BY <1>4, <1>6 DEF handle_completion, Handle, DispatchNext
<1>7. CASE handle_quantum_expire
  BY <1>2, <1>7 DEF handle_quantum_expire, Handle
<1>8. CASE handle_priority_boost
  BY <1>2, <1>8 DEF handle_priority_boost, Handle
<1>9. CASE Report
  <2>1. running = None /\ proc' = proc
    BY <1>9, ReportIdle
  <2>2. QED
    BY <1>9, <2>1 DEF Report
<1>10. QED
  BY <1>5, <1>6, <1>7, <1>8, <1>9 DEF Simulate

\* SJF or STCF among the n processes of b, all of which arrive at a.
Shortest(b, n, a) ==
  /\ scheduler \in {"sjf", "stcf"}
  /\ DOMAIN b = 1..n /\ \A p \in 1..n : b[p].burst_time \in Nat
  /\ ArriveAt(b, 1..n, a) /\ SameTimes(b, proc)
  /\ Good(proc, running, waiting, event_queue, 1..n)
  /\ NoneBefore(event_queue, current_time) /\ current_time \in Nat
  /\ gantt \in Seq(Entries(1..n))
  /\ \E e \in Nat : OnCpu(e, 1..n)
  /\ ShortestNext(b, proc, running, waiting[1], event_queue, gantt, current_time, a, 1..n)

\* Those who have not run.
Rest == ToSet(waiting[1]) \cup Arriving(event_queue)

\* What the first event is, and what it leaves.
LEMMA AtEvent ==
  ASSUME NEW n \in Nat, NEW b, NEW a \in Nat, Shortest(b, n, a), event_queue # <<>>,
         NEW t, t = Tail(event_queue)
  PROVE  /\ waiting[1] \in Seq(1..n) /\ Rest \in SUBSET (1..n)
         /\ Now \in Nat /\ current_time <= Now
         /\ t \in Seq(Planned(proc, 1..n)) /\ EventsOK(t, 1..n) /\ NoExpiry(t)
         /\ ArriveInTurn(t, ShorterIn(b, 1..n))
         /\ Head(event_queue).type = "ARRIVAL" =>
              /\ Now = a /\ Subject \in Arriving(event_queue) \ ToSet(waiting[1])
              /\ Arriving(t) = Arriving(event_queue) \ {Subject}
              /\ \A y \in Arriving(t) : <<Subject, y>> \in ShorterIn(b, 1..n)
              /\ running = None => NoCpu(t)
              /\ EndsWith(t, TimeOf(b, Rest, a, 1..n))
         /\ Head(event_queue).type = "COMPLETION" =>
              /\ Now = TimeOf(b, Rest, a, 1..n)
              /\ Arriving(t) = Arriving(event_queue) /\ NoCpu(t)
<1> DEFINE P == 1..n
           q == event_queue
           R == ShorterIn(b, P)
<1>1. None \notin P
  BY EngineAssumption
<1>2. /\ Good(proc, running, waiting, q, P) /\ SameTimes(b, proc) /\ DOMAIN b = P
      /\ ArriveAt(b, P, a) /\ NoneBefore(q, current_time) /\ scheduler \in {"sjf", "stcf"}
  BY DEF Shortest
<1>3. PICK e \in Nat : OnCpu(e, P)
  BY DEF Shortest
<1>4. q \in Seq(Planned(proc, P))
  BY <1>3 DEF OnCpu, Served
<1>5. ShortestNext(b, proc, running, waiting[1], q, gantt, current_time, a, P)
  BY DEF Shortest
<1>6. NoExpiry(q) /\ ArriveInTurn(q, R) /\ EndsWith(q, TimeOf(b, Rest, a, P))
  BY <1>5 DEF ShortestNext, Line, Rest
<1>7. /\ t \in Seq(Planned(proc, P)) /\ Removed(t, q, 1) /\ Len(q) \in Nat \ {0}
      /\ Head(q) = q[1] /\ q[1] \in Planned(proc, P)
  BY <1>4, TailRemoves
<1>8. /\ Now \in Nat /\ current_time <= Now /\ Good(proc, running, waiting, t, P)
      /\ Head(q).type = "ARRIVAL" => Subject \in P
  BY <1>1, <1>2, FirstEvent
<1>9. \A j \in 1..Len(t) : j + 1 \in 1..Len(q) /\ t[j] = q[j + 1]
  BY <1>7 DEF Removed
<1>10. NoExpiry(t) /\ EndsWith(t, TimeOf(b, Rest, a, P))
  BY <1>6, <1>9 DEF NoExpiry, EndsWith
<1>11. PICK s : s = waiting[1]
  OBVIOUS
<1>12. /\ s \in Seq(P) /\ ToSet(s) \cup Arriving(q) \in SUBSET P
       /\ Head(q).type = "ARRIVAL" => /\ Subject \in Arriving(q) \ ToSet(s)
                                      /\ Arriving(t) = Arriving(q) \ {Subject}
       /\ Head(q).type # "ARRIVAL" => Arriving(t) = Arriving(q)
  <2>1. Plain \/ scheduler = "stcf"
    BY <1>2 DEF Plain
  <2>2. QED
    BY <1>2, <1>4, <1>11, <2>1, WhoIsLeft
<1>13. /\ ArriveInTurn(t, R)
       /\ q[1].type = "ARRIVAL" => \A y \in Arriving(t) : <<q[1].process, y>> \in R
  <2> HIDE DEF R
  <2>1. QED
    BY <1>4, <1>6, TurnStays
<1>14. /\ NoCpu(q) => NoCpu(t)
       /\ \A r, left, time : EndsAt(q, r, left, time) => IF IsCpuEvent(q[1]) THEN NoCpu(t) ELSE TRUE
  <2>1. 1 \in 1..Len(q)
    BY <1>7
  <2>2. QED
    BY <1>4, <1>7, <2>1, EventGoes
<1>15. ASSUME Head(q).type = "ARRIVAL"
       PROVE  Now = a /\ (running = None => NoCpu(t))
  <2>1. Now = proc[Subject].arrival_time
    BY <1>7, <1>15 DEF Planned, PlannedFor, Now, Subject
  <2>2. proc[Subject].arrival_time = a
    BY <1>2, <1>8, <1>15 DEF SameTimes, ArriveAt
  <2>3. running = None => NoCpu(q)
    BY <1>3 DEF OnCpu, Served
  <2>4. QED
    BY <1>14, <2>1, <2>2, <2>3
<1>16. ASSUME Head(q).type = "COMPLETION"
       PROVE  Now = TimeOf(b, Rest, a, P) /\ NoCpu(t)
  <2>1. IsCpuEvent(q[1]) /\ 1 \in 1..Len(q) /\ Now = q[1].time
    BY <1>7, <1>16 DEF IsCpuEvent, Now
  <2>2. running # None
    BY <1>3, <2>1 DEF OnCpu, Served, NoCpu
  <2>3. EndsAt(q, running, proc[running].remaining_time, e)
    BY <1>3, <2>2 DEF OnCpu, Served
  <2>4. QED
    BY <1>6, <1>14, <2>1, <2>3 DEF EndsWith
<1>17. \A y \in Arriving(t) : Head(q).type = "ARRIVAL" => <<Subject, y>> \in R
  BY <1>7, <1>13 DEF Subject
<1>18. EventsOK(t, P)
  BY <1>8 DEF Good
<1>19. /\ waiting[1] \in Seq(P) /\ Rest \in SUBSET P
       /\ Head(q).type = "ARRIVAL" => Subject \in Arriving(q) \ ToSet(waiting[1])
  BY <1>11, <1>12 DEF Rest
<1> HIDE DEF R
<1>20. QED
  BY <1>7, <1>8, <1>10, <1>12, <1>13, <1>15, <1>16, <1>17, <1>18, <1>19 DEF R

\* When nobody runs the first to arrive gets the CPU.
LEMMA FirstArrives ==
  ASSUME NEW n \in Nat, NEW b, NEW a \in Nat, Shortest(b, n, a), event_queue # <<>>,
         Head(event_queue).type = "ARRIVAL", running = None,
         Dispatch(Subject, proc, waiting, Tail(event_queue))
  PROVE  ShortestNext(b, proc', running', waiting'[1], event_queue', gantt', Now, a, 1..n)
<1> DEFINE P == 1..n
           R == ShorterIn(b, P)
<1>1. PICK t : t = Tail(event_queue)
  OBVIOUS
<1>2. PICK X : X = Rest
  OBVIOUS
<1>3. PICK p : p = Subject
  OBVIOUS
<1>4. /\ X \in SUBSET P /\ Now \in Nat /\ current_time <= Now
      /\ t \in Seq(Planned(proc, P)) /\ EventsOK(t, P) /\ NoExpiry(t) /\ ArriveInTurn(t, R)
      /\ Now = a /\ p \in Arriving(event_queue) \ ToSet(waiting[1])
      /\ Arriving(t) = Arriving(event_queue) \ {p}
      /\ \A y \in Arriving(t) : <<p, y>> \in R
      /\ NoCpu(t)
  BY <1>1, <1>2, <1>3, AtEvent
<1>5. /\ scheduler \in {"sjf", "stcf"} /\ DOMAIN b = P /\ \A x \in P : b[x].burst_time \in Nat
      /\ ArriveAt(b, P, a) /\ SameTimes(b, proc) /\ gantt \in Seq(Entries(P))
      /\ RecordsOK(proc, P)
  BY DEF Shortest, Good
<1>6. ShortestNext(b, proc, running, waiting[1], event_queue, gantt, current_time, a, P)
  BY DEF Shortest
<1>7. /\ waiting[1] = <<>> /\ BestSoFar(b, proc, gantt, X, a, P)
      /\ X = P \/ TimeOf(b, X, a, P) <= current_time
  BY <1>2, <1>6 DEF ShortestNext, Rest
<1>8. ToSet(waiting[1]) = {} /\ Ascends(waiting[1], R)
  <2>1. DOMAIN <<>> = {} /\ Len(<<>>) = 0
    OBVIOUS
  <2>2. QED
    BY <1>7, <2>1 DEF ToSet, Ascends
<1>9. p \in X /\ X = Arriving(event_queue) /\ Arriving(t) = X \ {p}
  BY <1>2, <1>4, <1>8 DEF Rest
<1>10. Now = TimeOf(b, X, a, P)
  <2>1. BurstsOf(b, P \ X) \in Nat
    <3>1. P \ X \in SUBSET (1..n)
      OBVIOUS
    <3>2. QED
      BY <1>5, <3>1, BurstsTyped
  <2>2. CASE TimeOf(b, X, a, P) <= current_time
    <3>1. current_time \in Nat
      BY DEF Shortest
    <3>2. QED
      BY <1>4, <2>1, <2>2, <3>1 DEF TimeOf
  <2>3. CASE X = P
    <3>1. P \ X = {}
      BY <2>3
    <3>2. BurstsOf(b, {}) = 0
      BY SumSmall DEF BurstsOf
    <3>3. BurstsOf(b, P \ X) = 0
      BY <3>1, <3>2
    <3> HIDE DEF P
    <3>4. TimeOf(b, X, a, P) = a
      BY <3>3 DEF TimeOf
    <3>5. QED
      BY <1>4, <3>4
  <2>4. QED
    BY <1>7, <2>2, <2>3
<1>11. Leads(p, X, R)
  BY <1>4, <1>9 DEF Leads
<1>12. Line(R, waiting[1], t) /\ ToSet(waiting[1]) \cup Arriving(t) = X \ {p}
  BY <1>4, <1>8, <1>9 DEF Line
<1>13. Dispatch(p, proc, waiting, t)
  BY <1>1, <1>3
<1>14. QED
  BY <1>4, <1>5, <1>7, <1>9, <1>10, <1>11, <1>12, <1>13, ShortestGoes

\* When a run is over the first who waits does.
LEMMA HeadGoes ==
  ASSUME NEW n \in Nat, NEW b, NEW a \in Nat, Shortest(b, n, a), event_queue # <<>>,
         Head(event_queue).type = "COMPLETION", ~IsEmpty(waiting),
         Dispatch(Taken(scheduler, waiting), proc, Left(scheduler, waiting), Tail(event_queue))
  PROVE  ShortestNext(b, proc', running', waiting'[1], event_queue', gantt', Now, a, 1..n)
<1> DEFINE P == 1..n
           R == ShorterIn(b, P)
<1>1. PICK t : t = Tail(event_queue)
  OBVIOUS
<1>2. PICK X : X = Rest
  OBVIOUS
<1>3. PICK s : s = waiting[1]
  OBVIOUS
<1>4. PICK w : w = Left(scheduler, waiting)
  OBVIOUS
<1>5. /\ X \in SUBSET P /\ t \in Seq(Planned(proc, P)) /\ EventsOK(t, P) /\ NoExpiry(t)
      /\ ArriveInTurn(t, R) /\ Now = TimeOf(b, X, a, P)
      /\ Arriving(t) = Arriving(event_queue) /\ NoCpu(t)
  BY <1>1, <1>2, AtEvent
<1>6. /\ scheduler \in {"sjf", "stcf"} /\ DOMAIN b = P /\ \A x \in P : b[x].burst_time \in Nat
      /\ ArriveAt(b, P, a) /\ SameTimes(b, proc) /\ gantt \in Seq(Entries(P))
      /\ Good(proc, running, waiting, event_queue, P)
  BY DEF Shortest
<1>7. RecordsOK(proc, P) /\ waiting \in Lists(ListCount, P) /\ (Plain \/ scheduler = "stcf")
  BY <1>6 DEF Good, PlacesOK, Plain
<1>8. ShortestNext(b, proc, running, s, event_queue, gantt, current_time, a, P)
  BY <1>3 DEF Shortest
<1>9. BestSoFar(b, proc, gantt, X, a, P) /\ Line(R, s, event_queue)
  BY <1>2, <1>3, <1>8 DEF ShortestNext, Rest
<1>10. s # <<>> /\ Taken(scheduler, waiting) = Head(s) /\ w[1] = Tail(s)
  BY <1>3, <1>4, <1>7, OneList
<1>11. PICK p : p = Head(s)
  OBVIOUS
<1>12. PICK r : r = Tail(s)
  OBVIOUS
<1>13. /\ s \in Seq(P) /\ p \in ToSet(s) \ Arriving(event_queue)
       /\ r \in Seq(P) /\ ToSet(r) = ToSet(s) \ {p}
  <2>1. event_queue \in Seq(Planned(proc, P))
    BY DEF Shortest, OnCpu, Served
  <2>2. QED
    BY <1>1, <1>3, <1>6, <1>7, <1>10, <1>11, <1>12, <2>1, WhoIsLeft
<1>14. Ascends(r, R) /\ \A y \in ToSet(r) : <<p, y>> \in R
  <2>1. Ascends(s, R)
    BY <1>9 DEF Line
  <2> HIDE DEF R
  <2>2. QED
    BY <1>10, <1>11, <1>12, <1>13, <2>1, AscendsStill
<1>15. p \in X /\ ToSet(r) \cup Arriving(t) = X \ {p}
  BY <1>2, <1>3, <1>5, <1>13 DEF Rest
<1>16. Leads(p, X, R)
  <2>1. ASSUME NEW y \in X \ {p} PROVE <<p, y>> \in R
    <3>1. y \in ToSet(r) \/ y \in Arriving(event_queue)
      BY <1>5, <1>15
    <3> HIDE DEF R
    <3>2. QED
      BY <1>9, <1>13, <1>14, <3>1 DEF Line
  <2>2. QED
    BY <2>1 DEF Leads
<1>17. Line(R, w[1], t)
  <2> HIDE DEF R
  <2>1. QED
    BY <1>5, <1>9, <1>10, <1>12, <1>13, <1>14 DEF Line
<1>18. ToSet(w[1]) \cup Arriving(t) = X \ {p}
  BY <1>10, <1>12, <1>15
<1>19. Dispatch(p, proc, w, t)
  BY <1>1, <1>4, <1>10, <1>11
<1>20. QED
  BY <1>5, <1>6, <1>7, <1>9, <1>15, <1>16, <1>17, <1>18, <1>19, ShortestGoes

\* Who arrives while another runs is longer than all who wait.
LEMMA ArriverIsLast ==
  ASSUME NEW n \in Nat, NEW b, NEW a \in Nat, Shortest(b, n, a), event_queue # <<>>,
         Head(event_queue).type = "ARRIVAL", running # None
  PROVE  ShortestNext(b, proc, running, Enqueue(scheduler, waiting, Subject, proc)[1],
                      Tail(event_queue), gantt, Now, a, 1..n)
<1> DEFINE P == 1..n
           R == ShorterIn(b, P)
<1>1. PICK t : t = Tail(event_queue)
  OBVIOUS
<1>2. PICK s : s = waiting[1]
  OBVIOUS
<1>3. PICK p : p = Subject
  OBVIOUS
<1>4. /\ s \in Seq(P) /\ Rest \in SUBSET P /\ NoExpiry(t) /\ ArriveInTurn(t, R)
      /\ p \in Arriving(event_queue) \ ToSet(s)
      /\ Arriving(t) = Arriving(event_queue) \ {p}
      /\ \A y \in Arriving(t) : <<p, y>> \in R
      /\ EndsWith(t, TimeOf(b, Rest, a, P))
  BY <1>1, <1>2, <1>3, AtEvent
<1>5. /\ scheduler \in {"sjf", "stcf"} /\ DOMAIN b = P /\ \A x \in P : b[x].burst_time \in Nat
      /\ SameTimes(b, proc) /\ Good(proc, running, waiting, event_queue, P)
  BY DEF Shortest
<1>6. ShortestNext(b, proc, running, s, event_queue, gantt, current_time, a, P)
  BY <1>2 DEF Shortest
<1>7. /\ Line(R, s, event_queue) /\ running \in P \ Rest
      /\ BestSoFar(b, proc, gantt, Rest, a, P)
  BY <1>2, <1>6 DEF ShortestNext, Rest
<1>8. p \in P /\ ToSet(s) \subseteq Rest /\ p \in Rest
  BY <1>2, <1>4 DEF Rest
<1>9. \A x \in Rest : /\ proc[x].burst_time = b[x].burst_time
                      /\ proc[x].remaining_time = b[x].burst_time
  BY <1>4, <1>5, <1>7 DEF BestSoFar, Fresh, SameTimes
<1>10. \A y \in ToSet(s) : <<y, p>> \in R
  BY <1>4, <1>7 DEF Line
<1>11. NoneIsLonger(proc, p, s)
  <2>1. ASSUME NEW y \in ToSet(s)
        PROVE  /\ ~(proc[p].burst_time < proc[y].burst_time)
               /\ ~(proc[p].remaining_time < proc[y].remaining_time)
    <3>1. <<y, p>> \in R
      BY <1>10
    <3>2. Shorter(b, y, p) /\ y \in P
      BY <3>1 DEF ShorterIn
    <3>3. b[y].burst_time <= b[p].burst_time /\ b[y].burst_time \in Nat /\ b[p].burst_time \in Nat
      BY <1>5, <1>8, <3>2 DEF Shorter
    <3>4. y \in Rest
      BY <1>8
    <3>5. /\ proc[p].burst_time = b[p].burst_time /\ proc[p].remaining_time = b[p].burst_time
          /\ proc[y].burst_time = b[y].burst_time /\ proc[y].remaining_time = b[y].burst_time
      BY <1>8, <1>9, <3>4
    <3>6. QED
      BY <3>3, <3>5
  <2>2. QED
    BY <2>1 DEF NoneIsLonger
<1>12. Enqueue(scheduler, waiting, p, proc)[1] = Append(s, p)
  <2>1. DOMAIN waiting = {1}
    <3>1. ListCount = 1
      BY <1>5 DEF ListCount, NumLists
    <3>2. QED
      BY <1>5, <3>1 DEF Good, PlacesOK, Lists
  <2>2. ByBurst(waiting, p, proc)[1] = Append(s, p) /\ ByRemaining(waiting, p, proc)[1] = Append(s, p)
    <3>1. PICK w : w = waiting
      OBVIOUS
    <3>2. PICK pr : pr = proc
      OBVIOUS
    <3>3. s \in Seq(P) /\ p \in P /\ DOMAIN w = {1} /\ w[1] = s /\ NoneIsLonger(pr, p, s)
      BY <1>2, <1>4, <1>8, <1>11, <2>1, <3>1, <3>2
    <3> HIDE DEF P
    <3>4. ByBurst(w, p, pr)[1] = Append(s, p) /\ ByRemaining(w, p, pr)[1] = Append(s, p)
      BY <3>3, LongestComesLast
    <3>5. QED
      BY <3>1, <3>2, <3>4
  <2>3. QED
    BY <1>5, <2>2 DEF Enqueue
<1>13. PICK r : r = Append(s, p)
  OBVIOUS
<1>14. r \in Seq(P) /\ ToSet(r) = ToSet(s) \cup {p}
  <2>1. /\ r \in Seq(P) /\ Len(r) = Len(s) + 1 /\ r[Len(s) + 1] = p /\ Len(s) \in Nat
        /\ \A j \in 1..Len(s) : r[j] = s[j]
    BY <1>4, <1>8, <1>13, AppendProperties
  <2>2. DOMAIN r = 1..Len(r) /\ DOMAIN s = 1..Len(s)
    BY <1>4, <2>1
  <2>3. ToSet(r) = ToSet(s) \cup {p}
    <3>1. \A j \in 1..Len(r) : j \in 1..Len(s) \/ j = Len(s) + 1
      BY <2>1
    <3>2. 1..Len(s) \subseteq 1..Len(r) /\ Len(s) + 1 \in 1..Len(r)
      BY <2>1
    <3>3. QED
      BY <2>1, <2>2, <3>1, <3>2 DEF ToSet
  <2>4. QED
    BY <2>1, <2>3
<1>15. ToSet(r) \cup Arriving(t) = Rest
  BY <1>2, <1>4, <1>14 DEF Rest
<1>16. Ascends(r, R)
  <2> HIDE DEF R
  <2>1. Ascends(s, R)
    BY <1>7 DEF Line
  <2>2. QED
    BY <1>4, <1>8, <1>10, <1>13, <2>1, AscendsStill
<1>17. Line(R, r, t)
  <2> HIDE DEF R
  <2>1. \A x \in ToSet(r), y \in Arriving(t) : <<x, y>> \in R
    BY <1>4, <1>7, <1>14 DEF Line
  <2>2. QED
    BY <1>4, <1>16, <2>1 DEF Line
<1>18. ShortestNext(b, proc, running, r, t, gantt, Now, a, P)
  <2> HIDE DEF R, P
  <2>1. QED
    BY <1>4, <1>7, <1>15, <1>17 DEF ShortestNext, R
<1>19. QED
  BY <1>1, <1>3, <1>12, <1>13, <1>18

\* The CPU becomes free when nobody waits.
LEMMA NobodyGoes ==
  ASSUME NEW n \in Nat, NEW b, NEW a \in Nat, Shortest(b, n, a), event_queue # <<>>,
         Head(event_queue).type = "COMPLETION", IsEmpty(waiting)
  PROVE  ShortestNext(b, proc, None, waiting[1], Tail(event_queue), gantt, Now, a, 1..n)
<1> DEFINE P == 1..n
           R == ShorterIn(b, P)
<1>1. PICK t : t = Tail(event_queue)
  OBVIOUS
<1>2. PICK s : s = waiting[1]
  OBVIOUS
<1>3. /\ NoExpiry(t) /\ ArriveInTurn(t, R) /\ Now = TimeOf(b, Rest, a, P) /\ Now \in Nat
      /\ Arriving(t) = Arriving(event_queue) /\ NoCpu(t)
  BY <1>1, AtEvent
<1>4. ShortestNext(b, proc, running, s, event_queue, gantt, current_time, a, P)
  BY <1>2 DEF Shortest
<1>5. Line(R, s, event_queue) /\ BestSoFar(b, proc, gantt, Rest, a, P)
  BY <1>2, <1>4 DEF ShortestNext, Rest
<1>6. s = <<>>
  <2>1. waiting \in Lists(ListCount, P) /\ (Plain \/ scheduler = "stcf")
    BY DEF Shortest, Good, PlacesOK, Plain
  <2>2. QED
    BY <1>2, <2>1, OneList
<1>7. EndsWith(t, TimeOf(b, Rest, a, P))
  BY <1>3 DEF NoCpu, EndsWith
<1>8. ToSet(s) \cup Arriving(t) = Rest
  BY <1>2, <1>3 DEF Rest
<1>9. Line(R, s, t)
  BY <1>3, <1>5 DEF Line
<1>10. TimeOf(b, Rest, a, P) <= Now
  BY <1>3
<1>11. ShortestNext(b, proc, None, s, t, gantt, Now, a, P)
  <2> HIDE DEF R, P
  <2>1. QED
    BY <1>3, <1>5, <1>6, <1>7, <1>8, <1>9, <1>10 DEF ShortestNext, R
<1>12. QED
  BY <1>1, <1>2, <1>11

\* So it goes on at every step of the simulator.
LEMMA SimulateShortest ==
  ASSUME NEW n \in Nat, NEW b, NEW a \in Nat, Shortest(b, n, a), Simulate
  PROVE  ShortestNext(b, proc', running', waiting'[1], event_queue', gantt', current_time', a, 1..n)
<1> DEFINE P == 1..n
<1>1. ShortestNext(b, proc, running, waiting[1], event_queue, gantt, current_time, a, P)
  BY DEF Shortest
<1>2. PICK e \in Nat : OnCpu(e, P)
  BY DEF Shortest
<1>3. /\ scheduler \in {"sjf", "stcf"} /\ Good(proc, running, waiting, event_queue, P)
      /\ NoExpiry(event_queue) /\ DOMAIN b = P /\ \A x \in P : b[x].burst_time \in Nat
  BY <1>1 DEF Shortest, ShortestNext
<1>4. running # None => /\ proc[running].remaining_time = 0
                        /\ proc[running].finish_time # UNKNOWN_TIME
  <2>1. SUFFICES ASSUME running # None
                 PROVE  /\ proc[running].remaining_time = 0
                        /\ proc[running].finish_time # UNKNOWN_TIME
    OBVIOUS
  <2>2. running \in P /\ HadTurn(b, proc[running], running, a)
    BY <1>1, <2>1 DEF ShortestNext, BestSoFar
  <2>3. WaitFor(b, running) \in Nat /\ b[running].burst_time \in Nat
    BY <1>3, <2>2, BurstsTyped
  <2>4. proc[running].finish_time \in Nat /\ proc[running].remaining_time = 0
    BY <2>2, <2>3 DEF HadTurn
  <2>5. QED
    BY <2>4 DEF UNKNOWN_TIME
<1>5. CASE UNCHANGED <<proc, running, waiting, gantt, event_queue, current_time>>
  BY <1>1, <1>5
<1>6. CASE /\ event_queue # <<>> /\ current_time' = Now
           /\ Head(event_queue).type = "ARRIVAL" /\ running = None
           /\ Dispatch(Subject, proc, waiting, Tail(event_queue))
  BY <1>6, FirstArrives
<1>7. CASE /\ event_queue # <<>> /\ current_time' = Now
           /\ Head(event_queue).type = "ARRIVAL" /\ running # None
           /\ waiting' = Enqueue(scheduler, waiting, Subject, proc)
           /\ event_queue' = Tail(event_queue)
           /\ UNCHANGED <<running, proc, gantt>>
  BY <1>7, ArriverIsLast
<1>8. CASE /\ event_queue # <<>> /\ current_time' = Now
           /\ Head(event_queue).type = "COMPLETION" /\ ~IsEmpty(waiting)
           /\ Dispatch(Taken(scheduler, waiting), proc,
                       Left(scheduler, waiting), Tail(event_queue))
  BY <1>8, HeadGoes
<1>9. CASE /\ event_queue # <<>> /\ current_time' = Now
           /\ Head(event_queue).type = "COMPLETION" /\ IsEmpty(waiting)
           /\ running' = None /\ event_queue' = Tail(event_queue)
           /\ UNCHANGED <<waiting, proc, gantt>>
  BY <1>9, NobodyGoes
<1>10. QED
  BY <1>2, <1>3, <1>4, <1>5, <1>6, <1>7, <1>8, <1>9, ShortestStep

\* At the start nobody has run, and all are to arrive, the shorter ones first.
LEMMA BegunShortest ==
  ASSUME NEW n \in Nat, NEW pr \in [1..n -> Records], \A p \in 1..n : Fresh(pr[p]),
         NEW b, SameTimes(b, pr), NEW a \in Nat, ArriveAt(b, 1..n, a),
         NEW s \in {"sjf", "stcf"}, NEW q, NEW c, Begin(s, q, c, pr)
  PROVE  ShortestNext(b, proc', running', waiting'[1], event_queue', gantt', current_time', a, 1..n)
<1> DEFINE P == 1..n
           R == ShorterIn(b, P)
<1>1. /\ scheduler' = s /\ proc' = pr /\ event_queue' = InitialEvents(s, c, pr)
      /\ running' = None /\ waiting' = EmptyQueue(s, c.levels) /\ gantt' = <<>>
      /\ Processes' = P
  BY DEF Begin, Processes
<1>2. OnCpu(0, Processes)' /\ Arriving(event_queue') = P
  <2>1. \A p \in P : pr[p].remaining_time = pr[p].burst_time
    BY DEF Fresh
  <2>2. s # "mlfq"
    OBVIOUS
  <2>3. QED
    BY <2>1, <2>2, BegunServed
<1>3. NoCpu(event_queue')
  BY <1>1, <1>2 DEF OnCpu, Served
<1>4. NoExpiry(event_queue') /\ EndsWith(event_queue', TimeOf(b, P, a, P))
  BY <1>3 DEF NoCpu, NoExpiry, EndsWith, IsCpuEvent
<1>5. DOMAIN <<>> = {} /\ Len(<<>>) = 0
  OBVIOUS
<1>6. waiting'[1] = <<>> /\ ToSet(waiting'[1]) = {} /\ Ascends(waiting'[1], R)
  <2>1. waiting'[1] = <<>>
    BY <1>1 DEF EmptyQueue, NumLists
  <2>2. QED
    BY <1>5, <2>1 DEF ToSet, Ascends
<1>7. ArriveInTurn(event_queue', R)
  <2>1. DOMAIN b = P /\ \A p \in P : /\ b[p].burst_time = pr[p].burst_time
                                     /\ b[p].arrival_time = pr[p].arrival_time
    BY DEF SameTimes
  <2>2. R = ShorterIn(pr, P)
    <3>1. \A p, r \in P : Shorter(b, p, r) <=> Shorter(pr, p, r)
      BY <2>1 DEF Shorter
    <3>2. QED
      BY <3>1 DEF ShorterIn
  <2>3. \A p \in P : pr[p].arrival_time = a /\ pr[p].remaining_time = pr[p].burst_time
    BY <2>1 DEF ArriveAt, Fresh
  <2>4. ArriveInTurn(ArrivalEvents(pr, TRUE), ShorterIn(pr, P))
    BY <2>3, ArrivalsShortest
  <2>5. event_queue' = ArrivalEvents(pr, TRUE)
    <3>1. SortsByRemaining(s) = TRUE
      BY DEF SortsByRemaining
    <3>2. event_queue' = ArrivalEvents(pr, SortsByRemaining(s))
      BY <1>1 DEF InitialEvents
    <3>3. QED
      BY <3>1, <3>2
  <2>6. QED
    BY <2>2, <2>4, <2>5
<1>8. BestSoFar(b, proc', gantt', P, a, P)
  <2>1. \A x \in P : Fresh(proc'[x])
    BY <1>1
  <2>2. InLine(gantt', P, R)
    BY <1>1, <1>5 DEF InLine
  <2>3. P \ P = {}
    OBVIOUS
  <2> HIDE DEF P
  <2>4. QED
    BY <2>1, <2>2, <2>3 DEF BestSoFar, AllBefore
<1>9. ToSet(waiting'[1]) \cup Arriving(event_queue') = P
  BY <1>2, <1>6
<1>10. Line(R, waiting'[1], event_queue')
  BY <1>6, <1>7 DEF Line
<1> HIDE DEF P, R
<1>11. QED
  BY <1>1, <1>4, <1>6, <1>8, <1>9, <1>10 DEF ShortestNext, P, R

\* It is so in every state of a simulation with SJF or STCF.
ShortestKept ==
  phase = "simulate" /\ scheduler \in {"sjf", "stcf"} =>
    \A a \in Nat : ArriveAt(base, DOMAIN base, a) =>
      ShortestNext(base, proc, running, waiting[1], event_queue, gantt, current_time, a,
                   DOMAIN base)
LEMMA ShortestAlways == Spec => []ShortestKept
<1>1. Init => ShortestKept
  BY DEF Init, ShortestKept
<1>2. Inv /\ CpuKept /\ DrawingKept /\ ShortestKept /\ [Next]_vars => ShortestKept'
  <2> SUFFICES ASSUME Inv, CpuKept, DrawingKept, ShortestKept, [Next]_vars,
                      phase' = "simulate", scheduler' \in {"sjf", "stcf"},
                      NEW a \in Nat, ArriveAt(base', DOMAIN base', a)
               PROVE  ShortestNext(base', proc', running', waiting'[1], event_queue', gantt',
                                   current_time', a, DOMAIN base')
    BY DEF ShortestKept, ArriveAt
  <2>1. args \in Commands
    BY DEF Inv
  <2>2. CASE Load \/ FinishTest
    BY <2>2 DEF Load, FinishTest
  <2>3. CASE UNCHANGED <<base, results, phase>> /\ phase = "simulate" /\ Simulate
    <3>1. PICK n \in Nat : /\ Good(proc, running, waiting, event_queue, 1..n)
                           /\ NoneBefore(event_queue, current_time)
                           /\ current_time \in Nat
      BY <2>3 DEF Inv, Empty, Kept
    <3>2. /\ SameTimes(base, proc) /\ DOMAIN base = 1..n /\ gantt \in Seq(Entries(1..n))
      BY <2>3, <3>1 DEF DrawingKept, Good, RecordsOK, SameTimes
    <3>3. scheduler' = scheduler
      BY <2>3 DEF Simulate, handle_arrival, handle_completion, handle_quantum_expire,
                  handle_priority_boost, Handle, Report, settings
    <3>4. \E e \in Nat : OnCpu(e, 1..n)
      <4>1. Undisturbed
        BY <3>3 DEF Undisturbed
      <4>2. Processes = 1..n
        BY <3>1 DEF Processes, Good, RecordsOK
      <4>3. QED
        BY <4>1, <4>2 DEF CpuKept
    <3>5. ArriveAt(base, 1..n, a)
      BY <2>3, <3>2
    <3>6. ShortestNext(base, proc, running, waiting[1], event_queue, gantt, current_time, a, 1..n)
      BY <2>3, <3>2, <3>3, <3>5 DEF ShortestKept
    <3>7. \A p \in 1..n : base[p].burst_time \in Nat
      BY <3>2 DEF Inv, LoadedOK
    <3>8. Shortest(base, n, a)
      BY <3>1, <3>2, <3>3, <3>4, <3>5, <3>6, <3>7 DEF Shortest
    <3>9. ShortestNext(base, proc', running', waiting'[1], event_queue', gantt',
                       current_time', a, 1..n)
      BY <2>3, <3>8, SimulateShortest
    <3>10. QED
      BY <2>3, <3>2, <3>9
  <2>4. CASE /\ UNCHANGED <<base, results, engine>>
             /\ phase' = "simulate" => phase = "simulate"
    <3>1. /\ base' = base /\ proc' = proc /\ running' = running /\ waiting' = waiting
          /\ gantt' = gantt /\ event_queue' = event_queue /\ scheduler' = scheduler
          /\ current_time' = current_time
      BY <2>4 DEF engine, settings
    <3>2. QED
      BY <2>4, <3>1 DEF ShortestKept
  <2>5. CASE \E s \in AlgorithmNames : \E q, c : Run(s, q, c)
    <3>1. PICK s, q, c : Run(s, q, c)
      BY <2>5
    <3>2. PICK n \in Nat : /\ CopiedProcesses \in [1..n -> Records]
                           /\ \A p \in 1..n : Fresh(CopiedProcesses[p])
      BY Copied DEF Inv
    <3>3. Begin(s, q, c, CopiedProcesses) /\ base' = base /\ s \in {"sjf", "stcf"}
      BY <3>1 DEF Run, Begin
    <3>4. DOMAIN base = 1..n /\ SameTimes(base, CopiedProcesses)
      BY <3>2 DEF CopiedProcesses, NewProcess, SameTimes
    <3>5. ArriveAt(base, 1..n, a)
      BY <3>3, <3>4
    <3>6. ShortestNext(base, proc', running', waiting'[1], event_queue', gantt',
                       current_time', a, 1..n)
      BY <3>2, <3>3, <3>4, <3>5, BegunShortest
    <3>7. QED
      BY <3>3, <3>4, <3>6
  <2>6. QED
    BY <2>1, <2>2, <2>3, <2>4, <2>5, ProgramSteps
<1>3. QED
  BY <1>1, <1>2, InvAlways, CpuAlways, DrawingAlways, PTL DEF Spec

\* Only one sequence of the same elements ascends.
LEMMA OneAscends ==
  ASSUME NEW P, NEW R, \A x, y \in P : ~(<<x, y>> \in R /\ <<y, x>> \in R),
         NEW s \in Seq(P), Ascends(s, R), NEW t \in Seq(P), Ascends(t, R),
         ToSet(s) = ToSet(t)
  PROVE  s = t
<1>1. /\ Len(s) \in Nat /\ Len(t) \in Nat /\ DOMAIN s = 1..Len(s) /\ DOMAIN t = 1..Len(t)
      /\ \A j \in 1..Len(s) : s[j] \in P
      /\ \A j \in 1..Len(t) : t[j] \in P
  OBVIOUS
<1>2. /\ \A j \in 1..Len(s) : \E k \in 1..Len(t) : t[k] = s[j]
      /\ \A j \in 1..Len(t) : \E k \in 1..Len(s) : s[k] = t[j]
  BY <1>1 DEF ToSet
<1>3. \A j, k \in 1..Len(s) : j < k => s[j] # s[k] /\ <<s[k], s[j]>> \notin R
  BY <1>1 DEF Ascends
<1>4. \A j, k \in 1..Len(t) : j < k => t[j] # t[k] /\ <<t[k], t[j]>> \notin R
  BY <1>1 DEF Ascends
<1> DEFINE Ok(m) == /\ m <= Len(s) <=> m <= Len(t)
                    /\ m <= Len(s) => s[m] = t[m]
           T == {m \in Nat : \A j \in 1..m : Ok(j)}
<1>5. 0 \in T
  OBVIOUS
<1>6. ASSUME NEW m \in Nat, m \in T PROVE m + 1 \in T
  <2> DEFINE i == m + 1
  <2>1. \A j \in 1..m : Ok(j)
    BY <1>6
  <2>2. i \in Nat \ {0} /\ \A j \in Nat \ {0} : j < i => j \in 1..m
    OBVIOUS
  <2> HIDE DEF i, Ok
  <2>3. ASSUME i <= Len(s)
        PROVE  i \in 1..Len(s) /\ \E k \in 1..Len(t) : t[k] = s[i] /\ i <= k
    <3>1. i \in 1..Len(s)
      BY <1>1, <2>2, <2>3
    <3>2. PICK k \in 1..Len(t) : t[k] = s[i]
      BY <1>2, <3>1
    <3>3. ASSUME k < i PROVE FALSE
      <4>1. Ok(k)
        BY <2>1, <2>2, <3>3
      <4>2. k \in 1..Len(s) /\ s[k] = t[k]
        BY <1>1, <4>1 DEF Ok
      <4>3. QED
        BY <1>3, <3>1, <3>2, <3>3, <4>2
    <3>4. QED
      BY <2>2, <3>1, <3>2, <3>3
  <2>4. ASSUME i <= Len(t)
        PROVE  i \in 1..Len(t) /\ \E k \in 1..Len(s) : s[k] = t[i] /\ i <= k
    <3>1. i \in 1..Len(t)
      BY <1>1, <2>2, <2>4
    <3>2. PICK k \in 1..Len(s) : s[k] = t[i]
      BY <1>2, <3>1
    <3>3. ASSUME k < i PROVE FALSE
      <4>1. Ok(k)
        BY <2>1, <2>2, <3>3
      <4>2. k \in 1..Len(t) /\ s[k] = t[k]
        BY <1>1, <4>1 DEF Ok
      <4>3. QED
        BY <1>4, <3>1, <3>2, <3>3, <4>2
    <3>4. QED
      BY <2>2, <3>1, <3>2, <3>3
  <2>5. i <= Len(s) <=> i <= Len(t)
    BY <1>1, <2>2, <2>3, <2>4
  <2>6. ASSUME i <= Len(s) PROVE s[i] = t[i]
    <3>1. i \in 1..Len(s) /\ i \in 1..Len(t)
      BY <2>3, <2>4, <2>5, <2>6
    <3>2. PICK k \in 1..Len(t) : t[k] = s[i] /\ i <= k
      BY <2>3, <2>6
    <3>3. PICK j \in 1..Len(s) : s[j] = t[i] /\ i <= j
      BY <2>4, <2>5, <2>6
    <3>4. CASE i = k \/ i = j
      BY <3>2, <3>3, <3>4
    <3>5. CASE i < k /\ i < j
      <4>1. <<t[i], t[k]>> \in R /\ <<s[i], s[j]>> \in R
        BY <3>1, <3>5 DEF Ascends
      <4>2. QED
        BY <1>1, <3>1, <3>2, <3>3, <4>1
    <3>6. QED
      BY <2>2, <3>2, <3>3, <3>4, <3>5
  <2>7. Ok(i)
    BY <2>5, <2>6 DEF Ok
  <2>8. \A j \in 1..i : j \in 1..m \/ j = i
    BY DEF i
  <2>9. \A j \in 1..i : Ok(j)
    BY <2>1, <2>7, <2>8
  <2>10. QED
    BY <2>9 DEF i
<1>7. \A m \in Nat : m \in T
  <2> HIDE DEF T
  <2>1. QED
    BY <1>5, <1>6, NatSetInduction
<1>8. \A m \in Nat : \A j \in 1..m : Ok(j)
  BY <1>7
<1>9. \A j \in Nat \ {0} : Ok(j)
  <2> HIDE DEF Ok
  <2>1. \A j \in Nat \ {0} : j \in 1..j
    OBVIOUS
  <2>2. QED
    BY <1>8, <2>1
<1>10. Len(s) = Len(t)
  <2>1. \A j \in Nat \ {0} : j <= Len(s) <=> j <= Len(t)
    BY <1>9
  <2>2. PICK k \in Nat, m \in Nat : k = Len(s) /\ m = Len(t)
    BY <1>1
  <2>3. \A j \in Nat \ {0} : j <= k <=> j <= m
    BY <2>1, <2>2
  <2>4. /\ k \in Nat \ {0} => (k <= k <=> k <= m)
        /\ m \in Nat \ {0} => (m <= k <=> m <= m)
    BY <2>3
  <2>5. k = m
    BY <2>2, <2>4
  <2>6. QED
    BY <2>2, <2>5
<1>11. \A j \in 1..Len(s) : s[j] = t[j]
  BY <1>1, <1>9
<1>12. QED
  BY <1>10, <1>11, SeqEqual

\* The names on the chart, and the switches counted on a chart with these names.
NamesOf(g) == [k \in 1..Len(g) |-> g[k].name]
SwitchesOf(s) ==
  IF Len(s) <= 1 THEN 0
  ELSE Cardinality({k \in 2..Len(s) : base[s[k]].pid[1] # base[s[k - 1]].pid[1]})

\* What SJF and STCF report when everyone arrives together: each process with
\* work is shown once, the shorter ones first.
IsShortestFirst(s) ==
  /\ s \in Seq(DOMAIN base) /\ Ascends(s, ShorterIn(base, DOMAIN base))
  /\ ToSet(s) = WithWork
Waits == [p \in DOMAIN base |-> WaitFor(base, p)]
Best ==
  [turnaround |-> Least(base), waiting |-> TotalOf(Waits), response |-> TotalOf(Waits),
   context_switches |-> SwitchesOf(CHOOSE s : IsShortestFirst(s))]

\* The names on the chart are then those, and no others.
LEMMA ChartIsShortest ==
  ASSUME NEW n \in Nat, DOMAIN base = 1..n, \A p \in 1..n : base[p].burst_time \in Nat,
         gantt \in Seq(Entries(1..n)), Shown(gantt) = WithWork,
         NEW X, InLine(gantt, X, ShorterIn(base, 1..n))
  PROVE  count_context_switches = SwitchesOf(CHOOSE s : IsShortestFirst(s))
<1> DEFINE P == 1..n
           R == ShorterIn(base, P)
           v == NamesOf(gantt)
<1>1. Len(gantt) \in Nat /\ \A k \in 1..Len(gantt) : gantt[k].name \in P
  <2>1. \A k \in 1..Len(gantt) : gantt[k] \in Entries(P)
    OBVIOUS
  <2>2. QED
    BY <2>1 DEF Entries
<1>2. /\ v \in Seq(P) /\ Len(v) = Len(gantt) /\ DOMAIN v = 1..Len(gantt)
      /\ \A k \in 1..Len(gantt) : v[k] = gantt[k].name
  BY <1>1 DEF NamesOf
<1> HIDE DEF v
<1>3. Ascends(v, R)
  <2> HIDE DEF R
  <2>1. \A j, k \in 1..Len(gantt) : j < k => <<gantt[j].name, gantt[k].name>> \in R
    BY DEF InLine, R
  <2>2. QED
    BY <1>2, <2>1 DEF Ascends
<1>4. ToSet(v) = WithWork
  <2>1. ToSet(v) = Shown(gantt)
    BY <1>2 DEF ToSet, Shown
  <2>2. QED
    BY <2>1
<1>5. IsShortestFirst(v)
  BY <1>2, <1>3, <1>4 DEF IsShortestFirst
<1>6. \A x, y \in P : ~(<<x, y>> \in R /\ <<y, x>> \in R)
  <2>1. \A x, y \in P : Shorter(base, x, y) => ~Shorter(base, y, x)
    BY OneIsShorter
  <2>2. QED
    BY <2>1 DEF ShorterIn
<1>7. PICK s : s = CHOOSE w : IsShortestFirst(w)
  OBVIOUS
<1>8. s \in Seq(P) /\ Ascends(s, R) /\ ToSet(s) = ToSet(v)
  <2>1. IsShortestFirst(s)
    BY <1>5, <1>7
  <2>2. QED
    BY <1>4, <2>1 DEF IsShortestFirst
<1>9. s = v
  <2> HIDE DEF R, P
  <2>1. QED
    BY <1>2, <1>3, <1>6, <1>8, OneAscends
<1>10. count_context_switches = SwitchesOf(v)
  <2>1. \A k \in 2..Len(gantt) : k \in 1..Len(gantt) /\ k - 1 \in 1..Len(gantt)
    BY <1>1
  <2>2. {k \in 2..Len(v) : base[v[k]].pid[1] # base[v[k - 1]].pid[1]}
          = {k \in 2..Len(gantt) : Letter(k) # Letter(k - 1)}
    BY <1>2, <2>1 DEF Letter
  <2>3. QED
    BY <1>2, <2>2 DEF SwitchesOf, count_context_switches, LetterChanges
<1>11. QED
  BY <1>7, <1>9, <1>10

\* So is what SJF and STCF report then.
LEMMA ReportsBest ==
  ASSUME Inv, DrawingKept, ReportedAtEnd, ShortestKept, Len(gantt) < MaxGantt,
         phase = "simulate", reported, scheduler \in {"sjf", "stcf"},
         NEW a \in Nat, ArriveAt(base, DOMAIN base, a)
  PROVE  Result = Best
<1>1. PICK n \in Nat : DOMAIN base = 1..n /\ \A p \in 1..n : base[p].burst_time \in Nat
  BY DEF Inv, LoadedOK
<1>2. SameTimes(base, proc) /\ gantt \in Seq(Entries(1..n))
  BY <1>1 DEF DrawingKept
<1>3. Processes = 1..n /\ \A p \in 1..n : /\ proc[p].arrival_time = a
                                          /\ proc[p].burst_time = base[p].burst_time
  BY <1>1, <1>2 DEF SameTimes, ArriveAt, Processes
<1>4. ShortestNext(base, proc, running, waiting[1], event_queue, gantt, current_time, a, 1..n)
  BY <1>1 DEF ShortestKept
<1>5. event_queue = <<>> /\ Len(event_queue) = 0
  BY DEF ReportedAtEnd
<1>6. running = None
  BY <1>5 DEF DrawingKept, EndToCome
<1>7. ToSet(waiting[1]) \cup Arriving(event_queue) = {}
  <2>1. waiting[1] = <<>>
    BY <1>4, <1>6 DEF ShortestNext
  <2>2. DOMAIN <<>> = {}
    OBVIOUS
  <2>3. Arriving(event_queue) = {}
    BY <1>5 DEF Arriving
  <2>4. QED
    BY <2>1, <2>2, <2>3 DEF ToSet
<1>8. BestSoFar(base, proc, gantt, {}, a, 1..n)
  BY <1>4, <1>7 DEF ShortestNext
<1>9. ASSUME NEW p \in 1..n
      PROVE  /\ TurnaroundTime(p) = WaitFor(base, p) + base[p].burst_time
             /\ WaitingTime(p) = WaitFor(base, p) /\ ResponseTime(p) = WaitFor(base, p)
  <2>1. HadTurn(base, proc[p], p, a)
    BY <1>8 DEF BestSoFar
  <2>2. WaitFor(base, p) \in Nat
    BY <1>1, BurstsTyped
  <2>3. proc[p].arrival_time = a /\ proc[p].burst_time = base[p].burst_time
        /\ base[p].burst_time \in Nat
    BY <1>1, <1>3
  <2>4. /\ proc[p].start_time = a + WaitFor(base, p)
        /\ proc[p].finish_time = a + WaitFor(base, p) + base[p].burst_time
    BY <2>1 DEF HadTurn
  <2>5. TurnaroundTime(p) = WaitFor(base, p) + base[p].burst_time
    BY <2>2, <2>3, <2>4 DEF TurnaroundTime
  <2>6. QED
    BY <2>2, <2>3, <2>4, <2>5 DEF WaitingTime, ResponseTime
<1>10. [p \in Processes |-> TurnaroundTime(p)]
         = [p \in DOMAIN base |-> WaitFor(base, p) + base[p].burst_time]
  BY <1>1, <1>3, <1>9
<1>11. /\ [p \in Processes |-> WaitingTime(p)] = Waits
       /\ [p \in Processes |-> ResponseTime(p)] = Waits
  BY <1>1, <1>3, <1>9 DEF Waits
<1>12. TotalOf([p \in Processes |-> TurnaroundTime(p)]) = Least(base)
  BY <1>10 DEF TotalOf, Least
<1>13. count_context_switches = SwitchesOf(CHOOSE s : IsShortestFirst(s))
  <2>1. Shown(gantt) = WithWork
    BY AllShown
  <2>2. InLine(gantt, {}, ShorterIn(base, 1..n))
    BY <1>8 DEF BestSoFar
  <2>3. QED
    BY <1>1, <1>2, <2>1, <2>2, ChartIsShortest
<1>14. QED
  BY <1>11, <1>12, <1>13 DEF Result, Best

\* A comparison has as many results as tests that are over, and runs the next.
TestsInTurn ==
  /\ Len(results) <= 5
  /\ results # <<>> => args.compare_mode
  /\ phase = "simulate" /\ args.compare_mode =>
       Len(results) < 5 /\ scheduler = Algorithms[Len(results) + 1]
LEMMA TestsAlways == Spec => []TestsInTurn
<1>1. Init => TestsInTurn
  <2>1. Init => results = <<>> /\ Len(results) = 0 /\ phase = "load"
    BY DEF Init
  <2>2. QED
    BY <2>1 DEF TestsInTurn
<1>2. Inv /\ DrawingKept /\ TestsInTurn /\ [Next]_vars => TestsInTurn'
  <2> SUFFICES ASSUME Inv, DrawingKept, TestsInTurn, [Next]_vars
               PROVE  TestsInTurn'
    OBVIOUS
  <2>1. args' = args /\ args \in Commands
    BY ProgramSteps DEF Inv
  <2>2. CASE Load
    BY <2>1, <2>2 DEF Load, TestsInTurn
  <2>3. CASE FinishTest
    <3>1. /\ phase = "simulate" /\ args.compare_mode /\ phase' = "select"
          /\ results' = Append(results, Result)
      BY <2>3 DEF FinishTest
    <3>2. PICK X : results \in Seq(X)
      BY DEF DrawingKept
    <3>3. Len(results') = Len(results) + 1 /\ Len(results) \in Nat
      BY <3>1, <3>2
    <3>4. QED
      BY <2>1, <3>1, <3>3 DEF TestsInTurn
  <2>4. CASE UNCHANGED <<base, results, phase>> /\ phase = "simulate" /\ Simulate
    <3>1. scheduler' = scheduler
      BY <2>4 DEF Simulate, handle_arrival, handle_completion, handle_quantum_expire,
                  handle_priority_boost, Handle, Report, settings
    <3>2. QED
      BY <2>1, <2>4, <3>1 DEF TestsInTurn
  <2>5. CASE /\ UNCHANGED <<base, results, engine>>
             /\ phase' = "simulate" => phase = "simulate"
    <3>1. scheduler' = scheduler
      BY <2>5 DEF engine, settings
    <3>2. QED
      BY <2>1, <2>5, <3>1 DEF TestsInTurn
  <2>6. CASE \E s \in AlgorithmNames : \E q, c :
               Run(s, q, c) /\ (args.compare_mode => Testing(s))
    <3>1. PICK s, q, c : Run(s, q, c) /\ (args.compare_mode => Testing(s))
      BY <2>6
    <3>2. scheduler' = s /\ results' = results
      BY <3>1 DEF Run, Begin
    <3>3. Len(Algorithms) = 5
      BY DEF Algorithms
    <3>4. QED
      BY <2>1, <3>1, <3>2, <3>3 DEF TestsInTurn, Testing
  <2>7. QED
    BY <2>1, <2>2, <2>3, <2>4, <2>5, <2>6, ProgramSteps
<1>3. QED
  BY <1>1, <1>2, InvAlways, DrawingAlways, PTL DEF Spec

\* The results of the second and third test are the best, and no other has a
\* smaller turnaround, unless a boost has disturbed the last.
Judged(r, k, best, undisturbed) ==
  /\ k \in {2, 3} => r = best
  /\ (k = 5 => undisturbed) => best.turnaround <= r.turnaround
BestKept ==
  \A a \in Nat : ArriveAt(base, DOMAIN base, a) =>
    \A k \in 1..Len(results) : Judged(results[k], k, Best, Undisturbed)

\* The result of a test that is over.
LEMMA TestJudged ==
  ASSUME Inv, CpuKept, BooksKept, ReportedAtEnd, DrawingKept, ShortestKept, TestsInTurn,
         Len(gantt) < MaxGantt, FinishTest, NEW a \in Nat, ArriveAt(base, DOMAIN base, a)
  PROVE  Judged(Result, Len(results) + 1, Best, Undisturbed)
<1>1. phase = "simulate" /\ reported /\ args.compare_mode
  BY DEF FinishTest
<1>2. PICK m : m = Len(results) + 1
  OBVIOUS
<1>3. m \in 1..5 /\ scheduler = Algorithms[m]
  <2>1. PICK X : results \in Seq(X)
    BY DEF DrawingKept
  <2>2. Len(results) \in Nat /\ Len(results) < 5 /\ scheduler = Algorithms[Len(results) + 1]
    BY <1>1, <2>1 DEF TestsInTurn
  <2>3. QED
    BY <1>2, <2>2
<1>4. /\ m \in {2, 3} => scheduler \in {"sjf", "stcf"}
      /\ m # 5 => scheduler # "mlfq"
  <2>1. /\ Algorithms[1] = "fcfs" /\ Algorithms[2] = "sjf" /\ Algorithms[3] = "stcf"
        /\ Algorithms[4] = "rr"
    BY DEF Algorithms
  <2>2. m = 1 \/ m = 2 \/ m = 3 \/ m = 4 \/ m = 5
    BY <1>3
  <2>3. QED
    BY <1>3, <2>1, <2>2
<1>5. m \in {2, 3} => Result = Best
  BY <1>1, <1>4, ReportsBest
<1>6. ASSUME m = 5 => Undisturbed
      PROVE  Best.turnaround <= Result.turnaround
  <2>1. Undisturbed
    BY <1>4, <1>6 DEF Undisturbed
  <2>2. SameTimes(base, proc)
    BY <1>1 DEF DrawingKept
  <2>3. \A p \in Processes : proc[p].arrival_time = a
    BY <2>2 DEF SameTimes, ArriveAt, Processes
  <2>4. Least(proc) <= TotalOf([p \in Processes |-> TurnaroundTime(p)])
    BY <1>1, <2>1, <2>3, NoneIsBetter
  <2>5. PICK pr : pr = proc
    OBVIOUS
  <2>6. Least(pr) = Least(base)
    BY <2>2, <2>5, SameLeast
  <2>7. Result.turnaround = TotalOf([p \in Processes |-> TurnaroundTime(p)])
    BY DEF Result
  <2>8. Best.turnaround = Least(base)
    BY DEF Best
  <2>9. QED
    BY <2>4, <2>5, <2>6, <2>7, <2>8
<1>7. Judged(Result, m, Best, Undisturbed)
  BY <1>5, <1>6 DEF Judged
<1>8. QED
  BY <1>2, <1>7

\* When everyone arrives together no algorithm of the comparison has a better
\* average turnaround than SJF, and STCF does as SJF: each test starts from
\* processes that no earlier one has touched (compare.c 17-27, 85-188).  What
\* is compared is what the charts show, so these must have room.
THEOREM ShortestIsBest == Spec /\ [](Len(gantt) < MaxGantt) => []ShortestFirstIsBest
<1>1. Init => BestKept
  <2>1. Init => Len(results) = 0
    BY DEF Init
  <2>2. QED
    BY <2>1 DEF BestKept
<1>2. /\ Inv /\ CpuKept /\ BooksKept /\ ReportedAtEnd /\ DrawingKept /\ ShortestKept
      /\ TestsInTurn /\ Len(gantt) < MaxGantt /\ BestKept /\ [Next]_vars
      => BestKept'
  <2> SUFFICES ASSUME Inv, CpuKept, BooksKept, ReportedAtEnd, DrawingKept, ShortestKept,
                      TestsInTurn, Len(gantt) < MaxGantt, BestKept, [Next]_vars,
                      NEW a \in Nat, ArriveAt(base', DOMAIN base', a),
                      NEW k \in 1..Len(results')
               PROVE  Judged(results'[k], k, Best', Undisturbed')
    BY DEF BestKept, ArriveAt
  <2>1. args \in Commands
    BY DEF Inv
  <2>2. CASE Load
    <3>1. results' = <<>>
      BY <2>2 DEF Load, DrawingKept
    <3>2. Len(results') = 0
      BY <3>1
    <3>3. QED
      BY <3>2
  <2>3. ASSUME base' = base PROVE Best' = Best
    BY <2>3 DEF Best, Waits, IsShortestFirst, SwitchesOf, WithWork
  <2>4. ASSUME base' = base, NEW r, Judged(r, k, Best, Undisturbed), k = 5 => (Undisturbed' => Undisturbed)
        PROVE  Judged(r, k, Best', Undisturbed')
    BY <2>3, <2>4 DEF Judged
  <2>5. CASE base' = base /\ results' = results /\ (Len(results) < 5 \/ UNCHANGED engine)
    <3>1. Judged(results[k], k, Best, Undisturbed)
      BY <2>5 DEF BestKept
    <3>2. ASSUME k = 5 PROVE Undisturbed' => Undisturbed
      <4>1. PICK X : results \in Seq(X)
        BY DEF DrawingKept
      <4>2. UNCHANGED engine
        BY <2>5, <3>2, <4>1
      <4>3. QED
        BY <4>2 DEF engine, settings, Undisturbed
    <3>3. QED
      BY <2>4, <2>5, <3>1, <3>2
  <2>6. CASE FinishTest
    <3>1. base' = base /\ results' = Append(results, Result) /\ UNCHANGED engine
      BY <2>6 DEF FinishTest
    <3>2. PICK X : results \in Seq(X)
      BY DEF DrawingKept
    <3>3. PICK r : r = Result
      OBVIOUS
    <3>4. /\ Len(results) \in Nat /\ Len(results') = Len(results) + 1
          /\ results'[Len(results) + 1] = r /\ \A j \in 1..Len(results) : results'[j] = results[j]
      BY <3>1, <3>2, <3>3
    <3>5. Undisturbed' => Undisturbed
      BY <3>1 DEF engine, settings, Undisturbed
    <3>6. CASE k \in 1..Len(results)
      <4>1. Judged(results[k], k, Best, Undisturbed)
        BY <3>1, <3>6 DEF BestKept
      <4>2. results'[k] = results[k]
        BY <3>4, <3>6
      <4>3. QED
        BY <2>4, <3>1, <3>5, <4>1, <4>2
    <3>7. CASE k = Len(results) + 1
      <4>1. Judged(r, k, Best, Undisturbed)
        BY <2>6, <3>1, <3>3, <3>7, TestJudged
      <4>2. QED
        BY <2>4, <3>1, <3>4, <3>5, <3>7, <4>1
    <3>8. QED
      BY <3>4, <3>6, <3>7
  <2>7. CASE UNCHANGED <<base, results, phase>> /\ phase = "simulate" /\ Simulate
    <3>1. PICK X : results \in Seq(X)
      BY DEF DrawingKept
    <3>2. Len(results) < 5
      <4>1. CASE args.compare_mode
        BY <2>7, <4>1 DEF TestsInTurn
      <4>2. CASE ~args.compare_mode
        <5>1. results = <<>>
          BY <4>2 DEF TestsInTurn
        <5>2. Len(results) = 0
          BY <5>1
        <5>3. QED
          BY <5>2
      <4>3. QED
        BY <4>1, <4>2
    <3>3. QED
      BY <2>5, <2>7, <3>2
  <2>8. CASE UNCHANGED <<base, results, engine>>
    BY <2>5, <2>8
  <2>9. CASE \E s \in AlgorithmNames : \E q, c :
               Run(s, q, c) /\ (args.compare_mode => Testing(s))
    <3>1. PICK s, q, c : Run(s, q, c) /\ (args.compare_mode => Testing(s))
      BY <2>9
    <3>2. base' = base /\ results' = results
      BY <3>1 DEF Run
    <3>3. Len(results) < 5
      <4>1. CASE args.compare_mode
        <5>1. Len(Algorithms) = 5
          BY DEF Algorithms
        <5>2. QED
          BY <3>1, <4>1, <5>1 DEF Testing
      <4>2. CASE ~args.compare_mode
        <5>1. results = <<>>
          BY <4>2 DEF TestsInTurn
        <5>2. Len(results) = 0
          BY <5>1
        <5>3. QED
          BY <5>2
      <4>3. QED
        BY <4>1, <4>2
    <3>4. QED
      BY <2>5, <3>2, <3>3
  <2>10. QED
    BY <2>1, <2>2, <2>6, <2>7, <2>8, <2>9, ProgramSteps
<1>3. Inv /\ DrawingKept /\ BestKept => ShortestFirstIsBest
  <2> SUFFICES ASSUME Inv, DrawingKept, BestKept,
                      \A p, q \in DOMAIN base : base[p].arrival_time = base[q].arrival_time
               PROVE  /\ \A k \in DOMAIN results :
                           Len(results) >= 2 /\ (k = 5 => Undisturbed) =>
                             results[2].turnaround <= results[k].turnaround
                      /\ Len(results) >= 3 => results[3] = results[2]
    BY DEF ShortestFirstIsBest
  <2>1. PICK a \in Nat : ArriveAt(base, DOMAIN base, a)
    <3>1. CASE DOMAIN base = {}
      BY <3>1 DEF ArriveAt
    <3>2. CASE DOMAIN base # {}
      <4>1. PICK p \in DOMAIN base : TRUE
        BY <3>2
      <4>2. base[p].arrival_time \in Nat
        BY DEF Inv, LoadedOK
      <4>3. ArriveAt(base, DOMAIN base, base[p].arrival_time)
        BY DEF ArriveAt
      <4>4. QED
        BY <4>2, <4>3
    <3>3. QED
      BY <3>1, <3>2
  <2>2. PICK X : results \in Seq(X)
    BY DEF DrawingKept
  <2>3. DOMAIN results = 1..Len(results) /\ Len(results) \in Nat
    BY <2>2
  <2>4. \A k \in 1..Len(results) : Judged(results[k], k, Best, Undisturbed)
    BY <2>1 DEF BestKept
  <2>5. \A k \in 1..Len(results) : k \in {2, 3} => results[k] = Best
    BY <2>4 DEF Judged
  <2>6. \A k \in 1..Len(results) :
          (k = 5 => Undisturbed) => Best.turnaround <= results[k].turnaround
    BY <2>4 DEF Judged
  <2>7. Len(results) >= 2 => results[2] = Best
    BY <2>3, <2>5
  <2>8. Len(results) >= 3 => results[3] = Best
    BY <2>3, <2>5
  <2>9. QED
    BY <2>3, <2>6, <2>7, <2>8
<1>4. QED
  BY <1>1, <1>2, <1>3, InvAlways, CpuAlways, BooksAlways, DrawingAlways,
     ShortestAlways, TestsAlways, PTL DEF Spec
=============================================================================
