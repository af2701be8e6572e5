------------------------ MODULE SimulatorProperties ------------------------
(***************************************************************************)
(* What the simulator of lab_2/schedsim-2 promises of every workload.      *)
(***************************************************************************)
EXTENDS SchedSim

IsCpuEvent(e) == e.type \in {"COMPLETION", "QUANTUM_EXPIRE"}
CpuEvents == {k \in DOMAIN event_queue : IsCpuEvent(event_queue[k])}
Arrived(p) == \A k \in DOMAIN event_queue :
                ~(event_queue[k].type = "ARRIVAL" /\ event_queue[k].process = p)
Segments(p) == {k \in DOMAIN gantt : gantt[k].name = p}
LastRun(p) == gantt[Max(Segments(p))]
SegmentTimes == [k \in DOMAIN gantt |-> gantt[k].end - gantt[k].start]
TimeServed(p) == SumFunctionOnSet(SegmentTimes, Segments(p))

\* A boost takes the running process off the CPU and leaves its event behind
\* (AllComplete, below); where the work may still go on then, what depends on
\* the events is promised up to the first boost only.
Undisturbed ==
  scheduler = "mlfq" /\ config.boost_period > 0 =>
    \/ current_time < config.boost_period
    \/ config.boost_period > MaxTime(proc) - BoostSlack

\* "Event queue maintains chronological order", and the clock never passes an
\* event still to come (event-queue.c 7-42).
Chronological ==
  /\ \A j, k \in DOMAIN event_queue :
       j <= k => event_queue[j].time <= event_queue[k].time
  /\ \A k \in DOMAIN event_queue : current_time <= event_queue[k].time

\* No process is in two places: at most one entry of one waiting list, and
\* none for the running process or one that has not arrived
\* (rr-queue.c 20-88, mlfq-queue.c 79-127, simulator.c 203-214, 260-279).
NoProcessTwice ==
  \A p \in Processes :
    LET entries == UNION {{<<k, j>> : j \in {i \in DOMAIN waiting[k] : waiting[k][i] = p}}
                          : k \in DOMAIN waiting}
    IN  /\ Cardinality(entries) <= 1
        /\ entries # {} => running # p /\ Arrived(p)
        /\ running = p => Arrived(p)

\* While a process is on the CPU its completion or expiry is pending, of the kind
\* its remaining time says, whatever boosts have done.  Undisturbed, it is the
\* only one, and neither early nor late: it comes when the segment drawn for the
\* run ends, or at once if the run is empty; a preemption must take back the one
\* it outdates (simulator.c 109-153, 172-193, 216-246, 281-304).
ChargeEnd(p) ==
  IF Segments(p) = {} THEN current_time ELSE Max({LastRun(p).end, current_time})
OneCpuEvent ==
  /\ running # None => \E k \in CpuEvents :
       /\ event_queue[k].process = running
       /\ event_queue[k].type = "COMPLETION" <=> proc[running].remaining_time = 0
       /\ Undisturbed /\ Len(gantt) < MaxGantt =>
            event_queue[k].time = ChargeEnd(running)
  /\ Undisturbed => Cardinality(CpuEvents) = IF running = None THEN 0 ELSE 1

\* One CPU: the segments of the chart follow each other without overlap.  It
\* shows each process for exactly the time charged to it, never more than its
\* burst, and what is reported is what the chart shows: nobody has been dropped,
\* everyone has had the whole burst, responded at the
\* first segment, not before its arrival, finished at the end of the last, and
\* waited whenever it was not on the CPU in between (simulator.c 119, 142-146,
\* metrics.c 7-21).
MetricsMatchChart ==
  Undisturbed =>
  /\ \A k \in 2..Len(gantt) : gantt[k - 1].end <= gantt[k].start
  /\ \A p \in Processes :
       /\ TimeServed(p) = proc[p].burst_time - proc[p].remaining_time
       /\ proc[p].remaining_time >= 0
       /\ reported =>
            /\ proc[p].remaining_time = 0
            /\ ResponseTime(p) >= 0 /\ WaitingTime(p) >= 0
            /\ Segments(p) # {} =>
                 /\ proc[p].finish_time = LastRun(p).end
                 /\ proc[p].start_time = gantt[Min(Segments(p))].start
                 /\ WaitingTime(p) = TurnaroundTime(p) - TimeServed(p)

\* The program ends, whatever the algorithm, its settings and the workload: no
\* process bounces between levels or rounds for ever, and the comparison goes
\* through all five (simulator.c 34-53, compare.c 78-205).
EveryComparisonEnds == <>(phase = "exited")

-----------------------------------------------------------------------------
\* FCFS runs the processes in order of arrival, in the order of the workload
\* when they arrive together; SJF never starts a process while a shorter one
\* that arrived before that moment is waiting (fcfs-queue.c 20-46,
\* sjf-queue.c 22-46).
NonPreemptiveOrder ==
  /\ scheduler = "fcfs" => \A j, k \in DOMAIN gantt : j < k =>
       LET p == gantt[j].name  q == gantt[k].name
       IN  \/ proc[p].arrival_time < proc[q].arrival_time
           \/ proc[p].arrival_time = proc[q].arrival_time /\ p < q
  /\ scheduler = "sjf" => \A k \in DOMAIN gantt, q \in Processes :
       /\ proc[q].arrival_time < gantt[k].start
       /\ proc[q].burst_time < proc[gantt[k].name].burst_time
       => proc[q].start_time \in 0..gantt[k].start

\* While one process waits under RR no other is put on the CPU more than
\* twice: the rest of the round the process arrived in, and one more
\* (rr-queue.c 62-74).
Since(p) == IF Segments(p) = {} THEN proc[p].arrival_time ELSE LastRun(p).end
RRBoundedWait ==
  scheduler = "rr" => \A p \in InQueue(waiting) : \A q \in Processes \ {p} :
    Cardinality({k \in Segments(q) : gantt[k].start >= Since(p)}) <= 2

\* Under MLFQ a process overruns the allotment of its level by less than one
\* quantum, unless no level is below it (mlfq.c 64-84).
AllotmentBounded ==
  scheduler = "mlfq" => \A p \in Processes :
    LET level == Levels[proc[p].priority + 1]
    IN  level.allotment > 0 /\ level.time_quantum # -1 /\ ~BottomLevel(p) =>
          proc[p].time_in_queue < level.allotment + level.time_quantum

\* The MLFQ list a process waits in is that of its priority, through
\* demotions and boosts alike (mlfq-queue.c 110-124, 167-181).
LevelsMatch ==
  scheduler = "mlfq" => \A k \in DOMAIN waiting :
    \A p \in ToSet(waiting[k]) : proc[p].priority = k - 1

-----------------------------------------------------------------------------
\* The comparison.

\* "Counted as transitions between different processes in Gantt chart": never
\* more than these, and exactly these when no two names share their first
\* letter; then "FCFS: Minimum switches" is true (compare.c 52-62).
Transitions ==
  Cardinality({k \in 2..Len(gantt) : gantt[k].name # gantt[k - 1].name})
DistinctLetters ==
  \A p, q \in DOMAIN base : base[p].pid[1] = base[q].pid[1] => p = q
SwitchesCounted ==
  /\ reported /\ phase = "simulate" =>
       /\ count_context_switches <= Transitions
       /\ DistinctLetters => count_context_switches = Transitions
  /\ DistinctLetters => \A k \in DOMAIN results :
       results[1].context_switches <= results[k].context_switches

\* When everyone arrives together no algorithm of the comparison has a better
\* average turnaround than SJF, and STCF does as SJF: each test starts from
\* processes that no earlier one has touched (compare.c 17-27, 85-188).
ShortestFirstIsBest ==
  (\A p, q \in DOMAIN base : base[p].arrival_time = base[q].arrival_time) =>
    /\ \A k \in DOMAIN results :
         Len(results) >= 2 /\ (k = 5 => Undisturbed) =>
           results[2].turnaround <= results[k].turnaround
    /\ Len(results) >= 3 => results[3] = results[2]

-----------------------------------------------------------------------------
\* What was read.

\* Every line that fits is a process with the values of its line.  Those that a
\* line of a file lacks are of the last line before that has them, or what the
\* stack held if none has; a token of a string takes none from another, and what
\* it lacks is whatever the stack holds then (scheduler.c 18-33, 38-49).
LatestWith(n, p) ==
  Max({0} \cup {k \in (IF input.inline THEN p ELSE 1)..p : input.lines[k].fields >= n})
WorkloadAsWritten ==
  phase # "load" /\ input # NULL =>
    /\ Len(base) = Min({Len(input.lines), MaxProcesses})
    /\ \E kept \in Stack : \A p \in DOMAIN base : \E fresh \in Stack :
         LET Unset == IF input.inline THEN fresh ELSE kept
             Written(n) == IF LatestWith(n, p) = 0 THEN Unset
                                                   ELSE input.lines[LatestWith(n, p)]
         IN  /\ base[p].pid = Written(1).pid
             /\ base[p].arrival_time = Written(2).arrival_time
             /\ base[p].burst_time = Written(3).burst_time

\* MLFQ runs with the levels of the file, each as it was last defined, and the
\* last boost period; those left out are passed through.  With a file that has
\* an error or defines nothing only the comparison goes on, with settings of
\* its own (mlfq-config.c 44-161, compare.c 161-176).
QueueLines(id) ==
  {k \in DOMAIN config_file : config_file[k].kind = "queue" /\ config_file[k].id = id}
BoostLines == {k \in DOMAIN config_file : config_file[k].kind = "boost"}
Usable ==
  /\ config_file # NULL
  /\ \A k \in DOMAIN config_file :
       /\ config_file[k].kind # "broken"
       /\ config_file[k].kind = "queue" => config_file[k].id < MaxLevels
  /\ \E id \in 0..(MaxLevels - 1) :
       /\ QueueLines(id) # {}
       /\ LET l == config_file[Max(QueueLines(id))]
          IN  l.quantum # 0 \/ l.allotment # 0
ConfigAsWritten ==
  phase = "simulate" /\ scheduler = "mlfq" =>
    \/ /\ ~Usable /\ args.compare_mode
       /\ config = FallbackConfig
    \/ /\ Usable
       /\ Len(Levels) = 1 + Max({id \in 0..(MaxLevels - 1) : QueueLines(id) # {}})
       /\ \A k \in DOMAIN Levels :
            Levels[k] = IF QueueLines(k - 1) = {} THEN Undefined
                        ELSE LET l == config_file[Max(QueueLines(k - 1))]
                             IN  Level(l.quantum, l.allotment)
       /\ config.boost_period = IF BoostLines = {} THEN -1
                                ELSE config_file[Max(BoostLines)].quantum

-----------------------------------------------------------------------------
\* "Dynamically preempts for incoming shorter jobs": once the events of the
\* moment are handled, no waiting process is shorter than what is left of the
\* running one.
Settled == event_queue # <<>> /\ Now > current_time
LeftOf(p) == proc[p].remaining_time + LastRun(p).end - current_time
ShortestRuns ==
  scheduler = "stcf" /\ Settled /\ running # None /\ Segments(running) # {} =>
    \A q \in InQueue(waiting) : proc[q].remaining_time >= LeftOf(running)

\* "All processes complete".
AllComplete == reported => \A p \in Processes : proc[p].remaining_time = 0
=============================================================================
