----------------------------- MODULE Simulator -----------------------------
(***************************************************************************)
(* lab_2/schedsim-2: the discrete event simulator (simulator.c) with its   *)
(* five scheduling algorithms (schedulers/).                               *)
(*                                                                         *)
(* One action per event handler: it takes the first event, sets the time   *)
(* to that of the event, and may put one process on the CPU.  A process is *)
(* charged for its run, and drawn on the chart, when it is put on the CPU, *)
(* not when the run ends.                                                  *)
(***************************************************************************)
EXTENDS ReadyQueue, FiniteSets

CONSTANTS
  BoostSlack,     \* 1000 in initialize_events
  MaxGantt,       \* MAX_GANTT_ENTRIES
  None

ASSUME EngineAssumption == BoostSlack \in Nat /\ MaxGantt \in Nat /\ None \notin Nat

UNKNOWN_TIME == -1

VARIABLES
  scheduler,     \* the algorithm: "fcfs", "sjf", "stcf", "rr" or "mlfq"
  quantum_time,  \* for RR
  config,        \* for MLFQ: [levels, boost_period]
  proc,          \* state->processes
  running, waiting, current_time, gantt,
  event_queue,
  reported       \* the metrics have been printed

settings == <<scheduler, quantum_time, config>>
engine == <<settings, proc, running, waiting, current_time, gantt, event_queue,
            reported>>

Processes == DOMAIN proc
Levels == config.levels

NewProcess(arrival, burst) ==
  [arrival_time |-> arrival, burst_time |-> burst, remaining_time |-> burst,
   start_time |-> UNKNOWN_TIME, finish_time |-> UNKNOWN_TIME,
   priority |-> 0, time_in_queue |-> 0]

Event(time, type, process) == [time |-> time, type |-> type, process |-> process]

SortsByRemaining(s) == s \in {"sjf", "stcf"}

\* initialize_events: the arrivals in the order of the workload, then, for
\* MLFQ, boosts until after the last process can have ended.
ArrivalEvents(pr, byRemaining) ==
  LET queue[n \in 0..Len(pr)] ==
        IF n = 0 THEN <<>>
        ELSE EnqueueEvent(queue[n - 1],
                          Event(pr[n].arrival_time, "ARRIVAL", n), pr, byRemaining)
  IN  queue[Len(pr)]

MaxTime(pr) ==
  Max({0} \cup {pr[p].arrival_time : p \in DOMAIN pr})
    + SumFunction([p \in DOMAIN pr |-> pr[p].burst_time]) + BoostSlack

WithBoosts(queue, pr, period) ==
  LET boosted[n \in 0..(MaxTime(pr) \div period)] ==
        IF n = 0 THEN queue
        ELSE EnqueueEvent(boosted[n - 1],
                          Event(n * period, "PRIORITY_BOOST", None), pr, FALSE)
  IN  boosted[MaxTime(pr) \div period]

InitialEvents(s, c, pr) ==
  LET arrivals == ArrivalEvents(pr, SortsByRemaining(s))
  IN  IF s = "mlfq" /\ c.boost_period > 0
        THEN WithBoosts(arrivals, pr, c.boost_period) ELSE arrivals

\* simulate_scheduler up to its loop, in a cleared state, for algorithm s with
\* its settings and processes pr.
Begin(s, q, c, pr) ==
  /\ scheduler' = s /\ quantum_time' = q /\ config' = c
  /\ proc' = pr
  /\ event_queue' = InitialEvents(s, c, pr)
  /\ running' = None
  /\ waiting' = EmptyQueue(s, c.levels)
  /\ current_time' = 0
  /\ gantt' = <<>>
  /\ reported' = FALSE

-----------------------------------------------------------------------------
\* The algorithms.

AtMost(time, limit) == IF time <= limit THEN time ELSE limit
IsNotPast(time, now) == time >= now
IsFuture(time, now) == time > now

\* How long process record r runs if it gets the CPU now.  STCF runs to the
\* next arrival that is still in the future.
RunTime(r, now, queue) ==
  CASE scheduler \in {"fcfs", "sjf"} -> r.remaining_time
    [] scheduler = "stcf" ->
         LET next == NextArrival(queue)
         IN  IF next # 0 /\ IsFuture(queue[next].time, now)
               THEN AtMost(r.remaining_time, queue[next].time - now)
               ELSE r.remaining_time
    [] scheduler = "rr" -> AtMost(r.remaining_time, quantum_time)
    [] scheduler = "mlfq" ->
         LET quantum == Levels[r.priority + 1].time_quantum
         IN  IF quantum = -1 THEN r.remaining_time
                             ELSE AtMost(r.remaining_time, quantum)

\* The record after it has been charged for the run.
Charged(r, now, run) ==
  [r EXCEPT !.start_time =
              IF scheduler \in {"fcfs", "sjf"} \/ @ = UNKNOWN_TIME THEN now ELSE @,
            !.finish_time =
              IF scheduler \in {"fcfs", "sjf"} THEN now + r.burst_time
              ELSE IF run = r.remaining_time THEN now + run ELSE @,
            !.remaining_time = @ - run,
            !.time_in_queue = IF scheduler = "mlfq" THEN @ + run ELSE @]

\* mlfq_check_demotion.
AllotmentOf(p) == Levels[proc[p].priority + 1].allotment
BottomLevel(p) == proc[p].priority + 1 >= Len(Levels)
NoDemotion(p) == FALSE
Demoted(p) ==
  /\ scheduler = "mlfq"
  /\ AllotmentOf(p) # -1
  /\ proc[p].time_in_queue >= AllotmentOf(p)
  /\ ~BottomLevel(p)

-----------------------------------------------------------------------------
\* Putting a process on the CPU.

Now == Head(event_queue).time
Subject == Head(event_queue).process

DrawnOnChange(p, run) ==
  IF gantt # <<>> /\ gantt[Len(gantt)].name = p THEN gantt
  ELSE Append(gantt, [name |-> p, start |-> Now, end |-> Now + run])
Drawn(p, run) ==
  IF run <= 0 \/ Len(gantt) >= MaxGantt THEN gantt
  ELSE Append(gantt, [name |-> p, start |-> Now, end |-> Now + run])

\* p gets the CPU, with processes pr, waiting queue w and events queue.
Dispatch(p, pr, w, queue) ==
  LET run == RunTime(pr[p], Now, queue)
      charged == [pr EXCEPT ![p] = Charged(@, Now, run)]
      type == IF charged[p].remaining_time = 0 THEN "COMPLETION"
                                               ELSE "QUANTUM_EXPIRE"
  IN  /\ running' = p
      /\ waiting' = w
      /\ proc' = charged
      /\ gantt' = Drawn(p, run)
      /\ event_queue' = EnqueueEvent(queue, Event(Now + run, type, p), charged,
                                     SortsByRemaining(scheduler))

\* The first of w, if any, gets the CPU.
DispatchNext(pr, w, queue) ==
  \/ /\ ~IsEmpty(w)
     /\ Dispatch(Taken(scheduler, w), pr, Left(scheduler, w), queue)
  \/ /\ IsEmpty(w)
     /\ running' = None
     /\ waiting' = w /\ proc' = pr /\ event_queue' = queue
     /\ UNCHANGED gantt

\* The event of this type is next; the clock goes to its time.
Handle(type) ==
  /\ event_queue # <<>>
  /\ Head(event_queue).type = type
  /\ current_time' = Now
  /\ UNCHANGED <<settings, reported>>

\* Whoever is running ends now, unless its end is known already.
FinishRunning(time) ==
  IF running # None /\ proc[running].finish_time = UNKNOWN_TIME
    THEN [proc EXCEPT ![running].finish_time = time] ELSE proc

-----------------------------------------------------------------------------
\* The handlers.

Preempts(p) ==
  /\ scheduler = "stcf"
  /\ proc[p].remaining_time < proc[running].remaining_time

ArrivalDispatches ==
  /\ running = None
  /\ Dispatch(Subject, proc, waiting, Tail(event_queue))

ArrivalPreempts ==
  /\ running # None /\ Preempts(Subject)
  /\ Dispatch(Subject, proc, Enqueue(scheduler, waiting, running, proc),
              RemoveEvent(Tail(event_queue), running))

ArrivalWaits ==
  /\ running # None /\ ~Preempts(Subject)
  /\ waiting' = Enqueue(scheduler, waiting, Subject, proc)
  /\ event_queue' = Tail(event_queue)
  /\ UNCHANGED <<running, proc, gantt>>

handle_arrival ==
  /\ Handle("ARRIVAL")
  /\ ArrivalDispatches \/ ArrivalPreempts \/ ArrivalWaits

\* The event's process plays no part: the running process is ended.
handle_completion ==
  /\ Handle("COMPLETION")
  /\ DispatchNext(FinishRunning(Now), waiting, Tail(event_queue))

\* The waiting queue with the running process put back, and the processes.
PutBackTwice ==
  IF running = None THEN waiting
  ELSE Enqueue(scheduler,
         IF Demoted(running)
           THEN Push(waiting, proc[running].priority + 2, running) ELSE waiting,
         running, proc)
PutBack ==
  CASE running = None -> waiting
    [] running # None /\ scheduler = "rr" -> Requeue(waiting, running)
    [] running # None /\ Demoted(running) ->
         Move(waiting, running, proc[running].priority, proc[running].priority + 1)
    [] OTHER -> Enqueue(scheduler, waiting, running, proc)
AfterDemotion ==
  IF running # None /\ Demoted(running)
    THEN [proc EXCEPT ![running].priority = @ + 1, ![running].time_in_queue = 0]
    ELSE proc

\* The end of the next run is known to the algorithm, so that the handler's
\* own check of finish_time (227-232) finds nothing to do.
handle_quantum_expire ==
  /\ Handle("QUANTUM_EXPIRE")
  /\ DispatchNext(AfterDemotion, PutBack, Tail(event_queue))

\* Nothing is boosted while the running process is charged to its end.  The
\* event of the process taken off the CPU stays in the queue.
BoostedRunningOnly ==
  [p \in Processes |->
     IF p = running
       THEN [proc[p] EXCEPT !.priority = 0, !.time_in_queue = 0] ELSE proc[p]]
BoostedProcesses ==
  [p \in Processes |->
     IF p \in InQueue(waiting) \/ p = running
       THEN [proc[p] EXCEPT !.priority = 0, !.time_in_queue = 0] ELSE proc[p]]
BoostedQueue ==
  IF running = None THEN Boosted(waiting)
                    ELSE Push(Boosted(waiting), 1, running)

handle_priority_boost ==
  /\ Handle("PRIORITY_BOOST")
  /\ IF running # None /\ proc[running].remaining_time = 0
       THEN /\ event_queue' = Tail(event_queue)
            /\ UNCHANGED <<running, waiting, proc, gantt>>
       ELSE DispatchNext(BoostedProcesses, BoostedQueue, Tail(event_queue))

\* No event is left: the safety net, the metrics and the chart.
Report ==
  /\ event_queue = <<>>
  /\ ~reported
  /\ reported' = TRUE
  /\ proc' = FinishRunning(current_time)
  /\ UNCHANGED <<settings, running, waiting, current_time, gantt, event_queue>>

\* The loop of simulate_scheduler.
Simulate ==
  \/ handle_arrival \/ handle_completion
  \/ handle_quantum_expire \/ handle_priority_boost
  \/ Report

\* calculate_metrics.
TurnaroundTime(p) == proc[p].finish_time - proc[p].arrival_time
WaitingTime(p) == TurnaroundTime(p) - proc[p].burst_time
ResponseTime(p) == proc[p].start_time - proc[p].arrival_time
=============================================================================
