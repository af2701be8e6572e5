----------------------------- MODULE ReadyQueue -----------------------------
(***************************************************************************)
(* lab_2/schedsim-2: the waiting queue of each scheduling algorithm        *)
(* (fcfs-, sjf-, stcf-, rr- and mlfq-queue.c).                             *)
(*                                                                         *)
(* A queue is a tuple of lists: one list for FCFS, SJF and STCF; active,   *)
(* round and pending for RR; one per priority level for MLFQ, the list of  *)
(* priority n at index n + 1.  AbstractProcessQueue.size counts them all.  *)
(***************************************************************************)
EXTENDS EventQueue, FiniteSetsExt

Active == 1
Round == 2
Pending == 3

\* levels is MLFQConfig.levels, of which only the number matters here.
NumLists(scheduler, levels) ==
  CASE scheduler = "rr" -> 3 [] scheduler = "mlfq" -> Len(levels) [] OTHER -> 1

EmptyQueue(scheduler, levels) == [k \in 1..NumLists(scheduler, levels) |-> <<>>]

InQueue(w) == UNION {ToSet(w[k]) : k \in DOMAIN w}
IsEmpty(w) == \A k \in DOMAIN w : w[k] = <<>>

Push(w, k, p) == [w EXCEPT ![k] = Append(@, p)]

\* The position of p under SJF and STCF: behind everything not longer.
ByBurst(w, p, proc) == [w EXCEPT ![1] =
  InsertBeforeFirst(@, p, LAMBDA q : proc[p].burst_time < proc[q].burst_time)]
ByRemaining(w, p, proc) == [w EXCEPT ![1] =
  InsertBeforeFirst(@, p, LAMBDA q :
                            proc[p].remaining_time < proc[q].remaining_time)]

\* waiting->enqueue.
EnqueueFIFO(scheduler, w, p, proc) == Push(w, 1, p)
Enqueue(scheduler, w, p, proc) ==
  CASE scheduler = "fcfs" -> Push(w, 1, p)
    [] scheduler = "sjf"  -> ByBurst(w, p, proc)
    [] scheduler = "stcf" -> ByRemaining(w, p, proc)
    [] scheduler = "rr"   -> Push(w, Pending, p)
    [] scheduler = "mlfq" -> Push(w, proc[p].priority + 1, p)

\* rr_requeue: a preempted process waits for the next round.
RequeueActive(w, p) == Push(w, Active, p)
Requeue(w, p) == Push(w, Round, p)

\* rr_dequeue starts a new round when the active list is used up: those of
\* the last round in their order, then the arrivals.
NewRound(w) == <<w[Round] \o w[Pending], <<>>, <<>>>>

\* waiting->dequeue, from a queue that is not empty: the queue it takes from,
\* the list of it, the process taken and the queue left.
Turned(scheduler, w) ==
  IF scheduler = "rr" /\ w[Active] = <<>> THEN NewRound(w) ELSE w
FirstList(w) == Min({k \in DOMAIN w : w[k] # <<>>})
Taken(scheduler, w) ==
  LET v == Turned(scheduler, w) IN Head(v[FirstList(v)])
Left(scheduler, w) ==
  LET v == Turned(scheduler, w) IN [v EXCEPT ![FirstList(v)] = Tail(@)]

\* mlfq_move_process, and mlfq_priority_boost on the lists.
Move(w, p, old, new) ==
  Push([w EXCEPT ![old + 1] = RemoveFirst(@, p)], new + 1, p)
Boosted(w) == [k \in DOMAIN w |-> IF k = 1 THEN FlattenSeq(w) ELSE <<>>]
=============================================================================
