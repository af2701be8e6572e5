----------------------------- MODULE EventQueue -----------------------------
(***************************************************************************)
(* lab_2/schedsim-2: the event queue (event-queue.c), a list of events in  *)
(* the order in which the simulator handles them, and the insertion that   *)
(* the sorted process queues share with it.                                *)
(*                                                                         *)
(* An event is [time, type, process]; a priority boost has process None.   *)
(***************************************************************************)
EXTENDS Integers, Sequences, SequencesExt

\* Walk the list until an element stops the newcomer, and insert before it.
InsertBeforeFirst(list, x, Stops(_)) ==
  LET stop == SelectInSeq(list, Stops)
  IN  InsertAt(list, IF stop = 0 THEN Len(list) + 1 ELSE stop, x)

\* e is handled before f, which is queued already.  Among equal times the
\* newcomer goes last, except that under SJF and STCF one whose process has
\* strictly less time remaining than f's goes before f.
NeverPrecedes(e, f, proc, byRemaining) == FALSE
Precedes(e, f, proc, byRemaining) ==
  \/ e.time < f.time
  \/ /\ byRemaining
     /\ e.time = f.time
     /\ proc[e.process].remaining_time < proc[f.process].remaining_time

EnqueueEvent(queue, e, proc, byRemaining) ==
  InsertBeforeFirst(queue, e, LAMBDA f : Precedes(e, f, proc, byRemaining))

\* remove_event_for_process: the first event that names the process.
CancelNone(queue, p) == queue
RemoveEvent(queue, p) == RemoveFirstMatch(queue, LAMBDA e : e.process = p)

\* peek_next_arrival: the place of the first arrival, 0 if there is none.
NextArrival(queue) == SelectInSeq(queue, LAMBDA e : e.type = "ARRIVAL")
=============================================================================
