------------------------------ MODULE Workload ------------------------------
(***************************************************************************)
(* lab_2/schedsim-2: the processes of a workload file, or of a string of   *)
(* the command line (scheduler.c).                                         *)
(*                                                                         *)
(* A line is [fields, pid, arrival_time, burst_time]: only the first       *)
(* fields of the three were converted by sscanf.  Comments and blank lines *)
(* are left out.  The variables that sscanf fills are never initialized:   *)
(* those of a file live for all of its lines, those of a string for one    *)
(* token.                                                                  *)
(***************************************************************************)
EXTENDS Integers, Sequences, SequencesExt

CONSTANTS
  MaxProcesses,   \* MAX_PROCESSES
  Stack           \* what a variable may hold that is not initialized

ASSUME CapacityAssumption == MaxProcesses \in Nat \ {0}

\* pid, arrival_time and burst_time after a line has been scanned.
ScannedOrZero(scan, l) ==
  [pid          |-> IF l.fields >= 1 THEN l.pid ELSE scan.pid,
   arrival_time |-> IF l.fields >= 2 THEN l.arrival_time ELSE 0,
   burst_time   |-> IF l.fields >= 3 THEN l.burst_time ELSE 0]
Scanned(scan, l) ==
  [pid          |-> IF l.fields >= 1 THEN l.pid ELSE scan.pid,
   arrival_time |-> IF l.fields >= 2 THEN l.arrival_time ELSE scan.arrival_time,
   burst_time   |-> IF l.fields >= 3 THEN l.burst_time ELSE scan.burst_time]

\* Each line is a process with what has been scanned up to it, from what the
\* stack held.  The array is not guarded: Inputs have no more lines than fit.
get_processes_from_file(lines, stack) ==
  LET scan[n \in 0..Len(lines)] ==
        IF n = 0 THEN stack ELSE Scanned(scan[n - 1], lines[n])
  IN  [n \in 1..Len(lines) |-> scan[n]]

\* Each token that fits is a process; what it lacks is whatever the stack holds
\* then, the values of an earlier token or others.
get_processes_from_string(tokens, stack) ==
  [n \in 1..Min({Len(tokens), MaxProcesses}) |-> Scanned(stack[n], tokens[n])]

\* The lists that an input may be read as.
PossibleProcesses(input) ==
  IF input.inline
    THEN {get_processes_from_string(input.lines, stack) :
            stack \in [1..MaxProcesses -> Stack]}
    ELSE {get_processes_from_file(input.lines, stack) : stack \in Stack}
=============================================================================
