------------------------------ MODULE SchedSim ------------------------------
(***************************************************************************)
(* lab_2/schedsim-2: the program (main.c, command.c, compare.c) around the *)
(* simulator: it loads the processes, and either runs one algorithm or     *)
(* compares all five, each on a copy of the processes.                     *)
(***************************************************************************)
EXTENDS Simulator, MLFQConfig, Workload

CONSTANTS
  Inputs,      \* workloads: [inline, lines], or NULL for none given
  Commands     \* [compare_mode, algorithm, quantum_time, mlfq_config_files]:
               \* the last is what the file named may hold, {} if none is

ASSUME InputsAssumption ==
  \A input \in Inputs \ {NULL} :
    /\ input.lines \in Seq(ToSet(input.lines))
    /\ input.inline \/ Len(input.lines) <= MaxProcesses

\* "No negative values: Arrival times and burst times >= 0", which the code does
\* not check (README.md:279).
ASSUME TimesAssumption ==
  \A input \in Inputs \ {NULL} : \A list \in PossibleProcesses(input) :
    \A p \in DOMAIN list : list[p].arrival_time \in Nat /\ list[p].burst_time \in Nat

\* What the levels must satisfy for every run to end: a level without a quantum
\* is left at once.  It is not the top one, whose empty runs would count as
\* responses.  The code checks neither.
Runnable(c) ==
  /\ c.levels[1].time_quantum # 0
  /\   \A k \in DOMAIN c.levels :
    /\ c.levels[k].time_quantum \in Nat \cup {-1}
    /\ c.levels[k].allotment \in Nat \cup {-1}
    /\ c.levels[k].time_quantum = 0 =>
         c.levels[k].allotment = 0 /\ k < Len(c.levels)
ASSUME ConfigAssumption ==
  \A command \in Commands :
    /\ command.quantum_time \in Int
    /\ command.mlfq_config_files \subseteq Seq(ConfigLines) \cup {NULL}
    /\ command.compare_mode => command.mlfq_config_files # {}
    /\ \A file \in command.mlfq_config_files :
         load_mlfq_config(file) # NULL => Runnable(load_mlfq_config(file))

VARIABLES
  phase,       \* "load", "select", "simulate", "exited"
  args,        \* the options
  input,       \* history: the workload file
  base,        \* state->processes, as loaded
  config_file, \* history: the configuration file of the current simulation
  results      \* of run_comparison

program == <<phase, args, input, base, config_file, results>>
vars == <<program, engine>>

Algorithms == <<"fcfs", "sjf", "stcf", "rr", "mlfq">>

Init ==
  /\ phase = "load" /\ args \in Commands /\ input \in Inputs
  /\ base = <<>> /\ config_file = NULL /\ results = <<>>
  /\ scheduler = None /\ quantum_time = 0 /\ config = NothingRead
  /\ proc = <<>> /\ running = None /\ waiting = <<>> /\ current_time = 0
  /\ gantt = <<>> /\ event_queue = <<>> /\ reported = FALSE

Load ==
  /\ phase = "load" /\ input # NULL
  /\ base' \in PossibleProcesses(input)
  /\ phase' = "select"
  /\ UNCHANGED <<args, input, config_file, results, engine>>

NoInput ==
  /\ phase = "load" /\ input = NULL
  /\ phase' = "exited"
  /\ UNCHANGED <<args, input, base, config_file, results, engine>>

-----------------------------------------------------------------------------
\* copy_processes.
SameProcesses == IF proc # <<>> THEN proc
  ELSE [p \in DOMAIN base |-> NewProcess(base[p].arrival_time, base[p].burst_time)]
CopiedProcesses ==
  [p \in DOMAIN base |-> NewProcess(base[p].arrival_time, base[p].burst_time)]

\* Algorithm s with quantum q and configuration c from now on.
Run(s, q, c) ==
  /\ phase = "select"
  /\ phase' = "simulate"
  /\ Begin(s, q, c, CopiedProcesses)
  /\ UNCHANGED <<args, input, base, results>>

\* main: one algorithm with the user's settings.
SelectAlgorithm ==
  /\ ~args.compare_mode
  /\ args.algorithm \in {"fcfs", "sjf", "stcf"}
  /\ config_file' = NULL
  /\ Run(args.algorithm, 0, NothingRead)

SelectRR ==
  /\ ~args.compare_mode /\ args.algorithm = "rr" /\ args.quantum_time > 0
  /\ config_file' = NULL
  /\ Run("rr", args.quantum_time, NothingRead)

SelectMLFQ ==
  /\ ~args.compare_mode /\ args.algorithm = "mlfq"
  /\ \E file \in args.mlfq_config_files :
       /\ load_mlfq_config(file) # NULL
       /\ config_file' = file
       /\ Run("mlfq", 0, load_mlfq_config(file))

\* An unknown algorithm, or settings it cannot run with.
Refuse ==
  /\ phase = "select" /\ ~args.compare_mode
  /\ CASE args.algorithm = "rr"   -> args.quantum_time <= 0
       [] args.algorithm = "mlfq" ->
            \/ args.mlfq_config_files = {}
            \/ \E file \in args.mlfq_config_files : load_mlfq_config(file) = NULL
       [] OTHER -> args.algorithm \notin ToSet(Algorithms)
  /\ phase' = "exited"
  /\ UNCHANGED <<args, input, base, config_file, results, engine>>

-----------------------------------------------------------------------------
\* run_comparison: the five tests, with settings of their own.
FallbackConfig ==
  [levels |-> <<Level(10, 50), Level(30, 150), Level(-1, -1)>>, boost_period |-> 200]

ConfigOrFallback(file) ==
  IF load_mlfq_config(file) = NULL THEN FallbackConfig ELSE load_mlfq_config(file)

Testing(s) ==
  /\ args.compare_mode /\ Len(results) < Len(Algorithms)
  /\ Algorithms[Len(results) + 1] = s

TestPlain ==
  \E s \in {"fcfs", "sjf", "stcf"} :
    /\ Testing(s)
    /\ config_file' = NULL
    /\ Run(s, 0, NothingRead)

TestRR ==
  /\ Testing("rr")
  /\ config_file' = NULL
  /\ Run("rr", 10, NothingRead)

TestMLFQ ==
  /\ Testing("mlfq")
  /\ \E file \in args.mlfq_config_files :
       /\ config_file' = file
       /\ Run("mlfq", 0, ConfigOrFallback(file))

\* calculate_averages, as sums over the same number of processes.
TotalOf(metric) == SumFunction(metric)

\* count_context_switches: only the first letters of the names are compared.
Letter(k) == base[gantt[k].name].pid[1]
LetterChanges == Cardinality({k \in 2..Len(gantt) : Letter(k) # Letter(k - 1)})

SegmentsLessOne == IF Len(gantt) <= 1 THEN 0 ELSE Len(gantt) - 1
count_context_switches == IF Len(gantt) <= 1 THEN 0 ELSE LetterChanges

Result ==
  [turnaround |-> TotalOf([p \in Processes |-> TurnaroundTime(p)]),
   waiting    |-> TotalOf([p \in Processes |-> WaitingTime(p)]),
   response   |-> TotalOf([p \in Processes |-> ResponseTime(p)]),
   context_switches |-> count_context_switches]

\* A test is over: its result is kept and its queue freed.
FinishTest ==
  /\ phase = "simulate" /\ reported /\ args.compare_mode
  /\ results' = Append(results, Result)
  /\ phase' = "select"
  /\ UNCHANGED <<args, input, base, config_file, engine>>

\* The table has been printed, or the only simulation is over.
Exit ==
  /\ \/ phase = "select" /\ args.compare_mode /\ Len(results) = Len(Algorithms)
     \/ phase = "simulate" /\ reported /\ ~args.compare_mode
  /\ phase' = "exited"
  /\ UNCHANGED <<args, input, base, config_file, results, engine>>

Next ==
  \/ Load \/ NoInput
  \/ SelectAlgorithm \/ SelectRR \/ SelectMLFQ \/ Refuse
  \/ TestPlain \/ TestRR \/ TestMLFQ \/ FinishTest
  \/ phase = "simulate" /\ Simulate /\ UNCHANGED program
  \/ Exit

Spec == Init /\ [][Next]_vars
FairSpec == Spec /\ WF_vars(Next)   \* one sequential program
=============================================================================
