---------------------------- MODULE MCSimulator ----------------------------
(* Instances of SchedSim for TLC. *)
EXTENDS SimulatorProperties

Line(fields, pid, arrival, burst) ==
  [fields |-> fields, pid |-> pid, arrival_time |-> arrival, burst_time |-> burst]
File(lines) == [inline |-> FALSE, lines |-> lines]
String(lines) == [inline |-> TRUE, lines |-> lines]

A1 == <<"A", "1">>  A2 == <<"A", "2">>
B  == <<"B", "">>   C  == <<"C", "">>

\* Every workload of three processes with these times, the first arrival at 0.
Generated(arrivals, bursts, pids) ==
  {File([k \in 1..3 |-> Line(3, pids[k], times[k][1], times[k][2])]) :
     times \in {f \in [1..3 -> arrivals \X bursts] : \E k \in 1..3 : f[k][1] = 0}}

\* workloads/workload-1.txt and -2.txt.
Shipped(arrival) ==
  File(<<Line(3, <<"1", "24">>, 0, 120), Line(3, <<"1", "31">>, arrival, 60),
         Line(3, <<"1", "41">>, arrival, 30)>>)

\* Lines that lack fields, first and in the middle; more than fit; none; no input.
Irregular == {
  Shipped(0), Shipped(10), NULL, File(<<>>),
  File(<<Line(1, A1, 0, 0), Line(3, B, 10, 30), Line(2, C, 20, 0)>>),
  String(<<Line(0, A1, 0, 0), Line(3, B, 0, 10), Line(1, C, 0, 0)>>),
  String([k \in 1..5 |-> Line(3, B, 0, 10)])}

\* The second is what the token before leaves there.
StackValues == {[pid |-> A2, arrival_time |-> 10, burst_time |-> 20],
                [pid |-> B, arrival_time |-> 0, burst_time |-> 10]}

MixedInputs ==
  Generated({0, 10, 20}, {0, 10, 35}, <<A1, B, C>>)
    \cup Generated({0}, {10, 20, 30}, <<A1, B, A2>>) \cup Irregular
PreemptingInputs == Generated({0, 10, 20}, {10, 30, 50}, <<A1, B, C>>)

-----------------------------------------------------------------------------
Q(id, quantum, allotment) ==
  [kind |-> "queue", id |-> id, quantum |-> quantum, allotment |-> allotment]
BoostPeriod(period) == [kind |-> "boost", id |-> 0, quantum |-> period, allotment |-> 0]
Broken == [kind |-> "broken", id |-> 0, quantum |-> 0, allotment |-> 0]

\* Files that demote soon, that leave one level out and define another twice,
\* and that boost while processes run.
ShortFile == <<Q(0, 10, 20), Q(1, 20, 30), Q(2, 20, 20)>>
HoleFile == <<BoostPeriod(-1), Q(0, 10, 10), Q(3, -1, -1), Q(0, 20, 20), Q(1, 10, 10)>>
BoostFile == <<Q(0, 10, 20), BoostPeriod(500), Q(1, -1, -1), BoostPeriod(30)>>
RefusedFiles == { <<Q(0, 10, 20), Broken>>, <<Q(4, 10, 20)>>, <<Q(1, 0, 0)>>, <<>>}

Command(algorithm, quantum, files) ==
  [compare_mode |-> FALSE, algorithm |-> algorithm, quantum_time |-> quantum,
   mlfq_config_files |-> files]
Compare(files) == [Command(NULL, 0, files) EXCEPT !.compare_mode = TRUE]

MixedCommands ==
  {Compare({HoleFile, BoostFile, NULL}),
   Command("mlfq", 0, {ShortFile, NULL} \cup RefusedFiles),
   Command("mlfq", 0, {}),
   Command("rr", 20, {}), Command("rr", 0, {}), Command("sjf", 0, {}),
   Command("lottery", 0, {}), Command(NULL, 0, {})}
BoostCommands == {Command("mlfq", 0, {BoostFile})}
STCFCommands == {Command("stcf", 0, {})}
=============================================================================
