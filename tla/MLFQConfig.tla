----------------------------- MODULE MLFQConfig -----------------------------
(***************************************************************************)
(* lab_2/schedsim-2: the configuration file of MLFQ (mlfq-config.c).       *)
(*                                                                         *)
(* A line is [kind, id, quantum, allotment]: a "queue" definition, a       *)
(* "boost" period (in quantum), or one of either sort that does not parse, *)
(* which is "broken".  Lines of no sort have no effect and are left out.   *)
(* A configuration is [levels, boost_period], its level n at index n + 1.  *)
(***************************************************************************)
EXTENDS Integers, Sequences, SequencesExt

CONSTANTS
  MaxLevels,      \* MAX_MLFQ_LEVELS
  NULL            \* no configuration

ASSUME LevelsAssumption == MaxLevels \in Nat \ {0}

Level(quantum, allotment) == [time_quantum |-> quantum, allotment |-> allotment]

LevelRecords == [time_quantum : Int, allotment : Int]
Configs == [levels : Seq(LevelRecords), boost_period : Int]

ASSUME NullAssumption == NULL \notin Configs

ConfigLines ==
  [kind : {"queue", "boost", "broken"}, id : Nat, quantum : Int, allotment : Int]

\* What memset leaves of a level that no line defines.
Undefined == Level(0, 0)

NothingRead == [levels |-> <<>>, boost_period |-> -1]

\* A definition adds the levels up to its own; the last one of a level counts.
AppendLevel(levels, l) == Append(levels, Level(l.quantum, l.allotment))
DefineLevel(levels, l) ==
  [k \in 1..(IF l.id < Len(levels) THEN Len(levels) ELSE l.id + 1) |->
     IF k = l.id + 1 THEN Level(l.quantum, l.allotment)
     ELSE IF k <= Len(levels) THEN levels[k] ELSE Undefined]

Rejected(l) == l.kind = "broken" \/ (l.kind = "queue" /\ l.id >= MaxLevels)

ReadLine(config, l) ==
  IF config = NULL \/ Rejected(l) THEN NULL
  ELSE IF l.kind = "queue" THEN [config EXCEPT !.levels = DefineLevel(@, l)]
  ELSE [config EXCEPT !.boost_period = l.quantum]

validate_mlfq_config(config) == \E k \in DOMAIN config.levels : config.levels[k] # Undefined

\* The file is a sequence of lines, or NULL if there is none.
load_mlfq_config(file) ==
  LET read[n \in 0..Len(file)] ==
        IF n = 0 THEN NothingRead ELSE ReadLine(read[n - 1], file[n])
      config == read[Len(file)]
  IN  IF file # NULL /\ config # NULL /\ validate_mlfq_config(config)
        THEN config ELSE NULL
=============================================================================
