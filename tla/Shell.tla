------------------------------- MODULE Shell -------------------------------
(***************************************************************************)
(* lab_1: the shell's main loop (mysh.c), the interpreter and its table of *)
(* background jobs (interpreter.c), with the processes it forks.  A reaped *)
(* child's process id is free again; fork fails when none is.              *)
(***************************************************************************)
EXTENDS Integers, Sequences, SequencesExt

CONSTANTS
  Pids,         \* process ids of the system
  MaxJobs,      \* MAX_BG_JOBS
  MallocFails,  \* whether malloc may return NULL
  None

ASSUME ShellAssumption ==
  MaxJobs \in Nat \ {0} /\ MallocFails \in BOOLEAN /\ None \notin Pids

VARIABLES
  child,    \* "none", "running" or, until somebody waits for it, "zombie"
  bg_jobs,  \* bg_jobs[0 .. total_bg_job_counter - 1], by pid
  i,        \* the loop variable of cleanup_background_jobs
  fg,       \* the child that interpreter waits for
  pc        \* "cleanup", "prompt", "wait" or "exited"

vars == <<child, bg_jobs, i, fg, pc>>

Jobs == ToSet(bg_jobs)

TypeOK ==
  /\ child \in [Pids -> {"none", "running", "zombie"}]
  /\ bg_jobs \in Seq(Pids) /\ Len(bg_jobs) <= MaxJobs
  /\ i \in 1..(Len(bg_jobs) + 1)
  /\ fg \in Pids \cup {None} /\ (fg # None <=> pc = "wait")
  /\ pc \in {"cleanup", "prompt", "wait", "exited"}

Init ==
  /\ child = [p \in Pids |-> "none"]
  /\ bg_jobs = <<>>
  /\ i = 1
  /\ fg = None
  /\ pc = "cleanup"

\* Back to the top of main's loop, with its cleanup ahead.
NextCommand == pc' = "cleanup" /\ i' = 1

-----------------------------------------------------------------------------
\* cleanup_background_jobs: one call of waitpid with WNOHANG for each job.
\* A finished job's place goes to the last job, which is looked at next.
AlsoPass(n) == n + 1
LosesLast(n) == SubSeq(bg_jobs, 1, Len(bg_jobs) - 1)
KeepsLast(n) == [bg_jobs EXCEPT ![n] = bg_jobs[Len(bg_jobs)]]
WithoutJob(n) == SubSeq(KeepsLast(n), 1, Len(bg_jobs) - 1)
AfterRemoval(n) == n                         \* i-- and the loop's i++

ReapJob ==
  /\ pc = "cleanup" /\ i <= Len(bg_jobs)
  /\ child[bg_jobs[i]] = "zombie"
  /\ child' = [child EXCEPT ![bg_jobs[i]] = "none"]
  /\ bg_jobs' = WithoutJob(i)
  /\ i' = AfterRemoval(i)
  /\ UNCHANGED <<fg, pc>>

PassJobBlocking ==
  /\ pc = "cleanup" /\ i <= Len(bg_jobs)
  /\ child[bg_jobs[i]] = "none"
  /\ i' = i + 1
  /\ UNCHANGED <<child, bg_jobs, fg, pc>>
PassJob ==
  /\ pc = "cleanup" /\ i <= Len(bg_jobs)
  /\ child[bg_jobs[i]] # "zombie"
  /\ i' = i + 1
  /\ UNCHANGED <<child, bg_jobs, fg, pc>>

EndCleanup ==
  /\ pc = "cleanup" /\ i > Len(bg_jobs)
  /\ pc' = "prompt"
  /\ UNCHANGED <<child, bg_jobs, i, fg>>

Cleanup == ReapJob \/ PassJob \/ EndCleanup

-----------------------------------------------------------------------------
\* An empty or rejected line, cd, pwd, or a command whose fork fails: nothing
\* is started.
NothingToStart ==
  /\ pc = "prompt"
  /\ NextCommand
  /\ UNCHANGED <<child, bg_jobs, fg>>

Exit ==
  /\ pc = "prompt"
  /\ pc' = "exited"
  /\ UNCHANGED <<child, bg_jobs, i, fg>>

Forks(p) == child[p] = "none" /\ child' = [child EXCEPT ![p] = "running"]

RunForeground(p) ==
  /\ pc = "prompt" /\ Forks(p)
  /\ fg' = p /\ pc' = "wait"
  /\ UNCHANGED <<bg_jobs, i>>

WaitForeground ==
  /\ pc = "wait" /\ child[fg] = "zombie"
  /\ child' = [child EXCEPT ![fg] = "none"]
  /\ fg' = None
  /\ NextCommand
  /\ UNCHANGED bg_jobs

\* A background child is entered in the table if there is room and a copy of
\* its command can be allocated.
AnyRoom == TRUE
HasRoom == Len(bg_jobs) < MaxJobs

TrackBackground(p) ==
  /\ pc = "prompt" /\ Forks(p)
  /\ HasRoom
  /\ bg_jobs' = Append(bg_jobs, p)
  /\ NextCommand
  /\ UNCHANGED fg

\* Otherwise the child runs all the same.
LeaveBackground(p) ==
  /\ pc = "prompt" /\ Forks(p)
  /\ ~HasRoom \/ MallocFails
  /\ NextCommand
  /\ UNCHANGED <<bg_jobs, fg>>

\* A child ends when it likes, or never.
ChildExits(p) ==
  /\ child[p] = "running"
  /\ child' = [child EXCEPT ![p] = "zombie"]
  /\ UNCHANGED <<bg_jobs, i, fg, pc>>

Next ==
  \/ Cleanup \/ NothingToStart \/ Exit \/ WaitForeground
  \/ \E p \in Pids : \/ RunForeground(p) \/ TrackBackground(p)
                     \/ LeaveBackground(p) \/ ChildExits(p)

Spec == Init /\ [][Next]_vars

\* The shell's own steps: nobody needs to type a line or end a child.
FairSpec == Spec /\ WF_vars(Cleanup) /\ WF_vars(WaitForeground)

-----------------------------------------------------------------------------
\* Every entry of the table is a child of its own that nobody has waited for:
\* its command is freed once, and its pid has not become another process's
\* (interpreter.c 41-48, 305-307).
JobsUnreaped ==
  /\ \A m, n \in 1..Len(bg_jobs) : bg_jobs[m] = bg_jobs[n] => m = n
  /\ \A p \in Jobs : child[p] # "none" /\ p # fg

\* A job stays in the table until the shell has waited for it, whichever
\* others are removed before it (interpreter.c 41-48).
JobsKept == [][\A p \in Jobs : p \in Jobs' \/ child'[p] = "none"]_vars

\* A job that has ended when a cleanup begins is reaped by it, without any
\* further input (interpreter.c 37-50).
ReapedByPass ==
  \A p \in Pids :
    (pc = "cleanup" /\ i = 1 /\ child[p] = "zombie" /\ p \in Jobs)
      ~> child[p] = "none"

\* "The shell stays responsive": whatever the background jobs do, the prompt
\* follows a command at once, or after its own foreground child.
Responsive ==
  (pc = "cleanup" \/ (pc = "wait" /\ child[fg] = "zombie")) ~> pc = "prompt"
=============================================================================
