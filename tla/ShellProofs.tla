---------------------------- MODULE ShellProofs ----------------------------
(***************************************************************************)
(* Proofs about Shell for any process ids and any size of the job table:   *)
(* its types, that every entry is a child nobody has waited for, and that  *)
(* no job is lost from the table; and about CommandParser for any line:    *)
(* what get_command makes of it is what the grammar says.                  *)
(***************************************************************************)
EXTENDS Shell, CommandParser, TLAPS

ShellInv == TypeOK /\ JobsUnreaped

-----------------------------------------------------------------------------
\* Removing entry n puts the last entry in its place and leaves the rest where
\* they are (interpreter.c 47).  So when no pid is entered twice, exactly the
\* pid of entry n leaves the table, and none is entered twice afterwards.
LEMMA RemovalTakesOne ==
  ASSUME TypeOK, JobsUnreaped, NEW n \in 1..Len(bg_jobs), bg_jobs' = WithoutJob(n)
  PROVE  /\ bg_jobs' \in Seq(Pids) /\ Len(bg_jobs') = Len(bg_jobs) - 1
         /\ Jobs' = Jobs \ {bg_jobs[n]}
         /\ \A k, m \in 1..Len(bg_jobs') : bg_jobs'[k] = bg_jobs'[m] => k = m
<1> DEFINE l == Len(bg_jobs)
           kept == KeepsLast(n)
<1>1. bg_jobs \in Seq(Pids) /\ l \in Nat /\ n \in 1..l /\ bg_jobs[l] \in Pids
  BY DEF TypeOK
<1>2. \A k, m \in 1..l : bg_jobs[k] = bg_jobs[m] => k = m
  BY DEF JobsUnreaped
<1>3. /\ kept \in Seq(Pids) /\ Len(kept) = l
      /\ \A k \in 1..l : kept[k] = IF k = n THEN bg_jobs[l] ELSE bg_jobs[k]
  BY <1>1 DEF KeepsLast
<1>4. bg_jobs' = SubSeq(kept, 1, l - 1)
  BY DEF WithoutJob
<1> HIDE DEF kept, l
<1>5. /\ bg_jobs' \in Seq(Pids) /\ Len(bg_jobs') = l - 1
      /\ \A k \in 1..(l - 1) :
           bg_jobs'[k] = IF k = n THEN bg_jobs[l] ELSE bg_jobs[k]
  BY <1>1, <1>3, <1>4
<1>6. /\ Jobs = {bg_jobs[k] : k \in 1..l}
      /\ Jobs' = {bg_jobs'[k] : k \in 1..(l - 1)}
  <2>1. DOMAIN bg_jobs = 1..l /\ DOMAIN bg_jobs' = 1..(l - 1)
    BY <1>1, <1>5 DEF l
  <2>2. QED
    BY <2>1 DEF Jobs, ToSet
<1>7. \A k \in 1..(l - 1) : bg_jobs'[k] \in Jobs \ {bg_jobs[n]}
  BY <1>1, <1>2, <1>5, <1>6
<1>8. ASSUME NEW k \in 1..l, k # n
      PROVE  bg_jobs[k] \in Jobs'
  <2>1. CASE k = l
    BY <1>1, <1>5, <1>6, <1>8, <2>1
  <2>2. CASE k # l
    BY <1>1, <1>5, <1>6, <1>8, <2>2
  <2>3. QED
    BY <2>1, <2>2
<1>9. Jobs' = Jobs \ {bg_jobs[n]}
  BY <1>6, <1>7, <1>8
<1>10. \A k, m \in 1..(l - 1) : bg_jobs'[k] = bg_jobs'[m] => k = m
  BY <1>1, <1>2, <1>5
<1>11. QED
  BY <1>5, <1>9, <1>10 DEF l

\* A child entered at the end joins the others (interpreter.c 303-314).
LEMMA AppendAddsOne ==
  ASSUME bg_jobs \in Seq(Pids), NEW p \in Pids, bg_jobs' = Append(bg_jobs, p)
  PROVE  /\ bg_jobs' \in Seq(Pids) /\ Len(bg_jobs') = Len(bg_jobs) + 1
         /\ \A k \in 1..Len(bg_jobs) : bg_jobs'[k] = bg_jobs[k]
         /\ bg_jobs'[Len(bg_jobs) + 1] = p
         /\ Jobs' = Jobs \cup {p}
<1>1. /\ bg_jobs' \in Seq(Pids) /\ Len(bg_jobs') = Len(bg_jobs) + 1
      /\ \A k \in 1..Len(bg_jobs) : bg_jobs'[k] = bg_jobs[k]
      /\ bg_jobs'[Len(bg_jobs) + 1] = p
  OBVIOUS
<1>2. /\ Jobs = {bg_jobs[k] : k \in 1..Len(bg_jobs)}
      /\ Jobs' = {bg_jobs'[k] : k \in 1..(Len(bg_jobs) + 1)}
  BY <1>1 DEF Jobs, ToSet
<1>3. Jobs' = Jobs \cup {p}
  BY <1>1, <1>2
<1>4. QED
  BY <1>1, <1>3

-----------------------------------------------------------------------------
\* Types are preserved: the table never outgrows MaxJobs, and the loop
\* variable of the cleanup stays within it although entries go.
LEMMA TypeStep == ShellInv /\ [Next]_vars => TypeOK'
<1> SUFFICES ASSUME TypeOK, JobsUnreaped, [Next]_vars PROVE TypeOK'
  BY DEF ShellInv
<1> USE DEF TypeOK
<1>0. CASE UNCHANGED vars
  BY <1>0 DEF vars
<1>1. CASE ReapJob
  <2>1. i \in 1..Len(bg_jobs)
    BY <1>1 DEF ReapJob
  <2>2. bg_jobs' \in Seq(Pids) /\ Len(bg_jobs') = Len(bg_jobs) - 1
    BY <1>1, <2>1, RemovalTakesOne DEF ReapJob
  <2>3. i' \in 1..(Len(bg_jobs') + 1)
    BY <1>1, <2>1, <2>2 DEF ReapJob, AfterRemoval
  <2>4. Len(bg_jobs') <= MaxJobs
    BY <2>2, ShellAssumption
  <2>5. QED
    BY <1>1, <2>2, <2>3, <2>4 DEF ReapJob
<1>2. CASE PassJob
  BY <1>2 DEF PassJob
<1>3. CASE EndCleanup
  BY <1>3 DEF EndCleanup
<1>4. CASE NothingToStart
  BY <1>4 DEF NothingToStart, NextCommand
<1>5. CASE Exit
  BY <1>5 DEF Exit
<1>6. CASE WaitForeground
  BY <1>6 DEF WaitForeground, NextCommand
<1>7. ASSUME NEW p \in Pids, RunForeground(p) PROVE TypeOK'
  BY <1>7, ShellAssumption DEF RunForeground, Forks
<1>8. ASSUME NEW p \in Pids, TrackBackground(p) PROVE TypeOK'
  <2>1. bg_jobs' \in Seq(Pids) /\ Len(bg_jobs') = Len(bg_jobs) + 1
    BY <1>8, AppendAddsOne DEF TrackBackground
  <2>2. Len(bg_jobs') <= MaxJobs
    BY <1>8, <2>1, ShellAssumption DEF TrackBackground, HasRoom
  <2>3. QED
    BY <1>8, <2>1, <2>2 DEF TrackBackground, Forks, NextCommand
<1>9. ASSUME NEW p \in Pids, LeaveBackground(p) PROVE TypeOK'
  BY <1>9 DEF LeaveBackground, Forks, NextCommand
<1>10. ASSUME NEW p \in Pids, ChildExits(p) PROVE TypeOK'
  BY <1>10 DEF ChildExits
<1>11. QED
  BY <1>0, <1>1, <1>2, <1>3, <1>4, <1>5, <1>6, <1>7, <1>8, <1>9, <1>10
     DEF Next, Cleanup

\* The entries stay distinct, unreaped and apart from the foreground child:
\* a reaped entry is taken out at once, and fork only hands out free pids.
LEMMA UnreapedStep == ShellInv /\ [Next]_vars => JobsUnreaped'
<1> SUFFICES ASSUME TypeOK, JobsUnreaped, [Next]_vars PROVE JobsUnreaped'
  BY DEF ShellInv
<1>a. /\ Jobs \subseteq Pids /\ \A n \in 1..Len(bg_jobs) : bg_jobs[n] \in Jobs
      /\ child \in [Pids -> {"none", "running", "zombie"}]
  BY DEF TypeOK, Jobs, ToSet
<1>b. /\ \A m, n \in 1..Len(bg_jobs) : bg_jobs[m] = bg_jobs[n] => m = n
      /\ \A p \in Jobs : child[p] # "none" /\ p # fg
  BY DEF JobsUnreaped
\* With the table as it was, only its children's states matter.
<1>c. ASSUME UNCHANGED bg_jobs, \A p \in Jobs : child'[p] # "none" /\ p # fg'
      PROVE  JobsUnreaped'
  <2>1. Jobs' = Jobs
    BY <1>c DEF Jobs
  <2>2. QED
    BY <1>b, <1>c, <2>1 DEF JobsUnreaped
<1>0. CASE UNCHANGED vars
  BY <1>0, <1>b, <1>c DEF vars
<1>1. CASE ReapJob
  <2>1. i \in 1..Len(bg_jobs)
    BY <1>1 DEF ReapJob, TypeOK
  <2>2. /\ Jobs' = Jobs \ {bg_jobs[i]}
        /\ \A k, m \in 1..Len(bg_jobs') : bg_jobs'[k] = bg_jobs'[m] => k = m
    BY <1>1, <2>1, RemovalTakesOne DEF ReapJob
  <2>3. \A p \in Jobs' : child'[p] # "none" /\ p # fg'
    BY <1>1, <1>a, <1>b, <2>2 DEF ReapJob
  <2>4. QED
    BY <2>2, <2>3 DEF JobsUnreaped
<1>2. CASE PassJob
  BY <1>2, <1>b, <1>c DEF PassJob
<1>3. CASE EndCleanup
  BY <1>3, <1>b, <1>c DEF EndCleanup
<1>4. CASE NothingToStart
  BY <1>4, <1>b, <1>c DEF NothingToStart
<1>5. CASE Exit
  BY <1>5, <1>b, <1>c DEF Exit
<1>6. CASE WaitForeground
  <2>1. \A p \in Jobs : child'[p] # "none" /\ p # fg'
    BY <1>6, <1>a, <1>b, ShellAssumption DEF WaitForeground
  <2>2. QED
    BY <1>6, <2>1, <1>c DEF WaitForeground
<1>7. ASSUME NEW p \in Pids, RunForeground(p) PROVE JobsUnreaped'
  <2>1. \A q \in Jobs : child'[q] # "none" /\ q # fg'
    BY <1>7, <1>a, <1>b DEF RunForeground, Forks
  <2>2. QED
    BY <1>7, <2>1, <1>c DEF RunForeground
<1>8. ASSUME NEW p \in Pids, TrackBackground(p) PROVE JobsUnreaped'
  <2>1. /\ bg_jobs \in Seq(Pids) /\ bg_jobs' = Append(bg_jobs, p)
        /\ fg = None /\ fg' = None
    BY <1>8 DEF TrackBackground, TypeOK
  <2>2. /\ Len(bg_jobs') = Len(bg_jobs) + 1
        /\ \A k \in 1..Len(bg_jobs) : bg_jobs'[k] = bg_jobs[k]
        /\ bg_jobs'[Len(bg_jobs) + 1] = p
        /\ Jobs' = Jobs \cup {p}
    BY <2>1, AppendAddsOne
  <2>3. \A k \in 1..Len(bg_jobs) : bg_jobs[k] # p
    BY <1>8, <1>a, <1>b, <2>1 DEF TrackBackground, Forks
  <2>4. \A q \in Jobs' : child'[q] # "none" /\ q # fg'
    BY <1>8, <1>a, <1>b, <2>1, <2>2, ShellAssumption
       DEF TrackBackground, Forks
  <2>5. \A k, m \in 1..Len(bg_jobs') : bg_jobs'[k] = bg_jobs'[m] => k = m
    BY <1>b, <2>1, <2>2, <2>3
  <2>6. QED
    BY <2>4, <2>5 DEF JobsUnreaped
<1>9. ASSUME NEW p \in Pids, LeaveBackground(p) PROVE JobsUnreaped'
  BY <1>9, <1>a, <1>b, <1>c DEF LeaveBackground, Forks
<1>10. ASSUME NEW p \in Pids, ChildExits(p) PROVE JobsUnreaped'
  BY <1>10, <1>a, <1>b, <1>c DEF ChildExits
<1>11. QED
  BY <1>0, <1>1, <1>2, <1>3, <1>4, <1>5, <1>6, <1>7, <1>8, <1>9, <1>10
     DEF Next, Cleanup

-----------------------------------------------------------------------------
\* In every reachable state the variables have their types and every entry of
\* the table is a distinct child that nobody has waited for, so its command
\* is freed once and its pid still names it (interpreter.c 41-48, 305-307).
THEOREM EntriesUnreaped == Spec => [](TypeOK /\ JobsUnreaped)
<1>1. Init => ShellInv
  <2> SUFFICES ASSUME Init PROVE ShellInv
    OBVIOUS
  <2>1. bg_jobs = <<>> /\ Jobs = {}
    BY DEF Init, Jobs, ToSet
  <2>2. TypeOK
    BY <2>1, ShellAssumption DEF Init, TypeOK
  <2>3. QED
    BY <2>1, <2>2 DEF ShellInv, JobsUnreaped
<1>2. ShellInv /\ [Next]_vars => ShellInv'
  BY TypeStep, UnreapedStep DEF ShellInv
<1>3. QED
  BY <1>1, <1>2, PTL DEF Spec, ShellInv

\* The table never outgrows MAX_BG_JOBS, the loop of the cleanup stays within it,
\* and the shell waits for a child exactly while it runs one in the foreground
\* (interpreter.c 34-56, 296-320).
THEOREM TypeCorrect == Spec => []TypeOK
BY EntriesUnreaped, PTL

\* A job stays in the table until the shell has waited for it, whichever
\* others are removed before it (interpreter.c 41-48).
THEOREM NoJobLost == Spec => JobsKept
<1>1. TypeOK /\ JobsUnreaped /\ [Next]_vars
        => [\A p \in Jobs : p \in Jobs' \/ child'[p] = "none"]_vars
  <2> SUFFICES ASSUME TypeOK, JobsUnreaped, [Next]_vars, NEW p \in Jobs
               PROVE  p \in Jobs' \/ child'[p] = "none"
    OBVIOUS
  <2>1. CASE UNCHANGED bg_jobs
    BY <2>1 DEF Jobs
  <2>2. CASE ReapJob
    <3>1. i \in 1..Len(bg_jobs)
      BY <2>2 DEF ReapJob, TypeOK
    <3>2. Jobs' = Jobs \ {bg_jobs[i]}
      BY <2>2, <3>1, RemovalTakesOne DEF ReapJob
    <3>3. child'[bg_jobs[i]] = "none"
      BY <2>2, <3>1 DEF ReapJob, TypeOK
    <3>4. QED
      BY <3>2, <3>3
  <2>3. ASSUME NEW q \in Pids, TrackBackground(q)
        PROVE  p \in Jobs'
    BY <2>3, AppendAddsOne DEF TrackBackground, TypeOK
  <2>4. QED
    BY <2>1, <2>2, <2>3
       DEF Next, Cleanup, vars, PassJob, EndCleanup, NothingToStart, Exit,
           WaitForeground, RunForeground, LeaveBackground, ChildExits
<1>2. QED
  BY EntriesUnreaped, <1>1, PTL DEF Spec, JobsKept

-----------------------------------------------------------------------------
\* get_command, which turns a line of the shell into the command it runs.
Tokens == Words \cup special_symbols
Redirects(k, ops) == k \in ops /\ tokens[k] \in Redirections
AtMostOneOf(ops, S) == \A a, b \in ops : tokens[a] \in S /\ tokens[b] \in S => a = b

\* The tokens in front of the next one, read as words up to cut and operators
\* at the positions ops, of which none still lacks its file.
ReadAs(cut, ops) ==
  /\ \A k \in 1..cut : tokens[k] \in Words
  /\ \A k \in ops : tokens[k] \in special_symbols
  /\ \A k \in (cut + 1)..(j - 1) : k \in ops <=> ~Redirects(k - 1, ops)
  /\ ~Redirects(j - 1, ops)
  /\ AtMostOneOf(ops, {InputSymbol})
  /\ AtMostOneOf(ops, {OutputSymbol, AppendSymbol})

IsReading(cut, ops) ==
  /\ cut \in 0..Len(tokens) /\ ops \in SUBSET ((cut + 1)..Len(tokens))
  /\ Takes(cut, ops)

\* Whoever reads the whole line agrees with what has been read.
OnlyReadAs(cut, ops) ==
  \A c, o : IsReading(c, o) => c = cut /\ \A k \in 1..(j - 1) : k \in o <=> k \in ops

ParserTypes ==
  /\ tokens \in Seq(Tokens)
  /\ j \in 1..(Len(tokens) + 1)
  /\ state \in {"args", "options", "returned", "rejected"}

\* While the line is read the command is what the tokens so far denote, in the
\* only way there is to read them.
ReadingArguments ==
  \E cut \in 0..(j - 1) :
    /\ cut = j - 1 /\ command = Denotes(cut, {})
    /\ \A k \in 1..cut : tokens[k] \in Words
    /\ Len(tokens) > MaxTokens => cut = 0
ReadingOptions ==
  \E cut \in 0..(j - 1) : \E ops \in SUBSET ((cut + 1)..(j - 1)) :
    ReadAs(cut, ops) /\ OnlyReadAs(cut, ops) /\ command = Denotes(cut, ops)

ParserInv ==
  /\ ParserTypes
  /\ state = "args" => ReadingArguments
  /\ state = "options" => ReadingOptions
  /\ state = "returned" => \E c, o : IsReading(c, o) /\ command = Denotes(c, o)
  /\ state = "rejected" =>
       command = NoCommand /\ (Len(tokens) > MaxTokens \/ ~\E c, o : IsReading(c, o))

\* What a reading is, operator by operator.
LEMMA ReadingRules ==
  ASSUME ParserTypes, NEW c, NEW o
  PROVE  IsReading(c, o) <=>
           /\ c \in 0..Len(tokens) /\ o \in SUBSET ((c + 1)..Len(tokens))
           /\ \A k \in 1..c : tokens[k] \in Words
           /\ \A k \in o : tokens[k] \in special_symbols
           /\ \A k \in (c + 1)..Len(tokens) : k \in o <=> ~Redirects(k - 1, o)
           /\ ~Redirects(Len(tokens), o)
           /\ AtMostOneOf(o, {InputSymbol})
           /\ AtMostOneOf(o, {OutputSymbol, AppendSymbol})
<1> DEFINE with(S) == {k \in o : tokens[k] \in S}
<1>1. Takes(c, o) <=>
        /\ \A k \in 1..c : tokens[k] \in Words
        /\ \A k \in o : tokens[k] \in special_symbols
        /\ \A k \in (c + 1)..Len(tokens) : k \in o <=> (k - 1) \notin with(Redirections)
        /\ Len(tokens) \notin with(Redirections)
        /\ AtMostOne(with({InputSymbol}))
        /\ AtMostOne(with({OutputSymbol, AppendSymbol}))
  BY DEF Takes
<1>2. \A k : k \in with(Redirections) <=> Redirects(k, o)
  BY DEF Redirects
<1>3. \A S : AtMostOne(with(S)) <=> AtMostOneOf(o, S)
  BY DEF AtMostOne, AtMostOneOf
<1> HIDE DEF with
<1>4. QED
  BY <1>1, <1>2, <1>3 DEF IsReading

\* The next token, if there is one, is an operator in every reading.
LEMMA OperatorIsNext ==
  ASSUME ParserTypes, NEW cut \in 0..(j - 1), NEW ops \in SUBSET ((cut + 1)..(j - 1)),
         ReadAs(cut, ops), OnlyReadAs(cut, ops), j <= Len(tokens),
         NEW c, NEW o, IsReading(c, o)
  PROVE  /\ c = cut /\ j \in o /\ ops \in SUBSET o
         /\ tokens[j] \in special_symbols
         /\ tokens[j] \in Redirections => j < Len(tokens) /\ j + 1 \notin o
<1>1. /\ c \in 0..Len(tokens) /\ o \in SUBSET ((c + 1)..Len(tokens))
      /\ \A k \in o : tokens[k] \in special_symbols
      /\ \A k \in (c + 1)..Len(tokens) : k \in o <=> ~Redirects(k - 1, o)
      /\ ~Redirects(Len(tokens), o)
  BY ReadingRules
<1>2. c = cut /\ \A k \in 1..(j - 1) : k \in o <=> k \in ops
  BY DEF OnlyReadAs
<1>3. j \in 1..Len(tokens) /\ Len(tokens) \in Nat
  BY DEF ParserTypes
<1>4. ~Redirects(j - 1, o)
  <2>1. ~Redirects(j - 1, ops)
    BY DEF ReadAs
  <2>2. CASE j = 1
    BY <1>1, <1>3, <2>2 DEF Redirects
  <2>3. CASE j # 1
    <3>1. j - 1 \in 1..(j - 1)
      BY <1>3, <2>3
    <3>2. QED
      BY <1>2, <2>1, <3>1 DEF Redirects
  <2>4. QED
    BY <2>2, <2>3
<1>5. j \in (c + 1)..Len(tokens)
  BY <1>2, <1>3
<1>6. j \in o
  BY <1>1, <1>4, <1>5
<1>7. ASSUME tokens[j] \in Redirections
      PROVE  j < Len(tokens) /\ j + 1 \notin o
  <2>1. Redirects(j, o)
    BY <1>6, <1>7 DEF Redirects
  <2>2. j < Len(tokens)
    BY <1>1, <1>3, <2>1
  <2>3. j + 1 \in (c + 1)..Len(tokens) /\ (j + 1) - 1 = j
    BY <1>1, <1>3, <1>5, <2>2
  <2>4. QED
    BY <1>1, <2>1, <2>2, <2>3
<1>8. ops \in SUBSET o
  BY <1>2, <1>3
<1>9. QED
  BY <1>1, <1>2, <1>6, <1>7, <1>8

\* A file is known of the operators read when one of them asked for it: its
\* token is there and is not NoFile.
LEMMA FileKnown ==
  ASSUME ParserTypes,
         NEW cut \in 0..(j - 1), NEW ops \in SUBSET ((cut + 1)..(j - 1)),
         ReadAs(cut, ops), NEW S \in SUBSET Redirections
  PROVE  FileOf(ops, S) = NoFile <=> \A k \in ops : tokens[k] \notin S
<1> DEFINE asked == {n \in ops : tokens[n] \in S}
<1>1. FileOf(ops, S) = IF asked = {} THEN NoFile ELSE tokens[(CHOOSE n \in asked : TRUE) + 1]
  BY DEF FileOf
<1>2. ASSUME NEW n \in asked PROVE tokens[n + 1] # NoFile
  <2>1. n \in 1..(j - 1) /\ j \in 1..(Len(tokens) + 1) /\ Len(tokens) \in Nat
    BY DEF ParserTypes
  <2>2. n # j - 1
    BY DEF ReadAs, Redirects
  <2>3. n + 1 \in 1..Len(tokens)
    BY <2>1, <2>2
  <2>4. tokens[n + 1] \in Tokens
    BY <2>3 DEF ParserTypes
  <2>5. QED
    BY <2>4, ParserAssumption DEF Tokens
<1>3. asked # {} => (CHOOSE n \in asked : TRUE) \in asked
  OBVIOUS
<1>4. QED
  BY <1>1, <1>2, <1>3

\* The first redirection of its kind brings the file behind it, any other
\* operator leaves the file as it is.
LEMMA FileTaken ==
  ASSUME NEW ops, NEW S, NEW k
  PROVE  /\ tokens[k] \in S /\ (\A n \in ops : tokens[n] \notin S)
              => FileOf(ops \cup {k}, S) = tokens[k + 1]
         /\ tokens[k] \notin S => FileOf(ops \cup {k}, S) = FileOf(ops, S)
<1> DEFINE asked(o) == {n \in o : tokens[n] \in S}
<1>1. \A o : FileOf(o, S) =
               IF asked(o) = {} THEN NoFile ELSE tokens[(CHOOSE n \in asked(o) : TRUE) + 1]
  BY DEF FileOf
<1>2. ASSUME tokens[k] \in S, \A n \in ops : tokens[n] \notin S
      PROVE  FileOf(ops \cup {k}, S) = tokens[k + 1]
  <2>1. asked(ops \cup {k}) = {k}
    BY <1>2
  <2>2. (CHOOSE n \in {k} : TRUE) = k
    OBVIOUS
  <2>3. QED
    BY <1>1, <2>1, <2>2
<1>3. ASSUME tokens[k] \notin S
      PROVE  FileOf(ops \cup {k}, S) = FileOf(ops, S)
  <2>1. asked(ops \cup {k}) = asked(ops)
    BY <1>3
  <2> HIDE DEF asked
  <2>2. QED
    BY <1>1, <2>1
<1>4. QED
  BY <1>2, <1>3

\* No operator read so far is of the kind S if the next token is.
NoneLikeIt(ops, S) == tokens[j] \in S => \A k \in ops : tokens[k] \notin S

\* A position from the operators on that is behind the next token.
LEMMA Between ==
  \A n, m \in Int : \A c \in 0..(n - 1) : \A k \in (c + 1)..(m - 1) :
    k > n => k \in 1..(m - 1) /\ ~(k < n) /\ k # n
OBVIOUS

\* The scan goes on behind the operator and its file.
StepsOver ==
  IF tokens[j] \in Redirections THEN j < Len(tokens) /\ j' = j + 2
                                       ELSE j' = j + 1

\* An operator is read, with its file if it takes one: what stands in front of
\* the next token is still read in the only possible way.
LEMMA OperatorRead ==
  ASSUME ParserTypes, NEW cut \in 0..(j - 1), NEW ops \in SUBSET ((cut + 1)..(j - 1)),
         ReadAs(cut, ops), OnlyReadAs(cut, ops), tokens' = tokens, j <= Len(tokens),
         tokens[j] \in special_symbols,
         StepsOver,
         NoneLikeIt(ops, {InputSymbol}),
         NoneLikeIt(ops, {OutputSymbol, AppendSymbol}),
         NEW more, more = ops \cup {j}
  PROVE  /\ j' \in 1..(Len(tokens) + 1)
         /\ ReadAs(cut, more)' /\ OnlyReadAs(cut, more)'
<1>1. /\ j \in 1..Len(tokens) /\ Len(tokens) \in Nat /\ j' \in 1..(Len(tokens) + 1)
      /\ j < j' /\ (j' = j + 1 \/ j' = j + 2)
  BY DEF ParserTypes, StepsOver
<1>2. \A k : k \in ops => k < j
  BY <1>1
<1>3. \A k : Redirects(k, more)' <=> Redirects(k, more)
  BY DEF Redirects
<1>4. \A k \in 0..(j - 1) : Redirects(k, more) <=> Redirects(k, ops)
  BY <1>1, <1>2 DEF Redirects
<1>5. \A k \in 1..(j' - 1) : k < j \/ k = j \/ (k = j + 1 /\ tokens[j] \in Redirections)
  <2>1. CASE tokens[j] \in Redirections
    BY <1>1, <2>1 DEF StepsOver
  <2>2. CASE tokens[j] \notin Redirections
    BY <1>1, <2>2 DEF StepsOver
  <2>3. QED
    BY <2>1, <2>2
<1>6. ReadAs(cut, more)'
  <2>1. \A k \in 1..cut : tokens[k] \in Words
    BY DEF ReadAs
  <2>2. \A k \in more : tokens[k] \in special_symbols
    BY DEF ReadAs
  <2>3. ASSUME NEW k \in (cut + 1)..(j' - 1)
        PROVE  k \in more <=> ~Redirects(k - 1, more)
    <3>1. CASE k < j
      <4>1. k \in ops <=> ~Redirects(k - 1, ops)
        BY <3>1, <1>1 DEF ReadAs
      <4>2. k \in more <=> k \in ops
        BY <3>1, <1>1
      <4>3. k - 1 \in 0..(j - 1)
        BY <3>1, <1>1
      <4>4. Redirects(k - 1, more) <=> Redirects(k - 1, ops)
        BY <1>4, <4>3
      <4>5. QED
        BY <4>1, <4>2, <4>4
    <3>2. CASE k = j
      <4>1. ~Redirects(j - 1, ops)
        BY DEF ReadAs
      <4>2. ~Redirects(j - 1, more)
        BY <4>1, <1>1 DEF Redirects
      <4>3. QED
        BY <3>2, <4>2
    <3>3. CASE k > j
      <4>1. k = j + 1 /\ tokens[j] \in Redirections
        <5>1. j \in Int /\ j' \in Int
          BY <1>1
        <5>2. k \in 1..(j' - 1) /\ ~(k < j) /\ k # j
          BY <3>3, <5>1, Between
        <5>3. QED
          BY <1>5, <5>2
      <4>2. Redirects(k - 1, more)
        BY <4>1, <1>1 DEF Redirects
      <4>3. k \notin more
        BY <1>1, <1>2, <4>1
      <4>4. QED
        BY <4>2, <4>3
    <3>4. QED
      BY <3>1, <3>2, <3>3, <1>1
  <2>4. ~Redirects(j' - 1, more)
    <3>1. CASE tokens[j] \in Redirections
      BY <3>1, <1>1, <1>2 DEF Redirects, StepsOver
    <3>2. CASE tokens[j] \notin Redirections
      BY <3>2, <1>1, <1>2 DEF Redirects, StepsOver
    <3>3. QED
      BY <3>1, <3>2
  <2>5. ASSUME NEW S, NoneLikeIt(ops, S), AtMostOneOf(ops, S)
        PROVE  AtMostOneOf(more, S)
    BY <2>5 DEF AtMostOneOf, NoneLikeIt
  <2>6. /\ AtMostOneOf(more, {InputSymbol})'
        /\ AtMostOneOf(more, {OutputSymbol, AppendSymbol})'
    <3>1. /\ AtMostOneOf(ops, {InputSymbol})
          /\ AtMostOneOf(ops, {OutputSymbol, AppendSymbol})
      BY DEF ReadAs
    <3>2. /\ AtMostOneOf(more, {InputSymbol})
          /\ AtMostOneOf(more, {OutputSymbol, AppendSymbol})
      BY <2>5, <3>1
    <3>3. QED
      BY <3>2 DEF AtMostOneOf, InputSymbol, OutputSymbol, AppendSymbol
  <2>7. QED
    BY <1>3, <2>1, <2>2, <2>3, <2>4, <2>6 DEF ReadAs
<1>7. OnlyReadAs(cut, more)'
  <2>1. ASSUME NEW c, NEW o, IsReading(c, o)
        PROVE  c = cut /\ \A k \in 1..(j' - 1) : k \in o <=> k \in more
    <3>1. c = cut /\ \A k \in 1..(j - 1) : k \in o <=> k \in ops
      BY <2>1 DEF OnlyReadAs
    <3>2. j \in o
      BY <2>1, OperatorIsNext
    <3>3. tokens[j] \in Redirections => j + 1 \notin o
      BY <2>1, OperatorIsNext
    <3>4. ASSUME NEW k \in 1..(j' - 1) PROVE k \in o <=> k \in more
      <4>1. k < j \/ k = j \/ (k = j + 1 /\ tokens[j] \in Redirections)
        BY <1>5
      <4>2. k = j + 1 => k \notin more
        BY <1>1, <1>2
      <4>3. k < j => (k \in o <=> k \in more)
        BY <1>1, <3>1
      <4>4. QED
        BY <3>2, <3>3, <4>1, <4>2, <4>3
    <3>5. QED
      BY <3>1, <3>4
  <2>2. ASSUME NEW c, NEW o, IsReading(c, o)' PROVE IsReading(c, o)
    BY <2>2 DEF IsReading, Takes
  <2>3. QED
    BY <2>1, <2>2 DEF OnlyReadAs
<1>8. QED
  BY <1>1, <1>6, <1>7

\* All this depends on the tokens alone, and on the place of the next one.
LEMMA SameTokens ==
  ASSUME tokens' = tokens
  PROVE  \A c, o : /\ Denotes(c, o)' = Denotes(c, o)
                   /\ IsReading(c, o)' <=> IsReading(c, o)
                   /\ j' = j => /\ ReadAs(c, o)' <=> ReadAs(c, o)
                                /\ OnlyReadAs(c, o)' <=> OnlyReadAs(c, o)
<1> TAKE c, o
<1>1. Denotes(c, o)' = Denotes(c, o)
  BY DEF Denotes, FileOf
<1>2. \A x, y : IsReading(x, y)' <=> IsReading(x, y)
  BY DEF IsReading, Takes
<1>3. j' = j => (ReadAs(c, o)' <=> ReadAs(c, o))
  BY DEF ReadAs, Redirects, AtMostOneOf
<1>4. j' = j => (OnlyReadAs(c, o)' <=> OnlyReadAs(c, o))
  BY <1>2 DEF OnlyReadAs
<1>5. QED
  BY <1>1, <1>2, <1>3, <1>4

\* Nothing is denoted by no token.
LEMMA NothingDenoted ==
  ASSUME tokens \in Seq(Tokens) PROVE Denotes(0, {}) = NoCommand
<1>1. \A S : FileOf({}, S) = NoFile
  BY DEF FileOf
<1>2. SubSeq(tokens, 1, 0) = << >>
  OBVIOUS
<1>3. QED
  BY <1>1, <1>2 DEF Denotes, NoCommand

\* A command that gets a file, and how that is opened.
CommandOf(words, input, output, appends, behind) ==
  [args |-> words, input_file |-> input, output_file |-> output,
   append |-> appends, background |-> behind]

\* One field of a command at a time: the file of its input,
LEMMA CommandWithInput ==
  ASSUME NEW words, NEW input, NEW output, NEW appends, NEW behind, NEW file
  PROVE  [CommandOf(words, input, output, appends, behind) EXCEPT !.input_file = file]
           = CommandOf(words, file, output, appends, behind)
BY DEF CommandOf

\* the file of its output,
LEMMA CommandWithOutput ==
  ASSUME NEW words, NEW input, NEW output, NEW appends, NEW behind, NEW file
  PROVE  [CommandOf(words, input, output, appends, behind) EXCEPT !.output_file = file]
           = CommandOf(words, input, file, appends, behind)
BY DEF CommandOf

\* and whether it appends to it.
LEMMA CommandWithAppend ==
  ASSUME NEW words, NEW input, NEW output, NEW appends, NEW behind, NEW how
  PROVE  [CommandOf(words, input, output, appends, behind) EXCEPT !.append = how]
           = CommandOf(words, input, output, how, behind)
BY DEF CommandOf

\* Nothing has been read, and nothing more than the empty reading fits it.
LEMMA ParserStarts == ParserInit => ParserInv
<1> SUFFICES ASSUME ParserInit PROVE ParserInv
  OBVIOUS
<1>1. PICK n \in 0..(MaxTokens + 1) : tokens \in [1..n -> Tokens]
  BY DEF ParserInit, Tokens
<1>2. n \in Nat
  BY <1>1, ParserAssumption
<1>3. tokens \in Seq(Tokens) /\ Len(tokens) \in Nat
  BY <1>1, <1>2
<1>4. j = 1 /\ state = "args" /\ command = NoCommand
  BY DEF ParserInit
<1>5. ParserTypes
  BY <1>3, <1>4 DEF ParserTypes
<1>6. command = Denotes(0, {})
  BY <1>3, <1>4, NothingDenoted
<1>7. ReadingArguments
  BY <1>4, <1>6 DEF ReadingArguments
<1>8. QED
  BY <1>4, <1>5, <1>7 DEF ParserInv

\* Each step of the two loops.
LEMMA ParserStep ==
  ASSUME ParserInv, [ParserNext]_parserVars
  PROVE  ParserInv'
<1>1. ParserTypes /\ Len(tokens) \in Nat
  BY DEF ParserInv, ParserTypes
<1>2. CASE UNCHANGED parserVars
  <2>1. tokens' = tokens /\ j' = j /\ command' = command /\ state' = state
    BY <1>2 DEF parserVars
  <2>2. (command = NoCommand)' <=> command = NoCommand
    BY <2>1 DEF NoCommand
  <2>3. ParserTypes' <=> ParserTypes
    BY <2>1 DEF ParserTypes
  <2>4. /\ ReadingArguments' <=> ReadingArguments
        /\ ReadingOptions' <=> ReadingOptions
    BY <2>1, SameTokens DEF ReadingArguments, ReadingOptions
  <2>5. QED
    BY <2>1, <2>2, <2>3, <2>4, SameTokens DEF ParserInv
<1>3. CASE TooManyArguments
  <2>1. /\ state = "args" /\ Len(tokens) > MaxTokens /\ state' = "rejected"
        /\ UNCHANGED <<tokens, j, command>>
    BY <1>3 DEF TooManyArguments
  <2>2. command = Denotes(0, {})
    BY <2>1 DEF ParserInv, ReadingArguments
  <2>3. command = NoCommand
    BY <1>1, <2>2, NothingDenoted DEF ParserTypes
  <2>4. ParserTypes'
    BY <1>1, <2>1 DEF ParserTypes
  <2>5. (command = NoCommand)'
    BY <2>1, <2>3 DEF NoCommand
  <2>6. QED
    BY <2>1, <2>4, <2>5 DEF ParserInv
<1>4. CASE TakeArgument
  <2>1. /\ state = "args" /\ j <= Len(tokens) /\ tokens[j] \notin special_symbols
        /\ command' = [command EXCEPT !.args = Append(@, tokens[j])]
        /\ j' = j + 1 /\ tokens' = tokens /\ state' = "args" /\ ~(Len(tokens) > MaxTokens)
    BY <1>4, <1>1, ParserAssumption DEF TakeArgument, More, IsArgument
  <2>2. PICK cut \in 0..(j - 1) :
          /\ cut = j - 1 /\ command = Denotes(cut, {})
          /\ \A k \in 1..cut : tokens[k] \in Words
    BY <2>1 DEF ParserInv, ReadingArguments
  <2>3. j \in 1..Len(tokens) /\ tokens \in Seq(Tokens)
    BY <1>1, <2>1 DEF ParserTypes
  <2>4. tokens[j] \in Words
    BY <2>1, <2>3 DEF Tokens
  <2>5. PICK n \in 1..Len(tokens) : n = j
    BY <2>3
  <2>6. \A k \in 1..n : tokens[k] \in Words
    BY <2>2, <2>3, <2>4, <2>5
  <2>7. SubSeq(tokens, 1, n) = Append(SubSeq(tokens, 1, cut), tokens[n])
    BY <2>2, <2>3, <2>5
  <2>8. command' = Denotes(n, {})
    BY <2>1, <2>2, <2>5, <2>7 DEF Denotes
  <2>9. command' = Denotes(n, {})'
    BY <2>1, <2>8, SameTokens
  <2>10. ParserTypes'
    BY <1>1, <2>1, <2>3 DEF ParserTypes
  <2>11. n \in 0..(j' - 1) /\ n = j' - 1
    BY <2>1, <2>3, <2>5
  <2>12. ReadingArguments'
    BY <2>1, <2>6, <2>9, <2>11 DEF ReadingArguments
  <2>13. QED
    BY <2>1, <2>10, <2>12 DEF ParserInv
<1>5. CASE EndArguments
  <2>1. /\ state = "args" /\ (j <= Len(tokens) => tokens[j] \in special_symbols)
        /\ state' = "options" /\ tokens' = tokens /\ j' = j /\ command' = command
    BY <1>5 DEF EndArguments, More, IsArgument
  <2>2. PICK cut \in 0..(j - 1) :
          /\ cut = j - 1 /\ command = Denotes(cut, {})
          /\ \A k \in 1..cut : tokens[k] \in Words
    BY <2>1 DEF ParserInv, ReadingArguments
  <2>3. j \in 1..(Len(tokens) + 1)
    BY <1>1 DEF ParserTypes
  <2>4. ReadAs(cut, {})
    BY <2>2, <2>3 DEF ReadAs, Redirects, AtMostOneOf
  <2>5. ASSUME NEW c, NEW o, IsReading(c, o)
        PROVE  c = j - 1 /\ \A k \in 1..(j - 1) : k \notin o
    <3>1. /\ c \in 0..Len(tokens) /\ o \in SUBSET ((c + 1)..Len(tokens))
          /\ \A k \in 1..c : tokens[k] \in Words
          /\ \A k \in o : tokens[k] \in special_symbols
          /\ \A k \in (c + 1)..Len(tokens) : k \in o <=> ~Redirects(k - 1, o)
      BY <1>1, <2>5, ReadingRules
    <3>2. ASSUME c < j - 1 PROVE FALSE
      <4>1. c + 1 \in (c + 1)..Len(tokens) /\ (c + 1) - 1 = c /\ c + 1 \in 1..(j - 1)
        BY <1>1, <2>3, <3>1, <3>2
      <4>2. c \notin o
        BY <3>1
      <4>3. c + 1 \in o
        BY <3>1, <4>1, <4>2 DEF Redirects
      <4>4. QED
        BY <2>2, <3>1, <4>1, <4>3, ParserAssumption
    <3>3. ASSUME c > j - 1 PROVE FALSE
      <4>1. j \in 1..c /\ j <= Len(tokens)
        BY <1>1, <2>3, <3>1, <3>3
      <4>2. QED
        BY <2>1, <3>1, <4>1, ParserAssumption
    <3>4. c = j - 1
      BY <2>3, <3>1, <3>2, <3>3
    <3>5. QED
      BY <2>3, <3>1, <3>4
  <2>6. OnlyReadAs(cut, {})
    BY <2>2, <2>5 DEF OnlyReadAs
  <2>7. /\ ReadAs(cut, {})' /\ OnlyReadAs(cut, {})' /\ command' = Denotes(cut, {})'
    BY <2>1, <2>2, <2>4, <2>6, SameTokens
  <2>8. ReadingOptions'
    <3>1. cut \in 0..(j' - 1) /\ {} \in SUBSET ((cut + 1)..(j' - 1))
      BY <2>1
    <3>2. QED
      BY <2>7, <3>1 DEF ReadingOptions
  <2>9. ParserTypes'
    BY <1>1, <2>1 DEF ParserTypes
  <2>10. QED
    BY <2>1, <2>8, <2>9 DEF ParserInv
<1>6. CASE TakeRedirection
  <2>1. /\ state = "options" /\ j < Len(tokens) /\ tokens[j] \in Redirections
        /\ IF tokens[j] = InputSymbol THEN command.input_file = NoFile
                                             ELSE command.output_file = NoFile
        /\ command' =
             IF tokens[j] = InputSymbol
               THEN [command EXCEPT !.input_file = tokens[j + 1]]
               ELSE [command EXCEPT !.output_file = tokens[j + 1],
                                    !.append = tokens[j] = AppendSymbol]
        /\ j' = j + 2 /\ tokens' = tokens /\ state' = state
    BY <1>6 DEF TakeRedirection, MayRedirect, HasFile
  <2>2. PICK cut, ops :
          /\ cut \in 0..(j - 1) /\ ops \in SUBSET ((cut + 1)..(j - 1))
          /\ ReadAs(cut, ops) /\ OnlyReadAs(cut, ops) /\ command = Denotes(cut, ops)
    BY <2>1 DEF ParserInv, ReadingOptions
  <2> DEFINE input == {InputSymbol}
             output == {OutputSymbol, AppendSymbol}
  <2>3. /\ input \in SUBSET Redirections /\ output \in SUBSET Redirections
        /\ tokens[j] \in special_symbols
        /\ tokens[j] \in input <=> tokens[j] = InputSymbol
        /\ tokens[j] \in output <=> tokens[j] # InputSymbol
        /\ tokens[j] # BackgroundSymbol
    BY <2>1 DEF Redirections, special_symbols, InputSymbol,
                OutputSymbol, AppendSymbol, BackgroundSymbol
  <2>4. /\ command.input_file = FileOf(ops, input)
        /\ command.output_file = FileOf(ops, output)
    BY <2>2 DEF Denotes
  <2>5. /\ tokens[j] \in input => \A k \in ops : tokens[k] \notin input
        /\ tokens[j] \in output => \A k \in ops : tokens[k] \notin output
    <3>1. /\ FileOf(ops, input) = NoFile => \A k \in ops : tokens[k] \notin input
          /\ FileOf(ops, output) = NoFile => \A k \in ops : tokens[k] \notin output
      BY <1>1, <2>2, <2>3, FileKnown
    <3>2. QED
      BY <2>1, <2>3, <2>4, <3>1
  <2>6. PICK more : more = ops \cup {j}
    OBVIOUS
  <2>7. j' \in 1..(Len(tokens) + 1) /\ ReadAs(cut, more)' /\ OnlyReadAs(cut, more)'
    <3>1. NoneLikeIt(ops, input) /\ NoneLikeIt(ops, output) /\ StepsOver /\ j <= Len(tokens)
      BY <1>1, <2>1, <2>5 DEF NoneLikeIt, StepsOver, ParserTypes
    <3>2. QED
      BY <1>1, <2>1, <2>2, <2>3, <2>6, <3>1, OperatorRead
  <2>8. command' = Denotes(cut, more)
    <3>1. /\ tokens[j] \in input => FileOf(more, input) = tokens[j + 1]
          /\ tokens[j] \notin input => FileOf(more, input) = FileOf(ops, input)
          /\ tokens[j] \in output => FileOf(more, output) = tokens[j + 1]
          /\ tokens[j] \notin output => FileOf(more, output) = FileOf(ops, output)
      <4>1. \A S : /\ tokens[j] \in S /\ (\A n \in ops : tokens[n] \notin S)
                        => FileOf(more, S) = tokens[j + 1]
                   /\ tokens[j] \notin S => FileOf(more, S) = FileOf(ops, S)
        <5>1. PICK here : here = j
          OBVIOUS
        <5>2. more = ops \cup {here}
          BY <2>6, <5>1
        <5>3. \A S : /\ tokens[here] \in S /\ (\A n \in ops : tokens[n] \notin S)
                          => FileOf(ops \cup {here}, S) = tokens[here + 1]
                     /\ tokens[here] \notin S => FileOf(ops \cup {here}, S) = FileOf(ops, S)
          BY FileTaken
        <5>4. QED
          BY <5>1, <5>2, <5>3
      <4> HIDE DEF input, output
      <4>2. QED
        BY <2>5, <4>1
    <3> DEFINE app(o) == \E k \in o : tokens[k] = AppendSymbol
               bg(o) == \E k \in o : tokens[k] = BackgroundSymbol
    <3>2. bg(more) = bg(ops)
      BY <2>3, <2>6
    <3>3. app(more) = IF tokens[j] = InputSymbol THEN app(ops)
                                                        ELSE tokens[j] = AppendSymbol
      <4>1. AppendSymbol # InputSymbol
        BY DEF AppendSymbol, InputSymbol
      <4>2. CASE tokens[j] = InputSymbol
        BY <2>6, <4>1, <4>2
      <4>3. CASE tokens[j] # InputSymbol
        <5>1. app(more) <=> tokens[j] = AppendSymbol
          BY <2>3, <2>5, <2>6, <4>3
        <5>2. QED
          BY <4>3, <5>1
      <4>4. QED
        BY <4>2, <4>3
    <3>4. \A o : Denotes(cut, o) =
                   CommandOf(SubSeq(tokens, 1, cut), FileOf(o, input),
                             FileOf(o, output), app(o), bg(o))
      BY DEF Denotes, CommandOf
    <3>5. /\ command = CommandOf(SubSeq(tokens, 1, cut), FileOf(ops, input),
                                 FileOf(ops, output), app(ops), bg(ops))
          /\ Denotes(cut, more) =
               CommandOf(SubSeq(tokens, 1, cut), FileOf(more, input),
                         FileOf(more, output), app(more), bg(more))
      BY <2>2, <3>4
    <3> HIDE DEF input, output, app, bg
    <3>6. CASE tokens[j] = InputSymbol
      <4>1. command' = [command EXCEPT !.input_file = tokens[j + 1]]
        BY <2>1, <3>6
      <4>2. /\ FileOf(more, input) = tokens[j + 1]
            /\ FileOf(more, output) = FileOf(ops, output)
            /\ app(more) = app(ops)
        BY <2>3, <3>1, <3>3, <3>6
      <4>3. QED
        BY <3>2, <3>5, <4>1, <4>2, CommandWithInput
    <3>7. CASE tokens[j] # InputSymbol
      <4>1. command' = [command EXCEPT !.output_file = tokens[j + 1],
                                       !.append = tokens[j] = AppendSymbol]
        BY <2>1, <3>7
      <4>2. /\ FileOf(more, input) = FileOf(ops, input)
            /\ FileOf(more, output) = tokens[j + 1]
            /\ app(more) = (tokens[j] = AppendSymbol)
        BY <2>3, <3>1, <3>3, <3>7
      <4>3. PICK half : half = [command EXCEPT !.output_file = tokens[j + 1]]
        OBVIOUS
      <4>4. command' = [half EXCEPT !.append = tokens[j] = AppendSymbol]
        BY <4>1, <4>3
      <4>5. half = CommandOf(SubSeq(tokens, 1, cut), FileOf(ops, input), tokens[j + 1],
                             app(ops), bg(ops))
        BY <3>5, <4>3, CommandWithOutput
      <4>6. command' = CommandOf(SubSeq(tokens, 1, cut), FileOf(ops, input),
                                 tokens[j + 1], tokens[j] = AppendSymbol, bg(ops))
        BY <4>4, <4>5, CommandWithAppend
      <4>7. QED
        BY <3>2, <3>5, <4>2, <4>6
    <3>8. QED
      BY <3>6, <3>7
  <2>9. command' = Denotes(cut, more)'
    BY <2>1, <2>8, SameTokens
  <2>10. cut \in 0..(j' - 1) /\ more \in SUBSET ((cut + 1)..(j' - 1))
    <3>1. j \in Nat
      BY <1>1 DEF ParserTypes
    <3>2. QED
      BY <2>1, <2>2, <2>6, <3>1
  <2>11. ReadingOptions'
    BY <2>7, <2>9, <2>10 DEF ReadingOptions
  <2>12. ParserTypes'
    BY <1>1, <2>1, <2>7 DEF ParserTypes
  <2>13. QED
    BY <2>1, <2>11, <2>12 DEF ParserInv
<1>7. CASE TakeBackground
  <2>1. /\ state = "options" /\ j <= Len(tokens) /\ tokens[j] = BackgroundSymbol
        /\ command' = [command EXCEPT !.background = TRUE]
        /\ j' = j + 1 /\ tokens' = tokens /\ state' = state
    BY <1>7 DEF TakeBackground, More
  <2>2. PICK cut, ops :
          /\ cut \in 0..(j - 1) /\ ops \in SUBSET ((cut + 1)..(j - 1))
          /\ ReadAs(cut, ops) /\ OnlyReadAs(cut, ops) /\ command = Denotes(cut, ops)
    BY <2>1 DEF ParserInv, ReadingOptions
  <2> DEFINE input == {InputSymbol}
             output == {OutputSymbol, AppendSymbol}
  <2>3. /\ tokens[j] \in special_symbols /\ tokens[j] \notin Redirections
        /\ tokens[j] \notin input /\ tokens[j] \notin output
        /\ tokens[j] # AppendSymbol
    BY <2>1 DEF Redirections, special_symbols, InputSymbol,
                OutputSymbol, AppendSymbol, BackgroundSymbol
  <2>4. PICK more : more = ops \cup {j}
    OBVIOUS
  <2>5. j' \in 1..(Len(tokens) + 1) /\ ReadAs(cut, more)' /\ OnlyReadAs(cut, more)'
    <3>1. NoneLikeIt(ops, input) /\ NoneLikeIt(ops, output) /\ StepsOver
      BY <2>1, <2>3 DEF NoneLikeIt, StepsOver
    <3>2. QED
      BY <1>1, <2>1, <2>2, <2>3, <2>4, <3>1, OperatorRead
  <2>6. command' = Denotes(cut, more)
    <3>1. /\ FileOf(more, input) = FileOf(ops, input)
          /\ FileOf(more, output) = FileOf(ops, output)
      <4>1. PICK here : here = j
        OBVIOUS
      <4>2. more = ops \cup {here} /\ tokens[here] \notin input /\ tokens[here] \notin output
        BY <2>3, <2>4, <4>1
      <4>3. \A S : tokens[here] \notin S => FileOf(ops \cup {here}, S) = FileOf(ops, S)
        BY FileTaken
      <4> HIDE DEF input, output
      <4>4. QED
        BY <4>2, <4>3
    <3>2. (\E k \in more : tokens[k] = AppendSymbol)
            <=> \E k \in ops : tokens[k] = AppendSymbol
      BY <2>3, <2>4
    <3>3. \E k \in more : tokens[k] = BackgroundSymbol
      BY <2>1, <2>4
    <3>4. QED
      BY <2>1, <2>2, <3>1, <3>2, <3>3 DEF Denotes
  <2>7. command' = Denotes(cut, more)'
    BY <2>1, <2>6, SameTokens
  <2>8. cut \in 0..(j' - 1) /\ more \in SUBSET ((cut + 1)..(j' - 1))
    <3>1. j \in Nat
      BY <1>1 DEF ParserTypes
    <3>2. QED
      BY <2>1, <2>2, <2>4, <3>1
  <2>9. ReadingOptions'
    BY <2>5, <2>7, <2>8 DEF ReadingOptions
  <2>10. ParserTypes'
    BY <1>1, <2>1, <2>5 DEF ParserTypes
  <2>11. QED
    BY <2>1, <2>9, <2>10 DEF ParserInv
<1>8. CASE Reject
  <2>1. /\ state = "options" /\ j <= Len(tokens) /\ tokens[j] # BackgroundSymbol
        /\ ~(/\ tokens[j] \in Redirections /\ j < Len(tokens)
             /\ IF tokens[j] = InputSymbol THEN command.input_file = NoFile
                                                  ELSE command.output_file = NoFile)
        /\ command' = NoCommand /\ state' = "rejected"
        /\ tokens' = tokens /\ j' = j
    BY <1>8 DEF Reject, MayRedirect, HasFile, More
  <2>2. PICK cut, ops :
          /\ cut \in 0..(j - 1) /\ ops \in SUBSET ((cut + 1)..(j - 1))
          /\ ReadAs(cut, ops) /\ OnlyReadAs(cut, ops) /\ command = Denotes(cut, ops)
    BY <2>1 DEF ParserInv, ReadingOptions
  <2>3. ASSUME NEW c, NEW o, IsReading(c, o) PROVE FALSE
    <3>1. /\ c = cut /\ j \in o /\ ops \in SUBSET o
          /\ tokens[j] \in special_symbols
          /\ tokens[j] \in Redirections => j < Len(tokens)
      BY <1>1, <2>1, <2>2, <2>3, OperatorIsNext
    <3>2. tokens[j] \in Redirections
      BY <2>1, <3>1 DEF special_symbols
    <3> DEFINE input == {InputSymbol}
               output == {OutputSymbol, AppendSymbol}
    <3>3. /\ input \in SUBSET Redirections /\ output \in SUBSET Redirections
          /\ tokens[j] \in input <=> tokens[j] = InputSymbol
          /\ tokens[j] \in output <=> tokens[j] # InputSymbol
      BY <3>2 DEF Redirections, InputSymbol, OutputSymbol,
                  AppendSymbol
    <3>4. /\ command.input_file = FileOf(ops, input)
          /\ command.output_file = FileOf(ops, output)
      BY <2>2 DEF Denotes
    <3>5. /\ FileOf(ops, input) # NoFile => \E k \in ops : tokens[k] \in input
          /\ FileOf(ops, output) # NoFile => \E k \in ops : tokens[k] \in output
      BY <1>1, <2>2, <3>3, FileKnown
    <3>6. j \notin ops
      <4>1. j \in Nat
        BY <1>1 DEF ParserTypes
      <4>2. QED
        BY <2>2, <4>1
    <3>7. AtMostOneOf(o, input) /\ AtMostOneOf(o, output)
      BY <1>1, <2>3, ReadingRules
    <3> HIDE DEF input, output
    <3>8. QED
      BY <2>1, <3>1, <3>2, <3>3, <3>4, <3>5, <3>6, <3>7 DEF AtMostOneOf
  <2>4. ~\E c, o : IsReading(c, o)'
    BY <2>1, <2>3, SameTokens
  <2>5. ParserTypes'
    BY <1>1, <2>1 DEF ParserTypes
  <2>6. (command = NoCommand)'
    BY <2>1 DEF NoCommand
  <2>7. QED
    BY <2>1, <2>4, <2>5, <2>6 DEF ParserInv
<1>9. CASE Return
  <2>1. /\ state = "options" /\ ~(j <= Len(tokens)) /\ state' = "returned"
        /\ tokens' = tokens /\ j' = j /\ command' = command
    BY <1>9 DEF Return, More
  <2>2. PICK cut, ops :
          /\ cut \in 0..(j - 1) /\ ops \in SUBSET ((cut + 1)..(j - 1))
          /\ ReadAs(cut, ops) /\ command = Denotes(cut, ops)
    BY <2>1 DEF ParserInv, ReadingOptions
  <2>3. j - 1 = Len(tokens)
    BY <1>1, <2>1 DEF ParserTypes
  <2>4. IsReading(cut, ops)
    BY <1>1, <2>2, <2>3, ReadingRules DEF ReadAs
  <2>5. \E c, o : IsReading(c, o)' /\ command' = Denotes(c, o)'
    BY <2>1, <2>2, <2>4, SameTokens
  <2>6. ParserTypes'
    BY <1>1, <2>1 DEF ParserTypes
  <2>7. QED
    BY <2>1, <2>5, <2>6 DEF ParserInv
<1>10. QED
  BY <1>2, <1>3, <1>4, <1>5, <1>6, <1>7, <1>8, <1>9 DEF ParserNext

\* On lines with no background symbol before their end get_command accepts
\* exactly the grammar, with the command that the line denotes, and returns an
\* empty command otherwise; no line of the grammar is refused: each line has at
\* most one reading, and the loop finds it (parser.c 84-143, README.md 68-79).
THEOREM CommandsAsWritten == ParserSpec => []ParsesGrammar
<1>1. ParserInv => ParsesGrammar
  <2> SUFFICES ASSUME ParserInv PROVE ParsesGrammar
    OBVIOUS
  <2> DEFINE readings == {r \in (0..Len(tokens)) \X SUBSET (1..Len(tokens)) :
                            /\ r[2] \subseteq (r[1] + 1)..Len(tokens)
                            /\ Takes(r[1], r[2]) /\ AtTheEnd(r[2])}
  <2>1. ASSUME NEW c, NEW o, IsReading(c, o), AtTheEnd(o) PROVE <<c, o>> \in readings
    BY <2>1 DEF IsReading
  <2>2. \A r \in readings : IsReading(r[1], r[2])
    BY DEF IsReading
  <2>3. state = "returned" /\ ~Early => \E r \in readings : command = Denotes(r[1], r[2])
    <3> SUFFICES ASSUME state = "returned", ~Early
                 PROVE  \E r \in readings : command = Denotes(r[1], r[2])
      OBVIOUS
    <3>1. PICK c, o : IsReading(c, o) /\ command = Denotes(c, o)
      BY DEF ParserInv
    <3>2. AtTheEnd(o)
      <4>1. Len(tokens) \in Nat
        BY DEF ParserInv, ParserTypes
      <4>2. \A k \in o : k \in 1..Len(tokens)
        BY <3>1, <4>1 DEF IsReading
      <4>3. QED
        BY <4>1, <4>2 DEF AtTheEnd, Early
    <3>3. <<c, o>> \in readings
      BY <2>1, <3>1, <3>2
    <3> HIDE DEF readings
    <3>4. QED
      BY <3>1, <3>3
  <2>4. state = "rejected" =>
          command = NoCommand /\ (Len(tokens) > MaxTokens \/ readings = {})
    BY <2>2 DEF ParserInv
  <2>5. QED
    BY <2>3, <2>4 DEF ParsesGrammar
<1>2. QED
  <2>1. ParserInit => ParserInv
    BY ParserStarts
  <2>2. ParserInv /\ [ParserNext]_parserVars => ParserInv'
    BY ParserStep
  <2>3. QED
    BY <1>1, <2>1, <2>2, PTL DEF ParserSpec
=============================================================================
