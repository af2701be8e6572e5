--------------------------- MODULE SimulatorProofs ---------------------------
(***************************************************************************)
(* Proofs about the simulator for any workload, settings and configuration *)
(* file: the order of the events, one place for each process, the levels   *)
(* and allotments of MLFQ.                                                 *)
(*                                                                         *)
(* First what the queue operators do to their sequences, then what each    *)
(* handler keeps (Good), what a simulation starts from, and at the end the *)
(* invariant and the theorems.                                             *)
(***************************************************************************)
EXTENDS SimulatorProperties, FoldProofs, SequenceTheorems

\* The least element of a nonempty set of positions.
LEMMA LeastPosition ==
  ASSUME NEW n \in Nat, NEW T, T \subseteq 1..n, T # {}
  PROVE  Min(T) \in T /\ \A k \in T : Min(T) <= k
<1>1. T \subseteq Nat
  OBVIOUS
<1>2. \E m \in T : \A k \in T : m <= k
  BY <1>1, LeastNatural
<1>3. QED
  BY <1>2 DEF Min

\* What InsertAt makes of a sequence.
LEMMA InsertedAt ==
  ASSUME NEW S, NEW s \in Seq(S), NEW x \in S, NEW i \in 1..(Len(s) + 1)
  PROVE  /\ InsertAt(s, i, x) \in Seq(S)
         /\ Len(InsertAt(s, i, x)) = Len(s) + 1
         /\ InsertAt(s, i, x)[i] = x
         /\ \A j \in 1..(i - 1) : InsertAt(s, i, x)[j] = s[j]
         /\ \A j \in (i + 1)..(Len(s) + 1) : InsertAt(s, i, x)[j] = s[j - 1]
<1> DEFINE front == SubSeq(s, 1, i - 1)
           back == SubSeq(s, i, Len(s))
<1>0. Len(s) \in Nat /\ i \in Nat
  OBVIOUS
<1>1. /\ front \in Seq(S) /\ Len(front) = i - 1
      /\ \A j \in 1..(i - 1) : front[j] = s[j]
  <2>1. \A j \in 1..(i - 1) : s[j] \in S
    OBVIOUS
  <2>2. QED
    BY <2>1, <1>0, SubSeqProperties, Z3
<1>2. /\ back \in Seq(S) /\ Len(back) = Len(s) - i + 1
      /\ \A j \in 1..(Len(s) - i + 1) : back[j] = s[i + j - 1]
  <2>1. \A j \in i..Len(s) : s[j] \in S
    OBVIOUS
  <2>2. QED
    BY <2>1, <1>0, SubSeqProperties, Z3
<1>3. <<x>> \in Seq(S) /\ Len(<<x>>) = 1 /\ <<x>>[1] = x
  OBVIOUS
<1>4. InsertAt(s, i, x) = (front \o <<x>>) \o back
  BY DEF InsertAt
<1> HIDE DEF front, back
<1>5. /\ front \o <<x>> \in Seq(S) /\ Len(front \o <<x>>) = i
      /\ \A j \in 1..i : (front \o <<x>>)[j] = IF j <= i - 1 THEN front[j] ELSE x
  BY <1>1, <1>3, ConcatProperties
<1> DEFINE left == front \o <<x>>
<1> HIDE DEF left
<1>6. left \in Seq(S) /\ Len(left) = i /\ \A j \in 1..i : left[j] = IF j <= i - 1 THEN front[j] ELSE x
  BY <1>5 DEF left
<1>7. /\ left \o back \in Seq(S) /\ Len(left \o back) = Len(s) + 1
      /\ \A j \in 1..(Len(s) + 1) : (left \o back)[j] = IF j <= i THEN left[j] ELSE back[j - i]
  BY <1>2, <1>6, <1>0, ConcatProperties
<1>8. InsertAt(s, i, x) = left \o back
  BY <1>4 DEF left
<1> HIDE DEF front, left
<1>9. ASSUME NEW j \in 1..(i - 1) PROVE (left \o back)[j] = s[j]
  <2>1. j \in 1..(Len(s) + 1) /\ j <= i /\ j \in 1..i /\ j <= i - 1
    BY <1>0
  <2>2. QED
    BY <2>1, <1>1, <1>6, <1>7
<1>10. ASSUME NEW j \in (i + 1)..(Len(s) + 1) PROVE (left \o back)[j] = s[j - 1]
  <2>1. j \in 1..(Len(s) + 1) /\ ~(j <= i) /\ j - i \in 1..(Len(s) - i + 1)
    BY <1>0
  <2>2. back[j - i] = s[i + (j - i) - 1] /\ i + (j - i) - 1 = j - 1
    BY <2>1, <1>2, <1>0
  <2>3. QED
    BY <2>1, <2>2, <1>7
<1>11. (left \o back)[i] = x
  <2>1. i \in 1..(Len(s) + 1) /\ i \in 1..i /\ ~(i <= i - 1)
    BY <1>0
  <2>2. QED
    BY <2>1, <1>6, <1>7
<1>12. QED
  BY <1>7, <1>8, <1>9, <1>10, <1>11

\* What RemoveAt makes of a sequence.
LEMMA RemovedAt ==
  ASSUME NEW S, NEW s \in Seq(S), NEW i \in 1..Len(s)
  PROVE  /\ RemoveAt(s, i) \in Seq(S)
         /\ Len(RemoveAt(s, i)) = Len(s) - 1
         /\ \A j \in 1..(i - 1) : RemoveAt(s, i)[j] = s[j]
         /\ \A j \in i..(Len(s) - 1) : RemoveAt(s, i)[j] = s[j + 1]
<1> DEFINE front == SubSeq(s, 1, i - 1)
           back == SubSeq(s, i + 1, Len(s))
<1>0. Len(s) \in Nat /\ i \in Nat
  OBVIOUS
<1>1. /\ front \in Seq(S) /\ Len(front) = i - 1
      /\ \A j \in 1..(i - 1) : front[j] = s[j]
  <2>1. \A j \in 1..(i - 1) : s[j] \in S
    OBVIOUS
  <2>2. QED
    BY <2>1, <1>0, SubSeqProperties, Z3
<1>2. /\ back \in Seq(S) /\ Len(back) = Len(s) - i
      /\ \A j \in 1..(Len(s) - i) : back[j] = s[i + j]
  <2>1. \A j \in (i + 1)..Len(s) : s[j] \in S
    OBVIOUS
  <2>2. QED
    BY <2>1, <1>0, SubSeqProperties, Z3
<1>3. RemoveAt(s, i) = front \o back
  BY DEF RemoveAt
<1> HIDE DEF front, back
<1>4. /\ front \o back \in Seq(S) /\ Len(front \o back) = Len(front) + Len(back)
      /\ \A j \in 1..(Len(front) + Len(back)) : (front \o back)[j] =
           IF j <= Len(front) THEN front[j] ELSE back[j - Len(front)]
  BY <1>1, <1>2, ConcatProperties
<1>5. Len(front) + Len(back) = Len(s) - 1
  BY <1>0, <1>1, <1>2
<1>6. ASSUME NEW j \in 1..(i - 1) PROVE (front \o back)[j] = s[j]
  <2>1. j \in 1..(Len(s) - 1) /\ j <= Len(front)
    BY <1>0, <1>1
  <2>2. QED
    BY <2>1, <1>1, <1>4, <1>5
<1>7. ASSUME NEW j \in i..(Len(s) - 1) PROVE (front \o back)[j] = s[j + 1]
  <2>1. j \in 1..(Len(s) - 1) /\ ~(j <= Len(front)) /\ j - Len(front) \in 1..(Len(s) - i)
    BY <1>0, <1>1
  <2>2. back[j - Len(front)] = s[i + (j - Len(front))] /\ i + (j - Len(front)) = j + 1
    BY <2>1, <1>2, <1>1, <1>0
  <2>3. QED
    BY <2>1, <2>2, <1>4, <1>5
<1>8. QED
  BY <1>3, <1>4, <1>5, <1>6, <1>7

\* t is s with x put in at position i, and t is s without its i-th element.
Inserted(t, s, i, x) ==
  /\ Len(t) = Len(s) + 1
  /\ t[i] = x
  /\ \A j \in 1..(i - 1) : t[j] = s[j]
  /\ \A j \in (i + 1)..(Len(s) + 1) : t[j] = s[j - 1]
Removed(t, s, i) ==
  /\ Len(t) = Len(s) - 1
  /\ \A j \in 1..(i - 1) : t[j] = s[j]
  /\ \A j \in i..(Len(s) - 1) : t[j] = s[j + 1]

\* The place at which InsertBeforeFirst inserts, if T are the positions that
\* stop the newcomer.
Place(T, n) ==
  LET stop == IF T # {} THEN Min(T) ELSE 0
  IN  IF stop = 0 THEN n + 1 ELSE stop
\* It stands before the first of them, or at the end.
LEMMA PlaceOfInsertion ==
  ASSUME NEW n \in Nat, NEW T, T \subseteq 1..n
  PROVE  /\ Place(T, n) \in 1..(n + 1)
         /\ Place(T, n) <= n => Place(T, n) \in T
         /\ \A j \in 1..(Place(T, n) - 1) : j \notin T
<1>1. CASE T = {}
  BY <1>1 DEF Place
<1>2. CASE T # {}
  <2>1. Min(T) \in T /\ \A k \in T : Min(T) <= k
    BY <1>2, LeastPosition
  <2> DEFINE least == Min(T)
  <2>2. least \in 1..n /\ least # 0
    <3> HIDE DEF least
    <3>1. least \in T
      BY <2>1 DEF least
    <3>2. QED
      BY <3>1
  <2>3. \A j \in 1..(least - 1) : j \notin T
    BY <2>1, <2>2
  <2> HIDE DEF least
  <2>4. QED
    BY <1>2, <2>1, <2>2, <2>3 DEF least, Place
<1>3. QED
  BY <1>1, <1>2

\* EnqueueEvent puts the event in before the first that it precedes.
LEMMA EnqueuedAt ==
  ASSUME NEW S, NEW q \in Seq(S), NEW e \in S, NEW pr, NEW b
  PROVE  /\ EnqueueEvent(q, e, pr, b) \in Seq(S)
         /\ \E i \in 1..(Len(q) + 1) :
              /\ Inserted(EnqueueEvent(q, e, pr, b), q, i, e)
              /\ i <= Len(q) => Precedes(e, q[i], pr, b)
              /\ \A j \in 1..(i - 1) : ~Precedes(e, q[j], pr, b)
<1> DEFINE T == {k \in 1..Len(q) : Precedes(e, q[k], pr, b)}
           place == Place(T, Len(q))
<1>1. Len(q) \in Nat /\ T \subseteq 1..Len(q)
  OBVIOUS
<1>2. EnqueueEvent(q, e, pr, b) = InsertAt(q, place, e)
  BY DEF EnqueueEvent, InsertBeforeFirst, SelectInSeq, Place
<1>3. /\ place \in 1..(Len(q) + 1)
      /\ place <= Len(q) => place \in T
      /\ \A j \in 1..(place - 1) : j \notin T
  <2> HIDE DEF T
  <2>1. QED
    BY <1>1, PlaceOfInsertion
<1> HIDE DEF place
<1>4. InsertAt(q, place, e) \in Seq(S) /\ Inserted(InsertAt(q, place, e), q, place, e)
  <2>1. place \in 1..(Len(q) + 1)
    BY <1>3
  <2> DEFINE t == InsertAt(q, place, e)
  <2> HIDE DEF T
  <2>2. t \in Seq(S)
    BY <2>1, InsertedAt
  <2>3. Len(t) = Len(q) + 1 /\ t[place] = e
    BY <2>1, InsertedAt
  <2>4. \A j \in 1..(place - 1) : t[j] = q[j]
    BY <2>1, InsertedAt
  <2>5. \A j \in (place + 1)..(Len(q) + 1) : t[j] = q[j - 1]
    BY <2>1, InsertedAt
  <2>6. /\ t \in Seq(S) /\ Len(t) = Len(q) + 1 /\ t[place] = e
        /\ \A j \in 1..(place - 1) : t[j] = q[j]
        /\ \A j \in (place + 1)..(Len(q) + 1) : t[j] = q[j - 1]
    BY <2>2, <2>3, <2>4, <2>5
  <2> HIDE DEF t
  <2>7. t \in Seq(S) /\ Inserted(t, q, place, e)
    BY <2>6 DEF Inserted
  <2>8. QED
    BY <2>7 DEF t
<1>5. \A j \in 1..(place - 1) : ~Precedes(e, q[j], pr, b)
  BY <1>1, <1>3
<1>6. QED
  BY <1>2, <1>3, <1>4, <1>5

\* RemoveEvent takes out the first event that names the process, if any.
LEMMA RemovedEvent ==
  ASSUME NEW S, NEW q \in Seq(S), NEW p
  PROVE  /\ RemoveEvent(q, p) \in Seq(S)
         /\ \/ RemoveEvent(q, p) = q /\ \A j \in 1..Len(q) : q[j].process # p
            \/ \E i \in 1..Len(q) :
                 /\ Removed(RemoveEvent(q, p), q, i)
                 /\ q[i].process = p
                 /\ \A j \in 1..(i - 1) : q[j].process # p
<1> DEFINE T == {k \in 1..Len(q) : q[k].process = p}
<1>1. Len(q) \in Nat /\ T \subseteq 1..Len(q)
  OBVIOUS
<1>2. CASE T = {}
  <2>1. RemoveEvent(q, p) = q
    BY <1>2 DEF RemoveEvent, RemoveFirstMatch
  <2>2. QED
    BY <1>2, <2>1
<1>3. CASE T # {}
  <2>1. RemoveEvent(q, p) = RemoveAt(q, Min(T))
    BY <1>3 DEF RemoveEvent, RemoveFirstMatch, SelectInSeq
  <2>2. Min(T) \in T /\ \A k \in T : Min(T) <= k
    <3> HIDE DEF T
    <3>1. QED
      BY <1>1, <1>3, LeastPosition
  <2> DEFINE i == Min(T)
  <2>3. i \in 1..Len(q) /\ q[i].process = p
    BY <2>2
  <2>4. \A j \in 1..(i - 1) : q[j].process # p
    BY <2>2, <2>3
  <2> HIDE DEF i
  <2>5. RemoveAt(q, i) \in Seq(S) /\ Removed(RemoveAt(q, i), q, i)
    BY <2>3, RemovedAt DEF Removed
  <2>6. QED
    BY <2>1, <2>3, <2>4, <2>5 DEF i
<1>4. QED
  BY <1>2, <1>3

\* Tail removes the first element.
LEMMA TailRemoves ==
  ASSUME NEW S, NEW q \in Seq(S), q # <<>>
  PROVE  Tail(q) \in Seq(S) /\ Removed(Tail(q), q, 1) /\ Len(q) \in Nat \ {0}
         /\ Head(q) = q[1] /\ Head(q) \in S
BY HeadTailProperties, EmptySeq DEF Removed

\* Whatever is in a sequence after an insertion or a removal was in it before,
\* at a place of its own.
LEMMA InsertedFrom ==
  ASSUME NEW S, NEW s \in Seq(S), NEW t \in Seq(S), NEW x, NEW i \in 1..(Len(s) + 1),
         Inserted(t, s, i, x)
  PROVE  \A j \in 1..Len(t) :
           j # i => /\ (IF j < i THEN j ELSE j - 1) \in 1..Len(s)
                    /\ t[j] = s[IF j < i THEN j ELSE j - 1]
<1>1. Len(s) \in Nat /\ Len(t) = Len(s) + 1
  BY DEF Inserted
<1>2. TAKE j \in 1..Len(t)
<1>3. HAVE j # i
<1>4. CASE j < i
  BY <1>1, <1>4 DEF Inserted
<1>5. CASE j > i
  <2>1. j \in (i + 1)..(Len(s) + 1) /\ j - 1 \in 1..Len(s) /\ ~(j < i)
    BY <1>1, <1>5
  <2>2. QED
    BY <2>1 DEF Inserted
<1>6. QED
  BY <1>1, <1>3, <1>4, <1>5
\* The same of a removal, both ways.
LEMMA RemovedFrom ==
  ASSUME NEW S, NEW s \in Seq(S), NEW t \in Seq(S), NEW i \in 1..Len(s), Removed(t, s, i)
  PROVE  /\ \A j \in 1..Len(t) : /\ (IF j < i THEN j ELSE j + 1) \in 1..Len(s)
                                 /\ t[j] = s[IF j < i THEN j ELSE j + 1]
         /\ \A k \in 1..Len(s) :
              k # i => /\ (IF k < i THEN k ELSE k - 1) \in 1..Len(t)
                       /\ s[k] = t[IF k < i THEN k ELSE k - 1]
<1>1. Len(s) \in Nat /\ Len(t) = Len(s) - 1 /\ Len(t) \in Nat
  BY DEF Removed
<1>2. ASSUME NEW j \in 1..Len(t)
      PROVE  /\ (IF j < i THEN j ELSE j + 1) \in 1..Len(s)
             /\ t[j] = s[IF j < i THEN j ELSE j + 1]
  BY <1>1 DEF Removed
<1>3. ASSUME NEW k \in 1..Len(s), k # i
      PROVE  /\ (IF k < i THEN k ELSE k - 1) \in 1..Len(t)
             /\ s[k] = t[IF k < i THEN k ELSE k - 1]
  <2>1. CASE k < i
    BY <1>1, <2>1 DEF Removed
  <2>2. CASE k > i
    <3>1. k - 1 \in i..(Len(s) - 1) /\ ~(k < i) /\ (k - 1) + 1 = k
      BY <1>1, <2>2
    <3>2. QED
      BY <1>1, <3>1 DEF Removed
  <2>3. QED
    BY <1>1, <1>3, <2>1, <2>2
<1>4. QED
  BY <1>2, <1>3

-----------------------------------------------------------------------------
\* Events of processes P, in the order of their times; no process arrives twice.
EventTypes == {"ARRIVAL", "COMPLETION", "QUANTUM_EXPIRE", "PRIORITY_BOOST"}
EventsOf(P) ==
  {e \in [time : Nat, type : EventTypes, process : P \cup {None}] :
     e.type # "PRIORITY_BOOST" => e.process \in P}
InOrder(q) == \A j, k \in 1..Len(q) : j <= k => q[j].time <= q[k].time
OneArrivalEach(q) ==
  \A j, k \in 1..Len(q) :
    /\ q[j].type = "ARRIVAL" /\ q[k].type = "ARRIVAL"
    /\ q[j].process = q[k].process
    => j = k
EventsOK(q, P) == q \in Seq(EventsOf(P)) /\ InOrder(q) /\ OneArrivalEach(q)
NoneBefore(q, time) == \A k \in 1..Len(q) : time <= q[k].time
Arriving(q) == {q[k].process : k \in {j \in 1..Len(q) : q[j].type = "ARRIVAL"}}

\* The order of the times survives an insertion.
LEMMA EnqueuedInOrder ==
  ASSUME NEW P, NEW q \in Seq(EventsOf(P)), InOrder(q), NEW e \in EventsOf(P), NEW pr, NEW b
  PROVE  InOrder(EnqueueEvent(q, e, pr, b))
<1> DEFINE t == EnqueueEvent(q, e, pr, b)
<1>1. PICK i \in 1..(Len(q) + 1) :
        /\ Inserted(t, q, i, e)
        /\ i <= Len(q) => Precedes(e, q[i], pr, b)
        /\ \A j \in 1..(i - 1) : ~Precedes(e, q[j], pr, b)
  BY EnqueuedAt
<1>2. t \in Seq(EventsOf(P))
  BY EnqueuedAt
<1> HIDE DEF t
<1>3. Len(q) \in Nat /\ Len(t) = Len(q) + 1 /\ t[i] = e
  BY <1>1 DEF Inserted
<1>4. e.time \in Nat /\ \A k \in 1..Len(q) : q[k].time \in Nat
  BY DEF EventsOf
<1>5. \A k \in 1..Len(q) : k < i => q[k].time <= e.time
  BY <1>1, <1>3, <1>4 DEF Precedes
<1>6. \A k \in 1..Len(q) : k >= i => e.time <= q[k].time
  <2>1. TAKE k \in 1..Len(q)
  <2>2. HAVE k >= i
  <2>3. i \in 1..Len(q) /\ e.time <= q[i].time
    BY <1>1, <1>3, <1>4, <2>2 DEF Precedes
  <2>4. q[i].time <= q[k].time
    BY <2>2, <2>3 DEF InOrder
  <2>5. QED
    BY <1>4, <2>3, <2>4
<1> DEFINE from(j) == IF j < i THEN j ELSE j - 1
<1>7. \A j \in 1..Len(t) : j # i => from(j) \in 1..Len(q) /\ t[j] = q[from(j)]
  BY <1>1, <1>2, InsertedFrom
<1>8. SUFFICES ASSUME NEW j \in 1..Len(t), NEW k \in 1..Len(t), j <= k
               PROVE  t[j].time <= t[k].time
  BY DEF InOrder, t
<1>9. CASE j # i /\ k # i
  <2>1. from(j) <= from(k)
    BY <1>8, <1>9, <1>3
  <2> HIDE DEF from
  <2>2. QED
    BY <1>7, <1>9, <2>1 DEF InOrder
<1>10. CASE j = i /\ k # i
  <2>1. from(k) >= i
    BY <1>8, <1>10, <1>3
  <2> HIDE DEF from
  <2>2. QED
    BY <1>3, <1>6, <1>7, <1>10, <2>1
<1>11. CASE j # i /\ k = i
  <2>1. from(j) < i
    BY <1>8, <1>11, <1>3
  <2> HIDE DEF from
  <2>2. QED
    BY <1>3, <1>5, <1>7, <1>11, <2>1
<1>12. CASE j = i /\ k = i
  BY <1>3, <1>4, <1>12
<1>13. QED
  BY <1>9, <1>10, <1>11, <1>12

\* Inserting an event keeps the queue well formed, unless it is the second
\* arrival of its process.
LEMMA EnqueuedOK ==
  ASSUME NEW P, NEW q, EventsOK(q, P), NEW e \in EventsOf(P), NEW pr, NEW b,
         e.type = "ARRIVAL" => e.process \notin Arriving(q)
  PROVE  LET t == EnqueueEvent(q, e, pr, b)
         IN  /\ EventsOK(t, P)
             /\ \A time \in Nat : NoneBefore(q, time) /\ time <= e.time => NoneBefore(t, time)
             /\ Arriving(t) = IF e.type = "ARRIVAL" THEN Arriving(q) \cup {e.process}
                                                    ELSE Arriving(q)
<1> DEFINE t == EnqueueEvent(q, e, pr, b)
<1>0. q \in Seq(EventsOf(P)) /\ InOrder(q) /\ OneArrivalEach(q)
  BY DEF EventsOK
<1>1. t \in Seq(EventsOf(P)) /\ InOrder(t)
  BY <1>0, EnqueuedAt, EnqueuedInOrder
<1>2. PICK i \in 1..(Len(q) + 1) : Inserted(t, q, i, e)
  BY <1>0, EnqueuedAt
<1> HIDE DEF t
<1> DEFINE from(j) == IF j < i THEN j ELSE j - 1
<1>3. /\ \A j \in 1..Len(t) : j # i => from(j) \in 1..Len(q) /\ t[j] = q[from(j)]
      /\ Len(q) \in Nat /\ Len(t) = Len(q) + 1 /\ t[i] = e
  <2>1. Len(q) \in Nat /\ Len(t) = Len(q) + 1 /\ t[i] = e
    BY <1>0, <1>2 DEF Inserted
  <2>2. QED
    BY <1>0, <1>1, <1>2, <2>1, InsertedFrom
<1>4. \A j, k \in 1..Len(t) : j # i /\ k # i /\ from(j) = from(k) => j = k
  BY <1>3
<1>5. \A k \in 1..Len(q) : \E j \in 1..Len(t) : j # i /\ from(j) = k
  <2>1. TAKE k \in 1..Len(q)
  <2>2. CASE k < i
    BY <1>3, <2>2
  <2>3. CASE k >= i
    <3>1. k + 1 \in 1..Len(t) /\ k + 1 # i /\ from(k + 1) = k
      BY <1>3, <2>3
    <3>2. QED
      BY <3>1
  <2>4. QED
    BY <1>3, <2>2, <2>3
<1> HIDE DEF from
<1>6. Arriving(t) = IF e.type = "ARRIVAL" THEN Arriving(q) \cup {e.process} ELSE Arriving(q)
  <2>1. ASSUME NEW x \in Arriving(t)
        PROVE  x \in Arriving(q) \/ (e.type = "ARRIVAL" /\ x = e.process)
    BY <1>3, <2>1 DEF Arriving
  <2>2. ASSUME NEW x \in Arriving(q) PROVE x \in Arriving(t)
    <3>1. PICK k \in 1..Len(q) : q[k].type = "ARRIVAL" /\ q[k].process = x
      BY DEF Arriving
    <3>2. PICK j \in 1..Len(t) : j # i /\ from(j) = k
      BY <1>5
    <3>3. QED
      BY <1>3, <3>1, <3>2 DEF Arriving
  <2>3. e.type = "ARRIVAL" => e.process \in Arriving(t)
    <3>1. i \in 1..Len(t)
      BY <1>3
    <3>2. QED
      BY <1>3, <3>1 DEF Arriving
  <2>4. QED
    BY <2>1, <2>2, <2>3
<1>7. OneArrivalEach(t)
  <2>1. SUFFICES ASSUME NEW j \in 1..Len(t), NEW k \in 1..Len(t),
                        t[j].type = "ARRIVAL", t[k].type = "ARRIVAL",
                        t[j].process = t[k].process, j # k
                 PROVE  FALSE
    BY DEF OneArrivalEach
  <2>2. CASE j # i /\ k # i
    BY <1>0, <1>3, <1>4, <2>1, <2>2 DEF OneArrivalEach
  <2>3. CASE j = i /\ k # i
    BY <1>3, <2>1, <2>3 DEF Arriving
  <2>4. CASE j # i /\ k = i
    BY <1>3, <2>1, <2>4 DEF Arriving
  <2>5. QED
    BY <2>1, <2>2, <2>3, <2>4
<1>8. ASSUME NEW time \in Nat, NoneBefore(q, time), time <= e.time PROVE NoneBefore(t, time)
  BY <1>3, <1>8 DEF NoneBefore
<1>9. QED
  BY <1>1, <1>6, <1>7, <1>8 DEF EventsOK, t

\* Removing an event keeps the queue well formed.
LEMMA RemovedOK ==
  ASSUME NEW P, NEW q, EventsOK(q, P), NEW t \in Seq(EventsOf(P)), NEW i \in 1..Len(q),
         Removed(t, q, i)
  PROVE  /\ EventsOK(t, P)
         /\ \A time : NoneBefore(q, time) => NoneBefore(t, time)
         /\ Arriving(t) = IF q[i].type = "ARRIVAL" THEN Arriving(q) \ {q[i].process}
                                                    ELSE Arriving(q)
<1>0. q \in Seq(EventsOf(P)) /\ InOrder(q) /\ OneArrivalEach(q)
  BY DEF EventsOK
<1> DEFINE from(j) == IF j < i THEN j ELSE j + 1
           to(k) == IF k < i THEN k ELSE k - 1
<1>1. /\ \A j \in 1..Len(t) : from(j) \in 1..Len(q) /\ t[j] = q[from(j)]
      /\ \A k \in 1..Len(q) : k # i => to(k) \in 1..Len(t) /\ q[k] = t[to(k)]
  BY <1>0, RemovedFrom
<1>2. \A j, k \in 1..Len(t) : /\ from(j) = from(k) => j = k
                              /\ j <= k => from(j) <= from(k)
                              /\ from(j) # i
  BY <1>0
<1> HIDE DEF from, to
<1>3. InOrder(t)
  BY <1>0, <1>1, <1>2 DEF InOrder
<1>4. OneArrivalEach(t)
  <2>1. SUFFICES ASSUME NEW j \in 1..Len(t), NEW k \in 1..Len(t),
                        t[j].type = "ARRIVAL", t[k].type = "ARRIVAL",
                        t[j].process = t[k].process
                 PROVE  j = k
    BY DEF OneArrivalEach
  <2>2. from(j) = from(k)
    BY <1>0, <1>1, <2>1 DEF OneArrivalEach
  <2>3. QED
    BY <1>2, <2>2
<1>5. ASSUME NEW time, NoneBefore(q, time) PROVE NoneBefore(t, time)
  BY <1>1, <1>5 DEF NoneBefore
<1>6. ASSUME NEW x \in Arriving(t)
      PROVE  x \in Arriving(q) /\ (q[i].type = "ARRIVAL" => x # q[i].process)
  BY <1>0, <1>1, <1>2 DEF Arriving, OneArrivalEach
<1>7. ASSUME NEW x \in Arriving(q), q[i].type = "ARRIVAL" => x # q[i].process
      PROVE  x \in Arriving(t)
  <2>1. PICK k \in 1..Len(q) : q[k].type = "ARRIVAL" /\ q[k].process = x
    BY DEF Arriving
  <2>2. k # i
    BY <1>7, <2>1
  <2>3. QED
    BY <1>1, <2>1, <2>2 DEF Arriving
<1>8. QED
  BY <1>3, <1>4, <1>5, <1>6, <1>7 DEF EventsOK
-----------------------------------------------------------------------------
\* The lists of a waiting queue, no process in them twice.
Lists(n, P) == [1..n -> Seq(P)]
Distinct(w) ==
  /\ \A k \in DOMAIN w : IsInjective(w[k])
  /\ \A j, k \in DOMAIN w : j # k => ToSet(w[j]) \cap ToSet(w[k]) = {}

\* The elements of a sequence that grows by one element.
LEMMA ElementsInserted ==
  ASSUME NEW P, NEW s \in Seq(P), IsInjective(s), NEW p \in P, p \notin ToSet(s),
         NEW t \in Seq(P), NEW i \in 1..(Len(s) + 1), Inserted(t, s, i, p)
  PROVE  IsInjective(t) /\ ToSet(t) = ToSet(s) \cup {p}
<1> DEFINE from(j) == IF j < i THEN j ELSE j - 1
<1>1. Len(s) \in Nat /\ Len(t) = Len(s) + 1 /\ t[i] = p /\ i \in 1..Len(t)
      /\ DOMAIN s = 1..Len(s) /\ DOMAIN t = 1..Len(t)
  BY DEF Inserted
<1>2. \A j \in 1..Len(t) : j # i => from(j) \in 1..Len(s) /\ t[j] = s[from(j)]
  BY InsertedFrom
<1>3. \A j, k \in 1..Len(t) : j # i /\ k # i /\ from(j) = from(k) => j = k
  BY <1>1
<1>4. ASSUME NEW k \in 1..Len(s) PROVE \E j \in 1..Len(t) : j # i /\ from(j) = k
  <2>1. CASE k < i
    BY <1>1, <2>1
  <2>2. CASE k >= i
    <3>1. k + 1 \in 1..Len(t) /\ k + 1 # i /\ from(k + 1) = k
      BY <1>1, <2>2
    <3>2. QED
      BY <3>1
  <2>3. QED
    BY <1>1, <2>1, <2>2
<1> HIDE DEF from
<1>5. ASSUME NEW x \in ToSet(t) PROVE x \in ToSet(s) \cup {p}
  BY <1>1, <1>2 DEF ToSet
<1>6. ASSUME NEW x \in ToSet(s) \cup {p} PROVE x \in ToSet(t)
  BY <1>1, <1>2, <1>4 DEF ToSet
<1>7. IsInjective(t)
  <2>1. SUFFICES ASSUME NEW j \in 1..Len(t), NEW k \in 1..Len(t), t[j] = t[k], j # k
                 PROVE  FALSE
    BY <1>1 DEF IsInjective
  <2>2. j # i /\ k # i
    BY <1>1, <1>2, <2>1 DEF ToSet
  <2>3. QED
    BY <1>1, <1>2, <1>3, <2>1, <2>2 DEF IsInjective
<1>8. QED
  BY <1>5, <1>6, <1>7

\* The elements of a sequence that loses its first.
LEMMA ElementsOfTail ==
  ASSUME NEW P, NEW s \in Seq(P), s # <<>>, IsInjective(s)
  PROVE  /\ Head(s) \in ToSet(s) /\ Tail(s) \in Seq(P)
         /\ IsInjective(Tail(s)) /\ ToSet(Tail(s)) = ToSet(s) \ {Head(s)}
<1> DEFINE t == Tail(s)
<1>1. /\ t \in Seq(P) /\ Len(s) \in Nat \ {0} /\ Head(s) = s[1] /\ Len(t) = Len(s) - 1
      /\ \A j \in 1..Len(t) : t[j] = s[j + 1]
  BY HeadTailProperties, EmptySeq
<1>2. DOMAIN s = 1..Len(s) /\ DOMAIN t = 1..Len(t) /\ 1 \in 1..Len(s)
  BY <1>1
<1> HIDE DEF t
<1>3. \A j \in 1..Len(t) : j + 1 \in 1..Len(s) /\ j + 1 # 1
  BY <1>1
<1>4. \A k \in 1..Len(s) : k # 1 => k - 1 \in 1..Len(t) /\ (k - 1) + 1 = k
  BY <1>1
<1>5. IsInjective(t)
  BY <1>1, <1>2, <1>3 DEF IsInjective
<1>6. ASSUME NEW x \in ToSet(t) PROVE x \in ToSet(s) \ {Head(s)}
  <2>1. PICK j \in 1..Len(t) : x = s[j + 1]
    BY <1>1, <1>2 DEF ToSet
  <2>2. j + 1 \in 1..Len(s) /\ j + 1 # 1
    BY <1>3
  <2>3. QED
    BY <1>1, <1>2, <2>1, <2>2 DEF ToSet, IsInjective
<1>7. ASSUME NEW x \in ToSet(s) \ {Head(s)} PROVE x \in ToSet(t)
  <2>1. PICK k \in 1..Len(s) : x = s[k]
    BY <1>2 DEF ToSet
  <2>2. k # 1
    BY <1>1, <2>1
  <2>3. QED
    BY <1>1, <1>2, <1>4, <2>1, <2>2 DEF ToSet
<1>8. Head(s) \in ToSet(s)
  BY <1>1, <1>2 DEF ToSet
<1>9. QED
  BY <1>1, <1>5, <1>6, <1>7, <1>8 DEF t

\* The elements of two sequences in a row.
LEMMA ElementsOfConcat ==
  ASSUME NEW P, NEW s \in Seq(P), NEW t \in Seq(P), IsInjective(s), IsInjective(t),
         ToSet(s) \cap ToSet(t) = {}
  PROVE  s \o t \in Seq(P) /\ IsInjective(s \o t) /\ ToSet(s \o t) = ToSet(s) \cup ToSet(t)
<1> DEFINE u == s \o t
<1>1. /\ u \in Seq(P) /\ Len(u) = Len(s) + Len(t)
      /\ \A i \in 1..(Len(s) + Len(t)) : u[i] = IF i <= Len(s) THEN s[i] ELSE t[i - Len(s)]
  BY ConcatProperties
<1>2. /\ Len(s) \in Nat /\ Len(t) \in Nat /\ DOMAIN s = 1..Len(s) /\ DOMAIN t = 1..Len(t)
      /\ DOMAIN u = 1..Len(u)
  BY <1>1
<1> HIDE DEF u
<1>3. \A i \in 1..Len(u) : \/ i <= Len(s) /\ i \in 1..Len(s) /\ u[i] = s[i]
                           \/ i > Len(s) /\ i - Len(s) \in 1..Len(t) /\ u[i] = t[i - Len(s)]
  BY <1>1, <1>2
<1>4. \A i \in 1..Len(s) : i \in 1..Len(u) /\ u[i] = s[i]
  BY <1>1, <1>2
<1>5. \A i \in 1..Len(t) : i + Len(s) \in 1..Len(u) /\ u[i + Len(s)] = t[i]
  <2>1. TAKE i \in 1..Len(t)
  <2>2. i + Len(s) \in 1..(Len(s) + Len(t)) /\ ~(i + Len(s) <= Len(s)) /\ (i + Len(s)) - Len(s) = i
    BY <1>2
  <2>3. QED
    BY <1>1, <2>2
<1>6. ToSet(u) = ToSet(s) \cup ToSet(t)
  <2>1. ASSUME NEW x \in ToSet(u) PROVE x \in ToSet(s) \cup ToSet(t)
    BY <1>2, <1>3 DEF ToSet
  <2>2. ASSUME NEW x \in ToSet(s) PROVE x \in ToSet(u)
    BY <1>2, <1>4 DEF ToSet
  <2>3. ASSUME NEW x \in ToSet(t) PROVE x \in ToSet(u)
    BY <1>2, <1>5 DEF ToSet
  <2>4. QED
    BY <2>1, <2>2, <2>3
<1>7. IsInjective(u)
  <2>1. SUFFICES ASSUME NEW i \in 1..Len(u), NEW j \in 1..Len(u), u[i] = u[j]
                 PROVE  i = j
    BY <1>2 DEF IsInjective
  <2>2. CASE i <= Len(s) /\ j <= Len(s)
    BY <1>2, <1>3, <2>1, <2>2 DEF IsInjective
  <2>3. CASE i > Len(s) /\ j > Len(s)
    <3>1. /\ i - Len(s) \in 1..Len(t) /\ j - Len(s) \in 1..Len(t)
          /\ t[i - Len(s)] = t[j - Len(s)]
      BY <1>2, <1>3, <2>1, <2>3
    <3>2. i - Len(s) = j - Len(s)
      BY <1>2, <3>1 DEF IsInjective
    <3>3. QED
      BY <1>2, <3>2
  <2>4. CASE i <= Len(s) /\ j > Len(s)
    <3>1. /\ i \in 1..Len(s) /\ j - Len(s) \in 1..Len(t) /\ s[i] = t[j - Len(s)]
      BY <1>2, <1>3, <2>1, <2>4
    <3>2. QED
      BY <1>2, <3>1 DEF ToSet
  <2>5. CASE i > Len(s) /\ j <= Len(s)
    <3>1. /\ j \in 1..Len(s) /\ i - Len(s) \in 1..Len(t) /\ s[j] = t[i - Len(s)]
      BY <1>2, <1>3, <2>1, <2>5
    <3>2. QED
      BY <1>2, <3>1 DEF ToSet
  <2>6. QED
    BY <1>2, <2>2, <2>3, <2>4, <2>5
<1>8. QED
  BY <1>1, <1>6, <1>7 DEF u

\* One list of a queue gains a process that was in none of them.
LEMMA ListGains ==
  ASSUME NEW n \in Nat, NEW P, NEW w \in Lists(n, P), Distinct(w),
         NEW k \in 1..n, NEW p \in P, p \notin InQueue(w),
         NEW v \in Lists(n, P), \A j \in 1..n : j # k => v[j] = w[j],
         IsInjective(v[k]), ToSet(v[k]) = ToSet(w[k]) \cup {p}
  PROVE  /\ Distinct(v) /\ InQueue(v) = InQueue(w) \cup {p}
         /\ \A j \in 1..n : \A x \in ToSet(v[j]) : x \in ToSet(w[j]) \/ (j = k /\ x = p)
<1>1. DOMAIN v = 1..n /\ DOMAIN w = 1..n
  BY DEF Lists
<1>3. \A j \in 1..n : p \notin ToSet(w[j])
  BY <1>1 DEF InQueue
<1>4. \A j \in 1..n : \A x \in ToSet(v[j]) : x \in ToSet(w[j]) \/ (j = k /\ x = p)
  OBVIOUS
<1>5. Distinct(v)
  BY <1>1, <1>3, <1>4 DEF Distinct
<1>6. InQueue(v) = InQueue(w) \cup {p}
  BY <1>1, <1>4 DEF InQueue
<1>7. QED
  BY <1>1, <1>4, <1>5, <1>6

\* One list of a queue loses a process.
LEMMA ListLoses ==
  ASSUME NEW n \in Nat, NEW P, NEW w \in Lists(n, P), Distinct(w),
         NEW k \in 1..n, NEW p \in ToSet(w[k]),
         NEW v \in Lists(n, P), \A j \in 1..n : j # k => v[j] = w[j],
         IsInjective(v[k]), ToSet(v[k]) = ToSet(w[k]) \ {p}
  PROVE  /\ Distinct(v) /\ InQueue(v) = InQueue(w) \ {p}
         /\ \A j \in 1..n : ToSet(v[j]) \subseteq ToSet(w[j])
<1>1. DOMAIN v = 1..n /\ DOMAIN w = 1..n
  BY DEF Lists
<1>3. \A j \in 1..n : j # k => p \notin ToSet(w[j])
  BY <1>1 DEF Distinct
<1>4. \A j \in 1..n : ToSet(v[j]) = ToSet(w[j]) \ {p}
  BY <1>3
<1>5. Distinct(v)
  BY <1>1, <1>4 DEF Distinct
<1>6. InQueue(v) = InQueue(w) \ {p}
  BY <1>1, <1>4 DEF InQueue
<1>7. QED
  BY <1>1, <1>4, <1>5, <1>6

\* Push appends to one list.
LEMMA Pushed ==
  ASSUME NEW n \in Nat, NEW P, NEW w \in Lists(n, P), Distinct(w),
         NEW k \in 1..n, NEW p \in P, p \notin InQueue(w)
  PROVE  LET v == Push(w, k, p)
         IN  /\ v \in Lists(n, P) /\ Distinct(v) /\ InQueue(v) = InQueue(w) \cup {p}
             /\ \A j \in 1..n : \A x \in ToSet(v[j]) : x \in ToSet(w[j]) \/ (j = k /\ x = p)
<1>1. w[k] \in Seq(P) /\ DOMAIN w = 1..n
  BY DEF Lists
<1>2. IsInjective(w[k]) /\ p \notin ToSet(w[k])
  BY <1>1 DEF Distinct, InQueue
<1> DEFINE t == Append(w[k], p)
<1>3. t \in Seq(P) /\ Inserted(t, w[k], Len(w[k]) + 1, p) /\ Len(w[k]) + 1 \in 1..(Len(w[k]) + 1)
  BY <1>1, AppendProperties DEF Inserted
<1> HIDE DEF t
<1>4. IsInjective(t) /\ ToSet(t) = ToSet(w[k]) \cup {p}
  BY <1>1, <1>2, <1>3, ElementsInserted
<1> DEFINE v == Push(w, k, p)
<1>5. v \in Lists(n, P) /\ v[k] = t /\ \A j \in 1..n : j # k => v[j] = w[j]
  BY <1>3 DEF Push, t, Lists
<1> HIDE DEF v
<1>6. /\ v \in Lists(n, P) /\ Distinct(v) /\ InQueue(v) = InQueue(w) \cup {p}
      /\ \A j \in 1..n : \A x \in ToSet(v[j]) : x \in ToSet(w[j]) \/ (j = k /\ x = p)
  <2>1. IsInjective(v[k]) /\ ToSet(v[k]) = ToSet(w[k]) \cup {p}
    BY <1>4, <1>5
  <2>2. Distinct(v) /\ InQueue(v) = InQueue(w) \cup {p}
    BY <1>5, <2>1, ListGains
  <2>3. \A j \in 1..n : \A x \in ToSet(v[j]) : x \in ToSet(w[j]) \/ (j = k /\ x = p)
    BY <1>5, <2>1
  <2>4. QED
    BY <1>5, <2>2, <2>3
<1>7. QED
  BY <1>6 DEF v

\* A process put into a list where InsertBeforeFirst puts it, if T are the
\* positions that stop it.
Grown(t, s, p, P) == t \in Seq(P) /\ IsInjective(t) /\ ToSet(t) = ToSet(s) \cup {p}
\* An insertion grows the list by the process, wherever it is put.
LEMMA PutIn ==
  ASSUME NEW P, NEW s \in Seq(P), IsInjective(s), NEW p \in P, p \notin ToSet(s),
         NEW T, T \subseteq 1..Len(s)
  PROVE  Grown(InsertAt(s, Place(T, Len(s)), p), s, p, P)
<1> DEFINE place == Place(T, Len(s))
           t == InsertAt(s, place, p)
<1>1. place \in 1..(Len(s) + 1)
  <2>1. Len(s) \in Nat
    OBVIOUS
  <2>2. QED
    BY <2>1, PlaceOfInsertion
<1> HIDE DEF place
<1>2. t \in Seq(P) /\ Inserted(t, s, place, p)
  BY <1>1, InsertedAt DEF Inserted
<1> HIDE DEF t
<1>3. IsInjective(t) /\ ToSet(t) = ToSet(s) \cup {p}
  BY <1>1, <1>2, ElementsInserted
<1>4. QED
  BY <1>2, <1>3 DEF t, place, Grown

AlgorithmNames == {"fcfs", "sjf", "stcf", "rr", "mlfq"}
ListCount == NumLists(scheduler, Levels)
LevelsTyped == scheduler = "mlfq" => Len(Levels) \in Nat \ {0}

\* waiting->enqueue adds the process once, under MLFQ to the list of its level.
LEMMA EnqueuedWaiting ==
  ASSUME scheduler \in AlgorithmNames, LevelsTyped,
         NEW P, NEW w \in Lists(ListCount, P), Distinct(w), NEW p \in P, p \notin InQueue(w),
         NEW pr, scheduler = "mlfq" => pr[p].priority + 1 \in 1..Len(Levels)
  PROVE  LET v == Enqueue(scheduler, w, p, pr)
         IN  /\ v \in Lists(ListCount, P) /\ Distinct(v) /\ InQueue(v) = InQueue(w) \cup {p}
             /\ scheduler = "mlfq" => \A j \in 1..ListCount :
                  \A x \in ToSet(v[j]) :
                    x \in ToSet(w[j]) \/ (j = pr[p].priority + 1 /\ x = p)
<1> DEFINE v == Enqueue(scheduler, w, p, pr)
<1>1. CASE scheduler = "fcfs"
  <2> DEFINE k == 1
  <2>1. ListCount \in Nat /\ k \in 1..ListCount /\ v = Push(w, k, p)
    BY <1>1 DEF Enqueue, ListCount, NumLists
  <2> HIDE DEF v, k
  <2>2. v \in Lists(ListCount, P) /\ Distinct(v) /\ InQueue(v) = InQueue(w) \cup {p}
    BY <2>1, Pushed
  <2>3. QED
    BY <1>1, <2>2 DEF v
<1>2. CASE scheduler = "sjf"
  <2> DEFINE k == 1
             s == w[k]
             T == {i \in 1..Len(s) : pr[p].burst_time < pr[s[i]].burst_time}
             t == InsertAt(s, Place(T, Len(s)), p)
  <2>1. ListCount \in Nat /\ k \in 1..ListCount
    BY <1>2 DEF ListCount, NumLists
  <2>2. v = [w EXCEPT ![k] = t]
    BY <1>2 DEF Enqueue, ByBurst, InsertBeforeFirst, SelectInSeq, Place
  <2>3. s \in Seq(P) /\ IsInjective(s) /\ p \notin ToSet(s) /\ T \subseteq 1..Len(s)
    BY <2>1 DEF Lists, Distinct, InQueue
  <2>4. Grown(t, s, p, P)
    <3> HIDE DEF T, s
    <3>1. QED
      BY <2>3, PutIn
  <2>5. t \in Seq(P) /\ IsInjective(t) /\ ToSet(t) = ToSet(s) \cup {p}
    <3> HIDE DEF t, s
    <3>1. QED
      BY <2>4 DEF Grown
  <2> HIDE DEF v, t, k
  <2>6. v \in Lists(ListCount, P) /\ v[k] = t /\ \A j \in 1..ListCount : j # k => v[j] = w[j]
    BY <2>1, <2>2, <2>5 DEF Lists
  <2>7. IsInjective(v[k]) /\ ToSet(v[k]) = ToSet(w[k]) \cup {p}
    BY <2>5, <2>6
  <2>8. Distinct(v) /\ InQueue(v) = InQueue(w) \cup {p}
    BY <2>1, <2>6, <2>7, ListGains
  <2>9. QED
    BY <1>2, <2>6, <2>8 DEF v
<1>3. CASE scheduler = "stcf"
  <2> DEFINE k == 1
             s == w[k]
             T == {i \in 1..Len(s) : pr[p].remaining_time < pr[s[i]].remaining_time}
             t == InsertAt(s, Place(T, Len(s)), p)
  <2>1. ListCount \in Nat /\ k \in 1..ListCount
    BY <1>3 DEF ListCount, NumLists
  <2>2. v = [w EXCEPT ![k] = t]
    BY <1>3 DEF Enqueue, ByRemaining, InsertBeforeFirst, SelectInSeq, Place
  <2>3. s \in Seq(P) /\ IsInjective(s) /\ p \notin ToSet(s) /\ T \subseteq 1..Len(s)
    BY <2>1 DEF Lists, Distinct, InQueue
  <2>4. Grown(t, s, p, P)
    <3> HIDE DEF T, s
    <3>1. QED
      BY <2>3, PutIn
  <2>5. t \in Seq(P) /\ IsInjective(t) /\ ToSet(t) = ToSet(s) \cup {p}
    <3> HIDE DEF t, s
    <3>1. QED
      BY <2>4 DEF Grown
  <2> HIDE DEF v, t, k
  <2>6. v \in Lists(ListCount, P) /\ v[k] = t /\ \A j \in 1..ListCount : j # k => v[j] = w[j]
    BY <2>1, <2>2, <2>5 DEF Lists
  <2>7. IsInjective(v[k]) /\ ToSet(v[k]) = ToSet(w[k]) \cup {p}
    BY <2>5, <2>6
  <2>8. Distinct(v) /\ InQueue(v) = InQueue(w) \cup {p}
    BY <2>1, <2>6, <2>7, ListGains
  <2>9. QED
    BY <1>3, <2>6, <2>8 DEF v
<1>4. CASE scheduler = "rr"
  <2> DEFINE k == 3
  <2>1. ListCount \in Nat /\ k \in 1..ListCount /\ v = Push(w, k, p)
    BY <1>4 DEF Enqueue, ListCount, NumLists, Pending
  <2> HIDE DEF v, k
  <2>2. v \in Lists(ListCount, P) /\ Distinct(v) /\ InQueue(v) = InQueue(w) \cup {p}
    BY <2>1, Pushed
  <2>3. QED
    BY <1>4, <2>2 DEF v
<1>5. CASE scheduler = "mlfq"
  <2> DEFINE k == pr[p].priority + 1
  <2>1. ListCount \in Nat /\ v = Push(w, k, p) /\ k \in 1..ListCount
    BY <1>5 DEF Enqueue, ListCount, NumLists, LevelsTyped
  <2> HIDE DEF v, k
  <2>2. v \in Lists(ListCount, P) /\ Distinct(v) /\ InQueue(v) = InQueue(w) \cup {p}
    BY <2>1, Pushed
  <2>3. \A j \in 1..ListCount :
          \A x \in ToSet(v[j]) : x \in ToSet(w[j]) \/ (j = k /\ x = p)
    BY <2>1, Pushed
  <2>4. QED
    BY <2>2, <2>3 DEF v, k
<1>6. QED
  BY <1>1, <1>2, <1>3, <1>4, <1>5 DEF AlgorithmNames

\* The queue that waiting->dequeue takes from holds what the queue held.
LEMMA TurnedWaiting ==
  ASSUME scheduler \in AlgorithmNames, LevelsTyped,
         NEW P, NEW w \in Lists(ListCount, P), Distinct(w)
  PROVE  LET v == Turned(scheduler, w)
         IN  /\ v \in Lists(ListCount, P) /\ Distinct(v) /\ InQueue(v) = InQueue(w)
             /\ scheduler # "rr" => v = w
<1> DEFINE v == Turned(scheduler, w)
<1>1. CASE ~(scheduler = "rr" /\ w[Active] = <<>>)
  BY <1>1 DEF Turned
<1>2. CASE scheduler = "rr" /\ w[Active] = <<>>
  <2>1. ListCount = 3 /\ DOMAIN w = 1..3
    BY <1>2 DEF ListCount, NumLists, Lists
  <2> DEFINE t == w[Round] \o w[Pending]
  <2>2. v = <<t, <<>>, <<>>>>
    BY <1>2 DEF Turned, NewRound
  <2>3. w[2] \in Seq(P) /\ w[3] \in Seq(P) /\ IsInjective(w[2]) /\ IsInjective(w[3])
        /\ ToSet(w[2]) \cap ToSet(w[3]) = {} /\ ToSet(w[1]) = {}
    <3>1. w[2] \in Seq(P) /\ w[3] \in Seq(P)
      BY <2>1 DEF Lists
    <3>2. IsInjective(w[2]) /\ IsInjective(w[3]) /\ ToSet(w[2]) \cap ToSet(w[3]) = {}
      BY <2>1 DEF Distinct
    <3>3. ToSet(w[1]) = {}
      BY <1>2 DEF ToSet, Active
    <3>4. QED
      BY <3>1, <3>2, <3>3
  <2>4. t \in Seq(P) /\ IsInjective(t) /\ ToSet(t) = ToSet(w[2]) \cup ToSet(w[3])
    BY <2>3, ElementsOfConcat DEF Round, Pending
  <2> HIDE DEF t, v
  <2>5. <<>> \in Seq(P) /\ ToSet(<<>>) = {} /\ IsInjective(<<>>)
    BY DEF ToSet, IsInjective
  <2>6. v \in Lists(3, P)
    <3>1. v \in Seq(Seq(P)) /\ Len(v) = 3
      BY <2>2, <2>4, <2>5
    <3>2. QED
      BY <3>1, LenProperties DEF Lists
  <2>7. v[1] = t /\ v[2] = <<>> /\ v[3] = <<>> /\ DOMAIN v = 1..3
    BY <2>2
  <2>8. Distinct(v)
    BY <2>4, <2>5, <2>7 DEF Distinct
  <2>9. InQueue(v) = InQueue(w)
    <3>1. InQueue(v) = ToSet(v[1]) \cup ToSet(v[2]) \cup ToSet(v[3])
      BY <2>7 DEF InQueue
    <3>2. InQueue(w) = ToSet(w[1]) \cup ToSet(w[2]) \cup ToSet(w[3])
      BY <2>1 DEF InQueue
    <3>3. QED
      BY <3>1, <3>2, <2>3, <2>4, <2>5, <2>7
  <2>10. QED
    BY <1>2, <2>1, <2>6, <2>8, <2>9 DEF v
<1>3. QED
  BY <1>1, <1>2

\* waiting->dequeue takes out a process of the queue.
LEMMA DequeuedWaiting ==
  ASSUME scheduler \in AlgorithmNames, LevelsTyped,
         NEW P, NEW w \in Lists(ListCount, P), Distinct(w), ~IsEmpty(w)
  PROVE  LET p == Taken(scheduler, w)
             v == Left(scheduler, w)
         IN  /\ p \in InQueue(w)
             /\ v \in Lists(ListCount, P) /\ Distinct(v) /\ InQueue(v) = InQueue(w) \ {p}
             /\ scheduler # "rr" => \A j \in 1..ListCount : ToSet(v[j]) \subseteq ToSet(w[j])
<1> DEFINE u == Turned(scheduler, w)
           k == FirstList(u)
           p == Taken(scheduler, w)
           v == Left(scheduler, w)
<1>1. /\ u \in Lists(ListCount, P) /\ Distinct(u) /\ InQueue(u) = InQueue(w)
      /\ scheduler # "rr" => u = w
  BY TurnedWaiting
<1>2. ListCount \in Nat
  BY DEF ListCount, NumLists, AlgorithmNames, LevelsTyped
<1>3. p = Head(u[k]) /\ v = [u EXCEPT ![k] = Tail(@)]
  BY DEF Taken, Left
<1> HIDE DEF u, v, p
<1>4. InQueue(w) # {}
  <2>1. PICK j \in 1..ListCount : w[j] # <<>> /\ w[j] \in Seq(P) /\ DOMAIN w = 1..ListCount
    BY DEF IsEmpty, Lists
  <2>2. Len(w[j]) \in Nat \ {0} /\ DOMAIN w[j] = 1..Len(w[j])
    BY <2>1, EmptySeq
  <2>3. w[j][1] \in ToSet(w[j])
    BY <2>2 DEF ToSet
  <2>4. QED
    BY <2>1, <2>3 DEF InQueue
<1>5. k \in 1..ListCount /\ u[k] # <<>>
  <2> DEFINE T == {j \in DOMAIN u : u[j] # <<>>}
  <2>1. DOMAIN u = 1..ListCount
    BY <1>1 DEF Lists
  <2>2. T # {}
    <3>1. PICK x : x \in InQueue(u)
      BY <1>1, <1>4
    <3>2. PICK j \in DOMAIN u : x \in ToSet(u[j])
      BY <3>1 DEF InQueue
    <3>3. u[j] # <<>>
      BY <3>2 DEF ToSet
    <3>4. QED
      BY <3>3
  <2>3. k = Min(T)
    BY DEF FirstList
  <2>4. T \subseteq 1..ListCount
    BY <2>1
  <2> HIDE DEF T, k
  <2>5. k \in T
    BY <1>2, <2>2, <2>3, <2>4, LeastPosition
  <2>6. QED
    BY <2>1, <2>5 DEF T
<1> HIDE DEF k
<1>6. u[k] \in Seq(P) /\ IsInjective(u[k])
  BY <1>1, <1>5 DEF Lists, Distinct
<1>7. /\ p \in ToSet(u[k]) /\ Tail(u[k]) \in Seq(P)
      /\ IsInjective(Tail(u[k])) /\ ToSet(Tail(u[k])) = ToSet(u[k]) \ {p}
  BY <1>3, <1>5, <1>6, ElementsOfTail
<1>8. v \in Lists(ListCount, P) /\ v[k] = Tail(u[k]) /\ \A j \in 1..ListCount : j # k => v[j] = u[j]
  BY <1>1, <1>3, <1>5, <1>7 DEF Lists
<1>9. /\ Distinct(v) /\ InQueue(v) = InQueue(u) \ {p}
      /\ \A j \in 1..ListCount : ToSet(v[j]) \subseteq ToSet(u[j])
  <2>1. IsInjective(v[k]) /\ ToSet(v[k]) = ToSet(u[k]) \ {p}
    BY <1>7, <1>8
  <2>2. QED
    BY <1>1, <1>2, <1>5, <1>7, <1>8, <2>1, ListLoses
<1>10. p \in InQueue(u)
  BY <1>1, <1>5, <1>7 DEF InQueue, Lists
<1>11. QED
  BY <1>1, <1>8, <1>9, <1>10 DEF p, v

\* Removing a process that is not in a list leaves it as it is.
LEMMA MoveIsPush ==
  ASSUME NEW n \in Nat, NEW P, NEW w \in Lists(n, P), NEW p, p \notin InQueue(w),
         NEW old, old + 1 \in 1..n, NEW new
  PROVE  Move(w, p, old, new) = Push(w, new + 1, p)
<1>1. w[old + 1] \in Seq(P) /\ old + 1 \in DOMAIN w /\ w = [k \in 1..n |-> w[k]]
  BY DEF Lists
<1>2. \A i \in 1..Len(w[old + 1]) : w[old + 1][i] # p
  BY <1>1 DEF InQueue, ToSet
<1>3. RemoveFirst(w[old + 1], p) = w[old + 1]
  BY <1>2 DEF RemoveFirst
<1>4. [w EXCEPT ![old + 1] = RemoveFirst(@, p)] = w
  BY <1>1, <1>3
<1>5. QED
  BY <1>4 DEF Move

\* The lists in a row, as FlattenSeq makes them.
Flattens(f, w, n) == f = [i \in 1..n |-> IF i = 1 THEN w[i] ELSE f[i - 1] \o w[i]]
\* There is such a function, so that FlattenSeq's CHOOSE finds it.
LEMMA FlattenExists ==
  ASSUME NEW P, NEW n \in Nat \ {0}, NEW w \in Lists(n, P)
  PROVE  \E f : Flattens(f, w, n) /\ f \in [1..n -> Seq(P)]
<1> DEFINE d == [i \in 1..n |-> [v \in Seq(P) |-> v \o w[i]]]
<1>1. \A i \in 1..n : \A v \in Seq(P) : v \o w[i] \in Seq(P)
  BY ConcatProperties DEF Lists
<1>2. d \in [1..n -> [Seq(P) -> Seq(P)]]
  BY <1>1
<1>3. <<>> \in Seq(P)
  OBVIOUS
<1> HIDE DEF d
<1>4. PICK g \in [0..n -> Seq(P)] : Recursive(g, n, <<>>, d)
  BY <1>2, <1>3, RecursionExists
<1> DEFINE f == [i \in 1..n |-> g[i]]
<1>5. ASSUME NEW i \in 1..n PROVE f[i] = IF i = 1 THEN w[i] ELSE f[i - 1] \o w[i]
  <2>1. i \in 0..n /\ i - 1 \in 0..n /\ i # 0
    OBVIOUS
  <2>2. f[i] = d[i][g[i - 1]] /\ g[i - 1] \in Seq(P)
    BY <1>4, <2>1 DEF Recursive
  <2>3. d[i][g[i - 1]] = g[i - 1] \o w[i]
    BY <2>2 DEF d
  <2>4. CASE i = 1
    <3>1. g[i - 1] = <<>>
      BY <1>4, <2>1, <2>4 DEF Recursive
    <3>2. w[i] \in Seq(P)
      BY DEF Lists
    <3>3. <<>> \o w[i] = w[i]
      BY <3>2, ConcatEmptySeq
    <3>4. QED
      BY <2>2, <2>3, <2>4, <3>1, <3>3
  <2>5. CASE i # 1
    <3>1. f[i - 1] = g[i - 1]
      BY <2>5
    <3> HIDE DEF f
    <3>2. QED
      BY <2>2, <2>3, <2>5, <3>1
  <2>6. QED
    BY <2>4, <2>5
<1>6. f \in [1..n -> Seq(P)]
  BY <1>4
<1>7. f = [i \in 1..n |-> f[i]]
  OBVIOUS
<1> HIDE DEF f
<1>8. Flattens(f, w, n)
  BY <1>5, <1>7 DEF Flattens
<1>9. QED
  BY <1>6, <1>8

\* FlattenSeq keeps the elements.
LEMMA Flattened ==
  ASSUME NEW P, NEW n \in Nat \ {0}, NEW w \in Lists(n, P), Distinct(w)
  PROVE  FlattenSeq(w) \in Seq(P) /\ IsInjective(FlattenSeq(w)) /\ ToSet(FlattenSeq(w)) = InQueue(w)
<1> DEFINE f == CHOOSE g : Flattens(g, w, n)
<1>1. w \in Seq(Seq(P)) /\ Len(w) = n
  BY DEF Lists
<1>2. FlattenSeq(w) = f[n]
  BY <1>1 DEF FlattenSeq, Flattens
<1>3. Flattens(f, w, n)
  BY FlattenExists
<1> HIDE DEF f
<1>4. \A i \in 1..n : w[i] \in Seq(P) /\ IsInjective(w[i])
  BY DEF Lists, Distinct
<1>5. \A i \in 1..n : f[i] = IF i = 1 THEN w[i] ELSE f[i - 1] \o w[i]
  BY <1>3 DEF Flattens
<1> DEFINE Upto(i) == UNION {ToSet(w[j]) : j \in 1..i}
           Good(i) == f[i] \in Seq(P) /\ IsInjective(f[i]) /\ ToSet(f[i]) = Upto(i)
           T == {m \in Nat : m + 1 <= n => Good(m + 1)}
<1>6. 0 \in T
  <2>1. f[1] = w[1] /\ 1 \in 1..n /\ 1..1 = {1}
    BY <1>5
  <2>2. Good(1)
    BY <1>4, <2>1
  <2>3. QED
    BY <2>2
<1>7. ASSUME NEW m \in Nat, m \in T PROVE m + 1 \in T
  <2>1. SUFFICES ASSUME (m + 1) + 1 <= n PROVE Good((m + 1) + 1)
    OBVIOUS
  <2> DEFINE i == m + 1
  <2>2. i \in 1..n /\ i + 1 \in 1..n /\ i + 1 # 1 /\ (i + 1) - 1 = i /\ Good(i)
    BY <1>7, <2>1
  <2>3. f[i + 1] = f[i] \o w[i + 1]
    BY <1>5, <2>2
  <2> HIDE DEF i
  <2>4. ToSet(f[i]) \cap ToSet(w[i + 1]) = {}
    <3>1. SUFFICES ASSUME NEW x \in Upto(i), x \in ToSet(w[i + 1]) PROVE FALSE
      BY <2>2
    <3>2. PICK j \in 1..i : x \in ToSet(w[j])
      BY <3>1
    <3>3. j \in 1..n /\ j # i + 1 /\ DOMAIN w = 1..n
      BY <2>2, <3>2 DEF Lists
    <3>4. QED
      BY <2>2, <3>1, <3>2, <3>3 DEF Distinct
  <2>5. /\ f[i] \o w[i + 1] \in Seq(P) /\ IsInjective(f[i] \o w[i + 1])
        /\ ToSet(f[i] \o w[i + 1]) = ToSet(f[i]) \cup ToSet(w[i + 1])
    BY <1>4, <2>2, <2>4, ElementsOfConcat
  <2>6. Upto(i + 1) = Upto(i) \cup ToSet(w[i + 1])
    <3>1. 1..(i + 1) = (1..i) \cup {i + 1}
      BY <2>2
    <3>2. QED
      BY <3>1
  <2>7. Good(i + 1)
    BY <2>2, <2>3, <2>5, <2>6
  <2>8. QED
    BY <2>7 DEF i
<1>8. n - 1 \in T
  <2> HIDE DEF T
  <2>1. Nat \subseteq T
    BY <1>6, <1>7, NatSetInduction
  <2>2. QED
    BY <2>1
<1>9. Good(n)
  BY <1>8
<1>10. Upto(n) = InQueue(w)
  BY DEF InQueue, Lists
<1>11. QED
  BY <1>2, <1>9, <1>10

\* A boost brings everyone to the top list.
LEMMA BoostedLists ==
  ASSUME NEW P, NEW n \in Nat \ {0}, NEW w \in Lists(n, P), Distinct(w)
  PROVE  LET v == Boosted(w)
         IN  /\ v \in Lists(n, P) /\ Distinct(v) /\ InQueue(v) = InQueue(w)
             /\ \A j \in 1..n : j # 1 => ToSet(v[j]) = {}
<1> DEFINE t == FlattenSeq(w)
           v == Boosted(w)
<1>1. t \in Seq(P) /\ IsInjective(t) /\ ToSet(t) = InQueue(w)
  BY Flattened
<1>2. DOMAIN w = 1..n /\ 1 \in 1..n
  BY DEF Lists
<1>3. v = [k \in 1..n |-> IF k = 1 THEN t ELSE <<>>]
  BY <1>2 DEF Boosted
<1> HIDE DEF t, v
<1>4. <<>> \in Seq(P) /\ ToSet(<<>>) = {} /\ IsInjective(<<>>)
  BY DEF ToSet, IsInjective
<1>5. v \in Lists(n, P) /\ DOMAIN v = 1..n /\ v[1] = t /\ \A k \in 1..n : k # 1 => v[k] = <<>>
  BY <1>1, <1>2, <1>3, <1>4 DEF Lists
<1>6. \A k \in 1..n : IF k = 1 THEN ToSet(v[k]) = InQueue(w) ELSE ToSet(v[k]) = {}
  BY <1>1, <1>4, <1>5
<1>7. Distinct(v)
  BY <1>1, <1>4, <1>5, <1>6 DEF Distinct
<1>8. InQueue(v) = InQueue(w)
  <2>1. InQueue(v) = UNION {ToSet(v[k]) : k \in 1..n}
    BY <1>5 DEF InQueue
  <2>2. ASSUME NEW x \in InQueue(v) PROVE x \in InQueue(w)
    BY <1>6, <2>1
  <2>3. ASSUME NEW x \in InQueue(w) PROVE x \in InQueue(v)
    BY <1>2, <1>6, <2>1
  <2>4. QED
    BY <2>2, <2>3
<1>9. QED
  BY <1>5, <1>6, <1>7, <1>8 DEF v

-----------------------------------------------------------------------------
\* What the handlers keep.

Records ==
  [arrival_time : Nat, burst_time : Nat, remaining_time : Nat,
   start_time : Int, finish_time : Int, priority : Nat, time_in_queue : Nat]

\* The settings with which an algorithm runs.
LevelsOK(levels) ==
  /\ Len(levels) \in Nat \ {0}
  /\ \A k \in 1..Len(levels) : /\ levels[k].time_quantum \in Nat \cup {-1}
                               /\ levels[k].allotment \in Nat \cup {-1}
  /\ levels[1].time_quantum # 0
SettingsOK ==
  /\ scheduler \in AlgorithmNames
  /\ scheduler = "rr" => quantum_time \in Nat \ {0}
  /\ scheduler = "mlfq" => LevelsOK(Levels) /\ config.boost_period \in Int

\* Under MLFQ, where a record's level limits its time and is not the last: the
\* process may be put on the CPU, and has not overrun by a quantum.
Limited(r) == Levels[r.priority + 1].allotment > 0 /\ r.priority + 1 < Len(Levels)
Within(r) == Limited(r) => r.time_in_queue < Levels[r.priority + 1].allotment
Overrun(r) ==
  Limited(r) /\ Levels[r.priority + 1].time_quantum # -1 =>
    r.time_in_queue < Levels[r.priority + 1].allotment + Levels[r.priority + 1].time_quantum

\* The processes pr, with r on the CPU, w waiting and q the events.
RecordsOK(pr, P) ==
  /\ DOMAIN pr = P
  /\ \A p \in P : pr[p] \in Records /\ (scheduler = "mlfq" => pr[p].priority + 1 \in 1..Len(Levels))
PlacesOK(r, w, q, P) ==
  /\ r \in P \cup {None}
  /\ w \in Lists(ListCount, P) /\ Distinct(w)
  /\ r \notin InQueue(w)
  /\ Arriving(q) \cap InQueue(w) = {} /\ r \notin Arriving(q)
PrioritiesOK(pr, w) ==
  scheduler = "mlfq" =>
    \A j \in 1..ListCount : \A p \in ToSet(w[j]) : pr[p].priority + 1 = j
AllotmentsOK(pr, w, q, P) ==
  scheduler = "mlfq" =>
    \A p \in P : /\ p \in InQueue(w) \cup Arriving(q) => Within(pr[p])
                 /\ Overrun(pr[p])
Good(pr, r, w, q, P) ==
  /\ RecordsOK(pr, P)
  /\ EventsOK(q, P)
  /\ PlacesOK(r, w, q, P)
  /\ PrioritiesOK(pr, w)
  /\ AllotmentsOK(pr, w, q, P)

\* A process runs for no longer than it has left, and under MLFQ not longer than
\* the quantum of its level.
LEMMA RunTimeBounds ==
  ASSUME SettingsOK, NEW P, NEW q \in Seq(EventsOf(P)), NEW r \in Records,
         scheduler = "mlfq" => r.priority + 1 \in 1..Len(Levels), NEW now \in Nat
  PROVE  /\ RunTime(r, now, q) \in Nat
         /\ RunTime(r, now, q) <= r.remaining_time
         /\ scheduler = "mlfq" /\ Levels[r.priority + 1].time_quantum # -1 =>
              RunTime(r, now, q) <= Levels[r.priority + 1].time_quantum
<1>1. r.remaining_time \in Nat
  BY DEF Records
<1>2. CASE scheduler \in {"fcfs", "sjf"}
  BY <1>1, <1>2 DEF RunTime
<1>3. CASE scheduler = "stcf"
  <2> DEFINE T == {k \in 1..Len(q) : q[k].type = "ARRIVAL"}
             next == NextArrival(q)
  <2>1. next = IF T # {} THEN Min(T) ELSE 0
    BY DEF NextArrival, SelectInSeq
  <2>2. next # 0 => next \in 1..Len(q)
    <3>1. Len(q) \in Nat /\ T \subseteq 1..Len(q)
      OBVIOUS
    <3> HIDE DEF T
    <3>2. T # {} => Min(T) \in T
      BY <3>1, LeastPosition
    <3>3. QED
      BY <2>1, <3>1, <3>2
  <2> HIDE DEF next
  <2>3. next # 0 => q[next].time \in Nat
    BY <2>2 DEF EventsOf
  <2>4. RunTime(r, now, q) = IF next # 0 /\ q[next].time > now
                               THEN AtMost(r.remaining_time, q[next].time - now)
                               ELSE r.remaining_time
    BY <1>3 DEF RunTime, IsFuture, next
  <2>5. QED
    BY <1>1, <1>3, <2>3, <2>4 DEF AtMost
<1>4. CASE scheduler = "rr"
  BY <1>1, <1>4 DEF RunTime, AtMost, SettingsOK
<1>5. CASE scheduler = "mlfq"
  <2> DEFINE quantum == Levels[r.priority + 1].time_quantum
  <2>1. quantum \in Nat \cup {-1}
    BY <1>5 DEF SettingsOK, LevelsOK
  <2>2. RunTime(r, now, q) = IF quantum = -1 THEN r.remaining_time
                                             ELSE AtMost(r.remaining_time, quantum)
    BY <1>5 DEF RunTime
  <2> HIDE DEF quantum
  <2>3. /\ RunTime(r, now, q) \in Nat /\ RunTime(r, now, q) <= r.remaining_time
        /\ quantum # -1 => RunTime(r, now, q) <= quantum
    BY <1>1, <2>1, <2>2 DEF AtMost
  <2>4. QED
    BY <2>3 DEF quantum
<1>6. QED
  BY <1>2, <1>3, <1>4, <1>5 DEF SettingsOK, AlgorithmNames

\* The charge changes what has run and when, and keeps the level.
LEMMA ChargedRecord ==
  ASSUME NEW r \in Records, NEW now \in Nat, NEW run \in Nat, run <= r.remaining_time
  PROVE  /\ Charged(r, now, run) \in Records
         /\ Charged(r, now, run).priority = r.priority
         /\ Charged(r, now, run).remaining_time = r.remaining_time - run
         /\ Charged(r, now, run).arrival_time = r.arrival_time
         /\ Charged(r, now, run).burst_time = r.burst_time
         /\ scheduler = "mlfq" => Charged(r, now, run).time_in_queue = r.time_in_queue + run
<1>1. r.start_time \in Int /\ r.finish_time \in Int /\ r.burst_time \in Nat
      /\ r.remaining_time \in Nat /\ r.time_in_queue \in Nat
  BY DEF Records
<1> DEFINE start == IF scheduler \in {"fcfs", "sjf"} \/ r.start_time = UNKNOWN_TIME
                      THEN now ELSE r.start_time
           finish == IF scheduler \in {"fcfs", "sjf"} THEN now + r.burst_time
                     ELSE IF run = r.remaining_time THEN now + run ELSE r.finish_time
           used == IF scheduler = "mlfq" THEN r.time_in_queue + run ELSE r.time_in_queue
<1>2. start \in Int /\ finish \in Int /\ used \in Nat /\ r.remaining_time - run \in Nat
  BY <1>1
<1>3. Charged(r, now, run) =
        [r EXCEPT !.start_time = start, !.finish_time = finish,
                  !.remaining_time = r.remaining_time - run, !.time_in_queue = used]
  BY DEF Charged, Records
<1>4. scheduler = "mlfq" => used = r.time_in_queue + run
  OBVIOUS
<1> HIDE DEF start, finish, used
<1>5. QED
  BY <1>2, <1>3, <1>4 DEF Records

\* Dispatch puts the process on the CPU that was taken for it.
LEMMA Dispatched ==
  ASSUME SettingsOK, NEW P, None \notin P, NEW pr, NEW w, NEW q, NEW p \in P, Good(pr, p, w, q, P),
         scheduler = "mlfq" => Within(pr[p]),
         Now \in Nat, NoneBefore(q, Now), Dispatch(p, pr, w, q)
  PROVE  Good(proc', running', waiting', event_queue', P) /\ NoneBefore(event_queue', Now)
<1> DEFINE run == RunTime(pr[p], Now, q)
           charged == [pr EXCEPT ![p] = Charged(@, Now, run)]
           type == IF charged[p].remaining_time = 0 THEN "COMPLETION" ELSE "QUANTUM_EXPIRE"
           e == Event(Now + run, type, p)
<1>1. /\ running' = p /\ waiting' = w /\ proc' = charged
      /\ event_queue' = EnqueueEvent(q, e, charged, SortsByRemaining(scheduler))
  BY DEF Dispatch
<1>2. /\ pr[p] \in Records /\ DOMAIN pr = P
      /\ scheduler = "mlfq" => pr[p].priority + 1 \in 1..Len(Levels)
  BY DEF Good, RecordsOK
<1>3. /\ run \in Nat /\ run <= pr[p].remaining_time
      /\ scheduler = "mlfq" /\ Levels[pr[p].priority + 1].time_quantum # -1 =>
           run <= Levels[pr[p].priority + 1].time_quantum
  BY <1>2, RunTimeBounds DEF Good, EventsOK
<1> HIDE DEF run
<1>4. /\ charged[p] = Charged(pr[p], Now, run) /\ DOMAIN charged = P
      /\ \A x \in P : x # p => charged[x] = pr[x]
  BY <1>2
<1> HIDE DEF charged
<1>5. /\ charged[p] \in Records /\ charged[p].priority = pr[p].priority
      /\ scheduler = "mlfq" => charged[p].time_in_queue = pr[p].time_in_queue + run
  BY <1>2, <1>3, <1>4, ChargedRecord
<1>6. e \in EventsOf(P) /\ e.type # "ARRIVAL" /\ e.time = Now + run /\ e.type \in EventTypes
  BY <1>3 DEF Event, EventsOf, EventTypes
<1> HIDE DEF e
<1>7. /\ EventsOK(event_queue', P) /\ NoneBefore(event_queue', Now)
      /\ Arriving(event_queue') = Arriving(q)
  BY <1>1, <1>3, <1>6, EnqueuedOK DEF Good
<1>8. RecordsOK(charged, P)
  BY <1>2, <1>4, <1>5 DEF Good, RecordsOK
<1>9. PlacesOK(p, w, event_queue', P)
  BY <1>7 DEF Good, PlacesOK
<1>10. PrioritiesOK(charged, w)
  <2>1. SUFFICES ASSUME scheduler = "mlfq", NEW j \in 1..ListCount, NEW x \in ToSet(w[j])
                 PROVE  charged[x].priority + 1 = j
    BY DEF PrioritiesOK
  <2>2. pr[x].priority + 1 = j
    BY <2>1 DEF Good, PrioritiesOK
  <2>3. x \in P
    BY <2>1 DEF Good, PlacesOK, Lists, ToSet
  <2>4. QED
    BY <1>4, <1>5, <2>2, <2>3
<1>11. AllotmentsOK(charged, w, event_queue', P)
  <2>1. SUFFICES ASSUME scheduler = "mlfq", NEW x \in P
                 PROVE  /\ x \in InQueue(w) \cup Arriving(event_queue') => Within(charged[x])
                        /\ Overrun(charged[x])
    BY DEF AllotmentsOK
  <2>2. /\ x \in InQueue(w) \cup Arriving(q) => Within(pr[x])
        /\ Overrun(pr[x])
    BY <2>1 DEF Good, AllotmentsOK
  <2>3. CASE x # p
    BY <1>4, <1>7, <2>2, <2>3
  <2>4. CASE x = p
    <3>1. p \notin InQueue(w) \cup Arriving(q)
      BY DEF Good, PlacesOK
    <3> DEFINE level == Levels[pr[p].priority + 1]
    <3>2. level.allotment \in Int /\ level.time_quantum \in Int
      BY <1>2, <2>1 DEF SettingsOK, LevelsOK
    <3>3. pr[p].time_in_queue \in Nat
      BY <1>2 DEF Records
    <3>4. Overrun(charged[p])
      <4>1. SUFFICES ASSUME Limited(charged[p]), level.time_quantum # -1
                     PROVE  charged[p].time_in_queue < level.allotment + level.time_quantum
        BY <1>5 DEF Overrun
      <4>2. pr[p].time_in_queue < level.allotment
        BY <1>5, <2>1, <4>1 DEF Within, Limited
      <4>3. run <= level.time_quantum
        BY <1>3, <2>1, <4>1
      <4> HIDE DEF level
      <4>4. QED
        BY <1>3, <1>5, <2>1, <3>2, <3>3, <4>2, <4>3
    <3>5. QED
      BY <1>7, <2>4, <3>1, <3>4
  <2>5. QED
    BY <2>3, <2>4
<1>12. QED
  BY <1>1, <1>7, <1>8, <1>9, <1>10, <1>11 DEF Good

\* DispatchNext puts the first of the queue on the CPU, or nobody.
LEMMA DispatchedNext ==
  ASSUME SettingsOK, NEW P, None \notin P, NEW pr, NEW w, NEW q, Good(pr, None, w, q, P),
         Now \in Nat, NoneBefore(q, Now), DispatchNext(pr, w, q)
  PROVE  Good(proc', running', waiting', event_queue', P) /\ NoneBefore(event_queue', Now)
<1>1. CASE IsEmpty(w)
  <2>1. running' = None /\ waiting' = w /\ proc' = pr /\ event_queue' = q
    BY <1>1 DEF DispatchNext
  <2>2. QED
    BY <2>1
<1>2. CASE ~IsEmpty(w)
  <2> DEFINE p == Taken(scheduler, w)
             v == Left(scheduler, w)
  <2>1. Dispatch(p, pr, v, q)
    BY <1>2 DEF DispatchNext
  <2>2. w \in Lists(ListCount, P) /\ Distinct(w) /\ scheduler \in AlgorithmNames /\ LevelsTyped
    BY DEF Good, PlacesOK, SettingsOK, LevelsTyped, LevelsOK
  <2>3. /\ p \in InQueue(w)
        /\ v \in Lists(ListCount, P) /\ Distinct(v) /\ InQueue(v) = InQueue(w) \ {p}
        /\ scheduler # "rr" => \A j \in 1..ListCount : ToSet(v[j]) \subseteq ToSet(w[j])
    BY <1>2, <2>2, DequeuedWaiting
  <2> HIDE DEF p, v
  <2>4. p \in P
    BY <2>2, <2>3 DEF Lists, InQueue, ToSet
  <2>5. PlacesOK(p, v, q, P)
    BY <2>3, <2>4 DEF Good, PlacesOK
  <2>6. PrioritiesOK(pr, v)
    BY <2>3 DEF Good, PrioritiesOK
  <2>7. AllotmentsOK(pr, v, q, P) /\ (scheduler = "mlfq" => Within(pr[p]))
    BY <2>3, <2>4 DEF Good, AllotmentsOK
  <2>8. Good(pr, p, v, q, P)
    BY <2>5, <2>6, <2>7 DEF Good
  <2>9. QED
    BY <2>1, <2>4, <2>7, <2>8, Dispatched
<1>3. QED
  BY <1>1, <1>2

\* Records that keep their levels and times change nothing of it.
LEMMA GoodRecords ==
  ASSUME NEW P, NEW pr, NEW pr2, NEW r, NEW w, NEW q, Good(pr, r, w, q, P),
         DOMAIN pr2 = P,
         \A p \in P : /\ pr2[p] \in Records
                      /\ pr2[p].priority = pr[p].priority
                      /\ pr2[p].time_in_queue = pr[p].time_in_queue
  PROVE  Good(pr2, r, w, q, P)
<1>1. RecordsOK(pr2, P)
  BY DEF Good, RecordsOK
<1>2. PrioritiesOK(pr2, w)
  <2>1. SUFFICES ASSUME scheduler = "mlfq", NEW j \in 1..ListCount, NEW x \in ToSet(w[j])
                 PROVE  pr2[x].priority + 1 = j
    BY DEF PrioritiesOK
  <2>2. x \in P
    BY <2>1 DEF Good, PlacesOK, Lists, ToSet
  <2>3. QED
    BY <2>1, <2>2 DEF Good, PrioritiesOK
<1>3. AllotmentsOK(pr2, w, q, P)
  <2>1. \A p \in P : (Within(pr[p]) => Within(pr2[p])) /\ (Overrun(pr[p]) => Overrun(pr2[p]))
    BY DEF Within, Overrun, Limited
  <2>2. QED
    BY <2>1 DEF Good, AllotmentsOK
<1>4. QED
  BY <1>1, <1>2, <1>3 DEF Good

\* Taking the first event: the others come later, and the process that arrives
\* is nowhere yet.
LEMMA FirstEvent ==
  ASSUME NEW P, None \notin P, Good(proc, running, waiting, event_queue, P), event_queue # <<>>
  PROVE  /\ Now \in Nat /\ NoneBefore(Tail(event_queue), Now)
         /\ Good(proc, running, waiting, Tail(event_queue), P)
         /\ Head(event_queue) \in EventsOf(P)
         /\ \A time : NoneBefore(event_queue, time) => time <= Now
         /\ Head(event_queue).type = "ARRIVAL" =>
              /\ Subject \in P /\ Subject \notin InQueue(waiting) /\ Subject # running
              /\ Subject \notin Arriving(Tail(event_queue))
              /\ scheduler = "mlfq" => Within(proc[Subject])
<1> DEFINE q == event_queue
           t == Tail(event_queue)
<1>1. q \in Seq(EventsOf(P)) /\ EventsOK(q, P)
  BY DEF Good, EventsOK
<1>2. t \in Seq(EventsOf(P)) /\ Removed(t, q, 1) /\ Len(q) \in Nat \ {0} /\ Head(q) = q[1]
      /\ Head(q) \in EventsOf(P)
  BY <1>1, TailRemoves
<1>3. 1 \in 1..Len(q)
  BY <1>2
<1> HIDE DEF t
<1>4. /\ EventsOK(t, P)
      /\ Arriving(t) = IF q[1].type = "ARRIVAL" THEN Arriving(q) \ {q[1].process} ELSE Arriving(q)
  BY <1>1, <1>2, <1>3, RemovedOK
<1>5. Now \in Nat /\ Now = q[1].time
  BY <1>2 DEF EventsOf, Now
<1>6. NoneBefore(q, Now)
  <2>1. \A k \in 1..Len(q) : q[1].time <= q[k].time
    BY <1>1, <1>2, <1>3 DEF EventsOK, InOrder
  <2>2. QED
    BY <1>5, <2>1 DEF NoneBefore
<1>7. NoneBefore(t, Now)
  BY <1>1, <1>2, <1>3, <1>6, RemovedOK
<1>8. Good(proc, running, waiting, t, P)
  <2>1. PlacesOK(running, waiting, t, P)
    BY <1>4 DEF Good, PlacesOK
  <2>2. AllotmentsOK(proc, waiting, t, P)
    BY <1>4 DEF Good, AllotmentsOK
  <2>3. QED
    BY <1>4, <2>1, <2>2 DEF Good
<1>9. ASSUME Head(q).type = "ARRIVAL"
      PROVE  /\ Subject \in P /\ Subject \notin InQueue(waiting) /\ Subject # running
             /\ Subject \notin Arriving(t)
             /\ scheduler = "mlfq" => Within(proc[Subject])
  <2>1. Subject = q[1].process /\ q[1].type = "ARRIVAL"
    BY <1>2, <1>9 DEF Subject
  <2>2. Subject \in P /\ Subject \in Arriving(q)
    BY <1>2, <1>3, <2>1 DEF EventsOf, Arriving
  <2>3. QED
    BY <1>4, <2>1, <2>2 DEF Good, PlacesOK, AllotmentsOK
<1>10. \A time : NoneBefore(q, time) => time <= Now
  BY <1>3, <1>5 DEF NoneBefore
<1>11. QED
  BY <1>2, <1>5, <1>7, <1>8, <1>9, <1>10 DEF t

\* Someone who waits, put back or arriving, waits in the place of its level.
LEMMA EnqueuedGood ==
  ASSUME SettingsOK, NEW P, None \notin P, NEW pr, NEW r, NEW w, NEW q, Good(pr, r, w, q, P),
         NEW p \in P, p \notin InQueue(w), p # r, p \notin Arriving(q),
         scheduler = "mlfq" => Within(pr[p])
  PROVE  /\ Good(pr, r, Enqueue(scheduler, w, p, pr), q, P)
         /\ InQueue(Enqueue(scheduler, w, p, pr)) = InQueue(w) \cup {p}
<1> DEFINE v == Enqueue(scheduler, w, p, pr)
<1>1. /\ scheduler \in AlgorithmNames /\ LevelsTyped
      /\ w \in Lists(ListCount, P) /\ Distinct(w)
      /\ scheduler = "mlfq" => pr[p].priority + 1 \in 1..Len(Levels)
  BY DEF Good, PlacesOK, RecordsOK, SettingsOK, LevelsTyped, LevelsOK
<1>2. v \in Lists(ListCount, P) /\ Distinct(v) /\ InQueue(v) = InQueue(w) \cup {p}
  BY <1>1, EnqueuedWaiting
<1>3. scheduler = "mlfq" => \A j \in 1..ListCount :
        \A x \in ToSet(v[j]) : x \in ToSet(w[j]) \/ (j = pr[p].priority + 1 /\ x = p)
  BY <1>1, EnqueuedWaiting
<1> HIDE DEF v
<1>4. PlacesOK(r, v, q, P)
  BY <1>2 DEF Good, PlacesOK
<1>5. PrioritiesOK(pr, v)
  BY <1>3 DEF Good, PrioritiesOK
<1>6. AllotmentsOK(pr, v, q, P)
  BY <1>2 DEF Good, AllotmentsOK
<1>7. QED
  BY <1>2, <1>4, <1>5, <1>6 DEF Good, v

\* The same with a list chosen by Push.
LEMMA PushedGood ==
  ASSUME SettingsOK, NEW P, None \notin P, NEW pr, NEW r, NEW w, NEW q, Good(pr, r, w, q, P),
         NEW k \in 1..ListCount,
         NEW p \in P, p \notin InQueue(w), p # r, p \notin Arriving(q),
         scheduler = "mlfq" => Within(pr[p]) /\ pr[p].priority + 1 = k
  PROVE  /\ Good(pr, r, Push(w, k, p), q, P)
         /\ InQueue(Push(w, k, p)) = InQueue(w) \cup {p}
<1> DEFINE v == Push(w, k, p)
<1>1. ListCount \in Nat /\ w \in Lists(ListCount, P) /\ Distinct(w)
  BY DEF Good, PlacesOK, SettingsOK, LevelsOK, ListCount, NumLists, AlgorithmNames
<1>2. v \in Lists(ListCount, P) /\ Distinct(v) /\ InQueue(v) = InQueue(w) \cup {p}
  BY <1>1, Pushed
<1>3. \A j \in 1..ListCount : \A x \in ToSet(v[j]) : x \in ToSet(w[j]) \/ (j = k /\ x = p)
  BY <1>1, Pushed
<1> HIDE DEF v
<1>4. PlacesOK(r, v, q, P)
  BY <1>2 DEF Good, PlacesOK
<1>5. PrioritiesOK(pr, v)
  BY <1>3 DEF Good, PrioritiesOK
<1>6. AllotmentsOK(pr, v, q, P)
  BY <1>2 DEF Good, AllotmentsOK
<1>7. QED
  BY <1>2, <1>4, <1>5, <1>6 DEF Good, v

\* Taking the running process off the CPU leaves it nowhere; it can be taken to
\* be in no queue.
LEMMA OffTheCpu ==
  ASSUME NEW P, NEW pr, NEW r, NEW w, NEW q, None \notin P, Good(pr, r, w, q, P)
  PROVE  Good(pr, None, w, q, P)
<1>1. None \notin InQueue(w) /\ None \notin Arriving(q)
  <2>1. w \in Lists(ListCount, P) /\ q \in Seq(EventsOf(P))
    BY DEF Good, PlacesOK, EventsOK
  <2>2. \A k \in DOMAIN w : ToSet(w[k]) \subseteq P
    BY <2>1 DEF Lists, ToSet
  <2>3. \A k \in 1..Len(q) : q[k].type = "ARRIVAL" => q[k].process \in P
    BY <2>1 DEF EventsOf
  <2>4. QED
    BY <2>2, <2>3 DEF InQueue, Arriving
<1>2. PlacesOK(None, w, q, P)
  BY <1>1 DEF Good, PlacesOK
<1>3. QED
  BY <1>2 DEF Good

\* A process that is nowhere may change its record within the levels.
LEMMA GoodWithout ==
  ASSUME NEW P, NEW pr, NEW w, NEW q, Good(pr, None, w, q, P),
         NEW p \in P, p \notin InQueue(w), p \notin Arriving(q), NEW rec \in Records,
         scheduler = "mlfq" => rec.priority + 1 \in 1..Len(Levels) /\ Overrun(rec)
  PROVE  Good([pr EXCEPT ![p] = rec], None, w, q, P)
<1> DEFINE pr2 == [pr EXCEPT ![p] = rec]
<1>1. DOMAIN pr2 = P /\ pr2[p] = rec /\ \A x \in P : x # p => pr2[x] = pr[x]
  BY DEF Good, RecordsOK
<1> HIDE DEF pr2
<1>2. RecordsOK(pr2, P)
  BY <1>1 DEF Good, RecordsOK
<1>3. PrioritiesOK(pr2, w)
  <2>1. SUFFICES ASSUME scheduler = "mlfq", NEW j \in 1..ListCount, NEW x \in ToSet(w[j])
                 PROVE  pr2[x].priority + 1 = j
    BY DEF PrioritiesOK
  <2>2. x \in P /\ x \in InQueue(w)
    BY <2>1 DEF Good, PlacesOK, Lists, ToSet, InQueue
  <2>3. QED
    BY <1>1, <2>1, <2>2 DEF Good, PrioritiesOK
<1>4. AllotmentsOK(pr2, w, q, P)
  BY <1>1 DEF Good, AllotmentsOK
<1>5. QED
  BY <1>2, <1>3, <1>4 DEF Good, pr2

\* handle_arrival.
LEMMA ArrivalGood ==
  ASSUME SettingsOK, NEW P, None \notin P, Good(proc, running, waiting, event_queue, P),
         handle_arrival
  PROVE  Good(proc', running', waiting', event_queue', P) /\ NoneBefore(event_queue', Now)
<1> DEFINE s == Subject
           t == Tail(event_queue)
<1>1. /\ event_queue # <<>> /\ Head(event_queue).type = "ARRIVAL"
      /\ ArrivalDispatches \/ ArrivalPreempts \/ ArrivalWaits
  BY DEF handle_arrival, Handle
<1>2. /\ Now \in Nat /\ NoneBefore(t, Now) /\ Good(proc, running, waiting, t, P)
      /\ s \in P /\ s \notin InQueue(waiting) /\ s # running /\ s \notin Arriving(t)
      /\ scheduler = "mlfq" => Within(proc[s])
  BY <1>1, FirstEvent
<1> HIDE DEF s, t
<1>3. ASSUME NEW q, NEW w, Good(proc, running, w, q, P), s \notin InQueue(w), s \notin Arriving(q)
      PROVE  Good(proc, s, w, q, P)
  BY <1>2, <1>3 DEF Good, PlacesOK
<1>4. CASE ArrivalDispatches
  <2>1. Dispatch(s, proc, waiting, t)
    BY <1>4 DEF ArrivalDispatches, s, t
  <2>2. Good(proc, s, waiting, t, P)
    BY <1>2, <1>3
  <2>3. QED
    BY <1>2, <2>1, <2>2, Dispatched
<1>5. CASE ArrivalPreempts
  <2> DEFINE w == Enqueue(scheduler, waiting, running, proc)
             q == RemoveEvent(t, running)
  <2>1. Dispatch(s, proc, w, q) /\ running # None /\ scheduler = "stcf"
    BY <1>5 DEF ArrivalPreempts, Preempts, s, t
  <2>2. running \in P /\ running \notin InQueue(waiting) /\ running \notin Arriving(t)
    BY <1>2, <2>1 DEF Good, PlacesOK
  <2>3. Good(proc, None, waiting, t, P)
    BY <1>2, OffTheCpu
  <2>4. Good(proc, None, w, t, P)
    BY <2>1, <2>2, <2>3, EnqueuedGood
  <2>5. waiting \in Lists(ListCount, P) /\ Distinct(waiting)
        /\ scheduler \in AlgorithmNames /\ LevelsTyped
    BY <1>2, <2>1 DEF Good, PlacesOK, SettingsOK, LevelsTyped
  <2>6. InQueue(w) = InQueue(waiting) \cup {running}
    BY <2>1, <2>2, <2>5, EnqueuedWaiting
  <2> HIDE DEF w
  <2>7. EventsOK(q, P) /\ NoneBefore(q, Now) /\ Arriving(q) \subseteq Arriving(t)
    <3>1. EventsOK(t, P) /\ t \in Seq(EventsOf(P))
      BY <1>2 DEF Good, EventsOK
    <3>2. CASE q = t
      BY <1>2, <3>1, <3>2
    <3>3. CASE \E i \in 1..Len(t) : Removed(q, t, i)
      <4>1. q \in Seq(EventsOf(P))
        BY <3>1, RemovedEvent
      <4> HIDE DEF q
      <4>2. QED
        BY <1>2, <3>1, <3>3, <4>1, RemovedOK
    <3>4. QED
      BY <3>1, <3>2, <3>3, RemovedEvent
  <2> HIDE DEF q
  <2>8. Good(proc, s, w, q, P)
    <3>1. PlacesOK(s, w, q, P)
      BY <1>2, <2>4, <2>6, <2>7 DEF Good, PlacesOK
    <3>2. AllotmentsOK(proc, w, q, P)
      BY <2>1 DEF AllotmentsOK
    <3>3. QED
      BY <2>4, <2>7, <3>1, <3>2 DEF Good
  <2>9. QED
    BY <1>2, <2>1, <2>7, <2>8, Dispatched
<1>6. CASE ArrivalWaits
  <2>1. /\ running' = running /\ waiting' = Enqueue(scheduler, waiting, s, proc)
        /\ proc' = proc /\ event_queue' = t
    BY <1>6 DEF ArrivalWaits, s, t
  <2>2. Good(proc, running, Enqueue(scheduler, waiting, s, proc), t, P)
    BY <1>2, EnqueuedGood
  <2>3. QED
    BY <1>2, <2>1, <2>2
<1>7. QED
  BY <1>1, <1>4, <1>5, <1>6

\* Ending the running process changes a finish time only.
LEMMA FinishGood ==
  ASSUME NEW P, None \notin P, NEW q, Good(proc, running, waiting, q, P), NEW time \in Nat
  PROVE  Good(FinishRunning(time), running, waiting, q, P)
<1> DEFINE pr == FinishRunning(time)
<1>1. /\ DOMAIN proc = P /\ running \in P \cup {None}
      /\ \A p \in P : proc[p] \in Records
  BY DEF Good, RecordsOK, PlacesOK
<1>2. /\ DOMAIN pr = P
      /\ \A p \in P : /\ pr[p] \in Records
                      /\ pr[p].priority = proc[p].priority
                      /\ pr[p].time_in_queue = proc[p].time_in_queue
  <2>1. CASE running # None /\ proc[running].finish_time = UNKNOWN_TIME
    <3>1. pr = [proc EXCEPT ![running].finish_time = time] /\ running \in P
      BY <1>1, <2>1 DEF FinishRunning
    <3>2. pr[running] = [proc[running] EXCEPT !.finish_time = time] /\ DOMAIN pr = P
          /\ \A p \in P : p # running => pr[p] = proc[p]
      BY <1>1, <3>1
    <3>3. proc[running] \in Records
      BY <1>1, <3>1
    <3>4. /\ pr[running] \in Records /\ pr[running].priority = proc[running].priority
          /\ pr[running].time_in_queue = proc[running].time_in_queue
      BY <3>2, <3>3 DEF Records
    <3>5. QED
      BY <1>1, <3>2, <3>4
  <2>2. CASE ~(running # None /\ proc[running].finish_time = UNKNOWN_TIME)
    BY <1>1, <2>2 DEF FinishRunning
  <2>3. QED
    BY <2>1, <2>2
<1>3. QED
  BY <1>2, GoodRecords

\* handle_completion.
LEMMA CompletionGood ==
  ASSUME SettingsOK, NEW P, None \notin P, Good(proc, running, waiting, event_queue, P),
         handle_completion
  PROVE  Good(proc', running', waiting', event_queue', P) /\ NoneBefore(event_queue', Now)
<1>1. event_queue # <<>> /\ DispatchNext(FinishRunning(Now), waiting, Tail(event_queue))
  BY DEF handle_completion, Handle
<1>2. /\ Now \in Nat /\ NoneBefore(Tail(event_queue), Now)
      /\ Good(proc, running, waiting, Tail(event_queue), P)
  BY <1>1, FirstEvent
<1>3. Good(FinishRunning(Now), running, waiting, Tail(event_queue), P)
  BY <1>2, FinishGood
<1>4. Good(FinishRunning(Now), None, waiting, Tail(event_queue), P)
  BY <1>3, OffTheCpu
<1>5. QED
  BY <1>1, <1>2, <1>4, DispatchedNext

\* A record that moves to the level k + 1, its time there starting anew.
AtLevel(r, k) == [r EXCEPT !.priority = k, !.time_in_queue = 0]
\* It is a record of that level.
LEMMA MovedRecord ==
  ASSUME NEW r \in Records, NEW k \in Nat
  PROVE  AtLevel(r, k) \in Records /\ AtLevel(r, k).priority = k
         /\ AtLevel(r, k).time_in_queue = 0
BY DEF AtLevel, Records

\* The process whose quantum expires is put back at the end of its level, or
\* of the next one if its allotment there is used up.
LEMMA PutBackGood ==
  ASSUME SettingsOK, NEW P, None \notin P, NEW t, Good(proc, running, waiting, t, P)
  PROVE  /\ Good(AfterDemotion, None, PutBack, t, P)
         /\ InQueue(PutBack) = InQueue(waiting) \cup ({running} \ {None})
<1>1. Good(proc, None, waiting, t, P)
  BY OffTheCpu
<1>2. CASE running = None
  <2>1. AfterDemotion = proc /\ PutBack = waiting
    BY <1>2 DEF AfterDemotion, PutBack
  <2>2. QED
    BY <1>1, <1>2, <2>1
<1>3. CASE running # None
  <2>1. running \in P /\ running \notin InQueue(waiting) /\ running \notin Arriving(t)
    BY <1>3 DEF Good, PlacesOK
  <2>2. /\ proc[running] \in Records
        /\ scheduler = "mlfq" => /\ proc[running].priority + 1 \in 1..Len(Levels)
                                 /\ Overrun(proc[running])
    BY <2>1 DEF Good, RecordsOK, AllotmentsOK
  <2>3. CASE scheduler = "rr"
    <3>1. AfterDemotion = proc /\ PutBack = Push(waiting, 2, running)
      BY <1>3, <2>3 DEF AfterDemotion, Demoted, PutBack, Requeue, Round
    <3>2. 2 \in 1..ListCount
      BY <2>3 DEF ListCount, NumLists
    <3>3. /\ Good(proc, None, Push(waiting, 2, running), t, P)
          /\ InQueue(Push(waiting, 2, running)) = InQueue(waiting) \cup {running}
      BY <1>1, <1>3, <2>1, <2>3, <3>2, PushedGood
    <3>4. QED
      BY <1>3, <3>1, <3>3
  <2>4. CASE scheduler # "rr" /\ ~Demoted(running)
    <3>1. AfterDemotion = proc /\ PutBack = Enqueue(scheduler, waiting, running, proc)
      BY <1>3, <2>4 DEF AfterDemotion, PutBack
    <3>2. scheduler = "mlfq" => Within(proc[running])
      <4>1. SUFFICES ASSUME scheduler = "mlfq", Limited(proc[running])
                     PROVE  proc[running].time_in_queue < AllotmentOf(running)
        BY DEF Within, AllotmentOf
      <4> DEFINE level == proc[running].priority + 1
      <4>2. AllotmentOf(running) > 0 /\ AllotmentOf(running) \in Nat \cup {-1}
            /\ ~(level >= Len(Levels))
        BY <2>2, <4>1 DEF Limited, AllotmentOf, SettingsOK, LevelsOK
      <4>3. ~(proc[running].time_in_queue >= AllotmentOf(running))
        BY <2>4, <4>1, <4>2 DEF Demoted, BottomLevel
      <4>4. proc[running].time_in_queue \in Nat
        BY <2>2 DEF Records
      <4>5. QED
        BY <4>2, <4>3, <4>4
    <3>3. /\ Good(proc, None, Enqueue(scheduler, waiting, running, proc), t, P)
          /\ InQueue(Enqueue(scheduler, waiting, running, proc)) = InQueue(waiting) \cup {running}
      BY <1>1, <1>3, <2>1, <3>2, EnqueuedGood
    <3>4. QED
      BY <1>3, <3>1, <3>3
  <2>5. CASE scheduler # "rr" /\ Demoted(running)
    <3> DEFINE k == proc[running].priority
               rec == AtLevel(proc[running], k + 1)
    <3>1. scheduler = "mlfq" /\ ~(k + 1 >= Len(Levels)) /\ Len(Levels) \in Nat
      BY <2>5 DEF Demoted, BottomLevel, SettingsOK, LevelsOK
    <3>2. k \in Nat /\ k + 1 \in 1..Len(Levels) /\ (k + 1) + 1 \in 1..Len(Levels)
      BY <2>2, <3>1 DEF Records
    <3>3. rec \in Records /\ rec.priority = k + 1 /\ rec.time_in_queue = 0
      <4>1. k + 1 \in Nat
        BY <3>2
      <4>2. QED
        BY <2>2, <4>1, MovedRecord
    <3>4. AfterDemotion = [proc EXCEPT ![running] = rec]
      BY <1>3, <2>5 DEF AfterDemotion, AtLevel
    <3>5. PutBack = Move(waiting, running, k, k + 1)
      BY <1>3, <2>5 DEF PutBack
    <3> HIDE DEF rec, k
    <3>6. Overrun(rec) /\ Within(rec)
      <4> DEFINE level == Levels[rec.priority + 1]
      <4>1. level.allotment \in Nat \cup {-1} /\ level.time_quantum \in Nat \cup {-1}
        BY <3>1, <3>2, <3>3 DEF SettingsOK, LevelsOK
      <4>2. QED
        BY <3>3, <4>1 DEF Overrun, Within, Limited
    <3>7. Good(AfterDemotion, None, waiting, t, P)
      BY <1>1, <2>1, <3>1, <3>2, <3>3, <3>4, <3>6, GoodWithout
    <3>8. ListCount = Len(Levels) /\ waiting \in Lists(ListCount, P) /\ ListCount \in Nat
      BY <1>1, <3>1 DEF Good, PlacesOK, ListCount, NumLists
    <3>9. PutBack = Push(waiting, (k + 1) + 1, running)
      <4>1. k + 1 \in 1..ListCount
        BY <3>2, <3>8
      <4>2. Move(waiting, running, k, k + 1) = Push(waiting, (k + 1) + 1, running)
        BY <2>1, <3>8, <4>1, MoveIsPush
      <4>3. QED
        BY <3>5, <4>2
    <3>10. AfterDemotion[running] = rec
      BY <1>1, <2>1, <3>4 DEF Good, RecordsOK
    <3>11. /\ Good(AfterDemotion, None, Push(waiting, (k + 1) + 1, running), t, P)
           /\ InQueue(Push(waiting, (k + 1) + 1, running)) = InQueue(waiting) \cup {running}
      BY <1>3, <2>1, <3>2, <3>3, <3>6, <3>7, <3>8, <3>10, PushedGood
    <3>12. QED
      BY <1>3, <3>9, <3>11
  <2>6. QED
    BY <2>3, <2>4, <2>5
<1>4. QED
  BY <1>2, <1>3

\* handle_quantum_expire.
LEMMA ExpireGood ==
  ASSUME SettingsOK, NEW P, None \notin P, Good(proc, running, waiting, event_queue, P),
         handle_quantum_expire
  PROVE  Good(proc', running', waiting', event_queue', P) /\ NoneBefore(event_queue', Now)
<1>1. event_queue # <<>> /\ DispatchNext(AfterDemotion, PutBack, Tail(event_queue))
  BY DEF handle_quantum_expire, Handle
<1>2. /\ Now \in Nat /\ NoneBefore(Tail(event_queue), Now)
      /\ Good(proc, running, waiting, Tail(event_queue), P)
  BY <1>1, FirstEvent
<1>3. Good(AfterDemotion, None, PutBack, Tail(event_queue), P)
  BY <1>2, PutBackGood
<1>4. QED
  BY <1>1, <1>2, <1>3, DispatchedNext

\* A boost takes everyone who waits, and the running process, to the top level.
LEMMA BoostedGood ==
  ASSUME SettingsOK, NEW P, None \notin P, NEW t, Good(proc, running, waiting, t, P)
  PROVE  Good(BoostedProcesses, None, BoostedQueue, t, P)
<1> DEFINE pr == BoostedProcesses
           w == Boosted(waiting)
           moved == InQueue(waiting) \cup {running}
<1>1. /\ DOMAIN proc = P /\ running \in P \cup {None} /\ running \notin InQueue(waiting)
      /\ waiting \in Lists(ListCount, P) /\ Distinct(waiting) /\ running \notin Arriving(t)
      /\ Arriving(t) \cap InQueue(waiting) = {}
      /\ \A p \in P : proc[p] \in Records
  BY DEF Good, RecordsOK, PlacesOK
<1>2. ListCount \in Nat \ {0} /\ (scheduler = "mlfq" => ListCount = Len(Levels))
  BY DEF SettingsOK, LevelsOK, ListCount, NumLists, AlgorithmNames
<1>3. /\ DOMAIN pr = P
      /\ \A p \in P : p \notin moved => pr[p] = proc[p]
      /\ \A p \in P : p \in moved =>
           pr[p] = AtLevel(proc[p], 0)
  BY <1>1 DEF BoostedProcesses, Processes, AtLevel
<1> HIDE DEF pr
<1>4. \A p \in P : p \in moved =>
        pr[p] \in Records /\ pr[p].priority = 0 /\ pr[p].time_in_queue = 0
  BY <1>1, <1>3, MovedRecord
<1>5. w \in Lists(ListCount, P) /\ Distinct(w) /\ InQueue(w) = InQueue(waiting)
      /\ \A j \in 1..ListCount : j # 1 => ToSet(w[j]) = {}
  BY <1>1, <1>2, BoostedLists
<1> HIDE DEF w
<1>6. \A p \in P : p \in moved /\ scheduler = "mlfq" => Within(pr[p]) /\ Overrun(pr[p])
  <2>1. SUFFICES ASSUME NEW p \in P, p \in moved, scheduler = "mlfq"
                 PROVE  Within(pr[p]) /\ Overrun(pr[p])
    OBVIOUS
  <2>2. pr[p].priority + 1 = 1 /\ pr[p].time_in_queue = 0 /\ 1 \in 1..Len(Levels)
    BY <1>2, <1>4, <2>1
  <2>3. Levels[1].allotment \in Nat \cup {-1} /\ Levels[1].time_quantum \in Nat \cup {-1}
    BY <2>1, <2>2 DEF SettingsOK, LevelsOK
  <2>4. QED
    BY <2>2, <2>3 DEF Within, Overrun, Limited
<1>7. RecordsOK(pr, P)
  <2>1. ASSUME NEW p \in P
        PROVE  /\ pr[p] \in Records
               /\ scheduler = "mlfq" => pr[p].priority + 1 \in 1..Len(Levels)
    <3>1. CASE p \in moved
      BY <1>2, <1>4, <3>1
    <3>2. CASE p \notin moved
      BY <1>3, <3>2 DEF Good, RecordsOK
    <3>3. QED
      BY <3>1, <3>2
  <2>2. QED
    BY <1>3, <2>1 DEF RecordsOK
<1>8. PlacesOK(running, w, t, P)
  BY <1>5 DEF Good, PlacesOK
<1>9. PrioritiesOK(pr, w)
  <2>1. SUFFICES ASSUME scheduler = "mlfq", NEW j \in 1..ListCount, NEW x \in ToSet(w[j])
                 PROVE  pr[x].priority + 1 = j
    BY DEF PrioritiesOK
  <2>2. j = 1 /\ x \in InQueue(w) /\ x \in P
    <3>1. j = 1 /\ w[j] \in Seq(P) /\ DOMAIN w = 1..ListCount
      BY <1>5, <2>1 DEF Lists
    <3>2. x \in InQueue(w)
      BY <2>1, <3>1 DEF InQueue
    <3>3. x \in P
      BY <2>1, <3>1 DEF ToSet
    <3>4. QED
      BY <3>1, <3>2, <3>3
  <2>3. QED
    BY <1>4, <1>5, <2>2
<1>10. AllotmentsOK(pr, w, t, P)
  <2>1. SUFFICES ASSUME scheduler = "mlfq", NEW p \in P
                 PROVE  /\ p \in InQueue(w) \cup Arriving(t) => Within(pr[p])
                        /\ Overrun(pr[p])
    BY DEF AllotmentsOK
  <2>2. CASE p \in moved
    BY <1>6, <2>1, <2>2
  <2>3. CASE p \notin moved
    BY <1>3, <1>5, <2>1, <2>3 DEF Good, AllotmentsOK
  <2>4. QED
    BY <2>2, <2>3
<1>11. Good(pr, running, w, t, P)
  BY <1>7, <1>8, <1>9, <1>10 DEF Good
<1>12. Good(pr, None, BoostedQueue, t, P)
  <2>1. Good(pr, None, w, t, P)
    BY <1>11, OffTheCpu
  <2>2. CASE running = None
    <3>1. BoostedQueue = w
      BY <2>2 DEF BoostedQueue, w
    <3>2. QED
      BY <2>1, <3>1
  <2>3. CASE running # None
    <3>1. BoostedQueue = Push(w, 1, running)
      BY <2>3 DEF BoostedQueue, w
    <3>2. running \in P /\ running \notin InQueue(w) /\ running \notin Arriving(t)
          /\ 1 \in 1..ListCount
      BY <1>1, <1>2, <1>5, <2>3
    <3>3. scheduler = "mlfq" => Within(pr[running]) /\ pr[running].priority + 1 = 1
      BY <1>4, <1>6, <3>2
    <3>4. Good(pr, None, Push(w, 1, running), t, P)
      BY <2>1, <2>3, <3>2, <3>3, PushedGood
    <3>5. QED
      BY <3>1, <3>4
  <2>4. QED
    BY <2>2, <2>3
<1>13. QED
  BY <1>12 DEF pr

\* handle_priority_boost.
LEMMA BoostGood ==
  ASSUME SettingsOK, NEW P, None \notin P, Good(proc, running, waiting, event_queue, P),
         handle_priority_boost
  PROVE  Good(proc', running', waiting', event_queue', P) /\ NoneBefore(event_queue', Now)
<1> DEFINE t == Tail(event_queue)
<1>1. event_queue # <<>>
  BY DEF handle_priority_boost, Handle
<1>2. Now \in Nat /\ NoneBefore(t, Now) /\ Good(proc, running, waiting, t, P)
  BY <1>1, FirstEvent
<1> HIDE DEF t
<1>3. CASE running # None /\ proc[running].remaining_time = 0
  <2>1. event_queue' = t /\ running' = running /\ waiting' = waiting /\ proc' = proc
    BY <1>3 DEF handle_priority_boost, t
  <2>2. QED
    BY <1>2, <2>1
<1>4. CASE ~(running # None /\ proc[running].remaining_time = 0)
  <2>1. DispatchNext(BoostedProcesses, BoostedQueue, t)
    BY <1>4 DEF handle_priority_boost, t
  <2>2. Good(BoostedProcesses, None, BoostedQueue, t, P)
    BY <1>2, BoostedGood
  <2>3. QED
    BY <1>2, <2>1, <2>2, DispatchedNext
<1>5. QED
  BY <1>3, <1>4

-----------------------------------------------------------------------------
\* The start of a simulation.

\* initialize_events inserts the arrivals one by one.
LEMMA ArrivalsUnfold ==
  ASSUME NEW n \in Nat, NEW pr \in [1..n -> Records], NEW b
  PROVE  \E queue :
           /\ queue[0] = <<>> /\ ArrivalEvents(pr, b) = queue[n]
           /\ \A m \in 1..n :
                queue[m] = EnqueueEvent(queue[m - 1],
                                        Event(pr[m].arrival_time, "ARRIVAL", m), pr, b)
<1> DEFINE S == Seq(EventsOf(1..n))
           arrival(m) == Event(pr[m].arrival_time, "ARRIVAL", m)
           F(f) == [m \in 0..n |-> IF m = 0 THEN <<>>
                                   ELSE EnqueueEvent(f[m - 1], arrival(m), pr, b)]
           d == [m \in 1..n |-> [q \in S |-> EnqueueEvent(q, arrival(m), pr, b)]]
           queue == CHOOSE f : f = F(f)
<1>1. \A m \in 1..n : arrival(m) \in EventsOf(1..n)
  BY DEF Event, EventsOf, EventTypes, Records
<1>2. Len(pr) = n
  OBVIOUS
<1>3. ArrivalEvents(pr, b) = queue[n]
  BY <1>2 DEF ArrivalEvents
<1> HIDE DEF arrival
<1>4. \E f \in [0..n -> S] : f = F(f)
  <2>1. \A m \in 1..n, q \in S : EnqueueEvent(q, arrival(m), pr, b) \in S
    BY <1>1, EnqueuedAt
  <2>2. d \in [1..n -> [S -> S]]
    BY <2>1
  <2>3. <<>> \in S
    OBVIOUS
  <2> HIDE DEF d, S
  <2>4. PICK f \in [0..n -> S] : Recursive(f, n, <<>>, d)
    BY <2>2, <2>3, RecursionExists
  <2>5. \A m \in 0..n : f[m] = IF m = 0 THEN <<>> ELSE d[m][f[m - 1]]
    BY <2>4 DEF Recursive
  <2>6. \A m \in 0..n : m # 0 => m \in 1..n /\ m - 1 \in 0..n /\ f[m - 1] \in S
    BY <2>4
  <2>7. \A m \in 0..n : m # 0 => d[m][f[m - 1]] = EnqueueEvent(f[m - 1], arrival(m), pr, b)
    BY <2>6 DEF d
  <2>8. f = F(f)
    BY <2>4, <2>5, <2>7
  <2>9. QED
    BY <2>4, <2>8
<1>5. queue = F(queue)
  <2> HIDE DEF F
  <2>1. QED
    BY <1>4
<1> HIDE DEF queue
<1>6. queue[0] = <<>>
      /\ \A m \in 1..n : queue[m] = EnqueueEvent(queue[m - 1], arrival(m), pr, b)
  BY <1>5
<1>7. QED
  BY <1>3, <1>6 DEF arrival

\* The arrivals, in the order of the workload: each process has one.
LEMMA ArrivalsOK ==
  ASSUME NEW n \in Nat, NEW pr \in [1..n -> Records], NEW b,
         NEW E, \A m \in 1..n : Event(pr[m].arrival_time, "ARRIVAL", m) \in E
  PROVE  LET q == ArrivalEvents(pr, b)
         IN  EventsOK(q, 1..n) /\ NoneBefore(q, 0) /\ q \in Seq(E) /\ Arriving(q) = 1..n
<1> DEFINE S == Seq(E)
           arrival(m) == Event(pr[m].arrival_time, "ARRIVAL", m)
<1>1. \A m \in 1..n : /\ arrival(m) \in EventsOf(1..n) /\ arrival(m).type = "ARRIVAL"
                      /\ arrival(m).process = m /\ arrival(m).time \in Nat
                      /\ arrival(m) \in E
  BY DEF Event, EventsOf, EventTypes, Records
<1>2. PICK queue :
        /\ queue[0] = <<>> /\ ArrivalEvents(pr, b) = queue[n]
        /\ \A m \in 1..n : queue[m] = EnqueueEvent(queue[m - 1], arrival(m), pr, b)
  BY ArrivalsUnfold
<1> HIDE DEF arrival
<1> DEFINE Ok(m) == /\ EventsOK(queue[m], 1..n) /\ NoneBefore(queue[m], 0)
                    /\ queue[m] \in S /\ Arriving(queue[m]) = 1..m
           T == {m \in Nat : m <= n => Ok(m)}
<1>3. 0 \in T
  <2>1. /\ EventsOK(<<>>, 1..n) /\ NoneBefore(<<>>, 0)
        /\ <<>> \in S /\ Arriving(<<>>) = 1..0
    BY DEF EventsOK, InOrder, OneArrivalEach, NoneBefore, Arriving
  <2>2. QED
    BY <1>2, <2>1
<1>4. ASSUME NEW m \in Nat, m \in T PROVE m + 1 \in T
  <2>1. SUFFICES ASSUME m + 1 <= n PROVE Ok(m + 1)
    OBVIOUS
  <2>2. Ok(m) /\ m + 1 \in 1..n /\ (m + 1) - 1 = m
    BY <1>4, <2>1
  <2>3. queue[m + 1] = EnqueueEvent(queue[m], arrival(m + 1), pr, b)
    BY <1>2, <2>2
  <2>4. m + 1 \notin Arriving(queue[m])
    BY <2>2
  <2> DEFINE k == m + 1
  <2> HIDE DEF k
  <2>5. /\ EventsOK(EnqueueEvent(queue[m], arrival(k), pr, b), 1..n)
        /\ NoneBefore(EnqueueEvent(queue[m], arrival(k), pr, b), 0)
        /\ Arriving(EnqueueEvent(queue[m], arrival(k), pr, b)) = Arriving(queue[m]) \cup {k}
    <3>1. k \in 1..n /\ arrival(k) \in EventsOf(1..n) /\ arrival(k).type = "ARRIVAL"
          /\ arrival(k).process = k /\ 0 <= arrival(k).time
      BY <1>1, <2>2 DEF k
    <3>2. EventsOK(queue[m], 1..n) /\ NoneBefore(queue[m], 0) /\ k \notin Arriving(queue[m])
      BY <2>2, <2>4 DEF k
    <3> HIDE DEF Ok
    <3>3. QED
      BY <3>1, <3>2, EnqueuedOK
  <2>6. EnqueueEvent(queue[m], arrival(k), pr, b) \in S
    <3>1. queue[m] \in S /\ arrival(k) \in E
      BY <1>1, <2>2 DEF k
    <3> HIDE DEF Ok
    <3>2. QED
      BY <3>1, EnqueuedAt
  <2>7. Arriving(queue[m]) \cup {m + 1} = 1..(m + 1)
    BY <2>2
  <2>8. QED
    BY <2>3, <2>5, <2>6, <2>7 DEF k
<1>5. n \in T
  <2> HIDE DEF T
  <2>1. QED
    BY <1>3, <1>4, NatSetInduction
<1>6. QED
  BY <1>2, <1>5

\* The last of n arrivals, 0 if there is none.
LEMMA LastArrival ==
  ASSUME NEW n \in Nat, NEW f, \A k \in 1..n : f[k] \in Nat
  PROVE  LET last == Max({0} \cup {f[k] : k \in 1..n})
         IN  last \in Nat /\ \A k \in 1..n : f[k] <= last
<1> DEFINE Times(m) == {0} \cup {f[k] : k \in 1..m}
           HasLast(m) == \E t \in Times(m) : t \in Nat /\ \A u \in Times(m) : t >= u
           T == {m \in Nat : m <= n => HasLast(m)}
<1>1. 0 \in T
  <2>1. Times(0) = {0}
    OBVIOUS
  <2>2. QED
    BY <2>1
<1>2. ASSUME NEW m \in Nat, m \in T PROVE m + 1 \in T
  <2>1. SUFFICES ASSUME m + 1 <= n PROVE HasLast(m + 1)
    OBVIOUS
  <2>2. PICK t \in Times(m) : t \in Nat /\ \A u \in Times(m) : t >= u
    BY <1>2, <2>1
  <2>3. f[m + 1] \in Nat
    BY <2>1
  <2>4. Times(m + 1) = Times(m) \cup {f[m + 1]}
    <3>1. 1..(m + 1) = (1..m) \cup {m + 1}
      OBVIOUS
    <3>2. QED
      BY <3>1
  <2>5. CASE f[m + 1] <= t
    <3>1. t \in Times(m + 1) /\ \A u \in Times(m + 1) : t >= u
      BY <2>2, <2>3, <2>4, <2>5
    <3>2. QED
      BY <2>2, <3>1
  <2>6. CASE t < f[m + 1]
    <3>1. \A u \in Times(m) : u \in Nat
      BY <2>1
    <3>2. f[m + 1] \in Times(m + 1) /\ \A u \in Times(m + 1) : f[m + 1] >= u
      BY <2>2, <2>3, <2>4, <2>6, <3>1
    <3>3. QED
      BY <2>3, <3>2
  <2>7. QED
    BY <2>2, <2>3, <2>5, <2>6
<1>3. HasLast(n)
  <2>1. n \in T
    <3> HIDE DEF T
    <3>1. QED
      BY <1>1, <1>2, NatSetInduction
  <2>2. QED
    BY <2>1
<1>4. \A u \in Times(n) : u \in Nat
  OBVIOUS
<1> DEFINE U == Times(n)
<1>5. \A k \in 1..n : f[k] \in U
  OBVIOUS
<1>6. \E t \in U : t \in Nat /\ \A u \in U : t >= u
  BY <1>3
<1> HIDE DEF Times, HasLast, T, U
<1>7. Max(U) \in U /\ \A u \in U : Max(U) >= u
  BY <1>6 DEF Max
<1>8. Max(U) \in Nat /\ \A k \in 1..n : f[k] <= Max(U)
  BY <1>4, <1>5, <1>7 DEF U
<1>9. QED
  BY <1>8 DEF U, Times

\* The time until which boosts are planned.
LEMMA MaxTimeTyped ==
  ASSUME NEW n \in Nat, NEW pr \in [1..n -> Records]
  PROVE  MaxTime(pr) \in Nat
<1> DEFINE arrival == [p \in 1..n |-> pr[p].arrival_time]
           burst == [p \in 1..n |-> pr[p].burst_time]
           last == Max({0} \cup {arrival[p] : p \in 1..n})
<1>1. \A p \in 1..n : arrival[p] \in Nat /\ burst[p] \in Nat
  BY DEF Records
<1>2. last \in Nat
  <2> HIDE DEF arrival
  <2>1. QED
    BY <1>1, LastArrival
<1>3. SumFunction(burst) \in Nat
  <2>1. IsFiniteSet(1..n) /\ DOMAIN burst = 1..n
    BY FS_Interval
  <2> HIDE DEF burst
  <2>2. QED
    BY <1>1, <2>1, SumBounds DEF SumFunction
<1>4. MaxTime(pr) = last + SumFunction(burst) + BoostSlack
  <2>1. {arrival[p] : p \in 1..n} = {pr[p].arrival_time : p \in 1..n}
    OBVIOUS
  <2>2. QED
    BY <2>1 DEF MaxTime
<1>5. QED
  BY <1>2, <1>3, <1>4, EngineAssumption

\* The boosts come to the arrivals.
LEMMA BoostsOK ==
  ASSUME NEW n \in Nat, NEW pr \in [1..n -> Records], NEW period \in Nat \ {0},
         NEW E, NEW q \in Seq(E), EventsOK(q, 1..n), NoneBefore(q, 0),
         \A time \in Nat : time >= period => Event(time, "PRIORITY_BOOST", None) \in E
  PROVE  LET t == WithBoosts(q, pr, period)
         IN  EventsOK(t, 1..n) /\ NoneBefore(t, 0) /\ t \in Seq(E) /\ Arriving(t) = Arriving(q)
<1> DEFINE S == Seq(E)
           N == MaxTime(pr) \div period
           b == FALSE
           boost(m) == Event(m * period, "PRIORITY_BOOST", None)
           F(f) == [m \in 0..N |-> IF m = 0 THEN q
                                   ELSE EnqueueEvent(f[m - 1], boost(m), pr, b)]
           d == [m \in 1..N |-> [s \in S |-> EnqueueEvent(s, boost(m), pr, b)]]
           queue == CHOOSE f : f = F(f)
<1>1. N \in Nat
  <2>1. MaxTime(pr) \in Nat
    BY MaxTimeTyped
  <2>2. QED
    BY <2>1
<1>2. \A m \in Nat \ {0} :
        /\ boost(m) \in EventsOf(1..n) /\ boost(m).type = "PRIORITY_BOOST"
        /\ boost(m).time \in Nat /\ boost(m) \in E
  <2>1. \A m \in Nat \ {0} : m * period \in Nat /\ m * period >= period
    OBVIOUS
  <2>2. QED
    BY <2>1 DEF Event, EventsOf, EventTypes
<1>3. WithBoosts(q, pr, period) = queue[N]
  BY DEF WithBoosts
<1> HIDE DEF boost, N, b
<1>4. \E f \in [0..N -> S] : f = F(f)
  <2>1. \A m \in 1..N, s \in S : EnqueueEvent(s, boost(m), pr, b) \in S
    <3>1. \A m \in 1..N : m \in Nat \ {0}
      BY <1>1
    <3>2. QED
      BY <1>2, <3>1, EnqueuedAt
  <2>2. d \in [1..N -> [S -> S]]
    BY <2>1
  <2>3. q \in S
    OBVIOUS
  <2> HIDE DEF d, S
  <2>4. PICK f \in [0..N -> S] : Recursive(f, N, q, d)
    BY <1>1, <2>2, <2>3, RecursionExists
  <2>5. \A m \in 0..N : f[m] = IF m = 0 THEN q ELSE d[m][f[m - 1]]
    BY <2>4 DEF Recursive
  <2>6. \A m \in 0..N : m # 0 => m \in 1..N /\ m - 1 \in 0..N /\ f[m - 1] \in S
    BY <1>1, <2>4
  <2>7. \A m \in 0..N : m # 0 => d[m][f[m - 1]] = EnqueueEvent(f[m - 1], boost(m), pr, b)
    BY <2>6 DEF d
  <2>8. f = F(f)
    BY <2>4, <2>5, <2>7
  <2>9. QED
    BY <2>4, <2>8
<1>5. queue = F(queue)
  <2> HIDE DEF F
  <2>1. QED
    BY <1>4
<1> HIDE DEF queue
<1>6. queue[0] = q
      /\ \A m \in 1..N : queue[m] = EnqueueEvent(queue[m - 1], boost(m), pr, b)
  BY <1>1, <1>5
<1> HIDE DEF F
<1> DEFINE Ok(m) == /\ EventsOK(queue[m], 1..n) /\ NoneBefore(queue[m], 0)
                    /\ queue[m] \in S /\ Arriving(queue[m]) = Arriving(q)
           T == {m \in Nat : m <= N => Ok(m)}
<1>7. 0 \in T
  BY <1>6
<1>8. ASSUME NEW m \in Nat, m \in T PROVE m + 1 \in T
  <2>1. SUFFICES ASSUME m + 1 <= N PROVE Ok(m + 1)
    OBVIOUS
  <2> DEFINE k == m + 1
  <2>2. Ok(m) /\ k \in 1..N /\ k - 1 = m /\ k \in Nat \ {0}
    BY <1>1, <1>8, <2>1
  <2> HIDE DEF k
  <2>3. queue[k] = EnqueueEvent(queue[m], boost(k), pr, b)
    BY <1>6, <2>2
  <2>4. /\ EventsOK(queue[m], 1..n) /\ NoneBefore(queue[m], 0)
        /\ queue[m] \in S /\ Arriving(queue[m]) = Arriving(q)
    BY <2>2
  <2>5. boost(k) \in EventsOf(1..n) /\ boost(k).type # "ARRIVAL" /\ 0 <= boost(k).time /\ boost(k) \in E
    BY <1>2, <2>2
  <2> HIDE DEF Ok
  <2>6. /\ EventsOK(EnqueueEvent(queue[m], boost(k), pr, b), 1..n)
        /\ NoneBefore(EnqueueEvent(queue[m], boost(k), pr, b), 0)
        /\ Arriving(EnqueueEvent(queue[m], boost(k), pr, b)) = Arriving(q)
    BY <2>4, <2>5, EnqueuedOK
  <2>7. EnqueueEvent(queue[m], boost(k), pr, b) \in S
    BY <2>4, <2>5, EnqueuedAt
  <2>8. QED
    BY <2>3, <2>6, <2>7 DEF k, Ok
<1>9. N \in T
  <2> HIDE DEF T
  <2>1. QED
    BY <1>1, <1>7, <1>8, NatSetInduction
<1>10. QED
  BY <1>1, <1>3, <1>9

\* The settings with which main and run_comparison start an algorithm.
StartOK(s, q, c) ==
  /\ s = "rr" => q \in Nat \ {0}
  /\ s = "mlfq" => LevelsOK(c.levels) /\ c.boost_period \in Int
\* simulate_scheduler up to its loop, on processes that have not run.
LEMMA Begun ==
  ASSUME NEW n \in Nat, NEW pr \in [1..n -> Records],
         \A p \in 1..n : pr[p].priority = 0 /\ pr[p].time_in_queue = 0,
         NEW s \in AlgorithmNames, NEW q, NEW c, StartOK(s, q, c),
         Begin(s, q, c, pr)
  PROVE  /\ SettingsOK'
         /\ Good(proc, running, waiting, event_queue, 1..n)'
         /\ NoneBefore(event_queue, current_time)'
<1>1. /\ scheduler' = s /\ quantum_time' = q /\ config' = c /\ proc' = pr
      /\ event_queue' = InitialEvents(s, c, pr) /\ running' = None
      /\ waiting' = EmptyQueue(s, c.levels) /\ current_time' = 0
  BY DEF Begin
<1>2. SettingsOK'
  BY <1>1 DEF SettingsOK, StartOK, Levels
<1>3. EventsOK(event_queue', 1..n) /\ NoneBefore(event_queue', 0)
  <2> DEFINE b == SortsByRemaining(s)
             arrivals == ArrivalEvents(pr, b)
             E == EventsOf(1..n)
  <2>1. EventsOK(arrivals, 1..n) /\ NoneBefore(arrivals, 0)
    <3> HIDE DEF b
    <3>1. \A m \in 1..n : Event(pr[m].arrival_time, "ARRIVAL", m) \in E
      BY DEF Event, EventsOf, EventTypes, Records
    <3> HIDE DEF E
    <3>2. QED
      BY <3>1, ArrivalsOK
  <2>2. CASE s = "mlfq" /\ c.boost_period > 0
    <3>1. event_queue' = WithBoosts(arrivals, pr, c.boost_period)
      BY <1>1, <2>2 DEF InitialEvents
    <3>2. c.boost_period \in Nat \ {0}
      BY <2>2 DEF StartOK
    <3>3. \A time \in Nat : Event(time, "PRIORITY_BOOST", None) \in E
      BY DEF Event, EventsOf, EventTypes
    <3>4. arrivals \in Seq(E)
      BY <2>1 DEF EventsOK
    <3> HIDE DEF arrivals, E
    <3>5. QED
      BY <2>1, <3>1, <3>2, <3>3, <3>4, BoostsOK
  <2>3. CASE ~(s = "mlfq" /\ c.boost_period > 0)
    <3>1. event_queue' = arrivals
      BY <1>1, <2>3 DEF InitialEvents
    <3>2. QED
      BY <2>1, <3>1
  <2>4. QED
    BY <2>2, <2>3
<1> DEFINE m == NumLists(s, c.levels)
<1>4. /\ waiting' = [k \in 1..m |-> <<>>] /\ ListCount' = m
      /\ s = "mlfq" => m = Len(c.levels) /\ m \in Nat \ {0}
  BY <1>1 DEF EmptyQueue, ListCount, NumLists, Levels, LevelsOK, StartOK
<1> HIDE DEF m
<1>5. /\ waiting' \in Lists(m, 1..n) /\ Distinct(waiting') /\ InQueue(waiting') = {}
      /\ \A k \in 1..m : ToSet(waiting'[k]) = {}
  <2>1. <<>> \in Seq(1..n) /\ IsInjective(<<>>) /\ ToSet(<<>>) = {}
    BY DEF IsInjective, ToSet
  <2>2. \A k \in 1..m : waiting'[k] = <<>>
    BY <1>4
  <2>3. waiting' \in Lists(m, 1..n)
    BY <1>4, <2>1 DEF Lists
  <2>4. DOMAIN waiting' = 1..m
    BY <1>4
  <2>5. Distinct(waiting')
    BY <2>1, <2>2, <2>4 DEF Distinct
  <2>6. \A k \in 1..m : ToSet(waiting'[k]) = {}
    BY <2>1, <2>2
  <2>7. InQueue(waiting') = {}
    BY <2>4, <2>6 DEF InQueue
  <2>8. QED
    BY <2>3, <2>5, <2>6, <2>7
<1>6. RecordsOK(proc, 1..n)'
  <2>1. ASSUME NEW p \in 1..n
        PROVE  /\ pr[p] \in Records
               /\ s = "mlfq" => pr[p].priority + 1 \in 1..Len(c.levels)
    BY <1>4
  <2>2. DOMAIN pr = 1..n
    OBVIOUS
  <2>3. QED
    BY <1>1, <2>1, <2>2 DEF RecordsOK, Levels
<1>7. PlacesOK(running, waiting, event_queue, 1..n)'
  <2>1. Arriving(event_queue') \subseteq 1..n
    <3>1. \A k \in 1..Len(event_queue') : event_queue'[k].type = "ARRIVAL" =>
            event_queue'[k].process \in 1..n
      BY <1>3 DEF EventsOK, EventsOf
    <3>2. QED
      BY <3>1 DEF Arriving
  <2>2. None \notin 1..n
    BY EngineAssumption
  <2>3. QED
    BY <1>1, <1>4, <1>5, <2>1, <2>2 DEF PlacesOK
<1>8. PrioritiesOK(proc, waiting)'
  BY <1>4, <1>5 DEF PrioritiesOK
<1>9. AllotmentsOK(proc, waiting, event_queue, 1..n)'
  <2>1. SUFFICES ASSUME s = "mlfq", NEW p \in 1..n
                 PROVE  Within(pr[p])' /\ Overrun(pr[p])'
    BY <1>1 DEF AllotmentsOK
  <2>2. pr[p].priority + 1 = 1 /\ pr[p].time_in_queue = 0 /\ 1 \in 1..Len(c.levels)
    BY <1>4, <2>1
  <2>3. c.levels[1].allotment \in Nat \cup {-1} /\ c.levels[1].time_quantum \in Nat \cup {-1}
    BY <2>1, <2>2 DEF LevelsOK, StartOK
  <2>4. QED
    BY <1>1, <2>2, <2>3 DEF Within, Overrun, Limited, Levels
<1>10. QED
  BY <1>1, <1>2, <1>3, <1>6, <1>7, <1>8, <1>9 DEF Good

-----------------------------------------------------------------------------
\* What main and run_comparison hand to the simulator.

\* A line of the configuration file keeps it a configuration, or is an error.
LEMMA LineRead ==
  ASSUME NEW c \in Configs \cup {NULL}, NEW l \in ConfigLines
  PROVE  /\ ReadLine(c, l) \in Configs \cup {NULL}
         /\ c # NULL /\ ~Rejected(l) => ReadLine(c, l) \in Configs
<1>1. CASE c = NULL \/ Rejected(l)
  BY <1>1 DEF ReadLine
<1>2. CASE ~(c = NULL \/ Rejected(l)) /\ l.kind = "queue"
  <2> DEFINE defined == DefineLevel(c.levels, l)
             m == IF l.id < Len(c.levels) THEN Len(c.levels) ELSE l.id + 1
             new(k) == IF k = l.id + 1 THEN Level(l.quantum, l.allotment)
                       ELSE IF k <= Len(c.levels) THEN c.levels[k] ELSE Undefined
  <2>1. c \in Configs /\ c.levels \in Seq(LevelRecords) /\ Len(c.levels) \in Nat
        /\ l.id \in Nat /\ l.quantum \in Int /\ l.allotment \in Int
    BY <1>2 DEF Configs, ConfigLines
  <2>2. m \in Nat
    BY <2>1
  <2>3. \A k \in 1..m : new(k) \in LevelRecords
    <3>1. SUFFICES ASSUME NEW k \in 1..m PROVE new(k) \in LevelRecords
      OBVIOUS
    <3>2. Level(l.quantum, l.allotment) \in LevelRecords /\ Undefined \in LevelRecords
      BY <2>1 DEF Level, Undefined, LevelRecords
    <3>3. k <= Len(c.levels) => c.levels[k] \in LevelRecords
      BY <2>1, <2>2, <3>1
    <3>4. QED
      BY <3>2, <3>3
  <2>4. defined = [k \in 1..m |-> new(k)]
    BY DEF DefineLevel
  <2> HIDE DEF m, new, defined
  <2>5. defined \in Seq(LevelRecords)
    BY <2>2, <2>3, <2>4
  <2>6. ReadLine(c, l) = [c EXCEPT !.levels = defined]
    BY <1>2 DEF ReadLine, defined
  <2>7. QED
    BY <2>1, <2>5, <2>6 DEF Configs
<1>3. CASE ~(c = NULL \/ Rejected(l)) /\ l.kind # "queue"
  <2>1. ReadLine(c, l) = [c EXCEPT !.boost_period = l.quantum]
    BY <1>3 DEF ReadLine
  <2>2. QED
    BY <1>3, <2>1 DEF Configs, ConfigLines
<1>4. QED
  BY <1>1, <1>2, <1>3

\* load_mlfq_config goes through the lines one by one.
LEMMA FileRead ==
  ASSUME NEW file \in Seq(ConfigLines), file # NULL
  PROVE  \E read :
           /\ read[0] = NothingRead
           /\ \A n \in 1..Len(file) : read[n] = ReadLine(read[n - 1], file[n])
           /\ \A n \in 0..Len(file) : read[n] \in Configs \cup {NULL}
           /\ load_mlfq_config(file) =
                IF read[Len(file)] # NULL /\ validate_mlfq_config(read[Len(file)])
                  THEN read[Len(file)] ELSE NULL
<1> DEFINE S == Configs \cup {NULL}
           N == Len(file)
           F(f) == [n \in 0..N |-> IF n = 0 THEN NothingRead ELSE ReadLine(f[n - 1], file[n])]
           d == [n \in 1..N |-> [c \in S |-> ReadLine(c, file[n])]]
           read == CHOOSE f : f = F(f)
<1>1. N \in Nat /\ \A n \in 1..N : file[n] \in ConfigLines
  OBVIOUS
<1>2. load_mlfq_config(file) =
        IF read[N] # NULL /\ validate_mlfq_config(read[N]) THEN read[N] ELSE NULL
  BY DEF load_mlfq_config
<1> HIDE DEF N
<1>3. NothingRead \in S
  BY DEF NothingRead, Configs
<1>4. \E f \in [0..N -> S] : f = F(f)
  <2>1. \A n \in 1..N : \A c \in S : ReadLine(c, file[n]) \in S
    BY <1>1, LineRead
  <2>2. d \in [1..N -> [S -> S]]
    BY <2>1
  <2> HIDE DEF d, S
  <2>3. PICK f \in [0..N -> S] : Recursive(f, N, NothingRead, d)
    BY <1>1, <1>3, <2>2, RecursionExists
  <2>4. \A n \in 0..N : f[n] = IF n = 0 THEN NothingRead ELSE d[n][f[n - 1]]
    BY <2>3 DEF Recursive
  <2>5. \A n \in 0..N : n # 0 => n \in 1..N /\ n - 1 \in 0..N /\ f[n - 1] \in S
    BY <1>1, <2>3
  <2>6. \A n \in 0..N : n # 0 => d[n][f[n - 1]] = ReadLine(f[n - 1], file[n])
    BY <2>5 DEF d
  <2>7. f = F(f)
    BY <2>3, <2>4, <2>6
  <2>8. QED
    BY <2>3, <2>7
<1>5. read = F(read)
  <2> HIDE DEF F
  <2>1. QED
    BY <1>4
<1> HIDE DEF read
<1>6. read[0] = NothingRead /\ \A n \in 1..N : read[n] = ReadLine(read[n - 1], file[n])
  BY <1>1, <1>5
<1> HIDE DEF F
<1> DEFINE T == {n \in Nat : n <= N => read[n] \in S}
<1>7. 0 \in T
  BY <1>3, <1>6
<1>8. ASSUME NEW n \in Nat, n \in T PROVE n + 1 \in T
  <2> DEFINE k == n + 1
  <2>1. SUFFICES ASSUME k <= N PROVE read[k] \in S
    OBVIOUS
  <2>2. k \in 1..N /\ k - 1 = n /\ read[n] \in S
    BY <1>1, <1>8, <2>1
  <2> HIDE DEF k
  <2>3. read[k] = ReadLine(read[n], file[k])
    BY <1>6, <2>2
  <2>4. file[k] \in ConfigLines
    BY <1>1, <2>2
  <2>5. QED
    BY <2>2, <2>3, <2>4, LineRead
<1>9. \A n \in 0..N : read[n] \in S
  <2>1. Nat \subseteq T
    <3> HIDE DEF T
    <3>1. QED
      BY <1>7, <1>8, NatSetInduction
  <2>2. QED
    BY <1>1, <2>1
<1>10. QED
  BY <1>2, <1>6, <1>9 DEF N

\* It returns a configuration of at least one level, or NULL.
LEMMA ConfigLoaded ==
  ASSUME NEW file \in Seq(ConfigLines) \cup {NULL}, load_mlfq_config(file) # NULL
  PROVE  load_mlfq_config(file) \in Configs /\ Len(load_mlfq_config(file).levels) \in Nat \ {0}
<1> DEFINE c == load_mlfq_config(file)
<1>1. file # NULL
  BY DEF load_mlfq_config
<1>2. c \in Configs /\ validate_mlfq_config(c)
  <2>1. PICK read : /\ \A n \in 0..Len(file) : read[n] \in Configs \cup {NULL}
                    /\ c = IF read[Len(file)] # NULL /\ validate_mlfq_config(read[Len(file)])
                             THEN read[Len(file)] ELSE NULL
    BY <1>1, FileRead
  <2>2. Len(file) \in 0..Len(file)
    <3>1. Len(file) \in Nat
      BY <1>1
    <3>2. QED
      BY <3>1
  <2> HIDE DEF c
  <2>3. QED
    BY <2>1, <2>2 DEF c
<1> HIDE DEF c
<1>3. c.levels \in Seq(LevelRecords) /\ DOMAIN c.levels # {}
  BY <1>2 DEF Configs, validate_mlfq_config
<1>4. QED
  BY <1>2, <1>3 DEF c

\* The levels with which MLFQ runs.
LEMMA ConfigUsable ==
  ASSUME NEW command \in Commands, NEW file \in command.mlfq_config_files
  PROVE  /\ load_mlfq_config(file) # NULL =>
              /\ LevelsOK(load_mlfq_config(file).levels)
              /\ load_mlfq_config(file).boost_period \in Int
         /\ LevelsOK(ConfigOrFallback(file).levels) /\ ConfigOrFallback(file).boost_period \in Int
<1>1. ASSUME load_mlfq_config(file) # NULL
      PROVE  /\ LevelsOK(load_mlfq_config(file).levels)
             /\ load_mlfq_config(file).boost_period \in Int
  <2> DEFINE c == load_mlfq_config(file)
  <2>1. file \in Seq(ConfigLines) \cup {NULL} /\ Runnable(c)
    BY <1>1, ConfigAssumption
  <2>2. c \in Configs /\ Len(c.levels) \in Nat \ {0}
    BY <1>1, <2>1, ConfigLoaded
  <2> HIDE DEF c
  <2>3. c.levels \in Seq(LevelRecords) /\ DOMAIN c.levels = 1..Len(c.levels) /\ c.boost_period \in Int
    BY <2>2 DEF Configs
  <2>4. QED
    BY <2>1, <2>2, <2>3 DEF LevelsOK, Runnable, c
<1>2. LevelsOK(FallbackConfig.levels) /\ FallbackConfig.boost_period \in Int
  <2> DEFINE levels == <<Level(10, 50), Level(30, 150), Level(-1, -1)>>
  <2>1. Len(levels) = 3 /\ levels[1] = Level(10, 50) /\ levels[2] = Level(30, 150)
        /\ levels[3] = Level(-1, -1) /\ FallbackConfig.levels = levels
        /\ FallbackConfig.boost_period = 200
    BY DEF FallbackConfig
  <2> HIDE DEF levels
  <2>2. \A k \in 1..3 : /\ levels[k].time_quantum \in Nat \cup {-1}
                        /\ levels[k].allotment \in Nat \cup {-1}
    <3>1. \A k \in 1..3 : k = 1 \/ k = 2 \/ k = 3
      OBVIOUS
    <3>2. QED
      BY <2>1, <3>1 DEF Level
  <2>3. LevelsOK(levels)
    BY <2>1, <2>2 DEF LevelsOK, Level
  <2>4. QED
    BY <2>1, <2>3
<1>3. QED
  BY <1>1, <1>2 DEF ConfigOrFallback

\* Load fills the list of the processes, with no negative times.
LoadedOK ==
  \E n \in Nat : /\ DOMAIN base = 1..n
                 /\ \A p \in 1..n : base[p].arrival_time \in Nat /\ base[p].burst_time \in Nat
\* The smaller of two numbers.
LEMMA LeastOfTwo ==
  \A a, b \in Nat : Min({a, b}) = IF a <= b THEN a ELSE b
<1>1. SUFFICES ASSUME NEW a \in Nat, NEW b \in Nat PROVE Min({a, b}) = IF a <= b THEN a ELSE b
  OBVIOUS
<1>2. \E x \in {a, b} : \A y \in {a, b} : x <= y
  OBVIOUS
<1>3. Min({a, b}) \in {a, b} /\ \A y \in {a, b} : Min({a, b}) <= y
  BY <1>2 DEF Min
<1>4. QED
  BY <1>3

\* It is so after any file and string that keep the assumptions.
LEMMA Loaded ==
  ASSUME NEW given \in Inputs \ {NULL}, NEW pr \in PossibleProcesses(given)
  PROVE  \E n \in Nat : /\ DOMAIN pr = 1..n
                        /\ \A p \in 1..n : pr[p].arrival_time \in Nat /\ pr[p].burst_time \in Nat
<1>1. Len(given.lines) \in Nat /\ MaxProcesses \in Nat
  BY InputsAssumption, CapacityAssumption
<1>2. \E n \in Nat : DOMAIN pr = 1..n
  <2>1. CASE given.inline
    <3>1. PICK stack : pr = get_processes_from_string(given.lines, stack)
      BY <2>1 DEF PossibleProcesses
    <3>2. Min({Len(given.lines), MaxProcesses}) \in Nat
      BY <1>1, LeastOfTwo
    <3>3. QED
      BY <3>1, <3>2 DEF get_processes_from_string
  <2>2. CASE ~given.inline
    <3>1. PICK stack : pr = get_processes_from_file(given.lines, stack)
      BY <2>2 DEF PossibleProcesses
    <3>2. QED
      BY <1>1, <3>1 DEF get_processes_from_file
  <2>3. QED
    BY <2>1, <2>2
<1>3. \A p \in DOMAIN pr : pr[p].arrival_time \in Nat /\ pr[p].burst_time \in Nat
  BY TimesAssumption
<1>4. QED
  BY <1>2, <1>3

-----------------------------------------------------------------------------
\* The inductive invariant.

\* Before the first simulation the engine is empty; from then on it is as the
\* handlers keep it.
Empty ==
  /\ phase # "simulate"
  /\ proc = <<>> /\ waiting = <<>> /\ event_queue = <<>>
Kept ==
  \E n \in Nat : /\ SettingsOK
                 /\ Good(proc, running, waiting, event_queue, 1..n)
                 /\ NoneBefore(event_queue, current_time)
                 /\ current_time \in Nat
Inv == args \in Commands /\ input \in Inputs /\ LoadedOK /\ (Empty \/ Kept)

\* What the handlers keep depends on the settings, which they leave alone.
LEMMA SettingsStay ==
  ASSUME NEW P, UNCHANGED settings, SettingsOK,
         Good(proc', running', waiting', event_queue', P)
  PROVE  SettingsOK' /\ Good(proc, running, waiting, event_queue, P)'
<1>1. scheduler' = scheduler /\ quantum_time' = quantum_time /\ config' = config
  BY DEF settings
<1>2. SettingsOK'
  BY <1>1 DEF SettingsOK, Levels
<1>3. Levels' = Levels /\ ListCount' = ListCount
  BY <1>1 DEF Levels, ListCount
<1>4. RecordsOK(proc, P)'
  BY <1>1, <1>3 DEF Good, RecordsOK
<1>5. PlacesOK(running, waiting, event_queue, P)'
  BY <1>3 DEF Good, PlacesOK
<1>6. PrioritiesOK(proc, waiting)'
  BY <1>1, <1>3 DEF Good, PrioritiesOK
<1>7. AllotmentsOK(proc, waiting, event_queue, P)'
  BY <1>1, <1>3 DEF Good, AllotmentsOK, Within, Overrun, Limited
<1>8. QED
  BY <1>2, <1>4, <1>5, <1>6, <1>7 DEF Good

\* The simulator keeps it.
LEMMA SimulateKeeps ==
  ASSUME Kept, Simulate
  PROVE  Kept'
<1>1. PICK n \in Nat : /\ SettingsOK
                       /\ Good(proc, running, waiting, event_queue, 1..n)
                       /\ NoneBefore(event_queue, current_time)
                       /\ current_time \in Nat
  BY DEF Kept
<1> DEFINE P == 1..n
<1>2. None \notin P
  BY EngineAssumption
<1>3. UNCHANGED settings
  BY DEF Simulate, handle_arrival, handle_completion, handle_quantum_expire,
         handle_priority_boost, Handle, Report
<1> HIDE DEF P
<1>4. SUFFICES /\ Good(proc', running', waiting', event_queue', P)
               /\ NoneBefore(event_queue', current_time') /\ current_time' \in Nat
  <2>1. SettingsOK' /\ Good(proc, running, waiting, event_queue, P)'
    BY <1>1, <1>3, <1>4, SettingsStay
  <2>2. QED
    BY <1>4, <2>1 DEF Kept, P
<1>5. Good(proc, running, waiting, event_queue, P)
  BY <1>1 DEF P
<1>6. ASSUME event_queue # <<>> PROVE Now \in Nat
  BY <1>2, <1>5, <1>6, FirstEvent
<1>7. CASE handle_arrival
  <2>1. event_queue # <<>> /\ current_time' = Now
    BY <1>7 DEF handle_arrival, Handle
  <2>2. QED
    BY <1>1, <1>2, <1>5, <1>6, <1>7, <2>1, ArrivalGood
<1>8. CASE handle_completion
  <2>1. event_queue # <<>> /\ current_time' = Now
    BY <1>8 DEF handle_completion, Handle
  <2>2. QED
    BY <1>1, <1>2, <1>5, <1>6, <1>8, <2>1, CompletionGood
<1>9. CASE handle_quantum_expire
  <2>1. event_queue # <<>> /\ current_time' = Now
    BY <1>9 DEF handle_quantum_expire, Handle
  <2>2. QED
    BY <1>1, <1>2, <1>5, <1>6, <1>9, <2>1, ExpireGood
<1>10. CASE handle_priority_boost
  <2>1. event_queue # <<>> /\ current_time' = Now
    BY <1>10 DEF handle_priority_boost, Handle
  <2>2. QED
    BY <1>1, <1>2, <1>5, <1>6, <1>10, <2>1, BoostGood
<1>11. CASE Report
  <2>1. /\ proc' = FinishRunning(current_time) /\ running' = running /\ waiting' = waiting
        /\ current_time' = current_time /\ event_queue' = event_queue
    BY <1>11 DEF Report
  <2>2. Good(FinishRunning(current_time), running, waiting, event_queue, P)
    BY <1>1, <1>5, <1>2, FinishGood
  <2>3. QED
    BY <1>1, <2>1, <2>2
<1>12. QED
  BY <1>7, <1>8, <1>9, <1>10, <1>11 DEF Simulate

\* The copies that a simulation starts from have not run.
Fresh(r) ==
  /\ r.remaining_time = r.burst_time
  /\ r.start_time = UNKNOWN_TIME /\ r.finish_time = UNKNOWN_TIME
  /\ r.priority = 0 /\ r.time_in_queue = 0

\* The processes of the list are copied as they are, not started yet.
LEMMA Copied ==
  ASSUME LoadedOK
  PROVE  \E n \in Nat : /\ CopiedProcesses \in [1..n -> Records]
                        /\ \A p \in 1..n : Fresh(CopiedProcesses[p])
<1>1. PICK n \in Nat : /\ DOMAIN base = 1..n
                       /\ \A p \in 1..n : base[p].arrival_time \in Nat /\ base[p].burst_time \in Nat
  BY DEF LoadedOK
<1>2. \A a, b \in Nat : NewProcess(a, b) \in Records /\ Fresh(NewProcess(a, b))
  BY DEF NewProcess, Records, UNKNOWN_TIME, Fresh
<1>3. CopiedProcesses = [p \in 1..n |-> NewProcess(base[p].arrival_time, base[p].burst_time)]
  BY <1>1 DEF CopiedProcesses
<1>4. QED
  BY <1>1, <1>2, <1>3

\* A new simulation starts as it must.
LEMMA RunKeeps ==
  ASSUME LoadedOK, NEW s \in AlgorithmNames, NEW q, NEW c, StartOK(s, q, c), Run(s, q, c)
  PROVE  Kept'
<1> DEFINE pr == CopiedProcesses
<1>1. PICK n \in Nat : pr \in [1..n -> Records] /\ \A p \in 1..n : Fresh(pr[p])
  BY Copied
<1>2. \A p \in 1..n : pr[p].priority = 0 /\ pr[p].time_in_queue = 0
  BY <1>1 DEF Fresh
<1>3. Begin(s, q, c, pr) /\ current_time' = 0
  BY DEF Run, Begin
<1> HIDE DEF pr
<1>4. /\ SettingsOK' /\ Good(proc, running, waiting, event_queue, 1..n)'
      /\ NoneBefore(event_queue, current_time)'
  BY <1>1, <1>2, <1>3, Begun
<1>5. QED
  BY <1>3, <1>4 DEF Kept

\* A step leaves the engine alone, or is one of the simulator, or starts it.
LEMMA Steps ==
  ASSUME args \in Commands, [Next]_vars
  PROVE  \/ UNCHANGED engine /\ (phase' # "simulate" \/ phase' = phase)
         \/ phase = "simulate" /\ Simulate
         \/ \E s \in AlgorithmNames : \E q, c : Run(s, q, c) /\ StartOK(s, q, c)
<1>1. CASE SelectAlgorithm \/ TestPlain
  <2>1. PICK s \in {"fcfs", "sjf", "stcf"} : Run(s, 0, NothingRead)
    BY <1>1 DEF SelectAlgorithm, TestPlain
  <2>2. s \in AlgorithmNames /\ StartOK(s, 0, NothingRead)
    BY DEF AlgorithmNames, StartOK
  <2>3. QED
    BY <2>1, <2>2
<1>2. CASE SelectRR \/ TestRR
  <2>1. PICK q \in Nat \ {0} : Run("rr", q, NothingRead)
    BY <1>2, ConfigAssumption DEF SelectRR, TestRR
  <2>2. "rr" \in AlgorithmNames /\ StartOK("rr", q, NothingRead)
    BY DEF AlgorithmNames, StartOK
  <2>3. QED
    BY <2>1, <2>2
<1>3. CASE SelectMLFQ \/ TestMLFQ
  <2>1. PICK c : Run("mlfq", 0, c) /\ LevelsOK(c.levels) /\ c.boost_period \in Int
    BY <1>3, ConfigUsable DEF SelectMLFQ, TestMLFQ
  <2>2. "mlfq" \in AlgorithmNames /\ StartOK("mlfq", 0, c)
    BY <2>1 DEF AlgorithmNames, StartOK
  <2>3. QED
    BY <2>1, <2>2
<1>4. QED
  BY <1>1, <1>2, <1>3
  DEF Next, vars, program, Load, NoInput, Refuse, FinishTest, Exit

\* The invariant holds in every state.
LEMMA InvAlways == Spec => []Inv
<1>1. Init => Inv
  <2> SUFFICES ASSUME Init PROVE Inv
    OBVIOUS
  <2>1. LoadedOK
    <3>1. 0 \in Nat /\ DOMAIN base = 1..0
      BY DEF Init
    <3>2. QED
      BY <3>1 DEF LoadedOK
  <2>2. Empty
    BY DEF Init, Empty
  <2>3. QED
    BY <2>1, <2>2 DEF Init, Inv
<1>2. Inv /\ [Next]_vars => Inv'
  <2> SUFFICES ASSUME Inv, [Next]_vars PROVE Inv'
    OBVIOUS
  <2>1. args' = args /\ input' = input
    BY DEF Next, vars, program, Load, NoInput, SelectAlgorithm, SelectRR, SelectMLFQ, Refuse,
           TestPlain, TestRR, TestMLFQ, FinishTest, Exit, Run
  <2>2. LoadedOK'
    <3>1. CASE base' = base
      BY <3>1 DEF Inv, LoadedOK
    <3>2. CASE Load
      <4>1. input \in Inputs \ {NULL} /\ base' \in PossibleProcesses(input)
        BY <3>2 DEF Load, Inv
      <4>2. QED
        BY <4>1, Loaded DEF LoadedOK
    <3>3. QED
      BY <3>1, <3>2
      DEF Next, vars, program, NoInput, SelectAlgorithm, SelectRR, SelectMLFQ, Refuse,
          TestPlain, TestRR, TestMLFQ, FinishTest, Exit, Run
  <2>3. (Empty \/ Kept)'
    <3>1. CASE UNCHANGED engine /\ (phase' # "simulate" \/ phase' = phase)
      <4>1. /\ proc' = proc /\ waiting' = waiting /\ event_queue' = event_queue
            /\ running' = running /\ current_time' = current_time
            /\ UNCHANGED settings
        BY <3>1 DEF engine
      <4>2. CASE Empty
        BY <3>1, <4>1, <4>2 DEF Empty
      <4>3. CASE Kept
        BY <4>1, <4>3, SettingsStay DEF Kept
      <4>4. QED
        BY <4>2, <4>3 DEF Inv
    <3>2. CASE phase = "simulate" /\ Simulate
      BY <3>2, SimulateKeeps DEF Inv, Empty
    <3>3. CASE \E s \in AlgorithmNames : \E q, c : Run(s, q, c) /\ StartOK(s, q, c)
      BY <3>3, RunKeeps DEF Inv
    <3>4. QED
      BY <3>1, <3>2, <3>3, Steps DEF Inv
  <2>4. QED
    BY <2>1, <2>2, <2>3 DEF Inv
<1>3. QED
  BY <1>1, <1>2, PTL DEF Spec

-----------------------------------------------------------------------------
\* The events are handled in the order of their times: the queue stays sorted
\* through every insertion and removal, and the clock never passes an event
\* still to come (event-queue.c 7-42, simulator.c 34-53).
THEOREM EventsInOrder == Spec => []Chronological
<1>1. Inv => Chronological
  <2> SUFFICES ASSUME Inv PROVE Chronological
    OBVIOUS
  <2>1. CASE Empty
    <3>1. DOMAIN event_queue = {}
      BY <2>1 DEF Empty
    <3>2. QED
      BY <3>1 DEF Chronological
  <2>2. CASE Kept
    <3>1. PICK n \in Nat : EventsOK(event_queue, 1..n) /\ NoneBefore(event_queue, current_time)
      BY <2>2 DEF Kept, Good
    <3>2. DOMAIN event_queue = 1..Len(event_queue)
      BY <3>1 DEF EventsOK
    <3>3. QED
      BY <3>1, <3>2 DEF Chronological, EventsOK, InOrder, NoneBefore
  <2>3. QED
    BY <2>1, <2>2 DEF Inv
<1>2. QED
  BY <1>1, InvAlways, PTL

\* Every process is in one place: running, not arrived, or once in one waiting
\* list of the algorithm, through requeueing, demotion, boost and preemption
\* (rr-queue.c 20-88, mlfq-queue.c 79-184, simulator.c 109-305).
THEOREM OnePlaceEach == Spec => []NoProcessTwice
<1>1. Inv => NoProcessTwice
  <2> SUFFICES ASSUME Inv, NEW p \in Processes
               PROVE  LET entries == UNION {{<<k, j>> : j \in {i \in DOMAIN waiting[k] : waiting[k][i] = p}}
                                            : k \in DOMAIN waiting}
                      IN  /\ Cardinality(entries) <= 1
                          /\ entries # {} => running # p /\ Arrived(p)
                          /\ running = p => Arrived(p)
    BY DEF NoProcessTwice
  <2> DEFINE At(k) == {<<k, j>> : j \in {i \in DOMAIN waiting[k] : waiting[k][i] = p}}
             entries == UNION {At(k) : k \in DOMAIN waiting}
  <2>1. Kept
    BY DEF Inv, Empty, Processes
  <2>2. PICK n \in Nat : Good(proc, running, waiting, event_queue, 1..n)
    BY <2>1 DEF Kept
  <2>3. /\ waiting \in Lists(ListCount, 1..n) /\ Distinct(waiting)
        /\ running \notin InQueue(waiting) /\ running \notin Arriving(event_queue)
        /\ Arriving(event_queue) \cap InQueue(waiting) = {}
        /\ event_queue \in Seq(EventsOf(1..n))
    BY <2>2 DEF Good, PlacesOK, EventsOK
  <2>4. \A e \in entries : e = <<e[1], e[2]>> /\ e[1] \in DOMAIN waiting
                           /\ e[2] \in DOMAIN waiting[e[1]] /\ waiting[e[1]][e[2]] = p
    OBVIOUS
  <2> HIDE DEF entries
  <2>5. \A e \in entries : p \in ToSet(waiting[e[1]])
    BY <2>4 DEF ToSet
  <2>6. \A e, f \in entries : e = f
    <3>1. SUFFICES ASSUME NEW e \in entries, NEW f \in entries PROVE e = f
      OBVIOUS
    <3>2. e[1] = f[1]
      BY <2>3, <2>4, <2>5 DEF Distinct
    <3>3. e[2] = f[2]
      BY <2>3, <2>4, <3>2 DEF Distinct, IsInjective
    <3>4. QED
      BY <2>4, <3>2, <3>3
  <2>7. Cardinality(entries) <= 1
    <3>1. CASE entries = {}
      BY <3>1, FS_EmptySet
    <3>2. CASE entries # {}
      <4>1. PICK e : entries = {e}
        BY <2>6, <3>2
      <4>2. QED
        <5>1. Cardinality({e}) = 1
          BY FS_Singleton
        <5>2. QED
          BY <4>1, <5>1
    <3>3. QED
      BY <3>1, <3>2
  <2>8. entries # {} => p \in InQueue(waiting)
    BY <2>4, <2>5 DEF InQueue
  <2>9. Arrived(p) <=> p \notin Arriving(event_queue)
    <3>1. DOMAIN event_queue = 1..Len(event_queue)
      BY <2>3
    <3>2. QED
      BY <3>1 DEF Arrived, Arriving
  <2>10. QED
    BY <2>3, <2>7, <2>8, <2>9 DEF entries
<1>2. QED
  BY <1>1, InvAlways, PTL

\* A process waits in the list of its priority, through demotions and boosts
\* (mlfq-queue.c 25-48, 110-124, 167-181).
THEOREM ListsArePriorities == Spec => []LevelsMatch
<1>1. Inv => LevelsMatch
  <2> SUFFICES ASSUME Inv, scheduler = "mlfq", NEW k \in DOMAIN waiting, NEW p \in ToSet(waiting[k])
               PROVE  proc[p].priority = k - 1
    BY DEF LevelsMatch
  <2>1. Kept
    BY DEF Inv, Empty
  <2>2. PICK n \in Nat : Good(proc, running, waiting, event_queue, 1..n)
    BY <2>1 DEF Kept
  <2>3. k \in 1..ListCount /\ p \in 1..n
    BY <2>2 DEF Good, PlacesOK, Lists, ToSet
  <2>4. proc[p].priority + 1 = k
    BY <2>2, <2>3 DEF Good, PrioritiesOK
  <2>5. proc[p].priority \in Nat
    BY <2>2, <2>3 DEF Good, RecordsOK, Records
  <2>6. QED
    BY <2>3, <2>4, <2>5
<1>2. QED
  BY <1>1, InvAlways, PTL

\* A process overruns its allotment by less than one quantum, for every number
\* of levels and whatever their quanta and allotments (mlfq.c 31-84).
THEOREM AllotmentsBound == Spec => []AllotmentBounded
<1>1. Inv => AllotmentBounded
  <2> SUFFICES ASSUME Inv, scheduler = "mlfq", NEW p \in Processes,
                      Levels[proc[p].priority + 1].allotment > 0,
                      Levels[proc[p].priority + 1].time_quantum # -1,
                      ~BottomLevel(p)
               PROVE  proc[p].time_in_queue <
                        Levels[proc[p].priority + 1].allotment
                          + Levels[proc[p].priority + 1].time_quantum
    BY DEF AllotmentBounded
  <2>1. Kept
    BY DEF Inv, Empty, Processes
  <2>2. PICK n \in Nat : SettingsOK /\ Good(proc, running, waiting, event_queue, 1..n)
    BY <2>1 DEF Kept
  <2>3. p \in 1..n /\ proc[p].priority + 1 \in 1..Len(Levels) /\ Len(Levels) \in Nat
    BY <2>2 DEF Processes, Good, RecordsOK, SettingsOK, LevelsOK
  <2>4. Limited(proc[p])
    BY <2>3 DEF Limited, BottomLevel
  <2>5. Overrun(proc[p])
    BY <2>2, <2>3 DEF Good, AllotmentsOK
  <2>6. QED
    BY <2>4, <2>5 DEF Overrun
<1>2. QED
  BY <1>1, InvAlways, PTL

-----------------------------------------------------------------------------
\* What was read.

\* The last line up to the p-th that is in T, 0 if there is none.
Latest(T, p) == Max({0} \cup {k \in 1..p : k \in T})

\* It is found while reading line by line.
LEMMA LatestRead ==
  ASSUME NEW T
  PROVE  /\ Latest(T, 0) = 0
         /\ \A p \in Nat :
              /\ Latest(T, p) \in 0..p /\ (Latest(T, p) = 0 \/ Latest(T, p) \in T)
              /\ Latest(T, p + 1) = IF p + 1 \in T THEN p + 1 ELSE Latest(T, p)
<1> DEFINE L(p) == {0} \cup {k \in 1..p : k \in T}
           S == {p \in Nat : \E m \in L(p) : \A k \in L(p) : m >= k}
<1>1. \A p \in Nat : \A m \in L(p) : (\A k \in L(p) : m >= k) => Max(L(p)) = m
  <2>1. SUFFICES ASSUME NEW p \in Nat, NEW m \in L(p), \A k \in L(p) : m >= k
                 PROVE  Max(L(p)) = m
    OBVIOUS
  <2>2. \A k \in L(p) : k \in Nat
    OBVIOUS
  <2> DEFINE A == L(p)
  <2> HIDE DEF L
  <2>3. Max(A) \in A /\ \A k \in A : Max(A) >= k
    BY <2>1 DEF Max
  <2>4. QED
    BY <2>1, <2>2, <2>3
<1>2. L(0) = {0}
  OBVIOUS
<1>3. \A p \in Nat : L(p + 1) = IF p + 1 \in T THEN L(p) \cup {p + 1} ELSE L(p)
  OBVIOUS
<1>4. \A p \in Nat : \A k \in L(p) : k \in 0..p
  OBVIOUS
<1>5. 0 \in S
  BY <1>2
<1>6. ASSUME NEW p \in Nat, p \in S PROVE p + 1 \in S
  <2>1. PICK m \in L(p) : \A k \in L(p) : m >= k
    BY <1>6
  <2> HIDE DEF L
  <2>2. CASE p + 1 \in T
    <3>1. L(p + 1) = L(p) \cup {p + 1} /\ \A k \in L(p) : k \in 0..p
      BY <1>3, <1>4, <2>2
    <3>2. p + 1 \in L(p + 1) /\ \A k \in L(p + 1) : p + 1 >= k
      BY <3>1
    <3>3. QED
      BY <3>2
  <2>3. CASE p + 1 \notin T
    <3>1. L(p + 1) = L(p)
      BY <1>3, <2>3
    <3>2. QED
      BY <2>1, <3>1
  <2>4. QED
    BY <2>2, <2>3
<1>7. \A p \in Nat : \E m \in L(p) : \A k \in L(p) : m >= k
  <2>1. Nat \subseteq S
    <3> HIDE DEF S
    <3>1. QED
      BY <1>5, <1>6, NatSetInduction
  <2>2. QED
    BY <2>1
<1>8. \A p \in Nat : Latest(T, p) = Max(L(p))
  BY DEF Latest
<1>9. \A p \in Nat : \A k \in L(p) : k = 0 \/ k \in T
  OBVIOUS
<1> HIDE DEF L, S
<1>10. \A p \in Nat : Latest(T, p) \in L(p) /\ \A k \in L(p) : Latest(T, p) >= k
  BY <1>1, <1>7, <1>8
<1>11. Latest(T, 0) = 0
  BY <1>2, <1>10
<1>12. ASSUME NEW p \in Nat
       PROVE  /\ Latest(T, p) \in 0..p /\ (Latest(T, p) = 0 \/ Latest(T, p) \in T)
              /\ Latest(T, p + 1) = IF p + 1 \in T THEN p + 1 ELSE Latest(T, p)
  <2>1. Latest(T, p) \in 0..p /\ (Latest(T, p) = 0 \/ Latest(T, p) \in T)
    BY <1>4, <1>9, <1>10
  <2>2. CASE p + 1 \in T
    <3>1. L(p + 1) = L(p) \cup {p + 1} /\ \A k \in L(p) : k \in 0..p
      BY <1>3, <1>4, <2>2
    <3>2. p + 1 \in L(p + 1) /\ \A k \in L(p + 1) : p + 1 >= k
      BY <3>1
    <3>3. QED
      BY <1>1, <1>8, <2>1, <2>2, <3>2
  <2>3. CASE p + 1 \notin T
    <3>1. L(p + 1) = L(p)
      BY <1>3, <2>3
    <3>2. QED
      BY <1>8, <2>1, <2>3, <3>1
  <2>4. QED
    BY <2>2, <2>3
<1>13. QED
  BY <1>11, <1>12

\* A line in the file is a process in the list, with what was last read of it.
Written(lines, stack, T, p) == IF Latest(T, p) = 0 THEN stack ELSE lines[Latest(T, p)]
With(lines, fields) == {k \in 1..Len(lines) : lines[k].fields >= fields}

\* Which lines of a file count, and what each leaves of the fields it lacks.
LEMMA ProcessesRead ==
  ASSUME NEW lines, Len(lines) \in Nat, NEW stack
  PROVE  LET pr == get_processes_from_file(lines, stack)
         IN  /\ Len(pr) = Len(lines) /\ DOMAIN pr = 1..Len(lines)
             /\ \A p \in 1..Len(lines) :
                  /\ pr[p].pid = Written(lines, stack, With(lines, 1), p).pid
                  /\ pr[p].arrival_time = Written(lines, stack, With(lines, 2), p).arrival_time
                  /\ pr[p].burst_time = Written(lines, stack, With(lines, 3), p).burst_time
<1> DEFINE N == Len(lines)
           F(f) == [n \in 0..N |-> IF n = 0 THEN stack ELSE Scanned(f[n - 1], lines[n])]
           scan == CHOOSE f : f = F(f)
           pids == {stack.pid} \cup {lines[k].pid : k \in 1..N}
           arrivals == {stack.arrival_time} \cup {lines[k].arrival_time : k \in 1..N}
           bursts == {stack.burst_time} \cup {lines[k].burst_time : k \in 1..N}
           S == {stack} \cup [pid : pids, arrival_time : arrivals, burst_time : bursts]
           d == [n \in 1..N |-> [c \in S |-> Scanned(c, lines[n])]]
           pr == [n \in 1..N |-> scan[n]]
<1>1. N \in Nat
  OBVIOUS
<1>2. get_processes_from_file(lines, stack) = pr
  BY DEF get_processes_from_file
<1> HIDE DEF N
<1>3. \A n \in 1..N : \A c \in S : Scanned(c, lines[n]) \in S
  <2>1. \A c \in S : c.pid \in pids /\ c.arrival_time \in arrivals /\ c.burst_time \in bursts
    OBVIOUS
  <2>2. \A n \in 1..N : /\ lines[n].pid \in pids /\ lines[n].arrival_time \in arrivals
                        /\ lines[n].burst_time \in bursts
    OBVIOUS
  <2> HIDE DEF pids, arrivals, bursts
  <2>3. QED
    BY <2>1, <2>2 DEF Scanned
<1>4. stack \in S
  OBVIOUS
<1> HIDE DEF S
<1>5. \E f : f = F(f)
  <2>1. d \in [1..N -> [S -> S]]
    BY <1>3
  <2> HIDE DEF d
  <2>2. PICK f \in [0..N -> S] : Recursive(f, N, stack, d)
    BY <1>1, <1>4, <2>1, RecursionExists
  <2>3. \A n \in 0..N : f[n] = IF n = 0 THEN stack ELSE d[n][f[n - 1]]
    BY <2>2 DEF Recursive
  <2>4. \A n \in 0..N : n # 0 => n \in 1..N /\ n - 1 \in 0..N /\ f[n - 1] \in S
    BY <1>1, <2>2
  <2>5. \A n \in 0..N : n # 0 => d[n][f[n - 1]] = Scanned(f[n - 1], lines[n])
    BY <2>4 DEF d
  <2>6. f = F(f)
    BY <2>2, <2>3, <2>5
  <2>7. QED
    BY <2>6
<1>6. scan = F(scan)
  <2> HIDE DEF F
  <2>1. QED
    BY <1>5
<1> HIDE DEF scan
<1>7. scan[0] = stack /\ \A n \in 1..N : scan[n] = Scanned(scan[n - 1], lines[n])
  BY <1>1, <1>6
<1> HIDE DEF F
<1> DEFINE W(fields, p) == Written(lines, stack, With(lines, fields), p)
           Matches(p) == /\ scan[p].pid = W(1, p).pid
                         /\ scan[p].arrival_time = W(2, p).arrival_time
                         /\ scan[p].burst_time = W(3, p).burst_time
           T == {p \in Nat : p <= N => Matches(p)}
<1>8. \A fields : W(fields, 0) = stack
  BY LatestRead DEF Written
<1>9. \A fields : \A p \in 0..(N - 1) :
        W(fields, p + 1) = IF lines[p + 1].fields >= fields THEN lines[p + 1] ELSE W(fields, p)
  <2>1. SUFFICES ASSUME NEW fields, NEW p \in 0..(N - 1)
                 PROVE  W(fields, p + 1) = IF lines[p + 1].fields >= fields THEN lines[p + 1]
                                           ELSE W(fields, p)
    OBVIOUS
  <2> DEFINE A == With(lines, fields)
             q == p + 1
  <2>2. p \in Nat /\ q \in 1..N /\ q # 0
    BY <1>1
  <2>3. q \in A <=> lines[q].fields >= fields
    BY <2>2 DEF With, N
  <2>4. Latest(A, p + 1) = IF p + 1 \in A THEN p + 1 ELSE Latest(A, p)
    BY <2>2, LatestRead
  <2> HIDE DEF A
  <2>5. Latest(A, q) = IF q \in A THEN q ELSE Latest(A, p)
    BY <2>4
  <2> HIDE DEF q
  <2>6. Written(lines, stack, A, q) = IF q \in A THEN lines[q] ELSE Written(lines, stack, A, p)
    BY <2>2, <2>5 DEF Written
  <2>7. QED
    BY <2>3, <2>6 DEF A, q
<1> HIDE DEF W
<1>10. 0 \in T
  BY <1>7, <1>8
<1>11. ASSUME NEW p \in Nat, p \in T PROVE p + 1 \in T
  <2> DEFINE q == p + 1
  <2>1. SUFFICES ASSUME q <= N PROVE Matches(q)
    OBVIOUS
  <2>2. p \in 0..(N - 1) /\ q \in 1..N /\ q - 1 = p /\ Matches(p)
    BY <1>1, <1>11, <2>1
  <2>3. \A fields : W(fields, q) = IF lines[q].fields >= fields THEN lines[q] ELSE W(fields, p)
    BY <1>9, <2>2
  <2> HIDE DEF q
  <2>4. scan[q] = Scanned(scan[p], lines[q])
    BY <1>7, <2>2
  <2>5. QED
    BY <2>2, <2>3, <2>4 DEF Scanned
<1>12. \A p \in 1..N : Matches(p)
  <2>1. Nat \subseteq T
    <3> HIDE DEF T
    <3>1. QED
      BY <1>10, <1>11, NatSetInduction
  <2>2. QED
    BY <1>1, <2>1
<1> HIDE DEF Matches
<1>13. \A p \in 1..N : pr[p] = scan[p]
  OBVIOUS
<1>14. Len(pr) = N /\ DOMAIN pr = 1..N
  BY <1>1
<1> HIDE DEF pr
<1>15. QED
  BY <1>1, <1>2, <1>12, <1>13, <1>14 DEF Matches, W, N

\* Load reads the whole file before anything runs, and nothing changes what it
\* has read.
ListRead == phase # "load" /\ input # NULL => base \in PossibleProcesses(input)

\* The list is the one the file gives, as long as the run lasts.
LEMMA ListReadAlways == Spec => []ListRead
<1>1. Init => ListRead
  BY DEF Init, ListRead
<1>2. ListRead /\ [Next]_vars => ListRead'
  <2> SUFFICES ASSUME ListRead, [Next]_vars PROVE ListRead'
    OBVIOUS
  <2>1. input' = input
    BY DEF Next, vars, program, Load, NoInput, SelectAlgorithm, SelectRR, SelectMLFQ, Refuse,
           TestPlain, TestRR, TestMLFQ, FinishTest, Exit, Run
  <2>2. CASE Load
    BY <2>1, <2>2 DEF Load, ListRead
  <2>3. CASE NoInput
    BY <2>1, <2>3 DEF NoInput, ListRead
  <2>4. CASE base' = base /\ (phase = "load" => phase' = phase)
    BY <2>1, <2>4 DEF ListRead
  <2>5. QED
    BY <2>2, <2>3, <2>4
    DEF Next, vars, program, SelectAlgorithm, SelectRR, SelectMLFQ, Refuse,
        TestPlain, TestRR, TestMLFQ, FinishTest, Exit, Run
<1>3. QED
  BY <1>1, <1>2, PTL DEF Spec

\* What process p of the list is, with what the stack held for its fields.
ReadFrom(p, kept, fresh) ==
  LET Unset == IF input.inline THEN fresh ELSE kept
      Values(n) == IF LatestWith(n, p) = 0 THEN Unset ELSE input.lines[LatestWith(n, p)]
  IN  /\ base[p].pid = Values(1).pid
      /\ base[p].arrival_time = Values(2).arrival_time
      /\ base[p].burst_time = Values(3).burst_time

\* A file is read line by line, and what a line lacks is what is left there.
LEMMA FileAsWritten ==
  ASSUME Inv, input # NULL, ~input.inline, base \in PossibleProcesses(input)
  PROVE  /\ Len(base) = Min({Len(input.lines), MaxProcesses})
         /\ \E kept \in Stack : \A p \in DOMAIN base : ReadFrom(p, kept, kept)
<1>1. /\ Len(input.lines) \in Nat /\ MaxProcesses \in Nat
      /\ Len(input.lines) <= MaxProcesses
  BY InputsAssumption, CapacityAssumption DEF Inv
<1>2. PICK stack \in Stack : base = get_processes_from_file(input.lines, stack)
  BY DEF PossibleProcesses
<1> DEFINE lines == input.lines
           N == Len(lines)
<1>3. /\ Len(base) = N /\ DOMAIN base = 1..N
      /\ \A p \in 1..N :
           /\ base[p].pid = Written(lines, stack, With(lines, 1), p).pid
           /\ base[p].arrival_time = Written(lines, stack, With(lines, 2), p).arrival_time
           /\ base[p].burst_time = Written(lines, stack, With(lines, 3), p).burst_time
  BY <1>1, <1>2, ProcessesRead
<1>4. \A n : \A p \in 1..N : LatestWith(n, p) = Latest(With(lines, n), p)
  <2>1. SUFFICES ASSUME NEW n, NEW p \in 1..N
                 PROVE  LatestWith(n, p) = Latest(With(lines, n), p)
    OBVIOUS
  <2>2. \A k \in 1..p : k \in 1..N
    BY <1>1
  <2>3. {k \in 1..p : lines[k].fields >= n} = {k \in 1..p : k \in With(lines, n)}
    BY <2>2 DEF With
  <2>4. QED
    BY <2>3 DEF LatestWith, Latest
<1>5. \A n : \A p \in 1..N :
        Written(lines, stack, With(lines, n), p) =
          IF LatestWith(n, p) = 0 THEN stack ELSE lines[LatestWith(n, p)]
  BY <1>4 DEF Written
<1>6. \A p \in DOMAIN base : ReadFrom(p, stack, stack)
  BY <1>3, <1>5 DEF ReadFrom
<1>7. QED
  BY <1>1, <1>3, <1>6, LeastOfTwo

\* A token of a string is read by itself.
LEMMA StringAsWritten ==
  ASSUME Inv, input # NULL, input.inline, base \in PossibleProcesses(input)
  PROVE  /\ Len(base) = Min({Len(input.lines), MaxProcesses})
         /\ Stack # {}
         /\ \A p \in DOMAIN base : \E fresh \in Stack : \A kept : ReadFrom(p, kept, fresh)
<1> DEFINE lines == input.lines
           N == Min({Len(lines), MaxProcesses})
<1>1. /\ Len(lines) \in Nat /\ MaxProcesses \in Nat \ {0}
  BY InputsAssumption, CapacityAssumption DEF Inv
<1>2. PICK stack \in [1..MaxProcesses -> Stack] : base = get_processes_from_string(lines, stack)
  BY DEF PossibleProcesses
<1>3. N \in Nat /\ N <= MaxProcesses
  BY <1>1, LeastOfTwo
<1>4. base = [n \in 1..N |-> Scanned(stack[n], lines[n])]
  BY <1>2 DEF get_processes_from_string
<1> HIDE DEF N
<1>5. Len(base) = N /\ DOMAIN base = 1..N
  BY <1>3, <1>4
<1>6. stack[1] \in Stack
  BY <1>1, <1>2
<1>7. ASSUME NEW p \in 1..N PROVE stack[p] \in Stack /\ \A kept : ReadFrom(p, kept, stack[p])
  <2>1. p \in 1..MaxProcesses /\ p \in Nat \ {0}
    BY <1>1, <1>3, <1>7
  <2>2. \A n : LatestWith(n, p) = IF lines[p].fields >= n THEN p ELSE 0
    <3>1. SUFFICES ASSUME NEW n PROVE LatestWith(n, p) = IF lines[p].fields >= n THEN p ELSE 0
      OBVIOUS
    <3>2. p..p = {p}
      BY <2>1
    <3>3. LatestWith(n, p) = Max({0} \cup {k \in {p} : lines[k].fields >= n})
      BY <3>2 DEF LatestWith
    <3>4. CASE lines[p].fields >= n
      <4>1. {0} \cup {k \in {p} : lines[k].fields >= n} = {0, p}
        BY <3>4
      <4>2. Max({0, p}) = p
        BY <2>1 DEF Max
      <4>3. QED
        BY <3>3, <3>4, <4>1, <4>2
    <3>5. CASE ~(lines[p].fields >= n)
      <4>1. {0} \cup {k \in {p} : lines[k].fields >= n} = {0}
        BY <3>5
      <4>2. Max({0}) = 0
        BY DEF Max
      <4>3. QED
        BY <3>3, <3>5, <4>1, <4>2
    <3>6. QED
      BY <3>4, <3>5
  <2>3. base[p] = Scanned(stack[p], lines[p])
    BY <1>4, <1>7
  <2>4. /\ base[p].pid = (IF LatestWith(1, p) = 0 THEN stack[p] ELSE lines[LatestWith(1, p)]).pid
        /\ base[p].arrival_time =
             (IF LatestWith(2, p) = 0 THEN stack[p] ELSE lines[LatestWith(2, p)]).arrival_time
        /\ base[p].burst_time =
             (IF LatestWith(3, p) = 0 THEN stack[p] ELSE lines[LatestWith(3, p)]).burst_time
    BY <2>1, <2>2, <2>3 DEF Scanned
  <2>5. QED
    BY <1>2, <2>1, <2>4 DEF ReadFrom
<1>8. QED
  BY <1>5, <1>6, <1>7 DEF N

\* Every line of a workload that fits is a process with the values of its line;
\* what a line of a file lacks is of the last line before that has it, or what the
\* stack held before the first; what a token of a string lacks is whatever the
\* stack holds then, for every file and string (scheduler.c 8-50).
THEOREM ListAsWritten == Spec => []WorkloadAsWritten
<1>1. Inv /\ ListRead => WorkloadAsWritten
  <2> SUFFICES ASSUME Inv, ListRead, phase # "load", input # NULL
               PROVE  /\ Len(base) = Min({Len(input.lines), MaxProcesses})
                      /\ \E kept \in Stack : \A p \in DOMAIN base : \E fresh \in Stack :
                           ReadFrom(p, kept, fresh)
    BY DEF WorkloadAsWritten, ReadFrom
  <2>1. base \in PossibleProcesses(input)
    BY DEF ListRead
  <2>2. CASE input.inline
    BY <2>1, <2>2, StringAsWritten
  <2>3. CASE ~input.inline
    BY <2>1, <2>3, FileAsWritten
  <2>4. QED
    BY <2>2, <2>3
<1>2. QED
  BY <1>1, InvAlways, ListReadAlways, PTL

\* Reading a configuration line by line: the lines that define a level, those
\* that set the period, and what they make of it up to the n-th.
QueuesIn(file, id) == {k \in 1..Len(file) : file[k].kind = "queue" /\ file[k].id = id}
BoostsIn(file) == {k \in 1..Len(file) : file[k].kind = "boost"}
Defined(file, id, n) ==
  LET k == Latest(QueuesIn(file, id), n)
  IN  IF k = 0 THEN Undefined ELSE Level(file[k].quantum, file[k].allotment)
PeriodSet(file, n) ==
  LET k == Latest(BoostsIn(file), n)
  IN  IF k = 0 THEN -1 ELSE file[k].quantum
\* c has the levels up to the last one defined, and the last period.
ReadUpTo(c, file, n) ==
  /\ c \in Configs
  /\ c.boost_period = PeriodSet(file, n)
  /\ \A k \in 1..Len(c.levels) : c.levels[k] = Defined(file, k - 1, n)
  /\ \A id \in Nat : Latest(QueuesIn(file, id), n) # 0 => id < Len(c.levels)
  /\ Len(c.levels) # 0 => Latest(QueuesIn(file, Len(c.levels) - 1), n) # 0
  /\ Len(c.levels) <= MaxLevels

\* The next line that is not an error.
LEMMA LineTaken ==
  ASSUME NEW file \in Seq(ConfigLines), NEW n \in Nat, n < Len(file),
         NEW c, ReadUpTo(c, file, n), ~Rejected(file[n + 1])
  PROVE  ReadUpTo(ReadLine(c, file[n + 1]), file, n + 1)
<1> DEFINE m == n + 1
           l == file[m]
           e == ReadLine(c, l)
           Q(id) == QueuesIn(file, id)
           B == BoostsIn(file)
<1>1. /\ m \in 1..Len(file) /\ m \in Nat /\ m # 0 /\ l \in ConfigLines
      /\ c \in Configs /\ c # NULL /\ c.levels \in Seq(LevelRecords) /\ Len(c.levels) \in Nat
  BY NullAssumption DEF ReadUpTo, Configs
<1>2. l.id \in Nat /\ l.quantum \in Int /\ l.allotment \in Int
      /\ l.kind \in {"queue", "boost"}
  BY <1>1 DEF Rejected, ConfigLines
<1>3. \A id : Latest(Q(id), m) = IF l.kind = "queue" /\ l.id = id THEN m ELSE Latest(Q(id), n)
  <2>1. SUFFICES ASSUME NEW id
                 PROVE  Latest(Q(id), m) = IF l.kind = "queue" /\ l.id = id THEN m
                                           ELSE Latest(Q(id), n)
    OBVIOUS
  <2>2. m \in Q(id) <=> l.kind = "queue" /\ l.id = id
    BY <1>1 DEF QueuesIn
  <2> DEFINE A == Q(id)
  <2> HIDE DEF A
  <2>3. Latest(A, n + 1) = IF n + 1 \in A THEN n + 1 ELSE Latest(A, n)
    BY LatestRead
  <2>4. QED
    BY <2>2, <2>3 DEF A
<1>4. Latest(B, m) = IF l.kind = "boost" THEN m ELSE Latest(B, n)
  <2>1. m \in B <=> l.kind = "boost"
    BY <1>1 DEF BoostsIn
  <2> HIDE DEF B
  <2>2. Latest(B, n + 1) = IF n + 1 \in B THEN n + 1 ELSE Latest(B, n)
    BY LatestRead
  <2>3. QED
    BY <2>1, <2>2
<1>5. \A id : Defined(file, id, m) =
                IF l.kind = "queue" /\ l.id = id THEN Level(l.quantum, l.allotment)
                ELSE Defined(file, id, n)
  BY <1>1, <1>3 DEF Defined
<1>6. PeriodSet(file, m) = IF l.kind = "boost" THEN l.quantum ELSE PeriodSet(file, n)
  BY <1>1, <1>4 DEF PeriodSet
<1>7. e \in Configs
  BY <1>1, LineRead
<1> HIDE DEF Q, B
<1>8. CASE l.kind = "boost"
  <2>1. e = [c EXCEPT !.boost_period = l.quantum]
    BY <1>1, <1>8 DEF ReadLine
  <2>2. e.levels = c.levels /\ e.boost_period = l.quantum
    BY <1>1, <2>1 DEF Configs
  <2>3. /\ \A id : Latest(Q(id), m) = Latest(Q(id), n)
        /\ \A id : Defined(file, id, m) = Defined(file, id, n)
        /\ PeriodSet(file, m) = l.quantum
    BY <1>3, <1>5, <1>6, <1>8
  <2> HIDE DEF e, m, l
  <2>4. QED
    BY <1>7, <2>2, <2>3 DEF ReadUpTo, Q, e, m, l
<1>9. CASE l.kind = "queue"
  <2> DEFINE old == Len(c.levels)
             size == IF l.id < old THEN old ELSE l.id + 1
             new(k) == IF k = l.id + 1 THEN Level(l.quantum, l.allotment)
                       ELSE IF k <= old THEN c.levels[k] ELSE Undefined
  <2>1. e = [c EXCEPT !.levels = DefineLevel(@, l)]
    BY <1>1, <1>9 DEF ReadLine
  <2>2. e.levels = DefineLevel(c.levels, l) /\ e.boost_period = c.boost_period
    BY <1>1, <2>1 DEF Configs
  <2>3. e.levels = [k \in 1..size |-> new(k)]
    BY <2>2 DEF DefineLevel
  <2>4. size \in Nat /\ old \in Nat
    BY <1>1, <1>2
  <2> HIDE DEF e, m, l, new, size, old
  <2>5. Len(e.levels) = size /\ \A k \in 1..size : e.levels[k] = new(k)
    BY <2>3, <2>4
  <2>6. \A id : Latest(Q(id), n) # 0 /\ id \in Nat => id < old
    BY DEF ReadUpTo, Q, old
  <2>7. \A k \in 1..size : new(k) = Defined(file, k - 1, m)
    <3>1. SUFFICES ASSUME NEW k \in 1..size PROVE new(k) = Defined(file, k - 1, m)
      OBVIOUS
    <3>2. k \in Int /\ k - 1 \in Nat /\ (k = l.id + 1 <=> k - 1 = l.id)
      BY <1>2, <2>4, <3>1
    <3>3. CASE k = l.id + 1
      BY <1>5, <1>9, <3>2, <3>3 DEF new
    <3>4. CASE k # l.id + 1 /\ k <= old
      <4>1. k \in 1..Len(c.levels)
        BY <2>4, <3>1, <3>4 DEF old
      <4>2. c.levels[k] = Defined(file, k - 1, n)
        BY <4>1 DEF ReadUpTo
      <4>3. QED
        BY <1>5, <3>2, <3>4, <4>2 DEF new
    <3>5. CASE k # l.id + 1 /\ ~(k <= old)
      <4>1. Latest(Q(k - 1), n) = 0
        BY <2>4, <2>6, <3>2, <3>5
      <4>2. Defined(file, k - 1, n) = Undefined
        BY <4>1 DEF Defined, Q
      <4>3. QED
        BY <1>5, <3>2, <3>5, <4>2 DEF new
    <3>6. QED
      BY <3>3, <3>4, <3>5
  <2>8. \A id \in Nat : Latest(Q(id), m) # 0 => id < size
    BY <1>2, <1>3, <2>4, <2>6 DEF size
  <2>9. size # 0 => Latest(Q(size - 1), m) # 0
    <3>1. CASE l.id < old
      <4>1. size = old /\ Latest(Q(old - 1), n) # 0
        BY <1>2, <2>4, <3>1 DEF ReadUpTo, Q, old, size
      <4>2. QED
        BY <1>1, <1>3, <4>1
    <3>2. CASE ~(l.id < old)
      <4>1. size - 1 = l.id
        BY <1>2, <3>2 DEF size
      <4>2. QED
        BY <1>1, <1>3, <1>9, <4>1
    <3>3. QED
      BY <3>1, <3>2
  <2>10. size <= MaxLevels
    <3>1. old <= MaxLevels
      BY DEF ReadUpTo, old
    <3>2. l.id < MaxLevels
      BY <1>2, <1>9, LevelsAssumption DEF Rejected, l, m
    <3>3. QED
      BY <1>2, <2>4, <3>1, <3>2, LevelsAssumption DEF size
  <2>11. e.boost_period = PeriodSet(file, m)
    BY <1>6, <1>9, <2>2 DEF ReadUpTo
  <2>12. QED
    BY <1>7, <2>5, <2>7, <2>8, <2>9, <2>10, <2>11 DEF ReadUpTo, Q, e, m, l
<1>10. QED
  BY <1>2, <1>8, <1>9

\* The whole file: it is accepted when no line is an error and some level is
\* defined, and it is then a configuration of what the lines say.
LEMMA FileAsRead ==
  ASSUME NEW file \in Seq(ConfigLines), file # NULL
  PROVE  /\ load_mlfq_config(file) # NULL <=>
              /\ \A k \in 1..Len(file) : ~Rejected(file[k])
              /\ \E id \in 0..(MaxLevels - 1) : Defined(file, id, Len(file)) # Undefined
         /\ load_mlfq_config(file) # NULL =>
              /\ ReadUpTo(load_mlfq_config(file), file, Len(file))
              /\ Len(load_mlfq_config(file).levels) # 0
<1> DEFINE N == Len(file)
           Clean(n) == \A k \in 1..n : ~Rejected(file[k])
<1>1. PICK read :
        /\ read[0] = NothingRead
        /\ \A n \in 1..N : read[n] = ReadLine(read[n - 1], file[n])
        /\ \A n \in 0..N : read[n] \in Configs \cup {NULL}
        /\ load_mlfq_config(file) =
             IF read[N] # NULL /\ validate_mlfq_config(read[N]) THEN read[N] ELSE NULL
  BY FileRead
<1>2. N \in Nat
  OBVIOUS
<1> HIDE DEF N
<1> DEFINE T == {n \in Nat : n <= N => /\ Clean(n) => ReadUpTo(read[n], file, n)
                                       /\ ~Clean(n) => read[n] = NULL}
<1>3. 0 \in T
  <2>1. ReadUpTo(NothingRead, file, 0)
    <3>1. NothingRead \in Configs /\ Len(NothingRead.levels) = 0 /\ NothingRead.boost_period = -1
      BY DEF NothingRead, Configs
    <3>2. \A S : Latest(S, 0) = 0
      BY LatestRead
    <3>3. PeriodSet(file, 0) = -1
      BY <3>2 DEF PeriodSet
    <3>4. QED
      BY <3>1, <3>2, <3>3, LevelsAssumption DEF ReadUpTo
  <2>2. QED
    BY <1>1, <2>1
<1>4. ASSUME NEW n \in Nat, n \in T PROVE n + 1 \in T
  <2> DEFINE m == n + 1
  <2>1. SUFFICES ASSUME m <= N
                 PROVE  /\ Clean(m) => ReadUpTo(read[m], file, m)
                        /\ ~Clean(m) => read[m] = NULL
    OBVIOUS
  <2>2. m \in 1..N /\ m - 1 = n /\ n <= N /\ n < N
    BY <1>2, <2>1
  <2>3. read[m] = ReadLine(read[n], file[m])
    BY <1>1, <2>2
  <2>4. Clean(m) <=> Clean(n) /\ ~Rejected(file[m])
    BY <1>2, <2>2
  <2>5. (Clean(n) => ReadUpTo(read[n], file, n)) /\ (~Clean(n) => read[n] = NULL)
    BY <1>4, <2>2
  <2>6. CASE Clean(n) /\ ~Rejected(file[m])
    <3>1. ReadUpTo(read[n], file, n) /\ ~Rejected(file[n + 1]) /\ n < Len(file)
      BY <2>2, <2>5, <2>6 DEF N
    <3> HIDE DEF Clean
    <3>2. ReadUpTo(ReadLine(read[n], file[n + 1]), file, n + 1)
      BY <3>1, LineTaken
    <3>3. QED
      BY <2>3, <2>4, <2>6, <3>2
  <2>7. CASE ~(Clean(n) /\ ~Rejected(file[m]))
    <3> HIDE DEF Clean
    <3>1. read[n] = NULL \/ Rejected(file[m])
      BY <2>5, <2>7
    <3>2. read[m] = NULL
      BY <2>3, <3>1 DEF ReadLine
    <3>3. QED
      BY <2>4, <2>7, <3>2
  <2>8. QED
    BY <2>6, <2>7
<1>5. /\ Clean(N) => ReadUpTo(read[N], file, N)
      /\ ~Clean(N) => read[N] = NULL
  <2>1. N \in T
    <3> HIDE DEF T
    <3>1. QED
      BY <1>2, <1>3, <1>4, NatSetInduction
  <2>2. QED
    BY <1>2, <2>1
<1>6. CASE ~Clean(N)
  <2>1. load_mlfq_config(file) = NULL
    BY <1>1, <1>5, <1>6
  <2>2. QED
    BY <1>6, <2>1 DEF N
<1>7. CASE Clean(N)
  <2> DEFINE c == read[N]
  <2>1. ReadUpTo(c, file, N) /\ c \in Configs /\ c # NULL
    BY <1>5, <1>7, NullAssumption DEF ReadUpTo
  <2> HIDE DEF c
  <2>2. c.levels \in Seq(LevelRecords) /\ Len(c.levels) \in Nat /\ DOMAIN c.levels = 1..Len(c.levels)
    BY <2>1 DEF Configs
  <2>3. validate_mlfq_config(c) <=> \E id \in 0..(MaxLevels - 1) : Defined(file, id, N) # Undefined
    <3>1. ASSUME NEW k \in DOMAIN c.levels, c.levels[k] # Undefined
          PROVE  k - 1 \in 0..(MaxLevels - 1) /\ Defined(file, k - 1, N) # Undefined
      BY <2>1, <2>2, <3>1, LevelsAssumption DEF ReadUpTo
    <3>2. ASSUME NEW id \in 0..(MaxLevels - 1), Defined(file, id, N) # Undefined
          PROVE  id + 1 \in DOMAIN c.levels /\ c.levels[id + 1] # Undefined
      <4>1. Latest(QueuesIn(file, id), N) # 0
        BY <3>2 DEF Defined
      <4>2. id \in Nat /\ id < Len(c.levels)
        BY <2>1, <4>1, LevelsAssumption DEF ReadUpTo
      <4>3. id + 1 \in 1..Len(c.levels) /\ (id + 1) - 1 = id
        BY <2>2, <4>2
      <4>4. c.levels[id + 1] = Defined(file, (id + 1) - 1, N)
        BY <2>1, <4>3 DEF ReadUpTo
      <4>5. QED
        BY <2>2, <3>2, <4>3, <4>4
    <3>3. QED
      BY <3>1, <3>2 DEF validate_mlfq_config
  <2>4. load_mlfq_config(file) = IF validate_mlfq_config(c) THEN c ELSE NULL
    BY <1>1, <2>1 DEF c
  <2>5. validate_mlfq_config(c) => Len(c.levels) # 0
    BY <2>2 DEF validate_mlfq_config
  <2>6. QED
    BY <1>7, <2>1, <2>3, <2>4, <2>5 DEF N
<1>8. QED
  BY <1>6, <1>7

\* The last of all.
LEMMA LatestOfAll ==
  ASSUME NEW n \in Nat, NEW T, T \subseteq 1..n
  PROVE  /\ T = {} <=> Latest(T, n) = 0
         /\ T # {} => Max(T) = Latest(T, n)
<1> DEFINE L == Latest(T, n)
<1>1. L \in 0..n /\ (L = 0 \/ L \in T) /\ {k \in 1..n : k \in T} = T
  BY LatestRead
<1>2. L = Max({0} \cup T)
  BY <1>1 DEF Latest
<1> HIDE DEF L
<1>3. \A k \in T : L >= k
  <2> DEFINE S == {n - k : k \in {0} \cup T}
             A == {0} \cup T
  <2>1. S \subseteq Nat /\ S # {}
    OBVIOUS
  <2>2. PICK s \in S : \A r \in S : s <= r
    <3> HIDE DEF S
    <3>1. QED
      BY <2>1, LeastNatural
  <2>3. PICK a \in A : s = n - a
    OBVIOUS
  <2>4. \A k \in A : a >= k
    <3>1. TAKE k \in A
    <3>2. n - k \in S
      OBVIOUS
    <3>3. n - a <= n - k
      BY <2>2, <2>3, <3>2
    <3>4. QED
      BY <3>3
  <2> HIDE DEF S
  <2>5. Max(A) \in A /\ \A k \in A : Max(A) >= k
    <3> HIDE DEF A
    <3>1. QED
      BY <2>3, <2>4 DEF Max
  <2>6. QED
    BY <1>2, <2>5
<1>4. ASSUME T # {} PROVE L # 0 /\ Max(T) = L
  <2>1. L # 0 /\ L \in T
    BY <1>1, <1>3, <1>4
  <2>2. Max(T) \in T /\ \A k \in T : Max(T) >= k
    BY <1>3, <2>1 DEF Max
  <2>3. QED
    BY <1>1, <1>3, <2>1, <2>2
<1>5. QED
  BY <1>1, <1>4 DEF L

\* MLFQ runs with what the loader made of the file, or the comparison with
\* settings of its own if the loader refused it.
SettingsRead ==
  phase = "simulate" /\ scheduler = "mlfq" =>
    /\ config_file \in args.mlfq_config_files
    /\ \/ load_mlfq_config(config_file) # NULL /\ config = load_mlfq_config(config_file)
       \/ /\ load_mlfq_config(config_file) = NULL /\ args.compare_mode
          /\ config = FallbackConfig

\* The settings are those the arguments and the file give, as long as the run lasts.
LEMMA SettingsReadAlways == Spec => []SettingsRead
<1>1. Init => SettingsRead
  BY DEF Init, SettingsRead
<1>2. SettingsRead /\ [Next]_vars => SettingsRead'
  <2> SUFFICES ASSUME SettingsRead, [Next]_vars PROVE SettingsRead'
    OBVIOUS
  <2>1. args' = args
    BY DEF Next, vars, program, Load, NoInput, SelectAlgorithm, SelectRR, SelectMLFQ, Refuse,
           TestPlain, TestRR, TestMLFQ, FinishTest, Exit, Run
  <2>2. CASE SelectAlgorithm \/ TestPlain
    <3>1. \E s \in {"fcfs", "sjf", "stcf"} : scheduler' = s
      BY <2>2 DEF SelectAlgorithm, TestPlain, Run, Begin
    <3>2. QED
      BY <3>1 DEF SettingsRead
  <2>3. CASE SelectRR \/ TestRR
    BY <2>3 DEF SelectRR, TestRR, Run, Begin, SettingsRead
  <2>4. CASE SelectMLFQ
    <3>1. PICK file \in args.mlfq_config_files :
            /\ load_mlfq_config(file) # NULL
            /\ config_file' = file /\ config' = load_mlfq_config(file)
      BY <2>4 DEF SelectMLFQ, Run, Begin
    <3>2. QED
      BY <2>1, <3>1 DEF SettingsRead
  <2>5. CASE TestMLFQ
    <3>1. PICK file \in args.mlfq_config_files :
            args.compare_mode /\ config_file' = file /\ config' = ConfigOrFallback(file)
      BY <2>5 DEF TestMLFQ, Testing, Run, Begin
    <3>2. FallbackConfig' = FallbackConfig
      BY DEF FallbackConfig
    <3>3. QED
      BY <2>1, <3>1, <3>2 DEF SettingsRead, ConfigOrFallback
  <2>6. CASE phase' # "simulate"
    BY <2>6 DEF SettingsRead
  <2>7. CASE phase' = phase /\ config_file' = config_file /\ UNCHANGED settings
    BY <2>1, <2>7 DEF settings, SettingsRead
  <2>8. QED
    <3>1. CASE phase = "simulate" /\ Simulate /\ UNCHANGED program
      <4>1. UNCHANGED settings
        BY <3>1 DEF Simulate, handle_arrival, handle_completion, handle_quantum_expire,
               handle_priority_boost, Handle, Report
      <4>2. QED
        BY <2>7, <3>1, <4>1 DEF program
    <3>2. CASE UNCHANGED vars
      BY <2>7, <3>2 DEF vars, program, engine, settings
    <3>3. CASE Load \/ NoInput \/ Refuse \/ FinishTest \/ Exit
      BY <2>6, <3>3 DEF Load, NoInput, Refuse, FinishTest, Exit
    <3>4. QED
      BY <2>2, <2>3, <2>4, <2>5, <3>1, <3>2, <3>3 DEF Next
<1>3. QED
  BY <1>1, <1>2, PTL DEF Spec

\* MLFQ runs with the levels of its file, each as it was last defined, with those
\* in between passed through, and with the last period; and whenever the file has an
\* error or defines nothing, only the comparison goes on, with settings of its own
\* (mlfq-config.c 15-162, compare.c 161-176).
THEOREM SettingsAsWritten == Spec => []ConfigAsWritten
<1>1. Inv /\ SettingsRead => ConfigAsWritten
  <2> SUFFICES ASSUME Inv, SettingsRead, phase = "simulate", scheduler = "mlfq"
               PROVE  \/ /\ ~Usable /\ args.compare_mode
                         /\ config = FallbackConfig
                      \/ /\ Usable
                         /\ Len(Levels) = 1 + Max({id \in 0..(MaxLevels - 1) : QueueLines(id) # {}})
                         /\ \A k \in DOMAIN Levels :
                              Levels[k] = IF QueueLines(k - 1) = {} THEN Undefined
                                          ELSE LET l == config_file[Max(QueueLines(k - 1))]
                                               IN  Level(l.quantum, l.allotment)
                         /\ config.boost_period = IF BoostLines = {} THEN -1
                                                  ELSE config_file[Max(BoostLines)].quantum
    BY DEF ConfigAsWritten
  <2> DEFINE file == config_file
             N == Len(file)
             c == load_mlfq_config(file)
  <2>1. file \in Seq(ConfigLines) \cup {NULL}
    BY ConfigAssumption DEF Inv, SettingsRead
  <2>2. CASE file = NULL
    <3>1. c = NULL /\ ~Usable
      BY <2>2 DEF load_mlfq_config, Usable
    <3>2. QED
      BY <3>1 DEF SettingsRead
  <2>3. CASE file # NULL
    <3>1. file \in Seq(ConfigLines) /\ N \in Nat /\ DOMAIN file = 1..N
      BY <2>1, <2>3
    <3>2. /\ c # NULL <=> /\ \A k \in 1..N : ~Rejected(file[k])
                          /\ \E id \in 0..(MaxLevels - 1) : Defined(file, id, N) # Undefined
          /\ c # NULL => ReadUpTo(c, file, N) /\ Len(c.levels) # 0
      BY <2>3, <3>1, FileAsRead
    <3>3. /\ \A id : QueueLines(id) = QueuesIn(file, id) /\ QueuesIn(file, id) \subseteq 1..N
          /\ BoostLines = BoostsIn(file) /\ BoostsIn(file) \subseteq 1..N
      BY <3>1 DEF QueueLines, QueuesIn, BoostLines, BoostsIn
    <3> HIDE DEF file, N, c
    <3>4. \A T : T \subseteq 1..N => /\ T = {} <=> Latest(T, N) = 0
                                     /\ T # {} => Max(T) = Latest(T, N)
      BY <3>1, LatestOfAll
    <3>5. \A id : Defined(file, id, N) =
                    IF QueueLines(id) = {} THEN Undefined
                    ELSE Level(file[Max(QueueLines(id))].quantum, file[Max(QueueLines(id))].allotment)
      BY <3>3, <3>4 DEF Defined
    <3>6. PeriodSet(file, N) = IF BoostLines = {} THEN -1 ELSE file[Max(BoostLines)].quantum
      BY <3>3, <3>4 DEF PeriodSet
    <3>7. \A id : QueueLines(id) # {} <=> Latest(QueuesIn(file, id), N) # 0
      BY <3>3, <3>4
    <3>8. Usable <=> c # NULL
      <4>1. \A k \in 1..N : ~Rejected(file[k]) <=>
              /\ file[k].kind # "broken"
              /\ file[k].kind = "queue" => file[k].id < MaxLevels
        <5>1. \A k \in 1..N : file[k] \in ConfigLines
          BY <3>1
        <5>2. QED
          BY <5>1, LevelsAssumption DEF Rejected, ConfigLines
      <4>2. \A a, b : Level(a, b) # Undefined <=> a # 0 \/ b # 0
        BY DEF Level, Undefined
      <4>3. \A id : Defined(file, id, N) # Undefined <=>
              /\ QueueLines(id) # {}
              /\ LET l == file[Max(QueueLines(id))] IN l.quantum # 0 \/ l.allotment # 0
        BY <3>5, <4>2
      <4>4. DOMAIN file = 1..N
        BY <3>1
      <4>5. Usable <=> /\ \A k \in 1..N : ~Rejected(file[k])
                       /\ \E id \in 0..(MaxLevels - 1) : Defined(file, id, N) # Undefined
        BY <2>3, <4>1, <4>3, <4>4 DEF Usable, file
      <4>6. QED
        BY <3>2, <4>5
    <3>9. CASE c = NULL
      BY <3>8, <3>9 DEF SettingsRead, c, file
    <3>10. CASE c # NULL
      <4>1. config = c /\ Levels = c.levels
        BY <3>10 DEF SettingsRead, c, file, Levels
      <4>2. ReadUpTo(c, file, N) /\ Len(c.levels) # 0
        BY <3>2, <3>10
      <4>3. c.levels \in Seq(LevelRecords) /\ Len(c.levels) \in Nat /\ DOMAIN c.levels = 1..Len(c.levels)
        BY <4>2 DEF ReadUpTo, Configs
      <4>4. Len(c.levels) = 1 + Max({id \in 0..(MaxLevels - 1) : QueueLines(id) # {}})
        <5> DEFINE last == Len(c.levels) - 1
                   S == {id \in 0..(MaxLevels - 1) : QueueLines(id) # {}}
        <5>1. last \in S
          BY <3>7, <4>2, <4>3, LevelsAssumption DEF ReadUpTo
        <5>2. \A id \in S : id \in Nat /\ last >= id
          BY <3>7, <4>2, <4>3, LevelsAssumption DEF ReadUpTo
        <5>3. Max(S) \in S /\ \A id \in S : Max(S) >= id
          <6> HIDE DEF S
          <6>1. QED
            BY <5>1, <5>2 DEF Max
        <5>4. Max(S) = last
          <6>1. last \in Int
            BY <4>3
          <6> HIDE DEF S, last
          <6>2. Max(S) \in Nat /\ last >= Max(S)
            BY <5>2, <5>3
          <6>3. Max(S) >= last
            BY <5>1, <5>3
          <6>4. QED
            BY <6>1, <6>2, <6>3
        <5> HIDE DEF S
        <5>5. QED
          BY <4>3, <5>4 DEF S
      <4>5. \A k \in DOMAIN c.levels : c.levels[k] = Defined(file, k - 1, N)
        BY <4>2, <4>3 DEF ReadUpTo
      <4>6. c.boost_period = PeriodSet(file, N)
        BY <4>2 DEF ReadUpTo
      <4>7. QED
        BY <3>5, <3>6, <3>8, <3>10, <4>1, <4>4, <4>5, <4>6 DEF file
    <3>11. QED
      BY <3>9, <3>10
  <2>4. QED
    BY <2>2, <2>3
<1>2. QED
  BY <1>1, InvAlways, SettingsReadAlways, PTL
=============================================================================
