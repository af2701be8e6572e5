-------------------------- MODULE BufferPoolProofs --------------------------
(***************************************************************************)
(* Proofs about BufferPool for any threads, accounts and pool size: its    *)
(* permits, slots and counters agree, loads find a slot, and the pool      *)
(* implements PinnedAccounts.                                              *)
(***************************************************************************)
EXTENDS BufferPool, FiniteSetTheorems, TLAPS

\* Types, and the argument of a load that has not reached the array.
Shape ==
  /\ slots \in [Slots -> Accounts \cup {None}]
  /\ doing \in [Threads -> Steps]
  /\ wanted \in [Threads -> Accounts \cup {None}]
  /\ claims \subseteq Threads \X Accounts \X Uses /\ IsFiniteSet(claims)
  /\ \A t \in Threads : doing[t] \in {"blocked", "admitted"} => wanted[t] \in Accounts

Numbers ==
  /\ empty_slots \in Nat /\ current_usage \in Nat /\ peak_usage \in Nat
  /\ total_loads \in Nat /\ total_unloads \in Nat

\* A free slot is a permit in the semaphore, a load about to store or an
\* unload about to post.
FreeSlots ==
  Cardinality(SlotsOf(None)) =
    empty_slots + Cardinality(Doing("admitted")) + Cardinality(Doing("cleared"))

\* The counters follow the array.
Counters ==
  /\ current_usage + Cardinality(SlotsOf(None)) = PoolSize
  /\ current_usage = total_loads - total_unloads
  /\ current_usage <= peak_usage
  /\ peak_usage <= PoolSize

\* The pool holds as many accounts as transactions have loaded.
Claimed == current_usage = Cardinality(claims)

PoolInv == Shape /\ Numbers /\ FreeSlots /\ Counters /\ Claimed /\ SlotsMatchClaims

-----------------------------------------------------------------------------
(* Counting *)

\* The pool has PoolSize slots.
LEMMA FiniteSlots == IsFiniteSet(Slots) /\ Cardinality(Slots) = PoolSize
<1>1. PoolSize \in Nat \ {0}
  BY PoolAssumption
<1>2. IsFiniteSet(1 .. PoolSize) /\ Cardinality(1 .. PoolSize) = PoolSize
  BY <1>1, FS_Interval
<1>3. QED
  BY <1>2 DEF Slots

\* Slots can be counted by what they hold.
LEMMA SlotCounts ==
  \A w : IsFiniteSet(SlotsOf(w)) /\ Cardinality(SlotsOf(w)) \in Nat
BY FiniteSlots, FS_Subset, FS_CardinalityType DEF SlotsOf

\* Threads can be counted by where they are.
LEMMA ThreadCounts ==
  \A s : IsFiniteSet(Doing(s)) /\ Cardinality(Doing(s)) \in Nat
BY PoolAssumption, FS_Subset, FS_CardinalityType DEF Doing

\* A thread moves from one set of threads to another.
LEMMA ThreadMoves ==
  ASSUME Shape, NEW t \in Threads, NEW r, doing[t] = r, NEW s \in Steps, r # s,
         doing' = [doing EXCEPT ![t] = s]
  PROVE  /\ Cardinality(Doing(s)') = Cardinality(Doing(s)) + 1
         /\ Cardinality(Doing(r)') = Cardinality(Doing(r)) - 1
         /\ \A w : w # s /\ w # r => Doing(w)' = Doing(w)
<1>1. Doing(s)' = Doing(s) \cup {t} /\ t \notin Doing(s)
  BY DEF Shape, Doing
<1>2. Doing(r)' = Doing(r) \ {t} /\ t \in Doing(r)
  BY DEF Shape, Doing
<1>3. \A w : w # s /\ w # r => Doing(w)' = Doing(w)
  BY DEF Shape, Doing
<1>4. Cardinality(Doing(s) \cup {t}) = Cardinality(Doing(s)) + 1
  BY <1>1, ThreadCounts, FS_AddElement
<1>5. Cardinality(Doing(r) \ {t}) = Cardinality(Doing(r)) - 1
  BY <1>2, ThreadCounts, FS_RemoveElement
<1>6. QED
  BY <1>1, <1>2, <1>3, <1>4, <1>5

\* A slot moves from one set of slots to another.
LEMMA SlotMoves ==
  ASSUME Shape, NEW i \in Slots, NEW r, slots[i] = r, NEW s \in Accounts \cup {None}, r # s,
         slots' = [slots EXCEPT ![i] = s]
  PROVE  /\ Cardinality(SlotsOf(s)') = Cardinality(SlotsOf(s)) + 1
         /\ Cardinality(SlotsOf(r)') = Cardinality(SlotsOf(r)) - 1
         /\ \A w : w # s /\ w # r => SlotsOf(w)' = SlotsOf(w)
<1>1. SlotsOf(s)' = SlotsOf(s) \cup {i} /\ i \notin SlotsOf(s)
  BY DEF Shape, SlotsOf
<1>2. SlotsOf(r)' = SlotsOf(r) \ {i} /\ i \in SlotsOf(r)
  BY DEF Shape, SlotsOf
<1>3. \A w : w # s /\ w # r => SlotsOf(w)' = SlotsOf(w)
  BY DEF Shape, SlotsOf
<1>4. Cardinality(SlotsOf(s) \cup {i}) = Cardinality(SlotsOf(s)) + 1
  BY <1>1, SlotCounts, FS_AddElement
<1>5. Cardinality(SlotsOf(r) \ {i}) = Cardinality(SlotsOf(r)) - 1
  BY <1>2, SlotCounts, FS_RemoveElement
<1>6. QED
  BY <1>1, <1>2, <1>3, <1>4, <1>5

\* So can the loads outstanding on an account.
LEMMA ClaimCounts ==
  ASSUME IsFiniteSet(claims)
  PROVE  \A a : IsFiniteSet(ClaimsOn(a)) /\ Cardinality(ClaimsOn(a)) \in Nat
BY FS_Subset, FS_CardinalityType DEF ClaimsOn

-----------------------------------------------------------------------------
\* init_buffer_pool and the first permits establish the invariant.
LEMMA PoolInit == Init => PoolInv
<1> SUFFICES ASSUME Init PROVE PoolInv
  OBVIOUS
<1> USE DEF Init, InitialPermits
<1>1. Shape
  BY FS_EmptySet DEF Shape, Steps
<1>2. Numbers
  BY PoolAssumption DEF Numbers
<1>3. SlotsOf(None) = Slots /\ Doing("admitted") = {} /\ Doing("cleared") = {}
  BY DEF SlotsOf, Doing
<1>4. FreeSlots /\ Counters
  BY <1>3, FiniteSlots, FS_EmptySet, PoolAssumption DEF FreeSlots, Counters
<1>5. SlotsMatchClaims
  <2>1. ASSUME NEW a \in Accounts PROVE SlotsOf(a) = {} /\ ClaimsOn(a) = {}
    BY PoolAssumption DEF SlotsOf, ClaimsOn
  <2>2. QED
    BY <2>1 DEF SlotsMatchClaims
<1>6. Claimed
  BY FS_EmptySet DEF Claimed
<1>7. QED
  BY <1>1, <1>2, <1>4, <1>5, <1>6 DEF PoolInv

\* sem_wait and its wake-up: a permit moves from the semaphore to a thread.
LEMMA TakePermit ==
  ASSUME PoolInv, NEW t \in Threads, doing[t] \in {"none", "blocked"},
         empty_slots > 0, empty_slots' = empty_slots - 1,
         doing' = [doing EXCEPT ![t] = "admitted"],
         UNCHANGED <<slots, counters, claims>>
  PROVE  FreeSlots' /\ Counters' /\ Claimed' /\ SlotsMatchClaims'
<1> USE DEF PoolInv, Shape, Numbers
<1>1. /\ Cardinality(Doing("admitted")') = Cardinality(Doing("admitted")) + 1
      /\ Doing("cleared")' = Doing("cleared")
  BY ThreadMoves DEF Steps
<1>2. SlotsOf(None)' = SlotsOf(None)
  BY DEF SlotsOf
<1>3. FreeSlots' /\ Counters'
  BY <1>1, <1>2, ThreadCounts, SlotCounts DEF FreeSlots, Counters, counters
<1>4. Claimed' /\ SlotsMatchClaims'
  BY DEF Claimed, counters, SlotsMatchClaims, SlotsOf, ClaimsOn
<1>5. QED
  BY <1>3, <1>4

\* A permit is taken, or the thread queues up for one.
LEMMA SemWaitStep ==
  ASSUME PoolInv, NEW t \in Threads, NEW a \in Accounts, SemWait(t, a)
  PROVE  PoolInv'
<1> USE DEF PoolInv, SemWait
<1>1. Shape'
  BY DEF Shape, Steps
<1>2. Numbers'
  BY DEF Numbers, counters
<1>3. CASE empty_slots > 0
  BY <1>1, <1>2, <1>3, TakePermit DEF Numbers
<1>4. CASE empty_slots = 0
  <2>1. Doing("admitted")' = Doing("admitted") /\ Doing("cleared")' = Doing("cleared")
    BY <1>4 DEF Doing, Shape
  <2>2. QED
    BY <1>1, <1>2, <1>4, <2>1
    DEF FreeSlots, Counters, Claimed, counters, SlotsMatchClaims, SlotsOf, ClaimsOn
<1>5. QED
  BY <1>3, <1>4

\* A thread that queued up takes a permit that was posted.
LEMMA SemWakeStep ==
  ASSUME PoolInv, NEW t \in Threads, SemWake(t)
  PROVE  PoolInv'
<1> USE DEF PoolInv, SemWake
<1>1. Shape'
  BY DEF Shape, Steps
<1>2. Numbers'
  BY DEF Numbers, counters
<1>3. QED
  BY <1>1, <1>2, TakePermit

\* A load about to store finds a free slot.
LEMMA AdmittedFindsSlot ==
  ASSUME PoolInv, NEW t \in Threads, doing[t] = "admitted"
  PROVE  SlotsOf(None) # {}
<1>1. Cardinality(Doing("admitted")) # 0
  BY ThreadCounts, FS_EmptySet DEF Doing
<1>2. Cardinality(SlotsOf(None)) # 0
  BY <1>1, SlotCounts, ThreadCounts DEF PoolInv, Numbers, FreeSlots
<1>3. QED
  BY <1>2, FS_EmptySet

\* An unload of a claimed account finds a slot that holds it.
LEMMA ClaimFindsSlot ==
  ASSUME PoolInv, NEW a \in Accounts, ClaimsOn(a) # {}
  PROVE  SlotsOf(a) # {}
<1>1. Cardinality(ClaimsOn(a)) # 0
  BY ClaimCounts, FS_EmptySet DEF PoolInv, Shape
<1>2. Cardinality(SlotsOf(a)) # 0
  BY <1>1 DEF PoolInv, SlotsMatchClaims
<1>3. QED
  BY <1>2, FS_EmptySet

\* The array changes where the loop stops.
LEMMA LoopStops ==
  ASSUME NEW S \in SUBSET Slots, NEW v, OnFirst(S, v), S # {}
  PROVE  \E i \in S : slots' = [slots EXCEPT ![i] = v]
BY DEF OnFirst, FirstOf

\* load_account under pool_lock.
LEMMA StoreSlotStep ==
  ASSUME PoolInv, NEW t \in Threads, StoreSlot(t)
  PROVE  PoolInv'
<1>a. PICK a \in Accounts : a = wanted[t]
  BY DEF PoolInv, Shape, StoreSlot
<1>b. /\ doing[t] = "admitted" /\ doing' = [doing EXCEPT ![t] = "none"]
      /\ wanted' = [wanted EXCEPT ![t] = None]
      /\ OnFirst(SlotsOf(None), a)
      /\ total_loads' = total_loads + 1 /\ current_usage' = current_usage + 1
      /\ peak_usage' = IF current_usage' > peak_usage THEN current_usage' ELSE peak_usage
      /\ UNCHANGED <<empty_slots, total_unloads>>
  BY <1>a DEF StoreSlot
<1>1. PICK i \in Slots : slots[i] = None /\ slots' = [slots EXCEPT ![i] = a]
  <2>1. SlotsOf(None) # {}
    BY <1>b, AdmittedFindsSlot
  <2>2. SlotsOf(None) \in SUBSET Slots
    BY DEF SlotsOf
  <2>3. QED
    BY <1>b, <2>1, <2>2, LoopStops DEF SlotsOf
<1>2. PICK n \in Uses : /\ <<t, a, n>> \notin claims
                        /\ claims' = claims \cup {<<t, a, n>>}
  BY <1>a DEF StoreSlot, FirstOf
<1>3. Shape'
  BY <1>a, <1>b, <1>1, <1>2, FS_AddElement DEF PoolInv, Shape, Steps
<1>4. /\ Cardinality(SlotsOf(None)') = Cardinality(SlotsOf(None)) - 1
      /\ Cardinality(SlotsOf(a)') = Cardinality(SlotsOf(a)) + 1
      /\ \A b : b # a /\ b # None => SlotsOf(b)' = SlotsOf(b)
  <2>1. None # a /\ a \in Accounts \cup {None}
    BY <1>a, PoolAssumption
  <2>2. Shape
    BY DEF PoolInv
  <2>3. slots[i] = None /\ slots' = [slots EXCEPT ![i] = a] /\ i \in Slots
    BY <1>1
  <2>4. Cardinality(SlotsOf(a)') = Cardinality(SlotsOf(a)) + 1
    <3>1. SlotsOf(a)' = SlotsOf(a) \cup {i} /\ i \notin SlotsOf(a)
      BY <2>1, <2>2, <2>3 DEF Shape, SlotsOf
    <3>2. Cardinality(SlotsOf(a) \cup {i}) = Cardinality(SlotsOf(a)) + 1
      BY <3>1, SlotCounts, FS_AddElement
    <3>3. QED
      BY <3>1, <3>2
  <2>5. Cardinality(SlotsOf(None)') = Cardinality(SlotsOf(None)) - 1
    BY <2>1, <2>2, <2>3, SlotMoves
  <2>6. \A b : b # a /\ b # None => SlotsOf(b)' = SlotsOf(b)
    BY <2>1, <2>2, <2>3, SlotMoves
  <2>7. QED
    BY <2>4, <2>5, <2>6
<1>5. /\ Cardinality(Doing("admitted")') = Cardinality(Doing("admitted")) - 1
      /\ Doing("cleared")' = Doing("cleared")
  BY <1>b, ThreadMoves DEF PoolInv, Steps
<1>6. Numbers'
  BY <1>b DEF PoolInv, Numbers
<1>7. FreeSlots'
  BY <1>b, <1>4, <1>5, SlotCounts, ThreadCounts DEF PoolInv, FreeSlots, Numbers
<1>8. Counters'
  <2>1. current_usage' + Cardinality(SlotsOf(None)') = PoolSize
    BY <1>b, <1>4, SlotCounts, PoolAssumption DEF PoolInv, Counters, Numbers
  <2>2. current_usage' <= PoolSize
    <3>1. Cardinality(SlotsOf(None)') \in Nat
      BY <1>1, FiniteSlots, FS_Subset, FS_CardinalityType DEF SlotsOf
    <3>2. QED
      BY <2>1, <3>1, <1>6, PoolAssumption DEF Numbers
  <2>3. QED
    BY <1>b, <2>1, <2>2 DEF PoolInv, Counters, Numbers
<1>9. SlotsMatchClaims'
  <2>1. SUFFICES ASSUME NEW b \in Accounts
                 PROVE  Cardinality(SlotsOf(b)') = Cardinality(ClaimsOn(b)')
    BY DEF SlotsMatchClaims
  <2>2. CASE b = a
    <3>1. ClaimsOn(a)' = ClaimsOn(a) \cup {<<t, a, n>>} /\ <<t, a, n>> \notin ClaimsOn(a)
      BY <1>2 DEF ClaimsOn
    <3>2. Cardinality(ClaimsOn(a)') = Cardinality(ClaimsOn(a)) + 1
      BY <3>1, ClaimCounts, FS_AddElement DEF PoolInv, Shape
    <3>3. QED
      BY <1>4, <2>2, <3>1, <3>2 DEF PoolInv, SlotsMatchClaims
  <2>3. CASE b # a
    <3>1. ClaimsOn(b)' = ClaimsOn(b)
      BY <1>2, <2>3 DEF ClaimsOn
    <3>2. QED
      BY <1>4, <2>3, <3>1, PoolAssumption DEF PoolInv, SlotsMatchClaims
  <2>4. QED
    BY <2>2, <2>3
<1>10. Claimed'
  <2>1. Cardinality(claims \cup {<<t, a, n>>}) = Cardinality(claims) + 1
    BY <1>2, FS_AddElement DEF PoolInv, Shape
  <2>2. QED
    BY <1>b, <1>2, <2>1 DEF PoolInv, Claimed
<1>11. QED
  BY <1>3, <1>6, <1>7, <1>8, <1>9, <1>10 DEF PoolInv

\* unload_account under pool_lock.
LEMMA ClearSlotStep ==
  ASSUME PoolInv, NEW t \in Threads, NEW a \in Accounts, ClearSlot(t, a)
  PROVE  PoolInv'
<1>b. /\ doing[t] = "none" /\ doing' = [doing EXCEPT ![t] = "cleared"]
      /\ OnFirst(SlotsOf(a), None)
      /\ total_unloads' = total_unloads + 1 /\ current_usage' = current_usage - 1
      /\ UNCHANGED <<empty_slots, total_loads, peak_usage, wanted>>
  BY DEF ClearSlot, Matching
<1>1. PICK n \in Uses : <<t, a, n>> \in claims /\ claims' = claims \ {<<t, a, n>>}
  BY DEF ClearSlot, FirstOf
<1>2. PICK i \in Slots : slots[i] = a /\ slots' = [slots EXCEPT ![i] = None]
  <2>1. SlotsOf(a) # {}
    BY <1>1, ClaimFindsSlot DEF ClaimsOn
  <2>2. SlotsOf(a) \in SUBSET Slots
    BY DEF SlotsOf
  <2>3. QED
    BY <1>b, <2>1, <2>2, LoopStops DEF SlotsOf
<1>3. Shape'
  BY <1>b, <1>1, <1>2, FS_RemoveElement DEF PoolInv, Shape, Steps
<1>4. /\ Cardinality(SlotsOf(None)') = Cardinality(SlotsOf(None)) + 1
      /\ Cardinality(SlotsOf(a)') = Cardinality(SlotsOf(a)) - 1
      /\ \A b : b # a /\ b # None => SlotsOf(b)' = SlotsOf(b)
  <2>1. a # None /\ None \in Accounts \cup {None}
    BY PoolAssumption
  <2>2. QED
    BY <1>2, <2>1, SlotMoves DEF PoolInv
<1>5. /\ Cardinality(Doing("cleared")') = Cardinality(Doing("cleared")) + 1
      /\ Doing("admitted")' = Doing("admitted")
  BY <1>b, ThreadMoves DEF PoolInv, Steps
<1>6. current_usage > 0
  <2>1. Cardinality(SlotsOf(None)) < PoolSize
    <3>1. SlotsOf(None) \subseteq Slots /\ i \notin SlotsOf(None)
      BY <1>2, PoolAssumption DEF SlotsOf
    <3>2. Cardinality(SlotsOf(None)) <= PoolSize /\ Cardinality(SlotsOf(None)) # PoolSize
      BY <3>1, FiniteSlots, FS_Subset
    <3>3. QED
      BY <3>2, SlotCounts, PoolAssumption
  <2>2. QED
    BY <2>1, SlotCounts, PoolAssumption DEF PoolInv, Counters, Numbers
<1>7. Numbers'
  BY <1>b, <1>6 DEF PoolInv, Numbers
<1>8. FreeSlots'
  BY <1>b, <1>4, <1>5, SlotCounts, ThreadCounts DEF PoolInv, FreeSlots, Numbers
<1>9. Counters'
  BY <1>b, <1>4, <1>6, SlotCounts, PoolAssumption DEF PoolInv, Counters, Numbers
<1>10. SlotsMatchClaims'
  <2>1. SUFFICES ASSUME NEW b \in Accounts
                 PROVE  Cardinality(SlotsOf(b)') = Cardinality(ClaimsOn(b)')
    BY DEF SlotsMatchClaims
  <2>2. CASE b = a
    <3>1. ClaimsOn(a)' = ClaimsOn(a) \ {<<t, a, n>>} /\ <<t, a, n>> \in ClaimsOn(a)
      BY <1>1 DEF ClaimsOn
    <3>2. Cardinality(ClaimsOn(a) \ {<<t, a, n>>}) = Cardinality(ClaimsOn(a)) - 1
      BY <3>1, ClaimCounts, FS_RemoveElement DEF PoolInv, Shape
    <3>3. QED
      BY <1>4, <2>2, <3>1, <3>2 DEF PoolInv, SlotsMatchClaims
  <2>3. CASE b # a
    <3>1. ClaimsOn(b)' = ClaimsOn(b)
      BY <1>1, <2>3 DEF ClaimsOn
    <3>2. QED
      BY <1>4, <2>3, <3>1, PoolAssumption DEF PoolInv, SlotsMatchClaims
  <2>4. QED
    BY <2>2, <2>3
<1>11. Claimed'
  <2>1. Cardinality(claims \ {<<t, a, n>>}) = Cardinality(claims) - 1
    BY <1>1, FS_RemoveElement DEF PoolInv, Shape
  <2>2. QED
    BY <1>b, <1>1, <2>1 DEF PoolInv, Claimed
<1>12. QED
  BY <1>3, <1>7, <1>8, <1>9, <1>10, <1>11 DEF PoolInv

\* sem_post: the permit returns to the semaphore.
LEMMA SemPostStep ==
  ASSUME PoolInv, NEW t \in Threads, SemPost(t)
  PROVE  PoolInv'
<1> USE DEF PoolInv, SemPost
<1>1. Shape'
  BY DEF Shape, Steps
<1>2. Numbers'
  BY DEF Numbers, counters
<1>3. /\ Cardinality(Doing("cleared")') = Cardinality(Doing("cleared")) - 1
      /\ Doing("admitted")' = Doing("admitted")
  BY ThreadMoves DEF Steps
<1>4. FreeSlots' /\ Counters'
  BY <1>3, SlotCounts, ThreadCounts DEF FreeSlots, Counters, counters, SlotsOf, Numbers
<1>5. Claimed' /\ SlotsMatchClaims'
  BY DEF Claimed, counters, SlotsMatchClaims, SlotsOf, ClaimsOn
<1>6. QED
  BY <1>1, <1>2, <1>4, <1>5

\* Every step keeps the invariant.
LEMMA PoolStep == PoolInv /\ [Next]_poolVars => PoolInv'
<1> SUFFICES ASSUME PoolInv, [Next]_poolVars PROVE PoolInv'
  OBVIOUS
<1>1. CASE UNCHANGED poolVars
  BY <1>1 DEF poolVars, counters, PoolInv, Shape, Numbers, FreeSlots, Counters, Claimed,
              SlotsMatchClaims, SlotsOf, ClaimsOn, Doing
<1>2. CASE Next
  BY <1>2, SemWaitStep, SemWakeStep, StoreSlotStep, ClearSlotStep, SemPostStep
  DEF Next, Continue
<1>3. QED
  BY <1>1, <1>2

\* So it always holds.
LEMMA PoolInvariant == Spec => []PoolInv
BY PoolInit, PoolStep, PTL DEF Spec

-----------------------------------------------------------------------------
\* The slots in use are those that are not empty.
LEMMA InUseCount ==
  ASSUME PoolInv
  PROVE  Cardinality(InUse) = PoolSize - Cardinality(SlotsOf(None))
<1>1. InUse = Slots \ SlotsOf(None) /\ Slots \cap SlotsOf(None) = SlotsOf(None)
  BY DEF InUse, SlotsOf
<1>2. QED
  BY <1>1, FiniteSlots, FS_Difference

\* Semaphore, array and threads between them account for every permit, so a
\* load never runs off the end of the array (buffer_pool.c 20-58).
THEOREM PermitsAccounted == Spec => []EveryPermitAccounted
<1>1. PoolInv => EveryPermitAccounted
  BY InUseCount, SlotCounts, ThreadCounts, PoolAssumption
  DEF PoolInv, Numbers, FreeSlots, EveryPermitAccounted
<1>2. QED
  BY PoolInvariant, <1>1, PTL

\* There are as many slots for an account as transactions' loads of it.
THEOREM SlotsMatch == Spec => []SlotsMatchClaims
<1>1. PoolInv => SlotsMatchClaims
  BY DEF PoolInv
<1>2. QED
  BY PoolInvariant, <1>1, PTL

\* Usage, loads, unloads and peak agree with the array.
THEOREM CountersMatch == Spec => []CountersMatchSlots
<1>1. PoolInv => CountersMatchSlots
  BY InUseCount, SlotCounts, PoolAssumption
  DEF PoolInv, Numbers, Counters, CountersMatchSlots
<1>2. QED
  BY PoolInvariant, <1>1, PTL

\* Every variable keeps its type; no counter leaves 0 .. BUFFER_POOL_SIZE.
THEOREM PoolTypes == Spec => []TypeOK
<1>1. PoolInv => TypeOK
  BY SlotCounts, ThreadCounts, PoolAssumption
  DEF PoolInv, Shape, Numbers, FreeSlots, Counters, TypeOK
<1>2. QED
  BY PoolInvariant, <1>1, PTL

\* Every step of the pool pins an account when there is room, unpins one, or
\* changes nothing a transaction can see: BufferPool implements PinnedAccounts.
THEOREM ImplementsPinnedAccounts == Spec => BoundedPinning
<1>1. Init => Pinned!Init
  BY DEF Init, Pinned!Init
<1>2. PoolInv /\ [Next]_poolVars => [Pinned!Next]_claims
  <2> SUFFICES ASSUME PoolInv, [Next]_poolVars PROVE [Pinned!Next]_claims
    OBVIOUS
  <2>1. CASE UNCHANGED claims
    BY <2>1
  <2>2. ASSUME NEW t \in Threads, StoreSlot(t) PROVE Pinned!Next
    <3>1. PICK p \in Pinned!Pins : p \notin claims /\ claims' = claims \cup {p}
      <4>1. wanted[t] \in Accounts
        BY <2>2 DEF PoolInv, Shape, StoreSlot
      <4>2. PICK n \in Uses : /\ <<t, wanted[t], n>> \notin claims
                              /\ claims' = claims \cup {<<t, wanted[t], n>>}
        BY <2>2 DEF StoreSlot, FirstOf
      <4>3. QED
        BY <4>1, <4>2 DEF Pinned!Pins, Uses
    <3>2. Cardinality(SlotsOf(None)) # 0
      BY <2>2, AdmittedFindsSlot, SlotCounts, FS_EmptySet DEF StoreSlot
    <3>3. Cardinality(claims) < PoolSize
      BY <3>2, SlotCounts, PoolAssumption DEF PoolInv, Numbers, Counters, Claimed
    <3>4. Pinned!Pin(p)
      BY <3>1, <3>3 DEF Pinned!Pin, Pinned!Cardinality, Cardinality
    <3>5. QED
      BY <3>1, <3>4 DEF Pinned!Next
  <2>3. ASSUME NEW t \in Threads, NEW a \in Accounts, ClearSlot(t, a) PROVE Pinned!Next
    <3>1. PICK n \in Uses : /\ <<t, a, n>> \in claims
                            /\ claims' = claims \ {<<t, a, n>>}
      BY <2>3 DEF ClearSlot, FirstOf
    <3>2. <<t, a, n>> \in Pinned!Pins
      BY <3>1 DEF Pinned!Pins, Uses
    <3>3. QED
      BY <3>1, <3>2 DEF Pinned!Next, Pinned!Unpin
  <2>4. QED
    BY <2>1, <2>2, <2>3 DEF Next, Continue, SemWait, SemWake, SemPost, poolVars
<1>3. QED
  BY <1>1, <1>2, PoolInvariant, PTL DEF Spec, BoundedPinning, Pinned!Spec
=============================================================================
