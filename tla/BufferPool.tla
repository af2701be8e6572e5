----------------------------- MODULE BufferPool -----------------------------
(***************************************************************************)
(* lab_3/src/buffer_pool.c: a fixed array of slots, a counting semaphore   *)
(* that admits loads and a mutex around the array and its counters.        *)
(*                                                                         *)
(* load_account() waits on the semaphore (SemWait, SemWake) and only then  *)
(* claims a slot under pool_lock (StoreSlot); unload_account() clears a    *)
(* slot under pool_lock (ClearSlot) and only then posts (SemPost).  Each   *)
(* section under pool_lock is one step: nothing in it blocks and the data  *)
(* it touches is touched nowhere else.                                     *)
(*                                                                         *)
(* The semaphore is external: sem_wait takes a permit at once when there   *)
(* is one, otherwise it blocks and competes for the permits posted later.  *)
(***************************************************************************)
EXTENDS Integers, FiniteSets

CONSTANTS
  Threads,    \* transaction threads
  Accounts,   \* account identifiers
  PoolSize,   \* BUFFER_POOL_SIZE
  MaxLoads,   \* bound of a run: loads started
  None        \* no account

Slots == 1 .. PoolSize

\* A transaction loads at most the two accounts of a transfer at a time.
Uses == 1 .. 2

ASSUME PoolAssumption ==
  /\ IsFiniteSet(Threads) /\ IsFiniteSet(Accounts)
  /\ PoolSize \in Nat \ {0}
  /\ MaxLoads \in Nat
  /\ None \notin Accounts

VARIABLES
  slots,          \* [Slots -> Accounts \cup {None}]: account_id, None if not in_use
  empty_slots,    \* value of the semaphore
  total_loads, total_unloads, current_usage, peak_usage,
  doing,          \* where a thread is in load_account or unload_account
  wanted,         \* the account_id argument of its call
  claims          \* history: <<t, a, n>>, thread t has loaded a (n-th time)

counters == <<total_loads, total_unloads, current_usage, peak_usage>>
poolVars == <<slots, empty_slots, counters, doing, wanted, claims>>

Steps == {"none", "blocked", "admitted", "cleared"}

TypeOK ==
  /\ slots \in [Slots -> Accounts \cup {None}]
  /\ empty_slots \in 0 .. PoolSize
  /\ total_loads \in Nat /\ total_unloads \in Nat
  /\ current_usage \in 0 .. PoolSize /\ peak_usage \in 0 .. PoolSize
  /\ doing \in [Threads -> Steps]
  /\ wanted \in [Threads -> Accounts \cup {None}]
  /\ claims \subseteq Threads \X Accounts \X Uses

\* sem_init.
OneMore == PoolSize + 1
InitialPermits == PoolSize

Init ==
  /\ slots = [i \in Slots |-> None]
  /\ empty_slots = InitialPermits
  /\ total_loads = 0 /\ total_unloads = 0
  /\ current_usage = 0 /\ peak_usage = 0
  /\ doing = [t \in Threads |-> "none"]
  /\ wanted = [t \in Threads |-> None]
  /\ claims = {}

-----------------------------------------------------------------------------
\* claims only records what has been loaded: the number n makes two loads of one
\* account by one thread (a transfer to itself) two claims, and is always there
\* to take because a thread holds at most two.
InUse == {i \in Slots : slots[i] # None}
SlotsOf(a) == {i \in Slots : slots[i] = a}
ClaimsOn(a) == {c \in claims : c[2] = a}
Doing(step) == {t \in Threads : doing[t] = step}

\* The loops of buffer_pool.c: act on the first slot of a set, if there is one.
AnyInUse(a) == InUse
Matching(a) == SlotsOf(a)

FirstOf(S, i) == i \in S /\ \A j \in S : i <= j
OnEvery(S, value) ==
  slots' = [i \in Slots |-> IF i \in S THEN value ELSE slots[i]]
OnFirst(S, value) ==
  \/ \E i \in Slots : FirstOf(S, i) /\ slots' = [slots EXCEPT ![i] = value]
  \/ S = {} /\ UNCHANGED slots

-----------------------------------------------------------------------------
\* load_account: sem_wait finds a permit, or blocks.
SemWait(t, a) ==
  /\ doing[t] = "none"
  /\ wanted' = [wanted EXCEPT ![t] = a]
  /\ \/ /\ empty_slots > 0
        /\ empty_slots' = empty_slots - 1
        /\ doing' = [doing EXCEPT ![t] = "admitted"]
     \/ /\ empty_slots = 0
        /\ doing' = [doing EXCEPT ![t] = "blocked"]
        /\ UNCHANGED empty_slots
  /\ UNCHANGED <<slots, counters, claims>>

\* A blocked sem_wait takes a permit that was posted.
SemWake(t) ==
  /\ doing[t] = "blocked"
  /\ empty_slots > 0
  /\ empty_slots' = empty_slots - 1
  /\ doing' = [doing EXCEPT ![t] = "admitted"]
  /\ UNCHANGED <<slots, counters, wanted, claims>>

\* load_account: the section under pool_lock.
StoreSlot(t) ==
  /\ doing[t] = "admitted"
  /\ OnFirst(SlotsOf(None), wanted[t])
  /\ total_loads' = total_loads + 1
  /\ current_usage' = current_usage + 1
  /\ peak_usage' = IF current_usage' > peak_usage THEN current_usage' ELSE peak_usage
  /\ doing' = [doing EXCEPT ![t] = "none"]
  /\ wanted' = [wanted EXCEPT ![t] = None]
  /\ \E n \in Uses : /\ FirstOf({m \in Uses : <<t, wanted[t], m>> \notin claims}, n)
                     /\ claims' = claims \cup {<<t, wanted[t], n>>}
  /\ UNCHANGED <<empty_slots, total_unloads>>

\* unload_account: the section under pool_lock.  The slot cleared is the first
\* that holds the account, perhaps one another thread loaded.
ClearSlot(t, a) ==
  /\ doing[t] = "none"
  /\ OnFirst(Matching(a), None)
  /\ total_unloads' = total_unloads + 1
  /\ current_usage' = current_usage - 1
  /\ doing' = [doing EXCEPT ![t] = "cleared"]
  /\ \E n \in Uses : /\ FirstOf({m \in Uses : <<t, a, m>> \in claims}, n)
                     /\ claims' = claims \ {<<t, a, n>>}
  /\ UNCHANGED <<empty_slots, total_loads, peak_usage, wanted>>

\* unload_account: sem_post.
SemPost(t) ==
  /\ doing[t] = "cleared"
  /\ empty_slots' = empty_slots + 1
  /\ doing' = [doing EXCEPT ![t] = "none"]
  /\ UNCHANGED <<slots, counters, wanted, claims>>

\* The part of a load or an unload that follows its first step.
Continue(t) == SemWake(t) \/ StoreSlot(t) \/ SemPost(t)

\* Callers: a thread holds at most two accounts, loads when it likes and
\* unloads what it has loaded.  MaxLoads bounds the loads of a run.
MayLoad(t) == Cardinality({c \in claims : c[1] = t}) < 2
Holding(t, a) == \E n \in Uses : <<t, a, n>> \in claims

Next ==
  \E t \in Threads :
    \/ \E a \in Accounts : /\ total_loads < MaxLoads /\ MayLoad(t)
                           /\ SemWait(t, a)
    \/ \E a \in Accounts : Holding(t, a) /\ ClearSlot(t, a)
    \/ Continue(t)

Spec == Init /\ [][Next]_poolVars
-----------------------------------------------------------------------------
\* Every permit is accounted for: it is in the semaphore, with a thread between
\* the semaphore and the array, or backs a slot in use.  So the loop in
\* load_account never falls through for want of a free slot (buffer_pool.c
\* 22-38, 49-57: take before store, clear before post).
EveryPermitAccounted ==
  /\ PoolSize = empty_slots + Cardinality(InUse)
                  + Cardinality(Doing("admitted")) + Cardinality(Doing("cleared"))
  /\ Cardinality(Doing("admitted")) <= Cardinality(SlotsOf(None))

\* There are as many slots for an account as loads of it outstanding, although
\* an unload may clear the slot another thread filled (buffer_pool.c 49-54).
SlotsMatchClaims ==
  \A a \in Accounts : Cardinality(SlotsOf(a)) = Cardinality(ClaimsOn(a))

\* The report's counters agree with the array (buffer_pool.c 25-29, 46-47).
CountersMatchSlots ==
  /\ current_usage = Cardinality(InUse)
  /\ current_usage = total_loads - total_unloads
  /\ current_usage <= peak_usage

\* BufferPool implements a pool of at most PoolSize pinned accounts.
Pinned == INSTANCE PinnedAccounts WITH pinned <- claims

BoundedPinning == Pinned!Spec
=============================================================================
