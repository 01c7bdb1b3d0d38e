----------------------------- MODULE SyncProofs -----------------------------
(***************************************************************************)
(* Safety of the abstract specification, for all processes, objects and    *)
(* slot counts: types; mutual exclusion and the absence of lost wakeups;   *)
(* the conservation laws of semaphores and barriers.                       *)
(*                                                                         *)
(* LockInv is inductive: a lock may be taken because UNLOCKED means that   *)
(* no live process holds it, an exit may unlock because no other live      *)
(* process holds what it held, and whoever waits is woken by the step that *)
(* ends what it waits for.  The conservation laws rest on it: it says that *)
(* the process making a call is alive.                                     *)
(***************************************************************************)
EXTENDS Sync, FiniteSetTheorems, TLAPS

\* Places and continuations of different kinds differ, and so do those of
\* different objects.
LEMMA PlacesDiffer ==
    ASSUME NEW x, NEW y
    PROVE  /\ Ready # Nowhere /\ Ready # Sleep /\ Nowhere # Sleep
           /\ On(x) # Ready /\ On(x) # Nowhere /\ On(x) # Sleep
           /\ Wait(x) # Ready /\ Wait(x) # Nowhere /\ Wait(x) # Sleep
           /\ On(x) # Wait(y)
           /\ On(x) = On(y) => x = y
           /\ Wait(x) = Wait(y) => x = y
  BY DEF Ready, Nowhere, Sleep, On, Wait

LEMMA KontsDiffer ==
    ASSUME NEW x, NEW y
    PROVE  /\ User # Exited
           /\ Acquiring(x) # User /\ Acquiring(x) # Exited
           /\ Downing(x) # User /\ Downing(x) # Exited
           /\ Leaving(x) # User /\ Leaving(x) # Exited
           /\ Acquiring(x) # Downing(y) /\ Acquiring(x) # Leaving(y)
           /\ Downing(x) # Leaving(y)
           /\ Leaving(x) = Leaving(y) => x = y
  BY DEF User, Exited, Acquiring, Downing, Leaving

LEMMA WaitOnPlaces ==
    /\ Ready \in Places /\ Nowhere \in Places /\ Sleep \in Places
    /\ \A p \in Proc : Wait(p) \in Places
    /\ \A o \in Objects : On(o) \in Places
  BY DEF Places

\* What a switch does to the places it starts from.
LEMMA SwitchFacts ==
    ASSUME NEW place \in [Proc -> Places], Switch(place)
    PROVE  /\ at' \in [Proc -> Places]
           /\ running' \in Proc
           /\ at'[running'] = Ready
           /\ \A q \in Proc : \/ at'[q] = place[q]
                              \/ place[q] = Sleep /\ at'[q] = Ready
  <1>1. PICK up \in SUBSET {p \in Proc : place[p] = Sleep} :
           /\ at' = [p \in Proc |-> IF p \in up THEN Ready ELSE place[p]]
           /\ \E q \in Proc : at'[q] = Ready /\ running' = q
    BY DEF Switch
  <1> QED BY <1>1, WaitOnPlaces

\* What the places are after p has blocked at pl.
LEMMA BlockFacts ==
    ASSUME TypeOK, NEW p \in Proc, NEW pl \in Places \ {Sleep},
           Switch([at EXCEPT ![p] = pl])
    PROVE  /\ at' \in [Proc -> Places]
           /\ running' \in Proc
           /\ at'[running'] = Ready
           /\ at'[p] = pl
           /\ \A q \in Proc \ {p} : at'[q] = at[q] \/ (at[q] = Sleep /\ at'[q] = Ready)
  <1> DEFINE place == [at EXCEPT ![p] = pl]
  <1>1. /\ place \in [Proc -> Places]
        /\ place[p] = pl
        /\ \A q \in Proc \ {p} : place[q] = at[q]
    BY DEF TypeOK
  <1>2. Switch(place)
    OBVIOUS
  <1> HIDE DEF place
  <1> QED BY <1>1, <1>2, SwitchFacts

LEMMA WokenType ==
    ASSUME TypeOK, NEW S
    PROVE  Woken(S) \in [Proc -> Places]
  BY WaitOnPlaces DEF Woken, TypeOK

\* What an exit changes, apart from the values of the objects.
LEMMA ExitFacts ==
    ASSUME TypeOK, NEW p \in Proc, Exit(p)
    PROVE  /\ at' \in [Proc -> Places]
           /\ running' \in Proc
           /\ at'[running'] = Ready
           /\ at'[p] = Nowhere
           /\ \A q \in Proc \ {p} :
                \/ at'[q] = at[q] /\ at[q] \notin Given(p)
                \/ at[q] \in Given(p) \cup {Sleep} /\ at'[q] = Ready
  <1> DEFINE place == [Woken(Given(p)) EXCEPT ![p] = Nowhere]
  <1>1. place \in [Proc -> Places] /\ Switch(place)
    BY WokenType, WaitOnPlaces DEF Exit
  <1>2. place[p] = Nowhere
    BY DEF Woken
  <1>3. \A q \in Proc \ {p} :
           place[q] = IF at[q] \in Given(p) THEN Ready ELSE at[q]
    BY DEF Woken
  <1> HIDE DEF place
  <1> QED BY <1>1, <1>2, <1>3, SwitchFacts, PlacesDiffer

LEMMA DownedFinite ==
    ASSUME NEW p, NEW s
    PROVE  IsFiniteSet(Downed(p, s)) /\ Cardinality(Downed(p, s)) \in Nat
  <1>1. IsFiniteSet(Slots)
    BY SyncAssumption, FS_Interval DEF Slots
  <1>2. Downed(p, s) \subseteq Slots
    BY DEF Downed
  <1> QED BY <1>1, <1>2, FS_Subset, FS_CardinalityType

LEMMA KontTypes ==
    /\ User \in Konts /\ Exited \in Konts
    /\ \A l \in Locks : Acquiring(l) \in Konts
    /\ \A s \in Sems : Downing(s) \in Konts
    /\ \A b \in Barriers : Leaving(b) \in Konts
  BY DEF Konts

LEMMA ObjectKinds ==
    /\ Locks \subseteq Objects /\ Conds \subseteq Objects
    /\ Sems \subseteq Objects /\ Barriers \subseteq Objects
  BY DEF Objects

LEMMA ExitType ==
    ASSUME TypeOK, NEW p \in Proc, Exit(p)
    PROVE  TypeOK'
  <1>1. at' \in [Proc -> Places] /\ running' \in Proc
    BY ExitFacts
  <1>2. limit' \in [Sems \cup Barriers -> Int]
    BY DownedFinite DEF Exit, TypeOK
  <1>3. kont' \in [Proc -> Konts]
    BY KontTypes DEF Exit, TypeOK
  <1> QED BY <1>1, <1>2, <1>3 DEF Exit, TypeOK

LEMMA UnlockType ==
    ASSUME TypeOK, NEW p \in Proc, NEW l \in Locks, Unlock(p, l)
    PROVE  /\ locks' \in [Proc -> [Slots -> Locks \cup {NULL}]]
           /\ lock_status' \in [Locks -> {"LOCKED", "UNLOCKED"}]
  BY DEF Unlock, TypeOK

LEMMA TypeStep == TypeOK /\ [Next]_vars => TypeOK'
  <1> SUFFICES ASSUME TypeOK, [Next]_vars PROVE TypeOK'
    OBVIOUS
  <1> USE DEF TypeOK
  <1>0. CASE UNCHANGED vars
    BY <1>0 DEF vars
  <1>1. ASSUME NEW p \in Proc, ProcStep(p) PROVE TypeOK'
    <2>1. CASE Preempt(p)
      BY <2>1, SwitchFacts DEF Preempt
    <2>2. CASE DoSleep(p)
      BY <2>2, SwitchFacts, WaitOnPlaces DEF DoSleep
    <2>3. CASE DoExit(p)
      BY <2>3, ExitType DEF DoExit
    <2>4. ASSUME NEW t \in Proc, DoWait(p, t) PROVE TypeOK'
      BY <2>4, SwitchFacts, WaitOnPlaces DEF DoWait
    <2>5. ASSUME NEW t \in Proc, DoSpawn(p, t) PROVE TypeOK'
      <3>1. NoSlots \in [Slots -> Locks \cup {NULL}] /\ NoSlots \in [Slots -> Sems \cup {NULL}]
        BY DEF NoSlots
      <3> QED BY <2>5, <3>1, WaitOnPlaces, KontTypes DEF DoSpawn
    <2> QED BY <1>1, <2>1, <2>2, <2>3, <2>4, <2>5 DEF ProcStep
  <1>2. ASSUME NEW p \in Proc, LockStep(p) PROVE TypeOK'
    <2> PICK l \in Locks : \/ DoMutexLockInit(p, l) \/ Acquire(p, l) \/ DoMutexLockRelease(p, l)
                           \/ \E c \in Conds : DoConditionWait(p, l, c)
      BY <1>2 DEF LockStep
    <2>1. CASE DoMutexLockInit(p, l)
      BY <2>1, ObjectKinds DEF DoMutexLockInit, ObjectInit
    <2>2. CASE Acquire(p, l)
      <3>1. CASE Exit(p)
        BY <3>1, ExitType
      <3>2. CASE lock_status[l] = "LOCKED" /\ ~Exit(p)
        <4>1. Switch([at EXCEPT ![p] = On(l)]) /\ On(l) \in Places \ {Sleep}
          BY <2>2, <3>2, WaitOnPlaces, ObjectKinds, PlacesDiffer DEF Acquire
        <4>2. at' \in [Proc -> Places] /\ running' \in Proc
          BY <4>1, BlockFacts
        <4>3. kont' \in [Proc -> Konts]
          BY <2>2, <3>2, KontTypes DEF Acquire
        <4> QED BY <2>2, <3>2, <4>2, <4>3 DEF Acquire
      <3>3. CASE lock_status[l] # "LOCKED" /\ ~Exit(p)
        <4>1. /\ lock_status' = [lock_status EXCEPT ![l] = "LOCKED"]
              /\ kont' = [kont EXCEPT ![p] = User]
              /\ \E i \in Slots : locks' = [locks EXCEPT ![p][i] = l]
              /\ UNCHANGED <<at, running, inited, limit, sems>>
          BY <2>2, <3>3 DEF Acquire
        <4>2. locks' \in [Proc -> [Slots -> Locks \cup {NULL}]]
          BY <4>1
        <4>3. lock_status' \in [Locks -> {"LOCKED", "UNLOCKED"}] /\ kont' \in [Proc -> Konts]
          BY <4>1, KontTypes
        <4> QED BY <4>1, <4>2, <4>3
      <3> QED BY <3>1, <3>2, <3>3
    <2>3. CASE DoMutexLockRelease(p, l)
      BY <2>3, UnlockType, WokenType DEF DoMutexLockRelease
    <2>4. ASSUME NEW c \in Conds, DoConditionWait(p, l, c) PROVE TypeOK'
      <3>1. [Woken({On(l)}) EXCEPT ![p] = On(c)] \in [Proc -> Places]
        BY WokenType, WaitOnPlaces, ObjectKinds
      <3>2. at' \in [Proc -> Places] /\ running' \in Proc
        BY <2>4, <3>1, SwitchFacts DEF DoConditionWait
      <3>3. kont' \in [Proc -> Konts]
        BY <2>4, KontTypes DEF DoConditionWait
      <3>4. /\ locks' \in [Proc -> [Slots -> Locks \cup {NULL}]]
            /\ lock_status' \in [Locks -> {"LOCKED", "UNLOCKED"}]
        BY <2>4, UnlockType DEF DoConditionWait
      <3> QED BY <2>4, <3>2, <3>3, <3>4 DEF DoConditionWait
    <2> QED BY <2>1, <2>2, <2>3, <2>4
  <1>3. ASSUME NEW p \in Proc, CondStep(p) PROVE TypeOK'
    BY <1>3, WokenType, WaitOnPlaces, ObjectKinds
       DEF CondStep, DoConditionInit, ObjectInit, DoConditionSignal, DoConditionBroadcast
  <1>4. ASSUME NEW p \in Proc, SemStep(p) PROVE TypeOK'
    <2> PICK s \in Sems : \/ \E v \in SemVals : DoSemaphoreInit(p, s, v)
                          \/ Down(p, s) \/ DoSemaphoreUp(p, s)
      BY <1>4 DEF SemStep
    <2>1. ASSUME NEW v \in SemVals, DoSemaphoreInit(p, s, v) PROVE TypeOK'
      BY <2>1, ObjectKinds, SyncAssumption DEF DoSemaphoreInit, ObjectInit
    <2>2. CASE Down(p, s)
      <3>1. CASE Exit(p)
        BY <3>1, ExitType
      <3>2. CASE limit[s] <= 0 /\ ~Exit(p)
        <4>1. Switch([at EXCEPT ![p] = On(s)]) /\ On(s) \in Places \ {Sleep}
          BY <2>2, <3>2, WaitOnPlaces, ObjectKinds, PlacesDiffer DEF Down
        <4>2. at' \in [Proc -> Places] /\ running' \in Proc
          BY <4>1, BlockFacts
        <4>3. kont' \in [Proc -> Konts]
          BY <2>2, <3>2, KontTypes DEF Down
        <4>4. UNCHANGED <<inited, lock_status, limit, locks, sems>>
          BY <2>2, <3>2 DEF Down
        <4> QED BY <4>2, <4>3, <4>4
      <3>3. CASE ~(limit[s] <= 0) /\ ~Exit(p)
        <4>1. /\ limit' = [limit EXCEPT ![s] = @ - 1]
              /\ kont' = [kont EXCEPT ![p] = User]
              /\ \E i \in Slots : sems' = [sems EXCEPT ![p][i] = s]
              /\ UNCHANGED <<at, running, inited, lock_status, locks>>
          BY <2>2, <3>3 DEF Down
        <4>2. sems' \in [Proc -> [Slots -> Sems \cup {NULL}]]
          BY <4>1
        <4>3. limit' \in [Sems \cup Barriers -> Int] /\ kont' \in [Proc -> Konts]
          BY <4>1, KontTypes
        <4> QED BY <4>1, <4>2, <4>3
      <3> QED BY <3>1, <3>2, <3>3
    <2>3. CASE DoSemaphoreUp(p, s)
      BY <2>3, WokenType DEF DoSemaphoreUp
    <2> QED BY <2>1, <2>2, <2>3
  <1>5. ASSUME NEW p \in Proc, BarrierStep(p) PROVE TypeOK'
    <2> PICK b \in Barriers : \/ \E g \in Goals : DoBarrierInit(p, b, g)
                              \/ Arrive(p, b) \/ Leave(p, b)
      BY <1>5 DEF BarrierStep
    <2>1. ASSUME NEW g \in Goals, DoBarrierInit(p, b, g) PROVE TypeOK'
      BY <2>1, ObjectKinds, SyncAssumption DEF DoBarrierInit, ObjectInit
    <2>2. CASE Arrive(p, b)
      <3>1. CASE limit[b] <= 1
        BY <2>2, <3>1, WokenType DEF Arrive
      <3>2. CASE limit[b] > 1
        <4>1. /\ Switch([at EXCEPT ![p] = On(b)]) /\ On(b) \in Places \ {Sleep}
              /\ limit' = [limit EXCEPT ![b] = @ - 1]
              /\ kont' = [kont EXCEPT ![p] = Leaving(b)]
              /\ UNCHANGED <<inited, lock_status, locks, sems>>
          BY <2>2, <3>2, WaitOnPlaces, ObjectKinds, PlacesDiffer DEF Arrive
        <4>2. at' \in [Proc -> Places] /\ running' \in Proc
          BY <4>1, BlockFacts
        <4>3. limit' \in [Sems \cup Barriers -> Int] /\ kont' \in [Proc -> Konts]
          BY <4>1, KontTypes
        <4> QED BY <4>1, <4>2, <4>3
      <3> QED BY <2>2, <3>1, <3>2 DEF Arrive
    <2>3. CASE Leave(p, b)
      BY <2>3, KontTypes DEF Leave
    <2> QED BY <2>1, <2>2, <2>3
  <1> QED BY <1>0, <1>1, <1>2, <1>3, <1>4, <1>5 DEF Next

LEMMA InitType == Init => TypeOK
  BY WaitOnPlaces, KontTypes, SyncAssumption DEF Init, TypeOK, NoSlots

\* Every variable keeps the type sched.h and the object headers give it.
THEOREM TypeCorrect == Spec => []TypeOK
  BY InitType, TypeStep, PTL DEF Spec

---------------------------------------------------------------------------
(* Locks and wakeups.                                                      *)

\* A process that stays where it was or becomes ready still awaits something,
\* when what it waited for has not come to an end.
LEMMA StillAwaits ==
    ASSUME LockInv, NEW q \in Proc,
           \/ at'[q] = Ready
           \/ /\ at'[q] = at[q]
              /\ \A l \in Locks : at[q] = On(l) => lock_status'[l] = lock_status[l]
              /\ \A s \in Sems : at[q] = On(s) => limit'[s] = limit[s]
              /\ \A t \in Proc : at[q] = Wait(t) => at'[t] # Nowhere
    PROVE  Awaits(q)'
  <1>1. CASE at'[q] = Ready
    BY <1>1, PlacesDiffer DEF Awaits
  <1>2. CASE at'[q] # Ready
    BY <1>2 DEF LockInv, NoLostWakeup, Awaits, Live
  <1> QED BY <1>1, <1>2

\* A step that leaves the locks alone and neither starts nor ends a process.
LEMMA LocksUntouched ==
    ASSUME LockInv, TypeOK',
           UNCHANGED <<lock_status, locks>>,
           at'[running'] = Ready,
           \A q \in Proc : at'[q] = Nowhere <=> at[q] = Nowhere,
           \A q \in Proc : Awaits(q)',
           inited \subseteq inited',
           \A s \in Sems \ inited' : \A q \in Proc : at'[q] # On(s)
    PROVE  LockInv'
  <1>1. RunningReady' /\ NoLostWakeup'
    BY DEF RunningReady, NoLostWakeup
  <1>2. MutualExclusion' /\ LockedIffHeld'
    BY DEF LockInv, MutualExclusion, LockedIffHeld, Live, Has
  <1>3. Unused'
    BY DEF LockInv, Unused
  <1> QED BY <1>1, <1>2, <1>3 DEF LockInv

\* A switch after p has gone to pl, with nothing else changed that others
\* wait for: the case of preemption, sleep, waitpid and every blocking.
LEMMA BlockStep ==
    ASSUME LockInv, TypeOK', NEW p \in Proc, running = p,
           NEW pl \in Places \ {Nowhere},
           Switch([at EXCEPT ![p] = pl]),
           UNCHANGED <<lock_status, locks, inited>>,
           \A s \in Sems : limit'[s] = limit[s],
           \A l \in Locks : pl = On(l) => lock_status[l] = "LOCKED",
           \A s \in Sems : pl = On(s) => limit[s] <= 0 /\ s \in inited,
           \A t \in Proc : pl = Wait(t) => Live(t)
    PROVE  LockInv'
  <1> USE DEF LockInv
  <1> DEFINE place == [at EXCEPT ![p] = pl]
  <1>1. /\ place \in [Proc -> Places]
        /\ place[p] = pl
        /\ \A q \in Proc \ {p} : place[q] = at[q]
    BY DEF TypeOK
  <1>2. /\ at'[running'] = Ready
        /\ \A q \in Proc : at'[q] = place[q] \/ (place[q] = Sleep /\ at'[q] = Ready)
    <2>1. Switch(place)
      OBVIOUS
    <2> HIDE DEF place
    <2> QED BY <1>1, <2>1, SwitchFacts
  <1> HIDE DEF place
  <1>3. at[p] = Ready
    BY DEF RunningReady
  <1>4. \A q \in Proc : at'[q] = Nowhere <=> at[q] = Nowhere
    BY <1>1, <1>2, <1>3, PlacesDiffer
  <1>5. ASSUME NEW q \in Proc PROVE Awaits(q)'
    <2>1. CASE q # p
      <3>1. at'[q] = Ready \/ at'[q] = at[q]
        BY <1>1, <1>2, <2>1
      <3>2. ASSUME NEW t \in Proc, at[q] = Wait(t) PROVE at'[t] # Nowhere
        BY <1>4, <3>2 DEF NoLostWakeup, Awaits, Live
      <3> QED BY <3>1, <3>2, StillAwaits
    <2>2. CASE q = p /\ at'[q] = Ready
      BY <2>2, StillAwaits
    <2>3. CASE q = p /\ at'[q] # Ready
      <3>1. at'[q] = pl
        BY <1>1, <1>2, <2>3
      <3> QED BY <1>4, <3>1 DEF Awaits, Live
    <2> QED BY <2>1, <2>2, <2>3
  <1>6. ASSUME NEW s \in Sems \ inited', NEW q \in Proc PROVE at'[q] # On(s)
    <2>1. at[q] # On(s) /\ pl # On(s)
      BY DEF Unused
    <2> QED BY <1>1, <1>2, <2>1, PlacesDiffer
  <1> QED BY <1>2, <1>4, <1>5, <1>6, LocksUntouched

\* A step that only makes processes ready that are not sleeping or exited,
\* and changes the values of no semaphore that someone still waits for.
LEMMA WakeStep ==
    ASSUME LockInv, TypeOK',
           \A q \in Proc : at'[q] = at[q] \/ (at'[q] = Ready /\ at[q] # Nowhere),
           UNCHANGED <<running, lock_status, locks>>,
           inited \subseteq inited',
           \A q \in Proc : \A s \in Sems : at'[q] = On(s) => limit'[s] = limit[s]
    PROVE  LockInv'
  <1> USE DEF LockInv
  <1>1. \A q \in Proc : at'[q] = Nowhere <=> at[q] = Nowhere
    BY PlacesDiffer
  <1>2. at'[running'] = Ready
    BY DEF RunningReady, TypeOK
  <1>3. ASSUME NEW q \in Proc PROVE Awaits(q)'
    <2>1. ASSUME NEW t \in Proc, at[q] = Wait(t) PROVE at'[t] # Nowhere
      BY <1>1, <2>1 DEF NoLostWakeup, Awaits, Live
    <2> QED BY <2>1, StillAwaits
  <1>4. ASSUME NEW s \in Sems \ inited', NEW q \in Proc PROVE at'[q] # On(s)
    BY PlacesDiffer DEF Unused
  <1> QED BY <1>1, <1>2, <1>3, <1>4, LocksUntouched

\* do_unblock_all makes the waiting ready and moves nobody else.
LEMMA WokenFacts ==
    ASSUME TypeOK, NEW S, Nowhere \notin S, at' = Woken(S), NEW q \in Proc
    PROVE  /\ at'[q] = at[q] \/ (at'[q] = Ready /\ at[q] # Nowhere)
           /\ at[q] \in S => at'[q] = Ready
  BY DEF Woken, TypeOK

\* An exit unlocks what the process held, and wakes whoever waited for it.
LEMMA ExitStep ==
    ASSUME LockInv, TypeOK', NEW p \in Proc, running = p, Exit(p)
    PROVE  LockInv'
  <1> USE DEF LockInv
  <1>1. /\ at'[running'] = Ready
        /\ at'[p] = Nowhere
        /\ \A q \in Proc \ {p} :
              \/ at'[q] = at[q] /\ at[q] \notin Given(p)
              \/ at[q] \in Given(p) \cup {Sleep} /\ at'[q] = Ready
    BY ExitFacts
  <1>2. /\ lock_status' = [l \in Locks |-> IF Has(p, l) THEN "UNLOCKED" ELSE lock_status[l]]
        /\ \A s \in Sems : limit'[s] = limit[s] + Cardinality(Downed(p, s))
        /\ UNCHANGED <<inited, locks>>
    BY DEF Exit
  <1>3. Live(p)
    BY PlacesDiffer DEF RunningReady, Live
  <1>4. Nowhere \notin Given(p)
    BY PlacesDiffer DEF Given
  <1>5. \A q \in Proc \ {p} : Live(q)' <=> Live(q)
    BY <1>1, <1>4, PlacesDiffer DEF Live
  <1>6. ~Live(p)'
    BY <1>1 DEF Live
  <1>7. MutualExclusion'
    BY <1>2, <1>5, <1>6 DEF MutualExclusion
  <1>8. LockedIffHeld'
    <2> SUFFICES ASSUME NEW l \in Locks
                 PROVE  lock_status'[l] = "LOCKED" <=> \E q \in Proc : Live(q)' /\ Has(q, l)'
      BY DEF LockedIffHeld
    <2>1. \A q \in Proc : Has(q, l)' <=> Has(q, l)
      BY <1>2 DEF Has
    <2>2. CASE Has(p, l)
      <3>1. lock_status'[l] # "LOCKED"
        BY <1>2, <2>2
      <3>2. \A q \in Proc \ {p} : ~(Live(q) /\ Has(q, l))
        BY <1>3, <2>2 DEF MutualExclusion, Has
      <3> QED BY <1>5, <1>6, <2>1, <3>1, <3>2
    <2>3. CASE ~Has(p, l)
      <3>1. lock_status'[l] = lock_status[l]
        BY <1>2, <2>3
      <3>2. lock_status[l] = "LOCKED" <=> \E q \in Proc : Live(q) /\ Has(q, l)
        BY DEF LockedIffHeld
      <3> QED BY <1>5, <1>6, <2>1, <2>3, <3>1, <3>2
    <2> QED BY <2>2, <2>3
  <1>9. NoLostWakeup'
    <2> SUFFICES ASSUME NEW q \in Proc PROVE Awaits(q)'
      BY DEF NoLostWakeup
    <2>1. CASE q = p
      BY <1>1, <2>1, PlacesDiffer DEF Awaits
    <2>2. CASE q # p /\ at'[q] = Ready
      BY <2>2, StillAwaits
    <2>3. CASE q # p /\ at'[q] # Ready
      <3>1. at'[q] = at[q] /\ at[q] \notin Given(p)
        BY <1>1, <2>3
      <3>2. ASSUME NEW l \in Locks, at[q] = On(l) PROVE lock_status'[l] = lock_status[l]
        BY <1>2, <3>1, <3>2 DEF Given
      <3>3. ASSUME NEW s \in Sems, at[q] = On(s) PROVE limit'[s] = limit[s]
        <4>1. Downed(p, s) = {}
          BY <3>1, <3>3 DEF Given
        <4>2. Cardinality(Downed(p, s)) = 0
          BY <4>1, FS_EmptySet
        <4> QED BY <1>2, <4>2 DEF TypeOK
      <3>4. ASSUME NEW t \in Proc, at[q] = Wait(t) PROVE at'[t] # Nowhere
        <4>1. t # p
          BY <3>1, <3>4 DEF Given
        <4>2. Live(t)
          BY <3>4 DEF NoLostWakeup, Awaits
        <4> QED BY <1>5, <4>1, <4>2 DEF Live
      <3> QED BY <3>1, <3>2, <3>3, <3>4, StillAwaits
    <2> QED BY <2>1, <2>2, <2>3
  <1>10. Unused'
    <2>1. ASSUME NEW l \in Locks \ inited' PROVE lock_status'[l] = "UNLOCKED"
      BY <1>2 DEF Unused
    <2>2. ASSUME NEW s \in Sems \ inited', NEW q \in Proc PROVE at'[q] # On(s)
      BY <1>1, <1>2, PlacesDiffer DEF Unused
    <2> QED BY <2>1, <2>2 DEF Unused
  <1> QED BY <1>1, <1>7, <1>8, <1>9, <1>10 DEF RunningReady

\* A lock is granted: nobody live held it, now p does, in one slot.
LEMMA GrantStep ==
    ASSUME LockInv, TypeOK', NEW p \in Proc, running = p,
           NEW l \in Locks, l \in inited, lock_status[l] = "UNLOCKED",
           NEW i \in Slots, locks[p][i] = NULL,
           locks' = [locks EXCEPT ![p][i] = l],
           lock_status' = [lock_status EXCEPT ![l] = "LOCKED"],
           UNCHANGED <<at, running, inited, limit>>
    PROVE  LockInv'
  <1> USE DEF LockInv
  <1>1. Live(p) /\ \A q \in Proc : Live(q)' <=> Live(q)
    BY PlacesDiffer DEF RunningReady, Live
  <1>2. \A q \in Proc : \A j \in Slots :
           locks'[q][j] = IF q = p /\ j = i THEN l ELSE locks[q][j]
    BY DEF TypeOK
  <1>3. \A q \in Proc : \A j \in Slots : Live(q) => locks[q][j] # l
    BY DEF LockedIffHeld, Has
  <1>4. NULL \notin Locks
    BY SyncAssumption
  <1>5. \A m \in Locks : lock_status'[m] = IF m = l THEN "LOCKED" ELSE lock_status[m]
    BY DEF TypeOK
  <1>6. MutualExclusion'
    BY <1>1, <1>2, <1>3 DEF MutualExclusion
  <1>7. LockedIffHeld'
    <2> SUFFICES ASSUME NEW m \in Locks
                 PROVE  lock_status'[m] = "LOCKED" <=> \E q \in Proc : Live(q)' /\ Has(q, m)'
      BY DEF LockedIffHeld
    <2>1. CASE m = l
      BY <1>1, <1>2, <1>5, <2>1 DEF Has
    <2>2. CASE m # l
      <3>1. \A q \in Proc : Has(q, m)' <=> Has(q, m)
        BY <1>2, <1>4, <2>2 DEF Has
      <3> QED BY <1>1, <1>5, <2>2, <3>1 DEF LockedIffHeld
    <2> QED BY <2>1, <2>2
  <1>8. NoLostWakeup'
    BY <1>1, <1>5 DEF NoLostWakeup, Awaits, Live
  <1> QED BY <1>5, <1>6, <1>7, <1>8 DEF RunningReady, Unused

\* A lock is given up and everyone in its queue is woken; the caller may go on
\* to block on a condition variable in the same step.
LEMMA UnlockStep ==
    ASSUME LockInv, TypeOK', NEW p \in Proc, running = p,
           NEW l \in Locks, Unlock(p, l),
           at'[running'] = Ready,
           \A q \in Proc :
              \/ at'[q] = at[q] /\ at[q] # On(l)
              \/ at'[q] = Ready /\ at[q] # Nowhere
              \/ q = p /\ \E c \in Conds : at'[q] = On(c),
           UNCHANGED <<inited, limit>>
    PROVE  LockInv'
  <1> USE DEF LockInv
  <1>1. PICK i \in Slots : /\ locks[p][i] = l
                           /\ locks' = [locks EXCEPT ![p][i] = NULL]
    BY DEF Unlock
  <1>2. \A m \in Locks : lock_status'[m] = IF m = l THEN "UNLOCKED" ELSE lock_status[m]
    BY DEF Unlock, TypeOK
  <1>3. \A q \in Proc : \A j \in Slots :
           locks'[q][j] = IF q = p /\ j = i THEN NULL ELSE locks[q][j]
    BY <1>1 DEF TypeOK
  <1>4. Live(p) /\ \A q \in Proc : Live(q)' <=> Live(q)
    BY PlacesDiffer DEF RunningReady, Live
  <1>5. NULL \notin Locks
    BY SyncAssumption
  <1>6. MutualExclusion'
    BY <1>3, <1>4, <1>5 DEF MutualExclusion
  <1>7. LockedIffHeld'
    <2> SUFFICES ASSUME NEW m \in Locks
                 PROVE  lock_status'[m] = "LOCKED" <=> \E q \in Proc : Live(q)' /\ Has(q, m)'
      BY DEF LockedIffHeld
    <2>1. CASE m = l
      <3>1. \A q \in Proc : \A j \in Slots : Live(q) /\ locks[q][j] = l => q = p /\ j = i
        BY <1>1, <1>4 DEF MutualExclusion
      <3>2. \A q \in Proc : Live(q)' => ~Has(q, m)'
        BY <1>3, <1>4, <1>5, <2>1, <3>1 DEF Has
      <3> QED BY <1>2, <2>1, <3>2
    <2>2. CASE m # l
      <3>1. \A q \in Proc : Has(q, m)' <=> Has(q, m)
        BY <1>1, <1>3, <1>5, <2>2 DEF Has
      <3> QED BY <1>2, <1>4, <2>2, <3>1 DEF LockedIffHeld
    <2> QED BY <2>1, <2>2
  <1>8. NoLostWakeup'
    <2> SUFFICES ASSUME NEW q \in Proc PROVE Awaits(q)'
      BY DEF NoLostWakeup
    <2>1. CASE at'[q] = Ready
      BY <2>1, StillAwaits
    <2>2. CASE at'[q] = at[q] /\ at[q] # On(l)
      <3>1. ASSUME NEW m \in Locks, at[q] = On(m) PROVE lock_status'[m] = lock_status[m]
        BY <1>2, <2>2, <3>1
      <3>2. ASSUME NEW t \in Proc, at[q] = Wait(t) PROVE at'[t] # Nowhere
        BY <1>4, <3>2 DEF NoLostWakeup, Awaits, Live
      <3> QED BY <2>2, <3>1, <3>2, StillAwaits
    <2>3. ASSUME NEW c \in Conds, at'[q] = On(c) PROVE Awaits(q)'
      BY <2>3, PlacesDiffer, SyncAssumption DEF Awaits
    <2> QED BY <2>1, <2>2, <2>3
  <1>9. Unused'
    <2>1. ASSUME NEW m \in Locks \ inited' PROVE lock_status'[m] = "UNLOCKED"
      BY <1>2 DEF Unused
    <2>2. ASSUME NEW s \in Sems \ inited', NEW q \in Proc PROVE at'[q] # On(s)
      BY PlacesDiffer, SyncAssumption DEF Unused
    <2> QED BY <2>1, <2>2 DEF Unused
  <1> QED BY <1>6, <1>7, <1>8, <1>9 DEF RunningReady

\* A slot of the table comes to life without any locks.
LEMMA SpawnStep ==
    ASSUME LockInv, TypeOK', NEW p \in Proc, NEW n \in Proc, DoSpawn(p, n)
    PROVE  LockInv'
  <1> USE DEF LockInv
  <1>1. ~Live(n) /\ UNCHANGED <<running, inited, lock_status, limit>>
    BY DEF DoSpawn
  <1>2. \A q \in Proc : at'[q] = IF q = n THEN Ready ELSE at[q]
    BY DEF DoSpawn, TypeOK
  <1>3. \A q \in Proc : \A i \in Slots : locks'[q][i] = IF q = n THEN NULL ELSE locks[q][i]
    BY DEF DoSpawn, TypeOK, NoSlots
  <1>4. Live(n)' /\ \A q \in Proc \ {n} : Live(q)' <=> Live(q)
    BY <1>2, PlacesDiffer DEF Live
  <1>5. NULL \notin Locks
    BY SyncAssumption
  <1>6. MutualExclusion'
    BY <1>3, <1>4, <1>5 DEF MutualExclusion
  <1>7. LockedIffHeld'
    <2> SUFFICES ASSUME NEW m \in Locks
                 PROVE  lock_status'[m] = "LOCKED" <=> \E q \in Proc : Live(q)' /\ Has(q, m)'
      BY DEF LockedIffHeld
    <2>1. ~Has(n, m)' /\ \A q \in Proc \ {n} : Has(q, m)' <=> Has(q, m)
      BY <1>3, <1>5 DEF Has
    <2> QED BY <1>1, <1>4, <2>1 DEF LockedIffHeld
  <1>8. ASSUME NEW q \in Proc PROVE Awaits(q)'
    <2>1. ASSUME NEW t \in Proc, at[q] = Wait(t) PROVE at'[t] # Nowhere
      BY <1>2, <2>1, PlacesDiffer DEF NoLostWakeup, Awaits, Live
    <2> QED BY <1>1, <1>2, <2>1, StillAwaits
  <1>9. Unused'
    BY <1>1, <1>2, PlacesDiffer DEF Unused
  <1>10. RunningReady'
    BY <1>1, <1>2 DEF RunningReady, TypeOK
  <1> QED BY <1>6, <1>7, <1>8, <1>9, <1>10 DEF NoLostWakeup
\* Steps of the scheduler and the process table keep LockInv.
LEMMA ProcStepLocks ==
    ASSUME LockInv, TypeOK', NEW p \in Proc, ProcStep(p)
    PROVE  LockInv'
  <1> USE DEF LockInv
  <1>1. CASE Preempt(p)
    <2>1. [at EXCEPT ![p] = Ready] = at
      BY <1>1 DEF Preempt, Running, RunningReady, TypeOK
    <2>2. Ready \in Places \ {Nowhere}
      BY WaitOnPlaces, PlacesDiffer
    <2> QED BY <1>1, <2>1, <2>2, PlacesDiffer, BlockStep DEF Preempt, Running
  <1>2. CASE DoSleep(p)
    <2>1. Sleep \in Places \ {Nowhere}
      BY WaitOnPlaces, PlacesDiffer
    <2> QED BY <1>2, <2>1, PlacesDiffer, BlockStep DEF DoSleep, Running
  <1>3. CASE DoExit(p)
    BY <1>3, ExitStep DEF DoExit, Running
  <1>4. ASSUME NEW t \in Proc, DoWait(p, t) PROVE LockInv'
    <2>1. Wait(t) \in Places \ {Nowhere}
      BY WaitOnPlaces, PlacesDiffer
    <2>2. \A u \in Proc : Wait(t) = Wait(u) => Live(u)
      BY <1>4, PlacesDiffer DEF DoWait
    <2>3. \A o : Wait(t) # On(o)
      BY PlacesDiffer
    <2> QED BY <1>4, <2>1, <2>2, <2>3, BlockStep DEF DoWait, Running
  <1>5. ASSUME NEW t \in Proc, DoSpawn(p, t) PROVE LockInv'
    BY <1>5, SpawnStep
  <1> QED BY <1>1, <1>2, <1>3, <1>4, <1>5 DEF ProcStep

\* So does an acquisition, whether it waits or not.
LEMMA AcquireLocks ==
    ASSUME LockInv, TypeOK', NEW p \in Proc, NEW l \in Locks, Acquire(p, l)
    PROVE  LockInv'
  <1> USE DEF LockInv
  <1>1. CASE Exit(p)
    BY <1>1, ExitStep DEF Acquire
  <1>2. CASE lock_status[l] = "LOCKED" /\ ~Exit(p)
    <2>1. /\ Switch([at EXCEPT ![p] = On(l)])
          /\ UNCHANGED <<lock_status, locks, inited, limit>>
          /\ running = p
      BY <1>2 DEF Acquire
    <2>2. On(l) \in Places \ {Nowhere}
      BY WaitOnPlaces, ObjectKinds, PlacesDiffer
    <2>3. \A m \in Locks : On(l) = On(m) => lock_status[m] = "LOCKED"
      BY <1>2, PlacesDiffer
    <2>4. (\A s \in Sems : On(l) # On(s)) /\ (\A t \in Proc : On(l) # Wait(t))
      BY PlacesDiffer, SyncAssumption
    <2> QED BY <2>1, <2>2, <2>3, <2>4, BlockStep
  <1>3. CASE lock_status[l] # "LOCKED" /\ ~Exit(p)
    <2>1. /\ lock_status[l] = "UNLOCKED" /\ running = p /\ l \in inited
          /\ \E i \in Slots : locks[p][i] = NULL /\ locks' = [locks EXCEPT ![p][i] = l]
          /\ lock_status' = [lock_status EXCEPT ![l] = "LOCKED"]
          /\ UNCHANGED <<at, running, inited, limit>>
      BY <1>3 DEF Acquire
    <2> QED BY <2>1, GrantStep
  <1> QED BY <1>1, <1>2, <1>3

\* So do the steps of lock.c.
LEMMA LockStepLocks ==
    ASSUME LockInv, TypeOK', NEW p \in Proc, LockStep(p)
    PROVE  LockInv'
  <1> USE DEF LockInv
  <1> PICK l \in Locks : \/ DoMutexLockInit(p, l) \/ Acquire(p, l) \/ DoMutexLockRelease(p, l)
                         \/ \E c \in Conds : DoConditionWait(p, l, c)
    BY DEF LockStep
  <1>1. CASE DoMutexLockInit(p, l)
    <2>1. lock_status[l] = "UNLOCKED"
      BY <1>1 DEF DoMutexLockInit, ObjectInit, Unused
    <2>2. lock_status' = lock_status
      BY <1>1, <2>1 DEF DoMutexLockInit, TypeOK
    <2>3. inited \subseteq inited'
      BY <1>1 DEF DoMutexLockInit, ObjectInit
    <2> QED BY <1>1, <2>2, <2>3, WakeStep DEF DoMutexLockInit
  <1>2. CASE Acquire(p, l)
    BY <1>2, AcquireLocks
  <1>3. CASE DoMutexLockRelease(p, l)
    <2>1. Nowhere \notin {On(l)}
      BY PlacesDiffer
    <2>2. \A q \in Proc : \/ at'[q] = at[q] /\ at[q] # On(l)
                          \/ at'[q] = Ready /\ at[q] # Nowhere
      BY <1>3, <2>1, PlacesDiffer, WokenFacts DEF DoMutexLockRelease
    <2>3. at'[running'] = Ready
      BY <1>3, <2>2 DEF DoMutexLockRelease, RunningReady, TypeOK
    <2> QED BY <1>3, <2>2, <2>3, UnlockStep DEF DoMutexLockRelease, Running
  <1>4. ASSUME NEW c \in Conds, DoConditionWait(p, l, c) PROVE LockInv'
    <2> DEFINE place == [Woken({On(l)}) EXCEPT ![p] = On(c)]
    <2>1. place \in [Proc -> Places]
      BY WokenType, WaitOnPlaces, ObjectKinds
    <2>2. Switch(place)
      BY <1>4 DEF DoConditionWait
    <2>3. place[p] = On(c) /\ \A q \in Proc \ {p} :
             place[q] = IF at[q] = On(l) THEN Ready ELSE at[q]
      BY DEF Woken, TypeOK
    <2> HIDE DEF place
    <2>4. at'[running'] = Ready
      BY <2>1, <2>2, SwitchFacts
    <2>5. \A q \in Proc : at'[q] = place[q] \/ (place[q] = Sleep /\ at'[q] = Ready)
      BY <2>1, <2>2, SwitchFacts
    <2>6. \A q \in Proc : \/ at'[q] = at[q] /\ at[q] # On(l)
                          \/ at'[q] = Ready /\ at[q] # Nowhere
                          \/ q = p /\ \E d \in Conds : at'[q] = On(d)
      BY <2>3, <2>5, PlacesDiffer
    <2> QED BY <1>4, <2>4, <2>6, UnlockStep DEF DoConditionWait, Running
  <1> QED BY <1>1, <1>2, <1>3, <1>4

\* So do the steps of cond.c.
LEMMA CondStepLocks ==
    ASSUME LockInv, TypeOK', NEW p \in Proc, CondStep(p)
    PROVE  LockInv'
  <1> USE DEF LockInv
  <1> PICK c \in Conds : DoConditionInit(p, c) \/ DoConditionSignal(p, c) \/ DoConditionBroadcast(p, c)
    BY DEF CondStep
  <1>1. CASE DoConditionInit(p, c)
    BY <1>1, WakeStep DEF DoConditionInit, ObjectInit
  <1>2. CASE DoConditionSignal(p, c)
    <2>1. \A q \in Proc : at'[q] = at[q] \/ (at'[q] = Ready /\ at[q] # Nowhere)
      BY <1>2, PlacesDiffer DEF DoConditionSignal, TypeOK
    <2> QED BY <1>2, <2>1, WakeStep DEF DoConditionSignal
  <1>3. CASE DoConditionBroadcast(p, c)
    <2>1. Nowhere \notin {On(c)}
      BY PlacesDiffer
    <2> QED BY <1>3, <2>1, WokenFacts, WakeStep DEF DoConditionBroadcast
  <1> QED BY <1>1, <1>2, <1>3

\* So do the steps of sem.c.
LEMMA SemStepLocks ==
    ASSUME LockInv, TypeOK', NEW p \in Proc, SemStep(p)
    PROVE  LockInv'
  <1> USE DEF LockInv
  <1> PICK s \in Sems : \/ \E v \in SemVals : DoSemaphoreInit(p, s, v)
                        \/ Down(p, s) \/ DoSemaphoreUp(p, s)
    BY DEF SemStep
  <1>1. ASSUME NEW v \in SemVals, DoSemaphoreInit(p, s, v) PROVE LockInv'
    <2>1. \A q \in Proc : at[q] # On(s)
      BY <1>1 DEF DoSemaphoreInit, ObjectInit, Unused
    <2>2. /\ UNCHANGED <<at, running, lock_status, locks>>
          /\ inited \subseteq inited'
          /\ \A o \in Sems \ {s} : limit'[o] = limit[o]
      BY <1>1 DEF DoSemaphoreInit, ObjectInit, TypeOK
    <2> QED BY <2>1, <2>2, WakeStep
  <1>2. CASE Down(p, s)
    <2>1. CASE Exit(p)
      BY <1>2, <2>1, ExitStep DEF Down
    <2>2. CASE limit[s] <= 0 /\ ~Exit(p)
      <3>1. /\ Switch([at EXCEPT ![p] = On(s)])
            /\ UNCHANGED <<lock_status, locks, inited, limit>>
            /\ running = p /\ s \in inited
        BY <1>2, <2>2 DEF Down, TypeOK
      <3>2. On(s) \in Places \ {Nowhere}
        BY WaitOnPlaces, ObjectKinds, PlacesDiffer
      <3>3. \A r \in Sems : On(s) = On(r) => limit[r] <= 0 /\ r \in inited
        BY <2>2, <3>1, PlacesDiffer
      <3>4. (\A l \in Locks : On(s) # On(l)) /\ (\A t \in Proc : On(s) # Wait(t))
        BY PlacesDiffer, SyncAssumption
      <3> QED BY <3>1, <3>2, <3>3, <3>4, BlockStep
    <2>3. CASE ~(limit[s] <= 0) /\ ~Exit(p)
      <3>1. /\ limit' = [limit EXCEPT ![s] = @ - 1]
            /\ UNCHANGED <<at, running, inited, lock_status, locks>>
        BY <1>2, <2>3 DEF Down
      <3>2. \A q \in Proc : at[q] # On(s)
        BY <2>3 DEF NoLostWakeup, Awaits
      <3>3. \A r \in Sems \ {s} : limit'[r] = limit[r]
        BY <3>1 DEF TypeOK
      <3> QED BY <3>1, <3>2, <3>3, WakeStep
    <2> QED BY <2>1, <2>2, <2>3
  <1>3. CASE DoSemaphoreUp(p, s)
    <2>1. Nowhere \notin {On(s)}
      BY PlacesDiffer
    <2>2. \A q \in Proc : /\ at'[q] = at[q] \/ (at'[q] = Ready /\ at[q] # Nowhere)
                          /\ at'[q] # On(s)
      BY <1>3, <2>1, WokenFacts, PlacesDiffer DEF DoSemaphoreUp
    <2>3. \A r \in Sems \ {s} : limit'[r] = limit[r]
      BY <1>3 DEF DoSemaphoreUp, TypeOK
    <2> QED BY <1>3, <2>2, <2>3, WakeStep DEF DoSemaphoreUp
  <1> QED BY <1>1, <1>2, <1>3

\* So do the steps of barrier.c.
LEMMA BarrierStepLocks ==
    ASSUME LockInv, TypeOK', NEW p \in Proc, BarrierStep(p)
    PROVE  LockInv'
  <1> USE DEF LockInv
  <1> PICK b \in Barriers : \/ \E g \in Goals : DoBarrierInit(p, b, g)
                            \/ Arrive(p, b) \/ Leave(p, b)
    BY DEF BarrierStep
  <1>1. b \notin Sems /\ b \notin Locks
    BY SyncAssumption
  <1>2. ASSUME NEW g \in Goals, DoBarrierInit(p, b, g) PROVE LockInv'
    <2>1. /\ UNCHANGED <<at, running, lock_status, locks>>
          /\ inited \subseteq inited'
          /\ \A s \in Sems : limit'[s] = limit[s]
      BY <1>1, <1>2 DEF DoBarrierInit, ObjectInit, TypeOK
    <2> QED BY <2>1, WakeStep
  <1>3. CASE Arrive(p, b) /\ limit[b] <= 1
    <2>1. Nowhere \notin {On(b)}
      BY PlacesDiffer
    <2>2. at' = Woken({On(b)}) /\ UNCHANGED <<running, inited, lock_status, limit, locks>>
      BY <1>3 DEF Arrive, TypeOK
    <2> QED BY <2>1, <2>2, WokenFacts, WakeStep
  <1>4. CASE Arrive(p, b) /\ ~(limit[b] <= 1)
    <2>1. /\ Switch([at EXCEPT ![p] = On(b)])
          /\ limit' = [limit EXCEPT ![b] = @ - 1]
          /\ UNCHANGED <<lock_status, locks, inited>>
          /\ running = p
      BY <1>4 DEF Arrive, Running
    <2>2. On(b) \in Places \ {Nowhere}
      BY WaitOnPlaces, ObjectKinds, PlacesDiffer
    <2>3. \A s \in Sems : limit'[s] = limit[s]
      BY <1>1, <2>1 DEF TypeOK
    <2>4. /\ \A s \in Sems : On(b) # On(s)
          /\ \A l \in Locks : On(b) # On(l)
          /\ \A t \in Proc : On(b) # Wait(t)
      BY <1>1, PlacesDiffer
    <2> QED BY <2>1, <2>2, <2>3, <2>4, BlockStep
  <1>5. CASE Leave(p, b)
    <2>1. /\ UNCHANGED <<at, running, lock_status, locks, inited>>
          /\ \A s \in Sems : limit'[s] = limit[s]
      BY <1>1, <1>5 DEF Leave, TypeOK
    <2> QED BY <2>1, WakeStep
  <1> QED BY <1>2, <1>3, <1>4, <1>5

\* Every step of the kernel preserves LockInv.
LEMMA LocksKept == LockInv /\ [Next]_vars => LockInv'
  <1> SUFFICES ASSUME LockInv, [Next]_vars PROVE LockInv'
    OBVIOUS
  <1>1. TypeOK'
    BY TypeStep DEF LockInv
  <1>2. CASE UNCHANGED vars
    BY <1>2, WakeStep, <1>1 DEF vars
  <1>3. CASE Next
    BY <1>1, <1>3, ProcStepLocks, LockStepLocks, CondStepLocks, SemStepLocks,
       BarrierStepLocks DEF Next
  <1> QED BY <1>2, <1>3

\* Nobody holds or waits for anything at first.
LEMMA InitLocks == Init => LockInv
  <1> SUFFICES ASSUME Init PROVE LockInv
    OBVIOUS
  <1>1. TypeOK
    BY InitType
  <1>2. NULL \notin Locks
    BY SyncAssumption
  <1>3. RunningReady
    BY SyncAssumption DEF Init, RunningReady
  <1>4. \A p \in Proc : \A i \in Slots : locks[p][i] = NULL
    BY DEF Init, NoSlots
  <1>5. MutualExclusion /\ LockedIffHeld
    BY <1>2, <1>4 DEF Init, MutualExclusion, LockedIffHeld, Has
  <1>6. \A p \in Proc : at[p] \in {Ready, Nowhere}
    BY DEF Init
  <1>7. NoLostWakeup /\ Unused
    BY <1>6, PlacesDiffer DEF Init, NoLostWakeup, Awaits, Unused
  <1> QED BY <1>1, <1>3, <1>5, <1>7 DEF LockInv

\* LockInv holds in every reachable state.
THEOREM LockInvariant == Spec => []LockInv
  <1>1. Init => LockInv
    BY InitLocks
  <1>2. LockInv /\ [Next]_vars => LockInv'
    BY LocksKept
  <1> QED BY <1>1, <1>2, PTL DEF Spec

\* No two processes ever hold the same mutex (lock.c), however they acquire,
\* wait on conditions, exit and are woken.
THEOREM MutualExclusionHolds == Spec => []MutualExclusion
  <1>1. LockInv => MutualExclusion
    BY DEF LockInv
  <1> QED BY <1>1, LockInvariant, PTL

\* A mutex is LOCKED exactly while a live process holds it: no exit leaves it
\* locked behind (do_exit's loop over locks[]).
THEOREM LockedIffHeldHolds == Spec => []LockedIffHeld
  <1>1. LockInv => LockedIffHeld
    BY DEF LockInv
  <1> QED BY <1>1, LockInvariant, PTL

\* Nobody stays blocked on a mutex that is free, a semaphore that is up, or a
\* process that has exited (do_unblock_all at unlock, up and exit).
THEOREM NoLostWakeupHolds == Spec => []NoLostWakeup
  <1>1. LockInv => NoLostWakeup
    BY DEF LockInv
  <1> QED BY <1>1, LockInvariant, PTL

---------------------------------------------------------------------------
(* Semaphores and barriers.                                                *)

\* Blocking, sleeping and being preempted neither start nor end a process.
LEMMA BlockLive ==
    ASSUME LockInv, NEW p \in Proc, running = p,
           NEW pl \in Places \ {Nowhere}, Switch([at EXCEPT ![p] = pl])
    PROVE  /\ \A q \in Proc : Live(q)' <=> Live(q)
           /\ \A q \in Proc : at'[q] = at[q] \/ at'[q] = Ready \/ (q = p /\ at'[q] = pl)
  <1> USE DEF LockInv
  <1> DEFINE place == [at EXCEPT ![p] = pl]
  <1>1. /\ place \in [Proc -> Places]
        /\ place[p] = pl
        /\ \A q \in Proc \ {p} : place[q] = at[q]
    BY DEF TypeOK
  <1>2. Switch(place)
    OBVIOUS
  <1>3. at[p] = Ready
    BY DEF RunningReady
  <1> HIDE DEF place
  <1>4. \A q \in Proc : at'[q] = place[q] \/ (place[q] = Sleep /\ at'[q] = Ready)
    BY <1>1, <1>2, SwitchFacts
  <1> QED BY <1>1, <1>3, <1>4, PlacesDiffer DEF Live

LEMMA WokenLive ==
    ASSUME LockInv, NEW S, Nowhere \notin S, at' = Woken(S)
    PROVE  \A q \in Proc : Live(q)' <=> Live(q)
  BY WokenFacts, PlacesDiffer DEF Live, LockInv

LEMMA CondWaitLive ==
    ASSUME LockInv, NEW p \in Proc, running = p, NEW l \in Locks, NEW c \in Conds,
           Switch([Woken({On(l)}) EXCEPT ![p] = On(c)])
    PROVE  /\ \A q \in Proc : Live(q)' <=> Live(q)
           /\ \A q \in Proc : at'[q] = at[q] \/ at'[q] = Ready \/ (q = p /\ at'[q] = On(c))
  <1> USE DEF LockInv
  <1> DEFINE place == [Woken({On(l)}) EXCEPT ![p] = On(c)]
  <1>1. place \in [Proc -> Places] /\ Switch(place)
    BY WokenType, WaitOnPlaces, ObjectKinds
  <1>2. place[p] = On(c) /\ \A q \in Proc \ {p} :
           place[q] = IF at[q] = On(l) THEN Ready ELSE at[q]
    BY DEF Woken, TypeOK
  <1>3. at[p] = Ready
    BY DEF RunningReady
  <1> HIDE DEF place
  <1>4. \A q \in Proc : at'[q] = place[q] \/ (place[q] = Sleep /\ at'[q] = Ready)
    BY <1>1, SwitchFacts
  <1> QED BY <1>2, <1>3, <1>4, PlacesDiffer DEF Live

LEMMA ExitLive ==
    ASSUME LockInv, NEW p \in Proc, running = p, Exit(p)
    PROVE  /\ Live(p) /\ ~Live(p)'
           /\ \A q \in Proc \ {p} : Live(q)' <=> Live(q)
           /\ \A q \in Proc : at'[q] = at[q] \/ at'[q] = Ready \/ at'[q] = Nowhere
  <1>1. Nowhere \notin Given(p)
    BY PlacesDiffer DEF Given
  <1>2. /\ at'[p] = Nowhere
        /\ \A q \in Proc \ {p} :
              \/ at'[q] = at[q] /\ at[q] \notin Given(p)
              \/ at[q] \in Given(p) \cup {Sleep} /\ at'[q] = Ready
    BY ExitFacts DEF LockInv
  <1> QED BY <1>1, <1>2, PlacesDiffer DEF Live, LockInv, RunningReady

---------------------------------------------------------------------------
(* Semaphores                                                               *)

SemOK(s) == IF s \in inited THEN Balanced(s) ELSE Owed(s) = {}

LEMMA OwedFinite == \A s : IsFiniteSet(Owed(s)) /\ Cardinality(Owed(s)) \in Nat
  <1> SUFFICES ASSUME NEW s PROVE IsFiniteSet(Owed(s)) /\ Cardinality(Owed(s)) \in Nat
    OBVIOUS
  <1>1. IsFiniteSet(Slots)
    BY SyncAssumption, FS_Interval DEF Slots
  <1>2. IsFiniteSet(Proc \X Slots)
    BY <1>1, SyncAssumption, FS_Product
  <1>3. Owed(s) \in SUBSET (Proc \X Slots)
    BY DEF Owed
  <1> QED BY <1>2, <1>3, FS_Subset, FS_CardinalityType

\* A step that changes neither the value of s nor what is owed to it.
LEMMA SemUntouched ==
    ASSUME NEW s \in Sems, SemOK(s),
           s \in inited' <=> s \in inited, limit'[s] = limit[s],
           \A q \in Proc : \A i \in Slots :
              (Live(q)' /\ sems'[q][i] = s) <=> (Live(q) /\ sems[q][i] = s)
    PROVE  SemOK(s)'
  <1>1. Owed(s)' = Owed(s)
    BY DEF Owed
  <1> QED BY <1>1 DEF SemOK, Balanced

\* One more is owed and the value is one less, or the other way round.
LEMMA SemMoved ==
    ASSUME LockInv, NEW s \in Sems, s \in inited, SemOK(s), inited' = inited,
           NEW x \in Proc \X Slots,
           \/ /\ x \notin Owed(s) /\ Owed(s)' = Owed(s) \cup {x}
              /\ limit'[s] = limit[s] - 1 /\ limit[s] > 0
           \/ /\ x \in Owed(s) /\ Owed(s)' = Owed(s) \ {x}
              /\ limit'[s] = limit[s] + 1
    PROVE  SemOK(s)'
  <1>1. limit[s] \in Int /\ limit[s] >= 0
    BY DEF LockInv, TypeOK, SemOK, Balanced
  <1>2. PICK v \in SemVals : limit[s] + Cardinality(Owed(s)) = v
    BY DEF SemOK, Balanced
  <1>3. limit'[s] >= 0
    BY <1>1
  <1>4. limit'[s] + Cardinality(Owed(s)') = v
    <2>1. CASE x \notin Owed(s) /\ Owed(s)' = Owed(s) \cup {x} /\ limit'[s] = limit[s] - 1
      <3>1. Cardinality(Owed(s)') = Cardinality(Owed(s)) + 1
        BY <2>1, OwedFinite, FS_AddElement
      <3> QED BY <1>1, <1>2, <2>1, <3>1, OwedFinite
    <2>2. CASE x \in Owed(s) /\ Owed(s)' = Owed(s) \ {x} /\ limit'[s] = limit[s] + 1
      <3>1. Cardinality(Owed(s)') = Cardinality(Owed(s)) - 1
        BY <2>2, OwedFinite, FS_RemoveElement
      <3> QED BY <1>1, <1>2, <2>2, <3>1, OwedFinite
    <2> QED BY <2>1, <2>2
  <1> QED BY <1>3, <1>4 DEF SemOK, Balanced

\* As many downs are owed by p as slots of p hold s.
LEMMA OwedByOne ==
    ASSUME NEW p \in Proc, NEW s
    PROVE  Cardinality({p} \X Downed(p, s)) = Cardinality(Downed(p, s))
  <1>1. IsFiniteSet({p}) /\ Cardinality({p}) = 1
    BY FS_Singleton
  <1>2. IsFiniteSet(Downed(p, s)) /\ Cardinality(Downed(p, s)) \in Nat
    BY DownedFinite
  <1> QED BY <1>1, <1>2, FS_Product
LEMMA SemQuiet ==
    ASSUME SemInv, \A q \in Proc : Live(q)' <=> Live(q), sems' = sems,
           \A s \in Sems : limit'[s] = limit[s] /\ (s \in inited' <=> s \in inited)
    PROVE  SemInv'
  <1> SUFFICES ASSUME NEW s \in Sems PROVE SemOK(s)'
    BY DEF SemInv, SemOK
  <1> QED BY SemUntouched DEF SemInv, SemOK

LEMMA SemExit ==
    ASSUME LockInv, SemInv, NEW p \in Proc, running = p, Exit(p)
    PROVE  SemInv'
  <1> SUFFICES ASSUME NEW s \in Sems PROVE SemOK(s)'
    BY DEF SemInv, SemOK
  <1> DEFINE D == Downed(p, s)
  <1>1. /\ limit'[s] = limit[s] + Cardinality(D)
        /\ UNCHANGED <<inited, sems>>
    BY DEF Exit
  <1>2. /\ Live(p) /\ ~Live(p)'
        /\ \A q \in Proc \ {p} : Live(q)' <=> Live(q)
    BY ExitLive
  <1>3. {p} \X D \subseteq Owed(s)
    BY <1>2 DEF Downed, Owed
  <1>4. Owed(s)' = Owed(s) \ ({p} \X D)
    BY <1>1, <1>2 DEF Owed, Downed
  <1>5. CASE s \notin inited
    BY <1>1, <1>4, <1>5 DEF SemInv, SemOK
  <1>6. CASE s \in inited
    <2>1. Cardinality(D) \in Nat /\ limit[s] \in Int /\ limit[s] >= 0
      BY <1>6, DownedFinite DEF LockInv, TypeOK, SemInv, Balanced
    <2>2. PICK v \in SemVals : limit[s] + Cardinality(Owed(s)) = v
      BY <1>6 DEF SemInv, Balanced
    <2>3. Owed(s) \cap ({p} \X D) = {p} \X D
      BY <1>3
    <2>4. Cardinality(Owed(s)') = Cardinality(Owed(s)) - Cardinality(D)
      <3>1. Cardinality(Owed(s) \ ({p} \X D))
              = Cardinality(Owed(s)) - Cardinality(Owed(s) \cap ({p} \X D))
        BY OwedFinite, FS_Difference
      <3>2. Cardinality({p} \X D) = Cardinality(D)
        BY OwedByOne
      <3> QED BY <1>4, <2>3, <3>1, <3>2
    <2>5. limit'[s] + Cardinality(Owed(s)') = v /\ limit'[s] >= 0
      <3> HIDE DEF D
      <3> QED BY <1>1, <2>1, <2>2, <2>4, OwedFinite
    <2> QED BY <1>1, <1>6, <2>5 DEF SemOK, Balanced
  <1> QED BY <1>5, <1>6

LEMMA SemDown ==
    ASSUME LockInv, SemInv, NEW p \in Proc, running = p,
           NEW r \in Sems, r \in inited, limit[r] > 0,
           NEW i \in Slots, sems[p][i] = NULL, sems' = [sems EXCEPT ![p][i] = r],
           limit' = [limit EXCEPT ![r] = @ - 1],
           UNCHANGED <<at, inited>>
    PROVE  SemInv'
  <1> USE DEF LockInv
  <1>1. \A q \in Proc : Live(q)' <=> Live(q)
    BY DEF Live
  <1>2. Live(p) /\ r # NULL
    BY PlacesDiffer, SyncAssumption DEF RunningReady, Live
  <1>3. \A q \in Proc : \A j \in Slots :
           sems'[q][j] = IF q = p /\ j = i THEN r ELSE sems[q][j]
    BY DEF TypeOK
  <1> SUFFICES ASSUME NEW s \in Sems PROVE SemOK(s)'
    BY DEF SemInv, SemOK
  <1>4. CASE s = r
    <2>1. <<p, i>> \notin Owed(r) /\ Owed(r)' = Owed(r) \cup {<<p, i>>}
      BY <1>1, <1>2, <1>3 DEF Owed
    <2>2. limit'[r] = limit[r] - 1
      BY DEF TypeOK
    <2> QED BY <1>4, <2>1, <2>2, SemMoved DEF SemInv, SemOK
  <1>5. CASE s # r
    <2>1. s # NULL /\ limit'[s] = limit[s]
      BY <1>5, SyncAssumption DEF TypeOK
    <2> QED BY <1>1, <1>3, <1>5, <2>1, SemUntouched DEF SemInv, SemOK
  <1> QED BY <1>4, <1>5

LEMMA SemUp ==
    ASSUME LockInv, SemInv, NEW p \in Proc, NEW r \in Sems, DoSemaphoreUp(p, r)
    PROVE  SemInv'
  <1> USE DEF LockInv
  <1>1. PICK i \in Slots : sems[p][i] = r /\ sems' = [sems EXCEPT ![p][i] = NULL]
    BY DEF DoSemaphoreUp
  <1>2. /\ limit' = [limit EXCEPT ![r] = @ + 1]
        /\ at' = Woken({On(r)}) /\ inited' = inited /\ running = p
    BY DEF DoSemaphoreUp, Running
  <1>3. \A q \in Proc : Live(q)' <=> Live(q)
    BY <1>2, WokenLive, PlacesDiffer
  <1>4. Live(p) /\ r # NULL
    BY <1>2, PlacesDiffer, SyncAssumption DEF RunningReady, Live
  <1>5. \A q \in Proc : \A j \in Slots :
           sems'[q][j] = IF q = p /\ j = i THEN NULL ELSE sems[q][j]
    BY <1>1 DEF TypeOK
  <1>6. <<p, i>> \in Owed(r) /\ Owed(r)' = Owed(r) \ {<<p, i>>}
    BY <1>1, <1>3, <1>4, <1>5 DEF Owed
  <1>7. r \in inited
    BY <1>6 DEF SemInv
  <1> SUFFICES ASSUME NEW s \in Sems PROVE SemOK(s)'
    BY DEF SemInv, SemOK
  <1>8. CASE s = r
    <2>1. limit'[r] = limit[r] + 1
      BY <1>2 DEF TypeOK
    <2> QED BY <1>2, <1>6, <1>7, <1>8, <2>1, SemMoved DEF SemInv, SemOK
  <1>9. CASE s # r
    <2>1. s # NULL /\ limit'[s] = limit[s]
      BY <1>2, <1>9, SyncAssumption DEF TypeOK
    <2> QED BY <1>1, <1>2, <1>3, <1>5, <1>9, <2>1, SemUntouched DEF SemInv, SemOK
  <1> QED BY <1>8, <1>9

LEMMA SemInit ==
    ASSUME LockInv, SemInv, NEW p \in Proc, NEW r \in Sems, NEW v \in SemVals,
           DoSemaphoreInit(p, r, v)
    PROVE  SemInv'
  <1> USE DEF LockInv
  <1>1. /\ r \notin inited /\ inited' = inited \cup {r}
        /\ \A s \in Sems : limit'[s] = IF s = r THEN v ELSE limit[s]
        /\ UNCHANGED <<at, sems>>
    BY DEF DoSemaphoreInit, ObjectInit, TypeOK
  <1> SUFFICES ASSUME NEW s \in Sems PROVE SemOK(s)'
    BY DEF SemInv, SemOK
  <1>2. CASE s = r
    <2>1. Owed(r) = {} /\ Owed(r)' = Owed(r)
      BY <1>1 DEF SemInv, Owed, Live
    <2>2. Cardinality(Owed(r)') = 0 /\ v \in Nat
      BY <2>1, FS_EmptySet, SyncAssumption
    <2> QED BY <1>1, <1>2, <2>2 DEF SemOK, Balanced
  <1>3. CASE s # r
    BY <1>1, <1>3, SemUntouched DEF SemInv, SemOK, Live
  <1> QED BY <1>2, <1>3

LEMMA SemSpawn ==
    ASSUME LockInv, SemInv, NEW p \in Proc, NEW n \in Proc, DoSpawn(p, n)
    PROVE  SemInv'
  <1> USE DEF LockInv
  <1>1. ~Live(n) /\ UNCHANGED <<inited, limit>>
    BY DEF DoSpawn
  <1>2. \A q \in Proc \ {n} : Live(q)' <=> Live(q)
    BY DEF DoSpawn, TypeOK, Live
  <1>3. \A q \in Proc : \A i \in Slots : sems'[q][i] = IF q = n THEN NULL ELSE sems[q][i]
    BY DEF DoSpawn, TypeOK, NoSlots
  <1> SUFFICES ASSUME NEW s \in Sems PROVE SemOK(s)'
    BY DEF SemInv, SemOK
  <1>4. s # NULL
    BY SyncAssumption
  <1> QED BY <1>1, <1>2, <1>3, <1>4, SemUntouched DEF SemInv, SemOK
---------------------------------------------------------------------------
(* Barriers                                                                 *)

LEMMA InsideFinite == \A b : IsFiniteSet(Inside(b)) /\ Cardinality(Inside(b)) \in Nat
  <1> SUFFICES ASSUME NEW b PROVE IsFiniteSet(Inside(b)) /\ Cardinality(Inside(b)) \in Nat
    OBVIOUS
  <1>1. Inside(b) \in SUBSET Proc
    BY DEF Inside
  <1> QED BY <1>1, SyncAssumption, FS_Subset, FS_CardinalityType

\* A step in which nobody enters or leaves a barrier, or starts waiting at one.
LEMMA BarrierQuiet ==
    ASSUME BarrierInv,
           \A b \in Barriers : limit'[b] = limit[b] /\ (b \in inited' <=> b \in inited),
           \A q \in Proc : \A b \in Barriers :
              /\ kont'[q] = Leaving(b) <=> kont[q] = Leaving(b)
              /\ at'[q] = On(b) => at[q] = On(b),
           \A q \in Proc : ~Live(q)' => kont'[q] \in {User, Exited}
    PROVE  BarrierInv'
  <1>1. ASSUME NEW b \in Barriers PROVE Inside(b)' = Inside(b)
    BY DEF Inside
  <1>2. ASSUME NEW b \in Barriers PROVE (b \in inited' => Complete(b)') /\ Trapped(b)'
    BY <1>1 DEF BarrierInv, BarrierConserved, Complete, Trapped
  <1> QED BY <1>1, <1>2 DEF BarrierInv, BarrierConserved

\* Steps that change no continuation.
LEMMA KontQuiet ==
    ASSUME BarrierInv, kont' = kont,
           \A b \in Barriers : limit'[b] = limit[b] /\ (b \in inited' <=> b \in inited),
           \A q \in Proc : Live(q)' <=> Live(q),
           \A q \in Proc : \A b \in Barriers : at'[q] = On(b) => at[q] = On(b)
    PROVE  BarrierInv'
  BY BarrierQuiet DEF BarrierInv

LEMMA BarrierExit ==
    ASSUME LockInv, BarrierInv, NEW p \in Proc, running = p, Exit(p),
           \A b \in Barriers : kont[p] # Leaving(b)
    PROVE  BarrierInv'
  <1>1. /\ kont' = [kont EXCEPT ![p] = Exited]
        /\ inited' = inited
        /\ \A b \in Barriers : limit'[b] = limit[b]
    BY SyncAssumption DEF Exit
  <1>2. \A q \in Proc : kont'[q] = IF q = p THEN Exited ELSE kont[q]
    BY <1>1 DEF LockInv, TypeOK
  <1>3. \A q \in Proc \ {p} : ~Live(q)' => kont'[q] \in {User, Exited}
    BY <1>2, ExitLive DEF BarrierInv
  <1>4. \A q \in Proc : \A b \in Barriers : at'[q] = On(b) => at[q] = On(b)
    BY ExitLive, PlacesDiffer
  <1> QED BY <1>1, <1>2, <1>3, <1>4, KontsDiffer, BarrierQuiet

\* p, which is in no barrier, blocks somewhere else with a call pending.
LEMMA BlockElsewhere ==
    ASSUME LockInv, BarrierInv, NEW p \in Proc, running = p,
           NEW pl, NEW k,
           \A b \in Barriers : kont[p] # Leaving(b) /\ k # Leaving(b) /\ pl # On(b),
           kont' = [kont EXCEPT ![p] = k],
           \A q \in Proc : Live(q)' <=> Live(q),
           \A q \in Proc : at'[q] = at[q] \/ at'[q] = Ready \/ (q = p /\ at'[q] = pl),
           \A b \in Barriers : limit'[b] = limit[b] /\ (b \in inited' <=> b \in inited)
    PROVE  BarrierInv'
  <1>1. \A q \in Proc : kont'[q] = IF q = p THEN k ELSE kont[q]
    BY DEF LockInv, TypeOK
  <1>2. Live(p)
    BY PlacesDiffer DEF LockInv, RunningReady, Live
  <1>3. \A q \in Proc : ~Live(q)' => kont'[q] \in {User, Exited}
    BY <1>1, <1>2 DEF BarrierInv
  <1>4. \A q \in Proc : \A b \in Barriers : at'[q] = On(b) => at[q] = On(b)
    BY PlacesDiffer
  <1> QED BY <1>1, <1>3, <1>4, BarrierQuiet

\* p returns to user code, from a call that has nothing to do with barriers.
LEMMA CallReturns ==
    ASSUME LockInv, BarrierInv, NEW p \in Proc, running = p,
           \A b \in Barriers : kont[p] # Leaving(b),
           kont' = [kont EXCEPT ![p] = User], at' = at,
           \A b \in Barriers : limit'[b] = limit[b] /\ (b \in inited' <=> b \in inited)
    PROVE  BarrierInv'
  <1>1. \A q \in Proc : kont'[q] = IF q = p THEN User ELSE kont[q]
    BY DEF LockInv, TypeOK
  <1> QED BY <1>1, KontsDiffer, BarrierQuiet DEF BarrierInv, Live

LEMMA BarrierEnter ==
    ASSUME LockInv, BarrierInv, NEW p \in Proc, NEW r \in Barriers, Arrive(p, r)
    PROVE  BarrierInv'
  <1> USE DEF LockInv
  <1>1. running = p /\ kont[p] = User /\ r \in inited
    BY DEF Arrive, Running
  <1>2. CASE limit[r] <= 1
    <2>1. at' = Woken({On(r)}) /\ UNCHANGED <<running, kont, inited, limit>>
      BY <1>2 DEF Arrive, TypeOK
    <2>2. Nowhere \notin {On(r)}
      BY PlacesDiffer
    <2>3. \A q \in Proc : \A b \in Barriers : at'[q] = On(b) => at[q] = On(b)
      BY <2>1, <2>2, WokenFacts, PlacesDiffer
    <2> QED BY <2>1, <2>2, <2>3, WokenLive, KontQuiet
  <1>3. CASE ~(limit[r] <= 1)
    <2>1. /\ Switch([at EXCEPT ![p] = On(r)])
          /\ \A b \in Barriers : limit'[b] = IF b = r THEN limit[b] - 1 ELSE limit[b]
          /\ \A q \in Proc : kont'[q] = IF q = p THEN Leaving(r) ELSE kont[q]
          /\ inited' = inited
      BY <1>3 DEF Arrive, TypeOK
    <2>2. On(r) \in Places \ {Nowhere}
      BY WaitOnPlaces, ObjectKinds, PlacesDiffer
    <2>3. /\ \A q \in Proc : Live(q)' <=> Live(q)
          /\ \A q \in Proc : at'[q] = at[q] \/ at'[q] = Ready \/ (q = p /\ at'[q] = On(r))
      BY <1>1, <2>1, <2>2, BlockLive
    <2>4. Inside(r)' = Inside(r) \cup {p} /\ p \notin Inside(r)
      BY <1>1, <2>1, KontsDiffer DEF Inside
    <2>5. \A b \in Barriers \ {r} : Inside(b)' = Inside(b)
      BY <1>1, <2>1, KontsDiffer DEF Inside
    <2>6. limit[r] \in Int /\ limit[r] > 1
      BY <1>3 DEF TypeOK
    <2>7. Complete(r)'
      <3>1. PICK g \in Goals : limit[r] + Cardinality(Inside(r)) = g
        BY <1>1 DEF BarrierInv, BarrierConserved, Complete
      <3>2. Cardinality(Inside(r)') = Cardinality(Inside(r)) + 1
        BY <2>4, InsideFinite, FS_AddElement
      <3>3. limit'[r] + Cardinality(Inside(r)') = g
        BY <2>1, <2>6, <3>1, <3>2, InsideFinite
      <3> QED BY <3>3 DEF Complete
    <2>8. ASSUME NEW b \in Barriers PROVE (b \in inited' => Complete(b)') /\ Trapped(b)'
      <3>1. Trapped(b)'
        <4> SUFFICES ASSUME NEW q \in Proc, at'[q] = On(b)
                     PROVE  kont'[q] = Leaving(b) /\ limit'[b] > 0
          BY DEF Trapped
        <4>1. CASE q = p /\ b = r
          BY <2>1, <2>6, <4>1
        <4>2. CASE ~(q = p /\ b = r)
          <5>1. at[q] = On(b)
            BY <2>3, <4>2, PlacesDiffer
          <5>2. kont[q] = Leaving(b) /\ limit[b] > 0
            BY <5>1 DEF BarrierInv, BarrierConserved, Trapped
          <5>3. q # p
            BY <1>1, <5>2, KontsDiffer
          <5> QED BY <2>1, <2>6, <5>2, <5>3
        <4> QED BY <4>1, <4>2
      <3>2. CASE b = r
        BY <2>7, <3>1, <3>2
      <3>3. CASE b # r
        BY <2>1, <2>5, <3>1, <3>3 DEF BarrierInv, BarrierConserved, Complete
      <3> QED BY <3>2, <3>3
    <2>9. Live(p)
      BY <1>1, PlacesDiffer DEF RunningReady, Live
    <2> QED BY <1>1, <2>1, <2>3, <2>5, <2>8, <2>9 DEF BarrierInv, BarrierConserved
  <1> QED BY <1>2, <1>3

LEMMA BarrierLeave ==
    ASSUME LockInv, BarrierInv, NEW p \in Proc, NEW r \in Barriers, Leave(p, r)
    PROVE  BarrierInv'
  <1> USE DEF LockInv
  <1>1. /\ running = p /\ kont[p] = Leaving(r)
        /\ \A b \in Barriers : limit'[b] = IF b = r THEN limit[b] + 1 ELSE limit[b]
        /\ \A q \in Proc : kont'[q] = IF q = p THEN User ELSE kont[q]
        /\ UNCHANGED <<at, inited>>
    BY DEF Leave, TypeOK
  <1>2. Inside(r)' = Inside(r) \ {p} /\ p \in Inside(r)
    BY <1>1, KontsDiffer DEF Inside
  <1>3. \A b \in Barriers \ {r} : Inside(b)' = Inside(b)
    BY <1>1, KontsDiffer DEF Inside
  <1>4. limit[r] \in Int /\ at[p] = Ready /\ r \in inited
    BY <1>1, <1>2 DEF TypeOK, RunningReady, BarrierInv
  <1>5. Complete(r)'
    <2>1. PICK g \in Goals : limit[r] + Cardinality(Inside(r)) = g
      BY <1>4 DEF BarrierInv, BarrierConserved, Complete
    <2>2. Cardinality(Inside(r)') = Cardinality(Inside(r)) - 1
      BY <1>2, InsideFinite, FS_RemoveElement
    <2>3. limit'[r] + Cardinality(Inside(r)') = g
      BY <1>1, <1>4, <2>1, <2>2, InsideFinite
    <2> QED BY <2>3 DEF Complete
  <1>6. ASSUME NEW b \in Barriers PROVE (b \in inited' => Complete(b)') /\ Trapped(b)'
    <2>1. Trapped(b)'
      BY <1>1, <1>4, PlacesDiffer DEF BarrierInv, BarrierConserved, Trapped
    <2>2. CASE b = r
      BY <1>5, <2>1, <2>2
    <2>3. CASE b # r
      BY <1>1, <1>3, <2>1, <2>3 DEF BarrierInv, BarrierConserved, Complete
    <2> QED BY <2>2, <2>3
  <1> QED BY <1>1, <1>3, <1>4, <1>6 DEF BarrierInv, BarrierConserved, Live

LEMMA BarrierStart ==
    ASSUME LockInv, BarrierInv, NEW p \in Proc, NEW r \in Barriers, NEW g \in Goals,
           DoBarrierInit(p, r, g)
    PROVE  BarrierInv'
  <1>1. /\ r \notin inited /\ inited' = inited \cup {r}
        /\ \A b \in Barriers : limit'[b] = IF b = r THEN g ELSE limit[b]
        /\ UNCHANGED <<at, kont>>
    BY DEF DoBarrierInit, ObjectInit, LockInv, TypeOK
  <1>2. \A b \in Barriers : Inside(b)' = Inside(b)
    BY <1>1 DEF Inside
  <1>3. Inside(r) = {} /\ Cardinality({}) = 0 /\ g \in Nat
    BY <1>1, FS_EmptySet, SyncAssumption DEF BarrierInv
  <1>4. Complete(r)'
    <2>1. limit'[r] + Cardinality(Inside(r)') = g
      BY <1>1, <1>2, <1>3
    <2> QED BY <2>1 DEF Complete
  <1>5. ASSUME NEW b \in Barriers PROVE (b \in inited' => Complete(b)') /\ Trapped(b)'
    <2>1. CASE b = r
      <3>1. \A q \in Proc : at'[q] # On(r)
        BY <1>1, <1>3 DEF BarrierInv, BarrierConserved, Trapped, Inside
      <3> QED BY <1>4, <2>1, <3>1 DEF Trapped
    <2>2. CASE b # r
      BY <1>1, <1>2, <2>2 DEF BarrierInv, BarrierConserved, Complete, Trapped
    <2> QED BY <2>1, <2>2
  <1> QED BY <1>1, <1>2, <1>5 DEF BarrierInv, BarrierConserved, Live
---------------------------------------------------------------------------
(* Every step                                                               *)

LEMMA ProcStepCounts ==
    ASSUME LockInv, SemInv, BarrierInv, NEW p \in Proc, ProcStep(p)
    PROVE  SemInv' /\ BarrierInv'
  <1> USE DEF LockInv
  <1>1. ASSUME NEW pl \in Places \ {Nowhere}, running = p,
               \A b \in Barriers : pl # On(b),
               Switch([at EXCEPT ![p] = pl]),
               UNCHANGED <<kont, inited, limit, sems>>
        PROVE  SemInv' /\ BarrierInv'
    <2>1. /\ \A q \in Proc : Live(q)' <=> Live(q)
          /\ \A q \in Proc : at'[q] = at[q] \/ at'[q] = Ready \/ (q = p /\ at'[q] = pl)
      BY <1>1, BlockLive
    <2>2. \A q \in Proc : \A b \in Barriers : at'[q] = On(b) => at[q] = On(b)
      BY <1>1, <2>1, PlacesDiffer
    <2> QED BY <1>1, <2>1, <2>2, SemQuiet, KontQuiet
  <1>2. CASE Preempt(p)
    <2>1. [at EXCEPT ![p] = Ready] = at
      BY <1>2 DEF Preempt, Running, RunningReady, TypeOK
    <2>2. Ready \in Places \ {Nowhere} /\ \A b \in Barriers : Ready # On(b)
      BY WaitOnPlaces, PlacesDiffer
    <2> QED BY <1>1, <1>2, <2>1, <2>2 DEF Preempt, Running
  <1>3. CASE DoSleep(p)
    <2>1. Sleep \in Places \ {Nowhere} /\ \A b \in Barriers : Sleep # On(b)
      BY WaitOnPlaces, PlacesDiffer
    <2> QED BY <1>1, <1>3, <2>1 DEF DoSleep, Running
  <1>4. CASE DoExit(p)
    BY <1>4, SemExit, BarrierExit, KontsDiffer DEF DoExit, Running
  <1>5. ASSUME NEW t \in Proc, DoWait(p, t) PROVE SemInv' /\ BarrierInv'
    <2>1. Wait(t) \in Places \ {Nowhere} /\ \A b \in Barriers : Wait(t) # On(b)
      BY WaitOnPlaces, PlacesDiffer
    <2> QED BY <1>1, <1>5, <2>1 DEF DoWait, Running
  <1>6. ASSUME NEW t \in Proc, DoSpawn(p, t) PROVE SemInv' /\ BarrierInv'
    <2>1. ~Live(t) /\ UNCHANGED <<inited, limit>>
      BY <1>6 DEF DoSpawn
    <2>2. \A q \in Proc : /\ kont'[q] = IF q = t THEN User ELSE kont[q]
                          /\ at'[q] = IF q = t THEN Ready ELSE at[q]
      BY <1>6 DEF DoSpawn, TypeOK
    <2>3. kont[t] \in {User, Exited}
      BY <2>1 DEF BarrierInv
    <2>4. BarrierInv'
      <3>1. \A q \in Proc : ~Live(q)' => kont'[q] \in {User, Exited}
        BY <2>2 DEF BarrierInv, Live
      <3>2. \A q \in Proc : \A b \in Barriers :
               /\ kont'[q] = Leaving(b) <=> kont[q] = Leaving(b)
               /\ at'[q] = On(b) => at[q] = On(b)
        BY <2>2, <2>3, KontsDiffer, PlacesDiffer
      <3> QED BY <2>1, <3>1, <3>2, BarrierQuiet
    <2> QED BY <1>6, <2>4, SemSpawn
  <1> QED BY <1>2, <1>3, <1>4, <1>5, <1>6 DEF ProcStep

LEMMA LockStepCounts ==
    ASSUME LockInv, SemInv, BarrierInv, NEW p \in Proc, LockStep(p)
    PROVE  SemInv' /\ BarrierInv'
  <1> USE DEF LockInv
  <1> PICK l \in Locks : \/ DoMutexLockInit(p, l) \/ Acquire(p, l) \/ DoMutexLockRelease(p, l)
                         \/ \E c \in Conds : DoConditionWait(p, l, c)
    BY DEF LockStep
  <1>1. CASE DoMutexLockInit(p, l)
    <2>1. /\ UNCHANGED <<at, kont, limit, sems>>
          /\ \A o \in Sems \cup Barriers : o \in inited' <=> o \in inited
      BY <1>1, SyncAssumption DEF DoMutexLockInit, ObjectInit
    <2> QED BY <2>1, SemQuiet, KontQuiet DEF Live
  <1>2. CASE Acquire(p, l)
    <2>1. running = p /\ \A b \in Barriers : kont[p] # Leaving(b)
      BY <1>2, KontsDiffer DEF Acquire
    <2>2. CASE Exit(p)
      BY <2>1, <2>2, SemExit, BarrierExit
    <2>3. CASE lock_status[l] = "LOCKED" /\ ~Exit(p)
      <3>1. /\ Switch([at EXCEPT ![p] = On(l)])
            /\ kont' = [kont EXCEPT ![p] = Acquiring(l)]
            /\ UNCHANGED <<inited, limit, sems>>
        BY <1>2, <2>3 DEF Acquire
      <3>2. On(l) \in Places \ {Nowhere}
        BY WaitOnPlaces, ObjectKinds, PlacesDiffer
      <3>3. \A b \in Barriers : On(l) # On(b) /\ Acquiring(l) # Leaving(b)
        BY PlacesDiffer, KontsDiffer, SyncAssumption
      <3>4. /\ \A q \in Proc : Live(q)' <=> Live(q)
            /\ \A q \in Proc : at'[q] = at[q] \/ at'[q] = Ready \/ (q = p /\ at'[q] = On(l))
        BY <2>1, <3>1, <3>2, BlockLive
      <3> QED BY <2>1, <3>1, <3>3, <3>4, SemQuiet, BlockElsewhere
    <2>4. CASE lock_status[l] # "LOCKED" /\ ~Exit(p)
      <3>1. /\ kont' = [kont EXCEPT ![p] = User]
            /\ UNCHANGED <<at, inited, limit, sems>>
        BY <1>2, <2>4 DEF Acquire
      <3>2. BarrierInv'
        BY <2>1, <3>1, CallReturns
      <3> QED BY <3>1, <3>2, SemQuiet DEF Live
    <2> QED BY <2>2, <2>3, <2>4
  <1>3. CASE DoMutexLockRelease(p, l)
    <2>1. at' = Woken({On(l)}) /\ UNCHANGED <<kont, inited, limit, sems>>
      BY <1>3 DEF DoMutexLockRelease
    <2>2. Nowhere \notin {On(l)}
      BY PlacesDiffer
    <2>3. \A q \in Proc : \A b \in Barriers : at'[q] = On(b) => at[q] = On(b)
      BY <2>1, <2>2, WokenFacts, PlacesDiffer
    <2> QED BY <2>1, <2>2, <2>3, WokenLive, SemQuiet, KontQuiet
  <1>4. ASSUME NEW c \in Conds, DoConditionWait(p, l, c) PROVE SemInv' /\ BarrierInv'
    <2>1. /\ running = p /\ kont[p] = User
          /\ Switch([Woken({On(l)}) EXCEPT ![p] = On(c)])
          /\ kont' = [kont EXCEPT ![p] = Acquiring(l)]
          /\ UNCHANGED <<inited, limit, sems>>
      BY <1>4 DEF DoConditionWait, Running
    <2>2. /\ \A q \in Proc : Live(q)' <=> Live(q)
          /\ \A q \in Proc : at'[q] = at[q] \/ at'[q] = Ready \/ (q = p /\ at'[q] = On(c))
      BY <2>1, CondWaitLive
    <2>3. \A b \in Barriers : /\ On(c) # On(b) /\ Acquiring(l) # Leaving(b)
                              /\ kont[p] # Leaving(b)
      BY <2>1, PlacesDiffer, KontsDiffer, SyncAssumption
    <2> QED BY <2>1, <2>2, <2>3, SemQuiet, BlockElsewhere
  <1> QED BY <1>1, <1>2, <1>3, <1>4

LEMMA CondStepCounts ==
    ASSUME LockInv, SemInv, BarrierInv, NEW p \in Proc, CondStep(p)
    PROVE  SemInv' /\ BarrierInv'
  <1> USE DEF LockInv
  <1> PICK c \in Conds : DoConditionInit(p, c) \/ DoConditionSignal(p, c) \/ DoConditionBroadcast(p, c)
    BY DEF CondStep
  <1>1. UNCHANGED <<kont, limit, sems>>
    BY DEF DoConditionInit, DoConditionSignal, DoConditionBroadcast
  <1>2. \A o \in Sems \cup Barriers : o \in inited' <=> o \in inited
    BY SyncAssumption DEF DoConditionInit, ObjectInit, DoConditionSignal, DoConditionBroadcast
  <1>3. \A q \in Proc : at'[q] = at[q] \/ (at'[q] = Ready /\ at[q] # Nowhere)
    <2>1. Nowhere \notin {On(c)}
      BY PlacesDiffer
    <2>2. CASE DoConditionBroadcast(p, c)
      BY <2>1, <2>2, WokenFacts DEF DoConditionBroadcast
    <2>3. CASE ~DoConditionBroadcast(p, c)
      BY <2>3, PlacesDiffer DEF DoConditionInit, DoConditionSignal, TypeOK
    <2> QED BY <2>2, <2>3
  <1>4. /\ \A q \in Proc : Live(q)' <=> Live(q)
        /\ \A q \in Proc : \A b \in Barriers : at'[q] = On(b) => at[q] = On(b)
    BY <1>3, PlacesDiffer DEF Live
  <1> QED BY <1>1, <1>2, <1>4, SemQuiet, KontQuiet

LEMMA SemStepCounts ==
    ASSUME LockInv, SemInv, BarrierInv, NEW p \in Proc, SemStep(p)
    PROVE  SemInv' /\ BarrierInv'
  <1> USE DEF LockInv
  <1> PICK s \in Sems : \/ \E v \in SemVals : DoSemaphoreInit(p, s, v)
                        \/ Down(p, s) \/ DoSemaphoreUp(p, s)
    BY DEF SemStep
  <1>1. s \notin Barriers
    BY SyncAssumption
  <1>2. ASSUME NEW v \in SemVals, DoSemaphoreInit(p, s, v) PROVE SemInv' /\ BarrierInv'
    <2>1. /\ UNCHANGED <<at, kont>>
          /\ \A b \in Barriers : limit'[b] = limit[b] /\ (b \in inited' <=> b \in inited)
      BY <1>1, <1>2 DEF DoSemaphoreInit, ObjectInit, TypeOK
    <2> QED BY <1>2, <2>1, SemInit, KontQuiet DEF Live
  <1>3. CASE Down(p, s)
    <2>1. running = p /\ s \in inited /\ \A b \in Barriers : kont[p] # Leaving(b)
      BY <1>3, KontsDiffer DEF Down
    <2>2. CASE Exit(p)
      BY <2>1, <2>2, SemExit, BarrierExit
    <2>3. CASE limit[s] <= 0 /\ ~Exit(p)
      <3>1. /\ Switch([at EXCEPT ![p] = On(s)])
            /\ kont' = [kont EXCEPT ![p] = Downing(s)]
            /\ UNCHANGED <<inited, limit, sems>>
        BY <1>3, <2>3 DEF Down, TypeOK
      <3>2. On(s) \in Places \ {Nowhere}
        BY WaitOnPlaces, ObjectKinds, PlacesDiffer
      <3>3. \A b \in Barriers : On(s) # On(b) /\ Downing(s) # Leaving(b)
        BY <1>1, PlacesDiffer, KontsDiffer
      <3>4. /\ \A q \in Proc : Live(q)' <=> Live(q)
            /\ \A q \in Proc : at'[q] = at[q] \/ at'[q] = Ready \/ (q = p /\ at'[q] = On(s))
        BY <2>1, <3>1, <3>2, BlockLive
      <3> QED BY <2>1, <3>1, <3>3, <3>4, SemQuiet, BlockElsewhere
    <2>4. CASE ~(limit[s] <= 0) /\ ~Exit(p)
      <3>1. /\ limit[s] > 0
            /\ \E i \in Slots : sems[p][i] = NULL /\ sems' = [sems EXCEPT ![p][i] = s]
            /\ limit' = [limit EXCEPT ![s] = @ - 1]
            /\ kont' = [kont EXCEPT ![p] = User]
            /\ UNCHANGED <<at, inited>>
        BY <1>3, <2>4 DEF Down
      <3>2. \A b \in Barriers : limit'[b] = limit[b] /\ (b \in inited' <=> b \in inited)
        BY <1>1, <3>1 DEF TypeOK
      <3>3. BarrierInv'
        BY <2>1, <3>1, <3>2, CallReturns
      <3> QED BY <2>1, <3>1, <3>3, SemDown
    <2> QED BY <2>2, <2>3, <2>4
  <1>4. CASE DoSemaphoreUp(p, s)
    <2>1. /\ at' = Woken({On(s)}) /\ UNCHANGED <<kont, inited>>
          /\ \A b \in Barriers : limit'[b] = limit[b]
      BY <1>1, <1>4 DEF DoSemaphoreUp, TypeOK
    <2>2. Nowhere \notin {On(s)}
      BY PlacesDiffer
    <2>3. \A q \in Proc : \A b \in Barriers : at'[q] = On(b) => at[q] = On(b)
      BY <2>1, <2>2, WokenFacts, PlacesDiffer
    <2> QED BY <1>4, <2>1, <2>2, <2>3, WokenLive, SemUp, KontQuiet
  <1> QED BY <1>2, <1>3, <1>4

LEMMA BarrierStepCounts ==
    ASSUME LockInv, SemInv, BarrierInv, NEW p \in Proc, BarrierStep(p)
    PROVE  SemInv' /\ BarrierInv'
  <1> USE DEF LockInv
  <1> PICK b \in Barriers : \/ \E g \in Goals : DoBarrierInit(p, b, g)
                            \/ Arrive(p, b) \/ Leave(p, b)
    BY DEF BarrierStep
  <1>1. BarrierInv'
    BY BarrierStart, BarrierEnter, BarrierLeave
  <1>2. /\ sems' = sems
        /\ \A s \in Sems : limit'[s] = limit[s] /\ (s \in inited' <=> s \in inited)
    BY SyncAssumption DEF DoBarrierInit, ObjectInit, Arrive, Leave, TypeOK
  <1>3. \A q \in Proc : Live(q)' <=> Live(q)
    <2>1. CASE Arrive(p, b) /\ limit[b] > 1
      <3>1. /\ Switch([at EXCEPT ![p] = On(b)]) /\ running = p
            /\ On(b) \in Places \ {Nowhere}
        BY <2>1, WaitOnPlaces, ObjectKinds, PlacesDiffer DEF Arrive, Running, TypeOK
      <3> QED BY <3>1, BlockLive
    <2>2. CASE Arrive(p, b) /\ ~(limit[b] > 1)
      <3>1. at' = Woken({On(b)}) /\ Nowhere \notin {On(b)}
        BY <2>2, PlacesDiffer DEF Arrive
      <3> QED BY <3>1, WokenLive
    <2>3. CASE ~Arrive(p, b)
      BY <2>3 DEF DoBarrierInit, Leave, Live
    <2> QED BY <2>1, <2>2, <2>3
  <1> QED BY <1>1, <1>2, <1>3, SemQuiet

LEMMA CountStep == LockInv /\ SemInv /\ BarrierInv /\ [Next]_vars => SemInv' /\ BarrierInv'
  <1> SUFFICES ASSUME LockInv, SemInv, BarrierInv, [Next]_vars PROVE SemInv' /\ BarrierInv'
    OBVIOUS
  <1>1. CASE UNCHANGED vars
    BY <1>1, SemQuiet, KontQuiet DEF vars, Live
  <1>2. CASE Next
    BY <1>2, ProcStepCounts, LockStepCounts, CondStepCounts, SemStepCounts,
       BarrierStepCounts DEF Next
  <1> QED BY <1>1, <1>2

LEMMA CountInit == Init => SemInv /\ BarrierInv
  <1> SUFFICES ASSUME Init PROVE SemInv /\ BarrierInv
    OBVIOUS
  <1>1. \A p \in Proc : /\ at[p] \in {Ready, Nowhere} /\ kont[p] = User
                        /\ \A i \in Slots : sems[p][i] = NULL
    BY DEF Init, NoSlots
  <1>2. \A s \in Sems : Owed(s) = {}
    BY <1>1, SyncAssumption DEF Owed
  <1>3. \A b \in Barriers : Inside(b) = {} /\ Trapped(b)
    BY <1>1, KontsDiffer, PlacesDiffer DEF Inside, Trapped
  <1> QED BY <1>1, <1>2, <1>3 DEF Init, SemInv, BarrierInv, BarrierConserved

\* Both invariants hold in every reachable state.
THEOREM CountInvariant == Spec => [](SemInv /\ BarrierInv)
  BY CountInit, CountStep, LockInvariant, PTL DEF Spec

\* What a semaphore was initialised with is never lost nor multiplied: its
\* value plus the downs of live processes is constant, through blocking,
\* waking and exits that give back every down (sem.c, do_exit).
THEOREM SemConservedHolds == Spec => []SemConserved
  <1>1. SemInv => SemConserved
    BY DEF SemInv, SemConserved
  <1> QED BY <1>1, CountInvariant, PTL

\* Whoever decrements a barrier's limit gives it back, and nobody is blocked
\* at a barrier whose goal has been met (barrier.c).
THEOREM BarrierConservedHolds == Spec => []BarrierConserved
  <1>1. BarrierInv => BarrierConserved
    BY DEF BarrierInv
  <1> QED BY <1>1, CountInvariant, PTL
=============================================================================
