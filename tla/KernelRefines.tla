---- MODULE KernelRefines ----
(***************************************************************************)
(* The kernel implements Sync, and a held mutex stays with its holder.     *)
(*                                                                         *)
(* First every action of the kernel, under KInv, is shown to be the action *)
(* of Sync under the mapping of module Programs (Promise), or a stutter.   *)
(* One step needs more than KInv: do_spawn refines only if the pcb it      *)
(* reuses has empty slots, which holds when init_one_pcb clears them       *)
(* (ClearsOwnSlots) or when every exit leaves them empty (CleanExits).     *)
(*                                                                         *)
(* Then BlockedInCall and HolderKeepsLock are proved on the side of Sync,  *)
(* whose steps have three shapes: a spawn, an exit, and a call that        *)
(* touches at most one mutex (Joins, Quits, Calls).                        *)
(***************************************************************************)
EXTENDS KernelProofs

\* How Sync names the place x.
AbsPlace(x) == IF x = NULL THEN <<"exited">> ELSE IF x \in Objects THEN <<"on", x>> ELSE x
\* The places as Sync names them.
Abs(v) == [p \in Pcb |-> AbsPlace(v[p])]

\* The operators that the instance of Sync takes over unchanged.
LEMMA PromiseNames ==
    /\ Promise!Ready = Ready /\ Promise!Sleep = Sleep /\ Promise!Nowhere = <<"exited">>
    /\ \A p : Promise!Wait(p) = Wait(p)
    /\ \A o : Promise!On(o) = <<"on", o>>
    /\ Promise!User = User /\ Promise!Exited = Exited
    /\ \A x : /\ Promise!Acquiring(x) = Acquiring(x) /\ Promise!Downing(x) = Downing(x)
              /\ Promise!Leaving(x) = Leaving(x)
    /\ Promise!Slots = Slots /\ Promise!Objects = Objects /\ Promise!NoSlots = NoSlots
  BY DEF Promise!Ready, Ready, Promise!Sleep, Sleep, Promise!Nowhere, Promise!Wait, Wait,
         Promise!On, Promise!User, User, Promise!Exited, Exited, Promise!Acquiring, Acquiring,
         Promise!Downing, Downing, Promise!Leaving, Leaving, Promise!Slots, Slots,
         Promise!Objects, Objects, Promise!NoSlots, NoSlots

\* Different places have different names in Sync.
LEMMA AbsFacts ==
    ASSUME NEW x \in Queues \cup {NULL}
    PROVE  /\ AbsPlace(x) = Ready <=> x = Ready
           /\ AbsPlace(x) = Sleep <=> x = Sleep
           /\ AbsPlace(x) = <<"exited">> <=> x = NULL
           /\ \A o \in Objects : AbsPlace(x) = <<"on", o>> <=> x = o
           /\ \A p \in Pcb : AbsPlace(x) = Wait(p) <=> x = Wait(p)
           /\ \A p \in Pcb : \A o : Wait(p) # <<"on", o>>
PROOF
  <1>1. /\ Ready \notin Objects /\ Sleep \notin Objects /\ NULL \notin Queues
        /\ \A p \in Pcb : Wait(p) \notin Objects
    BY AddressAssumption
  <1>2. x = NULL \/ x \in Objects \/ x = Ready \/ x = Sleep \/ \E p \in Pcb : x = Wait(p)
    BY DEF Queues
  <1>3. \A p : \A o : /\ Wait(p) # <<"on", o>> /\ Ready # <<"on", o>> /\ Sleep # <<"on", o>>
                      /\ Wait(p) # <<"exited">> /\ Ready # <<"exited">> /\ Sleep # <<"exited">>
                      /\ <<"on", o>> # <<"exited">> /\ Wait(p) # Ready /\ Wait(p) # Sleep /\ Sleep # Ready
                      /\ Wait(p) = Wait(o) => p = o
    BY DEF Wait, Ready, Sleep
  <1>4. \A o, q : <<"on", o>> = <<"on", q>> => o = q
    OBVIOUS
  <1>5. /\ Ready \in Queues /\ Sleep \in Queues /\ \A p \in Pcb : Wait(p) \in Queues
        /\ Objects \subseteq Queues
    BY QueueNames
  <1>6. CASE x = NULL
    BY <1>1, <1>3, <1>5, <1>6 DEF AbsPlace
  <1>7. CASE x \in Objects
    BY <1>1, <1>3, <1>4, <1>5, <1>7 DEF AbsPlace
  <1>8. CASE x \in Queues /\ x \notin Objects
    BY <1>1, <1>2, <1>3, <1>5, <1>8 DEF AbsPlace
  <1> QED
    BY <1>6, <1>7, <1>8

\* PlaceOf, for a given kernel state.
PlaceIn(k, p) ==
    IF k.status[p] = "EXITED" THEN <<"exited">>
    ELSE LET q == CHOOSE r \in Queues : Contains(k.queue[r], p)
         IN IF q \in Objects THEN <<"on", q>> ELSE q

\* In a steady kernel PlaceOf is the place function, renamed.
LEMMA PlaceInFacts ==
    ASSUME NEW k, NEW w, Steady(k, w), NEW p \in Pcb
    PROVE  PlaceIn(k, p) = AbsPlace(w[p])
PROOF
  <1>1. /\ Base(k, w, k.current_running) /\ Placed(k.queue, w)
        /\ k.status[k.current_running] = "RUNNING" /\ k.current_running \in Pcb
    BY DEF Steady, Base, KRec
  <1>2. w[p] \in Queues \cup {NULL} /\ \A r \in Queues : Contains(k.queue[r], p) <=> w[p] = r
    BY <1>1 DEF Placed
  <1>3. k.status[p] = "EXITED" <=> w[p] = NULL
    <2>1. CASE p = k.current_running
      BY <1>1, <2>1, QueueNames DEF Base
    <2>2. CASE p # k.current_running
      BY <1>1, <2>2 DEF Base, StatusAt
    <2> QED  BY <2>1, <2>2
  <1>4. CASE w[p] = NULL
    BY <1>3, <1>4 DEF PlaceIn, AbsPlace
  <1>5. CASE w[p] # NULL
    <2> DEFINE q == CHOOSE r \in Queues : Contains(k.queue[r], p)
    <2>1. w[p] \in Queues /\ q = w[p]
      BY <1>2, <1>5
    <2>2. PlaceIn(k, p) = IF q \in Objects THEN <<"on", q>> ELSE q
      BY <1>3, <1>5 DEF PlaceIn
    <2> HIDE DEF q
    <2> QED  BY <1>5, <2>1, <2>2 DEF AbsPlace
  <1> QED
    BY <1>4, <1>5

\* The same, for the present state.
LEMMA PlaceNow ==
    ASSUME NEW at, Steady(os, at)
    PROVE  /\ [p \in Pcb |-> PlaceOf(p)] = Abs(at)
           /\ \A p \in Pcb : PlaceOf(p) = AbsPlace(at[p])
PROOF
  <1>1. \A p \in Pcb : PlaceOf(p) = PlaceIn(os, p)
    BY DEF PlaceOf, PlaceIn, Live
  <1> QED
    BY <1>1, PlaceInFacts DEF Abs

\* The same, for the next state.
LEMMA PlaceNext ==
    ASSUME NEW w, Steady(os', w)
    PROVE  [p \in Pcb |-> PlaceOf(p)]' = Abs(w)
PROOF
  <1>1. \A p \in Pcb : PlaceOf(p)' = PlaceIn(os', p)
    BY DEF PlaceOf, PlaceIn, Live
  <1>2. \A p \in Pcb : PlaceOf(p)' = AbsPlace(w[p])
    BY <1>1, PlaceInFacts
  <1> QED
    BY <1>2 DEF Abs

\* Going through do_scheduler is Sync's Switch: some sleepers may wake.
LEMMA SwitchAbs ==
    ASSUME NEW v, v \in [Pcb -> Queues \cup {NULL}], Lands(os', os.all, v)
    PROVE  /\ Promise!Switch(Abs(v))
           /\ {o \in Objects : Registered(o)}' = {o \in Objects : Registered(o)}
PROOF
  <1>1. os'.all = os.all /\ \E U \in SUBSET Sleepers(v) : Steady(os', Wakes(v, U))
    BY DEF Lands
  <1>2. PICK U \in SUBSET Sleepers(v) : Steady(os', Wakes(v, U))
    BY <1>1
  <1> DEFINE w == Wakes(v, U)
             c == os'.current_running
  <1>3. [p \in Pcb |-> PlaceOf(p)]' = Abs(w)
    BY <1>2, PlaceNext
  <1>4. \A p \in Pcb : AbsPlace(v[p]) = Sleep <=> v[p] = Sleep
    BY AbsFacts
  <1>5. U \in SUBSET {p \in Pcb : Abs(v)[p] = Sleep}
    BY <1>4 DEF Sleepers, Abs
  <1>6. AbsPlace(Ready) = Ready
    BY QueueNames, AbsFacts
  <1>7. Abs(w) = [p \in Pcb |-> IF p \in U THEN Ready ELSE Abs(v)[p]]
    BY <1>6 DEF Abs, Wakes
  <1>8. c \in Pcb /\ w[c] = Ready
    BY <1>2 DEF Steady, Base, KRec
  <1>9. Abs(w)[c] = Ready
    BY <1>6, <1>8 DEF Abs
  <1> HIDE DEF w
  <1>10. Promise!Switch(Abs(v))
    <2> DEFINE a == [p \in Pcb |-> PlaceOf(p)]
    <2>1. a' = Abs(w)
      BY <1>3
    <2>2. (os.current_running)' = c
      OBVIOUS
    <2> HIDE DEF a, c
    <2>3. /\ U \in SUBSET {p \in Pcb : Abs(v)[p] = Promise!Sleep}
          /\ a' = [p \in Pcb |-> IF p \in U THEN Promise!Ready ELSE Abs(v)[p]]
          /\ c \in Pcb /\ a'[c] = Promise!Ready /\ (os.current_running)' = c
      BY <1>5, <1>7, <1>8, <1>9, <2>1, <2>2, PromiseNames
    <2> QED  BY <2>3 DEF Promise!Switch, a
  <1>11. {o \in Objects : Registered(o)}' = {o \in Objects : Registered(o)}
    BY <1>1 DEF Registered
  <1> QED
    BY <1>10, <1>11

\* Wake-ups and moves commute with the abstraction.
LEMMA AbsMove ==
    ASSUME NEW at \in [Pcb -> Queues \cup {NULL}], NEW p \in Pcb, NEW q \in Queues \cup {NULL}
    PROVE  /\ Abs(Move(at, p, q)) = [Abs(at) EXCEPT ![p] = AbsPlace(q)]
           /\ Move(at, p, q) \in [Pcb -> Queues \cup {NULL}]
PROOF
  <1> DEFINE w == Move(at, p, q)
  <1>1. w \in [Pcb -> Queues \cup {NULL}] /\ \A y \in Pcb : w[y] = IF y = p THEN q ELSE at[y]
    BY DEF Move
  <1> HIDE DEF w
  <1>2. Abs(w) = [Abs(at) EXCEPT ![p] = AbsPlace(q)]
    BY <1>1 DEF Abs
  <1> QED
    BY <1>1, <1>2 DEF w

\* Waking queues here is waking places there.
LEMMA AbsWoken ==
    ASSUME NEW at \in [Pcb -> Queues \cup {NULL}], NEW S, NEW G,
           \A p \in Pcb : Abs(at)[p] \in S <=> at[p] \in G
    PROVE  /\ Abs(WokenFrom(at, G)) = [p \in Pcb |-> IF Abs(at)[p] \in S THEN Ready ELSE Abs(at)[p]]
           /\ WokenFrom(at, G) \in [Pcb -> Queues \cup {NULL}]
PROOF
  <1>1. AbsPlace(Ready) = Ready
    BY QueueNames, AbsFacts
  <1> QED
    BY <1>1, QueueNames DEF Abs, WokenFrom

\* Waking the queue of an object is Sync's Woken of that object.
LEMMA WokenAbs ==
    ASSUME NEW at, At(at), NEW o \in Objects
    PROVE  /\ Promise!Woken({Promise!On(o)}) = Abs(WokenFrom(at, {o}))
           /\ WokenFrom(at, {o}) \in [Pcb -> Queues \cup {NULL}]
PROOF
  <1>1. \A p \in Pcb : Abs(at)[p] \in {Promise!On(o)} <=> at[p] \in {o}
    BY AtFacts, AbsFacts, PromiseNames DEF Abs
  <1>2. /\ Abs(WokenFrom(at, {o})) =
              [p \in Pcb |-> IF Abs(at)[p] \in {Promise!On(o)} THEN Ready ELSE Abs(at)[p]]
        /\ WokenFrom(at, {o}) \in [Pcb -> Queues \cup {NULL}]
    BY <1>1, AtFacts, AbsWoken
  <1>3. [p \in Pcb |-> PlaceOf(p)] = Abs(at)
    BY PlaceNow DEF At
  <1> DEFINE a == [p \in Pcb |-> PlaceOf(p)]
  <1>4. Promise!Woken({Promise!On(o)}) =
              [p \in Pcb |-> IF a[p] \in {Promise!On(o)} THEN Promise!Ready ELSE a[p]]
    BY DEF Promise!Woken
  <1> HIDE DEF a
  <1> QED
    BY <1>2, <1>3, <1>4, PromiseNames DEF a

\* The CPU and the continuation of the caller.
LEMMA RunningAbs ==
    ASSUME NEW p, Running(p)
    PROVE  Promise!Running(p) /\ os.current_running = p /\ kont[p] = User
  BY PromiseNames DEF Running, OnCpu, Promise!Running

\* A timer interrupt is a preemption.
LEMMA TickRefines ==
    ASSUME NEW at, At(at), NEW p \in Pcb, Tick(p)
    PROVE  Promise!Preempt(p)
PROOF
  <1>1. os' = Timer(os) /\ UNCHANGED <<lock_status, limit, locks, sems, kont>> /\ Running(p)
    BY DEF Tick
  <1>2. Lands(os', os.all, at)
    BY <1>1, TimerLands DEF At
  <1>3. Promise!Switch(Abs(at)) /\ {o \in Objects : Registered(o)}' = {o \in Objects : Registered(o)}
    BY <1>2, AtFacts, SwitchAbs
  <1>4. Abs(at) = [q \in Pcb |-> PlaceOf(q)]
    BY PlaceNow DEF At
  <1>5. Promise!Switch([q \in Pcb |-> PlaceOf(q)])
    BY <1>3, <1>4
  <1> QED
    BY <1>1, <1>3, <1>5, RunningAbs DEF Promise!Preempt

\* do_sleep is Sync's DoSleep.
LEMMA SleepRefines ==
    ASSUME NEW at, At(at), NEW p \in Pcb \ {Shell}, NEW t \in SleepTimes, DoSleep(p, t)
    PROVE  Promise!DoSleep(p)
PROOF
  <1>1. /\ os' = Scheduler(Block(Asleep(os, p, t), Sleep)) /\ Running(p)
        /\ UNCHANGED <<lock_status, limit, locks, sems, kont>> /\ os.current_running = p
    BY DEF DoSleep, Asleep, Running, OnCpu
  <1>2. t \in Nat
    BY KernelAssumption
  <1> DEFINE v == Move(at, p, Sleep)
  <1>3. Lands(os', os.all, v)
    BY <1>1, <1>2, SleepLands DEF At
  <1>4. /\ Abs(v) = [Abs(at) EXCEPT ![p] = Sleep] /\ v \in [Pcb -> Queues \cup {NULL}]
    <2>1. AbsPlace(Sleep) = Sleep
      BY QueueNames, AbsFacts
    <2> QED  BY <2>1, AtFacts, AbsMove, QueueNames
  <1> HIDE DEF v
  <1>5. Promise!Switch(Abs(v)) /\ {o \in Objects : Registered(o)}' = {o \in Objects : Registered(o)}
    BY <1>3, <1>4, SwitchAbs
  <1>6. Abs(at) = [q \in Pcb |-> PlaceOf(q)]
    BY PlaceNow DEF At
  <1>7. Promise!Switch([[q \in Pcb |-> PlaceOf(q)] EXCEPT ![p] = Promise!Sleep])
    BY <1>4, <1>5, <1>6, PromiseNames
  <1> QED
    BY <1>1, <1>5, <1>7, RunningAbs DEF Promise!DoSleep

\* Blocking the caller on q moves it there, and some sleepers may wake.
LEMMA BlockAbs ==
    ASSUME NEW at, At(at), NEW p \in Pcb \ {Shell}, os.current_running = p,
           NEW q \in Queues \ {Ready}, os' = Scheduler(Block(os, q))
    PROVE  /\ Promise!Switch([[y \in Pcb |-> PlaceOf(y)] EXCEPT ![p] = AbsPlace(q)])
           /\ {o \in Objects : Registered(o)}' = {o \in Objects : Registered(o)}
PROOF
  <1> DEFINE v == Move(at, p, q)
  <1>1. Lands(os', os.all, v)
    BY BlockLands DEF At
  <1>2. Abs(v) = [Abs(at) EXCEPT ![p] = AbsPlace(q)] /\ v \in [Pcb -> Queues \cup {NULL}]
    BY AtFacts, AbsMove
  <1> HIDE DEF v
  <1>3. Promise!Switch(Abs(v)) /\ {o \in Objects : Registered(o)}' = {o \in Objects : Registered(o)}
    BY <1>1, <1>2, SwitchAbs
  <1>4. Abs(at) = [y \in Pcb |-> PlaceOf(y)]
    BY PlaceNow DEF At
  <1> QED
    BY <1>2, <1>3, <1>4

\* How the objects and the queues of waitpid look from Sync.
LEMMA ObjectAbs ==
    /\ \A o \in Objects : AbsPlace(o) = Promise!On(o) /\ o \in Queues \ {Ready}
    /\ \A t \in Pcb : AbsPlace(Wait(t)) = Promise!Wait(t)
    /\ Locks \subseteq Objects /\ Conds \subseteq Objects /\ Sems \subseteq Objects /\ Barriers \subseteq Objects
PROOF
  <1>1. ASSUME NEW o \in Objects PROVE AbsPlace(o) = Promise!On(o) /\ o \in Queues \ {Ready}
    BY QueueNames, PromiseNames DEF AbsPlace
  <1>2. ASSUME NEW t \in Pcb PROVE AbsPlace(Wait(t)) = Promise!Wait(t)
    <2>1. Wait(t) \in Queues \cup {NULL}
      BY QueueNames
    <2> QED  BY <2>1, AbsFacts, PromiseNames
  <1> QED
    BY <1>1, <1>2 DEF Objects

\* do_waitpid is Sync's DoWait, whether it blocks or not.
LEMMA WaitRefines ==
    ASSUME NEW at, At(at), NEW p \in Pcb \ {Shell}, NEW t \in Pcb, DoWait(p, t)
    PROVE  Promise!DoWait(p, t)
PROOF
  <1>1. /\ os' = Scheduler(Block(os, Wait(t))) /\ Running(p) /\ Found(t)
        /\ UNCHANGED <<lock_status, limit, locks, sems, kont>> /\ os.current_running = p
    BY DEF DoWait, Running, OnCpu
  <1>2. Wait(t) \in Queues \ {Ready}
    BY QueueNames
  <1>3. /\ Promise!Switch([[y \in Pcb |-> PlaceOf(y)] EXCEPT ![p] = AbsPlace(Wait(t))])
        /\ {o \in Objects : Registered(o)}' = {o \in Objects : Registered(o)}
    BY <1>1, <1>2, BlockAbs
  <1>4. Promise!Switch([[y \in Pcb |-> PlaceOf(y)] EXCEPT ![p] = Promise!Wait(t)])
    BY <1>3, ObjectAbs
  <1>5. Promise!Live(t)
    <2>1. PICK j \in DOMAIN os.all : Contains(os.queue[os.all[j]], t)
      BY <1>1 DEF Found
    <2>2. os.all[j] \in Queues
      BY <2>1, AtFacts
    <2>3. at[t] # NULL
      BY <2>1, <2>2, QueueNames DEF At, Steady, Base, Placed
    <2>4. PlaceOf(t) # <<"exited">>
      BY <2>3, AtFacts, AbsFacts, PlaceNow DEF At
    <2> QED  BY <2>4, PromiseNames DEF Promise!Live
  <1> QED
    BY <1>1, <1>3, <1>4, <1>5, RunningAbs DEF Promise!DoWait

\* What an exit gives back is what Sync's Given names.
LEMMA GivenAbs ==
    ASSUME NEW at, At(at), NEW p \in Pcb
    PROVE  \A y \in Pcb : Abs(at)[y] \in Promise!Given(p) <=> at[y] \in GivenBack(p)
PROOF
  <1>1. /\ locks[p] \in [Slots -> Locks \cup {NULL}] /\ sems[p] \in [Slots -> Sems \cup {NULL}]
        /\ at \in [Pcb -> Queues \cup {NULL}]
    BY AtFacts
  <1>2. /\ \A l : Promise!Has(p, l) <=> \E i \in Slots : locks[p][i] = l
        /\ \A s : Promise!Downed(p, s) # {} <=> \E i \in Slots : sems[p][i] = s
    BY PromiseNames DEF Promise!Has, Promise!Downed
  <1>3. \A x : x \in Promise!Given(p) <=>
              \/ x = Wait(p)
              \/ \E l \in Locks : x = <<"on", l>> /\ \E i \in Slots : locks[p][i] = l
              \/ \E s \in Sems : x = <<"on", s>> /\ \E i \in Slots : sems[p][i] = s
    BY <1>2, PromiseNames DEF Promise!Given
  <1>4. \A x : x \in GivenBack(p) <=>
              \/ x = Wait(p)
              \/ x # NULL /\ \E i \in Slots : locks[p][i] = x
              \/ x # NULL /\ \E i \in Slots : sems[p][i] = x
    <2>1. Wait(p) # NULL
      BY QueueNames
    <2> QED  BY <2>1 DEF GivenBack
  <1>5. Locks \subseteq Objects /\ Sems \subseteq Objects /\ NULL \notin Objects
    BY ObjectAbs, QueueNames
  <1>6. ASSUME NEW y \in Pcb PROVE Abs(at)[y] \in Promise!Given(p) <=> at[y] \in GivenBack(p)
    <2> DEFINE x == at[y]
    <2>1. x \in Queues \cup {NULL} /\ Abs(at)[y] = AbsPlace(x)
      BY <1>1 DEF Abs
    <2> HIDE DEF x
    <2>2. /\ AbsPlace(x) = Wait(p) <=> x = Wait(p)
          /\ \A o \in Objects : AbsPlace(x) = <<"on", o>> <=> x = o
      BY <2>1, AbsFacts
    <2>3. AbsPlace(x) \in Promise!Given(p) <=>
              \/ x = Wait(p)
              \/ \E l \in Locks : x = l /\ \E i \in Slots : locks[p][i] = l
              \/ \E s \in Sems : x = s /\ \E i \in Slots : sems[p][i] = s
      BY <1>3, <1>5, <2>2
    <2>4. /\ (x # NULL /\ \E i \in Slots : locks[p][i] = x)
                <=> \E l \in Locks : x = l /\ \E i \in Slots : locks[p][i] = l
          /\ (x # NULL /\ \E i \in Slots : sems[p][i] = x)
                <=> \E s \in Sems : x = s /\ \E i \in Slots : sems[p][i] = s
      BY <1>1, <1>5
    <2> QED  BY <1>4, <2>1, <2>3, <2>4 DEF x
  <1> QED
    BY <1>6

\* The instance's Cardinality is the standard one: both count a bijection.
LEMMA SameCardinality ==
    ASSUME NEW S
    PROVE  Promise!Cardinality(S) = Cardinality(S)
  BY DEF Promise!Cardinality, Cardinality

\* do_exit is Sync's Exit: its loop over the slots, mutex and semaphore in
\* turn, gives back in the end what Exit gives back at once.
LEMMA ExitRefines ==
    ASSUME NEW at, At(at), NEW p \in Pcb \ {Shell}, os.current_running = p, DoExit(p)
    PROVE  Promise!Exit(p)
PROOF
  <1> DEFINE a == WokenFrom(at, GivenBack(p))
             v == Move(a, p, NULL)
             here == [y \in Pcb |-> PlaceOf(y)]
  <1>1. /\ os' = Scheduler(ExitLeaves(FreeAll(os, p), p))
        /\ lock_status' = FreeLocks(p) /\ limit' = FreeSems(p)
        /\ kont' = [kont EXCEPT ![p] = Exited] /\ UNCHANGED <<locks, sems>>
    BY DEF DoExit, ExitLeaves
  <1>2. Lands(os', os.all, v)
    BY <1>1, AtFacts, ExitLands DEF At
  <1>3. /\ Abs(a) = [y \in Pcb |-> IF Abs(at)[y] \in Promise!Given(p) THEN Ready ELSE Abs(at)[y]]
        /\ a \in [Pcb -> Queues \cup {NULL}]
    <2>1. \A y \in Pcb : Abs(at)[y] \in Promise!Given(p) <=> at[y] \in GivenBack(p)
      BY GivenAbs
    <2> QED  BY <2>1, AtFacts, AbsWoken
  <1>4. Abs(at) = here
    BY PlaceNow DEF At
  <1>5. Promise!Woken(Promise!Given(p)) =
            [y \in Pcb |-> IF here[y] \in Promise!Given(p) THEN Promise!Ready ELSE here[y]]
    BY DEF Promise!Woken
  <1> HIDE DEF a, here
  <1>6. Promise!Woken(Promise!Given(p)) = Abs(a)
    BY <1>3, <1>4, <1>5, PromiseNames
  <1>7. /\ Abs(v) = [Abs(a) EXCEPT ![p] = <<"exited">>]
        /\ v \in [Pcb -> Queues \cup {NULL}]
    <2>1. AbsPlace(NULL) = <<"exited">>
      BY DEF AbsPlace
    <2>2. a \in [Pcb -> Queues \cup {NULL}] /\ p \in Pcb /\ NULL \in Queues \cup {NULL}
      BY <1>3
    <2>3. /\ Abs(v) = [Abs(a) EXCEPT ![p] = AbsPlace(NULL)]
          /\ v \in [Pcb -> Queues \cup {NULL}]
      BY <2>2, AbsMove
    <2> HIDE DEF v
    <2> QED  BY <2>1, <2>3
  <1> HIDE DEF v
  <1>8. Promise!Switch(Abs(v)) /\ {o \in Objects : Registered(o)}' = {o \in Objects : Registered(o)}
    BY <1>2, <1>7, SwitchAbs
  <1>9. Promise!Switch([Promise!Woken(Promise!Given(p)) EXCEPT ![p] = Promise!Nowhere])
    BY <1>6, <1>7, <1>8, PromiseNames
  <1>10. \A l : Promise!Has(p, l) <=> Contains(locks[p], l)
    BY AtFacts, SlotFacts, PromiseNames DEF Promise!Has
  <1>11. lock_status' = [l \in Locks |-> IF Promise!Has(p, l) THEN "UNLOCKED" ELSE lock_status[l]]
    BY <1>1, <1>10 DEF FreeLocks
  <1>12. limit' = [o \in Sems \cup Barriers |->
                      IF o \in Sems THEN limit[o] + Promise!Cardinality(Promise!Downed(p, o)) ELSE limit[o]]
    <2>1. \A o : Promise!Downed(p, o) = {i \in Slots : sems[p][i] = o}
      BY PromiseNames DEF Promise!Downed
    <2>2. limit \in [Sems \cup Barriers -> Int]
      BY AtFacts DEF Others
    <2>3. ASSUME NEW o \in Barriers PROVE limit[o] + Cardinality({i \in Slots : sems[p][i] = o}) = limit[o]
      <3>1. o \notin Sems /\ o # NULL
        BY AddressAssumption, ObjectAbs, QueueNames
      <3>2. {i \in Slots : sems[p][i] = o} = {}
        BY <3>1, AtFacts
      <3>3. Cardinality({i \in Slots : sems[p][i] = o}) = 0
        BY <3>2, FS_EmptySet
      <3>4. limit[o] \in Int
        BY <2>2
      <3> QED  BY <3>3, <3>4
    <2>4. DOMAIN limit = Sems \cup Barriers
      BY <2>2
    <2>5. limit' = [o \in Sems \cup Barriers |-> limit[o] + Cardinality({i \in Slots : sems[p][i] = o})]
      BY <1>1, <2>4 DEF FreeSems
    <2> DEFINE N(o) == Cardinality({i \in Slots : sems[p][i] = o})
    <2>6. \A o \in Barriers : limit[o] + N(o) = limit[o]
      BY <2>3
    <2>7. \A o : Promise!Cardinality(Promise!Downed(p, o)) = N(o)
      BY <2>1, SameCardinality
    <2>8. limit' = [o \in Sems \cup Barriers |-> limit[o] + N(o)]
      BY <2>5
    <2> HIDE DEF N
    <2> QED  BY <2>6, <2>7, <2>8
  <1>13. kont' = [kont EXCEPT ![p] = Promise!Exited]
    BY <1>1, PromiseNames
  <1> QED
    BY <1>1, <1>8, <1>9, <1>11, <1>12, <1>13 DEF Promise!Exit

\* A wake-up of everyone in an object's queue, seen from Sync.
LEMMA WakeAbs ==
    ASSUME NEW at, At(at), NEW o \in Objects, os' = UnblockAll(os, o)
    PROVE  /\ [y \in Pcb |-> PlaceOf(y)]' = Promise!Woken({Promise!On(o)})
           /\ {x \in Objects : Registered(x)}' = {x \in Objects : Registered(x)}
           /\ (os.current_running)' = os.current_running
PROOF
  <1>1. /\ Steady(os', WokenFrom(at, {o})) /\ os'.all = os.all
        /\ os'.current_running = os.current_running
    BY ObjectAbs, UnblockAllSteady DEF At
  <1>2. [y \in Pcb |-> PlaceOf(y)]' = Abs(WokenFrom(at, {o}))
    BY <1>1, PlaceNext
  <1> QED
    BY <1>1, <1>2, WokenAbs DEF Registered

\* Giving up what is held empties one slot that holds it.
LEMMA HeldSlot ==
    ASSUME NEW at, At(at), NEW p \in Pcb
    PROVE  /\ \A l \in Locks : Holds(p, l) =>
                 \E i \in Slots : locks[p][i] = l /\ Clear(locks[p], l) = [locks[p] EXCEPT ![i] = NULL]
           /\ \A s \in Sems : Holds(p, s) =>
                 \E i \in Slots : sems[p][i] = s /\ Clear(sems[p], s) = [sems[p] EXCEPT ![i] = NULL]
PROOF
  <1> DEFINE f == locks[p]  g == sems[p]
  <1>1. f \in [Slots -> Locks \cup {NULL}] /\ g \in [Slots -> Sems \cup {NULL}]
    BY AtFacts
  <1>2. /\ \A l \in Locks : Holds(p, l) <=> \E i \in Slots : f[i] = l
        /\ \A s \in Sems : Holds(p, s) <=> \E i \in Slots : g[i] = s
    BY HoldsFacts
  <1> HIDE DEF f, g
  <1>3. ASSUME NEW l \in Locks, Holds(p, l)
        PROVE  \E i \in Slots : f[i] = l /\ Clear(f, l) = [f EXCEPT ![i] = NULL]
    BY <1>1, <1>2, <1>3, ClearFacts
  <1>4. ASSUME NEW s \in Sems, Holds(p, s)
        PROVE  \E i \in Slots : g[i] = s /\ Clear(g, s) = [g EXCEPT ![i] = NULL]
    BY <1>1, <1>2, <1>4, ClearFacts
  <1> QED
    BY <1>3, <1>4 DEF f, g

\* do_mutex_lock_release by the holder is Sync's.
LEMMA ReleaseRefines ==
    ASSUME NEW at, At(at), NEW p \in Pcb, NEW l \in Locks, Holds(p, l), DoMutexLockRelease(p, l)
    PROVE  Promise!DoMutexLockRelease(p, l)
PROOF
  <1>1. /\ os' = UnblockAll(os, l) /\ locks' = [locks EXCEPT ![p] = Clear(@, l)]
        /\ lock_status' = [lock_status EXCEPT ![l] = "UNLOCKED"]
        /\ UNCHANGED <<limit, sems, kont>> /\ Running(p)
    BY DEF DoMutexLockRelease
  <1>2. PICK i \in Slots : locks[p][i] = l /\ Clear(locks[p], l) = [locks[p] EXCEPT ![i] = NULL]
    BY HeldSlot
  <1>3. locks' = [locks EXCEPT ![p][i] = NULL]
    BY <1>1, <1>2
  <1>4. Promise!Unlock(p, l)
    BY <1>1, <1>2, <1>3, PromiseNames DEF Promise!Unlock
  <1>5. /\ [y \in Pcb |-> PlaceOf(y)]' = Promise!Woken({Promise!On(l)})
        /\ {x \in Objects : Registered(x)}' = {x \in Objects : Registered(x)}
        /\ (os.current_running)' = os.current_running
    BY <1>1, ObjectAbs, WakeAbs
  <1> QED
    BY <1>1, <1>4, <1>5, RunningAbs DEF Promise!DoMutexLockRelease

\* do_condition_wait by the holder is Sync's: release and block at once.
LEMMA CondWaitRefines ==
    ASSUME NEW at, At(at), NEW p \in Pcb \ {Shell}, NEW l \in Locks, NEW c \in Conds, Holds(p, l),
           DoConditionWait(p, l, c)
    PROVE  Promise!DoConditionWait(p, l, c)
PROOF
  <1> DEFINE a == WokenFrom(at, {l})
             v == Move(a, p, c)
  <1>1. /\ os' = Scheduler(Block(UnblockAll(os, l), c))
        /\ locks' = [locks EXCEPT ![p] = Clear(@, l)]
        /\ lock_status' = [lock_status EXCEPT ![l] = "UNLOCKED"]
        /\ kont' = [kont EXCEPT ![p] = Acquiring(l)]
        /\ UNCHANGED <<limit, sems>> /\ Running(p) /\ os.current_running = p
    BY DEF DoConditionWait, Running, OnCpu
  <1>2. PICK i \in Slots : locks[p][i] = l /\ Clear(locks[p], l) = [locks[p] EXCEPT ![i] = NULL]
    BY HeldSlot
  <1>3. locks' = [locks EXCEPT ![p][i] = NULL]
    BY <1>1, <1>2
  <1>4. Promise!Unlock(p, l)
    BY <1>1, <1>2, <1>3, PromiseNames DEF Promise!Unlock
  <1>5. Lands(os', os.all, v)
    BY <1>1, ObjectAbs, CondWaitLands DEF At
  <1>6. Promise!Woken({Promise!On(l)}) = Abs(a) /\ a \in [Pcb -> Queues \cup {NULL}]
    BY ObjectAbs, WokenAbs
  <1> HIDE DEF a
  <1>7. /\ Abs(v) = [Abs(a) EXCEPT ![p] = AbsPlace(c)] /\ v \in [Pcb -> Queues \cup {NULL}]
        /\ AbsPlace(c) = Promise!On(c)
    BY <1>6, ObjectAbs, AbsMove
  <1> HIDE DEF v
  <1>8. Promise!Switch(Abs(v)) /\ {o \in Objects : Registered(o)}' = {o \in Objects : Registered(o)}
    BY <1>5, <1>7, SwitchAbs
  <1>9. Promise!Switch([Promise!Woken({Promise!On(l)}) EXCEPT ![p] = Promise!On(c)])
    BY <1>6, <1>7, <1>8
  <1> QED
    BY <1>1, <1>4, <1>8, <1>9, RunningAbs, PromiseNames DEF Promise!DoConditionWait

\* do_mutex_lock_acquire, called or resumed, is Sync's Acquire: it blocks, takes
\* the mutex, or exits because no slot is free.
LEMMA AcquireRefines ==
    ASSUME NEW at, At(at), NEW p \in Pcb \ {Shell}, NEW l \in Locks, os.current_running = p,
           Registered(l), kont[p] \in {User, Acquiring(l)}, AcquireStep(p, l)
    PROVE  Promise!Acquire(p, l)
PROOF
  <1>0. /\ l \in {o \in Objects : Registered(o)}
        /\ kont[p] \in {Promise!User, Promise!Acquiring(l)}
    BY ObjectAbs, PromiseNames
  <1>1. CASE /\ lock_status[l] = "LOCKED"
             /\ os' = Scheduler(Block(os, l))
             /\ kont' = [kont EXCEPT ![p] = Acquiring(l)]
             /\ UNCHANGED <<lock_status, limit, locks, sems>>
    <2>1. /\ Promise!Switch([[y \in Pcb |-> PlaceOf(y)] EXCEPT ![p] = AbsPlace(l)])
          /\ {o \in Objects : Registered(o)}' = {o \in Objects : Registered(o)}
      BY <1>1, ObjectAbs, BlockAbs
    <2>2. Promise!Switch([[y \in Pcb |-> PlaceOf(y)] EXCEPT ![p] = Promise!On(l)])
      BY <2>1, ObjectAbs
    <2>3. kont' = [kont EXCEPT ![p] = Promise!Acquiring(l)]
      BY <1>1, PromiseNames
    <2> QED  BY <1>0, <1>1, <2>1, <2>2, <2>3 DEF Promise!Acquire
  <1>2. CASE /\ lock_status[l] = "UNLOCKED"
             /\ FreeSlots(locks[p]) # {}
             /\ locks' = [locks EXCEPT ![p][MinOf(FreeSlots(locks[p]))] = l]
             /\ lock_status' = [lock_status EXCEPT ![l] = "LOCKED"]
             /\ kont' = [kont EXCEPT ![p] = User]
             /\ UNCHANGED <<os, limit, sems>>
    <2>1. \E i \in Promise!Slots : locks[p][i] = NULL /\ locks' = [locks EXCEPT ![p][i] = l]
      BY <1>2, AtFacts, FreeSlotFacts, PromiseNames
    <2>2. /\ [y \in Pcb |-> PlaceOf(y)]' = [y \in Pcb |-> PlaceOf(y)]
          /\ {o \in Objects : Registered(o)}' = {o \in Objects : Registered(o)}
          /\ (os.current_running)' = os.current_running
      BY <1>2 DEF PlaceOf, Live, Registered
    <2>3. kont' = [kont EXCEPT ![p] = Promise!User]
      BY <1>2, PromiseNames
    <2> QED  BY <1>0, <1>2, <2>1, <2>2, <2>3 DEF Promise!Acquire
  <1>3. CASE /\ lock_status[l] = "UNLOCKED"
             /\ FreeSlots(locks[p]) = {}
             /\ DoExit(p)
    <2>1. NULL \notin {locks[p][i] : i \in Promise!Slots}
      BY <1>3, PromiseNames DEF FreeSlots
    <2>2. Promise!Exit(p)
      BY <1>3, ExitRefines
    <2> QED  BY <1>0, <1>3, <2>1, <2>2 DEF Promise!Acquire
  <1> QED
    BY <1>1, <1>2, <1>3 DEF AcquireStep

\* do_semaphore_down, called or resumed, is Sync's Down.
LEMMA DownRefines ==
    ASSUME NEW at, At(at), NEW p \in Pcb \ {Shell}, NEW s \in Sems, os.current_running = p,
           Registered(s), kont[p] \in {User, Downing(s)}, DownStep(p, s)
    PROVE  Promise!Down(p, s)
PROOF
  <1>0. /\ s \in {o \in Objects : Registered(o)}
        /\ kont[p] \in {Promise!User, Promise!Downing(s)}
    BY ObjectAbs, PromiseNames
  <1>1. CASE /\ limit[s] <= 0
             /\ os' = Scheduler(Block(os, s))
             /\ kont' = [kont EXCEPT ![p] = Downing(s)]
             /\ UNCHANGED <<lock_status, limit, locks, sems>>
    <2>1. /\ Promise!Switch([[y \in Pcb |-> PlaceOf(y)] EXCEPT ![p] = AbsPlace(s)])
          /\ {o \in Objects : Registered(o)}' = {o \in Objects : Registered(o)}
      BY <1>1, ObjectAbs, BlockAbs
    <2>2. Promise!Switch([[y \in Pcb |-> PlaceOf(y)] EXCEPT ![p] = Promise!On(s)])
      BY <2>1, ObjectAbs
    <2>3. kont' = [kont EXCEPT ![p] = Promise!Downing(s)]
      BY <1>1, PromiseNames
    <2> QED  BY <1>0, <1>1, <2>1, <2>2, <2>3 DEF Promise!Down
  <1>2. CASE /\ limit[s] > 0
             /\ FreeSlots(sems[p]) # {}
             /\ sems' = [sems EXCEPT ![p][MinOf(FreeSlots(sems[p]))] = s]
             /\ limit' = [limit EXCEPT ![s] = @ - 1]
             /\ kont' = [kont EXCEPT ![p] = User]
             /\ UNCHANGED <<os, lock_status, locks>>
    <2>1. \E i \in Promise!Slots : sems[p][i] = NULL /\ sems' = [sems EXCEPT ![p][i] = s]
      BY <1>2, AtFacts, FreeSlotFacts, PromiseNames
    <2>2. /\ [y \in Pcb |-> PlaceOf(y)]' = [y \in Pcb |-> PlaceOf(y)]
          /\ {o \in Objects : Registered(o)}' = {o \in Objects : Registered(o)}
          /\ (os.current_running)' = os.current_running
      BY <1>2 DEF PlaceOf, Live, Registered
    <2>3. kont' = [kont EXCEPT ![p] = Promise!User]
      BY <1>2, PromiseNames
    <2> QED  BY <1>0, <1>2, <2>1, <2>2, <2>3 DEF Promise!Down
  <1>3. CASE /\ limit[s] > 0
             /\ FreeSlots(sems[p]) = {}
             /\ DoExit(p)
    <2>1. NULL \notin {sems[p][i] : i \in Promise!Slots}
      BY <1>3, PromiseNames DEF FreeSlots
    <2>2. Promise!Exit(p)
      BY <1>3, ExitRefines
    <2> QED  BY <1>0, <1>3, <2>1, <2>2 DEF Promise!Down
  <1> QED
    BY <1>1, <1>2, <1>3 DEF DownStep

\* do_semaphore_up by a holder is Sync's.
LEMMA UpRefines ==
    ASSUME NEW at, At(at), NEW p \in Pcb, NEW s \in Sems, Holds(p, s), DoSemaphoreUp(p, s)
    PROVE  Promise!DoSemaphoreUp(p, s)
PROOF
  <1>1. /\ os' = UnblockAll(os, s) /\ sems' = [sems EXCEPT ![p] = Clear(@, s)]
        /\ limit' = [limit EXCEPT ![s] = @ + 1]
        /\ UNCHANGED <<lock_status, locks, kont>> /\ Running(p)
    BY DEF DoSemaphoreUp
  <1>2. PICK i \in Slots : sems[p][i] = s /\ Clear(sems[p], s) = [sems[p] EXCEPT ![i] = NULL]
    BY HeldSlot
  <1>3. sems' = [sems EXCEPT ![p][i] = NULL]
    BY <1>1, <1>2
  <1>4. \E j \in Promise!Slots : sems[p][j] = s /\ sems' = [sems EXCEPT ![p][j] = NULL]
    BY <1>2, <1>3, PromiseNames
  <1>5. /\ [y \in Pcb |-> PlaceOf(y)]' = Promise!Woken({Promise!On(s)})
        /\ {x \in Objects : Registered(x)}' = {x \in Objects : Registered(x)}
        /\ (os.current_running)' = os.current_running
    BY <1>1, ObjectAbs, WakeAbs
  <1> QED
    BY <1>1, <1>4, <1>5, RunningAbs DEF Promise!DoSemaphoreUp

\* do_condition_broadcast is Sync's.
LEMMA BroadcastRefines ==
    ASSUME NEW at, At(at), NEW p \in Pcb, NEW c \in Conds, DoConditionBroadcast(p, c)
    PROVE  Promise!DoConditionBroadcast(p, c)
PROOF
  <1>1. os' = UnblockAll(os, c) /\ UNCHANGED <<lock_status, limit, locks, sems, kont>> /\ Running(p)
    BY DEF DoConditionBroadcast
  <1>2. /\ [y \in Pcb |-> PlaceOf(y)]' = Promise!Woken({Promise!On(c)})
        /\ {x \in Objects : Registered(x)}' = {x \in Objects : Registered(x)}
        /\ (os.current_running)' = os.current_running
    BY <1>1, ObjectAbs, WakeAbs
  <1> QED
    BY <1>1, <1>2, RunningAbs DEF Promise!DoConditionBroadcast

\* Where Sync sees the processes.
Where == [y \in Pcb |-> PlaceOf(y)]
\* Where Sync sees a process that has exited.
Gone  == <<"exited">>

\* A process exits holding nothing: no task does so of its own accord
\* (ExitHolding is false) or because its slots are full.
CleanStep == \A p \in Pcb : Live(p) /\ ~Live(p)' => locks[p] = NoSlots /\ sems[p] = NoSlots
\* Every exit of the behaviour is such a step.
CleanExits == [][CleanStep]_vars

\* Then the slots of exited processes, and the shell's, are always empty.
Swept == \A p \in Pcb : Where[p] = Gone \/ p = Shell => locks[p] = NoSlots /\ sems[p] = NoSlots

\* A step of the kernel that is none of Sync's.
LEMMA StutterAbs ==
    ASSUME UNCHANGED vars
    PROVE  UNCHANGED Promise!vars
PROOF
  <1>1. /\ [y \in Pcb |-> PlaceOf(y)]' = [y \in Pcb |-> PlaceOf(y)]
        /\ {o \in Objects : Registered(o)}' = {o \in Objects : Registered(o)}
        /\ (os.current_running)' = os.current_running
    BY DEF vars, PlaceOf, Live, Registered
  <1>2. UNCHANGED <<kont, lock_status, limit, locks, sems>>
    BY DEF vars
  <1> QED
    BY <1>1, <1>2 DEF Promise!vars

\* do_condition_signal is Sync's, or no step at all.
LEMMA SignalRefines ==
    ASSUME NEW at, At(at), NEW p \in Pcb, NEW c \in Conds, DoConditionSignal(p, c)
    PROVE  Promise!DoConditionSignal(p, c) \/ UNCHANGED Promise!vars
PROOF
  <1>1. os' = UnblockOne(os, c) /\ UNCHANGED <<lock_status, limit, locks, sems, kont>> /\ Running(p)
    BY DEF DoConditionSignal
  <1>2. c \in Queues \ {Ready} /\ c \in Objects /\ AbsPlace(c) = Promise!On(c)
    BY ObjectAbs
  <1>3. /\ \/ UnblockOne(os, c) = os
           \/ \E y \in Pcb : at[y] = c /\ Steady(UnblockOne(os, c), Move(at, y, Ready))
        /\ UnblockOne(os, c).all = os.all
        /\ UnblockOne(os, c).current_running = os.current_running
    BY <1>2, UnblockOneSteady DEF At
  <1>4. CASE os' = os
    BY <1>1, <1>4, StutterAbs DEF vars
  <1>5. CASE \E y \in Pcb : at[y] = c /\ Steady(os', Move(at, y, Ready))
    <2>1. PICK y \in Pcb : at[y] = c /\ Steady(os', Move(at, y, Ready))
      BY <1>5
    <2> DEFINE v == Move(at, y, Ready)
    <2>2. Ready \in Queues \cup {NULL} /\ AbsPlace(Ready) = Ready
      BY QueueNames, AbsFacts
    <2>3. [q \in Pcb |-> PlaceOf(q)]' = Abs(v)
      BY <2>1, PlaceNext
    <2>4. Abs(v) = [Abs(at) EXCEPT ![y] = AbsPlace(Ready)]
      BY <2>2, AtFacts, AbsMove
    <2> HIDE DEF v
    <2>5. [q \in Pcb |-> PlaceOf(q)] = Abs(at) /\ PlaceOf(y) = Promise!On(c)
      BY <1>2, <2>1, PlaceNow DEF At
    <2> DEFINE a == [q \in Pcb |-> PlaceOf(q)]
    <2>6. a[y] = Promise!On(c) /\ a' = [a EXCEPT ![y] = Promise!Ready]
      BY <2>2, <2>3, <2>4, <2>5, PromiseNames
    <2>7. {o \in Objects : Registered(o)}' = {o \in Objects : Registered(o)}
      BY <1>1, <1>3 DEF Registered
    <2>8. (os.current_running)' = os.current_running
      BY <1>1, <1>3
    <2>9. Promise!Running(p) /\ UNCHANGED <<lock_status, limit, locks, sems, kont>>
      BY <1>1, RunningAbs
    <2> QED  BY <2>6, <2>7, <2>8, <2>9 DEF Promise!DoConditionSignal
  <1> QED
    BY <1>1, <1>3, <1>4, <1>5

\* queue_init of a new object, seen from Sync.
LEMMA InitAbs ==
    ASSUME NEW at, At(at), NEW p, Running(p), NEW o \in Objects, ~Registered(o), os' = QueueInit(os, o)
    PROVE  /\ Promise!ObjectInit(p, o)
           /\ [y \in Pcb |-> PlaceOf(y)]' = [y \in Pcb |-> PlaceOf(y)]
           /\ (os.current_running)' = os.current_running
PROOF
  <1>1. o \in Queues /\ ~Contains(os.all, o) /\ \A y \in Pcb : at[y] # o
    BY QueueNames DEF At, Known, Registered
  <1>2. /\ Steady(os', at) /\ os'.all = Append(os.all, o)
        /\ os'.current_running = os.current_running
    BY <1>1, QueueInitSteady DEF At
  <1>3. [y \in Pcb |-> PlaceOf(y)]' = [y \in Pcb |-> PlaceOf(y)]
    BY <1>2, PlaceNext, PlaceNow DEF At
  <1>4. \A x : Contains(Append(os.all, o), x) <=> Contains(os.all, x) \/ x = o
    <2>1. os.all \in Seq(Queues)
      BY DEF At, Steady, Base, KRec
    <2> QED  BY <1>1, <2>1, AppendFacts
  <1>5. {x \in Objects : Registered(x)}' = {x \in Objects : Registered(x)} \cup {o}
    BY <1>2, <1>4 DEF Registered
  <1>6. o \notin {x \in Objects : Registered(x)}
    OBVIOUS
  <1> QED
    BY <1>2, <1>3, <1>5, <1>6, RunningAbs DEF Promise!ObjectInit

\* do_spawn is Sync's, if the pcb it reuses has no object in its slots.
LEMMA SpawnRefines ==
    ASSUME ClearsOwnSlots \/ Swept, NEW at, At(at), NEW p \in Pcb, NEW prio \in Prios, DoSpawn(p, prio)
    PROVE  \E n \in Pcb : Promise!DoSpawn(p, n)
PROOF
  <1> DEFINE n == MinOf(Exiteds)
             d == IF ClearsOwnSlots THEN n ELSE Shell
             v == Move(at, n, Ready)
  <1>1. /\ Exiteds # {} /\ os' = Spawned(os, n, prio) /\ kont' = [kont EXCEPT ![n] = User]
        /\ locks' = [locks EXCEPT ![d] = NoSlots] /\ sems' = [sems EXCEPT ![d] = NoSlots]
        /\ UNCHANGED <<lock_status, limit>> /\ Running(p)
    BY DEF DoSpawn, Spawned, Shell
  <1>2. n \in Exiteds
    <2>1. Exiteds \in SUBSET Nat
      BY KernelAssumption DEF Exiteds, Pcb
    <2> QED  BY <1>1, <2>1, MinMember
  <1>3. n \in Pcb /\ os.status[n] = "EXITED"
    BY <1>2 DEF Exiteds
  <1> HIDE DEF n
  <1>4. PlaceOf(n) = <<"exited">>
    BY <1>3 DEF PlaceOf, Live
  <1>e. /\ locks' = [locks EXCEPT ![n] = NoSlots] /\ sems' = [sems EXCEPT ![n] = NoSlots]
    <2>1. CASE ClearsOwnSlots
      BY <1>1, <2>1
    <2>2. CASE Swept /\ ~ClearsOwnSlots
      <3>1. Shell \in Pcb /\ Where[n] = Gone
        BY <1>3, <1>4, QueueNames DEF Where, Gone
      <3>2. /\ locks[n] = NoSlots /\ sems[n] = NoSlots
            /\ locks[Shell] = NoSlots /\ sems[Shell] = NoSlots
        BY <1>3, <2>2, <3>1 DEF Swept
      <3>3. /\ locks' = [locks EXCEPT ![Shell] = NoSlots]
            /\ sems' = [sems EXCEPT ![Shell] = NoSlots]
        BY <1>1, <2>2
      <3>4. locks \in [Pcb -> [Slots -> Locks \cup {NULL}]] /\ sems \in [Pcb -> [Slots -> Sems \cup {NULL}]]
        BY DEF At, Others
      <3> HIDE DEF d
      <3> QED  BY <1>3, <3>1, <3>2, <3>3, <3>4
    <2> QED  BY <2>1, <2>2
  <1>5. at[n] = NULL
    BY <1>3, <1>4, AtFacts, AbsFacts, PlaceNow DEF At
  <1>6. /\ Steady(os', v) /\ os'.all = os.all
        /\ os'.current_running = os.current_running
    BY <1>1, <1>3, <1>5, SpawnSteady DEF At
  <1>7. Ready \in Queues \cup {NULL} /\ AbsPlace(Ready) = Ready
    BY QueueNames, AbsFacts
  <1>8. [q \in Pcb |-> PlaceOf(q)]' = Abs(v)
    BY <1>6, PlaceNext
  <1>9. Abs(v) = [Abs(at) EXCEPT ![n] = AbsPlace(Ready)]
    BY <1>3, <1>7, AtFacts, AbsMove
  <1> HIDE DEF v
  <1> DEFINE a == [q \in Pcb |-> PlaceOf(q)]
  <1>10. a' = [a EXCEPT ![n] = Promise!Ready] /\ a[n] = Promise!Nowhere
    BY <1>3, <1>4, <1>7, <1>8, <1>9, PlaceNow, PromiseNames DEF At
  <1>11. {o \in Objects : Registered(o)}' = {o \in Objects : Registered(o)}
    BY <1>6 DEF Registered
  <1>12. /\ kont' = [kont EXCEPT ![n] = Promise!User]
         /\ locks' = [locks EXCEPT ![n] = Promise!NoSlots]
         /\ sems' = [sems EXCEPT ![n] = Promise!NoSlots]
         /\ (os.current_running)' = os.current_running
         /\ Promise!Running(p) /\ UNCHANGED <<lock_status, limit>>
    BY <1>1, <1>e, <1>6, PromiseNames, RunningAbs
  <1>13. Promise!DoSpawn(p, n)
    BY <1>10, <1>11, <1>12 DEF Promise!DoSpawn, Promise!Live
  <1> QED
    BY <1>3, <1>13

\* do_barrier_wait is Sync's Arrive.
LEMMA BarrierRefines ==
    ASSUME NEW at, At(at), NEW p \in Pcb \ {Shell}, NEW b \in Barriers, Registered(b),
           DoBarrierWait(p, b)
    PROVE  Promise!Arrive(p, b)
PROOF
  <1>1. /\ os.current_running = p /\ b \in Objects /\ Promise!Running(p)
        /\ b \in {o \in Objects : Registered(o)} /\ AbsPlace(b) = Promise!On(b) /\ b \in Queues \ {Ready}
        /\ limit[b] \in Int
    BY ObjectAbs, RunningAbs DEF DoBarrierWait, At, Others
  <1>2. CASE limit[b] - 1 <= 0 /\ os' = UnblockAll(os, b) /\ UNCHANGED <<lock_status, limit, locks, sems, kont>>
    <2>1. /\ [y \in Pcb |-> PlaceOf(y)]' = Promise!Woken({Promise!On(b)})
          /\ {x \in Objects : Registered(x)}' = {x \in Objects : Registered(x)}
          /\ (os.current_running)' = os.current_running
      BY <1>1, <1>2, WakeAbs
    <2>2. limit[b] <= 1 /\ UNCHANGED <<lock_status, limit, locks, sems, kont>>
      BY <1>1, <1>2
    <2> QED  BY <1>1, <2>1, <2>2 DEF Promise!Arrive
  <1>3. CASE /\ limit[b] - 1 > 0
             /\ os' = Scheduler(Block(os, b))
             /\ limit' = [limit EXCEPT ![b] = @ - 1]
             /\ kont' = [kont EXCEPT ![p] = Leaving(b)]
             /\ UNCHANGED <<lock_status, locks, sems>>
    <2>1. /\ Promise!Switch([[y \in Pcb |-> PlaceOf(y)] EXCEPT ![p] = AbsPlace(b)])
          /\ {o \in Objects : Registered(o)}' = {o \in Objects : Registered(o)}
      BY <1>1, <1>3, BlockAbs
    <2>2. Promise!Switch([[y \in Pcb |-> PlaceOf(y)] EXCEPT ![p] = Promise!On(b)])
      BY <1>1, <2>1
    <2>3. kont' = [kont EXCEPT ![p] = Promise!Leaving(b)]
      BY <1>3, PromiseNames
    <2>4. limit[b] > 1
      BY <1>1, <1>3
    <2> QED  BY <1>1, <1>3, <2>1, <2>2, <2>3, <2>4 DEF Promise!Arrive
  <1> QED
    BY <1>2, <1>3 DEF DoBarrierWait

\* The return from a barrier is Sync's Leave.
LEMMA LeaveRefines ==
    ASSUME NEW p \in Pcb, NEW b \in Barriers, ResumeBarrier(p, b)
    PROVE  Promise!Leave(p, b)
PROOF
  <1>1. /\ limit' = [limit EXCEPT ![b] = @ + 1] /\ kont' = [kont EXCEPT ![p] = User]
        /\ UNCHANGED <<os, lock_status, locks, sems>>
        /\ os.current_running = p /\ kont[p] = Leaving(b)
    BY DEF ResumeBarrier, OnCpu
  <1>2. /\ [y \in Pcb |-> PlaceOf(y)]' = [y \in Pcb |-> PlaceOf(y)]
        /\ {o \in Objects : Registered(o)}' = {o \in Objects : Registered(o)}
        /\ (os.current_running)' = os.current_running
    BY <1>1 DEF PlaceOf, Live, Registered
  <1>3. kont' = [kont EXCEPT ![p] = Promise!User] /\ kont[p] = Promise!Leaving(b)
    BY <1>1, PromiseNames
  <1> QED
    BY <1>1, <1>2, <1>3 DEF Promise!Leave

\* At the start the shell is ready, nobody else lives and nothing is
\* initialised.
LEMMA InitRefines ==
    ASSUME Init
    PROVE  Promise!Init
PROOF
  <1> DEFINE A == <<Ready, Sleep>> \o [i \in 1..NTASK |-> Wait(i - 1)]
  <1>1. /\ \A q \in Queues : os.queue[q] = IF q = Ready THEN <<Shell>> ELSE <<>>
        /\ os.all = A
        /\ \A p \in Pcb : os.status[p] = IF p = Shell THEN "RUNNING" ELSE "EXITED"
        /\ os.current_running = Shell
    BY DEF Init
  <1>2. Shell \in Pcb /\ Ready \in Queues /\ Ready \notin Objects
    BY QueueNames, AddressAssumption
  <1>3. PlaceOf(Shell) = Ready
    <2>1. \A y : ~Contains(<<>>, y)
      BY DEF Contains
    <2>2. Contains(<<Shell>>, Shell)
      BY DEF Contains
    <2>3. \A r \in Queues : Contains(os.queue[r], Shell) <=> r = Ready
      BY <1>1, <2>1, <2>2
    <2> DEFINE q == CHOOSE r \in Queues : Contains(os.queue[r], Shell)
    <2>4. q = Ready
      BY <1>2, <2>3
    <2>5. Live(Shell)
      BY <1>1, <1>2 DEF Live
    <2>6. PlaceOf(Shell) = IF q \in Objects THEN <<"on", q>> ELSE q
      BY <2>5 DEF PlaceOf
    <2> HIDE DEF q
    <2> QED  BY <1>2, <2>4, <2>6
  <1>4. \A p \in Pcb : p # Shell => PlaceOf(p) = <<"exited">>
    BY <1>1 DEF PlaceOf, Live
  <1>5. [p \in Pcb |-> PlaceOf(p)] = [p \in Pcb |-> IF p = Shell THEN Promise!Ready ELSE Promise!Nowhere]
    BY <1>3, <1>4, PromiseNames
  <1>6. \A o \in Objects : ~Contains(A, o)
    <2>1. NTASK \in Nat /\ \A i \in 1..NTASK : i - 1 \in Pcb
      BY KernelAssumption DEF Pcb
    <2> DEFINE K == {Ready, Sleep} \cup {Wait(p) : p \in Pcb}
    <2>2. [i \in 1..NTASK |-> Wait(i - 1)] \in Seq(K) /\ <<Ready, Sleep>> \in Seq(K)
      BY <2>1
    <2>3. A \in Seq(K)
      BY <2>2
    <2>4. Objects \cap K = {}
      BY AddressAssumption
    <2> HIDE DEF A, K
    <2>5. \A i \in 1..Len(A) : A[i] \in K
      BY <2>3
    <2> QED  BY <2>4, <2>5 DEF Contains
  <1>7. {o \in Objects : Registered(o)} = {}
    BY <1>1, <1>6 DEF Registered
  <1>8. /\ os.current_running = Shell /\ kont = [p \in Pcb |-> Promise!User]
        /\ locks = [p \in Pcb |-> Promise!NoSlots] /\ sems = [p \in Pcb |-> Promise!NoSlots]
        /\ lock_status = [l \in Locks |-> "UNLOCKED"]
        /\ limit = [o \in Sems \cup Barriers |-> 0]
    BY PromiseNames DEF Init
  <1> QED
    BY <1>5, <1>7, <1>8 DEF Promise!Init

\* The first initialisation of an object is Sync's.
LEMMA ObjectInitRefines ==
    ASSUME NEW at, At(at), NEW p \in Pcb
    PROVE  /\ \A l \in Locks : ~Registered(l) /\ DoMutexLockInit(p, l) => Promise!DoMutexLockInit(p, l)
           /\ \A c \in Conds : ~Registered(c) /\ DoConditionInit(p, c) => Promise!DoConditionInit(p, c)
           /\ \A s \in Sems : \A v \in SemVals :
                 ~Registered(s) /\ DoSemaphoreInit(p, s, v) => Promise!DoSemaphoreInit(p, s, v)
           /\ \A b \in Barriers : \A g \in Goals :
                 ~Registered(b) /\ DoBarrierInit(p, b, g) => Promise!DoBarrierInit(p, b, g)
PROOF
  <1>1. ASSUME NEW l \in Locks, ~Registered(l), DoMutexLockInit(p, l)
        PROVE  Promise!DoMutexLockInit(p, l)
    BY <1>1, ObjectAbs, InitAbs DEF DoMutexLockInit, Promise!DoMutexLockInit
  <1>2. ASSUME NEW c \in Conds, ~Registered(c), DoConditionInit(p, c)
        PROVE  Promise!DoConditionInit(p, c)
    BY <1>2, ObjectAbs, InitAbs DEF DoConditionInit, Promise!DoConditionInit
  <1>3. ASSUME NEW s \in Sems, NEW v \in SemVals, ~Registered(s), DoSemaphoreInit(p, s, v)
        PROVE  Promise!DoSemaphoreInit(p, s, v)
    BY <1>3, ObjectAbs, InitAbs DEF DoSemaphoreInit, Promise!DoSemaphoreInit
  <1>4. ASSUME NEW b \in Barriers, NEW g \in Goals, ~Registered(b), DoBarrierInit(p, b, g)
        PROVE  Promise!DoBarrierInit(p, b, g)
    BY <1>4, ObjectAbs, InitAbs DEF DoBarrierInit, Promise!DoBarrierInit
  <1> QED
    BY <1>1, <1>2, <1>3, <1>4

\* A call resumed after its block is a step of Sync.
LEMMA ResumeRefines ==
    ASSUME NEW at, At(at), NEW p \in Pcb, Resume(p)
    PROVE  Promise!LockStep(p) \/ Promise!SemStep(p) \/ Promise!BarrierStep(p)
PROOF
  <1>1. ASSUME NEW l \in Locks, ResumeAcquire(p, l) PROVE Promise!Acquire(p, l)
    <2>1. os.current_running = p /\ kont[p] = Acquiring(l) /\ AcquireStep(p, l)
      BY <1>1 DEF ResumeAcquire, OnCpu
    <2>2. Registered(l) /\ p # Shell
      BY <2>1, KontFacts DEF At, Known
    <2> QED  BY <2>1, <2>2, AcquireRefines
  <1>2. ASSUME NEW s \in Sems, ResumeDown(p, s) PROVE Promise!Down(p, s)
    <2>1. os.current_running = p /\ kont[p] = Downing(s) /\ DownStep(p, s)
      BY <1>2 DEF ResumeDown, OnCpu
    <2>2. Registered(s) /\ p # Shell
      BY <2>1, KontFacts DEF At, Known
    <2> QED  BY <2>1, <2>2, DownRefines
  <1>3. ASSUME NEW b \in Barriers, ResumeBarrier(p, b) PROVE Promise!Leave(p, b)
    BY <1>3, LeaveRefines
  <1> QED
    BY <1>1, <1>2, <1>3 DEF Resume, Promise!LockStep, Promise!SemStep, Promise!BarrierStep

\* One call of a task is one step of Sync, or a signal nobody waited for.
LEMMA TaskRefines ==
    ASSUME NEW at, At(at), NEW p \in Pcb \ {Shell}, GoodTaskCalls(p)
    PROVE  \/ Promise!ProcStep(p) \/ Promise!LockStep(p) \/ Promise!CondStep(p)
           \/ Promise!SemStep(p) \/ Promise!BarrierStep(p)
           \/ UNCHANGED Promise!vars
PROOF
  <1>1. CASE GoodLockCalls(p)
    <2>1. ASSUME NEW l \in Locks, Registered(l), DoMutexLockAcquire(p, l)
          PROVE  Promise!Acquire(p, l)
      <3>1. os.current_running = p /\ kont[p] \in {User, Acquiring(l)} /\ AcquireStep(p, l)
        BY <2>1 DEF DoMutexLockAcquire, Running, OnCpu
      <3> QED  BY <2>1, <3>1, AcquireRefines
    <2>2. ASSUME NEW l \in Locks, Holds(p, l), DoMutexLockRelease(p, l)
          PROVE  Promise!DoMutexLockRelease(p, l)
      BY <2>2, ReleaseRefines
    <2>3. ASSUME NEW l \in Locks, NEW c \in Conds, Holds(p, l), DoConditionWait(p, l, c)
          PROVE  Promise!DoConditionWait(p, l, c)
      BY <2>3, CondWaitRefines
    <2>4. \A l \in Locks : ~Registered(l) /\ DoMutexLockInit(p, l) => Promise!DoMutexLockInit(p, l)
      BY ObjectInitRefines
    <2> QED  BY <1>1, <2>1, <2>2, <2>3, <2>4 DEF GoodLockCalls, Promise!LockStep
  <1>2. CASE GoodCondCalls(p)
    <2>1. ASSUME NEW c \in Conds, DoConditionSignal(p, c)
          PROVE  Promise!DoConditionSignal(p, c) \/ UNCHANGED Promise!vars
      BY <2>1, SignalRefines
    <2>2. ASSUME NEW c \in Conds, DoConditionBroadcast(p, c)
          PROVE  Promise!DoConditionBroadcast(p, c)
      BY <2>2, BroadcastRefines
    <2>3. \A c \in Conds : ~Registered(c) /\ DoConditionInit(p, c) => Promise!DoConditionInit(p, c)
      BY ObjectInitRefines
    <2> QED  BY <1>2, <2>1, <2>2, <2>3 DEF GoodCondCalls, Promise!CondStep
  <1>3. CASE GoodSemCalls(p)
    <2>1. ASSUME NEW s \in Sems, Registered(s), DoSemaphoreDown(p, s)
          PROVE  Promise!Down(p, s)
      <3>1. os.current_running = p /\ kont[p] \in {User, Downing(s)} /\ DownStep(p, s)
        BY <2>1 DEF DoSemaphoreDown, Running, OnCpu
      <3> QED  BY <2>1, <3>1, DownRefines
    <2>2. ASSUME NEW s \in Sems, Holds(p, s), DoSemaphoreUp(p, s)
          PROVE  Promise!DoSemaphoreUp(p, s)
      BY <2>2, UpRefines
    <2>3. \A s \in Sems : \A v \in SemVals :
              ~Registered(s) /\ DoSemaphoreInit(p, s, v) => Promise!DoSemaphoreInit(p, s, v)
      BY ObjectInitRefines
    <2> QED  BY <1>3, <2>1, <2>2, <2>3 DEF GoodSemCalls, Promise!SemStep
  <1>4. CASE GoodBarrierCalls(p)
    <2>1. ASSUME NEW b \in Barriers, Registered(b), DoBarrierWait(p, b)
          PROVE  Promise!Arrive(p, b)
      BY <2>1, BarrierRefines
    <2>2. \A b \in Barriers : \A g \in Goals :
              ~Registered(b) /\ DoBarrierInit(p, b, g) => Promise!DoBarrierInit(p, b, g)
      BY ObjectInitRefines
    <2> QED  BY <1>4, <2>1, <2>2 DEF GoodBarrierCalls, Promise!BarrierStep
  <1>5. CASE GoodExit(p)
    <2>1. os.current_running = p /\ Running(p) /\ DoExit(p)
      BY <1>5 DEF GoodExit, SysExit, Running, OnCpu
    <2>2. Promise!DoExit(p)
      BY <2>1, ExitRefines, RunningAbs DEF Promise!DoExit
    <2> QED  BY <2>2 DEF Promise!ProcStep
  <1>6. CASE \E t \in SleepTimes : DoSleep(p, t)
    BY <1>6, SleepRefines DEF Promise!ProcStep
  <1>7. CASE \E t \in Pcb : DoWait(p, t)
    BY <1>7, WaitRefines DEF Promise!ProcStep
  <1> QED
    BY <1>1, <1>2, <1>3, <1>4, <1>5, <1>6, <1>7 DEF GoodTaskCalls

\* Every step of the kernel is a step of Sync or a stutter.
LEMMA NextRefines ==
    ASSUME ClearsOwnSlots \/ Swept, KInv, [GoodNext]_vars
    PROVE  [Promise!Next]_(Promise!vars)
PROOF
  <1>1. PICK at \in [Pcb -> Queues \cup {NULL}] : At(at)
    BY DEF KInv
  <1>2. CASE GoodNext
    <2>1. PICK p \in Pcb : \/ Tick(p)
                           \/ Resume(p)
                           \/ p = Shell /\ \E prio \in Prios : DoSpawn(p, prio)
                           \/ p # Shell /\ GoodTaskCalls(p)
      BY <1>2 DEF GoodNext
    <2>2. CASE Tick(p)
      BY <1>1, <2>2, TickRefines DEF Promise!ProcStep, Promise!Next
    <2>3. CASE Resume(p)
      BY <1>1, <2>3, ResumeRefines DEF Promise!Next
    <2>4. CASE \E prio \in Prios : DoSpawn(p, prio)
      BY <1>1, <2>4, SpawnRefines DEF Promise!ProcStep, Promise!Next
    <2>5. CASE p # Shell /\ GoodTaskCalls(p)
      BY <1>1, <2>5, TaskRefines DEF Promise!Next
    <2> QED  BY <2>1, <2>2, <2>3, <2>4, <2>5
  <1>3. CASE UNCHANGED vars
    BY <1>3, StutterAbs
  <1> QED
    BY <1>2, <1>3

\* The objects a process waits for in a call (a barrier is left by Leave).
Away  == Locks \cup Conds \cup Sems

\* What the places say of queues, slots and objects.
PlaceFacts ==
    /\ Others /\ os.current_running \in Pcb
    /\ Where[os.current_running] = Ready
    /\ \A y \in Pcb : Where[y] = Gone <=> ~Live(y)
    /\ \A y \in Pcb : \A o \in Objects : Where[y] = <<"on", o>> <=> Contains(os.queue[o], y)
    /\ \A y \in Pcb : \A i \in Slots : locks[y][i] # NULL => Registered(locks[y][i])
    /\ kont[Shell] = User

\* The invariant gives them.
LEMMA InvPlaces == KInv => PlaceFacts
PROOF
  <1> SUFFICES ASSUME NEW at, At(at) PROVE PlaceFacts
    BY DEF KInv
  <1>1. \A y \in Pcb : Where[y] = AbsPlace(at[y])
    BY PlaceNow DEF At, Where
  <1>2. Others /\ os.current_running \in Pcb /\ at[os.current_running] = Ready
    BY AtFacts
  <1>3. Where[os.current_running] = Ready
    BY <1>1, <1>2, QueueNames, AbsFacts
  <1>4. ASSUME NEW y \in Pcb PROVE Where[y] = Gone <=> ~Live(y)
    <2>1. at[y] \in Queues \cup {NULL} /\ (os.status[y] = "EXITED" <=> at[y] = NULL)
      BY AtFacts
    <2> QED  BY <1>1, <2>1, AbsFacts DEF Gone, Live
  <1>5. ASSUME NEW y \in Pcb, NEW o \in Objects
        PROVE Where[y] = <<"on", o>> <=> Contains(os.queue[o], y)
    <2>1. at[y] \in Queues \cup {NULL} /\ o \in Queues
      BY AtFacts, QueueNames
    <2>2. Contains(os.queue[o], y) <=> at[y] = o
      BY <2>1 DEF At, Steady, Base, Placed
    <2> QED  BY <1>1, <2>1, <2>2, AbsFacts
  <1> QED
    BY <1>2, <1>3, <1>4, <1>5 DEF PlaceFacts, At, Known

\* The places have different names.
LEMMA PlaceNames ==
    /\ Ready # Gone /\ Sleep # Gone /\ Sleep # Ready
    /\ \A x, y : Wait(x) # Gone /\ <<"on", x>> # Gone /\ Ready # <<"on", x>> /\ Sleep # <<"on", x>>
                 /\ Wait(x) # <<"on", y>> /\ (<<"on", x>> = <<"on", y>> => x = y)
    /\ \A x : Gone # <<"on", x>>
  BY DEF Ready, Sleep, Wait, Gone

\* What a step does to everyone but the process c on the CPU.
Rest(c) == \A y \in Pcb \ {c} :
    /\ locks'[y] = locks[y] /\ sems'[y] = sems[y] /\ kont'[y] = kont[y]
    /\ Where'[y] = Where[y] \/ (Where'[y] = Ready /\ Where[y] # Gone)

\* What it does to the mutexes.
Quiet == UNCHANGED <<locks, lock_status>>
\* The step takes a free mutex into an empty slot of c,
Takes(c) == \E l \in Locks : \E i \in Slots :
    /\ lock_status[l] = "UNLOCKED"
    /\ locks[c][i] = NULL /\ locks' = [locks EXCEPT ![c][i] = l]
    /\ lock_status' = [lock_status EXCEPT ![l] = "LOCKED"]

\* or gives one back from a slot of c,
Drops(c) == \E l \in Locks : \E i \in Slots :
    /\ locks[c][i] = l /\ locks' = [locks EXCEPT ![c][i] = NULL]
    /\ lock_status' = [lock_status EXCEPT ![l] = "UNLOCKED"]

\* or initialises one for the first time.
Founds == \E l \in Locks :
    ~Registered(l) /\ UNCHANGED locks /\ lock_status' = [lock_status EXCEPT ![l] = "UNLOCKED"]

\* Where it leaves the process on the CPU.
Lines(c) ==
    \/ \A o \in Away : Where'[c] # <<"on", o>>
    \/ \E l \in Locks : Where'[c] = <<"on", l>> /\ kont'[c] = Acquiring(l)
    \/ \E s \in Sems : Where'[c] = <<"on", s>> /\ kont'[c] = Downing(s)
    \/ \E d \in Conds : \E l \in Locks : \E i \in Slots :
          /\ Where'[c] = <<"on", d>> /\ kont'[c] = Acquiring(l)
          /\ locks[c][i] = l /\ locks' = [locks EXCEPT ![c][i] = NULL]

\* The step makes a process of the free pcb n, its slots empty.
Joins(c) == \E n \in Pcb \ {c} :
    /\ Where[n] = Gone /\ Where' = [Where EXCEPT ![n] = Ready]
    /\ locks' = [locks EXCEPT ![n] = NoSlots] /\ sems' = [sems EXCEPT ![n] = NoSlots]
    /\ kont' = [kont EXCEPT ![n] = User] /\ UNCHANGED lock_status

\* The step ends c and unlocks every mutex in its slots.
Quits(c) ==
    /\ Rest(c) /\ Where'[c] = Gone /\ UNCHANGED <<locks, sems>> /\ kont'[c] = Exited
    /\ \A l \in Locks : lock_status'[l] =
          IF \E i \in Slots : locks[c][i] = l THEN "UNLOCKED" ELSE lock_status[l]

\* The step is a call of c, which moves or wakes processes and handles at most
\* one mutex.
Calls(c) ==
    Rest(c) /\ Where'[c] # Gone /\ Lines(c) /\ (Quiet \/ Takes(c) \/ Drops(c) \/ Founds)

\* Every step of Sync has one of these three shapes.
Step(c) == Joins(c) \/ Quits(c) \/ Calls(c)

\* A switch leaves everybody where the call put it, or awake.
LEMMA SwitchShape ==
    ASSUME NEW place, Promise!Switch(place)
    PROVE  \A y \in Pcb : Where'[y] = place[y] \/ (place[y] = Sleep /\ Where'[y] = Ready)
  BY PromiseNames DEF Promise!Switch, Where

\* The places after a wake-up, one by one.
LEMMA WokenShape ==
    ASSUME NEW S
    PROVE  /\ DOMAIN Promise!Woken(S) = Pcb
           /\ \A y \in Pcb : Promise!Woken(S)[y] = IF Where[y] \in S THEN Ready ELSE Where[y]
  BY PromiseNames DEF Promise!Woken, Where

\* The CPU is given up by a process that goes to place x.
LEMMA LeaveShape ==
    ASSUME PlaceFacts, NEW c \in Pcb, NEW x, x # Gone,
           Promise!Switch([Where EXCEPT ![c] = x]), UNCHANGED <<locks, sems>>,
           \A y \in Pcb \ {c} : kont'[y] = kont[y]
    PROVE  Rest(c) /\ Where'[c] \in {x, Ready} /\ Where'[c] # Gone
PROOF
  <1> DEFINE place == [Where EXCEPT ![c] = x]
  <1>1. \A y \in Pcb : place[y] = IF y = c THEN x ELSE Where[y]
    BY DEF Where
  <1>2. \A y \in Pcb : Where'[y] = place[y] \/ (place[y] = Sleep /\ Where'[y] = Ready)
    <2>1. Promise!Switch(place)
      OBVIOUS
    <2> HIDE DEF place
    <2> QED  BY <2>1, SwitchShape
  <1> HIDE DEF place
  <1> QED
    BY <1>1, <1>2, PlaceNames DEF Rest

\* An exit has the shape Quits.
LEMMA ExitShape ==
    ASSUME PlaceFacts, NEW c \in Pcb, Promise!Exit(c)
    PROVE  Quits(c)
PROOF
  <1> DEFINE wok == Promise!Woken(Promise!Given(c))
             place == [wok EXCEPT ![c] = Promise!Nowhere]
  <1>1. /\ Promise!Switch(place) /\ UNCHANGED <<locks, sems>>
        /\ kont' = [kont EXCEPT ![c] = Promise!Exited]
        /\ lock_status' = [l \in Locks |-> IF Promise!Has(c, l) THEN "UNLOCKED" ELSE lock_status[l]]
    BY DEF Promise!Exit
  <1>2. DOMAIN wok = Pcb /\ \A y \in Pcb : wok[y] = IF Where[y] \in Promise!Given(c) THEN Ready ELSE Where[y]
    BY WokenShape
  <1>3. \A x : x \in Promise!Given(c) => x # Gone
    BY PromiseNames, PlaceNames DEF Promise!Given
  <1> HIDE DEF wok
  <1>4. /\ place[c] = Gone
        /\ \A y \in Pcb \ {c} : place[y] = wok[y]
    BY <1>2, PromiseNames DEF Gone
  <1> HIDE DEF place
  <1>5. \A y \in Pcb : Where'[y] = place[y] \/ (place[y] = Sleep /\ Where'[y] = Ready)
    BY <1>1, SwitchShape
  <1>6. Where'[c] = Gone
    BY <1>4, <1>5, PlaceNames
  <1>7. \A y \in Pcb \ {c} : Where'[y] = Where[y] \/ (Where'[y] = Ready /\ Where[y] # Gone)
    BY <1>2, <1>3, <1>4, <1>5, PlaceNames
  <1>8. kont \in [Pcb -> Konts] /\ lock_status \in [Locks -> {"LOCKED", "UNLOCKED"}]
    BY DEF PlaceFacts, Others
  <1>9. kont'[c] = Exited /\ \A y \in Pcb \ {c} : kont'[y] = kont[y]
    BY <1>1, <1>8, PromiseNames
  <1>10. \A l \in Locks : lock_status'[l] =
            IF \E i \in Slots : locks[c][i] = l THEN "UNLOCKED" ELSE lock_status[l]
    BY <1>1, PromiseNames DEF Promise!Has
  <1>11. Rest(c)
    BY <1>1, <1>7, <1>9 DEF Rest
  <1> QED
    BY <1>1, <1>6, <1>9, <1>10, <1>11 DEF Quits

\* The process on the CPU goes on after a wake-up of S.
LEMMA StayShape ==
    ASSUME PlaceFacts, NEW c \in Pcb, Where[c] = Ready, NEW S, Gone \notin S,
           Where' = Where \/ Where' = Promise!Woken(S),
           \A y \in Pcb \ {c} : locks'[y] = locks[y] /\ sems'[y] = sems[y] /\ kont'[y] = kont[y]
    PROVE  Rest(c) /\ Where'[c] # Gone /\ Lines(c)
PROOF
  <1>1. \A y \in Pcb : Promise!Woken(S)[y] = IF Where[y] \in S THEN Ready ELSE Where[y]
    BY WokenShape
  <1>2. \A y \in Pcb : Where'[y] = Where[y] \/ (Where'[y] = Ready /\ Where[y] # Gone)
    BY <1>1
  <1>3. Where'[c] = Ready
    BY <1>2
  <1> QED
    BY <1>2, <1>3, PlaceNames DEF Rest, Lines

\* An acquire has one of the shapes.
LEMMA AcquireShape ==
    ASSUME PlaceFacts, NEW c \in Pcb, Where[c] = Ready, NEW l \in Locks, Promise!Acquire(c, l)
    PROVE  Step(c)
PROOF
  <1>0. /\ kont \in [Pcb -> Konts] /\ locks \in [Pcb -> [Slots -> Locks \cup {NULL}]]
    BY DEF PlaceFacts, Others
  <1>1. CASE /\ Promise!Switch([Where EXCEPT ![c] = Promise!On(l)])
             /\ kont' = [kont EXCEPT ![c] = Promise!Acquiring(l)]
             /\ UNCHANGED <<lock_status, locks, sems>>
    <2>1. /\ <<"on", l>> # Gone /\ Promise!Switch([Where EXCEPT ![c] = <<"on", l>>])
          /\ \A y \in Pcb \ {c} : kont'[y] = kont[y]
          /\ kont'[c] = Acquiring(l)
      BY <1>0, <1>1, PromiseNames, PlaceNames
    <2>2. Rest(c) /\ Where'[c] \in {<<"on", l>>, Ready} /\ Where'[c] # Gone
      BY <1>1, <2>1, LeaveShape
    <2>3. Lines(c)
      BY <2>1, <2>2, PlaceNames DEF Lines
    <2> QED  BY <1>1, <2>2, <2>3 DEF Step, Calls, Quiet
  <1>2. CASE /\ lock_status[l] = "UNLOCKED"
             /\ \E i \in Promise!Slots : locks[c][i] = NULL /\ locks' = [locks EXCEPT ![c][i] = l]
             /\ lock_status' = [lock_status EXCEPT ![l] = "LOCKED"]
             /\ kont' = [kont EXCEPT ![c] = Promise!User]
             /\ Where' = Where /\ UNCHANGED sems
    <2>1. PICK i \in Slots : locks[c][i] = NULL /\ locks' = [locks EXCEPT ![c][i] = l]
      BY <1>2, PromiseNames
    <2>2. \A y \in Pcb \ {c} : locks'[y] = locks[y] /\ sems'[y] = sems[y] /\ kont'[y] = kont[y]
      BY <1>0, <1>2, <2>1
    <2>3. Gone \notin {} /\ (Where' = Where \/ Where' = Promise!Woken({}))
      BY <1>2
    <2>4. Rest(c) /\ Where'[c] # Gone /\ Lines(c)
      BY <2>2, <2>3, StayShape
    <2>5. Takes(c)
      BY <1>2, <2>1 DEF Takes
    <2> QED  BY <2>4, <2>5 DEF Step, Calls
  <1>3. CASE Promise!Exit(c)
    BY <1>3, ExitShape DEF Step
  <1> QED
    BY <1>1, <1>2, <1>3 DEF Promise!Acquire, Where

\* A semaphore down has one of the shapes.
LEMMA DownShape ==
    ASSUME PlaceFacts, NEW c \in Pcb, Where[c] = Ready, NEW s \in Sems, Promise!Down(c, s)
    PROVE  Step(c)
PROOF
  <1>0. /\ kont \in [Pcb -> Konts] /\ sems \in [Pcb -> [Slots -> Sems \cup {NULL}]]
    BY DEF PlaceFacts, Others
  <1>1. CASE /\ Promise!Switch([Where EXCEPT ![c] = Promise!On(s)])
             /\ kont' = [kont EXCEPT ![c] = Promise!Downing(s)]
             /\ UNCHANGED <<lock_status, locks, sems>>
    <2>1. /\ <<"on", s>> # Gone /\ Promise!Switch([Where EXCEPT ![c] = <<"on", s>>])
          /\ \A y \in Pcb \ {c} : kont'[y] = kont[y]
          /\ kont'[c] = Downing(s)
      BY <1>0, <1>1, PromiseNames, PlaceNames
    <2>2. Rest(c) /\ Where'[c] \in {<<"on", s>>, Ready} /\ Where'[c] # Gone
      BY <1>1, <2>1, LeaveShape
    <2>3. Lines(c)
      BY <2>1, <2>2, PlaceNames DEF Lines
    <2> QED  BY <1>1, <2>2, <2>3 DEF Step, Calls, Quiet
  <1>2. CASE /\ \E i \in Promise!Slots : sems' = [sems EXCEPT ![c][i] = s]
             /\ kont' = [kont EXCEPT ![c] = Promise!User]
             /\ Where' = Where /\ UNCHANGED <<lock_status, locks>>
    <2>1. PICK i \in Slots : sems' = [sems EXCEPT ![c][i] = s]
      BY <1>2, PromiseNames
    <2>2. \A y \in Pcb \ {c} : locks'[y] = locks[y] /\ sems'[y] = sems[y] /\ kont'[y] = kont[y]
      BY <1>0, <1>2, <2>1
    <2>3. Gone \notin {} /\ (Where' = Where \/ Where' = Promise!Woken({}))
      BY <1>2
    <2>4. Rest(c) /\ Where'[c] # Gone /\ Lines(c)
      BY <2>2, <2>3, StayShape
    <2> QED  BY <1>2, <2>4 DEF Step, Calls, Quiet
  <1>3. CASE Promise!Exit(c)
    BY <1>3, ExitShape DEF Step
  <1> QED
    BY <1>1, <1>2, <1>3 DEF Promise!Down, Where

\* Unlocking gives one mutex back from one slot of the caller.
LEMMA UnlockShape ==
    ASSUME PlaceFacts, NEW c \in Pcb, NEW l \in Locks, Promise!Unlock(c, l)
    PROVE  /\ Drops(c) /\ \A y \in Pcb \ {c} : locks'[y] = locks[y]
           /\ \E i \in Slots : locks[c][i] = l /\ locks' = [locks EXCEPT ![c][i] = NULL]
PROOF
  <1>0. locks \in [Pcb -> [Slots -> Locks \cup {NULL}]]
    BY DEF PlaceFacts, Others
  <1>1. PICK i \in Slots : locks[c][i] = l /\ locks' = [locks EXCEPT ![c][i] = NULL]
    BY PromiseNames DEF Promise!Unlock
  <1>2. lock_status' = [lock_status EXCEPT ![l] = "UNLOCKED"]
    BY DEF Promise!Unlock
  <1> QED
    BY <1>0, <1>1, <1>2 DEF Drops

\* A release has one of the shapes.
LEMMA ReleaseShape ==
    ASSUME PlaceFacts, NEW c \in Pcb, Where[c] = Ready, NEW l \in Locks, Promise!DoMutexLockRelease(c, l)
    PROVE  Step(c)
PROOF
  <1>1. /\ Promise!Unlock(c, l) /\ UNCHANGED <<kont, sems>>
        /\ Where' = Promise!Woken({Promise!On(l)})
    BY DEF Promise!DoMutexLockRelease, Where
  <1>2. Drops(c) /\ \A y \in Pcb \ {c} : locks'[y] = locks[y]
    BY <1>1, UnlockShape
  <1>3. Gone \notin {Promise!On(l)}
    BY PromiseNames, PlaceNames
  <1>4. Rest(c) /\ Where'[c] # Gone /\ Lines(c)
    BY <1>1, <1>2, <1>3, StayShape
  <1> QED
    BY <1>2, <1>4 DEF Step, Calls

\* A condition wait has one of the shapes.
LEMMA CondWaitShape ==
    ASSUME PlaceFacts, NEW c \in Pcb, Where[c] = Ready, NEW l \in Locks, NEW d \in Conds,
           Promise!DoConditionWait(c, l, d)
    PROVE  Step(c)
PROOF
  <1> DEFINE wok == Promise!Woken({Promise!On(l)})
             place == [wok EXCEPT ![c] = Promise!On(d)]
  <1>1. /\ Promise!Unlock(c, l) /\ UNCHANGED sems /\ Promise!Switch(place)
        /\ kont' = [kont EXCEPT ![c] = Promise!Acquiring(l)]
    BY DEF Promise!DoConditionWait
  <1>2. /\ DOMAIN wok = Pcb
        /\ \A y \in Pcb : wok[y] = IF Where[y] \in {Promise!On(l)} THEN Ready ELSE Where[y]
    BY WokenShape
  <1>3. Gone # Promise!On(l)
    BY PromiseNames, PlaceNames
  <1> HIDE DEF wok
  <1>4. place[c] = <<"on", d>> /\ \A y \in Pcb \ {c} : place[y] = wok[y]
    BY <1>2, PromiseNames
  <1> HIDE DEF place
  <1>5. \A y \in Pcb : Where'[y] = place[y] \/ (place[y] = Sleep /\ Where'[y] = Ready)
    BY <1>1, SwitchShape
  <1>6. Where'[c] = <<"on", d>> /\ Where'[c] # Gone
    BY <1>4, <1>5, PlaceNames
  <1>7. \A y \in Pcb \ {c} : Where'[y] = Where[y] \/ (Where'[y] = Ready /\ Where[y] # Gone)
    BY <1>2, <1>3, <1>4, <1>5, PlaceNames
  <1>8. kont \in [Pcb -> Konts]
    BY DEF PlaceFacts, Others
  <1>9. kont'[c] = Acquiring(l) /\ \A y \in Pcb \ {c} : kont'[y] = kont[y]
    BY <1>1, <1>8, PromiseNames
  <1>10. /\ Drops(c) /\ \A y \in Pcb \ {c} : locks'[y] = locks[y]
         /\ \E i \in Slots : locks[c][i] = l /\ locks' = [locks EXCEPT ![c][i] = NULL]
    BY <1>1, UnlockShape
  <1>11. Rest(c)
    BY <1>1, <1>7, <1>9, <1>10 DEF Rest
  <1>12. Lines(c)
    BY <1>6, <1>9, <1>10 DEF Lines
  <1> QED
    BY <1>6, <1>10, <1>11, <1>12 DEF Step, Calls

\* The process on the CPU goes to a place that is no object's, or to a barrier.
LEMMA GoShape ==
    ASSUME PlaceFacts, NEW c \in Pcb, NEW x, x # Gone, \A o \in Away : x # <<"on", o>>,
           Promise!Switch([Where EXCEPT ![c] = x]), UNCHANGED <<locks, sems, lock_status>>,
           \A y \in Pcb \ {c} : kont'[y] = kont[y]
    PROVE  Step(c)
PROOF
  <1>1. Rest(c) /\ Where'[c] \in {x, Ready} /\ Where'[c] # Gone
    BY LeaveShape
  <1>2. Lines(c)
    BY <1>1, PlaceNames DEF Lines
  <1> QED
    BY <1>1, <1>2 DEF Step, Calls, Quiet

\* A process call has one of the shapes.
LEMMA ProcShape ==
    ASSUME PlaceFacts, NEW c \in Pcb, Where[c] = Ready, Promise!ProcStep(c)
    PROVE  Step(c)
PROOF
  <1>0. /\ kont \in [Pcb -> Konts] /\ Where = [y \in Pcb |-> PlaceOf(y)]
        /\ Where' = [y \in Pcb |-> PlaceOf(y)]'
    BY DEF PlaceFacts, Others, Where
  <1>1. CASE Promise!Preempt(c)
    <2>1. Promise!Switch(Where) /\ UNCHANGED <<locks, sems, lock_status, kont>>
      BY <1>1 DEF Promise!Preempt, Where
    <2>2. [Where EXCEPT ![c] = Ready] = Where
      BY DEF Where
    <2>3. Ready # Gone /\ \A o \in Away : Ready # <<"on", o>>
      BY PlaceNames
    <2> QED  BY <2>1, <2>2, <2>3, GoShape
  <1>2. CASE Promise!DoSleep(c)
    <2>1. Promise!Switch([Where EXCEPT ![c] = Sleep]) /\ UNCHANGED <<locks, sems, lock_status, kont>>
      BY <1>2, PromiseNames DEF Promise!DoSleep, Where
    <2>2. Sleep # Gone /\ \A o \in Away : Sleep # <<"on", o>>
      BY PlaceNames
    <2> QED  BY <2>1, <2>2, GoShape
  <1>3. ASSUME NEW t \in Pcb, Promise!DoWait(c, t) PROVE Step(c)
    <2>1. Promise!Switch([Where EXCEPT ![c] = Wait(t)]) /\ UNCHANGED <<locks, sems, lock_status, kont>>
      BY <1>3, PromiseNames DEF Promise!DoWait, Where
    <2>2. Wait(t) # Gone /\ \A o \in Away : Wait(t) # <<"on", o>>
      BY PlaceNames
    <2> QED  BY <2>1, <2>2, GoShape
  <1>4. ASSUME NEW n \in Pcb, Promise!DoSpawn(c, n) PROVE Step(c)
    <2>1. /\ Where[n] = Gone /\ Where' = [Where EXCEPT ![n] = Ready]
          /\ locks' = [locks EXCEPT ![n] = NoSlots] /\ sems' = [sems EXCEPT ![n] = NoSlots]
          /\ kont' = [kont EXCEPT ![n] = User] /\ UNCHANGED lock_status
      BY <1>4, PromiseNames DEF Promise!DoSpawn, Promise!Live, Where, Gone
    <2> QED  BY <2>1, PlaceNames DEF Step, Joins
  <1>5. CASE Promise!DoExit(c)
    BY <1>5, ExitShape DEF Promise!DoExit, Step
  <1> QED
    BY <1>1, <1>2, <1>3, <1>4, <1>5 DEF Promise!ProcStep

\* A call that leaves the CPU and the mutexes alone.
LEMMA QuietShape ==
    ASSUME PlaceFacts, NEW c \in Pcb, Where[c] = Ready, NEW S, Gone \notin S,
           Where' = Where \/ Where' = Promise!Woken(S), UNCHANGED <<locks, lock_status>>,
           \A y \in Pcb \ {c} : sems'[y] = sems[y] /\ kont'[y] = kont[y]
    PROVE  Step(c)
PROOF
  <1>1. Rest(c) /\ Where'[c] # Gone /\ Lines(c)
    BY StayShape
  <1> QED
    BY <1>1 DEF Step, Calls, Quiet

\* A step that moves nobody and handles no mutex has one of the shapes.
LEMMA StillShape ==
    ASSUME PlaceFacts, NEW c \in Pcb, Where[c] = Ready,
           UNCHANGED <<Where, locks, lock_status>>,
           \A y \in Pcb \ {c} : sems'[y] = sems[y] /\ kont'[y] = kont[y]
    PROVE  Step(c)
PROOF
  <1>1. Rest(c)
    BY DEF Rest
  <1>2. Where'[c] # Gone /\ Lines(c)
    BY PlaceNames DEF Lines
  <1> QED
    BY <1>1, <1>2 DEF Step, Calls, Quiet

\* An initialisation has one of the shapes.
LEMMA InitShape ==
    ASSUME PlaceFacts, NEW c \in Pcb, Where[c] = Ready
    PROVE  /\ \A l \in Locks : Promise!DoMutexLockInit(c, l) => Step(c)
           /\ \A d \in Conds : Promise!DoConditionInit(c, d) => Step(c)
           /\ \A s \in Sems : \A v \in SemVals : Promise!DoSemaphoreInit(c, s, v) => Step(c)
           /\ \A b \in Barriers : \A g \in Goals : Promise!DoBarrierInit(c, b, g) => Step(c)
PROOF
  <1>1. ASSUME NEW l \in Locks, Promise!DoMutexLockInit(c, l) PROVE Step(c)
    <2>1. /\ Where' = Where /\ UNCHANGED <<locks, sems, kont>> /\ ~Registered(l)
          /\ lock_status' = [lock_status EXCEPT ![l] = "UNLOCKED"]
      BY <1>1 DEF Promise!DoMutexLockInit, Promise!ObjectInit, Where, Objects
    <2>2. Gone \notin {} /\ (Where' = Where \/ Where' = Promise!Woken({}))
      BY <2>1
    <2>3. \A y \in Pcb \ {c} : locks'[y] = locks[y] /\ sems'[y] = sems[y] /\ kont'[y] = kont[y]
      BY <2>1
    <2>4. Rest(c) /\ Where'[c] # Gone /\ Lines(c)
      BY <2>2, <2>3, StayShape
    <2> QED  BY <2>1, <2>4 DEF Step, Calls, Founds
  <1>q. ASSUME Where' = Where, UNCHANGED <<locks, sems, kont, lock_status>> PROVE Step(c)
    <2>1. UNCHANGED <<Where, locks, lock_status>>
      BY <1>q
    <2>2. \A y \in Pcb \ {c} : sems'[y] = sems[y] /\ kont'[y] = kont[y]
      BY <1>q
    <2> QED  BY <2>1, <2>2, StillShape
  <1>2. ASSUME NEW d \in Conds, Promise!DoConditionInit(c, d) PROVE Step(c)
    BY <1>2, <1>q DEF Promise!DoConditionInit, Where
  <1>3. ASSUME NEW s \in Sems, NEW v \in SemVals, Promise!DoSemaphoreInit(c, s, v) PROVE Step(c)
    BY <1>3, <1>q DEF Promise!DoSemaphoreInit, Where
  <1>4. ASSUME NEW b \in Barriers, NEW g \in Goals, Promise!DoBarrierInit(c, b, g) PROVE Step(c)
    BY <1>4, <1>q DEF Promise!DoBarrierInit, Where
  <1> QED
    BY <1>1, <1>2, <1>3, <1>4

\* A signal or a broadcast has one of the shapes.
LEMMA CondShape ==
    ASSUME PlaceFacts, NEW c \in Pcb, Where[c] = Ready, NEW d \in Conds,
           Promise!DoConditionSignal(c, d) \/ Promise!DoConditionBroadcast(c, d)
    PROVE  Step(c)
PROOF
  <1>1. CASE Promise!DoConditionSignal(c, d)
    <2>1. PICK q \in Pcb : Where[q] = <<"on", d>> /\ Where' = [Where EXCEPT ![q] = Ready]
      BY <1>1, PromiseNames DEF Promise!DoConditionSignal, Where
    <2>2. UNCHANGED <<lock_status, locks, sems, kont>>
      BY <1>1 DEF Promise!DoConditionSignal
    <2>3. \A y \in Pcb : Where'[y] = Where[y] \/ (Where'[y] = Ready /\ Where[y] # Gone)
      BY <2>1, PlaceNames DEF Where
    <2>4. Where'[c] = Ready
      BY <2>3
    <2> QED  BY <2>2, <2>3, <2>4, PlaceNames DEF Step, Calls, Rest, Lines, Quiet
  <1>2. CASE Promise!DoConditionBroadcast(c, d)
    <2>1. Where' = Promise!Woken({Promise!On(d)}) /\ UNCHANGED <<lock_status, locks, sems, kont>>
      BY <1>2 DEF Promise!DoConditionBroadcast, Where
    <2>2. Gone \notin {Promise!On(d)}
      BY PromiseNames, PlaceNames
    <2> QED  BY <2>1, <2>2, QuietShape
  <1> QED
    BY <1>1, <1>2

\* A semaphore up has one of the shapes.
LEMMA UpShape ==
    ASSUME PlaceFacts, NEW c \in Pcb, Where[c] = Ready, NEW s \in Sems, Promise!DoSemaphoreUp(c, s)
    PROVE  Step(c)
PROOF
  <1>1. /\ Where' = Promise!Woken({Promise!On(s)}) /\ UNCHANGED <<lock_status, locks, kont>>
        /\ \E i \in Slots : sems' = [sems EXCEPT ![c][i] = NULL]
    BY PromiseNames DEF Promise!DoSemaphoreUp, Where
  <1>2. \A y \in Pcb \ {c} : sems'[y] = sems[y] /\ kont'[y] = kont[y]
    BY <1>1 DEF PlaceFacts, Others
  <1>3. Gone \notin {Promise!On(s)}
    BY PromiseNames, PlaceNames
  <1> QED
    BY <1>1, <1>2, <1>3, QuietShape

\* A barrier step has one of the shapes.
LEMMA BarrierShape ==
    ASSUME PlaceFacts, NEW c \in Pcb, Where[c] = Ready, NEW b \in Barriers,
           Promise!Arrive(c, b) \/ Promise!Leave(c, b)
    PROVE  Step(c)
PROOF
  <1>0. kont \in [Pcb -> Konts]
    BY DEF PlaceFacts, Others
  <1>1. CASE Where' = Promise!Woken({Promise!On(b)}) /\ UNCHANGED <<lock_status, locks, sems, kont>>
    <2>1. Gone \notin {Promise!On(b)}
      BY PromiseNames, PlaceNames
    <2>2. \A y \in Pcb \ {c} : sems'[y] = sems[y] /\ kont'[y] = kont[y]
      BY <1>1
    <2> QED  BY <1>1, <2>1, <2>2, QuietShape
  <1>2. CASE /\ Promise!Switch([Where EXCEPT ![c] = Promise!On(b)])
             /\ kont' = [kont EXCEPT ![c] = Promise!Leaving(b)]
             /\ UNCHANGED <<lock_status, locks, sems>>
    <2>1. <<"on", b>> # Gone /\ \A o \in Away : <<"on", b>> # <<"on", o>>
      <3>1. b \notin Away
        BY AddressAssumption DEF Away
      <3> QED  BY <3>1, PlaceNames
    <2>2. /\ Promise!Switch([Where EXCEPT ![c] = <<"on", b>>])
          /\ \A y \in Pcb \ {c} : kont'[y] = kont[y]
      BY <1>0, <1>2, PromiseNames
    <2> QED  BY <1>2, <2>1, <2>2, GoShape
  <1>3. CASE Promise!Leave(c, b)
    <2>1. /\ Where' = Where /\ UNCHANGED <<lock_status, locks, sems>>
          /\ kont' = [kont EXCEPT ![c] = Promise!User]
      BY <1>3 DEF Promise!Leave, Where
    <2>2. \A y \in Pcb \ {c} : sems'[y] = sems[y] /\ kont'[y] = kont[y]
      BY <1>0, <2>1
    <2>3. UNCHANGED <<Where, locks, lock_status>>
      BY <2>1
    <2> QED  BY <2>2, <2>3, StillShape
  <1> QED
    BY <1>1, <1>2, <1>3 DEF Promise!Arrive, Where

\* Whoever takes a step has the CPU.
LEMMA CpuOnly ==
    ASSUME NEW p, \/ Promise!ProcStep(p) \/ Promise!LockStep(p) \/ Promise!CondStep(p)
                  \/ Promise!SemStep(p) \/ Promise!BarrierStep(p)
    PROVE  p = os.current_running
  BY DEF Promise!ProcStep, Promise!LockStep, Promise!CondStep, Promise!SemStep,
         Promise!BarrierStep, Promise!Preempt, Promise!DoSleep, Promise!DoExit,
         Promise!DoWait, Promise!DoSpawn, Promise!DoMutexLockInit, Promise!Acquire,
         Promise!DoMutexLockRelease, Promise!DoConditionWait, Promise!DoConditionInit,
         Promise!DoConditionSignal, Promise!DoConditionBroadcast, Promise!DoSemaphoreInit,
         Promise!Down, Promise!DoSemaphoreUp, Promise!DoBarrierInit, Promise!Arrive,
         Promise!Leave, Promise!ObjectInit, Promise!Running

\* Every step of the kernel is one of the shapes, for the process on the CPU.
LEMMA StepShape ==
    ASSUME PlaceFacts, [Promise!Next]_(Promise!vars)
    PROVE  Step(os.current_running)
PROOF
  <1> SUFFICES ASSUME NEW c \in Pcb, c = os.current_running, Where[c] = Ready PROVE Step(c)
    BY DEF PlaceFacts
  <1>1. CASE UNCHANGED Promise!vars
    <2>1. UNCHANGED <<Where, locks, lock_status>> /\ UNCHANGED <<sems, kont>>
      BY <1>1 DEF Promise!vars, Where
    <2>2. \A y \in Pcb \ {c} : sems'[y] = sems[y] /\ kont'[y] = kont[y]
      BY <2>1
    <2> QED  BY <2>1, <2>2, StillShape
  <1>2. CASE Promise!Next
    <2>1. PICK p \in Pcb : \/ Promise!ProcStep(p) \/ Promise!LockStep(p) \/ Promise!CondStep(p)
                           \/ Promise!SemStep(p) \/ Promise!BarrierStep(p)
      BY <1>2 DEF Promise!Next
    <2>2. p = c
      BY <2>1, CpuOnly
    <2>3. CASE Promise!ProcStep(c)
      BY <2>3, ProcShape
    <2>4. CASE Promise!LockStep(c)
      <3>1. PICK l \in Locks :
              \/ Promise!DoMutexLockInit(c, l) \/ Promise!Acquire(c, l) \/ Promise!DoMutexLockRelease(c, l)
              \/ \E d \in Conds : Promise!DoConditionWait(c, l, d)
        BY <2>4 DEF Promise!LockStep
      <3> QED  BY <3>1, InitShape, AcquireShape, ReleaseShape, CondWaitShape
    <2>5. CASE Promise!CondStep(c)
      <3>1. PICK d \in Conds :
              \/ Promise!DoConditionInit(c, d)
              \/ Promise!DoConditionSignal(c, d) \/ Promise!DoConditionBroadcast(c, d)
        BY <2>5 DEF Promise!CondStep
      <3> QED  BY <3>1, InitShape, CondShape
    <2>6. CASE Promise!SemStep(c)
      <3>1. PICK s \in Sems :
              \/ \E v \in SemVals : Promise!DoSemaphoreInit(c, s, v)
              \/ Promise!Down(c, s) \/ Promise!DoSemaphoreUp(c, s)
        BY <2>6 DEF Promise!SemStep
      <3> QED  BY <3>1, InitShape, DownShape, UpShape
    <2>7. CASE Promise!BarrierStep(c)
      <3>1. PICK b \in Barriers :
              \/ \E g \in Goals : Promise!DoBarrierInit(c, b, g)
              \/ Promise!Arrive(c, b) \/ Promise!Leave(c, b)
        BY <2>7 DEF Promise!BarrierStep
      <3> QED  BY <3>1, InitShape, BarrierShape
    <2> QED
      BY <2>1, <2>2, <2>3, <2>4, <2>5, <2>6, <2>7
  <1> QED
    BY <1>1, <1>2

\* A mutex in a slot of a live process is locked, and is in no other slot of
\* a live process.
HeldOnce ==
    /\ \A y \in Pcb : \A i \in Slots : \A l \in Locks :
          Where[y] # Gone /\ locks[y][i] = l => lock_status[l] = "LOCKED"
    /\ \A y, z \in Pcb : \A i, j \in Slots : \A l \in Locks :
          Where[y] # Gone /\ Where[z] # Gone /\ locks[y][i] = l /\ locks[z][j] = l => y = z /\ i = j

\* BlockedInCall, with the processes where Sync sees them.
InCalls == \A y \in Pcb :
    /\ \A l \in Locks : Where[y] = <<"on", l>> => kont[y] = Acquiring(l)
    /\ \A s \in Sems : Where[y] = <<"on", s>> => kont[y] = Downing(s)
    /\ \A d \in Conds : Where[y] = <<"on", d>> =>
          \E l \in Locks : kont[y] = Acquiring(l) /\ \A i \in Slots : locks[y][i] # l

\* A spawn, process by process.
LEMMA JoinFacts ==
    ASSUME PlaceFacts, NEW c \in Pcb, Joins(c)
    PROVE  \E n \in Pcb \ {c} :
              /\ Where[n] = Gone /\ \A y \in Pcb : Where'[y] = IF y = n THEN Ready ELSE Where[y]
              /\ \A y \in Pcb : locks'[y] = IF y = n THEN NoSlots ELSE locks[y]
              /\ \A y \in Pcb : sems'[y] = IF y = n THEN NoSlots ELSE sems[y]
              /\ \A y \in Pcb : kont'[y] = IF y = n THEN User ELSE kont[y]
              /\ UNCHANGED lock_status
  BY DEF Joins, PlaceFacts, Others, Where

\* A step that leaves the others alone revives nobody.
LEMMA RestLive ==
    ASSUME NEW c \in Pcb, Rest(c), Where[c] # Gone
    PROVE  \A y \in Pcb : Where'[y] # Gone => Where[y] # Gone
  BY DEF Rest

\* HeldOnce is kept: only an unlocked mutex is taken, into one slot.
LEMMA HeldStep ==
    ASSUME PlaceFacts, HeldOnce, NEW c \in Pcb, Where[c] = Ready, Step(c)
    PROVE  HeldOnce'
PROOF
  <1>0. /\ locks \in [Pcb -> [Slots -> Locks \cup {NULL}]]
        /\ lock_status \in [Locks -> {"LOCKED", "UNLOCKED"}]
        /\ NULL \notin Locks /\ Where[c] # Gone
    BY PlaceNames, AddressAssumption DEF PlaceFacts, Others, Queues, Objects
  <1>1. CASE Joins(c)
    <2>1. PICK n \in Pcb \ {c} :
              /\ Where[n] = Gone /\ \A y \in Pcb : Where'[y] = IF y = n THEN Ready ELSE Where[y]
              /\ \A y \in Pcb : locks'[y] = IF y = n THEN NoSlots ELSE locks[y]
              /\ UNCHANGED lock_status
      BY <1>1, JoinFacts
    <2>2. \A i \in Slots : \A l \in Locks : NoSlots[i] # l
      BY <1>0 DEF NoSlots
    <2> QED  BY <2>1, <2>2 DEF HeldOnce
  <1>2. CASE Quits(c)
    <2>1. \A y \in Pcb : Where'[y] # Gone => Where[y] # Gone /\ y # c
      BY <1>0, <1>2, RestLive DEF Quits
    <2>2. /\ UNCHANGED locks
          /\ \A l \in Locks : lock_status'[l] =
                IF \E i \in Slots : locks[c][i] = l THEN "UNLOCKED" ELSE lock_status[l]
      BY <1>2 DEF Quits
    <2>3. ASSUME NEW y \in Pcb, NEW i \in Slots, NEW l \in Locks, Where'[y] # Gone, locks[y][i] = l
          PROVE  lock_status'[l] = "LOCKED"
      <3>1. \A j \in Slots : locks[c][j] # l
        BY <1>0, <2>1, <2>3 DEF HeldOnce
      <3> QED  BY <2>1, <2>2, <2>3, <3>1 DEF HeldOnce
    <2> QED  BY <2>1, <2>2, <2>3 DEF HeldOnce
  <1>3. CASE Calls(c)
    <2>1. \A y \in Pcb : Where'[y] # Gone => Where[y] # Gone
      BY <1>0, <1>3, RestLive DEF Calls
    <2>2. CASE Quiet
      BY <2>1, <2>2 DEF HeldOnce, Quiet
    <2>3. CASE Takes(c)
      <3>1. PICK l \in Locks, i \in Slots :
              /\ lock_status[l] = "UNLOCKED" /\ locks' = [locks EXCEPT ![c][i] = l]
              /\ lock_status' = [lock_status EXCEPT ![l] = "LOCKED"]
        BY <2>3 DEF Takes
      <3>2. \A y \in Pcb : \A j \in Slots : Where[y] # Gone => locks[y][j] # l
        BY <3>1 DEF HeldOnce
      <3>3. \A y \in Pcb : \A j \in Slots : locks'[y][j] = IF y = c /\ j = i THEN l ELSE locks[y][j]
        BY <1>0, <3>1
      <3>4. \A m \in Locks : lock_status'[m] = IF m = l THEN "LOCKED" ELSE lock_status[m]
        BY <1>0, <3>1
      <3> QED  BY <1>0, <2>1, <3>2, <3>3, <3>4 DEF HeldOnce
    <2>4. CASE Drops(c)
      <3>1. PICK l \in Locks, i \in Slots :
              /\ locks[c][i] = l /\ locks' = [locks EXCEPT ![c][i] = NULL]
              /\ lock_status' = [lock_status EXCEPT ![l] = "UNLOCKED"]
        BY <2>4 DEF Drops
      <3>2. \A y \in Pcb : \A j \in Slots : locks'[y][j] = IF y = c /\ j = i THEN NULL ELSE locks[y][j]
        BY <1>0, <3>1
      <3>3. \A m \in Locks : lock_status'[m] = IF m = l THEN "UNLOCKED" ELSE lock_status[m]
        BY <1>0, <3>1
      <3>4. \A y \in Pcb : \A j \in Slots : Where[y] # Gone => locks'[y][j] # l
        BY <1>0, <3>1, <3>2 DEF HeldOnce
      <3> QED  BY <1>0, <2>1, <3>2, <3>3, <3>4 DEF HeldOnce
    <2>5. CASE Founds
      <3>1. PICK l \in Locks :
              ~Registered(l) /\ UNCHANGED locks /\ lock_status' = [lock_status EXCEPT ![l] = "UNLOCKED"]
        BY <2>5 DEF Founds
      <3>2. \A y \in Pcb : \A j \in Slots : locks[y][j] # l
        BY <1>0, <3>1 DEF PlaceFacts
      <3>3. \A m \in Locks : lock_status'[m] = IF m = l THEN "UNLOCKED" ELSE lock_status[m]
        BY <1>0, <3>1
      <3> QED  BY <2>1, <3>1, <3>2, <3>3 DEF HeldOnce
    <2> QED  BY <1>3, <2>2, <2>3, <2>4, <2>5 DEF Calls
  <1> QED
    BY <1>1, <1>2, <1>3 DEF Step

\* InCalls is kept: who is put on a queue is in the call that waits there, and
\* nobody else's continuation changes while it is there.
LEMMA CallStep ==
    ASSUME PlaceFacts, HeldOnce, InCalls, NEW c \in Pcb, Where[c] = Ready, Step(c)
    PROVE  InCalls'
PROOF
  <1>0. /\ locks \in [Pcb -> [Slots -> Locks \cup {NULL}]]
        /\ NULL \notin Locks /\ Where[c] # Gone
    BY PlaceNames, AddressAssumption DEF PlaceFacts, Others, Queues, Objects
  <1>1. CASE Joins(c)
    <2>1. PICK n \in Pcb \ {c} :
              /\ \A y \in Pcb : Where'[y] = IF y = n THEN Ready ELSE Where[y]
              /\ \A y \in Pcb : locks'[y] = IF y = n THEN NoSlots ELSE locks[y]
              /\ \A y \in Pcb : kont'[y] = IF y = n THEN User ELSE kont[y]
      BY <1>1, JoinFacts
    <2>2. ASSUME NEW y \in Pcb
          PROVE  /\ \A l \in Locks : Where'[y] = <<"on", l>> => kont'[y] = Acquiring(l)
                 /\ \A s \in Sems : Where'[y] = <<"on", s>> => kont'[y] = Downing(s)
                 /\ \A d \in Conds : Where'[y] = <<"on", d>> =>
                       \E l \in Locks : kont'[y] = Acquiring(l) /\ \A i \in Slots : locks'[y][i] # l
      <3>1. CASE y = n
        BY <2>1, <3>1, PlaceNames
      <3>2. CASE y # n
        BY <2>1, <3>2 DEF InCalls
      <3> QED  BY <3>1, <3>2
    <2> QED  BY <2>2 DEF InCalls
  <1>2. ASSUME Rest(c), NEW y \in Pcb \ {c}
        PROVE  /\ \A l \in Locks : Where'[y] = <<"on", l>> => kont'[y] = Acquiring(l)
               /\ \A s \in Sems : Where'[y] = <<"on", s>> => kont'[y] = Downing(s)
               /\ \A d \in Conds : Where'[y] = <<"on", d>> =>
                     \E l \in Locks : kont'[y] = Acquiring(l) /\ \A i \in Slots : locks'[y][i] # l
    <2>1. CASE Where'[y] = Ready
      BY <2>1, PlaceNames
    <2>2. CASE Where'[y] = Where[y] /\ kont'[y] = kont[y] /\ locks'[y] = locks[y]
      BY <2>2 DEF InCalls
    <2> QED  BY <1>2, <2>1, <2>2 DEF Rest
  <1>3. CASE Quits(c)
    <2>1. Rest(c) /\ Where'[c] = Gone
      BY <1>3 DEF Quits
    <2>2. \A o : Where'[c] # <<"on", o>>
      BY <2>1, PlaceNames
    <2> QED  BY <1>2, <2>1, <2>2 DEF InCalls
  <1>4. CASE Calls(c)
    <2>1. Rest(c) /\ Lines(c)
      BY <1>4 DEF Calls
    <2>2. /\ \A l \in Locks : Where'[c] = <<"on", l>> => kont'[c] = Acquiring(l)
          /\ \A s \in Sems : Where'[c] = <<"on", s>> => kont'[c] = Downing(s)
          /\ \A d \in Conds : Where'[c] = <<"on", d>> =>
                \E l \in Locks : kont'[c] = Acquiring(l) /\ \A i \in Slots : locks'[c][i] # l
      <3>0. Locks \cap Sems = {} /\ Locks \cap Conds = {} /\ Conds \cap Sems = {}
        BY AddressAssumption
      <3>1. CASE \A o \in Away : Where'[c] # <<"on", o>>
        BY <3>1 DEF Away
      <3>2. CASE \E l \in Locks : Where'[c] = <<"on", l>> /\ kont'[c] = Acquiring(l)
        BY <3>0, <3>2, PlaceNames
      <3>3. CASE \E s \in Sems : Where'[c] = <<"on", s>> /\ kont'[c] = Downing(s)
        BY <3>0, <3>3, PlaceNames
      <3>4. CASE \E d \in Conds : \E l \in Locks : \E i \in Slots :
                    /\ Where'[c] = <<"on", d>> /\ kont'[c] = Acquiring(l)
                    /\ locks[c][i] = l /\ locks' = [locks EXCEPT ![c][i] = NULL]
        <4>1. PICK d \in Conds, l \in Locks, i \in Slots :
                    /\ Where'[c] = <<"on", d>> /\ kont'[c] = Acquiring(l)
                    /\ locks[c][i] = l /\ locks' = [locks EXCEPT ![c][i] = NULL]
          BY <3>4
        <4>2. \A j \in Slots : locks[c][j] = l => j = i
          BY <1>0, <4>1 DEF HeldOnce
        <4>3. \A j \in Slots : locks'[c][j] # l
          BY <1>0, <4>1, <4>2
        <4> QED  BY <3>0, <4>1, <4>3, PlaceNames
      <3> QED  BY <2>1, <3>1, <3>2, <3>3, <3>4 DEF Lines
    <2> QED  BY <1>2, <2>1, <2>2 DEF InCalls
  <1> QED
    BY <1>1, <1>3, <1>4 DEF Step

\* Both hold at the start: there is only the shell.
LEMMA InitHeld ==
    ASSUME Init, PlaceFacts
    PROVE  HeldOnce /\ InCalls
PROOF
  <1>1. \A y \in Pcb : locks[y] = NoSlots /\ \A i \in Slots : NoSlots[i] = NULL
    BY DEF Init, NoSlots
  <1>2. NULL \notin Locks
    BY AddressAssumption DEF Queues, Objects
  <1>3. HeldOnce
    BY <1>1, <1>2 DEF HeldOnce
  <1>4. ASSUME NEW y \in Pcb, NEW o \in Objects PROVE Where[y] # <<"on", o>>
    <2>1. o \in Queues /\ o # Ready
      BY QueueNames
    <2>2. os.queue[o] = <<>>
      BY <2>1 DEF Init
    <2> QED  BY <2>2 DEF PlaceFacts, Contains
  <1>5. InCalls
    BY <1>4 DEF InCalls, Objects
  <1> QED
    BY <1>3, <1>5

\* BlockedInCall looks at the queues, InCalls at the places: the same.
LEMMA InCallsBlocked ==
    ASSUME KInv, InCalls
    PROVE  BlockedInCall
PROOF
  <1>1. PlaceFacts
    BY InvPlaces
  <1>2. ASSUME NEW o \in Objects, NEW y \in ToSet(os.queue[o])
        PROVE  y \in Pcb /\ Where[y] = <<"on", o>>
    <2>1. os.queue[o] \in Seq(Pcb) /\ o \in Queues
      BY InvTypes, QueueNames DEF TypeOK
    <2> DEFINE s == os.queue[o]
    <2> HIDE DEF s
    <2>2. \A x : x \in ToSet(s) <=> Contains(s, x)
      BY DEF ToSet, Contains
    <2>3. s \in Seq(Pcb) /\ y \in ToSet(s)
      BY <2>1 DEF s
    <2>4. y \in Pcb
      BY <2>3 DEF ToSet
    <2> QED  BY <1>1, <2>2, <2>3, <2>4 DEF PlaceFacts, s
  <1>3. Locks \subseteq Objects /\ Conds \subseteq Objects /\ Sems \subseteq Objects
    BY ObjectAbs
  <1>4. ASSUME NEW l \in Locks, NEW y \in ToSet(os.queue[l]) PROVE kont[y] = Acquiring(l)
    BY <1>2, <1>3 DEF InCalls
  <1>5. ASSUME NEW s \in Sems, NEW y \in ToSet(os.queue[s]) PROVE kont[y] = Downing(s)
    BY <1>2, <1>3 DEF InCalls
  <1>6. ASSUME NEW d \in Conds, NEW y \in ToSet(os.queue[d])
        PROVE  \E l \in Locks : kont[y] = Acquiring(l) /\ ~Contains(locks[y], l)
    <2>1. y \in Pcb /\ Where[y] = <<"on", d>>
      BY <1>2, <1>3
    <2>2. PICK l \in Locks : kont[y] = Acquiring(l) /\ \A i \in Slots : locks[y][i] # l
      BY <2>1 DEF InCalls
    <2>3. locks[y] \in [Slots -> Locks \cup {NULL}]
      BY <1>1, <2>1 DEF PlaceFacts, Others
    <2>4. ~Contains(locks[y], l)
      BY <2>2, <2>3, SlotFacts
    <2> QED  BY <2>2, <2>4
  <1> QED
    BY <1>4, <1>5, <1>6 DEF BlockedInCall

\* A step of the kernel that Sync takes too keeps both.
LEMMA HeldKeeps ==
    ASSUME KInv, HeldOnce, InCalls, [Promise!Next]_(Promise!vars)
    PROVE  HeldOnce' /\ InCalls'
PROOF
  <1>1. PlaceFacts
    BY InvPlaces
  <1>2. Step(os.current_running) /\ os.current_running \in Pcb /\ Where[os.current_running] = Ready
    BY <1>1, StepShape DEF PlaceFacts
  <1> QED
    BY <1>1, <1>2, HeldStep, CallStep

\* Nobody fills the shell's slots while the shell runs.
LEMMA ShellKeeps ==
    ASSUME KInv, os.current_running = Shell, [GoodNext]_vars
    PROVE  /\ locks'[Shell] \in {locks[Shell], NoSlots}
           /\ sems'[Shell] \in {sems[Shell], NoSlots}
PROOF
  <1>1. Others /\ kont[Shell] = User
    BY InvPlaces DEF PlaceFacts
  <1>2. CASE UNCHANGED vars
    BY <1>2 DEF vars
  <1>3. CASE GoodNext
    <2>1. PICK p \in Pcb : \/ Tick(p)
                           \/ Resume(p)
                           \/ p = Shell /\ \E prio \in Prios : DoSpawn(p, prio)
                           \/ p # Shell /\ GoodTaskCalls(p)
      BY <1>3 DEF GoodNext
    <2>2. CASE Tick(p)
      BY <2>2 DEF Tick
    <2>3. CASE Resume(p)
      <3>1. p = Shell
        BY <2>3 DEF Resume, ResumeAcquire, ResumeDown, ResumeBarrier, OnCpu
      <3> QED  BY <1>1, <2>3, <3>1, KontFacts DEF Resume, ResumeAcquire, ResumeDown, ResumeBarrier
    <2>4. CASE \E prio \in Prios : DoSpawn(p, prio)
      <3> DEFINE d == IF ClearsOwnSlots THEN MinOf(Exiteds) ELSE 0
      <3>1. locks' = [locks EXCEPT ![d] = NoSlots] /\ sems' = [sems EXCEPT ![d] = NoSlots]
        BY <2>4 DEF DoSpawn
      <3> HIDE DEF d
      <3> QED  BY <1>1, <3>1, QueueNames DEF Others
    <2>5. CASE p # Shell /\ GoodTaskCalls(p)
      <3>1. p = os.current_running
        BY <2>5 DEF GoodTaskCalls, GoodLockCalls, GoodCondCalls, GoodSemCalls, GoodBarrierCalls,
                    GoodExit, SysExit, DoSleep, DoWait, DoMutexLockInit, DoMutexLockAcquire,
                    DoMutexLockRelease, DoConditionInit, DoConditionWait, DoConditionSignal,
                    DoConditionBroadcast, DoSemaphoreInit, DoSemaphoreDown, DoSemaphoreUp,
                    DoBarrierInit, DoBarrierWait, Running, OnCpu
      <3> QED  BY <2>5, <3>1
    <2> QED  BY <2>1, <2>2, <2>3, <2>4, <2>5
  <1> QED
    BY <1>2, <1>3

\* If every exit is clean, exited processes have empty slots.
LEMMA SweptKeeps ==
    ASSUME KInv, Swept, [GoodNext]_vars, [Promise!Next]_(Promise!vars),
           [CleanStep]_vars
    PROVE  Swept'
PROOF
  <1>0. PlaceFacts
    BY InvPlaces
  <1>c. PICK c \in Pcb : c = os.current_running
    BY <1>0 DEF PlaceFacts
  <1>1. PlaceFacts /\ Where[c] = Ready /\ Where[c] # Gone
    BY <1>0, <1>c, PlaceNames DEF PlaceFacts
  <1>2. Step(c)
    BY <1>0, <1>c, StepShape
  <1>3. c = Shell => /\ locks'[Shell] \in {locks[Shell], NoSlots}
                     /\ sems'[Shell] \in {sems[Shell], NoSlots}
    BY <1>c, ShellKeeps
  <1>4. Shell \in Pcb
    BY QueueNames
  <1>p. PlaceFacts'
    <2>1. KInv'
      BY NextInv
    <2> QED  BY <2>1, InvPlaces, PTL
  <1>5. CASE Joins(c)
    <2>1. PICK n \in Pcb \ {c} :
              /\ Where[n] = Gone /\ \A y \in Pcb : Where'[y] = IF y = n THEN Ready ELSE Where[y]
              /\ \A y \in Pcb : locks'[y] = IF y = n THEN NoSlots ELSE locks[y]
              /\ \A y \in Pcb : sems'[y] = IF y = n THEN NoSlots ELSE sems[y]
      BY <1>1, <1>5, JoinFacts
    <2> QED  BY <2>1 DEF Swept
  <1>6. ASSUME Rest(c), NEW y \in Pcb \ {c}, Where'[y] = Gone \/ y = Shell
        PROVE  locks'[y] = NoSlots /\ sems'[y] = NoSlots
    BY <1>6, PlaceNames DEF Rest, Swept
  <1>7. ASSUME c = Shell PROVE locks'[c] = NoSlots /\ sems'[c] = NoSlots
    BY <1>3, <1>4, <1>7 DEF Swept
  <1>8. CASE Calls(c)
    BY <1>6, <1>7, <1>8 DEF Calls, Swept
  <1>9. CASE Quits(c)
    <2>1. locks' = locks /\ sems' = sems /\ kont'[c] = Exited /\ Rest(c) /\ Where'[c] = Gone
      BY <1>9 DEF Quits
    <2>2. Live(c) /\ ~Live(c)'
      BY <1>1, <1>p, <2>1 DEF PlaceFacts
    <2>3. ~UNCHANGED vars
      BY <2>2 DEF vars, Live
    <2>4. locks[c] = NoSlots /\ sems[c] = NoSlots
      BY <1>1, <2>2, <2>3 DEF CleanStep
    <2> QED  BY <1>6, <2>1, <2>4 DEF Swept
  <1> QED
    BY <1>2, <1>5, <1>8, <1>9 DEF Step

\* Whoever was told that it has a mutex lives and has it in a slot.
HolderInv == \A l \in Locks : holder[l] # NULL =>
    /\ holder[l] \in Pcb /\ Where[holder[l]] # Gone
    /\ \E i \in Slots : locks[holder[l]][i] = l

\* How the history variable follows the mutex.
LEMMA FollowFacts ==
    ASSUME NEW l \in Locks, NEW c, c = os.current_running, holder' = [m \in Locks |-> Follow(m)],
           lock_status \in [Locks -> {"LOCKED", "UNLOCKED"}]
    PROVE  /\ lock_status[l] = "UNLOCKED" /\ lock_status'[l] = "LOCKED" => holder'[l] = c
           /\ lock_status[l] = "LOCKED" /\ lock_status'[l] = "UNLOCKED" /\ holder[l] = c => holder'[l] = NULL
           /\ lock_status'[l] = lock_status[l] => holder'[l] = holder[l]
           /\ lock_status'[l] = "UNLOCKED" => holder'[l] \in {holder[l], NULL}
  BY DEF Follow

\* HolderInv is kept by each shape of step.
LEMMA HolderStep ==
    ASSUME PlaceFacts, HeldOnce, HolderInv, NEW c \in Pcb, c = os.current_running, Where[c] = Ready,
           Step(c), holder' = [l \in Locks |-> Follow(l)]
    PROVE  HolderInv'
PROOF
  <1> SUFFICES ASSUME NEW l \in Locks, holder'[l] # NULL
               PROVE  /\ holder'[l] \in Pcb /\ Where'[holder'[l]] # Gone
                      /\ \E i \in Slots : locks'[holder'[l]][i] = l
    BY DEF HolderInv
  <1> DEFINE h == holder[l]
             g == holder'[l]
             s == lock_status[l]
             t == lock_status'[l]
  <1>0. /\ locks \in [Pcb -> [Slots -> Locks \cup {NULL}]]
        /\ lock_status \in [Locks -> {"LOCKED", "UNLOCKED"}]
        /\ NULL \notin Locks /\ Where[c] # Gone /\ s \in {"LOCKED", "UNLOCKED"}
    BY PlaceNames, AddressAssumption DEF PlaceFacts, Others, Queues, Objects
  <1>1. /\ s = "UNLOCKED" /\ t = "LOCKED" => g = c
        /\ s = "LOCKED" /\ t = "UNLOCKED" /\ h = c => g = NULL
        /\ t = s => g = h
        /\ t = "UNLOCKED" => g \in {h, NULL}
    BY <1>0, FollowFacts
  <1>2. ASSUME h # NULL
        PROVE  /\ h \in Pcb /\ Where[h] # Gone /\ s = "LOCKED"
               /\ \E i \in Slots : locks[h][i] = l
    BY <1>2 DEF HolderInv, HeldOnce
  <1>3. ASSUME NEW y \in Pcb, NEW z \in Pcb, NEW i \in Slots, NEW j \in Slots,
               Where[y] # Gone, Where[z] # Gone, locks[y][i] = l, locks[z][j] = l
        PROVE  y = z /\ i = j
    BY <1>3 DEF HeldOnce
  <1>4. g # NULL
    OBVIOUS
  <1> HIDE DEF h, g, s, t
  <1>5. CASE Joins(c)
    <2>1. PICK n \in Pcb \ {c} :
              /\ Where[n] = Gone /\ \A y \in Pcb : Where'[y] = IF y = n THEN Ready ELSE Where[y]
              /\ \A y \in Pcb : locks'[y] = IF y = n THEN NoSlots ELSE locks[y]
              /\ UNCHANGED lock_status
      BY <1>5, JoinFacts
    <2>2. t = s
      BY <2>1 DEF s, t
    <2>3. h \in Pcb /\ h # n /\ g = h /\ Where[h] # Gone /\ \E i \in Slots : locks[h][i] = l
      BY <1>1, <1>2, <1>4, <2>1, <2>2
    <2> QED  BY <2>1, <2>3 DEF g
  <1>6. CASE Quits(c)
    <2>1. /\ Rest(c) /\ UNCHANGED locks
          /\ t = IF \E i \in Slots : locks[c][i] = l THEN "UNLOCKED" ELSE s
      BY <1>6 DEF Quits, s, t
    <2>2. g \in {h, NULL}
      BY <1>1, <2>1
    <2>3. /\ h \in Pcb /\ g = h /\ Where[h] # Gone /\ s = "LOCKED"
          /\ \E i \in Slots : locks[h][i] = l
      BY <1>2, <1>4, <2>2
    <2>4. h # c
      BY <1>1, <1>4, <2>1, <2>3
    <2> QED  BY <2>1, <2>3, <2>4, PlaceNames DEF Rest, g
  <1>7. CASE Calls(c)
    <2>1. \A y \in Pcb : Where[y] # Gone => Where'[y] # Gone
      BY <1>7, PlaceNames DEF Calls, Rest
    <2>2. CASE Quiet
      <3>1. g = h /\ locks' = locks
        BY <1>1, <2>2 DEF Quiet, s, t
      <3> QED  BY <1>2, <1>4, <2>1, <3>1 DEF g
    <2>3. CASE Takes(c)
      <3>1. PICK m \in Locks, i \in Slots :
              /\ lock_status[m] = "UNLOCKED"
              /\ locks[c][i] = NULL /\ locks' = [locks EXCEPT ![c][i] = m]
              /\ lock_status' = [lock_status EXCEPT ![m] = "LOCKED"]
        BY <2>3 DEF Takes
      <3>2. \A y \in Pcb : \A j \in Slots : locks'[y][j] = IF y = c /\ j = i THEN m ELSE locks[y][j]
        BY <1>0, <3>1
      <3>3. CASE m = l
        <4>1. g = c /\ locks'[c][i] = l
          BY <1>0, <1>1, <3>1, <3>2, <3>3 DEF s, t
        <4> QED  BY <1>0, <2>1, <4>1 DEF g
      <3>4. CASE m # l
        <4>1. g = h
          BY <1>0, <1>1, <3>1, <3>4 DEF s, t
        <4>2. PICK j \in Slots : locks[h][j] = l
          BY <1>2, <1>4, <4>1
        <4>3. locks'[h][j] = l
          BY <1>0, <1>2, <1>4, <3>1, <3>2, <4>1, <4>2
        <4> QED  BY <1>2, <1>4, <2>1, <4>1, <4>3 DEF g
      <3> QED  BY <3>3, <3>4
    <2>4. CASE Drops(c)
      <3>1. PICK m \in Locks, i \in Slots :
              /\ locks[c][i] = m /\ locks' = [locks EXCEPT ![c][i] = NULL]
              /\ lock_status' = [lock_status EXCEPT ![m] = "UNLOCKED"]
        BY <2>4 DEF Drops
      <3>2. \A y \in Pcb : \A j \in Slots : locks'[y][j] = IF y = c /\ j = i THEN NULL ELSE locks[y][j]
        BY <1>0, <3>1
      <3>3. ASSUME m = l PROVE FALSE
        <4>1. t = "UNLOCKED"
          BY <1>0, <3>1, <3>3 DEF t
        <4>2. h # NULL /\ g = h
          BY <1>1, <1>4, <4>1
        <4>3. h = c /\ s = "LOCKED"
          BY <1>0, <1>2, <1>3, <3>1, <3>3, <4>2
        <4> QED  BY <1>1, <1>4, <4>1, <4>3
      <3>4. g = h
        BY <1>0, <1>1, <3>1, <3>3 DEF s, t
      <3>5. PICK j \in Slots : locks[h][j] = l
        BY <1>2, <1>4, <3>4
      <3>6. locks'[h][j] = l
        BY <1>0, <1>2, <1>4, <3>1, <3>2, <3>3, <3>4, <3>5
      <3> QED  BY <1>2, <1>4, <2>1, <3>4, <3>6 DEF g
    <2>5. CASE Founds
      <3>1. PICK m \in Locks :
              ~Registered(m) /\ UNCHANGED locks /\ lock_status' = [lock_status EXCEPT ![m] = "UNLOCKED"]
        BY <2>5 DEF Founds
      <3>2. t = "UNLOCKED" \/ t = s
        BY <1>0, <3>1 DEF s, t
      <3>3. g = h
        BY <1>1, <1>4, <3>2
      <3> QED  BY <1>2, <1>4, <2>1, <3>1, <3>3 DEF g
    <2> QED  BY <1>7, <2>2, <2>3, <2>4, <2>5 DEF Calls
  <1> QED
    BY <1>5, <1>6, <1>7 DEF Step

\* HolderInv is kept.
LEMMA HolderKeeps ==
    ASSUME KInv, HeldOnce, HolderInv, [HolderNext]_<<vars, holder>>, [Promise!Next]_(Promise!vars)
    PROVE  HolderInv'
PROOF
  <1>1. PlaceFacts
    BY InvPlaces
  <1>2. PICK c \in Pcb : c = os.current_running
    BY <1>1 DEF PlaceFacts
  <1>3. Step(c) /\ Where[c] = Ready
    BY <1>1, <1>2, StepShape DEF PlaceFacts
  <1>4. CASE HolderNext
    BY <1>1, <1>2, <1>3, <1>4, HolderStep DEF HolderNext
  <1>5. CASE UNCHANGED <<vars, holder>>
    BY <1>5 DEF vars, HolderInv, Where, PlaceOf, Live
  <1> QED
    BY <1>4, <1>5

\* The three strengthenings hold at the start.
LEMMA InitSwept ==
    ASSUME Init
    PROVE  Swept /\ HeldOnce /\ InCalls
PROOF
  <1>1. PlaceFacts
    BY InitInv, InvPlaces
  <1>2. Swept
    BY DEF Init, Swept
  <1> QED
    BY <1>1, <1>2, InitHeld

\* What holds of the kernel besides KInv, when a step is one of Sync's.
HeldInv == KInv /\ HeldOnce /\ InCalls

\* They are inductive, and every step refines one of Sync.
LEMMA HeldNext ==
    ASSUME HeldInv, ClearsOwnSlots \/ Swept, [GoodNext]_vars
    PROVE  [Promise!Next]_(Promise!vars) /\ HeldInv'
  BY NextInv, NextRefines, HeldKeeps DEF HeldInv

\* SyncSpec, if init_one_pcb clears the slots of the pcb it hands out (Big_Bonus):
\* sched.c, queue.c and lock.c together implement the monitors of Sync, in which
\* every call is one step on a set of waiters. What SyncProofs says of Sync then
\* holds of the kernel.
THEOREM KernelImplementsSync ==
    ASSUME ClearsOwnSlots
    PROVE  GoodSpec => SyncSpec
PROOF
  <1>1. Init => Promise!Init
    BY InitRefines
  <1>2. KInv /\ [GoodNext]_vars => [Promise!Next]_(Promise!vars)
    BY NextRefines
  <1> QED
    BY <1>1, <1>2, KernelInv, PTL DEF GoodSpec, SyncSpec, Promise!Spec

\* SyncSpec, for Prj3's init_one_pcb too, which leaves the slots of the pcb it
\* reuses as they were, as long as whoever exits has given everything back.
THEOREM CleanKernelImplementsSync == GoodSpec /\ CleanExits => SyncSpec
PROOF
  <1>1. Init => Promise!Init /\ Swept
    BY InitRefines, InitSwept
  <1>2. KInv /\ Swept /\ [GoodNext]_vars => [Promise!Next]_(Promise!vars)
    BY NextRefines
  <1>3. KInv /\ Swept /\ [GoodNext]_vars /\ [CleanStep]_vars => Swept'
    BY NextRefines, SweptKeeps
  <1> QED
    BY <1>1, <1>2, <1>3, KernelInv, PTL DEF GoodSpec, CleanExits, SyncSpec, Promise!Spec

\* BlockedInCall: whoever is on the queue of a mutex, a condition variable or a
\* semaphore is inside the call that waits there, and it alone.
THEOREM KernelBlockedInCall ==
    ASSUME ClearsOwnSlots
    PROVE  GoodSpec => []BlockedInCall
PROOF
  <1>1. Init => HeldInv
    BY InitInv, InitSwept DEF HeldInv
  <1>2. HeldInv /\ [GoodNext]_vars => HeldInv'
    BY HeldNext
  <1>3. HeldInv => BlockedInCall
    BY InCallsBlocked DEF HeldInv
  <1> QED
    BY <1>1, <1>2, <1>3, PTL DEF GoodSpec

\* The same, for an init_one_pcb that does not clear the slots.
THEOREM CleanKernelBlockedInCall == GoodSpec /\ CleanExits => []BlockedInCall
PROOF
  <1>1. Init => HeldInv /\ Swept
    BY InitInv, InitSwept DEF HeldInv
  <1>2. HeldInv /\ Swept /\ [GoodNext]_vars /\ [CleanStep]_vars => HeldInv' /\ Swept'
    <2> SUFFICES ASSUME HeldInv, Swept, [GoodNext]_vars, [CleanStep]_vars
                 PROVE  HeldInv' /\ Swept'
      OBVIOUS
    <2>1. [Promise!Next]_(Promise!vars) /\ HeldInv'
      BY HeldNext
    <2> QED  BY <2>1, SweptKeeps DEF HeldInv
  <1>3. HeldInv => BlockedInCall
    BY InCallsBlocked DEF HeldInv
  <1> QED
    BY <1>1, <1>2, <1>3, PTL DEF GoodSpec, CleanExits

\* The same, with the history variable.
LEMMA HolderSteps ==
    ASSUME HeldInv, HolderInv, ClearsOwnSlots \/ Swept, [HolderNext]_<<vars, holder>>
    PROVE  HeldInv' /\ HolderInv' /\ [GoodNext]_vars /\ [Promise!Next]_(Promise!vars)
PROOF
  <1>1. [GoodNext]_vars
    BY DEF HolderNext
  <1>2. [Promise!Next]_(Promise!vars) /\ HeldInv'
    BY <1>1, HeldNext
  <1> QED
    BY <1>1, <1>2, HolderKeeps DEF HeldInv

\* They give HolderKeepsLock.
LEMMA HolderLocked ==
    ASSUME HeldInv, HolderInv
    PROVE  HolderKeepsLock
  BY DEF HeldInv, HeldOnce, HolderInv, HolderKeepsLock

\* They hold at the start, with the history variable.
LEMMA HolderInitInv ==
    ASSUME HolderInit
    PROVE  HeldInv /\ HolderInv /\ Swept
PROOF
  <1>1. HeldInv /\ Swept
    BY InitInv, InitSwept DEF HolderInit, HeldInv
  <1>2. HolderInv
    BY DEF HolderInit, HolderInv
  <1> QED
    BY <1>1, <1>2

\* HolderKeepsLock: from the moment a live process takes a mutex until it gives
\* it back, that mutex stays locked and stays its own; no exit or release of
\* another process unlocks it.
THEOREM HolderKeeping ==
    ASSUME ClearsOwnSlots
    PROVE  HolderSpec => []HolderKeepsLock
PROOF
  <1>1. HolderInit => HeldInv /\ HolderInv
    BY HolderInitInv
  <1>2. HeldInv /\ HolderInv /\ [HolderNext]_<<vars, holder>> => HeldInv' /\ HolderInv'
    BY HolderSteps
  <1>3. HeldInv /\ HolderInv => HolderKeepsLock
    BY HolderLocked
  <1> QED
    BY <1>1, <1>2, <1>3, PTL DEF HolderSpec

\* The same, for an init_one_pcb that does not clear the slots, if exits are clean.
THEOREM CleanHolderKeeping == HolderSpec /\ CleanExits => []HolderKeepsLock
PROOF
  <1>1. HolderInit => HeldInv /\ HolderInv /\ Swept
    BY HolderInitInv
  <1>2. HeldInv /\ HolderInv /\ Swept /\ [HolderNext]_<<vars, holder>> /\ [CleanStep]_vars
            => HeldInv' /\ HolderInv' /\ Swept'
    <2> SUFFICES ASSUME HeldInv, HolderInv, Swept, [HolderNext]_<<vars, holder>>, [CleanStep]_vars
                 PROVE  HeldInv' /\ HolderInv' /\ Swept'
      OBVIOUS
    <2>1. HeldInv' /\ HolderInv' /\ [GoodNext]_vars /\ [Promise!Next]_(Promise!vars)
      BY HolderSteps
    <2> QED  BY <2>1, SweptKeeps DEF HeldInv
  <1>3. HeldInv /\ HolderInv => HolderKeepsLock
    BY HolderLocked
  <1> QED
    BY <1>1, <1>2, <1>3, PTL DEF HolderSpec, CleanExits

\* No process fills its slots.
Room == \A p \in Pcb : FreeSlots(locks[p]) # {} /\ FreeSlots(sems[p]) # {}

\* What a system call may make of its caller's continuation.
Rests(p) == \E x \in {User} \cup {Acquiring(l) : l \in Locks} \cup {Downing(s) : s \in Sems}
                        \cup {Leaving(b) : b \in Barriers} : kont' = [kont EXCEPT ![p] = x]

\* An acquire with room left does not make its caller exit.
LEMMA AcquireRests ==
    ASSUME Room, NEW p \in Pcb, NEW l \in Locks, AcquireStep(p, l)
    PROVE  Rests(p)
  BY DEF AcquireStep, Room, Rests

\* Nor does a semaphore down.
LEMMA DownRests ==
    ASSUME Room, NEW p \in Pcb, NEW s \in Sems, DownStep(p, s)
    PROVE  Rests(p)
  BY DEF DownStep, Room, Rests

\* The CPU's process exits only by do_exit, and with empty slots.
LEMMA RoomClean ==
    ASSUME ~ExitHolding, Others, Room, NEW c \in Pcb, c = os.current_running, GoodNext
    PROVE  \/ kont'[c] # Exited
           \/ locks[c] = NoSlots /\ sems[c] = NoSlots
PROOF
  <1>1. kont \in [Pcb -> Konts]
    BY DEF Others
  <1>2. ASSUME Rests(c) PROVE kont'[c] # Exited
    BY <1>1, <1>2, KontFacts DEF Rests
  <1>r. ASSUME Running(c), kont' = kont PROVE kont'[c] # Exited
    BY <1>r, KontFacts DEF Running
  <1>3. PICK p \in Pcb : \/ Tick(p)
                         \/ Resume(p)
                         \/ p = Shell /\ \E prio \in Prios : DoSpawn(p, prio)
                         \/ p # Shell /\ GoodTaskCalls(p)
    BY DEF GoodNext
  <1>4. CASE Tick(p)
    BY <1>4, <1>r DEF Tick, Running, OnCpu
  <1>5. CASE Resume(p)
    <2>1. p = c
      BY <1>5 DEF Resume, ResumeAcquire, ResumeDown, ResumeBarrier, OnCpu
    <2>2. ASSUME NEW l \in Locks, ResumeAcquire(p, l) PROVE Rests(c)
      BY <2>1, <2>2, AcquireRests DEF ResumeAcquire
    <2>3. ASSUME NEW s \in Sems, ResumeDown(p, s) PROVE Rests(c)
      BY <2>1, <2>3, DownRests DEF ResumeDown
    <2>4. ASSUME NEW b \in Barriers, ResumeBarrier(p, b) PROVE Rests(c)
      BY <2>1, <2>4 DEF ResumeBarrier, Rests
    <2> QED  BY <1>2, <1>5, <2>2, <2>3, <2>4 DEF Resume
  <1>6. CASE \E prio \in Prios : DoSpawn(p, prio)
    <2> DEFINE n == MinOf(Exiteds)
    <2>1. kont' = [kont EXCEPT ![n] = User] /\ kont[c] = User
      BY <1>6 DEF DoSpawn, Running, OnCpu
    <2> HIDE DEF n
    <2> QED  BY <1>1, <2>1, KontFacts
  <1>7. CASE GoodTaskCalls(p)
    <2>1. p = c /\ Running(c)
      BY <1>7 DEF GoodTaskCalls, GoodLockCalls, GoodCondCalls, GoodSemCalls, GoodBarrierCalls,
                  GoodExit, SysExit, DoSleep, DoWait, DoMutexLockInit, DoMutexLockAcquire,
                  DoMutexLockRelease, DoConditionInit, DoConditionWait, DoConditionSignal,
                  DoConditionBroadcast, DoSemaphoreInit, DoSemaphoreDown, DoSemaphoreUp,
                  DoBarrierInit, DoBarrierWait, Running, OnCpu
    <2>2. CASE GoodLockCalls(p)
      <3>1. ASSUME NEW l \in Locks, DoMutexLockAcquire(p, l) PROVE Rests(c)
        BY <2>1, <3>1, AcquireRests DEF DoMutexLockAcquire
      <3>2. ASSUME NEW l \in Locks, NEW d \in Conds, DoConditionWait(p, l, d) PROVE Rests(c)
        BY <2>1, <3>2 DEF DoConditionWait, Rests
      <3>3. ASSUME NEW l \in Locks, DoMutexLockInit(p, l) \/ DoMutexLockRelease(p, l)
            PROVE  kont' = kont
        BY <3>3 DEF DoMutexLockInit, DoMutexLockRelease
      <3> QED  BY <1>2, <1>r, <2>1, <2>2, <3>1, <3>2, <3>3 DEF GoodLockCalls
    <2>3. CASE GoodCondCalls(p)
      BY <1>r, <2>1, <2>3 DEF GoodCondCalls, DoConditionInit, DoConditionSignal, DoConditionBroadcast
    <2>4. CASE GoodSemCalls(p)
      <3>1. ASSUME NEW s \in Sems, DoSemaphoreDown(p, s) PROVE Rests(c)
        BY <2>1, <3>1, DownRests DEF DoSemaphoreDown
      <3>2. ASSUME NEW s \in Sems, NEW v \in SemVals, DoSemaphoreInit(p, s, v) PROVE kont' = kont
        BY <3>2 DEF DoSemaphoreInit
      <3>3. ASSUME NEW s \in Sems, DoSemaphoreUp(p, s) PROVE kont' = kont
        BY <3>3 DEF DoSemaphoreUp
      <3> QED  BY <1>2, <1>r, <2>1, <2>4, <3>1, <3>2, <3>3 DEF GoodSemCalls
    <2>5. CASE GoodBarrierCalls(p)
      <3>1. ASSUME NEW b \in Barriers, DoBarrierWait(p, b) PROVE Rests(c) \/ kont' = kont
        BY <2>1, <3>1 DEF DoBarrierWait, Rests
      <3>2. ASSUME NEW b \in Barriers, NEW g \in Goals, DoBarrierInit(p, b, g) PROVE kont' = kont
        BY <3>2 DEF DoBarrierInit
      <3> QED  BY <1>2, <1>r, <2>1, <2>5, <3>1, <3>2 DEF GoodBarrierCalls
    <2>6. CASE GoodExit(p)
      BY <2>1, <2>6 DEF GoodExit
    <2>7. CASE (\E t \in SleepTimes : DoSleep(p, t)) \/ (\E t \in Pcb : DoWait(p, t))
      BY <1>r, <2>1, <2>7 DEF DoSleep, DoWait
    <2> QED  BY <1>7, <2>2, <2>3, <2>4, <2>5, <2>6, <2>7 DEF GoodTaskCalls
  <1> QED
    BY <1>3, <1>4, <1>5, <1>6, <1>7

\* Whoever dies is the process on the CPU, in do_exit.
LEMMA DeadQuits ==
    ASSUME KInv, KInv', [Promise!Next]_(Promise!vars), NEW p \in Pcb, Live(p), ~Live(p)'
    PROVE  p = os.current_running /\ kont'[p] = Exited
PROOF
  <1>1. PlaceFacts
    BY InvPlaces
  <1>2. PlaceFacts'
    BY InvPlaces, PTL
  <1>3. PICK c \in Pcb : c = os.current_running /\ Where[c] = Ready
    BY <1>1 DEF PlaceFacts
  <1>4. Step(c)
    BY <1>1, <1>3, StepShape
  <1>5. Where[p] # Gone /\ Where'[p] = Gone
    BY <1>1, <1>2 DEF PlaceFacts
  <1>6. CASE Joins(c)
    BY <1>1, <1>5, <1>6, JoinFacts, PlaceNames
  <1>7. CASE Rest(c)
    <2>1. p = c
      BY <1>5, <1>7, PlaceNames DEF Rest
    <2> QED  BY <1>3, <1>4, <1>5, <1>6, <2>1 DEF Step, Calls, Quits
  <1> QED
    BY <1>4, <1>6, <1>7 DEF Step, Calls, Quits

\* So every exit is a task's own, which gives everything back first.
LEMMA RoomStep ==
    ASSUME ~ExitHolding, KInv, Swept, Room, [GoodNext]_vars
    PROVE  [CleanStep]_vars
PROOF
  <1> SUFFICES ASSUME GoodNext, NEW p \in Pcb, Live(p), ~Live(p)'
               PROVE  locks[p] = NoSlots /\ sems[p] = NoSlots
    BY DEF CleanStep
  <1>1. KInv' /\ [Promise!Next]_(Promise!vars) /\ Others
    BY NextInv, NextRefines, InvPlaces DEF PlaceFacts
  <1>2. p = os.current_running /\ kont'[p] = Exited
    BY <1>1, DeadQuits
  <1> QED
    BY <1>1, <1>2, RoomClean

\* The hypothesis CleanExits, from the tasks alone: if no task exits while it
\* holds anything and none fills its MAX_LOCKS slots, every exit is clean. It is
\* do_mutex_lock_acquire's do_exit on a full slot array that needs Room.
THEOREM RoomExitsClean ==
    ASSUME ~ExitHolding
    PROVE  GoodSpec /\ []Room => CleanExits
PROOF
  <1>1. Init => Swept
    BY InitSwept
  <1>2. KInv /\ Swept /\ Room /\ [GoodNext]_vars => [CleanStep]_vars
    BY RoomStep
  <1>3. KInv /\ Swept /\ [GoodNext]_vars /\ [CleanStep]_vars => Swept'
    BY NextRefines, SweptKeeps
  <1> QED
    BY <1>1, <1>2, <1>3, KernelInv, PTL DEF GoodSpec, CleanExits

\* SyncSpec for the kernel of Prj3 as it stands: it implements Sync for tasks
\* that exit empty-handed and never hold as many objects as they have slots.
THEOREM RoomyKernelImplementsSync ==
    ASSUME ~ExitHolding
    PROVE  GoodSpec /\ []Room => SyncSpec
  BY RoomExitsClean, CleanKernelImplementsSync, PTL
====
