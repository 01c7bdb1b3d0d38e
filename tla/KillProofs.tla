---- MODULE KillProofs ----
(***************************************************************************)
(* The kernel under any programs, kills and re-initialised queues          *)
(* included, for any number of processes and objects.                      *)
(*                                                                         *)
(* Queues and statuses do not agree here: do_kill leaves next_running and  *)
(* the caller's queue as they are, a process may run that is in no queue   *)
(* or in another one's, and queue_init drops whole lists.  What remains is *)
(* weaker: the lists, dropped ones included, share nobody (Chained), and   *)
(* there is a set S of processes that holds everyone linked, the one that  *)
(* runs and the one that next_running names (Loose, Wild).  do_exit takes  *)
(* its caller out of S and do_spawn puts a pcb in, so that nobody in S is  *)
(* at the end of do_exit.  S is not a function of the queues: a process    *)
(* that was killed while next_running named it is in S and linked nowhere. *)
(***************************************************************************)
EXTENDS KernelProofs, SchedLoop

\* y is in some list: a queue, or one that queue_init has dropped.
Linked(k, y) == \E c \in Lists(k) : Contains(c, y)

\* The lists that no queue heads any more: nobody is in two, or in one and a queue.
Dropped(L, at) ==
    /\ L \subseteq Seq(Pcb)
    /\ \A c \in L : Distinct(c) /\ \A y \in Pcb : Contains(c, y) => at[y] = NULL
    /\ \A c, d \in L : \A y \in Pcb : Contains(c, y) /\ Contains(d, y) => c = d

\* The links are whole.
Chained(k) == \E at : Placed(k.queue, at) /\ Dropped(k.lost, at)

\* get_bonus walks all_queue behind sleep_queue, so ready_queue gets no bonus.
Headed(all) == /\ Len(all) >= 2 /\ all[1] = Ready /\ all[2] = Sleep
               /\ \A j \in 3..Len(all) : all[j] \notin {Ready, Sleep}

\* A kernel state in which the pcbs of S are all that links and pointers lead to.
\* A linked pcb has not exited, x apart, which is on its way out.
Loose(k, S, x) ==
    /\ k \in KRec /\ Chained(k) /\ Headed(k.all) /\ k.fault = FALSE
    /\ S \subseteq Pcb /\ k.next_running \in S \cup {NULL}
    /\ \A y \in Pcb : Linked(k, y) => y \in S
    /\ \A y \in S : k.priority[y] >= 1
    /\ \A y \in Pcb : y # x /\ Linked(k, y) => k.status[y] # "EXITED"

\* Who is linked, by the place function.
LEMMA LinkedFacts ==
    ASSUME NEW k, NEW at, Placed(k.queue, at), NEW y \in Pcb
    PROVE  Linked(k, y) <=> at[y] # NULL \/ \E c \in k.lost : Contains(c, y)
PROOF
  <1>1. at[y] \in Queues \cup {NULL} /\ NULL \notin Queues
    BY QueueNames DEF Placed
  <1>2. (\E q \in Queues : Contains(k.queue[q], y)) <=> at[y] # NULL
    BY <1>1 DEF Placed
  <1> QED  BY <1>2 DEF Linked, Lists

\* Nobody is linked into two lists.
LEMMA OneList ==
    ASSUME NEW k, NEW S, NEW x, Loose(k, S, x)
    PROVE  /\ \A s \in Lists(k) : s \in Seq(Pcb) /\ Distinct(s)
           /\ \A s, d \in Lists(k) : \A y \in Pcb : Contains(s, y) /\ Contains(d, y) => s = d
PROOF
  <1>1. PICK at : Placed(k.queue, at) /\ Dropped(k.lost, at)
    BY DEF Loose, Chained
  <1>2. \A s \in Lists(k) : s \in Seq(Pcb) /\ Distinct(s)
    BY <1>1 DEF Lists, Placed, Dropped
  <1>3. ASSUME NEW s \in Lists(k), NEW d \in Lists(k), NEW y \in Pcb, Contains(s, y), Contains(d, y)
        PROVE  s = d
    <2>1. \A r \in Queues : Contains(k.queue[r], y) => at[y] = r /\ at[y] # NULL
      BY <1>1, QueueNames DEF Placed
    <2>2. \A g \in k.lost : Contains(g, y) => at[y] = NULL
      BY <1>1 DEF Dropped
    <2>3. CASE s \in k.lost /\ d \in k.lost
      BY <1>1, <1>3, <2>3 DEF Dropped
    <2>4. CASE ~(s \in k.lost /\ d \in k.lost)
      BY <1>3, <2>1, <2>2, <2>4 DEF Lists
    <2> QED  BY <2>3, <2>4
  <1> QED
    BY <1>2, <1>3

\* An item of a list that two lists hold, with or without the item p.
LEMMA InList ==
    ASSUME NEW c \in Seq(Pcb), NEW y, Contains(c, y)
    PROVE  y \in Pcb
  BY DEF Contains

\* A wake-up keeps everybody linked and links nobody.
LEMMA WokenLinked ==
    ASSUME NEW k, NEW n, NEW at, NEW w, Placed(k.queue, at), Placed(n.queue, w), n.lost = k.lost,
           \A y \in Pcb : w[y] = NULL <=> at[y] = NULL
    PROVE  /\ Dropped(k.lost, at) => Dropped(n.lost, w)
           /\ \A y \in Pcb : Linked(n, y) <=> Linked(k, y)
PROOF
  <1>1. ASSUME NEW y \in Pcb PROVE Linked(n, y) <=> Linked(k, y)
    BY LinkedFacts
  <1>2. ASSUME Dropped(k.lost, at) PROVE Dropped(n.lost, w)
    BY <1>2 DEF Dropped
  <1> QED  BY <1>1, <1>2

\* Replacing queues and statuses by a wake-up.
LEMMA WokenLoose ==
    ASSUME NEW k, NEW n, NEW S, NEW x, Loose(k, S, x), n \in KRec, Same(k, n),
           NEW at, NEW w, Placed(k.queue, at), Dropped(k.lost, at), Placed(n.queue, w),
           \A y \in Pcb : w[y] = NULL <=> at[y] = NULL,
           \A y \in Pcb : n.status[y] \in {"READY", k.status[y]}
    PROVE  /\ Loose(n, S, x)
           /\ \A y \in Pcb : Linked(n, y) <=> Linked(k, y)
PROOF
  <1>1. Dropped(n.lost, w) /\ \A y \in Pcb : Linked(n, y) <=> Linked(k, y)
    BY WokenLinked DEF Same
  <1>2. Chained(n)
    BY <1>1 DEF Chained
  <1>3. \A y \in Pcb : y # x /\ Linked(n, y) => n.status[y] # "EXITED"
    <2> TAKE y \in Pcb
    <2>1. n.status[y] \in {"READY", k.status[y]}
      OBVIOUS
    <2> QED  BY <1>1, <2>1 DEF Loose
  <1> QED
    BY <1>1, <1>2, <1>3 DEF Loose, Same

\* No status changes but to READY.
Woken(k, n) == \A y \in Pcb : n.status[y] \in {"READY", k.status[y]}

\* A whole queue woken.
LEMMA UnblockAllLoose ==
    ASSUME NEW k, NEW S, NEW x, Loose(k, S, x), NEW q \in Queues \ {Ready}
    PROVE  /\ Loose(UnblockAll(k, q), S, x)
           /\ Same(k, UnblockAll(k, q)) /\ Woken(k, UnblockAll(k, q))
           /\ \A y \in Pcb : Linked(UnblockAll(k, q), y) <=> Linked(k, y)
PROOF
  <1> DEFINE U == ToSet(k.queue[q])
             Q == JoinedQueues(k.queue, Ready, q)
             T == MakeReady(k, U)
             n == UnblockAll(k, q)
  <1>1. PICK at : Placed(k.queue, at) /\ Dropped(k.lost, at)
    BY DEF Loose, Chained
  <1> DEFINE w == WokenFrom(at, {q})
  <1>2. k \in KRec /\ at \in [Pcb -> Queues \cup {NULL}]
    BY <1>1 DEF Loose, Placed
  <1>3. n = Repl(k, Q, T)
    BY DEF UnblockAll, JoinedQueues, Repl
  <1>4. Placed(Q, w)
    BY <1>1, Joined
  <1>5. Q \in [Queues -> Seq(Pcb)]
    BY <1>4 DEF Placed
  <1>6. T \in [Pcb -> Statuses] /\ \A p \in Pcb : T[p] = IF p \in U THEN "READY" ELSE k.status[p]
    BY <1>2, ReadyStatus
  <1>7. \A y \in Pcb : w[y] = NULL <=> at[y] = NULL
    BY QueueNames DEF WokenFrom
  <1> HIDE DEF Q, T, w, U
  <1>8. n \in KRec /\ n.queue = Q /\ n.status = T /\ Same(k, n)
    BY <1>2, <1>3, <1>5, <1>6, Replaced
  <1> HIDE DEF n
  <1>9. Placed(n.queue, w) /\ \A y \in Pcb : n.status[y] \in {"READY", k.status[y]}
    BY <1>4, <1>6, <1>8
  <1> HIDE DEF w
  <1>10. /\ n \in KRec /\ Same(k, n) /\ Placed(k.queue, at) /\ Dropped(k.lost, at)
         /\ Placed(n.queue, w) /\ \A y \in Pcb : w[y] = NULL <=> at[y] = NULL
         /\ \A y \in Pcb : n.status[y] \in {"READY", k.status[y]}
    BY <1>1, <1>7, <1>8, <1>9
  <1>11. Loose(n, S, x) /\ \A y \in Pcb : Linked(n, y) <=> Linked(k, y)
    BY <1>10, WokenLoose
  <1> QED  BY <1>8, <1>9, <1>11 DEF n, Woken

\* One sleeper woken.
LEMMA WakenLoose ==
    ASSUME NEW k, NEW S, NEW x, Loose(k, S, x), NEW p \in Pcb, Contains(k.queue[Sleep], p)
    PROVE  /\ Loose(Waken(k, p), S, x)
           /\ Same(k, Waken(k, p)) /\ Woken(k, Waken(k, p))
           /\ \A y \in Pcb : Linked(Waken(k, p), y) <=> Linked(k, y)
PROOF
  <1>1. PICK at : Placed(k.queue, at) /\ Dropped(k.lost, at)
    BY DEF Loose, Chained
  <1> DEFINE Q1 == [k.queue EXCEPT ![Sleep] = Without(@, p)]
             Q2 == [Q1 EXCEPT ![Ready] = Append(@, p)]
             a1 == Move(at, p, NULL)
             w == Move(at, p, Ready)
             T == MakeReady(k, {p})
             n == Waken(k, p)
  <1>2. k \in KRec /\ Placed(k.queue, at) /\ at \in [Pcb -> Queues \cup {NULL}]
        /\ k.queue \in [Queues -> Seq(Pcb)] /\ at[p] = Sleep
    BY <1>1, QueueNames DEF Loose, Placed
  <1>3. Placed(Q1, a1)
    BY <1>2, QueueNames, Leaves
  <1>4. a1[p] = NULL /\ Move(a1, p, Ready) = Move(at, p, Ready)
    BY <1>2 DEF Move
  <1>5. Placed(Q2, w)
    <2> HIDE DEF Q1, a1
    <2> QED  BY <1>3, <1>4, QueueNames, Enters
  <1>6. n = Repl(k, Q2, T)
    <2>1. [k.queue EXCEPT ![Ready] = Append(@, p), ![Sleep] = Without(@, p)] = Q2
      BY <1>2, QueueNames
    <2> QED  BY <2>1 DEF Waken, Repl
  <1>7. T \in [Pcb -> Statuses] /\ \A y \in Pcb : T[y] = IF y = p THEN "READY" ELSE k.status[y]
    BY <1>2, ReadyStatus
  <1>8. Q2 \in [Queues -> Seq(Pcb)]
    BY <1>5 DEF Placed
  <1>9. \A y \in Pcb : w[y] = NULL <=> at[y] = NULL
    BY <1>2, QueueNames DEF Move
  <1> HIDE DEF Q2, T, w
  <1>10. n \in KRec /\ n.queue = Q2 /\ n.status = T /\ Same(k, n)
    BY <1>2, <1>6, <1>7, <1>8, Replaced
  <1> HIDE DEF n
  <1>11. Placed(n.queue, w) /\ \A y \in Pcb : n.status[y] \in {"READY", k.status[y]}
    BY <1>5, <1>7, <1>10
  <1>12. Loose(n, S, x) /\ \A y \in Pcb : Linked(n, y) <=> Linked(k, y)
    BY <1>1, <1>9, <1>10, <1>11, WokenLoose
  <1> QED  BY <1>10, <1>11, <1>12 DEF n, Woken

\* The head of a queue woken, if there is one.
LEMMA UnblockOneLoose ==
    ASSUME NEW k, NEW S, NEW x, Loose(k, S, x), NEW q \in Queues \ {Ready}
    PROVE  /\ Loose(UnblockOne(k, q), S, x)
           /\ Same(k, UnblockOne(k, q))
PROOF
  <1>1. PICK at : Placed(k.queue, at) /\ Dropped(k.lost, at)
    BY DEF Loose, Chained
  <1>2. k \in KRec /\ at \in [Pcb -> Queues \cup {NULL}] /\ k.queue \in [Queues -> Seq(Pcb)]
        /\ k.queue[q] \in Seq(Pcb)
    BY <1>1 DEF Loose, Placed
  <1>3. CASE k.queue[q] = <<>>
    BY <1>3 DEF UnblockOne, Same
  <1>4. CASE k.queue[q] # <<>>
    <2> DEFINE p == Head(k.queue[q])
               N == [k.queue EXCEPT ![Ready] = Append(@, p), ![q] = Tail(@)]
               w == Move(at, p, Ready)
               T == MakeReady(k, {p})
               n == UnblockOne(k, q)
    <2>1. n = Repl(k, N, T)
      BY <1>4 DEF UnblockOne, Repl
    <2>2. /\ p \in Pcb /\ Tail(k.queue[q]) \in Seq(Pcb) /\ Contains(k.queue[q], p)
          /\ \A y : Contains(k.queue[q], y) <=> y = p \/ Contains(Tail(k.queue[q]), y)
          /\ Distinct(Tail(k.queue[q])) /\ ~Contains(Tail(k.queue[q]), p)
      BY <1>1, <1>2, <1>4, HeadTailFacts DEF Placed
    <2>3. at[p] = q
      BY <1>1, <2>2 DEF Placed
    <2>4. Placed(N, w)
      <3>1. /\ k.queue[Ready] \in Seq(Pcb) /\ Distinct(k.queue[Ready]) /\ ~Contains(k.queue[Ready], p)
        BY <1>1, <1>2, <2>2, <2>3, QueueNames DEF Placed
      <3>2. /\ Append(k.queue[Ready], p) \in Seq(Pcb) /\ Distinct(Append(k.queue[Ready], p))
            /\ \A y : Contains(Append(k.queue[Ready], p), y) <=> Contains(k.queue[Ready], y) \/ y = p
        BY <2>2, <3>1, AppendFacts
      <3>3. /\ N[Ready] = Append(k.queue[Ready], p) /\ N[q] = Tail(k.queue[q])
            /\ \A r \in Queues \ {Ready, q} : N[r] = k.queue[r]
        BY <1>2, QueueNames
      <3>4. N \in [Queues -> Seq(Pcb)] /\ w \in [Pcb -> Queues \cup {NULL}]
        BY <1>2, <2>2, <3>2, QueueNames DEF Move
      <3>5. \A y \in Pcb : w[y] = IF y = p THEN Ready ELSE at[y]
        BY <1>2 DEF Move
      <3> HIDE DEF N, w, p
      <3>6. ASSUME NEW r \in Queues, NEW y \in Pcb PROVE Contains(N[r], y) <=> w[y] = r
        <4>1. \A t \in Queues : Contains(k.queue[t], y) <=> at[y] = t
          BY <1>1 DEF Placed
        <4>2. CASE r = Ready
          BY <3>2, <3>3, <3>5, <4>1, <4>2
        <4>3. CASE r = q
          BY <2>2, <2>3, <3>3, <3>5, <4>1, <4>3
        <4>4. CASE r \notin {Ready, q}
          BY <2>3, <3>3, <3>5, <4>1, <4>4
        <4> QED  BY <4>2, <4>3, <4>4
      <3>7. \A r \in Queues : Distinct(N[r])
        BY <1>1, <2>2, <3>2, <3>3 DEF Placed
      <3> QED  BY <3>4, <3>6, <3>7 DEF Placed
    <2>5. T \in [Pcb -> Statuses] /\ \A y \in Pcb : T[y] = IF y = p THEN "READY" ELSE k.status[y]
      BY <1>2, ReadyStatus
    <2>6. N \in [Queues -> Seq(Pcb)]
      BY <2>4 DEF Placed
    <2>7. \A y \in Pcb : w[y] = NULL <=> at[y] = NULL
      BY <1>2, <2>3, QueueNames DEF Move
    <2> HIDE DEF N, T, w, p, n
    <2>8. n \in KRec /\ n.queue = N /\ n.status = T /\ Same(k, n)
      BY <1>2, <2>1, <2>5, <2>6, Replaced
    <2>9. /\ n \in KRec /\ Same(k, n) /\ Placed(k.queue, at) /\ Dropped(k.lost, at)
          /\ Placed(n.queue, w) /\ \A y \in Pcb : w[y] = NULL <=> at[y] = NULL
          /\ \A y \in Pcb : n.status[y] \in {"READY", k.status[y]}
      BY <1>1, <2>4, <2>5, <2>7, <2>8
    <2>10. Loose(n, S, x)
      BY <2>9, WokenLoose
    <2> QED  BY <2>8, <2>10 DEF n
  <1> QED  BY <1>3, <1>4

\* check_sleeping
LEMMA WakeSleepersLoose ==
    ASSUME NEW k, NEW S, NEW x, Loose(k, S, x)
    PROVE  /\ Loose(WakeSleepers(k), S, x)
           /\ Same(k, WakeSleepers(k)) /\ Woken(k, WakeSleepers(k))
           /\ \A y \in Pcb : Linked(WakeSleepers(k), y) <=> Linked(k, y)
PROOF
  <1> DEFINE s == k.queue[Sleep]
             N == Len(s)
  <1>0. PICK at : Placed(k.queue, at)
    BY DEF Loose, Chained
  <1>1. s \in Seq(Pcb) /\ Distinct(s) /\ Sleep \in Queues
    BY <1>0, QueueNames DEF Placed
  <1>2. PICK f : /\ WakeSleepers(k) = f[N] /\ f[0] = k
                 /\ \A n \in 1..N : f[n] = WakeStep(k, f[n - 1], s[n])
    BY <1>1, WakeWalk
  <1>3. N \in Nat /\ DOMAIN s = 1..N /\ \A n \in 1..N : s[n] \in Pcb
    BY <1>1
  <1> DEFINE Good(n) == /\ Loose(f[n], S, x)
                        /\ Same(k, f[n]) /\ Woken(k, f[n])
                        /\ \A y \in Pcb : Linked(f[n], y) <=> Linked(k, y)
                        /\ \A i \in n + 1..N : Contains(f[n].queue[Sleep], s[i])
             T == {n \in 0..N : ~Good(n)}
  <1>4. Good(0)
    <2>1. \A i \in 1..N : Contains(k.queue[Sleep], s[i])
      BY <1>3 DEF Contains
    <2>2. Same(k, k) /\ Woken(k, k)
      BY DEF Same, Woken
    <2> QED  BY <1>2, <2>1, <2>2
  <1>5. ASSUME NEW n \in 1..N, Good(n - 1) PROVE Good(n)
    <2> DEFINE j == f[n - 1]  c == s[n]
    <2>1. f[n] = WakeStep(k, j, c)
      BY <1>2
    <2>2. /\ Loose(j, S, x) /\ Same(k, j) /\ Woken(k, j) /\ \A y \in Pcb : Linked(j, y) <=> Linked(k, y)
          /\ \A i \in (n - 1) + 1..N : Contains(j.queue[Sleep], s[i])
      BY <1>5
    <2>3. n \in (n - 1) + 1..N /\ \A i \in n + 1..N : i \in (n - 1) + 1..N /\ i \in 1..N /\ i # n
      BY <1>3
    <2>4. c \in Pcb /\ Contains(j.queue[Sleep], c) /\ \A i \in n + 1..N : s[i] # c
      BY <1>1, <1>3, <2>2, <2>3 DEF Distinct
    <2> HIDE DEF j, c, s
    <2>5. CASE k.left[c] # 0
      BY <2>1, <2>2, <2>3, <2>5 DEF WakeStep
    <2>6. CASE k.left[c] = 0
      <3> DEFINE g == Waken(j, c)
      <3>1. f[n] = g
        BY <2>1, <2>6 DEF WakeStep
      <3>2. Loose(g, S, x) /\ Same(j, g) /\ Woken(j, g) /\ \A y \in Pcb : Linked(g, y) <=> Linked(j, y)
        BY <2>2, <2>4, WakenLoose
      <3>3. g.queue[Sleep] = Without(j.queue[Sleep], c)
        <4>1. j \in KRec
          BY <2>2 DEF Loose
        <4> QED  BY <1>1, <4>1, QueueNames DEF Waken, KRec
      <3>4. j.queue[Sleep] \in Seq(Pcb) /\ Distinct(j.queue[Sleep])
        BY <1>1, <2>2 DEF Loose, Chained, Placed
      <3>5. \A y : Contains(g.queue[Sleep], y) <=> Contains(j.queue[Sleep], y) /\ y # c
        BY <2>4, <3>3, <3>4, WithoutFacts
      <3> HIDE DEF g
      <3>6. \A i \in n + 1..N : Contains(f[n].queue[Sleep], s[i])
        BY <2>2, <2>3, <2>4, <3>1, <3>5
      <3>7. Same(k, g) /\ Woken(k, g)
        BY <2>2, <3>2 DEF Same, Woken
      <3> QED  BY <2>2, <3>1, <3>2, <3>6, <3>7
    <2> QED  BY <2>5, <2>6
  <1>6. T = {}
    <2> SUFFICES ASSUME T # {} PROVE FALSE
      OBVIOUS
    <2>1. PICK m \in T : \A n \in T : m <= n
      <3>1. T \in SUBSET Nat
        BY <1>3
      <3> HIDE DEF T
      <3> QED  BY <3>1, LeastMember
    <2> HIDE DEF Good
    <2>2. m \in 0..N /\ ~Good(m)
      BY <2>1
    <2>3. m \in 1..N /\ m - 1 \in 0..N /\ ~(m <= m - 1)
      BY <1>3, <1>4, <2>2
    <2>4. Good(m - 1)
      BY <2>1, <2>3
    <2> QED  BY <1>5, <2>2, <2>3, <2>4
  <1>7. Good(N)
    <2> HIDE DEF Good
    <2>1. N \in 0..N
      BY <1>3
    <2> QED  BY <1>6, <2>1
  <1> QED
    BY <1>2, <1>7

\* do_exit and do_kill release one slot: an empty slot wakes nobody.
LEMMA FreeLoose ==
    ASSUME NEW k, NEW S, NEW x, Loose(k, S, x), NEW o \in Objects \cup {NULL}
    PROVE  /\ Loose(Free(k, o), S, x)
           /\ Same(k, Free(k, o)) /\ Woken(k, Free(k, o))
           /\ \A y \in Pcb : Linked(Free(k, o), y) <=> Linked(k, y)
PROOF
  <1>1. CASE o = NULL
    BY <1>1 DEF Free, Same, Woken
  <1>2. CASE o # NULL
    <2>1. o \in Queues \ {Ready} /\ Free(k, o) = UnblockAll(k, o)
      BY <1>2, QueueNames DEF Free
    <2> QED  BY <2>1, UnblockAllLoose
  <1> QED  BY <1>1, <1>2

\* do_exit's and do_kill's release loop on behalf of p.
LEMMA FreeAllLoose ==
    ASSUME NEW k, NEW S, Loose(k, S, NULL), NEW p \in Pcb,
           locks[p] \in [Slots -> Locks \cup {NULL}], sems[p] \in [Slots -> Sems \cup {NULL}]
    PROVE  /\ Loose(FreeAll(k, p), S, p)
           /\ Same(k, FreeAll(k, p))
           /\ \A y \in Pcb : Linked(FreeAll(k, p), y) <=> Linked(k, y)
           /\ \A y \in Pcb \ {p} : FreeAll(k, p).status[y] \in {"READY", k.status[y]}
PROOF
  <1> DEFINE k0 == [k EXCEPT !.status[p] = "EXITED"]
             T0 == [k.status EXCEPT ![p] = "EXITED"]
             N == MAX_LOCKS
  <1>1. PICK f : /\ FreeAll(k, p) = f[N] /\ f[0] = UnblockAll(k0, Wait(p))
                 /\ \A n \in 1..N : f[n] = Free(Free(f[n - 1], locks[p][n]), sems[p][n])
    BY FreeLoop
  <1>2. k \in KRec /\ k.queue \in [Queues -> Seq(Pcb)] /\ T0 \in [Pcb -> Statuses]
    BY DEF Loose, KRec, Statuses
  <1>3. k0 = Repl(k, k.queue, T0)
    BY <1>2 DEF Repl, KRec
  <1>4. k0 \in KRec /\ k0.queue = k.queue /\ k0.status = T0 /\ Same(k, k0)
    <2> HIDE DEF k0, T0
    <2> QED  BY <1>2, <1>3, Replaced
  <1>5. T0[p] = "EXITED" /\ \A y \in Pcb : y # p => T0[y] = k.status[y]
    BY <1>2 DEF KRec
  <1> HIDE DEF k0, T0
  <1>6. \A y \in Pcb : Linked(k0, y) <=> Linked(k, y)
    BY <1>4 DEF Linked, Lists, Same
  <1>7. Loose(k0, S, p)
    <2>1. Chained(k0)
      BY <1>4 DEF Loose, Chained, Same
    <2>2. \A y \in Pcb : y # p /\ Linked(k0, y) => k0.status[y] # "EXITED"
      <3>1. \A y \in Pcb : y # NULL
        BY QueueNames
      <3> QED  BY <1>4, <1>5, <1>6, <3>1 DEF Loose
    <2> QED  BY <1>4, <1>6, <2>1, <2>2 DEF Loose, Same
  <1> DEFINE Good(n) == /\ Loose(f[n], S, p)
                        /\ Same(k, f[n]) /\ Woken(k0, f[n])
                        /\ \A y \in Pcb : Linked(f[n], y) <=> Linked(k, y)
             T == {n \in 0..N : ~Good(n)}
  <1>8. N \in Nat /\ Slots = 1..N
    BY KernelAssumption DEF Slots
  <1>9. Good(0)
    <2>1. Loose(f[0], S, p) /\ Same(k0, f[0]) /\ Woken(k0, f[0]) /\ \A y \in Pcb : Linked(f[0], y) <=> Linked(k0, y)
      <3>1. Wait(p) \in Queues \ {Ready}
        BY QueueNames
      <3> QED  BY <1>1, <1>7, <3>1, UnblockAllLoose
    <2>2. Same(k, f[0])
      BY <1>4, <2>1 DEF Same
    <2> QED  BY <1>6, <2>1, <2>2
  <1>10. ASSUME NEW n \in 1..N, Good(n - 1) PROVE Good(n)
    <2> DEFINE j == f[n - 1]  l == locks[p][n]  s == sems[p][n]
               j1 == Free(j, l)
    <2>1. l \in Objects \cup {NULL} /\ s \in Objects \cup {NULL}
      BY <1>8 DEF Objects
    <2>2. f[n] = Free(j1, s)
      BY <1>1
    <2>3. Loose(j, S, p) /\ Same(k, j) /\ Woken(k0, j) /\ \A y \in Pcb : Linked(j, y) <=> Linked(k, y)
      BY <1>10
    <2> HIDE DEF j, l, s
    <2>4. Loose(j1, S, p) /\ Same(j, j1) /\ Woken(j, j1) /\ \A y \in Pcb : Linked(j1, y) <=> Linked(j, y)
      BY <2>1, <2>3, FreeLoose
    <2> HIDE DEF j1
    <2>5. Loose(Free(j1, s), S, p) /\ Same(j1, Free(j1, s)) /\ Woken(j1, Free(j1, s))
          /\ \A y \in Pcb : Linked(Free(j1, s), y) <=> Linked(j1, y)
      BY <2>1, <2>4, FreeLoose
    <2>6. Same(k, f[n]) /\ Woken(k0, f[n])
      BY <2>2, <2>3, <2>4, <2>5 DEF Same, Woken
    <2> QED  BY <2>2, <2>3, <2>4, <2>5, <2>6
  <1>11. T = {}
    <2> SUFFICES ASSUME T # {} PROVE FALSE
      OBVIOUS
    <2>1. PICK m \in T : \A n \in T : m <= n
      <3>1. T \in SUBSET Nat
        BY <1>8
      <3> HIDE DEF T
      <3> QED  BY <3>1, LeastMember
    <2> HIDE DEF Good
    <2>2. m \in 0..N /\ ~Good(m)
      BY <2>1
    <2>3. m \in 1..N /\ m - 1 \in 0..N /\ ~(m <= m - 1)
      BY <1>8, <1>9, <2>2
    <2>4. Good(m - 1)
      BY <2>1, <2>3
    <2> QED  BY <1>10, <2>2, <2>3, <2>4
  <1>12. Good(N)
    <2> HIDE DEF Good
    <2>1. N \in 0..N
      BY <1>8
    <2> QED  BY <1>11, <2>1
  <1> QED
    BY <1>1, <1>4, <1>5, <1>12 DEF Woken

\* What cutting p out of a list leaves.
LEMMA CutFacts ==
    ASSUME NEW c \in Seq(Pcb), Distinct(c), NEW p \in Pcb, NEW d,
           d = IF Inner(c, p) THEN Without(c, p) ELSE c
    PROVE  /\ d \in Seq(Pcb) /\ Distinct(d)
           /\ \A y : Contains(d, y) <=> Contains(c, y) /\ (y # p \/ ~Inner(c, p))
           /\ Inner(c, p) => Contains(c, p)
PROOF
  <1>1. Inner(c, p) => Contains(c, p)
    BY DEF Inner, Contains
  <1>2. CASE Inner(c, p)
    BY <1>1, <1>2, WithoutFacts
  <1>3. CASE ~Inner(c, p)
    BY <1>3
  <1> QED  BY <1>1, <1>2, <1>3

\* What a queue_remove may write.
Unlinked(k, Q, L, f) == [k EXCEPT !.queue = Q, !.lost = L, !.fault = f]

\* Field by field, the record that such writes leave.
LEMMA UnlinkedFacts ==
    ASSUME NEW k \in KRec, NEW Q \in [Queues -> Seq(Pcb)], NEW L \in SUBSET Seq(Pcb), NEW f \in BOOLEAN
    PROVE  /\ Unlinked(k, Q, L, f) \in KRec
           /\ Unlinked(k, Q, L, f).queue = Q
           /\ Unlinked(k, Q, L, f).lost = L
           /\ Unlinked(k, Q, L, f).fault = f
           /\ Unlinked(k, Q, L, f).all = k.all
           /\ Unlinked(k, Q, L, f).status = k.status
           /\ Unlinked(k, Q, L, f).priority = k.priority
           /\ Unlinked(k, Q, L, f).current_running = k.current_running
           /\ Unlinked(k, Q, L, f).next_running = k.next_running
  BY DEF Unlinked, KRec

\* The two outcomes of queue_remove: p leaves its list, or the kernel faults.
Parted(k, n, p) ==
    /\ n \in KRec
    /\ n.status = k.status /\ n.priority = k.priority /\ n.next_running = k.next_running
    /\ n.current_running = k.current_running /\ n.all = k.all
    /\ n.fault = FALSE => /\ Chained(n)
                          /\ \A y \in Pcb : Linked(n, y) <=> Linked(k, y) /\ y # p

\* queue_remove from the queue that holds p.
LEMMA UnlinkOwn ==
    ASSUME NEW k, NEW S, NEW x, Loose(k, S, x), NEW q \in Queues, NEW p \in Pcb, Contains(k.queue[q], p)
    PROVE  Parted(k, Unlink(k, q, p), p)
PROOF
  <1> DEFINE N == [k.queue EXCEPT ![q] = Without(@, p)]
             n == Unlink(k, q, p)
  <1>1. PICK at : Placed(k.queue, at) /\ Dropped(k.lost, at)
    BY DEF Loose, Chained
  <1> DEFINE w == Move(at, p, NULL)
  <1>2. k \in KRec /\ k.lost \in SUBSET Seq(Pcb) /\ k.fault = FALSE /\ at[p] = q
        /\ at \in [Pcb -> Queues \cup {NULL}]
    BY <1>1 DEF Loose, KRec, Placed
  <1>3. Placed(N, w)
    BY <1>1, <1>2, Leaves
  <1>4. N \in [Queues -> Seq(Pcb)]
    BY <1>3 DEF Placed
  <1>5. n = Unlinked(k, N, k.lost, FALSE)
    <2>1. n = [k EXCEPT !.queue[q] = Without(@, p)]
      BY DEF Unlink
    <2> QED  BY <1>2, <2>1 DEF Unlinked, KRec
  <1>6. \A y \in Pcb : w[y] = IF y = p THEN NULL ELSE at[y]
    BY <1>2 DEF Move
  <1> HIDE DEF N, n, w
  <1>7. /\ n \in KRec /\ n.queue = N /\ n.lost = k.lost /\ n.fault = FALSE
        /\ n.status = k.status /\ n.priority = k.priority /\ n.next_running = k.next_running
        /\ n.current_running = k.current_running /\ n.all = k.all
    <2>1. PICK L \in SUBSET Seq(Pcb) : L = k.lost
      BY <1>2
    <2>2. PICK f \in BOOLEAN : f = FALSE
      OBVIOUS
    <2>3. n = Unlinked(k, N, L, f)
      BY <1>5, <2>1, <2>2
    <2>4. /\ n \in KRec /\ n.queue = N /\ n.lost = L /\ n.fault = f
          /\ n.status = k.status /\ n.priority = k.priority /\ n.next_running = k.next_running
          /\ n.current_running = k.current_running /\ n.all = k.all
      BY <1>2, <1>4, <2>3, UnlinkedFacts
    <2> QED  BY <2>1, <2>2, <2>4
  <1>8. Dropped(n.lost, w)
    BY <1>1, <1>6, <1>7 DEF Dropped
  <1>9. Placed(n.queue, w)
    BY <1>3, <1>7
  <1>10. ASSUME NEW y \in Pcb PROVE Linked(n, y) <=> Linked(k, y) /\ y # p
    <2>1. Linked(n, y) <=> w[y] # NULL \/ \E c \in n.lost : Contains(c, y)
      BY <1>9, LinkedFacts
    <2>2. Linked(k, y) <=> at[y] # NULL \/ \E c \in k.lost : Contains(c, y)
      BY <1>1, LinkedFacts
    <2>3. y = p => \A c \in k.lost : ~Contains(c, y)
      BY <1>1, <1>2, QueueNames DEF Dropped
    <2> QED  BY <1>6, <1>7, <2>1, <2>2, <2>3
  <1> QED
    BY <1>7, <1>8, <1>9, <1>10 DEF Parted, Chained, n

\* queue_remove of p through a queue that does not hold it: its neighbours'
\* links are joined wherever they are, or NULL is written through.
LEMMA UnlinkOther ==
    ASSUME NEW k, NEW S, NEW x, Loose(k, S, x), NEW q \in Queues, NEW p \in Pcb, ~Contains(k.queue[q], p)
    PROVE  Parted(k, Unlink(k, q, p), p)
PROOF
  <1> DEFINE cut(c) == IF Inner(c, p) THEN Without(c, p) ELSE c
             N == [r \in Queues |-> cut(k.queue[r])]
             L == {cut(c) : c \in k.lost}
             f == \A c \in Lists(k) : ~Inner(c, p)
             n == Unlink(k, q, p)
  <1>1. PICK at : Placed(k.queue, at) /\ Dropped(k.lost, at)
    BY DEF Loose, Chained
  <1> DEFINE w == Move(at, p, NULL)
  <1>2. k \in KRec /\ k.fault = FALSE /\ at \in [Pcb -> Queues \cup {NULL}]
    BY <1>1 DEF Loose, Placed
  <1>3. \A c \in Lists(k) : c \in Seq(Pcb) /\ Distinct(c)
    BY <1>1 DEF Lists, Placed, Dropped
  <1>4. ASSUME NEW c \in Lists(k)
        PROVE  /\ cut(c) \in Seq(Pcb) /\ Distinct(cut(c))
               /\ \A y : Contains(cut(c), y) <=> Contains(c, y) /\ (y # p \/ ~Inner(c, p))
               /\ Inner(c, p) => Contains(c, p)
    BY <1>3, CutFacts
  <1>5. n = Unlinked(k, N, L, f)
    BY DEF Unlink, Unlinked
  <1> HIDE DEF cut
  <1>6. \A r \in Queues : k.queue[r] \in Lists(k) /\ \A c \in k.lost : c \in Lists(k)
    BY DEF Lists
  <1>7. N \in [Queues -> Seq(Pcb)] /\ L \in SUBSET Seq(Pcb) /\ f \in BOOLEAN
        /\ \A r \in Queues : N[r] = cut(k.queue[r])
    BY <1>4, <1>6
  <1>8. \A c \in L : \E d \in k.lost : c = cut(d)
    OBVIOUS
  <1>9. \A y \in Pcb : w[y] = IF y = p THEN NULL ELSE at[y]
    BY <1>2 DEF Move
  <1> HIDE DEF N, L, w, n
  <1>10. /\ n \in KRec /\ n.queue = N /\ n.lost = L /\ n.fault = f
         /\ n.status = k.status /\ n.priority = k.priority /\ n.next_running = k.next_running
         /\ n.current_running = k.current_running /\ n.all = k.all
    <2> HIDE DEF f
    <2> QED  BY <1>2, <1>5, <1>7, UnlinkedFacts
  <1>11. ASSUME f = FALSE
         PROVE  Chained(n) /\ \A y \in Pcb : Linked(n, y) <=> Linked(k, y) /\ y # p
    <2>1. PICK e \in Lists(k) : Inner(e, p)
      BY <1>11
    <2>2. \A r \in Queues : \A y \in Pcb : Contains(k.queue[r], y) <=> at[y] = r
      BY <1>1 DEF Placed
    <2>3. ASSUME NEW c \in Lists(k), Contains(c, p) PROVE c = e
      <3>1. Contains(e, p)
        BY <1>4, <2>1
      <3> QED  BY <2>3, <3>1, OneList
    <2>4. \A c \in Lists(k) : \A y : Contains(cut(c), y) <=> Contains(c, y) /\ y # p
      BY <1>4, <2>1, <2>3
    <2>5. Placed(n.queue, w)
      <3>1. ASSUME NEW r \in Queues, NEW y \in Pcb PROVE Contains(N[r], y) <=> w[y] = r
        <4>1. Contains(N[r], y) <=> Contains(k.queue[r], y) /\ y # p
          BY <1>6, <1>7, <2>4
        <4> QED  BY <1>9, <2>2, <4>1, QueueNames
      <3>2. w \in [Pcb -> Queues \cup {NULL}]
        BY <1>2 DEF Move, w
      <3>3. \A r \in Queues : Distinct(N[r])
        BY <1>4, <1>6, <1>7
      <3> QED  BY <1>7, <1>10, <3>1, <3>2, <3>3 DEF Placed
    <2>6. Dropped(n.lost, w)
      <3>1. ASSUME NEW c \in L PROVE Distinct(c) /\ \A y \in Pcb : Contains(c, y) => w[y] = NULL
        <4>1. PICK d \in k.lost : c = cut(d)
          BY <1>8
        <4>2. d \in Lists(k)
          BY DEF Lists
        <4> QED  BY <1>1, <1>4, <1>9, <2>4, <4>1, <4>2 DEF Dropped
      <3>2. ASSUME NEW c \in L, NEW g \in L, NEW y \in Pcb, Contains(c, y), Contains(g, y) PROVE c = g
        <4>1. PICK d \in k.lost : c = cut(d)
          BY <1>8
        <4>2. PICK h \in k.lost : g = cut(h)
          BY <1>8
        <4>3. d \in Lists(k) /\ h \in Lists(k)
          BY DEF Lists
        <4>4. Contains(d, y) /\ Contains(h, y)
          BY <2>4, <3>2, <4>1, <4>2, <4>3
        <4>5. d = h
          BY <1>1, <4>4 DEF Dropped
        <4> QED  BY <4>1, <4>2, <4>5
      <3> QED  BY <1>7, <1>10, <3>1, <3>2 DEF Dropped
    <2>7. ASSUME NEW y \in Pcb PROVE Linked(n, y) <=> Linked(k, y) /\ y # p
      <3>1. Linked(n, y) <=> (\E r \in Queues : Contains(N[r], y)) \/ \E c \in L : Contains(c, y)
        BY <1>10 DEF Linked, Lists
      <3>2. (\E r \in Queues : Contains(N[r], y)) <=> \E r \in Queues : Contains(k.queue[r], y) /\ y # p
        BY <1>6, <1>7, <2>4
      <3>3. (\E c \in L : Contains(c, y)) <=> \E c \in k.lost : Contains(c, y) /\ y # p
        <4>1. \A c \in k.lost : c \in Lists(k) /\ cut(c) \in L
          BY DEF Lists, L
        <4> QED  BY <1>8, <2>4, <4>1
      <3>4. Linked(k, y) <=> (\E r \in Queues : Contains(k.queue[r], y)) \/ \E c \in k.lost : Contains(c, y)
        BY DEF Linked, Lists
      <3> QED  BY <3>1, <3>2, <3>3, <3>4
    <2> QED  BY <2>5, <2>6, <2>7 DEF Chained
  <1> QED
    BY <1>10, <1>11 DEF Parted, n

\* Either way p is unlinked and the other links are whole, or the kernel faults.
LEMMA UnlinkParts ==
    ASSUME NEW k, NEW S, NEW x, Loose(k, S, x), NEW q \in Queues, NEW p \in Pcb
    PROVE  Parted(k, Unlink(k, q, p), p)
  BY UnlinkOwn, UnlinkOther

\* What the links lead to from c: c itself and linked pcbs.
LEMMA FollowLinks ==
    ASSUME NEW k, NEW S, NEW x, Loose(k, S, x), NEW c \in Pcb
    PROVE  /\ From(k, c) \in Seq(Pcb) /\ Len(From(k, c)) >= 1
           /\ \A i \in 1..Len(From(k, c)) : From(k, c)[i] = c \/ Linked(k, From(k, c)[i])
           /\ \A i \in 2..Len(From(k, c)) : From(k, c)[i] # c
PROOF
  <1> DEFINE A == {s \in Lists(k) : Contains(s, c)}
             f == From(k, c)
  <1>1. PICK at : Placed(k.queue, at) /\ Dropped(k.lost, at)
    BY DEF Loose, Chained
  <1>2. c # NULL
    BY QueueNames
  <1>3. CASE A = {}
    <2>1. f = <<c>>
      BY <1>2, <1>3 DEF From
    <2> QED  BY <2>1
  <1>4. CASE A # {}
    <2> DEFINE s == CHOOSE s \in A : TRUE
    <2>1. s \in Lists(k) /\ Contains(s, c)
      BY <1>4
    <2>2. s \in Seq(Pcb) /\ Distinct(s)
      <3>1. \A d \in Lists(k) : d \in Seq(Pcb) /\ Distinct(d)
        BY <1>1 DEF Lists, Placed, Dropped
      <3> HIDE DEF s
      <3> QED  BY <2>1, <3>1
    <2> DEFINE i == CHOOSE i \in DOMAIN s : s[i] = c
    <2>3. i \in DOMAIN s /\ s[i] = c
      <3> HIDE DEF s
      <3> QED  BY <2>1 DEF Contains
    <2>4. f = SubSeq(s, i, Len(s))
      BY <1>2, <1>4 DEF From
    <2> HIDE DEF s, i
    <2>5. Len(s) \in Nat /\ i \in 1..Len(s) /\ DOMAIN s = 1..Len(s)
      BY <2>2, <2>3
    <2>6. f \in Seq(Pcb) /\ Len(f) = Len(s) - i + 1 /\ \A j \in 1..Len(s) - i + 1 : f[j] = s[i + j - 1]
      BY <2>2, <2>4, <2>5
    <2> HIDE DEF f
    <2>7. ASSUME NEW j \in 1..Len(f) PROVE Linked(k, f[j]) /\ (j >= 2 => f[j] # c)
      <3>1. i + j - 1 \in 1..Len(s) /\ f[j] = s[i + j - 1] /\ (j >= 2 => i + j - 1 # i)
        BY <2>5, <2>6
      <3>2. Contains(s, f[j])
        BY <3>1 DEF Contains
      <3>3. j >= 2 => f[j] # c
        BY <2>2, <2>3, <2>5, <3>1 DEF Distinct
      <3> QED  BY <2>1, <3>2, <3>3 DEF Linked
    <2>8. Len(f) >= 1 /\ \A j \in 2..Len(f) : j \in 1..Len(f) /\ j >= 2
      BY <2>5, <2>6
    <2> QED  BY <2>6, <2>7, <2>8 DEF f
  <1> QED
    <2> HIDE DEF A
    <2> QED  BY <1>3, <1>4

\* p->next is linked, and is not p.
LEMMA NextLink ==
    ASSUME NEW k, NEW S, NEW x, Loose(k, S, x), NEW c \in Pcb
    PROVE  /\ Next_(k, c) \in Pcb \cup {NULL}
           /\ Next_(k, c) \in Pcb => Linked(k, Next_(k, c)) /\ Next_(k, c) # c
PROOF
  <1> DEFINE f == From(k, c)
  <1>1. /\ f \in Seq(Pcb)
        /\ \A i \in 1..Len(f) : f[i] = c \/ Linked(k, f[i])
        /\ \A i \in 2..Len(f) : f[i] # c
    BY FollowLinks
  <1>2. Next_(k, c) = IF Len(f) > 1 THEN f[2] ELSE NULL
    BY DEF Next_
  <1> HIDE DEF f
  <1>3. CASE Len(f) > 1
    BY <1>1, <1>2, <1>3
  <1>4. CASE ~(Len(f) > 1)
    BY <1>2, <1>4, QueueNames
  <1> QED
    BY <1>3, <1>4

\* Between two calls: who runs is one of S.
Wild(k, S) == Loose(k, S, NULL) /\ k.current_running \in S

\* Giving the CPU to somebody of S.
LEMMA DispatchWild ==
    ASSUME NEW k, NEW S, Loose(k, S, NULL), NEW r \in S, NEW lv \in 1..HIGHEST_PRIORITY,
           NEW bo \in [Pcb -> 0..HIGHEST_PRIORITY]
    PROVE  Wild(Dispatch(k, r, lv, bo), S)
PROOF
  <1> DEFINE n == Dispatch(k, r, lv, bo)
  <1>1. k \in KRec /\ k.status \in [Pcb -> Statuses] /\ r \in Pcb
    BY DEF Loose, KRec
  <1>2. [k.status EXCEPT ![r] = "RUNNING"] \in [Pcb -> Statuses]
    BY <1>1 DEF Statuses
  <1>3. n \in KRec
    BY <1>1, <1>2 DEF KRec, Dispatch
  <1>4. /\ n.queue = k.queue /\ n.priority = k.priority /\ n.lost = k.lost /\ n.all = k.all
        /\ n.fault = k.fault /\ n.current_running = r /\ n.next_running = k.next_running
        /\ n.status = [k.status EXCEPT ![r] = "RUNNING"]
    BY <1>1 DEF KRec, Dispatch
  <1> HIDE DEF n
  <1>5. n.status[r] = "RUNNING" /\ \A y \in Pcb : y # r => n.status[y] = k.status[y]
    BY <1>1, <1>4
  <1>6. \A y \in Pcb : Linked(n, y) <=> Linked(k, y)
    BY <1>4 DEF Linked, Lists
  <1>7. Chained(n)
    BY <1>4 DEF Loose, Chained
  <1>8. \A y \in Pcb : y # NULL /\ Linked(n, y) => n.status[y] # "EXITED"
    BY <1>5, <1>6 DEF Loose
  <1> QED
    BY <1>3, <1>4, <1>6, <1>7, <1>8 DEF Wild, Loose, n

\* The scheduler's walk dispatches somebody of S, or faults on an empty queue.
LEMMA PickWild ==
    ASSUME NEW k, NEW S, Loose(k, S, NULL), NEW c \in S \cup {NULL}
    PROVE  Pick(k, c).fault = TRUE \/ Wild(Pick(k, c), S)
PROOF
  <1> DEFINE list == From(k, c)
             ready == k.queue[Ready]
             high(s, n) == {i \in DOMAIN s : Eff(k, s[i]) >= n}
             cp == k.cpu_priority
             below == IF cp = 1 THEN HIGHEST_PRIORITY ELSE cp - 1
             level == CHOOSE n \in 1..below :
                         /\ \A m \in n + 1 .. below : high(ready, m) = {}
                         /\ n = 1 \/ high(ready, n) # {}
             A == high(list, cp)
             B == high(ready, level)
             bo == IF cp = 1 THEN GetBonus(k) ELSE k.bonus
  <1>1. /\ k \in KRec /\ k.queue \in [Queues -> Seq(Pcb)] /\ Ready \in Queues
        /\ ready \in Seq(Pcb) /\ cp \in 1..HIGHEST_PRIORITY /\ HIGHEST_PRIORITY \in Nat \ {0}
        /\ k.bonus \in [Pcb -> 0..HIGHEST_PRIORITY] /\ k.priority \in [Pcb -> 0..HIGHEST_PRIORITY + 1]
        /\ S \subseteq Pcb
    BY QueueNames, KernelAssumption DEF Loose, KRec
  <1>2. list \in Seq(Pcb) /\ \A i \in 1..Len(list) : list[i] \in S
    <2>1. CASE c \in S
      <3>1. /\ From(k, c) \in Seq(Pcb)
            /\ \A i \in 1..Len(From(k, c)) : From(k, c)[i] = c \/ Linked(k, From(k, c)[i])
        BY <1>1, <2>1, FollowLinks
      <3> HIDE DEF list
      <3>2. list \in Seq(Pcb) /\ \A i \in 1..Len(list) : list[i] \in Pcb /\ (list[i] = c \/ Linked(k, list[i]))
        BY <3>1 DEF list
      <3> QED  BY <2>1, <3>2 DEF Loose
    <2>2. CASE c = NULL
      BY <2>2 DEF From
    <2> QED  BY <2>1, <2>2
  <1>3. CASE A # {}
    <2> DEFINE i == MinOf(A)
    <2>1. i \in 1..Len(list)
      <3>1. A \subseteq 1..Len(list) /\ Len(list) \in Nat
        BY <1>2
      <3> HIDE DEF A
      <3>2. A \in SUBSET Nat
        BY <3>1
      <3> QED  BY <1>3, <3>1, <3>2, MinMember
    <2>2. list[i] \in S
      <3> HIDE DEF i, list
      <3> QED  BY <1>2, <2>1
    <2>3. Pick(k, c) = [k EXCEPT !.current_running = list[i], !.status[list[i]] = "RUNNING"]
      BY <1>3 DEF Pick
    <2> HIDE DEF i, list
    <2>4. Pick(k, c) = Dispatch(k, list[i], k.cpu_priority, k.bonus)
      BY <1>1, <2>3 DEF Dispatch, KRec
    <2> DEFINE y == list[i]
    <2> HIDE DEF y
    <2>5. y \in S /\ Pick(k, c) = Dispatch(k, y, k.cpu_priority, k.bonus)
      BY <2>2, <2>4 DEF y
    <2>6. k.cpu_priority \in 1..HIGHEST_PRIORITY /\ k.bonus \in [Pcb -> 0..HIGHEST_PRIORITY]
      BY <1>1
    <2>7. Wild(Dispatch(k, y, k.cpu_priority, k.bonus), S)
      BY <2>5, <2>6, DispatchWild
    <2> QED  BY <2>5, <2>7
  <1>4. CASE A = {} /\ ready = <<>>
    <2>1. Pick(k, c) = [k EXCEPT !.fault = TRUE]
      BY <1>4 DEF Pick
    <2> HIDE DEF A
    <2> QED  BY <1>1, <2>1 DEF KRec
  <1>5. CASE A = {} /\ ready # <<>>
    <2>1. Len(ready) \in Nat /\ 1 \in DOMAIN ready
      <3> HIDE DEF ready
      <3> QED  BY <1>1, <1>5
    <2>2. below \in Nat \ {0} /\ 1..below \subseteq 1..HIGHEST_PRIORITY
      <3> HIDE DEF cp
      <3> QED  BY <1>1
    <2>3. level \in 1..below /\ (level = 1 \/ B # {})
      <3> DEFINE H == [n \in 1..below |-> high(ready, n)]
      <3> HIDE DEF below
      <3>1. \E n \in 1..below : (\A m \in n + 1 .. below : H[m] = {}) /\ (n = 1 \/ H[n] # {})
        <4> HIDE DEF H
        <4> QED  BY <2>2, TopLevel
      <3>2. \A n \in 1..below : \A m \in n + 1 .. below : m \in 1..below
        BY <2>2
      <3>3. \E n \in 1..below : (\A m \in n + 1 .. below : high(ready, m) = {})
                                /\ (n = 1 \/ high(ready, n) # {})
        <4>1. \A n \in 1..below : H[n] = high(ready, n)
          OBVIOUS
        <4> HIDE DEF H, high
        <4> QED  BY <3>1, <3>2, <4>1
      <3> HIDE DEF high
      <3> QED  BY <3>3
    <2>4. \A i \in DOMAIN ready : ready[i] \in S
      <3> SUFFICES ASSUME NEW i \in DOMAIN ready PROVE ready[i] \in S
        OBVIOUS
      <3>1. ready[i] \in Pcb /\ Contains(ready, ready[i])
        <4> HIDE DEF ready
        <4> QED  BY <1>1 DEF Contains
      <3>2. Linked(k, ready[i])
        <4>1. ready \in Lists(k)
          BY <1>1 DEF Lists
        <4> HIDE DEF ready
        <4> QED  BY <3>1, <4>1 DEF Linked
      <3> QED  BY <3>1, <3>2 DEF Loose
    <2>5. level = 1 => 1 \in B
      <3> HIDE DEF level, ready
      <3> DEFINE y == ready[1]
      <3>1. y \in S
        BY <2>1, <2>4
      <3> HIDE DEF y
      <3>2. k.priority[y] >= 1
        BY <3>1 DEF Loose
      <3>3. k.priority[y] \in Nat /\ k.bonus[y] \in Nat
        BY <1>1, <3>1
      <3>4. Eff(k, y) >= 1
        BY <3>2, <3>3 DEF Eff
      <3> QED  BY <2>1, <3>4 DEF y
    <2>6. B # {}
      <3> HIDE DEF B
      <3> QED  BY <2>3, <2>5
    <2> DEFINE i == MinOf(B)
    <2>7. i \in DOMAIN ready
      <3>1. B \subseteq DOMAIN ready
        OBVIOUS
      <3> HIDE DEF B, ready
      <3>2. B \in SUBSET Nat
        BY <1>1, <3>1
      <3> QED  BY <2>6, <3>1, <3>2, MinMember
    <2>8. bo \in [Pcb -> 0..HIGHEST_PRIORITY]
      BY <1>1, BonusTyped
    <2>9. Pick(k, c) = [[k EXCEPT !.current_running = ready[i], !.status[ready[i]] = "RUNNING"]
                           EXCEPT !.cpu_priority = level, !.bonus = IF k.cpu_priority = 1 THEN GetBonus(k) ELSE @]
      BY <1>5 DEF Pick
    <2> HIDE DEF i, ready, level
    <2>10. Pick(k, c) = Dispatch(k, ready[i], level, bo)
      BY <1>1, <2>9 DEF Dispatch, KRec
    <2>11. level \in 1..HIGHEST_PRIORITY /\ ready[i] \in S
      <3> HIDE DEF below
      <3> QED  BY <2>2, <2>3, <2>4, <2>7
    <2> HIDE DEF bo
    <2> DEFINE y == ready[i]
    <2> HIDE DEF y
    <2>12. y \in S /\ Pick(k, c) = Dispatch(k, y, level, bo)
      BY <2>10, <2>11 DEF y
    <2>13. Wild(Dispatch(k, y, level, bo), S)
      BY <2>8, <2>11, <2>12, DispatchWild
    <2> QED  BY <2>12, <2>13
  <1> QED
    <2> HIDE DEF A, ready
    <2> QED  BY <1>3, <1>4, <1>5

\* Fields that the contract does not look at may differ, and nobody exits.
LEMMA LooseSame ==
    ASSUME NEW k, NEW S, NEW x, Loose(k, S, x), NEW n \in KRec,
           n.queue = k.queue, n.lost = k.lost, n.fault = k.fault, n.priority = k.priority,
           n.all = k.all, n.next_running = k.next_running,
           \A y \in Pcb : n.status[y] # "EXITED" \/ n.status[y] = k.status[y]
    PROVE  Loose(n, S, x)
PROOF
  <1>1. \A y \in Pcb : Linked(n, y) <=> Linked(k, y)
    BY DEF Linked, Lists
  <1>2. Chained(n)
    BY DEF Loose, Chained
  <1> QED  BY <1>1, <1>2 DEF Loose

\* do_scheduler, after a call that blocked or with a caller that goes on.
LEMMA SchedulerWild ==
    ASSUME NEW k0, NEW S, Loose(k0, S, NULL), k0.block_accur = TRUE \/ k0.current_running \in S
    PROVE  Scheduler(k0).fault = TRUE \/ Wild(Scheduler(k0), S)
PROOF
  <1> DEFINE k == WakeSleepers(k0)
             c == k0.current_running
  <1>0. Loose(k, S, NULL) /\ Same(k0, k)
    BY WakeSleepersLoose
  <1>1. Loose(k, S, NULL) /\ Same(k0, k) /\ k0.fault = FALSE /\ k0 \in KRec
    <2> HIDE DEF k
    <2> QED  BY <1>0 DEF Loose
  <1>2. k0.block_accur \in BOOLEAN /\ k.block_accur = k0.block_accur /\ k.current_running = c
    BY <1>1 DEF KRec, Same
  <1> HIDE DEF k, c
  <1>3. k \in KRec /\ S \subseteq Pcb /\ k.status \in [Pcb -> Statuses]
    BY <1>1 DEF Loose, KRec
  <1>4. CASE k0.block_accur = TRUE
    <2> DEFINE n == [k EXCEPT !.block_accur = FALSE]
               d == k.next_running
    <2>1. Scheduler(k0) = Pick(n, d)
      BY <1>1, <1>2, <1>4 DEF Scheduler, k
    <2>2. /\ n \in KRec /\ n.queue = k.queue /\ n.priority = k.priority
          /\ n.lost = k.lost /\ n.status = k.status /\ n.fault = k.fault
          /\ n.next_running = k.next_running /\ n.all = k.all
      BY <1>3 DEF KRec
    <2>3. d \in S \cup {NULL}
      BY <1>1 DEF Loose
    <2> HIDE DEF n, d
    <2>4. Loose(n, S, NULL)
      BY <1>1, <2>2, LooseSame
    <2> QED  BY <2>1, <2>3, <2>4, PickWild
  <1>5. CASE k0.block_accur = FALSE
    <2> DEFINE n == [k EXCEPT !.status[c] = "READY"]
               d == Next_(k, c)
    <2>1. c \in S
      BY <1>5 DEF c
    <2>2. Scheduler(k0) = Pick(n, d)
      BY <1>1, <1>2, <1>5 DEF Scheduler, k, c
    <2>3. [k.status EXCEPT ![c] = "READY"] \in [Pcb -> Statuses]
      BY <1>3, <2>1 DEF Statuses
    <2>4. /\ n \in KRec /\ n.queue = k.queue /\ n.priority = k.priority
          /\ n.lost = k.lost /\ n.fault = k.fault /\ n.next_running = k.next_running
          /\ n.all = k.all /\ n.status = [k.status EXCEPT ![c] = "READY"]
      BY <1>3, <2>3 DEF KRec
    <2>5. d \in S \cup {NULL}
      <3>1. d \in Pcb \cup {NULL} /\ (d \in Pcb => Linked(k, d))
        BY <1>1, <1>3, <2>1, NextLink
      <3> HIDE DEF d
      <3> QED  BY <1>1, <3>1 DEF Loose
    <2> HIDE DEF n, d
    <2>6. \A y \in Pcb : n.status[y] # "EXITED" \/ n.status[y] = k.status[y]
      BY <1>3, <2>1, <2>4
    <2>7. Loose(n, S, NULL)
      BY <1>1, <2>4, <2>6, LooseSame
    <2> QED  BY <2>2, <2>5, <2>7, PickWild
  <1> QED
    BY <1>2, <1>4, <1>5

\* A fault on the way to the scheduler stops there.
LEMMA SchedulerFault ==
    ASSUME NEW k, k.fault = TRUE
    PROVE  Scheduler(k).fault = TRUE
  BY DEF Scheduler

\* The timer interrupt.
LEMMA TimerWild ==
    ASSUME NEW k, NEW S, Wild(k, S)
    PROVE  Timer(k).fault = TRUE \/ Wild(Timer(k), S)
PROOF
  <1> DEFINE c == k.current_running
             lf == [p \in Pcb |-> IF Contains(k.queue[Sleep], p) /\ k.left[p] > 0
                                  THEN k.left[p] - 1 ELSE k.left[p]]
             n == [k EXCEPT !.left = lf, !.bonus[c] = 0]
  <1>1. k \in KRec /\ k.left \in [Pcb -> Nat] /\ k.bonus \in [Pcb -> 0..HIGHEST_PRIORITY]
    BY DEF Wild, Loose, KRec
  <1>2. lf \in [Pcb -> Nat]
    <2>1. \A p \in Pcb : k.left[p] \in Nat /\ (k.left[p] > 0 => k.left[p] - 1 \in Nat)
      BY <1>1
    <2> QED  BY <2>1
  <1>3. [k.bonus EXCEPT ![c] = 0] \in [Pcb -> 0..HIGHEST_PRIORITY]
    <2>1. 0 \in 0..HIGHEST_PRIORITY
      BY KernelAssumption
    <2> HIDE DEF c
    <2> QED  BY <1>1, <2>1
  <1>4. Timer(k) = Scheduler(n)
    BY DEF Timer
  <1> HIDE DEF lf
  <1>5. /\ n \in KRec /\ n.queue = k.queue /\ n.priority = k.priority
        /\ n.lost = k.lost /\ n.fault = k.fault /\ n.next_running = k.next_running
        /\ n.status = k.status /\ n.current_running = c /\ n.all = k.all
    BY <1>1, <1>2, <1>3 DEF KRec
  <1> HIDE DEF n, c
  <1>6. Loose(n, S, NULL)
    BY <1>5, LooseSame DEF Wild
  <1>7. n.current_running \in S
    BY <1>5 DEF Wild, c
  <1> QED
    BY <1>4, <1>6, <1>7, SchedulerWild

\* Who is unlinked is linked again, into q.
LEMMA PushLinks ==
    ASSUME NEW k, Chained(k), NEW p \in Pcb, ~Linked(k, p), NEW q \in Queues, NEW n,
           n.queue = [k.queue EXCEPT ![q] = Append(@, p)], n.lost = k.lost
    PROVE  Chained(n) /\ \A y \in Pcb : Linked(n, y) <=> Linked(k, y) \/ y = p
PROOF
  <1>1. PICK at : Placed(k.queue, at) /\ Dropped(k.lost, at)
    BY DEF Chained
  <1> DEFINE w == Move(at, p, q)
             N == [k.queue EXCEPT ![q] = Append(@, p)]
  <1>2. at \in [Pcb -> Queues \cup {NULL}]
    BY <1>1 DEF Placed
  <1>3. at[p] = NULL /\ \A c \in k.lost : ~Contains(c, p)
    BY <1>1, LinkedFacts
  <1>4. Placed(N, w)
    BY <1>1, <1>3, Enters
  <1>5. \A y \in Pcb : w[y] = IF y = p THEN q ELSE at[y]
    BY <1>2 DEF Move
  <1> HIDE DEF w, N
  <1>6. Placed(n.queue, w)
    BY <1>4 DEF N
  <1>7. Dropped(n.lost, w)
    BY <1>1, <1>3, <1>5 DEF Dropped
  <1>8. ASSUME NEW y \in Pcb PROVE Linked(n, y) <=> Linked(k, y) \/ y = p
    <2>1. Linked(n, y) <=> w[y] # NULL \/ \E c \in n.lost : Contains(c, y)
      BY <1>6, LinkedFacts
    <2>2. Linked(k, y) <=> at[y] # NULL \/ \E c \in k.lost : Contains(c, y)
      BY <1>1, LinkedFacts
    <2> QED  BY <1>5, <2>1, <2>2, QueueNames
  <1> QED  BY <1>6, <1>7, <1>8 DEF Chained

\* do_block, also of a caller that is in no queue or in the wrong one.
LEMMA BlockLoose ==
    ASSUME NEW k, NEW S, Wild(k, S), NEW q \in Queues
    PROVE  \/ Block(k, q).fault = TRUE
           \/ Loose(Block(k, q), S, NULL) /\ Block(k, q).block_accur = TRUE
PROOF
  <1> DEFINE p == k.current_running
             u == Unlink(k, Ready, p)
             z == Next_(k, p)
             N == [u.queue EXCEPT ![q] = Append(@, p)]
             T == [u.status EXCEPT ![p] = "BLOCKED"]
             n == Block(k, q)
  <1>1. Loose(k, S, NULL) /\ p \in S /\ p \in Pcb /\ k \in KRec
    BY DEF Wild, Loose
  <1>2. Parted(k, u, p)
    <2> HIDE DEF p
    <2> QED  BY <1>1, QueueNames, UnlinkParts
  <1>3. z \in Pcb \cup {NULL} /\ (z \in Pcb => Linked(k, z) /\ z # p)
    <2> HIDE DEF p
    <2> QED  BY <1>1, NextLink
  <1>4. n = [u EXCEPT !.status[p] = "BLOCKED", !.next_running = z, !.queue[q] = Append(@, p), !.block_accur = TRUE]
    BY DEF Block
  <1> HIDE DEF u, z, p
  <1>5. u \in KRec /\ u.queue \in [Queues -> Seq(Pcb)] /\ u.status \in [Pcb -> Statuses]
        /\ u.fault \in BOOLEAN
    BY <1>2 DEF Parted, KRec
  <1>6. N \in [Queues -> Seq(Pcb)] /\ T \in [Pcb -> Statuses]
    <2>1. Append(u.queue[q], p) \in Seq(Pcb)
      BY <1>1, <1>5
    <2> QED  BY <1>5, <2>1 DEF Statuses
  <1>7. n = Vacate(u, N, T, z)
    BY <1>4 DEF Vacate
  <1>8. T[p] = "BLOCKED" /\ \A y \in Pcb : y # p => T[y] = u.status[y]
    BY <1>1, <1>5
  <1> HIDE DEF N, T, n
  <1>9. /\ n \in KRec /\ n.queue = N /\ n.status = T /\ n.next_running = z /\ n.block_accur = TRUE
        /\ Kept(u, n)
    <2>1. /\ u \in KRec /\ N \in [Queues -> Seq(Pcb)] /\ T \in [Pcb -> Statuses]
          /\ z \in Pcb \cup {NULL} /\ n = Vacate(u, N, T, z)
      BY <1>3, <1>5, <1>6, <1>7
    <2>2. n \in KRec
      BY <2>1 DEF KRec, Vacate
    <2> QED  BY <2>1, <2>2 DEF KRec, Vacate, Kept
  <1>10. CASE u.fault = TRUE
    BY <1>9, <1>10 DEF Kept, n
  <1>11. CASE u.fault = FALSE
    <2>1. Chained(u) /\ \A y \in Pcb : Linked(u, y) <=> Linked(k, y) /\ y # p
      BY <1>2, <1>11 DEF Parted
    <2>2. n.queue = [u.queue EXCEPT ![q] = Append(@, p)] /\ n.lost = u.lost
      BY <1>9 DEF N, Kept
    <2>3. Chained(n) /\ \A y \in Pcb : Linked(n, y) <=> Linked(u, y) \/ y = p
      BY <1>1, <2>1, <2>2, PushLinks
    <2>4. n.fault = FALSE /\ n.priority = k.priority /\ u.status = k.status /\ n.all = k.all
      BY <1>2, <1>9, <1>11 DEF Kept, Parted
    <2>5. z \in S \cup {NULL}
      BY <1>1, <1>3 DEF Loose
    <2>6. \A y \in Pcb : Linked(n, y) => y \in S
      BY <1>1, <2>1, <2>3 DEF Loose
    <2>7. \A y \in Pcb : y # NULL /\ Linked(n, y) => n.status[y] # "EXITED"
      BY <1>1, <1>8, <1>9, <2>1, <2>3, <2>4 DEF Loose
    <2>8. S \subseteq Pcb /\ Headed(k.all) /\ \A y \in S : k.priority[y] >= 1
      BY <1>1 DEF Loose
    <2>9. Loose(n, S, NULL)
      BY <1>9, <2>3, <2>4, <2>5, <2>6, <2>7, <2>8 DEF Loose
    <2> QED  BY <1>9, <2>9 DEF n
  <1> QED
    BY <1>5, <1>10, <1>11

\* A call that blocks its caller.
LEMMA BlockWild ==
    ASSUME NEW k, NEW S, Wild(k, S), NEW q \in Queues
    PROVE  Scheduler(Block(k, q)).fault = TRUE \/ Wild(Scheduler(Block(k, q)), S)
PROOF
  <1> DEFINE n == Block(k, q)
  <1>1. n.fault = TRUE \/ (Loose(n, S, NULL) /\ n.block_accur = TRUE)
    BY BlockLoose
  <1> HIDE DEF n
  <1>2. Scheduler(n).fault = TRUE \/ Wild(Scheduler(n), S)
    BY <1>1, SchedulerFault, SchedulerWild
  <1> QED  BY <1>2 DEF n

\* do_exit takes p out of what links and pointers lead to.
LEMMA ExitLoose ==
    ASSUME NEW k, NEW S, NEW p \in Pcb, Loose(k, S, p)
    PROVE  \/ ExitLeaves(k, p).fault = TRUE
           \/ Loose(ExitLeaves(k, p), S \ {p}, NULL) /\ ExitLeaves(k, p).block_accur = TRUE
PROOF
  <1> DEFINE u == Unlink(k, Ready, p)
             z == Next_(k, p)
             n == ExitLeaves(k, p)
  <1>1. Parted(k, u, p)
    BY QueueNames, UnlinkParts
  <1>2. z \in Pcb \cup {NULL} /\ (z \in Pcb => Linked(k, z) /\ z # p)
    BY NextLink
  <1>3. n = [u EXCEPT !.next_running = z, !.block_accur = TRUE]
    BY DEF ExitLeaves
  <1> HIDE DEF u, z, n
  <1>4. u \in KRec
    BY <1>1 DEF Parted
  <1>5. /\ n \in KRec /\ n.queue = u.queue /\ n.lost = u.lost /\ n.status = u.status
        /\ n.priority = u.priority /\ n.fault = u.fault /\ n.next_running = z
        /\ n.block_accur = TRUE /\ n.all = u.all
    BY <1>2, <1>3, <1>4 DEF KRec
  <1>6. CASE u.fault = FALSE
    <2>1. Chained(u) /\ \A y \in Pcb : Linked(u, y) <=> Linked(k, y) /\ y # p
      BY <1>1, <1>6 DEF Parted
    <2>2. Chained(n) /\ \A y \in Pcb : Linked(n, y) <=> Linked(u, y)
      BY <1>5, <2>1 DEF Chained, Linked, Lists
    <2>3. z \in (S \ {p}) \cup {NULL}
      BY <1>2 DEF Loose
    <2>4. \A y \in Pcb : Linked(n, y) => y \in S \ {p} /\ n.status[y] # "EXITED"
      BY <1>1, <1>5, <2>1, <2>2 DEF Loose, Parted
    <2>5. S \ {p} \subseteq Pcb /\ Headed(n.all) /\ \A y \in S \ {p} : n.priority[y] >= 1
      BY <1>1, <1>5 DEF Loose, Parted
    <2>6. Loose(n, S \ {p}, NULL)
      BY <1>5, <1>6, <2>2, <2>3, <2>4, <2>5 DEF Loose
    <2> QED  BY <1>5, <2>6 DEF n
  <1>7. CASE u.fault # FALSE
    <2>1. u.fault = TRUE
      BY <1>4, <1>7 DEF KRec
    <2> QED  BY <1>5, <2>1 DEF n
  <1> QED
    BY <1>6, <1>7

\* An exit dispatches somebody else.
LEMMA ExitWild ==
    ASSUME NEW k, NEW S, Wild(k, S), NEW p \in Pcb,
           locks[p] \in [Slots -> Locks \cup {NULL}], sems[p] \in [Slots -> Sems \cup {NULL}]
    PROVE  \/ Scheduler(ExitLeaves(FreeAll(k, p), p)).fault = TRUE
           \/ Wild(Scheduler(ExitLeaves(FreeAll(k, p), p)), S \ {p})
PROOF
  <1> DEFINE f == FreeAll(k, p)
             n == ExitLeaves(f, p)
             S1 == S \ {p}
  <1>1. Loose(f, S, p)
    BY FreeAllLoose DEF Wild
  <1> HIDE DEF f
  <1>2. n.fault = TRUE \/ (Loose(n, S1, NULL) /\ n.block_accur = TRUE)
    BY <1>1, ExitLoose
  <1> HIDE DEF n, S1
  <1>3. Scheduler(n).fault = TRUE \/ Wild(Scheduler(n), S1)
    BY <1>2, SchedulerFault, SchedulerWild
  <1> QED
    BY <1>3 DEF n, f, S1

\* do_kill's writes: the victim's queues, the victim's links, block_accur.
Killed(k, t, q) == [Unlink(FreeAll(k, t), q, t) EXCEPT !.block_accur = TRUE]

\* do_kill leaves next_running and the caller as they are; the victim may be
\* next_running still, but no links lead to it.
LEMMA KillWild ==
    ASSUME NEW k, NEW S, Wild(k, S), NEW t \in Pcb, NEW q \in Queues,
           locks[t] \in [Slots -> Locks \cup {NULL}], sems[t] \in [Slots -> Sems \cup {NULL}]
    PROVE  Killed(k, t, q).fault = TRUE \/ Wild(Killed(k, t, q), S)
PROOF
  <1> DEFINE f == FreeAll(k, t)
             u == Unlink(f, q, t)
             n == Killed(k, t, q)
  <1>1. Loose(f, S, t) /\ Same(k, f)
    BY FreeAllLoose DEF Wild
  <1> HIDE DEF f
  <1>2. Parted(f, u, t)
    BY <1>1, UnlinkParts
  <1>3. n = [u EXCEPT !.block_accur = TRUE]
    BY DEF Killed, f
  <1> HIDE DEF u, n
  <1>4. u \in KRec
    BY <1>2 DEF Parted
  <1>5. /\ n \in KRec /\ n.queue = u.queue /\ n.lost = u.lost /\ n.status = u.status
        /\ n.priority = u.priority /\ n.fault = u.fault /\ n.next_running = u.next_running
        /\ n.current_running = u.current_running /\ n.all = u.all
    BY <1>3, <1>4 DEF KRec
  <1>6. CASE u.fault = FALSE
    <2>1. Chained(u) /\ \A y \in Pcb : Linked(u, y) <=> Linked(f, y) /\ y # t
      BY <1>2, <1>6 DEF Parted
    <2>2. Chained(n) /\ \A y \in Pcb : Linked(n, y) <=> Linked(u, y)
      BY <1>5, <2>1 DEF Chained, Linked, Lists
    <2>3. \A y \in Pcb : Linked(n, y) => y \in S /\ n.status[y] # "EXITED"
      BY <1>1, <1>2, <1>5, <2>1, <2>2 DEF Loose, Parted
    <2>4. /\ S \subseteq Pcb /\ n.next_running \in S \cup {NULL} /\ Headed(n.all)
          /\ \A y \in S : n.priority[y] >= 1
      BY <1>1, <1>2, <1>5 DEF Loose, Parted
    <2>5. n.current_running \in S
      BY <1>1, <1>2, <1>5 DEF Wild, Same, Parted
    <2>6. Wild(n, S)
      BY <1>5, <1>6, <2>2, <2>3, <2>4, <2>5 DEF Loose, Wild
    <2> QED  BY <2>6 DEF n
  <1>7. CASE u.fault # FALSE
    <2>1. u.fault = TRUE
      BY <1>4, <1>7 DEF KRec
    <2> QED  BY <1>5, <2>1 DEF n
  <1> QED
    BY <1>6, <1>7

\* What queue_init writes.
Inited(k, Q, L, A) == [k EXCEPT !.queue = Q, !.lost = L, !.all = A]

\* queue_init of a queue in use drops its list: the links are intact, and
\* nobody is reachable that was not.
LEMMA QueueInitWild ==
    ASSUME NEW k, NEW S, Wild(k, S), NEW q \in Objects
    PROVE  Wild(QueueInit(k, q), S)
PROOF
  <1> DEFINE Q == [k.queue EXCEPT ![q] = <<>>]
             L == IF k.queue[q] = <<>> THEN k.lost ELSE k.lost \cup {k.queue[q]}
             A == IF Contains(k.all, q)
                  THEN SubSeq(k.all, 1, CHOOSE i \in DOMAIN k.all : k.all[i] = q)
                  ELSE Append(k.all, q)
             n == QueueInit(k, q)
  <1>1. PICK at : Placed(k.queue, at) /\ Dropped(k.lost, at)
    BY DEF Wild, Loose, Chained
  <1> DEFINE w == [y \in Pcb |-> IF at[y] = q THEN NULL ELSE at[y]]
  <1>2. /\ k \in KRec /\ k.queue \in [Queues -> Seq(Pcb)] /\ k.all \in Seq(Queues)
        /\ k.lost \in SUBSET Seq(Pcb) /\ at \in [Pcb -> Queues \cup {NULL}]
        /\ q \in Queues /\ q \notin {Ready, Sleep} /\ Headed(k.all)
    BY <1>1, QueueNames, AddressAssumption DEF Wild, Loose, KRec, Placed
  <1>3. A \in Seq(Queues) /\ Headed(A)
    <2>1. CASE Contains(k.all, q)
      <3> DEFINE i == CHOOSE i \in DOMAIN k.all : k.all[i] = q
      <3>1. i \in 1..Len(k.all) /\ k.all[i] = q
        BY <1>2, <2>1 DEF Contains
      <3>2. A = SubSeq(k.all, 1, i)
        BY <2>1
      <3> HIDE DEF i, A
      <3>3. i > 2
        BY <1>2, <3>1 DEF Headed
      <3>4. A \in Seq(Queues) /\ Len(A) = i /\ \A j \in 1..i : A[j] = k.all[j]
        BY <1>2, <3>1, <3>2
      <3>5. A[1] = Ready /\ A[2] = Sleep /\ Len(A) >= 2
        BY <1>2, <3>1, <3>3, <3>4 DEF Headed
      <3>6. \A j \in 3..i : j \in 1..i /\ j \in 3..Len(k.all)
        BY <3>1
      <3>7. \A j \in 3..Len(A) : A[j] \notin {Ready, Sleep}
        BY <1>2, <3>4, <3>6 DEF Headed
      <3> QED  BY <3>4, <3>5, <3>7 DEF Headed
    <2>2. CASE ~Contains(k.all, q)
      <3>1. A = Append(k.all, q)
        BY <2>2
      <3> HIDE DEF A
      <3>2. /\ A \in Seq(Queues) /\ Len(A) = Len(k.all) + 1 /\ A[Len(A)] = q
            /\ \A j \in 1..Len(k.all) : A[j] = k.all[j]
        BY <1>2, <3>1
      <3>3. Len(k.all) \in Nat /\ Len(k.all) >= 2
        BY <1>2 DEF Headed
      <3>4. \A j \in 3..Len(A) : j = Len(A) \/ (j \in 3..Len(k.all) /\ j \in 1..Len(k.all))
        BY <3>2, <3>3
      <3>5. A[1] = Ready /\ A[2] = Sleep /\ Len(A) >= 2
        <4>1. 1 \in 1..Len(k.all) /\ 2 \in 1..Len(k.all)
          BY <3>3
        <4> QED  BY <1>2, <3>2, <3>3, <4>1 DEF Headed
      <3>6. \A j \in 3..Len(A) : A[j] \notin {Ready, Sleep}
        BY <1>2, <3>2, <3>4 DEF Headed
      <3> QED  BY <3>2, <3>5, <3>6 DEF Headed
    <2> QED  BY <2>1, <2>2
  <1>4. n = Inited(k, Q, L, A)
    BY DEF QueueInit, Inited
  <1>5. Q \in [Queues -> Seq(Pcb)] /\ L \in SUBSET Seq(Pcb)
    BY <1>2
  <1>6. /\ w \in [Pcb -> Queues \cup {NULL}]
        /\ \A y \in Pcb : w[y] = IF at[y] = q THEN NULL ELSE at[y]
    BY <1>2
  <1>7. \A r \in Queues : Q[r] = IF r = q THEN <<>> ELSE k.queue[r]
    BY <1>2
  <1>8. \A c : c \in L => c \in k.lost \/ c = k.queue[q]
    OBVIOUS
  <1>9. \A y : Contains(k.queue[q], y) => \E c \in L : Contains(c, y)
    <2>1. k.queue[q] = <<>> => \A y : ~Contains(k.queue[q], y)
      BY DEF Contains
    <2> QED  BY <2>1
  <1>10. k.lost \subseteq L
    OBVIOUS
  <1> HIDE DEF Q, L, A, w, n
  <1>11. /\ n \in KRec /\ n.queue = Q /\ n.lost = L /\ n.status = k.status
         /\ n.priority = k.priority /\ n.fault = k.fault /\ n.next_running = k.next_running
         /\ n.current_running = k.current_running /\ n.all = A
    <2>1. n \in KRec
      BY <1>2, <1>3, <1>4, <1>5 DEF KRec, Inited
    <2> QED  BY <1>2, <1>4, <2>1 DEF KRec, Inited
  <1>12. Placed(n.queue, w)
    <2>1. \A p \in Pcb : \A r \in Queues : Contains(Q[r], p) <=> w[p] = r
      <3> SUFFICES ASSUME NEW p \in Pcb, NEW r \in Queues PROVE Contains(Q[r], p) <=> w[p] = r
        OBVIOUS
      <3>1. Contains(k.queue[r], p) <=> at[p] = r
        BY <1>1 DEF Placed
      <3>2. ~Contains(<<>>, p)
        BY DEF Contains
      <3> QED  BY <1>6, <1>7, <3>1, <3>2, QueueNames
    <2>2. \A r \in Queues : Distinct(Q[r])
      <3>1. Distinct(<<>>)
        BY DEF Distinct
      <3> QED  BY <1>1, <1>7, <3>1 DEF Placed
    <2> QED  BY <1>5, <1>6, <1>11, <2>1, <2>2 DEF Placed
  <1>13. Dropped(n.lost, w)
    <2>1. ASSUME NEW c \in L PROVE Distinct(c) /\ \A y \in Pcb : Contains(c, y) => w[y] = NULL
      BY <1>1, <1>2, <1>6, <1>8 DEF Placed, Dropped
    <2>2. ASSUME NEW c \in L, NEW d \in L, NEW y \in Pcb, Contains(c, y), Contains(d, y) PROVE c = d
      <3>1. (c \in k.lost \/ c = k.queue[q]) /\ (d \in k.lost \/ d = k.queue[q])
        BY <1>8
      <3>2. Contains(k.queue[q], y) => at[y] = q /\ at[y] # NULL
        BY <1>1, QueueNames DEF Placed
      <3>3. \A e \in k.lost : Contains(e, y) => at[y] = NULL
        BY <1>1 DEF Dropped
      <3>4. CASE c \in k.lost /\ d \in k.lost
        BY <1>1, <2>2, <3>4 DEF Dropped
      <3> QED  BY <2>2, <3>1, <3>2, <3>3, <3>4
    <2> QED  BY <1>5, <1>11, <2>1, <2>2 DEF Dropped
  <1>14. \A y \in Pcb : Linked(n, y) => Linked(k, y)
    <2> SUFFICES ASSUME NEW y \in Pcb, Linked(n, y) PROVE Linked(k, y)
      OBVIOUS
    <2>1. w[y] # NULL \/ \E c \in L : Contains(c, y)
      BY <1>11, <1>12, LinkedFacts
    <2>2. at[y] # NULL \/ \E c \in k.lost : Contains(c, y)
      BY <1>1, <1>6, <1>8, <2>1, QueueNames DEF Placed
    <2> QED  BY <1>1, <2>2, LinkedFacts
  <1>15. Loose(n, S, NULL) /\ n.current_running \in S
    BY <1>3, <1>11, <1>12, <1>13, <1>14 DEF Wild, Loose, Chained
  <1> QED
    BY <1>15 DEF Wild, n

\* do_spawn links a pcb that nothing led to.
LEMMA SpawnWild ==
    ASSUME NEW k, NEW S, Wild(k, S), NEW x \in Pcb, k.status[x] = "EXITED", NEW prio \in Prios
    PROVE  Wild(Spawned(k, x, prio), S \cup {x})
PROOF
  <1> DEFINE T == [k.status EXCEPT ![x] = "READY"]
             B == [k.bonus EXCEPT ![x] = 0]
             P == [k.priority EXCEPT ![x] = prio]
             Q == [k.queue EXCEPT ![Ready] = Append(@, x)]
             n == Spawned(k, x, prio)
  <1>1. /\ k \in KRec /\ k.queue \in [Queues -> Seq(Pcb)] /\ k.status \in [Pcb -> Statuses]
        /\ k.bonus \in [Pcb -> 0..HIGHEST_PRIORITY] /\ k.priority \in [Pcb -> 0..HIGHEST_PRIORITY + 1]
        /\ Chained(k) /\ k.fault = FALSE
    BY DEF Wild, Loose, KRec
  <1>2. ~Linked(k, x)
    BY QueueNames DEF Wild, Loose
  <1>3. n = [k EXCEPT !.status = T, !.bonus = B, !.priority = P, !.queue = Q]
    BY DEF Spawned
  <1>4. prio \in 0..HIGHEST_PRIORITY + 1 /\ prio >= 1 /\ 0 \in 0..HIGHEST_PRIORITY
    BY KernelAssumption
  <1>5. B \in [Pcb -> 0..HIGHEST_PRIORITY] /\ P \in [Pcb -> 0..HIGHEST_PRIORITY + 1]
    BY <1>1, <1>4
  <1>6. T \in [Pcb -> Statuses]
    BY <1>1 DEF Statuses
  <1>7. Q \in [Queues -> Seq(Pcb)]
    <2>1. Append(k.queue[Ready], x) \in Seq(Pcb)
      BY <1>1, QueueNames
    <2> QED  BY <1>1, <2>1
  <1>8. /\ T[x] = "READY" /\ \A y \in Pcb : y # x => T[y] = k.status[y]
        /\ P[x] = prio /\ \A y \in Pcb : y # x => P[y] = k.priority[y]
    BY <1>1
  <1> HIDE DEF T, B, P, Q, n
  <1>9. /\ n \in KRec /\ n.queue = Q /\ n.lost = k.lost /\ n.status = T
        /\ n.priority = P /\ n.fault = k.fault /\ n.next_running = k.next_running
        /\ n.current_running = k.current_running /\ n.all = k.all
    <2>1. n \in KRec
      BY <1>1, <1>3, <1>5, <1>6, <1>7 DEF KRec
    <2> QED  BY <1>1, <1>3, <2>1 DEF KRec
  <1>10. n.queue = [k.queue EXCEPT ![Ready] = Append(@, x)] /\ n.lost = k.lost
    BY <1>9 DEF Q
  <1>11. Chained(n) /\ \A y \in Pcb : Linked(n, y) <=> Linked(k, y) \/ y = x
    BY <1>1, <1>2, <1>10, QueueNames, PushLinks
  <1>12. \A y \in S \cup {x} : n.priority[y] >= 1
    BY <1>4, <1>8, <1>9 DEF Wild, Loose
  <1>13. \A y \in Pcb : Linked(n, y) => y \in S \cup {x} /\ n.status[y] # "EXITED"
    BY <1>8, <1>9, <1>11, QueueNames DEF Wild, Loose
  <1>14. n.next_running \in S \cup {x} \cup {NULL} /\ n.current_running \in S \cup {x} /\ S \cup {x} \subseteq Pcb
    BY <1>9 DEF Wild, Loose
  <1> DEFINE R == S \cup {x}
  <1> HIDE DEF R
  <1>15. Wild(n, R)
    BY <1>1, <1>9, <1>11, <1>12, <1>13, <1>14 DEF Wild, Loose, R
  <1> QED
    BY <1>15 DEF n, R

\* do_unblock_all by the process that runs.
LEMMA UnblockAllWild ==
    ASSUME NEW k, NEW S, Wild(k, S), NEW q \in Queues \ {Ready}
    PROVE  Wild(UnblockAll(k, q), S)
PROOF
  <1> DEFINE n == UnblockAll(k, q)
  <1>1. Loose(n, S, NULL) /\ Same(k, n)
    BY UnblockAllLoose DEF Wild
  <1> HIDE DEF n
  <1>2. Wild(n, S)
    BY <1>1 DEF Wild, Same
  <1> QED  BY <1>2 DEF n

\* do_unblock_one by the process that runs.
LEMMA UnblockOneWild ==
    ASSUME NEW k, NEW S, Wild(k, S), NEW q \in Queues \ {Ready}
    PROVE  Wild(UnblockOne(k, q), S)
PROOF
  <1> DEFINE n == UnblockOne(k, q)
  <1>1. Loose(n, S, NULL) /\ Same(k, n)
    BY UnblockOneLoose DEF Wild
  <1> HIDE DEF n
  <1>2. Wild(n, S)
    BY <1>1 DEF Wild, Same
  <1> QED  BY <1>2 DEF n

\* do_sleep.
LEMMA SleepWild ==
    ASSUME NEW k, NEW S, Wild(k, S), NEW p \in Pcb, NEW t \in Nat
    PROVE  \/ Scheduler(Block(Asleep(k, p, t), Sleep)).fault = TRUE
           \/ Wild(Scheduler(Block(Asleep(k, p, t), Sleep)), S)
PROOF
  <1> DEFINE n == Asleep(k, p, t)
  <1>1. k \in KRec /\ k.left \in [Pcb -> Nat] /\ Loose(k, S, NULL) /\ k.current_running \in S
    BY DEF Wild, Loose, KRec
  <1>2. [k.left EXCEPT ![p] = t] \in [Pcb -> Nat]
    BY <1>1
  <1>3. /\ n \in KRec /\ n.queue = k.queue /\ n.lost = k.lost /\ n.status = k.status
        /\ n.fault = k.fault /\ n.priority = k.priority /\ n.next_running = k.next_running
        /\ n.current_running = k.current_running /\ n.all = k.all
    BY <1>1, <1>2 DEF KRec, Asleep
  <1> HIDE DEF n
  <1>4. Loose(n, S, NULL)
    BY <1>1, <1>3, LooseSame
  <1>5. Wild(n, S)
    BY <1>1, <1>3, <1>4 DEF Wild
  <1>6. Scheduler(Block(n, Sleep)).fault = TRUE \/ Wild(Scheduler(Block(n, Sleep)), S)
    BY <1>5, QueueNames, BlockWild
  <1> QED
    BY <1>6 DEF n

\* do_condition_wait.
LEMMA CondWaitWild ==
    ASSUME NEW k, NEW S, Wild(k, S), NEW l \in Queues \ {Ready}, NEW c \in Queues
    PROVE  \/ Scheduler(Block(UnblockAll(k, l), c)).fault = TRUE
           \/ Wild(Scheduler(Block(UnblockAll(k, l), c)), S)
PROOF
  <1> DEFINE n == UnblockAll(k, l)
  <1>1. Wild(n, S)
    BY UnblockAllWild
  <1> HIDE DEF n
  <1>2. Scheduler(Block(n, c)).fault = TRUE \/ Wild(Scheduler(Block(n, c)), S)
    BY <1>1, BlockWild
  <1> QED
    BY <1>2 DEF n

\* The slots and the continuations have their types.
Slotted ==
    /\ locks \in [Pcb -> [Slots -> Locks \cup {NULL}]]
    /\ sems \in [Pcb -> [Slots -> Sems \cup {NULL}]]
    /\ kont \in [Pcb -> Konts]

\* Nobody that links and pointers lead to has gone through do_exit.
Ongoing(S) == Wild(os, S) /\ Slotted /\ \A y \in S : kont[y] # Exited

\* The inductive invariant: some set of processes that have not gone through
\* do_exit holds all that links and pointers lead to, or the kernel has faulted.
LinkInv == os.fault = TRUE \/ \E S : Ongoing(S)

\* At the start the shell is the whole set.
LEMMA LinkInit ==
    ASSUME Init
    PROVE  LinkInv
PROOF
  <1>1. KInv
    BY InitInv
  <1>2. PICK at \in [Pcb -> Queues \cup {NULL}] : At(at)
    BY <1>1 DEF KInv
  <1>3. /\ os \in KRec /\ Placed(os.queue, at) /\ os.lost = {} /\ os.fault = FALSE
        /\ \A p \in Pcb : p # os.current_running => os.status[p] = StatusAt(at[p])
        /\ at[Shell] = Ready /\ Others
    BY <1>2 DEF At, Steady, Base
  <1>4. /\ os.current_running = Shell /\ os.next_running = NULL /\ \A p \in Pcb : kont[p] = User
        /\ os.priority[Shell] = HIGHEST_PRIORITY + 1 /\ os.status[Shell] = "RUNNING"
        /\ \A p \in Pcb \ {Shell} : os.status[p] = "EXITED"
    BY QueueNames DEF Init
  <1>5. Dropped(os.lost, at)
    BY <1>3 DEF Dropped
  <1>6. \A y \in Pcb \ {Shell} : at[y] = NULL
    BY <1>3, <1>4 DEF StatusAt
  <1>7. \A y \in Pcb : Linked(os, y) => y = Shell
    BY <1>3, <1>6, LinkedFacts
  <1>8. os.priority[Shell] >= 1 /\ Headed(os.all)
    <2>1. os.all = <<Ready, Sleep>> \o [i \in 1..NTASK |-> Wait(i - 1)]
      BY DEF Init
    <2> DEFINE W == [i \in 1..NTASK |-> Wait(i - 1)]
    <2>2. NTASK \in Nat /\ \A i \in 1..NTASK : W[i] \notin {Ready, Sleep}
      BY KernelAssumption DEF Wait, Ready, Sleep
    <2>3. Len(W) = NTASK /\ W \in Seq(Queues)
      <3>1. \A i \in 1..NTASK : Wait(i - 1) \in Queues
        BY KernelAssumption DEF Queues, Pcb
      <3>2. W \in [1..NTASK -> Queues]
        BY <3>1
      <3> QED  BY <3>2, KernelAssumption
    <2> HIDE DEF W
    <2>4. /\ Len(os.all) = 2 + NTASK /\ os.all[1] = Ready /\ os.all[2] = Sleep
          /\ \A j \in 3..2 + NTASK : os.all[j] = W[j - 2] /\ j - 2 \in 1..NTASK
      BY <2>1, <2>2, <2>3 DEF W
    <2> QED  BY <1>4, <2>2, <2>4, KernelAssumption DEF Headed
  <1> DEFINE S == {Shell}
  <1>9. \A y : y \in S <=> y = Shell
    OBVIOUS
  <1> HIDE DEF S
  <1>10. Loose(os, S, NULL) /\ os.current_running \in S
    BY <1>3, <1>4, <1>5, <1>7, <1>8, <1>9, QueueNames DEF Loose, Chained
  <1>11. Ongoing(S)
    BY <1>3, <1>4, <1>9, <1>10, KontFacts, QueueNames DEF Ongoing, Wild, Slotted, Others
  <1> QED
    BY <1>11 DEF LinkInv

\* What the invariant says of the caller's view.
LEMMA OngoingFacts ==
    ASSUME NEW S, Ongoing(S)
    PROVE  /\ os \in KRec /\ S \subseteq Pcb /\ Wild(os, S) /\ os.fault = FALSE
           /\ \A p \in Pcb : locks[p] \in [Slots -> Locks \cup {NULL}]
           /\ \A p \in Pcb : sems[p] \in [Slots -> Sems \cup {NULL}]
  BY DEF Ongoing, Wild, Loose, Slotted

\* A call that does not end its caller.
LEMMA GoesOn ==
    ASSUME NEW S, Ongoing(S), NEW p \in Pcb, NEW x \in Konts, x # Exited,
           os'.fault = TRUE \/ Wild(os', S),
           locks' \in [Pcb -> [Slots -> Locks \cup {NULL}]],
           sems' \in [Pcb -> [Slots -> Sems \cup {NULL}]],
           kont' = kont \/ kont' = [kont EXCEPT ![p] = x]
    PROVE  LinkInv'
PROOF
  <1>1. S \subseteq Pcb /\ kont \in [Pcb -> Konts] /\ \A y \in S : kont[y] # Exited
    BY OngoingFacts DEF Ongoing, Slotted
  <1>2. kont' \in [Pcb -> Konts] /\ \A y \in S : kont'[y] # Exited
    BY <1>1
  <1>3. CASE os'.fault = TRUE
    BY <1>3 DEF LinkInv
  <1>4. CASE Wild(os', S)
    <2>1. Ongoing(S)'
      BY <1>2, <1>4 DEF Ongoing, Slotted
    <2> QED  BY <2>1 DEF LinkInv
  <1> QED
    BY <1>3, <1>4

\* The same of a call that leaves slots and continuations alone.
LEMMA GoesOnSame ==
    ASSUME NEW S, Ongoing(S), os'.fault = TRUE \/ Wild(os', S), UNCHANGED <<locks, sems, kont>>
    PROVE  LinkInv'
PROOF
  <1>1. /\ locks' \in [Pcb -> [Slots -> Locks \cup {NULL}]]
        /\ sems' \in [Pcb -> [Slots -> Sems \cup {NULL}]]
    BY DEF Ongoing, Slotted
  <1> QED
    BY <1>1, GoesOn, QueueNames, KontTypes, KontFacts

\* And of one that changes the continuation only.
LEMMA GoesOnTo ==
    ASSUME NEW S, Ongoing(S), NEW p \in Pcb, NEW x \in Konts, x # Exited,
           os'.fault = TRUE \/ Wild(os', S), UNCHANGED <<locks, sems>>,
           kont' = [kont EXCEPT ![p] = x]
    PROVE  LinkInv'
PROOF
  <1>1. /\ locks' \in [Pcb -> [Slots -> Locks \cup {NULL}]]
        /\ sems' \in [Pcb -> [Slots -> Sems \cup {NULL}]]
    BY DEF Ongoing, Slotted
  <1> QED
    BY <1>1, GoesOn

\* do_exit, however it is reached.
LEMMA ExitLinks ==
    ASSUME NEW S, Ongoing(S), NEW p \in Pcb, DoExit(p)
    PROVE  LinkInv'
PROOF
  <1> DEFINE k == FreeAll(os, p)
             R == S \ {p}
  <1>1. os' = Scheduler(ExitLeaves(k, p)) /\ kont' = [kont EXCEPT ![p] = Exited]
        /\ UNCHANGED <<locks, sems>>
    BY DEF DoExit, ExitLeaves
  <1>2. Wild(os, S) /\ locks[p] \in [Slots -> Locks \cup {NULL}] /\ sems[p] \in [Slots -> Sems \cup {NULL}]
    BY OngoingFacts
  <1>3. os'.fault = TRUE \/ Wild(os', R)
    BY <1>1, <1>2, ExitWild
  <1>4. S \subseteq Pcb /\ kont \in [Pcb -> Konts] /\ \A y \in S : kont[y] # Exited
    BY OngoingFacts DEF Ongoing, Slotted
  <1>5. kont' \in [Pcb -> Konts] /\ \A y \in R : kont'[y] # Exited
    BY <1>1, <1>4, KontTypes
  <1> HIDE DEF k, R
  <1>6. CASE os'.fault = TRUE
    BY <1>6 DEF LinkInv
  <1>7. CASE Wild(os', R)
    <2>1. Slotted'
      BY <1>1, <1>5 DEF Ongoing, Slotted
    <2>2. Ongoing(R)'
      BY <1>5, <1>7, <2>1 DEF Ongoing
    <2> QED  BY <2>2 DEF LinkInv
  <1> QED
    BY <1>3, <1>6, <1>7

\* do_spawn.
LEMMA SpawnLinks ==
    ASSUME NEW S, Ongoing(S), NEW p \in Pcb, NEW prio \in Prios, DoSpawn(p, prio)
    PROVE  LinkInv'
PROOF
  <1>1. PICK n \in Exiteds : n = MinOf(Exiteds)
    <2>1. Exiteds \in SUBSET Nat /\ Exiteds # {}
      BY KernelAssumption DEF Exiteds, Pcb, DoSpawn
    <2> QED  BY <2>1, MinMember
  <1> DEFINE d == IF ClearsOwnSlots THEN n ELSE 0
             R == S \cup {n}
  <1>2. /\ os' = Spawned(os, n, prio) /\ kont' = [kont EXCEPT ![n] = User]
        /\ locks' = [locks EXCEPT ![d] = NoSlots] /\ sems' = [sems EXCEPT ![d] = NoSlots]
    BY <1>1 DEF DoSpawn, Spawned
  <1>3. n \in Pcb /\ d \in Pcb /\ os.status[n] = "EXITED"
    BY QueueNames DEF Exiteds, Shell
  <1> HIDE DEF d
  <1>4. Wild(os', R)
    BY <1>2, <1>3, SpawnWild DEF Ongoing
  <1>5. /\ kont \in [Pcb -> Konts] /\ locks \in [Pcb -> [Slots -> Locks \cup {NULL}]]
        /\ sems \in [Pcb -> [Slots -> Sems \cup {NULL}]] /\ S \subseteq Pcb
        /\ \A y \in S : kont[y] # Exited
    BY OngoingFacts DEF Ongoing, Slotted
  <1>6. kont' \in [Pcb -> Konts] /\ \A y \in R : kont'[y] # Exited
    BY <1>2, <1>3, <1>5, KontTypes, KontFacts
  <1>7. NoSlots \in [Slots -> Locks \cup {NULL}] /\ NoSlots \in [Slots -> Sems \cup {NULL}]
    BY DEF NoSlots
  <1>8. /\ locks' \in [Pcb -> [Slots -> Locks \cup {NULL}]]
        /\ sems' \in [Pcb -> [Slots -> Sems \cup {NULL}]]
    BY <1>2, <1>3, <1>5, <1>7
  <1> HIDE DEF R
  <1>9. Ongoing(R)'
    BY <1>4, <1>6, <1>8 DEF Ongoing, Slotted
  <1> QED
    BY <1>9 DEF LinkInv

\* do_kill of another process.
LEMMA KillLinks ==
    ASSUME NEW S, Ongoing(S), NEW p \in Pcb, NEW t \in Pcb, DoKill(p, t)
    PROVE  LinkInv'
PROOF
  <1> DEFINE q == QueueOf(t)
  <1>1. os' = Killed(os, t, q) /\ UNCHANGED <<locks, sems, kont>> /\ Found(t)
    BY DEF DoKill, Killed
  <1>2. os.all \in Seq(Queues)
    BY OngoingFacts DEF KRec
  <1>3. q \in Queues
    <2>1. PICK j \in DOMAIN os.all : Contains(os.queue[os.all[j]], t)
      BY <1>1 DEF Found
    <2>2. \E r \in ToSet(os.all) : Contains(os.queue[r], t)
      BY <2>1 DEF ToSet
    <2>3. q \in ToSet(os.all)
      BY <2>2 DEF QueueOf
    <2> HIDE DEF q
    <2> QED  BY <1>2, <2>3 DEF ToSet
  <1> HIDE DEF q
  <1>4. os'.fault = TRUE \/ Wild(os', S)
    BY <1>1, <1>3, OngoingFacts, KillWild
  <1> QED
    BY <1>1, <1>4, GoesOnSame

\* A blocking call: the caller waits in q and goes on at x.
LEMMA BlockLinks ==
    ASSUME NEW S, Ongoing(S), NEW p \in Pcb, NEW q \in Queues, NEW x \in Konts, x # Exited,
           os' = Scheduler(Block(os, q)), UNCHANGED <<locks, sems>>,
           kont' = kont \/ kont' = [kont EXCEPT ![p] = x]
    PROVE  LinkInv'
PROOF
  <1>1. os'.fault = TRUE \/ Wild(os', S)
    BY OngoingFacts, BlockWild
  <1> QED
    BY <1>1, GoesOnSame, GoesOnTo

\* A call that wakes everybody in q and may clear a slot of the caller.
LEMMA WakeLinks ==
    ASSUME NEW S, Ongoing(S), NEW p \in Pcb, NEW q \in Objects, NEW x,
           os' = UnblockAll(os, q), UNCHANGED kont,
           UNCHANGED locks \/ locks' = [locks EXCEPT ![p] = Clear(@, x)],
           UNCHANGED sems \/ sems' = [sems EXCEPT ![p] = Clear(@, x)]
    PROVE  LinkInv'
PROOF
  <1>1. Wild(os', S)
    BY OngoingFacts, QueueNames, UnblockAllWild
  <1>2. /\ locks' \in [Pcb -> [Slots -> Locks \cup {NULL}]]
        /\ sems' \in [Pcb -> [Slots -> Sems \cup {NULL}]]
    <2>1. /\ locks \in [Pcb -> [Slots -> Locks \cup {NULL}]]
          /\ sems \in [Pcb -> [Slots -> Sems \cup {NULL}]]
      BY DEF Ongoing, Slotted
    <2>2. [locks EXCEPT ![p] = Clear(@, x)] \in [Pcb -> [Slots -> Locks \cup {NULL}]]
      BY <2>1, ClearTypes
    <2>3. [sems EXCEPT ![p] = Clear(@, x)] \in [Pcb -> [Slots -> Sems \cup {NULL}]]
      BY <2>1, ClearTypes
    <2> QED  BY <2>1, <2>2, <2>3
  <1> QED
    BY <1>1, <1>2, GoesOn, QueueNames, KontTypes, KontFacts

\* do_mutex_lock_acquire, and its loop resumed.
LEMMA AcquireLinks ==
    ASSUME NEW S, Ongoing(S), NEW p \in Pcb, NEW l \in Locks, AcquireStep(p, l)
    PROVE  LinkInv'
PROOF
  <1>1. CASE /\ os' = Scheduler(Block(os, l))
             /\ kont' = [kont EXCEPT ![p] = Acquiring(l)]
             /\ UNCHANGED <<locks, sems>>
    BY <1>1, BlockLinks, QueueNames, KontTypes, KontFacts DEF Objects
  <1>2. CASE /\ FreeSlots(locks[p]) # {}
             /\ locks' = [locks EXCEPT ![p][MinOf(FreeSlots(locks[p]))] = l]
             /\ kont' = [kont EXCEPT ![p] = User]
             /\ UNCHANGED <<os, sems>>
    <2> DEFINE i == MinOf(FreeSlots(locks[p]))
    <2>1. i \in Slots
      BY <1>2, OngoingFacts, FreeSlotFacts
    <2>2. locks' = [locks EXCEPT ![p][i] = l]
      BY <1>2
    <2> HIDE DEF i
    <2>3. locks' \in [Pcb -> [Slots -> Locks \cup {NULL}]]
      BY <2>1, <2>2, SlotTypes DEF Ongoing, Slotted
    <2>4. sems' \in [Pcb -> [Slots -> Sems \cup {NULL}]] /\ Wild(os', S)
      BY <1>2 DEF Ongoing, Slotted
    <2> QED  BY <1>2, <2>3, <2>4, GoesOn, KontTypes, KontFacts
  <1>3. CASE DoExit(p)
    BY <1>3, ExitLinks
  <1> QED
    BY <1>1, <1>2, <1>3 DEF AcquireStep

\* do_semaphore_down, and its loop resumed.
LEMMA DownLinks ==
    ASSUME NEW S, Ongoing(S), NEW p \in Pcb, NEW s \in Sems, DownStep(p, s)
    PROVE  LinkInv'
PROOF
  <1>1. CASE /\ os' = Scheduler(Block(os, s))
             /\ kont' = [kont EXCEPT ![p] = Downing(s)]
             /\ UNCHANGED <<locks, sems>>
    BY <1>1, BlockLinks, QueueNames, KontTypes, KontFacts DEF Objects
  <1>2. CASE /\ FreeSlots(sems[p]) # {}
             /\ sems' = [sems EXCEPT ![p][MinOf(FreeSlots(sems[p]))] = s]
             /\ kont' = [kont EXCEPT ![p] = User]
             /\ UNCHANGED <<os, locks>>
    <2> DEFINE i == MinOf(FreeSlots(sems[p]))
    <2>1. i \in Slots
      BY <1>2, OngoingFacts, FreeSlotFacts
    <2>2. sems' = [sems EXCEPT ![p][i] = s]
      BY <1>2
    <2> HIDE DEF i
    <2>3. sems' \in [Pcb -> [Slots -> Sems \cup {NULL}]]
      BY <2>1, <2>2, SlotTypes DEF Ongoing, Slotted
    <2>4. locks' \in [Pcb -> [Slots -> Locks \cup {NULL}]] /\ Wild(os', S)
      BY <1>2 DEF Ongoing, Slotted
    <2> QED  BY <1>2, <2>3, <2>4, GoesOn, KontTypes, KontFacts
  <1>3. CASE DoExit(p)
    BY <1>3, ExitLinks
  <1> QED
    BY <1>1, <1>2, <1>3 DEF DownStep

\* do_mutex_lock_init and its kin.
LEMMA InitLinks ==
    ASSUME NEW S, Ongoing(S), NEW q \in Objects, os' = QueueInit(os, q),
           UNCHANGED <<locks, sems, kont>>
    PROVE  LinkInv'
PROOF
  <1>1. Wild(os', S)
    BY OngoingFacts, QueueNames, QueueInitWild
  <1> QED
    BY <1>1, GoesOnSame

\* A timer interrupt.
LEMMA TickLinks ==
    ASSUME NEW S, Ongoing(S), NEW p \in Pcb, Tick(p)
    PROVE  LinkInv'
PROOF
  <1>1. os' = Timer(os) /\ UNCHANGED <<locks, sems, kont>>
    BY DEF Tick
  <1>2. os'.fault = TRUE \/ Wild(os', S)
    BY <1>1, OngoingFacts, TimerWild
  <1> QED
    BY <1>1, <1>2, GoesOnSame

\* do_sleep.
LEMMA SleepLinks ==
    ASSUME NEW S, Ongoing(S), NEW p \in Pcb, NEW t \in SleepTimes, DoSleep(p, t)
    PROVE  LinkInv'
PROOF
  <1>1. /\ os' = Scheduler(Block(Asleep(os, p, t), Sleep)) /\ UNCHANGED <<locks, sems, kont>>
        /\ t \in Nat
    BY KernelAssumption DEF DoSleep, Asleep
  <1>2. os'.fault = TRUE \/ Wild(os', S)
    BY <1>1, OngoingFacts, SleepWild
  <1> QED
    BY <1>1, <1>2, GoesOnSame

\* do_waitpid, also of the caller itself.
LEMMA WaitLinks ==
    ASSUME NEW S, Ongoing(S), NEW p \in Pcb, NEW t \in Pcb, DoWait(p, t)
    PROVE  LinkInv'
PROOF
  <1>1. os' = Scheduler(Block(os, Wait(t))) /\ UNCHANGED <<locks, sems, kont>>
    BY DEF DoWait
  <1> QED
    BY <1>1, BlockLinks, QueueNames, KontTypes, KontFacts

\* do_condition_wait.
LEMMA CondWaitLinks ==
    ASSUME NEW S, Ongoing(S), NEW p \in Pcb, NEW l \in Locks, NEW c \in Conds, DoConditionWait(p, l, c)
    PROVE  LinkInv'
PROOF
  <1>1. /\ os' = Scheduler(Block(UnblockAll(os, l), c)) /\ UNCHANGED sems
        /\ locks' = [locks EXCEPT ![p] = Clear(@, l)] /\ kont' = [kont EXCEPT ![p] = Acquiring(l)]
    BY DEF DoConditionWait
  <1>2. l \in Queues \ {Ready} /\ c \in Queues
    BY QueueNames DEF Objects
  <1>3. os'.fault = TRUE \/ Wild(os', S)
    BY <1>1, <1>2, OngoingFacts, CondWaitWild
  <1>4. /\ locks' \in [Pcb -> [Slots -> Locks \cup {NULL}]]
        /\ sems' \in [Pcb -> [Slots -> Sems \cup {NULL}]]
    BY <1>1, ClearTypes DEF Ongoing, Slotted
  <1> QED
    BY <1>1, <1>3, <1>4, GoesOn, KontTypes, KontFacts

\* do_condition_signal.
LEMMA SignalLinks ==
    ASSUME NEW S, Ongoing(S), NEW p \in Pcb, NEW c \in Conds, DoConditionSignal(p, c)
    PROVE  LinkInv'
PROOF
  <1>1. os' = UnblockOne(os, c) /\ UNCHANGED <<locks, sems, kont>> /\ c \in Queues \ {Ready}
    BY QueueNames DEF DoConditionSignal, Objects
  <1>2. Wild(os', S)
    BY <1>1, OngoingFacts, UnblockOneWild
  <1> QED
    BY <1>1, <1>2, GoesOnSame

\* do_barrier_wait.
LEMMA BarrierLinks ==
    ASSUME NEW S, Ongoing(S), NEW p \in Pcb, NEW b \in Barriers, DoBarrierWait(p, b)
    PROVE  LinkInv'
PROOF
  <1>1. b \in Objects /\ b \in Queues
    BY QueueNames DEF Objects
  <1>2. CASE os' = UnblockAll(os, b) /\ UNCHANGED <<locks, sems, kont>>
    BY <1>1, <1>2, WakeLinks
  <1>3. CASE /\ os' = Scheduler(Block(os, b)) /\ kont' = [kont EXCEPT ![p] = Leaving(b)]
             /\ UNCHANGED <<locks, sems>>
    BY <1>1, <1>3, BlockLinks, KontTypes, KontFacts
  <1> QED
    BY <1>2, <1>3 DEF DoBarrierWait

\* A process that goes back to its call.
LEMMA ResumeLinks ==
    ASSUME NEW S, Ongoing(S), NEW p \in Pcb, Resume(p)
    PROVE  LinkInv'
PROOF
  <1>1. ASSUME NEW l \in Locks, ResumeAcquire(p, l) PROVE LinkInv'
    BY <1>1, AcquireLinks DEF ResumeAcquire
  <1>2. ASSUME NEW s \in Sems, ResumeDown(p, s) PROVE LinkInv'
    BY <1>2, DownLinks DEF ResumeDown
  <1>3. ASSUME NEW b \in Barriers, ResumeBarrier(p, b) PROVE LinkInv'
    <2>1. UNCHANGED <<os, locks, sems>> /\ kont' = [kont EXCEPT ![p] = User]
      BY <1>3 DEF ResumeBarrier
    <2>2. Wild(os', S)
      BY <2>1 DEF Ongoing
    <2> QED  BY <2>1, <2>2, GoesOnTo, KontTypes, KontFacts
  <1> QED
    BY <1>1, <1>2, <1>3 DEF Resume

\* do_spawn and do_kill.
LEMMA ProcessLinks ==
    ASSUME NEW S, Ongoing(S), NEW p \in Pcb, ProcessCalls(p)
    PROVE  LinkInv'
PROOF
  <1>1. CASE DoKillSelf(p)
    BY <1>1, ExitLinks DEF DoKillSelf
  <1> QED
    BY <1>1, SpawnLinks, KillLinks DEF ProcessCalls

\* Any call of a task.
LEMMA TaskLinks ==
    ASSUME NEW S, Ongoing(S), NEW p \in Pcb, TaskCalls(p)
    PROVE  LinkInv'
PROOF
  <1>0. \A o \in Locks \cup Conds \cup Sems \cup Barriers : o \in Objects
    BY DEF Objects
  <1>1. ASSUME NEW l \in Locks, DoMutexLockInit(p, l) PROVE LinkInv'
    BY <1>0, <1>1, InitLinks DEF DoMutexLockInit
  <1>2. ASSUME NEW l \in Locks, DoMutexLockAcquire(p, l) PROVE LinkInv'
    BY <1>2, AcquireLinks DEF DoMutexLockAcquire
  <1>3. ASSUME NEW l \in Locks, DoMutexLockRelease(p, l) PROVE LinkInv'
    BY <1>0, <1>3, WakeLinks DEF DoMutexLockRelease
  <1>4. ASSUME NEW c \in Conds, DoConditionInit(p, c) PROVE LinkInv'
    BY <1>0, <1>4, InitLinks DEF DoConditionInit
  <1>5. ASSUME NEW c \in Conds, DoConditionBroadcast(p, c) PROVE LinkInv'
    BY <1>0, <1>5, WakeLinks DEF DoConditionBroadcast
  <1>6. ASSUME NEW s \in Sems, NEW v \in SemVals, DoSemaphoreInit(p, s, v) PROVE LinkInv'
    BY <1>0, <1>6, InitLinks DEF DoSemaphoreInit
  <1>7. ASSUME NEW s \in Sems, DoSemaphoreUp(p, s) PROVE LinkInv'
    BY <1>0, <1>7, WakeLinks DEF DoSemaphoreUp
  <1>8. ASSUME NEW s \in Sems, DoSemaphoreDown(p, s) PROVE LinkInv'
    BY <1>8, DownLinks DEF DoSemaphoreDown
  <1>9. ASSUME NEW b \in Barriers, NEW g \in Goals, DoBarrierInit(p, b, g) PROVE LinkInv'
    BY <1>0, <1>9, InitLinks DEF DoBarrierInit
  <1>10. CASE SysExit(p)
    BY <1>10, ExitLinks DEF SysExit
  <1>11. CASE LockCalls(p)
    BY <1>1, <1>2, <1>3, <1>11, CondWaitLinks DEF LockCalls
  <1>12. CASE CondCalls(p)
    BY <1>4, <1>5, <1>12, SignalLinks DEF CondCalls
  <1>13. CASE SemCalls(p)
    BY <1>6, <1>7, <1>8, <1>13 DEF SemCalls
  <1>14. CASE BarrierCalls(p)
    BY <1>9, <1>14, BarrierLinks DEF BarrierCalls
  <1> QED
    BY <1>10, <1>11, <1>12, <1>13, <1>14, ProcessLinks, SleepLinks, WaitLinks DEF TaskCalls

\* The invariant is inductive; a faulted kernel takes no step.
LEMMA LinkNext ==
    ASSUME LinkInv, [Next]_vars
    PROVE  LinkInv'
PROOF
  <1>1. CASE os.fault = TRUE
    <2>1. ~Next
      <3> SUFFICES ASSUME NEW p \in Pcb, \/ Tick(p) \/ Resume(p) \/ ProcessCalls(p) \/ TaskCalls(p)
                   PROVE  FALSE
        BY DEF Next
      <3>1. ~OnCpu(p) /\ ~Running(p)
        BY <1>1 DEF OnCpu, Running
      <3>2. ~Tick(p) /\ ~Resume(p)
        BY <3>1 DEF Tick, Resume, ResumeAcquire, ResumeDown, ResumeBarrier
      <3>3. ~ProcessCalls(p)
        BY <3>1 DEF ProcessCalls, DoSpawn, DoKill, DoKillSelf
      <3>4. ~LockCalls(p) /\ ~CondCalls(p)
        BY <3>1 DEF LockCalls, CondCalls, DoMutexLockInit, DoMutexLockAcquire, DoMutexLockRelease,
                    DoConditionWait, DoConditionInit, DoConditionSignal, DoConditionBroadcast
      <3>5. ~SemCalls(p) /\ ~BarrierCalls(p)
        BY <3>1 DEF SemCalls, BarrierCalls, DoSemaphoreInit, DoSemaphoreUp, DoSemaphoreDown,
                    DoBarrierInit, DoBarrierWait
      <3>6. ~TaskCalls(p)
        BY <3>1, <3>3, <3>4, <3>5 DEF TaskCalls, SysExit, DoSleep, DoWait
      <3> QED  BY <3>2, <3>3, <3>6
    <2> QED  BY <1>1, <2>1 DEF vars, LinkInv
  <1>2. ASSUME NEW S, Ongoing(S) PROVE LinkInv'
    <2>1. CASE Next
      <3>1. PICK p \in Pcb : \/ Tick(p) \/ Resume(p) \/ ProcessCalls(p) \/ TaskCalls(p)
        BY <2>1 DEF Next
      <3> QED  BY <1>2, <3>1, TickLinks, ResumeLinks, ProcessLinks, TaskLinks
    <2>2. CASE UNCHANGED vars
      <3>1. Ongoing(S)'
        BY <1>2, <2>2 DEF vars, Ongoing, Slotted
      <3> QED  BY <3>1 DEF LinkInv
    <2> QED  BY <2>1, <2>2
  <1> QED
    BY <1>1, <1>2 DEF LinkInv

\* do_exit never returns, whatever is killed or initialised again.
LEMMA LinkFinal ==
    ASSUME LinkInv
    PROVE  ExitIsFinal
  BY DEF LinkInv, Ongoing, Wild, ExitIsFinal

\* The places of a process and the dropped lists, from the place function.
LEMMA LinkOnce ==
    ASSUME LinkInv
    PROVE  LinkedOnce
PROOF
  <1> SUFFICES ASSUME ~os.fault, NEW p \in Pcb
               PROVE  /\ \A x, y \in Places(p) : x = y
                      /\ \A c \in os.lost : Contains(c, p) => Places(p) = {}
    BY DEF LinkedOnce
  <1>1. PICK S : Ongoing(S)
    BY DEF LinkInv
  <1>2. PICK at : Placed(os.queue, at) /\ Dropped(os.lost, at)
    BY <1>1 DEF Ongoing, Wild, Loose, Chained
  <1>3. IF at[p] = NULL THEN Places(p) = {} ELSE \E pl \in Places(p) : Places(p) = {pl}
    BY <1>2, PlacesFacts
  <1>4. \A c \in os.lost : Contains(c, p) => at[p] = NULL
    BY <1>2 DEF Dropped
  <1> HIDE DEF Places
  <1> QED
    BY <1>3, <1>4

---------------------------------------------------------------------------
(* The loop of scheduler() and its closed form.                             *)

\* s[i]->next is s[i + 1], and NULL at the end.
Follows(k, s) ==
    /\ s \in Seq(Pcb) /\ Distinct(s)
    /\ \A i \in 1..Len(s) : Next_(k, s[i]) = IF i < Len(s) THEN s[i + 1] ELSE NULL

\* What the links lead to from an item of a list: the rest of the list.
LEMMA InChain ==
    ASSUME NEW k, NEW S, NEW x, Loose(k, S, x), NEW s \in Lists(k), NEW j \in 1..Len(s)
    PROVE  /\ From(k, s[j]) = SubSeq(s, j, Len(s))
           /\ Next_(k, s[j]) = IF j < Len(s) THEN s[j + 1] ELSE NULL
PROOF
  <1> DEFINE y == s[j]  A == {c \in Lists(k) : Contains(c, y)}  f == From(k, y)
  <1>1. s \in Seq(Pcb) /\ Distinct(s) /\ Len(s) \in Nat /\ DOMAIN s = 1..Len(s) /\ y \in Pcb
    BY OneList
  <1>2. y # NULL /\ Contains(s, y)
    BY <1>1, QueueNames DEF Contains
  <1>3. A = {s}
    <2>1. \A c \in A : c = s
      BY <1>1, <1>2, OneList
    <2> QED  BY <1>2, <2>1
  <1>4. j = CHOOSE i \in DOMAIN s : s[i] = y
    BY <1>1 DEF Distinct
  <1>5. f = SubSeq(s, j, Len(s))
    <2> HIDE DEF y
    <2>1. s = CHOOSE c \in A : TRUE
      BY <1>3
    <2>2. A # {}
      BY <1>3
    <2> QED  BY <1>2, <1>4, <2>1, <2>2 DEF From
  <1>6. Len(f) = Len(s) - j + 1 /\ \A i \in 1..Len(s) - j + 1 : f[i] = s[j + i - 1]
    BY <1>1, <1>5
  <1>7. Next_(k, y) = IF Len(f) > 1 THEN f[2] ELSE NULL
    BY DEF Next_
  <1> HIDE DEF f
  <1>8. CASE j < Len(s)
    <2>1. 2 \in 1..Len(s) - j + 1 /\ j + 2 - 1 = j + 1 /\ Len(f) > 1
      BY <1>1, <1>6, <1>8
    <2>2. f[2] = s[j + 1]
      BY <1>6, <2>1
    <2> QED  BY <1>5, <1>7, <1>8, <2>1, <2>2 DEF f
  <1>9. CASE ~(j < Len(s))
    <2>1. ~(Len(f) > 1)
      BY <1>1, <1>6, <1>9
    <2> QED  BY <1>5, <1>7, <1>9, <2>1 DEF f
  <1> QED
    BY <1>8, <1>9

\* ready_queue, and what a candidate leads to, are walked by next to their ends.
LEMMA ReadyFollows ==
    ASSUME NEW k, NEW S, NEW x, Loose(k, S, x)
    PROVE  Follows(k, k.queue[Ready])
PROOF
  <1> DEFINE s == k.queue[Ready]
  <1>1. s \in Lists(k)
    BY QueueNames DEF Lists
  <1> HIDE DEF s
  <1>2. \A j \in 1..Len(s) : Next_(k, s[j]) = IF j < Len(s) THEN s[j + 1] ELSE NULL
    BY <1>1, InChain
  <1> QED
    BY <1>1, <1>2, OneList DEF Follows, s

LEMMA FromFollows ==
    ASSUME NEW k, NEW S, NEW x, Loose(k, S, x), NEW c \in Pcb \cup {NULL}
    PROVE  /\ Follows(k, From(k, c))
           /\ IF c = NULL THEN From(k, c) = <<>> ELSE Len(From(k, c)) >= 1 /\ From(k, c)[1] = c
PROOF
  <1> DEFINE A == {s \in Lists(k) : Contains(s, c)}
  <1>1. CASE c = NULL
    <2>1. From(k, c) = <<>>
      BY <1>1 DEF From
    <2> QED  BY <1>1, <2>1 DEF Follows, Distinct
  <1>2. CASE c # NULL /\ A = {}
    <2>1. From(k, c) = <<c>> /\ Next_(k, c) = NULL
      BY <1>2 DEF From, Next_
    <2> QED  BY <1>2, <2>1 DEF Follows, Distinct
  <1>3. CASE c # NULL /\ A # {}
    <2>1. PICK s \in Lists(k) : Contains(s, c)
      BY <1>3
    <2>2. s \in Seq(Pcb) /\ Distinct(s) /\ Len(s) \in Nat /\ DOMAIN s = 1..Len(s)
      BY OneList
    <2>3. PICK j \in 1..Len(s) : s[j] = c
      BY <2>1, <2>2 DEF Contains
    <2> DEFINE f == From(k, c)
    <2>4. f = SubSeq(s, j, Len(s))
      BY <2>3, InChain
    <2>5. f \in Seq(Pcb) /\ Len(f) = Len(s) - j + 1 /\ \A i \in 1..Len(s) - j + 1 : f[i] = s[j + i - 1]
      BY <2>2, <2>4
    <2> HIDE DEF f
    <2>6. DOMAIN f = 1..Len(f) /\ \A i \in 1..Len(f) : j + i - 1 \in 1..Len(s)
      BY <2>2, <2>5
    <2>7. Distinct(f)
      <3> SUFFICES ASSUME NEW a \in 1..Len(f), NEW b \in 1..Len(f), f[a] = f[b] PROVE a = b
        BY <2>6 DEF Distinct
      <3>1. s[j + a - 1] = s[j + b - 1]
        BY <2>2, <2>5
      <3>2. j + a - 1 = j + b - 1
        BY <2>2, <2>6, <3>1 DEF Distinct
      <3> QED  BY <2>2, <2>5, <3>2
    <2>8. ASSUME NEW i \in 1..Len(f) PROVE Next_(k, f[i]) = IF i < Len(f) THEN f[i + 1] ELSE NULL
      <3> DEFINE h == j + i - 1
      <3>1. h \in 1..Len(s) /\ f[i] = s[h] /\ (i < Len(f) <=> h < Len(s))
        BY <2>2, <2>5, <2>6
      <3>2. i < Len(f) => f[i + 1] = s[h + 1]
        <4>1. i < Len(f) => i + 1 \in 1..Len(s) - j + 1 /\ j + (i + 1) - 1 = h + 1
          BY <2>2, <2>5
        <4> QED  BY <2>5, <4>1
      <3> HIDE DEF h
      <3>3. Next_(k, s[h]) = IF h < Len(s) THEN s[h + 1] ELSE NULL
        BY <3>1, InChain
      <3> QED  BY <3>1, <3>2, <3>3
    <2>9. Len(f) >= 1 /\ f[1] = c
      BY <2>2, <2>3, <2>5
    <2> QED  BY <1>3, <2>5, <2>7, <2>8, <2>9 DEF Follows, f
  <1> QED
    BY <1>1, <1>2, <1>3

\* A list without repetition is no longer than the process table.
LEMMA ListBound ==
    ASSUME NEW s \in Seq(Pcb), Distinct(s)
    PROVE  Len(s) <= NTASK
PROOF
  <1>1. Len(s) \in Nat /\ NTASK \in Nat /\ s \in [1..Len(s) -> Pcb]
    BY KernelAssumption
  <1>2. s \in Injection(1..Len(s), Pcb)
    BY <1>1 DEF Injection, IsInjective, Distinct
  <1>3. IsFiniteSet(Pcb) /\ Cardinality(Pcb) = NTASK
    BY KernelAssumption, FS_Interval DEF Pcb
  <1>4. Cardinality(1..Len(s)) <= Cardinality(Pcb)
    BY <1>2, <1>3, FS_Injection
  <1>5. Cardinality(1..Len(s)) = Len(s)
    BY <1>1, FS_Interval
  <1> QED
    BY <1>3, <1>4, <1>5

\* get_bonus gives nothing to those who are ready: ready_queue comes before
\* sleep_queue in all_queue.
LEMMA ReadyBonus ==
    ASSUME NEW k, NEW S, NEW x, Loose(k, S, x), NEW y \in Pcb, Contains(k.queue[Ready], y)
    PROVE  GetBonus(k)[y] = k.bonus[y]
PROOF
  <1> DEFINE i == CHOOSE j \in DOMAIN k.all : k.all[j] = Sleep
             blocked == UNION {ToSet(k.queue[k.all[j]]) : j \in i + 1 .. Len(k.all)}
  <1>1. PICK at : Placed(k.queue, at)
    BY DEF Loose, Chained
  <1>2. k.all \in Seq(Queues) /\ Headed(k.all) /\ Ready \in Queues /\ Sleep # Ready
    BY QueueNames DEF Loose, KRec
  <1>3. i = 2
    <2>1. 2 \in DOMAIN k.all /\ k.all[2] = Sleep
      BY <1>2 DEF Headed
    <2>2. \A j \in DOMAIN k.all : k.all[j] = Sleep => j = 2
      <3>1. \A j \in DOMAIN k.all : j \in 3..Len(k.all) \/ j = 1 \/ j = 2
        BY <1>2
      <3> QED  BY <1>2, <3>1 DEF Headed
    <2> QED  BY <2>1, <2>2
  <1> HIDE DEF i
  <1>4. y \notin blocked
    <2> SUFFICES ASSUME NEW j \in i + 1 .. Len(k.all), y \in ToSet(k.queue[k.all[j]]) PROVE FALSE
      OBVIOUS
    <2>1. j \in 3..Len(k.all) /\ k.all[j] \in Queues /\ k.all[j] # Ready
      BY <1>2, <1>3 DEF Headed
    <2>2. Contains(k.queue[k.all[j]], y)
      BY DEF ToSet, Contains
    <2> QED  BY <1>1, <1>2, <2>1, <2>2 DEF Placed
  <1> HIDE DEF blocked
  <1> QED
    BY <1>4 DEF GetBonus, blocked, i

\* The scheduler's state after its wraps, at level n.
Below(k) == IF k.cpu_priority = 1 THEN HIGHEST_PRIORITY ELSE k.cpu_priority - 1
Level(k, n) == [k EXCEPT !.cpu_priority = n,
                         !.bonus = IF k.cpu_priority = 1 THEN GetBonus(k) ELSE k.bonus]

\* The items of s that have level n.
Reaching(k, s, n) == {i \in DOMAIN s : Eff(k, s[i]) >= n}

\* A walk that stands at s[i], or behind s, and has passed the items before.
Cand(m, s, i) == [k |-> m, c |-> IF i <= Len(s) THEN s[i] ELSE NULL]
Passed(m, s, i) == /\ i \in 1..Len(s) + 1
                   /\ \A j \in 1..i - 1 : ~(Eff(m, s[j]) >= m.cpu_priority)

\* The walk along the candidate's list, and one along ready_queue at a lower
\* level; r bounds the turns that are left.
Rounds(n) == n * (NTASK + 1)
AtFirst(k, c, w, r) ==
    LET list == From(k, c)
    IN \E i \in 1..Len(list) + 1 : /\ w = Cand(k, list, i) /\ Passed(k, list, i)
                                   /\ r = Rounds(Below(k)) + (Len(list) + 1 - i)
Lowered(k, c, w, r) ==
    LET ready == k.queue[Ready]
    IN /\ ready # <<>> /\ Reaching(k, From(k, c), k.cpu_priority) = {}
       /\ \E n \in 1..Below(k) :
            /\ \A m \in n + 1..Below(k) : Reaching(k, ready, m) = {}
            /\ \E i \in 1..Len(ready) + 1 :
                  /\ w = Cand(Level(k, n), ready, i) /\ Passed(Level(k, n), ready, i)
                  /\ r = Rounds(n - 1) + (Len(ready) + 1 - i)
Underway(k, c, w, r) == AtFirst(k, c, w, r) \/ Lowered(k, c, w, r)

\* A round is a turn per process and the wrap.
LEMMA RoundFacts ==
    /\ Rounds(0) = 0
    /\ \A n \in Nat : Rounds(n) \in Nat /\ Rounds(n + 1) = Rounds(n) + (NTASK + 1)
    /\ \A n \in Nat : \A m \in 0..n : Rounds(m) <= Rounds(n)
    /\ Turns = Rounds(HIGHEST_PRIORITY) + (NTASK + 1)
    /\ NTASK \in Nat /\ HIGHEST_PRIORITY \in Nat \ {0}
PROOF
  <1>1. NTASK \in Nat /\ HIGHEST_PRIORITY \in Nat \ {0}
    BY KernelAssumption
  <1>2. ASSUME NEW t \in Nat, NEW n \in Nat
        PROVE  0 * t = 0 /\ n * t \in Nat /\ (n + 1) * t = n * t + t
    OBVIOUS
  <1>3. ASSUME NEW t \in Nat, NEW n \in Nat, NEW m \in 0..n PROVE m * t <= n * t
    OBVIOUS
  <1>4. NTASK + 1 \in Nat
    BY <1>1
  <1>5. \A n \in Nat : 0 * (NTASK + 1) = 0 /\ n * (NTASK + 1) \in Nat
                       /\ (n + 1) * (NTASK + 1) = n * (NTASK + 1) + (NTASK + 1)
    BY <1>2, <1>4
  <1>6. \A n \in Nat : \A m \in 0..n : m * (NTASK + 1) <= n * (NTASK + 1)
    BY <1>3, <1>4
  <1> QED
    BY <1>1, <1>5, <1>6 DEF Rounds, Turns

\* Who is ready has level 1 at least, and the same level for the walk.
LEMMA LevelFacts ==
    ASSUME NEW k, NEW S, Loose(k, S, NULL), NEW n \in 1..Below(k)
    PROVE  /\ Level(k, n) \in KRec /\ Level(k, n).cpu_priority = n
           /\ Level(k, n).queue = k.queue /\ Level(k, n).lost = k.lost
           /\ \A i \in 1..Len(k.queue[Ready]) :
                 /\ Eff(Level(k, n), k.queue[Ready][i]) = Eff(k, k.queue[Ready][i])
                 /\ Eff(k, k.queue[Ready][i]) \in Nat /\ Eff(k, k.queue[Ready][i]) >= 1
PROOF
  <1> DEFINE bo == IF k.cpu_priority = 1 THEN GetBonus(k) ELSE k.bonus
             m == Level(k, n)
             ready == k.queue[Ready]
  <1>1. /\ k \in KRec /\ Ready \in Queues /\ ready \in Seq(Pcb) /\ HIGHEST_PRIORITY \in Nat \ {0}
        /\ k.cpu_priority \in 1..HIGHEST_PRIORITY /\ k.bonus \in [Pcb -> 0..HIGHEST_PRIORITY]
        /\ k.priority \in [Pcb -> 0..HIGHEST_PRIORITY + 1]
    BY QueueNames, KernelAssumption DEF Loose, KRec
  <1>2. n \in 1..HIGHEST_PRIORITY
    BY <1>1 DEF Below
  <1>3. bo \in [Pcb -> 0..HIGHEST_PRIORITY]
    BY <1>1, BonusTyped
  <1>4. m = [k EXCEPT !.cpu_priority = n, !.bonus = bo]
    BY DEF Level
  <1> HIDE DEF bo
  <1>5. /\ m \in KRec /\ m.cpu_priority = n /\ m.queue = k.queue /\ m.lost = k.lost
        /\ m.priority = k.priority /\ m.bonus = bo
    BY <1>1, <1>2, <1>3, <1>4 DEF KRec
  <1> HIDE DEF m
  <1>6. ASSUME NEW i \in 1..Len(ready)
        PROVE  Eff(m, ready[i]) = Eff(k, ready[i]) /\ Eff(k, ready[i]) \in Nat /\ Eff(k, ready[i]) >= 1
    <2> DEFINE y == ready[i]
    <2>1. y \in Pcb /\ Contains(ready, y)
      BY <1>1 DEF Contains
    <2> HIDE DEF y, ready
    <2>2. bo[y] = k.bonus[y]
      BY <2>1, ReadyBonus DEF bo, ready
    <2>3. Linked(k, y)
      BY <1>1, <2>1 DEF Linked, Lists, ready
    <2>4. k.priority[y] >= 1
      BY <2>1, <2>3 DEF Loose
    <2>5. Eff(m, y) = Eff(k, y) /\ Eff(k, y) \in Nat /\ Eff(k, y) >= 1
      BY <1>1, <1>5, <2>1, <2>2, <2>4 DEF Eff
    <2> QED  BY <2>5 DEF y
  <1> QED
    BY <1>5, <1>6 DEF m

\* Links do not depend on level and bonus.
LEMMA NextSame ==
    ASSUME NEW k, NEW m, m.queue = k.queue, m.lost = k.lost
    PROVE  \A p : Next_(m, p) = Next_(k, p)
PROOF
  <1>1. Lists(m) = Lists(k)
    BY DEF Lists
  <1> QED
    BY <1>1 DEF Next_, From

\* Within a list the loop ends or follows the link.
LEMMA TurnAlong ==
    ASSUME NEW m, NEW s, Follows(m, s), NEW i \in 1..Len(s), Passed(m, s, i)
    PROVE  /\ Ends(Cand(m, s, i)) <=> Eff(m, s[i]) >= m.cpu_priority
           /\ ~Ends(Cand(m, s, i)) => /\ Turn(Cand(m, s, i)) = Cand(m, s, i + 1)
                                      /\ Passed(m, s, i + 1)
PROOF
  <1> DEFINE w == Cand(m, s, i)
  <1>1. Len(s) \in Nat /\ s[i] \in Pcb /\ s[i] # NULL
    BY QueueNames DEF Follows
  <1>2. w = [k |-> m, c |-> s[i]]
    BY <1>1 DEF Cand
  <1>3. Ends(w) <=> Eff(m, s[i]) >= m.cpu_priority
    BY <1>1, <1>2 DEF Ends
  <1>4. ASSUME ~Ends(w) PROVE Turn(w) = Cand(m, s, i + 1) /\ Passed(m, s, i + 1)
    <2>1. Turn(w) = [k |-> m, c |-> Next_(m, s[i])]
      <3>1. Turn(w) = [w EXCEPT !.c = Next_(w.k, w.c)]
        BY <1>1, <1>2, <1>4 DEF Turn
      <3> QED  BY <1>2, <3>1
    <2>2. Next_(m, s[i]) = IF i + 1 <= Len(s) THEN s[i + 1] ELSE NULL
      BY <1>1 DEF Follows
    <2>3. i + 1 \in 1..Len(s) + 1 /\ \A j \in 1..(i + 1) - 1 : j = i \/ j \in 1..i - 1
      BY <1>1
    <2>4. Passed(m, s, i + 1)
      BY <1>3, <1>4, <2>3 DEF Passed
    <2> QED  BY <2>1, <2>2, <2>4 DEF Cand
  <1> QED
    BY <1>3, <1>4

\* At the end of a list the loop fails, or restarts at ready_queue one level lower.
LEMMA TurnWrap ==
    ASSUME NEW m, NEW s \in Seq(Pcb)
    PROVE  /\ Ends(Cand(m, s, Len(s) + 1)) <=> m.queue[Ready] = <<>>
           /\ m.queue[Ready] # <<>> /\ m.queue[Ready] \in Seq(Pcb)
                => Turn(Cand(m, s, Len(s) + 1)) = Cand(Wrap(m), m.queue[Ready], 1)
PROOF
  <1> DEFINE w == Cand(m, s, Len(s) + 1)
  <1>1. w = [k |-> m, c |-> NULL]
    BY DEF Cand
  <1>2. Ends(w) <=> m.queue[Ready] = <<>>
    BY <1>1 DEF Ends
  <1>3. ASSUME m.queue[Ready] # <<>>, m.queue[Ready] \in Seq(Pcb)
        PROVE  Turn(w) = Cand(Wrap(m), m.queue[Ready], 1)
    <2>1. Turn(w) = [k |-> Wrap(m), c |-> Head(m.queue[Ready])]
      BY <1>1, <1>2, <1>3 DEF Turn
    <2>2. 1 <= Len(m.queue[Ready]) /\ Head(m.queue[Ready]) = m.queue[Ready][1]
      BY <1>3
    <2> QED  BY <2>1, <2>2 DEF Cand
  <1> QED
    BY <1>2, <1>3

\* The levels that the wraps go through.
LEMMA WrapFacts ==
    ASSUME NEW k \in KRec
    PROVE  /\ Below(k) \in 1..HIGHEST_PRIORITY
           /\ Wrap(k) = Level(k, Below(k))
           /\ \A n \in 2..Below(k) : Wrap(Level(k, n)) = Level(k, n - 1)
PROOF
  <1>1. k.cpu_priority \in 1..HIGHEST_PRIORITY /\ HIGHEST_PRIORITY \in Nat \ {0}
    BY KernelAssumption DEF KRec
  <1>2. Below(k) \in 1..HIGHEST_PRIORITY
    BY <1>1 DEF Below
  <1>3. Wrap(k) = Level(k, Below(k))
    BY DEF KRec, Wrap, Level, Below
  <1>4. ASSUME NEW n \in 2..Below(k) PROVE Wrap(Level(k, n)) = Level(k, n - 1)
    <2> DEFINE bo == IF k.cpu_priority = 1 THEN GetBonus(k) ELSE k.bonus
    <2>1. \A j : Level(k, j) = [k EXCEPT !.cpu_priority = j, !.bonus = bo]
      BY DEF Level
    <2> HIDE DEF bo
    <2>2. n # 1
      BY <1>2
    <2> DEFINE m == Level(k, n)
    <2>3. m = [k EXCEPT !.cpu_priority = n, !.bonus = bo]
      BY <2>1
    <2> HIDE DEF m
    <2>4. m.cpu_priority = n
      BY <2>3 DEF KRec
    <2>5. Wrap(m) = [m EXCEPT !.cpu_priority = n - 1]
      BY <2>2, <2>4 DEF Wrap
    <2>6. Wrap(m) = [k EXCEPT !.cpu_priority = n - 1, !.bonus = bo]
      BY <2>3, <2>5 DEF KRec
    <2> QED  BY <2>1, <2>6 DEF m
  <1> QED
    BY <1>2, <1>3, <1>4

\* A turn that does not end the loop brings its end nearer.
LEMMA TurnUnderway ==
    ASSUME NEW k, NEW S, Loose(k, S, NULL), NEW c \in Pcb \cup {NULL}, NEW w, NEW r \in Nat,
           Underway(k, c, w, r), ~Ends(w)
    PROVE  \E u \in Nat : u < r /\ Underway(k, c, Turn(w), u)
PROOF
  <1> DEFINE list == From(k, c)  ready == k.queue[Ready]  b == Below(k)
  <1>1. /\ k \in KRec /\ Follows(k, list) /\ Follows(k, ready)
        /\ b \in 1..HIGHEST_PRIORITY /\ HIGHEST_PRIORITY \in Nat \ {0} /\ NTASK \in Nat
    BY ReadyFollows, FromFollows, WrapFacts, KernelAssumption DEF Loose
  <1>2. /\ list \in Seq(Pcb) /\ Len(list) \in Nat /\ Len(list) <= NTASK /\ DOMAIN list = 1..Len(list)
        /\ ready \in Seq(Pcb) /\ Len(ready) \in Nat /\ Len(ready) <= NTASK /\ DOMAIN ready = 1..Len(ready)
    BY <1>1, ListBound DEF Follows
  <1> HIDE DEF list, ready, b
  <1>3. \A n \in 1..b : Rounds(n) \in Nat /\ Rounds(n - 1) \in Nat /\ Rounds(n) = Rounds(n - 1) + (NTASK + 1)
    <2>1. \A n \in 1..b : n - 1 \in Nat /\ n \in Nat /\ (n - 1) + 1 = n
      BY <1>1
    <2> QED  BY <2>1, RoundFacts
  <1>4. CASE AtFirst(k, c, w, r)
    <2>1. PICK i \in 1..Len(list) + 1 : /\ w = Cand(k, list, i) /\ Passed(k, list, i)
                                        /\ r = Rounds(b) + (Len(list) + 1 - i)
      BY <1>4 DEF AtFirst, list, b
    <2>2. CASE i <= Len(list)
      <3>1. i \in 1..Len(list)
        BY <1>2, <2>2
      <3>2. Turn(w) = Cand(k, list, i + 1) /\ Passed(k, list, i + 1)
        BY <1>1, <2>1, <3>1, TurnAlong
      <3>3. i + 1 \in 1..Len(list) + 1 /\ r - 1 = Rounds(b) + (Len(list) + 1 - (i + 1)) /\ r - 1 \in Nat
        <4>1. b \in 1..b
          BY <1>1
        <4>2. Rounds(b) \in Nat
          BY <1>3, <4>1
        <4> QED  BY <1>2, <2>1, <3>1, <4>2
      <3>4. AtFirst(k, c, Turn(w), r - 1)
        BY <3>2, <3>3 DEF AtFirst, list, b
      <3> QED  BY <3>3, <3>4 DEF Underway
    <2>3. CASE ~(i <= Len(list))
      <3>1. i = Len(list) + 1
        BY <1>2, <2>3
      <3>2. ready # <<>>
        BY <1>2, <2>1, <3>1, TurnWrap DEF ready
      <3>3. Turn(w) = Cand(Level(k, b), ready, 1)
        BY <1>1, <1>2, <2>1, <3>1, <3>2, TurnWrap, WrapFacts DEF ready, b
      <3>4. Reaching(k, list, k.cpu_priority) = {}
        BY <1>2, <2>1, <3>1 DEF Passed, Reaching
      <3>5. Passed(Level(k, b), ready, 1)
        BY <1>2 DEF Passed
      <3> DEFINE u == Rounds(b - 1) + (Len(ready) + 1 - 1)
      <3>6. u \in Nat /\ u < r
        BY <1>1, <1>2, <1>3, <2>1, <3>1
      <3>7. b \in 1..b /\ 1 \in 1..Len(ready) + 1 /\ \A m : m \notin b + 1..b
        BY <1>1, <1>2
      <3>8. Lowered(k, c, Turn(w), u)
        BY <3>2, <3>3, <3>4, <3>5, <3>7 DEF Lowered, list, ready, b
      <3> QED  BY <3>6, <3>8 DEF Underway
    <2> QED  BY <2>2, <2>3
  <1>5. CASE Lowered(k, c, w, r)
    <2>1. /\ ready # <<>> /\ Reaching(k, list, k.cpu_priority) = {}
          /\ \E n \in 1..b :
               /\ \A m \in n + 1..b : Reaching(k, ready, m) = {}
               /\ \E i \in 1..Len(ready) + 1 :
                     /\ w = Cand(Level(k, n), ready, i) /\ Passed(Level(k, n), ready, i)
                     /\ r = Rounds(n - 1) + (Len(ready) + 1 - i)
      BY <1>5 DEF Lowered, list, ready, b
    <2>2. PICK n \in 1..b :
               /\ \A m \in n + 1..b : Reaching(k, ready, m) = {}
               /\ \E i \in 1..Len(ready) + 1 :
                     /\ w = Cand(Level(k, n), ready, i) /\ Passed(Level(k, n), ready, i)
                     /\ r = Rounds(n - 1) + (Len(ready) + 1 - i)
      BY <2>1
    <2>3. PICK i \in 1..Len(ready) + 1 :
                     /\ w = Cand(Level(k, n), ready, i) /\ Passed(Level(k, n), ready, i)
                     /\ r = Rounds(n - 1) + (Len(ready) + 1 - i)
      BY <2>2
    <2> DEFINE m == Level(k, n)
    <2>4. /\ m \in KRec /\ m.cpu_priority = n /\ m.queue = k.queue /\ m.lost = k.lost
          /\ \A j \in 1..Len(ready) : /\ Eff(m, ready[j]) = Eff(k, ready[j])
                                      /\ Eff(k, ready[j]) \in Nat /\ Eff(k, ready[j]) >= 1
      BY LevelFacts DEF b, ready
    <2> HIDE DEF m
    <2>5. w = Cand(m, ready, i) /\ Passed(m, ready, i) /\ r = Rounds(n - 1) + (Len(ready) + 1 - i)
      BY <2>3 DEF m
    <2>6. Follows(m, ready)
      BY <1>1, <2>4, NextSame DEF Follows
    <2>7. CASE i <= Len(ready)
      <3>1. i \in 1..Len(ready)
        BY <1>2, <2>7
      <3>2. Turn(w) = Cand(m, ready, i + 1) /\ Passed(m, ready, i + 1)
        BY <2>5, <2>6, <3>1, TurnAlong
      <3>3. i + 1 \in 1..Len(ready) + 1 /\ r - 1 = Rounds(n - 1) + (Len(ready) + 1 - (i + 1)) /\ r - 1 \in Nat
        <4>1. Rounds(n - 1) \in Nat
          BY <1>3
        <4> QED  BY <1>2, <2>5, <3>1, <4>1
      <3>4. Lowered(k, c, Turn(w), r - 1)
        BY <2>1, <2>2, <3>2, <3>3 DEF Lowered, list, ready, b, m
      <3> QED  BY <3>3, <3>4 DEF Underway
    <2>8. CASE ~(i <= Len(ready))
      <3>1. i = Len(ready) + 1
        BY <1>2, <2>8
      <3>2. \A j \in 1..Len(ready) : ~(Eff(k, ready[j]) >= n)
        <4>1. \A j \in 1..Len(ready) : j \in 1..i - 1
          BY <1>2, <3>1
        <4> QED  BY <2>4, <2>5, <4>1 DEF Passed
      <3>3. n \in 2..b
        <4>1. 1 \in 1..Len(ready)
          BY <1>2, <2>1
        <4> QED  BY <1>1, <2>4, <3>2, <4>1
      <3>4. Turn(w) = Cand(Level(k, n - 1), ready, 1)
        <4>1. Turn(w) = Cand(Wrap(m), ready, 1)
          BY <1>2, <2>1, <2>4, <2>5, <3>1, TurnWrap DEF ready
        <4> QED  BY <1>1, <3>3, <4>1, WrapFacts DEF m, b
      <3>5. Passed(Level(k, n - 1), ready, 1)
        BY <1>2 DEF Passed
      <3> DEFINE u == Rounds((n - 1) - 1) + (Len(ready) + 1 - 1)
      <3>6. n - 1 \in 1..b /\ 1 \in 1..Len(ready) + 1 /\ \A j \in (n - 1) + 1..b : j = n \/ j \in n + 1..b
        BY <1>1, <1>2, <3>3
      <3>7. u \in Nat /\ u < r
        BY <1>1, <1>2, <1>3, <2>5, <3>1, <3>6
      <3>8. \A j \in (n - 1) + 1..b : Reaching(k, ready, j) = {}
        BY <1>2, <2>2, <3>2, <3>6 DEF Reaching
      <3>9. Lowered(k, c, Turn(w), u)
        BY <2>1, <3>4, <3>5, <3>6, <3>8 DEF Lowered, list, ready, b
      <3> QED  BY <3>7, <3>9 DEF Underway
    <2> QED  BY <2>7, <2>8
  <1> QED
    BY <1>4, <1>5 DEF Underway

\* The least member of a set is what MinOf names.
LEMMA MinIs ==
    ASSUME NEW T \in SUBSET Nat, NEW i \in T, \A j \in T : i <= j
    PROVE  MinOf(T) = i
PROOF
  <1>1. MinOf(T) \in T /\ MinOf(T) <= i
    BY MinMember
  <1>2. i \in Nat /\ MinOf(T) \in Nat /\ i <= MinOf(T)
    BY <1>1
  <1> QED
    BY <1>1, <1>2

\* Where the loop ends, it has what the closed form says.
LEMMA EndsAtPick ==
    ASSUME NEW k, NEW S, Loose(k, S, NULL), NEW c \in Pcb \cup {NULL}, NEW w, NEW r,
           Underway(k, c, w, r), Ends(w)
    PROVE  Behind(w) = Pick(k, c)
PROOF
  <1> DEFINE list == From(k, c)
             ready == k.queue[Ready]
             b == Below(k)
             cp == k.cpu_priority
             level == CHOOSE n \in 1..b :
                         /\ \A m \in n + 1 .. b : Reaching(k, ready, m) = {}
                         /\ n = 1 \/ Reaching(k, ready, n) # {}
             run(y)  == [k EXCEPT !.current_running = y, !.status[y] = "RUNNING"]
  <1>1. /\ k \in KRec /\ Follows(k, list) /\ Follows(k, ready)
        /\ b \in 1..HIGHEST_PRIORITY /\ HIGHEST_PRIORITY \in Nat \ {0} /\ cp \in 1..HIGHEST_PRIORITY
    BY ReadyFollows, FromFollows, WrapFacts, KernelAssumption DEF Loose, KRec
  <1>2. /\ list \in Seq(Pcb) /\ Len(list) \in Nat /\ DOMAIN list = 1..Len(list)
        /\ ready \in Seq(Pcb) /\ Len(ready) \in Nat /\ DOMAIN ready = 1..Len(ready)
    BY <1>1 DEF Follows
  <1>3. Pick(k, c) = IF Reaching(k, list, cp) # {}
                     THEN run(list[MinOf(Reaching(k, list, cp))])
                     ELSE IF ready = <<>> THEN [k EXCEPT !.fault = TRUE]
                     ELSE [run(ready[MinOf(Reaching(k, ready, level))])
                             EXCEPT !.cpu_priority = level,
                                    !.bonus = IF cp = 1 THEN GetBonus(k) ELSE @]
    BY DEF Pick, Reaching, Below
  <1> HIDE DEF list, ready, b, level
  <1>4. CASE AtFirst(k, c, w, r)
    <2>1. PICK i \in 1..Len(list) + 1 : w = Cand(k, list, i) /\ Passed(k, list, i)
      BY <1>4 DEF AtFirst, list
    <2>2. CASE i <= Len(list)
      <3>1. i \in 1..Len(list)
        BY <1>2, <2>2
      <3>2. Eff(k, list[i]) >= cp
        BY <1>1, <2>1, <3>1, TurnAlong
      <3> DEFINE T == Reaching(k, list, cp)
      <3>3. i \in T /\ T \in SUBSET Nat
        BY <1>2, <3>1, <3>2 DEF Reaching
      <3>4. \A j \in T : i <= j
        <4>1. \A j \in 1..Len(list) : i <= j \/ j \in 1..i - 1
          BY <1>2, <3>1
        <4> QED  BY <1>2, <2>1, <4>1 DEF Reaching, Passed
      <3> HIDE DEF T
      <3>5. T # {} /\ MinOf(T) = i
        BY <3>3, <3>4, MinIs
      <3>6. Pick(k, c) = run(list[i])
        BY <1>3, <3>5 DEF T
      <3>7. w = [k |-> k, c |-> list[i]] /\ list[i] # NULL
        BY <1>2, <2>1, <3>1, QueueNames DEF Cand
      <3> QED  BY <3>6, <3>7 DEF Behind
    <2>3. CASE ~(i <= Len(list))
      <3>1. i = Len(list) + 1
        BY <1>2, <2>3
      <3>2. ready = <<>>
        BY <1>2, <2>1, <3>1, TurnWrap DEF ready
      <3>3. Reaching(k, list, cp) = {}
        BY <1>2, <2>1, <3>1 DEF Passed, Reaching
      <3>4. w = [k |-> k, c |-> NULL]
        BY <2>1, <2>3 DEF Cand
      <3> QED  BY <1>3, <3>2, <3>3, <3>4 DEF Behind
    <2> QED  BY <2>2, <2>3
  <1>5. CASE Lowered(k, c, w, r)
    <2>1. /\ ready # <<>> /\ Reaching(k, list, cp) = {}
          /\ \E n \in 1..b :
               /\ \A m \in n + 1..b : Reaching(k, ready, m) = {}
               /\ \E i \in 1..Len(ready) + 1 :
                     w = Cand(Level(k, n), ready, i) /\ Passed(Level(k, n), ready, i)
      BY <1>5 DEF Lowered, list, ready, b
    <2>2. PICK n \in 1..b :
               /\ \A m \in n + 1..b : Reaching(k, ready, m) = {}
               /\ \E i \in 1..Len(ready) + 1 :
                     w = Cand(Level(k, n), ready, i) /\ Passed(Level(k, n), ready, i)
      BY <2>1
    <2>3. PICK i \in 1..Len(ready) + 1 :
                     w = Cand(Level(k, n), ready, i) /\ Passed(Level(k, n), ready, i)
      BY <2>2
    <2> DEFINE m == Level(k, n)
    <2>4. /\ m \in KRec /\ m.cpu_priority = n /\ m.queue = k.queue /\ m.lost = k.lost
          /\ \A j \in 1..Len(ready) : Eff(m, ready[j]) = Eff(k, ready[j])
      BY LevelFacts DEF b, ready
    <2> HIDE DEF m
    <2>5. w = Cand(m, ready, i) /\ Passed(m, ready, i)
      BY <2>3 DEF m
    <2>6. Follows(m, ready)
      BY <1>1, <2>4, NextSame DEF Follows
    <2>7. i \in 1..Len(ready)
      <3>1. i # Len(ready) + 1
        BY <1>2, <2>1, <2>4, <2>5, TurnWrap DEF ready
      <3> QED  BY <1>2, <3>1
    <2>8. Eff(m, ready[i]) >= n
      BY <2>4, <2>5, <2>6, <2>7, TurnAlong
    <2> DEFINE T == Reaching(k, ready, n)
    <2>9. i \in T /\ T \in SUBSET Nat
      BY <1>2, <2>4, <2>7, <2>8 DEF Reaching
    <2>10. \A j \in T : i <= j
      <3>1. \A j \in 1..Len(ready) : i <= j \/ j \in 1..i - 1
        BY <1>2, <2>7
      <3> QED  BY <1>2, <2>4, <2>5, <3>1 DEF Reaching, Passed
    <2>11. level = n
      <3>1. \A j \in 1..b : j = n \/ (j < n /\ n \in j + 1..b) \/ (j \in n + 1..b /\ j # 1)
        BY <1>1
      <3>2. ASSUME NEW j \in 1..b, \A h \in j + 1 .. b : Reaching(k, ready, h) = {},
                   j = 1 \/ Reaching(k, ready, j) # {}
            PROVE  j = n
        BY <2>2, <2>9, <3>1, <3>2
      <3> QED  BY <2>2, <2>9, <3>2 DEF level
    <2> HIDE DEF T
    <2>12. MinOf(T) = i
      BY <2>9, <2>10, MinIs
    <2> DEFINE bo == IF cp = 1 THEN GetBonus(k) ELSE k.bonus
               y == ready[i]
    <2>13. Pick(k, c) = [run(y) EXCEPT !.cpu_priority = n, !.bonus = IF cp = 1 THEN GetBonus(k) ELSE @]
      BY <1>3, <2>1, <2>11, <2>12 DEF T
    <2>14. m = [k EXCEPT !.cpu_priority = n, !.bonus = bo]
      BY DEF m, Level
    <2>15. w = [k |-> m, c |-> y] /\ y # NULL /\ y \in Pcb
      BY <1>2, <2>5, <2>7, QueueNames DEF Cand
    <2> HIDE DEF y, bo
    <2>16. Behind(w) = [m EXCEPT !.current_running = y, !.status[y] = "RUNNING"]
      BY <2>15 DEF Behind
    <2>17. Pick(k, c) = Dispatch(k, y, n, bo)
      <3>1. run(y).bonus = k.bonus
        BY <1>1 DEF KRec
      <3>2. Pick(k, c) = [run(y) EXCEPT !.cpu_priority = n, !.bonus = bo]
        BY <1>1, <2>13, <3>1 DEF bo, KRec
      <3> QED  BY <1>1, <3>2 DEF Dispatch, KRec
    <2>18. Behind(w) = Dispatch(k, y, n, bo)
      BY <1>1, <2>14, <2>16 DEF Dispatch, KRec
    <2> QED  BY <2>17, <2>18
  <1> QED
    BY <1>4, <1>5 DEF Underway

\* The walk of the loop, turn by turn.
LEMMA LoopWalk ==
    ASSUME NEW k, NEW c
    PROVE  \E f : /\ Loop(k, c) = f[Turns] /\ f[0] = [k |-> k, c |-> c]
                  /\ \A n \in 1..Turns : f[n] = Turn(f[n - 1])
PROOF
  <1> DEFINE a == [k |-> k, c |-> c]
             N == Turns
             Walks(f, m) == f = [n \in 0..m |-> IF n = 0 THEN a ELSE Turn(f[n - 1])]
             T == {m \in 0..N : ~ \E f : Walks(f, m)}
  <1>0. N \in Nat
    BY RoundFacts
  <1> HIDE DEF N, a
  <1>1. T = {}
    <2> SUFFICES ASSUME T # {} PROVE FALSE
      OBVIOUS
    <2>1. PICK m \in T : \A n \in T : m <= n
      <3>1. T \in SUBSET Nat
        BY <1>0
      <3> HIDE DEF T
      <3> QED  BY <3>1, LeastMember
    <2>2. m \in 0..N /\ ~ \E f : Walks(f, m)
      BY <2>1
    <2>3. m # 0
      <3>1. Walks([n \in 0..0 |-> a], 0)
        OBVIOUS
      <3> HIDE DEF Walks
      <3> QED  BY <2>2, <3>1
    <2>4. m - 1 \in 0..N /\ m - 1 \notin T
      <3> HIDE DEF T, Walks
      <3>1. m - 1 \in 0..N /\ ~(m <= m - 1)
        BY <1>0, <2>2, <2>3
      <3> QED  BY <2>1, <3>1
    <2>5. PICK f : Walks(f, m - 1)
      <3> HIDE DEF Walks
      <3> QED  BY <2>4
    <2> DEFINE g == [n \in 0..m |-> IF n = m THEN Turn(f[m - 1]) ELSE f[n]]
    <2>6. \A n \in 0..m - 1 : f[n] = IF n = 0 THEN a ELSE Turn(f[n - 1])
      BY <2>5
    <2>7. ASSUME NEW n \in 0..m PROVE g[n] = IF n = 0 THEN a ELSE Turn(g[n - 1])
      <3>1. CASE n = 0
        <4>1. 0 \in 0..m - 1 /\ f[0] = a
          BY <2>2, <2>3, <2>6
        <4> QED  BY <2>3, <3>1, <4>1
      <3>2. CASE n # 0
        <4>1. n - 1 \in 0..m /\ n - 1 # m /\ g[n - 1] = f[n - 1]
          BY <2>2, <3>2
        <4>2. CASE n = m
          <5> HIDE DEF Walks
          <5> QED  BY <3>2, <4>1, <4>2
        <4>3. CASE n # m
          <5>1. n \in 0..m - 1
            BY <2>2, <4>3
          <5>2. g[n] = f[n]
            BY <4>3
          <5> HIDE DEF g
          <5> QED  BY <2>6, <3>2, <4>1, <5>1, <5>2
        <4> QED  BY <4>2, <4>3
      <3> QED  BY <3>1, <3>2
    <2>8. g = [n \in 0..m |-> g[n]]
      OBVIOUS
    <2>9. Walks(g, m)
      <3> HIDE DEF g
      <3> QED  BY <2>7, <2>8
    <2> HIDE DEF Walks
    <2> QED  BY <2>2, <2>9
  <1>2. PICK f : Walks(f, N)
    <2> HIDE DEF Walks
    <2>1. N \in 0..N /\ N \notin T
      <3> HIDE DEF T
      <3> QED  BY <1>0, <1>1
    <2> QED  BY <2>1
  <1> DEFINE walk[n \in 0..N] == IF n = 0 THEN a ELSE Turn(walk[n - 1])
  <1>3. Loop(k, c) = walk[N]
    BY DEF Loop, N, a
  <1>4. Walks(walk, N)
    <2>1. walk = CHOOSE h : Walks(h, N)
      OBVIOUS
    <2> HIDE DEF Walks, walk
    <2> QED  BY <1>2, <2>1
  <1> HIDE DEF walk
  <1>5. walk[0] = a /\ \A n \in 1..N : walk[n] = Turn(walk[n - 1])
    BY <1>0, <1>4
  <1> QED
    BY <1>3, <1>5 DEF N, a

\* The loop ends within its bound, where the closed form says.
LEMMA LoopIsPick ==
    ASSUME NEW k, NEW S, Loose(k, S, NULL), NEW c \in Pcb \cup {NULL}
    PROVE  Ends(Loop(k, c)) /\ Behind(Loop(k, c)) = Pick(k, c)
PROOF
  <1>1. PICK f : /\ Loop(k, c) = f[Turns] /\ f[0] = [k |-> k, c |-> c]
                 /\ \A n \in 1..Turns : f[n] = Turn(f[n - 1])
    BY LoopWalk
  <1> DEFINE N == Turns
             Good(n) == \E r \in Nat : Underway(k, c, f[n], r) /\ (Ends(f[n]) \/ r + n < N)
             T == {n \in 0..N : ~Good(n)}
  <1>2. N \in Nat
    BY RoundFacts
  <1> HIDE DEF N
  <1>3. Good(0)
    <2> DEFINE list == From(k, c)
               r == Rounds(Below(k)) + (Len(list) + 1 - 1)
    <2>1. Follows(k, list) /\ IF c = NULL THEN list = <<>> ELSE Len(list) >= 1 /\ list[1] = c
      BY FromFollows
    <2>2. list \in Seq(Pcb) /\ Len(list) \in Nat /\ Len(list) <= NTASK /\ NTASK \in Nat
      BY <2>1, ListBound, RoundFacts DEF Follows
    <2> HIDE DEF list
    <2>3. Below(k) \in 1..HIGHEST_PRIORITY /\ HIGHEST_PRIORITY \in Nat
      BY WrapFacts, RoundFacts DEF Loose
    <2>4. Rounds(Below(k)) \in Nat /\ Rounds(Below(k)) <= Rounds(HIGHEST_PRIORITY)
          /\ Rounds(HIGHEST_PRIORITY) \in Nat /\ N = Rounds(HIGHEST_PRIORITY) + (NTASK + 1)
      BY <2>3, RoundFacts DEF N
    <2>5. r \in Nat /\ r + 0 < N
      BY <2>2, <2>4
    <2>6. f[0] = Cand(k, list, 1) /\ Passed(k, list, 1) /\ 1 \in 1..Len(list) + 1
      <3>1. c # NULL => 1 <= Len(list) /\ list[1] = c
        BY <2>1, <2>2
      <3>2. c = NULL => ~(1 <= Len(list))
        BY <2>1
      <3>3. f[0] = Cand(k, list, 1)
        BY <1>1, <3>1, <3>2 DEF Cand
      <3> QED  BY <2>2, <3>3 DEF Passed
    <2>7. AtFirst(k, c, f[0], r)
      BY <2>6 DEF AtFirst, list
    <2> HIDE DEF r
    <2> QED  BY <2>5, <2>7 DEF Underway
  <1>4. ASSUME NEW n \in 1..N, Good(n - 1) PROVE Good(n)
    <2>1. PICK r \in Nat : Underway(k, c, f[n - 1], r) /\ (Ends(f[n - 1]) \/ r + (n - 1) < N)
      BY <1>4
    <2>2. f[n] = Turn(f[n - 1])
      BY <1>1 DEF N
    <2>3. CASE Ends(f[n - 1])
      <3>1. f[n] = f[n - 1]
        BY <2>2, <2>3 DEF Turn
      <3> QED  BY <2>1, <2>3, <3>1
    <2>4. CASE ~Ends(f[n - 1])
      <3>1. PICK u \in Nat : u < r /\ Underway(k, c, f[n], u)
        BY <2>1, <2>2, <2>4, TurnUnderway
      <3>2. u + n < N
        BY <1>2, <2>1, <2>4, <3>1
      <3> QED  BY <3>1, <3>2
    <2> QED  BY <2>3, <2>4
  <1>5. T = {}
    <2> SUFFICES ASSUME T # {} PROVE FALSE
      OBVIOUS
    <2>1. PICK m \in T : \A n \in T : m <= n
      <3>1. T \in SUBSET Nat
        BY <1>2
      <3> HIDE DEF T
      <3> QED  BY <3>1, LeastMember
    <2> HIDE DEF Good
    <2>2. m \in 0..N /\ ~Good(m)
      BY <2>1
    <2>3. m \in 1..N /\ m - 1 \in 0..N /\ ~(m <= m - 1)
      BY <1>2, <1>3, <2>2
    <2>4. Good(m - 1)
      BY <2>1, <2>3
    <2> QED  BY <1>4, <2>2, <2>3, <2>4
  <1>6. Good(N)
    <2> HIDE DEF Good
    <2> QED  BY <1>2, <1>5
  <1>7. PICK r \in Nat : Underway(k, c, f[N], r) /\ (Ends(f[N]) \/ r + N < N)
    BY <1>6
  <1>8. Ends(f[N])
    BY <1>2, <1>7
  <1> QED
    BY <1>1, <1>7, <1>8, EndsAtPick DEF N

\* The walk from any candidate, in any state of the kernel.
LEMMA LinkPick ==
    ASSUME LinkInv
    PROVE  PickAgrees
PROOF
  <1> SUFFICES ASSUME ~os.fault, NEW c \in Pcb \cup {NULL}
               PROVE  Ends(Loop(os, c)) /\ Behind(Loop(os, c)) = Pick(os, c)
    BY DEF PickAgrees
  <1>1. PICK S : Loose(os, S, NULL)
    BY DEF LinkInv, Ongoing, Wild
  <1> QED
    BY <1>1, LoopIsPick

---------------------------------------------------------------------------
\* Whatever programs do with do_kill, re-initialised queues and objects of others,
\* the pointers of queue.c and sched.c stay within one set of processes, none of
\* which has called do_exit, until a NULL is dereferenced.
THEOREM KillLinksInv == KillSpec => []LinkInv
  BY LinkInit, LinkNext, PTL DEF KillSpec

\* No process is ever linked at two places: its one next and one prev (queue.c)
\* belong to one list, whatever do_kill, do_exit and queue_init cut.
THEOREM KillLinkedOnce == KillSpec => []LinkedOnce
  BY KillLinksInv, LinkOnce, PTL

\* do_exit never returns: the scheduler (sched.c) dispatches a process that went
\* through do_exit only after do_spawn has taken its pcb again.
THEOREM KillExitIsFinal == KillSpec => []ExitIsFinal
  BY KillLinksInv, LinkFinal, PTL

\* The loop of scheduler() (sched.c) ends from every candidate, stale pointers
\* included, within a turn per process and level, and dispatches whom the closed
\* form of the model names: for any number of processes and levels.
THEOREM KillPickAgrees == KillSpec => []PickAgrees
  BY KillLinksInv, LinkPick, PTL
====
