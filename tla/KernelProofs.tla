---- MODULE KernelProofs ----
(***************************************************************************)
(* The kernel's queues and statuses agree, for any number of processes and *)
(* objects.                                                                *)
(*                                                                         *)
(* The inductive invariant KInv says that there is one function from       *)
(* processes to queues (NULL for a process that has exited) such that each *)
(* queue holds, once, exactly the processes the function puts there, and   *)
(* that a status is a function of the place: Steady.  Inside a call the    *)
(* state is less regular; Base and Vacant describe the states that         *)
(* do_unblock_*, do_block and do_exit hand to do_scheduler.  The module    *)
(* goes up the call graph: facts about sequences (queue.c), the wake-ups,  *)
(* the loops of check_sleeping and do_exit, the scheduler, the system      *)
(* calls, the next-state relation.                                         *)
(***************************************************************************)
EXTENDS Holders, WellFoundedInduction, FiniteSetTheorems, TLAPS

\* Every non-empty set of naturals has a least member.
LEMMA LeastMember ==
    ASSUME NEW T \in SUBSET Nat, T # {}
    PROVE  \E m \in T : \A n \in T : m <= n
PROOF
  <1> DEFINE R == OpToRel(<, Nat)
  <1>1. IsWellFoundedOn(R, Nat)
    BY NatLessThanWellFounded
  <1> HIDE DEF R
  <1>2. PICK m \in T : \A n \in T : ~(<<n, m>> \in R)
    BY <1>1, WFMin
  <1>3. \A n \in T : ~(n < m)
    BY <1>2 DEF R, OpToRel
  <1> QED
    BY <1>3

\* No element occurs twice: a pcb is never linked twice into one queue.
Distinct(s) == \A i, j \in DOMAIN s : s[i] = s[j] => i = j

\* queue_push: what a queue holds after a push at its tail.
LEMMA AppendFacts ==
    ASSUME NEW S, NEW s \in Seq(S), NEW x \in S
    PROVE  /\ Append(s, x) \in Seq(S)
           /\ \A y : Contains(Append(s, x), y) <=> Contains(s, y) \/ y = x
           /\ Distinct(s) /\ ~Contains(s, x) => Distinct(Append(s, x))
  BY DEF Contains, Distinct

\* Two queues joined, as unblock_all moves a whole queue to the ready queue.
LEMMA ConcatFacts ==
    ASSUME NEW S, NEW s \in Seq(S), NEW t \in Seq(S)
    PROVE  /\ s \o t \in Seq(S)
           /\ \A y : Contains(s \o t, y) <=> Contains(s, y) \/ Contains(t, y)
           /\ Distinct(s) /\ Distinct(t) /\ (\A y : ~(Contains(s, y) /\ Contains(t, y)))
                => Distinct(s \o t)
PROOF
  <1> DEFINE c == s \o t
  <1>1. /\ c \in Seq(S) /\ Len(c) = Len(s) + Len(t)
        /\ Len(s) \in Nat /\ Len(t) \in Nat
        /\ \A i \in 1..Len(s) : c[i] = s[i]
        /\ \A i \in 1..Len(t) : c[Len(s) + i] = t[i]
    OBVIOUS
  <1> HIDE DEF c
  <1>2. \A i \in 1..Len(c) : i \in 1..Len(s) \/ \E j \in 1..Len(t) : i = Len(s) + j
    <2> TAKE i \in 1..Len(c)
    <2>1. CASE i <= Len(s)
      BY <1>1, <2>1
    <2>2. CASE i > Len(s)
      <3>1. i - Len(s) \in 1..Len(t) /\ i = Len(s) + (i - Len(s))
        BY <1>1, <2>2
      <3> QED  BY <3>1
    <2> QED  BY <1>1, <2>1, <2>2
  <1>3. /\ \A i \in 1..Len(s) : i \in 1..Len(c)
        /\ \A j \in 1..Len(t) : Len(s) + j \in 1..Len(c)
    BY <1>1
  <1>4. \A y : Contains(c, y) <=> Contains(s, y) \/ Contains(t, y)
    BY <1>1, <1>2, <1>3 DEF Contains
  <1>5. ASSUME Distinct(s), Distinct(t), \A y : ~(Contains(s, y) /\ Contains(t, y))
        PROVE  Distinct(c)
    <2>1. DOMAIN s = 1..Len(s) /\ DOMAIN t = 1..Len(t) /\ DOMAIN c = 1..Len(c)
      BY <1>1
    <2>2. ASSUME NEW i \in 1..Len(c), NEW j \in 1..Len(c), c[i] = c[j] PROVE i = j
      <3>1. CASE i \in 1..Len(s) /\ j \in 1..Len(s)
        BY <1>1, <1>5, <2>1, <2>2, <3>1 DEF Distinct
      <3>2. ASSUME NEW m \in 1..Len(t), NEW n \in 1..Len(t), i = Len(s) + m, j = Len(s) + n
            PROVE  i = j
        <4>1. t[m] = t[n]
          BY <1>1, <2>2, <3>2
        <4> QED  BY <1>5, <2>1, <3>2, <4>1 DEF Distinct
      <3>3. ASSUME NEW m \in 1..Len(s), NEW n \in 1..Len(t), c[m] = c[Len(s) + n]
            PROVE  FALSE
        <4>1. s[m] = t[n]
          BY <1>1, <3>3
        <4> QED  BY <1>5, <4>1 DEF Contains
      <3> QED  BY <1>2, <2>2, <3>1, <3>2, <3>3
    <2> QED  BY <2>1, <2>2 DEF Distinct
  <1> QED
    BY <1>1, <1>4, <1>5 DEF c

\* queue_remove: what a queue holds after one pcb is taken out.
LEMMA WithoutFacts ==
    ASSUME NEW S, NEW s \in Seq(S), NEW x \in S, Contains(s, x), Distinct(s)
    PROVE  /\ Without(s, x) \in Seq(S)
           /\ \A y : Contains(Without(s, x), y) <=> Contains(s, y) /\ y # x
           /\ Distinct(Without(s, x))
PROOF
  <1>1. PICK i \in 1..Len(s) : s[i] = x /\ i = CHOOSE j \in DOMAIN s : s[j] = x
    BY DEF Contains
  <1>2. Without(s, x) = SubSeq(s, 1, i - 1) \o SubSeq(s, i + 1, Len(s))
    BY <1>1 DEF Without, RemoveAt
  <1> DEFINE a == SubSeq(s, 1, i - 1)  b == SubSeq(s, i + 1, Len(s))
  <1>3. a \in Seq(S) /\ Len(a) = i - 1 /\ \A j \in 1..i - 1 : a[j] = s[j]
    OBVIOUS
  <1>4. b \in Seq(S) /\ Len(b) = Len(s) - i /\ \A j \in 1..Len(s) - i : b[j] = s[i + j]
    OBVIOUS
  <1> HIDE DEF a, b
  <1>0. Len(s) \in Nat /\ DOMAIN s = 1..Len(s) /\ i \in 1..Len(s)
    OBVIOUS
  <1>5. Distinct(a) /\ Distinct(b)
    <2>1. DOMAIN a = 1..i - 1 /\ \A j \in 1..i - 1 : j \in 1..Len(s)
      BY <1>0, <1>3
    <2>2. Distinct(a)
      BY <1>0, <1>3, <2>1 DEF Distinct
    <2>3. ASSUME NEW m \in DOMAIN b, NEW n \in DOMAIN b, b[m] = b[n] PROVE m = n
      <3>1. m \in 1..Len(s) - i /\ n \in 1..Len(s) - i
        BY <1>4
      <3>2. i + m \in 1..Len(s) /\ i + n \in 1..Len(s) /\ s[i + m] = s[i + n]
        <4>1. i + m \in 1..Len(s) /\ i + n \in 1..Len(s)
          BY <1>0, <3>1
        <4>2. b[m] = s[i + m] /\ b[n] = s[i + n]
          BY <1>4, <3>1
        <4> QED  BY <2>3, <4>1, <4>2
      <3>3. i + m = i + n
        BY <1>0, <3>2 DEF Distinct
      <3> QED  BY <1>0, <3>1, <3>3
    <2> QED  BY <2>2, <2>3 DEF Distinct
  <1>6. \A y : Contains(a, y) <=> \E j \in 1..i - 1 : s[j] = y
    BY <1>3 DEF Contains
  <1>7. \A y : Contains(b, y) <=> \E j \in i + 1..Len(s) : s[j] = y
    <2> TAKE y
    <2>1. Contains(b, y) => \E j \in i + 1..Len(s) : s[j] = y
      BY <1>4 DEF Contains
    <2>2. ASSUME NEW j \in i + 1..Len(s), s[j] = y PROVE Contains(b, y)
      <3>1. j - i \in 1..Len(s) - i /\ i + (j - i) = j
        OBVIOUS
      <3> QED  BY <1>4, <2>2, <3>1 DEF Contains
    <2> QED  BY <2>1, <2>2
  <1>8. \A y : ~(Contains(a, y) /\ Contains(b, y))
    BY <1>6, <1>7 DEF Distinct
  <1>9. \A y : Contains(a, y) \/ Contains(b, y) <=> Contains(s, y) /\ y # x
    <2>1. \A j \in 1..Len(s) : j = i \/ j \in 1..i - 1 \/ j \in i + 1..Len(s)
      BY <1>0
    <2>2. \A j \in 1..i - 1 : j \in 1..Len(s) /\ s[j] # x
      BY <1>0, <1>1 DEF Distinct
    <2>3. \A j \in i + 1..Len(s) : j \in 1..Len(s) /\ s[j] # x
      BY <1>0, <1>1 DEF Distinct
    <2>4. \A y : Contains(s, y) <=> \E j \in 1..Len(s) : s[j] = y
      BY DEF Contains
    <2> QED  BY <1>1, <1>6, <1>7, <2>1, <2>2, <2>3, <2>4
  <1>10. Without(s, x) = a \o b
    BY <1>2 DEF a, b
  <1> QED
    BY <1>3, <1>4, <1>5, <1>8, <1>9, <1>10, ConcatFacts

\* queue_dequeue: what a queue holds after its head is taken out.
LEMMA HeadTailFacts ==
    ASSUME NEW S, NEW s \in Seq(S), s # <<>>
    PROVE  /\ Head(s) \in S /\ Tail(s) \in Seq(S)
           /\ Contains(s, Head(s))
           /\ \A y : Contains(s, y) <=> y = Head(s) \/ Contains(Tail(s), y)
           /\ Distinct(s) => Distinct(Tail(s)) /\ ~Contains(Tail(s), Head(s))
PROOF
  <1> DEFINE t == Tail(s)
  <1>1. Head(s) = s[1] /\ Len(s) >= 1 /\ t \in Seq(S) /\ Len(t) = Len(s) - 1
        /\ \A j \in 1..Len(s) - 1 : t[j] = s[j + 1]
    OBVIOUS
  <1> HIDE DEF t
  <1>2. \A y : Contains(t, y) <=> \E j \in 2..Len(s) : s[j] = y
    <2> TAKE y
    <2>1. Contains(t, y) => \E j \in 2..Len(s) : s[j] = y
      BY <1>1 DEF Contains
    <2>2. ASSUME NEW j \in 2..Len(s), s[j] = y PROVE Contains(t, y)
      <3>1. j - 1 \in 1..Len(s) - 1 /\ (j - 1) + 1 = j
        OBVIOUS
      <3> QED  BY <1>1, <2>2, <3>1 DEF Contains
    <2> QED  BY <2>1, <2>2
  <1>3. ASSUME Distinct(s) PROVE Distinct(t) /\ ~Contains(t, Head(s))
    <2>1. ASSUME NEW i \in DOMAIN t, NEW j \in DOMAIN t, t[i] = t[j] PROVE i = j
      <3>1. i \in 1..Len(s) - 1 /\ j \in 1..Len(s) - 1
        BY <1>1
      <3>2. i + 1 \in 1..Len(s) /\ j + 1 \in 1..Len(s) /\ s[i + 1] = s[j + 1]
        BY <1>1, <2>1, <3>1
      <3>3. i + 1 = j + 1
        BY <1>3, <3>2 DEF Distinct
      <3> QED  BY <3>1, <3>3
    <2>2. ASSUME NEW j \in 2..Len(s) PROVE s[j] # s[1]
      BY <1>1, <1>3 DEF Distinct
    <2> QED  BY <1>1, <1>2, <2>1, <2>2 DEF Distinct
  <1>4. Len(s) \in Nat /\ DOMAIN s = 1..Len(s)
    OBVIOUS
  <1>5. ASSUME NEW y PROVE Contains(s, y) <=> y = s[1] \/ Contains(t, y)
    <2>1. Contains(s, y) <=> \E j \in 1..Len(s) : s[j] = y
      BY DEF Contains
    <2>2. \A j \in 1..Len(s) : j = 1 \/ j \in 2..Len(s)
      BY <1>4
    <2>3. 1 \in 1..Len(s) /\ \A j \in 2..Len(s) : j \in 1..Len(s)
      BY <1>1, <1>4
    <2> QED  BY <1>2, <2>1, <2>2, <2>3
  <1> QED
    BY <1>1, <1>3, <1>5 DEF t

\* The records the kernel's functions pass on.
KRec == [queue : [Queues -> Seq(Pcb)], all : Seq(Queues), lost : SUBSET Seq(Pcb),
         status : [Pcb -> Statuses], current_running : Pcb, next_running : Pcb \cup {NULL},
         block_accur : BOOLEAN, cpu_priority : 1..HIGHEST_PRIORITY,
         priority : [Pcb -> 0..HIGHEST_PRIORITY + 1], bonus : [Pcb -> 0..HIGHEST_PRIORITY],
         left : [Pcb -> Nat], fault : BOOLEAN]

\* A call that only moves processes between queues: all else stays.
Same(k, n) ==
    /\ n.all = k.all /\ n.lost = k.lost /\ n.current_running = k.current_running
    /\ n.next_running = k.next_running /\ n.block_accur = k.block_accur
    /\ n.cpu_priority = k.cpu_priority /\ n.priority = k.priority /\ n.bonus = k.bonus
    /\ n.left = k.left /\ n.fault = k.fault

\* The queues Q hold every process where the place function `at' says, once;
\* NULL is the place of a process that has exited.
Placed(Q, at) ==
    /\ Q \in [Queues -> Seq(Pcb)] /\ at \in [Pcb -> Queues \cup {NULL}]
    /\ \A q \in Queues : Distinct(Q[q])
    /\ \A q \in Queues : \A p \in Pcb : Contains(Q[q], p) <=> at[p] = q

\* The status a process that does not run has at place a.
StatusAt(a) == IF a = NULL THEN "EXITED" ELSE IF a = Ready THEN "READY" ELSE "BLOCKED"

\* A kernel state whose queues agree with `at', but for the status of x, the
\* process that runs (NULL: none does): do_scheduler and the blocking calls pass
\* through such states.
Base(k, at, x) ==
    /\ k \in KRec /\ Placed(k.queue, at) /\ k.lost = {} /\ k.fault = FALSE
    /\ at[Shell] = Ready
    /\ \A p \in Pcb : at[p] # NULL => k.priority[p] >= 1
    /\ x \in Pcb => at[x] = Ready
    /\ \A p \in Pcb : p # x => k.status[p] = StatusAt(at[p])

\* The places after every process on a queue of G has become ready.
WokenFrom(at, G) == [p \in Pcb |-> IF at[p] \in G THEN Ready ELSE at[p]]

\* The queues are distinct, and none is a process or NULL.
LEMMA QueueNames ==
    /\ Ready \in Queues /\ Sleep \in Queues /\ \A p \in Pcb : Wait(p) \in Queues /\ Wait(p) # Ready
    /\ Objects \subseteq Queues /\ Ready \notin Objects /\ Sleep # Ready
    /\ NULL \notin Queues /\ NULL \notin Pcb /\ Shell \in Pcb
  BY AddressAssumption, KernelAssumption DEF Queues, Ready, Sleep, Wait, Pcb, Shell

\* The two fields that a wake-up changes.
Repl(k, Q, T) == [k EXCEPT !.queue = Q, !.status = T]
\* The places after p alone has moved to r.
Move(at, p, r) == [at EXCEPT ![p] = r]

\* What replacing those two fields leaves alone.
LEMMA Replaced ==
    ASSUME NEW k \in KRec, NEW Q \in [Queues -> Seq(Pcb)], NEW T \in [Pcb -> Statuses]
    PROVE  /\ Repl(k, Q, T) \in KRec
           /\ Repl(k, Q, T).queue = Q
           /\ Repl(k, Q, T).status = T
           /\ Same(k, Repl(k, Q, T))
PROOF
  <1> DEFINE n == Repl(k, Q, T)
  <1>1. n \in KRec
    BY DEF KRec, Repl
  <1> QED
    BY <1>1 DEF KRec, Same, Repl

\* The statuses after the processes of U became ready.
LEMMA ReadyStatus ==
    ASSUME NEW k \in KRec, NEW U
    PROVE  /\ MakeReady(k, U) \in [Pcb -> Statuses]
           /\ \A p \in Pcb : MakeReady(k, U)[p] = IF p \in U THEN "READY" ELSE k.status[p]
  BY DEF KRec, MakeReady, Statuses

\* Everyone of one queue is moved to the end of another one.
JoinedQueues(Q, r, q) == [Q EXCEPT ![r] = @ \o Q[q], ![q] = <<>>]

\* Placed survives moving a whole queue to the ready queue.
LEMMA Joined ==
    ASSUME NEW Q, NEW at, Placed(Q, at), NEW q \in Queues \ {Ready}
    PROVE  Placed(JoinedQueues(Q, Ready, q), WokenFrom(at, {q}))
PROOF
  <1> DEFINE N == JoinedQueues(Q, Ready, q)
             w == WokenFrom(at, {q})
  <1>1. Q[Ready] \in Seq(Pcb) /\ Q[q] \in Seq(Pcb) /\ Ready \in Queues
    BY QueueNames DEF Placed
  <1>2. N[Ready] = Q[Ready] \o Q[q] /\ N[q] = <<>> /\ \A r \in Queues \ {Ready, q} : N[r] = Q[r]
    BY QueueNames DEF Placed, JoinedQueues
  <1>3. \A y : ~(Contains(Q[Ready], y) /\ Contains(Q[q], y))
    <2>1. \A y : Contains(Q[q], y) => y \in Pcb
      BY <1>1 DEF Contains
    <2> QED  BY <1>1, <2>1 DEF Placed
  <1>4. /\ N[Ready] \in Seq(Pcb) /\ Distinct(N[Ready])
        /\ \A y : Contains(N[Ready], y) <=> Contains(Q[Ready], y) \/ Contains(Q[q], y)
    BY <1>1, <1>2, <1>3, ConcatFacts DEF Placed
  <1>5. N[q] \in Seq(Pcb) /\ Distinct(N[q]) /\ \A y : ~Contains(N[q], y)
    BY <1>2 DEF Distinct, Contains
  <1>6. N \in [Queues -> Seq(Pcb)]
    <2>1. \A r \in Queues : N[r] \in Seq(Pcb)
      BY <1>2, <1>4, <1>5 DEF Placed
    <2>2. DOMAIN N = Queues /\ N = [r \in DOMAIN N |-> N[r]]
      BY DEF Placed, JoinedQueues
    <2> QED  BY <2>1, <2>2
  <1>7. w \in [Pcb -> Queues \cup {NULL}]
        /\ \A p \in Pcb : w[p] = IF at[p] = q THEN Ready ELSE at[p]
    BY <1>1 DEF Placed, WokenFrom
  <1>8. \A r \in Queues : Distinct(N[r])
    BY <1>2, <1>4, <1>5 DEF Placed
  <1> HIDE DEF N, w
  <1>9. ASSUME NEW r \in Queues, NEW p \in Pcb PROVE Contains(N[r], p) <=> w[p] = r
    <2>1. \A s \in Queues : Contains(Q[s], p) <=> at[p] = s
      BY DEF Placed
    <2>2. CASE r = Ready
      BY <1>1, <1>4, <1>7, <2>1, <2>2
    <2>3. CASE r = q
      BY <1>5, <1>7, <2>3
    <2>4. CASE r \notin {Ready, q}
      BY <1>2, <1>7, <2>1, <2>4
    <2> QED  BY <2>2, <2>3, <2>4
  <1> QED
    BY <1>6, <1>7, <1>8, <1>9 DEF Placed, N, w

\* One process leaves a queue at any position or none, and is appended to another one or to none.
LEMMA Leaves ==
    ASSUME NEW Q, NEW at, Placed(Q, at), NEW p \in Pcb, NEW r \in Queues, at[p] = r
    PROVE  Placed([Q EXCEPT ![r] = Without(@, p)], Move(at, p, NULL))
PROOF
  <1> DEFINE N == [Q EXCEPT ![r] = Without(@, p)]
             w == Move(at, p, NULL)
  <1>1. Q[r] \in Seq(Pcb) /\ Contains(Q[r], p) /\ Distinct(Q[r])
    BY DEF Placed
  <1>2. /\ Without(Q[r], p) \in Seq(Pcb) /\ Distinct(Without(Q[r], p))
        /\ \A y : Contains(Without(Q[r], p), y) <=> Contains(Q[r], y) /\ y # p
    BY <1>1, WithoutFacts
  <1>3. N[r] = Without(Q[r], p) /\ \A s \in Queues \ {r} : N[s] = Q[s]
    BY DEF Placed
  <1>4. N \in [Queues -> Seq(Pcb)] /\ w \in [Pcb -> Queues \cup {NULL}]
    BY <1>2, QueueNames DEF Placed, Move
  <1>5. \A s \in Pcb : w[s] = IF s = p THEN NULL ELSE at[s]
    BY DEF Placed, Move
  <1> HIDE DEF N, w
  <1>6. ASSUME NEW s \in Queues, NEW y \in Pcb PROVE Contains(N[s], y) <=> w[y] = s
    <2>1. \A t \in Queues : Contains(Q[t], y) <=> at[y] = t
      BY DEF Placed
    <2>2. s # NULL
      BY QueueNames
    <2>3. CASE s = r
      BY <1>2, <1>3, <1>5, <2>1, <2>2, <2>3
    <2>4. CASE s # r
      BY <1>3, <1>5, <2>1, <2>2, <2>4
    <2> QED  BY <2>3, <2>4
  <1>7. \A s \in Queues : Distinct(N[s])
    BY <1>2, <1>3 DEF Placed
  <1> QED
    BY <1>4, <1>6, <1>7 DEF Placed, N, w

\* Placed survives linking a process that was nowhere.
LEMMA Enters ==
    ASSUME NEW Q, NEW at, Placed(Q, at), NEW p \in Pcb, NEW r \in Queues, at[p] = NULL
    PROVE  Placed([Q EXCEPT ![r] = Append(@, p)], Move(at, p, r))
PROOF
  <1> DEFINE N == [Q EXCEPT ![r] = Append(@, p)]
             w == Move(at, p, r)
  <1>1. Q[r] \in Seq(Pcb) /\ ~Contains(Q[r], p) /\ Distinct(Q[r])
    BY QueueNames DEF Placed
  <1>2. /\ Append(Q[r], p) \in Seq(Pcb) /\ Distinct(Append(Q[r], p))
        /\ \A y : Contains(Append(Q[r], p), y) <=> Contains(Q[r], y) \/ y = p
    BY <1>1, AppendFacts
  <1>3. N[r] = Append(Q[r], p) /\ \A s \in Queues \ {r} : N[s] = Q[s]
    BY DEF Placed
  <1>4. N \in [Queues -> Seq(Pcb)] /\ w \in [Pcb -> Queues \cup {NULL}]
    BY <1>2, QueueNames DEF Placed, Move
  <1>5. \A s \in Pcb : w[s] = IF s = p THEN r ELSE at[s]
    BY DEF Placed, Move
  <1> HIDE DEF N, w
  <1>6. ASSUME NEW s \in Queues, NEW y \in Pcb PROVE Contains(N[s], y) <=> w[y] = s
    <2>1. \A t \in Queues : Contains(Q[t], y) <=> at[y] = t
      BY DEF Placed
    <2>2. s # NULL
      BY QueueNames
    <2>3. CASE s = r
      BY <1>2, <1>3, <1>5, <2>1, <2>2, <2>3
    <2>4. CASE s # r
      BY <1>3, <1>5, <2>1, <2>2, <2>4
    <2> QED  BY <2>3, <2>4
  <1>7. \A s \in Queues : Distinct(N[s])
    BY <1>2, <1>3 DEF Placed
  <1> QED
    BY <1>4, <1>6, <1>7 DEF Placed, N, w

\* The place function of a queue structure is determined by it.
LEMMA OnePlace ==
    ASSUME NEW Q, NEW at, NEW w, Placed(Q, at), Placed(Q, w)
    PROVE  at = w
PROOF
  <1>1. ASSUME NEW p \in Pcb PROVE at[p] = w[p]
    <2>1. at[p] \in Queues \cup {NULL} /\ w[p] \in Queues \cup {NULL}
      BY DEF Placed
    <2>2. \A q \in Queues : at[p] = q <=> w[p] = q
      BY DEF Placed
    <2> QED  BY <2>1, <2>2
  <1> QED
    BY <1>1 DEF Placed

\* do_unblock_all: everybody on q becomes ready, nothing else changes.
LEMMA UnblockAllBase ==
    ASSUME NEW k, NEW at, NEW x, Base(k, at, x), NEW q \in Queues \ {Ready}
    PROVE  /\ Base(UnblockAll(k, q), WokenFrom(at, {q}), x)
           /\ Same(k, UnblockAll(k, q))
           /\ x \in Pcb => UnblockAll(k, q).status[x] = k.status[x]
PROOF
  <1> DEFINE U == ToSet(k.queue[q])
             Q == JoinedQueues(k.queue, Ready, q)
             T == MakeReady(k, U)
             n == UnblockAll(k, q)
             w == WokenFrom(at, {q})
  <1>1. k \in KRec /\ Placed(k.queue, at) /\ Ready \in Queues
    BY QueueNames DEF Base
  <1>2. n = Repl(k, Q, T)
    BY DEF UnblockAll, JoinedQueues, Repl
  <1>3. Placed(Q, w)
    BY <1>1, Joined
  <1>4. Q \in [Queues -> Seq(Pcb)]
    BY <1>3 DEF Placed
  <1>5. T \in [Pcb -> Statuses] /\ \A p \in Pcb : T[p] = IF p \in U THEN "READY" ELSE k.status[p]
    BY <1>1, ReadyStatus
  <1>6. \A p \in Pcb : p \in U <=> at[p] = q
    <2>0. k.queue[q] \in Seq(Pcb) /\ DOMAIN k.queue[q] = 1..Len(k.queue[q])
      BY <1>1 DEF Placed
    <2>1. \A p \in Pcb : p \in U <=> Contains(k.queue[q], p)
      BY <2>0 DEF Contains, ToSet
    <2> QED  BY <1>1, <2>1 DEF Placed
  <1>7. \A p \in Pcb : w[p] = IF at[p] = q THEN Ready ELSE at[p]
    BY DEF WokenFrom
  <1> HIDE DEF Q, T, w, U
  <1>8. n \in KRec /\ n.queue = Q /\ n.status = T /\ Same(k, n)
    BY <1>1, <1>2, <1>4, <1>5, Replaced
  <1> HIDE DEF n
  <1>9. ASSUME NEW p \in Pcb, p # x PROVE n.status[p] = StatusAt(w[p])
    <2>1. k.status[p] = StatusAt(at[p])
      BY <1>9 DEF Base
    <2> QED  BY <1>5, <1>6, <1>7, <1>8, <2>1, QueueNames DEF StatusAt
  <1>10. x \in Pcb => w[x] = Ready /\ n.status[x] = k.status[x]
    BY <1>5, <1>6, <1>7, <1>8 DEF Base
  <1>11. w[Shell] = Ready
    BY <1>7, QueueNames DEF Base
  <1>12. \A p \in Pcb : w[p] # NULL => n.priority[p] >= 1
    BY <1>7, <1>8, QueueNames DEF Base, Same
  <1>13. n.lost = {} /\ n.fault = FALSE
    BY <1>8 DEF Base, Same
  <1> QED
    BY <1>3, <1>8, <1>9, <1>10, <1>11, <1>12, <1>13 DEF Base, n, w

\* One process that is blocked in q becomes ready: the first step of every wake-up of a single process.
LEMMA WakeOne ==
    ASSUME NEW k, NEW at, NEW x, Base(k, at, x), NEW p \in Pcb, NEW n, NEW Q, at[p] \in Queues \ {Ready},
           Placed(Q, Move(at, p, Ready)),
           n = Repl(k, Q, MakeReady(k, {p}))
    PROVE  /\ Base(n, Move(at, p, Ready), x)
           /\ Same(k, n)
           /\ x \in Pcb => n.status[x] = k.status[x]
PROOF
  <1> DEFINE T == MakeReady(k, {p})
             w == Move(at, p, Ready)
  <1>1. k \in KRec /\ Placed(k.queue, at)
    BY DEF Base
  <1>2. Q \in [Queues -> Seq(Pcb)]
    BY DEF Placed
  <1>3. T \in [Pcb -> Statuses] /\ \A y \in Pcb : T[y] = IF y = p THEN "READY" ELSE k.status[y]
    BY <1>1, ReadyStatus
  <1>4. \A y \in Pcb : w[y] = IF y = p THEN Ready ELSE at[y]
    BY <1>1 DEF Placed, Move
  <1> HIDE DEF T, w
  <1>5. n \in KRec /\ n.queue = Q /\ n.status = T /\ Same(k, n)
    BY <1>1, <1>2, <1>3, Replaced DEF T
  <1>6. ASSUME NEW y \in Pcb, y # x PROVE n.status[y] = StatusAt(w[y])
    <2>1. k.status[y] = StatusAt(at[y])
      BY <1>6 DEF Base
    <2> QED  BY <1>3, <1>4, <1>5, <2>1, QueueNames DEF StatusAt
  <1>7. x \in Pcb => x # p
    BY DEF Base
  <1>8. x \in Pcb => w[x] = Ready /\ n.status[x] = k.status[x]
    BY <1>3, <1>4, <1>5, <1>7 DEF Base
  <1>9. w[Shell] = Ready
    BY <1>4, QueueNames DEF Base
  <1>10. \A y \in Pcb : w[y] # NULL => n.priority[y] >= 1
    BY <1>4, <1>5, QueueNames DEF Base, Same
  <1>11. n.lost = {} /\ n.fault = FALSE
    BY <1>5 DEF Base, Same
  <1>12. Placed(n.queue, w)
    BY <1>5 DEF w
  <1> QED
    BY <1>5, <1>6, <1>8, <1>9, <1>10, <1>11, <1>12 DEF Base, w

\* check_sleeping wakes one sleeper: it becomes ready, nothing else changes.
LEMMA WakenBase ==
    ASSUME NEW k, NEW at, NEW x, Base(k, at, x), NEW p \in Pcb, at[p] = Sleep
    PROVE  /\ Base(Waken(k, p), Move(at, p, Ready), x)
           /\ Same(k, Waken(k, p))
           /\ x \in Pcb => Waken(k, p).status[x] = k.status[x]
PROOF
  <1> DEFINE Q1 == [k.queue EXCEPT ![Sleep] = Without(@, p)]
             Q2 == [Q1 EXCEPT ![Ready] = Append(@, p)]
             a1 == Move(at, p, NULL)
  <1>1. k \in KRec /\ Placed(k.queue, at) /\ at \in [Pcb -> Queues \cup {NULL}]
        /\ k.queue \in [Queues -> Seq(Pcb)]
    BY DEF Base, Placed
  <1>2. Placed(Q1, a1)
    BY <1>1, QueueNames, Leaves
  <1>3. a1[p] = NULL /\ Move(a1, p, Ready) = Move(at, p, Ready)
    BY <1>1 DEF Move
  <1>4. Placed(Q2, Move(at, p, Ready))
    <2> HIDE DEF Q1, a1
    <2> QED  BY <1>2, <1>3, QueueNames, Enters
  <1>5. Waken(k, p) = Repl(k, Q2, MakeReady(k, {p}))
    <2>1. [k.queue EXCEPT ![Ready] = Append(@, p), ![Sleep] = Without(@, p)] = Q2
      BY <1>1, QueueNames
    <2> QED  BY <2>1 DEF Waken, Repl
  <1> HIDE DEF Q2
  <1> QED
    BY <1>4, <1>5, QueueNames, WakeOne

\* do_unblock_one: at most one process of q becomes ready.
LEMMA UnblockOneBase ==
    ASSUME NEW k, NEW at, NEW x, Base(k, at, x), NEW q \in Queues \ {Ready}
    PROVE  /\ Same(k, UnblockOne(k, q))
           /\ x \in Pcb => UnblockOne(k, q).status[x] = k.status[x]
           /\ \/ Base(UnblockOne(k, q), at, x) /\ UnblockOne(k, q) = k
              \/ \E p \in Pcb : at[p] = q /\ Base(UnblockOne(k, q), Move(at, p, Ready), x)
PROOF
  <1>1. k \in KRec /\ Placed(k.queue, at) /\ at \in [Pcb -> Queues \cup {NULL}]
        /\ k.queue \in [Queues -> Seq(Pcb)] /\ Distinct(k.queue[q])
    BY DEF Base, Placed
  <1>2. CASE k.queue[q] = <<>>
    BY <1>2 DEF UnblockOne, Same
  <1>3. CASE k.queue[q] # <<>>
    <2> DEFINE s == k.queue[q]
               p == Head(s)
               Q1 == [k.queue EXCEPT ![q] = Tail(@)]
               Q2 == [Q1 EXCEPT ![Ready] = Append(@, p)]
               a1 == Move(at, p, NULL)
    <2>1. s \in Seq(Pcb) /\ s # <<>> /\ Distinct(s)
      BY <1>1, <1>3
    <2>2. /\ p \in Pcb /\ Tail(s) \in Seq(Pcb) /\ Contains(s, p)
          /\ \A y : Contains(s, y) <=> y = p \/ Contains(Tail(s), y)
          /\ Distinct(Tail(s)) /\ ~Contains(Tail(s), p)
      BY <2>1, HeadTailFacts
    <2>3. at[p] = q
      BY <1>1, <2>2 DEF Placed
    <2>4. Placed(Q1, a1)
      <3>1. Q1 \in [Queues -> Seq(Pcb)] /\ a1 \in [Pcb -> Queues \cup {NULL}]
        BY <1>1, <2>2 DEF Move
      <3>2. Q1[q] = Tail(s) /\ \A r \in Queues \ {q} : Q1[r] = k.queue[r]
        BY <1>1
      <3>3. \A y \in Pcb : a1[y] = IF y = p THEN NULL ELSE at[y]
        BY <1>1, <2>2 DEF Move
      <3>4. \A r \in Queues : \A y \in Pcb : Contains(k.queue[r], y) <=> at[y] = r
        BY <1>1 DEF Placed
      <3>5. \A r \in Queues : Distinct(Q1[r])
        BY <1>1, <2>2, <3>2 DEF Placed
      <3> HIDE DEF Q1, a1, p, s
      <3>6. ASSUME NEW r \in Queues, NEW y \in Pcb PROVE Contains(Q1[r], y) <=> a1[y] = r
        <4>1. CASE r = q
          BY <2>2, <3>2, <3>3, <3>4, <4>1, QueueNames DEF s
        <4>2. CASE r # q
          BY <2>3, <3>2, <3>3, <3>4, <4>2, QueueNames
        <4> QED  BY <4>1, <4>2
      <3> QED  BY <3>1, <3>5, <3>6 DEF Placed
    <2>5. a1[p] = NULL /\ Move(a1, p, Ready) = Move(at, p, Ready)
      BY <1>1, <2>2 DEF Move
    <2>6. Placed(Q2, Move(at, p, Ready))
      <3> HIDE DEF Q1, a1, p
      <3> QED  BY <2>2, <2>4, <2>5, QueueNames, Enters
    <2>7. UnblockOne(k, q) = Repl(k, Q2, MakeReady(k, {p}))
      <3>1. [k.queue EXCEPT ![Ready] = Append(@, p), ![q] = Tail(@)] = Q2
        BY <1>1, QueueNames
      <3> QED  BY <1>3, <3>1 DEF UnblockOne, Repl
    <2> HIDE DEF Q2, p, s
    <2>8. /\ Base(UnblockOne(k, q), Move(at, p, Ready), x)
          /\ Same(k, UnblockOne(k, q))
          /\ x \in Pcb => UnblockOne(k, q).status[x] = k.status[x]
      BY <2>2, <2>3, <2>6, <2>7, WakeOne
    <2> QED  BY <2>2, <2>3, <2>8
  <1> QED
    BY <1>2, <1>3

\* One turn of check_sleeping's loop, at the pcb c of the sleep queue.
WakeStep(k, j, c) == IF k.left[c] = 0 THEN Waken(j, c) ELSE j

\* check_sleeping is the walk of that turn along the sleep queue.
LEMMA WakeWalk ==
    ASSUME NEW k, NEW s \in Seq(Pcb), s = k.queue[Sleep]
    PROVE  \E f : /\ WakeSleepers(k) = f[Len(s)] /\ f[0] = k
                  /\ \A n \in 1..Len(s) : f[n] = WakeStep(k, f[n - 1], s[n])
PROOF
  <1> DEFINE N == Len(s)
             Walks(f, m) == f = [n \in 0..m |-> IF n = 0 THEN k ELSE WakeStep(k, f[n - 1], s[n])]
             T == {m \in 0..N : ~ \E f : Walks(f, m)}
  <1>0. N \in Nat
    OBVIOUS
  <1> HIDE DEF N
  <1>1. T = {}
    <2> SUFFICES ASSUME T # {} PROVE FALSE
      OBVIOUS
    <2>1. PICK m \in T : \A n \in T : m <= n
      <3>1. T \in SUBSET Nat
        BY <1>0
      <3> HIDE DEF T
      <3> QED  BY <3>1, LeastMember
    <2>2. m \in 0..N /\ ~ \E f : Walks(f, m)
      BY <2>1
    <2>3. m # 0
      <3>1. Walks([n \in 0..0 |-> k], 0)
        OBVIOUS
      <3> HIDE DEF Walks
      <3> QED  BY <2>2, <3>1
    <2>4. m - 1 \in 0..N /\ m - 1 \notin T
      <3> HIDE DEF T, Walks
      <3>1. m - 1 \in 0..N /\ ~(m <= m - 1)
        BY <1>0, <2>2, <2>3
      <3> QED  BY <2>1, <3>1
    <2>5. PICK f : Walks(f, m - 1)
      <3> HIDE DEF Walks
      <3> QED  BY <2>4
    <2> DEFINE g == [n \in 0..m |-> IF n = m THEN WakeStep(k, f[m - 1], s[m]) ELSE f[n]]
    <2>6. \A n \in 0..m - 1 : f[n] = IF n = 0 THEN k ELSE WakeStep(k, f[n - 1], s[n])
      BY <2>5
    <2>7. ASSUME NEW n \in 0..m PROVE g[n] = IF n = 0 THEN k ELSE WakeStep(k, g[n - 1], s[n])
      <3>1. CASE n = 0
        <4>1. 0 \in 0..m - 1 /\ f[0] = k
          BY <2>2, <2>3, <2>6
        <4> QED  BY <2>3, <3>1, <4>1
      <3>2. CASE n # 0
        <4>1. n - 1 \in 0..m /\ n - 1 # m /\ g[n - 1] = f[n - 1]
          BY <2>2, <3>2
        <4>2. CASE n = m
          <5> HIDE DEF Walks
          <5> QED  BY <3>2, <4>1, <4>2
        <4>3. CASE n # m
          <5>1. n \in 0..m - 1
            BY <2>2, <4>3
          <5>2. g[n] = f[n]
            BY <4>3
          <5> HIDE DEF g
          <5> QED  BY <2>6, <3>2, <4>1, <5>1, <5>2
        <4> QED  BY <4>2, <4>3
      <3> QED  BY <3>1, <3>2
    <2>8. g = [n \in 0..m |-> g[n]]
      OBVIOUS
    <2>9. Walks(g, m)
      <3> HIDE DEF g
      <3> QED  BY <2>7, <2>8
    <2> HIDE DEF Walks
    <2> QED  BY <2>2, <2>9
  <1>2. \E f : Walks(f, N)
    <2> HIDE DEF Walks
    <2>1. N \in 0..N /\ N \notin T
      <3> HIDE DEF T
      <3> QED  BY <1>0, <1>1
    <2> QED  BY <2>1
  <1> DEFINE walk[n \in 0..Len(k.queue[Sleep])] ==
               IF n = 0 THEN k
               ELSE IF k.left[k.queue[Sleep][n]] = 0 THEN Waken(walk[n - 1], k.queue[Sleep][n]) ELSE walk[n - 1]
  <1>3. WakeSleepers(k) = walk[Len(k.queue[Sleep])]
    BY DEF WakeSleepers
  <1>4. Walks(walk, N)
    <2>1. PICK f : Walks(f, N)
      BY <1>2
    <2> DEFINE P(h) == h = [n \in 0..Len(k.queue[Sleep]) |-> 
               IF n = 0 THEN k
               ELSE IF k.left[k.queue[Sleep][n]] = 0 THEN Waken(h[n - 1], k.queue[Sleep][n]) ELSE h[n - 1]]
    <2>2. \A h : P(h) <=> Walks(h, N)
      BY DEF WakeStep, N
    <2>3. walk = CHOOSE h : P(h)
      OBVIOUS
    <2> HIDE DEF P, walk, Walks
    <2> QED  BY <2>1, <2>2, <2>3
  <1> HIDE DEF walk
  <1>5. walk[0] = k /\ \A n \in 1..N : walk[n] = WakeStep(k, walk[n - 1], s[n])
    BY <1>0, <1>4
  <1> QED
    BY <1>3, <1>5 DEF N

\* The places after the sleepers U have been woken.
Wakes(at, U) == [p \in Pcb |-> IF p \in U THEN Ready ELSE at[p]]
\* The processes that sleep.
Sleepers(at) == {p \in Pcb : at[p] = Sleep}

\* check_sleeping wakes some of the sleepers and moves nobody else.
LEMMA WakeSleepersBase ==
    ASSUME NEW k, NEW at, NEW x, Base(k, at, x)
    PROVE  /\ Same(k, WakeSleepers(k))
           /\ x \in Pcb => WakeSleepers(k).status[x] = k.status[x]
           /\ \E U \in SUBSET Sleepers(at) : Base(WakeSleepers(k), Wakes(at, U), x)
PROOF
  <1> DEFINE s == k.queue[Sleep]
             N == Len(s)
  <1>1. k \in KRec /\ Placed(k.queue, at) /\ at \in [Pcb -> Queues \cup {NULL}]
        /\ s \in Seq(Pcb) /\ Distinct(s) /\ Sleep \in Queues
    BY QueueNames DEF Base, Placed
  <1>2. PICK f : /\ WakeSleepers(k) = f[N] /\ f[0] = k
                 /\ \A n \in 1..N : f[n] = WakeStep(k, f[n - 1], s[n])
    BY <1>1, WakeWalk
  <1>3. N \in Nat /\ DOMAIN s = 1..N /\ \A n \in 1..N : s[n] \in Pcb
    BY <1>1
  <1>4. \A n \in 1..N : at[s[n]] = Sleep
    <2> TAKE n \in 1..N
    <2>1. Contains(s, s[n])
      BY <1>3 DEF Contains
    <2> QED  BY <1>1, <1>3, <2>1 DEF Placed
  <1> DEFINE Before(n) == {s[i] : i \in 1..n}
             Good(n) == /\ Same(k, f[n])
                        /\ x \in Pcb => f[n].status[x] = k.status[x]
                        /\ \E U \in SUBSET Before(n) : Base(f[n], Wakes(at, U), x)
             T == {n \in 0..N : ~Good(n)}
  <1>5. Good(0)
    <2>1. Wakes(at, {}) = at
      BY <1>1 DEF Wakes
    <2>2. {} \in SUBSET Before(0) /\ Same(k, k)
      BY DEF Same
    <2> HIDE DEF Before
    <2> QED  BY <1>2, <2>1, <2>2
  <1>6. ASSUME NEW n \in 1..N, Good(n - 1) PROVE Good(n)
    <2> DEFINE j == f[n - 1]  c == s[n]
    <2>1. f[n] = WakeStep(k, j, c)
      BY <1>2
    <2>2. PICK U \in SUBSET Before(n - 1) : Base(j, Wakes(at, U), x)
      BY <1>6
    <2>3. Same(k, j) /\ (x \in Pcb => j.status[x] = k.status[x])
      BY <1>6
    <2>4. Before(n - 1) \subseteq Before(n) /\ c \in Before(n) /\ c \in Pcb /\ at[c] = Sleep
      BY <1>3, <1>4
    <2>5. c \notin U
      <3>1. \A i \in 1..n - 1 : i \in 1..N /\ s[i] # s[n]
        BY <1>1, <1>3 DEF Distinct
      <3> QED  BY <3>1
    <2> HIDE DEF Before, j, c, N
    <2>6. CASE k.left[c] # 0
      BY <2>1, <2>2, <2>3, <2>4, <2>6 DEF WakeStep, j
    <2>7. CASE k.left[c] = 0
      <3> DEFINE w == Wakes(at, U)
      <3>1. w[c] = Sleep
        BY <2>4, <2>5 DEF Wakes
      <3>2. Move(w, c, Ready) = Wakes(at, U \cup {c})
        BY <2>4 DEF Move, Wakes
      <3> HIDE DEF w
      <3>3. /\ Base(Waken(j, c), Move(w, c, Ready), x)
            /\ Same(j, Waken(j, c))
            /\ x \in Pcb => Waken(j, c).status[x] = j.status[x]
        BY <2>2, <2>4, <3>1, WakenBase DEF w
      <3>4. f[n] = Waken(j, c)
        BY <2>1, <2>7 DEF WakeStep
      <3>5. U \cup {c} \in SUBSET Before(n)
        BY <2>4
      <3>6. Same(k, f[n])
        BY <2>3, <3>3, <3>4 DEF Same
      <3> QED  BY <2>3, <3>2, <3>3, <3>4, <3>5, <3>6
    <2> QED  BY <2>6, <2>7
  <1>7. T = {}
    <2> SUFFICES ASSUME T # {} PROVE FALSE
      OBVIOUS
    <2>1. PICK m \in T : \A n \in T : m <= n
      <3>1. T \in SUBSET Nat
        BY <1>3
      <3> HIDE DEF T
      <3> QED  BY <3>1, LeastMember
    <2> HIDE DEF Good
    <2>2. m \in 0..N /\ ~Good(m)
      BY <2>1
    <2>3. m \in 1..N /\ m - 1 \in 0..N /\ ~(m <= m - 1)
      BY <1>3, <1>5, <2>2
    <2>4. Good(m - 1)
      BY <2>1, <2>3
    <2> QED  BY <1>6, <2>2, <2>3, <2>4
  <1>8. Good(N)
    <2> HIDE DEF Good
    <2>1. N \in 0..N
      BY <1>3
    <2> QED  BY <1>7, <2>1
  <1>9. Before(N) \subseteq Sleepers(at)
    BY <1>3, <1>4 DEF Sleepers
  <1> QED
    BY <1>2, <1>8, <1>9

\* do_exit's loop over the slots, one mutex and one semaphore at a time.
LEMMA FreeLoop ==
    ASSUME NEW k, NEW p
    PROVE  \E f : /\ FreeAll(k, p) = f[MAX_LOCKS]
                  /\ f[0] = UnblockAll([k EXCEPT !.status[p] = "EXITED"], Wait(p))
                  /\ \A n \in 1..MAX_LOCKS : f[n] = Free(Free(f[n - 1], locks[p][n]), sems[p][n])
PROOF
  <1> DEFINE N == MAX_LOCKS
             b == UnblockAll([k EXCEPT !.status[p] = "EXITED"], Wait(p))
             Frees(f, m) == f = [n \in 0..m |-> IF n = 0 THEN b
                                   ELSE Free(Free(f[n - 1], locks[p][n]), sems[p][n])]
             T == {m \in 0..N : ~ \E f : Frees(f, m)}
  <1>0. N \in Nat
    BY KernelAssumption
  <1> HIDE DEF N, b
  <1>1. T = {}
    <2> SUFFICES ASSUME T # {} PROVE FALSE
      OBVIOUS
    <2>1. PICK m \in T : \A n \in T : m <= n
      <3>1. T \in SUBSET Nat
        BY <1>0
      <3> HIDE DEF T
      <3> QED  BY <3>1, LeastMember
    <2>2. m \in 0..N /\ ~ \E f : Frees(f, m)
      BY <2>1
    <2>3. m # 0
      <3>1. Frees([n \in 0..0 |-> b], 0)
        OBVIOUS
      <3> HIDE DEF Frees
      <3> QED  BY <2>2, <3>1
    <2>4. m - 1 \in 0..N /\ m - 1 \notin T
      <3> HIDE DEF T, Frees
      <3>1. m - 1 \in 0..N /\ ~(m <= m - 1)
        BY <1>0, <2>2, <2>3
      <3> QED  BY <2>1, <3>1
    <2>5. PICK f : Frees(f, m - 1)
      <3> HIDE DEF Frees
      <3> QED  BY <2>4
    <2> DEFINE g == [n \in 0..m |-> IF n = m THEN Free(Free(f[m - 1], locks[p][m]), sems[p][m]) ELSE f[n]]
    <2>6. \A n \in 0..m - 1 : f[n] = IF n = 0 THEN b ELSE Free(Free(f[n - 1], locks[p][n]), sems[p][n])
      BY <2>5
    <2>7. ASSUME NEW n \in 0..m
          PROVE  g[n] = IF n = 0 THEN b ELSE Free(Free(g[n - 1], locks[p][n]), sems[p][n])
      <3>1. CASE n = 0
        <4>1. 0 \in 0..m - 1 /\ f[0] = b
          BY <2>2, <2>3, <2>6
        <4> QED  BY <2>3, <3>1, <4>1
      <3>2. CASE n # 0
        <4>1. n - 1 \in 0..m /\ n - 1 # m /\ g[n - 1] = f[n - 1]
          BY <2>2, <3>2
        <4>2. CASE n = m
          <5> HIDE DEF Frees
          <5> QED  BY <3>2, <4>1, <4>2
        <4>3. CASE n # m
          <5>1. n \in 0..m - 1
            BY <2>2, <4>3
          <5>2. g[n] = f[n]
            BY <4>3
          <5> HIDE DEF g
          <5> QED  BY <2>6, <3>2, <4>1, <5>1, <5>2
        <4> QED  BY <4>2, <4>3
      <3> QED  BY <3>1, <3>2
    <2>8. g = [n \in 0..m |-> g[n]]
      OBVIOUS
    <2>9. Frees(g, m)
      <3> HIDE DEF g
      <3> QED  BY <2>7, <2>8
    <2> HIDE DEF Frees
    <2> QED  BY <2>2, <2>9
  <1>2. \E f : Frees(f, N)
    <2> HIDE DEF Frees
    <2>1. N \in 0..N /\ N \notin T
      <3> HIDE DEF T
      <3> QED  BY <1>0, <1>1
    <2> QED  BY <2>1
  <1> DEFINE loop[n \in 0..MAX_LOCKS] ==
               IF n = 0 THEN UnblockAll([k EXCEPT !.status[p] = "EXITED"], Wait(p))
               ELSE Free(Free(loop[n - 1], locks[p][n]), sems[p][n])
  <1>3. FreeAll(k, p) = loop[MAX_LOCKS]
    BY DEF FreeAll
  <1>4. Frees(loop, N)
    <2>1. PICK f : Frees(f, N)
      BY <1>2
    <2> DEFINE P(h) == h = [n \in 0..MAX_LOCKS |->
               IF n = 0 THEN UnblockAll([k EXCEPT !.status[p] = "EXITED"], Wait(p))
               ELSE Free(Free(h[n - 1], locks[p][n]), sems[p][n])]
    <2>2. \A h : P(h) <=> Frees(h, N)
      BY DEF N, b
    <2>3. loop = CHOOSE h : P(h)
      OBVIOUS
    <2> HIDE DEF P, loop, Frees
    <2> QED  BY <2>1, <2>2, <2>3
  <1> HIDE DEF loop
  <1>5. loop[0] = b /\ \A n \in 1..N : loop[n] = Free(Free(loop[n - 1], locks[p][n]), sems[p][n])
    BY <1>0, <1>4
  <1> QED
    BY <1>3, <1>5 DEF N, b

\* Giving one held object back wakes everybody who waits on it.
LEMMA FreeBase ==
    ASSUME NEW k, NEW at, NEW x, Base(k, at, x), NEW o \in Objects \cup {NULL}
    PROVE  /\ Base(Free(k, o), WokenFrom(at, {o} \ {NULL}), x)
           /\ Same(k, Free(k, o))
           /\ x \in Pcb => Free(k, o).status[x] = k.status[x]
PROOF
  <1>1. CASE o = NULL
    <2>1. WokenFrom(at, {o} \ {NULL}) = at
      BY <1>1 DEF WokenFrom, Base, Placed
    <2> QED  BY <1>1, <2>1 DEF Free, Same
  <1>2. CASE o # NULL
    <2>1. {o} \ {NULL} = {o} /\ o \in Queues \ {Ready} /\ Free(k, o) = UnblockAll(k, o)
      BY <1>2, QueueNames DEF Free
    <2> QED  BY <2>1, UnblockAllBase
  <1> QED  BY <1>1, <1>2

\* The queues that the exit of p empties: its waiters', its objects'.
GivenBack(p) ==
    {Wait(p)} \cup (({locks[p][i] : i \in Slots} \cup {sems[p][i] : i \in Slots}) \ {NULL})

\* Waking two sets of queues in turn is waking their union.
LEMMA WokenTwice ==
    ASSUME NEW at, NEW A, NEW B
    PROVE  WokenFrom(WokenFrom(at, A), B) = WokenFrom(at, A \cup B)
  BY DEF WokenFrom

\* do_exit's release loop wakes the waiters of p and of all it holds.
LEMMA FreeAllBase ==
    ASSUME NEW k, NEW at, NEW p \in Pcb, Base(k, at, p),
           locks[p] \in [Slots -> Locks \cup {NULL}], sems[p] \in [Slots -> Sems \cup {NULL}]
    PROVE  /\ Base(FreeAll(k, p), WokenFrom(at, GivenBack(p)), p)
           /\ Same(k, FreeAll(k, p))
           /\ FreeAll(k, p).status[p] = "EXITED"
PROOF
  <1> DEFINE k0 == [k EXCEPT !.status[p] = "EXITED"]
             T0 == [k.status EXCEPT ![p] = "EXITED"]
             N == MAX_LOCKS
  <1>1. PICK f : /\ FreeAll(k, p) = f[N] /\ f[0] = UnblockAll(k0, Wait(p))
                 /\ \A n \in 1..N : f[n] = Free(Free(f[n - 1], locks[p][n]), sems[p][n])
    BY FreeLoop
  <1>2. k \in KRec /\ k.queue \in [Queues -> Seq(Pcb)] /\ T0 \in [Pcb -> Statuses]
    BY DEF Base, KRec, Statuses
  <1>3. k0 = Repl(k, k.queue, T0)
    BY <1>2 DEF Repl, KRec
  <1>4. k0 \in KRec /\ k0.queue = k.queue /\ k0.status = T0 /\ Same(k, k0)
    <2> HIDE DEF k0, T0
    <2> QED  BY <1>2, <1>3, Replaced
  <1>5. T0[p] = "EXITED" /\ \A y \in Pcb : y # p => T0[y] = k.status[y]
    BY <1>2 DEF KRec
  <1> HIDE DEF k0, T0
  <1>6. Base(k0, at, p)
    BY <1>4, <1>5 DEF Base, Same
  <1> DEFINE G(n) == {Wait(p)} \cup (({locks[p][i] : i \in 1..n} \cup {sems[p][i] : i \in 1..n}) \ {NULL})
             Good(n) == /\ Base(f[n], WokenFrom(at, G(n)), p)
                        /\ Same(k, f[n])
                        /\ f[n].status[p] = "EXITED"
             T == {n \in 0..N : ~Good(n)}
  <1>7. N \in Nat /\ Slots = 1..N
    BY KernelAssumption DEF Slots
  <1>8. Good(0)
    <2>1. /\ Base(f[0], WokenFrom(at, {Wait(p)}), p) /\ Same(k0, f[0])
          /\ f[0].status[p] = k0.status[p]
      <3>1. Wait(p) \in Queues \ {Ready}
        BY QueueNames
      <3> QED  BY <1>1, <1>6, <3>1, UnblockAllBase
    <2>2. Same(k, f[0])
      BY <1>4, <2>1 DEF Same
    <2>3. G(0) = {Wait(p)}
      OBVIOUS
    <2> HIDE DEF G
    <2> QED  BY <1>4, <1>5, <2>1, <2>2, <2>3
  <1>9. ASSUME NEW n \in 1..N, Good(n - 1) PROVE Good(n)
    <2> DEFINE j == f[n - 1]  l == locks[p][n]  s == sems[p][n]
               w == WokenFrom(at, G(n - 1))
               w1 == WokenFrom(w, {l} \ {NULL})
               w2 == WokenFrom(w1, {s} \ {NULL})
    <2>1. l \in Objects \cup {NULL} /\ s \in Objects \cup {NULL}
      BY <1>7 DEF Objects
    <2>2. f[n] = Free(Free(j, l), s)
      BY <1>1
    <2>3. Base(j, w, p) /\ Same(k, j) /\ j.status[p] = "EXITED"
      BY <1>9
    <2>4. G(n) = (G(n - 1) \cup ({l} \ {NULL})) \cup ({s} \ {NULL})
      <3>1. \A i \in 1..n : i \in 1..n - 1 \/ i = n
        OBVIOUS
      <3>2. \A i \in 1..n - 1 : i \in 1..n
        OBVIOUS
      <3>3. n \in 1..n
        OBVIOUS
      <3> QED  BY <3>1, <3>2, <3>3
    <2> HIDE DEF j, l, s, G
    <2>5. w2 = WokenFrom(at, G(n))
      <3> DEFINE A == G(n - 1)  B == {l} \ {NULL}  C == {s} \ {NULL}
      <3> HIDE DEF A, B, C
      <3>1. w1 = WokenFrom(WokenFrom(at, A), B) /\ w2 = WokenFrom(w1, C)
        BY DEF A, B, C
      <3>2. w1 = WokenFrom(at, A \cup B)
        BY <3>1, WokenTwice
      <3>3. w2 = WokenFrom(at, (A \cup B) \cup C)
        <4> DEFINE D == A \cup B
        <4> HIDE DEF D, w1
        <4>1. w1 = WokenFrom(at, D)
          BY <3>2 DEF D
        <4>2. w2 = WokenFrom(at, D \cup C)
          BY <3>1, <4>1, WokenTwice
        <4> QED  BY <4>2 DEF D
      <3> QED  BY <2>4, <3>3 DEF A, B, C
    <2> HIDE DEF w, w1
    <2>6. Base(Free(j, l), w1, p) /\ Same(j, Free(j, l)) /\ Free(j, l).status[p] = j.status[p]
      BY <2>1, <2>3, FreeBase DEF w1
    <2> DEFINE j1 == Free(j, l)
    <2> HIDE DEF j1, w2
    <2>7. Base(Free(j1, s), w2, p) /\ Same(j1, Free(j1, s)) /\ Free(j1, s).status[p] = j1.status[p]
      BY <2>1, <2>6, FreeBase DEF w2, j1
    <2>8. f[n] = Free(j1, s)
      BY <2>2 DEF j1
    <2>9. Same(k, f[n])
      BY <2>3, <2>6, <2>7, <2>8 DEF Same, j1
    <2> QED  BY <2>3, <2>5, <2>6, <2>7, <2>8, <2>9 DEF j1
  <1>10. T = {}
    <2> SUFFICES ASSUME T # {} PROVE FALSE
      OBVIOUS
    <2>1. PICK m \in T : \A n \in T : m <= n
      <3>1. T \in SUBSET Nat
        BY <1>7
      <3> HIDE DEF T
      <3> QED  BY <3>1, LeastMember
    <2> HIDE DEF Good
    <2>2. m \in 0..N /\ ~Good(m)
      BY <2>1
    <2>3. m \in 1..N /\ m - 1 \in 0..N /\ ~(m <= m - 1)
      BY <1>7, <1>8, <2>2
    <2>4. Good(m - 1)
      BY <2>1, <2>3
    <2> QED  BY <1>9, <2>2, <2>3, <2>4
  <1>11. Good(N)
    <2> HIDE DEF Good
    <2>1. N \in 0..N
      BY <1>7
    <2> QED  BY <1>10, <2>1
  <1>12. G(N) = GivenBack(p)
    BY <1>7 DEF GivenBack
  <1> HIDE DEF G
  <1> QED
    BY <1>1, <1>11, <1>12

\* The rest of the queue that a walk from p sees is of p's queue, p apart.
LEMMA FromFacts ==
    ASSUME NEW k \in KRec, NEW at, Placed(k.queue, at), k.lost = {},
           NEW p \in Pcb, NEW q \in Queues, at[p] = q
    PROVE  /\ From(k, p) \in Seq(Pcb)
           /\ Len(From(k, p)) >= 1
           /\ \A i \in 1..Len(From(k, p)) : at[From(k, p)[i]] = q
           /\ \A i \in 2..Len(From(k, p)) : From(k, p)[i] # p
PROOF
  <1> DEFINE s == k.queue[q]
             f == From(k, p)
  <1>1. s \in Seq(Pcb) /\ Distinct(s) /\ Contains(s, p)
    BY DEF Placed
  <1>2. {c \in Lists(k) : Contains(c, p)} = {s}
    <2>1. s \in Lists(k)
      BY DEF Lists
    <2>2. ASSUME NEW c \in Lists(k), Contains(c, p) PROVE c = s
      <3>1. PICK r \in Queues : c = k.queue[r]
        BY DEF Lists
      <3>2. r = q
        BY <2>2, <3>1 DEF Placed
      <3> QED  BY <3>1, <3>2
    <2> QED  BY <1>1, <2>1, <2>2
  <1>3. (CHOOSE c \in {c \in Lists(k) : Contains(c, p)} : TRUE) = s
    BY <1>2
  <1>4. PICK i \in 1..Len(s) : s[i] = p /\ i = CHOOSE j \in DOMAIN s : s[j] = p
    BY <1>1 DEF Contains
  <1>5. p # NULL
    BY QueueNames
  <1>6. f = SubSeq(s, i, Len(s))
    <2> HIDE DEF s
    <2> QED  BY <1>2, <1>3, <1>4, <1>5 DEF From
  <1>7. Len(s) \in Nat /\ i \in 1..Len(s) /\ DOMAIN s = 1..Len(s)
    BY <1>1
  <1>8. f \in Seq(Pcb) /\ Len(f) = Len(s) - i + 1 /\ \A j \in 1..Len(s) - i + 1 : f[j] = s[i + j - 1]
    BY <1>1, <1>6, <1>7
  <1> HIDE DEF f, s
  <1>9. ASSUME NEW j \in 1..Len(f) PROVE at[f[j]] = q /\ (j >= 2 => f[j] # p)
    <2>1. i + j - 1 \in 1..Len(s) /\ f[j] = s[i + j - 1] /\ (j >= 2 => i + j - 1 # i)
      BY <1>7, <1>8
    <2>2. Contains(s, f[j])
      BY <2>1 DEF Contains
    <2>3. f[j] \in Pcb
      BY <1>1, <1>7, <2>1
    <2>4. at[f[j]] = q
      BY <2>2, <2>3 DEF Placed, s
    <2>5. j >= 2 => f[j] # p
      BY <1>1, <1>4, <1>7, <2>1 DEF Distinct
    <2> QED  BY <2>4, <2>5
  <1>10. Len(f) >= 1 /\ \A j \in 2..Len(f) : j \in 1..Len(f) /\ j >= 2
    BY <1>7, <1>8
  <1> QED
    BY <1>8, <1>9, <1>10 DEF f

\* item->next of a linked pcb is another pcb of the same queue, or none.
LEMMA NextFacts ==
    ASSUME NEW k \in KRec, NEW at, Placed(k.queue, at), k.lost = {},
           NEW p \in Pcb, NEW q \in Queues, at[p] = q
    PROVE  /\ Next_(k, p) \in Pcb \cup {NULL}
           /\ Next_(k, p) \in Pcb => at[Next_(k, p)] = q /\ Next_(k, p) # p
PROOF
  <1> DEFINE f == From(k, p)
  <1>1. /\ f \in Seq(Pcb) /\ Len(f) \in Nat
        /\ \A i \in 1..Len(f) : f[i] \in Pcb /\ at[f[i]] = q
        /\ \A i \in 2..Len(f) : f[i] # p
    <2>1. /\ f \in Seq(Pcb) /\ \A i \in 1..Len(f) : at[f[i]] = q
          /\ \A i \in 2..Len(f) : f[i] # p
      BY FromFacts
    <2> HIDE DEF f
    <2>2. Len(f) \in Nat /\ \A i \in 1..Len(f) : f[i] \in Pcb
      BY <2>1
    <2> QED  BY <2>1, <2>2
  <1>2. Next_(k, p) = IF Len(f) > 1 THEN f[2] ELSE NULL
    BY DEF Next_
  <1> HIDE DEF f
  <1>3. CASE Len(f) > 1
    BY <1>1, <1>2, <1>3
  <1>4. CASE ~(Len(f) > 1)
    BY <1>2, <1>4, QueueNames
  <1> QED
    BY <1>3, <1>4

\* The CPU is to be given away: its process is in no position to run, and the scheduler is to begin behind it.
Vacant(k, at) ==
    /\ Base(k, at, NULL)
    /\ k.block_accur = TRUE
    /\ k.next_running \in Pcb => at[k.next_running] = Ready

\* A kernel state between two calls: the process that runs is on the ready
\* queue, it alone is RUNNING, and every other process is where its status says.
Steady(k, at) ==
    /\ Base(k, at, k.current_running)
    /\ k.status[k.current_running] = "RUNNING"
    /\ k.block_accur = FALSE

\* What do_block and do_exit write before they call do_scheduler.
Vacate(k, Q, T, x) == [k EXCEPT !.queue = Q, !.status = T, !.next_running = x, !.block_accur = TRUE]

\* What those writes leave alone.
Kept(k, n) ==
    /\ n.all = k.all /\ n.lost = k.lost /\ n.current_running = k.current_running
    /\ n.priority = k.priority /\ n.left = k.left /\ n.fault = k.fault

\* Field by field, the record that such writes leave.
LEMMA Vacated ==
    ASSUME NEW k \in KRec, NEW Q \in [Queues -> Seq(Pcb)], NEW T \in [Pcb -> Statuses],
           NEW x \in Pcb \cup {NULL}
    PROVE  /\ Vacate(k, Q, T, x) \in KRec
           /\ Vacate(k, Q, T, x).queue = Q
           /\ Vacate(k, Q, T, x).status = T
           /\ Vacate(k, Q, T, x).next_running = x
           /\ Vacate(k, Q, T, x).block_accur = TRUE
           /\ Kept(k, Vacate(k, Q, T, x))
PROOF
  <1> DEFINE n == Vacate(k, Q, T, x)
  <1>1. n \in KRec
    BY DEF KRec, Vacate
  <1> QED
    BY <1>1 DEF KRec, Vacate, Kept

\* do_block leaves the caller on its queue and the CPU to be given away.
LEMMA BlockVacates ==
    ASSUME NEW k, NEW at, NEW p \in Pcb, Base(k, at, p), k.current_running = p, p # Shell,
           NEW q \in Queues \ {Ready}
    PROVE  /\ Vacant(Block(k, q), Move(at, p, q))
           /\ Block(k, q).all = k.all /\ Block(k, q).current_running = p
           /\ Block(k, q).priority = k.priority /\ Block(k, q).left = k.left
PROOF
  <1> DEFINE Q1 == [k.queue EXCEPT ![Ready] = Without(@, p)]
             Q2 == [Q1 EXCEPT ![q] = Append(@, p)]
             T == [k.status EXCEPT ![p] = "BLOCKED"]
             x == Next_(k, p)
             w == Move(at, p, q)
             n == Block(k, q)
  <1>1. /\ k \in KRec /\ Placed(k.queue, at) /\ k.lost = {} /\ at[p] = Ready
        /\ k.queue \in [Queues -> Seq(Pcb)] /\ at \in [Pcb -> Queues \cup {NULL}]
        /\ k.status \in [Pcb -> Statuses] /\ Ready \in Queues
    BY QueueNames DEF Base, Placed, KRec
  <1>2. Placed(Q1, Move(at, p, NULL))
    BY <1>1, Leaves
  <1>3. Placed(Q2, w)
    <2>1. Move(at, p, NULL)[p] = NULL /\ Move(Move(at, p, NULL), p, q) = w
      BY <1>1 DEF Move
    <2> DEFINE a1 == Move(at, p, NULL)
    <2> HIDE DEF a1, Q1, w
    <2>2. Placed(Q1, a1) /\ a1[p] = NULL /\ Move(a1, p, q) = w
      BY <1>2, <2>1 DEF a1
    <2> QED  BY <2>2, Enters
  <1>4. x \in Pcb \cup {NULL} /\ (x \in Pcb => at[x] = Ready /\ x # p)
    BY <1>1, NextFacts
  <1>5. n = Vacate(k, Q2, T, x)
    <2>1. Contains(k.queue[Ready], p)
      BY <1>1 DEF Placed
    <2>2. Unlink(k, Ready, p) = [k EXCEPT !.queue[Ready] = Without(@, p)]
      BY <2>1 DEF Unlink
    <2> HIDE DEF x
    <2>3. n = [Unlink(k, Ready, p) EXCEPT !.status[p] = "BLOCKED", !.next_running = x,
                                          !.queue[q] = Append(@, p), !.block_accur = TRUE]
      BY DEF Block, x
    <2> HIDE DEF n
    <2> QED  BY <1>1, <2>2, <2>3 DEF Vacate, KRec
  <1>6. T \in [Pcb -> Statuses] /\ T[p] = "BLOCKED" /\ \A y \in Pcb : y # p => T[y] = k.status[y]
    BY <1>1 DEF Statuses
  <1>7. Q2 \in [Queues -> Seq(Pcb)]
    BY <1>3 DEF Placed
  <1>8. w[p] = q /\ \A y \in Pcb : y # p => w[y] = at[y]
    BY <1>1 DEF Move
  <1> HIDE DEF Q2, T, x, w
  <1>9. /\ n \in KRec /\ n.queue = Q2 /\ n.status = T /\ n.next_running = x /\ n.block_accur = TRUE
        /\ Kept(k, n)
    <2>1. /\ k \in KRec /\ Q2 \in [Queues -> Seq(Pcb)] /\ T \in [Pcb -> Statuses]
          /\ x \in Pcb \cup {NULL}
      BY <1>1, <1>4, <1>6, <1>7
    <2> HIDE DEF n
    <2>2. /\ Vacate(k, Q2, T, x) \in KRec
          /\ Vacate(k, Q2, T, x).queue = Q2
          /\ Vacate(k, Q2, T, x).status = T
          /\ Vacate(k, Q2, T, x).next_running = x
          /\ Vacate(k, Q2, T, x).block_accur = TRUE
          /\ Kept(k, Vacate(k, Q2, T, x))
      BY <2>1, Vacated
    <2> QED  BY <1>5, <2>2
  <1> HIDE DEF n
  <1>10. ASSUME NEW y \in Pcb PROVE n.status[y] = StatusAt(w[y])
    <2>1. CASE y = p
      BY <1>6, <1>8, <1>9, <2>1, QueueNames DEF StatusAt
    <2>2. CASE y # p
      BY <1>6, <1>8, <1>9, <2>2 DEF Base
    <2> QED  BY <2>1, <2>2
  <1>11. w[Shell] = Ready /\ \A y \in Pcb : w[y] # NULL => n.priority[y] >= 1
    BY <1>1, <1>8, <1>9, QueueNames DEF Base, Kept
  <1>12. Base(n, w, NULL)
    BY <1>3, <1>9, <1>10, <1>11, <1>1, QueueNames DEF Base, Kept
  <1> QED
    BY <1>4, <1>8, <1>9, <1>12 DEF Vacant, Kept, n, w

\* What do_exit writes once everything is given back.
ExitLeaves(k, p) == [Unlink(k, Ready, p) EXCEPT !.next_running = Next_(k, p), !.block_accur  = TRUE]

\* do_exit leaves the caller on no queue and the CPU to be given away.
LEMMA ExitVacates ==
    ASSUME NEW k, NEW at, NEW p \in Pcb, Base(k, at, p), k.current_running = p, p # Shell,
           k.status[p] = "EXITED"
    PROVE  /\ Vacant(ExitLeaves(k, p), Move(at, p, NULL))
           /\ ExitLeaves(k, p).all = k.all /\ ExitLeaves(k, p).current_running = p
           /\ ExitLeaves(k, p).priority = k.priority /\ ExitLeaves(k, p).left = k.left
PROOF
  <1> DEFINE Q1 == [k.queue EXCEPT ![Ready] = Without(@, p)]
             T == k.status
             x == Next_(k, p)
             w == Move(at, p, NULL)
             n == ExitLeaves(k, p)
  <1>1. /\ k \in KRec /\ Placed(k.queue, at) /\ k.lost = {} /\ at[p] = Ready
        /\ k.queue \in [Queues -> Seq(Pcb)] /\ at \in [Pcb -> Queues \cup {NULL}]
        /\ k.status \in [Pcb -> Statuses] /\ Ready \in Queues
    BY QueueNames DEF Base, Placed, KRec
  <1>2. Placed(Q1, w)
    BY <1>1, Leaves
  <1>4. x \in Pcb \cup {NULL} /\ (x \in Pcb => at[x] = Ready /\ x # p)
    BY <1>1, NextFacts
  <1>5. n = Vacate(k, Q1, T, x)
    <2>1. Contains(k.queue[Ready], p)
      BY <1>1 DEF Placed
    <2>2. Unlink(k, Ready, p) = [k EXCEPT !.queue[Ready] = Without(@, p)]
      BY <2>1 DEF Unlink
    <2> HIDE DEF x
    <2>3. n = [Unlink(k, Ready, p) EXCEPT !.next_running = x, !.block_accur = TRUE]
      BY DEF ExitLeaves, x
    <2> HIDE DEF n
    <2> QED  BY <1>1, <2>2, <2>3 DEF Vacate, KRec
  <1>7. Q1 \in [Queues -> Seq(Pcb)]
    BY <1>2 DEF Placed
  <1>8. w[p] = NULL /\ \A y \in Pcb : y # p => w[y] = at[y]
    BY <1>1 DEF Move
  <1> HIDE DEF Q1, T, x, w
  <1>9. /\ n \in KRec /\ n.queue = Q1 /\ n.status = T /\ n.next_running = x /\ n.block_accur = TRUE
        /\ Kept(k, n)
    <2>1. T \in [Pcb -> Statuses]
      BY <1>1 DEF T
    <2>2. k \in KRec /\ Q1 \in [Queues -> Seq(Pcb)] /\ x \in Pcb \cup {NULL}
      BY <1>1, <1>4, <1>7
    <2> HIDE DEF n
    <2>3. /\ Vacate(k, Q1, T, x) \in KRec
          /\ Vacate(k, Q1, T, x).queue = Q1
          /\ Vacate(k, Q1, T, x).status = T
          /\ Vacate(k, Q1, T, x).next_running = x
          /\ Vacate(k, Q1, T, x).block_accur = TRUE
          /\ Kept(k, Vacate(k, Q1, T, x))
      BY <2>1, <2>2, Vacated
    <2> QED  BY <1>5, <2>3
  <1> HIDE DEF n
  <1>10. ASSUME NEW y \in Pcb PROVE n.status[y] = StatusAt(w[y])
    <2>1. CASE y = p
      BY <1>8, <1>9, <2>1 DEF StatusAt, T
    <2>2. CASE y # p
      BY <1>8, <1>9, <2>2 DEF Base, T
    <2> QED  BY <2>1, <2>2
  <1>11. w[Shell] = Ready /\ \A y \in Pcb : w[y] # NULL => n.priority[y] >= 1
    BY <1>1, <1>8, <1>9, QueueNames DEF Base, Kept
  <1>12. Base(n, w, NULL)
    BY <1>2, <1>9, <1>10, <1>11, <1>1, QueueNames DEF Base, Kept
  <1> QED
    BY <1>4, <1>8, <1>9, <1>12 DEF Vacant, Kept, n, w

\* MinOf of a non-empty set of naturals is in it.
LEMMA MinMember ==
    ASSUME NEW T \in SUBSET Nat, T # {}
    PROVE  MinOf(T) \in T /\ \A j \in T : MinOf(T) <= j
PROOF
  <1>1. \E i \in T : \A j \in T : i <= j
    BY LeastMember
  <1> QED  BY <1>1 DEF MinOf

\* The downward loop over the priority levels stops at the highest one that
\* has a process, or at level 1.
LEMMA TopLevel ==
    ASSUME NEW H, NEW b \in Nat \ {0}
    PROVE  \E n \in 1..b : /\ \A m \in n + 1 .. b : H[m] = {}
                           /\ n = 1 \/ H[n] # {}
PROOF
  <1> DEFINE T == {d \in 0..b - 1 : b - d = 1 \/ H[b - d] # {}}
  <1>1. b - 1 \in 0..b - 1 /\ b - (b - 1) = 1
    OBVIOUS
  <1>2. b - 1 \in T
    BY <1>1
  <1>3. T \in SUBSET Nat
    OBVIOUS
  <1>4. PICK d \in T : \A e \in T : d <= e
    <2> HIDE DEF T
    <2> QED  BY <1>2, <1>3, LeastMember
  <1>5. d \in 0..b - 1 /\ b - d \in 1..b /\ (b - d = 1 \/ H[b - d] # {})
    BY <1>4
  <1>6. ASSUME NEW m \in (b - d) + 1 .. b PROVE H[m] = {}
    <2>1. b - m \in 0..b - 1 /\ b - (b - m) = m /\ ~(d <= b - m)
      BY <1>5
    <2>2. b - m \notin T
      BY <1>4, <2>1
    <2> QED  BY <2>1, <2>2
  <1> QED
    BY <1>5, <1>6

\* What do_scheduler writes for the process it picks.
Dispatch(k, r, lv, bo) ==
    [k EXCEPT !.current_running = r, !.status[r] = "RUNNING", !.cpu_priority = lv, !.bonus = bo]

\* Dispatching a ready process makes the kernel steady again.
LEMMA DispatchFacts ==
    ASSUME NEW k, NEW at, Base(k, at, NULL), k.block_accur = FALSE,
           NEW r \in Pcb, at[r] = Ready, NEW lv \in 1..HIGHEST_PRIORITY,
           NEW bo \in [Pcb -> 0..HIGHEST_PRIORITY]
    PROVE  /\ Steady(Dispatch(k, r, lv, bo), at)
           /\ Dispatch(k, r, lv, bo).all = k.all
           /\ Dispatch(k, r, lv, bo).priority = k.priority
PROOF
  <1> DEFINE n == Dispatch(k, r, lv, bo)
  <1>1. k \in KRec /\ k.status \in [Pcb -> Statuses] /\ NULL \notin Pcb
    BY QueueNames DEF Base, KRec
  <1>2. [k.status EXCEPT ![r] = "RUNNING"] \in [Pcb -> Statuses]
    BY <1>1 DEF Statuses
  <1>3. n \in KRec
    BY <1>1, <1>2 DEF KRec, Dispatch
  <1>4. /\ n.queue = k.queue /\ n.all = k.all /\ n.priority = k.priority /\ n.lost = k.lost
        /\ n.fault = k.fault /\ n.block_accur = k.block_accur /\ n.current_running = r
        /\ n.status = [k.status EXCEPT ![r] = "RUNNING"]
    BY <1>1 DEF KRec, Dispatch
  <1> HIDE DEF n
  <1>5. n.status[r] = "RUNNING" /\ \A y \in Pcb : y # r => n.status[y] = k.status[y]
    BY <1>1, <1>4
  <1>6. Base(n, at, r)
    BY <1>1, <1>3, <1>4, <1>5 DEF Base
  <1> QED
    BY <1>4, <1>5, <1>6 DEF Steady, n

\* get_bonus keeps every bonus within 0..HIGHEST_PRIORITY.
LEMMA BonusTyped ==
    ASSUME NEW k \in KRec
    PROVE  GetBonus(k) \in [Pcb -> 0..HIGHEST_PRIORITY]
PROOF
  <1>1. HIGHEST_PRIORITY \in Nat /\ k.bonus \in [Pcb -> 0..HIGHEST_PRIORITY]
    BY KernelAssumption DEF KRec
  <1>2. \A p \in Pcb : (k.bonus[p] < HIGHEST_PRIORITY => k.bonus[p] + 1 \in 0..HIGHEST_PRIORITY)
                       /\ k.bonus[p] \in 0..HIGHEST_PRIORITY
    BY <1>1
  <1> QED  BY <1>2 DEF GetBonus

\* The pick loop dispatches a process of the ready queue, whichever of its
\* branches it leaves by; the shell on the ready queue keeps it from failing.
LEMMA PickFacts ==
    ASSUME NEW k, NEW at, Base(k, at, NULL), k.block_accur = FALSE,
           NEW c \in Pcb \cup {NULL}, c \in Pcb => at[c] = Ready
    PROVE  /\ Steady(Pick(k, c), at)
           /\ Pick(k, c).all = k.all /\ Pick(k, c).priority = k.priority
PROOF
  <1> DEFINE list == From(k, c)
             ready == k.queue[Ready]
             high(s, n) == {i \in DOMAIN s : Eff(k, s[i]) >= n}
             cp == k.cpu_priority
             below == IF cp = 1 THEN HIGHEST_PRIORITY ELSE cp - 1
             level == CHOOSE n \in 1..below :
                         /\ \A m \in n + 1 .. below : high(ready, m) = {}
                         /\ n = 1 \/ high(ready, n) # {}
             A == high(list, cp)
             B == high(ready, level)
             bo == IF cp = 1 THEN GetBonus(k) ELSE k.bonus
  <1>1. /\ k \in KRec /\ Placed(k.queue, at) /\ k.lost = {} /\ Ready \in Queues
        /\ ready \in Seq(Pcb) /\ cp \in 1..HIGHEST_PRIORITY /\ HIGHEST_PRIORITY \in Nat \ {0}
        /\ k.bonus \in [Pcb -> 0..HIGHEST_PRIORITY] /\ k.priority \in [Pcb -> 0..HIGHEST_PRIORITY + 1]
    BY QueueNames, KernelAssumption DEF Base, KRec, Placed
  <1>2. list \in Seq(Pcb) /\ \A i \in 1..Len(list) : at[list[i]] = Ready
    <2>1. CASE c \in Pcb
      <3>1. From(k, c) \in Seq(Pcb) /\ \A i \in 1..Len(From(k, c)) : at[From(k, c)[i]] = Ready
        <4>1. /\ k \in KRec /\ Placed(k.queue, at) /\ k.lost = {} /\ Ready \in Queues
              /\ c \in Pcb /\ at[c] = Ready
          BY <1>1, <2>1
        <4> QED  BY <4>1, FromFacts
      <3> QED  BY <3>1
    <2>2. CASE c = NULL
      BY <2>2 DEF From
    <2> QED  BY <2>1, <2>2
  <1>3. CASE A # {}
    <2> DEFINE i == MinOf(A)
    <2>1. i \in 1..Len(list)
      <3>1. A \subseteq 1..Len(list) /\ Len(list) \in Nat
        BY <1>2
      <3> HIDE DEF A
      <3>2. A \in SUBSET Nat
        BY <3>1
      <3> QED  BY <1>3, <3>1, <3>2, MinMember
    <2>2. list[i] \in Pcb /\ at[list[i]] = Ready
      <3> HIDE DEF i, list
      <3> QED  BY <1>2, <2>1
    <2>3. Pick(k, c) = [k EXCEPT !.current_running = list[i], !.status[list[i]] = "RUNNING"]
      BY <1>3 DEF Pick
    <2> HIDE DEF i, list
    <2>4. Pick(k, c) = Dispatch(k, list[i], k.cpu_priority, k.bonus)
      BY <1>1, <2>3 DEF Dispatch, KRec
    <2> DEFINE y == list[i]
    <2> HIDE DEF y
    <2>5. y \in Pcb /\ at[y] = Ready /\ Pick(k, c) = Dispatch(k, y, k.cpu_priority, k.bonus)
      BY <2>2, <2>4 DEF y
    <2>6. k.cpu_priority \in 1..HIGHEST_PRIORITY /\ k.bonus \in [Pcb -> 0..HIGHEST_PRIORITY]
      BY <1>1
    <2>7. /\ Steady(Dispatch(k, y, k.cpu_priority, k.bonus), at)
          /\ Dispatch(k, y, k.cpu_priority, k.bonus).all = k.all
          /\ Dispatch(k, y, k.cpu_priority, k.bonus).priority = k.priority
      BY <2>5, <2>6, DispatchFacts
    <2> QED  BY <2>5, <2>7
  <1>4. CASE A = {}
    <2>1. Contains(ready, Shell)
      BY <1>1, QueueNames DEF Base, Placed
    <2>2. ready # <<>> /\ Len(ready) \in Nat /\ 1 \in DOMAIN ready
      <3> HIDE DEF ready
      <3> QED  BY <1>1, <2>1 DEF Contains
    <2>3. below \in Nat \ {0} /\ 1..below \subseteq 1..HIGHEST_PRIORITY
      <3> HIDE DEF cp
      <3> QED  BY <1>1
    <2>4. level \in 1..below /\ (level = 1 \/ B # {})
      <3> DEFINE H == [n \in 1..below |-> high(ready, n)]
      <3> HIDE DEF below
      <3>1. \E n \in 1..below : (\A m \in n + 1 .. below : H[m] = {}) /\ (n = 1 \/ H[n] # {})
        <4> HIDE DEF H
        <4> QED  BY <2>3, TopLevel
      <3>2. \A n \in 1..below : \A m \in n + 1 .. below : m \in 1..below
        BY <2>3
      <3>3. \E n \in 1..below : (\A m \in n + 1 .. below : high(ready, m) = {})
                                /\ (n = 1 \/ high(ready, n) # {})
        <4>1. \A n \in 1..below : H[n] = high(ready, n)
          OBVIOUS
        <4> HIDE DEF H, high
        <4> QED  BY <3>1, <3>2, <4>1
      <3> HIDE DEF high
      <3> QED  BY <3>3
    <2>5. \A i \in DOMAIN ready : ready[i] \in Pcb /\ at[ready[i]] = Ready
      <3> SUFFICES ASSUME NEW i \in DOMAIN ready PROVE ready[i] \in Pcb /\ at[ready[i]] = Ready
        OBVIOUS
      <3>1. ready[i] \in Pcb /\ Contains(ready, ready[i])
        <4> HIDE DEF ready
        <4> QED  BY <1>1 DEF Contains
      <3> QED  BY <1>1, <3>1 DEF Placed
    <2>6. level = 1 => 1 \in B
      <3> HIDE DEF level, ready
      <3> DEFINE y == ready[1]
      <3>1. y \in Pcb /\ at[y] = Ready
        BY <2>2, <2>5
      <3> HIDE DEF y
      <3>2. k.priority[y] >= 1
        BY <3>1, QueueNames DEF Base
      <3>3. k.priority[y] \in Nat /\ k.bonus[y] \in Nat
        BY <1>1, <3>1
      <3>4. Eff(k, y) >= 1
        BY <3>2, <3>3 DEF Eff
      <3> QED  BY <2>2, <3>4 DEF y
    <2>7. B # {}
      <3> HIDE DEF B
      <3> QED  BY <2>4, <2>6
    <2> DEFINE i == MinOf(B)
    <2>8. i \in DOMAIN ready
      <3>1. B \subseteq DOMAIN ready
        OBVIOUS
      <3> HIDE DEF B, ready
      <3>2. B \in SUBSET Nat
        BY <1>1, <3>1
      <3> QED  BY <2>7, <3>1, <3>2, MinMember
    <2>9. bo \in [Pcb -> 0..HIGHEST_PRIORITY]
      BY <1>1, BonusTyped
    <2>10. Pick(k, c) = [[k EXCEPT !.current_running = ready[i], !.status[ready[i]] = "RUNNING"]
                           EXCEPT !.cpu_priority = level, !.bonus = IF k.cpu_priority = 1 THEN GetBonus(k) ELSE @]
      BY <1>4, <2>2 DEF Pick
    <2> HIDE DEF i, ready, level
    <2>11. Pick(k, c) = Dispatch(k, ready[i], level, bo)
      BY <1>1, <2>10 DEF Dispatch, KRec
    <2>12. level \in 1..HIGHEST_PRIORITY /\ ready[i] \in Pcb /\ at[ready[i]] = Ready
      <3> HIDE DEF below
      <3> QED  BY <2>3, <2>4, <2>5, <2>8
    <2> HIDE DEF bo
    <2> DEFINE y == ready[i]
    <2> HIDE DEF y
    <2>13. y \in Pcb /\ at[y] = Ready /\ Pick(k, c) = Dispatch(k, y, level, bo)
      BY <2>11, <2>12 DEF y
    <2>14. /\ Steady(Dispatch(k, y, level, bo), at)
           /\ Dispatch(k, y, level, bo).all = k.all
           /\ Dispatch(k, y, level, bo).priority = k.priority
      BY <2>9, <2>12, <2>13, DispatchFacts
    <2> QED  BY <2>13, <2>14
  <1> QED
    <2> HIDE DEF A
    <2> QED  BY <1>3, <1>4

\* do_scheduler after a block or an exit: steady again, some sleepers woken.
LEMMA SchedulerVacant ==
    ASSUME NEW k0, NEW at, Vacant(k0, at)
    PROVE  /\ \E U \in SUBSET Sleepers(at) : Steady(Scheduler(k0), Wakes(at, U))
           /\ Scheduler(k0).all = k0.all /\ Scheduler(k0).priority = k0.priority
PROOF
  <1> DEFINE k == WakeSleepers(k0)
             n == [k EXCEPT !.block_accur = FALSE]
             c == k.next_running
  <1>1. Base(k0, at, NULL) /\ k0.block_accur = TRUE /\ k0.fault = FALSE
        /\ (k0.next_running \in Pcb => at[k0.next_running] = Ready)
    BY DEF Vacant, Base
  <1>2. Same(k0, k) /\ \E U \in SUBSET Sleepers(at) : Base(k, Wakes(at, U), NULL)
    BY <1>1, WakeSleepersBase
  <1>3. PICK U \in SUBSET Sleepers(at) : Base(k, Wakes(at, U), NULL)
    BY <1>2
  <1>4. Scheduler(k0) = Pick(n, c)
    BY <1>1, <1>2 DEF Scheduler, Same
  <1> HIDE DEF k
  <1>5. k \in KRec
    BY <1>3 DEF Base
  <1>6. /\ n \in KRec /\ n.queue = k.queue /\ n.all = k.all /\ n.priority = k.priority
        /\ n.lost = k.lost /\ n.status = k.status /\ n.fault = k.fault /\ n.block_accur = FALSE
    BY <1>5 DEF KRec
  <1>7. c \in Pcb \cup {NULL}
    BY <1>5 DEF KRec
  <1> HIDE DEF n
  <1>8. Base(n, Wakes(at, U), NULL)
    BY <1>3, <1>6 DEF Base
  <1>9. c \in Pcb => Wakes(at, U)[c] = Ready
    <2>1. c \in Pcb => at[c] = Ready /\ c \notin U
      BY <1>1, <1>2, QueueNames DEF Same, Sleepers
    <2> QED  BY <2>1 DEF Wakes
  <1> HIDE DEF c
  <1>10. /\ Steady(Pick(n, c), Wakes(at, U))
         /\ Pick(n, c).all = n.all /\ Pick(n, c).priority = n.priority
    BY <1>6, <1>7, <1>8, <1>9, PickFacts
  <1> QED
    BY <1>2, <1>4, <1>6, <1>10 DEF Same

\* do_scheduler on a tick: steady again, some sleepers woken.
LEMMA SchedulerSteady ==
    ASSUME NEW k0, NEW at, Steady(k0, at)
    PROVE  /\ \E U \in SUBSET Sleepers(at) : Steady(Scheduler(k0), Wakes(at, U))
           /\ Scheduler(k0).all = k0.all /\ Scheduler(k0).priority = k0.priority
PROOF
  <1> DEFINE k == WakeSleepers(k0)
             c == k0.current_running
             n == [k EXCEPT !.status[c] = "READY"]
             x == Next_(k, c)
  <1>1. Base(k0, at, c) /\ k0.block_accur = FALSE /\ k0.fault = FALSE /\ c \in Pcb
        /\ at[c] = Ready
    BY DEF Steady, Base, KRec
  <1>2. Same(k0, k) /\ \E U \in SUBSET Sleepers(at) : Base(k, Wakes(at, U), c)
    <2> HIDE DEF c
    <2> QED  BY <1>1, WakeSleepersBase
  <1>3. PICK U \in SUBSET Sleepers(at) : Base(k, Wakes(at, U), c)
    BY <1>2
  <1>4. Scheduler(k0) = Pick(n, x)
    BY <1>1, <1>2 DEF Scheduler, Same
  <1> HIDE DEF k, c
  <1> DEFINE w == Wakes(at, U)
  <1>5. k \in KRec /\ Placed(k.queue, w) /\ k.lost = {} /\ k.status \in [Pcb -> Statuses]
        /\ k.block_accur = FALSE
    BY <1>1, <1>2, <1>3 DEF Base, KRec, Same
  <1>6. [k.status EXCEPT ![c] = "READY"] \in [Pcb -> Statuses]
    BY <1>1, <1>5 DEF Statuses
  <1>7. /\ n \in KRec /\ n.queue = k.queue /\ n.all = k.all /\ n.priority = k.priority
        /\ n.lost = k.lost /\ n.fault = k.fault /\ n.block_accur = FALSE
        /\ n.status = [k.status EXCEPT ![c] = "READY"]
    BY <1>5, <1>6 DEF KRec
  <1>8. w[c] = Ready
    BY <1>1, QueueNames DEF Wakes, Sleepers
  <1> HIDE DEF w, n
  <1>9. x \in Pcb \cup {NULL} /\ (x \in Pcb => w[x] = Ready)
    BY <1>1, <1>5, <1>8, QueueNames, NextFacts
  <1>10. Base(n, w, NULL)
    <2>1. ASSUME NEW y \in Pcb PROVE n.status[y] = StatusAt(w[y])
      <3>1. CASE y = c
        BY <1>1, <1>5, <1>7, <1>8, <3>1, QueueNames DEF StatusAt
      <3>2. CASE y # c
        BY <1>3, <1>5, <1>7, <3>2 DEF Base, w
      <3> QED  BY <3>1, <3>2
    <2> QED  BY <1>3, <1>7, <2>1, QueueNames DEF Base, w
  <1> HIDE DEF x
  <1>11. /\ Steady(Pick(n, x), w) /\ Pick(n, x).all = n.all /\ Pick(n, x).priority = n.priority
    BY <1>7, <1>9, <1>10, PickFacts
  <1> QED
    BY <1>2, <1>4, <1>7, <1>11 DEF Same, w

\* The CPU has been given away and somebody has it: the places are w, but for sleepers that were due.
Lands(n, all, w) == n.all = all /\ \E U \in SUBSET Sleepers(w) : Steady(n, Wakes(w, U))

\* Two records that differ in left, bonus and the like have the same places.
LEMMA SteadySame ==
    ASSUME NEW k, NEW at, Steady(k, at), NEW n \in KRec,
           n.queue = k.queue, n.lost = k.lost, n.status = k.status, n.fault = k.fault,
           n.priority = k.priority, n.current_running = k.current_running,
           n.block_accur = k.block_accur
    PROVE  Steady(n, at)
  BY DEF Steady, Base

\* The timer handler leaves the kernel steady, some sleepers woken.
LEMMA TimerLands ==
    ASSUME NEW k, NEW at, Steady(k, at)
    PROVE  Lands(Timer(k), k.all, at)
PROOF
  <1> DEFINE L == [p \in Pcb |-> IF Contains(k.queue[Sleep], p) /\ k.left[p] > 0
                                 THEN k.left[p] - 1 ELSE k.left[p]]
             c == k.current_running
             n == [k EXCEPT !.left = L, !.bonus[c] = 0]
  <1>1. k \in KRec /\ c \in Pcb /\ k.left \in [Pcb -> Nat] /\ k.bonus \in [Pcb -> 0..HIGHEST_PRIORITY]
    BY DEF Steady, Base, KRec
  <1>2. L \in [Pcb -> Nat]
    <2>1. ASSUME NEW p \in Pcb PROVE L[p] \in Nat
      <3>1. k.left[p] \in Nat
        BY <1>1
      <3> QED  BY <3>1
    <2> HIDE DEF c
    <2> QED  BY <2>1
  <1>3. [k.bonus EXCEPT ![c] = 0] \in [Pcb -> 0..HIGHEST_PRIORITY]
    <2>1. 0 \in 0..HIGHEST_PRIORITY
      BY KernelAssumption
    <2> QED  BY <1>1, <2>1
  <1>4. Timer(k) = Scheduler(n)
    BY DEF Timer
  <1> HIDE DEF L, c
  <1>5. /\ n \in KRec /\ n.queue = k.queue /\ n.lost = k.lost /\ n.status = k.status
        /\ n.fault = k.fault /\ n.priority = k.priority /\ n.all = k.all
        /\ n.current_running = k.current_running /\ n.block_accur = k.block_accur
    BY <1>1, <1>2, <1>3 DEF KRec
  <1> HIDE DEF n
  <1>6. Steady(n, at)
    BY <1>5, SteadySame
  <1>7. /\ \E U \in SUBSET Sleepers(at) : Steady(Scheduler(n), Wakes(at, U))
        /\ Scheduler(n).all = n.all
    BY <1>6, SchedulerSteady
  <1> QED
    BY <1>4, <1>5, <1>7 DEF Lands

\* A call that blocks its caller on q lands with the caller there.
LEMMA BlockLands ==
    ASSUME NEW k, NEW at, Steady(k, at), NEW p \in Pcb \ {Shell}, k.current_running = p,
           NEW q \in Queues \ {Ready}
    PROVE  Lands(Scheduler(Block(k, q)), k.all, Move(at, p, q))
PROOF
  <1> DEFINE n == Block(k, q)
             w == Move(at, p, q)
  <1>1. Base(k, at, p) /\ p # Shell
    BY DEF Steady
  <1>2. Vacant(n, w) /\ n.all = k.all
    BY <1>1, BlockVacates
  <1> HIDE DEF n, w
  <1>3. /\ \E U \in SUBSET Sleepers(w) : Steady(Scheduler(n), Wakes(w, U))
        /\ Scheduler(n).all = n.all
    BY <1>2, SchedulerVacant
  <1>4. Lands(Scheduler(n), k.all, w)
    BY <1>2, <1>3 DEF Lands
  <1> QED
    BY <1>4 DEF n, w

\* The deadline do_sleep writes.
Asleep(k, p, t) == [k EXCEPT !.left[p] = t]
\* do_sleep lands with its caller asleep, or already woken again.
LEMMA SleepLands ==
    ASSUME NEW k, NEW at, Steady(k, at), NEW p \in Pcb \ {Shell}, k.current_running = p, NEW t \in Nat
    PROVE  Lands(Scheduler(Block(Asleep(k, p, t), Sleep)), k.all, Move(at, p, Sleep))
PROOF
  <1> DEFINE n == Asleep(k, p, t)
  <1>1. k \in KRec /\ k.left \in [Pcb -> Nat]
    BY DEF Steady, Base, KRec
  <1>2. [k.left EXCEPT ![p] = t] \in [Pcb -> Nat]
    BY <1>1
  <1>3. /\ n \in KRec /\ n.queue = k.queue /\ n.lost = k.lost /\ n.status = k.status
        /\ n.fault = k.fault /\ n.priority = k.priority /\ n.all = k.all
        /\ n.current_running = k.current_running /\ n.block_accur = k.block_accur
    BY <1>1, <1>2 DEF KRec, Asleep
  <1> HIDE DEF n
  <1>4. Steady(n, at)
    BY <1>3, SteadySame
  <1>5. Lands(Scheduler(Block(n, Sleep)), n.all, Move(at, p, Sleep))
    BY <1>3, <1>4, QueueNames, BlockLands
  <1> QED
    BY <1>3, <1>5 DEF n

\* do_unblock_all leaves a steady kernel steady.
LEMMA UnblockAllSteady ==
    ASSUME NEW k, NEW at, Steady(k, at), NEW q \in Queues \ {Ready}
    PROVE  /\ Steady(UnblockAll(k, q), WokenFrom(at, {q}))
           /\ UnblockAll(k, q).all = k.all
           /\ UnblockAll(k, q).current_running = k.current_running
PROOF
  <1> DEFINE c == k.current_running
             n == UnblockAll(k, q)
  <1>1. Base(k, at, c) /\ c \in Pcb /\ k.status[c] = "RUNNING" /\ k.block_accur = FALSE
    BY DEF Steady, Base, KRec
  <1> HIDE DEF n
  <1>2. /\ Base(n, WokenFrom(at, {q}), c) /\ Same(k, n)
        /\ c \in Pcb => n.status[c] = k.status[c]
    <2> HIDE DEF c
    <2> QED  BY <1>1, UnblockAllBase DEF n
  <1>3. Steady(n, WokenFrom(at, {q})) /\ n.all = k.all /\ n.current_running = k.current_running
    BY <1>1, <1>2 DEF Steady, Same
  <1> QED
    BY <1>3 DEF n

\* do_unblock_one leaves a steady kernel steady.
LEMMA UnblockOneSteady ==
    ASSUME NEW k, NEW at, Steady(k, at), NEW q \in Queues \ {Ready}
    PROVE  /\ \/ UnblockOne(k, q) = k
              \/ \E y \in Pcb : at[y] = q /\ Steady(UnblockOne(k, q), Move(at, y, Ready))
           /\ UnblockOne(k, q).all = k.all
           /\ UnblockOne(k, q).current_running = k.current_running
PROOF
  <1> DEFINE c == k.current_running
             n == UnblockOne(k, q)
  <1>1. Base(k, at, c) /\ c \in Pcb /\ k.status[c] = "RUNNING" /\ k.block_accur = FALSE
    BY DEF Steady, Base, KRec
  <1> HIDE DEF n
  <1>2. /\ Same(k, n)
        /\ c \in Pcb => n.status[c] = k.status[c]
        /\ \/ Base(n, at, c) /\ n = k
           \/ \E y \in Pcb : at[y] = q /\ Base(n, Move(at, y, Ready), c)
    <2> HIDE DEF c
    <2> QED  BY <1>1, UnblockOneBase DEF n
  <1>3. /\ \/ n = k
           \/ \E y \in Pcb : at[y] = q /\ Steady(n, Move(at, y, Ready))
        /\ n.all = k.all /\ n.current_running = k.current_running
    BY <1>1, <1>2 DEF Steady, Same
  <1> QED
    BY <1>3 DEF n

\* do_condition_wait: the waiters of the mutex are ready, the caller waits.
LEMMA CondWaitLands ==
    ASSUME NEW k, NEW at, Steady(k, at), NEW p \in Pcb \ {Shell}, k.current_running = p,
           NEW l \in Objects, NEW c \in Objects
    PROVE  Lands(Scheduler(Block(UnblockAll(k, l), c)), k.all, Move(WokenFrom(at, {l}), p, c))
PROOF
  <1> DEFINE n == UnblockAll(k, l)
  <1>1. l \in Queues \ {Ready} /\ c \in Queues \ {Ready}
    BY QueueNames
  <1>2. Steady(n, WokenFrom(at, {l})) /\ n.all = k.all /\ n.current_running = k.current_running
    BY <1>1, UnblockAllSteady
  <1> HIDE DEF n
  <1>3. Lands(Scheduler(Block(n, c)), n.all, Move(WokenFrom(at, {l}), p, c))
    BY <1>1, <1>2, BlockLands
  <1> QED
    BY <1>2, <1>3 DEF n

\* do_exit lands with everything woken that waited for the caller.
LEMMA ExitLands ==
    ASSUME NEW k, NEW at, Steady(k, at), NEW p \in Pcb \ {Shell}, k.current_running = p,
           locks[p] \in [Slots -> Locks \cup {NULL}], sems[p] \in [Slots -> Sems \cup {NULL}]
    PROVE  Lands(Scheduler(ExitLeaves(FreeAll(k, p), p)), k.all,
                 Move(WokenFrom(at, GivenBack(p)), p, NULL))
PROOF
  <1> DEFINE f == FreeAll(k, p)
             a == WokenFrom(at, GivenBack(p))
             n == ExitLeaves(f, p)
             w == Move(a, p, NULL)
  <1>1. Base(k, at, p) /\ p # Shell
    BY DEF Steady
  <1>2. Base(f, a, p) /\ Same(k, f) /\ f.status[p] = "EXITED"
    BY <1>1, FreeAllBase
  <1> HIDE DEF f, a
  <1>3. f.current_running = p /\ f.all = k.all
    BY <1>2 DEF Same
  <1>4. Vacant(n, w) /\ n.all = f.all
    BY <1>1, <1>2, <1>3, ExitVacates
  <1> HIDE DEF n, w
  <1>5. /\ \E U \in SUBSET Sleepers(w) : Steady(Scheduler(n), Wakes(w, U))
        /\ Scheduler(n).all = n.all
    BY <1>4, SchedulerVacant
  <1>6. Lands(Scheduler(n), k.all, w)
    BY <1>3, <1>4, <1>5 DEF Lands
  <1> QED
    BY <1>6 DEF n, w, f, a

\* queue_init of a new object appends it to all_queue and moves nobody.
LEMMA QueueInitSteady ==
    ASSUME NEW k, NEW at, Steady(k, at), NEW q \in Queues, ~Contains(k.all, q),
           \A p \in Pcb : at[p] # q
    PROVE  /\ Steady(QueueInit(k, q), at)
           /\ QueueInit(k, q).all = Append(k.all, q)
           /\ QueueInit(k, q).current_running = k.current_running
PROOF
  <1> DEFINE A == Append(k.all, q)
             n == [k EXCEPT !.all = A]
  <1>1. k \in KRec /\ k.all \in Seq(Queues) /\ k.queue \in [Queues -> Seq(Pcb)] /\ Placed(k.queue, at)
    BY DEF Steady, Base, KRec
  <1>2. k.queue[q] = <<>>
    <2> DEFINE s == k.queue[q]
    <2>1. s \in Seq(Pcb) /\ \A p \in Pcb : ~Contains(s, p)
      BY <1>1 DEF Placed
    <2> HIDE DEF s
    <2>2. s = <<>>
      <3>1. Len(s) \in Nat /\ \A i \in 1..Len(s) : s[i] \in Pcb
        BY <2>1
      <3>2. \A i \in 1..Len(s) : FALSE
        BY <2>1, <3>1 DEF Contains
      <3>3. Len(s) = 0
        BY <3>1, <3>2
      <3> QED  BY <2>1, <3>3
    <2> QED  BY <2>2 DEF s
  <1>3. QueueInit(k, q) = [k EXCEPT !.queue[q] = <<>>, !.lost = @, !.all = Append(@, q)]
    BY <1>2 DEF QueueInit
  <1>4. [k.queue EXCEPT ![q] = <<>>] = k.queue
    BY <1>1, <1>2
  <1>5. QueueInit(k, q) = n
    BY <1>1, <1>3, <1>4 DEF KRec
  <1>6. /\ n \in KRec /\ n.queue = k.queue /\ n.lost = k.lost /\ n.status = k.status
        /\ n.fault = k.fault /\ n.priority = k.priority /\ n.all = A
        /\ n.current_running = k.current_running /\ n.block_accur = k.block_accur
    <2>1. A \in Seq(Queues)
      BY <1>1
    <2> HIDE DEF A
    <2> QED  BY <1>1, <2>1 DEF KRec
  <1> HIDE DEF n
  <1>7. Steady(n, at)
    BY <1>6, SteadySame
  <1> QED
    BY <1>5, <1>6, <1>7 DEF A

\* The pcb that do_spawn fills.
Spawned(k, n, prio) ==
    [k EXCEPT !.status[n] = "READY", !.bonus[n] = 0, !.priority[n] = prio,
              !.queue[Ready] = Append(@, n)]

\* do_spawn puts a free pcb on the ready queue.
LEMMA SpawnSteady ==
    ASSUME NEW k, NEW at, Steady(k, at), NEW n \in Pcb, at[n] = NULL, NEW prio \in Prios
    PROVE  /\ Steady(Spawned(k, n, prio), Move(at, n, Ready))
           /\ Spawned(k, n, prio).all = k.all
           /\ Spawned(k, n, prio).current_running = k.current_running
PROOF
  <1> DEFINE T == [k.status EXCEPT ![n] = "READY"]
             B == [k.bonus EXCEPT ![n] = 0]
             P == [k.priority EXCEPT ![n] = prio]
             Q == [k.queue EXCEPT ![Ready] = Append(@, n)]
             s == [k EXCEPT !.status = T, !.bonus = B, !.priority = P, !.queue = Q]
             w == Move(at, n, Ready)
             c == k.current_running
  <1>1. /\ k \in KRec /\ Placed(k.queue, at) /\ k.status \in [Pcb -> Statuses]
        /\ k.bonus \in [Pcb -> 0..HIGHEST_PRIORITY] /\ c \in Pcb
        /\ k.priority \in [Pcb -> 0..HIGHEST_PRIORITY + 1] /\ Base(k, at, c)
        /\ at \in [Pcb -> Queues \cup {NULL}] /\ k.status[c] = "RUNNING" /\ k.block_accur = FALSE
    BY DEF Steady, Base, KRec, Placed
  <1>2. Placed(Q, w)
    BY <1>1, QueueNames, Enters
  <1>3. /\ T \in [Pcb -> Statuses] /\ B \in [Pcb -> 0..HIGHEST_PRIORITY]
        /\ P \in [Pcb -> 0..HIGHEST_PRIORITY + 1] /\ Q \in [Queues -> Seq(Pcb)] /\ prio >= 1
    <2>1. T \in [Pcb -> Statuses]
      BY <1>1 DEF Statuses
    <2>2. 0 \in 0..HIGHEST_PRIORITY /\ prio \in 0..HIGHEST_PRIORITY + 1 /\ prio >= 1
      <3>1. prio \in 1..HIGHEST_PRIORITY /\ HIGHEST_PRIORITY \in Nat
        BY KernelAssumption
      <3> QED  BY <3>1
    <2>3. B \in [Pcb -> 0..HIGHEST_PRIORITY] /\ P \in [Pcb -> 0..HIGHEST_PRIORITY + 1]
      BY <1>1, <2>2
    <2> QED  BY <1>2, <2>1, <2>2, <2>3 DEF Placed
  <1>4. Spawned(k, n, prio) = s
    BY <1>1 DEF Spawned, KRec
  <1>5. /\ \A y \in Pcb : T[y] = IF y = n THEN "READY" ELSE k.status[y]
        /\ \A y \in Pcb : P[y] = IF y = n THEN prio ELSE k.priority[y]
        /\ \A y \in Pcb : w[y] = IF y = n THEN Ready ELSE at[y]
    BY <1>1 DEF Move
  <1> HIDE DEF T, B, P, Q, w, c
  <1>6. /\ s \in KRec /\ s.queue = Q /\ s.lost = k.lost /\ s.status = T
        /\ s.fault = k.fault /\ s.priority = P /\ s.all = k.all
        /\ s.current_running = k.current_running /\ s.block_accur = k.block_accur
    BY <1>1, <1>3 DEF KRec
  <1> HIDE DEF s
  <1>7. c # n
    BY <1>1, QueueNames DEF Base
  <1>8. ASSUME NEW y \in Pcb, y # c PROVE s.status[y] = StatusAt(w[y])
    <2>1. CASE y = n
      BY <1>5, <1>6, <2>1, QueueNames DEF StatusAt
    <2>2. CASE y # n
      BY <1>1, <1>5, <1>6, <1>8, <2>2 DEF Base
    <2> QED  BY <2>1, <2>2
  <1>9. /\ w[Shell] = Ready /\ w[c] = Ready /\ s.status[c] = "RUNNING"
        /\ \A y \in Pcb : w[y] # NULL => s.priority[y] >= 1
    <2>1. at[Shell] = Ready /\ at[c] = Ready /\ \A y \in Pcb : at[y] # NULL => k.priority[y] >= 1
      BY <1>1 DEF Base
    <2> QED  BY <1>1, <1>3, <1>5, <1>6, <1>7, <2>1, QueueNames
  <1>10. Base(s, w, c)
    BY <1>1, <1>2, <1>6, <1>8, <1>9 DEF Base
  <1>11. Steady(s, w)
    BY <1>1, <1>6, <1>9, <1>10 DEF Steady, c
  <1> QED
    BY <1>4, <1>6, <1>11 DEF w

\* The state the objects and the slots keep has its types.
Others ==
    /\ lock_status \in [Locks -> {"LOCKED", "UNLOCKED"}]
    /\ limit \in [Sems \cup Barriers -> Int]
    /\ locks \in [Pcb -> [Slots -> Locks \cup {NULL}]]
    /\ sems \in [Pcb -> [Slots -> Sems \cup {NULL}]]
    /\ kont \in [Pcb -> Konts]

\* Whatever a process waits for, goes back to or holds has been initialised.
Known(at) ==
    /\ \A p \in Pcb : at[p] \in Objects => Registered(at[p])
    /\ \A p \in Pcb : \A l \in Locks : kont[p] = Acquiring(l) => Registered(l)
    /\ \A p \in Pcb : \A s \in Sems : kont[p] = Downing(s) => Registered(s)
    /\ \A p \in Pcb : \A i \in Slots : locks[p][i] # NULL => Registered(locks[p][i])
    /\ kont[Shell] = User

\* The inductive invariant for a given place function.
At(at) == Others /\ Steady(os, at) /\ Known(at)
\* The inductive invariant: some place function explains the whole kernel.
KInv == \E at \in [Pcb -> Queues \cup {NULL}] : At(at)

\* The continuations of different calls differ.
LEMMA KontFacts ==
    ASSUME NEW x, NEW y
    PROVE  /\ (Acquiring(x) = Acquiring(y) => x = y) /\ (Downing(x) = Downing(y) => x = y)
           /\ Acquiring(x) # Downing(y) /\ Acquiring(x) # User /\ Acquiring(x) # Exited
           /\ Acquiring(x) # Leaving(y) /\ Downing(x) # Leaving(y)
           /\ Downing(x) # User /\ Downing(x) # Exited /\ User # Exited
           /\ Leaving(x) # User /\ Leaving(x) # Exited
  BY DEF Acquiring, Downing, Leaving, User, Exited

\* The continuations the actions write are continuations.
LEMMA KontTypes ==
    /\ User \in Konts /\ Exited \in Konts
    /\ \A l \in Locks : Acquiring(l) \in Konts
    /\ \A s \in Sems : Downing(s) \in Konts
    /\ \A b \in Barriers : Leaving(b) \in Konts
  BY DEF Konts

\* A list of slots is a sequence: Contains looks at every slot.
LEMMA SlotFacts ==
    ASSUME NEW S, NEW f \in [Slots -> S]
    PROVE  \A x : Contains(f, x) <=> \E i \in Slots : f[i] = x
PROOF
  <1>1. MAX_LOCKS \in Nat /\ f \in [1..MAX_LOCKS -> S]
    BY KernelAssumption DEF Slots
  <1>2. Len(f) = MAX_LOCKS
    BY <1>1
  <1> QED
    BY <1>2 DEF Contains, Slots

\* Clearing an object from the slots clears the one slot that has it, if any.
LEMMA ClearFacts ==
    ASSUME NEW S, NEW f \in [Slots -> S \cup {NULL}], NEW x
    PROVE  /\ Clear(f, x) \in [Slots -> S \cup {NULL}]
           /\ \A i \in Slots : Clear(f, x)[i] = f[i] \/ Clear(f, x)[i] = NULL
           /\ (\A i \in Slots : f[i] # x) => Clear(f, x) = f
           /\ (\E i \in Slots : f[i] = x)
                 => \E i \in Slots : f[i] = x /\ Clear(f, x) = [f EXCEPT ![i] = NULL]
PROOF
  <1> DEFINE A == {i \in Slots : f[i] = x}
  <1>1. CASE A = {}
    <2>1. Clear(f, x) = f
      BY <1>1 DEF Clear
    <2> QED  BY <1>1, <2>1
  <1>2. CASE A # {}
    <2>1. MinOf(A) \in A
      <3>1. A \in SUBSET Nat
        BY KernelAssumption DEF Slots
      <3> HIDE DEF A
      <3> QED  BY <1>2, <3>1, MinMember
    <2>2. Clear(f, x) = [f EXCEPT ![MinOf(A)] = NULL]
      BY <1>2 DEF Clear
    <2> DEFINE m == MinOf(A)
    <2>3. m \in Slots /\ f[m] = x /\ Clear(f, x) = [f EXCEPT ![m] = NULL]
      BY <2>1, <2>2
    <2> HIDE DEF m
    <2> QED  BY <2>3
  <1> QED
    BY <1>1, <1>2

\* The slot a grant takes is a free one.
LEMMA FreeSlotFacts ==
    ASSUME NEW S, NEW f \in [Slots -> S], FreeSlots(f) # {}
    PROVE  MinOf(FreeSlots(f)) \in Slots /\ f[MinOf(FreeSlots(f))] = NULL
PROOF
  <1>1. FreeSlots(f) \in SUBSET Nat /\ FreeSlots(f) \subseteq Slots
    BY KernelAssumption DEF Slots, FreeSlots
  <1>2. MinOf(FreeSlots(f)) \in FreeSlots(f)
    BY <1>1, MinMember
  <1> QED
    BY <1>2 DEF FreeSlots

\* do_exit's releases keep the types of the objects.
LEMMA FreeTypes ==
    ASSUME Others, NEW p \in Pcb
    PROVE  /\ FreeLocks(p) \in [Locks -> {"LOCKED", "UNLOCKED"}]
           /\ FreeSems(p) \in [Sems \cup Barriers -> Int]
PROOF
  <1>1. FreeLocks(p) \in [Locks -> {"LOCKED", "UNLOCKED"}]
    BY DEF FreeLocks, Others
  <1>2. ASSUME NEW o \in Sems \cup Barriers
        PROVE limit[o] + Cardinality({i \in Slots : sems[p][i] = o}) \in Int
    <2> DEFINE D == {i \in Slots : sems[p][i] = o}
    <2>1. IsFiniteSet(Slots) /\ D \subseteq Slots
      <3>1. 1 \in Int /\ MAX_LOCKS \in Int
        BY KernelAssumption
      <3> QED  BY <3>1, FS_Interval DEF Slots
    <2> HIDE DEF D
    <2>2. Cardinality(D) \in Nat
      BY <2>1, FS_Subset, FS_CardinalityType
    <2>3. limit[o] \in Int
      BY DEF Others
    <2> QED  BY <2>2, <2>3 DEF D
  <1>3. DOMAIN limit = Sems \cup Barriers
    BY DEF Others
  <1> QED
    BY <1>1, <1>2, <1>3 DEF FreeSems

\* The kernel starts steady, the shell alone on the ready queue.
LEMMA InitInv ==
    ASSUME Init
    PROVE  KInv
PROOF
  <1> DEFINE at == [p \in Pcb |-> IF p = Shell THEN Ready ELSE NULL]
  <1>1. at \in [Pcb -> Queues \cup {NULL}] /\ NULL \notin Queues /\ Shell \in Pcb
    BY QueueNames
  <1>2. Others
    <2>1. {0} \subseteq Int /\ NoSlots \in [Slots -> Locks \cup {NULL}] /\ NoSlots \in [Slots -> Sems \cup {NULL}]
      BY DEF NoSlots
    <2> QED  BY <2>1, KontTypes DEF Init, Others
  <1>3. Known(at)
    <2>1. \A p \in Pcb : at[p] \notin Objects
      BY QueueNames, AddressAssumption DEF Objects
    <2>2. \A p \in Pcb : kont[p] = User /\ locks[p] = NoSlots
      BY DEF Init
    <2> QED  BY <1>1, <2>1, <2>2, KontFacts DEF Known, NoSlots
  <1> DEFINE Q == [q \in Queues |-> IF q = Ready THEN <<Shell>> ELSE <<>>]
             A == <<Ready, Sleep>> \o [i \in 1..NTASK |-> Wait(i - 1)]
             T == [p \in Pcb |-> IF p = Shell THEN "RUNNING" ELSE "EXITED"]
             P == [p \in Pcb |-> IF p = Shell THEN HIGHEST_PRIORITY + 1 ELSE 0]
  <1>4. Q \in [Queues -> Seq(Pcb)]
    <2>1. <<Shell>> \in Seq(Pcb) /\ <<>> \in Seq(Pcb)
      BY <1>1
    <2> QED  BY <2>1
  <1>5. A \in Seq(Queues)
    <2>1. NTASK \in Nat /\ \A i \in 1..NTASK : i - 1 \in Pcb
      BY KernelAssumption DEF Pcb
    <2>2. [i \in 1..NTASK |-> Wait(i - 1)] \in Seq(Queues)
      BY <2>1, QueueNames
    <2> QED  BY <2>2, QueueNames
  <1>6. /\ T \in [Pcb -> Statuses] /\ P \in [Pcb -> 0..HIGHEST_PRIORITY + 1]
        /\ HIGHEST_PRIORITY \in 1..HIGHEST_PRIORITY /\ 0 \in 0..HIGHEST_PRIORITY
        /\ P[Shell] >= 1
    BY <1>1, KernelAssumption DEF Statuses
  <1>7. Placed(Q, at)
    <2>1. \A q \in Queues : Q[q] = IF q = Ready THEN <<Shell>> ELSE <<>>
      OBVIOUS
    <2>2. Distinct(<<>>) /\ Distinct(<<Shell>>) /\ \A y : ~Contains(<<>>, y)
      BY DEF Distinct, Contains
    <2>3. \A y : Contains(<<Shell>>, y) <=> y = Shell
      BY DEF Contains
    <2>4. \A p \in Pcb : at[p] = IF p = Shell THEN Ready ELSE NULL
      OBVIOUS
    <2> HIDE DEF Q, at
    <2>5. \A q \in Queues : Distinct(Q[q])
      BY <2>1, <2>2
    <2>6. ASSUME NEW q \in Queues, NEW p \in Pcb PROVE Contains(Q[q], p) <=> at[p] = q
      <3>1. CASE q = Ready
        BY <1>1, <2>1, <2>3, <2>4, <3>1
      <3>2. CASE q # Ready
        BY <1>1, <2>1, <2>2, <2>4, <3>2
      <3> QED  BY <3>1, <3>2
    <2> QED  BY <1>1, <1>4, <2>5, <2>6 DEF Placed
  <1> DEFINE B0 == [p \in Pcb |-> 0]
  <1>8. B0 \in [Pcb -> 0..HIGHEST_PRIORITY] /\ B0 \in [Pcb -> Nat]
    BY <1>6
  <1>9. \A p \in Pcb : /\ at[p] = IF p = Shell THEN Ready ELSE NULL
                       /\ T[p] = IF p = Shell THEN "RUNNING" ELSE "EXITED"
    OBVIOUS
  <1> HIDE DEF Q, A, T, P, B0, at
  <1>10. os = [queue |-> Q, all |-> A, lost |-> {}, status |-> T, current_running |-> Shell,
               next_running |-> NULL, block_accur |-> FALSE, cpu_priority |-> HIGHEST_PRIORITY,
               priority |-> P, bonus |-> B0, left |-> B0, fault |-> FALSE]
    BY DEF Init, Q, A, T, P, B0
  <1>11. os \in KRec
    <2>1. {} \in SUBSET Seq(Pcb) /\ FALSE \in BOOLEAN
      OBVIOUS
    <2> QED  BY <1>1, <1>4, <1>5, <1>6, <1>8, <1>10, <2>1 DEF KRec
  <1>12. Base(os, at, Shell)
    BY <1>1, <1>6, <1>7, <1>9, <1>10, <1>11 DEF Base, StatusAt
  <1>13. Steady(os, at)
    BY <1>1, <1>9, <1>10, <1>12 DEF Steady
  <1> QED
    BY <1>1, <1>2, <1>3, <1>13 DEF KInv, At, at

\* What a step owes: the next places w and continuations rest on initialised objects.
KnownNext(w) ==
    /\ \A p \in Pcb : w[p] \in Objects => Registered(w[p])
    /\ \A p \in Pcb : \A l \in Locks : kont'[p] = Acquiring(l) => Registered(l)
    /\ \A p \in Pcb : \A s \in Sems : kont'[p] = Downing(s) => Registered(s)
    /\ \A p \in Pcb : \A i \in Slots : locks'[p][i] # NULL => Registered(locks'[p][i])
    /\ kont'[Shell] = User

\* A step that leaves a steady kernel keeps the invariant.
LEMMA Keeps ==
    ASSUME os.all \in Seq(Queues), NEW w, Others', Steady(os', w), KnownNext(w),
           os'.all = os.all \/ \E q \in Queues : os'.all = Append(os.all, q)
    PROVE  KInv'
PROOF
  <1>1. \A x : Contains(os.all, x) => Contains(os'.all, x)
    <2>1. ASSUME NEW q \in Queues, os'.all = Append(os.all, q)
          PROVE \A x : Contains(os.all, x) => Contains(os'.all, x)
      BY <2>1, AppendFacts
    <2> QED  BY <2>1
  <1>2. w \in [Pcb -> Queues \cup {NULL}]
    BY DEF Steady, Base, Placed
  <1>3. Known(w)'
    BY <1>1 DEF Known, KnownNext, Registered
  <1> QED
    BY <1>2, <1>3 DEF KInv, At

\* A step that goes through do_scheduler keeps the invariant.
LEMMA LandsKeeps ==
    ASSUME os.all \in Seq(Queues), NEW v, v \in [Pcb -> Queues \cup {NULL}], Others', Lands(os', os.all, v), KnownNext(v)
    PROVE  KInv'
PROOF
  <1>1. os'.all = os.all /\ \E U \in SUBSET Sleepers(v) : Steady(os', Wakes(v, U))
    BY DEF Lands
  <1>2. PICK U \in SUBSET Sleepers(v) : Steady(os', Wakes(v, U))
    BY <1>1
  <1>3. \A p \in Pcb : Wakes(v, U)[p] \in Objects => Wakes(v, U)[p] = v[p]
    BY QueueNames DEF Wakes
  <1>4. KnownNext(Wakes(v, U))
    BY <1>3 DEF KnownNext
  <1> QED
    BY <1>1, <1>2, <1>4, Keeps

\* What the invariant says of the caller's view.
LEMMA AtFacts ==
    ASSUME NEW at, At(at)
    PROVE  /\ os.all \in Seq(Queues) /\ at \in [Pcb -> Queues \cup {NULL}]
           /\ os.current_running \in Pcb /\ at[os.current_running] = Ready
           /\ \A p \in Pcb : locks[p] \in [Slots -> Locks \cup {NULL}]
           /\ \A p \in Pcb : sems[p] \in [Slots -> Sems \cup {NULL}]
           /\ \A p \in Pcb : os.status[p] = "EXITED" <=> at[p] = NULL
           /\ Others
PROOF
  <1>1. Base(os, at, os.current_running) /\ os.status[os.current_running] = "RUNNING"
    BY DEF At, Steady
  <1>2. os \in KRec /\ Placed(os.queue, at)
    BY <1>1 DEF Base
  <1>3. os.all \in Seq(Queues) /\ os.current_running \in Pcb /\ at \in [Pcb -> Queues \cup {NULL}]
    BY <1>2 DEF KRec, Placed
  <1>4. at[os.current_running] = Ready
    BY <1>1, <1>3 DEF Base
  <1>5. ASSUME NEW p \in Pcb PROVE os.status[p] = "EXITED" <=> at[p] = NULL
    <2>1. CASE p = os.current_running
      BY <1>1, <1>4, <2>1, QueueNames
    <2>2. CASE p # os.current_running
      BY <1>1, <2>2 DEF Base, StatusAt
    <2> QED  BY <2>1, <2>2
  <1> QED
    BY <1>3, <1>4, <1>5 DEF At, Others

\* Where a process goes and who is woken, as KnownNext sees it.
LEMMA MoveKnown ==
    ASSUME NEW at \in [Pcb -> Queues \cup {NULL}], NEW p \in Pcb, NEW q, NEW G,
           \A y \in Pcb : at[y] \in Objects => Registered(at[y]),
           q \in Objects => Registered(q)
    PROVE  /\ \A y \in Pcb : Move(at, p, q)[y] \in Objects => Registered(Move(at, p, q)[y])
           /\ \A y \in Pcb : WokenFrom(at, G)[y] \in Objects => Registered(WokenFrom(at, G)[y])
           /\ q \in Queues \cup {NULL} => Move(at, p, q) \in [Pcb -> Queues \cup {NULL}]
           /\ WokenFrom(at, G) \in [Pcb -> Queues \cup {NULL}]
  BY QueueNames DEF Move, WokenFrom

\* A timer interrupt keeps the invariant.
LEMMA TickKeeps ==
    ASSUME NEW at, At(at), NEW p \in Pcb, Tick(p)
    PROVE  KInv'
PROOF
  <1>1. os' = Timer(os) /\ UNCHANGED <<lock_status, limit, locks, sems, kont>>
    BY DEF Tick
  <1>2. Lands(os', os.all, at)
    BY <1>1, TimerLands DEF At
  <1>3. Others' /\ KnownNext(at)
    BY <1>1 DEF At, Others, Known, KnownNext
  <1> QED
    BY <1>2, <1>3, AtFacts, LandsKeeps

\* do_sleep keeps the invariant.
LEMMA SleepKeeps ==
    ASSUME NEW at, At(at), NEW p \in Pcb \ {Shell}, NEW t \in SleepTimes, DoSleep(p, t)
    PROVE  KInv'
PROOF
  <1>1. /\ os' = Scheduler(Block(Asleep(os, p, t), Sleep))
        /\ UNCHANGED <<lock_status, limit, locks, sems, kont>> /\ os.current_running = p
    BY DEF DoSleep, Asleep, Running, OnCpu
  <1>2. t \in Nat
    BY KernelAssumption
  <1>3. Lands(os', os.all, Move(at, p, Sleep))
    BY <1>1, <1>2, SleepLands DEF At
  <1>4. Others'
    BY <1>1 DEF At, Others
  <1>5. KnownNext(Move(at, p, Sleep)) /\ Move(at, p, Sleep) \in [Pcb -> Queues \cup {NULL}]
    <2>1. Sleep \notin Objects
      BY AddressAssumption
    <2> QED  BY <1>1, <2>1, AtFacts, MoveKnown, QueueNames DEF At, Known, KnownNext
  <1> QED
    BY <1>3, <1>4, <1>5, AtFacts, LandsKeeps

\* do_waitpid keeps the invariant.
LEMMA WaitKeeps ==
    ASSUME NEW at, At(at), NEW p \in Pcb \ {Shell}, NEW t \in Pcb, DoWait(p, t)
    PROVE  KInv'
PROOF
  <1>1. /\ os' = Scheduler(Block(os, Wait(t)))
        /\ UNCHANGED <<lock_status, limit, locks, sems, kont>> /\ os.current_running = p
    BY DEF DoWait, Running, OnCpu
  <1>2. Wait(t) \in Queues \ {Ready} /\ Wait(t) \notin Objects
    BY QueueNames, AddressAssumption
  <1>3. Lands(os', os.all, Move(at, p, Wait(t)))
    BY <1>1, <1>2, BlockLands DEF At
  <1>4. Others'
    BY <1>1 DEF At, Others
  <1>5. KnownNext(Move(at, p, Wait(t))) /\ Move(at, p, Wait(t)) \in [Pcb -> Queues \cup {NULL}]
    BY <1>1, <1>2, AtFacts, MoveKnown DEF At, Known, KnownNext
  <1> QED
    BY <1>3, <1>4, <1>5, AtFacts, LandsKeeps

\* A process blocks on an object it has found initialised and will go back to.
LEMMA ObjectKeeps ==
    ASSUME NEW at, At(at), NEW p \in Pcb \ {Shell}, NEW o \in Objects, NEW c \in Konts,
           os.current_running = p, Registered(o),
           os' = Scheduler(Block(os, o)), kont' = [kont EXCEPT ![p] = c],
           \A l \in Locks : c = Acquiring(l) => Registered(l),
           \A s \in Sems : c = Downing(s) => Registered(s),
           limit' \in [Sems \cup Barriers -> Int], UNCHANGED <<lock_status, locks, sems>>
    PROVE  KInv'
PROOF
  <1>1. o \in Queues \ {Ready}
    BY QueueNames
  <1>2. Lands(os', os.all, Move(at, p, o))
    BY <1>1, BlockLands DEF At
  <1>3. Others'
    BY DEF At, Others
  <1>4. Move(at, p, o) \in [Pcb -> Queues \cup {NULL}]
        /\ \A y \in Pcb : Move(at, p, o)[y] \in Objects => Registered(Move(at, p, o)[y])
    BY <1>1, AtFacts, MoveKnown DEF At, Known
  <1>5. kont \in [Pcb -> Konts] /\ \A y \in Pcb : kont'[y] = IF y = p THEN c ELSE kont[y]
    BY DEF At, Others
  <1>6. KnownNext(Move(at, p, o))
    BY <1>4, <1>5, QueueNames DEF At, Known, KnownNext
  <1> QED
    BY <1>2, <1>3, <1>4, <1>6, AtFacts, LandsKeeps

\* do_exit keeps the invariant.
LEMMA ExitKeeps ==
    ASSUME NEW at, At(at), NEW p \in Pcb \ {Shell}, os.current_running = p, DoExit(p)
    PROVE  KInv'
PROOF
  <1> DEFINE v == Move(WokenFrom(at, GivenBack(p)), p, NULL)
  <1>1. /\ os' = Scheduler(ExitLeaves(FreeAll(os, p), p))
        /\ lock_status' = FreeLocks(p) /\ limit' = FreeSems(p)
        /\ kont' = [kont EXCEPT ![p] = Exited] /\ UNCHANGED <<locks, sems>>
    BY DEF DoExit, ExitLeaves
  <1>2. Lands(os', os.all, v)
    BY <1>1, AtFacts, ExitLands DEF At
  <1>3. Others'
    BY <1>1, AtFacts, FreeTypes, KontTypes DEF Others
  <1>4. v \in [Pcb -> Queues \cup {NULL}] /\ \A y \in Pcb : v[y] \in Objects => Registered(v[y])
    <2> DEFINE a == WokenFrom(at, GivenBack(p))
    <2>1. a \in [Pcb -> Queues \cup {NULL}] /\ \A y \in Pcb : a[y] \in Objects => Registered(a[y])
      BY AtFacts, MoveKnown DEF At, Known
    <2>2. NULL \notin Objects
      BY QueueNames
    <2> HIDE DEF a
    <2> QED  BY <2>1, <2>2, MoveKnown DEF a
  <1> HIDE DEF v
  <1>5. kont \in [Pcb -> Konts] /\ \A y \in Pcb : kont'[y] = IF y = p THEN Exited ELSE kont[y]
    BY <1>1 DEF At, Others
  <1>6. KnownNext(v)
    BY <1>1, <1>4, <1>5, KontFacts, QueueNames DEF At, Known, KnownNext
  <1> QED
    BY <1>2, <1>3, <1>4, <1>6, AtFacts, LandsKeeps

\* A slot that is filled or emptied keeps its type and names no unknown object.
LEMMA SlotTypes ==
    ASSUME NEW f, NEW S, f \in [Pcb -> [Slots -> S \cup {NULL}]], NEW p \in Pcb, NEW i \in Slots,
           NEW x \in S \cup {NULL}
    PROVE  /\ [f EXCEPT ![p][i] = x] \in [Pcb -> [Slots -> S \cup {NULL}]]
           /\ \A y \in Pcb : \A j \in Slots :
                [f EXCEPT ![p][i] = x][y][j] = IF y = p /\ j = i THEN x ELSE f[y][j]
  OBVIOUS

\* Clearing a slot of p keeps the types and every other slot.
LEMMA ClearTypes ==
    ASSUME NEW f, NEW S, f \in [Pcb -> [Slots -> S \cup {NULL}]], NEW p \in Pcb, NEW x
    PROVE  /\ [f EXCEPT ![p] = Clear(@, x)] \in [Pcb -> [Slots -> S \cup {NULL}]]
           /\ \A y \in Pcb : \A j \in Slots :
                [f EXCEPT ![p] = Clear(@, x)][y][j] \in {f[y][j], NULL}
PROOF
  <1> DEFINE c == Clear(f[p], x)
  <1>1. f[p] \in [Slots -> S \cup {NULL}]
    OBVIOUS
  <1>2. c \in [Slots -> S \cup {NULL}] /\ \A j \in Slots : c[j] = f[p][j] \/ c[j] = NULL
    BY <1>1, ClearFacts
  <1>3. [f EXCEPT ![p] = Clear(@, x)] = [f EXCEPT ![p] = c]
    OBVIOUS
  <1> HIDE DEF c
  <1> QED
    BY <1>2, <1>3

\* A step that leaves the scheduler alone: a lock or a semaphore is taken.
LEMMA TakeKeeps ==
    ASSUME NEW at, At(at), NEW p \in Pcb \ {Shell}, NEW l \in Locks \cup Sems, Registered(l),
           NEW i \in Slots, UNCHANGED os, kont' = [kont EXCEPT ![p] = User],
           \/ l \in Locks /\ locks' = [locks EXCEPT ![p][i] = l] /\ UNCHANGED sems
           \/ l \in Sems /\ sems' = [sems EXCEPT ![p][i] = l] /\ UNCHANGED locks,
           lock_status' \in [Locks -> {"LOCKED", "UNLOCKED"}],
           limit' \in [Sems \cup Barriers -> Int]
    PROVE  KInv'
PROOF
  <1>1. /\ locks \in [Pcb -> [Slots -> Locks \cup {NULL}]]
        /\ sems \in [Pcb -> [Slots -> Sems \cup {NULL}]] /\ kont \in [Pcb -> Konts]
    BY DEF At, Others
  <1>2. kont' \in [Pcb -> Konts] /\ \A y \in Pcb : kont'[y] = IF y = p THEN User ELSE kont[y]
    BY <1>1, KontTypes
  <1>3. /\ locks' \in [Pcb -> [Slots -> Locks \cup {NULL}]]
        /\ sems' \in [Pcb -> [Slots -> Sems \cup {NULL}]]
        /\ \A y \in Pcb : \A j \in Slots : locks'[y][j] = l \/ locks'[y][j] = locks[y][j]
    <2>1. CASE l \in Locks /\ locks' = [locks EXCEPT ![p][i] = l] /\ UNCHANGED sems
      BY <1>1, <2>1, SlotTypes
    <2>2. CASE l \in Sems /\ sems' = [sems EXCEPT ![p][i] = l] /\ UNCHANGED locks
      BY <1>1, <2>2, SlotTypes
    <2> QED  BY <2>1, <2>2
  <1>4. Others'
    BY <1>2, <1>3 DEF Others
  <1>5. KnownNext(at)
    BY <1>2, <1>3, KontFacts, QueueNames DEF At, Known, KnownNext
  <1>6. Steady(os', at) /\ os'.all = os.all
    BY DEF At
  <1> QED
    BY <1>4, <1>5, <1>6, AtFacts, Keeps

\* A step that only wakes: UnblockAll of a queue, with slots cleared.
LEMMA WakeKeeps ==
    ASSUME NEW at, At(at), NEW p \in Pcb, NEW q \in Objects, NEW x,
           os' = UnblockAll(os, q), UNCHANGED kont,
           locks' = locks \/ locks' = [locks EXCEPT ![p] = Clear(@, x)],
           sems' = sems \/ sems' = [sems EXCEPT ![p] = Clear(@, x)],
           lock_status' \in [Locks -> {"LOCKED", "UNLOCKED"}],
           limit' \in [Sems \cup Barriers -> Int]
    PROVE  KInv'
PROOF
  <1> DEFINE v == WokenFrom(at, {q})
  <1>1. q \in Queues \ {Ready}
    BY QueueNames
  <1>2. Steady(os', v) /\ os'.all = os.all
    BY <1>1, UnblockAllSteady DEF At
  <1>3. /\ locks \in [Pcb -> [Slots -> Locks \cup {NULL}]]
        /\ sems \in [Pcb -> [Slots -> Sems \cup {NULL}]] /\ kont \in [Pcb -> Konts]
    BY DEF At, Others
  <1>4. /\ locks' \in [Pcb -> [Slots -> Locks \cup {NULL}]]
        /\ \A y \in Pcb : \A j \in Slots : locks'[y][j] \in {locks[y][j], NULL}
    <2>1. CASE locks' = locks
      BY <1>3, <2>1
    <2>2. CASE locks' = [locks EXCEPT ![p] = Clear(@, x)]
      BY <1>3, <2>2, ClearTypes
    <2> QED  BY <2>1, <2>2
  <1>5. sems' \in [Pcb -> [Slots -> Sems \cup {NULL}]]
    <2>1. CASE sems' = sems
      BY <1>3, <2>1
    <2>2. CASE sems' = [sems EXCEPT ![p] = Clear(@, x)]
      BY <1>3, <2>2, ClearTypes
    <2> QED  BY <2>1, <2>2
  <1>6. Others'
    BY <1>3, <1>4, <1>5 DEF Others
  <1>7. \A y \in Pcb : v[y] \in Objects => Registered(v[y])
    BY AtFacts, MoveKnown DEF At, Known
  <1> HIDE DEF v
  <1>8. KnownNext(v)
    BY <1>4, <1>7 DEF At, Known, KnownNext
  <1> QED
    BY <1>2, <1>6, <1>8, AtFacts, Keeps

\* do_mutex_lock_release keeps the invariant.
LEMMA ReleaseKeeps ==
    ASSUME NEW at, At(at), NEW p \in Pcb, NEW l \in Locks, DoMutexLockRelease(p, l)
    PROVE  KInv'
PROOF
  <1>1. /\ os' = UnblockAll(os, l) /\ locks' = [locks EXCEPT ![p] = Clear(@, l)]
        /\ lock_status' = [lock_status EXCEPT ![l] = "UNLOCKED"]
        /\ UNCHANGED <<limit, sems, kont>>
    BY DEF DoMutexLockRelease
  <1>2. l \in Objects
    BY DEF Objects
  <1>3. /\ lock_status' \in [Locks -> {"LOCKED", "UNLOCKED"}]
        /\ limit' \in [Sems \cup Barriers -> Int]
    BY <1>1 DEF At, Others
  <1> QED
    BY <1>1, <1>2, <1>3, WakeKeeps

\* do_condition_broadcast keeps the invariant.
LEMMA BroadcastKeeps ==
    ASSUME NEW at, At(at), NEW p \in Pcb, NEW c \in Conds, DoConditionBroadcast(p, c)
    PROVE  KInv'
PROOF
  <1>1. os' = UnblockAll(os, c) /\ UNCHANGED <<lock_status, limit, locks, sems, kont>>
    BY DEF DoConditionBroadcast
  <1>2. c \in Objects
    BY DEF Objects
  <1>3. /\ lock_status' \in [Locks -> {"LOCKED", "UNLOCKED"}]
        /\ limit' \in [Sems \cup Barriers -> Int]
    BY <1>1 DEF At, Others
  <1> QED
    BY <1>1, <1>2, <1>3, WakeKeeps

\* do_semaphore_up keeps the invariant.
LEMMA UpKeeps ==
    ASSUME NEW at, At(at), NEW p \in Pcb, NEW s \in Sems, DoSemaphoreUp(p, s)
    PROVE  KInv'
PROOF
  <1>1. /\ os' = UnblockAll(os, s) /\ sems' = [sems EXCEPT ![p] = Clear(@, s)]
        /\ limit' = [limit EXCEPT ![s] = @ + 1]
        /\ UNCHANGED <<lock_status, locks, kont>>
    BY DEF DoSemaphoreUp
  <1>2. s \in Objects
    BY DEF Objects
  <1>3. /\ lock_status' \in [Locks -> {"LOCKED", "UNLOCKED"}]
        /\ limit' \in [Sems \cup Barriers -> Int]
    BY <1>1 DEF At, Others
  <1> QED
    BY <1>1, <1>2, <1>3, WakeKeeps

\* do_condition_signal keeps the invariant.
LEMMA SignalKeeps ==
    ASSUME NEW at, At(at), NEW p \in Pcb, NEW c \in Conds, DoConditionSignal(p, c)
    PROVE  KInv'
PROOF
  <1>1. os' = UnblockOne(os, c) /\ UNCHANGED <<lock_status, limit, locks, sems, kont>>
    BY DEF DoConditionSignal
  <1>2. c \in Queues \ {Ready}
    BY QueueNames DEF Objects
  <1>3. Others'
    BY <1>1 DEF At, Others
  <1>4. PICK v : Steady(os', v) /\ (v = at \/ \E y \in Pcb : v = Move(at, y, Ready)) /\ os'.all = os.all
    BY <1>1, <1>2, UnblockOneSteady DEF At
  <1>5. \A y \in Pcb : v[y] \in Objects => Registered(v[y])
    BY <1>4, AtFacts, MoveKnown, QueueNames DEF At, Known
  <1>6. KnownNext(v)
    BY <1>1, <1>5 DEF At, Known, KnownNext
  <1> QED
    BY <1>3, <1>4, <1>6, AtFacts, Keeps

\* do_condition_wait keeps the invariant.
LEMMA CondWaitKeeps ==
    ASSUME NEW at, At(at), NEW p \in Pcb \ {Shell}, NEW l \in Locks, NEW c \in Conds,
           Registered(l), Registered(c), DoConditionWait(p, l, c)
    PROVE  KInv'
PROOF
  <1> DEFINE v == Move(WokenFrom(at, {l}), p, c)
  <1>1. /\ os' = Scheduler(Block(UnblockAll(os, l), c))
        /\ locks' = [locks EXCEPT ![p] = Clear(@, l)]
        /\ lock_status' = [lock_status EXCEPT ![l] = "UNLOCKED"]
        /\ kont' = [kont EXCEPT ![p] = Acquiring(l)]
        /\ UNCHANGED <<limit, sems>> /\ os.current_running = p
    BY DEF DoConditionWait, Running, OnCpu
  <1>2. l \in Objects /\ c \in Objects /\ c \in Queues
    BY QueueNames DEF Objects
  <1>3. Lands(os', os.all, v)
    BY <1>1, <1>2, CondWaitLands DEF At
  <1>4. locks \in [Pcb -> [Slots -> Locks \cup {NULL}]] /\ kont \in [Pcb -> Konts]
    BY DEF At, Others
  <1>5. /\ locks' \in [Pcb -> [Slots -> Locks \cup {NULL}]]
        /\ \A y \in Pcb : \A j \in Slots : locks'[y][j] \in {locks[y][j], NULL}
    BY <1>1, <1>4, ClearTypes
  <1>6. /\ kont' \in [Pcb -> Konts]
        /\ \A y \in Pcb : kont'[y] = IF y = p THEN Acquiring(l) ELSE kont[y]
    BY <1>1, <1>4, KontTypes
  <1>7. Others'
    BY <1>1, <1>5, <1>6 DEF At, Others
  <1>8. v \in [Pcb -> Queues \cup {NULL}] /\ \A y \in Pcb : v[y] \in Objects => Registered(v[y])
    <2> DEFINE a == WokenFrom(at, {l})
    <2>1. a \in [Pcb -> Queues \cup {NULL}] /\ \A y \in Pcb : a[y] \in Objects => Registered(a[y])
      BY AtFacts, MoveKnown DEF At, Known
    <2> HIDE DEF a
    <2> QED  BY <1>2, <2>1, MoveKnown DEF a
  <1> HIDE DEF v
  <1>9. KnownNext(v)
    BY <1>5, <1>6, <1>8, KontFacts, QueueNames DEF At, Known, KnownNext
  <1> QED
    BY <1>3, <1>7, <1>8, <1>9, AtFacts, LandsKeeps

\* An object is initialised before anybody has used it.
LEMMA InitKeeps ==
    ASSUME NEW at, At(at), NEW o \in Objects, ~Registered(o), os' = QueueInit(os, o),
           lock_status' \in [Locks -> {"LOCKED", "UNLOCKED"}],
           limit' \in [Sems \cup Barriers -> Int], UNCHANGED <<locks, sems, kont>>
    PROVE  KInv'
PROOF
  <1>1. o \in Queues /\ ~Contains(os.all, o) /\ \A p \in Pcb : at[p] # o
    BY QueueNames DEF At, Known, Registered
  <1>2. Steady(os', at) /\ os'.all = Append(os.all, o)
    BY <1>1, QueueInitSteady DEF At
  <1>3. Others' /\ KnownNext(at)
    BY DEF At, Others, Known, KnownNext
  <1> QED
    BY <1>1, <1>2, <1>3, AtFacts, Keeps

\* do_spawn keeps the invariant.
LEMMA SpawnKeeps ==
    ASSUME NEW at, At(at), NEW p \in Pcb, NEW prio \in Prios, DoSpawn(p, prio)
    PROVE  KInv'
PROOF
  <1> DEFINE n == MinOf(Exiteds)
             d == IF ClearsOwnSlots THEN n ELSE 0
             v == Move(at, n, Ready)
  <1>1. /\ Exiteds # {} /\ os' = Spawned(os, n, prio) /\ kont' = [kont EXCEPT ![n] = User]
        /\ locks' = [locks EXCEPT ![d] = NoSlots] /\ sems' = [sems EXCEPT ![d] = NoSlots]
        /\ UNCHANGED <<lock_status, limit>>
    BY DEF DoSpawn, Spawned
  <1>2. n \in Exiteds
    <2>1. Exiteds \in SUBSET Nat
      BY KernelAssumption DEF Exiteds, Pcb
    <2> QED  BY <1>1, <2>1, MinMember
  <1>3. n \in Pcb /\ d \in Pcb /\ os.status[n] = "EXITED" /\ n # Shell
    BY <1>2, QueueNames DEF Exiteds, Shell
  <1>4. at[n] = NULL
    BY <1>3, AtFacts
  <1> HIDE DEF n, d
  <1>5. Steady(os', v) /\ os'.all = os.all
    BY <1>1, <1>3, <1>4, SpawnSteady DEF At
  <1>6. /\ kont \in [Pcb -> Konts] /\ locks \in [Pcb -> [Slots -> Locks \cup {NULL}]]
        /\ sems \in [Pcb -> [Slots -> Sems \cup {NULL}]]
    BY DEF At, Others
  <1>7. /\ kont' \in [Pcb -> Konts]
        /\ \A y \in Pcb : kont'[y] = IF y = n THEN User ELSE kont[y]
    BY <1>1, <1>3, <1>6, KontTypes
  <1>8. /\ NoSlots \in [Slots -> Locks \cup {NULL}] /\ NoSlots \in [Slots -> Sems \cup {NULL}]
        /\ \A i \in Slots : NoSlots[i] = NULL
    BY DEF NoSlots
  <1>9. /\ locks' \in [Pcb -> [Slots -> Locks \cup {NULL}]]
        /\ sems' \in [Pcb -> [Slots -> Sems \cup {NULL}]]
        /\ \A y \in Pcb : locks'[y] = NoSlots \/ locks'[y] = locks[y]
    BY <1>1, <1>3, <1>6, <1>8
  <1>10. Others'
    BY <1>1, <1>7, <1>9 DEF At, Others
  <1>11. \A y \in Pcb : v[y] \in Objects => Registered(v[y])
    BY <1>3, AtFacts, MoveKnown, QueueNames DEF At, Known
  <1> HIDE DEF v
  <1>12. KnownNext(v)
    <2>1. \A y \in Pcb : \A i \in Slots : locks'[y][i] # NULL => Registered(locks'[y][i])
      BY <1>8, <1>9 DEF At, Known
    <2> QED  BY <1>7, <1>11, <2>1, KontFacts, QueueNames DEF At, Known, KnownNext
  <1> QED
    BY <1>5, <1>10, <1>12, AtFacts, Keeps

\* do_mutex_lock_acquire, and its loop resumed, keep the invariant.
LEMMA AcquireKeeps ==
    ASSUME NEW at, At(at), NEW p \in Pcb \ {Shell}, NEW l \in Locks, os.current_running = p,
           Registered(l), AcquireStep(p, l)
    PROVE  KInv'
PROOF
  <1>1. CASE /\ lock_status[l] = "LOCKED"
             /\ os' = Scheduler(Block(os, l))
             /\ kont' = [kont EXCEPT ![p] = Acquiring(l)]
             /\ UNCHANGED <<lock_status, limit, locks, sems>>
    <2>1. /\ l \in Objects /\ Acquiring(l) \in Konts
          /\ \A m \in Locks : Acquiring(l) = Acquiring(m) => Registered(m)
          /\ \A s \in Sems : Acquiring(l) = Downing(s) => Registered(s)
          /\ limit' \in [Sems \cup Barriers -> Int]
      BY <1>1, KontTypes, KontFacts DEF Objects, At, Others
    <2> QED  BY <1>1, <2>1, ObjectKeeps
  <1>2. CASE /\ lock_status[l] = "UNLOCKED"
             /\ FreeSlots(locks[p]) # {}
             /\ locks' = [locks EXCEPT ![p][MinOf(FreeSlots(locks[p]))] = l]
             /\ lock_status' = [lock_status EXCEPT ![l] = "LOCKED"]
             /\ kont' = [kont EXCEPT ![p] = User]
             /\ UNCHANGED <<os, limit, sems>>
    <2> DEFINE i == MinOf(FreeSlots(locks[p]))
    <2>1. i \in Slots
      BY <1>2, AtFacts, FreeSlotFacts
    <2>2. /\ lock_status' \in [Locks -> {"LOCKED", "UNLOCKED"}]
          /\ limit' \in [Sems \cup Barriers -> Int]
      BY <1>2 DEF At, Others
    <2>3. locks' = [locks EXCEPT ![p][i] = l] /\ UNCHANGED sems /\ l \in Locks /\ l \in Locks \cup Sems
      BY <1>2
    <2> HIDE DEF i
    <2> QED  BY <1>2, <2>1, <2>2, <2>3, TakeKeeps
  <1>3. CASE DoExit(p)
    BY <1>3, ExitKeeps
  <1> QED
    BY <1>1, <1>2, <1>3 DEF AcquireStep

\* do_semaphore_down, and its loop resumed, keep the invariant.
LEMMA DownKeeps ==
    ASSUME NEW at, At(at), NEW p \in Pcb \ {Shell}, NEW s \in Sems, os.current_running = p,
           Registered(s), DownStep(p, s)
    PROVE  KInv'
PROOF
  <1>1. CASE /\ limit[s] <= 0
             /\ os' = Scheduler(Block(os, s))
             /\ kont' = [kont EXCEPT ![p] = Downing(s)]
             /\ UNCHANGED <<lock_status, limit, locks, sems>>
    <2>1. /\ s \in Objects /\ Downing(s) \in Konts
          /\ \A m \in Locks : Downing(s) = Acquiring(m) => Registered(m)
          /\ \A r \in Sems : Downing(s) = Downing(r) => Registered(r)
          /\ limit' \in [Sems \cup Barriers -> Int]
      BY <1>1, KontTypes, KontFacts DEF Objects, At, Others
    <2> QED  BY <1>1, <2>1, ObjectKeeps
  <1>2. CASE /\ limit[s] > 0
             /\ FreeSlots(sems[p]) # {}
             /\ sems' = [sems EXCEPT ![p][MinOf(FreeSlots(sems[p]))] = s]
             /\ limit' = [limit EXCEPT ![s] = @ - 1]
             /\ kont' = [kont EXCEPT ![p] = User]
             /\ UNCHANGED <<os, lock_status, locks>>
    <2> DEFINE i == MinOf(FreeSlots(sems[p]))
    <2>1. i \in Slots
      BY <1>2, AtFacts, FreeSlotFacts
    <2>2. /\ lock_status' \in [Locks -> {"LOCKED", "UNLOCKED"}]
          /\ limit' \in [Sems \cup Barriers -> Int]
      BY <1>2 DEF At, Others
    <2>3. sems' = [sems EXCEPT ![p][i] = s] /\ UNCHANGED locks /\ s \in Sems /\ s \in Locks \cup Sems
      BY <1>2
    <2> HIDE DEF i
    <2> QED  BY <1>2, <2>1, <2>2, <2>3, TakeKeeps
  <1>3. CASE DoExit(p)
    BY <1>3, ExitKeeps
  <1> QED
    BY <1>1, <1>2, <1>3 DEF DownStep

\* do_barrier_wait keeps the invariant.
LEMMA BarrierKeeps ==
    ASSUME NEW at, At(at), NEW p \in Pcb \ {Shell}, NEW b \in Barriers, Registered(b),
           DoBarrierWait(p, b)
    PROVE  KInv'
PROOF
  <1>1. os.current_running = p /\ b \in Objects
    BY DEF DoBarrierWait, Running, OnCpu, Objects
  <1>2. CASE os' = UnblockAll(os, b) /\ UNCHANGED <<lock_status, limit, locks, sems, kont>>
    <2>1. /\ lock_status' \in [Locks -> {"LOCKED", "UNLOCKED"}]
          /\ limit' \in [Sems \cup Barriers -> Int]
      BY <1>2 DEF At, Others
    <2> QED  BY <1>1, <1>2, <2>1, WakeKeeps
  <1>3. CASE /\ os' = Scheduler(Block(os, b))
             /\ limit' = [limit EXCEPT ![b] = @ - 1]
             /\ kont' = [kont EXCEPT ![p] = Leaving(b)]
             /\ UNCHANGED <<lock_status, locks, sems>>
    <2>1. /\ Leaving(b) \in Konts
          /\ \A m \in Locks : Leaving(b) = Acquiring(m) => Registered(m)
          /\ \A r \in Sems : Leaving(b) = Downing(r) => Registered(r)
      BY KontTypes, KontFacts
    <2>2. limit' \in [Sems \cup Barriers -> Int]
      BY <1>3 DEF At, Others
    <2> QED  BY <1>1, <1>3, <2>1, <2>2, ObjectKeeps
  <1> QED
    BY <1>2, <1>3 DEF DoBarrierWait

\* The return from a barrier keeps the invariant.
LEMMA ResumeBarrierKeeps ==
    ASSUME NEW at, At(at), NEW p \in Pcb, NEW b \in Barriers, ResumeBarrier(p, b)
    PROVE  KInv'
PROOF
  <1>1. /\ limit' = [limit EXCEPT ![b] = @ + 1] /\ kont' = [kont EXCEPT ![p] = User]
        /\ UNCHANGED <<os, lock_status, locks, sems>>
    BY DEF ResumeBarrier
  <1>2. /\ kont' \in [Pcb -> Konts] /\ limit' \in [Sems \cup Barriers -> Int]
        /\ \A y \in Pcb : kont'[y] = IF y = p THEN User ELSE kont[y]
    BY <1>1, KontTypes DEF At, Others
  <1>3. Others' /\ KnownNext(at)
    BY <1>1, <1>2, KontFacts, QueueNames DEF At, Others, Known, KnownNext
  <1>4. Steady(os', at) /\ os'.all = os.all
    BY <1>1 DEF At
  <1> QED
    BY <1>3, <1>4, AtFacts, Keeps

\* A process that goes back to a call is a task, on the CPU.
LEMMA ResumeKeeps ==
    ASSUME NEW at, At(at), NEW p \in Pcb, Resume(p)
    PROVE  KInv'
PROOF
  <1>1. ASSUME NEW l \in Locks, ResumeAcquire(p, l) PROVE KInv'
    <2>1. os.current_running = p /\ kont[p] = Acquiring(l) /\ AcquireStep(p, l)
      BY <1>1 DEF ResumeAcquire, OnCpu
    <2>2. Registered(l) /\ p # Shell
      BY <2>1, KontFacts DEF At, Known
    <2> QED  BY <2>1, <2>2, AcquireKeeps
  <1>2. ASSUME NEW s \in Sems, ResumeDown(p, s) PROVE KInv'
    <2>1. os.current_running = p /\ kont[p] = Downing(s) /\ DownStep(p, s)
      BY <1>2 DEF ResumeDown, OnCpu
    <2>2. Registered(s) /\ p # Shell
      BY <2>1, KontFacts DEF At, Known
    <2> QED  BY <2>1, <2>2, DownKeeps
  <1>3. ASSUME NEW b \in Barriers, ResumeBarrier(p, b) PROVE KInv'
    BY <1>3, ResumeBarrierKeeps
  <1> QED
    BY <1>1, <1>2, <1>3 DEF Resume

\* What a process holds is typed by its slots: no lock is held as a semaphore.
LEMMA HoldsFacts ==
    ASSUME NEW at, At(at), NEW p \in Pcb
    PROVE  /\ \A l \in Locks : Holds(p, l) <=> \E i \in Slots : locks[p][i] = l
           /\ \A s \in Sems : Holds(p, s) <=> \E i \in Slots : sems[p][i] = s
           /\ \A l \in Locks : Holds(p, l) => Registered(l)
PROOF
  <1>1. /\ locks[p] \in [Slots -> Locks \cup {NULL}] /\ sems[p] \in [Slots -> Sems \cup {NULL}]
    BY AtFacts
  <1>2. /\ \A x : Contains(locks[p], x) <=> \E i \in Slots : locks[p][i] = x
        /\ \A x : Contains(sems[p], x) <=> \E i \in Slots : sems[p][i] = x
    BY <1>1, SlotFacts
  <1>3. Locks \cap Sems = {} /\ NULL \notin Locks /\ NULL \notin Sems
    BY AddressAssumption DEF Queues, Objects
  <1>4. \A l \in Locks : ~ \E i \in Slots : sems[p][i] = l
    BY <1>1, <1>3
  <1>5. \A s \in Sems : ~ \E i \in Slots : locks[p][i] = s
    BY <1>1, <1>3
  <1>6. \A l \in Locks : Holds(p, l) <=> \E i \in Slots : locks[p][i] = l
    BY <1>2, <1>4 DEF Holds
  <1>7. \A s \in Sems : Holds(p, s) <=> \E i \in Slots : sems[p][i] = s
    BY <1>2, <1>5 DEF Holds
  <1> QED
    BY <1>3, <1>6, <1>7 DEF At, Known

\* Every system call of a task keeps the invariant.
LEMMA TaskKeeps ==
    ASSUME NEW at, At(at), NEW p \in Pcb \ {Shell}, GoodTaskCalls(p)
    PROVE  KInv'
PROOF
  <1>0. \A o \in Locks \cup Conds \cup Sems \cup Barriers : o \in Objects
    BY DEF Objects
  <1>t. /\ lock_status \in [Locks -> {"LOCKED", "UNLOCKED"}]
        /\ limit \in [Sems \cup Barriers -> Int]
    BY DEF At, Others
  <1>1. ASSUME NEW l \in Locks, ~Registered(l), DoMutexLockInit(p, l) PROVE KInv'
    <2>1. /\ os' = QueueInit(os, l) /\ UNCHANGED <<limit, locks, sems, kont>>
          /\ lock_status' = [lock_status EXCEPT ![l] = "UNLOCKED"]
      BY <1>1 DEF DoMutexLockInit
    <2>2. /\ lock_status' \in [Locks -> {"LOCKED", "UNLOCKED"}]
          /\ limit' \in [Sems \cup Barriers -> Int]
      BY <1>t, <2>1
    <2> QED  BY <1>0, <1>1, <2>1, <2>2, InitKeeps
  <1>2. ASSUME NEW l \in Locks, Registered(l), DoMutexLockAcquire(p, l) PROVE KInv'
    BY <1>2, AcquireKeeps DEF DoMutexLockAcquire, Running, OnCpu
  <1>3. ASSUME NEW l \in Locks, DoMutexLockRelease(p, l) PROVE KInv'
    BY <1>3, ReleaseKeeps
  <1>4. ASSUME NEW l \in Locks, NEW c \in Conds, Holds(p, l), Registered(c), DoConditionWait(p, l, c)
        PROVE  KInv'
    BY <1>4, HoldsFacts, CondWaitKeeps
  <1>5. ASSUME NEW c \in Conds, ~Registered(c), DoConditionInit(p, c) PROVE KInv'
    <2>1. os' = QueueInit(os, c) /\ UNCHANGED <<lock_status, limit, locks, sems, kont>>
      BY <1>5 DEF DoConditionInit
    <2>2. /\ lock_status' \in [Locks -> {"LOCKED", "UNLOCKED"}]
          /\ limit' \in [Sems \cup Barriers -> Int]
      BY <1>t, <2>1
    <2> QED  BY <1>0, <1>5, <2>1, <2>2, InitKeeps
  <1>6. ASSUME NEW c \in Conds, DoConditionSignal(p, c) PROVE KInv'
    BY <1>6, SignalKeeps
  <1>7. ASSUME NEW c \in Conds, DoConditionBroadcast(p, c) PROVE KInv'
    BY <1>7, BroadcastKeeps
  <1>8. ASSUME NEW s \in Sems, ~Registered(s), NEW v \in SemVals, DoSemaphoreInit(p, s, v)
        PROVE  KInv'
    <2>1. /\ os' = QueueInit(os, s) /\ UNCHANGED <<lock_status, locks, sems, kont>>
          /\ limit' = [limit EXCEPT ![s] = v] /\ v \in Int
      BY <1>8, KernelAssumption DEF DoSemaphoreInit
    <2>2. /\ lock_status' \in [Locks -> {"LOCKED", "UNLOCKED"}]
          /\ limit' \in [Sems \cup Barriers -> Int]
      BY <1>t, <2>1
    <2> QED  BY <1>0, <1>8, <2>1, <2>2, InitKeeps
  <1>9. ASSUME NEW s \in Sems, Registered(s), DoSemaphoreDown(p, s) PROVE KInv'
    BY <1>9, DownKeeps DEF DoSemaphoreDown, Running, OnCpu
  <1>10. ASSUME NEW s \in Sems, DoSemaphoreUp(p, s) PROVE KInv'
    BY <1>10, UpKeeps
  <1>11. ASSUME NEW b \in Barriers, ~Registered(b), NEW g \in Goals, DoBarrierInit(p, b, g)
         PROVE  KInv'
    <2>1. /\ os' = QueueInit(os, b) /\ UNCHANGED <<lock_status, locks, sems, kont>>
          /\ limit' = [limit EXCEPT ![b] = g] /\ g \in Int
      BY <1>11, KernelAssumption DEF DoBarrierInit
    <2>2. /\ lock_status' \in [Locks -> {"LOCKED", "UNLOCKED"}]
          /\ limit' \in [Sems \cup Barriers -> Int]
      BY <1>t, <2>1
    <2> QED  BY <1>0, <1>11, <2>1, <2>2, InitKeeps
  <1>12. ASSUME NEW b \in Barriers, Registered(b), DoBarrierWait(p, b) PROVE KInv'
    BY <1>12, BarrierKeeps
  <1>13. CASE GoodExit(p)
    BY <1>13, ExitKeeps DEF GoodExit, SysExit, Running, OnCpu
  <1>14. ASSUME NEW t \in SleepTimes, DoSleep(p, t) PROVE KInv'
    BY <1>14, SleepKeeps
  <1>15. ASSUME NEW t \in Pcb, DoWait(p, t) PROVE KInv'
    BY <1>15, WaitKeeps
  <1>16. CASE GoodLockCalls(p)
    BY <1>1, <1>2, <1>3, <1>4, <1>16 DEF GoodLockCalls
  <1>17. CASE GoodCondCalls(p)
    BY <1>5, <1>6, <1>7, <1>17 DEF GoodCondCalls
  <1>18. CASE GoodSemCalls(p)
    BY <1>8, <1>9, <1>10, <1>18 DEF GoodSemCalls
  <1>19. CASE GoodBarrierCalls(p)
    BY <1>11, <1>12, <1>19 DEF GoodBarrierCalls
  <1> QED
    BY <1>13, <1>14, <1>15, <1>16, <1>17, <1>18, <1>19 DEF GoodTaskCalls

\* The invariant is inductive.
LEMMA NextInv ==
    ASSUME KInv, [GoodNext]_vars
    PROVE  KInv'
PROOF
  <1>1. PICK at \in [Pcb -> Queues \cup {NULL}] : At(at)
    BY DEF KInv
  <1>2. CASE GoodNext
    <2>1. PICK p \in Pcb : \/ Tick(p)
                           \/ Resume(p)
                           \/ p = Shell /\ \E prio \in Prios : DoSpawn(p, prio)
                           \/ p # Shell /\ GoodTaskCalls(p)
      BY <1>2 DEF GoodNext
    <2> QED  BY <1>1, <2>1, TickKeeps, ResumeKeeps, SpawnKeeps, TaskKeeps
  <1>3. CASE UNCHANGED vars
    <2>1. Others' /\ Steady(os', at) /\ Known(at)'
      BY <1>1, <1>3 DEF vars, At, Others, Known, Registered
    <2> QED  BY <1>1, <2>1 DEF KInv, At
  <1> QED
    BY <1>2, <1>3

\* Between any two calls of programs that keep the interface's rules, one
\* place function explains all queues, statuses, objects and slots.
THEOREM KernelInv == GoodSpec => []KInv
  BY InitInv, NextInv, PTL DEF GoodSpec

\* The invariant gives the types.
LEMMA InvTypes ==
    ASSUME KInv
    PROVE  TypeOK
PROOF
  <1>1. PICK at \in [Pcb -> Queues \cup {NULL}] : At(at)
    BY DEF KInv
  <1>2. os \in KRec /\ Others
    BY <1>1 DEF At, Steady, Base
  <1> QED
    BY <1>2 DEF KRec, Others, TypeOK

\* A process is linked where the place function says, once.
LEMMA PlacesFacts ==
    ASSUME NEW at, Placed(os.queue, at), NEW p \in Pcb
    PROVE  IF at[p] = NULL THEN Places(p) = {} ELSE \E pl \in Places(p) : Places(p) = {pl}
PROOF
  <1> DEFINE Q == os.queue
  <1>1. /\ \A q \in Queues : Q[q] \in Seq(Pcb) /\ Distinct(Q[q])
        /\ \A q \in Queues : Contains(Q[q], p) <=> at[p] = q
        /\ at[p] \in Queues \cup {NULL}
    BY DEF Placed
  <1>2. \A x : x \in Places(p) <=> \E q \in Queues : \E i \in DOMAIN Q[q] : Q[q][i] = p /\ x = <<q, i>>
    BY DEF Places
  <1>3. \A q \in Queues : DOMAIN Q[q] = 1..Len(Q[q])
    BY <1>1
  <1> HIDE DEF Q
  <1>4. \A q \in Queues : \A i \in DOMAIN Q[q] : Q[q][i] = p => at[p] = q
    BY <1>1, <1>3 DEF Contains
  <1>5. CASE at[p] = NULL
    <2>1. \A x : x \notin Places(p)
      BY <1>2, <1>4, <1>5, QueueNames
    <2> QED  BY <1>5, <2>1
  <1>6. CASE at[p] # NULL
    <2>1. at[p] \in Queues /\ Contains(Q[at[p]], p)
      BY <1>1, <1>6
    <2>2. PICK i \in DOMAIN Q[at[p]] : Q[at[p]][i] = p
      BY <1>3, <2>1 DEF Contains
    <2>3. <<at[p], i>> \in Places(p)
      BY <1>2, <2>1, <2>2
    <2>4. ASSUME NEW x \in Places(p) PROVE x = <<at[p], i>>
      <3>1. PICK q \in Queues : \E j \in DOMAIN Q[q] : Q[q][j] = p /\ x = <<q, j>>
        BY <1>2
      <3>2. PICK j \in DOMAIN Q[q] : Q[q][j] = p /\ x = <<q, j>>
        BY <3>1
      <3>3. q = at[p]
        BY <1>4, <3>2
      <3>4. j = i
        BY <1>1, <2>2, <3>2, <3>3 DEF Distinct
      <3> QED  BY <3>2, <3>3, <3>4
    <2>5. Places(p) = {<<at[p], i>>}
      BY <2>3, <2>4
    <2> QED  BY <1>6, <2>3, <2>5
  <1> QED
    BY <1>5, <1>6

\* The invariant gives the agreement of queues and statuses.
LEMMA InvQueues ==
    ASSUME KInv
    PROVE  QueuesAgree
PROOF
  <1>1. PICK at \in [Pcb -> Queues \cup {NULL}] : At(at)
    BY DEF KInv
  <1> DEFINE c == os.current_running
  <1>2. /\ Base(os, at, c) /\ os \in KRec /\ Placed(os.queue, at) /\ os.status[c] = "RUNNING"
        /\ c \in Pcb /\ at[c] = Ready
    BY <1>1, AtFacts DEF At, Steady, Base
  <1> HIDE DEF c
  <1>3. \A p \in Pcb : p # c => os.status[p] = StatusAt(at[p])
    BY <1>2 DEF Base
  <1>4. ASSUME NEW p \in Pcb
        PROVE  IF Live(p) THEN \E pl \in Places(p) : Places(p) = {pl} ELSE Places(p) = {}
    <2>1. Live(p) <=> at[p] # NULL
      BY <1>1, AtFacts DEF Live
    <2> QED  BY <1>2, <2>1, PlacesFacts
  <1>5. ASSUME NEW q \in Queues, NEW p \in ToSet(os.queue[q]) PROVE p \in Pcb /\ at[p] = q
    <2>1. os.queue[q] \in Seq(Pcb)
      BY <1>2 DEF Placed
    <2>2. PICK i \in 1..Len(os.queue[q]) : p = os.queue[q][i]
      BY <2>1 DEF ToSet
    <2>3. p \in Pcb /\ Contains(os.queue[q], p)
      BY <2>1, <2>2 DEF Contains
    <2> QED  BY <1>2, <2>3 DEF Placed
  <1>6. \A p \in ToSet(os.queue[Ready]) : os.status[p] \in {"READY", "RUNNING"}
    <2> TAKE p \in ToSet(os.queue[Ready])
    <2>1. p \in Pcb /\ at[p] = Ready
      BY <1>5, QueueNames
    <2>2. CASE p = c
      BY <1>2, <2>2
    <2>3. CASE p # c
      BY <1>3, <2>1, <2>3, QueueNames DEF StatusAt
    <2> QED  BY <2>2, <2>3
  <1>7. ASSUME NEW q \in Queues \ {Ready}, NEW p \in ToSet(os.queue[q])
        PROVE  os.status[p] = "BLOCKED"
    <2>1. p \in Pcb /\ at[p] = q /\ q # NULL
      BY <1>5, QueueNames
    <2>2. p # c
      BY <1>2, <2>1
    <2> QED  BY <1>3, <2>1, <2>2 DEF StatusAt
  <1>8. ASSUME NEW p \in Pcb PROVE os.status[p] = "RUNNING" <=> p = c
    <2>1. p # c => os.status[p] # "RUNNING"
      BY <1>3 DEF StatusAt
    <2> QED  BY <1>2, <2>1
  <1> QED
    BY <1>4, <1>6, <1>7, <1>8 DEF QueuesAgree, c

\* TypeOK: the kernel's fields stay in their types, for any number of
\* processes and objects: no queue index, slot or priority leaves its range.
THEOREM KernelTypes == GoodSpec => []TypeOK
  BY KernelInv, InvTypes, PTL

\* QueuesAgree: queue.c's links and sched.c's statuses always agree. Every live
\* process is on exactly one queue, once, that fits its status; no exited process
\* is on any; exactly one process runs; no queue function ever follows NULL.
THEOREM KernelQueues == GoodSpec => []QueuesAgree
  BY KernelInv, InvQueues, PTL
====
