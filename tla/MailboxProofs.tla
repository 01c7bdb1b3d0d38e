------------------------- MODULE MailboxProofs -------------------------
(***************************************************************************)
(* Safety of the mailboxes, for any number of processes, boxes, mails and  *)
(* slots: every mail arrives once and in order, the three records a box    *)
(* keeps of its mails agree, and nobody waits for what has happened.       *)
(* Mailbox runs on Sync, so the lock theorems hold of it (LocksHold); that *)
(* a process which works on a box is alone is then CallInv's.              *)
(***************************************************************************)
EXTENDS Mailbox, SyncProofs, SequenceTheorems

\* What a mail can become in a box, and the arguments of the calls.
Texts == {Text(m) : m \in Mails} \cup {<<0>>}
Chosen == [name : Names, box : Boxes]
Called == [name : Names, box : Boxes, msg : Mails \cup {NULL}, short : BOOLEAN]

\* The labels at which a caller has the lock, whatever its kont.
Critical == {"put", "put_count", "send_wake", "take_mail", "take_count", "recv_wake", "unlock"}
Labels   == {"idle", "send", "recv"} \cup Opening \cup Critical
Calling(p) == pc[p] \in {"send", "recv"} \cup Critical
Holding(p) == pc[p] \in Critical \/ (pc[p] \in {"send", "recv"} /\ kont[p] = User)

Box == [busy : BOOLEAN, name : Names \cup {NULL}, contents : Int,
        queue : Seq(1..MAILBOX_SIZE), avail : [1..MAILBOX_SIZE -> BOOLEAN],
        content : [1..MAILBOX_SIZE -> Texts]]

TypedCall(p) ==
    /\ pc[p] \in Opening => arg[p] \in Chosen
    /\ Calling(p) => arg[p] \in Called
    /\ pc[p] \in {"send", "put"} => arg[p].msg \in Mails
BoxTypes ==
    /\ box \in [Boxes -> Box]
    /\ pc \in [Proc -> Labels]
    /\ arg \in [Proc -> Chosen \cup Called \cup {NULL}]
    /\ handle \in [Proc -> [Names -> Boxes \cup {NULL}]]
    /\ sent \in [Boxes -> Seq(Texts)] /\ rcvd \in [Boxes -> Seq(Texts)]
    /\ \A p \in Proc : TypedCall(p)

\* Where a process stands in the kernel follows from where it is in a call:
\* it holds the lock of its box, in one slot and no other, exactly from the
\* return of its mutex_lock_acquire to its release, waits on conditions apart.
Alone(p) == \E i \in Slots : locks[p] = [NoSlots EXCEPT ![i] = LockOf(BoxOf(p))]
Proper(p) ==
    /\ pc[p] # "idle" => Live(p)
    /\ \/ kont[p] = User
       \/ pc[p] \in {"send", "recv"} /\ kont[p] = Acquiring(LockOf(BoxOf(p)))
    /\ \A b \in Boxes : /\ at[p] = On(Empty(b)) => pc[p] = "recv" /\ BoxOf(p) = b
                        /\ at[p] = On(Full(b)) => pc[p] = "send" /\ BoxOf(p) = b
    /\ Holding(p) => Alone(p)
    /\ ~Holding(p) => locks[p] = NoSlots
CallInv == \A p \in Proc : Proper(p)

\* A box is used only after it has been opened, by one opener at a time.
Opened(b) == \E p \in Proc, n \in Names : handle[p][n] = b
Untouched(b) == /\ sent[b] = <<>> /\ rcvd[b] = <<>>
                /\ box[b].queue = <<>> /\ box[b].contents = 0
OpenInv ==
    /\ \A p, q \in Proc : pc[p] \in Opening /\ pc[q] \in Opening => p = q
    /\ \A p \in Proc : pc[p] \in Opening => ~Opened(BoxOf(p))
    /\ \A p \in Proc : Calling(p) => Opened(BoxOf(p))
    /\ \A b \in Boxes :
          /\ Opened(b) => box[b].busy
          /\ box[b].busy => \/ Opened(b)
                            \/ \E p \in Proc : pc[p] \in Opening \ {"take"} /\ BoxOf(p) = b
          /\ ~Opened(b) => Untouched(b)
\* The opener has no handle for the name yet, and has claimed its box.
Opener(p) == pc[p] \in Opening =>
    handle[p][arg[p].name] = NULL /\ (pc[p] = "take" \/ box[BoxOf(p)].busy)
OpenerInv == \A p \in Proc : Opener(p)

\* The state of one box: Fifo position by position, Accounted, and a queue
\* that names no slot twice.
PutIn(b)  == \E p \in Proc : pc[p] = "put_count" /\ BoxOf(p) = b
TakeIn(b) == \E p \in Proc : pc[p] = "take_count" /\ BoxOf(p) = b
InOrder(s, r, q, text) ==
    /\ Len(s) = Len(r) + Len(q)
    /\ \A k \in 1..Len(r) : s[k] = r[k]
    /\ \A k \in 1..Len(q) : s[Len(r) + k] = text[q[k]]
With(f, i, e) == [f EXCEPT ![i] = e]
Filled(f, i) == [f EXCEPT ![i] = FALSE]
Distinct(q) == \A j, k \in 1..Len(q) : q[j] = q[k] => j = k
Marked(q, free) == \A i \in 1..MAILBOX_SIZE : ~free[i] <=> \E k \in 1..Len(q) : q[k] = i

Ordered(b) == InOrder(sent[b], rcvd[b], box[b].queue, box[b].content)
Counted(b) ==
    /\ Len(box[b].queue) <= MAILBOX_SIZE
    /\ PutIn(b) => Len(box[b].queue) = box[b].contents + 1
    /\ TakeIn(b) => Len(box[b].queue) = box[b].contents - 1
    /\ ~PutIn(b) /\ ~TakeIn(b) => Len(box[b].queue) = box[b].contents
Linked(b) ==
    /\ Distinct(box[b].queue)
    /\ Opened(b) => Marked(box[b].queue, box[b].avail)
Looked(b) == \A p \in Proc :
    /\ pc[p] = "take_mail" /\ BoxOf(p) = b => box[b].queue # <<>>
    /\ pc[p] = "put" /\ BoxOf(p) = b => Len(box[b].queue) < MAILBOX_SIZE
Sound(b) == Ordered(b) /\ Counted(b) /\ Linked(b) /\ Looked(b)
BoxInv == \A b \in Boxes : Sound(b)

---------------------------------------------------------------------------
\* Locks and conditions of boxes.
LEMMA BoxObjects ==
    ASSUME NEW b \in Boxes, NEW c \in Boxes
    PROVE  /\ LockOf(b) \in Locks /\ Empty(b) \in Conds /\ Full(b) \in Conds
           /\ Empty(b) # Full(c) /\ LockOf(b) # Empty(c) /\ LockOf(b) # Full(c)
           /\ Empty(b) = Empty(c) => b = c
           /\ Full(b) = Full(c) => b = c
           /\ LockOf(b) = LockOf(c) => b = c
           /\ LockOf(b) # NULL
  BY MailboxAssumption, SyncAssumption DEF LockOf, Empty, Full

\* Every step of the mailbox is a step of the kernel or none.
LEMMA StepOfKernel == ASSUME BoxTypes, MNext PROVE [Next]_vars
  <1>1. PICK p \in Proc :
           \/ Preempt(p) /\ UNCHANGED mvars
           \/ p = Shell /\ (\E n \in Proc : DoSpawn(p, n)) /\ UNCHANGED mvars
           \/ \E n \in Names :
                 \/ OpenSearch(p, n)
                 \/ \E short \in BOOLEAN : Recv(p, n, short) \/ \E m \in Mails : Send(p, n, m, short)
           \/ Within(p)
    BY DEF MNext
  <1>2. \A n \in Names : handle[p][n] # NULL => handle[p][n] \in Boxes
    BY DEF BoxTypes
  <1>3. pc[p] \in Opening \/ Calling(p) => BoxOf(p) \in Boxes
    BY DEF BoxTypes, TypedCall, Chosen, Called, BoxOf
  <1>4. \A n \in Names, short \in BOOLEAN : \A m, label : Begin(p, n, label, m, short) => LockStep(p)
    BY <1>2, BoxObjects DEF Begin, LockStep
  <1>5. ProcStep(p) \/ LockStep(p) \/ CondStep(p) => Next
    BY DEF Next
  <1>6. CASE Preempt(p) \/ \E n \in Proc : DoSpawn(p, n)
    BY <1>5, <1>6 DEF ProcStep
  <1>7. CASE \E n \in Names :
                 \/ OpenSearch(p, n)
                 \/ \E short \in BOOLEAN : Recv(p, n, short) \/ \E m \in Mails : Send(p, n, m, short)
    BY <1>4, <1>5, <1>7 DEF OpenSearch, InUser, Recv, Send
  <1>8. CASE Within(p)
    <2>1. CASE OpenTake(p) \/ OpenMails(p) \/ Put(p) \/ TakeMail(p) \/ Count(p)
      BY <2>1 DEF OpenTake, OpenMails, Put, TakeMail, Count, InUser
    <2>2. CASE OpenInit(p)
      <3>1. BoxOf(p) \in Boxes
        BY <1>3, <2>2 DEF OpenInit, At, Opening
      <3> QED BY <1>5, <2>2, <3>1, BoxObjects DEF OpenInit, CondStep, LockStep
    <2>3. CASE \E b \in Boxes : Resume(p, b)
      BY <1>5, <2>3, BoxObjects DEF Resume, LockStep
    <2>4. CASE SendLook(p) \/ RecvLook(p)
      <3>1. BoxOf(p) \in Boxes
        BY <1>3, <2>4 DEF SendLook, RecvLook, Look, At, Calling
      <3> QED BY <1>5, <2>4, <3>1, BoxObjects DEF SendLook, RecvLook, Look, InUser, LockStep
    <2>5. CASE Wake(p) \/ Finish(p)
      <3>1. BoxOf(p) \in Boxes
        BY <1>3, <2>5 DEF Wake, Finish, At, Calling, Critical
      <3> QED BY <1>5, <2>5, <3>1, BoxObjects DEF Wake, Finish, LockStep, CondStep
    <2> QED BY <1>8, <2>1, <2>2, <2>3, <2>4, <2>5 DEF Within
  <1> QED BY <1>1, <1>6, <1>7, <1>8

\* Hence a step keeps what SyncProofs shows of the locks.
LEMMA LocksHold == ASSUME BoxTypes, LockInv, [MNext]_<<vars, mvars>> PROVE LockInv'
  BY StepOfKernel, LocksKept

\* A process has a slot; its slots hold locks or nothing.
LEMMA ProcSlots == ASSUME TypeOK, NEW p \in Proc
                   PROVE  locks[p] \in [Slots -> Locks \cup {NULL}] /\ Slots # {}
  <1>1. MAX_LOCKS \in Nat /\ MAX_LOCKS > 0
    BY MailboxAssumption, SyncAssumption
  <1>2. 1 \in Slots
    BY <1>1 DEF Slots
  <1> QED BY <1>2 DEF TypeOK

---------------------------------------------------------------------------
\* First chooses a member.
LEMMA FirstIn ==
    ASSUME NEW S \in SUBSET Nat, S # {}
    PROVE  First(S) \in S
  <1> DEFINE R == OpToRel(<, Nat)
  <1>1. IsWellFoundedOn(R, Nat)
    BY NatLessThanWellFounded
  <1> HIDE DEF R
  <1>2. PICK i \in S : \A j \in S : ~(<<j, i>> \in R)
    BY <1>1, WFMin
  <1>3. \A j \in S : <<j, i>> \in R <=> j < i
    BY DEF R, OpToRel
  <1>4. i \in Nat /\ \A j \in S : j \in Nat /\ ~(j < i)
    BY <1>2, <1>3
  <1>5. \A j \in S : i <= j
    BY <1>4
  <1> QED BY <1>5 DEF First

\* What the choices of a box and of a slot return.
LEMMA Found ==
    /\ Boxes \subseteq Nat /\ 1..MAILBOX_SIZE \subseteq Nat
    /\ \A n : Named(n) # {} => First(Named(n)) \in Named(n)
    /\ Idle # {} => First(Idle) \in Idle
  <1>1. Boxes \subseteq Nat /\ 1..MAILBOX_SIZE \subseteq Nat
    BY MailboxAssumption DEF Boxes
  <1>2. Idle \in SUBSET Nat /\ \A n : Named(n) \in SUBSET Nat
    BY <1>1 DEF Idle, Named
  <1> QED BY <1>1, <1>2, FirstIn

\* The slot mbox_send takes is free.
LEMMA FreeSlot ==
    ASSUME NEW free \in SUBSET (1..MAILBOX_SIZE), free # {}
    PROVE  First(free) \in free
  BY Found, FirstIn

\* What a step of p on its box is typed by: its arguments.
LEMMA ArgTypes ==
    ASSUME BoxTypes, NEW p \in Proc
    PROVE  /\ pc[p] \in Opening => BoxOf(p) \in Boxes /\ arg[p].name \in Names /\ arg[p] \in Chosen
           /\ Calling(p) => /\ BoxOf(p) \in Boxes /\ arg[p].name \in Names
                            /\ arg[p].short \in BOOLEAN /\ arg[p] \in Called
           /\ pc[p] \in {"send", "put"} => Text(arg[p].msg) \in Texts
  BY DEF BoxTypes, TypedCall, Chosen, Called, BoxOf, Texts

\* The types of a box, field by field.
LEMMA BoxFields ==
    ASSUME BoxTypes, NEW b \in Boxes
    PROVE  /\ box[b] \in Box /\ box[b].busy \in BOOLEAN /\ box[b].contents \in Int
           /\ box[b].queue \in Seq(1..MAILBOX_SIZE)
           /\ box[b].avail \in [1..MAILBOX_SIZE -> BOOLEAN]
           /\ box[b].content \in [1..MAILBOX_SIZE -> Texts]
           /\ sent[b] \in Seq(Texts) /\ rcvd[b] \in Seq(Texts)
  BY DEF BoxTypes, Box

\* When only p moves, and its label and arguments fit, types are kept.
LEMMA TypesMove ==
    ASSUME BoxTypes, NEW p \in Proc, NEW label \in Labels, Goto(p, label),
           \/ UNCHANGED arg /\ (label \in Opening => pc[p] \in Opening)
                            /\ (label \notin Opening \cup {"idle"} => Calling(p))
                            /\ (label \in {"send", "put"} => pc[p] \in {"send", "put"})
           \/ label = "idle" /\ arg' = [arg EXCEPT ![p] = NULL]
           \/ label \in Opening /\ \E a \in Chosen : arg' = [arg EXCEPT ![p] = a]
           \/ /\ label \in {"send", "recv"}
              /\ \E a \in Called : arg' = [arg EXCEPT ![p] = a] /\ (label = "send" => a.msg \in Mails),
           box' \in [Boxes -> Box],
           handle' \in [Proc -> [Names -> Boxes \cup {NULL}]],
           sent' \in [Boxes -> Seq(Texts)], rcvd' \in [Boxes -> Seq(Texts)]
    PROVE  BoxTypes'
  <1>1. pc' \in [Proc -> Labels] /\ pc'[p] = label /\ \A q \in Proc \ {p} : pc'[q] = pc[q]
    BY DEF BoxTypes, Goto
  <1>2. arg' \in [Proc -> Chosen \cup Called \cup {NULL}] /\ \A q \in Proc \ {p} : arg'[q] = arg[q]
    BY DEF BoxTypes
  <1>3. \A q \in Proc \ {p} : TypedCall(q)'
    BY <1>1, <1>2 DEF BoxTypes, TypedCall, Calling
  <1>4. TypedCall(p) /\ arg \in [Proc -> Chosen \cup Called \cup {NULL}]
    BY DEF BoxTypes
  <1>5. TypedCall(p)'
    <2>1. CASE UNCHANGED arg /\ (label \in Opening => pc[p] \in Opening)
                            /\ (label \notin Opening \cup {"idle"} => Calling(p))
                            /\ (label \in {"send", "put"} => pc[p] \in {"send", "put"})
      BY <1>1, <1>4, <2>1 DEF TypedCall, Calling, Opening, Critical
    <2>2. CASE label = "idle"
      BY <1>1, <2>2 DEF TypedCall, Calling, Opening, Critical
    <2>3. CASE label \in Opening /\ \E a \in Chosen : arg' = [arg EXCEPT ![p] = a]
      BY <1>1, <1>4, <2>3 DEF TypedCall, Calling, Opening, Critical
    <2>4. CASE /\ label \in {"send", "recv"}
               /\ \E a \in Called : arg' = [arg EXCEPT ![p] = a] /\ (label = "send" => a.msg \in Mails)
      <3>1. PICK a \in Called : arg' = [arg EXCEPT ![p] = a] /\ (label = "send" => a.msg \in Mails)
        BY <2>4
      <3>2. arg'[p] = a
        BY <1>4, <3>1
      <3> QED BY <1>1, <3>1, <3>2, <2>4 DEF TypedCall, Calling, Opening, Critical
    <2> QED BY <2>1, <2>2, <2>3, <2>4
  <1> QED BY <1>1, <1>2, <1>3, <1>5 DEF BoxTypes

\* What opening, storing and fetching do to a box.
LEMMA BoxTaken ==
    ASSUME NEW x \in Box, NEW n \in Names
    PROVE  /\ Taken(x, n) \in Box
           /\ Taken(x, n).busy = TRUE /\ Taken(x, n).queue = <<>> /\ Taken(x, n).contents = 0
  <1> DEFINE Q == Seq(1..MAILBOX_SIZE)
             N == Names \cup {NULL}
             q == <<>>
             k == 0
  <1>1. q \in Q /\ k \in Int
    OBVIOUS
  <1>2. x \in [busy : BOOLEAN, name : N, contents : Int, queue : Q,
               avail : [1..MAILBOX_SIZE -> BOOLEAN], content : [1..MAILBOX_SIZE -> Texts]]
    BY DEF Box
  <1> HIDE DEF Q, N, q, k
  <1>3. [x EXCEPT !.contents = k, !.queue = q] \in
            [busy : BOOLEAN, name : N, contents : Int, queue : Q,
               avail : [1..MAILBOX_SIZE -> BOOLEAN], content : [1..MAILBOX_SIZE -> Texts]]
    BY <1>1, <1>2
  <1>4. [x EXCEPT !.contents = 0, !.queue = <<>>] \in Box
    BY <1>3 DEF Box, Q, N, q, k
  <1>5. PICK y \in Box : y = [x EXCEPT !.contents = 0, !.queue = <<>>]
    BY <1>4
  <1>6. [y EXCEPT !.busy = TRUE, !.name = n] \in Box
    BY DEF Box
  <1> QED BY <1>5, <1>6 DEF Taken, Box

\* A box with one more mail is a box, and differs in three fields.
LEMMA BoxStored ==
    ASSUME NEW x \in Box, NEW i \in 1..MAILBOX_SIZE, NEW t \in Texts
    PROVE  /\ Stored(x, i, t) \in Box
           /\ Stored(x, i, t).busy = x.busy /\ Stored(x, i, t).contents = x.contents
           /\ Stored(x, i, t).queue = Append(x.queue, i)
           /\ Stored(x, i, t).avail = Filled(x.avail, i)
           /\ Stored(x, i, t).content = With(x.content, i, t)
  <1> DEFINE Q == Seq(1..MAILBOX_SIZE)
             N == Names \cup {NULL}
             q == Append(x.queue, i)
  <1>1. q \in Q
    BY AppendProperties DEF Box
  <1>2. x \in [busy : BOOLEAN, name : N, contents : Int, queue : Q,
               avail : [1..MAILBOX_SIZE -> BOOLEAN], content : [1..MAILBOX_SIZE -> Texts]]
    BY DEF Box
  <1> HIDE DEF Q, N, q
  <1>3. [x EXCEPT !.content[i] = t, !.avail[i] = FALSE, !.queue = q] \in
            [busy : BOOLEAN, name : N, contents : Int, queue : Q,
               avail : [1..MAILBOX_SIZE -> BOOLEAN], content : [1..MAILBOX_SIZE -> Texts]]
    BY <1>1, <1>2
  <1>4. Stored(x, i, t) \in Box
    BY <1>3 DEF Box, Q, N, q, Stored, Push
  <1> QED BY <1>4 DEF Stored, Push, Box, With, Filled

\* So does a box with one mail less, in two.
LEMMA BoxFetched ==
    ASSUME NEW x \in Box, NEW i \in 1..MAILBOX_SIZE, x.queue # <<>>
    PROVE  /\ Fetched(x, i) \in Box
           /\ Fetched(x, i).busy = x.busy /\ Fetched(x, i).contents = x.contents
           /\ Fetched(x, i).queue = Tail(x.queue)
           /\ Fetched(x, i).avail = [x.avail EXCEPT ![i] = TRUE]
           /\ Fetched(x, i).content = x.content
  <1> DEFINE Q == Seq(1..MAILBOX_SIZE)
             N == Names \cup {NULL}
             q == Tail(x.queue)
  <1>1. q \in Q
    BY HeadTailProperties DEF Box
  <1>2. x \in [busy : BOOLEAN, name : N, contents : Int, queue : Q,
               avail : [1..MAILBOX_SIZE -> BOOLEAN], content : [1..MAILBOX_SIZE -> Texts]]
    BY DEF Box
  <1> HIDE DEF Q, N, q
  <1>3. [x EXCEPT !.avail[i] = TRUE, !.queue = q] \in
            [busy : BOOLEAN, name : N, contents : Int, queue : Q,
               avail : [1..MAILBOX_SIZE -> BOOLEAN], content : [1..MAILBOX_SIZE -> Texts]]
    BY <1>1, <1>2
  <1>4. Fetched(x, i) \in Box
    BY <1>3 DEF Box, Q, N, q, Fetched
  <1> QED BY <1>4 DEF Fetched, Box

\* One step keeps the types.
LEMMA StepTypes == ASSUME BoxTypes, BoxInv, MNext PROVE BoxTypes'
  <1>1. PICK p \in Proc :
           \/ UNCHANGED mvars
           \/ \E n \in Names :
                 \/ OpenSearch(p, n)
                 \/ \E short \in BOOLEAN : Recv(p, n, short) \/ \E m \in Mails : Send(p, n, m, short)
           \/ Within(p)
    BY DEF MNext
  <1> USE DEF Opening, Critical, Labels
  <1>0. /\ box \in [Boxes -> Box] /\ handle \in [Proc -> [Names -> Boxes \cup {NULL}]]
        /\ sent \in [Boxes -> Seq(Texts)] /\ rcvd \in [Boxes -> Seq(Texts)]
    BY DEF BoxTypes
  <1>2. CASE UNCHANGED mvars
    BY <1>2 DEF mvars, BoxTypes, TypedCall, Calling
  <1>3. CASE \E n \in Names : OpenSearch(p, n)
    <2>1. PICK n \in Names : OpenSearch(p, n)
      BY <1>3
    <2>2. CASE Named(n) # {} /\ handle' = [handle EXCEPT ![p][n] = First(Named(n))] /\ UNCHANGED <<pc, arg>>
      <3>1. First(Named(n)) \in Boxes
        BY <2>2, Found DEF Named
      <3> QED BY <2>1, <2>2, <3>1 DEF OpenSearch, BoxTypes, TypedCall, Calling
    <2>3. CASE Idle # {} /\ Goto(p, "take") /\ arg' = [arg EXCEPT ![p] = [name |-> n, box |-> First(Idle)]]
               /\ UNCHANGED handle
      <3>1. [name |-> n, box |-> First(Idle)] \in Chosen
        BY <2>3, Found DEF Idle, Chosen
      <3> QED BY <1>0, <2>1, <2>3, <3>1, TypesMove DEF OpenSearch
    <2> QED BY <2>1, <2>2, <2>3 DEF OpenSearch
  <1>4. CASE \E n \in Names, short \in BOOLEAN :
               Recv(p, n, short) \/ \E m \in Mails : Send(p, n, m, short)
    <2>1. PICK n \in Names, short \in BOOLEAN, label \in {"send", "recv"}, m \in Mails \cup {NULL} :
             Begin(p, n, label, m, short) /\ (label = "send" => m \in Mails)
      BY <1>4 DEF Recv, Send
    <2>2. handle[p][n] \in Boxes
      BY <2>1 DEF Begin, BoxTypes
    <2> DEFINE a == [name |-> n, box |-> handle[p][n], msg |-> m, short |-> short]
    <2>3. a \in Called /\ (label = "send" => a.msg \in Mails)
      BY <2>1, <2>2 DEF Called
    <2>4. arg' = [arg EXCEPT ![p] = a] /\ Goto(p, label) /\ UNCHANGED <<box, handle, sent, rcvd>>
      BY <2>1 DEF Begin
    <2> HIDE DEF a
    <2> QED BY <1>0, <2>1, <2>3, <2>4, TypesMove
  <1>5. CASE OpenTake(p)
    <2>1. BoxOf(p) \in Boxes /\ arg[p].name \in Names
      BY <1>5, ArgTypes DEF OpenTake, At
    <2>2. Taken(box[BoxOf(p)], arg[p].name) \in Box
      BY <2>1, BoxFields, BoxTaken
    <2>3. box' \in [Boxes -> Box]
      BY <1>0, <1>5, <2>1, <2>2 DEF OpenTake
    <2> QED BY <1>0, <1>5, <2>3, TypesMove DEF OpenTake, At
  <1>6. CASE OpenInit(p)
    BY <1>0, <1>6, TypesMove DEF OpenInit, At
  <1>7. CASE OpenMails(p)
    <2>1. BoxOf(p) \in Boxes /\ arg[p].name \in Names
      BY <1>7, ArgTypes DEF OpenMails, At
    <2>2. [box[BoxOf(p)] EXCEPT !.avail = [i \in 1..MAILBOX_SIZE |-> TRUE]] \in Box
      BY <2>1, BoxFields DEF Box
    <2>3. box' \in [Boxes -> Box]
      BY <1>0, <1>7, <2>1, <2>2 DEF OpenMails
    <2>4. handle' \in [Proc -> [Names -> Boxes \cup {NULL}]]
      BY <1>0, <1>7, <2>1 DEF OpenMails
    <2> QED BY <1>0, <1>7, <2>3, <2>4, TypesMove DEF OpenMails, Returns
  <1>8. CASE \E b \in Boxes : Resume(p, b)
    BY <1>2, <1>8 DEF Resume
  <1>9. CASE SendLook(p) \/ RecvLook(p)
    <2>1. PICK label \in {"send", "recv"}, wait \in BOOLEAN, c \in {Empty(BoxOf(p)), Full(BoxOf(p))} :
             Look(p, label, wait, IF label = "send" THEN "put" ELSE "take_mail", c)
      BY <1>9 DEF SendLook, RecvLook
    <2>2. CASE UNCHANGED pc
      BY <1>2, <2>1, <2>2 DEF Look, mvars
    <2>3. CASE Goto(p, IF label = "send" THEN "put" ELSE "take_mail")
      BY <1>0, <2>1, <2>3, TypesMove DEF Look, At, Calling
    <2> QED BY <2>1, <2>2, <2>3 DEF Look
  <1>10. CASE Put(p)
    <2>1. BoxOf(p) \in Boxes /\ Text(arg[p].msg) \in Texts
      BY <1>10, ArgTypes DEF Put, At, Calling
    <2> DEFINE b == BoxOf(p)
               free == {i \in 1..MAILBOX_SIZE : box[b].avail[i]}
               T == Text(arg[p].msg)
    <2>2. CASE arg[p].short /\ free # {}
      <3>1. First(free) \in 1..MAILBOX_SIZE
        BY <2>2, FreeSlot
      <3>2. PICK i \in 1..MAILBOX_SIZE : i = First(free)
        BY <3>1
      <3>3. PICK t \in Texts : t = T
        BY <2>1
      <3>4. b \in Boxes /\ box[b] \in Box /\ sent[b] \in Seq(Texts)
        BY <2>1, BoxFields
      <3>5. Stored(box[b], i, t) \in Box
        BY <3>4, BoxStored
      <3>6. box' = [box EXCEPT ![b] = Stored(@, i, t)] /\ sent' = [sent EXCEPT ![b] = Append(@, t)]
        BY <1>10, <2>2, <3>2, <3>3 DEF Put
      <3> HIDE DEF b, T, free
      <3>7. box' \in [Boxes -> Box]
        BY <1>0, <3>4, <3>6, <3>5
      <3>8. Append(sent[b], t) \in Seq(Texts)
        BY <3>4, AppendProperties
      <3>9. sent' \in [Boxes -> Seq(Texts)]
        BY <1>0, <3>4, <3>6, <3>8
      <3> QED BY <1>0, <1>10, <3>7, <3>9, TypesMove DEF Put, At, Calling
    <2>3. CASE ~(arg[p].short /\ free # {})
      BY <1>0, <1>10, <2>3, TypesMove DEF Put, At, Calling
    <2> QED BY <2>2, <2>3
  <1>11. CASE TakeMail(p)
    <2>1. BoxOf(p) \in Boxes
      BY <1>11, ArgTypes DEF TakeMail, At, Calling
    <2> DEFINE b == BoxOf(p)
    <2>2. CASE arg[p].short
      <3>1. box[b].queue # <<>>
        BY <1>11, <2>1 DEF BoxInv, Sound, Looked, TakeMail, At
      <3>2. Head(box[b].queue) \in 1..MAILBOX_SIZE /\ Tail(box[b].queue) \in Seq(1..MAILBOX_SIZE)
        BY <2>1, <3>1, BoxFields, HeadTailProperties
      <3>3. PICK i \in 1..MAILBOX_SIZE : i = Head(box[b].queue)
        BY <3>2
      <3>4. b \in Boxes /\ box[b] \in Box /\ rcvd[b] \in Seq(Texts) /\ box[b].content[i] \in Texts
        BY <2>1, BoxFields
      <3>5. Fetched(box[b], i) \in Box
        BY <3>1, <3>4, BoxFetched
      <3>6. box' = [box EXCEPT ![b] = Fetched(@, i)] /\ rcvd' = [rcvd EXCEPT ![b] = Append(@, box[b].content[i])]
        BY <1>11, <2>2, <3>3 DEF TakeMail
      <3> HIDE DEF b
      <3>7. box' \in [Boxes -> Box]
        BY <1>0, <3>4, <3>6, <3>5
      <3>8. Append(rcvd[b], box[b].content[i]) \in Seq(Texts)
        BY <3>4, AppendProperties
      <3>9. rcvd' \in [Boxes -> Seq(Texts)]
        BY <1>0, <3>4, <3>6, <3>8
      <3> QED BY <1>0, <1>11, <3>7, <3>9, TypesMove DEF TakeMail, At, Calling
    <2>3. CASE ~arg[p].short
      BY <1>0, <1>11, <2>3, TypesMove DEF TakeMail, At, Calling
    <2> QED BY <2>2, <2>3
  <1>12. CASE Count(p)
    <2>1. BoxOf(p) \in Boxes
      BY <1>12, ArgTypes DEF Count, At, Calling
    <2>2. \A d \in {-1, 1} : [box[BoxOf(p)] EXCEPT !.contents = @ + d] \in Box
      BY <2>1, BoxFields DEF Box
    <2>3. box' \in [Boxes -> Box]
      BY <1>0, <1>12, <2>1, <2>2 DEF Count
    <2> QED BY <1>0, <1>12, <2>3, TypesMove DEF Count, At, Calling
  <1>13. CASE Wake(p)
    BY <1>0, <1>13, TypesMove DEF Wake, At, Calling
  <1>14. CASE Finish(p)
    BY <1>0, <1>14, TypesMove DEF Finish, Returns
  <1> QED BY <1>1, <1>2, <1>3, <1>4, <1>5, <1>6, <1>7, <1>8, <1>9, <1>10, <1>11, <1>12, <1>13, <1>14
          DEF Within

---------------------------------------------------------------------------
\* What the calls of the kernel do to the caller p, and to the others: at
\* most they wake up.
Spared(p) == \A q \in Proc \ {p} :
    /\ kont'[q] = kont[q] /\ locks'[q] = locks[q]
    /\ at'[q] = at[q] \/ (at'[q] = Ready /\ at[q] # Nowhere)

\* A timer interrupt.
LEMMA PreemptEffect ==
    ASSUME TypeOK, RunningReady, NEW p \in Proc, Preempt(p)
    PROVE  Spared(p) /\ at'[p] = Ready /\ UNCHANGED <<kont, locks>>
  <1>1. at \in [Proc -> Places] /\ Switch(at) /\ UNCHANGED <<kont, locks>> /\ at[p] = Ready
    BY DEF Preempt, Running, TypeOK, RunningReady
  <1>2. \A q \in Proc : at'[q] = at[q] \/ (at[q] = Sleep /\ at'[q] = Ready)
    BY <1>1, SwitchFacts
  <1> QED BY <1>1, <1>2, PlacesDiffer DEF Spared

\* mutex_lock_acquire: the caller waits for the lock or has it in one slot.
LEMMA AcquireEffect ==
    ASSUME TypeOK, RunningReady, NEW p \in Proc, NEW b \in Boxes,
           Acquire(p, LockOf(b)), locks[p] = NoSlots
    PROVE  /\ Spared(p)
           /\ \/ /\ at'[p] = On(LockOf(b)) /\ kont'[p] = Acquiring(LockOf(b))
                 /\ locks'[p] = NoSlots
              \/ /\ at'[p] = Ready /\ kont'[p] = User
                 /\ \E i \in Slots : locks'[p] = [NoSlots EXCEPT ![i] = LockOf(b)]
  <1> DEFINE l == LockOf(b)
  <1>1. l \in Locks /\ l \in Objects
    BY BoxObjects DEF Objects
  <1>2. at[p] = Ready /\ running = p
    BY DEF Acquire, RunningReady
  <1>3. locks \in [Proc -> [Slots -> Locks \cup {NULL}]] /\ kont \in [Proc -> Konts]
    BY DEF TypeOK
  <1>4. NULL \in {locks[p][i] : i \in Slots}
    BY ProcSlots DEF NoSlots
  <1>5. CASE /\ Switch([at EXCEPT ![p] = On(l)])
             /\ kont' = [kont EXCEPT ![p] = Acquiring(l)] /\ UNCHANGED locks
    <2>1. On(l) \in Places \ {Sleep}
      BY <1>1, WaitOnPlaces, PlacesDiffer
    <2>2. /\ at'[p] = On(l)
          /\ \A q \in Proc \ {p} : at'[q] = at[q] \/ (at[q] = Sleep /\ at'[q] = Ready)
      BY <1>5, <2>1, BlockFacts
    <2> QED BY <1>3, <1>5, <2>2, PlacesDiffer DEF Spared
  <1>6. CASE /\ \E i \in Slots : locks[p][i] = NULL /\ locks' = [locks EXCEPT ![p][i] = l]
             /\ kont' = [kont EXCEPT ![p] = User] /\ UNCHANGED at
    <2>1. PICK i \in Slots : locks' = [locks EXCEPT ![p][i] = l]
      BY <1>6
    <2>2. locks'[p] = [NoSlots EXCEPT ![i] = l]
      BY <1>3, <2>1
    <2> QED BY <1>2, <1>3, <1>6, <2>1, <2>2 DEF Spared
  <1> QED BY <1>4, <1>5, <1>6 DEF Acquire

\* An unlock leaves a caller with one lock with none.
LEMMA UnlockEffect ==
    ASSUME TypeOK, NEW p \in Proc, NEW b \in Boxes, Unlock(p, LockOf(b)),
           \E i \in Slots : locks[p] = [NoSlots EXCEPT ![i] = LockOf(b)]
    PROVE  locks'[p] = NoSlots /\ \A q \in Proc \ {p} : locks'[q] = locks[q]
  <1> DEFINE l == LockOf(b)
  <1>1. locks \in [Proc -> [Slots -> Locks \cup {NULL}]]
    BY DEF TypeOK
  <1>2. PICK i \in Slots : locks[p] = [NoSlots EXCEPT ![i] = l]
    OBVIOUS
  <1>3. PICK j \in Slots : locks[p][j] = l /\ locks' = [locks EXCEPT ![p][j] = NULL]
    BY DEF Unlock
  <1>4. i = j
    BY <1>2, <1>3, BoxObjects DEF NoSlots
  <1>5. locks'[p] = [locks[p] EXCEPT ![i] = NULL]
    BY <1>1, <1>3, <1>4
  <1>6. locks'[p] = NoSlots
    BY <1>2, <1>5 DEF NoSlots
  <1> QED BY <1>1, <1>3, <1>6

\* do_unblock_all leaves nobody on the queue.
LEMMA WokenEffect ==
    ASSUME TypeOK, NEW o
    PROVE  /\ Woken({On(o)}) \in [Proc -> Places]
           /\ \A q \in Proc : Woken({On(o)})[q] = at[q] \/ (Woken({On(o)})[q] = Ready /\ at[q] # Nowhere)
           /\ \A q \in Proc : Woken({On(o)})[q] # On(o)
  BY PlacesDiffer, WaitOnPlaces DEF Woken, TypeOK

\* mutex_lock_release.
LEMMA ReleaseEffect ==
    ASSUME TypeOK, RunningReady, NEW p \in Proc, NEW b \in Boxes, DoMutexLockRelease(p, LockOf(b)),
           \E i \in Slots : locks[p] = [NoSlots EXCEPT ![i] = LockOf(b)]
    PROVE  Spared(p) /\ at'[p] = Ready /\ kont' = kont /\ locks'[p] = NoSlots
  <1>1. locks'[p] = NoSlots /\ \A q \in Proc \ {p} : locks'[q] = locks[q]
    BY UnlockEffect DEF DoMutexLockRelease
  <1>2. at[p] = Ready /\ at' = Woken({On(LockOf(b))}) /\ kont' = kont
    BY DEF DoMutexLockRelease, Running, RunningReady
  <1>3. \A q \in Proc : at'[q] = at[q] \/ (at'[q] = Ready /\ at[q] # Nowhere)
    BY <1>2, WokenEffect
  <1> QED BY <1>1, <1>2, <1>3 DEF Spared

\* condition_wait: the lock is given back and the caller waits.
LEMMA CondWaitEffect ==
    ASSUME TypeOK, RunningReady, NEW p \in Proc, NEW b \in Boxes, NEW c \in Conds,
           DoConditionWait(p, LockOf(b), c),
           \E i \in Slots : locks[p] = [NoSlots EXCEPT ![i] = LockOf(b)]
    PROVE  /\ Spared(p) /\ at'[p] = On(c) /\ kont'[p] = Acquiring(LockOf(b))
           /\ locks'[p] = NoSlots
  <1> DEFINE l == LockOf(b)
             place == [Woken({On(l)}) EXCEPT ![p] = On(c)]
  <1>1. locks'[p] = NoSlots /\ \A q \in Proc \ {p} : locks'[q] = locks[q]
    BY UnlockEffect DEF DoConditionWait
  <1>2. kont' = [kont EXCEPT ![p] = Acquiring(l)] /\ kont \in [Proc -> Konts] /\ Switch(place)
    BY DEF DoConditionWait, TypeOK
  <1>3. On(c) \in Places /\ On(c) # Sleep
    BY WaitOnPlaces, PlacesDiffer DEF Objects
  <1>4. /\ place \in [Proc -> Places] /\ place[p] = On(c)
        /\ \A q \in Proc \ {p} : place[q] = at[q] \/ (place[q] = Ready /\ at[q] # Nowhere)
    BY <1>3, WokenEffect
  <1> HIDE DEF place
  <1>5. \A q \in Proc : at'[q] = place[q] \/ (place[q] = Sleep /\ at'[q] = Ready)
    BY <1>2, <1>4, SwitchFacts
  <1> QED BY <1>1, <1>2, <1>3, <1>4, <1>5, PlacesDiffer DEF Spared

\* condition_broadcast: nobody waits on the condition any more.
LEMMA BroadcastEffect ==
    ASSUME TypeOK, RunningReady, NEW p \in Proc, NEW c \in Conds, DoConditionBroadcast(p, c)
    PROVE  /\ Spared(p) /\ at'[p] = Ready /\ UNCHANGED <<kont, locks>>
           /\ \A q \in Proc : at'[q] # On(c)
  <1>1. at[p] = Ready /\ at' = Woken({On(c)}) /\ UNCHANGED <<kont, locks>>
    BY DEF DoConditionBroadcast, Running, RunningReady
  <1>2. \A q \in Proc : at'[q] # On(c) /\ (at'[q] = at[q] \/ (at'[q] = Ready /\ at[q] # Nowhere))
    BY <1>1, WokenEffect
  <1> QED BY <1>1, <1>2 DEF Spared

---------------------------------------------------------------------------
\* A process that others leave alone stands where it stood.
LEMMA ProperKept ==
    ASSUME NEW q \in Proc, Proper(q),
           pc'[q] = pc[q], arg'[q] = arg[q], kont'[q] = kont[q], locks'[q] = locks[q],
           at'[q] = at[q] \/ (at'[q] = Ready /\ at[q] # Nowhere)
    PROVE  Proper(q)'
  <1>1. (Holding(q) <=> Holding(q)') /\ BoxOf(q)' = BoxOf(q)
    BY DEF Holding, BoxOf
  <1>2. Alone(q) <=> Alone(q)'
    BY <1>1 DEF Alone
  <1>3. \A b \in Boxes : /\ at'[q] = On(Empty(b)) => at[q] = On(Empty(b))
                         /\ at'[q] = On(Full(b)) => at[q] = On(Full(b))
    BY PlacesDiffer
  <1>4. Live(q) => Live(q)'
    BY PlacesDiffer DEF Live
  <1> QED BY <1>1, <1>2, <1>3, <1>4 DEF Proper

\* Only p's label and arguments change.
OnlyMoves(p) == \A q \in Proc \ {p} : pc'[q] = pc[q] /\ arg'[q] = arg[q]

\* When one process moves, only its own part of CallInv is at stake.
LEMMA CallsMove ==
    ASSUME CallInv, NEW p \in Proc, Spared(p), OnlyMoves(p), Proper(p)'
    PROVE  CallInv'
  <1>1. \A q \in Proc \ {p} : Proper(q)'
    BY ProperKept DEF CallInv, Spared, OnlyMoves
  <1> QED BY <1>1 DEF CallInv

\* p goes on in user mode, where it was or elsewhere.
LEMMA WalksOn ==
    ASSUME CallInv, NEW p \in Proc, at[p] = Ready, kont[p] = User,
           at'[p] = Ready, kont'[p] = User, locks'[p] = locks[p],
           pc'[p] \notin {"idle"} => arg'[p] = arg[p] \/ ~Holding(p)',
           Holding(p)' <=> Holding(p)
    PROVE  Proper(p)'
  <1>1. Live(p)' /\ \A b \in Boxes : at'[p] # On(Empty(b)) /\ at'[p] # On(Full(b))
    BY PlacesDiffer DEF Live
  <1>2. Alone(p) /\ arg'[p] = arg[p] => Alone(p)'
    BY DEF Alone, BoxOf
  <1>3. Holding(p)' => pc'[p] # "idle"
    BY DEF Holding, Critical
  <1> QED BY <1>1, <1>2, <1>3 DEF Proper, CallInv

\* CallInv is kept, action by action.
LEMMA StepCalls == ASSUME BoxTypes, LockInv, CallInv, MNext PROVE CallInv'
  <1>0. TypeOK /\ RunningReady /\ \A p \in Proc : Running(p) => at[p] = Ready /\ kont[p] = User
    BY DEF LockInv, RunningReady, Running
  <1>1. PICK p \in Proc :
           \/ Preempt(p) /\ UNCHANGED mvars
           \/ p = Shell /\ (\E n \in Proc : DoSpawn(p, n)) /\ UNCHANGED mvars
           \/ \E n \in Names :
                 \/ OpenSearch(p, n)
                 \/ \E short \in BOOLEAN : Recv(p, n, short) \/ \E m \in Mails : Send(p, n, m, short)
           \/ Within(p)
    BY DEF MNext
  <1>2. Proper(p) /\ pc \in [Proc -> Labels] /\ arg \in [Proc -> Chosen \cup Called \cup {NULL}]
    BY DEF CallInv, BoxTypes
  <1>3. ASSUME NEW label, Goto(p, label) PROVE pc'[p] = label /\ \A q \in Proc \ {p} : pc'[q] = pc[q]
    BY <1>2, <1>3 DEF Goto
  <1>4. UNCHANGED vars => Spared(p) /\ UNCHANGED <<at, kont, locks>>
    BY DEF vars, Spared
  <1>5. CASE Preempt(p) /\ UNCHANGED mvars
    <2>1. Spared(p) /\ at'[p] = Ready /\ UNCHANGED <<kont, locks>> /\ kont[p] = User /\ at[p] = Ready
      BY <1>0, <1>5, PreemptEffect DEF Preempt
    <2>2. Proper(p)'
      BY <1>5, <2>1, WalksOn DEF mvars, Holding
    <2> QED BY <1>5, <2>1, <2>2, CallsMove DEF OnlyMoves, mvars
  <1>6. CASE (\E n \in Proc : DoSpawn(p, n)) /\ UNCHANGED mvars
    <2>1. PICK n \in Proc : DoSpawn(p, n)
      BY <1>6
    <2>2. /\ at[n] = Nowhere /\ at' = [at EXCEPT ![n] = Ready] /\ kont' = [kont EXCEPT ![n] = User]
          /\ locks' = [locks EXCEPT ![n] = NoSlots]
      BY <2>1 DEF DoSpawn, Live
    <2>3. at \in [Proc -> Places] /\ kont \in [Proc -> Konts] /\ locks \in [Proc -> [Slots -> Locks \cup {NULL}]]
      BY <1>0 DEF TypeOK
    <2>4. pc[n] = "idle"
      BY <2>2 DEF CallInv, Proper, Live
    <2>5. Proper(n)'
      BY <1>6, <2>2, <2>3, <2>4, PlacesDiffer DEF Proper, Live, Holding, Critical, mvars
    <2>6. Spared(n) /\ OnlyMoves(n)
      BY <1>6, <2>2, <2>3 DEF Spared, OnlyMoves, mvars
    <2> QED BY <2>5, <2>6, CallsMove
  <1>7. CASE \E n \in Names : OpenSearch(p, n)
    <2>1. PICK n \in Names : OpenSearch(p, n)
      BY <1>7
    <2>2. Running(p) /\ pc[p] = "idle" /\ UNCHANGED vars
      BY <2>1 DEF OpenSearch, At, InUser
    <2>3. OnlyMoves(p) /\ pc'[p] \in {"idle", "take"}
      BY <1>2, <2>1, <2>2 DEF OpenSearch, OnlyMoves, Goto
    <2>4. ~Holding(p) /\ ~Holding(p)'
      BY <2>2, <2>3 DEF Holding, Critical
    <2> QED BY <1>0, <1>4, <2>2, <2>3, <2>4, WalksOn, CallsMove
  <1>8. CASE \E n \in Names, short \in BOOLEAN :
               Recv(p, n, short) \/ \E m \in Mails : Send(p, n, m, short)
    <2>1. PICK n \in Names, short \in BOOLEAN, label \in {"send", "recv"}, m \in Mails \cup {NULL} :
             Begin(p, n, label, m, short)
      BY <1>8 DEF Recv, Send
    <2>2. handle[p][n] \in Boxes
      BY <2>1 DEF Begin, BoxTypes
    <2>3. PICK b \in Boxes : b = handle[p][n]
      BY <2>2
    <2>4. /\ pc[p] = "idle" /\ Running(p) /\ Acquire(p, LockOf(b)) /\ Goto(p, label)
          /\ arg' = [arg EXCEPT ![p] = [name |-> n, box |-> b, msg |-> m, short |-> short]]
      BY <2>1, <2>3 DEF Begin, At
    <2>5. locks[p] = NoSlots
      BY <1>2, <2>4 DEF Proper, Holding, Critical
    <2>6. /\ Spared(p)
          /\ \/ /\ at'[p] = On(LockOf(b)) /\ kont'[p] = Acquiring(LockOf(b))
                /\ locks'[p] = NoSlots
             \/ /\ at'[p] = Ready /\ kont'[p] = User
                /\ \E i \in Slots : locks'[p] = [NoSlots EXCEPT ![i] = LockOf(b)]
      BY <1>0, <2>4, <2>5, AcquireEffect
    <2>7. OnlyMoves(p) /\ pc'[p] = label /\ BoxOf(p)' = b
      BY <1>2, <1>3, <2>4 DEF OnlyMoves, BoxOf
    <2>8. Proper(p)'
      BY <2>1, <2>6, <2>7, PlacesDiffer, KontsDiffer, BoxObjects
         DEF Proper, Live, Holding, Alone, Critical
    <2> QED BY <2>6, <2>7, <2>8, CallsMove
  <1>9. CASE OpenTake(p) \/ OpenMails(p)
    <2>1. Running(p) /\ UNCHANGED vars /\ ~Holding(p)
      BY <1>9 DEF OpenTake, OpenMails, At, InUser, Holding, Critical
    <2>2. OnlyMoves(p) /\ (pc'[p] = "idle" \/ (pc'[p] = "init_empty" /\ arg'[p] = arg[p]))
      BY <1>2, <1>9 DEF OpenTake, OpenMails, Returns, OnlyMoves, Goto
    <2>3. ~Holding(p)'
      BY <2>2 DEF Holding, Critical
    <2> QED BY <1>0, <1>4, <2>1, <2>2, <2>3, WalksOn, CallsMove
  <1>10. CASE OpenInit(p)
    <2>1. /\ Running(p) /\ UNCHANGED <<at, kont, locks, arg>> /\ ~Holding(p)
      BY <1>10 DEF OpenInit, At, DoConditionInit, DoMutexLockInit, Holding, Critical
    <2>2. OnlyMoves(p) /\ pc'[p] \in {"init_full", "init_lock", "init_mails"}
      BY <1>2, <1>10 DEF OpenInit, OnlyMoves, Goto
    <2>3. ~Holding(p)' /\ Spared(p)
      BY <2>1, <2>2 DEF Holding, Critical, Spared
    <2> QED BY <1>0, <2>1, <2>2, <2>3, WalksOn, CallsMove
  <1>11. CASE \E b \in Boxes : Resume(p, b)
    <2>1. PICK b \in Boxes : Resume(p, b)
      BY <1>11
    <2>2. kont[p] = Acquiring(LockOf(b)) /\ Acquire(p, LockOf(b)) /\ UNCHANGED <<pc, arg>>
      BY <2>1 DEF Resume, mvars
    <2>3. pc[p] \in {"send", "recv"} /\ Acquiring(LockOf(b)) = Acquiring(LockOf(BoxOf(p))) /\ ~Holding(p)
      BY <1>2, <2>2, KontsDiffer DEF Proper, Holding, Critical
    <2>4. LockOf(BoxOf(p)) = LockOf(b) /\ locks[p] = NoSlots
      BY <1>2, <2>3 DEF Acquiring, Proper
    <2>5. /\ Spared(p)
          /\ \/ /\ at'[p] = On(LockOf(b)) /\ kont'[p] = Acquiring(LockOf(b))
                /\ locks'[p] = NoSlots
             \/ /\ at'[p] = Ready /\ kont'[p] = User
                /\ \E i \in Slots : locks'[p] = [NoSlots EXCEPT ![i] = LockOf(b)]
      BY <1>0, <2>2, <2>4, AcquireEffect
    <2>6. OnlyMoves(p) /\ pc'[p] \in {"send", "recv"} /\ LockOf(BoxOf(p)') = LockOf(b)
      BY <2>2, <2>3, <2>4 DEF OnlyMoves, BoxOf
    <2>7. Proper(p)'
      BY <2>5, <2>6, PlacesDiffer, KontsDiffer, BoxObjects DEF Proper, Live, Holding, Alone, Critical
    <2> QED BY <2>5, <2>6, <2>7, CallsMove
  <1>12. CASE SendLook(p) \/ RecvLook(p)
    <2>1. Calling(p)
      BY <1>12 DEF SendLook, RecvLook, Look, At, Calling
    <2>2. PICK b \in Boxes : b = BoxOf(p)
      BY <2>1, ArgTypes
    <2>3. PICK label \in {"send", "recv"} :
             /\ pc[p] = label /\ Running(p) /\ arg' = arg
             /\ \/ /\ UNCHANGED pc
                   /\ DoConditionWait(p, LockOf(b), IF label = "send" THEN Full(b) ELSE Empty(b))
                \/ UNCHANGED vars /\ Goto(p, IF label = "send" THEN "put" ELSE "take_mail")
      BY <1>12, <2>2 DEF SendLook, RecvLook, Look, At, InUser
    <2>4. Holding(p) /\ Alone(p)
      BY <1>0, <1>2, <2>3 DEF Holding, Proper
    <2>5. CASE /\ UNCHANGED pc
               /\ DoConditionWait(p, LockOf(b), IF label = "send" THEN Full(b) ELSE Empty(b))
      <3>1. PICK c \in Conds : c = IF label = "send" THEN Full(b) ELSE Empty(b)
        BY BoxObjects
      <3>2. \E i \in Slots : locks[p] = [NoSlots EXCEPT ![i] = LockOf(b)]
        BY <2>2, <2>4 DEF Alone
      <3>3. /\ Spared(p) /\ at'[p] = On(c) /\ kont'[p] = Acquiring(LockOf(b))
            /\ locks'[p] = NoSlots
        BY <1>0, <2>5, <3>1, <3>2, CondWaitEffect
      <3>4. BoxOf(p)' = b /\ pc'[p] = label /\ OnlyMoves(p)
        BY <2>2, <2>3, <2>5 DEF BoxOf, OnlyMoves
      <3>5. \A d \in Boxes : /\ at'[p] = On(Empty(d)) => label = "recv" /\ d = b
                             /\ at'[p] = On(Full(d)) => label = "send" /\ d = b
        BY <3>1, <3>3, PlacesDiffer, BoxObjects
      <3>6. Proper(p)'
        BY <3>3, <3>4, <3>5, PlacesDiffer, KontsDiffer DEF Proper, Live, Holding, Critical
      <3> QED BY <3>3, <3>4, <3>6, CallsMove
    <2>6. CASE UNCHANGED vars /\ Goto(p, IF label = "send" THEN "put" ELSE "take_mail")
      <3>1. pc'[p] \in {"put", "take_mail"} /\ OnlyMoves(p)
        BY <1>2, <2>3, <2>6 DEF OnlyMoves, Goto
      <3>2. Holding(p)'
        BY <3>1 DEF Holding, Critical
      <3> QED BY <1>0, <1>4, <2>3, <2>4, <2>6, <3>1, <3>2, WalksOn, CallsMove
    <2> QED BY <2>3, <2>5, <2>6
  <1>13. CASE Put(p) \/ TakeMail(p) \/ Count(p)
    <2>1. Running(p) /\ UNCHANGED vars /\ Holding(p) /\ arg' = arg
      BY <1>13 DEF Put, TakeMail, Count, At, InUser, Holding, Critical
    <2>2. OnlyMoves(p) /\ pc'[p] \in {"put_count", "send_wake", "take_count", "recv_wake"}
      BY <1>2, <1>13, <2>1 DEF Put, TakeMail, Count, OnlyMoves, Goto
    <2>3. Holding(p)'
      BY <2>2 DEF Holding, Critical
    <2> QED BY <1>0, <1>4, <2>1, <2>2, <2>3, WalksOn, CallsMove
  <1>14. CASE Wake(p)
    <2>1. Running(p) /\ Holding(p) /\ arg' = arg /\ Calling(p)
      BY <1>14 DEF Wake, At, Holding, Critical, Calling
    <2>2. PICK c \in Conds : DoConditionBroadcast(p, c)
      BY <1>14, <2>1, ArgTypes, BoxObjects DEF Wake
    <2>3. OnlyMoves(p) /\ pc'[p] = "unlock"
      BY <1>2, <1>14, <2>1 DEF Wake, OnlyMoves, Goto
    <2>4. Holding(p)'
      BY <2>3 DEF Holding, Critical
    <2>5. Spared(p) /\ at'[p] = Ready /\ UNCHANGED <<kont, locks>>
      BY <1>0, <2>2, BroadcastEffect
    <2> QED BY <1>0, <2>1, <2>3, <2>4, <2>5, WalksOn, CallsMove
  <1>15. CASE Finish(p)
    <2>1. Running(p) /\ Holding(p) /\ Calling(p) /\ Alone(p)
      BY <1>2, <1>15 DEF Finish, At, Holding, Critical, Calling, Proper
    <2>2. PICK b \in Boxes : b = BoxOf(p)
      BY <2>1, ArgTypes
    <2>3. DoMutexLockRelease(p, LockOf(b)) /\ \E i \in Slots : locks[p] = [NoSlots EXCEPT ![i] = LockOf(b)]
      BY <1>15, <2>1, <2>2 DEF Finish, Alone
    <2>4. Spared(p) /\ at'[p] = Ready /\ kont' = kont /\ locks'[p] = NoSlots
      BY <1>0, <2>3, ReleaseEffect
    <2>5. OnlyMoves(p) /\ pc'[p] = "idle"
      BY <1>2, <1>15 DEF Finish, Returns, OnlyMoves, Goto
    <2>6. Proper(p)'
      BY <1>0, <2>1, <2>4, <2>5, PlacesDiffer DEF Proper, Live, Holding, Critical
    <2> QED BY <2>4, <2>5, <2>6, CallsMove
  <1> QED BY <1>1, <1>5, <1>6, <1>7, <1>8, <1>9, <1>10, <1>11, <1>12, <1>13, <1>14, <1>15 DEF Within

---------------------------------------------------------------------------
\* p works on an opened box and not on the others.
OnlyBox(p) == \A b \in Boxes :
    /\ box'[b].busy = box[b].busy
    /\ b # BoxOf(p) => box'[b] = box[b] /\ sent'[b] = sent[b] /\ rcvd'[b] = rcvd[b]

\* What boxes are opened is not the matter of a call that uses one.
LEMMA OpenCall ==
    ASSUME BoxTypes, OpenInv, NEW p \in Proc, OnlyMoves(p), handle' = handle, OnlyBox(p),
           pc[p] \notin Opening, pc'[p] \notin Opening,
           Calling(p)' => Opened(BoxOf(p)'),
           Calling(p) \/ UNCHANGED <<box, sent, rcvd>>
    PROVE  OpenInv'
  <1>1. \A b : Opened(b)' <=> Opened(b)
    BY DEF Opened
  <1>2. \A q \in Proc : /\ pc'[q] \in Opening <=> pc[q] \in Opening
                        /\ pc[q] \in Opening => pc'[q] = pc[q] /\ BoxOf(q)' = BoxOf(q)
    BY DEF OnlyMoves, BoxOf
  <1>3. \A q \in Proc : Calling(q)' => Opened(BoxOf(q)')
    BY DEF OnlyMoves, BoxOf, Calling, OpenInv
  <1>4. \A q \in Proc : pc'[q] \in Opening => ~Opened(BoxOf(q)')
    BY <1>2 DEF OpenInv
  <1>5. \A b \in Boxes : ~Opened(b) => Untouched(b)'
    <2> SUFFICES ASSUME NEW b \in Boxes, ~Opened(b) PROVE Untouched(b)'
      OBVIOUS
    <2>1. Untouched(b)
      BY DEF OpenInv
    <2>2. box'[b] = box[b] /\ sent'[b] = sent[b] /\ rcvd'[b] = rcvd[b]
      BY DEF OnlyBox, OpenInv
    <2> QED BY <2>1, <2>2 DEF Untouched
  <1>6. \A b \in Boxes : box'[b].busy => \/ Opened(b)
                            \/ \E q \in Proc : pc'[q] \in Opening \ {"take"} /\ BoxOf(q)' = b
    BY <1>2 DEF OpenInv, OnlyBox
  <1>7. \A b \in Boxes : Opened(b) => box'[b].busy
    BY DEF OpenInv, OnlyBox
  <1>8. \A q, r \in Proc : pc'[q] \in Opening /\ pc'[r] \in Opening => q = r
    BY <1>2 DEF OpenInv
  <1>9. \A b \in Boxes : (Opened(b)' => box[b]'.busy) /\ (~Opened(b)' => Untouched(b)')
    BY <1>1, <1>5, <1>7
  <1>10. \A b \in Boxes : box[b]'.busy => \/ Opened(b)'
                            \/ \E q \in Proc : pc[q]' \in Opening \ {"take"} /\ BoxOf(q)' = b
    BY <1>1, <1>6
  <1>11. \A q \in Proc : pc[q]' \in Opening => ~Opened(BoxOf(q))'
    BY <1>4 DEF Opened
  <1>12. \A q \in Proc : Calling(q)' => Opened(BoxOf(q))'
    BY <1>3 DEF Opened
  <1> QED BY <1>8, <1>9, <1>10, <1>11, <1>12 DEF OpenInv

\* Where the labels and the boxes of the calls are after a step.
LEMMA CallStep ==
    ASSUME BoxTypes, NEW p \in Proc,
           SendLook(p) \/ RecvLook(p) \/ Put(p) \/ TakeMail(p) \/ Count(p) \/ Wake(p) \/ Finish(p)
    PROVE  /\ Calling(p) /\ BoxOf(p) \in Boxes /\ OnlyMoves(p) /\ handle' = handle
           /\ pc'[p] \in {"idle", "send", "recv"} \cup Critical
           /\ pc'[p] # "idle" => arg'[p] = arg[p]
  <1>1. Calling(p)
    BY DEF SendLook, RecvLook, Look, Put, TakeMail, Count, Wake, Finish, At, Calling, Critical
  <1>2. pc \in [Proc -> Labels] /\ arg \in [Proc -> Chosen \cup Called \cup {NULL}] /\ BoxOf(p) \in Boxes
    BY <1>1, ArgTypes DEF BoxTypes
  <1>3. CASE SendLook(p) \/ RecvLook(p)
    BY <1>1, <1>2, <1>3 DEF SendLook, RecvLook, Look, At, Goto, OnlyMoves, Critical
  <1>4. CASE Put(p) \/ TakeMail(p) \/ Count(p) \/ Wake(p)
    BY <1>1, <1>2, <1>4 DEF Put, TakeMail, Count, Wake, Goto, OnlyMoves, Critical
  <1>5. CASE Finish(p)
    BY <1>1, <1>2, <1>5 DEF Finish, Returns, Goto, OnlyMoves, Critical
  <1> QED BY <1>1, <1>2, <1>3, <1>4, <1>5

\* What the calls do to the box.
LEMMA CallBox ==
    ASSUME BoxTypes, BoxInv, NEW p \in Proc,
           SendLook(p) \/ RecvLook(p) \/ Put(p) \/ TakeMail(p) \/ Count(p) \/ Wake(p) \/ Finish(p)
    PROVE  OnlyBox(p)
  <1>1. Calling(p) /\ BoxOf(p) \in Boxes
    BY CallStep
  <1>2. CASE UNCHANGED <<box, sent, rcvd>>
    BY <1>2 DEF OnlyBox
  <1>3. CASE Count(p)
    BY <1>1, <1>3 DEF Count, OnlyBox, BoxTypes, Box
  <1>4. CASE Put(p) /\ ~UNCHANGED <<box, sent, rcvd>>
    <2> DEFINE free == {i \in 1..MAILBOX_SIZE : box[BoxOf(p)].avail[i]}
    <2>1. /\ First(free) \in 1..MAILBOX_SIZE /\ Text(arg[p].msg) \in Texts
      BY <1>4, FreeSlot, ArgTypes DEF Put, At
    <2>2. PICK i \in 1..MAILBOX_SIZE, t \in Texts : i = First(free) /\ t = Text(arg[p].msg)
      BY <2>1
    <2>3. /\ box' = [box EXCEPT ![BoxOf(p)] = Stored(@, i, t)]
          /\ sent' = [sent EXCEPT ![BoxOf(p)] = Append(@, t)] /\ rcvd' = rcvd
      BY <1>4, <2>2 DEF Put
    <2>4. Stored(box[BoxOf(p)], i, t).busy = box[BoxOf(p)].busy
      BY <1>1, BoxFields, BoxStored
    <2> QED BY <1>1, <2>3, <2>4 DEF OnlyBox, BoxTypes
  <1>5. CASE TakeMail(p) /\ ~UNCHANGED <<box, sent, rcvd>>
    <2>1. box[BoxOf(p)].queue # <<>>
      BY <1>1, <1>5 DEF BoxInv, Sound, Looked, TakeMail, At
    <2>2. Head(box[BoxOf(p)].queue) \in 1..MAILBOX_SIZE
      BY <1>1, <2>1, BoxFields, HeadTailProperties
    <2>3. PICK i \in 1..MAILBOX_SIZE : i = Head(box[BoxOf(p)].queue)
      BY <2>2
    <2>4. /\ box' = [box EXCEPT ![BoxOf(p)] = Fetched(@, i)]
          /\ \A b \in Boxes : b # BoxOf(p) => rcvd'[b] = rcvd[b]
          /\ sent' = sent
      BY <1>1, <1>5, <2>3 DEF TakeMail, BoxTypes
    <2>5. Fetched(box[BoxOf(p)], i).busy = box[BoxOf(p)].busy
      BY <1>1, <2>1, BoxFields, BoxFetched
    <2> QED BY <1>1, <2>4, <2>5 DEF OnlyBox, BoxTypes
  <1>6. SendLook(p) \/ RecvLook(p) \/ Wake(p) \/ Finish(p) => UNCHANGED <<box, sent, rcvd>>
    BY DEF SendLook, RecvLook, Look, Wake, Finish
  <1> QED BY <1>2, <1>3, <1>4, <1>5, <1>6

\* OpenInv is kept: a box is claimed once and used after its opening.
LEMMA StepOpen == ASSUME BoxTypes, BoxInv, OpenInv, OpenerInv, MNext PROVE OpenInv'
  <1>1. PICK p \in Proc :
           \/ UNCHANGED mvars
           \/ \E n \in Names :
                 \/ OpenSearch(p, n)
                 \/ \E short \in BOOLEAN : Recv(p, n, short) \/ \E m \in Mails : Send(p, n, m, short)
           \/ Within(p)
    BY DEF MNext
  <1>2. /\ pc \in [Proc -> Labels] /\ arg \in [Proc -> Chosen \cup Called \cup {NULL}]
        /\ handle \in [Proc -> [Names -> Boxes \cup {NULL}]]
    BY DEF BoxTypes
  <1>3. CASE UNCHANGED mvars
    <2>1. \A b : /\ Opened(b)' <=> Opened(b)
                 /\ Untouched(b)' <=> Untouched(b)
      BY <1>3 DEF Opened, Untouched, mvars
    <2>2. \A q \in Proc : /\ BoxOf(q)' = BoxOf(q) /\ (Calling(q)' <=> Calling(q))
                          /\ Opened(BoxOf(q))' <=> Opened(BoxOf(q))
      BY <1>3 DEF BoxOf, Calling, Opened, mvars
    <2> QED BY <1>3, <2>1, <2>2 DEF OpenInv, mvars
  <1>4. CASE \E n \in Names : OpenSearch(p, n) /\ Named(n) # {}
    <2>1. PICK n \in Names : OpenSearch(p, n) /\ Named(n) # {}
      BY <1>4
    <2>2. PICK b \in Boxes : b = First(Named(n)) /\ box[b].busy
      BY <2>1, Found DEF Named
    <2>3. /\ \A q \in Proc : pc[q] \notin Opening
          /\ handle' = [handle EXCEPT ![p][n] = b] /\ handle[p][n] = NULL
          /\ UNCHANGED <<pc, arg, box, sent, rcvd>>
      BY <2>1, <2>2 DEF OpenSearch
    <2>4. Opened(b) /\ NULL \notin Boxes
      BY <2>2, <2>3, MailboxAssumption DEF OpenInv
    <2>5. \A c \in Boxes : Opened(c)' <=> Opened(c)
      BY <1>2, <2>3, <2>4 DEF Opened
    <2>6. \A q \in Proc : /\ BoxOf(q)' = BoxOf(q) /\ (Calling(q)' <=> Calling(q))
                          /\ Calling(q) => BoxOf(q) \in Boxes
      BY <2>3, ArgTypes DEF BoxOf, Calling
    <2>7. \A c \in Boxes : Untouched(c)' <=> Untouched(c)
      BY <2>3 DEF Untouched
    <2>8. \A q \in Proc : Calling(q)' => Opened(BoxOf(q))'
      <3> SUFFICES ASSUME NEW q \in Proc, Calling(q) PROVE Opened(BoxOf(q))'
        BY <2>6
      <3>1. PICK c \in Boxes : c = BoxOf(q) /\ Opened(c)
        BY <2>6 DEF OpenInv
      <3>2. Opened(c)' /\ BoxOf(q)' = c
        BY <2>5, <2>6, <3>1
      <3> QED BY <3>2 DEF Opened
    <2> QED BY <2>3, <2>5, <2>7, <2>8 DEF OpenInv
  <1>5. CASE \E n \in Names : OpenSearch(p, n) /\ ~(Named(n) # {})
    <2>1. PICK n \in Names : OpenSearch(p, n) /\ ~(Named(n) # {})
      BY <1>5
    <2>2. PICK b \in Boxes : b = First(Idle) /\ ~box[b].busy
      BY <2>1, Found DEF Idle, OpenSearch
    <2>3. /\ \A q \in Proc : pc[q] \notin Opening
          /\ pc[p] = "idle" /\ pc' = [pc EXCEPT ![p] = "take"]
          /\ arg' = [arg EXCEPT ![p] = [name |-> n, box |-> b]]
          /\ UNCHANGED <<handle, box, sent, rcvd>>
      BY <2>1, <2>2 DEF OpenSearch, Goto, At
    <2>4. ~Opened(b)
      BY <2>2 DEF OpenInv
    <2>5. \A c : Opened(c)' <=> Opened(c)
      BY <2>3 DEF Opened
    <2>6. pc'[p] = "take" /\ BoxOf(p)' = b /\ \A q \in Proc \ {p} : pc'[q] = pc[q] /\ BoxOf(q)' = BoxOf(q)
      BY <1>2, <2>3 DEF BoxOf
    <2>7. \A q \in Proc : pc[q]' \in Opening => q = p /\ ~Opened(BoxOf(q))'
      <3>1. ~Opened(BoxOf(p))'
        BY <2>4, <2>5, <2>6 DEF Opened
      <3> QED BY <2>3, <2>6, <3>1
    <2>8. \A q \in Proc : Calling(q)' => Opened(BoxOf(q))'
      <3> SUFFICES ASSUME NEW q \in Proc, Calling(q)' PROVE Opened(BoxOf(q))'
        OBVIOUS
      <3>1. q # p /\ Calling(q) /\ BoxOf(q)' = BoxOf(q)
        BY <2>6 DEF Calling, Critical
      <3>2. Opened(BoxOf(q))
        BY <3>1 DEF OpenInv
      <3> QED BY <2>3, <3>1, <3>2 DEF Opened
    <2>9. \A c \in Boxes : Untouched(c)' <=> Untouched(c)
      BY <2>3 DEF Untouched
    <2>10. \A c \in Boxes : box[c].busy => Opened(c)
      BY <2>3 DEF OpenInv
    <2> QED BY <2>3, <2>5, <2>7, <2>8, <2>9, <2>10 DEF OpenInv
  <1>6. CASE \E n \in Names, short \in BOOLEAN :
               Recv(p, n, short) \/ \E m \in Mails : Send(p, n, m, short)
    <2>1. PICK n \in Names, short \in BOOLEAN, label \in {"send", "recv"}, m \in Mails \cup {NULL} :
             Begin(p, n, label, m, short)
      BY <1>6 DEF Recv, Send
    <2>2. OnlyMoves(p) /\ pc[p] = "idle" /\ pc'[p] = label /\ BoxOf(p)' = handle[p][n]
      BY <1>2, <2>1 DEF Begin, At, OnlyMoves, Goto, BoxOf
    <2>3. handle' = handle /\ OnlyBox(p) /\ UNCHANGED <<box, sent, rcvd>>
      BY <2>1 DEF Begin, OnlyBox
    <2>4. Opened(BoxOf(p)')
      BY <2>1, <2>2 DEF Opened
    <2> QED BY <2>2, <2>3, <2>4, OpenCall DEF Opening
  <1>7. CASE OpenTake(p) \/ OpenInit(p)
    <2>1. pc[p] \in Opening /\ pc'[p] \in Opening \ {"take"} /\ arg' = arg /\ \A q \in Proc \ {p} : pc'[q] = pc[q]
      BY <1>2, <1>7 DEF OpenTake, OpenInit, At, Goto, Opening
    <2>2. PICK b \in Boxes : b = BoxOf(p)
      BY <2>1, ArgTypes
    <2>3. ~Opened(b) /\ Untouched(b) /\ arg[p].name \in Names /\ UNCHANGED <<handle, sent, rcvd>>
      BY <1>7, <2>1, <2>2, ArgTypes DEF OpenInv, OpenTake, OpenInit
    <2>4. /\ \A c \in Boxes \ {b} : box'[c] = box[c]
          /\ box'[b].queue = <<>> /\ box'[b].contents = 0
      <3>1. CASE OpenInit(p)
        BY <2>3, <3>1 DEF OpenInit, Untouched
      <3>2. CASE OpenTake(p)
        <4>1. box' = [box EXCEPT ![b] = Taken(@, arg[p].name)] /\ box \in [Boxes -> Box]
          BY <2>2, <3>2 DEF OpenTake, BoxTypes
        <4>2. Taken(box[b], arg[p].name).queue = <<>> /\ Taken(box[b], arg[p].name).contents = 0
          BY <2>3, BoxFields, BoxTaken
        <4> QED BY <4>1, <4>2
      <3> QED BY <1>7, <3>1, <3>2
    <2>5. \A c : Opened(c)' <=> Opened(c)
      BY <2>3 DEF Opened
    <2>6. \A q \in Proc : /\ BoxOf(q)' = BoxOf(q)
                          /\ pc'[q] \in Opening <=> pc[q] \in Opening
                          /\ Calling(q)' <=> Calling(q)
      BY <2>1 DEF BoxOf, Calling, Opening, Critical
    <2>7. \A q \in Proc : (pc[q]' \in Opening => ~Opened(BoxOf(q))') /\ (Calling(q)' => Opened(BoxOf(q))')
      <3> SUFFICES ASSUME NEW q \in Proc
                   PROVE  (pc[q]' \in Opening => ~Opened(BoxOf(q))') /\ (Calling(q)' => Opened(BoxOf(q))')
        OBVIOUS
      <3>1. Opened(BoxOf(q))' <=> Opened(BoxOf(q))
        BY <2>3, <2>6 DEF Opened
      <3> QED BY <2>6, <3>1 DEF OpenInv
    <2>8. \A c \in Boxes : ~Opened(c)' => Untouched(c)'
      <3> SUFFICES ASSUME NEW c \in Boxes, ~Opened(c) PROVE Untouched(c)'
        BY <2>5
      <3>1. Untouched(c)
        BY DEF OpenInv
      <3> QED BY <2>3, <2>4, <3>1 DEF Untouched
    <2>9. \A c \in Boxes : Opened(c)' => box[c]'.busy
      BY <2>3, <2>4, <2>5 DEF OpenInv
    <2>10. \A c \in Boxes : box[c]'.busy => \/ Opened(c)'
                              \/ \E q \in Proc : pc[q]' \in Opening \ {"take"} /\ BoxOf(q)' = c
      <3> SUFFICES ASSUME NEW c \in Boxes, box'[c].busy, c # b
                   PROVE  \/ Opened(c)
                          \/ \E q \in Proc : pc[q]' \in Opening \ {"take"} /\ BoxOf(q)' = c
        BY <2>1, <2>2, <2>5, <2>6
      <3>1. Opened(c) \/ \E q \in Proc : pc[q] \in Opening \ {"take"} /\ BoxOf(q) = c
        BY <2>4 DEF OpenInv
      <3> QED BY <2>1, <2>2, <2>6, <3>1
    <2>11. \A q, r \in Proc : pc[q]' \in Opening /\ pc[r]' \in Opening => q = r
      BY <2>6 DEF OpenInv
    <2> QED BY <2>7, <2>8, <2>9, <2>10, <2>11 DEF OpenInv
  <1>8. CASE OpenMails(p)
    <2>1. /\ pc[p] = "init_mails" /\ pc'[p] = "idle" /\ \A q \in Proc \ {p} : pc'[q] = pc[q] /\ arg'[q] = arg[q]
      BY <1>2, <1>8 DEF OpenMails, Returns, At, Goto
    <2>2. PICK b \in Boxes, n \in Names : b = BoxOf(p) /\ n = arg[p].name
      BY <2>1, ArgTypes DEF Opening
    <2>3. /\ handle' = [handle EXCEPT ![p][n] = b] /\ UNCHANGED <<sent, rcvd>>
          /\ box' = [box EXCEPT ![b].avail = [i \in 1..MAILBOX_SIZE |-> TRUE]]
      BY <1>8, <2>2 DEF OpenMails
    <2>4. /\ \A c \in Boxes \ {b} : box'[c] = box[c]
          /\ box'[b].busy = box[b].busy
      BY <2>3 DEF BoxTypes, Box
    <2>5. box[b].busy /\ handle[p][n] = NULL /\ ~Opened(b) /\ Untouched(b)
      BY <2>1, <2>2 DEF OpenerInv, Opener, OpenInv, Opening
    <2>6. b \in Boxes /\ NULL \notin Boxes
      BY MailboxAssumption
    <2>7. \A c \in Boxes : Opened(c)' <=> Opened(c) \/ c = b
      BY <1>2, <2>3, <2>5, <2>6 DEF Opened
    <2>8. \A q \in Proc : pc[q]' \notin Opening /\ (q # p => pc[q] \notin Opening)
      BY <2>1 DEF OpenInv, Opening
    <2>9. \A q \in Proc : Calling(q)' => Opened(BoxOf(q))'
      <3> SUFFICES ASSUME NEW q \in Proc, Calling(q)' PROVE Opened(BoxOf(q))'
        OBVIOUS
      <3>1. q # p /\ Calling(q) /\ BoxOf(q)' = BoxOf(q)
        BY <2>1 DEF Calling, Critical, BoxOf
      <3>2. PICK c \in Boxes : c = BoxOf(q) /\ Opened(c)
        BY <3>1, ArgTypes DEF OpenInv
      <3>3. Opened(c)' /\ BoxOf(q)' = c
        BY <2>7, <3>1, <3>2
      <3> QED BY <3>3 DEF Opened
    <2>10. \A c \in Boxes : ~Opened(c)' => Untouched(c)'
      <3> SUFFICES ASSUME NEW c \in Boxes, ~Opened(c), c # b PROVE Untouched(c)'
        BY <2>7
      <3>1. Untouched(c)
        BY DEF OpenInv
      <3> QED BY <2>3, <2>4, <3>1 DEF Untouched
    <2>11. \A c \in Boxes : (Opened(c)' => box[c]'.busy) /\ (box[c]'.busy => Opened(c)')
      <3> SUFFICES ASSUME NEW c \in Boxes, c # b PROVE Opened(c) <=> box'[c].busy
        BY <2>4, <2>5, <2>7
      <3> QED BY <2>1, <2>2, <2>4, <2>8 DEF OpenInv
    <2> QED BY <2>8, <2>9, <2>10, <2>11 DEF OpenInv
  <1>9. CASE \E b \in Boxes : Resume(p, b)
    BY <1>3, <1>9 DEF Resume
  <1>10. CASE SendLook(p) \/ RecvLook(p) \/ Put(p) \/ TakeMail(p) \/ Count(p) \/ Wake(p) \/ Finish(p)
    <2>1. /\ Calling(p) /\ OnlyMoves(p) /\ handle' = handle /\ OnlyBox(p)
          /\ pc'[p] \in {"idle", "send", "recv"} \cup Critical
          /\ pc'[p] # "idle" => arg'[p] = arg[p]
      BY <1>10, CallStep, CallBox
    <2>2. Calling(p)' => Opened(BoxOf(p)')
      BY <2>1 DEF OpenInv, Calling, BoxOf, Critical
    <2>3. pc[p] \notin Opening /\ pc'[p] \notin Opening
      BY <2>1 DEF Calling, Opening, Critical
    <2> QED BY <2>1, <2>2, <2>3, OpenCall
  <1> QED BY <1>1, <1>3, <1>4, <1>5, <1>6, <1>7, <1>8, <1>9, <1>10 DEF Within

\* OpenerInv is kept.
LEMMA StepOpener == ASSUME BoxTypes, BoxInv, OpenerInv, MNext PROVE OpenerInv'
  <1>1. PICK p \in Proc :
           \/ UNCHANGED mvars
           \/ \E n \in Names :
                 \/ OpenSearch(p, n)
                 \/ \E short \in BOOLEAN : Recv(p, n, short) \/ \E m \in Mails : Send(p, n, m, short)
           \/ Within(p)
    BY DEF MNext
  <1>2. /\ pc \in [Proc -> Labels] /\ arg \in [Proc -> Chosen \cup Called \cup {NULL}]
        /\ handle \in [Proc -> [Names -> Boxes \cup {NULL}]] /\ box \in [Boxes -> Box]
    BY DEF BoxTypes
  <1>3. ASSUME OnlyMoves(p), \A q \in Proc \ {p} : handle'[q] = handle[q],
               \A c \in Boxes : box[c].busy => box'[c].busy,
               Opener(p)'
        PROVE  OpenerInv'
    <2>1. \A q \in Proc \ {p} : Opener(q)'
      <3> SUFFICES ASSUME NEW q \in Proc \ {p}, pc'[q] \in Opening
                   PROVE  handle'[q][arg'[q].name] = NULL /\ (pc'[q] = "take" \/ box'[arg'[q].box].busy)
        BY DEF Opener, BoxOf
      <3>1. BoxOf(q) \in Boxes /\ pc[q] \in Opening /\ arg'[q] = arg[q] /\ pc'[q] = pc[q]
        BY <1>3, ArgTypes DEF OnlyMoves
      <3> QED BY <1>3, <3>1 DEF OpenerInv, Opener, BoxOf
    <2> QED BY <1>3, <2>1 DEF OpenerInv
  <1>4. CASE UNCHANGED mvars
    BY <1>4 DEF mvars, OpenerInv, Opener, BoxOf
  <1>5. CASE \E n \in Names : OpenSearch(p, n)
    <2>1. PICK n \in Names : OpenSearch(p, n)
      BY <1>5
    <2>2. OnlyMoves(p) /\ UNCHANGED box /\ (\A q \in Proc \ {p} : handle'[q] = handle[q])
      BY <1>2, <2>1 DEF OpenSearch, OnlyMoves, Goto
    <2>3. pc'[p] \in Opening => pc'[p] = "take" /\ handle'[p][arg'[p].name] = NULL
      BY <1>2, <2>1 DEF OpenSearch, Goto, At, Opening
    <2> QED BY <1>3, <2>2, <2>3 DEF Opener
  <1>6. CASE \E n \in Names, short \in BOOLEAN :
               Recv(p, n, short) \/ \E m \in Mails : Send(p, n, m, short)
    <2>1. PICK n \in Names, short \in BOOLEAN, label \in {"send", "recv"}, m \in Mails \cup {NULL} :
             Begin(p, n, label, m, short)
      BY <1>6 DEF Recv, Send
    <2>2. OnlyMoves(p) /\ pc'[p] \notin Opening /\ UNCHANGED <<box, handle>>
      BY <1>2, <2>1 DEF Begin, OnlyMoves, Goto, Opening
    <2> QED BY <1>3, <2>2 DEF Opener
  <1>7. CASE OpenTake(p)
    <2>1. /\ pc[p] \in Opening /\ pc'[p] = "init_empty" /\ OnlyMoves(p) /\ UNCHANGED <<arg, handle>>
      BY <1>2, <1>7 DEF OpenTake, At, Goto, Opening, OnlyMoves
    <2>2. PICK b \in Boxes : b = BoxOf(p)
      BY <2>1, ArgTypes
    <2>3. arg[p].name \in Names /\ box' = [box EXCEPT ![b] = Taken(@, arg[p].name)]
      BY <1>7, <2>1, <2>2, ArgTypes DEF OpenTake
    <2>4. Taken(box[b], arg[p].name).busy = TRUE
      BY <2>3, BoxFields, BoxTaken
    <2>5. box'[b].busy /\ \A c \in Boxes : box[c].busy => box'[c].busy
      BY <1>2, <2>3, <2>4
    <2>6. handle[p][arg[p].name] = NULL
      BY <2>1 DEF OpenerInv, Opener
    <2> QED BY <1>3, <2>1, <2>2, <2>5, <2>6 DEF BoxOf, Opener
  <1>8. CASE OpenInit(p)
    <2>1. /\ pc[p] \in Opening \ {"take"} /\ OnlyMoves(p) /\ UNCHANGED <<arg, handle, box>>
      BY <1>2, <1>8 DEF OpenInit, At, Goto, Opening, OnlyMoves
    <2> QED BY <1>3, <2>1 DEF OpenerInv, Opener, BoxOf
  <1>9. CASE OpenMails(p)
    <2>1. /\ pc'[p] \notin Opening /\ OnlyMoves(p) /\ \A q \in Proc \ {p} : handle'[q] = handle[q]
      BY <1>2, <1>9 DEF OpenMails, Returns, Goto, Opening, OnlyMoves
    <2>2. \A c \in Boxes : box'[c].busy = box[c].busy
      BY <1>2, <1>9 DEF OpenMails, Box
    <2> QED BY <1>3, <2>1, <2>2 DEF Opener
  <1>10. CASE \E b \in Boxes : Resume(p, b)
    BY <1>4, <1>10 DEF Resume
  <1>11. CASE SendLook(p) \/ RecvLook(p) \/ Put(p) \/ TakeMail(p) \/ Count(p) \/ Wake(p) \/ Finish(p)
    <2>1. OnlyMoves(p) /\ handle' = handle /\ OnlyBox(p) /\ pc'[p] \notin Opening
      BY <1>11, CallStep, CallBox DEF Opening, Critical
    <2> QED BY <1>3, <2>1 DEF OnlyBox, Opener
  <1> QED BY <1>1, <1>4, <1>5, <1>6, <1>7, <1>8, <1>9, <1>10, <1>11 DEF Within

---------------------------------------------------------------------------
\* Queues of slots: what a mail more and a mail less make of them.
LEMMA OneMore ==
    ASSUME NEW s \in Seq(Texts), NEW r \in Seq(Texts), NEW q \in Seq(1..MAILBOX_SIZE),
           NEW text \in [1..MAILBOX_SIZE -> Texts], NEW free \in [1..MAILBOX_SIZE -> BOOLEAN],
           NEW i \in 1..MAILBOX_SIZE, NEW t \in Texts,
           InOrder(s, r, q, text), Distinct(q), Marked(q, free), free[i]
    PROVE  /\ InOrder(Append(s, t), r, Append(q, i), With(text, i, t))
           /\ Distinct(Append(q, i))
           /\ Marked(Append(q, i), Filled(free, i))
           /\ Len(Append(q, i)) = Len(q) + 1
  <1> DEFINE u == Append(s, t)
             p == Append(q, i)
  <1>1. /\ Len(s) \in Nat /\ Len(r) \in Nat /\ Len(q) \in Nat
        /\ \A k \in 1..Len(q) : q[k] \in 1..MAILBOX_SIZE
    BY LenProperties, ElementOfSeq
  <1>2. /\ Len(u) = Len(s) + 1 /\ u[Len(s) + 1] = t
        /\ \A k \in 1..Len(s) : u[k] = s[k]
    BY AppendProperties
  <1>3. /\ Len(p) = Len(q) + 1 /\ p[Len(q) + 1] = i
        /\ \A k \in 1..Len(q) : p[k] = q[k]
    BY AppendProperties
  <1>4. \A k \in 1..Len(q) : q[k] # i
    BY DEF Marked
  <1> HIDE DEF u, p
  <1>5. Len(u) = Len(r) + Len(p) /\ \A k \in 1..Len(r) : u[k] = r[k]
    BY <1>1, <1>2, <1>3 DEF InOrder
  <1>6. \A k \in 1..Len(p) : u[Len(r) + k] = [text EXCEPT ![i] = t][p[k]]
    <2> SUFFICES ASSUME NEW k \in 1..Len(p) PROVE u[Len(r) + k] = [text EXCEPT ![i] = t][p[k]]
      OBVIOUS
    <2>1. CASE k = Len(q) + 1
      BY <1>1, <1>2, <1>3, <2>1 DEF InOrder
    <2>2. CASE k # Len(q) + 1
      <3>0. Len(s) = Len(r) + Len(q) /\ k \in 1..Len(q)
        BY <1>1, <1>3, <2>2 DEF InOrder
      <3>1. k \in 1..Len(q) /\ Len(r) + k \in 1..Len(s)
        BY <1>1, <3>0
      <3>2. p[k] = q[k] /\ q[k] # i /\ q[k] \in 1..MAILBOX_SIZE
        BY <1>1, <1>3, <1>4, <3>1
      <3>3. u[Len(r) + k] = text[q[k]]
        BY <1>2, <3>1 DEF InOrder
      <3> QED BY <3>2, <3>3
    <2> QED BY <2>1, <2>2
  <1>7. Distinct(p)
    <2> SUFFICES ASSUME NEW j \in 1..Len(p), NEW k \in 1..Len(p), p[j] = p[k] PROVE j = k
      BY DEF Distinct
    <2>1. \A n \in 1..Len(p) : n = Len(q) + 1 \/ n \in 1..Len(q)
      BY <1>1, <1>3
    <2> QED BY <1>3, <1>4, <2>1 DEF Distinct
  <1>8. Marked(p, [free EXCEPT ![i] = FALSE])
    <2> SUFFICES ASSUME NEW j \in 1..MAILBOX_SIZE
                 PROVE  ~[free EXCEPT ![i] = FALSE][j] <=> \E k \in 1..Len(p) : p[k] = j
      BY DEF Marked
    <2>1. \A n \in 1..Len(p) : n = Len(q) + 1 \/ n \in 1..Len(q)
      BY <1>1, <1>3
    <2>2. 1..Len(q) \subseteq 1..Len(p) /\ Len(q) + 1 \in 1..Len(p)
      BY <1>1, <1>3
    <2>3. (\E k \in 1..Len(p) : p[k] = j) <=> (j = i \/ \E k \in 1..Len(q) : q[k] = j)
      BY <1>3, <2>1, <2>2
    <2> QED BY <2>3 DEF Marked
  <1> QED BY <1>3, <1>5, <1>6, <1>7, <1>8 DEF InOrder, u, p, With, Filled

\* A mail less: the head of the queue is the next text due.
LEMMA OneLess ==
    ASSUME NEW s \in Seq(Texts), NEW r \in Seq(Texts), NEW q \in Seq(1..MAILBOX_SIZE),
           NEW text \in [1..MAILBOX_SIZE -> Texts], NEW free \in [1..MAILBOX_SIZE -> BOOLEAN],
           InOrder(s, r, q, text), Distinct(q), Marked(q, free), q # <<>>
    PROVE  /\ InOrder(s, Append(r, text[Head(q)]), Tail(q), text)
           /\ Distinct(Tail(q))
           /\ Marked(Tail(q), [free EXCEPT ![Head(q)] = TRUE])
           /\ Len(Tail(q)) = Len(q) - 1
  <1> DEFINE h == Head(q)
             v == Append(r, text[h])
             p == Tail(q)
  <1>1. /\ Len(s) \in Nat /\ Len(r) \in Nat /\ Len(q) \in Nat \ {0}
        /\ \A k \in 1..Len(q) : q[k] \in 1..MAILBOX_SIZE
    BY LenProperties, ElementOfSeq, EmptySeq
  <1>2. h = q[1] /\ h \in 1..MAILBOX_SIZE
    BY <1>1
  <1>3. /\ Len(p) = Len(q) - 1
        /\ \A k \in 1..Len(p) : p[k] = q[k + 1]
    BY HeadTailProperties
  <1>4. text[h] \in Texts
    BY <1>2
  <1>5. /\ Len(v) = Len(r) + 1 /\ v[Len(r) + 1] = text[h]
        /\ \A k \in 1..Len(r) : v[k] = r[k]
    BY <1>4, AppendProperties
  <1> HIDE DEF h, v, p
  <1>6. \A k \in 1..Len(v) : s[k] = v[k]
    <2> SUFFICES ASSUME NEW k \in 1..Len(v) PROVE s[k] = v[k]
      OBVIOUS
    <2>1. CASE k = Len(r) + 1
      BY <1>1, <1>2, <1>5, <2>1 DEF InOrder
    <2>2. CASE k # Len(r) + 1
      <3>1. k \in 1..Len(r)
        BY <1>1, <1>5, <2>2
      <3> QED BY <1>5, <3>1 DEF InOrder
    <2> QED BY <2>1, <2>2
  <1>7. \A k \in 1..Len(p) : s[Len(v) + k] = text[p[k]]
    <2> SUFFICES ASSUME NEW k \in 1..Len(p) PROVE s[Len(v) + k] = text[p[k]]
      OBVIOUS
    <2>1. k + 1 \in 1..Len(q) /\ Len(v) + k = Len(r) + (k + 1)
      BY <1>1, <1>3, <1>5
    <2> QED BY <1>3, <2>1 DEF InOrder
  <1>8. Len(s) = Len(v) + Len(p)
    BY <1>1, <1>3, <1>5 DEF InOrder
  <1>9. Distinct(p)
    <2> SUFFICES ASSUME NEW j \in 1..Len(p), NEW k \in 1..Len(p), p[j] = p[k] PROVE j = k
      BY DEF Distinct
    <2>1. j + 1 \in 1..Len(q) /\ k + 1 \in 1..Len(q) /\ q[j + 1] = q[k + 1]
      BY <1>1, <1>3
    <2>2. j + 1 = k + 1
      BY <2>1 DEF Distinct
    <2> QED BY <1>1, <1>3, <2>2
  <1>10. Marked(p, [free EXCEPT ![h] = TRUE])
    <2> SUFFICES ASSUME NEW j \in 1..MAILBOX_SIZE
                 PROVE  ~[free EXCEPT ![h] = TRUE][j] <=> \E k \in 1..Len(p) : p[k] = j
      BY DEF Marked
    <2>1. ASSUME NEW k \in 1..Len(p), p[k] = j
          PROVE  j # h /\ \E n \in 1..Len(q) : q[n] = j
      <3>1. k + 1 \in 1..Len(q) /\ 1 \in 1..Len(q) /\ k + 1 # 1 /\ q[k + 1] = j
        BY <1>1, <1>3, <2>1
      <3> QED BY <1>2, <3>1 DEF Distinct
    <2>2. ASSUME NEW n \in 1..Len(q), q[n] = j, j # h
          PROVE  \E k \in 1..Len(p) : p[k] = j
      <3>1. n - 1 \in 1..Len(p) /\ (n - 1) + 1 = n
        BY <1>1, <1>2, <1>3, <2>2
      <3>2. p[n - 1] = j
        BY <1>3, <2>2, <3>1
      <3> QED BY <3>1, <3>2
    <2>3. (\E k \in 1..Len(p) : p[k] = j) <=> (j # h /\ \E n \in 1..Len(q) : q[n] = j)
      BY <2>1, <2>2
    <2> QED BY <1>2, <2>3 DEF Marked
  <1> QED BY <1>3, <1>6, <1>7, <1>8, <1>9, <1>10 DEF InOrder, h, v, p

\* A queue shorter than the box leaves a slot free (counting).
LEMMA SlotLeft ==
    ASSUME NEW q \in Seq(1..MAILBOX_SIZE), NEW free \in [1..MAILBOX_SIZE -> BOOLEAN],
           Marked(q, free), Len(q) < MAILBOX_SIZE
    PROVE  {i \in 1..MAILBOX_SIZE : free[i]} # {}
  <1> SUFFICES ASSUME {i \in 1..MAILBOX_SIZE : free[i]} = {} PROVE FALSE
    OBVIOUS
  <1>1. Len(q) \in Nat /\ q \in [1..Len(q) -> 1..MAILBOX_SIZE] /\ MAILBOX_SIZE \in Nat
    BY LenProperties, MailboxAssumption
  <1>2. \A i \in 1..MAILBOX_SIZE : \E k \in 1..Len(q) : q[k] = i
    BY DEF Marked
  <1>3. q \in Surjection(1..Len(q), 1..MAILBOX_SIZE)
    BY <1>1, <1>2 DEF Surjection
  <1>4. ASSUME NEW n \in Nat PROVE IsFiniteSet(1..n) /\ Cardinality(1..n) = n
    <2>1. IsFiniteSet(1..n) /\ Cardinality(1..n) = IF 1 > n THEN 0 ELSE n - 1 + 1
      BY FS_Interval
    <2> QED BY <2>1
  <1>5. Cardinality(1..MAILBOX_SIZE) <= Cardinality(1..Len(q))
    BY <1>3, <1>4, FS_Surjection
  <1> QED BY <1>1, <1>4, <1>5

---------------------------------------------------------------------------
\* Whoever works on a box is alone (mutual exclusion of its lock).
LEMMA OneInside ==
    ASSUME BoxTypes, LockInv, CallInv, NEW p \in Proc, NEW q \in Proc,
           Holding(p), Holding(q), BoxOf(p) = BoxOf(q)
    PROVE  p = q
  <1>1. Alone(p) /\ Alone(q) /\ Live(p) /\ Live(q)
    BY DEF CallInv, Proper, Holding, Critical
  <1>2. PICK i \in Slots : locks[p] = [NoSlots EXCEPT ![i] = LockOf(BoxOf(p))]
    BY <1>1 DEF Alone
  <1>3. PICK j \in Slots : locks[q] = [NoSlots EXCEPT ![j] = LockOf(BoxOf(p))]
    BY <1>1 DEF Alone
  <1>4. locks[p][i] = LockOf(BoxOf(p)) /\ locks[q][j] = LockOf(BoxOf(p))
    BY <1>2, <1>3 DEF NoSlots
  <1>5. locks[p][i] \in Locks
    <2>1. Calling(p)
      BY DEF Holding, Calling
    <2>2. BoxOf(p) \in Boxes
      BY <2>1, ArgTypes
    <2> QED BY <1>4, <2>2, BoxObjects
  <1> QED BY <1>1, <1>4, <1>5 DEF LockInv, MutualExclusion

\* A box that p does not touch, nor uses in a way its state depends on.
LEMMA SoundKept ==
    ASSUME NEW b \in Boxes, Sound(b), NEW p \in Proc, OnlyMoves(p),
           box'[b] = box[b], sent'[b] = sent[b], rcvd'[b] = rcvd[b], Opened(b)' => Opened(b),
           ~(pc[p] \in {"put_count", "take_count"} /\ BoxOf(p) = b),
           ~(pc'[p] \in {"put_count", "take_count", "put", "take_mail"} /\ BoxOf(p)' = b)
    PROVE  Sound(b)'
  <1>1. /\ PutIn(b)' <=> PutIn(b)
        /\ TakeIn(b)' <=> TakeIn(b)
    BY DEF PutIn, TakeIn, OnlyMoves, BoxOf
  <1>2. Counted(b)'
    BY <1>1 DEF Counted, Sound
  <1>3. Looked(b)'
    BY DEF Looked, Sound, OnlyMoves, BoxOf
  <1>4. Ordered(b)' /\ Linked(b)'
    BY DEF Ordered, Linked, Sound
  <1> QED BY <1>2, <1>3, <1>4 DEF Sound

\* The while loop lets p through: nobody is between its two updates of the box.
LEMMA LookKeeps ==
    ASSUME BoxTypes, LockInv, CallInv, BoxInv, NEW p \in Proc, SendLook(p) \/ RecvLook(p)
    PROVE  BoxInv'
  <1>1. Calling(p) /\ BoxOf(p) \in Boxes /\ OnlyMoves(p) /\ handle' = handle
    BY CallStep
  <1>2. PICK b \in Boxes : b = BoxOf(p)
    BY <1>1
  <1>3. Running(p) /\ pc[p] \in {"send", "recv"} /\ Holding(p) /\ UNCHANGED <<box, arg, sent, rcvd>>
    BY DEF SendLook, RecvLook, Look, At, Running, Holding
  <1>4. \A c : (Opened(c)' <=> Opened(c)) /\ BoxOf(p)' = BoxOf(p)
    BY <1>1, <1>3 DEF Opened, BoxOf
  <1>5. \A c \in Boxes \ {b} : Sound(c)'
    BY <1>1, <1>2, <1>3, <1>4, SoundKept DEF BoxInv
  <1>6. ~PutIn(b) /\ ~TakeIn(b)
    <2> SUFFICES ASSUME NEW q \in Proc, pc[q] \in {"put_count", "take_count"}, BoxOf(q) = b PROVE FALSE
      BY DEF PutIn, TakeIn
    <2>1. Holding(q)
      BY DEF Holding, Critical
    <2> QED BY <1>2, <1>3, <2>1, OneInside
  <1>7. Sound(b)
    BY DEF BoxInv
  <1>8. Sound(b)'
    <2>1. CASE UNCHANGED pc
      BY <1>1, <1>3, <1>4, <1>7, <2>1, SoundKept
    <2>2. CASE ~UNCHANGED pc
      <3>1. \/ pc[p] = "send" /\ pc'[p] = "put" /\ box[b].contents # MAILBOX_SIZE
            \/ pc[p] = "recv" /\ pc'[p] = "take_mail" /\ box[b].contents # 0
        BY <1>2, <2>2 DEF SendLook, RecvLook, Look, At, Goto, BoxTypes
      <3>2. Len(box[b].queue) = box[b].contents /\ Len(box[b].queue) <= MAILBOX_SIZE
        BY <1>6, <1>7 DEF Sound, Counted
      <3>3. Len(box[b].queue) \in Nat /\ Len(<<>>) = 0 /\ MAILBOX_SIZE \in Nat
        BY BoxFields, LenProperties, MailboxAssumption
      <3>4. /\ pc'[p] = "put" => Len(box[b].queue) < MAILBOX_SIZE
            /\ pc'[p] = "take_mail" => box[b].queue # <<>>
        BY <3>1, <3>2, <3>3
      <3>5. Looked(b)'
        BY <1>1, <1>3, <1>7, <3>4 DEF Looked, Sound, OnlyMoves, BoxOf
      <3>6. (PutIn(b)' <=> PutIn(b)) /\ (TakeIn(b)' <=> TakeIn(b))
        BY <1>1, <1>3, <3>1 DEF PutIn, TakeIn, OnlyMoves, BoxOf
      <3>7. Counted(b)'
        BY <1>3, <1>7, <3>6 DEF Counted, Sound
      <3>8. Ordered(b)' /\ Linked(b)'
        BY <1>3, <1>4, <1>7 DEF Ordered, Linked, Sound
      <3> QED BY <3>5, <3>7, <3>8 DEF Sound
    <2> QED BY <2>1, <2>2
  <1> QED BY <1>5, <1>8 DEF BoxInv

\* Nobody else is at a label that its box's state depends on.
LEMMA NobodyElse ==
    ASSUME BoxTypes, LockInv, CallInv, NEW p \in Proc, pc[p] \in Critical, OnlyMoves(p), arg'[p] = arg[p],
           NEW b \in Boxes, b = BoxOf(p)
    PROVE  /\ \A q \in Proc \ {p} : ~(pc[q] \in Critical /\ BoxOf(q) = b)
           /\ PutIn(b) <=> pc[p] = "put_count"
           /\ TakeIn(b) <=> pc[p] = "take_count"
           /\ PutIn(b)' <=> pc'[p] = "put_count"
           /\ TakeIn(b)' <=> pc'[p] = "take_count"
           /\ pc'[p] \notin {"put", "take_mail"} => Looked(b)'
  <1>1. \A q \in Proc \ {p} : ~(pc[q] \in Critical /\ BoxOf(q) = b)
    BY OneInside DEF Holding
  <1>2. \A q \in Proc \ {p} : pc'[q] = pc[q] /\ BoxOf(q)' = BoxOf(q)
    BY DEF OnlyMoves, BoxOf
  <1>3. BoxOf(p)' = b
    BY DEF BoxOf
  <1> QED BY <1>1, <1>2, <1>3 DEF PutIn, TakeIn, Looked, Critical

\* mbox_send stores its mail: there is a slot, as it has looked under the lock.
LEMMA PutKeeps ==
    ASSUME BoxTypes, LockInv, CallInv, OpenInv, BoxInv, NEW p \in Proc, Put(p)
    PROVE  BoxInv'
  <1>1. Calling(p) /\ BoxOf(p) \in Boxes /\ OnlyMoves(p) /\ handle' = handle /\ arg' = arg
    BY CallStep DEF Put
  <1>2. PICK b \in Boxes : b = BoxOf(p)
    BY <1>1
  <1>3. /\ pc[p] = "put" /\ arg[p].short \in BOOLEAN
        /\ pc'[p] = IF arg[p].short THEN "put_count" ELSE "send_wake"
    BY <1>1, ArgTypes DEF Put, At, Goto, BoxTypes
  <1>4. \A c : (Opened(c)' <=> Opened(c)) /\ BoxOf(p)' = BoxOf(p)
    BY <1>1 DEF Opened, BoxOf
  <1>5. \A c \in Boxes \ {b} : box'[c] = box[c] /\ sent'[c] = sent[c] /\ rcvd'[c] = rcvd[c]
    BY <1>2, CallBox DEF OnlyBox
  <1>6. \A c \in Boxes \ {b} : Sound(c)'
    BY <1>1, <1>2, <1>3, <1>4, <1>5, SoundKept DEF BoxInv
  <1>7. Sound(b) /\ Opened(b)
    BY <1>1, <1>2 DEF BoxInv, OpenInv
  <1>8. CASE ~arg[p].short
    <2>1. UNCHANGED <<box, sent, rcvd>>
      BY <1>8 DEF Put
    <2>2. Sound(b)'
      BY <1>1, <1>3, <1>4, <1>7, <1>8, <2>1, SoundKept
    <2> QED BY <1>6, <2>2 DEF BoxInv
  <1>9. CASE arg[p].short
    <2>1. /\ ~PutIn(b) /\ ~TakeIn(b) /\ PutIn(b)' /\ ~TakeIn(b)' /\ Looked(b)'
      BY <1>1, <1>2, <1>3, <1>9, NobodyElse DEF Critical
    <2>2. Len(box[b].queue) < MAILBOX_SIZE /\ Len(box[b].queue) = box[b].contents
      BY <1>2, <1>3, <1>7, <2>1 DEF Sound, Looked, Counted
    <2>3. /\ InOrder(sent[b], rcvd[b], box[b].queue, box[b].content)
          /\ Distinct(box[b].queue) /\ Marked(box[b].queue, box[b].avail)
      BY <1>7 DEF Sound, Ordered, Linked
    <2> DEFINE free == {j \in 1..MAILBOX_SIZE : box[b].avail[j]}
    <2>4. free # {}
      BY <2>2, <2>3, BoxFields, SlotLeft
    <2>5. First(free) \in free /\ Text(arg[p].msg) \in Texts
      BY <1>3, <2>4, FreeSlot, ArgTypes
    <2>6. PICK i \in 1..MAILBOX_SIZE, t \in Texts : i = First(free) /\ t = Text(arg[p].msg) /\ box[b].avail[i]
      BY <2>5
    <2>7. /\ box' = [box EXCEPT ![b] = Stored(@, i, t)] /\ rcvd' = rcvd
          /\ sent' = [sent EXCEPT ![b] = Append(@, t)]
      BY <1>2, <1>9, <2>4, <2>6 DEF Put
    <2> HIDE DEF free
    <2>8. /\ box'[b].queue = Append(box[b].queue, i) /\ box'[b].contents = box[b].contents
          /\ box'[b].avail = Filled(box[b].avail, i)
          /\ box'[b].content = With(box[b].content, i, t)
      <3>1. box'[b] = Stored(box[b], i, t)
        BY <2>7 DEF BoxTypes
      <3>2. PICK x \in Box : x = box[b]
        BY BoxFields
      <3>3. /\ Stored(x, i, t).contents = x.contents
            /\ Stored(x, i, t).queue = Append(x.queue, i)
            /\ Stored(x, i, t).avail = Filled(x.avail, i)
            /\ Stored(x, i, t).content = With(x.content, i, t)
        BY BoxStored
      <3> QED BY <3>1, <3>2, <3>3
    <2>9. sent'[b] = Append(sent[b], t) /\ rcvd'[b] = rcvd[b]
      BY <2>7 DEF BoxTypes
    <2>10. /\ InOrder(Append(sent[b], t), rcvd[b], Append(box[b].queue, i), With(box[b].content, i, t))
           /\ Distinct(Append(box[b].queue, i))
           /\ Marked(Append(box[b].queue, i), Filled(box[b].avail, i))
           /\ Len(Append(box[b].queue, i)) = Len(box[b].queue) + 1
      BY <2>3, <2>6, BoxFields, OneMore
    <2>11. Ordered(b)' /\ Linked(b)'
      BY <2>8, <2>9, <2>10 DEF Ordered, Linked
    <2>12. Len(box[b].queue) \in Nat /\ MAILBOX_SIZE \in Nat
      BY BoxFields, LenProperties, MailboxAssumption
    <2>13. Counted(b)'
      BY <2>1, <2>2, <2>8, <2>10, <2>12 DEF Counted
    <2>14. Sound(b)'
      BY <2>1, <2>11, <2>13 DEF Sound
    <2> QED BY <1>6, <2>14 DEF BoxInv
  <1> QED BY <1>3, <1>8, <1>9

\* mbox_recv takes its mail: there is one.
LEMMA TakeKeeps ==
    ASSUME BoxTypes, LockInv, CallInv, OpenInv, BoxInv, NEW p \in Proc, TakeMail(p)
    PROVE  BoxInv'
  <1>1. Calling(p) /\ BoxOf(p) \in Boxes /\ OnlyMoves(p) /\ handle' = handle /\ arg' = arg
    BY CallStep DEF TakeMail
  <1>2. PICK b \in Boxes : b = BoxOf(p)
    BY <1>1
  <1>3. /\ pc[p] = "take_mail" /\ arg[p].short \in BOOLEAN
        /\ pc'[p] = IF arg[p].short THEN "take_count" ELSE "recv_wake"
    BY <1>1, ArgTypes DEF TakeMail, At, Goto, BoxTypes
  <1>4. \A c : (Opened(c)' <=> Opened(c)) /\ BoxOf(p)' = BoxOf(p)
    BY <1>1 DEF Opened, BoxOf
  <1>5. \A c \in Boxes \ {b} : box'[c] = box[c] /\ sent'[c] = sent[c] /\ rcvd'[c] = rcvd[c]
    BY <1>2, CallBox DEF OnlyBox
  <1>6. \A c \in Boxes \ {b} : Sound(c)'
    BY <1>1, <1>2, <1>3, <1>4, <1>5, SoundKept DEF BoxInv
  <1>7. Sound(b) /\ Opened(b)
    BY <1>1, <1>2 DEF BoxInv, OpenInv
  <1>8. CASE ~arg[p].short
    <2>1. UNCHANGED <<box, sent, rcvd>>
      BY <1>8 DEF TakeMail
    <2>2. Sound(b)'
      BY <1>1, <1>3, <1>4, <1>7, <1>8, <2>1, SoundKept
    <2> QED BY <1>6, <2>2 DEF BoxInv
  <1>9. CASE arg[p].short
    <2>1. /\ ~PutIn(b) /\ ~TakeIn(b) /\ ~PutIn(b)' /\ TakeIn(b)' /\ Looked(b)'
      BY <1>1, <1>2, <1>3, <1>9, NobodyElse DEF Critical
    <2>2. /\ box[b].queue # <<>> /\ Len(box[b].queue) = box[b].contents
          /\ Len(box[b].queue) <= MAILBOX_SIZE
      BY <1>2, <1>3, <1>7, <2>1 DEF Sound, Looked, Counted
    <2>3. /\ InOrder(sent[b], rcvd[b], box[b].queue, box[b].content)
          /\ Distinct(box[b].queue) /\ Marked(box[b].queue, box[b].avail)
      BY <1>7 DEF Sound, Ordered, Linked
    <2>4. Head(box[b].queue) \in 1..MAILBOX_SIZE
      BY <2>2, BoxFields, HeadTailProperties
    <2>5. PICK i \in 1..MAILBOX_SIZE : i = Head(box[b].queue)
      BY <2>4
    <2>6. /\ box' = [box EXCEPT ![b] = Fetched(@, i)] /\ sent' = sent
          /\ rcvd' = [rcvd EXCEPT ![b] = Append(@, box[b].content[i])]
      BY <1>2, <1>9, <2>5 DEF TakeMail
    <2>7. /\ box'[b].queue = Tail(box[b].queue) /\ box'[b].contents = box[b].contents
          /\ box'[b].avail = [box[b].avail EXCEPT ![i] = TRUE]
          /\ box'[b].content = box[b].content
      <3>1. box'[b] = Fetched(box[b], i)
        BY <2>6 DEF BoxTypes
      <3>2. PICK x \in Box : x = box[b]
        BY BoxFields
      <3>3. /\ Fetched(x, i).contents = x.contents
            /\ Fetched(x, i).queue = Tail(x.queue)
            /\ Fetched(x, i).avail = [x.avail EXCEPT ![i] = TRUE]
            /\ Fetched(x, i).content = x.content
        BY <2>2, <3>2, BoxFetched
      <3> QED BY <3>1, <3>2, <3>3
    <2>8. rcvd'[b] = Append(rcvd[b], box[b].content[i]) /\ sent'[b] = sent[b]
      BY <2>6 DEF BoxTypes
    <2>9. /\ InOrder(sent[b], Append(rcvd[b], box[b].content[i]), Tail(box[b].queue), box[b].content)
          /\ Distinct(Tail(box[b].queue))
          /\ Marked(Tail(box[b].queue), [box[b].avail EXCEPT ![i] = TRUE])
          /\ Len(Tail(box[b].queue)) = Len(box[b].queue) - 1
      BY <2>2, <2>3, <2>5, BoxFields, OneLess
    <2>10. Ordered(b)' /\ Linked(b)'
      BY <2>7, <2>8, <2>9 DEF Ordered, Linked
    <2>11. Len(box[b].queue) \in Nat /\ MAILBOX_SIZE \in Nat
      BY BoxFields, LenProperties, MailboxAssumption
    <2>12. Counted(b)'
      BY <2>1, <2>2, <2>7, <2>9, <2>11 DEF Counted
    <2>13. Sound(b)'
      BY <2>1, <2>10, <2>12 DEF Sound
    <2> QED BY <1>6, <2>13 DEF BoxInv
  <1> QED BY <1>3, <1>8, <1>9

\* The counter is brought in step with the queue.
LEMMA CountKeeps ==
    ASSUME BoxTypes, LockInv, CallInv, OpenInv, BoxInv, NEW p \in Proc, Count(p)
    PROVE  BoxInv'
  <1>1. Calling(p) /\ BoxOf(p) \in Boxes /\ OnlyMoves(p) /\ handle' = handle /\ UNCHANGED <<arg, sent, rcvd>>
    BY CallStep DEF Count
  <1>2. PICK b \in Boxes : b = BoxOf(p)
    BY <1>1
  <1>3. PICK d \in {-1, 1} :
           /\ pc[p] = IF d = 1 THEN "put_count" ELSE "take_count"
           /\ pc'[p] = IF d = 1 THEN "send_wake" ELSE "recv_wake"
           /\ box' = [box EXCEPT ![b].contents = @ + d]
    <2>1. CASE pc[p] = "put_count"
      BY <1>2, <2>1 DEF Count, At, Goto, BoxTypes
    <2>2. CASE pc[p] = "take_count"
      <3>1. box[b].contents \in Int
        BY BoxFields
      <3>2. box[b].contents - 1 = box[b].contents + (-1)
        BY <3>1
      <3> QED BY <1>2, <2>2, <3>2 DEF Count, At, Goto, BoxTypes
    <2> QED BY <2>1, <2>2 DEF Count, At
  <1>4. \A c : (Opened(c)' <=> Opened(c)) /\ BoxOf(p)' = BoxOf(p)
    BY <1>1 DEF Opened, BoxOf
  <1>5. \A c \in Boxes \ {b} : box'[c] = box[c] /\ sent'[c] = sent[c] /\ rcvd'[c] = rcvd[c]
    BY <1>2, CallBox DEF OnlyBox
  <1>6. \A c \in Boxes \ {b} : Sound(c)'
    BY <1>1, <1>2, <1>3, <1>4, <1>5, SoundKept DEF BoxInv
  <1>7. /\ box'[b].queue = box[b].queue /\ box'[b].contents = box[b].contents + d
        /\ box'[b].avail = box[b].avail /\ box'[b].content = box[b].content
    BY <1>3 DEF BoxTypes, Box
  <1>8. /\ ~PutIn(b)' /\ ~TakeIn(b)' /\ Looked(b)'
        /\ PutIn(b) <=> d = 1
        /\ TakeIn(b) <=> d = -1
    BY <1>1, <1>2, <1>3, NobodyElse DEF Critical
  <1>9. Sound(b)
    BY DEF BoxInv
  <1>10. Ordered(b)' /\ Linked(b)'
    BY <1>1, <1>4, <1>7, <1>9 DEF Ordered, Linked, Sound
  <1>11. box[b].contents \in Int /\ Len(box[b].queue) \in Nat
    BY BoxFields, LenProperties
  <1>12. Len(box[b].queue) = box[b].contents + d
    BY <1>3, <1>8, <1>9, <1>11 DEF Sound, Counted
  <1>13. Counted(b)'
    BY <1>7, <1>8, <1>9, <1>12 DEF Counted, Sound
  <1>14. Sound(b)'
    BY <1>8, <1>10, <1>13 DEF Sound
  <1> QED BY <1>6, <1>14 DEF BoxInv

\* A box without mails that nobody uses.
LEMMA FreshBox ==
    ASSUME NEW b \in Boxes, box'[b].queue = <<>>, box'[b].contents = 0,
           sent'[b] = <<>>, rcvd'[b] = <<>>,
           Opened(b)' => \A i \in 1..MAILBOX_SIZE : box'[b].avail[i] = TRUE,
           \A q \in Proc : pc'[q] \in Critical => BoxOf(q)' # b
    PROVE  Sound(b)'
  <1>1. Len(<<>>) = 0 /\ 1..0 = {} /\ MAILBOX_SIZE >= 0
    BY MailboxAssumption
  <1>2. ~PutIn(b)' /\ ~TakeIn(b)' /\ Looked(b)'
    BY DEF PutIn, TakeIn, Looked, Critical
  <1>3. Ordered(b)'
    BY <1>1 DEF Ordered, InOrder
  <1>4. Counted(b)'
    BY <1>1, <1>2 DEF Counted
  <1>5. Linked(b)'
    BY <1>1 DEF Linked, Distinct, Marked
  <1> QED BY <1>2, <1>3, <1>4, <1>5 DEF Sound

\* An open touches boxes that nobody uses.
LEMMA OpeningKeeps ==
    ASSUME BoxTypes, OpenInv, OpenerInv, BoxInv, NEW p \in Proc,
           OpenTake(p) \/ OpenInit(p) \/ OpenMails(p) \/ \E n \in Names : OpenSearch(p, n)
    PROVE  BoxInv'
  <1>1. /\ pc \in [Proc -> Labels] /\ arg \in [Proc -> Chosen \cup Called \cup {NULL}]
        /\ handle \in [Proc -> [Names -> Boxes \cup {NULL}]] /\ box \in [Boxes -> Box]
    BY DEF BoxTypes
  <1>2. /\ pc[p] \in {"idle"} \cup Opening /\ pc'[p] \in {"idle"} \cup Opening /\ OnlyMoves(p)
        /\ UNCHANGED <<sent, rcvd>>
    <2>1. CASE \E n \in Names : OpenSearch(p, n)
      BY <1>1, <2>1 DEF OpenSearch, At, Goto, OnlyMoves, Opening
    <2>2. CASE OpenTake(p) \/ OpenInit(p)
      BY <1>1, <2>2 DEF OpenTake, OpenInit, At, Goto, OnlyMoves, Opening
    <2>3. CASE OpenMails(p)
      BY <1>1, <2>3 DEF OpenMails, Returns, At, Goto, OnlyMoves, Opening
    <2> QED BY <2>1, <2>2, <2>3
  <1>3. pc[p] \notin Critical /\ pc'[p] \notin Critical
    BY <1>2 DEF Opening, Critical
  <1>4. ASSUME NEW b \in Boxes, box'[b] = box[b], Opened(b)' => Opened(b) PROVE Sound(b)'
    BY <1>2, <1>3, <1>4, SoundKept DEF BoxInv, Critical
  <1>5. CASE \E n \in Names : OpenSearch(p, n)
    <2>1. PICK n \in Names : OpenSearch(p, n)
      BY <1>5
    <2>2. \A c \in Boxes : Opened(c)' => Opened(c)
      <3>1. CASE handle' = handle
        BY <3>1 DEF Opened
      <3>2. CASE Named(n) # {} /\ handle' = [handle EXCEPT ![p][n] = First(Named(n))]
        <4>1. PICK b \in Boxes : b = First(Named(n)) /\ box[b].busy
          BY <3>2, Found DEF Named
        <4>2. Opened(b)
          BY <2>1, <4>1 DEF OpenInv, OpenSearch
        <4> QED BY <1>1, <3>2, <4>1, <4>2 DEF Opened
      <3> QED BY <2>1, <3>1, <3>2 DEF OpenSearch
    <2> QED BY <1>4, <2>1, <2>2 DEF OpenSearch, BoxInv
  <1>6. CASE OpenInit(p)
    BY <1>4, <1>6 DEF OpenInit, Opened, BoxInv
  <1>7. CASE OpenTake(p) \/ OpenMails(p)
    <2>1. pc[p] \in Opening
      BY <1>7 DEF OpenTake, OpenMails, At, Opening
    <2>2. PICK b \in Boxes, n \in Names : b = BoxOf(p) /\ n = arg[p].name
      BY <2>1, ArgTypes
    <2>3. ~Opened(b) /\ Untouched(b)
      BY <2>1, <2>2 DEF OpenInv
    <2>4. /\ \A c \in Boxes \ {b} : box'[c] = box[c]
          /\ box'[b].queue = <<>> /\ box'[b].contents = 0
          /\ handle' = handle \/ (/\ handle' = [handle EXCEPT ![p][n] = b]
                                  /\ \A i \in 1..MAILBOX_SIZE : box'[b].avail[i] = TRUE)
      <3>1. CASE OpenTake(p)
        <4>1. box' = [box EXCEPT ![b] = Taken(@, n)] /\ handle' = handle
          BY <2>2, <3>1 DEF OpenTake
        <4>2. Taken(box[b], n).queue = <<>> /\ Taken(box[b], n).contents = 0
          BY BoxFields, BoxTaken
        <4> QED BY <1>1, <4>1, <4>2
      <3>2. CASE OpenMails(p)
        <4>1. /\ box' = [box EXCEPT ![b].avail = [i \in 1..MAILBOX_SIZE |-> TRUE]]
              /\ handle' = [handle EXCEPT ![p][n] = b]
          BY <2>2, <3>2 DEF OpenMails
        <4>2. /\ \A c \in Boxes \ {b} : box'[c] = box[c]
              /\ box'[b].queue = box[b].queue /\ box'[b].contents = box[b].contents
              /\ box'[b].avail = [i \in 1..MAILBOX_SIZE |-> TRUE]
          BY <1>1, <4>1 DEF Box
        <4>3. \A i \in 1..MAILBOX_SIZE : box'[b].avail[i] = TRUE
          BY <4>2
        <4> QED BY <2>3, <4>1, <4>2, <4>3 DEF Untouched
      <3> QED BY <1>7, <3>1, <3>2
    <2>5. \A c \in Boxes : Opened(c)' => Opened(c) \/ (c = b /\ \A i \in 1..MAILBOX_SIZE : box'[b].avail[i] = TRUE)
      <3>1. CASE handle' = handle
        BY <3>1 DEF Opened
      <3>2. CASE handle' = [handle EXCEPT ![p][n] = b]
        <4>1. \A c \in Boxes : Opened(c)' => Opened(c) \/ c = b
          BY <1>1, <3>2 DEF Opened
        <4>2. handle[p][n] # b
          BY <2>3 DEF Opened
        <4>3. handle' # handle
          BY <1>1, <3>2, <4>2
        <4> QED BY <2>4, <4>1, <4>3
      <3> QED BY <2>4, <3>1, <3>2
    <2>6. \A c \in Boxes \ {b} : Sound(c)'
      BY <1>4, <2>4, <2>5
    <2>7. \A q \in Proc : pc'[q] \in Critical => BoxOf(q)' # b
      <3> SUFFICES ASSUME NEW q \in Proc, pc'[q] \in Critical, BoxOf(q)' = b PROVE FALSE
        OBVIOUS
      <3>1. q # p /\ pc[q] \in Critical /\ BoxOf(q) = b
        BY <1>2, <1>3 DEF OnlyMoves, BoxOf
      <3> QED BY <2>3, <3>1 DEF OpenInv, Calling
    <2>8. sent'[b] = <<>> /\ rcvd'[b] = <<>>
      BY <1>2, <2>3 DEF Untouched
    <2>9. Sound(b)'
      BY <2>3, <2>4, <2>5, <2>7, <2>8, FreshBox
    <2> QED BY <2>6, <2>9 DEF BoxInv
  <1> QED BY <1>5, <1>6, <1>7

\* BoxInv is kept.
LEMMA StepBox ==
    ASSUME BoxTypes, LockInv, CallInv, OpenInv, OpenerInv, BoxInv, MNext
    PROVE  BoxInv'
  <1>1. PICK p \in Proc :
           \/ UNCHANGED mvars
           \/ \E n \in Names :
                 \/ OpenSearch(p, n)
                 \/ \E short \in BOOLEAN : Recv(p, n, short) \/ \E m \in Mails : Send(p, n, m, short)
           \/ Within(p)
    BY DEF MNext
  <1>2. pc \in [Proc -> Labels] /\ arg \in [Proc -> Chosen \cup Called \cup {NULL}]
    BY DEF BoxTypes
  <1>3. CASE UNCHANGED mvars
    <2>1. UNCHANGED <<box, pc, arg, handle, sent, rcvd>>
      BY <1>3 DEF mvars
    <2> SUFFICES ASSUME NEW b \in Boxes PROVE Sound(b)'
      BY DEF BoxInv
    <2>2. Sound(b)
      BY DEF BoxInv
    <2>3. /\ (Opened(b)' <=> Opened(b)) /\ (Looked(b)' <=> Looked(b))
          /\ (PutIn(b)' <=> PutIn(b)) /\ (TakeIn(b)' <=> TakeIn(b))
      BY <2>1 DEF Opened, PutIn, TakeIn, Looked, BoxOf
    <2>4. Ordered(b)' /\ Linked(b)'
      BY <2>1, <2>2, <2>3 DEF Ordered, Linked, Sound
    <2>5. Counted(b)'
      BY <2>1, <2>2, <2>3 DEF Counted, Sound
    <2> QED BY <2>2, <2>3, <2>4, <2>5 DEF Sound
  <1>4. CASE \E n \in Names, short \in BOOLEAN :
               Recv(p, n, short) \/ \E m \in Mails : Send(p, n, m, short)
    <2>1. PICK n \in Names, short \in BOOLEAN, label \in {"send", "recv"}, m \in Mails \cup {NULL} :
             Begin(p, n, label, m, short)
      BY <1>4 DEF Recv, Send
    <2>2. /\ OnlyMoves(p) /\ pc[p] = "idle" /\ pc'[p] \in {"send", "recv"}
          /\ UNCHANGED <<box, handle, sent, rcvd>>
      BY <1>2, <2>1 DEF Begin, At, OnlyMoves, Goto
    <2>3. \A b : Opened(b)' <=> Opened(b)
      BY <2>2 DEF Opened
    <2> QED BY <2>2, <2>3, SoundKept DEF BoxInv
  <1>5. CASE \E b \in Boxes : Resume(p, b)
    BY <1>3, <1>5 DEF Resume
  <1>6. CASE Wake(p) \/ Finish(p)
    <2>1. /\ OnlyMoves(p) /\ UNCHANGED <<box, handle, sent, rcvd>>
          /\ pc[p] \in {"send_wake", "recv_wake", "unlock"} /\ pc'[p] \in {"unlock", "idle"}
      BY <1>2, <1>6, CallStep DEF Wake, Finish, At, Returns, Goto
    <2>2. \A b : Opened(b)' <=> Opened(b)
      BY <2>1 DEF Opened
    <2> QED BY <2>1, <2>2, SoundKept DEF BoxInv
  <1>7. CASE SendLook(p) \/ RecvLook(p)
    BY <1>7, LookKeeps
  <1>8. CASE Put(p)
    BY <1>8, PutKeeps
  <1>9. CASE TakeMail(p)
    BY <1>9, TakeKeeps
  <1>10. CASE Count(p)
    BY <1>10, CountKeeps
  <1> QED BY <1>1, <1>3, <1>4, <1>5, <1>6, <1>7, <1>8, <1>9, <1>10, OpeningKeeps DEF Within

---------------------------------------------------------------------------
\* NoneForgotten, box by box.
WillFeed(b) == \E q \in Proc : pc[q] \in {"put_count", "send_wake"} /\ BoxOf(q) = b
WillFree(b) == \E q \in Proc : pc[q] \in {"take_count", "recv_wake"} /\ BoxOf(q) = b
Fed(b)   == (\E p \in Proc : at[p] = On(Empty(b))) => box[b].queue = <<>> \/ WillFeed(b)
Freed(b) == (\E p \in Proc : at[p] = On(Full(b))) => Len(box[b].queue) = MAILBOX_SIZE \/ WillFree(b)

\* NoneForgotten box by box is NoneForgotten.
LEMMA ForgottenMeans == NoneForgotten <=> \A b \in Boxes : Fed(b) /\ Freed(b)
  BY DEF NoneForgotten, Fed, Freed, WillFeed, WillFree

\* Nobody has begun to wait on a condition of a box.
NoNewWaiter(b) == \A q \in Proc : /\ at'[q] = On(Empty(b)) => at[q] = On(Empty(b))
                                  /\ at'[q] = On(Full(b)) => at[q] = On(Full(b))

\* Only p itself may begin to wait.
LEMMA SparedWait ==
    ASSUME NEW p \in Proc, Spared(p), NEW b \in Boxes, at'[p] # On(Empty(b)), at'[p] # On(Full(b))
    PROVE  NoNewWaiter(b)
  BY PlacesDiffer DEF Spared, NoNewWaiter

\* A step that adds no waiter and takes no wake-up away.
LEMMA FedKept ==
    ASSUME NEW b \in Boxes, Fed(b) /\ Freed(b), NEW p \in Proc, OnlyMoves(p), NoNewWaiter(b),
           box'[b].queue = box[b].queue,
           \/ ~(pc[p] \in {"put_count", "send_wake"} /\ BoxOf(p) = b)
           \/ pc'[p] \in {"put_count", "send_wake"} /\ BoxOf(p)' = b
           \/ \A q \in Proc : at'[q] # On(Empty(b)),
           \/ ~(pc[p] \in {"take_count", "recv_wake"} /\ BoxOf(p) = b)
           \/ pc'[p] \in {"take_count", "recv_wake"} /\ BoxOf(p)' = b
           \/ \A q \in Proc : at'[q] # On(Full(b))
    PROVE  Fed(b)' /\ Freed(b)'
  <1>1. \A q \in Proc \ {p} : pc'[q] = pc[q] /\ BoxOf(q)' = BoxOf(q)
    BY DEF OnlyMoves, BoxOf
  <1>2. (\A q \in Proc : at'[q] # On(Empty(b))) \/ (WillFeed(b) => WillFeed(b)')
    BY <1>1 DEF WillFeed
  <1>3. (\A q \in Proc : at'[q] # On(Full(b))) \/ (WillFree(b) => WillFree(b)')
    BY <1>1 DEF WillFree
  <1>4. Fed(b)'
    BY <1>2 DEF Fed, NoNewWaiter
  <1>5. Freed(b)'
    BY <1>3 DEF Freed, NoNewWaiter
  <1> QED BY <1>4, <1>5

\* A process that begins or resumes a call waits for a lock at most.
LEMMA AcquireWaits ==
    ASSUME TypeOK, RunningReady, NEW p \in Proc, NEW b \in Boxes, Acquire(p, LockOf(b)),
           locks[p] = NoSlots, NEW c \in Boxes
    PROVE  NoNewWaiter(c)
  <1>1. Spared(p) /\ at'[p] \in {Ready, On(LockOf(b))}
    BY AcquireEffect
  <1>2. at'[p] # On(Empty(c)) /\ at'[p] # On(Full(c))
    BY <1>1, PlacesDiffer, BoxObjects
  <1> QED BY <1>1, <1>2, SparedWait

\* The while loop: whoever waits has found the box empty, or full, under the lock.
LEMMA LookForgets ==
    ASSUME BoxTypes, LockInv, CallInv, BoxInv, NoneForgotten, NEW p \in Proc, SendLook(p) \/ RecvLook(p)
    PROVE  NoneForgotten'
  <1>0. TypeOK /\ RunningReady
    BY DEF LockInv
  <1>1. Calling(p) /\ OnlyMoves(p) /\ BoxOf(p) \in Boxes
    BY CallStep
  <1>2. PICK b \in Boxes : b = BoxOf(p)
    BY <1>1
  <1>3. /\ pc[p] \in {"send", "recv"} /\ Running(p) /\ Holding(p) /\ Alone(p)
        /\ UNCHANGED <<box, arg>>
    <2>1. pc[p] \in {"send", "recv"} /\ Running(p) /\ Holding(p) /\ UNCHANGED <<box, arg>>
      BY DEF SendLook, RecvLook, Look, At, Running, Holding
    <2> QED BY <2>1 DEF CallInv, Proper
  <1>4. \A c \in Boxes : Fed(c) /\ Freed(c)
    BY ForgottenMeans
  <1>5. CASE UNCHANGED vars
    <2>1. \A c \in Boxes : NoNewWaiter(c)
      BY <1>5 DEF vars, NoNewWaiter
    <2>2. \A c \in Boxes : Fed(c)' /\ Freed(c)'
      BY <1>1, <1>3, <1>4, <2>1, FedKept
    <2> QED BY <2>2, ForgottenMeans DEF NoneForgotten, Fed, Freed, WillFeed, WillFree
  <1>6. CASE /\ UNCHANGED pc
             /\ \/ /\ DoConditionWait(p, LockOf(b), Full(b)) /\ box[b].contents = MAILBOX_SIZE
                \/ /\ DoConditionWait(p, LockOf(b), Empty(b)) /\ box[b].contents = 0
    <2>1. PICK o \in Conds :
             /\ DoConditionWait(p, LockOf(b), o)
             /\ \/ o = Full(b) /\ box[b].contents = MAILBOX_SIZE
                \/ o = Empty(b) /\ box[b].contents = 0
      BY <1>6, BoxObjects
    <2>2. Spared(p) /\ at'[p] = On(o)
      BY <1>0, <1>2, <1>3, <2>1, CondWaitEffect DEF Alone
    <2>3. ASSUME NEW c \in Boxes, c # b PROVE Fed(c)' /\ Freed(c)'
      <3>1. at'[p] # On(Empty(c)) /\ at'[p] # On(Full(c))
        BY <2>1, <2>2, <2>3, PlacesDiffer, BoxObjects
      <3>2. NoNewWaiter(c)
        BY <2>2, <3>1, SparedWait
      <3> QED BY <1>1, <1>3, <1>4, <3>2, FedKept
    <2>4. Len(box[b].queue) = box[b].contents
      <3>1. ~PutIn(b) /\ ~TakeIn(b)
        <4> SUFFICES ASSUME NEW q \in Proc, pc[q] \in {"put_count", "take_count"}, BoxOf(q) = b PROVE FALSE
          BY DEF PutIn, TakeIn
        <4>1. Holding(q)
          BY DEF Holding, Critical
        <4> QED BY <1>2, <1>3, <4>1, OneInside
      <3> QED BY <3>1 DEF BoxInv, Sound, Counted
    <2>5. (WillFeed(b)' <=> WillFeed(b)) /\ (WillFree(b)' <=> WillFree(b))
      BY <1>3, <1>6 DEF WillFeed, WillFree, BoxOf
    <2>6. Fed(b)'
      <3>1. CASE o = Full(b)
        <4>1. at'[p] # On(Empty(b))
          BY <2>2, <3>1, PlacesDiffer, BoxObjects
        <4>2. \A q \in Proc : at'[q] = On(Empty(b)) => at[q] = On(Empty(b))
          BY <2>2, <4>1, PlacesDiffer DEF Spared
        <4> QED BY <1>3, <1>4, <2>5, <4>2 DEF Fed
      <3>2. CASE o = Empty(b) /\ box[b].contents = 0
        <4>1. box[b].queue = <<>>
          BY <2>4, <3>2, BoxFields, EmptySeq
        <4> QED BY <1>3, <4>1 DEF Fed
      <3> QED BY <2>1, <3>1, <3>2
    <2>7. Freed(b)'
      <3>1. CASE o = Empty(b)
        <4>1. at'[p] # On(Full(b))
          BY <2>2, <3>1, PlacesDiffer, BoxObjects
        <4>2. \A q \in Proc : at'[q] = On(Full(b)) => at[q] = On(Full(b))
          BY <2>2, <4>1, PlacesDiffer DEF Spared
        <4> QED BY <1>3, <1>4, <2>5, <4>2 DEF Freed
      <3>2. CASE o = Full(b) /\ box[b].contents = MAILBOX_SIZE
        BY <1>3, <2>4, <3>2 DEF Freed
      <3> QED BY <2>1, <3>1, <3>2
    <2> QED BY <2>3, <2>6, <2>7 DEF NoneForgotten, Fed, Freed, WillFeed, WillFree
  <1> QED BY <1>2, <1>5, <1>6 DEF SendLook, RecvLook, Look, InUser

\* Put and TakeMail: p is about to wake those it may have given a reason to go
\* on, and had looked that the others' reason to wait was gone already.
LEMMA MailForgets ==
    ASSUME BoxTypes, CallInv, BoxInv, NoneForgotten, NEW p \in Proc, Put(p) \/ TakeMail(p)
    PROVE  NoneForgotten'
  <1>1. Calling(p) /\ OnlyMoves(p) /\ BoxOf(p) \in Boxes /\ UNCHANGED <<arg, at>>
    BY CallStep DEF Put, TakeMail, InUser, vars
  <1>2. PICK b \in Boxes : b = BoxOf(p)
    BY <1>1
  <1>3. pc[p] \in {"put", "take_mail"} /\ \A c \in Boxes \ {b} : box'[c] = box[c]
    BY <1>2, CallBox DEF OnlyBox, Put, TakeMail, At
  <1>4. \A c \in Boxes : Fed(c) /\ Freed(c) /\ NoNewWaiter(c)
    BY <1>1, ForgottenMeans DEF NoNewWaiter
  <1>5. \A q \in Proc \ {p} : pc'[q] = pc[q] /\ BoxOf(q)' = BoxOf(q)
    BY <1>1 DEF OnlyMoves, BoxOf
  <1>6. BoxOf(p)' = b
    BY <1>1, <1>2 DEF BoxOf
  <1>7. \A c \in Boxes \ {b} : Fed(c)' /\ Freed(c)'
    BY <1>1, <1>3, <1>4, FedKept
  <1>8. (WillFeed(b) => WillFeed(b)') /\ (WillFree(b) => WillFree(b)')
    BY <1>3, <1>5 DEF WillFeed, WillFree
  <1>9. CASE Put(p)
    <2>1. WillFeed(b)'
      <3>1. pc'[p] \in {"put_count", "send_wake"}
        BY <1>9 DEF Put, Goto, BoxTypes
      <3> QED BY <1>6, <3>1 DEF WillFeed
    <2>2. Freed(b)'
      <3>1. Len(box[b].queue) < MAILBOX_SIZE /\ Len(box[b].queue) \in Nat
        BY <1>2, <1>9, BoxFields, LenProperties DEF BoxInv, Sound, Looked, Put, At
      <3>2. (\E q \in Proc : at[q] = On(Full(b))) => WillFree(b)
        BY <1>4, <3>1, MailboxAssumption DEF Freed
      <3> QED BY <1>1, <1>8, <3>2 DEF Freed
    <2> QED BY <1>7, <2>1, <2>2 DEF NoneForgotten, Fed, Freed, WillFeed, WillFree
  <1>10. CASE TakeMail(p)
    <2>1. WillFree(b)'
      <3>1. pc'[p] \in {"take_count", "recv_wake"}
        BY <1>10 DEF TakeMail, Goto, BoxTypes
      <3> QED BY <1>6, <3>1 DEF WillFree
    <2>2. Fed(b)'
      <3>1. box[b].queue # <<>>
        BY <1>2, <1>10 DEF BoxInv, Sound, Looked, TakeMail, At
      <3>2. (\E q \in Proc : at[q] = On(Empty(b))) => WillFeed(b)
        BY <1>4, <3>1 DEF Fed
      <3> QED BY <1>1, <1>8, <3>2 DEF Fed
    <2> QED BY <1>7, <2>1, <2>2 DEF NoneForgotten, Fed, Freed, WillFeed, WillFree
  <1> QED BY <1>9, <1>10

\* A step of p that adds nobody to a condition, leaves the queues as they are
\* and does not take p away from before a broadcast.
LEMMA QuietForgets ==
    ASSUME NoneForgotten, NEW p \in Proc, OnlyMoves(p), \A c \in Boxes : NoNewWaiter(c),
           \A c \in Boxes : box'[c].queue = box[c].queue,
           \/ pc[p] \notin {"put_count", "send_wake", "take_count", "recv_wake"}
           \/ UNCHANGED <<pc, arg>>
    PROVE  NoneForgotten'
  <1>1. \A c \in Boxes : Fed(c) /\ Freed(c)
    BY ForgottenMeans
  <1>2. UNCHANGED <<pc, arg>> => BoxOf(p)' = BoxOf(p)
    BY DEF BoxOf
  <1>3. \A c \in Boxes : Fed(c)' /\ Freed(c)'
    BY <1>1, <1>2, FedKept
  <1> QED BY <1>3 DEF NoneForgotten, Fed, Freed, WillFeed, WillFree

\* NoneForgotten is kept.
LEMMA StepForgets ==
    ASSUME BoxTypes, LockInv, CallInv, OpenInv, BoxInv, NoneForgotten, MNext
    PROVE  NoneForgotten'
  <1>0. TypeOK /\ RunningReady
    BY DEF LockInv
  <1>1. PICK p \in Proc :
           \/ Preempt(p) /\ UNCHANGED mvars
           \/ p = Shell /\ (\E n \in Proc : DoSpawn(p, n)) /\ UNCHANGED mvars
           \/ \E n \in Names :
                 \/ OpenSearch(p, n)
                 \/ \E short \in BOOLEAN : Recv(p, n, short) \/ \E m \in Mails : Send(p, n, m, short)
           \/ Within(p)
    BY DEF MNext
  <1>2. pc \in [Proc -> Labels] /\ arg \in [Proc -> Chosen \cup Called \cup {NULL}] /\ Proper(p)
    BY DEF BoxTypes, CallInv
  <1>3. UNCHANGED at => \A c \in Boxes : NoNewWaiter(c)
    BY DEF NoNewWaiter
  <1>4. CASE Preempt(p) /\ UNCHANGED mvars
    <2>1. Spared(p) /\ at'[p] = Ready
      BY <1>0, <1>4, PreemptEffect
    <2>2. \A c \in Boxes : NoNewWaiter(c)
      BY <2>1, SparedWait, PlacesDiffer
    <2> QED BY <1>4, <2>2, QuietForgets DEF mvars, OnlyMoves
  <1>5. CASE (\E n \in Proc : DoSpawn(p, n)) /\ UNCHANGED mvars
    <2>1. \A c \in Boxes : NoNewWaiter(c)
      BY <1>0, <1>5, PlacesDiffer DEF DoSpawn, NoNewWaiter, TypeOK
    <2> QED BY <1>5, <2>1, QuietForgets DEF mvars, OnlyMoves
  <1>6. CASE OpenTake(p) \/ OpenInit(p) \/ OpenMails(p) \/ \E n \in Names : OpenSearch(p, n)
    <2>1. UNCHANGED at
      BY <1>6 DEF OpenTake, OpenInit, OpenMails, OpenSearch, InUser, vars, DoConditionInit, DoMutexLockInit
    <2>2. OnlyMoves(p) /\ pc[p] \in {"idle"} \cup Opening
      <3>1. CASE \E n \in Names : OpenSearch(p, n)
        BY <1>2, <3>1 DEF OpenSearch, At, Goto, OnlyMoves, Opening
      <3>2. CASE OpenTake(p) \/ OpenInit(p)
        BY <1>2, <3>2 DEF OpenTake, OpenInit, At, Goto, OnlyMoves, Opening
      <3>3. CASE OpenMails(p)
        BY <1>2, <3>3 DEF OpenMails, Returns, At, Goto, OnlyMoves, Opening
      <3> QED BY <1>6, <3>1, <3>2, <3>3
    <2>3. \A c \in Boxes : box'[c].queue = box[c].queue
      <3>1. CASE OpenTake(p)
        <4>1. PICK b \in Boxes, n \in Names : b = BoxOf(p) /\ n = arg[p].name /\ ~Opened(b)
          BY <3>1, ArgTypes DEF OpenTake, At, Opening, OpenInv
        <4>2. box' = [box EXCEPT ![b] = Taken(@, n)] /\ box[b].queue = <<>>
          BY <3>1, <4>1 DEF OpenTake, OpenInv, Untouched
        <4>3. Taken(box[b], n).queue = <<>>
          BY BoxFields, BoxTaken
        <4> QED BY <4>2, <4>3 DEF BoxTypes
      <3>2. CASE OpenMails(p)
        BY <3>2 DEF OpenMails, BoxTypes, Box
      <3>3. CASE OpenInit(p) \/ \E n \in Names : OpenSearch(p, n)
        BY <3>3 DEF OpenInit, OpenSearch
      <3> QED BY <1>6, <3>1, <3>2, <3>3
    <2> QED BY <1>3, <2>1, <2>2, <2>3, QuietForgets DEF Opening
  <1>7. CASE \E n \in Names, short \in BOOLEAN :
               Recv(p, n, short) \/ \E m \in Mails : Send(p, n, m, short)
    <2>1. PICK n \in Names, short \in BOOLEAN, label \in {"send", "recv"}, m \in Mails \cup {NULL} :
             Begin(p, n, label, m, short)
      BY <1>7 DEF Recv, Send
    <2>2. PICK b \in Boxes : b = handle[p][n]
      BY <2>1 DEF Begin, BoxTypes
    <2>3. pc[p] = "idle" /\ Acquire(p, LockOf(b)) /\ OnlyMoves(p) /\ box' = box
      BY <1>2, <2>1, <2>2 DEF Begin, At, OnlyMoves, Goto
    <2>4. locks[p] = NoSlots
      BY <1>2, <2>3 DEF Proper, Holding, Critical
    <2>5. \A c \in Boxes : NoNewWaiter(c)
      BY <1>0, <2>3, <2>4, AcquireWaits
    <2> QED BY <2>3, <2>5, QuietForgets
  <1>8. CASE \E b \in Boxes : Resume(p, b)
    <2>1. PICK b \in Boxes : kont[p] = Acquiring(LockOf(b)) /\ Acquire(p, LockOf(b)) /\ UNCHANGED mvars
      BY <1>8 DEF Resume
    <2>2. locks[p] = NoSlots
      BY <1>2, <2>1, KontsDiffer DEF Proper, Holding, Critical
    <2>3. \A c \in Boxes : NoNewWaiter(c)
      BY <1>0, <2>1, <2>2, AcquireWaits
    <2> QED BY <2>1, <2>3, QuietForgets DEF mvars, OnlyMoves
  <1>9. CASE SendLook(p) \/ RecvLook(p)
    BY <1>9, LookForgets
  <1>10. CASE Put(p) \/ TakeMail(p)
    BY <1>10, MailForgets
  <1>11. CASE Count(p)
    <2>1. Calling(p) /\ OnlyMoves(p) /\ BoxOf(p) \in Boxes /\ UNCHANGED <<at, arg>>
      BY <1>11, CallStep DEF Count, InUser, vars
    <2>2. \A c \in Boxes : box'[c].queue = box[c].queue
      <3>1. PICK b \in Boxes : b = BoxOf(p)
        BY <2>1
      <3>2. PICK k : box' = [box EXCEPT ![b].contents = k]
        BY <1>11, <3>1 DEF Count
      <3> QED BY <3>2 DEF BoxTypes, Box
    <2>3. \/ pc[p] = "put_count" /\ pc'[p] = "send_wake"
          \/ pc[p] = "take_count" /\ pc'[p] = "recv_wake"
      BY <1>2, <1>11 DEF Count, At, Goto
    <2>4. BoxOf(p)' = BoxOf(p) /\ \A c \in Boxes : Fed(c) /\ Freed(c)
      BY <2>1, ForgottenMeans DEF BoxOf
    <2>5. \A c \in Boxes : Fed(c)' /\ Freed(c)'
      BY <1>3, <2>1, <2>2, <2>3, <2>4, FedKept
    <2> QED BY <2>5 DEF NoneForgotten, Fed, Freed, WillFeed, WillFree
  <1>12. CASE Wake(p)
    <2>1. Calling(p) /\ OnlyMoves(p) /\ BoxOf(p) \in Boxes /\ UNCHANGED <<box, arg>>
      BY <1>12, CallStep DEF Wake
    <2>2. PICK b \in Boxes : b = BoxOf(p)
      BY <2>1
    <2>3. PICK o \in Conds :
             /\ DoConditionBroadcast(p, o)
             /\ \/ pc[p] = "send_wake" /\ o = Empty(b)
                \/ pc[p] = "recv_wake" /\ o = Full(b)
      BY <1>12, <2>2, BoxObjects DEF Wake, At
    <2>4. Spared(p) /\ at'[p] = Ready /\ \A q \in Proc : at'[q] # On(o)
      BY <1>0, <2>3, BroadcastEffect
    <2>5. \A c \in Boxes : NoNewWaiter(c)
      BY <2>4, SparedWait, PlacesDiffer
    <2>6. \A c \in Boxes : Fed(c) /\ Freed(c)
      BY ForgottenMeans
    <2>7. \A c \in Boxes : Fed(c)' /\ Freed(c)'
      BY <2>1, <2>2, <2>3, <2>4, <2>5, <2>6, FedKept
    <2> QED BY <2>7 DEF NoneForgotten, Fed, Freed, WillFeed, WillFree
  <1>13. CASE Finish(p)
    <2>1. Calling(p) /\ OnlyMoves(p) /\ BoxOf(p) \in Boxes /\ pc[p] = "unlock" /\ UNCHANGED box
      BY <1>13, CallStep DEF Finish, At
    <2>2. PICK b \in Boxes : b = BoxOf(p)
      BY <2>1
    <2>3. Running(p) /\ Alone(p)
      BY <1>2, <1>13, <2>1 DEF Finish, At, Proper, Holding, Critical
    <2>4. Spared(p) /\ at'[p] = Ready
      BY <1>0, <1>13, <2>2, <2>3, ReleaseEffect DEF Finish, Alone
    <2>5. \A c \in Boxes : NoNewWaiter(c)
      BY <2>4, SparedWait, PlacesDiffer
    <2> QED BY <2>1, <2>5, QuietForgets
  <1> QED BY <1>1, <1>4, <1>5, <1>6, <1>7, <1>8, <1>9, <1>10, <1>11, <1>12, <1>13 DEF Within

---------------------------------------------------------------------------
\* No box is opened, nobody is in a call, nobody holds or waits.
LEMMA CleanBox == Clean \in Box /\ Clean.queue = <<>> /\ Clean.contents = 0 /\ Clean.busy = FALSE
  <1> DEFINE q == <<>>
             z == 0
  <1>1. q \in Seq(1..MAILBOX_SIZE) /\ z \in Int /\ q = <<>> /\ z = 0
    BY EmptySeq
  <1>2. /\ [i \in 1..MAILBOX_SIZE |-> FALSE] \in [1..MAILBOX_SIZE -> BOOLEAN]
        /\ [i \in 1..MAILBOX_SIZE |-> <<0>>] \in [1..MAILBOX_SIZE -> Texts]
    BY DEF Texts
  <1>3. Clean = [busy |-> FALSE, name |-> NULL, contents |-> z, queue |-> q,
                 avail |-> [i \in 1..MAILBOX_SIZE |-> FALSE],
                 content |-> [i \in 1..MAILBOX_SIZE |-> <<0>>]]
    BY DEF Clean
  <1> HIDE DEF q, z
  <1>4. Clean \in Box
    BY <1>1, <1>2, <1>3 DEF Box
  <1>5. Clean.queue = q /\ Clean.contents = z /\ Clean.busy = FALSE
    BY <1>3
  <1> QED BY <1>1, <1>4, <1>5

\* All of it holds before the first step.
LEMMA InitBoxes ==
    ASSUME MInit
    PROVE  BoxTypes /\ LockInv /\ CallInv /\ OpenInv /\ OpenerInv /\ BoxInv /\ NoneForgotten
  <1>1. LockInv
    BY InitLocks DEF MInit
  <1>2. /\ pc = [p \in Proc |-> "idle"] /\ arg = [p \in Proc |-> NULL]
        /\ handle = [p \in Proc |-> [n \in Names |-> NULL]]
        /\ box = [b \in Boxes |-> Clean]
        /\ sent = [b \in Boxes |-> <<>>] /\ rcvd = [b \in Boxes |-> <<>>]
    BY DEF MInit
  <1>3. \A p \in Proc : pc[p] = "idle" /\ pc[p] \notin Opening /\ ~Calling(p) /\ ~Holding(p)
    BY <1>2 DEF Opening, Calling, Holding, Critical
  <1>4. \A b \in Boxes : ~Opened(b)
    BY <1>2, MailboxAssumption DEF Opened
  <1>5. \A b \in Boxes : Untouched(b) /\ box[b].busy = FALSE
    BY <1>2, CleanBox DEF Untouched
  <1>6. BoxTypes
    <2>1. box \in [Boxes -> Box] /\ pc \in [Proc -> Labels]
      BY <1>2, CleanBox DEF Labels
    <2>2. /\ arg \in [Proc -> Chosen \cup Called \cup {NULL}]
          /\ handle \in [Proc -> [Names -> Boxes \cup {NULL}]]
      BY <1>2
    <2>3. sent \in [Boxes -> Seq(Texts)] /\ rcvd \in [Boxes -> Seq(Texts)]
      BY <1>2, EmptySeq
    <2>4. \A p \in Proc : TypedCall(p)
      BY <1>3 DEF TypedCall, Calling
    <2> QED BY <2>1, <2>2, <2>3, <2>4 DEF BoxTypes
  <1>7. \A p \in Proc : at[p] \in {Ready, Nowhere} /\ kont[p] = User /\ locks[p] = NoSlots
    BY DEF MInit, Init
  <1>8. CallInv
    BY <1>3, <1>7, PlacesDiffer DEF CallInv, Proper
  <1>9. OpenInv /\ OpenerInv
    BY <1>3, <1>4, <1>5 DEF OpenInv, OpenerInv, Opener
  <1>10. BoxInv
    <2> SUFFICES ASSUME NEW b \in Boxes PROVE Sound(b)
      BY DEF BoxInv
    <2>1. Len(<<>>) = 0 /\ 1..0 = {} /\ MAILBOX_SIZE >= 0
      BY MailboxAssumption
    <2>2. ~PutIn(b) /\ ~TakeIn(b) /\ Looked(b)
      BY <1>3 DEF PutIn, TakeIn, Looked
    <2>3. Ordered(b)
      <3>1. sent[b] = <<>> /\ rcvd[b] = <<>> /\ box[b].queue = <<>>
        BY <1>5 DEF Untouched
      <3> QED BY <2>1, <3>1 DEF Ordered, InOrder
    <2>4. Counted(b)
      BY <1>5, <2>1, <2>2 DEF Untouched, Counted
    <2>5. Linked(b)
      BY <1>4, <1>5, <2>1 DEF Untouched, Linked, Distinct
    <2> QED BY <2>2, <2>3, <2>4, <2>5 DEF Sound
  <1>11. NoneForgotten
    BY <1>7, PlacesDiffer DEF NoneForgotten
  <1> QED BY <1>1, <1>6, <1>8, <1>9, <1>10, <1>11

MInv == BoxTypes /\ LockInv /\ CallInv /\ OpenInv /\ OpenerInv /\ BoxInv /\ NoneForgotten

\* The invariant is inductive.
LEMMA StepMailbox == MInv /\ [MNext]_<<vars, mvars>> => MInv'
  <1> SUFFICES ASSUME MInv, [MNext]_<<vars, mvars>> PROVE MInv'
    OBVIOUS
  <1>1. BoxTypes /\ LockInv /\ CallInv /\ OpenInv /\ OpenerInv /\ BoxInv /\ NoneForgotten
    BY DEF MInv
  <1>2. LockInv'
    BY <1>1, LocksHold
  <1>3. CASE MNext
    <2>1. BoxTypes' /\ CallInv' /\ OpenInv' /\ OpenerInv' /\ BoxInv'
      BY <1>1, <1>3, StepTypes, StepCalls, StepOpen, StepOpener, StepBox
    <2>2. NoneForgotten'
      BY <1>1, <1>3, StepForgets
    <2> QED BY <1>2, <2>1, <2>2 DEF MInv
  <1>4. CASE UNCHANGED <<vars, mvars>>
    <2>1. /\ UNCHANGED <<at, kont, locks>>
          /\ UNCHANGED <<box, pc, arg, handle, sent, rcvd>>
      BY <1>4 DEF vars, mvars
    <2>2. BoxTypes'
      BY <1>1, <2>1 DEF BoxTypes, TypedCall, Calling
    <2>3. CallInv'
      BY <1>1, <2>1 DEF CallInv, Proper, Live, Alone, Holding, BoxOf
    <2>4. OpenInv' /\ OpenerInv'
      BY <1>1, <2>1 DEF OpenInv, OpenerInv, Opener, Opened, Untouched, Calling, BoxOf
    <2>5. BoxInv'
      BY <1>1, <2>1 DEF BoxInv, Sound, Ordered, Counted, Linked, Looked, PutIn, TakeIn, Opened, BoxOf
    <2>6. NoneForgotten'
      BY <1>1, <2>1 DEF NoneForgotten, BoxOf
    <2> QED BY <1>2, <2>2, <2>3, <2>4, <2>5, <2>6 DEF MInv
  <1> QED BY <1>3, <1>4

\* The invariant of the mailboxes, whoever sends, receives, opens and spawns.
THEOREM MailboxInvariant == MSpec => []MInv
  <1>1. MInit => MInv
    BY InitBoxes DEF MInv
  <1>2. MInv /\ [MNext]_<<vars, mvars>> => MInv'
    BY StepMailbox
  <1> QED BY <1>1, <1>2, PTL DEF MSpec

---------------------------------------------------------------------------
\* Every mail mbox_send has put into a box is received once, in the order of
\* the sends, unchanged up to its first 0 (strcpy), by whoever calls mbox_recv.
THEOREM FifoHolds == MSpec => []Fifo
  <1>1. BoxTypes /\ BoxInv => Fifo
    <2> SUFFICES ASSUME BoxTypes, BoxInv, NEW b \in Boxes
                 PROVE  sent[b] = rcvd[b] \o [i \in DOMAIN box[b].queue |-> box[b].content[box[b].queue[i]]]
      BY DEF Fifo
    <2> DEFINE s == sent[b]
               r == rcvd[b]
               q == box[b].queue
               t == [i \in DOMAIN q |-> box[b].content[q[i]]]
    <2>1. /\ s \in Seq(Texts) /\ r \in Seq(Texts) /\ q \in Seq(1..MAILBOX_SIZE)
          /\ box[b].content \in [1..MAILBOX_SIZE -> Texts]
      BY BoxFields
    <2>2. /\ Len(s) = Len(r) + Len(q)
          /\ \A k \in 1..Len(r) : s[k] = r[k]
          /\ \A k \in 1..Len(q) : s[Len(r) + k] = box[b].content[q[k]]
      BY DEF BoxInv, Sound, Ordered, InOrder
    <2>3. /\ DOMAIN q = 1..Len(q) /\ Len(q) \in Nat /\ Len(r) \in Nat
          /\ \A k \in 1..Len(q) : q[k] \in 1..MAILBOX_SIZE
      BY <2>1, LenProperties, ElementOfSeq
    <2>4. t \in [1..Len(q) -> Texts]
      BY <2>1, <2>3
    <2>5. t \in Seq(Texts) /\ Len(t) = Len(q)
      BY <2>3, <2>4
    <2>6. \A k \in 1..Len(q) : t[k] = s[Len(r) + k]
      BY <2>2, <2>3
    <2> HIDE DEF s, r, q, t
    <2>7. /\ r \o t \in Seq(Texts) /\ Len(r \o t) = Len(r) + Len(t)
          /\ \A k \in 1..(Len(r) + Len(t)) :
                (r \o t)[k] = IF k <= Len(r) THEN r[k] ELSE t[k - Len(r)]
      BY <2>1, <2>5, ConcatProperties
    <2>8. \A k \in 1..Len(s) : s[k] = (r \o t)[k]
      <3> SUFFICES ASSUME NEW k \in 1..Len(s) PROVE s[k] = (r \o t)[k]
        OBVIOUS
      <3>1. CASE k <= Len(r)
        BY <2>2, <2>3, <2>5, <2>7, <3>1
      <3>2. CASE ~(k <= Len(r))
        <4>1. k - Len(r) \in 1..Len(q) /\ Len(r) + (k - Len(r)) = k
          BY <2>2, <2>3, <3>2
        <4> QED BY <2>2, <2>3, <2>5, <2>6, <2>7, <3>2, <4>1
      <3> QED BY <3>1, <3>2
    <2>9. s = r \o t
      BY <2>1, <2>2, <2>5, <2>7, <2>8, SeqEqual
    <2> QED BY <2>9 DEF s, r, q, t
  <1> QED BY <1>1, MailboxInvariant, PTL DEF MInv

\* The counter, the avail flags and the queue of a box agree but for the one
\* update its lock's holder is at, and no wait is over too early: mbox_recv
\* takes from a queue with a mail, mbox_send finds room.
THEOREM AccountedHolds == MSpec => []Accounted
  <1>1. BoxTypes /\ LockInv /\ CallInv /\ BoxInv => Accounted
    <2> SUFFICES ASSUME BoxTypes, LockInv, CallInv, BoxInv, NEW b \in Boxes
                 PROVE  /\ Len(box[b].queue) = box[b].contents + Between(b)
                        /\ b \in {handle[p][n] : p \in Proc, n \in Names} =>
                              {i \in 1..MAILBOX_SIZE : ~box[b].avail[i]} = ToSet(box[b].queue)
                        /\ Looked(b)
      BY DEF Accounted, Looked
    <2>1. Sound(b)
      BY DEF BoxInv
    <2>2. ~(PutIn(b) /\ TakeIn(b))
      BY OneInside DEF PutIn, TakeIn, Holding, Critical
    <2>3. Between(b) = IF PutIn(b) THEN 1 ELSE IF TakeIn(b) THEN -1 ELSE 0
      BY <2>2 DEF Between, PutIn, TakeIn
    <2>4. box[b].contents \in Int /\ box[b].queue \in Seq(1..MAILBOX_SIZE)
      BY BoxFields
    <2>5. Len(box[b].queue) = box[b].contents + Between(b)
      BY <2>1, <2>3, <2>4 DEF Sound, Counted
    <2>6. ASSUME b \in {handle[p][n] : p \in Proc, n \in Names}
          PROVE  {i \in 1..MAILBOX_SIZE : ~box[b].avail[i]} = ToSet(box[b].queue)
      <3>1. Marked(box[b].queue, box[b].avail)
        BY <2>1, <2>6 DEF Sound, Linked, Opened
      <3>2. /\ DOMAIN box[b].queue = 1..Len(box[b].queue)
            /\ \A k \in 1..Len(box[b].queue) : box[b].queue[k] \in 1..MAILBOX_SIZE
        BY <2>4, LenProperties, ElementOfSeq
      <3>3. \A i : i \in ToSet(box[b].queue) <=> \E k \in 1..Len(box[b].queue) : box[b].queue[k] = i
        BY <3>2 DEF ToSet
      <3> QED BY <3>1, <3>2, <3>3 DEF Marked
    <2> QED BY <2>1, <2>5, <2>6 DEF Sound
  <1> QED BY <1>1, MailboxInvariant, PTL DEF MInv

\* The broadcasts of mbox_send and mbox_recv suffice: nobody waits beside a
\* mail or a free slot unless its broadcast is still to come.
THEOREM NoneForgottenHolds == MSpec => []NoneForgotten
  <1>1. MInv => NoneForgotten
    BY DEF MInv
  <1> QED BY <1>1, MailboxInvariant, PTL
=============================================================================
