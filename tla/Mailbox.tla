------------------------------ MODULE Mailbox ------------------------------
(***************************************************************************)
(* The mailboxes of libs/mailbox.c: library code in user mode on top of    *)
(* the kernel's mutexes and condition variables (module Sync), preempted   *)
(* anywhere.  Tasks open boxes by name, send and receive mails.  Opens do  *)
(* not overlap: mbox_open takes no lock, and what two of them do to each   *)
(* other is outside this module.  No program calls mbox_close.             *)
(***************************************************************************)
EXTENDS Sync, SequencesExt

CONSTANTS
    MaxBox,        \* MAX_NUM_BOX
    MAILBOX_SIZE,  \* mails in a box
    Names,
    Mails,         \* the bytes a program may send, a 0 among them
    MaxSends,      \* bound on the mails sent to a box
    MaxLong        \* bound on the calls with msg_length >= MAIL_SIZE

Boxes     == 1..MaxBox
LockOf(b) == <<"lock", b>>
Empty(b)  == <<"empty", b>>
Full(b)   == <<"full", b>>

ASSUME MailboxAssumption ==
    /\ MAX_LOCKS > 0 /\ NULL \notin Boxes
    /\ MaxBox \in Nat /\ MAILBOX_SIZE \in Nat \ {0} /\ MaxSends \in Nat /\ MaxLong \in Nat
    /\ Locks = {LockOf(b) : b \in Boxes}
    /\ Conds = {Empty(b) : b \in Boxes} \cup {Full(b) : b \in Boxes}
    /\ \A m \in Mails : m \in Seq(Nat) /\ Contains(m, 0)

VARIABLES
    box,     \* mboxs[]
    pc,      \* where a process is in mbox_open, mbox_send or mbox_recv
    arg,     \* its arguments: box, name, message, msg_length < MAIL_SIZE
    handle,  \* the boxes a process has opened
    sent, rcvd,  \* history: texts put into and taken out of each box
    longs        \* how many calls had a mail that is too long

mvars == <<box, pc, arg, handle, sent, rcvd, longs>>

Clean == [busy |-> FALSE, name |-> NULL, contents |-> 0, queue |-> <<>>,
          avail |-> [i \in 1..MAILBOX_SIZE |-> FALSE],
          content |-> [i \in 1..MAILBOX_SIZE |-> <<0>>]]

MInit ==
    /\ Init
    /\ box = [b \in Boxes |-> Clean]
    /\ pc = [p \in Proc |-> "idle"]
    /\ arg = [p \in Proc |-> NULL]
    /\ handle = [p \in Proc |-> [n \in Names |-> NULL]]
    /\ sent = [b \in Boxes |-> <<>>] /\ rcvd = [b \in Boxes |-> <<>>]
    /\ longs = 0

First(S) == CHOOSE i \in S : \A j \in S : i <= j

\* strcpy: everything up to the first 0, whatever follows it.
Text(m) == SubSeq(m, 1, First({i \in DOMAIN m : m[i] = 0}))

Goto(p, label) == pc' = [pc EXCEPT ![p] = label]
Returns(p)     == Goto(p, "idle") /\ arg' = [arg EXCEPT ![p] = NULL]
At(p, label)   == Running(p) /\ pc[p] = label
BoxOf(p)       == arg[p].box
InUser         == UNCHANGED vars

---------------------------------------------------------------------------
\* mbox_open(n): a busy box of that name, or else the first free one.
Opening == {"take", "init_empty", "init_full", "init_lock", "init_mails"}
Named(n) == {b \in Boxes : box[b].busy /\ box[b].name = n}
Idle    == {b \in Boxes : ~box[b].busy}

OpenSearch(p, n) ==
    /\ At(p, "idle") /\ p # Shell /\ handle[p][n] = NULL
    /\ \A q \in Proc : pc[q] \notin Opening
    /\ \/ /\ Named(n) # {}
          /\ handle' = [handle EXCEPT ![p][n] = First(Named(n))]
          /\ UNCHANGED <<pc, arg>>
       \/ /\ Named(n) = {} /\ Idle # {}
          /\ Goto(p, "take")
          /\ arg' = [arg EXCEPT ![p] = [name |-> n, box |-> First(Idle)]]
          /\ UNCHANGED handle
    /\ InUser /\ UNCHANGED <<box, sent, rcvd, longs>>

Taken(x, n) == [x EXCEPT !.busy = TRUE, !.name = n, !.contents = 0, !.queue = <<>>]
OpenTake(p) ==
    /\ At(p, "take")
    /\ box' = [box EXCEPT ![BoxOf(p)] = Taken(@, arg[p].name)]
    /\ Goto(p, "init_empty")
    /\ InUser /\ UNCHANGED <<arg, handle, sent, rcvd, longs>>

OpenInit(p) ==
    /\ \/ At(p, "init_empty") /\ DoConditionInit(p, Empty(BoxOf(p))) /\ Goto(p, "init_full")
       \/ At(p, "init_full") /\ DoConditionInit(p, Full(BoxOf(p))) /\ Goto(p, "init_lock")
       \/ At(p, "init_lock") /\ DoMutexLockInit(p, LockOf(BoxOf(p))) /\ Goto(p, "init_mails")
    /\ UNCHANGED <<box, arg, handle, sent, rcvd, longs>>

OpenMails(p) ==
    /\ At(p, "init_mails")
    /\ box' = [box EXCEPT ![BoxOf(p)].avail = [i \in 1..MAILBOX_SIZE |-> TRUE]]
    /\ handle' = [handle EXCEPT ![p][arg[p].name] = BoxOf(p)]
    /\ Returns(p)
    /\ InUser /\ UNCHANGED <<sent, rcvd, longs>>

---------------------------------------------------------------------------
\* The call of mutex_lock_acquire that mbox_send and mbox_recv begin with.
\* The process may block in it; it goes on in Resume.
Begin(p, n, label, m, short) ==
    /\ At(p, "idle") /\ handle[p][n] # NULL
    /\ Acquire(p, LockOf(handle[p][n]))
    /\ Goto(p, label)
    /\ arg' = [arg EXCEPT ![p] = [name |-> n, box |-> handle[p][n], msg |-> m, short |-> short]]
    /\ IF short THEN UNCHANGED longs ELSE longs < MaxLong /\ longs' = longs + 1
    /\ UNCHANGED <<box, handle, sent, rcvd>>

Send(p, n, m, short) ==
    /\ handle[p][n] # NULL /\ Len(sent[handle[p][n]]) < MaxSends
    /\ Begin(p, n, "send", m, short)
Recv(p, n, short) == Begin(p, n, "recv", NULL, short)

Resume(p, b) ==
    /\ kont[p] = Acquiring(LockOf(b))
    /\ Acquire(p, LockOf(b))
    /\ UNCHANGED mvars

\* Faulty: after its wait a process does not look again.
LookOnce(p, label, wait, next, cond) ==
    /\ At(p, label)
    /\ IF wait THEN DoConditionWait(p, LockOf(BoxOf(p)), cond) ELSE InUser
    /\ Goto(p, next)
    /\ UNCHANGED <<box, arg, handle, sent, rcvd, longs>>

\* while (wait) condition_wait(&lock, &cond);
Look(p, label, wait, next, cond) ==
    /\ At(p, label)
    /\ IF wait THEN DoConditionWait(p, LockOf(BoxOf(p)), cond) /\ UNCHANGED pc
               ELSE InUser /\ Goto(p, next)
    /\ UNCHANGED <<box, arg, handle, sent, rcvd, longs>>

SendLook(p) ==
    Look(p, "send", box[BoxOf(p)].contents = MAILBOX_SIZE, "put", Full(BoxOf(p)))
RecvLook(p) ==
    Look(p, "recv", box[BoxOf(p)].contents = 0, "take_mail", Empty(BoxOf(p)))

\* Faulty: the mail goes to the head of the box's queue.
PushFront(q, i) == <<i>> \o q
Push(q, i) == Append(q, i)

\* A box with one more mail, in slot i, and without its first, in slot i.
Stored(x, i, text) == [x EXCEPT !.content[i] = text, !.avail[i] = FALSE, !.queue = Push(@, i)]
Fetched(x, i)      == [x EXCEPT !.avail[i] = TRUE, !.queue = Tail(@)]

\* A mail that is too long is dropped.
Put(p) ==
    /\ At(p, "put")
    /\ LET b == BoxOf(p)
           free == {i \in 1..MAILBOX_SIZE : box[b].avail[i]}
           i == First(free)
       IN IF arg[p].short /\ free # {}
          THEN /\ box' = [box EXCEPT ![b] = Stored(@, i, Text(arg[p].msg))]
               /\ sent' = [sent EXCEPT ![b] = Append(@, Text(arg[p].msg))]
          ELSE UNCHANGED <<box, sent>>
    /\ Goto(p, IF arg[p].short THEN "put_count" ELSE "send_wake")
    /\ InUser /\ UNCHANGED <<arg, handle, rcvd, longs>>

TakeMail(p) ==
    /\ At(p, "take_mail")
    /\ LET b == BoxOf(p)
           i == Head(box[b].queue)
       IN IF arg[p].short
          THEN /\ box' = [box EXCEPT ![b] = Fetched(@, i)]
               /\ rcvd' = [rcvd EXCEPT ![b] = Append(@, box[b].content[i])]
          ELSE UNCHANGED <<box, rcvd>>
    /\ Goto(p, IF arg[p].short THEN "take_count" ELSE "recv_wake")
    /\ InUser /\ UNCHANGED <<arg, handle, sent, longs>>

\* Faulty: a sender forgets contents++.
CountTakes(p) ==
    /\ \/ At(p, "put_count") /\ Goto(p, "send_wake") /\ UNCHANGED box
       \/ /\ At(p, "take_count")
          /\ box' = [box EXCEPT ![BoxOf(p)].contents = @ - 1]
          /\ Goto(p, "recv_wake")
    /\ InUser /\ UNCHANGED <<arg, handle, sent, rcvd, longs>>

Count(p) ==
    /\ \/ /\ At(p, "put_count")
          /\ box' = [box EXCEPT ![BoxOf(p)].contents = @ + 1]
          /\ Goto(p, "send_wake")
       \/ /\ At(p, "take_count")
          /\ box' = [box EXCEPT ![BoxOf(p)].contents = @ - 1]
          /\ Goto(p, "recv_wake")
    /\ InUser /\ UNCHANGED <<arg, handle, sent, rcvd, longs>>

\* Faulty: the two conditions are swapped.
WakeOwnSide(p) ==
    /\ \/ At(p, "send_wake") /\ DoConditionBroadcast(p, Full(BoxOf(p)))
       \/ At(p, "recv_wake") /\ DoConditionBroadcast(p, Empty(BoxOf(p)))
    /\ Goto(p, "unlock")
    /\ UNCHANGED <<box, arg, handle, sent, rcvd, longs>>

Wake(p) ==
    /\ \/ At(p, "send_wake") /\ DoConditionBroadcast(p, Empty(BoxOf(p)))
       \/ At(p, "recv_wake") /\ DoConditionBroadcast(p, Full(BoxOf(p)))
    /\ Goto(p, "unlock")
    /\ UNCHANGED <<box, arg, handle, sent, rcvd, longs>>

Finish(p) ==
    /\ At(p, "unlock")
    /\ DoMutexLockRelease(p, LockOf(BoxOf(p)))
    /\ Returns(p)
    /\ UNCHANGED <<box, handle, sent, rcvd, longs>>

---------------------------------------------------------------------------
\* What a process does once it is in a call of the library.
Within(p) ==
    \/ OpenTake(p) \/ OpenInit(p) \/ OpenMails(p)
    \/ \E b \in Boxes : Resume(p, b)
    \/ SendLook(p) \/ RecvLook(p) \/ Put(p) \/ TakeMail(p) \/ Count(p) \/ Wake(p) \/ Finish(p)

MNext == \E p \in Proc :
    \/ Preempt(p) /\ UNCHANGED mvars
    \/ p = Shell /\ (\E n \in Proc : DoSpawn(p, n)) /\ UNCHANGED mvars
    \/ \E n \in Names :
          \/ OpenSearch(p, n)
          \/ \E short \in BOOLEAN : Recv(p, n, short) \/ \E m \in Mails : Send(p, n, m, short)
    \/ Within(p)

\* The kernel runs whoever is ready (Programs!ReadyRuns), and long enough to
\* get on within a call.
MFairness == \A p \in Proc :
    /\ []<>(running = p \/ at[p] # Ready)
    /\ SF_<<vars, mvars>>(Within(p))

MSpec == MInit /\ [][MNext]_<<vars, mvars>> /\ MFairness

---------------------------------------------------------------------------
\* Every mail is received once, in the order of the sends, unchanged up to its
\* first 0 (mail[] slots are reused through avail; the queue links them).
Fifo == \A b \in Boxes :
    sent[b] = rcvd[b] \o [i \in DOMAIN box[b].queue |-> box[b].content[box[b].queue[i]]]

\* contents, the avail flags and the queue are updated one after the other;
\* only the holder of the box's lock may see them disagree, and what it has
\* looked at still holds when it acts on it: no mail is taken from an empty
\* queue and no sender finds all slots taken.
Between(b) ==
    CASE \E p \in Proc : pc[p] = "put_count" /\ BoxOf(p) = b -> 1
      [] \E p \in Proc : pc[p] = "take_count" /\ BoxOf(p) = b -> -1
      [] OTHER -> 0
Accounted == \A b \in Boxes :
    /\ Len(box[b].queue) = box[b].contents + Between(b)
    /\ b \in {handle[p][n] : p \in Proc, n \in Names} =>
          {i \in 1..MAILBOX_SIZE : ~box[b].avail[i]} = ToSet(box[b].queue)
    /\ \A p \in Proc :
          /\ pc[p] = "take_mail" /\ BoxOf(p) = b => box[b].queue # <<>>
          /\ pc[p] = "put" /\ BoxOf(p) = b => Len(box[b].queue) < MAILBOX_SIZE

\* Nobody waits for mail beside a box that has some, or for room beside one
\* that has room, unless the one who changed that is about to wake them.
NoneForgotten == \A p \in Proc, b \in Boxes :
    /\ at[p] = On(Empty(b)) => \/ box[b].queue = <<>>
                               \/ \E q \in Proc : pc[q] \in {"put_count", "send_wake"} /\ BoxOf(q) = b
    /\ at[p] = On(Full(b)) => \/ Len(box[b].queue) = MAILBOX_SIZE
                              \/ \E q \in Proc : pc[q] \in {"take_count", "recv_wake"} /\ BoxOf(q) = b

\* A box that holds a mail somebody has asked for is emptied, or everyone who
\* asked is served: waiting receivers and delivered mails do not coexist.
Hungry(b) == \E p \in Proc : pc[p] = "recv" /\ BoxOf(p) = b /\ arg[p].short
Served == \A b \in Boxes :
    box[b].queue # <<>> /\ Hungry(b) ~> box[b].queue = <<>> \/ ~Hungry(b)
===========================================================================
