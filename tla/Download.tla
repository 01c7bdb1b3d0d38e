------------------------------ MODULE Download ------------------------------
(***************************************************************************)
(* The network receiver of Big_Bonus: the download task of test/bonus.c    *)
(* above the driver (drivers/mac.c) and the timer interrupt, which polls   *)
(* the descriptor ring and counts what has arrived (kernel/irq/irq.c).     *)
(* The DMA engine fills descriptors at any time.                           *)
(*                                                                         *)
(* The shell starts download and mac_init tasks in the kernel of module    *)
(* Kernel and may kill them.  A step of a task is what it does from one    *)
(* point where an interrupt matters to the next.                           *)
(***************************************************************************)
EXTENDS Kernel

CONSTANTS
    recv_block_queue,  \* the queue the receiver waits in
    PNUM,              \* descriptors of the ring
    NUM_DMA_DESC,      \* counts the receiver waits for
    MaxExec,           \* bound: tasks the shell starts
    Foreign,           \* bound: buffers that get other packets than parts
    Slack              \* ticks a ready task may wait for the CPU

ASSUME DownloadAssumption ==
    /\ recv_block_queue \in Conds /\ PNUM \in Nat /\ NUM_DMA_DESC \in 1..PNUM /\ MaxExec \in Nat
    /\ Foreign \subseteq Nat /\ Slack \in Nat

VARIABLES
    own,      \* descriptors the DMA engine owns (bit 31 of des0)
    recv,     \* the packet in each receive buffer
    dma, rx,  \* the engine: its next descriptor, is it started
    mac_cnt,
    pc, i,    \* per process: where its program is, slot of the copying loop
    file,     \* packets written to "plane" since it was last opened
    ran,      \* the process on the CPU has made a step of its time slice
    \* History, which nothing in the program reads:
    sent,     \* parts of the plane that have arrived
    had,      \* the parts the receiver had when it stopped waiting
    execs, harm

card  == <<own, recv, dma, rx, sent>>
rest  == <<pc, i, file, had, execs>>
dvars == <<vars, card, rest, mac_cnt, ran, harm>>

Tasks == Pcb \ {Shell}
Ring  == 0..PNUM - 1
Empty == -1   \* an unused buffer
Other == 0    \* a packet without the two marks of a part of the plane

DInit ==
    /\ Init
    /\ own = {} /\ recv = [d \in Ring |-> Empty] /\ dma = 0 /\ rx = FALSE /\ mac_cnt = -1
    /\ pc = [p \in Tasks |-> "none"] /\ i = [p \in Tasks |-> 0]
    /\ file = <<>> /\ ran = TRUE
    /\ sent = 0 /\ had = {} /\ execs = 0 /\ harm = {}

---------------------------------------------------------------------------
\* The engine fills its next descriptor, if that is its own, with a part of
\* the plane (numbered as they arrive) or another packet.  Otherwise the packet
\* is lost.
Arrive ==
    /\ rx /\ dma \in own
    /\ LET part == dma \notin Foreign
       IN /\ recv' = [recv EXCEPT ![dma] = IF part THEN sent + 1 ELSE Other]
          /\ sent' = IF part THEN sent + 1 ELSE sent
    /\ own' = own \ {dma}
    /\ dma' = (dma + 1) % PNUM
    /\ UNCHANGED <<vars, rest, rx, mac_cnt, ran, harm>>

\* What irq_timer reads in descriptor mac_cnt.  Behind the ring it reads
\* other data, of which nothing is known.
OwnBit == IF mac_cnt \in Ring THEN {mac_cnt \in own} ELSE BOOLEAN

\* Faulty: the receiver is woken by the last count alone.
CountLast(k) == IF mac_cnt + 1 = NUM_DMA_DESC THEN UnblockAll(k, recv_block_queue) ELSE k

\* mac_irq_handle: every count wakes the receiver.
Count(k) == UnblockAll(k, recv_block_queue)

\* Faulty: the descriptor is not looked at.
IrqTimerBlind ==
    IF mac_cnt >= 0 THEN os' = Timer(Count(os)) /\ mac_cnt' = mac_cnt + 1
    ELSE os' = Timer(os) /\ UNCHANGED mac_cnt

\* irq_timer.  Bound: mac_cnt stops behind the ring.
IrqTimer ==
    \E bit \in OwnBit :
        IF mac_cnt >= 0 /\ ~bit
        THEN mac_cnt <= PNUM /\ os' = Timer(Count(os)) /\ mac_cnt' = mac_cnt + 1
        ELSE os' = Timer(os) /\ UNCHANGED mac_cnt

\* A time slice is long enough for a step of a task.
Interrupt(p) ==
    /\ Running(p) /\ (ran \/ p = Shell)
    /\ IrqTimer
    /\ ran' = FALSE
    /\ UNCHANGED <<lock_status, limit, locks, sems, kont, card, rest, harm>>

---------------------------------------------------------------------------
(* Tasks.                                                                   *)

Here(p, l)   == Running(p) /\ pc[p] = l
Goto(p, l) == pc' = [pc EXCEPT ![p] = l] /\ ran' = TRUE
Receiving  == {"init", "net_recv", "zero", "test", "wait", "stop", "open", "copy"}
Downloads  == {p \in Tasks : os.status[p] # "EXITED" /\ pc[p] \in Receiving}

\* Parts of the plane in the buffers, which are never cleared.
Parts == {recv[d] : d \in Ring} \ {Empty, Other}

\* mac_recv_desc_init and queue_init.
RingInit(p) ==
    /\ Here(p, "init") /\ Goto(p, "net_recv")
    /\ own' = Ring
    /\ os' = QueueInit(os, recv_block_queue)
    /\ harm' = IF rx \/ Parts # {} THEN harm \cup {"again"} ELSE harm
    /\ UNCHANGED <<lock_status, limit, locks, sems, kont, recv, dma, rx, sent, mac_cnt, i, file, had, execs>>

\* do_net_recv: the engine starts at the first descriptor.
NetRecv(p) ==
    /\ Here(p, "net_recv") /\ Goto(p, "zero")
    /\ dma' = 0 /\ rx' = TRUE
    /\ UNCHANGED <<vars, own, recv, sent, mac_cnt, i, file, had, execs, harm>>

Zero(p) ==
    /\ Here(p, "zero") /\ Goto(p, "test")
    /\ mac_cnt' = 0
    /\ UNCHANGED <<vars, card, i, file, had, execs, harm>>

\* Faulty: the wait ends one count early.
TestEarly(p) ==
    /\ Here(p, "test") /\ Goto(p, IF mac_cnt < NUM_DMA_DESC - 1 THEN "wait" ELSE "stop")
    /\ UNCHANGED <<vars, card, mac_cnt, i, file, had, execs, harm>>

\* The test of the loop.  What follows does not look at the count again.
Test(p) ==
    /\ Here(p, "test") /\ Goto(p, IF mac_cnt < NUM_DMA_DESC THEN "wait" ELSE "stop")
    /\ UNCHANGED <<vars, card, mac_cnt, i, file, had, execs, harm>>

\* do_wait_recv_package
WaitRecv(p) ==
    /\ Here(p, "wait") /\ pc' = [pc EXCEPT ![p] = "test"] /\ ran' = FALSE
    /\ os' = Scheduler(Block(os, recv_block_queue))
    /\ UNCHANGED <<lock_status, limit, locks, sems, kont, card, mac_cnt, i, file, had, execs, harm>>

\* Faulty: the counter keeps running.
StopLate(p) ==
    /\ Here(p, "stop") /\ Goto(p, "open")
    /\ had' = Parts
    /\ UNCHANGED <<vars, card, mac_cnt, i, file, execs, harm>>

Stop(p) ==
    /\ Here(p, "stop") /\ Goto(p, "open")
    /\ mac_cnt' = -1
    /\ had' = Parts
    /\ UNCHANGED <<vars, card, i, file, execs, harm>>

Open(p) ==
    /\ Here(p, "open") /\ Goto(p, "copy")
    /\ file' = <<>> /\ i' = [i EXCEPT ![p] = 0]
    /\ UNCHANGED <<vars, card, mac_cnt, had, execs, harm>>

\* One turn of the copying loop, with its sys_fwrite.
Copy(p) ==
    /\ Here(p, "copy") /\ Goto(p, IF i[p] + 1 = PNUM THEN "exit" ELSE "copy")
    /\ i' = [i EXCEPT ![p] = @ + 1]
    /\ file' = IF recv[i[p]] \in {Empty, Other} THEN file ELSE Append(file, recv[i[p]])
    /\ UNCHANGED <<vars, card, mac_cnt, had, execs, harm>>

\* mac_init_task: do_init_mac resets the card, which stops the engine.
InitMac(p) ==
    /\ Here(p, "init_mac") /\ Goto(p, "exit")
    /\ rx' = FALSE
    /\ harm' = IF Downloads = {} THEN harm ELSE harm \cup {"reset"}
    /\ UNCHANGED <<vars, own, recv, dma, sent, mac_cnt, i, file, had, execs>>

Exit(p) ==
    /\ pc[p] = "exit" /\ SysExit(p)
    /\ ran' = FALSE
    /\ UNCHANGED <<card, rest, mac_cnt, harm>>

TaskStep(p) ==
    \/ RingInit(p) \/ NetRecv(p) \/ Zero(p) \/ Test(p) \/ WaitRecv(p)
    \/ Stop(p) \/ Open(p) \/ Copy(p) \/ InitMac(p) \/ Exit(p)

---------------------------------------------------------------------------
(* The shell: "exec" starts either task, "kill" ends one.  Bounds: it does  *)
(* not start a download beside another one, kills only while packets are    *)
(* counted (at other times a kill leaves nothing behind in the driver), and *)
(* starts nothing after a kill.                                             *)

Exec == \E program \in {"init", "init_mac"}, prio \in Prios :
    /\ execs < MaxExec /\ execs' = execs + 1 /\ "killed" \notin harm
    /\ program = "init" => Downloads = {}
    /\ DoSpawn(Shell, prio)
    /\ pc' = [pc EXCEPT ![MinOf(Exiteds)] = program]
    /\ UNCHANGED <<card, mac_cnt, i, file, had, ran, harm>>

Kill(t) ==
    /\ mac_cnt >= 0
    /\ DoKill(Shell, t)
    /\ harm' = harm \cup {"killed"}
    /\ UNCHANGED <<card, rest, mac_cnt, ran>>

DNext ==
    \/ Arrive
    \/ \E p \in Pcb : Interrupt(p)
    \/ \E p \in Tasks : TaskStep(p)
    \/ Exec
    \/ \E t \in Tasks : Kill(t)

\* The CPU never rests: the timer interrupts again and again, unless that
\* changes nothing any more, and the kernel runs a task that has the CPU.
\* Packets are owed by nobody.  (Weak fairness, with the enabling conditions
\* written out.)
Interrupts == \E p \in Pcb : Interrupt(p)
Counting   == mac_cnt >= 0 /\ mac_cnt <= PNUM /\ TRUE \notin OwnBit
TimerActs  == \E p \in Pcb : /\ Running(p) /\ (ran \/ p = Shell)
                             /\ ran \/ Counting \/ Timer(os) # os
DFairness ==
    /\ []<><<Interrupts>>_dvars \/ []<>~TimerActs
    /\ \A p \in Tasks : []<><<TaskStep(p)>>_dvars \/ []<>~(Running(p) /\ pc[p] # "none")

DSpec == DInit /\ [][DNext]_dvars /\ DFairness

---------------------------------------------------------------------------
(* Properties.                                                             *)

Unless(events) == harm \cap events = {}

\* A count stands for a packet: what has been counted lies in the buffers
\* below mac_cnt, however interrupts, packets and the receiver interleave.
CountsPackets == Unless({"killed"}) =>
    \A d \in Ring : d < mac_cnt => d \notin own /\ recv[d] # Empty

\* The timer never reads behind the ring: the receiver stops the count before
\* it gets there, unless the receiver is killed.
IndexInRing == Unless({"killed"}) => mac_cnt < PNUM

\* A download ends with as many buffers filled as it waits for, and its file
\* then holds each part that had arrived when it stopped waiting, in the order
\* of arrival, unless the buffers still held parts from an earlier download.
FileInOrder == [][Unless({"again", "killed"}) =>
    \A p \in Tasks : pc[p] = "copy" /\ pc'[p] = "exit" =>
        /\ own \cap 0..NUM_DMA_DESC - 1 = {}
        /\ had \subseteq ToSet(file')
        /\ \A m, n \in DOMAIN file' : m < n => file'[m] < file'[n]]_dvars

\* A download ends once it has received more packets than it waits for: a
\* wake-up that falls between its test and its wait is made good by a later
\* count, if there are more of them than ticks go by before it has the CPU.
Finishes ==
    (Unless({"killed"}) /\ Downloads # {} /\ mac_cnt >= 0 /\ own \cap 0..NUM_DMA_DESC + Slack = {})
        ~> (Downloads = {} \/ ~Unless({"killed"}))
=============================================================================
