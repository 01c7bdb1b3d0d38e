# Verification of the UCAS_OS_Prj_2019 kernel

The repository holds the stages of a teaching operating system for a MIPS32
board (one CPU): Prj1 (boot), Prj2 (cooperative, then preemptive scheduling),
Prj3 (processes, synchronisation, mailboxes, shell), Prj4 (virtual memory),
Prj5 (network card), Prj6 (file system) and Big_Bonus (all of it, with programs
downloaded into the file system and launched from there). This project models
the process kernel that all later stages build on, `src/Prj3/start_code`, the
mailbox library above it, and the three parts that Big_Bonus adds, in the form
they have there: virtual memory, the network receiver and the file system.
Paths below are relative to `src/Prj3/start_code` unless they start with `src/`
or `Big_Bonus/` (`src/Big_Bonus/start_code`).

## 1. Inventory

| Part | State | Operations | What makes it hard, what makes it right |
|---|---|---|---|
| Process table and scheduler (`kernel/sched/sched.c`) | `pcb[]`, `current_running`, `next_running`, `block_accur`, `cpu_priority`, priorities and bonuses, sleep counters | `scheduler`, `do_block`, `do_unblock_one/all`, `do_sleep`, `do_spawn`, `do_exit`, `do_kill`, `do_wait`, `do_ps` | The walk for the next process starts from a pointer saved at the last block; status, queue and pointer are kept by hand. Right: a process is in one queue and its status says which; only ready processes run; all of them do; the dead stay dead. |
| Queues (`kernel/sched/queue.c`) | `head`, `tail`, and the `prev`/`next` inside each process; `all_queue`, the list of all queues | `queue_init`, `queue_push`, `queue_dequeue`, `queue_remove` | One pair of links per process; `queue_remove` believes its caller; `queue_init` of a queue in use drops its items and cuts `all_queue`. Right: nobody is linked twice. |
| Mutexes, conditions, semaphores, barriers (`kernel/locking`) | status or limit and a queue per object in user memory; lock and semaphore slots per process | init, acquire, release, wait, signal, broadcast, up, down, barrier wait | Every wake-up only makes ready; the woken look again in a loop and race newcomers; exits give back what is held in the middle of others' loops. Right: mutual exclusion, no lost wake-up, conservation. |
| Interrupts and system calls (`kernel/irq`, `arch/mips/kernel/entry.S`, `kernel/syscall`) | saved contexts, `EXL` | `irq_timer`, `handle_int`, `handle_syscall`, `do_scheduler` | Where a system call can be interrupted (only in `do_scheduler`) and user code can (anywhere). |
| Shell (`test/test_shell.c`) | command line | `exec`, `kill`, `ps`, `clear` | Process 0: it spawns and kills, never blocks or exits, and so keeps `ready_queue` nonempty. |
| Test programs (`test/test_project3`) | their shared objects | loops of the calls above | They say what the kernel is for. |
| Mailbox (`libs/mailbox.c`) | 32 boxes: name, `contents`, slots with `avail`, a queue, a lock and two conditions | `mbox_open`, `mbox_send`, `mbox_recv`, `mbox_close` | User-mode code, preempted anywhere; `mbox_open` takes no lock. Right: FIFO, exactly once, nobody forgotten. |
| Virtual memory (`Big_Bonus/kernel/mm/memory.c`) | page bitmap, second-level tables, items (ASID and page), TLB and its next index, `mems[]` per process | `alloc_page`, `free_page`, `init_page_table`, `fill_TLB`, `do_TLB_Refill`; spawn, `do_loadelf`, exit and kill | A page is recorded at every refill; an exit leaves TLB entries behind; ASIDs are 8 bits of a pid; all planes have one code address. Right: pages have one owner, nobody reaches another's, the stack and the code a process finds are its own. |
| Network receiver (`Big_Bonus/drivers/mac.c`, `kernel/irq/irq.c`, `test/bonus.c`) | descriptor ring, buffers, `mac_cnt`, `recv_block_queue` | `mac_recv_desc_init`, `do_net_recv`, `mac_recv_handle`, `do_wait_recv_package`, `irq_timer`, `mac_irq_handle`, `do_init_mac`, the copying loop | The card writes at any time, the timer polls and counts, the receiver tests and then blocks; the counter is an index. Right: counts stand for packets, the index stays in the ring, the file is in order, the download ends. |
| File system (`Big_Bonus/kernel/fs/fs.c`) | on the card: superblock, inode map, block map, inodes, blocks; in memory: the shell's directory and prompt, `inst_path`, `fd[]` | `do_mkfs`, `do_mkdir`, `do_rmdir`, `do_touch`, `do_cd`, `do_fopen`, `do_fread`, `do_fwrite`, `do_fclose` | A call is several writes to the card; entries are counted by hand; a task's `fopen` uses the shell's name buffer. Right: a tree whose counts agree, whose entries have inodes and blocks of their own, which keeps what was written. |
| Screen, printk, strings; boot block and createimage; scripts | buffers | output and loading | Pure I/O, or straight-line code. |

How they interact: a user program enters the kernel by `syscall` or by a timer
interrupt. The synchronisation calls change object state and slots and call
`do_block`/`do_unblock_*`, which move processes between queues; whoever blocks
calls `do_scheduler`, which saves the kernel context and continues in the kernel
context of another process. The mailbox library makes mutex and condition calls
from user mode. `do_exit` and `do_kill` walk the slots of a process and give its
locks and semaphores back. The network receiver blocks with the same `do_block`
and is woken from the timer interrupt. A download task writes what it received
with `sys_fopen`, `sys_fwrite` and `sys_fclose`, in the directory the shell is
in; the shell launches the file, which takes pages for its code and its stack;
exit and kill give pages back from the list the TLB refill has recorded.

`PROJECT.json` lists under "hazards" what is hard to test in this code, line by
line, with the properties that would catch it.

## 2. Modules

| Module | Models | State and actions |
|---|---|---|
| `Kernel` | sched.c, queue.c, lock.c, cond.c, sem.c, barrier.c, irq.c | below |
| `Programs` | the programs the kernel is made for | `Kernel` restricted to calls by their rules; type invariant, queue and liveness properties; the refinement to `Sync` |
| `Holders` | the same with a history of who was told it holds a mutex | `holder` |
| `Kills` | every program, kills included | `Kernel!Next` as it is |
| `SchedLoop` | the loop of `scheduler()`, link by link | a recursive function over its turns, to compare `Kernel!Pick` with |
| `BarrierTest` | `test_barrier.c` on `Kernel` | rounds of each task |
| `Sync` | what the kernel promises, without any order | places of processes, slots, object values |
| `KernelProofs` | theorems about `Kernel` under `Programs`: queues and statuses | |
| `KernelRefines` | theorems: `Kernel` implements `Sync`; who holds a mutex | |
| `KillProofs` | theorems about `Kernel` under any programs, kills included | |
| `SyncProofs` | theorems about `Sync` | |
| `Mailbox` | `libs/mailbox.c` on `Sync` | boxes, a program counter per process |
| `MailboxProofs` | theorems about `Mailbox`, from those about `Sync` | |
| `Memory` | `Big_Bonus`: memory.c, and what sched.c and `do_loadelf` do to pages | bitmap, tables, items, TLB, records; spawn, launch, exit, kill, a killed process that runs again, refill, conflict |
| `MemoryProofs` | theorems about `Memory` | |
| `Download` | `Big_Bonus`: receiver, timer polling and card, on `Kernel` | ring, buffers, counter, program counters |
| `DownloadProofs` | theorems about `Download`, from those about `Kernel` under any programs | |
| `FileTree` | what the file system promises: a tree that each command changes in one entry | `tree`, `sound` |
| `FileSys` | `Big_Bonus`: fs.c, the shell's file commands, the writing task | card, pending writes, memory; the refinement to `FileTree` |
| `FileSysProofs` | theorems about `FileSys` | |
| `MC*` | constants for TLC | |

How they compose: `Programs`, `Kills`, `Holders`, `SchedLoop`, `BarrierTest` and
`Download` extend `Kernel`; `Mailbox` extends `Sync`; `Kernel` under `Programs`
implements `Sync`; `FileSys` implements `FileTree`. `Memory` and `FileSys` do not
extend `Kernel`: their handlers run with interrupts masked from entry to exit,
so the scheduler adds the order of whole handlers, and both modules allow every
order. It adds one thing more: after a kill it may come to the killed process
again (the finding `KillDead`). `Memory` has that as an action (`Again`); for
`FileSys` it only means that a killed writing task goes on or stops, and it may do
either at any time.

**Kernel.** `os` is a record of everything sched.c keeps: `queue[q]` is the list
of items from `head` along `next`; `all` is `all_queue`; `lost` holds lists that
no queue heads any more because `queue_init` dropped them; `status`, `priority`,
`bonus`, `left` (ticks a sleeper still has) are the fields of the pcbs;
`current_running`, `next_running`, `block_accur`, `cpu_priority` are the globals;
`fault` says that the kernel has dereferenced NULL, and nothing is modelled after
that. `locks` and `sems` are the slots of the pcbs, `lock_status` and `limit` the
fields of the objects. Kernel functions that are called inside other functions
(`do_block`, `scheduler`, `queue_remove`, ...) are operators from records to
records, so that each action is one whole system call up to `do_scheduler`, in
the order of the code. The interrupt mask makes this exact: the kernel runs with
EXL set. `kont[p]` is what remains of a call of process p behind its
`do_scheduler`; the actions `Resume...` carry on there when p has the CPU again.
`Tick` is the timer interrupt and can come between any two calls.

A removal from a queue that does not hold the item, which happens after kills,
is modelled by what the links make of it (`Unlink`): an inner item is cut out of
whatever list it is in, an end item makes the kernel write through NULL.

The build differs between stages in one place that matters: `init_one_pcb`
clears the slots of `pcb[0]` in Prj3, Prj5 and Prj6, and those of the new process
in Big_Bonus. `ClearsOwnSlots` chooses.

The loops of `check_sleeping` (`WakeSleepers`) and of `do_exit` (`FreeAll`) are
recursive functions over the length of the sleep queue and over the slots, one
turn of the loop per argument, so that a proof can walk along them.
`AddressAssumption` is what C gives for nothing: objects of different kinds are at
different addresses, none of which is 0 or a queue head of the kernel's own.

`Pick` is a closed form of the scheduler's loop. The loop as it is written is in
`SchedLoop`, cut off after `Turns` turns; the run `KillChaos` compares the two in every
state, and `KillProofs` proves that the loop is over by then and that they agree.

**Sync.** `at[p]` is the place of a process: exited, ready, asleep, waiting for
an exit, or blocked on an object. A switch gives the CPU to any ready process and
may wake any sleepers. `Programs!SyncSpec` maps `Kernel` to it: a process is where
its queue is. `KernelRefines` proves it, so everything proved about `Sync` holds
of `Kernel` (section 5).

**Mailbox.** Extends `Sync` by the boxes. The statements of `mbox_send` and
`mbox_recv` that others could see separately (look, put, count, wake, unlock) are
separate actions, as a timer interrupt may come between them. strcpy is modelled
by what it does to a mail: everything behind its first 0 byte is gone. Opens
do not overlap, and `mbox_close`, which nobody calls, is left out.

**Memory.** A handler of memory.c runs masked and is one action. Addresses are
reduced to the pages a process really uses: the stack of its slot, and for a
plane (a program launched from a file) the one virtual code page that all planes
have. The ASID is the pid modulo `PIDS`, 256 in the code. Which process runs is
left open: on a switch the kernel loads the ASID of the new one, so a refill of a
process depends on nobody else's. An exit is final (`KillExitIsFinal`, section 5,
whatever pointers are stale). A kill is not: it frees the pages and marks the slot
TASK_EXITED, but `next_running` or a link may still lead to the victim, and
`scheduler()` then marks it RUNNING and loads its old ASID. `life` tells the two
apart, and `Again` is that dispatch, at any time until the slot has a new process;
what exactly the pointers must be for it is left to `Kernel`. The bound is
`MaxAgain`. `harm` records the events after which the code
is known to be unsafe; each property names those it depends on:

* `twice`: a process ended that had recorded a page twice. An evicted entry is
  refilled and recorded again (memory.c:88); at the end the second record finds an
  emptied item, which names page 0: the page of the exception vectors is freed.
* `foreign`: a process ended that had recorded an item which meanwhile is
  another's (the code page of a later plane).
* `alias`: a pid beyond the ASID. The item keeps 8 bits, the test in the refill
  compares all of them: from pid 256 on a process dies at its first miss.
* `bare`: a plane missed its code after an exit had freed it and got an empty page.
* `again`: a killed process runs again and the TLB still has an entry with its pid
  for a page it uses whose item is no longer its own: the kill has freed that page,
  and it may be another process's by now. (A code page that a later launch orphaned
  counts, too, though no kill frees it.) Without such an entry all that it matches
  is still its own, or its access is a miss, which gives it a page of its own or ends
  it.

The model also shows leaks that no property forbids: a launch overwrites the item
of the plane before it, whose page nobody frees; a process that ends before its
first miss, or after more than `MAX_LOCKS` records, leaves its pages in use.

**Download.** Extends `Kernel`, whose records and system calls it uses as they
are. The tasks of bonus.c have a program counter with a step between any two points
where an interrupt or a packet matters; `Arrive` is the card, at any time;
`Interrupt` is `irq_timer` with its polling. `mac_cnt` is an index into the ring
that the timer counts up. When a killed receiver has left it running it passes the
end of the ring and the timer reads other data, which is a nondeterministic bit.
`harm`: `killed`; `again` (a ring initialised while the engine runs or the buffers
still hold parts: nothing clears them); `reset` (the card initialised during a
download, which stops it).

**FileSys.** A system call computes its writes from the card (`pending`) and
`CardWrite` performs them one at a time; nothing else but a power cut can come in
between, since the kernel is masked. A name is a model value; a block is `NCELL`
cells of the size of a directory entry. `Walk`, `Find` and `PutEntry` keep the
code's way of counting non-empty entries up to `dnum`. The shell's parsing
(`inst_path`) and its call are two steps, as a task's `fopen` may come between
them. No name begins with a dot, which is an assumption on `Names`, in words only:
`do_cd` tests the first characters of a name (Big_Bonus/kernel/fs/fs.c:354,370) and
takes such a name for "." or "..". `harm`:

* `mkfs`: a power cut within mkfs, which writes the magic number first: the next
  mkfs takes the card for formatted and does not repair it. `cut`: one within
  another call.
* `zero`, `over`: `rmdir` frees `direct[0..7]`, seven of which are 0, so block 0, the
  superblock's, is handed out next, to a file (`zero`) or to a directory (`over`).
* `again`: block 0 lost its magic number, to a directory or file that was given it
  or to a write of a file longer than a block, and mkfs formats a card that is in
  use.
* `missing`: `rmdir` of a name that is not there counts the directory down.
* `full`: a directory block has no room for the entry, which is lost.
* `unfit`: the code counts 16 inodes to a sector, 8 fit (64 bytes each); the
  others never reach the card.
* `big`: a file longer than a block is written into block 0.
* `shared`: every `fopen` returns descriptor 0 (`occupied == 0xff` compares), so two
  tasks share a write pointer.
* `renamed`: an `fopen` that creates puts its name into the shell's `inst_path[0]`.
* `astray`: `cd ..` followed a ".." that was never written to an inode that no entry
  names as a directory. `mkdir` writes the dots of the new directory last; after a
  power cut before them the directory shows what its block held before, which can be
  the ".." of a removed directory. A file may have the inode it names by then, and
  `mkdir` in there writes an entry into the file. This takes three power cuts, two of
  them in `rmdir` between its two maps, so the one restart of the run does not reach it.

fs.h's picture of the card has the block map before the inode map, the code the
other way round; the model has no sector numbers, so this does not show.
The loop of `path_locate` (`Locate`, one turn is `Enter`) and the writes of a call
one after the other (`Done`) are recursive functions over the number of turns.

**FileTree.** A function from directories to sets of entries; `Format`, `Make` and
`Remove` are relations between two trees. `sound` ends the promise at the first of
the events that break it; `FileSys!Sound` says which they are.

All bounds are constants of the cfg. `NTASK` is the table size with the shell;
`HIGHEST_PRIORITY` is 6 in the code, tasks have priority 1 and the shell 7: what
matters is that there are levels above the tasks' and that the shell is above all,
so 2 (or 3 with two task priorities) is enough. `LimitBound` bounds a semaphore's
value, `SleepTimes` is in ticks; the bonus saturates at `HIGHEST_PRIORITY`, which
is exact because it is only compared.

| Run | Instance | Shows |
|---|---|---|
| `KernelLocks` | 3 tasks, a mutex, a condition | `TypeOK`; `QueuesAgree`: every live process is linked exactly once, in the queue its status says; `BlockedInCall`; refinement to `Sync`. Three tasks are needed for two waiters and an owner. |
| `KernelLive` | 2 tasks, a mutex, a condition, a barrier, sleep | `ReadyRuns` and `SleepEnds` under fairness; refinement |
| `HoldersClean` | 2 tasks, 2 mutexes, a semaphore, 1 slot, Big_Bonus's spawn, exits while holding | refinement with exits that give back, and with exits for want of a slot; `HolderKeepsLock` |
| `HoldersStale` | Prj3's spawn | violated: see findings |
| `KillChaos` | 2 tasks below the shell, a mutex, sleep, any call in any order | `LinkedOnce`: despite stale pointers and re-initialised queues no process is ever linked twice before the kernel faults; `ExitIsFinal`: `do_exit` never returns, which `lock.c` and `sem.c` rely on when a process has no slot left; `PickAgrees` |
| `KillDead` | any call in any order | violated: see findings |
| `BarrierRest` | test_barrier.c, 3 tasks, 3 rounds | `RoundsInStep`, `OpensFull` |
| `Sync` | 2 tasks, one object of each kind | the properties the theorems prove, before proving them |
| `Mailbox` | 2 tasks, a box of 2 mails, 3 sends, one call with a mail that is too long | `Fifo`, `Accounted`, `NoneForgotten`, `Served` |
| `Memory` | 2 slots, 11 pages of which 2 are the kernel's, 2 TLB entries, 3 records, 5 ASIDs, pids 2 to 6, 1 return of a killed process | `PagesOwned`, `Isolated`, `OwnStack`, `CodeKept`. With 2 entries for up to 4 pages evictions and repeated records happen; pids 5 and 6 do not fit the ASID, so the event `alias` happens; the returning process comes back with and without an entry that outlived its page (without its exception for `again` `Isolated` is violated); 11 pages are enough for all launches to leak. |
| `Download` | shell and 2 slots, a ring of 8, 2 counts to wait for, buffer 1 gets another packet, 2 tasks started | `CountsPackets`, `IndexInRing`, `FileInOrder`, `Finishes`. The ring is longer than what is waited for plus the slack, so late wake-ups and a counter that runs on are in reach, and so is its end. `FileInOrder` is an action property: it is about the step that ends the copying loop. |
| `FileSys` | 2 names, 5 inodes (one that does not fit its sector), 6 blocks, 4 entries per block, a file of 5 cells, 6 commands and events, 1 restart | `CountAgrees`, `EntriesWhole`, `BlocksPrivate`, `PathAgrees`, `Durable`, `MakesTyped`, and `Promise`, the refinement to `FileTree`. Four entries are two beside the dots, so that a directory gets full and has a hole; five cells make a file outgrow its block. |

Further bounds, all in guards: `Memory` never allocates on a full map (the code does
not test for it and hands out a page behind the map) nor launches with a full process
table, and lets killed processes come back `MaxAgain` times; `FileSys` never allocates on full maps, does not count a directory below zero,
opens a file at most twice at a time and writes and closes while the shell is not in
the middle of a command; `Download` starts no second download beside a running
one, kills only while packets are counted, starts nothing after a kill, and stops
`mac_cnt` just behind the ring.

Deadlock is checked except where the system may stop: after a fault, when all
rounds of the barrier test are over, in `Sync`, where a process may wait for
its own exit while the model has nobody else to run, and in `Memory`, `Download`
and `FileSys`, whose bounds on pids, tasks and commands end the run.

**Fairness.** `LiveSpec` assumes that timer interrupts are taken again and again
while user code runs (they stay pending while the kernel masks them) and that
kernel code runs on. Programs owe nothing: a task that loops for ever is preempted
and the others still run. `Mailbox` assumes of the kernel what `ReadyRuns` says,
and that a process within a library call gets on when it keeps getting the CPU.
`Served` is progress of the box and not fairness among tasks: the mutex has no
hand-over, and a task that takes it again and again can keep another out, which
is why calls that neither store nor fetch a mail are bounded (`MaxLong`).

`DFairness` of `Download` has the timer interrupt again and again and a task on the
CPU get on; a time slice is long enough for one step of a task. Packets are owed
by nobody. That is not enough for every download to end: a count that falls between the
receiver's test and its block wakes nobody. `Finishes` therefore asks for more
packets than are waited for: a later count makes good for the lost one. How many
more depends on the ticks a ready task waits for the CPU (`Slack`): with
`HIGHEST_PRIORITY` = 1 and three processes 2 are enough and 1 is not. That number
does not carry over: with the 6 levels of the code a ready receiver waits for more
ticks. The host's program sends 24 packets (src/Big_Bonus/pktRxTx/pktRxTx.c:774) and
the receiver waits for 20; the run does not say whether 4 more are enough.

## 4. Findings

The violated runs are disagreements between what tests or messages say and what
the code does; `PROJECT.json` quotes the lines.

* `KillDead`: `do_kill` sets `block_accur` and leaves `next_running` alone. The
  next `scheduler()` continues at the process some earlier block had saved there,
  which may be the one just killed: it runs again while the table calls its slot
  free.
* `HoldersStale`: a new process in a used slot inherits lock slots and unlocks, on
  exit, a mutex that somebody else was told it has.

`do_kill` looks through `all_queue` only. The locks of test_kill.c are never
initialised, so a task blocked on one is not found, and the shell reports a kill
that did not happen. (`Kernel!Found` has it; no property is claimed of such a
kill.)

The events listed as `harm` in section 2 are places where the code of Big_Bonus
goes wrong. No document or comment of the repository promises the contrary in so
many words, so they are no findings with a run of their own: the properties
say what holds up to each event, and `PROJECT.json` lists the line.

The barrier depends on its users' sleeps, too: `limit` is counted up by the woken
tasks one by one, and a task that comes back before the others have run finds it
too low. In `BarrierRest` the sleeps of test_barrier.c keep that from happening.

## 5. Proofs

TLAPS proves, for any number of processes, objects and slots (the assumption is
`SyncAssumption`: finitely many processes, at least the shell; objects of
different kinds are different; initial values are naturals):

1. `SyncProofs!TypeCorrect`: `Spec => []TypeOK`.
2. `SyncProofs!LockInvariant`: `Spec => []LockInv`, and from it
   `MutualExclusionHolds`, `LockedIffHeldHolds` and `NoLostWakeupHolds`.
   None of the three is inductive alone. Mutual exclusion needs that a LOCKED
   mutex is held by someone and an UNLOCKED one by nobody (`LockedIffHeld`);
   that needs that the process that takes a mutex is live (`RunningReady`) and
   that `init` never hits a mutex in use (`Unused`); no lost wake-up needs that an
   unlock or an exit wakes exactly the processes whose reason to wait ends.
   The lemmas follow the kernel's steps: `BlockStep` (a process leaves the CPU),
   `WakeStep`, `GrantStep`, `UnlockStep`, `ExitStep`, `SpawnStep`; then one
   lemma per group of calls.
3. `SyncProofs!CountInvariant`: `Spec => [](SemInv /\ BarrierInv)`, and from it
   `SemConservedHolds` (value and outstanding downs add up to an initial value,
   and the value is never negative) and `BarrierConservedHolds` (what is missing from the goal is
   exactly the processes inside). The invariants add that objects are untouched
   before their init and that nobody exits inside a barrier. The counting lemmas
   are about the cardinality of `Owed` and `Inside` when one process or one slot
   joins or leaves.

Of `Memory`, for any number of slots, pages, TLB entries, records and pids (the
assumption is `MemoryAssumption`: at least a shell, one page of the kernel and one
other, a TLB entry and an ASID):

4. `MemoryProofs!TypeCorrect`: `Spec => []TypeOK`. `FirstFree` is a CHOOSE of a
   minimum, and the proofs rest on a lemma that it exists and is free (from the
   well-foundedness of < on the naturals).
5. `MemoryProofs!PagesSafe`: `Spec => []PagesOwned`. Inductive with types: what an
   end frees is the pages of the items it empties, so the pages of the other items,
   the tables and the kernel stay in use. The record that occurs twice is the one
   case in which it is not so, which is why the event is in the property.
6. `MemoryProofs!StackSafe`: `Spec => []OwnStack`. Needs that the records of a process
   in slot t name only pages it uses (its stack t and the code page), so nobody
   else's end or conflict empties the item of a stack, and that pids fit the ASID
   until the event `alias`. The invariant (`StackInv`) is about killed processes whose
   slot has no new owner, too (`Known`): their stack's item is their own or
   empty, which is what they find if they run again.
7. `MemoryProofs!CodeSafe`: `Spec => []CodeKept`. Needs that the pids of live and of
   killed processes differ and are not ahead of `process_id`, so that no entry left
   by a dead process matches a new pid (`PidInv`), and that the code item of a plane, while it carries
   the plane's pid, and every entry with that pid name the page its launch loaded.
8. `MemoryProofs!IsolationSafe`: `Spec => []Isolated`. An entry that a live process
   matches names the page of its stack item or, for a plane, the page of its code item
   or an orphan: a page in use that no item and no table names any more, because a
   later launch overwrote the code item. No two planes share such a page
   (`EntryInv`); with `PagesOwned` that is isolation. A process that comes back after a
   kill joins the live ones: unless the event `again` happens, it matches no entry but
   for items that are its own, so what holds of the live holds of it (`AgainEntries`).

Of `Mailbox`, for any number of processes, boxes, names, slots of a box and mails (the
assumptions are `SyncAssumption` and `MailboxAssumption`: a box has its own lock and
two conditions, at least one slot, and a process has room for at least one lock):

9. `MailboxProofs!MailboxInvariant`: `MSpec => []MInv`, and from it `FifoHolds`,
   `AccountedHolds` and `NoneForgottenHolds`. Every step of `Mailbox` is a step of
   `Sync` or none, so `LockInv` holds of it (`LocksHold`). `CallInv` ties a program
   counter to the kernel: a caller past `mutex_lock_acquire` and before
   `mutex_lock_release` has the box's lock in one of its slots and no other lock, and
   waits on a condition only inside the loop that names it; so two callers are never
   at work on one box (`OneInside`). `OpenInv` says that a box is used only after an
   open that nobody else is in, and is untouched before. `BoxInv` is the state of a
   box: what was sent is what was received and what is queued, position by position
   (`Ordered`), the counter is off by the one update its holder is at (`Counted`), the
   queue names each slot once and exactly the slots that are not available
   (`Linked`), and what was looked at still holds (`Looked`). That a sender finds a slot
   is then a pigeonhole argument on the queue (`SlotLeft`). Nobody forgotten rests on
   the same: who begins to wait has seen the box empty, or full, under the lock, and
   who changes that is on the way to its broadcast.

Of `Kernel` under the programs of `Programs`, for any number of processes, objects,
slots, priorities and sleep times (the assumptions are `KernelAssumption`,
`AddressAssumption` and `ProgramAssumption`):

10. `KernelProofs!KernelInv`: `GoodSpec => []KInv`, and from it `KernelTypes` (`TypeOK`)
    and `KernelQueues` (`QueuesAgree`). `QueuesAgree` is not inductive: it is about the
    moments between two system calls, and inside a call a process is on no queue, or
    RUNNING and blocked at once. `KInv` says that there is a function `at` from
    processes to queues (NULL: exited) which explains the state: each queue holds
    exactly the processes that `at` puts there, once each, and the status of all but
    the one that runs is `StatusAt` of its place; that the shell is always on the ready
    queue (which is why the scheduler's loop ends); and that whatever anyone waits
    for, will return to, or holds is initialised (`Known`: an `init` of a queue in use
    would drop it). With the place function every kernel operator has a contract of
    the form "it takes a state explained by `at` to one explained by `at'`", and the
    contracts compose as the calls do: wake-ups move places to `Ready` (`WokenFrom`,
    `Wakes`), `do_block` and `do_exit` leave a state whose running process is
    elsewhere (`Vacant`), `do_scheduler` makes it steady again, whichever way its loop
    ends. That `check_sleeping` and `do_exit`'s loop keep the contract is induction
    over a counter, written as the least counterexample (`LeastMember`), since the
    library's induction rules take an operator.
11. `KernelRefines!KernelImplementsSync`: `GoodSpec => SyncSpec` if `ClearsOwnSlots`
    (Big_Bonus's `init_one_pcb`), one lemma per call (`AcquireRefines`, `ExitRefines`,
    ...): `do_exit` frees slot by slot what `Sync!Exit` frees at once, and a pass
    through `do_scheduler` is `Sync!Switch`. The only step that needs more than `KInv`
    is `do_spawn`: the new process must have empty slots. Prj3's `init_one_pcb` clears
    the wrong pcb's; `CleanKernelImplementsSync` shows that this is the only
    obstacle, as the refinement holds on all behaviours where who exits holds
    nothing (`CleanExits`; the invariant is `Swept`: an exited process has empty
    slots, and nobody ever fills the shell's). The hypothesis cannot be dropped:
    `HoldersStale` is the counterexample. `RoomExitsClean` gives it from
    what tasks do: none exits while it holds an object, and none fills all its
    `MAX_LOCKS` slots, at which `do_mutex_lock_acquire` exits on its behalf;
    `RoomyKernelImplementsSync` is the sum.
12. `KernelBlockedInCall`, `CleanKernelBlockedInCall`: `[]BlockedInCall`, and
    `HolderKeeping`, `CleanHolderKeeping`: `HolderSpec => []HolderKeepsLock`, under the
    same two hypotheses. They are proved through the refinement: every step of `Sync`
    has one of three shapes (`Joins`, `Quits`, `Calls`; `ProcShape` to `BarrierShape`),
    which say how places, slots, mutexes and continuations may change together.
    Three invariants are kept by each shape: `HeldOnce` (a mutex in a live process's
    slot is locked and in no other such slot), `InCalls` (who is on an object's queue
    has the continuation of that call) and `HolderInv` (the history variable names a
    process in whose slots the mutex is).

Of `Kernel` under every program (`KillSpec`: any call in any order, kills, objects
initialised again while in use, objects of others), from `KernelAssumption` and
`AddressAssumption` alone:

13. `KillProofs!KillLinksInv`: `KillSpec => []LinkInv`, and from it `KillLinkedOnce`
    (`LinkedOnce`) and `KillExitIsFinal` (`ExitIsFinal`). `KInv` does not hold here,
    which is what kills do: the process that runs may be on no queue or on one of an
    object, a READY one may be linked nowhere, and lists may hang off no queue. Neither
    property is inductive: that `do_exit` does not return depends on what the scheduler
    may ever dispatch, through `next_running` that a kill has left stale, through the
    links of a caller that is not on the ready queue, or after a wake-up of somebody
    killed. `LinkInv` bounds all of that by one set S of processes (`Wild`): everyone who
    is linked, in a queue or in a list `queue_init` has dropped, the one that runs and
    the one `next_running` names are in S, S holds only positive priorities (so the
    scheduler's walk finds somebody), and nobody in S is at the end of `do_exit`. S
    shrinks only in `do_exit`, whose caller is unlinked or the kernel faults
    (`UnlinkParts`, the four cases of `queue_remove`), and grows only in `do_spawn`,
    which takes a pcb that is EXITED and so, by the invariant, linked nowhere. That S is
    no function of the queues is why it is quantified. The lists share nobody
    (`Chained`: the place function of `KInv` for the queues, with the dropped lists
    beside it). A faulted kernel takes no step: what follows a write through NULL
    is not claimed.

    `KillPickAgrees` (`PickAgrees`) is about the same states: the scheduler's loop, from
    any candidate, ends, and as `Pick` says. The walk goes along the candidate's list
    and then, a level lower each time, along `ready_queue` (`Underway`). Each turn lowers
    a bound on the turns left (`TurnUnderway`): a list has no process twice, so it is no
    longer than the table (`ListBound`), and at level 1 somebody is found, since who is
    linked has a positive priority. The closed form leaves out that `get_bonus` runs in
    the middle of the walk; that changes nobody in `ready_queue`, because
    `ready_queue` stays before `sleep_queue` in `all_queue` whatever is initialised
    again (`Headed`, a part of `LinkInv`; `ReadyBonus`).

Of `Download`, for any ring, number of descriptors to wait for, tasks, priorities and
other objects, whichever buffers get other packets (the assumptions are those of 13 and
`DownloadAssumption`: the receiver's queue is one of the objects' queues, and the ring
is at least as long as what is waited for):

14. `DownloadProofs!DownloadInv`: `DSpec => []DInv`, and from it `DownloadCountsPackets`
    (`CountsPackets`) and `DownloadFileInOrder` (`FileInOrder`). `DInv` ties the card to
    the receiver's program counter. `CountsPackets` needs that nobody takes a counted
    descriptor back: `RingInit` does, so there must be one receiver at a time and the
    count must be off whenever it is not in its waiting loop (`Calls`), also when the
    receiver exits or the card is reset; and that a buffer that is not the engine's is
    full (`Counted`). `FileInOrder` needs that the engine goes through the ring once,
    from its start (`Filled`: the buffers from `dma` on are its own and hold no parts),
    and a loop invariant of the copying loop: what the receiver had when it stopped
    waiting is in the file, or in a buffer the loop has yet to come to, and all of the
    file is older than all of those (`Filed`). Packets that arrive during the copying
    are why the second half is needed. It is stated for the step that ends the loop and
    not for the state behind it, because by the time that task exits another
    download may already have taken the ring. The kernel's part is `LinkInv` of 13, as
    the shell may kill and the receiver's queue is initialised again by each download,
    and that nobody dies but who exits or is killed (`Outlives`): the scheduler, the
    timer and a wake-up may lead anywhere `LinkInv` allows, but never mark a process
    EXITED.

Of `FileSys`, for any number of inodes, of them to a sector, blocks, reserved blocks,
cells, names, paths, files to write, commands and restarts (the assumptions are
`FileSysAssumption` and `ContentAssumption`: cells are entries or bytes of a file and
the name of a cell tells which, where the card has bytes only; the proof needs
it because it looks at cells no directory shows any more):

15. `FileSysProofs!FileSysInv`: `Spec => [](FInv /\ BackInv)`, and from it `FileSysEntriesWhole`
    (`EntriesWhole`) and `FileSysBlocksPrivate` (`BlocksPrivate`). Neither is inductive.
    They are about what `ls` can reach by counting cells, and a call is several writes
    with a power cut possible behind each. `FInv` is therefore about two more
    things than the card. First, about every cell of every block that looks
    like an entry, in view or left behind by a removed directory (`Named`): what
    it names exists and has an inode and a block of its own (`NamedExist`,
    `NamedApart`), no two cells name one inode but for the dots (`NamedOnce`), types
    agree (`NamedTyped`), and what tasks have written is in no directory's block
    (`DataApart`). Stale cells must be in it because a new directory in a used block
    shows them. Then about every prefix of the writes that are pending (`Leads`): the
    card after k of them is `Sane` for each k, and after all of them it is the card the
    call wants. This is where the order of the writes in fs.c is used: one lemma per
    call (`CreateLeads`, `RmdirLeads`, `MkfsLeads`, `FwriteLeads`) shows it, and
    `CardWrite` and `Restart` need no more than a prefix. The memory of the writing task
    belongs to it, too (`Ready`): its blocks are those of the file it has open. `Dirs`
    follows at most NI levels, and the proof follows it with a least counterexample.
    Block 0 is the exception in all this: rmdir frees it time and again, so any number
    of files can get it, and `FInv` lets files, and no directory, hold and share it
    (`Held`). That is as much as the tree of item 19 needs. `BackInv` says the
    rest: until a file got block 0, whatever is named at any prefix of the
    pending writes has a block. It rests on which blocks a call hands out (`LeadsBy`).
16. `FileSysPathAgrees` (`PathAgrees`), from `FInv` and `PathInv`. At every prefix of
    the pending writes the names of the prompt lead to the working directory
    (`Pathed`), as long as no call was cut short. `cd ..` is why that is not enough: it
    goes where the cell `..` says while the prompt loses its last name, so every
    `..` in a directory that is shown must name the directory that shows it, and every
    `.` itself (`Linked`). One lemma per call says which directories it leaves alone
    (`Spares`): all but the working directory, whose own entries are not on the path
    to it. The case that needs care is rmdir of a directory, as it leaves the cells
    of the removed one with their `..` on the card, out of sight.
17. `FileSysCountAgrees` (`CountAgrees`), from those and `CountInv`: after the writes of
    the call a directory shows as many cells as it counts, the dots among them
    (`Counted`). The step that makes an entry is where a hole is filled: `Gained`
    says that one cell more is shown, or that every cell was taken and counted
    (`Crammed`), which is the event "full". `Lost` says the same of rmdir.
18. `FileSysMakesTyped` (`MakesTyped`), an action property, from those and `NameInv`: the
    kernel's copy of the name is the one parsed until a task creates a file. That the
    entry is new follows from its inode, which no cell of the card names (`FInv`). The
    proof needs that mkfs was not done twice, and the code does, too: done a second
    time it keeps the shell in a directory of the old tree, whose entries can
    be those of inodes handed out again. A mkdir can then repeat an entry
    that is there. The shortest such behaviour known to us needs nine commands and a
    file of two full blocks, so the instance of `MCFileSys` does not reach it.
19. `FileSysImplementsTree`: `Spec => Promise`, the refinement the run checks: `FileTree`
    with the tree of the card as it is after the pending writes, until `Sound` ends.
    A file in block 0 does not end it, nor does what is then written over
    the superblock, until mkfs is done again. One lemma per call says which step of the tree
    its writes make (`CreateTree`, `RmdirTree`, `MkfsTree`, `FileTreeSame`), and
    `CardWrite` and `Restart` stutter. The tree is a fixed point on both sides: `Dirs`
    is the least set of directories with the root in it that lists none outside
    (`DirsReach`), what `Remove` takes out is the least set with the removed
    directory in it (`BelowReach`); both end after as many turns as there are
    directories (`GrowsNoMore`). That rmdir takes away exactly what is below
    needs that no inode is listed twice (`ListedOnce`), and that the directory the
    command works in is still reached afterwards, for which `PathAgrees` is
    cited: the prompt's path leads to it. No order among directories is needed.
20. `FileSysDurable` (`Durable`), from `FInv` and `KeptInv`, for any number of power cuts
    at any write. `Stored` is what holds at every prefix of the pending writes: a file
    with a block has its inode and that block in use, the block is the block of no
    other file or named inode (`Owns`), and as far as its size goes it holds what the
    task writes (`Holds`). It counts every inode that looks like a file, named or not,
    as an `fopen` that is cut short leaves one that no entry names, and the next call
    must not hand out its block. Each call is shown to leave every prefix `Stored` and
    the files of before as they were (`Intact`; `CreateStores`, `RmdirStores`,
    `MkfsStores`), and a write of the task to change its own file only (`FwriteStores`),
    whose size runs behind its cells and never before them. Three more facts are
    needed. `rmdir` never frees the working directory, since no directory has an entry
    that names itself (`Selfless`). mkfs is done once, since a formatted card keeps its
    magic number (`Magic`) until block 0 is lost. And the directory a command works in
    is one, with a block that no file has (`Working`): the ".." that `cd` follows
    is where this is in doubt. The proof of that step failed, and rightly so: `Durable`
    used to be stated without `astray` and was false beyond the run's one restart.

`SyncSpec` is an instance of `Sync!Spec`, and the theorems of items 1 to 3 are about
every `Sync`: for the kernel they say that a mutex has one holder, that it is LOCKED
exactly while held, that nobody waits for what has happened, and that semaphores and
barriers lose no count. The last step, instantiating a theorem, is made here in
words, because the prover cannot cite the theorems of an instantiated module.

Model-checked only:

* liveness, which is out of the prover's reach: `ReadyRuns`, `SleepEnds`, `Served`,
  `Finishes`;
* `RoundsInStep` and `OpensFull` of `BarrierTest` and `IndexInRing` of `Download`: they
  hold because of
  how many ticks go by before a ready task has the CPU, or a sleep lasts, so they are
  true of the numbers of tasks, levels and descriptors of the run and not of every one.

## 6. Plan

In this order:

1. `QueueList`: queue.c at the level of `head`, `tail`, `prev`, `next`, implementing
   the sequences of `Kernel`.
2. Overlapping `mbox_open`s on `Kernel`.

## 7. Not modelled

Registers and stacks (a process continues where `kont` says), the screen and the
text of messages, the UART, `do_ps`, `do_getpid`, `do_ls`, `do_cat` and `do_statfs`
(they change nothing), the spin lock (no caller), the 32-bit arithmetic of
`do_sleep` (sleeps are in ticks), `mbox_close` (no caller), boot code, image tools
and scripts.

The repository keeps a copy of the whole kernel per stage. The copies in Prj4, Prj5
and Prj6 are those of Prj3 with additions or the earlier form of a part of
Big_Bonus: Prj2's cooperative kernel, Prj4's page tables, Prj5's sending and
receiving tests and Prj6's fs.c are not modelled a second time. The Windows program in
`src/Big_Bonus/pktRxTx` is the other end of the network, with the headers of the
packet library it uses; the model's `Arrive` stands for anything it may send.
