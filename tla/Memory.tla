------------------------------- MODULE Memory -------------------------------
(***************************************************************************)
(* Virtual memory of Big_Bonus: the page bitmap, the page table and the    *)
(* TLB (kernel/mm/memory.c), filled by spawn and by the launch of an ELF   *)
(* file, refilled on a miss, and emptied by exit and kill.                 *)
(*                                                                         *)
(* A process uses the page of its stack, and a plane also the page of its  *)
(* code, which has the same virtual address in every plane.  Which process *)
(* runs is left open: the kernel sets the ASID to the pid of the process   *)
(* it switches to, so a step of a process depends on no other one's.  An   *)
(* exit is final; a kill is not, as the scheduler may come to the killed   *)
(* process once more.                                                      *)
(***************************************************************************)
EXTENDS Integers, FiniteSets, SequencesExt

CONSTANTS
    NTASK,      \* NUM_MAX_TASK: slot 0 is the shell, which uses no page
    NPAGE,      \* physical pages: 0..NPAGE - 1
    RESERVED,   \* pages 0..RESERVED - 1 hold the kernel
    NTLB,       \* entries of the TLB
    MAX_LOCKS,  \* slots of pcb_t.mems
    PIDS,       \* pids that fit the ASID: 0xff + 1
    MaxPid,     \* bound: processes started
    MaxAgain    \* bound: times that a killed process comes back

ASSUME MemoryAssumption ==
    /\ NTASK \in Nat \ {0} /\ NPAGE \in Nat /\ RESERVED \in 1..NPAGE - 1
    /\ NTLB \in Nat \ {0} /\ MAX_LOCKS \in Nat /\ PIDS \in Nat \ {0}
    /\ MaxPid \in Nat /\ MaxAgain \in Nat

Tasks   == 1..NTASK - 1
Pages   == 0..NPAGE - 1
Kernel  == 0..RESERVED - 1
Code    == 0                        \* the virtual page 0x80:0 of a plane's code
Vpages  == {Code} \cup Tasks        \* the virtual page 0x40:try-1 is slot try's stack
Tables  == {"0x40", "0x80"}
NoItem  == [pid |-> -1, pfn |-> 0]  \* entrylo = 0
NoEntry == [vpn |-> -1, pid |-> -1, pfn |-> 0]
Exited  == [life |-> "ended", pid |-> 0, plane |-> FALSE, mems |-> <<>>]

VARIABLES
    used,        \* the bitmap: pages in use
    top,         \* page of each second-level table, 0: none
    item,        \* the page table's items
    tlb, tlb_index,
    pcb,         \* slots: pid, whether a plane runs in it, mems[], and its life:
                 \* "live", "ended" by do_exit, "killed" by do_kill (for both
                 \* status is TASK_EXITED), "again" when it runs after that
    process_id,
    \* History, which nothing in the kernel reads:
    returns,     \* times that a killed process came back
    code,        \* the page a plane's program was loaded into
    harm         \* events after which memory is known to be unsafe

vars == <<used, top, item, tlb, tlb_index, pcb, process_id, returns, code, harm>>

\* Whose status is not TASK_EXITED.
Live == {t \in Tasks : pcb[t].life \in {"live", "again"}}

\* alloc_page takes the first free page.  Bound: it is not called on a full map.
FirstFree(u) == CHOOSE p \in Pages \ u : \A q \in Pages \ u : p <= q
Room(n) == Cardinality(Pages \ used) >= n

\* Faulty: the page is not marked.
AllocUnmarked(u) == u
Alloc(u) == u \cup {FirstFree(u)}

Init ==
    /\ used = Alloc(Kernel)
    /\ top = [t \in Tables |-> IF t = "0x40" THEN FirstFree(Kernel) ELSE 0]
    /\ item = [v \in Vpages |-> NoItem]
    /\ tlb = [i \in 0..NTLB - 1 |-> NoEntry] /\ tlb_index = 0
    /\ pcb = [t \in Tasks |-> Exited]
    /\ process_id = 1 /\ returns = 0 /\ code = [t \in Tasks |-> 0] /\ harm = {}

\* Faulty: the index runs past the last entry.
FillTLBOn(v, pid, pfn) ==
    LET hit == {i \in DOMAIN tlb : tlb[i].vpn = v /\ tlb[i].pid = pid}
        at  == IF hit = {} THEN tlb_index ELSE CHOOSE i \in hit : TRUE
    IN /\ tlb' = [tlb EXCEPT ![at] = [vpn |-> v, pid |-> pid, pfn |-> pfn]]
       /\ tlb_index' = IF hit = {} THEN tlb_index + 1 ELSE tlb_index

\* The entry written for a page: the one that matches, else the next in turn.
FillTLB(v, pid, pfn) ==
    LET hit == {i \in DOMAIN tlb : tlb[i].vpn = v /\ tlb[i].pid = pid}
        at  == IF hit = {} THEN tlb_index ELSE CHOOSE i \in hit : TRUE
    IN /\ tlb' = [tlb EXCEPT ![at] = [vpn |-> v, pid |-> pid, pfn |-> pfn]]
       /\ tlb_index' = IF hit = {} THEN (tlb_index + 1) % NTLB ELSE tlb_index

\* init_one_pcb's slot: the first one whose process has exited.
Slot == CHOOSE t \in Tasks \ Live : \A s \in Tasks \ Live : t <= s

NewPid == process_id + 1
Born == /\ NewPid <= MaxPid
        /\ process_id' = NewPid
        /\ harm' = IF NewPid >= PIDS THEN harm \cup {"alias"} ELSE harm

\* Faulty: init_one_pcb marks the stack with the pid of the last process.
StackItemLate(pfn) == [pid |-> process_id % PIDS, pfn |-> pfn]
StackItem(pfn) == [pid |-> NewPid % PIDS, pfn |-> pfn]

\* do_spawn: a page for the stack, whatever the slot's item holds.
Spawn ==
    /\ Tasks \ Live # {} /\ Room(1)
    /\ Born
    /\ used' = Alloc(used)
    /\ item' = [item EXCEPT ![Slot] = StackItem(FirstFree(used))]
    /\ pcb' = [pcb EXCEPT ![Slot] = [life |-> "live", pid |-> NewPid, plane |-> FALSE, mems |-> <<>>]]
    /\ UNCHANGED <<top, tlb, tlb_index, returns, code>>

\* do_loadelf: the code table if there is none yet, a page for the code with
\* its TLB entry, then init_one_pcb.  The new pcb is not tested: with a full
\* table it is the shell's; the shell does not survive it, see README.
Launch ==
    /\ Tasks \ Live # {} /\ Room(3)
    /\ Born
    /\ LET u1   == IF top["0x80"] = 0 THEN Alloc(used) ELSE used
           u2   == Alloc(u1)
           page == FirstFree(u1)
       IN /\ top' = [top EXCEPT !["0x80"] = IF @ = 0 THEN FirstFree(used) ELSE @]
          /\ used' = Alloc(u2)
          /\ item' = [item EXCEPT ![Code] = [pid |-> NewPid % PIDS, pfn |-> page],
                                  ![Slot] = StackItem(FirstFree(u2))]
          /\ FillTLB(Code, NewPid % PIDS, page)
          /\ code' = [code EXCEPT ![Slot] = page]
    /\ pcb' = [pcb EXCEPT ![Slot] = [life |-> "live", pid |-> NewPid, plane |-> TRUE, mems |-> <<>>]]
    /\ UNCHANGED returns

\* The pages that the loop over mems[] frees.  A page recorded twice has an
\* empty item the second time, and an empty item names page 0.
Twice(m) == \E i, j \in DOMAIN m : i # j /\ m[i] = m[j]
Freed(m) == {item[v].pfn : v \in ToSet(m)} \cup (IF Twice(m) THEN {0} ELSE {})

\* Faulty: the items keep their pages.
ClearedNot(m) == item
Cleared(m) == [v \in Vpages |-> IF v \in ToSet(m) THEN NoItem ELSE item[v]]

\* What is known to go wrong when a process with these mems ends.
EndHarms(t) ==
    LET m == pcb[t].mems
    IN (IF Twice(m) \/ \E v \in ToSet(m) : item[v] = NoItem THEN {"twice"} ELSE {})
       \cup (IF \E v \in ToSet(m) : item[v].pid # pcb[t].pid THEN {"foreign"} ELSE {})

\* What do_exit and do_kill have in common.
End(t) ==
    /\ t \in Live
    /\ used' = used \ Freed(pcb[t].mems)
    /\ item' = Cleared(pcb[t].mems)
    /\ harm' = harm \cup EndHarms(t)
    /\ UNCHANGED <<top, tlb, tlb_index, process_id, returns, code>>

\* do_exit by the process, which does not run any more.
Exit(t) == End(t) /\ pcb' = [pcb EXCEPT ![t] = Exited]

\* do_kill by the shell.  next_running and the links may still lead to t.
Kill(t) == End(t) /\ pcb' = [pcb EXCEPT ![t].life = "killed", ![t].mems = <<>>]

Uses(t) == {t} \cup (IF pcb[t].plane THEN {Code} ELSE {})
Hit(t, v) == \E i \in DOMAIN tlb : tlb[i].vpn = v /\ tlb[i].pid = pcb[t].pid % PIDS

\* scheduler() comes to a killed process whose slot is not in use again: the
\* status becomes TASK_RUNNING, the ASID is its old pid, and entries of the TLB
\* with that pid match, though the kill may have freed their pages.
Again(t) ==
    /\ t \in Tasks /\ pcb[t].life = "killed" /\ returns < MaxAgain
    /\ returns' = returns + 1
    /\ pcb' = [pcb EXCEPT ![t].life = "again"]
    /\ harm' = IF \E v \in Uses(t) : Hit(t, v) /\ item[v].pid # pcb[t].pid
               THEN harm \cup {"again"} ELSE harm
    /\ UNCHANGED <<used, top, item, tlb, tlb_index, process_id, code>>

\* do_TLB_Refill.  An empty item gets a page.  A page of another pid is a
\* "memory conflict": the process exits, without having recorded the page.
\* Otherwise it records the page, every time, as long as mems has room.
Miss(t, v) == /\ t \in Live /\ v \in Uses(t) /\ ~Hit(t, v)
              /\ item[v] = NoItem => Room(1)
\* Faulty: a page of another pid is taken over.
FoundAny(t, v) ==
    [pid |-> pcb[t].pid % PIDS,
     pfn |-> IF item[v] = NoItem THEN FirstFree(used) ELSE item[v].pfn]

Found(t, v) ==
    IF item[v] # NoItem THEN item[v]
    ELSE [pid |-> pcb[t].pid % PIDS, pfn |-> FirstFree(used)]

Refill(t, v) ==
    /\ Miss(t, v) /\ Found(t, v).pid = pcb[t].pid
    /\ used' = IF item[v] = NoItem THEN Alloc(used) ELSE used
    /\ item' = [item EXCEPT ![v] = Found(t, v)]
    /\ pcb' = [pcb EXCEPT ![t].mems = IF Len(@) < MAX_LOCKS THEN Append(@, v) ELSE @]
    /\ FillTLB(v, Found(t, v).pid, Found(t, v).pfn)
    /\ harm' = IF v = Code /\ item[v] = NoItem THEN harm \cup {"bare"} ELSE harm
    /\ UNCHANGED <<top, process_id, returns, code>>

Conflict(t, v) ==
    /\ Miss(t, v) /\ Found(t, v).pid # pcb[t].pid
    /\ LET m == pcb[t].mems
       IN /\ used' = (IF item[v] = NoItem THEN Alloc(used) ELSE used) \ Freed(m)
          /\ item' = [Cleared(m) EXCEPT ![v] = IF v \in ToSet(m) THEN NoItem ELSE Found(t, v)]
    /\ pcb' = [pcb EXCEPT ![t] = Exited]
    /\ harm' = harm \cup EndHarms(t)
    /\ UNCHANGED <<top, tlb, tlb_index, process_id, returns, code>>

Next ==
    \/ Spawn
    \/ Launch
    \/ \E t \in Tasks : Exit(t) \/ Kill(t) \/ Again(t)
    \/ \E t \in Tasks, v \in Vpages : Refill(t, v) \/ Conflict(t, v)

Spec == Init /\ [][Next]_vars

---------------------------------------------------------------------------
(* Properties.                                                             *)

Unless(events) == harm \cap events = {}
Item == [pid : -1..PIDS - 1, pfn : Pages]
Pcb  == [life : {"live", "ended", "killed", "again"}, pid : Nat, plane : BOOLEAN, mems : Seq(Vpages)]

TypeOK ==
    /\ used \subseteq Pages /\ top \in [Tables -> Pages] /\ item \in [Vpages -> Item]
    /\ tlb \in [0..NTLB - 1 -> [vpn : Vpages \cup {-1}, pid : -1..PIDS - 1, pfn : Pages]]
    /\ tlb_index \in 0..NTLB - 1 /\ process_id \in Nat /\ returns \in Nat
    /\ pcb \in [Tasks -> Pcb]
    /\ harm \subseteq {"twice", "foreign", "alias", "bare", "again"}
    /\ code \in [Tasks -> Pages]

\* The kernel's pages, the exception vectors in page 0 among them, are never
\* free, and tables and items of the page table have pages of their own, which
\* are in use; unless a process has ended that had recorded a page twice.
PagesOwned == Unless({"twice"}) =>
    LET held == {v \in Vpages : item[v] # NoItem}
        tabs == {t \in Tables : top[t] # 0}
    IN /\ Kernel \subseteq used
       /\ \A v \in held : item[v].pfn \in used \ Kernel
       /\ \A t \in tabs : top[t] \in used \ Kernel
       /\ \A v, w \in held : v # w => item[v].pfn # item[w].pfn
       /\ \A t, s \in tabs : t # s => top[t] # top[s]
       /\ \A v \in held, t \in tabs : item[v].pfn # top[t]

\* What a live process reaches through the TLB, stale entries included.
Reach(t) == {tlb[i].pfn : i \in {j \in DOMAIN tlb : tlb[j].vpn \in Uses(t)
                                                   /\ tlb[j].pid = pcb[t].pid % PIDS}}

\* No two processes reach the same page, and none a free page or the kernel's;
\* a killed process that runs again included, unless its entries outlived its
\* pages.
Isolated == Unless({"twice", "foreign", "alias", "again"}) =>
    \A t \in Live : /\ Reach(t) \subseteq used \ (Kernel \cup {top["0x40"], top["0x80"]})
                    /\ \A s \in Live : s # t => Reach(s) \cap Reach(t) = {}

\* A miss on its own stack never ends a process, and brings back the same page:
\* that page is its own, as long as pids fit the ASID.  After a kill it may be
\* gone; who runs again then gets a new one.
OwnStack == Unless({"alias"}) => \A t \in Live :
    item[t].pid = pcb[t].pid \/ (pcb[t].life = "again" /\ item[t] = NoItem)

\* A plane runs in the page its program was loaded into, unless a plane's code
\* was freed by the exit of another one and came back as an empty page.
CodeKept == Unless({"alias", "bare"}) =>
    \A t \in Live : \A i \in DOMAIN tlb :
        tlb[i].vpn = Code /\ tlb[i].pid = pcb[t].pid % PIDS /\ pcb[t].plane
            => tlb[i].pfn = code[t]
=============================================================================
