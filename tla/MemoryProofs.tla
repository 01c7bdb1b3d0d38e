---------------------------- MODULE MemoryProofs ----------------------------
(***************************************************************************)
(* Safety of virtual memory, for any number of tasks, pages and entries:   *)
(* the pages of the page table and of the kernel, the stacks, and what     *)
(* processes reach through the TLB.                                        *)
(***************************************************************************)
EXTENDS Memory, FiniteSetTheorems, WellFoundedInduction, TLAPS

\* A non-empty set of numbers has a first one.
LEMMA FirstOf ==
    ASSUME NEW S \in SUBSET Nat, S # {}
    PROVE  \E p \in S : \A q \in S : p <= q
  <1> DEFINE R == OpToRel(<, Nat)
  <1>1. IsWellFoundedOn(R, Nat)
    BY NatLessThanWellFounded
  <1> HIDE DEF R
  <1>2. PICK p \in S : \A q \in S : ~(<<q, p>> \in R)
    BY <1>1, WFMin
  <1>3. \A q \in S : <<q, p>> \in R <=> q < p
    BY DEF R, OpToRel
  <1>4. p \in Nat /\ \A q \in S : q \in Nat /\ ~(q < p)
    BY <1>2, <1>3
  <1> QED BY <1>4

LEMMA NumbersOfThings ==
    /\ Pages \subseteq Nat /\ Tasks \subseteq Nat /\ Kernel \subseteq Pages
    /\ Code \notin Tasks /\ Code \in Vpages /\ Tasks \subseteq Vpages
    /\ 0 \in Pages /\ IsFiniteSet(Pages)
  BY FS_Interval, MemoryAssumption DEF Pages, Tasks, Kernel, Code, Vpages

\* alloc_page's choice on a map that is not full.
LEMMA FreePage ==
    ASSUME NEW u, Pages \ u # {}
    PROVE  FirstFree(u) \in Pages /\ FirstFree(u) \notin u
  <1>1. \E p \in Pages \ u : \A q \in Pages \ u : p <= q
    BY NumbersOfThings, FirstOf
  <1> QED BY <1>1 DEF FirstFree

\* A map with room for n + 1 pages has room for n after an allocation.
LEMMA AllocTakesOne ==
    ASSUME NEW u, NEW n \in Nat, Cardinality(Pages \ u) >= n + 1
    PROVE  /\ FirstFree(u) \in Pages /\ FirstFree(u) \notin u
           /\ Alloc(u) = u \cup {FirstFree(u)}
           /\ Cardinality(Pages \ Alloc(u)) >= n
  <1>1. IsFiniteSet(Pages \ u)
    BY NumbersOfThings, FS_Subset
  <1>2. Pages \ u # {}
    BY <1>1, FS_EmptySet
  <1>3. FirstFree(u) \in Pages /\ FirstFree(u) \notin u
    BY <1>2, FreePage
  <1>4. Pages \ Alloc(u) = (Pages \ u) \ {FirstFree(u)}
    BY DEF Alloc
  <1>5. Cardinality(Pages \ u) \in Nat
    BY <1>1, FS_CardinalityType
  <1>6. Cardinality((Pages \ u) \ {FirstFree(u)}) = Cardinality(Pages \ u) - 1
    BY <1>1, <1>3, FS_RemoveElement
  <1>7. Cardinality(Pages \ Alloc(u)) = Cardinality(Pages \ u) - 1
    BY <1>4, <1>6
  <1>8. Cardinality(Pages \ Alloc(u)) >= n
    BY <1>5, <1>7
  <1> QED BY <1>3, <1>8 DEF Alloc

LEMMA RoomForOne ==
    ASSUME Room(1)
    PROVE  /\ FirstFree(used) \in Pages /\ FirstFree(used) \notin used
           /\ Alloc(used) = used \cup {FirstFree(used)}
  <1>1. Cardinality(Pages \ used) >= 0 + 1
    BY DEF Room
  <1> QED BY <1>1, AllocTakesOne

\* The first slot whose process has exited.
LEMMA SlotIsFree ==
    ASSUME Tasks \ Live # {}
    PROVE  Slot \in Tasks /\ Slot \notin Live
  <1>1. \E t \in Tasks \ Live : \A s \in Tasks \ Live : t <= s
    BY NumbersOfThings, FirstOf
  <1> QED BY <1>1 DEF Slot

\* The pages a launch takes: for the table, if there is none, the code and
\* the stack.
TablePage == FirstFree(used)
MapBefore == IF top["0x80"] = 0 THEN Alloc(used) ELSE used
CodePage  == FirstFree(MapBefore)
StackPage == FirstFree(Alloc(MapBefore))

LEMMA LaunchPages ==
    ASSUME Room(3)
    PROVE  /\ TablePage \in Pages \ used /\ CodePage \in Pages \ used /\ StackPage \in Pages \ used
           /\ CodePage # StackPage
           /\ top["0x80"] = 0 => TablePage # CodePage /\ TablePage # StackPage
           /\ Alloc(Alloc(MapBefore)) =
                used \cup {CodePage, StackPage} \cup (IF top["0x80"] = 0 THEN {TablePage} ELSE {})
  <1>1. Cardinality(Pages \ used) >= 3
    BY DEF Room
  <1>2. /\ TablePage \in Pages /\ TablePage \notin used
        /\ Alloc(used) = used \cup {TablePage} /\ Cardinality(Pages \ Alloc(used)) >= 2
    BY <1>1, AllocTakesOne, 3 = 2 + 1 DEF TablePage
  <1>3. Cardinality(Pages \ used) \in Nat
    BY NumbersOfThings, FS_Subset, FS_CardinalityType
  <1>4. Cardinality(Pages \ MapBefore) >= 2
    BY <1>1, <1>2, <1>3 DEF MapBefore
  <1>5. /\ CodePage \in Pages /\ CodePage \notin MapBefore
        /\ Alloc(MapBefore) = MapBefore \cup {CodePage}
        /\ Cardinality(Pages \ Alloc(MapBefore)) >= 1
    BY <1>4, AllocTakesOne, 2 = 1 + 1 DEF CodePage
  <1>6. /\ StackPage \in Pages /\ StackPage \notin Alloc(MapBefore)
        /\ Alloc(Alloc(MapBefore)) = Alloc(MapBefore) \cup {StackPage}
    BY <1>5, AllocTakesOne, 1 = 0 + 1 DEF StackPage
  <1> QED BY <1>2, <1>5, <1>6 DEF MapBefore

\* A launch in these terms.
LEMMA LaunchStep ==
    ASSUME Launch
    PROVE  /\ top' = [top EXCEPT !["0x80"] = IF @ = 0 THEN TablePage ELSE @]
           /\ used' = Alloc(Alloc(MapBefore))
           /\ item' = [item EXCEPT ![Code] = [pid |-> NewPid % PIDS, pfn |-> CodePage],
                                   ![Slot] = StackItem(StackPage)]
           /\ FillTLB(Code, NewPid % PIDS, CodePage)
           /\ code' = [code EXCEPT ![Slot] = CodePage]
  BY DEF Launch, TablePage, MapBefore, CodePage, StackPage

---------------------------------------------------------------------------
LEMMA PidInAsid == ASSUME NEW n \in Nat PROVE n % PIDS \in 0..PIDS - 1
  BY MemoryAssumption

LEMMA SmallPidStays ==
    ASSUME NEW n \in Nat, n < PIDS
    PROVE  n % PIDS = n
  <1> DEFINE k == PIDS
  <1>1. k \in Nat /\ k > 0 /\ n < k
    BY MemoryAssumption
  <1> HIDE DEF k
  <1>2. n % k = n
    BY <1>1
  <1> QED BY <1>2 DEF k

LEMMA TlbTyped ==
    ASSUME TypeOK, NEW v \in Vpages, NEW pid \in -1..PIDS - 1, NEW pfn \in Pages,
           FillTLB(v, pid, pfn)
    PROVE  /\ tlb' \in [0..NTLB - 1 -> [vpn : Vpages \cup {-1}, pid : -1..PIDS - 1, pfn : Pages]]
           /\ tlb_index' \in 0..NTLB - 1
  <1> DEFINE hit == {k \in DOMAIN tlb : tlb[k].vpn = v /\ tlb[k].pid = pid}
             at  == IF hit = {} THEN tlb_index ELSE CHOOSE k \in hit : TRUE
  <1>1. at \in 0..NTLB - 1
    BY DEF TypeOK
  <1>2. tlb' = [tlb EXCEPT ![at] = [vpn |-> v, pid |-> pid, pfn |-> pfn]]
    BY DEF FillTLB
  <1>3. (tlb_index + 1) % NTLB \in 0..NTLB - 1
    BY MemoryAssumption DEF TypeOK
  <1>4. tlb_index' = IF hit = {} THEN (tlb_index + 1) % NTLB ELSE tlb_index
    BY DEF FillTLB
  <1> HIDE DEF at, hit
  <1> QED BY <1>1, <1>2, <1>3, <1>4 DEF TypeOK

LEMMA FoundTyped ==
    ASSUME TypeOK, NEW t \in Tasks, NEW v \in Vpages, Miss(t, v)
    PROVE  Found(t, v) \in Item
  <1>1. pcb[t].pid % PIDS \in 0..PIDS - 1
    BY PidInAsid DEF TypeOK, Pcb
  <1>2. item[v] = NoItem => FirstFree(used) \in Pages
    BY RoomForOne DEF Miss
  <1> QED BY <1>1, <1>2 DEF Found, Item, TypeOK

LEMMA ItemsTyped ==
    NoItem \in Item /\ Exited \in Pcb
  BY NumbersOfThings, MemoryAssumption DEF NoItem, Item, Exited, Pcb

LEMMA InitTyped == ASSUME Init PROVE TypeOK
  <1>1. Pages \ Kernel # {}
    BY MemoryAssumption DEF Pages, Kernel
  <1>2. FirstFree(Kernel) \in Pages
    BY <1>1, FreePage
  <1>3. NoEntry \in [vpn : Vpages \cup {-1}, pid : -1..PIDS - 1, pfn : Pages]
    BY NumbersOfThings, MemoryAssumption DEF NoEntry
  <1>4. used \subseteq Pages /\ top \in [Tables -> Pages] /\ code \in [Tasks -> Pages]
    BY <1>2, NumbersOfThings DEF Init, Alloc
  <1>5. /\ item \in [Vpages -> Item]
        /\ pcb \in [Tasks -> Pcb]
    BY ItemsTyped DEF Init
  <1>6. tlb_index \in 0..NTLB - 1 /\ process_id \in Nat /\ returns \in Nat /\ harm = {}
    BY MemoryAssumption DEF Init
  <1> QED BY <1>3, <1>4, <1>5, <1>6 DEF Init, TypeOK

\* The type invariant of the memory's state is kept by every step.
LEMMA StepTyped == ASSUME TypeOK, [Next]_vars PROVE TypeOK'
  <1>1. CASE Spawn
    <2>1. Slot \in Tasks /\ NewPid \in Nat /\ FirstFree(used) \in Pages
      BY <1>1, SlotIsFree, RoomForOne DEF Spawn, NewPid, TypeOK
    <2>2. StackItem(FirstFree(used)) \in Item
      BY <2>1, PidInAsid DEF StackItem, Item
    <2>3. used' \subseteq Pages /\ item' \in [Vpages -> Item]
      BY <1>1, <2>1, <2>2 DEF Spawn, Alloc, TypeOK
    <2>4. pcb' \in [Tasks -> Pcb]
      BY <1>1, <2>1 DEF Spawn, TypeOK, Pcb
    <2> QED BY <1>1, <2>1, <2>3, <2>4 DEF Spawn, Born, TypeOK
  <1>2. CASE Launch
    <2>1. Slot \in Tasks /\ NewPid \in Nat /\ NewPid % PIDS \in 0..PIDS - 1
      BY <1>2, SlotIsFree, PidInAsid DEF Launch, NewPid, TypeOK
    <2>2. /\ TablePage \in Pages /\ CodePage \in Pages /\ StackPage \in Pages
          /\ Alloc(Alloc(MapBefore)) \subseteq used \cup {CodePage, StackPage, TablePage}
      BY <1>2, LaunchPages DEF Launch
    <2>3. StackItem(StackPage) \in Item /\ [pid |-> NewPid % PIDS, pfn |-> CodePage] \in Item
      BY <2>1, <2>2 DEF StackItem, Item
    <2>4. /\ tlb' \in [0..NTLB - 1 -> [vpn : Vpages \cup {-1}, pid : -1..PIDS - 1, pfn : Pages]]
          /\ tlb_index' \in 0..NTLB - 1
      BY <1>2, <2>1, <2>2, LaunchStep, TlbTyped, NumbersOfThings
    <2>5. used' \subseteq Pages /\ top' \in [Tables -> Pages] /\ code' \in [Tasks -> Pages]
      BY <1>2, <2>2, LaunchStep DEF TypeOK
    <2>6. item' \in [Vpages -> Item]
      BY <1>2, <2>3, LaunchStep DEF TypeOK
    <2>7. /\ process_id' \in Nat /\ returns' \in Nat /\ harm' \subseteq {"twice", "foreign", "alias", "bare", "again"}
          /\ pcb' \in [Tasks -> Pcb]
      BY <1>2, <2>1 DEF Launch, Born, TypeOK, Pcb
    <2> QED BY <2>4, <2>5, <2>6, <2>7 DEF TypeOK
  <1>3. ASSUME NEW t \in Tasks, Exit(t) \/ Kill(t) PROVE TypeOK'
    <2>1. End(t)
      BY <1>3 DEF Exit, Kill
    <2>2. pcb' \in [Tasks -> Pcb]
      <3>1. CASE Exit(t)
        BY <3>1, ItemsTyped DEF Exit, TypeOK
      <3>2. CASE Kill(t)
        <4>1. pcb[t] \in Pcb /\ <<>> \in Seq(Vpages)
          BY DEF TypeOK
        <4>2. [pcb[t] EXCEPT !.life = "killed", !.mems = <<>>] \in Pcb
          BY <4>1 DEF Pcb
        <4> QED BY <3>2, <4>2 DEF Kill, TypeOK
      <3> QED BY <1>3, <3>1, <3>2
    <2>3. used' \subseteq Pages /\ item' \in [Vpages -> Item]
      BY <2>1, ItemsTyped DEF End, Cleared, TypeOK
    <2>4. harm' \subseteq {"twice", "foreign", "alias", "bare", "again"}
      BY <2>1 DEF End, EndHarms, TypeOK
    <2> QED BY <1>3, <2>1, <2>2, <2>3, <2>4 DEF End, Exit, Kill, TypeOK
  <1>7. ASSUME NEW t \in Tasks, Again(t) PROVE TypeOK'
    <2>1. pcb' \in [Tasks -> Pcb]
      BY <1>7 DEF Again, TypeOK, Pcb
    <2> QED BY <1>7, <2>1 DEF Again, TypeOK
  <1>4. ASSUME NEW t \in Tasks, NEW v \in Vpages, Refill(t, v) PROVE TypeOK'
    <2>1. Found(t, v) \in Item
      BY <1>4, FoundTyped DEF Refill
    <2>2. item[v] = NoItem => FirstFree(used) \in Pages
      BY <1>4, RoomForOne DEF Refill, Miss
    <2>3. /\ tlb' \in [0..NTLB - 1 -> [vpn : Vpages \cup {-1}, pid : -1..PIDS - 1, pfn : Pages]]
          /\ tlb_index' \in 0..NTLB - 1
      BY <1>4, <2>1, TlbTyped DEF Refill, Item
    <2> DEFINE m  == pcb[t].mems
               m2 == IF Len(m) < MAX_LOCKS THEN Append(m, v) ELSE m
    <2>4. pcb[t] \in Pcb /\ m2 \in Seq(Vpages)
      BY DEF TypeOK, Pcb
    <2>5. pcb' = [pcb EXCEPT ![t].mems = m2]
      BY <1>4 DEF Refill
    <2> HIDE DEF m2
    <2>6. pcb' \in [Tasks -> Pcb]
      BY <2>4, <2>5 DEF TypeOK, Pcb
    <2> QED BY <1>4, <2>1, <2>2, <2>3, <2>6 DEF Refill, Alloc, TypeOK
  <1>5. ASSUME NEW t \in Tasks, NEW v \in Vpages, Conflict(t, v) PROVE TypeOK'
    <2>1. Found(t, v) \in Item
      BY <1>5, FoundTyped DEF Conflict
    <2>2. item[v] = NoItem => FirstFree(used) \in Pages
      BY <1>5, RoomForOne DEF Conflict, Miss
    <2> QED BY <1>5, <2>1, <2>2, ItemsTyped DEF Conflict, Cleared, EndHarms, Alloc, TypeOK
  <1>6. CASE UNCHANGED vars
    BY <1>6 DEF vars, TypeOK
  <1> QED BY <1>1, <1>2, <1>3, <1>4, <1>5, <1>6, <1>7 DEF Next

\* Type correctness of the page bitmap, the page table, the TLB and the slots.
THEOREM TypeCorrect == Spec => []TypeOK
  BY InitTyped, StepTyped, PTL DEF Spec

---------------------------------------------------------------------------
\* The pages of kernel, tables and items, as one statement.
OwnPages ==
    /\ Kernel \subseteq used
    /\ \A v \in Vpages : item[v] # NoItem => item[v].pfn \in used /\ item[v].pfn \notin Kernel
    /\ \A t \in Tables : top[t] # 0 => top[t] \in used /\ top[t] \notin Kernel
    /\ \A v, w \in Vpages : item[v] # NoItem /\ item[w] # NoItem /\ v # w
                              => item[v].pfn # item[w].pfn
    /\ \A t, s \in Tables : top[t] # 0 /\ top[s] # 0 /\ t # s => top[t] # top[s]
    /\ \A v \in Vpages, t \in Tables : item[v] # NoItem /\ top[t] # 0 => item[v].pfn # top[t]

PagesInv == "twice" \notin harm => OwnPages

LEMMA PagesInvMeans == PagesInv <=> PagesOwned
  BY DEF PagesInv, OwnPages, PagesOwned, Unless

LEMMA InitPages == ASSUME Init PROVE PagesInv
  <1>1. Pages \ Kernel # {}
    BY MemoryAssumption DEF Pages, Kernel
  <1>2. FirstFree(Kernel) \in Pages /\ FirstFree(Kernel) \notin Kernel
    BY <1>1, FreePage
  <1> QED BY <1>2 DEF Init, PagesInv, OwnPages, Alloc, Tables

\* A process that has recorded no page twice, and none that is gone, gives
\* back pages of items, and clears these items.
LEMMA FreedAreItems ==
    ASSUME TypeOK, NEW t \in Tasks, "twice" \notin EndHarms(t)
    PROVE  /\ ToSet(pcb[t].mems) \subseteq {v \in Vpages : item[v] # NoItem}
           /\ Freed(pcb[t].mems) = {item[v].pfn : v \in ToSet(pcb[t].mems)}
  <1>1. pcb[t].mems \in Seq(Vpages)
    BY DEF TypeOK, Pcb
  <1>2. ToSet(pcb[t].mems) \subseteq Vpages
    BY <1>1 DEF ToSet
  <1> QED BY <1>2 DEF EndHarms, Freed

\* A step of any process keeps the pages of the others, the tables' and the
\* kernel's.
LEMMA StepPages == ASSUME TypeOK, PagesInv, [Next]_vars PROVE PagesInv'
  <1> SUFFICES ASSUME "twice" \notin harm' PROVE OwnPages'
    BY DEF PagesInv
  <1>1. CASE Spawn
    <2>1. Slot \in Vpages /\ FirstFree(used) \notin used
      BY <1>1, SlotIsFree, RoomForOne, NumbersOfThings DEF Spawn
    <2>2. OwnPages
      BY <1>1 DEF Spawn, Born, PagesInv
    <2> QED BY <1>1, <2>1, <2>2 DEF Spawn, StackItem, Alloc, OwnPages, TypeOK
  <1>2. CASE Launch
    <2>1. Slot \in Vpages /\ Code \in Vpages /\ Slot # Code
      BY <1>2, SlotIsFree, NumbersOfThings DEF Launch
    <2>2. OwnPages
      BY <1>2 DEF Launch, Born, PagesInv
    <2>3. /\ TablePage \notin used /\ CodePage \notin used /\ StackPage \notin used
          /\ CodePage # StackPage
          /\ top["0x80"] = 0 => TablePage # CodePage /\ TablePage # StackPage
          /\ used' = used \cup {CodePage, StackPage} \cup (IF top["0x80"] = 0 THEN {TablePage} ELSE {})
      BY <1>2, LaunchPages, LaunchStep DEF Launch
    <2>4. /\ item' \in [Vpages -> Item] /\ top' \in [Tables -> Pages]
          /\ item \in [Vpages -> Item] /\ top \in [Tables -> Pages]
      BY StepTyped DEF TypeOK
    <2>5. \A v \in Vpages : item'[v].pfn = IF v = Code THEN CodePage
                                          ELSE IF v = Slot THEN StackPage ELSE item[v].pfn
      BY <1>2, <2>1, <2>4, LaunchStep DEF StackItem
    <2>6. \A v \in Vpages : v # Code /\ v # Slot => item'[v] = item[v]
      BY <1>2, <2>1, <2>4, LaunchStep
    <2>7. \A t \in Tables : top'[t] = IF t = "0x80" /\ top[t] = 0 THEN TablePage ELSE top[t]
      BY <1>2, <2>4, LaunchStep DEF Tables
    <2>8. /\ Kernel \subseteq used'
          /\ \A v \in Vpages : item'[v] # NoItem => item'[v].pfn \in used' /\ item'[v].pfn \notin Kernel
          /\ \A t \in Tables : top'[t] # 0 => top'[t] \in used' /\ top'[t] \notin Kernel
      BY <2>2, <2>3, <2>5, <2>6, <2>7 DEF OwnPages
    <2>9. \A v, w \in Vpages : item'[v] # NoItem /\ item'[w] # NoItem /\ v # w
                                 => item'[v].pfn # item'[w].pfn
      BY <2>2, <2>3, <2>5, <2>6 DEF OwnPages
    <2>10. \A t, s \in Tables : top'[t] # 0 /\ top'[s] # 0 /\ t # s => top'[t] # top'[s]
      BY <2>2, <2>3, <2>7 DEF OwnPages
    <2>11. \A v \in Vpages, t \in Tables : item'[v] # NoItem /\ top'[t] # 0 => item'[v].pfn # top'[t]
      BY <2>2, <2>3, <2>5, <2>6, <2>7 DEF OwnPages
    <2> QED BY <2>8, <2>9, <2>10, <2>11 DEF OwnPages
  <1>3. ASSUME NEW t \in Tasks, End(t) PROVE OwnPages'
    <2>1. "twice" \notin EndHarms(t) /\ OwnPages
      BY <1>3 DEF End, PagesInv
    <2> DEFINE m == pcb[t].mems
    <2>2. /\ ToSet(m) \subseteq {v \in Vpages : item[v] # NoItem}
          /\ Freed(m) = {item[v].pfn : v \in ToSet(m)}
      BY <2>1, FreedAreItems
    <2>3. used' = used \ Freed(m) /\ item' = Cleared(m) /\ top' = top
      BY <1>3 DEF End
    <2> HIDE DEF m
    <2> QED BY <2>1, <2>2, <2>3 DEF OwnPages, Cleared, TypeOK
  <1>4. ASSUME NEW t \in Tasks, NEW v \in Vpages, Refill(t, v) PROVE OwnPages'
    <2>1. OwnPages
      BY <1>4 DEF Refill, PagesInv
    <2>2. CASE item[v] = NoItem
      <3>1. FirstFree(used) \notin used /\ used' = used \cup {FirstFree(used)} /\ top' = top
        BY <1>4, <2>2, RoomForOne DEF Refill, Miss
      <3>2. item' = [item EXCEPT ![v] = Found(t, v)] /\ Found(t, v).pfn = FirstFree(used)
        BY <1>4, <2>2 DEF Refill, Found
      <3> QED BY <2>1, <3>1, <3>2 DEF OwnPages, TypeOK
    <2>3. CASE item[v] # NoItem
      <3>1. used' = used /\ top' = top /\ item' = item
        BY <1>4, <2>3 DEF Refill, Found, TypeOK
      <3> QED BY <2>1, <3>1 DEF OwnPages
    <2> QED BY <2>2, <2>3
  <1>5. ASSUME NEW t \in Tasks, NEW v \in Vpages, Conflict(t, v) PROVE OwnPages'
    <2>1. "twice" \notin EndHarms(t) /\ OwnPages
      BY <1>5 DEF Conflict, PagesInv
    <2> DEFINE m == pcb[t].mems
    <2>2. /\ ToSet(m) \subseteq {w \in Vpages : item[w] # NoItem}
          /\ Freed(m) = {item[w].pfn : w \in ToSet(m)}
      BY <2>1, FreedAreItems
    <2>3. /\ used' = (IF item[v] = NoItem THEN Alloc(used) ELSE used) \ Freed(m)
          /\ item' = [Cleared(m) EXCEPT ![v] = IF v \in ToSet(m) THEN NoItem ELSE Found(t, v)]
          /\ top' = top
      BY <1>5 DEF Conflict
    <2> HIDE DEF m
    <2>4. CASE item[v] = NoItem
      <3>1. FirstFree(used) \notin used /\ Alloc(used) = used \cup {FirstFree(used)}
        BY <1>5, <2>4, RoomForOne DEF Conflict, Miss
      <3>2. v \notin ToSet(m) /\ Found(t, v).pfn = FirstFree(used)
        BY <2>2, <2>4 DEF Found
      <3>3. \A w \in Vpages : item'[w] = IF w = v THEN Found(t, v)
                                        ELSE IF w \in ToSet(m) THEN NoItem ELSE item[w]
        BY <2>3, <3>2 DEF Cleared
      <3>4. FirstFree(used) \notin Freed(m)
        BY <2>1, <2>2, <3>1 DEF OwnPages
      <3> QED BY <2>1, <2>2, <2>3, <2>4, <3>1, <3>2, <3>3, <3>4 DEF OwnPages
    <2>5. CASE item[v] # NoItem
      <3>1. \A w \in Vpages : item'[w] = IF w \in ToSet(m) THEN NoItem ELSE item[w]
        BY <2>3, <2>5 DEF Cleared, Found
      <3>2. used' = used \ Freed(m)
        BY <2>3, <2>5
      <3> QED BY <2>1, <2>2, <2>3, <3>1, <3>2 DEF OwnPages
    <2> QED BY <2>4, <2>5
  <1>6. CASE UNCHANGED vars
    BY <1>6 DEF vars, PagesInv, OwnPages
  <1>7. ASSUME NEW t \in Tasks, Again(t) PROVE OwnPages'
    BY <1>7 DEF Again, PagesInv, OwnPages
  <1> QED BY <1>1, <1>2, <1>3, <1>4, <1>5, <1>6, <1>7 DEF Next, Exit, Kill

\* The kernel's pages stay in use, and tables and items have pages of their
\* own, until a process ends that has recorded a page twice.
THEOREM PagesSafe == Spec => []PagesOwned
  <1>1. Spec => []TypeOK
    BY TypeCorrect
  <1>2. Init => PagesInv
    BY InitPages
  <1>3. TypeOK /\ PagesInv /\ [Next]_vars => PagesInv'
    BY StepPages
  <1> QED BY <1>1, <1>2, <1>3, PagesInvMeans, PTL DEF Spec

---------------------------------------------------------------------------
\* The slots whose process runs, or was killed and may run again.
Known == {t \in Tasks : pcb[t].life # "ended"}

LEMMA LiveKnown == Live \subseteq Known /\ Known \subseteq Tasks
  BY DEF Live, Known

\* What a process may have recorded is what it uses, so that the end of
\* another one never takes its stack's item away.  Only its own kill does.
StackInv ==
    /\ \A t \in Tasks : ToSet(pcb[t].mems) \subseteq {t, Code}
    /\ "alias" \notin harm => \A t \in Known :
          item[t].pid = pcb[t].pid \/ (pcb[t].life # "live" /\ item[t] = NoItem)

LEMMA NothingRecorded == ToSet(<<>>) = {} /\ Exited.mems = <<>> /\ Exited.life = "ended"
  BY DEF ToSet, Exited

LEMMA InitStack == ASSUME Init PROVE StackInv
  BY DEF Init, StackInv, Known, Exited, ToSet

LEMMA StackInvMeans == ASSUME StackInv PROVE OwnStack
  BY LiveKnown DEF StackInv, OwnStack, Unless, Live

\* No step of a process touches another one's stack.
LEMMA StepStack == ASSUME TypeOK, StackInv, [Next]_vars PROVE StackInv'
  <1> DEFINE Own(t) == item[t].pid = pcb[t].pid \/ (pcb[t].life # "live" /\ item[t] = NoItem)
  <1>1. CASE Spawn
    <2>1. Slot \in Tasks
      BY <1>1, SlotIsFree DEF Spawn
    <2>2. "alias" \notin harm' => NewPid < PIDS /\ NewPid \in Nat /\ "alias" \notin harm
      BY <1>1, MemoryAssumption DEF Spawn, Born, NewPid, TypeOK
    <2>5. "alias" \notin harm' => NewPid % PIDS = NewPid /\ "alias" \notin harm
      BY <2>2, SmallPidStays
    <2>3. \A t \in Tasks : item'[t] = IF t = Slot THEN StackItem(FirstFree(used)) ELSE item[t]
      BY <1>1, <2>1, NumbersOfThings DEF Spawn, TypeOK
    <2>4. \A t \in Tasks : pcb'[t] = IF t = Slot THEN [life |-> "live", pid |-> NewPid, plane |-> FALSE, mems |-> <<>>]
                                    ELSE pcb[t]
      BY <1>1, <2>1 DEF Spawn, TypeOK
    <2>6. \A t \in Tasks : ToSet(pcb'[t].mems) \subseteq {t, Code}
      BY <2>4, NothingRecorded DEF StackInv
    <2>7. \A t \in Known' : t \in Tasks /\ (t # Slot => t \in Known)
      BY <2>4 DEF Known
    <2>8. "alias" \notin harm' => \A t \in Known' : Own(t)'
      BY <2>3, <2>4, <2>5, <2>7 DEF StackInv, StackItem
    <2> QED BY <2>6, <2>8 DEF StackInv
  <1>2. CASE Launch
    <2>1. Slot \in Tasks /\ Slot # Code
      BY <1>2, SlotIsFree, NumbersOfThings DEF Launch
    <2>2. "alias" \notin harm' => NewPid < PIDS /\ NewPid \in Nat /\ "alias" \notin harm
      BY <1>2, MemoryAssumption DEF Launch, Born, NewPid, TypeOK
    <2>5. "alias" \notin harm' => NewPid % PIDS = NewPid /\ "alias" \notin harm
      BY <2>2, SmallPidStays
    <2>3. \A t \in Tasks : item'[t] = IF t = Slot THEN StackItem(StackPage) ELSE item[t]
      BY <1>2, <2>1, LaunchStep, NumbersOfThings DEF TypeOK
    <2>4. \A t \in Tasks : pcb'[t] = IF t = Slot THEN [life |-> "live", pid |-> NewPid, plane |-> TRUE, mems |-> <<>>]
                                    ELSE pcb[t]
      BY <1>2, <2>1 DEF Launch, TypeOK
    <2>6. \A t \in Tasks : ToSet(pcb'[t].mems) \subseteq {t, Code}
      BY <2>4, NothingRecorded DEF StackInv
    <2>7. \A t \in Known' : t \in Tasks /\ (t # Slot => t \in Known)
      BY <2>4 DEF Known
    <2>8. "alias" \notin harm' => \A t \in Known' : Own(t)'
      BY <2>3, <2>4, <2>5, <2>7 DEF StackInv, StackItem
    <2> QED BY <2>6, <2>8 DEF StackInv
  <1>3. ASSUME NEW t \in Tasks, Exit(t) \/ Kill(t) PROVE StackInv'
    <2>1. \A s \in Tasks : s # t => pcb'[s] = pcb[s]
      BY <1>3 DEF Exit, Kill, TypeOK
    <2>2. pcb'[t].mems = <<>> /\ pcb'[t].life # "live" /\ (pcb'[t].life # "ended" => pcb'[t].pid = pcb[t].pid)
      BY <1>3, NothingRecorded DEF Exit, Kill, TypeOK, Pcb
    <2>3. t \in Known /\ harm \subseteq harm' /\ item' = Cleared(pcb[t].mems)
      BY <1>3, LiveKnown DEF Exit, Kill, End
    <2>4. \A s \in Tasks : s # t => item'[s] = item[s]
      BY <2>3, NumbersOfThings DEF Cleared, StackInv
    <2>5. item'[t] = item[t] \/ item'[t] = NoItem
      BY <2>3, NumbersOfThings DEF Cleared
    <2>6. \A s \in Tasks : ToSet(pcb'[s].mems) \subseteq {s, Code}
      BY <2>1, <2>2, NothingRecorded DEF StackInv
    <2>7. \A s \in Known' : s \in Tasks /\ s \in Known
      BY <2>1, <2>3 DEF Known
    <2>8. "alias" \notin harm' => \A s \in Known' : Own(s)'
      <3> SUFFICES ASSUME "alias" \notin harm', NEW s \in Known' PROVE Own(s)'
        OBVIOUS
      <3>1. Own(s) /\ s \in Tasks
        BY <2>3, <2>7 DEF StackInv
      <3>2. CASE s # t
        BY <2>1, <2>4, <3>1, <3>2
      <3>3. CASE s = t
        <4>1. pcb'[t].pid = pcb[t].pid
          BY <2>2, <3>3 DEF Known
        <4> QED BY <2>2, <2>5, <3>1, <3>3, <4>1
      <3> QED BY <3>2, <3>3
    <2> QED BY <2>6, <2>8 DEF StackInv
  <1>4. ASSUME NEW t \in Tasks, NEW v \in Vpages, Refill(t, v) PROVE StackInv'
    <2>1. v = t \/ v = Code
      BY <1>4 DEF Refill, Miss, Uses
    <2>2. Found(t, v).pid = pcb[t].pid /\ harm \subseteq harm'
      BY <1>4 DEF Refill
    <2>3. \A s \in Tasks : item'[s] = IF s = v THEN Found(t, v) ELSE item[s]
      BY <1>4, NumbersOfThings DEF Refill, TypeOK
    <2> DEFINE m  == pcb[t].mems
               m2 == IF Len(m) < MAX_LOCKS THEN Append(m, v) ELSE m
    <2>4. m \in Seq(Vpages)
      BY DEF TypeOK, Pcb
    <2>5. ToSet(m2) \subseteq ToSet(m) \cup {v}
      BY <2>4 DEF ToSet
    <2>6. pcb' = [pcb EXCEPT ![t].mems = m2]
      BY <1>4 DEF Refill
    <2> HIDE DEF m2
    <2>7. \A s \in Tasks : /\ pcb'[s].pid = pcb[s].pid /\ pcb'[s].life = pcb[s].life
                           /\ pcb'[s].mems = IF s = t THEN m2 ELSE pcb[s].mems
      BY <2>6 DEF TypeOK, Pcb
    <2>8. \A s \in Tasks : ToSet(pcb'[s].mems) \subseteq {s, Code}
      BY <2>1, <2>5, <2>7 DEF StackInv
    <2>9. \A s \in Known' : s \in Tasks /\ s \in Known
      BY <2>7 DEF Known
    <2>10. "alias" \notin harm' => \A s \in Known' : Own(s)'
      BY <2>1, <2>2, <2>3, <2>7, <2>9, NumbersOfThings DEF StackInv
    <2> QED BY <2>8, <2>10 DEF StackInv
  <1>5. ASSUME NEW t \in Tasks, NEW v \in Vpages, Conflict(t, v) PROVE StackInv'
    <2>1. \A s \in Tasks : pcb'[s] = IF s = t THEN Exited ELSE pcb[s]
      BY <1>5 DEF Conflict, TypeOK
    <2>2. v = t \/ v = Code
      BY <1>5 DEF Conflict, Miss, Uses
    <2>3. \A s \in Tasks : s # t => item'[s] = item[s]
      BY <1>5, <2>2, NumbersOfThings DEF Conflict, Cleared, StackInv
    <2>4. harm \subseteq harm'
      BY <1>5 DEF Conflict
    <2>5. \A s \in Tasks : ToSet(pcb'[s].mems) \subseteq {s, Code}
      BY <2>1, NothingRecorded DEF StackInv
    <2>6. \A s \in Known' : s \in Tasks /\ s \in Known /\ s # t
      BY <2>1, NothingRecorded DEF Known
    <2>7. "alias" \notin harm' => \A s \in Known' : Own(s)'
      BY <2>1, <2>3, <2>4, <2>6 DEF StackInv
    <2> QED BY <2>5, <2>7 DEF StackInv
  <1>6. CASE UNCHANGED vars
    BY <1>6 DEF vars, StackInv, Known
  <1>7. ASSUME NEW t \in Tasks, Again(t) PROVE StackInv'
    <2>1. \A s \in Tasks : /\ pcb'[s].pid = pcb[s].pid /\ pcb'[s].mems = pcb[s].mems
                           /\ pcb'[s].life = IF s = t THEN "again" ELSE pcb[s].life
      BY <1>7 DEF Again, TypeOK, Pcb
    <2>2. pcb[t].life = "killed" /\ item' = item /\ harm \subseteq harm'
      BY <1>7 DEF Again
    <2>3. \A s \in Known' : s \in Tasks /\ s \in Known
      BY <2>1, <2>2 DEF Known
    <2>4. "alias" \notin harm' => \A s \in Known' : Own(s)'
      BY <2>1, <2>2, <2>3 DEF StackInv
    <2> QED BY <2>1, <2>4 DEF StackInv
  <1> QED BY <1>1, <1>2, <1>3, <1>4, <1>5, <1>6, <1>7 DEF Next

\* A process keeps the page of its stack, whatever the others do, as long as
\* pids fit the ASID; only who runs again after a kill may have lost it.
THEOREM StackSafe == Spec => []OwnStack
  <1>1. Spec => []TypeOK
    BY TypeCorrect
  <1>2. Init => StackInv
    BY InitStack
  <1>3. TypeOK /\ StackInv /\ [Next]_vars => StackInv'
    BY StepStack
  <1>4. StackInv => OwnStack
    BY StackInvMeans
  <1> QED BY <1>1, <1>2, <1>3, <1>4, PTL DEF Spec

---------------------------------------------------------------------------
(* What processes reach through the TLB.  An exit leaves its entries in    *)
(* the TLB and a launch takes the code item away from the plane before it; *)
(* the invariants say why no process meets another one's page all the      *)
(* same.                                                                   *)

\* As long as pids fit the ASID, live and killed processes have pids of their
\* own, and no entry or item is ahead of the last pid: a new pid matches no stale
\* entry.
PidInv == "alias" \notin harm =>
    /\ \A t \in Known : pcb[t].pid \in 1..process_id /\ pcb[t].pid < PIDS
    /\ \A s, t \in Known : s # t => pcb[s].pid # pcb[t].pid
    /\ \A i \in DOMAIN tlb : tlb[i].pid <= process_id
    /\ \A v \in Vpages : item[v].pid <= process_id

LEMMA InitPids == ASSUME Init PROVE PidInv /\ Known = {} /\ Live = {}
  <1>1. Known = {} /\ Live = {}
    BY DEF Init, Known, Live, Exited
  <1>2. \A i \in 0..NTLB - 1 : NoEntry.pid <= 1
    BY DEF NoEntry
  <1>3. NoItem.pid <= 1
    BY DEF NoItem
  <1> QED BY <1>1, <1>2, <1>3 DEF Init, PidInv

---------------------------------------------------------------------------
(* The effects of the actions, slot by slot, while pids fit the ASID.      *)

LEMMA BornEffect ==
    ASSUME TypeOK, Born, "alias" \notin harm'
    PROVE  /\ "alias" \notin harm /\ harm' = harm
           /\ NewPid = process_id + 1 /\ NewPid \in Nat /\ NewPid < PIDS
           /\ NewPid % PIDS = NewPid /\ process_id' = NewPid
  <1>1. /\ "alias" \notin harm /\ harm' = harm /\ ~(NewPid >= PIDS)
        /\ NewPid = process_id + 1 /\ NewPid \in Nat /\ process_id' = NewPid
    BY DEF Born, NewPid, TypeOK
  <1>2. NewPid < PIDS
    BY <1>1, MemoryAssumption
  <1> QED BY <1>1, <1>2, SmallPidStays

LEMMA SpawnEffect ==
    ASSUME TypeOK, Spawn, "alias" \notin harm'
    PROVE  /\ Slot \in Tasks /\ Slot \notin Live
           /\ \A t \in Tasks : pcb'[t] = IF t = Slot
                                         THEN [life |-> "live", pid |-> NewPid, plane |-> FALSE, mems |-> <<>>]
                                         ELSE pcb[t]
           /\ Live' \subseteq Live \cup {Slot} /\ Known' \subseteq Known \cup {Slot}
           /\ \A v \in Vpages : item'[v] = IF v = Slot THEN [pid |-> NewPid, pfn |-> FirstFree(used)]
                                           ELSE item[v]
           /\ FirstFree(used) \notin used /\ used' = used \cup {FirstFree(used)}
           /\ top' = top /\ tlb' = tlb /\ code' = code
  <1>1. Slot \in Tasks /\ Slot \notin Live /\ Slot \in Vpages
    BY SlotIsFree, NumbersOfThings DEF Spawn
  <1>2. NewPid % PIDS = NewPid
    BY BornEffect DEF Spawn
  <1>3. \A t \in Tasks : pcb'[t] = IF t = Slot THEN [life |-> "live", pid |-> NewPid, plane |-> FALSE, mems |-> <<>>]
                                   ELSE pcb[t]
    BY <1>1 DEF Spawn, TypeOK
  <1>4. Live' \subseteq Live \cup {Slot} /\ Known' \subseteq Known \cup {Slot}
    BY <1>3 DEF Live, Known
  <1>5. \A v \in Vpages : item'[v] = IF v = Slot THEN [pid |-> NewPid, pfn |-> FirstFree(used)]
                                     ELSE item[v]
    BY <1>1, <1>2 DEF Spawn, StackItem, TypeOK
  <1>6. FirstFree(used) \notin used /\ used' = used \cup {FirstFree(used)}
    BY RoomForOne DEF Spawn
  <1> QED BY <1>1, <1>3, <1>4, <1>5, <1>6 DEF Spawn

\* What FillTLB leaves: old entries and the new one.
LEMMA Filled ==
    ASSUME TypeOK, NEW v, NEW pid, NEW pfn, FillTLB(v, pid, pfn)
    PROVE  /\ DOMAIN tlb' = DOMAIN tlb
           /\ \A i \in DOMAIN tlb : tlb'[i] = tlb[i] \/ tlb'[i] = [vpn |-> v, pid |-> pid, pfn |-> pfn]
  BY DEF FillTLB, TypeOK

LEMMA LaunchEffect ==
    ASSUME TypeOK, Launch, "alias" \notin harm'
    PROVE  /\ Slot \in Tasks /\ Slot \notin Live
           /\ \A t \in Tasks : pcb'[t] = IF t = Slot
                                         THEN [life |-> "live", pid |-> NewPid, plane |-> TRUE, mems |-> <<>>]
                                         ELSE pcb[t]
           /\ Live' \subseteq Live \cup {Slot} /\ Known' \subseteq Known \cup {Slot}
           /\ \A v \in Vpages : item'[v] = IF v = Code THEN [pid |-> NewPid, pfn |-> CodePage]
                                           ELSE IF v = Slot THEN [pid |-> NewPid, pfn |-> StackPage]
                                           ELSE item[v]
           /\ CodePage \notin used /\ StackPage \notin used
           /\ used \subseteq used'
           /\ \A t \in Tables : top'[t] = top[t] \/ top'[t] \notin used
           /\ DOMAIN tlb' = DOMAIN tlb
           /\ \A i \in DOMAIN tlb : tlb'[i] = tlb[i]
                                    \/ tlb'[i] = [vpn |-> Code, pid |-> NewPid, pfn |-> CodePage]
           /\ \A t \in Tasks : code'[t] = IF t = Slot THEN CodePage ELSE code[t]
  <1>1. Slot \in Tasks /\ Slot \notin Live /\ Slot \in Vpages /\ Slot # Code /\ Code \in Vpages
    BY SlotIsFree, NumbersOfThings DEF Launch
  <1>2. NewPid % PIDS = NewPid
    BY BornEffect DEF Launch
  <1>3. \A t \in Tasks : pcb'[t] = IF t = Slot THEN [life |-> "live", pid |-> NewPid, plane |-> TRUE, mems |-> <<>>]
                                   ELSE pcb[t]
    BY <1>1 DEF Launch, TypeOK
  <1>4. Live' \subseteq Live \cup {Slot} /\ Known' \subseteq Known \cup {Slot}
    BY <1>3 DEF Live, Known
  <1>5. \A v \in Vpages : item'[v] = IF v = Code THEN [pid |-> NewPid, pfn |-> CodePage]
                                     ELSE IF v = Slot THEN [pid |-> NewPid, pfn |-> StackPage]
                                     ELSE item[v]
    BY <1>1, <1>2, LaunchStep DEF StackItem, TypeOK
  <1>6. /\ CodePage \notin used /\ StackPage \notin used /\ used \subseteq used'
        /\ top["0x80"] = 0 => TablePage \notin used
    BY LaunchPages, LaunchStep DEF Launch
  <1>7. \A t \in Tables : top'[t] = top[t] \/ top'[t] \notin used
    BY <1>6, LaunchStep DEF TypeOK
  <1>8. FillTLB(Code, NewPid, CodePage)
    BY <1>2, LaunchStep
  <1>9. \A t \in Tasks : code'[t] = IF t = Slot THEN CodePage ELSE code[t]
    BY LaunchStep DEF TypeOK
  <1>10. /\ DOMAIN tlb' = DOMAIN tlb
         /\ \A i \in DOMAIN tlb : tlb'[i] = tlb[i]
                                  \/ tlb'[i] = [vpn |-> Code, pid |-> NewPid, pfn |-> CodePage]
    BY <1>8, Filled
  <1> QED BY <1>1, <1>3, <1>4, <1>5, <1>6, <1>7, <1>9, <1>10

\* A refill of the process's own page, which had no entry.
LEMMA RefillEffect ==
    ASSUME TypeOK, PidInv, NEW t \in Tasks, NEW v \in Vpages, Refill(t, v), "alias" \notin harm'
    PROVE  /\ "alias" \notin harm /\ harm \subseteq harm'
           /\ v = Code /\ item[v] = NoItem => "bare" \in harm'
           /\ t \in Live /\ (v = t \/ (v = Code /\ pcb[t].plane))
           /\ \A i \in DOMAIN tlb : ~(tlb[i].vpn = v /\ tlb[i].pid = pcb[t].pid)
           /\ Found(t, v).pid = pcb[t].pid
           /\ \A s \in Tasks : pcb'[s].pid = pcb[s].pid /\ pcb'[s].plane = pcb[s].plane
           /\ Live' \subseteq Live /\ Known' \subseteq Known
           /\ used' = IF item[v] = NoItem THEN used \cup {FirstFree(used)} ELSE used
           /\ item[v] = NoItem => FirstFree(used) \notin used
           /\ top' = top /\ code' = code /\ process_id' = process_id
  <1>1. /\ "alias" \notin harm /\ harm \subseteq harm' /\ t \in Live
        /\ v = Code /\ item[v] = NoItem => "bare" \in harm'
    BY DEF Refill, Miss
  <1>2. v = t \/ (v = Code /\ pcb[t].plane)
    BY DEF Refill, Miss, Uses
  <1>3. pcb[t].pid % PIDS = pcb[t].pid
    BY <1>1, LiveKnown, SmallPidStays DEF PidInv, TypeOK, Pcb
  <1>4. \A i \in DOMAIN tlb : ~(tlb[i].vpn = v /\ tlb[i].pid = pcb[t].pid)
    BY <1>3 DEF Refill, Miss, Hit
  <1>5. Found(t, v).pid = pcb[t].pid
    BY DEF Refill
  <1>7. /\ \A s \in Tasks : pcb'[s].pid = pcb[s].pid /\ pcb'[s].plane = pcb[s].plane
        /\ \A s \in Tasks : pcb'[s].life = pcb[s].life
    BY DEF Refill, TypeOK, Pcb
  <1>8. Live' \subseteq Live /\ Known' \subseteq Known
    BY <1>7 DEF Live, Known
  <1>9. item[v] = NoItem => FirstFree(used) \notin used
    BY RoomForOne DEF Refill, Miss
  <1> QED BY <1>1, <1>2, <1>4, <1>5, <1>7, <1>8, <1>9 DEF Refill, Alloc

\* The page table and the TLB after a refill.
LEMMA RefillTlb ==
    ASSUME TypeOK, NEW t \in Tasks, NEW v \in Vpages, Refill(t, v)
    PROVE  \A i \in DOMAIN tlb' : i \in DOMAIN tlb
              /\ (tlb'[i] = tlb[i]
                  \/ tlb'[i] = [vpn |-> v, pid |-> pcb[t].pid, pfn |-> Found(t, v).pfn])
  <1> DEFINE pid == pcb[t].pid
             pfn == Found(t, v).pfn
  <1>1. FillTLB(v, pid, pfn)
    BY DEF Refill
  <1> HIDE DEF pid, pfn
  <1>2. \A i \in DOMAIN tlb' : i \in DOMAIN tlb
           /\ (tlb'[i] = tlb[i] \/ tlb'[i] = [vpn |-> v, pid |-> pid, pfn |-> pfn])
    BY <1>1, Filled
  <1> QED BY <1>2 DEF pid, pfn

LEMMA RefillItem ==
    ASSUME TypeOK, NEW t \in Tasks, NEW v \in Vpages, Refill(t, v)
    PROVE  \A w \in Vpages : item'[w] = IF w = v THEN Found(t, v) ELSE item[w]
  BY DEF Refill, TypeOK

\* A process goes: by exit, by kill, or because the code page it misses is
\* another one's.
Gone(t) == Exit(t) \/ Kill(t) \/ \E v \in Vpages : Conflict(t, v)

LEMMA GoneEffect ==
    ASSUME TypeOK, PidInv, StackInv, NEW t \in Tasks, Gone(t), "alias" \notin harm'
    PROVE  /\ "alias" \notin harm /\ t \in Live
           /\ harm' = harm \cup EndHarms(t)
           /\ \A s \in Tasks : s # t => pcb'[s] = pcb[s]
           /\ Live' = Live \ {t} /\ Known' \subseteq Known
           /\ \A s \in Known' : pcb'[s].pid = pcb[s].pid /\ pcb'[s].plane = pcb[s].plane
           /\ used' = used \ Freed(pcb[t].mems)
           /\ item' = Cleared(pcb[t].mems)
           /\ top' = top /\ tlb' = tlb /\ code' = code /\ process_id' = process_id
  <1>1. /\ "alias" \notin harm /\ t \in Live /\ harm' = harm \cup EndHarms(t)
        /\ top' = top /\ tlb' = tlb /\ code' = code /\ process_id' = process_id
    BY DEF Gone, Exit, Kill, End, Conflict, Miss
  <1>2. /\ \A s \in Tasks : s # t => pcb'[s] = pcb[s]
        /\ \/ pcb'[t].life = "ended"
           \/ pcb'[t].life = "killed" /\ pcb'[t].pid = pcb[t].pid /\ pcb'[t].plane = pcb[t].plane
    BY NothingRecorded DEF Gone, Exit, Kill, Conflict, TypeOK, Pcb
  <1>5. Live' = Live \ {t} /\ Known' \subseteq Known
    BY <1>1, <1>2, LiveKnown DEF Live, Known
  <1>6. \A s \in Known' : pcb'[s].pid = pcb[s].pid /\ pcb'[s].plane = pcb[s].plane
    BY <1>2 DEF Known
  <1>3. CASE Exit(t) \/ Kill(t)
    BY <1>1, <1>2, <1>3, <1>5, <1>6 DEF Exit, Kill, End
  <1>4. ASSUME NEW v \in Vpages, Conflict(t, v)
        PROVE  used' = used \ Freed(pcb[t].mems) /\ item' = Cleared(pcb[t].mems)
    <2>1. pcb[t].pid % PIDS = pcb[t].pid
      BY <1>1, LiveKnown, SmallPidStays DEF PidInv, TypeOK, Pcb
    <2>2. item[v] # NoItem
      BY <1>4, <2>1 DEF Conflict, Found
    <2> DEFINE m == pcb[t].mems
    <2>3. /\ used' = used \ Freed(m)
          /\ item' = [Cleared(m) EXCEPT ![v] = IF v \in ToSet(m) THEN NoItem ELSE item[v]]
      BY <1>4, <2>2 DEF Conflict, Found
    <2> HIDE DEF m
    <2>4. item' = Cleared(m)
      BY <2>3 DEF Cleared
    <2> QED BY <2>3, <2>4 DEF m
  <1> QED BY <1>1, <1>2, <1>3, <1>4, <1>5, <1>6 DEF Gone

\* A killed process runs again: only who is live changes.
LEMMA AgainEffect ==
    ASSUME TypeOK, NEW t \in Tasks, Again(t)
    PROVE  /\ t \in Known /\ t \notin Live
           /\ Live' = Live \cup {t} /\ Known' = Known
           /\ \A s \in Tasks : pcb'[s].pid = pcb[s].pid /\ pcb'[s].plane = pcb[s].plane
           /\ harm \subseteq harm'
           /\ used' = used /\ top' = top /\ item' = item /\ tlb' = tlb
           /\ process_id' = process_id /\ code' = code
  <1>1. pcb[t].life = "killed" /\ pcb' = [pcb EXCEPT ![t].life = "again"] /\ harm \subseteq harm'
    BY DEF Again
  <1>2. \A s \in Tasks : /\ pcb'[s].pid = pcb[s].pid /\ pcb'[s].plane = pcb[s].plane
                         /\ pcb'[s].life = IF s = t THEN "again" ELSE pcb[s].life
    BY <1>1 DEF TypeOK, Pcb
  <1>3. t \in Known /\ t \notin Live /\ Live' = Live \cup {t} /\ Known' = Known
    BY <1>1, <1>2 DEF Live, Known
  <1> QED BY <1>1, <1>2, <1>3 DEF Again

\* The steps of the specification, in these terms.
LEMMA Steps ==
    ASSUME Next
    PROVE  \/ Spawn \/ Launch
           \/ \E t \in Tasks : Gone(t)
           \/ \E t \in Tasks : Again(t)
           \/ \E t \in Tasks, v \in Vpages : Refill(t, v)
  BY DEF Next, Gone

---------------------------------------------------------------------------
LEMMA StepPids == ASSUME TypeOK, StackInv, PidInv, [Next]_vars PROVE PidInv'
  <1> SUFFICES ASSUME "alias" \notin harm'
               PROVE  /\ \A t \in Known' : pcb'[t].pid \in 1..process_id' /\ pcb'[t].pid < PIDS
                      /\ \A s, t \in Known' : s # t => pcb'[s].pid # pcb'[t].pid
                      /\ \A i \in DOMAIN tlb' : tlb'[i].pid <= process_id'
                      /\ \A v \in Vpages : item'[v].pid <= process_id'
    BY DEF PidInv
  <1>0. /\ process_id \in Nat /\ PIDS \in Nat /\ Known \subseteq Tasks
        /\ \A i \in DOMAIN tlb : tlb[i].pid \in Int
        /\ \A v \in Vpages : item[v].pid \in Int
    BY MemoryAssumption DEF TypeOK, Item, Known
  <1>1. CASE Spawn
    <2>1. /\ "alias" \notin harm /\ NewPid = process_id + 1 /\ NewPid < PIDS
          /\ process_id' = NewPid
      BY <1>1, BornEffect DEF Spawn
    <2>2. \A t \in Known' : t \in Tasks /\ (t = Slot \/ (t \in Known /\ t # Slot))
                           /\ pcb'[t].pid = IF t = Slot THEN NewPid ELSE pcb[t].pid
      BY <1>0, <1>1, SpawnEffect
    <2>3. \A t \in Known : pcb[t].pid \in 1..process_id /\ pcb[t].pid < PIDS
      BY <2>1 DEF PidInv
    <2>4. \A t \in Known' : pcb'[t].pid \in 1..process_id' /\ pcb'[t].pid < PIDS
      BY <1>0, <2>1, <2>2, <2>3
    <2>5. \A s, t \in Known' : s # t => pcb'[s].pid # pcb'[t].pid
      BY <1>0, <2>1, <2>2, <2>3 DEF PidInv
    <2>6. \A i \in DOMAIN tlb' : tlb'[i].pid <= process_id'
      BY <1>0, <1>1, <2>1, SpawnEffect DEF PidInv
    <2>7. \A v \in Vpages : item'[v].pid <= process_id'
      BY <1>0, <1>1, <2>1, SpawnEffect DEF PidInv
    <2> QED BY <2>4, <2>5, <2>6, <2>7
  <1>2. CASE Launch
    <2>1. /\ "alias" \notin harm /\ NewPid = process_id + 1 /\ NewPid < PIDS
          /\ process_id' = NewPid
      BY <1>2, BornEffect DEF Launch
    <2>2. \A t \in Known' : t \in Tasks /\ (t = Slot \/ (t \in Known /\ t # Slot))
                           /\ pcb'[t].pid = IF t = Slot THEN NewPid ELSE pcb[t].pid
      BY <1>0, <1>2, LaunchEffect
    <2>3. \A t \in Known : pcb[t].pid \in 1..process_id /\ pcb[t].pid < PIDS
      BY <2>1 DEF PidInv
    <2>4. \A t \in Known' : pcb'[t].pid \in 1..process_id' /\ pcb'[t].pid < PIDS
      BY <1>0, <2>1, <2>2, <2>3
    <2>5. \A s, t \in Known' : s # t => pcb'[s].pid # pcb'[t].pid
      BY <1>0, <2>1, <2>2, <2>3 DEF PidInv
    <2>6. \A i \in DOMAIN tlb' : tlb'[i].pid <= process_id'
      BY <1>0, <1>2, <2>1, LaunchEffect DEF PidInv
    <2>7. \A v \in Vpages : item'[v].pid <= process_id'
      BY <1>0, <1>2, <2>1, LaunchEffect DEF PidInv
    <2> QED BY <2>4, <2>5, <2>6, <2>7
  <1>3. ASSUME NEW t \in Tasks, Gone(t) PROVE PidInv'
    <2>1. \A v \in Vpages : item'[v] = item[v] \/ item'[v] = NoItem
      BY <1>3, GoneEffect DEF Cleared
    <2>2. NoItem.pid <= process_id
      BY <1>0 DEF NoItem
    <2>3. /\ "alias" \notin harm /\ Known' \subseteq Known /\ tlb' = tlb /\ process_id' = process_id
          /\ \A s \in Known' : pcb'[s].pid = pcb[s].pid
      BY <1>0, <1>3, GoneEffect
    <2> QED BY <2>1, <2>2, <2>3 DEF PidInv
  <1>4. ASSUME NEW t \in Tasks, NEW v \in Vpages, Refill(t, v) PROVE PidInv'
    <2>1. /\ "alias" \notin harm /\ t \in Known /\ Found(t, v).pid = pcb[t].pid
          /\ Known' \subseteq Known /\ process_id' = process_id
          /\ \A s \in Known' : pcb'[s].pid = pcb[s].pid
      BY <1>0, <1>4, RefillEffect, LiveKnown
    <2>2. pcb[t].pid <= process_id
      BY <1>0, <2>1 DEF PidInv
    <2>3. \A w \in Vpages : item'[w] = item[w] \/ item'[w].pid = pcb[t].pid
      BY <1>4, <2>1, RefillItem
    <2>4. \A i \in DOMAIN tlb' : i \in DOMAIN tlb /\ (tlb'[i] = tlb[i] \/ tlb'[i].pid = pcb[t].pid)
      BY <1>4, RefillTlb
    <2> QED BY <2>1, <2>2, <2>3, <2>4 DEF PidInv
  <1>5. CASE UNCHANGED vars
    BY <1>5 DEF vars, PidInv, Known
  <1>6. ASSUME NEW t \in Tasks, Again(t) PROVE PidInv'
    <2>1. /\ "alias" \notin harm /\ Known' = Known /\ \A s \in Known : pcb'[s].pid = pcb[s].pid
          /\ tlb' = tlb /\ item' = item /\ process_id' = process_id
      BY <1>0, <1>6, AgainEffect
    <2> QED BY <2>1 DEF PidInv
  <1> QED BY <1>1, <1>2, <1>3, <1>4, <1>5, <1>6, Steps DEF PidInv

---------------------------------------------------------------------------
\* A plane's entries for its code, and the code item while it is its own, name
\* the page its program was loaded into.
CodeInv == Unless({"alias", "bare"}) => \A t \in Known : pcb[t].plane =>
    /\ \A i \in DOMAIN tlb : tlb[i].vpn = Code /\ tlb[i].pid = pcb[t].pid => tlb[i].pfn = code[t]
    /\ item[Code].pid = pcb[t].pid => item[Code].pfn = code[t]

LEMMA CodeInvMeans == ASSUME TypeOK, PidInv, CodeInv PROVE CodeKept
  <1> SUFFICES ASSUME Unless({"alias", "bare"}), NEW t \in Live, NEW i \in DOMAIN tlb,
                      tlb[i].vpn = Code, tlb[i].pid = pcb[t].pid % PIDS, pcb[t].plane
               PROVE  tlb[i].pfn = code[t]
    BY DEF CodeKept
  <1>1. pcb[t].pid % PIDS = pcb[t].pid
    BY SmallPidStays, LiveKnown DEF PidInv, TypeOK, Pcb, Unless
  <1> QED BY <1>1, LiveKnown DEF CodeInv

LEMMA StepCode == ASSUME TypeOK, StackInv, PidInv, CodeInv, [Next]_vars PROVE CodeInv'
  <1> SUFFICES ASSUME "alias" \notin harm', "bare" \notin harm',
                      NEW t \in Known', pcb'[t].plane
               PROVE  /\ \A i \in DOMAIN tlb' : tlb'[i].vpn = Code /\ tlb'[i].pid = pcb'[t].pid
                                                  => tlb'[i].pfn = code'[t]
                      /\ item'[Code].pid = pcb'[t].pid => item'[Code].pfn = code'[t]
    BY DEF CodeInv, Unless
  <1>0. /\ process_id \in Nat /\ t \in Tasks /\ Code \in Vpages /\ \A s \in Tasks : s # Code
        /\ \A i \in DOMAIN tlb : tlb[i].pid \in Int
    BY NumbersOfThings DEF TypeOK, Known
  <1>1. CASE Spawn
    <2>1. "alias" \notin harm /\ harm' = harm
      BY <1>1, BornEffect DEF Spawn
    <2>2. t # Slot /\ t \in Known
      BY <1>0, <1>1, SpawnEffect
    <2> QED BY <1>0, <1>1, <2>1, <2>2, SpawnEffect DEF CodeInv, Unless
  <1>2. CASE Launch
    <2>1. "alias" \notin harm /\ harm' = harm /\ NewPid = process_id + 1
      BY <1>2, BornEffect DEF Launch
    <2>2. CASE t = Slot
      <3>1. pcb'[t].pid = NewPid /\ code'[t] = CodePage
        BY <1>0, <1>2, <2>2, LaunchEffect
      <3>2. \A i \in DOMAIN tlb : tlb[i].pid # NewPid
        BY <1>0, <2>1 DEF PidInv
      <3>3. \A i \in DOMAIN tlb' : tlb'[i].pid = NewPid => tlb'[i].pfn = CodePage
        BY <1>2, <3>2, LaunchEffect
      <3>4. item'[Code].pfn = CodePage
        BY <1>0, <1>2, LaunchEffect
      <3> QED BY <3>1, <3>3, <3>4
    <2>3. CASE t # Slot
      <3>1. t \in Known /\ pcb'[t] = pcb[t] /\ code'[t] = code[t]
        BY <1>0, <1>2, <2>3, LaunchEffect
      <3>2. pcb[t].pid # NewPid
        BY <1>0, <2>1, <3>1 DEF PidInv
      <3>3. item'[Code].pid = NewPid
        BY <1>0, <1>2, LaunchEffect
      <3>4. \A i \in DOMAIN tlb' : i \in DOMAIN tlb /\ (tlb'[i] = tlb[i] \/ tlb'[i].pid = NewPid)
        BY <1>2, LaunchEffect
      <3> QED BY <2>1, <3>1, <3>2, <3>3, <3>4 DEF CodeInv, Unless
    <2> QED BY <2>2, <2>3
  <1>3. ASSUME NEW s \in Tasks, Gone(s)
        PROVE  /\ \A i \in DOMAIN tlb' : tlb'[i].vpn = Code /\ tlb'[i].pid = pcb'[t].pid
                                           => tlb'[i].pfn = code'[t]
               /\ item'[Code].pid = pcb'[t].pid => item'[Code].pfn = code'[t]
    <2>1. "alias" \notin harm /\ "bare" \notin harm
      BY <1>3, GoneEffect
    <2>2. t \in Known /\ pcb'[t].pid = pcb[t].pid /\ pcb[t].plane
      BY <1>0, <1>3, GoneEffect
    <2>3. item'[Code] = item[Code] \/ item'[Code] = NoItem
      BY <1>0, <1>3, GoneEffect DEF Cleared
    <2>4. NoItem.pid # pcb[t].pid
      BY <2>1, <2>2 DEF PidInv, NoItem
    <2> QED BY <1>3, <2>1, <2>2, <2>3, <2>4, GoneEffect DEF CodeInv, Unless
  <1>4. ASSUME NEW s \in Tasks, NEW v \in Vpages, Refill(s, v)
        PROVE  /\ \A i \in DOMAIN tlb' : tlb'[i].vpn = Code /\ tlb'[i].pid = pcb'[t].pid
                                           => tlb'[i].pfn = code'[t]
               /\ item'[Code].pid = pcb'[t].pid => item'[Code].pfn = code'[t]
    <2>1. /\ "alias" \notin harm /\ "bare" \notin harm /\ t \in Known
          /\ pcb'[t].pid = pcb[t].pid /\ pcb[t].plane /\ code' = code
      BY <1>0, <1>4, RefillEffect
    <2>2. item'[Code] = item[Code]
      <3>1. v = Code => item[v] # NoItem
        BY <1>4, RefillEffect
      <3> QED BY <1>0, <1>4, <3>1, RefillItem DEF Found
    <2>3. v = Code => Found(s, v) = item[Code]
      BY <1>0, <1>4, <2>2, RefillItem
    <2>4. \A i \in DOMAIN tlb' : i \in DOMAIN tlb /\
              (tlb'[i] = tlb[i] \/ tlb'[i] = [vpn |-> v, pid |-> pcb[s].pid, pfn |-> Found(s, v).pfn])
      BY <1>4, RefillTlb
    <2>5. item[Code].pid = pcb[t].pid => item[Code].pfn = code[t]
      BY <2>1 DEF CodeInv, Unless
    <2>6. v = Code => item[Code].pid = pcb[s].pid
      <3>1. Found(s, v).pid = pcb[s].pid
        BY <1>4 DEF Refill
      <3> QED BY <2>3, <3>1
    <2> QED BY <2>1, <2>2, <2>3, <2>4, <2>5, <2>6 DEF CodeInv, Unless
  <1>5. CASE UNCHANGED vars
    BY <1>5 DEF vars, CodeInv, Known, Unless
  <1>6. ASSUME NEW s \in Tasks, Again(s)
        PROVE  /\ \A i \in DOMAIN tlb' : tlb'[i].vpn = Code /\ tlb'[i].pid = pcb'[t].pid
                                           => tlb'[i].pfn = code'[t]
               /\ item'[Code].pid = pcb'[t].pid => item'[Code].pfn = code'[t]
    BY <1>0, <1>6, AgainEffect DEF CodeInv, Unless
  <1> QED BY <1>1, <1>2, <1>3, <1>4, <1>5, <1>6, Steps

\* A plane runs in the page its program was loaded into, until pids outgrow
\* the ASID or a plane's code comes back as an empty page.
THEOREM CodeSafe == Spec => []CodeKept
  <1>1. Init => TypeOK /\ StackInv /\ PidInv /\ CodeInv
    BY InitTyped, InitStack, InitPids DEF CodeInv
  <1>2. TypeOK /\ StackInv /\ PidInv /\ CodeInv /\ [Next]_vars => (TypeOK /\ StackInv /\ PidInv /\ CodeInv)'
    BY StepTyped, StepStack, StepPids, StepCode
  <1>3. TypeOK /\ PidInv /\ CodeInv => CodeKept
    BY CodeInvMeans
  <1> QED BY <1>1, <1>2, <1>3, PTL DEF Spec

---------------------------------------------------------------------------
\* A page in use that no item and no table names: the code of a plane whose
\* item a later launch has overwritten.  Nobody frees it.
Orphan(p) ==
    /\ p \in used /\ p \notin Kernel
    /\ \A v \in Vpages : item[v] # NoItem => item[v].pfn # p
    /\ \A t \in Tables : top[t] # p

\* The pages of a process's own entries for a virtual page.
Through(t, v) == {tlb[i].pfn : i \in {j \in DOMAIN tlb : tlb[j].vpn = v /\ tlb[j].pid = pcb[t].pid}}

\* An entry of a live or killed process names the page of its stack's item, and of
\* the code item, as long as the item is its own.  A live process has no others for
\* its stack, and as a plane only for an orphan; no two planes have the same.
OwnEntries ==
    /\ \A t \in Known : item[t].pid = pcb[t].pid => Through(t, t) \subseteq {item[t].pfn}
    /\ \A t \in Known : pcb[t].plane /\ item[Code].pid = pcb[t].pid
                          => Through(t, Code) \subseteq {item[Code].pfn}
    /\ \A t \in Live : item[t].pid # pcb[t].pid => Through(t, t) = {}
    /\ \A t \in Live : pcb[t].plane /\ item[Code].pid # pcb[t].pid
                         => \A p \in Through(t, Code) : Orphan(p)
    /\ \A s, t \in Live : s # t /\ pcb[s].plane /\ pcb[t].plane
                            => Through(s, Code) \cap Through(t, Code) = {}
EntryInv == Unless({"twice", "foreign", "alias", "again"}) => OwnEntries

\* What the invariants say together of a live process's entries.
LEMMA EntryPages ==
    ASSUME TypeOK, PagesInv, StackInv, PidInv, EntryInv,
           Unless({"twice", "foreign", "alias", "again"}), NEW t \in Live
    PROVE  /\ t \in Tasks /\ t \in Known
           /\ \A v \in Vpages : item[v].pid = pcb[t].pid => item[v] # NoItem
           /\ \A p \in Through(t, t) :
                 /\ item[t] # NoItem /\ item[t].pfn = p
                 /\ p \in used /\ p \notin Kernel
                 /\ \A a \in Tables : top[a] # p
           /\ pcb[t].plane => \A p \in Through(t, Code) :
                 /\ p \in used /\ p \notin Kernel
                 /\ \A a \in Tables : top[a] # p
                 /\ \A v \in Vpages : item[v] # NoItem /\ item[v].pfn = p => v = Code
  <1>0. t \in Tasks /\ t \in Known /\ t \in Vpages /\ Code \in Vpages /\ 0 \in Kernel
    BY NumbersOfThings, LiveKnown, MemoryAssumption DEF Kernel
  <1>1. OwnPages /\ OwnEntries
    BY DEF PagesInv, EntryInv, Unless
  <1>3. pcb[t].pid # NoItem.pid
    BY <1>0 DEF PidInv, Unless, NoItem
  <1>4. \A v \in Vpages : item[v].pid = pcb[t].pid => item[v] # NoItem
    BY <1>3
  <1>5. \A v \in Vpages : item[v] # NoItem =>
            /\ item[v].pfn \in used /\ item[v].pfn \notin Kernel
            /\ \A a \in Tables : top[a] # item[v].pfn
    BY <1>0, <1>1 DEF OwnPages
  <1>7. ASSUME NEW p \in Through(t, t)
        PROVE  item[t] # NoItem /\ item[t].pfn = p
    <2>1. item[t].pid = pcb[t].pid
      BY <1>1, <1>7 DEF OwnEntries
    <2> QED BY <1>0, <1>1, <1>4, <1>7, <2>1 DEF OwnEntries
  <1>6. ASSUME pcb[t].plane, NEW p \in Through(t, Code)
        PROVE  /\ p \in used /\ p \notin Kernel
               /\ \A a \in Tables : top[a] # p
               /\ \A v \in Vpages : item[v] # NoItem /\ item[v].pfn = p => v = Code
    <2>1. CASE item[Code].pid = pcb[t].pid
      <3>1. item[Code].pfn = p /\ item[Code] # NoItem
        BY <1>0, <1>1, <1>4, <1>6, <2>1 DEF OwnEntries
      <3> QED BY <1>0, <1>1, <1>5, <3>1 DEF OwnPages
    <2>2. CASE item[Code].pid # pcb[t].pid
      <3>1. Orphan(p)
        BY <1>1, <1>6, <2>2 DEF OwnEntries
      <3> QED BY <3>1 DEF Orphan
    <2> QED BY <2>1, <2>2
  <1> QED BY <1>0, <1>4, <1>5, <1>6, <1>7

\* No live process reaches a page of another one, of the kernel or of nobody.
LEMMA EntryInvMeans ==
    ASSUME TypeOK, PagesInv, StackInv, PidInv, EntryInv
    PROVE  Isolated
  <1> SUFFICES ASSUME Unless({"twice", "foreign", "alias", "again"}), NEW t \in Live
               PROVE  /\ Reach(t) \subseteq used \ (Kernel \cup {top["0x40"], top["0x80"]})
                      /\ \A s \in Live : s # t => Reach(s) \cap Reach(t) = {}
    BY DEF Isolated
  <1>1. ASSUME NEW s \in Live
        PROVE  Reach(s) \subseteq Through(s, s) \cup (IF pcb[s].plane THEN Through(s, Code) ELSE {})
    <2>1. pcb[s].pid % PIDS = pcb[s].pid
      BY SmallPidStays, LiveKnown DEF PidInv, TypeOK, Pcb, Unless
    <2> QED BY <2>1 DEF Reach, Through, Uses
  <1>2. Reach(t) \subseteq used \ (Kernel \cup {top["0x40"], top["0x80"]})
    BY <1>1, EntryPages DEF Tables
  <1>3. ASSUME NEW s \in Live, s # t
        PROVE  Reach(s) \cap Reach(t) = {}
    <2>1. s \in Vpages /\ t \in Vpages /\ s # Code /\ t # Code
      BY EntryPages, NumbersOfThings
    <2>2. Through(s, s) \cap Through(t, t) = {}
      <3>1. item[s] # NoItem /\ item[t] # NoItem => item[s].pfn # item[t].pfn
        BY <1>3, <2>1 DEF PagesInv, OwnPages, Unless
      <3> QED BY <3>1, EntryPages
    <2>3. /\ pcb[t].plane => Through(s, s) \cap Through(t, Code) = {}
          /\ pcb[s].plane => Through(t, t) \cap Through(s, Code) = {}
      BY <2>1, EntryPages
    <2>4. pcb[s].plane /\ pcb[t].plane => Through(s, Code) \cap Through(t, Code) = {}
      BY <1>3 DEF EntryInv, OwnEntries
    <2> QED BY <1>1, <2>2, <2>3, <2>4
  <1> QED BY <1>2, <1>3

LEMMA ThroughSame ==
    ASSUME NEW t, NEW v, tlb' = tlb, pcb'[t].pid = pcb[t].pid
    PROVE  Through(t, v)' = Through(t, v)
  BY DEF Through

\* Steps that only take free pages keep the orphans.
LEMMA OrphanKept ==
    ASSUME used \subseteq used', NEW p, Orphan(p),
           \A v \in Vpages : item'[v] = item[v] \/ item'[v].pfn \notin used,
           \A t \in Tables : top'[t] = top[t] \/ top'[t] \notin used
    PROVE  Orphan(p)'
  BY DEF Orphan

LEMMA SpawnEntries ==
    ASSUME TypeOK, PagesInv, StackInv, PidInv, EntryInv, Spawn,
           Unless({"twice", "foreign", "alias", "again"})'
    PROVE  OwnEntries'
  <1>0. "alias" \notin harm' /\ Code \in Vpages /\ \A t \in Tasks : t # Code /\ t \in Vpages
    BY NumbersOfThings DEF Unless
  <1>1. /\ harm' = harm /\ NewPid = process_id + 1 /\ process_id \in Nat
        /\ Unless({"twice", "foreign", "alias", "again"})
    BY <1>0, BornEffect DEF Spawn, Unless, TypeOK
  <1>2. OwnEntries
    BY <1>1 DEF EntryInv
  <1>n. PICK n \in Tasks : n = Slot
    BY <1>0, SpawnEffect
  <1>3. ASSUME NEW t \in Known', t # n
        PROVE  /\ t \in Known /\ (t \in Live' => t \in Live) /\ pcb'[t] = pcb[t] /\ item'[t] = item[t]
               /\ Through(t, t)' = Through(t, t) /\ Through(t, Code)' = Through(t, Code)
    <2>1. t \in Known /\ (t \in Live' => t \in Live) /\ t \in Tasks
      BY <1>0, <1>n, <1>3, SpawnEffect DEF Known
    <2>2. pcb'[t] = pcb[t] /\ item'[t] = item[t] /\ tlb' = tlb
      BY <1>0, <1>n, <1>3, <2>1, SpawnEffect
    <2> QED BY <2>1, <2>2, ThroughSame DEF Code
  <1>4. Through(n, n)' = {} /\ pcb'[n].plane = FALSE /\ item'[Code] = item[Code]
    <2>1. pcb'[n].pid = NewPid /\ pcb'[n].plane = FALSE /\ tlb' = tlb /\ item'[Code] = item[Code]
      BY <1>0, <1>n, SpawnEffect
    <2>2. \A i \in DOMAIN tlb : tlb[i].pid # NewPid
      BY <1>0, <1>1 DEF PidInv, TypeOK
    <2> QED BY <2>1, <2>2 DEF Through
  <1>5. \A p : Orphan(p) => Orphan(p)'
    <2>1. /\ used \subseteq used' /\ top' = top
          /\ \A v \in Vpages : item'[v] = item[v] \/ item'[v].pfn \notin used
      BY <1>0, SpawnEffect
    <2> QED BY <2>1, OrphanKept
  <1>6. \A t \in Known' : item'[t].pid = pcb'[t].pid => Through(t, t)' \subseteq {item'[t].pfn}
    BY <1>2, <1>3, <1>4 DEF OwnEntries
  <1>7. \A t \in Known' : pcb'[t].plane /\ item'[Code].pid = pcb'[t].pid
                            => Through(t, Code)' \subseteq {item'[Code].pfn}
    BY <1>2, <1>3, <1>4 DEF OwnEntries
  <1>l. \A t \in Live' : t \in Known'
    BY DEF Live, Known
  <1>8. \A t \in Live' : item'[t].pid # pcb'[t].pid => Through(t, t)' = {}
    BY <1>2, <1>3, <1>4, <1>l DEF OwnEntries
  <1>9. \A t \in Live' : pcb'[t].plane /\ item'[Code].pid # pcb'[t].pid
                           => \A p \in Through(t, Code)' : Orphan(p)'
    BY <1>2, <1>3, <1>4, <1>5, <1>l DEF OwnEntries
  <1>10. \A s, t \in Live' : s # t /\ pcb'[s].plane /\ pcb'[t].plane
                              => Through(s, Code)' \cap Through(t, Code)' = {}
    BY <1>2, <1>3, <1>4, <1>l DEF OwnEntries
  <1> QED BY <1>6, <1>7, <1>8, <1>9, <1>10 DEF OwnEntries, Code

\* The page a launch overwrites in the code item becomes an orphan.
LEMMA LaunchEntries ==
    ASSUME TypeOK, PagesInv, StackInv, PidInv, EntryInv, Launch,
           Unless({"twice", "foreign", "alias", "again"})'
    PROVE  OwnEntries'
  <1>0. /\ "alias" \notin harm' /\ Code \in Vpages /\ \A t \in Tasks : t # Code /\ t \in Vpages
        /\ 0 \in Kernel
    BY NumbersOfThings, MemoryAssumption DEF Unless, Kernel
  <1>1. /\ harm' = harm /\ NewPid = process_id + 1 /\ process_id \in Nat
        /\ Unless({"twice", "foreign", "alias", "again"}) /\ "alias" \notin harm
    BY <1>0, BornEffect DEF Launch, Unless, TypeOK
  <1>2. OwnEntries /\ OwnPages
    BY <1>1 DEF EntryInv, PagesInv, Unless
  <1>n. PICK n \in Tasks : n = Slot
    BY <1>0, LaunchEffect
  <1>c. PICK c : c = CodePage
    OBVIOUS
  <1>k. PICK k : k = NewPid
    OBVIOUS
  <1>3. /\ c \notin used /\ used \subseteq used'
        /\ \A v \in Vpages : v # Code => item'[v] = item[v] \/ item'[v].pfn \notin used
        /\ item'[Code] = [pid |-> k, pfn |-> c]
        /\ \A t \in Tables : top'[t] = top[t] \/ top'[t] \notin used
        /\ \A i \in DOMAIN tlb' : i \in DOMAIN tlb
              /\ (tlb'[i] = tlb[i] \/ tlb'[i] = [vpn |-> Code, pid |-> k, pfn |-> c])
    BY <1>0, <1>c, <1>k, LaunchEffect
  <1>4. ASSUME NEW t \in Known', t # n
        PROVE  /\ t \in Known /\ (t \in Live' => t \in Live)
               /\ pcb'[t] = pcb[t] /\ item'[t] = item[t] /\ pcb[t].pid # k
               /\ Through(t, t)' \subseteq Through(t, t) /\ Through(t, Code)' \subseteq Through(t, Code)
    <2>1. t \in Known /\ (t \in Live' => t \in Live) /\ t \in Tasks
      BY <1>0, <1>n, <1>4, LaunchEffect DEF Known
    <2>2. pcb'[t] = pcb[t] /\ item'[t] = item[t]
      BY <1>0, <1>n, <1>4, <2>1, LaunchEffect
    <2>3. pcb[t].pid # k
      BY <1>1, <1>k, <2>1 DEF PidInv
    <2>4. ASSUME NEW v PROVE Through(t, v)' \subseteq Through(t, v)
      BY <1>3, <2>2, <2>3 DEF Through
    <2> QED BY <2>1, <2>2, <2>3, <2>4 DEF Code
  <1>5. Through(n, n)' = {} /\ Through(n, Code)' \subseteq {c} /\ pcb'[n].pid = k
    <2>1. pcb'[n].pid = k /\ n # Code
      BY <1>0, <1>n, <1>k, LaunchEffect
    <2>2. \A i \in DOMAIN tlb : tlb[i].pid # k
      BY <1>0, <1>1, <1>k DEF PidInv, TypeOK
    <2> QED BY <1>3, <2>1, <2>2 DEF Through
  <1>6. ASSUME NEW p, Orphan(p) PROVE Orphan(p)'
    <2>1. \A v \in Vpages : item'[v] = item[v] \/ item'[v].pfn \notin used
      BY <1>3
    <2> QED BY <1>3, <1>6, <2>1, OrphanKept
  <1>7. ASSUME NEW p, item[Code] # NoItem, item[Code].pfn = p PROVE Orphan(p)'
    <2>1. p \in used /\ p \notin Kernel
      BY <1>0, <1>2, <1>7 DEF OwnPages
    <2>2. \A v \in Vpages : v # Code /\ item[v] # NoItem => item[v].pfn # p
      BY <1>0, <1>2, <1>7 DEF OwnPages
    <2>3. \A t \in Tables : top[t] # p
      BY <1>0, <1>2, <1>7, <2>1 DEF OwnPages
    <2>4. \A v \in Vpages : item'[v] # NoItem => item'[v].pfn # p
      BY <1>3, <2>1, <2>2
    <2> QED BY <1>3, <2>1, <2>3, <2>4 DEF Orphan
  <1>8. ASSUME NEW t \in Live, pcb[t].plane, NEW p \in Through(t, Code)
        PROVE  p \in used /\ Orphan(p)'
    <2>1. p \in used /\ t \in Known
      BY <1>1, <1>8, EntryPages
    <2>2. CASE item[Code].pid = pcb[t].pid
      <3>1. item[Code] # NoItem /\ item[Code].pfn = p
        BY <1>0, <1>1, <1>2, <1>8, <2>1, <2>2, EntryPages DEF OwnEntries
      <3> QED BY <1>7, <2>1, <3>1
    <2>3. CASE item[Code].pid # pcb[t].pid
      BY <1>2, <1>6, <1>8, <2>1, <2>3 DEF OwnEntries
    <2> QED BY <2>2, <2>3
  <1>l. \A t \in Live' : t \in Known'
    BY DEF Live, Known
  <1>9. \A t \in Known' : item'[t].pid = pcb'[t].pid => Through(t, t)' \subseteq {item'[t].pfn}
    BY <1>2, <1>4, <1>5 DEF OwnEntries
  <1>10. \A t \in Known' : pcb'[t].plane /\ item'[Code].pid = pcb'[t].pid
                             => Through(t, Code)' \subseteq {item'[Code].pfn}
    BY <1>3, <1>4, <1>5
  <1>11. \A t \in Live' : item'[t].pid # pcb'[t].pid => Through(t, t)' = {}
    BY <1>2, <1>4, <1>5, <1>l DEF OwnEntries
  <1>12. \A t \in Live' : pcb'[t].plane /\ item'[Code].pid # pcb'[t].pid
                            => \A p \in Through(t, Code)' : Orphan(p)'
    <2>1. item'[Code].pid = pcb'[n].pid
      BY <1>3, <1>5
    <2> QED BY <1>4, <1>8, <1>l, <2>1
  <1>13. \A s, t \in Live' : s # t /\ pcb'[s].plane /\ pcb'[t].plane
                              => Through(s, Code)' \cap Through(t, Code)' = {}
    <2>1. ASSUME NEW t \in Live', t # n, pcb'[t].plane
          PROVE  Through(t, Code)' \cap {c} = {}
      BY <1>3, <1>4, <1>8, <1>l, <2>1
    <2> QED BY <1>2, <1>4, <1>5, <1>l, <2>1 DEF OwnEntries
  <1> QED BY <1>9, <1>10, <1>11, <1>12, <1>13 DEF OwnEntries, Code

\* The end of a process frees the pages of its own items only.
LEMMA GoneEntries ==
    ASSUME TypeOK, PagesInv, StackInv, PidInv, EntryInv, NEW t \in Tasks, Gone(t),
           Unless({"twice", "foreign", "alias", "again"})'
    PROVE  OwnEntries'
  <1>0. "alias" \notin harm' /\ Code \in Vpages /\ \A s \in Tasks : s # Code /\ s \in Vpages
    BY NumbersOfThings DEF Unless
  <1>1. /\ "alias" \notin harm /\ t \in Live /\ harm' = harm \cup EndHarms(t)
        /\ Live' = Live \ {t} /\ Known' \subseteq Known
        /\ \A s \in Known' : pcb'[s].pid = pcb[s].pid /\ pcb'[s].plane = pcb[s].plane
        /\ used' = used \ Freed(pcb[t].mems) /\ item' = Cleared(pcb[t].mems)
        /\ top' = top /\ tlb' = tlb
    BY <1>0, GoneEffect
  <1>2. Unless({"twice", "foreign", "alias", "again"}) /\ "twice" \notin EndHarms(t) /\ "foreign" \notin EndHarms(t)
    BY <1>1 DEF Unless
  <1>3. OwnEntries
    BY <1>2 DEF EntryInv
  <1> DEFINE m == ToSet(pcb[t].mems)
  <1>4. m \subseteq {v \in Vpages : item[v] # NoItem} /\ Freed(pcb[t].mems) = {item[v].pfn : v \in m}
    BY <1>2, FreedAreItems
  <1>5. \A v \in m : item[v].pid = pcb[t].pid
    BY <1>2 DEF EndHarms
  <1>6. \A v \in Vpages : item'[v] = IF v \in m THEN NoItem ELSE item[v]
    BY <1>1 DEF Cleared
  <1> HIDE DEF m
  <1>7. ASSUME NEW s \in Known'
        PROVE  /\ s \in Known /\ s \in Vpages
               /\ pcb'[s].pid = pcb[s].pid /\ pcb'[s].plane = pcb[s].plane
               /\ \A v \in Vpages : item'[v].pid = pcb'[s].pid => item'[v] = item[v]
               /\ Through(s, s)' = Through(s, s) /\ Through(s, Code)' = Through(s, Code)
    <2>1. s \in Known /\ s \in Tasks /\ pcb'[s].pid = pcb[s].pid /\ pcb'[s].plane = pcb[s].plane
      BY <1>1, LiveKnown
    <2>2. pcb[s].pid # NoItem.pid
      BY <1>1, <2>1 DEF PidInv, NoItem
    <2>3. \A v \in Vpages : item'[v].pid = pcb'[s].pid => item'[v] = item[v]
      BY <1>6, <2>1, <2>2
    <2>4. Through(s, s)' = Through(s, s) /\ Through(s, Code)' = Through(s, Code)
      BY <1>1, <2>1, ThroughSame DEF Code
    <2> QED BY <1>0, <2>1, <2>3, <2>4
  <1>l. \A s \in Live' : s \in Known' /\ s \in Live /\ s # t
    BY <1>1 DEF Live, Known
  <1>8. ASSUME NEW s \in Live'
        PROVE  \A v \in Vpages : item[v].pid = pcb[s].pid => item'[v] = item[v]
    <2>1. pcb[s].pid # pcb[t].pid
      BY <1>1, <1>l, <1>8, LiveKnown DEF PidInv
    <2> QED BY <1>5, <1>6, <2>1
  <1>9. \A p : Orphan(p) => Orphan(p)'
    BY <1>1, <1>4, <1>6 DEF Orphan
  <1>10. \A s \in Known' : item'[s].pid = pcb'[s].pid => Through(s, s)' \subseteq {item'[s].pfn}
    BY <1>3, <1>7 DEF OwnEntries
  <1>11. \A s \in Known' : pcb'[s].plane /\ item'[Code].pid = pcb'[s].pid
                             => Through(s, Code)' \subseteq {item'[Code].pfn}
    BY <1>0, <1>3, <1>7 DEF OwnEntries
  <1>12. \A s \in Live' : item'[s].pid # pcb'[s].pid => Through(s, s)' = {}
    BY <1>3, <1>7, <1>8, <1>l DEF OwnEntries
  <1>13. \A s \in Live' : pcb'[s].plane /\ item'[Code].pid # pcb'[s].pid
                            => \A p \in Through(s, Code)' : Orphan(p)'
    BY <1>0, <1>3, <1>7, <1>8, <1>9, <1>l DEF OwnEntries
  <1>14. \A s, r \in Live' : s # r /\ pcb'[s].plane /\ pcb'[r].plane
                              => Through(s, Code)' \cap Through(r, Code)' = {}
    BY <1>3, <1>7, <1>l DEF OwnEntries
  <1> QED BY <1>10, <1>11, <1>12, <1>13, <1>14 DEF OwnEntries, Code

\* A killed process that runs again has an entry only where the item is still
\* its own, or else the event "again" happens.
LEMMA AgainEntries ==
    ASSUME TypeOK, PagesInv, StackInv, PidInv, EntryInv, NEW t \in Tasks, Again(t),
           Unless({"twice", "foreign", "alias", "again"})'
    PROVE  OwnEntries'
  <1>1. /\ t \in Known /\ t \notin Live /\ Live' = Live \cup {t} /\ Known' = Known
        /\ \A s \in Tasks : pcb'[s].pid = pcb[s].pid /\ pcb'[s].plane = pcb[s].plane
        /\ harm \subseteq harm' /\ used' = used /\ top' = top /\ item' = item /\ tlb' = tlb
    BY AgainEffect
  <1>2. Unless({"twice", "foreign", "alias", "again"}) /\ OwnEntries
    BY <1>1 DEF Unless, EntryInv
  <1>3. pcb[t].pid % PIDS = pcb[t].pid
    BY <1>1, <1>2, SmallPidStays DEF PidInv, TypeOK, Pcb, Unless
  <1>4. \A v \in Uses(t) : Hit(t, v) => item[v].pid = pcb[t].pid
    BY DEF Again, Unless
  <1>5. \A v \in Uses(t) : item[v].pid # pcb[t].pid => Through(t, v) = {}
    BY <1>3, <1>4 DEF Through, Hit
  <1>6. /\ item[t].pid # pcb[t].pid => Through(t, t) = {}
        /\ pcb[t].plane /\ item[Code].pid # pcb[t].pid => Through(t, Code) = {}
    BY <1>5 DEF Uses
  <1>7. \A p : Orphan(p)' <=> Orphan(p)
    BY <1>1 DEF Orphan
  <1>8. /\ \A s \in Known : s \in Tasks
        /\ \A s \in Live' : s \in Known /\ s \in Tasks /\ (s # t => s \in Live)
        /\ \A s \in Tasks : \A v : Through(s, v)' = Through(s, v)
    BY <1>1, LiveKnown DEF Through
  <1>c. Code' = Code
    BY DEF Code
  <1>9. ASSUME NEW s \in Live, pcb[s].plane, pcb[t].plane
        PROVE  Through(s, Code) \cap Through(t, Code) = {}
    <2>1. CASE item[Code].pid = pcb[t].pid
      <3>1. Through(t, Code) \subseteq {item[Code].pfn} /\ item[Code] # NoItem
        BY <1>1, <1>2, <1>9, <2>1 DEF OwnEntries, PidInv, NoItem, Unless
      <3>2. item[Code].pid # pcb[s].pid
        BY <1>1, <1>2, <2>1, LiveKnown DEF PidInv, Unless
      <3>3. \A p \in Through(s, Code) : Orphan(p)
        BY <1>2, <1>9, <3>2 DEF OwnEntries
      <3>4. Code \in Vpages
        BY NumbersOfThings
      <3> QED BY <3>1, <3>3, <3>4 DEF Orphan
    <2>2. CASE item[Code].pid # pcb[t].pid
      BY <1>6, <1>9, <2>2
    <2> QED BY <2>1, <2>2
  <1>10. /\ \A s \in Known' : item'[s].pid = pcb'[s].pid => Through(s, s)' \subseteq {item'[s].pfn}
         /\ \A s \in Known' : pcb'[s].plane /\ item'[Code].pid = pcb'[s].pid
                                => Through(s, Code)' \subseteq {item'[Code].pfn}
    BY <1>1, <1>2, <1>8 DEF OwnEntries
  <1>11. \A s \in Live' : item'[s].pid # pcb'[s].pid => Through(s, s)' = {}
    BY <1>1, <1>2, <1>6, <1>8 DEF OwnEntries
  <1>12. \A s \in Live' : pcb'[s].plane /\ item'[Code].pid # pcb'[s].pid
                            => \A p \in Through(s, Code)' : Orphan(p)'
    BY <1>1, <1>2, <1>6, <1>7, <1>8 DEF OwnEntries
  <1>13. \A s, r \in Live' : s # r /\ pcb'[s].plane /\ pcb'[r].plane
                              => Through(s, Code)' \cap Through(r, Code)' = {}
    BY <1>1, <1>2, <1>8, <1>9 DEF OwnEntries
  <1> QED BY <1>c, <1>10, <1>11, <1>12, <1>13 DEF OwnEntries

\* A refill adds an entry for the item's page, which is new or was there.
LEMMA RefillEntries ==
    ASSUME TypeOK, PagesInv, StackInv, PidInv, EntryInv,
           NEW t \in Tasks, NEW v \in Vpages, Refill(t, v),
           Unless({"twice", "foreign", "alias", "again"})'
    PROVE  OwnEntries'
  <1>0. "alias" \notin harm' /\ Code \in Vpages /\ \A s \in Tasks : s # Code /\ s \in Vpages
    BY NumbersOfThings DEF Unless
  <1>1. /\ "alias" \notin harm /\ harm \subseteq harm' /\ t \in Live /\ t \in Known
        /\ Live' \subseteq Live /\ Known' \subseteq Known
        /\ v = t \/ v = Code
        /\ \A i \in DOMAIN tlb : ~(tlb[i].vpn = v /\ tlb[i].pid = pcb[t].pid)
        /\ Found(t, v).pid = pcb[t].pid
        /\ \A s \in Tasks : pcb'[s].pid = pcb[s].pid /\ pcb'[s].plane = pcb[s].plane
        /\ used \subseteq used' /\ (item[v] = NoItem => FirstFree(used) \notin used)
        /\ top' = top
    BY <1>0, RefillEffect, LiveKnown
  <1>2. Unless({"twice", "foreign", "alias", "again"})
    BY <1>1 DEF Unless
  <1>3. OwnEntries /\ OwnPages
    BY <1>2 DEF EntryInv, PagesInv, Unless
  <1>p. PICK p : p = Found(t, v).pfn
    OBVIOUS
  <1>4. /\ item'[v].pid = pcb[t].pid /\ item'[v].pfn = p
        /\ \A w \in Vpages : w # v => item'[w] = item[w]
        /\ item'[v] = item[v] \/ (item[v] = NoItem /\ p \notin used)
    BY <1>1, <1>p, RefillItem DEF Found
  <1>5. \A i \in DOMAIN tlb' : i \in DOMAIN tlb
            /\ (tlb'[i] = tlb[i] \/ tlb'[i] = [vpn |-> v, pid |-> pcb[t].pid, pfn |-> p])
    BY <1>p, RefillTlb
  <1>6. ASSUME NEW s \in Known'
        PROVE  /\ s \in Known /\ s \in Tasks /\ pcb'[s].pid = pcb[s].pid /\ pcb'[s].plane = pcb[s].plane
               /\ s # v => item'[s] = item[s]
               /\ s # t => /\ pcb[s].pid # pcb[t].pid /\ item'[s] = item[s]
                           /\ item[Code].pid = pcb[s].pid => item'[Code] = item[Code]
                           /\ item'[Code].pid = pcb[s].pid => item'[Code] = item[Code]
    <2>1. s \in Known /\ s \in Tasks
      BY <1>1, LiveKnown
    <2>2. s # t => pcb[s].pid # pcb[t].pid
      BY <1>1, <2>1 DEF PidInv
    <2>3. pcb[s].pid # NoItem.pid
      BY <1>1, <2>1 DEF PidInv, NoItem
    <2> QED BY <1>0, <1>1, <1>4, <2>1, <2>2, <2>3
  <1>7. ASSUME NEW s \in Known', NEW w, s # t \/ w # v
        PROVE  Through(s, w)' \subseteq Through(s, w)
    <2>1. pcb'[s].pid = pcb[s].pid /\ (s # t => pcb[s].pid # pcb[t].pid)
      BY <1>6
    <2> QED BY <1>5, <1>7, <2>1 DEF Through
  <1>8. Through(t, v)' \subseteq {p}
    BY <1>1, <1>5 DEF Through
  <1>9. ASSUME NEW q, Orphan(q) PROVE Orphan(q)' /\ q # p
    <2>1. \A w \in Vpages : item'[w] = item[w] \/ item'[w].pfn \notin used
      BY <1>4
    <2>2. Orphan(q)'
      BY <1>1, <1>9, <2>1, OrphanKept
    <2>3. q # p
      <3>1. CASE item'[v] = item[v]
        <4>1. item[v].pid # NoItem.pid
          BY <1>1, <1>4, <3>1 DEF PidInv, NoItem
        <4> QED BY <1>4, <1>9, <3>1, <4>1 DEF Orphan
      <3>2. CASE p \notin used
        BY <1>9, <3>2 DEF Orphan
      <3> QED BY <1>4, <3>1, <3>2
    <2> QED BY <2>2, <2>3
  <1>l. \A s \in Live' : s \in Known' /\ s \in Live
    BY <1>1 DEF Live, Known
  <1>10. \A s \in Known' : item'[s].pid = pcb'[s].pid => Through(s, s)' \subseteq {item'[s].pfn}
    <2>1. \A s \in Known' : s # v => (item'[s].pid = pcb'[s].pid => Through(s, s)' \subseteq {item'[s].pfn})
      BY <1>3, <1>6, <1>7 DEF OwnEntries
    <2>2. v = t => Through(t, t)' \subseteq {item'[t].pfn}
      BY <1>4, <1>8
    <2> QED BY <1>0, <1>1, <1>6, <2>1, <2>2
  <1>11. \A s \in Known' : pcb'[s].plane /\ item'[Code].pid = pcb'[s].pid
                             => Through(s, Code)' \subseteq {item'[Code].pfn}
    <2>1. CASE v = Code
      <3>1. Through(t, Code)' \subseteq {item'[Code].pfn}
        BY <1>4, <1>8, <2>1
      <3> QED BY <1>3, <1>6, <1>7, <3>1 DEF OwnEntries
    <2>2. CASE v # Code
      <3>1. item'[Code] = item[Code]
        BY <1>0, <1>4, <2>2
      <3> QED BY <1>3, <1>6, <1>7, <2>2, <3>1 DEF OwnEntries
    <2> QED BY <2>1, <2>2
  <1>12. \A s \in Live' : item'[s].pid # pcb'[s].pid => Through(s, s)' = {}
    <2>1. \A s \in Live' : s # v => (item'[s].pid # pcb'[s].pid => Through(s, s)' = {})
      BY <1>3, <1>6, <1>7, <1>l DEF OwnEntries
    <2>2. v = t => item'[t].pid = pcb'[t].pid
      BY <1>1, <1>4
    <2> QED BY <1>0, <1>1, <1>6, <1>l, <2>1, <2>2
  <1>13. \A s \in Live' : pcb'[s].plane /\ item'[Code].pid # pcb'[s].pid
                            => \A q \in Through(s, Code)' : Orphan(q)'
    <2> SUFFICES ASSUME NEW s \in Live', pcb'[s].plane, item'[Code].pid # pcb'[s].pid,
                        NEW q \in Through(s, Code)'
                 PROVE  Orphan(q)'
      OBVIOUS
    <2>1. s # t \/ v # Code
      BY <1>1, <1>4
    <2>2. q \in Through(s, Code) /\ pcb[s].plane
      BY <1>6, <1>7, <1>l, <2>1
    <2>3. item[Code].pid # pcb[s].pid
      BY <1>0, <1>4, <1>6, <1>l, <2>1
    <2> QED BY <1>3, <1>9, <1>l, <2>2, <2>3 DEF OwnEntries
  <1>14. ASSUME NEW s \in Live', s # t, pcb'[s].plane, v = Code
         PROVE  p \notin Through(s, Code)'
    <2>1. Through(s, Code)' \subseteq Through(s, Code) /\ pcb[s].plane
      BY <1>6, <1>7, <1>14, <1>l
    <2>2. item[Code].pid # pcb[s].pid
      BY <1>4, <1>6, <1>14, <1>l
    <2>3. \A q \in Through(s, Code) : Orphan(q)
      BY <1>3, <1>l, <2>1, <2>2 DEF OwnEntries
    <2> QED BY <1>9, <2>1, <2>3
  <1>15. \A s, r \in Live' : s # r /\ pcb'[s].plane /\ pcb'[r].plane
                              => Through(s, Code)' \cap Through(r, Code)' = {}
    <2>1. CASE v = Code
      <3>1. \A s, r \in Live' : s # r /\ s # t /\ r # t /\ pcb'[s].plane /\ pcb'[r].plane
                                  => Through(s, Code)' \cap Through(r, Code)' = {}
        BY <1>3, <1>6, <1>7, <1>l DEF OwnEntries
      <3>2. \A s \in Live' : s # t /\ pcb'[s].plane => Through(s, Code)' \cap Through(t, Code)' = {}
        BY <1>8, <1>14, <2>1
      <3> QED BY <3>1, <3>2
    <2>2. CASE v # Code
      BY <1>3, <1>6, <1>7, <1>l, <2>2 DEF OwnEntries
    <2> QED BY <2>1, <2>2
  <1> QED BY <1>10, <1>11, <1>12, <1>13, <1>15 DEF OwnEntries, Code

LEMMA StepEntries ==
    ASSUME TypeOK, PagesInv, StackInv, PidInv, EntryInv, [Next]_vars
    PROVE  EntryInv'
  <1> SUFFICES ASSUME Unless({"twice", "foreign", "alias", "again"})' PROVE OwnEntries'
    BY DEF EntryInv
  <1>1. CASE UNCHANGED vars
    <2>1. OwnEntries
      BY <1>1 DEF vars, EntryInv, Unless
    <2>2. /\ Live' = Live /\ Known' = Known /\ pcb' = pcb /\ item' = item
          /\ \A t, v : Through(t, v)' = Through(t, v)
          /\ \A p : Orphan(p)' <=> Orphan(p)
      BY <1>1 DEF vars, Live, Known, Through, Orphan
    <2> QED BY <2>1, <2>2 DEF OwnEntries, Code
  <1> QED BY <1>1, Steps, SpawnEntries, LaunchEntries, GoneEntries, AgainEntries, RefillEntries

\* Until a process ends that recorded a page twice or another one's, a killed
\* process runs again on an entry that outlived its page, or pids outgrow the
\* ASID, no live process reaches a page of another one, a free page or the
\* kernel, whatever stale entries are in the TLB; killed processes that run
\* again are among the live ones.
THEOREM IsolationSafe == Spec => []Isolated
  <1> DEFINE Inv == TypeOK /\ PagesInv /\ StackInv /\ PidInv /\ EntryInv
  <1>1. Init => Inv
    BY InitTyped, InitPages, InitStack, InitPids DEF EntryInv, OwnEntries
  <1>2. Inv /\ [Next]_vars => Inv'
    BY StepTyped, StepPages, StepStack, StepPids, StepEntries
  <1>3. Inv => Isolated
    BY EntryInvMeans
  <1> QED BY <1>1, <1>2, <1>3, PTL DEF Spec
=============================================================================
