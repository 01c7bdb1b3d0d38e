------------------------------ MODULE FileSys ------------------------------
(***************************************************************************)
(* The file system of Big_Bonus (kernel/fs/fs.c), driven by the shell and  *)
(* by the download task.                                                   *)
(*                                                                         *)
(* A system call runs with interrupts masked, so two calls never mix; but  *)
(* a call is several writes to the SD card, and the power may go off       *)
(* between any two of them.  A handler computes its writes (pending) and   *)
(* everything it keeps in memory; CardWrite then performs them one by one. *)
(* A write of one map, one inode or one block is taken as atomic.          *)
(*                                                                         *)
(* A block is NCELL cells, each the size of a directory entry; a file is   *)
(* written and measured in cells.  Nothing sets direct[1..7] of an inode   *)
(* to anything but the 0 of init_inode, so an inode has one block.         *)
(***************************************************************************)
EXTENDS Integers, FiniteSets, SequencesExt

CONSTANTS
    NI,          \* inodes: 0..NI - 1, 0 is the root's
    PER, FIT,    \* read_inode counts PER inodes to a sector; FIT fit into one
    NB,          \* blocks: 0..NB - 1, 0 is the superblock's
    RESERVED,    \* blocks in use in a new block map
    ROOTBLOCK,   \* the block mkfs gives to the root directory
    NCELL,       \* directory entries in a block
    Names,       \* names a user types; none begins with a dot
    PlaneName,   \* the file the download task opens
    Plane,       \* the cells the download task writes, in order
    CdPaths,     \* the paths a user types after cd
    MaxCalls,    \* bound: commands, files opened and events in harm
    MaxBoots     \* bound: restarts

ASSUME FileSysAssumption ==
    /\ NI \in Nat \ {0} /\ NB \in Nat /\ PER \in Nat \ {0} /\ FIT \in 1..PER
    /\ RESERVED \in 1..NB /\ ROOTBLOCK \in 1..RESERVED - 1
    /\ NCELL \in Nat \ {0, 1}
    /\ PlaneName \in Names /\ {"", ".", "..", "super"} \cap (Names \cup ToSet(Plane)) = {}
    /\ Plane \in Seq(STRING) /\ CdPaths \subseteq Seq(STRING)
    /\ MaxCalls \in Nat /\ MaxBoots \in Nat

\* Cells stand for the bytes of files as well as for entries: the name of a cell
\* tells which it is.
ASSUME ContentAssumption == Names \cap ToSet(Plane) = {}

Inodes == 0..NI - 1
Blocks == 0..NB - 1
Cells  == 0..NCELL - 1
Root   == 0

Cell(n, i, t) == [name |-> n, id |-> i, type |-> t]
EmptyCell == Cell("", 0, "file")
Super     == Cell("super", 0, "file")   \* the superblock, with its magic number
ZeroInode == [type |-> "file", dnum |-> 0, block |-> 0, size |-> 0]
NoFile    == [inode |-> 0, size |-> 0, w_ptr |-> 0,
              direct |-> [i \in 0..Len(Plane) |-> 0]]
Idle      == [op |-> "idle", abs |-> FALSE, path |-> <<>>]

VARIABLES
    disk,        \* the card: imap, bmap, inode table, blocks
    pending,     \* writes the running system call has still to do
    path_inode,  \* pcb[0].path_inode, the shell's working directory
    shell_path,  \* the path in the shell's prompt
    inst_path,   \* names of the last command line; dead when no call uses them
    shell,       \* the command the shell has parsed but not yet called
    file,        \* fd[0]; no other descriptor is ever used, see Fopen
    \* History, which nothing in the program reads:
    users,       \* how many tasks have fd[0] open
    saved,       \* what was written since fd[0] was opened, and to which inode
    calls, boots,  \* commands and files opened, restarts so far
    harm         \* events after which parts of the file system are known to fail:
                 \*   mkfs, cut   power cut in mkfs, in another call
                 \*   zero, over  block 0 handed out (rmdir frees it) to a file, to a
                 \*               directory
                 \*   again       mkfs of a card in use: block 0 lost its magic number
                 \*   missing     rmdir of a name that is not there
                 \*   full, unfit an entry behind its directory, an inode behind
                 \*               its sector
                 \*   big         a file longer than a block
                 \*   shared      two tasks with the one descriptor
                 \*   renamed     fopen between the shell's parsing and its call
                 \*   astray      cd, by a ".." that was never written, to an inode
                 \*               that no entry on the card names as a directory

vars == <<disk, pending, path_inode, shell_path, inst_path, shell, file,
          users, saved, calls, boots, harm>>

---------------------------------------------------------------------------
(* The card.                                                               *)

Imap(s)   == [what |-> "imap", val |-> s]
Bmap(s)   == [what |-> "bmap", val |-> s]
Ino(n, r) == [what |-> "inode", at |-> n, val |-> r]
Blk(b, c) == [what |-> "block", at |-> b, val |-> c]

\* write_inode puts an inode that does not fit its sector behind the 512
\* bytes that go back to the card.
Fits(n) == n % PER < FIT

Apply(d, w) ==
    CASE w.what = "imap"  -> [d EXCEPT !.imap = w.val]
      [] w.what = "bmap"  -> [d EXCEPT !.bmap = w.val]
      [] w.what = "inode" -> IF Fits(w.at) THEN [d EXCEPT !.inode[w.at] = w.val] ELSE d
      [] w.what = "block" -> [d EXCEPT !.block[w.at] = w.val]
\* After the first n of these writes, and after all of them.
Done(d, ws, n) ==
    LET done[k \in 0..Len(ws)] == IF k = 0 THEN d ELSE Apply(done[k - 1], ws[k])
    IN done[n]
After(d, ws) == Done(d, ws, Len(ws))

\* An inode that does not fit is read from the bytes behind the sector, which
\* the last map or directory left there: zeros, as long as those are small.
ReadInode(d, n) == IF Fits(n) THEN d.inode[n] ELSE ZeroInode

FirstFree(used, all) == Min(all \ used)
Room == disk.imap # Inodes /\ disk.bmap # Blocks   \* bound: the maps never fill

---------------------------------------------------------------------------
(* Directories.                                                            *)

\* The cells a walk visits: it counts non-empty cells from `from` on and ends
\* when it has counted up to dnum.  A walk that finds too few goes on behind
\* the block, where no name matches.
Walk(cells, from, dnum) ==
    {j \in from..NCELL - 1 :
        /\ cells[j].name # ""
        /\ from + Cardinality({k \in from..j - 1 : cells[k].name # ""}) < dnum}

\* The cell of the entry with this name and type, or -1.
Find(d, dir, from, name, type) ==
    LET ino == ReadInode(d, dir)
        c   == d.block[ino.block]
        hit == {j \in Walk(c, from, ino.dnum) : c[j].name = name /\ c[j].type = type}
    IN IF hit = {} THEN -1 ELSE Min(hit)

\* What ls shows of a directory.
Listing(d, dir) ==
    LET ino == ReadInode(d, dir)
    IN {d.block[ino.block][j] : j \in Walk(d.block[ino.block], 2, ino.dnum)}

\* One turn of path_locate's loop: the directory of this name, or -1 (0xffff).
Enter(d, dir, name) ==
    LET j == IF dir = -1 THEN -1 ELSE Find(d, dir, 0, name, "dir")
    IN IF j = -1 THEN -1 ELSE d.block[ReadInode(d, dir).block][j].id

\* path_locate: the directory a path leads to, or -1.
Locate(d, start, path) ==
    LET at[k \in 0..Len(path)] == IF k = 0 THEN start ELSE Enter(d, at[k - 1], path[k])
    IN at[Len(path)]

\* Faulty: the loop ends one cell early.
PutEntryEarly(cells, dnum, e) ==
    LET hole == {j \in 0..dnum - 2 : j \in Cells => cells[j].name = ""}
        at   == IF hole = {} THEN dnum - 2 ELSE Min(hole)
    IN IF at \in Cells THEN [cells EXCEPT ![at] = e] ELSE cells

\* Faulty: the entry is appended, holes are not looked for.
PutEntryLast(cells, dnum, e) ==
    IF dnum - 1 \in Cells THEN [cells EXCEPT ![dnum - 1] = e] ELSE cells

\* init_inode's place for an entry of a directory that now counts dnum: the
\* first empty one of the first dnum cells, else the last of them.
PutEntry(cells, dnum, e) ==
    LET hole == {j \in 0..dnum - 1 : j \in Cells => cells[j].name = ""}
        at   == IF hole = {} THEN dnum - 1 ELSE Min(hole)
    IN IF at \in Cells THEN [cells EXCEPT ![at] = e] ELSE cells

NewInode(type, b) == [type |-> type, dnum |-> 2, block |-> b,
                      size |-> IF type = "dir" THEN 2 ELSE 0]
Dots(cells, father, self) == [cells EXCEPT ![0] = Cell("..", father, "dir"),
                                           ![1] = Cell(".", self, "dir")]

\* Faulty: the entry is written before the inode it names.
CreateEntryFirst(d, father, name, type) ==
    LET self == FirstFree(d.imap, Inodes)
        b    == FirstFree(d.bmap, Blocks)
        ino  == ReadInode(d, father)
        w1   == <<Imap(d.imap \cup {self}), Bmap(d.bmap \cup {b}),
                  Ino(father, [ino EXCEPT !.dnum = @ + 1]),
                  Blk(ino.block, PutEntry(d.block[ino.block], ino.dnum + 1,
                                          Cell(name, self, type))),
                  Ino(self, NewInode(type, b))>>
    IN w1 \o IF type = "dir" THEN <<Blk(b, Dots(After(d, w1).block[b], father, self))>>
             ELSE <<>>

\* do_mkdir, do_touch and the creating half of do_fopen: the writes of
\* alloc_inode, alloc_block, init_inode and, for a directory, init_block.
Create(d, father, name, type) ==
    LET self == FirstFree(d.imap, Inodes)
        b    == FirstFree(d.bmap, Blocks)
        w1   == <<Imap(d.imap \cup {self}), Bmap(d.bmap \cup {b}),
                  Ino(self, NewInode(type, b))>>
        d1   == After(d, w1)
        ino  == ReadInode(d1, father)
        w2   == <<Ino(father, [ino EXCEPT !.dnum = @ + 1]),
                  Blk(ino.block, PutEntry(d1.block[ino.block], ino.dnum + 1,
                                          Cell(name, self, type)))>>
    IN w1 \o w2 \o
       IF type = "dir" THEN <<Blk(b, Dots(After(d1, w2).block[b], father, self))>>
       ELSE <<>>

\* Faulty: inode_buffer still holds the parent when the blocks are freed.
RmdirParent(d, dir, name) ==
    LET ino == ReadInode(d, dir)
        j   == Find(d, dir, 2, name, "dir")
        w1  == <<Ino(dir, [ino EXCEPT !.dnum = @ - 1])>>
        old == d.block[ino.block]
    IN IF j = -1 THEN w1
       ELSE w1 \o <<Blk(ino.block, [old EXCEPT ![j] = EmptyCell]),
                    Bmap(d.bmap \ {ino.block}), Bmap(d.bmap \ {ino.block, 0}),
                    Imap(d.imap \ {old[j].id})>>

\* do_rmdir: the writes, which begin before the name is looked up.
RmdirWrites(d, dir, name) ==
    LET ino == ReadInode(d, dir)
        j   == Find(d, dir, 2, name, "dir")
        w1  == <<Ino(dir, [ino EXCEPT !.dnum = @ - 1])>>
        old == d.block[ino.block]
        w2  == w1 \o <<Blk(ino.block, [old EXCEPT ![j] = EmptyCell])>>
        \* free_block of direct[0], then of direct[1..7], which are 0
        b   == ReadInode(After(d, w2), old[j].id).block
    IN IF j = -1 THEN w1
       ELSE w2 \o <<Bmap(d.bmap \ {b}), Bmap(d.bmap \ {b, 0}),
                    Imap(d.imap \ {old[j].id})>>

\* do_mkfs: nothing if the magic number is there.
MkfsWrites(d) ==
    IF d.block[0][0] = Super THEN <<>>
    ELSE <<Blk(0, [d.block[0] EXCEPT ![0] = Super]), Imap({Root}),
           Bmap(0..RESERVED - 1), Ino(Root, NewInode("dir", ROOTBLOCK)),
           Blk(ROOTBLOCK, Dots(d.block[ROOTBLOCK], Root, Root))>>

---------------------------------------------------------------------------
(* The actions.  Calls of the kernel need pending = <<>>: interrupts are   *)
(* masked until the call before has done its writes.                       *)

Init ==
    /\ disk = [imap |-> {}, bmap |-> {}, inode |-> [n \in Inodes |-> ZeroInode],
               block |-> [b \in Blocks |-> [j \in Cells |-> EmptyCell]]]
    /\ pending = <<>>
    /\ path_inode = Root /\ shell_path = <<>> /\ inst_path = <<>>
    /\ shell = Idle /\ file = NoFile
    /\ users = 0 /\ saved = [inode |-> 0, cells |-> <<>>] /\ calls = 0 /\ boots = 0 /\ harm = {}

Count == /\ calls + Cardinality(harm) < MaxCalls
         /\ calls' = calls + 1

CardWrite ==
    /\ pending # <<>>
    /\ disk' = Apply(disk, Head(pending))
    /\ pending' = Tail(pending)
    /\ UNCHANGED <<path_inode, shell_path, inst_path, shell, file, users, saved,
                   calls, boots, harm>>

RootMade(d) == d.inode[Root].type = "dir" /\ d.block[ROOTBLOCK][1].name = "."

\* The power goes off and the board starts again: main.c clears the
\* descriptors, the rest of the memory starts as the image has it.
Restart ==
    /\ boots < MaxBoots
    /\ boots' = boots + 1
    /\ pending' = <<>> /\ shell' = Idle
    /\ path_inode' = Root /\ shell_path' = <<>> /\ inst_path' = <<>>
    /\ file' = NoFile /\ users' = 0
    /\ harm' = IF pending = <<>> THEN harm
               ELSE harm \cup {IF RootMade(disk) THEN "cut" ELSE "mkfs"}
    /\ UNCHANGED <<disk, saved, calls>>

Mkfs ==
    /\ pending = <<>> /\ shell = Idle /\ Count
    /\ pending' = MkfsWrites(disk)
    /\ harm' = IF Root \in disk.imap /\ pending' # <<>> THEN harm \cup {"again"} ELSE harm
    /\ UNCHANGED <<disk, path_inode, shell_path, inst_path, shell, file, users,
                   saved, boots>>

\* The shell's path_analyse, in user mode.  The user formats the card before
\* the first other command.
Parse ==
    /\ pending = <<>> /\ shell = Idle /\ Root \in disk.imap /\ Count
    /\ \/ \E a \in BOOLEAN, p \in CdPaths : shell' = [op |-> "cd", abs |-> a, path |-> p]
       \/ \E op \in {"mkdir", "touch", "rmdir"}, n \in Names :
             shell' = [op |-> op, abs |-> FALSE, path |-> <<n>>]
    /\ inst_path' = shell'.path
    /\ UNCHANGED <<disk, pending, path_inode, shell_path, file, users, saved,
                   boots, harm>>

Called(op) == /\ pending = <<>> /\ shell.op = op
              /\ shell' = Idle /\ inst_path' = <<>>

\* Faulty: ".." is passed over like ".".
CdPathDots(base, path) == base \o SelectSeq(path, LAMBDA c : c \notin {".", ".."})

\* do_cd's new prompt, name by name.
Turned(at, c) ==
    CASE c = "."  -> at
      [] c = ".." -> IF at = <<>> THEN at ELSE Front(at)
      [] OTHER    -> Append(at, c)
CdPath(base, path) ==
    LET at[k \in 0..Len(path)] == IF k = 0 THEN base ELSE Turned(at[k - 1], path[k])
    IN at[Len(path)]

\* The root, or what some entry names as a directory.
Standing(d, n) == n = Root \/ \E b \in Blocks, j \in Cells :
    d.block[b][j].name \in Names /\ d.block[b][j].id = n /\ d.block[b][j].type = "dir"

Cd ==
    /\ Called("cd")
    /\ LET dir == Locate(disk, IF shell.abs THEN Root ELSE path_inode, inst_path)
       IN IF dir = -1 THEN UNCHANGED <<path_inode, shell_path, harm>>
          ELSE /\ path_inode' = dir
               /\ shell_path' = CdPath(IF shell.abs THEN <<>> ELSE shell_path, inst_path)
               /\ harm' = IF Standing(disk, dir) THEN harm ELSE harm \cup {"astray"}
    /\ UNCHANGED <<disk, pending, file, users, saved, calls, boots>>

\* What is known to go wrong with the next entry of this directory.
CreateHarms(d, father, type) ==
    LET self == FirstFree(d.imap, Inodes)
        ino  == ReadInode(d, father)
        c    == d.block[ino.block]
    IN (IF Fits(self) THEN {} ELSE {"unfit"})
       \cup (IF 0 \in d.bmap THEN {} ELSE IF type = "dir" THEN {"over"} ELSE {"zero"})
       \cup (IF \A j \in Cells : c[j].name # "" /\ j < ino.dnum THEN {"full"} ELSE {})

Make(op, type) ==
    /\ Called(op) /\ Room
    /\ pending' = Create(disk, path_inode, inst_path[1], type)
    /\ harm' = harm \cup CreateHarms(disk, path_inode, type)
    /\ UNCHANGED <<disk, path_inode, shell_path, file, users, saved, calls, boots>>
Mkdir == Make("mkdir", "dir")
Touch == Make("touch", "file")

Rmdir ==
    /\ Called("rmdir")
    /\ Fits(path_inode) => disk.inode[path_inode].dnum > 0   \* bound: dnum does not wrap
    /\ pending' = RmdirWrites(disk, path_inode, inst_path[1])
    /\ harm' = IF Find(disk, path_inode, 2, inst_path[1], "dir") = -1
               THEN harm \cup {"missing"} ELSE harm
    /\ UNCHANGED <<disk, path_inode, shell_path, file, users, saved, calls, boots>>

\* Faulty: the name is copied whether or not the file exists.
NameCopied(found) == IF inst_path # <<>> THEN [inst_path EXCEPT ![1] = PlaneName]
                     ELSE inst_path

\* The names of the shell's command line after an fopen.
NameBuffer(found) == IF ~found /\ inst_path # <<>>
                     THEN [inst_path EXCEPT ![1] = PlaneName] ELSE inst_path

\* do_fopen by a task, in the directory of the shell.  A new name goes through
\* the shell's inst_path[0].  The last assignment is written as a comparison
\* (occupied == 0xff), so every fopen hands out descriptor 0.
Fopen ==
    /\ pending = <<>> /\ Root \in disk.imap /\ users < 2 /\ Count
    /\ LET j   == Find(disk, path_inode, 2, PlaneName, "file")
           ws  == IF j = -1 THEN Create(disk, path_inode, PlaneName, "file") ELSE <<>>
           id  == IF j = -1 THEN FirstFree(disk.imap, Inodes)
                  ELSE disk.block[ReadInode(disk, path_inode).block][j].id
           ino == ReadInode(After(disk, ws), id)
       IN /\ j = -1 => Room
          /\ pending' = ws
          /\ inst_path' = NameBuffer(j # -1)
          /\ file' = [inode |-> id, size |-> ino.size, w_ptr |-> 0,
                      direct |-> [i \in 0..Len(Plane) |-> IF i = 0 THEN ino.block ELSE 0]]
          /\ harm' = harm \cup (IF j = -1 THEN CreateHarms(disk, path_inode, "file") ELSE {})
                          \cup (IF users > 0 THEN {"shared"} ELSE {})
                          \cup (IF j = -1 /\ shell # Idle THEN {"renamed"} ELSE {})
          /\ saved' = IF users > 0 THEN saved ELSE [inode |-> id, cells |-> <<>>]
    /\ users' = users + 1
    /\ UNCHANGED <<disk, path_inode, shell_path, shell, boots>>

\* Faulty: the old pointer is compared with the size.
SizeWritesOld ==
    IF file.w_ptr > file.size
    THEN <<Ino(file.inode, [ReadInode(disk, file.inode) EXCEPT !.size = file.w_ptr + 1])>>
    ELSE <<>>

\* The inode's new size; file.size itself is never updated.
SizeWrites ==
    IF file.w_ptr + 1 > file.size
    THEN <<Ino(file.inode, [ReadInode(disk, file.inode) EXCEPT !.size = file.w_ptr + 1])>>
    ELSE <<>>

\* do_fread of n cells at r_ptr = from.
Fread(from, n) ==
    [k \in 1..n |-> LET at == from + k - 1
                    IN disk.block[file.direct[at \div NCELL]][at % NCELL].name]

\* do_fwrite of one cell.  A cell that ends a block also reads and writes back
\* the block behind it, unchanged; that block is never allocated here, it is
\* allocated when it is left.
Fwrite ==
    /\ pending = <<>> /\ shell = Idle /\ users > 0 /\ Len(saved.cells) < Len(Plane)
    /\ LET x     == Plane[Len(saved.cells) + 1]
           i     == file.w_ptr \div NCELL
           last  == (file.w_ptr + 1) \div NCELL > i
           new   == FirstFree(disk.bmap, Blocks)
           alloc == last /\ file.direct[i] = 0
           b     == IF alloc THEN new ELSE file.direct[i]
       IN /\ alloc => Room
          /\ pending' = (IF alloc THEN <<Bmap(disk.bmap \cup {new})>> ELSE <<>>)
                        \o <<Blk(b, [disk.block[b] EXCEPT
                                       ![file.w_ptr % NCELL] = Cell(x, 0, "file")])>>
                        \o SizeWrites
          /\ file' = [file EXCEPT !.w_ptr = @ + 1, !.direct[i] = b]
          /\ saved' = [saved EXCEPT !.cells = Append(@, x)]
          /\ harm' = harm \cup (IF file.w_ptr >= NCELL THEN {"big"} ELSE {})
    /\ UNCHANGED <<disk, path_inode, shell_path, inst_path, shell, users, calls, boots>>

Fclose ==
    /\ pending = <<>> /\ shell = Idle /\ users > 0
    /\ users' = users - 1
    /\ UNCHANGED <<disk, pending, path_inode, shell_path, inst_path, shell, file,
                   saved, calls, boots, harm>>

Next == CardWrite \/ Restart \/ Mkfs \/ Parse \/ Cd \/ Mkdir \/ Touch \/ Rmdir
        \/ Fopen \/ Fwrite \/ Fclose

Spec == Init /\ [][Next]_vars

---------------------------------------------------------------------------
(* Properties.                                                             *)

Formatted(d) == Root \in d.imap /\ d.inode[Root].type = "dir"

\* Directories that can be reached from the root, and their entries.
Dirs(d) ==
    LET below(S) == {e.id : e \in {f \in UNION {Listing(d, x) : x \in S} : f.type = "dir"}}
        near[n \in 0..NI] == IF n = 0 THEN {Root}
                             ELSE UNION {T \cup below(T) : T \in {near[n - 1]}}
    IN IF Formatted(d) THEN near[NI] ELSE {}
Tree(d) == [x \in Dirs(d) |-> Listing(d, x)]
Entries(d) == UNION {Listing(d, x) : x \in Dirs(d)}
Quiet == pending = <<>>
Unless(events) == harm \cap events = {}

\* Between calls, a directory counts exactly the entries it shows (init_inode,
\* do_rmdir).  Not after a power cut in a call, an rmdir of a missing name or
\* an entry too many for its directory or for the inodes of a sector.
CountAgrees == Quiet /\ Unless({"mkfs", "cut", "over", "missing", "full", "unfit", "again"}) =>
    \A x \in Dirs(disk) : Cardinality(Listing(disk, x)) = disk.inode[x].dnum - 2

\* At every single write, power cuts included, what a directory shows is there:
\* its inode and its block are allocated and the inode is of the entry's type.
EntriesWhole == Unless({"mkfs", "zero", "over", "unfit", "again"}) =>
    \A e \in Entries(disk) :
        LET ino == ReadInode(disk, e.id)
        IN e.id \in disk.imap /\ ino.type = e.type /\ ino.block \in disk.bmap

\* Two entries never name files that share a block (alloc_block, free_block).
BlocksPrivate == Unless({"mkfs", "zero", "over", "unfit", "again"}) =>
    \A e, f \in Entries(disk) \cup {Cell("", Root, "dir")} :
        e.id # f.id => ReadInode(disk, e.id).block # ReadInode(disk, f.id).block

\* The names in the prompt lead from the root to the working directory, which
\* exists, after any cd and whatever other commands and tasks do (do_cd keeps
\* the two apart).
PathAgrees == Unless({"mkfs", "cut", "over", "unfit", "again"}) =>
    path_inode # -1 /\ Locate(disk, Root, shell_path) = path_inode

\* What a task wrote stays on the card, after restarts too: fread returns it,
\* and the size in the inode lets cat show it.
Durable == Unless({"mkfs", "zero", "over", "unfit", "big", "shared", "astray"}) =>
    LET ino == ReadInode(disk, saved.inode)
        n   == Len(saved.cells)
    IN /\ Quiet /\ Unless({"cut"}) => ino.size >= n \/ n = 0
       /\ Quiet /\ users > 0 => Fread(0, n) = saved.cells
       /\ \A k \in 1..n : k <= ino.size => disk.block[ino.block][k - 1].name = saved.cells[k]

\* The entry that appears has the name the user typed, unless a task opened a
\* new file between the shell's parsing and its system call.  Not after mkfs was
\* done again: the working directory may then show the same entry already.
MadeTyped ==
    (Mkdir \/ Touch)
    /\ harm' \cap {"renamed", "mkfs", "full", "unfit", "missing", "cut", "over", "again"} = {} =>
        \E e \in Listing(After(disk, pending'), path_inode) \ Listing(disk, path_inode) :
            e.name = shell.path[1]
MakesTyped == [][MadeTyped]_vars

\* The file system is a tree of directories until something of this list happens:
\* sharing a descriptor or the shell's name buffer does not hurt it, nor does a
\* file in block 0.
Sound == Unless({"mkfs", "cut", "over", "missing", "full", "unfit", "again"})
TreeAfter == CHOOSE t \in {Tree(d) : d \in {After(disk, pending)}} : TRUE
FT == INSTANCE FileTree WITH tree <- TreeAfter, sound <- Sound
Promise == FT!Spec
===========================================================================
