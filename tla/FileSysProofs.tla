---------------------------- MODULE FileSysProofs ----------------------------
(***************************************************************************)
(* The file system of Big_Bonus, for any number of inodes, blocks, names,  *)
(* commands and restarts.                                                  *)
(***************************************************************************)
EXTENDS FileSys, FiniteSetTheorems, SequenceTheorems, WellFoundedInduction, TLAPS

\* Every non-empty set of naturals has a least member.
LEMMA LeastMember ==
    ASSUME NEW T \in SUBSET Nat, T # {}
    PROVE  \E m \in T : \A n \in T : m <= n
PROOF
  <1> DEFINE R == OpToRel(<, Nat)
  <1>1. IsWellFoundedOn(R, Nat)
    BY NatLessThanWellFounded
  <1> HIDE DEF R
  <1>2. PICK m \in T : \A n \in T : ~(<<n, m>> \in R)
    BY <1>1, WFMin
  <1>3. \A n \in T : ~(n < m)
    BY <1>2 DEF R, OpToRel
  <1> QED
    BY <1>3

\* Min is one of the set.
LEMMA MinFacts ==
    ASSUME NEW T \in SUBSET Nat, T # {}
    PROVE  Min(T) \in T /\ \A n \in T : Min(T) <= n
  BY LeastMember DEF Min

\* Inodes, blocks and cells are numbers, the root's and the superblock's among them.
LEMMA Numbers ==
    /\ Inodes \in SUBSET Nat /\ Blocks \in SUBSET Nat /\ Cells \in SUBSET Nat
    /\ Root \in Inodes /\ Fits(Root) /\ 0 \in Inodes
    /\ 0 \in Blocks /\ ROOTBLOCK \in Blocks /\ ROOTBLOCK # 0
    /\ 0 \in Cells /\ 1 \in Cells
    /\ ROOTBLOCK \in 0..RESERVED - 1 /\ 0..RESERVED - 1 \in SUBSET Blocks
PROOF
  <1>1. /\ NI \in Nat \ {0} /\ NB \in Nat /\ PER \in Nat \ {0} /\ FIT \in 1..PER
        /\ RESERVED \in 1..NB /\ ROOTBLOCK \in 1..RESERVED - 1 /\ NCELL \in Nat \ {0, 1}
    BY FileSysAssumption
  <1>2. 0 % PER = 0
    BY <1>1
  <1> QED
    BY <1>1, <1>2 DEF Inodes, Blocks, Cells, Root, Fits

\* The marks are no names.
LEMMA NamesApart ==
    /\ "" \notin Names /\ "." \notin Names /\ ".." \notin Names /\ "super" \notin Names
    /\ PlaneName \in Names
  BY FileSysAssumption

\* A loop of N turns, the k-th of which takes x to G[k][x].
Turns(N, S, G) == \A k \in 1..N : \A x \in S : G[k][x] \in S
Loop(f, N, S, a, G) == f \in [0..N -> S] /\ f[0] = a /\ \A k \in 1..N : f[k] = G[k][f[k - 1]]

LEMMA LoopExists ==
    ASSUME NEW N \in Nat, NEW S, NEW a \in S, NEW G, Turns(N, S, G)
    PROVE  \E f : Loop(f, N, S, a, G)
PROOF
  <1> USE DEF Turns
  <1> DEFINE Walks(f, m) == f \in [0..m -> S] /\ f[0] = a /\ \A k \in 1..m : f[k] = G[k][f[k - 1]]
             T == {m \in 0..N : ~ \E f : Walks(f, m)}
  <1>1. T = {}
    <2> SUFFICES ASSUME T # {} PROVE FALSE
      OBVIOUS
    <2>1. PICK m \in T : \A n \in T : m <= n
      <3>1. T \in SUBSET Nat
        OBVIOUS
      <3> HIDE DEF T
      <3> QED  BY <3>1, LeastMember
    <2>2. m \in 0..N /\ ~ \E f : Walks(f, m)
      BY <2>1
    <2>3. m # 0
      <3>1. Walks([n \in 0..0 |-> a], 0)
        OBVIOUS
      <3> HIDE DEF Walks
      <3> QED  BY <2>2, <3>1
    <2>4. m - 1 \in 0..N /\ m - 1 \notin T
      <3> HIDE DEF T, Walks
      <3> QED  BY <2>1, <2>2, <2>3
    <2>5. PICK f : Walks(f, m - 1)
      <3> HIDE DEF Walks
      <3> QED  BY <2>4
    <2> DEFINE g == [n \in 0..m |-> IF n = m THEN G[m][f[m - 1]] ELSE f[n]]
    <2>6. f[m - 1] \in S /\ G[m][f[m - 1]] \in S
      BY <2>2, <2>3, <2>5
    <2>7. \A n \in 0..m - 1 : g[n] = f[n] /\ g[n] \in S
      BY <2>2, <2>3, <2>5
    <2>8. g[m] = G[m][f[m - 1]]
      BY <2>2, <2>3
    <2>9. g \in [0..m -> S]
      BY <2>2, <2>5, <2>6
    <2> HIDE DEF g
    <2>10. \A k \in 1..m : g[k] = G[k][g[k - 1]]
      <3> TAKE k \in 1..m
      <3>1. k - 1 \in 0..m - 1 /\ g[k - 1] = f[k - 1]
        BY <2>2, <2>3, <2>7
      <3>2. CASE k = m
        BY <2>8, <3>1, <3>2
      <3>3. CASE k # m
        BY <2>2, <2>5, <2>7, <3>1, <3>3
      <3> QED  BY <3>2, <3>3
    <2>11. Walks(g, m)
      BY <2>2, <2>3, <2>5, <2>7, <2>9, <2>10
    <2> QED  BY <2>2, <2>11
  <1>2. N \in 0..N /\ N \notin T
    BY <1>1
  <1>3. PICK f : Walks(f, N)
    BY <1>2
  <1> QED
    BY <1>3 DEF Loop

---------------------------------------------------------------------------
(* The card and the writes to it.                                          *)

Types  == {"file", "dir"}
Marks  == {"", ".", "..", "super"}
CellT  == [name : Marks \cup Names \cup ToSet(Plane), id : Inodes, type : Types]
InodeT == [type : Types, dnum : Int, block : Blocks, size : Int]
Card   == [imap : SUBSET Inodes, bmap : SUBSET Blocks, inode : [Inodes -> InodeT],
           block : [Blocks -> [Cells -> CellT]]]
Writes == {Imap(s) : s \in SUBSET Inodes} \cup {Bmap(s) : s \in SUBSET Blocks}
          \cup {Ino(n, r) : n \in Inodes, r \in InodeT}
          \cup {Blk(b, c) : b \in Blocks, c \in [Cells -> CellT]}

\* What each write does to the card.
LEMMA ApplyImap ==
    ASSUME NEW d \in Card, NEW s \in SUBSET Inodes
    PROVE  /\ Apply(d, Imap(s)) \in Card
           /\ Apply(d, Imap(s)).imap = s /\ Apply(d, Imap(s)).bmap = d.bmap
           /\ Apply(d, Imap(s)).inode = d.inode /\ Apply(d, Imap(s)).block = d.block
PROOF
  <1>1. Apply(d, Imap(s)) = [d EXCEPT !.imap = s]
    BY DEF Apply, Imap
  <1> QED
    BY <1>1 DEF Card

LEMMA ApplyBmap ==
    ASSUME NEW d \in Card, NEW s \in SUBSET Blocks
    PROVE  /\ Apply(d, Bmap(s)) \in Card
           /\ Apply(d, Bmap(s)).imap = d.imap /\ Apply(d, Bmap(s)).bmap = s
           /\ Apply(d, Bmap(s)).inode = d.inode /\ Apply(d, Bmap(s)).block = d.block
PROOF
  <1>1. Apply(d, Bmap(s)) = [d EXCEPT !.bmap = s]
    BY DEF Apply, Bmap
  <1> QED
    BY <1>1 DEF Card

LEMMA ApplyIno ==
    ASSUME NEW d \in Card, NEW n \in Inodes, NEW r \in InodeT
    PROVE  /\ Apply(d, Ino(n, r)) \in Card
           /\ Apply(d, Ino(n, r)).imap = d.imap /\ Apply(d, Ino(n, r)).bmap = d.bmap
           /\ Apply(d, Ino(n, r)).inode = IF Fits(n) THEN [d.inode EXCEPT ![n] = r] ELSE d.inode
           /\ Apply(d, Ino(n, r)).block = d.block
PROOF
  <1>1. Apply(d, Ino(n, r)) = IF Fits(n) THEN [d EXCEPT !.inode[n] = r] ELSE d
    BY DEF Apply, Ino
  <1> QED
    BY <1>1 DEF Card

LEMMA ApplyBlk ==
    ASSUME NEW d \in Card, NEW b \in Blocks, NEW c \in [Cells -> CellT]
    PROVE  /\ Apply(d, Blk(b, c)) \in Card
           /\ Apply(d, Blk(b, c)).imap = d.imap /\ Apply(d, Blk(b, c)).bmap = d.bmap
           /\ Apply(d, Blk(b, c)).inode = d.inode
           /\ Apply(d, Blk(b, c)).block = [d.block EXCEPT ![b] = c]
PROOF
  <1>1. Apply(d, Blk(b, c)) = [d EXCEPT !.block[b] = c]
    BY DEF Apply, Blk
  <1> QED
    BY <1>1 DEF Card

LEMMA ApplyTyped ==
    ASSUME NEW d \in Card, NEW w \in Writes
    PROVE  Apply(d, w) \in Card
PROOF
  <1>1. CASE \E s \in SUBSET Inodes : w = Imap(s)
    BY <1>1, ApplyImap
  <1>2. CASE \E s \in SUBSET Blocks : w = Bmap(s)
    BY <1>2, ApplyBmap
  <1>3. CASE \E n \in Inodes, r \in InodeT : w = Ino(n, r)
    BY <1>3, ApplyIno
  <1>4. CASE \E b \in Blocks, c \in [Cells -> CellT] : w = Blk(b, c)
    BY <1>4, ApplyBlk
  <1> QED
    BY <1>1, <1>2, <1>3, <1>4 DEF Writes

\* Done performs one write after the other.
LEMMA DoneFacts ==
    ASSUME NEW d \in Card, NEW ws \in Seq(Writes)
    PROVE  /\ Done(d, ws, 0) = d
           /\ \A k \in 0..Len(ws) : Done(d, ws, k) \in Card
           /\ \A k \in 1..Len(ws) : Done(d, ws, k) = Apply(Done(d, ws, k - 1), ws[k])
PROOF
  <1> DEFINE N == Len(ws)
             G == [k \in 1..N |-> [x \in Card |-> Apply(x, ws[k])]]
  <1>1. N \in Nat /\ \A k \in 1..N : ws[k] \in Writes
    OBVIOUS
  <1>2. \A k \in 1..N : \A x \in Card : G[k][x] = Apply(x, ws[k]) /\ G[k][x] \in Card
    BY <1>1, ApplyTyped
  <1>3. PICK f : f \in [0..N -> Card] /\ f[0] = d /\ \A k \in 1..N : f[k] = G[k][f[k - 1]]
    <2>1. Turns(N, Card, G)
      BY <1>2 DEF Turns
    <2> HIDE DEF G, N
    <2>2. PICK f : Loop(f, N, Card, d, G)
      BY <1>1, <2>1, LoopExists
    <2> QED  BY <2>2 DEF Loop
  <1> DEFINE P(h) == h = [k \in 0..Len(ws) |-> IF k = 0 THEN d ELSE Apply(h[k - 1], ws[k])]
             done[k \in 0..Len(ws)] == IF k = 0 THEN d ELSE Apply(done[k - 1], ws[k])
  <1>4. \A k \in 0..N : f[k] = IF k = 0 THEN d ELSE Apply(f[k - 1], ws[k])
    <2> TAKE k \in 0..N
    <2>1. CASE k = 0
      BY <1>3, <2>1
    <2>2. CASE k # 0
      <3>1. k \in 1..N /\ f[k - 1] \in Card
        BY <1>1, <1>3, <2>2
      <3> HIDE DEF G
      <3> QED  BY <1>2, <1>3, <2>2, <3>1
    <2> QED  BY <2>1, <2>2
  <1>5. P(f)
    BY <1>3, <1>4
  <1>6. done = CHOOSE h : P(h)
    OBVIOUS
  <1>7. P(done)
    <2> HIDE DEF P, done
    <2> QED  BY <1>5, <1>6
  <1>8. \A k : Done(d, ws, k) = done[k]
    BY DEF Done
  <1>9. DOMAIN done = 0..N /\ \A k \in 0..N : done[k] = IF k = 0 THEN d ELSE Apply(done[k - 1], ws[k])
    <2> HIDE DEF done
    <2> QED  BY <1>7
  <1> HIDE DEF done, P
  <1>10. done[0] = d /\ \A k \in 1..N : done[k] = Apply(done[k - 1], ws[k])
    BY <1>1, <1>9
  <1> DEFINE T == {k \in 0..N : done[k] \notin Card}
  <1>11. T = {}
    <2> SUFFICES ASSUME T # {} PROVE FALSE
      OBVIOUS
    <2>1. PICK m \in T : \A n \in T : m <= n
      <3>1. T \in SUBSET Nat
        OBVIOUS
      <3> HIDE DEF T
      <3> QED  BY <3>1, LeastMember
    <2>2. m \in 1..N /\ m - 1 \in 0..N /\ m - 1 \notin T
      BY <1>1, <1>10, <2>1
    <2>3. done[m - 1] \in Card
      BY <2>2
    <2> QED  BY <1>1, <1>10, <2>1, <2>2, <2>3, ApplyTyped
  <1> QED
    BY <1>8, <1>10, <1>11

\* What is still to do once the first write is done.
LEMMA DoneShift ==
    ASSUME NEW d \in Card, NEW ws \in Seq(Writes), ws # <<>>
    PROVE  /\ Tail(ws) \in Seq(Writes) /\ Len(Tail(ws)) = Len(ws) - 1
           /\ Apply(d, Head(ws)) = Done(d, ws, 1) /\ Apply(d, Head(ws)) \in Card
           /\ \A k \in 0..Len(ws) - 1 : Done(Apply(d, Head(ws)), Tail(ws), k) = Done(d, ws, k + 1)
PROOF
  <1> DEFINE t == Tail(ws)
             e == Apply(d, Head(ws))
             T == {k \in 0..Len(ws) - 1 : Done(e, t, k) # Done(d, ws, k + 1)}
  <1>1. /\ t \in Seq(Writes) /\ Len(t) = Len(ws) - 1 /\ Len(ws) \in Nat /\ Len(ws) >= 1
        /\ Head(ws) = ws[1] /\ ws[1] \in Writes /\ \A k \in 1..Len(t) : t[k] = ws[k + 1]
    OBVIOUS
  <1>2. e = Done(d, ws, 1) /\ e \in Card
    <2>1. Done(d, ws, 0) = d /\ Done(d, ws, 1) = Apply(Done(d, ws, 1 - 1), ws[1])
      BY <1>1, DoneFacts
    <2> QED  BY <1>1, <2>1, ApplyTyped
  <1> HIDE DEF t, e
  <1>3. /\ Done(e, t, 0) = e
        /\ \A k \in 1..Len(t) : Done(e, t, k) = Apply(Done(e, t, k - 1), t[k])
    BY <1>1, <1>2, DoneFacts
  <1>4. \A k \in 1..Len(ws) : Done(d, ws, k) = Apply(Done(d, ws, k - 1), ws[k])
    BY DoneFacts
  <1>5. T = {}
    <2> SUFFICES ASSUME T # {} PROVE FALSE
      OBVIOUS
    <2>1. PICK m \in T : \A n \in T : m <= n
      <3>1. T \in SUBSET Nat
        BY <1>1
      <3> HIDE DEF T
      <3> QED  BY <3>1, LeastMember
    <2>2. m # 0 /\ m \in 1..Len(t) /\ m - 1 \in 0..Len(ws) - 1 /\ m - 1 \notin T
      BY <1>1, <1>2, <1>3, <2>1
    <2>3. Done(e, t, m - 1) = Done(d, ws, m)
      BY <1>1, <2>2
    <2>4. Done(e, t, m) = Apply(Done(d, ws, m), ws[m + 1])
      BY <1>1, <1>3, <2>2, <2>3
    <2>5. m + 1 \in 1..Len(ws) /\ m + 1 - 1 = m
      BY <1>1, <2>2
    <2>6. Done(d, ws, m + 1) = Apply(Done(d, ws, m), ws[m + 1])
      BY <1>4, <2>5
    <2> QED  BY <2>1, <2>4, <2>6
  <1>6. \A k \in 0..Len(ws) - 1 : Done(e, t, k) = Done(d, ws, k + 1)
    BY <1>5
  <1> QED
    BY <1>1, <1>2, <1>6 DEF t, e

---------------------------------------------------------------------------
(* The card is sane: what its entries name exists and is nobody else's.    *)

\* The inodes that some cell names, in whatever block that cell is.
Named(d) == {n \in Inodes : \E b \in Blocks, j \in Cells :
                d.block[b][j].name \in Names /\ d.block[b][j].id = n}
\* The blocks in which directories keep their entries.
DirBlock(d, b) == b = ROOTBLOCK \/ \E n \in Named(d) : d.inode[n].type = "dir" /\ d.inode[n].block = b

\* The block of an inode of this type: block 0 may be a file's, once it is free.
Held(d, b, type) == b \in d.bmap \ {0, ROOTBLOCK} \/ (b = 0 /\ type = "file")

NamedExist(d) == \A n \in Named(d) :
    n \in d.imap \ {Root} /\ Fits(n) /\ Held(d, d.inode[n].block, d.inode[n].type)
NamedApart(d) == \A n, m \in Named(d) :
    n # m => d.inode[n].block # d.inode[m].block \/ d.inode[n].block = 0
NamedOnce(d) == \A b, c \in Blocks : \A j, k \in Cells :
    /\ d.block[b][j].name \in Names /\ d.block[c][k].name \in Names
    /\ d.block[b][j].id = d.block[c][k].id
    => b = c /\ j = k
NamedTyped(d) == \A b \in Blocks, j \in Cells :
    d.block[b][j].name \in Names => d.block[b][j].type = d.inode[d.block[b][j].id].type
\* Behind the dots there is data only in blocks that are no directory's and
\* will not be handed out.
Data(d, b) == \E j \in Cells : j >= 2 /\ d.block[b][j].name \notin Names \cup {""}
DataApart(d) == \A b \in Blocks : Data(d, b) => (b = 0 \/ b \in d.bmap) /\ ~DirBlock(d, b)

\* mkfs has made the root directory.
Settled(d) == /\ Root \in d.imap /\ ROOTBLOCK \in d.bmap
              /\ d.inode[Root].type = "dir" /\ d.inode[Root].block = ROOTBLOCK

Sane(d) == /\ d \in Card
           /\ NamedExist(d) /\ NamedApart(d) /\ NamedOnce(d) /\ NamedTyped(d) /\ DataApart(d)
           /\ d.inode[Root].type = "dir" => Settled(d)

\* A cell that names an inode.
LEMMA NamesIt ==
    ASSUME NEW d \in Card, NEW b \in Blocks, NEW j \in Cells
    PROVE  /\ d.block[b][j] \in CellT
           /\ d.block[b][j].name \in Names => d.block[b][j].id \in Named(d)
  BY DEF Card, CellT, Named

\* A write to the maps or to the inodes, which leaves alone what is named.
LEMMA SameBlocks ==
    ASSUME NEW d, Sane(d), NEW e \in Card, e.block = d.block,
           \A n \in Named(d) : /\ n \in e.imap /\ (d.inode[n].block \in e.bmap \/ d.inode[n].block = 0)
                               /\ e.inode[n].type = d.inode[n].type /\ e.inode[n].block = d.inode[n].block,
           \A b \in d.bmap \ e.bmap : b = 0 \/ ~Data(d, b),
           e.inode[Root].type = "dir" => Settled(e)
    PROVE  /\ Sane(e) /\ Named(e) = Named(d)
           /\ \A b : DirBlock(e, b) <=> DirBlock(d, b)
           /\ \A b : Data(e, b) <=> Data(d, b)
PROOF
  <1>1. Named(e) = Named(d)
    BY DEF Named
  <1>2. \A b : DirBlock(e, b) <=> DirBlock(d, b)
    BY <1>1 DEF DirBlock
  <1>3. \A b : Data(e, b) <=> Data(d, b)
    BY DEF Data
  <1>4. NamedExist(e) /\ NamedApart(e)
    BY <1>1 DEF Sane, NamedExist, NamedApart, Held
  <1>5. NamedOnce(e)
    BY DEF Sane, NamedOnce
  <1>6. NamedTyped(e)
    <2> SUFFICES ASSUME NEW b \in Blocks, NEW j \in Cells, d.block[b][j].name \in Names
                 PROVE  d.block[b][j].type = e.inode[d.block[b][j].id].type
      BY DEF NamedTyped
    <2>1. d.block[b][j].id \in Named(d)
      BY NamesIt DEF Sane
    <2> QED  BY <2>1 DEF Sane, NamedTyped
  <1>7. DataApart(e)
    BY <1>2, <1>3 DEF Sane, DataApart
  <1> QED
    BY <1>1, <1>2, <1>3, <1>4, <1>5, <1>6, <1>7 DEF Sane

\* A block's new contents c adds no entry.
AddsNone(d, B, c) == \A j \in Cells :
    \/ c[j] = d.block[B][j]
    \/ /\ c[j].name \notin Names
       /\ ~(j >= 2) \/ c[j].name = "" \/ ((B = 0 \/ B \in d.bmap) /\ ~DirBlock(d, B))

\* e is d with block B written.
Written(d, B, c, e) ==
    /\ e \in Card /\ e.imap = d.imap /\ e.bmap = d.bmap /\ e.inode = d.inode
    /\ e.block[B] = c /\ \A b \in Blocks \ {B} : e.block[b] = d.block[b]

LEMMA BlkWritten ==
    ASSUME NEW d \in Card, NEW B \in Blocks, NEW c \in [Cells -> CellT], NEW e, e = Apply(d, Blk(B, c))
    PROVE  Written(d, B, c, e) /\ Blk(B, c) \in Writes
PROOF
  <1>1. /\ e \in Card /\ e.imap = d.imap /\ e.bmap = d.bmap /\ e.inode = d.inode
        /\ e.block = [d.block EXCEPT ![B] = c]
    BY ApplyBlk
  <1>2. d.block \in [Blocks -> [Cells -> CellT]]
    BY DEF Card
  <1>3. Blk(B, c) \in Writes
    BY DEF Writes
  <1> QED
    BY <1>1, <1>2, <1>3 DEF Written

\* A write to a block that adds no entry.
LEMMA NoNewEntry ==
    ASSUME NEW d, Sane(d), NEW B \in Blocks, NEW c \in [Cells -> CellT],
           NEW e, Written(d, B, c, e), AddsNone(d, B, c)
    PROVE  /\ Sane(e) /\ Named(e) \subseteq Named(d)
           /\ \A b : DirBlock(e, b) => DirBlock(d, b)
PROOF
  <1> USE DEF Written
  <1>0. d \in Card /\ d.block \in [Blocks -> [Cells -> CellT]]
    BY DEF Sane, Card
  <1>1. \A b \in Blocks : e.block[b] = IF b = B THEN c ELSE d.block[b]
    BY <1>0
  <1>2. \A b \in Blocks, j \in Cells : e.block[b][j].name \in Names => e.block[b][j] = d.block[b][j]
    BY <1>1 DEF AddsNone
  <1>3. Named(e) \subseteq Named(d)
    <2> SUFFICES ASSUME NEW n \in Named(e) PROVE n \in Named(d)
      OBVIOUS
    <2>1. PICK b \in Blocks, j \in Cells : e.block[b][j].name \in Names /\ e.block[b][j].id = n
      BY DEF Named
    <2>2. d.block[b][j].name \in Names /\ d.block[b][j].id = n
      BY <1>2, <2>1
    <2> QED  BY <2>2 DEF Named
  <1>4. \A b : DirBlock(e, b) => DirBlock(d, b)
    BY <1>3 DEF DirBlock
  <1>5. NamedExist(e) /\ NamedApart(e)
    BY <1>3 DEF Sane, NamedExist, NamedApart, Held
  <1>6. NamedOnce(e)
    <2> SUFFICES ASSUME NEW b \in Blocks, NEW k \in Blocks, NEW i \in Cells, NEW j \in Cells,
                        e.block[b][i].name \in Names, e.block[k][j].name \in Names,
                        e.block[b][i].id = e.block[k][j].id
                 PROVE  b = k /\ i = j
      BY DEF NamedOnce
    <2>1. e.block[b][i] = d.block[b][i] /\ e.block[k][j] = d.block[k][j]
      BY <1>2
    <2> QED  BY <2>1 DEF Sane, NamedOnce
  <1>8. NamedTyped(e)
    <2> SUFFICES ASSUME NEW b \in Blocks, NEW j \in Cells, e.block[b][j].name \in Names
                 PROVE  e.block[b][j].type = d.inode[e.block[b][j].id].type
      BY DEF NamedTyped
    <2>1. e.block[b][j] = d.block[b][j]
      BY <1>2
    <2> QED  BY <2>1 DEF Sane, NamedTyped
  <1>7. DataApart(e)
    <2> SUFFICES ASSUME NEW b \in Blocks, NEW j \in Cells, j >= 2,
                        e.block[b][j].name \notin Names \cup {""}
                 PROVE  (b = 0 \/ b \in d.bmap) /\ ~DirBlock(d, b)
      BY <1>4 DEF DataApart, Data
    <2>1. CASE e.block[b][j] = d.block[b][j]
      BY <2>1 DEF Sane, DataApart, Data
    <2>2. CASE e.block[b][j] # d.block[b][j]
      <3>1. b = B /\ e.block[b][j] = c[j] /\ c[j] # d.block[B][j]
        BY <1>1, <2>2
      <3> QED  BY <3>1 DEF AddsNone
    <2> QED  BY <2>1, <2>2
  <1> QED
    BY <1>3, <1>4, <1>5, <1>6, <1>7, <1>8 DEF Sane, Settled

\* An entry for an inode that is in use, of this type, and that nobody names.
Fresh(d, x) ==
    /\ x.name \in Names /\ x.id \notin Named(d) /\ x.id \in d.imap \ {Root} /\ Fits(x.id)
    /\ d.inode[x.id].type = x.type /\ Held(d, d.inode[x.id].block, x.type)
    /\ \A n \in Named(d) : d.inode[n].block # d.inode[x.id].block \/ d.inode[n].block = 0
    /\ x.type = "dir" => ~Data(d, d.inode[x.id].block)

\* A write to a block that adds one entry, for an inode that nobody names.
LEMMA OneNewEntry ==
    ASSUME NEW d, Sane(d), NEW B \in Blocks, NEW at \in Cells, NEW x \in CellT,
           NEW e, Written(d, B, [d.block[B] EXCEPT ![at] = x], e), Fresh(d, x)
    PROVE  /\ Sane(e) /\ Named(e) \subseteq Named(d) \cup {x.id}
           /\ \A b : DirBlock(e, b) => DirBlock(d, b) \/ (x.type = "dir" /\ b = d.inode[x.id].block)
PROOF
  <1> USE DEF Written, Fresh
  <1>0. d \in Card /\ d.block \in [Blocks -> [Cells -> CellT]]
    BY DEF Sane, Card
  <1>1. \A b \in Blocks, j \in Cells : e.block[b][j] = IF b = B /\ j = at THEN x ELSE d.block[b][j]
    BY <1>0
  <1>2. Named(e) \subseteq Named(d) \cup {x.id}
    BY <1>1 DEF Named
  <1>3. \A b : DirBlock(e, b) => DirBlock(d, b) \/ (x.type = "dir" /\ b = d.inode[x.id].block)
    BY <1>2 DEF DirBlock
  <1>4. NamedExist(e) /\ NamedApart(e)
    BY <1>2 DEF Sane, NamedExist, NamedApart, Held
  <1>5. \A b \in Blocks, j \in Cells : d.block[b][j].name \in Names => d.block[b][j].id # x.id
    BY <1>0, NamesIt
  <1>6. NamedOnce(e)
    <2> SUFFICES ASSUME NEW b \in Blocks, NEW c \in Blocks, NEW j \in Cells, NEW k \in Cells,
                        e.block[b][j].name \in Names, e.block[c][k].name \in Names,
                        e.block[b][j].id = e.block[c][k].id
                 PROVE  b = c /\ j = k
      BY DEF NamedOnce
    <2>1. CASE (b = B /\ j = at) \/ (c = B /\ k = at)
      BY <1>1, <1>5, <2>1
    <2>2. CASE ~(b = B /\ j = at) /\ ~(c = B /\ k = at)
      <3>1. e.block[b][j] = d.block[b][j] /\ e.block[c][k] = d.block[c][k]
        BY <1>1, <2>2
      <3> QED  BY <3>1 DEF Sane, NamedOnce
    <2> QED  BY <2>1, <2>2
  <1>7. NamedTyped(e)
    BY <1>1 DEF Sane, NamedTyped
  <1>8. DataApart(e)
    <2> SUFFICES ASSUME NEW b \in Blocks, Data(e, b)
                 PROVE  (b = 0 \/ b \in d.bmap) /\ ~DirBlock(e, b)
      BY DEF DataApart
    <2>1. Data(d, b)
      BY <1>1 DEF Data
    <2>2. (b = 0 \/ b \in d.bmap) /\ ~DirBlock(d, b)
      BY <2>1 DEF Sane, DataApart
    <2> QED  BY <1>3, <2>1, <2>2
  <1> QED
    BY <1>2, <1>3, <1>4, <1>6, <1>7, <1>8 DEF Sane, Settled

---------------------------------------------------------------------------
(* The writes of a call: each of them leaves the card sane.                *)

\* From d, these writes lead to e, and the power may go off after any of them.
Leads(d, ws, e) == /\ ws \in Seq(Writes) /\ After(d, ws) = e
                   /\ \A k \in 0..Len(ws) : Sane(Done(d, ws, k))

LEMMA LeadsNowhere ==
    ASSUME NEW d, Sane(d)
    PROVE  Leads(d, <<>>, d)
PROOF
  <1>1. d \in Card /\ <<>> \in Seq(Writes) /\ Len(<<>>) = 0
    BY DEF Sane
  <1>2. Done(d, <<>>, 0) = d
    BY <1>1, DoneFacts
  <1> QED
    BY <1>1, <1>2 DEF Leads, After

\* One more write does not change what the card was after the others.
LEMMA DoneOn ==
    ASSUME NEW d \in Card, NEW ws \in Seq(Writes), NEW w \in Writes
    PROVE  LET v == Append(ws, w) IN
           /\ v \in Seq(Writes) /\ Len(v) = Len(ws) + 1
           /\ \A k \in 0..Len(ws) : Done(d, v, k) = Done(d, ws, k)
           /\ Done(d, v, Len(v)) = Apply(Done(d, ws, Len(ws)), w)
           /\ \A k \in 0..Len(v) : k \in 0..Len(ws) \/ k = Len(v)
PROOF
  <1> DEFINE v == Append(ws, w)
             T == {k \in 0..Len(ws) : Done(d, v, k) # Done(d, ws, k)}
  <1>1. /\ v \in Seq(Writes) /\ Len(ws) \in Nat /\ Len(v) = Len(ws) + 1
        /\ v[Len(ws) + 1] = w /\ \A k \in 1..Len(ws) : v[k] = ws[k]
    OBVIOUS
  <1> HIDE DEF v
  <1>2. Done(d, ws, 0) = d /\ \A k \in 1..Len(ws) : Done(d, ws, k) = Apply(Done(d, ws, k - 1), ws[k])
    BY DoneFacts
  <1>3. Done(d, v, 0) = d /\ \A k \in 1..Len(v) : Done(d, v, k) = Apply(Done(d, v, k - 1), v[k])
    BY <1>1, DoneFacts
  <1>4. T = {}
    <2> SUFFICES ASSUME T # {} PROVE FALSE
      OBVIOUS
    <2>1. PICK m \in T : \A n \in T : m <= n
      <3>1. T \in SUBSET Nat
        OBVIOUS
      <3> HIDE DEF T
      <3> QED  BY <3>1, LeastMember
    <2>2. m \in 1..Len(ws) /\ m - 1 \in 0..Len(ws) /\ m - 1 \notin T
      BY <1>1, <1>2, <1>3, <2>1
    <2>3. Done(d, v, m - 1) = Done(d, ws, m - 1)
      BY <2>2
    <2>4. m \in 1..Len(v) /\ v[m] = ws[m]
      BY <1>1, <2>2
    <2>5. Done(d, v, m) = Done(d, ws, m)
      BY <1>2, <1>3, <2>2, <2>3, <2>4
    <2> QED  BY <2>1, <2>5
  <1>5. \A k \in 0..Len(ws) : Done(d, v, k) = Done(d, ws, k)
    BY <1>4
  <1>6. Done(d, v, Len(v)) = Apply(Done(d, ws, Len(ws)), w)
    <2>1. Len(v) \in 1..Len(v) /\ Len(v) - 1 = Len(ws) /\ v[Len(v)] = w /\ Len(ws) \in 0..Len(ws)
      BY <1>1
    <2> QED  BY <1>3, <1>5, <2>1
  <1>7. \A k \in 0..Len(v) : k \in 0..Len(ws) \/ k = Len(v)
    BY <1>1
  <1> QED
    BY <1>1, <1>5, <1>6, <1>7 DEF v

\* One more write.
LEMMA LeadsOn ==
    ASSUME NEW d \in Card, NEW ws, NEW e, Leads(d, ws, e), NEW w \in Writes, Sane(Apply(e, w))
    PROVE  Leads(d, Append(ws, w), Apply(e, w))
PROOF
  <1> DEFINE v == Append(ws, w)
  <1>1. ws \in Seq(Writes) /\ Done(d, ws, Len(ws)) = e /\ \A k \in 0..Len(ws) : Sane(Done(d, ws, k))
    BY DEF Leads, After
  <1>2. /\ v \in Seq(Writes) /\ \A k \in 0..Len(ws) : Done(d, v, k) = Done(d, ws, k)
        /\ Done(d, v, Len(v)) = Apply(e, w)
        /\ \A k \in 0..Len(v) : k \in 0..Len(ws) \/ k = Len(v)
    BY <1>1, DoneOn
  <1> HIDE DEF v
  <1>3. \A k \in 0..Len(v) : Sane(Done(d, v, k))
    BY <1>1, <1>2
  <1>4. Leads(d, v, Apply(e, w))
    BY <1>2, <1>3 DEF Leads, After
  <1> QED
    BY <1>4 DEF v

\* A list of writes, one write longer.
LEMMA Append2 ==
    ASSUME NEW S, NEW a \in S, NEW b \in S
    PROVE  Append(<<a>>, b) = <<a, b>>
PROOF
  <1>1. <<a>> \in Seq(S) /\ Len(<<a>>) = 1 /\ <<a>>[1] = a
    OBVIOUS
  <1>2. <<a, b>> \in Seq(S) /\ Len(<<a, b>>) = 2 /\ <<a, b>>[1] = a /\ <<a, b>>[2] = b
    OBVIOUS
  <1>3. Append(<<a>>, b) \in Seq(S) /\ Len(Append(<<a>>, b)) = 2
    BY <1>1
  <1>4. \A i \in 1..2 : Append(<<a>>, b)[i] = <<a, b>>[i]
    BY <1>1, <1>2
  <1> QED
    BY <1>2, <1>3, <1>4, SeqEqual

LEMMA Append3 ==
    ASSUME NEW S, NEW a \in S, NEW b \in S, NEW c \in S
    PROVE  Append(<<a, b>>, c) = <<a, b, c>>
PROOF
  <1>1. <<a, b>> \in Seq(S) /\ Len(<<a, b>>) = 2 /\ <<a, b>>[1] = a /\ <<a, b>>[2] = b
    OBVIOUS
  <1>2. <<a, b, c>> \in Seq(S) /\ Len(<<a, b, c>>) = 3 /\ <<a, b, c>>[1] = a /\ <<a, b, c>>[2] = b /\ <<a, b, c>>[3] = c
    OBVIOUS
  <1>3. Append(<<a, b>>, c) \in Seq(S) /\ Len(Append(<<a, b>>, c)) = 3
    BY <1>1
  <1>4. \A i \in 1..3 : Append(<<a, b>>, c)[i] = <<a, b, c>>[i]
    BY <1>1, <1>2
  <1> QED
    BY <1>2, <1>3, <1>4, SeqEqual

LEMMA Append4 ==
    ASSUME NEW S, NEW a \in S, NEW b \in S, NEW c \in S, NEW d \in S
    PROVE  Append(<<a, b, c>>, d) = <<a, b, c, d>>
PROOF
  <1>1. <<a, b, c>> \in Seq(S) /\ Len(<<a, b, c>>) = 3 /\ <<a, b, c>>[1] = a /\ <<a, b, c>>[2] = b /\ <<a, b, c>>[3] = c
    OBVIOUS
  <1>2. <<a, b, c, d>> \in Seq(S) /\ Len(<<a, b, c, d>>) = 4 /\ <<a, b, c, d>>[1] = a /\ <<a, b, c, d>>[2] = b /\ <<a, b, c, d>>[3] = c /\ <<a, b, c, d>>[4] = d
    OBVIOUS
  <1>3. Append(<<a, b, c>>, d) \in Seq(S) /\ Len(Append(<<a, b, c>>, d)) = 4
    BY <1>1
  <1>4. \A i \in 1..4 : Append(<<a, b, c>>, d)[i] = <<a, b, c, d>>[i]
    BY <1>1, <1>2
  <1> QED
    BY <1>2, <1>3, <1>4, SeqEqual

LEMMA Append5 ==
    ASSUME NEW S, NEW a \in S, NEW b \in S, NEW c \in S, NEW d \in S, NEW e \in S
    PROVE  Append(<<a, b, c, d>>, e) = <<a, b, c, d, e>>
PROOF
  <1>1. <<a, b, c, d>> \in Seq(S) /\ Len(<<a, b, c, d>>) = 4 /\ <<a, b, c, d>>[1] = a /\ <<a, b, c, d>>[2] = b /\ <<a, b, c, d>>[3] = c /\ <<a, b, c, d>>[4] = d
    OBVIOUS
  <1>2. <<a, b, c, d, e>> \in Seq(S) /\ Len(<<a, b, c, d, e>>) = 5 /\ <<a, b, c, d, e>>[1] = a /\ <<a, b, c, d, e>>[2] = b /\ <<a, b, c, d, e>>[3] = c /\ <<a, b, c, d, e>>[4] = d /\ <<a, b, c, d, e>>[5] = e
    OBVIOUS
  <1>3. Append(<<a, b, c, d>>, e) \in Seq(S) /\ Len(Append(<<a, b, c, d>>, e)) = 5
    BY <1>1
  <1>4. \A i \in 1..5 : Append(<<a, b, c, d>>, e)[i] = <<a, b, c, d, e>>[i]
    BY <1>1, <1>2
  <1> QED
    BY <1>2, <1>3, <1>4, SeqEqual

LEMMA LeadsOne ==
    ASSUME NEW d, Sane(d), NEW w \in Writes, Sane(Apply(d, w))
    PROVE  Leads(d, <<w>>, Apply(d, w))
PROOF
  <1>1. Leads(d, Append(<<>>, w), Apply(d, w))
    BY LeadsNowhere, LeadsOn DEF Sane
  <1> QED
    BY <1>1

\* What e names, d names with the same block, or it has one of these blocks.
Stem(d, e, N) == \A n \in Named(e) : \/ n \in Named(d) /\ e.inode[n].block = d.inode[n].block
                                     \/ e.inode[n].block \in N
\* These writes, and wherever the power goes off, hand out no other blocks.
LeadsBy(N, d, ws, e) == Leads(d, ws, e) /\ \A k \in 0..Len(ws) : Stem(d, Done(d, ws, k), N)

LEMMA LeadsByNowhere ==
    ASSUME NEW d, Sane(d), NEW N
    PROVE  LeadsBy(N, d, <<>>, d)
PROOF
  <1>1. d \in Card /\ <<>> \in Seq(Writes) /\ Len(<<>>) = 0
    BY DEF Sane
  <1>2. Done(d, <<>>, 0) = d
    BY <1>1, DoneFacts
  <1>3. \A k \in 0..Len(<<>>) : k = 0
    BY <1>1
  <1> QED
    BY <1>2, <1>3, LeadsNowhere DEF LeadsBy, Stem

LEMMA LeadsByOn ==
    ASSUME NEW d \in Card, NEW N, NEW ws, NEW e, LeadsBy(N, d, ws, e), NEW w \in Writes,
           Sane(Apply(e, w)), Stem(d, Apply(e, w), N)
    PROVE  LeadsBy(N, d, Append(ws, w), Apply(e, w))
PROOF
  <1> DEFINE v == Append(ws, w)
  <1>1. ws \in Seq(Writes) /\ Done(d, ws, Len(ws)) = e /\ \A k \in 0..Len(ws) : Stem(d, Done(d, ws, k), N)
    BY DEF LeadsBy, Leads, After
  <1>2. /\ \A k \in 0..Len(ws) : Done(d, v, k) = Done(d, ws, k)
        /\ Done(d, v, Len(v)) = Apply(e, w)
        /\ \A k \in 0..Len(v) : k \in 0..Len(ws) \/ k = Len(v)
    BY <1>1, DoneOn
  <1>3. Leads(d, v, Apply(e, w))
    BY LeadsOn DEF LeadsBy
  <1> HIDE DEF v
  <1>4. \A k \in 0..Len(v) : Stem(d, Done(d, v, k), N)
    BY <1>1, <1>2
  <1>5. LeadsBy(N, d, v, Apply(e, w))
    BY <1>3, <1>4 DEF LeadsBy
  <1> QED
    BY <1>5 DEF v

LEMMA LeadsByOne ==
    ASSUME NEW d, Sane(d), NEW N, NEW w \in Writes, Sane(Apply(d, w)), Stem(d, Apply(d, w), N)
    PROVE  LeadsBy(N, d, <<w>>, Apply(d, w))
PROOF
  <1>1. LeadsBy(N, d, Append(<<>>, w), Apply(d, w))
    BY LeadsByNowhere, LeadsByOn DEF Sane
  <1> QED
    BY <1>1

LEMMA WritesTyped ==
    /\ \A s \in SUBSET Inodes : Imap(s) \in Writes
    /\ \A s \in SUBSET Blocks : Bmap(s) \in Writes
    /\ \A n \in Inodes, r \in InodeT : Ino(n, r) \in Writes
    /\ \A b \in Blocks, c \in [Cells -> CellT] : Blk(b, c) \in Writes
  BY DEF Writes

\* An inode read from a sane card.
LEMMA ReadTyped ==
    ASSUME NEW d \in Card, NEW n \in Inodes
    PROVE  /\ ReadInode(d, n) \in InodeT
           /\ Fits(n) => ReadInode(d, n) = d.inode[n]
           /\ ReadInode(d, n).block \in Blocks /\ ReadInode(d, n).dnum \in Int
           /\ d.inode[n] \in InodeT /\ d.inode[n].block \in Blocks
           /\ \A x \in Int : /\ [ReadInode(d, n) EXCEPT !.dnum = x] \in InodeT
                             /\ [ReadInode(d, n) EXCEPT !.size = x] \in InodeT
PROOF
  <1>1. d.inode[n] \in InodeT
    BY DEF Card
  <1>2. ZeroInode \in InodeT
    BY Numbers DEF ZeroInode, InodeT, Types
  <1>3. ReadInode(d, n) \in InodeT
    BY <1>1, <1>2 DEF ReadInode
  <1> QED
    BY <1>1, <1>3 DEF ReadInode, InodeT

\* An inode written back with another count or size.
LEMMA Rewrite ==
    ASSUME NEW d, Sane(d), NEW n \in Inodes, NEW r \in InodeT,
           Fits(n) => r.type = d.inode[n].type /\ r.block = d.inode[n].block,
           NEW e, e = Apply(d, Ino(n, r))
    PROVE  /\ Sane(e) /\ Named(e) = Named(d)
           /\ \A b : (DirBlock(e, b) <=> DirBlock(d, b)) /\ (Data(e, b) <=> Data(d, b))
           /\ e.imap = d.imap /\ e.bmap = d.bmap /\ e.block = d.block
           /\ \A m \in Inodes : e.inode[m].type = d.inode[m].type /\ e.inode[m].block = d.inode[m].block
PROOF
  <1>1. d \in Card
    BY DEF Sane
  <1>2. /\ e \in Card /\ e.imap = d.imap /\ e.bmap = d.bmap /\ e.block = d.block
        /\ e.inode = IF Fits(n) THEN [d.inode EXCEPT ![n] = r] ELSE d.inode
    BY <1>1, ApplyIno
  <1>3. \A m \in Inodes : e.inode[m].type = d.inode[m].type /\ e.inode[m].block = d.inode[m].block
    BY <1>1, <1>2 DEF Card
  <1>4. \A m \in Named(d) : /\ m \in e.imap /\ (d.inode[m].block \in e.bmap \/ d.inode[m].block = 0)
                            /\ e.inode[m].type = d.inode[m].type /\ e.inode[m].block = d.inode[m].block
    BY <1>2, <1>3 DEF Sane, NamedExist, Held, Named
  <1>5. e.inode[Root].type = "dir" => Settled(e)
    BY <1>2, <1>3, Numbers DEF Sane, Settled
  <1>6. \A b \in d.bmap \ e.bmap : b = 0 \/ ~Data(d, b)
    BY <1>2
  <1>7. Sane(e) /\ Named(e) = Named(d) /\ (\A b : DirBlock(e, b) <=> DirBlock(d, b)) /\ \A b : Data(e, b) <=> Data(d, b)
    <2>1. e \in Card /\ e.block = d.block
      BY <1>2
    <2> QED  BY <1>4, <1>5, <1>6, <2>1, SameBlocks
  <1> QED
    BY <1>2, <1>3, <1>7

\* The number that alloc_inode and alloc_block hand out was free.
LEMMA FreeFacts ==
    ASSUME NEW d \in Card
    PROVE  /\ d.imap # Inodes => FirstFree(d.imap, Inodes) \in Inodes \ d.imap
           /\ d.bmap # Blocks => FirstFree(d.bmap, Blocks) \in Blocks \ d.bmap
PROOF
  <1>1. d.imap \subseteq Inodes /\ d.bmap \subseteq Blocks
    BY DEF Card
  <1>2. \A U, V : U \subseteq V /\ U # V => V \ U # {}
    OBVIOUS
  <1>3. d.imap # Inodes => Min(Inodes \ d.imap) \in Inodes \ d.imap
    BY <1>1, <1>2, Numbers, MinFacts
  <1>4. d.bmap # Blocks => Min(Blocks \ d.bmap) \in Blocks \ d.bmap
    BY <1>1, <1>2, Numbers, MinFacts
  <1> QED
    BY <1>3, <1>4 DEF FirstFree

\* The dots, and what else a call writes into a cell.
LEMMA CellsTyped ==
    /\ EmptyCell \in CellT /\ EmptyCell.name = ""
    /\ Super \in CellT /\ Super.name = "super"
    /\ \A n \in Inodes : Cell("..", n, "dir") \in CellT /\ Cell(".", n, "dir") \in CellT
    /\ \A n \in Inodes : Cell("..", n, "dir").name = ".." /\ Cell(".", n, "dir").name = "."
    /\ \A x \in ToSet(Plane) : Cell(x, 0, "file") \in CellT /\ Cell(x, 0, "file").name = x
  BY Numbers DEF EmptyCell, Super, Cell, CellT, Marks, Types

LEMMA EntryTyped ==
    ASSUME NEW x \in Names, NEW n \in Inodes, NEW t \in Types
    PROVE  /\ Cell(x, n, t) \in CellT
           /\ Cell(x, n, t).name = x /\ Cell(x, n, t).id = n /\ Cell(x, n, t).type = t
  BY DEF Cell, CellT

\* init_inode writes one entry, or none when the directory counts too many.
PutsOne(c, x, r) == \E at \in Cells : r = [c EXCEPT ![at] = x]
LEMMA PutFacts ==
    ASSUME NEW c \in [Cells -> CellT], NEW n \in Int, NEW x \in CellT
    PROVE  /\ PutEntry(c, n, x) \in [Cells -> CellT]
           /\ PutEntry(c, n, x) = c \/ PutsOne(c, x, PutEntry(c, n, x))
PROOF
  <1> DEFINE hole == {j \in 0..n - 1 : j \in Cells => c[j].name = ""}
             at   == IF hole = {} THEN n - 1 ELSE Min(hole)
  <1>1. PutEntry(c, n, x) = IF at \in Cells THEN [c EXCEPT ![at] = x] ELSE c
    BY DEF PutEntry
  <1> HIDE DEF at
  <1> QED
    BY <1>1 DEF PutsOne

\* init_block writes no entry.
LEMMA DotsFacts ==
    ASSUME NEW d \in Card, NEW B \in Blocks, NEW n \in Inodes, NEW m \in Inodes
    PROVE  /\ Dots(d.block[B], n, m) \in [Cells -> CellT]
           /\ AddsNone(d, B, Dots(d.block[B], n, m))
PROOF
  <1> DEFINE c == Dots(d.block[B], n, m)
  <1>1. d.block[B] \in [Cells -> CellT]
    BY DEF Card
  <1>2. c = [[d.block[B] EXCEPT ![0] = Cell("..", n, "dir")] EXCEPT ![1] = Cell(".", m, "dir")]
    BY DEF Dots
  <1>3. c \in [Cells -> CellT]
    <2>1. Cell("..", n, "dir") \in CellT /\ Cell(".", m, "dir") \in CellT
      BY CellsTyped
    <2> QED  BY <1>1, <1>2, <2>1
  <1> HIDE DEF c
  <1>4. /\ c[0] = Cell("..", n, "dir") /\ c[1] = Cell(".", m, "dir")
        /\ \A j \in Cells \ {0, 1} : c[j] = d.block[B][j]
    BY <1>1, <1>2, Numbers
  <1>5. c[0].name = ".." /\ c[1].name = "."
    BY <1>4, CellsTyped
  <1>6. AddsNone(d, B, c)
    <2>1. \A j \in Cells : ~(j >= 2) \/ j \in Cells \ {0, 1}
      BY Numbers
    <2>2. c[0].name \notin Names /\ c[1].name \notin Names
      BY <1>5, NamesApart
    <2>3. ~(0 >= 2) /\ ~(1 >= 2)
      OBVIOUS
    <2> QED  BY <1>4, <2>1, <2>2, <2>3 DEF AddsNone
  <1> QED
    BY <1>3, <1>6 DEF c

\* This write changes no other inode than one of N and no other block than one of M.
Hits(w, N, M) == (w.what = "inode" => w.at \in N) /\ (w.what = "block" => w.at \in M)
Touches(ws, N, M) == \A i \in 1..Len(ws) : Hits(ws[i], N, M)

LEMMA TouchesNone ==
    ASSUME NEW N, NEW M
    PROVE  <<>> \in Seq(Writes) /\ Touches(<<>>, N, M)
  BY DEF Touches

LEMMA HitsFacts ==
    ASSUME NEW N, NEW M
    PROVE  /\ \A s : Hits(Imap(s), N, M) /\ Hits(Bmap(s), N, M)
           /\ \A n \in N : \A r : Hits(Ino(n, r), N, M)
           /\ \A b \in M : \A c : Hits(Blk(b, c), N, M)
PROOF
  <1>1. \A s : Imap(s).what = "imap" /\ Bmap(s).what = "bmap"
    BY DEF Imap, Bmap
  <1>2. \A n, r : Ino(n, r).what = "inode" /\ Ino(n, r).at = n
    BY DEF Ino
  <1>3. \A b, c : Blk(b, c).what = "block" /\ Blk(b, c).at = b
    BY DEF Blk
  <1> QED
    BY <1>1, <1>2, <1>3 DEF Hits

LEMMA TouchesOn ==
    ASSUME NEW N, NEW M, NEW ws \in Seq(Writes), Touches(ws, N, M), NEW w \in Writes, Hits(w, N, M)
    PROVE  Append(ws, w) \in Seq(Writes) /\ Touches(Append(ws, w), N, M)
PROOF
  <1> DEFINE v == Append(ws, w)
  <1>1. /\ Len(v) = Len(ws) + 1 /\ Len(ws) \in Nat /\ v[Len(ws) + 1] = w /\ v \in Seq(Writes)
        /\ \A i \in 1..Len(ws) : v[i] = ws[i]
    OBVIOUS
  <1> HIDE DEF v
  <1>2. \A i \in 1..Len(v) : i \in 1..Len(ws) \/ i = Len(ws) + 1
    BY <1>1
  <1>3. Touches(v, N, M)
    BY <1>1, <1>2 DEF Touches
  <1> QED
    BY <1>1, <1>3 DEF v

\* What the card is when an entry was made.
Made(d, e, ws, father, name, type) ==
    LET self == FirstFree(d.imap, Inodes)
        b    == FirstFree(d.bmap, Blocks)
        f    == d.inode[father]
    IN /\ self \in Inodes \ d.imap /\ b \in Blocks \ d.bmap /\ e.imap = d.imap \cup {self}
       /\ e.inode[self] = NewInode(type, b) /\ e.inode[father] = [f EXCEPT !.dnum = @ + 1]
       /\ \A n \in Inodes \ {self, father} : e.inode[n] = d.inode[n]
       /\ e.block[f.block] = PutEntry(d.block[f.block], f.dnum + 1, Cell(name, self, type))
       /\ e.block[b] = IF type = "dir" THEN Dots(d.block[b], father, self) ELSE d.block[b]
       /\ \A c \in Blocks \ {f.block, b} : e.block[c] = d.block[c]
       /\ Touches(ws, {self, father}, {f.block, b})

\* A directory that mkdir makes and a file that touch or fopen makes.
Created(d, e, type) ==
    LET self == FirstFree(d.imap, Inodes)
        b    == FirstFree(d.bmap, Blocks)
    IN /\ Settled(e) /\ self \in Inodes /\ b \in Blocks
       /\ Fits(self) /\ e.inode[self].block = b
       /\ e.bmap = d.bmap \cup {b} /\ b \notin d.bmap
       /\ \A c : DirBlock(e, c) => DirBlock(d, c) \/ (type = "dir" /\ c = b)
       /\ ~DirBlock(d, b)

LEMMA CreateLeads ==
    ASSUME NEW d, Sane(d), Settled(d), d.imap # Inodes, d.bmap # Blocks,
           NEW father \in Inodes, NEW name \in Names, NEW type \in Types,
           Fits(FirstFree(d.imap, Inodes)), type = "dir" => 0 \in d.bmap
    PROVE  \E e : /\ Leads(d, Create(d, father, name, type), e) /\ Created(d, e, type)
                  /\ LeadsBy({FirstFree(d.bmap, Blocks)}, d, Create(d, father, name, type), e)
                  /\ father \in d.imap /\ Fits(father) /\ d.inode[father].block \in d.bmap
                     => Made(d, e, Create(d, father, name, type), father, name, type)
PROOF
  <1> DEFINE self == FirstFree(d.imap, Inodes)
             b    == FirstFree(d.bmap, Blocks)
             s1   == d.imap \cup {self}
             s2   == d.bmap \cup {b}
             r3   == NewInode(type, b)
             e1   == Apply(d, Imap(s1))
             e2   == Apply(e1, Bmap(s2))
             e3   == Apply(e2, Ino(self, r3))
             ino  == ReadInode(e3, father)
             r4   == [ino EXCEPT !.dnum = @ + 1]
             e4   == Apply(e3, Ino(father, r4))
             x    == Cell(name, self, type)
             c5   == PutEntry(e3.block[ino.block], ino.dnum + 1, x)
             e5   == Apply(e4, Blk(ino.block, c5))
             c6   == Dots(e5.block[b], father, self)
             e6   == Apply(e5, Blk(b, c6))
             w1   == <<Imap(s1), Bmap(s2), Ino(self, r3)>>
             w2   == <<Ino(father, r4), Blk(ino.block, c5)>>
  <1>0. d \in Card /\ self \in Inodes \ d.imap /\ b \in Blocks \ d.bmap /\ Fits(self)
    BY FreeFacts DEF Sane
  <1>01. /\ self # Root /\ self \notin Named(d) /\ b # ROOTBLOCK /\ ~DirBlock(d, b)
         /\ b = 0 => type = "file"
         /\ type = "dir" => ~Data(d, b)
    <2>1. self # Root /\ self \notin Named(d) /\ b # ROOTBLOCK /\ ~DirBlock(d, b)
      BY <1>0, Numbers DEF Sane, Settled, NamedExist, Held, DirBlock
    <2>2. b = 0 => type # "dir"
      BY <1>0
    <2>3. type = "dir" => ~Data(d, b)
      BY <1>0, <2>2 DEF Sane, DataApart
    <2> QED  BY <2>1, <2>2, <2>3 DEF Types
  <1> HIDE DEF self, b
  <1>1. /\ e1 \in Card /\ e1.imap = s1 /\ e1.bmap = d.bmap /\ e1.inode = d.inode /\ e1.block = d.block
        /\ Imap(s1) \in Writes
    <2>1. s1 \in SUBSET Inodes
      BY <1>0 DEF Card
    <2> HIDE DEF s1
    <2> QED  BY <1>0, <2>1, ApplyImap, WritesTyped
  <1>2. Sane(e1) /\ Named(e1) = Named(d) /\ (\A c : DirBlock(e1, c) <=> DirBlock(d, c)) /\ \A c : Data(e1, c) <=> Data(d, c)
    <2> HIDE DEF e1
    <2> QED  BY <1>1, SameBlocks DEF Sane, NamedExist, Held, Settled
  <1> HIDE DEF e1
  <1>3. /\ e2 \in Card /\ e2.imap = s1 /\ e2.bmap = s2 /\ e2.inode = d.inode /\ e2.block = d.block
        /\ Bmap(s2) \in Writes
    <2>1. s2 \in SUBSET Blocks
      BY <1>0 DEF Card
    <2> HIDE DEF s2, s1
    <2> QED  BY <1>1, <2>1, ApplyBmap, WritesTyped
  <1>4. Sane(e2) /\ Named(e2) = Named(d) /\ (\A c : DirBlock(e2, c) <=> DirBlock(d, c)) /\ \A c : Data(e2, c) <=> Data(d, c)
    <2> HIDE DEF e2
    <2>1. \A n \in Named(e1) : n \in e2.imap /\ (e1.inode[n].block \in e2.bmap \/ e1.inode[n].block = 0)
      BY <1>1, <1>2, <1>3 DEF Sane, NamedExist, Held
    <2>2. e2.inode[Root].type = "dir" => Settled(e2)
      BY <1>1, <1>2, <1>3 DEF Settled
    <2> QED  BY <1>1, <1>2, <1>3, <2>1, <2>2, SameBlocks
  <1> HIDE DEF e2
  <1>5. r3 \in InodeT /\ r3.type = type /\ r3.block = b
    BY <1>0 DEF NewInode, InodeT
  <1> HIDE DEF r3
  <1>6. /\ e3 \in Card /\ e3.imap = s1 /\ e3.bmap = s2 /\ e3.block = d.block
        /\ e3.inode = [d.inode EXCEPT ![self] = r3] /\ Ino(self, r3) \in Writes
    <2> HIDE DEF s1, s2
    <2> QED  BY <1>0, <1>3, <1>5, ApplyIno, WritesTyped
  <1>7. e3.inode[self] = r3 /\ \A n \in Inodes \ {self} : e3.inode[n] = d.inode[n]
    <2> HIDE DEF e3
    <2> QED  BY <1>0, <1>6 DEF Card
  <1>8. Sane(e3) /\ Named(e3) = Named(d) /\ (\A c : DirBlock(e3, c) <=> DirBlock(d, c)) /\ \A c : Data(e3, c) <=> Data(d, c)
    <2> HIDE DEF e3, s1, s2
    <2>1. \A n \in Named(e2) : /\ n \in e3.imap /\ (e2.inode[n].block \in e3.bmap \/ e2.inode[n].block = 0)
                               /\ e3.inode[n].type = e2.inode[n].type /\ e3.inode[n].block = e2.inode[n].block
      BY <1>01, <1>3, <1>4, <1>6, <1>7 DEF Sane, NamedExist, Held, Named
    <2>2. e3.inode[Root].type = "dir" => Settled(e3)
      BY <1>01, <1>3, <1>4, <1>6, <1>7, Numbers DEF Sane, Settled
    <2> QED  BY <1>3, <1>4, <1>6, <2>1, <2>2, SameBlocks
  <1> HIDE DEF e3
  <1>9. ino.block \in Blocks /\ ino.dnum \in Int /\ r4 \in InodeT
        /\ (Fits(father) => r4.type = e3.inode[father].type /\ r4.block = e3.inode[father].block)
    <2>1. ino \in InodeT /\ (Fits(father) => ino = e3.inode[father])
      BY <1>6, ReadTyped
    <2> HIDE DEF ino
    <2>2. r4.type = ino.type /\ r4.block = ino.block /\ r4 \in InodeT /\ ino.block \in Blocks /\ ino.dnum \in Int
      BY <2>1 DEF InodeT
    <2> QED  BY <2>1, <2>2
  <1> HIDE DEF ino, r4
  <1>10. /\ Sane(e4) /\ Named(e4) = Named(d)
         /\ \A c : (DirBlock(e4, c) <=> DirBlock(d, c)) /\ (Data(e4, c) <=> Data(d, c))
         /\ e4.imap = s1 /\ e4.bmap = s2 /\ e4.block = d.block
         /\ \A m \in Inodes : e4.inode[m].type = e3.inode[m].type /\ e4.inode[m].block = e3.inode[m].block
         /\ Ino(father, r4) \in Writes /\ e4 \in Card
    <2>1. e4 = Apply(e3, Ino(father, r4)) /\ Ino(father, r4) \in Writes
      BY <1>9, WritesTyped
    <2> HIDE DEF e4, s1, s2
    <2>2. /\ Sane(e4) /\ Named(e4) = Named(e3)
          /\ \A c : (DirBlock(e4, c) <=> DirBlock(e3, c)) /\ (Data(e4, c) <=> Data(e3, c))
          /\ e4.imap = e3.imap /\ e4.bmap = e3.bmap /\ e4.block = e3.block
          /\ \A m \in Inodes : e4.inode[m].type = e3.inode[m].type /\ e4.inode[m].block = e3.inode[m].block
      BY <1>8, <1>9, <2>1, Rewrite
    <2> QED  BY <1>6, <1>8, <2>1, <2>2 DEF Sane
  <1> HIDE DEF e4
  <1>11. x \in CellT /\ x.name = name /\ x.id = self /\ x.type = type
    BY <1>0, EntryTyped
  <1> HIDE DEF x
  <1>12. /\ c5 \in [Cells -> CellT]
         /\ c5 = d.block[ino.block] \/ PutsOne(d.block[ino.block], x, c5)
    <2>1. d.block[ino.block] \in [Cells -> CellT] /\ ino.dnum + 1 \in Int
      BY <1>0, <1>9 DEF Card
    <2> QED  BY <1>6, <1>11, <2>1, PutFacts
  <1> HIDE DEF c5
  <1>13. Written(e4, ino.block, c5, e5) /\ Blk(ino.block, c5) \in Writes
    BY <1>9, <1>10, <1>12, BlkWritten
  <1>14. e5 \in Card /\ e5.imap = s1 /\ e5.bmap = s2 /\ e5.inode = e4.inode
    <2> HIDE DEF s1, s2
    <2> QED  BY <1>10, <1>13 DEF Written
  <1>15. /\ Sane(e5) /\ (\A c : DirBlock(e5, c) => DirBlock(d, c) \/ (type = "dir" /\ c = b))
         /\ Named(e5) \subseteq Named(d) \cup {self}
    <2> HIDE DEF e5, s1, s2
    <2>1. CASE c5 = d.block[ino.block]
      <3>1. AddsNone(e4, ino.block, c5)
        BY <1>10, <2>1 DEF AddsNone
      <3>2. Sane(e5) /\ Named(e5) \subseteq Named(e4) /\ \A c : DirBlock(e5, c) => DirBlock(e4, c)
        BY <1>9, <1>10, <1>12, <1>13, <3>1, NoNewEntry
      <3> QED  BY <1>10, <3>2
    <2>2. CASE PutsOne(d.block[ino.block], x, c5)
      <3>1. PICK at \in Cells : c5 = [e4.block[ino.block] EXCEPT ![at] = x]
        BY <1>10, <2>2 DEF PutsOne
      <3>2. e4.inode[self].type = type /\ e4.inode[self].block = b
        BY <1>0, <1>5, <1>7, <1>10
      <3>3. \A n \in Named(d) : n \in Inodes /\ n # self /\ (d.inode[n].block # b \/ d.inode[n].block = 0)
        BY <1>0, <1>01 DEF Sane, NamedExist, Held, Named
      <3>4. \A n \in Named(e4) : e4.inode[n].block # b \/ e4.inode[n].block = 0
        BY <1>7, <1>10, <3>3
      <3>5. self \in e4.imap /\ b \in e4.bmap
        BY <1>10 DEF s1, s2
      <3>6. Fresh(e4, x)
        BY <1>0, <1>01, <1>10, <1>11, <3>2, <3>4, <3>5 DEF Fresh, Held
      <3>7. /\ Sane(e5) /\ Named(e5) \subseteq Named(e4) \cup {x.id}
            /\ \A c : DirBlock(e5, c) => DirBlock(e4, c) \/ (x.type = "dir" /\ c = e4.inode[x.id].block)
        BY <1>9, <1>10, <1>11, <1>13, <3>1, <3>6, OneNewEntry
      <3> QED  BY <1>10, <1>11, <3>2, <3>7
    <2> QED  BY <1>12, <2>1, <2>2
  <1> HIDE DEF e5
  <1>16. /\ c6 \in [Cells -> CellT] /\ AddsNone(e5, b, c6)
    BY <1>0, <1>14, DotsFacts
  <1> HIDE DEF c6
  <1>17. Written(e5, b, c6, e6) /\ Blk(b, c6) \in Writes
    BY <1>0, <1>14, <1>16, BlkWritten
  <1>170. e6 \in Card /\ e6.imap = s1 /\ e6.bmap = s2 /\ e6.inode = e4.inode
    <2> HIDE DEF s1, s2
    <2> QED  BY <1>14, <1>17 DEF Written
  <1>18. Sane(e6) /\ Named(e6) \subseteq Named(e5) /\ (\A c : DirBlock(e6, c) => DirBlock(e5, c))
    <2> HIDE DEF e6
    <2> QED  BY <1>0, <1>15, <1>16, <1>17, NoNewEntry
  <1> HIDE DEF e6
  <1>19. Settled(e5) /\ Settled(e6)
    <2>1. e4.inode[Root].type = "dir" /\ e4.inode[Root].block = ROOTBLOCK
      BY <1>01, <1>7, <1>10, Numbers DEF Settled
    <2> QED  BY <1>14, <1>170, <2>1 DEF Settled
  <1>191. Stem(d, e1, {b}) /\ Stem(d, e2, {b})
    BY <1>1, <1>2, <1>3, <1>4 DEF Stem
  <1>192. Stem(d, e3, {b}) /\ Stem(d, e4, {b})
    <2>1. \A n \in Named(d) : n \in Inodes \ {self}
      BY <1>01 DEF Named
    <2> QED  BY <1>7, <1>8, <1>10, <2>1 DEF Stem
  <1>193. Stem(d, e5, {b}) /\ Stem(d, e6, {b})
    <2>1. e4.inode[self].block = b
      BY <1>0, <1>5, <1>7, <1>10
    <2>2. \A n \in Named(d) : e4.inode[n].block = d.inode[n].block
      <3>1. \A n \in Named(d) : n \in Inodes \ {self}
        BY <1>01 DEF Named
      <3> QED  BY <1>7, <1>10, <3>1
    <2> QED  BY <1>14, <1>15, <1>170, <1>18, <2>1, <2>2 DEF Stem
  <1>20. LeadsBy({b}, d, w1, e3)
    <2>1. LeadsBy({b}, d, <<Imap(s1)>>, e1)
      BY <1>1, <1>2, <1>191, LeadsByOne DEF e1
    <2>2. LeadsBy({b}, d, Append(<<Imap(s1)>>, Bmap(s2)), e2)
      BY <1>0, <1>3, <1>4, <1>191, <2>1, LeadsByOn DEF e2
    <2>3. LeadsBy({b}, d, Append(Append(<<Imap(s1)>>, Bmap(s2)), Ino(self, r3)), e3)
      BY <1>0, <1>6, <1>8, <1>192, <2>2, LeadsByOn DEF e3
    <2> HIDE DEF s1, s2
    <2>4. Append(<<Imap(s1)>>, Bmap(s2)) = <<Imap(s1), Bmap(s2)>>
      BY <1>1, <1>3, Append2
    <2>5. Append(<<Imap(s1), Bmap(s2)>>, Ino(self, r3)) = w1
      BY <1>1, <1>3, <1>6, Append3
    <2> QED  BY <2>3, <2>4, <2>5
  <1>21. Leads(e3, w2, e5)
    <2>1. Leads(e3, <<Ino(father, r4)>>, e4)
      BY <1>8, <1>10, LeadsOne DEF e4
    <2>2. Leads(e3, Append(<<Ino(father, r4)>>, Blk(ino.block, c5)), e5)
      BY <1>6, <1>13, <1>15, <2>1, LeadsOn DEF e5
    <2>3. Append(<<Ino(father, r4)>>, Blk(ino.block, c5)) = w2
      BY <1>10, <1>13, Append2
    <2> QED  BY <2>2, <2>3
  <1>22. LeadsBy({b}, d, Append(Append(w1, Ino(father, r4)), Blk(ino.block, c5)), e5)
    <2> HIDE DEF w1
    <2>1. LeadsBy({b}, d, Append(w1, Ino(father, r4)), e4)
      BY <1>0, <1>10, <1>20, <1>192, LeadsByOn DEF e4
    <2> QED  BY <1>0, <1>13, <1>15, <1>193, <2>1, LeadsByOn DEF e5
  <1>23. LeadsBy({b}, d, Append(Append(Append(w1, Ino(father, r4)), Blk(ino.block, c5)), Blk(b, c6)), e6)
    <2> HIDE DEF w1
    <2> QED  BY <1>0, <1>17, <1>18, <1>22, <1>193, LeadsByOn DEF e6
  <1>24. After(d, w1) = e3 /\ After(e3, w2) = e5
    BY <1>20, <1>21 DEF Leads, LeadsBy
  <1>25. Create(d, father, name, type) = w1 \o w2 \o IF type = "dir" THEN <<Blk(b, c6)>> ELSE <<>>
    <2> HIDE DEF w1, w2
    <2>1. Create(d, father, name, type) =
            w1 \o <<Ino(father, [ReadInode(After(d, w1), father) EXCEPT !.dnum = @ + 1]),
                    Blk(ReadInode(After(d, w1), father).block,
                        PutEntry(After(d, w1).block[ReadInode(After(d, w1), father).block],
                                 ReadInode(After(d, w1), father).dnum + 1, x))>>
               \o IF type = "dir" THEN <<Blk(b, Dots(After(After(d, w1),
                      <<Ino(father, [ReadInode(After(d, w1), father) EXCEPT !.dnum = @ + 1]),
                    Blk(ReadInode(After(d, w1), father).block,
                        PutEntry(After(d, w1).block[ReadInode(After(d, w1), father).block],
                                 ReadInode(After(d, w1), father).dnum + 1, x))>>).block[b], father, self))>>
                  ELSE <<>>
      BY DEF Create, w1, s1, s2, r3, b, self, x
    <2> QED  BY <1>24, <2>1 DEF w2, ino, r4, c5, c6
  <1> DEFINE u == Append(Append(w1, Ino(father, r4)), Blk(ino.block, c5))
             v == Append(u, Blk(b, c6))
  <1>28. ASSUME father \in d.imap, Fits(father), d.inode[father].block \in d.bmap
         PROVE  /\ ino = d.inode[father] /\ father # self /\ ino.block # b
                /\ e4.inode[father] = [d.inode[father] EXCEPT !.dnum = @ + 1] /\ e4.inode[self] = NewInode(type, b)
                /\ \A n \in Inodes \ {self, father} : e4.inode[n] = d.inode[n]
                /\ e5.block[ino.block] = PutEntry(d.block[ino.block], d.inode[father].dnum + 1, Cell(name, self, type))
                /\ e5.block[b] = d.block[b] /\ e6.block[ino.block] = e5.block[ino.block]
                /\ e6.block[b] = Dots(d.block[b], father, self)
                /\ \A c \in Blocks \ {ino.block, b} : e5.block[c] = d.block[c] /\ e6.block[c] = d.block[c]
    <2>1. father # self
      BY <1>0, <1>28
    <2>2. ino = d.inode[father]
      <3>1. ino = e3.inode[father]
        BY <1>28 DEF ino, ReadInode
      <3> QED  BY <1>7, <2>1, <3>1
    <2>3. ino.block # b
      BY <1>0, <1>28, <2>2
    <2>4. e4.inode = [e3.inode EXCEPT ![father] = r4]
      BY <1>6, <1>9, <1>28, ApplyIno DEF e4
    <2>5. e4.inode[father] = r4 /\ \A n \in Inodes \ {father} : e4.inode[n] = e3.inode[n]
      <3>1. e3.inode \in [Inodes -> InodeT]
        BY <1>6 DEF Card
      <3> QED  BY <2>4, <3>1
    <2>6. r4 = [d.inode[father] EXCEPT !.dnum = @ + 1]
      BY <2>2 DEF r4
    <2>7. c5 = PutEntry(d.block[ino.block], d.inode[father].dnum + 1, Cell(name, self, type))
      BY <1>6, <2>2 DEF c5, x
    <2>8. /\ e5.block[ino.block] = c5
          /\ \A c \in Blocks \ {ino.block} : e5.block[c] = d.block[c]
      BY <1>10, <1>13 DEF Written
    <2>9. e6.block[b] = c6 /\ \A c \in Blocks \ {b} : e6.block[c] = e5.block[c]
      BY <1>17 DEF Written
    <2>10. e5.block[b] = d.block[b]
      BY <1>0, <2>3, <2>8
    <2>11. c6 = Dots(d.block[b], father, self)
      BY <2>10 DEF c6
    <2>12. e4.inode[self] = NewInode(type, b)
      BY <1>0, <1>7, <2>1, <2>5 DEF r3
    <2>13. \A n \in Inodes \ {self, father} : e4.inode[n] = d.inode[n]
      BY <1>7, <2>5
    <2>14. \A c \in Blocks \ {ino.block, b} : e5.block[c] = d.block[c] /\ e6.block[c] = d.block[c]
      BY <2>8, <2>9
    <2>15. e6.block[ino.block] = e5.block[ino.block]
      BY <1>9, <2>3, <2>9
    <2> QED  BY <2>1, <2>2, <2>3, <2>5, <2>6, <2>7, <2>8, <2>9, <2>10, <2>11, <2>12, <2>13, <2>14, <2>15
  <1>290. /\ Hits(Imap(s1), {self, father}, {ino.block, b}) /\ Hits(Bmap(s2), {self, father}, {ino.block, b})
          /\ Hits(Ino(self, r3), {self, father}, {ino.block, b}) /\ Hits(Ino(father, r4), {self, father}, {ino.block, b})
          /\ Hits(Blk(ino.block, c5), {self, father}, {ino.block, b}) /\ Hits(Blk(b, c6), {self, father}, {ino.block, b})
    <2> HIDE DEF s1, s2
    <2> QED  BY HitsFacts
  <1>29. Touches(u, {self, father}, {ino.block, b}) /\ Touches(v, {self, father}, {ino.block, b})
    <2> DEFINE Q(ws) == Touches(ws, {self, father}, {ino.block, b})
               w0 == <<>>
               wa == Append(w0, Imap(s1))
               wb == Append(wa, Bmap(s2))
               wc == Append(wb, Ino(self, r3))
               wd == Append(wc, Ino(father, r4))
               we == Append(wd, Blk(ino.block, c5))
               wf == Append(we, Blk(b, c6))
    <2> HIDE DEF s1, s2
    <2>0. w0 \in Seq(Writes) /\ Q(w0)
      BY TouchesNone
    <2> HIDE DEF w0
    <2>1. wa \in Seq(Writes) /\ Q(wa)
      BY <1>1, <1>290, <2>0, TouchesOn
    <2> HIDE DEF wa
    <2>2. wb \in Seq(Writes) /\ Q(wb)
      BY <1>3, <1>290, <2>1, TouchesOn
    <2> HIDE DEF wb
    <2>3. wc \in Seq(Writes) /\ Q(wc)
      BY <1>6, <1>290, <2>2, TouchesOn
    <2>4. wc = w1
      <3>1. wa = <<Imap(s1)>>
        BY DEF wa, w0
      <3>2. wb = <<Imap(s1), Bmap(s2)>>
        BY <1>1, <1>3, <3>1, Append2 DEF wb
      <3> QED  BY <1>1, <1>3, <1>6, <3>2, Append3
    <2> HIDE DEF wc
    <2>5. wd \in Seq(Writes) /\ Q(wd)
      BY <1>10, <1>290, <2>3, TouchesOn
    <2> HIDE DEF wd
    <2>6. we \in Seq(Writes) /\ Q(we)
      BY <1>13, <1>290, <2>5, TouchesOn
    <2> HIDE DEF we
    <2>7. wf \in Seq(Writes) /\ Q(wf)
      BY <1>17, <1>290, <2>6, TouchesOn
    <2>8. u = we
      BY <2>4 DEF we, wd
    <2> HIDE DEF u, w1
    <2> QED  BY <2>6, <2>7, <2>8
  <1> HIDE DEF u, v
  <1>26. CASE type = "dir"
    <2>1. Create(d, father, name, type) = Append(Append(Append(w1, Ino(father, r4)), Blk(ino.block, c5)), Blk(b, c6))
      BY <1>25, <1>26
    <2>2. Created(d, e6, type)
      <3>1. e6.inode[self].block = b
        BY <1>0, <1>5, <1>7, <1>10, <1>170
      <3> QED  BY <1>0, <1>01, <1>15, <1>170, <1>18, <1>19, <3>1 DEF Created, self, b
    <2>3. father \in d.imap /\ Fits(father) /\ d.inode[father].block \in d.bmap => Made(d, e6, v, father, name, type)
      BY <1>0, <1>26, <1>28, <1>29, <1>170 DEF Made, self, b, s1
    <2> HIDE DEF w1
    <2> QED  BY <1>23, <2>1, <2>2, <2>3 DEF u, v, b, LeadsBy
  <1>27. CASE type # "dir"
    <2>1. Create(d, father, name, type) = Append(Append(w1, Ino(father, r4)), Blk(ino.block, c5))
      BY <1>25, <1>27
    <2>2. Created(d, e5, type)
      <3>1. e5.inode[self].block = b
        BY <1>0, <1>5, <1>7, <1>10, <1>14
      <3> QED  BY <1>0, <1>01, <1>14, <1>15, <1>19, <3>1 DEF Created, self, b
    <2>3. father \in d.imap /\ Fits(father) /\ d.inode[father].block \in d.bmap => Made(d, e5, u, father, name, type)
      BY <1>0, <1>27, <1>28, <1>29, <1>14 DEF Made, self, b, s1
    <2> HIDE DEF w1
    <2> QED  BY <1>22, <2>1, <2>2, <2>3 DEF u, b, LeadsBy
  <1> QED
    BY <1>26, <1>27

\* A walk finds a cell of the directory's block with this name and type, or none.
LEMMA FindFacts ==
    ASSUME NEW d \in Card, NEW dir \in Inodes, NEW from \in Nat, NEW name, NEW type,
           NEW j, j = Find(d, dir, from, name, type), j # -1
    PROVE  /\ j \in Cells /\ ReadInode(d, dir).block \in Blocks
           /\ d.block[ReadInode(d, dir).block][j].name = name
           /\ d.block[ReadInode(d, dir).block][j].type = type
PROOF
  <1> DEFINE ino == ReadInode(d, dir)
             c   == d.block[ino.block]
             hit == {k \in Walk(c, from, ino.dnum) : c[k].name = name /\ c[k].type = type}
  <1>1. j = IF hit = {} THEN -1 ELSE Min(hit)
    BY DEF Find
  <1>2. hit \subseteq Cells /\ hit \in SUBSET Nat
    <2>1. \A k \in Walk(c, from, ino.dnum) : k \in from..NCELL - 1
      BY DEF Walk
    <2>2. NCELL \in Nat
      BY FileSysAssumption
    <2>3. \A k \in from..NCELL - 1 : k \in Cells
      BY <2>2 DEF Cells
    <2>4. hit \subseteq Cells
      BY <2>1, <2>3
    <2> HIDE DEF hit
    <2> QED  BY <2>4, Numbers
  <1>3. hit # {} => Min(hit) \in hit
    <2> HIDE DEF hit
    <2> QED  BY <1>2, MinFacts
  <1>4. j \in hit
    <2> HIDE DEF hit
    <2> QED  BY <1>1, <1>3
  <1> QED
    BY <1>2, <1>4, ReadTyped

\* What rmdir leaves: blocks are freed that were the directory's, or block 0.
Removed(d, e) == /\ Settled(e)
                 /\ \A c : DirBlock(e, c) => DirBlock(d, c)
                 /\ \A c \in d.bmap \ e.bmap : c = 0 \/ DirBlock(d, c)

\* What the card is when a directory was removed, or only counted down.
Taken(d, e, ws, dir, name) ==
    LET f == d.inode[dir]
        j == Find(d, dir, 2, name, "dir")
    IN /\ e.inode[dir] = [f EXCEPT !.dnum = @ - 1] /\ \A n \in Inodes \ {dir} : e.inode[n] = d.inode[n]
       /\ e.block[f.block] = IF j = -1 THEN d.block[f.block] ELSE [d.block[f.block] EXCEPT ![j] = EmptyCell]
       /\ \A c \in Blocks \ {f.block} : e.block[c] = d.block[c]
       /\ e.imap = IF j = -1 THEN d.imap ELSE d.imap \ {d.block[f.block][j].id}
       /\ Touches(ws, {dir}, {f.block})

LEMMA RmdirLeads ==
    ASSUME NEW d, Sane(d), Settled(d), NEW dir \in Inodes, NEW name \in Names
    PROVE  \E e : /\ Leads(d, RmdirWrites(d, dir, name), e) /\ Removed(d, e)
                  /\ LeadsBy({}, d, RmdirWrites(d, dir, name), e)
                  /\ Fits(dir) => Taken(d, e, RmdirWrites(d, dir, name), dir, name)
PROOF
  <1> DEFINE ino == ReadInode(d, dir)
             j   == Find(d, dir, 2, name, "dir")
             r1  == [ino EXCEPT !.dnum = @ - 1]
             e1  == Apply(d, Ino(dir, r1))
             old == d.block[ino.block]
             c2  == [old EXCEPT ![j] = EmptyCell]
             e2  == Apply(e1, Blk(ino.block, c2))
             id  == old[j].id
             b   == ReadInode(e2, id).block
             s3  == d.bmap \ {b}
             e3  == Apply(e2, Bmap(s3))
             s4  == d.bmap \ {b, 0}
             e4  == Apply(e3, Bmap(s4))
             s5  == d.imap \ {id}
             e5  == Apply(e4, Imap(s5))
             w1  == <<Ino(dir, r1)>>
             w2  == w1 \o <<Blk(ino.block, c2)>>
  <1>0. d \in Card
    BY DEF Sane
  <1>1. ino.block \in Blocks /\ r1 \in InodeT /\ old \in [Cells -> CellT]
        /\ (Fits(dir) => r1.type = d.inode[dir].type /\ r1.block = d.inode[dir].block)
    <2>1. ino \in InodeT /\ (Fits(dir) => ino = d.inode[dir])
      BY <1>0, ReadTyped
    <2> HIDE DEF ino
    <2>2. r1.type = ino.type /\ r1.block = ino.block /\ r1 \in InodeT /\ ino.block \in Blocks
      BY <2>1 DEF InodeT
    <2> QED  BY <1>0, <2>1, <2>2 DEF Card
  <1>00. \A k : j = k /\ k # -1 => k \in Cells /\ old[k].name = name /\ old[k].type = "dir"
    BY <1>0, FindFacts
  <1>2. RmdirWrites(d, dir, name) =
          IF j = -1 THEN w1
          ELSE w2 \o <<Bmap(d.bmap \ {ReadInode(After(d, w2), id).block}),
                       Bmap(d.bmap \ {ReadInode(After(d, w2), id).block, 0}), Imap(s5)>>
    BY DEF RmdirWrites
  <1>20. Fits(dir) => /\ ino = d.inode[dir] /\ e1.inode = [d.inode EXCEPT ![dir] = r1]
                      /\ r1 = [d.inode[dir] EXCEPT !.dnum = @ - 1] /\ d.inode \in [Inodes -> InodeT]
    <2>1. Fits(dir) => ino = d.inode[dir]
      BY <1>0, ReadTyped
    <2>2. e1.inode = IF Fits(dir) THEN [d.inode EXCEPT ![dir] = r1] ELSE d.inode
      <3> HIDE DEF r1
      <3> QED  BY <1>0, <1>1, ApplyIno
    <2> QED  BY <1>0, <2>1, <2>2 DEF Card
  <1> HIDE DEF ino, j, r1
  <1>21. Fits(dir) => e1.inode[dir] = [d.inode[dir] EXCEPT !.dnum = @ - 1]
                      /\ \A n \in Inodes \ {dir} : e1.inode[n] = d.inode[n]
    <2> HIDE DEF e1
    <2> QED  BY <1>20
  <1>22. <<Ino(dir, r1)>> = Append(<<>>, Ino(dir, r1))
    OBVIOUS
  <1>3. /\ Sane(e1) /\ Named(e1) = Named(d) /\ e1 \in Card /\ Ino(dir, r1) \in Writes
        /\ \A c : (DirBlock(e1, c) <=> DirBlock(d, c)) /\ (Data(e1, c) <=> Data(d, c))
        /\ e1.imap = d.imap /\ e1.bmap = d.bmap /\ e1.block = d.block
        /\ \A m \in Inodes : e1.inode[m].type = d.inode[m].type /\ e1.inode[m].block = d.inode[m].block
    <2>1. e1 = Apply(d, Ino(dir, r1)) /\ Ino(dir, r1) \in Writes
      BY <1>1, WritesTyped
    <2> HIDE DEF e1
    <2>2. /\ Sane(e1) /\ Named(e1) = Named(d)
          /\ \A c : (DirBlock(e1, c) <=> DirBlock(d, c)) /\ (Data(e1, c) <=> Data(d, c))
          /\ e1.imap = d.imap /\ e1.bmap = d.bmap /\ e1.block = d.block
          /\ \A m \in Inodes : e1.inode[m].type = d.inode[m].type /\ e1.inode[m].block = d.inode[m].block
      BY <1>1, <2>1, Rewrite
    <2> QED  BY <2>1, <2>2 DEF Sane
  <1>30. \A n \in Named(d) : e1.inode[n].block = d.inode[n].block
    BY <1>3 DEF Named
  <1>4. LeadsBy({}, d, w1, e1)
    <2>1. Stem(d, e1, {})
      BY <1>3, <1>30 DEF Stem
    <2> QED  BY <1>3, <2>1, LeadsByOne
  <1>5. Settled(e1)
    BY <1>3, Numbers DEF Settled
  <1>40. w1 \in Seq(Writes) /\ Touches(w1, {dir}, {ino.block})
    <2> HIDE DEF e1
    <2>1. <<>> \in Seq(Writes) /\ Touches(<<>>, {dir}, {ino.block})
      BY TouchesNone
    <2>2. Hits(Ino(dir, r1), {dir}, {ino.block}) /\ Ino(dir, r1) \in Writes
      BY <1>3, HitsFacts
    <2> QED  BY <1>22, <2>1, <2>2, TouchesOn
  <1>6. CASE j = -1
    <2>1. Removed(d, e1)
      BY <1>3, <1>5 DEF Removed
    <2>2. Fits(dir) => Taken(d, e1, w1, dir, name)
      <3> HIDE DEF e1, w1
      <3> QED  BY <1>3, <1>6, <1>20, <1>21, <1>40 DEF Taken, j
    <2> QED  BY <1>2, <1>4, <1>6, <2>1, <2>2 DEF LeadsBy
  <1>7. CASE j # -1
    <2>0. j \in Cells /\ old[j].name = name /\ old[j].type = "dir"
      BY <1>7, <1>00
    <2>1. /\ id \in Named(d) /\ id \in Inodes \ {Root} /\ Fits(id) /\ d.inode[id].type = "dir"
          /\ d.inode[id].block \in Blocks \ {0, ROOTBLOCK}
          /\ DirBlock(d, d.inode[id].block) /\ ~Data(d, d.inode[id].block)
      <3>1. id \in Named(d) /\ id \in Inodes
        BY <1>0, <1>1, <2>0, NamesIt DEF Named
      <3>2. d.inode[id].type = "dir"
        BY <1>1, <2>0 DEF Sane, NamedTyped
      <3>3. id # Root /\ Fits(id) /\ d.inode[id].block \in Blocks \ {0, ROOTBLOCK}
        BY <1>0, <3>1, <3>2, ReadTyped DEF Sane, NamedExist, Held
      <3>4. DirBlock(d, d.inode[id].block)
        BY <3>1, <3>2 DEF DirBlock
      <3>5. ~Data(d, d.inode[id].block)
        BY <3>3, <3>4 DEF Sane, DataApart
      <3> QED  BY <3>1, <3>2, <3>3, <3>4, <3>5
    <2>2. c2 \in [Cells -> CellT] /\ AddsNone(e1, ino.block, c2)
      <3>1. c2 \in [Cells -> CellT]
        BY <1>1, CellsTyped
      <3>2. \A k \in Cells : c2[k] = e1.block[ino.block][k] \/ c2[k].name = ""
        BY <1>1, <1>3, CellsTyped
      <3> HIDE DEF c2
      <3> QED  BY <3>1, <3>2, NamesApart DEF AddsNone
    <2> HIDE DEF e1
    <2>3. Written(e1, ino.block, c2, e2) /\ Blk(ino.block, c2) \in Writes
      BY <1>1, <1>3, <2>2, BlkWritten
    <2>4. Sane(e2) /\ Named(e2) \subseteq Named(d) /\ \A c : DirBlock(e2, c) => DirBlock(d, c)
      <3> HIDE DEF c2, e2
      <3> QED  BY <1>1, <1>3, <2>2, <2>3, NoNewEntry
    <2>5. e2 \in Card /\ e2.imap = d.imap /\ e2.bmap = d.bmap /\ e2.inode = e1.inode
      BY <1>3, <2>3 DEF Written
    <2>50. \A c \in Blocks, k \in Cells :
              e2.block[c][k] = IF c = ino.block /\ k = j THEN EmptyCell ELSE d.block[c][k]
      <3>1. \A k \in Cells : c2[k] = IF k = j THEN EmptyCell ELSE old[k]
        BY <1>1
      <3>2. e2.block[ino.block] = c2 /\ \A c \in Blocks \ {ino.block} : e2.block[c] = d.block[c]
        BY <1>3, <2>3 DEF Written
      <3> HIDE DEF c2, e2
      <3> QED  BY <3>1, <3>2
    <2>51. EmptyCell.name = "" /\ "" \notin Names
      BY CellsTyped, NamesApart
    <2>6. id \notin Named(e2)
      <3> SUFFICES ASSUME NEW c \in Blocks, NEW k \in Cells, e2.block[c][k].name \in Names, e2.block[c][k].id = id
                   PROVE  FALSE
        BY DEF Named
      <3>2. ~(c = ino.block /\ k = j)
        BY <2>50, <2>51
      <3>3. e2.block[c][k] = d.block[c][k]
        BY <2>50, <3>2
      <3> QED  BY <1>1, <2>0, <3>2, <3>3 DEF Sane, NamedOnce
    <2>7. b = d.inode[id].block
      <3>1. ReadInode(e2, id) = e2.inode[id]
        BY <2>1 DEF ReadInode
      <3> QED  BY <1>3, <2>1, <2>5, <3>1
    <2>8. ~Data(e2, b)
      <3>2. \A i \in Cells : e2.block[b][i] = d.block[b][i] \/ e2.block[b][i].name = ""
        BY <2>1, <2>7, <2>50, <2>51
      <3> QED  BY <2>1, <2>7, <3>2 DEF Data
    <2>9. Settled(e2)
      BY <1>5, <2>5, <1>3 DEF Settled
    <2> HIDE DEF id, b, e2
    <2>10. /\ e3 \in Card /\ e3.imap = d.imap /\ e3.bmap = s3 /\ e3.inode = e1.inode /\ e3.block = e2.block
           /\ Bmap(s3) \in Writes
      <3>1. s3 \in SUBSET Blocks
        BY <1>0 DEF Card
      <3> HIDE DEF s3
      <3> QED  BY <2>5, <3>1, ApplyBmap, WritesTyped
    <2>11. \A n \in Named(e2) : /\ n \in d.imap /\ n \in s5
                                /\ e1.inode[n].block = 0 \/ (e1.inode[n].block \in s3 /\ e1.inode[n].block \in s4)
      <3>1. \A n \in Named(e2) : n \in d.imap /\ n # id /\ n \in Inodes /\ n \in Named(d)
        BY <2>4, <2>6 DEF Sane, NamedExist, Named
      <3>2. \A n \in Named(e2) : d.inode[n].block = 0 \/ (d.inode[n].block # b /\ d.inode[n].block \in d.bmap \ {0})
        BY <2>1, <2>7, <3>1 DEF Sane, NamedExist, Held, NamedApart
      <3> QED  BY <1>3, <3>1, <3>2
    <2>12. Sane(e3) /\ Named(e3) = Named(e2) /\ (\A c : DirBlock(e3, c) <=> DirBlock(e2, c)) /\ \A c : Data(e3, c) <=> Data(e2, c)
      <3>1. \A n \in Named(e2) : /\ n \in e3.imap /\ (e2.inode[n].block \in e3.bmap \/ e2.inode[n].block = 0)
                                 /\ e3.inode[n].type = e2.inode[n].type /\ e3.inode[n].block = e2.inode[n].block
        BY <2>5, <2>10, <2>11
      <3>2. \A c \in e2.bmap \ e3.bmap : c = 0 \/ ~Data(e2, c)
        BY <2>5, <2>8, <2>10
      <3>3. Settled(e3)
        BY <2>1, <2>5, <2>7, <2>9, <2>10 DEF Settled
      <3>4. e3 \in Card /\ e3.block = e2.block
        BY <2>10
      <3> HIDE DEF e3
      <3> QED  BY <2>4, <3>1, <3>2, <3>3, <3>4, SameBlocks
    <2> HIDE DEF e3
    <2>13. /\ e4 \in Card /\ e4.imap = d.imap /\ e4.bmap = s4 /\ e4.inode = e1.inode /\ e4.block = e2.block
           /\ Bmap(s4) \in Writes
      <3>1. s4 \in SUBSET Blocks
        BY <1>0 DEF Card
      <3> HIDE DEF s4, s3
      <3> QED  BY <2>10, <3>1, ApplyBmap, WritesTyped
    <2>14. Sane(e4) /\ Named(e4) = Named(e2) /\ (\A c : DirBlock(e4, c) <=> DirBlock(e2, c)) /\ \A c : Data(e4, c) <=> Data(e2, c)
      <3>1. \A n \in Named(e3) : /\ n \in e4.imap /\ (e3.inode[n].block \in e4.bmap \/ e3.inode[n].block = 0)
                                 /\ e4.inode[n].type = e3.inode[n].type /\ e4.inode[n].block = e3.inode[n].block
        BY <2>10, <2>11, <2>12, <2>13
      <3>2. \A c \in e3.bmap \ e4.bmap : c = 0 \/ ~Data(e3, c)
        BY <2>10, <2>13
      <3>3. Settled(e4)
        BY <2>1, <2>5, <2>7, <2>9, <2>13, Numbers DEF Settled
      <3>4. e4 \in Card /\ e4.block = e3.block
        BY <2>10, <2>13
      <3> HIDE DEF e4
      <3> QED  BY <2>12, <3>1, <3>2, <3>3, <3>4, SameBlocks
    <2> HIDE DEF e4
    <2>15. /\ e5 \in Card /\ e5.imap = s5 /\ e5.bmap = s4 /\ e5.inode = e1.inode /\ e5.block = e2.block
           /\ Imap(s5) \in Writes
      <3>1. s5 \in SUBSET Inodes
        BY <1>0 DEF Card
      <3> HIDE DEF s5, s4
      <3> QED  BY <2>13, <3>1, ApplyImap, WritesTyped
    <2>150. Settled(e5)
      BY <2>1, <2>5, <2>7, <2>9, <2>15, Numbers DEF Settled
    <2>16. Sane(e5) /\ (\A c : DirBlock(e5, c) <=> DirBlock(e2, c))
      <3>1. \A n \in Named(e4) : /\ n \in e5.imap /\ (e4.inode[n].block \in e5.bmap \/ e4.inode[n].block = 0)
                                 /\ e5.inode[n].type = e4.inode[n].type /\ e5.inode[n].block = e4.inode[n].block
        BY <2>11, <2>13, <2>14, <2>15
      <3>2. \A c \in e4.bmap \ e5.bmap : c = 0 \/ ~Data(e4, c)
        BY <2>13, <2>15
      <3>4. e5 \in Card /\ e5.block = e4.block
        BY <2>13, <2>15
      <3> HIDE DEF e5
      <3> QED  BY <2>14, <2>150, <3>1, <3>2, <3>4, SameBlocks
    <2> HIDE DEF e5
    <2>160. Stem(d, e2, {}) /\ Stem(d, e3, {}) /\ Stem(d, e4, {}) /\ Stem(d, e5, {})
      <3>1. Named(e5) = Named(e2)
        BY <2>15 DEF Named
      <3> QED  BY <1>30, <2>4, <2>5, <2>10, <2>12, <2>13, <2>14, <2>15, <3>1 DEF Stem
    <2>17. LeadsBy({}, d, w2, e2)
      <3>1. LeadsBy({}, d, Append(w1, Blk(ino.block, c2)), e2)
        BY <1>0, <1>4, <2>3, <2>4, <2>160, LeadsByOn DEF e2
      <3>2. w2 = Append(w1, Blk(ino.block, c2))
        OBVIOUS
      <3> QED  BY <3>1, <3>2
    <2> HIDE DEF w2
    <2>18. LeadsBy({}, d, Append(Append(Append(w2, Bmap(s3)), Bmap(s4)), Imap(s5)), e5)
      <3>1. LeadsBy({}, d, Append(w2, Bmap(s3)), e3)
        BY <1>0, <2>10, <2>12, <2>17, <2>160, LeadsByOn DEF e3
      <3>2. LeadsBy({}, d, Append(Append(w2, Bmap(s3)), Bmap(s4)), e4)
        BY <1>0, <2>13, <2>14, <2>160, <3>1, LeadsByOn DEF e4
      <3> QED  BY <1>0, <2>15, <2>16, <2>160, <3>2, LeadsByOn DEF e5
    <2>19. RmdirWrites(d, dir, name) = w2 \o <<Bmap(s3), Bmap(s4), Imap(s5)>>
      <3>1. After(d, w2) = e2
        BY <2>17 DEF Leads, LeadsBy
      <3> QED  BY <1>2, <1>7, <3>1 DEF b
    <2>20. w2 \o <<Bmap(s3), Bmap(s4), Imap(s5)>> = Append(Append(Append(w2, Bmap(s3)), Bmap(s4)), Imap(s5))
      <3>1. w2 \in Seq(Writes)
        BY <2>17 DEF Leads, LeadsBy
      <3> HIDE DEF s3, s4, s5
      <3> QED  BY <2>10, <2>13, <2>15, <3>1
    <2>21. Removed(d, e5)
      BY <2>1, <2>4, <2>7, <2>15, <2>150, <2>16 DEF Removed
    <2> DEFINE wa == Append(w2, Bmap(s3))
               wb == Append(wa, Bmap(s4))
               wc == Append(wb, Imap(s5))
    <2>22. wc \in Seq(Writes) /\ Touches(wc, {dir}, {ino.block})
      <3>1. w2 = Append(w1, Blk(ino.block, c2))
        BY DEF w2
      <3>2. /\ Hits(Blk(ino.block, c2), {dir}, {ino.block}) /\ Hits(Bmap(s3), {dir}, {ino.block})
            /\ Hits(Bmap(s4), {dir}, {ino.block}) /\ Hits(Imap(s5), {dir}, {ino.block})
        BY HitsFacts
      <3> HIDE DEF s3, s4, s5, c2, w1
      <3>3. w2 \in Seq(Writes) /\ Touches(w2, {dir}, {ino.block})
        BY <1>40, <2>3, <3>1, <3>2, TouchesOn
      <3>4. wa \in Seq(Writes) /\ Touches(wa, {dir}, {ino.block})
        BY <2>10, <3>2, <3>3, TouchesOn
      <3> HIDE DEF wa
      <3>5. wb \in Seq(Writes) /\ Touches(wb, {dir}, {ino.block})
        BY <2>13, <3>2, <3>4, TouchesOn
      <3> HIDE DEF wb
      <3> QED  BY <2>15, <3>2, <3>5, TouchesOn
    <2>23. Fits(dir) => Taken(d, e5, wc, dir, name)
      <3>1. e5.block[ino.block] = c2 /\ \A c \in Blocks \ {ino.block} : e5.block[c] = d.block[c]
        BY <1>3, <2>3, <2>15 DEF Written
      <3>2. s5 = d.imap \ {old[j].id} /\ old = d.block[ino.block]
        BY DEF id
      <3> HIDE DEF wc, s5
      <3> QED  BY <1>7, <1>20, <1>21, <2>15, <2>22, <3>1, <3>2 DEF Taken, j
    <2> QED  BY <2>18, <2>19, <2>20, <2>21, <2>23 DEF LeadsBy
  <1> QED
    BY <1>6, <1>7

\* A card that was never formatted.
Blank(d) == /\ d.imap = {} /\ d.inode[Root].type = "file"
            /\ \A b \in Blocks, j \in Cells : d.block[b][j].name = ""

\* What mkfs makes: a root directory with its dots alone.
Rooted(d, e) == /\ Settled(e) /\ Named(e) = {} /\ e.inode[Root] = NewInode("dir", ROOTBLOCK)
                /\ e.block[ROOTBLOCK] = Dots(d.block[ROOTBLOCK], Root, Root)

LEMMA MkfsLeads ==
    ASSUME NEW d, Sane(d), Blank(d)
    PROVE  \E e : Leads(d, MkfsWrites(d), e) /\ Rooted(d, e) /\ LeadsBy({}, d, MkfsWrites(d), e)
PROOF
  <1> DEFINE c1 == [d.block[0] EXCEPT ![0] = Super]
             e1 == Apply(d, Blk(0, c1))
             s2 == {Root}
             e2 == Apply(e1, Imap(s2))
             s3 == 0..RESERVED - 1
             e3 == Apply(e2, Bmap(s3))
             r4 == NewInode("dir", ROOTBLOCK)
             e4 == Apply(e3, Ino(Root, r4))
             c5 == Dots(d.block[ROOTBLOCK], Root, Root)
             e5 == Apply(e4, Blk(ROOTBLOCK, c5))
  <1>0. d \in Card /\ d.block \in [Blocks -> [Cells -> CellT]]
    BY DEF Sane, Card
  <1>1. Named(d) = {}
    BY NamesApart DEF Blank, Named
  <1>2. c1 \in [Cells -> CellT] /\ c1[0] = Super /\ \A j \in Cells \ {0} : c1[j] = d.block[0][j]
    BY <1>0, CellsTyped, Numbers
  <1> HIDE DEF c1
  <1>3. AddsNone(d, 0, c1)
    <2>1. \A j \in Cells : ~(j >= 2) \/ j \in Cells \ {0}
      BY Numbers
    <2>2. c1[0].name \notin Names
      BY <1>2, CellsTyped, NamesApart
    <2>3. ~(0 >= 2)
      OBVIOUS
    <2> QED  BY <1>2, <2>1, <2>2, <2>3 DEF AddsNone
  <1>4. Written(d, 0, c1, e1) /\ Blk(0, c1) \in Writes
    BY <1>0, <1>2, BlkWritten, Numbers
  <1> HIDE DEF e1
  <1>5. Sane(e1) /\ Named(e1) = {}
    BY <1>1, <1>2, <1>3, <1>4, NoNewEntry, Numbers
  <1>6. \A b \in Blocks : ~Data(e1, b)
    <2> SUFFICES ASSUME NEW b \in Blocks, NEW j \in Cells, j >= 2
                 PROVE  e1.block[b][j].name = ""
      BY DEF Data
    <2>1. e1.block[b][j] = d.block[b][j]
      <3>1. j # 0
        OBVIOUS
      <3> QED  BY <1>2, <1>4, <3>1 DEF Written
    <2> QED  BY <2>1 DEF Blank
  <1>7. e1 \in Card /\ e1.imap = {} /\ e1.inode = d.inode
    BY <1>4 DEF Written, Blank
  <1>8. d.inode[Root].type # "dir"
    BY DEF Blank
  <1>9. /\ e2 \in Card /\ e2.imap = s2 /\ e2.inode = d.inode /\ e2.block = e1.block /\ e2.bmap = e1.bmap
        /\ Imap(s2) \in Writes
    <2>1. s2 \in SUBSET Inodes
      BY Numbers
    <2> HIDE DEF s2
    <2> QED  BY <1>7, <2>1, ApplyImap, WritesTyped
  <1> HIDE DEF e2
  <1>10. Sane(e2) /\ Named(e2) = {} /\ \A b : Data(e2, b) <=> Data(e1, b)
    <2>1. \A b \in e1.bmap \ e2.bmap : b = 0 \/ ~Data(e1, b)
      BY <1>9
    <2> QED  BY <1>5, <1>7, <1>8, <1>9, <2>1, SameBlocks
  <1>11. /\ e3 \in Card /\ e3.imap = s2 /\ e3.inode = d.inode /\ e3.block = e1.block /\ e3.bmap = s3
         /\ Bmap(s3) \in Writes
    <2>1. s3 \in SUBSET Blocks
      BY Numbers
    <2> HIDE DEF s2, s3
    <2> QED  BY <1>9, <2>1, ApplyBmap, WritesTyped
  <1> HIDE DEF e3
  <1>12. Sane(e3) /\ Named(e3) = {} /\ \A b : Data(e3, b) <=> Data(e1, b)
    <2>1. \A b \in e2.bmap \ e3.bmap : b = 0 \/ ~Data(e2, b)
      BY <1>6, <1>7, <1>9, <1>10 DEF Card
    <2> HIDE DEF s2, s3
    <2> QED  BY <1>8, <1>9, <1>10, <1>11, <2>1, SameBlocks
  <1>13. r4 \in InodeT /\ r4.type = "dir" /\ r4.block = ROOTBLOCK
    BY Numbers DEF NewInode, InodeT, Types
  <1> HIDE DEF r4
  <1>14. /\ e4 \in Card /\ e4.imap = s2 /\ e4.bmap = s3 /\ e4.block = e1.block /\ e4.inode[Root] = r4
         /\ Ino(Root, r4) \in Writes
    <2>1. /\ e4 \in Card /\ e4.imap = e3.imap /\ e4.bmap = e3.bmap /\ e4.block = e3.block
          /\ e4.inode = [e3.inode EXCEPT ![Root] = r4] /\ Ino(Root, r4) \in Writes
      BY <1>11, <1>13, ApplyIno, WritesTyped, Numbers
    <2>2. e3.inode \in [Inodes -> InodeT]
      BY <1>11 DEF Card
    <2> HIDE DEF e4, s2, s3
    <2> QED  BY <1>11, <2>1, <2>2, Numbers
  <1> HIDE DEF e4
  <1>15. Settled(e4)
    BY <1>13, <1>14, Numbers DEF Settled
  <1>16. Sane(e4) /\ Named(e4) = {}
    <2>1. \A b \in e3.bmap \ e4.bmap : b = 0 \/ ~Data(e3, b)
      BY <1>11, <1>14
    <2> HIDE DEF s2, s3
    <2> QED  BY <1>11, <1>12, <1>14, <1>15, <2>1, SameBlocks
  <1>17. d.block[ROOTBLOCK] = e4.block[ROOTBLOCK]
    BY <1>4, <1>14, Numbers DEF Written
  <1>18. c5 \in [Cells -> CellT] /\ AddsNone(e4, ROOTBLOCK, c5)
    BY <1>14, <1>17, DotsFacts, Numbers
  <1> HIDE DEF c5
  <1>19. Written(e4, ROOTBLOCK, c5, e5) /\ Blk(ROOTBLOCK, c5) \in Writes
    BY <1>14, <1>18, BlkWritten, Numbers
  <1> HIDE DEF e5
  <1>20. Sane(e5) /\ Named(e5) = {}
    BY <1>16, <1>18, <1>19, NoNewEntry, Numbers
  <1>21. Rooted(d, e5)
    <2>1. Settled(e5)
      BY <1>15, <1>19 DEF Settled, Written
    <2>2. e5.inode[Root] = r4 /\ e5.block[ROOTBLOCK] = c5
      BY <1>14, <1>19 DEF Written
    <2> QED  BY <1>20, <2>1, <2>2 DEF Rooted, r4, c5
  <1> HIDE DEF s2, s3
  <1>220. /\ Stem(d, e1, {}) /\ Stem(d, e2, {}) /\ Stem(d, e3, {})
          /\ Stem(d, e4, {}) /\ Stem(d, e5, {})
    BY <1>5, <1>10, <1>12, <1>16, <1>20 DEF Stem
  <1>22. LeadsBy({}, d, <<Blk(0, c1)>>, e1)
    BY <1>4, <1>5, <1>220, LeadsByOne DEF e1
  <1>23. LeadsBy({}, d, <<Blk(0, c1), Imap(s2)>>, e2)
    <2>1. LeadsBy({}, d, Append(<<Blk(0, c1)>>, Imap(s2)), e2)
      BY <1>0, <1>9, <1>10, <1>22, <1>220, LeadsByOn DEF e2
    <2>2. Append(<<Blk(0, c1)>>, Imap(s2)) = <<Blk(0, c1), Imap(s2)>>
      BY <1>4, <1>9, Append2
    <2> QED  BY <2>1, <2>2
  <1>24. LeadsBy({}, d, <<Blk(0, c1), Imap(s2), Bmap(s3)>>, e3)
    <2>1. LeadsBy({}, d, Append(<<Blk(0, c1), Imap(s2)>>, Bmap(s3)), e3)
      BY <1>0, <1>11, <1>12, <1>23, <1>220, LeadsByOn DEF e3
    <2>2. Append(<<Blk(0, c1), Imap(s2)>>, Bmap(s3)) = <<Blk(0, c1), Imap(s2), Bmap(s3)>>
      BY <1>4, <1>9, <1>11, Append3
    <2> QED  BY <2>1, <2>2
  <1>25. LeadsBy({}, d, <<Blk(0, c1), Imap(s2), Bmap(s3), Ino(Root, r4)>>, e4)
    <2>1. LeadsBy({}, d, Append(<<Blk(0, c1), Imap(s2), Bmap(s3)>>, Ino(Root, r4)), e4)
      BY <1>0, <1>14, <1>16, <1>24, <1>220, LeadsByOn DEF e4
    <2>2. Append(<<Blk(0, c1), Imap(s2), Bmap(s3)>>, Ino(Root, r4)) = <<Blk(0, c1), Imap(s2), Bmap(s3), Ino(Root, r4)>>
      BY <1>4, <1>9, <1>11, <1>14, Append4
    <2> QED  BY <2>1, <2>2
  <1>26. LeadsBy({}, d, <<Blk(0, c1), Imap(s2), Bmap(s3), Ino(Root, r4), Blk(ROOTBLOCK, c5)>>, e5)
    <2>1. LeadsBy({}, d, Append(<<Blk(0, c1), Imap(s2), Bmap(s3), Ino(Root, r4)>>, Blk(ROOTBLOCK, c5)), e5)
      BY <1>0, <1>19, <1>20, <1>25, <1>220, LeadsByOn DEF e5
    <2>2. Append(<<Blk(0, c1), Imap(s2), Bmap(s3), Ino(Root, r4)>>, Blk(ROOTBLOCK, c5))
            = <<Blk(0, c1), Imap(s2), Bmap(s3), Ino(Root, r4), Blk(ROOTBLOCK, c5)>>
      BY <1>4, <1>9, <1>11, <1>14, <1>19, Append5
    <2> QED  BY <2>1, <2>2
  <1>27. MkfsWrites(d) = <<Blk(0, c1), Imap(s2), Bmap(s3), Ino(Root, r4), Blk(ROOTBLOCK, c5)>>
    <2>1. d.block[0][0] # Super
      BY CellsTyped, Numbers DEF Blank
    <2> QED  BY <2>1 DEF MkfsWrites, c1, s2, s3, r4, c5
  <1> QED
    BY <1>21, <1>26, <1>27 DEF LeadsBy

\* A write of one cell of a file, to a block that is new, the file's or block 0.
FileWrites(d, alloc, b, p, x, sized, n, v) ==
    (IF alloc THEN <<Bmap(d.bmap \cup {b})>> ELSE <<>>)
    \o <<Blk(b, [d.block[b] EXCEPT ![p] = Cell(x, 0, "file")])>>
    \o (IF sized THEN <<Ino(n, [ReadInode(d, n) EXCEPT !.size = v])>> ELSE <<>>)
Grown(d, b, e) == /\ Settled(e) /\ d.bmap \subseteq e.bmap
                  /\ \A c : DirBlock(e, c) => DirBlock(d, c)
                  /\ b = 0 \/ (b \in e.bmap /\ ~DirBlock(d, b))
                  /\ Named(e) \subseteq Named(d)
                  /\ \A m \in Inodes : e.inode[m].type = d.inode[m].type

LEMMA FwriteLeads ==
    ASSUME NEW d, Sane(d), Settled(d), NEW alloc \in BOOLEAN, NEW sized \in BOOLEAN,
           NEW b \in Blocks, NEW p \in Cells, NEW x \in ToSet(Plane), x \notin Names,
           NEW n \in Inodes, NEW v \in Int,
           alloc => b \notin d.bmap,
           ~alloc => b = 0 \/ (b \in d.bmap /\ ~DirBlock(d, b))
    PROVE  \E e : /\ Leads(d, FileWrites(d, alloc, b, p, x, sized, n, v), e) /\ Grown(d, b, e)
                  /\ LeadsBy({}, d, FileWrites(d, alloc, b, p, x, sized, n, v), e)
PROOF
  <1> DEFINE s1 == d.bmap \cup {b}
             w1 == IF alloc THEN <<Bmap(s1)>> ELSE <<>>
             e1 == IF alloc THEN Apply(d, Bmap(s1)) ELSE d
             c2 == [d.block[b] EXCEPT ![p] = Cell(x, 0, "file")]
             e2 == Apply(e1, Blk(b, c2))
             r3 == [ReadInode(d, n) EXCEPT !.size = v]
             e3 == IF sized THEN Apply(e2, Ino(n, r3)) ELSE e2
             w3 == IF sized THEN <<Ino(n, r3)>> ELSE <<>>
  <1>0. d \in Card /\ d.block[b] \in [Cells -> CellT]
    BY DEF Sane, Card
  <1>1. b = 0 \/ ~DirBlock(d, b)
    BY DEF Sane, Settled, NamedExist, Held, DirBlock
  <1>2. alloc => Apply(d, Bmap(s1)) \in Card /\ Apply(d, Bmap(s1)).imap = d.imap /\ Apply(d, Bmap(s1)).bmap = s1
                 /\ Apply(d, Bmap(s1)).inode = d.inode /\ Apply(d, Bmap(s1)).block = d.block /\ Bmap(s1) \in Writes
    <2>1. s1 \in SUBSET Blocks
      BY <1>0 DEF Card
    <2> HIDE DEF s1
    <2> QED  BY <1>0, <2>1, ApplyBmap, WritesTyped
  <1>3. /\ e1 \in Card /\ e1.imap = d.imap /\ e1.inode = d.inode /\ e1.block = d.block
        /\ d.bmap \subseteq e1.bmap /\ (b = 0 \/ b \in e1.bmap)
    BY <1>0, <1>2
  <1>4. Sane(e1) /\ Named(e1) = Named(d) /\ (\A c : DirBlock(e1, c) <=> DirBlock(d, c))
    <2> HIDE DEF e1
    <2>1. \A m \in Named(d) : m \in e1.imap /\ (d.inode[m].block \in e1.bmap \/ d.inode[m].block = 0)
      BY <1>3 DEF Sane, NamedExist, Held
    <2>2. Settled(e1)
      BY <1>3 DEF Settled
    <2>3. \A c \in d.bmap \ e1.bmap : c = 0 \/ ~Data(d, c)
      BY <1>3
    <2> QED  BY <1>3, <2>1, <2>2, <2>3, SameBlocks
  <1>5. LeadsBy({}, d, w1, e1)
    <2>1. CASE alloc
      <3>1. e1 = Apply(d, Bmap(s1)) /\ w1 = <<Bmap(s1)>>
        BY <2>1
      <3>2. Bmap(s1) \in Writes /\ Sane(Apply(d, Bmap(s1))) /\ Stem(d, e1, {})
        BY <1>2, <1>3, <1>4, <2>1, <3>1 DEF Stem
      <3> HIDE DEF e1, w1, s1
      <3> QED  BY <3>1, <3>2, LeadsByOne
    <2>2. CASE ~alloc
      BY <2>2, LeadsByNowhere
    <2> QED  BY <2>1, <2>2
  <1> HIDE DEF e1, w1, s1
  <1>6. c2 \in [Cells -> CellT] /\ AddsNone(e1, b, c2)
    <2>1. Cell(x, 0, "file") \in CellT /\ Cell(x, 0, "file").name = x
      BY CellsTyped
    <2>2. c2 \in [Cells -> CellT] /\ \A j \in Cells : c2[j] = d.block[b][j] \/ c2[j].name = x
      BY <1>0, <2>1
    <2>3. ~DirBlock(e1, b)
      <3>1. ~DirBlock(d, 0)
        BY Numbers DEF Sane, NamedExist, Held, DirBlock
      <3> QED  BY <1>1, <1>4, <3>1
    <2> HIDE DEF c2
    <2> QED  BY <1>3, <2>2, <2>3 DEF AddsNone
  <1> HIDE DEF c2
  <1>7. Written(e1, b, c2, e2) /\ Blk(b, c2) \in Writes
    BY <1>3, <1>6, BlkWritten
  <1>8. LeadsBy({}, d, Append(w1, Blk(b, c2)), e2) /\ Sane(e2) /\ e2 \in Card
    <2>1. Sane(e2)
      <3> HIDE DEF e2
      <3> QED  BY <1>4, <1>6, <1>7, NoNewEntry
    <2>2. Stem(d, e2, {})
      <3>1. Named(e2) \subseteq Named(d)
        BY <1>4, <1>6, <1>7, NoNewEntry
      <3>2. e2.inode = d.inode
        BY <1>3, <1>7 DEF Written
      <3> QED  BY <3>1, <3>2 DEF Stem
    <2> QED  BY <1>0, <1>5, <1>7, <2>1, <2>2, LeadsByOn DEF Sane
  <1> HIDE DEF e2
  <1>9. Named(e2) \subseteq Named(d) /\ \A c : DirBlock(e2, c) => DirBlock(d, c)
    BY <1>4, <1>6, <1>7, NoNewEntry
  <1>10. e2.imap = d.imap /\ e2.inode = d.inode /\ e2.bmap = e1.bmap
    BY <1>3, <1>7 DEF Written
  <1>11. r3 \in InodeT /\ (Fits(n) => r3.type = e2.inode[n].type /\ r3.block = e2.inode[n].block) /\ Ino(n, r3) \in Writes
    <2>1. ReadInode(d, n) \in InodeT /\ (Fits(n) => ReadInode(d, n) = d.inode[n]) /\ r3 \in InodeT
      BY <1>0, ReadTyped
    <2>2. r3.type = ReadInode(d, n).type /\ r3.block = ReadInode(d, n).block
      BY <2>1 DEF InodeT
    <2> HIDE DEF r3
    <2> QED  BY <1>10, <2>1, <2>2, WritesTyped
  <1> HIDE DEF r3
  <1>12. ASSUME sized
         PROVE  /\ Sane(e3) /\ Named(e3) = Named(e2) /\ \A c : DirBlock(e3, c) <=> DirBlock(e2, c)
                /\ e3.imap = e2.imap /\ e3.bmap = e2.bmap
                /\ \A m \in Inodes : e3.inode[m].type = e2.inode[m].type /\ e3.inode[m].block = e2.inode[m].block
    <2>1. e3 = Apply(e2, Ino(n, r3))
      BY <1>12
    <2> HIDE DEF e3
    <2> QED  BY <1>8, <1>11, <2>1, Rewrite
  <1>13. Grown(d, b, e3)
    <2>1. /\ e3.imap = e2.imap /\ e3.bmap = e2.bmap /\ \A c : DirBlock(e3, c) <=> DirBlock(e2, c)
          /\ e3.inode[Root].type = e2.inode[Root].type /\ e3.inode[Root].block = e2.inode[Root].block
          /\ Named(e3) = Named(e2) /\ \A m \in Inodes : e3.inode[m].type = e2.inode[m].type
      <3>1. CASE sized
        <4> HIDE DEF e3
        <4> QED  BY <1>12, <3>1, Numbers
      <3>2. CASE ~sized
        BY <3>2
      <3> QED  BY <3>1, <3>2
    <2> HIDE DEF e3
    <2> QED  BY <1>1, <1>3, <1>9, <1>10, <2>1 DEF Grown, Settled
  <1>14. FileWrites(d, alloc, b, p, x, sized, n, v) = w1 \o <<Blk(b, c2)>> \o w3
    BY DEF FileWrites, w1, s1, c2, w3, r3
  <1>15. w1 \in Seq(Writes)
    BY <1>5 DEF Leads, LeadsBy
  <1>16. CASE sized
    <2>1. LeadsBy({}, d, Append(Append(w1, Blk(b, c2)), Ino(n, r3)), e3)
      <3>1. e3 = Apply(e2, Ino(n, r3))
        BY <1>16
      <3>2. Sane(e3)
        BY <1>12, <1>16
      <3>3. Stem(d, e3, {})
        <4>1. \A m \in Named(e3) : m \in Named(d) /\ m \in Inodes
          BY <1>9, <1>12, <1>16 DEF Named
        <4> QED  BY <1>10, <1>12, <1>16, <4>1 DEF Stem
      <3> HIDE DEF e3
      <3> QED  BY <1>0, <1>8, <1>11, <3>1, <3>2, <3>3, LeadsByOn
    <2>2. w1 \o <<Blk(b, c2)>> \o w3 = Append(Append(w1, Blk(b, c2)), Ino(n, r3))
      BY <1>7, <1>11, <1>15, <1>16
    <2> QED  BY <1>13, <1>14, <2>1, <2>2 DEF LeadsBy
  <1>17. CASE ~sized
    <2>1. w1 \o <<Blk(b, c2)>> \o w3 = Append(w1, Blk(b, c2)) /\ e3 = e2
      BY <1>7, <1>11, <1>15, <1>17
    <2> HIDE DEF e3
    <2> QED  BY <1>8, <1>13, <1>14, <2>1 DEF LeadsBy
  <1> QED
    BY <1>16, <1>17

---------------------------------------------------------------------------
(* The invariant.                                                          *)

Bad == {"mkfs", "over", "unfit", "again"}

\* What the system and the shell keep in memory.
FileT == [inode : Inodes, size : Int, w_ptr : Nat, direct : [0..Len(Plane) -> Blocks]]
TypedMemory ==
    /\ path_inode \in Inodes /\ users \in Nat /\ file \in FileT
    /\ inst_path \in Seq(STRING \cup Names)
    /\ shell.op \in {"mkdir", "touch", "rmdir"} => inst_path # <<>> /\ inst_path[1] \in Names
    /\ saved \in [inode : Inodes, cells : Seq(ToSet(Plane))] /\ file.w_ptr <= Len(saved.cells)

\* The blocks of the open file are its own or block 0.
Opened(f, d) == \A k \in 0..Len(Plane) :
    f.direct[k] = 0 \/ (f.direct[k] \in d.bmap /\ ~DirBlock(d, f.direct[k]))

\* What the card is when the call's writes are done.
Ready(d, u, f, s) == \/ Blank(d) /\ u = 0 /\ s = Idle
                     \/ Settled(d) /\ (u > 0 => Opened(f, d))

FGood == /\ disk \in Card /\ TypedMemory
         /\ Leads(disk, pending, After(disk, pending))
         /\ Ready(After(disk, pending), users, file, shell)
FInv == Unless(Bad) => FGood

\* Between calls the card itself is sane.
LEMMA QuietFacts ==
    ASSUME FGood, pending = <<>>
    PROVE  Sane(disk) /\ disk \in Card /\ Ready(disk, users, file, shell)
PROOF
  <1>1. After(disk, <<>>) = disk
    <2>1. disk \in Card /\ <<>> \in Seq(Writes) /\ Len(<<>>) = 0
      BY DEF FGood
    <2> QED  BY <2>1, DoneFacts DEF After
  <1>2. Len(pending) = 0 /\ 0 \in 0..Len(pending) /\ Done(disk, pending, 0) = disk
    BY <1>1 DEF After
  <1> QED
    BY <1>1, <1>2 DEF FGood, Leads

\* The blocks of the open file stay its own.
LEMMA OpenedStays ==
    ASSUME NEW d, NEW e, NEW f, Opened(f, d),
           \A c \in d.bmap : DirBlock(e, c) => DirBlock(d, c),
           \A c \in d.bmap \ e.bmap : c = 0 \/ DirBlock(d, c)
    PROVE  Opened(f, e)
  BY DEF Opened

\* A cell of a file is in one of its blocks.
LEMMA CellPlace ==
    ASSUME NEW w \in Nat, w < Len(Plane)
    PROVE  w \div NCELL \in 0..Len(Plane) /\ w % NCELL \in Cells
PROOF
  <1> DEFINE q == w \div NCELL
             r == w % NCELL
  <1>1. NCELL \in Nat /\ NCELL > 0 /\ Len(Plane) \in Nat
    <2>1. NCELL \in Nat \ {0, 1}
      BY FileSysAssumption
    <2>2. Plane \in Seq(STRING)
      BY FileSysAssumption
    <2>3. Len(Plane) \in Nat
      BY <2>2
    <2> QED  BY <2>1, <2>3
  <1>2. q \in Int /\ r \in 0..NCELL - 1 /\ w = NCELL * q + r
    BY <1>1
  <1> HIDE DEF q, r
  <1>3. q >= 0
    <2> SUFFICES ASSUME q < 0 PROVE FALSE
      BY <1>2
    <2>1. NCELL * q <= NCELL * (-1)
      BY <1>1, <1>2
    <2> QED  BY <1>1, <1>2, <2>1
  <1>4. q <= w
    <2>1. (NCELL - 1) * q >= 0
      BY <1>1, <1>2, <1>3
    <2>2. (NCELL - 1) * q = NCELL * q - q
      BY <1>1, <1>2
    <2>3. NCELL * q \in Int
      BY <1>1, <1>2
    <2> QED  BY <1>1, <1>2, <2>1, <2>2, <2>3
  <1>5. q \in 0..Len(Plane) /\ r \in Cells
    BY <1>1, <1>2, <1>3, <1>4 DEF Cells
  <1> QED
    BY <1>5 DEF q, r

\* One turn of the loop leads to an inode or nowhere.
Places == Inodes \cup {-1}
LEMMA EnterTyped ==
    ASSUME NEW d \in Card, NEW x \in Places, NEW name
    PROVE  Enter(d, x, name) \in Places
PROOF
  <1> DEFINE j == IF x = -1 THEN -1 ELSE Find(d, x, 0, name, "dir")
  <1>1. j # -1 => x \in Inodes /\ j \in Cells /\ ReadInode(d, x).block \in Blocks
    <2>1. CASE x = -1
      BY <2>1
    <2>2. CASE x # -1
      <3>1. x \in Inodes /\ j = Find(d, x, 0, name, "dir")
        BY <2>2 DEF Places
      <3> HIDE DEF j
      <3> QED  BY <3>1, FindFacts
    <2> QED  BY <2>1, <2>2
  <1>2. Enter(d, x, name) = IF j = -1 THEN -1 ELSE d.block[ReadInode(d, x).block][j].id
    BY DEF Enter
  <1> HIDE DEF j
  <1> QED
    BY <1>1, <1>2 DEF Card, CellT, Places

\* The directories a path goes through.
Route(d, start, path, f) ==
    /\ f \in [0..Len(path) -> Places] /\ f[0] = start
    /\ \A k \in 1..Len(path) : f[k] = Enter(d, f[k - 1], path[k])

LEMMA RouteOnce ==
    ASSUME NEW d, NEW start, NEW S, NEW path \in Seq(S),
           NEW f, Route(d, start, path, f), NEW g, Route(d, start, path, g)
    PROVE  f = g
PROOF
  <1> DEFINE N == Len(path)
             T == {k \in 0..N : f[k] # g[k]}
  <1>1. N \in Nat
    OBVIOUS
  <1>2. T = {}
    <2> SUFFICES ASSUME T # {} PROVE FALSE
      OBVIOUS
    <2>1. PICK m \in T : \A n \in T : m <= n
      <3>1. T \in SUBSET Nat
        OBVIOUS
      <3> HIDE DEF T
      <3> QED  BY <3>1, LeastMember
    <2>2. m \in 1..N /\ m - 1 \in 0..N /\ m - 1 \notin T
      BY <1>1, <2>1 DEF Route
    <2>3. f[m - 1] = g[m - 1]
      BY <2>2
    <2> QED  BY <2>1, <2>2, <2>3 DEF Route
  <1> QED
    BY <1>2 DEF Route

LEMMA RouteExists ==
    ASSUME NEW d \in Card, NEW start \in Places, NEW S, NEW path \in Seq(S)
    PROVE  \E f : Route(d, start, path, f) /\ Locate(d, start, path) = f[Len(path)]
PROOF
  <1> DEFINE N == Len(path)
             G == [k \in 1..N |-> [x \in Places |-> Enter(d, x, path[k])]]
  <1>1. N \in Nat
    OBVIOUS
  <1>2. \A k \in 1..N : \A x \in Places : G[k][x] = Enter(d, x, path[k]) /\ G[k][x] \in Places
    BY EnterTyped
  <1>3. PICK f : f \in [0..N -> Places] /\ f[0] = start /\ \A k \in 1..N : f[k] = G[k][f[k - 1]]
    <2>1. Turns(N, Places, G)
      BY <1>2 DEF Turns
    <2> HIDE DEF G, N
    <2>2. PICK f : Loop(f, N, Places, start, G)
      BY <1>1, <2>1, LoopExists
    <2> QED  BY <2>2 DEF Loop
  <1> DEFINE P(h) == h = [k \in 0..Len(path) |-> IF k = 0 THEN start ELSE Enter(d, h[k - 1], path[k])]
             at[k \in 0..Len(path)] == IF k = 0 THEN start ELSE Enter(d, at[k - 1], path[k])
  <1>4. \A k \in 1..N : f[k] = Enter(d, f[k - 1], path[k])
    <2> TAKE k \in 1..N
    <2>1. f[k - 1] \in Places
      BY <1>1, <1>3
    <2> HIDE DEF G
    <2> QED  BY <1>2, <1>3, <2>1
  <1>5. P(f)
    BY <1>1, <1>3, <1>4
  <1>6. at = CHOOSE h : P(h)
    OBVIOUS
  <1>7. P(at)
    <2> HIDE DEF P, at
    <2> QED  BY <1>5, <1>6
  <1>8. Locate(d, start, path) = at[N]
    BY DEF Locate
  <1>9. DOMAIN at = 0..N /\ \A k \in 0..N : at[k] = IF k = 0 THEN start ELSE Enter(d, at[k - 1], path[k])
    <2> HIDE DEF at
    <2> QED  BY <1>7
  <1> HIDE DEF at, P, G
  <1> DEFINE T == {k \in 0..N : at[k] # f[k]}
  <1>10. T = {}
    <2> SUFFICES ASSUME T # {} PROVE FALSE
      OBVIOUS
    <2>1. PICK m \in T : \A n \in T : m <= n
      <3>1. T \in SUBSET Nat
        OBVIOUS
      <3> HIDE DEF T
      <3> QED  BY <3>1, LeastMember
    <2>2. m \in 1..N /\ m - 1 \in 0..N /\ m - 1 \notin T
      BY <1>1, <1>3, <1>9, <2>1
    <2>3. at[m] = Enter(d, at[m - 1], path[m]) /\ at[m - 1] = f[m - 1]
      BY <1>9, <2>2
    <2> QED  BY <1>4, <2>1, <2>2, <2>3
  <1>11. at[N] = f[N]
    BY <1>1, <1>10
  <1> QED
    BY <1>3, <1>4, <1>8, <1>11 DEF Route

\* Whatever goes from directory to directory as the path says ends where it leads.
LEMMA LocateIs ==
    ASSUME NEW d \in Card, NEW start \in Places, NEW S, NEW path \in Seq(S),
           NEW g, Route(d, start, path, g)
    PROVE  Locate(d, start, path) = g[Len(path)]
PROOF
  <1>1. PICK f : Route(d, start, path, f) /\ Locate(d, start, path) = f[Len(path)]
    BY RouteExists
  <1>2. f = g
    BY <1>1, RouteOnce
  <1> QED
    BY <1>1, <1>2

\* A path leads to an inode or nowhere.
LEMMA LocateFacts ==
    ASSUME NEW d \in Card, NEW start \in Inodes, NEW S, NEW path \in Seq(S)
    PROVE  Locate(d, start, path) \in Inodes \cup {-1}
PROOF
  <1>1. start \in Places /\ Len(path) \in 0..Len(path)
    BY DEF Places
  <1>2. PICK f : Route(d, start, path, f) /\ Locate(d, start, path) = f[Len(path)]
    BY <1>1, RouteExists
  <1> QED
    BY <1>1, <1>2 DEF Route, Places

\* The empty path, and a path one name longer.
LEMMA LocateEmpty ==
    ASSUME NEW d \in Card, NEW start \in Places
    PROVE  Locate(d, start, <<>>) = start
PROOF
  <1>1. <<>> \in Seq(Names) /\ Len(<<>>) = 0
    OBVIOUS
  <1>2. PICK f : Route(d, start, <<>>, f) /\ Locate(d, start, <<>>) = f[Len(<<>>)]
    BY <1>1, RouteExists
  <1> QED
    BY <1>1, <1>2 DEF Route

LEMMA LocateAppend ==
    ASSUME NEW d \in Card, NEW start \in Places, NEW S, NEW path \in Seq(S), NEW z \in S
    PROVE  Locate(d, start, Append(path, z)) = Enter(d, Locate(d, start, path), z)
PROOF
  <1> DEFINE p == Append(path, z)
             N == Len(path)
  <1>1. /\ N \in Nat /\ p \in Seq(S) /\ Len(p) = N + 1 /\ p[N + 1] = z
        /\ \A k \in 1..N : p[k] = path[k]
    OBVIOUS
  <1> HIDE DEF p
  <1>2. PICK f : Route(d, start, p, f) /\ Locate(d, start, p) = f[N + 1]
    BY <1>1, RouteExists
  <1> DEFINE g == [k \in 0..N |-> f[k]]
  <1>3. Route(d, start, path, g)
    <2>0. f \in [0..N + 1 -> Places]
      BY <1>1, <1>2 DEF Route
    <2>1. \A k \in 0..N : k \in 0..N + 1 /\ g[k] = f[k] /\ f[k] \in Places
      BY <1>1, <2>0
    <2>2. \A k \in 1..N : g[k] = Enter(d, g[k - 1], path[k])
      <3> TAKE k \in 1..N
      <3>1. k - 1 \in 0..N /\ k \in 0..N /\ k \in 1..N + 1
        BY <1>1
      <3>2. f[k] = Enter(d, f[k - 1], p[k])
        BY <1>1, <1>2, <3>1 DEF Route
      <3> HIDE DEF g
      <3> QED  BY <1>1, <2>1, <3>1, <3>2
    <2> QED  BY <1>1, <1>2, <2>1, <2>2 DEF Route
  <1>4. Locate(d, start, path) = g[N] /\ g[N] = f[N]
    BY <1>1, <1>3, LocateIs
  <1>5. f[N + 1] = Enter(d, f[N], z)
    <2>1. N + 1 \in 1..N + 1 /\ N + 1 - 1 = N
      BY <1>1
    <2> QED  BY <1>1, <1>2, <2>1 DEF Route
  <1> HIDE DEF g
  <1> QED
    BY <1>2, <1>4, <1>5 DEF p

LEMMA InitGood ==
    ASSUME Init
    PROVE  FGood
PROOF
  <1> DEFINE z == [n \in Inodes |-> ZeroInode]
             y == [b \in Blocks |-> [j \in Cells |-> EmptyCell]]
  <1>1. z \in [Inodes -> InodeT] /\ y \in [Blocks -> [Cells -> CellT]]
    <2>1. ZeroInode \in InodeT
      BY Numbers DEF ZeroInode, InodeT, Types
    <2> QED  BY <2>1, CellsTyped
  <1>2. disk.imap = {} /\ disk.bmap = {} /\ disk.inode = z /\ disk.block = y /\ disk \in Card
    BY <1>1 DEF Init, Card
  <1>3. \A b \in Blocks, j \in Cells : disk.block[b][j].name = ""
    <2>1. \A b \in Blocks, j \in Cells : y[b][j] = EmptyCell
      OBVIOUS
    <2>2. EmptyCell.name = ""
      BY CellsTyped
    <2> HIDE DEF y, z
    <2> QED  BY <1>2, <2>1, <2>2
  <1>4. disk.inode[Root].type = "file"
    BY <1>2, Numbers DEF ZeroInode
  <1>5. Named(disk) = {} /\ \A b \in Blocks : ~Data(disk, b)
    BY <1>3, NamesApart DEF Named, Data
  <1>6. Sane(disk)
    <2>1. NamedOnce(disk) /\ NamedTyped(disk)
      BY <1>3, NamesApart DEF NamedOnce, NamedTyped
    <2> QED  BY <1>2, <1>4, <1>5, <2>1 DEF Sane, NamedExist, NamedApart, DataApart
  <1>7. Leads(disk, pending, disk)
    BY <1>6, LeadsNowhere DEF Init
  <1>8. Blank(disk)
    BY <1>2, <1>3, <1>4 DEF Blank
  <1>9. TypedMemory
    <2>1. Len(Plane) \in Nat
      <3>1. Plane \in Seq(STRING)
        BY FileSysAssumption
      <3> QED  BY <3>1
    <2>2. NoFile \in FileT /\ NoFile.w_ptr = 0
      BY <2>1, Numbers DEF NoFile, FileT
    <2>3. <<>> \in Seq(ToSet(Plane)) /\ Len(<<>>) = 0 /\ <<>> \in Seq(STRING \cup Names)
      OBVIOUS
    <2>4. saved \in [inode : Inodes, cells : Seq(ToSet(Plane))] /\ saved.cells = <<>>
      BY <2>3, Numbers DEF Init
    <2>5. path_inode \in Inodes /\ users \in Nat /\ file = NoFile /\ inst_path = <<>> /\ shell.op = "idle"
      BY Numbers DEF Init, Idle
    <2> QED  BY <2>2, <2>3, <2>4, <2>5 DEF TypedMemory
  <1>10. After(disk, pending) = disk
    BY <1>7 DEF Leads
  <1> QED
    BY <1>2, <1>7, <1>8, <1>9, <1>10 DEF FGood, Ready, Init

LEMMA CardWriteGood ==
    ASSUME FGood, CardWrite
    PROVE  FGood'
PROOF
  <1>1. /\ pending # <<>> /\ disk' = Apply(disk, Head(pending)) /\ pending' = Tail(pending)
        /\ UNCHANGED <<path_inode, shell_path, inst_path, shell, file, users, saved, calls, boots, harm>>
    BY DEF CardWrite
  <1>2. disk \in Card /\ pending \in Seq(Writes) /\ \A k \in 0..Len(pending) : Sane(Done(disk, pending, k))
    BY DEF FGood, Leads
  <1>3. /\ pending' \in Seq(Writes) /\ Len(pending') = Len(pending) - 1 /\ disk' \in Card
        /\ \A k \in 0..Len(pending) - 1 : Done(disk', pending', k) = Done(disk, pending, k + 1)
    BY <1>1, <1>2, DoneShift
  <1>4. Len(pending) \in Nat /\ Len(pending) >= 1
    BY <1>1, <1>2
  <1>5. After(disk', pending') = After(disk, pending)
    BY <1>3, <1>4 DEF After
  <1>6. \A k \in 0..Len(pending') : Sane(Done(disk', pending', k))
    BY <1>2, <1>3, <1>4
  <1>7. Leads(disk', pending', After(disk', pending'))
    BY <1>3, <1>6 DEF Leads
  <1>8. TypedMemory'
    BY <1>1 DEF FGood, TypedMemory
  <1>9. Ready(After(disk', pending'), users', file', shell')
    BY <1>1, <1>5 DEF FGood
  <1> QED
    BY <1>3, <1>7, <1>8, <1>9 DEF FGood

\* Memory that a restart leaves.
LEMMA RestartGood ==
    ASSUME FGood, Restart, Unless(Bad)'
    PROVE  FGood'
PROOF
  <1>1. /\ pending' = <<>> /\ shell' = Idle /\ path_inode' = Root /\ inst_path' = <<>>
        /\ file' = NoFile /\ users' = 0 /\ disk' = disk /\ saved' = saved
        /\ pending # <<>> /\ ~RootMade(disk) => "mkfs" \in harm'
    BY DEF Restart
  <1>2. Sane(disk) /\ disk \in Card
    <2>1. disk \in Card /\ pending \in Seq(Writes) /\ Sane(Done(disk, pending, 0))
      BY DEF FGood, Leads
    <2> QED  BY <2>1, DoneFacts
  <1>3. Ready(disk, 0, NoFile, Idle)
    <2>1. CASE pending = <<>>
      BY <2>1, QuietFacts DEF Ready
    <2>2. CASE pending # <<>>
      <3>1. RootMade(disk)
        BY <1>1, <2>2 DEF Unless, Bad
      <3> QED  BY <1>2, <3>1 DEF RootMade, Sane, Ready
    <2> QED  BY <2>1, <2>2
  <1>4. Leads(disk', pending', disk')
    BY <1>1, <1>2, LeadsNowhere
  <1>5. After(disk', pending') = disk'
    BY <1>4 DEF Leads
  <1>6. TypedMemory'
    <2>1. Len(Plane) \in Nat
      <3>1. Plane \in Seq(STRING)
        BY FileSysAssumption
      <3> QED  BY <3>1
    <2>2. NoFile \in FileT /\ NoFile.w_ptr = 0
      BY <2>1, Numbers DEF NoFile, FileT
    <2>3. saved \in [inode : Inodes, cells : Seq(ToSet(Plane))] /\ 0 <= Len(saved.cells)
      <3>1. saved \in [inode : Inodes, cells : Seq(ToSet(Plane))]
        BY DEF FGood, TypedMemory
      <3>2. saved.cells \in Seq(ToSet(Plane))
        BY <3>1
      <3> QED  BY <3>1, <3>2
    <2>4. path_inode' \in Inodes /\ users' \in Nat /\ <<>> \in Seq(STRING \cup Names) /\ shell'.op = "idle"
      BY <1>1, Numbers DEF Idle
    <2> QED  BY <1>1, <2>2, <2>3, <2>4 DEF TypedMemory
  <1> QED
    BY <1>1, <1>2, <1>3, <1>4, <1>5, <1>6 DEF FGood

LEMMA MkfsGood ==
    ASSUME FGood, Mkfs, Unless(Bad)'
    PROVE  FGood'
PROOF
  <1>1. /\ pending = <<>> /\ shell = Idle /\ pending' = MkfsWrites(disk)
        /\ UNCHANGED <<disk, path_inode, inst_path, shell, file, users, saved>>
        /\ Root \in disk.imap /\ pending' # <<>> => "again" \in harm'
    BY DEF Mkfs
  <1>2. Sane(disk) /\ disk \in Card /\ Ready(disk, users, file, shell)
    BY <1>1, QuietFacts
  <1>3. TypedMemory'
    BY <1>1 DEF FGood, TypedMemory
  <1>4. \E e : Leads(disk, pending', e) /\ Ready(e, users, file, shell)
    <2>1. CASE pending' = <<>>
      BY <1>2, <2>1, LeadsNowhere
    <2>2. CASE pending' # <<>>
      <3>1. Root \notin disk.imap
        BY <1>1, <2>2 DEF Unless, Bad
      <3>2. Blank(disk) /\ users = 0
        BY <1>2, <3>1 DEF Ready, Settled
      <3>3. PICK e : Leads(disk, pending', e) /\ Settled(e)
        BY <1>1, <1>2, <3>2, MkfsLeads DEF Rooted
      <3> QED  BY <3>2, <3>3 DEF Ready
    <2> QED  BY <2>1, <2>2
  <1>5. PICK e : Leads(disk, pending', e) /\ Ready(e, users, file, shell)
    BY <1>4
  <1>6. e = After(disk, pending')
    BY <1>5 DEF Leads
  <1> QED
    BY <1>1, <1>2, <1>3, <1>5, <1>6 DEF FGood

LEMMA ParseGood ==
    ASSUME FGood, Parse
    PROVE  FGood'
PROOF
  <1>1. /\ pending = <<>> /\ Root \in disk.imap /\ inst_path' = shell'.path
        /\ UNCHANGED <<disk, pending, path_inode, file, users, saved>>
    BY DEF Parse
  <1>2. /\ inst_path' \in Seq(STRING \cup Names)
        /\ shell'.op \in {"mkdir", "touch", "rmdir"} => inst_path' # <<>> /\ inst_path'[1] \in Names
    <2>1. CASE \E a \in BOOLEAN, p \in CdPaths : shell' = [op |-> "cd", abs |-> a, path |-> p]
      <3>1. PICK p \in CdPaths : shell'.op = "cd" /\ shell'.path = p
        BY <2>1
      <3>2. p \in Seq(STRING)
        BY FileSysAssumption
      <3> QED  BY <1>1, <3>1, <3>2
    <2>2. CASE \E op \in {"mkdir", "touch", "rmdir"}, n \in Names :
                  shell' = [op |-> op, abs |-> FALSE, path |-> <<n>>]
      <3>1. PICK n \in Names : shell'.path = <<n>>
        BY <2>2
      <3> QED  BY <1>1, <3>1
    <2> QED  BY <2>1, <2>2 DEF Parse
  <1>3. Sane(disk) /\ disk \in Card /\ Ready(disk, users, file, shell)
    BY <1>1, QuietFacts
  <1>4. Ready(disk, users, file, shell')
    BY <1>1, <1>3 DEF Ready, Blank
  <1>5. Leads(disk', pending', disk')
    BY <1>1, <1>3, LeadsNowhere
  <1>6. After(disk', pending') = disk'
    BY <1>5 DEF Leads
  <1>7. TypedMemory'
    BY <1>1, <1>2 DEF FGood, TypedMemory
  <1> QED
    BY <1>1, <1>3, <1>4, <1>5, <1>6, <1>7 DEF FGood

\* A system call of the shell: the command line is read and done with.
LEMMA CalledFacts ==
    ASSUME FGood, NEW op, op # "idle", Called(op)
    PROVE  /\ Sane(disk) /\ disk \in Card /\ Settled(disk) /\ (users > 0 => Opened(file, disk))
           /\ pending = <<>> /\ shell.op = op /\ shell' = Idle /\ inst_path' = <<>>
           /\ inst_path' \in Seq(STRING \cup Names) /\ shell'.op = "idle"
PROOF
  <1>1. pending = <<>> /\ shell.op = op /\ shell' = Idle /\ inst_path' = <<>>
    BY DEF Called
  <1>2. Sane(disk) /\ disk \in Card /\ Ready(disk, users, file, shell)
    BY <1>1, QuietFacts
  <1>3. shell # Idle
    BY <1>1 DEF Idle
  <1> QED
    BY <1>1, <1>2, <1>3 DEF Ready, Idle

LEMMA CdGood ==
    ASSUME FGood, Cd
    PROVE  FGood'
PROOF
  <1> DEFINE dir == Locate(disk, IF shell.abs THEN Root ELSE path_inode, inst_path)
  <1>1. /\ Called("cd") /\ UNCHANGED <<disk, pending, file, users, saved>>
        /\ dir = -1 => path_inode' = path_inode
        /\ dir # -1 => path_inode' = dir
    BY DEF Cd
  <1>2. /\ Sane(disk) /\ disk \in Card /\ Settled(disk) /\ (users > 0 => Opened(file, disk))
        /\ pending = <<>> /\ shell' = Idle /\ inst_path' = <<>>
        /\ inst_path' \in Seq(STRING \cup Names) /\ shell'.op = "idle"
    BY <1>1, CalledFacts
  <1>3. path_inode \in Inodes /\ inst_path \in Seq(STRING \cup Names)
    BY DEF FGood, TypedMemory
  <1>4. dir \in Inodes \cup {-1}
    <2>1. (IF shell.abs THEN Root ELSE path_inode) \in Inodes
      BY <1>3, Numbers
    <2> QED  BY <1>2, <1>3, <2>1, LocateFacts
  <1>5. path_inode' \in Inodes
    BY <1>1, <1>3, <1>4
  <1>6. Leads(disk', pending', disk')
    BY <1>1, <1>2, LeadsNowhere
  <1>7. After(disk', pending') = disk'
    BY <1>6 DEF Leads
  <1>8. TypedMemory'
    BY <1>1, <1>2, <1>5 DEF FGood, TypedMemory
  <1>9. Ready(disk', users', file', shell')
    BY <1>1, <1>2 DEF Ready
  <1> QED
    BY <1>1, <1>2, <1>6, <1>7, <1>8, <1>9 DEF FGood

\* No known fault: the new inode fits its sector and no directory gets block 0.
LEMMA CreateHarmless ==
    ASSUME NEW d, NEW dir, NEW type, CreateHarms(d, dir, type) \cap Bad = {}
    PROVE  Fits(FirstFree(d.imap, Inodes)) /\ (type = "dir" => 0 \in d.bmap)
  BY DEF CreateHarms, Bad

LEMMA CreatedOpened ==
    ASSUME NEW d, NEW e, NEW type, Created(d, e, type), NEW f, Opened(f, d)
    PROVE  Opened(f, e)
PROOF
  <1>1. \A c \in d.bmap : DirBlock(e, c) => DirBlock(d, c)
    BY DEF Created
  <1>2. \A c \in d.bmap \ e.bmap : c = 0 \/ DirBlock(d, c)
    BY DEF Created
  <1> QED
    BY <1>1, <1>2, OpenedStays

LEMMA MakeGood ==
    ASSUME FGood, NEW op \in {"mkdir", "touch"}, NEW type \in Types, Make(op, type), Unless(Bad)'
    PROVE  FGood'
PROOF
  <1>1. /\ Called(op) /\ Room /\ UNCHANGED <<disk, path_inode, file, users, saved>>
        /\ pending' = Create(disk, path_inode, inst_path[1], type)
        /\ harm' = harm \cup CreateHarms(disk, path_inode, type)
    BY DEF Make
  <1>2. /\ Sane(disk) /\ disk \in Card /\ Settled(disk) /\ (users > 0 => Opened(file, disk))
        /\ shell.op = op /\ shell' = Idle /\ inst_path' = <<>>
        /\ inst_path' \in Seq(STRING \cup Names) /\ shell'.op = "idle"
    BY <1>1, CalledFacts
  <1>3. path_inode \in Inodes /\ inst_path[1] \in Names
    BY <1>2 DEF FGood, TypedMemory
  <1>4. Fits(FirstFree(disk.imap, Inodes)) /\ (type = "dir" => 0 \in disk.bmap)
    <2>1. CreateHarms(disk, path_inode, type) \cap Bad = {}
      BY <1>1 DEF Unless
    <2> QED  BY <2>1, CreateHarmless
  <1>5. PICK e : Leads(disk, pending', e) /\ Created(disk, e, type)
    BY <1>1, <1>2, <1>3, <1>4, CreateLeads DEF Room
  <1>6. After(disk', pending') = e /\ Leads(disk', pending', e)
    BY <1>1, <1>5 DEF Leads
  <1>7. Ready(e, users', file', shell')
    <2>1. users > 0 => Opened(file, e)
      BY <1>2, <1>5, CreatedOpened
    <2> QED  BY <1>1, <1>5, <2>1 DEF Ready, Created
  <1>8. TypedMemory'
    BY <1>1, <1>2 DEF FGood, TypedMemory
  <1> QED
    BY <1>1, <1>2, <1>6, <1>7, <1>8 DEF FGood

LEMMA RmdirGood ==
    ASSUME FGood, Rmdir
    PROVE  FGood'
PROOF
  <1>1. /\ Called("rmdir") /\ UNCHANGED <<disk, path_inode, file, users, saved>>
        /\ pending' = RmdirWrites(disk, path_inode, inst_path[1])
    BY DEF Rmdir
  <1>2. /\ Sane(disk) /\ disk \in Card /\ Settled(disk) /\ (users > 0 => Opened(file, disk))
        /\ shell.op = "rmdir" /\ shell' = Idle /\ inst_path' = <<>>
        /\ inst_path' \in Seq(STRING \cup Names) /\ shell'.op = "idle"
    BY <1>1, CalledFacts
  <1>3. path_inode \in Inodes /\ inst_path[1] \in Names
    BY <1>2 DEF FGood, TypedMemory
  <1>4. PICK e : Leads(disk, pending', e) /\ Removed(disk, e)
    BY <1>1, <1>2, <1>3, RmdirLeads
  <1>5. After(disk', pending') = e /\ Leads(disk', pending', e)
    BY <1>1, <1>4 DEF Leads
  <1>6. users > 0 => Opened(file, e)
    BY <1>2, <1>4, OpenedStays DEF Removed
  <1>7. Ready(e, users', file', shell')
    BY <1>1, <1>4, <1>6 DEF Ready, Removed
  <1>8. TypedMemory'
    BY <1>1, <1>2 DEF FGood, TypedMemory
  <1> QED
    BY <1>1, <1>2, <1>5, <1>7, <1>8 DEF FGood

LEMMA FopenGood ==
    ASSUME FGood, Fopen, Unless(Bad)'
    PROVE  FGood'
PROOF
  <1> DEFINE j   == Find(disk, path_inode, 2, PlaneName, "file")
             ws  == IF j = -1 THEN Create(disk, path_inode, PlaneName, "file") ELSE <<>>
             id  == IF j = -1 THEN FirstFree(disk.imap, Inodes)
                    ELSE disk.block[ReadInode(disk, path_inode).block][j].id
             ino == ReadInode(After(disk, ws), id)
             dr  == [i \in 0..Len(Plane) |-> IF i = 0 THEN ino.block ELSE 0]
  <1>1. /\ pending = <<>> /\ Root \in disk.imap /\ pending' = ws
        /\ j = -1 => Room /\ CreateHarms(disk, path_inode, "file") \subseteq harm'
        /\ inst_path' = NameBuffer(j # -1)
        /\ file' = [inode |-> id, size |-> ino.size, w_ptr |-> 0, direct |-> dr]
        /\ saved' = IF users > 0 THEN saved ELSE [inode |-> id, cells |-> <<>>]
        /\ users' = users + 1 /\ UNCHANGED <<disk, path_inode, shell>>
    BY DEF Fopen
  <1>2. /\ Sane(disk) /\ disk \in Card /\ Settled(disk)
        /\ path_inode \in Inodes /\ users \in Nat /\ inst_path \in Seq(STRING \cup Names)
    BY <1>1, QuietFacts DEF Ready, Blank, FGood, TypedMemory
  <1>3. \A k : j = k /\ k # -1 => /\ k \in Cells /\ ReadInode(disk, path_inode).block \in Blocks
                                  /\ disk.block[ReadInode(disk, path_inode).block][k].name = PlaneName
                                  /\ disk.block[ReadInode(disk, path_inode).block][k].type = "file"
    BY <1>2, FindFacts
  <1> HIDE DEF j
  <1>4. \E e : /\ Leads(disk, ws, e) /\ Settled(e) /\ id \in Inodes
               /\ ReadInode(e, id).block \in e.bmap \cup {0} /\ ~DirBlock(e, ReadInode(e, id).block)
    <2>1. CASE j = -1
      <3>1. CreateHarms(disk, path_inode, "file") \cap Bad = {}
        BY <1>1, <2>1 DEF Unless
      <3>2. Fits(FirstFree(disk.imap, Inodes))
        BY <3>1, CreateHarmless
      <3>3. PICK e : Leads(disk, Create(disk, path_inode, PlaneName, "file"), e) /\ Created(disk, e, "file")
        <4>1. PlaneName \in Names /\ "file" \in Types /\ disk.imap # Inodes /\ disk.bmap # Blocks
          BY <1>1, <2>1, NamesApart DEF Types, Room
        <4> QED  BY <1>2, <3>2, <4>1, CreateLeads
      <3>4. /\ id = FirstFree(disk.imap, Inodes) /\ id \in Inodes /\ ws = Create(disk, path_inode, PlaneName, "file")
            /\ ReadInode(e, id).block = FirstFree(disk.bmap, Blocks)
        BY <2>1, <3>3 DEF Created, ReadInode
      <3>5. FirstFree(disk.bmap, Blocks) \in e.bmap /\ ~DirBlock(e, FirstFree(disk.bmap, Blocks)) /\ Settled(e)
        BY <3>3 DEF Created
      <3> HIDE DEF ws, id
      <3> QED  BY <3>3, <3>4, <3>5
    <2>2. CASE j # -1
      <3> DEFINE B == ReadInode(disk, path_inode).block
      <3>1. j \in Cells /\ B \in Blocks /\ disk.block[B][j].name \in Names /\ disk.block[B][j].type = "file"
        BY <1>3, <2>2, NamesApart
      <3>2. id = disk.block[B][j].id /\ ws = <<>>
        BY <2>2
      <3> HIDE DEF B, ws, id
      <3>3. id \in Named(disk) /\ id \in Inodes /\ disk.inode[id].type = "file" /\ Fits(id)
            /\ disk.inode[id].block \in (disk.bmap \cup {0}) \ {ROOTBLOCK}
        BY <1>2, <3>1, <3>2, NamesIt, Numbers DEF Sane, NamedTyped, NamedExist, Held, Named
      <3>4. ~DirBlock(disk, disk.inode[id].block)
        BY <1>2, <3>3 DEF Sane, NamedApart, NamedExist, Held, DirBlock
      <3>5. ReadInode(disk, id).block = disk.inode[id].block
        BY <3>3 DEF ReadInode
      <3> QED  BY <1>2, <3>2, <3>3, <3>4, <3>5, LeadsNowhere
    <2> QED  BY <2>1, <2>2
  <1> HIDE DEF ws, id
  <1>5. PICK e : /\ Leads(disk, ws, e) /\ Settled(e)
                 /\ ReadInode(e, id).block \in e.bmap \cup {0} /\ ~DirBlock(e, ReadInode(e, id).block)
    BY <1>4
  <1>6. After(disk, ws) = e /\ id \in Inodes /\ e \in Card
    <2>1. After(disk, ws) = e /\ id \in Inodes /\ ws \in Seq(Writes)
      BY <1>4, <1>5 DEF Leads
    <2>2. Len(ws) \in 0..Len(ws)
      BY <2>1
    <2> QED  BY <1>2, <2>1, <2>2, DoneFacts DEF After
  <1>7. ino.block \in Blocks /\ ino.size \in Int /\ ino.block \in e.bmap \cup {0} /\ ~DirBlock(e, ino.block)
    BY <1>5, <1>6, ReadTyped DEF InodeT
  <1> HIDE DEF ino
  <1>8. dr \in [0..Len(Plane) -> Blocks] /\ \A k \in 0..Len(Plane) : dr[k] = 0 \/ dr[k] = ino.block
    BY <1>7, Numbers
  <1> HIDE DEF dr
  <1>9. file' \in FileT /\ file'.w_ptr = 0 /\ file'.direct = dr
    BY <1>1, <1>6, <1>7, <1>8 DEF FileT
  <1>10. Opened(file', e)
    BY <1>7, <1>8, <1>9 DEF Opened
  <1>11. /\ inst_path' \in Seq(STRING \cup Names)
         /\ shell'.op \in {"mkdir", "touch", "rmdir"} => inst_path' # <<>> /\ inst_path'[1] \in Names
    <2>1. \/ inst_path' = inst_path
          \/ inst_path # <<>> /\ inst_path' = [inst_path EXCEPT ![1] = PlaneName]
      BY <1>1 DEF NameBuffer
    <2>2. CASE inst_path' = inst_path
      BY <1>1, <2>2 DEF FGood, TypedMemory
    <2>3. CASE inst_path # <<>> /\ inst_path' = [inst_path EXCEPT ![1] = PlaneName]
      <3>1. 1 \in DOMAIN inst_path
        BY <1>2, <2>3
      <3>2. inst_path'[1] = PlaneName /\ DOMAIN inst_path' = DOMAIN inst_path
        BY <2>3, <3>1
      <3>3. inst_path' \in Seq(STRING \cup Names)
        <4>1. PlaneName \in STRING \cup Names
          BY NamesApart
        <4>2. 1 \in 1..Len(inst_path)
          BY <1>2, <3>1
        <4> QED  BY <1>2, <2>3, <4>1, <4>2, ExceptSeq
      <3>4. inst_path' # <<>>
        BY <3>1, <3>2
      <3> QED  BY <3>2, <3>3, <3>4, NamesApart
    <2> QED  BY <2>1, <2>2, <2>3
  <1>12. saved' \in [inode : Inodes, cells : Seq(ToSet(Plane))] /\ 0 <= Len(saved'.cells)
    <2>1. saved' \in [inode : Inodes, cells : Seq(ToSet(Plane))]
      <3>1. <<>> \in Seq(ToSet(Plane))
        OBVIOUS
      <3> QED  BY <1>1, <1>6, <3>1 DEF FGood, TypedMemory
    <2>2. saved'.cells \in Seq(ToSet(Plane))
      BY <2>1
    <2> QED  BY <2>1, <2>2
  <1>13. TypedMemory'
    BY <1>1, <1>2, <1>9, <1>11, <1>12 DEF TypedMemory
  <1>14. Leads(disk', pending', e) /\ After(disk', pending') = e
    BY <1>1, <1>5, <1>6
  <1>15. Ready(e, users', file', shell')
    BY <1>5, <1>10 DEF Ready
  <1> QED
    BY <1>1, <1>2, <1>13, <1>14, <1>15 DEF FGood

\* The writes are those of a call that writes a file.
Filed(d, ws) ==
    \E alloc, sized \in BOOLEAN, b \in Blocks, p \in Cells, x \in ToSet(Plane), n \in Inodes, v \in Int :
        /\ x \notin Names /\ (alloc => b \notin d.bmap) /\ (~alloc => b = 0 \/ (b \in d.bmap /\ ~DirBlock(d, b)))
        /\ ws = FileWrites(d, alloc, b, p, x, sized, n, v)

LEMMA FwriteGood ==
    ASSUME FGood, Fwrite
    PROVE  FGood' /\ Filed(disk, pending')
PROOF
  <1> DEFINE x     == Plane[Len(saved.cells) + 1]
             i     == file.w_ptr \div NCELL
             p     == file.w_ptr % NCELL
             last  == (file.w_ptr + 1) \div NCELL > i
             new   == FirstFree(disk.bmap, Blocks)
             alloc == last /\ file.direct[i] = 0
             b     == IF alloc THEN new ELSE file.direct[i]
             sized == file.w_ptr + 1 > file.size
             v     == file.w_ptr + 1
  <1>1. /\ pending = <<>> /\ shell = Idle /\ users > 0 /\ Len(saved.cells) < Len(Plane)
        /\ alloc => Room
        /\ pending' = (IF alloc THEN <<Bmap(disk.bmap \cup {new})>> ELSE <<>>)
                      \o <<Blk(b, [disk.block[b] EXCEPT ![p] = Cell(x, 0, "file")])>> \o SizeWrites
        /\ file' = [file EXCEPT !.w_ptr = @ + 1, !.direct[i] = b]
        /\ saved' = [saved EXCEPT !.cells = Append(@, x)]
        /\ UNCHANGED <<disk, path_inode, inst_path, shell, users>>
    BY DEF Fwrite
  <1>2. pending' = FileWrites(disk, alloc, b, p, x, sized, file.inode, v)
    <2> DEFINE w3 == IF sized THEN <<Ino(file.inode, [ReadInode(disk, file.inode) EXCEPT !.size = v])>> ELSE <<>>
    <2>1. SizeWrites = w3
      BY DEF SizeWrites
    <2>2. alloc => new = b
      OBVIOUS
    <2> HIDE DEF b, alloc, new, x, p, sized
    <2> QED  BY <1>1, <2>1, <2>2 DEF FileWrites
  <1>3. /\ file \in FileT /\ saved \in [inode : Inodes, cells : Seq(ToSet(Plane))] /\ file.w_ptr <= Len(saved.cells)
        /\ file.inode \in Inodes /\ file.w_ptr \in Nat /\ file.direct \in [0..Len(Plane) -> Blocks]
        /\ saved.cells \in Seq(ToSet(Plane)) /\ v \in Int
    BY DEF FGood, TypedMemory, FileT
  <1>4. Sane(disk) /\ disk \in Card /\ Settled(disk) /\ Opened(file, disk)
    <2>1. pending = <<>> /\ users > 0
      BY <1>1
    <2>2. Ready(disk, users, file, shell) /\ Sane(disk) /\ disk \in Card
      BY <2>1, QuietFacts
    <2>3. users # 0
      BY <2>1
    <2> QED  BY <2>1, <2>2, <2>3 DEF Ready
  <1>50. Len(saved.cells) < Len(Plane)
    BY <1>1
  <1>5. Len(saved.cells) \in Nat /\ Len(Plane) \in Nat /\ x \in ToSet(Plane) /\ x \notin Names
    <2>1. Plane \in Seq(STRING)
      BY FileSysAssumption
    <2>2. Len(saved.cells) + 1 \in 1..Len(Plane)
      BY <1>3, <1>50, <2>1
    <2>3. x \in ToSet(Plane)
      BY <2>1, <2>2 DEF ToSet
    <2>4. x \notin Names
      BY <2>3, ContentAssumption
    <2> HIDE DEF x
    <2> QED  BY <1>3, <2>1, <2>3, <2>4
  <1>6. file.w_ptr < Len(Plane)
    BY <1>3, <1>5, <1>50
  <1>7. i \in 0..Len(Plane) /\ p \in Cells
    BY <1>3, <1>6, CellPlace
  <1> HIDE DEF i, p, x, v, sized
  <1>8. alloc => new \in Blocks \ disk.bmap
    BY <1>1, <1>4, FreeFacts DEF Room
  <1> HIDE DEF new
  <1>9. /\ b \in Blocks /\ alloc \in BOOLEAN /\ sized \in BOOLEAN /\ (alloc => b \notin disk.bmap)
        /\ (~alloc => b = 0 \/ (b \in disk.bmap /\ ~DirBlock(disk, b)))
    <2>1. file.direct[i] \in Blocks /\ (file.direct[i] = 0 \/ (file.direct[i] \in disk.bmap /\ ~DirBlock(disk, file.direct[i])))
      BY <1>3, <1>4, <1>7 DEF Opened
    <2>2. sized \in BOOLEAN /\ alloc \in BOOLEAN
      BY DEF sized
    <2> HIDE DEF alloc
    <2> QED  BY <1>8, <2>1, <2>2
  <1> HIDE DEF alloc
  <1>10. PICK e : Leads(disk, pending', e) /\ Grown(disk, b, e)
    <2> HIDE DEF b
    <2> QED  BY <1>2, <1>3, <1>4, <1>5, <1>7, <1>9, FwriteLeads
  <1> HIDE DEF b
  <1>11. /\ file' \in FileT /\ file'.w_ptr = file.w_ptr + 1
         /\ \A k \in 0..Len(Plane) : file'.direct[k] = IF k = i THEN b ELSE file.direct[k]
    <2> DEFINE dr == [file.direct EXCEPT ![i] = b]
    <2>1. file' = [file EXCEPT !.w_ptr = file.w_ptr + 1, !.direct = dr]
      BY <1>1, <1>3 DEF FileT
    <2>2. dr \in [0..Len(Plane) -> Blocks] /\ \A k \in 0..Len(Plane) : dr[k] = IF k = i THEN b ELSE file.direct[k]
      BY <1>3, <1>7, <1>9
    <2> HIDE DEF dr
    <2>3. file' = [inode |-> file.inode, size |-> file.size, w_ptr |-> file.w_ptr + 1, direct |-> dr]
      BY <1>3, <2>1 DEF FileT
    <2>4. file.size \in Int /\ file.w_ptr + 1 \in Nat
      BY <1>3 DEF FileT
    <2>5. file'.direct = dr /\ file'.w_ptr = file.w_ptr + 1 /\ file' \in FileT
      BY <1>3, <2>2, <2>3, <2>4 DEF FileT
    <2> QED  BY <2>2, <2>5
  <1>12. Opened(file', e)
    <2> SUFFICES ASSUME NEW k \in 0..Len(Plane)
                 PROVE  file'.direct[k] = 0 \/ (file'.direct[k] \in e.bmap /\ ~DirBlock(e, file'.direct[k]))
      BY DEF Opened
    <2>1. CASE k = i
      BY <1>10, <1>11, <2>1 DEF Grown
    <2>2. CASE k # i
      BY <1>4, <1>10, <1>11, <2>2 DEF Grown, Opened
    <2> QED  BY <2>1, <2>2
  <1>13. /\ saved' \in [inode : Inodes, cells : Seq(ToSet(Plane))]
         /\ Len(saved'.cells) = Len(saved.cells) + 1
    <2>1. Append(saved.cells, x) \in Seq(ToSet(Plane)) /\ Len(Append(saved.cells, x)) = Len(saved.cells) + 1
      BY <1>3, <1>5
    <2>2. saved'.cells = Append(saved.cells, x) /\ saved' \in [inode : Inodes, cells : Seq(ToSet(Plane))]
      BY <1>1, <1>3, <2>1
    <2> QED  BY <2>1, <2>2
  <1>14. TypedMemory'
    <2>1. file'.w_ptr <= Len(saved'.cells)
      BY <1>3, <1>5, <1>11, <1>13
    <2> QED  BY <1>1, <1>11, <1>13, <2>1 DEF FGood, TypedMemory
  <1>15. Leads(disk', pending', e) /\ After(disk', pending') = e
    BY <1>1, <1>10 DEF Leads
  <1>16. Ready(e, users', file', shell')
    BY <1>10, <1>12 DEF Ready, Grown
  <1>17. Filed(disk, pending')
    BY <1>2, <1>3, <1>5, <1>7, <1>9 DEF Filed
  <1> QED
    BY <1>1, <1>4, <1>14, <1>15, <1>16, <1>17 DEF FGood

LEMMA FcloseGood ==
    ASSUME FGood, Fclose
    PROVE  FGood'
PROOF
  <1>1. /\ users > 0 /\ users' = users - 1
        /\ UNCHANGED <<disk, pending, path_inode, inst_path, shell, file, saved>>
    BY DEF Fclose
  <1>2. TypedMemory'
    BY <1>1 DEF FGood, TypedMemory
  <1>3. Ready(After(disk, pending), users', file, shell)
    BY <1>1 DEF FGood, TypedMemory, Ready
  <1> QED
    BY <1>1, <1>2, <1>3 DEF FGood

LEMMA StepGood ==
    ASSUME FInv, [Next]_vars
    PROVE  FInv'
PROOF
  <1> SUFFICES ASSUME Unless(Bad)' PROVE FGood'
    BY DEF FInv
  <1>1. CASE UNCHANGED vars
    <2>1. FGood
      BY <1>1 DEF FInv, Unless, vars
    <2> QED  BY <1>1, <2>1 DEF vars, FGood, TypedMemory
  <1>2. CASE Next
    <2>1. harm \subseteq harm'
      BY <1>2 DEF Next, CardWrite, Restart, Mkfs, Parse, Cd, Mkdir, Touch, Make, Rmdir, Fopen, Fwrite, Fclose
    <2>2. FGood
      BY <2>1 DEF FInv, Unless
    <2>3. CASE Mkdir
      BY <2>2, <2>3, MakeGood DEF Mkdir, Types
    <2>4. CASE Touch
      BY <2>2, <2>4, MakeGood DEF Touch, Types
    <2> QED
      BY <1>2, <2>2, <2>3, <2>4, CardWriteGood, RestartGood, MkfsGood, ParseGood, CdGood, RmdirGood,
         FopenGood, FwriteGood, FcloseGood DEF Next
  <1> QED
    BY <1>1, <1>2

---------------------------------------------------------------------------
(* As long as no file gets block 0, every inode that is named has a block. *)

Backed(d) == \A n \in Named(d) : d.inode[n].block # 0
Backs(d, ws) == \A k \in 0..Len(ws) : Backed(Done(d, ws, k))

Losing == Bad \cup {"zero"}
BackInv == Unless(Losing) => Backs(disk, pending)

LEMMA BacksOn ==
    ASSUME NEW N, NEW d, NEW ws, NEW e, LeadsBy(N, d, ws, e), Backed(d), 0 \notin N
    PROVE  Backs(d, ws)
  BY DEF LeadsBy, Stem, Backed, Backs

\* Between two calls it is the card itself that matters.
LEMMA BacksQuiet ==
    ASSUME NEW d \in Card
    PROVE  /\ Backed(d) => Backs(d, <<>>)
           /\ \A ws \in Seq(Writes) : Backs(d, ws) => Backed(d)
PROOF
  <1>1. <<>> \in Seq(Writes) /\ \A k \in 0..Len(<<>>) : k = 0
    OBVIOUS
  <1>2. \A ws \in Seq(Writes) : Done(d, ws, 0) = d /\ 0 \in 0..Len(ws)
    BY DoneFacts
  <1> QED
    BY <1>1, <1>2 DEF Backs

LEMMA QuietBacked ==
    ASSUME FGood, Backs(disk, pending)
    PROVE  Backed(disk)
PROOF
  <1>1. disk \in Card /\ pending \in Seq(Writes)
    BY DEF FGood, Leads
  <1> QED
    BY <1>1, BacksQuiet

LEMMA CreateBacked ==
    ASSUME NEW d, Sane(d), Settled(d), Backed(d), d.imap # Inodes, d.bmap # Blocks, NEW dir \in Inodes,
           NEW name \in Names, NEW type \in Types, CreateHarms(d, dir, type) \cap Losing = {}
    PROVE  Backs(d, Create(d, dir, name, type))
PROOF
  <1>1. Fits(FirstFree(d.imap, Inodes)) /\ 0 \in d.bmap
    BY DEF CreateHarms, Losing, Bad
  <1>2. FirstFree(d.bmap, Blocks) # 0
    BY <1>1, FreeFacts DEF Sane
  <1>3. PICK e : LeadsBy({FirstFree(d.bmap, Blocks)}, d, Create(d, dir, name, type), e)
    BY <1>1, CreateLeads
  <1> QED
    BY <1>2, <1>3, BacksOn

LEMMA CardWriteBacks ==
    ASSUME FGood, Backs(disk, pending), CardWrite
    PROVE  Backs(disk', pending')
PROOF
  <1>1. pending # <<>> /\ disk' = Apply(disk, Head(pending)) /\ pending' = Tail(pending)
    BY DEF CardWrite
  <1>2. disk \in Card /\ pending \in Seq(Writes)
    BY DEF FGood, Leads
  <1>3. /\ Len(pending') = Len(pending) - 1
        /\ \A k \in 0..Len(pending) - 1 : Done(disk', pending', k) = Done(disk, pending, k + 1)
    BY <1>1, <1>2, DoneShift
  <1>4. \A k \in 0..Len(pending) - 1 : k + 1 \in 0..Len(pending)
    BY <1>2
  <1> QED
    BY <1>3, <1>4 DEF Backs

LEMMA MkfsBacks ==
    ASSUME FGood, Backs(disk, pending), Mkfs, Unless(Losing)'
    PROVE  Backs(disk', pending')
PROOF
  <1>1. /\ pending = <<>> /\ pending' = MkfsWrites(disk) /\ UNCHANGED disk
        /\ Root \in disk.imap /\ pending' # <<>> => "again" \in harm'
    BY DEF Mkfs
  <1>2. Sane(disk) /\ disk \in Card /\ Ready(disk, users, file, shell) /\ Backed(disk)
    BY <1>1, QuietFacts, QuietBacked
  <1>3. CASE pending' = <<>>
    BY <1>1, <1>2, <1>3, BacksQuiet
  <1>4. CASE pending' # <<>>
    <2>1. Root \notin disk.imap
      BY <1>1, <1>4 DEF Unless, Losing, Bad
    <2>2. Blank(disk)
      BY <1>2, <2>1 DEF Ready, Settled
    <2>3. PICK e : LeadsBy({}, disk, pending', e)
      BY <1>1, <1>2, <2>2, MkfsLeads
    <2> QED  BY <1>1, <1>2, <2>3, BacksOn
  <1> QED
    BY <1>3, <1>4

LEMMA MakeBacks ==
    ASSUME FGood, Backs(disk, pending), NEW op \in {"mkdir", "touch"}, NEW type \in Types, Make(op, type),
           Unless(Losing)'
    PROVE  Backs(disk', pending')
PROOF
  <1>1. /\ Called(op) /\ Room /\ UNCHANGED disk
        /\ pending' = Create(disk, path_inode, inst_path[1], type)
        /\ harm' = harm \cup CreateHarms(disk, path_inode, type)
    BY DEF Make
  <1>2. Sane(disk) /\ Settled(disk) /\ shell.op = op
    BY <1>1, CalledFacts
  <1>3. path_inode \in Inodes /\ inst_path[1] \in Names
    BY <1>2 DEF FGood, TypedMemory
  <1>4. CreateHarms(disk, path_inode, type) \cap Losing = {}
    BY <1>1 DEF Unless
  <1> QED
    BY <1>1, <1>2, <1>3, <1>4, QuietBacked, CreateBacked DEF Room

LEMMA RmdirBacks ==
    ASSUME FGood, Backs(disk, pending), Rmdir
    PROVE  Backs(disk', pending')
PROOF
  <1>1. /\ Called("rmdir") /\ UNCHANGED disk
        /\ pending' = RmdirWrites(disk, path_inode, inst_path[1])
    BY DEF Rmdir
  <1>2. Sane(disk) /\ Settled(disk) /\ shell.op = "rmdir"
    BY <1>1, CalledFacts
  <1>3. path_inode \in Inodes /\ inst_path[1] \in Names
    BY <1>2 DEF FGood, TypedMemory
  <1>4. PICK e : LeadsBy({}, disk, pending', e)
    BY <1>1, <1>2, <1>3, RmdirLeads
  <1> QED
    BY <1>1, <1>4, QuietBacked, BacksOn

LEMMA FopenBacks ==
    ASSUME FGood, Backs(disk, pending), Fopen, Unless(Losing)'
    PROVE  Backs(disk', pending')
PROOF
  <1> DEFINE j == Find(disk, path_inode, 2, PlaneName, "file")
  <1>1. /\ pending = <<>> /\ Root \in disk.imap /\ UNCHANGED disk
        /\ pending' = IF j = -1 THEN Create(disk, path_inode, PlaneName, "file") ELSE <<>>
        /\ j = -1 => Room /\ CreateHarms(disk, path_inode, "file") \subseteq harm'
    BY DEF Fopen
  <1>2. Sane(disk) /\ Settled(disk) /\ disk \in Card /\ path_inode \in Inodes /\ Backed(disk)
    BY <1>1, QuietFacts, QuietBacked DEF Ready, Blank, FGood, TypedMemory
  <1> HIDE DEF j
  <1>3. CASE j = -1
    <2>1. CreateHarms(disk, path_inode, "file") \cap Losing = {}
      BY <1>1, <1>3 DEF Unless
    <2>2. PlaneName \in Names /\ "file" \in Types /\ disk.imap # Inodes /\ disk.bmap # Blocks
      BY <1>1, <1>3, NamesApart DEF Types, Room
    <2> QED  BY <1>1, <1>2, <1>3, <2>1, <2>2, CreateBacked
  <1>4. CASE j # -1
    BY <1>1, <1>2, <1>4, BacksQuiet
  <1> QED
    BY <1>3, <1>4

LEMMA FwriteBacks ==
    ASSUME FGood, Backs(disk, pending), Fwrite
    PROVE  Backs(disk', pending')
PROOF
  <1>1. pending = <<>> /\ users > 0 /\ UNCHANGED disk
    BY DEF Fwrite
  <1>2. Sane(disk) /\ Settled(disk) /\ Backed(disk)
    <2>1. users # 0 /\ Ready(disk, users, file, shell) /\ Sane(disk)
      BY <1>1, QuietFacts
    <2> QED  BY <2>1, QuietBacked DEF Ready
  <1>3. PICK alloc \in BOOLEAN, sized \in BOOLEAN, b \in Blocks, p \in Cells, x \in ToSet(Plane),
             n \in Inodes, v \in Int :
          /\ x \notin Names /\ (alloc => b \notin disk.bmap)
          /\ (~alloc => b = 0 \/ (b \in disk.bmap /\ ~DirBlock(disk, b)))
          /\ pending' = FileWrites(disk, alloc, b, p, x, sized, n, v)
    BY FwriteGood DEF Filed
  <1>4. PICK e : LeadsBy({}, disk, pending', e)
    BY <1>2, <1>3, FwriteLeads
  <1> QED
    BY <1>1, <1>2, <1>4, BacksOn

LEMMA InitBacks ==
    ASSUME Init
    PROVE  Backs(disk, pending)
PROOF
  <1>1. disk \in Card /\ pending = <<>> /\ Ready(disk, users, file, shell) /\ disk.imap = {}
    BY InitGood, QuietFacts DEF Init
  <1>2. Named(disk) = {}
    BY <1>1, NamesApart DEF Ready, Settled, Blank, Named
  <1> QED
    BY <1>1, <1>2, BacksQuiet DEF Backed

LEMMA StepBacks ==
    ASSUME FInv, BackInv, [Next]_vars
    PROVE  BackInv'
PROOF
  <1> SUFFICES ASSUME Unless(Losing)' PROVE Backs(disk', pending')
    BY DEF BackInv
  <1>1. CASE UNCHANGED vars
    BY <1>1 DEF BackInv, Unless, vars
  <1>2. CASE Next
    <2>1. harm \subseteq harm'
      BY <1>2 DEF Next, CardWrite, Restart, Mkfs, Parse, Cd, Mkdir, Touch, Make, Rmdir, Fopen, Fwrite, Fclose
    <2>2. FGood /\ Backs(disk, pending)
      BY <2>1 DEF FInv, BackInv, Unless, Losing
    <2>3. CASE Mkdir
      BY <2>2, <2>3, MakeBacks DEF Mkdir, Types
    <2>4. CASE Touch
      BY <2>2, <2>4, MakeBacks DEF Touch, Types
    <2>5. CASE Parse \/ Cd \/ Fclose
      <3>1. UNCHANGED <<disk, pending>>
        BY <2>5 DEF Parse, Cd, Fclose
      <3> QED  BY <2>2, <3>1
    <2>6. CASE Restart
      <3>1. UNCHANGED disk /\ pending' = <<>> /\ disk \in Card
        BY <2>2, <2>6 DEF Restart, FGood, Leads
      <3> QED  BY <2>2, <3>1, QuietBacked, BacksQuiet
    <2> QED
      BY <1>2, <2>2, <2>3, <2>4, <2>5, <2>6, CardWriteBacks, MkfsBacks, RmdirBacks, FopenBacks,
         FwriteBacks DEF Next
  <1> QED
    BY <1>1, <1>2

---------------------------------------------------------------------------
(* What a user sees of a sane card.                                        *)

\* The root and the directories that entries name.
DirSet(d) == {Root} \cup {n \in Named(d) : d.inode[n].type = "dir"}

LEMMA ListingFacts ==
    ASSUME NEW d, Sane(d), Settled(d), NEW x \in DirSet(d), NEW e \in Listing(d, x)
    PROVE  /\ e.id \in Named(d) /\ Fits(e.id) /\ e.type = d.inode[e.id].type
           /\ ReadInode(d, e.id) = d.inode[e.id]
           /\ e.type = "dir" => e.id \in DirSet(d)
PROOF
  <1> DEFINE B == d.inode[x].block
  <1>1. d \in Card
    BY DEF Sane
  <1>2. x \in Inodes /\ Fits(x) /\ DirBlock(d, B)
    BY Numbers DEF DirSet, Sane, Settled, NamedExist, DirBlock, Named
  <1>3. ReadInode(d, x) = d.inode[x] /\ B \in Blocks
    BY <1>1, <1>2, ReadTyped
  <1>4. PICK j \in Walk(d.block[B], 2, d.inode[x].dnum) : e = d.block[B][j]
    BY <1>3 DEF Listing
  <1>5. d.block[B][j].name # ""
    BY <1>4 DEF Walk
  <1>6. j \in Cells /\ j >= 2
    <2>1. j \in 2..NCELL - 1
      BY <1>4 DEF Walk
    <2>2. NCELL \in Nat
      BY FileSysAssumption
    <2> QED  BY <2>1, <2>2 DEF Cells
  <1> HIDE DEF B
  <1>7. d.block[B][j].name \in Names
    BY <1>2, <1>3, <1>5, <1>6 DEF Sane, DataApart, Data
  <1>8. e.id \in Named(d) /\ e.type = d.inode[e.id].type
    BY <1>1, <1>3, <1>4, <1>6, <1>7, NamesIt DEF Sane, NamedTyped
  <1>9. Fits(e.id)
    BY <1>8 DEF Sane, NamedExist
  <1> QED
    BY <1>8, <1>9 DEF ReadInode, DirSet

\* Only these directories can be reached from the root.
LEMMA DirsFacts ==
    ASSUME NEW d, Sane(d), Settled(d)
    PROVE  Dirs(d) \subseteq DirSet(d)
PROOF
  <1> DEFINE S == SUBSET DirSet(d)
             below(T) == {e.id : e \in {f \in UNION {Listing(d, x) : x \in T} : f.type = "dir"}}
             G == [k \in 1..NI |-> [T \in S |-> T \cup below(T)]]
  <1>1. NI \in Nat
    BY FileSysAssumption
  <1>2. \A T \in S : T \cup below(T) \in S
    BY ListingFacts
  <1>3. PICK f : f \in [0..NI -> S] /\ f[0] = {Root} /\ \A k \in 1..NI : f[k] = G[k][f[k - 1]]
    <2>1. \A k \in 1..NI : \A T \in S : G[k][T] = T \cup below(T)
      OBVIOUS
    <2>2. Turns(NI, S, G)
      <3> HIDE DEF S, below, G
      <3> QED  BY <1>2, <2>1 DEF Turns
    <2>3. {Root} \in S
      BY DEF DirSet
    <2> HIDE DEF S, G
    <2>4. PICK f : Loop(f, NI, S, {Root}, G)
      BY <1>1, <2>2, <2>3, LoopExists
    <2> QED  BY <2>4 DEF Loop
  <1> DEFINE P(h) == h = [n \in 0..NI |-> IF n = 0 THEN {Root}
                                          ELSE UNION {T \cup below(T) : T \in {h[n - 1]}}]
             near[n \in 0..NI] == IF n = 0 THEN {Root}
                                  ELSE UNION {T \cup below(T) : T \in {near[n - 1]}}
  <1>4. \A n \in 0..NI : f[n] = IF n = 0 THEN {Root} ELSE UNION {T \cup below(T) : T \in {f[n - 1]}}
    <2> TAKE n \in 0..NI
    <2>1. CASE n = 0
      BY <1>3, <2>1
    <2>2. CASE n # 0
      <3>1. n \in 1..NI /\ f[n - 1] \in S
        BY <1>1, <1>3, <2>2
      <3>2. f[n] = f[n - 1] \cup below(f[n - 1])
        BY <1>3, <3>1
      <3> HIDE DEF below
      <3> QED  BY <2>2, <3>2
    <2> QED  BY <2>1, <2>2
  <1>5. P(f)
    <2> HIDE DEF below
    <2> QED  BY <1>3, <1>4
  <1>6. near = CHOOSE h : P(h)
    OBVIOUS
  <1>7. P(near)
    <2> HIDE DEF P, near
    <2> QED  BY <1>5, <1>6
  <1>8. Dirs(d) = IF Formatted(d) THEN near[NI] ELSE {}
    BY DEF Dirs
  <1>9. \A n \in 0..NI : near[n] = IF n = 0 THEN {Root} ELSE near[n - 1] \cup below(near[n - 1])
    <2>1. \A X : UNION {T \cup below(T) : T \in {X}} = X \cup below(X)
      <3> HIDE DEF below
      <3> QED  OBVIOUS
    <2> HIDE DEF near, below
    <2>2. \A n \in 0..NI : near[n] = IF n = 0 THEN {Root} ELSE UNION {T \cup below(T) : T \in {near[n - 1]}}
      BY <1>7
    <2> QED  BY <2>1, <2>2
  <1> HIDE DEF near, P
  <1> DEFINE W == {n \in 0..NI : near[n] \notin S}
  <1>10. W = {}
    <2> SUFFICES ASSUME W # {} PROVE FALSE
      OBVIOUS
    <2>1. PICK m \in W : \A n \in W : m <= n
      <3>1. W \in SUBSET Nat
        OBVIOUS
      <3> HIDE DEF W
      <3> QED  BY <3>1, LeastMember
    <2>2. m # 0
      BY <1>1, <1>9, <2>1 DEF DirSet
    <2>3. m - 1 \in 0..NI /\ m - 1 \notin W /\ near[m] = near[m - 1] \cup below(near[m - 1])
      <3>1. m \in 0..NI /\ m - 1 \in 0..NI /\ m - 1 \notin W
        BY <1>1, <2>1, <2>2
      <3> HIDE DEF W, below
      <3> QED  BY <1>9, <2>2, <3>1
    <2>4. near[m - 1] \in S
      BY <2>3
    <2> HIDE DEF S, below
    <2> QED  BY <1>2, <2>1, <2>3, <2>4
  <1>11. near[NI] \in S
    BY <1>1, <1>10
  <1> QED
    BY <1>8, <1>11

\* The card as it is, in the middle of a call too, is sane.
LEMMA NowSane ==
    ASSUME FInv, Unless(Bad)
    PROVE  Sane(disk) /\ disk \in Card
PROOF
  <1>1. disk \in Card /\ pending \in Seq(Writes) /\ Sane(Done(disk, pending, 0))
    BY DEF FInv, FGood, Leads
  <1> QED
    BY <1>1, DoneFacts

\* Every entry a user can see names an inode of its type, and no other does.
LEMMA EntryFacts ==
    ASSUME FInv, Unless(Bad), NEW e \in Entries(disk)
    PROVE  /\ Settled(disk) /\ e.id \in Named(disk) /\ ReadInode(disk, e.id) = disk.inode[e.id]
           /\ e.type = disk.inode[e.id].type
PROOF
  <1>1. Sane(disk) /\ disk \in Card
    BY NowSane
  <1>2. PICK x \in Dirs(disk) : e \in Listing(disk, x)
    BY DEF Entries
  <1>3. Formatted(disk)
    BY <1>2 DEF Dirs
  <1>4. Settled(disk)
    BY <1>1, <1>3 DEF Formatted, Sane
  <1>5. x \in DirSet(disk)
    BY <1>1, <1>2, <1>4, DirsFacts
  <1> QED
    BY <1>1, <1>2, <1>4, <1>5, ListingFacts

\* As long as no file has block 0, every inode that is named has its block.
LEMMA NowBacked ==
    ASSUME FInv, BackInv, Unless(Losing)
    PROVE  Sane(disk) /\ Backed(disk)
PROOF
  <1>1. FGood /\ Unless(Bad)
    BY DEF FInv, Unless, Losing
  <1> QED
    BY <1>1, NowSane, QuietBacked DEF BackInv

LEMMA Whole ==
    ASSUME FInv, BackInv
    PROVE  EntriesWhole
PROOF
  <1> SUFFICES ASSUME Unless(Losing), NEW e \in Entries(disk)
               PROVE  LET ino == ReadInode(disk, e.id)
                      IN e.id \in disk.imap /\ ino.type = e.type /\ ino.block \in disk.bmap
    BY DEF EntriesWhole, Losing, Bad
  <1>1. Sane(disk) /\ Backed(disk) /\ Unless(Bad)
    BY NowBacked DEF Unless, Losing
  <1> QED
    BY <1>1, EntryFacts DEF Sane, NamedExist, Held, Backed

LEMMA Private ==
    ASSUME FInv, BackInv
    PROVE  BlocksPrivate
PROOF
  <1> SUFFICES ASSUME Unless(Losing),
                      NEW e \in Entries(disk) \cup {Cell("", Root, "dir")},
                      NEW f \in Entries(disk) \cup {Cell("", Root, "dir")}, e.id # f.id
               PROVE  ReadInode(disk, e.id).block # ReadInode(disk, f.id).block
    BY DEF BlocksPrivate, Losing, Bad
  <1>1. Sane(disk) /\ Backed(disk) /\ Unless(Bad)
    BY NowBacked DEF Unless, Losing
  <1>2. Cell("", Root, "dir").id = Root /\ ReadInode(disk, Root) = disk.inode[Root]
    BY Numbers DEF Cell, ReadInode
  <1>3. CASE e \in Entries(disk) /\ f \in Entries(disk)
    BY <1>1, <1>3, EntryFacts DEF Sane, NamedApart, Backed
  <1>6. \A g \in Entries(disk) : /\ ReadInode(disk, g.id).block # ROOTBLOCK
                                 /\ ReadInode(disk, Root).block = ROOTBLOCK
    <2> TAKE g \in Entries(disk)
    <2>1. Settled(disk) /\ g.id \in Named(disk) /\ ReadInode(disk, g.id) = disk.inode[g.id]
      BY <1>1, EntryFacts
    <2>2. disk.inode[g.id].block \in disk.bmap \ {0, ROOTBLOCK}
      BY <1>1, <2>1 DEF Sane, NamedExist, Held, Backed
    <2> QED  BY <1>2, <2>1, <2>2 DEF Settled
  <1>4. CASE e \in Entries(disk) /\ f = Cell("", Root, "dir")
    BY <1>2, <1>4, <1>6
  <1>5. CASE e = Cell("", Root, "dir") /\ f \in Entries(disk)
    BY <1>2, <1>5, <1>6
  <1> QED
    BY <1>3, <1>4, <1>5

---------------------------------------------------------------------------
(* What a walk visits when an entry is made or removed.                    *)

\* A cell that is not empty.
Filled(c, j) == c[j].name # ""
\* A block with one cell written.
Put(c, j, x) == [c EXCEPT ![j] = x]
\* An entry, or other content, for a cell.
Content(x) == x \in CellT /\ x.name # ""

\* The non-empty cells from `from` on and before j, which a walk has counted there.
Before(c, from, j) == {k \in from..j - 1 : Filled(c, k)}

LEMMA BeforeIs ==
    ASSUME NEW c, NEW from \in Nat, NEW j \in Nat
    PROVE  \A k : k \in Before(c, from, j) <=> k \in Nat /\ from <= k /\ k < j /\ Filled(c, k)
PROOF
  <1>1. \A k : k \in from..j - 1 <=> k \in Nat /\ from <= k /\ k < j
    OBVIOUS
  <1> QED
    BY <1>1 DEF Before

LEMMA BeforeFacts ==
    ASSUME NEW c, NEW from \in Nat, NEW j \in Nat
    PROVE  /\ IsFiniteSet(Before(c, from, j)) /\ Cardinality(Before(c, from, j)) \in Nat
           /\ \A S \in SUBSET Before(c, from, j) :
                 IsFiniteSet(S) /\ Cardinality(S) \in Nat /\ Cardinality(S) <= Cardinality(Before(c, from, j))
PROOF
  <1>1. IsFiniteSet(from..j - 1)
    BY FS_Interval
  <1>2. Before(c, from, j) \in SUBSET (from..j - 1)
    BY DEF Before
  <1>3. IsFiniteSet(Before(c, from, j))
    BY <1>1, <1>2, FS_Subset
  <1>4. \A S \in SUBSET Before(c, from, j) : IsFiniteSet(S) /\ Cardinality(S) <= Cardinality(Before(c, from, j))
    BY <1>3, FS_Subset
  <1> QED
    BY <1>3, <1>4, FS_CardinalityType

LEMMA WalkIs ==
    ASSUME NEW c, NEW from \in Nat, NEW n
    PROVE  /\ \A j : j \in Walk(c, from, n) <=> /\ j \in Cells /\ from <= j /\ Filled(c, j)
                                                /\ from + Cardinality(Before(c, from, j)) < n
           /\ Walk(c, from, n) \subseteq Cells
PROOF
  <1>1. NCELL \in Nat
    BY FileSysAssumption
  <1>2. \A j : j \in from..NCELL - 1 <=> j \in Cells /\ from <= j
    BY <1>1 DEF Cells
  <1> QED
    BY <1>2 DEF Walk, Before, Filled

LEMMA WalkFinite ==
    ASSUME NEW c, NEW from \in Nat, NEW n
    PROVE  IsFiniteSet(Walk(c, from, n))
PROOF
  <1>1. IsFiniteSet(Cells)
    <2>1. NCELL \in Nat
      BY FileSysAssumption
    <2>2. NCELL - 1 \in Int /\ 0 \in Int
      BY <2>1
    <2>3. IsFiniteSet(0..NCELL - 1)
      BY <2>2, FS_Interval
    <2> QED  BY <2>3 DEF Cells
  <1>2. Walk(c, from, n) \in SUBSET Cells
    BY WalkIs
  <1> QED
    BY <1>1, <1>2, FS_Subset

\* A shorter walk visits fewer cells.
LEMMA WalkLess ==
    ASSUME NEW c, NEW from \in Nat, NEW n \in Int, NEW m \in Int, m <= n
    PROVE  Walk(c, from, m) \subseteq Walk(c, from, n)
PROOF
  <1> SUFFICES ASSUME NEW j \in Walk(c, from, m) PROVE j \in Walk(c, from, n)
    OBVIOUS
  <1>1. j \in Cells /\ from <= j /\ Filled(c, j)
    BY WalkIs
  <1>2. from + Cardinality(Before(c, from, j)) < m
    BY WalkIs
  <1>3. j \in Nat
    BY <1>1, Numbers
  <1>4. Cardinality(Before(c, from, j)) \in Nat
    BY <1>3, BeforeFacts
  <1>5. from + Cardinality(Before(c, from, j)) < n
    BY <1>2, <1>4
  <1> QED
    BY <1>1, <1>5, WalkIs

\* A walk that starts behind the dots sees what one from the start sees there.
LEMMA WalkFromTwo ==
    ASSUME NEW c, NEW n \in Int
    PROVE  /\ Walk(c, 2, n) \subseteq Walk(c, 0, n)
           /\ Filled(c, 0) /\ Filled(c, 1) => Walk(c, 2, n) = Walk(c, 0, n) \ {0, 1}
PROOF
  <1>1. ASSUME NEW j \in Cells, 2 <= j
        PROVE  /\ Cardinality(Before(c, 0, j)) \in Nat /\ Cardinality(Before(c, 2, j)) \in Nat
               /\ Cardinality(Before(c, 0, j)) <= 2 + Cardinality(Before(c, 2, j))
               /\ Filled(c, 0) /\ Filled(c, 1)
                  => Cardinality(Before(c, 0, j)) = 2 + Cardinality(Before(c, 2, j))
    <2> DEFINE A == Before(c, 0, j)
               B == Before(c, 2, j)
    <2>0. j \in Nat
      BY <1>1, Numbers
    <2>1. IsFiniteSet(B) /\ Cardinality(B) \in Nat /\ Cardinality(A) \in Nat
      BY <2>0, BeforeFacts
    <2>10. \A k : k \in A <=> k \in Nat /\ k < j /\ Filled(c, k)
      <3>1. \A k : k \in A <=> k \in Nat /\ 0 <= k /\ k < j /\ Filled(c, k)
        BY <2>0, BeforeIs
      <3>2. \A k \in Nat : 0 <= k
        OBVIOUS
      <3> HIDE DEF A
      <3> QED  BY <3>1, <3>2, Zenon
    <2>11. \A k : k \in B <=> k \in Nat /\ 2 <= k /\ k < j /\ Filled(c, k)
      BY <2>0, BeforeIs
    <2> HIDE DEF A, B
    <2>12. \A k : k \in Nat => k = 0 \/ k = 1 \/ 2 <= k
      OBVIOUS
    <2>13. 0 # 1 /\ ~(2 <= 0) /\ ~(2 <= 1)
      OBVIOUS
    <2>2. A \subseteq (B \cup {0}) \cup {1} /\ 0 \notin B /\ 1 \notin B \cup {0}
      BY <2>10, <2>11, <2>12, <2>13, Zenon
    <2>3. Filled(c, 0) /\ Filled(c, 1) => A = (B \cup {0}) \cup {1}
      <3>1. 0 < j /\ 1 < j
        BY <1>1, <2>0
      <3> QED  BY <2>10, <2>11, <2>12, <3>1
    <2>4. IsFiniteSet(B \cup {0}) /\ Cardinality(B \cup {0}) = Cardinality(B) + 1
      BY <2>1, <2>2, FS_AddElement
    <2> DEFINE D == B \cup {0}
    <2>5. IsFiniteSet(D \cup {1}) /\ Cardinality(D \cup {1}) = Cardinality(B) + 2
      <3>1. 1 \notin D /\ IsFiniteSet(D) /\ Cardinality(D) = Cardinality(B) + 1
        BY <2>2, <2>4
      <3> HIDE DEF D
      <3> QED  BY <2>1, <3>1, FS_AddElement
    <2>6. Cardinality(A) <= Cardinality(D \cup {1})
      BY <2>2, <2>5, FS_Subset
    <2>7. Cardinality(A) <= 2 + Cardinality(B)
      BY <2>1, <2>5, <2>6
    <2>8. Filled(c, 0) /\ Filled(c, 1) => Cardinality(A) = 2 + Cardinality(B)
      <3>1. Cardinality(D \cup {1}) = 2 + Cardinality(B)
        BY <2>1, <2>5
      <3> QED  BY <2>3, <3>1, Zenon DEF D
    <2> QED  BY <2>1, <2>7, <2>8 DEF A, B
  <1>2. \A j : j \in Walk(c, 2, n) <=> j \in Cells /\ 2 <= j /\ Filled(c, j) /\ 2 + Cardinality(Before(c, 2, j)) < n
    BY WalkIs
  <1>3. \A j : j \in Walk(c, 0, n) <=> j \in Cells /\ 0 <= j /\ Filled(c, j) /\ 0 + Cardinality(Before(c, 0, j)) < n
    BY WalkIs
  <1>4. \A j \in Cells : j \in Nat
    BY Numbers
  <1>5. ASSUME NEW j \in Walk(c, 2, n) PROVE j \in Walk(c, 0, n) \ {0, 1}
    <2>1. j \in Cells /\ 2 <= j /\ Filled(c, j)
      BY <1>2
    <2>2. 2 + Cardinality(Before(c, 2, j)) < n
      BY <1>2
    <2>3. /\ Cardinality(Before(c, 0, j)) \in Nat /\ Cardinality(Before(c, 2, j)) \in Nat
          /\ Cardinality(Before(c, 0, j)) <= 2 + Cardinality(Before(c, 2, j))
      BY <1>1, <2>1
    <2>4. 0 + Cardinality(Before(c, 0, j)) < n
      BY <2>2, <2>3
    <2>5. j \in Nat /\ j # 0 /\ j # 1 /\ 0 <= j
      <3>1. j \in Nat
        BY <1>4, <2>1
      <3>2. 2 <= j
        BY <2>1
      <3> QED  BY <3>1, <3>2
    <2> QED  BY <1>3, <2>1, <2>4, <2>5
  <1>6. ASSUME Filled(c, 0), Filled(c, 1), NEW j \in Walk(c, 0, n) \ {0, 1} PROVE j \in Walk(c, 2, n)
    <2>1. j \in Cells /\ Filled(c, j)
      BY <1>3
    <2>2. 0 + Cardinality(Before(c, 0, j)) < n
      BY <1>3
    <2>3. 2 <= j
      <3>1. j \in Nat /\ j # 0 /\ j # 1
        BY <1>4, <2>1
      <3> QED  BY <3>1
    <2>4. /\ Cardinality(Before(c, 0, j)) \in Nat /\ Cardinality(Before(c, 2, j)) \in Nat
          /\ Cardinality(Before(c, 0, j)) = 2 + Cardinality(Before(c, 2, j))
      BY <1>1, <1>6, <2>1, <2>3
    <2>5. 2 + Cardinality(Before(c, 2, j)) < n
      BY <2>2, <2>4
    <2> QED  BY <1>2, <2>1, <2>3, <2>5
  <1> QED
    BY <1>5, <1>6

\* What is before a cell is a cell.
LEMMA CellsBelow ==
    ASSUME NEW j \in Cells
    PROVE  j \in Nat /\ \A k \in Nat : k < j => k \in Cells
PROOF
  <1>1. NCELL \in Nat
    BY FileSysAssumption
  <1> QED
    BY <1>1 DEF Cells

\* How the count grows from cell to cell.
LEMMA BeforeOne ==
    ASSUME NEW c, NEW r, NEW j \in Nat, NEW at \in Nat, at < j, ~Filled(c, at), Filled(r, at),
           \A k \in Nat : k < j /\ k # at => (Filled(r, k) <=> Filled(c, k))
    PROVE  /\ Cardinality(Before(c, 0, j)) \in Nat
           /\ Cardinality(Before(r, 0, j)) = Cardinality(Before(c, 0, j)) + 1
PROOF
  <1> DEFINE A == Before(c, 0, j)
             B == Before(r, 0, j)
  <1>1. IsFiniteSet(A) /\ Cardinality(A) \in Nat
    BY BeforeFacts
  <1>2. \A k : k \in A <=> k \in Nat /\ 0 <= k /\ k < j /\ Filled(c, k)
    BY BeforeIs
  <1>3. \A k : k \in B <=> k \in Nat /\ 0 <= k /\ k < j /\ Filled(r, k)
    BY BeforeIs
  <1>4. 0 <= at
    OBVIOUS
  <1> HIDE DEF A, B
  <1>5. at \notin A /\ at \in B
    BY <1>2, <1>3, <1>4
  <1>6. \A k : k \in B <=> k \in A \/ k = at
    <2>1. \A k : k # at => (k \in B <=> k \in A)
      BY <1>2, <1>3, Zenon
    <2> QED  BY <1>5, <2>1
  <1>7. B = A \cup {at}
    BY <1>6
  <1>8. Cardinality(A \cup {at}) = Cardinality(A) + 1
    BY <1>1, <1>5, FS_AddElement
  <1> QED
    BY <1>1, <1>7, <1>8 DEF A, B

LEMMA BeforeSame ==
    ASSUME NEW c, NEW r, NEW j \in Nat, \A k \in Nat : k < j => (Filled(r, k) <=> Filled(c, k))
    PROVE  Before(r, 0, j) = Before(c, 0, j)
PROOF
  <1>1. \A k : k \in Before(c, 0, j) <=> k \in Nat /\ 0 <= k /\ k < j /\ Filled(c, k)
    BY BeforeIs
  <1>2. \A k : k \in Before(r, 0, j) <=> k \in Nat /\ 0 <= k /\ k < j /\ Filled(r, k)
    BY BeforeIs
  <1> QED
    BY <1>1, <1>2, Zenon

LEMMA BeforeAll ==
    ASSUME NEW c, NEW j \in Nat, \A k \in Nat : k < j => Filled(c, k)
    PROVE  Cardinality(Before(c, 0, j)) = j
PROOF
  <1>1. \A k : k \in Before(c, 0, j) <=> k \in Nat /\ 0 <= k /\ k < j /\ Filled(c, k)
    BY BeforeIs
  <1>2. \A k : k \in 0..j - 1 <=> k \in Nat /\ 0 <= k /\ k < j
    OBVIOUS
  <1>3. Before(c, 0, j) = 0..j - 1
    BY <1>1, <1>2, Zenon
  <1>4. j - 1 \in Int /\ 0 \in Int /\ (0 > j - 1 <=> j = 0)
    OBVIOUS
  <1>5. Cardinality(0..j - 1) = IF 0 > j - 1 THEN 0 ELSE (j - 1) - 0 + 1
    BY <1>4, FS_Interval
  <1> QED
    BY <1>3, <1>4, <1>5

LEMMA BeforeMore ==
    ASSUME NEW c, NEW j \in Nat, NEW k \in Nat, k < j, Filled(c, k)
    PROVE  /\ Cardinality(Before(c, 0, k)) \in Nat /\ Cardinality(Before(c, 0, j)) \in Nat
           /\ Cardinality(Before(c, 0, k)) + 1 <= Cardinality(Before(c, 0, j))
PROOF
  <1> DEFINE A == Before(c, 0, k)
             B == Before(c, 0, j)
  <1>1. IsFiniteSet(A) /\ Cardinality(A) \in Nat /\ IsFiniteSet(B) /\ Cardinality(B) \in Nat
    BY BeforeFacts
  <1>2. \A i : i \in A <=> i \in Nat /\ 0 <= i /\ i < k /\ Filled(c, i)
    BY BeforeIs
  <1>3. \A i : i \in B <=> i \in Nat /\ 0 <= i /\ i < j /\ Filled(c, i)
    BY BeforeIs
  <1> HIDE DEF A, B
  <1>4. 0 <= k /\ ~(k < k) /\ \A i \in Nat : i < k => i < j
    OBVIOUS
  <1>5. k \notin A /\ A \cup {k} \in SUBSET B
    BY <1>2, <1>3, <1>4, Zenon
  <1>6. Cardinality(A \cup {k}) = Cardinality(A) + 1
    BY <1>1, <1>5, FS_AddElement
  <1>7. Cardinality(A \cup {k}) <= Cardinality(B)
    BY <1>1, <1>5, FS_Subset
  <1> QED
    BY <1>1, <1>6, <1>7 DEF A, B

\* What a walk from the start visits.
LEMMA WalkZero ==
    ASSUME NEW c, NEW n \in Int, NEW j \in Cells
    PROVE  /\ j \in Walk(c, 0, n) <=> Filled(c, j) /\ Cardinality(Before(c, 0, j)) < n
           /\ j \in Nat /\ Cardinality(Before(c, 0, j)) \in Nat
PROOF
  <1>1. j \in Nat /\ 0 <= j
    <2>1. j \in Nat
      BY Numbers
    <2> QED  BY <2>1
  <1>2. Cardinality(Before(c, 0, j)) \in Nat
    BY <1>1, BeforeFacts
  <1>3. j \in Walk(c, 0, n) <=> j \in Cells /\ 0 <= j /\ Filled(c, j) /\ 0 + Cardinality(Before(c, 0, j)) < n
    BY WalkIs
  <1>4. 0 + Cardinality(Before(c, 0, j)) = Cardinality(Before(c, 0, j))
    BY <1>2
  <1> QED
    BY <1>1, <1>2, <1>3, <1>4, Zenon

\* With one cell less to see, and counted down for it, a walk visits the others.
LEMMA WalkFewer ==
    ASSUME NEW c, NEW r, NEW n \in Int, NEW z \in Walk(c, 0, n), ~Filled(r, z),
           \A k \in Cells : k # z => (Filled(r, k) <=> Filled(c, k))
    PROVE  Walk(r, 0, n - 1) = Walk(c, 0, n) \ {z}
PROOF
  <1>1. z \in Cells /\ n - 1 \in Int
    BY WalkIs
  <1>2. /\ Filled(c, z) /\ Cardinality(Before(c, 0, z)) < n /\ z \in Nat
        /\ Cardinality(Before(c, 0, z)) \in Nat
    BY <1>1, WalkZero
  <1>3. ASSUME NEW j \in Cells PROVE j \in Walk(r, 0, n - 1) <=> j \in Walk(c, 0, n) /\ j # z
    <2>1. /\ j \in Nat /\ Cardinality(Before(c, 0, j)) \in Nat /\ Cardinality(Before(r, 0, j)) \in Nat
          /\ j \in Walk(c, 0, n) <=> Filled(c, j) /\ Cardinality(Before(c, 0, j)) < n
          /\ j \in Walk(r, 0, n - 1) <=> Filled(r, j) /\ Cardinality(Before(r, 0, j)) < n - 1
      BY <1>1, WalkZero
    <2>2. \A k \in Nat : k < j => k \in Cells
      BY CellsBelow
    <2>3. CASE j = z
      BY <1>2, <2>1, <2>3
    <2>4. CASE j < z
      <3>1. Before(r, 0, j) = Before(c, 0, j) /\ (Filled(r, j) <=> Filled(c, j)) /\ j # z
        <4>1. j # z /\ \A k \in Nat : k < j => k # z
          BY <1>2, <2>1, <2>4
        <4>2. \A k \in Nat : k < j => (Filled(r, k) <=> Filled(c, k))
          BY <2>2, <4>1
        <4> QED  BY <2>1, <4>1, <4>2, BeforeSame
      <3>2. Filled(c, j) => Cardinality(Before(c, 0, j)) + 1 <= Cardinality(Before(c, 0, z))
        BY <1>2, <2>1, <2>4, BeforeMore
      <3>3. Filled(c, j) => Cardinality(Before(c, 0, j)) < n - 1 /\ Cardinality(Before(c, 0, j)) < n
        BY <1>2, <2>1, <3>2
      <3> QED  BY <2>1, <3>1, <3>3
    <2>5. CASE z < j
      <3>1. Cardinality(Before(c, 0, j)) = Cardinality(Before(r, 0, j)) + 1
        <4>1. \A k \in Nat : k < j /\ k # z => (Filled(c, k) <=> Filled(r, k))
          BY <2>2
        <4> QED  BY <1>2, <2>1, <2>5, <4>1, BeforeOne
      <3>2. j # z
        BY <1>2, <2>1, <2>5
      <3>3. Cardinality(Before(c, 0, j)) < n <=> Cardinality(Before(r, 0, j)) < n - 1
        BY <2>1, <3>1
      <3> QED  BY <2>1, <3>2, <3>3
    <2>6. j = z \/ j < z \/ z < j
      BY <1>2, <2>1
    <2> QED  BY <2>3, <2>4, <2>5, <2>6
  <1>4. Walk(r, 0, n - 1) \subseteq Cells /\ Walk(c, 0, n) \subseteq Cells
    BY WalkIs
  <1> QED
    BY <1>3, <1>4

\* With one cell more to see, and counted, a walk visits it and what it visited before.
More(c, r, n, at) ==
    /\ n \in Nat /\ at \in Cells
    /\ at <= n /\ (~Filled(c, at) \/ at = n) /\ \A k \in Nat : k < at => Filled(c, k)
    /\ Filled(r, at) /\ \A k \in Cells : k # at => (Filled(r, k) <=> Filled(c, k))
LEMMA WalkMore ==
    ASSUME NEW c, NEW r, NEW n, NEW at, More(c, r, n, at)
    PROVE  at \notin Walk(c, 0, n) /\ Walk(r, 0, n + 1) = Walk(c, 0, n) \cup {at}
PROOF
  <1> n \in Nat /\ at \in Cells
    BY DEF More
  <1>0. /\ at <= n /\ (~Filled(c, at) \/ at = n) /\ \A k \in Nat : k < at => Filled(c, k)
        /\ Filled(r, at) /\ \A k \in Cells : k # at => (Filled(r, k) <=> Filled(c, k))
    BY DEF More
  <1>1. at \in Nat /\ n \in Int /\ n + 1 \in Int
    BY Numbers
  <1>2. Walk(c, 0, n) \subseteq Cells /\ Walk(r, 0, n + 1) \subseteq Cells
    BY WalkIs
  <1>3. \A j \in Cells : /\ j \in Nat /\ Cardinality(Before(c, 0, j)) \in Nat /\ Cardinality(Before(r, 0, j)) \in Nat
                         /\ j \in Walk(c, 0, n) <=> Filled(c, j) /\ Cardinality(Before(c, 0, j)) < n
                         /\ j \in Walk(r, 0, n + 1) <=> Filled(r, j) /\ Cardinality(Before(r, 0, j)) < n + 1
    BY <1>1, WalkZero
  <1>4. ASSUME NEW j \in Nat, j <= at
        PROVE  Cardinality(Before(c, 0, j)) = j /\ Cardinality(Before(r, 0, j)) = j
    <2>1. \A k \in Nat : k < j => k < at /\ k # at
      BY <1>1, <1>4
    <2>2. \A k \in Nat : k < j => k \in Cells
      BY <1>1, <2>1, CellsBelow
    <2>3. \A k \in Nat : k < j => Filled(c, k) /\ Filled(r, k)
      BY <1>0, <2>1, <2>2
    <2> QED  BY <2>3, BeforeAll
  <1>5. at \notin Walk(c, 0, n) /\ at \in Walk(r, 0, n + 1)
    <2>1. Cardinality(Before(c, 0, at)) = at /\ Cardinality(Before(r, 0, at)) = at
      BY <1>1, <1>4
    <2>2. ~(Filled(c, at) /\ at < n) /\ at < n + 1
      BY <1>0, <1>1
    <2> QED  BY <1>0, <1>3, <2>1, <2>2
  <1>6. ASSUME NEW j \in Cells, j # at PROVE j \in Walk(r, 0, n + 1) <=> j \in Walk(c, 0, n)
    <2>1. j \in Nat /\ (Filled(r, j) <=> Filled(c, j))
      BY <1>0, <1>3, <1>6
    <2>2. CASE j < at
      <3>1. Cardinality(Before(c, 0, j)) = j /\ Cardinality(Before(r, 0, j)) = j
        BY <1>1, <1>4, <2>1, <2>2
      <3>2. j < n /\ j < n + 1
        BY <1>0, <1>1, <2>1, <2>2
      <3> QED  BY <1>0, <1>3, <2>1, <2>2, <3>1, <3>2
    <2>3. CASE at < j /\ ~Filled(c, at)
      <3>1. \A k \in Nat : k < j /\ k # at => (Filled(r, k) <=> Filled(c, k))
        BY <1>0, CellsBelow
      <3>2. Cardinality(Before(r, 0, j)) = Cardinality(Before(c, 0, j)) + 1
        BY <1>0, <1>1, <2>1, <2>3, <3>1, BeforeOne
      <3>3. Cardinality(Before(c, 0, j)) \in Nat
        BY <1>3
      <3>4. Cardinality(Before(r, 0, j)) < n + 1 <=> Cardinality(Before(c, 0, j)) < n
        BY <3>2, <3>3
      <3> QED  BY <1>3, <2>1, <3>4
    <2>4. CASE at < j /\ Filled(c, at)
      <3>1. at = n
        BY <1>0, <2>4
      <3>2. Cardinality(Before(c, 0, at)) = at /\ Cardinality(Before(r, 0, at)) = at
        BY <1>1, <1>4
      <3>3. /\ Cardinality(Before(c, 0, at)) + 1 <= Cardinality(Before(c, 0, j))
            /\ Cardinality(Before(r, 0, at)) + 1 <= Cardinality(Before(r, 0, j))
        BY <1>0, <1>1, <2>1, <2>4, BeforeMore
      <3>4. Cardinality(Before(c, 0, j)) \in Nat /\ Cardinality(Before(r, 0, j)) \in Nat
        BY <1>3
      <3>5. ~(Cardinality(Before(c, 0, j)) < n) /\ ~(Cardinality(Before(r, 0, j)) < n + 1)
        BY <1>1, <3>1, <3>2, <3>3, <3>4
      <3> QED  BY <1>3, <3>5
    <2>5. j < at \/ at < j
      BY <1>1, <1>6, <2>1
    <2> QED  BY <2>2, <2>3, <2>4, <2>5
  <1> QED
    BY <1>2, <1>5, <1>6

\* A walk that may count every cell of a full block visits them all.
LEMMA WalkAll ==
    ASSUME NEW c, NEW n \in Nat, \A j \in Cells : j < n, \A j \in Cells : Filled(c, j)
    PROVE  Walk(c, 0, n) = Cells
PROOF
  <1>1. ASSUME NEW j \in Cells PROVE j \in Walk(c, 0, n)
    <2>1. n \in Int /\ j \in Nat
      BY Numbers
    <2>2. \A k \in Nat : k < j => Filled(c, k)
      BY CellsBelow
    <2>3. Cardinality(Before(c, 0, j)) = j
      BY <2>1, <2>2, BeforeAll
    <2> QED  BY <2>1, <2>3, WalkZero
  <1> QED
    BY <1>1, WalkIs

\* Where init_inode writes: behind non-empty cells, which the directory counts.
LEMMA PutPlace ==
    ASSUME NEW c, NEW n \in Nat, NEW x, NEW r, r = PutEntry(c, n + 1, x)
    PROVE  \E at \in 0..n :
              /\ \A k \in Nat : k < at => k \in Cells /\ Filled(c, k)
              /\ at \in Cells => (~Filled(c, at) \/ at = n) /\ r = Put(c, at, x)
              /\ at \notin Cells => r = c
PROOF
  <1> DEFINE hole == {j \in 0..n : j \in Cells => ~Filled(c, j)}
             at   == IF hole = {} THEN n ELSE Min(hole)
             put  == Put(c, at, x)
  <1>1. (n + 1) - 1 = n /\ hole \in SUBSET Nat
    OBVIOUS
  <1>2. r = IF at \in Cells THEN put ELSE c
    <2>1. PutEntry(c, n + 1, x) =
            LET h == {j \in 0..(n + 1) - 1 : j \in Cells => c[j].name = ""}
                a == IF h = {} THEN (n + 1) - 1 ELSE Min(h)
            IN IF a \in Cells THEN Put(c, a, x) ELSE c
      BY DEF PutEntry, Put
    <2>2. hole = {j \in 0..n : j \in Cells => c[j].name = ""}
      BY DEF Filled
    <2> HIDE DEF hole
    <2> QED  BY <1>1, <2>1, <2>2
  <1>3. hole # {} => Min(hole) \in hole /\ \A k \in hole : Min(hole) <= k
    <2> HIDE DEF hole
    <2> QED  BY <1>1, MinFacts
  <1> HIDE DEF put
  <1>4. CASE hole = {}
    <2>1. at = n
      BY <1>4
    <2>2. \A k \in Nat : k < n => k \in Cells /\ Filled(c, k)
      BY <1>4
    <2> HIDE DEF at
    <2>3. n \in 0..n
      OBVIOUS
    <2> QED  BY <1>2, <2>1, <2>2, <2>3 DEF put
  <1>5. CASE hole # {}
    <2>1. at \in hole /\ \A k \in hole : at <= k
      BY <1>3, <1>5
    <2> HIDE DEF at
    <2>2. at \in 0..n /\ (at \in Cells => ~Filled(c, at))
      BY <2>1
    <2>3. ASSUME NEW k \in Nat, k < at PROVE k \in Cells /\ Filled(c, k)
      <3>1. k \in 0..n /\ ~(at <= k)
        BY <2>2, <2>3
      <3>2. k \notin hole
        BY <2>1, <3>1
      <3> QED  BY <3>1, <3>2
    <2> QED  BY <1>2, <2>2, <2>3 DEF put
  <1> QED
    BY <1>4, <1>5

LEMMA PutFilled ==
    ASSUME NEW c \in [Cells -> CellT], NEW at \in Cells
    PROVE  /\ \A x : Content(x) => Filled(Put(c, at, x), at)
           /\ ~Filled(Put(c, at, EmptyCell), at)
           /\ \A x : \A k \in Cells : k # at => (Filled(Put(c, at, x), k) <=> Filled(c, k))
PROOF
  <1>1. \A x : Put(c, at, x)[at] = x /\ \A k \in Cells : k # at => Put(c, at, x)[k] = c[k]
    BY DEF Put
  <1> QED
    BY <1>1, CellsTyped DEF Filled, Content

\* With an entry made, and counted, a walk visits it and what it visited before;
\* no entry is made when the directory counts every cell already.
LEMMA WalkPut ==
    ASSUME NEW c \in [Cells -> CellT], NEW n \in Nat, NEW x, Content(x),
           NEW r, r = PutEntry(c, n + 1, x)
    PROVE  \/ \E at \in Cells \ Walk(c, 0, n) :
                 r = Put(c, at, x) /\ Walk(r, 0, n + 1) = Walk(c, 0, n) \cup {at}
           \/ /\ r = c /\ Walk(r, 0, n + 1) = Walk(c, 0, n)
              /\ \A j \in Cells : Filled(c, j) /\ j < n
PROOF
  <1>1. PICK at \in 0..n :
              /\ \A k \in Nat : k < at => k \in Cells /\ Filled(c, k)
              /\ at \in Cells => (~Filled(c, at) \/ at = n) /\ r = Put(c, at, x)
              /\ at \notin Cells => r = c
    BY PutPlace
  <1>2. CASE at \in Cells
    <2>1. r = Put(c, at, x)
      BY <1>1, <1>2
    <2>2. Filled(r, at) /\ \A k \in Cells : k # at => (Filled(r, k) <=> Filled(c, k))
      BY <1>2, <2>1, PutFilled
    <2>3. at <= n
      BY <1>1
    <2>4. (~Filled(c, at) \/ at = n) /\ \A k \in Nat : k < at => Filled(c, k)
      BY <1>1, <1>2
    <2>5. at \notin Walk(c, 0, n) /\ Walk(r, 0, n + 1) = Walk(c, 0, n) \cup {at}
      <3>1. Filled(r, at)
        BY <2>2
      <3>2. \A k \in Cells : k # at => (Filled(r, k) <=> Filled(c, k))
        BY <2>2
      <3>3. ~Filled(c, at) \/ at = n
        BY <2>4
      <3>4. \A k \in Nat : k < at => Filled(c, k)
        BY <2>4
      <3>5. More(c, r, n, at)
        BY <1>2, <2>3, <3>1, <3>2, <3>3, <3>4 DEF More
      <3> QED  BY <3>5, WalkMore
    <2> QED  BY <1>2, <2>1, <2>5
  <1>3. CASE at \notin Cells
    <2>1. r = c
      BY <1>1, <1>3
    <2>2. ASSUME NEW j \in Cells PROVE j < n /\ j < at /\ j < n + 1 /\ Filled(c, j)
      <3>1. j \in Nat /\ at \in Nat /\ at <= n
        BY <1>1, CellsBelow
      <3>2. ~(at < j) /\ at # j
        BY <1>3, <3>1, CellsBelow
      <3>3. j < at /\ j < n /\ j < n + 1
        BY <3>1, <3>2
      <3> QED  BY <1>1, <3>1, <3>3
    <2>3. n + 1 \in Nat
      OBVIOUS
    <2>4. Walk(c, 0, n) = Cells /\ Walk(c, 0, n + 1) = Cells
      BY <2>2, <2>3, WalkAll
    <2> QED  BY <2>1, <2>2, <2>4
  <1> QED
    BY <1>2, <1>3

\* With an entry removed, and counted down for it, a walk visits the others.
LEMMA WalkDrop ==
    ASSUME NEW c \in [Cells -> CellT], NEW n \in Int, NEW z \in Walk(c, 0, n),
           NEW r, r = Put(c, z, EmptyCell)
    PROVE  Walk(r, 0, n - 1) = Walk(c, 0, n) \ {z}
PROOF
  <1>1. z \in Cells
    BY WalkIs
  <1>2. ~Filled(r, z) /\ \A k \in Cells : k # z => (Filled(r, k) <=> Filled(c, k))
    BY <1>1, PutFilled
  <1> QED
    BY <1>2, WalkFewer

\* A new directory shows its two dots.
LEMMA DotsWalk ==
    ASSUME NEW c \in [Cells -> CellT], NEW n \in Inodes, NEW m \in Inodes, NEW r, r = Dots(c, n, m)
    PROVE  /\ r[0] = Cell("..", n, "dir") /\ r[1] = Cell(".", m, "dir")
           /\ \A j \in Cells \ {0, 1} : r[j] = c[j]
           /\ Filled(r, 0) /\ Filled(r, 1) /\ Walk(r, 0, 2) = {0, 1}
PROOF
  <1>1. r = [[c EXCEPT ![0] = Cell("..", n, "dir")] EXCEPT ![1] = Cell(".", m, "dir")]
    BY DEF Dots
  <1>2. /\ r[0] = Cell("..", n, "dir") /\ r[1] = Cell(".", m, "dir")
        /\ \A j \in Cells \ {0, 1} : r[j] = c[j]
    BY <1>1, Numbers
  <1>3. Filled(r, 0) /\ Filled(r, 1)
    BY <1>2, CellsTyped DEF Filled
  <1>4. ASSUME NEW j \in Cells PROVE j \in Walk(r, 0, 2) <=> j \in {0, 1}
    <2>1. j \in Walk(r, 0, 2) <=> Filled(r, j) /\ Cardinality(Before(r, 0, j)) < 2
      BY WalkZero
    <2>2. CASE j \in {0, 1}
      <3>1. j \in Nat /\ \A k \in Nat : k < j => k = 0
        BY <2>2
      <3>2. Cardinality(Before(r, 0, j)) = j
        BY <1>3, <3>1, BeforeAll
      <3>3. Filled(r, j)
        BY <1>3, <2>2
      <3> QED  BY <2>1, <2>2, <3>2, <3>3
    <2>3. CASE j \notin {0, 1}
      <3>1. j \in Nat /\ 1 < j /\ 0 < 1 /\ 0 \in Nat /\ 1 \in Nat
        BY <2>3, Numbers
      <3> DEFINE N(k) == Cardinality(Before(r, 0, k))
      <3>2. N(0) \in Nat /\ N(1) \in Nat /\ N(0) + 1 <= N(1)
        BY <1>3, <3>1, BeforeMore
      <3>3. N(j) \in Nat /\ N(1) + 1 <= N(j)
        BY <1>3, <3>1, BeforeMore
      <3>4. ~(N(j) < 2)
        <4> HIDE DEF N
        <4> QED  BY <3>2, <3>3
      <3> QED  BY <2>1, <2>3, <3>4
    <2> QED  BY <2>2, <2>3
  <1>5. Walk(r, 0, 2) \subseteq Cells /\ {0, 1} \subseteq Cells
    BY WalkIs, Numbers
  <1> QED
    BY <1>2, <1>3, <1>4, <1>5

---------------------------------------------------------------------------
(* The directories a path goes through, and the calls that leave it alone. *)

\* The cells a walk of a directory visits, and what is in them.
Shown(d, x) == Walk(d.block[d.inode[x].block], 0, d.inode[x].dnum)
EntryAt(d, x, j) == d.block[d.inode[x].block][j]

LEMMA DirFacts ==
    ASSUME NEW d, Sane(d), Settled(d), NEW x \in DirSet(d)
    PROVE  /\ d \in Card /\ x \in Inodes /\ x \in d.imap /\ Fits(x) /\ ReadInode(d, x) = d.inode[x]
           /\ d.inode[x].type = "dir" /\ d.inode[x].block \in Blocks /\ d.inode[x].block \in d.bmap
           /\ d.inode[x].block # 0
           /\ DirBlock(d, d.inode[x].block) /\ ~Data(d, d.inode[x].block) /\ d.inode[x].dnum \in Int
           /\ d.block[d.inode[x].block] \in [Cells -> CellT]
           /\ x # Root => x \in Named(d)
PROOF
  <1>1. d \in Card
    BY DEF Sane
  <1>2. /\ x \in Inodes /\ x \in d.imap /\ Fits(x) /\ d.inode[x].type = "dir" /\ d.inode[x].block \in d.bmap
        /\ d.inode[x].block # 0 /\ DirBlock(d, d.inode[x].block) /\ (x # Root => x \in Named(d))
    <2>1. CASE x = Root
      BY <2>1, Numbers DEF Settled, DirBlock
    <2>2. CASE x # Root
      <3>1. x \in Named(d) /\ d.inode[x].type = "dir"
        BY <2>2 DEF DirSet
      <3>2. x \in Inodes
        BY <3>1 DEF Named
      <3> QED  BY <3>1, <3>2 DEF Sane, NamedExist, Held, DirBlock
    <2> QED  BY <2>1, <2>2
  <1>3. ReadInode(d, x) = d.inode[x] /\ d.inode[x] \in InodeT /\ d.inode[x].block \in Blocks
    BY <1>1, <1>2, ReadTyped
  <1>4. d.inode[x].dnum \in Int /\ d.block[d.inode[x].block] \in [Cells -> CellT]
    BY <1>1, <1>3 DEF InodeT, Card
  <1>5. ~Data(d, d.inode[x].block)
    BY <1>2, <1>3 DEF Sane, DataApart
  <1> QED
    BY <1>1, <1>2, <1>3, <1>4, <1>5

\* Two directories have two blocks.
LEMMA DirsApart ==
    ASSUME NEW d, Sane(d), Settled(d), NEW x \in DirSet(d), NEW y \in DirSet(d), d.inode[x].block = d.inode[y].block
    PROVE  x = y
PROOF
  <1>1. \A z \in DirSet(d) : z # Root => z \in Named(d) /\ d.inode[z].block \notin {0, ROOTBLOCK}
    <2> TAKE z \in DirSet(d)
    <2> HAVE z # Root
    <2>1. z \in Named(d) /\ d.inode[z].type = "dir"
      BY DirFacts
    <2> QED  BY <2>1 DEF Sane, NamedExist, Held
  <1>2. d.inode[Root].block = ROOTBLOCK
    BY DEF Settled
  <1>3. x # Root /\ y # Root => x = y
    BY <1>1 DEF Sane, NamedApart
  <1> QED
    BY <1>1, <1>2, <1>3

\* Entering a directory follows an entry that its walk visits.
LEMMA EnterSome ==
    ASSUME NEW d, Sane(d), Settled(d), NEW x \in DirSet(d), NEW name,
           NEW y, y = Enter(d, x, name), y # -1
    PROVE  \E j \in Shown(d, x) : /\ j \in Cells /\ EntryAt(d, x, j).name = name
                                  /\ EntryAt(d, x, j).type = "dir" /\ EntryAt(d, x, j).id = y
PROOF
  <1> DEFINE c   == d.block[d.inode[x].block]
             hit == {k \in Walk(c, 0, d.inode[x].dnum) : c[k].name = name /\ c[k].type = "dir"}
             j   == Find(d, x, 0, name, "dir")
  <1>1. ReadInode(d, x) = d.inode[x] /\ x # -1
    BY DirFacts, Numbers
  <1>2. j = IF hit = {} THEN -1 ELSE Min(hit)
    BY <1>1 DEF Find
  <1>3. hit \in SUBSET Nat /\ hit \subseteq Cells
    <2>1. Walk(c, 0, d.inode[x].dnum) \subseteq Cells
      BY WalkIs
    <2> HIDE DEF c
    <2> QED  BY <2>1, Numbers
  <1>4. y = IF j = -1 THEN -1 ELSE c[j].id
    BY <1>1 DEF Enter
  <1>5. hit # {} => Min(hit) \in hit
    <2> HIDE DEF hit
    <2> QED  BY <1>3, MinFacts
  <1>6. j \in hit /\ y = c[j].id
    <2> HIDE DEF hit, j, c
    <2> QED  BY <1>2, <1>4, <1>5
  <1> QED
    BY <1>3, <1>6 DEF Shown, EntryAt

LEMMA EnterNowhere ==
    ASSUME NEW d, NEW name
    PROVE  Enter(d, -1, name) = -1
  BY DEF Enter

\* A name leads to a directory that an entry names.
LEMMA EnterDir ==
    ASSUME NEW d, Sane(d), Settled(d), NEW x \in DirSet(d), NEW name \in Names,
           NEW y, y = Enter(d, x, name), y # -1
    PROVE  /\ y \in DirSet(d) /\ y \in Named(d) /\ y # Root
           /\ \E j \in Shown(d, x) : j \in Cells /\ EntryAt(d, x, j).name \in Names /\ EntryAt(d, x, j).id = y
PROOF
  <1>1. PICK j \in Shown(d, x) : /\ j \in Cells /\ EntryAt(d, x, j).name = name
                                 /\ EntryAt(d, x, j).type = "dir" /\ EntryAt(d, x, j).id = y
    BY EnterSome
  <1>2. d \in Card /\ d.inode[x].block \in Blocks
    BY DirFacts
  <1>3. y \in Named(d)
    BY <1>1, <1>2, NamesIt DEF EntryAt
  <1>4. d.inode[y].type = "dir"
    BY <1>1, <1>2 DEF EntryAt, Sane, NamedTyped
  <1>5. y # Root
    BY <1>3 DEF Sane, NamedExist
  <1> QED
    BY <1>1, <1>3, <1>4, <1>5 DEF DirSet

\* A path that leads somewhere leads nowhere at no point.
LEMMA RouteGoes ==
    ASSUME NEW d, NEW start, NEW S, NEW path \in Seq(S), NEW f, Route(d, start, path, f), f[Len(path)] # -1
    PROVE  \A k \in 0..Len(path) : f[k] # -1
PROOF
  <1> DEFINE N == Len(path)
  <1>1. N \in Nat
    OBVIOUS
  <1>2. \A k \in 1..N : f[k] = Enter(d, f[k - 1], path[k])
    BY DEF Route
  <1> HIDE DEF N
  <1> SUFFICES ASSUME NEW i \in 0..N, f[i] = -1 PROVE FALSE
    BY DEF N
  <1> DEFINE T == {j \in 0..N : i <= j /\ f[j] # -1}
  <1>3. PICK m \in T : \A n \in T : m <= n
    <2>1. N \in T
      BY <1>1 DEF N
    <2>2. T \in SUBSET Nat
      OBVIOUS
    <2> HIDE DEF T
    <2> QED  BY <2>1, <2>2, LeastMember
  <1>4. m \in 1..N /\ m - 1 \in 0..N /\ m - 1 \notin T /\ i <= m - 1
    BY <1>1, <1>3
  <1>5. f[m - 1] = -1 /\ f[m] = Enter(d, f[m - 1], path[m])
    BY <1>2, <1>4
  <1> QED
    BY <1>3, <1>5, EnterNowhere

\* A path of names that leads somewhere goes through directories.
LEMMA RouteDirs ==
    ASSUME NEW d, Sane(d), Settled(d), NEW path \in Seq(Names), NEW f, Route(d, Root, path, f), f[Len(path)] # -1
    PROVE  \A k \in 0..Len(path) : f[k] \in DirSet(d)
PROOF
  <1> DEFINE N == Len(path)
  <1>1. N \in Nat /\ \A k \in 1..N : path[k] \in Names
    OBVIOUS
  <1>2. /\ f[0] = Root /\ Root \in DirSet(d)
        /\ \A k \in 1..N : f[k] = Enter(d, f[k - 1], path[k])
    BY DEF Route, DirSet
  <1> HIDE DEF N
  <1> SUFFICES ASSUME NEW k \in 0..N, f[k] \notin DirSet(d) PROVE FALSE
    BY DEF N
  <1>3. \E i \in 0..N : f[i] = -1
    <2> DEFINE T == {i \in 0..N : f[i] \notin DirSet(d)}
    <2>1. PICK m \in T : \A n \in T : m <= n
      <3>1. T \in SUBSET Nat /\ T # {}
        OBVIOUS
      <3> HIDE DEF T
      <3> QED  BY <3>1, LeastMember
    <2>2. m \in 1..N /\ m - 1 \in 0..N /\ m - 1 \notin T
      BY <1>1, <1>2, <2>1
    <2>3. f[m - 1] \in DirSet(d) /\ f[m] = Enter(d, f[m - 1], path[m]) /\ path[m] \in Names
      BY <1>1, <1>2, <2>2
    <2>4. f[m] = -1
      BY <2>1, <2>3, EnterDir
    <2> QED  BY <2>1, <2>4
  <1>4. \A i \in 0..N : f[i] # -1
    BY RouteGoes DEF N
  <1> QED
    BY <1>3, <1>4

\* It comes to no directory twice: each but the root is named by one entry.
LEMMA RouteOnward ==
    ASSUME NEW d, Sane(d), Settled(d), NEW path \in Seq(Names), NEW f, Route(d, Root, path, f), f[Len(path)] # -1
    PROVE  \A k \in 0..Len(path) - 1 : f[k] # f[Len(path)]
PROOF
  <1> DEFINE N == Len(path)
             T == {k \in 0..N : \E j \in 0..N : k < j /\ f[k] = f[j]}
  <1>1. N \in Nat /\ \A k \in 1..N : path[k] \in Names
    OBVIOUS
  <1>2. \A k \in 0..N : f[k] \in DirSet(d)
    BY RouteDirs
  <1>3. f[0] = Root /\ \A k \in 1..N : f[k] = Enter(d, f[k - 1], path[k])
    BY DEF Route
  <1> HIDE DEF N
  <1>4. ASSUME NEW k \in 1..N
        PROVE  /\ k - 1 \in 0..N /\ f[k - 1] \in DirSet(d) /\ f[k] # Root
               /\ \E j \in Shown(d, f[k - 1]) :
                    j \in Cells /\ EntryAt(d, f[k - 1], j).name \in Names /\ EntryAt(d, f[k - 1], j).id = f[k]
    <2>1. k - 1 \in 0..N /\ k \in 0..N
      BY <1>1
    <2>2. f[k - 1] \in DirSet(d) /\ f[k] = Enter(d, f[k - 1], path[k]) /\ path[k] \in Names /\ f[k] # -1
      <3>1. \A x \in DirSet(d) : x # -1
        BY DirFacts, Numbers
      <3> QED  BY <1>1, <1>2, <1>3, <2>1, <3>1
    <2> QED  BY <2>1, <2>2, EnterDir
  <1>5. T = {}
    <2> SUFFICES ASSUME T # {} PROVE FALSE
      OBVIOUS
    <2>1. PICK m \in T : \A n \in T : m <= n
      <3>1. T \in SUBSET Nat
        OBVIOUS
      <3> HIDE DEF T
      <3> QED  BY <3>1, LeastMember
    <2>2. PICK j \in 0..N : m < j /\ f[m] = f[j]
      BY <2>1
    <2>3. m \in 0..N /\ j \in 1..N
      BY <2>1, <2>2
    <2>4. m # 0
      BY <1>3, <1>4, <2>2, <2>3
    <2>5. m \in 1..N /\ m - 1 \in 0..N /\ j - 1 \in 0..N /\ m - 1 < j - 1 /\ m - 1 \notin T
      BY <1>1, <2>1, <2>2, <2>3, <2>4
    <2> DEFINE x == f[m - 1]
               y == f[j - 1]
    <2>6. PICK a \in Shown(d, x) : a \in Cells /\ EntryAt(d, x, a).name \in Names /\ EntryAt(d, x, a).id = f[m]
      BY <1>4, <2>5
    <2>7. PICK b \in Shown(d, y) : b \in Cells /\ EntryAt(d, y, b).name \in Names /\ EntryAt(d, y, b).id = f[j]
      BY <1>4, <2>3
    <2>8. x \in DirSet(d) /\ y \in DirSet(d)
      BY <1>2, <2>5
    <2> HIDE DEF x, y
    <2>9. d.inode[x].block \in Blocks /\ d.inode[y].block \in Blocks
      BY <2>8, DirFacts
    <2>10. d.inode[x].block = d.inode[y].block
      BY <2>2, <2>6, <2>7, <2>9 DEF EntryAt, Sane, NamedOnce
    <2>11. x = y
      BY <2>8, <2>10, DirsApart
    <2> QED  BY <2>5, <2>11 DEF x, y
  <1>6. ASSUME NEW k \in 0..N - 1 PROVE f[k] # f[N]
    <2>1. k \in 0..N /\ N \in 0..N /\ k < N /\ k \notin T
      BY <1>1, <1>5
    <2> QED  BY <2>1
  <1> QED
    BY <1>6 DEF N

\* e has the directories of X as d has them.
Keeps(d, e, X) == \A x \in X : /\ e.inode[x].dnum = d.inode[x].dnum /\ e.inode[x].block = d.inode[x].block
                               /\ e.block[d.inode[x].block] = d.block[d.inode[x].block]

LEMMA EnterKept ==
    ASSUME NEW d, Sane(d), Settled(d), NEW e \in Card, NEW X, Keeps(d, e, X), NEW x \in DirSet(d), x \in X, NEW name
    PROVE  Enter(e, x, name) = Enter(d, x, name)
PROOF
  <1>1. /\ ReadInode(d, x) = d.inode[x] /\ ReadInode(e, x) = e.inode[x] /\ x # -1
    BY DirFacts, Numbers DEF ReadInode
  <1>2. /\ e.inode[x].dnum = d.inode[x].dnum /\ e.inode[x].block = d.inode[x].block
        /\ e.block[d.inode[x].block] = d.block[d.inode[x].block]
    BY DEF Keeps
  <1>3. Find(e, x, 0, name, "dir") = Find(d, x, 0, name, "dir")
    BY <1>1, <1>2 DEF Find
  <1> QED
    BY <1>1, <1>2, <1>3 DEF Enter

\* A path of names leads where it led if nothing changes but the directory at its end.
LEMMA LocateKept ==
    ASSUME NEW d, Sane(d), Settled(d), NEW path \in Seq(Names), NEW p, p = Locate(d, Root, path), p # -1,
           NEW e \in Card, Keeps(d, e, DirSet(d) \ {p})
    PROVE  Locate(e, Root, path) = p
PROOF
  <1>1. d \in Card /\ Root \in Places
    BY Numbers DEF Sane, Places
  <1>2. PICK f : Route(d, Root, path, f) /\ Locate(d, Root, path) = f[Len(path)]
    BY <1>1, RouteExists
  <1>3. /\ \A k \in 0..Len(path) : f[k] \in DirSet(d)
        /\ \A k \in 0..Len(path) - 1 : f[k] # p
    BY <1>2, RouteDirs, RouteOnward
  <1>4. ASSUME NEW k \in 1..Len(path) PROVE f[k] = Enter(e, f[k - 1], path[k])
    <2>1. k - 1 \in 0..Len(path) - 1 /\ k - 1 \in 0..Len(path)
      OBVIOUS
    <2>2. f[k - 1] \in DirSet(d) \ {p} /\ f[k - 1] \in DirSet(d)
      BY <1>3, <2>1
    <2>3. Enter(e, f[k - 1], path[k]) = Enter(d, f[k - 1], path[k])
      BY <2>2, EnterKept
    <2> QED  BY <1>2, <2>3 DEF Route
  <1>5. Route(e, Root, path, f)
    BY <1>2, <1>4 DEF Route
  <1> QED
    BY <1>1, <1>2, <1>5, LocateIs

\* Where it leads is a directory.
LEMMA LocateDir ==
    ASSUME NEW d, Sane(d), Settled(d), NEW path \in Seq(Names), Locate(d, Root, path) # -1
    PROVE  Locate(d, Root, path) \in DirSet(d)
PROOF
  <1>1. d \in Card /\ Root \in Places
    BY Numbers DEF Sane, Places
  <1>2. PICK f : Route(d, Root, path, f) /\ Locate(d, Root, path) = f[Len(path)]
    BY <1>1, RouteExists
  <1>3. Len(path) \in 0..Len(path)
    OBVIOUS
  <1> QED
    BY <1>2, <1>3, RouteDirs

\* A write that leaves the directories of X alone.
Spare(d, w, X) ==
    /\ w.what = "inode" /\ w.at \in X => w.val.dnum = d.inode[w.at].dnum /\ w.val.block = d.inode[w.at].block
    /\ w.what = "block" => \A x \in X : w.at # d.inode[x].block
Spares(d, ws, X) == \A i \in 1..Len(ws) : Spare(d, ws[i], X)

LEMMA SpareKeeps ==
    ASSUME NEW d \in Card, NEW X \in SUBSET Inodes, NEW e \in Card, Keeps(d, e, X),
           NEW w \in Writes, Spare(d, w, X)
    PROVE  Keeps(d, Apply(e, w), X)
PROOF
  <1>1. \/ \E s \in SUBSET Inodes : w = Imap(s)
        \/ \E s \in SUBSET Blocks : w = Bmap(s)
        \/ \E n \in Inodes, r \in InodeT : w = Ino(n, r)
        \/ \E b \in Blocks, c \in [Cells -> CellT] : w = Blk(b, c)
    BY DEF Writes
  <1>2. CASE \E s \in SUBSET Inodes : w = Imap(s)
    BY <1>2, ApplyImap DEF Keeps
  <1>3. CASE \E s \in SUBSET Blocks : w = Bmap(s)
    BY <1>3, ApplyBmap DEF Keeps
  <1>4. CASE \E n \in Inodes, r \in InodeT : w = Ino(n, r)
    <2>1. PICK n \in Inodes, r \in InodeT : w = Ino(n, r)
      BY <1>4
    <2>2. w.what = "inode" /\ w.at = n /\ w.val = r
      BY <2>1 DEF Ino
    <2>3. /\ Apply(e, w).inode = IF Fits(n) THEN [e.inode EXCEPT ![n] = r] ELSE e.inode
          /\ Apply(e, w).block = e.block /\ e.inode \in [Inodes -> InodeT]
      BY <2>1, ApplyIno DEF Card
    <2>4. n \in X => r.dnum = d.inode[n].dnum /\ r.block = d.inode[n].block
      BY <2>2 DEF Spare
    <2>5. \A x \in X : Apply(e, w).inode[x] = e.inode[x] \/ (x = n /\ Apply(e, w).inode[x] = r)
      BY <2>3
    <2> QED  BY <2>3, <2>4, <2>5 DEF Keeps
  <1>5. CASE \E b \in Blocks, c \in [Cells -> CellT] : w = Blk(b, c)
    <2>1. PICK b \in Blocks, c \in [Cells -> CellT] : w = Blk(b, c)
      BY <1>5
    <2>2. w.what = "block" /\ w.at = b
      BY <2>1 DEF Blk
    <2>3. /\ Apply(e, w).block = [e.block EXCEPT ![b] = c] /\ Apply(e, w).inode = e.inode
          /\ e.block \in [Blocks -> [Cells -> CellT]]
      <3>1. w = Blk(b, c)
        BY <2>1
      <3>2. /\ Apply(e, Blk(b, c)).block = [e.block EXCEPT ![b] = c]
            /\ Apply(e, Blk(b, c)).inode = e.inode
        BY ApplyBlk
      <3>3. e.block \in [Blocks -> [Cells -> CellT]]
        BY DEF Card
      <3> QED  BY <3>1, <3>2, <3>3
    <2>4. \A x \in X : d.inode[x].block # b /\ d.inode[x].block \in Blocks
      BY <2>2 DEF Spare, Card, InodeT
    <2>5. \A x \in X : Apply(e, w).block[d.inode[x].block] = e.block[d.inode[x].block]
      BY <2>3, <2>4
    <2> QED  BY <2>3, <2>5 DEF Keeps
  <1> QED
    BY <1>1, <1>2, <1>3, <1>4, <1>5

LEMMA SparesKeep ==
    ASSUME NEW d \in Card, NEW X \in SUBSET Inodes, NEW ws \in Seq(Writes), Spares(d, ws, X)
    PROVE  \A k \in 0..Len(ws) : Done(d, ws, k) \in Card /\ Keeps(d, Done(d, ws, k), X)
PROOF
  <1> DEFINE N == Len(ws)
             T == {k \in 0..N : ~Keeps(d, Done(d, ws, k), X)}
  <1>1. N \in Nat /\ \A k \in 1..N : ws[k] \in Writes
    OBVIOUS
  <1>2. /\ Done(d, ws, 0) = d /\ \A k \in 0..N : Done(d, ws, k) \in Card
        /\ \A k \in 1..N : Done(d, ws, k) = Apply(Done(d, ws, k - 1), ws[k])
    BY DoneFacts
  <1> HIDE DEF N
  <1>3. T = {}
    <2> SUFFICES ASSUME T # {} PROVE FALSE
      OBVIOUS
    <2>1. PICK m \in T : \A n \in T : m <= n
      <3>1. T \in SUBSET Nat
        OBVIOUS
      <3> HIDE DEF T
      <3> QED  BY <3>1, LeastMember
    <2>2. m # 0
      BY <1>2, <2>1 DEF Keeps
    <2>3. m \in 1..N /\ m - 1 \in 0..N /\ m - 1 \notin T
      BY <1>1, <2>1, <2>2
    <2>4. Keeps(d, Done(d, ws, m - 1), X) /\ Spare(d, ws[m], X)
      BY <2>3 DEF Spares, N
    <2>5. Done(d, ws, m - 1) \in Card /\ ws[m] \in Writes /\ Done(d, ws, m) = Apply(Done(d, ws, m - 1), ws[m])
      BY <1>1, <1>2, <2>3
    <2>6. Keeps(d, Done(d, ws, m), X)
      BY <2>4, <2>5, SpareKeeps
    <2> QED  BY <2>1, <2>6
  <1> QED
    BY <1>2, <1>3 DEF N

\* A call that changes one inode and two blocks spares the directories that are elsewhere.
LEMMA HitsSpare ==
    ASSUME NEW d, NEW w, NEW N, NEW M, Hits(w, N, M), NEW X,
           X \cap N = {}, \A x \in X : d.inode[x].block \notin M
    PROVE  Spare(d, w, X)
PROOF
  <1>1. ~(w.what = "inode" /\ w.at \in X)
    BY DEF Hits
  <1>2. w.what = "block" => \A x \in X : w.at # d.inode[x].block
    BY DEF Hits
  <1> QED
    BY <1>1, <1>2 DEF Spare

LEMMA TouchesSpare ==
    ASSUME NEW d, NEW ws, NEW N, NEW M, Touches(ws, N, M), NEW X,
           X \cap N = {}, \A x \in X : d.inode[x].block \notin M
    PROVE  Spares(d, ws, X)
PROOF
  <1>1. \A i \in 1..Len(ws) : Hits(ws[i], N, M)
    BY DEF Touches
  <1>2. ASSUME NEW i \in 1..Len(ws) PROVE Spare(d, ws[i], X)
    <2>1. Hits(ws[i], N, M)
      BY <1>1
    <2> DEFINE w == ws[i]
    <2> HIDE DEF w
    <2>2. Hits(w, N, M)
      BY <2>1 DEF w
    <2>3. Spare(d, w, X)
      BY <2>2, HitsSpare
    <2> QED  BY <2>3 DEF w
  <1> QED
    BY <1>2 DEF Spares

LEMMA SparesNone ==
    ASSUME NEW d, NEW X
    PROVE  <<>> \in Seq(Writes) /\ Spares(d, <<>>, X)
  BY DEF Spares

LEMMA SparesOn ==
    ASSUME NEW d, NEW X, NEW ws \in Seq(Writes), Spares(d, ws, X), NEW w \in Writes, Spare(d, w, X)
    PROVE  Append(ws, w) \in Seq(Writes) /\ Spares(d, Append(ws, w), X)
PROOF
  <1> DEFINE v == Append(ws, w)
  <1>1. /\ Len(v) = Len(ws) + 1 /\ Len(ws) \in Nat /\ v[Len(ws) + 1] = w /\ v \in Seq(Writes)
        /\ \A i \in 1..Len(ws) : v[i] = ws[i]
    OBVIOUS
  <1> HIDE DEF v
  <1>2. \A i \in 1..Len(v) : i \in 1..Len(ws) \/ i = Len(ws) + 1
    BY <1>1
  <1>3. Spares(d, v, X)
    BY <1>1, <1>2 DEF Spares
  <1> QED
    BY <1>1, <1>3 DEF v

\* A write of a file spares the directories.
LEMMA FileSpares ==
    ASSUME NEW d, Sane(d), Settled(d), NEW alloc \in BOOLEAN, NEW sized \in BOOLEAN,
           NEW b \in Blocks, NEW p \in Cells, NEW x \in ToSet(Plane), NEW n \in Inodes, NEW v \in Int,
           alloc => b \notin d.bmap, ~alloc => b = 0 \/ (b \in d.bmap /\ ~DirBlock(d, b))
    PROVE  Spares(d, FileWrites(d, alloc, b, p, x, sized, n, v), DirSet(d))
PROOF
  <1> DEFINE X  == DirSet(d)
             s1 == d.bmap \cup {b}
             w1 == IF alloc THEN <<Bmap(s1)>> ELSE <<>>
             c2 == [d.block[b] EXCEPT ![p] = Cell(x, 0, "file")]
             r3 == [ReadInode(d, n) EXCEPT !.size = v]
  <1>1. d \in Card /\ d.block[b] \in [Cells -> CellT]
    BY DEF Sane, Card
  <1>2. Bmap(s1) \in Writes /\ Blk(b, c2) \in Writes /\ Ino(n, r3) \in Writes
    <2>1. s1 \in SUBSET Blocks /\ r3 \in InodeT
      BY <1>1, ReadTyped DEF Card
    <2>2. c2 \in [Cells -> CellT]
      BY <1>1, CellsTyped
    <2> HIDE DEF s1, c2, r3
    <2> QED  BY <2>1, <2>2, WritesTyped
  <1>3. Spare(d, Bmap(s1), X)
    BY DEF Spare, Bmap
  <1>4. Spare(d, Blk(b, c2), X)
    <2>1. \A y \in X : b # d.inode[y].block
      BY DirFacts
    <2>2. Blk(b, c2).what = "block" /\ Blk(b, c2).at = b
      BY DEF Blk
    <2> QED  BY <2>1, <2>2 DEF Spare
  <1>5. Spare(d, Ino(n, r3), X)
    <2>1. n \in X => ReadInode(d, n) = d.inode[n] /\ d.inode[n] \in InodeT
      BY <1>1, DirFacts, ReadTyped
    <2>2. n \in X => r3.dnum = d.inode[n].dnum /\ r3.block = d.inode[n].block
      BY <2>1 DEF InodeT
    <2>3. Ino(n, r3).what = "inode" /\ Ino(n, r3).at = n /\ Ino(n, r3).val = r3
      BY DEF Ino
    <2> HIDE DEF r3
    <2> QED  BY <2>2, <2>3 DEF Spare
  <1>6. FileWrites(d, alloc, b, p, x, sized, n, v) = w1 \o <<Blk(b, c2)>> \o (IF sized THEN <<Ino(n, r3)>> ELSE <<>>)
    BY DEF FileWrites
  <1> HIDE DEF s1, c2, r3, X
  <1>7. w1 \in Seq(Writes) /\ Spares(d, w1, X)
    <2>1. <<>> \in Seq(Writes) /\ Spares(d, <<>>, X)
      BY SparesNone
    <2>2. Append(<<>>, Bmap(s1)) \in Seq(Writes) /\ Spares(d, Append(<<>>, Bmap(s1)), X)
      BY <1>2, <1>3, <2>1, SparesOn
    <2>3. Append(<<>>, Bmap(s1)) = <<Bmap(s1)>>
      OBVIOUS
    <2> QED  BY <2>1, <2>2, <2>3
  <1> HIDE DEF w1
  <1>8. Append(w1, Blk(b, c2)) \in Seq(Writes) /\ Spares(d, Append(w1, Blk(b, c2)), X)
    BY <1>2, <1>4, <1>7, SparesOn
  <1>9. w1 \o <<Blk(b, c2)>> = Append(w1, Blk(b, c2))
    BY <1>2, <1>7
  <1> DEFINE u == Append(w1, Blk(b, c2))
  <1> HIDE DEF u
  <1>10. CASE sized
    <2>1. Append(u, Ino(n, r3)) \in Seq(Writes) /\ Spares(d, Append(u, Ino(n, r3)), X)
      BY <1>2, <1>5, <1>8, SparesOn DEF u
    <2>2. u \o <<Ino(n, r3)>> = Append(u, Ino(n, r3))
      BY <1>2, <1>8 DEF u
    <2> QED  BY <1>6, <1>9, <1>10, <2>1, <2>2 DEF u, X
  <1>11. CASE ~sized
    <2>1. u \o <<>> = u
      BY <1>8 DEF u
    <2> QED  BY <1>6, <1>8, <1>9, <1>11, <2>1 DEF u, X
  <1> QED
    BY <1>10, <1>11

---------------------------------------------------------------------------
(* The entries of directories.                                             *)

\* What a walk visits in a directory: entries and the two dots, of which "." is
\* the directory itself and ".." the directory with the entry that names it.
Dot(d, x, c) ==
    /\ c.name \in Names \cup {".", ".."}
    /\ c.name = "." => c.id = x
    /\ c.name = ".." /\ x = Root => c.id = Root
    /\ c.name = ".." => \A y \in DirSet(d) : \A k \in Shown(d, y) :
          EntryAt(d, y, k).name \in Names /\ EntryAt(d, y, k).id = x => c.id = y
Linked(d) == \A x \in DirSet(d) : /\ d.inode[x].dnum \in Nat
                                  /\ \A j \in Shown(d, x) : Dot(d, x, EntryAt(d, x, j))

\* Directories that show less are linked as before.
Shrunk(d, e) == /\ DirSet(e) \subseteq DirSet(d)
                /\ \A x \in DirSet(e) : /\ e.inode[x].dnum \in Nat /\ Shown(e, x) \subseteq Shown(d, x)
                                        /\ \A j \in Shown(e, x) : EntryAt(e, x, j) = EntryAt(d, x, j)
LEMMA ShrunkLinked ==
    ASSUME NEW d, Linked(d), NEW e, Shrunk(d, e)
    PROVE  Linked(e)
PROOF
  <1>1. ASSUME NEW x \in DirSet(e), NEW j \in Shown(e, x) PROVE Dot(e, x, EntryAt(e, x, j))
    <2>1. x \in DirSet(d) /\ j \in Shown(d, x) /\ EntryAt(e, x, j) = EntryAt(d, x, j)
      BY <1>1 DEF Shrunk
    <2>2. Dot(d, x, EntryAt(d, x, j))
      BY <2>1 DEF Linked
    <2>3. ASSUME NEW y \in DirSet(e), NEW k \in Shown(e, y)
          PROVE  y \in DirSet(d) /\ k \in Shown(d, y) /\ EntryAt(e, y, k) = EntryAt(d, y, k)
      BY <2>3 DEF Shrunk
    <2> QED  BY <2>1, <2>2, <2>3 DEF Dot
  <1> QED
    BY <1>1 DEF Linked, Shrunk

\* The root directory of a new card.
LEMMA RootedShows ==
    ASSUME NEW d \in Card, NEW e, Sane(e), Rooted(d, e)
    PROVE  /\ DirSet(e) = {Root} /\ e.inode[Root].dnum = 2 /\ Shown(e, Root) = {0, 1}
           /\ EntryAt(e, Root, 0) = Cell("..", Root, "dir") /\ EntryAt(e, Root, 1) = Cell(".", Root, "dir")
PROOF
  <1>1. DirSet(e) = {Root}
    BY DEF Rooted, DirSet
  <1>2. e.inode[Root].dnum = 2 /\ e.inode[Root].block = ROOTBLOCK
    BY DEF Rooted, NewInode
  <1>3. d.block[ROOTBLOCK] \in [Cells -> CellT] /\ e.block[ROOTBLOCK] = Dots(d.block[ROOTBLOCK], Root, Root)
    BY Numbers DEF Rooted, Card
  <1> DEFINE r == e.block[ROOTBLOCK]
  <1>4. r[0] = Cell("..", Root, "dir") /\ r[1] = Cell(".", Root, "dir") /\ Walk(r, 0, 2) = {0, 1}
    BY <1>3, Numbers, DotsWalk
  <1> QED
    BY <1>1, <1>2, <1>4 DEF Shown, EntryAt

\* The two dots of a directory.
LEMMA DotsAre ==
    ASSUME NEW n \in Inodes
    PROVE  /\ Cell("..", n, "dir").name = ".." /\ Cell("..", n, "dir").id = n
           /\ Cell(".", n, "dir").name = "." /\ Cell(".", n, "dir").id = n
  BY DEF Cell

LEMMA RootedLinked ==
    ASSUME NEW d \in Card, NEW e, Sane(e), Rooted(d, e)
    PROVE  Linked(e)
PROOF
  <1>1. /\ DirSet(e) = {Root} /\ e.inode[Root].dnum = 2 /\ Shown(e, Root) = {0, 1}
        /\ EntryAt(e, Root, 0) = Cell("..", Root, "dir") /\ EntryAt(e, Root, 1) = Cell(".", Root, "dir")
    BY RootedShows
  <1>2. \A k \in {0, 1} : /\ EntryAt(e, Root, k).name \in {".", ".."} /\ EntryAt(e, Root, k).id = Root
                          /\ EntryAt(e, Root, k).name \notin Names
    <2>1. Cell("..", Root, "dir").name = ".." /\ Cell("..", Root, "dir").id = Root
      BY DotsAre, Numbers
    <2>2. Cell(".", Root, "dir").name = "." /\ Cell(".", Root, "dir").id = Root
      BY DotsAre, Numbers
    <2> QED  BY <1>1, <2>1, <2>2, NamesApart
  <1>3. ASSUME NEW k \in Shown(e, Root) PROVE Dot(e, Root, EntryAt(e, Root, k))
    <2>1. ASSUME NEW y \in DirSet(e), NEW i \in Shown(e, y) PROVE EntryAt(e, y, i).name \notin Names
      <3>1. y = Root /\ i \in {0, 1}
        BY <1>1, <2>1
      <3> QED  BY <1>2, <3>1
    <2>2. /\ EntryAt(e, Root, k).name \in {".", ".."} /\ EntryAt(e, Root, k).id = Root
      BY <1>1, <1>2
    <2> QED  BY <2>1, <2>2 DEF Dot
  <1> QED
    BY <1>1, <1>3 DEF Linked

\* Every cell is taken and counted.
Crammed(d, x) == \A j \in Cells : EntryAt(d, x, j).name # "" /\ j < d.inode[x].dnum

\* What directories show when an entry x was made in one of them.
Gained(d, e, father, x) ==
    LET self == x.id IN
    /\ self \notin DirSet(d) /\ self \notin Named(d) /\ self \in Inodes
    /\ Named(e) \subseteq Named(d) \cup {self} /\ DirSet(e) \subseteq DirSet(d) \cup {self}
    /\ \A y \in DirSet(d) \ {father} : /\ e.inode[y].dnum = d.inode[y].dnum /\ Shown(e, y) = Shown(d, y)
                                       /\ \A j : EntryAt(e, y, j) = EntryAt(d, y, j)
    /\ e.inode[father].dnum = d.inode[father].dnum + 1
    /\ \/ \E at \in Cells \ Shown(d, father) :
             /\ Shown(e, father) = Shown(d, father) \cup {at} /\ EntryAt(e, father, at) = x
             /\ \A j \in Cells \ {at} : EntryAt(e, father, j) = EntryAt(d, father, j)
       \/ /\ Shown(e, father) = Shown(d, father)
          /\ \A j : EntryAt(e, father, j) = EntryAt(d, father, j)
          /\ Crammed(d, father)
    /\ self \in DirSet(e) =>
          /\ x.type = "dir" /\ e.inode[self].dnum = 2 /\ Shown(e, self) = {0, 1}
          /\ EntryAt(e, self, 0) = Cell("..", father, "dir") /\ EntryAt(e, self, 1) = Cell(".", self, "dir")

LEMMA MadeShows ==
    ASSUME NEW d, Sane(d), Settled(d), Linked(d), NEW father \in DirSet(d), NEW name \in Names, NEW type \in Types,
           NEW e, NEW ws, Made(d, e, ws, father, name, type), Sane(e),
           NEW x, x = Cell(name, FirstFree(d.imap, Inodes), type)
    PROVE  Gained(d, e, father, x)
PROOF
  <1> DEFINE self == FirstFree(d.imap, Inodes)
             b    == FirstFree(d.bmap, Blocks)
             f    == d.inode[father]
             fb   == f.block
             n    == f.dnum
             c    == d.block[fb]
             r    == e.block[fb]
  <1>1. /\ d \in Card /\ father \in Inodes /\ father \in d.imap /\ fb \in Blocks /\ fb \in d.bmap /\ f.type = "dir"
        /\ c \in [Cells -> CellT] /\ DirBlock(d, fb)
    BY DirFacts
  <1>2. n \in Nat /\ f \in InodeT
    BY <1>1 DEF Linked, Card
  <1>3. /\ self \in Inodes \ d.imap /\ b \in Blocks \ d.bmap
        /\ e.inode[self] = NewInode(type, b) /\ e.inode[father] = [f EXCEPT !.dnum = @ + 1]
        /\ \A m \in Inodes \ {self, father} : e.inode[m] = d.inode[m]
        /\ r = PutEntry(c, n + 1, Cell(name, self, type))
        /\ e.block[b] = IF type = "dir" THEN Dots(d.block[b], father, self) ELSE d.block[b]
        /\ \A z \in Blocks \ {fb, b} : e.block[z] = d.block[z]
    BY DEF Made
  <1>4. x \in CellT /\ x.name = name /\ x.id = self /\ x.type = type /\ x = Cell(name, self, type)
    BY <1>3, EntryTyped
  <1>5. Content(x)
    BY <1>4, NamesApart DEF Content
  <1>6. e.inode[father].dnum = n + 1 /\ e.inode[father].block = fb /\ e.inode[father].type = "dir"
    BY <1>1, <1>2, <1>3 DEF InodeT
  <1>7. e.inode[self].dnum = 2 /\ e.inode[self].block = b /\ e.inode[self].type = type
    BY <1>3 DEF NewInode
  <1> HIDE DEF self, b, f
  <1>8. self \notin Named(d) /\ self # Root
    BY <1>3 DEF Sane, NamedExist, Settled
  <1>9. \A y \in DirSet(d) : /\ y \in Inodes /\ y # self /\ d.inode[y].block \in Blocks /\ d.inode[y].block # b
                             /\ (y # father => d.inode[y].block # fb)
    <2> TAKE y \in DirSet(d)
    <2>1. y \in Inodes /\ y \in d.imap /\ d.inode[y].block \in Blocks /\ d.inode[y].block \in d.bmap
      BY DirFacts
    <2>2. d.inode[y].block = fb => y = father
      BY DirsApart DEF f
    <2> QED  BY <1>3, <2>1, <2>2
  <1>10. \A B \in Blocks, j \in Cells : e.block[B][j].name \in Names => e.block[B][j] = x \/ e.block[B][j] = d.block[B][j]
    <2> SUFFICES ASSUME NEW B \in Blocks, NEW j \in Cells, e.block[B][j].name \in Names
                 PROVE  e.block[B][j] = x \/ e.block[B][j] = d.block[B][j]
      OBVIOUS
    <2>1. CASE B = fb
      <3>1. r = c \/ PutsOne(c, x, r)
        <4>1. r = PutEntry(c, n + 1, x) /\ n + 1 \in Int
          BY <1>2, <1>3, <1>4
        <4> HIDE DEF c, r, n
        <4> QED  BY <1>1, <1>4, <4>1, PutFacts
      <3>2. r[j] = c[j] \/ r[j] = x
        BY <1>1, <3>1 DEF PutsOne
      <3> QED  BY <2>1, <3>2
    <2>2. CASE B = b /\ type = "dir" /\ B # fb
      <3>1. e.block[B] = Dots(d.block[B], father, self) /\ d.block[B] \in [Cells -> CellT]
        BY <1>1, <1>3, <2>2 DEF Card
      <3> DEFINE q == e.block[B]
      <3>2. /\ q[0] = Cell("..", father, "dir") /\ q[1] = Cell(".", self, "dir")
            /\ \A k \in Cells \ {0, 1} : q[k] = d.block[B][k]
        BY <1>1, <1>3, <3>1, DotsWalk
      <3>3. q[0].name = ".." /\ q[1].name = "."
        BY <1>1, <1>3, <3>2, DotsAre
      <3>4. j # 0 /\ j # 1
        BY <3>3, NamesApart
      <3> QED  BY <3>2, <3>4
    <2>3. CASE B = b /\ type # "dir" /\ B # fb
      BY <1>3, <2>3
    <2>4. CASE B # b /\ B # fb
      BY <1>3, <2>4
    <2> QED  BY <2>1, <2>2, <2>3, <2>4
  <1>11. Named(e) \subseteq Named(d) \cup {self}
    <2> SUFFICES ASSUME NEW m \in Named(e) PROVE m \in Named(d) \/ m = self
      OBVIOUS
    <2>1. PICK B \in Blocks, j \in Cells : e.block[B][j].name \in Names /\ e.block[B][j].id = m
      BY DEF Named
    <2>2. CASE e.block[B][j] = x
      BY <1>4, <2>1, <2>2
    <2>3. CASE e.block[B][j] = d.block[B][j]
      BY <1>1, <2>1, <2>3, NamesIt
    <2> QED  BY <1>10, <2>1, <2>2, <2>3
  <1>12. DirSet(e) \subseteq DirSet(d) \cup {self}
    <2> SUFFICES ASSUME NEW m \in DirSet(e), m # self, m # father PROVE m \in DirSet(d)
      OBVIOUS
    <2>1. CASE m = Root
      BY <2>1 DEF DirSet
    <2>2. CASE m # Root
      <3>1. m \in Named(e) /\ e.inode[m].type = "dir"
        BY <2>2 DEF DirSet
      <3>2. m \in Named(d) /\ m \in Inodes
        BY <1>11, <3>1 DEF Named
      <3> QED  BY <1>3, <3>1, <3>2 DEF DirSet
    <2> QED  BY <2>1, <2>2
  <1>13. \A y \in DirSet(d) \ {father} : /\ e.inode[y].dnum = d.inode[y].dnum /\ Shown(e, y) = Shown(d, y)
                                         /\ \A j : EntryAt(e, y, j) = EntryAt(d, y, j)
    <2> TAKE y \in DirSet(d) \ {father}
    <2>1. e.inode[y] = d.inode[y]
      BY <1>3, <1>9
    <2>2. e.block[d.inode[y].block] = d.block[d.inode[y].block]
      BY <1>3, <1>9
    <2> QED  BY <2>1, <2>2 DEF Shown, EntryAt
  <1>14. /\ Shown(d, father) = Walk(c, 0, n) /\ Shown(e, father) = Walk(r, 0, n + 1)
         /\ \A j : EntryAt(d, father, j) = c[j] /\ EntryAt(e, father, j) = r[j]
    BY <1>6 DEF Shown, EntryAt, f
  <1> HIDE DEF c, r, n, fb
  <1>15. \/ \E at \in Cells \ Shown(d, father) :
              /\ Shown(e, father) = Shown(d, father) \cup {at} /\ EntryAt(e, father, at) = x
              /\ \A j \in Cells \ {at} : EntryAt(e, father, j) = EntryAt(d, father, j)
         \/ /\ Shown(e, father) = Shown(d, father)
            /\ \A j : EntryAt(e, father, j) = EntryAt(d, father, j)
            /\ \A j \in Cells : EntryAt(d, father, j).name # "" /\ j < n
    <2>1. r = PutEntry(c, n + 1, x)
      BY <1>3, <1>4
    <2>2. \/ \E at \in Cells \ Walk(c, 0, n) :
               r = Put(c, at, x) /\ Walk(r, 0, n + 1) = Walk(c, 0, n) \cup {at}
          \/ /\ r = c /\ Walk(r, 0, n + 1) = Walk(c, 0, n)
             /\ \A j \in Cells : Filled(c, j) /\ j < n
      BY <1>1, <1>2, <1>5, <2>1, WalkPut
    <2>3. CASE \E at \in Cells \ Walk(c, 0, n) : r = Put(c, at, x) /\ Walk(r, 0, n + 1) = Walk(c, 0, n) \cup {at}
      <3>1. PICK at \in Cells \ Walk(c, 0, n) : r = Put(c, at, x) /\ Walk(r, 0, n + 1) = Walk(c, 0, n) \cup {at}
        BY <2>3
      <3>2. r[at] = x /\ \A j \in Cells \ {at} : r[j] = c[j]
        BY <1>1, <3>1 DEF Put
      <3>3. at \in Cells \ Shown(d, father) /\ Shown(e, father) = Shown(d, father) \cup {at}
        BY <1>14, <3>1
      <3>4. EntryAt(e, father, at) = x /\ \A j \in Cells \ {at} : EntryAt(e, father, j) = EntryAt(d, father, j)
        BY <1>14, <3>2
      <3> QED  BY <3>3, <3>4
    <2>4. CASE r = c /\ Walk(r, 0, n + 1) = Walk(c, 0, n) /\ \A j \in Cells : Filled(c, j) /\ j < n
      BY <1>14, <2>4 DEF Filled
    <2> QED  BY <2>2, <2>3, <2>4
  <1>16. self \notin DirSet(d)
    BY <1>9
  <1>17. ASSUME self \in DirSet(e)
         PROVE  /\ x.type = "dir" /\ e.inode[self].dnum = 2 /\ Shown(e, self) = {0, 1}
                /\ EntryAt(e, self, 0) = Cell("..", father, "dir") /\ EntryAt(e, self, 1) = Cell(".", self, "dir")
    <2>1. type = "dir"
      BY <1>7, <1>8, <1>17 DEF DirSet
    <2>2. e.block[b] = Dots(d.block[b], father, self) /\ d.block[b] \in [Cells -> CellT]
      BY <1>1, <1>3, <2>1 DEF Card
    <2> DEFINE q == e.block[b]
    <2>3. q[0] = Cell("..", father, "dir") /\ q[1] = Cell(".", self, "dir") /\ Walk(q, 0, 2) = {0, 1}
      BY <1>1, <1>3, <2>2, DotsWalk
    <2> QED  BY <1>4, <1>7, <2>1, <2>3 DEF Shown, EntryAt
  <1>18. e.inode[father].dnum = d.inode[father].dnum + 1 /\ n = d.inode[father].dnum
    BY <1>6 DEF n, f
  <1> QED
    BY <1>3, <1>4, <1>8, <1>11, <1>12, <1>13, <1>15, <1>16, <1>17, <1>18 DEF Gained, Crammed

\* Where the cells of e that its walks visit come from: the walks of d, or x.
LEMMA GainedCells ==
    ASSUME NEW d, NEW e, NEW father \in DirSet(d), NEW x, Gained(d, e, father, x), x.name \in Names,
           NEW y \in DirSet(d), NEW k \in Shown(e, y)
    PROVE  \/ k \in Shown(d, y) /\ EntryAt(e, y, k) = EntryAt(d, y, k)
           \/ y = father /\ EntryAt(e, y, k) = x
PROOF
  <1>1. CASE y # father
    BY <1>1 DEF Gained
  <1>2. CASE y = father
    <2>1. CASE \E at \in Cells \ Shown(d, father) :
                  /\ Shown(e, father) = Shown(d, father) \cup {at} /\ EntryAt(e, father, at) = x
                  /\ \A j \in Cells \ {at} : EntryAt(e, father, j) = EntryAt(d, father, j)
      <3>1. PICK at \in Cells \ Shown(d, father) :
                  /\ Shown(e, father) = Shown(d, father) \cup {at} /\ EntryAt(e, father, at) = x
                  /\ \A j \in Cells \ {at} : EntryAt(e, father, j) = EntryAt(d, father, j)
        BY <2>1
      <3>2. CASE k = at
        BY <1>2, <3>1, <3>2
      <3>3. CASE k # at
        <4>1. k \in Shown(d, father) /\ Shown(d, father) \subseteq Cells
          BY <1>2, <3>1, <3>3, WalkIs DEF Shown
        <4> QED  BY <1>2, <3>1, <3>3, <4>1
      <3> QED  BY <3>2, <3>3
    <2>2. CASE Shown(e, father) = Shown(d, father) /\ \A j : EntryAt(e, father, j) = EntryAt(d, father, j)
      BY <1>2, <2>2
    <2> QED  BY <2>1, <2>2 DEF Gained
  <1> QED
    BY <1>1, <1>2

LEMMA GainedLinked ==
    ASSUME NEW d, Sane(d), Settled(d), Linked(d), NEW father \in DirSet(d),
           NEW e, NEW x, Gained(d, e, father, x), x.name \in Names
    PROVE  Linked(e)
PROOF
  <1> DEFINE self == x.id
  <1>1. /\ self \notin DirSet(d) /\ self \notin Named(d) /\ self \in Inodes
        /\ DirSet(e) \subseteq DirSet(d) \cup {self}
        /\ self \in DirSet(e) =>
             /\ e.inode[self].dnum = 2 /\ Shown(e, self) = {0, 1}
             /\ EntryAt(e, self, 0) = Cell("..", father, "dir") /\ EntryAt(e, self, 1) = Cell(".", self, "dir")
    BY DEF Gained
  <1>2. father \in Inodes
    BY DirFacts
  <1> HIDE DEF self
  <1>3. ASSUME NEW y \in DirSet(e), NEW k \in Shown(e, y), EntryAt(e, y, k).name \in Names
        PROVE  \/ y \in DirSet(d) /\ k \in Shown(d, y) /\ EntryAt(e, y, k) = EntryAt(d, y, k)
               \/ y = father /\ EntryAt(e, y, k).id = self
    <2>1. CASE y \in DirSet(d)
      BY <1>3, <2>1, GainedCells DEF self
    <2>2. CASE y \notin DirSet(d)
      <3>1. y = self /\ k \in {0, 1}
        BY <1>1, <1>3, <2>2
      <3>2. EntryAt(e, self, 0).name = ".." /\ EntryAt(e, self, 1).name = "."
        BY <1>1, <1>2, <1>3, <3>1, DotsAre
      <3> QED  BY <1>3, <3>1, <3>2, NamesApart
    <2> QED  BY <2>1, <2>2
  <1>4. ASSUME NEW y \in DirSet(d), NEW k \in Shown(d, y), EntryAt(d, y, k).name \in Names
        PROVE  EntryAt(d, y, k).id # self
    <2>1. d \in Card /\ d.inode[y].block \in Blocks /\ k \in Cells
      BY DirFacts, WalkIs DEF Shown
    <2>2. EntryAt(d, y, k).id \in Named(d)
      BY <1>4, <2>1, NamesIt DEF EntryAt
    <2> QED  BY <1>1, <2>2
  <1>5. ASSUME NEW z \in DirSet(e), NEW j \in Shown(e, z) PROVE Dot(e, z, EntryAt(e, z, j))
    <2> DEFINE c == EntryAt(e, z, j)
    <2>1. CASE c.name \in Names
      BY <2>1, NamesApart DEF Dot
    <2>2. CASE c.name \notin Names /\ z \in DirSet(d)
      <3>1. j \in Shown(d, z) /\ c = EntryAt(d, z, j)
        BY <1>5, <2>2, GainedCells
      <3>2. Dot(d, z, c)
        BY <2>2, <3>1 DEF Linked
      <3> HIDE DEF c
      <3>3. ASSUME c.name = "..", NEW y \in DirSet(e), NEW k \in Shown(e, y),
                   EntryAt(e, y, k).name \in Names, EntryAt(e, y, k).id = z
            PROVE  c.id = y
        <4>1. z # self
          BY <1>1, <2>2
        <4>2. y \in DirSet(d) /\ k \in Shown(d, y) /\ EntryAt(e, y, k) = EntryAt(d, y, k)
          BY <1>3, <3>3, <4>1
        <4> QED  BY <3>2, <3>3, <4>2 DEF Dot
      <3>4. Dot(e, z, c)
        BY <3>2, <3>3 DEF Dot
      <3> QED  BY <3>4 DEF c
    <2>3. CASE z \notin DirSet(d)
      <3>1. z = self /\ j \in {0, 1} /\ self # Root
        BY <1>1, <1>5, <2>3 DEF DirSet
      <3>2. EntryAt(e, self, 0).name = ".." /\ EntryAt(e, self, 0).id = father
        BY <1>1, <1>2, <1>5, <3>1, DotsAre
      <3>3. EntryAt(e, self, 1).name = "." /\ EntryAt(e, self, 1).id = self
        BY <1>1, <1>2, <1>5, <3>1, DotsAre
      <3>4. ASSUME NEW y \in DirSet(e), NEW k \in Shown(e, y),
                   EntryAt(e, y, k).name \in Names, EntryAt(e, y, k).id = z
            PROVE  y = father
        <4>1. ~(y \in DirSet(d) /\ k \in Shown(d, y) /\ EntryAt(e, y, k) = EntryAt(d, y, k))
          BY <1>4, <3>1, <3>4
        <4> QED  BY <1>3, <3>4, <4>1
      <3>5. /\ c.name \in {".", ".."} /\ (c.name = "." => c.id = z) /\ (c.name = ".." => c.id = father)
        BY <3>1, <3>2, <3>3
      <3> HIDE DEF c
      <3>6. Dot(e, z, c)
        BY <3>1, <3>4, <3>5 DEF Dot
      <3> QED  BY <3>6 DEF c
    <2> QED  BY <2>1, <2>2, <2>3
  <1>6. ASSUME NEW z \in DirSet(e) PROVE e.inode[z].dnum \in Nat
    <2>1. CASE z = father
      <3>1. e.inode[father].dnum = d.inode[father].dnum + 1
        BY DEF Gained
      <3>2. d.inode[father].dnum \in Nat
        BY DEF Linked
      <3> QED  BY <2>1, <3>1, <3>2
    <2>2. CASE z \in DirSet(d) /\ z # father
      BY <2>2 DEF Gained, Linked
    <2>3. CASE z \notin DirSet(d)
      BY <1>1, <1>6, <2>3
    <2> QED  BY <2>1, <2>2, <2>3
  <1> QED
    BY <1>5, <1>6 DEF Linked

\* What directories show when the entry in cell j of one of them, or none, was removed.
Lost(d, e, dir, j) ==
    /\ Named(e) \subseteq Named(d) /\ DirSet(e) \subseteq DirSet(d)
    /\ \A y \in DirSet(d) \ {dir} : /\ e.inode[y].dnum = d.inode[y].dnum /\ Shown(e, y) = Shown(d, y)
                                    /\ \A k : EntryAt(e, y, k) = EntryAt(d, y, k)
    /\ e.inode[dir].dnum = d.inode[dir].dnum - 1
    /\ j = -1 => Shown(e, dir) \subseteq Shown(d, dir) /\ \A k : EntryAt(e, dir, k) = EntryAt(d, dir, k)
    /\ j # -1 => /\ j \in Shown(d, dir) /\ j \in Cells /\ j >= 2 /\ Shown(e, dir) = Shown(d, dir) \ {j}
                 /\ \A k \in Cells \ {j} : EntryAt(e, dir, k) = EntryAt(d, dir, k)

LEMMA FindTwo ==
    ASSUME NEW d, Sane(d), Settled(d), NEW dir \in DirSet(d), NEW name, NEW type,
           NEW j, j = Find(d, dir, 2, name, type), j # -1
    PROVE  /\ j \in Walk(d.block[d.inode[dir].block], 2, d.inode[dir].dnum) /\ j \in Cells /\ j >= 2
           /\ j \in Shown(d, dir) /\ EntryAt(d, dir, j).name = name /\ EntryAt(d, dir, j).type = type
PROOF
  <1> DEFINE c   == d.block[d.inode[dir].block]
             n   == d.inode[dir].dnum
             hit == {k \in Walk(c, 2, n) : c[k].name = name /\ c[k].type = type}
  <1>1. ReadInode(d, dir) = d.inode[dir] /\ n \in Int
    BY DirFacts
  <1>2. j = IF hit = {} THEN -1 ELSE Min(hit)
    BY <1>1 DEF Find
  <1>3. Walk(c, 2, n) \subseteq Cells /\ Walk(c, 2, n) \subseteq Walk(c, 0, n) /\ \A k \in Walk(c, 2, n) : 2 <= k
    <2> HIDE DEF c, n
    <2> QED  BY <1>1, WalkIs, WalkFromTwo
  <1>4. hit \in SUBSET Nat
    BY <1>3, Numbers
  <1>5. j \in hit
    <2> HIDE DEF hit
    <2> QED  BY <1>2, <1>4, MinFacts
  <1>6. j \in Walk(c, 2, n) /\ c[j].name = name /\ c[j].type = type
    BY <1>5
  <1>7. j \in Cells /\ j \in Nat /\ 2 <= j /\ j \in Walk(c, 0, n)
    BY <1>3, <1>6, Numbers
  <1> QED
    BY <1>6, <1>7 DEF Shown, EntryAt

LEMMA TakenShows ==
    ASSUME NEW d, Sane(d), Settled(d), Linked(d), NEW dir \in DirSet(d), NEW name,
           NEW e, NEW ws, Taken(d, e, ws, dir, name)
    PROVE  Lost(d, e, dir, Find(d, dir, 2, name, "dir"))
PROOF
  <1> DEFINE j  == Find(d, dir, 2, name, "dir")
             f  == d.inode[dir]
             fb == f.block
             n  == f.dnum
             c  == d.block[fb]
             r  == e.block[fb]
  <1>1. /\ d \in Card /\ dir \in Inodes /\ fb \in Blocks /\ c \in [Cells -> CellT] /\ f.type = "dir"
    BY DirFacts
  <1>2. n \in Nat /\ f \in InodeT
    BY <1>1 DEF Linked, Card
  <1>3. /\ e.inode[dir] = [f EXCEPT !.dnum = @ - 1] /\ \A m \in Inodes \ {dir} : e.inode[m] = d.inode[m]
        /\ r = IF j = -1 THEN c ELSE [c EXCEPT ![j] = EmptyCell]
        /\ \A z \in Blocks \ {fb} : e.block[z] = d.block[z]
    BY DEF Taken
  <1>4. e.inode[dir].dnum = n - 1 /\ e.inode[dir].block = fb /\ e.inode[dir].type = f.type
    BY <1>2, <1>3 DEF InodeT
  <1>5. j # -1 => j \in Walk(c, 2, n) /\ j \in Cells /\ j >= 2 /\ j \in Shown(d, dir)
    BY FindTwo
  <1> HIDE DEF j, f
  <1>6. /\ Shown(d, dir) = Walk(c, 0, n) /\ Shown(e, dir) = Walk(r, 0, n - 1)
        /\ \A k : EntryAt(d, dir, k) = c[k] /\ EntryAt(e, dir, k) = r[k]
    BY <1>4 DEF Shown, EntryAt, f
  <1>7. \A y \in DirSet(d) \ {dir} : /\ e.inode[y].dnum = d.inode[y].dnum /\ Shown(e, y) = Shown(d, y)
                                     /\ \A k : EntryAt(e, y, k) = EntryAt(d, y, k)
    <2> TAKE y \in DirSet(d) \ {dir}
    <2>1. y \in Inodes /\ d.inode[y].block \in Blocks /\ d.inode[y].block # fb
      BY DirFacts, DirsApart DEF f
    <2>2. e.inode[y] = d.inode[y] /\ e.block[d.inode[y].block] = d.block[d.inode[y].block]
      BY <1>3, <2>1
    <2> QED  BY <2>2 DEF Shown, EntryAt
  <1>8. \A B \in Blocks, k \in Cells : e.block[B][k] = d.block[B][k] \/ e.block[B][k] = EmptyCell
    BY <1>1, <1>3
  <1>9. Named(e) \subseteq Named(d)
    <2> SUFFICES ASSUME NEW m \in Named(e)
                 PROVE  m \in Named(d)
      OBVIOUS
    <2>1. PICK B \in Blocks, k \in Cells : e.block[B][k].name \in Names /\ e.block[B][k].id = m
      BY DEF Named
    <2>2. e.block[B][k] # EmptyCell
      BY <2>1, CellsTyped, NamesApart
    <2>3. e.block[B][k] = d.block[B][k]
      BY <1>8, <2>2
    <2>4. m \in Inodes
      BY DEF Named
    <2> QED
      BY <2>1, <2>3, <2>4 DEF Named
  <1>10. DirSet(e) \subseteq DirSet(d)
    <2>1. \A m \in Inodes : e.inode[m].type = d.inode[m].type
      BY <1>3, <1>4 DEF f
    <2> QED  BY <1>9, <2>1 DEF DirSet, Named
  <1> HIDE DEF c, r, n, fb
  <1>11. CASE j = -1
    <2>1. r = c /\ Walk(c, 0, n - 1) \subseteq Walk(c, 0, n)
      BY <1>2, <1>3, <1>11, WalkLess
    <2> QED  BY <1>4, <1>6, <1>7, <1>9, <1>10, <1>11, <2>1 DEF Lost, j, n, f
  <1>12. CASE j # -1
    <2>1. j \in Walk(c, 0, n) /\ j \in Cells /\ j >= 2
      BY <1>5, <1>6, <1>12
    <2>2. r = Put(c, j, EmptyCell)
      BY <1>3, <1>12 DEF Put
    <2>3. Walk(r, 0, n - 1) = Walk(c, 0, n) \ {j}
      BY <1>1, <1>2, <2>1, <2>2, WalkDrop
    <2>4. \A k \in Cells \ {j} : r[k] = c[k]
      BY <1>1, <2>2 DEF Put
    <2> QED  BY <1>4, <1>6, <1>7, <1>9, <1>10, <1>12, <2>1, <2>3, <2>4 DEF Lost, j, n, f
  <1> QED
    BY <1>11, <1>12

\* Where the cells of e that its walks visit come from.
LEMMA LostCells ==
    ASSUME NEW d, NEW e, NEW dir \in DirSet(d), NEW j, Lost(d, e, dir, j),
           NEW y \in DirSet(d), NEW k \in Shown(e, y)
    PROVE  k \in Shown(d, y) /\ EntryAt(e, y, k) = EntryAt(d, y, k)
PROOF
  <1>1. Shown(d, y) \subseteq Cells
    BY WalkIs DEF Shown
  <1> QED
    BY <1>1 DEF Lost

LEMMA LostLinked ==
    ASSUME NEW d, Linked(d), NEW dir \in DirSet(d), NEW e, NEW j, Lost(d, e, dir, j), d.inode[dir].dnum > 0
    PROVE  Linked(e)
PROOF
  <1>1. ASSUME NEW y \in DirSet(e) PROVE e.inode[y].dnum \in Nat
    <2>1. CASE y = dir
      <3>1. d.inode[dir].dnum \in Nat
        BY DEF Linked
      <3>2. e.inode[dir].dnum = d.inode[dir].dnum - 1
        BY DEF Lost
      <3> QED  BY <2>1, <3>1, <3>2
    <2>2. CASE y # dir
      BY <2>2 DEF Lost, Linked
    <2> QED  BY <2>1, <2>2
  <1>2. DirSet(e) \subseteq DirSet(d)
    BY DEF Lost
  <1>3. Shrunk(d, e)
    BY <1>1, <1>2, LostCells DEF Shrunk
  <1> QED
    BY <1>3, ShrunkLinked

\* What a call that makes an entry does to the directories.
LEMMA CreateGained ==
    ASSUME NEW d, Sane(d), Settled(d), Linked(d), NEW p \in DirSet(d),
           d.imap # Inodes, d.bmap # Blocks, NEW name \in Names, NEW type \in Types,
           Fits(FirstFree(d.imap, Inodes)), type = "dir" => 0 \in d.bmap,
           NEW ws, ws = Create(d, p, name, type)
    PROVE  /\ ws \in Seq(Writes) /\ Sane(After(d, ws)) /\ Settled(After(d, ws))
           /\ Gained(d, After(d, ws), p, Cell(name, FirstFree(d.imap, Inodes), type))
           /\ Spares(d, ws, DirSet(d) \ {p})
PROOF
  <1>1. p \in Inodes /\ p \in d.imap /\ Fits(p) /\ d.inode[p].block \in d.bmap
    BY DirFacts
  <1>2. PICK e : Leads(d, ws, e) /\ Created(d, e, type) /\ Made(d, e, ws, p, name, type)
    BY <1>1, CreateLeads
  <1>3. After(d, ws) = e /\ ws \in Seq(Writes) /\ Settled(e) /\ Sane(e)
    <2>1. After(d, ws) = e /\ ws \in Seq(Writes) /\ \A k \in 0..Len(ws) : Sane(Done(d, ws, k))
      BY <1>2 DEF Leads
    <2>2. Len(ws) \in 0..Len(ws)
      BY <2>1
    <2> QED  BY <1>2, <2>1, <2>2 DEF After, Created
  <1>4. Gained(d, e, p, Cell(name, FirstFree(d.imap, Inodes), type))
    BY <1>2, <1>3, MadeShows
  <1>5. Spares(d, ws, DirSet(d) \ {p})
    <2> DEFINE self == FirstFree(d.imap, Inodes)
               b    == FirstFree(d.bmap, Blocks)
               X    == DirSet(d) \ {p}
               N    == {self, p}
               M    == {d.inode[p].block, b}
    <2>1. self \in Inodes \ d.imap /\ b \in Blocks \ d.bmap /\ Touches(ws, N, M)
      BY <1>2 DEF Made
    <2>2. \A x \in X : x \in d.imap /\ d.inode[x].block \in d.bmap /\ d.inode[x].block # d.inode[p].block
      BY DirFacts, DirsApart
    <2>3. X \cap N = {} /\ \A x \in X : d.inode[x].block \notin M
      BY <2>1, <2>2
    <2> HIDE DEF X, N, M
    <2>4. Spares(d, ws, X)
      BY <2>1, <2>3, TouchesSpare
    <2> QED  BY <2>4 DEF X
  <1> QED
    BY <1>3, <1>4, <1>5

\* What rmdir does to the directories.
LEMMA RmdirLost ==
    ASSUME NEW d, Sane(d), Settled(d), Linked(d), NEW p \in DirSet(d), NEW name \in Names,
           NEW ws, ws = RmdirWrites(d, p, name)
    PROVE  /\ ws \in Seq(Writes) /\ Sane(After(d, ws)) /\ Settled(After(d, ws))
           /\ Lost(d, After(d, ws), p, Find(d, p, 2, name, "dir"))
           /\ Spares(d, ws, DirSet(d) \ {p})
PROOF
  <1>1. p \in Inodes /\ Fits(p)
    BY DirFacts
  <1>2. PICK e : Leads(d, ws, e) /\ Removed(d, e) /\ Taken(d, e, ws, p, name)
    BY <1>1, RmdirLeads
  <1>3. After(d, ws) = e /\ ws \in Seq(Writes) /\ Settled(e) /\ Sane(e)
    <2>1. After(d, ws) = e /\ ws \in Seq(Writes) /\ \A k \in 0..Len(ws) : Sane(Done(d, ws, k))
      BY <1>2 DEF Leads
    <2>2. Len(ws) \in 0..Len(ws)
      BY <2>1
    <2> QED  BY <1>2, <2>1, <2>2 DEF After, Removed
  <1>4. Lost(d, e, p, Find(d, p, 2, name, "dir"))
    BY <1>2, TakenShows
  <1>5. Spares(d, ws, DirSet(d) \ {p})
    <2> DEFINE X == DirSet(d) \ {p}
               N == {p}
               M == {d.inode[p].block}
    <2>1. Touches(ws, N, M)
      BY <1>2 DEF Taken
    <2>2. X \cap N = {} /\ \A x \in X : d.inode[x].block \notin M
      BY DirsApart
    <2> HIDE DEF X, N, M
    <2>3. Spares(d, ws, X)
      BY <2>1, <2>2, TouchesSpare
    <2> QED  BY <2>3 DEF X
  <1> QED
    BY <1>3, <1>4, <1>5

\* What a write of a file does to the directories.
LEMMA FileKeeps ==
    ASSUME NEW d, Sane(d), Settled(d), NEW alloc \in BOOLEAN, NEW sized \in BOOLEAN,
           NEW b \in Blocks, NEW p \in Cells, NEW x \in ToSet(Plane), x \notin Names,
           NEW n \in Inodes, NEW v \in Int,
           alloc => b \notin d.bmap, ~alloc => b = 0 \/ (b \in d.bmap /\ ~DirBlock(d, b)),
           NEW ws, ws = FileWrites(d, alloc, b, p, x, sized, n, v)
    PROVE  /\ ws \in Seq(Writes) /\ Settled(After(d, ws)) /\ DirSet(After(d, ws)) \subseteq DirSet(d)
           /\ Keeps(d, After(d, ws), DirSet(d)) /\ Spares(d, ws, DirSet(d))
PROOF
  <1>1. PICK e : Leads(d, ws, e) /\ Grown(d, b, e)
    BY FwriteLeads
  <1>2. After(d, ws) = e /\ ws \in Seq(Writes)
    BY <1>1 DEF Leads
  <1>3. Spares(d, ws, DirSet(d))
    BY FileSpares
  <1>4. d \in Card /\ DirSet(d) \in SUBSET Inodes
    BY DirFacts DEF Sane
  <1>5. Len(ws) \in 0..Len(ws)
    BY <1>2
  <1>6. Keeps(d, Done(d, ws, Len(ws)), DirSet(d))
    BY <1>2, <1>3, <1>4, <1>5, SparesKeep
  <1>7. DirSet(e) \subseteq DirSet(d)
    <2>1. Named(e) \subseteq Named(d) /\ \A m \in Inodes : e.inode[m].type = d.inode[m].type
      BY <1>1 DEF Grown
    <2>2. \A m \in Named(e) : m \in Inodes
      BY DEF Named
    <2> QED  BY <2>1, <2>2 DEF DirSet
  <1> QED
    BY <1>1, <1>2, <1>3, <1>6, <1>7 DEF After, Grown

LEMMA KeptLinked ==
    ASSUME NEW d, Linked(d), NEW e, DirSet(e) \subseteq DirSet(d), Keeps(d, e, DirSet(d))
    PROVE  Linked(e)
PROOF
  <1>1. ASSUME NEW x \in DirSet(e)
        PROVE  /\ e.inode[x].dnum \in Nat /\ Shown(e, x) \subseteq Shown(d, x)
               /\ \A j \in Shown(e, x) : EntryAt(e, x, j) = EntryAt(d, x, j)
    <2>1. /\ e.inode[x].dnum = d.inode[x].dnum /\ e.inode[x].block = d.inode[x].block
          /\ e.block[d.inode[x].block] = d.block[d.inode[x].block]
      BY <1>1 DEF Keeps
    <2>2. d.inode[x].dnum \in Nat
      BY <1>1 DEF Linked
    <2> QED  BY <2>1, <2>2 DEF Shown, EntryAt
  <1>2. Shrunk(d, e)
    BY <1>1 DEF Shrunk
  <1> QED
    BY <1>2, ShrunkLinked

\* The path in the prompt leads to the working directory after every single write.
Pathed(d, ws, p, path) ==
    /\ Settled(After(d, ws)) /\ Linked(After(d, ws)) /\ path \in Seq(Names) /\ p \in Inodes
    /\ \A k \in 0..Len(ws) : Locate(Done(d, ws, k), Root, path) = p

LEMMA PathStays ==
    ASSUME NEW d, Sane(d), Settled(d), NEW path \in Seq(Names), NEW p, p = Locate(d, Root, path), p # -1,
           NEW ws \in Seq(Writes), Spares(d, ws, DirSet(d) \ {p})
    PROVE  \A k \in 0..Len(ws) : Locate(Done(d, ws, k), Root, path) = p
PROOF
  <1> DEFINE X == DirSet(d) \ {p}
  <1>1. d \in Card /\ X \in SUBSET Inodes
    BY DirFacts DEF Sane
  <1>2. \A k \in 0..Len(ws) : Done(d, ws, k) \in Card /\ Keeps(d, Done(d, ws, k), X)
    <2>1. Spares(d, ws, X)
      OBVIOUS
    <2> HIDE DEF X
    <2> QED  BY <1>1, <2>1, SparesKeep
  <1> QED
    BY <1>2, LocateKept

LEMMA PathedFacts ==
    ASSUME NEW d, Sane(d), NEW p, NEW path, Pathed(d, <<>>, p, path)
    PROVE  /\ d \in Card /\ Settled(d) /\ Linked(d) /\ path \in Seq(Names) /\ p \in Inodes /\ p # -1
           /\ p = Locate(d, Root, path) /\ p \in DirSet(d)
PROOF
  <1>1. After(d, <<>>) = d /\ Done(d, <<>>, 0) = d /\ 0 \in 0..Len(<<>>)
    <2>1. Leads(d, <<>>, d)
      BY LeadsNowhere
    <2>2. d \in Card /\ <<>> \in Seq(Writes) /\ 0 \in 0..Len(<<>>)
      BY DEF Sane
    <2>3. Done(d, <<>>, 0) = d
      BY <2>2, DoneFacts
    <2> QED  BY <2>1, <2>2, <2>3 DEF Leads
  <1>2. /\ d \in Card /\ Settled(d) /\ Linked(d) /\ path \in Seq(Names) /\ p \in Inodes /\ p # -1
        /\ p = Locate(d, Root, path)
    BY <1>1, Numbers DEF Pathed, Sane
  <1> QED
    BY <1>2, LocateDir

LEMMA QuietPathed ==
    ASSUME NEW d, Sane(d), Settled(d), Linked(d), NEW path \in Seq(Names), NEW p \in Inodes,
           Locate(d, Root, path) = p
    PROVE  Pathed(d, <<>>, p, path)
PROOF
  <1>1. After(d, <<>>) = d
    BY LeadsNowhere DEF Leads
  <1>2. d \in Card /\ <<>> \in Seq(Writes) /\ \A k \in 0..Len(<<>>) : k = 0
    BY DEF Sane
  <1>3. \A k \in 0..Len(<<>>) : Done(d, <<>>, k) = d
    BY <1>2, DoneFacts
  <1> QED
    BY <1>1, <1>3 DEF Pathed

LEMMA CreatePathed ==
    ASSUME NEW d, Sane(d), NEW p, NEW path, Pathed(d, <<>>, p, path),
           d.imap # Inodes, d.bmap # Blocks, NEW name \in Names, NEW type \in Types,
           Fits(FirstFree(d.imap, Inodes)), type = "dir" => 0 \in d.bmap,
           NEW ws, ws = Create(d, p, name, type)
    PROVE  Pathed(d, ws, p, path)
PROOF
  <1>1. /\ d \in Card /\ Settled(d) /\ Linked(d) /\ path \in Seq(Names) /\ p \in Inodes /\ p # -1
        /\ p = Locate(d, Root, path) /\ p \in DirSet(d)
    BY PathedFacts
  <1> DEFINE x == Cell(name, FirstFree(d.imap, Inodes), type)
  <1>2. /\ ws \in Seq(Writes) /\ Sane(After(d, ws)) /\ Settled(After(d, ws))
        /\ Gained(d, After(d, ws), p, x) /\ Spares(d, ws, DirSet(d) \ {p})
    BY <1>1, CreateGained
  <1>3. x.name \in Names
    BY DEF Cell
  <1> HIDE DEF x
  <1>4. Linked(After(d, ws))
    BY <1>1, <1>2, <1>3, GainedLinked
  <1>5. \A k \in 0..Len(ws) : Locate(Done(d, ws, k), Root, path) = p
    BY <1>1, <1>2, PathStays
  <1> QED
    BY <1>1, <1>2, <1>4, <1>5 DEF Pathed

LEMMA RmdirPathed ==
    ASSUME NEW d, Sane(d), NEW p, NEW path, Pathed(d, <<>>, p, path),
           NEW name \in Names, d.inode[p].dnum > 0, NEW ws, ws = RmdirWrites(d, p, name)
    PROVE  Pathed(d, ws, p, path)
PROOF
  <1>1. /\ d \in Card /\ Settled(d) /\ Linked(d) /\ path \in Seq(Names) /\ p \in Inodes /\ p # -1
        /\ p = Locate(d, Root, path) /\ p \in DirSet(d)
    BY PathedFacts
  <1> DEFINE j == Find(d, p, 2, name, "dir")
  <1>2. /\ ws \in Seq(Writes) /\ Sane(After(d, ws)) /\ Settled(After(d, ws))
        /\ Lost(d, After(d, ws), p, j) /\ Spares(d, ws, DirSet(d) \ {p})
    BY <1>1, RmdirLost
  <1> HIDE DEF j
  <1>3. Linked(After(d, ws))
    BY <1>1, <1>2, LostLinked
  <1>4. \A k \in 0..Len(ws) : Locate(Done(d, ws, k), Root, path) = p
    BY <1>1, <1>2, PathStays
  <1> QED
    BY <1>1, <1>2, <1>3, <1>4 DEF Pathed

\* A write that spares these directories spares fewer.
LEMMA SparesFewer ==
    ASSUME NEW d, NEW ws, NEW X, Spares(d, ws, X), NEW Y, Y \subseteq X
    PROVE  Spares(d, ws, Y)
  BY DEF Spares, Spare

LEMMA FilePathed ==
    ASSUME NEW d, Sane(d), NEW q, NEW path, Pathed(d, <<>>, q, path),
           NEW ws \in Seq(Writes), Settled(After(d, ws)), DirSet(After(d, ws)) \subseteq DirSet(d),
           Keeps(d, After(d, ws), DirSet(d)), Spares(d, ws, DirSet(d))
    PROVE  Pathed(d, ws, q, path)
PROOF
  <1>1. /\ d \in Card /\ Settled(d) /\ Linked(d) /\ path \in Seq(Names) /\ q \in Inodes /\ q # -1
        /\ q = Locate(d, Root, path) /\ q \in DirSet(d)
    BY PathedFacts
  <1>2. Linked(After(d, ws))
    BY <1>1, KeptLinked
  <1>3. Spares(d, ws, DirSet(d) \ {q})
    BY SparesFewer
  <1>4. \A k \in 0..Len(ws) : Locate(Done(d, ws, k), Root, path) = q
    BY <1>1, <1>3, PathStays
  <1> QED
    BY <1>1, <1>2, <1>4 DEF Pathed

LEMMA MkfsPathed ==
    ASSUME NEW d, Sane(d), Blank(d)
    PROVE  Pathed(d, MkfsWrites(d), Root, <<>>)
PROOF
  <1> DEFINE ws == MkfsWrites(d)
  <1>1. PICK e : Leads(d, ws, e) /\ Rooted(d, e)
    BY MkfsLeads
  <1>2. /\ ws \in Seq(Writes) /\ After(d, ws) = e /\ d \in Card
        /\ \A k \in 0..Len(ws) : Sane(Done(d, ws, k))
    BY <1>1 DEF Leads, Sane
  <1> HIDE DEF ws
  <1>3. Sane(e)
    <2>1. Len(ws) \in 0..Len(ws)
      BY <1>2
    <2> QED  BY <1>2, <2>1 DEF After
  <1>4. Linked(e) /\ Settled(e)
    BY <1>1, <1>2, <1>3, RootedLinked DEF Rooted
  <1>5. \A k \in 0..Len(ws) : Locate(Done(d, ws, k), Root, <<>>) = Root
    <2>1. Root \in Places
      BY Numbers DEF Places
    <2> QED  BY <1>2, <2>1, LocateEmpty DEF Sane
  <1>6. <<>> \in Seq(Names) /\ Root \in Inodes
    BY Numbers
  <1> QED
    BY <1>2, <1>4, <1>5, <1>6 DEF Pathed, ws

---------------------------------------------------------------------------
(* cd.                                                                     *)

\* A sequence that is not empty, and its last member.
LEMMA FrontOf ==
    ASSUME NEW S, NEW s \in Seq(S), s # <<>>
    PROVE  Front(s) \in Seq(S) /\ s[Len(s)] \in S /\ s = Append(Front(s), s[Len(s)])
PROOF
  <1>1. Len(s) \in Nat /\ Len(s) >= 1
    OBVIOUS
  <1>2. Front(s) = SubSeq(s, 1, Len(s) - 1)
    BY DEF Front
  <1>3. Front(s) \in Seq(S) /\ Len(Front(s)) = Len(s) - 1 /\ \A i \in 1..Len(s) - 1 : Front(s)[i] = s[i]
    <2> DEFINE n == Len(s) - 1
               t == SubSeq(s, 1, n)
    <2>1. n \in Nat /\ n <= Len(s)
      BY <1>1
    <2> HIDE DEF n
    <2>2. \A i \in 1..n : s[i] \in S
      BY <2>1
    <2>3. Len(t) = n
      BY <2>1
    <2>4. \A i \in 1..n : t[i] = s[i]
      BY <2>1
    <2>5. t \in Seq(S)
      BY <2>1, <2>2
    <2> QED  BY <1>2, <2>3, <2>4, <2>5 DEF n
  <1>4. s[Len(s)] \in S
    BY <1>1
  <1> DEFINE t == Append(Front(s), s[Len(s)])
  <1>5. t \in Seq(S) /\ Len(t) = Len(s) /\ \A i \in 1..Len(s) : t[i] = s[i]
    BY <1>1, <1>3, <1>4
  <1> QED
    BY <1>3, <1>4, <1>5

\* One name of do_cd's path: the prompt turns as the directory does.
LEMMA TurnLeads ==
    ASSUME NEW d, Sane(d), Settled(d), Linked(d), NEW at \in Seq(Names), NEW x, x = Locate(d, Root, at), x # -1,
           NEW c, NEW y, y = Enter(d, x, c), y # -1
    PROVE  Turned(at, c) \in Seq(Names) /\ Locate(d, Root, Turned(at, c)) = y
PROOF
  <1>1. d \in Card /\ Root \in Places /\ x \in DirSet(d)
    BY LocateDir, Numbers DEF Sane, Places
  <1>2. PICK j \in Shown(d, x) : /\ j \in Cells /\ EntryAt(d, x, j).name = c
                                 /\ EntryAt(d, x, j).type = "dir" /\ EntryAt(d, x, j).id = y
    BY <1>1, EnterSome
  <1>3. Dot(d, x, EntryAt(d, x, j))
    BY <1>1, <1>2 DEF Linked
  <1>4. c \in Names \cup {".", ".."}
    BY <1>2, <1>3 DEF Dot
  <1>5. CASE c = "."
    <2>1. y = x
      BY <1>2, <1>3, <1>5 DEF Dot
    <2> QED  BY <1>5, <2>1 DEF Turned
  <1>6. CASE c = ".." /\ at = <<>>
    <2>1. x = Root
      BY <1>1, <1>6, LocateEmpty
    <2>2. y = Root
      BY <1>2, <1>3, <1>6, <2>1 DEF Dot
    <2>3. Turned(at, c) = at
      BY <1>6 DEF Turned
    <2> QED  BY <2>1, <2>2, <2>3
  <1>7. CASE c = ".." /\ at # <<>>
    <2> DEFINE q == Front(at)
               z == at[Len(at)]
               w == Locate(d, Root, q)
    <2>1. q \in Seq(Names) /\ z \in Names /\ at = Append(q, z)
      BY <1>7, FrontOf
    <2> HIDE DEF q, z
    <2>2. x = Enter(d, w, z)
      BY <1>1, <2>1, LocateAppend
    <2>3. w # -1
      BY <2>2, EnterNowhere
    <2>4. w \in DirSet(d)
      BY <2>1, <2>3, LocateDir
    <2> HIDE DEF w
    <2>5. PICK k \in Shown(d, w) : /\ k \in Cells /\ EntryAt(d, w, k).name = z
                                   /\ EntryAt(d, w, k).type = "dir" /\ EntryAt(d, w, k).id = x
      BY <2>2, <2>4, EnterSome
    <2>6. y = w
      BY <1>2, <1>3, <1>7, <2>1, <2>4, <2>5 DEF Dot
    <2>7. Turned(at, c) = q
      BY <1>7 DEF Turned, q
    <2> QED  BY <2>1, <2>6, <2>7 DEF w
  <1>8. CASE c \in Names
    <2>1. Turned(at, c) = Append(at, c)
      BY <1>8, NamesApart DEF Turned
    <2>2. Append(at, c) \in Seq(Names) /\ Locate(d, Root, Append(at, c)) = y
      BY <1>1, <1>8, LocateAppend
    <2> QED  BY <2>1, <2>2
  <1> QED
    BY <1>4, <1>5, <1>6, <1>7, <1>8

\* The prompt, name by name.
LEMMA CdPathIs ==
    ASSUME NEW S, NEW base \in Seq(S), NEW path \in Seq(S)
    PROVE  \E h : /\ h \in [0..Len(path) -> Seq(S)] /\ h[0] = base /\ CdPath(base, path) = h[Len(path)]
                  /\ \A k \in 1..Len(path) : h[k] = Turned(h[k - 1], path[k])
PROOF
  <1> DEFINE N == Len(path)
             G == [k \in 1..N |-> [x \in Seq(S) |-> Turned(x, path[k])]]
  <1>1. N \in Nat /\ \A k \in 1..N : path[k] \in S
    OBVIOUS
  <1>2. \A k \in 1..N : \A x \in Seq(S) : G[k][x] = Turned(x, path[k]) /\ G[k][x] \in Seq(S)
    <2> SUFFICES ASSUME NEW k \in 1..N, NEW x \in Seq(S) PROVE Turned(x, path[k]) \in Seq(S)
      OBVIOUS
    <2>1. x # <<>> => Front(x) \in Seq(S)
      BY FrontOf
    <2>2. Append(x, path[k]) \in Seq(S)
      BY <1>1
    <2> QED  BY <2>1, <2>2 DEF Turned
  <1>3. PICK h : h \in [0..N -> Seq(S)] /\ h[0] = base /\ \A k \in 1..N : h[k] = G[k][h[k - 1]]
    <2>1. Turns(N, Seq(S), G)
      BY <1>2 DEF Turns
    <2> HIDE DEF G, N
    <2>2. PICK h : Loop(h, N, Seq(S), base, G)
      BY <1>1, <2>1, LoopExists
    <2> QED  BY <2>2 DEF Loop
  <1> DEFINE P(h_) == h_ = [k \in 0..Len(path) |-> IF k = 0 THEN base ELSE Turned(h_[k - 1], path[k])]
             at[k \in 0..Len(path)] == IF k = 0 THEN base ELSE Turned(at[k - 1], path[k])
  <1>4. \A k \in 1..N : h[k] = Turned(h[k - 1], path[k])
    <2> TAKE k \in 1..N
    <2>1. h[k - 1] \in Seq(S)
      BY <1>1, <1>3
    <2> HIDE DEF G
    <2> QED  BY <1>2, <1>3, <2>1
  <1>5. P(h)
    BY <1>1, <1>3, <1>4
  <1>6. at = CHOOSE h_ : P(h_)
    OBVIOUS
  <1>7. P(at)
    <2> HIDE DEF P, at
    <2> QED  BY <1>5, <1>6
  <1>8. CdPath(base, path) = at[N]
    BY DEF CdPath
  <1>9. DOMAIN at = 0..N /\ \A k \in 0..N : at[k] = IF k = 0 THEN base ELSE Turned(at[k - 1], path[k])
    <2> HIDE DEF at
    <2> QED  BY <1>7
  <1> HIDE DEF at, P, G
  <1> DEFINE T == {k \in 0..N : at[k] # h[k]}
  <1>10. T = {}
    <2> SUFFICES ASSUME T # {} PROVE FALSE
      OBVIOUS
    <2>1. PICK m \in T : \A n \in T : m <= n
      <3>1. T \in SUBSET Nat
        OBVIOUS
      <3> HIDE DEF T
      <3> QED  BY <3>1, LeastMember
    <2>2. m \in 1..N /\ m - 1 \in 0..N /\ m - 1 \notin T
      BY <1>1, <1>3, <1>9, <2>1
    <2>3. at[m] = Turned(at[m - 1], path[m]) /\ at[m - 1] = h[m - 1]
      BY <1>9, <2>2
    <2> QED  BY <1>4, <2>1, <2>2, <2>3
  <1>11. at[N] = h[N]
    BY <1>1, <1>10
  <1> QED
    BY <1>3, <1>4, <1>8, <1>11

\* do_cd's prompt leads to the directory that path_locate finds.
LEMMA CdLeads ==
    ASSUME NEW d, Sane(d), Settled(d), Linked(d), NEW base \in Seq(Names), NEW start \in Inodes,
           Locate(d, Root, base) = start, NEW path \in Seq(STRING \cup Names),
           NEW dir, dir = Locate(d, start, path), dir # -1
    PROVE  CdPath(base, path) \in Seq(Names) /\ Locate(d, Root, CdPath(base, path)) = dir
PROOF
  <1> DEFINE N == Len(path)
             S == STRING \cup Names
  <1>1. N \in Nat /\ d \in Card /\ start \in Places /\ start # -1
    BY Numbers DEF Sane, Places
  <1>2. PICK g : Route(d, start, path, g) /\ dir = g[N]
    BY <1>1, RouteExists
  <1>3. /\ \A k \in 0..N : g[k] # -1
        /\ g[0] = start /\ \A k \in 1..N : g[k] = Enter(d, g[k - 1], path[k])
    BY <1>2, RouteGoes DEF Route
  <1>4. base \in Seq(S)
    OBVIOUS
  <1>5. PICK h : /\ h[0] = base /\ CdPath(base, path) = h[N]
                 /\ \A k \in 1..N : h[k] = Turned(h[k - 1], path[k])
    <2> HIDE DEF S
    <2>1. path \in Seq(S)
      BY DEF S
    <2> QED  BY <1>4, <2>1, CdPathIs
  <1> HIDE DEF N
  <1> DEFINE T == {k \in 0..N : ~(h[k] \in Seq(Names) /\ Locate(d, Root, h[k]) = g[k])}
  <1>6. T = {}
    <2> SUFFICES ASSUME T # {} PROVE FALSE
      OBVIOUS
    <2>1. PICK m \in T : \A n \in T : m <= n
      <3>1. T \in SUBSET Nat
        OBVIOUS
      <3> HIDE DEF T
      <3> QED  BY <3>1, LeastMember
    <2>2. m # 0
      BY <1>3, <1>5, <2>1
    <2>3. m \in 1..N /\ m \in 0..N /\ m - 1 \in 0..N /\ m - 1 \notin T
      BY <1>1, <2>1, <2>2
    <2>4. h[m - 1] \in Seq(Names) /\ g[m - 1] = Locate(d, Root, h[m - 1])
      BY <2>3
    <2>5. g[m] = Enter(d, g[m - 1], path[m]) /\ g[m - 1] # -1 /\ g[m] # -1 /\ h[m] = Turned(h[m - 1], path[m])
      BY <1>3, <1>5, <2>3
    <2>6. h[m] \in Seq(Names) /\ Locate(d, Root, h[m]) = g[m]
      BY <2>4, <2>5, TurnLeads
    <2> QED  BY <2>1, <2>6
  <1>7. N \in 0..N
    BY <1>1
  <1> QED
    BY <1>2, <1>5, <1>6, <1>7

---------------------------------------------------------------------------
(* The path in the prompt.                                                 *)

Harmed == Bad \cup {"cut"}
PathGood == \/ Blank(After(disk, pending)) /\ path_inode = Root /\ shell_path = <<>>
            \/ Pathed(disk, pending, path_inode, shell_path)
PathInv == Unless(Harmed) => PathGood

\* Between calls, with mkfs done.
LEMMA QuietPath ==
    ASSUME FGood, PathGood, pending = <<>>, Root \in disk.imap
    PROVE  Sane(disk) /\ disk \in Card /\ Settled(disk) /\ Pathed(disk, <<>>, path_inode, shell_path)
PROOF
  <1>1. Sane(disk) /\ disk \in Card /\ Ready(disk, users, file, shell)
    BY QuietFacts
  <1>2. After(disk, <<>>) = disk
    BY <1>1, LeadsNowhere DEF Leads
  <1>3. ~Blank(disk)
    BY DEF Blank
  <1> QED
    BY <1>1, <1>2, <1>3 DEF Ready, PathGood

LEMMA InitPath ==
    ASSUME Init
    PROVE  PathGood
PROOF
  <1>1. FGood /\ pending = <<>> /\ path_inode = Root /\ shell_path = <<>> /\ disk.imap = {}
    BY InitGood DEF Init
  <1>2. Sane(disk) /\ Ready(disk, users, file, shell) /\ ~Settled(disk)
    BY <1>1, QuietFacts DEF Settled
  <1>3. After(disk, <<>>) = disk
    BY <1>2, LeadsNowhere DEF Leads
  <1> QED
    BY <1>1, <1>2, <1>3 DEF Ready, PathGood

LEMMA CardWritePath ==
    ASSUME FGood, PathGood, CardWrite
    PROVE  PathGood'
PROOF
  <1>1. /\ pending # <<>> /\ disk' = Apply(disk, Head(pending)) /\ pending' = Tail(pending)
        /\ UNCHANGED <<path_inode, shell_path>>
    BY DEF CardWrite
  <1>2. disk \in Card /\ pending \in Seq(Writes)
    BY DEF FGood, Leads
  <1>3. /\ Len(pending') = Len(pending) - 1
        /\ \A k \in 0..Len(pending) - 1 : Done(disk', pending', k) = Done(disk, pending, k + 1)
    BY <1>1, <1>2, DoneShift
  <1>4. Len(pending) \in Nat /\ Len(pending) >= 1
    BY <1>1, <1>2
  <1>5. After(disk', pending') = After(disk, pending)
    BY <1>3, <1>4 DEF After
  <1>6. CASE Pathed(disk, pending, path_inode, shell_path)
    <2>1. ASSUME NEW k \in 0..Len(pending') PROVE Locate(Done(disk', pending', k), Root, shell_path) = path_inode
      <3>1. k + 1 \in 0..Len(pending) /\ k \in 0..Len(pending) - 1
        BY <1>3, <1>4
      <3> QED  BY <1>3, <1>6, <3>1 DEF Pathed
    <2>2. Pathed(disk', pending', path_inode, shell_path)
      BY <1>5, <1>6, <2>1 DEF Pathed
    <2> QED  BY <1>1, <2>2 DEF PathGood
  <1> QED
    BY <1>1, <1>5, <1>6 DEF PathGood

LEMMA RestartPath ==
    ASSUME FGood, PathGood, Restart, Unless(Harmed)'
    PROVE  PathGood'
PROOF
  <1>1. /\ pending' = <<>> /\ path_inode' = Root /\ shell_path' = <<>> /\ disk' = disk
        /\ pending # <<>> => "cut" \in harm' \/ "mkfs" \in harm'
    BY DEF Restart
  <1>2. pending = <<>>
    BY <1>1 DEF Unless, Harmed, Bad
  <1>3. Sane(disk) /\ disk \in Card /\ Ready(disk, users, file, shell)
    BY <1>2, QuietFacts
  <1>4. CASE Blank(disk)
    <2>1. After(disk, <<>>) = disk
      BY <1>3, LeadsNowhere DEF Leads
    <2> QED  BY <1>1, <1>4, <2>1 DEF PathGood
  <1>5. CASE Settled(disk)
    <2>1. Root \in disk.imap
      BY <1>5 DEF Settled
    <2>2. Pathed(disk, <<>>, path_inode, shell_path)
      BY <1>2, <2>1, QuietPath
    <2>3. Linked(disk)
      BY <1>3, <2>2, PathedFacts
    <2>4. <<>> \in Seq(Names) /\ Root \in Inodes /\ Root \in Places
      BY Numbers DEF Places
    <2>5. Locate(disk, Root, <<>>) = Root
      BY <1>3, <2>4, LocateEmpty
    <2>6. Pathed(disk, <<>>, Root, <<>>)
      BY <1>3, <1>5, <2>3, <2>4, <2>5, QuietPathed
    <2> QED  BY <1>1, <2>6 DEF PathGood
  <1> QED
    BY <1>3, <1>4, <1>5 DEF Ready

LEMMA MkfsPath ==
    ASSUME FGood, PathGood, Mkfs, Unless(Harmed)'
    PROVE  PathGood'
PROOF
  <1>1. /\ pending = <<>> /\ pending' = MkfsWrites(disk)
        /\ UNCHANGED <<disk, path_inode, shell_path>>
        /\ Root \in disk.imap /\ pending' # <<>> => "again" \in harm'
    BY DEF Mkfs
  <1>2. Sane(disk) /\ disk \in Card /\ Ready(disk, users, file, shell)
    BY <1>1, QuietFacts
  <1>3. CASE pending' = <<>>
    BY <1>1, <1>3 DEF PathGood
  <1>4. CASE pending' # <<>>
    <2>1. Root \notin disk.imap
      BY <1>1, <1>4 DEF Unless, Harmed, Bad
    <2>2. Blank(disk) /\ ~Settled(After(disk, <<>>))
      <3>1. After(disk, <<>>) = disk
        BY <1>2, LeadsNowhere DEF Leads
      <3> QED  BY <1>2, <2>1, <3>1 DEF Ready, Settled
    <2>3. path_inode = Root /\ shell_path = <<>>
      BY <1>1, <2>2 DEF PathGood, Pathed
    <2>4. Pathed(disk, pending', Root, <<>>)
      BY <1>1, <1>2, <2>2, MkfsPathed
    <2> QED  BY <1>1, <2>3, <2>4 DEF PathGood
  <1> QED
    BY <1>3, <1>4

LEMMA CdPathGood ==
    ASSUME FGood, PathGood, Cd
    PROVE  PathGood'
PROOF
  <1> DEFINE start == IF shell.abs THEN Root ELSE path_inode
             base  == IF shell.abs THEN <<>> ELSE shell_path
             dir   == Locate(disk, start, inst_path)
  <1>1. /\ Called("cd") /\ UNCHANGED <<disk, pending>>
        /\ dir = -1 => path_inode' = path_inode /\ shell_path' = shell_path
        /\ dir # -1 => path_inode' = dir /\ shell_path' = CdPath(base, inst_path)
    BY DEF Cd
  <1>2. Sane(disk) /\ disk \in Card /\ Settled(disk) /\ pending = <<>>
    BY <1>1, CalledFacts
  <1>3. inst_path \in Seq(STRING \cup Names)
    BY DEF FGood, TypedMemory
  <1>4. Pathed(disk, <<>>, path_inode, shell_path)
    BY <1>2, QuietPath DEF Settled
  <1>5. /\ Linked(disk) /\ shell_path \in Seq(Names) /\ path_inode \in Inodes
        /\ Locate(disk, Root, shell_path) = path_inode
    BY <1>2, <1>4, PathedFacts
  <1>6. start \in Inodes /\ base \in Seq(Names) /\ Locate(disk, Root, base) = start
    <2>1. <<>> \in Seq(Names) /\ Root \in Inodes /\ Root \in Places
      BY Numbers DEF Places
    <2>2. Locate(disk, Root, <<>>) = Root
      BY <1>2, <2>1, LocateEmpty
    <2> QED  BY <1>5, <2>1, <2>2
  <1> HIDE DEF start, base
  <1>7. CASE dir = -1
    BY <1>1, <1>2, <1>4, <1>7 DEF PathGood
  <1>8. CASE dir # -1
    <2>1. CdPath(base, inst_path) \in Seq(Names) /\ Locate(disk, Root, CdPath(base, inst_path)) = dir
      BY <1>2, <1>3, <1>5, <1>6, <1>8, CdLeads
    <2>2. dir \in Inodes
      BY <1>2, <1>3, <1>6, <1>8, LocateFacts
    <2>3. Pathed(disk, <<>>, dir, CdPath(base, inst_path))
      BY <1>2, <1>5, <2>1, <2>2, QuietPathed
    <2> QED  BY <1>1, <1>2, <1>8, <2>3 DEF PathGood
  <1> QED
    BY <1>7, <1>8

LEMMA MakePath ==
    ASSUME FGood, PathGood, NEW op \in {"mkdir", "touch"}, NEW type \in Types, Make(op, type), Unless(Harmed)'
    PROVE  PathGood'
PROOF
  <1>1. /\ Called(op) /\ Room /\ UNCHANGED <<disk, path_inode, shell_path>>
        /\ pending' = Create(disk, path_inode, inst_path[1], type)
        /\ harm' = harm \cup CreateHarms(disk, path_inode, type)
    BY DEF Make
  <1>2. Sane(disk) /\ Settled(disk) /\ pending = <<>> /\ shell.op = op
    BY <1>1, CalledFacts
  <1>3. inst_path[1] \in Names
    BY <1>2 DEF FGood, TypedMemory
  <1>4. Fits(FirstFree(disk.imap, Inodes)) /\ (type = "dir" => 0 \in disk.bmap)
    <2>1. CreateHarms(disk, path_inode, type) \cap Bad = {}
      BY <1>1 DEF Unless, Harmed
    <2> QED  BY <2>1, CreateHarmless
  <1>5. Pathed(disk, <<>>, path_inode, shell_path)
    BY <1>2, QuietPath DEF Settled
  <1>6. Pathed(disk, pending', path_inode, shell_path)
    BY <1>1, <1>2, <1>3, <1>4, <1>5, CreatePathed DEF Room
  <1> QED
    BY <1>1, <1>6 DEF PathGood

LEMMA RmdirPath ==
    ASSUME FGood, PathGood, Rmdir
    PROVE  PathGood'
PROOF
  <1>1. /\ Called("rmdir") /\ UNCHANGED <<disk, path_inode, shell_path>>
        /\ pending' = RmdirWrites(disk, path_inode, inst_path[1])
        /\ Fits(path_inode) => disk.inode[path_inode].dnum > 0
    BY DEF Rmdir
  <1>2. Sane(disk) /\ Settled(disk) /\ pending = <<>> /\ shell.op = "rmdir"
    BY <1>1, CalledFacts
  <1>3. inst_path[1] \in Names
    BY <1>2 DEF FGood, TypedMemory
  <1>4. Pathed(disk, <<>>, path_inode, shell_path)
    BY <1>2, QuietPath DEF Settled
  <1>5. disk.inode[path_inode].dnum > 0
    BY <1>1, <1>2, <1>4, PathedFacts, DirFacts
  <1>6. Pathed(disk, pending', path_inode, shell_path)
    BY <1>1, <1>2, <1>3, <1>4, <1>5, RmdirPathed
  <1> QED
    BY <1>1, <1>6 DEF PathGood

LEMMA FopenPath ==
    ASSUME FGood, PathGood, Fopen, Unless(Harmed)'
    PROVE  PathGood'
PROOF
  <1> DEFINE j == Find(disk, path_inode, 2, PlaneName, "file")
  <1>1. /\ pending = <<>> /\ Root \in disk.imap /\ UNCHANGED <<disk, path_inode, shell_path>>
        /\ pending' = IF j = -1 THEN Create(disk, path_inode, PlaneName, "file") ELSE <<>>
        /\ j = -1 => Room /\ CreateHarms(disk, path_inode, "file") \subseteq harm'
    BY DEF Fopen
  <1>2. Sane(disk) /\ Settled(disk) /\ Pathed(disk, <<>>, path_inode, shell_path)
    BY <1>1, QuietPath
  <1> HIDE DEF j
  <1>3. CASE j = -1
    <2>1. CreateHarms(disk, path_inode, "file") \cap Bad = {}
      BY <1>1, <1>3 DEF Unless, Harmed
    <2>2. Fits(FirstFree(disk.imap, Inodes))
      BY <2>1, CreateHarmless
    <2>3. PlaneName \in Names /\ "file" \in Types /\ disk.imap # Inodes /\ disk.bmap # Blocks
      BY <1>1, <1>3, NamesApart DEF Types, Room
    <2>4. pending' = Create(disk, path_inode, PlaneName, "file")
      BY <1>1, <1>3
    <2>5. Pathed(disk, pending', path_inode, shell_path)
      BY <1>2, <2>2, <2>3, <2>4, CreatePathed
    <2> QED  BY <1>1, <2>5 DEF PathGood
  <1>4. CASE j # -1
    BY <1>1, <1>2, <1>4 DEF PathGood
  <1> QED
    BY <1>3, <1>4

LEMMA FwritePath ==
    ASSUME FGood, PathGood, Fwrite
    PROVE  PathGood'
PROOF
  <1>1. pending = <<>> /\ users > 0 /\ UNCHANGED <<disk, path_inode, shell_path>>
    BY DEF Fwrite
  <1>2. Filed(disk, pending')
    BY FwriteGood
  <1>3. Root \in disk.imap
    <2>1. users # 0 /\ Ready(disk, users, file, shell)
      BY <1>1, QuietFacts
    <2> QED  BY <2>1 DEF Ready, Settled
  <1>4. Sane(disk) /\ Settled(disk) /\ Pathed(disk, <<>>, path_inode, shell_path)
    BY <1>1, <1>3, QuietPath
  <1> DEFINE ws == pending'
             e  == After(disk, ws)
  <1>5. /\ ws \in Seq(Writes) /\ Settled(e) /\ DirSet(e) \subseteq DirSet(disk)
        /\ Keeps(disk, e, DirSet(disk)) /\ Spares(disk, ws, DirSet(disk))
    <2>1. PICK alloc \in BOOLEAN, sized \in BOOLEAN, b \in Blocks, p \in Cells, x \in ToSet(Plane),
               n \in Inodes, v \in Int :
            /\ x \notin Names /\ (alloc => b \notin disk.bmap)
            /\ (~alloc => b = 0 \/ (b \in disk.bmap /\ ~DirBlock(disk, b)))
            /\ ws = FileWrites(disk, alloc, b, p, x, sized, n, v)
      BY <1>2 DEF Filed
    <2> QED  BY <1>4, <2>1, FileKeeps
  <1>6. Pathed(disk, ws, path_inode, shell_path)
    BY <1>4, <1>5, FilePathed
  <1> QED
    BY <1>1, <1>6 DEF PathGood

LEMMA StepPath ==
    ASSUME FInv, PathInv, [Next]_vars
    PROVE  PathInv'
PROOF
  <1> SUFFICES ASSUME Unless(Harmed)' PROVE PathGood'
    BY DEF PathInv
  <1>1. CASE UNCHANGED vars
    <2>1. PathGood
      BY <1>1 DEF PathInv, Unless, vars
    <2> QED  BY <1>1, <2>1 DEF vars, PathGood
  <1>2. CASE Next
    <2>1. harm \subseteq harm'
      BY <1>2 DEF Next, CardWrite, Restart, Mkfs, Parse, Cd, Mkdir, Touch, Make, Rmdir, Fopen, Fwrite, Fclose
    <2>2. FGood /\ PathGood
      BY <2>1 DEF FInv, PathInv, Unless, Harmed
    <2>3. CASE Mkdir
      BY <2>2, <2>3, MakePath DEF Mkdir, Types
    <2>4. CASE Touch
      BY <2>2, <2>4, MakePath DEF Touch, Types
    <2>5. CASE Parse \/ Fclose
      <3>1. UNCHANGED <<disk, pending, path_inode, shell_path>>
        BY <2>5 DEF Parse, Fclose
      <3> QED  BY <2>2, <3>1 DEF PathGood
    <2> QED
      BY <1>2, <2>2, <2>3, <2>4, <2>5, CardWritePath, RestartPath, MkfsPath, CdPathGood, RmdirPath,
         FopenPath, FwritePath DEF Next
  <1> QED
    BY <1>1, <1>2

LEMMA PathHolds ==
    ASSUME FInv, PathInv
    PROVE  PathAgrees
PROOF
  <1> SUFFICES ASSUME Unless(Harmed) PROVE path_inode # -1 /\ Locate(disk, Root, shell_path) = path_inode
    BY DEF PathAgrees, Harmed, Bad, Unless
  <1>1. PathGood /\ FGood
    BY DEF PathInv, FInv, Harmed, Unless
  <1>2. disk \in Card /\ pending \in Seq(Writes) /\ Root \in Places
    BY <1>1, Numbers DEF FGood, Leads, Places
  <1>3. CASE Blank(After(disk, pending)) /\ path_inode = Root /\ shell_path = <<>>
    BY <1>2, <1>3, LocateEmpty, Numbers
  <1>4. CASE Pathed(disk, pending, path_inode, shell_path)
    <2>1. 0 \in 0..Len(pending) /\ Done(disk, pending, 0) = disk
      BY <1>2, DoneFacts
    <2>2. path_inode \in Inodes /\ Locate(disk, Root, shell_path) = path_inode
      BY <1>4, <2>1 DEF Pathed
    <2> QED  BY <2>2, Numbers
  <1> QED
    BY <1>1, <1>3, <1>4 DEF PathGood

---------------------------------------------------------------------------
(* A directory counts what it shows.                                       *)

\* A directory begins with its dots.
Dotted(d, x) == EntryAt(d, x, 0).name = ".." /\ EntryAt(d, x, 1).name = "."
Counted(d) == \A x \in DirSet(d) : /\ {0, 1} \subseteq Shown(d, x) /\ Cardinality(Shown(d, x)) = d.inode[x].dnum
                                   /\ Dotted(d, x)

LEMMA ShownFinite ==
    ASSUME NEW d, NEW x
    PROVE  IsFiniteSet(Shown(d, x)) /\ Cardinality(Shown(d, x)) \in Nat /\ Shown(d, x) \subseteq Cells
PROOF
  <1>1. IsFiniteSet(Shown(d, x)) /\ Shown(d, x) \subseteq Cells
    BY WalkFinite, WalkIs DEF Shown
  <1> QED
    BY <1>1, FS_CardinalityType

LEMMA TwoDots == IsFiniteSet({0, 1}) /\ Cardinality({0, 1}) = 2
PROOF
  <1>1. IsFiniteSet({0}) /\ Cardinality({0}) = 1
    BY FS_Singleton
  <1>2. {0, 1} = {0} \cup {1} /\ 1 \notin {0}
    OBVIOUS
  <1> QED
    BY <1>1, <1>2, FS_AddElement

LEMMA RootedCounted ==
    ASSUME NEW d \in Card, NEW e, Sane(e), Rooted(d, e)
    PROVE  Counted(e)
PROOF
  <1>1. DirSet(e) = {Root} /\ e.inode[Root].dnum = 2 /\ Shown(e, Root) = {0, 1}
    BY RootedShows
  <1>2. Dotted(e, Root)
    <2>1. EntryAt(e, Root, 0) = Cell("..", Root, "dir") /\ EntryAt(e, Root, 1) = Cell(".", Root, "dir")
      BY RootedShows
    <2> QED  BY <2>1, DotsAre, Numbers DEF Dotted
  <1> QED
    BY <1>1, <1>2, TwoDots DEF Counted

LEMMA GainedCounted ==
    ASSUME NEW d, Counted(d), NEW father \in DirSet(d), NEW e, NEW x, Gained(d, e, father, x),
           ~Crammed(d, father)
    PROVE  Counted(e)
PROOF
  <1>1. PICK at \in Cells \ Shown(d, father) :
           /\ Shown(e, father) = Shown(d, father) \cup {at}
           /\ \A k \in Cells \ {at} : EntryAt(e, father, k) = EntryAt(d, father, k)
    BY DEF Gained
  <1>2. Cardinality(Shown(e, father)) = Cardinality(Shown(d, father)) + 1
    BY <1>1, ShownFinite, FS_AddElement
  <1> SUFFICES ASSUME NEW y \in DirSet(e)
               PROVE  /\ {0, 1} \subseteq Shown(e, y) /\ Cardinality(Shown(e, y)) = e.inode[y].dnum
                      /\ Dotted(e, y)
    BY DEF Counted
  <1>3. CASE y = father
    <2>1. {0, 1} \subseteq Shown(d, father) /\ Cardinality(Shown(d, father)) = d.inode[father].dnum
      BY DEF Counted
    <2>2. e.inode[father].dnum = d.inode[father].dnum + 1
      BY DEF Gained
    <2>3. Dotted(e, father)
      <3>1. 0 \in Cells \ {at} /\ 1 \in Cells \ {at} /\ Dotted(d, father)
        BY <1>1, <2>1, Numbers DEF Counted
      <3> QED  BY <1>1, <3>1 DEF Dotted
    <2> QED  BY <1>1, <1>2, <1>3, <2>1, <2>2, <2>3
  <1>4. CASE y # father /\ y \in DirSet(d)
    <2>1. /\ e.inode[y].dnum = d.inode[y].dnum /\ Shown(e, y) = Shown(d, y)
          /\ \A k : EntryAt(e, y, k) = EntryAt(d, y, k)
      BY <1>4 DEF Gained
    <2> QED  BY <1>4, <2>1 DEF Counted, Dotted
  <1>5. CASE y \notin DirSet(d)
    <2>1. /\ e.inode[y].dnum = 2 /\ Shown(e, y) = {0, 1} /\ y \in Inodes
          /\ EntryAt(e, y, 0) = Cell("..", father, "dir") /\ EntryAt(e, y, 1) = Cell(".", y, "dir")
      BY <1>5 DEF Gained
    <2> QED  BY <2>1, TwoDots DEF Dotted, Cell
  <1> QED
    BY <1>3, <1>4, <1>5

LEMMA LostCounted ==
    ASSUME NEW d, Counted(d), NEW dir \in DirSet(d), NEW e, NEW j, Lost(d, e, dir, j), j # -1
    PROVE  Counted(e)
PROOF
  <1>1. j \in Shown(d, dir) /\ j # 0 /\ j # 1 /\ Shown(e, dir) = Shown(d, dir) \ {j}
    BY Numbers DEF Lost
  <1>2. Cardinality(Shown(e, dir)) = Cardinality(Shown(d, dir)) - 1
    BY <1>1, ShownFinite, FS_RemoveElement
  <1> SUFFICES ASSUME NEW y \in DirSet(e)
               PROVE  /\ {0, 1} \subseteq Shown(e, y) /\ Cardinality(Shown(e, y)) = e.inode[y].dnum
                      /\ Dotted(e, y)
    BY DEF Counted
  <1>3. CASE y = dir
    <2>1. {0, 1} \subseteq Shown(d, dir) /\ Cardinality(Shown(d, dir)) = d.inode[dir].dnum
      BY DEF Counted
    <2>2. e.inode[dir].dnum = d.inode[dir].dnum - 1
      BY DEF Lost
    <2>3. Dotted(e, dir)
      <3>1. 0 \in Cells \ {j} /\ 1 \in Cells \ {j} /\ Dotted(d, dir)
        BY <1>1, Numbers DEF Counted
      <3>2. \A k \in Cells \ {j} : EntryAt(e, dir, k) = EntryAt(d, dir, k)
        BY DEF Lost
      <3> QED  BY <3>1, <3>2 DEF Dotted
    <2> QED  BY <1>1, <1>2, <1>3, <2>1, <2>2, <2>3
  <1>4. CASE y # dir
    <2>1. /\ y \in DirSet(d) /\ e.inode[y].dnum = d.inode[y].dnum /\ Shown(e, y) = Shown(d, y)
          /\ \A k : EntryAt(e, y, k) = EntryAt(d, y, k)
      BY <1>4 DEF Lost
    <2> QED  BY <2>1 DEF Counted, Dotted
  <1> QED
    BY <1>3, <1>4

LEMMA KeptCounted ==
    ASSUME NEW d, Counted(d), NEW e, DirSet(e) \subseteq DirSet(d), Keeps(d, e, DirSet(d))
    PROVE  Counted(e)
PROOF
  <1> SUFFICES ASSUME NEW y \in DirSet(e)
               PROVE  /\ {0, 1} \subseteq Shown(e, y) /\ Cardinality(Shown(e, y)) = e.inode[y].dnum
                      /\ Dotted(e, y)
    BY DEF Counted
  <1>1. /\ e.inode[y].dnum = d.inode[y].dnum /\ e.inode[y].block = d.inode[y].block
        /\ e.block[d.inode[y].block] = d.block[d.inode[y].block]
    BY DEF Keeps
  <1> QED
    BY <1>1 DEF Counted, Shown, Dotted, EntryAt

\* The entries that ls shows are all different.
LEMMA ListingCount ==
    ASSUME NEW d, Sane(d), Settled(d), Counted(d), NEW x \in DirSet(d)
    PROVE  Cardinality(Listing(d, x)) = d.inode[x].dnum - 2
PROOF
  <1> DEFINE B == d.inode[x].block
             c == d.block[B]
             n == d.inode[x].dnum
             T == Walk(c, 2, n)
  <1>1. /\ ReadInode(d, x) = d.inode[x] /\ B \in Blocks /\ n \in Int /\ ~Data(d, B)
    BY DirFacts
  <1>2. {0, 1} \subseteq Walk(c, 0, n) /\ Cardinality(Walk(c, 0, n)) = n
    BY DEF Counted, Shown
  <1>3. Listing(d, x) = {c[j] : j \in T}
    BY <1>1 DEF Listing
  <1> HIDE DEF n, B
  <1>4. T = Walk(c, 0, n) \ {0, 1} /\ \A j \in T : j \in Cells /\ j >= 2 /\ Filled(c, j)
    <2>1. Filled(c, 0) /\ Filled(c, 1)
      BY <1>2, WalkIs
    <2> HIDE DEF c
    <2>2. T = Walk(c, 0, n) \ {0, 1}
      BY <1>1, <2>1, WalkFromTwo
    <2>3. \A j \in T : j \in Cells /\ 2 <= j /\ Filled(c, j)
      BY WalkIs
    <2>4. \A j \in T : j >= 2
      BY <2>3, Numbers
    <2> QED  BY <2>2, <2>3, <2>4
  <1>5. IsFiniteSet(T) /\ Cardinality(T) = n - 2
    <2> DEFINE W == Walk(c, 0, n)
    <2>1. IsFiniteSet(W)
      BY WalkFinite
    <2>2. {0, 1} \subseteq W /\ Cardinality(W) = n /\ T = (W \ {0}) \ {1}
      BY <1>2, <1>4
    <2> HIDE DEF W, T
    <2>3. IsFiniteSet(W \ {0}) /\ Cardinality(W \ {0}) = n - 1
      BY <2>1, <2>2, FS_RemoveElement
    <2>4. 1 \in W \ {0}
      BY <2>2
    <2>5. IsFiniteSet((W \ {0}) \ {1}) /\ Cardinality((W \ {0}) \ {1}) = (n - 1) - 1
      BY <2>3, <2>4, FS_RemoveElement
    <2> QED  BY <1>1, <2>2, <2>5
  <1>6. \A j \in T, k \in T : c[j] = c[k] => j = k
    <2> SUFFICES ASSUME NEW j \in T, NEW k \in T, c[j] = c[k] PROVE j = k
      OBVIOUS
    <2>1. j \in Cells /\ k \in Cells /\ c[j].name \in Names /\ c[k].name \in Names
      BY <1>1, <1>4 DEF Data, Filled
    <2> QED  BY <1>1, <2>1 DEF Sane, NamedOnce
  <1> DEFINE f == [j \in T |-> c[j]]
             L == {c[j] : j \in T}
  <1>7. f \in Bijection(T, L)
    <2> HIDE DEF T, c
    <2>1. f \in [T -> L] /\ \A j \in T : f[j] = c[j]
      OBVIOUS
    <2>2. \A t \in L : \E j \in T : f[j] = t
      OBVIOUS
    <2> QED  BY <1>6, <2>1, <2>2 DEF Bijection, Injection, Surjection, IsInjective
  <1>8. Cardinality(L) = Cardinality(T)
    <2> HIDE DEF T, L, f
    <2>1. ExistsBijection(T, L)
      BY <1>7 DEF ExistsBijection
    <2> QED  BY <1>5, <2>1, FS_Bijection
  <1> QED
    BY <1>3, <1>5, <1>8 DEF n

Counting == Harmed \cup {"missing", "full"}
CountGood == Blank(After(disk, pending)) \/ Counted(After(disk, pending))
CountInv == Unless(Counting) => CountGood

LEMMA QuietCount ==
    ASSUME FGood, PathGood, CountGood, pending = <<>>, Root \in disk.imap
    PROVE  /\ Sane(disk) /\ disk \in Card /\ Settled(disk) /\ Linked(disk) /\ Counted(disk)
           /\ path_inode \in DirSet(disk) /\ path_inode \in Inodes
PROOF
  <1>1. Sane(disk) /\ disk \in Card /\ Settled(disk) /\ Pathed(disk, <<>>, path_inode, shell_path)
    BY QuietPath
  <1>2. Linked(disk) /\ path_inode \in DirSet(disk) /\ path_inode \in Inodes
    BY <1>1, PathedFacts
  <1>3. After(disk, <<>>) = disk
    BY <1>1, LeadsNowhere DEF Leads
  <1>4. ~Blank(disk)
    BY DEF Blank
  <1> QED
    BY <1>1, <1>2, <1>3, <1>4 DEF CountGood

LEMMA CreateCounts ==
    ASSUME NEW d, Sane(d), Settled(d), NEW p \in DirSet(d), NEW type, CreateHarms(d, p, type) \cap Counting = {}
    PROVE  Fits(FirstFree(d.imap, Inodes)) /\ (type = "dir" => 0 \in d.bmap) /\ ~Crammed(d, p)
PROOF
  <1>1. Fits(FirstFree(d.imap, Inodes)) /\ (type = "dir" => 0 \in d.bmap)
    BY CreateHarmless DEF Counting, Harmed
  <1>2. ReadInode(d, p) = d.inode[p]
    BY DirFacts
  <1>3. ~\A j \in Cells : d.block[d.inode[p].block][j].name # "" /\ j < d.inode[p].dnum
    BY <1>2 DEF CreateHarms, Counting
  <1> QED
    BY <1>1, <1>3 DEF Crammed, EntryAt

\* An entry made without harm: the directory had a cell for it.
LEMMA CreateCounted ==
    ASSUME NEW d, Sane(d), Settled(d), Linked(d), Counted(d), NEW p \in DirSet(d),
           d.imap # Inodes, d.bmap # Blocks, NEW name \in Names, NEW type \in Types,
           CreateHarms(d, p, type) \cap Counting = {}, NEW ws, ws = Create(d, p, name, type)
    PROVE  Counted(After(d, ws))
PROOF
  <1>1. Fits(FirstFree(d.imap, Inodes)) /\ (type = "dir" => 0 \in d.bmap) /\ ~Crammed(d, p)
    BY CreateCounts
  <1> DEFINE x == Cell(name, FirstFree(d.imap, Inodes), type)
  <1>2. Gained(d, After(d, ws), p, x)
    BY <1>1, CreateGained
  <1> HIDE DEF x
  <1> QED
    BY <1>1, <1>2, GainedCounted

LEMMA CardWriteCount ==
    ASSUME FGood, CountGood, CardWrite
    PROVE  CountGood'
PROOF
  <1>1. pending # <<>> /\ disk' = Apply(disk, Head(pending)) /\ pending' = Tail(pending)
    BY DEF CardWrite
  <1>2. disk \in Card /\ pending \in Seq(Writes)
    BY DEF FGood, Leads
  <1>3. /\ Len(pending') = Len(pending) - 1
        /\ \A k \in 0..Len(pending) - 1 : Done(disk', pending', k) = Done(disk, pending, k + 1)
    BY <1>1, <1>2, DoneShift
  <1>4. Len(pending) \in Nat /\ Len(pending) >= 1
    BY <1>1, <1>2
  <1>5. After(disk', pending') = After(disk, pending)
    BY <1>3, <1>4 DEF After
  <1> QED
    BY <1>5 DEF CountGood

LEMMA RestartCount ==
    ASSUME FGood, CountGood, Restart, Unless(Counting)'
    PROVE  CountGood'
PROOF
  <1>1. /\ pending' = <<>> /\ disk' = disk
        /\ pending # <<>> => "cut" \in harm' \/ "mkfs" \in harm'
    BY DEF Restart
  <1>2. pending = <<>>
    BY <1>1 DEF Unless, Counting, Harmed, Bad
  <1> QED
    BY <1>1, <1>2 DEF CountGood

LEMMA MkfsCount ==
    ASSUME FGood, CountGood, Mkfs, Unless(Counting)'
    PROVE  CountGood'
PROOF
  <1>1. /\ pending = <<>> /\ pending' = MkfsWrites(disk) /\ UNCHANGED disk
        /\ Root \in disk.imap /\ pending' # <<>> => "again" \in harm'
    BY DEF Mkfs
  <1>2. Sane(disk) /\ disk \in Card /\ Ready(disk, users, file, shell)
    BY <1>1, QuietFacts
  <1>3. CASE pending' = <<>>
    BY <1>1, <1>3 DEF CountGood
  <1>4. CASE pending' # <<>>
    <2>1. Root \notin disk.imap
      BY <1>1, <1>4 DEF Unless, Counting, Harmed, Bad
    <2>2. Blank(disk)
      BY <1>2, <2>1 DEF Ready, Settled
    <2>3. PICK e : Leads(disk, pending', e) /\ Rooted(disk, e)
      BY <1>1, <1>2, <2>2, MkfsLeads
    <2>4. After(disk, pending') = e /\ Sane(e)
      <3>1. /\ pending' \in Seq(Writes) /\ After(disk, pending') = e
            /\ \A k \in 0..Len(pending') : Sane(Done(disk, pending', k))
        BY <2>3 DEF Leads
      <3>2. Len(pending') \in 0..Len(pending')
        BY <3>1
      <3> QED  BY <3>1, <3>2 DEF After
    <2>5. Counted(e)
      BY <1>2, <2>3, <2>4, RootedCounted
    <2> QED  BY <1>1, <2>4, <2>5 DEF CountGood
  <1> QED
    BY <1>3, <1>4

LEMMA MakeCount ==
    ASSUME FGood, PathGood, CountGood, NEW op \in {"mkdir", "touch"}, NEW type \in Types, Make(op, type),
           Unless(Counting)'
    PROVE  CountGood'
PROOF
  <1>1. /\ Called(op) /\ Room /\ UNCHANGED <<disk, path_inode, shell_path>>
        /\ pending' = Create(disk, path_inode, inst_path[1], type)
        /\ harm' = harm \cup CreateHarms(disk, path_inode, type)
    BY DEF Make
  <1>2. Settled(disk) /\ pending = <<>> /\ shell.op = op
    BY <1>1, CalledFacts
  <1>3. inst_path[1] \in Names
    BY <1>2 DEF FGood, TypedMemory
  <1>4. CreateHarms(disk, path_inode, type) \cap Counting = {}
    BY <1>1 DEF Unless
  <1>5. Sane(disk) /\ Linked(disk) /\ Counted(disk) /\ path_inode \in DirSet(disk)
    BY <1>2, QuietCount DEF Settled
  <1>6. Counted(After(disk, pending'))
    BY <1>1, <1>2, <1>3, <1>4, <1>5, CreateCounted DEF Room
  <1> QED
    BY <1>1, <1>6 DEF CountGood

LEMMA RmdirCount ==
    ASSUME FGood, PathGood, CountGood, Rmdir, Unless(Counting)'
    PROVE  CountGood'
PROOF
  <1> DEFINE j == Find(disk, path_inode, 2, inst_path[1], "dir")
  <1>1. /\ Called("rmdir") /\ UNCHANGED disk
        /\ pending' = RmdirWrites(disk, path_inode, inst_path[1])
        /\ j = -1 => "missing" \in harm'
    BY DEF Rmdir
  <1>2. Settled(disk) /\ pending = <<>> /\ shell.op = "rmdir"
    BY <1>1, CalledFacts
  <1>3. inst_path[1] \in Names
    BY <1>2 DEF FGood, TypedMemory
  <1>4. Sane(disk) /\ Linked(disk) /\ Counted(disk) /\ path_inode \in DirSet(disk)
    BY <1>2, QuietCount DEF Settled
  <1>5. j # -1
    BY <1>1 DEF Unless, Counting
  <1>6. Lost(disk, After(disk, pending'), path_inode, j)
    BY <1>1, <1>2, <1>3, <1>4, RmdirLost
  <1> HIDE DEF j
  <1>7. Counted(After(disk, pending'))
    BY <1>4, <1>5, <1>6, LostCounted
  <1> QED
    BY <1>1, <1>7 DEF CountGood

LEMMA FopenCount ==
    ASSUME FGood, PathGood, CountGood, Fopen, Unless(Counting)'
    PROVE  CountGood'
PROOF
  <1> DEFINE j == Find(disk, path_inode, 2, PlaneName, "file")
  <1>1. /\ pending = <<>> /\ Root \in disk.imap /\ UNCHANGED disk
        /\ pending' = IF j = -1 THEN Create(disk, path_inode, PlaneName, "file") ELSE <<>>
        /\ j = -1 => Room /\ CreateHarms(disk, path_inode, "file") \subseteq harm'
    BY DEF Fopen
  <1> HIDE DEF j
  <1>2. CASE j = -1
    <2>1. CreateHarms(disk, path_inode, "file") \cap Counting = {}
      BY <1>1, <1>2 DEF Unless
    <2>2. PlaneName \in Names /\ "file" \in Types /\ disk.imap # Inodes /\ disk.bmap # Blocks
      BY <1>1, <1>2, NamesApart DEF Types, Room
    <2>3. pending' = Create(disk, path_inode, PlaneName, "file")
      BY <1>1, <1>2
    <2>4. Sane(disk) /\ Settled(disk) /\ Linked(disk) /\ Counted(disk) /\ path_inode \in DirSet(disk)
      BY <1>1, QuietCount
    <2>5. Counted(After(disk, pending'))
      BY <2>1, <2>2, <2>3, <2>4, CreateCounted
    <2> QED  BY <1>1, <2>5 DEF CountGood
  <1>3. CASE j # -1
    BY <1>1, <1>3 DEF CountGood
  <1> QED
    BY <1>2, <1>3

LEMMA FwriteCount ==
    ASSUME FGood, PathGood, CountGood, Fwrite
    PROVE  CountGood'
PROOF
  <1>1. pending = <<>> /\ users > 0 /\ UNCHANGED disk
    BY DEF Fwrite
  <1>2. Filed(disk, pending')
    BY FwriteGood
  <1>3. Root \in disk.imap
    <2>1. users # 0 /\ Ready(disk, users, file, shell)
      BY <1>1, QuietFacts
    <2> QED  BY <2>1 DEF Ready, Settled
  <1>4. Sane(disk) /\ Settled(disk) /\ Counted(disk)
    BY <1>1, <1>3, QuietCount
  <1> DEFINE ws == pending'
             e  == After(disk, ws)
  <1>5. DirSet(e) \subseteq DirSet(disk) /\ Keeps(disk, e, DirSet(disk))
    <2>1. PICK alloc \in BOOLEAN, sized \in BOOLEAN, b \in Blocks, p \in Cells, x \in ToSet(Plane),
               n \in Inodes, v \in Int :
            /\ x \notin Names /\ (alloc => b \notin disk.bmap)
            /\ (~alloc => b = 0 \/ (b \in disk.bmap /\ ~DirBlock(disk, b)))
            /\ ws = FileWrites(disk, alloc, b, p, x, sized, n, v)
      BY <1>2 DEF Filed
    <2> QED  BY <1>4, <2>1, FileKeeps
  <1>6. Counted(e)
    BY <1>4, <1>5, KeptCounted
  <1> QED
    BY <1>1, <1>6 DEF CountGood

LEMMA InitCount ==
    ASSUME Init
    PROVE  CountGood
PROOF
  <1>1. FGood /\ pending = <<>> /\ disk.imap = {}
    BY InitGood DEF Init
  <1>2. Sane(disk) /\ Ready(disk, users, file, shell) /\ ~Settled(disk)
    BY <1>1, QuietFacts DEF Settled
  <1>3. After(disk, <<>>) = disk
    BY <1>2, LeadsNowhere DEF Leads
  <1> QED
    BY <1>1, <1>2, <1>3 DEF Ready, CountGood

LEMMA StepCount ==
    ASSUME FInv, PathInv, CountInv, [Next]_vars
    PROVE  CountInv'
PROOF
  <1> SUFFICES ASSUME Unless(Counting)' PROVE CountGood'
    BY DEF CountInv
  <1>1. CASE UNCHANGED vars
    <2>1. CountGood
      BY <1>1 DEF CountInv, Unless, vars
    <2> QED  BY <1>1, <2>1 DEF vars, CountGood
  <1>2. CASE Next
    <2>1. harm \subseteq harm'
      BY <1>2 DEF Next, CardWrite, Restart, Mkfs, Parse, Cd, Mkdir, Touch, Make, Rmdir, Fopen, Fwrite, Fclose
    <2>2. FGood /\ PathGood /\ CountGood
      BY <2>1 DEF FInv, PathInv, CountInv, Unless, Counting, Harmed
    <2>3. CASE Mkdir
      BY <2>2, <2>3, MakeCount DEF Mkdir, Types
    <2>4. CASE Touch
      BY <2>2, <2>4, MakeCount DEF Touch, Types
    <2>5. CASE Parse \/ Cd \/ Fclose
      <3>1. UNCHANGED <<disk, pending>>
        BY <2>5 DEF Parse, Cd, Fclose
      <3> QED  BY <2>2, <3>1 DEF CountGood
    <2> QED
      BY <1>2, <2>2, <2>3, <2>4, <2>5, CardWriteCount, RestartCount, MkfsCount, RmdirCount,
         FopenCount, FwriteCount DEF Next
  <1> QED
    BY <1>1, <1>2

LEMMA CountHolds ==
    ASSUME FInv, PathInv, CountInv
    PROVE  CountAgrees
PROOF
  <1> SUFFICES ASSUME pending = <<>>, Unless(Counting), NEW x \in Dirs(disk)
               PROVE  Cardinality(Listing(disk, x)) = disk.inode[x].dnum - 2
    BY DEF CountAgrees, Quiet, Counting, Harmed, Bad, Unless
  <1>1. FGood /\ PathGood /\ CountGood
    BY DEF FInv, PathInv, CountInv, Counting, Harmed, Unless
  <1>2. Root \in disk.imap
    BY DEF Dirs, Formatted
  <1>3. Sane(disk) /\ Settled(disk) /\ Counted(disk)
    BY <1>1, <1>2, QuietCount
  <1>4. x \in DirSet(disk)
    BY <1>3, DirsFacts
  <1> QED
    BY <1>3, <1>4, ListingCount

---------------------------------------------------------------------------
(* The name the user typed.                                                *)

\* What the shell has parsed is what its call will make, until a task's fopen
\* leaves another name in its buffer.
NameKept == shell # Idle => inst_path = shell.path
NameInv == Unless({"renamed"}) => NameKept

LEMMA InitName ==
    ASSUME Init
    PROVE  NameInv
  BY DEF Init, NameInv, NameKept

LEMMA StepName ==
    ASSUME NameInv, [Next]_vars
    PROVE  NameInv'
PROOF
  <1> SUFFICES ASSUME Unless({"renamed"})' PROVE NameKept'
    BY DEF NameInv
  <1>1. CASE UNCHANGED vars
    BY <1>1 DEF vars, NameInv, NameKept, Unless
  <1>2. CASE Next
    <2>1. harm \subseteq harm'
      BY <1>2 DEF Next, CardWrite, Restart, Mkfs, Parse, Cd, Mkdir, Touch, Make, Rmdir, Fopen, Fwrite, Fclose
    <2>2. NameKept
      BY <2>1 DEF NameInv, Unless
    <2>3. CASE CardWrite \/ Mkfs \/ Fwrite \/ Fclose
      BY <2>2, <2>3 DEF CardWrite, Mkfs, Fwrite, Fclose, NameKept
    <2>4. CASE Restart \/ Cd \/ Mkdir \/ Touch \/ Rmdir
      BY <2>4 DEF Restart, Cd, Mkdir, Touch, Rmdir, Make, Called, NameKept
    <2>5. CASE Parse
      BY <2>5 DEF Parse, NameKept
    <2>6. CASE Fopen
      <3> DEFINE j == Find(disk, path_inode, 2, PlaneName, "file")
      <3>1. /\ inst_path' = NameBuffer(j # -1) /\ UNCHANGED shell
            /\ j = -1 /\ shell # Idle => "renamed" \in harm'
        BY <2>6 DEF Fopen
      <3>2. shell # Idle => inst_path' = inst_path
        BY <3>1 DEF Unless, NameBuffer
      <3> QED  BY <2>2, <3>1, <3>2 DEF NameKept
    <2> QED
      BY <1>2, <2>3, <2>4, <2>5, <2>6 DEF Next
  <1> QED
    BY <1>1, <1>2

\* A new entry is listed where there was none of its inode.
LEMMA GainedListed ==
    ASSUME NEW d, Sane(d), Settled(d), Counted(d), NEW p \in DirSet(d), NEW x, NEW e, Gained(d, e, p, x),
           e.inode[p].block = d.inode[p].block,
           ~Crammed(d, p)
    PROVE  x \in Listing(e, p) \ Listing(d, p)
PROOF
  <1> DEFINE b == d.inode[p].block
             n == e.inode[p].dnum
             c == e.block[b]
  <1>1. /\ ReadInode(d, p) = d.inode[p] /\ ReadInode(e, p) = e.inode[p]
        /\ b \in Blocks /\ ~Data(d, b) /\ p \in Inodes /\ d.inode[p].dnum \in Int
    BY DirFacts DEF ReadInode
  <1>2. PICK at \in Cells \ Shown(d, p) : Shown(e, p) = Shown(d, p) \cup {at} /\ EntryAt(e, p, at) = x
    BY DEF Gained
  <1>3. {0, 1} \subseteq Shown(d, p) /\ {0, 1} \subseteq Shown(e, p)
    BY <1>2 DEF Counted
  <1>4. Shown(e, p) = Walk(c, 0, n) /\ EntryAt(e, p, at) = c[at]
    BY DEF Shown, EntryAt
  <1>5. n \in Int
    <2> DEFINE m == d.inode[p].dnum
    <2>1. n = m + 1
      BY DEF Gained
    <2>2. m \in Int
      BY <1>1
    <2> HIDE DEF n, m
    <2> QED  BY <2>1, <2>2
  <1>6. x \in Listing(e, p)
    <2>1. Listing(e, p) = {c[j] : j \in Walk(c, 2, n)}
      BY <1>1 DEF Listing
    <2> HIDE DEF c, n, b
    <2>2. Filled(c, 0) /\ Filled(c, 1)
      BY <1>3, <1>4, WalkIs
    <2>3. Walk(c, 2, n) = Walk(c, 0, n) \ {0, 1}
      BY <1>5, <2>2, WalkFromTwo
    <2>4. at \in Walk(c, 2, n)
      BY <1>2, <1>3, <1>4, <2>3
    <2> QED  BY <1>2, <1>4, <2>1, <2>4
  <1>7. x \notin Listing(d, p)
    <2>1. Listing(d, p) = {d.block[b][j] : j \in Walk(d.block[b], 2, d.inode[p].dnum)}
      BY <1>1 DEF Listing
    <2>2. SUFFICES ASSUME NEW j \in Walk(d.block[b], 2, d.inode[p].dnum), x = d.block[b][j]
                   PROVE  FALSE
      BY <2>1
    <2>3. j \in Cells /\ 2 <= j /\ Filled(d.block[b], j)
      BY WalkIs
    <2>4. j >= 2
      BY <2>3, Numbers
    <2>5. d.block[b][j].name \in Names
      BY <1>1, <2>3, <2>4 DEF Data, Filled
    <2>6. x.id \in Inodes /\ x.id \notin Named(d)
      BY DEF Gained
    <2> QED  BY <1>1, <2>2, <2>3, <2>5, <2>6 DEF Named
  <1> QED
    BY <1>6, <1>7

\* An entry made without harm is listed: the directory had a cell for it.
LEMMA CreateListed ==
    ASSUME NEW d, Sane(d), Settled(d), Linked(d), Counted(d), NEW p \in DirSet(d),
           d.imap # Inodes, d.bmap # Blocks, NEW name \in Names, NEW type \in Types,
           CreateHarms(d, p, type) \cap Counting = {}, NEW ws, ws = Create(d, p, name, type)
    PROVE  Cell(name, FirstFree(d.imap, Inodes), type) \in Listing(After(d, ws), p) \ Listing(d, p)
PROOF
  <1>1. Fits(FirstFree(d.imap, Inodes)) /\ (type = "dir" => 0 \in d.bmap) /\ ~Crammed(d, p)
    BY CreateCounts
  <1> DEFINE x == Cell(name, FirstFree(d.imap, Inodes), type)
             e == After(d, ws)
  <1>2. Gained(d, e, p, x)
    BY <1>1, CreateGained
  <1>3. e.inode[p].block = d.inode[p].block
    <2>1. p \in Inodes /\ p \in d.imap /\ Fits(p) /\ d.inode[p].block \in d.bmap /\ d \in Card
      BY DirFacts
    <2>2. PICK f : Leads(d, ws, f) /\ Made(d, f, ws, p, name, type)
      BY <1>1, <2>1, CreateLeads
    <2>3. After(d, ws) = f
      BY <2>2 DEF Leads
    <2>4. f.inode[p] = [d.inode[p] EXCEPT !.dnum = @ + 1]
      BY <2>2 DEF Made
    <2>5. d.inode[p] \in InodeT
      BY <2>1 DEF Card
    <2> QED  BY <2>3, <2>4, <2>5 DEF InodeT
  <1> HIDE DEF x, e
  <1>4. x \in Listing(e, p) \ Listing(d, p)
    BY <1>1, <1>2, <1>3, GainedListed
  <1> QED
    BY <1>4 DEF x, e

LEMMA MakeShows ==
    ASSUME FGood, PathGood, CountGood, NameKept, NEW op \in {"mkdir", "touch"}, NEW type \in Types,
           Make(op, type), Unless(Counting)'
    PROVE  \E e \in Listing(After(disk, pending'), path_inode) \ Listing(disk, path_inode) :
               e.name = shell.path[1]
PROOF
  <1>1. /\ Called(op) /\ Room /\ pending' = Create(disk, path_inode, inst_path[1], type)
        /\ harm' = harm \cup CreateHarms(disk, path_inode, type)
    BY DEF Make
  <1>2. Settled(disk) /\ pending = <<>> /\ shell.op = op
    BY <1>1, CalledFacts
  <1>3. inst_path[1] \in Names /\ inst_path = shell.path
    BY <1>2 DEF FGood, TypedMemory, NameKept, Idle
  <1>4. CreateHarms(disk, path_inode, type) \cap Counting = {}
    BY <1>1 DEF Unless
  <1>5. Sane(disk) /\ Linked(disk) /\ Counted(disk) /\ path_inode \in DirSet(disk)
    BY <1>2, QuietCount DEF Settled
  <1> DEFINE x == Cell(inst_path[1], FirstFree(disk.imap, Inodes), type)
  <1>6. x \in Listing(After(disk, pending'), path_inode) \ Listing(disk, path_inode)
    BY <1>1, <1>2, <1>3, <1>4, <1>5, CreateListed DEF Room
  <1>7. x.name = inst_path[1]
    BY DEF Cell
  <1> QED
    BY <1>3, <1>6, <1>7

LEMMA StepShows ==
    ASSUME FInv, PathInv, CountInv, NameInv, [Next]_vars
    PROVE  [MadeTyped]_vars
PROOF
  <1> SUFFICES ASSUME Mkdir \/ Touch,
                      harm' \cap {"renamed", "mkfs", "full", "unfit", "missing", "cut", "over", "again"} = {}
               PROVE  \E e \in Listing(After(disk, pending'), path_inode) \ Listing(disk, path_inode) :
                          e.name = shell.path[1]
    BY DEF MadeTyped
  <1>1. harm \subseteq harm'
    BY DEF Mkdir, Touch, Make
  <1>2. Unless(Counting)' /\ Unless({"renamed"})
    BY <1>1 DEF Unless, Counting, Harmed, Bad
  <1>3. FGood /\ PathGood /\ CountGood /\ NameKept
    BY <1>1, <1>2 DEF FInv, PathInv, CountInv, NameInv, Unless, Counting, Harmed
  <1> QED
    BY <1>2, <1>3, MakeShows DEF Mkdir, Touch, Types

---------------------------------------------------------------------------
(* What a walk of a tree reaches.                                          *)

\* Sets that grow until they do not, inside a set of N.
Grows(f, N, T) ==
    /\ f \in [0..N + 1 -> SUBSET T] /\ f[0] # {}
    /\ \A k \in 0..N : f[k] \subseteq f[k + 1]
    /\ \A k \in 0..N - 1 : f[k] = f[k + 1] => f[k + 1] = f[k + 2]

LEMMA GrowsNoMore ==
    ASSUME NEW N \in Nat, NEW T, IsFiniteSet(T), Cardinality(T) <= N, NEW f, Grows(f, N, T)
    PROVE  f[N + 1] = f[N]
PROOF
  <1> DEFINE Big(k) == f[k] = f[k + 1] \/ Cardinality(f[k]) >= k + 1
             W == {k \in 0..N : ~Big(k)}
  <1>1. \A k \in 0..N : IsFiniteSet(f[k]) /\ Cardinality(f[k]) \in Nat /\ Cardinality(f[k]) <= Cardinality(T)
    <2> TAKE k \in 0..N
    <2>1. f[k] \in SUBSET T
      BY DEF Grows
    <2> QED  BY <2>1, FS_Subset, FS_CardinalityType
  <1>2. W = {}
    <2> SUFFICES ASSUME W # {} PROVE FALSE
      OBVIOUS
    <2>1. PICK m \in W : \A n \in W : m <= n
      <3>1. W \in SUBSET Nat
        OBVIOUS
      <3> HIDE DEF W
      <3> QED  BY <3>1, LeastMember
    <2>2. m \in 0..N /\ ~Big(m)
      BY <2>1
    <2>3. m # 0
      <3>1. f[0] # {} /\ 0 \in 0..N
        BY DEF Grows
      <3>2. Cardinality(f[0]) # 0 /\ Cardinality(f[0]) \in Nat
        BY <1>1, <3>1, FS_EmptySet
      <3>3. Cardinality(f[0]) >= 0 + 1
        BY <3>2
      <3> QED  BY <2>2, <3>3
    <2> DEFINE n == m - 1
    <2>4. n \in 0..N /\ n + 1 = m /\ n \in 0..N - 1 /\ n + 2 = m + 1 /\ n \notin W
      <3> HIDE DEF W
      <3> QED  BY <2>1, <2>2, <2>3
    <2>5. Big(n)
      BY <2>4
    <2>6. f[n] # f[n + 1]
      <3>1. f[n] = f[n + 1] => f[n + 1] = f[n + 2]
        BY <2>4 DEF Grows
      <3> QED  BY <2>2, <2>4, <3>1
    <2>7. f[n] \subseteq f[m] /\ f[n] # f[m]
      BY <2>4, <2>6 DEF Grows
    <2>8. Cardinality(f[n]) < Cardinality(f[m])
      <3>1. IsFiniteSet(f[m]) /\ f[n] \in SUBSET f[m] /\ Cardinality(f[m]) \in Nat /\ Cardinality(f[n]) \in Nat
        BY <1>1, <2>2, <2>4, <2>7
      <3>2. Cardinality(f[n]) <= Cardinality(f[m]) /\ Cardinality(f[n]) # Cardinality(f[m])
        BY <2>7, <3>1, FS_Subset
      <3> QED  BY <3>1, <3>2
    <2>9. Cardinality(f[n]) >= n + 1
      BY <2>5, <2>6
    <2> HIDE DEF n
    <2>10. Cardinality(f[m]) >= m + 1
      <3>1. Cardinality(f[m]) \in Nat /\ Cardinality(f[n]) \in Nat /\ m \in Nat /\ n \in Nat
        BY <1>1, <2>2, <2>4
      <3> QED  BY <2>4, <2>8, <2>9, <3>1
    <2> QED  BY <2>2, <2>10
  <1>3. N \in 0..N /\ Big(N)
    BY <1>2
  <1>4. ~Cardinality(f[N]) >= N + 1
    BY <1>1, <1>3, FS_CardinalityType
  <1> QED
    BY <1>3, <1>4

\* What B adds to a set, again and again.
Follows(B, T) == B \in [SUBSET T -> SUBSET T] /\ \A S, R \in SUBSET T : S \subseteq R => B[S] \subseteq B[R]
Chain(f, N, T, a, B) ==
    f \in [0..N -> SUBSET T] /\ f[0] = {a} /\ \A k \in 1..N : f[k] = f[k - 1] \cup B[f[k - 1]]
\* The least set with a in it to which B adds nothing.
Reach(R, T, a, B) == /\ R \in SUBSET T /\ a \in R /\ B[R] \subseteq R
                     /\ \A S \in SUBSET T : a \in S /\ B[S] \subseteq S => R \subseteq S

LEMMA ChainExists ==
    ASSUME NEW N \in Nat, NEW T, NEW a \in T, NEW B, Follows(B, T)
    PROVE  \E f : Chain(f, N, T, a, B)
PROOF
  <1> DEFINE G == [k \in 1..N |-> [S \in SUBSET T |-> S \cup B[S]]]
  <1>1. \A k \in 1..N : \A S \in SUBSET T : G[k][S] = S \cup B[S] /\ G[k][S] \in SUBSET T
    BY DEF Follows
  <1> HIDE DEF G
  <1>2. Turns(N, SUBSET T, G)
    BY <1>1 DEF Turns
  <1>3. {a} \in SUBSET T
    OBVIOUS
  <1>4. PICK f : Loop(f, N, SUBSET T, {a}, G)
    BY <1>2, <1>3, LoopExists
  <1>5. \A k \in 1..N : k - 1 \in 0..N
    OBVIOUS
  <1>6. Chain(f, N, T, a, B)
    BY <1>1, <1>4, <1>5 DEF Loop, Chain
  <1> QED
    BY <1>6

\* In a chain over a set of N, nothing is added after N turns.
LEMMA ChainEnds ==
    ASSUME NEW N \in Nat, NEW T, IsFiniteSet(T), Cardinality(T) <= N, NEW a \in T, NEW B, Follows(B, T),
           NEW f, Chain(f, N, T, a, B)
    PROVE  Reach(f[N], T, a, B)
PROOF
  <1> DEFINE g == [k \in 0..N + 1 |-> IF k = N + 1 THEN f[N] \cup B[f[N]] ELSE f[k]]
  <1>1. f \in [0..N -> SUBSET T] /\ N \in 0..N /\ f[0] = {a} /\ 0 \in 0..N
    BY DEF Chain
  <1>2. \A k \in 0..N : g[k] = f[k] /\ k \in 0..N + 1 /\ k + 1 \in 0..N + 1
    OBVIOUS
  <1>3. g[N + 1] = f[N] \cup B[f[N]]
    OBVIOUS
  <1>4. g \in [0..N + 1 -> SUBSET T]
    BY <1>1 DEF Follows
  <1> HIDE DEF g
  <1>5. \A k \in 0..N : g[k + 1] = g[k] \cup B[g[k]]
    <2> TAKE k \in 0..N
    <2>1. CASE k = N
      BY <1>2, <1>3, <2>1
    <2>2. CASE k # N
      <3>1. k + 1 \in 1..N /\ k + 1 \in 0..N /\ (k + 1) - 1 = k
        BY <2>2
      <3>2. f[k + 1] = f[k] \cup B[f[k]]
        BY <3>1 DEF Chain
      <3> QED  BY <1>2, <3>1, <3>2
    <2> QED  BY <2>1, <2>2
  <1>6. Grows(g, N, T)
    <2>1. g[0] # {}
      BY <1>1, <1>2
    <2>2. \A k \in 0..N : g[k] \subseteq g[k + 1]
      BY <1>5
    <2>3. ASSUME NEW k \in 0..N - 1, g[k] = g[k + 1] PROVE g[k + 1] = g[k + 2]
      <3>1. k \in 0..N /\ k + 1 \in 0..N /\ (k + 1) + 1 = k + 2
        OBVIOUS
      <3>2. g[k + 2] = g[k + 1] \cup B[g[k + 1]] /\ g[k + 1] = g[k] \cup B[g[k]]
        BY <1>5, <3>1
      <3> QED  BY <2>3, <3>2
    <2> QED  BY <1>4, <2>1, <2>2, <2>3 DEF Grows
  <1>7. B[f[N]] \subseteq f[N]
    <2>1. g[N + 1] = g[N]
      BY <1>6, GrowsNoMore
    <2> QED  BY <1>1, <1>2, <1>3, <2>1
  <1>8. \A k \in 0..N : a \in f[k]
    <2> DEFINE W == {k \in 0..N : a \notin f[k]}
    <2> SUFFICES ASSUME W # {} PROVE FALSE
      OBVIOUS
    <2>1. PICK m \in W : \A n \in W : m <= n
      <3>1. W \in SUBSET Nat
        OBVIOUS
      <3> HIDE DEF W
      <3> QED  BY <3>1, LeastMember
    <2>2. m \in 0..N /\ a \notin f[m]
      BY <2>1
    <2>3. m # 0
      BY <1>1, <2>2
    <2>4. m \in 1..N /\ m - 1 \in 0..N /\ m - 1 \notin W
      <3> HIDE DEF W
      <3> QED  BY <2>1, <2>2, <2>3
    <2> QED  BY <2>2, <2>4 DEF Chain
  <1>9. ASSUME NEW S \in SUBSET T, a \in S, B[S] \subseteq S PROVE f[N] \subseteq S
    <2> DEFINE W == {k \in 0..N : ~(f[k] \subseteq S)}
    <2>1. W = {}
      <3> SUFFICES ASSUME W # {} PROVE FALSE
        OBVIOUS
      <3>1. PICK m \in W : \A n \in W : m <= n
        <4>1. W \in SUBSET Nat
          OBVIOUS
        <4> HIDE DEF W
        <4> QED  BY <4>1, LeastMember
      <3>2. m \in 0..N /\ ~(f[m] \subseteq S)
        BY <3>1
      <3>3. m # 0
        BY <1>1, <1>9, <3>2
      <3>4. m \in 1..N /\ m - 1 \in 0..N /\ m - 1 \notin W
        <4> HIDE DEF W
        <4> QED  BY <3>1, <3>2, <3>3
      <3>5. f[m] = f[m - 1] \cup B[f[m - 1]] /\ f[m - 1] \in SUBSET T /\ f[m - 1] \subseteq S
        BY <1>1, <3>4 DEF Chain
      <3>6. B[f[m - 1]] \subseteq B[S]
        BY <3>5 DEF Follows
      <3> QED  BY <1>9, <3>2, <3>5, <3>6
    <2> QED  BY <1>1, <2>1
  <1> QED
    BY <1>1, <1>7, <1>8, <1>9 DEF Reach

\* No directory of S shows one that is not in S.
Shut(d, S) == \A x \in S : \A e \in Listing(d, x) : e.type = "dir" => e.id \in S

\* Dirs is the least set of directories that is shut and has the root in it.
LEMMA DirsReach ==
    ASSUME NEW d, Sane(d), Settled(d)
    PROVE  /\ Dirs(d) \subseteq DirSet(d) /\ Root \in Dirs(d) /\ Shut(d, Dirs(d))
           /\ \A S \in SUBSET DirSet(d) : Root \in S /\ Shut(d, S) => Dirs(d) \subseteq S
PROOF
  <1> DEFINE T == DirSet(d)
             below(S) == {e.id : e \in {f \in UNION {Listing(d, x) : x \in S} : f.type = "dir"}}
             B == [S \in SUBSET T |-> below(S)]
  <1>1. NI \in Nat /\ Root \in T
    BY FileSysAssumption DEF DirSet
  <1>2. IsFiniteSet(T) /\ Cardinality(T) <= NI
    <2>1. IsFiniteSet(Inodes) /\ Cardinality(Inodes) <= NI
      <3>1. /\ IsFiniteSet(0..NI - 1)
            /\ Cardinality(0..NI - 1) = IF 0 > NI - 1 THEN 0 ELSE NI - 1 - 0 + 1
        BY <1>1, FS_Interval
      <3> QED  BY <1>1, <3>1 DEF Inodes
    <2>2. T \in SUBSET Inodes
      BY DirFacts
    <2> HIDE DEF T
    <2>3. IsFiniteSet(T) /\ Cardinality(T) <= Cardinality(Inodes)
      BY <2>1, <2>2, FS_Subset
    <2> QED  BY <1>1, <2>1, <2>3, FS_CardinalityType
  <1>3. \A S \in SUBSET T : below(S) \in SUBSET T
    BY ListingFacts
  <1>4. \A S \in SUBSET T : B[S] = below(S) /\ (B[S] \subseteq S <=> Shut(d, S))
    BY DEF Shut
  <1>5. Follows(B, T)
    <2>1. B \in [SUBSET T -> SUBSET T]
      <3> HIDE DEF T, below
      <3> QED  BY <1>3
    <2>2. \A S, R \in SUBSET T : S \subseteq R => below(S) \subseteq below(R)
      OBVIOUS
    <2> HIDE DEF T, below, B
    <2> QED  BY <1>4, <2>1, <2>2 DEF Follows
  <1> HIDE DEF T, B
  <1>6. PICK f : Chain(f, NI, T, Root, B)
    BY <1>1, <1>5, ChainExists
  <1>7. Reach(f[NI], T, Root, B)
    BY <1>1, <1>2, <1>5, <1>6, ChainEnds
  <1>8. /\ f \in [0..NI -> SUBSET T] /\ f[0] = {Root}
        /\ \A k \in 1..NI : f[k] = f[k - 1] \cup below(f[k - 1])
    <2>1. \A k \in 1..NI : k - 1 \in 0..NI
      BY <1>1
    <2> HIDE DEF below
    <2> QED  BY <1>4, <1>6, <2>1 DEF Chain
  <1> DEFINE P(h) == h = [n \in 0..NI |-> IF n = 0 THEN {Root}
                                          ELSE UNION {S \cup below(S) : S \in {h[n - 1]}}]
             near[n \in 0..NI] == IF n = 0 THEN {Root}
                                  ELSE UNION {S \cup below(S) : S \in {near[n - 1]}}
  <1>9. Dirs(d) = IF Formatted(d) THEN near[NI] ELSE {}
    BY DEF Dirs
  <1>10. near = CHOOSE h : P(h)
    OBVIOUS
  <1> HIDE DEF near, below
  <1>11. \A X : UNION {S \cup below(S) : S \in {X}} = X \cup below(X)
    OBVIOUS
  <1>12. P(f)
    <2>1. \A n \in 0..NI : f[n] = IF n = 0 THEN {Root} ELSE UNION {S \cup below(S) : S \in {f[n - 1]}}
      <3> TAKE n \in 0..NI
      <3>1. CASE n = 0
        BY <1>8, <3>1
      <3>2. CASE n # 0
        <4>1. n \in 1..NI
          BY <1>1, <3>2
        <4> QED  BY <1>8, <1>11, <3>2, <4>1
      <3> QED  BY <3>1, <3>2
    <2> QED  BY <1>8, <2>1
  <1>13. P(near)
    <2> HIDE DEF P
    <2> QED  BY <1>10, <1>12
  <1>14. \A n \in 0..NI : near[n] = IF n = 0 THEN {Root} ELSE near[n - 1] \cup below(near[n - 1])
    <2>1. \A n \in 0..NI : near[n] = IF n = 0 THEN {Root} ELSE UNION {S \cup below(S) : S \in {near[n - 1]}}
      BY <1>13
    <2> QED  BY <1>11, <2>1
  <1> HIDE DEF P
  <1> DEFINE W == {n \in 0..NI : near[n] # f[n]}
  <1>15. W = {}
    <2> SUFFICES ASSUME W # {} PROVE FALSE
      OBVIOUS
    <2>1. PICK m \in W : \A n \in W : m <= n
      <3>1. W \in SUBSET Nat
        OBVIOUS
      <3> HIDE DEF W
      <3> QED  BY <3>1, LeastMember
    <2>2. m \in 0..NI /\ near[m] # f[m]
      BY <2>1
    <2>3. m # 0
      BY <1>8, <1>14, <2>2
    <2>4. m \in 1..NI /\ m - 1 \in 0..NI /\ m - 1 \notin W
      <3> HIDE DEF W
      <3> QED  BY <1>1, <2>1, <2>2, <2>3
    <2> QED  BY <1>8, <1>14, <2>2, <2>3, <2>4
  <1>16. Formatted(d) /\ NI \in 0..NI
    BY <1>1 DEF Formatted, Settled
  <1>17. Reach(Dirs(d), T, Root, B)
    BY <1>7, <1>9, <1>15, <1>16
  <1> HIDE DEF W
  <1> QED
    BY <1>4, <1>17 DEF Reach, T

\* What ls shows is what is in the cells behind the dots.
LEMMA ListingIs ==
    ASSUME NEW d, Sane(d), Settled(d), Counted(d), NEW x \in DirSet(d)
    PROVE  /\ Listing(d, x) = {EntryAt(d, x, j) : j \in Shown(d, x) \ {0, 1}}
           /\ \A j \in Shown(d, x) \ {0, 1} : j \in Cells /\ EntryAt(d, x, j).name \in Names
PROOF
  <1> DEFINE B == d.inode[x].block
             c == d.block[B]
             n == d.inode[x].dnum
  <1>1. ReadInode(d, x) = d.inode[x] /\ B \in Blocks /\ n \in Int /\ ~Data(d, B)
    BY DirFacts
  <1>2. Shown(d, x) = Walk(c, 0, n) /\ {0, 1} \subseteq Walk(c, 0, n) /\ \A j : EntryAt(d, x, j) = c[j]
    BY DEF Counted, Shown, EntryAt
  <1>3. Listing(d, x) = {c[j] : j \in Walk(c, 2, n)}
    BY <1>1 DEF Listing
  <1> HIDE DEF n, B
  <1>4. Walk(c, 2, n) = Walk(c, 0, n) \ {0, 1} /\ \A j \in Walk(c, 2, n) : j \in Cells /\ j >= 2 /\ Filled(c, j)
    <2> HIDE DEF c
    <2>1. Filled(c, 0) /\ Filled(c, 1)
      BY <1>2, WalkIs
    <2>2. Walk(c, 2, n) = Walk(c, 0, n) \ {0, 1}
      BY <1>1, <2>1, WalkFromTwo
    <2>3. \A j \in Walk(c, 2, n) : j \in Cells /\ 2 <= j /\ Filled(c, j)
      BY WalkIs
    <2>4. \A j \in Walk(c, 2, n) : j >= 2
      BY <2>3, Numbers
    <2> QED  BY <2>2, <2>3, <2>4
  <1>5. \A j \in Walk(c, 2, n) : c[j].name \in Names
    BY <1>1, <1>4 DEF Data, Filled
  <1> HIDE DEF c
  <1> QED
    BY <1>2, <1>3, <1>4, <1>5

\* An inode is listed once.
LEMMA ListedOnce ==
    ASSUME NEW d, Sane(d), Settled(d), Counted(d), NEW y \in DirSet(d), NEW z \in DirSet(d),
           NEW e \in Listing(d, y), NEW f \in Listing(d, z), e.id = f.id
    PROVE  y = z /\ e = f
PROOF
  <1>1. PICK j \in Shown(d, y) : j \in Cells /\ e = EntryAt(d, y, j) /\ e.name \in Names
    BY ListingIs
  <1>2. PICK k \in Shown(d, z) : k \in Cells /\ f = EntryAt(d, z, k) /\ f.name \in Names
    BY ListingIs
  <1>3. d.inode[y].block \in Blocks /\ d.inode[z].block \in Blocks
    BY DirFacts
  <1>4. d.inode[y].block = d.inode[z].block /\ j = k
    BY <1>1, <1>2, <1>3 DEF EntryAt, Sane, NamedOnce
  <1>5. y = z
    BY <1>4, DirsApart
  <1> QED
    BY <1>1, <1>2, <1>4, <1>5

\* A path leads to directories that can be reached.
LEMMA PathInDirs ==
    ASSUME NEW d, Sane(d), Settled(d), Counted(d), NEW path \in Seq(Names),
           NEW p, p = Locate(d, Root, path), p # -1
    PROVE  p \in Dirs(d)
PROOF
  <1> DEFINE N == Len(path)
  <1>1. d \in Card /\ Root \in Places /\ N \in Nat
    BY Numbers DEF Sane, Places
  <1>2. PICK f : Route(d, Root, path, f) /\ p = f[N]
    BY <1>1, RouteExists
  <1>3. \A k \in 0..N : f[k] # -1 /\ f[k] \in DirSet(d)
    BY <1>2, RouteGoes, RouteDirs
  <1>4. /\ f[0] = Root /\ Root \in Dirs(d) /\ Shut(d, Dirs(d))
        /\ \A k \in 1..N : f[k] = Enter(d, f[k - 1], path[k]) /\ path[k] \in Names
    BY <1>2, DirsReach DEF Route
  <1> HIDE DEF N
  <1> DEFINE W == {k \in 0..N : f[k] \notin Dirs(d)}
  <1>5. W = {}
    <2> SUFFICES ASSUME W # {} PROVE FALSE
      OBVIOUS
    <2>1. PICK m \in W : \A n \in W : m <= n
      <3>1. W \in SUBSET Nat
        OBVIOUS
      <3> HIDE DEF W
      <3> QED  BY <3>1, LeastMember
    <2>2. m \in 0..N /\ f[m] \notin Dirs(d)
      BY <2>1
    <2>3. m # 0
      BY <1>4, <2>2
    <2>4. m \in 1..N /\ m - 1 \in 0..N /\ m - 1 \notin W
      <3> HIDE DEF W
      <3> QED  BY <1>1, <2>1, <2>2, <2>3
    <2> DEFINE x == f[m - 1]
               y == f[m]
    <2>5. x \in Dirs(d) /\ x \in DirSet(d) /\ y = Enter(d, x, path[m]) /\ path[m] \in Names /\ y # -1
      BY <1>3, <1>4, <2>4, <2>2
    <2> HIDE DEF x, y
    <2>6. PICK j \in Shown(d, x) : /\ j \in Cells /\ EntryAt(d, x, j).name = path[m]
                                   /\ EntryAt(d, x, j).type = "dir" /\ EntryAt(d, x, j).id = y
      BY <2>5, EnterSome
    <2>7. j \notin {0, 1}
      BY <2>5, <2>6, NamesApart DEF Counted, Dotted
    <2>8. EntryAt(d, x, j) \in Listing(d, x)
      BY <2>5, <2>6, <2>7, ListingIs
    <2>9. y \in Dirs(d)
      BY <1>4, <2>5, <2>6, <2>8 DEF Shut
    <2> QED  BY <2>2, <2>9 DEF y
  <1> QED
    BY <1>1, <1>2, <1>5

---------------------------------------------------------------------------
(* The tree that the card is.                                              *)

\* Directories list the same but for p.
SameBut(d, e, p) == \A y \in DirSet(d) \ {p} : Listing(e, y) = Listing(d, y)

\* The card with an entry x more in p.
Adds(d, e, p, x) ==
    /\ Listing(e, p) = Listing(d, p) \cup {x} /\ x \notin Listing(d, p) /\ SameBut(d, e, p)
    /\ x.id \notin DirSet(d) /\ x.id \notin Named(d) /\ (x.type = "dir" => Listing(e, x.id) = {})

LEMMA AddsDirs ==
    ASSUME NEW d, Sane(d), Settled(d), NEW e, Sane(e), Settled(e), NEW p \in Dirs(d), NEW x, Adds(d, e, p, x)
    PROVE  Dirs(e) = Dirs(d) \cup (IF x.type = "dir" THEN {x.id} ELSE {})
PROOF
  <1> DEFINE D == Dirs(d) \cup (IF x.type = "dir" THEN {x.id} ELSE {})
  <1>1. /\ Dirs(d) \subseteq DirSet(d) /\ Root \in Dirs(d) /\ Shut(d, Dirs(d))
        /\ \A S \in SUBSET DirSet(d) : Root \in S /\ Shut(d, S) => Dirs(d) \subseteq S
    BY DirsReach
  <1>2. /\ Dirs(e) \subseteq DirSet(e) /\ Root \in Dirs(e) /\ Shut(e, Dirs(e))
        /\ \A S \in SUBSET DirSet(e) : Root \in S /\ Shut(e, S) => Dirs(e) \subseteq S
    BY DirsReach
  <1>3. \A y \in Dirs(d) : Listing(e, y) = Listing(d, y) \cup (IF y = p THEN {x} ELSE {})
    BY <1>1 DEF Adds, SameBut
  <1>4. Dirs(d) \subseteq Dirs(e)
    <2> DEFINE S == Dirs(d) \cap Dirs(e)
    <2>1. Shut(d, S)
      BY <1>1, <1>2, <1>3 DEF Shut
    <2>2. Root \in S /\ S \in SUBSET DirSet(d)
      BY <1>1, <1>2
    <2> HIDE DEF S
    <2>3. Dirs(d) \subseteq S
      BY <1>1, <2>1, <2>2
    <2> QED  BY <2>3 DEF S
  <1>5. x.type = "dir" => x.id \in Dirs(e)
    BY <1>2, <1>3, <1>4 DEF Shut
  <1>6. Shut(e, D)
    <2> SUFFICES ASSUME NEW y \in D, NEW f \in Listing(e, y), f.type = "dir"
                 PROVE  f.id \in D
      BY DEF Shut
    <2>1. CASE y \in Dirs(d)
      <3>1. CASE f \in Listing(d, y)
        BY <1>1, <2>1, <3>1 DEF Shut
      <3>2. CASE f = x
        BY <3>2
      <3> QED  BY <1>3, <2>1, <3>1, <3>2
    <2>2. CASE y \notin Dirs(d)
      BY <2>2 DEF Adds
    <2> QED  BY <2>1, <2>2
  <1>7. Dirs(e) \subseteq D
    <2> DEFINE S == D \cap DirSet(e)
    <2>1. Shut(e, S)
      <3> SUFFICES ASSUME NEW y \in S, NEW f \in Listing(e, y), f.type = "dir"
                   PROVE  f.id \in S
        BY DEF Shut
      <3>1. f.id \in D
        BY <1>6 DEF Shut
      <3>2. f.id \in DirSet(e)
        BY ListingFacts
      <3> QED  BY <3>1, <3>2
    <2>2. Root \in S /\ S \in SUBSET DirSet(e)
      BY <1>1, <1>2
    <2> HIDE DEF S, D
    <2>3. Dirs(e) \subseteq S
      BY <1>2, <2>1, <2>2
    <2> QED  BY <2>3 DEF S
  <1> QED
    BY <1>4, <1>5, <1>7

LEMMA AddsTree ==
    ASSUME NEW d, Sane(d), Settled(d), NEW e, Sane(e), Settled(e), NEW p \in Dirs(d), NEW x, Adds(d, e, p, x)
    PROVE  FT!Make(Tree(d), Tree(e))
PROOF
  <1> DEFINE t == Tree(d)
             u == Tree(e)
  <1>1. Dirs(e) = Dirs(d) \cup (IF x.type = "dir" THEN {x.id} ELSE {})
    BY AddsDirs
  <1>2. /\ t = [y \in Dirs(d) |-> Listing(d, y)] /\ DOMAIN t = Dirs(d)
        /\ u = [y \in Dirs(e) |-> Listing(e, y)] /\ DOMAIN u = Dirs(e)
    BY DEF Tree
  <1>3. Dirs(d) \subseteq DirSet(d)
    BY DirsReach
  <1>4. \A y \in DOMAIN t : \A f \in t[y] : f.id # x.id
    BY <1>2, <1>3, ListingFacts DEF Adds
  <1>5. p \in DOMAIN t \cap DOMAIN u /\ x \in u[p] \ t[p]
    BY <1>1, <1>2 DEF Adds
  <1>6. u = [y \in DOMAIN t \cup (IF x.type = "dir" THEN {x.id} ELSE {}) |->
                IF y = p THEN t[p] \cup {x} ELSE IF y = x.id THEN {} ELSE t[y]]
    <2>1. \A y \in Dirs(e) : Listing(e, y) = IF y = p THEN t[p] \cup {x} ELSE IF y = x.id THEN {} ELSE t[y]
      <3> TAKE y \in Dirs(e)
      <3>1. CASE y = p
        BY <1>2, <3>1 DEF Adds
      <3>2. CASE y # p /\ y \in Dirs(d)
        BY <1>2, <1>3, <3>2 DEF Adds, SameBut
      <3>3. CASE y \notin Dirs(d)
        <4>1. x.type = "dir" /\ y = x.id /\ y # p
          BY <1>1, <3>3
        <4> QED  BY <4>1 DEF Adds
      <3> QED  BY <3>1, <3>2, <3>3
    <2> HIDE DEF t, u
    <2> QED  BY <1>1, <1>2, <2>1
  <1> HIDE DEF t, u
  <1>7. \E y \in DOMAIN t \cap DOMAIN u : \E f \in u[y] \ t[y] :
          /\ \A z \in DOMAIN t : \A g \in t[z] : g.id # f.id
          /\ u = [z \in DOMAIN t \cup (IF f.type = "dir" THEN {f.id} ELSE {}) |->
                     IF z = y THEN t[y] \cup {f} ELSE IF z = f.id THEN {} ELSE t[z]]
    BY <1>4, <1>5, <1>6
  <1> QED
    BY <1>7 DEF FT!Make, t, u

\* Directories that list the same are the same tree.
LEMMA TreeSame ==
    ASSUME NEW d, Sane(d), Settled(d), NEW e, Sane(e), Settled(e),
           \A y \in Dirs(d) : Listing(e, y) = Listing(d, y)
    PROVE  Tree(e) = Tree(d)
PROOF
  <1>1. /\ Dirs(d) \subseteq DirSet(d) /\ Root \in Dirs(d) /\ Shut(d, Dirs(d))
        /\ \A S \in SUBSET DirSet(d) : Root \in S /\ Shut(d, S) => Dirs(d) \subseteq S
    BY DirsReach
  <1>2. /\ Dirs(e) \subseteq DirSet(e) /\ Root \in Dirs(e) /\ Shut(e, Dirs(e))
        /\ \A S \in SUBSET DirSet(e) : Root \in S /\ Shut(e, S) => Dirs(e) \subseteq S
    BY DirsReach
  <1>3. Dirs(d) \subseteq Dirs(e)
    <2> DEFINE S == Dirs(d) \cap Dirs(e)
    <2>1. Shut(d, S)
      BY <1>1, <1>2 DEF Shut
    <2>2. Root \in S /\ S \in SUBSET DirSet(d)
      BY <1>1, <1>2
    <2> HIDE DEF S
    <2>3. Dirs(d) \subseteq S
      BY <1>1, <2>1, <2>2
    <2> QED  BY <2>3 DEF S
  <1>4. Dirs(e) \subseteq Dirs(d)
    <2> DEFINE S == Dirs(d) \cap Dirs(e)
    <2>1. Shut(e, S)
      BY <1>1, <1>2 DEF Shut
    <2>2. Root \in S /\ S \in SUBSET DirSet(e)
      BY <1>1, <1>2
    <2> HIDE DEF S
    <2>3. Dirs(e) \subseteq S
      BY <1>2, <2>1, <2>2
    <2> QED  BY <2>3 DEF S
  <1>5. Dirs(e) = Dirs(d)
    BY <1>3, <1>4
  <1> QED
    BY <1>5 DEF Tree

LEMMA KeptListing ==
    ASSUME NEW d, Sane(d), Settled(d), NEW y \in DirSet(d), NEW e, NEW X, Keeps(d, e, X), y \in X
    PROVE  Listing(e, y) = Listing(d, y)
PROOF
  <1>1. Fits(y)
    BY DirFacts
  <1>2. ReadInode(e, y) = e.inode[y] /\ ReadInode(d, y) = d.inode[y]
    BY <1>1 DEF ReadInode
  <1>3. /\ e.inode[y].dnum = d.inode[y].dnum /\ e.inode[y].block = d.inode[y].block
        /\ e.block[d.inode[y].block] = d.block[d.inode[y].block]
    BY DEF Keeps
  <1> QED
    BY <1>2, <1>3 DEF Listing

LEMMA SameCardinality == \A S : FT!Cardinality(S) = Cardinality(S)
PROOF
  BY DEF FT!Cardinality, Cardinality

\* The directories that a directory of the tree names.
Near(d) == [S \in SUBSET Dirs(d) |-> {z \in Dirs(d) : \E y \in S : \E f \in Tree(d)[y] : f.id = z}]

LEMMA BelowReach ==
    ASSUME NEW d, Sane(d), Settled(d), NEW i \in Dirs(d)
    PROVE  Reach(FT!Below(Tree(d), i), Dirs(d), i, Near(d))
PROOF
  <1> DEFINE T == Dirs(d)
             t == Tree(d)
             B == Near(d)
             N == Cardinality(T)
             close(S) == {z \in T : \E y \in S : \E f \in t[y] : f.id = z}
  <1>1. IsFiniteSet(T) /\ N \in Nat /\ N <= N
    <2>1. IsFiniteSet(0..NI - 1)
      <3>1. NI \in Nat
        BY FileSysAssumption
      <3> QED  BY <3>1, FS_Interval
    <2>2. T \in SUBSET Inodes
      BY DirFacts, DirsReach
    <2> HIDE DEF T
    <2>3. IsFiniteSet(T)
      BY <2>1, <2>2, FS_Subset DEF Inodes
    <2> QED  BY <2>3, FS_CardinalityType
  <1>2. DOMAIN t = T
    BY DEF Tree
  <1>3. \A S \in SUBSET T : B[S] = close(S)
    BY DEF Near
  <1>4. Follows(B, T)
    <2>1. B \in [SUBSET T -> SUBSET T]
      BY DEF Near
    <2>2. \A S, R \in SUBSET T : S \subseteq R => close(S) \subseteq close(R)
      OBVIOUS
    <2> HIDE DEF T, t, B, close
    <2> QED  BY <1>3, <2>1, <2>2 DEF Follows
  <1> DEFINE P(h) == h = [n \in Nat |-> IF n = 0 THEN {i} ELSE h[n - 1] \cup close(h[n - 1])]
             walk[n \in Nat] == IF n = 0 THEN {i} ELSE walk[n - 1] \cup close(walk[n - 1])
             far[n \in Nat] == IF n = 0 THEN {i}
                               ELSE LET near == far[n - 1]
                                    IN near \cup {z \in DOMAIN t : \E y \in near : \E f \in t[y] : f.id = z}
  <1>5. FT!Below(t, i) = walk[N]
    <2>1. FT!Below(t, i) = far[FT!Cardinality(DOMAIN t)]
      BY DEF FT!Below
    <2>2. FT!Cardinality(DOMAIN t) = N
      BY <1>2, SameCardinality
    <2>3. far = walk
      BY <1>2
    <2> HIDE DEF far, walk
    <2> QED  BY <2>1, <2>2, <2>3
  <1>6. walk = CHOOSE h : P(h)
    OBVIOUS
  <1> HIDE DEF B, t, T, close, walk
  <1>7. i \in T
    BY DEF T
  <1>8. PICK f : Chain(f, N, T, i, B)
    <2> HIDE DEF N
    <2> QED  BY <1>1, <1>4, <1>7, ChainExists
  <1>9. Reach(f[N], T, i, B)
    BY <1>1, <1>4, <1>7, <1>8, ChainEnds
  <1> HIDE DEF N
  <1>10. /\ f \in [0..N -> SUBSET T] /\ f[0] = {i}
         /\ \A k \in 1..N : f[k] = f[k - 1] \cup close(f[k - 1])
    <2>1. \A k \in 1..N : k - 1 \in 0..N
      BY <1>1
    <2> QED  BY <1>3, <1>8, <2>1 DEF Chain
  <1>11. f[N] = f[N] \cup close(f[N])
    BY <1>3, <1>9 DEF Reach
  <1> DEFINE h == [n \in Nat |-> IF n <= N THEN f[n] ELSE f[N]]
  <1>12. P(h)
    <2>1. \A n \in Nat : h[n] = IF n = 0 THEN {i} ELSE h[n - 1] \cup close(h[n - 1])
      <3> TAKE n \in Nat
      <3>1. CASE n = 0
        BY <1>1, <1>10, <3>1
      <3>2. CASE n # 0 /\ n <= N
        <4>1. n \in 1..N /\ n - 1 \in Nat /\ n - 1 <= N
          BY <1>1, <3>2
        <4>2. h[n] = f[n] /\ h[n - 1] = f[n - 1]
          BY <3>2, <4>1
        <4> QED  BY <1>10, <3>2, <4>1, <4>2
      <3>3. CASE ~(n <= N)
        <4>1. n # 0 /\ n - 1 \in Nat /\ (n - 1 <= N => n - 1 = N)
          BY <1>1, <3>3
        <4>2. h[n] = f[N] /\ h[n - 1] = f[N]
          BY <3>3, <4>1
        <4> QED  BY <1>11, <4>1, <4>2
      <3> QED  BY <3>1, <3>2, <3>3
    <2> DEFINE v(n) == IF n = 0 THEN {i} ELSE h[n - 1] \cup close(h[n - 1])
    <2>2. \A n \in Nat : h[n] = v(n)
      BY <2>1
    <2> HIDE DEF v
    <2>3. h = [n \in Nat |-> v(n)]
      BY <2>2
    <2> QED  BY <2>3 DEF v
  <1> HIDE DEF h
  <1>13. P(walk)
    <2> HIDE DEF P
    <2> QED  BY <1>6, <1>12
  <1>14. \A n \in Nat : walk[n] = IF n = 0 THEN {i} ELSE walk[n - 1] \cup close(walk[n - 1])
    BY <1>13
  <1> HIDE DEF P
  <1> DEFINE W == {n \in 0..N : walk[n] # f[n]}
  <1>15. W = {}
    <2> SUFFICES ASSUME W # {} PROVE FALSE
      OBVIOUS
    <2>1. PICK m \in W : \A n \in W : m <= n
      <3>1. W \in SUBSET Nat
        OBVIOUS
      <3> HIDE DEF W
      <3> QED  BY <3>1, LeastMember
    <2>2. m \in 0..N /\ m \in Nat /\ walk[m] # f[m]
      BY <2>1
    <2>3. m # 0
      BY <1>10, <1>14, <2>2
    <2>4. m \in 1..N /\ m - 1 \in 0..N /\ m - 1 \notin W
      <3> HIDE DEF W
      <3> QED  BY <1>1, <2>1, <2>2, <2>3
    <2> QED  BY <1>10, <1>14, <2>2, <2>3, <2>4
  <1>16. walk[N] = f[N]
    BY <1>1, <1>15
  <1> HIDE DEF W
  <1> QED
    BY <1>5, <1>9, <1>16 DEF T, t, B

\* The card without the directory x that p named.
Removes(d, e, p, x) ==
    /\ x \in Listing(d, p) /\ x.type = "dir" /\ Listing(e, p) = Listing(d, p) \ {x} /\ SameBut(d, e, p)
    /\ DirSet(e) \subseteq DirSet(d)

\* What is below a directory that p names does not have the root in it, and is
\* named from within, but for the directory itself.
LEMMA BelowFacts ==
    ASSUME NEW d, Sane(d), Settled(d), Counted(d), NEW p \in Dirs(d),
           NEW x \in Listing(d, p), x.type = "dir",
           NEW Bl, Bl = FT!Below(Tree(d), x.id)
    PROVE  /\ Bl \subseteq Dirs(d) /\ x.id \in Bl /\ Root \notin Bl
           /\ \A y \in Bl : \A f \in Listing(d, y) : f.type = "dir" => f.id \in Bl
           /\ \A y \in Dirs(d) : \A f \in Listing(d, y) : f.id \in Bl /\ f.id # x.id => y \in Bl
PROOF
  <1> DEFINE T == Dirs(d)
             i == x.id
             B == Near(d)
  <1>1. T \subseteq DirSet(d) /\ Shut(d, T)
    BY DirsReach
  <1>2. i \in T
    BY <1>1 DEF Shut
  <1>3. Reach(Bl, T, i, B)
    BY <1>2, BelowReach
  <1>4. \A y \in T : Tree(d)[y] = Listing(d, y)
    BY DEF Tree
  <1>5. \A S \in SUBSET T : \A z : z \in B[S] <=> z \in T /\ \E y \in S : \E f \in Listing(d, y) : f.id = z
    BY <1>4 DEF Near
  <1>6. \A y \in T : \A f \in Listing(d, y) : f.id # Root
    BY <1>1, ListingFacts DEF Sane, NamedExist
  <1>7. /\ Bl \in SUBSET T /\ i \in Bl /\ B[Bl] \subseteq Bl
        /\ \A S \in SUBSET T : i \in S /\ B[S] \subseteq S => Bl \subseteq S
    BY <1>3 DEF Reach
  <1> HIDE DEF B
  <1>8. Root \notin Bl
    <2> DEFINE S == T \ {Root}
    <2>1. S \in SUBSET T /\ i \in S
      BY <1>2, <1>6
    <2>2. B[S] \subseteq S
      BY <1>5, <1>6, <2>1
    <2>3. Bl \subseteq S
      <3> HIDE DEF S
      <3> QED  BY <1>7, <2>1, <2>2
    <2> QED  BY <2>3
  <1>9. ASSUME NEW y \in Bl, NEW f \in Listing(d, y), f.type = "dir" PROVE f.id \in Bl
    <2>1. y \in T /\ f.id \in T
      BY <1>1, <1>7, <1>9 DEF Shut
    <2>2. f.id \in B[Bl]
      BY <1>5, <1>7, <1>9, <2>1
    <2> QED  BY <1>7, <2>2
  <1>10. ASSUME NEW y \in T, NEW f \in Listing(d, y), f.id \in Bl, f.id # i PROVE y \in Bl
    <2> DEFINE S == Bl \ {f.id}
    <2>1. S \in SUBSET T /\ i \in S
      BY <1>7, <1>10
    <2>2. ~(Bl \subseteq S)
      BY <1>10
    <2>3. PICK w \in B[S] : w \notin S
      <3> HIDE DEF S
      <3> QED  BY <1>7, <2>1, <2>2
    <2>4. PICK z \in S : \E g \in Listing(d, z) : g.id = w
      <3> HIDE DEF S
      <3> QED  BY <1>5, <2>1, <2>3
    <2>5. w \in Bl
      <3>1. w \in T /\ z \in Bl
        BY <1>5, <2>1, <2>3
      <3>2. w \in B[Bl]
        BY <1>5, <1>7, <2>4, <3>1
      <3> QED  BY <1>7, <3>2
    <2>6. w = f.id
      BY <2>3, <2>5
    <2>7. z \in T /\ z \in Bl
      BY <2>1, <2>4
    <2>8. z = y
      <3>1. PICK g \in Listing(d, z) : g.id = f.id
        BY <2>4, <2>6
      <3>2. z \in DirSet(d) /\ y \in DirSet(d)
        BY <1>1, <2>7
      <3> QED  BY <3>1, <3>2, ListedOnce
    <2> QED  BY <2>7, <2>8
  <1> QED
    BY <1>7, <1>8, <1>9, <1>10

LEMMA RemovesDirs ==
    ASSUME NEW d, Sane(d), Settled(d), Counted(d), NEW e, Sane(e), Settled(e),
           NEW p \in Dirs(d), p \in Dirs(e), NEW x, Removes(d, e, p, x)
    PROVE  Dirs(e) = Dirs(d) \ FT!Below(Tree(d), x.id)
PROOF
  <1> DEFINE Bl == FT!Below(Tree(d), x.id)
  <1>1. /\ Dirs(d) \subseteq DirSet(d) /\ Root \in Dirs(d) /\ Shut(d, Dirs(d))
        /\ \A S \in SUBSET DirSet(d) : Root \in S /\ Shut(d, S) => Dirs(d) \subseteq S
    BY DirsReach
  <1>2. /\ Dirs(e) \subseteq DirSet(e) /\ Root \in Dirs(e) /\ Shut(e, Dirs(e))
        /\ \A S \in SUBSET DirSet(e) : Root \in S /\ Shut(e, S) => Dirs(e) \subseteq S
    BY DirsReach
  <1>3. /\ Bl \subseteq Dirs(d) /\ x.id \in Bl /\ Root \notin Bl
        /\ \A y \in Bl : \A f \in Listing(d, y) : f.type = "dir" => f.id \in Bl
        /\ \A y \in Dirs(d) : \A f \in Listing(d, y) : f.id \in Bl /\ f.id # x.id => y \in Bl
    BY BelowFacts DEF Removes
  <1> HIDE DEF Bl
  <1>4. \A y \in Dirs(d) : Listing(e, y) = Listing(d, y) \ (IF y = p THEN {x} ELSE {})
    BY <1>1 DEF Removes, SameBut
  <1>5. \A y \in Dirs(d) : \A f \in Listing(d, y) : f.id = x.id => y = p /\ f = x
    BY <1>1, ListedOnce DEF Removes
  <1>6. Dirs(e) \subseteq Dirs(d) \ Bl
    <2> DEFINE S == (Dirs(d) \ Bl) \cap DirSet(e)
    <2>1. Shut(e, S)
      <3> SUFFICES ASSUME NEW y \in S, NEW f \in Listing(e, y), f.type = "dir"
                   PROVE  f.id \in S
        BY DEF Shut
      <3>1. y \in Dirs(d) /\ y \notin Bl /\ y \in DirSet(e) /\ f \in Listing(d, y) /\ ~(y = p /\ f = x)
        BY <1>4
      <3>2. f.id \in Dirs(d)
        BY <1>1, <3>1 DEF Shut
      <3>3. f.id \in DirSet(e)
        BY <3>1, ListingFacts
      <3>4. f.id \notin Bl
        BY <1>3, <1>5, <3>1
      <3> QED  BY <3>2, <3>3, <3>4
    <2>2. Root \in S /\ S \in SUBSET DirSet(e)
      BY <1>1, <1>2, <1>3
    <2> HIDE DEF S
    <2>3. Dirs(e) \subseteq S
      BY <1>2, <2>1, <2>2
    <2> QED  BY <2>3 DEF S
  <1>7. Dirs(d) \subseteq Dirs(e) \cup Bl
    <2> DEFINE S == (Dirs(e) \cup Bl) \cap Dirs(d)
    <2>1. Shut(d, S)
      <3> SUFFICES ASSUME NEW y \in S, NEW f \in Listing(d, y), f.type = "dir"
                   PROVE  f.id \in S
        BY DEF Shut
      <3>1. f.id \in Dirs(d)
        BY <1>1 DEF Shut
      <3>2. CASE y \in Bl
        BY <1>3, <3>1, <3>2
      <3>3. CASE y \in Dirs(e) /\ f = x
        BY <1>3, <3>1, <3>3
      <3>4. CASE y \in Dirs(e) /\ f # x
        <4>1. f \in Listing(e, y)
          BY <1>4, <3>4
        <4> QED  BY <1>2, <3>1, <3>4, <4>1 DEF Shut
      <3> QED  BY <3>2, <3>3, <3>4
    <2>2. Root \in S /\ S \in SUBSET DirSet(d)
      BY <1>1, <1>2
    <2> HIDE DEF S
    <2>3. Dirs(d) \subseteq S
      BY <1>1, <2>1, <2>2
    <2> QED  BY <2>3 DEF S
  <1>8. Dirs(e) = Dirs(d) \ Bl
    BY <1>6, <1>7
  <1> QED
    BY <1>8 DEF Bl

LEMMA RemovesTree ==
    ASSUME NEW d, Sane(d), Settled(d), Counted(d), NEW e, Sane(e), Settled(e),
           NEW p \in Dirs(d), p \in Dirs(e), NEW x, Removes(d, e, p, x)
    PROVE  FT!Remove(Tree(d), Tree(e))
PROOF
  <1> DEFINE t == Tree(d)
             u == Tree(e)
             Bl == FT!Below(t, x.id)
  <1>1. Dirs(e) = Dirs(d) \ Bl
    BY RemovesDirs
  <1> HIDE DEF Bl
  <1>2. /\ t = [y \in Dirs(d) |-> Listing(d, y)] /\ DOMAIN t = Dirs(d)
        /\ u = [y \in Dirs(e) |-> Listing(e, y)] /\ DOMAIN u = Dirs(e)
    BY DEF Tree
  <1>3. Dirs(d) \subseteq DirSet(d)
    BY DirsReach
  <1>4. p \in DOMAIN t \cap DOMAIN u /\ x \in t[p] \ u[p]
    BY <1>2 DEF Removes
  <1>5. u = [y \in DOMAIN t \ Bl |-> IF y = p THEN t[p] \ {x} ELSE t[y]]
    <2>1. \A y \in Dirs(e) : Listing(e, y) = IF y = p THEN t[p] \ {x} ELSE t[y]
      <3> TAKE y \in Dirs(e)
      <3>1. CASE y = p
        BY <1>2, <3>1 DEF Removes
      <3>2. CASE y # p
        BY <1>1, <1>2, <1>3, <3>2 DEF Removes, SameBut
      <3> QED  BY <3>1, <3>2
    <2> HIDE DEF t, u
    <2> QED  BY <1>1, <1>2, <2>1
  <1> HIDE DEF t, u
  <1>6. \E y \in DOMAIN t \cap DOMAIN u : \E f \in t[y] \ u[y] :
          /\ f.type = "dir"
          /\ u = [z \in DOMAIN t \ FT!Below(t, f.id) |-> IF z = y THEN t[y] \ {f} ELSE t[z]]
    BY <1>4, <1>5 DEF Removes, Bl
  <1> QED
    BY <1>6 DEF FT!Remove, t, u

LEMMA BlankTree ==
    ASSUME NEW d, Blank(d)
    PROVE  Tree(d) = FT!Empty
PROOF
  <1>1. Dirs(d) = {}
    BY DEF Dirs, Formatted, Blank
  <1> QED
    BY <1>1 DEF Tree, FT!Empty

LEMMA MkfsTree ==
    ASSUME NEW d \in Card, Blank(d), NEW e, Sane(e), Rooted(d, e)
    PROVE  FT!Format(Tree(d), Tree(e))
PROOF
  <1>1. DirSet(e) = {Root} /\ Shown(e, Root) = {0, 1} /\ Counted(e) /\ Settled(e)
    BY RootedShows, RootedCounted DEF Rooted
  <1>2. Listing(e, Root) = {}
    BY <1>1, ListingIs
  <1>3. Dirs(e) = {Root}
    BY <1>1, DirsReach
  <1>4. Tree(e) = [y \in {Root} |-> {}]
    BY <1>2, <1>3 DEF Tree
  <1>5. Tree(d) = FT!Empty
    BY BlankTree
  <1> QED
    BY <1>4, <1>5 DEF FT!Format

\* Directories of which e shows what d shows list the same.
LEMMA ShownListing ==
    ASSUME NEW d, Sane(d), Settled(d), Counted(d), NEW e, Sane(e), Settled(e), Counted(e),
           NEW y \in DirSet(d), y \in DirSet(e), Shown(e, y) = Shown(d, y),
           \A j \in Cells \ {0, 1} : EntryAt(e, y, j) = EntryAt(d, y, j)
    PROVE  Listing(e, y) = Listing(d, y)
PROOF
  <1>1. /\ Listing(d, y) = {EntryAt(d, y, j) : j \in Shown(d, y) \ {0, 1}}
        /\ Listing(e, y) = {EntryAt(e, y, j) : j \in Shown(e, y) \ {0, 1}}
        /\ \A j \in Shown(d, y) \ {0, 1} : j \in Cells
    BY ListingIs
  <1> QED
    BY <1>1

\* An entry that its directory gained is the one entry more.
LEMMA GainedAdds ==
    ASSUME NEW d, Sane(d), Settled(d), Counted(d), NEW e, Sane(e), Settled(e), Counted(e),
           NEW p \in DirSet(d), p \in DirSet(e), NEW x, Gained(d, e, p, x), ~Crammed(d, p),
           x \in Listing(e, p) \ Listing(d, p), SameBut(d, e, p)
    PROVE  Adds(d, e, p, x)
PROOF
  <1>1. PICK at \in Cells \ Shown(d, p) :
          /\ Shown(e, p) = Shown(d, p) \cup {at} /\ EntryAt(e, p, at) = x
          /\ \A j \in Cells \ {at} : EntryAt(e, p, j) = EntryAt(d, p, j)
    BY DEF Gained
  <1>2. at \notin {0, 1}
    BY DEF Counted
  <1>3. /\ Listing(d, p) = {EntryAt(d, p, j) : j \in Shown(d, p) \ {0, 1}}
        /\ Listing(e, p) = {EntryAt(e, p, j) : j \in Shown(e, p) \ {0, 1}}
        /\ \A j \in Shown(d, p) \ {0, 1} : j \in Cells
    BY ListingIs
  <1>4. Listing(e, p) = Listing(d, p) \cup {x}
    <2>1. \A j \in Shown(d, p) \ {0, 1} : EntryAt(e, p, j) = EntryAt(d, p, j)
      BY <1>1, <1>3
    <2>2. Shown(e, p) \ {0, 1} = (Shown(d, p) \ {0, 1}) \cup {at}
      BY <1>1, <1>2
    <2> QED  BY <1>1, <1>3, <2>1, <2>2
  <1>5. x.type = "dir" => Listing(e, x.id) = {}
    <2> SUFFICES ASSUME x.type = "dir" PROVE Listing(e, x.id) = {}
      OBVIOUS
    <2>1. x.id \in DirSet(e)
      BY ListingFacts
    <2>2. Shown(e, x.id) = {0, 1}
      BY <2>1 DEF Gained
    <2> QED  BY <2>1, <2>2, ListingIs
  <1> QED
    BY <1>4, <1>5 DEF Adds, Gained

\* Where the prompt's path leads, when a call's writes are done.
LEMMA PathedThen ==
    ASSUME NEW d, NEW ws \in Seq(Writes), NEW p, NEW path, Pathed(d, ws, p, path),
           NEW e, e = After(d, ws), Sane(e), Counted(e)
    PROVE  Settled(e) /\ p \in DirSet(e) /\ p \in Dirs(e)
PROOF
  <1>1. Len(ws) \in 0..Len(ws)
    OBVIOUS
  <1>2. Settled(e) /\ path \in Seq(Names) /\ p \in Inodes /\ Locate(e, Root, path) = p
    BY <1>1 DEF Pathed, After
  <1>3. p # -1
    BY <1>2, Numbers
  <1> QED
    BY <1>2, <1>3, LocateDir, PathInDirs

\* The directories that a call's writes leave alone list the same.
LEMMA SparesBut ==
    ASSUME NEW d, Sane(d), Settled(d), NEW p, NEW ws \in Seq(Writes), Spares(d, ws, DirSet(d) \ {p}),
           NEW e, e = After(d, ws)
    PROVE  SameBut(d, e, p)
PROOF
  <1> DEFINE X == DirSet(d) \ {p}
  <1>1. d \in Card /\ X \in SUBSET Inodes
    BY DirFacts DEF Sane
  <1>2. Len(ws) \in 0..Len(ws)
    OBVIOUS
  <1>3. Keeps(d, e, X)
    <2> HIDE DEF X
    <2>1. Spares(d, ws, X)
      BY DEF X
    <2> QED  BY <1>1, <1>2, <2>1, SparesKeep DEF After
  <1> QED
    BY <1>3, KeptListing DEF SameBut

LEMMA CreateTree ==
    ASSUME NEW d, Sane(d), Counted(d), NEW p, NEW path, Pathed(d, <<>>, p, path),
           d.imap # Inodes, d.bmap # Blocks, NEW name \in Names, NEW type \in Types,
           CreateHarms(d, p, type) \cap Counting = {}, NEW ws, ws = Create(d, p, name, type)
    PROVE  FT!Make(Tree(d), Tree(After(d, ws)))
PROOF
  <1> DEFINE x == Cell(name, FirstFree(d.imap, Inodes), type)
             e == After(d, ws)
  <1>1. Settled(d) /\ Linked(d) /\ path \in Seq(Names) /\ p # -1 /\ p = Locate(d, Root, path) /\ p \in DirSet(d)
    BY PathedFacts
  <1>2. p \in Dirs(d)
    BY <1>1, PathInDirs
  <1>3. Fits(FirstFree(d.imap, Inodes)) /\ (type = "dir" => 0 \in d.bmap) /\ ~Crammed(d, p)
    BY <1>1, CreateCounts
  <1>4. /\ ws \in Seq(Writes) /\ Sane(e) /\ Settled(e) /\ Gained(d, e, p, x)
        /\ Spares(d, ws, DirSet(d) \ {p})
    BY <1>1, <1>3, CreateGained
  <1>5. Counted(e)
    BY <1>1, CreateCounted
  <1>6. x \in Listing(e, p) \ Listing(d, p)
    BY <1>1, CreateListed
  <1>7. Pathed(d, ws, p, path)
    BY <1>3, CreatePathed
  <1>8. SameBut(d, e, p)
    BY <1>1, <1>4, SparesBut
  <1>9. p \in DirSet(e)
    BY <1>4, <1>5, <1>7, PathedThen
  <1> HIDE DEF x, e
  <1>10. Adds(d, e, p, x)
    BY <1>1, <1>3, <1>4, <1>5, <1>6, <1>8, <1>9, GainedAdds
  <1>11. FT!Make(Tree(d), Tree(e))
    BY <1>1, <1>2, <1>4, <1>10, AddsTree
  <1> QED
    BY <1>11 DEF e

\* An entry that its directory lost is the one entry less.
LEMMA LostRemoves ==
    ASSUME NEW d, Sane(d), Settled(d), Counted(d), NEW e, Sane(e), Settled(e), Counted(e),
           NEW p \in DirSet(d), p \in DirSet(e), NEW j, j # -1, Lost(d, e, p, j),
           EntryAt(d, p, j).type = "dir", SameBut(d, e, p)
    PROVE  Removes(d, e, p, EntryAt(d, p, j))
PROOF
  <1> DEFINE x == EntryAt(d, p, j)
  <1>1. /\ j \in Shown(d, p) /\ j \in Cells /\ j >= 2 /\ Shown(e, p) = Shown(d, p) \ {j}
        /\ \A k \in Cells \ {j} : EntryAt(e, p, k) = EntryAt(d, p, k)
        /\ DirSet(e) \subseteq DirSet(d)
    BY DEF Lost
  <1>2. j \notin {0, 1}
    BY <1>1
  <1>3. /\ Listing(d, p) = {EntryAt(d, p, k) : k \in Shown(d, p) \ {0, 1}}
        /\ Listing(e, p) = {EntryAt(e, p, k) : k \in Shown(e, p) \ {0, 1}}
        /\ \A k \in Shown(d, p) \ {0, 1} : k \in Cells /\ EntryAt(d, p, k).name \in Names
    BY ListingIs
  <1>4. x \in Listing(d, p)
    BY <1>1, <1>2, <1>3
  <1>5. \A k \in Shown(d, p) \ {0, 1} : EntryAt(d, p, k) = x => k = j
    <2>1. d.inode[p].block \in Blocks
      BY DirFacts
    <2> TAKE k \in Shown(d, p) \ {0, 1}
    <2> HAVE EntryAt(d, p, k) = x
    <2>2. /\ k \in Cells /\ j \in Cells /\ EntryAt(d, p, k).name \in Names /\ EntryAt(d, p, j).name \in Names
          /\ EntryAt(d, p, k).id = EntryAt(d, p, j).id
      BY <1>1, <1>2, <1>3
    <2> QED  BY <2>1, <2>2 DEF EntryAt, Sane, NamedOnce
  <1>6. Listing(e, p) = Listing(d, p) \ {x}
    <2>1. \A k \in Shown(d, p) \ {0, 1} : k # j => EntryAt(e, p, k) = EntryAt(d, p, k)
      BY <1>1, <1>3
    <2>2. Shown(e, p) \ {0, 1} = (Shown(d, p) \ {0, 1}) \ {j}
      BY <1>1
    <2>3. EntryAt(d, p, j) = x
      OBVIOUS
    <2> HIDE DEF x
    <2> QED  BY <1>3, <1>5, <2>1, <2>2, <2>3
  <1> QED
    BY <1>1, <1>4, <1>6 DEF Removes

LEMMA RmdirTree ==
    ASSUME NEW d, Sane(d), Counted(d), NEW p, NEW path, Pathed(d, <<>>, p, path),
           NEW name \in Names, d.inode[p].dnum > 0, Find(d, p, 2, name, "dir") # -1,
           NEW ws, ws = RmdirWrites(d, p, name)
    PROVE  FT!Remove(Tree(d), Tree(After(d, ws)))
PROOF
  <1> DEFINE j == Find(d, p, 2, name, "dir")
             e == After(d, ws)
             x == EntryAt(d, p, j)
  <1>1. Settled(d) /\ Linked(d) /\ path \in Seq(Names) /\ p # -1 /\ p = Locate(d, Root, path) /\ p \in DirSet(d)
    BY PathedFacts
  <1>2. p \in Dirs(d)
    BY <1>1, PathInDirs
  <1>3. x.type = "dir"
    BY <1>1, FindTwo
  <1>4. /\ ws \in Seq(Writes) /\ Sane(e) /\ Settled(e) /\ Lost(d, e, p, j)
        /\ Spares(d, ws, DirSet(d) \ {p})
    BY <1>1, RmdirLost
  <1>5. Pathed(d, ws, p, path)
    BY RmdirPathed
  <1> HIDE DEF j
  <1>6. j # -1
    BY DEF j
  <1>7. SameBut(d, e, p)
    BY <1>1, <1>4, SparesBut
  <1> HIDE DEF e
  <1>8. Counted(e)
    BY <1>1, <1>4, <1>6, LostCounted
  <1>9. p \in DirSet(e) /\ p \in Dirs(e)
    BY <1>4, <1>5, <1>8, PathedThen DEF e
  <1>10. Removes(d, e, p, x)
    BY <1>1, <1>3, <1>4, <1>6, <1>7, <1>8, <1>9, LostRemoves
  <1> HIDE DEF x
  <1>11. FT!Remove(Tree(d), Tree(e))
    BY <1>1, <1>2, <1>4, <1>9, <1>10, RemovesTree
  <1> QED
    BY <1>11 DEF e

LEMMA FileTreeSame ==
    ASSUME NEW d, Sane(d), Settled(d), NEW ws, Filed(d, ws), NEW e, e = After(d, ws), Sane(e)
    PROVE  Tree(e) = Tree(d)
PROOF
  <1>1. PICK alloc \in BOOLEAN, sized \in BOOLEAN, b \in Blocks, p \in Cells, x \in ToSet(Plane),
             n \in Inodes, v \in Int :
          /\ x \notin Names /\ (alloc => b \notin d.bmap) /\ (~alloc => b = 0 \/ (b \in d.bmap /\ ~DirBlock(d, b)))
          /\ ws = FileWrites(d, alloc, b, p, x, sized, n, v)
    BY DEF Filed
  <1>2. Settled(e) /\ Keeps(d, e, DirSet(d))
    BY <1>1, FileKeeps
  <1>3. \A y \in Dirs(d) : Listing(e, y) = Listing(d, y)
    BY <1>2, DirsReach, KeptListing
  <1> QED
    BY <1>2, <1>3, TreeSame

---------------------------------------------------------------------------
(* Every step of the file system is a step of the tree.                    *)

LEMMA TreeAfterIs == TreeAfter = Tree(After(disk, pending)) /\ TreeAfter' = Tree(After(disk', pending'))
PROOF
  <1>1. \A t : (CHOOSE u \in {t} : TRUE) = t
    OBVIOUS
  <1>2. \A d : {Tree(c) : c \in {d}} = {Tree(d)}
    OBVIOUS
  <1>3. TreeAfter = CHOOSE t \in {Tree(c) : c \in {After(disk, pending)}} : TRUE
    BY DEF TreeAfter
  <1>4. TreeAfter' = CHOOSE t \in {Tree(c) : c \in {After(disk', pending')}} : TRUE
    BY DEF TreeAfter, Tree, Dirs, Listing, ReadInode, Formatted, After, Done, Walk
  <1> QED
    BY <1>1, <1>2, <1>3, <1>4

\* Between calls, the tree is that of the card.
LEMMA QuietTree ==
    ASSUME FGood, pending = <<>>
    PROVE  TreeAfter = Tree(disk)
PROOF
  <1>1. After(disk, <<>>) = disk
    BY QuietFacts, LeadsNowhere DEF Leads
  <1> QED
    BY <1>1, TreeAfterIs

\* When a call's writes are done, the card is sane.
LEMMA AfterSane ==
    ASSUME NEW d, NEW ws, NEW e, Leads(d, ws, e)
    PROVE  After(d, ws) = e /\ Sane(e) /\ ws \in Seq(Writes)
PROOF
  <1>1. ws \in Seq(Writes) /\ After(d, ws) = e /\ \A k \in 0..Len(ws) : Sane(Done(d, ws, k))
    BY DEF Leads
  <1>2. Len(ws) \in 0..Len(ws)
    BY <1>1
  <1> QED
    BY <1>1, <1>2 DEF After

LEMMA CardWriteTree ==
    ASSUME FGood, CardWrite
    PROVE  TreeAfter' = TreeAfter
PROOF
  <1>1. pending # <<>> /\ disk' = Apply(disk, Head(pending)) /\ pending' = Tail(pending)
    BY DEF CardWrite
  <1>2. disk \in Card /\ pending \in Seq(Writes)
    BY DEF FGood, Leads
  <1>3. /\ Len(pending') = Len(pending) - 1
        /\ \A k \in 0..Len(pending) - 1 : Done(disk', pending', k) = Done(disk, pending, k + 1)
    BY <1>1, <1>2, DoneShift
  <1>4. Len(pending) \in Nat /\ Len(pending) >= 1
    BY <1>1, <1>2
  <1>5. After(disk', pending') = After(disk, pending)
    BY <1>3, <1>4 DEF After
  <1> QED
    BY <1>5, TreeAfterIs

LEMMA RestartTree ==
    ASSUME Restart, Unless(Counting)'
    PROVE  TreeAfter' = TreeAfter
PROOF
  <1>1. /\ pending' = <<>> /\ disk' = disk
        /\ pending # <<>> => "cut" \in harm' \/ "mkfs" \in harm'
    BY DEF Restart
  <1>2. pending = <<>>
    BY <1>1 DEF Unless, Counting, Harmed, Bad
  <1> QED
    BY <1>1, <1>2, TreeAfterIs

LEMMA MkfsSteps ==
    ASSUME FGood, Mkfs, Unless(Counting)'
    PROVE  FT!Step(TreeAfter, TreeAfter')
PROOF
  <1>1. /\ pending = <<>> /\ pending' = MkfsWrites(disk) /\ UNCHANGED disk
        /\ Root \in disk.imap /\ pending' # <<>> => "again" \in harm'
    BY DEF Mkfs
  <1>2. Sane(disk) /\ disk \in Card /\ Ready(disk, users, file, shell)
    BY <1>1, QuietFacts
  <1>3. CASE pending' = <<>>
    BY <1>1, <1>3, TreeAfterIs DEF FT!Step
  <1>4. CASE pending' # <<>>
    <2>1. Root \notin disk.imap
      BY <1>1, <1>4 DEF Unless, Counting, Harmed, Bad
    <2>2. Blank(disk)
      BY <1>2, <2>1 DEF Ready, Settled
    <2>3. PICK e : Leads(disk, pending', e) /\ Rooted(disk, e)
      BY <1>1, <1>2, <2>2, MkfsLeads
    <2>4. After(disk, pending') = e /\ Sane(e)
      BY <2>3, AfterSane
    <2>5. FT!Format(Tree(disk), Tree(e))
      BY <1>2, <2>2, <2>3, <2>4, MkfsTree
    <2>6. TreeAfter = Tree(disk) /\ TreeAfter' = Tree(e)
      BY <1>1, <2>4, QuietTree, TreeAfterIs
    <2> QED  BY <2>5, <2>6 DEF FT!Step
  <1> QED
    BY <1>3, <1>4

LEMMA MakeSteps ==
    ASSUME FGood, PathGood, CountGood, NEW op \in {"mkdir", "touch"}, NEW type \in Types, Make(op, type),
           Unless(Counting)'
    PROVE  FT!Step(TreeAfter, TreeAfter')
PROOF
  <1>1. /\ Called(op) /\ Room /\ UNCHANGED <<disk, path_inode, shell_path>>
        /\ pending' = Create(disk, path_inode, inst_path[1], type)
        /\ harm' = harm \cup CreateHarms(disk, path_inode, type)
    BY DEF Make
  <1>2. Settled(disk) /\ pending = <<>> /\ shell.op = op
    BY <1>1, CalledFacts
  <1>3. inst_path[1] \in Names
    BY <1>2 DEF FGood, TypedMemory
  <1>4. CreateHarms(disk, path_inode, type) \cap Counting = {}
    BY <1>1 DEF Unless
  <1>5. Sane(disk) /\ Counted(disk) /\ Pathed(disk, <<>>, path_inode, shell_path)
    BY <1>2, QuietCount, QuietPath DEF Settled
  <1>6. FT!Make(Tree(disk), Tree(After(disk, pending')))
    BY <1>1, <1>3, <1>4, <1>5, CreateTree DEF Room
  <1>7. TreeAfter = Tree(disk) /\ TreeAfter' = Tree(After(disk, pending'))
    BY <1>1, <1>2, QuietTree, TreeAfterIs
  <1> QED
    BY <1>6, <1>7 DEF FT!Step

LEMMA RmdirSteps ==
    ASSUME FGood, PathGood, CountGood, Rmdir, Unless(Counting)'
    PROVE  FT!Step(TreeAfter, TreeAfter')
PROOF
  <1> DEFINE j == Find(disk, path_inode, 2, inst_path[1], "dir")
  <1>1. /\ Called("rmdir") /\ UNCHANGED disk
        /\ pending' = RmdirWrites(disk, path_inode, inst_path[1])
        /\ Fits(path_inode) => disk.inode[path_inode].dnum > 0
        /\ j = -1 => "missing" \in harm'
    BY DEF Rmdir
  <1>2. Settled(disk) /\ pending = <<>> /\ shell.op = "rmdir"
    BY <1>1, CalledFacts
  <1>3. inst_path[1] \in Names
    BY <1>2 DEF FGood, TypedMemory
  <1>4. Sane(disk) /\ Counted(disk) /\ Pathed(disk, <<>>, path_inode, shell_path) /\ path_inode \in DirSet(disk)
    BY <1>2, QuietCount, QuietPath DEF Settled
  <1>5. j # -1
    BY <1>1 DEF Unless, Counting
  <1>6. disk.inode[path_inode].dnum > 0
    BY <1>1, <1>2, <1>4, DirFacts
  <1>7. FT!Remove(Tree(disk), Tree(After(disk, pending')))
    BY <1>1, <1>3, <1>4, <1>5, <1>6, RmdirTree
  <1>8. TreeAfter = Tree(disk) /\ TreeAfter' = Tree(After(disk, pending'))
    BY <1>1, <1>2, QuietTree, TreeAfterIs
  <1> QED
    BY <1>7, <1>8 DEF FT!Step

LEMMA FopenSteps ==
    ASSUME FGood, PathGood, CountGood, Fopen, Unless(Counting)'
    PROVE  FT!Step(TreeAfter, TreeAfter')
PROOF
  <1> DEFINE j == Find(disk, path_inode, 2, PlaneName, "file")
  <1>1. /\ pending = <<>> /\ Root \in disk.imap /\ UNCHANGED disk
        /\ pending' = IF j = -1 THEN Create(disk, path_inode, PlaneName, "file") ELSE <<>>
        /\ j = -1 => Room /\ CreateHarms(disk, path_inode, "file") \subseteq harm'
    BY DEF Fopen
  <1> HIDE DEF j
  <1>2. CASE j = -1
    <2>1. CreateHarms(disk, path_inode, "file") \cap Counting = {}
      BY <1>1, <1>2 DEF Unless
    <2>2. PlaneName \in Names /\ "file" \in Types /\ disk.imap # Inodes /\ disk.bmap # Blocks
      BY <1>1, <1>2, NamesApart DEF Types, Room
    <2>3. pending' = Create(disk, path_inode, PlaneName, "file")
      BY <1>1, <1>2
    <2>4. Sane(disk) /\ Counted(disk) /\ Pathed(disk, <<>>, path_inode, shell_path)
      BY <1>1, QuietCount, QuietPath
    <2>5. FT!Make(Tree(disk), Tree(After(disk, pending')))
      BY <2>1, <2>2, <2>3, <2>4, CreateTree
    <2>6. TreeAfter = Tree(disk) /\ TreeAfter' = Tree(After(disk, pending'))
      BY <1>1, QuietTree, TreeAfterIs
    <2> QED  BY <2>5, <2>6 DEF FT!Step
  <1>3. CASE j # -1
    <2>1. disk' = disk /\ pending' = pending
      BY <1>1, <1>3
    <2> QED  BY <2>1, TreeAfterIs DEF FT!Step
  <1> QED
    BY <1>2, <1>3

LEMMA FwriteTree ==
    ASSUME FGood, PathGood, CountGood, Fwrite
    PROVE  TreeAfter' = TreeAfter
PROOF
  <1>1. pending = <<>> /\ users > 0 /\ UNCHANGED disk
    BY DEF Fwrite
  <1>2. FGood' /\ Filed(disk, pending')
    BY FwriteGood
  <1>3. Sane(disk) /\ Settled(disk)
    <2>1. users # 0 /\ Ready(disk, users, file, shell) /\ Sane(disk)
      BY <1>1, QuietFacts
    <2> QED  BY <2>1 DEF Ready
  <1>4. Sane(After(disk', pending'))
    BY <1>2, AfterSane DEF FGood
  <1>5. Tree(After(disk, pending')) = Tree(disk)
    BY <1>1, <1>2, <1>3, <1>4, FileTreeSame
  <1> QED
    BY <1>1, <1>5, QuietTree, TreeAfterIs

LEMMA StepTree ==
    ASSUME FInv, PathInv, CountInv, [Next]_vars
    PROVE  [FT!Next]_<<TreeAfter, Sound>>
PROOF
  <1>1. CASE UNCHANGED vars
    <2>1. disk' = disk /\ pending' = pending /\ harm' = harm
      BY <1>1 DEF vars
    <2> QED  BY <2>1, TreeAfterIs DEF Sound, Unless, Counting, Harmed, Bad
  <1>2. CASE Next
    <2>1. harm \subseteq harm'
      BY <1>2 DEF Next, CardWrite, Restart, Mkfs, Parse, Cd, Mkdir, Touch, Make, Rmdir, Fopen, Fwrite, Fclose
    <2>2. Sound' => Sound
      BY <2>1 DEF Sound, Unless, Counting, Harmed, Bad
    <2>3. CASE ~Sound'
      BY <2>3 DEF FT!Next, Sound, Unless
    <2>4. CASE Sound'
      <3>1. Unless(Counting)'
        BY <2>4 DEF Sound, Unless, Counting, Harmed, Bad
      <3>2. FGood /\ PathGood /\ CountGood
        BY <2>1, <3>1 DEF FInv, PathInv, CountInv, Unless, Counting, Harmed
      <3>3. FT!Step(TreeAfter, TreeAfter')
        <4>1. CASE Mkdir
          BY <3>1, <3>2, <4>1, MakeSteps DEF Mkdir, Types
        <4>2. CASE Touch
          BY <3>1, <3>2, <4>2, MakeSteps DEF Touch, Types
        <4>3. CASE CardWrite \/ Restart \/ Fwrite \/ Parse \/ Cd \/ Fclose
          <5>1. CASE Parse \/ Cd \/ Fclose
            <6>1. UNCHANGED <<disk, pending>>
              BY <5>1 DEF Parse, Cd, Fclose
            <6> QED  BY <6>1, TreeAfterIs DEF FT!Step
          <5>2. CASE CardWrite \/ Restart \/ Fwrite
            <6>1. TreeAfter' = TreeAfter
              BY <3>1, <3>2, <5>2, CardWriteTree, RestartTree, FwriteTree
            <6> QED  BY <6>1 DEF FT!Step
          <5> QED  BY <4>3, <5>1, <5>2
        <4>4. CASE Mkfs \/ Rmdir \/ Fopen
          BY <3>1, <3>2, <4>4, MkfsSteps, RmdirSteps, FopenSteps
        <4> QED  BY <1>2, <4>1, <4>2, <4>3, <4>4 DEF Next
      <3>4. \E t \in {TreeAfter}, u \in {TreeAfter'} : FT!Step(t, u)
        BY <3>3
      <3>5. Sound /\ Sound'
        BY <2>2, <2>4
      <3> QED  BY <3>4, <3>5 DEF FT!Next
    <2> QED  BY <2>3, <2>4
  <1> QED
    BY <1>1, <1>2

LEMMA InitTree ==
    ASSUME Init
    PROVE  FT!Init
PROOF
  <1>1. FGood /\ Blank(After(disk, pending)) /\ Sound = TRUE
    <2>1. FGood /\ pending = <<>> /\ harm = {}
      BY InitGood DEF Init
    <2>2. After(disk, <<>>) = disk
      BY <2>1, QuietFacts, LeadsNowhere DEF Leads
    <2>3. Blank(disk)
      BY Numbers DEF Init, Blank, ZeroInode, EmptyCell, Cell
    <2> QED  BY <2>1, <2>2, <2>3 DEF Sound, Unless, Counting, Harmed, Bad
  <1>2. TreeAfter = FT!Empty
    BY <1>1, BlankTree, TreeAfterIs
  <1> QED
    BY <1>1, <1>2 DEF FT!Init

---------------------------------------------------------------------------
(* What was written to files stays there.                                  *)

\* Files with a block of their own.
FilesOf(d) == {n \in Inodes : d.inode[n].type = "file" /\ d.inode[n].block # 0}
Using(d) == Named(d) \cup FilesOf(d)
\* As far as its size goes, a file holds what the download task writes.
Holds(d, n) == \A k \in 1..NCELL :
    k <= d.inode[n].size => d.block[d.inode[n].block][k - 1].name = Plane[k]
\* A file's inode and block are in use, and the block is nobody else's.
Owns(d, n) == /\ n \in d.imap /\ Fits(n) /\ d.inode[n].block \in d.bmap \ {ROOTBLOCK}
              /\ \A m \in Using(d) \ {n} : d.inode[m].block # d.inode[n].block
\* No directory has an entry that names itself.
Selfless(d) == \A n \in Named(d), j \in Cells : d.inode[n].type = "dir" =>
    LET c == d.block[d.inode[n].block][j] IN c.name \in Names => c.id # n
\* A formatted card has its magic number.
Magic(d) == Root \in d.imap => d.block[0][0] = Super

Stored(d) == /\ \A n \in FilesOf(d) : Owns(d, n) /\ Holds(d, n)
             /\ \A n \in Named(d) : d.inode[n].block # 0
             /\ Selfless(d) /\ Magic(d)

\* The files of d are in e as they were.
Intact(d, e) == \A n \in FilesOf(d) :
    /\ n \in FilesOf(e) /\ e.inode[n] = d.inode[n]
    /\ e.block[d.inode[n].block] = d.block[d.inode[n].block]

LEMMA IntactOn ==
    ASSUME NEW d, NEW e, NEW f, Intact(d, e), Intact(e, f)
    PROVE  Intact(d, f)
  BY DEF Intact

LEMMA IntactSelf ==
    ASSUME NEW d
    PROVE  Intact(d, d)
  BY DEF Intact

\* The maps are written.
LEMMA StoredMap ==
    ASSUME NEW d \in Card, Stored(d), NEW e \in Card, e.inode = d.inode, e.block = d.block,
           \A n \in FilesOf(d) : n \in e.imap /\ d.inode[n].block \in e.bmap,
           Root \in e.imap => d.block[0][0] = Super
    PROVE  Stored(e) /\ Intact(d, e)
PROOF
  <1>1. Named(e) = Named(d) /\ FilesOf(e) = FilesOf(d) /\ Using(e) = Using(d)
    BY DEF Named, FilesOf, Using
  <1>2. ASSUME NEW n \in FilesOf(e) PROVE Owns(e, n) /\ Holds(e, n)
    BY <1>1, <1>2 DEF Stored, Owns, Holds
  <1>3. Selfless(e) /\ Magic(e)
    BY <1>1 DEF Stored, Selfless, Magic
  <1> QED
    BY <1>1, <1>2, <1>3 DEF Stored, Intact

\* An inode is written: a directory's, or that of a new and empty file.
LEMMA StoredIno ==
    ASSUME NEW d \in Card, Stored(d), NEW n \in Inodes, NEW r \in InodeT, Fits(n), n \notin FilesOf(d),
           \A m \in FilesOf(d) : d.inode[m].block # r.block,
           n \in Named(d) => r.type = d.inode[n].type /\ r.block = d.inode[n].block,
           r.type = "file" => /\ n \in d.imap /\ r.size = 0 /\ r.block \in d.bmap \ {ROOTBLOCK}
                              /\ \A m \in Using(d) \ {n} : d.inode[m].block # r.block,
           NEW e \in Card, e.imap = d.imap, e.bmap = d.bmap, e.block = d.block,
           e.inode = [d.inode EXCEPT ![n] = r]
    PROVE  Stored(e) /\ Intact(d, e)
PROOF
  <1>1. e.inode[n] = r /\ \A m \in Inodes \ {n} : e.inode[m] = d.inode[m]
    BY DEF Card
  <1>2. /\ Named(e) = Named(d) /\ Named(d) \subseteq Inodes
        /\ FilesOf(d) \subseteq FilesOf(e) /\ FilesOf(e) \subseteq FilesOf(d) \cup {n}
    BY <1>1 DEF Named, FilesOf
  <1>3. Using(e) \subseteq Using(d) \cup {n} /\ Using(d) \subseteq Inodes
    BY <1>2 DEF Using, FilesOf
  <1>4. ASSUME NEW m \in FilesOf(d) PROVE Owns(e, m) /\ Holds(e, m)
    <2>1. m \in Inodes \ {n} /\ e.inode[m] = d.inode[m] /\ Owns(d, m) /\ Holds(d, m)
      BY <1>1, <1>4 DEF FilesOf, Stored
    <2>2. \A k \in Using(e) \ {m} : e.inode[k].block # d.inode[m].block
      <3> TAKE k \in Using(e) \ {m}
      <3>1. CASE k = n
        BY <1>1, <1>4, <3>1
      <3>2. CASE k # n
        <4>1. k \in Using(d) \ {m} /\ e.inode[k] = d.inode[k]
          BY <1>1, <1>3, <3>2
        <4> QED  BY <2>1, <4>1 DEF Owns
      <3> QED  BY <3>1, <3>2
    <2> QED  BY <2>1, <2>2 DEF Owns, Holds
  <1>5. ASSUME n \in FilesOf(e) PROVE Owns(e, n) /\ Holds(e, n)
    <2>1. r.type = "file"
      BY <1>1, <1>5 DEF FilesOf
    <2>2. \A k \in Using(e) \ {n} : e.inode[k].block # r.block
      BY <1>1, <1>3, <2>1
    <2>3. \A k \in 1..NCELL : ~(k <= r.size)
      <3>1. NCELL \in Nat /\ r.size = 0
        BY <2>1, FileSysAssumption
      <3> QED  BY <3>1
    <2> QED  BY <1>1, <2>1, <2>2, <2>3 DEF Owns, Holds
  <1>6. \A m \in Named(e) : e.inode[m].type = d.inode[m].type /\ e.inode[m].block = d.inode[m].block
    BY <1>1, <1>2
  <1>7. Selfless(e) /\ Magic(e)
    BY <1>2, <1>6 DEF Stored, Selfless, Magic
  <1>8. \A m \in Named(e) : e.inode[m].block # 0
    BY <1>2, <1>6 DEF Stored
  <1>9. Intact(d, e)
    BY <1>1, <1>2 DEF Intact, FilesOf
  <1> QED
    BY <1>2, <1>4, <1>5, <1>7, <1>8, <1>9 DEF Stored

\* A block of no file is written; where an entry is new, it is that of x.
LEMMA StoredBlk ==
    ASSUME NEW d \in Card, Stored(d), NEW B \in Blocks, NEW c \in [Cells -> CellT], NEW e, Written(d, B, c, e),
           \A m \in FilesOf(d) : d.inode[m].block # B, B = 0 => c[0] = Super, NEW x,
           \A j \in Cells : c[j] = d.block[B][j] \/ c[j].name \notin Names \/ c[j].id = x,
           x \in Inodes => /\ d.inode[x].block # 0 /\ d.inode[x].block # B
                           /\ \A m \in FilesOf(d) \ {x} : d.inode[m].block # d.inode[x].block
                           /\ x \notin Named(d)
    PROVE  Stored(e) /\ Intact(d, e) /\ Named(e) \subseteq Named(d) \cup {x}
PROOF
  <1>1. /\ e \in Card /\ e.imap = d.imap /\ e.bmap = d.bmap /\ e.inode = d.inode
        /\ e.block[B] = c /\ \A b \in Blocks \ {B} : e.block[b] = d.block[b]
    BY DEF Written
  <1>2. FilesOf(e) = FilesOf(d) /\ FilesOf(d) \subseteq Inodes /\ \A n \in Inodes : d.inode[n].block \in Blocks
    BY <1>1 DEF FilesOf, Card, InodeT
  <1>3. ASSUME NEW n \in Named(e) PROVE n \in Inodes /\ (n \in Named(d) \/ n = x)
    <2>1. PICK b \in Blocks, j \in Cells : e.block[b][j].name \in Names /\ e.block[b][j].id = n
      BY <1>3 DEF Named
    <2>2. n \in Inodes
      BY <1>3 DEF Named
    <2>3. CASE e.block[b][j] = d.block[b][j]
      BY <2>1, <2>2, <2>3 DEF Named
    <2>4. CASE e.block[b][j] # d.block[b][j]
      BY <1>1, <2>1, <2>2, <2>4
    <2> QED  BY <2>2, <2>3, <2>4
  <1>4. ASSUME NEW n \in FilesOf(d) PROVE Owns(e, n) /\ Holds(e, n)
    <2>1. Owns(d, n) /\ Holds(d, n) /\ e.block[d.inode[n].block] = d.block[d.inode[n].block]
      BY <1>1, <1>2, <1>4 DEF Stored
    <2>2. \A m \in Using(e) \ {n} : e.inode[m].block # d.inode[n].block
      <3> TAKE m \in Using(e) \ {n}
      <3>1. m \in Using(d) \/ (m = x /\ x \in Inodes)
        BY <1>2, <1>3 DEF Using
      <3> QED  BY <1>1, <1>4, <2>1, <3>1 DEF Owns
    <2> QED  BY <1>1, <2>1, <2>2 DEF Owns, Holds
  <1>5. \A n \in Named(e) : e.inode[n].block # 0
    BY <1>1, <1>3 DEF Stored
  <1>6. Selfless(e)
    <2> SUFFICES ASSUME NEW n \in Named(e), NEW j \in Cells, d.inode[n].type = "dir",
                        e.block[d.inode[n].block][j].name \in Names, e.block[d.inode[n].block][j].id = n
                 PROVE  FALSE
      BY <1>1 DEF Selfless
    <2>1. n \in Inodes /\ d.inode[n].block \in Blocks
      BY <1>2, <1>3
    <2>2. CASE e.block[d.inode[n].block][j] = d.block[d.inode[n].block][j]
      <3>1. n \in Named(d)
        BY <2>1, <2>2 DEF Named
      <3> QED  BY <2>2, <3>1 DEF Stored, Selfless
    <2>3. CASE e.block[d.inode[n].block][j] # d.block[d.inode[n].block][j]
      <3>1. d.inode[n].block = B
        BY <1>1, <2>1, <2>3
      <3>2. n = x
        BY <1>1, <2>3, <3>1
      <3> QED  BY <2>1, <3>1, <3>2
    <2> QED  BY <2>2, <2>3
  <1>7. Magic(e)
    <2>1. e.block[0] = d.block[0] \/ (B = 0 /\ e.block[0][0] = Super)
      BY <1>1, Numbers
    <2> QED  BY <1>1, <2>1 DEF Stored, Magic
  <1>8. Intact(d, e)
    BY <1>1, <1>2 DEF Intact
  <1> QED
    BY <1>2, <1>3, <1>4, <1>5, <1>6, <1>7, <1>8 DEF Stored

---------------------------------------------------------------------------
(* The calls keep the files.                                               *)

\* These writes, wherever the power goes off, keep what was written to files.
Stores(d, ws, e) == /\ ws \in Seq(Writes) /\ After(d, ws) = e
                    /\ \A k \in 0..Len(ws) : Stored(Done(d, ws, k)) /\ Intact(d, Done(d, ws, k))

LEMMA DoneNone ==
    ASSUME NEW d \in Card
    PROVE  /\ <<>> \in Seq(Writes) /\ Done(d, <<>>, 0) = d /\ After(d, <<>>) = d
           /\ \A k \in 0..Len(<<>>) : k = 0
PROOF
  <1>1. <<>> \in Seq(Writes) /\ Len(<<>>) = 0 /\ \A k \in 0..Len(<<>>) : k = 0
    OBVIOUS
  <1>2. Done(d, <<>>, 0) = d
    BY <1>1, DoneFacts
  <1> QED
    BY <1>1, <1>2 DEF After

LEMMA StoresNowhere ==
    ASSUME NEW d \in Card, Stored(d)
    PROVE  Stores(d, <<>>, d)
  BY DoneNone, IntactSelf DEF Stores

LEMMA StoresOn ==
    ASSUME NEW d \in Card, NEW ws, NEW e, Stores(d, ws, e), NEW w \in Writes,
           Stored(Apply(e, w)) /\ Intact(e, Apply(e, w))
    PROVE  Stores(d, Append(ws, w), Apply(e, w))
PROOF
  <1> DEFINE v == Append(ws, w)
  <1>1. /\ ws \in Seq(Writes) /\ Done(d, ws, Len(ws)) = e /\ Len(ws) \in 0..Len(ws)
        /\ \A k \in 0..Len(ws) : Stored(Done(d, ws, k)) /\ Intact(d, Done(d, ws, k))
    BY DEF Stores, After
  <1>2. /\ v \in Seq(Writes) /\ \A k \in 0..Len(ws) : Done(d, v, k) = Done(d, ws, k)
        /\ Done(d, v, Len(v)) = Apply(e, w)
        /\ \A k \in 0..Len(v) : k \in 0..Len(ws) \/ k = Len(v)
    BY <1>1, DoneOn
  <1> HIDE DEF v
  <1>3. Intact(d, Apply(e, w))
    BY <1>1, IntactOn
  <1>4. Stores(d, v, Apply(e, w))
    BY <1>1, <1>2, <1>3 DEF Stores, After
  <1> QED
    BY <1>4 DEF v

\* A directory in use: what the shell's working directory is.
Working(d, p) == \/ p = Root
                 \/ /\ p \in Inodes /\ p \in d.imap /\ Fits(p) /\ d.inode[p].type = "dir"
                    /\ d.inode[p].block \in d.bmap \ {0, ROOTBLOCK}
                    /\ \A m \in Using(d) \ {p} : d.inode[m].block # d.inode[p].block

LEMMA WorkingFacts ==
    ASSUME NEW d \in Card, Settled(d), Stored(d), NEW p, Working(d, p)
    PROVE  /\ p \in Inodes /\ p \in d.imap /\ Fits(p) /\ ReadInode(d, p) = d.inode[p]
           /\ d.inode[p].type = "dir" /\ d.inode[p].block \in d.bmap \ {0} /\ d.inode[p].block \in Blocks
           /\ \A m \in FilesOf(d) : m # p /\ d.inode[m].block # d.inode[p].block
PROOF
  <1>1. p \in Inodes /\ p \in d.imap /\ Fits(p) /\ d.inode[p].type = "dir" /\ d.inode[p].block \in d.bmap \ {0}
    BY Numbers DEF Working, Settled
  <1>2. \A m \in FilesOf(d) : m # p /\ d.inode[m].block # d.inode[p].block
    <2> TAKE m \in FilesOf(d)
    <2>1. m # p /\ d.inode[m].block # ROOTBLOCK
      BY <1>1 DEF FilesOf, Stored, Owns
    <2> QED  BY <2>1 DEF Working, Settled, Using
  <1> QED
    BY <1>1, <1>2, ReadTyped

\* What is in use keeps out of blocks that are free.
LEMMA UsingFacts ==
    ASSUME NEW d, Sane(d), Stored(d)
    PROVE  /\ Using(d) \subseteq Inodes /\ Using(d) \subseteq d.imap
           /\ \A m \in Using(d) : d.inode[m].block \in d.bmap \ {0, ROOTBLOCK}
PROOF
  <1>1. \A m \in FilesOf(d) : m \in Inodes /\ m \in d.imap /\ d.inode[m].block \in d.bmap \ {0, ROOTBLOCK}
    BY DEF FilesOf, Stored, Owns
  <1>2. \A m \in Named(d) : m \in Inodes /\ m \in d.imap /\ d.inode[m].block \in d.bmap \ {0, ROOTBLOCK}
    BY DEF Sane, NamedExist, Held, Stored, Named
  <1> QED
    BY <1>1, <1>2 DEF Using

\* An entry for x, or none, was put into these cells.
LEMMA PutCells ==
    ASSUME NEW c \in [Cells -> CellT], NEW x \in CellT, NEW n \in Int
    PROVE  /\ PutEntry(c, n, x) \in [Cells -> CellT]
           /\ \A j \in Cells : PutEntry(c, n, x)[j] = c[j] \/ PutEntry(c, n, x)[j] = x
PROOF
  <1> DEFINE r == PutEntry(c, n, x)
  <1>1. r \in [Cells -> CellT] /\ (r = c \/ PutsOne(c, x, r))
    BY PutFacts
  <1> HIDE DEF r
  <1>2. \A j \in Cells : r[j] = c[j] \/ r[j] = x
    BY <1>1 DEF PutsOne
  <1> QED
    BY <1>1, <1>2 DEF r

LEMMA CreateStores ==
    ASSUME NEW d, Sane(d), Settled(d), Stored(d), d.imap # Inodes, d.bmap # Blocks,
           NEW father, Working(d, father), NEW name \in Names, NEW type \in Types,
           Fits(FirstFree(d.imap, Inodes)), 0 \in d.bmap
    PROVE  \E e : Stores(d, Create(d, father, name, type), e)
PROOF
  <1> DEFINE self == FirstFree(d.imap, Inodes)
             b    == FirstFree(d.bmap, Blocks)
             s1   == d.imap \cup {self}
             s2   == d.bmap \cup {b}
             r3   == NewInode(type, b)
             e1   == Apply(d, Imap(s1))
             e2   == Apply(e1, Bmap(s2))
             e3   == Apply(e2, Ino(self, r3))
             ino  == ReadInode(e3, father)
             r4   == [ino EXCEPT !.dnum = @ + 1]
             e4   == Apply(e3, Ino(father, r4))
             x    == Cell(name, self, type)
             c5   == PutEntry(e3.block[ino.block], ino.dnum + 1, x)
             e5   == Apply(e4, Blk(ino.block, c5))
             c6   == Dots(e5.block[b], father, self)
             e6   == Apply(e5, Blk(b, c6))
             w1   == <<Imap(s1), Bmap(s2), Ino(self, r3)>>
             w2   == <<Ino(father, r4), Blk(ino.block, c5)>>
  <1>0. d \in Card /\ self \in Inodes \ d.imap /\ b \in Blocks \ d.bmap /\ Fits(self) /\ b # 0
    BY FreeFacts DEF Sane
  <1>1. /\ father \in Inodes /\ father \in d.imap /\ Fits(father) /\ father # self
        /\ d.inode[father].type = "dir" /\ d.inode[father].block \in d.bmap \ {0} /\ d.inode[father].block \in Blocks
        /\ \A m \in FilesOf(d) : m # father /\ d.inode[m].block # d.inode[father].block
    BY <1>0, WorkingFacts
  <1>2. /\ Using(d) \subseteq Inodes /\ self \notin Using(d) /\ Root \in d.imap /\ b # ROOTBLOCK
        /\ \A m \in Using(d) : m \in d.imap /\ d.inode[m].block \in d.bmap \ {0, b}
        /\ Named(d) \subseteq Using(d) /\ FilesOf(d) \subseteq Using(d)
    BY <1>0, UsingFacts DEF Using, Settled
  <1>3. d.block[0][0] = Super
    BY <1>2 DEF Stored, Magic
  <1> HIDE DEF self, b
  <1>4. /\ e1 \in Card /\ e1.imap = s1 /\ e1.bmap = d.bmap /\ e1.inode = d.inode /\ e1.block = d.block
        /\ Imap(s1) \in Writes
    <2>1. s1 \in SUBSET Inodes
      BY <1>0 DEF Card
    <2> HIDE DEF s1
    <2> QED  BY <1>0, <2>1, ApplyImap, WritesTyped
  <1> HIDE DEF e1
  <1>5. Stored(e1) /\ Intact(d, e1)
    <2>1. \A n \in FilesOf(d) : n \in e1.imap /\ d.inode[n].block \in e1.bmap
      BY <1>2, <1>4
    <2> QED  BY <1>0, <1>3, <1>4, <2>1, StoredMap
  <1>6. /\ e2 \in Card /\ e2.imap = s1 /\ e2.bmap = s2 /\ e2.inode = d.inode /\ e2.block = d.block
        /\ Bmap(s2) \in Writes
    <2>1. s2 \in SUBSET Blocks
      BY <1>0 DEF Card
    <2> HIDE DEF s2, s1
    <2> QED  BY <1>4, <2>1, ApplyBmap, WritesTyped
  <1> HIDE DEF e2
  <1>7. Stored(e2) /\ Intact(e1, e2)
    <2>1. \A n \in FilesOf(e1) : n \in e2.imap /\ e1.inode[n].block \in e2.bmap
      BY <1>2, <1>4, <1>6 DEF FilesOf
    <2> QED  BY <1>3, <1>4, <1>5, <1>6, <2>1, StoredMap
  <1>8. r3 \in InodeT /\ r3.type = type /\ r3.block = b /\ (r3.type = "file" => r3.size = 0)
    BY <1>0 DEF NewInode, InodeT
  <1> HIDE DEF r3
  <1>9. /\ e3 \in Card /\ e3.imap = s1 /\ e3.bmap = s2 /\ e3.block = d.block
        /\ e3.inode = [d.inode EXCEPT ![self] = r3] /\ Ino(self, r3) \in Writes
    <2> HIDE DEF s1, s2
    <2> QED  BY <1>0, <1>6, <1>8, ApplyIno, WritesTyped
  <1> HIDE DEF e3
  <1>10. e3.inode[self] = r3 /\ \A n \in Inodes \ {self} : e3.inode[n] = d.inode[n]
    BY <1>0, <1>9 DEF Card
  <1>11. Using(e2) = Using(d) /\ FilesOf(e2) = FilesOf(d) /\ Named(e2) = Named(d)
    BY <1>6 DEF Using, FilesOf, Named
  <1>12. Stored(e3) /\ Intact(e2, e3)
    <2>1. self \in e2.imap /\ b \in e2.bmap
      BY <1>6
    <2>2. \A m \in Using(e2) \ {self} : e2.inode[m].block # b
      BY <1>2, <1>6, <1>11
    <2>3. \A m \in FilesOf(e2) : e2.inode[m].block # b
      BY <1>2, <1>6, <1>11
    <2>4. self \notin FilesOf(e2) /\ self \notin Named(e2)
      BY <1>2, <1>11
    <2> HIDE DEF s1, s2
    <2> QED  BY <1>0, <1>2, <1>6, <1>7, <1>8, <1>9, <2>1, <2>2, <2>3, <2>4, StoredIno
  <1>13. ino = d.inode[father] /\ ino \in InodeT
    <2>1. ino = e3.inode[father]
      BY <1>1, <1>9, ReadTyped
    <2> QED  BY <1>0, <1>1, <1>10, <2>1 DEF Card
  <1> HIDE DEF ino
  <1>14. /\ r4 \in InodeT /\ r4.type = "dir" /\ r4.block = d.inode[father].block /\ ino.block \in Blocks
         /\ ino.dnum \in Int /\ Ino(father, r4) \in Writes /\ ino.block = d.inode[father].block
    <2>1. r4 \in InodeT /\ r4.type = ino.type /\ r4.block = ino.block /\ ino.block \in Blocks /\ ino.dnum \in Int
      BY <1>13 DEF InodeT
    <2> HIDE DEF r4
    <2> QED  BY <1>1, <1>13, <2>1, WritesTyped
  <1> HIDE DEF r4
  <1>15. /\ e4 \in Card /\ e4.imap = s1 /\ e4.bmap = s2 /\ e4.block = d.block
         /\ e4.inode = [e3.inode EXCEPT ![father] = r4]
    <2> HIDE DEF s1, s2
    <2> QED  BY <1>1, <1>9, <1>14, ApplyIno
  <1> HIDE DEF e4
  <1>16. e4.inode[father] = r4 /\ e4.inode[self] = r3 /\ \A n \in Inodes \ {self, father} : e4.inode[n] = d.inode[n]
    BY <1>0, <1>1, <1>9, <1>10, <1>15 DEF Card
  <1>17. /\ Named(e3) = Named(d) /\ Named(e4) = Named(d)
         /\ \A m \in FilesOf(e3) : m # father /\ e3.inode[m].block # d.inode[father].block
    <2>1. Named(e3) = Named(d) /\ Named(e4) = Named(d)
      BY <1>9, <1>15 DEF Named
    <2>2. \A m \in FilesOf(e3) : m = self \/ m \in FilesOf(d)
      BY <1>10 DEF FilesOf
    <2>3. \A m \in FilesOf(d) : e3.inode[m] = d.inode[m]
      BY <1>2, <1>10
    <2> QED  BY <1>0, <1>1, <1>8, <1>10, <2>1, <2>2, <2>3
  <1>18. Stored(e4) /\ Intact(e3, e4)
    <2>1. father \notin FilesOf(e3) /\ \A m \in FilesOf(e3) : e3.inode[m].block # r4.block
      BY <1>14, <1>17
    <2>2. r4.type = e3.inode[father].type /\ r4.block = e3.inode[father].block /\ r4.type # "file"
      BY <1>0, <1>1, <1>10, <1>14
    <2>3. e4.imap = e3.imap /\ e4.bmap = e3.bmap /\ e4.block = e3.block
      BY <1>9, <1>15
    <2> HIDE DEF s1, s2
    <2> QED  BY <1>1, <1>9, <1>12, <1>14, <1>15, <2>1, <2>2, <2>3, StoredIno
  <1>19. \A m \in FilesOf(e4) : (m \in FilesOf(d) /\ e4.inode[m] = d.inode[m]) \/ (m = self /\ type = "file")
    <2>1. \A m \in FilesOf(e4) : m \in Inodes /\ m # father
      BY <1>14, <1>16 DEF FilesOf
    <2>2. \A m \in FilesOf(e4) : m # self => m \in FilesOf(d) /\ e4.inode[m] = d.inode[m]
      BY <1>16, <2>1 DEF FilesOf
    <2>3. self \in FilesOf(e4) => type = "file"
      BY <1>8, <1>16 DEF FilesOf
    <2> QED  BY <2>2, <2>3
  <1>20. x \in CellT /\ x.id = self
    BY <1>0, EntryTyped
  <1> HIDE DEF x
  <1>21. /\ c5 \in [Cells -> CellT]
         /\ \A j \in Cells : c5[j] = d.block[ino.block][j] \/ c5[j] = x
    <2> DEFINE old == d.block[ino.block]
               num == ino.dnum + 1
    <2>1. old \in [Cells -> CellT] /\ num \in Int
      BY <1>0, <1>14 DEF Card
    <2>2. c5 = PutEntry(old, num, x)
      BY <1>9
    <2> HIDE DEF c5, old, num
    <2>3. /\ PutEntry(old, num, x) \in [Cells -> CellT]
          /\ \A j \in Cells : PutEntry(old, num, x)[j] = old[j] \/ PutEntry(old, num, x)[j] = x
      BY <1>20, <2>1, PutCells
    <2> QED  BY <2>2, <2>3 DEF old
  <1> HIDE DEF c5
  <1>22. Written(e4, ino.block, c5, e5) /\ Blk(ino.block, c5) \in Writes
    BY <1>14, <1>15, <1>21, BlkWritten
  <1> HIDE DEF e5
  <1>23. Stored(e5) /\ Intact(e4, e5)
    <2>1. \A j \in Cells : c5[j] = e4.block[ino.block][j] \/ c5[j].name \notin Names \/ c5[j].id = self
      BY <1>15, <1>20, <1>21
    <2>2. \A m \in FilesOf(e4) : e4.inode[m].block # ino.block
      BY <1>0, <1>1, <1>8, <1>14, <1>16, <1>19
    <2>3. /\ e4.inode[self].block # 0 /\ e4.inode[self].block # ino.block /\ self \notin Named(e4)
          /\ \A m \in FilesOf(e4) \ {self} : e4.inode[m].block # e4.inode[self].block
      BY <1>0, <1>1, <1>2, <1>8, <1>14, <1>16, <1>17, <1>19
    <2>4. ino.block = 0 => c5[0] = Super
      BY <1>1, <1>14
    <2>5. ino.block \in Blocks /\ c5 \in [Cells -> CellT] /\ e4 \in Card
      BY <1>14, <1>15, <1>21
    <2> HIDE DEF s1, s2
    <2> QED  BY <1>18, <1>22, <2>1, <2>2, <2>3, <2>4, <2>5, StoredBlk
  <1>24. e5 \in Card /\ e5.inode = e4.inode
    BY <1>22 DEF Written
  <1>25. c6 \in [Cells -> CellT] /\ \A j \in Cells : c6[j] = e5.block[b][j] \/ c6[j].name \notin Names
    <2>1. c6 \in [Cells -> CellT] /\ AddsNone(e5, b, c6)
      BY <1>0, <1>1, <1>24, DotsFacts
    <2> QED  BY <2>1 DEF AddsNone
  <1> HIDE DEF c6
  <1>26. Written(e5, b, c6, e6) /\ Blk(b, c6) \in Writes
    BY <1>0, <1>24, <1>25, BlkWritten
  <1> HIDE DEF e6
  <1>27. type = "dir" => Stored(e6) /\ Intact(e5, e6)
    <2> SUFFICES ASSUME type = "dir" PROVE Stored(e6) /\ Intact(e5, e6)
      OBVIOUS
    <2>1. \A m \in FilesOf(e5) : e5.inode[m].block # b
      <3>1. FilesOf(e5) = FilesOf(e4)
        BY <1>24 DEF FilesOf
      <3> QED  BY <1>2, <1>19, <1>24, <3>1
    <2>2. -1 \notin Inodes
      BY Numbers
    <2> QED  BY <1>0, <1>23, <1>24, <1>25, <1>26, <2>1, <2>2, StoredBlk
  <1> HIDE DEF s1, s2
  <1>28. Stores(d, w1, e3)
    <2>1. Stores(d, <<>>, d)
      BY <1>0, StoresNowhere
    <2>2. Stores(d, <<Imap(s1)>>, e1)
      <3>1. Stores(d, Append(<<>>, Imap(s1)), e1)
        BY <1>0, <1>4, <1>5, <2>1, StoresOn DEF e1
      <3> QED  BY <3>1
    <2>3. Stores(d, Append(<<Imap(s1)>>, Bmap(s2)), e2)
      BY <1>0, <1>6, <1>7, <2>2, StoresOn DEF e2
    <2>4. Stores(d, Append(Append(<<Imap(s1)>>, Bmap(s2)), Ino(self, r3)), e3)
      BY <1>0, <1>9, <1>12, <2>3, StoresOn DEF e3
    <2>5. Append(<<Imap(s1)>>, Bmap(s2)) = <<Imap(s1), Bmap(s2)>>
      BY <1>4, <1>6, Append2
    <2>6. Append(<<Imap(s1), Bmap(s2)>>, Ino(self, r3)) = w1
      BY <1>4, <1>6, <1>9, Append3
    <2> QED  BY <2>4, <2>5, <2>6
  <1>29. Stores(e3, w2, e5)
    <2>1. Stores(e3, <<>>, e3)
      BY <1>9, <1>12, StoresNowhere
    <2>2. Stores(e3, <<Ino(father, r4)>>, e4)
      <3>1. Stores(e3, Append(<<>>, Ino(father, r4)), e4)
        BY <1>9, <1>14, <1>18, <2>1, StoresOn DEF e4
      <3> QED  BY <3>1
    <2>3. Stores(e3, Append(<<Ino(father, r4)>>, Blk(ino.block, c5)), e5)
      BY <1>9, <1>22, <1>23, <2>2, StoresOn DEF e5
    <2>4. Append(<<Ino(father, r4)>>, Blk(ino.block, c5)) = w2
      BY <1>14, <1>22, Append2
    <2> QED  BY <2>3, <2>4
  <1>30. After(d, w1) = e3 /\ After(e3, w2) = e5
    BY <1>28, <1>29 DEF Stores
  <1>31. Create(d, father, name, type) = w1 \o w2 \o IF type = "dir" THEN <<Blk(b, c6)>> ELSE <<>>
    <2> HIDE DEF w1, w2
    <2>1. Create(d, father, name, type) =
            w1 \o <<Ino(father, [ReadInode(After(d, w1), father) EXCEPT !.dnum = @ + 1]),
                    Blk(ReadInode(After(d, w1), father).block,
                        PutEntry(After(d, w1).block[ReadInode(After(d, w1), father).block],
                                 ReadInode(After(d, w1), father).dnum + 1, x))>>
               \o IF type = "dir" THEN <<Blk(b, Dots(After(After(d, w1),
                      <<Ino(father, [ReadInode(After(d, w1), father) EXCEPT !.dnum = @ + 1]),
                    Blk(ReadInode(After(d, w1), father).block,
                        PutEntry(After(d, w1).block[ReadInode(After(d, w1), father).block],
                                 ReadInode(After(d, w1), father).dnum + 1, x))>>).block[b], father, self))>>
                  ELSE <<>>
      BY DEF Create, w1, s1, s2, r3, b, self, x
    <2> QED  BY <1>30, <2>1 DEF w2, ino, r4, c5, c6
  <1> DEFINE u == Append(Append(w1, Ino(father, r4)), Blk(ino.block, c5))
  <1>32. Stores(d, u, e5)
    <2> HIDE DEF w1
    <2>1. Stores(d, Append(w1, Ino(father, r4)), e4)
      BY <1>0, <1>14, <1>18, <1>28, StoresOn DEF e4
    <2> QED  BY <1>0, <1>22, <1>23, <2>1, StoresOn DEF e5
  <1>33. CASE type = "dir"
    <2>1. Create(d, father, name, type) = Append(u, Blk(b, c6))
      BY <1>31, <1>33
    <2>2. Stores(d, Append(u, Blk(b, c6)), e6)
      <3> HIDE DEF u
      <3> QED  BY <1>0, <1>26, <1>27, <1>32, <1>33, StoresOn DEF e6
    <2> QED  BY <2>1, <2>2
  <1>34. CASE type # "dir"
    <2>1. Create(d, father, name, type) = u
      BY <1>31, <1>34
    <2> QED  BY <1>32, <2>1
  <1> QED
    BY <1>33, <1>34

\* The directory in which an entry was made is still in use.
LEMMA CreateWorks ==
    ASSUME NEW d, Sane(d), Settled(d), Stored(d), NEW father, Working(d, father), NEW name \in Names, NEW type \in Types,
           NEW e, NEW ws, Created(d, e, type), Made(d, e, ws, father, name, type),
           LeadsBy({FirstFree(d.bmap, Blocks)}, d, ws, e)
    PROVE  Working(e, father)
PROOF
  <1> DEFINE self == FirstFree(d.imap, Inodes)
             b    == FirstFree(d.bmap, Blocks)
  <1>1. CASE father = Root
    BY <1>1 DEF Working
  <1>2. CASE father # Root
    <2>1. /\ father \in Inodes /\ father \in d.imap /\ Fits(father) /\ d.inode[father].type = "dir"
          /\ d.inode[father].block \in d.bmap \ {0, ROOTBLOCK}
          /\ \A m \in Using(d) \ {father} : d.inode[m].block # d.inode[father].block
      BY <1>2 DEF Working
    <2>2. /\ self \in Inodes \ d.imap /\ b \notin d.bmap /\ e.imap = d.imap \cup {self} /\ e.bmap = d.bmap \cup {b}
          /\ e.inode[self].block = b /\ e.inode[father] = [d.inode[father] EXCEPT !.dnum = @ + 1]
          /\ \A n \in Inodes \ {self, father} : e.inode[n] = d.inode[n]
      BY DEF Made, Created
    <2>3. e.inode[father].type = "dir" /\ e.inode[father].block = d.inode[father].block
      <3>1. d.inode[father] \in InodeT
        BY <2>1 DEF Sane, Card
      <3> QED  BY <2>1, <2>2, <3>1 DEF InodeT
    <2>4. \A m \in Named(e) : (m \in Named(d) /\ e.inode[m].block = d.inode[m].block) \/ e.inode[m].block = b
      <3>1. ws \in Seq(Writes) /\ Done(d, ws, Len(ws)) = e /\ Len(ws) \in 0..Len(ws)
        BY DEF LeadsBy, Leads, After
      <3> QED  BY <3>1 DEF LeadsBy, Stem
    <2>5. \A m \in FilesOf(e) : (m \in FilesOf(d) /\ e.inode[m] = d.inode[m]) \/ e.inode[m].block = b
      <3> TAKE m \in FilesOf(e)
      <3>1. m \in Inodes /\ m # father
        BY <2>3 DEF FilesOf
      <3> QED  BY <2>2, <3>1 DEF FilesOf
    <2>6. \A m \in Using(e) \ {father} : e.inode[m].block # e.inode[father].block
      <3> TAKE m \in Using(e) \ {father}
      <3>1. e.inode[m].block = b \/ (m \in Using(d) \ {father} /\ e.inode[m].block = d.inode[m].block)
        BY <2>4, <2>5 DEF Using
      <3> HIDE DEF b
      <3> QED  BY <2>1, <2>2, <2>3, <3>1
    <2> HIDE DEF self, b
    <2> QED  BY <2>1, <2>2, <2>3, <2>6 DEF Working
  <1> QED
    BY <1>1, <1>2

LEMMA RmdirStores ==
    ASSUME NEW d, Sane(d), Settled(d), Stored(d), NEW dir, Working(d, dir), NEW name \in Names
    PROVE  \E e : Stores(d, RmdirWrites(d, dir, name), e) /\ Working(e, dir)
PROOF
  <1> DEFINE ino == ReadInode(d, dir)
             j   == Find(d, dir, 2, name, "dir")
             r1  == [ino EXCEPT !.dnum = @ - 1]
             e1  == Apply(d, Ino(dir, r1))
             old == d.block[ino.block]
             c2  == [old EXCEPT ![j] = EmptyCell]
             e2  == Apply(e1, Blk(ino.block, c2))
             id  == old[j].id
             b   == ReadInode(e2, id).block
             s3  == d.bmap \ {b}
             e3  == Apply(e2, Bmap(s3))
             s4  == d.bmap \ {b, 0}
             e4  == Apply(e3, Bmap(s4))
             s5  == d.imap \ {id}
             e5  == Apply(e4, Imap(s5))
             w1  == <<Ino(dir, r1)>>
             w2  == w1 \o <<Blk(ino.block, c2)>>
  <1>0. d \in Card
    BY DEF Sane
  <1>1. /\ dir \in Inodes /\ dir \in d.imap /\ Fits(dir) /\ ino = d.inode[dir]
        /\ d.inode[dir].type = "dir" /\ ino.block \in d.bmap \ {0} /\ ino.block \in Blocks
        /\ \A m \in FilesOf(d) : m # dir /\ d.inode[m].block # ino.block
    <2>1. ino = d.inode[dir]
      BY <1>0, WorkingFacts
    <2> QED  BY <1>0, <2>1, WorkingFacts
  <1>2. /\ r1 \in InodeT /\ r1.type = "dir" /\ r1.block = ino.block /\ old \in [Cells -> CellT]
        /\ Ino(dir, r1) \in Writes
    <2>1. ino \in InodeT
      BY <1>0, <1>1 DEF Card
    <2> HIDE DEF ino
    <2>2. r1.type = ino.type /\ r1.block = ino.block /\ r1 \in InodeT
      BY <2>1 DEF InodeT
    <2> HIDE DEF r1
    <2> QED  BY <1>0, <1>1, <2>2, WritesTyped DEF Card
  <1>3. \A k : j = k /\ k # -1 => k \in Cells /\ old[k].name = name /\ old[k].type = "dir"
    BY <1>0, <1>1, FindFacts
  <1>4. RmdirWrites(d, dir, name) =
          IF j = -1 THEN w1
          ELSE w2 \o <<Bmap(d.bmap \ {ReadInode(After(d, w2), id).block}),
                       Bmap(d.bmap \ {ReadInode(After(d, w2), id).block, 0}), Imap(s5)>>
    BY DEF RmdirWrites
  <1> HIDE DEF ino, r1
  <1>5. /\ e1 \in Card /\ e1.imap = d.imap /\ e1.bmap = d.bmap /\ e1.block = d.block
        /\ e1.inode = [d.inode EXCEPT ![dir] = r1]
    BY <1>0, <1>1, <1>2, ApplyIno
  <1> HIDE DEF e1
  <1>6. e1.inode[dir] = r1 /\ \A n \in Inodes \ {dir} : e1.inode[n] = d.inode[n]
    BY <1>0, <1>1, <1>5 DEF Card
  <1>7. Stored(e1) /\ Intact(d, e1)
    BY <1>0, <1>1, <1>2, <1>5, StoredIno
  <1>8. /\ Named(e1) = Named(d) /\ FilesOf(e1) \subseteq FilesOf(d)
        /\ \A m \in Inodes : e1.inode[m].block = d.inode[m].block
    <2>1. Named(e1) = Named(d) /\ \A m \in Inodes : e1.inode[m].block = d.inode[m].block
      BY <1>1, <1>2, <1>5, <1>6 DEF Named
    <2> QED  BY <1>2, <1>6, <2>1 DEF FilesOf
  <1>9. Stores(d, w1, e1)
    <2>1. Stores(d, Append(<<>>, Ino(dir, r1)), e1)
      BY <1>0, <1>2, <1>7, StoresNowhere, StoresOn DEF e1
    <2> QED  BY <2>1
  <1>10. dir # Root => \A m \in Using(d) \ {dir} : d.inode[m].block # d.inode[dir].block
    BY DEF Working
  <1>11. dir # Root => d.inode[dir].block # ROOTBLOCK
    BY DEF Working
  <1>12. CASE j = -1
    <2>1. Working(e1, dir)
      <3>1. Using(e1) \subseteq Using(d) /\ Using(d) \subseteq Inodes
        BY <1>8 DEF Using, FilesOf, Named
      <3> QED  BY <1>1, <1>2, <1>5, <1>6, <1>8, <1>10, <1>11, <3>1 DEF Working
    <2> HIDE DEF w1
    <2> QED  BY <1>4, <1>9, <1>12, <2>1
  <1>13. CASE j # -1
    <2>1. j \in Cells /\ old[j].name = name /\ old[j].type = "dir"
      BY <1>3, <1>13
    <2> HIDE DEF j
    <2>2. /\ id \in Named(d) /\ id \in Inodes /\ Fits(id) /\ id # Root /\ d.inode[id].type = "dir" /\ id # dir
      <3>1. id \in Named(d) /\ id \in Inodes
        BY <1>0, <1>1, <2>1, NamesIt DEF Named
      <3>2. Fits(id) /\ id # Root /\ d.inode[id].type = "dir"
        BY <1>1, <2>1, <3>1 DEF Sane, NamedExist, NamedTyped
      <3>3. id # dir
        <4> SUFFICES ASSUME id = dir PROVE FALSE
          OBVIOUS
        <4>1. dir \in Named(d)
          BY <3>1
        <4> QED  BY <1>1, <2>1, <4>1 DEF Stored, Selfless
      <3> QED  BY <3>1, <3>2, <3>3
    <2>3. c2 \in [Cells -> CellT] /\ \A k \in Cells : c2[k] = old[k] \/ c2[k].name \notin Names
      BY <1>2, <2>1, CellsTyped, NamesApart
    <2> HIDE DEF c2
    <2>4. Written(e1, ino.block, c2, e2) /\ Blk(ino.block, c2) \in Writes
      BY <1>1, <1>5, <2>3, BlkWritten
    <2> HIDE DEF e2
    <2>5. /\ e2 \in Card /\ e2.imap = d.imap /\ e2.bmap = d.bmap /\ e2.inode = e1.inode
      BY <1>5, <2>4 DEF Written
    <2>6. Stored(e2) /\ Intact(e1, e2) /\ Named(e2) \subseteq Named(d)
      <3>1. \A k \in Cells : c2[k] = e1.block[ino.block][k] \/ c2[k].name \notin Names \/ c2[k].id = -1
        BY <1>5, <2>3
      <3>2. \A m \in FilesOf(e1) : e1.inode[m].block # ino.block
        BY <1>1, <1>8 DEF FilesOf
      <3>3. -1 \notin Inodes
        BY Numbers
      <3> DEFINE B == ino.block
      <3>30. B \in Blocks /\ (B = 0 => c2[0] = Super) /\ Written(e1, B, c2, e2) /\ e1 \in Card
        BY <1>1, <1>5, <2>4
      <3> HIDE DEF B
      <3>4. Stored(e2) /\ Intact(e1, e2) /\ Named(e2) \subseteq Named(e1) \cup {-1}
        BY <1>7, <2>3, <3>1, <3>2, <3>3, <3>30, StoredBlk DEF B
      <3> QED  BY <1>8, <3>3, <3>4 DEF Named
    <2>7. b = d.inode[id].block
      <3>1. b = e2.inode[id].block
        BY <2>2, <2>5, ReadTyped
      <3> QED  BY <1>6, <2>2, <2>5, <3>1
    <2> HIDE DEF b, id
    <2>8. \A m \in FilesOf(e2) : m \in FilesOf(d) /\ m \in s5 /\ e2.inode[m].block \in s4 /\ e2.inode[m].block \in s3
      <3> TAKE m \in FilesOf(e2)
      <3>1. m \in FilesOf(e1)
        BY <2>5 DEF FilesOf
      <3>2. m \in FilesOf(d) /\ m \in Inodes /\ e2.inode[m].block = d.inode[m].block
        BY <1>8, <2>5, <3>1 DEF FilesOf
      <3>3. m # id
        BY <2>2, <3>2 DEF FilesOf
      <3>4. d.inode[m].block # b /\ m \in d.imap /\ d.inode[m].block \in d.bmap
        BY <2>2, <2>7, <3>2, <3>3 DEF Stored, Owns, Using
      <3>5. d.inode[m].block # 0
        BY <3>2 DEF FilesOf
      <3> QED  BY <3>2, <3>3, <3>4, <3>5
    <2>9. e2.block[0][0] = Super
      BY <2>5, <2>6 DEF Stored, Magic, Settled
    <2>10. /\ e3 \in Card /\ e3.imap = d.imap /\ e3.bmap = s3 /\ e3.inode = e2.inode /\ e3.block = e2.block
           /\ Bmap(s3) \in Writes
      <3>1. s3 \in SUBSET Blocks
        BY <1>0 DEF Card
      <3> HIDE DEF s3
      <3> QED  BY <2>5, <3>1, ApplyBmap, WritesTyped
    <2> HIDE DEF e3
    <2>11. Stored(e3) /\ Intact(e2, e3)
      <3>1. \A n \in FilesOf(e2) : n \in e3.imap /\ e2.inode[n].block \in e3.bmap
        BY <1>0, <2>8, <2>10
      <3> HIDE DEF s3
      <3> QED  BY <2>5, <2>6, <2>9, <2>10, <3>1, StoredMap
    <2>12. /\ e4 \in Card /\ e4.imap = d.imap /\ e4.bmap = s4 /\ e4.inode = e2.inode /\ e4.block = e2.block
           /\ Bmap(s4) \in Writes
      <3>1. s4 \in SUBSET Blocks
        BY <1>0 DEF Card
      <3> HIDE DEF s4, s3
      <3> QED  BY <2>10, <3>1, ApplyBmap, WritesTyped
    <2> HIDE DEF e4
    <2>13. Stored(e4) /\ Intact(e3, e4)
      <3>1. FilesOf(e3) = FilesOf(e2)
        BY <2>10 DEF FilesOf
      <3>2. \A n \in FilesOf(e3) : n \in e4.imap /\ e3.inode[n].block \in e4.bmap
        BY <2>8, <2>10, <2>12, <3>1
      <3> HIDE DEF s3, s4
      <3> QED  BY <2>9, <2>10, <2>11, <2>12, <3>2, StoredMap
    <2>14. /\ e5 \in Card /\ e5.imap = s5 /\ e5.bmap = s4 /\ e5.inode = e2.inode /\ e5.block = e2.block
           /\ Imap(s5) \in Writes
      <3>1. s5 \in SUBSET Inodes
        BY <1>0 DEF Card
      <3> HIDE DEF s5, s4
      <3> QED  BY <2>12, <3>1, ApplyImap, WritesTyped
    <2> HIDE DEF e5
    <2>15. Stored(e5) /\ Intact(e4, e5)
      <3>1. FilesOf(e4) = FilesOf(e2)
        BY <2>12 DEF FilesOf
      <3>2. \A n \in FilesOf(e4) : n \in e5.imap /\ e4.inode[n].block \in e5.bmap
        BY <2>8, <2>12, <2>14, <3>1
      <3> HIDE DEF s5, s4
      <3> QED  BY <2>9, <2>12, <2>13, <2>14, <3>2, StoredMap
    <2>16. Working(e5, dir)
      <3>1. Named(e5) = Named(e2) /\ FilesOf(e5) = FilesOf(e2)
        BY <2>14 DEF Named, FilesOf
      <3>2. Using(e5) \subseteq Using(d) /\ Using(d) \subseteq Inodes
        BY <2>6, <2>8, <3>1 DEF Using, FilesOf, Named
      <3>3. \A m \in Inodes : e5.inode[m].block = d.inode[m].block
        BY <1>8, <2>5, <2>14
      <3>4. e5.inode[dir].type = "dir" /\ dir \in e5.imap
        BY <1>1, <1>2, <1>6, <2>2, <2>5, <2>14
      <3>5. dir # Root => d.inode[dir].block \in e5.bmap \ {0, ROOTBLOCK}
        <4>1. dir # Root => d.inode[dir].block # b
          BY <1>10, <2>2, <2>7 DEF Using
        <4> QED  BY <1>1, <1>11, <2>14, <4>1 DEF ino, Working
      <3> QED  BY <1>1, <1>10, <3>2, <3>3, <3>4, <3>5 DEF Working
    <2> HIDE DEF s3, s4, s5
    <2>17. Stores(d, w2, e2)
      <3>1. w2 = Append(w1, Blk(ino.block, c2))
        OBVIOUS
      <3> HIDE DEF w1
      <3>2. Stores(d, Append(w1, Blk(ino.block, c2)), e2)
        BY <1>0, <1>9, <2>4, <2>6, StoresOn DEF e2
      <3> HIDE DEF w2
      <3> QED  BY <3>1, <3>2
    <2> HIDE DEF w2
    <2>18. Stores(d, Append(Append(Append(w2, Bmap(s3)), Bmap(s4)), Imap(s5)), e5)
      <3>1. Stores(d, Append(w2, Bmap(s3)), e3)
        BY <1>0, <2>10, <2>11, <2>17, StoresOn DEF e3
      <3>2. Stores(d, Append(Append(w2, Bmap(s3)), Bmap(s4)), e4)
        BY <1>0, <2>12, <2>13, <3>1, StoresOn DEF e4
      <3> QED  BY <1>0, <2>14, <2>15, <3>2, StoresOn DEF e5
    <2>19. RmdirWrites(d, dir, name) = w2 \o <<Bmap(s3), Bmap(s4), Imap(s5)>>
      <3>1. After(d, w2) = e2
        BY <2>17 DEF Stores
      <3> QED  BY <1>4, <1>13, <3>1 DEF b, s3, s4
    <2>20. w2 \o <<Bmap(s3), Bmap(s4), Imap(s5)>> = Append(Append(Append(w2, Bmap(s3)), Bmap(s4)), Imap(s5))
      <3>1. w2 \in Seq(Writes)
        BY <2>17 DEF Stores
      <3> QED  BY <2>10, <2>12, <2>14, <3>1
    <2> QED  BY <2>16, <2>18, <2>19, <2>20
  <1> QED
    BY <1>12, <1>13

LEMMA MkfsStores ==
    ASSUME NEW d, Sane(d), Blank(d), Stored(d)
    PROVE  \E e : Stores(d, MkfsWrites(d), e)
PROOF
  <1> DEFINE c1 == [d.block[0] EXCEPT ![0] = Super]
             e1 == Apply(d, Blk(0, c1))
             s2 == {Root}
             e2 == Apply(e1, Imap(s2))
             s3 == 0..RESERVED - 1
             e3 == Apply(e2, Bmap(s3))
             r4 == NewInode("dir", ROOTBLOCK)
             e4 == Apply(e3, Ino(Root, r4))
             c5 == Dots(d.block[ROOTBLOCK], Root, Root)
             e5 == Apply(e4, Blk(ROOTBLOCK, c5))
  <1>0. d \in Card /\ d.block \in [Blocks -> [Cells -> CellT]]
    BY DEF Sane, Card
  <1>1. Named(d) = {} /\ FilesOf(d) = {} /\ -1 \notin Inodes
    <2>1. Named(d) = {}
      BY NamesApart DEF Blank, Named
    <2>2. FilesOf(d) = {}
      BY DEF Blank, Stored, Owns
    <2>3. -1 \notin Inodes
      BY Numbers
    <2> QED  BY <2>1, <2>2, <2>3
  <1>2. MkfsWrites(d) = <<Blk(0, c1), Imap(s2), Bmap(s3), Ino(Root, r4), Blk(ROOTBLOCK, c5)>>
    <2>1. d.block[0][0] # Super
      BY CellsTyped, Numbers DEF Blank
    <2> QED  BY <2>1 DEF MkfsWrites, c1, s2, s3, r4, c5
  <1>3. c1 \in [Cells -> CellT] /\ c1[0] = Super /\ \A j \in Cells : c1[j] = d.block[0][j] \/ c1[j].name \notin Names
    BY <1>0, CellsTyped, NamesApart, Numbers
  <1> HIDE DEF c1
  <1>4. Written(d, 0, c1, e1) /\ Blk(0, c1) \in Writes
    BY <1>0, <1>3, BlkWritten, Numbers
  <1> HIDE DEF e1
  <1>5. Stored(e1) /\ Intact(d, e1) /\ Named(e1) \subseteq Named(d) \cup {-1}
    BY <1>0, <1>1, <1>3, <1>4, StoredBlk, Numbers
  <1>6. /\ e1 \in Card /\ e1.inode = d.inode /\ e1.block[0][0] = Super
        /\ \A c \in Blocks \ {0} : e1.block[c] = d.block[c]
    BY <1>3, <1>4 DEF Written
  <1>7. Named(e1) = {} /\ FilesOf(e1) = {}
    BY <1>1, <1>5, <1>6 DEF Named, FilesOf
  <1>8. /\ e2 \in Card /\ e2.imap = s2 /\ e2.bmap = e1.bmap /\ e2.inode = d.inode /\ e2.block = e1.block
        /\ Imap(s2) \in Writes
    <2>1. s2 \in SUBSET Inodes
      BY Numbers
    <2> HIDE DEF s2
    <2> QED  BY <1>6, <2>1, ApplyImap, WritesTyped
  <1> HIDE DEF e2, s2
  <1>9. Stored(e2) /\ Intact(e1, e2)
    BY <1>5, <1>6, <1>7, <1>8, StoredMap
  <1>10. /\ e3 \in Card /\ e3.imap = s2 /\ e3.bmap = s3 /\ e3.inode = d.inode /\ e3.block = e1.block
         /\ Bmap(s3) \in Writes
    <2>1. s3 \in SUBSET Blocks
      BY Numbers
    <2> HIDE DEF s3
    <2> QED  BY <1>8, <2>1, ApplyBmap, WritesTyped
  <1> HIDE DEF e3, s3
  <1>11. Stored(e3) /\ Intact(e2, e3) /\ FilesOf(e3) = {} /\ Named(e3) = {}
    <2>1. FilesOf(e2) = {} /\ FilesOf(e3) = {} /\ Named(e3) = {}
      BY <1>6, <1>7, <1>8, <1>10 DEF FilesOf, Named
    <2>2. e3.inode = e2.inode /\ e3.block = e2.block /\ e2.block[0][0] = Super
      BY <1>6, <1>8, <1>10
    <2> QED  BY <1>8, <1>9, <1>10, <2>1, <2>2, StoredMap
  <1>12. r4 \in InodeT /\ r4.type = "dir"
    BY Numbers DEF NewInode, InodeT, Types
  <1> HIDE DEF r4
  <1>13. /\ e4 \in Card /\ e4.imap = e3.imap /\ e4.bmap = e3.bmap /\ e4.block = e3.block
         /\ e4.inode = [e3.inode EXCEPT ![Root] = r4] /\ Ino(Root, r4) \in Writes
    BY <1>10, <1>12, ApplyIno, WritesTyped, Numbers
  <1> HIDE DEF e4
  <1>14. Stored(e4) /\ Intact(e3, e4) /\ FilesOf(e4) = {}
    <2>1. Stored(e4) /\ Intact(e3, e4)
      BY <1>10, <1>11, <1>12, <1>13, StoredIno, Numbers
    <2>2. e4.inode[Root] = r4 /\ \A n \in Inodes \ {Root} : e4.inode[n] = e3.inode[n]
      BY <1>10, <1>13, Numbers DEF Card
    <2> QED  BY <1>11, <1>12, <2>1, <2>2 DEF FilesOf
  <1>15. c5 \in [Cells -> CellT] /\ \A j \in Cells : c5[j] = e4.block[ROOTBLOCK][j] \/ c5[j].name \notin Names
    <2>1. c5 = Dots(e4.block[ROOTBLOCK], Root, Root)
      BY <1>6, <1>10, <1>13, Numbers
    <2> HIDE DEF c5
    <2>2. c5 \in [Cells -> CellT] /\ AddsNone(e4, ROOTBLOCK, c5)
      BY <1>13, <2>1, DotsFacts, Numbers
    <2> QED  BY <2>2 DEF AddsNone
  <1> HIDE DEF c5
  <1>16. Written(e4, ROOTBLOCK, c5, e5) /\ Blk(ROOTBLOCK, c5) \in Writes
    BY <1>13, <1>15, BlkWritten, Numbers
  <1> HIDE DEF e5
  <1>17. Stored(e5) /\ Intact(e4, e5)
    BY <1>1, <1>13, <1>14, <1>15, <1>16, StoredBlk, Numbers
  <1> DEFINE wa == <<Blk(0, c1)>>
             wb == <<Blk(0, c1), Imap(s2)>>
             wc == <<Blk(0, c1), Imap(s2), Bmap(s3)>>
             wd == <<Blk(0, c1), Imap(s2), Bmap(s3), Ino(Root, r4)>>
             we == <<Blk(0, c1), Imap(s2), Bmap(s3), Ino(Root, r4), Blk(ROOTBLOCK, c5)>>
  <1>18. Stores(d, wa, e1)
    <2>1. Stores(d, Append(<<>>, Blk(0, c1)), e1)
      BY <1>0, <1>4, <1>5, StoresNowhere, StoresOn DEF e1
    <2> QED  BY <2>1
  <1>19. Stores(d, wb, e2)
    <2>1. Append(wa, Imap(s2)) = wb
      BY <1>4, <1>8, Append2
    <2> HIDE DEF wa, wb
    <2>2. Stores(d, Append(wa, Imap(s2)), e2)
      BY <1>0, <1>8, <1>9, <1>18, StoresOn DEF e2
    <2> QED  BY <2>1, <2>2
  <1>20. Stores(d, wc, e3)
    <2>1. Append(wb, Bmap(s3)) = wc
      BY <1>4, <1>8, <1>10, Append3
    <2> HIDE DEF wb, wc
    <2>2. Stores(d, Append(wb, Bmap(s3)), e3)
      BY <1>0, <1>10, <1>11, <1>19, StoresOn DEF e3
    <2> QED  BY <2>1, <2>2
  <1>21. Stores(d, wd, e4)
    <2>1. Append(wc, Ino(Root, r4)) = wd
      BY <1>4, <1>8, <1>10, <1>13, Append4
    <2> HIDE DEF wc, wd
    <2>2. Stores(d, Append(wc, Ino(Root, r4)), e4)
      BY <1>0, <1>13, <1>14, <1>20, StoresOn DEF e4
    <2> QED  BY <2>1, <2>2
  <1>22. Stores(d, we, e5)
    <2>1. Append(wd, Blk(ROOTBLOCK, c5)) = we
      BY <1>4, <1>8, <1>10, <1>13, <1>16, Append5
    <2> HIDE DEF wd, we
    <2>2. Stores(d, Append(wd, Blk(ROOTBLOCK, c5)), e5)
      BY <1>0, <1>16, <1>17, <1>21, StoresOn DEF e5
    <2> QED  BY <2>1, <2>2
  <1> QED
    BY <1>2, <1>22

\* Cells that are those of block B but for the p-th, which the download task writes next.
NextCell(d, B, c, p) == c[p].name = Plane[p + 1] /\ \A k \in Cells \ {p} : c[k] = d.block[B][k]

\* One more cell of a file is written.
LEMMA StoredCell ==
    ASSUME NEW d \in Card, Stored(d), NEW n \in FilesOf(d), NEW p \in Cells, Plane[p + 1] \notin Names,
           NEW b, b = d.inode[n].block, NEW c, NextCell(d, b, c, p), NEW e, Written(d, b, c, e)
    PROVE  Stored(e) /\ FilesOf(e) = FilesOf(d) /\ Named(e) \subseteq Named(d)
PROOF
  <1>0. /\ b \in Blocks \ {0} /\ n \in Inodes /\ d.inode[n].type = "file" /\ Owns(d, n) /\ Holds(d, n)
        /\ \A m \in Inodes : d.inode[m].block \in Blocks
    BY DEF FilesOf, Card, InodeT, Stored
  <1>1. /\ e \in Card /\ e.imap = d.imap /\ e.bmap = d.bmap /\ e.inode = d.inode
        /\ e.block[b] = c /\ \A a \in Blocks \ {b} : e.block[a] = d.block[a]
    BY DEF Written
  <1>2. c[p].name = Plane[p + 1] /\ \A k \in Cells \ {p} : c[k] = d.block[b][k]
    BY DEF NextCell
  <1>3. FilesOf(e) = FilesOf(d) /\ FilesOf(d) \subseteq Inodes
    BY <1>1 DEF FilesOf
  <1>4. Named(e) \subseteq Named(d) /\ Named(d) \subseteq Inodes
    <2>1. ASSUME NEW a \in Blocks, NEW k \in Cells, e.block[a][k].name \in Names PROVE e.block[a][k] = d.block[a][k]
      <3>1. CASE a = b
        <4>1. k # p
          BY <1>1, <1>2, <2>1, <3>1
        <4> QED  BY <1>1, <1>2, <3>1, <4>1
      <3>2. CASE a # b
        BY <1>1, <3>2
      <3> QED  BY <3>1, <3>2
    <2> QED  BY <2>1 DEF Named
  <1>5. ASSUME NEW m \in FilesOf(d) PROVE Owns(e, m) /\ Holds(e, m)
    <2>1. Owns(d, m) /\ Holds(d, m)
      BY <1>5 DEF Stored
    <2>2. Owns(e, m)
      BY <1>1, <1>3, <1>4, <2>1 DEF Owns, Using
    <2>3. CASE m # n
      <3>1. d.inode[m].block # b
        BY <1>0, <1>5, <2>3 DEF Owns, Using
      <3>2. d.inode[m].block \in Blocks \ {b}
        BY <1>0, <1>3, <1>5, <3>1
      <3>3. e.inode[m] = d.inode[m] /\ e.block[d.inode[m].block] = d.block[d.inode[m].block]
        BY <1>1, <3>2
      <3>4. Holds(e, m)
        BY <2>1, <3>3 DEF Holds
      <3> QED  BY <2>2, <3>4
    <2>4. CASE m = n
      <3>1. ASSUME NEW k \in 1..NCELL, k <= d.inode[n].size PROVE c[k - 1].name = Plane[k]
        <4>0. NCELL \in Nat
          BY FileSysAssumption
        <4>1. k - 1 \in Cells /\ NCELL \in Nat /\ k - 1 + 1 = k
          BY <4>0 DEF Cells
        <4>2. CASE k - 1 = p
          BY <1>2, <4>1, <4>2
        <4>3. CASE k - 1 # p
          BY <1>0, <1>2, <3>1, <4>1, <4>3 DEF Holds
        <4> QED  BY <4>2, <4>3
      <3> QED  BY <1>1, <2>2, <2>4, <3>1 DEF Holds
    <2> QED  BY <2>3, <2>4
  <1>6. Selfless(e)
    <2> SUFFICES ASSUME NEW m \in Named(d), NEW j \in Cells, d.inode[m].type = "dir",
                        e.block[d.inode[m].block][j].name \in Names, e.block[d.inode[m].block][j].id = m
                 PROVE  FALSE
      BY <1>1, <1>4 DEF Selfless
    <2>1. m # n /\ d.inode[m].block # b /\ d.inode[m].block \in Blocks
      BY <1>0, <1>4 DEF Owns, Using
    <2>2. e.block[d.inode[m].block] = d.block[d.inode[m].block]
      BY <1>1, <2>1
    <2>3. Selfless(d)
      BY DEF Stored
    <2> QED  BY <2>2, <2>3 DEF Selfless
  <1>7. Magic(e)
    BY <1>0, <1>1, Numbers DEF Stored, Magic
  <1>8. \A m \in Named(e) : e.inode[m].block # 0
    BY <1>1, <1>4 DEF Stored
  <1> QED
    BY <1>3, <1>4, <1>5, <1>6, <1>7, <1>8 DEF Stored

\* The first v cells of a file are what the download task writes.
HoldsTo(d, n, v) == \A k \in 1..NCELL : k <= v => d.block[d.inode[n].block][k - 1].name = Plane[k]

\* The size of a file is written.
LEMMA StoredSize ==
    ASSUME NEW d \in Card, Stored(d), NEW n \in FilesOf(d), NEW r \in InodeT,
           r.type = d.inode[n].type, r.block = d.inode[n].block, HoldsTo(d, n, r.size),
           NEW e \in Card, e.imap = d.imap, e.bmap = d.bmap, e.block = d.block,
           e.inode = [d.inode EXCEPT ![n] = r]
    PROVE  /\ Stored(e) /\ FilesOf(e) = FilesOf(d) /\ Named(e) = Named(d)
           /\ \A m \in Inodes : e.inode[m].type = d.inode[m].type /\ e.inode[m].block = d.inode[m].block
PROOF
  <1>0. n \in Inodes /\ d.inode[n] \in InodeT /\ d.inode \in [Inodes -> InodeT] /\ Named(d) \subseteq Inodes
    BY DEF FilesOf, Card, Named
  <1>1. r.type = d.inode[n].type /\ r.block = d.inode[n].block
    OBVIOUS
  <1>2. e.inode[n] = r /\ \A m \in Inodes \ {n} : e.inode[m] = d.inode[m]
    BY <1>0
  <1>3. \A m \in Inodes : e.inode[m].type = d.inode[m].type /\ e.inode[m].block = d.inode[m].block
    BY <1>1, <1>2
  <1>4. FilesOf(e) = FilesOf(d) /\ Named(e) = Named(d) /\ Using(e) = Using(d) /\ Using(d) \subseteq Inodes
    BY <1>0, <1>3 DEF FilesOf, Named, Using
  <1>5. ASSUME NEW m \in FilesOf(d) PROVE Owns(e, m) /\ Holds(e, m)
    <2>1. Owns(d, m) /\ Holds(d, m) /\ m \in Inodes
      BY <1>5 DEF Stored, FilesOf
    <2>2. Owns(e, m)
      BY <1>3, <1>4, <2>1 DEF Owns
    <2>3. CASE m = n
      <3>1. e.inode[m].size = r.size /\ e.inode[m].block = d.inode[n].block /\ e.block[d.inode[n].block] = d.block[d.inode[n].block]
        BY <1>1, <1>2, <2>3
      <3>2. Holds(e, m)
        BY <3>1 DEF Holds, HoldsTo
      <3> QED  BY <2>2, <3>2
    <2>4. CASE m # n
      BY <1>2, <2>1, <2>2, <2>4 DEF Holds
    <2> QED  BY <2>3, <2>4
  <1>6. Selfless(e) /\ Magic(e)
    BY <1>0, <1>3, <1>4 DEF Stored, Selfless, Magic
  <1>7. \A m \in Named(e) : e.inode[m].block # 0
    BY <1>0, <1>3, <1>4 DEF Stored
  <1> QED
    BY <1>1, <1>2, <1>3, <1>4, <1>5, <1>6, <1>7 DEF Stored

\* The maps, and what is in use for what, are as they were.
SameUse(d, e) == /\ e.imap = d.imap /\ e.bmap = d.bmap /\ FilesOf(e) = FilesOf(d) /\ Named(e) \subseteq Named(d)
                 /\ \A m \in Inodes : e.inode[m].type = d.inode[m].type /\ e.inode[m].block = d.inode[m].block

LEMMA SameWorking ==
    ASSUME NEW d, NEW e, SameUse(d, e), NEW p, Working(d, p)
    PROVE  Working(e, p)
PROOF
  <1>1. Using(e) \subseteq Using(d) /\ Using(d) \subseteq Inodes
    BY DEF SameUse, Using, Named, FilesOf
  <1> QED
    BY <1>1 DEF SameUse, Working

\* The first p cells of file n are what the download task writes.
Reads(d, n, p) == \A k \in 1..p : d.block[d.inode[n].block][k - 1].name = Plane[k]
\* Writes that leave file n with v cells to count and p to read, and disturb nothing.
Lengthens(d, ws, n, p, v, e) ==
    /\ ws \in Seq(Writes) /\ After(d, ws) = e /\ SameUse(d, e)
    /\ \A k \in 0..Len(ws) : Stored(Done(d, ws, k)) /\ FilesOf(Done(d, ws, k)) = FilesOf(d)
    /\ e.inode[n].size = v /\ Reads(e, n, p)

LEMMA FwriteStores ==
    ASSUME NEW d, Sane(d), Stored(d), NEW n \in FilesOf(d), NEW p \in Cells,
           NEW x \in ToSet(Plane), x = Plane[p + 1], x \notin Names, NEW sized \in BOOLEAN,
           Reads(d, n, p),
           NEW ws, ws = FileWrites(d, FALSE, d.inode[n].block, p, x, sized, n, p + 1)
    PROVE  \E e : Lengthens(d, ws, n, p + 1, IF sized THEN p + 1 ELSE d.inode[n].size, e)
PROOF
  <1> DEFINE b  == d.inode[n].block
             y  == Cell(x, 0, "file")
             c1 == [d.block[b] EXCEPT ![p] = y]
             e1 == Apply(d, Blk(b, c1))
             r2 == [d.inode[n] EXCEPT !.size = p + 1]
             e2 == Apply(e1, Ino(n, r2))
             w1 == <<Blk(b, c1)>>
             w2 == <<Blk(b, c1), Ino(n, r2)>>
  <1>0. /\ d \in Card /\ n \in Inodes /\ Fits(n) /\ b \in Blocks /\ d.inode[n] \in InodeT
        /\ d.block[b] \in [Cells -> CellT] /\ ReadInode(d, n) = d.inode[n] /\ p \in Nat /\ p < NCELL /\ NCELL \in Nat
    <2>1. d \in Card /\ n \in Inodes /\ Fits(n)
      BY DEF Sane, FilesOf, Stored, Owns
    <2>2. d.inode[n] \in InodeT /\ ReadInode(d, n) = d.inode[n]
      BY <2>1 DEF Card, ReadInode
    <2>3. NCELL \in Nat
      BY FileSysAssumption
    <2> QED  BY <2>1, <2>2, <2>3 DEF Card, InodeT, Cells
  <1>1. ws = IF sized THEN w2 ELSE w1
    BY <1>0 DEF FileWrites
  <1>2. y \in CellT /\ y.name = x
    BY CellsTyped
  <1> HIDE DEF y
  <1>3. c1 \in [Cells -> CellT]
    BY <1>0, <1>2
  <1>4. Written(d, b, c1, e1) /\ Blk(b, c1) \in Writes
    <2> HIDE DEF b, c1
    <2> QED  BY <1>0, <1>3, BlkWritten
  <1> HIDE DEF e1
  <1>5. NextCell(d, b, c1, p)
    <2> HIDE DEF b
    <2> QED  BY <1>0, <1>2 DEF NextCell
  <1> HIDE DEF c1
  <1>11. Stored(e1) /\ FilesOf(e1) = FilesOf(d) /\ Named(e1) \subseteq Named(d)
    <2>1. Plane[p + 1] \notin Names /\ b = d.inode[n].block
      BY DEF b
    <2> HIDE DEF b
    <2> QED  BY <1>0, <1>4, <1>5, <2>1, StoredCell
  <1>6. e1 \in Card /\ e1.imap = d.imap /\ e1.bmap = d.bmap /\ e1.inode = d.inode /\ e1.block[b] = c1
    BY <1>4 DEF Written
  <1>7. \A k \in 1..p + 1 : e1.block[b][k - 1].name = Plane[k]
    <2> TAKE k \in 1..p + 1
    <2>1. CASE k = p + 1
      BY <1>0, <1>5, <1>6, <2>1 DEF NextCell
    <2>2. CASE k # p + 1
      <3>1. k \in 1..p /\ k - 1 \in Cells \ {p}
        BY <1>0, <2>2 DEF Cells
      <3> QED  BY <1>5, <1>6, <3>1 DEF NextCell, Reads
    <2> QED  BY <2>1, <2>2
  <1>8. Done(d, w1, 0) = d /\ Done(d, w1, 1) = e1 /\ w1 \in Seq(Writes) /\ Len(w1) = 1
    <2>1. w1 \in Seq(Writes) /\ Len(w1) = 1 /\ w1[1] = Blk(b, c1) /\ 1 \in 1..Len(w1) /\ 1 - 1 = 0
      BY <1>4
    <2> HIDE DEF w1
    <2>2. Done(d, w1, 0) = d /\ Done(d, w1, 1) = Apply(Done(d, w1, 1 - 1), w1[1])
      BY <1>0, <2>1, DoneFacts
    <2> QED  BY <2>1, <2>2 DEF e1
  <1>9. CASE ~sized
    <2> HIDE DEF w1, w2
    <2>1. ws = w1 /\ \A k \in 0..Len(w1) : k = 0 \/ k = 1
      <3>1. ws = w1
        BY <1>1, <1>9
      <3>2. \A k \in 0..Len(w1) : k = 0 \/ k = 1
        BY <1>8
      <3> QED  BY <3>1, <3>2
    <2>2. After(d, ws) = e1 /\ \A k \in 0..Len(ws) : Stored(Done(d, ws, k)) /\ FilesOf(Done(d, ws, k)) = FilesOf(d)
      BY <1>11, <1>8, <2>1 DEF After
    <2>3. SameUse(d, e1)
      BY <1>11, <1>6 DEF SameUse
    <2>4. e1.inode[n].size = d.inode[n].size /\ ws \in Seq(Writes)
      BY <1>6, <1>8, <2>1
    <2>5. Reads(e1, n, p + 1)
      BY <1>6, <1>7 DEF Reads, b
    <2> HIDE DEF e1
    <2> QED  BY <1>9, <2>2, <2>3, <2>4, <2>5 DEF Lengthens
  <1>10. CASE sized
    <2>1. r2 \in InodeT
      BY <1>0 DEF InodeT
    <2>2. Ino(n, r2) \in Writes
      BY <1>0, <2>1, WritesTyped
    <2>3. /\ e2 \in Card /\ e2.imap = e1.imap /\ e2.bmap = e1.bmap /\ e2.block = e1.block
          /\ e2.inode = [e1.inode EXCEPT ![n] = r2]
      <3> HIDE DEF r2
      <3> QED  BY <1>0, <1>6, <2>1, ApplyIno
    <2> HIDE DEF e2
    <2>4. /\ Stored(e2) /\ FilesOf(e2) = FilesOf(e1) /\ Named(e2) = Named(e1) /\ e2.inode[n].size = p + 1
          /\ \A m \in Inodes : e2.inode[m].type = e1.inode[m].type /\ e2.inode[m].block = e1.inode[m].block
      <3>1. \A k \in 1..NCELL : k <= p + 1 => e1.block[e1.inode[n].block][k - 1].name = Plane[k]
        BY <1>0, <1>6, <1>7
      <3>2. r2 = [e1.inode[n] EXCEPT !.size = p + 1] /\ n \in FilesOf(e1) /\ p + 1 \in Int
        BY <1>0, <1>11, <1>6
      <3> DEFINE v == p + 1
      <3>5. r2.type = e1.inode[n].type /\ r2.block = e1.inode[n].block /\ r2.size = v
        BY <1>0, <1>6 DEF InodeT
      <3>3. v \in Int /\ HoldsTo(e1, n, v)
        BY <3>1, <3>2 DEF HoldsTo
      <3> HIDE DEF r2, v, b
      <3>4. /\ Stored(e2) /\ FilesOf(e2) = FilesOf(e1) /\ Named(e2) = Named(e1) /\ e2.inode[n].size = v
            /\ \A m \in Inodes : e2.inode[m].type = e1.inode[m].type /\ e2.inode[m].block = e1.inode[m].block
        <4>1. e1 \in Card /\ Stored(e1) /\ n \in FilesOf(e1) /\ HoldsTo(e1, n, r2.size)
          BY <1>11, <1>6, <3>2, <3>3, <3>5
        <4>2. r2 \in InodeT /\ r2.type = e1.inode[n].type /\ r2.block = e1.inode[n].block
          BY <2>1, <3>5
        <4>3. /\ e2 \in Card /\ e2.imap = e1.imap /\ e2.bmap = e1.bmap /\ e2.block = e1.block
              /\ e2.inode = [e1.inode EXCEPT ![n] = r2]
          BY <2>3
        <4>4. /\ Stored(e2) /\ FilesOf(e2) = FilesOf(e1) /\ Named(e2) = Named(e1) /\ e2.inode[n] = r2
              /\ \A m \in Inodes : e2.inode[m].type = e1.inode[m].type /\ e2.inode[m].block = e1.inode[m].block
          <5>1. e2.inode[n] = r2
            BY <1>0, <4>1, <4>3 DEF Card
          <5> QED  BY <4>1, <4>2, <4>3, <5>1, StoredSize
        <4> QED  BY <3>5, <4>4
      <3> QED  BY <3>4 DEF v
    <2>5. Done(d, w2, 0) = d /\ Done(d, w2, 1) = e1 /\ Done(d, w2, 2) = e2 /\ w2 \in Seq(Writes) /\ Len(w2) = 2
      <3>1. /\ w2 \in Seq(Writes) /\ Len(w2) = 2 /\ w2[1] = Blk(b, c1) /\ w2[2] = Ino(n, r2)
            /\ 1 \in 1..Len(w2) /\ 2 \in 1..Len(w2) /\ 1 - 1 = 0 /\ 2 - 1 = 1
        BY <1>4, <2>2
      <3> HIDE DEF w2
      <3>2. Done(d, w2, 0) = d /\ Done(d, w2, 1) = Apply(Done(d, w2, 1 - 1), w2[1])
            /\ Done(d, w2, 2) = Apply(Done(d, w2, 2 - 1), w2[2])
        BY <1>0, <3>1, DoneFacts
      <3> QED  BY <3>1, <3>2 DEF e1, e2
    <2> HIDE DEF w1, w2
    <2>6. ws = w2 /\ \A k \in 0..Len(w2) : k = 0 \/ k = 1 \/ k = 2
      <3>1. ws = w2
        BY <1>1, <1>10
      <3>2. \A k \in 0..Len(w2) : k = 0 \/ k = 1 \/ k = 2
        BY <2>5
      <3> QED  BY <3>1, <3>2
    <2>7. After(d, ws) = e2 /\ \A k \in 0..Len(ws) : Stored(Done(d, ws, k)) /\ FilesOf(Done(d, ws, k)) = FilesOf(d)
      BY <1>11, <2>4, <2>5, <2>6 DEF After
    <2>8. SameUse(d, e2)
      BY <1>11, <1>6, <2>3, <2>4 DEF SameUse
    <2>9. e2.inode[n].block = b
      BY <1>0, <1>6, <2>4 DEF b
    <2>10. Reads(e2, n, p + 1)
      BY <1>7, <2>3, <2>9 DEF Reads
    <2>11. ws \in Seq(Writes) /\ e2.inode[n].size = p + 1
      BY <2>4, <2>5, <2>6
    <2> QED  BY <1>10, <2>7, <2>8, <2>10, <2>11 DEF Lengthens
  <1> QED
    BY <1>9, <1>10

---------------------------------------------------------------------------
(* What the tasks wrote is there.                                          *)

\* After these events what was written may be lost.
Losses == {"mkfs", "zero", "over", "unfit", "big", "shared", "astray"}

\* At every single write the files are stored, the one written to among them.
Lasting(d, ws, s) == \A k \in 0..Len(ws) :
    Stored(Done(d, ws, k)) /\ (s.cells # <<>> => s.inode \in FilesOf(Done(d, ws, k)))
\* The download task writes its cells in order.
InOrder(s) == Len(s.cells) <= NCELL /\ \A k \in 1..Len(s.cells) : s.cells[k] = Plane[k]
\* The size of the file covers what was written.
Covers(d, s) == Len(s.cells) <= d.inode[s.inode].size
\* The open file is the one that is written to, and has what was written.
Session(d, f, s) == /\ s.inode \in FilesOf(d) /\ f.inode = s.inode /\ f.direct[0] = d.inode[s.inode].block
                    /\ f.w_ptr = Len(s.cells) /\ f.size <= d.inode[s.inode].size
                    /\ Reads(d, s.inode, Len(s.cells))

KeptGood == /\ Lasting(disk, pending, saved) /\ InOrder(saved)
            /\ Working(After(disk, pending), path_inode)
            /\ saved.cells # <<>> /\ Unless({"cut"}) => Covers(After(disk, pending), saved)
            /\ users > 0 => Session(After(disk, pending), file, saved)
KeptInv == Unless(Losses) => "again" \notin harm /\ KeptGood

\* Between calls it is the card itself that matters.
LEMMA QuietKept ==
    ASSUME FGood, KeptGood, pending = <<>>
    PROVE  /\ disk \in Card /\ Stored(disk) /\ (saved.cells # <<>> => saved.inode \in FilesOf(disk)) /\ InOrder(saved)
           /\ Working(disk, path_inode) /\ (saved.cells # <<>> /\ Unless({"cut"}) => Covers(disk, saved))
           /\ users > 0 => Session(disk, file, saved)
PROOF
  <1>1. disk \in Card
    BY DEF FGood
  <1>2. After(disk, pending) = disk
    BY <1>1, LeadsNowhere, QuietFacts DEF Leads
  <1>3. Len(pending) = 0 /\ 0 \in 0..Len(pending) /\ Done(disk, pending, 0) = disk
    BY <1>2 DEF After
  <1> QED
    BY <1>1, <1>2, <1>3 DEF KeptGood, Lasting

\* A call that leaves the files as they are.
LEMMA KeptOn ==
    ASSUME FGood, KeptGood, pending = <<>>, disk' = disk, saved' = saved, file' = file, users' > 0 => users > 0,
           harm \subseteq harm', NEW e, Stores(disk, pending', e), Working(e, path_inode')
    PROVE  KeptGood'
PROOF
  <1>1. /\ Stored(disk) /\ (saved.cells # <<>> => saved.inode \in FilesOf(disk)) /\ InOrder(saved)
        /\ (saved.cells # <<>> /\ Unless({"cut"}) => Covers(disk, saved))
        /\ users > 0 => Session(disk, file, saved)
    BY QuietKept
  <1>2. /\ pending' \in Seq(Writes) /\ After(disk, pending') = e
        /\ \A k \in 0..Len(pending') : Stored(Done(disk, pending', k)) /\ Intact(disk, Done(disk, pending', k))
    BY DEF Stores
  <1>3. Intact(disk, e)
    <2>1. Len(pending') \in 0..Len(pending')
      BY <1>2
    <2> QED  BY <1>2, <2>1 DEF After
  <1>4. Lasting(disk, pending', saved)
    BY <1>1, <1>2 DEF Lasting, Intact
  <1>5. saved.cells # <<>> /\ Unless({"cut"})' => Covers(e, saved)
    <2>1. Unless({"cut"})' => Unless({"cut"})
      BY DEF Unless
    <2> QED  BY <1>1, <1>3, <2>1 DEF Covers, Intact
  <1>6. users > 0 => Session(e, file, saved)
    BY <1>1, <1>3 DEF Session, Reads, Intact
  <1> QED
    BY <1>1, <1>2, <1>4, <1>5, <1>6 DEF KeptGood

LEMMA InitKept ==
    ASSUME Init
    PROVE  KeptGood
PROOF
  <1>1. disk \in Card /\ pending = <<>> /\ saved.cells = <<>> /\ users = 0 /\ path_inode = Root /\ disk.imap = {}
        /\ FGood /\ Ready(disk, users, file, shell)
    BY InitGood, QuietFacts DEF Init
  <1>2. Named(disk) = {} /\ FilesOf(disk) = {}
    <2>1. Named(disk) = {}
      BY <1>1, NamesApart DEF Ready, Settled, Blank, Named
    <2>2. \A n \in Inodes : disk.inode[n].block = 0
      BY DEF Init, ZeroInode
    <2> QED  BY <2>1, <2>2 DEF FilesOf
  <1>3. Stored(disk)
    BY <1>1, <1>2 DEF Stored, Selfless, Magic
  <1>4. Done(disk, <<>>, 0) = disk /\ \A k \in 0..Len(<<>>) : k = 0
    BY <1>1, DoneNone
  <1>5. Lasting(disk, pending, saved)
    BY <1>1, <1>3, <1>4 DEF Lasting
  <1>6. InOrder(saved)
    <2>1. NCELL \in Nat
      BY FileSysAssumption
    <2> QED  BY <1>1, <2>1 DEF InOrder
  <1> QED
    BY <1>1, <1>5, <1>6 DEF KeptGood, Working

LEMMA CardWriteKept ==
    ASSUME FGood, KeptGood, CardWrite
    PROVE  KeptGood'
PROOF
  <1>1. /\ pending # <<>> /\ disk' = Apply(disk, Head(pending)) /\ pending' = Tail(pending)
        /\ UNCHANGED <<path_inode, file, users, saved, harm>>
    BY DEF CardWrite
  <1>2. disk \in Card /\ pending \in Seq(Writes)
    BY DEF FGood, Leads
  <1>3. /\ Len(pending') = Len(pending) - 1
        /\ \A k \in 0..Len(pending) - 1 : Done(disk', pending', k) = Done(disk, pending, k + 1)
    BY <1>1, <1>2, DoneShift
  <1>4. Len(pending) \in Nat /\ Len(pending) >= 1 /\ \A k \in 0..Len(pending) - 1 : k + 1 \in 0..Len(pending)
    BY <1>1, <1>2
  <1>5. After(disk', pending') = After(disk, pending)
    BY <1>3, <1>4 DEF After
  <1>6. Lasting(disk', pending', saved)
    BY <1>3, <1>4 DEF KeptGood, Lasting
  <1> QED
    BY <1>1, <1>5, <1>6 DEF KeptGood, Unless

\* What was written before a restart is there after it.
LEMMA RestartKept ==
    ASSUME FGood, KeptGood, Restart, Unless(Losses)'
    PROVE  KeptGood'
PROOF
  <1>1. /\ pending' = <<>> /\ path_inode' = Root /\ users' = 0 /\ UNCHANGED <<disk, saved>> /\ harm \subseteq harm'
        /\ pending # <<>> => harm' = harm \cup {IF RootMade(disk) THEN "cut" ELSE "mkfs"}
    BY DEF Restart
  <1>2. disk \in Card /\ pending \in Seq(Writes)
    BY DEF FGood, Leads
  <1>3. Done(disk, pending, 0) = disk /\ 0 \in 0..Len(pending)
    BY <1>2, DoneFacts
  <1>4. Stored(disk) /\ (saved.cells # <<>> => saved.inode \in FilesOf(disk))
    BY <1>3 DEF KeptGood, Lasting
  <1>5. After(disk, <<>>) = disk /\ Done(disk, <<>>, 0) = disk /\ \A k \in 0..Len(<<>>) : k = 0
    BY <1>2, DoneNone
  <1>6. Lasting(disk, <<>>, saved)
    BY <1>4, <1>5 DEF Lasting
  <1>7. pending # <<>> => "cut" \in harm'
    BY <1>1 DEF Unless, Losses
  <1>8. saved.cells # <<>> /\ Unless({"cut"})' => Covers(disk, saved)
    BY <1>1, <1>5, <1>7 DEF KeptGood, Unless
  <1> QED
    BY <1>1, <1>5, <1>6, <1>8 DEF KeptGood, Working

\* mkfs of a card in use does nothing.
LEMMA MkfsKept ==
    ASSUME FGood, KeptGood, Mkfs, "again" \notin harm
    PROVE  KeptGood' /\ "again" \notin harm'
PROOF
  <1>1. /\ pending = <<>> /\ pending' = MkfsWrites(disk) /\ UNCHANGED <<disk, path_inode, file, users, saved>>
        /\ harm' = IF Root \in disk.imap /\ pending' # <<>> THEN harm \cup {"again"} ELSE harm
    BY DEF Mkfs
  <1>2. disk \in Card /\ Stored(disk) /\ Working(disk, path_inode) /\ Sane(disk) /\ Ready(disk, users, file, shell)
    BY <1>1, QuietFacts, QuietKept
  <1>3. Root \in disk.imap => pending' = <<>>
    BY <1>1, <1>2 DEF Stored, Magic, MkfsWrites
  <1>4. harm' = harm
    BY <1>1, <1>3
  <1>5. CASE pending' = <<>>
    BY <1>1, <1>2, <1>4, <1>5, StoresNowhere, KeptOn
  <1>6. CASE pending' # <<>>
    <2>1. Blank(disk)
      BY <1>2, <1>3, <1>6 DEF Ready, Settled
    <2>2. PICK e : Stores(disk, pending', e)
      BY <1>1, <1>2, <2>1, MkfsStores
    <2>3. Working(e, path_inode)
      BY <1>2, <2>1 DEF Working, Blank
    <2> QED  BY <1>1, <1>4, <2>2, <2>3, KeptOn
  <1> QED
    BY <1>4, <1>5, <1>6

\* The shell does not leave the directories that have an entry.
LEMMA CdKept ==
    ASSUME FGood, KeptGood, Cd, Unless(Losses)'
    PROVE  KeptGood'
PROOF
  <1> DEFINE dir == Locate(disk, IF shell.abs THEN Root ELSE path_inode, inst_path)
  <1>1. /\ Called("cd") /\ UNCHANGED <<disk, pending, file, users, saved>>
        /\ dir = -1 => path_inode' = path_inode /\ harm' = harm
        /\ dir # -1 => path_inode' = dir /\ harm' = IF Standing(disk, dir) THEN harm ELSE harm \cup {"astray"}
    BY DEF Cd
  <1>2. /\ Sane(disk) /\ disk \in Card /\ Settled(disk) /\ pending = <<>>
        /\ path_inode \in Inodes /\ inst_path \in Seq(STRING \cup Names)
    BY <1>1, CalledFacts DEF FGood, TypedMemory
  <1>3. Stored(disk) /\ Working(disk, path_inode)
    BY <1>2, QuietKept
  <1>4. dir \in Inodes \cup {-1}
    <2>1. (IF shell.abs THEN Root ELSE path_inode) \in Inodes
      BY <1>2, Numbers
    <2> QED  BY <1>2, <2>1, LocateFacts
  <1> HIDE DEF dir
  <1>5. Working(disk, path_inode')
    <2>1. CASE dir = -1 \/ dir = Root
      BY <1>1, <1>3, <2>1 DEF Working
    <2>2. CASE dir # -1 /\ dir # Root
      <3>1. dir \in Inodes /\ path_inode' = dir /\ Standing(disk, dir)
        BY <1>1, <1>4, <2>2 DEF Unless, Losses
      <3>2. PICK b \in Blocks, j \in Cells : /\ disk.block[b][j].name \in Names /\ disk.block[b][j].id = dir
                                             /\ disk.block[b][j].type = "dir"
        BY <2>2, <3>1 DEF Standing
      <3>3. dir \in Named(disk)
        BY <3>1, <3>2 DEF Named
      <3>4. /\ dir \in disk.imap /\ Fits(dir) /\ disk.inode[dir].type = "dir"
            /\ disk.inode[dir].block \in disk.bmap \ {0, ROOTBLOCK}
        BY <1>2, <3>2, <3>3 DEF Sane, NamedExist, NamedTyped, Held
      <3>5. \A m \in Using(disk) \ {dir} : disk.inode[m].block # disk.inode[dir].block
        BY <1>2, <1>3, <3>3 DEF Sane, NamedApart, Stored, Owns, Using
      <3> QED  BY <3>1, <3>4, <3>5 DEF Working
    <2> QED  BY <2>1, <2>2
  <1>6. harm \subseteq harm' /\ Stores(disk, pending', disk)
    BY <1>1, <1>2, <1>3, <1>4, StoresNowhere
  <1> QED
    BY <1>1, <1>2, <1>5, <1>6, KeptOn

\* The calls that write nothing.
LEMMA StillKept ==
    ASSUME FGood, KeptGood, Parse \/ Fclose
    PROVE  KeptGood'
PROOF
  <1>1. pending = <<>> /\ UNCHANGED <<disk, pending, path_inode, file, saved, harm>> /\ (users' > 0 => users > 0)
    BY DEF Parse, Fclose
  <1>2. Stores(disk, pending', disk) /\ Working(disk, path_inode')
    BY <1>1, QuietKept, StoresNowhere
  <1> QED
    BY <1>1, <1>2, KeptOn

LEMMA CreateKept ==
    ASSUME NEW d, Sane(d), Settled(d), Stored(d), d.imap # Inodes, d.bmap # Blocks, NEW dir, Working(d, dir),
           NEW name \in Names, NEW type \in Types, CreateHarms(d, dir, type) \cap Losses = {}
    PROVE  \E e : /\ Stores(d, Create(d, dir, name, type), e) /\ Working(e, dir)
                  /\ Made(d, e, Create(d, dir, name, type), dir, name, type) /\ Created(d, e, type) /\ 0 \in d.bmap
PROOF
  <1>1. Fits(FirstFree(d.imap, Inodes)) /\ 0 \in d.bmap
    BY DEF CreateHarms, Losses
  <1>2. PICK f : Stores(d, Create(d, dir, name, type), f)
    BY <1>1, CreateStores
  <1>3. dir \in Inodes /\ dir \in d.imap /\ Fits(dir) /\ d.inode[dir].block \in d.bmap
    BY WorkingFacts DEF Sane
  <1>4. PICK e : /\ Leads(d, Create(d, dir, name, type), e) /\ Created(d, e, type)
                 /\ LeadsBy({FirstFree(d.bmap, Blocks)}, d, Create(d, dir, name, type), e)
                 /\ Made(d, e, Create(d, dir, name, type), dir, name, type)
    BY <1>1, <1>3, CreateLeads
  <1>5. e = f
    BY <1>2, <1>4 DEF Leads, Stores
  <1> QED
    BY <1>1, <1>2, <1>4, <1>5, CreateWorks

LEMMA MakeKept ==
    ASSUME FGood, KeptGood, NEW op \in {"mkdir", "touch"}, NEW type \in Types, Make(op, type), Unless(Losses)'
    PROVE  KeptGood'
PROOF
  <1>1. /\ Called(op) /\ Room /\ UNCHANGED <<disk, path_inode, file, users, saved>>
        /\ pending' = Create(disk, path_inode, inst_path[1], type)
        /\ harm' = harm \cup CreateHarms(disk, path_inode, type)
    BY DEF Make
  <1>2. Sane(disk) /\ Settled(disk) /\ pending = <<>> /\ inst_path[1] \in Names
    BY <1>1, CalledFacts DEF FGood, TypedMemory
  <1>3. Stored(disk) /\ Working(disk, path_inode)
    BY <1>2, QuietKept
  <1>4. CreateHarms(disk, path_inode, type) \cap Losses = {}
    BY <1>1 DEF Unless
  <1>5. PICK e : Stores(disk, pending', e) /\ Working(e, path_inode)
    BY <1>1, <1>2, <1>3, <1>4, CreateKept DEF Room
  <1> QED
    BY <1>1, <1>2, <1>5, KeptOn

LEMMA RmdirKept ==
    ASSUME FGood, KeptGood, Rmdir
    PROVE  KeptGood'
PROOF
  <1>1. /\ Called("rmdir") /\ UNCHANGED <<disk, path_inode, file, users, saved>>
        /\ pending' = RmdirWrites(disk, path_inode, inst_path[1]) /\ harm \subseteq harm'
    BY DEF Rmdir
  <1>2. Sane(disk) /\ Settled(disk) /\ pending = <<>> /\ inst_path[1] \in Names
    BY <1>1, CalledFacts DEF FGood, TypedMemory
  <1>3. Stored(disk) /\ Working(disk, path_inode)
    BY <1>2, QuietKept
  <1>4. PICK e : Stores(disk, pending', e) /\ Working(e, path_inode)
    BY <1>1, <1>2, <1>3, RmdirStores
  <1> QED
    BY <1>1, <1>2, <1>4, KeptOn

LEMMA FopenKept ==
    ASSUME FGood, KeptGood, Fopen, Unless(Losses)'
    PROVE  KeptGood'
PROOF
  <1> DEFINE j   == Find(disk, path_inode, 2, PlaneName, "file")
             ws  == IF j = -1 THEN Create(disk, path_inode, PlaneName, "file") ELSE <<>>
             id  == IF j = -1 THEN FirstFree(disk.imap, Inodes)
                    ELSE disk.block[ReadInode(disk, path_inode).block][j].id
             ino == ReadInode(After(disk, ws), id)
             dr  == [i \in 0..Len(Plane) |-> IF i = 0 THEN ino.block ELSE 0]
  <1>1. /\ pending = <<>> /\ Root \in disk.imap /\ pending' = ws
        /\ j = -1 => Room /\ CreateHarms(disk, path_inode, "file") \subseteq harm'
        /\ users > 0 => "shared" \in harm'
        /\ file' = [inode |-> id, size |-> ino.size, w_ptr |-> 0, direct |-> dr]
        /\ saved' = IF users > 0 THEN saved ELSE [inode |-> id, cells |-> <<>>]
        /\ users' = users + 1 /\ UNCHANGED <<disk, path_inode>>
    BY DEF Fopen
  <1>2. /\ Sane(disk) /\ disk \in Card /\ Settled(disk) /\ path_inode \in Inodes /\ Stored(disk) /\ Working(disk, path_inode)
    BY <1>1, QuietFacts, QuietKept DEF Ready, Blank, FGood, TypedMemory
  <1>3. \A k : j = k /\ k # -1 => /\ k \in Cells /\ ReadInode(disk, path_inode).block \in Blocks
                                  /\ disk.block[ReadInode(disk, path_inode).block][k].name = PlaneName
                                  /\ disk.block[ReadInode(disk, path_inode).block][k].type = "file"
    BY <1>2, FindFacts
  <1>4. saved' = [inode |-> id, cells |-> <<>>]
    BY <1>1 DEF Unless, Losses
  <1>5. dr[0] = ino.block
    <2>1. Plane \in Seq(STRING)
      BY FileSysAssumption
    <2>2. 0 \in 0..Len(Plane)
      BY <2>1
    <2> HIDE DEF ino
    <2> QED  BY <2>2
  <1> HIDE DEF j, dr
  <1>6. \E e : Stores(disk, ws, e) /\ Working(e, path_inode) /\ id \in FilesOf(e) /\ Fits(id)
    <2>1. CASE j = -1
      <3>1. CreateHarms(disk, path_inode, "file") \cap Losses = {}
        BY <1>1, <2>1 DEF Unless
      <3>2. PlaneName \in Names /\ "file" \in Types /\ disk.imap # Inodes /\ disk.bmap # Blocks
        BY <1>1, <2>1, NamesApart DEF Types, Room
      <3>3. PICK e : /\ Stores(disk, Create(disk, path_inode, PlaneName, "file"), e) /\ Working(e, path_inode)
                     /\ Made(disk, e, Create(disk, path_inode, PlaneName, "file"), path_inode, PlaneName, "file")
                     /\ Created(disk, e, "file") /\ 0 \in disk.bmap
        BY <1>2, <3>1, <3>2, CreateKept
      <3>4. id = FirstFree(disk.imap, Inodes) /\ ws = Create(disk, path_inode, PlaneName, "file")
        BY <2>1
      <3> HIDE DEF ws, id
      <3>5. id \in Inodes /\ Fits(id) /\ e.inode[id].block # 0
        BY <3>3, <3>4 DEF Created
      <3>6. e.inode[id].type = "file"
        BY <3>3, <3>4 DEF Made, NewInode
      <3> QED  BY <3>3, <3>4, <3>5, <3>6 DEF FilesOf
    <2>2. CASE j # -1
      <3> DEFINE B == ReadInode(disk, path_inode).block
      <3>1. j \in Cells /\ B \in Blocks /\ disk.block[B][j].name \in Names /\ disk.block[B][j].type = "file"
        BY <1>3, <2>2, NamesApart
      <3>2. id = disk.block[B][j].id /\ ws = <<>>
        BY <2>2
      <3> HIDE DEF B, ws, id
      <3>3. id \in Named(disk) /\ id \in Inodes /\ disk.inode[id].type = "file" /\ Fits(id)
        BY <1>2, <3>1, <3>2, NamesIt DEF Sane, NamedTyped, NamedExist, Named
      <3>4. id \in FilesOf(disk)
        BY <1>2, <3>3 DEF Stored, FilesOf
      <3> QED  BY <1>2, <3>2, <3>3, <3>4, StoresNowhere
    <2> QED  BY <2>1, <2>2
  <1> HIDE DEF ws, id
  <1>7. PICK e : Stores(disk, ws, e) /\ Working(e, path_inode) /\ id \in FilesOf(e) /\ Fits(id)
    BY <1>6
  <1>8. After(disk, ws) = e /\ ino = e.inode[id] /\ e \in Card
    <2>1. After(disk, ws) = e /\ ws \in Seq(Writes)
      BY <1>7 DEF Stores
    <2>2. Len(ws) \in 0..Len(ws)
      BY <2>1
    <2> QED  BY <1>2, <1>7, <2>1, <2>2, DoneFacts DEF After, ReadInode
  <1>9. Session(e, file', saved')
    <2>1. id \in Inodes /\ ino.size \in Int
      BY <1>7, <1>8 DEF FilesOf, Card, InodeT
    <2>2. saved'.inode = id /\ saved'.cells = <<>> /\ file'.inode = id /\ file'.size = ino.size
          /\ file'.w_ptr = 0 /\ file'.direct[0] = ino.block
      BY <1>1, <1>4, <1>5
    <2>3. Len(<<>>) = 0 /\ 1..0 = {}
      OBVIOUS
    <2> QED  BY <1>7, <1>8, <2>1, <2>2, <2>3 DEF Session, Reads
  <1>10. Lasting(disk, ws, saved')
    BY <1>4, <1>7 DEF Lasting, Stores
  <1>11. InOrder(saved')
    <2>1. NCELL \in Nat /\ Len(<<>>) = 0
      BY FileSysAssumption
    <2> QED  BY <1>4, <2>1 DEF InOrder
  <1> QED
    BY <1>1, <1>4, <1>7, <1>8, <1>9, <1>10, <1>11 DEF KeptGood

LEMMA FwriteKept ==
    ASSUME FGood, KeptGood, Fwrite, Unless(Losses)'
    PROVE  KeptGood'
PROOF
  <1> DEFINE p     == Len(saved.cells)
             x     == Plane[p + 1]
             n     == saved.inode
             b     == disk.inode[n].block
             sized == file.w_ptr + 1 > file.size
  <1>1. /\ pending = <<>> /\ users > 0 /\ p < Len(Plane) /\ saved' = [saved EXCEPT !.cells = Append(@, x)]
        /\ UNCHANGED <<disk, path_inode, users>> /\ harm \subseteq harm'
        /\ file.w_ptr >= NCELL => "big" \in harm'
    BY DEF Fwrite
  <1>2. /\ disk \in Card /\ Stored(disk) /\ InOrder(saved) /\ Working(disk, path_inode) /\ Session(disk, file, saved)
        /\ Sane(disk) /\ (saved.cells # <<>> /\ Unless({"cut"}) => Covers(disk, saved))
    BY <1>1, QuietFacts, QuietKept
  <1>3. /\ n \in FilesOf(disk) /\ file.inode = n /\ file.direct[0] = b /\ file.w_ptr = p /\ file.size <= disk.inode[n].size
        /\ Reads(disk, n, p)
    BY <1>2 DEF Session
  <1>4. /\ file \in FileT /\ file.direct \in [0..Len(Plane) -> Blocks] /\ file.size \in Int
        /\ saved \in [inode : Inodes, cells : Seq(ToSet(Plane))] /\ saved.cells \in Seq(ToSet(Plane)) /\ p \in Nat
        /\ Plane \in Seq(STRING) /\ NCELL \in Nat /\ n \in Inodes /\ b # 0 /\ disk.inode[n].size \in Int
    <2>1. /\ file \in FileT /\ saved \in [inode : Inodes, cells : Seq(ToSet(Plane))]
      BY DEF FGood, TypedMemory
    <2>2. saved.cells \in Seq(ToSet(Plane)) /\ n \in Inodes /\ b # 0 /\ disk.inode[n].size \in Int
      BY <1>2, <1>3, <2>1 DEF FilesOf, Card, InodeT
    <2>3. Plane \in Seq(STRING) /\ NCELL \in Nat
      BY FileSysAssumption
    <2> QED  BY <2>1, <2>2, <2>3 DEF FileT
  <1>5. p < NCELL
    BY <1>1, <1>3, <1>4 DEF Unless, Losses
  <1>6. p \in Cells /\ p \div NCELL = 0 /\ p % NCELL = p
    <2>1. p \in Cells
      BY <1>4, <1>5 DEF Cells
    <2>2. p \in Nat /\ NCELL \in Nat /\ p < NCELL
      BY <1>4, <1>5
    <2>3. p \div NCELL = 0 /\ p % NCELL = p
      <3> HIDE DEF p
      <3> QED  BY <2>2
    <2> QED  BY <2>1, <2>3
  <1>7. x \in ToSet(Plane) /\ x \notin Names
    <2>1. p + 1 \in 1..Len(Plane)
      BY <1>1, <1>4
    <2>2. x \in ToSet(Plane)
      BY <1>4, <2>1 DEF ToSet
    <2> HIDE DEF x
    <2> QED  BY <2>2, ContentAssumption
  <1>8. pending' = FileWrites(disk, FALSE, b, p, x, sized, n, p + 1)
    <2>1. SizeWrites = IF sized THEN <<Ino(n, [ReadInode(disk, n) EXCEPT !.size = p + 1])>> ELSE <<>>
      BY <1>3 DEF SizeWrites
    <2>2. pending' = <<>> \o <<Blk(b, [disk.block[b] EXCEPT ![p] = Cell(x, 0, "file")])>> \o SizeWrites
      <3>1. file.w_ptr \div NCELL = 0 /\ file.w_ptr % NCELL = p /\ file.direct[file.w_ptr \div NCELL] = b
        BY <1>3, <1>6
      <3> HIDE DEF b, p, x
      <3> QED  BY <1>4, <3>1 DEF Fwrite, p, x
    <2> HIDE DEF b, p, x, sized, n
    <2> QED  BY <2>1, <2>2 DEF FileWrites
  <1>9. file' = [file EXCEPT !.w_ptr = p + 1, !.direct[0] = b]
    <2>1. file.w_ptr \div NCELL = 0 /\ file.direct[file.w_ptr \div NCELL] = b
      BY <1>3, <1>6
    <2> HIDE DEF b, p
    <2> QED  BY <1>3, <1>4, <2>1 DEF Fwrite
  <1>10. file'.inode = n /\ file'.direct[0] = b /\ file'.w_ptr = p + 1 /\ file'.size = file.size
    <2>1. 0 \in 0..Len(Plane)
      BY <1>4
    <2> HIDE DEF b, p, n
    <2> QED  BY <1>3, <1>4, <1>9, <2>1 DEF FileT
  <1>11. saved'.inode = n /\ saved'.cells = Append(saved.cells, x)
    BY <1>1, <1>4
  <1>12. /\ Len(saved'.cells) = p + 1 /\ saved'.cells[p + 1] = x /\ \A k \in 1..p : saved'.cells[k] = saved.cells[k]
         /\ saved'.cells # <<>>
    <2> DEFINE s == saved.cells
               r == Append(s, x)
    <2>1. s \in Seq(ToSet(Plane)) /\ p = Len(s) /\ x \in ToSet(Plane) /\ p \in Nat
      BY <1>4, <1>7
    <2> HIDE DEF x, s, p
    <2>2. Len(r) = p + 1 /\ r[p + 1] = x /\ \A k \in 1..p : r[k] = s[k]
      BY <2>1
    <2>3. r # <<>>
      BY <2>1, <2>2
    <2> HIDE DEF r
    <2> QED  BY <1>11, <2>2, <2>3 DEF r, s
  <1> HIDE DEF p, n, x, b
  <1>13. PICK e : Lengthens(disk, pending', n, p + 1, IF sized THEN p + 1 ELSE disk.inode[n].size, e)
    <2>1. sized \in BOOLEAN
      BY DEF sized
    <2> HIDE DEF sized
    <2>2. pending' = FileWrites(disk, FALSE, disk.inode[n].block, p, x, sized, n, p + 1) /\ x = Plane[p + 1]
      BY <1>8 DEF b, x
    <2> QED  BY <1>2, <1>3, <1>6, <1>7, <2>1, <2>2, FwriteStores
  <1>14. Lasting(disk, pending', saved')
    BY <1>3, <1>11, <1>13 DEF Lasting, Lengthens
  <1>15. InOrder(saved')
    <2> SUFFICES ASSUME NEW k \in 1..p + 1 PROVE saved'.cells[k] = Plane[k]
      BY <1>4, <1>5, <1>12 DEF InOrder
    <2>1. CASE k = p + 1
      BY <1>12, <2>1 DEF x
    <2>2. CASE k # p + 1
      <3>1. k \in 1..p
        BY <1>4, <2>2
      <3> QED  BY <1>2, <1>12, <3>1 DEF InOrder, p
    <2> QED  BY <2>1, <2>2
  <1>16. e.inode[n].size = IF sized THEN p + 1 ELSE disk.inode[n].size
    BY <1>13 DEF Lengthens
  <1>17. e.inode[n].size >= p + 1 /\ file.size <= e.inode[n].size
    <2>1. CASE sized
      BY <1>3, <1>4, <1>16, <2>1
    <2>2. CASE ~sized
      BY <1>3, <1>4, <1>16, <2>2
    <2> QED  BY <2>1, <2>2
  <1>18. Session(e, file', saved')
    <2>1. n \in FilesOf(e) /\ e.inode[n].block = b
      BY <1>3, <1>4, <1>13 DEF Lengthens, SameUse, b
    <2>2. file'.size <= e.inode[n].size /\ file'.w_ptr = Len(saved'.cells) /\ file'.direct[0] = e.inode[n].block
      BY <1>10, <1>12, <1>17, <2>1
    <2>3. Reads(e, n, Len(saved'.cells))
      BY <1>12, <1>13 DEF Lengthens
    <2> QED  BY <1>10, <1>11, <2>1, <2>2, <2>3 DEF Session
  <1>19. Covers(e, saved')
    BY <1>4, <1>11, <1>12, <1>17 DEF Covers
  <1>20. Working(e, path_inode)
    BY <1>2, <1>13, SameWorking DEF Lengthens
  <1> QED
    BY <1>1, <1>13, <1>14, <1>15, <1>18, <1>19, <1>20 DEF KeptGood, Lengthens

LEMMA HarmsMore ==
    ASSUME NEW d, NEW dir, NEW type
    PROVE  "again" \notin CreateHarms(d, dir, type)
  BY DEF CreateHarms

LEMMA StepKept ==
    ASSUME FInv, KeptInv, [Next]_vars
    PROVE  KeptInv'
PROOF
  <1> SUFFICES ASSUME Unless(Losses)' PROVE "again" \notin harm' /\ KeptGood'
    BY DEF KeptInv
  <1>1. CASE UNCHANGED vars
    <2>1. "again" \notin harm /\ KeptGood
      BY <1>1 DEF KeptInv, Unless, vars
    <2> QED  BY <1>1, <2>1 DEF vars, KeptGood, Unless
  <1>2. CASE Next
    <2>1. harm \subseteq harm'
      BY <1>2 DEF Next, CardWrite, Restart, Mkfs, Parse, Cd, Mkdir, Touch, Make, Rmdir, Fopen, Fwrite, Fclose
    <2>2. "again" \notin harm /\ KeptGood /\ FGood
      <3>1. "again" \notin harm /\ KeptGood /\ Unless(Losses)
        BY <2>1 DEF KeptInv, Unless
      <3> QED  BY <3>1 DEF FInv, Unless, Losses, Bad
    <2>3. ASSUME Mkfs PROVE "again" \notin harm' /\ KeptGood'
      BY <2>2, <2>3, MkfsKept
    <2>4. ASSUME ~Mkfs PROVE "again" \notin harm'
      <3>1. CASE Restart
        BY <2>2, <3>1 DEF Restart
      <3>2. CASE Mkdir \/ Touch
        <4>1. \E type : harm' = harm \cup CreateHarms(disk, path_inode, type)
          BY <3>2 DEF Mkdir, Touch, Make
        <4> QED  BY <2>2, <4>1, HarmsMore
      <3>3. CASE Fopen
        <4>1. harm' \subseteq harm \cup CreateHarms(disk, path_inode, "file") \cup {"shared", "renamed"}
          BY <3>3 DEF Fopen
        <4> QED  BY <2>2, <4>1, HarmsMore
      <3>4. CASE Cd \/ Rmdir \/ Fwrite
        <4>1. harm' \subseteq harm \cup {"astray", "missing", "big"}
          <5>1. CASE Cd
            BY <5>1 DEF Cd
          <5> QED  BY <3>4, <5>1 DEF Rmdir, Fwrite
        <4> QED  BY <2>2, <4>1
      <3>5. CASE CardWrite \/ Parse \/ Fclose
        BY <2>2, <3>5 DEF CardWrite, Parse, Fclose
      <3> QED  BY <1>2, <2>4, <3>1, <3>2, <3>3, <3>4, <3>5 DEF Next
    <2>5. ASSUME Mkdir PROVE KeptGood'
      BY <2>2, <2>5, MakeKept DEF Mkdir, Types
    <2>6. ASSUME Touch PROVE KeptGood'
      BY <2>2, <2>6, MakeKept DEF Touch, Types
    <2>7. ASSUME CardWrite \/ Restart \/ Parse \/ Cd \/ Rmdir \/ Fopen \/ Fwrite \/ Fclose PROVE KeptGood'
      BY <2>2, <2>7, CardWriteKept, RestartKept, StillKept, CdKept, RmdirKept, FopenKept, FwriteKept
    <2>8. KeptGood'
      BY <1>2, <2>3, <2>5, <2>6, <2>7 DEF Next
    <2> QED  BY <2>3, <2>4, <2>8
  <1> QED
    BY <1>1, <1>2

LEMMA KeptHolds ==
    ASSUME FInv, KeptInv
    PROVE  Durable
PROOF
  <1> DEFINE ino == ReadInode(disk, saved.inode)
             n   == Len(saved.cells)
  <1> SUFFICES ASSUME Unless(Losses)
               PROVE  /\ Quiet /\ Unless({"cut"}) => ino.size >= n \/ n = 0
                      /\ Quiet /\ users > 0 => Fread(0, n) = saved.cells
                      /\ \A k \in 1..n : k <= ino.size => disk.block[ino.block][k - 1].name = saved.cells[k]
    BY DEF Durable, Losses
  <1>1. FGood /\ KeptGood
    BY DEF FInv, KeptInv, Unless, Losses, Bad
  <1>2. /\ disk \in Card /\ pending \in Seq(Writes) /\ saved.cells \in Seq(ToSet(Plane)) /\ n \in Nat /\ NCELL \in Nat
        /\ n = 0 <=> saved.cells = <<>>
    <2>1. disk \in Card /\ pending \in Seq(Writes) /\ saved \in [inode : Inodes, cells : Seq(ToSet(Plane))]
      BY <1>1 DEF FGood, Leads, TypedMemory
    <2>2. saved.cells \in Seq(ToSet(Plane)) /\ NCELL \in Nat
      BY <2>1, FileSysAssumption
    <2> QED  BY <2>1, <2>2
  <1>3. Done(disk, pending, 0) = disk /\ 0 \in 0..Len(pending)
    BY <1>2, DoneFacts
  <1>4. Stored(disk) /\ (n # 0 => saved.inode \in FilesOf(disk)) /\ InOrder(saved)
    BY <1>1, <1>2, <1>3 DEF KeptGood, Lasting
  <1>5. n # 0 => ino = disk.inode[saved.inode] /\ saved.inode \in Inodes /\ ino.size \in Int
    BY <1>2, <1>4 DEF FilesOf, Stored, Owns, ReadInode, Card, InodeT
  <1>6. Quiet /\ Unless({"cut"}) => ino.size >= n \/ n = 0
    <2> SUFFICES ASSUME Quiet, Unless({"cut"}), n # 0 PROVE ino.size >= n
      OBVIOUS
    <2>1. Covers(disk, saved)
      BY <1>1, <1>2, QuietKept DEF Quiet
    <2> HIDE DEF ino
    <2> QED  BY <1>2, <1>5, <2>1 DEF Covers
  <1>7. Quiet /\ users > 0 => Fread(0, n) = saved.cells
    <2> SUFFICES ASSUME Quiet, users > 0 PROVE Fread(0, n) = saved.cells
      OBVIOUS
    <2>1. Session(disk, file, saved)
      BY <1>1, QuietKept DEF Quiet
    <2>2. \A k \in 1..n : disk.block[file.direct[(0 + k - 1) \div NCELL]][(0 + k - 1) % NCELL].name = saved.cells[k]
      <3> TAKE k \in 1..n
      <3>1. (0 + k - 1) \div NCELL = 0 /\ (0 + k - 1) % NCELL = k - 1
        <4>1. 0 + k - 1 \in Nat /\ 0 + k - 1 = k - 1 /\ k - 1 < NCELL
          BY <1>2, <1>4 DEF InOrder
        <4> QED  BY <1>2, <4>1
      <3>2. disk.block[file.direct[0]][k - 1].name = Plane[k] /\ saved.cells[k] = Plane[k]
        BY <1>4, <2>1 DEF Session, Reads, InOrder
      <3> QED  BY <3>1, <3>2
    <2>3. saved.cells = [k \in 1..n |-> saved.cells[k]]
      <3>1. \A s \in Seq(ToSet(Plane)) : s = [k \in 1..Len(s) |-> s[k]]
        OBVIOUS
      <3> QED  BY <1>2, <3>1
    <2>4. Fread(0, n) = [k \in 1..n |-> disk.block[file.direct[(0 + k - 1) \div NCELL]][(0 + k - 1) % NCELL].name]
      BY DEF Fread
    <2> HIDE DEF n
    <2> QED  BY <2>2, <2>3, <2>4
  <1>8. \A k \in 1..n : k <= ino.size => disk.block[ino.block][k - 1].name = saved.cells[k]
    <2> SUFFICES ASSUME NEW k \in 1..n, k <= ino.size PROVE disk.block[ino.block][k - 1].name = saved.cells[k]
      OBVIOUS
    <2>1. n # 0 /\ k \in 1..NCELL /\ saved.cells[k] = Plane[k]
      BY <1>2, <1>4 DEF InOrder
    <2>2. Holds(disk, saved.inode) /\ ino = disk.inode[saved.inode]
      BY <1>4, <1>5, <2>1 DEF Stored
    <2> HIDE DEF ino
    <2> QED  BY <2>1, <2>2 DEF Holds
  <1> QED
    BY <1>6, <1>7, <1>8

---------------------------------------------------------------------------
(* The theorems.                                                           *)

\* The card is sane at every single write, until mkfs is cut short or done
\* again, a directory gets block 0 or an inode does not fit its sector; and every
\* inode that is named has a block of its own, until a file gets block 0.
THEOREM FileSysInv == Spec => [](FInv /\ BackInv)
PROOF
  <1>1. Init => FInv /\ BackInv
    BY InitGood, InitBacks DEF FInv, BackInv
  <1>2. FInv /\ BackInv /\ [Next]_vars => FInv' /\ BackInv'
    BY StepGood, StepBacks
  <1> QED
    BY <1>1, <1>2, PTL DEF Spec

\* What a directory shows is there at every single write, power cuts included:
\* its inode and block are in use and the inode is of the entry's type.
THEOREM FileSysEntriesWhole == Spec => []EntriesWhole
PROOF
  <1>1. FInv /\ BackInv => EntriesWhole
    BY Whole
  <1> QED
    BY <1>1, FileSysInv, PTL

\* Two entries never name files or directories that share a block.
THEOREM FileSysBlocksPrivate == Spec => []BlocksPrivate
PROOF
  <1>1. FInv /\ BackInv => BlocksPrivate
    BY Private
  <1> QED
    BY <1>1, FileSysInv, PTL

\* What a task wrote through the descriptor stays on the card, and fread returns
\* it: at every single write, through any number of power cuts and restarts and
\* whatever commands run, until an event of Losses happens.
THEOREM FileSysDurable == Spec => []Durable
PROOF
  <1>1. Init => FInv /\ KeptInv
    BY InitGood, InitKept DEF FInv, KeptInv, Init
  <1>2. FInv /\ KeptInv /\ [Next]_vars => FInv' /\ KeptInv'
    BY StepGood, StepKept
  <1>3. FInv /\ KeptInv => Durable
    BY KeptHolds
  <1> QED
    BY <1>1, <1>2, <1>3, PTL DEF Spec

\* The path in the prompt leads from the root to the working directory at every
\* single write, whatever commands and tasks do, until the power goes off in a
\* call or one of FileSysInv's events happens.
THEOREM FileSysPathAgrees == Spec => []PathAgrees
PROOF
  <1>1. Init => FInv /\ PathInv
    BY InitGood, InitPath DEF FInv, PathInv
  <1>2. FInv /\ PathInv /\ [Next]_vars => FInv' /\ PathInv'
    BY StepGood, StepPath
  <1>3. FInv /\ PathInv => PathAgrees
    BY PathHolds
  <1> QED
    BY <1>1, <1>2, <1>3, PTL DEF Spec

\* Between calls a directory counts exactly the entries that ls shows, until the
\* power goes off in a call, a missing name is removed, an entry is one too many
\* or one of FileSysInv's events happens.
THEOREM FileSysCountAgrees == Spec => []CountAgrees
PROOF
  <1>1. Init => FInv /\ PathInv /\ CountInv
    BY InitGood, InitPath, InitCount DEF FInv, PathInv, CountInv
  <1>2. FInv /\ PathInv /\ CountInv /\ [Next]_vars => FInv' /\ PathInv' /\ CountInv'
    BY StepGood, StepPath, StepCount
  <1>3. FInv /\ PathInv /\ CountInv => CountAgrees
    BY CountHolds
  <1> QED
    BY <1>1, <1>2, <1>3, PTL DEF Spec

\* The entry that mkdir and touch make has the name the user typed and was not
\* there, unless a task's fopen came between parsing and call, or an event of
\* FileSysCountAgrees happened.
THEOREM FileSysMakesTyped == Spec => MakesTyped
PROOF
  <1>1. Init => FInv /\ PathInv /\ CountInv /\ NameInv
    BY InitGood, InitPath, InitCount, InitName DEF FInv, PathInv, CountInv
  <1>2. FInv /\ PathInv /\ CountInv /\ NameInv /\ [Next]_vars
        => FInv' /\ PathInv' /\ CountInv' /\ NameInv'
    BY StepGood, StepPath, StepCount, StepName
  <1>3. FInv /\ PathInv /\ CountInv /\ NameInv /\ [Next]_vars => [MadeTyped]_vars
    BY StepShows
  <1> QED
    BY <1>1, <1>2, <1>3, PTL DEF Spec, MakesTyped

\* Every run of the file system is one of FileTree: a command adds or removes
\* exactly one entry, rmdir with everything below it, and nothing else changes
\* the directories, until an event of FileSysCountAgrees happens.
THEOREM FileSysImplementsTree == Spec => Promise
PROOF
  <1>1. Init => FInv /\ PathInv /\ CountInv /\ FT!Init
    BY InitGood, InitPath, InitCount, InitTree DEF FInv, PathInv, CountInv
  <1>2. FInv /\ PathInv /\ CountInv /\ [Next]_vars
        => FInv' /\ PathInv' /\ CountInv' /\ [FT!Next]_<<TreeAfter, Sound>>
    BY StepGood, StepPath, StepCount, StepTree
  <1> QED
    BY <1>1, <1>2, PTL DEF Spec, Promise, FT!Spec
============================================================================
