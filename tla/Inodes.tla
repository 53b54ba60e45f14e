------------------------------- MODULE Inodes -------------------------------
(***************************************************************************)
(* Blocks, inodes and directories (kernel/fs.c) as functions from one file *)
(* system state to the next.  A state s is a record:                       *)
(*   din    the inodes on disk           used   the free map               *)
(*   blk    the contents of data blocks                                    *)
(*   mem    the in-memory copies, valid[i] when loaded, ref[i] pointers    *)
(*   panic  <<>>, or what the kernel has called panic() for                *)
(* All block writes go through the log; din, used and blk are the contents *)
(* of the buffer cache, which module Log relates to the disk.              *)
(*                                                                         *)
(* A block has BSIZE cells, and a cell is a directory entry, a block       *)
(* number of an indirect block, a unit of file data or zero.               *)
(***************************************************************************)
EXTENDS Integers, Sequences, FiniteSets, SequencesExt, FiniteSetsExt

CONSTANTS NINODES,      \* inodes on disk, the root directory is ROOTINO
          NBLOCKS,      \* data blocks
          BSIZE,        \* cells per block
          NDIRECT,      \* direct block numbers of an inode
          NINDIRECT,    \* block numbers in an indirect block
          NINODE        \* entries of the in-memory inode table

Inum == 1 .. NINODES
Block == 1 .. NBLOCKS
ROOTINO == 1
MAXFILE == NDIRECT + NINDIRECT

Zero == <<"zero">>
Data == <<"data">>
Unreadable == <<"unreadable">>    \* a source address that copyin() refuses
Dirent(name, inum) == <<"entry", name, inum>>
Pointer(b) == <<"block", b>>
ZeroBlock == [c \in 0 .. BSIZE - 1 |-> Zero]

NoDinode == [type |-> "free", nlink |-> 0, size |-> 0,
             addrs |-> [k \in 0 .. NDIRECT |-> 0]]

Halted(s) == s.panic # <<>>
Panic(s, why) == IF Halted(s) THEN s ELSE [s EXCEPT !.panic = why]
PanicIf(b, s, why) == IF b THEN Panic(s, why) ELSE s

-----------------------------------------------------------------------------
(* Blocks *)

(* balloc(): the first free block, zeroed; 0 when the disk is full. *)
Balloc(s) ==
    IF s.used = Block THEN [fs |-> s, addr |-> 0]
    ELSE LET b == Min(Block \ s.used)
         IN  [fs |-> [s EXCEPT !.used = @ \cup {b}, !.blk[b] = ZeroBlock],
              addr |-> b]

(* bfree() of every block of B; freeing a free block panics. *)
Bfree(s, B) ==
    PanicIf(~(B \subseteq s.used), [s EXCEPT !.used = @ \ B], <<"bfree">>)

(* bmap(): entry k of addrs, allocated when it is zero. *)
SetAddr(r, i, k) == [r EXCEPT !.fs.mem[i].addrs[k] = r.addr]

AddrsEntry(s, i, k) ==
    IF s.mem[i].addrs[k] # 0 THEN [fs |-> s, addr |-> s.mem[i].addrs[k]]
    ELSE SetAddr(Balloc(s), i, k)

(* Entry a of the indirect block, allocated when it is zero; a failed      *)
(* allocation leaves the indirect block behind.                            *)
SetPointer(r, b, a) ==
    IF r.addr = 0 THEN r ELSE [r EXCEPT !.fs.blk[b][a] = Pointer(r.addr)]

IndirectEntry(r, a) ==
    IF r.addr = 0 THEN r
    ELSE IF r.fs.blk[r.addr][a] # Zero
         THEN [fs |-> r.fs, addr |-> r.fs.blk[r.addr][a][2]]
    ELSE SetPointer(Balloc(r.fs), r.addr, a)

Bmap(s, i, bn) ==
    IF bn < NDIRECT THEN AddrsEntry(s, i, bn)
    ELSE IndirectEntry(AddrsEntry(s, i, NDIRECT), bn - NDIRECT)

(* The blocks an inode d refers to: its direct blocks, and its indirect    *)
(* block with the blocks listed there.                                     *)
DirectBlocks(d) == {d.addrs[k] : k \in 0 .. NDIRECT - 1} \ {0}

IndirectBlocks(s, d) ==
    IF d.addrs[NDIRECT] = 0 THEN {}
    ELSE {s.blk[d.addrs[NDIRECT]][a][2] :
            a \in {x \in 0 .. NINDIRECT - 1 :
                     s.blk[d.addrs[NDIRECT]][x] # Zero}}

BlocksOf(s, d) ==
    DirectBlocks(d) \cup IndirectBlocks(s, d) \cup ({d.addrs[NDIRECT]} \ {0})

-----------------------------------------------------------------------------
(* Inodes *)

Iupdate(s, i) == [s EXCEPT !.din[i] = s.mem[i]]

(* itrunc(): the mutant forgets the blocks of the indirect block. *)
Itrunc_DirectOnly(s, i) ==
    Iupdate([Bfree(s, DirectBlocks(s.mem[i])) EXCEPT
               !.mem[i].addrs = NoDinode.addrs, !.mem[i].size = 0], i)

Itrunc(s, i) ==
    Iupdate([Bfree(s, BlocksOf(s, s.mem[i])) EXCEPT
               !.mem[i].addrs = NoDinode.addrs, !.mem[i].size = 0], i)

(* iget(), and idup(): one more pointer to the table's entry for i.  The   *)
(* table may be smaller than the number of inodes in use.                  *)
Iget(s, i) ==
    IF s.ref[i] > 0 THEN [s EXCEPT !.ref[i] = @ + 1]
    ELSE IF Cardinality({j \in Inum : s.ref[j] > 0}) = NINODE
         THEN Panic(s, <<"iget">>)
    ELSE [s EXCEPT !.ref[i] = 1, !.valid[i] = FALSE]

(* ilock() once the sleep lock is held: load the inode if necessary. *)
Iload(s, i) ==
    IF s.valid[i] THEN s
    ELSE PanicIf(s.din[i].type = "free",
                 [s EXCEPT !.mem[i] = s.din[i], !.valid[i] = TRUE], <<"ilock", i>>)

(* ialloc(): the first free inode on disk gets its type; 0 if there is none. *)
Ialloc(s, type) ==
    LET free == {i \in Inum : s.din[i].type = "free"}
        i == Min(free)
    IN  IF free = {} THEN [fs |-> s, inum |-> 0]
        ELSE [fs |-> Iget([s EXCEPT !.din[i] = [NoDinode EXCEPT !.type = type]], i),
              inum |-> i]

(* ip->nlink += n; iupdate(ip) *)
Nlink(s, i, n) == Iupdate([s EXCEPT !.mem[i].nlink = @ + n], i)

(* writei() of a sequence of cells: stops at the first block that cannot   *)
(* be allocated or whose part of the source cannot be copied in; a block   *)
(* allocated for such a part stays with the inode, which is written back   *)
(* in every case.                                                          *)
PutCell(r, m, o, c, copied) ==
    IF m.addr = 0 \/ ~copied THEN [r EXCEPT !.fs = m.fs, !.stop = TRUE]
    ELSE [fs |-> [m.fs EXCEPT !.blk[m.addr][o % BSIZE] = c], n |-> r.n + 1, stop |-> FALSE]

WriteSize(r, i, off) ==
    [fs |-> Iupdate([r.fs EXCEPT !.mem[i].size = Max({@, off + r.n})], i), n |-> r.n]

Writei(s, i, off, cells) ==
    LET Copied(k) ==
          \A j \in k .. Min({Len(cells), k + BSIZE - 1 - ((off + k - 1) % BSIZE)}) :
            cells[j] # Unreadable
        Write(r, c) ==
          IF r.stop THEN r
          ELSE PutCell(r, Bmap(r.fs, i, (off + r.n) \div BSIZE), off + r.n, c, Copied(r.n + 1))
    IN  IF off > s.mem[i].size \/ off + Len(cells) > MAXFILE * BSIZE
        THEN [fs |-> s, n |-> -1]
        ELSE WriteSize(FoldLeft(Write, [fs |-> s, n |-> 0, stop |-> FALSE], cells), i, off)

(* readi(): how many of n cells from off there are to copy. *)
Readable(s, i, off, n) ==
    IF off > s.mem[i].size THEN 0 ELSE Min({n, s.mem[i].size - off})

(* The cell at offset off of an inode d that has it. *)
CellAt(s, d, off) ==
    LET bn == off \div BSIZE
        b == IF bn < NDIRECT THEN d.addrs[bn]
             ELSE s.blk[d.addrs[NDIRECT]][bn - NDIRECT][2]
    IN  s.blk[b][off % BSIZE]

-----------------------------------------------------------------------------
(* Directories *)

Entries(s, d) == {o \in 0 .. d.size - 1 : CellAt(s, d, o) # Zero}

Named(s, d, name) ==
    {o \in Entries(s, d) : CellAt(s, d, o)[1] = "entry" /\ CellAt(s, d, o)[2] = name}

(* dirlookup(): the inode number of name in directory i, 0 if it has none. *)
Dirlookup(s, i, name) ==
    LET at == Named(s, s.mem[i], name)
    IN  IF at = {} THEN 0 ELSE CellAt(s, s.mem[i], Min(at))[3]

(* dirlink(): into the first empty entry, or after the last one.  A name   *)
(* that exists is refused; the reference that dirlookup() takes for it is  *)
(* dropped again at once.                                                  *)
Dirlink(s, i, name, inum) ==
    LET d == s.mem[i]
        empty == {o \in 0 .. d.size : o = d.size \/ CellAt(s, d, o) = Zero}
        Linked(w) == [fs |-> w.fs, ok |-> w.n = 1]
    IN  IF Dirlookup(s, i, name) # 0 THEN [fs |-> s, ok |-> FALSE]
        ELSE Linked(Writei(s, i, Min(empty), <<Dirent(name, inum)>>))

DirlinkIf(r, i, name, inum) == IF r.ok THEN Dirlink(r.fs, i, name, inum) ELSE r

(* The write of a zeroed entry by unlink and by swapfile_cleanup(). *)
Dirclear(s, i, name) ==
    Writei(s, i, Min(Named(s, s.mem[i], name)), <<Zero>>).fs

(* isdirempty(): looks past the entries "." and ".."; the mutant stops     *)
(* before the last entry.                                                  *)
IsDirEmpty_SkipsLast(s, i) ==
    \A o \in 2 .. s.mem[i].size - 2 : CellAt(s, s.mem[i], o) = Zero

IsDirEmpty(s, i) ==
    \A o \in 2 .. s.mem[i].size - 1 : CellAt(s, s.mem[i], o) = Zero

(* The two entries create() gives a new directory i of parent dp. *)
DirlinkDots(s, i, dp) == DirlinkIf(Dirlink(s, i, ".", i), i, "..", dp)

=============================================================================
