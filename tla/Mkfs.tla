-------------------------------- MODULE Mkfs --------------------------------
(***************************************************************************)
(* The file-system image builder (mkfs/mkfs.c).  t is its state: the       *)
(* inodes and the data blocks written so far and the next of each that is  *)
(* unused.  Block 1 is the first block after the metadata.                 *)
(***************************************************************************)
EXTENDS Inodes

MkfsStart == [din |-> [i \in Inum |-> NoDinode],
              blk |-> [b \in Block |-> ZeroBlock],
              freeinode |-> 1, freeblock |-> 1]

(* ialloc(): the next inode, of one link and no content. *)
MkfsIalloc(t, type) ==
    [t EXCEPT !.din[t.freeinode] = [NoDinode EXCEPT !.type = type, !.nlink = 1],
              !.freeinode = @ + 1]

(* Entry k of the inode's addrs, and entry a of its indirect block, given  *)
(* the next unused block when they are 0.                                  *)
MkfsAddr(t, i, k) ==
    IF t.din[i].addrs[k] # 0 THEN t
    ELSE [t EXCEPT !.din[i].addrs[k] = t.freeblock, !.freeblock = @ + 1]

MkfsPointer(t, b, a) ==
    IF t.blk[b][a] # Zero THEN t
    ELSE [t EXCEPT !.blk[b][a] = Pointer(t.freeblock), !.freeblock = @ + 1]

MkfsIndirect(t, i, a) == MkfsPointer(t, t.din[i].addrs[NDIRECT], a)

MkfsBlock(t, i, fbn) ==
    IF fbn < NDIRECT THEN MkfsAddr(t, i, fbn)
    ELSE MkfsIndirect(MkfsAddr(t, i, NDIRECT), i, fbn - NDIRECT)

BlockAt(t, i, fbn) ==
    IF fbn < NDIRECT THEN t.din[i].addrs[fbn]
    ELSE t.blk[t.din[i].addrs[NDIRECT]][fbn - NDIRECT][2]

(* iappend() of one cell at the end of the file. *)
MkfsPut(t, i, cell, off) ==
    [t EXCEPT !.blk[BlockAt(t, i, off \div BSIZE)][off % BSIZE] = cell,
              !.din[i].size = off + 1]

MkfsAppend(t, i, cell) ==
    MkfsPut(MkfsBlock(t, i, t.din[i].size \div BSIZE), i, cell, t.din[i].size)

MkfsAppendAll(t, i, cells) ==
    FoldLeft(LAMBDA u, cell : MkfsAppend(u, i, cell), t, cells)

MkfsRoot == MkfsAppendAll(MkfsIalloc(MkfsStart, "dir"), ROOTINO,
                          <<Dirent(".", ROOTINO), Dirent("..", ROOTINO)>>)

(* One file of the command line: its name in the root and its content. *)
MkfsFile(t, f) ==
    MkfsAppendAll(MkfsAppend(MkfsIalloc(t, "file"), ROOTINO, Dirent(f.name, t.freeinode)),
                  t.freeinode, [c \in 1 .. f.size |-> Data])

(* The root directory's size is rounded up to whole blocks. *)
MkfsFixSize(t) ==
    [t EXCEPT !.din[ROOTINO].size = (@ \div BSIZE + 1) * BSIZE]

MkfsBitmap(t) == 1 .. t.freeblock - 1

Mkfs(files) ==
    LET t == MkfsFixSize(FoldLeft(MkfsFile, MkfsRoot, files))
    IN  [din |-> t.din, blk |-> t.blk, used |-> MkfsBitmap(t)]
=============================================================================
