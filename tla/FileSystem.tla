----------------------------- MODULE FileSystem -----------------------------
(***************************************************************************)
(* The file system calls (kernel/sysfile.c, kernel/file.c), path lookup    *)
(* and inode references (kernel/fs.c), the life of a process's swap file   *)
(* (kernel/swap.c) and of the inode of its program (kernel/exec.c,         *)
(* kernel/proc.c), for processes that run concurrently and a machine that  *)
(* may crash.                                                              *)
(*                                                                         *)
(* A step of a thread runs from the point where it has acquired an inode's *)
(* sleep lock to the next point where it could wait or where it touches    *)
(* the inode table again; locks kept over such a point are in ilk.  Calls  *)
(* to iput() are queued in put and run before the thread goes on.  The log *)
(* is what module Transactions promises: everything written since the last *)
(* moment without an open transaction is lost by a crash.                  *)
(***************************************************************************)
EXTENDS Inodes

CONSTANTS Proc,         \* 1 is init, which never exits
          NFILE,        \* open files
          NOFILE,       \* file descriptors of a process
          SwapName,     \* [Proc -> names], "/pgswp" and the pid
          Image,        \* the file systems mkfs may have written
          Menus,        \* sets of calls, a behaviour makes calls of one menu
          MaxCalls,     \* [Menus -> Nat], calls made in a behaviour
          MaxCrashes,   \* crashes in a behaviour
          WriteCells,   \* cells of a write call
          MaxChunk      \* cells that one transaction of filewrite() writes

VARIABLES fs,           \* see module Inodes
          ilk,          \* the sleep lock of each inode: 0 or its holder
          th,           \* what each process is doing in the kernel
          proc,         \* ofile, cwd, exec_ip and swapfile of each process
          ftable,       \* the open files
          outstanding,  \* transactions that are open
          durable,      \* what is on disk after a crash
          boot,         \* the inode that ireclaim() looks at, 0 when booted
          dropped,      \* pointers to inodes that exec has overwritten
          bounds        \* the menu, calls left, crashes left

vars == <<fs, ilk, th, proc, ftable, outstanding, durable, boot, dropped, bounds>>

File == 1 .. NFILE
Fd == 0 .. NOFILE - 1
NoFile == [ref |-> 0, ip |-> 0, off |-> 0, dev |-> FALSE, writable |-> FALSE]
NoProc == [ofile |-> [d \in Fd |-> 0], cwd |-> 0, exec_ip |-> 0, swapfile |-> 0]

(* A call, and a thread: pc is where the process is in the kernel, ret     *)
(* where it goes after end_op(), then where it goes after a successful     *)
(* namex(), which has cur as its inode and path as the elements left.      *)
NoCall == [op |-> "none", path |-> <<>>, abs |-> TRUE, new |-> <<>>, mode |-> "rdonly"]
Thread(pc) == [call |-> NoCall, pc |-> pc, ret |-> "user", then |-> "", path |-> <<>>,
               parent |-> FALSE, name |-> "", cur |-> 0, dp |-> 0, ip |-> 0,
               file |-> 0, left |-> 0, put |-> <<>>, freeing |-> ""]

Disk(s) == [din |-> s.din, used |-> s.used, blk |-> s.blk]

(* The file system in memory after a boot, process 1 in the root directory. *)
Booted(d) ==
    [din |-> d.din, used |-> d.used, blk |-> d.blk, mem |-> [i \in Inum |-> NoDinode],
     valid |-> [i \in Inum |-> FALSE], ref |-> [i \in Inum |-> IF i = ROOTINO THEN 1 ELSE 0],
     panic |-> <<>>]

BootedProcs == [p \in Proc |-> IF p = 1 THEN [NoProc EXCEPT !.cwd = ROOTINO] ELSE NoProc]
BootedThreads == [p \in Proc |-> Thread(IF p = 1 THEN "user" ELSE "unused")]

Init == /\ \E d \in Image : fs = Booted(d) /\ durable = d
        /\ ilk = [i \in Inum |-> 0]
        /\ th = BootedThreads
        /\ proc = BootedProcs
        /\ ftable = [f \in File |-> NoFile]
        /\ outstanding = 0
        /\ boot = 1
        /\ dropped = [i \in Inum |-> 0]
        /\ \E m \in Menus : bounds = [menu |-> m, calls |-> MaxCalls[m], crashes |-> MaxCrashes]

-----------------------------------------------------------------------------
(* Threads *)

At(p, pc) == boot = 0 /\ ~Halted(fs) /\ th[p].pc = pc /\ th[p].put = <<>>

Go(p, t) == th' = [th EXCEPT ![p] = t]

(* The thread is done with its inodes, will iput() those of inodes and     *)
(* then end its transaction.                                               *)
Finish(p, inodes) ==
    Go(p, [th[p] EXCEPT !.pc = "end", !.put = inodes, !.cur = 0, !.dp = 0, !.ip = 0])

BeginOp == outstanding' = outstanding + 1

(* namex() begins at the root or at the current directory. *)
Start(p, abs) == IF abs THEN ROOTINO ELSE proc[p].cwd

Walk(p, s, t, abs, path, parent, then) ==
    /\ fs' = Iget(s, Start(p, abs))
    /\ Go(p, [t EXCEPT !.pc = "namex", !.cur = Start(p, abs), !.path = path,
                       !.parent = parent, !.then = then])

Rest == <<proc, ftable, outstanding, durable, boot, dropped, bounds>>

(* One step of iput(): a last reference to an inode without links truncates *)
(* and frees it, with the table's lock released meanwhile.                  *)
IputTest(p) ==
    /\ boot = 0 /\ ~Halted(fs) /\ th[p].put # <<>> /\ th[p].freeing = ""
    /\ LET i == Head(th[p].put)
       IN  IF fs.ref[i] = 1 /\ fs.valid[i] /\ fs.mem[i].nlink = 0
           THEN /\ ilk[i] = 0
                /\ ilk' = [ilk EXCEPT ![i] = p]
                /\ Go(p, [th[p] EXCEPT !.freeing = "itrunc"])
                /\ fs' = fs
           ELSE /\ fs' = [fs EXCEPT !.ref[i] = @ - 1]
                /\ Go(p, [th[p] EXCEPT !.put = Tail(@)])
                /\ ilk' = ilk
    /\ UNCHANGED Rest

(* log_write() panics outside of a transaction.  The mutant leaves the     *)
(* table's copy valid.                                                     *)
IputFree_KeepsValid(p) ==
    /\ ~Halted(fs) /\ th[p].freeing = "itrunc"
    /\ LET i == Head(th[p].put)
           s == Itrunc(fs, i)
       IN  /\ fs' = PanicIf(outstanding = 0, Iupdate([s EXCEPT !.mem[i].type = "free"], i),
                            <<"log_write">>)
           /\ ilk' = [ilk EXCEPT ![i] = 0]
    /\ Go(p, [th[p] EXCEPT !.freeing = "drop"])
    /\ UNCHANGED Rest

IputFree(p) ==
    /\ ~Halted(fs) /\ th[p].freeing = "itrunc"
    /\ LET i == Head(th[p].put)
           s == Itrunc(fs, i)
       IN  /\ fs' = PanicIf(outstanding = 0,
                            [Iupdate([s EXCEPT !.mem[i].type = "free"], i)
                               EXCEPT !.valid[i] = FALSE],
                            <<"log_write">>)
           /\ ilk' = [ilk EXCEPT ![i] = 0]
    /\ Go(p, [th[p] EXCEPT !.freeing = "drop"])
    /\ UNCHANGED Rest

IputDrop(p) ==
    /\ ~Halted(fs) /\ th[p].freeing = "drop"
    /\ fs' = [fs EXCEPT !.ref[Head(th[p].put)] = @ - 1]
    /\ Go(p, [th[p] EXCEPT !.put = Tail(@), !.freeing = ""])
    /\ UNCHANGED <<ilk, Rest>>

(* end_op(): the last one out commits. *)
EndOp(p) ==
    /\ At(p, "end")
    /\ outstanding' = outstanding - 1
    /\ durable' = IF outstanding = 1 THEN Disk(fs) ELSE durable
    /\ Go(p, [Thread(th[p].ret) EXCEPT !.file = th[p].file, !.left = th[p].left])
    /\ UNCHANGED <<fs, ilk, proc, ftable, boot, dropped, bounds>>

-----------------------------------------------------------------------------
(* namex() *)

(* Where a failed lookup leads: sys_link() has to undo its nlink++. *)
Failed(p) == IF th[p].then = "link_new" THEN "link_bad" ELSE "end"

(* The path is used up: nameiparent() of "/" fails, namei() succeeds. *)
NamexEnd(p) ==
    /\ At(p, "namex") /\ th[p].path = <<>>
    /\ Go(p, IF th[p].parent
             THEN [th[p] EXCEPT !.pc = Failed(p), !.cur = 0, !.put = <<th[p].cur>>]
             ELSE [th[p] EXCEPT !.pc = th[p].then])
    /\ UNCHANGED <<fs, ilk, Rest>>

(* One element.  The reference to the next inode is taken before the lock  *)
(* of the directory is released; it is locked only afterwards.             *)
NamexElement(p) ==
    /\ At(p, "namex") /\ th[p].path # <<>> /\ ilk[th[p].cur] = 0
    /\ LET i == th[p].cur
           s == Iload(fs, i)
           name == Head(th[p].path)
           isdir == s.mem[i].type = "dir"
           next == Dirlookup(s, i, name)
       IN  IF isdir /\ th[p].parent /\ Len(th[p].path) = 1
           THEN /\ fs' = s
                /\ Go(p, [th[p] EXCEPT !.pc = th[p].then, !.path = <<>>, !.name = name])
           ELSE IF ~isdir \/ next = 0
           THEN /\ fs' = s
                /\ Go(p, [th[p] EXCEPT !.pc = Failed(p), !.cur = 0, !.put = <<i>>])
           ELSE /\ fs' = Iget(s, next)
                /\ Go(p, [th[p] EXCEPT !.cur = next, !.put = <<i>>, !.path = Tail(@)])
    /\ UNCHANGED <<ilk, Rest>>

-----------------------------------------------------------------------------
(* Calls that begin with a path *)

ThenOf(op) == CASE op \in {"creat", "mkdir", "mknod"} -> "create"
                [] OTHER -> op

(* The type a call gives to a new inode; "nodev" is a device whose major   *)
(* number the kernel does not have.                                        *)
TypeOf(c) == CASE c.op = "mkdir" -> "dir"
               [] c.op = "mknod" -> IF c.mode = "badmajor" THEN "nodev" ELSE "dev"
               [] OTHER -> "file"

PathCall(p) ==
    /\ At(p, "user") /\ bounds.calls > 0
    /\ \E c \in bounds.menu :
         /\ c.op \in {"open", "creat", "mkdir", "mknod", "exec", "chdir", "link", "unlink"}
         /\ Walk(p, fs, [Thread("namex") EXCEPT !.call = c], c.abs, c.path,
                 c.op \in {"creat", "mkdir", "mknod", "unlink"}, ThenOf(c.op))
    /\ BeginOp
    /\ bounds' = [bounds EXCEPT !.calls = @ - 1]
    /\ UNCHANGED <<ilk, proc, ftable, durable, boot, dropped>>

(* filealloc() and fdalloc() take the first entry that is free. *)
FreeFiles == {f \in File : ftable[f].ref = 0}
FreeFds(p) == {d \in Fd : proc[p].ofile[d] = 0}

(* sys_open() and swapfile_create() from filealloc() on, for inode i that  *)
(* is locked; inodes are to be put first.                                  *)
OpenFile(p, s, i, inodes) ==
    LET op == th[p].call.op
        f == Min(FreeFiles)
    IN  IF \/ FreeFiles = {}
           \/ op # "swap" /\ (FreeFds(p) = {} \/ s.mem[i].type = "nodev")
        THEN /\ fs' = s
             /\ Finish(p, Append(inodes, i))
             /\ UNCHANGED <<ftable, proc>>
        ELSE /\ fs' = IF th[p].call.mode = "trunc" /\ s.mem[i].type = "file"
                      THEN Itrunc(s, i) ELSE s
             /\ ftable' = [ftable EXCEPT ![f] =
                             [ref |-> 1, ip |-> i, off |-> 0,
                              dev |-> op # "swap" /\ s.mem[i].type = "dev",
                              writable |-> op # "open" \/ th[p].call.mode # "rdonly"]]
             /\ proc' = IF op = "swap" THEN [proc EXCEPT ![p].swapfile = f]
                        ELSE [proc EXCEPT ![p].ofile[Min(FreeFds(p))] = f]
             /\ Finish(p, inodes)

Open(p) ==
    /\ At(p, "open") /\ ilk[th[p].cur] = 0
    /\ LET i == th[p].cur
           s == Iload(fs, i)
       IN  IF s.mem[i].type = "dir" /\ th[p].call.mode # "rdonly"
           THEN /\ fs' = s
                /\ Finish(p, <<i>>)
                /\ UNCHANGED <<ftable, proc>>
           ELSE OpenFile(p, s, i, <<>>)
    /\ UNCHANGED <<ilk, outstanding, durable, boot, dropped, bounds>>

(* create() and kcreate(): the directory stays locked when the name is new. *)
Create(p) ==
    /\ At(p, "create") /\ ilk[th[p].cur] = 0
    /\ LET dp == th[p].cur
           s == Iload(fs, dp)
           i == Dirlookup(s, dp, th[p].name)
       IN  IF i # 0
           THEN /\ fs' = Iget(s, i)
                /\ Go(p, [th[p] EXCEPT !.pc = "create_exists", !.cur = 0, !.ip = i, !.put = <<dp>>])
                /\ ilk' = ilk
           ELSE /\ fs' = s
                /\ Go(p, [th[p] EXCEPT !.pc = "create_ialloc", !.cur = 0, !.dp = dp])
                /\ ilk' = [ilk EXCEPT ![dp] = p]
    /\ UNCHANGED Rest

CreateExists(p) ==
    /\ At(p, "create_exists") /\ ilk[th[p].ip] = 0
    /\ LET i == th[p].ip
           s == Iload(fs, i)
       IN  IF TypeOf(th[p].call) = "file" /\ s.mem[i].type \in {"file", "dev", "nodev"}
           THEN OpenFile(p, s, i, <<>>)
           ELSE /\ fs' = s
                /\ Finish(p, <<i>>)
                /\ UNCHANGED <<ftable, proc>>
    /\ UNCHANGED <<ilk, outstanding, durable, boot, dropped, bounds>>

CreateIalloc(p) ==
    /\ At(p, "create_ialloc")
    /\ LET r == Ialloc(fs, TypeOf(th[p].call))
       IN  /\ fs' = r.fs
           /\ IF r.inum = 0
              THEN /\ Finish(p, <<th[p].dp>>)
                   /\ ilk' = [ilk EXCEPT ![th[p].dp] = 0]
              ELSE /\ Go(p, [th[p] EXCEPT !.pc = "create_init", !.ip = r.inum])
                   /\ ilk' = ilk
    /\ UNCHANGED Rest

(* The new inode gets its link and its entries; without blocks for them    *)
(* create() takes the link back and iput() frees the inode.                *)
Created(p, link, i, dp) ==
    IF ~link.ok
    THEN /\ fs' = Nlink(link.fs, i, -1)
         /\ Finish(p, <<i, dp>>)
         /\ UNCHANGED <<ftable, proc>>
    ELSE IF TypeOf(th[p].call) = "file"
    THEN OpenFile(p, link.fs, i, <<dp>>)
    ELSE /\ fs' = IF th[p].call.op = "mkdir" THEN Nlink(link.fs, dp, 1) ELSE link.fs
         /\ Finish(p, <<dp, i>>)
         /\ UNCHANGED <<ftable, proc>>

CreateInit(p) ==
    /\ At(p, "create_init") /\ ilk[th[p].ip] = 0
    /\ LET i == th[p].ip
           dp == th[p].dp
           s == Nlink(Iload(fs, i), i, 1)
           dots == IF th[p].call.op = "mkdir" THEN DirlinkDots(s, i, dp)
                   ELSE [fs |-> s, ok |-> TRUE]
       IN  /\ ilk' = [ilk EXCEPT ![dp] = 0]
           /\ Created(p, DirlinkIf(dots, dp, th[p].name, i), i, dp)
    /\ UNCHANGED <<outstanding, durable, boot, dropped, bounds>>

Chdir(p) ==
    /\ At(p, "chdir") /\ ilk[th[p].cur] = 0
    /\ LET i == th[p].cur
           s == Iload(fs, i)
           isdir == s.mem[i].type = "dir"
       IN  /\ fs' = s
           /\ Finish(p, <<IF isdir THEN proc[p].cwd ELSE i>>)
           /\ proc' = IF isdir THEN [proc EXCEPT ![p].cwd = i] ELSE proc
    /\ UNCHANGED <<ilk, ftable, outstanding, durable, boot, dropped, bounds>>

-----------------------------------------------------------------------------
(* sys_link(), sys_unlink() and the unlink of swapfile_cleanup() *)

(* The mutant forgets iupdate(). *)
LinkOld_NoIupdate(p) ==
    /\ At(p, "link") /\ ilk[th[p].cur] = 0
    /\ LET i == th[p].cur
           s == Iload(fs, i)
       IN  IF s.mem[i].type = "dir"
           THEN fs' = s /\ Finish(p, <<i>>)
           ELSE Walk(p, [s EXCEPT !.mem[i].nlink = @ + 1], [th[p] EXCEPT !.ip = i],
                     th[p].call.abs, th[p].call.new, TRUE, "link_new")
    /\ UNCHANGED <<ilk, Rest>>

LinkOld(p) ==
    /\ At(p, "link") /\ ilk[th[p].cur] = 0
    /\ LET i == th[p].cur
           s == Iload(fs, i)
       IN  IF s.mem[i].type = "dir"
           THEN fs' = s /\ Finish(p, <<i>>)
           ELSE Walk(p, Nlink(s, i, 1), [th[p] EXCEPT !.ip = i],
                     th[p].call.abs, th[p].call.new, TRUE, "link_new")
    /\ UNCHANGED <<ilk, Rest>>

LinkMade(p, r) ==
    /\ fs' = r.fs
    /\ IF r.ok THEN Finish(p, <<th[p].cur, th[p].ip>>)
       ELSE Go(p, [th[p] EXCEPT !.pc = "link_bad", !.cur = 0, !.put = <<th[p].cur>>])

LinkNew(p) ==
    /\ At(p, "link_new") /\ ilk[th[p].cur] = 0
    /\ LinkMade(p, Dirlink(Iload(fs, th[p].cur), th[p].cur, th[p].name, th[p].ip))
    /\ UNCHANGED <<ilk, Rest>>

LinkBad(p) ==
    /\ At(p, "link_bad") /\ ilk[th[p].ip] = 0
    /\ fs' = Nlink(Iload(fs, th[p].ip), th[p].ip, -1)
    /\ Finish(p, <<th[p].ip>>)
    /\ UNCHANGED <<ilk, Rest>>

(* The mutant does not refuse "." and "..". *)
UnlinkParent_AllowsDots(p) ==
    /\ At(p, "unlink") /\ ilk[th[p].cur] = 0
    /\ LET dp == th[p].cur
           s == Iload(fs, dp)
           i == Dirlookup(s, dp, th[p].name)
       IN  IF i = 0
           THEN /\ fs' = s
                /\ Finish(p, <<dp>>)
                /\ ilk' = ilk
           ELSE /\ fs' = Iget(s, i)
                /\ Go(p, [th[p] EXCEPT !.pc = "unlink_entry", !.cur = 0, !.dp = dp, !.ip = i])
                /\ ilk' = [ilk EXCEPT ![dp] = p]
    /\ UNCHANGED Rest

UnlinkParent(p) ==
    /\ At(p, "unlink") /\ ilk[th[p].cur] = 0
    /\ LET dp == th[p].cur
           s == Iload(fs, dp)
           i == Dirlookup(s, dp, th[p].name)
       IN  IF th[p].name \in {".", ".."} \/ i = 0
           THEN /\ fs' = s
                /\ Finish(p, <<dp>>)
                /\ ilk' = ilk
           ELSE /\ fs' = Iget(s, i)
                /\ Go(p, [th[p] EXCEPT !.pc = "unlink_entry", !.cur = 0, !.dp = dp, !.ip = i])
                /\ ilk' = [ilk EXCEPT ![dp] = p]
    /\ UNCHANGED Rest

(* swapfile_cleanup() neither looks at the type nor at nlink.  The step    *)
(* goes up to the first iput(): between the release of dp and nlink-- of   *)
(* ip, which stays locked, nobody can tell; and where the code puts ip     *)
(* before it unlocks dp, ip has a link or an open file left, so that       *)
(* iput() only counts down.                                                *)
UnlinkEntry(p) ==
    /\ At(p, "unlink_entry") /\ ilk[th[p].ip] = 0
    /\ LET i == th[p].ip
           dp == th[p].dp
           s == Iload(fs, i)
           isdir == s.mem[i].type = "dir" /\ th[p].call.op = "unlink"
           bad == isdir /\ ~IsDirEmpty(s, i)
           s1 == Dirclear(s, dp, th[p].name)
           s2 == IF isdir THEN Nlink(s1, dp, -1) ELSE s1
       IN  IF th[p].call.op = "unlink" /\ s.mem[i].nlink < 1
           THEN fs' = Panic(s, <<"unlink">>) /\ UNCHANGED <<ilk, th>>
           ELSE /\ fs' = IF bad THEN s ELSE Nlink(s2, i, -1)
                /\ Finish(p, IF bad \/ th[p].call.op = "cleanup" THEN <<i, dp>> ELSE <<dp, i>>)
                /\ ilk' = [ilk EXCEPT ![dp] = 0]
    /\ UNCHANGED Rest

-----------------------------------------------------------------------------
(* exec and the swap file *)

(* kexec() has read the headers of a program and unlocked it: it commits,  *)
(* or it fails for want of memory or for its arguments.                    *)
Exec(p) ==
    /\ At(p, "exec") /\ ilk[th[p].cur] = 0
    /\ fs' = Iload(fs, th[p].cur)
    /\ \E pc \in {"exec_commit", "exec_bad"} : Go(p, [th[p] EXCEPT !.pc = pc])
    /\ UNCHANGED <<ilk, Rest>>

(* The headers are not those of a program: kexec() goes to bad with the    *)
(* inode locked.                                                           *)
ExecBadHeader(p) ==
    /\ At(p, "exec") /\ ilk[th[p].cur] = 0
    /\ fs' = Iload(fs, th[p].cur)
    /\ ilk' = [ilk EXCEPT ![th[p].cur] = p]
    /\ Go(p, [th[p] EXCEPT !.pc = "exec_bad"])
    /\ UNCHANGED Rest

ExecBad(p) ==
    /\ At(p, "exec_bad") /\ ilk[th[p].cur] = 0
    /\ fs' = Iload(fs, th[p].cur)
    /\ Finish(p, <<th[p].cur>>)
    /\ UNCHANGED <<ilk, Rest>>

(* The reference that exec_ip held before is overwritten. *)
ExecCommit(p) ==
    /\ At(p, "exec_commit") /\ ilk[th[p].cur] = 0
    /\ LET i == th[p].cur
           old == proc[p].exec_ip
       IN  /\ fs' = Iget(Iload(fs, i), i)
           /\ proc' = [proc EXCEPT ![p].exec_ip = i]
           /\ dropped' = IF old = 0 THEN dropped ELSE [dropped EXCEPT ![old] = @ + 1]
           /\ Go(p, [th[p] EXCEPT !.pc = "end", !.ret = "swap_create", !.cur = 0, !.put = <<i>>])
    /\ UNCHANGED <<ilk, ftable, outstanding, durable, boot, bounds>>

(* swapfile_create() and swapfile_cleanup(), each with a transaction. *)
SwapPath(p, op, then, ret) ==
    /\ BeginOp
    /\ Walk(p, fs, [Thread("namex") EXCEPT !.call = [NoCall EXCEPT !.op = op], !.ret = ret],
            TRUE, <<SwapName[p]>>, TRUE, then)
    /\ UNCHANGED <<ilk, proc, ftable, durable, boot, dropped, bounds>>

SwapCreate(p) ==
    /\ At(p, "swap_create")
    /\ \/ /\ proc[p].swapfile = 0
          /\ SwapPath(p, "swap", "create", "user")
       \/ /\ proc[p].swapfile # 0
          /\ Go(p, Thread("user"))
          /\ UNCHANGED <<fs, ilk, Rest>>

-----------------------------------------------------------------------------
(* Open files *)

(* fileclose(): the last reference to the open file puts its inode, in a   *)
(* transaction of its own.                                                 *)
FileClose(p, f, ret) ==
    IF ftable[f].ref > 1
    THEN /\ ftable' = [ftable EXCEPT ![f].ref = @ - 1]
         /\ Go(p, Thread(ret))
         /\ UNCHANGED outstanding
    ELSE /\ ftable' = [ftable EXCEPT ![f] = NoFile]
         /\ Go(p, [Thread("end") EXCEPT !.ret = ret, !.put = <<ftable[f].ip>>])
         /\ BeginOp

Call(p, op) == /\ At(p, "user") /\ bounds.calls > 0
               /\ \E c \in bounds.menu : c.op = op
               /\ bounds' = [bounds EXCEPT !.calls = @ - 1]

Opened(p) == {d \in Fd : proc[p].ofile[d] # 0}

Close(p) ==
    /\ Call(p, "close")
    /\ \E d \in Opened(p) : /\ proc' = [proc EXCEPT ![p].ofile[d] = 0]
                            /\ FileClose(p, proc[p].ofile[d], "user")
    /\ UNCHANGED <<fs, ilk, durable, boot, dropped>>

(* sys_dup(); fails without a free descriptor. *)
Dup(p) ==
    /\ Call(p, "dup")
    /\ FreeFds(p) # {}
    /\ \E d \in Opened(p) :
         /\ proc' = [proc EXCEPT ![p].ofile[Min(FreeFds(p))] = proc[p].ofile[d]]
         /\ ftable' = [ftable EXCEPT ![proc[p].ofile[d]].ref = @ + 1]
    /\ UNCHANGED <<fs, ilk, th, outstanding, durable, boot, dropped>>

(* fileread() of one cell, and filestat(): under the inode's lock. *)
Read(p) ==
    /\ Call(p, "read")
    /\ \E d \in Opened(p) :
         LET f == proc[p].ofile[d]
             s == Iload(fs, ftable[f].ip)
         IN  /\ ilk[ftable[f].ip] = 0
             /\ fs' = s
             /\ ftable' = IF ftable[f].dev THEN ftable
                          ELSE [ftable EXCEPT ![f].off =
                                  @ + Readable(s, ftable[f].ip, ftable[f].off, 1)]
    /\ UNCHANGED <<ilk, th, proc, outstanding, durable, boot, dropped>>

(* filewrite(): one transaction for each chunk.  The last cell of a chunk  *)
(* may be one that copyin() refuses.                                       *)
WriteBegin(p) ==
    /\ \/ /\ Call(p, "write")
          /\ \E d \in Opened(p) :
               /\ ftable[proc[p].ofile[d]].writable /\ ~ftable[proc[p].ofile[d]].dev
               /\ Go(p, [Thread("write") EXCEPT !.file = proc[p].ofile[d], !.left = WriteCells])
       \/ /\ At(p, "write_more")
          /\ Go(p, [th[p] EXCEPT !.pc = "write"])
          /\ bounds' = bounds
    /\ BeginOp
    /\ UNCHANGED <<fs, ilk, proc, ftable, durable, boot, dropped>>

Written(p, w, f, n1) ==
    /\ fs' = w.fs
    /\ ftable' = [ftable EXCEPT ![f].off = @ + Max({w.n, 0})]
    /\ Go(p, IF w.n = n1 /\ th[p].left > n1
             THEN [th[p] EXCEPT !.pc = "end", !.ret = "write_more", !.left = @ - n1]
             ELSE Thread("end"))

WriteChunk(p) ==
    /\ At(p, "write")
    /\ LET f == th[p].file
           i == ftable[f].ip
           n1 == Min({th[p].left, MaxChunk})
       IN  /\ ilk[i] = 0
           /\ \E last \in {Data, Unreadable} :
                Written(p, Writei(Iload(fs, i), i, ftable[f].off,
                                  [k \in 1 .. n1 |-> IF k = n1 THEN last ELSE Data]), f, n1)
    /\ UNCHANGED <<ilk, proc, outstanding, durable, boot, dropped, bounds>>

-----------------------------------------------------------------------------
(* fork, exit and the release of a process by its parent *)

(* proc_swapout_page(), when a fault of the process evicts a dirty page: a *)
(* process that has not called exec since its fork makes its swap file     *)
(* here.  The first slot that is free lies within the file or at its end.  *)
SwapOut(p) ==
    /\ Call(p, "swapout")
    /\ Go(p, Thread("swapout"))
    /\ UNCHANGED <<fs, ilk, proc, ftable, outstanding, durable, boot, dropped>>

SwapOutCreate(p) ==
    /\ At(p, "swapout") /\ proc[p].swapfile = 0
    /\ SwapPath(p, "swap", "create", "swapout_created")

SwapOutBegin(p) ==
    /\ \/ At(p, "swapout") /\ proc[p].swapfile # 0
       \/ At(p, "swapout_created")
    /\ IF proc[p].swapfile = 0
       THEN Go(p, Thread("user")) /\ UNCHANGED outstanding
       ELSE Go(p, Thread("swapout_write")) /\ BeginOp
    /\ UNCHANGED <<fs, ilk, proc, ftable, durable, boot, dropped, bounds>>

SwapOutWrite(p) ==
    /\ At(p, "swapout_write")
    /\ LET i == ftable[proc[p].swapfile].ip
           s == Iload(fs, i)
       IN  /\ ilk[i] = 0
           /\ \E slot \in 0 .. s.mem[i].size : fs' = Writei(s, i, slot, <<Data>>).fs
    /\ Go(p, Thread("end"))
    /\ UNCHANGED <<ilk, Rest>>

(* The mutant does not take a reference to the parent's program. *)
Fork_NoIdup(p) ==
    /\ Call(p, "fork")
    /\ \E q \in Proc :
         /\ At(q, "unused")
         /\ th' = [th EXCEPT ![q] = Thread("user")]
         /\ proc' = [proc EXCEPT ![q] = [proc[p] EXCEPT !.swapfile = 0]]
    /\ ftable' = [f \in File |->
                    [ftable[f] EXCEPT !.ref = @ + Cardinality({d \in Fd : proc[p].ofile[d] = f})]]
    /\ fs' = [fs EXCEPT !.ref[proc[p].cwd] = @ + 1]
    /\ UNCHANGED <<ilk, outstanding, durable, boot, dropped>>

(* kfork(); one that fails has taken no reference yet and is not a step.   *)
Fork(p) ==
    /\ Call(p, "fork")
    /\ \E q \in Proc :
         /\ At(q, "unused")
         /\ th' = [th EXCEPT ![q] = Thread("user")]
         /\ proc' = [proc EXCEPT ![q] = [proc[p] EXCEPT !.swapfile = 0]]
    /\ ftable' = [f \in File |->
                    [ftable[f] EXCEPT !.ref = @ + Cardinality({d \in Fd : proc[p].ofile[d] = f})]]
    /\ fs' = LET s == [fs EXCEPT !.ref[proc[p].cwd] = @ + 1]
             IN  IF proc[p].exec_ip = 0 THEN s ELSE [s EXCEPT !.ref[proc[p].exec_ip] = @ + 1]
    /\ UNCHANGED <<ilk, outstanding, durable, boot, dropped>>

(* kexit(): files one by one, then the current directory. *)
Exit(p) ==
    /\ p # 1
    /\ Call(p, "exit")
    /\ Go(p, Thread("exit_files"))
    /\ UNCHANGED <<fs, ilk, proc, ftable, outstanding, durable, boot, dropped>>

ExitFiles(p) ==
    /\ At(p, "exit_files")
    /\ IF Opened(p) # {}
       THEN /\ proc' = [proc EXCEPT ![p].ofile[Min(Opened(p))] = 0]
            /\ FileClose(p, proc[p].ofile[Min(Opened(p))], "exit_files")
       ELSE /\ proc' = [proc EXCEPT ![p].cwd = 0]
            /\ Go(p, [Thread("end") EXCEPT !.ret = "exit_swap", !.put = <<proc[p].cwd>>])
            /\ BeginOp
            /\ UNCHANGED ftable
    /\ UNCHANGED <<fs, ilk, durable, boot, dropped, bounds>>

ExitSwap(p) ==
    /\ At(p, "exit_swap")
    /\ \/ /\ proc[p].swapfile # 0
          /\ SwapPath(p, "cleanup", "unlink", "exit_close")
       \/ /\ proc[p].swapfile = 0
          /\ Go(p, Thread("zombie"))
          /\ UNCHANGED <<fs, ilk, Rest>>

ExitClose(p) ==
    /\ At(p, "exit_close")
    /\ proc' = [proc EXCEPT ![p].swapfile = 0]
    /\ FileClose(p, proc[p].swapfile, "zombie")
    /\ UNCHANGED <<fs, ilk, durable, boot, dropped, bounds>>

(* freeproc(), run by the parent: iput() without a transaction. *)
FreeProc(p) ==
    /\ At(p, "zombie")
    /\ proc' = [proc EXCEPT ![p] = NoProc]
    /\ Go(p, [Thread("unused") EXCEPT
                !.put = IF proc[p].exec_ip = 0 THEN <<>> ELSE <<proc[p].exec_ip>>])
    /\ UNCHANGED <<fs, ilk, ftable, outstanding, durable, boot, dropped, bounds>>

-----------------------------------------------------------------------------
(* Crash and boot *)

Crash ==
    /\ bounds.crashes > 0
    /\ bounds' = [bounds EXCEPT !.crashes = @ - 1]
    /\ fs' = Booted(durable)
    /\ ilk' = [i \in Inum |-> 0]
    /\ th' = BootedThreads
    /\ proc' = BootedProcs
    /\ ftable' = [f \in File |-> NoFile]
    /\ outstanding' = 0
    /\ boot' = 1
    /\ dropped' = [i \in Inum |-> 0]
    /\ UNCHANGED durable

(* ireclaim(), an inode a step, each orphan freed in a transaction.  The   *)
(* mutant stops at the first free inode.                                   *)
Ireclaim_StopsEarly ==
    /\ boot > 0
    /\ boot' = IF boot = NINODES \/ fs.din[boot].type = "free" THEN 0 ELSE boot + 1
    /\ LET d == fs.din[boot]
           s == Itrunc(Iload(fs, boot), boot)
       IN  fs' = IF d.type # "free" /\ d.nlink = 0
                 THEN [Iupdate([s EXCEPT !.mem[boot].type = "free"], boot)
                         EXCEPT !.valid[boot] = FALSE]
                 ELSE fs
    /\ durable' = Disk(fs')
    /\ UNCHANGED <<ilk, th, proc, ftable, outstanding, dropped, bounds>>

Ireclaim ==
    /\ boot > 0
    /\ boot' = IF boot = NINODES THEN 0 ELSE boot + 1
    /\ LET d == fs.din[boot]
           s == Itrunc(Iload(fs, boot), boot)
       IN  fs' = IF d.type # "free" /\ d.nlink = 0
                 THEN [Iupdate([s EXCEPT !.mem[boot].type = "free"], boot)
                         EXCEPT !.valid[boot] = FALSE]
                 ELSE fs
    /\ durable' = Disk(fs')
    /\ UNCHANGED <<ilk, th, proc, ftable, outstanding, dropped, bounds>>

Step(p) ==
    \/ IputTest(p) \/ IputFree(p) \/ IputDrop(p) \/ EndOp(p)
    \/ NamexEnd(p) \/ NamexElement(p)
    \/ PathCall(p) \/ Open(p) \/ Create(p) \/ CreateExists(p) \/ CreateIalloc(p)
    \/ CreateInit(p) \/ Chdir(p) \/ LinkOld(p) \/ LinkNew(p) \/ LinkBad(p)
    \/ UnlinkParent(p) \/ UnlinkEntry(p)
    \/ Exec(p) \/ ExecBad(p) \/ ExecCommit(p) \/ SwapCreate(p)
    \/ SwapOut(p) \/ SwapOutCreate(p) \/ SwapOutBegin(p) \/ SwapOutWrite(p)
    \/ Close(p) \/ Dup(p) \/ Read(p) \/ WriteBegin(p) \/ WriteChunk(p)
    \/ Fork(p) \/ Exit(p) \/ ExitFiles(p) \/ ExitSwap(p) \/ ExitClose(p) \/ FreeProc(p)

Next == Crash \/ Ireclaim \/ \E p \in Proc : Step(p)

Spec == Init /\ [][Next]_vars

(* With files that are not programs among those that exec is called for. *)
BadHeaderSpec == Init /\ [][Next \/ \E p \in Proc : ExecBadHeader(p)]_vars

-----------------------------------------------------------------------------
(* Properties *)

Allocated == {i \in Inum : fs.din[i].type # "free"}
Dirs == {i \in Inum : fs.din[i].type = "dir"}

(* The names in directory d with the inodes they stand for. *)
Names(d) == {<<CellAt(fs, fs.din[d], o)[2], CellAt(fs, fs.din[d], o)[3]>> :
               o \in {x \in Entries(fs, fs.din[d]) : CellAt(fs, fs.din[d], x) # Data}}

(* Every block belongs to at most one inode, and the free map is exactly   *)
(* the set of blocks that do: no block is lost and none is shared, however *)
(* writes, truncations, calls that fail half-way and crashes follow each   *)
(* other (balloc, bmap, itrunc, iput, ireclaim).                           *)
BlocksOwned ==
    /\ fs.used = UNION {BlocksOf(fs, fs.din[i]) : i \in Inum}
    /\ Cardinality(fs.used) =
         MapThenSumSet(LAMBDA i : Cardinality(BlocksOf(fs, fs.din[i])), Inum)

(* A directory that has not been removed holds "." for itself and ".." for *)
(* a directory that contains it, no name twice, and names only             *)
(* of allocated inodes, whose link counts cover all the names they have:   *)
(* an inode is never freed under a name (create, link, unlink, mkdir).     *)
NamesResolve ==
    \A d \in Dirs : fs.din[d].nlink > 0 =>
        /\ \A e \in Names(d) :
             /\ e[2] \in Allocated
             /\ e[1] = "." => e[2] = d
             /\ e[1] = ".." => e[2] \in Dirs /\ (d = ROOTINO \/ \E n \in Names(e[2]) : n[2] = d)
             /\ e[1] \notin {".", ".."} =>
                  fs.din[e[2]].nlink >=
                    MapThenSumSet(LAMBDA k : Cardinality({n \in Names(k) : n[2] = e[2]} \ {<<".", k>>}),
                                  {k \in Dirs : fs.din[k].nlink > 0} \ {ROOTINO})
                    + Cardinality({n \in Names(ROOTINO) : n[2] = e[2]})
        /\ {".", ".."} \subseteq {e[1] : e \in Names(d)}
        /\ Cardinality({e[1] : e \in Names(d)}) = Cardinality(Entries(fs, fs.din[d]))

(* The pointers to an inode; dropped[i] are those a second exec has lost.  *)
Held(t) == <<t.cur, t.dp, t.ip>> \o t.put

Pointers(i) ==
    dropped[i] + Cardinality({f \in File : ftable[f].ip = i})
               + Cardinality({p \in Proc : proc[p].cwd = i})
               + Cardinality({p \in Proc : proc[p].exec_ip = i})
               + MapThenSumSet(LAMBDA p : Len(SelectSeq(Held(th[p]), LAMBDA j : j = i)), Proc)

(* ip->ref counts the pointers to the inode: from open files, current      *)
(* directories, the programs of processes, and the local variables of      *)
(* system calls, also while they wait for a lock; the only pointers that   *)
(* are ever lost are those a second exec overwrites.  f->ref counts the    *)
(* descriptors of an open file (iget, idup, iput, filedup, fileclose).     *)
RefsCounted ==
    ~Halted(fs) /\ boot = 0 =>
    /\ \A i \in Inum : fs.ref[i] = Pointers(i)
    /\ \A f \in File :
         ftable[f].ref = Cardinality({e \in Proc \X Fd : proc[e[1]].ofile[e[2]] = f})
                         + Cardinality({p \in Proc : proc[p].swapfile = f})

(* "All calls to iput() must be inside a transaction in case it has to     *)
(* free the inode": an inode is freed only while a transaction is open.    *)
(* Not so when freeproc() puts a program that has been removed: see the    *)
(* run removed_program.                                                    *)
FreesInTransaction == \A p \in Proc : th[p].freeing # "" => outstanding > 0

(* Whatever a crash interrupted, when ireclaim() is done every allocated   *)
(* inode has a link, and what is on disk is what is in memory.             *)
BootLeavesNoOrphans ==
    [][boot # 0 /\ boot' = 0 => /\ \A i \in Inum : fs'.din[i].type # "free" => fs'.din[i].nlink > 0
                                /\ durable' = Disk(fs')]_vars

(* No set of processes waits for inode locks that they hold themselves:    *)
(* the order in which create and unlink lock a directory and its entry,    *)
(* and namex() locks one directory after another, cannot close a cycle.    *)
Wanted(p) ==
    LET t == th[p]
    IN  CASE t.put # <<>> -> IF t.freeing = "" /\ fs.ref[Head(t.put)] = 1 /\ fs.valid[Head(t.put)]
                                /\ fs.mem[Head(t.put)].nlink = 0 THEN Head(t.put) ELSE 0
          [] t.pc = "namex" -> IF t.path = <<>> THEN 0 ELSE t.cur
          [] t.pc \in {"create_exists", "create_init", "unlink_entry", "link_bad"} -> t.ip
          [] t.pc = "write" -> ftable[t.file].ip
          [] t.pc = "swapout_write" -> ftable[proc[p].swapfile].ip
          [] OTHER -> t.cur

LocksAcyclic ==
    \A S \in SUBSET Proc \ {{}} :
        \E p \in S : Wanted(p) = 0 \/ ilk[Wanted(p)] \notin S

(* The panics the file system reaches are these and no others: ilock() of  *)
(* an inode that has been freed, which a removed but still used directory  *)
(* names as "..", a link that nlink does not count; log_write() outside a  *)
(* transaction, when freeproc() puts a removed program; and iget() with    *)
(* every entry of the inode table in use, or lost by a second exec, and    *)
(* none taken for any other reason.  So bfree() frees no free block,       *)
(* sys_unlink() finds a link to take, and no other path locks a freed      *)
(* inode or frees one outside a transaction.                               *)
OnlyKnownPanics ==
    Halted(fs) =>
        \/ /\ fs.panic[1] = "ilock"
           /\ \E d \in Dirs : /\ fs.din[d].nlink = 0 /\ fs.ref[d] > 0
                               /\ <<"..", fs.panic[2]>> \in Names(d)
        \/ /\ fs.panic[1] = "log_write"
           /\ \E p \in Proc : th[p].pc = "unused" /\ th[p].freeing = "drop"
        \/ /\ fs.panic[1] = "iget"
           /\ \A i \in Inum : fs.ref[i] > 0 => fs.ref[i] = Pointers(i)

(* A step other than a crash adds or removes at most one name of each      *)
(* remaining directory, and never makes a name stand for another inode at  *)
(* once; a directory disappears from its parent only when it is empty.     *)
NamesAtomic ==
    [][boot' # 1 /\ ~Halted(fs') =>
        \A d \in Dirs \cap Dirs' : fs'.din[d].nlink > 0 /\ fs.din[d].nlink > 0 =>
            /\ Cardinality(Names(d) \ Names(d)') + Cardinality(Names(d)' \ Names(d)) <= 1
            /\ \A e \in Names(d) \ Names(d)' :
                 e[2] \in Dirs => {n[1] : n \in Names(e[2])'} \subseteq {".", ".."}]_vars

=============================================================================
