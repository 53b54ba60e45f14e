-------------------------------- MODULE Pipe --------------------------------
(***************************************************************************)
(* Pipes (kernel/pipe.c) between processes: pipealloc, pipewrite, piperead *)
(* and pipeclose, with the reference counts of the two files (file.c) that *)
(* fork, close and exit change.  Composed with module Proc.                *)
(***************************************************************************)
EXTENDS Proc, Sequences

CONSTANTS
  PIPESIZE,
  CountMod,  \* range of nread and nwrite, 2^32 in the code
  MaxBytes   \* bound: bytes of one read() or write()

ASSUME PipeAssumption ==
  /\ PIPESIZE \in Nat /\ PIPESIZE > 0 /\ MaxBytes \in Nat
  /\ CountMod \in Nat /\ CountMod > PIPESIZE /\ CountMod % PIPESIZE = 0

\* The contents of a byte: who wrote it, as which byte of the call.
Byte == (0 .. NPROC) \X (0 .. MaxBytes)

End == {"r", "w"}
closing == [r |-> "pipeclose_r", w |-> "pipeclose_w"]

VARIABLES
  pipe,      \* struct pipe, and whether its page is allocated
  ofile,     \* ends that each process has open
  ref,       \* f->ref of the two files
  ret,       \* result of the last read() or write()
  unheard    \* a write() failed after it had put bytes in the pipe

pipeVars == <<pipe, ofile, ref, ret, unheard>>
vars == <<procVars, pipeVars>>

NoPipe == [data |-> [i \in 0 .. PIPESIZE - 1 |-> <<0, 0>>],
           nread |-> 0, nwrite |-> 0, readopen |-> FALSE, writeopen |-> FALSE,
           live |-> FALSE]

\* After boot, or after process 2 has called pipe() and fork().
Init ==
  /\ \/ /\ ProcInit(2) /\ calls = 0
        /\ pipe = NoPipe
        /\ ofile = [p \in Slot |-> {}]
        /\ ref = [e \in End |-> 0]
     \/ /\ ProcInit(3) /\ calls = 2
        /\ pipe = [NoPipe EXCEPT !.readopen = TRUE, !.writeopen = TRUE,
                                 !.live = TRUE]
        /\ ofile = [p \in Slot |-> IF p \in {2, 3} THEN End ELSE {}]
        /\ ref = [e \in End |-> 2]
  /\ ret = [p \in Slot |-> "none"]
  /\ unheard = FALSE

Empty == pipe.nread = pipe.nwrite
\* Mutant: the sum does not wrap around.
Full_NoWrap == pipe.nwrite = pipe.nread + PIPESIZE

Full == pipe.nwrite = (pipe.nread + PIPESIZE) % CountMod

Bytes == (pipe.nwrite + CountMod - pipe.nread) % CountMod

Result(p, r) == ret' = [ret EXCEPT ![p] = r]

-----------------------------------------------------------------------------
(* pipealloc(), pipeclose(). *)

PipeAlloc(p) ==
  /\ Enter(p, "pipe") /\ ~pipe.live /\ ref = [e \in End |-> 0]
  /\ pipe' = [pipe EXCEPT !.nread = 0, !.nwrite = 0, !.readopen = TRUE,
                          !.writeopen = TRUE, !.live = TRUE]
  /\ ofile' = [ofile EXCEPT ![p] = End]
  /\ ref' = [e \in End |-> 1]
  /\ Go(p, "user")
  /\ unheard' = FALSE
  /\ UNCHANGED <<tableVars, plock, lock, on, sub, loc, deviceVars, panicked, ret>>

\* No file or no page is left: what has been allocated is given back, and
\* pipe() returns -1.
PipeAllocFails(p) ==
  /\ Enter(p, "pipe")
  /\ Go(p, "user")
  /\ UNCHANGED <<tableVars, plock, lock, on, sub, loc, deviceVars, panicked, pipeVars>>

\* filedup() of every open file, in kfork().
Fork(p, q) ==
  /\ ForkAlloc(p, q)
  /\ ofile' = [ofile EXCEPT ![q] = ofile[p]]
  /\ ref' = [e \in End |-> IF e \in ofile[p] THEN ref[e] + 1 ELSE ref[e]]
  /\ ret' = [ret EXCEPT ![q] = "none"]
  /\ UNCHANGED <<pipe, unheard>>

\* fileclose(): the last reference closes the end of the pipe.
FileClose(p, e, at) ==
  /\ ofile' = [ofile EXCEPT ![p] = @ \ {e}]
  /\ ref' = [ref EXCEPT ![e] = @ - 1]
  /\ IF ref[e] > 1 THEN Go(p, at) /\ UNCHANGED loc
     ELSE Go(p, closing[e]) /\ loc' = [loc EXCEPT ![p].back = at]

Close(p, e) ==
  /\ Enter(p, "close") /\ e \in ofile[p]
  /\ FileClose(p, e, "user")
  /\ UNCHANGED <<tableVars, plock, lock, on, sub, deviceVars, panicked, pipe,
                 ret, unheard>>

ExitFiles(p) ==
  /\ At(p, "exit") /\ p # initproc
  /\ IF ofile[p] = {} THEN Go(p, "exit_lock") /\ UNCHANGED <<ofile, ref, loc>>
     ELSE FileClose(p, IF "r" \in ofile[p] THEN "r" ELSE "w", "exit")
  /\ UNCHANGED <<tableVars, plock, lock, on, sub, deviceVars, panicked, bounds,
                 pipe, ret, unheard>>

PipeClose(p, e) ==
  /\ At(p, closing[e])
  /\ Acquire(p, "pipe")
  /\ pipe' = IF e = "w" THEN [pipe EXCEPT !.writeopen = FALSE]
                        ELSE [pipe EXCEPT !.readopen = FALSE]
  /\ Wakeup(p, Chan(IF e = "w" THEN "nread" ELSE "nwrite"), "pipeclosed")
  /\ UNCHANGED <<tableVars, plock, on, loc, deviceVars, panicked, bounds, ofile,
                 ref, ret, unheard>>

PipeClosed(p) ==
  /\ At(p, "pipeclosed")
  /\ Release("pipe")
  /\ pipe' = [pipe EXCEPT !.live = pipe.readopen \/ pipe.writeopen]
  /\ Go(p, loc[p].back) /\ loc' = [loc EXCEPT ![p].back = "user"]
  /\ UNCHANGED <<tableVars, plock, on, sub, deviceVars, panicked, bounds,
                 ofile, ref, ret, unheard>>

-----------------------------------------------------------------------------
(* pipewrite(). *)

PipeWrite(p, n) ==
  /\ Enter(p, "write") /\ "w" \in ofile[p]
  /\ Acquire(p, "pipe")
  /\ loc' = [loc EXCEPT ![p] = [@ EXCEPT !.i = 0, !.n = n]]
  /\ Go(p, "write")
  /\ Result(p, "none")
  /\ UNCHANGED <<tableVars, plock, on, sub, deviceVars, panicked, pipe, ofile,
                 ref, unheard>>

\* The top of the loop: the readers are gone, or the writer was killed.
WriteFails(p) ==
  /\ At(p, "write") /\ loc[p].i < loc[p].n
  /\ ~pipe.readopen \/ killed[p]
  /\ unheard' = (unheard \/ loc[p].i > 0)
  /\ Release("pipe")
  /\ Result(p, "fail")
  /\ Done(p)
  /\ UNCHANGED <<tableVars, plock, on, sub, deviceVars, panicked, bounds,
                 pipe, ofile, ref>>

WriteFull(p) ==
  /\ At(p, "write") /\ loc[p].i < loc[p].n
  /\ pipe.readopen /\ ~killed[p] /\ Full
  /\ Wakeup(p, Chan("nread"), "write_full")
  /\ UNCHANGED <<tableVars, plock, lock, on, loc, deviceVars, panicked, bounds,
                 pipeVars>>

WriteSleep(p) ==
  /\ At(p, "write_full")
  /\ Sleep(p, Chan("nwrite"), "pipe", "write")
  /\ UNCHANGED <<tableVars, plock, lock, on, loc, deviceVars, panicked, bounds,
                 pipeVars>>

\* A byte is copied in, or copyin() fails.
WriteByte(p) ==
  /\ At(p, "write") /\ loc[p].i < loc[p].n
  /\ pipe.readopen /\ ~killed[p] /\ ~Full
  /\ \/ /\ pipe' = [pipe EXCEPT !.data[pipe.nwrite % PIPESIZE] = <<p, loc[p].i>>,
                                !.nwrite = (@ + 1) % CountMod]
        /\ loc' = [loc EXCEPT ![p].i = @ + 1]
     \/ loc' = [loc EXCEPT ![p].n = loc[p].i] /\ UNCHANGED pipe
  /\ UNCHANGED <<tableVars, plock, lock, on, pc, sub, deviceVars, panicked, bounds,
                 ofile, ref, ret, unheard>>

WriteDone(p) ==
  /\ At(p, "write") /\ loc[p].i = loc[p].n
  /\ Wakeup(p, Chan("nread"), "rw_done")
  /\ Result(p, "ok")
  /\ UNCHANGED <<tableVars, plock, lock, on, loc, deviceVars, panicked, bounds,
                 pipe, ofile, ref, unheard>>

\* release(&pi->lock) at the end of pipewrite() and piperead().
PipeDone(p) ==
  /\ At(p, "rw_done")
  /\ Release("pipe")
  /\ Done(p)
  /\ UNCHANGED <<tableVars, plock, on, sub, deviceVars, panicked, bounds,
                 pipeVars>>

-----------------------------------------------------------------------------
(* piperead(). *)

PipeRead(p, n) ==
  /\ Enter(p, "read") /\ "r" \in ofile[p]
  /\ Acquire(p, "pipe")
  /\ loc' = [loc EXCEPT ![p].n = n]
  /\ Go(p, "read")
  /\ Result(p, "none")
  /\ UNCHANGED <<tableVars, plock, on, sub, deviceVars, panicked, pipe, ofile,
                 ref, unheard>>

ReadWait(p) ==
  /\ At(p, "read") /\ Empty /\ pipe.writeopen
  /\ IF killed[p]
     THEN Release("pipe") /\ Done(p) /\ Result(p, "fail") /\ UNCHANGED sub
     ELSE Sleep(p, Chan("nread"), "pipe", "read") /\ UNCHANGED <<lock, ret, loc>>
  /\ UNCHANGED <<tableVars, plock, on, deviceVars, panicked, bounds, pipe,
                 ofile, ref, unheard>>

\* m bytes are copied out: all there are or all that were asked for, unless
\* copyout() fails before that.
ReadCopy(p) ==
  /\ At(p, "read") /\ ~(Empty /\ pipe.writeopen)
  /\ \E m \in 0 .. Min({loc[p].n, Bytes}) :
       /\ pipe' = [pipe EXCEPT !.nread = (@ + m) % CountMod]
       /\ Result(p, IF m > 0 THEN "ok"
                    ELSE IF loc[p].n > 0 /\ Empty THEN "eof" ELSE "fail")
  /\ Wakeup(p, Chan("nwrite"), "rw_done")
  /\ UNCHANGED <<tableVars, plock, lock, on, loc, deviceVars, panicked, bounds,
                 ofile, ref, unheard>>

\* copyin() or copyout() finds the page absent: vmfault() reads it from the
\* executable, with the lock of the pipe held.
CopyFault(p) ==
  /\ \/ /\ At(p, "write") /\ loc[p].i < loc[p].n
        /\ pipe.readopen /\ ~killed[p] /\ ~Full
     \/ At(p, "read") /\ ~Empty
  /\ loc' = [loc EXCEPT ![p].back = pc[p]]
  /\ Go(p, "ilock")
  /\ UNCHANGED <<tableVars, plock, lock, on, sub, deviceVars, panicked, bounds,
                 pipeVars>>

PipeStep(p) ==
  \/ PipeAlloc(p) \/ PipeAllocFails(p) \/ ExitFiles(p) \/ PipeClosed(p)
  \/ \E e \in End : Close(p, e) \/ PipeClose(p, e)
  \/ \E q \in Slot : Fork(p, q)
  \/ \E n \in 1 .. MaxBytes : PipeWrite(p, n) \/ PipeRead(p, n)
  \/ WriteFails(p) \/ WriteFull(p) \/ WriteSleep(p) \/ WriteByte(p)
  \/ WriteDone(p) \/ PipeDone(p) \/ ReadWait(p) \/ ReadCopy(p)

Next ==
  \/ /\ \/ \E c \in Cpu : Unswitch(c) \/ (\E first \in BOOLEAN : Timer(c, first)) \/ \E p \in Slot : Dispatch(c, p)
        \/ \E p \in Slot : ProcStep(p)
        \/ DiskIntr \/ ExitInit
     /\ UNCHANGED pipeVars
  \/ \E p \in Slot : PipeStep(p)

\* The buffers of read() and write() are in memory.
Spec == Init /\ [][Next]_vars

\* They need not be.
LazySpec == Init /\ [][Next \/ \E p \in Slot : CopyFault(p)]_vars

-----------------------------------------------------------------------------
(* Properties. *)

\* sched() is entered with p->lock and no other lock held, so none of its
\* panics is reached.
SchedHoldsOnlyPLock == panicked # "sched"

\* A process is on one CPU at a time, and its kernel stack is in use by that
\* CPU until p->lock is free: wait() does not free it, and no other CPU runs
\* it, before it has been switched away from.
OnOneCPU ==
  /\ \A c \in Cpu : on[c] # NoProc =>
       /\ state[on[c]] = "RUNNING" \/ plock[on[c]] = c
       /\ state[on[c]] \notin {"UNUSED", "USED"}
       /\ \A d \in Cpu \ {c} : on[d] # on[c]
  /\ \A p \in Slot : state[p] = "RUNNING" => \E c \in Cpu : on[c] = p

\* Nobody sleeps through what they wait for.  With the condition's lock free,
\* a sleeping reader has nothing to read and a writer to wait for, a sleeping
\* writer faces a full pipe and a reader, a process in wait() has no dead
\* child, one in pause() has time left, one that waits for the sleep lock
\* waits for a holder, one that waits
\* for the disk has a request in progress.  The one exception: bytes
\* put in the pipe by a write() that then failed are announced to nobody.
NoLostWakeup ==
  \A p \in Slot : state[p] = "SLEEPING" =>
    /\ lock["pipe"] = NoCpu =>
         /\ chan[p] = Chan("nread") => pipe.writeopen /\ (Empty \/ unheard)
         /\ chan[p] = Chan("nwrite") => pipe.readopen /\ Full
    /\ lock["wait"] = NoCpu /\ chan[p] = ProcChan(p) =>
         /\ Children(p) # {}
         /\ \A q \in Children(p) : state[q] # "ZOMBIE"
    /\ lock["ticks"] = NoCpu /\ chan[p] = Chan("ticks") => loc[p].i < loc[p].n
    /\ lock["sleep lock"] = NoCpu /\ chan[p] = Chan("inode") => inode # NoProc
    /\ chan[p] = Chan("buf") => p \in busy

\* exit() leaves no orphan: the parent of every process is alive to wait for
\* it, except while fork() has not yet set it.
ParentsAlive ==
  \A p \in Slot \ {initproc} :
    IF state[p] \in {"UNUSED", "USED"}
    THEN state[p] = "UNUSED" => parent[p] = NoProc
    ELSE parent[p] # NoProc /\ state[parent[p]] \notin {"UNUSED", "USED", "ZOMBIE"}

C == INSTANCE PipeChannel WITH
       queue <- [i \in 1 .. (IF pipe.live THEN Bytes ELSE 0) |->
                   pipe.data[(pipe.nread + i - 1) % PIPESIZE]],
       holders <- [e \in End |-> {p \in Slot : e \in ofile[p]}],
       result <- ret

\* The ring buffer and its counters, which wrap around, and the flags and
\* reference counts behind them make a first-in first-out channel.
ImplementsPipeChannel == C!CSpec
=============================================================================
