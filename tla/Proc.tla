-------------------------------- MODULE Proc --------------------------------
(***************************************************************************)
(* Processes on several CPUs (kernel/proc.c, spinlock.c, sleeplock.c, and  *)
(* the interrupts of trap.c): the scheduler, sched, yield, sleep and       *)
(* wakeup, fork, exit, wait and kill, the clock, and a page fault that     *)
(* reads from the disk under a sleep lock.                                 *)
(*                                                                         *)
(* A spin lock belongs to a CPU.  A step of a thread is what it does up to *)
(* the next lock that it takes.  Two subroutines have steps of their own,  *)
(* kept in sub: sleep(), which holds p->lock across the switch to the      *)
(* scheduler, and wakeup(), which takes the p->locks one after the other.  *)
(* Locks that are taken and released within one step are not shown.        *)
(***************************************************************************)
EXTENDS Integers, FiniteSets, FiniteSetsExt

CONSTANTS
  NPROC,     \* slots of the process table; slot 1 is initproc
  Cpu, NoCpu,
  Menu,      \* bound: sets of calls; the programs of a run use one of them
  MaxCalls   \* bound: calls and page faults that user processes make, for each menu

ASSUME ProcAssumption ==
  /\ NPROC \in Nat /\ NPROC > 1
  /\ NoCpu \notin Cpu /\ MaxCalls \in [Menu -> Nat]

Slot == 1 .. NPROC
initproc == 1
NoProc == 0
Lock == {"wait", "ticks", "sleep lock", "disk", "pipe", "cons", "uart"}

\* A channel is an address: of a variable, or of a process.
Chan(name) == <<name, 0>>
ProcChan(p) == <<"proc", p>>
NoChan == Chan("none")

VARIABLES
  state, chan, killed, parent,   \* fields of struct proc
  plock,     \* CPU that holds p->lock
  lock,      \* CPU that holds each other spin lock
  on,        \* c->proc
  pc,        \* where each thread is
  sub,       \* its call of sleep() or wakeup()
  loc,       \* its local variables
  inode,     \* the process that holds the sleep lock of the inode
  busy,      \* processes whose disk request is in progress
  panicked,
  menu, calls  \* for the bounds

tableVars == <<state, chan, killed, parent>>
bounds == <<menu, calls>>
threadVars == <<pc, sub, loc>>
deviceVars == <<inode, busy>>
procVars == <<tableVars, plock, lock, on, threadVars, deviceVars, panicked, bounds>>

NoSub == [op |-> "none", chan |-> NoChan, lk |-> "wait", todo |-> {}]
NoLocals == [i |-> 0, n |-> 0, back |-> "user"]

\* The machine has booted: initproc sleeps in kwait(), and its child, process 2,
\* may have forked the processes up to n.
ProcInit(n) ==
  /\ state = [p \in Slot |-> IF p = initproc THEN "SLEEPING"
                             ELSE IF p <= n THEN "RUNNABLE" ELSE "UNUSED"]
  /\ chan = [p \in Slot |-> IF p = initproc THEN ProcChan(p) ELSE NoChan]
  /\ killed = [p \in Slot |-> FALSE]
  /\ parent = [p \in Slot |-> IF p = 2 THEN initproc
                               ELSE IF p \in 3 .. n THEN 2 ELSE NoProc]
  /\ plock = [p \in Slot |-> NoCpu]
  /\ lock = [l \in Lock |-> NoCpu]
  /\ on = [c \in Cpu |-> NoProc]
  /\ pc = [p \in Slot |-> IF p = initproc THEN "wait_scan" ELSE "user"]
  /\ sub = [p \in Slot |-> IF p = initproc THEN [NoSub EXCEPT !.op = "relock"]
                           ELSE NoSub]
  /\ loc = [p \in Slot |-> NoLocals]
  /\ inode = NoProc
  /\ busy = {}
  /\ panicked = ""
  /\ menu \in Menu

Running(p) == panicked = "" /\ state[p] = "RUNNING"
At(p, at) == Running(p) /\ sub[p].op = "none" /\ pc[p] = at
In(p, op) == Running(p) /\ sub[p].op = op
CpuOf(p) == CHOOSE c \in Cpu : on[c] = p

\* mycpu()->noff: every acquire() has a push_off().
noff(c) == Cardinality({q \in Slot : plock[q] = c})
           + Cardinality({l \in Lock : lock[l] = c})

Go(p, at) == pc' = [pc EXCEPT ![p] = at]

\* The system call returns.
Done(p) == Go(p, "user") /\ loc' = [loc EXCEPT ![p] = NoLocals]

Acquire(p, l) == lock[l] = NoCpu /\ lock' = [lock EXCEPT ![l] = CpuOf(p)]
Release(l) == lock' = [lock EXCEPT ![l] = NoCpu]

\* sched() is entered by CPU c with p->lock and the locks in held.
SchedPanics(p, c, held) ==
  IF held # {} \/ {q \in Slot \ {p} : plock[q] = c} # {} THEN "sched" ELSE ""

HeldBy(c, l) == {k \in Lock \ {l} : lock[k] = c}

-----------------------------------------------------------------------------
(* scheduler(), sched(), the timer. *)

\* The scheduler of c finds p.  The rest of the switch happens under
\* p->lock: forkret(), yield() or sleep() releases it.
Dispatch(c, p) ==
  /\ panicked = "" /\ on[c] = NoProc
  /\ state[p] = "RUNNABLE" /\ plock[p] = NoCpu
  /\ state' = [state EXCEPT ![p] = "RUNNING"]
  /\ chan' = [chan EXCEPT ![p] = NoChan]
  /\ on' = [on EXCEPT ![c] = p]
  /\ UNCHANGED <<killed, parent, plock, lock, threadVars, deviceVars, panicked,
                 bounds>>

\* Back in scheduler(): the process is off the CPU before its lock is free.
Unswitch(c) ==
  /\ panicked = "" /\ on[c] # NoProc /\ state[on[c]] # "RUNNING"
  /\ on' = [on EXCEPT ![c] = NoProc]
  /\ plock' = [plock EXCEPT ![on[c]] = NoCpu]
  /\ UNCHANGED <<tableVars, lock, threadVars, deviceVars, panicked, bounds>>

\* Processes that wakeup(ch) from an interrupt makes runnable.
Woken(ch) == {q \in Slot : state[q] = "SLEEPING" /\ chan[q] = ch}

\* A timer interrupt: clockintr(), which advances ticks on the first CPU (here
\* any), then the interrupted process, if there is one, yields, or exits when
\* it was killed.
Timer(c, first) ==
  LET p == on[c]
      exits == p # NoProc /\ pc[p] = "user" /\ killed[p]
      yields == p # NoProc /\ ~exits
  IN  /\ panicked = "" /\ noff(c) = 0
      /\ first \/ p # NoProc
      /\ p # NoProc => state[p] = "RUNNING"
      /\ first => lock["ticks"] = NoCpu /\ \A q \in Woken(Chan("ticks")) : plock[q] = NoCpu
      /\ loc' = [q \in Slot |-> IF first /\ pc[q] = "pause" /\ loc[q].i < loc[q].n
                                THEN [loc[q] EXCEPT !.i = @ + 1] ELSE loc[q]]
      /\ state' = [q \in Slot |->
                     IF first /\ q \in Woken(Chan("ticks")) THEN "RUNNABLE"
                     ELSE IF yields /\ q = p THEN "RUNNABLE" ELSE state[q]]
      /\ plock' = IF yields THEN [plock EXCEPT ![p] = c] ELSE plock
      /\ pc' = IF exits THEN [pc EXCEPT ![p] = "exit"] ELSE pc
      /\ UNCHANGED <<chan, killed, parent, lock, on, sub, inode, busy,
                     panicked, bounds>>

-----------------------------------------------------------------------------
(* sleep(), wakeup(), kill(). *)

Sleep(p, ch, lk, at) ==
  /\ sub' = [sub EXCEPT ![p] = [op |-> "sleep", chan |-> ch, lk |-> lk, todo |-> {}]]
  /\ Go(p, at)

Wakeup(p, ch, at) ==
  /\ sub' = [sub EXCEPT ![p] = [op |-> "wakeup", chan |-> ch, lk |-> "wait",
                                todo |-> Slot \ {p}]]
  /\ Go(p, at)

\* Mutant: the condition's lock is released before p->lock is taken.
SleepLock_ReleasesFirst(p) ==
  /\ In(p, "sleep")
  /\ Release(sub[p].lk)
  /\ sub' = [sub EXCEPT ![p].op = "switch"]
  /\ UNCHANGED <<tableVars, plock, on, pc, loc, deviceVars, panicked, bounds>>

SleepLock(p) ==
  /\ In(p, "sleep")
  /\ plock[p] = NoCpu
  /\ plock' = [plock EXCEPT ![p] = CpuOf(p)]
  /\ sub' = [sub EXCEPT ![p].op = "switch"]
  /\ UNCHANGED <<tableVars, lock, on, pc, loc, deviceVars, panicked, bounds>>

\* Mutant: p->lock is released before the switch.
SleepSwitch_EarlyRelease(p) ==
  /\ In(p, "switch")
  /\ Release(sub[p].lk)
  /\ chan' = [chan EXCEPT ![p] = sub[p].chan]
  /\ state' = [state EXCEPT ![p] = "SLEEPING"]
  /\ sub' = [sub EXCEPT ![p].op = "relock"]
  /\ plock' = [plock EXCEPT ![p] = NoCpu]
  /\ UNCHANGED <<killed, parent, on, pc, loc, deviceVars, panicked, bounds>>

SleepSwitch(p) ==
  LET c == CpuOf(p)
      lk == sub[p].lk
  IN  /\ In(p, "switch")
      /\ Release(lk)
      /\ chan' = [chan EXCEPT ![p] = sub[p].chan]
      /\ state' = [state EXCEPT ![p] = "SLEEPING"]
      /\ sub' = [sub EXCEPT ![p].op = "relock"]
      /\ panicked' = SchedPanics(p, c, HeldBy(c, lk))
      /\ UNCHANGED <<killed, parent, plock, on, pc, loc, deviceVars, bounds>>

Relock(p) ==
  /\ In(p, "relock")
  /\ Acquire(p, sub[p].lk)
  /\ sub' = [sub EXCEPT ![p] = NoSub]
  /\ UNCHANGED <<tableVars, plock, on, pc, loc, deviceVars, panicked, bounds>>

\* One round of the loop of wakeup().
WakeOne(p) ==
  LET q == Min(sub[p].todo)
      rest == sub[p].todo \ {q}
  IN  /\ In(p, "wakeup")
      /\ plock[q] = NoCpu
      /\ state' = [state EXCEPT ![q] = IF q \in Woken(sub[p].chan) THEN "RUNNABLE"
                                       ELSE @]
      /\ sub' = [sub EXCEPT ![p] = IF rest = {} THEN NoSub
                                   ELSE [@ EXCEPT !.todo = rest]]
      /\ UNCHANGED <<chan, killed, parent, plock, lock, on, pc, loc, deviceVars,
                     panicked, bounds>>

Subroutines(p) == SleepLock(p) \/ SleepSwitch(p) \/ Relock(p) \/ WakeOne(p)

\* A system call starts; usertrap() lets no killed process make one.
Enter(p, call) ==
  /\ At(p, "user") /\ p # initproc /\ ~killed[p]
  /\ call \in menu /\ calls < MaxCalls[menu]
  /\ calls' = calls + 1 /\ UNCHANGED menu

kkill(p, q) ==
  /\ Enter(p, "kill")
  /\ state[q] # "UNUSED" /\ plock[q] = NoCpu
  /\ killed' = [killed EXCEPT ![q] = TRUE]
  /\ state' = [state EXCEPT ![q] = IF @ = "SLEEPING" THEN "RUNNABLE" ELSE @]
  /\ Go(p, "user")
  /\ UNCHANGED <<chan, parent, plock, lock, on, sub, loc, deviceVars, panicked>>

\* usertrap(), before or after a call.
Return(p) ==
  /\ At(p, "user") /\ killed[p]
  /\ Go(p, "exit")
  /\ UNCHANGED <<tableVars, plock, lock, on, sub, loc, deviceVars, panicked, bounds>>

-----------------------------------------------------------------------------
(* sys_pause(): i is ticks - ticks0, which clockintr() advances. *)

Pause(p, n) ==
  /\ Enter(p, "pause")
  /\ Acquire(p, "ticks")
  /\ loc' = [loc EXCEPT ![p] = [@ EXCEPT !.i = 0, !.n = n]]
  /\ Go(p, "pause")
  /\ UNCHANGED <<tableVars, plock, on, sub, deviceVars, panicked>>

PauseLoop(p) ==
  /\ At(p, "pause")
  /\ IF loc[p].i >= loc[p].n \/ killed[p]
     THEN Release("ticks") /\ Done(p) /\ UNCHANGED sub
     ELSE Sleep(p, Chan("ticks"), "ticks", "pause") /\ UNCHANGED <<lock, loc>>
  /\ UNCHANGED <<tableVars, plock, on, deviceVars, panicked, bounds>>

-----------------------------------------------------------------------------
(* kfork(): the child is visible, without a parent, before it can run. *)

ForkAlloc(p, q) ==
  /\ Enter(p, "fork") /\ state[q] = "UNUSED"
  /\ \A r \in 1 .. q - 1 : state[r] # "UNUSED"
  /\ state' = [state EXCEPT ![q] = "USED"]
  /\ pc' = [pc EXCEPT ![p] = "fork_parent", ![q] = "user"]
  /\ sub' = [sub EXCEPT ![q] = NoSub]
  /\ loc' = [loc EXCEPT ![p].n = q, ![q] = NoLocals]
  /\ UNCHANGED <<chan, killed, parent, plock, lock, on, deviceVars, panicked>>

\* allocproc() or uvmcopy() fails.
ForkFail(p) ==
  /\ Enter(p, "fork")
  /\ Go(p, "user")
  /\ UNCHANGED <<tableVars, plock, lock, on, sub, loc, deviceVars, panicked>>

ForkParent(p) ==
  /\ At(p, "fork_parent") /\ lock["wait"] = NoCpu
  /\ parent' = [parent EXCEPT ![loc[p].n] = p]
  /\ Go(p, "fork_run")
  /\ UNCHANGED <<state, chan, killed, plock, lock, on, sub, loc, deviceVars,
                 panicked, bounds>>

ForkRun(p) ==
  /\ At(p, "fork_run")
  /\ state' = [state EXCEPT ![loc[p].n] = "RUNNABLE"]
  /\ Done(p)
  /\ UNCHANGED <<chan, killed, parent, plock, lock, on, sub, deviceVars,
                 panicked, bounds>>

-----------------------------------------------------------------------------
(* kwait(), kexit(). *)

Children(p) == {q \in Slot : parent[q] = p}

\* initproc waits whenever it runs.
Wait(p) ==
  /\ Enter(p, "wait") \/ (At(p, "user") /\ p = initproc /\ ~killed[p] /\ UNCHANGED bounds)
  /\ Go(p, "wait")
  /\ UNCHANGED <<tableVars, plock, lock, on, sub, loc, deviceVars, panicked>>

WaitLock(p) ==
  /\ At(p, "wait")
  /\ Acquire(p, "wait")
  /\ Go(p, "wait_scan")
  /\ UNCHANGED <<tableVars, plock, on, sub, loc, deviceVars, panicked, bounds>>

\* freeproc().
FreeProc(q) ==
  /\ state' = [state EXCEPT ![q] = "UNUSED"]
  /\ chan' = [chan EXCEPT ![q] = NoChan]
  /\ killed' = [killed EXCEPT ![q] = FALSE]
  /\ parent' = [parent EXCEPT ![q] = NoProc]

\* A zombie is found.  Its lock is free only when it has left its CPU.
Reap(p) ==
  LET zombies == {r \in Children(p) : state[r] = "ZOMBIE"}
  IN  /\ At(p, "wait_scan") /\ zombies # {}
      /\ plock[Min(zombies)] = NoCpu
      /\ \/ FreeProc(Min(zombies))
         \/ p # initproc /\ UNCHANGED tableVars   \* copyout() fails
      /\ Release("wait")
      /\ Go(p, "user")
      /\ UNCHANGED <<plock, on, sub, loc, deviceVars, panicked, bounds>>

WaitScan(p) ==
  /\ At(p, "wait_scan")
  /\ \A q \in Children(p) : state[q] # "ZOMBIE"
  /\ IF Children(p) = {} \/ killed[p]
     THEN Release("wait") /\ Go(p, "user") /\ UNCHANGED sub
     ELSE Sleep(p, ProcChan(p), "wait", "wait_scan") /\ UNCHANGED lock
  /\ UNCHANGED <<tableVars, plock, on, loc, deviceVars, panicked, bounds>>

\* sys_exit().
Exit(p) ==
  /\ Enter(p, "exit")
  /\ Go(p, "exit")
  /\ UNCHANGED <<tableVars, plock, lock, on, sub, loc, deviceVars, panicked>>

\* kexit() panics in initproc, which kkill() does not spare.
ExitInit ==
  /\ At(initproc, "exit")
  /\ panicked' = "init exiting"
  /\ UNCHANGED <<tableVars, plock, lock, on, threadVars, deviceVars, bounds>>

\* Mutant: the children are not given to initproc.
ExitLock_NoReparent(p) ==
  /\ At(p, "exit_lock")
  /\ Acquire(p, "wait")
  /\ Go(p, "exit_wakeup")
  /\ UNCHANGED <<tableVars, sub, plock, on, loc, deviceVars, panicked, bounds>>

\* kexit() once the files are closed: reparent() and its wakeup of initproc.
ExitLock(p) ==
  /\ At(p, "exit_lock")
  /\ Acquire(p, "wait")
  /\ parent' = [q \in Slot |-> IF q \in Children(p) THEN initproc ELSE parent[q]]
  /\ IF Children(p) = {} THEN Go(p, "exit_wakeup") /\ UNCHANGED sub
                         ELSE Wakeup(p, ProcChan(initproc), "exit_wakeup")
  /\ UNCHANGED <<state, chan, killed, plock, on, loc, deviceVars, panicked, bounds>>

ExitWakeup(p) ==
  /\ At(p, "exit_wakeup")
  /\ Wakeup(p, ProcChan(parent[p]), "exit_zombie")
  /\ UNCHANGED <<tableVars, plock, lock, on, loc, deviceVars, panicked, bounds>>

\* Mutant: wait_lock is still held when sched() is called.
ExitZombie_KeepsWaitLock(p) ==
  /\ At(p, "exit_zombie") /\ plock[p] = NoCpu
  /\ plock' = [plock EXCEPT ![p] = CpuOf(p)]
  /\ state' = [state EXCEPT ![p] = "ZOMBIE"]
  /\ panicked' = SchedPanics(p, CpuOf(p), {k \in Lock : lock[k] = CpuOf(p)})
  /\ UNCHANGED <<chan, killed, parent, lock, on, threadVars, deviceVars, bounds>>

ExitZombie(p) ==
  LET c == CpuOf(p)
  IN  /\ At(p, "exit_zombie") /\ plock[p] = NoCpu
      /\ plock' = [plock EXCEPT ![p] = c]
      /\ state' = [state EXCEPT ![p] = "ZOMBIE"]
      /\ Release("wait")
      /\ panicked' = SchedPanics(p, c, HeldBy(c, "wait"))
      /\ UNCHANGED <<chan, killed, parent, on, threadVars, deviceVars, bounds>>

-----------------------------------------------------------------------------
(* A page fault that reads the executable: ilock(), the disk, iunlock(). *)

PageFault(p) ==
  /\ Enter(p, "fault")
  /\ Go(p, "ilock")
  /\ UNCHANGED <<tableVars, plock, lock, on, sub, loc, deviceVars, panicked>>

\* acquiresleep(): the lock is taken, then the loop.
ILock(p) ==
  /\ At(p, "ilock")
  /\ Acquire(p, "sleep lock")
  /\ Go(p, "ilock_loop")
  /\ UNCHANGED <<tableVars, plock, on, sub, loc, deviceVars, panicked, bounds>>

ILockLoop(p) ==
  /\ At(p, "ilock_loop")
  /\ IF inode # NoProc
     THEN /\ Sleep(p, Chan("inode"), "sleep lock", "ilock_loop")
          /\ UNCHANGED <<inode, lock>>
     ELSE /\ inode' = p
          /\ Release("sleep lock")
          /\ Go(p, "rw")
          /\ UNCHANGED sub
  /\ UNCHANGED <<tableVars, plock, on, loc, busy, panicked, bounds>>

\* virtio_disk_rw().
DiskRw(p) ==
  /\ At(p, "rw")
  /\ Acquire(p, "disk")
  /\ busy' = busy \cup {p}
  /\ Go(p, "rw_loop")
  /\ UNCHANGED <<tableVars, plock, on, sub, loc, inode, panicked, bounds>>

DiskWait(p) ==
  /\ At(p, "rw_loop")
  /\ IF p \in busy
     THEN Sleep(p, Chan("buf"), "disk", "rw_loop") /\ UNCHANGED lock
     ELSE Release("disk") /\ Go(p, "iunlock") /\ UNCHANGED sub
  /\ UNCHANGED <<tableVars, plock, on, loc, deviceVars, panicked, bounds>>

\* virtio_disk_intr(), on any CPU that accepts interrupts.
DiskIntr ==
  /\ panicked = "" /\ busy # {}
  /\ \E c \in Cpu : noff(c) = 0
  /\ lock["disk"] = NoCpu
  /\ \A q \in Woken(Chan("buf")) : plock[q] = NoCpu
  /\ busy' = {}
  /\ state' = [q \in Slot |-> IF q \in Woken(Chan("buf")) THEN "RUNNABLE" ELSE state[q]]
  /\ UNCHANGED <<chan, killed, parent, plock, lock, on, threadVars,
                 inode, panicked, bounds>>

\* releasesleep().
IUnlock(p) ==
  /\ At(p, "iunlock")
  /\ Acquire(p, "sleep lock")
  /\ inode' = NoProc
  /\ Wakeup(p, Chan("inode"), "iunlocked")
  /\ UNCHANGED <<tableVars, plock, on, loc, busy, panicked, bounds>>

IUnlocked(p) ==
  /\ At(p, "iunlocked")
  /\ Release("sleep lock")
  /\ Go(p, loc[p].back) /\ loc' = [loc EXCEPT ![p].back = "user"]
  /\ UNCHANGED <<tableVars, plock, on, sub, deviceVars, panicked, bounds>>

ProcStep(p) ==
  \/ Subroutines(p) \/ Return(p)
  \/ PauseLoop(p) \/ (\E n \in 0 .. 1 : Pause(p, n))
  \/ ForkFail(p) \/ ForkParent(p) \/ ForkRun(p)
  \/ Wait(p) \/ WaitLock(p) \/ Reap(p) \/ WaitScan(p)
  \/ Exit(p) \/ ExitLock(p) \/ ExitWakeup(p) \/ ExitZombie(p)
  \/ (\E q \in Slot : kkill(p, q))
  \/ PageFault(p) \/ ILock(p) \/ ILockLoop(p) \/ DiskRw(p) \/ DiskWait(p)
  \/ IUnlock(p) \/ IUnlocked(p)
=============================================================================
