# A TLA+ model of xv6 with demand paging and swapping

This directory holds a formal model of the system in `DemandPaging&Swapping`:
an xv6 (RISC-V) that loads programs page by page, evicts pages when memory is
full and writes dirty ones to a swap file per process, with its file system,
its processes and its main user programs. The modules are checked on small
instances with TLC; the theorems are proved with TLAPS for every instance.

## 1. The system

| Part | Code | Modules |
|---|---|---|
| Page faults, eviction, swapping, frame allocator, address spaces | `trap.c`, `vm.c`, `vm_bonus.c`, `swap.c`, `kalloc.c`, `exec.c`, `proc.c`, `sysproc.c` | `ProcVM`, `Paging`, and `PagingRefinement` against `UserMemory` |
| Scheduler, locks, sleep and wakeup, fork, exit, wait, kill, clock | `proc.c`, `spinlock.c`, `sleeplock.c`, `trap.c` | `Proc` |
| Pipes | `pipe.c`, `file.c` | `Pipe`, against `PipeChannel` |
| Console, serial port | `console.c`, `uart.c` | `Console`, against `LineInput` |
| Log and recovery | `log.c` | `Log`, against `Transactions` |
| Buffer cache, disk driver | `bio.c`, `virtio_disk.c` | `VirtioDisk`, `Bcache`, and `CacheRefinement` against `BlockStore` |
| Blocks, inodes, directories | `fs.c` | `Inodes` (functions on a file system state) |
| File system calls, swap files and program inodes of processes | `sysfile.c`, `file.c`, `fs.c`, `swap.c`, `exec.c`, `proc.c` | `FileSystem` |
| Image builder | `mkfs.c` | `Mkfs` |
| init, shell, allocator, grep | `init.c`, `sh.c`, `umalloc.c`, `grep.c` | `Shell`, `Commands`, `Malloc`, `Grep`, `Programs` |

How they meet: a fault handler takes frames from the allocator and sleeps for
the disk; eviction writes a file, so it opens a transaction of the log; the
log writes through the buffer cache, which sleeps in the disk driver; inodes
are changed only inside transactions; pipes, the console and `wait` sleep on
channels of the process table; a program's inode and swap file live as long as
its process. In the models each layer uses what the layer below promises:
`Bcache` contains the driver, `Console` contains `Pipe`, which contains
`Proc`; `FileSystem` uses the log as `Transactions` describes it, and `Log`
uses the cache as blocks that are cached, pinned or recycled.

## 2. Modules

`MC...` modules hold instances for TLC, `...Proofs` modules the theorems.

### Paging

`ProcVM` has the bookkeeping of one process as a record (`memstat`, swap
table, counters), and each helper that updates it as an operator. `Paging` is
the system. Addresses are page numbers; a page holds one value (`Zero`,
`Junk`, the arguments on the stack, a page of an executable, or something
stored). An address in a 32-bit field is taken modulo `UINT_PAGES`.

| Variable | Code |
|---|---|
| `pstate`, `parent`, `killed`, `sz` | fields of `struct proc`; `LIVE` covers `USED` to `RUNNING` |
| `image`, `low_sp` | `exec_ip` with the segment ranges; whether `stack_top` is exactly the bottom of the stack page |
| `pt`, `perm` | leaf page-table entries: frame and `PTE_U`, `PTE_W`, `PTE_X` |
| `vm`, `swap` | `memstat`, `swap_table`, counters, `swapfile`; contents of the swap file |
| `fault` | program counter and locals of a fault handler |
| `free`, `mem`, `panicked` | free list (a set: its order is not observable), contents of frames, kernel stopped |

| Action | Code |
|---|---|
| `TrapInvalid`, `TrapMapped`, `TrapMissing` | `usertrap`: kill; permission change or dirty mark; a page is needed |
| `CopyOut`, `CopyMissing` | `copyin`, `copyinstr`, `copyout`, first part of `vmfault` |
| `Kalloc`, `MemFull`, `NoVictim`, `Evict`, `RetryFails` | `try_kalloc_or_replace` |
| `LoadTrap`, `LoadCopy`, `LoadFails` | filling, mapping, recording the page in `usertrap` and `vmfault`; error paths |
| `SbrkLazy`, `SbrkEager`, `SbrkShrink`, `Fork`, `Exec`, `Exit`, `Wait`, `Kill` | the calls' effect on memory and bookkeeping |
| `Store` | a store instruction that the page table permits (hardware) |

A handler is cut at its calls of the frame allocator, because frames are the
only thing in this part that processes share. Page-table pages are not drawn
from `Frame`: `mappages` may fail whenever no frame is free. A `fork`, `exec`
or `sbrk` that fails is no step: what it has allocated it gives back
(`vm.c:323-325`, `exec.c:188-198`), and these roll-backs are not modelled.

`UserMemory` is what programs may expect: private pages that only their owner
changes, below the break, and text that nobody changes.

### Processes, pipes, console

`Proc` gives each CPU the process it runs (`on`) and its nesting depth of
locks, each process its state, channel, parent, `killed`, and the point it has
reached. A step runs to the next spinlock that is taken; `sleep`, which keeps
`p->lock` across the switch, and `wakeup`, which takes the locks of all
processes in turn, have steps of their own. `panicked` tells which panic
stopped the kernel: one of `sched`'s checks, or `kexit` in `init`, which `kill`
does not spare. A page fault that reads the program (`ilock`, disk request, disk
interrupt) exercises sleep locks. `Pipe` adds the two files and the ring with
counters that wrap at `CountMod`; `Console` adds the input ring with three
wrapping indices, the input and transmit interrupts and the echo that polls.
Data are tags that tell bytes apart, or plain, newline and end-of-file
characters. `SystemSpec` lets copies to and from user memory succeed or fail;
`LazySystemSpec` also lets them fault and sleep (`CopyFault`), which is what
the kernel does when the page is not resident.

### Log, buffer cache, disk

`Log`: one action per function or loop body (`BeginOp`, `LogWrite`, `EndOp`,
one step per block of `write_log` and `install_trans`, `write_head`, clearing,
waking), `Recycle` for a buffer that is reused, `Crash` between any two steps,
and recovery as `ReadHead`, `RecoverInstall`, `RecoverClear`, interruptible by
another crash. Threads in `Faulting` may call `begin_op` inside their own
transaction, as an eviction during a system call does. The refinement to
`Transactions` maps `durable` to what recovery would produce now.

`VirtioDisk`: descriptors, available and used ring with indices modulo
`IDXMOD`, the sleeping requester, the handler that acknowledges and then loops.
The device is external and completes requests in any order, also during the
handler's loop. `Bcache`: the LRU list, reference counts, valid bits and
buffer locks on top of it.

### File system

`Inodes` has `balloc`, `bfree`, `bmap`, `itrunc`, `iupdate`, `ialloc`,
`readi`, `writei`, `dirlookup`, `dirlink` and the reference counting of `iget`
and `iput` as functions on a record (inodes on disk, bitmap, blocks, in-memory
inodes). A block has `BSIZE` cells; a cell is a directory entry, a block
number, a unit of data, or zero. `FileSystem` runs the calls as threads: a
step goes from an acquired inode lock to the next point where the thread could
wait or looks at the inode table again. So `iput`'s window (inode freed on
disk, reference still held), `link`'s unlocked look-up, `create` and `unlink`
holding two locks and `filewrite`'s chunks are all interleaved. A crash resets
memory and brings back the last moment without an open transaction, after
which `ireclaim` runs inode by inode. `exec`, `fork`, `exit` and reaping carry
`exec_ip`, the working directory and the swap file; an eviction (`SwapOut`)
writes to the swap file, which a forked process creates at that point. A
`write` may run into an address that `copyin` refuses, a device may have a
major number that `open` refuses, and the inode table has fewer entries than
the disk has inodes. `panic` records why the kernel stopped. `Mkfs` computes the image
that a behaviour starts from.

### User programs

`Commands` is the shell's recursive-descent parser on token sequences, with
the grammar as an independent definition. `Shell` runs `init`, the shell's
main loop and `runcmd` as processes with descriptors; the kernel under it is
external (fork fails when the table is full, a reader sees the end of a pipe
when nobody holds its write end). `Malloc` is the circular free list in units
of headers, including the program's own `sbrk`. `Grep` is the matcher and the
buffer loop. `Programs` puts them side by side: a behaviour runs one of them.

## 3. Runs

A behaviour of most runs is limited to one *menu*, a small set of calls that
its processes make, chosen at the start, so that one run covers several
combinations of calls without their product. `CHECK_DEADLOCK FALSE` is used
everywhere because programs may stop making calls and because the bounds on
calls, faults and crashes stop them. A definition with a suffix, as in
`Older_ByAddress`, is a plausible mistake in the code that the definition
after it models; each property of a passing run is refuted when one of them
takes its place.

### Runs that pass

| Run | Properties | Instance |
|---|---|---|
| `pages` | `SwapTableMatches`: swapped pages and used slots match. `FramesExclusive`, `FramesNotLost`: no frame has two users or none. `FaultPageStaysUnmapped`: no "remap" panic in a handler. `NoJunkVisible`: no page shows what the allocator left in it. `StrayLeavesResident`: a page mapped beyond a lowered break comes from a memstat entry left behind, in no other way. `VictimIsOldest`: FIFO among the pages with an entry. | 1 process, 4 frames, 2 memstat entries and 2 slots for 5 pages, 3 loading faults; lazy and eager growth, shrinking, exec, copyin, exit; a data segment that ends inside its page |
| `processes` | `FramesExclusive`, `FramesNotLost` with handlers that compete for the frame one of them has just freed; `FaultsFinish`: each fault ends; `KilledDies`: a killed process leaves user mode and an orphan is reaped with its frames | 2 processes, 6 frames, a swap file of 1 page; faults with kills, fork after a store, fork, exit, wait and kill |
| `clean_first` | The bonus policy: `VictimIsOldest` (clean pages first), `StoredMemoryKept`: memory survives eviction, and text is never changed, for programs that bring anonymous and swapped pages in by stores | 1 process, 4 frames, so that clean and dirty pages are candidates, 4 faults, all kinds of access, copies in both directions |
| `log` | `LogSpaceSuffices`: `log_write` does not run out of space, `end_op` does not meet a commit; `ImplementsTransactions`: all or nothing of each commit; `BeginsFinish`: each waiting `begin_op` gets its turn | 2 threads, one with nested calls, 4 blocks, a log of 4, 4 calls, 1 crash |
| `disk` | `CompletionsMatch`: descriptors have one owner and completions reach the request they belong to; `SleepersWillWake`; `ImplementsBlockStore`: one content per block | 3 threads, 3 buffers for 4 blocks, 6 descriptors (two requests fill them), 4 calls; the ring indices do not get as far as wrapping here, which the theorems of `DiskProofs` include |
| `pipes` | `SchedHoldsOnlyPLock`, `OnOneCPU`, `ParentsAlive`, `SleepersWake`: nobody sleeps through what they wait for; `ImplementsPipeChannel`, `ImplementsLineInput` | 3 processes, 2 CPUs, a pipe of 2 bytes and an input ring of 2 characters, with counters that wrap at 4, 3 to 5 calls |
| `filesystem` | `BlocksOwned`: bitmap and inodes agree; `NamesResolve`: names lead to allocated inodes with enough links; `RefsCounted`; `LocksAcyclic`; `OnlyKnownPanics`: the file system stops the kernel in three ways and no other; `NamesAtomic`; `BootLeavesNoOrphans` | 2 processes, 5 inodes and a table of 4, 8 blocks of 2 cells, files of direct and indirect blocks, 2 open files, 4 calls (6 for a directory tree), 1 crash |
| `programs` | `ProgramsConnected`, `ListsInOrder`, `LinesFinish` (shell); `HeapPartitioned`, `GrowsOnlyWhenFull` (malloc); `PrintsMatchingLines` (grep); `ParserMatchesGrammar`, `MatcherMatchesMeaning` | 2 of 8 command lines with pipes, lists, redirections, `&` and errors, 6 process slots so that fork fails; 8 calls on a heap of 14 units; files of up to 5 characters with a buffer of 4; all lines of up to 5 tokens; all pairs of patterns and texts of up to 3 characters |

The bounds are the smallest for which the paths of the code are all taken:
tables smaller than what they describe, rings that wrap, disks and logs that
fill up, a second process at each lock. Frames, CPUs, threads and block
numbers are interchangeable and symmetry is used for safety; `processes`
numbers its frames instead, since liveness is checked there.

**Fairness.** `processes`: weak fairness for the steps of a fault handler
(they run in the kernel and sleep only for the disk, and the scheduler's round
over the process table reaches each runnable process), for the exit of a
killed process (the timer takes it into `usertrap`), and for `init`'s `wait`
(an endless loop in `user/init.c`). `log`: weak fairness for each thread that
is in a call, and for recovery, on the same grounds; no fairness for programs
to make calls. `programs`: weak fairness for the steps of the processes as a
whole; each of them either runs or waits, and programs end when their input
does. What these assumptions say about sleeping is what `SleepersWake` and
`SleepersWillWake` show.

**Exceptions that properties state.** `BeginsFinish` excepts a thread that
waits for the log inside its own transaction: two such threads can wait for
each other for ever (`swap.c:179`). The number of calls is bounded there, so
that it says nothing about a caller that others overtake again and again.
`RefsCounted` counts the references that a
second `exec` overwrites (`exec.c:168`). `OnlyKnownPanics` lists the panics
that are reached: "ilock: no type" for the `..` of a directory that is removed
and still in use, whose inode may be free; `log_write` outside a transaction
in `freeproc`, the case of `removed_program`; and "iget: no inodes" with a
table full of inodes in use (`fs.c:267`; 50 entries, fewer than the 100 open
files, to which working directories, executables and swap files come).
`SleepersWake` excepts bytes left in a pipe
by a `write` that then fails (`pipe.c:84-86` returns without a wakeup), and it
asks nothing about killed sleepers: a kill between the test of `killed` and
`sleep` is noticed only at the next wakeup. `ListsInOrder` excepts lines after
a failed `fork`, whose parent exits and leaves started commands behind.

### Runs that show a disagreement

Each checks one property that a comment or the repository's README states, and
TLC finds a behaviour of the code that violates it. `PROJECT.json` quotes the
sentences.

| Run | Violated | What happens |
|---|---|---|
| `load_then_store` | `ImplementsUserMemory` | A heap page first loaded is mapped writable and clean; later stores go unnoticed and an eviction discards them. |
| `pipe_copy_fault` | `SchedHoldsOnlyPLock` | `pipewrite` copies from a page that is not resident; the fault sleeps for the disk with `pi->lock` held and `sched` panics. `consoleread` and `kwait` copy out under spinlocks in the same way. |
| `removed_program` | `FreesInTransaction` | A program is unlinked while it runs. When its process is reaped, `freeproc` drops the last reference outside of any transaction: `iput` frees the inode and `log_write` panics. |
| `exec_bad_header` | `LocksAcyclic` | `exec` of a file that is no program goes to `bad` with the inode locked and locks it again. |

The models contain more behaviour of this kind, which the passing runs steer
clear of by their menus or exceptions:

* a page swapped in by a load counts as clean with its slot freed, and the
  next eviction discards it; `vmfault` ignores swap slots, so a system call
  given a swapped-out page reads a fresh one (hence `stores_first`);
* `fork` copies page tables, not swap slots: what is swapped out is missing in
  the child (`vm.c:298`);
* addresses that agree in their low 32 bits share a memstat entry
  (`memstat.h:12`);
* `exec` keeps `memstat` and `swap_table`, `sbrk` downwards the entries of the
  pages it frees: old content returns, evictions of stale entries free no
  frame, and a swapped page above a lowered break that is swapped in again
  makes `freewalk` panic at exit (`vm.c:276`);
* after a `sbrk` below the text and up again, or an `exec` over an old swapped
  entry, a text page is mapped writable;
* `copyout` refuses a data page that was only read so far (`trap.c:257`);
* a first access behind the end of the data segment, in its last page, maps
  zeros for the whole page; a swap-in increments `resident_pages` twice; an
  initial stack pointer that is page-aligned makes the kernel look for the
  guard page one page too low;
* between `iput`'s freeing of an inode on disk and the drop of its reference,
  `ialloc` may hand the inode out; with a full disk it then stays allocated
  without a link until the next boot;
* `kill` of `init` stops the kernel with "init exiting" (`proc.c:391`);
* creating a file in a removed directory leaves an inode without a path;
* a crash leaves swap files behind, with their links, for the next process of
  that pid to use.

## 4. Proofs

| Theorem | Statement | Module |
|---|---|---|
| `TypeCorrect` | `Spec => []TypeOK` | `BookkeepingProofs` |
| `FramesExclusiveAlways` | `Spec => []FramesExclusive` | |
| `NoFrameLost` | `Spec => []FramesNotLost` | |
| `NoJunkReadable` | `Spec => []NoJunkVisible` | |
| `FaultPageUnmapped` | `Spec => []FaultPageStaysUnmapped` | |
| `BookkeepingConsistent` | `Spec /\ []BreaksFit => [](MemstatLookupsAgree /\ SwapTableMatches /\ ResidenceOrdered)` | |
| `OldestEvicted` | `Spec /\ []BreaksFit => VictimIsOldest` | |
| `LogSpace` | `Spec => []LogSpaceSuffices` | `LogProofs` |
| `CommitAlone` | `Spec => []CommitsAlone` | |
| `QuiescentIsDurable` | `Spec => []QuiescentDurable` | |
| `LogImplementsTransactions` | `Spec => ImplementsTransactions` | |
| `CompletionsMatched` | `Spec => []CompletionsMatch` | `DiskProofs` |
| `RequestsWoken` | `Spec => []SleepersWillWake` | |
| `CacheIsBlockStore` | `Spec => ImplementsBlockStore` | `CacheProofs` |

`BookkeepingProofs` rests on `ProcVMProofs` (the helpers on one record),
`TypeProofs`, `FrameProofs` and `HandlerProofs`; `CacheProofs` rests on
`DiskProofs`.

**Paging.** The theorems hold for arbitrary sets of processes, frames,
executables and values, and arbitrary table sizes, under `SizesAssumption`,
`PolicyAssumption` (`ProcVM`) and `LayoutAssumption` (`Paging`: segments are
disjoint and lie below the guard page, the initial processes are part of the
process table, and so on).

*Types and frames.* `TypeOK` alone is not inductive: a failing load gives
`fault.frame` back, which is a frame only because of `FramesExclusive`. The
conjunction is inductive. One lemma per action shows that it preserves each
half; actions that touch no frame share one lemma. `NoFrameLost` and
`NoJunkReadable` go along the same steps (`FrameProofs`): a frame that leaves
the free list, a page table or a handler arrives at another of them in the
same step, and a frame that arrives in a page table has been filled.

*Fault pages.* A page that a handler is loading stays unmapped because only
live processes have handlers (`HandlersLive`), handlers map their own page
only, and a page mapped without `PTE_U` is the guard page that `exec` made,
which lies in no segment (`OnlyGuardHidden`): where `usertrap` tests with
`walkaddr`, `ismapped` gives the same answer.

*Bookkeeping.* `Consistent(m)` in `ProcVMProofs` is the invariant of one
record: lookups agree, slots match, the order is total. Each helper
preserves it under a precondition; the one of `became_resident` for
anonymous and executable pages is that the page has no SWAPPED entry, since
overwriting one would leak its slot. `LoadsAreFresh` says that a handler that
loads such a page keeps that condition while it evicts other pages; with
`TablesConsistent` it is the invariant `TablesInv`. `BreaksFit` says that no
break passes what a 32-bit field can hold, 4 GiB. The code does not enforce
it (a lazy `sbrk` goes up to `TRAPFRAME`) and the theorems need it: beyond, an
eviction can act on the entry of another page. It is used where a handler for
an anonymous or an executable page starts, whose address lies below the break.
The theorems on types, frames and fault pages do without it. `VictimIsOldest`
speaks of the pages that have a memstat entry; pages that `exec`, `fork` and
`sbrk` map have none and are never victims.

**Log.** For any finite set of threads, any blocks, log size, reservation,
number of calls and of crashes, under `LogAssumption` and `OpsFit`
(`OPWRITES < MAXOPBLOCKS`). `OpsFit` is strict because `log_write` panics at a
full log even for a block that is already in it; the code's calls write at
most 7 blocks (4 of data, the bitmap, the inode, an indirect block) of the
10 they reserve.

The invariant `LogInv` has three parts besides types. `ControlInv`:
`outstanding` is the number of open tickets, where a ticket is a thread and a
nesting depth, and a commit excludes all others. `SpaceInv`: the blocks in the
log and the reserved blocks not yet used (`Slack`, a set, so that its size is
compared by cardinality lemmas) fit into the log together. `DataInv`: a buffer
that may be recycled agrees with its home block (`CacheInv`); without a commit
the header on disk is empty (`IdleInv`); and for each point of `commit` and of
recovery, which blocks are already copied to the log or installed
(`CommitInv`, `RecoveryInv`). Only the conjunction is inductive: the home
blocks of a commit are right because nobody writes meanwhile, which is
`ControlInv`. The refinement maps `durable` to `Recovered`, what recovery would
produce from the disk now; it changes only in the step that writes the header,
and each other step is shown to leave it alone.

**Disk and cache.** For any sets of threads, buffers and blocks, any number of
descriptors and any range of the ring indices that is a multiple of it, under
`DiskAssumption` and `CacheAssumption`. `DiskInv` ties the driver's state
together: chains of three descriptors belong to one request (`Chained`), the
entries of the two rings between the indices of driver and device are the
requests in flight, each once (`Rings`, `Flights`), and a sleeper's buffer is
busy (`Waking`). The indices wrap, so that the argument goes by distances
modulo `IDXMOD`. `StoreInv` adds the cache: a block has one buffer, reference
counts are those of threads and log, a valid buffer that is neither logged nor
being written equals the disk (`Clean`), and each request carries its own block
(`Directed`, `CarriedOut`). The refinement maps a block's contents to those of
its valid buffer, or else of the disk.

*Only model-checked.* Liveness under fairness (`FaultsFinish`, `KilledDies`,
`BeginsFinish`, `LinesFinish`), which is out of the prover's reach. The
refinements of `PipeChannel` and `LineInput`; the one of `UserMemory` holds only
for restricted programs. `Commands` and `Grep` use recursive operators, about
which the prover cannot reason. `StrayLeavesResident` of `Paging` and the
invariants of `FileSystem`, `Proc`, `Pipe`, `Console`, `Shell` and `Malloc`
have no inductive strengthening worked out.

## 5. Not modelled

* Hardware access: trap entry and exit, registers, timer and
  interrupt-controller set-up, the handshake of `virtio_disk_init`, boot.
* Sequential string and byte handling: `printf.c`, `string.c`, the ELF parser,
  `skipelem`, argument fetching, the shell's `gettoken` and `nulterminate`,
  `gets` (which splits lines that are too long).
* User programs without state of their own (`cat`, `ls`, `wc`, `rm`, ...) and
  the test drivers (`usertests`, `grind`, `test_swap`, ...): the kernel modules
  let processes make calls in any order, which includes what these do.
* The names of swap files: each process has its own. The code takes the pid
  modulo 100000, so that two processes that far apart would share one.
* A page fault inside `read` or `write` of a file, under an inode's lock
  (`fs.c:511`): it needs the page tables of `Paging` and the inode locks of
  `FileSystem` in one module, whose state space is out of TLC's reach; the two
  consequences of such faults that need less, for pipes and for the log, are
  modelled.
* 32-bit overflow in `malloc`'s arithmetic, and `mkfs`'s rounding when the root
  directory exactly fills its blocks (the model has the rounding, its image
  does not meet the case).
* What `copyin` has copied into a block's buffer when it fails half-way: the
  bytes stay in the cache and are not logged (`fs.c:545-548`).
* Diagnostic counters (`pagefault_count`, `swapin_count`, `swapout_count`) and
  log messages.
