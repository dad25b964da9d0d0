# A TLA+ model of the xv6 kernel with custom system calls

The repository has two parts. `Random(G26)_Project1_xv6CustomizeSystemCalls` is
an xv6-riscv kernel to which six system calls were added (`getpinfo`, `pipe2`,
`thread_create`, `mutex_lock`, `mutex_unlock`, `sendsig`), with its user
programs. `Random(G26)_Project2_projectno_2` is a set of UNIX utilities and a
small shell for an ordinary host. This directory models both, checks the models
with TLC, and proves with TLAPS what they say of the log, the process table, the
pipe, the buffer cache with its disk driver, the console and the file system.
Paths below are relative to the first part unless they say otherwise.

## Inventory

| Part | State | Operations | Interacts with | What is hard |
|---|---|---|---|---|
| log (`kernel/log.c`) | `outstanding`, `committing`, `lh`; on disk the header, the log area, the home blocks | `begin_op`, `log_write`, `end_op`, `commit`, `initlog` | every file-system call, buffer cache, disk | group commit, space reservation, power failure between block writes |
| buffer cache (`bio.c`) | LRU list, `refcnt`, `valid`, a sleep lock per buffer | `bget`, `bread`, `bwrite`, `brelse`, `bpin`, `bunpin` | log, disk driver, all of `fs.c` | recycling against pinning, running out of buffers |
| processes (`proc.c`, `sysproc.c`, `trap.c`) | process table, `cpu[].proc`, `wait_lock`, `nextpid`, `ticks` | `scheduler`, `yield`, `sleep`, `wakeup`, `kfork`, `kexit`, `kwait`, `kkill`, `sys_pause`, `clockintr` | everything that sleeps | lost wakeups, exit against wait, kill against sleep, several harts |
| custom calls (`sysproc_custom.c`) | fields of `struct proc`; a user word | the six calls | processes, pipes, memory | signals that change the state of a running process; threads whose memory is a copy |
| pipes (`pipe.c`) | ring, `nread`, `nwrite`, `readopen`, `writeopen` | `pipealloc`, `pipewrite`, `piperead`, `pipeclose` | file table, sleep/wakeup | wrapping counters, several sleepers, who frees |
| locks (`spinlock.c`, `sleeplock.c`) | holder, nesting of interrupts-off | `acquire`, `release`, `acquiresleep`, `releasesleep` | all | deadlock, holding across I/O |
| inodes and blocks (`fs.c`) | `itable`, inodes, bitmap | `ialloc`, `iget`, `ilock`, `iput`, `bmap`, `itrunc`, `balloc`, `bfree`, `ireclaim` | log, directories | last reference against lookup, orphans at a crash |
| directories, names (`fs.c`) | directory contents | `dirlookup`, `dirlink`, `namex` | inodes | lock order along a path |
| file table, descriptors, file calls (`file.c`, `sysfile.c`) | `ftable`, `ofile` | `filealloc`, `filedup`, `fileclose`, `filewrite`, `sys_link`, `sys_unlink`, `create`, `sys_open`, ... | inodes, log, pipes | undoing half-done calls, split writes |
| memory (`vm.c`, `kalloc.c`, `exec.c`) | free list, page tables | `uvmcopy`, `uvmalloc`, `uvmdealloc`, `vmfault`, `kexec` | processes | who owns a frame on error paths |
| disk driver (`virtio_disk.c`) | descriptors, used ring | `virtio_disk_rw`, `virtio_disk_intr` | buffer cache | completions out of order, descriptors running out |
| console, UART | input ring, transmit flag | `consoleread`, `consoleintr`, `uartwrite`, `uartintr` | processes | a ring at its limit |
| user library, shell, utilities | sequential | `malloc`/`free`, parser, matcher, tail ring | system calls | boundaries of algorithms |

`PROJECT.json` lists every part with its status and every hazard at the line where
it bites.

## Modules

| Module | Models | Notes |
|---|---|---|
| `AtomicDisk` | what the log promises | abstract |
| `Log` | `kernel/log.c`, and the pinning of `bio.c` it rests on | implements `AtomicDisk` |
| `Proc` | `proc.c`, `sysproc.c`, the clock and kill tests of `trap.c`, `thread_create`, `sendsig` | |
| `Fifo` | what a pipe promises | abstract |
| `Pipe` | `kernel/pipe.c` and the references of `file.c` that keep an end open | implements `Fifo` |
| `UserMutex` | `thread_create`, `mutex_lock`, `mutex_unlock` under Demo 4 of `user/syscall_demo.c` | |
| `BlockStore` | what the buffer cache promises | abstract |
| `VirtioDisk` | `virtio_disk.c`, and the device | |
| `BufCache` | `bio.c` and `sleeplock.c`, composed with `VirtioDisk` | implements `BlockStore` |
| `Fs` | `fs.c`, `sysfile.c`, `file.c`, over what `AtomicDisk` promises | |
| `PrivateMemory` | what fork, exec, sbrk, faults and `copyout` promise together | abstract |
| `Vm` | `kalloc.c`, `vm.c`, `exec.c`, the memory side of `proc.c` and `sysproc.c` | implements `PrivateMemory` |
| `Console` | `console.c`, `uart.c`, and the device | |
| `UMalloc` | `user/umalloc.c` | |
| `Shell` | `user/sh.c` | functions |
| `FileTools` | `custom_cp.c`, `custom_mv.c`, `custom_rm.c` of the second part | functions |
| `TextTools` | `user/grep.c`; `custom_grep.c`, `custom_head_tail.c`, `custom_cat.c`, `custom_wc.c` of the second part | functions |
| `LogProofs`, `ProcProofs`, `PipeProofs`, `BufCacheProofs`, `ConsoleProofs` | | the TLAPS proofs about one module each |
| `FsInv`, `FsFacts`, `FsFiles`, `FsProofs` | | the TLAPS proofs about `Fs`: the invariant, the operations on disk and table, the counting of references, `iput` and the theorems |
| `MCLog`, `MCProc`, `MCPipe`, `MCUserMutex`, `MCBufCache`, `MCFs`, `MCUser` | | the instances for TLC |

The layers fit together through their abstract specifications. `BufCache` shows
that the cache over the disk driver is a plain store of blocks, which is how `Log`
uses it. `Log` shows that operations become durable in groups and all at once,
which is how `Fs` uses it. `Vm` and `Proc` model the same calls of `proc.c`, one
for memory and one for scheduling.

Operators whose comment says "Mutant of" are not part of any specification. Each
is a definition with a plausible mistake in it, kept to show that a property
would notice.

### Log

A step is one critical section of `log.lock` or one block written to the disk.
`pc` says where a process is: `op` between `begin_op` and `end_op`, `asleep` in
`begin_op`, or in a phase of `commit`. `cache` is the contents the buffer cache
would give, `refcnt` the pins of the log, and `Recycle` is `bget` taking an
unpinned buffer away. The panics of `log_write` are guards, and `NoPanic` says
that they never bite. `PowerFailure` loses everything but the disk and boots
again. `initlog` calls `install_trans` with `log.lh.n` still 0, so nothing is
replayed. `recover_from_log` is never called. `Spec` therefore lets power fail
only while the header on the disk is empty; `CrashSpec` lets it fail anywhere.

`OpWrites`, the number of blocks an operation really writes, is smaller than
`MAXOPBLOCKS`: the largest operation, one chunk of `filewrite`, writes at most
seven blocks of the ten (four of data, one indirect, one inode, one bitmap). The
margin matters, because `log_write` tests for a full log before it looks for the
block to absorb.

### Proc

`state`, `pid`, `parent`, `killed` and `chan` are the fields of `struct proc`;
`cpu[c]` is `c->proc`; `at` is the place of a process in the kernel. `p->lock` is
held across `swtch`, so leaving or entering a hart and changing `p->state` are one
step. `wait_lock` is a variable because other harts act while it is held. A
process that takes `wait_lock` or `tickslock` first has its interrupts turned off
(`acquire`) and is not preempted from then on. `kfork` is three steps, with the
child visible but `USED` in between; `thread_create` is one, under `t->lock`.
`kexit` is two, both under `wait_lock`. `kwait` may decide to sleep and be killed
before it does. A process in user code may make any call at any time. Left out:
`p->xstate`, `p->pending_sig` (nothing reads it), a kill of init (it makes `kexit`
panic), and faults, which look like an exit from outside.

`StopRunning` says whether SIGSTOP may hit a process that is running. `KillPids`
and `Signals` are the arguments that `kill` and `sendsig` are called with.

### Pipe

One turn of a loop of `pipewrite` or `piperead` is one step, with `lock` held, so a
kill can come between any two. `UINT` stands for 2^32: a multiple of `PIPESIZE`
and larger than it, which is all that the code uses of it. `rrefs` and `wrefs` are
the processes with an end open; the last close runs `pipeclose`. `silent` records
that `pipewrite` failed and woke nobody since.

### UserMutex

Each thread runs in the address space `pagetable[t]`; `thread_create` gives it a
copy, as `uvmcopy` does. `mutex_lock` is a read and a write in separate steps, and
so is the increment of the counter.

### VirtioDisk and BufCache

A step is what happens under one hold of a spinlock. `alloc3_desc` takes three of
the `NUM` descriptors or the process sleeps; the request goes onto the ring; the
device serves requests in any order; `virtio_disk_intr` takes completions off the
used ring one by one, and the sleeper frees its chain. `bget` looks the block up,
recycles any unused buffer (the LRU order only decides which) or panics for want of
one, and then sleeps for the buffer's lock: between the two steps the buffer is
referenced and not locked. A process that has the buffer may change it, write it
through, or pin it for the log. It may also give a changed buffer back without
either, as `writei` does when its copy from the user fails (`fs.c:505`); `dirty` is
the set of buffers with such a change. `kkill` makes any sleeper runnable, and the
three loops that slept test again.

`RefsCounted`, `OneBufferPerBlock`, `SleepsForCause` and `DescriptorsOwned` relate
the counts to who holds what. `IsBlockStore` maps a block's content to its valid
buffer, or else to the disk. `BlockStore` promises that a change which was written or
logged stays; one that was given back without either is `loose` and may be forgotten
when its buffer is recycled, or stay. Nothing else may be forgotten.

### Fs

Calls are cut where another process can get in: between two sleep locks, and at
every release. `disk` is inodes, directories, bitmap and file blocks, `itable` the
inode table with reference counts, valid bits and lock holders, `ftable`, `ofile`
and `cwd` what processes hold, `loc` where each is in its call. `namex` locks one directory at a time, `sys_link` adds the count
first and undoes it when the entry cannot be made, `iput` releases `itable.lock`
around the freeing of an inode and takes it again for `ref--`. `durable` is what a
power failure goes back to: the state when the log last committed, that is, when
no call was inside `begin_op`/`end_op`. As in `Spec` of `Log`, power does not fail
in the middle of a commit. `ireclaim` runs after a failure.

`writei` may be broken off after any block, by a full disk or by a copy that fails
with the block already allocated; `filewrite` then stops as well.

A panic is a step in which its process stays where it is for ever (`panic`). What
other harts still do after it is not modelled.

Two things the model shows are recorded as exceptions of properties. `create` and
`link` do not check that the directory they hold has been removed meanwhile;
`adrift` is the set of inodes entered there, which `LinksCounted` leaves out. And a
removed directory keeps its `..`. When its parent has been removed and freed too, a
path that leads out of it by `..` reaches a free inode, and `ilock` panics with "no
type" (`fs.c:279`); or the number is being allocated again, and the `iput` of the
call that strayed there frees the new inode under its creator, who then panics.
`strays` records the inodes that were reached in this way, and
`OnlyStaleDotDotPanics` says that there is no other way to a panic of `ilock`,
`dirlookup` or `sys_unlink`. The last program of the run goes there.

`NINODE` (50) is smaller than `NFILE` (100), so `iget` can run out of slots and panic
(`fs.c:232`). The model has a slot for every inode and leaves this out.

### Vm

Page tables are trees in physical pages, as in the code, with fewer levels and
entries. A call of a process touches its own tables and the free list, and each
is one step in which every `kalloc` can be the one that fails. `FramesOwnedOnce`
counts owners: a page is free, or has exactly one, on every error path.
`IsPrivateMemory` says what the processes see: a page that was never stored to reads
as zero, whether it was given at once or by a fault, and a page changes only by a
store or a `copyout` of its process. Which page `kalloc` pops is fixed.
`copyinstr`, the argument strings of `exec` and the kernel's own page table are
left out.

### Console

`cons.lock` and `tx_lock` make `consoleread` up to its sleep, each `consoleintr`
and each turn of `uartwrite` one step; `consolewrite` copies a batch of `WRITE_BUF`
characters in, or gives up the rest when the copy fails, and hands it to `uartwrite`;
`uartintr` is three, because the device and
the processes run in between. The indices `r`, `w` and `e` are unsigned and wrap
at `UINT`. `InputInOrder` compares what readers got, and what the ring holds, with
what was typed and edited; `ConsoleSleepsForCause` is the absence of lost wakeups,
on the input and on the transmitter.

### UMalloc, Shell, FileTools, TextTools

`UMalloc` is the ring of free blocks in units of one header; `HeapSound` says that
live blocks and free blocks tile the memory that `sbrk` gave, that the ring is in
order of addresses, and that no two free blocks touch. Requests are below 2 GB
(`UMallocAssumption`): from there on `nu * sizeof(Header)` (`umalloc.c:53`) does not
fit the `int` that `sbrk` takes, and `morecore` does not notice.

`Shell` is the parser with its two marks per word, `nulterminate` and `runcmd`, as
functions of a command line. `RunsAsWritten` compares the programs started, with
their arguments, files and pipe ends, with a grammar that knows nothing of
positions. Of two redirections of one descriptor the first written wins, and the
reference says so.

`FileTools` is cp, mv and rm with their options on a tree with a second device. The
user may answer either way. The host may refuse one `open`, `read`, `opendir`, `lstat`
or `unlink`, and a read-only directory or file refuses what it must; a failing `write`
breaks a copy off like a failing `read`. `NothingLost`: what was not named is as
before, every directory and every byte that is moved is at its old or at its new
place, and status 0 means that everything was done, unless options ask to leave
something. The code departs from that in three places, each a named exception of the
property, and the run shows that there is no fourth:

* `custom_mv.c:59` and `:85` do not look at the result of `unlink` and `rmdir`. What
  cannot be removed is there twice and the status is 0 (`StaysBehind`).
* `custom_rm.c:49` and `:84` return 0 under `-f` for a directory that cannot be opened
  or removed, and so do the directories above it (`PassedOver`).
* `custom_cp.c:117` and `custom_mv.c:71` take every `EEXIST` of `mkdir` for a
  directory. An empty directory whose place is taken by a file is not copied, and
  `custom_mv` removes it all the same (`PlaceTaken`).

Two sources with one base name overwrite each other; such operands, and the copying
of a directory into itself, are left out of the run.

`TextTools` compares each program with a definition by lines and positions.
The definitions follow the code where it has a limit: `grep.c` stops at a line that
does not fit its buffer and ignores an unterminated last line; `head_tail` prints
nothing for `-h -t` together and is only run within `MAX_LINES`, which it does not
check. For `custom_grep` the reference (`Asked`) is what the utilities' `README.md`
says of its options. The code departs from it once: `-c` together with `-q` or `-l`
writes a count for a file in which nothing is selected (`custom_grep.c:70`), which the
property names (`CountsAnyway`) and bounds.

## Runs

| Run | Instance | Shows |
|---|---|---|
| `log` | 2 processes, 4 blocks, 2 values, log of 4, reservation 2 | no panic, no lost wakeup, a sleeper wakes, home blocks are current outside commits, refinement of `AtomicDisk` |
| `log_crash` | the same, power failing anywhere | violated: a committed transaction is lost (finding) |
| `proc` | 2 harts, 3 slots, 4 pids, symmetric harts | one hart per process, no missed exit, no orphan, unique pids, no inherited kill |
| `proc_live` | 2 harts, 3 slots, 3 pids, SIGTERM and SIGCONT | init reaps, a killed process exits |
| `proc_stop` | SIGSTOP of running processes | violated: two harts run one process (finding) |
| `proc_kill` | `kill(0)` | violated: a new process is born killed (finding) |
| `pipe` | 2 processes, 2 slots, counters modulo 4, 2 byte values | nobody sleeps without cause, the page is freed once, refinement of `Fifo`, the last close releases the other side |
| `demo4` | 2 workers of 2 rounds | violated: main sees no increment (finding) |
| `disk` | 3 processes, 3 buffers, 4 blocks, 7 descriptors, 1 pin | references counted, one buffer per block, no lost wakeup, descriptors owned once, refinement of `BlockStore` |
| `fs` | 2 processes, 3 inodes, 4 blocks, 2 names, one direct and one indirect block, 15 programs | blocks owned once, links and references counted, table agrees with disk, no cycle of locks, no panic but that of a stale `..` |
| `fs_iput` | one program that makes and removes a directory | violated: an unlinked inode is never freed (finding) |
| `user` | 2 processes with 14 pages; 2 readers, or a writer and its echoes, at a ring of 2; a heap of 12 units; every line of up to 3 characters and phrases joined in threes; 96 trees; texts of up to 7 characters | pages owned once, refinement of `PrivateMemory`, input in order, no lost wakeup, a sound heap, the shell and the tools do what is specified |

Why the bounds are enough. In `log`, two processes are one that commits or fills
the log and one that sleeps or overlaps; with room for two reservations both the
full log and the group of two operations occur, and a block can be absorbed,
pinned, recycled and installed. In `proc`, three slots give init, a parent and a
child, and four pids a slot used twice; two harts give every pair of simultaneous
steps. In `pipe`, two slots and counters modulo 4 make the counters wrap and the
ring fill, and reads and writes of up to two bytes block half way; two sleepers at
one end need a third process, which the proofs cover. In `disk`, four blocks for
three buffers force recycling, three processes leave one waiting for a buffer that
a second has locked while a third recycles, and seven descriptors are two requests
and one too few for a third; the two values of a block are interchangeable, since
the cache only moves them. In `fs`, three inodes are the root and two more, so
that a number is reused at once; four blocks run out; a file can need its indirect
block. A program says which calls each process makes; the programs pair calls that
meet on one inode, and their state spaces add up instead of multiplying. In `user`, 14 pages are fewer than two processes and an
`exec` in progress need, so every allocation fails somewhere; the machines of this
run share no state, and one behaviour is about one of them. A console behaviour has
two readers, or a writer while characters are typed and echoed: reads do not touch
the transmitter.

`MaxPid`, `MaxN`, `MaxPins`, `Written` (the blocks that are changed), `MaxCalls`,
`MaxRead` and `MaxWrite` are bounds of the models; `nextpid` reaching 2^31 is outside them. Symmetry is used in runs without
liveness only. Deadlock checking is off where the system really may stop: in
`pipe` (one process asleep with both ends, or a freed pipe), in `demo4`, which
ends, and in `user`, whose jobs end.

Fairness. `Log`: an operation that has begun reaches `end_op`, a commit runs on,
and a process made runnable runs (weak fairness of each process). `Proc`: timer
interrupts come on every hart and the clock ticks; a lock holder, with interrupts
off, goes on (weak); `scheduler()` scans the table round robin, so what is
`RUNNABLE` again and again is picked, and a process that runs again and again, and
finds the lock it spins for free again and again, gets on (strong). The last is an
assumption about the hardware's arbitration of `amoswap`, not a fact of the code.
`init` calls `wait` in a loop (`user/init.c:39`). `Pipe`: the same of `pi->lock`.
The other modules state safety only: their "no lost wakeup" is an invariant, that a
sleeper has a cause to sleep or somebody left to wake it.

## Findings

* `kernel/log.c:45`: recovery at boot does nothing. `fs.c:3` promises "crash
  recovery for multi-step updates".
* `kernel/sysproc_custom.c:256`: SIGSTOP and SIGCONT of a running process let two
  harts run it. `proc.h:105` calls its stack, context and trapframe private to
  the process.
* `kernel/proc.c:727`: `kill(0)` marks a free slot killed, and its next user dies.
* `kernel/sysproc_custom.c:140`: threads copy memory; `src/README.md:131` shows a
  shared counter that reaches 10.
* `kernel/fs.c:318`: between the freeing of an inode and `ref--` in `iput`, another
  process can allocate, name and unlink the same inode; nobody frees it until the
  next boot. `fs.c:124` says of `iput` "decrement ref, free if unused".

Some more departures are stated exceptions of the properties they touch, and no runs
of their own: `pipewrite` killed half way returns without waking the reader of the
bytes it has already written (`silent`, `Pipe`); a process killed between the test
and the sleep of `kwait` stays there until a child exits (`KilledExits`, `Proc`);
entries made in a removed directory and a stale `..` (`Fs`); and what mv, rm, cp and
grep of the second part let pass (`FileTools`, `TextTools`). Each is described with
its module above.

## Proofs

### The log

`LogProofs` proves, for every set of processes, blocks and values and all
`MAXOPBLOCKS <= LOGBLOCKS` and `OpWrites < MAXOPBLOCKS` (`LogAssumption`; the
processes are finitely many):

* `TypeCorrect`, `NeverPanics`, `WakerExists`, `Installation`: the four invariants
  of the run `log`;
* `Invariance`: the inductive invariant `IInv` behind them;
* `LogIsAtomic`: `Log` implements `AtomicDisk`.

The invariants are not inductive by themselves. `IInv` adds three things.
`ControlInv`: `outstanding` is the number of running operations, and a commit
excludes them and other commits. `SpaceInv`: what is logged, plus what the running
operations may still log, fits in the log; the reserved blocks are counted as a
set of pairs (operation, number), so that the bound of `begin_op` becomes a fact
about cardinalities. `DataInv`: outside the log buffers equal home blocks, logged
blocks are pinned until installed, and each phase of a commit has copied as far as
its index says. For the refinement the durable contents are the replay of the log
on the disk; `DurableInv` reads it off the phase of the commit, and every step but
the writing of the header leaves it unchanged.

All this is for `Spec`, in which power does not fail between the two header writes
of a commit. The run `log_crash` shows why that cannot be dropped.

### The process table

`ProcProofs` proves, for every number of slots, harts and pids (`ProcAssumption`):

* `TypeCorrect`;
* if `~StopRunning`: `Invariance`, `OneCpu` (`RunsOnOneCpu`), `ParentsLive`
  (`NoOrphans`) and `NoMissedExit` (`WaitMissesNoExit`);
* if besides `0 \notin KillPids`: `FreshUnlessKillZero` (`NewProcessIsNotKilled`).

The two premises are what the runs `proc_stop` and `proc_kill` violate, so the
theorems say that nothing else breaks these properties. `IInv` has six parts
besides types. `Harts`: `RUNNING` and being on a hart are the same, and harts run
different processes. `Threads`: what a slot's state says of its thread, and that a
fork owns its `USED` slot alone until it makes it `RUNNABLE`; without it a second
process could be set running in a slot that is freed. `Pids`: unique, below
`nextpid`, and 0 exactly for free slots. `Locks`: an exit holds `wait_lock` from its
first step to its last, a `kwait` from its scan to its sleep. `Family`: parents are
alive, and an exiting process has no child. `Waits`: whoever sleeps in `kwait`, or
is about to, has no exiting child. The last is kept by an exit because it holds
`wait_lock` (so no `kwait` is between scan and sleep) and wakes the parent. The
scan of `kwait` takes the first zombie; `Least` and `ScanCases` turn that choice
into three plain actions.

### The pipe

`PipeProofs` proves, for every number of processes, every set of bytes and all
`PIPESIZE` and `UINT` with `UINT > PIPESIZE` a multiple of it (`PipeAssumption`):

* `TypeCorrect`, `SleepersHaveCause` (`SleepsForCause`), `PageFreedOnce`
  (`FreedOnce`) and the inductive `Invariance`;
* `PipeIsFifo`: `Pipe` implements `Fifo`.

`IInv` is three things besides types. `Control`: who holds `pi->lock` is awake and
inside a call, and whoever is inside has its end open. `Closing`: each end is
closed once, by one process, after its last reference, and one process frees the
page after both. `Causes`: a reader sleeps on an empty open pipe and a writer on a
full one, or somebody still holds the lock with a `wakeup` to come. The refinement
needs arithmetic: `nwrite - nread` modulo `UINT` is the length of the queue, and
since `PIPESIZE` divides `UINT` the slot of the i-th queued byte stays the same
when a counter wraps. `Between`, `Succ` and `Slot` name these, with a lemma each.

### The buffer cache and the disk driver

`BufCacheProofs` proves, for every set of buffers, blocks and values, finitely many
processes (`CacheAssumption`) and any number of descriptors from three up
(`DiskAssumption`):

* `TypeCorrect`, `ReferencesCounted` (`RefsCounted`), `CachedOnce`
  (`OneBufferPerBlock`), `DescriptorsHaveOneOwner` (`DescriptorsOwned`),
  `WakeupsNotLost` (`SleepsForCause`) and the inductive `Invariance`;
* `CacheIsStore`: `BufCache` with `VirtioDisk` implements `BlockStore`.

`IInv` follows a request from `bget` to `free_chain`. `Holding`: who has the sleep
lock of a buffer, at which place, and whether the buffer is valid there. `Assigned`:
a buffer in use caches a block. `Requests` and `Owned`: a transfer in flight heads a
chain of three different descriptors that name its buffer, no two chains meet, and
the free descriptors are the rest. `Rings`: what is on the available or the used
ring is the request of exactly one transfer, once, and its buffer is `busy` until
the interrupt takes it off; without this a second completion could wake the wrong
sleeper. `Causes`: each sleeper's channel fits its place, and completions wait for
an interrupt that is due. `Coherent`: a valid buffer that is neither pinned nor
`dirty` equals its block on the disk, which is what makes it safe for `bget` to
forget it. Forgetting a dirty one is the `Forget` of `BlockStore`. The three lowest free descriptors of `alloc3_desc` come from the
least-element lemma `Least`, by well-foundedness of the natural numbers.

### The console

`ConsoleProofs` proves, for every number of readers and writers, a ring of any size
and indices modulo any larger multiple of it (`ConsoleAssumption`):

* `ReadsAsTyped` (`InputInOrder`), `ConsoleWakeupsNotLost`
  (`ConsoleSleepsForCause`) and the inductive `ConsoleInvariance`.

`CInv` adds types and `Progress`: a full ring holds no unfinished line (so the
reader of a full ring is not left waiting for a newline that cannot be stored), and
a busy transmitter has a character on its way or its interrupt due. As with the
pipe the work is in the indices: `e - r` and `w - r` modulo `UINT` are positions in
the typed text, also when one index has wrapped and another has not, and erasing
(`^U`, backspace) moves `e` back without passing `w`.

### The file system

`FsInv`, `FsFacts`, `FsFiles` and `FsProofs` prove, for finitely many processes, any
numbers of inodes, blocks, open files, descriptors, direct and indirect blocks, any
names and any set of calls (`FsAssumption`), through every interleaving of calls,
power failures and `ireclaim`:

* `InodeReferencesCounted` (`RefsCounted`): `ip->ref` is the number of pointers to
  the inode that processes and open files have, and `f->ref` the number of
  descriptors of the file, on every error path;
* `InodeTableCoherent` (`CacheCoherent`): a valid inode that nobody has locked is
  the one on the disk;
* `BlocksHaveOneOwner` (`BlocksOwnedOnce`): each block in use belongs to one place of
  one inode, no inode names a free block, none is lost, and there is a block for
  every position below the size; of the disk and of every committed state;
* `LastPutNeverWaits` (`LastPutIsFree`, a conjunct of `NoLockCycle`): the comment at
  `fs.c:307`, that `acquiresleep` in `iput` does not block;
* `FsInvariance`: the inductive invariant `IInv` behind them.

`IInv` has six parts. `Shape` is the types; link counts are only integers there.
`Roles`: which inodes a process has at each place of its call, and when an `iput` is still owed. `RefsCounted` itself.
`Locks`: an inode's lock is held by the process whose place says so, by one at a
time, and only of a valid inode. `Coherent`: a valid inode is the one on the disk,
except between `type = 0` and `valid = 0` in `iput`. `Owned`: the ownership of
blocks, for `disk` and `durable`. They need each other: that a last `iput` finds the
lock free follows from the counts (a second process with the lock would have a
second pointer), and the counts follow from the places.

The references are counted as a set of pairs (process, pointer). `Mine` is the
number of pointers of one process at one place, and `CountsKept` turns a step of one
process into an equation between four numbers, so that the proof of an action says
only which pointer it adds or gives up. Most actions are of one form (`Stepped`: a
process moves to another place, takes at most one reference, locks at most one
inode, unlocks at most one, and writes only inodes it has locked); `CallsStep` shows
that of each, and one argument (`Kept`, in `StepsKept`) serves them all. The stages
of `iput`, in which `itable.lock` is released and taken again, have a lemma each.
`RootOwned`, `LeafOwned` and `TruncOwned` are the three ways in which the ownership
of blocks changes: `bmap` fills a slot of the inode, `bmap` fills one of the indirect
block, `itrunc` empties them all.

### Checked by TLC only

* Liveness (`SleeperWakes`, `InitReaps`, `KilledExits`, `CloseUnblocks`): TLAPS does
  not reason about fairness here.
* `OnlyStaleDotDotPanics` of `Fs`, for the programs of the run `fs`.
* `LinksCounted`, the first half of `NoLockCycle`, and in `TypeOK` of `Fs` that link
  counts are natural numbers. They rest on the directories being a tree, through
  removals and through entries made in a removed directory (`adrift`); an inductive
  invariant for that was not found, and the walks out of removed directories by a
  stale `..` are in its way. `IInv` has no need of them: it takes link counts as integers.
* Everything about `Vm`, `UMalloc`, `Shell`, `FileTools` and `TextTools`. These walk
  trees, rings and texts with recursive operators, whose results for all inputs
  would need induction that the prover cannot do.
* `CrashSpec` of `Log`, and the processes of `UserMutex`: their runs exhibit
  violations.

## Not modelled

* `getpinfo` only reads. `pipe2` is `pipealloc` and two descriptors, which `Pipe`
  and `Fs` have; its own undoing of a half-done call is not an action.
* System call dispatch, argument fetching, `copyinstr`: a table lookup and copies.
* Boot, page table of the kernel, interrupt controller, `printf`, string
  functions, assembly: straight-line code without state shared between steps.
* Faults of user programs (an exit from outside), `p->xstate`, `p->pending_sig`.
* In the shell, failures of `fork` and `pipe`; in the file tools, owners, modes but
  for "read-only", symbolic links, and failures of `malloc`, `utime` and `chmod`; in
  the text tools, the wording of messages.
* A full inode table (`fs.c:232`), what other harts do after a panic, and requests to
  `malloc` of 2 GB and more.
* `ls`, `cat`, `wc` and the other small programs of `user/`, and `Shell.c`,
  `custom_echo.c`, `custom_ls.c`, `touch.c` of the second part: single calls of the
  host and formatting. `usertests.c` and `grind.c` are tests.
