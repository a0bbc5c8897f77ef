# A TLA+ model of xv6-zig

xv6-zig is the xv6 teaching kernel for RISC-V with about half of its C files
rewritten in Zig. This directory models the kernel and the shell in TLA+, checks
the models with TLC on small instances, and proves the properties that matter
most with TLAPS for instances of every size.

## 1. The system

The tree holds two kernels. `Makefile` builds one from C alone. `build.zig`
builds one from the C files `bio log fs file pipe virtio_disk console uart
sleeplock spinlock string` and the Zig files `start main proc SpinLock
PageAllocator kalloc vm trap syscall syscall/{file,exec,proc} print plic`. What
both share is modelled once. Where they differ a module says which one it
follows:

* `Proc` and `FileSystem` follow both: the constant `Zig` chooses the build. The
  runs take the C build; section 5 says what `Zig = TRUE` shows.
* `SpinLock` has locks of both kinds at once, as the mixed kernel has.
* `PageAllocator` is `PageAllocator.zig`. `Vm`, `UserMemory`, `Exec`, `Devices`
  and `Shell` follow the C build.

| part | source | module | talks to |
|---|---|---|---|
| spin locks | `spinlock.c`, `SpinLock.zig` | `SpinLock` | everything |
| processes | `proc.c`, `proc.zig` | `Proc` | traps, files, memory |
| page allocator | `PageAllocator.zig`; `kalloc.c` | `PageAllocator`; `Vm` | page tables, pipes |
| page tables, memory of processes | `vm.c`, `proc.c`, `sysproc.c` | `Vm`, `UserMemory` | exec, fork, sbrk |
| exec | `exec.c`, `sysfile.c` | `Exec` | page tables, inodes |
| disk driver | `virtio_disk.c` | `VirtioDisk` | buffer cache, device |
| buffer cache, sleep locks | `bio.c`, `sleeplock.c` | `BufCache` | disk driver, log |
| redo log | `log.c` | `Log`, `AtomicDisk` | buffer cache |
| inodes, directories, open files | `fs.c`, `file.c`, `sysfile.c`, `syscall/file.zig` | `FileSystem` | log, pipes |
| file contents, blocks | `fs.c`, `file.c`, `mkfs.c` | `FileData`, `Mkfs` | log |
| pipes | `pipe.c` | `Pipe`, `ByteStream` | sleep and wakeup |
| serial line, console, clock | `uart.c`, `console.c`, `printf.c`, `trap.c`, `sysproc.c` | `Uart`, `Console`, `Devices` | sleep and wakeup |
| shell, init, echo, cat | `user/` | `ShellParser`, `UserProcs`, `Shell` | system calls |

## 2. Modules

| module | state and actions |
|---|---|
| `AtomicDisk` | the promise of the redo log: durable contents, the contents that calls see, the calls in progress; a group of calls becomes durable at once or not at all |
| `Log` | `outstanding`, `committing`, `lh` in memory, header and log blocks on disk; one action per call (`BeginOp`, `LogWrite`, `EndOp`), one per disk write of `commit()` and of recovery, `Crash` at any point |
| `PageAllocator` | the linked list inside the free pages; a turn of a loop of alloc or free is a step |
| `SpinLock` | lock word, owner, `noff`, `intena`, SIE; each memory access of acquire and release is a step; interrupt handlers nest over threads |
| `Proc` | the process table, the `p->lock`s and `wait_lock`, each cpu's scheduler and stack; a step is a critical section, or a part of one where a second lock is taken or the cpu changes stacks |
| `Vm` | operators on physical memory: `walk`, `mappages`, `uvmunmap`, `uvmalloc`, `uvmdealloc`, `uvmcopy`, `freewalk`, `copyin`, `copyout` on a tree of three levels |
| `UserMemory` | processes over `Vm`: `sbrk`, `fork`, stores, and the loops that allocate page by page, one turn a step |
| `Exec` | `sys_exec` and `exec`: arguments, segments, stack, commit, and `bad:` from each point |
| `VirtioDisk` | descriptors, the rings, who sleeps for what; a step is a section under `vdisk_lock`, a request of the device, or the handler up to its next look at the used ring |
| `BufCache` | buffers, LRU order, reference counts, sleep locks, over `VirtioDisk` |
| `FileSystem` | inode table, inodes and directories on disk, inode locks, file table, descriptors, current directories; a step is a section under one inode's lock or under `itable.lock`, and a frame holds what a call has still to give back |
| `FileData`, `Mkfs` | bitmap, blocks, addresses and sizes of inodes, offsets of open files; a step is a section with one buffer locked. `Mkfs` makes the first image |
| `ByteStream` | the promise of a pipe: a bounded queue with two ends |
| `Pipe` | ring, wrapping counters, open ends, `pi->lock`; a turn of a loop is a step |
| `Uart` | the output ring, `uart_tx_lock`, the 16550a as a queue that is idle when empty; the test and the write of `uartstart` are two steps |
| `Console` | the input ring with `r`, `w` and `e`, reads and writes, line editing and echo in the handler, printf |
| `Devices` | both, with `ticks`, `sys_sleep`, `clockintr` and `kill` |
| `ShellParser` | the recursive descent parser of `sh.c` as operators, and the grammar of its lines as a second definition |
| `UserProcs` | fork, exit, wait, descriptors, files and pipes as a program sees them |
| `Shell` | the loops of init and of the shell, `runcmd` case by case, `echo` and `cat`; `Meaning` says what a line should do |
| `MC...` | instances for TLC |
| `LogProofs`, `PageAllocatorProofs`, `SpinLockProofs`, `PipeProofs`, `VirtioDiskProofs`, `BufCacheProofs`, `ProcSteps`, `ProcProofs` | inductive invariants, lemmas and theorems |

How they fit together. `SpinLock` shows that a lock gives mutual exclusion with
interrupts off; the other modules therefore treat a critical section as one
step. `Proc` shows that `sleep` takes `p->lock` before it releases the condition
lock, so that no wakeup falls in between; `Pipe`, `BufCache`, `VirtioDisk`,
`Console` and `Log` treat "sleep and release" as one step on that ground. `Log`
uses the cache the way `BufCache` shows it to behave: one buffer per block, a
pinned block stays, others may be evicted at any time. `FileSystem` and
`FileData` use the log as `AtomicDisk` promises it: a call is one transaction.
`Shell` uses processes, files and pipes as `Proc`, `FileSystem` and `Pipe` show
them to behave.

What is left out of a module, and why:

* `Log` follows one device and abstracts block contents to two values; the
  inode, bitmap and directory updates of a call are "some `log_write`s".
* `PageAllocator` counts in pages (a request is rounded up by the code first).
  The lock is held for the whole call, so calls do not overlap.
* `SpinLock.zig` takes the lock with `cmpxchgWeak`; the model's swap does not
  fail spuriously, since the RISC-V lowering retries.
* `Proc`: in the C build a process is preempted in the kernel too, at the places
  that `Preempted` names: between two critical sections of `fork` and after
  `sleep`. In the Zig build interrupts are off from the first `myproc()` of a
  system call on (section 5), and `which_dev` is read uninitialised after a
  system call (`trap.zig:85`), so the return from one may yield or not. init
  neither exits nor is killed: the kernel panics then by design. Pids are
  bounded and not reused.
* `Vm` and `Exec`: addresses are small numbers, the kernel's own page table is
  not there, and physical memory is smaller than the address space, so that
  `sbrk` never reaches the trapframe. The file that `exec` reads does not
  change meanwhile. `copyout` does not look at `PTE_W`, in the code and here.
* `VirtioDisk`: the avail ring is a set, since the device may take requests in
  any order; the used ring is a queue, since `NUM` divides the range of the
  16-bit indices. A partial failure of `alloc3_desc` wakes other waiters, in
  the code and here, which is harmless.
* `FileSystem`: that the disk is full is a choice in `dirlink`. The inode table
  has room for every inode (`iget` panics otherwise), and a path is a sequence
  of names. Programs do not see each other's memory, so `fstat` only takes and
  gives back its locks.
* `Pipe` starts with a pipe that exists; `pipealloc` and its failures are in
  `FileSystem`.
* `Devices`: `procdump` on ^P and the freeze after a panic are left out, the
  three characters that erase one on the screen are one, and `sleep` is called
  with positive arguments. `uptime` only reads.
* `Shell`: a token is one symbol, so that `gettoken` and `peek` have no
  characters to skip; words on standard error are left out, and so is the blank
  that `echo` writes. The loop with which the shell opens the console until
  descriptors 0 to 2 are in use (`sh.c:151`) is left out: init has opened them, so
  that it opens one more and closes it. There is one directory. The console has
  no input for commands. `>>` opens without truncating at offset 0 and so writes
  over the beginning, in the code and here. init exits, and the kernel panics, if
  there is no slot for the shell; `StartShell` is not taken then.

## 3. Runs

| run | instance | shows |
|---|---|---|
| `log` | 2 processes, 3 blocks, 2 values, log of 4, crashes anywhere, torn blocks | `RefinesAtomicDisk`, `LogInv`, `QuiescentDurable`, `NoPanic`, `CallReturns` |
| `page_allocator` | 5 pages, requests up to 3, stale headers | `ListInv`, `RefusalJustified` |
| `spinlock` | 2 cpus, threads and handlers, 3 locks, one of them Zig's, and `myproc` | `LockInv` (with mutual exclusion), `NoPanic`, `LocksReleased` |
| `proc` | 2 cpus, 3 slots, 3 pids, fork, exit, wait, kill, timer, fork may run out of memory | `TableInv`, `UserUnlocked`, `NoLostWakeup`, `NoOrphans`, `ZombiesReaped`, `ReadyRuns` |
| `exec` | 2 processes, 21 pages of 4 bytes, 3 entries a table, 7 programs, 4 argument vectors | `PagesOwned`, `MemoryPrivate` |
| `bufcache` | 3 processes, 4 blocks, 3 buffers, 1 pin, 8 descriptors | `Coherent`, `CacheInv`, `NoLostWakeup`, `DiskWakeups`, `DescOwned` |
| `fs` | 2 processes, the directory `/d`, files `/f` and `/d/f`, 3 inodes, 2 files, 2 descriptors each | `NoPanic`, `RefsExact`, `LinksCounted`, `NoCircularWait` |
| `filedata` | 2 processes, 2 files, one of them open twice, 8 blocks of 2 bytes, 1 direct and 2 addresses an indirect block, transactions of 4 bytes | `BlocksOwned`, `Content` |
| `filedata_full` | the same disk, filled | a finding: `BlocksOwned` fails |
| `pipe` | 2 processes that share both ends, ring of 2, counters modulo 4, writes of 3 bytes, faults and kills | `IsStream`, `NoLostWakeup`, `NoUseAfterFree`, `CallsReturn` |
| `devices` | 2 processes, rings of 2, indices and ticks modulo 4, uart queue of 3, six workloads | `OutputInOrder`, `LinesKept`, `SleepersWait`, `OutputGoesOn` |
| `shell` | all lines of up to 3 tokens over 8 symbols and 4 words, 10 longer lines, 25 pairs of lines; 7 slots, pipes of one word | `ParsedRight`, `LineDone`, `LinesEnd` |

Why the bounds are enough for the cases to happen:

* `log`: two calls overlap, share a transaction, absorb a block both write, and
  the second must wait once the first has logged a block; a crash hits every write of a
  commit and of a recovery, and recoveries are cut short again. A log of 4 with
  a reservation of 2 is the smallest in which two calls run together. A call
  writes one block of the two, since calls that use all of their reservation
  reach the panic of `log_write` (section 5).
* `page_allocator`: five pages allow a free run on both sides of an owned block
  with a block left over, which is the case of a two-sided merge in the middle
  of the list.
* `spinlock`: three locks nest, a handler can want each of them, and both kinds
  are the outermost one.
* `proc`: a parent, a child and a grandchild, a slot that is used again, and one
  cpu that runs exit while the other is in wait or in its scheduler. kill is
  called with the pid of a process; kill(0) is in section 5.
* `exec`: with 21 pages every allocation of `sbrk`, `fork` and `exec` can be the
  one that fails, and a whole `exec` still fits beside a child. The programs
  have a header to skip, overlapping segments, a file that is too short, headers
  that are refused (one where `vaddr + memsz` wraps) and an empty segment; one
  file is no program.
  Which physical pages are used does not matter: the VIEW of the run tells states
  apart by the contents that the page tables lead to, by the number of free
  pages and by whether the two properties hold, so that a state that violates
  one is never taken for one that does not.
* `bufcache`: one block more than buffers, so that a miss recycles; three
  requests of three descriptors on eight, so that one process sleeps for
  descriptors and gives back those it got.
* `fs`: between them the two processes make and remove a directory while one of
  them is in it, and create, link and remove a file in it, so that a directory is
  removed between two steps of a lookup and used when it is locked again, and an
  inode number is taken again while its last user drops it. Inodes, file table and
  descriptors all run out; descriptors are shared by dup and fork. `mkdir` of `..`
  in `/d` wants `/` when it has had `/d`, against `unlink` of `/d`, which has `/` and
  wants `/d`; in `/` it wants what it has just had. If `create` kept the parent
  locked while it locks what it has found, the first would close a circle of two
  calls and the second one of a single call. Directories are one level deep: one
  level more, and `..` of a removed directory can lead to an inode that is free
  (section 5).
* `filedata`: files reach into their doubly indirect blocks, a write takes
  several transactions with other calls between them, and both files together
  are larger than the disk.
* `pipe`: writes longer than the ring, both counters wrapping, and every way of
  sharing the ends, reached by closing. Counters wrap at a multiple of
  `PIPESIZE`, as 2^32 is one of 512.
* `devices`: full rings, wrapping indices, an interrupt between any two steps.
  What the rings hold outside of their indices is hidden by the VIEW. A woken
  sleeper runs before `ticks` has gone round once more; with 2^32 ticks that is
  more than a year.
* `shell`: three tokens give every pair of neighbours in the grammar; the longer
  lines have nested pipes, lists in blocks, redirected blocks and background
  jobs, commands whose reader exits early, so that `echo` and `cat` meet a broken
  pipe, and a command with too many arguments (`MAXARGS` is 4). Two lines in a row
  show that the second starts after the first.

Deadlock is checked except in `pipe`, which ends with both ends closed, and
`shell`, which ends when there is nothing more to type.

### Fairness

* `Log`: a process inside a call, or woken in `begin_op`, runs on, because the
  scheduler is round robin. Nobody has to start a call. Power failures are not
  bounded.
* `SpinLock`: a hart executes on, sections end, handlers return. Nothing is
  assumed about who wins a contended swap, so the liveness property is that of
  the system and not of one cpu.
* `Proc`: strong fairness of each cpu, which is stronger than the hardware of
  one swap and stands for its arbitration: a cpu that spins for a lock that is
  free again and again gets it. A pending timer interrupt is taken on the return
  to user mode. init calls wait again (`user/init.c`).
* `Pipe`: strong fairness of each process's steps in a call, for the spin lock as
  in `Proc`; programs use or close their ends and do not pass bad
  buffers for ever.
* `Shell`: each process that can go on does, which `ReadyRuns` shows of the
  scheduler. The input is finite: with endless ends of input init would reap one
  shell after the other, in the order of the table, and might never get to an
  orphan in a higher slot.
* `Devices` has no fairness: that output goes on is stated as an invariant (the
  next one to act is there).

## 4. Proofs

TLAPS checks these for every value of the constants that satisfies the named
`ASSUME` of the module.

* `Log` (`LogProofs`). The inductive invariant is `LogInv`:
  who can be where (`Control`), what the two headers hold at each phase
  (`Headers`), how far the copies have got (`Copies`), what the cache may differ
  from the disk in (`Coherent`), and the pins. Refinement alone is not
  inductive: that installing a block changes nothing durable needs to know that
  the log block still holds what the commit wrote, and that the cache agrees.
  One lemma per action, then one per action for the refinement: only
  `WriteHead` commits, `Crash` is the abstract power failure, the other disk
  writes are stuttering steps. Results: `LogInvariant`, `PinsCorrect`,
  `QuiescentIsDurable`, `SleepersAreWaitingForSomeone`, `LogIsAtomic`.
  `LogNeverPanics` (`NoPanic`) needs a second invariant, `Budget`: what is in the
  log and what the calls in progress may still write, counted as a set of
  reservations, fit into it. It has the hypothesis `SizesFit`, `LOGSIZE +
  OpBlocks < NLog + MAXOPBLOCKS`: with the code's sizes a call may write 9 of its
  10 blocks, and section 5 says what happens at 10.
* `PageAllocator` (`PageAllocatorProofs`). `ListInv` says that the list is the
  set of free pages as maximal runs in address order, and where the loop of the
  call in progress is in it. Lemmas about taking a run from such a list and
  inserting one (`TakeList`, `InsertList`) carry the two steps that change it.
  That every free page lies in some run is a conjunct of the invariant, since it
  would need induction over the list otherwise. Results: `ListInvariant`,
  `PagesDisjoint`, `ListIsExact`, `RefusalIsJustified`.
* `SpinLock` (`SpinLockProofs`). `LockInv` ties the lock words, the owners and
  the position of each context together, for any number of cpus and locks of
  both kinds. `IntrInv` adds how often each cpu has pushed interrupts off and
  what a handler finds when it starts. Results: `LockInvariant`, `LocksExclude`,
  `LocksNeverPanic` (`NoPanic`).
* `Pipe` (`PipeProofs`). `PipeInv` says who has the lock, that the counters are
  at most `PIPESIZE` apart modulo their range, that whoever sleeps has a reason
  to and somebody to wake it, and that references and calls keep the struct
  alive. Results: `PipeKeepsWakeups` (`NoLostWakeup`), `PipeNotUsedFreed`
  (`NoUseAfterFree`), and `PipeIsByteStream`, the refinement of `ByteStream`:
  the queue is read off the ring between the counters, and `PutStep` and
  `GetStep` say what writing and reading one byte do to it, wrapping included.
* `VirtioDisk` and `BufCache` (`VirtioDiskProofs`, `BufCacheProofs`). The driver
  has no specification of its own, since its caller is the cache: `DiskInv` and
  one lemma per action of the driver are the first module, the cache over it the
  second. `DiskInv`: every request is a chain of three descriptors as `Submit`
  formatted it, disjoint from the others and from the free ones, in one ring at
  most, and `b->disk` says whether. `BufInv`: one buffer to a block, counts that
  are exact, who has which sleep lock, and that a block whose contents are not on
  disk is in a valid buffer which is pinned or held. Neither half is inductive
  alone: that a reader sees the last write needs the device to have been given
  this block and this buffer, and that no two requests are about one buffer
  needs the sleep lock. Results: `ReadersSeeLastWrite` (`Coherent`),
  `CacheConsistent` (`CacheInv`), `CacheKeepsWakeups` (`NoLostWakeup`),
  `DescriptorsKept` (`DescOwned`), `DiskKeepsWakeups` (`DiskWakeups`). The one
  assumption on sizes is `NUM >= 3`, where the code has 8; there are finitely
  many processes.
* `Proc` (`ProcSteps`, `ProcProofs`). `ProcInv` has ten conjuncts besides the
  types: which cpu has which process (`Cpus`), that the locks are held exactly
  where the code holds them (`Locks`), where a process in a state can be
  (`Places`), what is known of a child that fork is making (`Births`), the tree
  (`Parents`), how far an exiting process has got in giving its children away
  (`Exits`), what wait() and exit() have seen of the table under `wait_lock`
  (`Woke`), that a zombie's parent is awake or about to be woken (`Told`), pids,
  and who can be killed. The steps that only move one process on share `Move`,
  those that give up the cpu share `Switch`. Results: `UserHoldsNoLock`
  (`UserUnlocked`), `ParentsAreWoken` (`NoLostWakeup`), `NobodyOrphaned`
  (`NoOrphans`), `TableConsistent` (`TableInv`), for any number of cpus, slots
  and pids, with kernel preemption anywhere the C build allows it, and for both
  builds. Hypotheses: `Restores`, that fork does not run out of memory in the Zig
  build (section 5); and, for `UserHoldsNoLock`, that init is not killed.

The invariants of `Log`, `PageAllocator` and `SpinLock` are those of the runs; those
of the other modules, `Budget` and `IntrInv` are only a means of the proofs.

Only model-checked:

* liveness (`CallReturns`, `LocksReleased`, `ZombiesReaped`, `ReadyRuns`,
  `CallsReturn`, `LinesEnd`): needs fairness and ENABLED;
* `Exec` with `Vm`, `FileData` with `Mkfs`, and `Shell` with its parser: page
  tables, indirect blocks and command trees are walked by recursive operators,
  about which nothing can be proved by induction here;
* `FileSystem` and `Devices`: no obstacle of principle, no proofs yet.

## 5. Where the code and its texts disagree

* `filedata_full`, both builds: `fs.c:381` says that bmap "returns 0 if out of
  disk space". In the doubly indirect part it goes on with block 0 as the
  indirect block, and if another file frees a block before the next `balloc`, the
  address of that block is entered in block 0, where no file finds it.

What the Zig build shows, with `Zig = TRUE` in the configurations (no run of its
own here):

* `Proc.cfg`: `UserUnlocked` fails. `proc.zig:116` says that allocproc returns
  when an allocation fails; it returns with the lock of the slot held and the
  slot in use. With `NoMemory = FALSE` all properties of the run hold.
* `FileSystem.cfg`: `RefsExact` fails. `open` without a free descriptor does not
  give its file table entry back (`syscall/file.zig:286`).
* `FileSystem.cfg` with one process and `Calls <- MCLinkDir`: `LinksCounted`
  fails. `link` of a directory is refused, as it should be, but its clean-up
  lowers `nlink`, which had not been raised (`syscall/file.zig:118`), and the
  inode is freed while it has a name; `fs.h:42` calls `nlink` the "Number of
  links to inode in file system".
* The same with `Calls <- MCCreateDot`: `NoCircularWait` fails. `create` holds
  the parent's lock when it locks an entry that exists (`syscall/file.zig:217`;
  the C original gives it back first), so that a path that ends in `.` waits for
  itself.
* `SpinLock.cfg` with `INVARIANT IntrMatched`: fails. `SpinLock.zig:69` says that
  pushOff and popOff are matched; `pushOff` clears the interrupt flag before it
  saves it, so that `popOff` never turns interrupts back on. `push_off` in
  `spinlock.c` reads the flag first.

Read in the code of the Zig build and not modelled: `vm.zig` undoes a failed
`alloc` with `dealloc(addr, addr - oldsz)`, which gives nothing back when `oldsz`
is 0; the undoing of a failed `copy` may unmap 0 pages, which `unmap` asserts
against; kernel stacks are mapped for one slot fewer than there are
(`vm.zig:454`); a program header that is skipped is not stepped over
(`syscall/exec.zig:76`).

What the modules show of both builds in other configurations than those of the
runs, which is why the properties named here are stated with a restriction:

* `Log.cfg` with `OpBlocks = 2`, all that `begin_op` reserves for a call: `NoPanic`
  fails. `param.h:9` calls `MAXOPBLOCKS` the "max # of blocks any FS op writes" and
  `LOGSIZE` the "max data blocks in on-disk log"; the log on disk has `LOGSIZE`
  blocks with its header (`mkfs.c:26`), and `log_write` panics one block early
  (`log.c:220`).
* `Proc.cfg` with `Targets = {0}`: a free slot gets the mark of a kill, which
  `TableInv` states only for `0 \notin Targets`. `proc.c:582` says of kill "Kill the
  process with the given pid"; `kill(0)` matches the pid of free slots
  (`proc.c:592`), `allocproc` leaves the mark, and the next process in the slot is
  killed.
* `FileSystem.cfg` with one process and `Calls <- MCDotDot`: `NoPanic` fails. `..`
  of a removed directory still names the directory above, which may be removed and
  freed too; a lookup through it fails the check of `ilock` (`fs.c:314`).

More that no run shows, and what the modules do about it:

* `pipewrite` returns -1 to a killed writer without a wakeup (`pipe.c:85`), so
  that bytes it has written may lie in the pipe while a reader sleeps.
  `NoLostWakeup` of `Pipe` allows for it.
* A kill between the test of `killed` and `sleep` in `consoleread` finds the
  process not yet asleep; it then sleeps until the next input.
* A file created in a directory that was removed meanwhile keeps its link when
  the directory is freed, and is never freed itself; `LinksCounted` therefore
  bounds `nlink` from below only.
* `bget` panics when all buffers are in use; `CacheInv` says that it takes as
  many users and pinned blocks as there are buffers. `NBUF` is not larger than
  what the log may pin and the processes hold together.
* `iappend` of `mkfs.c` asserts `fbn < MAXFILE`, which counts doubly indirect
  blocks, but has no code for them; `Mkfs` builds files without them.
* `a > f > g` writes to `f`: the inner redirection is applied last.

## 6. Not modelled, and what comes next

* `umalloc.c`: a sequential free list, next to be modelled.
* The kernel's own page table, boot, `plic`, `string.c`, `syscall.c`, formatting
  and assembly: no state that a property is about.
* `usertests.c`, `grind.c` and the other programs of `user/`: sequential
  programs and tests, most of the remaining lines of C.
* `sh.zig` and the other user programs in Zig; `vm.zig` and `syscall/exec.zig`.

Proofs to come: `RefsExact` of `FileSystem`, `OutputInOrder` and `SleepersWait` of
`Devices`.
