-------------------------------- MODULE Proc --------------------------------
(***************************************************************************)
(* The process table of kernel/proc.c: fork, exit, wait, kill, yield,      *)
(* sleep, wakeup and the per-cpu schedulers.  A step is one critical       *)
(* section of a p->lock, or a part of one where the lock is kept while     *)
(* another lock is taken or the cpu changes stacks.  Open files, the       *)
(* current directory and user memory are left to other modules; memory     *)
(* running out is a choice here.  Zig says which build is meant: where it  *)
(* is looked at, kernel/proc.zig and trap.zig differ from proc.c and       *)
(* trap.c.                                                                 *)
(***************************************************************************)
EXTENDS Naturals, FiniteSets

CONSTANTS CPU, None,
          NPROC,
          MaxPid,      \* bound: no more than MaxPid pids are given out
          Targets,     \* arguments of kill
          Calls,       \* the system calls that programs make
          Preempted,   \* bound: where in the kernel the timer interrupts
          NoMemory,    \* whether fork's allocations may fail
          Zig          \* the kernel of build.zig, not that of the Makefile

(* Where a process is in a system call and its cpu holds no lock, and so   *)
(* takes interrupts.                                                       *)
Preemptible == {"fork", "adopt", "ready", "exit", "wait", "relock", "kill", "ret"}

ASSUME ProcAssumption ==
  /\ NPROC \in Nat \ {0}
  /\ MaxPid \in Nat
  /\ Targets \subseteq Nat
  /\ Calls \subseteq {"fork", "exit", "wait", "kill"}
  /\ Preempted \subseteq Preemptible /\ NoMemory \in BOOLEAN /\ Zig \in BOOLEAN
  /\ None \notin CPU \cup Nat

Slot == 1 .. NPROC
InitProc == 1

VARIABLES
  state, chan, killed, pid, parent,  \* struct proc
  lock, waitLock,                    \* the cpu that holds p->lock, wait_lock
  nextpid,
  current, stack,  \* cpu->proc, and whose stack the cpu is on
  at,              \* where the cpu's scheduler is in its loop
  pc, i, j, arg,   \* where each process is, its loop indices and locals
  back             \* where it goes on after a yield

table == <<state, chan, killed, pid, parent, nextpid>>
locks == <<lock, waitLock>>
sched == <<current, stack, at>>
local == <<i, j, arg, back>>
vars == <<table, locks, sched, pc, local>>

Label == {"new", "user", "ret", "yield", "yielded", "fork", "copy", "adopt", "ready",
          "exit", "reparent", "wakeinit", "wakeparent", "zombie", "dead",
          "wait", "scan", "sleep", "asleep", "relock", "kill"}

TypeOK ==
  /\ state \in [Slot -> {"unused", "used", "sleeping", "runnable", "running", "zombie"}]
  /\ chan \in [Slot -> Slot \cup {None}]
  /\ killed \in [Slot -> BOOLEAN]
  /\ pid \in [Slot -> Nat]
  /\ parent \in [Slot -> Slot \cup {None}]
  /\ lock \in [Slot -> CPU \cup {None}]
  /\ waitLock \in CPU \cup {None}
  /\ nextpid \in Nat \ {0}
  /\ current \in [CPU -> Slot \cup {None}]
  /\ stack \in [CPU -> {"sched", "proc", "panic"}]
  /\ at \in [CPU -> Slot]
  /\ pc \in [Slot -> Label]
  /\ i \in [Slot -> 1 .. NPROC + 1]
  /\ j \in [Slot -> 1 .. NPROC + 1]
  /\ arg \in [Slot -> Nat]
  /\ back \in [Slot -> Label]

(* After userinit: the first process is ready to run, all cpus schedule. *)
Init ==
  /\ state = [p \in Slot |-> IF p = InitProc THEN "runnable" ELSE "unused"]
  /\ chan = [p \in Slot |-> None]
  /\ killed = [p \in Slot |-> FALSE]
  /\ pid = [p \in Slot |-> IF p = InitProc THEN 1 ELSE 0]
  /\ parent = [p \in Slot |-> None]
  /\ lock = [p \in Slot |-> None]
  /\ waitLock = None
  /\ nextpid = 2
  /\ current = [c \in CPU |-> None]
  /\ stack = [c \in CPU |-> "sched"]
  /\ at = [c \in CPU |-> 1]
  /\ pc = [p \in Slot |-> "new"]
  /\ i = [p \in Slot |-> 1]
  /\ j = [p \in Slot |-> 1]
  /\ arg = [p \in Slot |-> 0]
  /\ back = [p \in Slot |-> "user"]

Runs(c, p) == current[c] = p /\ stack[c] = "proc"

At(c, p, where) == Runs(c, p) /\ pc[p] = where

Goto(p, where) == pc' = [pc EXCEPT ![p] = where]

(* The locks are spin locks: a step that takes one waits till it is free. *)
Unlocked(p) == lock[p] = None

Lock(p, c) == lock' = [lock EXCEPT ![p] = c]

Unlock(p) == lock' = [lock EXCEPT ![p] = None]

(* A cpu that panics stays in panic().  (So does one that wants a lock it  *)
(* holds itself; here it keeps waiting for the lock.)                      *)
Panic(c) == stack' = [stack EXCEPT ![c] = "panic"]

(* sched() switches from the process to the scheduler of its cpu, if p's   *)
(* lock is the only one the cpu now holds.                                 *)
Sched(c, p) ==
  /\ IF waitLock' # c /\ {q \in Slot : lock'[q] = c} = {p}
     THEN stack' = [stack EXCEPT ![c] = "sched"]
     ELSE Panic(c)
  /\ UNCHANGED <<current, at>>

-----------------------------------------------------------------------------
(* scheduler() *)

(* Seeded fault: the loop misses the last slot. *)
NextSlotShort(p) == (p % (NPROC - 1)) + 1

NextSlot(p) == (p % NPROC) + 1

Visitable(p) == Unlocked(p)

(* One turn of the loop: run the process, with its lock held, or go on. *)
SchedVisit(c) ==
  /\ stack[c] = "sched" /\ current[c] = None /\ Visitable(at[c])
  /\ IF state[at[c]] = "runnable"
     THEN /\ state' = [state EXCEPT ![at[c]] = "running"]
          /\ current' = [current EXCEPT ![c] = at[c]]
          /\ stack' = [stack EXCEPT ![c] = "proc"]
          /\ Lock(at[c], c)
          /\ UNCHANGED at
     ELSE /\ at' = [at EXCEPT ![c] = NextSlot(@)]
          /\ UNCHANGED <<state, current, stack, lock>>
  /\ UNCHANGED <<chan, killed, pid, parent, nextpid, waitLock, pc, local>>

(* The process has switched back. *)
SchedBack(c) ==
  /\ stack[c] = "sched" /\ current[c] # None
  /\ current' = [current EXCEPT ![c] = None]
  /\ Unlock(at[c])
  /\ at' = [at EXCEPT ![c] = NextSlot(@)]
  /\ UNCHANGED <<table, waitLock, stack, pc, local>>

-----------------------------------------------------------------------------
(* usertrap(), yield() and forkret() *)

(* The process, as it was switched to, releases the lock that the scheduler *)
(* took for it: forkret, or the end of yield.                              *)
Resume(c, p) ==
  /\ Runs(c, p) /\ pc[p] \in {"new", "yielded"}
  /\ Unlock(p)
  /\ Goto(p, back[p])
  /\ UNCHANGED <<table, waitLock, sched, local>>

(* killed() decides between exit(-1) and going on. *)
UnlessKilled(p, where) ==
  /\ Unlocked(p)
  /\ Goto(p, IF killed[p] THEN "exit" ELSE where)

(* The bound on pids, forks under way included. *)
Forking == {p \in Slot : pc[p] = "fork" \/ (pc[p] \in {"yield", "yielded"} /\ back[p] = "fork")}
PidsLeft == nextpid + Cardinality(Forking) <= MaxPid

Syscall(c, p, call) ==
  /\ At(c, p, "user") /\ call \in Calls
  /\ call = "exit" => p # InitProc
  /\ call = "fork" => PidsLeft
  /\ UnlessKilled(p, call)
  /\ i' = [i EXCEPT ![p] = 1]
  /\ IF call = "kill" THEN \E t \in Targets : arg' = [arg EXCEPT ![p] = t]
                      ELSE UNCHANGED arg
  /\ UNCHANGED <<table, locks, sched, j, back>>

(* A timer interrupt in user mode. *)
Timer(c, p) ==
  /\ At(c, p, "user")
  /\ UnlessKilled(p, "yield")
  /\ UNCHANGED <<table, locks, sched, local>>

(* A timer interrupt in the kernel: kerneltrap yields for the process.  A  *)
(* bound: interrupts are far between, and do not hit the same place of a   *)
(* call twice in a row.                                                    *)
Kerneltrap(c, p) ==
  /\ Runs(c, p) /\ pc[p] \in Preempted \ {back[p]}
  /\ back' = [back EXCEPT ![p] = pc[p]]
  /\ Goto(p, "yield")
  /\ UNCHANGED <<table, locks, sched, i, j, arg>>

(* After a system call usertrap looks at which_dev; the Zig build has not  *)
(* set it, and may yield or not.                                           *)
SyscallReturn(c, p) ==
  /\ At(c, p, "ret")
  /\ \E next \in {"user"} \cup (IF Zig THEN {"yield"} ELSE {}) : UnlessKilled(p, next)
  /\ i' = [i EXCEPT ![p] = 1]
  /\ j' = [j EXCEPT ![p] = 1]
  /\ arg' = [arg EXCEPT ![p] = 0]
  /\ back' = [back EXCEPT ![p] = "user"]
  /\ UNCHANGED <<table, locks, sched>>

Yield(c, p) ==
  /\ At(c, p, "yield") /\ Unlocked(p)
  /\ Lock(p, c) /\ UNCHANGED waitLock
  /\ state' = [state EXCEPT ![p] = "runnable"]
  /\ Goto(p, "yielded")
  /\ Sched(c, p)
  /\ UNCHANGED <<chan, killed, pid, parent, nextpid, local>>

-----------------------------------------------------------------------------
(* fork() and allocproc() *)

Freeproc(q) ==
  /\ state' = [state EXCEPT ![q] = "unused"]
  /\ pid' = [pid EXCEPT ![q] = 0]
  /\ parent' = [parent EXCEPT ![q] = None]
  /\ chan' = [chan EXCEPT ![q] = None]
  /\ killed' = [killed EXCEPT ![q] = FALSE]
  /\ UNCHANGED nextpid

(* What allocpid leaves in nextpid. *)
Allocpid == nextpid + 1

(* allocproc's turn at slot i: claim it and keep its lock, or go on.  The  *)
(* loop ends without a slot when the table is full.                        *)
Allocproc(c, p) ==
  /\ At(c, p, "fork")
  /\ IF i[p] > NPROC
     THEN Goto(p, "ret") /\ UNCHANGED <<table, lock, i, arg>>
     ELSE /\ Unlocked(i[p])
          /\ IF state[i[p]] = "unused"
             THEN /\ Lock(i[p], c)
                  /\ pid' = [pid EXCEPT ![i[p]] = nextpid]
                  /\ nextpid' = Allocpid
                  /\ state' = [state EXCEPT ![i[p]] = "used"]
                  /\ arg' = [arg EXCEPT ![p] = i[p]]
                  /\ Goto(p, "copy")
                  /\ UNCHANGED <<chan, killed, parent, i>>
             ELSE /\ i' = [i EXCEPT ![p] = @ + 1]
                  /\ UNCHANGED <<table, lock, arg, pc>>
  /\ UNCHANGED <<waitLock, sched, j, back>>

(* The trapframe, the page table and the copy of the memory; the child's   *)
(* context starts in forkret.                                              *)
ForkCopy(c, p) ==
  /\ At(c, p, "copy")
  /\ Unlock(arg[p])
  /\ pc' = [pc EXCEPT ![p] = "adopt", ![arg[p]] = "new"]
  /\ UNCHANGED <<table, waitLock, sched, local>>

(* An allocation fails: the slot is free again.  In the Zig build, try     *)
(* returns from fork there and then.                                       *)
ForkFail(c, p) ==
  /\ NoMemory /\ At(c, p, "copy")
  /\ Goto(p, "ret")
  /\ IF Zig THEN UNCHANGED <<table, lock>> ELSE Freeproc(arg[p]) /\ Unlock(arg[p])
  /\ UNCHANGED <<waitLock, sched, local>>

(* Seeded fault: the child may run before it has a parent. *)
ForkAdoptLate(c, p) ==
  /\ At(c, p, "adopt") /\ waitLock = None /\ Unlocked(arg[p])
  /\ state' = [state EXCEPT ![arg[p]] = "runnable"]
  /\ Goto(p, "ready")
  /\ UNCHANGED <<chan, killed, pid, parent, nextpid, locks, sched, local>>

ForkAdopt(c, p) ==
  /\ At(c, p, "adopt") /\ waitLock = None
  /\ parent' = [parent EXCEPT ![arg[p]] = p]
  /\ Goto(p, "ready")
  /\ UNCHANGED <<state, chan, killed, pid, nextpid, locks, sched, local>>

ForkReady(c, p) ==
  /\ At(c, p, "ready") /\ Unlocked(arg[p])
  /\ state' = [state EXCEPT ![arg[p]] = "runnable"]
  /\ Goto(p, "ret")
  /\ UNCHANGED <<chan, killed, pid, parent, nextpid, locks, sched, local>>

-----------------------------------------------------------------------------
(* wakeup(): the turn at slot j, and where to go when the loop is done. *)
Wakeup(c, p, ch, done) ==
  /\ IF j[p] > NPROC
     THEN done /\ UNCHANGED state
     ELSE /\ j' = [j EXCEPT ![p] = @ + 1]
          /\ j[p] # p => Unlocked(j[p])
          /\ state' = IF j[p] # p /\ state[j[p]] = "sleeping" /\ chan[j[p]] = ch
                      THEN [state EXCEPT ![j[p]] = "runnable"] ELSE state
          /\ UNCHANGED <<pc, i>>
  /\ UNCHANGED <<chan, killed, pid, parent, nextpid, locks, sched, arg, back>>

(* exit() *)

(* init must not exit; any other process gives its children away. *)
Exit(c, p) ==
  /\ At(c, p, "exit")
  /\ IF p = InitProc
     THEN Panic(c) /\ UNCHANGED <<waitLock, i, j, pc>>
     ELSE /\ waitLock = None
          /\ waitLock' = c
          /\ i' = [i EXCEPT ![p] = 1]
          /\ j' = [j EXCEPT ![p] = 1]
          /\ Goto(p, "reparent")
          /\ UNCHANGED stack
  /\ UNCHANGED <<table, lock, current, at, arg, back>>

(* reparent's turn at slot i: a child goes to init, which is woken. *)
Reparent(c, p) ==
  /\ At(c, p, "reparent")
  /\ IF i[p] > NPROC
     THEN Goto(p, "wakeparent") /\ UNCHANGED <<parent, i>>
     ELSE IF parent[i[p]] = p
     THEN /\ parent' = [parent EXCEPT ![i[p]] = InitProc]
          /\ Goto(p, "wakeinit")
          /\ UNCHANGED i
     ELSE i' = [i EXCEPT ![p] = @ + 1] /\ UNCHANGED <<parent, pc>>
  /\ UNCHANGED <<state, chan, killed, pid, nextpid, locks, sched, j, arg, back>>

(* wakeup(initproc) in reparent *)
WakeInit(c, p) ==
  /\ At(c, p, "wakeinit")
  /\ Wakeup(c, p, InitProc,
            /\ Goto(p, "reparent")
            /\ i' = [i EXCEPT ![p] = @ + 1]
            /\ j' = [j EXCEPT ![p] = 1])

(* wakeup(p->parent) *)
WakeParent(c, p) ==
  /\ At(c, p, "wakeparent")
  /\ Wakeup(c, p, parent[p], Goto(p, "zombie") /\ UNCHANGED <<i, j>>)

(* Seeded fault: wait_lock is released before the process is a zombie. *)
ZombieLate(c, p) ==
  \/ /\ At(c, p, "zombie") /\ waitLock = c
     /\ waitLock' = None
     /\ UNCHANGED <<table, lock, sched, pc, local>>
  \/ /\ At(c, p, "zombie") /\ waitLock # c /\ Unlocked(p)
     /\ Lock(p, c) /\ UNCHANGED waitLock
     /\ state' = [state EXCEPT ![p] = "zombie"]
     /\ Goto(p, "dead")
     /\ Sched(c, p)
     /\ UNCHANGED <<chan, killed, pid, parent, nextpid, local>>

Zombie(c, p) ==
  /\ At(c, p, "zombie") /\ Unlocked(p)
  /\ Lock(p, c)
  /\ state' = [state EXCEPT ![p] = "zombie"]
  /\ waitLock' = None
  /\ Goto(p, "dead")
  /\ Sched(c, p)
  /\ i' = [i EXCEPT ![p] = 1]
  /\ j' = [j EXCEPT ![p] = 1]
  /\ arg' = [arg EXCEPT ![p] = 0]
  /\ back' = [back EXCEPT ![p] = "user"]
  /\ UNCHANGED <<chan, killed, pid, parent, nextpid>>

-----------------------------------------------------------------------------
(* wait() *)

(* acquire(&wait_lock), at the start and at the end of sleep; the loop     *)
(* starts over.                                                            *)
WaitLock(c, p) ==
  /\ Runs(c, p) /\ pc[p] \in {"wait", "relock"} /\ waitLock = None
  /\ waitLock' = c
  /\ i' = [i EXCEPT ![p] = 1]
  /\ arg' = [arg EXCEPT ![p] = 0]
  /\ Goto(p, "scan")
  /\ UNCHANGED <<table, lock, sched, j, back>>

(* Seeded fault: the child's lock is not taken. *)
InspectableNow(q) == TRUE

(* The child is not in the middle of exit() or swtch(). *)
Inspectable(q) == Unlocked(q)

(* The turn at slot i. *)
WaitVisit(c, p) ==
  /\ At(c, p, "scan") /\ i[p] <= NPROC
  /\ parent[i[p]] = p => Inspectable(i[p])
  /\ IF parent[i[p]] = p /\ state[i[p]] = "zombie"
     THEN /\ \/ Freeproc(i[p])
             \/ p # InitProc /\ UNCHANGED table  \* copyout failed; init passes 0
          /\ waitLock' = None
          /\ Goto(p, "ret")
          /\ UNCHANGED <<i, arg>>
     ELSE /\ i' = [i EXCEPT ![p] = @ + 1]
          /\ arg' = IF parent[i[p]] = p THEN [arg EXCEPT ![p] = 1] ELSE arg
          /\ UNCHANGED <<table, waitLock, pc>>
  /\ UNCHANGED <<lock, sched, j, back>>

(* Seeded fault: the early return keeps wait_lock. *)
WaitEndLocked(c, p) ==
  /\ At(c, p, "scan") /\ i[p] > NPROC
  /\ arg[p] = 1 => Unlocked(p)
  /\ Goto(p, IF arg[p] = 0 \/ killed[p] THEN "ret" ELSE "sleep")
  /\ UNCHANGED <<table, locks, sched, local>>

(* No zombie: give up without children or when killed, else sleep. *)
WaitEnd(c, p) ==
  /\ At(c, p, "scan") /\ i[p] > NPROC
  /\ arg[p] = 1 => Unlocked(p)
  /\ IF arg[p] = 0 \/ killed[p]
     THEN waitLock' = None /\ Goto(p, "ret")
     ELSE Goto(p, "sleep") /\ UNCHANGED waitLock
  /\ i' = [i EXCEPT ![p] = 1]
  /\ arg' = [arg EXCEPT ![p] = 0]
  /\ UNCHANGED <<table, lock, sched, j, back>>

(* sleep(p, &wait_lock): p->lock is taken before wait_lock is released. *)
Sleep(c, p) ==
  /\ At(c, p, "sleep") /\ Unlocked(p)
  /\ Lock(p, c)
  /\ waitLock' = None
  /\ chan' = [chan EXCEPT ![p] = p]
  /\ state' = [state EXCEPT ![p] = "sleeping"]
  /\ Goto(p, "asleep")
  /\ Sched(c, p)
  /\ UNCHANGED <<killed, pid, parent, nextpid, local>>

Woken(c, p) ==
  /\ At(c, p, "asleep")
  /\ chan' = [chan EXCEPT ![p] = None]
  /\ Unlock(p)
  /\ Goto(p, "relock")
  /\ UNCHANGED <<state, killed, pid, parent, nextpid, waitLock, sched, local>>

-----------------------------------------------------------------------------
(* kill(): the turn at slot i. *)
Kill(c, p) ==
  /\ At(c, p, "kill")
  /\ IF i[p] > NPROC
     THEN Goto(p, "ret") /\ UNCHANGED <<state, killed, i>>
     ELSE /\ Unlocked(i[p])
          /\ IF pid[i[p]] = arg[p]
             THEN /\ killed' = [killed EXCEPT ![i[p]] = TRUE]
                  /\ state' = [state EXCEPT ![i[p]] = IF @ = "sleeping" THEN "runnable" ELSE @]
                  /\ Goto(p, "ret")
                  /\ UNCHANGED i
             ELSE i' = [i EXCEPT ![p] = @ + 1] /\ UNCHANGED <<state, killed, pc>>
  /\ UNCHANGED <<chan, pid, parent, nextpid, locks, sched, j, arg, back>>

-----------------------------------------------------------------------------
(* What a process does without the program's doing. *)
Kernel(c, p) ==
  \/ Resume(c, p) \/ SyscallReturn(c, p) \/ Yield(c, p)
  \/ Allocproc(c, p) \/ ForkCopy(c, p) \/ ForkFail(c, p) \/ ForkAdopt(c, p) \/ ForkReady(c, p)
  \/ Exit(c, p) \/ Reparent(c, p) \/ WakeInit(c, p) \/ WakeParent(c, p) \/ Zombie(c, p)
  \/ WaitLock(c, p) \/ WaitVisit(c, p) \/ WaitEnd(c, p) \/ Sleep(c, p) \/ Woken(c, p)
  \/ Kill(c, p)

Next ==
  \E c \in CPU :
    \/ SchedVisit(c) \/ SchedBack(c)
    \/ \E p \in Slot : Kernel(c, p) \/ Kerneltrap(c, p) \/ Timer(c, p) \/ \E call \in Calls : Syscall(c, p, call)

Spec == Init /\ [][Next]_vars

(* What cpu c does of its own accord. *)
CpuStep(c) == SchedVisit(c) \/ SchedBack(c) \/ \E p \in Slot : Kernel(c, p)

(* The cpus keep executing, and one that spins for a lock gets it if it is *)
(* free again and again (the hardware arbitrates the swaps).  A timer      *)
(* interrupt that becomes pending in the kernel is taken on the return to  *)
(* user mode.  init, whose program is a loop around wait (user/init.c),    *)
(* calls it again.                                                         *)
Fairness ==
  /\ \A c \in CPU : SF_vars(CpuStep(c)) /\ SF_vars(\E p \in Slot : Timer(c, p))
  /\ SF_vars(\E c \in CPU : Syscall(c, InitProc, "wait"))

FairSpec == Spec /\ Fairness

-----------------------------------------------------------------------------
(* Properties *)

(* A process in user mode holds no lock, whatever its last system call did *)
(* ("If there are no free procs, or a memory allocation fails, return 0"); *)
(* and no cpu panics: whoever gives up the cpu, in yield, sleep or exit,   *)
(* holds its own lock and no other.                                        *)
UserUnlocked ==
  /\ \A c \in CPU, p \in Slot : At(c, p, "user") =>
       waitLock # c /\ \A q \in Slot : lock[q] # c
  /\ \A c \in CPU : stack[c] # "panic"

(* A parent asleep in wait() has no zombie among its children, unless the  *)
(* holder of wait_lock is about to wake it: no exit and no handing over to *)
(* init is missed.                                                         *)
NoLostWakeup ==
  \A p, q \in Slot :
    state[p] = "sleeping" /\ parent[q] = p /\ state[q] = "zombie" => waitLock # None

(* Every process that can run or has exited has a parent, which has not    *)
(* exited: somebody is there to wait for it.                               *)
NoOrphans ==
  \A q \in Slot \ {InitProc} :
    state[q] \in {"sleeping", "runnable", "running", "zombie"} =>
      parent[q] # None /\ state[parent[q]] \in {"sleeping", "runnable", "running"}

(* The table: no process runs on two cpus, or is picked by a scheduler or  *)
(* freed by wait() while a cpu is still on its stack, which is what        *)
(* p->lock is held across swtch for; no two processes have the same pid,   *)
(* though forks run side by side; a free slot carries no pid into the next *)
(* process, and no mark of a kill() of a process's pid either, even if the *)
(* kill raced with the exit.  A kill() of pid 0 does mark a free slot.     *)
TableInv ==
  /\ TypeOK
  /\ \A c \in CPU : current[c] # None =>
       /\ state[current[c]] # "unused"
       /\ \A d \in CPU : current[d] = current[c] => c = d
  /\ \A p, q \in Slot : pid[p] = pid[q] /\ pid[p] # 0 => p = q
  /\ \A p \in Slot : state[p] = "unused" => pid[p] = 0
  /\ 0 \notin Targets => \A p \in Slot : state[p] = "unused" => ~killed[p]

(* A zombie that is init's, by birth or by reparent, is eventually reaped. *)
ZombiesReaped ==
  \A q \in Slot \ {InitProc} : state[q] = "zombie" /\ parent[q] = InitProc ~> state[q] = "unused"

(* The schedulers leave no runnable process waiting for ever. *)
ReadyRuns == \A q \in Slot : state[q] = "runnable" ~> state[q] = "running"
=============================================================================
