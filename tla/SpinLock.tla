------------------------------ MODULE SpinLock ------------------------------
(***************************************************************************)
(* The two spin locks of the kernel, kernel/spinlock.c and                 *)
(* kernel/SpinLock.zig, which share the interrupt bookkeeping of struct    *)
(* cpu.  On every cpu runs a kernel thread, which an interrupt handler may *)
(* preempt whenever interrupts are on; both take any locks, in the order   *)
(* of their numbers.  Each access to shared memory is a step.              *)
(***************************************************************************)
EXTENDS Naturals, FiniteSets

CONSTANTS CPU, None,
          NLocks,  \* locks, numbered in the order they are nested
          Zig      \* those that are SpinLock.zig's; 0 stands for the pushOff
                   \* and popOff of Proc.myproc()

Lock == 1 .. NLocks

ASSUME LockAssumption ==
  /\ None \notin CPU
  /\ NLocks \in Nat
  /\ Zig \subseteq 0 .. NLocks

Context == CPU \X {"thread", "handler"}

VARIABLES
  locked,    \* lk->locked
  owner,     \* lk->cpu
  intr,      \* sstatus.SIE of each cpu
  noff,      \* cpu->noff
  intena,    \* cpu->intena
  handling,  \* an interrupt handler runs on the cpu
  pc, lk,    \* the lock operation each context is in, and its lock
  held,      \* locks each context has taken from memory
  base,      \* whether the cpu's thread wants interrupts outside of locks
  panicked

cpus == <<intr, noff, intena>>
vars == <<locked, owner, cpus, handling, pc, lk, held, base, panicked>>

TypeOK ==
  /\ locked \in [Lock -> BOOLEAN]
  /\ owner \in [Lock -> CPU \cup {None}]
  /\ intr \in [CPU -> BOOLEAN]
  /\ noff \in [CPU -> Nat]
  /\ intena \in [CPU -> BOOLEAN]
  /\ handling \in [CPU -> BOOLEAN]
  /\ pc \in [Context -> {"idle", "check", "spin", "record", "unlock", "pop"}]
  /\ lk \in [Context -> Lock \cup {None}]
  /\ held \in [Context -> SUBSET Lock]
  /\ base \in [CPU -> BOOLEAN]
  /\ panicked \in BOOLEAN

Init ==
  /\ locked = [l \in Lock |-> FALSE]
  /\ owner = [l \in Lock |-> None]
  /\ intr = [c \in CPU |-> FALSE]
  /\ noff = [c \in CPU |-> 0]
  /\ intena = [c \in CPU |-> FALSE]
  /\ handling = [c \in CPU |-> FALSE]
  /\ pc = [x \in Context |-> "idle"]
  /\ lk = [x \in Context |-> None]
  /\ held = [x \in Context |-> {}]
  /\ base = [c \in CPU |-> FALSE]
  /\ panicked = FALSE

(* The context that executes on its cpu. *)
Runs(x) == ~panicked /\ (handling[x[1]] <=> x[2] = "handler")

Goto(x, where) == pc' = [pc EXCEPT ![x] = where]

Panic == panicked' = TRUE

-----------------------------------------------------------------------------
(* push_off, pop_off *)

(* What the outermost call saves: push_off reads the interrupt flag and    *)
(* then clears it; pushOff clears it before it looks.                      *)
OldIntr(c, zig) == ~zig /\ intr[c]

PushOff(c, zig) ==
  /\ intr' = [intr EXCEPT ![c] = FALSE]
  /\ intena' = IF noff[c] # 0 THEN intena
               ELSE [intena EXCEPT ![c] = OldIntr(c, zig)]
  /\ noff' = [noff EXCEPT ![c] = @ + 1]

(* Seeded fault: interrupts come back with the first pop_off. *)
ReenablesEarly(c) == intena[c]

(* The outermost pop_off restores what the outermost push_off found. *)
Reenables(c) == noff[c] = 1 /\ intena[c]

PopOff(c) ==
  IF intr[c] \/ noff[c] < 1
  THEN Panic /\ UNCHANGED cpus
  ELSE /\ noff' = [noff EXCEPT ![c] = @ - 1]
       /\ intr' = [intr EXCEPT ![c] = Reenables(c)]
       /\ UNCHANGED <<intena, panicked>>

(* Proc.myproc(): pushOff, read cpu->proc, popOff, all with interrupts off. *)
MyProc(x) ==
  /\ 0 \in Zig
  /\ Runs(x) /\ pc[x] = "idle"
  /\ intr' = [intr EXCEPT ![x[1]] = FALSE]
  /\ intena' = IF noff[x[1]] # 0 THEN intena
               ELSE [intena EXCEPT ![x[1]] = OldIntr(x[1], TRUE)]
  /\ UNCHANGED <<locked, owner, noff, handling, pc, lk, held, base, panicked>>

-----------------------------------------------------------------------------
(* acquire: the call and its push_off *)
Acquire(x, l) ==
  /\ Runs(x) /\ pc[x] = "idle"
  /\ \A m \in held[x] : m < l
  /\ PushOff(x[1], l \in Zig)
  /\ lk' = [lk EXCEPT ![x] = l]
  /\ Goto(x, "check")
  /\ UNCHANGED <<locked, owner, handling, held, base, panicked>>

Holding(c, l) == locked[l] /\ owner[l] = c

(* if(holding(lk)) panic("acquire") *)
Check(x) ==
  /\ Runs(x) /\ pc[x] = "check"
  /\ IF Holding(x[1], lk[x])
     THEN Panic /\ UNCHANGED pc
     ELSE Goto(x, "spin") /\ UNCHANGED panicked
  /\ UNCHANGED <<locked, owner, cpus, handling, lk, held, base>>

(* Seeded fault: the test and the set are not one access. *)
FreeUnchecked(l) == TRUE

(* The old value the atomic swap (or compare-exchange) returns is 0. *)
Free(l) == ~locked[l]

Spin(x) ==
  /\ Runs(x) /\ pc[x] = "spin" /\ Free(lk[x])
  /\ locked' = [locked EXCEPT ![lk[x]] = TRUE]
  /\ held' = [held EXCEPT ![x] = @ \cup {lk[x]}]
  /\ Goto(x, "record")
  /\ UNCHANGED <<owner, cpus, handling, lk, base, panicked>>

(* lk->cpu = mycpu() *)
Record(x) ==
  /\ Runs(x) /\ pc[x] = "record"
  /\ owner' = [owner EXCEPT ![lk[x]] = x[1]]
  /\ lk' = [lk EXCEPT ![x] = None]
  /\ Goto(x, "idle")
  /\ UNCHANGED <<locked, cpus, handling, held, base, panicked>>

-----------------------------------------------------------------------------
(* release: if(!holding(lk)) panic("release"); lk->cpu = 0 *)
Release(x, l) ==
  /\ Runs(x) /\ pc[x] = "idle" /\ l \in held[x]
  /\ IF Holding(x[1], l)
     THEN /\ owner' = [owner EXCEPT ![l] = None]
          /\ lk' = [lk EXCEPT ![x] = l]
          /\ Goto(x, "unlock")
          /\ UNCHANGED panicked
     ELSE Panic /\ UNCHANGED <<owner, lk, pc>>
  /\ UNCHANGED <<locked, cpus, handling, held, base>>

(* Seeded fault: release returns without its pop_off. *)
UnlockOnly(x) ==
  /\ Runs(x) /\ pc[x] = "unlock"
  /\ locked' = [locked EXCEPT ![lk[x]] = FALSE]
  /\ held' = [held EXCEPT ![x] = @ \ {lk[x]}]
  /\ lk' = [lk EXCEPT ![x] = None]
  /\ Goto(x, "idle")
  /\ UNCHANGED <<owner, cpus, handling, base, panicked>>

(* lk->locked = 0 *)
Unlock(x) ==
  /\ Runs(x) /\ pc[x] = "unlock"
  /\ locked' = [locked EXCEPT ![lk[x]] = FALSE]
  /\ held' = [held EXCEPT ![x] = @ \ {lk[x]}]
  /\ lk' = [lk EXCEPT ![x] = None]
  /\ Goto(x, "pop")
  /\ UNCHANGED <<owner, cpus, handling, base, panicked>>

Pop(x) ==
  /\ Runs(x) /\ pc[x] = "pop"
  /\ PopOff(x[1])
  /\ Goto(x, "idle")
  /\ UNCHANGED <<locked, owner, handling, lk, held, base>>

-----------------------------------------------------------------------------
(* intrOn() and intrOff() of a thread outside of locks (scheduler,         *)
(* usertrap, usertrapret).                                                 *)
SetIntr(c, on) ==
  /\ Runs(<<c, "thread">>) /\ pc[<<c, "thread">>] = "idle" /\ noff[c] = 0
  /\ base' = [base EXCEPT ![c] = on]
  /\ intr' = [intr EXCEPT ![c] = on]
  /\ UNCHANGED <<locked, owner, noff, intena, handling, pc, lk, held, panicked>>

(* The hart takes an interrupt and clears SIE; kerneltrap runs. *)
Interrupt(c) ==
  /\ ~panicked /\ intr[c] /\ ~handling[c]
  /\ handling' = [handling EXCEPT ![c] = TRUE]
  /\ intr' = [intr EXCEPT ![c] = FALSE]
  /\ UNCHANGED <<locked, owner, noff, intena, pc, lk, held, base, panicked>>

(* sret at the end of the handler, with sstatus as kerneltrap saved it. *)
InterruptReturn(c) ==
  /\ ~panicked /\ handling[c]
  /\ pc[<<c, "handler">>] = "idle" /\ held[<<c, "handler">>] = {}
  /\ handling' = [handling EXCEPT ![c] = FALSE]
  /\ intr' = [intr EXCEPT ![c] = TRUE]
  /\ UNCHANGED <<locked, owner, noff, intena, pc, lk, held, base, panicked>>

Step(x) == Check(x) \/ Spin(x) \/ Record(x) \/ Unlock(x) \/ Pop(x)

Next ==
  \/ \E x \in Context : Step(x) \/ MyProc(x)
  \/ \E x \in Context, l \in Lock : Acquire(x, l) \/ Release(x, l)
  \/ \E c \in CPU : Interrupt(c) \/ InterruptReturn(c) \/ SetIntr(c, TRUE) \/ SetIntr(c, FALSE)

Spec == Init /\ [][Next]_vars

(* A hart executes on, critical sections end and handlers return; nothing  *)
(* is assumed about who wins the swap of a contended lock.                 *)
Fairness ==
  /\ \A x \in Context : WF_vars(Step(x)) /\ WF_vars(\E l \in Lock : Release(x, l))
  /\ \A c \in CPU : WF_vars(InterruptReturn(c))

FairSpec == Spec /\ Fairness

-----------------------------------------------------------------------------
(* Properties *)

(* A lock is held by one context at a time, be it a thread or a handler,   *)
(* on whatever cpu: acquire returns only to the one whose swap found it    *)
(* free.                                                                   *)
MutualExclusion ==
  \A x, y \in Context : x # y => held[x] \cap held[y] = {}

(* None of the checks in acquire, release and pop_off fires: handlers never *)
(* want a lock that their own cpu holds, and push_off and pop_off balance. *)
(* For that a cpu that holds a lock, or is about to, takes no interrupts,  *)
(* nested acquires and releases included.                                  *)
NoPanic ==
  /\ ~panicked
  /\ \A x \in Context : held[x] # {} \/ pc[x] # "idle" => ~intr[x[1]]

(* push_off and pop_off are matched: outside of all locks a thread has     *)
(* interrupts as it set them ("it takes two pop_off()s to undo two         *)
(* push_off()s.  Also, if interrupts are initially off, then push_off,     *)
(* pop_off leaves them off").                                              *)
IntrMatched ==
  \A c \in CPU : ~handling[c] /\ pc[<<c, "thread">>] = "idle" /\ noff[c] = 0
                 => intr[c] = base[c]

(* While some lock is taken, some release goes on to complete: no cpu ends *)
(* up spinning in a handler for a lock that the interrupted thread holds.  *)
LocksReleased == (\E l \in Lock : locked[l]) ~> (\E x \in Context : pc[x] = "pop")

-----------------------------------------------------------------------------
(* The inductive invariant behind mutual exclusion. *)

(* The lock words say who holds what. *)
LockInv ==
  /\ TypeOK
  /\ MutualExclusion
  /\ \A l \in Lock : locked[l] <=> \E x \in Context : l \in held[x]
  /\ \A x \in Context :
       /\ pc[x] \in {"check", "spin", "record", "unlock"} => lk[x] \in Lock
       /\ pc[x] \in {"record", "unlock"} => lk[x] \in held[x]
  /\ \A l \in Lock : owner[l] # None =>
       \E x \in Context : /\ x[1] = owner[l] /\ l \in held[x]
                          /\ ~(pc[x] \in {"record", "unlock"} /\ lk[x] = l)
=============================================================================
