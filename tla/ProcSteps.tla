----------------------------- MODULE ProcSteps -----------------------------
(***************************************************************************)
(* The inductive invariant of the process table, and the steps of Proc     *)
(* that concern a process on its own or its way on and off a cpu: traps,   *)
(* system calls, yield, sleep, exit and the scheduler.  The steps that     *)
(* work on two processes, fork, reparent, wakeup, kill and wait, and the   *)
(* theorems are in ProcProofs.                                             *)
(*                                                                         *)
(* Zenon proves most leaves; those that need arithmetic or long case       *)
(* distinctions cite SMT.                                                  *)
(***************************************************************************)
EXTENDS Proc, TLAPS

(* States of a process that has been handed to the scheduler and has not   *)
(* exited.                                                                 *)
Live == {"sleeping", "runnable", "running"}

(* Where a process's cpu holds wait_lock. *)
Locking == {"reparent", "wakeinit", "wakeparent", "zombie", "scan", "sleep"}

(* Where a process is when sched() has left it, or is about to return to   *)
(* it: its cpu, if any, holds its p->lock.                                 *)
Switched == {"new", "yielded", "asleep"}

(* Where a process is in fork() between allocproc and the child's becoming *)
(* runnable.                                                               *)
Birth == {"copy", "adopt", "ready"}

(* The place in the kernel a process is at, a timer interrupt set aside. *)
Where(p) == IF pc[p] \in {"yield", "yielded"} THEN back[p] ELSE pc[p]

(* A cpu either has no process and is in scheduler(), or has one that no   *)
(* other cpu has.  The process is running, unless sched() has just come    *)
(* back from it.                                                           *)
Cpus ==
  \A c \in CPU :
    /\ current[c] = None => stack[c] = "sched"
    /\ current[c] # None =>
         /\ at[c] = current[c]
         /\ stack[c] = "sched" => state[current[c]] \in {"sleeping", "runnable", "zombie"}
         /\ stack[c] # "sched" => state[current[c]] = "running"
         /\ \A d \in CPU : current[d] = current[c] => c = d

(* What the code says of who holds which lock: a cpu has the p->lock of    *)
(* its process on both sides of swtch, and fork() has the child's while it *)
(* copies.                                                                 *)
Holds(c, q) ==
  /\ current[c] # None
  /\ \/ stack[c] = "sched" /\ current[c] = q
     \/ stack[c] = "proc" /\ pc[current[c]] \in Switched /\ current[c] = q
     \/ stack[c] = "proc" /\ pc[current[c]] = "copy" /\ arg[current[c]] = q

(* A cpu holds wait_lock in the sections of exit() and wait(). *)
HoldsWait(c) == current[c] # None /\ stack[c] = "proc" /\ pc[current[c]] \in Locking

(* Who holds the locks is exactly what the code says; a forgotten or a     *)
(* doubled release would break one direction.                              *)
Locks ==
  /\ \A c \in CPU, q \in Slot : lock[q] = c <=> Holds(c, q)
  /\ \A c \in CPU : waitLock = c <=> HoldsWait(c)

(* Where in the code a process in a given state can be. *)
Place(p) ==
  /\ state[p] = "runnable" => pc[p] \in Switched
  /\ state[p] = "sleeping" => pc[p] = "asleep" /\ chan[p] = p
  /\ state[p] = "zombie" => pc[p] = "dead"
  /\ state[p] \in {"unused", "used"} => pc[p] \in {"new", "dead"}
  /\ back[p] \in Preemptible \cup {"user"}
  /\ pc[p] \in {"new", "user", "dead"} => back[p] = "user"

(* Every process is in its place. *)
Places == \A p \in Slot : Place(p)

(* The slot that fork() is filling is used, belongs to that fork alone     *)
(* and, once the copy is done, is entered at forkret.                      *)
Births ==
  /\ \A p \in Slot : Where(p) \in Birth =>
       /\ arg[p] \in Slot
       /\ state[arg[p]] = "used"
       /\ Where(p) # "copy" => pc[arg[p]] = "new"
       /\ Where(p) = "ready" => parent[arg[p]] = p
  /\ \A p, q \in Slot : Where(p) \in Birth /\ Where(q) \in Birth /\ arg[p] = arg[q] => p = q

(* The process tree: init has no parent and does not exit, a parent is     *)
(* another process that has not exited, and whoever has been handed to the *)
(* scheduler has one.                                                      *)
Parents ==
  /\ parent[InitProc] = None /\ state[InitProc] \in Live
  /\ pc[InitProc] \notin {"reparent", "wakeinit", "wakeparent", "zombie", "dead"}
  /\ \A q \in Slot : parent[q] # None => parent[q] # q /\ state[parent[q]] \in Live
  /\ \A q \in Slot \ {InitProc} : state[q] \in Live \cup {"zombie"} => parent[q] # None

(* reparent() has been through the slots before i: none has p for a        *)
(* parent.                                                                 *)
Given(p) ==
  /\ pc[p] = "reparent" => j[p] = 1 /\ \A q \in Slot : q < i[p] => parent[q] # p
  /\ pc[p] = "wakeinit" => i[p] <= NPROC /\ \A q \in Slot : q <= i[p] => parent[q] # p
  /\ pc[p] \in {"wakeparent", "zombie"} => \A q \in Slot : parent[q] # p

(* No exiting process has children in the slots reparent() has passed. *)
Exits == \A p \in Slot : Given(p)

(* An exiting process has woken its parent by the time wakeup() has passed *)
(* the parent's slot; wait() has found no zombie child in the slots it has *)
(* passed.                                                                 *)
Heard(p) ==
  /\ pc[p] = "wakeparent" /\ parent[p] < j[p] => state[parent[p]] # "sleeping"
  /\ pc[p] = "zombie" => state[parent[p]] # "sleeping"
  /\ pc[p] = "scan" => \A q \in Slot : q < i[p] /\ parent[q] = p => state[q] # "zombie"
  /\ pc[p] = "sleep" => \A q \in Slot : parent[q] = p => state[q] # "zombie"

(* This holds of the processes that run: they hold wait_lock, so that      *)
(* nobody can undo it.                                                     *)
Woke == \A c \in CPU, p \in Slot : Runs(c, p) => Heard(p)

(* A cpu is in reparent(), about to wake init. *)
Wakes(c) ==
  current[c] # None /\ stack[c] = "proc" /\ pc[current[c]] = "wakeinit" /\ j[current[c]] = 1

(* A zombie's parent does not sleep, unless it is init and a cpu is about  *)
(* to wake it.                                                             *)
Told ==
  \A p, q \in Slot : state[p] = "sleeping" /\ parent[q] = p /\ state[q] = "zombie" =>
    p = InitProc /\ \E c \in CPU : Wakes(c)

(* Pids are handed out once, and a free slot has none. *)
Pids ==
  /\ pid[InitProc] = 1
  /\ \A p \in Slot : pid[p] < nextpid /\ (state[p] = "unused" => pid[p] = 0)
  /\ \A p, q \in Slot : pid[p] = pid[q] /\ pid[p] # 0 => p = q

(* kill() marks only what Targets names: a free slot has no pid but 0, and *)
(* init has pid 1.                                                         *)
Kills ==
  /\ \A p \in Slot : Where(p) = "kill" => arg[p] \in Targets
  /\ 0 \notin Targets => \A p \in Slot : state[p] = "unused" => ~killed[p]
  /\ 1 \notin Targets =>
       ~killed[InitProc] /\ Where(InitProc) # "exit" /\ \A c \in CPU : stack[c] # "panic"

(* The inductive invariant.  None of the four properties is inductive: a   *)
(* wakeup is not lost because wait_lock is held from the last look at the  *)
(* children to the sleep, and that it is held depends on where every       *)
(* process is.                                                             *)
Conjuncts == TypeOK /\ Cpus /\ Locks /\ Places /\ Births /\ Parents /\ Exits /\ Woke /\ Told /\ Pids /\ Kills

(* The invariant under the name by which the lemmas hand it on. *)
ProcInv == Conjuncts

(* When an allocation may fail, the kernel is the one of the Makefile: in  *)
(* proc.zig a fork() that fails keeps the child's lock and slot, and       *)
(* UserUnlocked does not hold.                                             *)
Restores == NoMemory => ~Zig

USE ZenonT(60) DEF Runs, At, Goto, Unlocked, Lock, Unlock, table, locks, sched, local

(* ProcInv is its conjuncts, before and after a step. *)
LEMMA ProcInvIs == (ProcInv <=> Conjuncts) /\ (ProcInv' <=> Conjuncts')
  BY DEF ProcInv

(* None is neither a slot nor a cpu. *)
LEMMA NoneIs == None \notin Slot /\ None \notin CPU /\ InitProc \in Slot
  BY ProcAssumption, SMTT(60) DEF Slot, InitProc

(* Slots are the numbers from 1 to NPROC. *)
LEMMA SlotIs ==
  /\ NPROC \in Nat /\ NPROC >= 1
  /\ \A n \in Slot : n \in Nat /\ 1 <= n /\ n <= NPROC
  /\ \A n \in Nat : 1 <= n /\ n <= NPROC => n \in Slot
  BY ProcAssumption, SMTT(60) DEF Slot

(* The loop indices stay within one of the table. *)
LEMMA Indices ==
  ASSUME TypeOK, NEW p \in Slot
  PROVE /\ i[p] \in Nat /\ 1 <= i[p] /\ i[p] <= NPROC + 1
        /\ j[p] \in Nat /\ 1 <= j[p] /\ j[p] <= NPROC + 1
  BY ProcAssumption, SMTT(60) DEF TypeOK

(* What a fork in progress knows of its child, and that it shares it with  *)
(* no other fork.                                                          *)
LEMMA BirthIs ==
  ASSUME Births, NEW q \in Slot, Where(q) \in Birth
  PROVE /\ arg[q] \in Slot /\ state[arg[q]] = "used"
        /\ Where(q) # "copy" => pc[arg[q]] = "new"
        /\ Where(q) = "ready" => parent[arg[q]] = q
        /\ \A r \in Slot \ {q} : Where(r) \in Birth => arg[r] # arg[q]
  BY DEF Births

(* A step that writes no pid and frees no slot keeps Pids. *)
LEMMA PidsKept ==
  ASSUME Pids, pid' = pid, nextpid' = nextpid,
         \A q \in Slot : state'[q] = "unused" => state[q] = "unused"
  PROVE Pids'
  BY DEF Pids

(* A step that kills nobody, frees no slot and sends init nowhere near     *)
(* exit() keeps Kills.                                                     *)
LEMMA KillsKept ==
  ASSUME Kills, killed' = killed,
         \A q \in Slot : /\ state'[q] = "unused" => state[q] = "unused"
                         /\ Where(q)' = "kill" => arg'[q] \in Targets,
         Where(InitProc)' = "exit" => Where(InitProc) = "exit" \/ killed[InitProc],
         \A d \in CPU : stack'[d] = "panic" => stack[d] = "panic"
  PROVE Kills'
  BY DEF Kills

(* Freeing a slot other than init's, as freeproc() does, keeps Pids. *)
LEMMA PidsFreed ==
  ASSUME Pids, nextpid \in Nat \ {0}, NEW n \in Slot \ {InitProc}, nextpid' = nextpid,
         pid'[n] = 0, \A q \in Slot \ {n} : pid'[q] = pid[q] /\ state'[q] = state[q]
  PROVE Pids'
<1>1. pid'[InitProc] = 1
  BY NoneIs DEF Pids
<1>2. 0 < nextpid
  BY SMTT(60)
<1>3. ASSUME NEW q \in Slot
      PROVE  pid'[q] < nextpid' /\ (state'[q] = "unused" => pid'[q] = 0)
  <2>1. CASE q = n  BY <1>2, <2>1
  <2>2. CASE q # n  BY <2>2 DEF Pids
  <2> QED  BY <2>1, <2>2
<1>4. \A q, r \in Slot : pid'[q] = pid'[r] /\ pid'[q] # 0 => q = r
  BY DEF Pids
<1> QED  BY <1>1, <1>3, <1>4 DEF Pids

(* A cpu whose process is not at a switch and not copying holds no         *)
(* p->lock.                                                                *)
LEMMA NotHeld ==
  ASSUME Locks, NEW c \in CPU, NEW p \in Slot, current[c] = p, stack[c] = "proc",
         pc[p] \notin Switched \cup {"copy"}
  PROVE \A q \in Slot : lock[q] # c
  BY DEF Locks, Holds

(* A cpu holds wait_lock exactly where its process is in a section of it. *)
LEMMA WaitLockHeld ==
  ASSUME Locks, NEW c \in CPU, NEW p \in Slot, current[c] = p, stack[c] = "proc"
  PROVE waitLock = c <=> pc[p] \in Locking
<1>1. HoldsWait(c) <=> pc[p] \in Locking
  BY NoneIs DEF HoldsWait
<1> QED  BY <1>1 DEF Locks

(* A process that a step does not touch stays in its place. *)
LEMMA PlaceKept ==
  ASSUME NEW q \in Slot, Place(q),
         pc'[q] = pc[q], state'[q] = state[q], chan'[q] = chan[q], back'[q] = back[q]
  PROVE Place(q)'
  BY SMTT(60) DEF Place

(* A step that moves no process and touches no lock keeps Locks. *)
LEMMA LocksKept ==
  ASSUME Locks, UNCHANGED <<lock, waitLock, current, stack, pc, arg>>
  PROVE Locks'
  BY SMTT(60) DEF Locks, Holds, HoldsWait

(* A step that changes at most a scheduler's loop index keeps every        *)
(* conjunct that does not speak of it.                                     *)
LEMMA StillHolds ==
  ASSUME Locks, Places, Births, Parents, Exits, Woke, Told, Pids, Kills,
         UNCHANGED <<table, locks, current, stack, pc, local>>
  PROVE Locks' /\ Places' /\ Births' /\ Parents' /\ Exits' /\ Woke' /\ Told' /\ Pids' /\ Kills'
<1>1. Locks'  BY LocksKept
<1>2. Places'  BY DEF Places, Place
<1>3. Births'  BY DEF Births, Where
<1>4. Parents' /\ Pids'  BY DEF Parents, Pids
<1>5. Exits'  BY DEF Exits, Given
<1>6. Woke'
  <2>1. \A p \in Slot : Heard(p)' <=> Heard(p)
    BY DEF Heard
  <2> QED  BY <2>1 DEF Woke
<1>7. Told'  BY DEF Told, Wakes
<1>8. Kills'  BY DEF Kills, Where
<1> QED  BY <1>1, <1>2, <1>3, <1>4, <1>5, <1>6, <1>7, <1>8

(* A step of one cpu keeps Locks if the other cpus' locks and places stay  *)
(* as they were and this one's locks fit its new place.                    *)
LEMMA LocksMoved ==
  ASSUME Locks, NEW c \in CPU,
         \A d \in CPU \ {c} : /\ HoldsWait(d)' <=> HoldsWait(d)
                             /\ \A q \in Slot : Holds(d, q)' <=> Holds(d, q),
         \A d \in CPU \ {c} : /\ waitLock' = d <=> waitLock = d
                             /\ \A q \in Slot : lock'[q] = d <=> lock[q] = d,
         waitLock' = c <=> HoldsWait(c)',
         \A q \in Slot : lock'[q] = c <=> Holds(c, q)'
  PROVE Locks'
<1>1. ASSUME NEW d \in CPU, NEW q \in Slot
      PROVE  lock'[q] = d <=> Holds(d, q)'
  <2>1. CASE d = c  BY <2>1
  <2>2. CASE d # c
    <3>1. lock[q] = d <=> Holds(d, q)  BY DEF Locks
    <3> QED  BY <2>2, <3>1
  <2> QED  BY <2>1, <2>2
<1>2. ASSUME NEW d \in CPU
      PROVE  waitLock' = d <=> HoldsWait(d)'
  <2>1. CASE d = c  BY <2>1
  <2>2. CASE d # c
    <3>1. waitLock = d <=> HoldsWait(d)  BY DEF Locks
    <3> QED  BY <2>2, <3>1
  <2> QED  BY <2>1, <2>2
<1> QED  BY <1>1, <1>2 DEF Locks

(* What most steps of a process have in common: p goes on to w on its cpu, *)
(* others are at most woken, and the locks follow.                         *)
Move(c, p, w) ==
  /\ Runs(c, p) /\ pc' = [pc EXCEPT ![p] = w]
  /\ \A q \in Slot : state'[q] = state[q] \/ (state[q] = "sleeping" /\ state'[q] = "runnable")
  /\ \A q \in Slot \ {p} : /\ chan'[q] = chan[q] /\ i'[q] = i[q] /\ j'[q] = j[q]
                           /\ arg'[q] = arg[q] /\ back'[q] = back[q]
  /\ UNCHANGED <<pid, parent, nextpid, current, stack, at>>
  /\ \/ pc[p] \in Switched /\ lock' = [lock EXCEPT ![p] = None]
     \/ pc[p] \notin Switched \cup {"copy"} /\ lock' = lock
  /\ waitLock' = IF w \in Locking THEN c ELSE IF pc[p] \in Locking THEN None ELSE waitLock
  /\ w \in Locking => waitLock \in {None, c}
  /\ back'[p] \in Preemptible \cup {"user"} /\ (w = "user" => back'[p] = "user")
  /\ Where(p)' \in Birth => Where(p)' = Where(p) /\ arg'[p] = arg[p]

(* A Move keeps the conjuncts about cpus, locks, places, births and        *)
(* parents.                                                                *)
LEMMA MoveStep ==
  ASSUME ProcInv, TypeOK', NEW c \in CPU, NEW p \in Slot,
         NEW w \in Label \ (Switched \cup {"copy", "dead"}),
         Move(c, p, w),
         p = InitProc => w \notin Locking \ {"scan", "sleep"}
  PROVE Cpus' /\ Locks' /\ Places' /\ Births' /\ Parents'
<1> USE NoneIs DEF Conjuncts
<1> Conjuncts  BY ProcInvIs
<1>0. /\ current[c] = p /\ stack[c] = "proc" /\ state[p] = "running" /\ state'[p] = "running"
      /\ \A d \in CPU : current[d] = p => d = c
      /\ p # None
  BY SMTT(60) DEF Move, Cpus, TypeOK
<1>1. Cpus'
  BY SMTT(60) DEF Move, Cpus, TypeOK
<1>2. Locks'
  <2>1. \A d \in CPU \ {c} : /\ HoldsWait(d)' <=> HoldsWait(d)
                             /\ \A q \in Slot : Holds(d, q)' <=> Holds(d, q)
    BY <1>0, SMTT(60) DEF Move, HoldsWait, Holds, TypeOK
  <2>2. \A q \in Slot : ~Holds(c, q)'
    BY <1>0, SMTT(60) DEF Move, Holds, TypeOK
  <2>3. \A q \in Slot : lock'[q] # c
    BY <1>0, SMTT(60) DEF Move, Locks, Holds, Switched, TypeOK
  <2>4. \A d \in CPU \ {c}, q \in Slot : lock'[q] = d <=> lock[q] = d
    BY <1>0, SMTT(60) DEF Move, Locks, Holds, TypeOK
  <2>5. waitLock' = c <=> HoldsWait(c)'
    BY <1>0, SMTT(60) DEF Move, Locks, HoldsWait, TypeOK
  <2>6. \A d \in CPU \ {c} : waitLock' = d <=> waitLock = d
    BY <1>0, SMTT(60) DEF Move, Locks, HoldsWait, TypeOK
  <2> QED  BY <2>1, <2>2, <2>3, <2>4, <2>5, <2>6, SMTT(60) DEF Locks
<1>3. Places'
  BY <1>0, SMTT(60) DEF Move, Places, Place, TypeOK, Switched
<1>4. Births'
  <2>1. \A q \in Slot \ {p} : Where(q)' = Where(q) /\ pc'[q] = pc[q]
    BY DEF Move, Where, TypeOK
  <2>2. \A q \in Slot : state[q] = "used" => state'[q] = "used" /\ q # p
    BY <1>0 DEF Move
  <2>3. \A q \in Slot : Where(q)' \in Birth => Where(q)' = Where(q) /\ arg'[q] = arg[q]
    BY <2>1 DEF Move
  <2>4. ASSUME NEW q \in Slot, Where(q) \in Birth, arg[q] \in Slot, state[arg[q]] = "used"
        PROVE  state'[arg[q]] = "used" /\ pc'[arg[q]] = pc[arg[q]] /\ parent'[arg[q]] = parent[arg[q]]
    BY <2>1, <2>2, <2>4 DEF Move
  <2>5. ASSUME NEW q \in Slot, Where(q)' \in Birth
        PROVE  /\ arg'[q] \in Slot
               /\ state'[arg'[q]] = "used"
               /\ Where(q)' # "copy" => pc'[arg'[q]] = "new"
               /\ Where(q)' = "ready" => parent'[arg'[q]] = q
    BY <2>3, <2>4, <2>5 DEF Births
  <2>6. \A q, r \in Slot : Where(q)' \in Birth /\ Where(r)' \in Birth /\ arg'[q] = arg'[r] => q = r
    <3>1. ASSUME NEW q \in Slot, NEW r \in Slot, Where(q)' \in Birth, Where(r)' \in Birth, arg'[q] = arg'[r]
          PROVE  q = r
      <4>1. Where(q) \in Birth /\ Where(r) \in Birth /\ arg[q] = arg[r]
        BY <2>3, <3>1
      <4> QED  BY <4>1, BirthIs
    <3> QED  BY <3>1
  <2> QED  BY <2>5, <2>6 DEF Births
<1>5. Parents'
  BY <1>0, SMTT(60) DEF Move, Parents, TypeOK, Live, Locking
<1> QED  BY <1>1, <1>2, <1>3, <1>4, <1>5

(* A Move keeps Exits if it keeps it of the process that moves. *)
LEMMA MoveExits ==
  ASSUME ProcInv, TypeOK', NEW c \in CPU, NEW p \in Slot, NEW w \in Label, Move(c, p, w), Given(p)'
  PROVE Exits'
  BY ProcInvIs, SMTT(60) DEF Conjuncts, Exits, Given, Move, TypeOK

(* A Move keeps Woke if it keeps it of the process that moves: the others  *)
(* that Woke speaks of would have to hold wait_lock as well.               *)
LEMMA MoveWoke ==
  ASSUME ProcInv, TypeOK', NEW c \in CPU, NEW p \in Slot, NEW w \in Label, Move(c, p, w), Heard(p)'
  PROVE Woke'
<1> USE NoneIs DEF Conjuncts
<1> Conjuncts  BY ProcInvIs
<1> SUFFICES ASSUME NEW d \in CPU, NEW q \in Slot \ {p}, Runs(d, q)'
             PROVE  Heard(q)'
  BY DEF Woke
<1>1. Runs(d, q) /\ pc'[q] = pc[q] /\ j'[q] = j[q] /\ i'[q] = i[q]
  BY SMTT(60) DEF Move, TypeOK
<1>2. pc[q] \in {"wakeparent", "zombie"} => parent[q] \in Slot
  BY <1>1, SMTT(60) DEF Parents, Cpus, TypeOK, Live
<1> QED  BY <1>1, <1>2, SMTT(60) DEF Woke, Heard, Move, TypeOK

(* A Move keeps Told, unless it wakes init. *)
LEMMA MoveTold ==
  ASSUME ProcInv, NEW c \in CPU, NEW p \in Slot, NEW w \in Label, Move(c, p, w),
         pc[p] = "wakeinit" => j[p] # 1
  PROVE Told'
<1> USE NoneIs DEF Conjuncts
<1> Conjuncts  BY ProcInvIs
<1> SUFFICES ASSUME NEW q \in Slot, NEW r \in Slot,
                    state'[q] = "sleeping", parent'[r] = q, state'[r] = "zombie"
             PROVE  q = InitProc /\ \E d \in CPU : Wakes(d)'
  BY DEF Told
<1>1. state[q] = "sleeping" /\ parent[r] = q /\ state[r] = "zombie"
  BY DEF Move
<1>2. PICK d \in CPU : q = InitProc /\ Wakes(d)
  BY <1>1 DEF Told
<1>3. current[d] \in Slot \ {p}
  BY <1>2 DEF Wakes, TypeOK
<1>4. (\A n \in Slot \ {p} : j'[n] = j[n]) /\ UNCHANGED <<current, stack>>
  BY DEF Move
<1>5. \A n \in Slot \ {p} : pc'[n] = pc[n]
  BY DEF Move, TypeOK
<1>6. pc'[current[d]] = pc[current[d]] /\ j'[current[d]] = j[current[d]]
  BY <1>3, <1>4, <1>5
<1> QED  BY <1>2, <1>4, <1>6 DEF Wakes

(* A Move to a place outside the sections of wait_lock keeps everything    *)
(* but the conjuncts about types, pids and kills.                          *)
LEMMA QuietStep ==
  ASSUME ProcInv, TypeOK', NEW c \in CPU, NEW p \in Slot,
         NEW w \in Label \ (Switched \cup Locking \cup {"copy", "dead"}),
         Move(c, p, w), pc[p] # "wakeinit"
  PROVE Cpus' /\ Locks' /\ Places' /\ Births' /\ Parents' /\ Exits' /\ Woke' /\ Told'
<1>1. pc'[p] = w
  BY ProcInvIs DEF Conjuncts, TypeOK, Move
<1>2. Given(p)' /\ Heard(p)'
  BY <1>1 DEF Given, Heard, Locking
<1> QED  BY <1>2, MoveStep, MoveExits, MoveWoke, MoveTold

(* A process returns from sched() in forkret or yield(), and releases its  *)
(* lock.                                                                   *)
LEMMA ResumeStep ==
  ASSUME ProcInv, NEW c \in CPU, NEW p \in Slot, Resume(c, p)
  PROVE ProcInv'
<1> USE NoneIs DEF Conjuncts
<1> Conjuncts  BY ProcInvIs
<1> SUFFICES Conjuncts'  BY ProcInvIs
<1>1. TypeOK'
  BY DEF Resume, TypeOK
<1>2. back[p] \in Preemptible \cup {"user"} /\ (pc[p] = "new" => back[p] = "user")
  BY DEF Places, Place
<1>3. Where(p)' = back[p] /\ (pc[p] = "yielded" => Where(p) = back[p])
  BY <1>2 DEF Resume, Where, TypeOK, Preemptible
<1>4. Move(c, p, back[p]) /\ pc[p] # "wakeinit"
  BY <1>2, <1>3 DEF Resume, Move, Switched, Locking, Preemptible, Birth
<1>5. back[p] \in Label \ (Switched \cup Locking \cup {"copy", "dead"})
  BY <1>2 DEF Label, Switched, Locking, Preemptible
<1>6. \A q \in Slot : Where(q)' = Where(q) \/ Where(q)' = "user"
  BY <1>2, <1>3 DEF Resume, Where, TypeOK
<1>7. Pids'
  BY <1>2, PidsKept DEF Resume
<1>8. Kills'
  BY <1>6, KillsKept DEF Resume, Kills
<1> QED  BY <1>1, <1>4, <1>5, <1>7, <1>8, QuietStep

(* A process returns from sched() in sleep(), and goes to take wait_lock   *)
(* again.                                                                  *)
LEMMA WokenStep ==
  ASSUME ProcInv, NEW c \in CPU, NEW p \in Slot, Woken(c, p)
  PROVE ProcInv'
<1> USE NoneIs DEF Conjuncts
<1> Conjuncts  BY ProcInvIs
<1> SUFFICES Conjuncts'  BY ProcInvIs
<1>1. TypeOK'
  BY DEF Woken, TypeOK, Label
<1>2. \A q \in Slot : Where(q)' = Where(q) \/ Where(q)' = "relock"
  BY DEF Woken, Where, TypeOK
<1>3. Move(c, p, "relock") /\ pc[p] # "wakeinit"
  BY <1>2, SMTT(60) DEF Woken, Move, Switched, Locking, Birth, Places, Place, TypeOK
<1>4. "relock" \in Label \ (Switched \cup Locking \cup {"copy", "dead"})
  BY DEF Label, Switched, Locking
<1>5. Pids'
  BY PidsKept DEF Woken
<1>6. Kills'
  BY <1>2, KillsKept DEF Woken, Kills
<1> QED  BY <1>1, <1>3, <1>4, <1>5, <1>6, QuietStep

(* A system call returns to user mode, or finds the process killed. *)
LEMMA SyscallReturnStep ==
  ASSUME ProcInv, NEW c \in CPU, NEW p \in Slot, SyscallReturn(c, p)
  PROVE ProcInv'
<1> USE NoneIs DEF Conjuncts
<1> Conjuncts  BY ProcInvIs
<1> SUFFICES Conjuncts'  BY ProcInvIs
<1>1. PICK w \in {"user", "yield", "exit"} :
        pc' = [pc EXCEPT ![p] = w] /\ (w = "exit" => killed[p])
  <2>1. PICK next \in {"user", "yield"} : UnlessKilled(p, next)
    BY DEF SyscallReturn
  <2> QED  BY <2>1 DEF UnlessKilled
<1>2. TypeOK'
  BY <1>1, ProcAssumption, SMTT(60) DEF SyscallReturn, TypeOK, Label
<1>3. /\ \A q \in Slot \ {p} : Where(q)' = Where(q) /\ arg'[q] = arg[q]
      /\ Where(p)' \in {"user", "exit"} /\ (Where(p)' = "exit" => killed[p])
  BY <1>1 DEF SyscallReturn, Where, TypeOK
<1>4. Move(c, p, w) /\ pc[p] # "wakeinit"
  BY <1>1, <1>3, SMTT(60) DEF SyscallReturn, Move, Switched, Locking, Birth, TypeOK
<1>5. w \in Label \ (Switched \cup Locking \cup {"copy", "dead"})
  BY DEF Label, Switched, Locking
<1>6. Pids'
  BY <1>1, PidsKept DEF SyscallReturn
<1>7. Kills'
  BY <1>3, KillsKept DEF SyscallReturn, Kills
<1> QED  BY <1>2, <1>4, <1>5, <1>6, <1>7, QuietStep

(* The timer interrupts user mode. *)
LEMMA TimerStep ==
  ASSUME ProcInv, NEW c \in CPU, NEW p \in Slot, Timer(c, p)
  PROVE ProcInv'
<1> USE NoneIs DEF Conjuncts
<1> Conjuncts  BY ProcInvIs
<1> SUFFICES Conjuncts'  BY ProcInvIs
<1>1. PICK w \in {"yield", "exit"} :
        pc' = [pc EXCEPT ![p] = w] /\ (w = "exit" => killed[p])
  BY DEF Timer, UnlessKilled
<1>2. TypeOK' /\ back[p] = "user"
  BY <1>1 DEF Timer, TypeOK, Label, Places, Place
<1>3. /\ \A q \in Slot \ {p} : Where(q)' = Where(q)
      /\ Where(p)' \in {"user", "exit"} /\ (Where(p)' = "exit" => killed[p])
  BY <1>1, <1>2 DEF Timer, Where, TypeOK
<1>4. Move(c, p, w) /\ pc[p] # "wakeinit"
  BY <1>1, <1>2, <1>3 DEF Timer, Move, Switched, Locking, Birth, TypeOK
<1>5. w \in Label \ (Switched \cup Locking \cup {"copy", "dead"})
  BY DEF Label, Switched, Locking
<1>6. Pids'
  BY <1>1, <1>2, PidsKept DEF Timer
<1>7. Kills'
  BY <1>3, KillsKept DEF Timer, Kills
<1> QED  BY <1>2, <1>4, <1>5, <1>6, <1>7, QuietStep

(* The timer interrupts a system call that holds no lock. *)
LEMMA KerneltrapStep ==
  ASSUME ProcInv, NEW c \in CPU, NEW p \in Slot, Kerneltrap(c, p)
  PROVE ProcInv'
<1> USE NoneIs DEF Conjuncts
<1> Conjuncts  BY ProcInvIs
<1> SUFFICES Conjuncts'  BY ProcInvIs
<1>1. pc[p] \in Preemptible /\ pc[p] \notin {"yield", "yielded", "wakeinit"}
  BY ProcAssumption DEF Kerneltrap, Preemptible
<1>2. TypeOK'
  BY DEF Kerneltrap, TypeOK, Label
<1>3. \A q \in Slot : Where(q)' = Where(q)
  BY <1>1 DEF Kerneltrap, Where, TypeOK
<1>4. Move(c, p, "yield")
  BY <1>1, <1>3 DEF Kerneltrap, Move, Switched, Locking, Preemptible, TypeOK
<1>5. "yield" \in Label \ (Switched \cup Locking \cup {"copy", "dead"})
  BY DEF Label, Switched, Locking
<1>6. Pids'
  BY <1>1, PidsKept DEF Kerneltrap
<1>7. Kills'
  BY <1>3, KillsKept DEF Kerneltrap, Kills
<1> QED  BY <1>1, <1>2, <1>4, <1>5, <1>6, <1>7, QuietStep

(* A program makes a system call. *)
LEMMA SyscallStep ==
  ASSUME ProcInv, NEW c \in CPU, NEW p \in Slot, NEW call \in Calls, Syscall(c, p, call)
  PROVE ProcInv'
<1> USE NoneIs DEF Conjuncts
<1> Conjuncts  BY ProcInvIs
<1> SUFFICES Conjuncts'  BY ProcInvIs
<1>1. PICK w \in {"fork", "wait", "kill", "exit"} :
        pc' = [pc EXCEPT ![p] = w] /\ (w # "exit" => w = call) /\ (w = "exit" => call = "exit" \/ killed[p])
  BY ProcAssumption DEF Syscall, UnlessKilled
<1>2. arg' \in [Slot -> Nat] /\ \A q \in Slot \ {p} : arg'[q] = arg[q]
  <2>1. CASE call = "kill"
    <3>1. PICK t \in Targets : arg' = [arg EXCEPT ![p] = t]  BY <2>1 DEF Syscall
    <3>2. t \in Nat  BY ProcAssumption
    <3> QED  BY <3>1, <3>2 DEF TypeOK
  <2>2. CASE call # "kill"
    BY <2>2 DEF Syscall, TypeOK
  <2> QED  BY <2>1, <2>2
<1>3. TypeOK' /\ back[p] = "user"
  <2>1. i' \in [Slot -> 1 .. NPROC + 1] /\ pc' \in [Slot -> Label]
    BY <1>1, ProcAssumption, SMTT(60) DEF Syscall, TypeOK, Label
  <2>2. UNCHANGED <<table, locks, sched, j, back>> /\ back[p] = "user"
    BY DEF Syscall, Places, Place
  <2> QED  BY <1>2, <2>1, <2>2 DEF TypeOK
<1>4. Where(p)' = w /\ \A q \in Slot \ {p} : Where(q)' = Where(q)
  BY <1>1 DEF Syscall, Where, TypeOK
<1>5. Move(c, p, w) /\ pc[p] # "wakeinit"
  BY <1>1, <1>2, <1>3, <1>4, SMTT(60) DEF Syscall, Move, Switched, Locking, Birth, TypeOK
<1>6. w \in Label \ (Switched \cup Locking \cup {"copy", "dead"})
  BY DEF Label, Switched, Locking
<1>7. Pids'
  BY PidsKept DEF Syscall
<1>8. Kills'
  <2>1. w = "kill" => arg'[p] \in Targets
    BY <1>1 DEF Syscall, TypeOK
  <2>2. p = InitProc /\ w = "exit" => killed[InitProc]
    BY <1>1 DEF Syscall
  <2> QED  BY <1>2, <1>4, <2>1, <2>2, KillsKept DEF Syscall, Kills
<1> QED  BY <1>3, <1>5, <1>6, <1>7, <1>8, QuietStep

(* wait() takes wait_lock, at its start or after a sleep. *)
LEMMA WaitLockStep ==
  ASSUME ProcInv, NEW c \in CPU, NEW p \in Slot, WaitLock(c, p)
  PROVE ProcInv'
<1> USE NoneIs DEF Conjuncts
<1> Conjuncts  BY ProcInvIs
<1> SUFFICES Conjuncts'  BY ProcInvIs
<1>1. TypeOK' /\ "scan" \in Label
  BY ProcAssumption, SMTT(60) DEF WaitLock, TypeOK, Label
<1>2. Where(p)' = "scan" /\ \A q \in Slot \ {p} : Where(q)' = Where(q) /\ arg'[q] = arg[q]
  BY DEF WaitLock, Where, TypeOK
<1>3. Move(c, p, "scan") /\ pc[p] # "wakeinit"
  BY <1>2, SMTT(60) DEF WaitLock, Move, Switched, Locking, Birth, Places, Place, TypeOK
<1>4. Given(p)' /\ Heard(p)'
  BY SlotIs, SMTT(60) DEF WaitLock, Given, Heard, TypeOK
<1>5. "scan" \notin Switched \cup {"copy", "dead"} \cup (Locking \ {"scan", "sleep"})
  BY DEF Switched, Locking
<1>6. Pids'
  BY PidsKept DEF WaitLock
<1>7. Kills'
  BY <1>2, KillsKept DEF WaitLock, Kills
<1> QED  BY <1>1, <1>3, <1>4, <1>5, <1>6, <1>7, MoveStep, MoveExits, MoveWoke, MoveTold

(* wait() has seen all slots: it returns -1, or goes to sleep with         *)
(* wait_lock.                                                              *)
LEMMA WaitEndStep ==
  ASSUME ProcInv, NEW c \in CPU, NEW p \in Slot, WaitEnd(c, p)
  PROVE ProcInv'
<1> USE NoneIs DEF Conjuncts
<1> Conjuncts  BY ProcInvIs
<1> SUFFICES Conjuncts'  BY ProcInvIs
<1>1. PICK w \in {"ret", "sleep"} : pc' = [pc EXCEPT ![p] = w] /\ waitLock' = IF w = "ret" THEN None ELSE waitLock
  BY DEF WaitEnd
<1>2. TypeOK' /\ w \in Label /\ waitLock = c
  BY <1>1, ProcAssumption, SMTT(60) DEF WaitEnd, TypeOK, Label, Locks, HoldsWait, Locking
<1>3. Where(p)' = w /\ \A q \in Slot \ {p} : Where(q)' = Where(q) /\ arg'[q] = arg[q]
  BY <1>1 DEF WaitEnd, Where, TypeOK
<1>4. Move(c, p, w) /\ pc[p] # "wakeinit"
  BY <1>1, <1>2, <1>3, SMTT(60) DEF WaitEnd, Move, Switched, Locking, Birth, Places, Place, TypeOK
<1>5. Given(p)' /\ Heard(p)'
  BY <1>1, SlotIs, Indices, SMTT(60) DEF WaitEnd, Given, Heard, Woke, TypeOK
<1>6. w \notin Switched \cup {"copy", "dead"} \cup (Locking \ {"scan", "sleep"})
  BY DEF Switched, Locking
<1>7. Pids'
  BY <1>1, PidsKept DEF WaitEnd
<1>8. Kills'
  BY <1>3, KillsKept DEF WaitEnd, Kills
<1> QED  BY <1>2, <1>4, <1>5, <1>6, <1>7, <1>8, MoveStep, MoveExits, MoveWoke, MoveTold

(* exit() takes wait_lock, or panics in init. *)
LEMMA ExitStep ==
  ASSUME ProcInv, NEW c \in CPU, NEW p \in Slot, Exit(c, p)
  PROVE ProcInv'
<1> USE NoneIs DEF Conjuncts
<1> Conjuncts  BY ProcInvIs
<1> SUFFICES Conjuncts'  BY ProcInvIs
<1>1. CASE p = InitProc
  <2>1. /\ UNCHANGED <<table, locks, current, at, pc, local>>
        /\ stack' = [stack EXCEPT ![c] = "panic"] /\ pc[p] = "exit" /\ stack[c] = "proc" /\ current[c] = p
    BY <1>1 DEF Exit, Panic
  <2>2. TypeOK' /\ Cpus' /\ Places' /\ Births' /\ Parents' /\ Exits'
    BY <2>1, SMTT(60) DEF TypeOK, Cpus, Places, Place, Births, Where, Parents, Exits, Given
  <2>3. Locks'
    BY <2>1, SMTT(60) DEF TypeOK, Locks, Holds, HoldsWait, Switched, Locking
  <2>4. Woke' /\ Told'
    BY <2>1, SMTT(60) DEF TypeOK, Woke, Heard, Told, Wakes
  <2>5. Pids'
    BY <2>1 DEF Pids
  <2>6. Kills'
    <3>1. Where(InitProc) = "exit"
      BY <1>1, <2>1 DEF Where
    <3> QED  BY <2>1, <3>1 DEF Kills, Where
  <2> QED  BY <2>2, <2>3, <2>4, <2>5, <2>6
<1>2. CASE p # InitProc
  <2>1. TypeOK' /\ "reparent" \in Label
    <3>1. 1 \in 1 .. NPROC + 1  BY SlotIs, SMTT(60)
    <3> QED  BY <1>2, <3>1, SMTT(60) DEF Exit, TypeOK, Label
  <2>2. Where(p)' = "reparent" /\ \A q \in Slot \ {p} : Where(q)' = Where(q)
    BY <1>2 DEF Exit, Where, TypeOK
  <2>3. Move(c, p, "reparent") /\ pc[p] # "wakeinit"
    BY <1>2, <2>2, SMTT(60) DEF Exit, Move, Switched, Locking, Birth, Places, Place, TypeOK
  <2>4. Given(p)' /\ Heard(p)'
    BY <1>2, SlotIs, SMTT(60) DEF Exit, Given, Heard, TypeOK
  <2>5. "reparent" \notin Switched \cup {"copy", "dead"}
    BY DEF Switched
  <2>6. Pids'
    BY <1>2, PidsKept DEF Exit
  <2>7. Kills'
    BY <1>2, <2>2, KillsKept DEF Exit, Kills
  <2> QED  BY <1>2, <2>1, <2>3, <2>4, <2>5, <2>6, <2>7, MoveStep, MoveExits, MoveWoke, MoveTold
<1> QED  BY <1>1, <1>2

(* A step that starts no birth keeps Births if the children of those under *)
(* way are left as they are.                                               *)
LEMMA BirthsKept ==
  ASSUME Births,
         \A q \in Slot : Where(q)' \in Birth =>
           /\ Where(q) \in Birth /\ arg'[q] = arg[q]
           /\ state'[arg[q]] = "used"
           /\ Where(q)' # "copy" => pc'[arg[q]] = "new"
           /\ Where(q)' = "ready" => parent'[arg[q]] = q
  PROVE Births'
<1>1. ASSUME NEW q \in Slot, Where(q)' \in Birth
      PROVE  /\ arg'[q] \in Slot /\ state'[arg'[q]] = "used"
             /\ Where(q)' # "copy" => pc'[arg'[q]] = "new"
             /\ Where(q)' = "ready" => parent'[arg'[q]] = q
  <2>1. /\ arg'[q] = arg[q] /\ state'[arg[q]] = "used"
        /\ Where(q)' # "copy" => pc'[arg[q]] = "new"
        /\ Where(q)' = "ready" => parent'[arg[q]] = q
    BY <1>1
  <2>2. arg[q] \in Slot
    BY <1>1, BirthIs
  <2> QED  BY <2>1, <2>2
<1>2. ASSUME NEW q \in Slot, NEW r \in Slot, Where(q)' \in Birth, Where(r)' \in Birth, arg'[q] = arg'[r]
      PROVE  q = r
  <2>1. Where(q) \in Birth /\ Where(r) \in Birth /\ arg[q] = arg[r]
    BY <1>2
  <2> QED  BY <2>1, BirthIs
<1> QED  BY <1>1, <1>2 DEF Births

(* sched() does not panic: its caller holds its own p->lock and no other. *)
LEMMA SchedSwitches ==
  ASSUME ProcInv, NEW c \in CPU, NEW p \in Slot, Runs(c, p), pc[p] \in {"yield", "sleep", "zombie"},
         lock' = [lock EXCEPT ![p] = c], waitLock' # c, Sched(c, p)
  PROVE stack' = [stack EXCEPT ![c] = "sched"] /\ UNCHANGED <<current, at>>
<1>1. \A q \in Slot : lock[q] # c
  BY ProcInvIs, NotHeld DEF Conjuncts, Switched
<1>2. {q \in Slot : lock'[q] = c} = {p}
  BY <1>1, ProcInvIs, SMTT(60) DEF Conjuncts, TypeOK
<1> QED  BY <1>2 DEF Sched

(* What yield(), sleep() and the end of exit() have in common: p's lock is *)
(* taken and p's cpu goes back to scheduler().                             *)
Switch(c, p, s, w) ==
  /\ Runs(c, p) /\ lock[p] = None /\ lock' = [lock EXCEPT ![p] = c]
  /\ stack' = [stack EXCEPT ![c] = "sched"] /\ UNCHANGED <<current, at>>
  /\ state' = [state EXCEPT ![p] = s] /\ pc' = [pc EXCEPT ![p] = w]
  /\ waitLock' = IF pc[p] = "yield" THEN waitLock ELSE None
  /\ \/ pc[p] = "yield" /\ s = "runnable" /\ w = "yielded" /\ arg' = arg /\ back' = back
     \/ pc[p] = "sleep" /\ s = "sleeping" /\ w = "asleep" /\ chan'[p] = p /\ back' = back
     \/ pc[p] = "zombie" /\ s = "zombie" /\ w = "dead" /\ back'[p] = "user"
  /\ \A q \in Slot \ {p} : /\ chan'[q] = chan[q] /\ i'[q] = i[q] /\ j'[q] = j[q]
                           /\ arg'[q] = arg[q] /\ back'[q] = back[q]
  /\ UNCHANGED <<killed, pid, parent, nextpid>>

(* A Switch keeps all conjuncts but those about waking up. *)
LEMMA SwitchStep ==
  ASSUME ProcInv, TypeOK', NEW c \in CPU, NEW p \in Slot, NEW s, NEW w, Switch(c, p, s, w)
  PROVE Cpus' /\ Locks' /\ Places' /\ Births' /\ Parents' /\ Exits' /\ Pids' /\ Kills'
<1> USE NoneIs DEF Conjuncts
<1> Conjuncts  BY ProcInvIs
<1>1. /\ current[c] = p /\ stack[c] = "proc" /\ state[p] = "running" /\ p # None
      /\ \A d \in CPU : current[d] = p => d = c
  BY SMTT(60) DEF Switch, Cpus, TypeOK
<1>2. /\ state'[p] = s /\ s \in {"sleeping", "runnable", "zombie"}
      /\ \A q \in Slot \ {p} : state'[q] = state[q]
  BY SMTT(60) DEF Switch, TypeOK
<1>3. pc'[p] = w /\ w \in {"yielded", "asleep", "dead"} /\ \A q \in Slot \ {p} : pc'[q] = pc[q]
  BY SMTT(60) DEF Switch, TypeOK
<1>4. stack'[c] = "sched" /\ \A d \in CPU \ {c} : stack'[d] = stack[d]
  BY SMTT(60) DEF Switch, TypeOK
<1>5. Cpus'
  BY <1>1, <1>2, <1>4, SMTT(60) DEF Switch, Cpus, TypeOK
<1>6. Locks'
  <2>1. \A d \in CPU \ {c} : /\ HoldsWait(d)' <=> HoldsWait(d)
                             /\ \A q \in Slot : Holds(d, q)' <=> Holds(d, q)
    BY <1>1, <1>3, <1>4, SMTT(60) DEF HoldsWait, Holds, TypeOK, Switch
  <2>2. ~HoldsWait(c)' /\ \A q \in Slot : Holds(c, q)' <=> q = p
    BY <1>1, <1>4 DEF HoldsWait, Holds, Switch
  <2>3. lock'[p] = c /\ \A q \in Slot \ {p} : lock'[q] = lock[q] /\ lock[q] # c
    BY <1>1, SMTT(60) DEF Switch, Locks, Holds, TypeOK, Switched
  <2>4. waitLock' # c /\ \A d \in CPU \ {c} : waitLock' = d <=> waitLock = d
    <3>1. waitLock = c <=> pc[p] \in Locking
      BY <1>1, WaitLockHeld
    <3>2. CASE pc[p] = "yield"
      BY <3>1, <3>2 DEF Switch, Locking
    <3>3. CASE pc[p] # "yield"
      BY <3>1, <3>3 DEF Switch, Locking
    <3> QED  BY <3>2, <3>3
  <2>5. lock[p] = None
    BY DEF Switch
  <2>6. \A d \in CPU \ {c} : /\ waitLock' = d <=> waitLock = d
                             /\ \A q \in Slot : lock'[q] = d <=> lock[q] = d
    BY <2>3, <2>4, <2>5
  <2>7. /\ waitLock' = c <=> HoldsWait(c)'
        /\ \A q \in Slot : lock'[q] = c <=> Holds(c, q)'
    BY <2>2, <2>3, <2>4
  <2> QED  BY <2>1, <2>6, <2>7, LocksMoved
<1>7. Places'
  <2>1. ASSUME NEW q \in Slot \ {p}
        PROVE  Place(q)'
    <3>1. /\ pc'[q] = pc[q] /\ state'[q] = state[q]
          /\ chan'[q] = chan[q] /\ back'[q] = back[q]
      BY <1>2, <1>3 DEF Switch
    <3> QED  BY <3>1, PlaceKept DEF Places
  <2>2. Place(p)'
    <3>1. back'[p] \in Preemptible \cup {"user"} /\ (w = "dead" => back'[p] = "user")
      BY DEF Switch, Places, Place
    <3> QED  BY <1>2, <1>3, <3>1 DEF Switch, Place, Switched
  <2> QED  BY <2>1, <2>2 DEF Places
<1>8. /\ \A q \in Slot \ {p} : Where(q)' = Where(q)
      /\ Where(p)' = IF w = "yielded" THEN Where(p) ELSE w
  BY <1>3, SMTT(60) DEF Where, Switch
<1>9. Births'
  <2>1. ASSUME NEW q \in Slot, Where(q)' \in Birth
        PROVE  Where(q)' = Where(q) /\ arg'[q] = arg[q]
    BY <1>3, <1>8, <2>1 DEF Birth, Switch
  <2>2. ASSUME NEW q \in Slot, Where(q) \in Birth
        PROVE  /\ arg[q] \in Slot \ {p} /\ state[arg[q]] = "used"
               /\ Where(q) # "copy" => pc[arg[q]] = "new"
               /\ Where(q) = "ready" => parent[arg[q]] = q
    BY <1>1, <2>2 DEF Births
  <2>3. parent' = parent
    BY DEF Switch
  <2>4. ASSUME NEW q \in Slot, Where(q)' \in Birth
        PROVE  /\ Where(q) \in Birth /\ arg'[q] = arg[q] /\ state'[arg[q]] = "used"
               /\ Where(q)' # "copy" => pc'[arg[q]] = "new"
               /\ Where(q)' = "ready" => parent'[arg[q]] = q
    BY <1>2, <1>3, <2>1, <2>2, <2>3, <2>4
  <2> QED  BY <2>4, BirthsKept
<1>10. Parents'
  <2>1. s = "zombie" => p # InitProc /\ \A q \in Slot : parent[q] # p
    BY DEF Switch, Parents, Exits, Given
  <2>2. w = "dead" => s = "zombie"
    BY DEF Switch
  <2> QED  BY <1>1, <1>2, <1>3, <2>1, <2>2, SMTT(60) DEF Switch, Parents, TypeOK, Live
<1>11. Exits'
  <2>1. \A q \in Slot \ {p} : Given(q)'
    BY <1>3, SMTT(60) DEF Exits, Given, Switch
  <2>2. Given(p)'
    BY <1>3 DEF Given
  <2> QED  BY <2>1, <2>2 DEF Exits
<1>12. Pids'
  BY <1>2, <1>3, PidsKept DEF Switch
<1>13. Kills'
  BY <1>2, <1>3, <1>4, <1>8, KillsKept, SMTT(60) DEF Switch, Kills
<1> QED  BY <1>5, <1>6, <1>7, <1>9, <1>10, <1>11, <1>12, <1>13

(* A Switch keeps the cpus that are about to wake init, of which there is  *)
(* none if the process had wait_lock.                                      *)
LEMMA SwitchWakes ==
  ASSUME ProcInv, NEW c \in CPU, NEW p \in Slot, NEW s, NEW w, Switch(c, p, s, w)
  PROVE /\ \A d \in CPU : Wakes(d) => Wakes(d)'
        /\ pc[p] # "yield" => \A d \in CPU : ~Wakes(d)
<1> USE NoneIs DEF Conjuncts
<1> Conjuncts  BY ProcInvIs
<1>1. current[c] = p /\ stack[c] = "proc" /\ \A d \in CPU : current[d] = p => d = c
  BY SMTT(60) DEF Switch, Cpus, TypeOK
<1>2. \A d \in CPU : Wakes(d) => HoldsWait(d) /\ d # c
  BY <1>1 DEF Wakes, HoldsWait, Locking, Switch
<1>3. pc[p] # "yield" => HoldsWait(c)
  BY <1>1 DEF Switch, HoldsWait, Locking
<1>4. \A d \in CPU : Wakes(d) => Wakes(d)'
  BY <1>1, <1>2, SMTT(60) DEF Wakes, Switch, TypeOK
<1> QED  BY <1>2, <1>3, <1>4 DEF Locks

(* yield() makes the process runnable and switches. *)
LEMMA YieldStep ==
  ASSUME ProcInv, NEW c \in CPU, NEW p \in Slot, Yield(c, p)
  PROVE ProcInv'
<1> USE NoneIs DEF Conjuncts
<1> Conjuncts  BY ProcInvIs
<1> SUFFICES Conjuncts'  BY ProcInvIs
<1>1. waitLock' # c
  BY DEF Yield, Locks, HoldsWait, Locking
<1>2. stack' = [stack EXCEPT ![c] = "sched"] /\ UNCHANGED <<current, at>>
  BY <1>1, SchedSwitches DEF Yield
<1>3. TypeOK'
  BY <1>2 DEF Yield, TypeOK, Label
<1>4. Switch(c, p, "runnable", "yielded")
  BY <1>2 DEF Yield, Switch
<1>5. Woke'
  <2>1. \A q \in Slot \ {p} : Heard(q) => Heard(q)'
    BY SMTT(60) DEF Heard, Yield, TypeOK
  <2>2. Heard(p)'
    BY DEF Heard, Yield, TypeOK
  <2>3. \A d \in CPU, q \in Slot \ {p} : Runs(d, q)' => Runs(d, q)
    BY <1>2 DEF Yield, TypeOK
  <2> QED  BY <2>1, <2>2, <2>3 DEF Woke
<1>6. Told'
  BY <1>4, SwitchWakes DEF Told, Yield, TypeOK
<1> QED  BY <1>3, <1>4, <1>5, <1>6, SwitchStep

(* sleep() in wait() releases wait_lock with p->lock held: no child can    *)
(* become a zombie between wait()'s look at the children and the sleep.    *)
LEMMA SleepStep ==
  ASSUME ProcInv, NEW c \in CPU, NEW p \in Slot, Sleep(c, p)
  PROVE ProcInv'
<1> USE NoneIs DEF Conjuncts
<1> Conjuncts  BY ProcInvIs
<1> SUFFICES Conjuncts'  BY ProcInvIs
<1>1. stack' = [stack EXCEPT ![c] = "sched"] /\ UNCHANGED <<current, at>>
  BY SchedSwitches DEF Sleep
<1>2. TypeOK'
  BY <1>1 DEF Sleep, TypeOK, Label
<1>3. Switch(c, p, "sleeping", "asleep")
  BY <1>1 DEF Sleep, Switch, TypeOK
<1>4. HoldsWait(c) /\ waitLock = c /\ Heard(p)
  BY DEF Sleep, HoldsWait, Locking, Locks, Woke
<1>5. Woke'
  <2>1. \A d \in CPU, q \in Slot : Runs(d, q)' => Runs(d, q) /\ d # c /\ q # p
    BY <1>1, SMTT(60) DEF Sleep, TypeOK, Cpus
  <2>2. \A d \in CPU \ {c}, q \in Slot : Runs(d, q) => pc[q] \notin Locking
    BY <1>4 DEF Locks, HoldsWait
  <2>3. \A q \in Slot \ {p} : pc'[q] = pc[q]
    BY DEF Sleep, TypeOK
  <2>4. \A q \in Slot : pc'[q] \notin Locking => Heard(q)'
    BY DEF Heard, Locking
  <2> QED  BY <2>1, <2>2, <2>3, <2>4 DEF Woke
<1>6. Told'
  <2>1. \A q \in Slot : parent[q] = p => state[q] # "zombie"
    BY <1>4 DEF Heard, Sleep
  <2>2. \A d \in CPU : ~Wakes(d)
    BY <1>3, SwitchWakes DEF Sleep
  <2> QED  BY <2>1, <2>2 DEF Told, Sleep, TypeOK
<1> QED  BY <1>2, <1>3, <1>5, <1>6, SwitchStep

(* exit() makes the process a zombie and switches, having woken its parent *)
(* and given its children to init under the same wait_lock.                *)
LEMMA ZombieStep ==
  ASSUME ProcInv, NEW c \in CPU, NEW p \in Slot, Zombie(c, p)
  PROVE ProcInv'
<1> USE NoneIs DEF Conjuncts
<1> Conjuncts  BY ProcInvIs
<1> SUFFICES Conjuncts'  BY ProcInvIs
<1>1. stack' = [stack EXCEPT ![c] = "sched"] /\ UNCHANGED <<current, at>>
  BY SchedSwitches DEF Zombie
<1>2. TypeOK'
  BY <1>1, ProcAssumption, SMTT(60) DEF Zombie, TypeOK, Label
<1>3. Switch(c, p, "zombie", "dead")
  BY <1>1 DEF Zombie, Switch, TypeOK
<1>4. HoldsWait(c) /\ waitLock = c /\ Heard(p)
  BY DEF Zombie, HoldsWait, Locking, Locks, Woke
<1>5. Woke'
  <2>1. \A d \in CPU, q \in Slot : Runs(d, q)' => Runs(d, q) /\ d # c /\ q # p
    BY <1>1, SMTT(60) DEF Zombie, TypeOK, Cpus
  <2>2. \A d \in CPU \ {c}, q \in Slot : Runs(d, q) => pc[q] \notin Locking
    BY <1>4 DEF Locks, HoldsWait
  <2>3. \A q \in Slot \ {p} : pc'[q] = pc[q]
    BY DEF Zombie, TypeOK
  <2>4. \A q \in Slot : pc'[q] \notin Locking => Heard(q)'
    BY DEF Heard, Locking
  <2> QED  BY <2>1, <2>2, <2>3, <2>4 DEF Woke
<1>6. Told'
  <2>1. state[parent[p]] # "sleeping"
    BY <1>4 DEF Heard, Zombie
  <2>2. \A d \in CPU : ~Wakes(d)
    BY <1>3, SwitchWakes DEF Zombie
  <2> QED  BY <2>1, <2>2 DEF Told, Zombie, TypeOK
<1> QED  BY <1>2, <1>3, <1>5, <1>6, SwitchStep

(* scheduler() looks at a slot, and runs the process if it is runnable. *)
LEMMA SchedVisitStep ==
  ASSUME ProcInv, NEW c \in CPU, SchedVisit(c)
  PROVE ProcInv'
<1> USE NoneIs DEF Conjuncts
<1> Conjuncts  BY ProcInvIs
<1> SUFFICES Conjuncts'  BY ProcInvIs
<1>1. PICK n \in Slot : n = at[c]
  BY DEF TypeOK
<1>2. stack[c] = "sched" /\ current[c] = None /\ lock[n] = None
  BY <1>1 DEF SchedVisit, Visitable
<1>3. UNCHANGED <<chan, killed, pid, parent, nextpid, waitLock, pc, local>>
  BY DEF SchedVisit
<1>4. CASE state[n] # "runnable"
  <2>1. at' = [at EXCEPT ![c] = NextSlot(n)] /\ UNCHANGED <<state, current, stack, lock>>
    BY <1>1, <1>4 DEF SchedVisit
  <2>2. NextSlot(n) \in Slot
    BY ProcAssumption, SMTT(60) DEF NextSlot, Slot
  <2>3. TypeOK' /\ Cpus'
    BY <1>2, <1>3, <2>1, <2>2 DEF TypeOK, Cpus
  <2> QED  BY <1>3, <2>1, <2>3, StillHolds
<1>5. CASE state[n] = "runnable"
  <2>1. /\ state' = [state EXCEPT ![n] = "running"] /\ current' = [current EXCEPT ![c] = n]
        /\ stack' = [stack EXCEPT ![c] = "proc"] /\ lock' = [lock EXCEPT ![n] = c] /\ at' = at
    BY <1>1, <1>5 DEF SchedVisit
  <2>2. TypeOK'
    BY <1>3, <2>1 DEF TypeOK
  <2>3. pc[n] \in Switched /\ \A d \in CPU : current[d] # n
    <3>1. pc[n] \in Switched  BY <1>5 DEF Places, Place
    <3>2. ASSUME NEW d \in CPU, current[d] = n PROVE FALSE
      <4>1. stack[d] = "sched"  BY <1>5, <3>2 DEF Cpus
      <4>2. Holds(d, n)  BY <3>2, <4>1 DEF Holds
      <4> QED  BY <1>2, <4>2 DEF Locks
    <3> QED  BY <3>1, <3>2
  <2>4. /\ state'[n] = "running" /\ \A q \in Slot \ {n} : state'[q] = state[q]
        /\ current'[c] = n /\ stack'[c] = "proc"
        /\ \A d \in CPU \ {c} : current'[d] = current[d] /\ stack'[d] = stack[d]
    BY <2>1 DEF TypeOK
  <2>5. Cpus'
    BY <1>1, <2>1, <2>3, <2>4, SMTT(60) DEF Cpus, TypeOK
  <2>6. Locks'
    <3>1. \A d \in CPU \ {c} : /\ HoldsWait(d)' <=> HoldsWait(d)
                               /\ \A q \in Slot : Holds(d, q)' <=> Holds(d, q)
      BY <1>3, <2>4 DEF HoldsWait, Holds
    <3>2. ~HoldsWait(c)' /\ ~HoldsWait(c) /\ \A q \in Slot : (Holds(c, q)' <=> q = n) /\ ~Holds(c, q)
      BY <1>2, <1>3, <2>3, <2>4 DEF HoldsWait, Holds, Switched, Locking
    <3>3. lock'[n] = c /\ \A q \in Slot \ {n} : lock'[q] = lock[q]
      BY <2>1 DEF TypeOK
    <3>4. \A d \in CPU : ~Holds(d, n)  BY <1>2, SMTT(60) DEF Locks
    <3>5. ASSUME NEW d \in CPU, NEW q \in Slot PROVE lock'[q] = d <=> Holds(d, q)'
      <4>1. lock[q] = d <=> Holds(d, q)  BY DEF Locks
      <4>2. CASE q = n  BY <3>1, <3>2, <3>3, <3>4, <4>2
      <4>3. CASE q # n  BY <3>1, <3>2, <3>3, <4>1, <4>3
      <4> QED  BY <4>2, <4>3
    <3>6. ASSUME NEW d \in CPU PROVE waitLock' = d <=> HoldsWait(d)'
      BY <1>3, <3>1, <3>2 DEF Locks
    <3> QED  BY <3>5, <3>6 DEF Locks
  <2>7. Places' /\ Parents'
    <3>1. Places'  BY <1>3, <2>4, SMTT(60) DEF Places, Place
    <3>2. \A q \in Slot : /\ state[q] \in Live => state'[q] \in Live
                          /\ state'[q] \in Live \cup {"zombie"} => state[q] \in Live \cup {"zombie"}
      <4>1. \A q \in Slot : state'[q] = state[q] \/ (state[q] = "runnable" /\ state'[q] = "running")
        BY <1>5, <2>4
      <4>2. {"runnable", "running"} \subseteq Live  BY DEF Live
      <4> QED  BY <4>1, <4>2
    <3>3. \A q \in Slot : parent[q] # None => parent[q] \in Slot  BY DEF TypeOK
    <3>4. Parents'
      <4>1. pc' = pc /\ parent' = parent  BY <1>3
      <4> QED  BY <3>2, <3>3, <4>1 DEF Parents
    <3> QED  BY <3>1, <3>4
  <2>8. Births'
    <3>1. \A q \in Slot : state[q] = "used" => state'[q] = "used"  BY <1>5, <2>4
    <3>2. \A q \in Slot : Where(q)' = Where(q)  BY <1>3 DEF Where
    <3> QED  BY <1>3, <3>1, <3>2, SMTT(60) DEF Births
  <2>9. Exits'
    BY <1>3 DEF Exits, Given
  <2>10. Woke'
    <3>1. Heard(n)'
      BY <1>3, <2>3 DEF Heard, Switched
    <3>2. \A q \in Slot : Heard(q) => Heard(q)'
      BY <1>3, <1>5, <2>1, <2>4, SMTT(60) DEF Heard, TypeOK
    <3> QED  BY <2>4, <3>1, <3>2, SMTT(60) DEF Woke
  <2>11. Told'
    <3>1. \A d \in CPU : Wakes(d) => Wakes(d)'
      BY <1>2, <1>3, <2>4 DEF Wakes
    <3>2. \A q \in Slot : state'[q] \in {"sleeping", "zombie"} => state'[q] = state[q]
      BY <2>4
    <3> QED  BY <1>3, <3>1, <3>2 DEF Told
  <2>12. Pids'
    BY <1>3, <2>4, PidsKept
  <2>13. Kills'
    BY <1>3, <2>4, KillsKept DEF Kills, Where
  <2> QED  BY <2>2, <2>5, <2>6, <2>7, <2>8, <2>9, <2>10, <2>11, <2>12, <2>13
<1> QED  BY <1>4, <1>5

(* scheduler() has control again and releases the process's lock. *)
LEMMA SchedBackStep ==
  ASSUME ProcInv, NEW c \in CPU, SchedBack(c)
  PROVE ProcInv'
<1> USE NoneIs DEF Conjuncts
<1> Conjuncts  BY ProcInvIs
<1> SUFFICES Conjuncts'  BY ProcInvIs
<1>1. PICK n \in Slot : n = current[c]
  BY DEF SchedBack, TypeOK
<1>2. stack[c] = "sched" /\ at[c] = n /\ lock[n] = c /\ \A d \in CPU : current[d] = n => d = c
  <2>1. stack[c] = "sched" /\ current[c] # None  BY DEF SchedBack
  <2>2. at[c] = n /\ \A d \in CPU : current[d] = n => d = c  BY <1>1, <2>1 DEF Cpus
  <2>3. Holds(c, n)  BY <1>1, <2>1 DEF Holds
  <2> QED  BY <2>1, <2>2, <2>3 DEF Locks
<1>3. /\ current' = [current EXCEPT ![c] = None] /\ lock' = [lock EXCEPT ![n] = None]
      /\ at' = [at EXCEPT ![c] = NextSlot(n)]
      /\ UNCHANGED <<table, waitLock, stack, pc, local>>
  BY <1>2 DEF SchedBack
<1>4. NextSlot(n) \in Slot
  BY ProcAssumption, SMTT(60) DEF NextSlot, Slot
<1>5. TypeOK'
  BY <1>3, <1>4 DEF TypeOK
<1>6. Cpus'
  BY <1>2, <1>3, SMTT(60) DEF Cpus, TypeOK
<1>7. Locks'
  <2>1. \A d \in CPU \ {c} : /\ HoldsWait(d)' <=> HoldsWait(d)
                             /\ \A q \in Slot : Holds(d, q)' <=> Holds(d, q)
    BY <1>3 DEF HoldsWait, Holds, TypeOK
  <2>2. ~HoldsWait(c)' /\ ~HoldsWait(c) /\ \A q \in Slot : ~Holds(c, q)' /\ (Holds(c, q) <=> q = n)
    BY <1>1, <1>2, <1>3 DEF HoldsWait, Holds, TypeOK
  <2>3. lock'[n] = None /\ \A q \in Slot \ {n} : lock'[q] = lock[q]
    BY <1>3 DEF TypeOK
  <2>4. \A d \in CPU \ {c} : ~Holds(d, n)  BY <1>2 DEF Locks
  <2>5. ASSUME NEW d \in CPU, NEW q \in Slot PROVE lock'[q] = d <=> Holds(d, q)'
    <3>1. lock[q] = d <=> Holds(d, q)  BY DEF Locks
    <3>2. CASE q = n  BY <2>1, <2>2, <2>3, <2>4, <3>2
    <3>3. CASE q # n  BY <2>1, <2>2, <2>3, <3>1, <3>3
    <3> QED  BY <3>2, <3>3
  <2>6. ASSUME NEW d \in CPU PROVE waitLock' = d <=> HoldsWait(d)'
    BY <1>3, <2>1, <2>2 DEF Locks
  <2> QED  BY <2>5, <2>6 DEF Locks
<1>8. Places' /\ Births' /\ Parents' /\ Exits'
  <2>1. Places' /\ Parents'  BY <1>3 DEF Places, Place, Parents
  <2>2. Births'  BY <1>3 DEF Births, Where
  <2>3. Exits'  BY <1>3 DEF Exits, Given
  <2> QED  BY <2>1, <2>2, <2>3
<1>9. Woke' /\ Told'
  <2>1. \A d \in CPU : Wakes(d) => Wakes(d)'
    BY <1>2, <1>3 DEF Wakes, TypeOK
  <2>2. \A d \in CPU, q \in Slot : Runs(d, q)' => Runs(d, q)
    BY <1>3 DEF TypeOK
  <2> QED  BY <1>3, <2>1, <2>2, SMTT(60) DEF Woke, Heard, Told
<1>10. Pids' /\ Kills'
  BY <1>3 DEF Pids, Kills, Where
<1> QED  BY <1>5, <1>6, <1>7, <1>8, <1>9, <1>10
=============================================================================
