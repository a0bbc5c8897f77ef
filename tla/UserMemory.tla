----------------------------- MODULE UserMemory -----------------------------
(***************************************************************************)
(* The memory of user processes, over the page tables of module Vm: sbrk   *)
(* (growproc, kernel/proc.c), fork and the freeing of a process, exec      *)
(* (kernel/exec.c, sys_exec), and the kernel's writes to user memory.      *)
(* Processes share the pages that are left and nothing else.  A step is a  *)
(* turn of a loop that allocates pages, or what lies between two loops.    *)
(***************************************************************************)
EXTENDS Vm, Integers, SequencesExt

CONSTANTS
  NPROC, MAXARG, ALIGN,
  WORD,       \* addresses are computed modulo WORD
  Programs,   \* a sequence of executable files
  Increments, \* bound: arguments of sbrk
  Stores,     \* bound: addresses that are written
  Argvs,      \* bound: where argv and its strings are
  Calls       \* bound: who makes which calls

Proc == 1 .. NPROC

ASSUME MemoryAssumption ==
  /\ NPROC \in Nat \ {0} /\ MAXARG \in Nat \ {0} /\ ALIGN \in Nat \ {0}
  /\ WORD > 2 * MAXVA * PGSIZE
  /\ Increments \subseteq Int /\ Stores \subseteq Nat
  /\ Calls \subseteq Proc \X {"store", "read", "grow", "shrink", "fork", "exec"}

VARIABLES
  ram,     \* the memory of module Vm
  proc,    \* state, page table, size and trapframe of each process
  job,     \* the call that each process is in
  image    \* the memory that each process should see

vars == <<ram, proc, job, image>>

Unused == [state |-> "unused", root |-> 0, sz |-> 0, trapframe |-> 0]
NoJob == [pc |-> "user", child |-> 0, root |-> 0, sz |-> 0, a |-> 0, start |-> 0, new |-> 0, perm |-> {},
          prog |-> 0, seg |-> 0, uargv |-> 0, todo |-> <<>>, args |-> <<>>, argv |-> <<>>]

PageOf(perm, bytes) == [perm |-> perm, bytes |-> bytes]
InitCode == [Zeroes EXCEPT ![0] = "i"]

(* allocproc: a trapframe and a page table, or neither                     *)
Allocproc(m) ==
  IF m.free = {} THEN [m |-> m, root |-> 0, trapframe |-> 0]
  ELSE With(Kalloc(m, Junk), LAMBDA m1 :
       With(ProcPagetable(m1, Fresh(m)), LAMBDA r :
         IF r.root = 0 THEN [m |-> Kfree(r.m, Fresh(m)), root |-> 0, trapframe |-> 0]
         ELSE [m |-> r.m, root |-> r.root, trapframe |-> Fresh(m)]))

(* freeproc *)
Freeproc(m, q) == With(Kfree(m, q.trapframe), LAMBDA m1 : ProcFreepagetable(m1, q.root, q.sz))

(* userinit, with uvmfirst                                                 *)
Init ==
  LET rwxu == {"R", "W", "X", "U"}
  IN \E a \in {Allocproc(Kinit)} :
      /\ ram = Mappages(Kalloc(a.m, InitCode), a.root, 0, Fresh(a.m), rwxu)
      /\ proc = [p \in Proc |-> IF p = 1 THEN [state |-> "used", root |-> a.root, sz |-> PGSIZE,
                                               trapframe |-> a.trapframe]
                                ELSE Unused]
      /\ job = [p \in Proc |-> NoJob]
      /\ image = [p \in Proc |-> IF p = 1 THEN <<PageOf(rwxu, InitCode)>> ELSE <<>>]

MayCall(p, call) == <<p, call>> \in Calls
InUser(p) == proc[p].state = "used" /\ job[p].pc = "user" /\ ~ram.bad
In(p, pc) == job[p].pc = pc /\ ~ram.bad

Return(p) == job' = [job EXCEPT ![p] = NoJob]

-----------------------------------------------------------------------------
(* The bytes s put into an image from address va on                        *)
Written(img, va, s) ==
  [k \in DOMAIN img |-> [img[k] EXCEPT !.bytes = [i \in DOMAIN @ |->
     LET n == (k - 1) * PGSIZE + i - va IN IF n \in 0 .. Len(s) - 1 THEN s[n + 1] ELSE @[i]]]]

(* The program stores a byte.                                              *)
Store(p, va) ==
  /\ InUser(p) /\ MayCall(p, "store") /\ va < proc[p].sz
  /\ Walkaddr(ram, proc[p].root, va) # 0 /\ "W" \in Pte(ram, proc[p].root, va \div PGSIZE).perm
  /\ ram' = Copyout(ram, proc[p].root, va, <<"w">>)
  /\ image' = [image EXCEPT ![p] = Written(@, va, <<"w">>)]
  /\ UNCHANGED <<proc, job>>

(* The kernel copies the result of a call, of two bytes, to va.  On an     *)
(* error what has been copied stays.                                       *)
ReadInto(p, va) ==
  LET n == Reach(ram, proc[p].root, va, 2)
  IN  /\ InUser(p) /\ MayCall(p, "read")
      /\ ram' = Copyout(ram, proc[p].root, va, <<"k", "k">>)
      /\ image' = [image EXCEPT ![p] = Written(@, va, SubSeq(<<"k", "k">>, 1, n))]
      /\ UNCHANGED <<proc, job>>

-----------------------------------------------------------------------------
(* growproc *)

(* The program calls sbrk with n > 0: uvmalloc starts.                     *)
SbrkGrow(p, n) ==
  /\ InUser(p) /\ MayCall(p, "grow") /\ n > 0
  /\ LET start == PGROUNDUP(proc[p].sz)
     IN  job' = [job EXCEPT ![p] = [NoJob EXCEPT !.pc = "grow", !.root = proc[p].root, !.a = start,
                                      !.start = start, !.new = proc[p].sz + n, !.perm = {"W"}]]
  /\ UNCHANGED <<ram, proc, image>>

(* One with n <= 0 gives pages back; below 0 the new size is a large one,  *)
(* and nothing happens.                                                    *)
SbrkShrink(p, n) ==
  LET new == (proc[p].sz + n) % WORD
      sz == IF new >= proc[p].sz THEN proc[p].sz ELSE new
  IN  /\ InUser(p) /\ MayCall(p, "shrink") /\ n <= 0
      /\ ram' = Uvmdealloc(ram, proc[p].root, proc[p].sz, new)
      /\ proc' = [proc EXCEPT ![p].sz = sz]
      /\ image' = [image EXCEPT ![p] = SubSeq(@, 1, Pages(sz))]
      /\ UNCHANGED job

(* uvmalloc, for sbrk, for a segment and for the stack: another page       *)
Turn(p) == UvmallocTurn(ram, job[p].root, job[p].a, job[p].start, job[p].perm)

Uvmalloc(p) ==
  /\ \E pc \in {"grow", "seg", "stack"} : In(p, pc)
  /\ job[p].a < job[p].new
  /\ \E t \in {Turn(p)} : t.ok /\ ram' = t.m
  /\ job' = [job EXCEPT ![p].a = @ + PGSIZE]
  /\ UNCHANGED <<proc, image>>

GrowFails(p) ==
  /\ In(p, "grow")
  /\ job[p].a < job[p].new
  /\ \E t \in {Turn(p)} : ~t.ok /\ ram' = t.m
  /\ Return(p)
  /\ UNCHANGED <<proc, image>>

GrowDone(p) ==
  /\ In(p, "grow")
  /\ job[p].a >= job[p].new
  /\ proc' = [proc EXCEPT ![p].sz = job[p].new]
  /\ image' = [image EXCEPT ![p] = @ \o [k \in 1 .. Pages(job[p].new) - Len(@) |-> PageOf({"R", "W", "U"}, Zeroes)]]
  /\ Return(p)
  /\ UNCHANGED ram

-----------------------------------------------------------------------------
(* fork and freeproc *)

(* A child is allocated; without a slot or memory fork fails.              *)
Fork(p) ==
  /\ InUser(p) /\ MayCall(p, "fork")
  /\ \E np \in Proc : proc[np].state = "unused"
  /\ LET np == CHOOSE q \in Proc : proc[q].state = "unused" /\ \A r \in 1 .. q - 1 : proc[r].state # "unused"
     IN \E c \in {Allocproc(ram)} :
         /\ ram' = c.m
         /\ IF c.root = 0 THEN UNCHANGED <<proc, job>>
            ELSE /\ proc' = [proc EXCEPT ![np] = [Unused EXCEPT !.state = "child", !.root = c.root,
                                                                !.trapframe = c.trapframe]]
                 /\ job' = [job EXCEPT ![p] = [NoJob EXCEPT !.pc = "copy", !.child = np, !.root = c.root]]
  /\ UNCHANGED image

CopyTurn(p) == UvmcopyTurn(ram, proc[p].root, job[p].root, job[p].a \div PGSIZE)

Uvmcopy(p) ==
  /\ In(p, "copy")
  /\ job[p].a < proc[p].sz
  /\ \E t \in {CopyTurn(p)} : t.ok /\ ram' = t.m
  /\ job' = [job EXCEPT ![p].a = @ + PGSIZE]
  /\ UNCHANGED <<proc, image>>

ForkFails(p) ==
  /\ In(p, "copy")
  /\ job[p].a < proc[p].sz
  /\ \E t \in {CopyTurn(p)} : ~t.ok /\ ram' = Freeproc(t.m, proc[job[p].child])
  /\ proc' = [proc EXCEPT ![job[p].child] = Unused]
  /\ Return(p)
  /\ UNCHANGED image

ForkDone(p) ==
  /\ In(p, "copy")
  /\ job[p].a >= proc[p].sz
  /\ LET np == job[p].child
     IN  /\ proc' = [proc EXCEPT ![np].state = "used", ![np].sz = proc[p].sz]
         /\ image' = [image EXCEPT ![np] = image[p]]
  /\ Return(p)
  /\ UNCHANGED ram

(* p exits, and wait frees it.                                             *)
Exit(p) ==
  /\ InUser(p) /\ p # 1
  /\ ram' = Freeproc(ram, proc[p])
  /\ proc' = [proc EXCEPT ![p] = Unused]
  /\ image' = [image EXCEPT ![p] = <<>>]
  /\ UNCHANGED job

=============================================================================
