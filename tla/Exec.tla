-------------------------------- MODULE Exec --------------------------------
(***************************************************************************)
(* exec, kernel/exec.c, and sys_exec: the arguments are copied to pages of *)
(* the kernel, a new page table is built from the segments of the program  *)
(* and a stack, and only then does it replace the old one.  A program is   *)
(* a magic number and its headers; a header has what the file holds for it *)
(* in bytes, which is less than filesz says if the file is too short.      *)
(***************************************************************************)
EXTENDS UserMemory

(* The end of sys_exec when exec has failed, with what exec has built      *)
Bad(m, p, sz) ==
  With(IF job[p].root = 0 THEN m ELSE ProcFreepagetable(m, job[p].root, sz), LAMBDA m1 :
    KfreeAll(m1, ToSet(job[p].argv)))

ExecCall(p, prog, call) ==
  /\ InUser(p) /\ MayCall(p, "exec")
  /\ job' = [job EXCEPT ![p] = [NoJob EXCEPT !.pc = "args", !.prog = prog, !.uargv = call.uargv,
                                             !.todo = call.strings]]
  /\ UNCHANGED <<ram, proc, image>>

(* fetchaddr of the next pointer, which takes one byte here                *)
Fetchaddr(p) ==
  LET addr == job[p].uargv + Len(job[p].argv)
  IN  addr < proc[p].sz /\ addr + 1 <= proc[p].sz /\ Len(Copyin(ram, proc[p].root, addr, 1)) = 1

(* There is another pointer to look at in the loop over argv.              *)
Argument(p) == Len(job[p].argv) < MAXARG /\ Fetchaddr(p)

(* fetchstr of the string it points to                                     *)
Fetchstr(p) == Copyinstr(ram, proc[p].root, Head(job[p].todo), PGSIZE)

CopyArg(p) ==
  /\ In(p, "args") /\ Argument(p)
  /\ job[p].todo # <<>> /\ ram.free # {} /\ Fetchstr(p).ok
  /\ ram' = Kalloc(ram, Junk)
  /\ job' = [job EXCEPT ![p].argv = Append(@, Fresh(ram)), ![p].args = Append(@, Fetchstr(p).s),
                        ![p].todo = Tail(@)]
  /\ UNCHANGED <<proc, image>>

ArgsFail(p) ==
  /\ In(p, "args")
  /\ Argument(p) => job[p].todo # <<>> /\ (ram.free = {} \/ ~Fetchstr(p).ok)
  /\ ram' = Bad(ram, p, 0)
  /\ Return(p)
  /\ UNCHANGED <<proc, image>>

(* exec reads the header and makes a page table.                           *)
ExecBegin(p) ==
  /\ In(p, "args") /\ Argument(p)
  /\ job[p].todo = <<>>
  /\ \E r \in {ProcPagetable(ram, proc[p].trapframe)} :
         IF ~Programs[job[p].prog].magic THEN ram' = Bad(ram, p, 0) /\ Return(p)
         ELSE IF r.root = 0 THEN ram' = Bad(r.m, p, 0) /\ Return(p)
         ELSE ram' = r.m /\ job' = [job EXCEPT ![p].pc = "segs", ![p].root = r.root, ![p].seg = 1]
  /\ UNCHANGED <<proc, image>>

-----------------------------------------------------------------------------
(* The loop over the program headers *)

Segment(p) == Programs[job[p].prog].segs[job[p].seg]
MoreSegs(p) == In(p, "segs") /\ job[p].seg <= Len(Programs[job[p].prog].segs)

SkipSeg(p) ==
  /\ MoreSegs(p) /\ Segment(p).type # "load"
  /\ job' = [job EXCEPT ![p].seg = @ + 1]
  /\ UNCHANGED <<ram, proc, image>>

Malformed(s) == \/ s.memsz < s.filesz
                \/ (s.vaddr + s.memsz) % WORD < s.vaddr
                \/ s.vaddr % PGSIZE # 0

BadSeg(p) ==
  /\ MoreSegs(p) /\ Segment(p).type = "load" /\ Malformed(Segment(p))
  /\ ram' = Bad(ram, p, job[p].sz)
  /\ Return(p)
  /\ UNCHANGED <<proc, image>>

(* uvmalloc up to the end of the segment, or nothing if that is below sz.  *)
BeginSeg(p) ==
  /\ MoreSegs(p) /\ Segment(p).type = "load" /\ ~Malformed(Segment(p))
  /\ LET start == PGROUNDUP(job[p].sz)
         end == Segment(p).vaddr + Segment(p).memsz
     IN  job' = [job EXCEPT ![p].pc = "seg", ![p].a = start, ![p].start = start,
                            ![p].new = IF end < job[p].sz THEN job[p].sz ELSE end, ![p].perm = Segment(p).perm]
  /\ UNCHANGED <<ram, proc, image>>

ExecFails(p) ==
  /\ In(p, "seg") \/ In(p, "stack")
  /\ job[p].a < job[p].new
  /\ \E t \in {Turn(p)} : ~t.ok /\ ram' = Bad(t.m, p, job[p].sz)
  /\ Return(p)
  /\ UNCHANGED <<proc, image>>

(* loadseg: a page that is not there is a panic.                           *)
Loadseg(m, root, s) ==
  [Copyout(m, root, s.vaddr, s.bytes) EXCEPT !.bad = @ \/ Reach(m, root, s.vaddr, Len(s.bytes)) < Len(s.bytes)]

(* uvmalloc has returned: 0 is an error to exec, and so is a file that is  *)
(* too short.                                                              *)
EndSeg(p) ==
  /\ In(p, "seg") /\ job[p].a >= job[p].new
  /\ IF job[p].new = 0 THEN ram' = Bad(ram, p, 0) /\ Return(p)
     ELSE IF Len(Segment(p).bytes) < Segment(p).filesz
     THEN /\ \E m \in {Loadseg(ram, job[p].root, Segment(p))} : ram' = Bad(m, p, job[p].new)
          /\ Return(p)
     ELSE /\ ram' = Loadseg(ram, job[p].root, Segment(p))
          /\ job' = [job EXCEPT ![p].pc = "segs", ![p].sz = job[p].new, ![p].seg = @ + 1]
  /\ UNCHANGED <<proc, image>>

-----------------------------------------------------------------------------
(* The stack *)

BeginStack(p) ==
  /\ In(p, "segs") /\ job[p].seg > Len(Programs[job[p].prog].segs)
  /\ LET sz == PGROUNDUP(job[p].sz)
     IN  job' = [job EXCEPT ![p].pc = "stack", ![p].sz = sz, ![p].a = sz, ![p].start = sz,
                            ![p].new = sz + 2 * PGSIZE, ![p].perm = {"W"}]
  /\ UNCHANGED <<ram, proc, image>>

Aligned(sp) == sp - (sp % ALIGN)

(* What goes onto a stack that ends at top: the strings, and below them    *)
(* the array of pointers to them.                                          *)
Pushed(args, top) ==
  LET push(acc, s) == Append(acc, [sp |-> Aligned(Last(acc).sp - Len(s)), bytes |-> s])
      strings == FoldLeft(push, <<[sp |-> top, bytes |-> <<>>]>>, [i \in DOMAIN args |-> args[i] \o <<"0">>])
  IN  push(strings, [i \in DOMAIN args |-> "p"] \o <<"0">>)

(* Seeded fault: the guard page stays accessible.                          *)
GuardOpen(m, p) == m

Guard(m, p) == Uvmclear(m, job[p].root, (job[p].new \div PGSIZE) - 2)

(* The image of the new program: a page has the permissions of the first   *)
(* segment that reaches it, and each byte is the last one loaded, or 0.    *)
ExecImage(prog, args) ==
  LET load == SelectSeq(prog.segs, LAMBDA s : s.type = "load")
      reach(i) == Pages(load[i].vaddr + load[i].memsz)
      top == Max({0} \cup {reach(i) : i \in DOMAIN load})
      perm(k) == load[Min({i \in DOMAIN load : reach(i) >= k})].perm \cup {"R", "U"}
      zero == [k \in 1 .. top |-> PageOf(perm(k), Zeroes)]
              \o <<PageOf({"R", "W"}, Zeroes), PageOf({"R", "W", "U"}, Zeroes)>>
      stack == Pushed(args, (top + 2) * PGSIZE)
  IN  FoldLeft(LAMBDA img, s : Written(img, s.sp, s.bytes),
               FoldLeft(LAMBDA img, s : Written(img, s.vaddr, s.bytes), zero, load),
               stack)

(* The arguments are pushed, and the new image takes the place of the old. *)
Commit(p) ==
  /\ In(p, "stack") /\ job[p].a >= job[p].new
  /\ \E m \in {Guard(ram, p)}, pushes \in {Pushed(job[p].args, job[p].new)} :
       IF \E s \in ToSet(pushes) : s.sp < job[p].new - PGSIZE
       THEN ram' = Bad(m, p, job[p].new) /\ UNCHANGED <<proc, image>>
       ELSE /\ \E m1 \in {FoldLeft(LAMBDA acc, s : Copyout(acc, job[p].root, s.sp, s.bytes), m, pushes)} :
               \E m2 \in {ProcFreepagetable(m1, proc[p].root, proc[p].sz)} :
                 ram' = KfreeAll(m2, ToSet(job[p].argv))
            /\ proc' = [proc EXCEPT ![p].root = job[p].root, ![p].sz = job[p].new]
            /\ image' = [image EXCEPT ![p] = ExecImage(Programs[job[p].prog], job[p].args)]
  /\ Return(p)

Next ==
  \E p \in Proc :
    \/ \E va \in Stores : Store(p, va) \/ ReadInto(p, va)
    \/ \E n \in Increments : SbrkGrow(p, n) \/ SbrkShrink(p, n)
    \/ Uvmalloc(p) \/ GrowFails(p) \/ GrowDone(p)
    \/ Fork(p) \/ Uvmcopy(p) \/ ForkFails(p) \/ ForkDone(p) \/ Exit(p)
    \/ \E prog \in DOMAIN Programs, call \in Argvs : ExecCall(p, prog, call)
    \/ CopyArg(p) \/ ArgsFail(p) \/ ExecBegin(p)
    \/ SkipSeg(p) \/ BadSeg(p) \/ BeginSeg(p) \/ EndSeg(p) \/ ExecFails(p)
    \/ BeginStack(p) \/ Commit(p)

Spec == Init /\ [][Next]_vars

-----------------------------------------------------------------------------
(* Properties *)

(* The page tables: those of processes, and those that exec builds.        *)
Roots == ({proc[p].root : p \in Proc} \cup {job[p].root : p \in Proc}) \ {0}

(* The uses of pages: the entries of page tables for tables and for user   *)
(* memory, the tables at the top, trapframes and copies of arguments.      *)
Entries(t) == {i \in Index : ram.mem[t][i].pa # 0}
Uses(r) ==
  LET mids == {[at |-> <<2, r, i>>, pa |-> ram.mem[r][i].pa] : i \in Entries(r)}
      leaves == UNION {{[at |-> <<1, u.pa, i>>, pa |-> ram.mem[u.pa][i].pa] : i \in Entries(u.pa)} : u \in mids}
      user == {[at |-> <<0, r, k>>, pa |-> Pte(ram, r, k).pa] : k \in {k \in 0 .. TRAPFRAME - 1 : Pte(ram, r, k).pa # 0}}
  IN  {[at |-> <<3, r, 0>>, pa |-> r]} \cup mids \cup leaves \cup user
AllUses ==
  UNION {Uses(r) : r \in Roots}
  \cup {[at |-> <<4, p, 0>>, pa |-> proc[p].trapframe] : p \in {p \in Proc : proc[p].trapframe # 0}}
  \cup UNION {{[at |-> <<5, p, i>>, pa |-> job[p].argv[i]] : i \in DOMAIN job[p].argv} : p \in Proc}

(* No page is lost and none is used twice: whatever call fails and         *)
(* wherever, each page is free or has one use.  And none of the kernel's   *)
(* checks on page tables fails.                                            *)
PagesOwned ==
  /\ ~ram.bad
  /\ {u.pa : u \in AllUses} = Page \ ram.free
  /\ Cardinality(AllUses) = NPAGE - Cardinality(ram.free)

(* A process's memory is its own.  Its page table shows exactly the pages  *)
(* up to its size, with the contents and permissions that its own calls    *)
(* gave them: sbrk adds zeroes, fork copies, exec replaces all of it or,   *)
(* when it fails, nothing.  While sbrk adds pages they are above the size. *)
MemoryPrivate ==
  \A p \in Proc : proc[p].state = "used" =>
    /\ image[p] = [k \in 1 .. Pages(proc[p].sz) |->
         LET e == Pte(ram, proc[p].root, k - 1) IN PageOf(e.perm, ram.mem[e.pa])]
    /\ \A k \in Pages(proc[p].sz) .. TRAPFRAME - 1 :
         Pte(ram, proc[p].root, k).pa # 0 => job[p].pc = "grow" /\ k * PGSIZE < job[p].a
=============================================================================
