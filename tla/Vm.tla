--------------------------------- MODULE Vm ---------------------------------
(***************************************************************************)
(* Physical pages, kernel/kalloc.c, and page tables, kernel/vm.c, as       *)
(* operators on the memory m: the free pages, what each page holds, and    *)
(* whether a check of the kernel has failed.  A page table is a tree of    *)
(* three levels with FAN entries a page.  Tables are indexed with page     *)
(* numbers; sizes and other addresses are in bytes, PGSIZE to a page.      *)
(***************************************************************************)
EXTENDS Naturals, Sequences, FiniteSets, FiniteSetsExt

CONSTANTS NPAGE, FAN, PGSIZE

ASSUME VmAssumption == NPAGE \in Nat \ {0} /\ FAN \in Nat \ {0, 1} /\ PGSIZE \in Nat \ {0}

(* What Op makes of v: the operators below go from one memory to the next. *)
With(v, Op(_)) == CHOOSE x \in {Op(u) : u \in {v}} : TRUE

Page == 1 .. NPAGE
Index == 0 .. FAN - 1
Trampoline == NPAGE + 1     \* the page of trampoline.S, part of the kernel
MAXVA == FAN * FAN * FAN
TRAMPOLINE == MAXVA - 1
TRAPFRAME == TRAMPOLINE - 1

(* A valid entry has a page; one for a table has no permissions.           *)
NoPte == [pa |-> 0, perm |-> {}]
ZeroTable == [i \in Index |-> NoPte]
Filled(x) == [i \in 0 .. PGSIZE - 1 |-> x]
Zeroes == Filled("0")
Junk == Filled("junk")

PGROUNDUP(sz) == ((sz + PGSIZE - 1) \div PGSIZE) * PGSIZE
Pages(sz) == PGROUNDUP(sz) \div PGSIZE

-----------------------------------------------------------------------------
(* kalloc.c.  Which of the free pages is taken makes no difference: the    *)
(* list is a set, and the first page is the lowest.                        *)

Kinit == [free |-> Page, mem |-> [pa \in Page |-> Junk], bad |-> FALSE]

(* The page that kalloc returns, or 0, and the memory after it, with the   *)
(* page filled by the caller.                                              *)
Fresh(m) == IF m.free = {} THEN 0 ELSE Min(m.free)
Kalloc(m, fill) == IF m.free = {} THEN m
                   ELSE [m EXCEPT !.free = @ \ {Fresh(m)}, !.mem[Fresh(m)] = fill]

(* A page outside of the memory is a panic; one that is free already would *)
(* be on the list twice.                                                   *)
Kfree(m, pa) == IF pa \notin Page THEN [m EXCEPT !.bad = TRUE]
                ELSE [m EXCEPT !.free = @ \cup {pa}, !.mem[pa] = Junk, !.bad = @ \/ pa \in m.free]

KfreeAll(m, pas) == FoldSet(LAMBDA pa, acc : Kfree(acc, pa), m, pas)

-----------------------------------------------------------------------------
(* walk *)

PX(level, va) == CASE level = 2 -> va \div (FAN * FAN)
                   [] level = 1 -> (va \div FAN) % FAN
                   [] level = 0 -> va % FAN

(* The table below t on the way to va, if there is one ...                 *)
Below(m, t, level, va) == IF t = 0 THEN 0 ELSE m.mem[t][PX(level, va)].pa

(* ... which walk adds, when it allocates and memory is left.              *)
AddBelow(m, t, level, va) ==
  IF t = 0 \/ Below(m, t, level, va) # 0 \/ m.free = {} THEN m
  ELSE [Kalloc(m, ZeroTable) EXCEPT !.mem[t][PX(level, va)] = [pa |-> Fresh(m), perm |-> {}]]

(* The table with the entry for va, and the memory after walk(.., 1)       *)
Leaf(m, root, va) == Below(m, Below(m, root, 2, va), 1, va)
Walk(m, root, va) == With(AddBelow(m, root, 2, va), LAMBDA m1 :
                       AddBelow(m1, Below(m1, root, 2, va), 1, va))

Pte(m, root, va) == LET t == Leaf(m, root, va) IN IF t = 0 THEN NoPte ELSE m.mem[t][PX(0, va)]

(* mappages of one page.  It has failed if there still is no entry.        *)
Mappages(m, root, va, pa, perm) ==
  With(Walk(m, root, va), LAMBDA w :
    IF Leaf(w, root, va) = 0 THEN w
    ELSE [w EXCEPT !.mem[Leaf(w, root, va)][PX(0, va)] = [pa |-> pa, perm |-> perm],
                   !.bad = @ \/ va >= MAXVA \/ Pte(w, root, va).pa # 0])

Mapped(m, root, va) == Leaf(m, root, va) # 0

Unmap(m, root, va, dofree) ==
  LET e == Pte(m, root, va)
  IN  IF e.pa = 0 \/ e.perm = {} THEN [m EXCEPT !.bad = TRUE]
      ELSE [(IF dofree THEN Kfree(m, e.pa) ELSE m) EXCEPT !.mem[Leaf(m, root, va)][PX(0, va)] = NoPte]

(* uvmunmap of the pages from first on, up to the page last.               *)
Uvmunmap(m, root, first, last, dofree) ==
  FoldSet(LAMBDA va, acc : Unmap(acc, root, va, dofree), m, first .. last - 1)

(* freewalk, of the tables of each level                                   *)
Children(m, t) == {m.mem[t][i].pa : i \in Index} \ {0}
FreewalkLeaf(m, t) == IF Children(m, t) # {} THEN [m EXCEPT !.bad = TRUE] ELSE Kfree(m, t)
FreewalkMid(m, t) == Kfree(FoldSet(LAMBDA c, acc : FreewalkLeaf(acc, c), m, Children(m, t)), t)
Freewalk(m, root) == Kfree(FoldSet(LAMBDA c, acc : FreewalkMid(acc, c), m, Children(m, root)), root)

Uvmfree(m, root, sz) == With(Uvmunmap(m, root, 0, Pages(sz), TRUE), LAMBDA m1 : Freewalk(m1, root))

-----------------------------------------------------------------------------
(* Seeded fault: the pages that a failed uvmalloc has got are kept.        *)
UvmdeallocNot(m, root, oldsz, newsz) == m

Uvmdealloc(m, root, oldsz, newsz) ==
  IF newsz >= oldsz THEN m ELSE Uvmunmap(m, root, Pages(newsz), Pages(oldsz), TRUE)

(* A turn of uvmalloc's loop for the page at a; start is the size rounded  *)
(* up, to which it goes back when memory runs out.                         *)
UvmallocTurn(m, root, a, start, perm) ==
  IF m.free = {} THEN [m |-> Uvmdealloc(m, root, a, start), ok |-> FALSE]
  ELSE With(Kalloc(m, Zeroes), LAMBDA m1 :
       With(Mappages(m1, root, a \div PGSIZE, Fresh(m), perm \cup {"R", "U"}), LAMBDA m2 :
         IF Mapped(m2, root, a \div PGSIZE) THEN [m |-> m2, ok |-> TRUE]
         ELSE With(Kfree(m2, Fresh(m)), LAMBDA m3 :
                [m |-> Uvmdealloc(m3, root, a, start), ok |-> FALSE])))

(* A turn of uvmcopy's loop for the page i.                                *)
UvmcopyTurn(m, old, new, i) ==
  With(Pte(m, old, i), LAMBDA e :
    IF e.pa = 0 THEN [m |-> [m EXCEPT !.bad = TRUE], ok |-> TRUE]
    ELSE IF m.free = {} THEN [m |-> Uvmunmap(m, new, 0, i, TRUE), ok |-> FALSE]
    ELSE With(Kalloc(m, m.mem[e.pa]), LAMBDA m1 :
         With(Mappages(m1, new, i, Fresh(m), e.perm), LAMBDA m2 :
           IF Mapped(m2, new, i) THEN [m |-> m2, ok |-> TRUE]
           ELSE With(Kfree(m2, Fresh(m)), LAMBDA m3 :
                  [m |-> Uvmunmap(m3, new, 0, i, TRUE), ok |-> FALSE]))))

(* uvmclear *)
Uvmclear(m, root, va) ==
  IF ~Mapped(m, root, va) THEN [m EXCEPT !.bad = TRUE]
  ELSE [m EXCEPT !.mem[Leaf(m, root, va)][PX(0, va)].perm = @ \ {"U"}]

-----------------------------------------------------------------------------
(* proc_pagetable and proc_freepagetable *)

(* proc_pagetable takes back all that it has got when a page is missing.   *)
ProcPagetable(m, trapframe) ==
  IF m.free = {} THEN [m |-> m, root |-> 0]
  ELSE With(Fresh(m), LAMBDA root :
       With(Kalloc(m, ZeroTable), LAMBDA m1 :
       With(Mappages(m1, root, TRAMPOLINE, Trampoline, {"R", "X"}), LAMBDA m2 :
         IF ~Mapped(m2, root, TRAMPOLINE) THEN [m |-> Uvmfree(m2, root, 0), root |-> 0]
         ELSE With(Mappages(m2, root, TRAPFRAME, trapframe, {"R", "W"}), LAMBDA m3 :
                IF Mapped(m3, root, TRAPFRAME) THEN [m |-> m3, root |-> root]
                ELSE With(Unmap(m3, root, TRAMPOLINE, FALSE), LAMBDA m4 :
                       [m |-> Uvmfree(m4, root, 0), root |-> 0])))))

ProcFreepagetable(m, root, sz) ==
  With(Unmap(m, root, TRAMPOLINE, FALSE), LAMBDA m1 :
  With(Unmap(m1, root, TRAPFRAME, FALSE), LAMBDA m2 : Uvmfree(m2, root, sz)))

-----------------------------------------------------------------------------
(* Copies between the kernel and a user's memory *)

Walkaddr(m, root, va) ==
  LET e == Pte(m, root, va \div PGSIZE)
  IN  IF va >= MAXVA * PGSIZE \/ "U" \notin e.perm THEN 0 ELSE e.pa

(* How many of the n bytes from va on copyout and copyin reach before the  *)
(* first page that they may not use                                        *)
Reach(m, root, va, n) ==
  CHOOSE k \in 0 .. n : /\ \A i \in 0 .. k - 1 : Walkaddr(m, root, va + i) # 0
                        /\ k = n \/ Walkaddr(m, root, va + k) = 0

Byte(m, root, va) == m.mem[Walkaddr(m, root, va)][va % PGSIZE]

Copyout(m, root, va, s) ==
  FoldSet(LAMBDA i, acc : [acc EXCEPT !.mem[Walkaddr(m, root, va + i - 1)][(va + i - 1) % PGSIZE] = s[i]],
          m, 1 .. Reach(m, root, va, Len(s)))

Copyin(m, root, va, n) == [i \in 1 .. Reach(m, root, va, n) |-> Byte(m, root, va + i - 1)]

(* The string at va, without its end, if that comes among the first max    *)
(* bytes and can be read.                                                  *)
Copyinstr(m, root, va, max) ==
  LET s == Copyin(m, root, va, max)
      ends == {i \in 1 .. Len(s) : s[i] = "0"}
  IN  IF ends = {} THEN [ok |-> FALSE, s |-> <<>>]
      ELSE [ok |-> TRUE, s |-> SubSeq(s, 1, Min(ends) - 1)]
=============================================================================
