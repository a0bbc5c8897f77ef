--------------------------- MODULE PageAllocator ----------------------------
(***************************************************************************)
(* The physical page allocator of kernel/PageAllocator.zig, behind         *)
(* kalloc.zig and std.heap.page_allocator: a singly linked list of runs of *)
(* free pages, the header of a run stored in its first page.  A call holds *)
(* the allocator's lock from end to end, so one call runs at a time; each  *)
(* turn of its loops over the list is a step.                              *)
(***************************************************************************)
EXTENDS Integers

CONSTANTS NPages,   \* pages between heap_start and PHYSTOP
          MaxPages, \* largest request, in pages
          Junk      \* header words a caller may leave in a page it frees

Page == 0 .. NPages - 1
Nil == NPages       \* the null pointer
Pointer == Page \cup {Nil}

ASSUME HeapAssumption ==
  NPages \in Nat \ {0} /\ MaxPages \in Nat \ {0} /\ Junk \subseteq Pointer

VARIABLES
  freelist,  \* first run of the list
  next,      \* Run.next, in the memory of each page
  len,       \* Run.len, in the memory of each page
  blocks,    \* pages in the block a caller owns at each address, else 0
  pc,        \* the call in progress
  npages,    \* its size
  target,    \* the block being freed
  it,        \* the run its loop has reached
  prev       \* the run before it (alloc)

list == <<freelist, next, len>>
vars == <<list, blocks, pc, npages, target, it, prev>>

Init ==
  /\ freelist = 0
  /\ next = [p \in Page |-> Nil]
  /\ len = [p \in Page |-> IF p = 0 THEN NPages ELSE 0]
  /\ blocks = [p \in Page |-> 0]
  /\ pc = "idle"
  /\ npages = 0 /\ target = 0 /\ it = Nil /\ prev = Nil

-----------------------------------------------------------------------------
(* lock.release(); the call's locals are gone. *)
Return ==
  pc' = "idle" /\ npages' = 0 /\ target' = 0 /\ it' = Nil /\ prev' = Nil

(* alloc *)

(* alloc: start at the head of the list. *)
Alloc(n) ==
  /\ pc = "idle"
  /\ pc' = "fit" /\ npages' = n
  /\ it' = freelist /\ prev' = Nil
  /\ UNCHANGED <<list, blocks, target>>

(* A run too short: go on to the next. *)
AllocSkip ==
  /\ pc = "fit" /\ it # Nil /\ len[it] < npages
  /\ prev' = it /\ it' = next[it]
  /\ UNCHANGED <<list, blocks, pc, npages, target>>

(* The list is exhausted: return null. *)
AllocFail ==
  /\ pc = "fit" /\ it = Nil
  /\ Return
  /\ UNCHANGED <<list, blocks>>

(* The pages left when a run is split. *)
RestLen == len[it] - npages

(* Unlink the first run that is long enough, or replace it by what is left *)
(* of it behind the pages returned.                                        *)
AllocTake ==
  /\ pc = "fit" /\ it # Nil /\ len[it] >= npages
  /\ LET exact == len[it] = npages
         rest  == IF exact THEN next[it] ELSE it + npages
         next1 == IF exact THEN next ELSE [next EXCEPT ![rest] = next[it]]
     IN  /\ len' = IF exact THEN len ELSE [len EXCEPT ![rest] = RestLen]
         /\ IF prev = Nil
            THEN freelist' = rest /\ next' = next1
            ELSE freelist' = freelist /\ next' = [next1 EXCEPT ![prev] = rest]
  /\ blocks' = [blocks EXCEPT ![it] = npages]
  /\ Return

-----------------------------------------------------------------------------
(* free *)

(* free: the owner of a block returns it, with arbitrary contents (kfree   *)
(* fills it with junk); the search starts only if it is not the new head.  *)
Free(a) ==
  /\ pc = "idle" /\ blocks[a] # 0
  /\ pc' = "find" /\ target' = a /\ npages' = blocks[a]
  /\ len' = [len EXCEPT ![a] = blocks[a]]
  /\ \E j \in Junk : next' = [next EXCEPT ![a] = j]
  /\ it' = IF freelist = Nil \/ a < freelist THEN Nil ELSE freelist
  /\ UNCHANGED <<freelist, blocks, prev>>

(* Seeded fault: the search stops at the first run. *)
PassedNever == FALSE

(* The run after it still lies below target. *)
Passed == next[it] # Nil /\ next[it] <= target

FreeNext ==
  /\ pc = "find" /\ it # Nil /\ Passed
  /\ it' = next[it]
  /\ UNCHANGED <<list, blocks, pc, npages, target, prev>>

(* Seeded fault: no merging with the next run. *)
MergesNextNever(a, n, nx) == FALSE

(* The run of n pages at a ends where the next run begins. *)
MergesNext(a, n, nx) == nx # Nil /\ a + n = nx

(* Insert the block behind it (or at the head) and merge it with the runs  *)
(* on either side that it touches.                                         *)
FreeInsert ==
  /\ pc = "find"
  /\ it # Nil => ~Passed
  /\ LET nx     == IF it = Nil THEN freelist ELSE next[it]
         merged == it # Nil /\ it + len[it] = target
         run    == IF merged THEN it ELSE target
         n      == IF merged THEN len[it] + len[target] ELSE len[target]
         link   == IF it # Nil /\ ~merged
                   THEN [next EXCEPT ![it] = target] ELSE next
     IN  /\ freelist' = IF it = Nil THEN target ELSE freelist
         /\ IF MergesNext(run, n, nx)
            THEN /\ len' = [len EXCEPT ![run] = n + len[nx]]
                 /\ next' = [link EXCEPT ![run] = next[nx]]
            ELSE /\ len' = [len EXCEPT ![run] = n]
                 /\ next' = [link EXCEPT ![run] = nx]
  /\ blocks' = [blocks EXCEPT ![target] = 0]
  /\ Return

Step == AllocSkip \/ AllocFail \/ AllocTake \/ FreeNext \/ FreeInsert

Next ==
  \/ \E n \in 1 .. MaxPages : Alloc(n)
  \/ \E a \in Page : Free(a)
  \/ Step

Spec == Init /\ [][Next]_vars

-----------------------------------------------------------------------------
(* Properties *)

FreePages == {p \in Page : \A a \in Page : p \notin a .. a + blocks[a] - 1}

(* A run of the set F of free pages starts behind a page that is not free. *)
Run(F, a) == a \in F /\ a - 1 \notin F

(* f is the first run at or above x, or null. *)
FirstRun(F, f, x) ==
  /\ f \in Pointer
  /\ f # Nil => f >= x /\ Run(F, f)
  /\ \A a \in Page : Run(F, a) /\ a >= x => f <= a

(* The list at head, with links nx and lengths ln, holds the pages F as    *)
(* maximal runs in address order.                                          *)
ListOf(F, head, nx, ln) ==
  /\ FirstRun(F, head, 0)
  /\ \A p \in F : \E a \in Page : Run(F, a) /\ a <= p /\ p < a + ln[a]
  /\ \A a \in Page : Run(F, a) =>
       /\ a .. a + ln[a] - 1 \subseteq F
       /\ a + ln[a] \notin F
       /\ FirstRun(F, nx[a], a + 1)

TypeOK ==
  /\ freelist \in Pointer
  /\ next \in [Page -> Pointer]
  /\ len \in [Page -> Nat]
  /\ blocks \in [Page -> Nat]
  /\ pc \in {"idle", "fit", "find"}
  /\ npages \in Nat /\ target \in Page
  /\ it \in Pointer /\ prev \in Pointer

(* alloc never hands out a page twice: the blocks that callers own lie in  *)
(* the heap and are pairwise disjoint.                                     *)
NoOverlap ==
  \A a \in Page : /\ a + blocks[a] <= NPages
                  /\ \A b \in Page : a < b /\ blocks[b] # 0 => a + blocks[a] <= b

(* Nothing is lost: the list holds exactly the pages nobody owns, as       *)
(* maximal runs in address order, each node linking to the run above it.   *)
(* A free list that failed to coalesce, leaked a page or lost its order    *)
(* breaks it.                                                              *)
ListExact == ListOf(FreePages, freelist, next, len)

(* alloc returns null only when no npages consecutive pages are free, so a *)
(* failing alloc (kalloc panics on it) is never due to fragmentation that  *)
(* free should have undone.                                                *)
RefusalJustified ==
  pc = "fit" /\ it = Nil =>
    ~\E a \in Page : /\ a + npages <= NPages
                     /\ a .. a + npages - 1 \subseteq FreePages

-----------------------------------------------------------------------------
(* The inductive invariant. *)

(* alloc has passed only runs that are too short, and prev is the last one. *)
Fitting ==
  /\ npages \in Nat \ {0}
  /\ \A a \in Page : Run(FreePages, a) /\ (it = Nil \/ a < it) => len[a] < npages
  /\ it # Nil => Run(FreePages, it)
  /\ IF prev = Nil THEN it = freelist
     ELSE prev < it /\ Run(FreePages, prev) /\ next[prev] = it

(* free looks for the last run below the block, which is still owned.      *)
Finding ==
  /\ blocks[target] # 0 /\ len[target] = blocks[target]
  /\ IF it = Nil THEN freelist = Nil \/ target < freelist
     ELSE it < target /\ Run(FreePages, it)

(* List, owners and the position of the call in progress together are      *)
(* preserved by every turn of the loops of alloc and free.                 *)
ListInv ==
  /\ TypeOK /\ NoOverlap /\ ListExact
  /\ pc = "fit" => Fitting
  /\ pc = "find" => Finding
=============================================================================
