------------------------------ MODULE BufCache ------------------------------
(***************************************************************************)
(* The buffer cache, kernel/bio.c, and the sleep locks of its buffers,     *)
(* kernel/sleeplock.c, on top of the disk driver of module VirtioDisk.  A  *)
(* step is one critical section of bcache.lock or of the spin lock inside  *)
(* a sleep lock, or a step of the driver or of the disk.  Callers change a *)
(* buffer while they hold it and then write it through or, like log_write, *)
(* pin it until the log has installed it.                                  *)
(***************************************************************************)
EXTENDS VirtioDisk

CONSTANTS MaxPins,   \* bound: the log pins no more than MaxPins blocks
          Workloads  \* bound: who may use and who may change which blocks

ASSUME CacheAssumption ==
  /\ MaxPins \in Nat
  /\ Workloads \subseteq [uses : SUBSET (Proc \X Block), changes : SUBSET (Proc \X Block)]

VARIABLES
  blockno, valid, refcnt,  \* struct buf
  lru,                 \* the list from head.next to head.prev
  locked, pid,         \* the sleep lock of each buffer
  pc, buf, want,       \* where each process is, its buffer and its block
  pinned,              \* blocks the log has pinned
  content,             \* what was last put into each block
  panicked,
  load                 \* the workload, one of Workloads

buffers == <<blockno, valid, refcnt, lru>>
sleeplocks == <<locked, pid>>
vars == <<buffers, sleeplocks, pc, buf, want, pinned, content, panicked, load, dvars>>

TypeOK ==
  /\ blockno \in [Buf -> Block \cup {None}]
  /\ valid \in [Buf -> BOOLEAN]
  /\ refcnt \in [Buf -> Nat]
  /\ data \in [Buf -> Value \cup {None}]
  /\ lru \in [Buf -> Buf]
  /\ locked \in [Buf -> BOOLEAN]
  /\ pid \in [Buf -> Proc \cup {None}]
  /\ disk \in [Block -> Value] /\ content \in [Block -> Value]
  /\ pc \in [Proc -> {"out", "lock", "asleep", "reading", "held", "dirty", "writing", "installed", "put"}]
  /\ buf \in [Proc -> Buf \cup {None}] /\ want \in [Proc -> Block \cup {None}]
  /\ pinned \subseteq Block
  /\ panicked \in BOOLEAN

(* binit: each buffer is put in front of the ones before it. *)
Init ==
  /\ blockno = [b \in Buf |-> None]
  /\ valid = [b \in Buf |-> FALSE]
  /\ refcnt = [b \in Buf |-> 0]
  /\ data = [b \in Buf |-> None]
  /\ lru = [k \in Buf |-> NBUF + 1 - k]
  /\ locked = [b \in Buf |-> FALSE]
  /\ pid = [b \in Buf |-> None]
  /\ \E v \in Value : disk = [k \in Block |-> v]
  /\ DiskInit
  /\ content = disk
  /\ pc = [p \in Proc |-> "out"]
  /\ buf = [p \in Proc |-> None]
  /\ want = [p \in Proc |-> None]
  /\ pinned = {}
  /\ panicked = FALSE
  /\ load \in Workloads

Goto(p, where) == pc' = [pc EXCEPT ![p] = where]

-----------------------------------------------------------------------------
(* bread: bget *)

(* Seeded fault: the lookup skips buffers that are still being read. *)
CachedValid(k) == \E b \in Buf : blockno[b] = k /\ valid[b]

Cached(k) == \E b \in Buf : blockno[b] = k

(* b->refcnt++ in bget *)
Counted(b) == [refcnt EXCEPT ![b] = @ + 1]

(* bget, in one hold of bcache.lock: the block is cached, ... *)
Hit(p, k) ==
  /\ pc[p] = "out" /\ ~panicked /\ <<p, k>> \in load.uses
  /\ Cached(k)
  /\ \E b \in Buf :
       /\ blockno[b] = k
       /\ refcnt' = Counted(b)
       /\ buf' = [buf EXCEPT ![p] = b]
  /\ want' = [want EXCEPT ![p] = k]
  /\ Goto(p, "lock")
  /\ UNCHANGED <<blockno, valid, lru, sleeplocks, dvars, pinned, content, panicked>>

(* Seeded fault: the buffer of the least recently used block is taken      *)
(* whether or not it is in use.                                            *)
RecyclableAny(b) == ~locked[b]

Recyclable(b) == refcnt[b] = 0

(* ... or goes to the least recently used buffer that nobody uses; without *)
(* such a buffer the kernel panics, and keeps bcache.lock.                 *)
Miss(p, k) ==
  /\ pc[p] = "out" /\ ~panicked /\ <<p, k>> \in load.uses
  /\ ~Cached(k)
  /\ IF \E b \in Buf : Recyclable(b)
     THEN LET last == CHOOSE n \in Buf : /\ Recyclable(lru[n])
                                         /\ \A m \in Buf : Recyclable(lru[m]) => m <= n
              b == lru[last]
          IN  /\ blockno' = [blockno EXCEPT ![b] = k]
              /\ valid' = [valid EXCEPT ![b] = FALSE]
              /\ refcnt' = [refcnt EXCEPT ![b] = 1]
              /\ buf' = [buf EXCEPT ![p] = b]
              /\ want' = [want EXCEPT ![p] = k]
              /\ Goto(p, "lock")
              /\ UNCHANGED panicked
     ELSE panicked' = TRUE /\ UNCHANGED <<blockno, valid, refcnt, buf, want, pc>>
  /\ UNCHANGED <<lru, sleeplocks, dvars, pinned, content>>

-----------------------------------------------------------------------------
(* acquiresleep, releasesleep *)

(* A turn of the loop: sleep, or take the lock and, if the buffer is not   *)
(* valid, go on in bread with virtio_disk_rw.                              *)
Acquiresleep(p) ==
  /\ pc[p] = "lock"
  /\ IF locked[buf[p]]
     THEN Goto(p, "asleep") /\ UNCHANGED <<sleeplocks, rw>>
     ELSE /\ locked' = [locked EXCEPT ![buf[p]] = TRUE]
          /\ pid' = [pid EXCEPT ![buf[p]] = p]
          /\ IF valid[buf[p]]
             THEN Goto(p, "held") /\ UNCHANGED rw
             ELSE Goto(p, "reading") /\ DiskRw(p, buf[p], blockno[buf[p]], FALSE)
  /\ UNCHANGED <<buffers, data, disk, queue, buf, want, pinned, content, panicked>>

(* kill() makes a sleeping process runnable, here too.                     *)
KillAsleep(p) ==
  /\ pc[p] = "asleep"
  /\ Goto(p, "lock")
  /\ UNCHANGED <<buffers, sleeplocks, dvars, buf, want, pinned, content, panicked>>

(* b->refcnt-- in brelse and bunpin *)
Dropped(b) == [refcnt EXCEPT ![b] = @ - 1]

(* holdingsleep *)
Holding(p) == locked[buf[p]] /\ pid[buf[p]] = p

(* Seeded fault: the waiters are not woken. *)
WokenNone(p, where) == [pc EXCEPT ![p] = where]

(* wakeup(lk), with p going on to where *)
Woken(p, where) ==
  [q \in Proc |-> IF q = p THEN where
                  ELSE IF pc[q] = "asleep" /\ buf[q] = buf[p] THEN "lock" ELSE pc[q]]

(* The first half of brelse: releasesleep *)
Brelse(p) ==
  /\ pc[p] \in {"held", "installed"}
  /\ IF Holding(p)
     THEN /\ locked' = [locked EXCEPT ![buf[p]] = FALSE]
          /\ pid' = [pid EXCEPT ![buf[p]] = None]
          /\ pc' = Woken(p, "put")
          /\ UNCHANGED panicked
     ELSE panicked' = TRUE /\ UNCHANGED <<sleeplocks, pc>>
  /\ UNCHANGED <<buffers, dvars, buf, want, pinned, content>>

(* b is unlinked from the list and put behind the head. *)
MoveToFront(s, b) ==
  LET n == CHOOSE i \in DOMAIN s : s[i] = b
  IN  [i \in DOMAIN s |-> IF i = 1 THEN b ELSE IF i <= n THEN s[i - 1] ELSE s[i]]

(* The second half: drop the reference; a buffer that nobody uses becomes  *)
(* the most recently used.                                                 *)
Put(p) ==
  /\ pc[p] = "put" /\ ~panicked
  /\ refcnt' = Dropped(buf[p])
  /\ lru' = IF refcnt[buf[p]] = 1 THEN MoveToFront(lru, buf[p]) ELSE lru
  /\ Goto(p, "out")
  /\ buf' = [buf EXCEPT ![p] = None]
  /\ want' = [want EXCEPT ![p] = None]
  /\ UNCHANGED <<blockno, valid, sleeplocks, dvars, pinned, content, panicked>>

-----------------------------------------------------------------------------
(* The end of bread, for a buffer that was not valid                       *)
BreadEnd(p) ==
  /\ pc[p] = "reading"
  /\ Finish(p)
  /\ valid' = [valid EXCEPT ![buf[p]] = TRUE]
  /\ Goto(p, "held")
  /\ UNCHANGED <<blockno, refcnt, lru, sleeplocks, buf, want, pinned, content, panicked>>

(* The caller changes the block. *)
Modify(p, v) ==
  /\ pc[p] = "held" /\ <<p, want[p]>> \in load.changes
  /\ data' = [data EXCEPT ![buf[p]] = v]
  /\ content' = [content EXCEPT ![want[p]] = v]
  /\ Goto(p, "dirty")
  /\ UNCHANGED <<buffers, sleeplocks, disk, queue, rw, buf, want, pinned, panicked>>

(* A changed block is written through, or a pinned one to its place.       *)
Bwrite(p) ==
  /\ pc[p] = "dirty" \/ (pc[p] = "held" /\ want[p] \in pinned)
  /\ IF Holding(p)
     THEN /\ DiskRw(p, buf[p], blockno[buf[p]], TRUE)
          /\ Goto(p, "writing")
          /\ UNCHANGED panicked
     ELSE panicked' = TRUE /\ UNCHANGED <<rw, pc>>
  /\ UNCHANGED <<buffers, data, disk, queue, sleeplocks, buf, want, pinned, content>>

BwriteEnd(p) ==
  /\ pc[p] = "writing"
  /\ Finish(p)
  /\ Goto(p, "installed")
  /\ UNCHANGED <<buffers, sleeplocks, buf, want, pinned, content, panicked>>

(* What bpin makes of the reference counts *)
Pins(b) == [refcnt EXCEPT ![b] = @ + 1]

(* log_write pins a block that it has not pinned yet. *)
Bpin(p) ==
  /\ pc[p] = "dirty" /\ ~panicked
  /\ want[p] \in pinned \/ Cardinality(pinned) < MaxPins
  /\ refcnt' = IF want[p] \in pinned THEN refcnt ELSE Pins(buf[p])
  /\ pinned' = pinned \cup {want[p]}
  /\ Goto(p, "held")
  /\ UNCHANGED <<blockno, valid, lru, sleeplocks, dvars, buf, want, content, panicked>>

(* install_trans unpins a block that it has written to its place. *)
Bunpin(p) ==
  /\ pc[p] = "installed" /\ want[p] \in pinned /\ ~panicked
  /\ refcnt' = Dropped(buf[p])
  /\ pinned' = pinned \ {want[p]}
  /\ Goto(p, "held")
  /\ UNCHANGED <<blockno, valid, lru, sleeplocks, dvars, buf, want, content, panicked>>

Step(p) ==
  \/ Acquiresleep(p) \/ KillAsleep(p) \/ Brelse(p) \/ Put(p)
  \/ BreadEnd(p) \/ Bwrite(p) \/ BwriteEnd(p) \/ Bpin(p) \/ Bunpin(p)

Disk == Device \/ \E p \in Proc : Driver(p)

Next ==
  /\ \/ \E p \in Proc : \/ Step(p)
                        \/ \E k \in Block : Hit(p, k) \/ Miss(p, k)
                        \/ \E v \in Value : Modify(p, v)
     \/ Disk /\ UNCHANGED <<buffers, sleeplocks, pc, buf, want, pinned, content, panicked>>
  /\ UNCHANGED load

Spec == Init /\ [][Next]_vars

-----------------------------------------------------------------------------
(* Properties *)

Holds(p) == pc[p] \in {"held", "dirty", "installed"}

(* bread returns the block asked for, with what was last put into it, even *)
(* if that is not on the disk, and nobody else holds it.                   *)
Coherent ==
  \A p \in Proc : Holds(p) =>
    /\ blockno[buf[p]] = want[p] /\ data[buf[p]] = content[want[p]]
    /\ \A q \in Proc : Holds(q) /\ buf[q] = buf[p] => q = p

(* The bookkeeping that this rests on: a block has at most one buffer,     *)
(* though several processes may miss it at once (bget looks and recycles   *)
(* under one hold of bcache.lock); refcnt counts those that use a buffer,  *)
(* wait for it or have pinned it; a block that the log has pinned stays in *)
(* the cache with its contents; and bget panics only if as many processes  *)
(* and pinned blocks use buffers as there are buffers.                     *)
CacheInv ==
  /\ TypeOK
  /\ \A a, b \in Buf : blockno[a] = blockno[b] /\ blockno[a] # None => a = b
  /\ \A b \in Buf :
       refcnt[b] = Cardinality({p \in Proc : buf[p] = b}) + (IF blockno[b] \in pinned THEN 1 ELSE 0)
  /\ \A k \in pinned : \E b \in Buf : blockno[b] = k /\ valid[b] /\ data[b] = content[k]
  /\ panicked => Cardinality({p \in Proc : buf[p] # None}) + Cardinality(pinned) >= NBUF

(* Who sleeps for a buffer sleeps while another process holds it, whose    *)
(* brelse will wake it: the test of the lock and going to sleep are one    *)
(* step under the sleep lock's spin lock.                                  *)
NoLostWakeup ==
  \A p \in Proc : pc[p] = "asleep" =>
    /\ locked[buf[p]]
    /\ \E q \in Proc : pid[buf[p]] = q /\ buf[q] = buf[p] /\ (Holds(q) \/ pc[q] \in {"reading", "writing"})
=============================================================================
