-------------------------------- MODULE Log ---------------------------------
(***************************************************************************)
(* The redo log of kernel/log.c, with the parts of the buffer cache it     *)
(* leans on (a cached copy per block, its pin count and its sleep lock)    *)
(* and the disk.  Processes run file system calls between begin_op and     *)
(* end_op; the last one out commits; the machine may lose power at any     *)
(* step, also while it recovers, and a data block that was being written   *)
(* then may be left torn (the 1024-byte block is two sectors; the header's *)
(* 124 bytes lie in one).                                                  *)
(***************************************************************************)
EXTENDS Naturals, Sequences, FiniteSets

CONSTANTS Proc,         \* processes
          Block,        \* home block numbers
          Val,          \* block contents
          Torn,         \* contents of a half-written block
          None,         \* no process / not cached
          MAXOPBLOCKS,  \* blocks begin_op reserves for a call
          LOGSIZE,      \* capacity begin_op and logheader.block[] assume
          NLog,         \* sb.nlog: log blocks on disk, the header included
          OpBlocks,     \* log_write calls one system call really makes
          CanCrash      \* whether power failures happen

ASSUME ConstantsAssumption ==
  /\ IsFiniteSet(Proc)
  /\ MAXOPBLOCKS \in Nat \ {0}
  /\ LOGSIZE \in Nat /\ MAXOPBLOCKS <= LOGSIZE
  /\ NLog \in Nat \ {0}
  /\ OpBlocks \in 0..MAXOPBLOCKS
  /\ Torn \notin Val /\ None \notin Val /\ None # Torn /\ None \notin Proc
  /\ CanCrash \in BOOLEAN

VARIABLES
  outstanding,  \* log.outstanding
  committing,   \* log.committing
  lh,           \* log.lh: its first n block numbers
  cache,        \* buffer of each home block, None when not cached
  pin,          \* references that bpin holds on that buffer
  holder,       \* process that holds the buffer's sleep lock, or None
  pc,           \* where each process is
  writes,       \* log_write calls made so far by each process's call
  phase,        \* step of commit() or recover_from_log(), "none" outside
  tail,         \* loop index of write_log and install_trans
  disk,         \* home blocks on disk
  logblk,       \* log data blocks on disk
  hdr,          \* header block on disk
  panicked      \* panic() was called: the kernel stops

memory == <<outstanding, committing, lh, cache, pin, holder>>
media  == <<disk, logblk, hdr>>
vars == <<memory, pc, writes, phase, tail, media, panicked>>

PC == {"idle", "begin", "sleep", "op", "modified", "commit"}
Slot == 1 .. LOGSIZE
Phase == {"none", "write_log", "write_head", "install", "erase",
          "finish", "read_head", "recover", "recover_erase"}
Recovering == phase \in {"read_head", "recover", "recover_erase"}

InLog(b, h) == \E i \in DOMAIN h : h[i] = b

TypeOK ==
  /\ outstanding \in Nat
  /\ committing \in BOOLEAN
  /\ lh \in Seq(Block) /\ Len(lh) <= LOGSIZE
  /\ cache \in [Block -> Val \cup {None}]
  /\ pin \in [Block -> Nat]
  /\ holder \in [Block -> Proc \cup {None}]
  /\ pc \in [Proc -> PC]
  /\ writes \in [Proc -> Nat]
  /\ phase \in Phase
  /\ tail \in Nat
  /\ disk \in [Block -> Val \cup {Torn}]
  /\ logblk \in [Slot -> Val \cup {Torn}]
  /\ hdr \in Seq(Block) /\ Len(hdr) <= LOGSIZE
  /\ panicked \in BOOLEAN

(* A file system made by mkfs, before the kernel first runs fsinit. *)
Init ==
  /\ outstanding = 0
  /\ committing = FALSE
  /\ lh = <<>>
  /\ cache = [b \in Block |-> None]
  /\ pin = [b \in Block |-> 0]
  /\ holder = [b \in Block |-> None]
  /\ pc = [p \in Proc |-> "idle"]
  /\ writes = [p \in Proc |-> 0]
  /\ phase = "read_head"
  /\ tail = 1
  /\ disk \in [Block -> Val]
  /\ logblk = [i \in Slot |-> Torn]
  /\ hdr = <<>>
  /\ panicked = FALSE

Running == ~panicked /\ ~Recovering

-----------------------------------------------------------------------------
(* The buffer cache, as log.c uses it. *)

(* bread: the cached copy when there is one, else what the disk holds. *)
Bread(b) == IF cache[b] # None THEN cache[b] ELSE disk[b]

(* bget may recycle a buffer nobody references (refcnt 0). *)
Evict(b) ==
  /\ ~panicked
  /\ cache[b] # None /\ pin[b] = 0 /\ holder[b] = None
  /\ cache' = [cache EXCEPT ![b] = None]
  /\ UNCHANGED <<outstanding, committing, lh, pin, holder, pc, writes, phase,
                 tail, media, panicked>>

(* Seeded fault: the wakeup is forgotten. *)
WakeupForgotten == pc

(* wakeup(&log) *)
Wakeup == [p \in Proc |-> IF pc[p] = "sleep" THEN "begin" ELSE pc[p]]

-----------------------------------------------------------------------------
(* Seeded fault: reservations of calls in progress are not counted. *)
MustWaitUnreserved == committing \/ Len(lh) + MAXOPBLOCKS > LOGSIZE

(* begin_op: the test of its loop, made under log.lock. *)
MustWait ==
  \/ committing
  \/ Len(lh) + (outstanding + 1) * MAXOPBLOCKS > LOGSIZE

BeginOp(p) ==
  /\ Running
  /\ pc[p] \in {"idle", "begin"}
  /\ \/ /\ MustWait
        /\ pc' = [pc EXCEPT ![p] = "sleep"]
        /\ UNCHANGED <<outstanding, writes>>
     \/ /\ ~MustWait
        /\ outstanding' = outstanding + 1
        /\ pc' = [pc EXCEPT ![p] = "op"]
        /\ writes' = [writes EXCEPT ![p] = 0]
  /\ UNCHANGED <<committing, lh, cache, pin, holder, phase, tail, media,
                 panicked>>

(* bp = bread(...); modify bp->data[] *)
Modify(p, b, v) ==
  /\ Running
  /\ pc[p] = "op" /\ writes[p] < OpBlocks
  /\ holder[b] = None
  /\ holder' = [holder EXCEPT ![b] = p]
  /\ cache' = [cache EXCEPT ![b] = v]
  /\ pc' = [pc EXCEPT ![p] = "modified"]
  /\ UNCHANGED <<outstanding, committing, lh, pin, writes, phase, tail, media,
                 panicked>>

(* log_write(bp); brelse(bp) *)
LogWrite(p, b) ==
  /\ Running
  /\ pc[p] = "modified" /\ holder[b] = p
  /\ IF Len(lh) >= LOGSIZE \/ Len(lh) >= NLog - 1 \/ outstanding < 1
     THEN /\ panicked' = TRUE
          /\ UNCHANGED <<lh, pin, holder, pc, writes>>
     ELSE /\ IF InLog(b, lh)
             THEN UNCHANGED <<lh, pin>>
             ELSE /\ lh' = Append(lh, b)
                  /\ pin' = [pin EXCEPT ![b] = @ + 1]
          /\ holder' = [holder EXCEPT ![b] = None]
          /\ pc' = [pc EXCEPT ![p] = "op"]
          /\ writes' = [writes EXCEPT ![p] = @ + 1]
          /\ UNCHANGED panicked
  /\ UNCHANGED <<outstanding, committing, cache, phase, tail, media>>

(* Seeded faults: the header is written before the log blocks; nothing is  *)
(* written at all.                                                         *)
FirstPhaseHeaderFirst == IF lh = <<>> THEN "finish" ELSE "write_head"
FirstPhaseSkip == "finish"

(* commit() has nothing to do when no block was logged. *)
FirstPhase == IF lh = <<>> THEN "finish" ELSE "write_log"

(* end_op, up to the release of log.lock *)
EndOp(p) ==
  /\ Running
  /\ pc[p] = "op"
  /\ outstanding' = outstanding - 1
  /\ IF committing
     THEN /\ panicked' = TRUE
          /\ UNCHANGED <<committing, pc, phase, tail>>
     ELSE /\ IF outstanding = 1
             THEN /\ committing' = TRUE
                  /\ phase' = FirstPhase
                  /\ tail' = 1
                  /\ pc' = [pc EXCEPT ![p] = "commit"]
             ELSE /\ pc' = [Wakeup EXCEPT ![p] = "idle"]
                  /\ UNCHANGED <<committing, phase, tail>>
          /\ UNCHANGED panicked
  /\ UNCHANGED <<lh, cache, pin, holder, writes, media>>

-----------------------------------------------------------------------------
(* commit(), run by the process that made outstanding zero, without        *)
(* log.lock: every disk write is a step of its own.                        *)

(* The end of a turn of a loop over log.lh.block[]. *)
Advance(next) ==
  IF tail = Len(lh)
  THEN phase' = next /\ tail' = 1
  ELSE phase' = phase /\ tail' = tail + 1

(* One turn of write_log's loop: bread(from), copy, bwrite(to). *)
WriteLog ==
  /\ Running /\ phase = "write_log"
  /\ LET b == lh[tail] IN
       /\ holder[b] = None
       /\ cache' = [cache EXCEPT ![b] = Bread(b)]
       /\ logblk' = [logblk EXCEPT ![tail] = Bread(b)]
  /\ Advance("write_head")
  /\ UNCHANGED <<outstanding, committing, lh, pin, holder, pc, writes, disk,
                 hdr, panicked>>

(* write_head with n > 0: the transaction commits. *)
WriteHead ==
  /\ Running /\ phase = "write_head"
  /\ hdr' = lh
  /\ phase' = "install"
  /\ UNCHANGED <<memory, pc, writes, tail, disk, logblk, panicked>>

(* Seeded fault: install_trans unpins when recovering and not otherwise. *)
UnpinInverted(b) ==
  IF Recovering /\ pin[b] > 0 THEN [pin EXCEPT ![b] = @ - 1] ELSE pin

(* bunpin(dbuf), unless recovering. *)
Unpin(b) == IF Recovering THEN pin ELSE [pin EXCEPT ![b] = @ - 1]

(* One turn of install_trans's loop: copy log block to its home buffer,    *)
(* write that buffer and, when not recovering, unpin it.                   *)
Install(next) ==
  LET b == lh[tail] IN
    /\ holder[b] = None
    /\ cache' = [cache EXCEPT ![b] = logblk[tail]]
    /\ disk' = [disk EXCEPT ![b] = logblk[tail]]
    /\ pin' = Unpin(b)
    /\ Advance(next)

InstallTrans ==
  /\ Running /\ phase = "install"
  /\ Install("erase")
  /\ UNCHANGED <<outstanding, committing, lh, holder, pc, writes, logblk, hdr,
                 panicked>>

(* log.lh.n = 0; write_head(): erase the transaction from the log. *)
Erase ==
  /\ Running /\ phase = "erase"
  /\ lh' = <<>>
  /\ hdr' = <<>>
  /\ phase' = "finish"
  /\ UNCHANGED <<outstanding, committing, cache, pin, holder, pc, writes, tail,
                 disk, logblk, panicked>>

(* The end of end_op: committing = 0; wakeup(&log). *)
CommitDone(p) ==
  /\ Running /\ phase = "finish" /\ pc[p] = "commit"
  /\ committing' = FALSE
  /\ phase' = "none"
  /\ pc' = [Wakeup EXCEPT ![p] = "idle"]
  /\ UNCHANGED <<outstanding, lh, cache, pin, holder, writes, tail, media,
                 panicked>>

-----------------------------------------------------------------------------
(* recover_from_log, run by the first process before any system call. *)

ReadHead ==
  /\ phase = "read_head"
  /\ lh' = hdr
  /\ phase' = IF hdr = <<>> THEN "recover_erase" ELSE "recover"
  /\ tail' = 1
  /\ UNCHANGED <<outstanding, committing, cache, pin, holder, pc, writes,
                 media, panicked>>

RecoverTrans ==
  /\ phase = "recover"
  /\ Install("recover_erase")
  /\ UNCHANGED <<outstanding, committing, lh, holder, pc, writes, logblk, hdr,
                 panicked>>

RecoverErase ==
  /\ phase = "recover_erase"
  /\ lh' = <<>>
  /\ hdr' = <<>>
  /\ phase' = "none"
  /\ UNCHANGED <<outstanding, committing, cache, pin, holder, pc, writes, tail,
                 disk, logblk, panicked>>

(* Power failure: memory is lost, the block being written may be torn. *)
Crash ==
  /\ CanCrash
  /\ \/ UNCHANGED <<disk, logblk>>
     \/ /\ phase = "write_log"
        /\ logblk' = [logblk EXCEPT ![tail] = Torn]
        /\ UNCHANGED disk
     \/ /\ phase \in {"install", "recover"}
        /\ disk' = [disk EXCEPT ![lh[tail]] = Torn]
        /\ UNCHANGED logblk
  /\ outstanding' = 0
  /\ committing' = FALSE
  /\ lh' = <<>>
  /\ cache' = [b \in Block |-> None]
  /\ pin' = [b \in Block |-> 0]
  /\ holder' = [b \in Block |-> None]
  /\ pc' = [p \in Proc |-> "idle"]
  /\ writes' = [p \in Proc |-> 0]
  /\ phase' = "read_head"
  /\ tail' = 1
  /\ panicked' = FALSE
  /\ UNCHANGED hdr

CommitStep == WriteLog \/ WriteHead \/ InstallTrans \/ Erase
Recovery == ReadHead \/ RecoverTrans \/ RecoverErase

Next ==
  \/ \E p \in Proc : BeginOp(p) \/ EndOp(p) \/ CommitDone(p)
  \/ \E p \in Proc, b \in Block, v \in Val : Modify(p, b, v)
  \/ \E p \in Proc, b \in Block : LogWrite(p, b)
  \/ \E b \in Block : Evict(b)
  \/ CommitStep
  \/ Recovery
  \/ Crash

Spec == Init /\ [][Next]_vars

(* A process inside a system call, or woken in begin_op, keeps running (the *)
(* scheduler is round robin); nobody has to start a system call.            *)
Fairness ==
  /\ WF_vars(CommitStep) /\ WF_vars(Recovery)
  /\ \A p \in Proc :
       /\ WF_vars(EndOp(p)) /\ WF_vars(CommitDone(p))
       /\ WF_vars(\E b \in Block : LogWrite(p, b))
       /\ WF_vars(pc[p] = "begin" /\ BeginOp(p))

FairSpec == Spec /\ Fairness

-----------------------------------------------------------------------------
(* The abstract state: what a restart would find, what system calls see.   *)

Recovered ==
  [b \in Block |-> IF InLog(b, hdr)
                   THEN logblk[CHOOSE i \in DOMAIN hdr : hdr[i] = b]
                   ELSE disk[b]]

View == IF Recovering THEN Recovered ELSE [b \in Block |-> Bread(b)]

Active == {p \in Proc : pc[p] \in {"op", "modified"}}

Atomic == INSTANCE AtomicDisk
            WITH durable <- Recovered, view <- View, active <- Active

(* The log implements the atomic disk: whatever the interleaving of calls, *)
(* evictions, disk writes and power failures, recovery finds all or none   *)
(* of the updates of a group of system calls (log.c: write_head is "the    *)
(* true point at which the current transaction commits").                  *)
RefinesAtomicDisk == Atomic!Spec

(* When no call is in progress and no commit is running, everything calls  *)
(* have written is durable: the end_op that made outstanding zero returned *)
(* only after its commit (or found nothing to write).                      *)
QuiescentDurable ==
  ~Recovering /\ ~committing /\ outstanding = 0 => Recovered = View

(* Blocks of log.lh that a commit still has to install. *)
Pending ==
  LET first == IF phase = "install" THEN tail
               ELSE IF phase = "erase" \/ Recovering THEN Len(lh) + 1
               ELSE 1
  IN  {lh[i] : i \in first .. Len(lh)}

(* A buffer is pinned exactly once while the log still has to write it, and *)
(* never after: the cache cannot evict an unlogged update, and commits do  *)
(* not leak buffers, one of the NBUF at a time.                            *)
PinsMatchLog == \A b \in Block : pin[b] = IF b \in Pending THEN 1 ELSE 0

(* A process asleep in begin_op is always waiting for someone: a call in   *)
(* progress or a commit, whose end_op will wake it.                        *)
SleepersHaveWaker ==
  (\E p \in Proc : pc[p] = "sleep") => outstanding > 0 \/ committing

(* Calls that share the log never overfill it, since begin_op reserves     *)
(* MAXOPBLOCKS for each: neither panic of log_write nor the one of end_op  *)
(* is reached, as long as a call leaves one block of its reservation       *)
(* unused.  Calls that use all of it do reach the panic, since log.size    *)
(* counts the header and the reservation does not.                         *)
NoPanic == ~panicked

(* wakeup(&log) reaches every process that sleeps in begin_op, and a       *)
(* system call that got past begin_op returns from end_op, the one that    *)
(* has to commit included.                                                 *)
CallReturns ==
  \A p \in Proc :
    /\ pc[p] = "sleep" ~> pc[p] # "sleep"
    /\ pc[p] \in {"op", "modified", "commit"} ~> pc[p] = "idle"
-----------------------------------------------------------------------------
(* The inductive invariant behind the refinement. *)

(* Who can be where: commits and recovery run alone, a buffer is held only *)
(* across a log_write, and outstanding counts the calls in progress.       *)
Control ==
  /\ outstanding = Cardinality(Active)
  /\ committing <=>
       phase \in {"write_log", "write_head", "install", "erase", "finish"}
  /\ committing => Active = {}
  /\ Recovering => \A p \in Proc : pc[p] = "idle"
  /\ \A p \in Proc : pc[p] = "commit" => committing
  /\ \A p, q \in Proc : pc[p] = "commit" /\ pc[q] = "commit" => p = q
  /\ \A p \in Proc : pc[p] = "modified" => writes[p] < OpBlocks
  /\ \A b \in Block : holder[b] # None => pc[holder[b]] = "modified"
  /\ \A b, c \in Block : holder[b] = holder[c] /\ holder[b] # None => b = c

(* What is in the two headers at each phase. *)
Headers ==
  /\ \A i, j \in DOMAIN lh : lh[i] = lh[j] => i = j
  /\ \A i, j \in DOMAIN hdr : hdr[i] = hdr[j] => i = j
  /\ phase \in {"none", "write_log", "write_head", "finish"} => hdr = <<>>
  /\ phase \in {"install", "erase", "recover", "recover_erase"} => hdr = lh
  /\ phase \in {"write_log", "write_head", "install", "erase", "recover"} =>
       lh # <<>>
  /\ phase \in {"write_log", "install", "recover"} => tail \in DOMAIN lh
  /\ phase = "write_head" => tail = 1
  /\ phase \in {"finish", "read_head"} => lh = <<>>
  /\ phase = "none" /\ outstanding = 0 => lh = <<>>

(* How far the copying into the log, and back home, has got. *)
Copies ==
  /\ \A i \in DOMAIN hdr : logblk[i] \in Val
  /\ \A b \in Block : disk[b] = Torn => InLog(b, hdr)
  /\ phase = "write_log" => \A i \in 1 .. tail - 1 : logblk[i] = cache[lh[i]]
  /\ phase \in {"write_head", "install"} =>
       \A i \in DOMAIN lh : logblk[i] = Bread(lh[i])
  /\ phase \in {"install", "recover"} =>
       \A i \in 1 .. tail - 1 : disk[lh[i]] = logblk[i]
  /\ phase \in {"erase", "recover_erase"} =>
       \A i \in DOMAIN lh : disk[lh[i]] = logblk[i]

(* A cached block that is neither pending in the log nor being modified    *)
(* equals its home on disk, and what must not be lost is cached.           *)
Coherent ==
  /\ phase = "read_head" => \A b \in Block : cache[b] = None
  /\ \A b \in Pending : cache[b] # None
  /\ \A b \in Block : holder[b] # None => cache[b] # None
  /\ \A b \in Block :
       cache[b] # None /\ holder[b] = None /\ b \notin Pending =>
         cache[b] = disk[b]

(* Control, headers, copies and cache together are preserved by every step *)
(* of log.c, which is what the refinement rests on.                        *)
LogInv == TypeOK /\ Control /\ Headers /\ Copies /\ Coherent /\ PinsMatchLog
=============================================================================
