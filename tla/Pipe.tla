-------------------------------- MODULE Pipe --------------------------------
(***************************************************************************)
(* kernel/pipe.c: a pipe whose ends several processes share.  Each turn of *)
(* the loops of pipewrite and piperead, made with pi->lock held, is a step. *)
(* sleep and wakeup are as module Proc shows them: sleeping and releasing  *)
(* the lock is one step.                                                   *)
(***************************************************************************)
EXTENDS Naturals, Sequences, FiniteSets

CONSTANTS Proc, None, Byte,
          PIPESIZE,
          Wrap,     \* what the counters, 2^32 in the code, wrap at
          Sizes,    \* byte counts that programs pass
          Ends,     \* [Proc -> SUBSET {"r", "w"}]: who starts with which ends
          Faults    \* whether user addresses may be bad, and processes killed

ASSUME PipeAssumption ==
  /\ PIPESIZE \in Nat \ {0}
  /\ Wrap \in Nat /\ Wrap > PIPESIZE /\ Wrap % PIPESIZE = 0
  /\ Sizes \subseteq Nat
  /\ Ends \subseteq [Proc -> SUBSET {"r", "w"}]
  /\ Faults \in BOOLEAN
  /\ None \notin Proc

VARIABLES
  data, nread, nwrite, readopen, writeopen,  \* struct pipe
  lock,      \* who holds pi->lock
  freed,     \* kfree(pi) was called
  ends,      \* the ends each process has open: the references of the files
  pc, left,  \* where each process is, and bytes left of its call
  killed

pipe == <<data, nread, nwrite>>
open == <<readopen, writeopen>>
vars == <<pipe, open, lock, freed, ends, pc, left, killed>>

TypeOK ==
  /\ data \in [0 .. PIPESIZE - 1 -> Byte \cup {None}]
  /\ nread \in 0 .. Wrap - 1 /\ nwrite \in 0 .. Wrap - 1
  /\ readopen \in BOOLEAN /\ writeopen \in BOOLEAN /\ freed \in BOOLEAN
  /\ lock \in Proc \cup {None}
  /\ ends \in [Proc -> SUBSET {"r", "w"}]
  /\ pc \in [Proc -> {"out", "wwant", "write", "wasleep", "rwant", "read", "rasleep",
                      "copy", "rclose", "wclose"}]
  /\ left \in [Proc -> Nat]
  /\ killed \in [Proc -> BOOLEAN]

(* pipealloc, and the forks that shared the ends out *)
Init ==
  /\ data = [k \in 0 .. PIPESIZE - 1 |-> None]
  /\ nread = 0 /\ nwrite = 0
  /\ readopen = TRUE /\ writeopen = TRUE
  /\ lock = None /\ freed = FALSE
  /\ ends \in Ends
  /\ pc = [p \in Proc |-> "out"]
  /\ left = [p \in Proc |-> 0]
  /\ killed = [p \in Proc |-> FALSE]

Empty == nread = nwrite

(* Seeded fault: the sum is not cut to the width of the counters. *)
FullWide == nwrite = nread + PIPESIZE

Full == nwrite = (nread + PIPESIZE) % Wrap

Inc(n) == (n + 1) % Wrap

(* Process p goes to where, after wakeup of those asleep at from. *)
GotoWaking(p, where, from, to) ==
  pc' = [q \in Proc |-> IF q = p THEN where ELSE IF pc[q] = from THEN to ELSE pc[q]]

Goto(p, where) == pc' = [pc EXCEPT ![p] = where]

(* wakeup(&pi->nread) and wakeup(&pi->nwrite) on the way to where *)
WakingReaders(p, where) == GotoWaking(p, where, "rasleep", "rwant")
WakingWriters(p, where) == GotoWaking(p, where, "wasleep", "wwant")

-----------------------------------------------------------------------------
(* The process calls write or read. *)
Call(p, end, n) ==
  /\ pc[p] = "out" /\ end \in ends[p] /\ ~killed[p]
  /\ Goto(p, IF end = "w" THEN "wwant" ELSE "rwant")
  /\ left' = [left EXCEPT ![p] = n]
  /\ UNCHANGED <<pipe, open, lock, freed, ends, killed>>

(* acquire(&pi->lock), at the start or at the end of sleep *)
Acquire(p) ==
  /\ pc[p] \in {"wwant", "rwant"} /\ lock = None
  /\ lock' = p
  /\ Goto(p, IF pc[p] = "wwant" THEN "write" ELSE "read")
  /\ UNCHANGED <<pipe, open, freed, ends, left, killed>>

Return(p) == lock' = None /\ left' = [left EXCEPT ![p] = 0]

-----------------------------------------------------------------------------
(* pipewrite *)

(* if(pi->readopen == 0 || killed(pr)) return -1 *)
WriteFail(p) ==
  /\ pc[p] = "write" /\ left[p] > 0 /\ (~readopen \/ killed[p])
  /\ Goto(p, "out") /\ Return(p)
  /\ UNCHANGED <<pipe, open, freed, ends, killed>>

WriteSleep(p) ==
  /\ pc[p] = "write" /\ left[p] > 0 /\ readopen /\ ~killed[p] /\ Full
  /\ WakingReaders(p, "wasleep")
  /\ lock' = None
  /\ UNCHANGED <<pipe, open, freed, ends, left, killed>>

WriteByte(p) ==
  /\ pc[p] = "write" /\ left[p] > 0 /\ readopen /\ ~killed[p] /\ ~Full
  /\ \E b \in Byte : data' = [data EXCEPT ![nwrite % PIPESIZE] = b]
  /\ nwrite' = Inc(nwrite)
  /\ left' = [left EXCEPT ![p] = @ - 1]
  /\ UNCHANGED <<nread, open, lock, freed, ends, pc, killed>>

(* Seeded fault: the readers are not woken. *)
WriteEndSilently(p) ==
  /\ pc[p] = "write"
  /\ left[p] = 0 \/ (Faults /\ readopen /\ ~killed[p] /\ ~Full)
  /\ Goto(p, "out") /\ Return(p)
  /\ UNCHANGED <<pipe, open, freed, ends, killed>>

(* All is written, or copyin failed. *)
WriteEnd(p) ==
  /\ pc[p] = "write"
  /\ left[p] = 0 \/ (Faults /\ readopen /\ ~killed[p] /\ ~Full)
  /\ WakingReaders(p, "out") /\ Return(p)
  /\ UNCHANGED <<pipe, open, freed, ends, killed>>

-----------------------------------------------------------------------------
(* piperead *)

MustWait == Empty /\ writeopen

(* The turn of the loop that waits for bytes. *)
Read(p) ==
  /\ pc[p] = "read"
  /\ IF ~MustWait THEN Goto(p, "copy") /\ UNCHANGED <<lock, left>>
     ELSE IF killed[p] THEN Goto(p, "out") /\ Return(p)
     ELSE Goto(p, "rasleep") /\ lock' = None /\ UNCHANGED left
  /\ UNCHANGED <<pipe, open, freed, ends, killed>>

Copyable(p) == left[p] > 0 /\ ~Empty

(* One byte to the user.  When copyout fails the byte is gone and the call *)
(* ends.                                                                   *)
CopyByte(p) ==
  /\ pc[p] = "copy" /\ Copyable(p)
  /\ nread' = Inc(nread)
  /\ \/ left' = [left EXCEPT ![p] = @ - 1]
     \/ Faults /\ left' = [left EXCEPT ![p] = 0]
  /\ UNCHANGED <<data, nwrite, open, lock, freed, ends, pc, killed>>

(* Seeded fault: the writers are not woken. *)
ReadEndSilently(p) ==
  /\ pc[p] = "copy" /\ ~Copyable(p)
  /\ Goto(p, "out") /\ Return(p)
  /\ UNCHANGED <<pipe, open, freed, ends, killed>>

ReadEnd(p) ==
  /\ pc[p] = "copy" /\ ~Copyable(p)
  /\ WakingWriters(p, "out") /\ Return(p)
  /\ UNCHANGED <<pipe, open, freed, ends, killed>>

-----------------------------------------------------------------------------
(* Seeded fault: any close of an end closes the pipe's end. *)
LastAlways(p, end) == TRUE

(* fileclose: the reference is the last one to this end. *)
Last(p, end) == \A q \in Proc \ {p} : end \notin ends[q]

(* close(), or exit() of a process *)
Close(p, end) ==
  /\ pc[p] = "out" /\ end \in ends[p]
  /\ ends' = [ends EXCEPT ![p] = @ \ {end}]
  /\ Goto(p, IF ~Last(p, end) THEN "out" ELSE IF end = "w" THEN "wclose" ELSE "rclose")
  /\ UNCHANGED <<pipe, open, lock, freed, left, killed>>

(* pipeclose; the struct goes with the second end. *)
PipeClose(p) ==
  /\ lock = None
  /\ \/ /\ pc[p] = "wclose"
        /\ writeopen' = FALSE /\ UNCHANGED readopen
        /\ WakingReaders(p, "out")
     \/ /\ pc[p] = "rclose"
        /\ readopen' = FALSE /\ UNCHANGED writeopen
        /\ WakingWriters(p, "out")
  /\ freed' = (~readopen' /\ ~writeopen')
  /\ UNCHANGED <<pipe, lock, ends, left, killed>>

(* kill(): another process marks p and gets it out of its sleep. *)
Kill(p) ==
  /\ Faults /\ ~killed[p]
  /\ killed' = [killed EXCEPT ![p] = TRUE]
  /\ Goto(p, CASE pc[p] = "rasleep" -> "rwant" [] pc[p] = "wasleep" -> "wwant"
               [] OTHER -> pc[p])
  /\ UNCHANGED <<pipe, open, lock, freed, ends, left>>

Step(p) ==
  \/ Acquire(p)
  \/ WriteFail(p) \/ WriteSleep(p) \/ WriteByte(p) \/ WriteEnd(p)
  \/ Read(p) \/ CopyByte(p) \/ ReadEnd(p)
  \/ PipeClose(p)

(* What the program of p does next. *)
Program(p) == \E end \in {"r", "w"} : Close(p, end) \/ \E n \in Sizes : Call(p, end, n)

Next == \E p \in Proc : Step(p) \/ Program(p) \/ Kill(p)

Spec == Init /\ [][Next]_vars

(* Calls go on, a process that spins for the lock gets it in the end, and  *)
(* programs go on using or closing their ends, with buffers that are not   *)
(* all bad.                                                                *)
FairSpec ==
  Spec /\ \A p \in Proc :
    SF_vars(Step(p)) /\ SF_vars(WriteByte(p)) /\ WF_vars(Program(p))

-----------------------------------------------------------------------------
(* Properties *)

Count == (nwrite + Wrap - nread) % Wrap

(* The ring holds what was written and not yet read, in order, also when   *)
(* the counters wrap and whoever shares the ends.                          *)
Stream == INSTANCE ByteStream WITH
  Capacity <- PIPESIZE,
  queue <- [k \in 1 .. Count |-> data[(nread + k - 1) % PIPESIZE]]

IsStream == Stream!Spec

(* Nobody sleeps over what it waits for: when nobody is in the pipe, a     *)
(* sleeping reader has nothing to read and may still get something, a      *)
(* sleeping writer has no room and may still get some.  The one exception: *)
(* pipewrite returns -1 to a killed writer without a wakeup, and may leave *)
(* bytes behind that a sleeping reader is not told of.                     *)
NoLostWakeup ==
  lock = None => \A p \in Proc :
    /\ pc[p] = "rasleep" => writeopen /\ (Empty \/ \E q \in Proc : killed[q])
    /\ pc[p] = "wasleep" => readopen /\ Full

(* The struct is freed once, and nobody uses it then: who is in a call has *)
(* the end open, and so has not closed it.                                 *)
NoUseAfterFree == freed => \A p \in Proc : pc[p] = "out" /\ ends[p] = {}

(* Each end is one process's, and no process has both. *)
OneEach ==
  \A p, q \in Proc : ends[p] # {"r", "w"} /\ (p # q => ends[p] \cap ends[q] = {})

(* A reader and a writer do not get stuck on each other, even if the other *)
(* is killed: as long as they keep using or close their ends, every call   *)
(* returns.  (Of two writers one may always find the pipe filled by the    *)
(* other, and who has both ends may wait for itself.)                      *)
CallsReturn == \A p \in Proc : pc[p] # "out" /\ OneEach ~> pc[p] = "out"
=============================================================================
