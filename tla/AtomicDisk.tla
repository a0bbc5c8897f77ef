----------------------------- MODULE AtomicDisk -----------------------------
(***************************************************************************)
(* What log.c promises to the file system: system calls bracketed by       *)
(* begin_op/end_op update blocks that every other call sees at once (the   *)
(* buffer cache), the updates become durable only at a moment when no call *)
(* is in progress, all of them together, and a power failure falls back to *)
(* exactly what was durable.  An interrupted call therefore leaves either  *)
(* all or none of its blocks behind.                                       *)
(***************************************************************************)
CONSTANTS Proc,     \* processes that run file system calls
          Block,    \* home blocks of the file system
          Val       \* block contents

VARIABLES durable,  \* what a restart would find
          view,     \* what running system calls see
          active    \* processes between begin_op and end_op

vars == <<durable, view, active>>

TypeOK ==
  /\ durable \in [Block -> Val]
  /\ view \in [Block -> Val]
  /\ active \subseteq Proc

Init ==
  /\ durable \in [Block -> Val]
  /\ view = durable
  /\ active = {}

Begin(p) ==
  /\ p \notin active
  /\ active' = active \cup {p}
  /\ UNCHANGED <<durable, view>>

Write(p, b, v) ==
  /\ p \in active
  /\ view' = [view EXCEPT ![b] = v]
  /\ UNCHANGED <<durable, active>>

End(p) ==
  /\ p \in active
  /\ active' = active \ {p}
  /\ UNCHANGED <<durable, view>>

Commit ==
  /\ active = {}
  /\ durable' = view
  /\ UNCHANGED <<view, active>>

PowerFail ==
  /\ view' = durable
  /\ active' = {}
  /\ UNCHANGED durable

Next ==
  \/ \E p \in Proc : Begin(p) \/ End(p)
  \/ \E p \in Proc, b \in Block, v \in Val : Write(p, b, v)
  \/ Commit
  \/ PowerFail

Spec == Init /\ [][Next]_vars
=============================================================================
