----------------------------- MODULE ProcProofs -----------------------------
(***************************************************************************)
(* The steps of Proc that work on two processes (fork, reparent, wakeup,   *)
(* kill, wait), and the theorems about the process table.                  *)
(***************************************************************************)
EXTENDS ProcSteps

USE ZenonT(60) DEF Runs, At, Goto, Unlocked, Lock, Unlock, table, locks, sched, local

(* allocproc() finds a free slot for fork(), or none. *)
LEMMA AllocprocStep ==
  ASSUME ProcInv, NEW c \in CPU, NEW p \in Slot, Allocproc(c, p)
  PROVE ProcInv'
<1> USE NoneIs DEF Conjuncts
<1> Conjuncts  BY ProcInvIs
<1> SUFFICES Conjuncts'  BY ProcInvIs
<1>0. pc[p] = "fork" /\ current[c] = p /\ stack[c] = "proc" /\ state[p] = "running" /\ i[p] \in Nat
  BY ProcAssumption, SMTT(60) DEF Allocproc, Cpus, TypeOK
<1>1. CASE i[p] > NPROC \/ state[i[p]] # "unused"
  <2>1. PICK w \in {"fork", "ret"} : pc' = [pc EXCEPT ![p] = w]
    BY <1>0, <1>1, SMTT(60) DEF Allocproc, TypeOK
  <2>2. /\ UNCHANGED <<table, locks, sched, j, arg, back>>
        /\ i' \in [Slot -> 1 .. NPROC + 1] /\ \A q \in Slot \ {p} : i'[q] = i[q]
    BY <1>1, ProcAssumption, SMTT(60) DEF Allocproc, TypeOK
  <2>3. TypeOK' /\ w \in Label
    BY <2>1, <2>2 DEF TypeOK, Label
  <2>4. Where(p)' = w /\ \A q \in Slot \ {p} : Where(q)' = Where(q)
    BY <2>1, <2>2 DEF Where, TypeOK
  <2>5. Move(c, p, w)
    BY <1>0, <2>1, <2>2, <2>4 DEF Move, Switched, Locking, Birth, Places, Place, TypeOK
  <2>6. w \notin Switched \cup Locking \cup {"copy", "dead"}
    BY DEF Switched, Locking
  <2>7. Pids'
    BY <1>0, <2>1, <2>2, PidsKept
  <2>8. Kills'
    BY <2>2, <2>4, KillsKept DEF Kills
  <2> QED  BY <1>0, <2>3, <2>5, <2>6, <2>7, <2>8, QuietStep
<1>2. CASE i[p] <= NPROC /\ state[i[p]] = "unused"
  <2>1. PICK n \in Slot : n = i[p]
    BY <1>2, SlotIs, Indices
  <2>2. /\ n # p /\ n # InitProc /\ pc[n] \in {"new", "dead"} /\ back[n] = "user" /\ lock[n] = None
        /\ state[n] = "unused" /\ pid[n] = 0
        /\ \A q \in Slot : parent[q] # n /\ (Where(q) \in Birth => arg[q] # n)
        /\ \A d \in CPU : current[d] # n
    <3>1. lock[n] = None /\ state[n] = "unused" /\ pid[n] = 0 /\ pc[n] \in {"new", "dead"} /\ back[n] = "user"
      BY <1>0, <1>2, <2>1, ProcAssumption, SMTT(60) DEF Allocproc, Pids, Places, Place
    <3>2. state[n] # "used" /\ state[n] # "running" /\ state[n] \notin Live
      BY <3>1 DEF Live
    <3>3. \A q \in Slot : Where(q) \in Birth => arg[q] # n
      BY <3>2, BirthIs
    <3>4. n # InitProc /\ \A q \in Slot : parent[q] # n
      BY <3>2 DEF Parents
    <3>5. \A d \in CPU : current[d] # n
      BY <3>1 DEF Cpus
    <3> QED  BY <1>0, <3>1, <3>3, <3>4, <3>5
  <2>3. /\ lock' = [lock EXCEPT ![n] = c]
        /\ pid' = [pid EXCEPT ![n] = nextpid] /\ nextpid' = nextpid + 1
        /\ state' = [state EXCEPT ![n] = "used"]
        /\ arg' = [arg EXCEPT ![p] = n]
        /\ pc' = [pc EXCEPT ![p] = "copy"]
        /\ UNCHANGED <<chan, killed, parent, waitLock, current, stack, at, i, j, back>>
    BY <1>2, <2>1, ProcAssumption, SMTT(60) DEF Allocproc, Allocpid, TypeOK
  <2>5. TypeOK'
    <3>1. nextpid \in Nat /\ nextpid + 1 \in Nat \ {0} /\ n \in Nat  BY SlotIs, SMTT(60) DEF TypeOK
    <3> QED  BY <2>3, <3>1 DEF TypeOK, Label
  <2>6. Cpus' /\ Places'
    BY <1>0, <2>2, <2>3, SMTT(60) DEF Cpus, Places, Place, TypeOK
  <2>7. Locks'
    BY <1>0, <2>2, <2>3, SMTT(60) DEF Locks, Holds, HoldsWait, Cpus, TypeOK, Switched, Locking
  <2>8. Where(p)' = "copy" /\ \A q \in Slot \ {p} : Where(q)' = Where(q)
    BY <2>3 DEF Where, TypeOK
  <2>9. Births'
    BY <1>0, <2>2, <2>3, <2>8, SMTT(60) DEF Births, TypeOK, Birth
  <2>10. Parents' /\ Exits'
    BY <1>0, <2>2, <2>3, SMTT(60) DEF Parents, Exits, Given, TypeOK, Live
  <2>11. Woke' /\ Told'
    BY <1>0, <2>2, <2>3, SMTT(60) DEF Woke, Heard, Told, Wakes, TypeOK
  <2>12. Pids'
    BY <2>2, <2>3, SMTT(60) DEF Pids, TypeOK
  <2>13. Kills'
    BY <2>2, <2>3, <2>8, KillsKept DEF Kills, TypeOK
  <2> QED  BY <2>5, <2>6, <2>7, <2>9, <2>10, <2>11, <2>12, <2>13
<1> QED  BY <1>0, <1>1, <1>2, ProcAssumption, SMTT(60)

(* The slot that a fork is filling is known to that fork alone: it is not  *)
(* init, runs nowhere and is nobody's parent.                              *)
LEMMA ChildIs ==
  ASSUME ProcInv, NEW p \in Slot, Where(p) \in Birth
  PROVE /\ arg[p] \in Slot \ {p, InitProc} /\ state[arg[p]] = "used"
        /\ pc[arg[p]] \in {"new", "dead"} /\ back[arg[p]] = "user"
        /\ Where(arg[p]) \in {"new", "dead"}
        /\ \A q \in Slot : parent[q] # arg[p]
        /\ \A d \in CPU : current[d] # arg[p]
        /\ \A q \in Slot \ {p} : Where(q) \in Birth => arg[q] # arg[p]
<1> USE NoneIs DEF Conjuncts
<1> Conjuncts  BY ProcInvIs
<1>1. arg[p] \in Slot /\ state[arg[p]] = "used" /\ \A q \in Slot \ {p} : Where(q) \in Birth => arg[q] # arg[p]
  BY DEF Births
<1>2. pc[arg[p]] \in {"new", "dead"} /\ back[arg[p]] = "user"
  BY <1>1 DEF Places, Place
<1>3. Where(arg[p]) \in {"new", "dead"} /\ arg[p] # p
  BY <1>2 DEF Where, Birth
<1>4. arg[p] # InitProc /\ (\A q \in Slot : parent[q] # arg[p]) /\ \A d \in CPU : current[d] # arg[p]
  BY <1>1 DEF Parents, Live, Cpus
<1> QED  BY <1>1, <1>2, <1>3, <1>4

(* fork() copies the parent into the child and releases the child's lock. *)
LEMMA ForkCopyStep ==
  ASSUME ProcInv, NEW c \in CPU, NEW p \in Slot, ForkCopy(c, p)
  PROVE ProcInv'
<1> USE NoneIs DEF Conjuncts
<1> Conjuncts  BY ProcInvIs
<1> SUFFICES Conjuncts'  BY ProcInvIs
<1>1. pc[p] = "copy" /\ Where(p) = "copy" /\ "copy" \in Birth /\ current[c] = p /\ stack[c] = "proc" /\ state[p] = "running"
  BY DEF ForkCopy, Where, Birth, Cpus, TypeOK
<1>2. PICK n \in Slot : n = arg[p]
  BY <1>1, ChildIs
<1>3. /\ n \notin {p, InitProc} /\ state[n] = "used" /\ pc[n] \in {"new", "dead"} /\ back[n] = "user"
      /\ Where(n) \in {"new", "dead"}
      /\ \A d \in CPU : current[d] # n
      /\ \A q \in Slot \ {p} : Where(q) \in Birth => arg[q] # n
  BY <1>1, <1>2, ChildIs, SMTT(60)
<1>4. /\ lock' = [lock EXCEPT ![n] = None]
      /\ pc' = [pc EXCEPT ![p] = "adopt", ![n] = "new"]
      /\ UNCHANGED <<table, waitLock, sched, local>>
  BY <1>2 DEF ForkCopy
<1>5. pc'[p] = "adopt" /\ pc'[n] = "new" /\ \A q \in Slot \ {p, n} : pc'[q] = pc[q]
  BY <1>3, <1>4 DEF TypeOK
<1>6. TypeOK' /\ Cpus' /\ Places'
  BY <1>1, <1>3, <1>4, <1>5, SMTT(60) DEF TypeOK, Label, Cpus, Places, Place
<1>7. Locks'
  <2>1. lock[n] = c /\ lock'[n] = None /\ \A q \in Slot \ {n} : lock'[q] = lock[q] /\ lock[q] # c
    BY <1>1, <1>2, <1>4, SMTT(60) DEF Locks, Holds, TypeOK, Switched
  <2>2. \A d \in CPU \ {c} : /\ HoldsWait(d)' <=> HoldsWait(d)
                             /\ \A q \in Slot : Holds(d, q)' <=> Holds(d, q)
    BY <1>1, <1>3, <1>4, <1>5, SMTT(60) DEF HoldsWait, Holds, TypeOK, Cpus
  <2>3. ~HoldsWait(c)' /\ ~HoldsWait(c) /\ \A q \in Slot : ~Holds(c, q)'
    BY <1>1, <1>4, <1>5 DEF HoldsWait, Holds, Switched, Locking
  <2> QED  BY <1>4, <2>1, <2>2, <2>3, SMTT(60) DEF Locks
<1>8. /\ \A q \in Slot \ {p, n} : Where(q)' = Where(q)
      /\ Where(p)' = "adopt" /\ Where(n)' = "new"
  BY <1>4, <1>5 DEF Where
<1>9. Births'
  <2>1. ASSUME NEW q \in Slot \ {p}, Where(q)' \in Birth
        PROVE  Where(q)' = Where(q) /\ arg[q] \in Slot \ {p, n} /\ state[arg[q]] = "used"
    <3>1. q # n /\ Where(q)' = Where(q) /\ Where(q) \in Birth
      BY <1>8, <2>1 DEF Birth
    <3> QED  BY <1>1, <1>3, <3>1, BirthIs
  <2>2. ASSUME NEW q \in Slot \ {p}, Where(q)' \in Birth
        PROVE  pc'[arg[q]] = pc[arg[q]] /\ (Where(q) # "copy" => pc[arg[q]] = "new")
               /\ (Where(q) = "ready" => parent[arg[q]] = q)
    BY <1>5, <2>1, <2>2 DEF Births
  <2>3. \A q \in Slot \ {p} : Where(q)' \in Birth =>
          /\ Where(q) \in Birth /\ arg'[q] = arg[q]
          /\ state'[arg[q]] = "used"
          /\ Where(q)' # "copy" => pc'[arg[q]] = "new"
          /\ Where(q)' = "ready" => parent'[arg[q]] = q
    BY <1>4, <2>1, <2>2
  <2>4. Where(p) \in Birth /\ arg'[p] = n /\ arg[p] = n /\ state'[n] = "used" /\ pc'[n] = "new" /\ Where(p)' # "ready"
    BY <1>1, <1>2, <1>3, <1>4, <1>5, <1>8
  <2> QED  BY <2>3, <2>4, BirthsKept
<1>10. Parents' /\ Exits'
  <2>1. Parents'
    BY <1>3, <1>4, <1>5 DEF Parents
  <2>2. ASSUME NEW q \in Slot
        PROVE  Given(q)'
    <3>1. CASE q = p  BY <1>5, <3>1 DEF Given
    <3>2. CASE q = n  BY <1>5, <3>2 DEF Given
    <3>3. CASE q \notin {p, n}
      <4>1. Given(q) /\ pc'[q] = pc[q]
        BY <1>5, <3>3 DEF Exits
      <4> QED  BY <1>4, <4>1 DEF Given
    <3> QED  BY <3>1, <3>2, <3>3
  <2> QED  BY <2>1, <2>2 DEF Exits
<1>11. Woke'
  <2>1. Heard(p)'
    BY <1>5 DEF Heard
  <2>2. \A q \in Slot \ {p, n} : Heard(q) => Heard(q)'
    BY <1>4, <1>5 DEF Heard
  <2> QED  BY <1>3, <1>4, <2>1, <2>2 DEF Woke
<1>12. Told'
  <2>1. \A d \in CPU : Wakes(d) => Wakes(d)'
    BY <1>1, <1>3, <1>4, <1>5, SMTT(60) DEF Wakes, TypeOK
  <2> QED  BY <1>4, <2>1 DEF Told
<1>13. Pids'
  BY <1>3, <1>4, <1>5, PidsKept
<1>14. Kills'
  BY <1>3, <1>4, <1>8, KillsKept DEF Kills
<1> QED  BY <1>6, <1>7, <1>9, <1>10, <1>11, <1>12, <1>13, <1>14

(* An allocation of fork() fails, and freeproc() gives the slot back. *)
LEMMA ForkFailStep ==
  ASSUME Restores, ProcInv, NEW c \in CPU, NEW p \in Slot, ForkFail(c, p)
  PROVE ProcInv'
<1> USE NoneIs DEF Conjuncts
<1> Conjuncts  BY ProcInvIs
<1> SUFFICES Conjuncts'  BY ProcInvIs
<1>1. pc[p] = "copy" /\ Where(p) = "copy" /\ "copy" \in Birth /\ current[c] = p /\ stack[c] = "proc" /\ state[p] = "running"
  BY DEF ForkFail, Where, Birth, Cpus, TypeOK
<1>2. PICK n \in Slot : n = arg[p]
  BY <1>1, ChildIs
<1>3. /\ n \notin {p, InitProc} /\ state[n] = "used" /\ pc[n] \in {"new", "dead"} /\ back[n] = "user"
      /\ \A q \in Slot : parent[q] # n
      /\ \A d \in CPU : current[d] # n
      /\ \A q \in Slot \ {p} : Where(q) \in Birth => arg[q] # n
  BY <1>1, <1>2, ChildIs, SMTT(60)
<1>4. /\ lock' = [lock EXCEPT ![n] = None]
      /\ pc' = [pc EXCEPT ![p] = "ret"]
      /\ state' = [state EXCEPT ![n] = "unused"]
      /\ pid' = [pid EXCEPT ![n] = 0]
      /\ parent' = [parent EXCEPT ![n] = None]
      /\ chan' = [chan EXCEPT ![n] = None]
      /\ killed' = [killed EXCEPT ![n] = FALSE]
      /\ UNCHANGED <<nextpid, waitLock, sched, local>>
  BY <1>2 DEF ForkFail, Freeproc, Restores
<1>5. TypeOK'
  <2>1. killed' \in [Slot -> BOOLEAN]
    BY <1>4 DEF TypeOK
  <2> QED  BY <1>4, <2>1, ProcAssumption DEF TypeOK, Label
<1>6. Cpus' /\ Places'
  BY <1>1, <1>3, <1>4, SMTT(60) DEF TypeOK, Cpus, Places, Place
<1>7. Locks'
  <2>1. lock[n] = c /\ lock'[n] = None /\ \A q \in Slot \ {n} : lock'[q] = lock[q] /\ lock[q] # c
    BY <1>1, <1>2, <1>4, SMTT(60) DEF Locks, Holds, TypeOK, Switched
  <2>2. \A d \in CPU \ {c} : /\ HoldsWait(d)' <=> HoldsWait(d)
                             /\ \A q \in Slot : Holds(d, q)' <=> Holds(d, q)
    BY <1>1, <1>4, SMTT(60) DEF HoldsWait, Holds, TypeOK, Cpus
  <2>3. ~HoldsWait(c)' /\ ~HoldsWait(c) /\ \A q \in Slot : ~Holds(c, q)'
    BY <1>1, <1>4 DEF HoldsWait, Holds, Switched, Locking, TypeOK
  <2> QED  BY <1>4, <2>1, <2>2, <2>3, SMTT(60) DEF Locks
<1>8. Where(p)' = "ret" /\ \A q \in Slot \ {p} : Where(q)' = Where(q)
  BY <1>4 DEF Where, TypeOK
<1>9. Births'
  <2>1. ASSUME NEW q \in Slot, Where(q)' \in Birth
        PROVE  /\ Where(q)' = Where(q) /\ arg[q] \in Slot \ {p, n} /\ state[arg[q]] = "used"
               /\ Where(q) # "copy" => pc[arg[q]] = "new"
               /\ Where(q) = "ready" => parent[arg[q]] = q
    <3>1. q # p /\ Where(q)' = Where(q) /\ Where(q) \in Birth
      BY <1>8, <2>1 DEF Birth
    <3> QED  BY <1>1, <1>3, <3>1, BirthIs
  <2>2. state'[n] = "unused" /\ \A q \in Slot \ {n} : state'[q] = state[q] /\ parent'[q] = parent[q]
    BY <1>4 DEF TypeOK
  <2>3. \A q \in Slot \ {p} : pc'[q] = pc[q]
    BY <1>4 DEF TypeOK
  <2>4. ASSUME NEW q \in Slot, Where(q)' \in Birth
        PROVE  /\ Where(q) \in Birth /\ arg'[q] = arg[q] /\ state'[arg[q]] = "used"
               /\ Where(q)' # "copy" => pc'[arg[q]] = "new"
               /\ Where(q)' = "ready" => parent'[arg[q]] = q
    <3>1. q # p /\ arg'[q] = arg[q]
      BY <1>4, <1>8, <2>4, SMTT(60) DEF Birth
    <3>2. /\ state'[arg[q]] = "used" /\ parent'[arg[q]] = parent[arg[q]]
          /\ pc'[arg[q]] = pc[arg[q]]
      BY <2>1, <2>2, <2>3, <2>4
    <3> QED  BY <2>1, <2>4, <3>1, <3>2
  <2> QED  BY <2>4, BirthsKept
<1>10. Parents'
  BY <1>3, <1>4, SMTT(60) DEF Parents, TypeOK, Live
<1>11. Exits'
  BY <1>3, <1>4, SMTT(60) DEF Exits, Given, TypeOK
<1>12. Woke'
  BY <1>1, <1>3, <1>4, SMTT(60) DEF Woke, Heard, TypeOK
<1>13. Told'
  <2>1. \A d \in CPU : Wakes(d) => Wakes(d)'
    BY <1>1, <1>4 DEF Wakes, TypeOK
  <2> QED  BY <1>3, <1>4, <2>1 DEF Told, TypeOK
<1>14. Pids'
  <2>2. pid'[n] = 0 /\ \A q \in Slot \ {n} : pid'[q] = pid[q] /\ state'[q] = state[q]
    BY <1>4 DEF TypeOK
  <2> QED  BY <1>3, <1>4, <2>2, PidsFreed DEF TypeOK
<1>15. Kills'
  <2>1. ~killed'[n] /\ (\A q \in Slot \ {n} : killed'[q] = killed[q]) /\ \A q \in Slot \ {n} : state'[q] = state[q]
    BY <1>4 DEF TypeOK
  <2>2. UNCHANGED <<arg, stack>>
    BY <1>4
  <2> QED  BY <1>3, <1>8, <2>1, <2>2 DEF Kills
<1> QED  BY <1>5, <1>6, <1>7, <1>9, <1>10, <1>11, <1>12, <1>13, <1>14, <1>15

(* fork() writes the child's parent under wait_lock. *)
LEMMA ForkAdoptStep ==
  ASSUME ProcInv, NEW c \in CPU, NEW p \in Slot, ForkAdopt(c, p)
  PROVE ProcInv'
<1> USE NoneIs DEF Conjuncts
<1> Conjuncts  BY ProcInvIs
<1> SUFFICES Conjuncts'  BY ProcInvIs
<1>1. pc[p] = "adopt" /\ Where(p) = "adopt" /\ "adopt" \in Birth /\ current[c] = p /\ stack[c] = "proc" /\ state[p] = "running"
  BY DEF ForkAdopt, Where, Birth, Cpus, TypeOK
<1>2. PICK n \in Slot : n = arg[p]
  BY <1>1, ChildIs
<1>3. /\ n \notin {p, InitProc} /\ state[n] = "used" /\ pc[n] = "new"
      /\ \A d \in CPU : current[d] # n
      /\ \A q \in Slot \ {p} : Where(q) \in Birth => arg[q] # n
  <2>1. pc[arg[p]] = "new"
    BY <1>1, BirthIs
  <2>2. Where(p) \in Birth
    BY <1>1
  <2>3. arg[p] \in Slot \ {p, InitProc} /\ state[arg[p]] = "used"
    BY <2>2, ChildIs
  <2>4. /\ \A d \in CPU : current[d] # arg[p]
        /\ \A q \in Slot \ {p} : Where(q) \in Birth => arg[q] # arg[p]
    BY <2>2, ChildIs
  <2> QED  BY <1>2, <2>1, <2>3, <2>4
<1>4. /\ parent' = [parent EXCEPT ![n] = p]
      /\ pc' = [pc EXCEPT ![p] = "ready"]
      /\ UNCHANGED <<state, chan, killed, pid, nextpid, locks, sched, local>>
      /\ waitLock = None
  BY <1>2 DEF ForkAdopt
<1>5. parent'[n] = p /\ \A q \in Slot \ {n} : parent'[q] = parent[q]
  BY <1>4 DEF TypeOK
<1>6. pc'[p] = "ready" /\ \A q \in Slot \ {p} : pc'[q] = pc[q]
  BY <1>4 DEF TypeOK
<1>7. TypeOK' /\ Cpus' /\ Places'
  BY <1>1, <1>4, SMTT(60) DEF TypeOK, Label, Cpus, Places, Place
<1>8. Locks'
  <2>1. \A d \in CPU : /\ HoldsWait(d)' <=> HoldsWait(d)
                       /\ \A q \in Slot : Holds(d, q)' <=> Holds(d, q)
    BY <1>1, <1>4, <1>6, SMTT(60) DEF HoldsWait, Holds, TypeOK, Cpus, Switched, Locking
  <2> QED  BY <1>4, <2>1 DEF Locks
<1>9. Where(p)' = "ready" /\ \A q \in Slot \ {p} : Where(q)' = Where(q)
  BY <1>4, <1>6 DEF Where
<1>10. Births'
  <2>1. ASSUME NEW q \in Slot \ {p}, Where(q)' \in Birth
        PROVE  /\ Where(q)' = Where(q) /\ arg[q] \in Slot \ {p, n} /\ state[arg[q]] = "used"
               /\ Where(q) # "copy" => pc[arg[q]] = "new"
               /\ Where(q) = "ready" => parent[arg[q]] = q
    BY <1>1, <1>3, <1>9, <2>1 DEF Births
  <2>2. \A q \in Slot \ {p} : Where(q)' \in Birth =>
          /\ Where(q) \in Birth /\ arg'[q] = arg[q]
          /\ state'[arg[q]] = "used"
          /\ Where(q)' # "copy" => pc'[arg[q]] = "new"
          /\ Where(q)' = "ready" => parent'[arg[q]] = q
    BY <1>4, <1>5, <1>6, <2>1
  <2>3. Where(p) \in Birth /\ arg'[p] = n /\ arg[p] = n /\ state'[n] = "used" /\ pc'[n] = "new" /\ parent'[n] = p
    BY <1>1, <1>2, <1>3, <1>4, <1>5, <1>6
  <2>4. ASSUME NEW q \in Slot, Where(q)' \in Birth
        PROVE  /\ Where(q) \in Birth /\ arg'[q] = arg[q] /\ state'[arg[q]] = "used"
               /\ Where(q)' # "copy" => pc'[arg[q]] = "new"
               /\ Where(q)' = "ready" => parent'[arg[q]] = q
    <3>1. CASE q = p  BY <1>9, <2>3, <3>1
    <3>2. CASE q # p  BY <2>2, <2>4, <3>2
    <3> QED  BY <3>1, <3>2
  <2> QED  BY <2>4, BirthsKept
<1>11. Parents'
  BY <1>1, <1>3, <1>4, <1>5, <1>6, SMTT(60) DEF Parents, TypeOK, Live
<1>12. Exits'
  <2>1. \A q \in Slot \ {p} : Given(q)'
    BY <1>4, <1>5, <1>6, SMTT(60) DEF Exits, Given
  <2>2. Given(p)'
    BY <1>6 DEF Given
  <2> QED  BY <2>1, <2>2 DEF Exits
<1>13. Woke' /\ Told'
  <2>1. \A d \in CPU : ~HoldsWait(d)'
    BY <1>4, <1>8 DEF Locks
  <2>2. \A q \in Slot : pc'[q] \notin Locking => Heard(q)'
    BY DEF Heard, Locking
  <2>3. \A d \in CPU : ~Wakes(d)
    BY <1>4 DEF Locks, HoldsWait, Wakes, Locking
  <2>4. Woke'
    BY <2>1, <2>2 DEF Woke, HoldsWait
  <2>5. Told'
    BY <1>3, <1>4, <1>5, <2>3 DEF Told
  <2> QED  BY <2>4, <2>5
<1>14. Pids'
  BY <1>4, <1>6, PidsKept
<1>15. Kills'
  BY <1>4, <1>9, KillsKept DEF Kills
<1> QED  BY <1>7, <1>8, <1>10, <1>11, <1>12, <1>13, <1>14, <1>15

(* fork() makes the child runnable under the child's lock. *)
LEMMA ForkReadyStep ==
  ASSUME ProcInv, NEW c \in CPU, NEW p \in Slot, ForkReady(c, p)
  PROVE ProcInv'
<1> USE NoneIs DEF Conjuncts
<1> Conjuncts  BY ProcInvIs
<1> SUFFICES Conjuncts'  BY ProcInvIs
<1>1. pc[p] = "ready" /\ Where(p) = "ready" /\ "ready" \in Birth /\ current[c] = p /\ stack[c] = "proc" /\ state[p] = "running"
  BY DEF ForkReady, Where, Birth, Cpus, TypeOK
<1>2. PICK n \in Slot : n = arg[p]
  BY <1>1, ChildIs
<1>3. /\ n \notin {p, InitProc} /\ state[n] = "used" /\ pc[n] = "new" /\ parent[n] = p
      /\ \A d \in CPU : current[d] # n
      /\ \A q \in Slot \ {p} : Where(q) \in Birth => arg[q] # n
  <2>1. pc[arg[p]] = "new" /\ parent[arg[p]] = p
    BY <1>1, BirthIs
  <2>2. Where(p) \in Birth
    BY <1>1
  <2>3. arg[p] \in Slot \ {p, InitProc} /\ state[arg[p]] = "used"
    BY <2>2, ChildIs
  <2>4. /\ \A d \in CPU : current[d] # arg[p]
        /\ \A q \in Slot \ {p} : Where(q) \in Birth => arg[q] # arg[p]
    BY <2>2, ChildIs
  <2> QED  BY <1>2, <2>1, <2>3, <2>4
<1>4. /\ state' = [state EXCEPT ![n] = "runnable"]
      /\ pc' = [pc EXCEPT ![p] = "ret"]
      /\ UNCHANGED <<chan, killed, pid, parent, nextpid, locks, sched, local>>
  BY <1>2 DEF ForkReady
<1>5. state'[n] = "runnable" /\ \A q \in Slot \ {n} : state'[q] = state[q]
  BY <1>4 DEF TypeOK
<1>6. pc'[p] = "ret" /\ \A q \in Slot \ {p} : pc'[q] = pc[q]
  BY <1>4 DEF TypeOK
<1>7. TypeOK'
  BY <1>4 DEF TypeOK, Label
<1>8. Cpus' /\ Places'
  BY <1>1, <1>3, <1>4, <1>5, <1>6, SMTT(60) DEF TypeOK, Cpus, Places, Place, Switched
<1>9. Locks'
  <2>1. \A d \in CPU : /\ HoldsWait(d)' <=> HoldsWait(d)
                       /\ \A q \in Slot : Holds(d, q)' <=> Holds(d, q)
    BY <1>1, <1>4, <1>6, SMTT(60) DEF HoldsWait, Holds, TypeOK, Cpus, Switched, Locking
  <2> QED  BY <1>4, <2>1 DEF Locks
<1>10. Where(p)' = "ret" /\ \A q \in Slot \ {p} : Where(q)' = Where(q)
  BY <1>4, <1>6 DEF Where
<1>11. Births'
  <2>1. ASSUME NEW q \in Slot, Where(q)' \in Birth
        PROVE  /\ q # p /\ Where(q)' = Where(q) /\ arg[q] \in Slot \ {p, n} /\ state[arg[q]] = "used"
               /\ Where(q) # "copy" => pc[arg[q]] = "new"
               /\ Where(q) = "ready" => parent[arg[q]] = q
    BY <1>1, <1>3, <1>10, <2>1 DEF Births, Birth
  <2>2. ASSUME NEW q \in Slot, Where(q)' \in Birth
        PROVE  /\ Where(q) \in Birth /\ arg'[q] = arg[q] /\ state'[arg[q]] = "used"
               /\ Where(q)' # "copy" => pc'[arg[q]] = "new"
               /\ Where(q)' = "ready" => parent'[arg[q]] = q
    BY <1>4, <1>5, <1>6, <2>1, <2>2
  <2> QED  BY <2>2, BirthsKept
<1>12. Parents'
  BY <1>1, <1>3, <1>4, <1>5, <1>6, SMTT(60) DEF Parents, TypeOK, Live
<1>13. Exits'
  BY <1>4, <1>6 DEF Exits, Given
<1>14. Woke'
  <2>1. \A q \in Slot \ {p} : Heard(q) => Heard(q)'
    BY <1>3, <1>4, <1>5, <1>6, SMTT(60) DEF Heard, TypeOK
  <2>2. Heard(p)'
    BY <1>6 DEF Heard
  <2> QED  BY <1>4, <2>1, <2>2 DEF Woke
<1>15. Told'
  <2>1. \A d \in CPU : Wakes(d) => Wakes(d)'
    BY <1>1, <1>4, <1>6, SMTT(60) DEF Wakes, TypeOK
  <2> QED  BY <1>3, <1>4, <1>5, <2>1 DEF Told
<1>16. Pids'
  BY <1>3, <1>4, <1>5, <1>6, PidsKept
<1>17. Kills'
  BY <1>3, <1>4, <1>5, <1>10, KillsKept DEF Kills
<1> QED  BY <1>7, <1>8, <1>9, <1>11, <1>12, <1>13, <1>14, <1>15, <1>16, <1>17

(* reparent() looks at a slot and gives a child of p to init; at the end   *)
(* of the table, exit() goes on to wake the parent.                        *)
LEMMA ReparentStep ==
  ASSUME ProcInv, NEW c \in CPU, NEW p \in Slot, Reparent(c, p)
  PROVE ProcInv'
<1> USE NoneIs DEF Conjuncts
<1> Conjuncts  BY ProcInvIs
<1> SUFFICES Conjuncts'  BY ProcInvIs
<1>1. /\ pc[p] = "reparent" /\ current[c] = p /\ stack[c] = "proc" /\ state[p] = "running"
      /\ p # InitProc /\ parent[p] \in Slot /\ Given(p) /\ HoldsWait(c) /\ waitLock = c
  BY SMTT(60) DEF Reparent, Cpus, TypeOK, Parents, Live, Exits, HoldsWait, Locking, Locks
<1>2. i[p] \in Nat /\ 1 <= i[p] /\ i[p] <= NPROC + 1
  BY Indices
<1>3. CASE i[p] > NPROC \/ parent[i[p]] # p
  <2>1. PICK w \in {"reparent", "wakeparent"} :
          /\ pc' = [pc EXCEPT ![p] = w] /\ (w = "wakeparent" => i[p] > NPROC)
          /\ w = "reparent" => i[p] <= NPROC /\ i' = [i EXCEPT ![p] = @ + 1] /\ parent[i[p]] # p
    BY <1>1, <1>2, <1>3, SlotIs, SMTT(60) DEF Reparent, TypeOK
  <2>2. /\ UNCHANGED <<table, locks, sched, j, arg, back>>
        /\ i' \in [Slot -> 1 .. NPROC + 1] /\ \A q \in Slot \ {p} : i'[q] = i[q]
    <3>1. UNCHANGED <<table, locks, sched, j, arg, back>>
      BY <1>3 DEF Reparent
    <3>2. CASE i[p] > NPROC
      BY <3>2 DEF Reparent, TypeOK
    <3>3. CASE ~(i[p] > NPROC)
      <4>1. i[p] + 1 \in 1 .. NPROC + 1
        BY <1>2, <3>3, SlotIs, SMTT(60)
      <4>2. i' = [i EXCEPT ![p] = i[p] + 1]
        BY <1>3, <3>3 DEF Reparent
      <4> QED  BY <3>1, <4>1, <4>2 DEF TypeOK
    <3> QED  BY <3>1, <3>2, <3>3
  <2>3. TypeOK' /\ w \in Label
    BY <2>1, <2>2 DEF TypeOK, Label
  <2>4. Where(p)' = w /\ \A q \in Slot \ {p} : Where(q)' = Where(q)
    BY <2>1, <2>2 DEF Where, TypeOK
  <2>5. Move(c, p, w)
    BY <1>1, <2>1, <2>2, <2>4 DEF Move, Switched, Locking, Birth, Places, Place, TypeOK
  <2>6. w \notin Switched \cup {"copy", "dead"}
    BY DEF Switched
  <2>7. pc'[p] = w /\ (w = "reparent" => i'[p] = i[p] + 1)
    BY <2>1 DEF TypeOK
  <2>8. Given(p)'
    BY <1>1, <1>2, <2>1, <2>2, <2>7, SlotIs, SMTT(60) DEF Given
  <2>9. Heard(p)'
    BY <1>1, <2>2, <2>7, SlotIs, SMTT(60) DEF Given, Heard
  <2>10. Pids'
    BY <1>1, <2>1, <2>2, PidsKept
  <2>11. Kills'
    BY <2>2, <2>4, KillsKept DEF Kills
  <2> QED  BY <1>1, <2>3, <2>5, <2>6, <2>8, <2>9, <2>10, <2>11, MoveStep, MoveExits, MoveWoke, MoveTold
<1>4. CASE i[p] <= NPROC /\ parent[i[p]] = p
  <2>1. PICK n \in Slot : n = i[p]
    BY <1>2, <1>4, SlotIs
  <2>2. parent[n] = p /\ n # InitProc
    BY <1>4, <2>1 DEF Parents
  <2>3. /\ parent' = [parent EXCEPT ![n] = InitProc] /\ pc' = [pc EXCEPT ![p] = "wakeinit"]
        /\ UNCHANGED <<state, chan, killed, pid, nextpid, locks, sched, local>>
    BY <1>2, <1>4, <2>1, SlotIs, SMTT(60) DEF Reparent
  <2>4. parent'[n] = InitProc /\ \A q \in Slot \ {n} : parent'[q] = parent[q]
    BY <2>3 DEF TypeOK
  <2>5. pc'[p] = "wakeinit" /\ \A q \in Slot \ {p} : pc'[q] = pc[q]
    BY <2>3 DEF TypeOK
  <2>6. TypeOK' /\ Cpus' /\ Places'
    BY <1>1, <2>3, SMTT(60) DEF TypeOK, Label, Cpus, Places, Place
  <2>7. Locks'
    <3>1. \A d \in CPU : /\ HoldsWait(d)' <=> HoldsWait(d)
                         /\ \A q \in Slot : Holds(d, q)' <=> Holds(d, q)
      BY <1>1, <2>3, <2>5 DEF HoldsWait, Holds, TypeOK, Cpus, Switched, Locking
    <3> QED  BY <2>3, <3>1 DEF Locks
  <2>8. Where(p) = "reparent" /\ Where(p)' = "wakeinit" /\ \A q \in Slot \ {p} : Where(q)' = Where(q)
    BY <1>1, <2>3, <2>5 DEF Where
  <2>9. Births'
    <3>1. ASSUME NEW q \in Slot, Where(q)' \in Birth
          PROVE  /\ q # p /\ Where(q)' = Where(q) /\ arg[q] \in Slot \ {p} /\ state[arg[q]] = "used"
                 /\ Where(q) # "copy" => pc[arg[q]] = "new"
                 /\ Where(q) = "ready" => parent[arg[q]] = q /\ arg[q] # n
      <4>1. q # p /\ Where(q)' = Where(q) /\ Where(q) \in Birth
        BY <2>8, <3>1 DEF Birth
      <4> QED  BY <1>1, <2>2, <4>1, BirthIs
    <3>2. ASSUME NEW q \in Slot, Where(q)' \in Birth
          PROVE  /\ Where(q) \in Birth /\ arg'[q] = arg[q] /\ state'[arg[q]] = "used"
                 /\ Where(q)' # "copy" => pc'[arg[q]] = "new"
                 /\ Where(q)' = "ready" => parent'[arg[q]] = q
      BY <2>3, <2>4, <2>5, <3>1, <3>2
    <3> QED  BY <3>2, BirthsKept
  <2>10. Parents'
    BY <1>1, <2>2, <2>3, <2>4, <2>5, SMTT(60) DEF Parents, TypeOK, Live
  <2>11. Exits'
    <3>1. \A q \in Slot \ {p} : Given(q)'
      BY <2>3, <2>4, <2>5, SMTT(60) DEF Exits, Given, Parents
    <3>2. Given(p)'
      BY <1>1, <1>2, <1>4, <2>1, <2>3, <2>4, <2>5, SlotIs, SMTT(60) DEF Given
    <3> QED  BY <3>1, <3>2 DEF Exits
  <2>12. Woke'
    <3>1. \A d \in CPU, q \in Slot : Runs(d, q) => q = p \/ pc[q] \notin Locking
      BY <1>1 DEF Locks, HoldsWait
    <3>2. \A q \in Slot : pc'[q] \notin Locking \/ pc'[q] = "wakeinit" => Heard(q)'
      BY DEF Heard, Locking
    <3> QED  BY <2>3, <2>5, <3>1, <3>2 DEF Woke
  <2>13. Told'
    <3>1. \A d \in CPU : ~Wakes(d)
      BY <1>1 DEF Locks, HoldsWait, Wakes, Locking
    <3>2. Wakes(c)'
      BY <1>1, <2>3, <2>5 DEF Wakes, Given
    <3> QED  BY <2>3, <2>4, <3>1, <3>2, SMTT(60) DEF Told
  <2>14. Pids'
    BY <1>1, <2>3, <2>5, PidsKept
  <2>15. Kills'
    BY <2>3, <2>8, KillsKept DEF Kills
  <2> QED  BY <2>6, <2>7, <2>9, <2>10, <2>11, <2>12, <2>13, <2>14, <2>15
<1> QED  BY <1>2, <1>3, <1>4, SlotIs, SMTT(60)

(* reparent() wakes init, slot by slot, after every child it has given to  *)
(* it.                                                                     *)
LEMMA WakeInitStep ==
  ASSUME ProcInv, NEW c \in CPU, NEW p \in Slot, WakeInit(c, p)
  PROVE ProcInv'
<1> USE NoneIs DEF Conjuncts
<1> Conjuncts  BY ProcInvIs
<1> SUFFICES Conjuncts'  BY ProcInvIs
<1>1. /\ pc[p] = "wakeinit" /\ current[c] = p /\ stack[c] = "proc" /\ state[p] = "running"
      /\ p # InitProc /\ Given(p) /\ HoldsWait(c) /\ waitLock = c
  BY DEF WakeInit, Cpus, TypeOK, Parents, Exits, HoldsWait, Locking, Locks
<1>2. /\ i[p] \in Nat /\ 1 <= i[p] /\ i[p] <= NPROC
      /\ j[p] \in Nat /\ 1 <= j[p] /\ j[p] <= NPROC + 1
  BY <1>1, Indices DEF Given
<1>3. UNCHANGED <<chan, killed, pid, parent, nextpid, locks, sched, arg, back>>
  BY DEF WakeInit, Wakeup
<1>4. CASE j[p] > NPROC
  <2>1. pc' = [pc EXCEPT ![p] = "reparent"] /\ i' = [i EXCEPT ![p] = @ + 1] /\ j' = [j EXCEPT ![p] = 1] /\ UNCHANGED state
    BY <1>4 DEF WakeInit, Wakeup
  <2>2. i[p] + 1 \in 1 .. NPROC + 1 /\ 1 \in 1 .. NPROC + 1
    BY <1>2, SlotIs, SMTT(60)
  <2>3. TypeOK' /\ "reparent" \in Label
    BY <1>3, <2>1, <2>2 DEF TypeOK, Label
  <2>4. Where(p)' = "reparent" /\ \A q \in Slot \ {p} : Where(q)' = Where(q)
    BY <1>3, <2>1 DEF Where, TypeOK
  <2>5. Move(c, p, "reparent")
    BY <1>1, <1>3, <2>1, <2>4, SMTT(60) DEF Move, Switched, Locking, Birth, Places, Place, TypeOK
  <2>6. "reparent" \notin Switched \cup {"copy", "dead"}
    BY DEF Switched
  <2>7. pc'[p] = "reparent" /\ i'[p] = i[p] + 1 /\ j'[p] = 1
    BY <2>1 DEF TypeOK
  <2>8. Given(p)' /\ Heard(p)'
    BY <1>1, <1>2, <1>3, <2>7, SlotIs, SMTT(60) DEF Given, Heard
  <2>9. Pids'
    BY <1>1, <1>3, <2>1, PidsKept
  <2>10. Kills'
    BY <1>3, <2>1, <2>4, KillsKept DEF Kills
  <2>11. j[p] # 1
    BY <1>4, SlotIs, SMTT(60)
  <2> QED  BY <1>1, <2>3, <2>5, <2>6, <2>8, <2>9, <2>10, <2>11, MoveStep, MoveExits, MoveWoke, MoveTold
<1>5. CASE j[p] <= NPROC
  <2>1. PICK n \in Slot : n = j[p]
    BY <1>2, <1>5, SlotIs
  <2>2. /\ j' = [j EXCEPT ![p] = @ + 1] /\ UNCHANGED <<pc, i>>
        /\ state' = IF n # p /\ state[n] = "sleeping" /\ chan[n] = InitProc
                    THEN [state EXCEPT ![n] = "runnable"] ELSE state
    BY <1>2, <1>5, <2>1, SlotIs, SMTT(60) DEF WakeInit, Wakeup
  <2>3. j[p] + 1 \in 1 .. NPROC + 1
    BY <1>2, <1>5, SlotIs, SMTT(60)
  <2>4. TypeOK' /\ "wakeinit" \in Label
    BY <1>3, <2>2, <2>3 DEF TypeOK, Label
  <2>5. \A q \in Slot : state'[q] = state[q] \/ (state[q] = "sleeping" /\ state'[q] = "runnable")
    BY <2>2 DEF TypeOK
  <2>6. /\ pc' = [pc EXCEPT ![p] = "wakeinit"] /\ \A q \in Slot : Where(q)' = Where(q)
        /\ i' = i /\ \A q \in Slot \ {p} : j'[q] = j[q]
    BY <1>1, <1>3, <2>2 DEF TypeOK, Where
  <2>7. Move(c, p, "wakeinit")
    BY <1>1, <1>3, <2>5, <2>6 DEF Move, Switched, Locking, Birth, Places, Place, TypeOK
  <2>8. "wakeinit" \notin Switched \cup {"copy", "dead"}
    BY DEF Switched
  <2>9. Given(p)' /\ Heard(p)'
    BY <1>1, <1>3, <2>2 DEF Given, Heard
  <2>10. Told'
    <3>1. CASE j[p] # 1
      BY <2>4, <2>7, <3>1, MoveTold
    <3>2. CASE j[p] = 1
      <4>1. n = InitProc
        BY <2>1, <3>2 DEF InitProc
      <4>2. state'[InitProc] # "sleeping"
        <5>1. state[n] = "sleeping" => chan[n] = n /\ n # p
          BY <1>1 DEF Places, Place
        <5>2. CASE n # p /\ state[n] = "sleeping" /\ chan[n] = InitProc
          BY <2>2, <4>1, <5>2 DEF TypeOK
        <5>3. CASE ~(n # p /\ state[n] = "sleeping" /\ chan[n] = InitProc)
          BY <2>2, <4>1, <5>1, <5>3
        <5> QED  BY <5>2, <5>3
      <4>3. \A q \in Slot : /\ state'[q] = "sleeping" => state[q] = "sleeping"
                            /\ state'[q] = "zombie" => state[q] = "zombie"
        BY <2>5
      <4> QED  BY <1>3, <4>2, <4>3 DEF Told
    <3> QED  BY <3>1, <3>2
  <2>11. Pids'
    BY <1>1, <1>3, <2>2, <2>5, PidsKept
  <2>12. Kills'
    BY <1>3, <2>5, <2>6, KillsKept DEF Kills
  <2> QED  BY <1>1, <2>4, <2>7, <2>8, <2>9, <2>10, <2>11, <2>12, MoveStep, MoveExits, MoveWoke
<1> QED  BY <1>2, <1>4, <1>5, SlotIs, SMTT(60)

(* exit() wakes its parent, slot by slot. *)
LEMMA WakeParentStep ==
  ASSUME ProcInv, NEW c \in CPU, NEW p \in Slot, WakeParent(c, p)
  PROVE ProcInv'
<1> USE NoneIs DEF Conjuncts
<1> Conjuncts  BY ProcInvIs
<1> SUFFICES Conjuncts'  BY ProcInvIs
<1>1. /\ pc[p] = "wakeparent" /\ current[c] = p /\ stack[c] = "proc" /\ state[p] = "running"
      /\ p # InitProc /\ parent[p] \in Slot \ {p} /\ Given(p) /\ Heard(p) /\ HoldsWait(c) /\ waitLock = c
  BY SMTT(60) DEF WakeParent, Cpus, TypeOK, Parents, Live, Exits, Woke, HoldsWait, Locking, Locks
<1>2. j[p] \in Nat /\ 1 <= j[p] /\ j[p] <= NPROC + 1
  BY Indices
<1>3. UNCHANGED <<chan, killed, pid, parent, nextpid, locks, sched, arg, back, i>>
  BY DEF WakeParent, Wakeup
<1>4. CASE j[p] > NPROC
  <2>1. pc' = [pc EXCEPT ![p] = "zombie"] /\ UNCHANGED <<state, j>>
    BY <1>4 DEF WakeParent, Wakeup
  <2>2. TypeOK' /\ "zombie" \in Label
    BY <1>3, <2>1 DEF TypeOK, Label
  <2>3. Where(p)' = "zombie" /\ \A q \in Slot \ {p} : Where(q)' = Where(q)
    BY <1>3, <2>1 DEF Where, TypeOK
  <2>4. Move(c, p, "zombie")
    BY <1>1, <1>3, <2>1, <2>3 DEF Move, Switched, Locking, Birth, Places, Place, TypeOK
  <2>5. "zombie" \notin Switched \cup {"copy", "dead"}
    BY DEF Switched
  <2>6. pc'[p] = "zombie" /\ parent[p] < j[p]
    BY <1>1, <1>2, <1>4, <2>1, SlotIs, SMTT(60) DEF TypeOK
  <2>7. Given(p)' /\ Heard(p)'
    BY <1>1, <1>3, <2>1, <2>6 DEF Given, Heard
  <2>8. Pids'
    BY <1>1, <1>3, <2>1, PidsKept
  <2>9. Kills'
    BY <1>3, <2>1, <2>3, KillsKept DEF Kills
  <2> QED  BY <1>1, <2>2, <2>4, <2>5, <2>7, <2>8, <2>9, MoveStep, MoveExits, MoveWoke, MoveTold
<1>5. CASE j[p] <= NPROC
  <2>1. PICK n \in Slot : n = j[p]
    BY <1>2, <1>5, SlotIs
  <2>2. /\ j' = [j EXCEPT ![p] = @ + 1] /\ UNCHANGED pc
        /\ state' = IF n # p /\ state[n] = "sleeping" /\ chan[n] = parent[p]
                    THEN [state EXCEPT ![n] = "runnable"] ELSE state
    BY <1>2, <1>5, <2>1, SlotIs, SMTT(60) DEF WakeParent, Wakeup
  <2>3. j[p] + 1 \in 1 .. NPROC + 1
    BY <1>2, <1>5, SlotIs, SMTT(60)
  <2>4. TypeOK' /\ "wakeparent" \in Label
    BY <1>3, <2>2, <2>3 DEF TypeOK, Label
  <2>5. \A q \in Slot : state'[q] = state[q] \/ (state[q] = "sleeping" /\ state'[q] = "runnable")
    BY <2>2 DEF TypeOK
  <2>6. /\ pc' = [pc EXCEPT ![p] = "wakeparent"] /\ \A q \in Slot : Where(q)' = Where(q)
        /\ j'[p] = j[p] + 1 /\ \A q \in Slot \ {p} : j'[q] = j[q]
    BY <1>1, <1>3, <2>2 DEF TypeOK, Where
  <2>7. Move(c, p, "wakeparent")
    BY <1>1, <1>3, <2>5, <2>6 DEF Move, Switched, Locking, Birth, Places, Place, TypeOK
  <2>8. "wakeparent" \notin Switched \cup {"copy", "dead"}
    BY DEF Switched
  <2>9. Given(p)'
    BY <1>1, <1>3, <2>2 DEF Given
  <2>10. Heard(p)'
    <3>1. parent[p] < j[p] + 1 => parent[p] < j[p] \/ parent[p] = n
      BY <1>1, <1>2, <2>1, SlotIs, SMTT(60)
    <3>2. parent[p] = n => state'[n] # "sleeping"
      <4>1. state[n] = "sleeping" => chan[n] = n /\ n # p
        BY <1>1 DEF Places, Place
      <4>2. CASE n # p /\ state[n] = "sleeping" /\ chan[n] = parent[p]
        BY <2>2, <4>2 DEF TypeOK
      <4>3. CASE ~(n # p /\ state[n] = "sleeping" /\ chan[n] = parent[p])
        BY <2>2, <4>1, <4>3
      <4> QED  BY <4>2, <4>3
    <3>3. state[parent[p]] # "sleeping" => state'[parent[p]] # "sleeping"
      BY <1>1, <2>5
    <3> QED  BY <1>1, <1>3, <2>2, <2>6, <3>1, <3>2, <3>3 DEF Heard
  <2>11. Pids'
    BY <1>1, <1>3, <2>2, <2>5, PidsKept
  <2>12. Kills'
    BY <1>3, <2>5, <2>6, KillsKept DEF Kills
  <2> QED  BY <1>1, <2>4, <2>7, <2>8, <2>9, <2>10, <2>11, <2>12, MoveStep, MoveExits, MoveWoke, MoveTold
<1> QED  BY <1>2, <1>4, <1>5, SlotIs, SMTT(60)

(* kill() looks at a slot, marks the process with the pid and ends its     *)
(* sleep.                                                                  *)
LEMMA KillStep ==
  ASSUME ProcInv, NEW c \in CPU, NEW p \in Slot, Kill(c, p)
  PROVE ProcInv'
<1> USE NoneIs DEF Conjuncts
<1> Conjuncts  BY ProcInvIs
<1> SUFFICES Conjuncts'  BY ProcInvIs
<1>1. /\ pc[p] = "kill" /\ Where(p) = "kill" /\ current[c] = p /\ stack[c] = "proc" /\ state[p] = "running"
      /\ arg[p] \in Targets
  BY DEF Kill, Cpus, TypeOK, Kills, Where
<1>2. i[p] \in Nat /\ 1 <= i[p] /\ i[p] <= NPROC + 1
  BY Indices
<1>3. UNCHANGED <<chan, pid, parent, nextpid, locks, sched, j, arg, back>>
  BY DEF Kill
<1>4. CASE i[p] > NPROC \/ pid[i[p]] # arg[p]
  <2>1. PICK w \in {"kill", "ret"} : pc' = [pc EXCEPT ![p] = w]
    BY <1>1, <1>4, SMTT(60) DEF Kill, TypeOK
  <2>2. /\ UNCHANGED <<state, killed>>
        /\ i' \in [Slot -> 1 .. NPROC + 1] /\ \A q \in Slot \ {p} : i'[q] = i[q]
    BY <1>2, <1>4, SlotIs, SMTT(60) DEF Kill, TypeOK
  <2>3. TypeOK' /\ w \in Label
    BY <1>3, <2>1, <2>2 DEF TypeOK, Label
  <2>4. Where(p)' = w /\ \A q \in Slot \ {p} : Where(q)' = Where(q)
    BY <1>3, <2>1 DEF Where, TypeOK
  <2>5. Move(c, p, w)
    BY <1>1, <1>3, <2>1, <2>2, <2>4 DEF Move, Switched, Locking, Birth, Places, Place, TypeOK
  <2>6. w \notin Switched \cup Locking \cup {"copy", "dead"}
    BY DEF Switched, Locking
  <2>7. Pids'
    BY <1>1, <1>3, <2>1, <2>2, PidsKept
  <2>8. Kills'
    BY <1>1, <1>3, <2>2, <2>4, KillsKept DEF Kills
  <2> QED  BY <1>1, <2>3, <2>5, <2>6, <2>7, <2>8, QuietStep
<1>5. CASE i[p] <= NPROC /\ pid[i[p]] = arg[p]
  <2>1. PICK n \in Slot : n = i[p]
    BY <1>2, <1>5, SlotIs
  <2>2. /\ killed' = [killed EXCEPT ![n] = TRUE] /\ pid[n] = arg[p]
        /\ state' = [state EXCEPT ![n] = IF @ = "sleeping" THEN "runnable" ELSE @]
        /\ pc' = [pc EXCEPT ![p] = "ret"] /\ UNCHANGED i
    BY <1>2, <1>5, <2>1, SlotIs, SMTT(60) DEF Kill
  <2>3. \A q \in Slot : state'[q] = state[q] \/ (state[q] = "sleeping" /\ state'[q] = "runnable")
    BY <2>2 DEF TypeOK
  <2>4. TypeOK' /\ "ret" \in Label
    <3>1. killed' \in [Slot -> BOOLEAN]
      BY <2>2 DEF TypeOK
    <3>2. state' \in [Slot -> {"unused", "used", "sleeping", "runnable", "running", "zombie"}]
      BY <2>2 DEF TypeOK
    <3> QED  BY <1>3, <2>2, <3>1, <3>2 DEF TypeOK, Label
  <2>5. Where(p)' = "ret" /\ \A q \in Slot \ {p} : Where(q)' = Where(q)
    BY <1>3, <2>2 DEF Where, TypeOK
  <2>6. Move(c, p, "ret")
    BY <1>1, <1>3, <2>2, <2>3, <2>5 DEF Move, Switched, Locking, Birth, Places, Place, TypeOK
  <2>7. "ret" \notin Switched \cup Locking \cup {"copy", "dead"}
    BY DEF Switched, Locking
  <2>8. Pids'
    BY <1>1, <1>3, <2>2, <2>3, PidsKept
  <2>9. Kills'
    <3>1. \A q \in Slot \ {n} : killed'[q] = killed[q]
      BY <2>2 DEF TypeOK
    <3>2. 0 \notin Targets => state[n] # "unused"
      BY <1>1, <2>2 DEF Pids
    <3>3. 1 \notin Targets => n # InitProc
      BY <1>1, <2>2 DEF Pids
    <3>4. \A q \in Slot : state'[q] = "unused" => state[q] = "unused"
      BY <2>3
    <3>5. UNCHANGED <<arg, stack>>
      BY <1>3
    <3> QED  BY <2>5, <3>1, <3>2, <3>3, <3>4, <3>5 DEF Kills
  <2> QED  BY <1>1, <2>4, <2>6, <2>7, <2>8, <2>9, QuietStep
<1>6. i[p] > NPROC \/ i[p] <= NPROC
  BY <1>2, SlotIs, SMTT(60)
<1> QED  BY <1>4, <1>5, <1>6

(* wait() looks at a slot, and reaps a child that is a zombie: the cpu     *)
(* that ran the child has left it, as the child's lock is free.            *)
LEMMA WaitVisitStep ==
  ASSUME ProcInv, NEW c \in CPU, NEW p \in Slot, WaitVisit(c, p)
  PROVE ProcInv'
<1> USE NoneIs DEF Conjuncts
<1> Conjuncts  BY ProcInvIs
<1> SUFFICES Conjuncts'  BY ProcInvIs
<1>1. /\ pc[p] = "scan" /\ current[c] = p /\ stack[c] = "proc" /\ state[p] = "running"
      /\ Heard(p) /\ HoldsWait(c) /\ waitLock = c
  BY DEF WaitVisit, Cpus, TypeOK, Woke, HoldsWait, Locking, Locks
<1>2. i[p] \in Nat /\ 1 <= i[p] /\ i[p] <= NPROC
  BY Indices DEF WaitVisit
<1>3. PICK n \in Slot : n = i[p]
  BY <1>2, SlotIs
<1>4. UNCHANGED <<lock, sched, j, back>>
  BY DEF WaitVisit
<1>5. CASE ~(parent[n] = p /\ state[n] = "zombie")
  <2>1. /\ i' = [i EXCEPT ![p] = @ + 1] /\ UNCHANGED <<table, waitLock, pc>>
        /\ arg' = IF parent[n] = p THEN [arg EXCEPT ![p] = 1] ELSE arg
    BY <1>3, <1>5 DEF WaitVisit
  <2>2. i[p] + 1 \in 1 .. NPROC + 1
    BY <1>2, SlotIs, SMTT(60)
  <2>3. arg' \in [Slot -> Nat] /\ \A q \in Slot \ {p} : arg'[q] = arg[q]
    BY <2>1 DEF TypeOK
  <2>4. TypeOK' /\ "scan" \in Label
    BY <1>4, <2>1, <2>2, <2>3 DEF TypeOK, Label
  <2>5. /\ pc' = [pc EXCEPT ![p] = "scan"] /\ Where(p)' = "scan" /\ \A q \in Slot \ {p} : Where(q)' = Where(q)
        /\ i'[p] = i[p] + 1 /\ \A q \in Slot \ {p} : i'[q] = i[q]
    BY <1>1, <1>4, <2>1 DEF TypeOK, Where
  <2>6. Move(c, p, "scan")
    BY <1>1, <1>4, <2>1, <2>3, <2>5 DEF Move, Switched, Locking, Birth, Places, Place, TypeOK
  <2>7. "scan" \notin Switched \cup {"copy", "dead"} \cup (Locking \ {"scan", "sleep"})
    BY DEF Switched, Locking
  <2>8. Given(p)'
    BY <1>1, <2>1 DEF Given
  <2>9. Heard(p)'
    <3>1. \A q \in Slot : q < i[p] + 1 => q < i[p] \/ q = n
      BY <1>2, <1>3, SlotIs, SMTT(60)
    <3> QED  BY <1>1, <1>5, <2>1, <2>5, <3>1 DEF Heard
  <2>10. Pids'
    BY <1>4, <2>1, PidsKept
  <2>11. Kills'
    BY <1>4, <2>1, <2>3, <2>5, KillsKept DEF Kills
  <2> QED  BY <1>1, <2>4, <2>6, <2>7, <2>8, <2>9, <2>10, <2>11, MoveStep, MoveExits, MoveWoke, MoveTold
<1>6. CASE parent[n] = p /\ state[n] = "zombie"
  <2>1. /\ pc' = [pc EXCEPT ![p] = "ret"] /\ waitLock' = None /\ UNCHANGED <<i, arg>>
        /\ Freeproc(n) \/ UNCHANGED table
        /\ lock[n] = None
    BY <1>3, <1>6 DEF WaitVisit, Inspectable
  <2>2. Where(p)' = "ret" /\ \A q \in Slot \ {p} : Where(q)' = Where(q)
    BY <1>4, <2>1 DEF Where, TypeOK
  <2>3. CASE UNCHANGED table
    <3>1. TypeOK' /\ "ret" \in Label
      BY <1>4, <2>1, <2>3 DEF TypeOK, Label
    <3>2. Move(c, p, "ret")
      BY <1>1, <1>4, <2>1, <2>2, <2>3 DEF Move, Switched, Locking, Birth, Places, Place, TypeOK
    <3>3. "ret" \notin Switched \cup Locking \cup {"copy", "dead"}
      BY DEF Switched, Locking
    <3>4. Pids'
      BY <1>4, <2>1, <2>3, PidsKept
    <3>5. Kills'
      BY <1>4, <2>1, <2>2, <2>3, KillsKept DEF Kills
    <3> QED  BY <1>1, <3>1, <3>2, <3>3, <3>4, <3>5, QuietStep
  <2>4. CASE Freeproc(n)
    <3>1. /\ n \notin {p, InitProc} /\ pc[n] = "dead" /\ back[n] = "user"
          /\ \A q \in Slot : parent[q] # n
          /\ \A d \in CPU : current[d] # n
          /\ \A q \in Slot : Where(q) \in Birth => arg[q] # n
      <4>1. pc[n] = "dead" /\ back[n] = "user"
        BY <1>6 DEF Places, Place
      <4>2. \A d \in CPU : current[d] # n
        <5>1. ASSUME NEW d \in CPU, current[d] = n
              PROVE  FALSE
          <6>1. stack[d] = "sched"
            BY <1>6, <5>1 DEF Cpus
          <6>2. lock[n] = d
            BY <5>1, <6>1 DEF Locks, Holds
          <6> QED  BY <1>6, <2>1, <6>2
        <5> QED  BY <5>1
      <4>3. state[n] # "used" /\ state[n] \notin Live /\ n # p
        BY <1>1, <1>6 DEF Live
      <4>4. \A q \in Slot : Where(q) \in Birth => arg[q] # n
        BY <4>3, BirthIs
      <4>5. n # InitProc /\ \A q \in Slot : parent[q] # n
        BY <4>3 DEF Parents
      <4> QED  BY <4>1, <4>2, <4>3, <4>4, <4>5
    <3>2. /\ state' = [state EXCEPT ![n] = "unused"]
          /\ pid' = [pid EXCEPT ![n] = 0]
          /\ parent' = [parent EXCEPT ![n] = None]
          /\ chan' = [chan EXCEPT ![n] = None]
          /\ killed' = [killed EXCEPT ![n] = FALSE]
          /\ nextpid' = nextpid
      BY <2>4 DEF Freeproc
    <3>3. TypeOK'
      <4>1. killed' \in [Slot -> BOOLEAN]
        BY <3>2 DEF TypeOK
      <4> QED  BY <1>4, <2>1, <3>2, <4>1, ProcAssumption DEF TypeOK, Label
    <3>4. /\ state'[n] = "unused" /\ \A q \in Slot \ {n} : state'[q] = state[q]
          /\ parent'[n] = None /\ \A q \in Slot \ {n} : parent'[q] = parent[q] /\ chan'[q] = chan[q]
      BY <3>2 DEF TypeOK
    <3>5. pc'[p] = "ret" /\ \A q \in Slot \ {p} : pc'[q] = pc[q]
      BY <2>1 DEF TypeOK
    <3>6. Cpus' /\ Places'
      <4>1. Cpus'
        BY <1>4, <3>1, <3>4, SMTT(60) DEF TypeOK, Cpus
      <4>2. ASSUME NEW q \in Slot \ {n, p}
            PROVE  pc'[q] = pc[q] /\ state'[q] = state[q] /\ chan'[q] = chan[q] /\ back'[q] = back[q]
        BY <1>4, <3>4, <3>5
      <4>3. /\ pc'[n] = "dead" /\ state'[n] = "unused" /\ back'[n] = "user"
            /\ pc'[p] = "ret" /\ state'[p] = "running" /\ back'[p] = back[p]
        BY <1>1, <1>4, <3>1, <3>4, <3>5
      <4>4. back[p] \in Preemptible \cup {"user"}
        BY DEF Places, Place
      <4>5. ASSUME NEW q \in Slot \ {n, p}
            PROVE  Place(q)'
        BY <4>2, PlaceKept DEF Places
      <4>6. Place(n)' /\ Place(p)'
        BY <4>3, <4>4 DEF Place
      <4> QED  BY <4>1, <4>5, <4>6 DEF Places
    <3>7. Locks'
      <4>1. \A d \in CPU \ {c} : /\ HoldsWait(d)' <=> HoldsWait(d)
                                 /\ \A q \in Slot : Holds(d, q)' <=> Holds(d, q)
        <5>1. \A d \in CPU \ {c} : current[d] \in Slot \ {p} \/ current[d] = None
          BY <1>1 DEF Cpus, TypeOK
        <5>2. \A d \in CPU \ {c} : current[d] # None => pc'[current[d]] = pc[current[d]]
          BY <3>5, <5>1
        <5> QED  BY <1>4, <2>1, <5>2 DEF HoldsWait, Holds
      <4>2. ~HoldsWait(c)' /\ \A q \in Slot : ~Holds(c, q)' /\ ~Holds(c, q)
        BY <1>1, <1>4, <3>5 DEF HoldsWait, Holds, Switched, Locking
      <4>3. \A q \in Slot : lock'[q] = lock[q] /\ lock[q] # c
        BY <1>1, <1>4, <4>2 DEF Locks
      <4>4. waitLock' # c /\ \A d \in CPU \ {c} : waitLock' = d <=> waitLock = d
        BY <1>1, <2>1, NoneIs
      <4>5. \A d \in CPU \ {c} : /\ waitLock' = d <=> waitLock = d
                                 /\ \A q \in Slot : lock'[q] = d <=> lock[q] = d
        BY <4>3, <4>4
      <4>6. /\ waitLock' = c <=> HoldsWait(c)'
            /\ \A q \in Slot : lock'[q] = c <=> Holds(c, q)'
        BY <4>2, <4>3, <4>4
      <4> QED  BY <4>1, <4>5, <4>6, LocksMoved
    <3>8. Births'
      <4>1. ASSUME NEW q \in Slot, Where(q)' \in Birth
            PROVE  /\ Where(q)' = Where(q) /\ arg[q] \in Slot \ {p, n} /\ state[arg[q]] = "used"
                   /\ Where(q) # "copy" => pc[arg[q]] = "new"
                   /\ Where(q) = "ready" => parent[arg[q]] = q
        BY <1>1, <2>2, <3>1, <4>1 DEF Births, Birth
      <4>2. ASSUME NEW q \in Slot, Where(q)' \in Birth
            PROVE  /\ Where(q) \in Birth /\ arg'[q] = arg[q] /\ state'[arg[q]] = "used"
                   /\ Where(q)' # "copy" => pc'[arg[q]] = "new"
                   /\ Where(q)' = "ready" => parent'[arg[q]] = q
        BY <2>1, <3>4, <3>5, <4>1, <4>2
      <4> QED  BY <4>2, BirthsKept
    <3>9. Parents'
      <4>1. parent'[InitProc] = parent[InitProc] /\ state'[InitProc] = state[InitProc]
        BY <3>1, <3>4
      <4>2. pc'[InitProc] \notin {"reparent", "wakeinit", "wakeparent", "zombie", "dead"}
        BY <3>5 DEF Parents
      <4>3. ASSUME NEW q \in Slot, parent'[q] # None
            PROVE  parent'[q] # q /\ state'[parent'[q]] \in Live
        <5>1. q # n /\ parent'[q] = parent[q]
          BY <3>4, <4>3
        <5>2. parent[q] \in Slot \ {n} /\ parent[q] # q /\ state[parent[q]] \in Live
          BY <3>1, <4>3, <5>1 DEF Parents, TypeOK
        <5> QED  BY <3>4, <5>1, <5>2
      <4>4. ASSUME NEW q \in Slot \ {InitProc}, state'[q] \in Live \cup {"zombie"}
            PROVE  parent'[q] # None
        <5>1. q # n
          BY <3>4, <4>4 DEF Live
        <5> QED  BY <3>4, <4>4, <5>1 DEF Parents
      <4> QED  BY <4>1, <4>2, <4>3, <4>4 DEF Parents
    <3>10. Exits'
      BY <1>4, <2>1, <3>4, <3>5, SMTT(60) DEF Exits, Given
    <3>11. Woke'
      <4>1. \A d \in CPU : ~HoldsWait(d)'
        BY <2>1, <3>7 DEF Locks
      <4>2. \A q \in Slot : pc'[q] \notin Locking => Heard(q)'
        BY DEF Heard, Locking
      <4> QED  BY <4>1, <4>2 DEF Woke, HoldsWait
    <3>12. Told'
      <4>1. \A d \in CPU : ~Wakes(d)
        BY <1>1 DEF Locks, HoldsWait, Wakes, Locking
      <4> QED  BY <3>4, <4>1, SMTT(60) DEF Told
    <3>13. Pids'
      <4>2. pid'[n] = 0 /\ \A q \in Slot \ {n} : pid'[q] = pid[q]
        BY <3>2 DEF TypeOK
      <4> QED  BY <3>1, <3>2, <3>4, <4>2, PidsFreed DEF TypeOK
    <3>14. Kills'
      <4>1. ~killed'[n] /\ (\A q \in Slot \ {n} : killed'[q] = killed[q])
        BY <3>2 DEF TypeOK
      <4>2. UNCHANGED <<arg, stack>>
        BY <1>4, <2>1
      <4> QED  BY <2>2, <3>1, <3>4, <4>1, <4>2 DEF Kills
    <3> QED  BY <3>3, <3>6, <3>7, <3>8, <3>9, <3>10, <3>11, <3>12, <3>13, <3>14
  <2> QED  BY <2>1, <2>3, <2>4
<1> QED  BY <1>5, <1>6

(* The invariant holds when init is the only process and no cpu has run. *)
LEMMA ProcStarts == Init => ProcInv
<1> SUFFICES ASSUME Init PROVE ProcInv
  OBVIOUS
<1> USE NoneIs, ProcAssumption
<1>1. TypeOK
  BY SlotIs, SMTT(60) DEF Init, TypeOK, Label
<1>2. Cpus /\ Locks
  BY DEF Init, Cpus, Locks, Holds, HoldsWait
<1>3. Places /\ Parents /\ Exits
  BY DEF Init, Places, Place, Parents, Exits, Given, Live, Switched, InitProc
<1>4. Births /\ Woke /\ Told
  BY DEF Init, Births, Where, Birth, Woke, Told
<1>5. Pids
  BY SMTT(60) DEF Init, Pids, InitProc
<1>6. Kills
  BY DEF Init, Kills, Where
<1> QED  BY <1>1, <1>2, <1>3, <1>4, <1>5, <1>6, ProcInvIs DEF Conjuncts

(* Every step keeps the invariant, given what a failed fork() must         *)
(* restore.                                                                *)
LEMMA ProcStep ==
  ASSUME Restores, ProcInv, [Next]_vars
  PROVE ProcInv'
<1>1. CASE UNCHANGED vars
  <2>1. TypeOK'  BY <1>1, ProcInvIs DEF vars, Conjuncts, TypeOK
  <2>2. Cpus'  BY <1>1, ProcInvIs DEF vars, Conjuncts, Cpus
  <2> QED  BY <1>1, <2>1, <2>2, ProcInvIs, StillHolds DEF vars, Conjuncts
<1>2. ASSUME NEW c \in CPU, SchedVisit(c) \/ SchedBack(c)
      PROVE  ProcInv'
  BY <1>2, SchedVisitStep, SchedBackStep
<1>3. ASSUME NEW c \in CPU, NEW p \in Slot, Kernel(c, p)
      PROVE  ProcInv'
  BY <1>3, ResumeStep, SyscallReturnStep, YieldStep, AllocprocStep, ForkCopyStep, ForkFailStep,
     ForkAdoptStep, ForkReadyStep, ExitStep, ReparentStep, WakeInitStep, WakeParentStep, ZombieStep,
     WaitLockStep, WaitVisitStep, WaitEndStep, SleepStep, WokenStep, KillStep
  DEF Kernel
<1>4. ASSUME NEW c \in CPU, NEW p \in Slot,
             Kerneltrap(c, p) \/ Timer(c, p) \/ \E call \in Calls : Syscall(c, p, call)
      PROVE  ProcInv'
  BY <1>4, KerneltrapStep, TimerStep, SyscallStep
<1> QED  BY <1>1, <1>2, <1>3, <1>4 DEF Next

-----------------------------------------------------------------------------
(* ProcInv holds of the process table in every state, for any number of    *)
(* cpus and slots.                                                         *)
THEOREM ProcInvariant ==
  ASSUME Restores
  PROVE  Spec => []ProcInv
<1>1. ProcInv /\ [Next]_vars => ProcInv'
  BY ProcStep
<1> QED  BY <1>1, ProcStarts, PTL DEF Spec

(* A process in user mode holds no lock, and sched() never panics: no call *)
(* and no path through one forgets a release.  As exit() panics in init,   *)
(* init must not be killed.                                                *)
THEOREM UserHoldsNoLock ==
  ASSUME Restores, 1 \notin Targets
  PROVE  Spec => []UserUnlocked
<1>1. ProcInv => UserUnlocked
  <2> SUFFICES ASSUME ProcInv PROVE UserUnlocked
    OBVIOUS
  <2>1. ASSUME NEW c \in CPU, NEW p \in Slot, At(c, p, "user")
        PROVE  waitLock # c /\ \A q \in Slot : lock[q] # c
    <3>1. current[c] = p /\ stack[c] = "proc" /\ pc[p] = "user" /\ Locks
      BY <2>1, ProcInvIs DEF Conjuncts
    <3> QED  BY <3>1, NotHeld, WaitLockHeld DEF Switched, Locking
  <2>2. \A c \in CPU : stack[c] # "panic"
    BY ProcInvIs DEF Conjuncts, Kills
  <2> QED  BY <2>1, <2>2 DEF UserUnlocked
<1> QED  BY <1>1, ProcInvariant, PTL

(* No parent sleeps in wait() while a child is a zombie, but for the time  *)
(* an exiting process that holds wait_lock takes to wake init.             *)
THEOREM ParentsAreWoken ==
  ASSUME Restores
  PROVE  Spec => []NoLostWakeup
<1>1. ProcInv => NoLostWakeup
  <2> SUFFICES ASSUME ProcInv, NEW p \in Slot, NEW q \in Slot,
                      state[p] = "sleeping", parent[q] = p, state[q] = "zombie"
               PROVE  waitLock # None
    BY DEF NoLostWakeup
  <2>1. PICK c \in CPU : Wakes(c)
    BY ProcInvIs DEF Conjuncts, Told
  <2>2. HoldsWait(c) /\ Locks
    BY <2>1, ProcInvIs DEF Conjuncts, Wakes, HoldsWait, Locking
  <2> QED  BY <2>2, NoneIs DEF Locks
<1> QED  BY <1>1, ProcInvariant, PTL

(* Every process but init has a parent that has not exited. *)
THEOREM NobodyOrphaned ==
  ASSUME Restores
  PROVE  Spec => []NoOrphans
<1>1. ProcInv => NoOrphans
  BY ProcInvIs DEF Conjuncts, Parents, NoOrphans, Live
<1> QED  BY <1>1, ProcInvariant, PTL

(* No process is on two cpus, no slot is freed under a cpu, pids are       *)
(* unique, and free slots have no pid and, where nobody calls kill(0), no  *)
(* mark of a kill().                                                       *)
THEOREM TableConsistent ==
  ASSUME Restores
  PROVE  Spec => []TableInv
<1>1. ProcInv => TableInv
  <2> SUFFICES ASSUME ProcInv PROVE TableInv
    OBVIOUS
  <2>1. ASSUME NEW c \in CPU, current[c] # None
        PROVE  state[current[c]] # "unused" /\ \A d \in CPU : current[d] = current[c] => c = d
    BY <2>1, ProcInvIs DEF Conjuncts, Cpus
  <2>2. (\A p, q \in Slot : pid[p] = pid[q] /\ pid[p] # 0 => p = q)
        /\ (\A p \in Slot : state[p] = "unused" => pid[p] = 0)
        /\ (0 \notin Targets => \A p \in Slot : state[p] = "unused" => ~killed[p])
    BY ProcInvIs DEF Conjuncts, Pids, Kills
  <2> QED  BY <2>1, <2>2, ProcInvIs DEF Conjuncts, TableInv
<1> QED  BY <1>1, ProcInvariant, PTL

=============================================================================
