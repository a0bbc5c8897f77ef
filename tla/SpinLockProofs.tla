--------------------------- MODULE SpinLockProofs ---------------------------
(***************************************************************************)
(* Mutual exclusion of the spin locks, for any number of cpus and locks of *)
(* both kinds.                                                             *)
(***************************************************************************)
EXTENDS SpinLock, FiniteSetTheorems, TLAPS

USE ZenonT(60)

(* What each context is doing agrees with lk and held. *)
Positions ==
  \A x \in Context :
    /\ pc[x] \in {"check", "spin", "record", "unlock"} => lk[x] \in Lock
    /\ pc[x] \in {"record", "unlock"} => lk[x] \in held[x]

(* A lock word is set just while somebody holds the lock. *)
Words == \A l \in Lock : locked[l] <=> \E x \in Context : l \in held[x]

(* lk->cpu names the cpu of a context that holds the lock and is neither   *)
(* about to record that nor past clearing it.                              *)
Owners ==
  \A l \in Lock : owner[l] # None =>
    \E x \in Context : /\ x[1] = owner[l] /\ l \in held[x]
                       /\ ~(pc[x] \in {"record", "unlock"} /\ lk[x] = l)

(* LockInv in parts. *)
LEMMA Parts == LockInv <=> TypeOK /\ MutualExclusion /\ Words /\ Positions /\ Owners
BY DEF LockInv, Words, Positions, Owners

(* The same for the next state. *)
LEMMA PartsNext ==
  LockInv' <=> TypeOK' /\ MutualExclusion' /\ Words' /\ Positions' /\ Owners'
BY DEF LockInv, Words, Positions, Owners

(* The locks start out free. *)
LEMMA InitInv == Init => LockInv
<1> SUFFICES ASSUME Init PROVE LockInv
  OBVIOUS
<1>1. TypeOK
  BY DEF Init, TypeOK
<1>2. MutualExclusion /\ Words /\ Positions /\ Owners
  BY DEF Init, MutualExclusion, Words, Positions, Owners
<1> QED
  BY <1>1, <1>2, Parts

(* Every step keeps the types. *)
LEMMA TypeStep == LockInv /\ Next => TypeOK'
<1> SUFFICES ASSUME LockInv, Next PROVE TypeOK'
  OBVIOUS
<1>0. TypeOK /\ Positions
  BY Parts
<1>1. ASSUME NEW x \in Context PROVE x[1] \in CPU
  BY DEF Context
<1>2. ASSUME NEW x \in Context, Check(x) PROVE TypeOK'
  BY <1>0, <1>2 DEF TypeOK, Check, Goto, Panic, cpus
<1>3. ASSUME NEW x \in Context, Spin(x) PROVE TypeOK'
  BY <1>0, <1>3 DEF TypeOK, Positions, Spin, Goto, cpus
<1>4. ASSUME NEW x \in Context, Record(x) PROVE TypeOK'
  BY <1>0, <1>1, <1>4 DEF TypeOK, Record, Goto, cpus
<1>5. ASSUME NEW x \in Context, Unlock(x) PROVE TypeOK'
  BY <1>0, <1>5 DEF TypeOK, Unlock, Goto, cpus
<1>6. ASSUME NEW x \in Context, Pop(x) PROVE TypeOK'
  <2>1. noff' \in [CPU -> Nat] /\ intr' \in [CPU -> BOOLEAN]
    BY <1>0, <1>1, <1>6, SMTT(60) DEF TypeOK, Pop, PopOff, Reenables, cpus
  <2>2. intena' = intena /\ panicked' \in BOOLEAN
    BY <1>0, <1>6 DEF TypeOK, Pop, PopOff, Panic, cpus
  <2> QED
    BY <1>0, <1>6, <2>1, <2>2 DEF TypeOK, Pop, Goto
<1>7. ASSUME NEW x \in Context, MyProc(x) PROVE TypeOK'
  BY <1>0, <1>1, <1>7 DEF TypeOK, MyProc, OldIntr
<1>8. ASSUME NEW x \in Context, NEW l \in Lock, Acquire(x, l) PROVE TypeOK'
  BY <1>0, <1>1, <1>8, SMTT(60) DEF TypeOK, Acquire, PushOff, OldIntr, Goto
<1>9. ASSUME NEW x \in Context, NEW l \in Lock, Release(x, l) PROVE TypeOK'
  BY <1>0, <1>9 DEF TypeOK, Release, Goto, Panic, cpus
<1>10. ASSUME NEW c \in CPU,
              Interrupt(c) \/ InterruptReturn(c) \/ SetIntr(c, TRUE) \/ SetIntr(c, FALSE)
       PROVE TypeOK'
  BY <1>0, <1>10 DEF TypeOK, Interrupt, InterruptReturn, SetIntr
<1> QED
  BY <1>2, <1>3, <1>4, <1>5, <1>6, <1>7, <1>8, <1>9, <1>10 DEF Next, Step

(* A step that leaves the locks and the positions of all contexts alone    *)
(* keeps the rest of the invariant.                                        *)
LEMMA QuietStep ==
  ASSUME LockInv, TypeOK', UNCHANGED <<locked, owner, held, lk, pc>>
  PROVE  LockInv'
<1>1. MutualExclusion' /\ Words' /\ Positions' /\ Owners'
  BY Parts DEF MutualExclusion, Words, Positions, Owners
<1> QED
  BY <1>1, PartsNext

(* A step of context x that moves it between places where it is neither    *)
(* recording nor unlocking.                                                *)
LEMMA MoveStep ==
  ASSUME LockInv, TypeOK', NEW x \in Context, NEW where, Goto(x, where),
         pc[x] \notin {"record", "unlock"},
         UNCHANGED <<locked, owner, held>>,
         where \in {"idle", "check", "spin"},
         \A y \in Context : y # x => lk'[y] = lk[y],
         where \in {"check", "spin"} => lk'[x] \in Lock
  PROVE  LockInv'
<1>0. TypeOK /\ MutualExclusion /\ Words /\ Positions /\ Owners
  BY Parts
<1>1. /\ pc'[x] = where
      /\ \A y \in Context : y # x => pc'[y] = pc[y]
  BY <1>0 DEF TypeOK, Goto
<1>2. MutualExclusion' /\ Words'
  BY <1>0 DEF MutualExclusion, Words
<1>3. Positions'
  BY <1>0, <1>1 DEF Positions
<1>4. Owners'
  BY <1>0, <1>1, SMTT(60) DEF Owners
<1> QED
  BY <1>2, <1>3, <1>4, PartsNext

(* The swap takes a lock that nobody held. *)
LEMMA SpinStep ==
  ASSUME LockInv, TypeOK', NEW x \in Context, Spin(x)
  PROVE  LockInv'
<1>0. TypeOK /\ MutualExclusion /\ Words /\ Positions /\ Owners
  BY Parts
<1> DEFINE l == lk[x]
<1>1. l \in Lock /\ ~locked[l]
  BY <1>0 DEF Spin, Positions, Free
<1>2. /\ pc'[x] = "record" /\ lk' = lk /\ owner' = owner
      /\ \A y \in Context : y # x => pc'[y] = pc[y] /\ held'[y] = held[y]
      /\ held'[x] = held[x] \cup {l}
      /\ locked'[l] = TRUE
      /\ \A m \in Lock : m # l => locked'[m] = locked[m]
  BY <1>0, <1>1 DEF TypeOK, Spin, Goto
<1>3. \A y \in Context : l \notin held[y]
  BY <1>0, <1>1 DEF Words
<1> HIDE DEF l
<1>4. MutualExclusion'
  BY <1>0, <1>2, <1>3, SMTT(60) DEF MutualExclusion
<1>5. Words'
  BY <1>0, <1>1, <1>2, <1>3, SMTT(60) DEF Words
<1>6. Positions'
  BY <1>0, <1>1, <1>2 DEF Positions, l
<1>7. owner[l] = None
  BY <1>0, <1>1, <1>3 DEF Owners
<1>8. Owners'
  BY <1>0, <1>2, <1>7, SMTT(60) DEF Owners, l
<1> QED
  BY <1>4, <1>5, <1>6, <1>8, PartsNext

(* The holder writes itself into lk->cpu. *)
LEMMA RecordStep ==
  ASSUME LockInv, TypeOK', NEW x \in Context, Record(x)
  PROVE  LockInv'
<1>0. TypeOK /\ MutualExclusion /\ Words /\ Positions /\ Owners
  BY Parts
<1> DEFINE l == lk[x]
<1>1. l \in Lock /\ l \in held[x]
  BY <1>0 DEF Record, Positions
<1>2. /\ pc'[x] = "idle" /\ locked' = locked /\ held' = held
      /\ \A y \in Context : y # x => pc'[y] = pc[y] /\ lk'[y] = lk[y]
      /\ owner'[l] = x[1]
      /\ \A m \in Lock : m # l => owner'[m] = owner[m]
  BY <1>0, <1>1 DEF TypeOK, Record, Goto
<1> HIDE DEF l
<1>3. MutualExclusion' /\ Words'
  BY <1>0, <1>2 DEF MutualExclusion, Words
<1>4. Positions'
  BY <1>0, <1>2 DEF Positions
<1>5. Owners'
  BY <1>0, <1>1, <1>2, SMTT(60) DEF Owners
<1> QED
  BY <1>3, <1>4, <1>5, PartsNext

(* release clears lk->cpu, or panics and changes nothing. *)
LEMMA ReleaseStep ==
  ASSUME LockInv, TypeOK', NEW x \in Context, NEW l \in Lock, Release(x, l)
  PROVE  LockInv'
<1>0. TypeOK /\ MutualExclusion /\ Words /\ Positions /\ Owners
  BY Parts
<1>1. CASE ~Holding(x[1], l)
  BY <1>1, QuietStep DEF Release, cpus
<1>2. CASE Holding(x[1], l)
  <2>1. /\ pc'[x] = "unlock" /\ locked' = locked /\ held' = held /\ lk'[x] = l
        /\ \A y \in Context : y # x => pc'[y] = pc[y] /\ lk'[y] = lk[y]
        /\ owner'[l] = None
        /\ \A m \in Lock : m # l => owner'[m] = owner[m]
        /\ l \in held[x] /\ pc[x] = "idle"
    BY <1>0, <1>2, SMTT(60) DEF TypeOK, Release, Goto
  <2>2. MutualExclusion' /\ Words'
    BY <1>0, <2>1 DEF MutualExclusion, Words
  <2>3. Positions'
    BY <1>0, <2>1 DEF Positions
  <2>4. Owners'
    BY <1>0, <2>1, SMTT(60) DEF Owners
  <2> QED
    BY <2>2, <2>3, <2>4, PartsNext
<1> QED
  BY <1>1, <1>2

(* The store to lk->locked frees a lock that has no recorded owner. *)
LEMMA UnlockStep ==
  ASSUME LockInv, TypeOK', NEW x \in Context, Unlock(x)
  PROVE  LockInv'
<1>0. TypeOK /\ MutualExclusion /\ Words /\ Positions /\ Owners
  BY Parts
<1> DEFINE l == lk[x]
<1>1. l \in Lock /\ l \in held[x] /\ pc[x] = "unlock"
  BY <1>0 DEF Unlock, Positions
<1>2. /\ pc'[x] = "pop" /\ owner' = owner
      /\ \A y \in Context : y # x =>
           pc'[y] = pc[y] /\ lk'[y] = lk[y] /\ held'[y] = held[y]
      /\ held'[x] = held[x] \ {l}
      /\ locked'[l] = FALSE
      /\ \A m \in Lock : m # l => locked'[m] = locked[m]
  BY <1>0, <1>1 DEF TypeOK, Unlock, Goto
<1>3. \A y \in Context : y # x => l \notin held[y]
  BY <1>0, <1>1 DEF MutualExclusion
<1>4. owner[l] = None
  BY <1>0, <1>1, <1>3 DEF Owners
<1> HIDE DEF l
<1>5. MutualExclusion'
  BY <1>0, <1>2 DEF MutualExclusion
<1>6. Words'
  BY <1>0, <1>1, <1>2, <1>3, SMTT(60) DEF Words
<1>7. Positions'
  BY <1>0, <1>2 DEF Positions
<1>8. Owners'
  BY <1>0, <1>1, <1>2, <1>4, SMTT(60) DEF Owners, l
<1> QED
  BY <1>5, <1>6, <1>7, <1>8, PartsNext

(* The invariant is inductive: one case for each action. *)
LEMMA StepInv == LockInv /\ [Next]_vars => LockInv'
<1> SUFFICES ASSUME LockInv, [Next]_vars PROVE LockInv'
  OBVIOUS
<1>1. CASE UNCHANGED vars
  <2>1. TypeOK'
    BY <1>1, Parts DEF vars, cpus, TypeOK
  <2> QED
    BY <1>1, <2>1, QuietStep DEF vars
<1>2. CASE Next
  <2>0. TypeOK' /\ TypeOK /\ Positions
    BY <1>2, TypeStep, Parts
  <2>1. ASSUME NEW x \in Context, Check(x) PROVE LockInv'
    <3>1. CASE Holding(x[1], lk[x])
      BY <2>0, <2>1, <3>1, QuietStep DEF Check
    <3>2. CASE ~Holding(x[1], lk[x])
      <4>1. Goto(x, "spin") /\ pc[x] = "check" /\ lk' = lk
            /\ UNCHANGED <<locked, owner, held>>
        BY <2>1, <3>2 DEF Check
      <4> QED
        BY <2>0, <4>1, MoveStep DEF Positions
    <3> QED
      BY <3>1, <3>2
  <2>2. ASSUME NEW x \in Context, Pop(x) PROVE LockInv'
    <3>1. Goto(x, "idle") /\ pc[x] = "pop" /\ lk' = lk
          /\ UNCHANGED <<locked, owner, held>>
      BY <2>2 DEF Pop
    <3> QED
      BY <2>0, <3>1, MoveStep
  <2>3. ASSUME NEW x \in Context, NEW l \in Lock, Acquire(x, l) PROVE LockInv'
    <3>1. Goto(x, "check") /\ pc[x] = "idle" /\ UNCHANGED <<locked, owner, held>>
          /\ lk'[x] = l /\ \A y \in Context : y # x => lk'[y] = lk[y]
      BY <2>0, <2>3 DEF Acquire, TypeOK
    <3> QED
      BY <2>0, <3>1, MoveStep
  <2>4. ASSUME NEW x \in Context, MyProc(x) PROVE LockInv'
    BY <2>0, <2>4, QuietStep DEF MyProc
  <2>5. ASSUME NEW c \in CPU,
               Interrupt(c) \/ InterruptReturn(c) \/ SetIntr(c, TRUE) \/ SetIntr(c, FALSE)
        PROVE LockInv'
    BY <2>0, <2>5, QuietStep DEF Interrupt, InterruptReturn, SetIntr
  <2> QED
    BY <1>2, <2>0, <2>1, <2>2, <2>3, <2>4, <2>5, SpinStep, RecordStep, ReleaseStep,
       UnlockStep DEF Next, Step
<1> QED
  BY <1>1, <1>2

(* The lock words and lk->cpu of acquire and release always say who holds  *)
(* what, for any cpus and locks, C and Zig.                                *)
THEOREM LockInvariant == Spec => []LockInv
BY InitInv, StepInv, PTL DEF Spec

(* No two contexts, threads or interrupt handlers, ever hold the same lock: *)
(* acquire of spinlock.c and of SpinLock.zig is a mutual exclusion.        *)
THEOREM LocksExclude == Spec => []MutualExclusion
<1>1. LockInv => MutualExclusion
  BY Parts
<1> QED
  BY <1>1, LockInvariant, PTL

-----------------------------------------------------------------------------
(* None of the checks fires.  What that takes: noff counts the locks of    *)
(* the context that executes, the other one of the cpu has none, and no    *)
(* handler turns interrupts back on.                                       *)

(* x executes: the handler of a cpu does while it handles, else the thread. *)
Active(x) == handling[x[1]] <=> x[2] = "handler"

(* The push_offs of x that are not undone: those of the locks it holds and *)
(* of an acquire or release on either side of the swap and the store.      *)
Depth(x) == Cardinality(held[x]) + (IF pc[x] \in {"check", "spin", "pop"} THEN 1 ELSE 0)

(* noff counts what the executing context has to pop. *)
Counts == \A x \in Context : Active(x) => noff[x[1]] = Depth(x)

(* The other context of the cpu holds nothing and is in no call. *)
Others == \A x \in Context : ~Active(x) => held[x] = {} /\ pc[x] = "idle"

(* Interrupts are on only outside push_off and handlers, and the pop_off   *)
(* of a handler does not turn them on.                                     *)
Interrupts ==
  \A c \in CPU : /\ intr[c] => noff[c] = 0 /\ ~handling[c]
                 /\ handling[c] /\ noff[c] > 0 => ~intena[c]

(* Nobody acquires a lock twice. *)
Fresh == \A x \in Context : pc[x] \in {"check", "spin"} => lk[x] \notin held[x]

(* lk->cpu names the holder, once it is recorded and until it is cleared. *)
Recorded ==
  \A x \in Context : \A l \in held[x] :
    ~(pc[x] \in {"record", "unlock"} /\ lk[x] = l) => owner[l] = x[1]

(* What the panics of spinlock.c need never to fire. *)
IntrInv == ~panicked /\ Counts /\ Others /\ Interrupts /\ Fresh /\ Recorded

(* The locks a context holds can be counted. *)
LEMMA HeldFinite ==
  ASSUME TypeOK, NEW x \in Context
  PROVE  /\ IsFiniteSet(held[x]) /\ Cardinality(held[x]) \in Nat
         /\ Cardinality(held[x]) = 0 <=> held[x] = {}
<1>1. IsFiniteSet(Lock)
  BY FS_Interval, LockAssumption, SMTT(60) DEF Lock
<1>2. held[x] \in SUBSET Lock
  BY DEF TypeOK
<1>3. IsFiniteSet(held[x])
  BY <1>1, <1>2, FS_Subset
<1> QED
  BY <1>3, FS_CardinalityType, FS_EmptySet

(* Who holds nothing has depth 0. *)
LEMMA NothingHeld == Cardinality({}) = 0
BY FS_EmptySet

(* A cpu has two contexts. *)
LEMMA TwoContexts ==
  /\ \A x \in Context : x[1] \in CPU /\ x = <<x[1], x[2]>> /\ x[2] \in {"thread", "handler"}
  /\ \A c \in CPU : <<c, "thread">> \in Context /\ <<c, "handler">> \in Context
  /\ \A x, y \in Context : x[1] = y[1] /\ x # y => (Active(x) <=> ~Active(y))
BY SMTT(60) DEF Context, Active

(* At the start no lock is held and interrupts are off. *)
LEMMA IntrInit == Init => IntrInv
<1> SUFFICES ASSUME Init PROVE IntrInv
  OBVIOUS
<1>1. \A x \in Context : held[x] = {} /\ pc[x] = "idle"
  BY DEF Init
<1>2. \A c \in CPU : noff[c] = 0 /\ intr[c] = FALSE /\ handling[c] = FALSE
  BY DEF Init
<1>3. \A x \in Context : Depth(x) = 0
  BY <1>1, NothingHeld, SMTT(60) DEF Depth
<1>4. Counts
  BY <1>2, <1>3, TwoContexts DEF Counts
<1> QED
  BY <1>1, <1>2, <1>4 DEF Init, IntrInv, Others, Interrupts, Fresh, Recorded

(* Where interrupts are on, no lock is held nor wanted. *)
LEMMA IntrMeansIdle ==
  ASSUME LockInv, IntrInv, NEW x \in Context, intr[x[1]]
  PROVE  held[x] = {} /\ pc[x] = "idle"
<1>1. TypeOK /\ Positions
  BY Parts
<1>2. noff[x[1]] = 0 /\ ~handling[x[1]]
  BY TwoContexts DEF IntrInv, Interrupts
<1>3. CASE ~Active(x)
  BY <1>3 DEF IntrInv, Others
<1>4. CASE Active(x)
  <2>1. Depth(x) = 0
    BY <1>2, <1>4 DEF IntrInv, Counts
  <2>2. held[x] = {} /\ pc[x] \notin {"check", "spin", "pop"}
    BY <1>1, <2>1, HeldFinite, SMTT(60) DEF Depth
  <2> QED
    BY <1>1, <2>2 DEF Positions, TypeOK
<1> QED
  BY <1>3, <1>4

(* A step of the context that executes leaves the other ones alone. *)
LEMMA ContextStep ==
  ASSUME IntrInv, NEW x \in Context, Active(x), handling' = handling, ~panicked',
         \A y \in Context : y # x => pc'[y] = pc[y] /\ lk'[y] = lk[y] /\ held'[y] = held[y],
         \A c \in CPU : c # x[1] =>
           noff'[c] = noff[c] /\ intr'[c] = intr[c] /\ intena'[c] = intena[c],
         noff'[x[1]] = Depth(x)',
         intr'[x[1]] => noff'[x[1]] = 0 /\ ~handling[x[1]],
         handling[x[1]] /\ noff'[x[1]] > 0 => ~intena'[x[1]],
         pc'[x] \in {"check", "spin"} => lk'[x] \notin held'[x],
         Recorded'
  PROVE  IntrInv'
<1>1. \A y \in Context : Active(y)' <=> Active(y)
  BY DEF Active
<1>2. Counts'
  <2> SUFFICES ASSUME NEW y \in Context, Active(y) PROVE noff'[y[1]] = Depth(y)'
    BY <1>1 DEF Counts
  <2>1. CASE y = x
    BY <2>1
  <2>2. CASE y # x
    <3>1. y[1] # x[1] /\ y[1] \in CPU
      BY <2>2, TwoContexts
    <3>2. noff[y[1]] = Depth(y) /\ Depth(y)' = Depth(y)
      BY <2>2 DEF IntrInv, Counts, Depth
    <3> QED
      BY <3>1, <3>2
  <2> QED
    BY <2>1, <2>2
<1>3. Others'
  BY <1>1 DEF IntrInv, Others
<1>4. Interrupts'
  BY DEF IntrInv, Interrupts
<1>5. Fresh'
  BY DEF IntrInv, Fresh
<1> QED
  BY <1>2, <1>3, <1>4, <1>5 DEF IntrInv

(* acquire and release nest. *)
LEMMA AcquireIntr ==
  ASSUME LockInv, IntrInv, NEW x \in Context, NEW l \in Lock, Acquire(x, l)
  PROVE  IntrInv'
<1>1. TypeOK
  BY Parts
<1>2. /\ pc[x] = "idle" /\ held' = held /\ owner' = owner /\ handling' = handling
      /\ panicked' = panicked /\ Active(x)
      /\ pc'[x] = "check" /\ lk'[x] = l
      /\ \A y \in Context : y # x => pc'[y] = pc[y] /\ lk'[y] = lk[y]
      /\ \A m \in held[x] : m < l
  BY <1>1 DEF Acquire, Goto, TypeOK, Runs, Active
<1>3. x[1] \in CPU
  BY TwoContexts
<1>4. noff[x[1]] = Cardinality(held[x]) /\ noff[x[1]] \in Nat
  BY <1>1, <1>2, <1>3, HeldFinite, SMTT(60) DEF IntrInv, Counts, Depth, TypeOK
<1>5. /\ noff'[x[1]] = noff[x[1]] + 1 /\ ~intr'[x[1]]
      /\ \A c \in CPU : c # x[1] =>
           noff'[c] = noff[c] /\ intr'[c] = intr[c] /\ intena'[c] = intena[c]
  BY <1>1, <1>3 DEF Acquire, PushOff, TypeOK
<1>6. handling[x[1]] => ~intena'[x[1]]
  <2>1. handling[x[1]] => ~intr[x[1]]
    BY <1>3 DEF IntrInv, Interrupts
  <2>2. CASE noff[x[1]] # 0
    <3>1. intena' = intena /\ noff[x[1]] > 0
      BY <1>4, <2>2, SMTT(60) DEF Acquire, PushOff
    <3> QED
      BY <1>3, <3>1 DEF IntrInv, Interrupts
  <2>3. CASE noff[x[1]] = 0
    <3>1. intena'[x[1]] = OldIntr(x[1], l \in Zig)
      BY <1>1, <1>3, <2>3 DEF Acquire, PushOff, TypeOK
    <3> QED
      BY <2>1, <3>1 DEF OldIntr
  <2> QED
    BY <2>2, <2>3
<1>7. l \notin held'[x]
  <2>1. l \in Int /\ ~(l < l)
    BY LockAssumption, SMTT(60) DEF Lock
  <2> QED
    BY <1>2, <2>1
<1>8. Recorded'
  BY <1>2 DEF IntrInv, Recorded
<1>9. noff'[x[1]] = Depth(x)'
  BY <1>2, <1>4, <1>5 DEF Depth
<1> QED
  BY <1>2, <1>5, <1>6, <1>7, <1>8, <1>9, ContextStep DEF IntrInv

(* The test in acquire: no context of this cpu has the lock. *)
LEMMA CheckIntr ==
  ASSUME LockInv, IntrInv, NEW x \in Context, Check(x)
  PROVE  IntrInv'
<1>1. TypeOK /\ Positions /\ Owners
  BY Parts
<1>2. lk[x] \in Lock /\ lk[x] \notin held[x] /\ Active(x) /\ pc[x] = "check"
  BY <1>1 DEF Check, Positions, IntrInv, Fresh, Runs, Active
<1>3. ~Holding(x[1], lk[x])
  <2> SUFFICES ASSUME Holding(x[1], lk[x]) PROVE FALSE
    OBVIOUS
  <2>1. owner[lk[x]] = x[1] /\ x[1] # None
    BY TwoContexts, LockAssumption DEF Holding
  <2>2. PICK y \in Context : y[1] = x[1] /\ lk[x] \in held[y]
    BY <1>1, <1>2, <2>1 DEF Owners
  <2>3. y # x /\ ~Active(y)
    BY <1>2, <2>2, TwoContexts
  <2> QED
    BY <2>2, <2>3 DEF IntrInv, Others
<1>4. /\ pc'[x] = "spin" /\ UNCHANGED <<owner, held, lk, handling, noff, intr, intena, panicked>>
      /\ \A y \in Context : y # x => pc'[y] = pc[y]
  BY <1>1, <1>3 DEF Check, Goto, TypeOK, cpus
<1>5. noff'[x[1]] = Depth(x)'
  BY <1>2, <1>4 DEF IntrInv, Counts, Depth
<1>6. Recorded'
  BY <1>2, <1>4 DEF IntrInv, Recorded
<1>7. x[1] \in CPU
  BY TwoContexts
<1> QED
  BY <1>2, <1>4, <1>5, <1>6, <1>7, ContextStep DEF IntrInv, Interrupts

(* The swap: a lock more is held, and one fewer is on its way. *)
LEMMA SpinIntr ==
  ASSUME LockInv, IntrInv, NEW x \in Context, Spin(x)
  PROVE  IntrInv'
<1>1. TypeOK /\ Positions
  BY Parts
<1>2. /\ lk[x] \in Lock /\ lk[x] \notin held[x] /\ Active(x) /\ pc[x] = "spin"
      /\ x[1] \in CPU
  BY <1>1, TwoContexts DEF Spin, Positions, IntrInv, Fresh, Runs, Active
<1>3. /\ pc'[x] = "record" /\ held'[x] = held[x] \cup {lk[x]}
      /\ UNCHANGED <<owner, lk, handling, noff, intr, intena, panicked>>
      /\ \A y \in Context : y # x => pc'[y] = pc[y] /\ held'[y] = held[y]
  BY <1>1 DEF Spin, Goto, TypeOK, cpus
<1>4. Cardinality(held'[x]) = Cardinality(held[x]) + 1 /\ Cardinality(held[x]) \in Nat
  <2>1. IsFiniteSet(held[x]) /\ Cardinality(held[x]) \in Nat
    BY <1>1, HeldFinite
  <2>2. Cardinality(held[x] \cup {lk[x]}) = Cardinality(held[x]) + 1
    BY <1>2, <2>1, FS_AddElement
  <2> QED
    BY <1>3, <2>1, <2>2
<1>5. noff'[x[1]] = Depth(x)'
  BY <1>2, <1>3, <1>4, SMTT(60) DEF IntrInv, Counts, Depth
<1>6. Recorded'
  BY <1>2, <1>3, SMTT(60) DEF IntrInv, Recorded
<1> QED
  BY <1>2, <1>3, <1>5, <1>6, ContextStep DEF IntrInv, Interrupts

(* The holder records itself. *)
LEMMA RecordIntr ==
  ASSUME LockInv, IntrInv, NEW x \in Context, Record(x)
  PROVE  IntrInv'
<1>1. TypeOK /\ Positions /\ MutualExclusion
  BY Parts
<1>2. lk[x] \in Lock /\ lk[x] \in held[x] /\ Active(x) /\ pc[x] = "record" /\ x[1] \in CPU
  BY <1>1, TwoContexts DEF Record, Positions, Runs, Active
<1>3. /\ pc'[x] = "idle" /\ UNCHANGED <<held, handling, noff, intr, intena, panicked>>
      /\ owner'[lk[x]] = x[1] /\ \A m \in Lock : m # lk[x] => owner'[m] = owner[m]
      /\ \A y \in Context : y # x => pc'[y] = pc[y] /\ lk'[y] = lk[y]
  BY <1>1, <1>2 DEF Record, Goto, TypeOK, cpus
<1>4. noff'[x[1]] = Depth(x)'
  BY <1>2, <1>3 DEF IntrInv, Counts, Depth
<1>5. \A y \in Context : held[y] \subseteq Lock /\ (y # x => lk[x] \notin held[y])
  BY <1>1, <1>2 DEF TypeOK, MutualExclusion
<1>6. Recorded'
  BY <1>2, <1>3, <1>5, SMTT(60) DEF IntrInv, Recorded
<1> QED
  BY <1>2, <1>3, <1>4, <1>6, ContextStep DEF IntrInv, Interrupts

(* The test in release: who holds a lock is recorded as its owner. *)
LEMMA ReleaseIntr ==
  ASSUME LockInv, IntrInv, NEW x \in Context, NEW l \in Lock, Release(x, l)
  PROVE  IntrInv'
<1>1. TypeOK /\ Words /\ MutualExclusion
  BY Parts
<1>2. l \in held[x] /\ Active(x) /\ pc[x] = "idle" /\ x[1] \in CPU
  BY <1>1, TwoContexts DEF Release, Runs, Active
<1>3. Holding(x[1], l)
  BY <1>1, <1>2 DEF Holding, Words, IntrInv, Recorded
<1>4. /\ pc'[x] = "unlock" /\ lk'[x] = l
      /\ UNCHANGED <<held, handling, noff, intr, intena, panicked>>
      /\ \A m \in Lock : m # l => owner'[m] = owner[m]
      /\ \A y \in Context : y # x => pc'[y] = pc[y] /\ lk'[y] = lk[y]
  BY <1>1, <1>3 DEF Release, Goto, TypeOK, cpus
<1>5. noff'[x[1]] = Depth(x)'
  BY <1>2, <1>4 DEF IntrInv, Counts, Depth
<1>6. \A y \in Context : held[y] \subseteq Lock /\ (y # x => l \notin held[y])
  BY <1>1, <1>2 DEF TypeOK, MutualExclusion
<1>7. Recorded'
  BY <1>2, <1>4, <1>6, SMTT(60) DEF IntrInv, Recorded
<1> QED
  BY <1>2, <1>4, <1>5, <1>7, ContextStep DEF IntrInv, Interrupts

(* The store: a lock fewer is held, and its pop_off is due. *)
LEMMA UnlockIntr ==
  ASSUME LockInv, IntrInv, NEW x \in Context, Unlock(x)
  PROVE  IntrInv'
<1>1. TypeOK /\ Positions
  BY Parts
<1>2. lk[x] \in Lock /\ lk[x] \in held[x] /\ Active(x) /\ pc[x] = "unlock" /\ x[1] \in CPU
  BY <1>1, TwoContexts DEF Unlock, Positions, Runs, Active
<1>3. /\ pc'[x] = "pop" /\ held'[x] = held[x] \ {lk[x]}
      /\ UNCHANGED <<owner, handling, noff, intr, intena, panicked>>
      /\ \A y \in Context : y # x => pc'[y] = pc[y] /\ held'[y] = held[y] /\ lk'[y] = lk[y]
  BY <1>1 DEF Unlock, Goto, TypeOK, cpus
<1>4. Cardinality(held'[x]) = Cardinality(held[x]) - 1 /\ Cardinality(held[x]) \in Nat
  <2>1. IsFiniteSet(held[x]) /\ Cardinality(held[x]) \in Nat
    BY <1>1, HeldFinite
  <2>2. Cardinality(held[x] \ {lk[x]}) = Cardinality(held[x]) - 1
    BY <1>2, <2>1, FS_RemoveElement
  <2> QED
    BY <1>3, <2>1, <2>2
<1>5. noff'[x[1]] = Depth(x)'
  BY <1>2, <1>3, <1>4, SMTT(60) DEF IntrInv, Counts, Depth
<1>6. Recorded'
  BY <1>2, <1>3, SMTT(60) DEF IntrInv, Recorded
<1> QED
  BY <1>2, <1>3, <1>5, <1>6, ContextStep DEF IntrInv, Interrupts

(* pop_off: there is a push_off to undo, and interrupts are off. *)
LEMMA PopIntr ==
  ASSUME LockInv, IntrInv, NEW x \in Context, Pop(x)
  PROVE  IntrInv'
<1>1. TypeOK
  BY Parts
<1>2. Active(x) /\ pc[x] = "pop" /\ x[1] \in CPU
  BY TwoContexts DEF Pop, Runs, Active
<1>3. noff[x[1]] = Cardinality(held[x]) + 1 /\ Cardinality(held[x]) \in Nat
  BY <1>1, <1>2, HeldFinite DEF IntrInv, Counts, Depth
<1>4. ~intr[x[1]] /\ ~(noff[x[1]] < 1)
  BY <1>2, <1>3, IntrMeansIdle, SMTT(60)
<1>5. /\ pc'[x] = "idle" /\ UNCHANGED <<owner, held, lk, handling, intena, panicked>>
      /\ noff'[x[1]] = noff[x[1]] - 1 /\ intr'[x[1]] = Reenables(x[1])
      /\ \A c \in CPU : c # x[1] => noff'[c] = noff[c] /\ intr'[c] = intr[c]
      /\ \A y \in Context : y # x => pc'[y] = pc[y]
  BY <1>1, <1>2, <1>4 DEF Pop, PopOff, Goto, TypeOK
<1>6. noff'[x[1]] = Depth(x)'
  BY <1>3, <1>5, SMTT(60) DEF Depth
<1>7. intr'[x[1]] => noff'[x[1]] = 0 /\ ~handling[x[1]]
  <2>1. handling[x[1]] => ~intena[x[1]]
    BY <1>2, <1>3, SMTT(60) DEF IntrInv, Interrupts
  <2>2. intr'[x[1]] => noff[x[1]] = 1 /\ intena[x[1]]
    BY <1>5 DEF Reenables
  <2> QED
    BY <1>3, <1>5, <2>1, <2>2, SMTT(60)
<1>8. handling[x[1]] /\ noff'[x[1]] > 0 => ~intena'[x[1]]
  BY <1>2, <1>3, <1>5, SMTT(60) DEF IntrInv, Interrupts
<1>9. Recorded'
  BY <1>2, <1>5 DEF IntrInv, Recorded
<1> QED
  BY <1>2, <1>5, <1>6, <1>7, <1>8, <1>9, ContextStep DEF IntrInv

(* myproc() of the Zig kernel *)
LEMMA MyProcIntr ==
  ASSUME LockInv, IntrInv, NEW x \in Context, MyProc(x)
  PROVE  IntrInv'
<1>1. TypeOK
  BY Parts
<1>2. Active(x) /\ pc[x] = "idle" /\ x[1] \in CPU /\ noff[x[1]] \in Nat
  BY <1>1, TwoContexts DEF MyProc, Runs, Active, TypeOK
<1>3. /\ UNCHANGED <<owner, noff, handling, pc, lk, held, panicked>> /\ ~intr'[x[1]]
      /\ \A c \in CPU : c # x[1] => intr'[c] = intr[c] /\ intena'[c] = intena[c]
      /\ noff[x[1]] # 0 => intena' = intena
  BY <1>1, <1>2 DEF MyProc, TypeOK
<1>4. noff'[x[1]] = Depth(x)'
  BY <1>2, <1>3 DEF IntrInv, Counts, Depth
<1>5. handling[x[1]] /\ noff'[x[1]] > 0 => ~intena'[x[1]]
  BY <1>2, <1>3, SMTT(60) DEF IntrInv, Interrupts
<1>6. Recorded'
  BY <1>3 DEF IntrInv, Recorded
<1> QED
  BY <1>2, <1>3, <1>4, <1>5, <1>6, ContextStep DEF IntrInv

(* The hart takes an interrupt when its thread is outside of locks, and    *)
(* the handler returns with none.                                          *)
LEMMA InterruptIntr ==
  ASSUME LockInv, IntrInv, NEW c \in CPU, Interrupt(c) \/ InterruptReturn(c)
  PROVE  IntrInv'
<1>1. TypeOK
  BY Parts
<1> DEFINE t == <<c, "thread">>
           h == <<c, "handler">>
<1>2. /\ t \in Context /\ h \in Context /\ t[1] = c /\ h[1] = c /\ t # h
      /\ Active(t) <=> ~handling[c]
      /\ Active(h) <=> handling[c]
  BY TwoContexts DEF Active
<1>3. held[t] = {} /\ pc[t] = "idle" /\ held[h] = {} /\ pc[h] = "idle"
  <2>1. CASE Interrupt(c)
    <3>1. intr[t[1]] /\ intr[h[1]]
      BY <1>2, <2>1 DEF Interrupt
    <3> QED
      BY <1>2, <3>1, IntrMeansIdle
  <2>2. CASE InterruptReturn(c)
    BY <1>2, <2>2 DEF InterruptReturn, IntrInv, Others
  <2> QED
    BY <2>1, <2>2
<1>4. \A x \in Context : x[1] = c => held[x] = {} /\ pc[x] = "idle"
  BY <1>3, TwoContexts
<1>5. noff[c] = 0
  <2>1. Depth(t) = 0 /\ Depth(h) = 0
    BY <1>3, NothingHeld, SMTT(60) DEF Depth
  <2>2. noff[t[1]] = Depth(t) \/ noff[h[1]] = Depth(h)
    BY <1>2 DEF IntrInv, Counts
  <2> QED
    BY <1>2, <2>1, <2>2
<1>6. /\ UNCHANGED <<owner, noff, intena, pc, lk, held, panicked>>
      /\ \A d \in CPU : d # c => handling'[d] = handling[d] /\ intr'[d] = intr[d]
      /\ intr'[c] => ~handling'[c]
  BY <1>1 DEF Interrupt, InterruptReturn, TypeOK
<1> HIDE DEF t, h
<1>7. \A x \in Context : x[1] # c => (Active(x)' <=> Active(x))
  BY <1>6, TwoContexts DEF Active
<1>8. Counts'
  <2> SUFFICES ASSUME NEW x \in Context, Active(x)' PROVE noff'[x[1]] = Depth(x)'
    BY DEF Counts
  <2>1. CASE x[1] = c
    <3>1. Depth(x)' = 0
      <4>1. held'[x] = {} /\ pc'[x] = "idle"
        BY <1>4, <1>6, <2>1
      <4> QED
        BY <4>1, NothingHeld, SMTT(60) DEF Depth
    <3> QED
      BY <1>5, <1>6, <2>1, <3>1
  <2>2. CASE x[1] # c
    <3>1. noff[x[1]] = Depth(x)
      BY <1>7, <2>2 DEF IntrInv, Counts
    <3>2. Depth(x)' = Depth(x)
      BY <1>6 DEF Depth
    <3> QED
      BY <1>6, <3>1, <3>2
  <2> QED
    BY <2>1, <2>2
<1>9. Others'
  BY <1>4, <1>6, <1>7 DEF IntrInv, Others
<1>10. Interrupts'
  BY <1>5, <1>6, SMTT(60) DEF IntrInv, Interrupts
<1>11. Fresh' /\ Recorded'
  BY <1>6 DEF IntrInv, Fresh, Recorded
<1> QED
  BY <1>6, <1>8, <1>9, <1>10, <1>11 DEF IntrInv

(* A thread turns interrupts on and off outside of locks only. *)
LEMMA SetIntrIntr ==
  ASSUME LockInv, IntrInv, NEW c \in CPU, NEW on \in BOOLEAN, SetIntr(c, on)
  PROVE  IntrInv'
<1>1. TypeOK
  BY Parts
<1> DEFINE x == <<c, "thread">>
<1>2. x \in Context /\ x[1] = c /\ Active(x) /\ ~handling[c] /\ noff[c] = 0
  BY TwoContexts DEF SetIntr, Runs, Active
<1>3. /\ UNCHANGED <<owner, noff, intena, handling, pc, lk, held, panicked>>
      /\ \A d \in CPU : d # c => intr'[d] = intr[d]
  BY <1>1 DEF SetIntr, TypeOK
<1> HIDE DEF x
<1>4. noff'[x[1]] = Depth(x)'
  BY <1>2, <1>3 DEF IntrInv, Counts, Depth
<1>5. Recorded'
  BY <1>3 DEF IntrInv, Recorded
<1> QED
  BY <1>2, <1>3, <1>4, <1>5, ContextStep DEF IntrInv, Fresh

(* IntrInv is inductive, given LockInv. *)
LEMMA IntrStep == LockInv /\ IntrInv /\ [Next]_vars => IntrInv'
<1> SUFFICES ASSUME LockInv, IntrInv, [Next]_vars PROVE IntrInv'
  OBVIOUS
<1>1. CASE UNCHANGED vars
  BY <1>1, SMTT(60) DEF vars, cpus, IntrInv, Counts, Others, Interrupts, Fresh, Recorded, Active, Depth
<1>2. CASE Next
  BY <1>2, AcquireIntr, CheckIntr, SpinIntr, RecordIntr, ReleaseIntr, UnlockIntr, PopIntr,
     MyProcIntr, InterruptIntr, SetIntrIntr DEF Next, Step
<1> QED
  BY <1>1, <1>2

(* None of the panics of acquire, release, push_off and pop_off is reached, *)
(* and a cpu that holds a lock or is taking one has interrupts off: with   *)
(* any number of cpus and locks of both kinds, however threads and handlers *)
(* nest them.                                                              *)
THEOREM LocksNeverPanic == Spec => []NoPanic
<1>1. LockInv /\ IntrInv => NoPanic
  BY IntrMeansIdle DEF NoPanic, IntrInv
<1> QED
  BY <1>1, InitInv, IntrInit, StepInv, IntrStep, PTL DEF Spec
=============================================================================
