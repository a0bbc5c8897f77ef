--------------------------- MODULE BufCacheProofs ---------------------------
(***************************************************************************)
(* The proofs about the buffer cache and the disk driver below it: for any *)
(* number of processes, blocks, buffers and descriptors, every reader sees *)
(* what was last written, the counts are right, and no wakeup is lost.     *)
(***************************************************************************)
EXTENDS BufCache, VirtioDiskProofs

(* p has the sleep lock of its buffer. *)
Inside(p) == pc[p] \in {"reading", "held", "dirty", "writing", "installed"}

(* A process outside of bread and brelse has no buffer; inside, it has one *)
(* of its block, and is in virtio_disk_rw only to read or to write it.     *)
UserOk(p) ==
  /\ pc[p] = "out" <=> buf[p] = None
  /\ pc[p] # "out" => buf[p] \in Buf /\ want[p] \in Block /\ blockno[buf[p]] = want[p]
  /\ InRw(p) <=> pc[p] \in {"reading", "writing"}
  /\ InRw(p) => /\ rw[p].b = buf[p] /\ rw[p].block = want[p]
                /\ rw[p].write <=> pc[p] = "writing"

(* Every process is as UserOk says. *)
Users == \A p \in Proc : UserOk(p)

(* A sleep lock is held by the one process inside, and others sleep only   *)
(* while it is.                                                            *)
Locks ==
  /\ \A p \in Proc : Inside(p) => locked[buf[p]] /\ pid[buf[p]] = p
  /\ \A b \in Buf : locked[b] => \E p \in Proc : Inside(p) /\ buf[p] = b
  /\ \A p \in Proc : pc[p] = "asleep" => locked[buf[p]]

(* A block is in one buffer at most. *)
OneBuffer == \A a, b \in Buf : blockno[a] = blockno[b] /\ blockno[a] # None => a = b

(* The processes that bget has given b to *)
UsersOf(b) == {p \in Proc : buf[p] = b}

(* What the log adds to a buffer's count *)
Pinned(b) == IF blockno[b] \in pinned THEN 1 ELSE 0

(* refcnt counts the processes that have the buffer, and the log's pin. *)
Counts ==
  /\ IsFiniteSet(pinned)
  /\ \A b \in Buf : refcnt[b] = Cardinality(UsersOf(b)) + Pinned(b)

(* A valid buffer has what was last put into its block. *)
Contents ==
  /\ \A b \in Buf : valid[b] => blockno[b] \in Block /\ data[b] = content[blockno[b]]
  /\ \A k \in pinned : \E b \in Buf : blockno[b] = k /\ valid[b]

(* Whoever has the lock after bread has returned has a valid buffer;       *)
(* before that, virtio_disk_rw is still to fill it.                        *)
Reads == \A p \in Proc : Inside(p) => (valid[buf[p]] <=> pc[p] # "reading")

(* Somebody has changed k, and has not seen it written. *)
InFlight(k) == \E p \in Proc : want[p] = k /\ pc[p] \in {"dirty", "writing"}

(* k is in the cache. *)
CachedValue(k) == \E b \in Buf : blockno[b] = k /\ valid[b]

(* A block whose contents are not on the disk is in a valid buffer that    *)
(* cannot be recycled: it is pinned, or somebody has it and has yet to     *)
(* write it.                                                               *)
Durable == \A k \in Block : disk[k] # content[k] => CachedValue(k) /\ (k \in pinned \/ InFlight(k))

(* A request that the device is done with has done its work. *)
Requested ==
  \A p \in Proc : HasChain(p) /\ rw[p].head \notin avail =>
    IF rw[p].write THEN disk[want[p]] = content[want[p]] ELSE data[buf[p]] = content[want[p]]

(* After bwrite the disk has the block's contents. *)
Installed == \A p \in Proc : pc[p] = "installed" => disk[want[p]] = content[want[p]]

(* Every buffer is on the list that bget searches. *)
Listed == \A b \in Buf : \E n \in Buf : lru[n] = b

(* The processes that have a buffer *)
Busied == {p \in Proc : buf[p] # None}

(* bget panics only when every buffer is in use. *)
Panics == panicked => Cardinality(Busied) + Cardinality(pinned) >= NBUF

(* The inductive invariant.  That a reader sees the last write depends on  *)
(* there being one buffer to a block, this on the counts being exact when  *)
(* bget recycles one, and on the disk doing what its caller asked.         *)
BufInv ==
  /\ TypeOK /\ DiskInv /\ Users /\ Locks /\ OneBuffer /\ Counts
  /\ Contents /\ Reads /\ Durable /\ Requested /\ Installed /\ Listed /\ Panics

-----------------------------------------------------------------------------
(* Facts about the state *)

USE ZenonT(60)

(* Two processes inside have different buffers, of different blocks. *)
LEMMA Exclusive ==
  ASSUME BufInv, NEW p \in Proc, NEW q \in Proc, Inside(p), Inside(q), p # q
  PROVE  buf[p] # buf[q] /\ want[p] # want[q]
<1>1. buf[p] # buf[q]  BY DEF BufInv, Locks
<1>2. /\ buf[p] \in Buf /\ blockno[buf[p]] = want[p] /\ want[p] \in Block
      /\ buf[q] \in Buf /\ blockno[buf[q]] = want[q]
  BY DEF BufInv, Users, UserOk, Inside
<1>3. want[p] # None  BY <1>2, DiskAssumption
<1> QED  BY <1>1, <1>2, <1>3 DEF BufInv, OneBuffer

(* What a process knows of its buffer stays true while it and its request  *)
(* are left alone, or it is woken.                                         *)
LEMMA UserKept ==
  ASSUME BufInv, NEW q \in Proc, UNCHANGED blockno, buf'[q] = buf[q], want'[q] = want[q],
         pc'[q] = pc[q] \/ (pc[q] = "asleep" /\ pc'[q] = "lock"),
         InRw(q)' <=> InRw(q), SameRequest(q)
  PROVE  UserOk(q)'
<1>1. UserOk(q)  BY DEF BufInv, Users
<1>2. /\ pc'[q] = "out" <=> pc[q] = "out"
      /\ pc'[q] = "writing" <=> pc[q] = "writing"
      /\ pc'[q] \in {"reading", "writing"} <=> pc[q] \in {"reading", "writing"}
  OBVIOUS
<1> QED  BY <1>1, <1>2 DEF UserOk, SameRequest

(* Where a process is inside, its buffer is the only one of its block. *)
LEMMA InsideIs ==
  ASSUME BufInv, NEW p \in Proc, pc[p] # "out"
  PROVE  /\ buf[p] \in Buf /\ want[p] \in Block /\ blockno[buf[p]] = want[p] /\ want[p] # None
         /\ \A b \in Buf : blockno[b] = want[p] => b = buf[p]
<1>1. buf[p] \in Buf /\ want[p] \in Block /\ blockno[buf[p]] = want[p]
  BY DEF BufInv, Users, UserOk
<1>2. want[p] # None  BY <1>1, DiskAssumption
<1> QED  BY <1>1, <1>2 DEF BufInv, OneBuffer

(* Finitely many processes have a given buffer. *)
LEMMA UsersFinite ==
  \A b : IsFiniteSet(UsersOf(b)) /\ Cardinality(UsersOf(b)) \in Nat
<1>1. \A b : UsersOf(b) \subseteq Proc  BY DEF UsersOf
<1> QED  BY <1>1, DiskAssumption, FS_Subset, FS_CardinalityType

(* Finitely many processes have a buffer. *)
LEMMA BusiedFinite == IsFiniteSet(Busied) /\ Cardinality(Busied) \in Nat
<1>1. Busied \subseteq Proc  BY DEF Busied
<1> QED  BY <1>1, DiskAssumption, FS_Subset, FS_CardinalityType

(* A buffer without references is nobody's, and its block is not pinned. *)
LEMMA Unused ==
  ASSUME BufInv, NEW b \in Buf, refcnt[b] = 0
  PROVE  blockno[b] \notin pinned /\ \A p \in Proc : buf[p] # b
<1>1. Cardinality(UsersOf(b)) + Pinned(b) = 0  BY DEF BufInv, Counts
<1>2. Cardinality(UsersOf(b)) \in Nat /\ IsFiniteSet(UsersOf(b))  BY UsersFinite
<1>3. Pinned(b) = 0 /\ Cardinality(UsersOf(b)) = 0  BY <1>1, <1>2, SMTT(60) DEF Pinned
<1>4. UsersOf(b) = {}  BY <1>2, <1>3, FS_EmptySet
<1> QED  BY <1>3, <1>4, SMTT(60) DEF Pinned, UsersOf

(* The list with b moved to its front has all the buffers, too. *)
LEMMA MoveToFrontIs ==
  ASSUME NEW s \in [Buf -> Buf], NEW b \in Buf, \A c \in Buf : \E n \in Buf : s[n] = c
  PROVE  /\ MoveToFront(s, b) \in [Buf -> Buf]
         /\ \A c \in Buf : \E n \in Buf : MoveToFront(s, b)[n] = c
<1> DEFINE n == CHOOSE i \in Buf : s[i] = b
           t == [i \in Buf |-> IF i = 1 THEN b ELSE IF i <= n THEN s[i - 1] ELSE s[i]]
<1>1. n \in Buf /\ s[n] = b  OBVIOUS
<1>2. MoveToFront(s, b) = t
  <2>1. DOMAIN s = Buf  OBVIOUS
  <2> QED  BY <2>1 DEF MoveToFront
<1> HIDE DEF n
<1>3. \A i \in Buf : i \in Nat /\ i >= 1 /\ i <= NBUF /\ (i # 1 => i - 1 \in Buf)
  BY DiskAssumption, SMTT(60) DEF Buf
<1>4. t \in [Buf -> Buf]
  BY <1>1, <1>3
<1>5. ASSUME NEW c \in Buf PROVE \E i \in Buf : t[i] = c
  <2>1. PICK m \in Buf : s[m] = c  OBVIOUS
  <2>2. CASE c = b
    <3>1. 1 \in Buf  BY DiskAssumption, SMTT(60) DEF Buf
    <3> QED  BY <2>2, <3>1
  <2>3. CASE c # b /\ m < n
    <3>1. m + 1 \in Buf /\ m + 1 # 1 /\ m + 1 <= n /\ (m + 1) - 1 = m
      BY <1>1, <2>3, DiskAssumption, SMTT(60) DEF Buf
    <3>2. t[m + 1] = c  BY <2>1, <3>1
    <3> QED  BY <3>1, <3>2
  <2>4. CASE c # b /\ ~(m < n)
    <3>1. m # n  BY <1>1, <2>1, <2>4
    <3>2. m # 1 /\ ~(m <= n)  BY <1>1, <1>3, <2>4, <3>1, SMTT(60)
    <3>3. t[m] = c  BY <2>1, <3>2
    <3> QED  BY <3>3
  <2> QED  BY <2>2, <2>3, <2>4
<1> QED  BY <1>2, <1>4, <1>5

(* The search from the end of the list finds a buffer that nobody uses, if *)
(* there is one.                                                           *)
LEMMA LeastRecentlyUsed ==
  ASSUME lru \in [Buf -> Buf], Listed, \E b \in Buf : Recyclable(b)
  PROVE  \E n \in Buf : Recyclable(lru[n]) /\ \A m \in Buf : Recyclable(lru[m]) => m <= n
<1> DEFINE S == {d \in Nat : NBUF - d \in Buf /\ Recyclable(lru[NBUF - d])}
<1>1. PICK b \in Buf : Recyclable(b)  OBVIOUS
<1>2. PICK m \in Buf : lru[m] = b  BY DEF Listed
<1>3. \A i \in Buf : NBUF - i \in Nat /\ NBUF - (NBUF - i) = i  BY DiskAssumption, SMTT(60) DEF Buf
<1>4. NBUF - m \in S  BY <1>1, <1>2, <1>3
<1>5. Min(S) \in S /\ \A d \in S : Min(S) <= d  BY <1>4, LeastElement
<1>6. \A i \in Buf : Recyclable(lru[i]) => NBUF - i \in S  BY <1>3
<1> DEFINE x == Min(S)
<1>7. x \in Nat /\ NBUF - x \in Buf /\ Recyclable(lru[NBUF - x]) /\ \A d \in S : x <= d
  BY <1>5
<1> HIDE DEF S, x
<1>8. ASSUME NEW i \in Buf, Recyclable(lru[i]) PROVE i <= NBUF - x
  <2>1. x <= NBUF - i  BY <1>6, <1>7, <1>8
  <2> QED  BY <1>7, <2>1, DiskAssumption, SMTT(60) DEF Buf
<1> QED  BY <1>7, <1>8

-----------------------------------------------------------------------------
(* bget *)

(* What a step keeps that leaves the driver and the disk alone *)
LEMMA NoDriverStep ==
  ASSUME BufInv, UNCHANGED dvars
  PROVE  DiskInv' /\ (\A p \in Proc : (InRw(p)' <=> InRw(p)) /\ (HasChain(p)' <=> HasChain(p)))
<1>1. DiskInv'  BY DiskStutters DEF BufInv, dvars
<1> QED  BY <1>1 DEF dvars, InRw, HasChain

(* bget finds the block in a buffer. *)
LEMMA HitStep ==
  ASSUME BufInv, NEW p \in Proc, NEW k \in Block, Hit(p, k)
  PROVE  BufInv'
<1>1. PICK b \in Buf :
        /\ blockno[b] = k
        /\ refcnt' = [refcnt EXCEPT ![b] = @ + 1]
        /\ buf' = [buf EXCEPT ![p] = b]
  BY DEF Hit, Counted
<1>2. /\ pc[p] = "out" /\ ~panicked
      /\ want' = [want EXCEPT ![p] = k] /\ pc' = [pc EXCEPT ![p] = "lock"]
      /\ UNCHANGED <<blockno, valid, lru, sleeplocks, dvars, pinned, content, panicked>>
  BY DEF Hit, Goto
<1>3. TypeOK  BY DEF BufInv
<1>4. /\ TypeOK'
      /\ pc'[p] = "lock" /\ want'[p] = k /\ buf'[p] = b
      /\ \A q \in Proc \ {p} : pc'[q] = pc[q] /\ want'[q] = want[q] /\ buf'[q] = buf[q]
  BY <1>1, <1>2, <1>3, SMTT(60) DEF TypeOK, sleeplocks, dvars
<1>5. DiskInv' /\ \A q \in Proc : (InRw(q)' <=> InRw(q)) /\ (HasChain(q)' <=> HasChain(q))
  BY <1>2, NoDriverStep
<1>6. b # None /\ buf[p] = None /\ ~InRw(p) /\ ~HasChain(p)
  <2>1. ~InRw(p) /\ buf[p] = None  BY <1>2 DEF BufInv, Users, UserOk
  <2> QED  BY <2>1, DiskAssumption DEF BufInv, DiskInv, Requests, InRw
<1>7. Users'
  BY <1>1, <1>2, <1>4, <1>5, <1>6, SMTT(60) DEF BufInv, Users, UserOk, dvars
<1>8. Locks'
  BY <1>2, <1>4, SMTT(60) DEF BufInv, Locks, Inside, sleeplocks
<1>9. OneBuffer' /\ Listed' /\ Panics'
  BY <1>2 DEF BufInv, OneBuffer, Listed, Panics
<1>10. Counts'
  <2>1. ASSUME NEW c \in Buf PROVE refcnt'[c] = Cardinality(UsersOf(c)') + Pinned(c)'
    <3>1. Pinned(c)' = Pinned(c) /\ Pinned(c) \in Nat  BY <1>2 DEF Pinned
    <3>2. refcnt[c] = Cardinality(UsersOf(c)) + Pinned(c)  BY DEF BufInv, Counts
    <3>3. IsFiniteSet(UsersOf(c)) /\ Cardinality(UsersOf(c)) \in Nat  BY UsersFinite
    <3>4. CASE c = b
      <4>1. UsersOf(b)' = UsersOf(b) \cup {p} /\ p \notin UsersOf(b)
        BY <1>4, <1>6 DEF UsersOf
      <4>2. Cardinality(UsersOf(b)') = Cardinality(UsersOf(b)) + 1
        BY <3>3, <3>4, <4>1, FS_AddElement
      <4>3. refcnt'[b] = refcnt[b] + 1  BY <1>1, <1>3 DEF TypeOK
      <4> QED  BY <3>1, <3>2, <3>3, <3>4, <4>2, <4>3, SMTT(60)
    <3>5. CASE c # b
      <4>1. UsersOf(c)' = UsersOf(c)
        BY <1>4, <1>6, <3>5, DiskAssumption DEF UsersOf
      <4>2. refcnt'[c] = refcnt[c]  BY <1>1, <1>3, <3>5 DEF TypeOK
      <4> QED  BY <3>1, <3>2, <4>1, <4>2
    <3> QED  BY <3>4, <3>5
  <2> QED  BY <1>2, <2>1 DEF BufInv, Counts
<1>11. Contents' /\ Reads'
  BY <1>2, <1>4, SMTT(60) DEF BufInv, Contents, Reads, Inside, dvars
<1>12. Durable'
  <2>1. \A j : InFlight(j) => InFlight(j)'
    BY <1>2, <1>4 DEF InFlight
  <2>2. \A j : CachedValue(j)' <=> CachedValue(j)  BY <1>2 DEF CachedValue
  <2> QED  BY <1>2, <2>1, <2>2 DEF BufInv, Durable, dvars
<1>13. Requested' /\ Installed'
  <2>1. \A q \in Proc : HasChain(q)' => HasChain(q) /\ q # p  BY <1>5, <1>6
  <2> QED  BY <1>2, <1>4, <2>1, SMTT(60) DEF BufInv, Requested, Installed, dvars, queue
<1> QED  BY <1>4, <1>5, <1>7, <1>8, <1>9, <1>10, <1>11, <1>12, <1>13 DEF BufInv

(* The panic of bget: each buffer is some process's, or a pinned block's. *)
LEMMA NoBuffers ==
  ASSUME BufInv, \A b \in Buf : ~Recyclable(b)
  PROVE  Cardinality(Busied) + Cardinality(pinned) >= NBUF
<1> DEFINE A == {b \in Buf : \E p \in Proc : buf[p] = b}
           B == {b \in Buf : blockno[b] \in pinned}
<1>1. IsFiniteSet(Buf) /\ Cardinality(Buf) = NBUF
  <2>1. 1 \in Int /\ NBUF \in Int /\ 1 <= NBUF  BY DiskAssumption, SMTT(60)
  <2> QED  BY <2>1, FS_Interval, SMTT(60) DEF Buf
<1>2. Buf = A \cup B
  <2> SUFFICES ASSUME NEW b \in Buf, b \notin A, b \notin B PROVE FALSE
    OBVIOUS
  <2>1. Pinned(b) = 0  BY DEF Pinned
  <2>2. UsersOf(b) = {}  BY DEF UsersOf
  <2>3. Cardinality(UsersOf(b)) = 0  BY <2>2, FS_EmptySet
  <2>4. refcnt[b] = 0  BY <2>1, <2>3, SMTT(60) DEF BufInv, Counts
  <2> QED  BY <2>4 DEF Recyclable
<1>3. IsFiniteSet(A) /\ IsFiniteSet(B) /\ Cardinality(A) \in Nat /\ Cardinality(B) \in Nat
  BY <1>1, FS_Subset, FS_CardinalityType
<1>4. Cardinality(A) <= Cardinality(Busied)
  <2> DEFINE f == [p \in Busied |-> buf[p]]
  <2>1. \A p \in Busied : buf[p] \in A
    <3> SUFFICES ASSUME NEW p \in Busied PROVE buf[p] \in A  OBVIOUS
    <3>1. p \in Proc /\ buf[p] # None  BY DEF Busied
    <3>2. buf[p] \in Buf  BY <3>1 DEF BufInv, TypeOK
    <3> QED  BY <3>1, <3>2
  <2>2. \A b \in A : \E p \in Busied : buf[p] = b
    BY DiskAssumption DEF Busied
  <2>3. f \in Surjection(Busied, A)
    BY <2>1, <2>2 DEF Surjection
  <2> QED  BY <2>3, BusiedFinite, FS_Surjection
<1>5. Cardinality(B) <= Cardinality(pinned)
  <2> DEFINE f == [b \in B |-> blockno[b]]
  <2>1. \A b \in B : blockno[b] \in pinned /\ blockno[b] # None
    BY DiskAssumption DEF BufInv, TypeOK
  <2>2. \A a, b \in B : blockno[a] = blockno[b] => a = b
    BY <2>1 DEF BufInv, OneBuffer
  <2>3. f \in Injection(B, pinned)
    BY <2>1, <2>2 DEF Injection, IsInjective
  <2>4. IsFiniteSet(pinned)  BY DEF BufInv, Counts
  <2> QED  BY <2>3, <2>4, FS_Injection
<1>6. Cardinality(A \cup B) = Cardinality(A) + Cardinality(B) - Cardinality(A \cap B)
  BY <1>3, FS_Union
<1>7. Cardinality(A \cap B) \in Nat
  <2>1. IsFiniteSet(A \cap B)  BY <1>3, FS_Intersection
  <2> QED  BY <2>1, FS_CardinalityType
<1>8. Cardinality(pinned) \in Nat  BY FS_CardinalityType DEF BufInv, Counts
<1> HIDE DEF A, B
<1>9. NBUF = Cardinality(A) + Cardinality(B) - Cardinality(A \cap B)
  BY <1>1, <1>2, <1>6
<1> QED  BY <1>3, <1>4, <1>5, <1>7, <1>8, <1>9, BusiedFinite, DiskAssumption, SMTT(60)

(* bget recycles the buffer used longest ago that nobody has. *)
LEMMA MissStep ==
  ASSUME BufInv, NEW p \in Proc, NEW k \in Block, Miss(p, k)
  PROVE  BufInv'
<1>1. /\ pc[p] = "out" /\ ~panicked /\ ~Cached(k)
      /\ UNCHANGED <<lru, sleeplocks, dvars, pinned, content>>
  BY DEF Miss
<1>2. TypeOK /\ Listed  BY DEF BufInv
<1>3. DiskInv' /\ \A q \in Proc : (InRw(q)' <=> InRw(q)) /\ (HasChain(q)' <=> HasChain(q))
  BY <1>1, NoDriverStep
<1>4. CASE ~\E b \in Buf : Recyclable(b)
  <2>1. panicked' = TRUE /\ UNCHANGED <<blockno, valid, refcnt, buf, want, pc>>
    BY <1>4 DEF Miss
  <2>2. TypeOK'  BY <1>1, <1>2, <2>1 DEF TypeOK, sleeplocks, dvars
  <2>3. Users' /\ Locks' /\ OneBuffer' /\ Listed'
    BY <1>1, <1>3, <2>1 DEF BufInv, Users, UserOk, Locks, Inside, OneBuffer, Listed, sleeplocks, dvars
  <2>4. Counts'
    BY <1>1, <2>1 DEF BufInv, Counts, UsersOf, Pinned
  <2>5. Contents' /\ Reads' /\ Durable'
    BY <1>1, <2>1 DEF BufInv, Contents, Reads, Inside, Durable, InFlight, CachedValue, dvars
  <2>6. Requested' /\ Installed'
    BY <1>1, <1>3, <2>1 DEF BufInv, Requested, Installed, dvars, queue
  <2>7. Panics'
    <3>1. Busied' = Busied /\ pinned' = pinned  BY <1>1, <2>1 DEF Busied
    <3> QED  BY <1>4, <3>1, NoBuffers DEF Panics
  <2> QED  BY <1>3, <2>2, <2>3, <2>4, <2>5, <2>6, <2>7 DEF BufInv
<1>5. CASE \E b \in Buf : Recyclable(b)
  <2>1. \E n \in Buf : Recyclable(lru[n]) /\ \A m \in Buf : Recyclable(lru[m]) => m <= n
    <3>1. lru \in [Buf -> Buf]  BY <1>2 DEF TypeOK
    <3> QED  BY <1>2, <1>5, <3>1, LeastRecentlyUsed
  <2> DEFINE last == CHOOSE n \in Buf : /\ Recyclable(lru[n])
                                        /\ \A m \in Buf : Recyclable(lru[m]) => m <= n
  <2>2. last \in Buf /\ Recyclable(lru[last])  BY <2>1
  <2>3. PICK b \in Buf :
        /\ refcnt[b] = 0
        /\ blockno' = [blockno EXCEPT ![b] = k]
        /\ valid' = [valid EXCEPT ![b] = FALSE]
        /\ refcnt' = [refcnt EXCEPT ![b] = 1]
        /\ buf' = [buf EXCEPT ![p] = b]
        /\ want' = [want EXCEPT ![p] = k]
        /\ pc' = [pc EXCEPT ![p] = "lock"]
        /\ UNCHANGED panicked
    <3>1. lru[last] \in Buf /\ refcnt[lru[last]] = 0  BY <1>2, <2>2 DEF TypeOK, Recyclable
    <3>2. /\ blockno' = [blockno EXCEPT ![lru[last]] = k]
          /\ valid' = [valid EXCEPT ![lru[last]] = FALSE]
          /\ refcnt' = [refcnt EXCEPT ![lru[last]] = 1]
          /\ buf' = [buf EXCEPT ![p] = lru[last]]
          /\ want' = [want EXCEPT ![p] = k]
          /\ pc' = [pc EXCEPT ![p] = "lock"]
          /\ UNCHANGED panicked
      BY <1>5 DEF Miss, Goto
    <3> HIDE DEF last
    <3> QED  BY <3>1, <3>2
  <2>4. blockno[b] \notin pinned /\ \A q \in Proc : buf[q] # b  BY <2>3, Unused
  <2>5. /\ TypeOK'
        /\ pc'[p] = "lock" /\ want'[p] = k /\ buf'[p] = b
        /\ \A q \in Proc \ {p} : pc'[q] = pc[q] /\ want'[q] = want[q] /\ buf'[q] = buf[q]
        /\ blockno'[b] = k /\ ~valid'[b] /\ refcnt'[b] = 1
        /\ \A c \in Buf \ {b} : blockno'[c] = blockno[c] /\ valid'[c] = valid[c] /\ refcnt'[c] = refcnt[c]
    BY <1>1, <1>2, <2>3 DEF TypeOK, sleeplocks, dvars
  <2>6. b # None /\ k # None /\ buf[p] = None /\ ~InRw(p) /\ ~HasChain(p)
    <3>1. ~InRw(p) /\ buf[p] = None  BY <1>1 DEF BufInv, Users, UserOk
    <3> QED  BY <2>3, <3>1, DiskAssumption DEF BufInv, DiskInv, Requests, InRw
  <2>7. \A c \in Buf : blockno[c] # k  BY <1>1 DEF Cached
  <2>8. k \notin pinned  BY <2>7 DEF BufInv, Contents
  <2>9. Users'
    BY <1>1, <1>3, <2>4, <2>5, <2>6, SMTT(60) DEF BufInv, Users, UserOk, dvars
  <2>10. Locks'
    BY <1>1, <2>5, SMTT(60) DEF BufInv, Locks, Inside, sleeplocks
  <2>11. OneBuffer'
    BY <2>5, <2>7, SMTT(60) DEF BufInv, OneBuffer
  <2>12. Listed' /\ Panics'
    BY <1>1, <2>3 DEF BufInv, Listed, Panics
  <2>13. Counts'
    <3>1. ASSUME NEW c \in Buf PROVE refcnt'[c] = Cardinality(UsersOf(c)') + Pinned(c)'
      <4>1. CASE c = b
        <5>1. Pinned(b)' = 0  BY <1>1, <2>5, <2>8 DEF Pinned
        <5>2. UsersOf(b)' = {p}  BY <2>4, <2>5 DEF UsersOf
        <5>3. Cardinality(UsersOf(b)') = 1  BY <5>2, FS_Singleton
        <5> QED  BY <2>5, <4>1, <5>1, <5>3, SMTT(60)
      <4>2. CASE c # b
        <5>1. Pinned(c)' = Pinned(c)  BY <1>1, <2>5, <4>2 DEF Pinned
        <5>2. UsersOf(c)' = UsersOf(c)
          BY <2>5, <2>6, <4>2, DiskAssumption DEF UsersOf
        <5> QED  BY <2>5, <4>2, <5>1, <5>2 DEF BufInv, Counts
      <4> QED  BY <4>1, <4>2
    <3> QED  BY <1>1, <3>1 DEF BufInv, Counts
  <2>14. Contents'
    <3>1. ASSUME NEW c \in Buf, valid'[c] PROVE blockno'[c] \in Block /\ data'[c] = content'[blockno'[c]]
      <4>1. c # b  BY <2>5, <3>1
      <4> QED  BY <1>1, <2>5, <3>1, <4>1 DEF BufInv, Contents, dvars
    <3>2. ASSUME NEW j \in pinned PROVE \E c \in Buf : blockno'[c] = j /\ valid'[c]
      BY <2>4, <2>5, SMTT(60) DEF BufInv, Contents
    <3> QED  BY <1>1, <3>1, <3>2 DEF Contents
  <2>15. Reads'
    BY <2>4, <2>5, SMTT(60) DEF BufInv, Reads, Inside, Users, UserOk
  <2>16. Durable'
    <3> SUFFICES ASSUME NEW j \in Block, disk[j] # content[j]
                 PROVE  CachedValue(j)' /\ (j \in pinned \/ InFlight(j)')
      BY <1>1 DEF Durable, dvars
    <3>1. CachedValue(j) /\ (j \in pinned \/ InFlight(j))  BY DEF BufInv, Durable
    <3>2. InFlight(j) => InFlight(j)'  BY <1>1, <2>5 DEF InFlight
    <3>3. PICK c \in Buf : blockno[c] = j /\ valid[c]  BY <3>1 DEF CachedValue
    <3>4. c # b
      <4>1. CASE j \in pinned  BY <2>4, <3>3, <4>1
      <4>2. CASE InFlight(j)
        <5>1. PICK q \in Proc : want[q] = j /\ pc[q] \in {"dirty", "writing"}  BY <4>2 DEF InFlight
        <5>2. c = buf[q]  BY <3>3, <5>1, InsideIs, SMTT(60)
        <5> QED  BY <2>4, <5>2
      <4> QED  BY <3>1, <4>1, <4>2
    <3>5. CachedValue(j)'  BY <2>5, <3>3, <3>4 DEF CachedValue
    <3> QED  BY <3>1, <3>2, <3>5
  <2>17. Requested' /\ Installed'
    <3>1. \A q \in Proc : HasChain(q)' => HasChain(q) /\ q # p  BY <1>3, <2>6
    <3> QED  BY <1>1, <2>5, <3>1, SMTT(60) DEF BufInv, Requested, Installed, dvars, queue
  <2> QED  BY <1>3, <2>5, <2>9, <2>10, <2>11, <2>12, <2>13, <2>14, <2>15, <2>16, <2>17, SMTT(60) DEF BufInv
<1> QED  BY <1>4, <1>5

-----------------------------------------------------------------------------
(* The sleep locks, brelse *)

(* What a step keeps that changes neither buffers nor references *)
SameBuffers == UNCHANGED <<buffers, buf, want, pinned, panicked>>

(* A step that leaves the buffers and who has them alone keeps what is     *)
(* said of these.                                                          *)
LEMMA SameBuffersStep ==
  ASSUME BufInv, SameBuffers
  PROVE  OneBuffer' /\ Counts' /\ Listed' /\ Panics'
<1>1. OneBuffer' /\ Listed'
  BY DEF BufInv, OneBuffer, Listed, SameBuffers, buffers
<1>2. (\A b : UsersOf(b)' = UsersOf(b)) /\ (\A b \in Buf : Pinned(b)' = Pinned(b)) /\ Busied' = Busied
  BY DEF UsersOf, Pinned, Busied, SameBuffers, buffers
<1>3. Counts'
  BY <1>2 DEF BufInv, Counts, SameBuffers, buffers
<1>4. Panics'
  BY <1>2 DEF BufInv, Panics, SameBuffers
<1> QED  BY <1>1, <1>3, <1>4

(* A process takes the sleep lock of its buffer, or sleeps; bread starts   *)
(* to read a buffer that is not valid.                                     *)
LEMMA AcquiresleepStep ==
  ASSUME BufInv, NEW p \in Proc, Acquiresleep(p)
  PROVE  BufInv'
<1>1. pc[p] = "lock" /\ UNCHANGED <<buffers, data, disk, queue, buf, want, pinned, content, panicked>>
  BY DEF Acquiresleep
<1>2. TypeOK  BY DEF BufInv
<1>3. PICK b \in Buf : b = buf[p] /\ blockno[b] = want[p] /\ want[p] \in Block
  BY <1>1, InsideIs
<1>4. ~InRw(p) /\ ~HasChain(p)
  <2>1. ~InRw(p)  BY <1>1 DEF BufInv, Users, UserOk
  <2> QED  BY <2>1 DEF BufInv, DiskInv, Requests, InRw
<1>5. OneBuffer' /\ Counts' /\ Listed' /\ Panics'
  BY <1>1, SameBuffersStep DEF SameBuffers
<1>6. CASE locked[b]
  <2>1. pc' = [pc EXCEPT ![p] = "asleep"] /\ UNCHANGED <<sleeplocks, rw>>
    BY <1>3, <1>6 DEF Acquiresleep, Goto
  <2>2. TypeOK' /\ pc'[p] = "asleep" /\ \A q \in Proc \ {p} : pc'[q] = pc[q]
    BY <1>1, <1>2, <2>1 DEF TypeOK, buffers, sleeplocks
  <2>3. DiskInv' /\ \A q \in Proc : (InRw(q)' <=> InRw(q)) /\ (HasChain(q)' <=> HasChain(q))
    BY <1>1, <2>1, NoDriverStep DEF dvars
  <2>4. Users'
    <3>1. UserOk(p)'
      BY <1>1, <1>3, <1>4, <2>1, <2>2, <2>3, DiskAssumption DEF UserOk, buffers
    <3>2. ASSUME NEW q \in Proc \ {p} PROVE UserOk(q)'
      <4>1. SameRequest(q)  BY <2>1 DEF SameRequest
      <4> QED  BY <1>1, <2>2, <2>3, <4>1, UserKept DEF buffers
    <3> QED  BY <3>1, <3>2 DEF Users
  <2>5. Locks'
    BY <1>1, <1>3, <1>6, <2>1, <2>2, SMTT(60) DEF BufInv, Locks, Inside, sleeplocks
  <2>6. Contents' /\ Reads'
    BY <1>1, <2>2, SMTT(60) DEF BufInv, Contents, Reads, Inside, buffers
  <2>7. Durable'
    <3>1. \A j : InFlight(j) => InFlight(j)'  BY <1>1, <2>2 DEF InFlight
    <3>2. \A j : CachedValue(j)' <=> CachedValue(j)  BY <1>1 DEF CachedValue, buffers
    <3> QED  BY <1>1, <3>1, <3>2 DEF BufInv, Durable
  <2>8. Requested' /\ Installed'
    BY <1>1, <2>1, <2>2, <2>3 DEF BufInv, Requested, Installed, queue
  <2> QED  BY <1>5, <2>2, <2>3, <2>4, <2>5, <2>6, <2>7, <2>8 DEF BufInv
<1>7. CASE ~locked[b]
  <2>1. \A q \in Proc : Inside(q) => buf[q] # b  BY <1>7 DEF BufInv, Locks
  <2>2. PICK where \in {"held", "reading"} :
          /\ locked' = [locked EXCEPT ![b] = TRUE]
          /\ pid' = [pid EXCEPT ![b] = p]
          /\ pc' = [pc EXCEPT ![p] = where]
          /\ where = "held" => valid[b] /\ UNCHANGED rw
          /\ where = "reading" => ~valid[b] /\ DiskRw(p, b, want[p], FALSE)
    BY <1>3, <1>7 DEF Acquiresleep, Goto
  <2>3. /\ TypeOK' /\ pc'[p] = where /\ \A q \in Proc \ {p} : pc'[q] = pc[q]
        /\ locked'[b] /\ pid'[b] = p
        /\ \A c \in Buf \ {b} : locked'[c] = locked[c] /\ pid'[c] = pid[c]
    BY <1>1, <1>2, <2>2 DEF TypeOK, buffers, sleeplocks
  <2>4. /\ DiskInv' /\ ~HasChain(p)'
        /\ InRw(p)' <=> where = "reading"
        /\ InRw(p)' => rw'[p].b = b /\ rw'[p].block = want[p] /\ rw'[p].write = FALSE
        /\ \A q \in Proc \ {p} : rw'[q] = rw[q]
    <3>1. CASE where = "held"
      <4>1. UNCHANGED <<queue, rw>>  BY <1>1, <2>2, <3>1
      <4>2. DiskInv'  BY <4>1, DiskStutters DEF BufInv
      <4> QED  BY <1>4, <3>1, <4>1, <4>2 DEF InRw, HasChain
    <3>2. CASE where = "reading"
      <4>1. \A q \in Proc : InRw(q) => rw[q].b # b
        BY <2>1 DEF BufInv, Users, UserOk, Inside
      <4>2. DiskRw(p, b, want[p], FALSE) /\ DiskInv  BY <2>2, <3>2 DEF BufInv
      <4>3. UNCHANGED queue  BY <1>1
      <4> QED  BY <1>3, <1>4, <3>2, <4>1, <4>2, <4>3, DiskRwStep
    <3> QED  BY <3>1, <3>2
  <2>5. \A q \in Proc \ {p} : (InRw(q)' <=> InRw(q)) /\ (HasChain(q)' <=> HasChain(q))
    BY <2>4 DEF InRw, HasChain
  <2>6. Users'
    <3>1. UserOk(p)'
      BY <1>1, <1>3, <2>2, <2>3, <2>4, DiskAssumption DEF UserOk, buffers
    <3>2. ASSUME NEW q \in Proc \ {p} PROVE UserOk(q)'
      <4>1. SameRequest(q)  BY <2>4 DEF SameRequest
      <4> QED  BY <1>1, <2>3, <2>5, <4>1, UserKept DEF buffers
    <3> QED  BY <3>1, <3>2 DEF Users
  <2>7. Locks'
    <3>1. ASSUME NEW q \in Proc, Inside(q)' PROVE locked'[buf'[q]] /\ pid'[buf'[q]] = q
      <4>1. CASE q = p  BY <1>1, <1>3, <2>3, <4>1
      <4>2. CASE q # p
        <5>1. Inside(q) /\ buf'[q] = buf[q]  BY <1>1, <2>3, <3>1, <4>2 DEF Inside
        <5>2. buf[q] \in Buf /\ buf[q] # b  BY <2>1, <5>1, InsideIs DEF Inside
        <5> QED  BY <2>3, <5>1, <5>2, SMTT(60) DEF BufInv, Locks
      <4> QED  BY <4>1, <4>2
    <3>2. ASSUME NEW c \in Buf, locked'[c] PROVE \E q \in Proc : Inside(q)' /\ buf'[q] = c
      <4>1. CASE c = b  BY <1>1, <1>3, <2>2, <2>3, <4>1 DEF Inside
      <4>2. CASE c # b
        <5>1. PICK q \in Proc : Inside(q) /\ buf[q] = c  BY <2>3, <3>2, <4>2 DEF BufInv, Locks
        <5>2. q # p  BY <1>3, <4>2, <5>1
        <5> QED  BY <1>1, <2>3, <5>1, <5>2 DEF Inside
      <4> QED  BY <4>1, <4>2
    <3>3. ASSUME NEW q \in Proc, pc'[q] = "asleep" PROVE locked'[buf'[q]]
      <4>1. q # p /\ pc[q] = "asleep"  BY <2>2, <2>3, <3>3
      <4>2. buf[q] \in Buf /\ locked[buf[q]]  BY <4>1, InsideIs DEF BufInv, Locks
      <4> QED  BY <1>1, <2>3, <4>2
    <3> QED  BY <3>1, <3>2, <3>3 DEF Locks
  <2>8. Contents'  BY <1>1 DEF BufInv, Contents, buffers
  <2>9. Reads'
    BY <1>1, <1>3, <2>2, <2>3 DEF BufInv, Reads, Inside, buffers
  <2>10. Durable'
    <3>1. \A j : InFlight(j) => InFlight(j)'  BY <1>1, <2>3 DEF InFlight
    <3>2. \A j : CachedValue(j)' <=> CachedValue(j)  BY <1>1 DEF CachedValue, buffers
    <3> QED  BY <1>1, <3>1, <3>2 DEF BufInv, Durable
  <2>11. Requested' /\ Installed'
    <3>1. ASSUME NEW q \in Proc, HasChain(q)' PROVE HasChain(q) /\ rw'[q] = rw[q]
      BY <2>4, <2>5, <3>1
    <3>2. Requested'
      BY <1>1, <3>1 DEF BufInv, Requested, queue
    <3>3. \A q \in Proc : pc'[q] = "installed" => pc[q] = "installed"
      BY <2>2, <2>3
    <3>4. Installed'  BY <1>1, <3>3 DEF BufInv, Installed
    <3> QED  BY <3>2, <3>4
  <2> QED  BY <1>5, <2>3, <2>4, <2>6, <2>7, <2>8, <2>9, <2>10, <2>11 DEF BufInv
<1> QED  BY <1>6, <1>7

(* kill() ends a sleep in acquiresleep, which looks again. *)
LEMMA KillAsleepStep ==
  ASSUME BufInv, NEW p \in Proc, KillAsleep(p)
  PROVE  BufInv'
<1>1. /\ pc[p] = "asleep" /\ pc' = [pc EXCEPT ![p] = "lock"]
      /\ UNCHANGED <<buffers, sleeplocks, dvars, buf, want, pinned, content, panicked>>
  BY DEF KillAsleep, Goto
<1>2. TypeOK' /\ pc'[p] = "lock" /\ \A q \in Proc \ {p} : pc'[q] = pc[q]
  BY <1>1 DEF BufInv, TypeOK, buffers, sleeplocks, dvars
<1>3. DiskInv' /\ \A q \in Proc : (InRw(q)' <=> InRw(q)) /\ (HasChain(q)' <=> HasChain(q))
  BY <1>1, NoDriverStep
<1>4. OneBuffer' /\ Counts' /\ Listed' /\ Panics'
  BY <1>1, SameBuffersStep DEF SameBuffers
<1>5. Users'
  <2>1. ASSUME NEW q \in Proc PROVE UserOk(q)'
    <3>1. SameRequest(q)  BY <1>1 DEF SameRequest, dvars
    <3> QED  BY <1>1, <1>2, <1>3, <3>1, UserKept DEF buffers
  <2> QED  BY <2>1 DEF Users
<1>6. Locks'
  BY <1>1, <1>2, SMTT(60) DEF BufInv, Locks, Inside, sleeplocks
<1>7. Contents' /\ Reads'
  BY <1>1, <1>2 DEF BufInv, Contents, Reads, Inside, buffers, dvars
<1>8. Durable'
  <2>1. \A j : InFlight(j) => InFlight(j)'  BY <1>1, <1>2 DEF InFlight
  <2>2. \A j : CachedValue(j)' <=> CachedValue(j)  BY <1>1 DEF CachedValue, buffers
  <2> QED  BY <1>1, <2>1, <2>2 DEF BufInv, Durable, dvars
<1>9. Requested' /\ Installed'
  BY <1>1, <1>2, <1>3 DEF BufInv, Requested, Installed, dvars, queue
<1> QED  BY <1>2, <1>3, <1>4, <1>5, <1>6, <1>7, <1>8, <1>9 DEF BufInv

(* brelse releases the sleep lock and wakes who sleeps on it. *)
LEMMA BrelseStep ==
  ASSUME BufInv, NEW p \in Proc, Brelse(p)
  PROVE  BufInv'
<1>1. pc[p] \in {"held", "installed"} /\ Inside(p)  BY DEF Brelse, Inside
<1>2. PICK b \in Buf : b = buf[p]  BY <1>1, InsideIs
<1>3. Holding(p)  BY <1>1 DEF BufInv, Locks, Holding
<1>4. /\ locked' = [locked EXCEPT ![b] = FALSE]
      /\ pid' = [pid EXCEPT ![b] = None]
      /\ pc' = Woken(p, "put")
      /\ UNCHANGED <<buffers, dvars, buf, want, pinned, content, panicked>>
  BY <1>2, <1>3 DEF Brelse
<1>5. TypeOK  BY DEF BufInv
<1>6. /\ pc'[p] = "put"
      /\ \A q \in Proc \ {p} : pc'[q] = IF pc[q] = "asleep" /\ buf[q] = b THEN "lock" ELSE pc[q]
      /\ pc' \in [Proc -> {"out", "lock", "asleep", "reading", "held", "dirty", "writing", "installed", "put"}]
  BY <1>2, <1>4, <1>5 DEF Woken, TypeOK
<1>7. /\ TypeOK' /\ ~locked'[b]
      /\ \A c \in Buf \ {b} : locked'[c] = locked[c] /\ pid'[c] = pid[c]
  BY <1>4, <1>5, <1>6 DEF TypeOK, buffers, dvars
<1>8. DiskInv' /\ \A q \in Proc : (InRw(q)' <=> InRw(q)) /\ (HasChain(q)' <=> HasChain(q))
  BY <1>4, NoDriverStep
<1>9. OneBuffer' /\ Counts' /\ Listed' /\ Panics'
  BY <1>4, SameBuffersStep DEF SameBuffers
<1>10. Users'
  <2>1. UserOk(p)'
    <3>1. UserOk(p) /\ pc[p] # "out" /\ ~InRw(p)  BY <1>1 DEF BufInv, Users, UserOk
    <3> QED  BY <1>4, <1>6, <1>8, <3>1 DEF UserOk, buffers
  <2>2. ASSUME NEW q \in Proc \ {p} PROVE UserOk(q)'
    <3>1. SameRequest(q)  BY <1>4 DEF SameRequest, dvars
    <3>2. pc'[q] = pc[q] \/ (pc[q] = "asleep" /\ pc'[q] = "lock")  BY <1>6
    <3> QED  BY <1>4, <1>8, <3>1, <3>2, UserKept DEF buffers
  <2> QED  BY <2>1, <2>2 DEF Users
<1>11. Locks'
  <2>1. \A q \in Proc : Inside(q)' <=> Inside(q) /\ q # p  BY <1>6 DEF Inside
  <2>2. ASSUME NEW q \in Proc, Inside(q)' PROVE locked'[buf'[q]] /\ pid'[buf'[q]] = q
    <3>1. Inside(q) /\ q # p  BY <2>1, <2>2
    <3>2. buf[q] # b  BY <1>1, <1>2, <3>1, Exclusive
    <3>3. buf[q] \in Buf  BY <3>1, InsideIs DEF Inside
    <3> QED  BY <1>4, <1>7, <3>1, <3>2, <3>3 DEF BufInv, Locks
  <2>3. ASSUME NEW c \in Buf, locked'[c] PROVE \E q \in Proc : Inside(q)' /\ buf'[q] = c
    <3>1. c # b /\ locked[c]  BY <1>7, <2>3
    <3>2. PICK q \in Proc : Inside(q) /\ buf[q] = c  BY <3>1 DEF BufInv, Locks
    <3> QED  BY <1>2, <1>4, <2>1, <3>1, <3>2
  <2>4. ASSUME NEW q \in Proc, pc'[q] = "asleep" PROVE locked'[buf'[q]]
    <3>1. q # p /\ pc[q] = "asleep" /\ buf[q] # b  BY <1>6, <2>4
    <3>2. buf[q] \in Buf /\ locked[buf[q]]  BY <3>1, InsideIs DEF BufInv, Locks
    <3> QED  BY <1>4, <1>7, <3>1, <3>2
  <2> QED  BY <2>2, <2>3, <2>4 DEF Locks
<1>12. Contents'  BY <1>4 DEF BufInv, Contents, buffers, dvars
<1>13. Reads'
  BY <1>4, <1>6 DEF BufInv, Reads, Inside, buffers
<1>14. Durable'
  <2>1. \A j : InFlight(j) => InFlight(j)'  BY <1>1, <1>4, <1>6 DEF InFlight
  <2>2. \A j : CachedValue(j)' <=> CachedValue(j)  BY <1>4 DEF CachedValue, buffers
  <2> QED  BY <1>4, <2>1, <2>2 DEF BufInv, Durable, dvars
<1>15. Requested' /\ Installed'
  BY <1>4, <1>6, <1>8 DEF BufInv, Requested, Installed, dvars, queue
<1> QED  BY <1>7, <1>8, <1>9, <1>10, <1>11, <1>12, <1>13, <1>14, <1>15 DEF BufInv

(* brelse gives the buffer up, and moves it to the front of the list when  *)
(* nobody else has it.                                                     *)
LEMMA PutStep ==
  ASSUME BufInv, NEW p \in Proc, Put(p)
  PROVE  BufInv'
<1>1. pc[p] = "put" /\ ~panicked  BY DEF Put
<1>2. PICK b \in Buf : b = buf[p]  BY <1>1, InsideIs
<1>3. /\ refcnt' = [refcnt EXCEPT ![b] = @ - 1]
      /\ lru' = IF refcnt[b] = 1 THEN MoveToFront(lru, b) ELSE lru
      /\ pc' = [pc EXCEPT ![p] = "out"]
      /\ buf' = [buf EXCEPT ![p] = None]
      /\ want' = [want EXCEPT ![p] = None]
      /\ UNCHANGED <<blockno, valid, sleeplocks, dvars, pinned, content, panicked>>
  BY <1>2 DEF Put, Dropped, Goto
<1>4. TypeOK  BY DEF BufInv
<1>5. lru' \in [Buf -> Buf] /\ Listed'
  <2>1. lru \in [Buf -> Buf] /\ \A c \in Buf : \E n \in Buf : lru[n] = c
    BY DEF BufInv, TypeOK, Listed
  <2>2. /\ MoveToFront(lru, b) \in [Buf -> Buf]
        /\ \A c \in Buf : \E n \in Buf : MoveToFront(lru, b)[n] = c
    BY <2>1, MoveToFrontIs
  <2>3. lru' = lru \/ lru' = MoveToFront(lru, b)  BY <1>3
  <2> QED  BY <2>1, <2>2, <2>3 DEF Listed
<1>6. b # None  BY DiskAssumption
<1>7. /\ IsFiniteSet(UsersOf(b)) /\ p \in UsersOf(b) /\ Cardinality(UsersOf(b)) \in Nat
      /\ UsersOf(b)' = UsersOf(b) \ {p}
      /\ Cardinality(UsersOf(b)') = Cardinality(UsersOf(b)) - 1
  <2>1. IsFiniteSet(UsersOf(b)) /\ Cardinality(UsersOf(b)) \in Nat  BY UsersFinite
  <2>2. p \in UsersOf(b)  BY <1>2 DEF UsersOf
  <2>3. UsersOf(b)' = UsersOf(b) \ {p}  BY <1>3, <1>4, <1>6 DEF UsersOf, TypeOK
  <2>4. Cardinality(UsersOf(b) \ {p}) = Cardinality(UsersOf(b)) - 1
    BY <2>1, <2>2, FS_RemoveElement
  <2> QED  BY <2>1, <2>2, <2>3, <2>4
<1>8. Cardinality(UsersOf(b)) # 0
  BY <1>7, FS_EmptySet
<1>9. refcnt[b] = Cardinality(UsersOf(b)) + Pinned(b) /\ Pinned(b) \in Nat
  BY DEF BufInv, Counts, Pinned
<1>10. refcnt[b] - 1 \in Nat  BY <1>7, <1>8, <1>9, SMTT(60)
<1>11. /\ TypeOK'
       /\ pc'[p] = "out" /\ want'[p] = None /\ buf'[p] = None
       /\ \A q \in Proc \ {p} : pc'[q] = pc[q] /\ want'[q] = want[q] /\ buf'[q] = buf[q]
       /\ refcnt'[b] = refcnt[b] - 1 /\ \A c \in Buf \ {b} : refcnt'[c] = refcnt[c]
  BY <1>3, <1>4, <1>5, <1>10 DEF TypeOK, sleeplocks, dvars
<1>12. DiskInv' /\ \A q \in Proc : (InRw(q)' <=> InRw(q)) /\ (HasChain(q)' <=> HasChain(q))
  BY <1>3, NoDriverStep
<1>13. ~InRw(p) /\ ~HasChain(p)
  <2>1. ~InRw(p)  BY <1>1 DEF BufInv, Users, UserOk
  <2> QED  BY <2>1 DEF BufInv, DiskInv, Requests, InRw
<1>14. Users'
  <2>1. UserOk(p)'  BY <1>11, <1>12, <1>13 DEF UserOk
  <2>2. ASSUME NEW q \in Proc \ {p} PROVE UserOk(q)'
    <3>1. SameRequest(q)  BY <1>3 DEF SameRequest, dvars
    <3> QED  BY <1>3, <1>11, <1>12, <3>1, UserKept
  <2> QED  BY <2>1, <2>2 DEF Users
<1>15. Locks'
  BY <1>1, <1>3, <1>11, SMTT(60) DEF BufInv, Locks, Inside, sleeplocks
<1>16. OneBuffer' /\ Panics'
  BY <1>1, <1>3 DEF BufInv, OneBuffer, Panics
<1>17. Counts'
  <2>1. ASSUME NEW c \in Buf PROVE refcnt'[c] = Cardinality(UsersOf(c)') + Pinned(c)'
    <3>1. Pinned(c)' = Pinned(c)  BY <1>3 DEF Pinned
    <3>2. CASE c = b
      <4>1. refcnt'[b] = Cardinality(UsersOf(b)') + Pinned(b)  BY <1>7, <1>9, <1>11, SMTT(60)
      <4> QED  BY <3>1, <3>2, <4>1
    <3>3. CASE c # b
      <4>1. UsersOf(c)' = UsersOf(c)
        BY <1>2, <1>11, <3>3, DiskAssumption DEF UsersOf
      <4> QED  BY <1>11, <3>1, <3>3, <4>1 DEF BufInv, Counts
    <3> QED  BY <3>2, <3>3
  <2> QED  BY <1>3, <2>1 DEF BufInv, Counts
<1>18. Contents' /\ Reads'
  <2>1. UNCHANGED <<data, valid, blockno, pinned, content>>  BY <1>3 DEF dvars
  <2>2. \A q \in Proc : Inside(q)' => Inside(q) /\ buf'[q] = buf[q] /\ pc'[q] = pc[q]
    BY <1>11 DEF Inside
  <2>3. Contents'  BY <2>1 DEF BufInv, Contents
  <2>4. Reads'  BY <2>1, <2>2 DEF BufInv, Reads
  <2> QED  BY <2>3, <2>4
<1>19. Durable'
  <2>1. \A j : InFlight(j) => InFlight(j)'  BY <1>1, <1>11 DEF InFlight
  <2>2. \A j : CachedValue(j)' <=> CachedValue(j)  BY <1>3 DEF CachedValue
  <2> QED  BY <1>3, <2>1, <2>2 DEF BufInv, Durable, dvars
<1>20. Requested' /\ Installed'
  <2>1. \A q \in Proc : HasChain(q)' => HasChain(q) /\ q # p  BY <1>12, <1>13
  <2>2. UNCHANGED <<data, disk, avail, rw, content>>  BY <1>3 DEF dvars, queue
  <2>3. \A q \in Proc \ {p} : buf'[q] = buf[q] /\ want'[q] = want[q]  BY <1>11
  <2>4. Requested /\ Installed  BY DEF BufInv
  <2>5. Requested'
    <3> SUFFICES ASSUME NEW q \in Proc, HasChain(q)', rw'[q].head \notin avail'
                 PROVE  IF rw'[q].write THEN disk'[want'[q]] = content'[want'[q]]
                                        ELSE data'[buf'[q]] = content'[want'[q]]
      BY DEF Requested
    <3>1. HasChain(q) /\ q # p /\ rw[q].head \notin avail  BY <2>1, <2>2
    <3>2. IF rw[q].write THEN disk[want[q]] = content[want[q]] ELSE data[buf[q]] = content[want[q]]
      BY <2>4, <3>1 DEF Requested
    <3> QED  BY <2>2, <2>3, <3>1, <3>2
  <2>6. Installed'
    <3>1. \A q \in Proc : pc'[q] = "installed" => pc[q] = "installed" /\ want'[q] = want[q]
      <4>1. pc'[p] # "installed"  BY <1>11
      <4> QED  BY <1>11, <4>1
    <3> QED  BY <2>2, <2>4, <3>1 DEF Installed
  <2> QED  BY <2>5, <2>6
<1> QED  BY <1>5, <1>11, <1>12, <1>14, <1>15, <1>16, <1>17, <1>18, <1>19, <1>20 DEF BufInv

-----------------------------------------------------------------------------
(* Reading, changing and writing a buffer *)

(* A process that goes from one place inside to another keeps its lock. *)
LEMMA LocksKept ==
  ASSUME BufInv, NEW p \in Proc, Inside(p), Inside(p)',
         \A q \in Proc \ {p} : pc'[q] = pc[q], UNCHANGED <<sleeplocks, buf>>
  PROVE  Locks'
<1>1. \A q \in Proc : Inside(q)' <=> Inside(q)  BY DEF Inside
<1>2. pc'[p] # "asleep"  BY DEF Inside
<1> QED  BY <1>1, <1>2 DEF BufInv, Locks, sleeplocks

(* virtio_disk_rw returns to bread, and the buffer is valid. *)
LEMMA BreadEndStep ==
  ASSUME BufInv, NEW p \in Proc, BreadEnd(p)
  PROVE  BufInv'
<1>1. /\ pc[p] = "reading" /\ Finish(p)
      /\ valid' = [valid EXCEPT ![buf[p]] = TRUE]
      /\ pc' = [pc EXCEPT ![p] = "held"]
      /\ UNCHANGED <<blockno, refcnt, lru, sleeplocks, buf, want, pinned, content, panicked>>
  BY DEF BreadEnd, Goto
<1>2. TypeOK /\ DiskInv  BY DEF BufInv
<1>3. UNCHANGED <<data, disk, avail>>  BY <1>1 DEF Finish
<1>4. /\ DiskInv' /\ HasChain(p) /\ rw[p].head \notin avail /\ ~InRw(p)' /\ ~HasChain(p)'
      /\ \A q \in Proc \ {p} : SameRequest(q) /\ (InRw(q)' <=> InRw(q))
  BY <1>1, <1>2, FinishStep
<1>5. PICK b \in Buf : b = buf[p] /\ blockno[b] = want[p] /\ want[p] \in Block
  BY <1>1, InsideIs
<1>6. /\ TypeOK' /\ pc'[p] = "held" /\ \A q \in Proc \ {p} : pc'[q] = pc[q]
      /\ valid'[b] /\ \A c \in Buf \ {b} : valid'[c] = valid[c]
  BY <1>1, <1>2, <1>3, <1>5 DEF TypeOK, sleeplocks
<1>7. Users'
  <2>1. UserOk(p)'
    <3>1. UserOk(p)  BY DEF BufInv, Users
    <3> QED  BY <1>1, <1>4, <1>6, <3>1 DEF UserOk
  <2>2. ASSUME NEW q \in Proc \ {p} PROVE UserOk(q)'
    BY <1>1, <1>4, <1>6, UserKept
  <2> QED  BY <2>1, <2>2 DEF Users
<1>8. Locks'  BY <1>1, <1>6, LocksKept DEF Inside
<1>9. OneBuffer' /\ Listed'  BY <1>1 DEF BufInv, OneBuffer, Listed
<1>10. Counts' /\ Panics'
  BY <1>1 DEF BufInv, Counts, Panics, UsersOf, Pinned, Busied
<1>11. data[b] = content[want[p]]
  <2>1. ~rw[p].write  BY <1>1 DEF BufInv, Users, UserOk
  <2> QED  BY <1>4, <1>5, <2>1 DEF BufInv, Requested
<1>12. Contents'
  <2>1. ASSUME NEW c \in Buf, valid'[c] PROVE blockno'[c] \in Block /\ data'[c] = content'[blockno'[c]]
    <3>1. CASE c = b  BY <1>1, <1>3, <1>5, <1>11, <3>1
    <3>2. CASE c # b  BY <1>1, <1>3, <1>6, <2>1, <3>2 DEF BufInv, Contents
    <3> QED  BY <3>1, <3>2
  <2>2. ASSUME NEW j \in pinned PROVE \E c \in Buf : blockno'[c] = j /\ valid'[c]
    BY <1>1, <1>6 DEF BufInv, Contents
  <2> QED  BY <1>1, <2>1, <2>2 DEF Contents
<1>13. Reads'
  <2> SUFFICES ASSUME NEW q \in Proc, Inside(q)' PROVE valid'[buf'[q]] <=> pc'[q] # "reading"
    BY DEF Reads
  <2>1. CASE q = p  BY <1>1, <1>5, <1>6, <2>1
  <2>2. CASE q # p
    <3>1. Inside(q) /\ Inside(p)  BY <1>1, <1>6, <2>2 DEF Inside
    <3>2. buf[q] # b /\ buf[q] \in Buf  BY <1>5, <2>2, <3>1, Exclusive, InsideIs DEF Inside
    <3> QED  BY <1>1, <1>6, <2>2, <3>1, <3>2 DEF BufInv, Reads
  <2> QED  BY <2>1, <2>2
<1>14. Durable'
  <2>1. \A j : InFlight(j) => InFlight(j)'  BY <1>1, <1>6 DEF InFlight
  <2>2. \A j : CachedValue(j) => CachedValue(j)'  BY <1>1, <1>6 DEF CachedValue
  <2> QED  BY <1>1, <1>3, <2>1, <2>2 DEF BufInv, Durable
<1>15. Requested' /\ Installed'
  <2>1. \A q \in Proc : HasChain(q)' => HasChain(q) /\ q # p  BY <1>4 DEF HasChain, SameRequest
  <2>2. \A q \in Proc \ {p} : rw'[q].head = rw[q].head /\ rw'[q].write = rw[q].write
    BY <1>4 DEF SameRequest
  <2>3. UNCHANGED <<data, disk, avail, buf, want, content>>  BY <1>1, <1>3
  <2>4. Requested /\ Installed  BY DEF BufInv
  <2>5. Requested'
    <3> SUFFICES ASSUME NEW q \in Proc, HasChain(q)', rw'[q].head \notin avail'
                 PROVE  IF rw'[q].write THEN disk'[want'[q]] = content'[want'[q]]
                                        ELSE data'[buf'[q]] = content'[want'[q]]
      BY DEF Requested
    <3>1. HasChain(q) /\ q # p  BY <2>1
    <3>2. rw[q].head \notin avail /\ rw'[q].write = rw[q].write  BY <2>2, <2>3, <3>1
    <3>3. IF rw[q].write THEN disk[want[q]] = content[want[q]] ELSE data[buf[q]] = content[want[q]]
      BY <2>4, <3>1, <3>2 DEF Requested
    <3> QED  BY <2>3, <3>2, <3>3
  <2>6. Installed'
    <3>1. \A q \in Proc : pc'[q] = "installed" => pc[q] = "installed"  BY <1>6
    <3> QED  BY <2>3, <2>4, <3>1 DEF Installed
  <2> QED  BY <2>5, <2>6
<1> QED  BY <1>4, <1>6, <1>7, <1>8, <1>9, <1>10, <1>12, <1>13, <1>14, <1>15 DEF BufInv

(* The holder changes the block. *)
LEMMA ModifyStep ==
  ASSUME BufInv, NEW p \in Proc, NEW v \in Value, Modify(p, v)
  PROVE  BufInv'
<1>1. /\ pc[p] = "held"
      /\ data' = [data EXCEPT ![buf[p]] = v]
      /\ content' = [content EXCEPT ![want[p]] = v]
      /\ pc' = [pc EXCEPT ![p] = "dirty"]
      /\ UNCHANGED <<buffers, sleeplocks, disk, queue, rw, buf, want, pinned, panicked>>
  BY DEF Modify, Goto
<1>2. TypeOK /\ Inside(p)  BY <1>1 DEF BufInv, Inside
<1>3. PICK b \in Buf : b = buf[p] /\ blockno[b] = want[p] /\ want[p] \in Block
                       /\ \A c \in Buf : blockno[c] = want[p] => c = b
  BY <1>1, InsideIs
<1>4. /\ TypeOK' /\ pc'[p] = "dirty" /\ \A q \in Proc \ {p} : pc'[q] = pc[q]
      /\ data'[b] = v /\ \A c \in Buf \ {b} : data'[c] = data[c]
      /\ content'[want[p]] = v /\ \A k \in Block \ {want[p]} : content'[k] = content[k]
  BY <1>1, <1>2, <1>3 DEF TypeOK, buffers, sleeplocks
<1>5. DiskInv' /\ \A q \in Proc : (InRw(q)' <=> InRw(q)) /\ (HasChain(q)' <=> HasChain(q))
  <2>1. DiskInv'  BY <1>1, DiskStutters DEF BufInv
  <2> QED  BY <1>1, <2>1 DEF InRw, HasChain
<1>6. Users'
  <2>1. UserOk(p)'
    <3>1. UserOk(p)  BY DEF BufInv, Users
    <3> QED  BY <1>1, <1>4, <1>5, <3>1 DEF UserOk, buffers
  <2>2. ASSUME NEW q \in Proc \ {p} PROVE UserOk(q)'
    <3>1. SameRequest(q)  BY <1>1 DEF SameRequest
    <3> QED  BY <1>1, <1>4, <1>5, <3>1, UserKept DEF buffers
  <2> QED  BY <2>1, <2>2 DEF Users
<1>7. Locks'  BY <1>1, <1>2, <1>4, LocksKept DEF Inside
<1>8. OneBuffer' /\ Counts' /\ Listed' /\ Panics'
  BY <1>1, SameBuffersStep DEF SameBuffers
<1>9. Contents'
  <2>1. ASSUME NEW c \in Buf, valid[c] PROVE blockno[c] \in Block /\ data'[c] = content'[blockno[c]]
    <3>1. blockno[c] \in Block /\ data[c] = content[blockno[c]]  BY <2>1 DEF BufInv, Contents
    <3>2. CASE c = b  BY <1>3, <1>4, <3>2
    <3>3. CASE c # b
      <4>1. blockno[c] \in Block \ {want[p]}  BY <1>3, <3>1, <3>3
      <4> QED  BY <1>4, <3>1, <3>3, <4>1
    <3> QED  BY <3>2, <3>3
  <2>2. UNCHANGED <<blockno, valid, pinned>>  BY <1>1 DEF buffers
  <2> QED  BY <2>1, <2>2 DEF BufInv, Contents
<1>10. Reads'
  BY <1>1, <1>4 DEF BufInv, Reads, Inside, buffers
<1>11. valid[b]  BY <1>1, <1>2, <1>3 DEF BufInv, Reads
<1>12. Durable'
  <2> SUFFICES ASSUME NEW j \in Block, disk'[j] # content'[j]
               PROVE  CachedValue(j)' /\ (j \in pinned' \/ InFlight(j)')
    BY DEF Durable
  <2>1. CASE j = want[p]
    <3>1. InFlight(j)'  BY <1>1, <1>4, <2>1 DEF InFlight
    <3>2. CachedValue(j)'  BY <1>1, <1>3, <1>11, <2>1 DEF CachedValue, buffers
    <3> QED  BY <3>1, <3>2
  <2>2. CASE j # want[p]
    <3>1. disk[j] # content[j]  BY <1>1, <1>4, <2>2
    <3>2. CachedValue(j) /\ (j \in pinned \/ InFlight(j))  BY <3>1 DEF BufInv, Durable
    <3>3. InFlight(j) => InFlight(j)'  BY <1>1, <1>4 DEF InFlight
    <3>4. CachedValue(j)'  BY <1>1, <3>2 DEF CachedValue, buffers
    <3> QED  BY <1>1, <3>2, <3>3, <3>4
  <2> QED  BY <2>1, <2>2
<1>13. \A q \in Proc : q # p /\ Inside(q) =>
         /\ data'[buf[q]] = data[buf[q]] /\ content'[want[q]] = content[want[q]]
         /\ disk'[want[q]] = disk[want[q]]
  <2> SUFFICES ASSUME NEW q \in Proc, q # p, Inside(q)
               PROVE  /\ data'[buf[q]] = data[buf[q]] /\ content'[want[q]] = content[want[q]]
                      /\ disk'[want[q]] = disk[want[q]]
    OBVIOUS
  <2>1. Inside(p)  BY <1>1 DEF Inside
  <2>2. buf[p] # buf[q] /\ want[p] # want[q]  BY <2>1, Exclusive
  <2>3. buf[q] \in Buf /\ want[q] \in Block  BY InsideIs DEF Inside
  <2>4. disk' = disk  BY <1>1
  <2> QED  BY <1>3, <1>4, <2>2, <2>3, <2>4
<1>14. Requested'
  <2>1. \A q \in Proc : HasChain(q)' => HasChain(q) /\ q # p /\ Inside(q)
    <3>1. \A q \in Proc : HasChain(q) => InRw(q)  BY DEF BufInv, DiskInv, Requests, InRw
    <3> QED  BY <1>1, <1>5, <3>1 DEF BufInv, Users, UserOk, Inside
  <2>2. UNCHANGED <<rw, avail, want, buf>>  BY <1>1 DEF queue
  <2> QED  BY <1>13, <2>1, <2>2 DEF BufInv, Requested
<1>15. Installed'
  <2>1. \A q \in Proc : pc'[q] = "installed" => pc[q] = "installed" /\ q # p /\ Inside(q)
    BY <1>4 DEF Inside
  <2> QED  BY <1>1, <1>13, <2>1 DEF BufInv, Installed
<1> QED  BY <1>4, <1>5, <1>6, <1>7, <1>8, <1>9, <1>10, <1>12, <1>14, <1>15 DEF BufInv

(* bwrite calls virtio_disk_rw. *)
LEMMA BwriteStep ==
  ASSUME BufInv, NEW p \in Proc, Bwrite(p)
  PROVE  BufInv'
<1>1. pc[p] \in {"dirty", "held"} /\ Inside(p) /\ (pc[p] = "held" => want[p] \in pinned)
  BY DEF Bwrite, Inside
<1>2. PICK b \in Buf : b = buf[p] /\ blockno[b] = want[p] /\ want[p] \in Block
  BY <1>1, InsideIs
<1>3. Holding(p)  BY <1>1 DEF BufInv, Locks, Holding
<1>4. /\ DiskRw(p, b, want[p], TRUE)
      /\ pc' = [pc EXCEPT ![p] = "writing"]
      /\ UNCHANGED <<buffers, data, disk, queue, sleeplocks, buf, want, pinned, content, panicked>>
  BY <1>2, <1>3 DEF Bwrite, Goto
<1>5. TypeOK /\ DiskInv  BY DEF BufInv
<1>6. ~InRw(p)  BY <1>1 DEF BufInv, Users, UserOk
<1>7. /\ DiskInv' /\ InRw(p)' /\ ~HasChain(p)'
      /\ rw'[p].b = b /\ rw'[p].block = want[p] /\ rw'[p].write = TRUE
      /\ \A q \in Proc \ {p} : rw'[q] = rw[q]
  <2>1. \A q \in Proc : InRw(q) => rw[q].b # b
    <3> SUFFICES ASSUME NEW q \in Proc, InRw(q) PROVE rw[q].b # b  OBVIOUS
    <3>1. Inside(q) /\ rw[q].b = buf[q] /\ q # p  BY <1>6 DEF BufInv, Users, UserOk, Inside
    <3> QED  BY <1>1, <1>2, <3>1, Exclusive
  <2>2. UNCHANGED queue  BY <1>4
  <2> QED  BY <1>2, <1>4, <1>5, <1>6, <2>1, <2>2, DiskRwStep
<1>8. TypeOK' /\ pc'[p] = "writing" /\ \A q \in Proc \ {p} : pc'[q] = pc[q]
  BY <1>4, <1>5 DEF TypeOK, buffers, sleeplocks
<1>9. \A q \in Proc \ {p} : (InRw(q)' <=> InRw(q)) /\ (HasChain(q)' <=> HasChain(q))
  BY <1>7 DEF InRw, HasChain
<1>10. Users'
  <2>1. UserOk(p)'
    BY <1>2, <1>4, <1>7, <1>8, DiskAssumption DEF UserOk, buffers
  <2>2. ASSUME NEW q \in Proc \ {p} PROVE UserOk(q)'
    <3>1. SameRequest(q)  BY <1>7 DEF SameRequest
    <3> QED  BY <1>4, <1>8, <1>9, <3>1, UserKept DEF buffers
  <2> QED  BY <2>1, <2>2 DEF Users
<1>11. Locks'  BY <1>1, <1>4, <1>8, LocksKept DEF Inside
<1>12. OneBuffer' /\ Counts' /\ Listed' /\ Panics'
  BY <1>4, SameBuffersStep DEF SameBuffers
<1>13. Contents'  BY <1>4 DEF BufInv, Contents, buffers
<1>14. Reads'  BY <1>1, <1>4, <1>8 DEF BufInv, Reads, Inside, buffers
<1>15. Durable'
  <2>1. \A j : InFlight(j) => InFlight(j)'  BY <1>4, <1>8 DEF InFlight
  <2>2. \A j : CachedValue(j)' <=> CachedValue(j)  BY <1>4 DEF CachedValue, buffers
  <2> QED  BY <1>4, <2>1, <2>2 DEF BufInv, Durable
<1>16. Requested' /\ Installed'
  BY <1>4, <1>7, <1>8, <1>9 DEF BufInv, Requested, Installed, queue
<1> QED  BY <1>7, <1>8, <1>10, <1>11, <1>12, <1>13, <1>14, <1>15, <1>16 DEF BufInv

(* virtio_disk_rw returns to bwrite. *)
LEMMA BwriteEndStep ==
  ASSUME BufInv, NEW p \in Proc, BwriteEnd(p)
  PROVE  BufInv'
<1>1. /\ pc[p] = "writing" /\ Finish(p)
      /\ pc' = [pc EXCEPT ![p] = "installed"]
      /\ UNCHANGED <<buffers, sleeplocks, buf, want, pinned, content, panicked>>
  BY DEF BwriteEnd, Goto
<1>2. TypeOK /\ DiskInv  BY DEF BufInv
<1>3. UNCHANGED <<data, disk, avail>>  BY <1>1 DEF Finish
<1>4. /\ DiskInv' /\ HasChain(p) /\ rw[p].head \notin avail /\ ~InRw(p)' /\ ~HasChain(p)'
      /\ \A q \in Proc \ {p} : SameRequest(q) /\ (InRw(q)' <=> InRw(q))
  BY <1>1, <1>2, FinishStep
<1>5. TypeOK' /\ pc'[p] = "installed" /\ \A q \in Proc \ {p} : pc'[q] = pc[q]
  BY <1>1, <1>2, <1>3 DEF TypeOK, buffers, sleeplocks
<1>6. Users'
  <2>1. UserOk(p)'
    <3>1. UserOk(p)  BY DEF BufInv, Users
    <3> QED  BY <1>1, <1>4, <1>5, <3>1 DEF UserOk, buffers
  <2>2. ASSUME NEW q \in Proc \ {p} PROVE UserOk(q)'
    BY <1>1, <1>4, <1>5, UserKept DEF buffers
  <2> QED  BY <2>1, <2>2 DEF Users
<1>7. Locks'  BY <1>1, <1>5, LocksKept DEF Inside
<1>8. OneBuffer' /\ Counts' /\ Listed' /\ Panics'
  BY <1>1, SameBuffersStep DEF SameBuffers
<1>9. disk[want[p]] = content[want[p]]
  <2>1. rw[p].write  BY <1>1, <1>4 DEF BufInv, Users, UserOk, DiskInv, Requests, InRw
  <2> QED  BY <1>4, <2>1 DEF BufInv, Requested
<1>10. Contents' /\ Reads'
  BY <1>1, <1>3, <1>5 DEF BufInv, Contents, Reads, Inside, buffers
<1>11. Durable'
  <2> SUFFICES ASSUME NEW j \in Block, disk[j] # content[j]
               PROVE  CachedValue(j)' /\ (j \in pinned \/ InFlight(j)')
    BY <1>1, <1>3 DEF Durable
  <2>1. CachedValue(j) /\ (j \in pinned \/ InFlight(j))  BY DEF BufInv, Durable
  <2>2. InFlight(j) => InFlight(j)'  BY <1>1, <1>5, <1>9 DEF InFlight
  <2>3. CachedValue(j)'  BY <1>1, <2>1 DEF CachedValue, buffers
  <2> QED  BY <2>1, <2>2, <2>3
<1>12. Requested' /\ Installed'
  <2>1. \A q \in Proc : HasChain(q)' => HasChain(q) /\ q # p  BY <1>4 DEF HasChain, SameRequest
  <2>2. Requested'  BY <1>1, <1>3, <1>4, <2>1 DEF BufInv, Requested, SameRequest
  <2>3. Installed'  BY <1>1, <1>3, <1>5, <1>9 DEF BufInv, Installed
  <2> QED  BY <2>2, <2>3
<1> QED  BY <1>4, <1>5, <1>6, <1>7, <1>8, <1>10, <1>11, <1>12 DEF BufInv

(* bpin and bunpin: the reference of the log comes and goes with the pin,  *)
(* and a block goes only when it is on the disk.                           *)
LEMMA PinStep ==
  ASSUME BufInv, NEW p \in Proc, Bpin(p) \/ Bunpin(p)
  PROVE  BufInv'
<1>1. pc[p] \in {"dirty", "installed"} /\ Inside(p) /\ ~panicked
  BY DEF Bpin, Bunpin, Inside
<1>2. PICK b \in Buf : b = buf[p] /\ blockno[b] = want[p] /\ want[p] \in Block
                       /\ \A c \in Buf : blockno[c] = want[p] => c = b
  BY <1>1, InsideIs
<1>3. /\ pc' = [pc EXCEPT ![p] = "held"]
      /\ UNCHANGED <<blockno, valid, lru, sleeplocks, dvars, buf, want, content, panicked>>
  BY DEF Bpin, Bunpin, Goto
<1>4. \/ /\ pc[p] = "dirty" /\ want[p] \in pinned /\ refcnt' = refcnt /\ pinned' = pinned
      \/ /\ pc[p] = "dirty" /\ want[p] \notin pinned
         /\ refcnt' = [refcnt EXCEPT ![b] = @ + 1] /\ pinned' = pinned \cup {want[p]}
      \/ /\ pc[p] = "installed" /\ want[p] \in pinned
         /\ refcnt' = [refcnt EXCEPT ![b] = @ - 1] /\ pinned' = pinned \ {want[p]}
  BY <1>2 DEF Bpin, Bunpin, Pins, Dropped
<1>5. TypeOK  BY DEF BufInv
<1>6. /\ refcnt[b] = Cardinality(UsersOf(b)) + Pinned(b)
      /\ Cardinality(UsersOf(b)) \in Nat /\ Pinned(b) \in {0, 1}
      /\ Pinned(b) = 1 <=> want[p] \in pinned
  <2>1. refcnt[b] = Cardinality(UsersOf(b)) + Pinned(b)  BY DEF BufInv, Counts
  <2>2. Cardinality(UsersOf(b)) \in Nat  BY UsersFinite
  <2>3. Pinned(b) \in {0, 1} /\ (Pinned(b) = 1 <=> want[p] \in pinned)  BY <1>2, SMTT(60) DEF Pinned
  <2> QED  BY <2>1, <2>2, <2>3
<1>7. /\ refcnt' \in [Buf -> Nat] /\ \A c \in Buf \ {b} : refcnt'[c] = refcnt[c]
      /\ refcnt'[b] = Cardinality(UsersOf(b)) + (IF want[p] \in pinned' THEN 1 ELSE 0)
  <2>1. CASE want[p] \in pinned /\ refcnt' = refcnt /\ pinned' = pinned
    BY <1>5, <1>6, <2>1 DEF TypeOK
  <2>2. CASE /\ want[p] \notin pinned
             /\ refcnt' = [refcnt EXCEPT ![b] = @ + 1] /\ pinned' = pinned \cup {want[p]}
    BY <1>5, <1>6, <2>2, SMTT(60) DEF TypeOK
  <2>3. CASE /\ want[p] \in pinned
             /\ refcnt' = [refcnt EXCEPT ![b] = @ - 1] /\ pinned' = pinned \ {want[p]}
    <3>1. refcnt[b] - 1 \in Nat /\ refcnt[b] - 1 = Cardinality(UsersOf(b))  BY <1>6, <2>3, SMTT(60)
    <3> QED  BY <1>5, <1>6, <2>3, <3>1, SMTT(60) DEF TypeOK
  <2> QED  BY <1>4, <2>1, <2>2, <2>3
<1>8. pinned' \subseteq Block /\ \A k \in Block \ {want[p]} : k \in pinned' <=> k \in pinned
  BY <1>2, <1>4, <1>5 DEF TypeOK
<1>9. TypeOK' /\ pc'[p] = "held" /\ \A q \in Proc \ {p} : pc'[q] = pc[q]
  BY <1>3, <1>5, <1>7, <1>8 DEF TypeOK, sleeplocks, dvars
<1>10. DiskInv' /\ \A q \in Proc : (InRw(q)' <=> InRw(q)) /\ (HasChain(q)' <=> HasChain(q))
  BY <1>3, NoDriverStep
<1>11. Users'
  BY <1>1, <1>3, <1>9, <1>10 DEF BufInv, Users, UserOk, dvars
<1>12. Locks'  BY <1>1, <1>3, <1>9, LocksKept DEF Inside
<1>13. OneBuffer' /\ Listed' /\ Panics'
  BY <1>1, <1>3 DEF BufInv, OneBuffer, Listed, Panics
<1>14. Counts'
  <2>1. IsFiniteSet(pinned')
    <3>1. IsFiniteSet(pinned)  BY DEF BufInv, Counts
    <3>2. IsFiniteSet(pinned \cup {want[p]})  BY <3>1, FS_AddElement
    <3>3. IsFiniteSet(pinned \ {want[p]})  BY <3>1, FS_RemoveElement
    <3> QED  BY <1>4, <3>1, <3>2, <3>3
  <2>2. ASSUME NEW c \in Buf PROVE refcnt'[c] = Cardinality(UsersOf(c)') + Pinned(c)'
    <3>1. UsersOf(c)' = UsersOf(c)  BY <1>3 DEF UsersOf
    <3>2. CASE c = b
      <4>1. Pinned(c)' = IF want[p] \in pinned' THEN 1 ELSE 0  BY <1>2, <1>3, <3>2 DEF Pinned
      <4> QED  BY <1>7, <3>1, <3>2, <4>1
    <3>3. CASE c # b
      <4>1. blockno[c] \in Block \cup {None} /\ blockno[c] # want[p]  BY <1>2, <1>5, <3>3 DEF TypeOK
      <4>2. blockno[c] \in pinned' <=> blockno[c] \in pinned
        BY <1>5, <1>8, <4>1, DiskAssumption DEF TypeOK
      <4>3. Pinned(c)' = Pinned(c)  BY <1>3, <4>2 DEF Pinned
      <4> QED  BY <1>7, <3>1, <3>3, <4>3 DEF BufInv, Counts
    <3> QED  BY <3>2, <3>3
  <2> QED  BY <2>1, <2>2 DEF Counts
<1>15. valid[b]  BY <1>1, <1>2 DEF BufInv, Reads
<1>16. Contents'
  <2>1. ASSUME NEW j \in pinned' PROVE \E c \in Buf : blockno[c] = j /\ valid[c]
    <3>1. CASE j = want[p]  BY <1>2, <1>15, <3>1
    <3>2. CASE j # want[p]  BY <1>8, <2>1, <3>2 DEF BufInv, Contents
    <3> QED  BY <3>1, <3>2
  <2> QED  BY <1>3, <2>1 DEF BufInv, Contents, dvars
<1>17. Reads'
  BY <1>1, <1>3, <1>9 DEF BufInv, Reads, Inside
<1>18. Durable'
  <2> SUFFICES ASSUME NEW j \in Block, disk[j] # content[j]
               PROVE  CachedValue(j)' /\ (j \in pinned' \/ InFlight(j)')
    BY <1>3 DEF Durable, dvars
  <2>1. CachedValue(j) /\ (j \in pinned \/ InFlight(j))  BY DEF BufInv, Durable
  <2>2. CachedValue(j)'  BY <1>3, <2>1 DEF CachedValue
  <2>3. CASE j = want[p]
    <3>1. pc[p] # "installed"  BY <2>3 DEF BufInv, Installed
    <3> QED  BY <1>4, <2>2, <2>3, <3>1
  <2>4. CASE j # want[p]
    <3>1. InFlight(j) => InFlight(j)'  BY <1>3, <1>9, <2>4 DEF InFlight
    <3> QED  BY <1>8, <2>1, <2>2, <2>4, <3>1
  <2> QED  BY <2>3, <2>4
<1>19. Requested' /\ Installed'
  BY <1>3, <1>9, <1>10 DEF BufInv, Requested, Installed, dvars, queue
<1> QED  BY <1>9, <1>10, <1>11, <1>12, <1>13, <1>14, <1>16, <1>17, <1>18, <1>19 DEF BufInv

-----------------------------------------------------------------------------
(* The driver and the device *)

(* A step of the driver or the device leaves the cache's variables alone. *)
CacheSame == UNCHANGED <<buffers, sleeplocks, pc, buf, want, pinned, content, panicked>>

(* A step of the driver finishes no request, and moves no data. *)
LEMMA QuietStep ==
  ASSUME BufInv, CacheSame, DiskInv', UNCHANGED <<data, disk>>,
         \A q \in Proc : /\ rw'[q].b = rw[q].b /\ rw'[q].block = rw[q].block /\ rw'[q].write = rw[q].write
                         /\ InRw(q)' <=> InRw(q)
                         /\ HasChain(q)' /\ rw'[q].head \notin avail' => HasChain(q) /\ rw[q].head \notin avail
  PROVE  BufInv'
<1>1. TypeOK'  BY DEF BufInv, TypeOK, CacheSame, buffers, sleeplocks
<1>2. Users'  BY DEF BufInv, Users, UserOk, CacheSame, buffers
<1>3. Locks'  BY DEF BufInv, Locks, Inside, CacheSame, sleeplocks
<1>4. OneBuffer' /\ Counts' /\ Listed' /\ Panics'
  BY SameBuffersStep DEF SameBuffers, CacheSame
<1>5. Contents' /\ Reads'
  BY DEF BufInv, Contents, Reads, Inside, CacheSame, buffers
<1>6. Durable'
  BY DEF BufInv, Durable, InFlight, CachedValue, CacheSame, buffers
<1>7. Requested'
  BY DEF BufInv, Requested, CacheSame
<1>8. Installed'  BY DEF BufInv, Installed, CacheSame
<1> QED  BY <1>1, <1>2, <1>3, <1>4, <1>5, <1>6, <1>7, <1>8 DEF BufInv

(* A step of virtio_disk_rw keeps the invariant of the cache. *)
LEMMA DriverStep ==
  ASSUME BufInv, CacheSame, NEW p \in Proc, Driver(p)
  PROVE  BufInv'
<1>1. DiskInv  BY DEF BufInv
<1>2. CASE Alloc3Fails(p)
  <2>1. DiskInv' /\ \A q \in Proc : SameRequest(q) /\ (InRw(q)' <=> InRw(q))
    BY <1>1, <1>2, Alloc3FailsStep
  <2>2. UNCHANGED <<data, disk, avail>>  BY <1>2 DEF Alloc3Fails, queue
  <2> QED  BY <2>1, <2>2, QuietStep DEF SameRequest, HasChain
<1>3. CASE Submit(p)
  <2>1. /\ DiskInv' /\ avail' = avail \cup {rw'[p].head} /\ InRw(p) /\ InRw(p)'
        /\ rw'[p].b = rw[p].b /\ rw'[p].block = rw[p].block /\ rw'[p].write = rw[p].write
        /\ \A q \in Proc \ {p} : rw'[q] = rw[q]
    BY <1>1, <1>3, SubmitStep
  <2>2. UNCHANGED <<data, disk>>  BY <1>3 DEF Submit
  <2> QED  BY <2>1, <2>2, QuietStep DEF InRw, HasChain
<1>4. CASE Resleep(p) \/ Kill(p)
  <2>1. DiskInv' /\ \A q \in Proc : SameRequest(q) /\ (InRw(q)' <=> InRw(q))
    BY <1>1, <1>4, ResleepStep
  <2>2. UNCHANGED <<data, disk, avail>>  BY <1>4 DEF Resleep, Kill, queue
  <2> QED  BY <2>1, <2>2, QuietStep DEF SameRequest, HasChain
<1> QED  BY <1>2, <1>3, <1>4 DEF Driver

(* The device reads into a buffer that is not valid yet, of a block that   *)
(* is then on the disk, or writes a valid one; nobody else holds either.   *)
LEMMA DeviceFinishesStep ==
  ASSUME BufInv, CacheSame, NEW i \in Desc, DeviceFinishes(i)
  PROVE  BufInv'
<1>1. DiskInv /\ TypeOK  BY DEF BufInv
<1>2. DiskInv' /\ UNCHANGED rw  BY <1>1, DeviceStep
<1>3. PICK p \in Proc :
        /\ HasChain(p) /\ rw[p].head = i /\ i \in avail /\ avail' = avail \ {i}
        /\ IF rw[p].write
           THEN disk' = [disk EXCEPT ![rw[p].block] = data[rw[p].b]] /\ data' = data
           ELSE data' = [data EXCEPT ![rw[p].b] = disk[rw[p].block]] /\ disk' = disk
  BY <1>1, DeviceStep
<1>4. InRw(p)  BY <1>1, <1>3 DEF DiskInv, Requests, InRw
<1>5. /\ Inside(p) /\ pc[p] # "out" /\ rw[p].b = buf[p] /\ rw[p].block = want[p]
      /\ pc[p] = IF rw[p].write THEN "writing" ELSE "reading"
  BY <1>4 DEF BufInv, Users, UserOk, Inside
<1>6. PICK b \in Buf, k \in Block :
        /\ b = buf[p] /\ k = want[p] /\ blockno[b] = k
        /\ \A c \in Buf : blockno[c] = k => c = b
  BY <1>5, InsideIs
<1>7. valid[b] <=> rw[p].write  BY <1>5, <1>6 DEF BufInv, Reads
<1>8. rw[p].write => data[b] = content[k]  BY <1>6, <1>7 DEF BufInv, Contents
<1>9. ~rw[p].write => disk[k] = content[k]
  BY <1>6, <1>7 DEF BufInv, Durable, CachedValue
<1>10. /\ disk \in [Block -> Value] /\ content \in [Block -> Value]
       /\ data \in [Buf -> Value \cup {None}]
  BY <1>1 DEF TypeOK
<1>11. /\ disk' \in [Block -> Value] /\ data' \in [Buf -> Value \cup {None}]
       /\ \A j \in Block \ {k} : disk'[j] = disk[j]
       /\ \A c \in Buf \ {b} : data'[c] = data[c]
       /\ rw[p].write => disk'[k] = content[k] /\ data'[b] = data[b]
       /\ ~rw[p].write => data'[b] = content[k] /\ disk'[k] = disk[k]
  <2>1. CASE rw[p].write
    <3>1. disk' = [disk EXCEPT ![k] = content[k]] /\ data' = data
      BY <1>3, <1>5, <1>6, <1>8, <2>1
    <3> QED  BY <1>10, <2>1, <3>1
  <2>2. CASE ~rw[p].write
    <3>1. data' = [data EXCEPT ![b] = content[k]] /\ disk' = disk
      BY <1>3, <1>5, <1>6, <1>9, <2>2
    <3> QED  BY <1>10, <2>2, <3>1
  <2> QED  BY <2>1, <2>2
<1>12. TypeOK'
  BY <1>1, <1>11 DEF TypeOK, CacheSame, buffers, sleeplocks
<1>13. Users'
  BY <1>2 DEF BufInv, Users, UserOk, InRw, CacheSame, buffers
<1>14. Locks'  BY DEF BufInv, Locks, Inside, CacheSame, sleeplocks
<1>15. OneBuffer' /\ Counts' /\ Listed' /\ Panics'
  BY SameBuffersStep DEF SameBuffers, CacheSame
<1>16. \A c \in Buf : valid[c] => data'[c] = data[c]
  BY <1>7, <1>11
<1>17. Contents' /\ Reads'
  <2>1. Contents'  BY <1>16 DEF BufInv, Contents, CacheSame, buffers
  <2>2. Reads'  BY DEF BufInv, Reads, Inside, CacheSame, buffers
  <2> QED  BY <2>1, <2>2
<1>18. \A j \in Block : disk'[j] = disk[j] \/ disk'[j] = content[j]
  BY <1>11
<1>19. Durable'
  <2>1. \A j : (CachedValue(j)' <=> CachedValue(j)) /\ (InFlight(j)' <=> InFlight(j))
    BY DEF CachedValue, InFlight, CacheSame, buffers
  <2> QED  BY <1>18, <2>1 DEF BufInv, Durable, CacheSame
<1>20. Requested'
  <2> SUFFICES ASSUME NEW q \in Proc, HasChain(q), rw[q].head \notin avail'
               PROVE  IF rw[q].write THEN disk'[want[q]] = content[want[q]]
                                     ELSE data'[buf[q]] = content[want[q]]
    BY <1>2 DEF Requested, HasChain, CacheSame
  <2>1. CASE q = p  BY <1>6, <1>11, <2>1
  <2>2. CASE q # p
    <3>1. rw[q].head \notin avail  BY <1>1, <1>3, <2>2, OneCaller
    <3>2. InRw(q)  BY <1>1 DEF DiskInv, Requests, InRw
    <3>3. Inside(q) /\ pc[q] # "out"  BY <3>2 DEF BufInv, Users, UserOk, Inside
    <3>4. buf[q] \in Buf \ {b} /\ want[q] \in Block \ {k}
      <4>1. buf[q] \in Buf /\ want[q] \in Block  BY <3>3, InsideIs
      <4>2. buf[p] # buf[q] /\ want[p] # want[q]  BY <1>5, <2>2, <3>3, Exclusive
      <4> QED  BY <1>6, <4>1, <4>2
    <3> QED  BY <1>11, <3>1, <3>4 DEF BufInv, Requested
  <2> QED  BY <2>1, <2>2
<1>21. Installed'
  <2>1. \A q \in Proc : pc[q] = "installed" => want[q] \in Block  BY InsideIs
  <2> QED  BY <1>18, <2>1 DEF BufInv, Installed, CacheSame
<1> QED  BY <1>2, <1>12, <1>13, <1>14, <1>15, <1>17, <1>19, <1>20, <1>21 DEF BufInv

(* So does a step of the device or of its interrupt handler. *)
LEMMA DiskStep ==
  ASSUME BufInv, CacheSame, Disk
  PROVE  BufInv'
<1>1. DiskInv  BY DEF BufInv
<1>2. CASE \E p \in Proc : Driver(p)  BY <1>2, DriverStep
<1>3. CASE \E i \in Desc : DeviceFinishes(i)  BY <1>3, DeviceFinishesStep
<1>4. CASE Intr \/ IntrEnd
  <2>1. DiskInv' /\ UNCHANGED <<data, disk, rw, avail>>  BY <1>1, <1>4, IntrStep
  <2> QED  BY <2>1, QuietStep DEF InRw, HasChain
<1>5. CASE IntrUsed
  <2>1. /\ DiskInv' /\ UNCHANGED <<data, disk, avail>>
        /\ \A q \in Proc : SameRequest(q) /\ (InRw(q)' <=> InRw(q))
    BY <1>1, <1>5, IntrUsedStep
  <2> QED  BY <2>1, QuietStep DEF SameRequest, HasChain
<1> QED  BY <1>2, <1>3, <1>4, <1>5 DEF Disk, Device

-----------------------------------------------------------------------------
(* The invariant *)

(* The invariant holds after binit. *)
LEMMA BufStarts == Init => BufInv
<1> SUFFICES ASSUME Init PROVE BufInv  OBVIOUS
<1>1. PICK v \in Value : disk = [k \in Block |-> v] /\ content = disk  BY DEF Init
<1>2. lru = [k \in Buf |-> NBUF + 1 - k]  BY DEF Init
<1>3. \A k \in Buf : NBUF + 1 - k \in Buf /\ NBUF + 1 - (NBUF + 1 - k) = k
  BY DiskAssumption, SMTT(60) DEF Buf
<1>4. lru \in [Buf -> Buf] /\ Listed  BY <1>2, <1>3 DEF Listed
<1>5. TypeOK  BY <1>1, <1>4 DEF Init, TypeOK
<1>6. DiskInv /\ \A p \in Proc : rw[p].pc = "out" /\ rw[p].head = None
  BY DiskStarts DEF Init, DiskInit, NoRw
<1>7. Users  BY <1>6 DEF Init, Users, UserOk, InRw
<1>8. Locks /\ OneBuffer /\ Contents /\ Reads
  BY DEF Init, Locks, OneBuffer, Contents, Reads, Inside
<1>9. Durable /\ Installed  BY <1>1 DEF Init, Durable, Installed
<1>10. Requested  BY <1>6 DEF Requested, HasChain
<1>11. Counts
  <2>1. ASSUME NEW b \in Buf PROVE refcnt[b] = Cardinality(UsersOf(b)) + Pinned(b)
    <3>1. UsersOf(b) = {}  BY DiskAssumption DEF Init, UsersOf
    <3>2. Cardinality(UsersOf(b)) = 0  BY <3>1, FS_EmptySet
    <3> QED  BY <3>2, SMTT(60) DEF Init, Pinned
  <2>2. IsFiniteSet(pinned)  BY FS_EmptySet DEF Init
  <2> QED  BY <2>1, <2>2 DEF Counts
<1>12. Panics  BY DEF Init, Panics
<1> QED  BY <1>4, <1>5, <1>6, <1>7, <1>8, <1>9, <1>10, <1>11, <1>12 DEF BufInv

(* Every step keeps the invariant. *)
LEMMA BufStep == BufInv /\ [Next]_vars => BufInv'
<1> SUFFICES ASSUME BufInv, [Next]_vars PROVE BufInv'  OBVIOUS
<1>1. CASE \E p \in Proc : Step(p)
  <2>1. PICK p \in Proc : Step(p)  BY <1>1
  <2> QED  BY <2>1, AcquiresleepStep, KillAsleepStep, BrelseStep, PutStep, BreadEndStep, BwriteStep,
              BwriteEndStep, PinStep DEF Step
<1>2. CASE \E p \in Proc : \E k \in Block : Hit(p, k) \/ Miss(p, k)
  BY <1>2, HitStep, MissStep
<1>3. CASE \E p \in Proc : \E v \in Value : Modify(p, v)
  BY <1>3, ModifyStep
<1>4. CASE Disk /\ UNCHANGED <<buffers, sleeplocks, pc, buf, want, pinned, content, panicked>>
  BY <1>4, DiskStep DEF CacheSame
<1>5. CASE UNCHANGED vars
  <2>1. DiskInv'  BY <1>5, DiskStutters DEF BufInv, vars, dvars
  <2> QED  BY <1>5, <2>1, QuietStep DEF vars, dvars, queue, CacheSame, InRw, HasChain
<1> QED  BY <1>1, <1>2, <1>3, <1>4, <1>5 DEF Next

(* The inductive invariant of the cache and the driver *)
THEOREM BufInvariant == Spec => []BufInv
BY BufStarts, BufStep, PTL DEF Spec

(* bread gives its caller the last contents of the block asked for, alone, *)
(* whether they are on the disk, only in the cache, or being read: for any *)
(* number of processes, blocks, buffers and descriptors.                   *)
THEOREM ReadersSeeLastWrite == Spec => []Coherent
<1>1. BufInv => Coherent
  <2> SUFFICES ASSUME BufInv, NEW p \in Proc, Holds(p)
               PROVE  /\ blockno[buf[p]] = want[p] /\ data[buf[p]] = content[want[p]]
                      /\ \A q \in Proc : Holds(q) /\ buf[q] = buf[p] => q = p
    BY DEF Coherent
  <2>1. Inside(p) /\ pc[p] # "reading" /\ pc[p] # "out"  BY DEF Holds, Inside
  <2>2. buf[p] \in Buf /\ blockno[buf[p]] = want[p] /\ valid[buf[p]]
    BY <2>1, InsideIs DEF BufInv, Reads
  <2>3. \A q \in Proc : Holds(q) /\ buf[q] = buf[p] => q = p
    BY <2>1, Exclusive DEF Holds, Inside
  <2> QED  BY <2>2, <2>3 DEF BufInv, Contents
<1> QED  BY <1>1, BufInvariant, PTL

(* A block has one buffer, refcnt counts its users and its pin, a pinned   *)
(* block stays cached, and bget panics only if every buffer is taken.      *)
THEOREM CacheConsistent == Spec => []CacheInv
<1>1. BufInv => CacheInv
  <2> SUFFICES ASSUME BufInv PROVE CacheInv  OBVIOUS
  <2>1. \A k \in pinned : \E b \in Buf : blockno[b] = k /\ valid[b] /\ data[b] = content[k]
    BY SMTT(60) DEF BufInv, Contents
  <2>2. \A b \in Buf :
          refcnt[b] = Cardinality({p \in Proc : buf[p] = b}) + (IF blockno[b] \in pinned THEN 1 ELSE 0)
    BY DEF BufInv, Counts, UsersOf, Pinned
  <2>3. panicked => Cardinality({p \in Proc : buf[p] # None}) + Cardinality(pinned) >= NBUF
    BY DEF BufInv, Panics, Busied
  <2> QED  BY <2>1, <2>2, <2>3 DEF BufInv, CacheInv, OneBuffer
<1> QED  BY <1>1, BufInvariant, PTL

(* Who sleeps for a buffer's lock sleeps while a process holds it. *)
THEOREM CacheKeepsWakeups == Spec => []NoLostWakeup
<1>1. BufInv => NoLostWakeup
  <2> SUFFICES ASSUME BufInv, NEW p \in Proc, pc[p] = "asleep"
               PROVE  /\ locked[buf[p]]
                      /\ \E q \in Proc : pid[buf[p]] = q /\ buf[q] = buf[p] /\ (Holds(q) \/ pc[q] \in {"reading", "writing"})
    BY DEF NoLostWakeup
  <2>1. locked[buf[p]] /\ buf[p] \in Buf  BY InsideIs DEF BufInv, Locks
  <2>2. PICK q \in Proc : Inside(q) /\ buf[q] = buf[p]  BY <2>1 DEF BufInv, Locks
  <2>3. pid[buf[p]] = q  BY <2>2 DEF BufInv, Locks
  <2> QED  BY <2>1, <2>2, <2>3 DEF Inside, Holds
<1> QED  BY <1>1, BufInvariant, PTL

(* Every descriptor is free or in the chain of one request, and the driver *)
(* does not panic, whatever the order in which the device finishes.        *)
THEOREM DescriptorsKept == Spec => []DescOwned
<1>1. BufInv => DescOwned  BY DescriptorsOwned DEF BufInv
<1> QED  BY <1>1, BufInvariant, PTL

(* Nobody sleeps in virtio_disk_rw without an interrupt or a returned      *)
(* descriptor to come.                                                     *)
THEOREM DiskKeepsWakeups == Spec => []DiskWakeups
<1>1. BufInv => DiskWakeups  BY CallersWoken DEF BufInv
<1> QED  BY <1>1, BufInvariant, PTL
=============================================================================
