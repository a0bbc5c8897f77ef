----------------------------- MODULE PipeProofs -----------------------------
(***************************************************************************)
(* Proofs about module Pipe: for any number of processes sharing the ends, *)
(* any size of the buffer and any width of the counters.                   *)
(***************************************************************************)
EXTENDS Pipe, Integers, SequenceTheorems, TLAPS

USE ZenonT(60)

(* The steps of a call of pipewrite and of piperead. *)
Writing == {"wwant", "write", "wasleep"}
Reading == {"rwant", "read", "rasleep", "copy"}

(* Somebody has this end in a descriptor; somebody is in pipeclose of one. *)
Has(end) == \E p \in Proc : end \in ends[p]
Closing(where) == \E p \in Proc : pc[p] = where

(* The lock is with the process that is at one of the steps it protects. *)
LockHeld == \A p \in Proc : pc[p] \in {"write", "read", "copy"} <=> lock = p

(* A call is made on an end that is open, and outlasts neither. *)
CallsHaveEnd ==
  \A p \in Proc : /\ pc[p] \in Writing => "w" \in ends[p]
                  /\ pc[p] \in Reading => "r" \in ends[p]

(* An end that somebody has, or that somebody is about to close, is open,  *)
(* and the one is over when the other starts.                              *)
EndOpen(end, where, isopen) ==
  /\ Has(end) \/ Closing(where) => isopen
  /\ ~(Has(end) /\ Closing(where))
  /\ \A p, q \in Proc : pc[p] = where /\ pc[q] = where => p = q

EndsOpen == EndOpen("w", "wclose", writeopen) /\ EndOpen("r", "rclose", readopen)

(* Who sleeps has a reason to, or somebody in the pipe who will wake it. *)
Sleepers ==
  \A p \in Proc :
    /\ pc[p] = "rasleep" =>
         writeopen /\ (Empty \/ \E q \in Proc : killed[q] \/ pc[q] = "write")
    /\ pc[p] = "wasleep" => readopen /\ (Full \/ \E q \in Proc : pc[q] = "copy")

(* The inductive invariant: the pipe is freed with its second end, and no  *)
(* more bytes are in flight than the buffer has room for.                  *)
PipeInv ==
  /\ TypeOK /\ LockHeld /\ CallsHaveEnd /\ EndsOpen
  /\ freed <=> ~readopen /\ ~writeopen
  /\ Sleepers
  /\ Count <= PIPESIZE

-----------------------------------------------------------------------------
(* Arithmetic and sequences *)

(* A product with a factor that is not zero is no smaller than the other. *)
LEMMA Multiple == 
  \A m \in Nat \ {0}, k \in Int : (k >= 1 => m * k >= m) /\ (k <= -1 => m * k <= -m)
BY SMTT(60)

(* Quotient and remainder exist ... *)
LEMMA Division ==
  ASSUME NEW n \in Nat, NEW m \in Nat \ {0}
  PROVE  n % m \in 0 .. m - 1 /\ \E q \in Int : n = m * q + (n % m)
<1>1. n % m \in 0 .. m - 1 /\ n \div m \in Int
  BY SMTT(60)
<1>2. n = m * (n \div m) + (n % m)
  BY SMTT(60)
<1> QED
  BY <1>1, <1>2

(* ... and the remainder is unique. *)
LEMMA Remainder ==
  ASSUME NEW m \in Nat \ {0}, NEW q \in Int, NEW r \in 0 .. m - 1, m * q + r \in Nat
  PROVE  (m * q + r) % m = r
<1> DEFINE n == m * q + r
           s == n % m
<1>1. PICK p \in Int : n = m * p + s
  BY Division
<1>2. s \in 0 .. m - 1
  BY Division
<1> HIDE DEF s
<1>3. m * (q - p) = s - r
  BY <1>1, <1>2, SMTT(60)
<1>4. q - p = 0
  BY <1>2, <1>3, Multiple, SMTT(60)
<1>5. r = s
  BY <1>2, <1>3, <1>4, SMTT(60)
<1> QED
  BY <1>5 DEF s

(* Numbers closer than m have different remainders. *)
LEMMA Apart ==
  ASSUME NEW m \in Nat \ {0}, NEW i \in Nat, NEW j \in Nat, i < j, j < i + m
  PROVE  i % m # j % m
<1> SUFFICES ASSUME i % m = j % m PROVE FALSE
  OBVIOUS
<1>1. PICK p \in Int : i = m * p + (i % m)
  BY Division
<1>2. PICK q \in Int : j = m * q + (j % m)
  BY Division
<1>3. i % m \in Int
  BY Division, SMTT(60)
<1>4. m * (q - p) = j - i
  BY <1>1, <1>2, <1>3, SMTT(60)
<1> QED
  BY <1>4, Multiple, SMTT(60)

(* Adding a multiple changes no remainder. *)
LEMMA Shift ==
  ASSUME NEW m \in Nat \ {0}, NEW n \in Nat, NEW w \in Nat, w % m = 0
  PROVE  (n + w) % m = n % m
<1> DEFINE r == n % m
<1>1. PICK p \in Int : n = m * p + r
  BY Division
<1>2. PICK q \in Int : w = m * q + 0
  BY Division
<1>3. r \in 0 .. m - 1
  BY Division
<1> HIDE DEF r
<1>4. n + w = m * (p + q) + r /\ p + q \in Int /\ n + w \in Nat
  BY <1>1, <1>2, <1>3, SMTT(60)
<1>5. (m * (p + q) + r) % m = r
  <2> DEFINE t == p + q
  <2>1. t \in Int /\ m * t + r \in Nat
    BY <1>4
  <2> HIDE DEF t
  <2>2. (m * t + r) % m = r
    BY <1>3, <2>1, Remainder
  <2> QED
    BY <2>2 DEF t
<1> QED
  BY <1>4, <1>5 DEF r

(* Functions on 1 .. n are sequences; what Append and Tail make of them. *)
LEMMA FunctionIsSeq ==
  ASSUME NEW n \in Nat, NEW S, NEW f \in [1 .. n -> S]
  PROVE  f \in Seq(S) /\ Len(f) = n
BY SMTT(60)

(* A function that goes on with one more value is the sequence with that   *)
(* value appended.                                                         *)
LEMMA AppendIs ==
  ASSUME NEW S, NEW n \in Nat, NEW f \in [1 .. n -> S], NEW g \in [1 .. n + 1 -> S],
         \A i \in 1 .. n : g[i] = f[i]
  PROVE  g = Append(f, g[n + 1])
<1> DEFINE e == g[n + 1]
<1>1. g \in Seq(S) /\ Len(g) = n + 1 /\ e \in S
  BY SMTT(60)
<1>2. /\ Append(f, e) \in Seq(S) /\ Len(Append(f, e)) = n + 1
      /\ \A i \in 1 .. n : Append(f, e)[i] = f[i]
      /\ Append(f, e)[n + 1] = e
  BY <1>1, FunctionIsSeq, AppendProperties, SMTT(60)
<1>3. \A i \in 1 .. n + 1 : g[i] = Append(f, e)[i]
  BY <1>2, SMTT(60)
<1> QED
  BY <1>1, <1>2, <1>3, SeqEqual

(* A function shifted by one is the sequence without its first value. *)
LEMMA TailIs ==
  ASSUME NEW S, NEW n \in Nat \ {0}, NEW f \in [1 .. n -> S], NEW g \in [1 .. n - 1 -> S],
         \A i \in 1 .. n - 1 : g[i] = f[i + 1]
  PROVE  g = Tail(f)
<1>1. g \in Seq(S) /\ Len(g) = n - 1
  BY SMTT(60)
<1>2. /\ Tail(f) \in Seq(S) /\ Len(Tail(f)) = n - 1
      /\ \A i \in 1 .. n - 1 : Tail(f)[i] = f[i + 1]
  BY FunctionIsSeq, HeadTailProperties, SMTT(60)
<1>3. \A i \in 1 .. n - 1 : g[i] = Tail(f)[i]
  BY <1>2
<1> QED
  BY <1>1, <1>2, <1>3, SeqEqual

-----------------------------------------------------------------------------
(* The counters and the ring *)

(* How far w is ahead of r when both wrap, and when that is PIPESIZE *)
LEMMA Distance ==
  ASSUME NEW r \in 0 .. Wrap - 1, NEW w \in 0 .. Wrap - 1
  PROVE  LET d == IF r <= w THEN w - r ELSE w + Wrap - r IN
         /\ (w + Wrap - r) % Wrap = d
         /\ w = (r + PIPESIZE) % Wrap <=> d = PIPESIZE
<1>1. PIPESIZE \in Nat /\ PIPESIZE > 0 /\ Wrap \in Nat /\ Wrap > PIPESIZE
  BY PipeAssumption, SMTT(60)
<1>2. ASSUME NEW n \in 0 .. Wrap - 1 PROVE n % Wrap = n /\ (n + Wrap) % Wrap = n
  BY <1>1, SMTT(60)
<1> DEFINE d == IF r <= w THEN w - r ELSE w + Wrap - r
<1>3. (w + Wrap - r) % Wrap = d
  <2>1. CASE r <= w
    <3>1. w - r \in 0 .. Wrap - 1 /\ w + Wrap - r = (w - r) + Wrap
      BY <1>1, <2>1, SMTT(60)
    <3> QED
      BY <1>2, <2>1, <3>1
  <2>2. CASE ~(r <= w)
    <3>1. w + Wrap - r \in 0 .. Wrap - 1
      BY <1>1, <2>2, SMTT(60)
    <3> QED
      BY <1>2, <2>2, <3>1
  <2> QED
    BY <2>1, <2>2
<1>4. w = (r + PIPESIZE) % Wrap <=> d = PIPESIZE
  <2>1. CASE r + PIPESIZE < Wrap
    <3>1. (r + PIPESIZE) % Wrap = r + PIPESIZE
      BY <1>1, <1>2, <2>1, SMTT(60)
    <3> QED
      BY <1>1, <2>1, <3>1, SMTT(60)
  <2>2. CASE ~(r + PIPESIZE < Wrap)
    <3>1. /\ r + PIPESIZE - Wrap \in 0 .. Wrap - 1
          /\ (r + PIPESIZE - Wrap) + Wrap = r + PIPESIZE
      BY <1>1, <2>2, SMTT(60)
    <3>2. (r + PIPESIZE) % Wrap = r + PIPESIZE - Wrap
      BY <1>2, <3>1
    <3> QED
      BY <1>1, <2>2, <3>2, SMTT(60)
  <2> QED
    BY <2>1, <2>2
<1> QED
  BY <1>3, <1>4

(* What the counters count, although they wrap. *)
LEMMA CountIs ==
  /\ TypeOK => /\ Count = IF nread <= nwrite THEN nwrite - nread ELSE nwrite + Wrap - nread
               /\ Count \in 0 .. Wrap - 1
               /\ Empty <=> Count = 0
               /\ Full <=> Count = PIPESIZE
  /\ TypeOK' => Count' = IF nread' <= nwrite' THEN nwrite' - nread' ELSE nwrite' + Wrap - nread'
<1>1. PIPESIZE \in Nat /\ Wrap \in Nat /\ Wrap > PIPESIZE
  BY PipeAssumption
<1>2. ASSUME TypeOK
      PROVE  /\ Count = IF nread <= nwrite THEN nwrite - nread ELSE nwrite + Wrap - nread
             /\ Full <=> Count = PIPESIZE
  BY <1>2, Distance DEF TypeOK, Count, Full
<1>3. ASSUME TypeOK PROVE Count \in 0 .. Wrap - 1 /\ (Empty <=> Count = 0)
  BY <1>1, <1>2, <1>3, SMTT(60) DEF TypeOK, Empty
<1>4. ASSUME TypeOK'
      PROVE  Count' = IF nread' <= nwrite' THEN nwrite' - nread' ELSE nwrite' + Wrap - nread'
  BY <1>4, Distance DEF TypeOK, Count
<1> QED
  BY <1>2, <1>3, <1>4

(* A counter's next value stays in range and wraps to 0. *)
LEMMA IncIs ==
  ASSUME NEW n \in 0 .. Wrap - 1
  PROVE  /\ Inc(n) = IF n = Wrap - 1 THEN 0 ELSE n + 1
         /\ Inc(n) \in 0 .. Wrap - 1
<1>1. Wrap \in Nat /\ Wrap > 0
  BY PipeAssumption, SMTT(60)
<1>2. CASE n = Wrap - 1
  <2>1. n + 1 = 0 + Wrap /\ (0 + Wrap) % Wrap = 0
    BY <1>1, <1>2, SMTT(60)
  <2> QED
    BY <1>1, <1>2, <2>1, SMTT(60) DEF Inc
<1>3. CASE n # Wrap - 1
  <2>1. (n + 1) % Wrap = n + 1
    BY <1>1, <1>3, SMTT(60)
  <2> QED
    BY <1>1, <1>3, <2>1, SMTT(60) DEF Inc
<1> QED
  BY <1>2, <1>3

(* Where the k-th byte in the pipe is, counting from 0. *)
Slot(k) == (nread + k) % PIPESIZE

(* The slots of the bytes differ from one another and from the next one to *)
(* be written, and all are in the array.                                   *)
LEMMA Slots ==
  ASSUME TypeOK
  PROVE  /\ \A k \in Nat : Slot(k) \in 0 .. PIPESIZE - 1
         /\ \A i, k \in Nat : i < k /\ k < PIPESIZE => Slot(i) # Slot(k)
         /\ nwrite % PIPESIZE = Slot(Count)
<1>1. /\ nread \in Nat /\ nwrite \in Nat /\ PIPESIZE \in Nat \ {0} /\ Wrap \in Nat
      /\ Wrap % PIPESIZE = 0
  BY PipeAssumption, SMTT(60) DEF TypeOK
<1>2. \A k \in Nat : Slot(k) \in 0 .. PIPESIZE - 1
  BY <1>1, Division, SMTT(60) DEF Slot
<1>3. ASSUME NEW i \in Nat, NEW k \in Nat, i < k, k < PIPESIZE PROVE Slot(i) # Slot(k)
  <2>1. nread + i < nread + k /\ nread + k < (nread + i) + PIPESIZE
    BY <1>1, <1>3, SMTT(60)
  <2> DEFINE x == nread + i
             y == nread + k
  <2>2. x \in Nat /\ y \in Nat /\ x < y /\ y < x + PIPESIZE
    BY <1>1, <2>1, SMTT(60)
  <2> HIDE DEF x, y
  <2>3. x % PIPESIZE # y % PIPESIZE
    BY <1>1, <2>2, Apart
  <2> QED
    BY <2>3 DEF Slot, x, y
<1>4. nwrite % PIPESIZE = Slot(Count)
  <2>1. CASE nread <= nwrite
    BY <1>1, <2>1, CountIs, SMTT(60) DEF Slot
  <2>2. CASE ~(nread <= nwrite)
    <3>1. nread + Count = nwrite + Wrap
      BY <1>1, <2>2, CountIs, SMTT(60)
    <3>2. (nwrite + Wrap) % PIPESIZE = nwrite % PIPESIZE
      BY <1>1, Shift
    <3> QED
      BY <3>1, <3>2 DEF Slot
  <2> QED
    BY <2>1, <2>2
<1> QED
  BY <1>2, <1>3, <1>4

(* pi->nwrite++ of a pipe that is not full *)
LEMMA OneMore ==
  ASSUME TypeOK, TypeOK', Count <= PIPESIZE, ~Full, nwrite' = Inc(nwrite), nread' = nread
  PROVE  Count' = Count + 1 /\ Count < PIPESIZE
<1>1. /\ nread \in 0 .. Wrap - 1 /\ nwrite \in 0 .. Wrap - 1
      /\ PIPESIZE \in Nat /\ Wrap \in Nat /\ Wrap > PIPESIZE
  BY PipeAssumption DEF TypeOK
<1>2. Count < PIPESIZE
  BY <1>1, CountIs, SMTT(60)
<1>3. Count' = IF nread' <= nwrite' THEN nwrite' - nread' ELSE nwrite' + Wrap - nread'
  BY CountIs
<1> QED
  BY <1>1, <1>2, <1>3, CountIs, IncIs, SMTT(60)

(* pi->nread++ of a pipe that is not empty *)
LEMMA OneLess ==
  ASSUME TypeOK, TypeOK', ~Empty, nread' = Inc(nread), nwrite' = nwrite
  PROVE  /\ Count' = Count - 1
         /\ \A k \in Nat : Slot(k)' = Slot(k + 1)
<1>1. /\ nread \in 0 .. Wrap - 1 /\ nwrite \in 0 .. Wrap - 1
      /\ PIPESIZE \in Nat \ {0} /\ Wrap \in Nat /\ Wrap % PIPESIZE = 0
  BY PipeAssumption DEF TypeOK
<1>2. Count' = IF nread' <= nwrite' THEN nwrite' - nread' ELSE nwrite' + Wrap - nread'
  BY CountIs
<1>3. Count' = Count - 1
  BY <1>1, <1>2, CountIs, IncIs, SMTT(60)
<1>4. ASSUME NEW k \in Nat PROVE (nread' + k) % PIPESIZE = (nread + (k + 1)) % PIPESIZE
  <2>1. CASE nread = Wrap - 1
    <3>1. nread + (k + 1) = k + Wrap /\ nread' + k = k
      BY <1>1, <2>1, IncIs, SMTT(60)
    <3>2. (k + Wrap) % PIPESIZE = k % PIPESIZE
      BY <1>1, Shift
    <3> QED
      BY <3>1, <3>2
  <2>2. CASE nread # Wrap - 1
    <3>1. nread' + k = nread + (k + 1)
      BY <1>1, <2>2, IncIs, SMTT(60)
    <3> QED
      BY <3>1
  <2> QED
    BY <2>1, <2>2
<1> QED
  BY <1>3, <1>4 DEF Slot

-----------------------------------------------------------------------------
(* The invariant *)

(* What a process does: its calls, its program and being killed. *)
Moves(p) == Step(p) \/ Program(p) \/ Kill(p)

(* Every step keeps the types. *)
LEMMA TypeStep ==
  ASSUME TypeOK, NEW p \in Proc, Moves(p)
  PROVE  TypeOK'
<1> USE PipeAssumption DEF Goto, GotoWaking, WakingReaders, WakingWriters, Return, pipe, open
<1>1. CASE Acquire(p)
  BY <1>1 DEF Acquire, TypeOK
<1>2. CASE WriteFail(p)
  BY <1>2 DEF WriteFail, TypeOK
<1>3. CASE WriteSleep(p)
  BY <1>3 DEF WriteSleep, TypeOK
<1>4. CASE WriteByte(p)
  <2>1. nwrite' \in 0 .. Wrap - 1
    BY <1>4, IncIs DEF WriteByte, TypeOK
  <2>2. data' \in [0 .. PIPESIZE - 1 -> Byte \cup {None}]
    BY <1>4, SMTT(60) DEF WriteByte, TypeOK
  <2>3. left' \in [Proc -> Nat]
    BY <1>4, SMTT(60) DEF WriteByte, TypeOK
  <2> QED
    BY <1>4, <2>1, <2>2, <2>3 DEF WriteByte, TypeOK
<1>5. CASE WriteEnd(p)
  BY <1>5 DEF WriteEnd, TypeOK
<1>6. CASE Read(p)
  <2>1. pc' \in [Proc -> {"out", "wwant", "write", "wasleep", "rwant", "read", "rasleep",
                          "copy", "rclose", "wclose"}]
    BY <1>6, SMTT(60) DEF Read, TypeOK
  <2>2. lock' \in Proc \cup {None} /\ left' \in [Proc -> Nat]
    BY <1>6, SMTT(60) DEF Read, TypeOK
  <2> QED
    BY <1>6, <2>1, <2>2 DEF Read, TypeOK
<1>7. CASE CopyByte(p)
  <2>1. nread' \in 0 .. Wrap - 1
    BY <1>7, IncIs DEF CopyByte, TypeOK
  <2>2. left' \in [Proc -> Nat]
    BY <1>7, SMTT(60) DEF CopyByte, TypeOK, Copyable
  <2> QED
    BY <1>7, <2>1, <2>2 DEF CopyByte, TypeOK
<1>8. CASE ReadEnd(p)
  BY <1>8 DEF ReadEnd, TypeOK
<1>9. CASE PipeClose(p)
  <2>1. /\ readopen' \in BOOLEAN /\ writeopen' \in BOOLEAN
        /\ pc' \in [Proc -> {"out", "wwant", "write", "wasleep", "rwant",
                             "read", "rasleep", "copy", "rclose", "wclose"}]
    BY <1>9 DEF PipeClose, TypeOK
  <2>2. freed' \in BOOLEAN
    BY <1>9 DEF PipeClose
  <2> QED
    BY <1>9, <2>1, <2>2 DEF PipeClose, TypeOK
<1>10. CASE Kill(p)
  BY <1>10 DEF Kill, TypeOK
<1>11. ASSUME NEW end \in {"r", "w"}, Close(p, end) PROVE TypeOK'
  BY <1>11 DEF Close, TypeOK
<1>12. ASSUME NEW end \in {"r", "w"}, NEW n \in Sizes, Call(p, end, n) PROVE TypeOK'
  BY <1>12 DEF Call, TypeOK
<1> QED
  BY <1>1, <1>2, <1>3, <1>4, <1>5, <1>6, <1>7, <1>8, <1>9, <1>10, <1>11, <1>12 DEF Moves, Step, Program

(* Every step keeps the lock and the calls in order. *)
LEMMA CallStep ==
  ASSUME TypeOK, LockHeld, CallsHaveEnd, NEW p \in Proc, Moves(p)
  PROVE  LockHeld' /\ CallsHaveEnd'
<1> USE PipeAssumption DEF Goto, GotoWaking, WakingReaders, WakingWriters, Return, pipe, open
<1>1. CASE Acquire(p)
  BY <1>1, SMTT(60) DEF Acquire, TypeOK, LockHeld, CallsHaveEnd, Writing, Reading
<1>2. CASE WriteFail(p)
  BY <1>2 DEF WriteFail, TypeOK, LockHeld, CallsHaveEnd, Writing, Reading
<1>3. CASE WriteSleep(p)
  BY <1>3 DEF WriteSleep, TypeOK, LockHeld, CallsHaveEnd, Writing, Reading
<1>4. CASE WriteByte(p)
  BY <1>4 DEF WriteByte, TypeOK, LockHeld, CallsHaveEnd, Writing, Reading
<1>5. CASE WriteEnd(p)
  BY <1>5 DEF WriteEnd, TypeOK, LockHeld, CallsHaveEnd, Writing, Reading
<1>6. CASE Read(p)
  <2>1. /\ lock = p /\ "r" \in ends[p] /\ ends' = ends
        /\ \A q \in Proc \ {p} : pc'[q] = pc[q]
        /\ \/ pc'[p] = "copy" /\ lock' = p
           \/ pc'[p] \in {"out", "rasleep"} /\ lock' = None
    <3>1. lock = p /\ "r" \in ends[p]
      BY <1>6 DEF Read, LockHeld, CallsHaveEnd, Reading
    <3>2. PICK w \in {"copy", "out", "rasleep"} :
            pc' = [pc EXCEPT ![p] = w] /\ lock' = IF w = "copy" THEN lock ELSE None
      BY <1>6 DEF Read
    <3> QED
      BY <1>6, <3>1, <3>2 DEF Read, TypeOK
  <2>2. LockHeld'
    BY <2>1 DEF LockHeld
  <2>3. CallsHaveEnd'
    BY <2>1 DEF CallsHaveEnd, Reading, Writing
  <2> QED
    BY <2>2, <2>3
<1>7. CASE CopyByte(p)
  BY <1>7 DEF CopyByte, TypeOK, LockHeld, CallsHaveEnd, Writing, Reading
<1>8. CASE ReadEnd(p)
  BY <1>8 DEF ReadEnd, TypeOK, LockHeld, CallsHaveEnd, Writing, Reading
<1>9. CASE PipeClose(p)
  <2>1. /\ lock = None /\ lock' = None /\ ends' = ends /\ pc'[p] = "out"
        /\ \A q \in Proc \ {p} : \/ pc'[q] = pc[q]
                                 \/ pc[q] = "rasleep" /\ pc'[q] = "rwant"
                                 \/ pc[q] = "wasleep" /\ pc'[q] = "wwant"
    BY <1>9 DEF PipeClose
  <2>2. LockHeld'
    BY <2>1 DEF LockHeld
  <2>3. CallsHaveEnd'
    <3>1. ASSUME NEW q \in Proc
          PROVE  /\ pc'[q] \in Writing => pc[q] \in Writing
                 /\ pc'[q] \in Reading => pc[q] \in Reading
      BY <2>1 DEF Writing, Reading
    <3> QED
      BY <2>1, <3>1 DEF CallsHaveEnd
  <2> QED
    BY <2>2, <2>3
<1>10. CASE Kill(p)
  BY <1>10, SMTT(60) DEF Kill, TypeOK, LockHeld, CallsHaveEnd, Writing, Reading
<1>11. ASSUME NEW end \in {"r", "w"}, Close(p, end) PROVE LockHeld' /\ CallsHaveEnd'
  BY <1>11, SMTT(60) DEF Close, TypeOK, LockHeld, CallsHaveEnd, Writing, Reading
<1>12. ASSUME NEW end \in {"r", "w"}, NEW n \in Sizes, Call(p, end, n) PROVE LockHeld' /\ CallsHaveEnd'
  BY <1>12, SMTT(60) DEF Call, TypeOK, LockHeld, CallsHaveEnd, Writing, Reading
<1> QED
  BY <1>1, <1>2, <1>3, <1>4, <1>5, <1>6, <1>7, <1>8, <1>9, <1>10, <1>11, <1>12 DEF Moves, Step, Program

(* Every step keeps the ends in order: only fileclose's last reference     *)
(* leads to pipeclose, and nobody gets an end of a pipe that is closed.    *)
LEMMA EndsStep ==
  ASSUME TypeOK, EndsOpen, NEW p \in Proc, Moves(p)
  PROVE  EndsOpen'
<1> USE PipeAssumption DEF Goto, GotoWaking, WakingReaders, WakingWriters, Return, pipe, open
<1>1. CASE Acquire(p)
  BY <1>1, SMTT(60) DEF Acquire, TypeOK, EndsOpen, EndOpen, Has, Closing
<1>2. CASE WriteFail(p)
  BY <1>2, SMTT(60) DEF WriteFail, TypeOK, EndsOpen, EndOpen, Has, Closing
<1>3. CASE WriteSleep(p)
  BY <1>3 DEF WriteSleep, TypeOK, EndsOpen, EndOpen, Has, Closing
<1>4. CASE WriteByte(p)
  BY <1>4 DEF WriteByte, TypeOK, EndsOpen, EndOpen, Has, Closing
<1>5. CASE WriteEnd(p)
  BY <1>5 DEF WriteEnd, TypeOK, EndsOpen, EndOpen, Has, Closing
<1>6. CASE Read(p)
  <2>1. /\ \A q \in Proc : q # p => pc'[q] = pc[q]
        /\ pc'[p] \in {"copy", "out", "rasleep"} /\ UNCHANGED <<open, ends>>
    BY <1>6, SMTT(60) DEF Read, TypeOK
  <2> QED
    BY <1>6, <2>1, SMTT(60) DEF Read, EndsOpen, EndOpen, Has, Closing
<1>7. CASE CopyByte(p)
  BY <1>7 DEF CopyByte, TypeOK, EndsOpen, EndOpen, Has, Closing
<1>8. CASE ReadEnd(p)
  BY <1>8 DEF ReadEnd, TypeOK, EndsOpen, EndOpen, Has, Closing
<1>9. CASE PipeClose(p)
  <2>1. CASE pc[p] = "wclose"
    <3>1. /\ writeopen' = FALSE /\ readopen' = readopen /\ ends' = ends /\ pc'[p] = "out"
          /\ \A q \in Proc : q # p => pc'[q] = IF pc[q] = "rasleep" THEN "rwant" ELSE pc[q]
      BY <1>9, <2>1 DEF PipeClose, TypeOK
    <3>2. \A q \in Proc : "w" \notin ends[q] /\ (q # p => pc[q] # "wclose")
      BY <2>1 DEF EndsOpen, EndOpen, Has, Closing
    <3>3. \A q \in Proc : pc'[q] # "wclose" /\ (pc'[q] = "rclose" <=> pc[q] = "rclose")
      BY <2>1, <3>1, <3>2
    <3> QED
      BY <3>1, <3>2, <3>3 DEF EndsOpen, EndOpen, Has, Closing
  <2>2. CASE pc[p] = "rclose"
    <3>1. /\ readopen' = FALSE /\ writeopen' = writeopen /\ ends' = ends /\ pc'[p] = "out"
          /\ \A q \in Proc : q # p => pc'[q] = IF pc[q] = "wasleep" THEN "wwant" ELSE pc[q]
      BY <1>9, <2>2 DEF PipeClose, TypeOK
    <3>2. \A q \in Proc : "r" \notin ends[q] /\ (q # p => pc[q] # "rclose")
      BY <2>2 DEF EndsOpen, EndOpen, Has, Closing
    <3>3. \A q \in Proc : pc'[q] # "rclose" /\ (pc'[q] = "wclose" <=> pc[q] = "wclose")
      BY <2>2, <3>1, <3>2
    <3> QED
      BY <3>1, <3>2, <3>3 DEF EndsOpen, EndOpen, Has, Closing
  <2> QED
    BY <1>9, <2>1, <2>2 DEF PipeClose
<1>10. CASE Kill(p)
  BY <1>10, SMTT(60) DEF Kill, TypeOK, EndsOpen, EndOpen, Has, Closing
<1>11. ASSUME NEW end \in {"r", "w"}, Close(p, end) PROVE EndsOpen'
  <2>1. /\ UNCHANGED open /\ end \in ends[p] /\ pc[p] = "out"
        /\ \A q \in Proc : q # p => ends'[q] = ends[q] /\ pc'[q] = pc[q]
        /\ ends'[p] = ends[p] \ {end}
        /\ pc'[p] = IF ~Last(p, end) THEN "out" ELSE IF end = "w" THEN "wclose" ELSE "rclose"
    BY <1>11 DEF Close, TypeOK
  <2>2. Has(end)
    BY <2>1 DEF Has
  <2>3. CASE ~Last(p, end)
    <3>1. /\ \A q \in Proc : pc'[q] = pc[q] /\ ends'[q] \subseteq ends[q]
      BY <2>1, <2>3
    <3> QED
      BY <2>1, <3>1, SMTT(60) DEF EndsOpen, EndOpen, Has, Closing
  <2>4. CASE Last(p, end)
    <3>1. \A q \in Proc : end \notin ends'[q]
      BY <2>1, <2>4 DEF Last
    <3>2. CASE end = "w"
      BY <2>1, <2>2, <2>4, <3>1, <3>2, SMTT(60) DEF EndsOpen, EndOpen, Has, Closing
    <3>3. CASE end = "r"
      BY <2>1, <2>2, <2>4, <3>1, <3>3, SMTT(60) DEF EndsOpen, EndOpen, Has, Closing
    <3> QED
      BY <3>2, <3>3
  <2> QED
    BY <2>3, <2>4
<1>12. ASSUME NEW end \in {"r", "w"}, NEW n \in Sizes, Call(p, end, n) PROVE EndsOpen'
  BY <1>12, SMTT(60) DEF Call, TypeOK, EndsOpen, EndOpen, Has, Closing
<1> QED
  BY <1>1, <1>2, <1>3, <1>4, <1>5, <1>6, <1>7, <1>8, <1>9, <1>10, <1>11, <1>12 DEF Moves, Step, Program

(* Every step keeps the sleepers in order. *)
LEMMA SleepersStep ==
  ASSUME TypeOK, LockHeld, CallsHaveEnd, EndsOpen, Sleepers, NEW p \in Proc, Moves(p)
  PROVE  Sleepers'
<1> USE PipeAssumption DEF Goto, GotoWaking, WakingReaders, WakingWriters, Return, pipe, open
<1>1. CASE Acquire(p)
  BY <1>1 DEF Acquire, TypeOK, Sleepers, Empty, Full
<1>2. CASE WriteFail(p)
  <2>1. ~readopen => \A q \in Proc : pc[q] # "rasleep"
    BY DEF EndsOpen, EndOpen, Has, CallsHaveEnd, Reading
  <2> QED
    BY <1>2, <2>1 DEF WriteFail, TypeOK, Sleepers, Empty, Full
<1>3. CASE WriteSleep(p)
  BY <1>3 DEF WriteSleep, TypeOK, Sleepers, Empty, Full
<1>4. CASE WriteByte(p)
  <2>1. \A q \in Proc : pc[q] # "wasleep"
    BY <1>4 DEF WriteByte, Sleepers, LockHeld
  <2> QED
    BY <1>4, <2>1 DEF WriteByte, TypeOK, Sleepers
<1>5. CASE WriteEnd(p)
  BY <1>5 DEF WriteEnd, TypeOK, Sleepers, Empty, Full
<1>6. CASE Read(p)
  BY <1>6, SMTT(60) DEF Read, MustWait, TypeOK, Sleepers, Empty, Full
<1>7. CASE CopyByte(p)
  <2>1. (\E q \in Proc : pc[q] = "rasleep") => \E q \in Proc : killed[q]
    BY <1>7 DEF CopyByte, Copyable, Sleepers, LockHeld
  <2> QED
    BY <1>7, <2>1 DEF CopyByte, TypeOK, Sleepers
<1>8. CASE ReadEnd(p)
  BY <1>8 DEF ReadEnd, TypeOK, Sleepers, Empty, Full
<1>9. CASE PipeClose(p)
  <2>1. /\ (Empty' <=> Empty) /\ (Full' <=> Full) /\ killed' = killed
        /\ \A q \in Proc : pc[q] \notin {"write", "copy"}
    BY <1>9 DEF PipeClose, LockHeld, Empty, Full
  <2>2. CASE pc[p] = "wclose"
    <3>1. /\ readopen' = readopen
          /\ \A q \in Proc : pc'[q] # "rasleep" /\ (pc'[q] = "wasleep" => pc[q] = "wasleep")
      BY <1>9, <2>2 DEF PipeClose
    <3> QED
      BY <2>1, <3>1 DEF Sleepers
  <2>3. CASE pc[p] = "rclose"
    <3>1. /\ writeopen' = writeopen
          /\ \A q \in Proc : pc'[q] # "wasleep" /\ (pc'[q] = "rasleep" => pc[q] = "rasleep")
      BY <1>9, <2>3 DEF PipeClose
    <3> QED
      BY <2>1, <3>1 DEF Sleepers
  <2> QED
    BY <1>9, <2>2, <2>3 DEF PipeClose
<1>10. CASE Kill(p)
  BY <1>10 DEF Kill, TypeOK, Sleepers, Empty, Full
<1>11. ASSUME NEW end \in {"r", "w"}, Close(p, end) PROVE Sleepers'
  BY <1>11 DEF Close, TypeOK, Sleepers, Empty, Full
<1>12. ASSUME NEW end \in {"r", "w"}, NEW n \in Sizes, Call(p, end, n) PROVE Sleepers'
  BY <1>12 DEF Call, TypeOK, Sleepers, Empty, Full
<1> QED
  BY <1>1, <1>2, <1>3, <1>4, <1>5, <1>6, <1>7, <1>8, <1>9, <1>10, <1>11, <1>12 DEF Moves, Step, Program

(* Every step keeps the ring within its size. *)
LEMMA CountStep ==
  ASSUME TypeOK, TypeOK', Count <= PIPESIZE, NEW p \in Proc, Moves(p)
  PROVE  Count' <= PIPESIZE
<1>1. CASE WriteByte(p)
  <2>1. Count' = Count + 1 /\ Count < PIPESIZE
    BY <1>1, OneMore DEF WriteByte
  <2> QED
    BY <2>1, CountIs, PipeAssumption, SMTT(60)
<1>2. CASE CopyByte(p)
  <2>1. Count' = Count - 1
    BY <1>2, OneLess DEF CopyByte, Copyable
  <2> QED
    BY <2>1, CountIs, PipeAssumption, SMTT(60)
<1>3. ASSUME ~WriteByte(p), ~CopyByte(p) PROVE UNCHANGED <<nread, nwrite>>
  BY <1>3 DEF Moves, Step, Program, Acquire, WriteFail, WriteSleep, WriteEnd, Read, ReadEnd,
     PipeClose, Kill, Close, Call, pipe
<1> QED
  BY <1>1, <1>2, <1>3 DEF Count

(* PipeInv is inductive. *)
LEMMA PipeInit == Init => PipeInv
<1> SUFFICES ASSUME Init PROVE PipeInv
  OBVIOUS
<1>1. TypeOK
  <2>1. 0 \in 0 .. Wrap - 1 /\ Ends \subseteq [Proc -> SUBSET {"r", "w"}]
    BY PipeAssumption, SMTT(60)
  <2>2. data \in [0 .. PIPESIZE - 1 -> Byte \cup {None}] /\ left \in [Proc -> Nat]
    BY DEF Init
  <2> QED
    BY <2>1, <2>2 DEF Init, TypeOK
<1>2. LockHeld /\ CallsHaveEnd /\ EndsOpen /\ Sleepers
  BY PipeAssumption DEF Init, LockHeld, CallsHaveEnd, Writing, Reading, EndsOpen, EndOpen, Has,
     Closing, Sleepers
<1>3. Count <= PIPESIZE
  BY <1>1, CountIs, PipeAssumption, SMTT(60) DEF Init
<1>4. freed <=> ~readopen /\ ~writeopen
  BY DEF Init
<1> QED
  BY <1>1, <1>2, <1>3, <1>4 DEF PipeInv

(* Every step of a call, a program or a kill keeps the invariant. *)
LEMMA PipeStep == PipeInv /\ [Next]_vars => PipeInv'
<1> SUFFICES ASSUME PipeInv, [Next]_vars PROVE PipeInv'
  OBVIOUS
<1>1. CASE UNCHANGED vars
  BY <1>1 DEF vars, pipe, open, PipeInv, TypeOK, LockHeld, CallsHaveEnd, EndsOpen, EndOpen, Has,
     Closing, Sleepers, Count, Empty, Full
<1>2. CASE Next
  <2>1. PICK p \in Proc : Moves(p)
    BY <1>2 DEF Next, Moves
  <2>2. TypeOK'
    BY <2>1, TypeStep DEF PipeInv
  <2>3. LockHeld' /\ CallsHaveEnd' /\ EndsOpen' /\ Sleepers' /\ Count' <= PIPESIZE
    BY <2>1, <2>2, CallStep, EndsStep, SleepersStep, CountStep DEF PipeInv
  <2>4. freed' <=> ~readopen' /\ ~writeopen'
    <3>1. CASE PipeClose(p)
      BY <3>1 DEF PipeClose
    <3>2. ASSUME ~PipeClose(p) PROVE UNCHANGED <<freed, readopen, writeopen>>
      BY <2>1, <3>2 DEF Moves, Step, Program, Acquire, WriteFail, WriteSleep, WriteByte,
         WriteEnd, Read, CopyByte, ReadEnd, Kill, Close, Call, open
    <3> QED
      BY <3>1, <3>2, SMTT(60) DEF PipeInv
  <2> QED
    BY <2>2, <2>3, <2>4 DEF PipeInv
<1> QED
  BY <1>1, <1>2

(* The invariant of pipewrite, piperead and pipeclose always holds. *)
LEMMA PipeInvariant == Spec => []PipeInv
BY PipeInit, PipeStep, PTL DEF Spec

(* Who sleeps on a pipe that nobody is in has a reason to, and somebody    *)
(* who can still wake it: no wakeup of piperead, pipewrite and pipeclose   *)
(* comes too early, whoever shares the ends.                               *)
THEOREM PipeKeepsWakeups == Spec => []NoLostWakeup
<1>1. PipeInv => NoLostWakeup
  <2> SUFFICES ASSUME PipeInv, lock = None, NEW p \in Proc
      PROVE /\ pc[p] = "rasleep" => writeopen /\ (Empty \/ \E q \in Proc : killed[q])
            /\ pc[p] = "wasleep" => readopen /\ Full
    BY DEF NoLostWakeup
  <2>1. \A q \in Proc : pc[q] \notin {"write", "read", "copy"}
    BY PipeAssumption DEF PipeInv, LockHeld
  <2> QED
    BY <2>1 DEF PipeInv, Sleepers
<1> QED
  BY <1>1, PipeInvariant, PTL

(* The struct is freed when the last reference to the second end is gone,  *)
(* and nobody can then be in a call on it.                                 *)
THEOREM PipeNotUsedFreed == Spec => []NoUseAfterFree
<1>1. PipeInv => NoUseAfterFree
  <2> SUFFICES ASSUME PipeInv, freed, NEW p \in Proc PROVE pc[p] = "out" /\ ends[p] = {}
    BY DEF NoUseAfterFree
  <2>1. "r" \notin ends[p] /\ "w" \notin ends[p] /\ pc[p] \notin {"rclose", "wclose"}
    BY DEF PipeInv, EndsOpen, EndOpen, Has, Closing
  <2> QED
    BY <2>1, SMTT(60) DEF PipeInv, TypeOK, CallsHaveEnd, Writing, Reading
<1> QED
  BY <1>1, PipeInvariant, PTL

-----------------------------------------------------------------------------
(* The refinement *)

(* The bytes in the buffer, oldest first. *)
Queue == [k \in 1 .. Count |-> data[(nread + k - 1) % PIPESIZE]]

(* The queue in terms of the slots *)
QueueInSlots ==
  /\ Queue \in [1 .. Count -> Byte \cup {None}] /\ Count \in Nat
  /\ \A k \in 1 .. Count : Queue[k] = data[Slot(k - 1)]

(* The k-th byte of the queue is in the slot before the k-th. *)
LEMMA QueueIs == TypeOK => QueueInSlots
<1> SUFFICES ASSUME TypeOK PROVE QueueInSlots
  OBVIOUS
<1>1. /\ nread \in Nat /\ Count \in Nat /\ PIPESIZE \in Nat
      /\ data \in [0 .. PIPESIZE - 1 -> Byte \cup {None}]
  BY CountIs, PipeAssumption, SMTT(60) DEF TypeOK
<1>2. ASSUME NEW k \in 1 .. Count
      PROVE  /\ k - 1 \in Nat /\ (nread + k - 1) % PIPESIZE = Slot(k - 1)
             /\ data[Slot(k - 1)] \in Byte \cup {None}
  <2>1. k - 1 \in Nat /\ nread + k - 1 = nread + (k - 1)
    BY <1>1, SMTT(60)
  <2>2. Slot(k - 1) \in 0 .. PIPESIZE - 1
    BY <2>1, Slots
  <2> QED
    BY <1>1, <2>1, <2>2 DEF Slot
<1> QED
  BY <1>1, <1>2 DEF Queue, QueueInSlots

(* ... in the next state too. *)
LEMMA QueueIsNext == TypeOK' => QueueInSlots'
BY QueueIs, PTL

(* A byte written goes to the end of the queue. *)
LEMMA PutStep ==
  ASSUME PipeInv, TypeOK', NEW p \in Proc, WriteByte(p)
  PROVE  Count < PIPESIZE /\ \E b \in Byte : Queue' = Append(Queue, b)
<1>1. TypeOK
  BY DEF PipeInv
<1>2. PICK b \in Byte : data' = [data EXCEPT ![nwrite % PIPESIZE] = b]
  BY DEF WriteByte
<1>3. Count' = Count + 1 /\ Count < PIPESIZE /\ nread' = nread
  BY <1>1, OneMore DEF WriteByte, PipeInv
<1>4. Count \in Nat /\ PIPESIZE \in Nat
  BY <1>1, QueueIs, PipeAssumption DEF QueueInSlots
<1>5. /\ data'[Slot(Count)] = b
      /\ \A k \in 1 .. Count : data'[Slot(k - 1)] = data[Slot(k - 1)]
  <2>1. nwrite % PIPESIZE = Slot(Count) /\ Slot(Count) \in 0 .. PIPESIZE - 1
    BY <1>1, <1>4, Slots
  <2>2. ASSUME NEW k \in 1 .. Count
        PROVE  Slot(k - 1) \in 0 .. PIPESIZE - 1 /\ Slot(k - 1) # Slot(Count)
    <3>1. k - 1 \in Nat /\ k - 1 < Count
      BY <1>4, SMTT(60)
    <3> QED
      BY <1>1, <1>3, <1>4, <3>1, Slots
  <2> QED
    BY <1>1, <1>2, <2>1, <2>2 DEF TypeOK
<1>6. /\ Queue \in [1 .. Count -> Byte \cup {None}]
      /\ \A k \in 1 .. Count : Queue[k] = data[Slot(k - 1)]
  BY <1>1, QueueIs DEF QueueInSlots
<1>7. /\ Queue' \in [1 .. Count + 1 -> Byte \cup {None}]
      /\ \A k \in 1 .. Count + 1 : Queue'[k] = data'[Slot(k - 1)]
  BY <1>3, QueueIsNext DEF QueueInSlots, Slot
<1>8. Queue'[Count + 1] = b
  <2>1. Count + 1 \in 1 .. Count + 1 /\ (Count + 1) - 1 = Count
    BY <1>4, SMTT(60)
  <2> QED
    BY <1>5, <1>7, <2>1
<1>9. \A k \in 1 .. Count : Queue'[k] = Queue[k]
  BY <1>4, <1>5, <1>6, <1>7, SMTT(60)
<1>10. Queue' = Append(Queue, Queue'[Count + 1])
  BY <1>4, <1>6, <1>7, <1>9, AppendIs, SMTT(60)
<1> QED
  BY <1>3, <1>8, <1>10

(* A byte read comes off its front. *)
LEMMA GetStep ==
  ASSUME PipeInv, TypeOK', NEW p \in Proc, CopyByte(p)
  PROVE  Queue # <<>> /\ Queue' = Tail(Queue)
<1>1. TypeOK
  BY DEF PipeInv
<1>2. /\ Count' = Count - 1 /\ data' = data /\ ~Empty
      /\ \A k \in Nat : Slot(k)' = Slot(k + 1)
  BY <1>1, OneLess DEF CopyByte, Copyable
<1>3. Count \in Nat \ {0}
  BY <1>1, <1>2, QueueIs, CountIs DEF QueueInSlots
<1>4. /\ Queue \in [1 .. Count -> Byte \cup {None}]
      /\ \A k \in 1 .. Count : Queue[k] = data[Slot(k - 1)]
  BY <1>1, QueueIs DEF QueueInSlots
<1>5. /\ Queue' \in [1 .. Count - 1 -> Byte \cup {None}]
      /\ \A k \in 1 .. Count - 1 : Queue'[k] = data[Slot(k - 1)']
  BY <1>2, QueueIsNext DEF QueueInSlots
<1>6. ASSUME NEW k \in 1 .. Count - 1 PROVE Queue'[k] = Queue[k + 1]
  <2>1. k - 1 \in Nat /\ (k - 1) + 1 = k /\ (k + 1) - 1 = k /\ k + 1 \in 1 .. Count
    BY <1>3, SMTT(60)
  <2>2. Slot(k - 1)' = Slot(k)
    BY <1>2, <2>1
  <2> QED
    BY <1>4, <1>5, <2>1, <2>2, SMTT(60)
<1>7. Queue' = Tail(Queue)
  BY <1>3, <1>4, <1>5, <1>6, TailIs, SMTT(60)
<1>8. Len(Queue) = Count
  BY <1>3, <1>4, FunctionIsSeq
<1> QED
  BY <1>3, <1>7, <1>8

(* The pipe is a bounded first-in first-out queue of bytes: with any       *)
(* PIPESIZE and counters that wrap at any multiple of it, for any number   *)
(* of readers and writers, killed ones and bad addresses included.         *)
THEOREM PipeIsByteStream == Spec => IsStream
<1>1. Init => Stream!Init
  <2> SUFFICES ASSUME Init PROVE Stream!Init
    OBVIOUS
  <2>1. TypeOK /\ nread = nwrite
    BY PipeInit DEF PipeInv, Init
  <2>2. Count = 0
    BY <2>1, CountIs DEF Empty
  <2>3. Queue = <<>>
    BY <2>2, SMTT(60) DEF Queue
  <2> QED
    BY <2>3 DEF Init, Stream!Init, Queue
<1>2. PipeInv /\ PipeInv' /\ [Next]_vars => [Stream!Next]_Stream!vars
  <2> SUFFICES ASSUME PipeInv, PipeInv', [Next]_vars PROVE [Stream!Next]_Stream!vars
    OBVIOUS
  <2>1. TypeOK /\ TypeOK'
    BY DEF PipeInv
  <2>2. CASE UNCHANGED vars
    BY <2>2 DEF vars, pipe, open, Stream!vars, Count
  <2>3. CASE Next
    <3>1. PICK p \in Proc : Moves(p)
      BY <2>3 DEF Next, Moves
    <3>2. CASE WriteByte(p)
      <4>1. readopen /\ writeopen /\ UNCHANGED <<readopen, writeopen>>
        BY <3>2 DEF WriteByte, PipeInv, CallsHaveEnd, EndsOpen, EndOpen, Has, Writing, open
      <4>2. Count < PIPESIZE /\ \E b \in Byte : Queue' = Append(Queue, b)
        BY <2>1, <3>2, PutStep
      <4>3. Len(Queue) = Count
        BY <2>1, QueueIs, FunctionIsSeq DEF QueueInSlots
      <4> QED
        BY <4>1, <4>2, <4>3 DEF Queue, Stream!Next, Stream!Put
    <3>3. CASE CopyByte(p)
      <4>1. readopen /\ UNCHANGED <<readopen, writeopen>>
        BY <3>3 DEF CopyByte, PipeInv, CallsHaveEnd, EndsOpen, EndOpen, Has, Reading, open
      <4>2. Queue # <<>> /\ Queue' = Tail(Queue)
        BY <2>1, <3>3, GetStep
      <4> QED
        BY <4>1, <4>2 DEF Queue, Stream!Next, Stream!Get
    <3>4. CASE PipeClose(p)
      <4>1. UNCHANGED <<data, nread, nwrite>>
        BY <3>4 DEF PipeClose, pipe
      <4>2. UNCHANGED Queue
        BY <4>1 DEF Queue, Count
      <4>3. \/ writeopen /\ writeopen' = FALSE /\ readopen' = readopen
            \/ readopen /\ readopen' = FALSE /\ writeopen' = writeopen
        BY <3>4 DEF PipeClose, PipeInv, EndsOpen, EndOpen, Closing
      <4> QED
        BY <4>2, <4>3 DEF Queue, Stream!Next, Stream!CloseRead, Stream!CloseWrite
    <3>5. ASSUME ~WriteByte(p), ~CopyByte(p), ~PipeClose(p) PROVE UNCHANGED Stream!vars
      <4>1. UNCHANGED <<data, nread, nwrite, readopen, writeopen>>
        BY <3>1, <3>5 DEF Moves, Step, Program, Acquire, WriteFail, WriteSleep, WriteEnd, Read,
           ReadEnd, Kill, Close, Call, pipe, open
      <4> QED
        BY <4>1 DEF Stream!vars, Count
    <3> QED
      BY <3>2, <3>3, <3>4, <3>5
  <2> QED
    BY <2>2, <2>3
<1> QED
  BY <1>1, <1>2, PipeInvariant, PTL DEF Spec, IsStream, Stream!Spec
=============================================================================
