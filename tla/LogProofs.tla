----------------------------- MODULE LogProofs ------------------------------
(***************************************************************************)
(* Proofs about log.c for every number of processes, blocks and log slots: *)
(* LogInv is inductive, with it the log implements the atomic disk by      *)
(* simulation of every step, a quiescent log is durable, nobody sleeps in  *)
(* begin_op for ever, and log_write does not panic.                        *)
(*                                                                         *)
(* Zenon proves most leaves; those that need arithmetic, sequences or long *)
(* case distinctions cite SMT.                                             *)
(***************************************************************************)
EXTENDS Log, FiniteSetTheorems, TLAPS

USE ZenonT(60) DEF Slot, PC, Phase, Recovering, Running

(* The bounds are numbers. *)
LEMMA Bounds == OpBlocks \in Nat /\ LOGSIZE \in Nat /\ NLog \in Nat
BY ConstantsAssumption, SMTT(60)

(* A freshly made file system satisfies the invariant. *)
LEMMA InitInv == Init => LogInv
<1> SUFFICES ASSUME Init PROVE LogInv
  OBVIOUS
<1>1. TypeOK
  <2>1. /\ lh \in Seq(Block) /\ Len(lh) <= LOGSIZE
        /\ hdr \in Seq(Block) /\ Len(hdr) <= LOGSIZE
    BY ConstantsAssumption, SMTT(60) DEF Init
  <2>2. /\ cache \in [Block -> Val \cup {None}]
        /\ pin \in [Block -> Nat]
        /\ holder \in [Block -> Proc \cup {None}]
    BY DEF Init
  <2>3. /\ disk \in [Block -> Val \cup {Torn}]
        /\ logblk \in [Slot -> Val \cup {Torn}]
    BY DEF Init
  <2>4. pc \in [Proc -> PC] /\ writes \in [Proc -> Nat]
    BY ConstantsAssumption DEF Init
  <2> QED BY <2>1, <2>2, <2>3, <2>4 DEF Init, TypeOK
<1>2. Control
  <2>1. Active = {}
    BY DEF Init, Active
  <2> QED BY <2>1, FS_EmptySet DEF Init, Control
<1>3. Headers
  BY SMTT(60) DEF Init, Headers
<1>4. Copies
  BY ConstantsAssumption, SMTT(60) DEF Init, Copies
<1>5. Coherent /\ PinsMatchLog
  BY SMTT(60) DEF Init, Coherent, PinsMatchLog, Pending
<1> QED BY <1>1, <1>2, <1>3, <1>4, <1>5 DEF LogInv

-----------------------------------------------------------------------------
(* Counting the calls in progress. *)

(* Active is finite, so that its cardinality is a number. *)
LEMMA ActiveFinite == IsFiniteSet(Active) /\ Cardinality(Active) \in Nat
<1>1. Active \subseteq Proc
  BY DEF Active
<1> QED BY <1>1, ConstantsAssumption, FS_Subset, FS_CardinalityType

(* begin_op adds the caller to the calls in progress. *)
LEMMA ActiveAdd ==
  ASSUME NEW p \in Proc, p \notin Active, Active' = Active \cup {p}
  PROVE  Cardinality(Active') = Cardinality(Active) + 1
BY ActiveFinite, FS_AddElement

(* end_op removes it, and the last one out leaves nobody. *)
LEMMA ActiveRemove ==
  ASSUME NEW p \in Proc, p \in Active, Active' = Active \ {p}
  PROVE  /\ Cardinality(Active') = Cardinality(Active) - 1
         /\ Cardinality(Active) >= 1
         /\ Cardinality(Active) = 1 => Active' = {}
<1>1. Cardinality(Active') = Cardinality(Active) - 1
  BY ActiveFinite, FS_RemoveElement
<1>2. IsFiniteSet(Active')
  BY ActiveFinite, FS_RemoveElement
<1>3. Cardinality(Active') \in Nat
  BY <1>2, FS_CardinalityType
<1>4. Cardinality(Active') = 0 <=> Active' = {}
  BY <1>2, FS_EmptySet
<1> QED BY <1>1, <1>3, <1>4, ActiveFinite, SMTT(60)

-----------------------------------------------------------------------------
(* Every step preserves the invariant. *)

(* bget recycles an unreferenced buffer. *)
LEMMA EvictInv == ASSUME LogInv, NEW b \in Block, Evict(b) PROVE LogInv'
<1> USE DEF LogInv, Evict, media
<1>1. TypeOK'
  BY DEF TypeOK
<1>2. Control'
  <2>1. Active' = Active
    BY DEF Active
  <2> QED BY <2>1 DEF TypeOK, Control
<1>3. Headers'
  BY DEF TypeOK, Headers
<1>4. Copies'
  <2>1. b \notin Pending /\ cache[b] = disk[b]
    BY SMTT(60) DEF PinsMatchLog, Coherent
  <2>2. \A c \in Block : Bread(c)' = Bread(c)
    BY <2>1 DEF TypeOK, Bread
  <2>3. \A i \in DOMAIN lh : lh[i] \in Block
    BY SMTT(60) DEF TypeOK
  <2>4. phase = "write_log" => \A i \in DOMAIN lh : lh[i] # b
    BY <2>1, SMTT(60) DEF TypeOK, Pending
  <2> QED BY <2>1, <2>2, <2>3, <2>4, SMTT(60) DEF TypeOK, Headers, Copies, InLog
<1>5. Coherent' /\ PinsMatchLog'
  <2>1. Pending' = Pending
    BY DEF Pending
  <2> QED BY <2>1, SMTT(60) DEF TypeOK, Coherent, PinsMatchLog
<1> QED BY <1>1, <1>2, <1>3, <1>4, <1>5

(* begin_op, both when it sleeps and when it is admitted. *)
LEMMA BeginOpInv == ASSUME LogInv, NEW p \in Proc, BeginOp(p) PROVE LogInv'
<1> USE DEF LogInv, BeginOp, media
<1>1. TypeOK'
  <2>1. CASE MustWait
    BY <2>1 DEF TypeOK
  <2>2. CASE ~MustWait
    <3>0. /\ outstanding' = outstanding + 1
          /\ pc' = [pc EXCEPT ![p] = "op"]
          /\ writes' = [writes EXCEPT ![p] = 0]
      BY <2>2
    <3>1. outstanding' \in Nat /\ pc' \in [Proc -> PC] /\ writes' \in [Proc -> Nat]
      <4> HIDE DEF BeginOp
      <4> QED BY <3>0, SMTT(60) DEF TypeOK
    <3> QED BY <3>1 DEF TypeOK
  <2> QED BY <2>1, <2>2
<1>2. Control'
  <2>1. CASE MustWait
    <3>0. pc' = [pc EXCEPT ![p] = "sleep"] /\ UNCHANGED <<outstanding, writes>>
      BY <2>1
    <3>1. Active' = Active
      BY <3>0 DEF TypeOK, Active
    <3>2. \A b \in Block : holder[b] # p
      BY ConstantsAssumption DEF TypeOK, Control
    <3> QED BY <3>0, <3>1, <3>2 DEF TypeOK, Control
  <2>2. CASE ~MustWait
    <3>1. p \notin Active /\ Active' = Active \cup {p}
      BY <2>2, SMTT(60) DEF TypeOK, Active
    <3>2. Cardinality(Active') = Cardinality(Active) + 1
      BY <3>1, ActiveAdd
    <3> QED BY <2>2, <3>2, SMTT(60) DEF TypeOK, Control, MustWait
  <2> QED BY <2>1, <2>2
<1>3. Headers'
  BY SMTT(60) DEF TypeOK, Control, Headers
<1>4. Copies' /\ Coherent' /\ PinsMatchLog'
  BY SMTT(60) DEF TypeOK, Copies, Coherent, PinsMatchLog, Pending, Bread, InLog
<1> QED BY <1>1, <1>2, <1>3, <1>4

(* bread and modification of a buffer. *)
LEMMA ModifyInv ==
  ASSUME LogInv, NEW p \in Proc, NEW b \in Block, NEW v \in Val,
         Modify(p, b, v)
  PROVE  LogInv'
<1> USE DEF LogInv, Modify, media
<1>1. TypeOK'
  BY DEF TypeOK
<1>2. Control'
  <2>1. Active' = Active
    BY DEF TypeOK, Active
  <2> QED BY <2>1, ConstantsAssumption, SMTT(60) DEF TypeOK, Control
<1>3. Headers'
  BY DEF TypeOK, Headers
<1>4. phase = "none"
  BY DEF TypeOK, Control, Active
<1>5. Copies'
  BY <1>4 DEF TypeOK, Copies, InLog
<1>6. Coherent' /\ PinsMatchLog'
  BY <1>4, ConstantsAssumption, SMTT(60) DEF TypeOK, Coherent, PinsMatchLog, Pending
<1> QED BY <1>1, <1>2, <1>3, <1>5, <1>6

(* log_write, when it panics, absorbs or appends. *)
LEMMA LogWriteInv ==
  ASSUME LogInv, NEW p \in Proc, NEW b \in Block, LogWrite(p, b)
  PROVE  LogInv'
<1> USE DEF LogInv
<1>0. /\ phase = "none" /\ p \in Active /\ pc[p] = "modified" /\ holder[b] = p
      /\ UNCHANGED <<outstanding, committing, cache, phase, tail, disk, logblk, hdr>>
  BY DEF TypeOK, Control, Active, LogWrite, media
<1>1. outstanding # 0
  BY <1>0, ActiveFinite, FS_EmptySet DEF Control
<1>2. CASE UNCHANGED <<lh, pin, holder, pc, writes>> /\ panicked' = TRUE
  <2>1. Active' = Active /\ Pending' = Pending
    BY <1>0, <1>2 DEF Active, Pending
  <2>2. TypeOK' /\ Control'
    BY <1>0, <1>2, <2>1 DEF TypeOK, Control
  <2>3. Headers' /\ Copies'
    BY <1>0, <1>2 DEF TypeOK, Headers, Copies, InLog
  <2>4. Coherent' /\ PinsMatchLog'
    BY <1>0, <1>2, <2>1 DEF Coherent, PinsMatchLog
  <2> QED BY <2>2, <2>3, <2>4
<1>3. ASSUME /\ holder' = [holder EXCEPT ![b] = None]
             /\ pc' = [pc EXCEPT ![p] = "op"]
             /\ writes' = [writes EXCEPT ![p] = @ + 1]
             /\ UNCHANGED panicked
             /\ \/ InLog(b, lh) /\ UNCHANGED <<lh, pin>>
                \/ /\ ~InLog(b, lh)
                   /\ lh' = Append(lh, b)
                   /\ Len(lh) < LOGSIZE
                   /\ pin' = [pin EXCEPT ![b] = @ + 1]
      PROVE  LogInv'
  <2>1. Active' = Active
    BY <1>0, <1>3 DEF TypeOK, Active
  <2>2. TypeOK'
    <3>1. lh' \in Seq(Block) /\ Len(lh') <= LOGSIZE
      <4>1. CASE lh' = lh
        BY <4>1 DEF TypeOK
      <4>2. CASE lh' = Append(lh, b) /\ Len(lh) < LOGSIZE
        BY <4>2, Bounds, SMTT(60) DEF TypeOK
      <4> QED BY <1>3, <4>1, <4>2
    <3>2. pin' \in [Block -> Nat]
      BY <1>3, SMTT(60) DEF TypeOK
    <3>3. pc' \in [Proc -> PC] /\ holder' \in [Block -> Proc \cup {None}]
      BY <1>3 DEF TypeOK
    <3>4. writes' \in [Proc -> Nat]
      BY <1>0, <1>3, Bounds, SMTT(60) DEF TypeOK, Control
    <3> QED BY <1>0, <1>3, <3>1, <3>2, <3>3, <3>4 DEF TypeOK
  <2>3. Control'
    BY <1>0, <1>3, <2>1, ConstantsAssumption, SMTT(60) DEF TypeOK, Control
  <2>4. Headers'
    <3>1. CASE lh' = lh
      BY <1>0, <1>1, <3>1 DEF Headers
    <3>2. CASE lh' = Append(lh, b) /\ ~InLog(b, lh)
      <4>1. \A i, j \in DOMAIN lh' : lh'[i] = lh'[j] => i = j
        BY <3>2, SMTT(60) DEF TypeOK, Headers, InLog
      <4> QED BY <1>0, <1>1, <4>1 DEF Headers
    <3> QED BY <1>3, <3>1, <3>2
  <2>5. Copies'
    BY <1>0, <1>3 DEF TypeOK, Copies, InLog
  <2>6. Coherent' /\ PinsMatchLog'
    <3>1. Pending = {lh[i] : i \in 1 .. Len(lh)}
      BY <1>0 DEF Pending
    <3>2. Pending' = {lh'[i] : i \in 1 .. Len(lh')}
      BY <1>0 DEF Pending
    <3>3. CASE InLog(b, lh) /\ UNCHANGED <<lh, pin>>
      <4>1. Pending' = Pending /\ b \in Pending
        BY <3>1, <3>2, <3>3, SMTT(60) DEF TypeOK, InLog
      <4> QED BY <1>0, <1>3, <3>3, <4>1 DEF TypeOK, Coherent, PinsMatchLog
    <3>4. CASE ~InLog(b, lh) /\ lh' = Append(lh, b) /\ pin' = [pin EXCEPT ![b] = @ + 1]
      <4>1. Pending' = Pending \cup {b} /\ b \notin Pending
        <5>1. /\ Len(lh') = Len(lh) + 1 /\ Len(lh) \in Nat /\ lh'[Len(lh) + 1] = b
              /\ \A i \in 1 .. Len(lh) : lh'[i] = lh[i]
              /\ \A i \in 1 .. Len(lh) : lh[i] # b
          BY <3>4, SMTT(60) DEF TypeOK, InLog
        <5> HIDE <3>4
        <5> QED BY <3>1, <3>2, <5>1, SMTT(60)
      <4>2. cache[b] # None
        BY <1>0, ConstantsAssumption DEF Coherent
      <4> QED BY <1>0, <1>3, <3>4, <4>1, <4>2, SMTT(60) DEF TypeOK, Coherent, PinsMatchLog
    <3> QED BY <1>3, <3>3, <3>4
  <2> QED BY <2>2, <2>3, <2>4, <2>5, <2>6
<1>4. CASE Len(lh) >= LOGSIZE \/ Len(lh) >= NLog - 1 \/ outstanding < 1
  BY <1>2, <1>4 DEF LogWrite
<1>5. CASE ~(Len(lh) >= LOGSIZE \/ Len(lh) >= NLog - 1 \/ outstanding < 1)
  <2>1. Len(lh) < LOGSIZE
    BY <1>5, Bounds, SMTT(60) DEF TypeOK
  <2> QED BY <1>3, <1>5, <2>1 DEF LogWrite
<1> QED BY <1>4, <1>5

(* end_op; the panic on log.committing cannot be reached. *)
LEMMA EndOpInv == ASSUME LogInv, NEW p \in Proc, EndOp(p) PROVE LogInv'
<1> USE DEF LogInv, EndOp, media
<1>0. phase = "none" /\ p \in Active /\ ~committing
  BY DEF TypeOK, Control, Active
<1>1. Active' = Active \ {p}
  BY <1>0 DEF TypeOK, Active, Wakeup
<1>2. /\ Cardinality(Active') = Cardinality(Active) - 1
      /\ Cardinality(Active) >= 1
      /\ Cardinality(Active) = 1 => Active' = {}
  BY <1>0, <1>1, ActiveRemove
<1>3. CASE outstanding = 1
  <2>1. TypeOK'
    <3>1. /\ outstanding' \in Nat /\ committing' \in BOOLEAN
          /\ phase' \in Phase /\ tail' \in Nat
      BY <1>0, <1>3, SMTT(60) DEF TypeOK, FirstPhase
    <3>2. pc' \in [Proc -> PC]
      BY <1>0, <1>3 DEF TypeOK
    <3> QED BY <1>0, <3>1, <3>2 DEF TypeOK
  <2>2. Control'
    BY <1>0, <1>2, <1>3, ConstantsAssumption, SMTT(60) DEF TypeOK, Control, FirstPhase
  <2>3. Headers'
    BY <1>0, <1>3, SMTT(60) DEF TypeOK, Headers, FirstPhase
  <2>4. Copies'
    BY <1>0, <1>3, SMTT(60) DEF TypeOK, Copies, InLog, FirstPhase
  <2>5. Coherent' /\ PinsMatchLog'
    BY <1>0, <1>3, SMTT(60) DEF TypeOK, Coherent, PinsMatchLog, Pending, FirstPhase
  <2> QED BY <2>1, <2>2, <2>3, <2>4, <2>5
<1>4. CASE outstanding # 1
  <2>0. /\ pc' = [Wakeup EXCEPT ![p] = "idle"]
        /\ UNCHANGED <<committing, phase, tail, panicked>>
    BY <1>0, <1>4
  <2>1. TypeOK'
    BY <1>0, <1>2, <2>0, SMTT(60) DEF TypeOK, Control, Wakeup
  <2>2. Control'
    <3>1. \A q \in Proc : q # p =>
            pc'[q] = IF pc[q] = "sleep" THEN "begin" ELSE pc[q]
      BY <2>0 DEF Wakeup
    <3>2. pc'[p] = "idle"
      BY <2>0 DEF Wakeup
    <3>3. \A b \in Block : holder[b] # p
      BY ConstantsAssumption, SMTT(60) DEF TypeOK, Control
    <3> QED BY <1>0, <1>2, <2>0, <3>1, <3>2, <3>3, SMTT(60) DEF TypeOK, Control
  <2>3. Headers'
    BY <1>0, <1>2, <1>4, <2>0, SMTT(60) DEF TypeOK, Control, Headers
  <2>4. Copies'
    BY <1>0, <2>0 DEF TypeOK, Copies, InLog
  <2>5. Coherent' /\ PinsMatchLog'
    BY <1>0, <2>0, SMTT(60) DEF TypeOK, Coherent, PinsMatchLog, Pending
  <2> QED BY <2>1, <2>2, <2>3, <2>4, <2>5
<1> QED BY <1>3, <1>4

(* A turn of write_log's loop. *)
LEMMA WriteLogInv == ASSUME LogInv, WriteLog PROVE LogInv'
<1> USE DEF LogInv, WriteLog, Advance, media
<1>0. lh[tail] \in Pending /\ cache[lh[tail]] \in Val /\ lh[tail] \in Block
  BY SMTT(60) DEF TypeOK, Headers, Coherent, Pending
<1>a. cache' = cache /\ Bread(lh[tail]) = cache[lh[tail]]
  BY <1>0, ConstantsAssumption DEF TypeOK, Bread
<1>1. /\ Active' = Active /\ hdr = <<>> /\ tail \in 1 .. Len(lh)
      /\ logblk' = [logblk EXCEPT ![tail] = cache[lh[tail]]]
  BY <1>a, SMTT(60) DEF TypeOK, Active, Headers
<1>2. CASE tail = Len(lh) /\ phase' = "write_head" /\ tail' = 1
  <2>1. TypeOK'
    BY <1>0, <1>a, <1>1, <1>2 DEF TypeOK
  <2>2. Control' /\ Headers'
    BY <1>1, <1>2, SMTT(60) DEF TypeOK, Control, Headers
  <2>3. Pending' = Pending
    BY <1>2 DEF Pending
  <2>4. Copies'
    <3>1. \A i \in DOMAIN lh : logblk'[i] = cache[lh[i]]
      BY <1>1, <1>2, SMTT(60) DEF TypeOK, Copies
    <3>2. \A i \in DOMAIN lh : lh[i] \in Pending
      BY SMTT(60) DEF TypeOK, Pending
    <3>3. \A i \in DOMAIN lh : Bread(lh[i])' = cache[lh[i]]
      BY <1>a, <3>2 DEF Bread, Coherent
    <3> QED BY <1>1, <1>2, <3>1, <3>3, SMTT(60) DEF TypeOK, Copies, InLog
  <2> QED BY <1>a, <2>1, <2>2, <2>3, <2>4 DEF Coherent, PinsMatchLog
<1>3. CASE tail < Len(lh) /\ phase' = phase /\ tail' = tail + 1
  <2>1. TypeOK'
    <3>1. logblk' \in [Slot -> Val \cup {Torn}]
      BY <1>0, <1>1 DEF TypeOK
    <3>2. tail' \in Nat
      BY <1>3, SMTT(60) DEF TypeOK
    <3> QED BY <1>a, <1>3, <3>1, <3>2 DEF TypeOK
  <2>2. Control' /\ Headers'
    BY <1>1, <1>3, SMTT(60) DEF TypeOK, Control, Headers
  <2>3. Pending' = Pending
    BY <1>3 DEF Pending
  <2>4. Copies'
    <3>0. DOMAIN logblk = 1 .. LOGSIZE /\ tail \in 1 .. LOGSIZE /\ LOGSIZE \in Nat
      BY <1>1, Bounds, SMTT(60) DEF TypeOK
    <3>1. ASSUME NEW i \in 1 .. tail' - 1 PROVE logblk'[i] = cache[lh[i]]
      <4>1. CASE i = tail
        BY <1>1, <3>0, <4>1
      <4>2. CASE i # tail
        <5>1. i \in 1 .. tail - 1 /\ i \in 1 .. LOGSIZE
          BY <1>3, <3>0, <4>2, SMTT(60)
        <5> QED BY <1>1, <3>0, <4>2, <5>1 DEF Copies
      <4> QED BY <4>1, <4>2
    <3>2. \A b \in Block : disk'[b] # Torn
      BY <1>1, SMTT(60) DEF Copies, InLog
    <3>3. hdr' = <<>> /\ phase' = "write_log" /\ lh' = lh
      BY <1>1, <1>3
    <3>4. \A i \in 1 .. tail' - 1 : logblk'[i] = cache'[lh'[i]]
      BY <1>a, <3>1, <3>3
    <3> HIDE DEF WriteLog, LogInv
    <3> QED BY <3>2, <3>3, <3>4, SMTT(60) DEF Copies
  <2> QED BY <1>a, <2>1, <2>2, <2>3, <2>4 DEF Coherent, PinsMatchLog
<1> QED BY <1>1, <1>2, <1>3, SMTT(60) DEF TypeOK

(* The header write that commits. *)
LEMMA WriteHeadInv == ASSUME LogInv, WriteHead PROVE LogInv'
<1> USE DEF LogInv, WriteHead, memory
<1>1. TypeOK' /\ Control'
  BY DEF TypeOK, Control, Active
<1>2. Headers'
  BY SMTT(60) DEF TypeOK, Headers
<1>3. Pending' = Pending /\ \A i \in DOMAIN lh : lh[i] \in Pending
  BY SMTT(60) DEF TypeOK, Headers, Pending
<1>4. Copies'
  <2>1. \A i \in DOMAIN lh : lh[i] \in Block /\ logblk[i] = cache[lh[i]]
    BY <1>3, SMTT(60) DEF TypeOK, Copies, Bread, Coherent
  <2>2. \A i \in DOMAIN lh : logblk[i] \in Val
    BY <1>3, <2>1, SMTT(60) DEF TypeOK, Coherent
  <2>3. \A i \in DOMAIN lh : logblk[i] = Bread(lh[i])'
    BY <1>3, <2>1 DEF Bread, Coherent
  <2>4. \A b \in Block : disk[b] # Torn
    BY SMTT(60) DEF Headers, Copies, InLog
  <2> QED BY <2>2, <2>3, <2>4, SMTT(60) DEF TypeOK, Headers, Copies
<1>5. Coherent' /\ PinsMatchLog'
  BY <1>3 DEF TypeOK, Coherent, PinsMatchLog
<1> QED BY <1>1, <1>2, <1>4, <1>5

(* A turn of install_trans's loop in commit. *)
LEMMA InstallTransInv == ASSUME LogInv, InstallTrans PROVE LogInv'
<1> USE DEF LogInv, InstallTrans, Install, Advance
<1>0. lh[tail] \in Pending /\ pin[lh[tail]] = 1 /\ lh[tail] \in Block
  BY SMTT(60) DEF TypeOK, Headers, Pending, PinsMatchLog
<1>1. TypeOK'
  <2>1. pin' \in [Block -> Nat]
    BY <1>0, SMTT(60) DEF TypeOK, Unpin
  <2>2. cache' \in [Block -> Val \cup {None}] /\ disk' \in [Block -> Val \cup {Torn}]
    BY <1>0 DEF TypeOK, Headers, Copies
  <2> QED BY <2>1, <2>2, SMTT(60) DEF TypeOK, Headers
<1>2. Control'
  BY DEF TypeOK, Control, Active
<1>3. Headers'
  BY SMTT(60) DEF TypeOK, Headers
<1>4. Copies'
  BY ConstantsAssumption, SMTT(60) DEF TypeOK, Control, Headers, Copies, InLog, Bread
<1>5. Coherent'
  BY SMTT(60) DEF TypeOK, Headers, Copies, Coherent, Pending
<1>6. PinsMatchLog'
  BY SMTT(60) DEF TypeOK, Headers, PinsMatchLog, Pending, Unpin
<1> QED BY <1>1, <1>2, <1>3, <1>4, <1>5, <1>6

(* The header write that erases the installed transaction. *)
LEMMA EraseInv == ASSUME LogInv, Erase PROVE LogInv'
<1> USE DEF LogInv, Erase
<1>1. TypeOK'
  BY ConstantsAssumption, SMTT(60) DEF TypeOK
<1>2. Control'
  BY DEF TypeOK, Control, Active
<1>3. Headers'
  BY SMTT(60) DEF TypeOK, Headers
<1>4. Copies'
  BY ConstantsAssumption, SMTT(60) DEF TypeOK, Headers, Copies, InLog
<1>5. Coherent' /\ PinsMatchLog'
  BY SMTT(60) DEF TypeOK, Coherent, PinsMatchLog, Pending
<1> QED BY <1>1, <1>2, <1>3, <1>4, <1>5

(* The end of the end_op that committed. *)
LEMMA CommitDoneInv ==
  ASSUME LogInv, NEW p \in Proc, CommitDone(p) PROVE LogInv'
<1> USE DEF LogInv, CommitDone, media
<1>1. TypeOK'
  BY DEF TypeOK, Wakeup
<1>2. Control'
  <2>1. \A q \in Proc : q # p =>
          pc'[q] = IF pc[q] = "sleep" THEN "begin" ELSE pc[q]
    BY DEF Wakeup
  <2>2. pc'[p] = "idle"
    BY DEF Wakeup
  <2>3. Active' = {} /\ Active = {}
    BY <2>1, <2>2, SMTT(60) DEF TypeOK, Control, Active
  <2>4. \A b \in Block : holder[b] = None
    BY <2>3, SMTT(60) DEF TypeOK, Control, Active
  <2>5. \A q \in Proc : pc[q] = "commit" => q = p
    BY DEF TypeOK, Control
  <2> QED BY <2>1, <2>2, <2>3, <2>4, <2>5, ConstantsAssumption, SMTT(60) DEF TypeOK, Control
<1>3. Headers'
  BY DEF TypeOK, Headers
<1>4. Copies'
  BY ConstantsAssumption, SMTT(60) DEF TypeOK, Headers, Copies, InLog
<1>5. Coherent' /\ PinsMatchLog'
  BY SMTT(60) DEF TypeOK, Coherent, PinsMatchLog, Pending
<1> QED BY <1>1, <1>2, <1>3, <1>4, <1>5

(* recover_from_log reads the header. *)
LEMMA ReadHeadInv == ASSUME LogInv, ReadHead PROVE LogInv'
<1> USE DEF LogInv, ReadHead, media
<1>1. TypeOK' /\ Control'
  BY DEF TypeOK, Control, Active
<1>2. Headers'
  BY SMTT(60) DEF TypeOK, Headers
<1>3. Copies'
  BY SMTT(60) DEF TypeOK, Headers, Copies, InLog
<1>4. Coherent' /\ PinsMatchLog'
  BY SMTT(60) DEF TypeOK, Coherent, PinsMatchLog, Pending
<1> QED BY <1>1, <1>2, <1>3, <1>4

(* A turn of install_trans's loop in recovery. *)
LEMMA RecoverTransInv == ASSUME LogInv, RecoverTrans PROVE LogInv'
<1> USE DEF LogInv, RecoverTrans, Install, Advance
<1>0. lh[tail] \in Block /\ tail \in DOMAIN hdr /\ Pending = {}
  BY SMTT(60) DEF TypeOK, Headers, Pending
<1>1. TypeOK'
  BY <1>0, SMTT(60) DEF TypeOK, Copies, Unpin
<1>2. Control'
  BY DEF TypeOK, Control, Active
<1>3. Headers'
  BY SMTT(60) DEF TypeOK, Headers
<1>4. Copies'
  BY ConstantsAssumption, SMTT(60) DEF TypeOK, Control, Headers, Copies, InLog, Bread
<1>5. Coherent'
  BY SMTT(60) DEF TypeOK, Headers, Copies, Coherent, Pending
<1>6. PinsMatchLog'
  BY SMTT(60) DEF TypeOK, Headers, PinsMatchLog, Pending, Unpin
<1> QED BY <1>1, <1>2, <1>3, <1>4, <1>5, <1>6

(* The header write that ends recovery. *)
LEMMA RecoverEraseInv == ASSUME LogInv, RecoverErase PROVE LogInv'
<1> USE DEF LogInv, RecoverErase
<1>1. TypeOK'
  BY ConstantsAssumption, SMTT(60) DEF TypeOK
<1>2. Control'
  BY DEF TypeOK, Control, Active
<1>3. Headers'
  BY SMTT(60) DEF TypeOK, Headers
<1>4. Copies'
  <2>1. ASSUME NEW b \in Block, disk[b] = Torn PROVE FALSE
    <3>1. PICK i \in DOMAIN hdr : hdr[i] = b
      BY <2>1 DEF Copies, InLog
    <3>2. disk[b] = logblk[i] /\ logblk[i] \in Val
      BY <3>1 DEF Headers, Copies
    <3> QED BY <2>1, <3>2, ConstantsAssumption
  <2> QED BY <2>1, SMTT(60) DEF TypeOK, Headers, Copies
<1>5. Coherent' /\ PinsMatchLog'
  BY SMTT(60) DEF TypeOK, Coherent, PinsMatchLog, Pending
<1> QED BY <1>1, <1>2, <1>3, <1>4, <1>5

(* Power failure at any step. *)
LEMMA CrashInv == ASSUME LogInv, Crash PROVE LogInv'
<1> USE DEF LogInv, Crash
<1>1. TypeOK'
  <2>1. /\ disk' \in [Block -> Val \cup {Torn}]
        /\ logblk' \in [Slot -> Val \cup {Torn}]
    BY DEF TypeOK
  <2>2. /\ cache' \in [Block -> Val \cup {None}]
        /\ pin' \in [Block -> Nat]
        /\ holder' \in [Block -> Proc \cup {None}]
        /\ pc' \in [Proc -> PC]
        /\ writes' \in [Proc -> Nat]
    BY ConstantsAssumption
  <2>3. lh' \in Seq(Block) /\ Len(lh') <= LOGSIZE
    BY Bounds, SMTT(60)
  <2> QED BY <2>1, <2>2, <2>3 DEF TypeOK
<1>2. Control'
  <2>1. Active' = {}
    BY DEF Active
  <2> QED BY <2>1, FS_EmptySet DEF Control
<1>3. Headers'
  BY SMTT(60) DEF TypeOK, Headers
<1>4. Copies'
  <2>1. CASE UNCHANGED <<disk, logblk>>
    BY <2>1 DEF TypeOK, Copies, InLog
  <2>2. CASE /\ phase = "write_log" /\ UNCHANGED disk
             /\ logblk' = [logblk EXCEPT ![tail] = Torn]
    BY <2>2, SMTT(60) DEF TypeOK, Headers, Copies, InLog
  <2>3. CASE /\ phase \in {"install", "recover"} /\ UNCHANGED logblk
             /\ disk' = [disk EXCEPT ![lh[tail]] = Torn]
    BY <2>3 DEF TypeOK, Headers, Copies, InLog
  <2> QED BY <2>1, <2>2, <2>3
<1>5. Coherent' /\ PinsMatchLog'
  BY SMTT(60) DEF TypeOK, Coherent, PinsMatchLog, Pending
<1> QED BY <1>1, <1>2, <1>3, <1>4, <1>5

(* Idle machine. *)
LEMMA StutterInv == ASSUME LogInv, UNCHANGED vars PROVE LogInv'
<1> USE DEF vars, memory, media
<1>1. Active' = Active /\ Pending' = Pending
  BY DEF Active, Pending
<1>2. TypeOK' /\ Control'
  BY <1>1 DEF LogInv, TypeOK, Control
<1>3. Headers' /\ Copies'
  BY DEF LogInv, Headers, Copies, Bread, InLog
<1>4. Coherent' /\ PinsMatchLog'
  BY <1>1 DEF LogInv, Coherent, PinsMatchLog
<1> QED BY <1>2, <1>3, <1>4 DEF LogInv

(* Every step of the specification preserves the invariant. *)
LEMMA NextInv == LogInv /\ [Next]_vars => LogInv'
BY EvictInv, BeginOpInv, ModifyInv, LogWriteInv, EndOpInv, WriteLogInv,
   WriteHeadInv, InstallTransInv, EraseInv, CommitDoneInv, ReadHeadInv,
   RecoverTransInv, RecoverEraseInv, CrashInv, StutterInv
DEF Next, CommitStep, Recovery

(* The invariant of log.c holds whatever the sizes of log and machine. *)
THEOREM LogInvariant == Spec => []LogInv
BY InitInv, NextInv, PTL DEF Spec

(* Pins follow the log: no update can be evicted before it is installed,   *)
(* and no commit leaks a buffer.                                           *)
THEOREM PinsCorrect == Spec => []PinsMatchLog
<1>1. LogInv => PinsMatchLog
  BY DEF LogInv
<1> QED BY <1>1, LogInvariant, PTL

(* When no call and no commit is in progress, a restart would find exactly *)
(* what the calls have written.                                            *)
THEOREM QuiescentIsDurable == Spec => []QuiescentDurable
<1>1. LogInv => QuiescentDurable
  <2> SUFFICES ASSUME LogInv, ~Recovering, ~committing, outstanding = 0
               PROVE  Recovered = View
    BY DEF QuiescentDurable
  <2>1. phase = "none" /\ lh = <<>> /\ hdr = <<>>
    BY DEF LogInv, TypeOK, Control, Headers
  <2>2. Pending = {}
    BY <2>1, SMTT(60) DEF Pending
  <2>3. Active = {}
    BY ActiveFinite, FS_EmptySet DEF LogInv, Control
  <2>4. \A b \in Block : holder[b] = None
    BY <2>3 DEF LogInv, TypeOK, Control, Active
  <2>5. \A b \in Block : Bread(b) = disk[b]
    BY <2>2, <2>4 DEF LogInv, Coherent, Bread
  <2> QED BY <2>1, <2>5, SMTT(60) DEF Recovered, View, InLog
<1> QED BY <1>1, LogInvariant, PTL

-----------------------------------------------------------------------------
(* Nobody sleeps in begin_op with nobody left to wake them. *)

(* Nobody sleeps before the first system call. *)
LEMMA SleepersInit == Init => SleepersHaveWaker
BY DEF Init, SleepersHaveWaker

(* No step leaves a sleeper of begin_op without a waker. *)
LEMMA SleepersNext ==
  ASSUME LogInv, SleepersHaveWaker, [Next]_vars
  PROVE  SleepersHaveWaker'
<1> USE DEF SleepersHaveWaker
<1>1. ASSUME NEW p \in Proc, BeginOp(p) PROVE SleepersHaveWaker'
  <2>1. CASE ~MustWait
    BY <1>1, <2>1, SMTT(60) DEF BeginOp, LogInv, TypeOK
  <2>2. CASE MustWait /\ ~committing /\ outstanding = 0
    <3>1. lh = <<>>
      BY <1>1, <2>2 DEF BeginOp, LogInv, TypeOK, Control, Headers
    <3>2. Len(lh) + (outstanding + 1) * MAXOPBLOCKS = MAXOPBLOCKS
      BY <2>2, <3>1, ConstantsAssumption, SMTT(60)
    <3> QED BY <2>2, <3>2, ConstantsAssumption, SMTT(60) DEF MustWait
  <2>3. CASE MustWait /\ (committing \/ outstanding # 0)
    BY <1>1, <2>3, SMTT(60) DEF BeginOp, LogInv, TypeOK
  <2> QED BY <2>1, <2>2, <2>3
<1>2. ASSUME NEW p \in Proc, EndOp(p) PROVE SleepersHaveWaker'
  <2>1. ~committing /\ p \in Active
    BY <1>2 DEF EndOp, LogInv, TypeOK, Control, Active
  <2>2. CASE outstanding = 1
    BY <1>2, <2>1, <2>2 DEF EndOp
  <2>3. CASE outstanding # 1
    <3>1. pc' = [Wakeup EXCEPT ![p] = "idle"]
      BY <1>2, <2>1, <2>3 DEF EndOp
    <3>2. \A q \in Proc : pc'[q] # "sleep"
      BY <3>1 DEF Wakeup
    <3> QED BY <3>2
  <2> QED BY <2>2, <2>3
<1>3. ASSUME NEW p \in Proc, CommitDone(p) PROVE SleepersHaveWaker'
  <2>1. pc' = [Wakeup EXCEPT ![p] = "idle"]
    BY <1>3 DEF CommitDone
  <2>2. \A q \in Proc : pc'[q] # "sleep"
    BY <2>1 DEF Wakeup
  <2> QED BY <2>2
<1>4. ASSUME NEW p \in Proc, NEW b \in Block, NEW v \in Val, Modify(p, b, v)
      PROVE  SleepersHaveWaker'
  BY <1>4 DEF Modify, LogInv, TypeOK
<1>5. ASSUME NEW p \in Proc, NEW b \in Block, LogWrite(p, b)
      PROVE  SleepersHaveWaker'
  <2>1. pc' = pc \/ pc' = [pc EXCEPT ![p] = "op"]
    BY <1>5 DEF LogWrite
  <2>2. \A q \in Proc : pc'[q] = "sleep" => pc[q] = "sleep"
    BY <2>1 DEF LogInv, TypeOK
  <2> QED BY <1>5, <2>2 DEF LogWrite
<1>6. CASE \E b \in Block : Evict(b)
  BY <1>6, SMTT(60) DEF Evict
<1>7. CASE CommitStep \/ Recovery
  BY <1>7 DEF CommitStep, Recovery, WriteLog, WriteHead, InstallTrans, Erase,
              ReadHead, RecoverTrans, RecoverErase, memory
<1>8. CASE Crash
  BY <1>8 DEF Crash
<1>9. CASE UNCHANGED vars
  BY <1>9 DEF vars, memory
<1> QED BY <1>1, <1>2, <1>3, <1>4, <1>5, <1>6, <1>7, <1>8, <1>9 DEF Next

(* A process asleep in begin_op always has a call or a commit in progress  *)
(* that will wake it: begin_op's wait condition cannot hold on an idle log *)
(* because one reservation fits into it.                                   *)
THEOREM SleepersAreWaitingForSomeone == Spec => []SleepersHaveWaker
BY LogInvariant, SleepersInit, SleepersNext, PTL DEF Spec

-----------------------------------------------------------------------------
(* log_write never finds the log full. *)

(* The log_writes that begin_op admitted and that are still to come. *)
Reserved == {r \in Active \X (1 .. MAXOPBLOCKS) : writes[r[1]] < r[2]}

(* They fit into the log. *)
Budget == Len(lh) + Cardinality(Reserved) <= LOGSIZE

(* No more is reserved than MAXOPBLOCKS for each call in progress. *)
ReservedBounded ==
  /\ IsFiniteSet(Reserved) /\ Cardinality(Reserved) \in Nat
  /\ Cardinality(Reserved) <= outstanding * MAXOPBLOCKS

LEMMA ReservedFinite == LogInv => ReservedBounded
<1> SUFFICES ASSUME LogInv PROVE ReservedBounded
  OBVIOUS
<1> DEFINE All == Active \X (1 .. MAXOPBLOCKS)
<1>1. MAXOPBLOCKS \in Nat
  BY ConstantsAssumption
<1>2. IsFiniteSet(1 .. MAXOPBLOCKS) /\ Cardinality(1 .. MAXOPBLOCKS) = MAXOPBLOCKS
  BY <1>1, FS_Interval, SMTT(60)
<1>3. IsFiniteSet(All) /\ Cardinality(All) = Cardinality(Active) * MAXOPBLOCKS
  BY <1>2, ActiveFinite, FS_Product
<1>4. Reserved \subseteq All
  BY DEF Reserved
<1>5. IsFiniteSet(Reserved) /\ Cardinality(Reserved) <= Cardinality(All)
  BY <1>3, <1>4, FS_Subset
<1> QED
  BY <1>3, <1>5, FS_CardinalityType DEF LogInv, Control, ReservedBounded

(* ... in the next state too. *)
LEMMA ReservedFiniteNext == LogInv' => ReservedBounded'
BY ReservedFinite, PTL

(* A call with w log_writes behind it has the other ones reserved. *)
LEMMA ReservedForCall ==
  ASSUME LogInv, NEW p \in Active, writes[p] < MAXOPBLOCKS
  PROVE  Cardinality(Reserved) >= MAXOPBLOCKS - writes[p]
<1> DEFINE Mine == {p} \X (writes[p] + 1 .. MAXOPBLOCKS)
<1>1. MAXOPBLOCKS \in Nat /\ writes[p] \in Nat
  BY ConstantsAssumption DEF LogInv, TypeOK, Active
<1>2. /\ IsFiniteSet(writes[p] + 1 .. MAXOPBLOCKS)
      /\ Cardinality(writes[p] + 1 .. MAXOPBLOCKS) = MAXOPBLOCKS - writes[p]
  <2> DEFINE a == writes[p] + 1
  <2>1. a \in Int /\ ~(a > MAXOPBLOCKS) /\ MAXOPBLOCKS - a + 1 = MAXOPBLOCKS - writes[p]
    BY <1>1, SMTT(60)
  <2> HIDE DEF a
  <2>2. /\ IsFiniteSet(a .. MAXOPBLOCKS)
        /\ Cardinality(a .. MAXOPBLOCKS) = IF a > MAXOPBLOCKS THEN 0 ELSE MAXOPBLOCKS - a + 1
    <3>1. MAXOPBLOCKS \in Int
      BY <1>1, SMTT(60)
    <3> QED
      BY <2>1, <3>1, FS_Interval
  <2> QED
    BY <2>1, <2>2 DEF a
<1>3. IsFiniteSet({p}) /\ Cardinality({p}) = 1
  BY FS_Singleton
<1>4. Cardinality(Mine) = 1 * (MAXOPBLOCKS - writes[p])
  <2>1. Cardinality(Mine) = Cardinality({p}) * Cardinality(writes[p] + 1 .. MAXOPBLOCKS)
    BY <1>2, <1>3, FS_Product
  <2> QED
    BY <1>2, <1>3, <2>1
<1>5. Mine \subseteq Reserved
  BY <1>1, SMTT(60) DEF Reserved
<1>6. Cardinality(Mine) <= Cardinality(Reserved)
  BY <1>5, ReservedFinite, FS_Subset DEF ReservedBounded
<1>7. Cardinality(Reserved) \in Nat
  BY ReservedFinite DEF ReservedBounded
<1> HIDE DEF Mine
<1> QED
  BY <1>1, <1>4, <1>6, <1>7, SMTT(60)

(* log_write uses one of them up. *)
LEMMA ReservedUsed ==
  ASSUME LogInv, NEW p \in Active, writes[p] < MAXOPBLOCKS, Active' = Active,
         writes' = [writes EXCEPT ![p] = @ + 1]
  PROVE  Cardinality(Reserved') = Cardinality(Reserved) - 1
<1> DEFINE x == <<p, writes[p] + 1>>
<1>1. MAXOPBLOCKS \in Nat /\ writes \in [Proc -> Nat] /\ Active \subseteq Proc
  BY ConstantsAssumption DEF LogInv, TypeOK, Active
<1>2. x \in Reserved
  BY <1>1, SMTT(60) DEF Reserved
<1>3. Reserved' = Reserved \ {x}
  BY <1>1, SMTT(60) DEF Reserved
<1>4. Cardinality(Reserved \ {x}) = Cardinality(Reserved) - 1
  BY <1>2, ReservedFinite, FS_RemoveElement DEF ReservedBounded
<1> QED
  BY <1>3, <1>4

(* Where nothing more is reserved and nothing logged, nothing changes. *)
LEMMA ReservedLess ==
  ASSUME LogInv, LogInv', Budget, Reserved' \subseteq Reserved, Len(lh') <= Len(lh)
  PROVE  Budget'
<1>1. Cardinality(Reserved') <= Cardinality(Reserved) /\ Cardinality(Reserved) \in Nat
  BY ReservedFinite, FS_Subset DEF ReservedBounded
<1>2. Cardinality(Reserved') \in Nat
  <2>1. IsFiniteSet(Reserved')
    BY ReservedFinite, FS_Subset DEF ReservedBounded
  <2> QED
    BY <2>1, FS_CardinalityType
<1>3. Len(lh) \in Nat /\ Len(lh') \in Nat
  BY SMTT(60) DEF LogInv, TypeOK
<1> QED
  BY <1>1, <1>2, <1>3, Bounds, SMTT(60) DEF Budget

(* While no call is in progress, nothing is reserved. *)
LEMMA ReservedNone ==
  /\ Active = {} => Cardinality(Reserved) = 0
  /\ Active' = {} => Cardinality(Reserved') = 0
<1>1. Active = {} => Reserved = {}
  BY DEF Reserved
<1>2. Active' = {} => Reserved' = {}
  BY DEF Reserved
<1>3. Cardinality({}) = 0
  BY FS_EmptySet
<1> QED
  BY <1>1, <1>2, <1>3

(* The condition on the sizes under which no panic is reached: begin_op    *)
(* counts on LOGSIZE blocks where the disk has NLog - 1, so a call must    *)
(* stay below its reservation by the difference.                           *)
SizesFit == LOGSIZE + OpBlocks < NLog + MAXOPBLOCKS

(* log_write within the reservation *)
LEMMA LogWriteFits ==
  ASSUME SizesFit, LogInv, LogInv', NoPanic, Budget,
         NEW p \in Proc, NEW b \in Block, LogWrite(p, b)
  PROVE  NoPanic' /\ Budget'
<1>1. /\ pc[p] = "modified" /\ p \in Active /\ writes[p] < OpBlocks
  BY DEF LogWrite, LogInv, Control, Active
<1>2. /\ OpBlocks \in Nat /\ OpBlocks <= MAXOPBLOCKS /\ MAXOPBLOCKS \in Nat
      /\ LOGSIZE \in Nat /\ NLog \in Nat /\ Len(lh) \in Nat /\ writes[p] \in Nat
  BY ConstantsAssumption, SMTT(60) DEF LogInv, TypeOK
<1>3. writes[p] < MAXOPBLOCKS
  BY <1>1, <1>2, SMTT(60)
<1>4. Cardinality(Reserved) >= MAXOPBLOCKS - writes[p] /\ Cardinality(Reserved) \in Nat
  BY <1>1, <1>3, ReservedForCall, ReservedFinite DEF ReservedBounded
<1>5. Len(lh) + (MAXOPBLOCKS - writes[p]) <= LOGSIZE
  BY <1>2, <1>4, SMTT(60) DEF Budget
<1>6. ~(Len(lh) >= LOGSIZE) /\ ~(Len(lh) >= NLog - 1)
  BY <1>1, <1>2, <1>5, SMTT(60) DEF SizesFit
<1>7. ~(outstanding < 1)
  <2>1. outstanding = Cardinality(Active) /\ outstanding \in Nat
    BY DEF LogInv, Control, TypeOK
  <2>2. Cardinality(Active) # 0
    BY <1>1, ActiveFinite, FS_EmptySet
  <2> QED
    BY <2>1, <2>2, SMTT(60)
<1>8. /\ panicked' = panicked /\ writes' = [writes EXCEPT ![p] = @ + 1]
      /\ pc' = [pc EXCEPT ![p] = "op"]
      /\ lh' = lh \/ lh' = Append(lh, b)
  BY <1>6, <1>7 DEF LogWrite
<1>9. Active' = Active
  BY <1>1, <1>8 DEF LogInv, TypeOK, Active
<1>10. Cardinality(Reserved') = Cardinality(Reserved) - 1
  BY <1>1, <1>3, <1>8, <1>9, ReservedUsed
<1>11. Len(lh') \in Nat /\ Len(lh') <= Len(lh) + 1
  BY <1>8, SMTT(60) DEF LogInv, TypeOK
<1> QED
  BY <1>2, <1>4, <1>8, <1>10, <1>11, SMTT(60) DEF Budget, NoPanic

(* begin_op admits a call only with room for all of its log_writes. *)
LEMMA BeginOpFits ==
  ASSUME LogInv, LogInv', Budget, NEW p \in Proc, BeginOp(p)
  PROVE  Budget'
<1>1. lh' = lh
  BY DEF BeginOp
<1>2. CASE MustWait
  <2>1. pc' = [pc EXCEPT ![p] = "sleep"] /\ writes' = writes /\ pc[p] \in {"idle", "begin"}
    BY <1>2 DEF BeginOp
  <2>2. Active' = Active
    BY <2>1 DEF LogInv, TypeOK, Active
  <2>3. Reserved' = Reserved
    BY <2>1, <2>2 DEF Reserved
  <2> QED
    BY <1>1, <2>3 DEF Budget
<1>3. CASE ~MustWait
  <2>1. outstanding' = outstanding + 1
    BY <1>3 DEF BeginOp
  <2>2. Cardinality(Reserved') \in Nat /\ Cardinality(Reserved') <= outstanding' * MAXOPBLOCKS
    BY ReservedFiniteNext DEF ReservedBounded
  <2>3. (outstanding + 1) * MAXOPBLOCKS \in Nat /\ Len(lh) \in Nat
    BY ConstantsAssumption, SMTT(60) DEF LogInv, TypeOK
  <2>4. Len(lh) + (outstanding + 1) * MAXOPBLOCKS <= LOGSIZE
    BY <1>3, <2>3, Bounds, SMTT(60) DEF MustWait
  <2> QED
    BY <1>1, <2>1, <2>2, <2>3, <2>4, Bounds, SMTT(60) DEF Budget
<1> QED
  BY <1>2, <1>3

(* Every step keeps to the budget. *)
LEMMA BudgetStep ==
  ASSUME SizesFit, LogInv, LogInv', NoPanic, Budget, [Next]_vars
  PROVE  NoPanic' /\ Budget'
<1> USE DEF NoPanic
<1>1. ASSUME NEW p \in Proc, BeginOp(p) PROVE NoPanic' /\ Budget'
  BY <1>1, BeginOpFits DEF BeginOp
<1>2. ASSUME NEW p \in Proc, EndOp(p) PROVE NoPanic' /\ Budget'
  <2>1. ~committing /\ p \in Active
    BY <1>2 DEF EndOp, LogInv, TypeOK, Control, Active
  <2>2. Active' = Active \ {p} /\ writes' = writes /\ lh' = lh /\ panicked' = panicked
    BY <1>2, <2>1 DEF LogInv, TypeOK, Active, EndOp, Wakeup
  <2>3. Reserved' \subseteq Reserved
    BY <2>2 DEF Reserved
  <2>4. Len(lh') <= Len(lh)
    BY <2>2, SMTT(60) DEF LogInv, TypeOK
  <2> QED
    BY <2>2, <2>3, <2>4, ReservedLess
<1>3. ASSUME NEW p \in Proc, CommitDone(p) PROVE NoPanic' /\ Budget'
  <2>1. Active' = Active /\ writes' = writes /\ lh' = lh /\ panicked' = panicked
    BY <1>3 DEF LogInv, TypeOK, Active, CommitDone, Wakeup
  <2> QED
    BY <2>1 DEF Budget, Reserved
<1>4. ASSUME NEW p \in Proc, NEW b \in Block, NEW v \in Val, Modify(p, b, v)
      PROVE  NoPanic' /\ Budget'
  <2>1. Active' = Active /\ writes' = writes /\ lh' = lh /\ panicked' = panicked
    BY <1>4, SMTT(60) DEF LogInv, TypeOK, Active, Modify
  <2> QED
    BY <2>1 DEF Budget, Reserved
<1>5. ASSUME NEW p \in Proc, NEW b \in Block, LogWrite(p, b) PROVE NoPanic' /\ Budget'
  BY <1>5, LogWriteFits
<1>6. ASSUME UNCHANGED <<pc, writes, lh, panicked>> PROVE NoPanic' /\ Budget'
  BY <1>6 DEF Budget, Reserved, Active
<1>7. CASE \E b \in Block : Evict(b)
  BY <1>6, <1>7 DEF Evict
<1>8. CASE WriteLog \/ WriteHead \/ InstallTrans \/ RecoverTrans
  BY <1>6, <1>8 DEF WriteLog, WriteHead, InstallTrans, RecoverTrans, memory
<1>9. ASSUME Active' = {}, panicked' \in {panicked, FALSE} PROVE NoPanic' /\ Budget'
  <2>1. Cardinality(Reserved') = 0 /\ Len(lh') \in Nat /\ Len(lh') <= LOGSIZE
    BY <1>9, ReservedNone, SMTT(60) DEF LogInv, TypeOK
  <2>2. Budget'
    BY <2>1, Bounds, SMTT(60) DEF Budget
  <2>3. panicked' = FALSE
    BY <1>9 DEF LogInv, TypeOK
  <2> QED
    BY <2>2, <2>3
<1>10. CASE Erase \/ RecoverErase \/ ReadHead
  <2>1. Active' = {} /\ panicked' = panicked
    BY <1>10 DEF Erase, RecoverErase, ReadHead, LogInv, Control, Active
  <2> QED
    BY <1>9, <2>1
<1>11. CASE Crash
  BY <1>9, <1>11 DEF Crash, Active
<1>12. CASE UNCHANGED vars
  BY <1>6, <1>12 DEF vars, memory
<1> QED
  BY <1>1, <1>2, <1>3, <1>4, <1>5, <1>7, <1>8, <1>10, <1>11, <1>12
  DEF Next, CommitStep, Recovery

(* A fresh log is empty and nobody has a reservation. *)
LEMMA BudgetInit == Init => NoPanic /\ Budget
<1> SUFFICES ASSUME Init PROVE NoPanic /\ Budget
  OBVIOUS
<1>1. Active = {} /\ Len(lh) = 0
  BY DEF Init, Active
<1>2. Cardinality(Reserved) = 0
  BY <1>1, ReservedNone
<1> QED
  BY <1>1, <1>2, Bounds, SMTT(60) DEF Init, Budget, NoPanic

(* The reservation of begin_op is enough for log_write: with calls that    *)
(* stay below it by as much as the log on disk is smaller than LOGSIZE,    *)
(* "too big a transaction", "log_write outside of trans" and end_op's      *)
(* "log.committing" are never reached.  With kernel/param.h and mkfs.c,    *)
(* LOGSIZE = NLog = 30 and MAXOPBLOCKS = 10, SizesFit says at most 9.      *)
THEOREM LogNeverPanics ==
  ASSUME SizesFit
  PROVE  Spec => []NoPanic
<1>1. Init => NoPanic /\ Budget
  BY BudgetInit
<1>2. LogInv /\ LogInv' /\ NoPanic /\ Budget /\ [Next]_vars => NoPanic' /\ Budget'
  BY BudgetStep
<1> QED
  BY <1>1, <1>2, LogInvariant, PTL DEF Spec

-----------------------------------------------------------------------------
(* The refinement: every step of log.c is a step of the atomic disk or     *)
(* leaves its state alone.                                                 *)

AbstractUnchanged == Recovered' = Recovered /\ View' = View /\ Active' = Active

(* A freshly made disk is an initial atomic disk. *)
LEMMA InitRefines == Init => Atomic!Init
<1> SUFFICES ASSUME Init PROVE Atomic!Init
  OBVIOUS
<1>1. Recovered = disk
  BY SMTT(60) DEF Init, Recovered, InLog
<1> QED BY <1>1 DEF Atomic!Init, Init, View, Active

(* A header without duplicates picks the one slot that holds a block. *)
LEMMA RecoveredSlot ==
  ASSUME LogInv, NEW i \in DOMAIN hdr
  PROVE  hdr[i] \in Block /\ Recovered[hdr[i]] = logblk[i]
<1>1. hdr[i] \in Block /\ InLog(hdr[i], hdr)
  BY SMTT(60) DEF LogInv, TypeOK, InLog
<1>2. (CHOOSE j \in DOMAIN hdr : hdr[j] = hdr[i]) = i
  BY DEF LogInv, Headers
<1> QED BY <1>1, <1>2 DEF Recovered

(* What is on the media alone determines what recovery finds. *)
LEMMA SameMedia ==
  ASSUME UNCHANGED <<disk, logblk, hdr>> PROVE Recovered' = Recovered
BY DEF Recovered, InLog

(* Recycling a clean buffer is invisible. *)
LEMMA EvictRefines ==
  ASSUME LogInv, NEW b \in Block, Evict(b) PROVE AbstractUnchanged
<1>1. Recovered' = Recovered /\ Active' = Active
  BY SameMedia DEF Evict, media, Active
<1>2. cache[b] = disk[b]
  BY SMTT(60) DEF LogInv, Evict, PinsMatchLog, Coherent
<1>3. \A c \in Block : Bread(c)' = Bread(c)
  BY <1>2 DEF LogInv, TypeOK, Evict, media, Bread
<1>4. View' = View
  BY <1>1, <1>3 DEF View, Evict
<1> QED BY <1>1, <1>4 DEF AbstractUnchanged

(* begin_op starts a call, or sleeps and changes nothing. *)
LEMMA BeginOpRefines ==
  ASSUME LogInv, NEW p \in Proc, BeginOp(p)
  PROVE  AbstractUnchanged \/ Atomic!Begin(p)
<1>1. Recovered' = Recovered
  BY SameMedia DEF BeginOp, media
<1>2. View' = View
  BY <1>1 DEF View, Bread, BeginOp, media
<1>3. CASE MustWait
  <2>1. pc' = [pc EXCEPT ![p] = "sleep"] /\ pc[p] \in {"idle", "begin"}
    BY <1>3 DEF BeginOp
  <2>2. Active' = Active
    BY <2>1 DEF LogInv, TypeOK, Active
  <2> QED BY <1>1, <1>2, <2>2 DEF AbstractUnchanged
<1>4. CASE ~MustWait
  <2>1. pc' = [pc EXCEPT ![p] = "op"] /\ pc[p] \in {"idle", "begin"}
    BY <1>4 DEF BeginOp
  <2>2. p \notin Active /\ Active' = Active \cup {p}
    BY <2>1 DEF LogInv, TypeOK, Active
  <2> QED BY <1>1, <1>2, <2>2 DEF Atomic!Begin
<1> QED BY <1>3, <1>4

(* Modifying a buffer writes the block for every other call. *)
LEMMA ModifyRefines ==
  ASSUME LogInv, NEW p \in Proc, NEW b \in Block, NEW v \in Val,
         Modify(p, b, v)
  PROVE  Atomic!Write(p, b, v)
<1>1. Recovered' = Recovered
  BY SameMedia DEF Modify, media
<1>2. p \in Active /\ Active' = Active
  BY DEF LogInv, TypeOK, Active, Modify
<1>3. View' = [View EXCEPT ![b] = v]
  BY ConstantsAssumption DEF LogInv, TypeOK, View, Bread, Modify, media
<1> QED BY <1>1, <1>2, <1>3 DEF Atomic!Write

(* log_write only records what was already visible. *)
LEMMA LogWriteRefines ==
  ASSUME LogInv, NEW p \in Proc, NEW b \in Block, LogWrite(p, b)
  PROVE  AbstractUnchanged
<1>1. Recovered' = Recovered
  BY SameMedia DEF LogWrite, media
<1>2. View' = View
  BY <1>1 DEF View, Bread, LogWrite, media
<1>3. pc[p] = "modified" /\ (pc' = pc \/ pc' = [pc EXCEPT ![p] = "op"])
  BY DEF LogWrite
<1>4. Active' = Active
  BY <1>3 DEF LogInv, TypeOK, Active
<1> QED BY <1>1, <1>2, <1>4 DEF AbstractUnchanged

(* end_op ends the call, before it commits. *)
LEMMA EndOpRefines ==
  ASSUME LogInv, NEW p \in Proc, EndOp(p) PROVE Atomic!End(p)
<1>1. Recovered' = Recovered
  BY SameMedia DEF EndOp, media
<1>2. p \in Active /\ ~committing /\ phase = "none"
  BY DEF LogInv, TypeOK, Control, Active, EndOp
<1>3. View' = View
  BY <1>1, <1>2 DEF View, Bread, EndOp, media, FirstPhase
<1>4. Active' = Active \ {p}
  BY <1>2 DEF LogInv, TypeOK, Active, EndOp, Wakeup
<1> QED BY <1>1, <1>2, <1>3, <1>4 DEF Atomic!End

(* The end of the committing end_op is invisible. *)
LEMMA CommitDoneRefines ==
  ASSUME LogInv, NEW p \in Proc, CommitDone(p) PROVE AbstractUnchanged
<1>1. Recovered' = Recovered
  BY SameMedia DEF CommitDone, media
<1>2. View' = View
  BY <1>1 DEF View, Bread, CommitDone, media
<1>3. Active' = Active
  BY DEF LogInv, TypeOK, Active, CommitDone, Wakeup
<1> QED BY <1>1, <1>2, <1>3 DEF AbstractUnchanged

(* Copying into the log before the header is written is invisible. *)
LEMMA WriteLogRefines ==
  ASSUME LogInv, WriteLog PROVE AbstractUnchanged
<1>1. hdr = <<>> /\ hdr' = <<>> /\ disk' = disk
  BY DEF LogInv, Headers, WriteLog
<1>2. Recovered' = Recovered
  BY <1>1, SMTT(60) DEF Recovered, InLog
<1>3. lh[tail] \in Pending /\ lh[tail] \in Block
  BY SMTT(60) DEF LogInv, TypeOK, Headers, WriteLog, Pending
<1>4. cache' = cache
  BY <1>3 DEF LogInv, TypeOK, Coherent, WriteLog, Bread
<1>5. View' = View
  BY <1>1, <1>4 DEF View, Bread, WriteLog, Advance
<1> QED BY <1>2, <1>5 DEF AbstractUnchanged, Active, WriteLog

(* The commit point: what recovery finds becomes what the calls see. *)
LEMMA WriteHeadRefines ==
  ASSUME LogInv, LogInv', WriteHead PROVE Atomic!Commit
<1>0. /\ hdr = <<>> /\ hdr' = lh /\ lh' = lh /\ logblk' = logblk
      /\ disk' = disk /\ cache' = cache /\ phase = "write_head"
      /\ phase' = "install" /\ holder' = holder /\ pc' = pc /\ tail' = tail
  BY DEF LogInv, Headers, WriteHead, memory
<1>1. Active = {} /\ Active' = Active
  BY <1>0 DEF LogInv, Control, Active
<1>2. View' = View /\ View = [b \in Block |-> Bread(b)]
  BY <1>0 DEF View, Bread
<1>3. ASSUME NEW b \in Block PROVE Recovered'[b] = Bread(b)
  <2>1. CASE InLog(b, lh)
    <3>1. PICK i \in DOMAIN lh : lh[i] = b
      BY <2>1 DEF InLog
    <3>2. Recovered'[hdr'[i]] = logblk'[i]
      <4>1. i \in DOMAIN hdr' /\ LogInv'
        BY <1>0, <3>1
      <4>2. ASSUME LogInv', NEW k \in DOMAIN hdr' PROVE Recovered'[hdr'[k]] = logblk'[k]
        <5>1. \A m \in DOMAIN hdr' : hdr'[m] = hdr'[k] => m = k
          BY <4>2 DEF LogInv, Headers
        <5>2. hdr'[k] \in Block
          <6>1. hdr' \in Seq(Block)
            BY <4>2 DEF LogInv, TypeOK
          <6> QED BY <4>2, <6>1, SMTT(60)
        <5>3. InLog(hdr'[k], hdr')
          BY <4>2 DEF InLog
        <5>4. (CHOOSE m \in DOMAIN hdr' : hdr'[m] = hdr'[k]) = k
          BY <4>2, <5>1
        <5> QED BY <5>2, <5>3, <5>4 DEF Recovered
      <4> QED BY <4>1, <4>2
    <3>3. logblk[i] = Bread(lh[i])
      BY <1>0, <3>1 DEF LogInv, Copies
    <3> QED BY <1>0, <3>1, <3>2, <3>3
  <2>2. CASE ~InLog(b, lh)
    <3>1. Recovered'[b] = disk[b]
      BY <1>0, <2>2 DEF Recovered, InLog
    <3>2. b \notin Pending
      <4>1. lh \in Seq(Block)
        BY DEF LogInv, TypeOK
      <4>2. DOMAIN lh = 1 .. Len(lh)
        BY <4>1, SMTT(60)
      <4>3. \A i \in 1 .. Len(lh) : lh[i] # b
        BY <2>2, <4>2 DEF InLog
      <4>4. Pending = {lh[i] : i \in 1 .. Len(lh)}
        BY <1>0 DEF Pending
      <4> QED BY <4>3, <4>4
    <3>3. holder[b] = None
      <4>1. holder[b] \in Proc \cup {None} /\ (holder[b] # None => pc[holder[b]] = "modified")
        BY DEF LogInv, TypeOK, Control
      <4> QED BY <1>1, <4>1 DEF Active
    <3> QED BY <3>1, <3>2, <3>3 DEF LogInv, Coherent, Bread
  <2> QED BY <2>1, <2>2
<1>4. Recovered' = View
  BY <1>2, <1>3 DEF Recovered
<1> QED BY <1>1, <1>2, <1>4 DEF Atomic!Commit

(* Installing writes home only what recovery would. *)
LEMMA InstallRefines ==
  ASSUME LogInv, InstallTrans \/ RecoverTrans PROVE AbstractUnchanged
<1>0. /\ lh' = lh /\ hdr = lh /\ hdr' = hdr /\ logblk' = logblk /\ pc' = pc
      /\ tail \in DOMAIN lh /\ lh[tail] \in Block
      /\ disk' = [disk EXCEPT ![lh[tail]] = logblk[tail]]
      /\ cache' = [cache EXCEPT ![lh[tail]] = logblk[tail]]
  BY SMTT(60) DEF LogInv, TypeOK, Headers, InstallTrans, RecoverTrans, Install
<1>1. InLog(lh[tail], hdr)
  BY <1>0 DEF InLog
<1>2. Recovered' = Recovered
  BY <1>0, <1>1 DEF LogInv, TypeOK, Recovered, InLog
<1>3. Recovering' <=> Recovering
  BY DEF InstallTrans, RecoverTrans, Install, Advance
<1>4. ~Recovering => \A b \in Block : Bread(b)' = Bread(b)
  <2> SUFFICES ASSUME ~Recovering, NEW b \in Block PROVE Bread(b)' = Bread(b)
    OBVIOUS
  <2>1. phase = "install"
    BY DEF InstallTrans, RecoverTrans
  <2>2. logblk[tail] \in Val /\ logblk[tail] = Bread(lh[tail])
    BY <1>0, <2>1 DEF LogInv, Copies
  <2> QED BY <1>0, <2>2, ConstantsAssumption DEF LogInv, TypeOK, Bread
<1>5. View' = View
  BY <1>2, <1>3, <1>4 DEF View
<1> QED BY <1>0, <1>2, <1>5 DEF AbstractUnchanged, Active

(* Erasing an installed transaction loses nothing. *)
LEMMA EraseRefines ==
  ASSUME LogInv, Erase \/ RecoverErase PROVE AbstractUnchanged
<1>0. /\ hdr = lh /\ hdr' = <<>> /\ disk' = disk /\ cache' = cache /\ pc' = pc
      /\ phase \in {"erase", "recover_erase"}
      /\ phase' \in {"finish", "none"}
      /\ logblk' = logblk
  BY DEF LogInv, Headers, Erase, RecoverErase
<1>1. ASSUME NEW b \in Block PROVE Recovered[b] = disk[b]
  <2>1. CASE InLog(b, hdr)
    <3>1. PICK i \in DOMAIN hdr : hdr[i] = b
      BY <2>1 DEF InLog
    <3>2. Recovered[b] = logblk[i]
      BY <3>1, RecoveredSlot
    <3> QED BY <1>0, <3>1, <3>2 DEF LogInv, Copies
  <2>2. CASE ~InLog(b, hdr)
    BY <2>2 DEF Recovered
  <2> QED BY <2>1, <2>2
<1>2. Recovered' = [b \in Block |-> disk[b]]
  BY <1>0, SMTT(60) DEF Recovered, InLog
<1>3. Recovered = [b \in Block |-> disk[b]]
  BY <1>1 DEF Recovered
<1>4. View' = View
  <2>1. \A b \in Block : holder[b] = None
    <3>1. Active = {}
      BY <1>0 DEF LogInv, Control, Active
    <3>2. \A b \in Block : holder[b] # None => holder[b] \in Active
      BY <1>0 DEF LogInv, TypeOK, Control, Active
    <3> QED BY <3>1, <3>2
  <2>2. Pending = {}
    BY <1>0, SMTT(60) DEF LogInv, TypeOK, Pending
  <2>3. \A b \in Block : Bread(b) = disk[b] /\ Bread(b)' = disk[b]
    BY <1>0, <2>1, <2>2 DEF LogInv, Coherent, Bread
  <2> QED BY <1>0, <1>2, <1>3, <2>3 DEF View
<1> QED BY <1>0, <1>2, <1>3, <1>4 DEF AbstractUnchanged, Active

(* Reading the header at start-up is invisible. *)
LEMMA ReadHeadRefines == ASSUME LogInv, ReadHead PROVE AbstractUnchanged
<1>1. Recovered' = Recovered
  BY SameMedia DEF ReadHead, media
<1> QED BY <1>1 DEF AbstractUnchanged, View, Active, ReadHead

(* A power failure, a torn block included, leaves what was durable. *)
LEMMA CrashRefines == ASSUME LogInv, Crash PROVE Atomic!PowerFail
<1>1. Recovered' = Recovered
  <2>1. CASE UNCHANGED <<disk, logblk>>
    BY <2>1, SameMedia DEF Crash
  <2>2. CASE phase = "write_log" /\ UNCHANGED disk
    BY <2>2, SMTT(60) DEF Crash, LogInv, Headers, Recovered, InLog
  <2>3. CASE /\ phase \in {"install", "recover"} /\ UNCHANGED logblk
             /\ disk' = [disk EXCEPT ![lh[tail]] = Torn]
    <3>1. hdr' = hdr /\ hdr = lh /\ tail \in DOMAIN lh
      BY <2>3 DEF Crash, LogInv, Headers
    <3>2. InLog(lh[tail], hdr)
      BY <3>1 DEF InLog
    <3> QED BY <2>3, <3>1, <3>2 DEF LogInv, TypeOK, Recovered, InLog
  <2> QED BY <2>1, <2>2, <2>3 DEF Crash
<1>2. View' = Recovered /\ Active' = {}
  BY <1>1 DEF Crash, View, Active
<1> QED BY <1>1, <1>2 DEF Atomic!PowerFail

(* Step simulation: all actions together. *)
LEMMA NextRefines ==
  ASSUME LogInv, LogInv', [Next]_vars
  PROVE  [Atomic!Next]_Atomic!vars
<1>1. AbstractUnchanged => UNCHANGED Atomic!vars
  BY DEF AbstractUnchanged, Atomic!vars
<1>2. CASE \E p \in Proc : BeginOp(p) \/ EndOp(p) \/ CommitDone(p)
  BY <1>1, <1>2, BeginOpRefines, EndOpRefines, CommitDoneRefines
  DEF Atomic!Next
<1>3. CASE \E p \in Proc, b \in Block, v \in Val : Modify(p, b, v)
  BY <1>3, ModifyRefines DEF Atomic!Next
<1>4. CASE \E p \in Proc, b \in Block : LogWrite(p, b)
  BY <1>1, <1>4, LogWriteRefines
<1>5. CASE \E b \in Block : Evict(b)
  BY <1>1, <1>5, EvictRefines
<1>6. CASE CommitStep \/ Recovery
  BY <1>1, <1>6, WriteLogRefines, WriteHeadRefines, InstallRefines,
     EraseRefines, ReadHeadRefines
  DEF CommitStep, Recovery, Atomic!Next
<1>7. CASE Crash
  BY <1>7, CrashRefines DEF Atomic!Next
<1>8. CASE UNCHANGED vars
  BY <1>1, <1>8
  DEF AbstractUnchanged, vars, memory, media, Recovered, View, Active, Bread,
      InLog
<1> QED BY <1>2, <1>3, <1>4, <1>5, <1>6, <1>7, <1>8 DEF Next

(* The log implements the atomic disk, for any processes, blocks and log   *)
(* size, with power failures and torn data blocks at every step: after     *)
(* recovery the disk holds all or none of what a group of calls wrote.     *)
THEOREM LogIsAtomic == Spec => RefinesAtomicDisk
<1>1. LogInv /\ LogInv' /\ [Next]_vars => [Atomic!Next]_Atomic!vars
  BY NextRefines
<1> QED BY <1>1, InitRefines, LogInvariant, PTL
        DEF Spec, RefinesAtomicDisk, Atomic!Spec
=============================================================================
