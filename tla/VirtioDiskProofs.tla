-------------------------- MODULE VirtioDiskProofs --------------------------
(***************************************************************************)
(* What the disk driver keeps to in every step, for any number of          *)
(* processes, buffers and descriptors: the lemmas about module VirtioDisk  *)
(* on which the proofs about the buffer cache, its only caller, rest.      *)
(***************************************************************************)
EXTENDS VirtioDisk, Integers, FiniteSetTheorems, WellFoundedInduction, TLAPS

USE ZenonT(60)

(* p is in virtio_disk_rw. *)
InRw(p) == rw[p].pc # "out"

(* p has been given descriptors, and has not freed them. *)
HasChain(p) == rw[p].head # None

(* The second descriptor of p's request *)
Second(p) == desc[rw[p].head].next

(* The one that takes the device's answer *)
Third(p) == desc[Second(p)].next

(* All three of them *)
Owned(p) == {rw[p].head, Second(p), Third(p)}

(* What a descriptor and a call may hold *)
Descriptor == [addr : Block \cup Buf \cup {None}, next : Desc, chained : BOOLEAN, write : BOOLEAN]

(* The locals of a call of virtio_disk_rw, and where it is *)
Call == [pc : {"out", "alloc", "nodesc", "wait", "woken"}, b : Buf \cup {None},
         block : Block \cup {None}, write : BOOLEAN, head : Desc \cup {None}]

(* The types of the driver's variables *)
DiskType ==
  /\ free \subseteq Desc
  /\ desc \in [Desc -> Descriptor]
  /\ info \in [Desc -> [b : Buf \cup {None}, ok : BOOLEAN]]
  /\ avail \subseteq Desc /\ used \in Seq(Desc)
  /\ busy \subseteq Buf
  /\ irq \in BOOLEAN /\ handler \in BOOLEAN
  /\ rw \in [Proc -> Call]

(* Two calls of virtio_disk_rw are never about the same buffer. *)
Requests ==
  \A p \in Proc :
    /\ HasChain(p) <=> rw[p].pc \in {"wait", "woken"}
    /\ InRw(p) => rw[p].b \in Buf /\ rw[p].block \in Block
    /\ \A q \in Proc : InRw(p) /\ InRw(q) /\ rw[p].b = rw[q].b => p = q

(* A chain is as Submit has formatted it, and nobody else's. *)
ChainOf(p) ==
  /\ rw[p].head # Second(p)
  /\ desc[rw[p].head].chained /\ desc[Second(p)].chained /\ ~desc[Third(p)].chained
  /\ desc[rw[p].head].addr = rw[p].block /\ desc[Second(p)].addr = rw[p].b
  /\ desc[rw[p].head].write = rw[p].write /\ desc[Second(p)].write = ~rw[p].write

(* Whoever waits for the device has a chain of three descriptors that are  *)
(* neither free nor anybody else's.                                        *)
Chains ==
  \A p \in Proc : HasChain(p) =>
    /\ ChainOf(p)
    /\ Owned(p) \cap free = {}
    /\ \A q \in Proc : HasChain(q) /\ q # p => Owned(p) \cap Owned(q) = {}

(* The processes that have a chain *)
Callers == {p \in Proc : HasChain(p)}

(* No descriptor is lost. *)
Counting == Cardinality(free) + 3 * Cardinality(Callers) = NUM

(* The device has yet to take i, or the handler has yet to see that it has *)
(* finished it.                                                            *)
InRing(i) == i \in avail \/ \E n \in DOMAIN used : used[n] = i

(* A request is once in one of the rings, and the device has signalled     *)
(* what the handler has not seen.                                          *)
Rings ==
  /\ \A i \in Desc : InRing(i) => \E p \in Proc : rw[p].head = i
  /\ \A n \in DOMAIN used : used[n] \notin avail /\ info[used[n]].ok
  /\ \A m, n \in DOMAIN used : used[m] = used[n] => m = n
  /\ used # <<>> => irq \/ handler

(* b->disk tells whether the request is in a ring. *)
Busy ==
  \A p \in Proc :
    /\ HasChain(p) => info[rw[p].head].b = rw[p].b /\ (rw[p].b \in busy <=> InRing(rw[p].head))
    /\ rw[p].pc = "wait" => rw[p].b \in busy
    /\ rw[p].pc = "nodesc" => Cardinality(free) < 3

(* The inductive invariant: that no descriptor is freed twice and no       *)
(* request is lost depends on every chain being as Submit formatted it,    *)
(* the handler and free_chain() following it from its head.                *)
DiskInv == ~broken /\ DiskType /\ Requests /\ Chains /\ Counting /\ Rings /\ Busy

-----------------------------------------------------------------------------
(* Finite sets *)

(* The order of the naturals, as a well-founded relation *)
LEMMA OrderOfNat ==
  \E R : IsWellFoundedOn(R, Nat) /\ \A x, y \in Nat : y < x => <<y, x>> \in R
<1> WITNESS OpToRel(<, Nat)
<1>1. \A x, y \in Nat : y < x => <<y, x>> \in OpToRel(<, Nat)
  BY DEF OpToRel
<1> QED  BY <1>1, NatLessThanWellFounded

(* Every set of naturals that is not empty has a least element. *)
LEMMA LeastElement ==
  ASSUME NEW S \in SUBSET Nat, S # {}
  PROVE  Min(S) \in S /\ \A y \in S : Min(S) <= y
<1>1. PICK R : IsWellFoundedOn(R, Nat) /\ \A x, y \in Nat : y < x => <<y, x>> \in R
  BY OrderOfNat
<1>2. PICK x \in S : \A y \in S : ~(<<y, x>> \in R)
  BY <1>1, WFMin
<1>3. ASSUME NEW y \in S PROVE x <= y
  <2>1. x \in Nat /\ y \in Nat /\ ~(y < x)  BY <1>1, <1>2
  <2> QED  BY <2>1, SMTT(60)
<1> QED  BY <1>3 DEF Min

(* The descriptors are finitely many. *)
LEMMA DescFinite ==
  /\ IsFiniteSet(Desc) /\ Cardinality(Desc) = NUM
  /\ \A S \in SUBSET Desc : IsFiniteSet(S) /\ Cardinality(S) \in Nat
<1>1. IsFiniteSet(Desc) /\ Cardinality(Desc) = NUM
  BY DiskAssumption, FS_Interval, SMTT(60) DEF Desc
<1> QED  BY <1>1, FS_Subset, FS_CardinalityType

(* Of three or more descriptors, alloc3_desc finds three different ones. *)
LEMMA Alloc3Finds ==
  ASSUME free \subseteq Desc, Cardinality(free) >= 3
  PROVE  \E a, b, c \in free : /\ Alloc3 = <<a, b, c>> /\ a # b /\ a # c /\ b # c
                               /\ Cardinality(free \ {a, b, c}) = Cardinality(free) - 3
<1> DEFINE a == Min(free)
           b == Min(free \ {a})
           c == Min(free \ {a, b})
<1>1. IsFiniteSet(free) /\ free \in SUBSET Nat
  BY DescFinite, SMTT(60) DEF Desc
<1>2. Cardinality(free) \in Nat  BY DescFinite
<1>3. free # {}  BY FS_EmptySet, SMTT(60)
<1>4. a \in free  BY <1>1, <1>3, LeastElement
<1> HIDE DEF a
<1>5. IsFiniteSet(free \ {a}) /\ Cardinality(free \ {a}) = Cardinality(free) - 1
  BY <1>1, <1>4, FS_RemoveElement
<1>6. free \ {a} # {}  BY <1>2, <1>5, FS_EmptySet, SMTT(60)
<1>7. b \in free \ {a}
  <2>1. free \ {a} \in SUBSET Nat  BY <1>1
  <2> QED  BY <2>1, <1>6, LeastElement
<1> HIDE DEF b
<1>8. (free \ {a}) \ {b} = free \ {a, b}  OBVIOUS
<1>9. IsFiniteSet(free \ {a, b}) /\ Cardinality(free \ {a, b}) = Cardinality(free) - 1 - 1
  BY <1>5, <1>7, <1>8, FS_RemoveElement
<1>10. free \ {a, b} # {}  BY <1>2, <1>9, FS_EmptySet, SMTT(60)
<1>11. c \in free \ {a, b}
  <2>1. free \ {a, b} \in SUBSET Nat  BY <1>1
  <2> QED  BY <2>1, <1>10, LeastElement
<1> HIDE DEF c
<1>12. (free \ {a, b}) \ {c} = free \ {a, b, c}  OBVIOUS
<1>13. Cardinality(free \ {a, b, c}) = Cardinality(free) - 1 - 1 - 1
  BY <1>9, <1>11, <1>12, FS_RemoveElement
<1>14. Alloc3 = <<a, b, c>>  BY DEF Alloc3, a, b, c
<1>15. Cardinality(free \ {a, b, c}) = Cardinality(free) - 3
  BY <1>2, <1>13, SMTT(60)
<1>16. a \in free /\ b \in free /\ c \in free /\ a # b /\ a # c /\ b # c
  BY <1>4, <1>7, <1>11
<1> QED  BY <1>14, <1>15, <1>16

(* The callers with a chain are finitely many. *)
LEMMA CallersFinite == IsFiniteSet(Callers) /\ Cardinality(Callers) \in Nat
<1>1. Callers \subseteq Proc  BY DEF Callers
<1> QED  BY <1>1, DiskAssumption, FS_Subset, FS_CardinalityType

-----------------------------------------------------------------------------
(* Chains *)

(* The chain of a request, as free_chain and the device follow it *)
LEMMA ChainIs ==
  ASSUME DiskInv, NEW p \in Proc, HasChain(p)
  PROVE  /\ rw[p].head \in Desc /\ Second(p) \in Desc /\ Third(p) \in Desc
         /\ Third(p) # rw[p].head /\ Third(p) # Second(p) /\ rw[p].head # Second(p)
         /\ Chain(rw[p].head) = <<rw[p].head, Second(p), Third(p)>>
         /\ Range(Chain(rw[p].head)) = Owned(p)
<1>1. rw[p].head \in Desc  BY DEF DiskInv, DiskType, HasChain, Call
<1>2. Second(p) \in Desc  BY <1>1 DEF DiskInv, DiskType, Second, Descriptor
<1>3. Third(p) \in Desc  BY <1>2 DEF DiskInv, DiskType, Third, Descriptor
<1>4. ChainOf(p)  BY DEF DiskInv, Chains
<1>5. Third(p) # rw[p].head /\ Third(p) # Second(p) /\ rw[p].head # Second(p)
  BY <1>4 DEF ChainOf
<1>6. Chain(rw[p].head) = <<rw[p].head, Second(p), Third(p)>>
  BY <1>4 DEF Chain, ChainOf, Second, Third
<1>7. Range(<<rw[p].head, Second(p), Third(p)>>) = {rw[p].head, Second(p), Third(p)}
  BY SMTT(60) DEF Range
<1> QED  BY <1>1, <1>2, <1>3, <1>5, <1>6, <1>7 DEF Owned

(* A chain stays as it is while its descriptors and its caller do. *)
Kept(q) ==
  /\ rw'[q].head = rw[q].head /\ rw'[q].b = rw[q].b
  /\ rw'[q].block = rw[q].block /\ rw'[q].write = rw[q].write
  /\ \A d \in Owned(q) : desc'[d] = desc[d]

(* A step that leaves a caller's descriptors as they are leaves it its     *)
(* chain.                                                                  *)
LEMMA KeptChain ==
  ASSUME DiskInv, NEW q \in Proc, HasChain(q), Kept(q)
  PROVE  HasChain(q)' /\ Owned(q)' = Owned(q) /\ ChainOf(q)'
<1>1. ChainOf(q)  BY DEF DiskInv, Chains
<1>2. desc'[rw[q].head] = desc[rw[q].head] /\ desc'[Second(q)] = desc[Second(q)]
      /\ desc'[Third(q)] = desc[Third(q)]
  BY DEF Kept, Owned
<1>3. Second(q)' = Second(q)  BY <1>2 DEF Second, Kept
<1>4. Third(q)' = Third(q)  BY <1>2, <1>3 DEF Third
<1>5. Owned(q)' = Owned(q)  BY <1>3, <1>4 DEF Owned, Kept
<1>6. HasChain(q)'  BY DEF HasChain, Kept
<1>7. ChainOf(q)'  BY <1>1, <1>2, <1>3, <1>4 DEF ChainOf, Kept
<1> QED  BY <1>5, <1>6, <1>7

(* A step that leaves the descriptors and the heads alone keeps chains. *)
LEMMA ChainsKept ==
  ASSUME DiskInv, UNCHANGED <<desc, free>>,
         \A q \in Proc : IF HasChain(q) THEN Kept(q) ELSE ~HasChain(q)'
  PROVE  Chains' /\ Counting' /\ Callers' = Callers
<1>1. Callers' = Callers  BY DEF Callers, Kept, HasChain
<1>2. Counting'  BY <1>1 DEF DiskInv, Counting
<1>3. \A q \in Proc : HasChain(q)' => HasChain(q) /\ Owned(q)' = Owned(q) /\ ChainOf(q)'
  BY KeptChain
<1>4. Chains'  BY <1>3 DEF DiskInv, Chains
<1> QED  BY <1>1, <1>2, <1>4

-----------------------------------------------------------------------------
(* The steps of a process in virtio_disk_rw *)

(* A step leaves the request of q as it is. *)
SameRequest(q) ==
  /\ rw'[q].head = rw[q].head /\ rw'[q].b = rw[q].b
  /\ rw'[q].block = rw[q].block /\ rw'[q].write = rw[q].write

(* A step that only moves the callers on *)
LEMMA CallStep ==
  ASSUME DiskInv, UNCHANGED queue, rw' \in [Proc -> Call], Requests',
         \A q \in Proc : IF HasChain(q) THEN SameRequest(q) ELSE ~HasChain(q)',
         \A q \in Proc : rw'[q].pc = "wait" => rw[q].b \in busy,
         \A q \in Proc : rw'[q].pc = "nodesc" => Cardinality(free) < 3
  PROVE  DiskInv'
<1>1. ~broken' /\ DiskType'  BY DEF DiskInv, DiskType, queue
<1>2. Chains' /\ Counting'
  BY ChainsKept DEF queue, Kept, SameRequest
<1>3. \A i : InRing(i)' <=> InRing(i)  BY DEF InRing, queue
<1>4. Rings'
  <2>1. \A i \in Desc : InRing(i)' => \E p \in Proc : rw'[p].head = i
    <3> SUFFICES ASSUME NEW i \in Desc, InRing(i) PROVE \E p \in Proc : rw'[p].head = i
      BY <1>3
    <3>1. PICK p \in Proc : rw[p].head = i  BY DEF DiskInv, Rings
    <3>2. i # None  BY DiskAssumption
    <3> QED  BY <3>1, <3>2 DEF HasChain, SameRequest
  <2> QED  BY <2>1 DEF DiskInv, Rings, queue
<1>5. Busy'
  <2> SUFFICES ASSUME NEW p \in Proc
               PROVE  /\ HasChain(p)' => info'[rw'[p].head].b = rw'[p].b
                                         /\ (rw'[p].b \in busy' <=> InRing(rw[p].head)')
                      /\ rw'[p].pc = "wait" => rw'[p].b \in busy'
                      /\ rw'[p].pc = "nodesc" => Cardinality(free') < 3
    BY DEF Busy
  <2>1. HasChain(p)' => HasChain(p) /\ SameRequest(p)  OBVIOUS
  <2>2. rw'[p].pc = "wait" => HasChain(p)'  BY DEF Requests
  <2> QED  BY <1>3, <2>1, <2>2 DEF DiskInv, Busy, SameRequest, queue
<1> QED  BY <1>1, <1>2, <1>4, <1>5 DEF DiskInv

(* A call for a buffer that no other call is about *)
LEMMA DiskRwStep ==
  ASSUME DiskInv, NEW p \in Proc, NEW b \in Buf, NEW k \in Block, NEW w \in BOOLEAN,
         ~InRw(p), \A q \in Proc : InRw(q) => rw[q].b # b,
         DiskRw(p, b, k, w), UNCHANGED queue
  PROVE  /\ DiskInv'
         /\ InRw(p)' /\ rw'[p].b = b /\ rw'[p].block = k /\ rw'[p].write = w /\ ~HasChain(p)'
         /\ \A q \in Proc \ {p} : rw'[q] = rw[q]
<1>1. rw \in [Proc -> Call]  BY DEF DiskInv, DiskType
<1> DEFINE r == [NoRw EXCEPT !.pc = "alloc", !.b = b, !.block = k, !.write = w]
<1>2. r.pc = "alloc" /\ r.b = b /\ r.block = k /\ r.write = w /\ r.head = None
  BY DEF NoRw
<1>3. r \in Call
  BY DEF NoRw, Call
<1>4. rw' = [rw EXCEPT ![p] = r]  BY DEF DiskRw
<1> HIDE DEF r
<1>5. rw' \in [Proc -> Call] /\ rw'[p] = r /\ \A q \in Proc : q # p => rw'[q] = rw[q]
  BY <1>1, <1>3, <1>4
<1>6. ~HasChain(p) /\ ~HasChain(p)'
  BY <1>2, <1>5 DEF DiskInv, Requests, InRw, HasChain
<1>7. Requests'
  BY <1>2, <1>5, SMTT(60) DEF DiskInv, Requests, HasChain, InRw
<1>8. \A q \in Proc : IF HasChain(q) THEN SameRequest(q) ELSE ~HasChain(q)'
  BY <1>5, <1>6 DEF HasChain, SameRequest
<1>9. \A q \in Proc : /\ rw'[q].pc = "wait" => rw[q].b \in busy
                      /\ rw'[q].pc = "nodesc" => Cardinality(free) < 3
  BY <1>2, <1>5 DEF DiskInv, Busy
<1>10. DiskInv'  BY <1>5, <1>7, <1>8, <1>9, CallStep
<1> QED  BY <1>2, <1>5, <1>6, <1>10 DEF InRw

(* wakeup(&disk.free[0]) *)
LEMMA WakeFreeIs ==
  ASSUME rw \in [Proc -> Call]
  PROVE  /\ WakeFree \in [Proc -> Call]
         /\ \A q \in Proc : /\ WakeFree[q].head = rw[q].head /\ WakeFree[q].b = rw[q].b
                            /\ WakeFree[q].block = rw[q].block /\ WakeFree[q].write = rw[q].write
                            /\ WakeFree[q].pc = IF rw[q].pc = "nodesc" THEN "alloc" ELSE rw[q].pc
BY DEF WakeFree, Call

(* virtio_disk_rw finds fewer than three free descriptors: it gives back   *)
(* those it has taken, which wakes others, and sleeps.                     *)
LEMMA Alloc3FailsStep ==
  ASSUME DiskInv, NEW p \in Proc, Alloc3Fails(p)
  PROVE  DiskInv' /\ \A q \in Proc : SameRequest(q) /\ (InRw(q)' <=> InRw(q))
<1>1. rw \in [Proc -> Call]  BY DEF DiskInv, DiskType
<1> DEFINE r == IF free = {} THEN rw ELSE WakeFree
<1>2. /\ r \in [Proc -> Call]
      /\ \A q \in Proc : /\ r[q].head = rw[q].head /\ r[q].b = rw[q].b
                         /\ r[q].block = rw[q].block /\ r[q].write = rw[q].write
                         /\ r[q].pc = rw[q].pc \/ (rw[q].pc = "nodesc" /\ r[q].pc = "alloc")
  BY <1>1, WakeFreeIs
<1>3. rw' = [r EXCEPT ![p].pc = "nodesc"] /\ rw[p].pc = "alloc" /\ Cardinality(free) < 3 /\ UNCHANGED queue
  BY DEF Alloc3Fails
<1> HIDE DEF r
<1>4. rw' \in [Proc -> Call]  BY <1>2, <1>3, SMTT(60) DEF Call
<1>5. \A q \in Proc : SameRequest(q)
  BY <1>2, <1>3, SMTT(60) DEF SameRequest, Call
<1>6. /\ rw'[p].pc = "nodesc"
      /\ \A q \in Proc \ {p} : rw'[q].pc = rw[q].pc \/ (rw[q].pc = "nodesc" /\ rw'[q].pc = "alloc")
  BY <1>2, <1>3, SMTT(60) DEF Call
<1>7. \A q \in Proc : (InRw(q)' <=> InRw(q)) /\ (HasChain(q)' <=> HasChain(q))
  BY <1>3, <1>5, <1>6 DEF InRw, HasChain, SameRequest
<1>8. Requests'
  BY <1>3, <1>5, <1>6, <1>7, SMTT(60) DEF DiskInv, Requests, SameRequest
<1>9. \A q \in Proc : /\ rw'[q].pc = "wait" => rw[q].b \in busy
                      /\ rw'[q].pc = "nodesc" => Cardinality(free) < 3
  BY <1>3, <1>6 DEF DiskInv, Busy
<1> QED  BY <1>3, <1>4, <1>5, <1>7, <1>8, <1>9, CallStep

(* A caller that has been woken looks at b->disk and sleeps again, or      *)
(* kill() ends its sleep.                                                  *)
LEMMA ResleepStep ==
  ASSUME DiskInv, NEW p \in Proc, Resleep(p) \/ Kill(p)
  PROVE  DiskInv' /\ \A q \in Proc : SameRequest(q) /\ (InRw(q)' <=> InRw(q))
<1>1. rw \in [Proc -> Call]  BY DEF DiskInv, DiskType
<1>2. PICK c \in {"wait", "woken", "alloc"} :
        /\ rw' = [rw EXCEPT ![p].pc = c] /\ UNCHANGED queue /\ rw[p].pc # "out"
        /\ c = "wait" => rw[p].b \in busy
        /\ c = "alloc" <=> rw[p].pc = "nodesc"
        /\ rw[p].pc # "alloc"
  BY <1>1 DEF Resleep, Kill
<1>3. rw' \in [Proc -> Call]  BY <1>1, <1>2 DEF Call
<1>4. /\ rw'[p].pc = c
      /\ \A q \in Proc : SameRequest(q) /\ (q # p => rw'[q] = rw[q])
  BY <1>1, <1>2 DEF SameRequest, Call
<1>5. \A q \in Proc : (InRw(q)' <=> InRw(q)) /\ (HasChain(q)' <=> HasChain(q))
  BY <1>2, <1>4 DEF InRw, HasChain, SameRequest
<1>6. Requests'
  <2>1. rw[p].pc \in {"wait", "woken", "nodesc"}  BY <1>1, <1>2 DEF Call
  <2> QED  BY <1>2, <1>4, <1>5, <2>1, SMTT(60) DEF DiskInv, Requests, SameRequest
<1>7. \A q \in Proc : /\ rw'[q].pc = "wait" => rw[q].b \in busy
                      /\ rw'[q].pc = "nodesc" => Cardinality(free) < 3
  BY <1>2, <1>4 DEF DiskInv, Busy
<1> QED  BY <1>2, <1>3, <1>4, <1>5, <1>6, <1>7, CallStep

(* virtio_disk_rw takes three descriptors, formats them and puts the head  *)
(* into the avail ring.                                                    *)
LEMMA SubmitStep ==
  ASSUME DiskInv, NEW p \in Proc, Submit(p)
  PROVE  /\ DiskInv'
         /\ HasChain(p)' /\ avail' = avail \cup {rw'[p].head}
         /\ rw'[p].b = rw[p].b /\ rw'[p].block = rw[p].block /\ rw'[p].write = rw[p].write
         /\ InRw(p) /\ InRw(p)'
         /\ \A q \in Proc \ {p} : rw'[q] = rw[q]
<1>1. free \subseteq Desc /\ Cardinality(free) >= 3  BY DEF DiskInv, DiskType, Submit
<1>2. PICK x, y, z \in free :
        /\ Alloc3 = <<x, y, z>> /\ x # y /\ x # z /\ y # z
        /\ Cardinality(free \ {x, y, z}) = Cardinality(free) - 3
  BY <1>1, Alloc3Finds
<1> DEFINE r == rw[p]
<1>3. x \in Desc /\ y \in Desc /\ z \in Desc  BY <1>1
<1>4. Range(<<x, y, z>>) = {x, y, z}  BY SMTT(60) DEF Range
<1>5. /\ rw[p].pc = "alloc"
      /\ free' = free \ {x, y, z}
      /\ desc' = [desc EXCEPT ![x] = [addr |-> r.block, next |-> y, chained |-> TRUE, write |-> r.write],
                              ![y] = [addr |-> r.b, next |-> z, chained |-> TRUE, write |-> ~r.write],
                              ![z] = [addr |-> None, next |-> 0, chained |-> FALSE, write |-> TRUE]]
      /\ info' = [info EXCEPT ![x] = [b |-> r.b, ok |-> FALSE]]
      /\ busy' = busy \cup {r.b}
      /\ avail' = avail \cup {x}
      /\ rw' = [rw EXCEPT ![p].pc = "wait", ![p].head = x]
      /\ UNCHANGED <<data, disk, used, irq, handler, broken>>
  BY <1>2, <1>4 DEF Submit
<1>6. rw \in [Proc -> Call] /\ r \in Call  BY DEF DiskInv, DiskType
<1>7. /\ rw' \in [Proc -> Call]
      /\ rw'[p].pc = "wait" /\ rw'[p].head = x
      /\ rw'[p].b = r.b /\ rw'[p].block = r.block /\ rw'[p].write = r.write
      /\ \A q \in Proc \ {p} : rw'[q] = rw[q]
  BY <1>3, <1>5, <1>6 DEF Call
<1>8. r.b \in Buf /\ r.block \in Block /\ r.write \in BOOLEAN /\ InRw(p) /\ ~HasChain(p)
  BY <1>5, <1>6 DEF DiskInv, Requests, InRw, Call
<1>9. x # None /\ 0 \in Desc  BY <1>3, DiskAssumption, SMTT(60) DEF Desc
<1>10. /\ desc' \in [Desc -> Descriptor]
       /\ desc'[x] = [addr |-> r.block, next |-> y, chained |-> TRUE, write |-> r.write]
       /\ desc'[y] = [addr |-> r.b, next |-> z, chained |-> TRUE, write |-> ~r.write]
       /\ desc'[z] = [addr |-> None, next |-> 0, chained |-> FALSE, write |-> TRUE]
       /\ \A d \in Desc \ {x, y, z} : desc'[d] = desc[d]
  <2>1. desc \in [Desc -> Descriptor]  BY DEF DiskInv, DiskType
  <2> DEFINE dx == [addr |-> r.block, next |-> y, chained |-> TRUE, write |-> r.write]
             dy == [addr |-> r.b, next |-> z, chained |-> TRUE, write |-> ~r.write]
             dz == [addr |-> None, next |-> 0, chained |-> FALSE, write |-> TRUE]
  <2>2. dx \in Descriptor /\ dy \in Descriptor /\ dz \in Descriptor
    BY <1>3, <1>8, <1>9 DEF Descriptor
  <2>3. desc' = [desc EXCEPT ![x] = dx, ![y] = dy, ![z] = dz]  BY <1>5
  <2> HIDE DEF dx, dy, dz
  <2>4. /\ desc' \in [Desc -> Descriptor]
        /\ desc'[x] = dx /\ desc'[y] = dy /\ desc'[z] = dz
        /\ \A d \in Desc \ {x, y, z} : desc'[d] = desc[d]
    BY <1>2, <1>3, <2>1, <2>2, <2>3
  <2> QED  BY <2>4 DEF dx, dy, dz
<1>11. /\ info' \in [Desc -> [b : Buf \cup {None}, ok : BOOLEAN]]
       /\ info'[x] = [b |-> r.b, ok |-> FALSE]
       /\ \A d \in Desc \ {x} : info'[d] = info[d]
  BY <1>3, <1>5, <1>8 DEF DiskInv, DiskType
<1>12. ~broken' /\ DiskType'
  BY <1>1, <1>3, <1>5, <1>7, <1>8, <1>10, <1>11 DEF DiskInv, DiskType
<1>13. \A q \in Proc : (HasChain(q)' <=> HasChain(q) \/ q = p) /\ (InRw(q)' <=> InRw(q))
  BY <1>7, <1>8, <1>9 DEF HasChain, InRw
<1>14. Requests'
  BY <1>7, <1>8, <1>13, SMTT(60) DEF DiskInv, Requests
<1>15. \A q \in Proc : HasChain(q) =>
         /\ Owned(q) \subseteq Desc /\ Owned(q) \cap {x, y, z} = {} /\ q # p
         /\ Owned(q)' = Owned(q) /\ ChainOf(q)'
  <2> SUFFICES ASSUME NEW q \in Proc, HasChain(q)
               PROVE  /\ Owned(q) \subseteq Desc /\ Owned(q) \cap {x, y, z} = {} /\ q # p
                      /\ Owned(q)' = Owned(q) /\ ChainOf(q)'
    OBVIOUS
  <2>1. Owned(q) \subseteq Desc  BY ChainIs DEF Owned
  <2>2. Owned(q) \cap {x, y, z} = {}  BY DEF DiskInv, Chains
  <2>3. Kept(q)  BY <1>7, <1>8, <1>10, <2>1, <2>2 DEF Kept
  <2> QED  BY <1>8, <2>1, <2>2, <2>3, KeptChain
<1>16. Owned(p)' = {x, y, z} /\ ChainOf(p)'
  BY <1>2, <1>7, <1>8, <1>10, SMTT(60) DEF Owned, ChainOf, Second, Third
<1>17. Chains'
  <2>1. \A q \in Proc : HasChain(q) => Owned(q) \cap free = {}  BY DEF DiskInv, Chains
  <2>2. \A q, s \in Proc : HasChain(q) /\ HasChain(s) /\ q # s => Owned(q) \cap Owned(s) = {}
    BY DEF DiskInv, Chains
  <2>3. \A q \in Proc : HasChain(q)' =>
          ChainOf(q)' /\ Owned(q)' = IF q = p THEN {x, y, z} ELSE Owned(q)
    BY <1>13, <1>15, <1>16
  <2> QED  BY <1>5, <1>13, <1>15, <2>1, <2>2, <2>3, SMTT(60) DEF Chains
<1>18. Counting'
  <2>1. Callers' = Callers \cup {p} /\ p \notin Callers  BY <1>8, <1>13 DEF Callers
  <2>2. Cardinality(Callers') = Cardinality(Callers) + 1
    BY <2>1, CallersFinite, FS_AddElement
  <2>3. Cardinality(free') = Cardinality(free) - 3  BY <1>2, <1>5
  <2>4. Cardinality(free) \in Nat  BY <1>1, DescFinite
  <2> QED  BY <2>2, <2>3, <2>4, CallersFinite, SMTT(60) DEF DiskInv, Counting
<1>19. ~InRing(x)
  <2>1. \A q \in Proc : rw[q].head # x
    BY <1>2, <1>9 DEF DiskInv, Chains, HasChain, Owned
  <2> QED  BY <1>3, <2>1 DEF DiskInv, Rings
<1>20. \A d : InRing(d)' <=> InRing(d) \/ d = x  BY <1>5 DEF InRing
<1>21. Rings'
  <2>1. \A d \in Desc : InRing(d)' => \E q \in Proc : rw'[q].head = d
    <3> SUFFICES ASSUME NEW d \in Desc, InRing(d), d # x PROVE \E q \in Proc : rw'[q].head = d
      BY <1>7, <1>20
    <3>1. PICK q \in Proc : rw[q].head = d  BY DEF DiskInv, Rings
    <3>2. q # p  BY <1>8, <3>1, DiskAssumption DEF HasChain
    <3> QED  BY <1>7, <3>1, <3>2
  <2>2. \A n \in DOMAIN used : used[n] # x /\ used[n] \in Desc
    BY <1>19, SMTT(60) DEF InRing, DiskInv, DiskType
  <2> QED  BY <1>5, <1>11, <2>1, <2>2 DEF DiskInv, Rings
<1>22. Busy'
  <2> SUFFICES ASSUME NEW q \in Proc
               PROVE  /\ HasChain(q)' => info'[rw'[q].head].b = rw'[q].b
                                         /\ (rw'[q].b \in busy' <=> InRing(rw[q].head)')
                      /\ rw'[q].pc = "wait" => rw'[q].b \in busy'
                      /\ rw'[q].pc = "nodesc" => Cardinality(free') < 3
    BY DEF Busy
  <2>1. CASE q = p  BY <1>5, <1>7, <1>11, <1>20, <2>1, SMTT(60)
  <2>2. CASE q # p
    <3>1. rw'[q] = rw[q]  BY <1>7, <2>2
    <3>2. HasChain(q) => rw[q].head # x /\ rw[q].head \in Desc /\ rw[q].b # r.b
      <4>1. HasChain(q) => InRw(q)  BY DEF DiskInv, Requests, InRw
      <4>2. HasChain(q) => rw[q].b # r.b  BY <1>8, <2>2, <4>1 DEF DiskInv, Requests
      <4> QED  BY <1>15, <4>2 DEF Owned
    <3>3. HasChain(q) => (InRing(rw[q].head)' <=> InRing(rw[q].head))  BY <1>20, <3>1, <3>2
    <3>4. rw[q].pc = "wait" => HasChain(q)  BY DEF DiskInv, Requests
    <3>5. Cardinality(free') < Cardinality(free)  BY <1>1, <1>2, <1>5, DescFinite, SMTT(60)
    <3>6. Cardinality(free) \in Nat /\ Cardinality(free') \in Nat
      BY <1>1, <1>5, DescFinite
    <3>7. HasChain(q) => /\ info[rw[q].head].b = rw[q].b
                         /\ rw[q].b \in busy <=> InRing(rw[q].head)
      BY DEF DiskInv, Busy
    <3>8. /\ rw[q].pc = "wait" => rw[q].b \in busy
          /\ rw[q].pc = "nodesc" => Cardinality(free) < 3
      BY DEF DiskInv, Busy
    <3>9. HasChain(q)' <=> HasChain(q)  BY <1>13, <2>2
    <3> QED  BY <1>5, <1>11, <3>1, <3>2, <3>3, <3>4, <3>5, <3>6, <3>7, <3>8, <3>9, SMTT(60)
  <2> QED  BY <2>1, <2>2
<1>23. DiskInv'  BY <1>12, <1>14, <1>17, <1>18, <1>21, <1>22 DEF DiskInv
<1> QED  BY <1>5, <1>7, <1>8, <1>13, <1>23

(* The end of a call: the request is out of the rings, and its three       *)
(* descriptors are free again.                                             *)
LEMMA FinishStep ==
  ASSUME DiskInv, NEW p \in Proc, Finish(p)
  PROVE  /\ DiskInv'
         /\ HasChain(p) /\ rw[p].head \notin avail /\ ~InRw(p)' /\ ~HasChain(p)'
         /\ \A q \in Proc \ {p} : SameRequest(q) /\ (InRw(q)' <=> InRw(q))
<1>1. rw[p].pc = "woken" /\ rw[p].b \notin busy  BY DEF Finish
<1>2. HasChain(p)  BY <1>1 DEF DiskInv, Requests
<1> DEFINE x == rw[p].head
           y == Second(p)
           z == Third(p)
<1>3. /\ x \in Desc /\ y \in Desc /\ z \in Desc /\ x # y /\ x # z /\ y # z
      /\ Range(Chain(x)) = {x, y, z} /\ Owned(p) = {x, y, z}
  BY <1>2, ChainIs DEF Owned
<1>4. Owned(p) \cap free = {}  BY <1>2 DEF DiskInv, Chains
<1>5. /\ info' = [info EXCEPT ![x].b = None]
      /\ broken' = ({x, y, z} \cap free # {})
      /\ free' = free \cup {x, y, z}
      /\ desc' = [d \in Desc |-> IF d \in {x, y, z} THEN NoDesc ELSE desc[d]]
      /\ rw' = [WakeFree EXCEPT ![p] = NoRw]
      /\ UNCHANGED <<data, disk, avail, used, busy, irq, handler>>
  BY <1>3 DEF Finish, FreeChain
<1> HIDE DEF x, y, z
<1>6. rw \in [Proc -> Call]  BY DEF DiskInv, DiskType
<1>7. NoRw \in Call  BY DEF NoRw, Call
<1>8. /\ rw' \in [Proc -> Call]
      /\ rw'[p] = NoRw
      /\ \A q \in Proc \ {p} : /\ SameRequest(q)
                               /\ rw'[q].pc = IF rw[q].pc = "nodesc" THEN "alloc" ELSE rw[q].pc
  <2>1. rw' \in [Proc -> Call] /\ rw'[p] = NoRw /\ \A q \in Proc \ {p} : rw'[q] = WakeFree[q]
    BY <1>5, <1>6, <1>7, WakeFreeIs
  <2> QED  BY <1>6, <2>1, WakeFreeIs DEF SameRequest
<1>9. rw'[p].pc = "out" /\ rw'[p].head = None  BY <1>8, SMTT(60) DEF NoRw
<1>10. /\ ~InRw(p)' /\ ~HasChain(p)'
       /\ \A q \in Proc \ {p} : (InRw(q)' <=> InRw(q)) /\ (HasChain(q)' <=> HasChain(q))
  BY <1>8, <1>9 DEF InRw, HasChain, SameRequest
<1>11. ~broken'
  <2>1. {x, y, z} \cap free = {}  BY <1>3, <1>4
  <2> QED  BY <1>5, <2>1
<1>12. /\ desc' \in [Desc -> Descriptor] /\ \A d \in Desc \ {x, y, z} : desc'[d] = desc[d]
  <2>1. desc \in [Desc -> Descriptor]  BY DEF DiskInv, DiskType
  <2>2. NoDesc \in Descriptor
    <3>1. 0 \in Desc  BY DiskAssumption, SMTT(60) DEF Desc
    <3> QED  BY <3>1 DEF NoDesc, Descriptor
  <2> QED  BY <1>5, <2>1, <2>2
<1>13. /\ info' \in [Desc -> [b : Buf \cup {None}, ok : BOOLEAN]]
       /\ info'[x].ok = info[x].ok
       /\ \A d \in Desc \ {x} : info'[d] = info[d]
  BY <1>3, <1>5 DEF DiskInv, DiskType
<1>14. DiskType'
  BY <1>3, <1>5, <1>8, <1>12, <1>13 DEF DiskInv, DiskType
<1>15. Requests'
  <2> SUFFICES ASSUME NEW q \in Proc
               PROVE  /\ HasChain(q)' <=> rw'[q].pc \in {"wait", "woken"}
                      /\ InRw(q)' => rw'[q].b \in Buf /\ rw'[q].block \in Block
                      /\ \A s \in Proc : InRw(q)' /\ InRw(s)' /\ rw'[q].b = rw'[s].b => q = s
    BY DEF Requests
  <2>1. CASE q = p  BY <1>9, <1>10, <2>1
  <2>2. CASE q # p  BY <1>8, <1>10, <2>2 DEF DiskInv, Requests, SameRequest
  <2> QED  BY <2>1, <2>2
<1>16. \A q \in Proc : HasChain(q) /\ q # p =>
         /\ Owned(q) \subseteq Desc /\ Owned(q) \cap {x, y, z} = {}
         /\ Owned(q)' = Owned(q) /\ ChainOf(q)'
  <2> SUFFICES ASSUME NEW q \in Proc, HasChain(q), q # p
               PROVE  /\ Owned(q) \subseteq Desc /\ Owned(q) \cap {x, y, z} = {}
                      /\ Owned(q)' = Owned(q) /\ ChainOf(q)'
    OBVIOUS
  <2>1. Owned(q) \subseteq Desc  BY ChainIs DEF Owned
  <2>2. Owned(q) \cap {x, y, z} = {}  BY <1>2, <1>3 DEF DiskInv, Chains
  <2>3. Kept(q)  BY <1>8, <1>12, <2>1, <2>2 DEF Kept, SameRequest
  <2> QED  BY <2>1, <2>2, <2>3, KeptChain
<1>17. Chains'
  <2>1. \A q \in Proc : HasChain(q) => Owned(q) \cap free = {}  BY DEF DiskInv, Chains
  <2>2. \A q, s \in Proc : HasChain(q) /\ HasChain(s) /\ q # s => Owned(q) \cap Owned(s) = {}
    BY DEF DiskInv, Chains
  <2>3. \A q \in Proc : HasChain(q)' => q # p /\ HasChain(q) /\ ChainOf(q)' /\ Owned(q)' = Owned(q)
    BY <1>10, <1>16
  <2> QED  BY <1>5, <1>16, <2>1, <2>2, <2>3, SMTT(60) DEF Chains
<1>18. Cardinality(free') = Cardinality(free) + 3
  <2>1. IsFiniteSet(free) /\ Cardinality(free) \in Nat  BY DescFinite DEF DiskInv, DiskType
  <2>2. x \notin free /\ y \notin free /\ z \notin free  BY <1>3, <1>4
  <2>3. IsFiniteSet(free \cup {x}) /\ Cardinality(free \cup {x}) = Cardinality(free) + 1
    BY <2>1, <2>2, FS_AddElement
  <2>4. /\ IsFiniteSet((free \cup {x}) \cup {y})
        /\ Cardinality((free \cup {x}) \cup {y}) = Cardinality(free) + 1 + 1
    <3>1. y \notin free \cup {x}  BY <1>3, <2>2
    <3> QED  BY <2>3, <3>1, FS_AddElement
  <2>5. Cardinality(((free \cup {x}) \cup {y}) \cup {z}) = Cardinality(free) + 1 + 1 + 1
    <3>1. z \notin (free \cup {x}) \cup {y}  BY <1>3, <2>2
    <3> QED  BY <2>4, <3>1, FS_AddElement
  <2>6. free' = ((free \cup {x}) \cup {y}) \cup {z}  BY <1>5
  <2> QED  BY <2>1, <2>5, <2>6, SMTT(60)
<1>19. Counting'
  <2>1. Callers' = Callers \ {p} /\ p \in Callers  BY <1>2, <1>10 DEF Callers
  <2>2. Cardinality(Callers') = Cardinality(Callers) - 1
    BY <2>1, CallersFinite, FS_RemoveElement
  <2>3. Cardinality(free) \in Nat  BY DescFinite DEF DiskInv, DiskType
  <2> QED  BY <1>18, <2>2, <2>3, CallersFinite, SMTT(60) DEF DiskInv, Counting
<1>20. ~InRing(x) /\ x # None
  BY <1>1, <1>2 DEF DiskInv, Busy, HasChain, x
<1>21. \A d : InRing(d)' <=> InRing(d)  BY <1>5 DEF InRing
<1>22. Rings'
  <2>1. \A d \in Desc : InRing(d)' => \E q \in Proc : rw'[q].head = d
    <3> SUFFICES ASSUME NEW d \in Desc, InRing(d) PROVE \E q \in Proc : rw'[q].head = d
      BY <1>21
    <3>1. PICK q \in Proc : rw[q].head = d  BY DEF DiskInv, Rings
    <3>2. q # p  BY <1>20, <3>1 DEF x
    <3> QED  BY <1>8, <3>1, <3>2 DEF SameRequest
  <2>2. \A n \in DOMAIN used : used[n] # x /\ used[n] \in Desc
    BY <1>20, SMTT(60) DEF InRing, DiskInv, DiskType
  <2> QED  BY <1>5, <1>13, <2>1, <2>2 DEF DiskInv, Rings
<1>23. Busy'
  <2> SUFFICES ASSUME NEW q \in Proc
               PROVE  /\ HasChain(q)' => info'[rw'[q].head].b = rw'[q].b
                                         /\ (rw'[q].b \in busy' <=> InRing(rw[q].head)')
                      /\ rw'[q].pc = "wait" => rw'[q].b \in busy'
                      /\ rw'[q].pc # "nodesc"
    BY DEF Busy
  <2>1. CASE q = p  BY <1>9, <1>10, <2>1
  <2>2. CASE q # p
    <3>1. SameRequest(q) /\ rw'[q].pc = IF rw[q].pc = "nodesc" THEN "alloc" ELSE rw[q].pc
      BY <1>8, <2>2
    <3>2. HasChain(q) => rw[q].head # x /\ rw[q].head \in Desc
      BY <1>16, <2>2 DEF Owned
    <3>3. InRing(rw[q].head)' <=> InRing(rw[q].head)  BY <1>21, <3>1 DEF SameRequest
    <3>4. HasChain(q) => /\ info[rw[q].head].b = rw[q].b
                         /\ rw[q].b \in busy <=> InRing(rw[q].head)
      BY DEF DiskInv, Busy
    <3>5. rw[q].pc = "wait" => rw[q].b \in busy  BY DEF DiskInv, Busy
    <3>6. HasChain(q)' <=> HasChain(q)  BY <1>10, <2>2
    <3> QED  BY <1>5, <1>13, <3>1, <3>2, <3>3, <3>4, <3>5, <3>6, SMTT(60) DEF SameRequest
  <2> QED  BY <2>1, <2>2
<1>24. DiskInv'  BY <1>11, <1>14, <1>15, <1>17, <1>19, <1>22, <1>23 DEF DiskInv
<1>25. x \notin avail  BY <1>20 DEF InRing
<1> QED  BY <1>2, <1>8, <1>10, <1>24, <1>25 DEF x

-----------------------------------------------------------------------------
(* The device and the interrupt handler *)

(* Each request is one caller's. *)
LEMMA OneCaller ==
  ASSUME DiskInv, NEW p \in Proc, NEW q \in Proc, HasChain(p), rw[q].head = rw[p].head
  PROVE  q = p
BY DEF DiskInv, Chains, HasChain, Owned

(* The device does what the caller has asked for, and no more. *)
LEMMA DeviceStep ==
  ASSUME DiskInv, NEW i \in Desc, DeviceFinishes(i)
  PROVE  /\ DiskInv' /\ UNCHANGED rw
         /\ \E p \in Proc :
              /\ HasChain(p) /\ rw[p].head = i /\ i \in avail /\ avail' = avail \ {i}
              /\ IF rw[p].write
                 THEN disk' = [disk EXCEPT ![rw[p].block] = data[rw[p].b]] /\ data' = data
                 ELSE data' = [data EXCEPT ![rw[p].b] = disk[rw[p].block]] /\ disk' = disk
<1>1. /\ i \in avail /\ avail' = avail \ {i}
      /\ info' = [info EXCEPT ![i].ok = TRUE]
      /\ used' = Append(used, i) /\ irq' = TRUE
      /\ UNCHANGED <<free, desc, busy, handler, rw, broken>>
  BY DEF DeviceFinishes
<1>2. PICK p \in Proc : rw[p].head = i  BY <1>1 DEF DiskInv, Rings, InRing
<1>3. HasChain(p)  BY <1>2, DiskAssumption DEF HasChain
<1>4. Chain(i) = <<i, Second(p), Third(p)>>  BY <1>2, <1>3, ChainIs
<1>5. ChainOf(p)  BY <1>3 DEF DiskInv, Chains
<1>6. rw[p] \in Call  BY DEF DiskInv, DiskType
<1>7. IF rw[p].write
      THEN disk' = [disk EXCEPT ![rw[p].block] = data[rw[p].b]] /\ data' = data
      ELSE data' = [data EXCEPT ![rw[p].b] = disk[rw[p].block]] /\ disk' = disk
  <2>1. /\ disk' = IF desc[i].write THEN [disk EXCEPT ![desc[i].addr] = data[desc[Second(p)].addr]] ELSE disk
        /\ data' = IF desc[Second(p)].write THEN [data EXCEPT ![desc[Second(p)].addr] = disk[desc[i].addr]]
                   ELSE data
    BY <1>4, SMTT(60) DEF DeviceFinishes
  <2>2. desc[i].addr = rw[p].block /\ desc[Second(p)].addr = rw[p].b
        /\ (desc[i].write <=> rw[p].write) /\ (desc[Second(p)].write <=> ~rw[p].write)
    BY <1>2, <1>5 DEF ChainOf
  <2> QED  BY <2>1, <2>2
<1>8. /\ info' \in [Desc -> [b : Buf \cup {None}, ok : BOOLEAN]]
      /\ info'[i].ok /\ info'[i].b = info[i].b
      /\ \A d \in Desc \ {i} : info'[d] = info[d]
  BY <1>1 DEF DiskInv, DiskType
<1>9. /\ used' \in Seq(Desc) /\ DOMAIN used' = 1 .. Len(used) + 1 /\ DOMAIN used = 1 .. Len(used)
      /\ Len(used) \in Nat /\ used'[Len(used) + 1] = i
      /\ \A n \in 1 .. Len(used) : used'[n] = used[n] /\ used[n] \in Desc
  BY <1>1, SMTT(60) DEF DiskInv, DiskType
<1>10. ~broken' /\ DiskType'  BY <1>1, <1>8, <1>9 DEF DiskInv, DiskType
<1>11. Requests'  BY <1>1 DEF DiskInv, Requests, HasChain, InRw
<1>12. Chains' /\ Counting'  BY <1>1, ChainsKept DEF Kept, HasChain
<1>13. \A d : InRing(d)' <=> InRing(d)  BY <1>1, <1>9, SMTT(60) DEF InRing
<1>14. \A n \in DOMAIN used : used[n] # i  BY <1>1 DEF DiskInv, Rings
<1>15. Rings'
  <2>1. \A d \in Desc : InRing(d)' => \E q \in Proc : rw'[q].head = d
    BY <1>1, <1>13 DEF DiskInv, Rings
  <2>2. ASSUME NEW n \in DOMAIN used' PROVE used'[n] \notin avail' /\ info'[used'[n]].ok
    BY <1>1, <1>8, <1>9, <1>14, SMTT(60) DEF DiskInv, Rings
  <2>3. ASSUME NEW m \in DOMAIN used', NEW n \in DOMAIN used', used'[m] = used'[n] PROVE m = n
    BY <1>9, <1>14, <2>3, SMTT(60) DEF DiskInv, Rings
  <2> QED  BY <1>1, <2>1, <2>2, <2>3 DEF Rings
<1>16. Busy'
  <2>1. \A q \in Proc : HasChain(q) => rw[q].head \in Desc  BY ChainIs
  <2>2. \A q \in Proc : InRing(rw[q].head)' <=> InRing(rw[q].head)  BY <1>1, <1>13
  <2>3. \A q \in Proc : HasChain(q)' <=> HasChain(q)  BY <1>1 DEF HasChain
  <2> QED  BY <1>1, <1>8, <2>1, <2>2, <2>3, SMTT(60) DEF DiskInv, Busy
<1>17. DiskInv'  BY <1>10, <1>11, <1>12, <1>15, <1>16 DEF DiskInv
<1> QED  BY <1>1, <1>2, <1>3, <1>7, <1>17

(* virtio_disk_intr acknowledges the interrupt and takes the used ring's   *)
(* entries one by one, waking their callers.                               *)
LEMMA IntrStep ==
  ASSUME DiskInv, Intr \/ IntrEnd
  PROVE  DiskInv' /\ UNCHANGED <<data, disk, rw, avail>>
<1>1. UNCHANGED <<data, disk, free, desc, info, avail, used, busy, rw, broken>>
  BY DEF Intr, IntrEnd
<1>2. irq' \in BOOLEAN /\ handler' \in BOOLEAN /\ (used # <<>> => irq' \/ handler')
  BY DEF Intr, IntrEnd, IntrReturns, DiskInv, DiskType
<1>3. ~broken' /\ DiskType' /\ Requests'
  BY <1>1, <1>2 DEF DiskInv, DiskType, Requests, HasChain, InRw
<1>4. Chains' /\ Counting'  BY <1>1, ChainsKept DEF Kept, HasChain
<1>5. Rings' /\ Busy'  BY <1>1, <1>2 DEF DiskInv, Rings, Busy, InRing, HasChain
<1> QED  BY <1>1, <1>3, <1>4, <1>5 DEF DiskInv

(* A turn of the handler finds the next finished request, whose buffer is  *)
(* no longer the disk's, and wakes its caller.                             *)
LEMMA IntrUsedStep ==
  ASSUME DiskInv, IntrUsed
  PROVE  /\ DiskInv' /\ UNCHANGED <<data, disk, avail>>
         /\ \A q \in Proc : SameRequest(q) /\ (InRw(q)' <=> InRw(q))
<1> DEFINE h == Head(used)
           b == info[h].b
<1>1. /\ handler /\ used # <<>> /\ used' = Tail(used)
      /\ broken' = (~info[h].ok \/ b = None)
      /\ busy' = busy \ {b}
      /\ rw' = IF b = None THEN rw ELSE WakeBuf(b)
      /\ UNCHANGED <<data, disk, free, desc, info, avail, irq, handler>>
  BY DEF IntrUsed
<1>2. /\ used \in Seq(Desc) /\ used' \in Seq(Desc) /\ h = used[1] /\ h \in Desc
      /\ Len(used) \in Nat \ {0} /\ DOMAIN used = 1 .. Len(used) /\ DOMAIN used' = 1 .. Len(used) - 1
      /\ \A n \in 1 .. Len(used) - 1 : used'[n] = used[n + 1]
  BY <1>1, SMTT(60) DEF DiskInv, DiskType
<1>3. InRing(h) /\ h \notin avail /\ info[h].ok
  BY <1>2, SMTT(60) DEF InRing, DiskInv, Rings
<1>4. PICK p \in Proc : rw[p].head = h  BY <1>2, <1>3 DEF DiskInv, Rings
<1>5. HasChain(p)  BY <1>2, <1>4, DiskAssumption DEF HasChain
<1>6. b = rw[p].b /\ b \in Buf /\ b # None
  <2>1. InRw(p)  BY <1>5 DEF DiskInv, Requests, InRw
  <2>2. b = rw[p].b /\ b \in Buf  BY <1>4, <1>5, <2>1 DEF DiskInv, Busy, Requests
  <2> QED  BY <2>2, DiskAssumption
<1> HIDE DEF h, b
<1>7. ~broken'  BY <1>1, <1>3, <1>6
<1>8. rw \in [Proc -> Call]  BY DEF DiskInv, DiskType
<1>9. rw' = WakeBuf(b)  BY <1>1, <1>6
<1>10. /\ rw' \in [Proc -> Call]
       /\ \A q \in Proc : /\ SameRequest(q)
                          /\ rw'[q].pc = IF rw[q].pc = "wait" /\ rw[q].b = b THEN "woken" ELSE rw[q].pc
  BY <1>8, <1>9 DEF WakeBuf, Call, SameRequest
<1>11. \A q \in Proc : (InRw(q)' <=> InRw(q)) /\ (HasChain(q)' <=> HasChain(q))
  BY <1>10 DEF InRw, HasChain, SameRequest
<1>12. DiskType'  BY <1>1, <1>2, <1>10 DEF DiskInv, DiskType
<1>13. Requests'
  BY <1>10, <1>11 DEF DiskInv, Requests, SameRequest
<1>14. Chains' /\ Counting'
  BY <1>1, <1>10, <1>11, ChainsKept DEF Kept, SameRequest
<1>15. \A d : InRing(d)' <=> InRing(d) /\ d # h
  <2>1. \A n \in 2 .. Len(used) : used[n] # h  BY <1>2, SMTT(60) DEF DiskInv, Rings
  <2>2. \A d : (\E n \in DOMAIN used' : used'[n] = d) <=> (\E n \in 2 .. Len(used) : used[n] = d)
    <3>1. ASSUME NEW n \in 2 .. Len(used) PROVE n - 1 \in DOMAIN used' /\ used'[n - 1] = used[n]
      BY <1>2, SMTT(60)
    <3>2. ASSUME NEW n \in DOMAIN used' PROVE n + 1 \in 2 .. Len(used) /\ used'[n] = used[n + 1]
      BY <1>2, SMTT(60)
    <3> QED  BY <3>1, <3>2
  <2>3. \A d : (\E n \in DOMAIN used : used[n] = d) <=> d = h \/ (\E n \in 2 .. Len(used) : used[n] = d)
    BY <1>2, SMTT(60)
  <2> DEFINE Later(d) == \E n \in 2 .. Len(used) : used[n] = d
  <2>4. \A d : InRing(d) <=> d \in avail \/ d = h \/ Later(d)  BY <2>3 DEF InRing
  <2>5. \A d : InRing(d)' <=> d \in avail \/ Later(d)  BY <1>1, <2>2 DEF InRing
  <2>6. ~Later(h)  BY <2>1
  <2> HIDE DEF Later
  <2> QED  BY <1>3, <2>4, <2>5, <2>6
<1>16. Rings'
  <2>1. \A d \in Desc : InRing(d)' => \E q \in Proc : rw'[q].head = d
    BY <1>10, <1>15, SMTT(60) DEF DiskInv, Rings, SameRequest
  <2>2. ASSUME NEW n \in DOMAIN used' PROVE used'[n] \notin avail' /\ info'[used'[n]].ok
    BY <1>1, <1>2, SMTT(60) DEF DiskInv, Rings
  <2>3. ASSUME NEW m \in DOMAIN used', NEW n \in DOMAIN used', used'[m] = used'[n] PROVE m = n
    <3>1. m + 1 \in DOMAIN used /\ n + 1 \in DOMAIN used /\ used[m + 1] = used[n + 1]
      BY <1>2, <2>3, SMTT(60)
    <3>2. m + 1 = n + 1  BY <3>1 DEF DiskInv, Rings
    <3> QED  BY <1>2, <3>2, SMTT(60)
  <2> QED  BY <1>1, <2>1, <2>2, <2>3 DEF Rings
<1>17. Busy'
  <2> SUFFICES ASSUME NEW q \in Proc
               PROVE  /\ HasChain(q)' => info'[rw'[q].head].b = rw'[q].b
                                         /\ (rw'[q].b \in busy' <=> InRing(rw[q].head)')
                      /\ rw'[q].pc = "wait" => rw'[q].b \in busy'
                      /\ rw'[q].pc = "nodesc" => Cardinality(free') < 3
    BY DEF Busy
  <2>1. SameRequest(q) /\ rw'[q].pc = IF rw[q].pc = "wait" /\ rw[q].b = b THEN "woken" ELSE rw[q].pc
    BY <1>10
  <2>2. InRing(rw[q].head)' <=> InRing(rw[q].head) /\ rw[q].head # h
    BY <1>15, <2>1 DEF SameRequest
  <2>3. HasChain(q) => (rw[q].head = h <=> rw[q].b = b)
    <3>1. HasChain(q) /\ rw[q].head = h => q = p  BY <1>4, <1>5, OneCaller
    <3>2. HasChain(q) /\ rw[q].b = b => q = p  BY <1>5, <1>6 DEF DiskInv, Requests, InRw
    <3> QED  BY <1>4, <1>6, <3>1, <3>2
  <2>4. HasChain(q) => /\ info[rw[q].head].b = rw[q].b
                       /\ rw[q].b \in busy <=> InRing(rw[q].head)
    BY DEF DiskInv, Busy
  <2>5. /\ rw[q].pc = "wait" => rw[q].b \in busy
        /\ rw[q].pc = "nodesc" => Cardinality(free) < 3
    BY DEF DiskInv, Busy
  <2>6. rw'[q].pc = "wait" => rw[q].pc = "wait" /\ rw[q].b # b  BY <2>1
  <2>7. rw'[q].pc = "nodesc" => rw[q].pc = "nodesc"  BY <2>1
  <2>8. HasChain(q)' <=> HasChain(q)  BY <1>11
  <2> QED  BY <1>1, <2>1, <2>2, <2>3, <2>4, <2>5, <2>6, <2>7, <2>8 DEF SameRequest
<1>18. DiskInv'  BY <1>7, <1>12, <1>13, <1>14, <1>16, <1>17 DEF DiskInv
<1> QED  BY <1>1, <1>10, <1>11, <1>18

-----------------------------------------------------------------------------
(* What the invariant says *)

(* The invariant holds after virtio_disk_init. *)
LEMMA DiskStarts == DiskInit => DiskInv
<1> SUFFICES ASSUME DiskInit PROVE DiskInv  OBVIOUS
<1>1. 0 \in Desc  BY DiskAssumption, SMTT(60) DEF Desc
<1>2. NoDesc \in Descriptor /\ NoRw \in Call /\ NoInfo \in [b : Buf \cup {None}, ok : BOOLEAN]
  BY <1>1 DEF NoDesc, NoRw, NoInfo, Descriptor, Call
<1>3. ~broken /\ DiskType
  <2>1. <<>> \in Seq(Desc)  BY SMTT(60)
  <2>2. desc \in [Desc -> Descriptor]  BY <1>2 DEF DiskInit
  <2>3. rw \in [Proc -> Call]  BY <1>2 DEF DiskInit
  <2>4. info \in [Desc -> [b : Buf \cup {None}, ok : BOOLEAN]]  BY <1>2 DEF DiskInit
  <2> QED  BY <2>1, <2>2, <2>3, <2>4 DEF DiskInit, DiskType
<1>4. \A p \in Proc : rw[p].pc = "out" /\ rw[p].head = None  BY DEF DiskInit, NoRw
<1>5. Requests /\ Chains
  BY <1>4 DEF Requests, Chains, HasChain, InRw
<1>6. Counting
  <2>1. Callers = {}  BY <1>4 DEF Callers, HasChain
  <2>2. Cardinality(Callers) = 0  BY <2>1, FS_EmptySet
  <2> QED  BY <2>2, DescFinite, DiskAssumption, SMTT(60) DEF Counting, DiskInit
<1>7. used = <<>> /\ avail = {} /\ DOMAIN used = {}  BY SMTT(60) DEF DiskInit
<1>8. Rings  BY <1>7 DEF Rings, InRing
<1>9. Busy  BY <1>4 DEF Busy, HasChain
<1> QED  BY <1>3, <1>5, <1>6, <1>8, <1>9 DEF DiskInv

(* A step that is none of the driver's *)
LEMMA DiskStutters == DiskInv /\ UNCHANGED <<queue, rw>> => DiskInv'
<1> SUFFICES ASSUME DiskInv, UNCHANGED <<queue, rw>> PROVE DiskInv'  OBVIOUS
<1>1. rw' \in [Proc -> Call] /\ Requests'
  BY DEF DiskInv, DiskType, Requests, HasChain, InRw
<1>2. \A q \in Proc : IF HasChain(q) THEN SameRequest(q) ELSE ~HasChain(q)'
  BY DEF HasChain, SameRequest
<1>3. \A q \in Proc : /\ rw'[q].pc = "wait" => rw[q].b \in busy
                      /\ rw'[q].pc = "nodesc" => Cardinality(free) < 3
  BY DEF DiskInv, Busy
<1> QED  BY <1>1, <1>2, <1>3, CallStep

(* The invariant says whose every descriptor is. *)
LEMMA DescriptorsOwned == DiskInv => DescOwned
<1> SUFFICES ASSUME DiskInv PROVE DescOwned  OBVIOUS
<1>1. ASSUME NEW p \in Proc, rw[p].head # None
      PROVE  /\ Len(Chain(rw[p].head)) = 3 /\ Range(Chain(rw[p].head)) \cap free = {}
             /\ info[rw[p].head].b = rw[p].b
  <2>1. HasChain(p)  BY <1>1 DEF HasChain
  <2>2. Chain(rw[p].head) = <<rw[p].head, Second(p), Third(p)>> /\ Range(Chain(rw[p].head)) = Owned(p)
    BY <2>1, ChainIs
  <2>3. Owned(p) \cap free = {} /\ info[rw[p].head].b = rw[p].b
    BY <2>1 DEF DiskInv, Chains, Busy
  <2> QED  BY <2>2, <2>3
<1>2. Cardinality(free) + 3 * Quantify(Proc, LAMBDA p : rw[p].head # None) = NUM
  BY DEF DiskInv, Counting, Callers, HasChain, Quantify
<1> QED  BY <1>1, <1>2 DEF DescOwned, DiskInv

(* The invariant says that whoever sleeps will be woken. *)
LEMMA CallersWoken == DiskInv => DiskWakeups
<1> SUFFICES ASSUME DiskInv, NEW p \in Proc
             PROVE  /\ rw[p].pc = "wait" => /\ rw[p].b \in busy /\ rw[p].head \in avail \cup Range(used)
                                            /\ rw[p].head \in Range(used) => irq \/ handler
                    /\ rw[p].pc = "nodesc" => Cardinality(free) < 3 /\ \E q \in Proc : rw[q].head # None
  BY DEF DiskWakeups
<1>1. ASSUME rw[p].pc = "wait"
      PROVE  /\ rw[p].b \in busy /\ rw[p].head \in avail \cup Range(used)
             /\ rw[p].head \in Range(used) => irq \/ handler
  <2>1. HasChain(p) /\ rw[p].b \in busy  BY <1>1 DEF DiskInv, Requests, Busy
  <2>2. InRing(rw[p].head)  BY <2>1 DEF DiskInv, Busy
  <2>3. Range(used) # {} => irq \/ handler
    BY SMTT(60) DEF DiskInv, Rings, Range, DiskType
  <2> QED  BY <2>1, <2>2, <2>3 DEF InRing, Range
<1>2. ASSUME rw[p].pc = "nodesc"
      PROVE  Cardinality(free) < 3 /\ \E q \in Proc : rw[q].head # None
  <2>1. Cardinality(free) < 3  BY <1>2 DEF DiskInv, Busy
  <2>2. Cardinality(free) \in Nat  BY DescFinite DEF DiskInv, DiskType
  <2>3. Cardinality(Callers) # 0
    BY <2>1, <2>2, CallersFinite, DiskAssumption, SMTT(60) DEF DiskInv, Counting
  <2>4. Callers # {}  BY <2>3, FS_EmptySet
  <2> QED  BY <2>1, <2>4 DEF Callers, HasChain
<1> QED  BY <1>1, <1>2
=============================================================================
