----------------------------- MODULE VirtioDisk -----------------------------
(***************************************************************************)
(* The driver of the disk, kernel/virtio_disk.c: a process in              *)
(* virtio_disk_rw chains three descriptors, puts the first into the avail  *)
(* ring and sleeps until the interrupt handler finds it in the used ring.  *)
(* The device carries requests out in any order, as soon as they are in    *)
(* the avail ring.  A step is one section under vdisk_lock, one request of *)
(* the device, or, in the handler, the part up to the next look at the     *)
(* used ring.  The ring we fill is a set, as the order is the device's     *)
(* choice, and the ring we read a queue: NUM divides the range of the      *)
(* 16-bit indices.                                                         *)
(***************************************************************************)
EXTENDS Naturals, Sequences, FiniteSets, FiniteSetsExt

CONSTANTS Proc, Block, Value, None,
          NBUF,
          NUM     \* descriptors

Buf == 1 .. NBUF
Desc == 0 .. NUM - 1

ASSUME DiskAssumption ==
  /\ IsFiniteSet(Proc)
  /\ NBUF \in Nat \ {0}
  /\ NUM \in Nat /\ NUM >= 3
  /\ None \notin Proc \cup Block \cup Value \cup Buf \cup Desc

VARIABLES
  data,           \* b->data
  disk,           \* the blocks on disk
  free, desc,     \* the descriptors, with what is at their address
  info,           \* disk.info: buffer and status of each request
  avail, used,    \* requests the device has, and has finished
  busy,           \* the buffers with b->disk = 1
  irq,            \* InterruptStatus of the device
  handler,        \* the interrupt handler holds vdisk_lock
  rw,             \* where each process is in virtio_disk_rw
  broken          \* the driver has panicked

queue == <<free, desc, info, avail, used, busy, irq, handler, broken>>
dvars == <<data, disk, queue, rw>>

NoDesc == [addr |-> None, next |-> 0, chained |-> FALSE, write |-> FALSE]
NoInfo == [b |-> None, ok |-> FALSE]
NoRw == [pc |-> "out", b |-> None, block |-> None, write |-> FALSE, head |-> None]

DiskInit ==
  /\ free = Desc
  /\ desc = [d \in Desc |-> NoDesc]
  /\ info = [d \in Desc |-> NoInfo]
  /\ avail = {} /\ used = <<>>
  /\ busy = {}
  /\ irq = FALSE /\ handler = FALSE /\ broken = FALSE
  /\ rw = [p \in Proc |-> NoRw]

(* p calls virtio_disk_rw.                                                 *)
DiskRw(p, b, k, w) == rw' = [rw EXCEPT ![p] = [NoRw EXCEPT !.pc = "alloc", !.b = b, !.block = k, !.write = w]]

(* The processes after wakeup(&disk.free[0]) and after wakeup(b).          *)
WakeFree == [p \in Proc |-> IF rw[p].pc = "nodesc" THEN [rw[p] EXCEPT !.pc = "alloc"] ELSE rw[p]]
WakeBuf(b) == [p \in Proc |-> IF rw[p].pc = "wait" /\ rw[p].b = b THEN [rw[p] EXCEPT !.pc = "woken"] ELSE rw[p]]

(* alloc3_desc finds only one or two descriptors, which it gives back with *)
(* a wakeup, or none.                                                      *)
Alloc3Fails(p) ==
  /\ rw[p].pc = "alloc" /\ ~handler /\ ~broken
  /\ Cardinality(free) < 3
  /\ rw' = [(IF free = {} THEN rw ELSE WakeFree) EXCEPT ![p].pc = "nodesc"]
  /\ UNCHANGED <<data, disk, queue>>

(* The three lowest free descriptors, as alloc3_desc takes them.           *)
Alloc3 == LET a == Min(free)
              b == Min(free \ {a})
          IN  <<a, b, Min(free \ {a, b})>>

(* The request is formatted and handed over; the process sleeps.  The      *)
(* first descriptor's address is that of disk.ops, with type and sector;   *)
(* write says there what to do, and in the others that the device writes   *)
(* to the address.                                                         *)
Submit(p) ==
  /\ rw[p].pc = "alloc" /\ ~handler /\ ~broken
  /\ Cardinality(free) >= 3
  /\ LET i == Alloc3
         r == rw[p]
     IN /\ free' = free \ Range(i)
        /\ desc' = [desc EXCEPT ![i[1]] = [addr |-> r.block, next |-> i[2], chained |-> TRUE, write |-> r.write],
                                ![i[2]] = [addr |-> r.b, next |-> i[3], chained |-> TRUE, write |-> ~r.write],
                                ![i[3]] = [addr |-> None, next |-> 0, chained |-> FALSE, write |-> TRUE]]
        /\ info' = [info EXCEPT ![i[1]] = [b |-> r.b, ok |-> FALSE]]
        /\ busy' = busy \cup {r.b}
        /\ avail' = avail \cup {i[1]}
        /\ rw' = [rw EXCEPT ![p].pc = "wait", ![p].head = i[1]]
  /\ UNCHANGED <<data, disk, used, irq, handler, broken>>

(* The descriptors from i on, as free_chain and the device follow them.    *)
Chain(i) == LET j == desc[i].next IN
  IF ~desc[i].chained THEN <<i>>
  ELSE IF ~desc[j].chained THEN <<i, j>>
  ELSE <<i, j, desc[j].next>>

(* Seeded fault: only the head of the chain is given back.                 *)
FreeHead(i) == <<i>>

FreeChain(i) == Chain(i)

(* The end of virtio_disk_rw, or back to sleep if the request goes on; a   *)
(* descriptor that is free already is a panic.                             *)
Finish(p) ==
  /\ rw[p].pc = "woken" /\ ~handler /\ ~broken
  /\ rw[p].b \notin busy
  /\ LET chain == FreeChain(rw[p].head) IN
     /\ info' = [info EXCEPT ![rw[p].head].b = None]
     /\ broken' = (Range(chain) \cap free # {})
     /\ free' = free \cup Range(chain)
     /\ desc' = [d \in Desc |-> IF d \in Range(chain) THEN NoDesc ELSE desc[d]]
     /\ rw' = [WakeFree EXCEPT ![p] = NoRw]
  /\ UNCHANGED <<data, disk, avail, used, busy, irq, handler>>

Resleep(p) ==
  /\ rw[p].pc = "woken" /\ ~handler /\ ~broken
  /\ rw[p].b \in busy
  /\ rw' = [rw EXCEPT ![p].pc = "wait"]
  /\ UNCHANGED <<data, disk, queue>>

(* kill() makes a sleeping process runnable, wherever it sleeps.           *)
Kill(p) ==
  /\ rw[p].pc \in {"wait", "nodesc"}
  /\ rw' = [rw EXCEPT ![p].pc = IF @ = "wait" THEN "woken" ELSE "alloc"]
  /\ UNCHANGED <<data, disk, queue>>

Driver(p) == Alloc3Fails(p) \/ Submit(p) \/ Resleep(p) \/ Kill(p)

-----------------------------------------------------------------------------
(* The device *)

(* One request is carried out, in the way the chain describes it, and      *)
(* put into the used ring.                                                 *)
DeviceFinishes(i) ==
  /\ i \in avail
  /\ LET c == Chain(i)
         b == desc[c[2]].addr
         k == desc[i].addr
     IN /\ disk' = IF desc[i].write THEN [disk EXCEPT ![k] = data[b]] ELSE disk
        /\ data' = IF desc[c[2]].write THEN [data EXCEPT ![b] = disk[k]] ELSE data
  /\ info' = [info EXCEPT ![i].ok = TRUE]
  /\ avail' = avail \ {i}
  /\ used' = Append(used, i)
  /\ irq' = TRUE
  /\ UNCHANGED <<free, desc, busy, handler, rw, broken>>

-----------------------------------------------------------------------------
(* virtio_disk_intr *)

Intr ==
  /\ irq /\ ~handler /\ ~broken
  /\ irq' = FALSE
  /\ handler' = TRUE
  /\ UNCHANGED <<data, disk, free, desc, info, avail, used, busy, rw, broken>>

(* A turn of the loop over the used ring.                                  *)
IntrUsed ==
  /\ handler /\ used # <<>>
  /\ LET i == info[Head(used)] IN
     /\ broken' = (~i.ok \/ i.b = None)
     /\ busy' = busy \ {i.b}
     /\ rw' = IF i.b = None THEN rw ELSE WakeBuf(i.b)
  /\ used' = Tail(used)
  /\ UNCHANGED <<data, disk, free, desc, info, avail, irq, handler>>

(* Seeded fault: the handler may stop before the ring is empty.            *)
IntrReturnsAny == handler

IntrReturns == handler /\ used = <<>>

IntrEnd ==
  /\ IntrReturns
  /\ handler' = FALSE
  /\ UNCHANGED <<data, disk, free, desc, info, avail, used, busy, irq, rw, broken>>

Device == (\E i \in Desc : DeviceFinishes(i)) \/ Intr \/ IntrUsed \/ IntrEnd

-----------------------------------------------------------------------------
(* Nobody sleeps for ever in virtio_disk_rw: a process waits for its       *)
(* buffer only while its request is on its way and an interrupt will come  *)
(* for it, even if the used ring fills up while the handler runs; and for  *)
(* descriptors only while too few are free and others hold some, whose     *)
(* return will wake it.                                                    *)
DiskWakeups ==
  \A p \in Proc :
    /\ rw[p].pc = "wait" => /\ rw[p].b \in busy /\ rw[p].head \in avail \cup Range(used)
                            /\ rw[p].head \in Range(used) => irq \/ handler
    /\ rw[p].pc = "nodesc" => Cardinality(free) < 3 /\ \E q \in Proc : rw[q].head # None

(* Every descriptor is free or in the chain of one request, whatever the   *)
(* order in which requests finish, and the driver does not panic.          *)
DescOwned ==
  /\ ~broken
  /\ \A p \in Proc : rw[p].head # None =>
       /\ Len(Chain(rw[p].head)) = 3 /\ Range(Chain(rw[p].head)) \cap free = {}
       /\ info[rw[p].head].b = rw[p].b
  /\ Cardinality(free) + 3 * Quantify(Proc, LAMBDA p : rw[p].head # None) = NUM
=============================================================================
