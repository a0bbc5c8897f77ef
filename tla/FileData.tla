------------------------------ MODULE FileData ------------------------------
(***************************************************************************)
(* The contents of files: the block bitmap (balloc, bfree), the direct,    *)
(* singly and doubly indirect blocks of an inode (bmap, itrunc), readi and *)
(* writei in kernel/fs.c, and the loops over them in kernel/file.c.  A     *)
(* step is one section with a buffer locked; the inode stays locked from   *)
(* ilock to iunlock.  Directories and names are in module FileSystem; a    *)
(* transaction of the log is atomic on disk and is left out here.          *)
(***************************************************************************)
EXTENDS Integers, Sequences, FiniteSets, FiniteSetsExt, SequencesExt

CONSTANTS Proc, None,
          File, IpOf,          \* open files, and the inode of each
          NDIRECT, NINDIRECT,
          BSIZE,               \* bytes of a block
          NBLOCKS,             \* data blocks of the disk; block 0 is the boot block
          MaxChunk,            \* max in filewrite
          Lens,                \* bytes that a call reads or writes
          Reach,               \* bound: no call on inode i goes beyond Reach[i]
          MayCall,             \* bound: which process calls what on which file
          Image                \* the disk as mkfs wrote it

Inode == {IpOf[f] : f \in File}
Block == 1 .. NBLOCKS
Cell == 0 .. BSIZE - 1
MAXFILE == NDIRECT + NINDIRECT + NINDIRECT * NINDIRECT

ASSUME FileDataAssumption ==
  /\ Inode \subseteq Nat \ {0}
  /\ {NDIRECT, NINDIRECT, BSIZE, NBLOCKS, MaxChunk} \subseteq Nat \ {0}
  /\ NINDIRECT <= BSIZE
  /\ Lens \subseteq Nat \ {0} /\ \A i \in Inode : Reach[i] \in Nat
  /\ None \notin Proc
  /\ MayCall \subseteq Proc \X {"read", "write", "open", "trunc"} \X File

VARIABLES
  used,    \* the bitmap: the data blocks that are allocated
  block,   \* what is in each block
  addrs,   \* ip->addrs of each inode
  size,
  off,     \* f->off of each open file
  lock,    \* who holds each inode's lock
  frame,   \* the call each process is in
  panicked

vars == <<used, block, addrs, size, off, lock, frame, panicked>>

Zeroed == [c \in Cell |-> 0]
NoAddrs == [k \in 0 .. NDIRECT + 1 |-> 0]
Idle == [pc |-> "idle", op |-> "read", f |-> None, left |-> 0, n |-> 0, tot |-> 0,
         off |-> 0, cur |-> None, path |-> <<>>, todo |-> <<>>]

(* The byte that belongs at an offset of an inode's content. *)
Byte(i, o) == NBLOCKS + 100 * i + o

(* The files of the image, opened.                                         *)
Init ==
  /\ used = 1 .. Image.freeblock - 1
  /\ block = Image.block
  /\ addrs = Image.addrs
  /\ size = Image.size
  /\ off = [f \in File |-> 0]
  /\ lock = [i \in Inode |-> None]
  /\ frame = [p \in Proc |-> Idle]
  /\ panicked = FALSE

At(p, pc) == ~panicked /\ frame[p].pc = pc
Ip(p) == IpOf[frame[p].f]

-----------------------------------------------------------------------------
(* bmap *)

(* Where the address of the n-th block is: an index into ip->addrs, then   *)
(* an index into each indirect block on the way.                           *)
PathTo(bn) ==
  LET single == bn - NDIRECT
      double == single - NINDIRECT
  IN  IF bn < NDIRECT THEN <<bn>>
      ELSE IF single < NINDIRECT THEN <<NDIRECT, single>>
      ELSE <<NDIRECT + 1, double \div NINDIRECT, double % NINDIRECT>>

(* The first free block, 0 if there is none.                               *)
balloc == IF used = Block THEN 0 ELSE Min(Block \ used)

(* Seeded fault: the new block is not entered when the walk goes on.       *)
EntersLast(p) == Len(frame[p].path) = 1

(* The address that was found is entered where it was missing.             *)
Enters(p) == TRUE

(* One level of bmap: the address in the inode or in an indirect block,    *)
(* where a new block is entered if there is none.  Without a free block it *)
(* returns 0, but in the doubly indirect part only at the end: the levels  *)
(* before go on with block 0.                                              *)
Bmap(p) ==
  /\ At(p, "map")
  /\ LET f == frame[p]
         i == Ip(p)
         k == Head(f.path)
         slot == IF f.cur = None THEN addrs[i][k] ELSE block[f.cur][k]
         addr == IF slot = 0 THEN balloc ELSE slot
         new == slot = 0 /\ addr # 0
         deep == Len(PathTo(f.off \div BSIZE)) = 3
     IN /\ used' = IF new THEN used \cup {addr} ELSE used
        /\ block' = IF ~new THEN block
                    ELSE IF f.cur = None \/ ~Enters(p) THEN [block EXCEPT ![addr] = Zeroed]
                    ELSE [block EXCEPT ![addr] = Zeroed, ![f.cur][k] = addr]
        /\ addrs' = IF new /\ f.cur = None /\ Enters(p) THEN [addrs EXCEPT ![i][k] = addr] ELSE addrs
        /\ frame' = [frame EXCEPT ![p] =
             IF addr = 0 /\ (~deep \/ Len(f.path) = 1) THEN [f EXCEPT !.pc = "end", !.cur = None, !.path = <<>>]
             ELSE IF Len(f.path) = 1 THEN [f EXCEPT !.pc = "copy", !.cur = addr, !.path = <<>>]
             ELSE [f EXCEPT !.cur = addr, !.path = Tail(@)]]
  /\ UNCHANGED <<size, off, lock, panicked>>

-----------------------------------------------------------------------------
(* readi and writei *)

(* The inode is locked and n bytes are to be copied.                       *)
Begins(p, f, n) ==
  /\ lock' = [lock EXCEPT ![IpOf[f.f]] = p]
  /\ frame' = [frame EXCEPT ![p] = [f EXCEPT !.pc = "map", !.n = n, !.tot = 0,
       !.off = off[f.f], !.cur = None, !.path = PathTo(off[f.f] \div BSIZE)]]

(* The bytes up to the end of the block.                                   *)
Part(f) == Min({f.n - f.tot, BSIZE - (f.off % BSIZE)})

(* One turn of the loop, with the block in hand.                           *)
Copy(p) ==
  /\ At(p, "copy")
  /\ LET f == frame[p]
         m == Part(f)
         start == f.off % BSIZE
         g == [f EXCEPT !.tot = @ + m, !.off = @ + m, !.cur = None]
     IN /\ block' = IF f.op = "read" THEN block
                    ELSE [block EXCEPT ![f.cur] = [c \in Cell |->
                            IF c \in start .. start + m - 1 THEN Byte(Ip(p), f.off - start + c) ELSE @[c]]]
        /\ frame' = [frame EXCEPT ![p] =
             IF g.tot = g.n THEN [g EXCEPT !.pc = "end"]
             ELSE [g EXCEPT !.pc = "map", !.path = PathTo(g.off \div BSIZE)]]
  /\ UNCHANGED <<used, addrs, size, off, lock, panicked>>

(* The user's address is bad.                                              *)
CopyFails(p) ==
  /\ At(p, "copy")
  /\ frame' = [frame EXCEPT ![p].pc = "end", ![p].cur = None,
                            ![p].tot = IF frame[p].op = "read" THEN -1 ELSE @]
  /\ UNCHANGED <<used, block, addrs, size, off, lock, panicked>>

Advanced(f) == [off EXCEPT ![f.f] = IF f.tot > 0 THEN @ + f.tot ELSE @]

-----------------------------------------------------------------------------
(* fileread and filewrite *)

(* The bytes that calls under way may still add to a file's offset.        *)
Pending(f) == MapThenSumSet(LAMBDA q : IF frame[q].f = f THEN frame[q].left ELSE 0, Proc)

Calls(p, op, n) ==
  \E f \in File :
    /\ At(p, "idle") /\ <<p, op, f>> \in MayCall
    /\ off[f] + Pending(f) + n <= Reach[IpOf[f]]
    /\ frame' = [frame EXCEPT ![p] = [Idle EXCEPT !.pc = op, !.op = op, !.f = f, !.left = n]]
    /\ UNCHANGED <<used, block, addrs, size, off, lock, panicked>>

(* readi returns at once at, or beyond, the end of the file.               *)
Fileread(p) ==
  /\ At(p, "read") /\ lock[Ip(p)] = None
  /\ LET f == frame[p]
         n == Min({f.left, size[Ip(p)] - off[f.f]})
     IN \/ /\ n <= 0
           /\ frame' = [frame EXCEPT ![p] = Idle]
           /\ UNCHANGED lock
        \/ /\ n > 0
           /\ Begins(p, f, n)
  /\ UNCHANGED <<used, block, addrs, size, off, panicked>>

FilereadEnd(p) ==
  /\ At(p, "end") /\ frame[p].op = "read"
  /\ off' = Advanced(frame[p])
  /\ lock' = [lock EXCEPT ![Ip(p)] = None]
  /\ frame' = [frame EXCEPT ![p] = Idle]
  /\ UNCHANGED <<used, block, addrs, size, panicked>>

(* Seeded fault: a write may leave a gap behind the end of the file.       *)
RefusedTooLong(i, o, n) == o + n > MAXFILE * BSIZE

(* writei refuses to leave a gap and to grow a file beyond its limit.      *)
Refused(i, o, n) == o > size[i] \/ o + n > MAXFILE * BSIZE

(* One turn of filewrite's loop, up to the first block.                    *)
Filewrite(p) ==
  /\ At(p, "write") /\ lock[Ip(p)] = None
  /\ LET f == frame[p]
         n1 == Min({f.left, MaxChunk})
     IN \/ /\ Refused(Ip(p), off[f.f], n1)
           /\ frame' = [frame EXCEPT ![p] = Idle]
           /\ UNCHANGED lock
        \/ /\ ~Refused(Ip(p), off[f.f], n1)
           /\ Begins(p, f, n1)
  /\ UNCHANGED <<used, block, addrs, size, off, panicked>>

(* The end of writei and of the turn: on a short write the loop ends.      *)
FilewriteEnd(p) ==
  /\ At(p, "end") /\ frame[p].op = "write"
  /\ LET f == frame[p]
         left == f.left - f.tot
     IN /\ size' = [size EXCEPT ![Ip(p)] = Max({@, f.off})]
        /\ off' = Advanced(f)
        /\ lock' = [lock EXCEPT ![Ip(p)] = None]
        /\ frame' = [frame EXCEPT ![p] = IF f.tot # f.n \/ left = 0 THEN Idle
             ELSE [Idle EXCEPT !.pc = "write", !.op = "write", !.f = f.f, !.left = left]]
  /\ UNCHANGED <<used, block, addrs, panicked>>

-----------------------------------------------------------------------------
(* open, itrunc and bfree *)

NonZero(s) == SelectSeq(s, LAMBDA a : a # 0)
Listed(b) == NonZero([k \in 1 .. NINDIRECT |-> block[b][k - 1]])

(* What itrunc frees with a singly and with a doubly indirect block, and   *)
(* with an inode, in this order.                                           *)
Under(b) == Listed(b) \o <<b>>
Under2(b) == FlattenSeq([k \in DOMAIN Listed(b) |-> Under(Listed(b)[k])]) \o <<b>>
itrunc(i) ==
  NonZero([k \in 1 .. NDIRECT |-> addrs[i][k - 1]])
  \o (IF addrs[i][NDIRECT] = 0 THEN <<>> ELSE Under(addrs[i][NDIRECT]))
  \o (IF addrs[i][NDIRECT + 1] = 0 THEN <<>> ELSE Under2(addrs[i][NDIRECT + 1]))

(* The file is closed and opened again, with or without O_TRUNC.           *)
Open(p) ==
  \E f \in File :
    /\ At(p, "idle") /\ \A q \in Proc : frame[q].f # f
    /\ lock[IpOf[f]] = None
    /\ off' = [off EXCEPT ![f] = 0]
    /\ \/ /\ <<p, "open", f>> \in MayCall
          /\ UNCHANGED <<lock, frame>>
       \/ /\ <<p, "trunc", f>> \in MayCall
          /\ lock' = [lock EXCEPT ![IpOf[f]] = p]
          /\ frame' = [frame EXCEPT ![p] = [Idle EXCEPT !.pc = "trunc", !.f = f, !.todo = itrunc(IpOf[f])]]
    /\ UNCHANGED <<used, block, addrs, size, panicked>>

Bfree(p) ==
  /\ At(p, "trunc") /\ frame[p].todo # <<>>
  /\ used' = used \ {Head(frame[p].todo)}
  /\ panicked' = (Head(frame[p].todo) \notin used)
  /\ frame' = [frame EXCEPT ![p].todo = Tail(@)]
  /\ UNCHANGED <<block, addrs, size, off, lock>>

TruncEnd(p) ==
  /\ At(p, "trunc") /\ frame[p].todo = <<>>
  /\ addrs' = [addrs EXCEPT ![Ip(p)] = NoAddrs]
  /\ size' = [size EXCEPT ![Ip(p)] = 0]
  /\ lock' = [lock EXCEPT ![Ip(p)] = None]
  /\ frame' = [frame EXCEPT ![p] = Idle]
  /\ UNCHANGED <<used, block, off, panicked>>

Next ==
  \E p \in Proc :
    \/ \E n \in Lens, op \in {"read", "write"} : Calls(p, op, n)
    \/ Fileread(p) \/ FilereadEnd(p) \/ Filewrite(p) \/ FilewriteEnd(p)
    \/ Bmap(p) \/ Copy(p) \/ CopyFails(p) \/ Open(p) \/ Bfree(p) \/ TruncEnd(p)

Spec == Init /\ [][Next]_vars

-----------------------------------------------------------------------------
TypeOK ==
  /\ used \subseteq Block
  /\ block \in [Block \cup {0} -> [Cell -> Nat]]
  /\ addrs \in [Inode -> [0 .. NDIRECT + 1 -> Block \cup {0}]]
  /\ size \in [Inode -> 0 .. MAXFILE * BSIZE]
  /\ off \in [File -> 0 .. MAXFILE * BSIZE]
  /\ lock \in [Inode -> Proc \cup {None}]
  /\ \A p \in Proc : frame[p].pc \in {"idle", "read", "write", "map", "copy", "end", "trunc"}

Truncating(p, i) == frame[p].pc = "trunc" /\ Ip(p) = i

(* The blocks of an inode, those that a truncation has still to free.      *)
BlocksOf(i) ==
  IF \E p \in Proc : Truncating(p, i)
  THEN frame[CHOOSE p \in Proc : Truncating(p, i)].todo
  ELSE itrunc(i)

(* Every allocated block belongs to one place of one file, and every block *)
(* of a file is allocated: no block is shared between two files or freed   *)
(* while in use, none is lost when the disk fills up or the user's memory  *)
(* fails in the middle of a write, and truncating never frees a free block.*)
BlocksOwned ==
  /\ TypeOK /\ ~panicked
  /\ used = UNION {ToSet(BlocksOf(i)) : i \in Inode}
  /\ Cardinality(used) = MapThenSumSet(LAMBDA i : Len(BlocksOf(i)), Inode)

BlockAt(i, bn) ==
  LET path == PathTo(bn)
      b == addrs[i][path[1]]
  IN  CASE Len(path) = 1 -> b
        [] Len(path) = 2 -> block[b][path[2]]
        [] Len(path) = 3 -> block[block[b][path[2]]][path[3]]

(* Up to its size every byte of a file is the one that was written at that *)
(* offset, through whichever of the three kinds of block addresses, also   *)
(* in files that mkfs wrote, and while calls on this and other files are   *)
(* under way or have failed.                                               *)
Content ==
  \A i \in Inode : ~(\E p \in Proc : Truncating(p, i)) =>
    \A o \in 0 .. size[i] - 1 : block[BlockAt(i, o \div BSIZE)][o % BSIZE] = Byte(i, o)
=============================================================================
