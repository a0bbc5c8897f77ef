-------------------------------- MODULE Mkfs --------------------------------
(***************************************************************************)
(* How mkfs/mkfs.c lays out the files of the first disk image: blocks are  *)
(* taken in order from freeblock, and a file has direct and singly         *)
(* indirect blocks only.                                                   *)
(***************************************************************************)
EXTENDS FileData

(* The image before the first file; the blocks are counted from the first  *)
(* one after the meta data.                                                *)
Blank ==
  [freeblock |-> 1, block |-> [b \in Block \cup {0} |-> Zeroed],
   addrs |-> [i \in Inode |-> NoAddrs], size |-> [i \in Inode |-> 0]]

(* iappend's search for the block of the next byte: one or two blocks are  *)
(* taken if they are missing.                                              *)
Extended(img, i, fbn) ==
  LET direct == fbn < NDIRECT
      k == IF direct THEN fbn ELSE NDIRECT
      one == IF img.addrs[i][k] # 0 THEN img
             ELSE [img EXCEPT !.addrs[i][k] = img.freeblock, !.freeblock = @ + 1]
      a == one.addrs[i][NDIRECT]
  IN  IF direct \/ one.block[a][fbn - NDIRECT] # 0 THEN one
      ELSE [one EXCEPT !.block[a][fbn - NDIRECT] = one.freeblock, !.freeblock = @ + 1]

BlockOf(img, i, fbn) ==
  IF fbn < NDIRECT THEN img.addrs[i][fbn] ELSE img.block[img.addrs[i][NDIRECT]][fbn - NDIRECT]

RECURSIVE iappend(_, _, _)
iappend(img, i, n) ==
  IF n = 0 THEN img
  ELSE LET o == img.size[i]
           fbn == o \div BSIZE
           start == o % BSIZE
           n1 == Min({n, (fbn + 1) * BSIZE - o})
           found == Extended(img, i, fbn)
           x == BlockOf(found, i, fbn)
           written == [found EXCEPT !.size[i] = @ + n1,
                         !.block[x] = [c \in Cell |-> IF c \in start .. start + n1 - 1
                                                      THEN Byte(i, fbn * BSIZE + c) ELSE @[c]]]
       IN  iappend(written, i, n - n1)

RECURSIVE Files(_, _)
(* The files one after the other, len[i] bytes for inode i.                *)
Files(len, S) ==
  IF S = {} THEN Blank ELSE iappend(Files(len, S \ {Max(S)}), Max(S), len[Max(S)])
=============================================================================
