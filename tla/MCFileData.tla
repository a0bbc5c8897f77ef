----------------------------- MODULE MCFileData -----------------------------
(* Two processes and two files.  The first, which mkfs wrote, is open      *)
(* twice, reaches its doubly indirect blocks and is truncated through its  *)
(* second opening; both files together are larger than the disk.  In the   *)
(* run on a full disk the other file is truncated.                         *)
EXTENDS Mkfs, TLC

CONSTANTS p1, p2, fa, fb, fc

MCIpOf == fa :> 1 @@ fb :> 2 @@ fc :> 1
MCReach == <<9, 5>>
MCMayCall == {<<p1, "write", fa>>, <<p1, "open", fa>>, <<p2, "write", fb>>,
              <<p2, "read", fa>>, <<p2, "trunc", fc>>}
MCFullCalls == {<<p1, "write", fa>>, <<p2, "write", fb>>, <<p2, "trunc", fb>>}
MCImage == Files(<<3, 0>>, Inode)
=============================================================================
