-------------------------- MODULE MCPageAllocator ---------------------------
(* PageAllocator for TLC. *)
EXTENDS PageAllocator

MCJunk == {0, Nil}
=============================================================================
