------------------------------- MODULE MCPipe -------------------------------
(* Pipe for TLC. *)
EXTENDS Pipe

CONSTANTS p1, p2, a, b

MCProc == {p1, p2}
MCByte == {a, b}

(* After pipe() and fork() both processes have both ends; by closing ends  *)
(* they reach every other way of sharing them.                             *)
Shared == {[p \in MCProc |-> {"r", "w"}]}
=============================================================================
