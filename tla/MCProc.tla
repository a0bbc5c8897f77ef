------------------------------- MODULE MCProc -------------------------------
(* Proc for TLC. *)
EXTENDS Proc, TLC

CONSTANTS c1, c2

MCCPU == {c1, c2}
AllCalls == {"fork", "exit", "wait", "kill"}
=============================================================================
