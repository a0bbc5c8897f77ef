------------------------------- MODULE Console -------------------------------
(***************************************************************************)
(* The console, kernel/console.c, over module Uart.  The handler edits the *)
(* last line in a ring and commits it to the readers when it is complete;  *)
(* it echoes what is typed while it holds cons.lock.  printf writes to the *)
(* uart at the same time.  The three characters that erase one on the      *)
(* screen are one here, and procdump (control-p) is left out.              *)
(***************************************************************************)
EXTENDS Uart, SequencesExt

CONSTANTS
  INPUT_BUF_SIZE,
  ReadSize,   \* bound: the longest read
  WriteSize   \* bound: the longest write

ASSUME ConsoleAssumption ==
  /\ INPUT_BUF_SIZE \in Nat \ {0} /\ UINT > INPUT_BUF_SIZE /\ UINT % INPUT_BUF_SIZE = 0
  /\ ReadSize \in Nat /\ WriteSize \in Nat

VARIABLES
  cons,         \* lock, buf, r, w, e
  prlock,       \* pr.lock of kernel/printf.c
  killed,
  input, line   \* the lines that are complete, and the one that is edited

consVars == <<cons, input, line>>

NoJob == [c |-> None, n |-> 0, target |-> 0, room |-> 0, next |-> None, ticks0 |-> 0, elapsed |-> 0]

ConsoleInit ==
  /\ cons = [lock |-> None, buf |-> [i \in 0 .. INPUT_BUF_SIZE - 1 |-> None], r |-> 0, w |-> 0, e |-> 0]
  /\ prlock = None
  /\ input = <<>> /\ line = <<>>

Keys == {"a", "nl", "cr", "^D", "^U", "^H", "nul"}
At(i) == cons.buf[i % INPUT_BUF_SIZE]

(* A process is back from its call; a killed one exits, and its slot is    *)
(* used by another.                                                        *)
Return(p) ==
  /\ pc' = [pc EXCEPT ![p] = "user"]
  /\ job' = [job EXCEPT ![p] = NoJob]
  /\ killed' = [killed EXCEPT ![p] = FALSE]

-----------------------------------------------------------------------------
(* consolewrite: the first room characters can be read.                    *)

CallWrite(p, n, room) ==
  /\ pc[p] = "user"
  /\ pc' = [pc EXCEPT ![p] = "write"]
  /\ job' = [job EXCEPT ![p] = [NoJob EXCEPT !.target = n, !.room = room]]
  /\ UNCHANGED <<asleep, uartVars, consVars, prlock, killed>>

Consolewrite(p) ==
  /\ pc[p] = "write"
  /\ UNCHANGED <<asleep, uartVars, consVars, prlock>>
  /\ IF job[p].n >= job[p].target \/ job[p].n >= job[p].room THEN Return(p)
     ELSE /\ pc' = [pc EXCEPT ![p] = "put"]
          /\ job' = [job EXCEPT ![p].n = @ + 1, ![p].c = <<p, job[p].n + 1>>]
          /\ UNCHANGED killed

(* printf of one character *)
Printf(p) ==
  /\ pc[p] = "user" /\ prlock = None
  /\ prlock' = p
  /\ pc' = [pc EXCEPT ![p] = "sync"]
  /\ job' = [job EXCEPT ![p] = [NoJob EXCEPT !.next = "printed"]]
  /\ UNCHANGED <<asleep, uartVars, consVars, killed>>

Printed(p) ==
  /\ pc[p] = "printed"
  /\ prlock' = None
  /\ Return(p)
  /\ UNCHANGED <<asleep, uartVars, consVars>>

-----------------------------------------------------------------------------
(* consoleread of n characters, to a buffer with room for room of them     *)

CallRead(p, n, room) ==
  /\ pc[p] = "user"
  /\ pc' = [pc EXCEPT ![p] = "readlock"]
  /\ job' = [job EXCEPT ![p] = [NoJob EXCEPT !.n = n, !.target = n, !.room = room]]
  /\ UNCHANGED <<asleep, uartVars, consVars, prlock, killed>>

(* acquire(&cons.lock), at the beginning and after sleep                   *)
ReadLock(p) ==
  /\ pc[p] = "readlock" /\ Awake(p) /\ cons.lock = None
  /\ cons' = [cons EXCEPT !.lock = p]
  /\ pc' = [pc EXCEPT ![p] = "read"]
  /\ UNCHANGED <<job, asleep, uartVars, input, line, prlock, killed>>

(* No input: return if killed, and sleep if not.  kill may come between    *)
(* the test and the sleep.                                                 *)
ReadWait(p) ==
  /\ pc[p] = "read" /\ job[p].n > 0 /\ cons.r = cons.w
  /\ UNCHANGED <<asleep, uartVars, input, line, prlock>>
  /\ IF killed[p] THEN Return(p) /\ cons' = [cons EXCEPT !.lock = None]
     ELSE pc' = [pc EXCEPT ![p] = "readsleep"] /\ UNCHANGED <<job, cons, killed>>

ReadSleep(p) ==
  /\ pc[p] = "readsleep"
  /\ asleep' = [asleep EXCEPT ![p] = "cons"]
  /\ cons' = [cons EXCEPT !.lock = None]
  /\ pc' = [pc EXCEPT ![p] = "readlock"]
  /\ UNCHANGED <<job, uartVars, input, line, prlock, killed>>

(* The end of file is kept for the next read.                              *)
SavesEof(p) == At(cons.r) = "^D" /\ job[p].n < job[p].target

Consoleread(p) ==
  LET c == At(cons.r)
      copied == c # "^D" /\ job[p].target - job[p].n < job[p].room
      ends == ~copied \/ c = "nl" \/ job[p].n = 1
      unlocked == IF ends THEN None ELSE p
  IN  /\ pc[p] = "read" /\ job[p].n > 0 /\ cons.r # cons.w
      /\ cons' = [cons EXCEPT !.r = IF SavesEof(p) THEN @ ELSE Plus(@, 1), !.lock = unlocked]
      /\ input' = IF SavesEof(p) THEN input ELSE Tail(input)
      /\ IF ends THEN Return(p)
         ELSE job' = [job EXCEPT ![p].n = @ - 1] /\ UNCHANGED <<pc, killed>>
      /\ UNCHANGED <<asleep, uartVars, line, prlock>>

-----------------------------------------------------------------------------
(* consoleintr.  What a key should do to the lines is done to input and    *)
(* line when the handler gets the lock.                                    *)

Key == job[Intr].c
Room == (cons.e - cons.r) % UINT < INPUT_BUF_SIZE
Ends(c) == c \in {"nl", "^D"}

Typed(c) ==
  CASE c = "nul" -> UNCHANGED <<input, line>>
    [] c = "^U" -> line' = <<>> /\ UNCHANGED input
    [] c = "^H" -> line' = (IF line = <<>> THEN <<>> ELSE Front(line)) /\ UNCHANGED input
    [] OTHER ->
         LET kept == Append(line, c)
             room == Len(input) + Len(line) < INPUT_BUF_SIZE
             full == Len(input) + Len(kept) = INPUT_BUF_SIZE
         IN  IF ~room THEN UNCHANGED <<input, line>>
             ELSE IF Ends(c) \/ full THEN input' = input \o kept /\ line' = <<>>
             ELSE line' = kept /\ UNCHANGED input

Consoleintr ==
  /\ pc[Intr] = "consoleintr" /\ cons.lock = None
  /\ cons' = [cons EXCEPT !.lock = Intr]
  /\ LET c == IF job[Intr].c = "cr" THEN "nl" ELSE job[Intr].c
     IN  /\ Typed(c)
         /\ pc' = [pc EXCEPT ![Intr] = CASE c = "^U" -> "kill" [] c = "^H" -> "erase" [] OTHER -> "char"]
         /\ job' = [job EXCEPT ![Intr].c = c]
  /\ UNCHANGED <<asleep, uartVars, prlock, killed>>

(* Go on at next after the echo                                            *)
EchoThen(next) ==
  /\ pc' = [pc EXCEPT ![Intr] = "sync"]
  /\ job' = [job EXCEPT ![Intr].next = next]

Erase ==
  /\ pc[Intr] \in {"kill", "erase"}
  /\ cons.e # cons.w
  /\ pc[Intr] = "kill" => At(cons.e - 1) # "nl"
  /\ cons' = [cons EXCEPT !.e = (@ - 1) % UINT]
  /\ EchoThen(IF pc[Intr] = "kill" THEN "kill" ELSE "unlock")
  /\ UNCHANGED <<asleep, uartVars, input, line, prlock, killed>>

EraseEnd ==
  /\ pc[Intr] \in {"kill", "erase"}
  /\ cons.e = cons.w \/ (pc[Intr] = "kill" /\ At(cons.e - 1) = "nl")
  /\ pc' = [pc EXCEPT ![Intr] = "unlock"]
  /\ UNCHANGED <<job, asleep, uartVars, consVars, prlock, killed>>

EchoChar ==
  /\ pc[Intr] = "char"
  /\ IF Key # "nul" /\ Room THEN EchoThen("store")
     ELSE pc' = [pc EXCEPT ![Intr] = "unlock"] /\ UNCHANGED job
  /\ UNCHANGED <<asleep, uartVars, consVars, prlock, killed>>

(* Seeded fault: only the end of a line or file hands it to the readers.   *)
CommitsLine == Ends(Key)

(* Whether the character completes the line, or leaves no room for more    *)
Commits == Ends(Key) \/ (Plus(cons.e, 1) - cons.r) % UINT = INPUT_BUF_SIZE

StoreChar ==
  /\ pc[Intr] = "store"
  /\ cons' = [cons EXCEPT !.buf[cons.e % INPUT_BUF_SIZE] = Key, !.e = Plus(@, 1),
                          !.w = IF Commits THEN Plus(cons.e, 1) ELSE @]
  /\ IF Commits THEN Wakeup("cons") ELSE UNCHANGED asleep
  /\ pc' = [pc EXCEPT ![Intr] = "unlock"]
  /\ UNCHANGED <<job, uartVars, input, line, prlock, killed>>

ConsoleintrEnd ==
  /\ pc[Intr] = "unlock"
  /\ cons' = [cons EXCEPT !.lock = None]
  /\ pc' = [pc EXCEPT ![Intr] = "getc"]
  /\ job' = [job EXCEPT ![Intr] = NoJob]
  /\ UNCHANGED <<asleep, uartVars, input, line, prlock, killed>>
=============================================================================
