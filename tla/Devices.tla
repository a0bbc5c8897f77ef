------------------------------- MODULE Devices -------------------------------
(***************************************************************************)
(* Processes that wait for devices: for the console and the serial line    *)
(* (modules Console and Uart), and for the clock, with sys_sleep           *)
(* (kernel/sysproc.c) and clockintr (kernel/trap.c).  kill may come at any *)
(* time.                                                                   *)
(***************************************************************************)
EXTENDS Console

CONSTANTS
  SleepTicks,  \* bound: the longest sleep
  Workloads    \* bound: who makes which calls, who may be killed, what is typed

ASSUME DevicesAssumption ==
  /\ SleepTicks \in Nat /\ SleepTicks + 1 < UINT
  /\ Workloads \subseteq [calls : [Proc -> SUBSET {"read", "write", "print", "sleep"}],
                         victims : SUBSET Proc, keys : SUBSET Keys]

VARIABLES load, clock   \* clock: tickslock and ticks

vars == <<load, clock, pc, job, asleep, uartVars, consVars, prlock, killed>>

Init ==
  /\ load \in Workloads
  /\ clock = [lock |-> None, ticks |-> 0]
  /\ pc = [a \in Proc \cup {Intr} |-> IF a = Intr THEN "idle" ELSE "user"]
  /\ job = [a \in Proc \cup {Intr} |-> NoJob]
  /\ asleep = [p \in Proc |-> None]
  /\ killed = [p \in Proc |-> FALSE]
  /\ UartInit /\ ConsoleInit

-----------------------------------------------------------------------------
(* sys_sleep *)

CallSleep(p, n) ==
  /\ pc[p] = "user" /\ clock.lock = None
  /\ clock' = [clock EXCEPT !.lock = p]
  /\ pc' = [pc EXCEPT ![p] = "ticks"]
  /\ job' = [job EXCEPT ![p] = [NoJob EXCEPT !.n = n, !.ticks0 = clock.ticks]]
  /\ UNCHANGED <<asleep, uartVars, consVars, prlock, killed>>

TicksLock(p) ==
  /\ pc[p] = "tickslock" /\ Awake(p) /\ clock.lock = None
  /\ clock' = [clock EXCEPT !.lock = p]
  /\ pc' = [pc EXCEPT ![p] = "ticks"]
  /\ UNCHANGED <<job, asleep, uartVars, consVars, prlock, killed>>

(* Seeded fault: a comparison that is wrong when ticks wraps round         *)
SleptEarly(p) == clock.ticks >= Plus(job[p].ticks0, job[p].n)

Slept(p) == (clock.ticks - job[p].ticks0) % UINT >= job[p].n

SleepEnd(p) ==
  /\ pc[p] = "ticks" /\ (Slept(p) \/ killed[p])
  /\ clock' = [clock EXCEPT !.lock = None]
  /\ IF Slept(p) /\ job[p].elapsed < job[p].n
     THEN pc' = [pc EXCEPT ![p] = "early"] /\ UNCHANGED <<job, killed>>
     ELSE Return(p)
  /\ UNCHANGED <<asleep, uartVars, consVars, prlock>>

SleepWait(p) ==
  /\ pc[p] = "ticks" /\ ~Slept(p) /\ ~killed[p]
  /\ pc' = [pc EXCEPT ![p] = "ticksleep"]
  /\ UNCHANGED <<clock, job, asleep, uartVars, consVars, prlock, killed>>

SleepSleep(p) ==
  /\ pc[p] = "ticksleep"
  /\ asleep' = [asleep EXCEPT ![p] = "ticks"]
  /\ clock' = [clock EXCEPT !.lock = None]
  /\ pc' = [pc EXCEPT ![p] = "tickslock"]
  /\ UNCHANGED <<job, uartVars, consVars, prlock, killed>>

Sleeping == {p \in Proc : pc[p] \in {"ticks", "ticksleep", "tickslock"}}

(* The clock interrupt on CPU 0.  Bound: a process that has been woken     *)
(* runs before ticks comes round to where it was.                          *)
Clockintr ==
  /\ \E p \in Proc : "sleep" \in load.calls[p]
  /\ clock.lock = None
  /\ \A p \in Sleeping : job[p].elapsed < UINT - 1
  /\ clock' = [clock EXCEPT !.ticks = Plus(@, 1)]
  /\ Wakeup("ticks")
  /\ job' = [a \in DOMAIN job |-> IF a \in Sleeping THEN [job[a] EXCEPT !.elapsed = @ + 1] ELSE job[a]]
  /\ UNCHANGED <<pc, uartVars, consVars, prlock, killed>>

(* kill, of a process that is in a call                                    *)
Kill(p) ==
  /\ p \in load.victims
  /\ pc[p] # "user" /\ ~killed[p]
  /\ killed' = [killed EXCEPT ![p] = TRUE]
  /\ asleep' = [asleep EXCEPT ![p] = None]
  /\ UNCHANGED <<clock, pc, job, uartVars, consVars, prlock>>

-----------------------------------------------------------------------------
Does(p, call) == call \in load.calls[p] /\ UNCHANGED load
OnlyUart == UNCHANGED <<load, clock, consVars, prlock, killed>>
OnlyConsole == UNCHANGED <<load, clock>>

Call(p) ==
  \/ \E n \in 1 .. WriteSize : \E room \in {n - 1, n} : Does(p, "write") /\ CallWrite(p, n, room) /\ UNCHANGED clock
  \/ \E n \in 1 .. ReadSize : \E room \in {n - 1, n} : Does(p, "read") /\ CallRead(p, n, room) /\ UNCHANGED clock
  \/ Does(p, "print") /\ Printf(p) /\ UNCHANGED clock
  \/ \E n \in 0 .. SleepTicks : Does(p, "sleep") /\ CallSleep(p, n)

UartStep(a) ==
  \/ StartEnd(a) /\ OnlyUart
  \/ Uartstart(a) /\ OnlyUart
  \/ WriteThr(a) /\ OnlyUart
  \/ SyncIdle(a) /\ OnlyUart
  \/ UartputcSync(a) /\ OnlyUart

Step(p) ==
  \/ UartStep(p)
  \/ PutFull(p) /\ OnlyUart
  \/ Uartputc(p) /\ OnlyUart
  \/ Consolewrite(p) /\ OnlyConsole
  \/ Printed(p) /\ OnlyConsole
  \/ ReadLock(p) /\ OnlyConsole
  \/ ReadWait(p) /\ OnlyConsole
  \/ ReadSleep(p) /\ OnlyConsole
  \/ Consoleread(p) /\ OnlyConsole
  \/ TicksLock(p) /\ UNCHANGED load
  \/ SleepEnd(p) /\ UNCHANGED load
  \/ SleepWait(p) /\ UNCHANGED load
  \/ SleepSleep(p) /\ UNCHANGED load

HandlerStep ==
  \/ UartStep(Intr)
  \/ Devintr /\ OnlyUart
  \/ Uartgetc /\ OnlyUart
  \/ UartgetcNone /\ OnlyUart
  \/ UartintrStart /\ OnlyUart
  \/ Consoleintr /\ OnlyConsole
  \/ Erase /\ OnlyConsole
  \/ EraseEnd /\ OnlyConsole
  \/ EchoChar /\ OnlyConsole
  \/ StoreChar /\ OnlyConsole
  \/ ConsoleintrEnd /\ OnlyConsole

Next ==
  \/ \E p \in Proc : Call(p) \/ Step(p) \/ (Kill(p) /\ UNCHANGED load)
  \/ HandlerStep
  \/ Transmit /\ OnlyUart
  \/ \E c \in load.keys : Receive(c) /\ OnlyUart
  \/ Clockintr /\ UNCHANGED load

Spec == Init /\ [][Next]_vars

-----------------------------------------------------------------------------
(* Properties *)

Contents(buf, size, from, to) == [i \in 1 .. (to - from) % UINT |-> buf[(from + i - 1) % size]]

(* What the line is to carry for write() is, in the order in which it was  *)
(* accepted, in the uart, with the one who restarts it, and in the ring:   *)
(* no character is lost, repeated or overtaken, and the uart's queue is    *)
(* never full when echo and printf write to it without the lock.           *)
OutputInOrder ==
  output = SelectSeq(uart.fifo, LAMBDA c : c # Echo)
           \o (IF uart_tx_lock # None /\ pc[uart_tx_lock] = "thr" THEN <<job[uart_tx_lock].c>> ELSE <<>>)
           \o Contents(tx.buf, UART_TX_BUF_SIZE, tx.r, tx.w)

(* The ring of the console holds the complete lines that nobody has read   *)
(* and the line that is being edited, whatever was typed, erased and read, *)
(* also where the indices wrap round; and when it is full all of it is for *)
(* the readers, so that typing can go on.                                  *)
LinesKept ==
  cons.lock # Intr =>
    /\ Contents(cons.buf, INPUT_BUF_SIZE, cons.r, cons.w) = input
    /\ Contents(cons.buf, INPUT_BUF_SIZE, cons.w, cons.e) = line
    /\ Len(input) + Len(line) = INPUT_BUF_SIZE => line = <<>>

(* No wakeup is lost: a process sleeps only while there is no input to     *)
(* read, no room to write, or time left to sleep, and sleep does not end   *)
(* before its time unless the process is killed.                           *)
SleepersWait ==
  \A p \in Proc :
    /\ asleep[p] = "cons" => cons.r = cons.w
    /\ asleep[p] = "tx" => Full
    /\ asleep[p] = "ticks" => job[p].elapsed < job[p].n
    /\ pc[p] # "early"

(* Output does not stop: while characters wait in the ring somebody will   *)
(* come for them, although uartstart gives up when the uart is busy: the   *)
(* one who has the lock, a handler that is not past uartstart, or the next *)
(* interrupt, which is due or comes when the uart has sent what it has.    *)
OutputGoesOn ==
  tx.r # tx.w => \/ uart_tx_lock # None
                 \/ pc[Intr] # "idle"
                 \/ uart.irq
                 \/ ~Idle
=============================================================================
