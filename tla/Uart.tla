-------------------------------- MODULE Uart --------------------------------
(***************************************************************************)
(* The driver of the serial line, kernel/uart.c.  write() puts characters  *)
(* into a ring that uartstart empties, called by the writer or by the      *)
(* interrupt handler, with uart_tx_lock held.  Echo and printf go around   *)
(* the ring and do not take the lock.  The 16550a is external: it has a    *)
(* queue of FIFO characters, is idle when that is empty, and interrupts    *)
(* when it becomes idle or a character has come in.                        *)
(***************************************************************************)
EXTENDS Integers, Sequences

CONSTANTS
  Proc, None,
  Intr,               \* the CPU that serves interrupts of the uart
  UART_TX_BUF_SIZE,
  FIFO,
  UINT                \* indices and ticks are counted modulo UINT

ASSUME UartAssumption ==
  /\ UART_TX_BUF_SIZE \in Nat \ {0} /\ FIFO \in Nat \ {0}
  /\ UINT \in Nat /\ UINT > UART_TX_BUF_SIZE /\ UINT % UART_TX_BUF_SIZE = 0

VARIABLES
  pc, job,     \* where each process and the handler are, and their locals
  asleep,      \* the channel on which a process sleeps
  uart_tx_lock, tx,
  uart,        \* fifo, rx (the character that has come in) and irq
  output       \* what write() has accepted and the line has not carried

uartVars == <<uart_tx_lock, tx, uart, output>>

Echo == <<None, 0>>     \* a character that does not come from write()
Plus(i, k) == (i + k) % UINT

UartInit ==
  /\ uart_tx_lock = None
  /\ tx = [buf |-> [i \in 0 .. UART_TX_BUF_SIZE - 1 |-> Echo], r |-> 0, w |-> 0]
  /\ uart = [fifo |-> <<>>, rx |-> None, irq |-> FALSE]
  /\ output = <<>>

Awake(p) == asleep[p] = None
Wakeup(chan) == asleep' = [p \in Proc |-> IF asleep[p] = chan THEN None ELSE asleep[p]]

Idle == uart.fifo = <<>>

(* Seeded fault: one character too many goes into the ring.                *)
FullLate == tx.w = Plus(tx.r, UART_TX_BUF_SIZE + 1)

Full == tx.w = Plus(tx.r, UART_TX_BUF_SIZE)
Send(c) == uart' = [uart EXCEPT !.fifo = IF Len(@) < FIFO THEN Append(@, c) ELSE @]

-----------------------------------------------------------------------------
(* uartputc: sleep while the ring is full, and test again.                 *)
PutFull(p) ==
  /\ pc[p] = "put" /\ Awake(p) /\ uart_tx_lock = None /\ Full
  /\ asleep' = [asleep EXCEPT ![p] = "tx"]
  /\ UNCHANGED <<pc, job, uartVars>>

Uartputc(p) ==
  /\ pc[p] = "put" /\ Awake(p) /\ uart_tx_lock = None /\ ~Full
  /\ uart_tx_lock' = p
  /\ tx' = [tx EXCEPT !.buf[tx.w % UART_TX_BUF_SIZE] = job[p].c, !.w = Plus(@, 1)]
  /\ output' = Append(output, job[p].c)
  /\ pc' = [pc EXCEPT ![p] = "start"]
  /\ UNCHANGED <<job, asleep, uart>>

(* Where a goes on after uartstart: in consolewrite, or out of uartintr,   *)
(* where devintr completes the interrupt and the next one can be claimed.  *)
AfterStart(a) == IF a = Intr THEN "idle" ELSE "write"

(* uartstart has nothing to do, or has to wait for an interrupt.           *)
StartEnd(a) ==
  /\ pc[a] = "start"
  /\ tx.w = tx.r \/ ~Idle
  /\ uart_tx_lock' = None
  /\ pc' = [pc EXCEPT ![a] = AfterStart(a)]
  /\ job' = [job EXCEPT ![a].c = None]
  /\ UNCHANGED <<asleep, tx, uart, output>>

(* Or it takes a character, which it then gives to the uart.               *)
Uartstart(a) ==
  /\ pc[a] = "start" /\ tx.w # tx.r /\ Idle
  /\ job' = [job EXCEPT ![a].c = tx.buf[tx.r % UART_TX_BUF_SIZE]]
  /\ tx' = [tx EXCEPT !.r = Plus(@, 1)]
  /\ Wakeup("tx")
  /\ pc' = [pc EXCEPT ![a] = "thr"]
  /\ UNCHANGED <<uart_tx_lock, uart, output>>

WriteThr(a) ==
  /\ pc[a] = "thr"
  /\ Send(job[a].c)
  /\ pc' = [pc EXCEPT ![a] = "start"]
  /\ UNCHANGED <<job, asleep, uart_tx_lock, tx, output>>

(* uartputc_sync spins until the uart is idle, and then writes.            *)
SyncIdle(a) ==
  /\ pc[a] = "sync" /\ Idle
  /\ pc' = [pc EXCEPT ![a] = "syncwrite"]
  /\ UNCHANGED <<job, asleep, uartVars>>

UartputcSync(a) ==
  /\ pc[a] = "syncwrite"
  /\ Send(Echo)
  /\ pc' = [pc EXCEPT ![a] = job[a].next]
  /\ job' = [job EXCEPT ![a].next = None]
  /\ UNCHANGED <<asleep, uart_tx_lock, tx, output>>

-----------------------------------------------------------------------------
(* The interrupt handler: devintr claims the interrupt, uartintr takes the *)
(* characters that have come in and restarts the output.                   *)

Devintr ==
  /\ pc[Intr] = "idle" /\ uart.irq
  /\ uart' = [uart EXCEPT !.irq = FALSE]
  /\ pc' = [pc EXCEPT ![Intr] = "getc"]
  /\ UNCHANGED <<job, asleep, uart_tx_lock, tx, output>>

Uartgetc ==
  /\ pc[Intr] = "getc" /\ uart.rx # None
  /\ uart' = [uart EXCEPT !.rx = None]
  /\ job' = [job EXCEPT ![Intr].c = uart.rx]
  /\ pc' = [pc EXCEPT ![Intr] = "consoleintr"]
  /\ UNCHANGED <<asleep, uart_tx_lock, tx, output>>

(* Seeded fault: uartintr takes input only, and does not restart output.   *)
UartgetcNoneReturns ==
  /\ pc[Intr] = "getc" /\ uart.rx = None
  /\ pc' = [pc EXCEPT ![Intr] = "idle"]
  /\ UNCHANGED <<job, asleep, uartVars>>

UartgetcNone ==
  /\ pc[Intr] = "getc" /\ uart.rx = None
  /\ pc' = [pc EXCEPT ![Intr] = "restart"]
  /\ UNCHANGED <<job, asleep, uartVars>>

UartintrStart ==
  /\ pc[Intr] = "restart" /\ uart_tx_lock = None
  /\ uart_tx_lock' = Intr
  /\ pc' = [pc EXCEPT ![Intr] = "start"]
  /\ UNCHANGED <<job, asleep, tx, uart, output>>

-----------------------------------------------------------------------------
(* The device *)

Transmit ==
  /\ ~Idle
  /\ uart' = [uart EXCEPT !.fifo = Tail(@), !.irq = @ \/ Len(uart.fifo) = 1]
  /\ output' = IF Head(uart.fifo) = Echo THEN output ELSE Tail(output)
  /\ UNCHANGED <<pc, job, asleep, uart_tx_lock, tx>>

Receive(c) ==
  /\ uart.rx = None
  /\ uart' = [uart EXCEPT !.rx = c, !.irq = TRUE]
  /\ UNCHANGED <<pc, job, asleep, uart_tx_lock, tx, output>>
=============================================================================
