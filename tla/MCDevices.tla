------------------------------ MODULE MCDevices ------------------------------
(* Devices for TLC. *)
EXTENDS Devices, TLC

CONSTANTS p1, p2

Load(c1, c2, victims, keys) ==
  [calls |-> (p1 :> c1) @@ (p2 :> c2), victims |-> victims, keys |-> keys]

(* A reader and all keys; two readers; two writers; a writer with printf   *)
(* and echo; a writer that is killed; and sleepers.                        *)
MCWorkloads ==
  { Load({"read"}, {}, {p1}, Keys),
    Load({"read"}, {"read"}, {}, {"a", "^D"}),
    Load({"write"}, {"write"}, {}, {}),
    Load({"write"}, {"print"}, {}, {"a"}),
    Load({"write"}, {}, {p1}, {}),
    Load({"sleep"}, {"sleep"}, {p1}, {}) }

(* What the rings hold outside of their indices does not matter.           *)
MCView == <<load, clock, pc, job, asleep, uart_tx_lock, uart, output, prlock, killed, input, line,
            tx.r, Contents(tx.buf, UART_TX_BUF_SIZE, tx.r, tx.w), cons.lock, cons.r, cons.w,
            Contents(cons.buf, INPUT_BUF_SIZE, cons.r, cons.e)>>
=============================================================================
