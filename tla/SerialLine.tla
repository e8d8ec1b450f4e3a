----------------------------- MODULE SerialLine -----------------------------
(***************************************************************************)
(* The two directions of the serial cable.  h2t ends in the receive FIFO   *)
(* of the target's UART, t2h in the input queue of the host's tty.  Neither *)
(* side uses flow control: a sender never waits for the other to read.     *)
(***************************************************************************)
EXTENDS Wire, SequencesExt

VARIABLES
  h2t,   \* characters sent by the host that the shell has not read
  t2h    \* characters sent by the shell that the host has not read

LineTypeOK == h2t \in Seq(Char) /\ t2h \in Seq(Char)
=============================================================================
