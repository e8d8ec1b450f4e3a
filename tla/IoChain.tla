------------------------------ MODULE IoChain -------------------------------
(***************************************************************************)
(* The chain with the filters of I/O ports that mainboard_io_pre, the      *)
(* chipset and the devices register.                                       *)
(***************************************************************************)
EXTENDS HookChain, IoFilters

\* These filters, with the SMBus controller away from the two ports that have
\* a guard; the other BARs may go anywhere.
IoInstance ==
  /\ Port = IoPort /\ Filter = IoFilter /\ Bar = IoBar /\ Fixed = IoFixed
  /\ Setup = IoSetup /\ PreDoes = IoPreDoes
  /\ Windows["smbus"] \cap {"com", "dock"} = {}

\* com_pre drops every access to the UART that carries the protocol and the
\* X61's script every write to the port that disconnects it; whatever BAR the
\* guest moves over these ports does not get in the way.
UartShielded ==
  phase = "post" /\ (act.addr = "com" \/ (act.write /\ act.addr = "dock")) => reached = {}
=============================================================================
