----------------------------- MODULE PnpAccess -----------------------------
(***************************************************************************)
(* What start-up code is made of: the accesses of chipset.c by which a     *)
(* board's chipset_init reaches its SuperIO and its chipset, written as    *)
(* sequences of steps, and the chips at the other end of them.             *)
(*                                                                         *)
(* A SuperIO is reached through an index port and the data port behind it. *)
(* It obeys only in its configuration mode, which a sequence of bytes      *)
(* written to the index port opens; its registers from 0x30 on exist once  *)
(* for each logical device, the one register 7 selects.                    *)
(***************************************************************************)
EXTENDS Naturals, Sequences

Step(op, port, window, val) == [op |-> op, port |-> port, window |-> window, val |-> val]

\* outb to an index port and to the data port behind it
Index(port, byte) == Step("index", port, "none", byte)
Data(port, byte) == Step("data", port, "none", byte)

\* Configuration writes that decide what the chipset forwards: whether 0x2e
\* (bit 0) and 0x4e (bit 1) reach a SuperIO, a window of other registers, and
\* accesses to such a window.
Decode(bits) == Step("decode", 0, "none", bits)
Map(window, base) == Step("map", 0, window, base)
Unmap(window) == Step("unmap", 0, window, 0)
Use(window, addr) == Step("use", addr, window, 0)

\* A poll for the hardware that has no bound.
Wait == Step("wait", 0, "none", 0)

-----------------------------------------------------------------------------
(* chipset.c: the accesses                                                 *)

pnp_write_register(port, reg, value) == <<Index(port, reg), Data(port, value)>>
pnp_set_logical_device(port, device) == pnp_write_register(port, 7, device)
pnp_set_enable(port, enable) == pnp_write_register(port, \h30, enable)

pnp_set_iobase0(port, iobase) ==
  pnp_write_register(port, \h60, iobase \div 256)
    \o pnp_write_register(port, \h61, iobase % 256)

pnp_set_iobase1(port, iobase) ==
  pnp_write_register(port, \h62, iobase \div 256)
    \o pnp_write_register(port, \h63, iobase % 256)

pnp_set_irq0(port, irq) == pnp_write_register(port, \h70, irq)

pnp_enter_ext_func_mode(port) == <<Index(port, \h87), Index(port, \h87)>>
pnp_enter_ext_func_mode_alt(port) == <<Index(port, \h55)>>

pnp_enter_ext_func_mode_ite(port) ==
  <<Index(port, \h87), Index(port, 1), Index(port, \h55),
    Index(port, IF port = \h2e THEN \h55 ELSE \haa)>>

pnp_exit_ext_func_mode(port) == <<Index(port, \haa)>>

pnp_exit_ext_func_mode_ite(port) ==
  pnp_set_logical_device(port, 0) \o pnp_write_register(port, 2, 2)

-----------------------------------------------------------------------------
(* The chips                                                               *)

\* Registers below 0x30 do not belong to a logical device.
Global == 255

\* A chip obeys data writes while it is open.  `progress' is how much of its
\* key it has seen.
Chip(kind, open, ldn, regs) ==
  [kind |-> kind, open |-> open, progress |-> <<>>, index |-> 0, ldn |-> ldn,
   regs |-> regs]

\* An isapnp chip is opened by four bytes written to the ISA PnP port, then 32
\* written to its own; each of the two stands for a step.
IsaPnpKey == 256
InitValues == 257

\* What opens a chip of this kind and what, written to its index port, closes
\* it.  `open' never closes; an ite closes through its register 2.
Kind ==
  [winbond |-> [key |-> <<\h87, \h87>>, leave |-> {\haa}],
   smsc |-> [key |-> <<\h55>>, leave |-> {\haa}],
   legacy |-> [key |-> <<\h55>>, leave |-> {\haa}],
   ite |-> [key |-> <<\h87, 1, \h55, \h55>>, leave |-> {}],
   aspeed |-> [key |-> <<\ha5, \ha5>>, leave |-> {\haa}],
   serverworks |-> [key |-> <<\h5a>>, leave |-> {\ha5}],
   isapnp |-> [key |-> <<IsaPnpKey, InitValues>>, leave |-> {}],
   open |-> [key |-> <<>>, leave |-> {}]]

\* The longest part of a key that what was written may be the start of.
Progress(key, written) ==
  LET n == Len(written)
  IN IF SubSeq(key, 1, n) = written THEN written
     ELSE IF Len(key) > 0 /\ <<written[n]>> = SubSeq(key, 1, 1) THEN <<written[n]>>
     ELSE <<>>

IndexWritten(chip, byte) ==
  LET kind == Kind[chip.kind]
      seen == Progress(kind.key, Append(chip.progress, byte))
  IN IF chip.open
     THEN IF byte \in kind.leave THEN [chip EXCEPT !.open = FALSE]
          ELSE [chip EXCEPT !.index = byte]
     ELSE IF seen = kind.key THEN [chip EXCEPT !.open = TRUE, !.progress = <<>>]
          ELSE [chip EXCEPT !.progress = seen]

\* The register that a data write reaches.
Target(chip) ==
  <<IF chip.kind = "legacy" \/ chip.index < \h30 THEN Global ELSE chip.ldn, chip.index>>

Closes(chip, byte) ==
  \/ chip.kind = "ite" /\ chip.index = 2 /\ byte = 2
  \/ chip.kind = "isapnp" /\ chip.index = \h20 /\ byte = \h20

DataWritten(chip, byte) ==
  IF ~chip.open THEN chip
  ELSE IF chip.kind # "legacy" /\ chip.index = 7 THEN [chip EXCEPT !.ldn = byte]
  ELSE IF Closes(chip, byte) THEN [chip EXCEPT !.open = FALSE]
  ELSE IF Target(chip) \in DOMAIN chip.regs
       THEN [chip EXCEPT !.regs[Target(chip)] = byte]
       ELSE chip

-----------------------------------------------------------------------------
(* What a chip's registers amount to                                       *)

Devices(chip) == { r[1] : r \in DOMAIN chip.regs } \ {Global}

BaseOf(chip, d) == 256 * chip.regs[<<d, \h60>>] + chip.regs[<<d, \h61>>]
On(chip, d) == chip.regs[<<d, \h30>>] # 0

\* An enabled UART at that address.  A legacy chip has bases divided by 4 in
\* fixed registers and the power of its first UART in bit 3 of register 2.
UartAt(chip, base) ==
  IF chip.kind = "legacy"
  THEN /\ 4 * chip.regs[<<Global, \h24>>] = base
       /\ (chip.regs[<<Global, 2>>] \div 8) % 2 = 1
  ELSE \E d \in Devices(chip) : On(chip, d) /\ BaseOf(chip, d) = base
=============================================================================
