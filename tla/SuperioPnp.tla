----------------------------- MODULE SuperioPnp -----------------------------
(***************************************************************************)
(* The filter of a SuperIO's configuration ports (superio.lua).  It sees   *)
(* the guest write an index and then data, keeps a copy of what was        *)
(* written and from the copies programs a filter of I/O ports (a bar) for  *)
(* each logical device.  It never asks the chip: that it talks of the same *)
(* register as the chip depends on having seen every step the chip has     *)
(* seen, and the chip sees nothing while it is closed.  The chip is the    *)
(* one of PnpAccess.                                                       *)
(*                                                                         *)
(* The guest may write anything.  There are accesses that the filter does  *)
(* not follow: a word written to the index port, which the chip takes for  *)
(* an index and data, and data for which the chip was not given an index,  *)
(* when it is closed or after the key that opened it, which to the filter  *)
(* is an index.  The properties are about what happens before the first of *)
(* them, or apart from them.                                               *)
(***************************************************************************)
EXTENDS PnpAccess

CONSTANTS
  ChipKind,   \* a key of Kind
  Ldn,        \* logical devices that the guest uses
  Contents,   \* bytes it writes to registers
  Indexes,    \* registers that it writes
  Words       \* words that it writes to the index port

\* A legacy chip has no logical devices.
ASSUME PnpAssumption ==
  /\ ChipKind \in DOMAIN Kind \ {"legacy"}
  /\ Indexes \subseteq Nat

VARIABLES
  selected,    \* f.pnp.reg
  active_ldn,  \* f.pnp.active_ldn
  copy,        \* data[reg] for what is in set[reg], of f.chip and f.ldn
  bar0,        \* where the filter of each device's first window is, or NoBar
  sio,         \* the chip
  addressed,   \* the last write to the index port gave the open chip an index
  astray       \* the chip or the filter has had data that the other has not

pnpVars == <<selected, active_ldn, copy, bar0, sio, addressed, astray>>

NoLdn == 255
NoBar == 65536
PowerReg == 2
ClockReg == \h24
LdnReg == 7

Protected == {PowerReg, ClockReg}
SioRegs == ({Global} \X Protected) \cup (Ldn \X {\h30, \h60, \h61})

\* What firmware writes to the index port: registers, and what opens and
\* closes the chip.
KeyBytes == LET key == Kind[ChipKind].key IN { key[i] : i \in DOMAIN key }
IndexBytes == Indexes \cup KeyBytes \cup Kind[ChipKind].leave

PnpInit ==
  /\ selected = 0 /\ active_ldn = NoLdn
  /\ copy = [k \in {} |-> 0]
  /\ bar0 = [d \in Ldn |-> NoBar]
  /\ \E d \in Ldn, v \in Contents :
       sio = Chip(ChipKind, FALSE, d, [k \in SioRegs |-> v])
  /\ addressed = FALSE /\ astray = FALSE

-----------------------------------------------------------------------------

\* superio_pre, a write to the index port
WriteIndexPort ==
  \E byte \in IndexBytes :
    /\ selected' = byte
    /\ sio' = IndexWritten(sio, byte)
    /\ addressed' = (sio.open /\ sio'.open)
    /\ UNCHANGED <<active_ldn, copy, bar0, astray>>

\* superio_pre, a word written to the index port.  The chip has both its bytes,
\* the filter takes the whole of it for an index.
WriteIndexAndData ==
  \E word \in Words :
    LET indexed == IndexWritten(sio, word % 256)
    IN /\ selected' = word
       /\ sio' = DataWritten(indexed, word \div 256)
       /\ addressed' = FALSE
       /\ astray' = (astray \/ indexed.open)
       /\ UNCHANGED <<active_ldn, copy, bar0>>

\* Faulty variant: only the first device that is selected is noticed.
SwitchOnce(byte) ==
  IF selected = LdnReg /\ active_ldn = NoLdn THEN byte ELSE active_ldn

\* pnp_switch_ldn
SwitchLdn(byte) == IF selected = LdnReg THEN byte ELSE active_ldn

\* f.chip.data or f.ldn[ldn].data
CopyKey(ldn) == <<IF selected < \h30 THEN Global ELSE ldn, selected>>

\* pnp_store_cfg
Store(ldn, byte) ==
  [k \in DOMAIN copy \cup {CopyKey(ldn)} |-> IF k = CopyKey(ldn) THEN byte ELSE copy[k]]

\* superio_try_enable_io for the first window.  The keyboard controller at
\* 0x60 has a filter of its own; a base of 0 disables the filter.
TryEnableIo(cfg, d) ==
  LET base == 256 * cfg[<<d, \h60>>] + cfg[<<d, \h61>>]
  IN IF /\ {<<d, \h30>>, <<d, \h60>>, <<d, \h61>>} \subseteq DOMAIN cfg
        /\ cfg[<<d, \h30>>] # 0
        /\ base # \h60
     THEN [bar0 EXCEPT ![d] = IF base = 0 THEN NoBar ELSE base]
     ELSE bar0

\* Faulty variant: enabling a device does not look at its base.
PostIgnoresEnable(cfg, d) ==
  IF selected \in {\h60, \h61} THEN TryEnableIo(cfg, d) ELSE bar0

\* superio_post
Post(cfg, d) ==
  IF selected \in {\h30, \h60, \h61} THEN TryEnableIo(cfg, d) ELSE bar0

\* Faulty variant: only the oscillator is kept.
DropsClock == selected = ClockReg

\* Don't allow that our SIO power gets disabled, don't mess with the clock.
Drops == selected \in Protected

\* superio_pre and superio_post, a write to the data port.  Before any device
\* has been selected the filter has nowhere to store a device's register.
WriteDataPort(byte) ==
  /\ selected < \h30 \/ active_ldn # NoLdn
  /\ IF selected = LdnReg THEN byte \in Ldn ELSE byte \in Contents
  /\ active_ldn' = SwitchLdn(byte)
  /\ copy' = Store(active_ldn', byte)
  /\ sio' = IF Drops THEN sio ELSE DataWritten(sio, byte)
  /\ bar0' = Post(copy', active_ldn')
  /\ astray' = (astray \/ ~(sio.open /\ addressed))
  /\ UNCHANGED <<selected, addressed>>

PnpNext ==
  \/ WriteIndexPort \/ WriteIndexAndData
  \/ \E byte \in Ldn \cup Contents : WriteDataPort(byte)

PnpSpec == PnpInit /\ [][PnpNext]_pnpVars

-----------------------------------------------------------------------------

\* The script's copy of a register is what the chip has in it, except for the
\* two whose writes are dropped after they were copied.
CopyFollows ==
  ~astray => \A k \in DOMAIN copy \cap DOMAIN sio.regs :
    k[2] \notin Protected => copy[k] = sio.regs[k]

\* Where the filter of a device is set up is where the chip has the device,
\* once the guest has written its base and enabled it.
BarsFollow ==
  ~astray => \A d \in Ldn :
    /\ {d} \X {\h30, \h60, \h61} \subseteq DOMAIN copy
    /\ On(sio, d) /\ BaseOf(sio, d) # \h60
    => bar0[d] = IF BaseOf(sio, d) = 0 THEN NoBar ELSE BaseOf(sio, d)

\* "Don't allow that our SIO power gets disabled": whatever the guest has
\* written before, data for a chip that was given an index by a write of a byte
\* does not change the registers that keep the UART of the shell alive, and no
\* such index does.  Words and data without an index may.
PowerKept ==
  [][addressed' =>
       \A r \in Protected : sio'.regs[<<Global, r>>] = sio.regs[<<Global, r>>]]_pnpVars
=============================================================================
