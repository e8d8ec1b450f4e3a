------------------------------- MODULE PciCfg -------------------------------
(***************************************************************************)
(* The filters of PCI configuration space (pci_cfg.lua), one for the ports *)
(* 0xcf8 to 0xcff and one for the memory-mapped window of PCIe.  Both look *)
(* for writes to registers that have hooks.  A hook wants a byte, a word   *)
(* or the whole register at once; as firmware may write it in pieces, the  *)
(* filters put these together again.  The target carries out the write     *)
(* unless a hook vetoes it.                                                *)
(*                                                                         *)
(* A byte of data is named by the write it comes from and its place there. *)
(***************************************************************************)
EXTENDS Naturals

CONSTANTS
  Reg,        \* 32-bit registers of the configuration space
  None,       \* bdfr_hook = 0: no register with a hook is selected
  Hook,       \* pci_cfg_hooks
  Mixed,      \* does firmware use the ports again after the window?
  MaxWrites   \* bound: the guest makes at most this many writes

Lane  == 0..3
Space == {"io", "mm"}

Lanes(at, size) == at..(at + size - 1)

\* Where an access of this size may start within a register.
Range == { x \in Lane \X {1, 2, 4} : x[1] + x[2] <= 4 }

ASSUME PciAssumption ==
  /\ None \notin Reg
  /\ Hook \subseteq [reg : Reg, range : Range, vetoes : BOOLEAN]
  /\ Mixed \in BOOLEAN /\ MaxWrites \in Nat

Of(h) == Lanes(h.range[1], h.range[2])

\* pci_cfg8_hook: what vetoes writes is the hook of a byte.
ASSUME VetoAssumption == \A h \in Hook : h.vetoes => h.range[2] = 1

VARIABLES
  bdfr,     \* what the ports select, if anything yet
  hooked,   \* f.reg.bdfr_hook of each filter
  data,     \* f.reg.data of each filter
  bv,       \* bytes written to the register selected; shared by the filters
  bar,      \* what each hook was called with last
  moved,    \* firmware has begun to use the window
  writes,   \* the number of writes so far
  cfg,      \* the registers of the target
  last      \* what the guest has written last

script == <<bdfr, hooked, data, bv, bar>>
vars   == <<script, moved, writes, cfg, last>>

Byte  == (0..MaxWrites) \X Lane
Value == [Lane -> Byte]
Blank == [k \in Lane |-> <<0, 0>>]

TypeOK ==
  /\ bdfr \in Reg \cup {None}
  /\ hooked \in [Space -> Reg \cup {None}]
  /\ data \in [Space -> Value]
  /\ bv \subseteq Lane
  /\ DOMAIN bar = Hook /\ \A h \in Hook : bar[h] \in [Of(h) -> Byte]
  /\ moved \in BOOLEAN
  /\ writes \in 0..MaxWrites
  /\ cfg \in [Reg -> Value] /\ last \in [Reg -> Value]

Init ==
  /\ bdfr = None
  /\ hooked = [s \in Space |-> None]
  /\ data = [s \in Space |-> Blank]
  /\ bv = {}
  /\ bar = [h \in Hook |-> [k \in Of(h) |-> Blank[k]]]
  /\ moved = FALSE /\ writes = 0
  /\ cfg = [r \in Reg |-> Blank] /\ last = [r \in Reg |-> Blank]
-----------------------------------------------------------------------------
\* is_pci_cfg_hooked
HookOf(r) == IF \E h \in Hook : h.reg = r THEN r ELSE None

\* Faulty variant: selecting another register keeps bv.
FreshKept(s, r) == bv

\* pci_cfg_select: bv once space s has selected register r.
Fresh(s, r) == IF hooked[s] = r THEN bv ELSE {}

\* Faulty variant: one byte too many counts as written.
CoveredLong(x) == x[1]..(x[1] + x[2])

\* av: the bytes that are written.
Covered(x) == Lanes(x[1], x[2])

\* A register in which some bytes of the next write replace the old ones.
Merge(old, x) ==
  [k \in Lane |-> IF k \in Lanes(x[1], x[2]) THEN <<writes + 1, k - x[1]>> ELSE old[k]]

\* Faulty variant: only hooks of the very range that is written are called.
CalledExactly(r, x, known) == { h \in Hook : h.reg = r /\ h.range = x }

\* The hooks called for a write: all their bytes are known, one is new.
Called(r, x, known) ==
  { h \in Hook : h.reg = r /\ Of(h) \subseteq known /\ Of(h) \cap Covered(x) # {} }

\* Faulty variant: the hooks of words and bytes get the lowest bytes.
SliceUnshifted(v, h) == [k \in Of(h) |-> v[k - h.range[1]]]

\* The data for a hook, shifted and masked.
Slice(v, h) == [k \in Of(h) |-> v[k]]

\* Faulty variant: a hook can only veto a write of its own range.
VetoedAlone(called, x) == \E h \in called : h.vetoes /\ h.range = x

\* call_pci_cfg_hook: what one hook drops is dropped as a whole.
Vetoed(called, x) == \E h \in called : h.vetoes

\* pci_cfg_access, and the target
Access(s, r, x, fresh) ==
  LET known  == fresh \cup Covered(x)
      called == Called(r, x, known)
  IN  /\ writes < MaxWrites /\ writes' = writes + 1
      /\ IF HookOf(r) = None
         THEN data' = data /\ bv' = fresh
         ELSE data' = [data EXCEPT ![s] = Merge(@, x)] /\ bv' = known
      /\ bar' = [h \in Hook |-> IF h \in called THEN Slice(data'[s], h) ELSE bar[h]]
      /\ cfg' = IF Vetoed(called, x) THEN cfg ELSE [cfg EXCEPT ![r] = Merge(@, x)]
      /\ last' = [last EXCEPT ![r] = Merge(@, x)]
-----------------------------------------------------------------------------
Ports == Mixed \/ ~moved

\* pci_io_cfg_pre, a write to 0xcf8
Select(r) ==
  /\ Ports
  /\ bdfr' = r
  /\ hooked' = [hooked EXCEPT !["io"] = HookOf(r)]
  /\ bv' = Fresh("io", r)
  /\ UNCHANGED <<data, bar, moved, writes, cfg, last>>

\* pci_io_cfg_pre, a write to 0xcfc .. 0xcff
WriteData(x) ==
  /\ Ports /\ bdfr # None
  /\ Access("io", bdfr, x, bv)
  /\ UNCHANGED <<bdfr, hooked, moved>>

\* pci_mm_cfg_pre, a read
ReadWindow(r) ==
  /\ moved' = TRUE
  /\ hooked' = [hooked EXCEPT !["mm"] = HookOf(r)]
  /\ bv' = Fresh("mm", r)
  /\ UNCHANGED <<bdfr, data, bar, writes, cfg, last>>

\* pci_mm_cfg_pre, a write
WriteWindow(r, x) ==
  /\ moved' = TRUE
  /\ Access("mm", r, x, Fresh("mm", r))
  /\ hooked' = [hooked EXCEPT !["mm"] = HookOf(r)]
  /\ UNCHANGED bdfr

Next ==
  \/ \E r \in Reg : Select(r) \/ ReadWindow(r)
  \/ \E x \in Range : WriteData(x) \/ \E r \in Reg : WriteWindow(r, x)

Spec == Init /\ [][Next]_vars
-----------------------------------------------------------------------------
(***************************************************************************)
(* Properties.                                                             *)
(***************************************************************************)

\* pci_cfg.lua, 129: "This synthesizes 32/16 bit wide access from separate
\* 16/8 bit accesses".  A hook is called with what the guest has written to
\* its register, and nothing else.
HookSeesWritten ==
  [][\A h \in Hook : bar'[h] # bar[h] => bar'[h] = Slice(last'[h.reg], h)]_vars

\* The space that firmware uses.
Current == IF moved THEN "mm" ELSE "io"

\* No register has both a protected byte and a BAR.
Apart == \A h, g \in Hook : h.vetoes /\ ~g.vetoes => h.reg # g.reg

\* Once the guest has written all of a register, in whatever pieces, the hook
\* has been called with what is in the target now, and no older value.
BarFollows ==
  \A h \in Hook : hooked[Current] = h.reg /\ Of(h) \subseteq bv /\ ~h.vetoes =>
    bar[h] = Slice(cfg[h.reg], h)

\* lpc_protect_serial_port: no write, of whatever width and through whichever
\* space, changes a byte of the target that a hook protects.
ProtectHolds ==
  [][\A h \in Hook : h.vetoes => Slice(cfg'[h.reg], h) = Slice(cfg[h.reg], h)]_vars
=============================================================================
