----------------------------- MODULE MCScripts ------------------------------
(***************************************************************************)
(* The filters that keep state of their own: PCI configuration (PciCfg),   *)
(* SuperIO configuration (SuperioPnp), NVRAM (NvramCache) and SMBus        *)
(* (SmbusHost).  They share no state and no port, so each behaviour is one *)
(* of one filter; `part' says which, and the others stay as they start.    *)
(* That of the SuperIO ends with the first access that leads it astray,    *)
(* and writes no more than MaxCopies registers before it: four place and   *)
(* enable one device.                                                      *)
(***************************************************************************)
EXTENDS PciCfg, SuperioPnp, NvramCache, SmbusHost, FiniteSets

CONSTANT MaxCopies

VARIABLE part

PciKey(reg, at, size, vetoes) == [reg |-> reg, range |-> <<at, size>>, vetoes |-> vetoes]

\* Of one register two bytes are protected, as by enable_hook_i82801fx; on the
\* other there is a BAR of a word and one of the whole register.
MCHooks == { PciKey("LPC", 0, 1, TRUE), PciKey("LPC", 2, 1, TRUE),
             PciKey("BAR", 0, 2, FALSE), PciKey("BAR", 0, 4, FALSE) }

\* What BarCorrect assumes holds of them.
ASSUME PciApart == Apart

\* One of the initial states of a filter that stays as it is.
PnpStill == sio = Chip(ChipKind, FALSE, 4, [k \in SioRegs |-> 0])
NvramStill == ~caching /\ indexThere = index /\ cells = [c \in Cells |-> 0]
SmbusStill == ctrl.slave[1] = "eeprom" /\ ctrl.data0 = 0

MCInit ==
  /\ part \in {"pci", "superio", "nvram", "smbus"}
  /\ Init /\ PnpInit /\ NvramInit /\ SmbusInit
  /\ part = "superio" \/ PnpStill
  /\ part = "nvram" \/ NvramStill
  /\ part = "smbus" \/ SmbusStill

MCNext ==
  /\ UNCHANGED part
  /\ \/ part = "pci" /\ Next /\ UNCHANGED <<pnpVars, nvramVars, smbusVars>>
     \/ /\ part = "superio" /\ ~astray /\ PnpNext
        /\ Cardinality(DOMAIN copy') <= MaxCopies
        /\ UNCHANGED <<vars, nvramVars, smbusVars>>
     \/ part = "nvram" /\ NvramNext /\ UNCHANGED <<vars, pnpVars, smbusVars>>
     \/ part = "smbus" /\ SmbusNext /\ UNCHANGED <<vars, pnpVars, nvramVars>>

MCSpec == MCInit /\ [][MCNext]_<<part, vars, pnpVars, nvramVars, smbusVars>>
=============================================================================
