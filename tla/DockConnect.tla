---------------------------- MODULE DockConnect ----------------------------
(***************************************************************************)
(* chipset_init of the Lenovo X60.  Its serial port is in the dock, behind *)
(* a switch on the LPC bus that the laptop's own chip, the DLPC, controls: *)
(* the clock of the DLPC, the switch and the clock of the dock's SuperIO   *)
(* have to come up one after the other.  Each may take its time or never   *)
(* come, and each is polled with a counter.  A port at which nothing       *)
(* answers reads as ones.                                                  *)
(***************************************************************************)
EXTENDS Integers

CONSTANTS
  Patience    \* how often a poll looks before it gives up: 1000 or 100000

ASSUME PatienceAssumption == Patience \in Nat \ {0}

VARIABLES
  at,         \* where chipset_init is
  timeout,    \* the counter of the poll that is under way
  saw,        \* how the last poll of each kind ended: what its counter was
  present,    \* the laptop is in a dock
  clocked,    \* clocks that have settled
  dlpc,       \* the DLPC's registers answer at 0x164c
  switch,     \* state of the switch: off, asked for, through
  com1        \* the dock's UART: its enable bit and whether its base is set

dockVars == <<at, timeout, saw, present, clocked, dlpc, switch, com1>>

Poll == {"dlpc_clock", "switch", "dock_clock", "sio_clock"}
Places == Poll \cup {"dlpc_init", "present", "dock_connect", "early_superio_config", "shell"}
Unpolled == Patience + 1

DockInit ==
  /\ at = "dlpc_init"
  /\ timeout = Patience
  /\ saw = [p \in Poll |-> Unpolled]
  /\ present \in BOOLEAN
  /\ clocked = {}
  /\ dlpc = FALSE
  /\ switch = "off"
  /\ com1 = [on |-> FALSE, base |-> FALSE]

-----------------------------------------------------------------------------
(* The hardware                                                            *)

\* What the dock's SuperIO holds is reached only through the switch.
Dock == switch = "through"

ClockSettles ==
  /\ \/ "dlpc" \notin clocked /\ clocked' = clocked \cup {"dlpc"}
     \/ Dock /\ "dock" \notin clocked /\ clocked' = clocked \cup {"dock"}
  /\ UNCHANGED <<at, timeout, saw, present, dlpc, switch, com1>>

SwitchCloses ==
  /\ switch = "asked" /\ present
  /\ switch' = "through"
  /\ UNCHANGED <<at, timeout, saw, present, clocked, dlpc, com1>>

\* The bit that a poll waits for.
Ready(p) ==
  CASE p = "dlpc_clock" -> "dlpc" \in clocked
    [] p = "switch" -> dlpc => switch = "through"
    [] p \in {"dock_clock", "sio_clock"} -> Dock => "dock" \in clocked

-----------------------------------------------------------------------------
(* while (!ready && timeout--) udelay(1000);                               *)

\* Faulty variants: the counter is not decremented; it is not tested.
LookForever(p) ==
  /\ at = p /\ ~Ready(p) /\ timeout > 0
  /\ UNCHANGED <<at, timeout, saw, present, clocked, dlpc, switch, com1>>

LookPastZero(p) ==
  /\ at = p /\ ~Ready(p)
  /\ timeout' = timeout - 1
  /\ UNCHANGED <<at, saw, present, clocked, dlpc, switch, com1>>

Look(p) ==
  /\ at = p /\ ~Ready(p) /\ timeout > 0
  /\ timeout' = timeout - 1
  /\ UNCHANGED <<at, saw, present, clocked, dlpc, switch, com1>>

\* The counter as the loop leaves it: the post-decrement of the last look
\* takes it past 0.
Left(p) == IF Ready(p) THEN timeout ELSE timeout - 1

PollEnds(p) == at = p /\ (Ready(p) \/ timeout = 0)

\* Faulty variant: if (timeout)
SeenInverted(left) == left # 0

\* if (!timeout)
SeenAsFailed(left) == left = 0

Ended(p, next) ==
  /\ PollEnds(p)
  /\ saw' = [saw EXCEPT ![p] = Left(p)]
  /\ at' = next
  /\ timeout' = Patience

\* dlpc_init: the write to register 0x29 starts the clock.
StartDlpcClock ==
  /\ at = "dlpc_init"
  /\ at' = "dlpc_clock"
  /\ UNCHANGED <<timeout, saw, present, clocked, dlpc, switch, com1>>

\* The DLPC is given its base and enabled, unless the poll is taken to have
\* failed; what it answers is ignored by a chip without a clock.
DlpcInit ==
  /\ Ended("dlpc_clock", "present")
  /\ dlpc' = (~SeenAsFailed(Left("dlpc_clock")) /\ "dlpc" \in clocked)
  /\ UNCHANGED <<present, clocked, switch, com1>>

\* superio_init: dock_present shifts a byte by 13 bits, so it always tells of a
\* dock; outb(0x07, 0x164c) asks for the switch.
DockPresent ==
  /\ at = "present"
  /\ at' = "switch"
  /\ switch' = IF dlpc THEN "asked" ELSE switch
  /\ UNCHANGED <<timeout, saw, present, clocked, dlpc, com1>>

\* If the poll is taken to have failed the switch is disabled again.  One that
\* gave up ends at -1 and is taken to have succeeded.
SwitchPolled ==
  /\ PollEnds("switch")
  /\ IF SeenAsFailed(Left("switch"))
     THEN /\ Ended("switch", "early_superio_config")
          /\ switch' = "off" /\ dlpc' = FALSE
     ELSE Ended("switch", "dock_clock") /\ UNCHANGED <<switch, dlpc>>
  /\ UNCHANGED <<present, clocked, com1>>

\* GPIOs, then logical device 3, the UART, is enabled.
DockClockPolled ==
  /\ PollEnds("dock_clock")
  /\ Ended("dock_clock", "early_superio_config")
  /\ com1' = IF Dock /\ ~SeenAsFailed(Left("dock_clock"))
             THEN [com1 EXCEPT !.on = TRUE] ELSE com1
  /\ UNCHANGED <<present, clocked, dlpc, switch>>

StartSioClock ==
  /\ at = "early_superio_config"
  /\ at' = "sio_clock"
  /\ UNCHANGED <<timeout, saw, present, clocked, dlpc, switch, com1>>

\* How the last poll ended is not asked.  The base is written to the UART; the
\* enable bit goes to port 0x2e03, as a device is passed where pnp_set_enable
\* takes a port, and so nowhere.
EarlySuperioConfig ==
  /\ Ended("sio_clock", "shell")
  /\ com1' = IF Dock THEN [com1 EXCEPT !.base = TRUE] ELSE com1
  /\ UNCHANGED <<present, clocked, dlpc, switch>>

x60_chipset_init ==
  \/ StartDlpcClock \/ DlpcInit \/ DockPresent \/ SwitchPolled
  \/ DockClockPolled \/ StartSioClock \/ EarlySuperioConfig
  \/ \E p \in Poll : Look(p)

DockNext == x60_chipset_init \/ ClockSettles \/ SwitchCloses

\* Nothing is assumed of the hardware: it may never be ready.
DockFairness == WF_dockVars(x60_chipset_init)
DockSpec == DockInit /\ [][DockNext]_dockVars /\ DockFairness

-----------------------------------------------------------------------------

DockTypeOK ==
  /\ at \in Places
  /\ timeout \in 0..Patience
  /\ saw \in [Poll -> -1..Unpolled]
  /\ present \in BOOLEAN /\ dlpc \in BOOLEAN
  /\ clocked \subseteq {"dlpc", "dock"}
  /\ switch \in {"off", "asked", "through"}
  /\ com1 \in [on : BOOLEAN, base : BOOLEAN]

\* The polls that decide anything were neither given up nor won by their very
\* last look, which the code takes for each other.
ClearlyReady == \A p \in Poll \ {"sio_clock"} : saw[p] \notin {-1, 0}

\* If the laptop is docked and the hardware is ready in time the shell finds
\* its line: the switch is through and the dock's UART is on at its base.
DockedInTime == at = "shell" /\ present /\ ClearlyReady => Dock /\ com1.on /\ com1.base

\* However long the hardware takes, chipset_init comes to an end.
DockEnds == <>(at = "shell")
=============================================================================
