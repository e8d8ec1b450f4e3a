------------------------------ MODULE StartUp ------------------------------
(***************************************************************************)
(* main calls chipset_init before the shell says anything.  If it fails,   *)
(* nothing is there to tell: the line stays silent.  This module runs the  *)
(* steps of one board's chipset_init on its chips.  What the chips hold is *)
(* what reset or whatever ran before left in them: open or closed, any     *)
(* device selected, the UARTs on or off and anywhere.                      *)
(***************************************************************************)
EXTENDS Boards

CONSTANTS
  Supported   \* the boards of the instance, as records (see Board)

VARIABLES
  board,      \* the board that starts
  todo,       \* the steps of its chipset_init that are still to be made
  chips,      \* its SuperIOs, by index port
  window,     \* windows of the chipset: base, or Closed
  decoded,    \* configuration ports that reach the SuperIOs
  settled,    \* the hardware a poll waits for is ready
  lost        \* an access went nowhere

startVars == <<board, todo, chips, window, decoded, settled, lost>>

Closed == 65536
Windows == {"acpi", "rcba", "sbmmio", "p2sb", "tco", "lpss", "gpio", "uart"}

\* A board: its steps, where the shell expects the UART, the kind of chip at
\* each index port with the devices that matter, whether the LPC decode is the
\* board's business, and whether it relies on registers' reset values.
Board(steps, serial, superios, decodes, byDefault) ==
  [steps |-> steps, serial |-> serial, superios |-> superios,
   decodes |-> decodes, byDefault |-> byDefault]

SuperIO(port, kind, devices) == [port |-> port, kind |-> kind, devices |-> devices]

DeviceRegs == {\h30, \h60, \h61}

Registers(s) ==
  IF s.kind = "legacy" THEN {<<Global, 2>>, <<Global, \h24>>} ELSE s.devices \X DeviceRegs

\* A register as it was left: any device on or off, at 0x3f8, at 0x2f8 or half
\* moved between them.
LeftOver(s, on, hi) ==
  [r \in Registers(s) |->
     IF r[2] = \h30 THEN on ELSE IF r[2] = \h60 THEN hi ELSE IF r[2] = \h61 THEN \hf8 ELSE 0]

\* After reset all are off, the first device at 0x3f8, the second at 0x2f8.
ByReset(s) ==
  [r \in Registers(s) |->
     IF r[2] = \h30 THEN 0 ELSE IF r[2] = \h60 THEN (IF r[1] = 1 THEN 3 ELSE 2) ELSE \hf8]

PortsOf(b) == { s.port : s \in b.superios }
SuperIOAt(b, p) == CHOOSE s \in b.superios : s.port = p

StartInit ==
  /\ board \in Supported
  /\ todo = board.steps
  /\ \E open \in BOOLEAN, ldn \in {0, 2, 7}, on \in {0, 1}, hi \in {2, 3} :
       chips = [p \in PortsOf(board) |->
                  LET s == SuperIOAt(board, p)
                  IN Chip(s.kind, open \/ s.kind = "open", ldn,
                          IF board.byDefault THEN ByReset(s) ELSE LeftOver(s, on, hi))]
  /\ window = [w \in Windows |-> Closed]
  /\ decoded = IF board.decodes THEN {} ELSE PortsOf(board)
  /\ settled = FALSE
  /\ lost = FALSE

-----------------------------------------------------------------------------

Now == Head(todo)
Done == todo = <<>>

Makes(op) == ~Done /\ Now.op = op /\ todo' = Tail(todo) /\ UNCHANGED board

\* outb to an index port.  Nothing answers where nothing is decoded.
WriteIndex ==
  /\ Makes("index")
  /\ IF Now.port \in decoded
     THEN chips' = [chips EXCEPT ![Now.port] = IndexWritten(@, Now.val)]
     ELSE UNCHANGED chips
  /\ lost' = (lost \/ Now.port \notin decoded)
  /\ UNCHANGED <<window, decoded, settled>>

\* outb to a data port: obeyed by a chip that is open.
WriteData ==
  /\ Makes("data")
  /\ IF Now.port \in decoded
     THEN chips' = [chips EXCEPT ![Now.port] = DataWritten(@, Now.val)]
     ELSE UNCHANGED chips
  /\ lost' = (lost \/ Now.port \notin decoded \/ ~chips[Now.port].open)
  /\ UNCHANGED <<window, decoded, settled>>

Forwarded(bits) ==
  (IF bits % 2 = 1 THEN {\h2e} ELSE {}) \cup (IF bits \div 2 = 1 THEN {\h4e} ELSE {})

\* The ports that are none of the board's SuperIOs are of no interest.
DecodePorts ==
  /\ Makes("decode")
  /\ decoded' = { p \in PortsOf(board) : p \in Forwarded(Now.val) }
  /\ UNCHANGED <<chips, window, settled, lost>>

MapWindow ==
  /\ \/ Makes("map") /\ window' = [window EXCEPT ![Now.window] = Now.val]
     \/ Makes("unmap") /\ window' = [window EXCEPT ![Now.window] = Closed]
  /\ UNCHANGED <<chips, decoded, settled, lost>>

\* An address belongs to a window of 128 bytes of the chipset, or to a device
\* of a chip that is on.
Answers(w, addr) ==
  IF w = "device"
  THEN \E p \in DOMAIN chips : \E d \in Devices(chips[p]) :
         On(chips[p], d) /\ addr \in BaseOf(chips[p], d)..(BaseOf(chips[p], d) + 127)
  ELSE window[w] # Closed /\ addr \in window[w]..(window[w] + 127)

UseWindow ==
  /\ Makes("use")
  /\ lost' = (lost \/ ~Answers(Now.window, Now.port))
  /\ UNCHANGED <<chips, window, decoded, settled>>

\* A poll ends when the hardware is ready.
WaitOver ==
  /\ settled
  /\ Makes("wait")
  /\ UNCHANGED <<chips, window, decoded, settled, lost>>

\* Clocks settle and a BMC gets ready at a time of their own.
Settle ==
  /\ ~settled
  /\ settled' = TRUE
  /\ UNCHANGED <<board, todo, chips, window, decoded, lost>>

chipset_init ==
  WriteIndex \/ WriteData \/ DecodePorts \/ MapWindow \/ UseWindow \/ WaitOver

StartNext == chipset_init \/ Settle

StartSpec == StartInit /\ [][StartNext]_startVars

-----------------------------------------------------------------------------

\* When chipset_init is over the UART that serial_init is going to program is
\* enabled at its address, and no chip is left in its configuration mode, in
\* which the first access of the firmware to these ports would change it:
\* whatever the chips held and whether or not they were open before.
LineUp ==
  Done =>
    /\ \/ \E p \in DOMAIN chips : UartAt(chips[p], board.serial)
       \/ window["lpss"] # Closed
       \/ window["uart"] = board.serial
    /\ \A p \in DOMAIN chips : chips[p].open => chips[p].kind = "open"

\* Every access reaches something: a SuperIO is programmed after the chipset
\* forwards its port and while it is open, a window of registers is used
\* after it was put there.
NothingStray == ~lost

\* A device is moved only while it is off: between the two bytes of its base
\* it would answer at an address of neither.
MovesOff ==
  [][\A p \in DOMAIN chips : \A d \in Devices(chips[p]) :
       BaseOf(chips[p], d)' # BaseOf(chips[p], d) => ~On(chips[p], d)]_startVars
=============================================================================
