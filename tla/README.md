# SerialICE in TLA+

SerialICE runs the firmware of a mainboard in QEMU while its accesses to
hardware are made on a real board of that type, the *target*.  A small shell in
the target's flash obeys commands that come over a serial line; a driver that a
patch adds to QEMU sends them; Lua scripts decide for every access whether it
goes to the target, to QEMU, to both or to nobody, and write a log of it.

This directory specifies that system in TLA+.  TLC checks the specifications on
small instances, TLAPS proves the most important properties for all instances.
`src/...` below is the repository; `P` stands for
`src/SerialICE/patches/serialice-qemu-0.15.0.diff`, the only place where the
QEMU side is kept.

1. [The system](#1-the-system)
2. [Modules](#2-modules)
3. [Runs](#3-runs)
4. [Fairness](#4-fairness)
5. [Proofs](#5-proofs)
6. [Where code and documentation disagree](#6-where-code-and-documentation-disagree)
7. [Limits of the models](#7-limits-of-the-models)
8. [Plan](#8-plan)

## 1. The system

```
 firmware in QEMU ── softmmu, in/out, rdmsr, cpuid helpers     (P: exec.c, op_helper.c)
        │                  │  asks / logs
        │                  ▼
        │           Lua filters: hooks.lua, interface.lua, one chain per
        │           address space; chipset/ and mainboard/ scripts
        ▼
 driver serialice.c in QEMU (P)  ══ serial line ══  shell serialice.c + serial.c
                                                    on the target ── its hardware
```

| component | state it keeps | operations | what is hard about it | what makes it correct |
|---|---|---|---|---|
| shell (`serialice.c`, `serial.c`) | what it has read since the last prompt | one command per loop: memory, I/O, MSR, cpuid, version, board | no flow control; errors are reported but the command goes on with zero | performs exactly what was sent, then prompts |
| driver (`P`: `serialice.c`) | station of the handshake, command under way | open, handshake, one command per access, killed at any time | every read waits for ever; echoes that differ are only warned about | stays in step with the shell; answers each access |
| access helpers in QEMU (`P`) | softmmu's TLB, registered RAM | load, store, in, out, rdmsr, wrmsr, cpuid | RAM pages are accessed without asking the filters | filters and pages agree on who keeps which data |
| filter chain (`hooks.lua`, `interface.lua`) | list of hooks, their bases, one action record per space | enable, disable, pre walk, verdict, post walk | the list changes while it is walked; a pre function may decide and not claim | protected devices are never reached; no access is lost |
| memory (`memory.lua`, `mmio.lua`) | which filters are enabled | ROM, cache as RAM, RAM, VGA and SMM window, LAPIC | RAM moves from the target to QEMU while the firmware runs | a read finds what was written last |
| PCI configuration (`pci_cfg.lua`, `*_bars.lua`) | selected register, bytes gathered, copies of BARs | port pair 0xcf8/0xcfc, PCIe window | wide writes in narrow pieces, two filters that share a table | a BAR's filter is where the target's BAR is; protected bytes stay |
| SuperIO (`superio.lua`) | selected register and device, copies of registers, one filter per device | index and data ports | the script never asks the chip: index, device and open or closed must be guessed right | copies and filters equal what is in the chip |
| NVRAM (`pc80.lua`) | index registers, table | three pairs of index and data ports | the index may stay in the script while data goes to the target | script and target together are one NVRAM |
| timer, keyboard controller, reset (`pc80.lua`) | latches, A20 | ports 0x40–0x64, 0xcf9 | latches of two bytes | |
| SMBus (`smbus_host.lua`, `intel_smbus.lua`) | a machine that guesses where the transaction is, its registers | host controller's registers | start, abort, failure and acknowledgement in any order; a transaction is logged when the next is prepared | the log has each transaction once, with its own data |
| CPU (`cpu.lua`) | none | rewrites results of MSR and cpuid | | |
| replay (`replay.lua`) | none of its own | runs the filters on a log | results must be those of the live run | |
| `xmmstack.c` | none; the code it makes keeps a stack in SSE or MMX registers | translates each instruction that uses the stack | three debug registers save everything and are used inside each other; jumps into tables | translated code does what the instructions say |
| chipset and board start-up (`chipset.c`, `mainboard/*.c`, `southbridge/`, `superio/`) | what it leaves in chipset and SuperIO | register writes before the shell may speak | order of decode, configuration mode, device and base; polls with and without a bound | the UART is on at its address; start-up ends |
| output (`output.lua`), romcc, Kconfig, makefiles | | | | not about the protocol |

The parts meet in few places.  The firmware runs on QEMU's one virtual CPU, so
helpers, scripts and driver run one after the other; an access is over when the
driver returns, and the scripts see it twice, before (`*_filter`) and after
(`*_log`).  Concurrency is between host and target: the driver returns from a
write when its last character was echoed, before the shell has performed it, and
the target may be switched on, or reset, and QEMU killed at any moment.  Inside
the scripts the hard part is that a filter called in a walk may change the list
being walked.

`PROJECT.json` lists each component with its files, and under *hazards* the
places where the code can go wrong in a way that a test would hardly reach, with
the properties that watch them.

## 2. Modules

### Serial link

| module | models | state ↔ code |
|---|---|---|
| `Wire` | layout of commands, replies, prompt, start-up text | constants only; `Command` is the `sprintf` of each driver function |
| `SerialLine` | the two directions of the cable with their buffers | `h2t`, `t2h` |
| `SerialShell` | `main` of `serialice.c` with the parsers of `serial.c` | `line`: characters read since the last prompt, which is all the state of the parser; `done`: accesses performed |
| `SerialHost` | the driver in QEMU | `stage`: station of `serialice_init`; `step`: position in `serialice_command`; `sent`: characters written; `issued`, `log`: accesses begun and returned |
| `SerialLink` | both on one line; reset, kill and restart | one action is one character, or one blocking read, of one side |
| `RemoteAccess` | abstract: the firmware's accesses happen on the target once each, in order, and reads return what they produced; writes are posted | `issued`, `done`, `log` |
| `SerialShellProofs`, `SerialLinkProofs`, `LinkFaultProofs` | theorems: the shell by itself, the undisturbed link, the link with starts and kills | |

Actions are cut where the other side can notice: `Recv` is one `serial_getc`
with its echo; when the last character a command needs has been read, one action
(`BusRead`, `BusWrite`, `CpuRead`, `WriteMsr`, …) performs the access and prints
reply and prompt.  The driver's blocking reads are enabled when enough
characters are there, as the code retries a read until it is complete.

A number in a command or a reply is one character.  How many digits it has
changes only how long a field takes; what matters is which of two texts is
longer (replies against the start-up text, the board name against its fixed
length of 32), and this is kept.  What is not a digit counts as 0 on both sides
(`Nibble`), as in `serial_get_nibble` and `strtoul`.

### Filters

| module | models | state ↔ code |
|---|---|---|
| `HookChain` | `hooks.lua` and `interface.lua` for one address space, for any set of filters | `chain`, `enabled`, `base`: the list, `hook.enable`, `hook.base`; `act`: `io_action`/`mem_action`; `l`: the walk's cursor; `todo`: calls of `enable_hook` that set-up or `enable_ram` still makes |
| `IoFilters` | what each filter of I/O ports may decide, and the set-up of the Lenovo X61 | table `IoPreDoes`, from the pre functions in `core_io.lua`, `chipset/`, `mainboard/lenovo_x61.lua`; `IoSetup`: the calls of `do_default_setup` and `do_mainboard_setup` |
| `IoChain` | the chain with the filters of I/O ports; `IoInstance` says which they are | |
| `MemFilters` | the same for memory | from `memory.lua`, `mmio.lua`, `mainboard/acer_es1_572.lua` |
| `MemoryRouting` | `HookChain` for memory, with QEMU's registered pages and softmmu | `registered`; `watched`, `newest`: where the last write to one address went |
| `HookChainProofs`, `FilterProofs` | theorems, about any filters and about those of memory and of I/O ports | |

In `HookChain` an access is a sequence of steps, one for each round of the loops
in `walk_pre_hooks` and `walk_post_hooks`, as each filter that is called may
enable, move or disable others.  A filter decides nondeterministically among the
outcomes that its pre function has for that address and direction; the set is
read off the function.  Data is named by its origin.

### Filters with state of their own

| module | models | state ↔ code |
|---|---|---|
| `PciCfg` | `pci_cfg.lua`: the filters for ports and PCIe window | `bdfr`, `hooked`, `data`, `bv` as in the code; `bar`: what each hook was called with last; `cfg`: the target's registers; `last`: what the firmware wrote last |
| `SuperioPnp` | `superio.lua` against a chip of `PnpAccess` | `selected`: `f.pnp.reg`; `active_ldn`; `copy`: `data` where `set`; `bar0`: base of each device's filter; `sio`: the chip; `addressed`: the open chip was given an index by the last write to the index port; `astray`: chip or filter had data that the other had not |
| `NvramCache` | `nvram_read`, `nvram_write` of `pc80.lua`, with `cache_nvram` on or off | `index`: `p70`, `p72`; `table`: `nvram_data`; `indexThere`, `cells`: the target; `chosen`: banks of which the firmware selected an index |
| `NvramMemory` | abstract: two banks of cells that read as they were last written; only the clock's change by themselves | `idx`, `mem`, `got` |
| `SmbusHost` | `smbus_host.lua` and `intel_smbus.lua` between a driver of the firmware and the controller in the target | `host`: `f.host` and the registers that matter, `host.said`: what the access under way logged; `ctrl`: the controller; `owed`: transactions made and not yet logged |
| `MCScripts` | the four in one instance; `part` says which of them a behaviour is about, as they share no state and no port | |
| `ChipsetProofs` | theorems | |

In `PciCfg` a byte is named by the write it comes from and its place in it, so
that a byte in the wrong place, or from the wrong write, is never equal to the
right one by chance.  `SmbusHost` keeps the order that matters: a write is seen by
the script before the target has it, a read after.

### What runs before the shell

| module | models | state ↔ code |
|---|---|---|
| `PnpAccess` | `pnp_*` of `chipset.c` as sequences of steps, and the SuperIO chips at their other end: what opens and closes them, index, device, registers | operators on a chip's record |
| `Boards` | `chipset_init` of each board (with `southbridge/` and `superio/`) as such a sequence | definitions named as the board's file |
| `StartUp` | one board running its sequence on chips that were left in any state | `todo`: steps still to be made; `chips`, `window`, `decoded`: SuperIOs and what the chipset forwards |
| `DockConnect` | `lenovo_x60.c`: clocks, switch and SuperIO of the dock, each polled with a counter | `at`, `timeout`; `saw`: what the counter was when each poll ended; `dlpc`, `switch`, `com1`, `clocked`: the hardware |
| `BmcStartUp` | `dell_s1850.c`: the exchange with the management controller | `script`: statements of `bmc_foad` still to be made; `input`: byte and IBF; `phase`, `heard`: the BMC; `late`: it took longer than a delay after which the host does not look |
| `MCBoards` | table of all boards with their chips, and the three parts in one instance | |
| `StartUpProofs` | theorems | |

### xmmstack

| module | models | state ↔ code |
|---|---|---|
| `XmmStack` | what `xmmstack.c` makes of each form of instruction, the routines and the tables, run on the registers | `r`: eax, edx, esp and the debug registers; `xmm`: bytes of the stack; `todo`: the rest of the sequence; `settled`: the state as the program should see it between two instructions |
| `StackMachine` | abstract: a processor with a stack in memory | `eax`, `edx`, `stack`, `pc` |
| `MCXmmStack` | a program of 29 instructions, every form with the operands that are translated differently | |
| `XmmStackProofs` | theorems | |

Definitions called *faulty variant* are not part of the models: each is what
a definition would be with a plausible mistake, and serves to show that the
properties would notice it.

## 3. Runs

| run | question | instance | states |
|---|---|---|---|
| `warm` | Do shell and driver stay in step, and is the link transparent? | all seven kinds of access, two of them in a row, handshake included | 7 004 |
| `cold` | May QEMU and target be started in either order? | romcc shell and a guest that uses its key, two accesses, one start | 1 085 |
| `faults` | What does a command that was cut short do, and does a reset leave the firmware waiting? | all seven kinds of access, two in a row, one reset and one kill, each anywhere | 509 560 |
| `romcc` | Does a shell compiled by romcc use the key of a command? (no, see 6) | one other key than the shell's | |
| `relaunch` | Does QEMU find the shell again? (no, see 6) | one access, killed once | |
| `ports` | Does the chain of I/O ports protect the line's UART, lose nothing and fake nothing that also happens? | the X61: eleven kinds of port, two of them guarded (UART, and the GPIO that can disconnect the dock it is in), twelve filters, three of them BARs that the firmware moves; NVRAM cache on | 50 118 |
| `late` | The same protection for memory when `enable_ram` runs in the middle | filters of a board with a guard over a memory-mapped UART | 42 530 |
| `early` | Does each read find the newest data? | RAM moved to QEMU in set-up, as `lenovo_x61` and `intel_d845gbv2` do | 228 961 |
| `scripts` | Does each of the four filters with state agree with the device it follows? | two protected bytes and two BARs, three writes; a winbond SuperIO with two devices, any byte and one word written to its index port, up to the first access that leads the script astray, at most four copies (`MaxCopies`); one cell of the clock and one of RAM, with and without cache; two slaves, four protocols, the BAR written | 1 029 625 |
| `mixed` | Do PCI hooks see what was written when ports and window are used in turn? (no) | three writes | |
| `boards` | Does start-up reach the point where the shell can speak? | 27 sequences, twelve more of six boards whose port can be chosen, on chips left in any of 24 states; a dock that answers whenever it likes, polled three times; a BMC in any of its phases | 15 416 |
| `xmmstack` | Does translated code do what the instructions say? | three instructions in a row, three words of stack at any depth | 823 008 |

**What the properties say.**

* `Lockstep`: driver and shell are always in one of ten agreed phases, and
  every character on the line belongs to what both are busy with.
  `NoReadbackError`: the driver never sees a wrong echo, which the code would
  only warn about.  `Transparent`: the link implements `RemoteAccess`, in which an access is
  carried out as it was issued, with its own key (which `romcc` shows to be too much to ask of
  a shell compiled by romcc).
  `Answered`: each access is performed and returns.
* `SettledOnceActive`: whatever happened in the handshake, no echo is wrong
  afterwards.  `HandshakeCompletes`: it ends.  `FewUnread`: the UART's FIFO of 16
  is never near its limit, although nothing limits the sender but the echo.
* `TornInLastField`: if QEMU is killed in a command, the trigger of its successor
  completes the command at worst: what is performed was asked for except for the
  last field, and not more often.  `NeverStuck`: whatever is reset, unless
  QEMU is killed each access returns, if with wrong values, as long as the firmware has not
  used cpuid.  The text of a starting shell has 33 characters and makes up for those that a
  reset discards; only the reply to cpuid, with 36, is longer, and a driver that waits for one
  then may wait for ever.
* `UartShielded`, `ShieldHolds`: a filter that drops every access to an address
  holds, whatever is enabled or moved in front of it later, also in the middle of
  a walk.  On the X61 these are the UART of the line and, for writes, the port that disconnects it.
  `NothingLost`: an access goes somewhere, or a script decided
  otherwise.  `FakedStaysOff`: a write that a script answers does not happen on the
  target too.  `NoDuplicates`: repeated calls of `enable_hook` never link a
  filter twice.
* `ReadsNewest`: filters, registered pages and the moment RAM moves agree on
  where the data is.
* `HookSeesWritten`: a hook is called with what was written to its register.
  `BarFollows`: once a register is written, in whatever pieces, its hook has what
  the target has.  `ProtectHolds`: no write of any width through either space
  changes a byte whose hook vetoes writes.
* `CopyFollows`, `BarsFollow`: until chip or script gets data that the other does not
  (`astray`), the script, which never asks the chip, has in its copies what the chip holds,
  and a device's filter where the chip decodes the device.  `PowerKept`: data behind an index
  that an open chip was given by a byte do not change the registers that keep the SuperIO of
  the protocol alive, whatever was written before, astray or not.  What the two accesses that
  lead astray can do to these registers is in section 6; the model makes them too.
* `CacheIsMemory`: table and target together implement `NvramMemory`; data never
  goes to the target under the index of an earlier access, once the firmware has selected an
  index of the bank it uses.
* `LogTells`: the log has every SMBus transaction once, in order, with its slave,
  protocol, direction and outcome and no other's data, although it is written
  when the next transaction is being prepared.  Only a write to the controller's BAR, which sets
  the script up again, loses a line that was still to come.
* `LineUp`: when `chipset_init` is over the UART is on at its address and no chip is
  left open, whatever state it was found in.  `NothingStray`: every access reached
  something (port forwarded, chip open, window mapped).  `MovesOff`: a device is moved
  only while it is off.  `DockEnds`, `BmcEnds`: polls with and without a bound come to an end.
* `DockedInTime`: a docked laptop whose hardware was ready before the last look has
  its line through and its UART on.  `CommandWhole`: the BMC got the command byte by byte,
  after whatever transaction it was in, if it is not slower than the two delays that no wait
  follows.
* `StackKept`: the translated code implements `StackMachine`.  `NoWildJump`: every jump
  into a table goes to the entry of a byte, and every routine ends where the
  sequence that used it goes on.

**Why the bounds are enough.**  The shell forgets everything at its prompt and
the driver at the end of an access, except for what the line still holds, at
most the rest of one command: two accesses show each kind of access followed by
each, which is what the posted write needs (`LinkIsTransparent` and
`LockstepHolds` hold for any number).  One boot and one kill already meet every
position of the other side.  Two digits are enough to tell a field from its
neighbour; the letters `b`, `c`, which are digits as well as command letters, are
among them.  The chains have one port for each range on which filters differ;
the list of a run holds every filter of the chosen boards, and after an access
nothing of it is left but the list, whose contents only grow.  `PciCfg` holds no
memory beyond four bytes per space and `bv`; three writes make every division
into two and three pieces, and a change of register or space between any two of
them.  `SuperioPnp`, `NvramCache` and `SmbusHost` have no bound on the length of a
behaviour; of the SuperIO only the number of registers written (`MaxCopies`) is bounded, at four,
as many as select, place and enable one device; a behaviour may use them on two.  The only
word (`Words`, 0x6002) has the index of a protected register; two devices, banks or slaves are enough for one to be taken for the other
(the first two are proved for any number).  A poll with a counter has three
outcomes, ready before the last look, at it, and never, and a counter of 3 has
them all, as do 1000 and 100 000 (`DockedCorrect`).  `BlockBytes` limits the blocks of
SMBus to two bytes, one more than the largest length that is announced.  A
sequence of `xmmstack` leaves nothing but the stack and what is in the debug
registers, which start with arbitrary contents: in three instructions a word is
written by one, moved by another and read by the third.  `Top` and `Bytes` are 15
and 16 in place of 127 and 128; nothing depends on them but how much room there is
(`StackRefined` has any room, program and number of instructions).

**Deadlock** is checked in `ports`, `late` and `early`, as chains never end.  The
other runs come to an end, after `MaxReqs` accesses, `MaxWrites` writes, `MaxRun`
instructions or with the start of the shell, and set `CHECK_DEADLOCK FALSE`;
`Answered`, `HandshakeCompletes`, `NeverStuck`, `DockEnds` and `BmcEnds` would notice a real one.

## 4. Fairness

Serial link (`SerialLink!Fairness`):

* `WF(Shell)`: the shell is a loop that never leaves; it takes its next step
  when a character is there or a command is complete.
* `WF(Open \/ Drive)`: QEMU calls the driver synchronously and each of its reads
  is repeated until it succeeds, so a step that can be made is made.  That the
  firmware makes an access (`Issue`) is never assumed.
* `WF(~up /\ Reset)`: the user switches the target on if it is off.  A reset of
  a running target is never forced.

Start-up:

* `WF(x60_chipset_init)`, `WF(Host)`: the processor runs one sequence of instructions.
* `WF(Bmc)`: polls without a bound end only if what they wait for gets ready at some time; the
  code relies on it and so does the model.  How long the BMC takes is left open.
* Nothing is assumed of the dock's clocks and switch: their polls have a bound, and
  `DockEnds` holds although they may never be ready.

No action needs strong fairness: nothing but its own action disables one that
is named here, apart from a reset or a kill, which are bounded, and `Abort` of
`BmcStartUp`, which stays possible whether or not the BMC has taken the byte.  The
filters have no liveness of their own: they run to their end inside one access.

## 5. Proofs

TLAPS checks every step.  The assumptions are the `ASSUME`s next to the
constants, which TLC evaluates in the runs.

**Serial link**, for any set of digits, any accesses and any number of them.
`SerialShellProofs` shows that commands are well formed and decode to the access
they were made from (`CommandFormed`), and that the shell acts exactly when the
last character is in.  `SerialLinkProofs`:

* `TypeCorrect` for every initial state, resets and kills included;
* `LockstepHolds`, by induction with `Inv == TypeOK /\ Lockstep`; steps from such a
  state leave `warned` alone.  *No echo is wrong* says nothing about the next echo; `Lockstep` says what is
  on the line in each phase and how far both sides are, and is what makes it
  inductive.  The proof goes through the ten phases: in each, it names the steps
  that are possible and the phase they lead to;
* `NeverWarns` and `UnreadBounded` (the target's UART holds at most one character)
  follow;
* `LinkIsTransparent`, the refinement of `RemoteAccess`, under `KeysHonoured` (the shell writes an
  MSR with the key of the command: it is not compiled by romcc, or the firmware uses the shell's
  key): each step is a step of
  `RemoteAccess` or leaves `issued`, `done` and `log` alone; what makes `Perform` and
  `Return` legal is in `Recorded` and in the phase.

**Cold start**, QEMU and target started in either order, for any digits and accesses.
`LinkFaultProofs`: `ColdSettles` (`SettledOnceActive`), `ColdTransparent` (`Transparent`, again under
`KeysHonoured`) and `ColdUnread` (`FewUnread`), if the target is switched on once
(`OnceOn`).  There is no lockstep here: the target may come up between any two reads of
the driver, which then takes parts of the start-up text for echoes and prompts.  But all
that can be said in a handshake is known beforehand: `Typing` is what the driver writes,
`Transcript` what the shell prints.  So the invariant only counts characters: written, read
by the shell, acted on, printed, read by the driver.  `ShellAt` and `HostAt` say which counts go
together.  `ColdInv` has four cases: the target is off (`Dark`); it came up and the trigger
was lost (`TriggerLost`); the driver is some characters behind (`RunsBehind`); or the two are in
step, from where the induction of `SerialLinkProofs` goes on.

**Kill and restart of QEMU**, for any digits and accesses.  `LinkFaultProofs`: `TornOnce`, that is
`TornInLastField`, if QEMU is killed at most once.  The condition is no convenience: the property
holds for two kills in every instance tried, but not for three, as three triggers in a row
can be the rest of an earlier field too.  Nothing
like lockstep survives the kill, and what the shell still has to say to the dead QEMU stays in the
line for the next one to run into.  The invariant `KillInv` has four cases.  Before the
kill, `Lockstep`.  Right after it, `Cut`: the shell is at some character of the text that QEMU was
writing, the rest of it that made it to the line is in front of everything else.  If the text was a
command and it was cut inside, `Halted`: the shell has taken what was there and the trigger of the
next QEMU after it (`Torn`), which either completes the command or not, and the driver waits for a prompt in
vain.  Otherwise `Stream`: the texts that the shell still answers are whole ones, each with the
tag of what it is, in the order in which they were written, and each reply is for one of
them.  In all cases what was performed was asked for but for the last field (`Asked`), and there
are no more accesses than were asked for.

**Filter chain**, for any ports, filters, BARs, windows and set-up, under
`ChainAssumption` (types) and `FallbackAssumption` (the filter enabled first covers
everything, decides and claims, as `io_undefined` does).  Of the other filters nothing is
assumed but what a theorem names.  `HookChainProofs`:

* `TypeCorrect`; `ListedOnce`, by induction: a list only grows in front and by
  filters that are not in it;
* `ShieldCorrect`.  Whether a guard holds depends on the order of the list, on
  which filters are on and on where the walk is, so the invariant has three parts:
  `SetUpInv` (of the first k calls of the set-up every filter is in the list, and a list
  with a guard in it has nothing in front of it that lets an access past), `EnabledInv` (filters that are not BARs stay
  on) and `WalkGuarded` (a walk that has not been stopped has the guard still before
  it, or the access is dropped).  Filters put in front during a walk are missed by
  it, which is harmless in the pre walk for the very reason that they are in front;
* `NoneLost`, with `WalkDecides`: a walk that is not over still has the fallback
  before it.  It needs `ClaimersDecide`: what claims an access has decided about it.
  `walk_pre_hooks` does not ask for that and `via_epia_m_850.lua`:65 does not keep to it (§6);
  TLC evaluates it for the filters of `ports` (`IoClaimersDecide`) and of `late`
  (`MemClaimersDecide`);
* `FakesStayOff`, with `WalkExclusive` (a write that was sent or faked ended its walk).  It
  needs `FakersClaim`: at a port where writes may be faked, who fakes or sends a write
  ends the walk.  That is a fact about the filters, which TLC evaluates for those of
  I/O ports (`IoFakersClaim` in `MCIoChain`).

**Memory**, for any addresses, filters and pages that agree on who keeps what.
`FilterProofs`: `MemoryCorrect`, that is `ReadsNewest`, under `HaveHomes`: each address is either
`KeptByQemu` (on its way through the list an access meets a filter that takes it to
QEMU before any other that decides) or `KeptByTarget` (no page of QEMU has it, and no filter
sends an access there to QEMU alone).  That is a fact about a board's filters and their order; TLC
evaluates it for the one of `early` (`MemHaveHomes` in `MCMemory`).  `ClaimersDecide` is needed
here as well.  The invariant `MemInv` adds
to `ReadsNewest` what the walk has decided so far (`TowardsQemu`), that a read got its value
at home (`ReadsHome`), and that what was written last is there (`NewestHome`).

**I/O ports**, for the set-up of the Lenovo X61.  `UartSafe`, that is `UartShielded` under
`IoInstance`: `ShieldCorrect` with two guards, `com_pre` and the board's `mainboard_io_pre`, which
drops writes to the port that disconnects the dock.  What remains to be shown is that every
filter which comes before the guard in the list leaves such an access alone.  `IoInstance` has
the SMBus controller, which claims, away from the two ports; the other BARs may be moved over
them.  It says nothing of boards that leave `filter_com1` out (§6).

**PCI configuration**, for any registers, hooks and bound.  `ChipsetProofs`:

* `TypeCorrect`; `ProtectCorrect`, under `VetoAssumption`: what vetoes writes is the hook of a
  byte (`pci_cfg8_hook`), as in every use.  A wider guard would not be called
  for a write of one of its bytes;
* `SeesWritten`: `HookSeesWritten` if firmware does not go back to the ports after it
  has used the window.  The invariant `Gathered` says that the bytes `bv` counts
  are in `data` of the space in use as they were last written.  `mixed` shows that
  the condition is needed;
* `BarCorrect`: under the same condition and `Apart`, no register has both a protected
  byte and a BAR.  The second invariant, `Following`, says that a hook all of whose
  bytes were written was called after the last of them; a write that is vetoed
  would be gathered and not reach the target, hence `Apart`.

**SuperIO**, for any devices, registers, contents and words, whatever the firmware writes, and
every kind of chip with devices.  `ChipsetProofs`: `CopyCorrect`, `BarsCorrect`, `PowerCorrect` from `PnpInv`.  What
makes it inductive is agreement in what is not looked at: `SameRegister` (an open chip
that was given an index has the one the script noted) and `SameDevice`.  The bytes of
the key look like indexes to the script, which is why `SameRegister` cannot hold before
the first index.  `PnpInvAstray` and `PnpInvWord` show that types and `SameRegister` survive
the accesses that lead astray, which is why `PowerCorrect` needs no condition on the past.

**NVRAM**, for any indexes and contents, cache on or off.  `ChipsetProofs`: `IndexCorrect`,
the invariant that in a bank of which an index was selected the target's index is what the
firmware selected whenever data is going to reach the target; from it `CacheCorrect`, the refinement of `NvramMemory`, action by
action.

**SMBus**, for any slaves, values and lengths of blocks.  `ChipsetProofs`: `LogCorrect`,
that is `LogTells`, from `SmbusInv`.  Its parts are types; `InStep` (machine, controller and
driver are in the same part of a transaction: the machine is in its started state exactly
while the driver polls, and it keeps a failure no longer than until it is logged); and
`Owing`: either nothing is to be logged, or there is one transaction and the machine holds
all that its line needs (`Pending`).  A write to the BAR (`Setup`)
leaves nothing owed.  `LogTells` alone is not inductive: it does not say
that the slave and data of a line still to come are the transaction's own.

**Dock**, for any patience.  `StartUpProofs`: `DockTypeCorrect` and `DockedCorrect`
from `DockInv`, which says for each place of `chipset_init` what the polls
before it, judged as the code judges them, have established.

**BMC**, in whatever phase it was left, if it is not `late`: it may take any time over a byte after
which the host waits, but has to be done with the third and the last byte before `ipmidelay` is
over, since 0x62 is then written, or the shell started, without a look at IBF.  `StartUpProofs`:
`CommandCorrect`, that is `CommandWhole`.  The invariant `BmcInv` says for each k what holds when the
host has made k statements: the BMC has taken the byte that was written last, and is where the first
k statements should have brought it (`Understood`), or the byte is the one of statement k and the
BMC is where k - 1 statements brought it.  An abort that was written over a byte not yet
taken is harmless, as both can only be aborts.

**Start-up of a board** with one Winbond or SMSC chip and one UART (`OneUart`), for any device but 255
and, of a Winbond, any port, clock and address of the line (`Smsc` is written for 0x2e and 0x3f8), whether
the chipset has to forward the port first or not.
`StartUpProofs`: `LineUpCorrect` (`LineUp`), `StrayCorrect` (`NothingStray`) and `MovesCorrect` (`MovesOff`),
if all of `Supported` are such boards.  `OneUart` says how `chipset_init` is put together and what
chip is there, not what the chip holds; twelve of the sequences in `Boards` are shown to
be of this form (`BoardsWithOneUart`).  The proof first takes a sequence apart (`Body`: the key, a clock perhaps,
the twelve steps of `Uart`, the last).  The invariant `StartInv` says for each k what the chip is like after
k steps: whether it is open (`Openness`), which register and device are selected (`Selection`), and what the
UART's registers hold (`Contents`).  A chip that was found open takes the key for indexes, one that was
found closed for the key; both are open after it, and no byte of it is what closes the chip.
`LineUp` alone says nothing before the end.

**xmmstack**, for any operation that an instruction performs (`Op`), any program, size of the stack
and number of instructions, under `StackAssumption` (the program's room fits into the registers
and below `Top`) and `ProgramAssumption` (each instruction is one that xmmstack translates, see
`Translatable`; a load into eax is a `mov`, §6 says why).  `XmmStackProofs`:

* `Leads(q, s, t)` says that sequence q takes the processor from state s to t without a
  jump that goes astray, and sequences are put together from parts as `xmmstack.c` does it.
  Each routine is run once, on values that stand for any: what it leaves in
  registers, in `dr0` … `dr3` and in the bytes of the stack.  From these lemmas each form of
  instruction is shown to end (`Ends`) in a *sound* state, where the program's view of
  registers and stack is what the instruction makes of the view before (`Kept`);
* `XmmCorrect`, the invariant `StackInv`: what remains of a sequence leads to such a state.
  `NoWildJump` alone is not inductive, as it does not say what is in esp and `dr2`;
* `JumpsRight` and `StackRefined`, that is `NoWildJump` and the refinement of
  `StackMachine`, follow: the last step of a sequence is the instruction, all others stutter.

**Only model-checked.**  Liveness (`Answered`, `HandshakeCompletes`, `NeverStuck`, `DockEnds`,
`BmcEnds`), which is out of the prover's reach.
For the boards that are not `OneUart`, `LineUp`, `NothingStray` and `MovesOff` rest on TLC, which
runs their sequences in full from each of the 24 states.

## 6. Where code and documentation disagree

Three runs end in a counterexample:

* `relaunch`: a shell that was left inside a command takes the trigger `@` of the
  next QEMU for a part of it and prints no prompt; the driver waits for ever (`P`:1455).
* `mixed`: `bv` is one global table for two filters with data of their own
  (`pci_cfg.lua`:133, 143), so a hook is called with bytes that were never written to
  its register.
* `romcc`: a shell compiled by romcc writes MSRs with a constant key (`serialice.c`:158) in place
  of that of the command, which README.SHELL:112 documents.

Other disagreements met on the way, without a run of their own.

Link and filters:

* When the target starts during the handshake, the driver may be one prompt
  behind and sees wrong echoes of `*vi`, although `P`:1470 says that errors are
  unexpected from there on.  `SettledOnceActive` is what remains true.
* `aopen_dxpl_plus.lua`:142 and `intel_d845gbv2.lua`:91 have the call that enables `filter_com1`
  commented out and do not call `do_default_setup`: on these two boards firmware
  may reprogram the UART of the line.
* `via_epia_m_850.lua`:65 returns true for every write without having decided anything, as the `if`
  around it is commented out.  The walk ends there, so no write to a port is carried
  out on that board; `ClaimersDecide` fails.
* `lenovo_x61.lua`:53 and `asus_p4p800_vm.lua`:88 apply their own filters last "so they are the first ones to
  check"; but a new BAR of the guest is put in front of them (`hooks.lua`:57).
* `enable_ram` copies nothing (`memory.lua`:165): what the firmware wrote to the target's
  memory before is not what it reads afterwards, although RAM then "has no special
  meaning anymore" (`memory.lua`:67).  Boards that call it in set-up, or firmware that
  keeps nothing in RAM across the switch, are not affected; `early` is such a board.
* `mem_lapic` means to replace a Start-Up IPI by an Init IPI, but a faked write is
  not sent at all (`mmio.lua`:11–13).
* On the i82801dx the protected byte 0xe6 shares a register with the BAR at 0xe4
  (`i82801.lua`:103, 105): a dword written there is vetoed, but the BAR of the script
  moves.  `Apart` fails there; `scripts` has the registers of the i82801fx, where they
  are different ones.

Filters with state:

* SuperIO: data written before any device is selected look up device −1, which is nil:
  the script stops with an error (`superio.lua`:21).  A 16-bit write to the index port
  writes data past the protection of registers 0x02 and 0x24 and past the copies (`superio.lua`:108).
  The key that opens the chip is an index to the script and none to the chip: after index 0x02,
  leaving and the key, data go to register 0x02 unprotected.  `PowerKept` excepts the two, which
  `SuperioPnp` makes.  Dropped
  writes are in the copies.  A device's filter stays when the device is disabled or
  moved to 0x60.
* NVRAM: with `cache_nvram` set, index writes that go to the target may be taken by a BAR
  filter that the firmware enables over 0x70 later.  The pair 0x76/0x77 reads as the second
  bank, but writes to it are ignored.  Word accesses to index and data lose the data.
  0x74 is the second bank to the script; on Intel chipsets it is an alias of 0x70.
* SMBus: a failure that was not cleared is taken for one of the next transaction.  An
  abort while none runs logs one that never was.  A start while one runs overwrites its
  protocol and is refused.  What was killed is logged as if completed.  `HOST_FAIL` is left at once.
  The simulated controller calls `smbus_transaction`, which does not exist
  (`intel_smbus.lua`:92).
* Timer: after a count of two bytes `lsb` is not set again (`pc80.lua`:144), so of a second
  count without a new control word both bytes go to the upper half.  A read after a
  read-back of status and count is logged as both.  A read-back command clears the
  latches of counters it does not name.  Keyboard controller: command 0xd1 stays in force, and data
  for the keyboard that follow are logged as A20.
* Replay: what the live run dropped is replayed with the value in the log
  (`replay.lua`:25), so the copies of dropped registers differ.  Post filters for MSR 0x8b run on
  writes as well, where they cannot fake.

Start-up:

* `lenovo_x60.c`: `while (!ready && timeout--)` leaves −1 when it gives up and 0 when the
  last look succeeded; `if (!timeout)` (84, 106, 329) takes the first for success and the
  second for failure.  `DockedInTime` holds for hardware that is ready before the last
  look.  `dock_present` (309–312) shifts a byte right by 13, so it tells of a dock always.  A laptop
  without one asks for the switch, polls until −1, takes that for success and leaves the
  switch asked for, although the comment on 85 says that a failed docking disables it.
  `pnp_set_enable(dev, 1)` at 242 passes a device where a port is due and writes
  to 0x2e03; the UART is on only because it was enabled before.
* `msi_ms6178.c`:28, `msi_ms7133.c`:29: `TCOBASE` is computed from the number of the register
  that holds PMBASE, not from its contents, so the watchdog is not halted.  The
  sequences are in `Boards` (`NothingStray` fails on them) and not in the instance.
* `chipset.c`:43–59: three functions that read PCI configuration return nothing.
* `asrock_p4i65gv.c`:30, `asrock_775i65g.c`:30, `asus_p4p800-vm.c`:30 write 0x1408 to the whole
  of the LPC enables and so clear bit 0, which forwards the first COM port.  Whether the port is
  still decoded subtractively is not in the model.  Boards written for 0x3f8 ignore the
  port of the configuration.  `zida_tx98_3d.c` and `hp_dl165_g6` rely on reset values.
* `dell_s1850.c`:91 writes 0x62 without waiting for IBF, 1000 reads of port 0x80 after the byte
  before (117–123).  A BMC that takes longer loses that byte; `CommandWhole` excepts it (`late`).

xmmstack:

* For instructions other than `mov`, a memory source with eax as the destination becomes
  an operation of eax on itself; `Translatable` has no such instruction.  `call *%eax` makes an invalid `.long`.
* The guard at the lower end of a table is never reached: pointers are 4k+3, and the
  push after 3 wraps to 0xff, beyond the table.  `NoWildJump` is for programs that
  stay within their room.
* With `-mmx` bytes that are 64 apart share a register; the makefile uses `-xmm`.

## 7. Limits of the models

* The line loses and alters nothing while both ends run; errors of the tty and the
  Windows build are left out.  What is lost is what a reset or the flush when the
  tty is opened discards.
* `IoFilters` is one board, the Lenovo X61.  Boards that leave the UART unguarded or lose
  writes (§6) are not among the instances.
* An access is judged by the address it starts at.  Accesses of several
  bytes that begin in one filter's range and end in another's are left out, and so
  are 64-bit accesses, for which the driver has no command.
* `ShieldHolds` speaks of guards that nothing can overtake by claiming: a window of
  the SMBus host, which claims, over guarded ports would break the guard.  Whether
  firmware does so is not for the scripts to decide.
* Firmware behaves as its device demands where section 6 says what happens otherwise:
  it writes PCI's address port before the data port, and stays with the window once
  it uses it (`Mixed`); selects a device of a SuperIO before it writes the device's registers; uses
  NVRAM by bytes through the pairs 0x70, 0x72 and 0x74, and selects an index of a bank first;
  writes the BAR of the SMBus controller only while no transaction runs; starts an SMBus transaction when the controller is free and its
  last failure is cleared, and kills only its own.
* How a board computes a base from a PCI register, and the second window of a SuperIO
  device, are left out.  Of SMBus, the contents of blocks and the protocols that
  the code calls unimplemented are.
* Of the LPC enables only the bits of the SuperIO ports are kept, not those of the UARTs.
  Of the start-up code, GPIOs, flash decode, clock routing and reset lines are left out
  unless the line depends on them.
* `xmmstack` is modelled from the instructions on: reading lines and matching patterns
  is not.  Arithmetic is an uninterpreted operation on bytes; flags are not kept.
* The Lua glue in the patch is for an older interface of the scripts than that in
  `simba/`; the models take `interface.lua` for what QEMU calls.

**Not modelled.**  `romcc.c` (25 000 lines, a C compiler that coreboot and SerialICE
share) and `util/kconfig` (the Linux kernel's configuration program) are other projects'
programs, kept here unchanged and run only when the shell is built; together they are
more than four fifths of the C in the repository, which is why the models cover a small part
of it by lines.  What is modelled is mostly Lua and the patch.  `output.lua` formats; nothing decides on it.  `cpu.lua` rewrites
results without state, on a chain that is walked as that of `HookChain`.  `replay.lua` parses a log
and calls the filters in its order.  The timer's and keyboard controller's copies are counters
for the log.  Makefiles, linker scripts and start-up assembly have no behaviour that
the shell could meet.

## 8. Plan

In the order of what matters for the system:

1. Serial link: `Wire` … `SerialLink`, `RemoteAccess`; theorems.  *Done.*
2. Filter chain and its two address spaces: `HookChain`, `IoFilters`, `MemFilters`,
   `MemoryRouting`; theorems.  *Done.*
3. `PciCfg`; theorems.  *Done.*
4. `SuperioPnp` against the chip; theorems.  *Done.*
5. `NvramCache`, `NvramMemory`; refinement proved.  *Done.*
6. `SmbusHost`; theorem.  *Done.*
7. `XmmStack`, `StackMachine`; refinement proved.  *Done.*
8. Start-up: `PnpAccess`, `Boards`, `StartUp`, `DockConnect`, `BmcStartUp`; theorems about the
   dock, the BMC and boards with one UART.  *Done.*

What would come next: `TornInLastField` for two kills; the theorems on start-up for ITE chips and for
boards with two UARTs; the CPU filters as an instance of
`HookChain` with a match by content; timer and keyboard controller; a log of `HookChain`
replayed against the run it was made by.
