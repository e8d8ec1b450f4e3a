----------------------------- MODULE HookChain ------------------------------
(***************************************************************************)
(* The filter chain of the Lua scripts (hooks.lua, interface.lua): which   *)
(* of target and QEMU an access of the guest goes to, and with what data.  *)
(*                                                                         *)
(* A chain is a linked list with the filter enabled last in front.  For an *)
(* access walk_pre_hooks visits the enabled filters that cover the address *)
(* until one of them claims it, the emulator carries the access out as     *)
(* told, and walk_post_hooks shows the result to all of them.  The list    *)
(* changes while it is walked: a filter that sees the guest program a base *)
(* address register enables, moves or disables the filter of that BAR.     *)
(*                                                                         *)
(* Data is named by where it comes from.                                   *)
(***************************************************************************)
EXTENDS Sequences, SequencesExt

CONSTANTS
  Port,       \* the addresses of this chain, one for each interesting range
  Nowhere,    \* the base of a BAR that decodes nothing
  Filter,     \* the filters of this chain
  Bar,        \* those that follow a BAR of the target
  Windows,    \* where the guest may put a BAR
  Fixed,      \* what the other filters cover
  Setup,      \* the calls of enable_hook when the scripts start, in order
  Runtime,    \* the calls that enable_ram makes while the guest runs, if any
  Movers,     \* filters that watch the registers of the BARs
  PreDoes,    \* what a filter's pre function may do with an access
  PostFakes   \* addresses whose reads a filter's post function may fake

\* What a pre function does with an access, and whether it returns true.
Deed == [does : {"pass", "handle", "target", "qemu", "both", "drop", "veto", "fake"},
         claims : BOOLEAN]

\* What filter f may do with a write, or a read, at port p.
Deeds(f, w, p) == PreDoes[f][<<w, p>>]

ASSUME ChainAssumption ==
  /\ Nowhere \notin Port
  /\ Bar \subseteq Filter
  /\ Windows \in [Bar -> SUBSET (Port \cup {Nowhere})]
  /\ Fixed \in [Filter \ Bar -> SUBSET Port]
  /\ Setup \in Seq(Filter \ Bar) /\ Runtime \in Seq(Filter \ Bar)
  /\ Movers \subseteq Filter
  /\ PreDoes \in [Filter -> [BOOLEAN \X Port -> SUBSET Deed]]
  /\ PostFakes \in [Filter -> SUBSET Port]

\* The scripts enable a fallback first, which takes whatever gets to it.
ASSUME FallbackAssumption ==
  /\ Setup # <<>> /\ Fixed[Setup[1]] = Port
  /\ \A w \in BOOLEAN, p \in Port :
       \A d \in Deeds(Setup[1], w, p) : d.claims /\ d.does # "pass"

VARIABLES
  todo,      \* calls of enable_hook that the scripts have left to do
  chain,     \* the list of the hooks
  enabled,   \* filters with enable = true
  base,      \* where the BARs are
  phase,     \* what the emulator is doing
  act,       \* the access under way: io_action or mem_action
  l,         \* the part of the list that the walk has left to visit
  found,     \* a filter has claimed the access
  reached    \* where the access was carried out

hooks == <<chain, enabled, base>>
walk  == <<act, l, found, reached>>
vars  == <<todo, hooks, phase, walk>>

Access ==
  [write : BOOLEAN, addr : Port, data : {"guest", "zero", "script", "hw", "qemu", "none"},
   to_hw : BOOLEAN, to_qemu : BOOLEAN, dropped : BOOLEAN, faked : BOOLEAN]

TypeOK ==
  /\ todo \in Seq(Filter \ Bar)
  /\ chain \in Seq(Filter)
  /\ enabled \in SUBSET ToSet(chain)
  /\ base \in [Bar -> Port \cup {Nowhere}]
  /\ \A b \in Bar : base[b] \in Windows[b] \cup {Nowhere}
  /\ phase \in {"idle", "pre", "post"}
  /\ act \in Access
  /\ l \in Seq(Filter)
  /\ found \in BOOLEAN
  /\ reached \in SUBSET {"hw", "qemu"}

\* pre_action: a fresh record.
Fresh(w, p) ==
  [write |-> w, addr |-> p, data |-> IF w THEN "guest" ELSE "zero",
   to_hw |-> FALSE, to_qemu |-> FALSE, dropped |-> FALSE, faked |-> FALSE]

Init ==
  /\ todo = Setup /\ chain = <<>> /\ enabled = {}
  /\ base = [b \in Bar |-> Nowhere]
  /\ phase = "idle" /\ l = <<>> /\ found = FALSE /\ reached = {}
  /\ \E p \in Port : act = Fresh(FALSE, p)
-----------------------------------------------------------------------------
\* Faulty variant: no search for the filter.
EnableHookAgain(f) ==
  /\ chain' = <<f>> \o chain
  /\ enabled' = enabled \cup {f}

\* Faulty variant: the filter is switched on but not linked.
EnableHookUnlinked(f) == enabled' = enabled \cup {f} /\ UNCHANGED chain

\* enable_hook: a filter that is in the list already stays where it is.
EnableHook(f) ==
  /\ chain' = IF f \in ToSet(chain) THEN chain ELSE <<f>> \o chain
  /\ enabled' = enabled \cup {f}

DisableHook(f) == enabled' = enabled \ {f} /\ UNCHANGED chain

\* generic_io_bar, generic_mmio_bar: the guest has programmed BAR b.
ProgramBar(b, p) ==
  /\ base' = [base EXCEPT ![b] = p]
  /\ IF p # Nowhere THEN EnableHook(b) ELSE DisableHook(b)

\* Filter f has seen a write, which may be to a register of a BAR.
MayProgramBar(f) ==
  \/ UNCHANGED hooks
  \/ /\ f \in Movers /\ act.write
     /\ \E b \in Bar : \E p \in Windows[b] : ProgramBar(b, p)

\* filter_in_range.
Covers(f) == IF f \in Bar THEN {base[f]} ELSE Fixed[f]
Matches(f) == f \in enabled /\ act.addr \in Covers(f)

\* Faulty variant: who takes an access to QEMU leaves it to the target as well
\* if an earlier filter wanted that.
DoneQemuToo(does, a) ==
  CASE does = "pass"   -> a
    [] does \in {"handle", "target"} -> [a EXCEPT !.to_hw = TRUE]
    [] does = "qemu"   -> [a EXCEPT !.to_qemu = TRUE]
    [] does = "both"   -> [a EXCEPT !.to_hw = TRUE, !.to_qemu = TRUE]
    [] does \in {"drop", "veto"} -> [a EXCEPT !.dropped = TRUE]
    [] does = "fake"   -> [a EXCEPT !.faked = TRUE, !.data = "script"]

\* The pre functions: handle_action, drop_action, fake_action and plain
\* assignments; a PCI hook marks the action dropped and still handles it.
Done(does, a) ==
  CASE does = "pass"   -> a
    [] does = "handle" -> [a EXCEPT !.to_hw = TRUE]
    [] does = "target" -> [a EXCEPT !.to_hw = TRUE, !.to_qemu = FALSE]
    [] does = "qemu"   -> [a EXCEPT !.to_hw = FALSE, !.to_qemu = TRUE]
    [] does = "both"   -> [a EXCEPT !.to_hw = TRUE, !.to_qemu = TRUE]
    [] does = "drop"   -> [a EXCEPT !.dropped = TRUE, !.data = "script"]
    [] does = "veto"   -> [a EXCEPT !.dropped = TRUE, !.to_hw = TRUE]
    [] does = "fake"   -> [a EXCEPT !.faked = TRUE, !.data = "script"]
-----------------------------------------------------------------------------
\* do_minimal_setup, do_default_setup, do_mainboard_setup.
SetUp ==
  /\ todo # <<>>
  /\ EnableHook(Head(todo))
  /\ todo' = Tail(todo)
  /\ UNCHANGED <<base, phase, walk>>

\* enable_ram, once the guest reports by an access to the other address space
\* that its memory works.
EnableRam ==
  /\ phase = "idle" /\ todo = <<>>
  /\ Runtime # <<>> /\ Head(Runtime) \notin ToSet(chain)
  /\ todo' = Runtime
  /\ UNCHANGED <<hooks, phase, walk>>

\* Faulty variant: to_hw keeps its value from one access to the next.
BeginStale(w, p) ==
  /\ phase = "idle" /\ todo = <<>>
  /\ act' = [Fresh(w, p) EXCEPT !.to_hw = act.to_hw]
  /\ phase' = "pre" /\ l' = chain /\ found' = FALSE /\ reached' = {}
  /\ UNCHANGED <<todo, hooks>>

\* The guest makes an access.
Begin(w, p) ==
  /\ phase = "idle" /\ todo = <<>>
  /\ act' = Fresh(w, p)
  /\ phase' = "pre" /\ l' = chain /\ found' = FALSE /\ reached' = {}
  /\ UNCHANGED <<todo, hooks>>

\* The guest programs a BAR by an access to the other address space.
ProgramElsewhere ==
  /\ phase = "idle" /\ todo = <<>>
  /\ \E b \in Bar : \E p \in Windows[b] : ProgramBar(b, p)
  /\ UNCHANGED <<todo, phase, walk>>

\* Faulty variant: any filter that is called ends the walk.
ClaimsAlways(d) == TRUE

\* What walk_pre_hooks makes of the value that a pre function returns.
Claims(d) == d.claims

\* One round of the loop in walk_pre_hooks.
PreHook ==
  /\ phase = "pre" /\ l # <<>> /\ ~found
  /\ IF Matches(Head(l))
     THEN /\ \E d \in Deeds(Head(l), act.write, act.addr) :
               act' = Done(d.does, act) /\ found' = Claims(d)
          /\ MayProgramBar(Head(l))
     ELSE UNCHANGED <<act, found, hooks>>
  /\ l' = Tail(l)
  /\ UNCHANGED <<todo, phase, reached>>

\* Faulty variant: an action that was dropped is carried out where an
\* earlier filter wanted it to be.
VerdictUndropped(a) == a

\* The end of walk_pre_hooks: dropped overrules what was decided before.
Verdict(a) == IF a.dropped THEN [a EXCEPT !.to_hw = FALSE, !.to_qemu = FALSE] ELSE a

\* The walk is over: the emulator carries the access out, and post_action
\* takes in what was read.  A read that nobody serves has no value.
Perform ==
  /\ phase = "pre" /\ (l = <<>> \/ found)
  /\ LET a == Verdict(act)
         read == IF a.to_hw THEN "hw" ELSE IF a.to_qemu THEN "qemu" ELSE "none"
     IN  /\ reached' = { s \in {"hw", "qemu"} : IF s = "hw" THEN a.to_hw ELSE a.to_qemu }
         /\ act' = IF a.write \/ a.faked \/ a.dropped THEN a ELSE [a EXCEPT !.data = read]
  /\ phase' = "post" /\ l' = chain
  /\ UNCHANGED <<todo, hooks, found>>

\* One round of the loop in walk_post_hooks.
PostHook ==
  /\ phase = "post" /\ l # <<>>
  /\ IF Matches(Head(l))
     THEN /\ \/ UNCHANGED act
             \/ /\ ~act.write /\ act.addr \in PostFakes[Head(l)]
                /\ act' = Done("fake", act)
          /\ MayProgramBar(Head(l))
     ELSE UNCHANGED <<act, hooks>>
  /\ l' = Tail(l)
  /\ UNCHANGED <<todo, phase, found, reached>>

\* The result goes back to the guest.
End ==
  /\ phase = "post" /\ l = <<>>
  /\ phase' = "idle"
  /\ UNCHANGED <<todo, hooks, walk>>

Walk == PreHook \/ Perform \/ PostHook \/ End
Next == SetUp \/ EnableRam \/ ProgramElsewhere \/ (\E w \in BOOLEAN, p \in Port : Begin(w, p)) \/ Walk

Spec == Init /\ [][Next]_vars
-----------------------------------------------------------------------------
(***************************************************************************)
(* Properties.                                                             *)
(***************************************************************************)

\* enable_hook never links a filter twice: a board's set-up calls it again for
\* filters of the default set-up, and the guest for its BARs.
NoDuplicates == IsInjective(chain)

\* What filter f may ever cover.
MayCover(f) == IF f \in Bar THEN Windows[f] ELSE Fixed[f]

\* Filter f drops every such access that comes to it.
Guards(f, w, p) ==
  f \notin Bar /\ p \in Fixed[f] /\ \A d \in Deeds(f, w, p) : d.does = "drop" /\ d.claims

\* Filter f lets no such access past a guard behind it.
Harmless(f, w, p) ==
  p \in MayCover(f) => Guards(f, w, p) \/ \A d \in Deeds(f, w, p) : ~d.claims

\* The set-up has a guard, and nothing harmful can get in front of it: no
\* filter that is enabled after it, by the scripts or by the guest.
Shielded(w, p) ==
  \E i \in DOMAIN Setup :
    /\ Guards(Setup[i], w, p)
    /\ \A j \in 1..(i - 1) : Setup[j] # Setup[i]
    /\ \A f \in Filter : (\A j \in 1..i : Setup[j] # f) => Harmless(f, w, p)

\* The UART of the line to the target, and whatever else a filter guards:
\* no access gets through to it, wherever the guest moves its BARs.
ShieldHolds == phase = "post" /\ Shielded(act.write, act.addr) => reached = {}

\* Whoever claims an access has decided about it.  walk_pre_hooks does not ask
\* for that: it is up to the filters, and some board's filters break it.
ClaimersDecide ==
  \A w \in BOOLEAN, p \in Port, f \in Filter :
    \A d \in Deeds(f, w, p) : d.claims => d.does # "pass"

\* No access is lost: it is carried out, or a script decided otherwise.
NothingLost == phase = "post" => reached # {} \/ act.dropped \/ act.faked

\* Some filter may answer a write at port p itself.
MayFake(p) ==
  \E f \in Filter : p \in MayCover(f) /\ \E d \in Deeds(f, TRUE, p) : d.does = "fake"

Sends == {"handle", "target", "both", "veto"}

\* Where writes may be faked, who fakes or sends a write ends the walk.
FakersClaim ==
  \A p \in Port : MayFake(p) =>
    \A f \in Filter : p \in MayCover(f) =>
      \A d \in Deeds(f, TRUE, p) : d.does \in Sends \cup {"fake"} => d.claims

\* A write that a script answers itself does not happen on the target too.
FakedStaysOff == phase = "post" /\ act.write /\ act.faked => "hw" \notin reached
=============================================================================
