--------------------------- MODULE MemoryRouting ----------------------------
(***************************************************************************)
(* The filter chain of memory, and where the newest data of an address is: *)
(* in the target's memory or in QEMU's.  Pages that the scripts register   *)
(* with SerialICE_register_physical become QEMU's RAM, which its softmmu   *)
(* may access without asking the filters.                                  *)
(***************************************************************************)
EXTENDS HookChain

CONSTANTS
  RamFilters,   \* the filters of enable_ram
  RamPages,     \* what enable_ram registers with QEMU
  CarPages      \* what new_car_region registers when the scripts start

ASSUME MemoryAssumption ==
  /\ RamFilters \subseteq Filter \ Bar
  /\ RamPages \subseteq Port /\ CarPages \subseteq Port

VARIABLES
  registered,   \* pages that are RAM for QEMU
  watched,      \* an address, any one
  newest        \* where the last write to it went

memVars == <<vars, registered, watched, newest>>

\* What was never written may be read anywhere.
MemInit ==
  /\ Init
  /\ registered = CarPages
  /\ watched \in Port /\ newest = {"hw", "qemu"}

\* enable_ram registers its pages when its filters are in the chain.
MemSetUp ==
  /\ SetUp
  /\ registered' = IF RamFilters \subseteq ToSet(chain')
                   THEN registered \cup RamPages ELSE registered
  /\ UNCHANGED <<watched, newest>>

\* A write leaves the newest data where it was carried out.
MemPerform ==
  /\ Perform
  /\ newest' = IF act.write /\ act.addr = watched /\ reached' # {} THEN reached' ELSE newest
  /\ UNCHANGED <<registered, watched>>

\* softmmu finds a page of RAM in its TLB and asks nobody.
FastAccess(w, p) ==
  /\ phase = "idle" /\ todo = <<>> /\ p \in registered
  /\ act' = [Fresh(w, p) EXCEPT !.to_qemu = TRUE, !.data = IF w THEN "guest" ELSE "qemu"]
  /\ reached' = {"qemu"} /\ l' = <<>> /\ found' = FALSE
  /\ phase' = "post"
  /\ newest' = IF w /\ p = watched THEN {"qemu"} ELSE newest
  /\ UNCHANGED <<todo, hooks, registered, watched>>

Other ==
  /\ \/ PreHook \/ PostHook \/ End \/ ProgramElsewhere \/ EnableRam
     \/ \E w \in BOOLEAN, p \in Port : Begin(w, p)
  /\ UNCHANGED <<registered, watched, newest>>

MemNext ==
  \/ MemSetUp \/ MemPerform \/ Other
  \/ \E w \in BOOLEAN, p \in Port : FastAccess(w, p)

MemSpec == MemInit /\ [][MemNext]_memVars
-----------------------------------------------------------------------------
(***************************************************************************)
(* Properties.                                                             *)
(***************************************************************************)

\* Address p belongs to the target: QEMU does not take it for RAM, and no
\* filter takes an access away from the target.
KeptByTarget(p) ==
  /\ p \notin RamPages \cup CarPages
  /\ \A f \in Filter : p \in MayCover(f) =>
       \A w \in BOOLEAN : \A d \in Deeds(f, w, p) : d.does # "qemu"

\* Filter f takes every access at p to QEMU.
Keeps(f, p) ==
  /\ f \notin Bar /\ p \in Fixed[f]
  /\ \A w \in BOOLEAN : \A d \in Deeds(f, w, p) : d.does = "qemu" /\ d.claims

\* Filter f leaves what is to be carried out at p to the one behind it.
Yields(f, p) ==
  p \in MayCover(f) =>
    \A w \in BOOLEAN : \A d \in Deeds(f, w, p) :
      d.claims => d.does \in {"qemu", "drop", "veto"}

\* Address p belongs to QEMU: the set-up enables a filter that says so, and
\* whatever can get in front of it leaves the decision to it.
KeptByQemu(p) ==
  \E i \in DOMAIN Setup :
    /\ Keeps(Setup[i], p)
    /\ \A j \in 1..(i - 1) : Setup[j] # Setup[i]
    /\ \A f \in Filter : (\A j \in 1..i : Setup[j] # f) => Yields(f, p)

\* Filters and registered pages agree on who keeps each address.
HaveHomes == \A p \in Port : KeptByTarget(p) \/ KeptByQemu(p)

\* A read that no script answers is served by a memory that has what was
\* last written there: filters, registered pages and the moment at which RAM
\* moves to QEMU agree on who keeps which address.
ReadsNewest ==
  phase = "post" /\ ~act.write /\ act.addr = watched /\ ~act.faked /\ ~act.dropped =>
    act.data \in newest
=============================================================================
