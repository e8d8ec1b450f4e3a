---------------------------- MODULE FilterProofs ----------------------------
(***************************************************************************)
(* What the chain does for two sets of filters: those of memory, where a   *)
(* read is served by the memory that has what was last written, for all    *)
(* filters and pages that agree on who keeps each address; and those of    *)
(* I/O ports, where nothing reaches the UART of the protocol.              *)
(***************************************************************************)
EXTENDS MemoryRouting, IoChain, HookChainProofs

(***************************************************************************)
(* Memory                                                                  *)
(***************************************************************************)

\* Filters that take all accesses at p to QEMU, and those that do not mind.
Keepers(p) == {f \in Filter : Keeps(f, p)}
Yielding(p) == {f \in Filter : Yields(f, p)}

\* On its way through list s an access at p comes to a keeper.
Kept(s, p) == Held(s, Keepers(p), Yielding(p))

\* The decision about an access at an address of QEMU: still to be made, or made.
TowardsQemu ==
  \/ act.dropped
  \/ ~found /\ Kept(l, act.addr)
  \/ found /\ act.to_qemu /\ ~act.to_hw

\* A read that was carried out has its value from where the address belongs.
ReadsHome ==
  ~act.write /\ ~act.faked /\ ~act.dropped =>
    /\ KeptByQemu(act.addr) => act.data = "qemu"
    /\ KeptByTarget(act.addr) => act.data = "hw"

\* What was last written is where the address belongs, and maybe elsewhere too.
NewestHome ==
  /\ KeptByQemu(watched) => "qemu" \in newest
  /\ KeptByTarget(watched) => "hw" \in newest

MemInv ==
  /\ watched \in Port /\ registered \subseteq RamPages \cup CarPages
  /\ NewestHome
  /\ phase = "pre" =>
       /\ KeptByQemu(act.addr) => TowardsQemu
       /\ KeptByTarget(act.addr) => (act.to_qemu => act.to_hw)
  /\ phase = "post" => ReadsHome

-----------------------------------------------------------------------------
(* The chain does not know of the pages                                    *)

ChainPart == TypeOK /\ ChainInv /\ WalkDecides

LEMMA FastStep ==
  ASSUME ChainPart, NEW w \in BOOLEAN, NEW p \in Port, FastAccess(w, p)
  PROVE  ChainPart'
<1>1. /\ UNCHANGED <<todo, chain, enabled, base>> /\ phase' = "post" /\ phase = "idle"
      /\ l' = <<>> /\ found' = FALSE /\ reached' = {"qemu"}
      /\ act' = [Fresh(w, p) EXCEPT !.to_qemu = TRUE, !.data = IF w THEN "guest" ELSE "qemu"]
  BY DEF FastAccess, hooks
<1>2. act' \in Access
  BY <1>1 DEF Fresh, Access
<1>3. <<>> \in Seq(Filter) /\ ToSet(<<>>) = {}
  BY DEF ToSet
<1>4. TypeOK'
  BY <1>1, <1>2, <1>3 DEF ChainPart, TypeOK
<1>5. EnabledInv'
  BY <1>1, <1>3 DEF ChainPart, ChainInv, EnabledInv
<1>6. PICK k \in 0..Len(Setup) : SetUpTo(k)
  BY DEF ChainPart, ChainInv, SetUpInv
<1>7. ~(k < Len(Setup))
  BY <1>6, SetUpDone, SetupTyped DEF ChainPart, ChainInv, FastAccess, SetUpTo
<1>8. SetUpTo(k)'
  BY <1>1, <1>6, <1>7 DEF SetUpTo
<1>9. WalkDecides'
  BY <1>1 DEF WalkDecides, NothingLost
<1> QED
  BY <1>4, <1>5, <1>8, <1>9 DEF ChainPart, ChainInv, SetUpInv

\* Every other step is one of the chain.
LEMMA MemStepKinds ==
  ASSUME [MemNext]_memVars
  PROVE  [Next]_vars \/ \E w \in BOOLEAN, p \in Port : FastAccess(w, p)
BY DEF MemNext, MemSetUp, MemPerform, Other, memVars, Next, Walk

LEMMA ChainPartStep == ClaimersDecide /\ ChainPart /\ [MemNext]_memVars => ChainPart'
<1> SUFFICES ASSUME ClaimersDecide, ChainPart, [MemNext]_memVars PROVE ChainPart'
  OBVIOUS
<1>1. CASE [Next]_vars
  <2>1. TypeOK'
    BY <1>1, TypeStep DEF ChainPart
  <2>2. ChainInv'
    BY <1>1, SetUpInvStep, EnabledInvStep DEF ChainPart, ChainInv
  <2>3. WalkDecides'
    BY <1>1, WalkDecidesStep DEF ChainPart
  <2> QED
    BY <2>1, <2>2, <2>3 DEF ChainPart
<1> QED
  BY <1>1, MemStepKinds, FastStep

LEMMA ChainPartInit == MemInit => ChainPart
<1>1. Init => WalkDecides
  BY DEF Init, WalkDecides, NothingLost
<1> QED
  BY <1>1, TypeInit, ChainInvInit DEF MemInit, ChainPart

-----------------------------------------------------------------------------
(* The walk                                                                *)

\* When the guest runs, the list has a keeper for every address of QEMU.
LEMMA KeptDone ==
  ASSUME SetUpInv, todo = <<>>, NEW p \in Port, KeptByQemu(p)
  PROVE  Kept(chain, p)
<1>1. SetUpTo(Len(Setup))
  BY SetUpDone
<1> DEFINE G == Keepers(p)
           H == Yielding(p)
<1>2. PICK i \in 1..Len(Setup) : HeldBy(i, G, H)
  BY SetupTyped DEF KeptByQemu, HeldBy, Keepers, Yielding
<1>3. G \in SUBSET Filter /\ H \in SUBSET Filter
  BY DEF Keepers, Yielding
<1> QED
  BY <1>1, <1>2, <1>3 DEF SetUpTo, Kept

\* What a deed makes of where the access goes.
LEMMA DoneGoes ==
  ASSUME NEW a \in Access, NEW d \in Deed
  PROVE  /\ d.does = "qemu" => Done(d.does, a).to_qemu /\ ~Done(d.does, a).to_hw
         /\ d.does \in {"drop", "veto"} => Done(d.does, a).dropped
         /\ d.does # "qemu" /\ (a.to_qemu => a.to_hw) =>
              (Done(d.does, a).to_qemu => Done(d.does, a).to_hw)
<1>1. d.does \in {"pass", "handle", "target", "qemu", "both", "drop", "veto", "fake"}
  BY DEF Deed
<1> QED
  BY <1>1 DEF Done, Access

\* A filter that is called does what it may do to an access at this address.
LEMMA Called ==
  ASSUME TypeOK, PreHook, Matches(Head(l))
  PROVE  \E d \in Deeds(Head(l), act.write, act.addr) :
           /\ d \in Deed /\ act' = Done(d.does, act) /\ (found' <=> d.claims)
           /\ act.addr \in MayCover(Head(l))
<1>1. Head(l) \in Filter
  BY TailOf DEF PreHook, TypeOK
<1>2. PICK d \in Deeds(Head(l), act.write, act.addr) :
        act' = Done(d.does, act) /\ found' = Claims(d)
  BY DEF PreHook
<1>3. d \in Deed /\ act.addr \in MayCover(Head(l))
  BY <1>1, <1>2, DeedTyped, MatchesCover
<1>4. found' <=> d.claims
  BY <1>2, Zenon DEF Claims
<1> QED
  BY <1>2, <1>3, <1>4

\* Filters in front of the keeper leave the decision to it.
LEMMA TowardsQemuStep ==
  ASSUME TypeOK, EnabledInv, PreHook, TowardsQemu
  PROVE  TowardsQemu'
<1> DEFINE f == Head(l)
           p == act.addr
           G == Keepers(p)
           H == Yielding(p)
<1>1. /\ l # <<>> /\ l \in Seq(Filter) /\ f \in Filter /\ ~found /\ l' = Tail(l)
      /\ act \in Access /\ act.write \in BOOLEAN /\ p \in Port
  BY TailOf DEF PreHook, TypeOK, Access
<1>2. act'.addr = p /\ (act.dropped => act'.dropped)
  BY SameAccess
<1>3. CASE act.dropped
  BY <1>2, <1>3 DEF TowardsQemu
<1>4. CASE ~act.dropped
  <2>1. f \in G \/ (f \in H /\ Held(Tail(l), G, H))
    BY <1>1, <1>4, HeldTail DEF TowardsQemu, Kept
  <2>2. CASE f \in G
    <3>1. Keeps(f, p) /\ Matches(f)
      BY <1>1, <2>2, ScriptMatches DEF Keepers, Keeps
    <3>2. PICK d \in Deeds(f, act.write, p) :
            d \in Deed /\ act' = Done(d.does, act) /\ (found' <=> d.claims)
      BY <3>1, Called
    <3>3. d.does = "qemu" /\ d.claims
      BY <1>1, <3>1, <3>2 DEF Keeps
    <3>4. found' /\ act'.to_qemu /\ ~act'.to_hw
      BY <1>1, <3>2, <3>3, DoneGoes
    <3> QED
      BY <3>4 DEF TowardsQemu
  <2>3. CASE f \in H /\ Held(Tail(l), G, H)
    <3>1. ~found' => TowardsQemu'
      BY <1>1, <1>2, <2>3 DEF TowardsQemu, Kept, Keepers, Yielding, Keeps, Yields, Deeds,
                              MayCover, Held
    <3>2. CASE ~Matches(f)
      BY <1>1, <3>1, <3>2 DEF PreHook
    <3>3. CASE Matches(f)
      <4>1. PICK d \in Deeds(f, act.write, p) :
              /\ d \in Deed /\ act' = Done(d.does, act) /\ (found' <=> d.claims)
              /\ p \in MayCover(f)
        BY <3>3, Called
      <4>2. d.claims => d.does \in {"qemu", "drop", "veto"}
        BY <1>1, <2>3, <4>1 DEF Yielding, Yields
      <4>3. CASE d.claims
        BY <1>1, <4>1, <4>2, <4>3, DoneGoes DEF TowardsQemu
      <4> QED
        BY <3>1, <4>1, <4>3
    <3> QED
      BY <3>2, <3>3
  <2> QED
    BY <2>1, <2>2, <2>3
<1> QED
  BY <1>3, <1>4

\* Nothing takes an access away from the target.
LEMMA TowardsTargetStep ==
  ASSUME TypeOK, PreHook, KeptByTarget(act.addr), act.to_qemu => act.to_hw
  PROVE  act'.to_qemu => act'.to_hw
<1>1. act \in Access /\ act.write \in BOOLEAN /\ Head(l) \in Filter
  BY TailOf DEF PreHook, TypeOK, Access
<1>2. CASE ~Matches(Head(l))
  BY <1>2 DEF PreHook
<1>3. CASE Matches(Head(l))
  <2>1. PICK d \in Deeds(Head(l), act.write, act.addr) :
          d \in Deed /\ act' = Done(d.does, act) /\ act.addr \in MayCover(Head(l))
    BY <1>3, Called
  <2>2. d.does # "qemu"
    BY <1>1, <2>1 DEF KeptByTarget
  <2> QED
    BY <1>1, <2>1, <2>2, DoneGoes
<1> QED
  BY <1>2, <1>3

\* Where an access was carried out, and what a read returned.
LEMMA PerformGoes ==
  ASSUME act \in Access, Perform, ~act.dropped
  PROVE  /\ "hw" \in reached' <=> act.to_hw
         /\ "qemu" \in reached' <=> act.to_qemu
         /\ ~act.write /\ ~act.faked =>
              act'.data = IF act.to_hw THEN "hw" ELSE IF act.to_qemu THEN "qemu" ELSE "none"
<1>1. Verdict(act) = act
  BY VerdictTyped
<1>2. reached' = { s \in {"hw", "qemu"} : IF s = "hw" THEN act.to_hw ELSE act.to_qemu }
  BY <1>1 DEF Perform
<1>3. ~act.write /\ ~act.faked =>
        act' = [act EXCEPT !.data = IF act.to_hw THEN "hw" ELSE IF act.to_qemu THEN "qemu" ELSE "none"]
  BY <1>1 DEF Perform
<1> QED
  BY <1>2, <1>3 DEF Access

-----------------------------------------------------------------------------
(* Steps                                                                   *)

LEMMA HomesConstant ==
  /\ \A p : KeptByQemu(p)' <=> KeptByQemu(p)
  /\ \A p : KeptByTarget(p)' <=> KeptByTarget(p)
BY DEF KeptByQemu, KeptByTarget, Keeps, Yields, Deeds, MayCover

LEMMA MemPerformStep ==
  ASSUME ChainPart, MemInv, MemPerform
  PROVE  MemInv'
<1>1. /\ phase = "pre" /\ (l = <<>> \/ found) /\ phase' = "post" /\ act \in Access
      /\ act'.write = act.write /\ act'.addr = act.addr /\ act.write \in BOOLEAN
      /\ act'.dropped = act.dropped /\ act'.faked = act.faked
      /\ act.dropped => reached' = {}
      /\ reached' \in SUBSET {"hw", "qemu"}
      /\ UNCHANGED <<registered, watched>>
      /\ newest' = IF act.write /\ act.addr = watched /\ reached' # {} THEN reached' ELSE newest
  BY PerformEffect DEF MemPerform, Perform, ChainPart, TypeOK, Access
<1>2. ~act.dropped /\ KeptByQemu(act.addr) => act.to_qemu /\ ~act.to_hw
  <2>1. ~Kept(<<>>, act.addr)
    BY DEF Kept, Held
  <2> QED
    BY <1>1, <2>1 DEF MemInv, TowardsQemu
<1>3. ~act.dropped /\ KeptByTarget(act.addr) /\ (act.to_hw \/ act.to_qemu) => act.to_hw
  BY <1>1 DEF MemInv
<1>4. ~act.dropped /\ ~act.faked => act.to_hw \/ act.to_qemu
  <2>1. ToSet(<<>>) = {}
    BY DEF ToSet
  <2> QED
    BY <1>1, <2>1 DEF ChainPart, WalkDecides, Decided
<1>5. ~act.dropped => /\ "hw" \in reached' <=> act.to_hw
                      /\ "qemu" \in reached' <=> act.to_qemu
  BY <1>1, PerformGoes DEF MemPerform
<1>6. ReadsHome'
  <2>1. ~act.dropped /\ ~act.write /\ ~act.faked =>
          act'.data = IF act.to_hw THEN "hw" ELSE IF act.to_qemu THEN "qemu" ELSE "none"
    BY <1>1, PerformGoes DEF MemPerform
  <2> QED
    BY <1>1, <1>2, <1>3, <1>4, <2>1, HomesConstant DEF ReadsHome
<1>7. NewestHome'
  <2>1. CASE act.write /\ act.addr = watched /\ reached' # {}
    <3>1. newest' = reached' /\ ~act.dropped
      BY <1>1, <2>1
    <3>2. act.to_hw \/ act.to_qemu
      BY <1>1, <1>5, <2>1, <3>1
    <3> QED
      BY <1>1, <1>2, <1>3, <1>5, <2>1, <3>1, <3>2, HomesConstant DEF NewestHome
  <2>2. CASE ~(act.write /\ act.addr = watched /\ reached' # {})
    BY <1>1, <2>2, HomesConstant DEF MemInv, NewestHome
  <2> QED
    BY <2>1, <2>2
<1> QED
  BY <1>1, <1>6, <1>7 DEF MemInv

LEMMA FastInvStep ==
  ASSUME MemInv, NEW w \in BOOLEAN, NEW p \in Port, FastAccess(w, p)
  PROVE  MemInv'
<1>1. /\ phase' = "post" /\ p \in RamPages \cup CarPages /\ UNCHANGED <<registered, watched>>
      /\ act' = [Fresh(w, p) EXCEPT !.to_qemu = TRUE, !.data = IF w THEN "guest" ELSE "qemu"]
      /\ newest' = IF w /\ p = watched THEN {"qemu"} ELSE newest
  BY DEF FastAccess, MemInv
<1>2. act'.write = w /\ act'.addr = p /\ (~w => act'.data = "qemu")
  BY <1>1 DEF Fresh
<1>3. ~KeptByTarget(p)
  BY <1>1 DEF KeptByTarget
<1>4. ReadsHome'
  BY <1>2, <1>3, HomesConstant DEF ReadsHome
<1>5. NewestHome'
  BY <1>1, <1>3, HomesConstant DEF MemInv, NewestHome
<1> QED
  BY <1>1, <1>4, <1>5 DEF MemInv

\* Steps that neither begin an access nor carry one out.
LEMMA QuietInvStep ==
  ASSUME MemInv, UNCHANGED <<watched, newest, phase, act, l, found>>,
         registered' \subseteq RamPages \cup CarPages
  PROVE  MemInv'
<1>1. \A p : Kept(l, p)' <=> Kept(l, p)
  BY DEF Kept, Held, Keepers, Yielding, Keeps, Yields, Deeds, MayCover
<1>2. TowardsQemu' <=> TowardsQemu
  BY <1>1 DEF TowardsQemu
<1> QED
  BY <1>2, HomesConstant DEF MemInv, NewestHome, ReadsHome

LEMMA MemInvStep == ChainPart /\ MemInv /\ [MemNext]_memVars => MemInv'
<1> SUFFICES ASSUME ChainPart, MemInv, [MemNext]_memVars PROVE MemInv'
  OBVIOUS
<1>t. TypeOK /\ SetUpInv /\ EnabledInv /\ act \in Access
  BY DEF ChainPart, ChainInv, TypeOK
<1>1. CASE MemSetUp
  BY <1>1, QuietInvStep DEF MemSetUp, SetUp, walk, MemInv
<1>2. CASE MemPerform
  BY <1>2, MemPerformStep
<1>3. CASE PreHook /\ UNCHANGED <<registered, watched, newest>>
  <2>1. phase = "pre" /\ phase' = "pre" /\ act'.addr = act.addr
    BY <1>3, <1>t, SameAccess DEF PreHook
  <2>2. TowardsQemu => TowardsQemu'
    BY <1>3, <1>t, TowardsQemuStep
  <2>3. KeptByTarget(act.addr) => (act'.to_qemu => act'.to_hw)
    BY <1>3, <1>t, <2>1, TowardsTargetStep DEF MemInv
  <2> QED
    BY <1>3, <2>1, <2>2, <2>3, HomesConstant DEF MemInv, NewestHome
<1>4. CASE PostHook /\ UNCHANGED <<registered, watched, newest>>
  <2>1. /\ phase = "post" /\ phase' = "post" /\ (act' = act \/ act' = Done("fake", act))
    BY <1>4 DEF PostHook
  <2>2. ReadsHome'
    BY <1>t, <2>1, FakeTyped, HomesConstant DEF MemInv, ReadsHome
  <2> QED
    BY <1>4, <2>1, <2>2, HomesConstant DEF MemInv, NewestHome
<1>5. CASE End /\ UNCHANGED <<registered, watched, newest>>
  BY <1>5, HomesConstant DEF End, MemInv, NewestHome
<1>6. CASE (ProgramElsewhere \/ EnableRam) /\ UNCHANGED <<registered, watched, newest>>
  BY <1>6, QuietInvStep DEF ProgramElsewhere, EnableRam, walk, MemInv
<1>7. ASSUME NEW w \in BOOLEAN, NEW p \in Port, Begin(w, p),
             UNCHANGED <<registered, watched, newest>>
      PROVE  MemInv'
  <2>1. /\ act' = Fresh(w, p) /\ phase' = "pre" /\ ~found' /\ l' = chain /\ todo = <<>>
    BY <1>7 DEF Begin
  <2>2. act'.addr = p /\ ~act'.to_qemu
    BY <2>1 DEF Fresh
  <2>3. KeptByQemu(p) => Kept(chain, p)
    BY <1>t, <2>1, KeptDone
  <2>4. KeptByQemu(p) => TowardsQemu'
    BY <2>1, <2>2, <2>3 DEF TowardsQemu, Kept, Keepers, Yielding, Keeps, Yields, Deeds, MayCover,
                            Held
  <2> QED
    BY <1>7, <2>1, <2>2, <2>4, HomesConstant DEF MemInv, NewestHome
<1>8. ASSUME NEW w \in BOOLEAN, NEW p \in Port, FastAccess(w, p)
      PROVE  MemInv'
  BY <1>8, FastInvStep
<1>9. CASE UNCHANGED memVars
  BY <1>9, QuietInvStep DEF memVars, vars, walk, MemInv
<1> QED
  BY <1>1, <1>2, <1>3, <1>4, <1>5, <1>6, <1>7, <1>8, <1>9 DEF MemNext, Other

\* If set-up, BARs and registered pages agree on who keeps each address, and
\* no filter claims an access without deciding about it, each read is served by a memory that has what was last written, whatever the
\* guest does with its BARs and whether softmmu asks the filters or not.
THEOREM MemoryCorrect == HaveHomes /\ ClaimersDecide => (MemSpec => []ReadsNewest)
<1> SUFFICES ASSUME HaveHomes, ClaimersDecide PROVE MemSpec => []ReadsNewest
  OBVIOUS
<1>1. MemInit => MemInv
  BY MemoryAssumption DEF MemInit, Init, MemInv, NewestHome
<1>2. TypeOK /\ MemInv => ReadsNewest
  <2>1. TypeOK => act.addr \in Port
    BY DEF TypeOK, Access
  <2> QED
    BY <2>1 DEF MemInv, NewestHome, ReadsHome, ReadsNewest, HaveHomes
<1>3. ChainPart => TypeOK
  BY DEF ChainPart
<1> QED
  BY <1>1, <1>2, <1>3, ChainPartInit, ChainPartStep, MemInvStep, PTL DEF MemSpec

(***************************************************************************)
(* The UART                                                                *)
(***************************************************************************)

LEMMA IoDeeds ==
  ASSUME IoInstance, NEW w \in BOOLEAN, NEW p \in {"com", "dock"}
  PROVE  /\ Deeds("filter_com", w, p) = {Claim("drop")}
         /\ Deeds("sio_ldn", w, p) = {Pass("handle")}
         /\ Deeds("pci_bar", w, p) = {Pass("handle")}
         /\ Deeds("mainboard", w, p) = MainboardPre(w, p)
<1>1. {"filter_com", "sio_ldn", "pci_bar", "mainboard"} \subseteq IoFilter
  BY DEF IoFilter, IoBar
<1> DEFINE x == <<w, p>>
<1>2. x \in BOOLEAN \X IoPort /\ x[1] = w /\ x[2] = p
  BY DEF IoPort
<1> HIDE DEF x
<1>3. /\ IoPreDoes["filter_com"][x] = ComPre
      /\ IoPreDoes["sio_ldn"][x] = BarPre
      /\ IoPreDoes["pci_bar"][x] = BarPre
      /\ IoPreDoes["mainboard"][x] = MainboardPre(w, p)
  BY <1>1, <1>2 DEF IoPreDoes
<1>4. \A f : Deeds(f, w, p) = IoPreDoes[f][x]
  BY DEF IoInstance, Deeds, x
<1> QED
  BY <1>3, <1>4 DEF ComPre, BarPre

\* The calls of enable_hook, one by one.
LEMMA IoSetupIs ==
  ASSUME IoInstance
  PROVE  /\ DOMAIN Setup = 1..14
         /\ Setup[1] = "fallback" /\ Setup[2] = "pci_io_cfg" /\ Setup[3] = "i8237"
         /\ Setup[4] = "i8042" /\ Setup[5] = "nvram_io" /\ Setup[6] = "debugport"
         /\ Setup[7] = "superio_cfg" /\ Setup[8] = "filter_com" /\ Setup[9] = "i8237"
         /\ Setup[10] = "i8042" /\ Setup[11] = "nvram_io" /\ Setup[12] = "debugport"
         /\ Setup[13] = "pci_io_cfg" /\ Setup[14] = "mainboard"
BY DEF IoInstance, IoSetup, Pc80Setup

LEMMA UartHasGuard ==
  ASSUME IoInstance, NEW w \in BOOLEAN
  PROVE  Shielded(w, "com")
<1>1. "filter_com" \in IoFilter \ IoBar /\ IoFixed["filter_com"] = {"com"}
  BY DEF IoFilter, IoBar, IoFixed
<1>2. 8 \in DOMAIN Setup /\ Guards(Setup[8], w, "com")
  BY <1>1, IoDeeds, IoSetupIs DEF Guards, IoInstance, Claim
<1>3. \A j \in 1..(8 - 1) : Setup[j] # Setup[8]
  <2>1. \A j \in 1..(8 - 1) : j \in {1, 2, 3, 4, 5, 6, 7}
    OBVIOUS
  <2> QED
    BY <2>1, IoSetupIs
<1>4. ASSUME NEW f \in Filter, \A j \in 1..8 : Setup[j] # f
      PROVE  Harmless(f, w, "com")
  <2>1. /\ f # "fallback" /\ f # "pci_io_cfg" /\ f # "i8237" /\ f # "i8042" /\ f # "nvram_io"
        /\ f # "debugport" /\ f # "superio_cfg" /\ f # "filter_com"
    BY <1>4, IoSetupIs
  <2>2. f \in {"sio_ldn", "pci_bar", "smbus", "mainboard"}
    BY <2>1 DEF IoInstance, IoFilter, IoBar
  <2>3. CASE f = "smbus"
    BY <2>3 DEF Harmless, MayCover, IoInstance, IoBar
  <2>4. MainboardPre(w, "com") = {Pass("pass")}
    BY DEF MainboardPre
  <2>5. CASE f \in {"sio_ldn", "pci_bar", "mainboard"}
    BY <2>4, <2>5, IoDeeds DEF Harmless, Pass
  <2> QED
    BY <2>2, <2>3, <2>5
<1> QED
  BY <1>2, <1>3, <1>4 DEF Shielded

LEMMA DockHasGuard ==
  ASSUME IoInstance, NEW w \in BOOLEAN, MainboardPre(w, "dock") = {Claim("drop")}
  PROVE  Shielded(w, "dock")
<1>1. "mainboard" \in IoFilter \ IoBar /\ IoFixed["mainboard"] = IoPort /\ "dock" \in IoPort
  BY DEF IoFilter, IoBar, IoFixed, IoPort
<1>2. /\ Deeds("sio_ldn", w, "dock") = {Pass("handle")}
      /\ Deeds("pci_bar", w, "dock") = {Pass("handle")}
      /\ Deeds("mainboard", w, "dock") = {Claim("drop")}
  <2>1. "dock" \in {"com", "dock"}
    OBVIOUS
  <2> QED
    BY <2>1, IoDeeds
<1>3. 14 \in DOMAIN Setup /\ Guards(Setup[14], w, "dock")
  BY <1>1, <1>2, IoSetupIs DEF Guards, IoInstance, Claim
<1>4. \A j \in 1..(14 - 1) : Setup[j] # Setup[14]
  <2>1. \A j \in 1..(14 - 1) : j \in {1, 2, 3, 4, 5, 6, 7, 8, 9, 10, 11, 12, 13}
    OBVIOUS
  <2> QED
    BY <2>1, IoSetupIs
<1>5. ASSUME NEW f \in Filter, \A j \in 1..14 : Setup[j] # f
      PROVE  Harmless(f, w, "dock")
  <2>1. /\ f # "fallback" /\ f # "pci_io_cfg" /\ f # "i8237" /\ f # "i8042" /\ f # "nvram_io"
        /\ f # "debugport" /\ f # "superio_cfg" /\ f # "filter_com" /\ f # "mainboard"
    BY <1>5, IoSetupIs
  <2>2. f \in {"sio_ldn", "pci_bar", "smbus"}
    BY <2>1 DEF IoInstance, IoFilter, IoBar
  <2>3. CASE f = "smbus"
    BY <2>3 DEF Harmless, MayCover, IoInstance, IoBar
  <2>4. CASE f \in {"sio_ldn", "pci_bar"}
    BY <2>4, <1>2 DEF Harmless, Pass
  <2> QED
    BY <2>2, <2>3, <2>4
<1> QED
  BY <1>3, <1>4, <1>5 DEF Shielded

\* No access of the guest gets to the UART that carries the protocol, and no
\* write to the port that disconnects it, wherever it puts the BARs of its
\* devices, NVRAM cached or not.
THEOREM UartSafe == IoInstance => (Spec => []UartShielded)
<1> SUFFICES ASSUME IoInstance PROVE Spec => []UartShielded
  OBVIOUS
<1>1. ASSUME TypeOK, ShieldHolds PROVE UartShielded
  <2>1. act.write \in BOOLEAN
    BY <1>1 DEF TypeOK, Access
  <2>2. CASE act.addr = "com"
    BY <1>1, <2>1, <2>2, UartHasGuard DEF ShieldHolds, UartShielded
  <2>3. CASE act.write /\ act.addr = "dock"
    <3>1. MainboardPre(act.write, "dock") = {Claim("drop")}
      BY <2>3 DEF MainboardPre
    <3> QED
      BY <1>1, <2>1, <2>3, <3>1, DockHasGuard DEF ShieldHolds, UartShielded
  <2> QED
    BY <2>2, <2>3 DEF UartShielded
<1> QED
  BY <1>1, TypeCorrect, ShieldCorrect, PTL
=============================================================================
