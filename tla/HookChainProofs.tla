-------------------------- MODULE HookChainProofs ---------------------------
(***************************************************************************)
(* For every table of filters: an access always goes somewhere, and a      *)
(* guard keeps what it guards although the guest moves its BARs and the    *)
(* scripts go on adding filters in front of the chain.                     *)
(***************************************************************************)
EXTENDS HookChain, TLAPS
-----------------------------------------------------------------------------
(***************************************************************************)
(* Lists.                                                                  *)
(***************************************************************************)

\* A new filter in front of the list.
LEMMA Prepended ==
  ASSUME NEW S, NEW f \in S, NEW c \in Seq(S)
  PROVE  /\ <<f>> \o c \in Seq(S)
         /\ Len(<<f>> \o c) = Len(c) + 1
         /\ (<<f>> \o c)[1] = f
         /\ \A i \in 1..Len(c) : (<<f>> \o c)[i + 1] = c[i]
         /\ \A i \in 2..Len(<<f>> \o c) : (<<f>> \o c)[i] = c[i - 1]
OBVIOUS

LEMMA PrependedSet ==
  ASSUME NEW S, NEW f \in S, NEW c \in Seq(S)
  PROVE  ToSet(<<f>> \o c) = {f} \cup ToSet(c)
<1> DEFINE d == <<f>> \o c
<1>1. /\ d \in Seq(S) /\ Len(d) = Len(c) + 1 /\ d[1] = f
      /\ \A i \in 1..Len(c) : d[i + 1] = c[i]
      /\ \A i \in 2..Len(d) : d[i] = c[i - 1]
  BY Prepended
<1> HIDE DEF d
<1>2. DOMAIN d = 1..(Len(c) + 1) /\ DOMAIN c = 1..Len(c) /\ Len(c) \in Nat
  BY <1>1
<1>3. ASSUME NEW x \in ToSet(d) PROVE x \in {f} \cup ToSet(c)
  <2>1. PICK i \in 1..(Len(c) + 1) : x = d[i]
    BY <1>2, <1>3 DEF ToSet
  <2>2. CASE i = 1
    BY <2>1, <2>2, <1>1
  <2>3. CASE i # 1
    <3>1. i - 1 \in DOMAIN c /\ x = c[i - 1]
      BY <2>1, <2>3, <1>1, <1>2
    <3> QED
      BY <3>1 DEF ToSet
  <2> QED
    BY <2>2, <2>3
<1>4. ASSUME NEW x \in {f} \cup ToSet(c) PROVE x \in ToSet(d)
  <2>1. CASE x = f
    BY <2>1, <1>1, <1>2 DEF ToSet
  <2>2. CASE x \in ToSet(c)
    <3>1. PICK i \in 1..Len(c) : x = c[i]
      BY <2>2, <1>2 DEF ToSet
    <3>2. i + 1 \in DOMAIN d /\ d[i + 1] = x
      BY <3>1, <1>1, <1>2
    <3> QED
      BY <3>2 DEF ToSet
  <2> QED
    BY <1>4, <2>1, <2>2
<1>5. ToSet(d) = {f} \cup ToSet(c)
  BY <1>3, <1>4
<1> QED
  BY <1>5 DEF d

\* The walk goes on behind the head.
LEMMA TailOf ==
  ASSUME NEW S, NEW c \in Seq(S), c # <<>>
  PROVE  /\ Head(c) = c[1] /\ Head(c) \in S /\ Tail(c) \in Seq(S)
         /\ Len(c) \in Nat /\ Len(c) >= 1 /\ Len(Tail(c)) = Len(c) - 1
         /\ \A i \in 1..(Len(c) - 1) : Tail(c)[i] = c[i + 1]
OBVIOUS

LEMMA TailSet ==
  ASSUME NEW S, NEW c \in Seq(S), c # <<>>
  PROVE  /\ Head(c) \in ToSet(c) /\ ToSet(Tail(c)) \subseteq ToSet(c)
         /\ ToSet(c) \subseteq {Head(c)} \cup ToSet(Tail(c))
<1> DEFINE t == Tail(c)
<1>1. /\ Head(c) = c[1] /\ t \in Seq(S) /\ Len(c) \in Nat /\ Len(c) >= 1
      /\ Len(t) = Len(c) - 1 /\ \A i \in 1..(Len(c) - 1) : t[i] = c[i + 1]
  BY TailOf
<1> HIDE DEF t
<1>2. DOMAIN c = 1..Len(c) /\ DOMAIN t = 1..(Len(c) - 1)
  BY <1>1
<1>3. Head(c) \in ToSet(c)
  BY <1>1, <1>2 DEF ToSet
<1>4. ASSUME NEW x \in ToSet(t) PROVE x \in ToSet(c)
  <2>1. PICK i \in 1..(Len(c) - 1) : x = t[i]
    BY <1>2, <1>4 DEF ToSet
  <2>2. i + 1 \in DOMAIN c /\ x = c[i + 1]
    BY <2>1, <1>1, <1>2
  <2> QED
    BY <2>2 DEF ToSet
<1>5. ASSUME NEW x \in ToSet(c), x # Head(c) PROVE x \in ToSet(t)
  <2>1. PICK i \in 1..Len(c) : x = c[i]
    BY <1>2, <1>5 DEF ToSet
  <2>2. i - 1 \in DOMAIN t /\ x = t[i - 1]
    BY <2>1, <1>1, <1>2, <1>5
  <2> QED
    BY <2>2 DEF ToSet
<1>6. /\ Head(c) \in ToSet(c) /\ ToSet(t) \subseteq ToSet(c)
      /\ ToSet(c) \subseteq {Head(c)} \cup ToSet(t)
  BY <1>3, <1>4, <1>5
<1> QED
  BY <1>6 DEF t
-----------------------------------------------------------------------------
(***************************************************************************)
(* Type correctness.                                                       *)
(***************************************************************************)

LEMMA HooksTyped ==
  ASSUME TypeOK, NEW f \in Filter
  PROVE  /\ EnableHook(f) => chain' \in Seq(Filter) /\ enabled' \in SUBSET ToSet(chain')
         /\ DisableHook(f) => chain' \in Seq(Filter) /\ enabled' \in SUBSET ToSet(chain')
<1>1. chain \in Seq(Filter) /\ enabled \subseteq ToSet(chain)
  BY DEF TypeOK
<1>2. <<f>> \o chain \in Seq(Filter) /\ ToSet(<<f>> \o chain) = {f} \cup ToSet(chain)
  BY <1>1, Prepended, PrependedSet
<1>3. CASE f \in ToSet(chain)
  BY <1>1, <1>3 DEF EnableHook, DisableHook
<1>4. CASE f \notin ToSet(chain)
  BY <1>1, <1>2, <1>4 DEF EnableHook, DisableHook
<1> QED
  BY <1>3, <1>4

\* The variables that describe the filters.
HooksOK ==
  /\ chain \in Seq(Filter) /\ enabled \in SUBSET ToSet(chain)
  /\ base \in [Bar -> Port \cup {Nowhere}]
  /\ \A b \in Bar : base[b] \in Windows[b] \cup {Nowhere}

LEMMA BarsTyped ==
  ASSUME TypeOK, NEW b \in Bar, NEW p \in Windows[b], ProgramBar(b, p)
  PROVE  HooksOK'
<1>1. b \in Filter /\ p \in Port \cup {Nowhere}
  BY ChainAssumption
<1>2. chain' \in Seq(Filter) /\ enabled' \in SUBSET ToSet(chain')
  BY <1>1, HooksTyped DEF ProgramBar
<1>3. base' = [base EXCEPT ![b] = p] /\ base \in [Bar -> Port \cup {Nowhere}]
  BY DEF ProgramBar, TypeOK
<1>4. base' \in [Bar -> Port \cup {Nowhere}]
  BY <1>1, <1>3
<1>5. \A c \in Bar : base'[c] \in Windows[c] \cup {Nowhere}
  BY <1>3 DEF TypeOK
<1> QED
  BY <1>2, <1>4, <1>5 DEF HooksOK

LEMMA MayProgramTyped ==
  ASSUME TypeOK, NEW f, MayProgramBar(f)
  PROVE  HooksOK'
<1>1. CASE UNCHANGED hooks
  BY <1>1 DEF TypeOK, HooksOK, hooks
<1>2. CASE \E b \in Bar : \E p \in Windows[b] : ProgramBar(b, p)
  BY <1>2, BarsTyped
<1> QED
  BY <1>1, <1>2 DEF MayProgramBar

\* What a pre function does leaves the access an access.
LEMMA DoneTyped ==
  ASSUME NEW a \in Access, NEW d \in Deed
  PROVE  /\ Done(d.does, a) \in Access
         /\ Done(d.does, a).write = a.write /\ Done(d.does, a).addr = a.addr
         /\ a.dropped => Done(d.does, a).dropped
         /\ d.does = "drop" => Done(d.does, a).dropped
<1>1. d.does \in {"pass", "handle", "target", "qemu", "both", "drop", "veto", "fake"}
  BY DEF Deed
<1> QED
  BY <1>1 DEF Done, Access

LEMMA FakeTyped ==
  ASSUME NEW a \in Access
  PROVE  /\ Done("fake", a) \in Access
         /\ Done("fake", a).write = a.write /\ Done("fake", a).addr = a.addr
         /\ Done("fake", a).dropped = a.dropped /\ Done("fake", a).faked
BY DEF Done, Access

LEMMA FreshTyped ==
  ASSUME NEW w \in BOOLEAN, NEW p \in Port
  PROVE  /\ Fresh(w, p) \in Access
         /\ Fresh(w, p).write = w /\ Fresh(w, p).addr = p
BY DEF Fresh, Access

LEMMA VerdictTyped ==
  ASSUME NEW a \in Access
  PROVE  /\ Verdict(a) \in Access
         /\ Verdict(a).write = a.write /\ Verdict(a).addr = a.addr
         /\ Verdict(a).dropped = a.dropped /\ Verdict(a).faked = a.faked
         /\ a.dropped => ~Verdict(a).to_hw /\ ~Verdict(a).to_qemu
         /\ ~a.dropped => Verdict(a) = a
BY DEF Verdict, Access

\* What is carried out, and what becomes of the record.
LEMMA PerformEffect ==
  ASSUME act \in Access, Perform
  PROVE  /\ act' \in Access /\ act'.write = act.write /\ act'.addr = act.addr
         /\ act'.dropped = act.dropped /\ act'.faked = act.faked
         /\ act.dropped => reached' = {}
         /\ ~act.dropped /\ (act.to_hw \/ act.to_qemu) => reached' # {}
         /\ reached' \in SUBSET {"hw", "qemu"}
<1> DEFINE a == Verdict(act)
           read == IF a.to_hw THEN "hw" ELSE IF a.to_qemu THEN "qemu" ELSE "none"
<1>1. /\ a \in Access /\ a.write = act.write /\ a.addr = act.addr
      /\ a.dropped = act.dropped /\ a.faked = act.faked
      /\ act.dropped => ~a.to_hw /\ ~a.to_qemu
      /\ ~act.dropped => a = act
  BY VerdictTyped
<1>2. /\ reached' = { s \in {"hw", "qemu"} : IF s = "hw" THEN a.to_hw ELSE a.to_qemu }
      /\ act' = IF a.write \/ a.faked \/ a.dropped THEN a ELSE [a EXCEPT !.data = read]
  BY DEF Perform
<1>3. read \in {"hw", "qemu", "none"}
  OBVIOUS
<1> HIDE DEF a, read
<1>4. /\ act' \in Access /\ act'.write = a.write /\ act'.addr = a.addr
      /\ act'.dropped = a.dropped /\ act'.faked = a.faked
  BY <1>1, <1>2, <1>3 DEF Access
<1>5. act.dropped => reached' = {}
  BY <1>1, <1>2
<1>6. ~act.dropped /\ act.to_hw => "hw" \in reached'
  BY <1>1, <1>2
<1>7. ~act.dropped /\ act.to_qemu => "qemu" \in reached'
  BY <1>1, <1>2
<1>8. reached' \in SUBSET {"hw", "qemu"}
  BY <1>2
<1> QED
  BY <1>1, <1>4, <1>5, <1>6, <1>7, <1>8

LEMMA DeedTyped ==
  ASSUME TypeOK, NEW f \in Filter, NEW d \in Deeds(f, act.write, act.addr)
  PROVE  d \in Deed
<1>1. act.write \in BOOLEAN /\ act.addr \in Port
  BY DEF TypeOK, Access
<1>2. <<act.write, act.addr>> \in BOOLEAN \X Port
  BY <1>1
<1>3. PreDoes[f] \in [BOOLEAN \X Port -> SUBSET Deed]
  BY ChainAssumption
<1> QED
  BY <1>2, <1>3 DEF Deeds

\* The part of the state that a step of the walk leaves alone or changes.
LEMMA TypeInit == Init => TypeOK
<1> SUFFICES ASSUME Init PROVE TypeOK
  OBVIOUS
<1>1. PICK p \in Port : act = Fresh(FALSE, p)
  BY DEF Init
<1>2. act \in Access
  BY <1>1, FreshTyped
<1>3. todo \in Seq(Filter \ Bar)
  BY ChainAssumption DEF Init
<1>4. chain \in Seq(Filter) /\ l \in Seq(Filter) /\ phase = "idle"
  BY DEF Init
<1>6. enabled \in SUBSET ToSet(chain) /\ reached \in SUBSET {"hw", "qemu"}
  BY DEF Init
<1>7. found \in BOOLEAN
  BY DEF Init
<1>5. base \in [Bar -> Port \cup {Nowhere}] /\ \A b \in Bar : base[b] \in Windows[b] \cup {Nowhere}
  BY DEF Init
<1> QED
  BY <1>2, <1>3, <1>4, <1>5, <1>6, <1>7 DEF TypeOK

LEMMA TypeStep == TypeOK /\ [Next]_vars => TypeOK'
<1> SUFFICES ASSUME TypeOK, [Next]_vars PROVE TypeOK'
  OBVIOUS
<1> DEFINE Rest == /\ todo' \in Seq(Filter \ Bar) /\ phase' \in {"idle", "pre", "post"}
                   /\ act' \in Access /\ l' \in Seq(Filter) /\ found' \in BOOLEAN
                   /\ reached' \in SUBSET {"hw", "qemu"}
<1>q. HooksOK' /\ Rest => TypeOK'
  BY DEF HooksOK, TypeOK
<1>h. HooksOK
  BY DEF TypeOK, HooksOK
<1>u. UNCHANGED hooks => HooksOK'
  BY <1>h DEF hooks, HooksOK
<1>1. CASE SetUp
  <2>1. Head(todo) \in Filter \ Bar /\ Tail(todo) \in Seq(Filter \ Bar)
    BY <1>1, TailOf DEF SetUp, TypeOK
  <2>2. chain' \in Seq(Filter) /\ enabled' \in SUBSET ToSet(chain')
    BY <1>1, <2>1, HooksTyped DEF SetUp
  <2>3. HooksOK'
    BY <1>1, <2>2, <1>h DEF SetUp, HooksOK
  <2>4. Rest
    BY <1>1, <2>1 DEF SetUp, TypeOK, walk
  <2> QED
    BY <2>3, <2>4, <1>q
<1>2. CASE EnableRam
  <2>1. Rest
    BY <1>2, ChainAssumption DEF EnableRam, TypeOK, walk
  <2> QED
    BY <2>1, <1>2, <1>q, <1>u DEF EnableRam
<1>3. CASE ProgramElsewhere
  <2>1. HooksOK'
    BY <1>3, BarsTyped DEF ProgramElsewhere
  <2>2. Rest
    BY <1>3 DEF ProgramElsewhere, TypeOK, walk
  <2> QED
    BY <2>1, <2>2, <1>q
<1>4. ASSUME NEW w \in BOOLEAN, NEW p \in Port, Begin(w, p) PROVE TypeOK'
  <2>1. act' \in Access
    BY <1>4, FreshTyped DEF Begin
  <2>2. Rest
    BY <1>4, <2>1 DEF Begin, TypeOK
  <2> QED
    BY <2>2, <1>4, <1>q, <1>u DEF Begin
<1>5. CASE PreHook
  <2>1. Head(l) \in Filter /\ Tail(l) \in Seq(Filter)
    BY <1>5, TailOf DEF PreHook, TypeOK
  <2>2. CASE Matches(Head(l))
    <3>1. PICK d \in Deeds(Head(l), act.write, act.addr) :
            act' = Done(d.does, act) /\ found' = Claims(d)
      BY <1>5, <2>2 DEF PreHook
    <3>2. d \in Deed
      BY <2>1, DeedTyped
    <3>3. act' \in Access
      BY <3>1, <3>2, DoneTyped DEF TypeOK
    <3>4. found' \in BOOLEAN
      BY <3>1, <3>2, Zenon DEF Claims, Deed
    <3>5. HooksOK'
      BY <1>5, <2>2, MayProgramTyped DEF PreHook
    <3>6. Rest
      BY <1>5, <2>1, <3>3, <3>4 DEF PreHook, TypeOK
    <3> QED
      BY <3>5, <3>6, <1>q
  <2>3. CASE ~Matches(Head(l))
    <3>1. Rest
      BY <1>5, <2>1, <2>3 DEF PreHook, TypeOK
    <3> QED
      BY <3>1, <1>5, <2>3, <1>q, <1>u DEF PreHook
  <2> QED
    BY <2>2, <2>3
<1>6. CASE Perform
  <2>1. act' \in Access /\ reached' \in SUBSET {"hw", "qemu"}
    BY <1>6, PerformEffect DEF TypeOK
  <2>2. Rest
    BY <1>6, <2>1 DEF Perform, TypeOK
  <2> QED
    BY <2>2, <1>6, <1>q, <1>u DEF Perform
<1>7. CASE PostHook
  <2>1. Head(l) \in Filter /\ Tail(l) \in Seq(Filter)
    BY <1>7, TailOf DEF PostHook, TypeOK
  <2>2. act' \in Access
    BY <1>7, FakeTyped DEF PostHook, TypeOK
  <2>3. HooksOK'
    BY <1>7, MayProgramTyped, <1>u DEF PostHook
  <2>4. Rest
    BY <1>7, <2>1, <2>2 DEF PostHook, TypeOK
  <2> QED
    BY <2>3, <2>4, <1>q
<1>8. CASE End
  <2>1. Rest
    BY <1>8 DEF End, TypeOK, walk
  <2> QED
    BY <2>1, <1>8, <1>q, <1>u DEF End
<1>9. CASE UNCHANGED vars
  <2>1. Rest
    BY <1>9 DEF vars, walk, TypeOK
  <2> QED
    BY <2>1, <1>9, <1>q, <1>u DEF vars
<1> QED
  BY <1>1, <1>2, <1>3, <1>4, <1>5, <1>6, <1>7, <1>8, <1>9 DEF Next, Walk

\* The list, its filters and the access under way are what they should be.
THEOREM TypeCorrect == Spec => []TypeOK
BY TypeInit, TypeStep, PTL DEF Spec
-----------------------------------------------------------------------------
(***************************************************************************)
(* What a step does to the list.                                           *)
(***************************************************************************)

\* Filters are added in front, one at a time, or not at all.
Grown(f) == chain' = chain \/ (f \notin ToSet(chain) /\ chain' = <<f>> \o chain)

\* Only filters of BARs are disabled.
KeepsEnabled == enabled \ Bar \subseteq enabled'

LEMMA BarStep ==
  ASSUME NEW b \in Bar, NEW p, ProgramBar(b, p)
  PROVE  Grown(b) /\ KeepsEnabled
BY DEF ProgramBar, EnableHook, DisableHook, Grown, KeepsEnabled

LEMMA MayProgramStep ==
  ASSUME NEW f, MayProgramBar(f)
  PROVE  (chain' = chain \/ \E b \in Bar : Grown(b)) /\ KeepsEnabled
<1>1. CASE UNCHANGED hooks
  BY <1>1 DEF hooks, KeepsEnabled
<1>2. CASE \E b \in Bar : \E p \in Windows[b] : ProgramBar(b, p)
  BY <1>2, BarStep
<1> QED
  BY <1>1, <1>2 DEF MayProgramBar

\* Any step but those of the scripts adds a BAR's filter at most.
LEMMA ChainStep ==
  ASSUME [Next]_vars, ~SetUp
  PROVE  (chain' = chain \/ \E b \in Bar : Grown(b)) /\ KeepsEnabled
<1>0. UNCHANGED hooks => chain' = chain /\ KeepsEnabled
  BY DEF hooks, KeepsEnabled
<1>1. CASE ProgramElsewhere
  BY <1>1, BarStep DEF ProgramElsewhere
<1>2. CASE PreHook
  BY <1>2, <1>0, MayProgramStep DEF PreHook
<1>3. CASE PostHook
  BY <1>3, <1>0, MayProgramStep DEF PostHook
<1>4. CASE EnableRam \/ Perform \/ End \/ UNCHANGED vars \/ \E w \in BOOLEAN, p \in Port : Begin(w, p)
  BY <1>4, <1>0 DEF EnableRam, Perform, End, Begin, vars
<1> QED
  BY <1>1, <1>2, <1>3, <1>4 DEF Next, Walk
-----------------------------------------------------------------------------
(***************************************************************************)
(* No filter is linked twice.                                              *)
(***************************************************************************)

LEMMA InjectivePrepend ==
  ASSUME NEW c \in Seq(Filter), NEW f \in Filter, f \notin ToSet(c), IsInjective(c)
  PROVE  IsInjective(<<f>> \o c)
<1> DEFINE d == <<f>> \o c
<1>1. /\ d \in Seq(Filter) /\ Len(d) = Len(c) + 1 /\ d[1] = f
      /\ \A i \in 2..Len(d) : d[i] = c[i - 1]
  BY Prepended
<1>2. DOMAIN c = 1..Len(c) /\ DOMAIN d = 1..(Len(c) + 1) /\ Len(c) \in Nat
  BY <1>1
<1> HIDE DEF d
<1>3. \A i \in 2..Len(d) : i - 1 \in DOMAIN c /\ d[i] = c[i - 1] /\ d[i] # f
  <2>1. TAKE i \in 2..Len(d)
  <2>2. i - 1 \in DOMAIN c /\ d[i] = c[i - 1]
    BY <1>1, <1>2
  <2> QED
    BY <2>2 DEF ToSet
<1>4. ASSUME NEW i \in DOMAIN d, NEW j \in DOMAIN d, d[i] = d[j] PROVE i = j
  <2>1. CASE i = 1 \/ j = 1
    BY <2>1, <1>1, <1>2, <1>3, <1>4
  <2>2. CASE i # 1 /\ j # 1
    <3>1. i \in 2..Len(d) /\ j \in 2..Len(d)
      BY <2>2, <1>1, <1>2
    <3>2. i - 1 = j - 1
      BY <3>1, <1>3, <1>4 DEF IsInjective
    <3> QED
      BY <3>1, <3>2
  <2> QED
    BY <2>1, <2>2
<1>5. IsInjective(d)
  BY <1>4 DEF IsInjective
<1> QED
  BY <1>5 DEF d

LEMMA GrownInjective ==
  ASSUME TypeOK, NoDuplicates, NEW f \in Filter, Grown(f)
  PROVE  NoDuplicates'
BY InjectivePrepend DEF Grown, NoDuplicates, TypeOK

\* enable_hook may be called for any filter at any time, again and again: the
\* list stays free of duplicates.
THEOREM ListedOnce == Spec => []NoDuplicates
<1>1. Init => NoDuplicates
  BY DEF Init, NoDuplicates, IsInjective
<1>2. TypeOK /\ NoDuplicates /\ [Next]_vars => NoDuplicates'
  <2> SUFFICES ASSUME TypeOK, NoDuplicates, [Next]_vars PROVE NoDuplicates'
    OBVIOUS
  <2>1. CASE SetUp
    <3>1. Head(todo) \in Filter
      BY <2>1, TailOf DEF SetUp, TypeOK
    <3>2. Grown(Head(todo))
      BY <2>1 DEF SetUp, EnableHook, Grown
    <3> QED
      BY <3>1, <3>2, GrownInjective
  <2>2. CASE ~SetUp
    <3>1. Bar \subseteq Filter
      BY ChainAssumption
    <3>2. CASE chain' = chain
      BY <3>2 DEF NoDuplicates
    <3>3. CASE \E b \in Bar : Grown(b)
      BY <3>1, <3>3, GrownInjective
    <3> QED
      BY <2>2, <3>2, <3>3, ChainStep
  <2> QED
    BY <2>1, <2>2
<1> QED
  BY <1>1, <1>2, TypeCorrect, PTL DEF Spec
-----------------------------------------------------------------------------
(***************************************************************************)
(* The strengthening that both remaining theorems need: how far the set-up *)
(* has come, and what has to be in the list by then.                       *)
(***************************************************************************)

\* On its way through list s an access meets one of the filters in G before
\* any that is not in H.
Held(s, G, H) == \E i \in DOMAIN s : s[i] \in G /\ \A j \in 1..(i - 1) : s[j] \in H

\* The i-th call of the set-up enables a filter of G, and only filters of H can
\* ever get in front of it.
HeldBy(i, G, H) ==
  /\ Setup[i] \in G
  /\ \A j \in 1..(i - 1) : Setup[j] # Setup[i]
  /\ \A f \in Filter : (\A j \in 1..i : Setup[j] # f) => f \in H

GuardSet(w, p) == {f \in Filter : Guards(f, w, p)}
HarmlessSet(w, p) == {f \in Filter : Harmless(f, w, p)}

\* Such an access meets a guard before anything that would take it.
Stopped(s, w, p) == Held(s, GuardSet(w, p), HarmlessSet(w, p))

\* The first k calls of the set-up are done.
SetUpTo(k) ==
  /\ \A j \in 1..k : Setup[j] \in ToSet(chain)
  /\ \A i \in 1..k : \A G, H \in SUBSET Filter : HeldBy(i, G, H) => Held(chain, G, H)
  /\ k < Len(Setup) =>
       /\ phase = "idle" /\ todo = SubSeq(Setup, k + 1, Len(Setup))
       /\ \A f \in ToSet(chain) : \E j \in 1..k : f = Setup[j]

SetUpInv == \E k \in 0..Len(Setup) : SetUpTo(k)

\* Filters of the scripts stay enabled; those of BARs may not.
EnabledInv == ToSet(chain) \ Bar \subseteq enabled /\ ToSet(l) \ Bar \subseteq enabled

ChainInv == SetUpInv /\ EnabledInv

LEMMA SetupTyped ==
  /\ Setup \in Seq(Filter \ Bar) /\ Len(Setup) \in Nat /\ Len(Setup) >= 1
  /\ \A i \in 1..Len(Setup) : Setup[i] \in Filter \ Bar
BY ChainAssumption, FallbackAssumption

\* A filter of H in front of the list lets accesses through.
LEMMA HeldBehind ==
  ASSUME NEW c \in Seq(Filter), NEW f \in Filter, NEW G, NEW H,
         Held(c, G, H), f \in H
  PROVE  Held(<<f>> \o c, G, H)
<1> DEFINE d == <<f>> \o c
<1>1. /\ d \in Seq(Filter) /\ Len(d) = Len(c) + 1 /\ d[1] = f /\ Len(c) \in Nat
      /\ \A i \in 1..Len(c) : d[i + 1] = c[i]
      /\ \A i \in 2..Len(d) : d[i] = c[i - 1]
  BY Prepended
<1>2. DOMAIN c = 1..Len(c) /\ DOMAIN d = 1..(Len(c) + 1)
  BY <1>1
<1> HIDE DEF d
<1>3. PICK i \in 1..Len(c) : c[i] \in G /\ \A j \in 1..(i - 1) : c[j] \in H
  BY <1>2 DEF Held
<1>4. i + 1 \in DOMAIN d /\ d[i + 1] \in G
  BY <1>1, <1>2, <1>3
<1>5. ASSUME NEW j \in 1..i PROVE d[j] \in H
  <2>1. CASE j = 1
    BY <2>1, <1>1
  <2>2. CASE j # 1
    <3>1. j - 1 \in 1..(i - 1) /\ d[j] = c[j - 1]
      BY <2>2, <1>1, <1>3
    <3> QED
      BY <3>1, <1>3
  <2> QED
    BY <2>1, <2>2
<1>6. Held(d, G, H)
  <2>1. (i + 1) - 1 = i
    BY <1>3
  <2> QED
    BY <2>1, <1>4, <1>5 DEF Held
<1> QED
  BY <1>6 DEF d

\* What is enabled first comes first.
LEMMA HeldAtOnce ==
  ASSUME NEW c \in Seq(Filter), NEW f \in Filter, NEW G, NEW H, f \in G
  PROVE  Held(<<f>> \o c, G, H)
<1> DEFINE d == <<f>> \o c
<1>1. d \in Seq(Filter) /\ Len(d) = Len(c) + 1 /\ d[1] = f /\ Len(c) \in Nat
  BY Prepended
<1> HIDE DEF d
<1>2. 1 \in DOMAIN d /\ d[1] \in G /\ 1..(1 - 1) = {}
  BY <1>1
<1>3. Held(d, G, H)
  BY <1>2 DEF Held
<1> QED
  BY <1>3 DEF d

\* What the set-up has done cannot be undone by adding filters.
LEMMA GrownSetUp ==
  ASSUME TypeOK, NEW k \in 0..Len(Setup), SetUpTo(k), NEW f \in Filter, Grown(f)
  PROVE  /\ \A j \in 1..k : Setup[j] \in ToSet(chain')
         /\ \A i \in 1..k : \A G, H \in SUBSET Filter :
              HeldBy(i, G, H) => Held(chain', G, H)
<1>0. chain \in Seq(Filter)
  BY DEF TypeOK
<1>1. CASE chain' = chain
  BY <1>1 DEF SetUpTo
<1>2. CASE f \notin ToSet(chain) /\ chain' = <<f>> \o chain
  <2>1. ToSet(chain) \subseteq ToSet(chain')
    BY <1>0, <1>2, PrependedSet
  <2>2. ASSUME NEW i \in 1..k, NEW G \in SUBSET Filter, NEW H \in SUBSET Filter, HeldBy(i, G, H)
        PROVE  Held(chain', G, H)
    <3>1. \A j \in 1..i : Setup[j] \in ToSet(chain)
      BY SetupTyped DEF SetUpTo
    <3>2. \A j \in 1..i : Setup[j] # f
      BY <3>1, <1>2
    <3>3. f \in H
      BY <2>2, <3>2 DEF HeldBy
    <3>4. Held(chain, G, H)
      BY <2>2 DEF SetUpTo
    <3> QED
      BY <3>3, <3>4, <1>0, <1>2, HeldBehind
  <2> QED
    BY <2>1, <2>2 DEF SetUpTo
<1> QED
  BY <1>1, <1>2 DEF Grown

\* One more call of the set-up.
LEMMA SetUpOneMore ==
  ASSUME TypeOK, NEW k \in 0..Len(Setup), k < Len(Setup), SetUpTo(k), SetUp
  PROVE  SetUpTo(k + 1)'
<1> DEFINE f == Setup[k + 1]
<1>1. Setup \in Seq(Filter \ Bar) /\ Len(Setup) \in Nat /\ k + 1 \in 1..Len(Setup)
  BY SetupTyped
<1>2. todo = SubSeq(Setup, k + 1, Len(Setup)) /\ phase = "idle"
  BY DEF SetUpTo
<1>3. Head(todo) = f /\ (k + 1 < Len(Setup) => Tail(todo) = SubSeq(Setup, k + 2, Len(Setup)))
  BY <1>1, <1>2
<1>4. f \in Filter /\ EnableHook(f) /\ todo' = Tail(todo) /\ phase' = "idle"
  BY <1>1, <1>2, <1>3, SetupTyped DEF SetUp
<1> HIDE DEF f
<1>5. Grown(f)
  BY <1>4 DEF EnableHook, Grown
<1>6. chain \in Seq(Filter)
  BY DEF TypeOK
<1>7. f \in ToSet(chain')
  BY <1>4, <1>6, PrependedSet DEF EnableHook
<1>8. \A j \in 1..(k + 1) : Setup[j] \in ToSet(chain')
  <2>1. \A j \in 1..k : Setup[j] \in ToSet(chain')
    BY <1>4, <1>5, GrownSetUp
  <2> QED
    BY <2>1, <1>7 DEF f
<1>9. ASSUME NEW i \in 1..(k + 1), NEW G \in SUBSET Filter, NEW H \in SUBSET Filter,
             HeldBy(i, G, H)
      PROVE  Held(chain', G, H)
  <2>1. CASE i \in 1..k
    BY <2>1, <1>4, <1>5, <1>9, GrownSetUp
  <2>2. CASE i = k + 1
    <3>1. f \in G /\ \A j \in 1..k : Setup[j] # f
      BY <2>2, <1>9 DEF HeldBy, f
    <3>2. f \notin ToSet(chain)
      BY <3>1 DEF SetUpTo
    <3>3. chain' = <<f>> \o chain
      BY <3>2, <1>4 DEF EnableHook
    <3> QED
      BY <3>1, <3>3, <1>4, <1>6, HeldAtOnce
  <2> QED
    BY <2>1, <2>2
<1>10. \A g \in ToSet(chain') : \E j \in 1..(k + 1) : g = Setup[j]
  <2>1. \A g \in ToSet(chain) : \E j \in 1..(k + 1) : g = Setup[j]
    BY DEF SetUpTo
  <2>2. ToSet(chain') \subseteq {f} \cup ToSet(chain)
    BY <1>4, <1>6, PrependedSet DEF EnableHook
  <2> QED
    BY <2>1, <2>2 DEF f
<1>11. (k + 1) + 1 = k + 2
  OBVIOUS
<1> QED
  BY <1>3, <1>4, <1>8, <1>9, <1>10, <1>11 DEF SetUpTo

LEMMA ChainInvInit == Init => ChainInv
<1> SUFFICES ASSUME Init PROVE ChainInv
  OBVIOUS
<1>1. 0 \in 0..Len(Setup) /\ 1..0 = {}
  BY SetupTyped
<1>2. ToSet(<<>>) = {}
  BY DEF ToSet
<1>3. SubSeq(Setup, 0 + 1, Len(Setup)) = Setup
  BY SetupTyped
<1>4. SetUpTo(0)
  BY <1>1, <1>2, <1>3 DEF Init, SetUpTo
<1>5. EnabledInv
  BY <1>2 DEF Init, EnabledInv
<1> QED
  BY <1>1, <1>4, <1>5 DEF ChainInv, SetUpInv

LEMMA SetUpInvStep == TypeOK /\ SetUpInv /\ [Next]_vars => SetUpInv'
<1> SUFFICES ASSUME TypeOK, SetUpInv, [Next]_vars PROVE SetUpInv'
  OBVIOUS
<1>1. PICK k \in 0..Len(Setup) : SetUpTo(k)
  BY DEF SetUpInv
<1>2. CASE SetUp /\ k < Len(Setup)
  <2>1. k + 1 \in 0..Len(Setup)
    BY <1>2, SetupTyped
  <2> QED
    BY <2>1, <1>1, <1>2, SetUpOneMore DEF SetUpInv
<1>3. CASE SetUp /\ k = Len(Setup)
  <2>1. Head(todo) \in Filter
    BY <1>3, TailOf DEF SetUp, TypeOK
  <2>2. Grown(Head(todo))
    BY <1>3 DEF SetUp, EnableHook, Grown
  <2>3. SetUpTo(k)'
    BY <1>1, <1>3, <2>1, <2>2, GrownSetUp, SetupTyped DEF SetUpTo
  <2> QED
    BY <2>3 DEF SetUpInv
<1>4. CASE ~SetUp /\ k = Len(Setup)
  <2>1. CASE chain' = chain
    <3>1. SetUpTo(k)'
      BY <1>1, <1>4, <2>1, SetupTyped DEF SetUpTo
    <3> QED
      BY <3>1 DEF SetUpInv
  <2>2. CASE \E b \in Bar : Grown(b)
    <3>1. Bar \subseteq Filter
      BY ChainAssumption
    <3>2. SetUpTo(k)'
      BY <1>1, <1>4, <2>2, <3>1, GrownSetUp, SetupTyped DEF SetUpTo
    <3> QED
      BY <3>2 DEF SetUpInv
  <2> QED
    BY <1>4, <2>1, <2>2, ChainStep
<1>5. CASE ~SetUp /\ k < Len(Setup)
  <2>1. phase = "idle" /\ todo # <<>>
    BY <1>1, <1>5, SetupTyped DEF SetUpTo
  <2>2. UNCHANGED vars
    BY <1>5, <2>1 DEF Next, Walk, EnableRam, ProgramElsewhere, Begin, PreHook, Perform, PostHook, End
  <2>3. SetUpTo(k)'
    BY <1>1, <2>2 DEF SetUpTo, vars, hooks
  <2> QED
    BY <2>3 DEF SetUpInv
<1> QED
  BY <1>2, <1>3, <1>4, <1>5, SetupTyped

\* The walk visits the list as it was when it began, or what is left of it.
LEMMA WalkShrinks ==
  ASSUME TypeOK, [Next]_vars
  PROVE  ToSet(l') \subseteq ToSet(l) \cup ToSet(chain)
<1>1. CASE (\E w \in BOOLEAN, p \in Port : Begin(w, p)) \/ Perform
  BY <1>1 DEF Begin, Perform
<1>2. CASE PreHook \/ PostHook
  BY <1>2, TailSet DEF PreHook, PostHook, TypeOK
<1>3. CASE SetUp \/ EnableRam \/ ProgramElsewhere \/ End \/ UNCHANGED vars
  BY <1>3 DEF SetUp, EnableRam, ProgramElsewhere, End, vars, walk
<1> QED
  BY <1>1, <1>2, <1>3 DEF Next, Walk

LEMMA EnabledInvStep == TypeOK /\ EnabledInv /\ [Next]_vars => EnabledInv'
<1> SUFFICES ASSUME TypeOK, EnabledInv, [Next]_vars PROVE EnabledInv'
  OBVIOUS
<1>1. ToSet(l') \subseteq ToSet(l) \cup ToSet(chain)
  BY WalkShrinks
<1>2. chain \in Seq(Filter) /\ Bar \subseteq Filter
  BY ChainAssumption DEF TypeOK
<1>3. CASE SetUp
  <2>1. Head(todo) \in Filter /\ EnableHook(Head(todo))
    BY <1>3, TailOf DEF SetUp, TypeOK
  <2>2. ToSet(chain') \subseteq {Head(todo)} \cup ToSet(chain)
    BY <2>1, <1>2, PrependedSet DEF EnableHook
  <2>3. enabled' = enabled \cup {Head(todo)}
    BY <2>1 DEF EnableHook
  <2> QED
    BY <1>1, <2>2, <2>3 DEF EnabledInv
<1>4. CASE ~SetUp
  <2>1. KeepsEnabled
    BY <1>4, ChainStep
  <2>2. ToSet(chain') \subseteq Bar \cup ToSet(chain)
    <3>1. CASE chain' = chain
      BY <3>1
    <3>2. ASSUME NEW b \in Bar, Grown(b) PROVE ToSet(chain') \subseteq {b} \cup ToSet(chain)
      BY <3>2, <1>2, PrependedSet DEF Grown
    <3> QED
      BY <1>4, <3>1, <3>2, ChainStep
  <2> QED
    BY <1>1, <2>1, <2>2 DEF EnabledInv, KeepsEnabled
<1> QED
  BY <1>3, <1>4

LEMMA ChainInvHolds == Spec => [](TypeOK /\ ChainInv)
<1>1. TypeOK /\ ChainInv /\ [Next]_vars => ChainInv'
  BY SetUpInvStep, EnabledInvStep DEF ChainInv
<1> QED
  BY <1>1, ChainInvInit, TypeCorrect, PTL DEF Spec

\* When the guest runs, the set-up is complete.
LEMMA SetUpDone ==
  ASSUME SetUpInv, todo = <<>>
  PROVE  SetUpTo(Len(Setup))
<1>1. PICK k \in 0..Len(Setup) : SetUpTo(k)
  BY DEF SetUpInv
<1>2. ASSUME k < Len(Setup) PROVE SubSeq(Setup, k + 1, Len(Setup)) # <<>>
  <2> DEFINE s == SubSeq(Setup, k + 1, Len(Setup))
  <2>1. Len(s) = Len(Setup) - k
    BY <1>1, <1>2, SetupTyped
  <2>2. Len(<<>>) = 0
    OBVIOUS
  <2> HIDE DEF s
  <2>3. s # <<>>
    BY <1>1, <1>2, <2>1, <2>2, SetupTyped
  <2> QED
    BY <2>3 DEF s
<1>3. k = Len(Setup)
  BY <1>1, <1>2, SetupTyped DEF SetUpTo
<1> QED
  BY <1>1, <1>3
-----------------------------------------------------------------------------
(***************************************************************************)
(* Guards.                                                                 *)
(***************************************************************************)

\* An access that a guard stops has been stopped, or will be.
WalkGuarded ==
  /\ phase = "pre" /\ Shielded(act.write, act.addr) =>
       act.dropped \/ (~found /\ Stopped(l, act.write, act.addr))
  /\ ShieldHolds

LEMMA ShieldedStops ==
  ASSUME SetUpInv, todo = <<>>, NEW w \in BOOLEAN, NEW p \in Port, Shielded(w, p)
  PROVE  Stopped(chain, w, p)
<1>1. SetUpTo(Len(Setup))
  BY SetUpDone
<1> DEFINE G == GuardSet(w, p)
           H == HarmlessSet(w, p)
<1>2. PICK i \in 1..Len(Setup) : HeldBy(i, G, H)
  BY SetupTyped DEF Shielded, HeldBy, GuardSet, HarmlessSet
<1>3. G \in SUBSET Filter /\ H \in SUBSET Filter
  BY DEF GuardSet, HarmlessSet
<1> QED
  BY <1>1, <1>2, <1>3 DEF SetUpTo, Stopped

LEMMA HeldTail ==
  ASSUME NEW s \in Seq(Filter), NEW G, NEW H, Held(s, G, H)
  PROVE  s # <<>> /\ (Head(s) \in G \/ (Head(s) \in H /\ Held(Tail(s), G, H)))
<1>1. PICK i \in 1..Len(s) : s[i] \in G /\ \A j \in 1..(i - 1) : s[j] \in H
  BY DEF Held
<1>2. s # <<>>
  BY <1>1
<1>3. /\ Head(s) = s[1] /\ Tail(s) \in Seq(Filter) /\ Len(s) \in Nat /\ Len(s) >= 1
      /\ Len(Tail(s)) = Len(s) - 1 /\ \A k \in 1..(Len(s) - 1) : Tail(s)[k] = s[k + 1]
  BY <1>2, TailOf
<1>4. CASE i = 1
  BY <1>1, <1>2, <1>3, <1>4
<1>5. CASE i # 1
  <2>1. i - 1 \in 1..(Len(s) - 1) /\ Tail(s)[i - 1] \in G
    BY <1>1, <1>3, <1>5
  <2>2. ASSUME NEW j \in 1..((i - 1) - 1) PROVE Tail(s)[j] \in H
    <3>1. j \in 1..(Len(s) - 1) /\ j + 1 \in 1..(i - 1)
      BY <1>1, <1>3
    <3> QED
      BY <1>1, <1>3, <3>1
  <2>3. DOMAIN Tail(s) = 1..(Len(s) - 1)
    BY <1>3
  <2>4. Held(Tail(s), G, H)
    BY <2>1, <2>2, <2>3 DEF Held
  <2> QED
    BY <1>1, <1>2, <1>3, <1>5, <2>4
<1> QED
  BY <1>4, <1>5

LEMMA MatchesCover ==
  ASSUME TypeOK, NEW f \in Filter, Matches(f)
  PROVE  act.addr \in MayCover(f)
<1>1. act.addr \in Port /\ Nowhere \notin Port
  BY ChainAssumption DEF TypeOK, Access
<1>2. CASE f \in Bar
  BY <1>1, <1>2 DEF Matches, Covers, MayCover, TypeOK
<1>3. CASE f \notin Bar
  BY <1>3 DEF Matches, Covers, MayCover
<1> QED BY <1>2, <1>3

\* A filter of the scripts that the walk comes to is called.
LEMMA ScriptMatches ==
  ASSUME TypeOK, EnabledInv, l # <<>>, Head(l) \notin Bar, act.addr \in Fixed[Head(l)]
  PROVE  Matches(Head(l))
<1>1. Head(l) \in ToSet(l)
  BY TailSet DEF TypeOK
<1> QED
  BY <1>1 DEF Matches, Covers, EnabledInv

\* One filter of the walk: the guard drops the access, others let it pass.
LEMMA StoppedStep ==
  ASSUME TypeOK, EnabledInv, PreHook, ~act.dropped, Stopped(l, act.write, act.addr)
  PROVE  act'.dropped \/ (~found' /\ Stopped(l', act.write, act.addr))
<1> DEFINE f == Head(l)
           w == act.write
           p == act.addr
           G == GuardSet(w, p)
           H == HarmlessSet(w, p)
<1>1. l # <<>> /\ l \in Seq(Filter) /\ f \in Filter /\ ~found /\ l' = Tail(l)
  BY TailOf DEF PreHook, TypeOK
<1>2. act \in Access
  BY DEF TypeOK
<1>3. f \in G \/ (f \in H /\ Held(Tail(l), G, H))
  BY <1>1, HeldTail DEF Stopped
<1>4. CASE f \in G
  <2>1. Guards(f, w, p) /\ Matches(f)
    BY <1>1, <1>4, ScriptMatches DEF GuardSet, Guards
  <2>2. PICK d \in Deeds(f, w, p) : act' = Done(d.does, act)
    BY <2>1 DEF PreHook
  <2>3. d \in Deed /\ d.does = "drop"
    BY <1>1, <2>1, <2>2, DeedTyped DEF Guards
  <2> QED
    BY <1>2, <2>2, <2>3, DoneTyped
<1>5. CASE f \notin G /\ f \in H /\ Held(Tail(l), G, H)
  <2>1. ~found'
    <3>1. CASE Matches(f)
      <4>1. PICK d \in Deeds(f, w, p) : found' = Claims(d)
        BY <3>1 DEF PreHook
      <4>2. ~d.claims
        BY <1>1, <1>5, <3>1, MatchesCover DEF Harmless, GuardSet, HarmlessSet
      <4> QED
        BY <4>1, <4>2, Zenon DEF Claims
    <3>2. CASE ~Matches(f)
      BY <1>1, <3>2 DEF PreHook
    <3> QED
      BY <3>1, <3>2
  <2> QED
    BY <1>1, <1>5, <2>1 DEF Stopped
<1> QED
  BY <1>3, <1>4, <1>5

\* Neither kind of access changes under the walk.
LEMMA SameAccess ==
  ASSUME TypeOK, PreHook \/ Perform \/ PostHook \/ End
  PROVE  /\ act'.write = act.write /\ act'.addr = act.addr
         /\ act.dropped => act'.dropped
<1>1. act \in Access
  BY DEF TypeOK
<1>2. CASE PreHook
  <2>1. CASE Matches(Head(l))
    <3>1. PICK d \in Deeds(Head(l), act.write, act.addr) : act' = Done(d.does, act)
      BY <1>2, <2>1 DEF PreHook
    <3>2. d \in Deed
      BY <1>2, <3>1, TailOf, DeedTyped DEF PreHook, TypeOK
    <3> QED
      BY <1>1, <3>1, <3>2, DoneTyped
  <2>2. CASE ~Matches(Head(l))
    BY <1>2, <2>2 DEF PreHook
  <2> QED
    BY <2>1, <2>2
<1>3. CASE Perform
  BY <1>1, <1>3, PerformEffect
<1>4. CASE PostHook
  BY <1>1, <1>4, FakeTyped DEF PostHook
<1>5. CASE End
  BY <1>5 DEF End, walk
<1> QED
  BY <1>2, <1>3, <1>4, <1>5

LEMMA WalkGuardedStep == TypeOK /\ ChainInv /\ WalkGuarded /\ [Next]_vars => WalkGuarded'
<1> SUFFICES ASSUME TypeOK, ChainInv, WalkGuarded, [Next]_vars PROVE WalkGuarded'
  OBVIOUS
<1>s. \A w, p : Shielded(w, p)' <=> Shielded(w, p)
  BY DEF Shielded
<1>1. CASE SetUp \/ EnableRam \/ ProgramElsewhere \/ UNCHANGED vars
  <2>1. UNCHANGED <<phase, act, l, found, reached>>
    BY <1>1 DEF SetUp, EnableRam, ProgramElsewhere, vars, walk
  <2> QED
    <3>1. \A w, p : Stopped(l, w, p)' <=> Stopped(l, w, p)
      BY <2>1 DEF Stopped, Held, GuardSet, HarmlessSet, Guards, Harmless, Deeds, MayCover
    <3> QED
      BY <2>1, <3>1, <1>s DEF WalkGuarded, ShieldHolds
<1>2. ASSUME NEW w \in BOOLEAN, NEW p \in Port, Begin(w, p) PROVE WalkGuarded'
  <2>1. act'.write = w /\ act'.addr = p /\ phase' = "pre" /\ ~found' /\ l' = chain /\ todo = <<>>
    BY <1>2, FreshTyped DEF Begin
  <2>2. Shielded(w, p) => Stopped(chain, w, p)
    BY <1>2, <2>1, ShieldedStops DEF ChainInv
  <2> QED
    BY <2>1, <2>2, <1>s DEF WalkGuarded, ShieldHolds
<1>3. CASE PreHook
  <2>1. phase = "pre" /\ phase' = "pre"
    BY <1>3 DEF PreHook
  <2>2. act'.write = act.write /\ act'.addr = act.addr /\ (act.dropped => act'.dropped)
    BY <1>3, SameAccess
  <2>3. ASSUME Shielded(act.write, act.addr)
        PROVE  act'.dropped \/ (~found' /\ Stopped(l', act.write, act.addr))
    BY <1>3, <2>1, <2>2, <2>3, StoppedStep DEF WalkGuarded, ChainInv
  <2> QED
    BY <2>1, <2>2, <2>3, <1>s DEF WalkGuarded, ShieldHolds
<1>4. CASE Perform
  <2>1. /\ phase = "pre" /\ (l = <<>> \/ found) /\ phase' = "post"
        /\ act'.write = act.write /\ act'.addr = act.addr
        /\ act.dropped => reached' = {}
    BY <1>4, PerformEffect DEF Perform, TypeOK
  <2>2. ~Stopped(<<>>, act.write, act.addr)
    BY DEF Stopped, Held
  <2>3. Shielded(act.write, act.addr) => act.dropped
    BY <2>1, <2>2 DEF WalkGuarded
  <2> QED
    BY <2>1, <2>3, <1>s DEF WalkGuarded, ShieldHolds
<1>5. CASE PostHook
  <2>1. /\ phase = "post" /\ phase' = "post" /\ reached' = reached
        /\ act'.write = act.write /\ act'.addr = act.addr
    BY <1>5, SameAccess DEF PostHook
  <2> QED
    BY <2>1, <1>s DEF WalkGuarded, ShieldHolds
<1>6. CASE End
  BY <1>6 DEF End, WalkGuarded, ShieldHolds
<1> QED
  BY <1>1, <1>2, <1>3, <1>4, <1>5, <1>6 DEF Next, Walk

\* A filter that drops all accesses to an address, the UART's first of all,
\* keeps them from target and QEMU alike: whatever the guest does to its BARs,
\* and whatever the scripts enable later that does not claim this address.
THEOREM ShieldCorrect == Spec => []ShieldHolds
<1>1. Init => WalkGuarded
  BY DEF Init, WalkGuarded, ShieldHolds
<1>2. WalkGuarded => ShieldHolds
  BY DEF WalkGuarded
<1> QED
  BY <1>1, <1>2, WalkGuardedStep, ChainInvHolds, PTL DEF Spec
-----------------------------------------------------------------------------
(***************************************************************************)
(* No access is lost.                                                      *)
(***************************************************************************)

\* Somebody has decided about access a.
Decided(a) == a.to_hw \/ a.to_qemu \/ a.dropped \/ a.faked

\* The fallback is still to come, or the one who claimed the access decided.
WalkDecides ==
  /\ phase = "pre" => IF found THEN Decided(act) ELSE Setup[1] \in ToSet(l)
  /\ NothingLost

LEMMA ClaimDecides ==
  ASSUME NEW a \in Access, NEW d \in Deed, d.does # "pass"
  PROVE  Decided(Done(d.does, a))
<1>1. d.does \in {"handle", "target", "qemu", "both", "drop", "veto", "fake"}
  BY DEF Deed
<1> QED
  BY <1>1 DEF Done, Access, Decided

LEMMA DecidesStep ==
  ASSUME ClaimersDecide, TypeOK, EnabledInv, WalkDecides, PreHook
  PROVE  IF found' THEN Decided(act') ELSE Setup[1] \in ToSet(l')
<1>1. /\ l # <<>> /\ l \in Seq(Filter) /\ Head(l) \in Filter /\ l' = Tail(l)
      /\ ~found /\ phase = "pre"
  BY TailOf DEF PreHook, TypeOK
<1>2. /\ act \in Access /\ act.write \in BOOLEAN /\ act.addr \in Port
  BY DEF TypeOK, Access
<1>3. Setup[1] \in ToSet(l)
  BY <1>1 DEF WalkDecides
<1>4. Setup[1] = Head(l) => Matches(Head(l))
  BY <1>2, <1>3, SetupTyped, FallbackAssumption DEF Matches, Covers, EnabledInv
<1>5. CASE Matches(Head(l))
  <2>1. PICK d \in Deeds(Head(l), act.write, act.addr) :
          act' = Done(d.does, act) /\ found' = Claims(d)
    BY <1>5 DEF PreHook
  <2>2. d \in Deed /\ (d.claims => d.does # "pass") /\ (Setup[1] = Head(l) => d.claims)
    BY <1>1, <1>2, <2>1, DeedTyped, FallbackAssumption DEF ClaimersDecide
  <2>3. CASE d.claims
    BY <1>2, <2>1, <2>2, <2>3, ClaimDecides, Zenon DEF Claims
  <2>4. CASE ~d.claims
    <3>1. ~found' /\ Setup[1] # Head(l)
      BY <2>1, <2>2, <2>4, Zenon DEF Claims
    <3> QED
      BY <1>1, <1>3, <3>1, TailSet
  <2> QED
    BY <2>3, <2>4
<1>6. CASE ~Matches(Head(l))
  <2>1. ~found' /\ Setup[1] # Head(l)
    BY <1>1, <1>4, <1>6 DEF PreHook
  <2> QED
    BY <1>1, <1>3, <2>1, TailSet
<1> QED
  BY <1>5, <1>6

LEMMA WalkDecidesStep ==
  ClaimersDecide /\ TypeOK /\ ChainInv /\ WalkDecides /\ [Next]_vars => WalkDecides'
<1> SUFFICES ASSUME ClaimersDecide, TypeOK, ChainInv, WalkDecides, [Next]_vars PROVE WalkDecides'
  OBVIOUS
<1>1. CASE SetUp \/ EnableRam \/ ProgramElsewhere \/ UNCHANGED vars
  <2>1. UNCHANGED <<phase, act, l, found, reached>>
    BY <1>1 DEF SetUp, EnableRam, ProgramElsewhere, vars, walk
  <2> QED
    BY <2>1 DEF WalkDecides, NothingLost, Decided
<1>2. ASSUME NEW w \in BOOLEAN, NEW p \in Port, Begin(w, p) PROVE WalkDecides'
  <2>1. phase' = "pre" /\ ~found' /\ l' = chain /\ todo = <<>>
    BY <1>2 DEF Begin
  <2>2. SetUpTo(Len(Setup))
    BY <2>1, SetUpDone DEF ChainInv
  <2>3. Setup[1] \in ToSet(chain)
    BY <2>2, SetupTyped DEF SetUpTo
  <2> QED
    BY <2>1, <2>3 DEF WalkDecides, NothingLost
<1>3. CASE PreHook
  <2>1. phase' = "pre"
    BY <1>3 DEF PreHook
  <2>2. IF found' THEN Decided(act') ELSE Setup[1] \in ToSet(l')
    BY <1>3, DecidesStep DEF ChainInv
  <2> QED
    BY <2>1, <2>2 DEF WalkDecides, NothingLost, Decided
<1>4. CASE Perform
  <2>1. /\ phase = "pre" /\ (l = <<>> \/ found) /\ phase' = "post" /\ act \in Access
        /\ act'.dropped = act.dropped /\ act'.faked = act.faked
        /\ ~act.dropped /\ (act.to_hw \/ act.to_qemu) => reached' # {}
    BY <1>4, PerformEffect DEF Perform, TypeOK
  <2>2. ToSet(<<>>) = {}
    BY DEF ToSet
  <2>3. Decided(act)
    BY <2>1, <2>2 DEF WalkDecides
  <2> QED
    BY <2>1, <2>3 DEF WalkDecides, NothingLost, Decided
<1>5. CASE PostHook
  <2>1. /\ phase = "post" /\ phase' = "post" /\ reached' = reached
        /\ act' = act \/ act' = Done("fake", act)
    BY <1>5 DEF PostHook
  <2>2. act \in Access
    BY DEF TypeOK
  <2> QED
    BY <2>1, <2>2, FakeTyped DEF WalkDecides, NothingLost
<1>6. CASE End
  BY <1>6 DEF End, WalkDecides, NothingLost
<1> QED
  BY <1>1, <1>2, <1>3, <1>4, <1>5, <1>6 DEF Next, Walk

\* If no filter claims an access without deciding about it, every access is
\* carried out somewhere unless a script dropped or answered it, although
\* filters come and go while their list is walked.
THEOREM NoneLost == ClaimersDecide => (Spec => []NothingLost)
<1> SUFFICES ASSUME ClaimersDecide PROVE Spec => []NothingLost
  OBVIOUS
<1>1. Init => WalkDecides
  BY DEF Init, WalkDecides, NothingLost
<1>2. WalkDecides => NothingLost
  BY DEF WalkDecides
<1> QED
  BY <1>1, <1>2, WalkDecidesStep, ChainInvHolds, PTL DEF Spec
-----------------------------------------------------------------------------
(***************************************************************************)
(* What a script answers stays off the target.                             *)
(***************************************************************************)

\* A walk that goes on has not faked the write, nor sent one that may still be.
WalkExclusive ==
  /\ phase = "pre" /\ act.write =>
       /\ ~(act.faked /\ act.to_hw)
       /\ ~found => ~act.faked /\ (act.to_hw => ~MayFake(act.addr))
  /\ FakedStaysOff

\* What a deed makes of the two flags.
LEMMA DoneFlags ==
  ASSUME NEW a \in Access, NEW d \in Deed
  PROVE  /\ d.does = "fake" => Done(d.does, a).faked /\ Done(d.does, a).to_hw = a.to_hw
         /\ d.does # "fake" => Done(d.does, a).faked = a.faked
         /\ d.does \notin Sends => (Done(d.does, a).to_hw => a.to_hw)
<1>1. d.does \in {"pass", "handle", "target", "qemu", "both", "drop", "veto", "fake"}
  BY DEF Deed
<1> QED BY <1>1 DEF Done, Access, Sends

LEMMA ExclusiveStep ==
  ASSUME FakersClaim, TypeOK, WalkExclusive, PreHook, act.write
  PROVE  /\ ~(act'.faked /\ act'.to_hw)
         /\ ~found' => ~act'.faked /\ (act'.to_hw => ~MayFake(act.addr))
<1>1. /\ Head(l) \in Filter /\ ~found /\ phase = "pre"
      /\ act \in Access /\ act.write = TRUE /\ act.addr \in Port
  BY TailOf DEF PreHook, TypeOK, Access
<1>2. ~act.faked /\ (act.to_hw => ~MayFake(act.addr))
  BY <1>1 DEF WalkExclusive
<1>3. CASE ~Matches(Head(l))
  <2>1. act' = act
    BY <1>3 DEF PreHook
  <2> QED BY <1>2, <2>1
<1>4. CASE Matches(Head(l))
  <2>1. PICK d \in Deeds(Head(l), TRUE, act.addr) :
          act' = Done(d.does, act) /\ found' = Claims(d)
    BY <1>1, <1>4 DEF PreHook
  <2>2. d \in Deed /\ act.addr \in MayCover(Head(l))
    BY <1>1, <1>4, <2>1, DeedTyped, MatchesCover
  <2>3. found' <=> d.claims
    BY <2>1, Zenon DEF Claims
  <2>4. MayFake(act.addr) /\ d.does \in Sends \cup {"fake"} => d.claims
    BY <1>1, <2>1, <2>2 DEF FakersClaim
  <2>5. CASE d.does = "fake"
    <3>1. MayFake(act.addr)
      BY <1>1, <2>1, <2>2, <2>5 DEF MayFake
    <3>2. act'.to_hw = act.to_hw
      BY <1>1, <2>1, <2>2, <2>5, DoneFlags
    <3> QED BY <1>2, <2>3, <2>4, <2>5, <3>1, <3>2
  <2>6. CASE d.does # "fake"
    <3>1. act'.faked = act.faked
      BY <1>1, <2>1, <2>2, <2>6, DoneFlags
    <3>2. d.does \notin Sends => (act'.to_hw => act.to_hw)
      BY <1>1, <2>1, <2>2, DoneFlags
    <3> QED BY <1>2, <2>3, <2>4, <3>1, <3>2
  <2> QED BY <2>5, <2>6
<1> QED BY <1>3, <1>4

LEMMA WalkExclusiveStep ==
  ASSUME FakersClaim, TypeOK, WalkExclusive, [Next]_vars
  PROVE  WalkExclusive'
<1>s. \A p : MayFake(p)' <=> MayFake(p)
  BY DEF MayFake
<1>1. CASE SetUp \/ EnableRam \/ ProgramElsewhere \/ UNCHANGED vars
  <2>1. UNCHANGED <<phase, act, l, found, reached>>
    BY <1>1 DEF SetUp, EnableRam, ProgramElsewhere, vars, walk
  <2> QED BY <2>1, <1>s DEF WalkExclusive, FakedStaysOff
<1>2. ASSUME NEW w \in BOOLEAN, NEW p \in Port, Begin(w, p) PROVE WalkExclusive'
  <2>1. phase' = "pre" /\ ~act'.faked /\ ~act'.to_hw
    BY <1>2 DEF Begin, Fresh
  <2> QED BY <2>1 DEF WalkExclusive, FakedStaysOff
<1>3. CASE PreHook
  <2>1. phase' = "pre" /\ act'.write = act.write /\ act'.addr = act.addr
    BY <1>3, SameAccess DEF PreHook
  <2> QED BY <1>3, <1>s, <2>1, ExclusiveStep DEF WalkExclusive, FakedStaysOff
<1>4. CASE Perform
  <2>1. /\ phase = "pre" /\ phase' = "post" /\ act \in Access
        /\ act'.write = act.write /\ act'.faked = act.faked
        /\ "hw" \in reached' => act.to_hw
    BY <1>4, PerformEffect DEF Perform, TypeOK, Verdict, Access
  <2> QED BY <2>1 DEF WalkExclusive, FakedStaysOff
<1>5. CASE PostHook
  <2>1. /\ phase = "post" /\ phase' = "post" /\ reached' = reached
        /\ act'.write = act.write /\ (act.write => act' = act)
    BY <1>5, SameAccess DEF PostHook
  <2> QED BY <2>1 DEF WalkExclusive, FakedStaysOff
<1>6. CASE End
  BY <1>6 DEF End, WalkExclusive, FakedStaysOff
<1> QED
  BY <1>1, <1>2, <1>3, <1>4, <1>5, <1>6 DEF Next, Walk

\* If whoever answers a write himself, or sends one that another filter may
\* answer, claims it, then no write that a script answers, as the NVRAM cache
\* does, happens on the target too: whatever is enabled or moved in between.
THEOREM FakesStayOff == FakersClaim => (Spec => []FakedStaysOff)
<1> SUFFICES ASSUME FakersClaim PROVE Spec => []FakedStaysOff
  OBVIOUS
<1>1. Init => WalkExclusive
  BY DEF Init, WalkExclusive, FakedStaysOff
<1>2. TypeOK /\ WalkExclusive /\ [Next]_vars => WalkExclusive'
  BY WalkExclusiveStep
<1>3. WalkExclusive => FakedStaysOff
  BY DEF WalkExclusive
<1> QED
  BY <1>1, <1>2, <1>3, TypeCorrect, PTL DEF Spec
=============================================================================
