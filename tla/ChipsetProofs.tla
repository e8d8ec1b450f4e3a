--------------------------- MODULE ChipsetProofs ----------------------------
(***************************************************************************)
(* The filters that follow what the guest writes to a chip of the target:  *)
(* PCI configuration, the SuperIO, the NVRAM and the SMBus host.           *)
(***************************************************************************)
EXTENDS PciCfg, SuperioPnp, NvramCache, SmbusHost, TLAPS

(***************************************************************************)
(* PCI configuration: for any registers, any hooks and any number of       *)
(* writes, protected bytes are never written; and if firmware does not go  *)
(* back from the window to the ports, a hook only sees what was written to *)
(* its register.                                                           *)
(***************************************************************************)

\* The bytes of a write, and those of a hook, are within the register.
LEMMA LanesInRegister ==
  ASSUME NEW x \in Range
  PROVE  /\ x = <<x[1], x[2]>> /\ x[1] \in Lane /\ x[2] \in {1, 2, 4}
         /\ Covered(x) \subseteq Lane
         /\ \A k \in Covered(x) : k - x[1] \in Lane
BY SMT DEF Range, Lane, Covered, Lanes

LEMMA HookTyped ==
  ASSUME NEW h \in Hook
  PROVE  /\ h.reg \in Reg /\ h.reg # None /\ h.range \in Range
         /\ h.vetoes \in BOOLEAN /\ Of(h) \subseteq Lane
<1>1. h.reg \in Reg /\ h.range \in Range /\ h.vetoes \in BOOLEAN
  BY PciAssumption, SMT
<1>2. Of(h) \subseteq Lane
  BY <1>1, LanesInRegister DEF Of, Covered
<1> QED BY <1>1, <1>2, PciAssumption

\* What becomes of a register when some of its bytes are written.
LEMMA MergeTyped ==
  ASSUME NEW old \in Value, NEW x \in Range,
         writes \in 0..MaxWrites, writes < MaxWrites
  PROVE  /\ Merge(old, x) \in Value
         /\ \A k \in Lane : k \notin Covered(x) => Merge(old, x)[k] = old[k]
         /\ \A k \in Covered(x) : Merge(old, x)[k] = <<writes + 1, k - x[1]>>
<1>1. Covered(x) \subseteq Lane /\ \A k \in Covered(x) : k - x[1] \in Lane
  BY LanesInRegister
<1>2. writes + 1 \in 0..MaxWrites
  BY PciAssumption, SMT
<1>3. \A k \in Covered(x) : <<writes + 1, k - x[1]>> \in Byte
  BY <1>1, <1>2 DEF Byte
<1>4. ASSUME NEW k \in Lane
      PROVE  (IF k \in Covered(x) THEN <<writes + 1, k - x[1]>> ELSE old[k]) \in Byte
  BY <1>3 DEF Value
<1>5. Merge(old, x) =
        [k \in Lane |-> IF k \in Covered(x) THEN <<writes + 1, k - x[1]>> ELSE old[k]]
  BY DEF Merge, Covered
<1> QED BY <1>1, <1>4, <1>5 DEF Value

LEMMA SliceTyped ==
  ASSUME NEW v \in Value, NEW h \in Hook
  PROVE  Slice(v, h) \in [Of(h) -> Byte]
BY HookTyped DEF Slice, Value

LEMMA HookOfTyped ==
  ASSUME NEW r \in Reg
  PROVE  HookOf(r) \in {r, None} /\ r # None
BY PciAssumption DEF HookOf
-----------------------------------------------------------------------------
LEMMA BlankTyped == Blank \in Value
BY PciAssumption, SMT DEF Blank, Value, Byte, Lane

\* What a write does, for either filter.
LEMMA AccessTyped ==
  ASSUME TypeOK, NEW s \in Space, NEW r \in Reg, NEW x \in Range,
         NEW fresh, fresh \subseteq Lane,
         Access(s, r, x, fresh)
  PROVE  /\ data' \in [Space -> Value] /\ bv' \subseteq Lane
         /\ DOMAIN bar' = Hook /\ \A h \in Hook : bar'[h] \in [Of(h) -> Byte]
         /\ writes' \in 0..MaxWrites
         /\ cfg' \in [Reg -> Value] /\ last' \in [Reg -> Value]
<1> DEFINE known == fresh \cup Covered(x)
<1> DEFINE called == Called(r, x, known)
<1>1. /\ writes < MaxWrites /\ writes' = writes + 1
      /\ IF HookOf(r) = None
         THEN data' = data /\ bv' = fresh
         ELSE data' = [data EXCEPT ![s] = Merge(@, x)] /\ bv' = known
      /\ bar' = [h \in Hook |-> IF h \in called THEN Slice(data'[s], h) ELSE bar[h]]
      /\ cfg' = IF Vetoed(called, x) THEN cfg ELSE [cfg EXCEPT ![r] = Merge(@, x)]
      /\ last' = [last EXCEPT ![r] = Merge(@, x)]
  BY DEF Access
<1> HIDE DEF called
<1>2. writes' \in 0..MaxWrites
  BY <1>1, PciAssumption, SMT DEF TypeOK
<1>3. /\ Merge(data[s], x) \in Value /\ Merge(cfg[r], x) \in Value
      /\ Merge(last[r], x) \in Value
  <2>1. /\ data[s] \in Value /\ cfg[r] \in Value /\ last[r] \in Value
        /\ writes \in 0..MaxWrites
    BY DEF TypeOK
  <2> QED BY <2>1, <1>1, MergeTyped
<1>4. data' \in [Space -> Value]
  BY <1>1, <1>3 DEF TypeOK
<1>5. bv' \subseteq Lane
  <2>1. Covered(x) \subseteq Lane
    BY LanesInRegister
  <2> QED BY <2>1, <1>1
<1>6. DOMAIN bar' = Hook /\ \A h \in Hook : bar'[h] \in [Of(h) -> Byte]
  <2>1. ASSUME NEW h \in Hook PROVE Slice(data'[s], h) \in [Of(h) -> Byte]
    BY <1>4, SliceTyped
  <2> QED BY <2>1, <1>1 DEF TypeOK
<1>7. cfg' \in [Reg -> Value] /\ last' \in [Reg -> Value]
  BY <1>1, <1>3 DEF TypeOK
<1> QED BY <1>2, <1>4, <1>5, <1>6, <1>7

LEMMA FreshTyped ==
  ASSUME TypeOK, NEW s \in Space, NEW r \in Reg
  PROVE  Fresh(s, r) \subseteq Lane
BY DEF Fresh, TypeOK

\* For all registers, hooks and bounds the state is well typed; in particular
\* bv never leaves the register and a BAR is always a value its hook was given.
THEOREM TypeCorrect == Spec => []TypeOK
<1>1. Init => TypeOK
  <2> SUFFICES ASSUME Init PROVE TypeOK
    OBVIOUS
  <2>1. ASSUME NEW h \in Hook PROVE bar[h] \in [Of(h) -> Byte]
    <3>1. Of(h) \subseteq Lane
      BY HookTyped
    <3> QED BY <3>1, BlankTyped DEF Init, Value
  <2>2. DOMAIN bar = Hook
    BY DEF Init
  <2>3. 0 \in 0..MaxWrites
    BY PciAssumption, SMT
  <2> QED BY <2>1, <2>2, <2>3, BlankTyped DEF Init, TypeOK
<1>2. TypeOK /\ [Next]_vars => TypeOK'
  <2> SUFFICES ASSUME TypeOK, [Next]_vars PROVE TypeOK'
    OBVIOUS
  <2>1. CASE UNCHANGED vars
    BY <2>1 DEF TypeOK, vars, script
  <2>2. ASSUME NEW r \in Reg, Select(r) PROVE TypeOK'
    BY <2>2, HookOfTyped, FreshTyped DEF Select, TypeOK, Space
  <2>3. ASSUME NEW r \in Reg, ReadWindow(r) PROVE TypeOK'
    BY <2>3, HookOfTyped, FreshTyped DEF ReadWindow, TypeOK, Space
  <2>4. ASSUME NEW x \in Range, WriteData(x) PROVE TypeOK'
    <3>1. bdfr \in Reg /\ bv \subseteq Lane /\ Access("io", bdfr, x, bv)
      BY <2>4 DEF WriteData, TypeOK
    <3>2. "io" \in Space
      BY DEF Space
    <3>3. UNCHANGED <<bdfr, hooked, moved>>
      BY <2>4 DEF WriteData
    <3> HIDE DEF Access
    <3> QED BY <3>1, <3>2, <3>3, AccessTyped DEF TypeOK
  <2>5. ASSUME NEW x \in Range, NEW r \in Reg, WriteWindow(r, x) PROVE TypeOK'
    <3>1. Fresh("mm", r) \subseteq Lane /\ Access("mm", r, x, Fresh("mm", r))
      BY <2>5, FreshTyped DEF WriteWindow, Space
    <3>2. "mm" \in Space
      BY DEF Space
    <3>3. /\ hooked' \in [Space -> Reg \cup {None}]
          /\ bdfr' = bdfr /\ moved' \in BOOLEAN
      BY <2>5, HookOfTyped DEF WriteWindow, TypeOK
    <3> QED BY <3>1, <3>2, <3>3, AccessTyped DEF TypeOK
  <2> QED BY <2>1, <2>2, <2>3, <2>4, <2>5 DEF Next
<1> QED BY <1>1, <1>2, PTL DEF Spec
-----------------------------------------------------------------------------
\* Whoever writes, through which space and how much at a time: a byte whose
\* hook vetoes writes never changes in the target.
THEOREM ProtectCorrect == Spec => ProtectHolds
<1> DEFINE Kept == \A h \in Hook : h.vetoes => Slice(cfg'[h.reg], h) = Slice(cfg[h.reg], h)
<1>1. TypeOK /\ [Next]_vars => [Kept]_vars
  <2> SUFFICES ASSUME TypeOK, Next PROVE Kept
    BY DEF vars, script
  <2> SUFFICES ASSUME NEW h \in Hook, h.vetoes
               PROVE  Slice(cfg'[h.reg], h) = Slice(cfg[h.reg], h)
    OBVIOUS
  <2>1. ASSUME NEW s \in Space, NEW r \in Reg, NEW x \in Range,
               NEW fresh, Access(s, r, x, fresh)
        PROVE  Slice(cfg'[h.reg], h) = Slice(cfg[h.reg], h)
    <3> DEFINE called == Called(r, x, fresh \cup Covered(x))
    <3>1. /\ writes < MaxWrites /\ writes \in 0..MaxWrites
          /\ cfg' = IF Vetoed(called, x) THEN cfg ELSE [cfg EXCEPT ![r] = Merge(@, x)]
      BY <2>1 DEF Access, TypeOK
    <3>2. CASE h.reg # r
      BY <3>1, <3>2, HookTyped DEF TypeOK
    <3>3. CASE h.reg = r /\ Of(h) \cap Covered(x) # {}
      <4>1. Of(h) = {h.range[1]}
        <5>1. h.range[2] = 1 /\ h.range[1] \in Lane
          BY VetoAssumption, HookTyped, LanesInRegister
        <5> QED BY <5>1, SMT DEF Of, Lanes, Lane
      <4>2. Of(h) \subseteq Covered(x)
        BY <3>3, <4>1
      <4>3. h \in called
        BY <3>3, <4>2 DEF Called
      <4>4. Vetoed(called, x)
        BY <4>3 DEF Vetoed
      <4> QED BY <3>1, <4>4
    <3>4. CASE h.reg = r /\ Of(h) \cap Covered(x) = {}
      <4>1. cfg[r] \in Value /\ Of(h) \subseteq Lane
        BY HookTyped DEF TypeOK
      <4>2. \A k \in Of(h) : Merge(cfg[r], x)[k] = cfg[r][k]
        BY <3>1, <3>4, <4>1, MergeTyped
      <4>3. \A k \in Of(h) : cfg'[r][k] = cfg[r][k]
        BY <3>1, <4>2 DEF TypeOK
      <4> QED BY <3>4, <4>3 DEF Slice
    <3> QED BY <3>2, <3>3, <3>4
  <2>2. ASSUME NEW r \in Reg, Select(r) \/ ReadWindow(r)
        PROVE  Slice(cfg'[h.reg], h) = Slice(cfg[h.reg], h)
    BY <2>2 DEF Select, ReadWindow
  <2>3. ASSUME NEW x \in Range, WriteData(x)
        PROVE  Slice(cfg'[h.reg], h) = Slice(cfg[h.reg], h)
    <3>1. bdfr \in Reg /\ Access("io", bdfr, x, bv)
      BY <2>3 DEF WriteData, TypeOK
    <3> QED BY <3>1, <2>1 DEF Space
  <2>4. ASSUME NEW x \in Range, NEW r \in Reg, WriteWindow(r, x)
        PROVE  Slice(cfg'[h.reg], h) = Slice(cfg[h.reg], h)
    <3>1. Access("mm", r, x, Fresh("mm", r))
      BY <2>4 DEF WriteWindow
    <3> QED BY <3>1, <2>1 DEF Space
  <2> QED BY <2>2, <2>3, <2>4 DEF Next
<1> QED BY <1>1, TypeCorrect, PTL DEF Spec, ProtectHolds
-----------------------------------------------------------------------------
\* The bytes that bv counts as written are in data as the guest has written
\* them last.  With both filters in use in turn, this is what breaks.
Gathered ==
  /\ ~moved => hooked["mm"] = None
  /\ ~moved /\ bdfr # None => hooked["io"] = HookOf(bdfr)
  /\ hooked[Current] # None =>
       \A k \in bv : data[Current][k] = last[hooked[Current]][k]

\* An access through the space that selected r gathers one more piece.
LEMMA AccessGathers ==
  ASSUME TypeOK, NEW s \in Space, NEW r \in Reg, NEW x \in Range,
         NEW fresh, fresh \subseteq Lane,
         Access(s, r, x, fresh), HookOf(r) = r,
         \A k \in fresh : data[s][k] = last[r][k]
  PROVE  /\ bv' = fresh \cup Covered(x)
         /\ \A k \in bv' : data'[s][k] = last'[r][k]
<1>1. /\ writes < MaxWrites /\ writes \in 0..MaxWrites
      /\ data' = [data EXCEPT ![s] = Merge(@, x)]
      /\ bv' = fresh \cup Covered(x)
      /\ last' = [last EXCEPT ![r] = Merge(@, x)]
  BY HookOfTyped DEF Access, TypeOK
<1>2. data[s] \in Value /\ last[r] \in Value
  BY DEF TypeOK
<1>3. data'[s] = Merge(data[s], x) /\ last'[r] = Merge(last[r], x)
  BY <1>1 DEF TypeOK
<1>4. ASSUME NEW k \in bv' PROVE Merge(data[s], x)[k] = Merge(last[r], x)[k]
  <2>1. CASE k \in Covered(x)
    BY <2>1, <1>1, <1>2, MergeTyped
  <2>2. CASE k \notin Covered(x)
    <3>1. k \in fresh /\ k \in Lane
      BY <2>2, <1>1
    <3> QED BY <2>2, <3>1, <1>1, <1>2, MergeTyped
  <2> QED BY <2>1, <2>2
<1> QED BY <1>1, <1>3, <1>4

\* What a hook is called with, then, is what the guest has written.
LEMMA AccessShows ==
  ASSUME TypeOK, NEW s \in Space, NEW r \in Reg, NEW x \in Range,
         NEW fresh, fresh \subseteq Lane,
         Access(s, r, x, fresh),
         HookOf(r) = r => \A k \in fresh : data[s][k] = last[r][k],
         NEW h \in Hook, bar'[h] # bar[h]
  PROVE  bar'[h] = Slice(last'[h.reg], h)
<1>1. /\ h \in Called(r, x, fresh \cup Covered(x))
      /\ bar'[h] = Slice(data'[s], h)
  BY DEF Access
<1>2. h.reg = r /\ Of(h) \subseteq fresh \cup Covered(x)
  BY <1>1 DEF Called
<1>3. HookOf(r) = r
  BY <1>2 DEF HookOf
<1>4. \A k \in Of(h) : data'[s][k] = last'[r][k]
  BY <1>2, <1>3, AccessGathers
<1> QED BY <1>1, <1>2, <1>4 DEF Slice

\* What either filter starts a write from has been gathered.
LEMMA FreshGathered ==
  ASSUME TypeOK, Gathered, NEW r \in Reg
  PROVE  /\ Fresh("mm", r) \subseteq Lane /\ "mm" \in Space /\ "io" \in Space
         /\ HookOf(r) = r => \A k \in Fresh("mm", r) : data["mm"][k] = last[r][k]
         /\ ~moved => \A k \in Fresh("io", r) : data["io"][k] = last[r][k]
<1>1. "mm" \in Space /\ "io" \in Space /\ r # None
  BY HookOfTyped DEF Space
<1>2. Fresh("mm", r) # {} => hooked["mm"] = r /\ moved /\ Fresh("mm", r) = bv
  BY <1>1 DEF Fresh, Gathered
<1>3. Fresh("io", r) # {} => hooked["io"] = r /\ Fresh("io", r) = bv
  BY DEF Fresh
<1> QED BY <1>1, <1>2, <1>3, FreshTyped DEF Gathered, Current

LEMMA GatheredInit == Init => Gathered
BY DEF Init, Gathered, Current, Space

LEMMA GatheredStep ==
  ASSUME ~Mixed, TypeOK, Gathered, [Next]_vars
  PROVE  Gathered'
<1>1. CASE UNCHANGED vars
  BY <1>1 DEF Gathered, Current, HookOf, vars, script
<1>2. ASSUME NEW r \in Reg, Select(r) PROVE Gathered'
  <2>1. /\ ~moved /\ ~moved' /\ bdfr' = r /\ data' = data /\ last' = last
        /\ hooked'["io"] = HookOf(r) /\ hooked'["mm"] = hooked["mm"]
        /\ bv' = Fresh("io", r)
    BY <1>2 DEF Select, Ports, TypeOK, Space
  <2>2. HookOf(r) # None => HookOf(r) = r
    BY HookOfTyped
  <2> QED BY <2>1, <2>2, FreshGathered DEF Gathered, Current, HookOf
<1>3. ASSUME NEW r \in Reg, ReadWindow(r) PROVE Gathered'
  <2>1. /\ moved' /\ data' = data /\ last' = last
        /\ hooked'["mm"] = HookOf(r) /\ bv' = Fresh("mm", r)
    BY <1>3 DEF ReadWindow, TypeOK, Space
  <2>2. HookOf(r) # None => HookOf(r) = r
    BY HookOfTyped
  <2> QED BY <2>1, <2>2, FreshGathered DEF Gathered, Current
<1>4. ASSUME NEW x \in Range, WriteData(x) PROVE Gathered'
  <2>1. /\ ~moved /\ moved' = moved /\ bdfr \in Reg /\ bdfr # None
        /\ bdfr' = bdfr /\ hooked' = hooked /\ bv \subseteq Lane
        /\ Access("io", bdfr, x, bv)
    BY <1>4 DEF WriteData, Ports, TypeOK
  <2>2. hooked["io"] = HookOf(bdfr) /\ hooked["mm"] = None
    BY <2>1 DEF Gathered
  <2>3. CASE HookOf(bdfr) = None
    BY <2>1, <2>2, <2>3 DEF Gathered, Current, HookOf
  <2>4. CASE HookOf(bdfr) = bdfr
    <3>1. \A k \in bv : data["io"][k] = last[bdfr][k]
      BY <2>1, <2>2, <2>4 DEF Gathered, Current
    <3>2. \A k \in bv' : data'["io"][k] = last'[bdfr][k]
      BY <2>1, <2>4, <3>1, AccessGathers DEF Space
    <3> QED BY <2>1, <2>2, <2>4, <3>2 DEF Gathered, Current, HookOf
  <2> QED BY <2>1, <2>3, <2>4, HookOfTyped
<1>5. ASSUME NEW x \in Range, NEW r \in Reg, WriteWindow(r, x) PROVE Gathered'
  <2>1. /\ moved' /\ hooked'["mm"] = HookOf(r)
        /\ Access("mm", r, x, Fresh("mm", r))
    BY <1>5 DEF WriteWindow, TypeOK, Space
  <2>2. CASE HookOf(r) = None
    BY <2>1, <2>2 DEF Gathered, Current
  <2>3. CASE HookOf(r) = r
    <3>1. \A k \in bv' : data'["mm"][k] = last'[r][k]
      BY <2>1, <2>3, FreshGathered, AccessGathers
    <3> QED BY <2>1, <2>3, <3>1 DEF Gathered, Current
  <2> QED BY <2>2, <2>3, HookOfTyped
<1> QED BY <1>1, <1>2, <1>3, <1>4, <1>5 DEF Next

\* For all registers and hooks, and in whatever pieces and order firmware
\* writes: as long as it does not go back to the ports once it has used the
\* window, a hook is only called with what was written to its register.
THEOREM SeesWritten == ~Mixed => (Spec => HookSeesWritten)
<1> SUFFICES ASSUME ~Mixed PROVE Spec => HookSeesWritten
  OBVIOUS
<1> DEFINE Shown == \A h \in Hook : bar'[h] # bar[h] => bar'[h] = Slice(last'[h.reg], h)
<1>1. TypeOK /\ Gathered /\ [Next]_vars => Gathered'
  BY GatheredStep
<1>2. TypeOK /\ Gathered /\ [Next]_vars => [Shown]_vars
  <2> SUFFICES ASSUME TypeOK, Gathered, Next, NEW h \in Hook, bar'[h] # bar[h]
               PROVE  bar'[h] = Slice(last'[h.reg], h)
    BY DEF vars, script
  <2>1. ASSUME NEW r \in Reg, Select(r) \/ ReadWindow(r) PROVE FALSE
    BY <2>1 DEF Select, ReadWindow
  <2>2. ASSUME NEW x \in Range, WriteData(x) PROVE bar'[h] = Slice(last'[h.reg], h)
    <3>1. /\ ~moved /\ bdfr \in Reg /\ bdfr # None /\ bv \subseteq Lane
          /\ Access("io", bdfr, x, bv)
      BY <2>2 DEF WriteData, Ports, TypeOK
    <3>2. HookOf(bdfr) = bdfr => \A k \in bv : data["io"][k] = last[bdfr][k]
      BY <3>1 DEF Gathered, Current
    <3> QED BY <3>1, <3>2, AccessShows DEF Space
  <2>3. ASSUME NEW x \in Range, NEW r \in Reg, WriteWindow(r, x)
        PROVE  bar'[h] = Slice(last'[h.reg], h)
    <3>1. Access("mm", r, x, Fresh("mm", r))
      BY <2>3 DEF WriteWindow
    <3> QED BY <3>1, FreshGathered, AccessShows
  <2> QED BY <2>1, <2>2, <2>3 DEF Next
<1> QED BY <1>1, <1>2, GatheredInit, TypeCorrect, PTL DEF Spec, HookSeesWritten
-----------------------------------------------------------------------------
\* For one hook: its register in the target is as the guest has written it,
\* and once all of its bytes are gathered it has been called with them.
Followed(h) ==
  /\ cfg[h.reg] = last[h.reg]
  /\ hooked[Current] = h.reg /\ Of(h) \subseteq bv => bar[h] = Slice(last[h.reg], h)

Following == \A h \in Hook : ~h.vetoes => Followed(h)

LEMMA HookNotEmpty ==
  ASSUME NEW h \in Hook
  PROVE  ~(Of(h) \subseteq {})
<1>1. h.range[1] \in Lane /\ h.range[2] \in {1, 2, 4}
  BY HookTyped, LanesInRegister
<1>2. h.range[1] \in Of(h)
  BY <1>1, SMT DEF Of, Lanes, Lane
<1> QED BY <1>2

\* No hook vetoes a write to the register of a BAR, so target and guest agree.
LEMMA AccessKeepsBoth ==
  ASSUME TypeOK, Apart, NEW s \in Space, NEW r \in Reg, NEW x \in Range,
         NEW fresh, Access(s, r, x, fresh),
         NEW h \in Hook, ~h.vetoes, cfg[h.reg] = last[h.reg]
  PROVE  cfg'[h.reg] = last'[h.reg]
<1> DEFINE called == Called(r, x, fresh \cup Covered(x))
<1>1. /\ cfg' = IF Vetoed(called, x) THEN cfg ELSE [cfg EXCEPT ![r] = Merge(@, x)]
      /\ last' = [last EXCEPT ![r] = Merge(@, x)]
  BY DEF Access
<1>2. h.reg \in Reg /\ cfg \in [Reg -> Value] /\ last \in [Reg -> Value]
  BY HookTyped DEF TypeOK
<1>3. CASE h.reg # r
  BY <1>1, <1>2, <1>3
<1>4. CASE h.reg = r
  <2>1. ~Vetoed(called, x)
    BY <1>4 DEF Vetoed, Called, Apart
  <2> QED BY <1>1, <1>2, <1>4, <2>1
<1> QED BY <1>3, <1>4

\* A hook that the access calls is called with what was gathered; what one that
\* it does not call was called with before is still there.
LEMMA AccessFollows ==
  ASSUME TypeOK, NEW s \in Space, NEW r \in Reg, NEW x \in Range,
         NEW fresh, fresh \subseteq Lane, Access(s, r, x, fresh),
         \A k \in fresh : data[s][k] = last[r][k],
         NEW h \in Hook, h.reg = r, Of(h) \subseteq bv',
         Of(h) \subseteq fresh => bar[h] = Slice(last[r], h)
  PROVE  bar'[h] = Slice(last'[r], h)
<1>1. HookOf(r) = r
  BY DEF HookOf
<1>2. bv' = fresh \cup Covered(x) /\ \A k \in bv' : data'[s][k] = last'[r][k]
  BY <1>1, AccessGathers
<1>3. CASE h \in Called(r, x, fresh \cup Covered(x))
  <2>1. bar'[h] = Slice(data'[s], h)
    BY <1>3 DEF Access
  <2>2. \A k \in Of(h) : data'[s][k] = last'[r][k]
    BY <1>2
  <2> QED BY <2>1, <2>2 DEF Slice
<1>4. CASE h \notin Called(r, x, fresh \cup Covered(x))
  <2>1. bar'[h] = bar[h]
    BY <1>4 DEF Access
  <2>2. Of(h) \cap Covered(x) = {}
    BY <1>2, <1>4 DEF Called
  <2>3. Of(h) \subseteq fresh
    BY <1>2, <2>2
  <2>4. /\ writes < MaxWrites /\ writes \in 0..MaxWrites
        /\ last[r] \in Value /\ last'[r] = Merge(last[r], x)
    BY DEF Access, TypeOK
  <2>5. \A k \in Of(h) : last'[r][k] = last[r][k]
    BY <2>2, <2>4, HookTyped, MergeTyped
  <2> QED BY <2>1, <2>3, <2>5 DEF Slice
<1> QED BY <1>3, <1>4

LEMMA FollowingInit == Init => Following
<1> SUFFICES ASSUME Init, NEW h \in Hook PROVE Followed(h)
  BY DEF Following
<1>1. cfg[h.reg] = Blank /\ last[h.reg] = Blank
  BY HookTyped DEF Init
<1>2. bar[h] = [k \in Of(h) |-> Blank[k]]
  BY DEF Init
<1> QED BY <1>1, <1>2 DEF Followed, Slice

\* Selecting a register changes no data, and keeps bv or clears it.
LEMMA SelectFollows ==
  ASSUME TypeOK, Gathered, Following, NEW r \in Reg,
         Select(r) \/ ReadWindow(r), NEW h \in Hook, ~h.vetoes
  PROVE  Followed(h)'
<1>1. Followed(h) /\ h.reg # None /\ ~(Of(h) \subseteq {})
  BY HookTyped, HookNotEmpty DEF Following
<1>2. cfg' = cfg /\ last' = last /\ bar' = bar
  BY DEF Select, ReadWindow
<1>3. CASE Select(r)
  <2>1. /\ moved' = moved
        /\ hooked'["io"] = HookOf(r) /\ hooked'["mm"] = hooked["mm"]
        /\ bv' = Fresh("io", r)
    BY <1>3 DEF Select, TypeOK, Space
  <2>2. CASE ~moved
    BY <1>1, <1>2, <2>1, <2>2, HookOfTyped DEF Followed, Fresh, Current
  <2>3. CASE moved
    <3>1. ASSUME hooked["mm"] = h.reg, Of(h) \subseteq bv'
          PROVE  Of(h) \subseteq bv
      BY <1>1, <2>1, <3>1 DEF Fresh
    <3> QED BY <1>1, <1>2, <2>1, <2>3, <3>1 DEF Followed, Current
  <2> QED BY <2>2, <2>3
<1>4. CASE ReadWindow(r)
  <2>1. moved' /\ hooked'["mm"] = HookOf(r) /\ bv' = Fresh("mm", r)
    BY <1>4 DEF ReadWindow, TypeOK, Space
  <2>2. ASSUME HookOf(r) = h.reg, Of(h) \subseteq bv'
        PROVE  moved /\ hooked["mm"] = h.reg /\ bv' = bv
    BY <1>1, <2>1, <2>2, HookOfTyped DEF Fresh, Gathered
  <2> QED BY <1>1, <1>2, <2>1, <2>2 DEF Followed, Current
<1> QED BY <1>3, <1>4

LEMMA FollowingStep ==
  ASSUME ~Mixed, Apart, TypeOK, Gathered, Following, [Next]_vars
  PROVE  Following'
<1> SUFFICES ASSUME NEW h \in Hook, ~h.vetoes PROVE Followed(h)'
  BY DEF Following
<1>0. Followed(h) /\ h.reg \in Reg /\ h.reg # None /\ ~(Of(h) \subseteq {})
  BY HookTyped, HookNotEmpty DEF Following
<1>1. CASE UNCHANGED vars
  BY <1>0, <1>1 DEF Followed, Current, vars, script
<1>2. ASSUME NEW r \in Reg, Select(r) \/ ReadWindow(r) PROVE Followed(h)'
  BY <1>2, SelectFollows
<1>3. ASSUME NEW x \in Range, WriteData(x) PROVE Followed(h)'
  <2>1. /\ ~moved /\ ~moved' /\ bdfr \in Reg /\ bdfr # None
        /\ hooked' = hooked /\ bv \subseteq Lane /\ "io" \in Space
        /\ Access("io", bdfr, x, bv)
    BY <1>3 DEF WriteData, Ports, TypeOK, Space
  <2>2. hooked["io"] = HookOf(bdfr)
    BY <2>1 DEF Gathered
  <2>3. cfg'[h.reg] = last'[h.reg]
    BY <1>0, <2>1, AccessKeepsBoth DEF Followed
  <2>4. ASSUME hooked'["io"] = h.reg, Of(h) \subseteq bv'
        PROVE  bar'[h] = Slice(last'[h.reg], h)
    <3>1. h.reg = bdfr
      BY <1>0, <2>1, <2>2, <2>4, HookOfTyped
    <3>2. \A k \in bv : data["io"][k] = last[bdfr][k]
      BY <1>0, <2>1, <2>2, <2>4, <3>1 DEF Gathered, Current
    <3>3. Of(h) \subseteq bv => bar[h] = Slice(last[bdfr], h)
      BY <1>0, <2>1, <2>4, <3>1 DEF Followed, Current
    <3> QED BY <2>1, <2>4, <3>1, <3>2, <3>3, AccessFollows
  <2> QED BY <2>1, <2>3, <2>4 DEF Followed, Current
<1>4. ASSUME NEW x \in Range, NEW r \in Reg, WriteWindow(r, x) PROVE Followed(h)'
  <2> DEFINE fresh == Fresh("mm", r)
  <2>1. /\ moved' /\ hooked'["mm"] = HookOf(r) /\ "mm" \in Space
        /\ Access("mm", r, x, fresh)
    BY <1>4 DEF WriteWindow, TypeOK, Space
  <2>2. cfg'[h.reg] = last'[h.reg]
    BY <1>0, <2>1, AccessKeepsBoth DEF Followed
  <2>3. ASSUME HookOf(r) = h.reg, Of(h) \subseteq bv'
        PROVE  bar'[h] = Slice(last'[h.reg], h)
    <3>1. h.reg = r
      BY <1>0, <2>3, HookOfTyped
    <3>2. fresh \subseteq Lane /\ \A k \in fresh : data["mm"][k] = last[r][k]
      BY <2>3, <3>1, FreshGathered
    <3>3. Of(h) \subseteq fresh => moved /\ hooked["mm"] = r /\ fresh = bv
      BY <1>0, <3>1 DEF Fresh, Gathered
    <3>4. Of(h) \subseteq fresh => bar[h] = Slice(last[r], h)
      BY <1>0, <3>1, <3>3 DEF Followed, Current
    <3> HIDE DEF fresh
    <3> QED BY <2>1, <2>3, <3>1, <3>2, <3>4, AccessFollows
  <2> QED BY <2>1, <2>2, <2>3 DEF Followed, Current
<1> QED BY <1>1, <1>2, <1>3, <1>4 DEF Next

\* For all hooks of which none protects a byte of a BAR's register, and in
\* whatever pieces and order firmware writes a BAR: as long as it does not go
\* back to the ports, a hook whose bytes are all written has been called with
\* what is in the target.
THEOREM BarCorrect == ~Mixed /\ Apart => (Spec => []BarFollows)
<1> SUFFICES ASSUME ~Mixed, Apart PROVE Spec => []BarFollows
  OBVIOUS
<1>1. Init => Gathered /\ Following
  BY GatheredInit, FollowingInit
<1>2. TypeOK /\ Gathered /\ Following /\ [Next]_vars => Gathered' /\ Following'
  BY GatheredStep, FollowingStep
<1>3. Following => BarFollows
  BY DEF Following, Followed, BarFollows
<1> QED BY <1>1, <1>2, <1>3, TypeCorrect, PTL DEF Spec

(***************************************************************************)
(* SuperIO: the filter of its ports knows what the chip has in its         *)
(* registers, for any devices, registers and contents.  It never reads     *)
(* them back, so the invariant is about the two things it has to have in   *)
(* common with the chip: the register and the device that are selected.    *)
(***************************************************************************)

ChipShape(c) ==
  /\ c = [kind |-> c.kind, open |-> c.open, progress |-> c.progress,
          index |-> c.index, ldn |-> c.ldn, regs |-> c.regs]
  /\ c.kind = ChipKind
  /\ c.regs = [k \in SioRegs |-> c.regs[k]]

SioShape == ChipShape(sio)

CopyShape ==
  /\ copy = [k \in DOMAIN copy |-> copy[k]]
  /\ bar0 = [d \in Ldn |-> bar0[d]]

SameRegister == sio.open /\ addressed => selected = sio.index

SameDevice == ~astray /\ active_ldn # NoLdn => active_ldn = sio.ldn

PnpInv == SioShape /\ CopyShape /\ SameRegister /\ SameDevice /\ CopyFollows /\ BarsFollow

LEMMA RegNumbers ==
  ASSUME NEW k \in SioRegs
  PROVE  k[2] \in {2, 36, 48, 96, 97} /\ (k[1] \in Ldn \/ k[2] \in Protected)
BY DEF SioRegs, Protected, PowerReg, ClockReg

LEMMA PnpInvInit == PnpInit => PnpInv
<1>. SUFFICES ASSUME PnpInit PROVE PnpInv
  OBVIOUS
<1>1. PICK d \in Ldn, v \in Contents :
        sio = Chip(ChipKind, FALSE, d, [k \in SioRegs |-> v])
  BY DEF PnpInit
<1>2. SioShape
  BY <1>1, PnpAssumption DEF SioShape, ChipShape, Chip
<1>3. CopyShape /\ DOMAIN copy = {}
  BY DEF PnpInit, CopyShape
<1>4. SameRegister /\ SameDevice
  BY DEF PnpInit, SameRegister, SameDevice
<1>5. CopyFollows
  BY <1>3 DEF CopyFollows
<1>6. BarsFollow
  <2>1. ASSUME NEW e \in Ldn PROVE ~({e} \X {\h30, \h60, \h61} \subseteq DOMAIN copy)
    <3>1. <<e, \h30>> \in {e} \X {\h30, \h60, \h61}
      OBVIOUS
    <3>. QED
      BY <1>3, <3>1
  <2>. QED
    BY <2>1 DEF BarsFollow
<1>. QED
  BY <1>2, <1>3, <1>4, <1>5, <1>6 DEF PnpInv

\* Writes to the index port change no register of the chip.
LEMMA IndexKeeps ==
  ASSUME NEW c, ChipShape(c), NEW byte, NEW new, new = IndexWritten(c, byte)
  PROVE  /\ ChipShape(new) /\ new.regs = c.regs /\ new.ldn = c.ldn
         /\ c.open /\ new.open => new.index = byte
BY DEF ChipShape, IndexWritten

LEMMA PnpInvIndex ==
  ASSUME PnpInv, WriteIndexPort
  PROVE  PnpInv' /\ sio'.regs = sio.regs
<1>1. PICK byte \in IndexBytes :
        /\ selected' = byte
        /\ sio' = IndexWritten(sio, byte)
        /\ addressed' = (sio.open /\ sio'.open)
        /\ UNCHANGED <<active_ldn, copy, bar0, astray>>
  BY DEF WriteIndexPort
<1>2. /\ SioShape' /\ sio'.regs = sio.regs /\ sio'.ldn = sio.ldn
      /\ sio.open /\ sio'.open => sio'.index = byte
  <2>1. ChipShape(sio)
    BY DEF PnpInv, SioShape
  <2>2. ChipShape(sio') /\ sio'.regs = sio.regs /\ sio'.ldn = sio.ldn
    BY <1>1, <2>1, IndexKeeps
  <2>3. sio.open /\ sio'.open => sio'.index = byte
    BY <1>1, <2>1, IndexKeeps
  <2>. QED
    BY <2>2, <2>3 DEF SioShape, ChipShape
<1>3. CopyShape'
  BY <1>1 DEF PnpInv, CopyShape
<1>4. SameRegister'
  <2>1. CASE sio.open /\ sio'.open
    BY <1>1, <1>2, <2>1 DEF SameRegister
  <2>2. CASE ~(sio.open /\ sio'.open)
    BY <1>1, <2>2 DEF SameRegister
  <2>. QED
    BY <2>1, <2>2
<1>5. SameDevice'
  BY <1>1, <1>2 DEF PnpInv, SameDevice
<1>6. CopyFollows'
  BY <1>1, <1>2 DEF PnpInv, CopyFollows
<1>7. BarsFollow'
  BY <1>1, <1>2 DEF PnpInv, BarsFollow, On, BaseOf
<1>. QED
  BY <1>2, <1>3, <1>4, <1>5, <1>6, <1>7 DEF PnpInv

-----------------------------------------------------------------------------
(* Writes to the data port                                                 *)

\* What such a write may do to an open chip: it selects a device, or changes
\* the register that is selected.
LEMMA DataWrites ==
  ASSUME NEW c, ChipShape(c), c.open, NEW byte, NEW new, new = DataWritten(c, byte)
  PROVE  /\ new = [kind |-> ChipKind, open |-> new.open, progress |-> new.progress,
                   index |-> c.index, ldn |-> new.ldn, regs |-> new.regs]
         /\ new.ldn = IF c.index = LdnReg THEN byte ELSE c.ldn
         /\ new.regs = [k \in SioRegs |->
              IF k = Target(c) /\ c.index # LdnReg /\ ~Closes(c, byte)
              THEN byte ELSE c.regs[k]]
<1>1. c.kind # "legacy"
  BY PnpAssumption DEF ChipShape
<1>2. DOMAIN c.regs = SioRegs
  BY DEF ChipShape
<1>3. CASE c.index = 7
  <2>1. new = [c EXCEPT !.ldn = byte]
    BY <1>1, <1>3 DEF DataWritten
  <2>. QED
    BY <1>3, <2>1 DEF ChipShape, LdnReg
<1>4. CASE c.index # 7 /\ Closes(c, byte)
  <2>1. new = [c EXCEPT !.open = FALSE]
    BY <1>4 DEF DataWritten
  <2>. QED
    BY <1>4, <2>1 DEF ChipShape, LdnReg
<1>5. CASE c.index # 7 /\ ~Closes(c, byte) /\ Target(c) \in DOMAIN c.regs
  <2>. DEFINE t == Target(c)
  <2>1. new = [c EXCEPT !.regs = [c.regs EXCEPT ![t] = byte]]
    BY <1>5 DEF DataWritten
  <2>. HIDE DEF t
  <2>2. [c.regs EXCEPT ![t] = byte] = [k \in SioRegs |-> IF k = t THEN byte ELSE c.regs[k]]
    BY DEF ChipShape
  <2>3. new.regs = [k \in SioRegs |-> IF k = t THEN byte ELSE c.regs[k]]
    BY <2>1, <2>2 DEF ChipShape
  <2>. QED
    BY <1>5, <2>1, <2>3 DEF ChipShape, LdnReg, t
<1>6. CASE c.index # 7 /\ ~Closes(c, byte) /\ Target(c) \notin DOMAIN c.regs
  <2>1. new = c
    BY <1>6 DEF DataWritten
  <2>. QED
    BY <1>2, <1>6, <2>1 DEF ChipShape, LdnReg
<1>. QED
  BY <1>3, <1>4, <1>5, <1>6

\* Data leave a chip, open or closed, in shape.
LEMMA DataKeeps ==
  ASSUME NEW c, ChipShape(c), NEW byte, NEW new, new = DataWritten(c, byte)
  PROVE  ChipShape(new) /\ new.index = c.index /\ (new.open => c.open)
<1>1. CASE ~c.open
  BY <1>1 DEF DataWritten
<1>2. CASE c.open
  <2>1. new = [kind |-> ChipKind, open |-> new.open, progress |-> new.progress,
               index |-> c.index, ldn |-> new.ldn, regs |-> new.regs]
    BY <1>2, DataWrites
  <2>2. new.regs = [k \in SioRegs |->
          IF k = Target(c) /\ c.index # LdnReg /\ ~Closes(c, byte)
          THEN byte ELSE c.regs[k]]
    BY <1>2, DataWrites
  <2>3. new.kind = ChipKind /\ new.index = c.index
    BY <2>1
  <2>4. new = [kind |-> new.kind, open |-> new.open, progress |-> new.progress,
               index |-> new.index, ldn |-> new.ldn, regs |-> new.regs]
    BY <2>1, <2>3
  <2>5. new.regs = [k \in SioRegs |-> new.regs[k]]
    BY <2>2
  <2>. QED
    BY <1>2, <2>3, <2>4, <2>5 DEF ChipShape
<1>. QED
  BY <1>1, <1>2

\* What a write of a word breaks is forgiven: an open chip has had data that
\* the filter has not.
LEMMA PnpInvWord ==
  ASSUME PnpInv, WriteIndexAndData
  PROVE  PnpInv'
<1>1. PICK word \in Words :
        /\ sio' = DataWritten(IndexWritten(sio, word % 256), word \div 256)
        /\ addressed' = FALSE
        /\ astray' = (astray \/ IndexWritten(sio, word % 256).open)
        /\ UNCHANGED <<active_ldn, copy, bar0>>
  BY DEF WriteIndexAndData
<1>. DEFINE low == word % 256
            byte == word \div 256
            indexed == IndexWritten(sio, low)
<1>2. ChipShape(sio)
  BY DEF PnpInv, SioShape
<1>3. sio' = DataWritten(indexed, byte) /\ astray' = (astray \/ indexed.open)
  BY <1>1
<1>. HIDE DEF low, byte
<1>4. ChipShape(indexed) /\ indexed.regs = sio.regs /\ indexed.ldn = sio.ldn
  BY <1>2, IndexKeeps
<1>. HIDE DEF indexed
<1>5. SioShape'
  <2>1. ChipShape(sio')
    BY <1>3, <1>4, DataKeeps
  <2>. QED
    BY <2>1 DEF SioShape, ChipShape
<1>6. CopyShape'
  BY <1>1 DEF PnpInv, CopyShape
<1>7. SameRegister'
  BY <1>1 DEF SameRegister
<1>8. ASSUME ~astray' PROVE ~astray /\ sio'.regs = sio.regs /\ sio'.ldn = sio.ldn
  BY <1>3, <1>4, <1>8 DEF DataWritten
<1>9. SameDevice'
  BY <1>1, <1>8 DEF PnpInv, SameDevice
<1>10. CopyFollows'
  BY <1>1, <1>8 DEF PnpInv, CopyFollows
<1>11. BarsFollow'
  BY <1>1, <1>8 DEF PnpInv, BarsFollow, On, BaseOf
<1>. QED
  BY <1>5, <1>6, <1>7, <1>9, <1>10, <1>11 DEF PnpInv

\* The registers after a write to the data port that the filter follows, in
\* the filter's terms.
LEMMA RegsAfter ==
  ASSUME PnpInv, NEW byte, WriteDataPort(byte), sio.open, addressed, ~astray
  PROVE  /\ SioShape' /\ sio'.index = sio.index
         /\ selected = LdnReg => sio'.ldn = byte
         /\ selected # LdnReg => sio'.ldn = sio.ldn
         /\ \A k \in SioRegs : sio'.regs[k] =
              IF k = CopyKey(active_ldn') /\ selected \notin Protected THEN byte
              ELSE sio.regs[k]
<1>1. selected = sio.index
  BY DEF PnpInv, SameRegister
<1>2. active_ldn' = IF selected = LdnReg THEN byte ELSE active_ldn
  BY DEF WriteDataPort, SwitchLdn
<1>3. sio.kind # "legacy"
  BY PnpAssumption DEF PnpInv, SioShape, ChipShape
<1>4. ASSUME selected # LdnReg PROVE CopyKey(active_ldn') = Target(sio)
  <2>1. selected < 48 \/ active_ldn = sio.ldn
    BY DEF WriteDataPort, PnpInv, SameDevice
  <2>. QED
    BY <1>1, <1>2, <1>3, <1>4, <2>1 DEF CopyKey, Target
<1>5. ASSUME selected = LdnReg PROVE CopyKey(active_ldn') \notin SioRegs
  BY <1>5, RegNumbers DEF CopyKey, LdnReg
<1>6. Drops <=> selected \in Protected
  BY DEF Drops
<1>7. CASE Drops
  <2>1. sio' = sio /\ selected # LdnReg
    BY <1>6, <1>7 DEF WriteDataPort, Protected, PowerReg, ClockReg, LdnReg
  <2>2. SioShape'
    BY <2>1 DEF PnpInv, SioShape, ChipShape
  <2>. QED
    BY <1>6, <1>7, <2>1, <2>2
<1>8. CASE ~Drops
  <2>1. sio' = DataWritten(sio, byte)
    BY <1>8 DEF WriteDataPort
  <2>2. /\ sio' = [kind |-> ChipKind, open |-> sio'.open, progress |-> sio'.progress,
                   index |-> sio.index, ldn |-> sio'.ldn, regs |-> sio'.regs]
        /\ sio'.ldn = IF sio.index = LdnReg THEN byte ELSE sio.ldn
        /\ sio'.regs = [k \in SioRegs |->
              IF k = Target(sio) /\ sio.index # LdnReg /\ ~Closes(sio, byte)
              THEN byte ELSE sio.regs[k]]
    <3>1. ChipShape(sio)
      BY DEF PnpInv, SioShape
    <3>2. sio' = [kind |-> ChipKind, open |-> sio'.open, progress |-> sio'.progress,
                  index |-> sio.index, ldn |-> sio'.ldn, regs |-> sio'.regs]
      BY <2>1, <3>1, DataWrites
    <3>3. sio'.ldn = IF sio.index = LdnReg THEN byte ELSE sio.ldn
      BY <2>1, <3>1, DataWrites
    <3>4. sio'.regs = [k \in SioRegs |->
              IF k = Target(sio) /\ sio.index # LdnReg /\ ~Closes(sio, byte)
              THEN byte ELSE sio.regs[k]]
      BY <2>1, <3>1, DataWrites
    <3>. QED
      BY <3>2, <3>3, <3>4
  <2>3. SioShape' /\ sio'.index = sio.index
    BY <2>2 DEF SioShape, ChipShape
  <2>4. ASSUME NEW k \in SioRegs, k = Target(sio) PROVE ~Closes(sio, byte)
    BY <1>1, <1>6, <1>8, <2>4, RegNumbers DEF Closes, Target, Protected, PowerReg, ClockReg
  <2>5. ASSUME NEW k \in SioRegs
        PROVE  sio'.regs[k] = IF k = CopyKey(active_ldn') THEN byte ELSE sio.regs[k]
    BY <1>1, <1>4, <1>5, <2>2, <2>4
  <2>. QED
    BY <1>1, <1>6, <1>8, <2>2, <2>3, <2>5
<1>. QED
  BY <1>7, <1>8

\* Any data: the chip stays in shape, and filter and chip at the same register
\* when they were.
LEMMA AnyData ==
  ASSUME PnpInv, NEW byte, WriteDataPort(byte)
  PROVE  SioShape' /\ CopyShape' /\ SameRegister'
<1>1. ChipShape(sio)
  BY DEF PnpInv, SioShape
<1>2. sio' = sio \/ sio' = DataWritten(sio, byte)
  BY DEF WriteDataPort
<1>3. ChipShape(sio') /\ sio'.index = sio.index /\ (sio'.open => sio.open)
  BY <1>1, <1>2, DataKeeps
<1>4. SioShape'
  BY <1>3 DEF SioShape, ChipShape
<1>5. CopyShape'
  <2>1. copy' = [k \in DOMAIN copy' |-> copy'[k]]
    BY DEF WriteDataPort, Store
  <2>2. bar0' = [e \in Ldn |-> bar0'[e]]
    BY DEF WriteDataPort, Post, TryEnableIo, PnpInv, CopyShape
  <2>. QED
    BY <2>1, <2>2 DEF CopyShape
<1>6. SameRegister'
  BY <1>3 DEF WriteDataPort, PnpInv, SameRegister
<1>. QED
  BY <1>4, <1>5, <1>6

\* Data that the filter does not follow: nothing is promised of its copies.
LEMMA PnpInvAstray ==
  ASSUME PnpInv, NEW byte, WriteDataPort(byte), ~(sio.open /\ addressed /\ ~astray)
  PROVE  PnpInv'
<1>1. astray'
  BY DEF WriteDataPort
<1>2. SioShape' /\ CopyShape' /\ SameRegister'
  BY AnyData
<1>. QED
  BY <1>1, <1>2 DEF PnpInv, SameDevice, CopyFollows, BarsFollow

LEMMA PnpInvData ==
  ASSUME PnpInv, NEW byte, WriteDataPort(byte), sio.open, addressed, ~astray
  PROVE  PnpInv'
<1>. DEFINE d == active_ldn'
            key == CopyKey(d)
<1>1. /\ SioShape' /\ sio'.index = sio.index
      /\ selected = LdnReg => sio'.ldn = byte
      /\ selected # LdnReg => sio'.ldn = sio.ldn
      /\ \A k \in SioRegs : sio'.regs[k] =
           IF k = key /\ selected \notin Protected THEN byte ELSE sio.regs[k]
  BY RegsAfter
<1>2. /\ ~astray' /\ UNCHANGED <<selected, addressed>>
      /\ d = IF selected = LdnReg THEN byte ELSE active_ldn
      /\ copy' = [k \in DOMAIN copy \cup {key} |-> IF k = key THEN byte ELSE copy[k]]
      /\ bar0' = Post(copy', d)
  BY DEF WriteDataPort, SwitchLdn, Store
<1>3. key[2] = selected
  BY DEF CopyKey
<1>4. DOMAIN sio.regs = SioRegs /\ DOMAIN sio'.regs = SioRegs
  BY <1>1 DEF PnpInv, SioShape, ChipShape
<1>5. CopyShape' /\ SameRegister'
  BY AnyData
<1>. HIDE DEF d, key
<1>7. SameDevice'
  BY <1>1, <1>2 DEF PnpInv, SameDevice, d
<1>8. CopyFollows'
  <2>. SUFFICES ASSUME NEW k \in DOMAIN copy' \cap SioRegs, k[2] \notin Protected
                PROVE  copy'[k] = sio'.regs[k]
    BY <1>4 DEF CopyFollows
  <2>0. \A x \in DOMAIN copy \cap SioRegs : x[2] \notin Protected => copy[x] = sio.regs[x]
    BY <1>4 DEF PnpInv, CopyFollows
  <2>1. CASE k = key
    BY <1>1, <1>2, <1>3, <2>1
  <2>2. CASE k # key
    BY <1>1, <1>2, <2>0, <2>2
  <2>. QED
    BY <2>1, <2>2
<1>9. BarsFollow'
  <2>. SUFFICES ASSUME NEW e \in Ldn,
                       \A r \in {48, 96, 97} : <<e, r>> \in DOMAIN copy',
                       On(sio', e), BaseOf(sio', e) # 96
                PROVE  bar0'[e] = IF BaseOf(sio', e) = 0 THEN NoBar ELSE BaseOf(sio', e)
    BY <1>2 DEF BarsFollow
  <2>1. \A r \in {48, 96, 97} : <<e, r>> \in SioRegs
    BY DEF SioRegs
  <2>2. CASE e = d /\ selected \in {48, 96, 97}
    <3>1. \A r \in {48, 96, 97} : copy'[<<e, r>>] = sio'.regs[<<e, r>>]
      BY <1>2, <1>4, <1>8, <2>1 DEF CopyFollows, Protected, PowerReg, ClockReg
    <3>2. BaseOf(sio', e) = 256 * copy'[<<e, 96>>] + copy'[<<e, 97>>]
      BY <3>1 DEF BaseOf
    <3>3. copy'[<<e, 48>>] # 0
      BY <3>1 DEF On
    <3>4. {<<d, 48>>, <<d, 96>>, <<d, 97>>} \subseteq DOMAIN copy'
      BY <2>2
    <3>5. bar0' = TryEnableIo(copy', d)
      BY <1>2, <2>2 DEF Post
    <3>6. bar0' = [bar0 EXCEPT ![d] = IF BaseOf(sio', e) = 0 THEN NoBar ELSE BaseOf(sio', e)]
      BY <2>2, <3>2, <3>3, <3>4, <3>5 DEF TryEnableIo
    <3>. QED
      BY <2>2, <3>6 DEF PnpInv, CopyShape
  <2>3. CASE ~(e = d /\ selected \in {48, 96, 97})
    <3>1. \A r \in {48, 96, 97} : <<e, r>> # key
      <4>1. selected \in {48, 96, 97} => key = <<d, selected>>
        BY DEF key, CopyKey
      <4>. QED
        BY <1>3, <2>3, <4>1
    <3>2. \A r \in {48, 96, 97} : sio'.regs[<<e, r>>] = sio.regs[<<e, r>>]
      BY <1>1, <2>1, <3>1
    <3>3. \A r \in {48, 96, 97} : <<e, r>> \in DOMAIN copy
      BY <1>2, <3>1
    <3>4. {e} \X {\h30, \h60, \h61} \subseteq DOMAIN copy
      BY <3>3
    <3>5. On(sio', e) = On(sio, e) /\ BaseOf(sio', e) = BaseOf(sio, e)
      BY <3>2 DEF On, BaseOf
    <3>6. bar0'[e] = bar0[e]
      BY <1>2, <2>3 DEF Post, TryEnableIo, PnpInv, CopyShape
    <3>. QED
      BY <3>4, <3>5, <3>6 DEF PnpInv, BarsFollow
  <2>. QED
    BY <2>2, <2>3
<1>. QED
  BY <1>1, <1>5, <1>7, <1>8, <1>9 DEF PnpInv

-----------------------------------------------------------------------------

\* A chip that was given an index by a byte has the register of the filter,
\* and the filter drops data for the protected ones.
LEMMA PowerAfter ==
  ASSUME PnpInv, NEW byte, WriteDataPort(byte), addressed,
         NEW k \in SioRegs, k[2] \in Protected
  PROVE  sio'.regs[k] = sio.regs[k]
<1>1. ChipShape(sio)
  BY DEF PnpInv, SioShape
<1>2. CASE sio' = sio
  BY <1>2
<1>3. CASE ~sio.open
  BY <1>3 DEF WriteDataPort, DataWritten
<1>4. CASE sio.open /\ sio' # sio
  <2>1. sio' = DataWritten(sio, byte) /\ selected \notin Protected
    BY <1>4 DEF WriteDataPort, Drops
  <2>2. sio.index \notin Protected
    BY <1>4, <2>1 DEF PnpInv, SameRegister
  <2>3. k # Target(sio)
    BY <2>2 DEF Target
  <2>4. sio'.regs = [x \in SioRegs |->
          IF x = Target(sio) /\ sio.index # LdnReg /\ ~Closes(sio, byte)
          THEN byte ELSE sio.regs[x]]
    BY <1>1, <1>4, <2>1, DataWrites
  <2>. QED
    BY <2>3, <2>4
<1>. QED
  BY <1>2, <1>3, <1>4

LEMMA PnpInvNext == PnpInv /\ [PnpNext]_pnpVars => PnpInv'
<1>. SUFFICES ASSUME PnpInv, [PnpNext]_pnpVars PROVE PnpInv'
  OBVIOUS
<1>1. CASE WriteIndexPort
  BY <1>1, PnpInvIndex
<1>2. ASSUME NEW byte, WriteDataPort(byte) PROVE PnpInv'
  <2>1. CASE sio.open /\ addressed /\ ~astray
    BY <1>2, <2>1, PnpInvData
  <2>2. CASE ~(sio.open /\ addressed /\ ~astray)
    BY <1>2, <2>2, PnpInvAstray
  <2>. QED
    BY <2>1, <2>2
<1>3. CASE WriteIndexAndData
  BY <1>3, PnpInvWord
<1>4. CASE UNCHANGED pnpVars
  BY <1>4 DEF pnpVars, PnpInv, SioShape, ChipShape, CopyShape, SameRegister, SameDevice,
     CopyFollows, BarsFollow, On, BaseOf
<1>. QED
  BY <1>1, <1>2, <1>3, <1>4 DEF PnpNext

LEMMA PnpCorrect == PnpSpec => []PnpInv
<1>1. PnpInit => PnpInv
  BY PnpInvInit
<1>2. PnpInv /\ [PnpNext]_pnpVars => PnpInv'
  BY PnpInvNext
<1>. QED
  BY <1>1, <1>2, PTL DEF PnpSpec

\* For all devices, registers and contents: as long as the guest writes bytes
\* and data only after an index, the script's copy of a register is what the
\* chip has in it (superio.lua:3-24, 114-139).
THEOREM CopyCorrect == PnpSpec => []CopyFollows
<1>1. PnpInv => CopyFollows
  BY DEF PnpInv
<1>. QED
  BY <1>1, PnpCorrect, PTL

\* For the same guests: a device that has been set up and enabled has its
\* filter where the chip has the device (superio.lua:56-90).
THEOREM BarsCorrect == PnpSpec => []BarsFollow
<1>1. PnpInv => BarsFollow
  BY DEF PnpInv
<1>. QED
  BY <1>1, PnpCorrect, PTL

\* Whatever the guest has written before, words and data without an index
\* included: no index and no data to a chip that was given an index by a byte
\* changes the registers that keep the UART of the shell alive
\* (superio.lua:122-132).
THEOREM PowerCorrect == PnpSpec => PowerKept
<1>. DEFINE Kept == addressed' =>
              \A r \in Protected : sio'.regs[<<Global, r>>] = sio.regs[<<Global, r>>]
<1>1. PnpInv /\ [PnpNext]_pnpVars => [Kept]_pnpVars
  <2>. SUFFICES ASSUME PnpInv, PnpNext, addressed', NEW r \in Protected
                PROVE  sio'.regs[<<Global, r>>] = sio.regs[<<Global, r>>]
    OBVIOUS
  <2>1. <<Global, r>> \in SioRegs
    BY DEF SioRegs
  <2>2. CASE WriteIndexPort
    BY <2>2, PnpInvIndex
  <2>3. CASE WriteIndexAndData
    BY <2>3 DEF WriteIndexAndData
  <2>4. ASSUME NEW byte, WriteDataPort(byte)
        PROVE  sio'.regs[<<Global, r>>] = sio.regs[<<Global, r>>]
    BY <2>1, <2>4, PowerAfter DEF WriteDataPort
  <2>. QED
    BY <2>2, <2>3, <2>4 DEF PnpNext
<1>. QED
  BY <1>1, PnpCorrect, PTL DEF PnpSpec, PowerKept

(***************************************************************************)
(* NVRAM: the filter implements one NVRAM, for any number of indexes and   *)
(* any contents.  The invariant says when the target's index may be relied *)
(* on: whenever an access to data of a bank of which the guest has selected *)
(* an index would reach the target.                                        *)
(***************************************************************************)

NvramTypeOK ==
  /\ caching \in BOOLEAN
  /\ index \in [Banks -> NvIndex] /\ indexThere \in [Banks -> NvIndex]
  /\ table \in [Cells -> CellValue] /\ cells \in [Cells -> CellValue]
  /\ value \in CellValue \cup NvIndex
  /\ chosen \subseteq Banks

IndexAgrees == \A b \in chosen : ~Faked(b, index[b]) => indexThere[b] = index[b]

NvInv == NvramTypeOK /\ IndexAgrees

LEMMA PairBank == \A p \in Pair : nvram_bank(p) \in Banks
BY DEF nvram_bank, Banks, Pair

LEMMA RtcCell == \A b \in Banks, i \in NvIndex : <<b, i>> \in {1} \X RtcIndex <=> IsRtc(b, i)
BY DEF IsRtc, Banks, NvIndex

LEMMA RtcInCells == {1} \X RtcIndex \subseteq Cells
BY DEF Cells, Banks, NvIndex

LEMMA InvInit == NvramInit => NvInv
<1>. SUFFICES ASSUME NvramInit PROVE NvInv
  OBVIOUS
<1>1. index = [b \in Banks |-> 0] /\ indexThere \in [Banks -> NvIndex] /\ chosen = {}
  BY DEF NvramInit
<1>2. PICK v \in CellValue : cells = [c \in Cells |-> v]
  BY DEF NvramInit
<1>3. NvramTypeOK
  BY <1>1, <1>2, NvramAssumption DEF NvramTypeOK, NvramInit, NvIndex
<1>4. IndexAgrees
  BY <1>1 DEF IndexAgrees
<1>. QED
  BY <1>3, <1>4 DEF NvInv

LEMMA InvSelect ==
  ASSUME NvInv, NEW p \in Pair, NEW i \in NvIndex, SelectIndex(p, i)
  PROVE  NvInv'
<1>. DEFINE b == nvram_bank(p)
<1>1. b \in Banks
  BY PairBank
<1>2. /\ index' = [index EXCEPT ![b] = i]
      /\ indexThere' = IF Faked(b, i) THEN indexThere ELSE [indexThere EXCEPT ![b] = i]
      /\ chosen' = chosen \cup {b}
      /\ UNCHANGED <<caching, table, cells, value>>
  BY DEF SelectIndex, IndexSent
<1>. HIDE DEF b
<1>3. NvramTypeOK'
  BY <1>1, <1>2 DEF NvInv, NvramTypeOK
<1>4. ASSUME NEW c \in chosen', (~Faked(c, index[c]))' PROVE indexThere'[c] = index'[c]
  <2>1. ~Faked(c, index'[c])
    BY <1>2, <1>4 DEF Faked, IsRtc
  <2>2. CASE c = b
    <3>1. index'[c] = i
      BY <1>1, <1>2, <2>2 DEF NvInv, NvramTypeOK
    <3>2. indexThere' = [indexThere EXCEPT ![b] = i]
      BY <1>2, <2>1, <2>2, <3>1
    <3>. QED
      BY <1>1, <2>2, <3>1, <3>2 DEF NvInv, NvramTypeOK
  <2>3. CASE c # b
    <3>0. c \in chosen
      BY <1>2, <2>3
    <3>1. index'[c] = index[c] /\ indexThere'[c] = indexThere[c]
      BY <1>1, <1>2, <2>3, <3>0 DEF NvInv, NvramTypeOK
    <3>. QED
      BY <2>1, <3>0, <3>1 DEF NvInv, IndexAgrees
  <2>. QED
    BY <2>2, <2>3
<1>5. IndexAgrees'
  BY <1>4 DEF IndexAgrees
<1>. QED
  BY <1>3, <1>5 DEF NvInv

\* The other steps leave both indexes alone.
LEMMA InvOther ==
  ASSUME NvInv, NvramTypeOK', UNCHANGED <<caching, index, indexThere, chosen>>
  PROVE  NvInv'
<1>1. IndexAgrees'
  BY DEF NvInv, IndexAgrees, Faked, IsRtc
<1>. QED
  BY <1>1 DEF NvInv

LEMMA TypeReadIndex ==
  ASSUME NvInv, NEW p \in Pair, ReadIndex(p) PROVE NvramTypeOK'
BY PairBank DEF NvInv, NvramTypeOK, ReadIndex

LEMMA TypeReadCell ==
  ASSUME NvInv, NEW p \in Pair, ReadCell(p) PROVE NvramTypeOK'
BY PairBank DEF NvInv, NvramTypeOK, ReadCell, Cells

LEMMA TypeWriteCell ==
  ASSUME NvInv, NEW p \in Pair, NEW v \in CellValue, WriteCell(p, v) PROVE NvramTypeOK'
BY PairBank DEF NvInv, NvramTypeOK, WriteCell

LEMMA TypeClockRuns ==
  ASSUME NvInv, ClockRuns PROVE NvramTypeOK'
BY DEF NvInv, NvramTypeOK, ClockRuns

LEMMA InvNext == NvInv /\ [NvramNext]_nvramVars => NvInv'
<1>. SUFFICES ASSUME NvInv, [NvramNext]_nvramVars PROVE NvInv'
  OBVIOUS
<1>1. ASSUME NEW p \in Pair, ReadIndex(p) PROVE NvInv'
  BY <1>1, TypeReadIndex, InvOther DEF ReadIndex
<1>2. ASSUME NEW p \in Pair, ReadCell(p) PROVE NvInv'
  BY <1>2, TypeReadCell, InvOther DEF ReadCell
<1>3. ASSUME NEW p \in Pair, NEW i \in NvIndex, SelectIndex(p, i) PROVE NvInv'
  BY <1>3, InvSelect
<1>4. ASSUME NEW p \in Pair, NEW v \in CellValue, WriteCell(p, v) PROVE NvInv'
  BY <1>4, TypeWriteCell, InvOther DEF WriteCell
<1>5. ASSUME ClockRuns PROVE NvInv'
  BY <1>5, TypeClockRuns, InvOther DEF ClockRuns
<1>6. ASSUME UNCHANGED nvramVars PROVE NvInv'
  BY <1>6 DEF nvramVars, NvInv, NvramTypeOK, IndexAgrees, Faked, IsRtc
<1>. QED
  BY <1>1, <1>2, <1>3, <1>4, <1>5, <1>6 DEF NvramNext

-----------------------------------------------------------------------------
(* Each step of the filter is the step of NVRAM of the same name.          *)

\* What a read of data returns is the cell as it is seen.
LEMMA SeenAt ==
  ASSUME NvInv, NEW b \in chosen
  PROVE  CellsSeen[<<b, index[b]>>] =
           IF Faked(b, index[b]) THEN table[<<b, index[b]>>] ELSE cells[<<b, indexThere[b]>>]
<1>1. <<b, index[b]>> \in Cells
  BY DEF NvInv, NvramTypeOK, Cells
<1>2. CellsSeen[<<b, index[b]>>] =
        IF Faked(b, index[b]) THEN table[<<b, index[b]>>] ELSE cells[<<b, index[b]>>]
  BY <1>1 DEF CellsSeen
<1>. QED
  BY <1>2 DEF NvInv, IndexAgrees

LEMMA SeenType == NvInv => CellsSeen \in [Cells -> CellValue]
BY DEF NvInv, NvramTypeOK, CellsSeen

LEMMA SeenKept == UNCHANGED <<caching, table, cells>> => CellsSeen' = CellsSeen
BY DEF CellsSeen, Faked, IsRtc

LEMMA ImplReadIndex ==
  ASSUME NvInv, NEW p \in Pair, ReadIndex(p)
  PROVE  Memory!GetIndex(nvram_bank(p))
BY PairBank, SeenKept DEF Memory!GetIndex, ReadIndex, NvInv, IndexAgrees

LEMMA ImplReadCell ==
  ASSUME NvInv, NEW p \in Pair, ReadCell(p)
  PROVE  Memory!Get(nvram_bank(p))
BY PairBank, SeenKept, SeenAt DEF Memory!Get, ReadCell

LEMMA ImplSelect ==
  ASSUME NvInv, NEW p \in Pair, NEW i \in NvIndex, SelectIndex(p, i)
  PROVE  Memory!SetIndex(nvram_bank(p), i)
BY SeenKept DEF Memory!SetIndex, SelectIndex

LEMMA ImplWriteCell ==
  ASSUME NvInv, NEW p \in Pair, NEW v \in CellValue, WriteCell(p, v)
  PROVE  Memory!Put(nvram_bank(p), v)
<1>. DEFINE b == nvram_bank(p)
            at == <<b, index[b]>>
<1>1. b \in Banks /\ at \in Cells
  BY PairBank DEF NvInv, NvramTypeOK, Cells
<1>2. /\ table' = [table EXCEPT ![at] = v]
      /\ cells' = IF Faked(b, index[b]) THEN cells ELSE [cells EXCEPT ![at] = v]
      /\ UNCHANGED <<caching, index, indexThere, value>>
  BY <1>1 DEF WriteCell, NvInv, IndexAgrees
<1>3. table \in [Cells -> CellValue] /\ cells \in [Cells -> CellValue]
  BY DEF NvInv, NvramTypeOK
<1>. HIDE DEF b
<1>4. ASSUME NEW c \in Cells
      PROVE  CellsSeen'[c] = IF c = at THEN v ELSE CellsSeen[c]
  <2>1. /\ CellsSeen'[c] = IF Faked(c[1], c[2]) THEN table'[c] ELSE cells'[c]
        /\ CellsSeen[c] = IF Faked(c[1], c[2]) THEN table[c] ELSE cells[c]
    BY <1>2 DEF CellsSeen, Faked, IsRtc
  <2>2. CASE c = at
    <3>1. c[1] = b /\ c[2] = index[b]
      BY <2>2
    <3>. QED
      BY <1>2, <1>3, <2>1, <2>2, <3>1
  <2>3. CASE c # at
    BY <1>2, <1>3, <2>1, <2>3
  <2>. QED
    BY <2>2, <2>3
<1>. HIDE DEF at
<1>5. CellsSeen' = [CellsSeen EXCEPT ![at] = v]
  <2>1. CellsSeen' = [c \in Cells |-> CellsSeen'[c]]
    BY DEF CellsSeen
  <2>2. CellsSeen = [c \in Cells |-> CellsSeen[c]]
    BY DEF CellsSeen
  <2>. QED
    BY <1>4, <2>1, <2>2
<1>. QED
  BY <1>2, <1>5 DEF Memory!Put, b, at

LEMMA ImplClockRuns ==
  ASSUME NvInv, NvInv', ClockRuns
  PROVE  Memory!Tick
<1>1. PICK i \in RtcIndex, v \in CellValue :
        /\ cells' = [cells EXCEPT ![<<1, i>>] = v]
        /\ UNCHANGED <<caching, index, table, indexThere, value>>
  BY DEF ClockRuns
<1>2. CellsSeen' \in [Cells -> CellValue]
  <2>1. (CellsSeen \in [Cells -> CellValue])'
    BY SeenType DEF NvInv, NvramTypeOK, CellsSeen
  <2>. QED
    BY <2>1 DEF Cells, Banks, NvIndex
<1>3. ASSUME NEW c \in Cells \ ({1} \X RtcIndex) PROVE CellsSeen'[c] = CellsSeen[c]
  <2>1. c # <<1, i>>
    OBVIOUS
  <2>2. cells'[c] = cells[c]
    BY <1>1, <2>1 DEF NvInv, NvramTypeOK
  <2>. QED
    BY <1>1, <2>2 DEF CellsSeen, Faked, IsRtc
<1>4. UNCHANGED <<index, value>>
  BY <1>1
<1>. QED
  BY <1>2, <1>3, <1>4 DEF Memory!Tick, Cells

LEMMA ImplInit == NvramInit => Memory!MemoryInit
<1>. SUFFICES ASSUME NvramInit PROVE Memory!MemoryInit
  OBVIOUS
<1>1. NvInv
  BY InvInit
<1>. QED
  BY <1>1, SeenType DEF Memory!MemoryInit, NvInv, NvramTypeOK, Cells

LEMMA ImplNext ==
  ASSUME NvInv, NvInv', [NvramNext]_nvramVars
  PROVE  [Memory!MemoryNext]_Memory!memoryVars
<1>1. ASSUME NEW p \in Pair, ReadIndex(p) PROVE Memory!MemoryNext
  BY <1>1, ImplReadIndex, PairBank DEF Memory!MemoryNext
<1>2. ASSUME NEW p \in Pair, ReadCell(p) PROVE Memory!MemoryNext
  BY <1>2, ImplReadCell, PairBank DEF Memory!MemoryNext
<1>3. ASSUME NEW p \in Pair, NEW i \in NvIndex, SelectIndex(p, i) PROVE Memory!MemoryNext
  BY <1>3, ImplSelect, PairBank DEF Memory!MemoryNext
<1>4. ASSUME NEW p \in Pair, NEW v \in CellValue, WriteCell(p, v) PROVE Memory!MemoryNext
  BY <1>4, ImplWriteCell, PairBank DEF Memory!MemoryNext
<1>5. ASSUME ClockRuns PROVE Memory!MemoryNext
  BY <1>5, ImplClockRuns DEF Memory!MemoryNext
<1>6. ASSUME UNCHANGED nvramVars PROVE UNCHANGED Memory!memoryVars
  BY <1>6, SeenKept DEF nvramVars, Memory!memoryVars
<1>. QED
  BY <1>1, <1>2, <1>3, <1>4, <1>5, <1>6 DEF NvramNext

\* Once the guest has selected an index of a bank, that is what the target's
\* index register holds whenever an access to the bank's data reaches the
\* target, whatever it held at first (nvram_write, nvram_read).
THEOREM IndexCorrect == NvramSpec => []NvInv
<1>1. NvramInit => NvInv
  BY InvInit
<1>2. NvInv /\ [NvramNext]_nvramVars => NvInv'
  BY InvNext
<1>. QED
  BY <1>1, <1>2, PTL DEF NvramSpec

\* With and without the cache, for all indexes and contents, for firmware that
\* selects an index of a bank before it uses it: the two places in which cells
\* are kept are one NVRAM to the guest (pc80.lua:341-436).
THEOREM CacheCorrect == NvramSpec => CacheIsMemory
<1>1. NvramInit => Memory!MemoryInit
  BY ImplInit
<1>2. NvInv /\ NvInv' /\ [NvramNext]_nvramVars => [Memory!MemoryNext]_Memory!memoryVars
  BY ImplNext
<1>. QED
  BY <1>1, <1>2, IndexCorrect, PTL DEF NvramSpec, CacheIsMemory, Memory!MemorySpec

(***************************************************************************)
(* The SMBus host: for all slaves, data and lengths of blocks, the log of  *)
(* transactions is right.                                                  *)
(***************************************************************************)

Signals == {"inuse", "start", "done", "release", "ack", "timeout", "timeout_ack",
            "abort", "data_write"}

\* Signals that do not outlive host_sync.
Passing == {"done", "start", "data_write", "abort"}

Protos == Proto \cup {"noop"}

Line == [slave : Slave \X Dir, proto : Protos, data : Seq(DataByte), timeout : BOOLEAN]

HostRec ==
  [state : {"idle", "active", "started", "wait"}, signals : SUBSET Signals,
   proto : Protos, start_proto : Protos, slave : Slave \X Dir, data0 : DataByte,
   wr_data0 : DataByte, data0_valid : BOOLEAN, data1_valid : BOOLEAN, max_index : Nat,
   block_ptr : Nat, said : Seq(Line)]

\* What a log line is made of; the machine's own state apart.
SameLine(g, h) ==
  /\ g.slave = h.slave /\ g.proto = h.proto /\ g.wr_data0 = h.wr_data0
  /\ g.data0 = h.data0 /\ g.data0_valid = h.data0_valid

Quiet(h) == h.state \in {"idle", "active"}

\* Between two accesses.  A claim is forgotten only with the state that goes
\* with it, and a failure is remembered only until it is logged.
Settled(h) ==
  /\ h.signals \cap Passing = {}
  /\ "timeout" \in h.signals => h.state = "wait"
  /\ "inuse" \in h.signals => h.state # "idle"

-----------------------------------------------------------------------------
(* The machine                                                             *)

LEMMA Reporting ==
  ASSUME NEW h \in HostRec
  PROVE  /\ Report(h) \in Line
         /\ dump_transaction(h) \in HostRec
         /\ dump_transaction(h).said = Append(h.said, Report(h))
         /\ dump_transaction(h).start_proto = h.start_proto
         /\ SameLine(dump_transaction(h), h)
  <1>1. Report(h) \in Line  BY DEF HostRec, Report, Line
  <1>2. Append(h.said, Report(h)) \in Seq(Line)  BY <1>1 DEF HostRec
  <1> QED  BY <1>1, <1>2 DEF HostRec, dump_transaction, SameLine

\* A machine with other signals.
LEMMA Signalled ==
  ASSUME NEW h \in HostRec, NEW sg \in SUBSET Signals
  PROVE  LET g == [h EXCEPT !.signals = sg]
         IN /\ g \in HostRec /\ SameLine(g, h) /\ g.state = h.state /\ g.signals = sg
            /\ g.said = h.said /\ g.start_proto = h.start_proto /\ g.max_index = h.max_index
            /\ g.data1_valid = h.data1_valid
  BY DEF HostRec, SameLine

\* Without a start or an abort the machine at rest only changes its state.
LEMMA SyncQuiet ==
  ASSUME NEW h \in HostRec, Quiet(h), "timeout" \notin h.signals,
         h.signals \cap {"start", "abort"} = {}
  PROVE  LET g == host_sync(h)
         IN g \in HostRec /\ Quiet(g) /\ Settled(g) /\ SameLine(g, h) /\ g.said = h.said
            /\ g.start_proto = h.start_proto
  BY DEF HostRec, Quiet, Settled, SameLine, Passing, Signals, host_sync, SyncIdle, SyncActive,
         EnterActive

\* A start takes the machine at rest into a transaction.
LEMMA SyncStart ==
  ASSUME NEW h \in HostRec, Quiet(h), "timeout" \notin h.signals,
         "inuse" \in h.signals => h.state # "idle",
         "start" \in h.signals, "abort" \notin h.signals
  PROVE  LET g == host_sync(h)
         IN /\ g \in HostRec /\ g.state = "started" /\ Settled(g) /\ g.said = h.said
            /\ g.slave = h.slave /\ g.proto = h.start_proto /\ g.wr_data0 = h.data0
            /\ g.data0 = h.data0 /\ g.data0_valid = FALSE
  <1>1. host_sync(h) = [EnterStarted(h) EXCEPT !.signals = @ \ {"done", "start", "data_write"}]
    BY DEF HostRec, Quiet, host_sync, SyncIdle, SyncActive
  <1> DEFINE sg == h.signals \ {"done", "start", "data_write"}
             g == [h EXCEPT !.state = "started", !.proto = h.start_proto, !.wr_data0 = h.data0,
                            !.data0_valid = FALSE, !.data1_valid = FALSE, !.max_index = 0,
                            !.signals = sg]
  <1>2. host_sync(h) = g  BY <1>1 DEF EnterStarted, HostRec
  <1>3. sg \in SUBSET Signals /\ sg \cap Passing = {} /\ "timeout" \notin sg
    BY DEF HostRec, Passing
  <1> HIDE DEF sg
  <1>4. g \in HostRec  BY <1>3 DEF HostRec
  <1>5. g.signals = sg /\ g.state = "started"  BY DEF HostRec
  <1> QED  BY <1>2, <1>3, <1>4, <1>5 DEF HostRec, Settled

\* What is logged when a transaction is complete.
LEMMA Completing ==
  ASSUME NEW h \in HostRec
  PROVE  LET g == EnterComplete(h)
         IN /\ g \in HostRec /\ Quiet(g) /\ g.signals \subseteq {"inuse"}
            /\ "inuse" \in g.signals => g.state # "idle"
            /\ SameLine(g, h) /\ g.start_proto = h.start_proto
            /\ g.said = Append(h.said, Report(h))
  <1> DEFINE d == dump_transaction(h)
  <1>1. d \in HostRec /\ d.said = Append(h.said, Report(h)) /\ SameLine(d, h)
        /\ d.start_proto = h.start_proto
    BY Reporting
  <1>2. EnterComplete(h) \in {EnterIdle(d), EnterActive(d)}
    BY DEF EnterComplete
  <1> HIDE DEF d
  <1>3. ASSUME NEW st \in {"idle", "active"}, NEW sg \in SUBSET {"inuse"},
               "inuse" \in sg => st # "idle",
               EnterComplete(h) = [d EXCEPT !.state = st, !.signals = sg]
        PROVE  LET g == EnterComplete(h)
               IN /\ g \in HostRec /\ Quiet(g) /\ g.signals \subseteq {"inuse"}
                  /\ "inuse" \in g.signals => g.state # "idle"
                  /\ SameLine(g, h) /\ g.start_proto = h.start_proto
                  /\ g.said = Append(h.said, Report(h))
    <2> DEFINE g == [d EXCEPT !.state = st, !.signals = sg]
    <2>1. /\ g \in HostRec /\ SameLine(g, d) /\ g.state = st /\ g.signals = sg
          /\ g.said = d.said /\ g.start_proto = d.start_proto
      <3>1. st \in {"idle", "active", "started", "wait"} /\ sg \in SUBSET Signals
        BY DEF Signals
      <3> QED  BY <1>1, <3>1 DEF HostRec, SameLine
    <2> HIDE DEF g
    <2> QED  BY <1>1, <1>3, <2>1 DEF Quiet, SameLine, g
  <1>5. CASE EnterComplete(h) = EnterIdle(d)
    BY <1>3, <1>5 DEF EnterIdle
  <1>6. CASE EnterComplete(h) = EnterActive(d)
    BY <1>3, <1>6 DEF EnterActive
  <1> QED  BY <1>2, <1>5, <1>6

\* An abort logs what there is.
LEMMA SyncAbort ==
  ASSUME NEW h \in HostRec, "abort" \in h.signals
  PROVE  LET g == host_sync(h)
         IN /\ g \in HostRec /\ Quiet(g) /\ Settled(g) /\ SameLine(g, h)
            /\ g.said = Append(h.said, Report(h))
  <1> DEFINE a == EnterComplete(h)
  <1>1. /\ a \in HostRec /\ Quiet(a) /\ a.signals \subseteq {"inuse"}
        /\ "inuse" \in a.signals => a.state # "idle"
        /\ SameLine(a, h) /\ a.said = Append(h.said, Report(h))
    BY Completing
  <1>2. host_sync(h) = [a EXCEPT !.signals = a.signals \ {"done", "start", "data_write"}]
    <2>1. SyncIdle(a) = a \/ a.state # "idle"  BY <1>1 DEF SyncIdle
    <2>2. SyncActive(a) = a  BY <1>1 DEF SyncActive
    <2> HIDE DEF a
    <2> QED  BY <1>1, <2>1, <2>2 DEF host_sync, Quiet, a
  <1> DEFINE sg == a.signals \ {"done", "start", "data_write"}
  <1> HIDE DEF a
  <1>3. sg \in SUBSET Signals /\ sg \cap Passing = {} /\ sg \subseteq {"inuse"}
    BY <1>1 DEF HostRec, Passing
  <1>4. /\ "inuse" \in sg => a.state # "idle"
        /\ "timeout" \notin sg
    BY <1>1
  <1> HIDE DEF sg
  <1> DEFINE g == [a EXCEPT !.signals = sg]
  <1>5. host_sync(h) = g  BY <1>2 DEF sg
  <1>6. /\ g \in HostRec /\ g.signals = sg /\ g.state = a.state /\ g.said = a.said
        /\ SameLine(g, a)
    BY <1>1, <1>3, Signalled DEF SameLine
  <1> HIDE DEF g
  <1>7. Quiet(g) /\ Settled(g)  BY <1>1, <1>3, <1>4, <1>6 DEF Quiet, Settled
  <1>8. SameLine(g, h)  BY <1>1, <1>6 DEF SameLine
  <1> QED  BY <1>1, <1>5, <1>6, <1>7, <1>8

\* A transaction that is over waits, or is logged and done with.
LEMMA SyncWaiting ==
  ASSUME NEW h \in HostRec, h.state = "wait", h.signals \cap {"start", "abort"} = {}
  PROVE  LET g == host_sync(h)
         IN /\ g \in HostRec /\ Settled(g) /\ SameLine(g, h)
            /\ g.start_proto = h.start_proto
            /\ \/ /\ g.state = "wait" /\ g.said = h.said /\ "data_write" \notin h.signals
                  /\ "timeout" \in g.signals <=> "timeout" \in h.signals
               \/ Quiet(g) /\ g.said = Append(h.said, Report(h))
  <1> DEFINE k == [h EXCEPT !.signals = @ \ {"release"}]
             Drop(x) == [x EXCEPT !.signals = x.signals \ {"done", "start", "data_write"}]
  <1>1. k \in HostRec /\ Report(k) = Report(h) /\ k.said = h.said /\ SameLine(k, h)
        /\ k.start_proto = h.start_proto
    BY DEF HostRec, Report, SameLine, host_reading
  <1>2. \/ SyncWait(h) = h /\ "data_write" \notin h.signals
        \/ SyncWait(h) = EnterComplete(h)
        \/ SyncWait(h) = EnterComplete(k)
    BY DEF SyncWait
  <1>3. host_sync(h) = Drop(SyncWait(h))  BY DEF host_sync
  <1>4. ASSUME NEW x \in {h, k}, SyncWait(h) = EnterComplete(x)
        PROVE  LET g == host_sync(h)
               IN /\ g \in HostRec /\ Settled(g) /\ SameLine(g, h) /\ Quiet(g)
                  /\ g.start_proto = h.start_proto
                  /\ g.said = Append(h.said, Report(h))
    <2> DEFINE a == EnterComplete(x)
    <2>1. /\ a \in HostRec /\ Quiet(a) /\ a.signals \subseteq {"inuse"}
          /\ "inuse" \in a.signals => a.state # "idle"
          /\ SameLine(a, x) /\ a.start_proto = x.start_proto
          /\ a.said = Append(x.said, Report(x))
      BY <1>1, Completing
    <2>2. SameLine(x, h) /\ x.said = h.said /\ Report(x) = Report(h)
          /\ x.start_proto = h.start_proto
      BY <1>1 DEF SameLine
    <2>3. host_sync(h) = Drop(a)  BY <1>3, <1>4
    <2> DEFINE sg == a.signals \ {"done", "start", "data_write"}
    <2> HIDE DEF a
    <2>4. sg \in SUBSET Signals /\ sg \cap Passing = {} /\ sg \subseteq {"inuse"}
      BY <2>1 DEF HostRec, Passing
    <2>5. /\ "inuse" \in sg => a.state # "idle"
          /\ "timeout" \notin sg
      BY <2>1
    <2>6. host_sync(h) = [a EXCEPT !.signals = sg]  BY <2>3
    <2> HIDE DEF sg
    <2> QED  BY <2>1, <2>2, <2>4, <2>5, <2>6, Signalled DEF Quiet, Settled, SameLine
  <1>5. CASE SyncWait(h) = h /\ "data_write" \notin h.signals
    BY <1>3, <1>5 DEF HostRec, Settled, SameLine, Passing, Signals
  <1> QED  BY <1>1, <1>2, <1>4, <1>5

-----------------------------------------------------------------------------
(* Accesses, as the machine sees them                                      *)

\* The line of the log for what the machine knows.
LineOf(h, late) ==
  [slave |-> h.slave, proto |-> h.proto, data |-> Report(h).data, timeout |-> late]

LEMMA LineSame ==
  ASSUME NEW g, NEW h, NEW late, SameLine(g, h)
  PROVE  LineOf(g, late) = LineOf(h, late)
  BY DEF LineOf, Report, SameLine, host_reading

LEMMA FirstLine ==
  ASSUME NEW e
  PROVE  Append(<<>>, e) = <<e>>
  <1>1. <<>> \in Seq({e}) /\ e \in {e}  OBVIOUS
  <1> QED  BY <1>1

LEMMA SameLineSame ==
  ASSUME NEW g \in HostRec, NEW h \in HostRec, SameLine(g, h)
  PROVE  Report(g) = LineOf(h, "timeout" \in g.signals)
  BY DEF Report, LineOf, SameLine, host_reading, HostRec

\* From rest or from waiting, with nothing started, stopped or failed.
Rests(g, h) ==
  /\ g \in HostRec /\ Settled(g) /\ SameLine(g, h) /\ g.start_proto = h.start_proto
  /\ \/ Quiet(h) /\ Quiet(g) /\ g.said = h.said
     \/ /\ h.state = "wait" /\ g.state = "wait" /\ g.said = h.said
        /\ "timeout" \in g.signals <=> "timeout" \in h.signals
     \/ /\ h.state = "wait" /\ Quiet(g)
        /\ g.said = Append(h.said, LineOf(h, "timeout" \in h.signals))

Mild == {"inuse", "release", "ack", "timeout_ack", "data_write"}

\* host_sync with further signals that neither start nor stop anything.
LEMMA MildSync ==
  ASSUME NEW h \in HostRec, Settled(h), Quiet(h) \/ h.state = "wait",
         NEW sg \in SUBSET Signals, sg \subseteq h.signals \cup Mild,
         "timeout" \in sg <=> "timeout" \in h.signals
  PROVE  LET g == host_sync([h EXCEPT !.signals = sg])
         IN Rests(g, h) /\ ("data_write" \in sg => Quiet(g))
  <1> DEFINE k == [h EXCEPT !.signals = sg]
             g == host_sync(k)
  <1>1. /\ k \in HostRec /\ SameLine(k, h) /\ k.state = h.state /\ k.signals = sg
        /\ k.said = h.said /\ k.start_proto = h.start_proto
    BY Signalled
  <1>2. sg \cap {"start", "abort"} = {}  BY DEF Settled, Passing, Mild
  <1> HIDE DEF k
  <1>3. CASE Quiet(h)
    <2>1. Quiet(k) /\ "timeout" \notin k.signals /\ k.signals \cap {"start", "abort"} = {}
      BY <1>1, <1>2, <1>3 DEF Quiet, Settled
    <2>2. /\ g \in HostRec /\ Quiet(g) /\ Settled(g) /\ SameLine(g, k) /\ g.said = k.said
          /\ g.start_proto = k.start_proto
      BY <1>1, <2>1, SyncQuiet
    <2> HIDE DEF g
    <2> QED  BY <1>1, <1>3, <2>2 DEF Rests, SameLine, k, g
  <1>4. CASE h.state = "wait"
    <2>1. k.state = "wait" /\ k.signals \cap {"start", "abort"} = {}
      BY <1>1, <1>2, <1>4
    <2>2. /\ g \in HostRec /\ Settled(g) /\ SameLine(g, k) /\ g.start_proto = k.start_proto
          /\ \/ /\ g.state = "wait" /\ g.said = k.said /\ "data_write" \notin k.signals
                /\ "timeout" \in g.signals <=> "timeout" \in k.signals
             \/ Quiet(g) /\ g.said = Append(k.said, Report(k))
      BY <1>1, <2>1, SyncWaiting
    <2>3. Report(k) = LineOf(h, "timeout" \in h.signals)
      BY <1>1, SameLineSame
    <2> HIDE DEF g
    <2> QED  BY <1>1, <1>4, <2>2, <2>3 DEF Rests, SameLine, k, g
  <1> QED  BY <1>3, <1>4

LEMMA MildSignal ==
  ASSUME NEW h \in HostRec, Settled(h), Quiet(h) \/ h.state = "wait", NEW s \in Mild
  PROVE  Rests(signal(h, s), h) /\ (s = "data_write" => Quiet(signal(h, s)))
  <1> DEFINE sg == h.signals \cup {s}
  <1>1. sg \in SUBSET Signals /\ sg \subseteq h.signals \cup Mild
        /\ ("timeout" \in sg <=> "timeout" \in h.signals) /\ s \in sg
    BY DEF HostRec, Signals, Mild
  <1>2. signal(h, s) = host_sync([h EXCEPT !.signals = sg])  BY DEF signal
  <1> HIDE DEF sg
  <1> QED  BY <1>1, <1>2, MildSync

LEMMA MildRead ==
  ASSUME NEW h \in HostRec, Settled(h), Quiet(h) \/ h.state = "wait"
  PROVE  Rests(data_read(h), h)
  <1> DEFINE sg == h.signals \ {"data_write"}
  <1>1. sg \in SUBSET Signals /\ sg \subseteq h.signals \cup Mild
        /\ ("timeout" \in sg <=> "timeout" \in h.signals)
    BY DEF HostRec
  <1>2. data_read(h) = host_sync([h EXCEPT !.signals = sg])  BY DEF data_read
  <1> HIDE DEF sg
  <1> QED  BY <1>1, <1>2, MildSync

LEMMA RestsOn ==
  ASSUME NEW f, NEW g, NEW h \in HostRec, Rests(g, h), Rests(f, g)
  PROVE  Rests(f, h)
  <1>1. LineOf(g, "timeout" \in g.signals) = LineOf(h, "timeout" \in g.signals)
    BY LineSame DEF Rests
  <1> QED  BY <1>1 DEF Rests, SameLine, Quiet

LEMMA RestsStill ==
  ASSUME NEW h \in HostRec, Settled(h), Quiet(h) \/ h.state = "wait"
  PROVE  Rests(h, h)
  BY DEF Rests, SameLine

\* A write of the status register.
LEMMA StatusWritten ==
  ASSUME NEW h \in HostRec, Settled(h), Quiet(h) \/ h.state = "wait", NEW bits
  PROVE  Rests(StatusWrite(h, bits), h)
  <1> DEFINE a == IF "inuse" \in bits THEN signal(h, "release") ELSE h
             b == IF "fail" \in bits THEN signal(a, "timeout_ack") ELSE a
             c == IF "irq" \in bits THEN signal(b, "ack") ELSE b
  <1>1. {"release", "timeout_ack", "ack"} \subseteq Mild  BY DEF Mild
  <1>2. Rests(a, h)  BY <1>1, MildSignal, RestsStill
  <1> HIDE DEF a
  <1>3. a \in HostRec /\ Settled(a) /\ (Quiet(a) \/ a.state = "wait")  BY <1>2 DEF Rests
  <1>4. Rests(b, a)  BY <1>1, <1>3, MildSignal, RestsStill
  <1> HIDE DEF b
  <1>5. b \in HostRec /\ Settled(b) /\ (Quiet(b) \/ b.state = "wait")  BY <1>4 DEF Rests
  <1>6. Rests(c, b)  BY <1>1, <1>5, MildSignal, RestsStill
  <1>7. StatusWrite(h, bits) = c  BY DEF StatusWrite, a, b
  <1> HIDE DEF c
  <1> QED  BY <1>2, <1>4, <1>6, <1>7, RestsOn

\* A read of the status register while no transaction is followed.
LEMMA StatusReadAtRest ==
  ASSUME NEW h \in HostRec, Settled(h), Quiet(h) \/ h.state = "wait", NEW status
  PROVE  Rests(StatusRead(h, status), h)
  <1>1. "inuse" \in Mild  BY DEF Mild
  <1> QED  BY <1>1, MildSignal, RestsStill DEF StatusRead, Quiet

\* A transaction that the controller has completed waits to be acknowledged.
LEMMA DoneWaits ==
  ASSUME NEW h \in HostRec, Settled(h), h.state = "started"
  PROVE  LET g == signal(h, "done")
         IN /\ g \in HostRec /\ Settled(g) /\ SameLine(g, h) /\ g.said = h.said
            /\ g.state = "wait" /\ "timeout" \notin g.signals
  <1> DEFINE sg == h.signals \cup {"done"}
             k == [h EXCEPT !.signals = sg]
             tg == sg \ {"done", "start", "data_write"}
  <1>1. sg \in SUBSET Signals /\ "done" \in sg /\ sg \cap {"timeout", "abort"} = {}
        /\ tg \in SUBSET Signals /\ tg \cap Passing = {} /\ "timeout" \notin tg
    BY DEF HostRec, Signals, Settled, Passing
  <1>2. /\ k \in HostRec /\ SameLine(k, h) /\ k.state = h.state /\ k.signals = sg
        /\ k.said = h.said
    BY <1>1, Signalled
  <1> HIDE DEF sg, k
  <1>3. host_sync(k) = [EnterWait(k) EXCEPT !.signals = @ \ {"done", "start", "data_write"}]
    BY <1>1, <1>2 DEF host_sync, SyncStarted
  <1>4. host_sync(k) = [k EXCEPT !.state = "wait", !.signals = tg]
    BY <1>2, <1>3 DEF EnterWait, HostRec
  <1>5. signal(h, "done") = host_sync(k)  BY DEF signal, k, sg
  <1> HIDE DEF tg
  <1>6. /\ host_sync(k) \in HostRec /\ SameLine(host_sync(k), k)
        /\ host_sync(k).said = k.said /\ host_sync(k).state = "wait"
        /\ host_sync(k).signals = tg
    BY <1>1, <1>2, <1>4 DEF HostRec, SameLine
  <1> QED  BY <1>1, <1>2, <1>5, <1>6 DEF SameLine, Settled

\* A failure is logged at once, or noted for the line that is still to come.
LEMMA FailureSeen ==
  ASSUME NEW h \in HostRec, Settled(h), h.state \in {"started", "wait"}
  PROVE  LET g == signal(h, "timeout")
         IN /\ g \in HostRec /\ Settled(g) /\ SameLine(g, h)
            /\ \/ g.state = "wait" /\ h.state = "wait" /\ g.said = h.said /\ "timeout" \in g.signals
               \/ Quiet(g) /\ g.said = Append(h.said, LineOf(h, TRUE))
  <1> DEFINE sg == h.signals \cup {"timeout"}
             k == [h EXCEPT !.signals = sg]
             g == host_sync(k)
  <1>1. sg \in SUBSET Signals /\ "timeout" \in sg /\ sg \cap {"start", "abort"} = {}
    BY DEF HostRec, Signals, Settled, Passing
  <1>2. /\ k \in HostRec /\ SameLine(k, h) /\ k.state = h.state /\ k.signals = sg
        /\ k.said = h.said
    BY <1>1, Signalled
  <1>3. signal(h, "timeout") = g  BY DEF signal
  <1> HIDE DEF sg, k
  <1>4. Report(k) = LineOf(h, TRUE)  BY <1>1, <1>2, SameLineSame
  <1>5. CASE h.state = "started"
    <2> DEFINE d == dump_transaction(k)
               tg == {"inuse"}
    <2>1. d \in HostRec /\ d.said = Append(k.said, Report(k)) /\ SameLine(d, k)
      BY <1>2, Reporting
    <2>2. SyncStarted(k) = EnterActive(d)
      BY <1>1, <1>2 DEF SyncStarted, EnterFail
    <2> HIDE DEF d
    <2>3. g = [EnterActive(d) EXCEPT !.signals = @ \ {"done", "start", "data_write"}]
      BY <1>1, <1>2, <1>5, <2>2 DEF host_sync
    <2>4. g = [d EXCEPT !.state = "active", !.signals = {"inuse"}]
      BY <2>1, <2>3 DEF EnterActive, HostRec
    <2> HIDE DEF g
    <2>5. {"inuse"} \in SUBSET Signals  BY DEF Signals
    <2>6. g \in HostRec /\ SameLine(g, d) /\ g.said = d.said /\ g.state = "active"
          /\ g.signals = {"inuse"}
      BY <2>1, <2>4, <2>5 DEF HostRec, SameLine
    <2>7. SameLine(g, h) /\ g.said = Append(h.said, LineOf(h, TRUE)) /\ Quiet(g)
      BY <1>2, <1>4, <2>1, <2>6 DEF SameLine, Quiet
    <2>8. Settled(g)  BY <2>6 DEF Settled, Passing
    <2> QED  BY <1>3, <2>6, <2>7, <2>8
  <1>6. CASE h.state = "wait"
    <2>1. /\ g \in HostRec /\ Settled(g) /\ SameLine(g, k)
          /\ \/ /\ g.state = "wait" /\ g.said = k.said
                /\ "timeout" \in g.signals <=> "timeout" \in k.signals
             \/ Quiet(g) /\ g.said = Append(k.said, Report(k))
      BY <1>1, <1>2, <1>6, SyncWaiting
    <2> HIDE DEF g
    <2> QED  BY <1>1, <1>2, <1>3, <1>4, <1>6, <2>1 DEF SameLine
  <1> QED  BY <1>5, <1>6

\* A poll that finds the transaction over.
LEMMA PollSeesEnd ==
  ASSUME NEW h \in HostRec, Settled(h), h.state = "started", h.said = <<>>,
         NEW status, "busy" \notin status, "fail" \notin status => "irq" \in status
  PROVE  LET g == StatusRead(h, status)
         IN /\ g \in HostRec /\ Settled(g) /\ SameLine(g, h)
            /\ \/ /\ g.state = "wait" /\ g.said = <<>>
                  /\ "timeout" \in g.signals <=> "fail" \in status
               \/ Quiet(g) /\ g.said = <<LineOf(h, TRUE)>> /\ "fail" \in status
  <1> DEFINE d == IF "irq" \in status THEN signal(h, "done") ELSE h
  <1>1. StatusRead(h, status) = IF "fail" \in status THEN signal(d, "timeout") ELSE d
    BY DEF StatusRead
  <1>2. /\ d \in HostRec /\ Settled(d) /\ SameLine(d, h) /\ d.said = <<>>
        /\ IF "irq" \in status THEN d.state = "wait" /\ "timeout" \notin d.signals
           ELSE d.state = "started"
    BY DoneWaits DEF SameLine
  <1> HIDE DEF d
  <1>3. LineOf(d, TRUE) = LineOf(h, TRUE)
    BY <1>2, LineSame
  <1>4. CASE "fail" \notin status
    BY <1>1, <1>2, <1>4
  <1>5. CASE "fail" \in status
    <2> DEFINE g == signal(d, "timeout")
    <2>1. /\ g \in HostRec /\ Settled(g) /\ SameLine(g, d)
          /\ \/ g.state = "wait" /\ g.said = d.said /\ "timeout" \in g.signals
             \/ Quiet(g) /\ g.said = Append(d.said, LineOf(d, TRUE))
      BY <1>2, FailureSeen
    <2> HIDE DEF g
    <2>2. StatusRead(h, status) = g  BY <1>1, <1>5 DEF g
    <2>3. Append(<<>>, LineOf(d, TRUE)) = <<LineOf(h, TRUE)>>  BY <1>3, FirstLine
    <2>4. SameLine(g, h)  BY <1>2, <2>1 DEF SameLine
    <2> QED  BY <1>2, <1>5, <2>1, <2>2, <2>3, <2>4
  <1> QED  BY <1>4, <1>5

-----------------------------------------------------------------------------
(* The invariant                                                           *)

Transaction ==
  [slave : Slave \X Dir, proto : Proto, data : Seq(DataByte),
   result : {"none", "ok", "fail"}, killed : BOOLEAN]

CtrlRec ==
  [running : BOOLEAN, status : SUBSET {"busy", "irq", "fail"}, slave : Slave \X Dir,
   data0 : DataByte, proto : Protos]

Stations == {"look", "setup", "run", "killed", "over"}

\* The transaction that is not logged yet is the one the machine is about, with
\* all that its line will need.
Pending(t) ==
  /\ t \in Transaction /\ ~t.killed
  /\ t.slave = host.slave /\ t.proto = host.proto /\ t.data = <<ctrl.data0>>
  /\ host.slave[2] = "write" => host.wr_data0 = ctrl.data0
  /\ host.data0_valid => host.state = "wait" /\ host.data0 = ctrl.data0
  /\ IF host.state = "wait"
     THEN t.result # "none" /\ ("timeout" \in host.signals <=> t.result = "fail")
     ELSE /\ t.result = "none" <=> ctrl.running
          /\ t.result = "fail" <=> "fail" \in ctrl.status
          /\ t.result = "ok" => "irq" \in ctrl.status

SmbusTypeOK ==
  /\ host \in HostRec /\ ctrl \in CtrlRec
  /\ driver \in [at : Stations, data : BOOLEAN]
  /\ owed \in Seq(Transaction)

\* Machine, controller and driver are in the same part of a transaction.
InStep ==
  /\ Settled(host) /\ host.said = <<>>
  /\ host.slave = ctrl.slave
  /\ Busy <=> ctrl.running
  /\ ctrl.running => driver.at = "run"
  /\ host.state = "started" <=> driver.at = "run"
  /\ driver.at = "killed" => Quiet(host)
  /\ driver.data => driver.at # "run" /\ host.data0 = ctrl.data0

\* Nothing is to be logged, or the machine has it.
Owing ==
  \/ Quiet(host) /\ owed = <<>>
  \/ ~Quiet(host) /\ \E t : owed = <<t>> /\ Pending(t)

SmbusInv == SmbusTypeOK /\ InStep /\ Owing /\ wrong = FALSE

LEMMA LineMatches ==
  ASSUME NEW h, NEW t, NEW late \in BOOLEAN, h.slave \in Slave \X Dir,
         h.slave = t.slave, h.proto = t.proto, t.result # "none",
         t.killed \/ (late <=> t.result = "fail"),
         h.slave[2] = "write" => t.data = <<h.wr_data0>>,
         h.slave[2] = "read" /\ h.data0_valid => t.killed \/ t.data = <<h.data0>>
  PROVE  Matches(LineOf(h, late), t)
  <1>1. h.slave[2] \in {"read", "write"}  BY DEF Dir
  <1> QED  BY <1>1 DEF Matches, LineOf, Report, host_reading

\* What makes the log wrong in an access.
Fault(h, made) ==
  \/ wrong \/ Len(h.said) > Len(made)
  \/ \E i \in 1..Len(h.said) : i <= Len(made) /\ ~Matches(h.said[i], made[i])

LEMMA NoFault ==
  ASSUME NEW h, NEW made, Heard(h, made), ~Fault(h, made)
  PROVE  wrong' = FALSE
  <1>1. wrong' = Fault(h, made)  BY Zenon DEF Heard, Fault
  <1>2. Fault(h, made) = FALSE  BY Zenon DEF Fault
  <1> QED  BY <1>1, <1>2, Zenon

LEMMA HeardNothing ==
  ASSUME NEW h \in HostRec, h.said = <<>>, NEW made \in Seq(Transaction),
         Heard(h, made), wrong = FALSE
  PROVE  host' = h /\ owed' = made /\ wrong' = FALSE
  <1>1. host' = h  BY DEF Heard, HostRec
  <1>2. owed' = SubSeq(made, 1, Len(made)) /\ Len(h.said) = 0  BY DEF Heard
  <1>3. SubSeq(made, 1, Len(made)) = made  OBVIOUS
  <1>4. ~Fault(h, made)  BY <1>2 DEF Fault
  <1>5. wrong' = FALSE  BY <1>4, NoFault, Zenon
  <1> QED  BY <1>1, <1>2, <1>3, <1>5, Zenon

LEMMA HeardLine ==
  ASSUME NEW h \in HostRec, NEW r, h.said = <<r>>, NEW t, Heard(h, <<t>>),
         Matches(r, t), wrong = FALSE
  PROVE  host' = [h EXCEPT !.said = <<>>] /\ owed' = <<>> /\ wrong' = FALSE
  <1>1. Len(h.said) = 1 /\ h.said[1] = r /\ Len(<<t>>) = 1 /\ <<t>>[1] = t  OBVIOUS
  <1>2. owed' = SubSeq(<<t>>, 2, 1)  BY <1>1 DEF Heard
  <1>3. SubSeq(<<t>>, 2, 1) = <<>>  OBVIOUS
  <1>4. ~Fault(h, <<t>>)  BY <1>1 DEF Fault
  <1>5. wrong' = FALSE  BY <1>4, NoFault, Zenon
  <1>6. host' = [h EXCEPT !.said = <<>>]  BY Zenon DEF Heard
  <1> QED  BY <1>2, <1>3, <1>5, <1>6, Zenon

LEMMA Cleared ==
  ASSUME NEW h \in HostRec
  PROVE  LET g == [h EXCEPT !.said = <<>>]
         IN /\ g \in HostRec /\ g.said = <<>> /\ g.state = h.state /\ g.signals = h.signals
            /\ SameLine(g, h)
  <1>1. <<>> \in Seq(Line)  OBVIOUS
  <1> QED  BY <1>1 DEF HostRec, SameLine

-----------------------------------------------------------------------------
(* Steps                                                                   *)

\* The line that the machine is going to write is that of what is owed.
LEMMA OwedMatches ==
  ASSUME SmbusInv, NEW h \in HostRec, h.state = host.state, h.state = "wait",
         h.signals = host.signals, h.slave = host.slave, h.proto = host.proto,
         h.wr_data0 = host.wr_data0, h.data0_valid => h.data0 = ctrl.data0
  PROVE  \E t : owed = <<t>> /\ Pending(t)
                /\ Matches(LineOf(h, "timeout" \in h.signals), t)
  <1>1. PICK t : owed = <<t>> /\ Pending(t)  BY DEF SmbusInv, Owing, Quiet
  <1>2. h.slave \in Slave \X Dir  BY DEF HostRec
  <1>3. /\ h.slave = t.slave /\ h.proto = t.proto /\ t.result # "none"
        /\ "timeout" \in h.signals <=> t.result = "fail"
        /\ h.slave[2] = "write" => t.data = <<h.wr_data0>>
        /\ h.slave[2] = "read" /\ h.data0_valid => t.data = <<h.data0>>
    BY <1>1 DEF Pending
  <1>4. ("timeout" \in h.signals) \in BOOLEAN  OBVIOUS
  <1>5. Matches(LineOf(h, "timeout" \in h.signals), t)
    BY <1>2, <1>3, <1>4, LineMatches, Zenon
  <1> QED  BY <1>1, <1>5

\* An access at rest: h is the machine before host_sync, g after it, and k
\* what the access leaves.  If a line is logged, it is that of what is owed.
LEMMA Resting ==
  ASSUME SmbusInv, Quiet(host) \/ host.state = "wait",
         NEW h \in HostRec, h.state = host.state, h.signals = host.signals, h.said = <<>>,
         h.slave = host.slave, h.proto = host.proto, h.wr_data0 = host.wr_data0,
         h.state = "wait" /\ h.data0_valid => h.data0 = ctrl.data0,
         NEW g, Rests(g, h),
         NEW k \in HostRec, k.state = g.state, k.signals = g.signals, k.said = g.said,
         Heard(k, owed)
  PROVE  /\ host' \in HostRec /\ Settled(host') /\ host'.said = <<>> /\ SameLine(host', k)
         /\ host'.state = k.state /\ wrong' = FALSE
         /\ \/ Quiet(host') /\ owed' = <<>>
            \/ /\ host.state = "wait" /\ host'.state = "wait" /\ owed' = owed
               /\ "timeout" \in host'.signals <=> "timeout" \in host.signals
  <1> USE DEF SmbusInv, SmbusTypeOK
  <1>1. Settled(k)  BY DEF Rests, Settled
  <1>2. CASE Quiet(h)
    <2>1. k.said = <<>> /\ Quiet(k) /\ owed = <<>>
      BY <1>2 DEF Rests, Quiet, Owing
    <2>2. host' = k /\ owed' = owed /\ wrong' = FALSE  BY <2>1, HeardNothing
    <2> QED  BY <1>1, <2>1, <2>2 DEF SameLine
  <1>3. CASE h.state = "wait" /\ g.state = "wait" /\ g.said = h.said
             /\ ("timeout" \in g.signals <=> "timeout" \in h.signals)
    <2>1. k.said = <<>>  BY <1>3
    <2>2. host' = k /\ owed' = owed /\ wrong' = FALSE  BY <2>1, HeardNothing
    <2> QED  BY <1>1, <1>3, <2>1, <2>2 DEF SameLine
  <1>4. CASE h.state = "wait" /\ Quiet(g)
             /\ g.said = Append(h.said, LineOf(h, "timeout" \in h.signals))
    <2> DEFINE r == LineOf(h, "timeout" \in h.signals)
    <2>1. PICK t : owed = <<t>> /\ Pending(t) /\ Matches(r, t)
      BY <1>4, OwedMatches
    <2>2. k.said = <<r>>  BY <1>4, FirstLine
    <2> HIDE DEF r
    <2>4. host' = [k EXCEPT !.said = <<>>] /\ owed' = <<>> /\ wrong' = FALSE
      BY <2>1, <2>2, HeardLine
    <2>5. /\ host' \in HostRec /\ host'.said = <<>> /\ host'.state = k.state
          /\ host'.signals = k.signals /\ SameLine(host', k)
      BY <2>4, Cleared
    <2> QED  BY <1>1, <1>4, <2>4, <2>5 DEF Settled, Quiet
  <1> QED  BY <1>2, <1>3, <1>4 DEF Rests

\* What is left to be shown of such an access.
LEMMA Rested ==
  ASSUME SmbusInv, wrong' = FALSE,
         host' \in HostRec, Settled(host'), host'.said = <<>>,
         \/ Quiet(host') /\ owed' = <<>>
         \/ /\ host.state = "wait" /\ host'.state = "wait" /\ owed' = owed
            /\ "timeout" \in host'.signals <=> "timeout" \in host.signals
            /\ host'.slave = host.slave /\ host'.proto = host.proto
            /\ host'.wr_data0 = host.wr_data0 /\ ctrl'.data0 = ctrl.data0
            /\ host'.data0_valid => host'.data0 = ctrl'.data0,
         ctrl' \in CtrlRec, driver' \in [at : Stations, data : BOOLEAN],
         host'.slave = ctrl'.slave, "busy" \notin ctrl'.status, ctrl'.running = FALSE,
         driver'.at # "run", driver'.at = "killed" => Quiet(host'),
         driver'.data => host'.data0 = ctrl'.data0
  PROVE  SmbusInv'
  <1> USE DEF SmbusInv
  <1>1. CASE Quiet(host') /\ owed' = <<>>
    BY <1>1 DEF SmbusTypeOK, InStep, Owing, Busy, Quiet
  <1>2. CASE /\ host.state = "wait" /\ host'.state = "wait" /\ owed' = owed
             /\ "timeout" \in host'.signals <=> "timeout" \in host.signals
             /\ host'.slave = host.slave /\ host'.proto = host.proto
             /\ host'.wr_data0 = host.wr_data0 /\ ctrl'.data0 = ctrl.data0
             /\ host'.data0_valid => host'.data0 = ctrl'.data0
    <2>1. PICK t : owed = <<t>> /\ Pending(t)  BY <1>2 DEF Owing, Quiet
    <2>2. Pending(t)'  BY <1>2, <2>1 DEF Pending
    <2> QED  BY <1>2, <2>1, <2>2 DEF SmbusTypeOK, InStep, Owing, Busy, Quiet
  <1> QED  BY <1>1, <1>2

\* The driver is not waiting for a transaction.
LEMMA AtRest ==
  ASSUME SmbusInv, driver.at # "run"
  PROVE  /\ host \in HostRec /\ Settled(host) /\ (Quiet(host) \/ host.state = "wait")
         /\ ctrl.running = FALSE /\ "busy" \notin ctrl.status
         /\ host.said = <<>> /\ host.slave = ctrl.slave
         /\ host.state = "wait" /\ host.data0_valid => host.data0 = ctrl.data0
  <1>1. host.state \in {"idle", "active", "started", "wait"}
    BY DEF SmbusInv, SmbusTypeOK, HostRec
  <1>2. ctrl.running \in BOOLEAN  BY DEF SmbusInv, SmbusTypeOK, CtrlRec
  <1>3. ctrl.running = FALSE /\ "busy" \notin ctrl.status
    BY <1>2 DEF SmbusInv, InStep, Busy
  <1> QED  BY <1>1, <1>3 DEF SmbusInv, SmbusTypeOK, InStep, Owing, Pending, Quiet

LEMMA LookStep ==
  ASSUME SmbusInv, Look
  PROVE  SmbusInv'
  <1> DEFINE g == StatusRead(host, ctrl.status)
  <1>1. driver.at # "run"  BY DEF Look
  <1>2. Rests(g, host)  BY <1>1, AtRest, StatusReadAtRest
  <1>3. g \in HostRec /\ Heard(g, owed)  BY <1>2 DEF Look, Rests
  <1> HIDE DEF g
  <1>4. /\ host' \in HostRec /\ Settled(host') /\ host'.said = <<>> /\ SameLine(host', g)
        /\ host'.state = g.state /\ wrong' = FALSE
        /\ \/ Quiet(host') /\ owed' = <<>>
           \/ /\ host.state = "wait" /\ host'.state = "wait" /\ owed' = owed
              /\ "timeout" \in host'.signals <=> "timeout" \in host.signals
    BY <1>1, <1>2, <1>3, AtRest, Resting
  <1>5. SameLine(host', host)  BY <1>2, <1>4 DEF SameLine, Rests
  <1>6. /\ ctrl' = ctrl /\ driver' \in [at : Stations, data : BOOLEAN]
        /\ driver'.at \in {"look", "setup"} /\ driver'.data = driver.data
    BY DEF Look, SmbusInv, SmbusTypeOK, Stations
  <1>7. ctrl' \in CtrlRec /\ (driver.data => host.data0 = ctrl.data0)
    BY <1>6 DEF SmbusInv, SmbusTypeOK, InStep
  <1> QED  BY <1>1, <1>4, <1>5, <1>6, <1>7, AtRest, Rested DEF SameLine

LEMMA WriteStatusStep ==
  ASSUME SmbusInv, WriteStatus
  PROVE  SmbusInv'
  <1>1. driver.at # "run"  BY DEF WriteStatus
  <1>2. PICK bits \in SUBSET {"irq", "fail", "inuse"} :
          /\ Heard(StatusWrite(host, bits), owed)
          /\ ctrl' = [ctrl EXCEPT !.status = @ \ bits]
    BY DEF WriteStatus
  <1> DEFINE g == StatusWrite(host, bits)
  <1>3. Rests(g, host)  BY <1>1, AtRest, StatusWritten
  <1>4. g \in HostRec /\ Heard(g, owed)  BY <1>2, <1>3 DEF Rests
  <1> HIDE DEF g
  <1>5. /\ host' \in HostRec /\ Settled(host') /\ host'.said = <<>> /\ SameLine(host', g)
        /\ host'.state = g.state /\ wrong' = FALSE
        /\ \/ Quiet(host') /\ owed' = <<>>
           \/ /\ host.state = "wait" /\ host'.state = "wait" /\ owed' = owed
              /\ "timeout" \in host'.signals <=> "timeout" \in host.signals
    BY <1>1, <1>3, <1>4, AtRest, Resting
  <1>6. SameLine(host', host)  BY <1>3, <1>5 DEF SameLine, Rests
  <1>7. /\ ctrl' \in CtrlRec /\ ctrl'.running = ctrl.running /\ ctrl'.slave = ctrl.slave
        /\ ctrl'.data0 = ctrl.data0 /\ ctrl'.status \subseteq ctrl.status
    BY <1>2 DEF SmbusInv, SmbusTypeOK, CtrlRec
  <1>8. /\ driver' = driver /\ driver \in [at : Stations, data : BOOLEAN]
        /\ driver.at \in {"setup", "over"}
        /\ driver.data => host.data0 = ctrl.data0
    BY DEF WriteStatus, SmbusInv, SmbusTypeOK, InStep
  <1> QED  BY <1>1, <1>5, <1>6, <1>7, <1>8, AtRest, Rested DEF SameLine

LEMMA WriteSlaveStep ==
  ASSUME SmbusInv, WriteSlave
  PROVE  SmbusInv'
  <1>1. driver.at # "run"  BY DEF WriteSlave
  <1>2. PICK slave \in Slave \X Dir :
          Heard(SlaveStored(host, slave), owed) /\ ctrl' = [ctrl EXCEPT !.slave = slave]
    BY DEF WriteSlave
  <1> DEFINE g == data_write(host)
             k == [g EXCEPT !.slave = slave]
  <1>3. Rests(g, host) /\ Quiet(g)
    BY <1>1, AtRest, MildSignal DEF data_write, Mild
  <1>4. g \in HostRec /\ Heard(k, owed)  BY <1>2, <1>3 DEF Rests, SlaveStored
  <1> HIDE DEF g
  <1>5. /\ k \in HostRec /\ k.state = g.state /\ k.signals = g.signals /\ k.said = g.said
        /\ k.slave = slave /\ k.data0 = g.data0
    BY <1>4 DEF HostRec
  <1> HIDE DEF k
  <1>6. /\ host' \in HostRec /\ Settled(host') /\ host'.said = <<>> /\ SameLine(host', k)
        /\ host'.state = k.state /\ wrong' = FALSE
        /\ \/ Quiet(host') /\ owed' = <<>>
           \/ /\ host.state = "wait" /\ host'.state = "wait" /\ owed' = owed
              /\ "timeout" \in host'.signals <=> "timeout" \in host.signals
    BY <1>1, <1>3, <1>4, <1>5, AtRest, Resting
  <1>7. Quiet(host') /\ owed' = <<>>  BY <1>3, <1>5, <1>6 DEF Quiet
  <1>8. host'.slave = slave /\ host'.data0 = host.data0
    BY <1>3, <1>5, <1>6 DEF SameLine, Rests
  <1>9. /\ ctrl' \in CtrlRec /\ ctrl'.running = ctrl.running /\ ctrl'.slave = slave
        /\ ctrl'.data0 = ctrl.data0 /\ ctrl'.status = ctrl.status
    BY <1>2 DEF SmbusInv, SmbusTypeOK, CtrlRec
  <1>10. /\ driver' = driver /\ driver \in [at : Stations, data : BOOLEAN]
         /\ driver.data => host.data0 = ctrl.data0
    BY DEF WriteSlave, SmbusInv, SmbusTypeOK, InStep
  <1> QED  BY <1>1, <1>6, <1>7, <1>8, <1>9, <1>10, AtRest, Rested

LEMMA WriteData0Step ==
  ASSUME SmbusInv, WriteData0
  PROVE  SmbusInv'
  <1>1. driver.at # "run"  BY DEF WriteData0
  <1>2. PICK v \in DataByte :
          /\ Heard([data_write(host) EXCEPT !.data0 = v, !.data0_valid = TRUE], owed)
          /\ ctrl' = [ctrl EXCEPT !.data0 = v]
    BY DEF WriteData0
  <1> DEFINE g == data_write(host)
             k == [g EXCEPT !.data0 = v, !.data0_valid = TRUE]
  <1>3. Rests(g, host) /\ Quiet(g)
    BY <1>1, AtRest, MildSignal DEF data_write, Mild
  <1>4. g \in HostRec /\ Heard(k, owed)  BY <1>2, <1>3 DEF Rests
  <1> HIDE DEF g
  <1>5. /\ k \in HostRec /\ k.state = g.state /\ k.signals = g.signals /\ k.said = g.said
        /\ k.slave = g.slave /\ k.data0 = v
    BY <1>4 DEF HostRec
  <1> HIDE DEF k
  <1>6. /\ host' \in HostRec /\ Settled(host') /\ host'.said = <<>> /\ SameLine(host', k)
        /\ host'.state = k.state /\ wrong' = FALSE
        /\ \/ Quiet(host') /\ owed' = <<>>
           \/ /\ host.state = "wait" /\ host'.state = "wait" /\ owed' = owed
              /\ "timeout" \in host'.signals <=> "timeout" \in host.signals
    BY <1>1, <1>3, <1>4, <1>5, AtRest, Resting
  <1>7. Quiet(host') /\ owed' = <<>>  BY <1>3, <1>5, <1>6 DEF Quiet
  <1>8. host'.slave = host.slave /\ host'.data0 = v
    BY <1>3, <1>5, <1>6 DEF SameLine, Rests
  <1>9. /\ ctrl' \in CtrlRec /\ ctrl'.running = ctrl.running /\ ctrl'.slave = ctrl.slave
        /\ ctrl'.data0 = v /\ ctrl'.status = ctrl.status
    BY <1>2 DEF SmbusInv, SmbusTypeOK, CtrlRec
  <1>10. /\ driver' \in [at : Stations, data : BOOLEAN] /\ driver'.at = "setup"
    BY DEF WriteData0, SmbusInv, SmbusTypeOK, Stations
  <1> QED  BY <1>1, <1>6, <1>7, <1>8, <1>9, <1>10, AtRest, Rested

LEMMA ReadData0Step ==
  ASSUME SmbusInv, ReadData0
  PROVE  SmbusInv'
  <1> DEFINE h == [host EXCEPT !.data0 = ctrl.data0, !.data0_valid = TRUE]
             g == data_read(h)
  <1>1. driver.at # "run"  BY DEF ReadData0
  <1>2. host.data0_valid \in BOOLEAN /\ ctrl.data0 \in DataByte /\ host.block_ptr \in Nat
        /\ host.max_index \in Nat /\ host \in HostRec
    BY DEF SmbusInv, SmbusTypeOK, HostRec, CtrlRec
  <1>3. /\ h \in HostRec /\ h.state = host.state /\ h.signals = host.signals
        /\ h.said = host.said /\ h.slave = host.slave /\ h.proto = host.proto
        /\ h.wr_data0 = host.wr_data0 /\ h.data0 = ctrl.data0
    BY <1>2 DEF HostRec
  <1>4. Heard(g, owed) /\ UNCHANGED <<ctrl, driver>>  BY DEF ReadData0
  <1> HIDE DEF h
  <1>5. h.state = "wait" /\ h.data0_valid => h.data0 = ctrl.data0
    BY <1>1, <1>3, AtRest
  <1>6. Settled(h) /\ (Quiet(h) \/ h.state = "wait")
    BY <1>1, <1>3, AtRest DEF Settled, Quiet
  <1>7. Rests(g, h) /\ g \in HostRec  BY <1>3, <1>6, MildRead DEF Rests
  <1> HIDE DEF g
  <1>8. /\ host' \in HostRec /\ Settled(host') /\ host'.said = <<>> /\ SameLine(host', g)
        /\ host'.state = g.state /\ wrong' = FALSE
        /\ \/ Quiet(host') /\ owed' = <<>>
           \/ /\ host.state = "wait" /\ host'.state = "wait" /\ owed' = owed
              /\ "timeout" \in host'.signals <=> "timeout" \in host.signals
    BY <1>1, <1>3, <1>4, <1>5, <1>7, AtRest, Resting
  <1>9. SameLine(host', h)  BY <1>7, <1>8 DEF SameLine, Rests
  <1>10. /\ driver \in [at : Stations, data : BOOLEAN] /\ ctrl \in CtrlRec
         /\ driver.data => host.data0 = ctrl.data0
         /\ driver.at = "over"
    BY DEF SmbusInv, SmbusTypeOK, InStep, ReadData0
  <1> QED  BY <1>1, <1>3, <1>4, <1>5, <1>8, <1>9, <1>10, AtRest, Rested DEF SameLine

LEMMA ReadData1Step ==
  ASSUME SmbusInv, ReadData1
  PROVE  SmbusInv'
  <1> DEFINE h == [host EXCEPT !.data1_valid = TRUE]
             g == data_read(h)
  <1>1. driver.at # "run"  BY DEF ReadData1
  <1>2. host.data0_valid \in BOOLEAN /\ ctrl.data0 \in DataByte /\ host.block_ptr \in Nat
        /\ host.max_index \in Nat /\ host \in HostRec
    BY DEF SmbusInv, SmbusTypeOK, HostRec, CtrlRec
  <1>3. /\ h \in HostRec /\ h.state = host.state /\ h.signals = host.signals
        /\ h.said = host.said /\ h.slave = host.slave /\ h.proto = host.proto
        /\ h.wr_data0 = host.wr_data0 /\ h.data0 = host.data0
        /\ h.data0_valid = host.data0_valid
    BY <1>2 DEF HostRec
  <1>4. Heard(g, owed) /\ UNCHANGED <<ctrl, driver>>  BY DEF ReadData1
  <1> HIDE DEF h
  <1>5. h.state = "wait" /\ h.data0_valid => h.data0 = ctrl.data0
    BY <1>1, <1>3, AtRest
  <1>6. Settled(h) /\ (Quiet(h) \/ h.state = "wait")
    BY <1>1, <1>3, AtRest DEF Settled, Quiet
  <1>7. Rests(g, h) /\ g \in HostRec  BY <1>3, <1>6, MildRead DEF Rests
  <1> HIDE DEF g
  <1>8. /\ host' \in HostRec /\ Settled(host') /\ host'.said = <<>> /\ SameLine(host', g)
        /\ host'.state = g.state /\ wrong' = FALSE
        /\ \/ Quiet(host') /\ owed' = <<>>
           \/ /\ host.state = "wait" /\ host'.state = "wait" /\ owed' = owed
              /\ "timeout" \in host'.signals <=> "timeout" \in host.signals
    BY <1>1, <1>3, <1>4, <1>5, <1>7, AtRest, Resting
  <1>9. SameLine(host', h)  BY <1>7, <1>8 DEF SameLine, Rests
  <1>10. /\ driver \in [at : Stations, data : BOOLEAN] /\ ctrl \in CtrlRec
         /\ driver.data => host.data0 = ctrl.data0
         /\ driver.at = "over"
    BY DEF SmbusInv, SmbusTypeOK, InStep, ReadData1
  <1> QED  BY <1>1, <1>3, <1>4, <1>5, <1>8, <1>9, <1>10, AtRest, Rested DEF SameLine

LEMMA ReadBlockStep ==
  ASSUME SmbusInv, ReadBlock
  PROVE  SmbusInv'
  <1> DEFINE seen == IF host.max_index > host.block_ptr THEN host.max_index
                     ELSE host.block_ptr + 1
             next == host.block_ptr + 1
             h == [host EXCEPT !.max_index = seen, !.block_ptr = next]
             g == data_read(h)
  <1>1. driver.at # "run"  BY DEF ReadBlock
  <1>2. host.data0_valid \in BOOLEAN /\ ctrl.data0 \in DataByte /\ host.block_ptr \in Nat
        /\ host.max_index \in Nat /\ host \in HostRec
    BY DEF SmbusInv, SmbusTypeOK, HostRec, CtrlRec
  <1>3. seen \in Nat /\ next \in Nat  BY <1>2
  <1>4. Heard(g, owed) /\ UNCHANGED <<ctrl, driver>>  BY DEF ReadBlock
  <1> HIDE DEF seen, next
  <1>5. /\ h \in HostRec /\ h.state = host.state /\ h.signals = host.signals
        /\ h.said = host.said /\ h.slave = host.slave /\ h.proto = host.proto
        /\ h.wr_data0 = host.wr_data0 /\ h.data0 = host.data0
        /\ h.data0_valid = host.data0_valid
    BY <1>2, <1>3 DEF HostRec
  <1> HIDE DEF h
  <1>6. h.state = "wait" /\ h.data0_valid => h.data0 = ctrl.data0
    BY <1>1, <1>5, AtRest
  <1>7. Settled(h) /\ (Quiet(h) \/ h.state = "wait")
    BY <1>1, <1>5, AtRest DEF Settled, Quiet
  <1>8. Rests(g, h) /\ g \in HostRec  BY <1>5, <1>7, MildRead DEF Rests
  <1> HIDE DEF g
  <1>9. /\ host' \in HostRec /\ Settled(host') /\ host'.said = <<>> /\ SameLine(host', g)
        /\ host'.state = g.state /\ wrong' = FALSE
        /\ \/ Quiet(host') /\ owed' = <<>>
           \/ /\ host.state = "wait" /\ host'.state = "wait" /\ owed' = owed
              /\ "timeout" \in host'.signals <=> "timeout" \in host.signals
    BY <1>1, <1>5, <1>4, <1>6, <1>8, AtRest, Resting
  <1>10. SameLine(host', h)  BY <1>8, <1>9 DEF SameLine, Rests
  <1>11. /\ driver \in [at : Stations, data : BOOLEAN] /\ ctrl \in CtrlRec
         /\ driver.data => host.data0 = ctrl.data0
         /\ driver.at = "over"
    BY DEF SmbusInv, SmbusTypeOK, InStep, ReadBlock
  <1> QED  BY <1>1, <1>5, <1>4, <1>6, <1>9, <1>10, <1>11, AtRest, Rested DEF SameLine

LEMMA ReadControlStep ==
  ASSUME SmbusInv, ReadControl
  PROVE  SmbusInv'
  <1> DEFINE h == [host EXCEPT !.block_ptr = 0]
  <1>1. driver.at = "over" /\ Heard(h, owed) /\ UNCHANGED <<ctrl, driver>>
    BY DEF ReadControl
  <1>2. /\ h \in HostRec /\ h.state = host.state /\ h.signals = host.signals
        /\ h.said = <<>> /\ SameLine(h, host)
    BY DEF SmbusInv, SmbusTypeOK, InStep, HostRec, SameLine
  <1>3. host' = h /\ owed' = owed /\ wrong' = FALSE
    BY <1>1, <1>2, HeardNothing DEF SmbusInv, SmbusTypeOK
  <1> HIDE DEF h
  <1>4. CASE Quiet(host)
    BY <1>1, <1>2, <1>3, <1>4
    DEF SmbusInv, SmbusTypeOK, InStep, Owing, Busy, Quiet, Settled, SameLine
  <1>5. CASE ~Quiet(host)
    <2>1. PICK t : owed = <<t>> /\ Pending(t)  BY <1>5 DEF SmbusInv, Owing
    <2>2. Pending(t)'  BY <1>1, <1>2, <1>3, <2>1 DEF Pending, SameLine
    <2> QED
      BY <1>1, <1>2, <1>3, <1>5, <2>1, <2>2
      DEF SmbusInv, SmbusTypeOK, InStep, Owing, Busy, Quiet, Settled, SameLine
  <1> QED  BY <1>4, <1>5

LEMMA LeaveStep ==
  ASSUME SmbusInv, Leave
  PROVE  SmbusInv'
  <1>1. /\ driver.at = "over" /\ driver'.at = "look" /\ driver'.data = driver.data
        /\ driver' \in [at : Stations, data : BOOLEAN]
        /\ UNCHANGED <<host, ctrl, owed, wrong>>
    BY DEF Leave, SmbusInv, SmbusTypeOK, Stations
  <1>2. Owing'  BY <1>1 DEF SmbusInv, Owing, Pending, Quiet
  <1> QED  BY <1>1, <1>2 DEF SmbusInv, SmbusTypeOK, InStep, Busy

LEMMA SetupStep ==
  ASSUME SmbusInv, Setup
  PROVE  SmbusInv'
  <1>1. /\ driver.at \in {"look", "setup", "over"}
        /\ host' = host \/ host' = EnterIdle(host)
        /\ host.state = "idle" \/ host' = EnterIdle(host)
        /\ owed' = <<>> /\ UNCHANGED <<ctrl, driver, wrong>>
    BY DEF Setup
  <1>2. host \in HostRec /\ Settled(host) /\ host.said = <<>>
    BY DEF SmbusInv, SmbusTypeOK, InStep
  <1>3. /\ host' \in HostRec /\ SameLine(host', host) /\ host'.said = <<>>
        /\ host'.state = "idle" /\ Settled(host')
    <2>1. CASE host' = EnterIdle(host)
      <3>1. EnterIdle(host) = [host EXCEPT !.state = "idle", !.signals = {}]
        BY DEF EnterIdle
      <3>2. /\ host' \in HostRec /\ SameLine(host', host) /\ host'.said = <<>>
            /\ host'.state = "idle" /\ host'.signals = {}
        BY <1>2, <2>1, <3>1 DEF HostRec, SameLine
      <3> QED  BY <3>2 DEF Settled
    <2>2. CASE host' # EnterIdle(host)
      <3>1. host' = host /\ host.state = "idle"  BY <1>1, <2>2
      <3> QED  BY <1>2, <3>1 DEF SameLine
    <2> QED  BY <2>1, <2>2
  <1>4. Quiet(host')  BY <1>3 DEF Quiet
  <1>5. ~ctrl.running /\ driver.at \notin {"run", "killed"}
    BY <1>1 DEF SmbusInv, InStep
  <1>6. SmbusTypeOK'  BY <1>1, <1>3 DEF SmbusInv, SmbusTypeOK
  <1>7. InStep'  BY <1>1, <1>3, <1>4, <1>5 DEF SmbusInv, InStep, SameLine, Busy
  <1>8. Owing'  BY <1>1, <1>4 DEF Owing
  <1> QED  BY <1>1, <1>6, <1>7, <1>8 DEF SmbusInv

LEMMA PollStep ==
  ASSUME SmbusInv, Poll
  PROVE  SmbusInv'
  <1> DEFINE g == StatusRead(host, ctrl.status)
  <1>1. /\ driver.at \in {"run", "killed"} /\ Heard(g, owed) /\ ctrl' = ctrl
        /\ driver' = IF Busy THEN driver ELSE [driver EXCEPT !.at = "over"]
    BY DEF Poll
  <1>2. /\ driver' \in [at : Stations, data : BOOLEAN] /\ driver'.data = driver.data
        /\ Busy => driver'.at = driver.at
        /\ ~Busy => driver'.at = "over"
    BY <1>1 DEF SmbusInv, SmbusTypeOK, Stations
  <1>3. ctrl \in CtrlRec /\ (driver.data => host.data0 = ctrl.data0)
    BY DEF SmbusInv, SmbusTypeOK, InStep
  <1>4. CASE driver.at = "killed"
    <2>1. Quiet(host) /\ ~Busy
      BY <1>4, AtRest DEF SmbusInv, InStep, Busy
    <2>2. Rests(g, host) /\ g \in HostRec  BY <1>4, AtRest, StatusReadAtRest DEF Rests
    <2>3. Heard(g, owed)  BY <1>1
    <2> HIDE DEF g
    <2>4. /\ host' \in HostRec /\ Settled(host') /\ host'.said = <<>> /\ SameLine(host', g)
          /\ host'.state = g.state /\ wrong' = FALSE
          /\ \/ Quiet(host') /\ owed' = <<>>
             \/ /\ host.state = "wait" /\ host'.state = "wait" /\ owed' = owed
                /\ "timeout" \in host'.signals <=> "timeout" \in host.signals
      BY <1>4, <2>2, <2>3, AtRest, Resting
    <2>5. SameLine(host', host) /\ Quiet(host') /\ owed' = <<>>
      BY <2>1, <2>2, <2>4 DEF SameLine, Rests, Quiet
    <2> QED  BY <1>1, <1>2, <1>3, <1>4, <2>1, <2>4, <2>5, AtRest, Rested DEF SameLine
  <1>5. CASE driver.at = "run"
    <2>1. host.state = "started" /\ Settled(host) /\ host.said = <<>> /\ host \in HostRec
          /\ wrong = FALSE /\ owed \in Seq(Transaction)
      BY <1>5 DEF SmbusInv, SmbusTypeOK, InStep
    <2>2. PICK t : owed = <<t>> /\ Pending(t)
      BY <2>1 DEF SmbusInv, Owing, Quiet
    <2>3. CASE Busy
      <3>1. t.result = "none" /\ "fail" \notin ctrl.status
        BY <2>1, <2>2, <2>3 DEF Pending, SmbusInv, InStep
      <3>2. g = host  BY <2>1, <2>3, <3>1 DEF StatusRead, Busy
      <3>3. host' = host /\ owed' = owed /\ wrong' = FALSE
        BY <1>1, <2>1, <3>2, HeardNothing
      <3>4. driver' = driver  BY <1>1, <2>3
      <3> QED  BY <1>1, <2>1, <3>3, <3>4
               DEF SmbusInv, SmbusTypeOK, InStep, Owing, Pending, Busy
    <2>4. CASE ~Busy
      <3>1. /\ ctrl.running = FALSE /\ "busy" \notin ctrl.status
            /\ t.result \in {"ok", "fail"}
            /\ t.result = "fail" <=> "fail" \in ctrl.status
            /\ "fail" \notin ctrl.status => "irq" \in ctrl.status
        BY <1>3, <2>1, <2>2, <2>4
        DEF Pending, SmbusInv, InStep, Busy, Transaction, CtrlRec
      <3>2. /\ g \in HostRec /\ Settled(g) /\ SameLine(g, host)
            /\ \/ /\ g.state = "wait" /\ g.said = <<>>
                  /\ "timeout" \in g.signals <=> "fail" \in ctrl.status
               \/ Quiet(g) /\ g.said = <<LineOf(host, TRUE)>> /\ "fail" \in ctrl.status
        BY <2>1, <3>1, PollSeesEnd
      <3>3. Heard(g, <<t>>)  BY <1>1, <2>2
      <3> HIDE DEF g
      <3>4. /\ driver'.at = "over" /\ ~driver'.data /\ host.slave = ctrl.slave
        BY <1>2, <1>5, <2>4 DEF SmbusInv, InStep
      <3>5. CASE g.state = "wait" /\ g.said = <<>>
                 /\ ("timeout" \in g.signals <=> "fail" \in ctrl.status)
        <4>1. host' = g /\ owed' = owed /\ wrong' = FALSE
          BY <2>1, <2>2, <3>2, <3>3, <3>5, HeardNothing
        <4>2. Pending(t)'
          BY <1>1, <2>1, <2>2, <3>1, <3>2, <3>5, <4>1 DEF Pending, SameLine
        <4> QED
          BY <1>1, <1>2, <1>3, <2>1, <2>2, <3>1, <3>2, <3>4, <3>5, <4>1, <4>2
          DEF SmbusInv, SmbusTypeOK, InStep, Owing, Busy, Quiet, SameLine
      <3>6. CASE Quiet(g) /\ g.said = <<LineOf(host, TRUE)>> /\ "fail" \in ctrl.status
        <4>1. Matches(LineOf(host, TRUE), t)
          <5>1. host.slave \in Slave \X Dir  BY <2>1 DEF HostRec
          <5>2. /\ host.slave = t.slave /\ host.proto = t.proto /\ t.result # "none"
                /\ t.result = "fail"
                /\ host.slave[2] = "write" => t.data = <<host.wr_data0>>
                /\ ~host.data0_valid
            BY <2>1, <2>2, <3>1, <3>6 DEF Pending
          <5> QED  BY <5>1, <5>2, LineMatches, Zenon
        <4>2. host' = [g EXCEPT !.said = <<>>] /\ owed' = <<>> /\ wrong' = FALSE
          BY <2>1, <3>2, <3>3, <3>6, <4>1, HeardLine
        <4>3. /\ host' \in HostRec /\ host'.said = <<>> /\ host'.state = g.state
              /\ host'.signals = g.signals /\ SameLine(host', g)
          BY <3>2, <4>2, Cleared
        <4>4. Quiet(host') /\ Settled(host') /\ host'.slave = ctrl.slave
          BY <3>2, <3>4, <3>6, <4>3 DEF Quiet, Settled, SameLine
        <4> QED
          BY <1>1, <1>2, <1>3, <3>1, <3>4, <4>2, <4>3, <4>4, Rested
      <3> QED  BY <3>2, <3>5, <3>6
    <2> QED  BY <2>3, <2>4
  <1> QED  BY <1>1, <1>4, <1>5

LEMMA KillStep ==
  ASSUME SmbusInv, Kill
  PROVE  SmbusInv'
  <1>1. /\ host.state = "started" /\ Settled(host) /\ host.said = <<>> /\ host \in HostRec
        /\ wrong = FALSE /\ owed \in Seq(Transaction) /\ driver.at = "run"
        /\ ~driver.data /\ ctrl \in CtrlRec /\ host.slave = ctrl.slave
    BY DEF Kill, SmbusInv, SmbusTypeOK, InStep
  <1>2. PICK t : owed = <<t>> /\ Pending(t)
    BY <1>1 DEF SmbusInv, Owing, Quiet
  <1> DEFINE u == [t EXCEPT !.killed = TRUE, !.result = "fail"]
             sg == host.signals \cup {"abort"}
             k == [host EXCEPT !.signals = sg]
             g == host_sync(k)
  <1>3. Heard(g, <<u>>)
    <2>1. [i \in 1..Len(owed) |-> IF i < Len(owed) THEN owed[i]
             ELSE [owed[i] EXCEPT !.killed = TRUE, !.result = "fail"]] = <<u>>
      <3>1. Len(owed) = 1 /\ owed[1] = t /\ 1..1 = {1}  BY <1>2
      <3>2. \A i \in 1..1 : ~(i < Len(owed)) /\ owed[i] = t  BY <3>1
      <3>3. <<u>> = [i \in 1..1 |-> u]  OBVIOUS
      <3> HIDE DEF sg, k, g
      <3> QED  BY <3>1, <3>2, <3>3
    <2> QED  BY <2>1 DEF Kill, signal
  <1>4. sg \in SUBSET Signals /\ "abort" \in sg  BY <1>1 DEF HostRec, Signals
  <1>5. /\ k \in HostRec /\ SameLine(k, host) /\ k.signals = sg /\ k.said = host.said
    BY <1>1, <1>4, Signalled
  <1> HIDE DEF sg, k
  <1>6. /\ g \in HostRec /\ Quiet(g) /\ Settled(g) /\ SameLine(g, k)
        /\ g.said = Append(k.said, Report(k))
    BY <1>4, <1>5, SyncAbort
  <1> DEFINE late == "timeout" \in k.signals
  <1>7. Report(k) = LineOf(host, late)  BY <1>1, <1>5, SameLineSame
  <1>8. g.said = <<LineOf(host, late)>>  BY <1>1, <1>5, <1>6, <1>7, FirstLine
  <1> HIDE DEF g
  <1>9. Matches(LineOf(host, late), u)
    <2>1. host.slave \in Slave \X Dir /\ late \in BOOLEAN  BY <1>1 DEF HostRec
    <2>2. /\ host.slave = u.slave /\ host.proto = u.proto /\ u.result # "none" /\ u.killed
          /\ host.slave[2] = "write" => u.data = <<host.wr_data0>>
      BY <1>2 DEF Pending, Transaction
    <2> HIDE DEF u, late
    <2> QED  BY <2>1, <2>2, LineMatches, Zenon
  <1> HIDE DEF u, late
  <1>10. host' = [g EXCEPT !.said = <<>>] /\ owed' = <<>> /\ wrong' = FALSE
    BY <1>1, <1>3, <1>6, <1>8, <1>9, HeardLine
  <1>11. /\ host' \in HostRec /\ host'.said = <<>> /\ host'.state = g.state
         /\ host'.signals = g.signals /\ SameLine(host', g)
    BY <1>6, <1>10, Cleared
  <1>12. Quiet(host') /\ Settled(host') /\ host'.slave = host.slave
    BY <1>5, <1>6, <1>11 DEF Quiet, Settled, SameLine
  <1>13. /\ ctrl' \in CtrlRec /\ ctrl'.running = FALSE /\ "busy" \notin ctrl'.status
         /\ ctrl'.slave = ctrl.slave
    BY <1>1 DEF Kill, CtrlRec, SmbusInv, InStep, Busy
  <1>14. /\ driver' \in [at : Stations, data : BOOLEAN] /\ driver'.at = "killed"
         /\ ~driver'.data
    BY <1>1 DEF Kill, SmbusInv, SmbusTypeOK, Stations
  <1> QED  BY <1>1, <1>10, <1>11, <1>12, <1>13, <1>14, Rested

\* One line is logged while another transaction begins.
LEMMA HeardFirst ==
  ASSUME NEW h \in HostRec, NEW r, h.said = <<r>>, NEW t, NEW u, Heard(h, <<t, u>>),
         Matches(r, t), wrong = FALSE
  PROVE  host' = [h EXCEPT !.said = <<>>] /\ owed' = <<u>> /\ wrong' = FALSE
  <1>1. Len(h.said) = 1 /\ h.said[1] = r /\ Len(<<t, u>>) = 2 /\ <<t, u>>[1] = t  OBVIOUS
  <1>2. owed' = SubSeq(<<t, u>>, 2, 2)  BY <1>1 DEF Heard
  <1>3. SubSeq(<<t, u>>, 2, 2) = <<u>>
    <2>1. /\ <<t, u>> \in Seq({t, u}) /\ <<u>> \in Seq({t, u}) /\ 2 \in Nat
          /\ <<t, u>>[2] = u
      OBVIOUS
    <2> DEFINE w == SubSeq(<<t, u>>, 2, 2)
    <2>2. w \in Seq({t, u}) /\ Len(w) = 1 /\ w[1] = u  BY <1>1, <2>1
    <2> HIDE DEF w
    <2>3. w = <<u>>  BY <2>1, <2>2
    <2> QED  BY <2>3 DEF w
  <1>4. ~Fault(h, <<t, u>>)  BY <1>1 DEF Fault
  <1>5. wrong' = FALSE  BY <1>4, NoFault, Zenon
  <1>6. host' = [h EXCEPT !.said = <<>>]  BY Zenon DEF Heard
  <1> QED  BY <1>2, <1>3, <1>5, <1>6, Zenon

LEMMA StartStep ==
  ASSUME SmbusInv, NEW p \in Proto, Start(p)
  PROVE  SmbusInv'
  <1> DEFINE h0 == [host EXCEPT !.block_ptr = 0]
             h == data_write(h0)
             h2 == [h EXCEPT !.start_proto = p]
             sg == h2.signals \cup {"start"}
             k == [h2 EXCEPT !.signals = sg]
             g == host_sync(k)
  <1>0. PICK t : t = [slave |-> ctrl.slave, proto |-> p, data |-> <<ctrl.data0>>,
                      result |-> "none", killed |-> FALSE]
    OBVIOUS
  <1>1. /\ driver.at = "setup" /\ "fail" \notin ctrl.status
        /\ ctrl.slave[2] = "write" => driver.data
        /\ Heard(g, Append(owed, t))
        /\ ctrl' = [ctrl EXCEPT !.running = TRUE, !.status = @ \cup {"busy"}, !.proto = p]
        /\ driver' = [at |-> "run", data |-> FALSE]
    BY <1>0 DEF Start, signal
  <1>2. /\ host \in HostRec /\ ctrl \in CtrlRec /\ wrong = FALSE /\ host.said = <<>>
        /\ host.slave = ctrl.slave /\ (driver.data => host.data0 = ctrl.data0)
        /\ p \in Protos
    BY DEF SmbusInv, SmbusTypeOK, InStep, Protos
  <1>3. /\ h0 \in HostRec /\ SameLine(h0, host) /\ h0.state = host.state
        /\ h0.signals = host.signals /\ h0.said = <<>>
    BY <1>2 DEF HostRec, SameLine
  <1>4. /\ Settled(h0) /\ (Quiet(h0) \/ h0.state = "wait")
        /\ h0.state = "wait" /\ h0.data0_valid => h0.data0 = ctrl.data0
    BY <1>1, <1>3, AtRest DEF Settled, Quiet, SameLine
  <1> HIDE DEF h0
  <1>5. Rests(h, h0) /\ Quiet(h)
    BY <1>3, <1>4, MildSignal DEF data_write, Mild
  <1> HIDE DEF h
  <1>6. /\ h2 \in HostRec /\ SameLine(h2, h) /\ h2.state = h.state /\ h2.signals = h.signals
        /\ h2.said = h.said /\ h2.start_proto = p
    BY <1>2, <1>5 DEF Rests, HostRec, SameLine
  <1> HIDE DEF h2
  <1>7. /\ sg \in SUBSET Signals /\ "start" \in sg /\ "timeout" \notin sg /\ "abort" \notin sg
        /\ "inuse" \in sg => h2.state # "idle"
    BY <1>5, <1>6 DEF HostRec, Signals, Rests, Settled, Passing, Quiet
  <1>8. /\ k \in HostRec /\ SameLine(k, h2) /\ k.state = h2.state /\ k.signals = sg
        /\ k.said = h2.said /\ k.start_proto = h2.start_proto
    BY <1>6, <1>7, Signalled
  <1> HIDE DEF sg, k
  <1>9. /\ g \in HostRec /\ g.state = "started" /\ Settled(g) /\ g.said = k.said
        /\ g.slave = k.slave /\ g.proto = p /\ g.wr_data0 = k.data0 /\ g.data0 = k.data0
        /\ g.data0_valid = FALSE
    BY <1>5, <1>6, <1>7, <1>8, SyncStart DEF Quiet
  <1> HIDE DEF g
  <1>10. g.slave = host.slave /\ g.wr_data0 = host.data0 /\ g.said = h.said
    BY <1>3, <1>5, <1>6, <1>8, <1>9 DEF SameLine, Rests
  <1>11. t \in Transaction
    BY <1>0, <1>2 DEF Transaction, CtrlRec
  <1>12. /\ host' \in HostRec /\ host'.said = <<>> /\ host'.state = g.state
         /\ host'.signals = g.signals /\ SameLine(host', g)
         /\ owed' = <<t>> /\ wrong' = FALSE
    <2>1. CASE Quiet(host)
      <3>1. owed = <<>> /\ g.said = <<>>
        BY <1>3, <1>5, <1>10, <2>1 DEF SmbusInv, Owing, Rests, Quiet
      <3>2. Append(owed, t) = <<t>> /\ <<t>> \in Seq(Transaction)
        BY <1>11, <3>1, FirstLine
      <3>3. host' = g /\ owed' = <<t>> /\ wrong' = FALSE
        BY <1>1, <1>2, <1>9, <3>1, <3>2, HeardNothing
      <3> QED  BY <1>9, <3>1, <3>3 DEF SameLine
    <2>2. CASE host.state = "wait"
      <3> DEFINE r == LineOf(h0, "timeout" \in h0.signals)
      <3>1. PICK o : owed = <<o>> /\ Pending(o) /\ Matches(r, o)
        BY <1>3, <1>4, <2>2, OwedMatches DEF SameLine
      <3>2. g.said = <<r>>
        BY <1>3, <1>5, <1>10, <2>2, FirstLine DEF Rests, Quiet
      <3> HIDE DEF r
      <3>3. Append(owed, t) = <<o, t>>
        <4> DEFINE w == Append(<<o>>, t)
        <4>1. <<o>> \in Seq({o, t}) /\ t \in {o, t} /\ <<o, t>> \in Seq({o, t})  OBVIOUS
        <4>2. /\ w \in Seq({o, t}) /\ Len(w) = 2 /\ w[1] = o /\ w[2] = t
          BY <4>1
        <4> HIDE DEF w
        <4>3. w = <<o, t>>  BY <4>1, <4>2
        <4>4. Append(<<o>>, t) = <<o, t>>  BY <4>3 DEF w
        <4> QED  BY <3>1, <4>4, Zenon
      <3>4. host' = [g EXCEPT !.said = <<>>] /\ owed' = <<t>> /\ wrong' = FALSE
        BY <1>1, <1>2, <1>9, <3>1, <3>2, <3>3, HeardFirst
      <3> QED  BY <1>9, <3>4, Cleared
    <2> QED  BY <1>1, <2>1, <2>2, AtRest
  <1>13. /\ ctrl' \in CtrlRec /\ ctrl'.running = TRUE /\ ctrl'.slave = ctrl.slave
         /\ ctrl'.data0 = ctrl.data0 /\ ctrl'.status = ctrl.status \cup {"busy"}
    BY <1>1, <1>2 DEF CtrlRec
  <1>14. /\ driver' \in [at : Stations, data : BOOLEAN] /\ driver'.at = "run"
         /\ driver'.data = FALSE
    BY <1>1 DEF Stations
  <1>15. /\ t.slave = ctrl.slave /\ t.proto = p /\ t.data = <<ctrl.data0>>
         /\ t.result = "none" /\ t.killed = FALSE
    BY <1>0
  <1>16. Pending(t)'
    <2>1. "fail" \notin ctrl'.status  BY <1>1, <1>13
    <2>2. host'.slave[2] = "write" => host'.wr_data0 = ctrl'.data0
      BY <1>1, <1>2, <1>10, <1>12, <1>13 DEF SameLine
    <2> QED
      BY <1>2, <1>9, <1>10, <1>11, <1>12, <1>13, <1>15, <2>1, <2>2 DEF Pending, SameLine
  <1>17. Settled(host') /\ ~Quiet(host') /\ host'.slave = ctrl'.slave
    BY <1>2, <1>9, <1>10, <1>12, <1>13 DEF Settled, Quiet, SameLine
  <1>18. owed' \in Seq(Transaction)  BY <1>11, <1>12
  <1> QED
    BY <1>9, <1>12, <1>13, <1>14, <1>16, <1>17, <1>18
    DEF SmbusInv, SmbusTypeOK, InStep, Owing, Busy

LEMMA FinishStep ==
  ASSUME SmbusInv, NEW result \in {"ok", "fail"}, NEW v \in DataByte, Finish(result, v)
  PROVE  SmbusInv'
  <1> DEFINE bit == IF result = "ok" THEN "irq" ELSE "fail"
  <1>0. PICK read0 : read0 = IF ctrl.slave[2] = "read" /\ result = "ok" THEN v ELSE ctrl.data0
    OBVIOUS
  <1>1. /\ ctrl.running /\ UNCHANGED <<host, driver, wrong>>
        /\ ctrl' = [ctrl EXCEPT !.running = FALSE, !.status = (@ \ {"busy"}) \cup {bit},
                                !.data0 = read0]
        /\ owed' = [owed EXCEPT ![Len(owed)] =
                      [owed[Len(owed)] EXCEPT !.result = result, !.data = <<ctrl'.data0>>]]
    BY <1>0 DEF Finish
  <1>2. /\ host \in HostRec /\ ctrl \in CtrlRec /\ driver.at = "run" /\ ~driver.data
        /\ host.state = "started"
    BY <1>1 DEF SmbusInv, SmbusTypeOK, InStep
  <1>3. PICK t : owed = <<t>> /\ Pending(t)  BY <1>2 DEF SmbusInv, Owing, Quiet
  <1>4. read0 \in DataByte /\ bit \in {"irq", "fail"}  BY <1>0, <1>2 DEF CtrlRec
  <1>5. /\ ctrl' \in CtrlRec /\ ctrl'.running = FALSE /\ ctrl'.slave = ctrl.slave
        /\ ctrl'.data0 = read0 /\ ctrl'.status = (ctrl.status \ {"busy"}) \cup {bit}
    BY <1>1, <1>2, <1>4 DEF CtrlRec
  <1>00. PICK u : u = [t EXCEPT !.result = result, !.data = <<read0>>]  OBVIOUS
  <1>6. owed' = <<u>>
    <2>1. owed' = [<<t>> EXCEPT ![1] = u]  BY <1>00, <1>1, <1>3, <1>5
    <2>2. [<<t>> EXCEPT ![1] = u] = <<u>>  OBVIOUS
    <2> QED  BY <2>1, <2>2
  <1>7. /\ u \in Transaction /\ u.slave = t.slave /\ u.proto = t.proto /\ u.killed = t.killed
        /\ u.result = result /\ u.data = <<read0>>
    <2>1. t \in Transaction  BY <1>3 DEF Pending
    <2>2. <<read0>> \in Seq(DataByte)  BY <1>4
    <2>3. result \in {"none", "ok", "fail"}  OBVIOUS
    <2> QED  BY <1>00, <2>1, <2>2, <2>3 DEF Transaction
  <1>8. t.result = "none" /\ "fail" \notin ctrl.status
    BY <1>1, <1>2, <1>3 DEF Pending
  <1>9. result = "fail" <=> "fail" \in ctrl'.status
    BY <1>5, <1>8
  <1>10. host.slave[2] = "write" => read0 = ctrl.data0
    BY <1>0, <1>2 DEF SmbusInv, InStep
  <1>11. Pending(u)'
    BY <1>1, <1>2, <1>3, <1>5, <1>7, <1>9, <1>10 DEF Pending
  <1>12. owed' \in Seq(Transaction)  BY <1>6, <1>7
  <1>13. "busy" \notin ctrl'.status  BY <1>5
  <1> QED
    BY <1>1, <1>2, <1>5, <1>6, <1>11, <1>12, <1>13
    DEF SmbusInv, SmbusTypeOK, InStep, Owing, Busy, Quiet

LEMMA InitHolds ==
  ASSUME SmbusInit
  PROVE  SmbusInv
  <1>1. PICK s \in Slave, v \in DataByte :
          /\ host = [state |-> "idle", signals |-> {}, proto |-> "noop",
                     start_proto |-> "noop", slave |-> <<s, "write">>, data0 |-> v,
                     wr_data0 |-> v, data0_valid |-> FALSE, data1_valid |-> FALSE,
                     max_index |-> 0, block_ptr |-> 0, said |-> <<>>]
          /\ ctrl = [running |-> FALSE, status |-> {}, slave |-> <<s, "write">>,
                     data0 |-> v, proto |-> "noop"]
          /\ driver = [at |-> "look", data |-> FALSE]
          /\ owed = <<>> /\ wrong = FALSE
    BY DEF SmbusInit
  <1>2. <<s, "write">> \in Slave \X Dir /\ "noop" \in Protos  BY DEF Dir, Protos
  <1>3. <<>> \in Seq(Line) /\ <<>> \in Seq(Transaction)  OBVIOUS
  <1>4. SmbusTypeOK
    BY <1>1, <1>2, <1>3 DEF SmbusTypeOK, HostRec, CtrlRec, Stations
  <1> QED
    BY <1>1, <1>4 DEF SmbusInv, InStep, Owing, Settled, Quiet, Busy, Passing

LEMMA StepHolds ==
  ASSUME SmbusInv, [SmbusNext]_smbusVars
  PROVE  SmbusInv'
  <1>1. CASE UNCHANGED smbusVars
    BY <1>1 DEF smbusVars, SmbusInv, SmbusTypeOK, InStep, Owing, Pending, Busy
  <1>2. CASE SmbusNext
    BY <1>2, LookStep, WriteStatusStep, WriteSlaveStep, WriteData0Step, StartStep, PollStep,
       KillStep, ReadData0Step, ReadData1Step, ReadBlockStep, ReadControlStep, LeaveStep,
       SetupStep, FinishStep
    DEF SmbusNext
  <1> QED  BY <1>1, <1>2

(* The log shows every SMBus transaction that was made, once, in order and  *)
(* with its own slave, protocol, data and outcome, whatever the driver does *)
(* between them; only a write to the controller's BAR before the line of a  *)
(* transaction was written may lose it (smbus_host.lua, intel_smbus.lua).   *)
THEOREM LogCorrect == SmbusSpec => []LogTells
  <1>1. SmbusInv => LogTells
    <2>1. SmbusInv => Len(owed) <= 1  BY DEF SmbusInv, Owing
    <2> QED  BY <2>1 DEF SmbusInv, LogTells
  <1> QED  BY <1>1, InitHolds, StepHolds, PTL DEF SmbusSpec

=============================================================================
