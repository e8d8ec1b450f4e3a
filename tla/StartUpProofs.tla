--------------------------- MODULE StartUpProofs ----------------------------
(***************************************************************************)
(* What runs before the shell, for every value of the parameters.          *)
(*                                                                         *)
(* The start-up of the X60, for every patience: the run has one of three   *)
(* looks, the code has 1000 and 100000.  What a poll decides is known only *)
(* from where its counter ended and what the hardware showed at that       *)
(* moment, so the invariant keeps, for each place in the code, what the    *)
(* polls before it must have seen.                                         *)
(***************************************************************************)
EXTENDS StartUp, DockConnect, BmcStartUp, TLAPS, SequenceTheorems

\* A poll that ended above 0 has seen what it waited for.
Seen(p) == saw[p] \notin {-1, 0}

DlpcOn == at \in {"present", "switch"} /\ Seen("dlpc_clock") => dlpc

Through ==
  /\ at \in {"dock_clock", "early_superio_config", "sio_clock", "shell"}
  /\ present /\ Seen("dlpc_clock") /\ Seen("switch")
  => Dock

UartOn ==
  /\ at \in {"early_superio_config", "sio_clock", "shell"}
  /\ present /\ Seen("dlpc_clock") /\ Seen("switch") /\ Seen("dock_clock")
  => com1.on

BaseSet == at = "shell" /\ present /\ Seen("dlpc_clock") /\ Seen("switch") => com1.base

DockInv == DockTypeOK /\ DlpcOn /\ Through /\ UartOn /\ BaseSet

-----------------------------------------------------------------------------

LEMMA DockInvInit == DockInit => DockInv
<1>. SUFFICES ASSUME DockInit PROVE DockInv
  OBVIOUS
<1>1. Patience \in 0..Patience /\ Unpolled \in -1..Unpolled
  BY PatienceAssumption DEF Unpolled
<1>2. saw \in [Poll -> -1..Unpolled] /\ saw["switch"] = Unpolled
  BY <1>1 DEF DockInit, Poll
<1>3. DockTypeOK
  BY <1>1, <1>2 DEF DockInit, DockTypeOK, Places
<1>. QED
  BY <1>2, <1>3 DEF DockInit, DockInv, DlpcOn, Through, UartOn, BaseSet

\* Where a poll may end.  Above 0 it has seen its bit.
LEMMA PollEnd ==
  ASSUME DockTypeOK, NEW p \in Poll, NEW next, Ended(p, next)
  PROVE  /\ at = p /\ at' = next /\ timeout' \in 0..Patience
         /\ saw' \in [Poll -> -1..Unpolled]
         /\ saw'[p] = Left(p) /\ Left(p) \in -1..Patience
         /\ \A q \in Poll \ {p} : saw'[q] = saw[q]
         /\ Left(p) \notin {-1, 0} => Ready(p)
         /\ Left(p) = -1 => ~Ready(p)
<1>1. timeout \in 0..Patience /\ (Ready(p) \/ timeout = 0) /\ Patience \in Nat
  BY PatienceAssumption DEF DockTypeOK, Ended, PollEnds
<1>2. Left(p) \in -1..Patience /\ (Left(p) \notin {-1, 0} => Ready(p)) /\ (Left(p) = -1 => ~Ready(p))
  BY <1>1 DEF Left
<1>3. saw' = [saw EXCEPT ![p] = Left(p)] /\ at' = next /\ timeout' = Patience /\ at = p
  BY DEF Ended, PollEnds
<1>4. Left(p) \in -1..Unpolled
  BY <1>1, <1>2 DEF Unpolled
<1>. QED
  BY <1>1, <1>2, <1>3, <1>4 DEF DockTypeOK

\* What only the hardware and the loops do.
LEMMA WaitKeeps ==
  ASSUME DockInv, UNCHANGED <<at, saw, present, dlpc, com1>>,
         timeout' \in 0..Patience, clocked' \subseteq {"dlpc", "dock"},
         switch' = switch \/ (switch = "asked" /\ switch' = "through")
  PROVE  DockInv'
BY DEF DockInv, DockTypeOK, DlpcOn, Through, UartOn, BaseSet, Seen, Dock

LEMMA DlpcInitKeeps ==
  ASSUME DockInv, DlpcInit
  PROVE  DockInv'
<1>1. /\ at = "dlpc_clock" /\ at' = "present" /\ timeout' \in 0..Patience
      /\ saw' \in [Poll -> -1..Unpolled]
      /\ saw'["dlpc_clock"] = Left("dlpc_clock")
      /\ \A q \in Poll \ {"dlpc_clock"} : saw'[q] = saw[q]
      /\ Left("dlpc_clock") \notin {-1, 0} => Ready("dlpc_clock")
  BY PollEnd DEF DockInv, DlpcInit, Poll
<1>2. dlpc' = (Left("dlpc_clock") # 0 /\ "dlpc" \in clocked) /\ UNCHANGED <<present, clocked, switch, com1>>
  BY DEF DlpcInit, SeenAsFailed
<1>3. DlpcOn'
  BY <1>1, <1>2 DEF DlpcOn, Seen, Ready
<1>4. DockTypeOK'
  BY <1>1, <1>2 DEF DockInv, DockTypeOK, Places
<1>. QED
  BY <1>1, <1>2, <1>3, <1>4 DEF DockInv, Through, UartOn, BaseSet, Poll

LEMMA DockPresentKeeps ==
  ASSUME DockInv, DockPresent
  PROVE  DockInv'
BY PatienceAssumption DEF DockInv, DockPresent, DockTypeOK, DlpcOn, Through, UartOn, BaseSet, Seen, Places,
       Poll, Unpolled

LEMMA SwitchPolledKeeps ==
  ASSUME DockInv, SwitchPolled
  PROVE  DockInv'
<1>1. PICK next \in {"dock_clock", "early_superio_config"} : Ended("switch", next)
  BY DEF SwitchPolled
<1>2. /\ at = "switch" /\ at' = next /\ timeout' \in 0..Patience
      /\ saw' \in [Poll -> -1..Unpolled]
      /\ saw'["switch"] = Left("switch")
      /\ \A q \in Poll \ {"switch"} : saw'[q] = saw[q]
      /\ Left("switch") \notin {-1, 0} => Ready("switch")
  BY <1>1, PollEnd DEF DockInv, Poll
<1>3. UNCHANGED <<present, clocked, com1>>
  BY DEF SwitchPolled
<1>4. CASE Left("switch") = 0
  <2>1. switch' = "off" /\ dlpc' = FALSE
    BY <1>4 DEF SwitchPolled, SeenAsFailed
  <2>2. DockTypeOK'
    BY <1>2, <1>3, <2>1 DEF DockInv, DockTypeOK, Places, Poll
  <2>. QED
    BY <1>2, <1>3, <1>4, <2>1, <2>2 DEF DockInv, DlpcOn, Through, UartOn, BaseSet, Seen
<1>5. CASE Left("switch") # 0
  <2>1. next = "dock_clock" /\ UNCHANGED <<switch, dlpc>>
    BY <1>2, <1>5 DEF SwitchPolled, SeenAsFailed, Ended
  <2>2. DockTypeOK'
    BY <1>2, <1>3, <2>1 DEF DockInv, DockTypeOK, Places, Poll
  <2>3. Through'
    BY <1>2, <1>3, <2>1 DEF DockInv, DlpcOn, Through, Seen, Ready, Dock, Poll
  <2>. QED
    BY <1>2, <1>3, <1>5, <2>1, <2>2, <2>3 DEF DockInv, DlpcOn, UartOn, BaseSet, Seen
<1>. QED
  BY <1>4, <1>5

LEMMA DockClockPolledKeeps ==
  ASSUME DockInv, DockClockPolled
  PROVE  DockInv'
<1>1. /\ at = "dock_clock" /\ at' = "early_superio_config" /\ timeout' \in 0..Patience
      /\ saw' \in [Poll -> -1..Unpolled]
      /\ saw'["dock_clock"] = Left("dock_clock")
      /\ \A q \in Poll \ {"dock_clock"} : saw'[q] = saw[q]
  BY PollEnd DEF DockInv, DockClockPolled, Poll
<1>2. UNCHANGED <<present, clocked, dlpc, switch>>
  BY DEF DockClockPolled
<1>3. com1' = IF Dock /\ Left("dock_clock") # 0 THEN [com1 EXCEPT !.on = TRUE] ELSE com1
  BY DEF DockClockPolled, SeenAsFailed
<1>4. DockTypeOK'
  BY <1>1, <1>2, <1>3 DEF DockInv, DockTypeOK, Places
<1>5. UartOn'
  BY <1>1, <1>2, <1>3 DEF DockInv, DockTypeOK, Through, UartOn, Seen, Poll
<1>. QED
  BY <1>1, <1>2, <1>4, <1>5 DEF DockInv, DlpcOn, Through, BaseSet, Seen, Dock, Poll

LEMMA EarlySuperioConfigKeeps ==
  ASSUME DockInv, EarlySuperioConfig
  PROVE  DockInv'
<1>1. /\ at = "sio_clock" /\ at' = "shell" /\ timeout' \in 0..Patience
      /\ saw' \in [Poll -> -1..Unpolled]
      /\ \A q \in Poll \ {"sio_clock"} : saw'[q] = saw[q]
  BY PollEnd DEF DockInv, EarlySuperioConfig, Poll
<1>2. UNCHANGED <<present, clocked, dlpc, switch>>
  BY DEF EarlySuperioConfig
<1>3. com1' = IF Dock THEN [com1 EXCEPT !.base = TRUE] ELSE com1
  BY DEF EarlySuperioConfig
<1>4. DockTypeOK' /\ com1'.on = com1.on
  BY <1>1, <1>2, <1>3 DEF DockInv, DockTypeOK, Places
<1>5. BaseSet'
  BY <1>1, <1>2, <1>3 DEF DockInv, DockTypeOK, Through, BaseSet, Seen, Poll
<1>. QED
  BY <1>1, <1>2, <1>4, <1>5 DEF DockInv, DlpcOn, Through, UartOn, Seen, Dock, Poll

LEMMA DockInvNext == DockInv /\ [DockNext]_dockVars => DockInv'
<1>. SUFFICES ASSUME DockInv, [DockNext]_dockVars PROVE DockInv'
  OBVIOUS
<1>1. CASE StartDlpcClock
  BY <1>1 DEF StartDlpcClock, DockInv, DockTypeOK, DlpcOn, Through, UartOn, BaseSet, Places, Poll, Seen
<1>2. CASE DlpcInit
  BY <1>2, DlpcInitKeeps
<1>3. CASE DockPresent
  BY <1>3, DockPresentKeeps
<1>4. CASE SwitchPolled
  BY <1>4, SwitchPolledKeeps
<1>5. CASE DockClockPolled
  BY <1>5, DockClockPolledKeeps
<1>6. CASE StartSioClock
  BY <1>6 DEF StartSioClock, DockInv, DockTypeOK, DlpcOn, Through, UartOn, BaseSet, Places, Poll, Seen, Dock
<1>7. CASE EarlySuperioConfig
  BY <1>7, EarlySuperioConfigKeeps
<1>8. ASSUME NEW p \in Poll, Look(p) PROVE DockInv'
  <2>1. timeout' \in 0..Patience
    BY <1>8, PatienceAssumption DEF Look, DockInv, DockTypeOK
  <2>. QED
    BY <1>8, <2>1, WaitKeeps DEF Look, DockInv, DockTypeOK
<1>9. CASE ClockSettles
  BY <1>9, WaitKeeps DEF ClockSettles, DockInv, DockTypeOK
<1>10. CASE SwitchCloses
  BY <1>10, WaitKeeps DEF SwitchCloses, DockInv, DockTypeOK
<1>11. CASE UNCHANGED dockVars
  BY <1>11, WaitKeeps DEF dockVars, DockInv, DockTypeOK
<1>. QED
  BY <1>1, <1>2, <1>3, <1>4, <1>5, <1>6, <1>7, <1>8, <1>9, <1>10, <1>11
     DEF DockNext, x60_chipset_init

LEMMA DockCorrect == DockSpec => []DockInv
<1>1. DockInit => DockInv
  BY DockInvInit
<1>2. DockInv /\ [DockNext]_dockVars => DockInv'
  BY DockInvNext
<1>. QED
  BY <1>1, <1>2, PTL DEF DockSpec

-----------------------------------------------------------------------------

\* However many looks a poll has, its counter stays in its range, and ends at
\* -1 or above (lenovo_x60.c:82-112, 320-343).
THEOREM DockTypeCorrect == DockSpec => []DockTypeOK
<1>1. DockInv => DockTypeOK
  BY DEF DockInv
<1>. QED
  BY <1>1, DockCorrect, PTL

\* A docked laptop whose clocks and switch are ready in time gets its line, for
\* every patience (lenovo_x60.c:73-201, 229-243).
THEOREM DockedCorrect == DockSpec => []DockedInTime
<1>1. DockInv => DockedInTime
  BY DEF DockInv, DockedInTime, ClearlyReady, Through, UartOn, BaseSet, Seen, Poll
<1>. QED
  BY <1>1, DockCorrect, PTL

-----------------------------------------------------------------------------
(* The BMC of the S1850: after each statement of bmc_foad the BMC has      *)
(* either taken the byte that was written last or is going to find it.     *)

\* A list of statements and one more; two more and three more.
LEMMA OneMore ==
  ASSUME NEW S, NEW p \in Seq(S), NEW a \in S
  PROVE  LET q == p \o <<a>>
         IN  /\ q \in Seq(S) /\ Len(q) = Len(p) + 1 /\ q[Len(p) + 1] = a
             /\ \A k \in 1..Len(p) : q[k] = p[k]
OBVIOUS

\* List q is p with the members of t behind it.
Longer(q, p, t) ==
  /\ Len(q) = Len(p) + Len(t)
  /\ \A k \in 1..Len(p) : q[k] = p[k]
  /\ \A k \in 1..Len(t) : q[Len(p) + k] = t[k]

LEMMA ThreeMore ==
  ASSUME NEW S, NEW p \in Seq(S), NEW a \in S, NEW b \in S, NEW c \in S
  PROVE  /\ p \o <<a, b>> \o <<c>> \in Seq(S)
         /\ Longer(p \o <<a, b>> \o <<c>>, p, <<a, b, c>>)
<1> DEFINE m == Len(p)
           r == p \o <<a, b>>
           t == r \o <<c>>
<1>1. r \in Seq(S) /\ Len(r) = m + 2 /\ (\A k \in 1..m : r[k] = p[k]) /\ r[m + 1] = a /\ r[m + 2] = b
  OBVIOUS
<1> HIDE DEF r
<1>2. t \in Seq(S) /\ Len(t) = Len(r) + 1 /\ t[Len(r) + 1] = c /\ \A k \in 1..Len(r) : t[k] = r[k]
  BY <1>1, OneMore
<1> HIDE DEF t
<1>3. /\ t \in Seq(S) /\ Len(t) = m + 3 /\ (\A k \in 1..m : t[k] = p[k])
      /\ t[m + 1] = a /\ t[m + 2] = b /\ t[m + 3] = c
  BY <1>1, <1>2
<1> QED
  BY <1>3 DEF t, r, Longer

LEMMA FourMore ==
  ASSUME NEW S, NEW p \in Seq(S), NEW a \in S, NEW b \in S, NEW c \in S, NEW d \in S
  PROVE  /\ p \o <<a, b, c>> \o <<d>> \in Seq(S)
         /\ Longer(p \o <<a, b, c>> \o <<d>>, p, <<a, b, c, d>>)
<1> DEFINE m == Len(p)
           r == p \o <<a, b, c>>
           t == r \o <<d>>
<1>1. /\ r \in Seq(S) /\ Len(r) = m + 3 /\ (\A k \in 1..m : r[k] = p[k])
      /\ r[m + 1] = a /\ r[m + 2] = b /\ r[m + 3] = c
  OBVIOUS
<1> HIDE DEF r
<1>2. t \in Seq(S) /\ Len(t) = Len(r) + 1 /\ t[Len(r) + 1] = d /\ \A k \in 1..Len(r) : t[k] = r[k]
  BY <1>1, OneMore
<1> HIDE DEF t
<1>3. /\ t \in Seq(S) /\ Len(t) = m + 4 /\ (\A k \in 1..m : t[k] = p[k])
      /\ t[m + 1] = a /\ t[m + 2] = b /\ t[m + 3] = c /\ t[m + 4] = d
  BY <1>1, <1>2
<1> QED
  BY <1>3 DEF t, r, Longer

\* The statements of bmc_foad, one by one.
LEMMA Statements ==
  /\ \E S : bmc_foad \in Seq(S)
  /\ Len(bmc_foad) = 16
  /\ bmc_foad[1] = UntilIdle
  /\ \A k \in {2, 4, 7, 10, 14} : bmc_foad[k] = IbfZero
  /\ \A k \in {6, 9, 12, 16} : bmc_foad[k] = Delay
  /\ bmc_foad[3] = Out("csr", \h61) /\ bmc_foad[13] = Out("csr", \h62)
  /\ bmc_foad[5] = Out("data", Request[1]) /\ bmc_foad[8] = Out("data", Request[2])
  /\ bmc_foad[11] = Out("data", Request[3]) /\ bmc_foad[15] = Out("data", Request[4])
<1> DEFINE S == [do : {"out", "ibfzero", "ipmidelay", "until_idle"}, to : {"none", "csr", "data"}, byte : Nat]
           s1 == <<UntilIdle>> \o first_cmd_byte(Request[1]) \o <<Delay>>
           s2 == s1 \o next_cmd_byte(Request[2]) \o <<Delay>>
           s3 == s2 \o next_cmd_byte(Request[3]) \o <<Delay>>
           s4 == s3 \o last_cmd_byte(Request[4]) \o <<Delay>>
<1>1. /\ IbfZero \in S /\ Delay \in S /\ UntilIdle \in S
      /\ \A b \in Nat, t \in {"csr", "data"} : Out(t, b) \in S
      /\ \A k \in 1..4 : Request[k] \in Nat
  BY DEF IbfZero, Delay, UntilIdle, Out, Request
<1> HIDE DEF S
<1>2. /\ s1 \in Seq(S) /\ Len(s1) = 6
      /\ s1[1] = UntilIdle /\ s1[2] = IbfZero /\ s1[3] = Out("csr", \h61) /\ s1[4] = IbfZero
      /\ s1[5] = Out("data", Request[1]) /\ s1[6] = Delay
  <2>1. first_cmd_byte(Request[1]) = <<IbfZero, Out("csr", \h61), IbfZero, Out("data", Request[1])>>
    BY DEF first_cmd_byte
  <2> QED  BY <1>1, <2>1
<1> HIDE DEF s1
<1>3. /\ s2 \in Seq(S) /\ Len(s2) = 9 /\ \A k \in 1..6 : s2[k] = s1[k]
      /\ s2[7] = IbfZero /\ s2[8] = Out("data", Request[2]) /\ s2[9] = Delay
  <2>1. s1 \in Seq(S) /\ IbfZero \in S /\ Out("data", Request[2]) \in S /\ Delay \in S  BY <1>1, <1>2
  <2> DEFINE q == s1 \o <<IbfZero, Out("data", Request[2])>> \o <<Delay>>
  <2>2. s2 = q  BY DEF next_cmd_byte
  <2>3. q \in Seq(S) /\ Longer(q, s1, <<IbfZero, Out("data", Request[2]), Delay>>)
    BY <2>1, ThreeMore, Zenon
  <2> HIDE DEF q, s2
  <2> QED  BY <1>2, <2>2, <2>3 DEF Longer
<1> HIDE DEF s2
<1>4. /\ s3 \in Seq(S) /\ Len(s3) = 12 /\ \A k \in 1..9 : s3[k] = s2[k]
      /\ s3[10] = IbfZero /\ s3[11] = Out("data", Request[3]) /\ s3[12] = Delay
  <2>1. s2 \in Seq(S) /\ IbfZero \in S /\ Out("data", Request[3]) \in S /\ Delay \in S  BY <1>1, <1>3
  <2> DEFINE q == s2 \o <<IbfZero, Out("data", Request[3])>> \o <<Delay>>
  <2>2. s3 = q  BY DEF next_cmd_byte
  <2>3. q \in Seq(S) /\ Longer(q, s2, <<IbfZero, Out("data", Request[3]), Delay>>)
    BY <2>1, ThreeMore, Zenon
  <2> HIDE DEF q, s3
  <2> QED  BY <1>3, <2>2, <2>3 DEF Longer
<1> HIDE DEF s3
<1>5. /\ s4 \in Seq(S) /\ Len(s4) = 16 /\ \A k \in 1..12 : s4[k] = s3[k]
      /\ s4[13] = Out("csr", \h62) /\ s4[14] = IbfZero
      /\ s4[15] = Out("data", Request[4]) /\ s4[16] = Delay
  <2>1. /\ s3 \in Seq(S) /\ IbfZero \in S /\ Delay \in S
        /\ Out("data", Request[4]) \in S /\ Out("csr", \h62) \in S
    BY <1>1, <1>4
  <2> DEFINE q == s3 \o <<Out("csr", \h62), IbfZero, Out("data", Request[4])>> \o <<Delay>>
  <2>2. s4 = q  BY DEF last_cmd_byte
  <2>3. q \in Seq(S) /\ Longer(q, s3, <<Out("csr", \h62), IbfZero, Out("data", Request[4]), Delay>>)
    BY <2>1, FourMore, Zenon
  <2> HIDE DEF q, s4
  <2> QED  BY <1>4, <2>2, <2>3 DEF Longer
<1>6. bmc_foad = s4
  BY DEF bmc_foad, s1, s2, s3
<1> HIDE DEF s4
<1> QED
  BY <1>2, <1>3, <1>4, <1>5, <1>6

\* Once the BMC has taken all that the first k statements wrote, it is in this
\* phase and has heard so many bytes of the request.
PhaseAfter(k) ==
  IF k <= 2 THEN "idle" ELSE IF k <= 12 THEN "write" ELSE IF k <= 14 THEN "last" ELSE "read"
HeardAfter(k) ==
  IF k < 5 THEN 0 ELSE IF k < 8 THEN 1 ELSE IF k < 11 THEN 2 ELSE IF k < 15 THEN 3 ELSE 4

Understood(k) == phase = PhaseAfter(k) /\ (k >= 3 => heard = SubSeq(Request, 1, HeardAfter(k)))

\* The statements that write, and the delays after which the host waits.
Outs == {3, 5, 8, 11, 13, 15}
Delays == {6, 9}

\* The statement that wrote last.
Written(k) == IF k \in Delays THEN k - 1 ELSE k

\* Where the two are when the host has made k statements.
Reached(k) ==
  \/ k = 0 /\ input \in {NoByte, [to |-> "csr", byte |-> \h60]} /\ (phase = "idle" => input = NoByte)
  \/ k > 0 /\ input = NoByte /\ Understood(k)
  \/ /\ k \in Outs \cup Delays
     /\ input = [to |-> bmc_foad[Written(k)].to, byte |-> bmc_foad[Written(k)].byte]
     /\ Understood(Written(k) - 1)

InStep == \E k \in 0..16 : script = SubSeq(bmc_foad, k + 1, 16) /\ Reached(k)

BmcInv == late \/ InStep

\* What is left of list p behind its first k members.
After(q, p, k) ==
  /\ Len(q) = Len(p) - k
  /\ \A j \in 1..Len(p) - k : q[j] = p[k + j]

LEMMA WhatIsLeft ==
  ASSUME NEW S, NEW p \in Seq(S), NEW k \in 0..Len(p)
  PROVE  SubSeq(p, k + 1, Len(p)) \in Seq(S) /\ After(SubSeq(p, k + 1, Len(p)), p, k)
<1>1. k + 1 \in 1..Len(p) + 1 /\ Len(p) \in Nat
  OBVIOUS
<1>2. \A i \in k + 1..Len(p) : i \in DOMAIN p
  OBVIOUS
<1>3. SubSeq(p, k + 1, Len(p)) \in Seq(S)
  BY <1>1, <1>2
<1>4. Len(SubSeq(p, k + 1, Len(p))) = Len(p) - k
  BY <1>1
<1>5. \A j \in 1..Len(p) - k : SubSeq(p, k + 1, Len(p))[j] = p[k + j]
  BY <1>1
<1> QED
  BY <1>3, <1>4, <1>5 DEF After

LEMMA Dropped ==
  ASSUME NEW S, NEW p \in Seq(S), NEW k \in Nat, k < Len(p),
         NEW q \in Seq(S), NEW r \in Seq(S), After(q, p, k), After(r, p, k + 1)
  PROVE  q # <<>> /\ Head(q) = p[k + 1] /\ Tail(q) = r
<1>1. q # <<>> /\ q[1] = p[k + 1]
  BY DEF After
<1>2. Tail(q) \in Seq(S) /\ Len(Tail(q)) = Len(r)
  BY <1>1 DEF After
<1>3. \A j \in 1..Len(r) : Tail(q)[j] = q[j + 1]
  BY <1>1, <1>2
<1>4. \A j \in 1..Len(r) : q[j + 1] = r[j]
  BY DEF After
<1>5. Tail(q) = r
  BY <1>2, <1>3, <1>4, SeqEqual
<1> QED
  BY <1>1, <1>5

\* What is left of the script.
LEMMA Rest ==
  ASSUME NEW s, NEW k \in 0..16, s = SubSeq(bmc_foad, k + 1, 16)
  PROVE  /\ s = <<>> <=> k = 16
         /\ k < 16 => Head(s) = bmc_foad[k + 1] /\ Tail(s) = SubSeq(bmc_foad, k + 2, 16)
<1>1. PICK S : bmc_foad \in Seq(S) /\ Len(bmc_foad) = 16
  BY Statements
<1>2. s \in Seq(S) /\ After(s, bmc_foad, k)
  BY <1>1, WhatIsLeft
<1>3. s = <<>> <=> k = 16
  <2>1. Len(s) = 16 - k  BY <1>1, <1>2 DEF After
  <2>2. s = <<>> <=> Len(s) = 0  BY <1>2, EmptySeq
  <2> QED  BY <2>1, <2>2
<1>4. ASSUME k < 16
      PROVE  Head(s) = bmc_foad[k + 1] /\ Tail(s) = SubSeq(bmc_foad, k + 2, 16)
  <2> DEFINE r == SubSeq(bmc_foad, (k + 1) + 1, 16)
  <2>1. r \in Seq(S) /\ After(r, bmc_foad, k + 1)
    <3> DEFINE j == k + 1
    <3>1. j \in 0..Len(bmc_foad)  BY <1>1, <1>4
    <3> HIDE DEF j
    <3>2. SubSeq(bmc_foad, j + 1, Len(bmc_foad)) \in Seq(S)
          /\ After(SubSeq(bmc_foad, j + 1, Len(bmc_foad)), bmc_foad, j)
      BY <1>1, <3>1, WhatIsLeft
    <3> QED  BY <1>1, <3>2 DEF j
  <2>2. r = SubSeq(bmc_foad, k + 2, 16)
    OBVIOUS
  <2> HIDE DEF r
  <2>3. k \in Nat /\ k < Len(bmc_foad)
    BY <1>1, <1>4
  <2>4. Head(s) = bmc_foad[k + 1] /\ Tail(s) = r
    BY <1>1, <1>2, <2>1, <2>3, Dropped
  <2> QED  BY <2>2, <2>4
<1> QED
  BY <1>3, <1>4

LEMMA RequestType == Request \in Seq(Nat) /\ Len(Request) = 4
BY DEF Request

LEMMA Hearing ==
  \A n \in 0..3 : Append(SubSeq(Request, 1, n), Request[n + 1]) = SubSeq(Request, 1, n + 1)
BY RequestType

\* What each statement is.
LEMMA StatementIs ==
  /\ bmc_foad[1].do = "until_idle"
  /\ \A k \in 2..16 : bmc_foad[k].do # "until_idle"
  /\ \A k \in 1..16 : bmc_foad[k].do = "out" <=> k \in Outs
  /\ \A k \in 1..16 : bmc_foad[k].do = "ipmidelay" <=> k \in {6, 9, 12, 16}
  /\ bmc_foad[13].do # "ibfzero"
  /\ bmc_foad[3].to = "csr" /\ bmc_foad[3].byte = \h61
  /\ bmc_foad[13].to = "csr" /\ bmc_foad[13].byte = \h62
  /\ \A k \in {5, 8, 11, 15} : bmc_foad[k].to = "data" /\ bmc_foad[k].byte = Request[HeardAfter(k)]
<1>1. \A k \in 2..16 : k \in {2, 4, 7, 10, 14} \cup {6, 9, 12, 16} \cup {3, 5, 8, 11, 13, 15}
  OBVIOUS
<1>2. HeardAfter(5) = 1 /\ HeardAfter(8) = 2 /\ HeardAfter(11) = 3 /\ HeardAfter(15) = 4
  BY DEF HeardAfter
<1> QED
  BY <1>1, <1>2, Statements DEF UntilIdle, IbfZero, Delay, Out, Outs

\* A byte that the BMC takes in time is one that a wait follows, or no longer there.
LEMMA InTime ==
  ASSUME NEW k \in 0..16, script = SubSeq(bmc_foad, k + 1, 16), Delayed, ~late'
  PROVE  k + 1 \in {6, 9, 12, 16} /\ (Ibf => k + 1 \in Delays)
<1>1. k < 16 /\ Head(script) = bmc_foad[k + 1] /\ Tail(script) = SubSeq(bmc_foad, k + 2, 16)
  BY Rest DEF Delayed, Does
<1>2. bmc_foad[k + 1].do = "ipmidelay"
  BY <1>1 DEF Delayed, Does
<1>3. k + 1 \in {6, 9, 12, 16}
  <2> DEFINE n == k + 1
  <2>1. n \in 1..16
    BY <1>1
  <2> HIDE DEF n
  <2>2. bmc_foad[n].do = "ipmidelay"
    BY <1>2 DEF n
  <2>3. n \in {6, 9, 12, 16}
    BY <2>1, <2>2, StatementIs
  <2> QED  BY <2>3 DEF n
<1>4. ASSUME Ibf, k + 1 \notin Delays PROVE FALSE
  <2>1. Tail(script) # <<>> /\ Head(Tail(script)).do = "ibfzero"
    BY <1>4 DEF Delayed, WaitFollows
  <2> DEFINE t == Tail(script)
             n == k + 1
  <2>2. n \in 0..16 /\ t = SubSeq(bmc_foad, n + 1, 16)
    BY <1>1
  <2> HIDE DEF t, n
  <2>3. (t = <<>> <=> n = 16) /\ (n < 16 => Head(t) = bmc_foad[n + 1])
    BY <2>2, Rest
  <2>4. n \in {12, 16}
    BY <1>3, <1>4 DEF n, Delays
  <2>5. n = 12
    BY <2>1, <2>3, <2>4 DEF t
  <2>6. Head(t) = bmc_foad[13]
    BY <2>3, <2>5
  <2> QED
    BY <2>1, <2>6, StatementIs DEF t
<1> QED
  BY <1>3, <1>4

\* A write or a wait comes when the BMC has taken what was written last.
LEMMA GoesOn ==
  ASSUME NEW k \in 0..15, Reached(k), k + 1 \notin Outs, k # 0, input = NoByte,
         input' = NoByte, UNCHANGED <<phase, heard>>
  PROVE  Reached(k + 1)'
<1>1. Understood(k)
  <2>1. k \in Outs \cup Delays => Written(k) \in Outs /\ Written(k) \in 1..16
    BY DEF Outs, Delays, Written
  <2>2. k \in Outs \cup Delays => bmc_foad[Written(k)].to \in {"csr", "data"}
    BY <2>1, StatementIs DEF Outs
  <2>3. k \notin Outs \cup Delays \/ input # [to |-> bmc_foad[Written(k)].to, byte |-> bmc_foad[Written(k)].byte]
    BY <2>2 DEF NoByte
  <2> QED
    BY <2>3 DEF Reached
<1>2. PhaseAfter(k + 1) = PhaseAfter(k) /\ HeardAfter(k + 1) = HeardAfter(k)
      /\ (k + 1 >= 3 => k >= 3 \/ k + 1 = 3)
  BY DEF PhaseAfter, HeardAfter, Outs
<1>3. Understood(k + 1)'
  <2>1. phase' = PhaseAfter(k + 1)
    BY <1>1, <1>2 DEF Understood
  <2>2. k + 1 >= 3 => heard' = SubSeq(Request, 1, HeardAfter(k + 1))
    BY <1>1, <1>2 DEF Understood, Outs
  <2> QED  BY <2>1, <2>2 DEF Understood
<1> QED
  BY <1>3 DEF Reached

\* Where the BMC has not taken the byte yet a delay changes nothing.
LEMMA StillWaits ==
  ASSUME NEW k \in 0..15, Reached(k), k + 1 \in Delays, input # NoByte,
         UNCHANGED <<input, phase, heard>>
  PROVE  Reached(k + 1)'
<1>1. k \in Outs /\ k \notin Delays /\ k # 0 /\ Written(k) = k /\ Written(k + 1) = k
  BY DEF Delays, Outs, Written
<1>2. input = [to |-> bmc_foad[k].to, byte |-> bmc_foad[k].byte] /\ Understood(k - 1)
  BY <1>1 DEF Reached
<1>3. Understood(k - 1)'
  BY <1>2 DEF Understood
<1>4. input' = [to |-> bmc_foad[Written(k + 1)].to, byte |-> bmc_foad[Written(k + 1)].byte]
  BY <1>1, <1>2
<1>5. Understood(Written(k + 1) - 1)'
  <2>1. Written(k + 1) - 1 = k - 1
    BY <1>1
  <2> QED  BY <1>3, <2>1
<1> QED
  BY <1>4, <1>5 DEF Reached

\* A statement of the host.
LEMMA HostGoesOn ==
  ASSUME BmcInv, Host
  PROVE  BmcInv'
<1>1. SUFFICES ASSUME ~late' PROVE InStep'
  BY DEF BmcInv
<1>2. ~late
  BY <1>1 DEF Host, Write, IbfIsZero, Delayed, Abort
<1>3. PICK k \in 0..16 : script = SubSeq(bmc_foad, k + 1, 16) /\ Reached(k)
  BY <1>2 DEF BmcInv, InStep
<1>4. k \in 0..15 /\ Head(script) = bmc_foad[k + 1] /\ Tail(script) = SubSeq(bmc_foad, k + 2, 16)
  BY <1>3, Rest DEF Host, Write, IbfIsZero, Delayed, Abort, Does
<1>5. phase' = phase /\ heard' = heard
  BY DEF Host, Write, IbfIsZero, Delayed, Abort
<1>6. ASSUME script' = Tail(script), Reached(k + 1)' PROVE InStep'
  <2>1. script' = SubSeq(bmc_foad, (k + 1) + 1, 16) /\ k + 1 \in 0..16
    BY <1>4, <1>6
  <2> QED  BY <1>6, <2>1 DEF InStep
<1>7. CASE Write
  <2>1. bmc_foad[k + 1].do = "out"
    BY <1>4, <1>7 DEF Write, Does
  <2>2. k + 1 \in Outs /\ k + 1 \in 1..16
    <3> DEFINE n == k + 1
    <3>1. n \in 1..16
      BY <1>4
    <3> HIDE DEF n
    <3>2. bmc_foad[n].do = "out"
      BY <2>1 DEF n
    <3>3. n \in Outs
      BY <3>1, <3>2, StatementIs
    <3> QED  BY <3>1, <3>3 DEF n
  <2>3. k \in {2, 4, 7, 10, 12, 14} /\ Written(k + 1) = k + 1 /\ (k + 1) - 1 = k
    BY <1>4, <2>2 DEF Outs, Delays, Written
  <2>4. Understood(k)
    BY <1>3, <2>3 DEF Reached, Outs, Delays
  <2>5. Understood(k)'
    BY <1>5, <2>4 DEF Understood
  <2>6. input' = [to |-> bmc_foad[Written(k + 1)].to, byte |-> bmc_foad[Written(k + 1)].byte]
    BY <1>4, <1>7, <2>3 DEF Write
  <2>7. Understood(Written(k + 1) - 1)'
    BY <2>3, <2>5
  <2>8. Reached(k + 1)'
    BY <2>2, <2>6, <2>7 DEF Reached
  <2> QED
    BY <1>6, <1>7, <2>8 DEF Write, Advance
<1>8. CASE IbfIsZero
  <2>1. bmc_foad[k + 1].do = "ibfzero" /\ input = NoByte /\ input' = NoByte /\ script' = Tail(script)
    BY <1>4, <1>8 DEF IbfIsZero, Does, Ibf, Advance
  <2>2. k # 0 /\ k + 1 \notin Outs
    BY <1>4, <2>1, StatementIs
  <2> QED
    BY <1>3, <1>4, <1>5, <1>6, <2>1, <2>2, GoesOn
<1>9. CASE Delayed
  <2>1. k + 1 \in {6, 9, 12, 16} /\ (Ibf => k + 1 \in Delays)
    BY <1>1, <1>3, <1>9, InTime
  <2>2. input' = input /\ script' = Tail(script)
    BY <1>9 DEF Delayed, Advance
  <2>3. CASE input = NoByte
    <3>1. k # 0 /\ k + 1 \notin Outs
      BY <2>1 DEF Outs
    <3> QED
      BY <1>3, <1>4, <1>5, <1>6, <2>2, <2>3, <3>1, GoesOn
  <2>4. CASE input # NoByte
    BY <1>3, <1>4, <1>5, <1>6, <2>1, <2>2, <2>4, StillWaits DEF Ibf
  <2> QED
    BY <2>3, <2>4
<1>10. CASE Abort
  <2>1. bmc_foad[k + 1].do = "until_idle"
    BY <1>4, <1>10 DEF Abort, Does
  <2>2. k = 0
    <3>1. k + 1 \notin 2..16
      BY <2>1, StatementIs
    <3> QED  BY <1>4, <3>1
  <2>3. CASE phase = "idle"
    <3>1. input = NoByte /\ input' = NoByte /\ script' = Tail(script)
      BY <1>3, <1>10, <2>2, <2>3 DEF Abort, Advance, Reached, Outs, Delays
    <3>2. Understood(1)'
      BY <1>5, <2>3 DEF Understood, PhaseAfter
    <3>3. Reached(1)'
      BY <3>1, <3>2 DEF Reached
    <3> QED
      BY <1>6, <2>2, <3>1, <3>3
  <2>4. CASE phase # "idle"
    <3>1. Reached(0)' /\ script' = script
      BY <1>5, <1>10, <2>4 DEF Abort, Reached
    <3> QED
      BY <1>3, <2>2, <3>1 DEF InStep
  <2> QED
    BY <2>3, <2>4
<1> QED
  BY <1>7, <1>8, <1>9, <1>10 DEF Host

\* The BMC takes what was written.
LEMMA BmcTakes ==
  ASSUME BmcInv, Bmc
  PROVE  BmcInv'
<1>0. SUFFICES ASSUME ~late' PROVE InStep'
  BY DEF BmcInv
<1>1. PICK k \in 0..16 : script = SubSeq(bmc_foad, k + 1, 16) /\ Reached(k)
  BY <1>0 DEF BmcInv, InStep, Bmc
<1>2. input # NoByte /\ input' = NoByte /\ script' = script
  BY DEF Bmc, Ibf
<1>3. SUFFICES Reached(k)'
  BY <1>1, <1>2 DEF InStep
<1>4. CASE k = 0
  BY <1>2, <1>4 DEF Reached
<1>5. CASE k > 0
  <2> DEFINE w == Written(k)
  <2>1. /\ k \in Outs \cup Delays /\ Understood(w - 1)
        /\ input.to = bmc_foad[w].to /\ input.byte = bmc_foad[w].byte
    BY <1>1, <1>2, <1>5 DEF Reached
  <2>2. w \in Outs /\ PhaseAfter(k) = PhaseAfter(w) /\ HeardAfter(k) = HeardAfter(w) /\ w >= 3 /\ w \in Nat
    BY <2>1 DEF Outs, Delays, Written, PhaseAfter, HeardAfter
  <2> HIDE DEF w
  <2>3. SUFFICES Understood(w)'
    <3>1. Understood(k)'
      BY <2>2, <2>3 DEF Understood
    <3> QED  BY <1>2, <1>5, <3>1 DEF Reached
  <2>4. CASE w = 3
    <3>1. TakeStart
      BY <2>1, <2>4, StatementIs DEF Bmc, TakeAbort, TakeEnd, TakeData
    <3>2. SubSeq(Request, 1, 0) = <<>>
      BY RequestType
    <3> QED
      BY <2>4, <3>1, <3>2 DEF TakeStart, Understood, PhaseAfter, HeardAfter
  <2>5. CASE w = 13
    <3>1. TakeEnd
      BY <2>1, <2>5, StatementIs DEF Bmc, TakeAbort, TakeStart, TakeData
    <3> QED
      BY <2>1, <2>5, <3>1 DEF TakeEnd, Understood, PhaseAfter, HeardAfter
  <2>6. CASE w \in {5, 8, 11, 15}
    <3>1. TakeData /\ input.byte = Request[HeardAfter(w)]
      BY <2>1, <2>6, StatementIs DEF Bmc, TakeAbort, TakeStart, TakeEnd
    <3>2. HeardAfter(w - 1) \in 0..3 /\ HeardAfter(w) = HeardAfter(w - 1) + 1 /\ w - 1 >= 3
      BY <2>6 DEF HeardAfter
    <3>3. heard' = SubSeq(Request, 1, HeardAfter(w))
      BY <2>1, <3>1, <3>2, Hearing DEF TakeData, Understood
    <3>4. phase' = PhaseAfter(w)
      BY <2>1, <2>6, <3>1 DEF TakeData, Understood, PhaseAfter
    <3> QED
      BY <3>3, <3>4 DEF Understood
  <2> QED
    BY <2>2, <2>4, <2>5, <2>6 DEF Outs
<1> QED
  BY <1>4, <1>5

LEMMA BmcBegins == BmcInit => BmcInv
<1> SUFFICES ASSUME BmcInit PROVE BmcInv
  OBVIOUS
<1>1. bmc_foad = SubSeq(bmc_foad, 1, 16)
  BY Statements
<1>2. Reached(0)
  BY DEF BmcInit, Reached
<1> QED
  BY <1>1, <1>2 DEF BmcInit, BmcInv, InStep

\* The BMC takes the request whole and in order, whatever phase it was left in
\* and however it takes its time, unless it is slower than the delay in front of
\* last_cmd_byte or the one at the end.
THEOREM CommandCorrect == BmcSpec => []CommandWhole
<1>1. BmcInv /\ [BmcNext]_bmcVars => BmcInv'
  <2>1. BmcInv /\ UNCHANGED bmcVars => BmcInv'
    BY DEF BmcInv, InStep, Reached, Understood, bmcVars
  <2> QED
    BY <2>1, HostGoesOn, BmcTakes DEF BmcNext
<1>2. BmcInv => CommandWhole
  <2> SUFFICES ASSUME BmcInv, script = <<>>, ~late PROVE heard = Request /\ phase = "read"
    BY DEF CommandWhole
  <2>1. Reached(16)
    BY Rest DEF BmcInv, InStep
  <2>2. Understood(16)
    BY <2>1 DEF Reached, Outs, Delays
  <2>3. SubSeq(Request, 1, 4) = Request
    BY RequestType
  <2> QED
    BY <2>2, <2>3 DEF Understood, PhaseAfter, HeardAfter
<1> QED
  BY <1>1, <1>2, BmcBegins, PTL DEF BmcSpec

-----------------------------------------------------------------------------
(***************************************************************************)
(* Boards with one Winbond or SMSC chip that has one UART: most of those   *)
(* there are.  Their chipset_init is straight-line code, so the invariant  *)
(* says what is true after each of its steps.                              *)
(***************************************************************************)

\* What such a board does before it turns to its chip: nothing, or it has the
\* chipset forward the chip's port, and may then wait for a BMC.
Front(b, body, port) ==
  \/ ~b.decodes /\ b.steps = body
  \/ \E bits \in Nat :
       /\ b.decodes /\ port \in Forwarded(bits)
       /\ b.steps = <<Decode(bits)>> \o body \/ b.steps = <<Decode(bits)>> \o <<Wait>> \o body

OneWinbond(b) ==
  \E port \in Nat, clock \in Nat, device \in Nat \ {Global} :
    /\ b.serial \in Nat /\ b.superios = {SuperIO(port, "winbond", {device})}
    /\ Front(b, Winbond(port, clock, device, b.serial), port)

OneSmsc(b) ==
  \E device \in Nat \ {Global} :
    /\ b.serial = \h3f8 /\ b.superios = {SuperIO(\h2e, "smsc", {device})}
    /\ Front(b, Smsc(device), \h2e)

OneUart(b) == OneWinbond(b) \/ OneSmsc(b)

-----------------------------------------------------------------------------
(* The steps, one by one.                                                  *)

StepType == [op : {"index", "data", "decode", "wait"}, port : Nat, window : {"none"}, val : Nat]

LEMMA StepTypes ==
  /\ \A port, byte \in Nat : Index(port, byte) \in StepType /\ Data(port, byte) \in StepType
  /\ \A bits \in Nat : Decode(bits) \in StepType
  /\ Wait \in StepType
BY DEF StepType, Index, Data, Decode, Wait, Step

\* One list behind another.
LEMMA Behind ==
  ASSUME NEW S, NEW p \in Seq(S), NEW t \in Seq(S)
  PROVE  p \o t \in Seq(S) /\ Longer(p \o t, p, t)
BY DEF Longer

LEMMA RegisterWritten ==
  ASSUME NEW port \in Nat, NEW reg \in Nat, NEW value \in Nat
  PROVE  LET w == pnp_write_register(port, reg, value)
         IN  /\ w \in Seq(StepType) /\ Len(w) = 2
             /\ w[1] = Index(port, reg) /\ w[2] = Data(port, value)
<1>1. Index(port, reg) \in StepType /\ Data(port, value) \in StepType
  BY StepTypes
<1> QED
  BY <1>1 DEF pnp_write_register

\* What the twelve steps of a UART are, in list s behind the first m.
UartAfter(s, m, port, device, serial, irq) ==
  /\ s[m + 1] = Index(port, 7) /\ s[m + 2] = Data(port, device)
  /\ s[m + 3] = Index(port, \h30) /\ s[m + 4] = Data(port, 0)
  /\ s[m + 5] = Index(port, \h60) /\ s[m + 6] = Data(port, serial \div 256)
  /\ s[m + 7] = Index(port, \h61) /\ s[m + 8] = Data(port, serial % 256)
  /\ s[m + 9] = Index(port, \h70) /\ s[m + 10] = Data(port, irq)
  /\ s[m + 11] = Index(port, \h30) /\ s[m + 12] = Data(port, 1)

LEMMA UartIs ==
  ASSUME NEW port \in Nat, NEW device \in Nat, NEW serial \in Nat, NEW irq \in Nat
  PROVE  /\ Uart(port, device, serial, irq) \in Seq(StepType)
         /\ Len(Uart(port, device, serial, irq)) = 12
         /\ UartAfter(Uart(port, device, serial, irq), 0, port, device, serial, irq)
<1> DEFINE a == pnp_set_logical_device(port, device)
           b == pnp_set_enable(port, 0)
           c1 == pnp_write_register(port, \h60, serial \div 256)
           c2 == pnp_write_register(port, \h61, serial % 256)
           c == c1 \o c2
           d == pnp_set_irq0(port, irq)
           e == pnp_set_enable(port, 1)
           ab == a \o b
           abc == ab \o c
           abcd == abc \o d
           u == abcd \o e
<1>0. serial \div 256 \in Nat /\ serial % 256 \in Nat
  OBVIOUS
<1>1. a \in Seq(StepType) /\ Len(a) = 2 /\ a[1] = Index(port, 7) /\ a[2] = Data(port, device)
  BY RegisterWritten DEF pnp_set_logical_device
<1>2. b \in Seq(StepType) /\ Len(b) = 2 /\ b[1] = Index(port, \h30) /\ b[2] = Data(port, 0)
  BY RegisterWritten DEF pnp_set_enable
<1>3. /\ c1 \in Seq(StepType) /\ Len(c1) = 2
      /\ c1[1] = Index(port, \h60) /\ c1[2] = Data(port, serial \div 256)
  BY <1>0, RegisterWritten
<1>4. /\ c2 \in Seq(StepType) /\ Len(c2) = 2
      /\ c2[1] = Index(port, \h61) /\ c2[2] = Data(port, serial % 256)
  BY <1>0, RegisterWritten
<1>5. d \in Seq(StepType) /\ Len(d) = 2 /\ d[1] = Index(port, \h70) /\ d[2] = Data(port, irq)
  BY RegisterWritten DEF pnp_set_irq0
<1>6. e \in Seq(StepType) /\ Len(e) = 2 /\ e[1] = Index(port, \h30) /\ e[2] = Data(port, 1)
  BY RegisterWritten DEF pnp_set_enable
<1> HIDE DEF a, b, c1, c2, d, e
<1>7. /\ c \in Seq(StepType) /\ Len(c) = 4
      /\ c[1] = c1[1] /\ c[2] = c1[2] /\ c[3] = c2[1] /\ c[4] = c2[2]
  <2>1. c \in Seq(StepType) /\ Longer(c, c1, c2)
    BY <1>3, <1>4, Behind
  <2> HIDE DEF c
  <2> QED  BY <1>3, <1>4, <2>1 DEF Longer
<1>8. /\ ab \in Seq(StepType) /\ Len(ab) = 4
      /\ ab[1] = a[1] /\ ab[2] = a[2] /\ ab[3] = b[1] /\ ab[4] = b[2]
  <2>1. ab \in Seq(StepType) /\ Longer(ab, a, b)
    BY <1>1, <1>2, Behind
  <2> HIDE DEF ab
  <2> QED  BY <1>1, <1>2, <2>1 DEF Longer
<1> HIDE DEF c, ab
<1>9. /\ abc \in Seq(StepType) /\ Len(abc) = 8 /\ \A k \in 1..4 : abc[k] = ab[k]
      /\ abc[5] = c[1] /\ abc[6] = c[2] /\ abc[7] = c[3] /\ abc[8] = c[4]
  <2>1. abc \in Seq(StepType) /\ Longer(abc, ab, c)
    BY <1>7, <1>8, Behind
  <2> HIDE DEF abc
  <2> QED  BY <1>7, <1>8, <2>1 DEF Longer
<1> HIDE DEF abc
<1>10. /\ abcd \in Seq(StepType) /\ Len(abcd) = 10 /\ \A k \in 1..8 : abcd[k] = abc[k]
       /\ abcd[9] = d[1] /\ abcd[10] = d[2]
  <2>1. abcd \in Seq(StepType) /\ Longer(abcd, abc, d)
    BY <1>5, <1>9, Behind
  <2> HIDE DEF abcd
  <2> QED  BY <1>5, <1>9, <2>1 DEF Longer
<1> HIDE DEF abcd
<1>11. /\ u \in Seq(StepType) /\ Len(u) = 12 /\ \A k \in 1..10 : u[k] = abcd[k]
       /\ u[11] = e[1] /\ u[12] = e[2]
  <2>1. u \in Seq(StepType) /\ Longer(u, abcd, e)
    BY <1>6, <1>10, Behind
  <2> HIDE DEF u
  <2> QED  BY <1>6, <1>10, <2>1 DEF Longer
<1>12. Uart(port, device, serial, irq) = u
  BY DEF Uart, pnp_set_iobase0, a, b, c, c1, c2, d, e, ab, abc, abcd
<1> HIDE DEF u
<1> QED
  BY <1>1, <1>2, <1>3, <1>4, <1>5, <1>6, <1>7, <1>8, <1>9, <1>10, <1>11, <1>12 DEF UartAfter

\* What opens a chip, and closes it.
KeyLen(kind) == IF kind = "winbond" THEN 2 ELSE 1

LEMMA KeyIs ==
  /\ Kind["winbond"].key = <<\h87, \h87>> /\ Kind["smsc"].key = <<\h55>>
  /\ Kind["winbond"].leave = {\haa} /\ Kind["smsc"].leave = {\haa}
BY DEF Kind

\* After d steps of its own, a board writes the key, perhaps a clock, and from
\* step m + 1 on the UART.
Body(s, kind, port, device, serial, d, m) ==
  /\ s \in Seq(StepType) /\ Len(s) = m + 13
  /\ m \in {d + KeyLen(kind), d + KeyLen(kind) + 2}
  /\ \A i \in 1..KeyLen(kind) : s[d + i] = Index(port, Kind[kind].key[i])
  /\ m = d + KeyLen(kind) + 2
       => s[d + KeyLen(kind) + 1] = Index(port, \h24) /\ \E v \in Nat : s[m] = Data(port, v)
  /\ UartAfter(s, m, port, device, serial, 4)
  /\ s[m + 13] = Index(port, \haa)

LEMMA WinbondIs ==
  ASSUME NEW port \in Nat, NEW clock \in Nat, NEW device \in Nat, NEW serial \in Nat
  PROVE  \E m \in Nat : Body(Winbond(port, clock, device, serial), "winbond", port, device, serial, 0, m)
<1> DEFINE a == pnp_enter_ext_func_mode(port)
           b == IF clock = 0 THEN <<>> ELSE pnp_write_register(port, \h24, clock)
           u == Uart(port, device, serial, 4)
           e == pnp_exit_ext_func_mode(port)
           ab == a \o b
           abu == ab \o u
           w == abu \o e
           m == Len(ab)
<1>1. /\ a \in Seq(StepType) /\ Len(a) = 2 /\ a[1] = Index(port, \h87) /\ a[2] = Index(port, \h87)
  <2>1. Index(port, \h87) \in StepType
    BY StepTypes
  <2> QED  BY <2>1 DEF pnp_enter_ext_func_mode
<1>2. /\ b \in Seq(StepType) /\ Len(b) \in {0, 2}
      /\ Len(b) = 2 => b[1] = Index(port, \h24) /\ b[2] = Data(port, clock)
  <2>1. CASE clock = 0
    BY <2>1
  <2>2. CASE clock # 0
    BY <2>2, RegisterWritten
  <2> QED  BY <2>1, <2>2
<1>3. /\ u \in Seq(StepType) /\ Len(u) = 12 /\ UartAfter(u, 0, port, device, serial, 4)
  BY UartIs
<1>4. e \in Seq(StepType) /\ Len(e) = 1 /\ e[1] = Index(port, \haa)
  <2>1. Index(port, \haa) \in StepType
    BY StepTypes
  <2> QED  BY <2>1 DEF pnp_exit_ext_func_mode
<1> HIDE DEF a, b, u, e
<1>5. /\ ab \in Seq(StepType) /\ Len(ab) = 2 + Len(b) /\ ab[1] = a[1] /\ ab[2] = a[2]
      /\ Len(b) = 2 => ab[3] = b[1] /\ ab[4] = b[2]
  <2>1. ab \in Seq(StepType) /\ Longer(ab, a, b)
    BY <1>1, <1>2, Behind
  <2> HIDE DEF ab
  <2> QED  BY <1>1, <1>2, <2>1 DEF Longer
<1> HIDE DEF ab
<1>6. m \in {2, 4} /\ m = Len(ab) /\ m = 2 + Len(b)
  <2>1. m = Len(ab)
    OBVIOUS
  <2>2. Len(ab) = 2 + Len(b)
    BY <1>5
  <2>3. Len(b) = 0 \/ Len(b) = 2
    BY <1>2
  <2> HIDE DEF m
  <2>4. m = 2 + Len(b)
    BY <2>1, <2>2
  <2>5. m = 2 \/ m = 4
    <3>1. CASE Len(b) = 0
      BY <2>4, <3>1
    <3>2. CASE Len(b) = 2
      BY <2>4, <3>2
    <3> QED  BY <2>3, <3>1, <3>2
  <2> QED  BY <2>1, <2>4, <2>5
<1> HIDE DEF m
<1>7. /\ abu \in Seq(StepType) /\ Len(abu) = m + 12 /\ \A k \in 1..m : abu[k] = ab[k]
      /\ \A k \in 1..12 : abu[m + k] = u[k]
  <2>1. abu \in Seq(StepType) /\ Longer(abu, ab, u)
    BY <1>3, <1>5, <1>6, Behind
  <2> HIDE DEF abu
  <2> QED  BY <1>3, <1>5, <1>6, <2>1 DEF Longer
<1> HIDE DEF abu
<1>8. /\ w \in Seq(StepType) /\ Len(w) = m + 13 /\ \A k \in 1..m + 12 : w[k] = abu[k]
      /\ w[m + 13] = e[1]
  <2>1. w \in Seq(StepType) /\ Longer(w, abu, e)
    BY <1>4, <1>6, <1>7, Behind
  <2> HIDE DEF w
  <2> QED  BY <1>4, <1>6, <1>7, <2>1 DEF Longer
<1>9. Winbond(port, clock, device, serial) = w
  BY DEF Winbond, a, b, u, e, ab, abu
<1> HIDE DEF w
<1>10. UartAfter(w, m, port, device, serial, 4)
  <2>1. \A k \in 1..12 : w[m + k] = u[k]
    <3>1. \A k \in 1..12 : m + k \in 1..m + 12
      BY <1>6
    <3> QED  BY <1>7, <1>8, <3>1
  <2>2. \A k \in 1..12 : u[0 + k] = u[k]
    OBVIOUS
  <2> QED  BY <1>3, <2>1, <2>2 DEF UartAfter
<1>11. \A i \in 1..KeyLen("winbond") : w[0 + i] = Index(port, Kind["winbond"].key[i])
  <2>1. 1 \in 1..m /\ 2 \in 1..m /\ 1 \in 1..m + 12 /\ 2 \in 1..m + 12
    BY <1>6
  <2>2. w[1] = Index(port, \h87) /\ w[2] = Index(port, \h87)
    BY <1>1, <1>5, <1>7, <1>8, <2>1
  <2>3. KeyLen("winbond") = 2 /\ Kind["winbond"].key[1] = \h87 /\ Kind["winbond"].key[2] = \h87
    BY KeyIs DEF KeyLen
  <2>4. \A i \in 1..2 : i = 1 \/ i = 2
    OBVIOUS
  <2> QED  BY <2>2, <2>3, <2>4
<1>12. m = 4 => w[3] = Index(port, \h24) /\ w[4] = Data(port, clock)
  <2> SUFFICES ASSUME m = 4 PROVE w[3] = Index(port, \h24) /\ w[4] = Data(port, clock)
    OBVIOUS
  <2>1. w[3] = abu[3] /\ w[4] = abu[4] /\ abu[3] = ab[3] /\ abu[4] = ab[4]
    BY <1>7, <1>8
  <2> QED  BY <1>2, <1>5, <1>6, <2>1
<1>13. Body(w, "winbond", port, device, serial, 0, m)
  BY <1>4, <1>6, <1>8, <1>10, <1>11, <1>12 DEF Body, KeyLen
<1> QED
  BY <1>6, <1>9, <1>13

LEMMA SmscIs ==
  ASSUME NEW device \in Nat
  PROVE  Body(Smsc(device), "smsc", \h2e, device, \h3f8, 0, 1)
<1> DEFINE a == pnp_enter_ext_func_mode_alt(\h2e)
           u == Uart(\h2e, device, \h3f8, 4)
           e == pnp_exit_ext_func_mode(\h2e)
           au == a \o u
           w == au \o e
<1>1. a \in Seq(StepType) /\ Len(a) = 1 /\ a[1] = Index(\h2e, \h55)
  <2>1. Index(\h2e, \h55) \in StepType
    BY StepTypes
  <2> QED  BY <2>1 DEF pnp_enter_ext_func_mode_alt
<1>2. /\ u \in Seq(StepType) /\ Len(u) = 12 /\ UartAfter(u, 0, \h2e, device, \h3f8, 4)
  BY UartIs
<1>3. e \in Seq(StepType) /\ Len(e) = 1 /\ e[1] = Index(\h2e, \haa)
  <2>1. Index(\h2e, \haa) \in StepType
    BY StepTypes
  <2> QED  BY <2>1 DEF pnp_exit_ext_func_mode
<1> HIDE DEF a, u, e
<1>4. /\ au \in Seq(StepType) /\ Len(au) = 13 /\ au[1] = a[1] /\ \A k \in 1..12 : au[1 + k] = u[k]
  <2>1. au \in Seq(StepType) /\ Longer(au, a, u)
    BY <1>1, <1>2, Behind
  <2> HIDE DEF au
  <2> QED  BY <1>1, <1>2, <2>1 DEF Longer
<1> HIDE DEF au
<1>5. /\ w \in Seq(StepType) /\ Len(w) = 14 /\ (\A k \in 1..13 : w[k] = au[k]) /\ w[14] = e[1]
  <2>1. w \in Seq(StepType) /\ Longer(w, au, e)
    BY <1>3, <1>4, Behind
  <2> HIDE DEF w
  <2> QED  BY <1>3, <1>4, <2>1 DEF Longer
<1>6. Smsc(device) = w
  BY DEF Smsc, a, u, e, au
<1> HIDE DEF w
<1>7. UartAfter(w, 1, \h2e, device, \h3f8, 4)
  <2>1. \A k \in 1..12 : w[1 + k] = u[k]
    BY <1>4, <1>5
  <2>2. \A k \in 1..12 : u[0 + k] = u[k]
    OBVIOUS
  <2> QED  BY <1>2, <2>1, <2>2 DEF UartAfter
<1>8. \A i \in 1..KeyLen("smsc") : w[0 + i] = Index(\h2e, Kind["smsc"].key[i])
  BY <1>1, <1>4, <1>5, KeyIs DEF KeyLen
<1>9. Body(w, "smsc", \h2e, device, \h3f8, 0, 1)
  BY <1>3, <1>5, <1>7, <1>8 DEF Body, KeyLen
<1> QED
  BY <1>6, <1>9

\* List s begins with list p.
BeginsWith(s, p) == \A i \in 1..Len(p) : s[i] = p[i]

\* The same behind a list of d other steps.
LEMMA Shifted ==
  ASSUME NEW kind \in {"winbond", "smsc"}, NEW port \in Nat, NEW device \in Nat, NEW serial \in Nat,
         NEW m \in Nat, NEW s, Body(s, kind, port, device, serial, 0, m),
         NEW p \in Seq(StepType)
  PROVE  /\ Body(p \o s, kind, port, device, serial, Len(p), m + Len(p))
         /\ BeginsWith(p \o s, p)
<1> DEFINE q == p \o s
           d == Len(p)
           n == m + d
           K == KeyLen(kind)
<1>1. d \in Nat /\ K \in {1, 2} /\ s \in Seq(StepType) /\ Len(s) = m + 13
  BY DEF Body, KeyLen
<1>2. q \in Seq(StepType) /\ Longer(q, p, s)
  BY <1>1, Behind
<1> HIDE DEF q, d, K
<1>3. Len(q) = n + 13
  BY <1>1, <1>2 DEF Longer, d
<1>4. (m = K \/ m = K + 2) /\ n \in {d + K, d + K + 2} /\ (n = d + K + 2 => m = K + 2)
  <2>1. m \in {0 + K, 0 + K + 2}
    BY DEF Body, K
  <2> QED  BY <1>1, <2>1
<1>5. \A i \in 1..m + 13 : q[d + i] = s[i]
  BY <1>1, <1>2 DEF Longer, d
<1>6. \A i \in 1..K : q[d + i] = Index(port, Kind[kind].key[i])
  <2> SUFFICES ASSUME NEW i \in 1..K PROVE q[d + i] = Index(port, Kind[kind].key[i])
    OBVIOUS
  <2>1. i \in 1..m + 13 /\ 0 + i = i
    BY <1>1, <1>4
  <2>2. s[0 + i] = Index(port, Kind[kind].key[i])
    BY DEF Body, K
  <2> QED  BY <1>5, <2>1, <2>2
<1>7. ASSUME n = d + K + 2
      PROVE  q[d + K + 1] = Index(port, \h24) /\ \E v \in Nat : q[n] = Data(port, v)
  <2>1. m = 0 + K + 2 /\ 0 + K + 1 = K + 1
    BY <1>1, <1>4, <1>7
  <2>2. s[K + 1] = Index(port, \h24) /\ \E v \in Nat : s[m] = Data(port, v)
    BY <2>1 DEF Body, K
  <2>3. K + 1 \in 1..m + 13 /\ m \in 1..m + 13 /\ d + (K + 1) = d + K + 1 /\ d + m = n
    BY <1>1, <2>1
  <2> QED  BY <1>5, <2>2, <2>3
<1>8. UartAfter(q, n, port, device, serial, 4) /\ q[n + 13] = Index(port, \haa)
  <2>1. \A i \in 1..13 : q[n + i] = s[m + i]
    <3> SUFFICES ASSUME NEW i \in 1..13 PROVE q[n + i] = s[m + i]
      OBVIOUS
    <3>1. m + i \in 1..m + 13 /\ d + (m + i) = n + i
      BY <1>1
    <3> QED  BY <1>5, <3>1
  <2>2. UartAfter(s, m, port, device, serial, 4) /\ s[m + 13] = Index(port, \haa)
    BY DEF Body
  <2>3. /\ q[n + 1] = s[m + 1] /\ q[n + 2] = s[m + 2] /\ q[n + 3] = s[m + 3] /\ q[n + 4] = s[m + 4]
        /\ q[n + 5] = s[m + 5] /\ q[n + 6] = s[m + 6] /\ q[n + 7] = s[m + 7] /\ q[n + 8] = s[m + 8]
        /\ q[n + 9] = s[m + 9] /\ q[n + 10] = s[m + 10] /\ q[n + 11] = s[m + 11]
        /\ q[n + 12] = s[m + 12] /\ q[n + 13] = s[m + 13]
    BY <2>1
  <2> QED  BY <2>2, <2>3 DEF UartAfter
<1>9. Body(q, kind, port, device, serial, d, n)
  BY <1>2, <1>3, <1>4, <1>6, <1>7, <1>8 DEF Body, K
<1>10. \A i \in 1..d : q[i] = p[i]
  BY <1>2 DEF Longer, d
<1> QED
  BY <1>9, <1>10 DEF q, d, BeginsWith

\* Board b has one chip of that kind, and its chipset_init is d steps of the
\* chipset, then the body.
Starts(b, kind, port, device, d, m) ==
  /\ b.serial \in Nat /\ b.superios = {SuperIO(port, kind, {device})}
  /\ Body(b.steps, kind, port, device, b.serial, d, m)
  /\ d \in 0..2 /\ (d > 0 <=> b.decodes)
  /\ d > 0 => \E bits \in Nat : port \in Forwarded(bits) /\ b.steps[1] = Decode(bits)
  /\ d = 2 => b.steps[2] = Wait

LEMMA InFront ==
  ASSUME NEW kind \in {"winbond", "smsc"}, NEW port \in Nat, NEW device \in Nat, NEW m0 \in Nat,
         NEW b, NEW s, b.serial \in Nat, b.superios = {SuperIO(port, kind, {device})},
         Body(s, kind, port, device, b.serial, 0, m0), Front(b, s, port)
  PROVE  \E d, m \in Nat : Starts(b, kind, port, device, d, m)
<1>1. CASE ~b.decodes /\ b.steps = s
  <2>1. Starts(b, kind, port, device, 0, m0)
    BY <1>1 DEF Starts
  <2> QED  BY <2>1
<1>2. CASE b.decodes
  <2>1. PICK bits \in Nat :
          /\ port \in Forwarded(bits)
          /\ b.steps = <<Decode(bits)>> \o s \/ b.steps = <<Decode(bits)>> \o <<Wait>> \o s
    BY <1>2 DEF Front
  <2>2. Decode(bits) \in StepType /\ Wait \in StepType
    BY StepTypes
  <2>3. CASE b.steps = <<Decode(bits)>> \o s
    <3> DEFINE p == <<Decode(bits)>>
    <3>1. p \in Seq(StepType) /\ Len(p) = 1 /\ p[1] = Decode(bits)
      BY <2>2
    <3>2. b.steps = p \o s
      BY <2>3
    <3> HIDE DEF p
    <3>3. Body(p \o s, kind, port, device, b.serial, Len(p), m0 + Len(p)) /\ (p \o s)[1] = p[1]
      <4>1. p \in Seq(StepType) /\ b.serial \in Nat /\ Body(s, kind, port, device, b.serial, 0, m0)
        BY <3>1
      <4>2. /\ Body(p \o s, kind, port, device, b.serial, Len(p), m0 + Len(p))
            /\ BeginsWith(p \o s, p)
        BY <4>1, Shifted
      <4>3. \A i \in 1..Len(p) : (p \o s)[i] = p[i]
        BY <4>2 DEF BeginsWith
      <4> QED  BY <3>1, <4>2, <4>3
    <3>4. Body(b.steps, kind, port, device, b.serial, 1, m0 + 1) /\ b.steps[1] = Decode(bits)
      BY <3>1, <3>2, <3>3
    <3>5. Starts(b, kind, port, device, 1, m0 + 1)
      BY <1>2, <2>1, <3>4 DEF Starts
    <3>6. 1 \in Nat /\ m0 + 1 \in Nat
      OBVIOUS
    <3> QED  BY <3>5, <3>6
  <2>4. CASE b.steps = <<Decode(bits)>> \o <<Wait>> \o s
    <3> DEFINE p == <<Decode(bits)>> \o <<Wait>>
    <3>1. p \in Seq(StepType) /\ Len(p) = 2 /\ p[1] = Decode(bits) /\ p[2] = Wait
      BY <2>2
    <3>2. b.steps = p \o s
      BY <2>4
    <3> HIDE DEF p
    <3>3. /\ Body(p \o s, kind, port, device, b.serial, Len(p), m0 + Len(p))
          /\ (p \o s)[1] = p[1] /\ (p \o s)[2] = p[2]
      <4>1. p \in Seq(StepType) /\ b.serial \in Nat /\ Body(s, kind, port, device, b.serial, 0, m0)
        BY <3>1
      <4>2. /\ Body(p \o s, kind, port, device, b.serial, Len(p), m0 + Len(p))
            /\ BeginsWith(p \o s, p)
        BY <4>1, Shifted
      <4>3. \A i \in 1..Len(p) : (p \o s)[i] = p[i]
        BY <4>2 DEF BeginsWith
      <4>4. 1 \in 1..Len(p) /\ 2 \in 1..Len(p)
        BY <3>1
      <4>5. (p \o s)[1] = p[1] /\ (p \o s)[2] = p[2]
        BY <4>3, <4>4
      <4> QED  BY <4>2, <4>5
    <3>4. /\ Body(b.steps, kind, port, device, b.serial, 2, m0 + 2)
          /\ b.steps[1] = Decode(bits) /\ b.steps[2] = Wait
      BY <3>1, <3>2, <3>3
    <3>5. Starts(b, kind, port, device, 2, m0 + 2)
      BY <1>2, <2>1, <3>4 DEF Starts
    <3>6. 2 \in Nat /\ m0 + 2 \in Nat
      OBVIOUS
    <3> QED  BY <3>5, <3>6
  <2> QED  BY <2>1, <2>3, <2>4
<1> QED
  BY <1>1, <1>2 DEF Front

LEMMA OneUartStarts ==
  ASSUME NEW b, OneUart(b)
  PROVE  \E kind \in {"winbond", "smsc"}, port, d, m \in Nat, device \in Nat \ {Global} :
           Starts(b, kind, port, device, d, m)
<1>1. CASE OneWinbond(b)
  <2>1. PICK port \in Nat, clock \in Nat, device \in Nat \ {Global} :
          /\ b.serial \in Nat /\ b.superios = {SuperIO(port, "winbond", {device})}
          /\ Front(b, Winbond(port, clock, device, b.serial), port)
    BY <1>1 DEF OneWinbond
  <2>2. PICK m0 \in Nat :
          Body(Winbond(port, clock, device, b.serial), "winbond", port, device, b.serial, 0, m0)
    BY <2>1, WinbondIs
  <2>3. \E d, m \in Nat : Starts(b, "winbond", port, device, d, m)
    BY <2>1, <2>2, InFront
  <2> QED  BY <2>3
<1>2. CASE OneSmsc(b)
  <2>1. PICK device \in Nat \ {Global} :
          /\ b.serial = \h3f8 /\ b.superios = {SuperIO(\h2e, "smsc", {device})}
          /\ Front(b, Smsc(device), \h2e)
    BY <1>2 DEF OneSmsc
  <2>2. Body(Smsc(device), "smsc", \h2e, device, b.serial, 0, 1)
    BY <2>1, SmscIs
  <2>3. \E d, m \in Nat : Starts(b, "smsc", \h2e, device, d, m)
    BY <2>1, <2>2, InFront
  <2> QED  BY <2>3
<1> QED
  BY <1>1, <1>2 DEF OneUart

-----------------------------------------------------------------------------
(* The chip.                                                               *)

\* Chip c is of that kind and has registers for that device.
ChipType(kind, device) ==
  [kind : {kind}, open : BOOLEAN, progress : {<<>>, <<\h87>>}, index : Nat, ldn : Nat,
   regs : [{device} \X DeviceRegs -> Nat]]

\* Lists of one and of two.
LEMMA OneByte ==
  ASSUME NEW a \in Nat, NEW s \in Seq(Nat), Len(s) = 1, s[1] = a
  PROVE  s = <<a>>
<1>1. <<a>> \in Seq(Nat) /\ Len(s) = Len(<<a>>) /\ \A i \in 1..Len(s) : s[i] = <<a>>[i]
  OBVIOUS
<1> QED
  BY <1>1, SeqEqual

LEMMA TwoBytes ==
  ASSUME NEW a \in Nat, NEW b \in Nat, NEW s \in Seq(Nat), Len(s) = 2, s[1] = a, s[2] = b
  PROVE  s = <<a, b>>
<1>1. <<a, b>> \in Seq(Nat) /\ Len(s) = Len(<<a, b>>)
  OBVIOUS
<1>2. \A i \in 1..Len(s) : s[i] = <<a, b>>[i]
  OBVIOUS
<1> QED
  BY <1>1, <1>2, SeqEqual

LEMMA Taken ==
  /\ \A a \in Nat : Append(<<>>, a) = <<a>> /\ SubSeq(<<a>>, 1, 1) = <<a>>
  /\ \A a, b \in Nat : /\ Append(<<a>>, b) = <<a, b>> /\ SubSeq(<<a, b>>, 1, 1) = <<a>>
                       /\ SubSeq(<<a, b>>, 1, 2) = <<a, b>>
<1>1. SUFFICES ASSUME NEW a \in Nat, NEW b \in Nat
      PROVE  /\ Append(<<>>, a) = <<a>> /\ SubSeq(<<a>>, 1, 1) = <<a>>
             /\ Append(<<a>>, b) = <<a, b>> /\ SubSeq(<<a, b>>, 1, 1) = <<a>>
             /\ SubSeq(<<a, b>>, 1, 2) = <<a, b>>
  OBVIOUS
<1>2. Append(<<>>, a) \in Seq(Nat) /\ Len(Append(<<>>, a)) = 1 /\ Append(<<>>, a)[1] = a
  OBVIOUS
<1>3. SubSeq(<<a>>, 1, 1) \in Seq(Nat) /\ Len(SubSeq(<<a>>, 1, 1)) = 1 /\ SubSeq(<<a>>, 1, 1)[1] = a
  OBVIOUS
<1>4. /\ Append(<<a>>, b) \in Seq(Nat) /\ Len(Append(<<a>>, b)) = 2
      /\ Append(<<a>>, b)[1] = a /\ Append(<<a>>, b)[2] = b
  OBVIOUS
<1>5. /\ SubSeq(<<a, b>>, 1, 1) \in Seq(Nat) /\ Len(SubSeq(<<a, b>>, 1, 1)) = 1
      /\ SubSeq(<<a, b>>, 1, 1)[1] = a
  OBVIOUS
<1>6. /\ SubSeq(<<a, b>>, 1, 2) \in Seq(Nat) /\ Len(SubSeq(<<a, b>>, 1, 2)) = 2
      /\ SubSeq(<<a, b>>, 1, 2)[1] = a /\ SubSeq(<<a, b>>, 1, 2)[2] = b
  OBVIOUS
<1>7. Append(<<>>, a) = <<a>>
  BY <1>2, OneByte
<1>8. SubSeq(<<a>>, 1, 1) = <<a>>
  BY <1>3, OneByte
<1>9. SubSeq(<<a, b>>, 1, 1) = <<a>>
  BY <1>5, OneByte
<1>10. Append(<<a>>, b) = <<a, b>>
  BY <1>4, TwoBytes
<1>11. SubSeq(<<a, b>>, 1, 2) = <<a, b>>
  BY <1>6, TwoBytes
<1> QED
  BY <1>7, <1>8, <1>9, <1>10, <1>11

\* The keys, taken byte by byte.
LEMMA Bytes ==
  /\ Append(<<>>, \h87) = <<\h87>> /\ Append(<<\h87>>, \h87) = <<\h87, \h87>>
  /\ Append(<<>>, \h55) = <<\h55>>
  /\ Progress(<<\h87, \h87>>, <<\h87>>) = <<\h87>>
  /\ Progress(<<\h87, \h87>>, <<\h87, \h87>>) = <<\h87, \h87>>
  /\ Progress(<<\h55>>, <<\h55>>) = <<\h55>>
  /\ <<\h87>> # <<\h87, \h87>>
<1>1. /\ Append(<<>>, \h87) = <<\h87>> /\ Append(<<\h87>>, \h87) = <<\h87, \h87>>
      /\ Append(<<>>, \h55) = <<\h55>>
  BY Taken
<1>2. /\ SubSeq(<<\h87, \h87>>, 1, 1) = <<\h87>> /\ SubSeq(<<\h87, \h87>>, 1, 2) = <<\h87, \h87>>
      /\ SubSeq(<<\h55>>, 1, 1) = <<\h55>>
  BY Taken
<1>5. <<\h87>> # <<\h87, \h87>>
  OBVIOUS
<1>6. Len(<<\h87>>) = 1 /\ Len(<<\h87, \h87>>) = 2 /\ Len(<<\h55>>) = 1
  OBVIOUS
<1> QED
  BY <1>1, <1>2, <1>5, <1>6 DEF Progress

\* An index written to an open chip: neither of these is what closes it.
LEMMA Indexed ==
  ASSUME NEW kind \in {"winbond", "smsc"}, NEW device, NEW c \in ChipType(kind, device),
         NEW v \in Nat \ {\haa}, c.open
  PROVE  /\ IndexWritten(c, v) = [c EXCEPT !.index = v]
         /\ [c EXCEPT !.index = v] \in ChipType(kind, device)
<1>1. Kind[c.kind].leave = {\haa}
  BY KeyIs DEF ChipType
<1> QED
  BY <1>1 DEF IndexWritten, ChipType

LEMMA IndexedFields ==
  ASSUME NEW kind \in {"winbond", "smsc"}, NEW device, NEW c \in ChipType(kind, device),
         NEW v \in Nat \ {\haa}, c.open
  PROVE  LET e == IndexWritten(c, v)
         IN  e \in ChipType(kind, device) /\ e.open /\ e.index = v /\ e.ldn = c.ldn /\ e.regs = c.regs
<1> DEFINE e == [c EXCEPT !.index = v]
<1>1. e \in ChipType(kind, device) /\ IndexWritten(c, v) = e
  BY Indexed
<1>2. e.open = c.open /\ e.index = v /\ e.ldn = c.ldn /\ e.regs = c.regs
  BY DEF ChipType
<1> HIDE DEF e
<1> QED
  BY <1>1, <1>2

LEMMA LeaveTaken ==
  ASSUME NEW kind \in {"winbond", "smsc"}, NEW device, NEW c \in ChipType(kind, device), c.open
  PROVE  /\ IndexWritten(c, \haa) \in ChipType(kind, device) /\ ~IndexWritten(c, \haa).open
         /\ IndexWritten(c, \haa).ldn = c.ldn /\ IndexWritten(c, \haa).regs = c.regs
<1> DEFINE e == [c EXCEPT !.open = FALSE]
<1>1. Kind[c.kind].leave = {\haa}
  BY KeyIs DEF ChipType
<1>2. IndexWritten(c, \haa) = e
  BY <1>1 DEF IndexWritten
<1>3. e \in ChipType(kind, device)
  BY DEF ChipType
<1>4. ~e.open /\ e.ldn = c.ldn /\ e.regs = c.regs
  BY DEF ChipType
<1> HIDE DEF e
<1>5. IndexWritten(c, \haa) \in ChipType(kind, device)
  BY <1>2, <1>3
<1>6. ~IndexWritten(c, \haa).open
  BY <1>2, <1>4
<1>7. IndexWritten(c, \haa).ldn = c.ldn /\ IndexWritten(c, \haa).regs = c.regs
  BY <1>2, <1>4
<1> QED
  BY <1>5, <1>6, <1>7

\* A byte of the key changes no register; the last one leaves the chip open,
\* whether it was open before or not.
LEMMA WinbondKey ==
  ASSUME NEW device, NEW c \in ChipType("winbond", device)
  PROVE  /\ IndexWritten(c, \h87) \in ChipType("winbond", device)
         /\ IndexWritten(c, \h87).regs = c.regs
         /\ c.progress = <<>> => IndexWritten(c, \h87).open \/ IndexWritten(c, \h87).progress = <<\h87>>
         /\ c.open \/ c.progress = <<\h87>> => IndexWritten(c, \h87).open
<1>1. Kind[c.kind].leave = {\haa} /\ Kind[c.kind].key = <<\h87, \h87>>
  BY KeyIs DEF ChipType
<1>2. CASE c.open
  <2>1. /\ IndexWritten(c, \h87) = [c EXCEPT !.index = \h87]
        /\ [c EXCEPT !.index = \h87] \in ChipType("winbond", device)
    BY <1>2, Indexed
  <2>2. [c EXCEPT !.index = \h87].open /\ [c EXCEPT !.index = \h87].regs = c.regs
    BY <1>2 DEF ChipType
  <2> QED  BY <1>2, <2>1, <2>2
<1>3. CASE ~c.open /\ c.progress = <<>>
  <2>1. Progress(Kind[c.kind].key, Append(c.progress, \h87)) = <<\h87>>
    BY <1>1, <1>3, Bytes
  <2>2. <<\h87>> # Kind[c.kind].key
    BY <1>1, Bytes
  <2>3. IndexWritten(c, \h87) = [c EXCEPT !.progress = <<\h87>>]
    BY <1>3, <2>1, <2>2 DEF IndexWritten
  <2>4. /\ [c EXCEPT !.progress = <<\h87>>] \in ChipType("winbond", device)
        /\ [c EXCEPT !.progress = <<\h87>>].regs = c.regs
        /\ [c EXCEPT !.progress = <<\h87>>].progress = <<\h87>>
    BY DEF ChipType
  <2>5. <<>> # <<\h87>>
    OBVIOUS
  <2> QED  BY <1>3, <2>3, <2>4, <2>5
<1>4. CASE ~c.open /\ c.progress = <<\h87>>
  <2>1. Progress(Kind[c.kind].key, Append(c.progress, \h87)) = Kind[c.kind].key
    BY <1>1, <1>4, Bytes
  <2>2. IndexWritten(c, \h87) = [c EXCEPT !.open = TRUE, !.progress = <<>>]
    BY <1>4, <2>1 DEF IndexWritten
  <2>3. /\ [c EXCEPT !.open = TRUE, !.progress = <<>>] \in ChipType("winbond", device)
        /\ [c EXCEPT !.open = TRUE, !.progress = <<>>].regs = c.regs
        /\ [c EXCEPT !.open = TRUE, !.progress = <<>>].open
    BY DEF ChipType
  <2> QED  BY <2>2, <2>3
<1>5. c.progress = <<>> \/ c.progress = <<\h87>>
  BY DEF ChipType
<1> QED
  BY <1>2, <1>3, <1>4, <1>5

LEMMA SmscKey ==
  ASSUME NEW device, NEW c \in ChipType("smsc", device), c.progress = <<>>
  PROVE  /\ IndexWritten(c, \h55) \in ChipType("smsc", device)
         /\ IndexWritten(c, \h55).regs = c.regs /\ IndexWritten(c, \h55).open
<1>1. Kind[c.kind].leave = {\haa} /\ Kind[c.kind].key = <<\h55>>
  BY KeyIs DEF ChipType
<1>2. CASE c.open
  <2>1. /\ IndexWritten(c, \h55) = [c EXCEPT !.index = \h55]
        /\ [c EXCEPT !.index = \h55] \in ChipType("smsc", device)
    BY <1>2, Indexed
  <2>2. [c EXCEPT !.index = \h55].open /\ [c EXCEPT !.index = \h55].regs = c.regs
    BY <1>2 DEF ChipType
  <2> QED  BY <2>1, <2>2
<1>3. CASE ~c.open
  <2>1. Progress(Kind[c.kind].key, Append(c.progress, \h55)) = Kind[c.kind].key
    BY <1>1, Bytes
  <2>2. IndexWritten(c, \h55) = [c EXCEPT !.open = TRUE, !.progress = <<>>]
    BY <1>3, <2>1 DEF IndexWritten
  <2>3. /\ [c EXCEPT !.open = TRUE, !.progress = <<>>] \in ChipType("smsc", device)
        /\ [c EXCEPT !.open = TRUE, !.progress = <<>>].regs = c.regs
        /\ [c EXCEPT !.open = TRUE, !.progress = <<>>].open
    BY DEF ChipType
  <2> QED  BY <2>2, <2>3
<1> QED
  BY <1>2, <1>3

\* Data written to an open chip: to register 7 it selects a device, to one
\* of the selected device it changes that, to another it does nothing here.
LEMMA Selected ==
  ASSUME NEW kind \in {"winbond", "smsc"}, NEW device, NEW c \in ChipType(kind, device),
         NEW v \in Nat, c.open, c.index = 7
  PROVE  LET e == DataWritten(c, v)
         IN  e \in ChipType(kind, device) /\ e.open /\ e.ldn = v /\ e.regs = c.regs
<1> DEFINE e == [c EXCEPT !.ldn = v]
<1>1. DataWritten(c, v) = e
  BY DEF DataWritten, ChipType
<1>2. e \in ChipType(kind, device) /\ e.open = c.open /\ e.ldn = v /\ e.regs = c.regs
  BY DEF ChipType
<1> HIDE DEF e
<1> QED
  BY <1>1, <1>2

LEMMA Changed ==
  ASSUME NEW kind \in {"winbond", "smsc"}, NEW device, NEW c \in ChipType(kind, device),
         NEW v \in Nat, c.open, c.index \in DeviceRegs, c.ldn = device
  PROVE  LET e == DataWritten(c, v)
         IN  /\ e \in ChipType(kind, device) /\ e.open /\ e.ldn = device
             /\ e.regs[<<device, c.index>>] = v
             /\ \A r \in DeviceRegs \ {c.index} : e.regs[<<device, r>>] = c.regs[<<device, r>>]
<1> DEFINE x == <<device, c.index>>
           f == [c.regs EXCEPT ![x] = v]
           e == [c EXCEPT !.regs = f]
<1>1. c.kind # "legacy" /\ c.index # 7 /\ ~(c.index < \h30) /\ ~Closes(c, v)
  BY DEF ChipType, DeviceRegs, Closes
<1>2. Target(c) = x
  BY <1>1 DEF Target
<1>3. DOMAIN c.regs = {device} \X DeviceRegs /\ x \in {device} \X DeviceRegs /\ c.regs \in [{device} \X DeviceRegs -> Nat]
  BY DEF ChipType
<1>4. DataWritten(c, v) = e
  BY <1>1, <1>2, <1>3 DEF DataWritten
<1>5. f \in [{device} \X DeviceRegs -> Nat] /\ f[x] = v
  BY <1>3
<1>6. \A r \in DeviceRegs \ {c.index} : f[<<device, r>>] = c.regs[<<device, r>>]
  <2> SUFFICES ASSUME NEW r \in DeviceRegs \ {c.index} PROVE f[<<device, r>>] = c.regs[<<device, r>>]
    OBVIOUS
  <2>1. <<device, r>> \in {device} \X DeviceRegs /\ <<device, r>> # x
    OBVIOUS
  <2> QED  BY <1>3, <2>1
<1> HIDE DEF x, f
<1>7. e \in ChipType(kind, device) /\ e.open = c.open /\ e.ldn = c.ldn /\ e.regs = f
  BY <1>5 DEF ChipType
<1> HIDE DEF e
<1> QED
  BY <1>4, <1>5, <1>6, <1>7 DEF x

LEMMA Elsewhere ==
  ASSUME NEW kind \in {"winbond", "smsc"}, NEW device, NEW c \in ChipType(kind, device),
         NEW v \in Nat, c.open, c.index = \h24 \/ c.index = \h70
  PROVE  DataWritten(c, v) = c
<1>1. c.kind # "legacy" /\ c.index # 7 /\ ~Closes(c, v)
  BY DEF ChipType, Closes
<1>2. Target(c) \notin {device} \X DeviceRegs
  BY DEF Target, DeviceRegs
<1>3. DOMAIN c.regs = {device} \X DeviceRegs
  BY DEF ChipType
<1> QED
  BY <1>1, <1>2, <1>3 DEF DataWritten

-----------------------------------------------------------------------------
(* What is true of the chip after the first k steps.                       *)

\* Until the key begins a closed chip has seen nothing of it; from the end of
\* the key to the last step but one the chip is open, then it is closed.
Openness(c, K, d, m, k) ==
  /\ k <= d => c.progress = <<>>
  /\ K = 2 /\ k = d + 1 => c.open \/ c.progress = <<\h87>>
  /\ d + K <= k /\ k <= m + 12 => c.open
  /\ k = m + 13 => ~c.open

\* Index and device are those that were written last.
Selection(c, device, K, d, m, k) ==
  /\ m = d + K + 2 /\ k = d + K + 1 => c.index = \h24
  /\ k = m + 1 => c.index = 7
  /\ k = m + 3 \/ k = m + 11 => c.index = \h30
  /\ k = m + 5 => c.index = \h60
  /\ k = m + 7 => c.index = \h61
  /\ k = m + 9 => c.index = \h70
  /\ k >= m + 2 => c.ldn = device

\* The UART is off while its base changes.
Contents(c, device, serial, m, k) ==
  /\ m + 4 <= k /\ k <= m + 11 => c.regs[<<device, \h30>>] = 0
  /\ k >= m + 6 => c.regs[<<device, \h60>>] = serial \div 256
  /\ k >= m + 8 => c.regs[<<device, \h61>>] = serial % 256
  /\ k >= m + 12 => c.regs[<<device, \h30>>] = 1

Has(c, device, serial, K, d, m, k) ==
  /\ Openness(c, K, d, m, k) /\ Selection(c, device, K, d, m, k)
  /\ Contents(c, device, serial, m, k)

\* What a step makes of a chip.
Obeyed(c, step) ==
  IF step.op = "index" THEN IndexWritten(c, step.val) ELSE DataWritten(c, step.val)

\* The base of c moves at most while it is off.
SameBase(c, e, device) ==
  /\ e.regs[<<device, \h60>>] = c.regs[<<device, \h60>>]
  /\ e.regs[<<device, \h61>>] = c.regs[<<device, \h61>>]

Fine(c, e, step, kind, port, device, serial, d, m, k) ==
  /\ e \in ChipType(kind, device) /\ Has(e, device, serial, KeyLen(kind), d, m, k + 1)
  /\ step.port = port /\ step.op \in {"index", "data"} /\ (step.op = "data" => c.open)
  /\ c.regs[<<device, \h30>>] = 0 \/ SameBase(c, e, device)

LEMMA StepIs ==
  ASSUME NEW port, NEW v
  PROVE  /\ Index(port, v).op = "index" /\ Index(port, v).port = port /\ Index(port, v).val = v
         /\ Data(port, v).op = "data" /\ Data(port, v).port = port /\ Data(port, v).val = v
BY DEF Index, Data, Step

\* The key.
LEMMA KeyStep ==
  ASSUME NEW kind \in {"winbond", "smsc"}, NEW port \in Nat, NEW device \in Nat, NEW serial \in Nat,
         NEW d \in Nat, NEW m \in Nat, NEW k \in Nat, NEW s,
         Body(s, kind, port, device, serial, d, m), d <= k, k < d + KeyLen(kind),
         NEW c \in ChipType(kind, device), Has(c, device, serial, KeyLen(kind), d, m, k)
  PROVE  Fine(c, Obeyed(c, s[k + 1]), s[k + 1], kind, port, device, serial, d, m, k)
<1> DEFINE K == KeyLen(kind)
           b == Kind[kind].key[k + 1 - d]
           e == IndexWritten(c, b)
<1>1. s[k + 1] = Index(port, b)
  <2>1. \A i \in 1..K : s[d + i] = Index(port, Kind[kind].key[i])
    BY DEF Body
  <2>2. K \in {1, 2}
    BY DEF KeyLen
  <2> HIDE DEF K
  <2>3. k + 1 - d \in 1..K /\ d + (k + 1 - d) = k + 1
    BY <2>2 DEF K
  <2> QED  BY <2>1, <2>3
<1>2. Obeyed(c, s[k + 1]) = e /\ s[k + 1].port = port /\ s[k + 1].op = "index"
  BY <1>1, StepIs DEF Obeyed
<1>3. m >= d + K
  BY DEF Body, KeyLen
<1>4. /\ e \in ChipType(kind, device) /\ e.regs = c.regs
      /\ K = 2 /\ k = d => e.open \/ e.progress = <<\h87>>
      /\ k + 1 = d + K => e.open
  <2>1. CASE kind = "winbond"
    <3>1. K = 2 /\ (k = d \/ k = d + 1)
      BY <2>1 DEF KeyLen
    <3>2. b = \h87
      <4>1. k + 1 - d = 1 \/ k + 1 - d = 2
        BY <3>1
      <4>2. Kind[kind].key[1] = \h87 /\ Kind[kind].key[2] = \h87
        BY <2>1, KeyIs
      <4> QED  BY <4>1, <4>2
    <3> HIDE DEF b, K
    <3>3. /\ e \in ChipType("winbond", device) /\ e.regs = c.regs
          /\ c.progress = <<>> => e.open \/ e.progress = <<\h87>>
          /\ c.open \/ c.progress = <<\h87>> => e.open
      BY <2>1, <3>2, WinbondKey
    <3>4. k = d => c.progress = <<>>
      BY DEF Has, Openness
    <3>5. k = d + 1 => c.open \/ c.progress = <<\h87>>
      BY <3>1 DEF Has, Openness, K
    <3> HIDE DEF e
    <3> QED  BY <2>1, <3>1, <3>3, <3>4, <3>5
  <2>2. CASE kind = "smsc"
    <3>1. K = 1 /\ k = d
      BY <2>2 DEF KeyLen
    <3>2. b = \h55
      <4>1. k + 1 - d = 1
        BY <3>1
      <4>2. Kind[kind].key[1] = \h55
        BY <2>2, KeyIs
      <4> QED  BY <4>1, <4>2
    <3>3. c.progress = <<>>
      BY <3>1 DEF Has, Openness
    <3> HIDE DEF b, K
    <3>4. e \in ChipType("smsc", device) /\ e.regs = c.regs /\ e.open
      BY <2>2, <3>2, <3>3, SmscKey
    <3> HIDE DEF e
    <3> QED  BY <2>2, <3>1, <3>4
  <2> QED  BY <2>1, <2>2
<1>5. k + 1 > d /\ k + 1 <= m /\ K \in {1, 2} /\ k + 1 <= d + K
  BY <1>3 DEF KeyLen
<1> HIDE DEF b, e, K
<1>6. Openness(e, K, d, m, k + 1)
  BY <1>3, <1>4, <1>5 DEF Openness
<1>7. Selection(e, device, K, d, m, k + 1) /\ Contents(e, device, serial, m, k + 1)
  BY <1>5 DEF Selection, Contents
<1>8. SameBase(c, e, device)
  BY <1>4 DEF SameBase
<1> QED
  BY <1>2, <1>4, <1>6, <1>7, <1>8 DEF Fine, Has, K

\* What an index written in the body, neither key nor the last step, does.
LEMMA IndexStep ==
  ASSUME NEW kind \in {"winbond", "smsc"}, NEW port \in Nat, NEW device \in Nat, NEW serial \in Nat,
         NEW d \in Nat, NEW m \in Nat, NEW k \in Nat, NEW s,
         Body(s, kind, port, device, serial, d, m),
         NEW c \in ChipType(kind, device), Has(c, device, serial, KeyLen(kind), d, m, k),
         NEW v \in Nat, s[k + 1] = Index(port, v),
         \/ m = d + KeyLen(kind) + 2 /\ k = d + KeyLen(kind) /\ v = \h24
         \/ k = m /\ v = 7
         \/ k = m + 2 /\ v = \h30
         \/ k = m + 4 /\ v = \h60
         \/ k = m + 6 /\ v = \h61
         \/ k = m + 8 /\ v = \h70
         \/ k = m + 10 /\ v = \h30
  PROVE  Fine(c, Obeyed(c, s[k + 1]), s[k + 1], kind, port, device, serial, d, m, k)
<1> DEFINE K == KeyLen(kind)
           e == IndexWritten(c, v)
<1>1. K \in {1, 2} /\ (m = d + K \/ m = d + K + 2)
  BY DEF KeyLen, Body
<1>2. Obeyed(c, s[k + 1]) = e /\ s[k + 1].port = port /\ s[k + 1].op = "index"
  BY StepIs DEF Obeyed
<1>0. d + K <= k /\ k <= m + 11
  BY <1>1
<1>3. c.open /\ Selection(c, device, K, d, m, k) /\ Contents(c, device, serial, m, k)
  <2>1. Openness(c, K, d, m, k) /\ Selection(c, device, K, d, m, k) /\ Contents(c, device, serial, m, k)
    BY DEF Has
  <2> HIDE DEF K
  <2>2. k <= m + 12
    BY <1>0
  <2>3. c.open
    BY <1>0, <2>1, <2>2 DEF Openness
  <2> QED  BY <2>1, <2>3
<1>4. v # \haa
  OBVIOUS
<1>5. e \in ChipType(kind, device) /\ e.open /\ e.index = v /\ e.ldn = c.ldn /\ e.regs = c.regs
  BY <1>3, <1>4, IndexedFields
<1> HIDE DEF e, K
<1>6. Openness(e, K, d, m, k + 1)
  <2>1. k + 1 > d /\ k + 1 # d + 1 /\ k + 1 # m + 13
    BY <1>0, <1>1
  <2> QED  BY <1>5, <2>1 DEF Openness
<1>7. Selection(e, device, K, d, m, k + 1)
  BY <1>1, <1>3, <1>5 DEF Selection, K
<1>8. Contents(e, device, serial, m, k + 1)
  BY <1>1, <1>3, <1>5 DEF Contents, K
<1>9. SameBase(c, e, device)
  BY <1>5 DEF SameBase
<1> QED
  BY <1>2, <1>5, <1>6, <1>7, <1>8, <1>9 DEF Fine, Has, K

\* The last step.
LEMMA LastStep ==
  ASSUME NEW kind \in {"winbond", "smsc"}, NEW port \in Nat, NEW device \in Nat, NEW serial \in Nat,
         NEW d \in Nat, NEW m \in Nat, NEW s,
         Body(s, kind, port, device, serial, d, m),
         NEW c \in ChipType(kind, device), Has(c, device, serial, KeyLen(kind), d, m, m + 12)
  PROVE  Fine(c, Obeyed(c, s[m + 12 + 1]), s[m + 12 + 1], kind, port, device, serial, d, m, m + 12)
<1> DEFINE K == KeyLen(kind)
           e == IndexWritten(c, \haa)
<1>1. K \in {1, 2} /\ (m = d + K \/ m = d + K + 2)
  BY DEF KeyLen, Body
<1>2. m + 12 + 1 = m + 13
  OBVIOUS
<1>3. s[m + 12 + 1] = Index(port, \haa)
  BY <1>2 DEF Body
<1>4. Obeyed(c, s[m + 12 + 1]) = e /\ s[m + 12 + 1].port = port /\ s[m + 12 + 1].op = "index"
  BY <1>3, StepIs DEF Obeyed
<1>5. c.open /\ Selection(c, device, K, d, m, m + 12) /\ Contents(c, device, serial, m, m + 12)
  <2>1. d + K <= m + 12 /\ m + 12 <= m + 12
    BY <1>1
  <2>2. /\ Openness(c, K, d, m, m + 12) /\ Selection(c, device, K, d, m, m + 12)
        /\ Contents(c, device, serial, m, m + 12)
    BY DEF Has
  <2> HIDE DEF K
  <2>3. c.open
    BY <2>1, <2>2 DEF Openness
  <2> QED  BY <2>2, <2>3
<1>6. e \in ChipType(kind, device) /\ ~e.open /\ e.ldn = c.ldn /\ e.regs = c.regs
  <2>1. c.open
    BY <1>5
  <2>2. /\ IndexWritten(c, \haa) \in ChipType(kind, device) /\ ~IndexWritten(c, \haa).open
        /\ IndexWritten(c, \haa).ldn = c.ldn /\ IndexWritten(c, \haa).regs = c.regs
    BY <2>1, LeaveTaken
  <2> QED  BY <2>2
<1> HIDE DEF e, K
<1>7. Openness(e, K, d, m, m + 12 + 1)
  BY <1>1, <1>6 DEF Openness
<1>8. Selection(e, device, K, d, m, m + 12 + 1)
  BY <1>1, <1>5, <1>6 DEF Selection
<1>9. Contents(e, device, serial, m, m + 12 + 1)
  BY <1>5, <1>6 DEF Contents
<1>10. SameBase(c, e, device)
  BY <1>6 DEF SameBase
<1> QED
  BY <1>4, <1>6, <1>7, <1>8, <1>9, <1>10 DEF Fine, Has, K

\* The data that chooses the clock, or the interrupt: nothing that matters here.
LEMMA IdleData ==
  ASSUME NEW kind \in {"winbond", "smsc"}, NEW port \in Nat, NEW device \in Nat, NEW serial \in Nat,
         NEW d \in Nat, NEW m \in Nat, NEW k \in Nat, NEW s,
         Body(s, kind, port, device, serial, d, m),
         NEW c \in ChipType(kind, device), Has(c, device, serial, KeyLen(kind), d, m, k),
         NEW v \in Nat, s[k + 1] = Data(port, v),
         (m = d + KeyLen(kind) + 2 /\ k = d + KeyLen(kind) + 1) \/ k = m + 9
  PROVE  Fine(c, Obeyed(c, s[k + 1]), s[k + 1], kind, port, device, serial, d, m, k)
<1> DEFINE K == KeyLen(kind)
<1>1. K \in {1, 2} /\ (m = d + K \/ m = d + K + 2)
  BY DEF KeyLen, Body
<1>2. Obeyed(c, s[k + 1]) = DataWritten(c, v) /\ s[k + 1].port = port /\ s[k + 1].op = "data"
  BY StepIs DEF Obeyed
<1>0. d + K <= k /\ k <= m + 11
  BY <1>1
<1>3. c.open /\ Selection(c, device, K, d, m, k) /\ Contents(c, device, serial, m, k)
  <2>1. Openness(c, K, d, m, k) /\ Selection(c, device, K, d, m, k) /\ Contents(c, device, serial, m, k)
    BY DEF Has
  <2> HIDE DEF K
  <2>2. k <= m + 12
    BY <1>0
  <2>3. c.open
    BY <1>0, <2>1, <2>2 DEF Openness
  <2> QED  BY <2>1, <2>3
<1>4. c.index = \h24 \/ c.index = \h70
  BY <1>3 DEF Selection
<1>5. DataWritten(c, v) = c
  BY <1>3, <1>4, Elsewhere
<1> HIDE DEF K
<1>6. Openness(c, K, d, m, k + 1)
  <2>1. k + 1 > d /\ k + 1 # d + 1 /\ k + 1 # m + 13
    BY <1>0, <1>1
  <2> QED  BY <1>3, <2>1 DEF Openness
<1>7. Selection(c, device, K, d, m, k + 1)
  BY <1>1, <1>3 DEF Selection, K
<1>8. Contents(c, device, serial, m, k + 1)
  BY <1>1, <1>3 DEF Contents, K
<1>9. SameBase(c, c, device)
  BY DEF SameBase
<1> QED
  BY <1>2, <1>3, <1>5, <1>6, <1>7, <1>8, <1>9 DEF Fine, Has, K

\* The device is selected.
LEMMA DeviceData ==
  ASSUME NEW kind \in {"winbond", "smsc"}, NEW port \in Nat, NEW device \in Nat, NEW serial \in Nat,
         NEW d \in Nat, NEW m \in Nat, NEW s,
         Body(s, kind, port, device, serial, d, m),
         NEW c \in ChipType(kind, device), Has(c, device, serial, KeyLen(kind), d, m, m + 1)
  PROVE  Fine(c, Obeyed(c, s[m + 1 + 1]), s[m + 1 + 1], kind, port, device, serial, d, m, m + 1)
<1> DEFINE K == KeyLen(kind)
           e == DataWritten(c, device)
<1>1. K \in {1, 2} /\ (m = d + K \/ m = d + K + 2)
  BY DEF KeyLen, Body
<1>2. m + 1 + 1 = m + 2
  OBVIOUS
<1>3. s[m + 1 + 1] = Data(port, device)
  BY <1>2 DEF Body, UartAfter
<1>4. Obeyed(c, s[m + 1 + 1]) = e /\ s[m + 1 + 1].port = port /\ s[m + 1 + 1].op = "data"
  BY <1>3, StepIs DEF Obeyed
<1>5. c.open /\ c.index = 7
  BY <1>1 DEF Has, Openness, Selection
<1>6. e \in ChipType(kind, device) /\ e.open /\ e.ldn = device /\ e.regs = c.regs
  BY <1>5, Selected
<1> HIDE DEF e, K
<1>7. Openness(e, K, d, m, m + 1 + 1)
  BY <1>1, <1>6 DEF Openness
<1>8. Selection(e, device, K, d, m, m + 1 + 1)
  BY <1>1, <1>6 DEF Selection
<1>9. Contents(e, device, serial, m, m + 1 + 1)
  BY DEF Contents
<1>10. SameBase(c, e, device)
  BY <1>6 DEF SameBase
<1> QED
  BY <1>4, <1>5, <1>6, <1>7, <1>8, <1>9, <1>10 DEF Fine, Has, K

\* A register of the UART is written.
LEMMA RegisterData ==
  ASSUME NEW kind \in {"winbond", "smsc"}, NEW port \in Nat, NEW device \in Nat, NEW serial \in Nat,
         NEW d \in Nat, NEW m \in Nat, NEW k \in Nat, NEW s,
         Body(s, kind, port, device, serial, d, m),
         NEW c \in ChipType(kind, device), Has(c, device, serial, KeyLen(kind), d, m, k),
         NEW v \in Nat, s[k + 1] = Data(port, v),
         \/ k = m + 3 /\ v = 0
         \/ k = m + 5 /\ v = serial \div 256
         \/ k = m + 7 /\ v = serial % 256
         \/ k = m + 11 /\ v = 1
  PROVE  Fine(c, Obeyed(c, s[k + 1]), s[k + 1], kind, port, device, serial, d, m, k)
<1> DEFINE K == KeyLen(kind)
           e == DataWritten(c, v)
<1>1. K \in {1, 2} /\ (m = d + K \/ m = d + K + 2)
  BY DEF KeyLen, Body
<1>2. Obeyed(c, s[k + 1]) = e /\ s[k + 1].port = port /\ s[k + 1].op = "data"
  BY StepIs DEF Obeyed
<1>0. d + K <= k /\ k <= m + 11
  BY <1>1
<1>3. c.open /\ Selection(c, device, K, d, m, k) /\ Contents(c, device, serial, m, k)
  <2>1. Openness(c, K, d, m, k) /\ Selection(c, device, K, d, m, k) /\ Contents(c, device, serial, m, k)
    BY DEF Has
  <2> HIDE DEF K
  <2>2. k <= m + 12
    BY <1>0
  <2>3. c.open
    BY <1>0, <2>1, <2>2 DEF Openness
  <2> QED  BY <2>1, <2>3
<1>4. /\ c.ldn = device /\ c.index \in DeviceRegs
      /\ c.index = IF k = m + 5 THEN \h60 ELSE IF k = m + 7 THEN \h61 ELSE \h30
  BY <1>3 DEF Selection, DeviceRegs
<1>5. /\ e \in ChipType(kind, device) /\ e.open /\ e.ldn = device
      /\ e.regs[<<device, c.index>>] = v
      /\ \A r \in DeviceRegs \ {c.index} : e.regs[<<device, r>>] = c.regs[<<device, r>>]
  BY <1>3, <1>4, Changed
<1> HIDE DEF e, K
<1>6. Openness(e, K, d, m, k + 1)
  <2>1. k + 1 > d /\ k + 1 # d + 1 /\ k + 1 # m + 13
    BY <1>0, <1>1
  <2> QED  BY <1>5, <2>1 DEF Openness
<1>7. Selection(e, device, K, d, m, k + 1)
  BY <1>1, <1>5 DEF Selection
<1>8. Contents(e, device, serial, m, k + 1) /\ (c.regs[<<device, \h30>>] = 0 \/ SameBase(c, e, device))
  <2>1. CASE k = m + 3
    <3>1. c.index = \h30 /\ v = 0
      BY <2>1, <1>4
    <3>2. e.regs[<<device, \h30>>] = 0
      BY <1>5, <3>1
    <3>3. e.regs[<<device, \h60>>] = c.regs[<<device, \h60>>] /\ e.regs[<<device, \h61>>] = c.regs[<<device, \h61>>]
      BY <1>5, <3>1 DEF DeviceRegs
    <3> QED  BY <2>1, <3>2, <3>3 DEF Contents, SameBase
  <2>2. CASE k = m + 5
    <3>1. c.index = \h60 /\ v = serial \div 256
      BY <2>2, <1>4
    <3>2. e.regs[<<device, \h60>>] = serial \div 256
      BY <1>5, <3>1
    <3>3. e.regs[<<device, \h30>>] = c.regs[<<device, \h30>>]
      BY <1>5, <3>1 DEF DeviceRegs
    <3>4. c.regs[<<device, \h30>>] = 0
      BY <1>3, <2>2 DEF Contents
    <3> QED  BY <2>2, <3>2, <3>3, <3>4 DEF Contents
  <2>3. CASE k = m + 7
    <3>1. c.index = \h61 /\ v = serial % 256
      BY <2>3, <1>4
    <3>2. e.regs[<<device, \h61>>] = serial % 256
      BY <1>5, <3>1
    <3>3. e.regs[<<device, \h30>>] = c.regs[<<device, \h30>>] /\ e.regs[<<device, \h60>>] = c.regs[<<device, \h60>>]
      BY <1>5, <3>1 DEF DeviceRegs
    <3>4. c.regs[<<device, \h30>>] = 0 /\ c.regs[<<device, \h60>>] = serial \div 256
      BY <1>3, <2>3 DEF Contents
    <3> QED  BY <2>3, <3>2, <3>3, <3>4 DEF Contents
  <2>4. CASE k = m + 11
    <3>1. c.index = \h30 /\ v = 1
      BY <2>4, <1>4
    <3>2. e.regs[<<device, \h30>>] = 1
      BY <1>5, <3>1
    <3>3. e.regs[<<device, \h60>>] = c.regs[<<device, \h60>>] /\ e.regs[<<device, \h61>>] = c.regs[<<device, \h61>>]
      BY <1>5, <3>1 DEF DeviceRegs
    <3>4. c.regs[<<device, \h60>>] = serial \div 256 /\ c.regs[<<device, \h61>>] = serial % 256
      BY <1>3, <2>4 DEF Contents
    <3> QED  BY <2>4, <3>2, <3>3, <3>4 DEF Contents, SameBase
  <2> QED  BY <2>1, <2>2, <2>3, <2>4
<1> QED
  BY <1>2, <1>3, <1>5, <1>6, <1>7, <1>8 DEF Fine, Has, K

\* Any step of the body.
LEMMA BodyStep ==
  ASSUME NEW kind \in {"winbond", "smsc"}, NEW port \in Nat, NEW device \in Nat, NEW serial \in Nat,
         NEW d \in Nat, NEW m \in Nat, NEW k \in Nat, NEW s,
         Body(s, kind, port, device, serial, d, m), d <= k, k < m + 13,
         NEW c \in ChipType(kind, device), Has(c, device, serial, KeyLen(kind), d, m, k)
  PROVE  Fine(c, Obeyed(c, s[k + 1]), s[k + 1], kind, port, device, serial, d, m, k)
<1> DEFINE K == KeyLen(kind)
           G == Fine(c, Obeyed(c, s[k + 1]), s[k + 1], kind, port, device, serial, d, m, k)
<1>1. K \in {1, 2} /\ (m = d + K \/ m = d + K + 2)
  BY DEF KeyLen, Body
<1>2. CASE k < d + K
  BY <1>2, KeyStep
<1>3. CASE m = d + K + 2 /\ k = d + K
  <2>1. s[k + 1] = Index(port, \h24)
    BY <1>3 DEF Body
  <2> QED  BY <1>3, <2>1, IndexStep
<1>4. CASE m = d + K + 2 /\ k = d + K + 1
  <2>1. k + 1 = m
    BY <1>1, <1>4
  <2>2. PICK v \in Nat : s[k + 1] = Data(port, v)
    BY <1>4, <2>1 DEF Body
  <2> QED  BY <1>4, <2>2, IdleData
<1>5. CASE k \in {m, m + 2, m + 4, m + 6, m + 8, m + 10}
  <2> DEFINE v == IF k = m THEN 7 ELSE IF k = m + 4 THEN \h60 ELSE IF k = m + 6 THEN \h61
                  ELSE IF k = m + 8 THEN \h70 ELSE \h30
  <2>1. /\ s[m + 1] = Index(port, 7) /\ s[m + 3] = Index(port, \h30) /\ s[m + 5] = Index(port, \h60)
        /\ s[m + 7] = Index(port, \h61) /\ s[m + 9] = Index(port, \h70) /\ s[m + 11] = Index(port, \h30)
    BY DEF Body, UartAfter
  <2>2. CASE k = m
    <3>1. s[k + 1] = Index(port, 7)
      BY <2>1, <2>2
    <3> QED  BY <2>2, <3>1, IndexStep
  <2>3. CASE k = m + 2
    <3>1. s[k + 1] = Index(port, \h30)
      <4>1. k + 1 = m + 3
        BY <2>3
      <4> QED  BY <2>1, <4>1
    <3> QED  BY <2>3, <3>1, IndexStep
  <2>4. CASE k = m + 4
    <3>1. s[k + 1] = Index(port, \h60)
      <4>1. k + 1 = m + 5
        BY <2>4
      <4> QED  BY <2>1, <4>1
    <3> QED  BY <2>4, <3>1, IndexStep
  <2>5. CASE k = m + 6
    <3>1. s[k + 1] = Index(port, \h61)
      <4>1. k + 1 = m + 7
        BY <2>5
      <4> QED  BY <2>1, <4>1
    <3> QED  BY <2>5, <3>1, IndexStep
  <2>6. CASE k = m + 8
    <3>1. s[k + 1] = Index(port, \h70)
      <4>1. k + 1 = m + 9
        BY <2>6
      <4> QED  BY <2>1, <4>1
    <3> QED  BY <2>6, <3>1, IndexStep
  <2>7. CASE k = m + 10
    <3>1. s[k + 1] = Index(port, \h30)
      <4>1. k + 1 = m + 11
        BY <2>7
      <4> QED  BY <2>1, <4>1
    <3> QED  BY <2>7, <3>1, IndexStep
  <2> QED  BY <1>5, <2>2, <2>3, <2>4, <2>5, <2>6, <2>7
<1>6. CASE k \in {m + 3, m + 5, m + 7, m + 9, m + 11}
  <2>1. /\ s[m + 4] = Data(port, 0) /\ s[m + 6] = Data(port, serial \div 256)
        /\ s[m + 8] = Data(port, serial % 256) /\ s[m + 10] = Data(port, 4) /\ s[m + 12] = Data(port, 1)
    BY DEF Body, UartAfter
  <2>2. CASE k = m + 3
    <3>1. s[k + 1] = Data(port, 0)
      <4>1. k + 1 = m + 4
        BY <2>2
      <4> QED  BY <2>1, <4>1
    <3> QED  BY <2>2, <3>1, RegisterData
  <2>3. CASE k = m + 5
    <3>1. s[k + 1] = Data(port, serial \div 256)
      <4>1. k + 1 = m + 6
        BY <2>3
      <4> QED  BY <2>1, <4>1
    <3>2. serial \div 256 \in Nat
      OBVIOUS
    <3> QED  BY <2>3, <3>1, <3>2, RegisterData
  <2>4. CASE k = m + 7
    <3>1. s[k + 1] = Data(port, serial % 256)
      <4>1. k + 1 = m + 8
        BY <2>4
      <4> QED  BY <2>1, <4>1
    <3>2. serial % 256 \in Nat
      OBVIOUS
    <3> QED  BY <2>4, <3>1, <3>2, RegisterData
  <2>5. CASE k = m + 9
    <3>1. s[k + 1] = Data(port, 4)
      <4>1. k + 1 = m + 10
        BY <2>5
      <4> QED  BY <2>1, <4>1
    <3> QED  BY <2>5, <3>1, IdleData
  <2>6. CASE k = m + 11
    <3>1. s[k + 1] = Data(port, 1)
      <4>1. k + 1 = m + 12
        BY <2>6
      <4> QED  BY <2>1, <4>1
    <3> QED  BY <2>6, <3>1, RegisterData
  <2> QED  BY <1>6, <2>2, <2>3, <2>4, <2>5, <2>6
<1>7. CASE k = m + 1
  BY <1>7, DeviceData
<1>8. CASE k = m + 12
  BY <1>8, LastStep
<1>9. \/ k < d + K \/ (m = d + K + 2 /\ (k = d + K \/ k = d + K + 1))
      \/ k \in {m, m + 2, m + 4, m + 6, m + 8, m + 10}
      \/ k \in {m + 3, m + 5, m + 7, m + 9, m + 11} \/ k = m + 1 \/ k = m + 12
  BY <1>1
<1> HIDE DEF G, K
<1> QED
  BY <1>2, <1>3, <1>4, <1>5, <1>6, <1>7, <1>8, <1>9

-----------------------------------------------------------------------------
(* The board.                                                              *)

\* k steps are made.
Runs(kind, port, device, d, m, k) ==
  /\ Starts(board, kind, port, device, d, m)
  /\ k <= m + 13 /\ todo = SubSeq(board.steps, k + 1, Len(board.steps))
  /\ chips \in [{port} -> ChipType(kind, device)]
  /\ Has(chips[port], device, board.serial, KeyLen(kind), d, m, k)
  /\ d = 0 \/ k > 0 => port \in decoded
  /\ lost = FALSE

StartInv ==
  \E kind \in {"winbond", "smsc"}, port, d, m, k \in Nat, device \in Nat \ {Global} :
    Runs(kind, port, device, d, m, k)

OnlyOneUart == \A b \in Supported : OneUart(b)

\* What reset, or whatever ran before, left in the chip.
LEMMA ChipAtFirst ==
  ASSUME NEW kind \in {"winbond", "smsc"}, NEW port \in Nat, NEW device \in Nat,
         board.superios = {SuperIO(port, kind, {device})}, StartInit
  PROVE  /\ chips \in [{port} -> ChipType(kind, device)] /\ chips[port].progress = <<>>
         /\ PortsOf(board) = {port}
<1> DEFINE x == SuperIO(port, kind, {device})
<1>1. x.port = port /\ x.kind = kind /\ x.devices = {device}
  BY DEF SuperIO
<1> HIDE DEF x
<1>2. board.superios = {x}
  BY DEF x
<1>3. PortsOf(board) = {port}
  BY <1>1, <1>2 DEF PortsOf
<1>4. SuperIOAt(board, port) = x
  BY <1>1, <1>2 DEF SuperIOAt
<1>5. Registers(x) = {device} \X DeviceRegs
  BY <1>1 DEF Registers
<1>6. PICK open \in BOOLEAN, ldn \in {0, 2, 7}, on \in {0, 1}, hi \in {2, 3} :
        chips = [p \in PortsOf(board) |->
                   LET s == SuperIOAt(board, p)
                   IN Chip(s.kind, open \/ s.kind = "open", ldn,
                           IF board.byDefault THEN ByReset(s) ELSE LeftOver(s, on, hi))]
  BY DEF StartInit
<1> DEFINE regs == IF board.byDefault THEN ByReset(x) ELSE LeftOver(x, on, hi)
<1>7. regs \in [{device} \X DeviceRegs -> Nat]
  <2>1. ByReset(x) \in [{device} \X DeviceRegs -> Nat]
    BY <1>5 DEF ByReset
  <2>2. LeftOver(x, on, hi) \in [{device} \X DeviceRegs -> Nat]
    BY <1>5 DEF LeftOver
  <2> QED  BY <2>1, <2>2
<1> HIDE DEF regs
<1>8. chips = [p \in {port} |-> Chip(kind, open, ldn, regs)]
  <2>1. DOMAIN chips = {port}
    BY <1>3, <1>6
  <2>2. chips[port] = Chip(x.kind, open \/ x.kind = "open", ldn, regs)
    BY <1>3, <1>4, <1>6 DEF regs
  <2>3. (open \/ x.kind = "open") = open
    BY <1>1
  <2>4. chips[port] = Chip(kind, open, ldn, regs)
    BY <1>1, <2>2, <2>3
  <2> QED  BY <1>6, <2>1, <2>4
<1> DEFINE c == Chip(kind, open, ldn, regs)
<1>9. c \in ChipType(kind, device) /\ c.progress = <<>>
  BY <1>7 DEF Chip, ChipType
<1> HIDE DEF c
<1>10. chips = [p \in {port} |-> c]
  BY <1>8 DEF c
<1> QED
  BY <1>3, <1>9, <1>10

LEMMA StartsRight ==
  ASSUME OnlyOneUart, StartInit
  PROVE  StartInv
<1>1. PICK kind \in {"winbond", "smsc"}, port \in Nat, d \in Nat, m \in Nat, device \in Nat \ {Global} :
        Starts(board, kind, port, device, d, m)
  <2>1. OneUart(board)
    BY DEF OnlyOneUart, StartInit
  <2> QED  BY <2>1, OneUartStarts
<1>2. board.superios = {SuperIO(port, kind, {device})}
  BY <1>1 DEF Starts
<1>3. /\ chips \in [{port} -> ChipType(kind, device)] /\ chips[port].progress = <<>>
      /\ PortsOf(board) = {port}
  BY <1>2, ChipAtFirst
<1>4. board.steps \in Seq(StepType) /\ KeyLen(kind) \in {1, 2} /\ m >= d + KeyLen(kind)
  BY <1>1 DEF Starts, Body, KeyLen
<1>5. todo = SubSeq(board.steps, 0 + 1, Len(board.steps))
  <2>1. todo = board.steps
    BY DEF StartInit
  <2>2. board.steps = SubSeq(board.steps, 1, Len(board.steps))
    BY <1>4
  <2> QED  BY <2>1, <2>2
<1>6. Has(chips[port], device, board.serial, KeyLen(kind), d, m, 0)
  <2> DEFINE K == KeyLen(kind)
  <2>1. ~(d + K <= 0) /\ 0 # d + 1 /\ 0 # m + 13 /\ 0 # d + K + 1
    BY <1>4
  <2>2. ~(m + 4 <= 0) /\ 0 # m + 1 /\ 0 # m + 3 /\ 0 # m + 5 /\ 0 # m + 7 /\ 0 # m + 9 /\ 0 # m + 11
    BY <1>4
  <2>3. ~(0 >= m + 2) /\ ~(0 >= m + 6) /\ ~(0 >= m + 8) /\ ~(0 >= m + 12)
    BY <1>4
  <2> HIDE DEF K
  <2>4. Openness(chips[port], K, d, m, 0)
    BY <1>3, <2>1 DEF Openness
  <2>5. Selection(chips[port], device, K, d, m, 0)
    BY <2>1, <2>2, <2>3 DEF Selection
  <2>6. Contents(chips[port], device, board.serial, m, 0)
    BY <2>2, <2>3 DEF Contents
  <2> QED  BY <2>4, <2>5, <2>6 DEF Has, K
<1>7. d = 0 \/ 0 > 0 => port \in decoded
  <2>1. d = 0 => ~board.decodes
    BY <1>1 DEF Starts
  <2>2. d = 0 => decoded = PortsOf(board)
    BY <2>1 DEF StartInit
  <2> QED  BY <1>3, <2>2
<1>8. Runs(kind, port, device, d, m, 0)
  BY <1>1, <1>3, <1>5, <1>6, <1>7 DEF Runs, StartInit
<1> QED
  BY <1>8 DEF StartInv

\* What is left to do.
LEMMA StepsLeft ==
  ASSUME NEW kind \in {"winbond", "smsc"}, NEW port \in Nat, NEW device \in Nat,
         NEW d \in Nat, NEW m \in Nat, NEW k \in Nat, Runs(kind, port, device, d, m, k)
  PROVE  /\ Done <=> k = m + 13
         /\ k < m + 13 => /\ Now = board.steps[k + 1]
                          /\ Tail(todo) = SubSeq(board.steps, k + 1 + 1, Len(board.steps))
<1> DEFINE p == board.steps
<1>1. p \in Seq(StepType) /\ Len(p) = m + 13 /\ k \in 0..Len(p) /\ todo = SubSeq(p, k + 1, Len(p))
  BY DEF Runs, Starts, Body
<1> HIDE DEF p
<1>2. todo \in Seq(StepType) /\ After(todo, p, k)
  BY <1>1, WhatIsLeft
<1>3. Done <=> k = m + 13
  BY <1>1, <1>2 DEF After, Done
<1>4. ASSUME k < m + 13
      PROVE  Now = p[k + 1] /\ Tail(todo) = SubSeq(p, k + 1 + 1, Len(p))
  <2> DEFINE r == SubSeq(p, k + 1 + 1, Len(p))
  <2>1. k + 1 \in 0..Len(p) /\ k < Len(p)
    BY <1>1, <1>4
  <2>2. r \in Seq(StepType) /\ After(r, p, k + 1)
    BY <1>1, <2>1, WhatIsLeft
  <2> HIDE DEF r
  <2>3. Head(todo) = p[k + 1] /\ Tail(todo) = r
    <3>1. p \in Seq(StepType) /\ todo \in Seq(StepType) /\ r \in Seq(StepType)
      BY <1>1, <1>2, <2>2
    <3>2. k \in Nat /\ k < Len(p)
      BY <2>1
    <3>3. After(todo, p, k) /\ After(r, p, k + 1)
      BY <1>2, <2>2
    <3> QED  BY <3>1, <3>2, <3>3, Dropped
  <2> QED  BY <2>3 DEF Now, r
<1> QED
  BY <1>3, <1>4 DEF p

\* What the steps in front are.
LEMMA InFrontIs ==
  ASSUME NEW kind \in {"winbond", "smsc"}, NEW port \in Nat, NEW device \in Nat,
         NEW d \in Nat, NEW m \in Nat, NEW k \in Nat, NEW b, Starts(b, kind, port, device, d, m), k < d
  PROVE  /\ k = 0 => \E bits \in Nat : port \in Forwarded(bits) /\ b.steps[k + 1] = Decode(bits)
         /\ k > 0 => b.steps[k + 1] = Wait
         /\ b.steps[k + 1].op \in {"decode", "wait"}
<1>1. d \in 0..2 /\ (d = 1 \/ d = 2) /\ (k = 0 \/ (k = 1 /\ d = 2))
  BY DEF Starts
<1>2. k = 0 => \E bits \in Nat : port \in Forwarded(bits) /\ b.steps[k + 1] = Decode(bits)
  BY <1>1 DEF Starts
<1>3. k > 0 => b.steps[k + 1] = Wait
  <2> SUFFICES ASSUME k > 0 PROVE b.steps[k + 1] = Wait
    OBVIOUS
  <2>1. k + 1 = 2 /\ d = 2
    BY <1>1
  <2> QED  BY <2>1 DEF Starts
<1>4. (\A bits \in Nat : Decode(bits).op = "decode") /\ Wait.op = "wait"
  BY DEF Decode, Wait, Step
<1> QED
  BY <1>1, <1>2, <1>3, <1>4

\* The body of MovesOff.
MovedOff ==
  \A p \in DOMAIN chips : \A d \in Devices(chips[p]) :
    BaseOf(chips[p], d)' # BaseOf(chips[p], d) => ~On(chips[p], d)

LEMMA OneDevice ==
  ASSUME NEW kind, NEW device \in Nat \ {Global}, NEW c \in ChipType(kind, device)
  PROVE  Devices(c) = {device}
<1>1. DOMAIN c.regs = {device} \X DeviceRegs
  BY DEF ChipType
<1>2. \A r \in {device} \X DeviceRegs : r[1] = device
  OBVIOUS
<1>3. <<device, \h30>> \in {device} \X DeviceRegs /\ <<device, \h30>>[1] = device
  BY DEF DeviceRegs
<1> QED
  BY <1>1, <1>2, <1>3 DEF Devices

\* A step of the body moves nothing that is on.
LEMMA MovedByStep ==
  ASSUME NEW kind \in {"winbond", "smsc"}, NEW port \in Nat, NEW device \in Nat \ {Global},
         chips \in [{port} -> ChipType(kind, device)],
         chips[port].regs[<<device, \h30>>] = 0 \/ SameBase(chips[port], chips'[port], device)
  PROVE  MovedOff
<1>1. DOMAIN chips = {port} /\ chips[port] \in ChipType(kind, device)
  OBVIOUS
<1>2. Devices(chips[port]) = {device}
  BY <1>1, OneDevice
<1>3. CASE chips[port].regs[<<device, \h30>>] = 0
  BY <1>1, <1>2, <1>3 DEF MovedOff, On
<1>4. CASE SameBase(chips[port], chips'[port], device)
  <2>1. BaseOf(chips[port], device)' = BaseOf(chips[port], device)
    BY <1>4 DEF BaseOf, SameBase
  <2> QED  BY <1>1, <1>2, <2>1 DEF MovedOff
<1> QED
  BY <1>3, <1>4

\* Index or data.
LEMMA ChipStep ==
  ASSUME NEW kind \in {"winbond", "smsc"}, NEW port \in Nat, NEW device \in Nat \ {Global},
         NEW d \in Nat, NEW m \in Nat, NEW k \in Nat, Runs(kind, port, device, d, m, k),
         WriteIndex \/ WriteData
  PROVE  Runs(kind, port, device, d, m, k + 1)' /\ MovedOff
<1> DEFINE step == board.steps[k + 1]
           c == chips[port]
           e == Obeyed(c, step)
<1>1. k < m + 13 /\ Now = step /\ todo' = SubSeq(board.steps, k + 1 + 1, Len(board.steps)) /\ board' = board
  <2>1. ~Done /\ todo' = Tail(todo) /\ board' = board
    BY DEF WriteIndex, WriteData, Makes
  <2>2. k <= m + 13
    BY DEF Runs
  <2>3. k < m + 13
    BY <2>1, <2>2, StepsLeft
  <2> QED  BY <2>1, <2>3, StepsLeft
<1>2. Now.op = "index" \/ Now.op = "data"
  BY DEF WriteIndex, WriteData, Makes
<1>3. d <= k
  <2> SUFFICES ASSUME k < d PROVE FALSE
    OBVIOUS
  <2>1. step.op \in {"decode", "wait"}
    BY InFrontIs DEF Runs
  <2> QED  BY <1>1, <1>2, <2>1
<1>4. Starts(board, kind, port, device, d, m) /\ Body(board.steps, kind, port, device, board.serial, d, m) /\ board.serial \in Nat
  BY DEF Runs, Starts
<1>5. c \in ChipType(kind, device) /\ Has(c, device, board.serial, KeyLen(kind), d, m, k)
  BY DEF Runs
<1>6. Fine(c, e, step, kind, port, device, board.serial, d, m, k)
  BY <1>1, <1>3, <1>4, <1>5, BodyStep
<1>7. /\ e \in ChipType(kind, device) /\ Has(e, device, board.serial, KeyLen(kind), d, m, k + 1)
      /\ step.port = port /\ (step.op = "data" => c.open)
      /\ c.regs[<<device, \h30>>] = 0 \/ SameBase(c, e, device)
  BY <1>6 DEF Fine
<1>8. port \in decoded /\ decoded' = decoded
  <2>1. d = 0 \/ k > 0
    BY <1>3
  <2> QED  BY <2>1 DEF Runs, WriteIndex, WriteData
<1>9. chips' = [chips EXCEPT ![port] = e] /\ lost' = FALSE
  <2>1. CASE WriteIndex
    <3>1. Now.op = "index" /\ Now.port = port
      BY <1>1, <1>7, <2>1 DEF WriteIndex, Makes
    <3>2. e = IndexWritten(chips[port], Now.val)
      BY <1>1, <3>1 DEF Obeyed
    <3>3. chips' = [chips EXCEPT ![port] = IndexWritten(chips[port], Now.val)]
      BY <1>8, <2>1, <3>1 DEF WriteIndex
    <3>4. lost' = FALSE
      BY <1>8, <2>1, <3>1 DEF WriteIndex, Runs
    <3> HIDE DEF e
    <3> QED  BY <3>2, <3>3, <3>4
  <2>2. CASE WriteData
    <3>1. Now.op = "data" /\ Now.port = port /\ chips[port].open
      BY <1>1, <1>7, <2>2 DEF WriteData, Makes
    <3>2. e = DataWritten(chips[port], Now.val)
      BY <1>1, <3>1 DEF Obeyed
    <3>3. chips' = [chips EXCEPT ![port] = DataWritten(chips[port], Now.val)]
      BY <1>8, <2>2, <3>1 DEF WriteData
    <3>4. lost' = FALSE
      BY <1>8, <2>2, <3>1 DEF WriteData, Runs
    <3> HIDE DEF e
    <3> QED  BY <3>2, <3>3, <3>4
  <2> QED  BY <2>1, <2>2
<1>10. chips' \in [{port} -> ChipType(kind, device)] /\ chips'[port] = e
  <2>1. chips \in [{port} -> ChipType(kind, device)]
    BY DEF Runs
  <2> HIDE DEF e
  <2> QED  BY <1>7, <1>9, <2>1
<1>11. Runs(kind, port, device, d, m, k + 1)'
  <2>1. Starts(board, kind, port, device, d, m)'
    BY <1>1, <1>4
  <2>2. k + 1 <= m + 13
    BY <1>1
  <2>3. Has(chips'[port], device, board'.serial, KeyLen(kind), d, m, k + 1)
    BY <1>1, <1>7, <1>10
  <2> HIDE DEF e, c, step
  <2> QED  BY <1>1, <1>8, <1>9, <1>10, <2>1, <2>2, <2>3 DEF Runs
<1>12. MovedOff
  <2>1. chips \in [{port} -> ChipType(kind, device)]
    BY DEF Runs
  <2>2. chips[port].regs[<<device, \h30>>] = 0 \/ SameBase(chips[port], chips'[port], device)
    BY <1>7, <1>10
  <2> QED  BY <2>1, <2>2, MovedByStep
<1> QED
  BY <1>11, <1>12

\* Where a step leaves the chip as it is.
LEMMA NothingMoved ==
  ASSUME chips' = chips
  PROVE  MovedOff
BY DEF MovedOff, BaseOf

\* A step in front of the body.
LEMMA FrontStep ==
  ASSUME NEW kind \in {"winbond", "smsc"}, NEW port \in Nat, NEW device \in Nat \ {Global},
         NEW d \in Nat, NEW m \in Nat, NEW k \in Nat, Runs(kind, port, device, d, m, k),
         DecodePorts \/ MapWindow \/ UseWindow \/ WaitOver
  PROVE  Runs(kind, port, device, d, m, k + 1)' /\ MovedOff
<1> DEFINE step == board.steps[k + 1]
           K == KeyLen(kind)
<1>1. k < m + 13 /\ Now = step /\ todo' = SubSeq(board.steps, k + 1 + 1, Len(board.steps)) /\ board' = board
  <2>1. ~Done /\ todo' = Tail(todo) /\ board' = board
    BY DEF DecodePorts, MapWindow, UseWindow, WaitOver, Makes
  <2>2. k <= m + 13
    BY DEF Runs
  <2>3. k < m + 13
    BY <2>1, <2>2, StepsLeft
  <2> QED  BY <2>1, <2>3, StepsLeft
<1>2. Now.op \in {"decode", "map", "unmap", "use", "wait"}
  BY DEF DecodePorts, MapWindow, UseWindow, WaitOver, Makes
<1>3. /\ Starts(board, kind, port, device, d, m)
      /\ Body(board.steps, kind, port, device, board.serial, d, m) /\ board.serial \in Nat
      /\ chips[port] \in ChipType(kind, device) /\ Has(chips[port], device, board.serial, K, d, m, k)
  BY DEF Runs, Starts
<1>4. k < d
  <2> SUFFICES ASSUME d <= k PROVE FALSE
    OBVIOUS
  <2>1. Fine(chips[port], Obeyed(chips[port], step), step, kind, port, device, board.serial, d, m, k)
    BY <1>1, <1>3, BodyStep
  <2>2. step.op \in {"index", "data"}
    BY <2>1 DEF Fine
  <2> QED  BY <1>1, <1>2, <2>2
<1>5. /\ k = 0 => \E bits \in Nat : port \in Forwarded(bits) /\ step = Decode(bits)
      /\ k > 0 => step = Wait
      /\ step.op \in {"decode", "wait"}
  BY <1>3, <1>4, InFrontIs
<1>6. DecodePorts \/ WaitOver
  <2>1. ~MapWindow /\ ~UseWindow
    BY <1>1, <1>5 DEF MapWindow, UseWindow, Makes
  <2> QED  BY <2>1
<1>7. chips' = chips /\ lost' = FALSE
  BY <1>6 DEF DecodePorts, WaitOver, Runs
<1>8. port \in decoded'
  <2>1. CASE k = 0
    <3>1. PICK bits \in Nat : port \in Forwarded(bits) /\ step = Decode(bits)
      BY <1>5, <2>1
    <3>2. Now.op = "decode" /\ Now.val = bits
      BY <1>1, <3>1 DEF Decode, Step
    <3>3. DecodePorts
      BY <1>6, <3>2 DEF WaitOver, Makes
    <3>4. port \in PortsOf(board)
      <4>1. board.superios = {SuperIO(port, kind, {device})}
        BY <1>3 DEF Starts
      <4> QED  BY <4>1 DEF PortsOf, SuperIO
    <3> QED  BY <3>1, <3>2, <3>3, <3>4 DEF DecodePorts
  <2>2. CASE k > 0
    <3>1. Now.op = "wait"
      BY <1>1, <1>5, <2>2 DEF Wait, Step
    <3>2. decoded' = decoded
      BY <1>6, <3>1 DEF DecodePorts, WaitOver, Makes
    <3>3. port \in decoded
      BY <2>2 DEF Runs
    <3> QED  BY <3>2, <3>3
  <2> QED  BY <2>1, <2>2
<1>9. Has(chips[port], device, board.serial, K, d, m, k + 1)
  <2>1. K \in {1, 2} /\ m >= d + K
    BY <1>3 DEF Body, KeyLen
  <2>2. chips[port].progress = <<>>
    <3>1. Openness(chips[port], K, d, m, k)
      BY <1>3 DEF Has
    <3> QED  BY <1>4, <3>1 DEF Openness
  <2> HIDE DEF K
  <2>3. /\ ~(d + K <= k + 1) /\ k + 1 # d + 1 /\ k + 1 # m + 13 /\ k + 1 # d + K + 1
        /\ k + 1 < m + 1
    BY <1>4, <2>1
  <2>4. Openness(chips[port], K, d, m, k + 1)
    BY <2>2, <2>3 DEF Openness
  <2>5. Selection(chips[port], device, K, d, m, k + 1)
    BY <2>3 DEF Selection
  <2>6. Contents(chips[port], device, board.serial, m, k + 1)
    BY <2>3 DEF Contents
  <2> QED  BY <2>4, <2>5, <2>6 DEF Has
<1>10. Runs(kind, port, device, d, m, k + 1)'
  <2>1. Starts(board, kind, port, device, d, m)'
    BY <1>1, <1>3
  <2>2. k + 1 <= m + 13 /\ chips \in [{port} -> ChipType(kind, device)]
    BY <1>1 DEF Runs
  <2>3. Has(chips'[port], device, board'.serial, KeyLen(kind), d, m, k + 1)
    BY <1>1, <1>7, <1>9
  <2> HIDE DEF step, K
  <2> QED  BY <1>1, <1>7, <1>8, <2>1, <2>2, <2>3 DEF Runs
<1> QED
  BY <1>7, <1>10, NothingMoved

LEMMA StartStep ==
  ASSUME StartInv, [StartNext]_startVars
  PROVE  StartInv' /\ MovedOff
<1>1. PICK kind \in {"winbond", "smsc"}, port \in Nat, d \in Nat, m \in Nat, k \in Nat, device \in Nat \ {Global} :
        Runs(kind, port, device, d, m, k)
  BY DEF StartInv
<1>2. CASE WriteIndex \/ WriteData
  <2>1. Runs(kind, port, device, d, m, k + 1)' /\ MovedOff
    BY <1>1, <1>2, ChipStep
  <2>2. k + 1 \in Nat
    OBVIOUS
  <2> QED  BY <2>1, <2>2 DEF StartInv
<1>3. CASE DecodePorts \/ MapWindow \/ UseWindow \/ WaitOver
  <2>1. Runs(kind, port, device, d, m, k + 1)' /\ MovedOff
    BY <1>1, <1>3, FrontStep
  <2>2. k + 1 \in Nat
    OBVIOUS
  <2> QED  BY <2>1, <2>2 DEF StartInv
<1>4. CASE Settle \/ UNCHANGED startVars
  <2>1. board' = board /\ todo' = todo /\ chips' = chips /\ decoded' = decoded /\ lost' = lost
    BY <1>4 DEF Settle, startVars
  <2>2. Runs(kind, port, device, d, m, k)'
    BY <1>1, <2>1 DEF Runs
  <2>3. StartInv'
    BY <2>2 DEF StartInv
  <2> QED  BY <2>1, <2>3, NothingMoved
<1> QED
  BY <1>2, <1>3, <1>4 DEF StartNext, chipset_init

LEMMA StartCorrect == OnlyOneUart => (StartSpec => []StartInv)
<1> SUFFICES ASSUME OnlyOneUart PROVE StartSpec => []StartInv
  OBVIOUS
<1>1. StartInit => StartInv
  BY StartsRight
<1>2. StartInv /\ [StartNext]_startVars => StartInv'
  BY StartStep
<1> QED
  BY <1>1, <1>2, PTL DEF StartSpec

-----------------------------------------------------------------------------

\* Whatever was left in its chip, a board with one Winbond or SMSC chip ends
\* with the UART of its line on at its address and the chip closed
\* (chipset.c, and chipset_init of these boards).
THEOREM LineUpCorrect == OnlyOneUart => (StartSpec => []LineUp)
<1> SUFFICES ASSUME OnlyOneUart PROVE StartSpec => []LineUp
  OBVIOUS
<1>1. StartInv => LineUp
  <2> SUFFICES ASSUME StartInv, Done PROVE LineUp
    BY DEF LineUp
  <2>1. PICK kind \in {"winbond", "smsc"}, port \in Nat, d \in Nat, m \in Nat, k \in Nat, device \in Nat \ {Global} :
          Runs(kind, port, device, d, m, k)
    BY DEF StartInv
  <2>2. k = m + 13
    BY <2>1, StepsLeft
  <2>3. /\ DOMAIN chips = {port} /\ chips[port] \in ChipType(kind, device)
        /\ board.serial \in Nat
        /\ Openness(chips[port], KeyLen(kind), d, m, k)
        /\ Contents(chips[port], device, board.serial, m, k)
    BY <2>1 DEF Runs, Has, Starts
  <2>4. ~chips[port].open
    BY <2>2, <2>3 DEF Openness
  <2>5. /\ chips[port].regs[<<device, \h30>>] = 1
        /\ chips[port].regs[<<device, \h60>>] = board.serial \div 256
        /\ chips[port].regs[<<device, \h61>>] = board.serial % 256
    BY <2>2, <2>3 DEF Contents
  <2>6. On(chips[port], device)
    BY <2>5 DEF On
  <2>7. BaseOf(chips[port], device) = board.serial
    <3>1. \A n \in Nat : 256 * (n \div 256) + (n % 256) = n
      OBVIOUS
    <3>2. BaseOf(chips[port], device) = 256 * (board.serial \div 256) + (board.serial % 256)
      BY <2>5 DEF BaseOf
    <3> QED  BY <2>3, <3>1, <3>2
  <2>8. device \in Devices(chips[port])
    BY <2>3, OneDevice
  <2>9. chips[port].kind # "legacy"
    BY <2>3 DEF ChipType
  <2>10. UartAt(chips[port], board.serial)
    BY <2>6, <2>7, <2>8, <2>9 DEF UartAt
  <2> QED  BY <2>3, <2>4, <2>10 DEF LineUp
<1> QED
  BY <1>1, StartCorrect, PTL

\* Nothing such a board does goes astray: its port is forwarded first, and no
\* data is written to the chip while it is closed.
THEOREM StrayCorrect == OnlyOneUart => (StartSpec => []NothingStray)
<1> SUFFICES ASSUME OnlyOneUart PROVE StartSpec => []NothingStray
  OBVIOUS
<1>1. StartInv => NothingStray
  BY DEF StartInv, Runs, NothingStray
<1> QED
  BY <1>1, StartCorrect, PTL

\* The UART is off while its base changes, also if it was on when the board
\* started.
THEOREM MovesCorrect == OnlyOneUart => (StartSpec => MovesOff)
<1> SUFFICES ASSUME OnlyOneUart PROVE StartSpec => MovesOff
  OBVIOUS
<1>1. StartInv /\ [StartNext]_startVars
        => [\A p \in DOMAIN chips : \A d \in Devices(chips[p]) :
              BaseOf(chips[p], d)' # BaseOf(chips[p], d) => ~On(chips[p], d)]_startVars
  BY StartStep DEF MovedOff
<1> QED
  BY <1>1, StartCorrect, PTL DEF StartSpec, MovesOff
=============================================================================
