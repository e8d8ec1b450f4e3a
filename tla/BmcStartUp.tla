----------------------------- MODULE BmcStartUp -----------------------------
(***************************************************************************)
(* The Dell S1850 starts its shell after it has told the management        *)
(* controller (BMC) to keep its hands off the serial port.  The two talk   *)
(* through one byte in each direction: IBF says that the BMC has not taken *)
(* the host's byte yet, OBF that the host has not taken the BMC's, and two *)
(* bits of the status tell which phase the BMC is in.  A byte written      *)
(* while IBF is set replaces the one before it.                            *)
(***************************************************************************)
EXTENDS Naturals, Sequences

VARIABLES
  script,     \* what bmc_foad has still to do
  input,      \* the byte the BMC has not taken, if IBF is set
  phase,      \* the BMC's phase: two bits of the status
  heard,      \* the bytes of the command that the BMC has taken
  late        \* the BMC took longer than a delay after which nothing waits

bmcVars == <<script, input, phase, heard, late>>

NoByte == [to |-> "none", byte |-> 0]
Ibf == input # NoByte
Request == <<\h30, \h12, 2, 3>>

\* Statements of bmc_foad.  Reading the data port (clearobf) changes nothing
\* that is waited for and is left out.
Out(to, byte) == [do |-> "out", to |-> to, byte |-> byte]
IbfZero == [do |-> "ibfzero", to |-> "none", byte |-> 0]
Delay == [do |-> "ipmidelay", to |-> "none", byte |-> 0]
UntilIdle == [do |-> "until_idle", to |-> "none", byte |-> 0]

\* Faulty variant: the byte follows the control code at once.
FirstAtOnce(byte) == <<IbfZero, Out("csr", \h61), Out("data", byte)>>

first_cmd_byte(byte) == <<IbfZero, Out("csr", \h61), IbfZero, Out("data", byte)>>
next_cmd_byte(byte) == <<IbfZero, Out("data", byte)>>
last_cmd_byte(byte) == <<Out("csr", \h62), IbfZero, Out("data", byte)>>

bmc_foad ==
  <<UntilIdle>>
    \o first_cmd_byte(Request[1]) \o <<Delay>>
    \o next_cmd_byte(Request[2]) \o <<Delay>>
    \o next_cmd_byte(Request[3]) \o <<Delay>>
    \o last_cmd_byte(Request[4]) \o <<Delay>>

\* The BMC may be in the middle of what somebody else began.
BmcInit ==
  /\ script = bmc_foad
  /\ input = NoByte
  /\ phase \in {"idle", "read", "write", "last", "error"}
  /\ heard = <<>>
  /\ late = FALSE

-----------------------------------------------------------------------------
(* The host                                                                *)

Does(do) == script # <<>> /\ Head(script).do = do

Advance == script' = Tail(script)

Write ==
  /\ Does("out")
  /\ input' = [to |-> Head(script).to, byte |-> Head(script).byte]
  /\ Advance
  /\ UNCHANGED <<phase, heard, late>>

\* A loop that waits for ever.
IbfIsZero ==
  /\ Does("ibfzero") /\ ~Ibf
  /\ Advance
  /\ UNCHANGED <<input, phase, heard, late>>

\* The statement behind the one that is made waits for the BMC.
WaitFollows == Tail(script) # <<>> /\ Head(Tail(script)).do = "ibfzero"

\* ipmidelay reads port 0x80 a thousand times and does not look at the BMC.
Delayed ==
  /\ Does("ipmidelay")
  /\ Advance
  /\ late' = (late \/ (Ibf /\ ~WaitFollows))
  /\ UNCHANGED <<input, phase, heard>>

\* Faulty variant: wait for the BMC to be idle, but abort nothing.
OnlyWait ==
  /\ Does("until_idle")
  /\ phase = "idle" /\ Advance
  /\ UNCHANGED <<input, phase, heard, late>>

\* while the status is not idle: abort, without looking at IBF.
Abort ==
  /\ Does("until_idle")
  /\ IF phase = "idle" THEN Advance /\ UNCHANGED input
     ELSE input' = [to |-> "csr", byte |-> \h60] /\ UNCHANGED script
  /\ UNCHANGED <<phase, heard, late>>

Host == Write \/ IbfIsZero \/ Delayed \/ Abort

-----------------------------------------------------------------------------
(* The BMC: it takes a byte in its own time.                               *)

TakeAbort ==
  /\ input.to = "csr" /\ input.byte = \h60
  /\ phase' = "idle" /\ heard' = <<>>

TakeStart ==
  /\ input.to = "csr" /\ input.byte = \h61
  /\ phase' = "write" /\ heard' = <<>>

TakeEnd ==
  /\ input.to = "csr" /\ input.byte = \h62
  /\ phase' = (IF phase = "write" THEN "last" ELSE "error") /\ UNCHANGED heard

TakeData ==
  /\ input.to = "data"
  /\ phase' = (CASE phase = "write" -> "write" [] phase = "last" -> "read" [] OTHER -> "error")
  /\ heard' = Append(heard, input.byte)

Bmc ==
  /\ Ibf /\ input' = NoByte
  /\ TakeAbort \/ TakeStart \/ TakeEnd \/ TakeData
  /\ UNCHANGED <<script, late>>

BmcNext == Host \/ Bmc

\* The host polls for ever, the BMC takes every byte.
BmcFairness == WF_bmcVars(Host) /\ WF_bmcVars(Bmc)
BmcSpec == BmcInit /\ [][BmcNext]_bmcVars /\ BmcFairness

-----------------------------------------------------------------------------

\* If the BMC takes no longer than the last two delays, after which the host
\* does not look whether it has, it takes the whole command, byte by byte, in
\* order, and is then in the phase in which it answers: nothing is overwritten
\* before it was taken, also not what aborts the transaction of somebody else.
CommandWhole ==
  script = <<>> /\ ~late => heard = Request /\ phase = "read"

\* The shell starts: no wait of the host is for something that the BMC waits
\* for the host to do.
BmcEnds == <>(script = <<>>)
=============================================================================
