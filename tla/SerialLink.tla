----------------------------- MODULE SerialLink -----------------------------
(***************************************************************************)
(* Shell and host driver on one serial line, with the events neither       *)
(* controls: the target is switched on or reset, QEMU is killed and        *)
(* started again.                                                          *)
(***************************************************************************)
EXTENDS SerialHost, SerialShell

CONSTANTS
  MaxBoots,   \* bound: the target is switched on or reset this often
  MaxKills    \* bound: QEMU is killed this often

ASSUME LinkAssumption == MaxBoots \in Nat /\ MaxKills \in Nat

VARIABLES boots, kills

vars == <<h2t, t2h, shellVars, hostVars, boots, kills>>

TypeOK ==
  /\ LineTypeOK /\ ShellTypeOK /\ HostTypeOK
  /\ boots \in 0..MaxBoots /\ kills \in 0..MaxKills

\* The shell waits at a prompt that was sent and read long ago.
AtPrompt == up = TRUE /\ line = <<>> /\ h2t = <<>> /\ t2h = <<>>

PoweredOff == up = FALSE /\ line = <<>> /\ h2t = <<>> /\ t2h = <<>>

Quiet == HostInit /\ done = <<>> /\ boots = 0 /\ kills = 0

WarmInit == Quiet /\ AtPrompt
ColdInit == Quiet /\ PoweredOff

Shell == ShellNext /\ UNCHANGED <<hostVars, boots, kills>>
Host  == HostNext /\ UNCHANGED <<shellVars, boots, kills>>

Reset == /\ boots < MaxBoots /\ boots' = boots + 1
         /\ Boot /\ UNCHANGED <<hostVars, kills>>

KillHost == /\ kills < MaxKills /\ kills' = kills + 1
            /\ Kill /\ UNCHANGED <<shellVars, boots>>

Session == Shell \/ Host
Next == Session \/ Reset \/ KillHost

\* The shell's loop never stops; QEMU runs the driver once it is called, and
\* the user starts QEMU and switches the target on.
Fairness ==
  /\ WF_vars(Shell)
  /\ WF_vars((Open \/ Drive) /\ UNCHANGED <<shellVars, boots, kills>>)
  /\ WF_vars(~up /\ Reset)

\* A session with a target that waits at its prompt, without faults.
WarmSpec == WarmInit /\ [][Session]_vars
FairWarmSpec == WarmSpec /\ Fairness

\* The user starts QEMU and switches on the target, in either order.
ColdSpec == ColdInit /\ [][Session \/ Reset]_vars
FairColdSpec == ColdSpec /\ Fairness

\* A shell at its prompt; QEMU may be killed and started again.
RelaunchSpec == WarmInit /\ [][Session \/ KillHost]_vars
FairRelaunchSpec == RelaunchSpec /\ Fairness

\* Such a session with one fault: QEMU is killed, or the target is reset while
\* a guest runs.
Fault == (KillHost /\ boots = 0) \/ (Reset /\ stage = "active" /\ kills = 0)
FaultSpec == WarmInit /\ [][Session \/ Fault]_vars
FairFaultSpec == FaultSpec /\ Fairness
-----------------------------------------------------------------------------
(***************************************************************************)
(* Where a session without faults can be.  Each phase says what is on the  *)
(* line, how much of the host's text the shell has read, and how many of   *)
(* the accesses begun (issued) were performed (done) and returned (log).   *)
(***************************************************************************)
Remote == INSTANCE RemoteAccess WITH issued <- issued, done <- done, log <- log

\* The shell performs the guest's accesses as they are: it was compiled by gcc,
\* or the guest writes MSRs with no other key than the one a romcc shell has.
KeysHonoured == \A r \in Guest : Effect(r) = r

\* What the shell prints once it has read the whole text.
Answer ==
  CASE stage = "version"   -> Banner \o Prompt
    [] stage = "mainboard" -> BoardName \o Prompt
    [] stage = "active" /\ req.op \in Reads -> ReplyOf(done[Len(done)].out) \o Prompt
    [] OTHER -> Prompt

\* The host is in the middle of a command ...
Commanding ==
  /\ step \in {"write", "readback", "reply"}
  /\ stage = "active" => Len(issued) = Len(log) + 1

\* ... of which the shell has read n characters, or which it has carried out.
Typed(n) == line = SubSeq(Text, 1, n) /\ Len(done) = Len(log)
Acted == line = <<>> /\ Len(done) = Len(issued)

Line(toTarget, toHost) == h2t = toTarget /\ t2h = toHost

Off == stage = "off" /\ step = "idle" /\ sent = 0 /\ line = <<>> /\ Line(<<>>, <<>>)
       /\ issued = <<>> /\ done = <<>> /\ log = <<>>

Writing == step = "write" /\ sent < Len(Text) /\ Typed(sent) /\ Line(<<>>, <<>>)

Unread == step = "readback" /\ sent < Len(Text) /\ Typed(sent)
          /\ Line(<<Text[sent + 1]>>, <<>>)

Echoed == step = "readback" /\ sent < Len(Text) /\ Typed(sent + 1)
          /\ Line(<<>>, <<Text[sent + 1]>>)

EchoedAndActed == step = "readback" /\ sent = Len(Text) - 1 /\ Acted
                  /\ Line(<<>>, <<Text[sent + 1]>> \o Answer)

ToAct == step = "reply" /\ sent = 0 /\ Typed(Len(Text)) /\ Line(<<>>, <<>>)

ReplyReady == step = "reply" /\ sent = 0 /\ Acted /\ Line(<<>>, Answer)

\* Between two commands the shell may still be about to act on the previous
\* one: a trigger, or a write, which the driver takes for done.
Between ==
  /\ step \in {"idle", "prompt"} /\ sent = 0 /\ stage # "off"
  /\ Len(issued) = Len(log) + (IF stage = "active" /\ step = "prompt" THEN 1 ELSE 0)

Posted ==
  /\ Between /\ Line(<<>>, <<>>)
  /\ \/ stage \in {"alive", "version"} /\ line = <<"@">> /\ Len(done) = Len(log)
     \/ /\ stage = "active" /\ Len(log) = Len(done) + 1
        /\ line = Command(issued[Len(log)]) /\ issued[Len(log)].op \notin Reads

Rest == Between /\ line = <<>> /\ Len(done) = Len(log) /\ h2t = <<>>
        /\ t2h \in {Prompt, <<"m">> \o Prompt}

\* What is on record about the accesses so far.
Recorded ==
  /\ Len(log) <= Len(issued) /\ Len(done) <= Len(issued)
  /\ stage = "active" /\ step # "idle" => issued # <<>> /\ req = issued[Len(issued)]
  /\ stage # "active" => issued = <<>>
  /\ \A i \in DOMAIN done : /\ done[i].acc = Effect(issued[i])
                            /\ done[i].out \in Results(issued[i])

Reachable ==
  /\ step = "idle" => stage \in {"off", "active"}
  /\ step = "prompt" => stage \in {"alive", "version", "mainboard", "active"}
  /\ step \in {"write", "readback"} => stage \in Stages \ {"off", "alive"}
  /\ step = "reply" => stage \in {"version", "mainboard", "active"}

\* Host and shell are always in one of the phases above: neither ever sees a
\* character that belongs to something else than what it is busy with.
Lockstep ==
  /\ up /\ Recorded /\ Reachable
  /\ \/ Off \/ Posted \/ Rest
     \/ /\ Commanding
        /\ Writing \/ Unread \/ Echoed \/ EchoedAndActed \/ ToAct \/ ReplyReady
-----------------------------------------------------------------------------
(***************************************************************************)
(* Properties.                                                             *)
(***************************************************************************)

\* Line and drivers together behave like accesses made directly: each is
\* performed exactly once, as it was asked for, in order, and reads return what
\* they produced.
Transparent == Remote!Spec

\* serialice_write warns of no echo that differs, so the reader can trust the
\* readings: the driver's idea of the line never slips against the shell's.
NoReadbackError == ~warned

\* After the handshake, whatever happened in it, no echo is wrong any more.
SettledOnceActive == [][stage = "active" => UNCHANGED warned]_vars

\* Of what the host wrote the shell has at most this much to catch up with,
\* far less than the 16 characters its UART can hold.
FewUnread == Len(h2t) <= 3

\* An access that has begun is performed, and its values returned.
Answered == \A n \in 1..MaxReqs :
  (Len(issued) >= n) ~> (Len(done) >= n /\ Len(log) >= n)

\* The reply to r is longer than what a shell prints when it starts: of all
\* commands only that to cpuid.
OutlastsStart(r) == EndOf(Arity(r.op)) > Len(Banner \o Prompt)

\* An access has begun, and none so far was a cpuid.  A reset in the middle of
\* one leaves the driver short of characters, or takes the prompt apart that
\* the next access waits for.
AwaitedAt(n) == Len(issued) >= n /\ \A i \in 1..n : ~OutlastsStart(issued[i])

\* Unless QEMU is killed, every access returns as long as none is a cpuid, even
\* if the target is reset meanwhile: what the shell prints when it starts makes
\* up for the characters, and the prompt, that will not come any more.
NeverStuck == \A n \in 1..MaxReqs : AwaitedAt(n) ~> (Len(log) >= n \/ kills > 0)

\* serialice_init finds the shell.
HandshakeCompletes == (stage = "trigger") ~> (stage = "active")

\* A command cut short by the end of QEMU is completed by the next trigger
\* character at worst: what is performed was asked for, but for its last
\* field, and never more often than it was asked for.
TornInLastField ==
  /\ Len(done) <= Len(issued)
  /\ \A i \in DOMAIN done : \E q \in ToSet(issued) :
       LET a == done[i].acc
           r == Effect(q)
       IN  /\ a.op = r.op /\ a.width = r.width
           /\ \A k \in DOMAIN a.args : k < Len(a.args) => a.args[k] = r.args[k]
=============================================================================
