----------------------------- MODULE SerialHost -----------------------------
(***************************************************************************)
(* The host driver that the QEMU patch adds as serialice.c: opening the    *)
(* line, the handshake, and one serialice_command per hardware access.     *)
(* The driver runs on QEMU's only virtual CPU, so it is sequential: stage  *)
(* says how far serialice_init has come, step where the current command    *)
(* is.  Every read blocks (it is retried until enough characters came), so *)
(* a read is one action, enabled when the characters it waits for are      *)
(* there.                                                                  *)
(***************************************************************************)
EXTENDS SerialLine

CONSTANTS
  Guest,     \* the accesses the program running in QEMU may make
  MaxReqs    \* bound: it makes at most this many of them

ASSUME HostAssumption == Guest \subseteq Access /\ MaxReqs \in Nat

VARIABLES
  stage,    \* "off", the stations of serialice_init, and "active"
  step,     \* where the command of this stage is
  req,      \* the access being made, once active
  sent,     \* characters of the text written and read back
  warned,   \* "Readback error!" was printed
  issued,   \* accesses begun, in order
  log       \* accesses that returned, in order, with their results

hostVars == <<stage, step, req, sent, warned, issued, log>>

Handshake == {"trigger", "alive", "retrigger"}
Stages == Handshake \cup {"off", "version", "mainboard", "active"}
Steps  == {"idle", "prompt", "write", "readback", "reply"}

NoAccess == [op |-> <<>>, width |-> "none", args |-> <<>>]

\* What serialice_write is called with.
Text == CASE stage \in Handshake  -> <<"@">>
          [] stage = "version"    -> <<"*", "v", "i">>
          [] stage = "mainboard"  -> <<"*", "m", "b">>
          [] OTHER                -> Command(req)

HostTypeOK ==
  /\ stage \in Stages
  /\ step \in IF stage = "off" THEN {"idle"} ELSE Steps
  /\ req \in IF stage = "active" /\ step # "idle" THEN Access ELSE Access \cup {NoAccess}
  /\ sent \in 0..IF step \in {"write", "readback"} THEN Len(Text) - 1 ELSE 0
  /\ warned \in BOOLEAN
  /\ issued \in Seq(Access)
  /\ log \in Seq([req : Access, res : Seq(Hex)])

\* Faulty variant: one character too many is waited for.
ReplyLenTooLong == CASE stage = "mainboard" -> 8
                     [] stage = "active"    -> EndOf(Arity(req.op)) + 1
                     [] OTHER               -> 0

\* The reply_len of serialice_command.  The board name is 32 characters, but
\* its newline is counted too, so its last character stays in the queue.
ReplyLen == CASE stage = "mainboard" -> 7
              [] stage = "active"    -> EndOf(Arity(req.op))
              [] OTHER               -> 0

\* Faulty variant: the values are looked for one field further on.
ResultShifted(op, buf) == [k \in 1..Arity(op) |-> Nibble(buf[EndOf(k) - 1])]

\* strtoul on the fields of the reply, which are found by their position.
Result(op, buf) == [k \in 1..Arity(op) |-> Nibble(buf[EndOf(k)])]

PromptAt(k) == k + 2 <= Len(t2h) /\ SubSeq(t2h, k, k + 2) = Prompt

\* serialice_get_version: two characters, then up to a newline that may be
\* the second of them.
NewlineAt(k) == k >= 2 /\ t2h[k] = "nl"

Consume(n) == t2h' = SubSeq(t2h, n + 1, Len(t2h))
-----------------------------------------------------------------------------
HostInit ==
  /\ stage = "off" /\ step = "idle" /\ req = NoAccess /\ sent = 0
  /\ warned = FALSE /\ issued = <<>> /\ log = <<>>

\* serialice_init: open the tty and tcflush both of its queues.  What the
\* host has already received, or not yet sent, is gone; characters on their way
\* arrive after the flush.
Open ==
  /\ stage = "off"
  /\ stage' = "trigger" /\ step' = "write" /\ sent' = 0
  /\ t2h' \in Suffixes(t2h)
  /\ h2t' \in Prefixes(h2t)
  /\ UNCHANGED <<req, warned, issued, log>>

\* serialice_write sends one character ...
Write ==
  /\ step = "write"
  /\ h2t' = Append(h2t, Text[sent + 1])
  /\ step' = "readback"
  /\ UNCHANGED <<stage, req, sent, warned, issued, log, t2h>>

\* Faulty variant: the echo is looked at but left in the queue.
ReadbackPeek ==
  /\ step = "readback" /\ t2h # <<>>
  /\ Consume(0)
  /\ warned' = (warned \/ (stage \notin Handshake /\ Head(t2h) # Text[sent + 1]))
  /\ IF sent + 1 < Len(Text)
     THEN step' = "write" /\ sent' = sent + 1 /\ stage' = stage
     ELSE /\ sent' = 0
          /\ CASE stage = "trigger"   -> step' = "prompt" /\ stage' = "alive"
               [] stage = "retrigger" -> step' = "prompt" /\ stage' = "version"
               [] OTHER               -> step' = "reply" /\ stage' = stage
  /\ UNCHANGED <<req, issued, log, h2t>>

\* ... and takes whatever comes next for its echo.  Outside the handshake a
\* different character is reported, and otherwise ignored.
Readback ==
  /\ step = "readback" /\ t2h # <<>>
  /\ Consume(1)
  /\ warned' = (warned \/ (stage \notin Handshake /\ Head(t2h) # Text[sent + 1]))
  /\ IF sent + 1 < Len(Text)
     THEN step' = "write" /\ sent' = sent + 1 /\ stage' = stage
     ELSE /\ sent' = 0
          /\ CASE stage = "trigger"   -> step' = "prompt" /\ stage' = "alive"
               [] stage = "retrigger" -> step' = "prompt" /\ stage' = "version"
               [] OTHER               -> step' = "reply" /\ stage' = stage
  /\ UNCHANGED <<req, issued, log, h2t>>

\* Faulty variant: the prompt found during the handshake is not replaced.
WaitPromptOnce ==
  /\ step = "prompt"
  /\ \E k \in DOMAIN t2h :
       /\ PromptAt(k) /\ \A j \in 1..k - 1 : ~PromptAt(j)
       /\ Consume(k + 2)
  /\ step' = IF stage = "alive" THEN "prompt" ELSE "write"
  /\ stage' = IF stage = "alive" THEN "version" ELSE stage
  /\ UNCHANGED <<req, sent, warned, issued, log, h2t>>

\* serialice_wait_prompt: skip everything up to and including a prompt.  The
\* prompt found during the handshake is answered with a second trigger, so
\* that the first command finds one too.
WaitPrompt ==
  /\ step = "prompt"
  /\ \E k \in DOMAIN t2h :
       /\ PromptAt(k) /\ \A j \in 1..k - 1 : ~PromptAt(j)
       /\ Consume(k + 2)
  /\ step' = "write"
  /\ stage' = IF stage = "alive" THEN "retrigger" ELSE stage
  /\ UNCHANGED <<req, sent, warned, issued, log, h2t>>

\* serialice_get_version: print the version, whatever it is.
GetVersion ==
  /\ stage = "version" /\ step = "reply"
  /\ \E k \in DOMAIN t2h :
       /\ NewlineAt(k) /\ \A j \in 1..k - 1 : ~NewlineAt(j)
       /\ Consume(k)
  /\ stage' = "mainboard" /\ step' = "prompt"
  /\ UNCHANGED <<req, sent, warned, issued, log, h2t>>

\* serialice_get_mainboard; then serialice_active lets QEMU call in.
GetMainboard ==
  /\ stage = "mainboard" /\ step = "reply" /\ Len(t2h) >= ReplyLen
  /\ Consume(ReplyLen)
  /\ stage' = "active" /\ step' = "idle"
  /\ UNCHANGED <<req, sent, warned, issued, log, h2t>>

\* Faulty variant: a command is sent without waiting for the prompt.
IssueAtOnce(r) ==
  /\ stage = "active" /\ step = "idle" /\ Len(issued) < MaxReqs
  /\ req' = r /\ issued' = Append(issued, r)
  /\ step' = "write"
  /\ UNCHANGED <<stage, sent, warned, log, t2h, h2t>>

\* serialice_inb ... serialice_cpuid: the guest makes an access that the
\* filters let through.
Issue(r) ==
  /\ stage = "active" /\ step = "idle" /\ Len(issued) < MaxReqs
  /\ req' = r /\ issued' = Append(issued, r)
  /\ step' = "prompt"
  /\ UNCHANGED <<stage, sent, warned, log, t2h, h2t>>

\* The reply is there: return its values to the guest.  A write has no reply
\* and returns when its last character has been read back.
Return ==
  /\ stage = "active" /\ step = "reply" /\ Len(t2h) >= ReplyLen
  /\ log' = Append(log, [req |-> req,
                         res |-> Result(req.op, SubSeq(t2h, 1, ReplyLen))])
  /\ Consume(ReplyLen)
  /\ step' = "idle"
  /\ UNCHANGED <<stage, req, sent, warned, issued, h2t>>

\* The steps of the driver, other than those the user or the guest decides.
Drive == Write \/ Readback \/ WaitPrompt \/ GetVersion \/ GetMainboard \/ Return

HostNext == Open \/ Drive \/ \E r \in Guest : Issue(r)
-----------------------------------------------------------------------------
\* QEMU is killed.  Of the driver nothing is left; the line stays as it is.
Kill ==
  /\ stage # "off"
  /\ stage' = "off" /\ step' = "idle" /\ sent' = 0 /\ req' = NoAccess
  /\ UNCHANGED <<warned, issued, log, h2t, t2h>>
=============================================================================
