---------------------------- MODULE SerialShell -----------------------------
(***************************************************************************)
(* The SerialICE shell on the target: main() of serialice.c with the       *)
(* parsers and printers of serial.c.                                       *)
(*                                                                         *)
(* The parser is straight-line code that blocks in serial_getc, so its     *)
(* whole state, program counter included, is the text it has read since    *)
(* the last prompt: line.  Recv is one serial_getc; when the last character *)
(* a command needs has been read, the action of that command performs the  *)
(* access, prints the reply and returns to the prompt.  The echo of that   *)
(* character leaves before the access happens.                             *)
(***************************************************************************)
EXTENDS SerialLine

VARIABLES
  up,     \* the shell has initialised its UART and runs
  line,   \* characters read since the last prompt
  done    \* accesses performed so far, each with the values it produced

shellVars == <<up, line, done>>

Outputs(op) == [1..Arity(op) -> Digits]

ShellTypeOK ==
  /\ up \in BOOLEAN
  /\ line \in Seq(Char)
  /\ done \in Seq([acc : [op : Ops, width : Char \cup {"none"}, args : Seq(Hex)],
                   out : UNION {Outputs(op) : op \in Ops}])

Op(l) == <<l[2], l[3]>>

\* Where serial_get8/16/32 read a number.
FieldPos(op) ==
  CASE op \in BusReads  -> {4}
    [] op \in BusWrites -> {4, 8}
    [] op \in {RC, CI}  -> {4, 6}
    [] op = WC          -> {4, 6, 8, 10}
    [] OTHER            -> {}

\* The length of a command, "*" and code included.
TextLen(op) ==
  CASE op \in Reads     -> 6
    [] op \in BusWrites -> 8
    [] op = WC          -> 10
    [] OTHER            -> 3

\* The number of characters the shell reads before it acts on text l.  A bad
\* width has no case in the switch: no data is read for it.
Need(l) ==
  IF l = <<>> \/ l[1] # "*" THEN 1
  ELSE IF Len(l) < 3 THEN 3
  ELSE IF Op(l) \in BusWrites /\ Len(l) >= 6 /\ l[6] \notin Widths THEN 7
  ELSE TextLen(Op(l))

Complete(l) == Len(l) >= Need(l)

\* Faulty variant: address and data change places.
DecodeSwapped(l) ==
  LET op   == Op(l)
      n(k) == Nibble(l[k])
  IN  [op    |-> op,
       width |-> IF op \in BusReads \cup BusWrites THEN l[6] ELSE "none",
       args  |-> CASE op \in BusReads  -> <<n(4)>>
                   [] op \in BusWrites -> <<n(8), n(4)>>
                   [] op \in {RC, CI}  -> <<n(6), n(4)>>
                   [] OTHER -> <<n(6), n(4), n(8), n(10)>>]

\* The access that the parsed text l stands for.
Decode(l) ==
  LET op   == Op(l)
      n(k) == Nibble(l[k])
  IN  [op    |-> op,
       width |-> IF op \in BusReads \cup BusWrites THEN l[6] ELSE "none",
       args  |-> CASE op \in BusReads  -> <<n(4)>>
                   [] op \in BusWrites -> <<n(4), n(8)>>
                   [] op \in {RC, CI}  -> <<n(4), n(6)>>
                   [] OTHER -> <<n(4), IF Romcc THEN FixedKey ELSE n(6), n(8), n(10)>>]
-----------------------------------------------------------------------------
\* serial_getc: read one character and echo it; serial_get_nibble complains
\* about one that is no digit, and carries on with zero.
Recv ==
  /\ up /\ h2t # <<>> /\ ~Complete(line)
  /\ LET c == Head(h2t)
         l == Append(line, c)
         isField == Len(l) >= 4 /\ Len(l) \in FieldPos(Op(l))
     IN  /\ line' = l
         /\ h2t' = Tail(h2t)
         /\ t2h' = t2h \o <<c>> \o IF isField /\ c \notin Hex THEN ParseError ELSE <<>>
  /\ UNCHANGED <<up, done>>

\* Faulty variant: no prompt after a command.
FinishSilently(reply) ==
  /\ line' = <<>>
  /\ t2h' = t2h \o reply
  /\ UNCHANGED <<h2t, up>>

\* End of a loop iteration of main: print the reply and the next prompt.
Finish(reply) ==
  /\ line' = <<>>
  /\ t2h' = t2h \o reply \o Prompt
  /\ UNCHANGED <<h2t, up>>

\* The hardware may answer with any values.
Perform(out) == done' = Append(done, [acc |-> Decode(line), out |-> out])

At(ops) == up /\ Complete(line) /\ line[1] = "*" /\ Op(line) \in ops

\* serialice_read_memory, serialice_read_io: nothing is read, and no data
\* printed, for an unknown width.
BusRead ==
  /\ At(BusReads)
  /\ IF line[6] \in Widths
     THEN \E out \in Outputs(RM) : Perform(out) /\ Finish(ReplyOf(out))
     ELSE Finish(<<"nl">>) /\ UNCHANGED done

\* serialice_write_memory, serialice_write_io: no reply at all.
BusWrite ==
  /\ At(BusWrites)
  /\ Finish(<<>>)
  /\ IF line[6] \in Widths THEN Perform(<<>>) ELSE UNCHANGED done

\* serialice_read_msr, serialice_cpuinfo.
CpuRead ==
  /\ At({RC, CI})
  /\ \E out \in Outputs(Op(line)) : Perform(out) /\ Finish(ReplyOf(out))

\* serialice_write_msr.
WriteMsr == At({WC}) /\ Finish(<<>>) /\ Perform(<<>>)

Mainboard == At({MB}) /\ Finish(BoardName) /\ UNCHANGED done

Version == At({VI}) /\ Finish(Banner) /\ UNCHANGED done

\* A command that is none of the above.
Unknown ==
  /\ up /\ Complete(line) /\ line[1] = "*" /\ Op(line) \notin Ops
  /\ Finish(ErrorText) /\ UNCHANGED done

\* Any other character only brings up a new prompt.
NotACommand ==
  /\ up /\ Complete(line) /\ line[1] # "*"
  /\ Finish(<<>>) /\ UNCHANGED done

ShellNext == Recv \/ BusRead \/ BusWrite \/ CpuRead \/ WriteMsr
             \/ Mainboard \/ Version \/ Unknown \/ NotACommand
-----------------------------------------------------------------------------
\* Power-on or reset: the UART FIFO is lost, of the output under way a prefix
\* is sent, then main() prints the version and the first prompt.
Boot ==
  /\ up' = TRUE
  /\ line' = <<>>
  /\ h2t' = <<>>
  /\ \E sent \in Prefixes(t2h) : t2h' = sent \o Banner \o Prompt
  /\ UNCHANGED done
=============================================================================
