------------------------- MODULE SerialShellProofs --------------------------
(***************************************************************************)
(* Facts about the commands of the text protocol and what the shell makes  *)
(* of them: every text the driver formats is well formed, the shell acts   *)
(* on it when it is complete and never before, and takes it for the access *)
(* it was made from.                                                       *)
(***************************************************************************)
EXTENDS SerialShell, TLAPS
-----------------------------------------------------------------------------
(***************************************************************************)
(* Operation codes and characters.                                         *)
(***************************************************************************)

\* The letters after "*" in serialice.c tell the commands apart.
LEMMA OpsDistinct ==
  /\ BusReads = {RM, RI} /\ BusWrites = {WM, WI}
  /\ \A o \in BusReads : o \notin BusWrites /\ o \notin {RC, CI, WC, MB, VI}
  /\ \A o \in BusWrites : o \notin Reads /\ o \notin {RC, CI, WC, MB, VI}
  /\ \A o \in {RC, CI} : o \notin BusReads \cup BusWrites /\ o \notin {WC, MB, VI}
  /\ \A o \in {WC, MB, VI} : o \notin Reads /\ o \notin BusReads \cup BusWrites
  /\ RC # CI /\ WC # MB /\ WC # VI /\ MB # VI
BY DEF Reads, BusReads, BusWrites, RM, WM, RI, WI, RC, WC, CI, MB, VI

\* Fields, widths and separators are characters of the line.
LEMMA CharIn ==
  /\ Hex \subseteq Char /\ Widths \subseteq Char /\ Digits \subseteq Hex
  /\ FixedKey \in Digits /\ "0" \in Digits
  /\ "*" \in Char /\ "." \in Char /\ "=" \in Char
BY WireAssumption DEF Char, Hex

\* An operation code is a pair of characters.
LEMMA OpsChars ==
  ASSUME NEW o \in Ops
  PROVE  o = <<o[1], o[2]>> /\ o[1] \in Char /\ o[2] \in Char
<1>1. {"r", "m", "w", "i", "v", "b", "c"} \subseteq Char
  BY DEF Char, Hex, Widths
<1>2. o \in {RM, RI, RC, CI, WM, WI, WC, MB, VI}
  BY DEF Ops, Reads, BusReads, BusWrites
<1> QED
  BY <1>1, <1>2 DEF RM, WM, RI, WI, RC, WC, CI, MB, VI

\* serial_get_nibble always yields a digit.
LEMMA NibbleHex == \A c : Nibble(c) \in Hex /\ (c \in Hex => Nibble(c) = c)
BY CharIn DEF Nibble
-----------------------------------------------------------------------------
(***************************************************************************)
(* The text of each kind of access.                                        *)
(***************************************************************************)

\* A read of memory or an I/O port.
LEMMA BusReadText ==
  ASSUME NEW r \in Access, r.op \in BusReads
  PROVE  /\ r.op \in Ops /\ r.width \in Widths /\ r.args[1] \in Hex
         /\ r = [op |-> r.op, width |-> r.width, args |-> <<r.args[1]>>]
         /\ Command(r) = <<"*", r.op[1], r.op[2], r.args[1], ".", r.width>>
<1>1. r \in [op : BusReads, width : Widths, args : {<<a>> : a \in Hex}]
  BY OpsDistinct DEF Access
<1> QED
  BY <1>1, OpsDistinct DEF Command, Ops, Reads

\* A write to memory or an I/O port.
LEMMA BusWriteText ==
  ASSUME NEW r \in Access, r.op \in BusWrites
  PROVE  /\ r.op \in Ops /\ r.width \in Widths
         /\ r.args[1] \in Hex /\ r.args[2] \in Hex
         /\ r = [op |-> r.op, width |-> r.width, args |-> <<r.args[1], r.args[2]>>]
         /\ Command(r) = <<"*", r.op[1], r.op[2], r.args[1], ".", r.width, "=", r.args[2]>>
<1>1. r \in [op : BusWrites, width : Widths, args : Hex \X Hex]
  BY OpsDistinct DEF Access, Reads
<1> QED
  BY <1>1, OpsDistinct DEF Command, Ops, Reads

\* rdmsr and cpuid.
LEMMA CpuReadText ==
  ASSUME NEW r \in Access, r.op \in {RC, CI}
  PROVE  /\ r.op \in Ops /\ r.args[1] \in Hex /\ r.args[2] \in Hex
         /\ r = [op |-> r.op, width |-> "none", args |-> <<r.args[1], r.args[2]>>]
         /\ Command(r) = <<"*", r.op[1], r.op[2], r.args[1], ".", r.args[2]>>
<1>1. r \in [op : {RC, CI}, width : {"none"}, args : Hex \X Hex]
  BY OpsDistinct DEF Access
<1> QED
  BY <1>1, OpsDistinct DEF Command, Ops, Reads

\* wrmsr.
LEMMA WriteMsrText ==
  ASSUME NEW r \in Access, r.op = WC
  PROVE  /\ r.op \in Ops
         /\ r.args[1] \in Hex /\ r.args[2] \in Hex /\ r.args[3] \in Hex /\ r.args[4] \in Hex
         /\ r = [op |-> WC, width |-> "none",
                 args |-> <<r.args[1], r.args[2], r.args[3], r.args[4]>>]
         /\ Command(r) = <<"*", r.op[1], r.op[2], r.args[1], ".", r.args[2],
                           "=", r.args[3], ".", r.args[4]>>
<1>1. r \in [op : {WC}, width : {"none"}, args : Hex \X Hex \X Hex \X Hex]
  BY OpsDistinct DEF Access
<1> QED
  BY <1>1, OpsDistinct DEF Command, Ops, Reads

\* There are no other accesses.
LEMMA AccessKinds ==
  \A r \in Access : r.op \in BusReads \/ r.op \in BusWrites \/ r.op \in {RC, CI} \/ r.op = WC
BY DEF Access
-----------------------------------------------------------------------------
(***************************************************************************)
(* Well-formed texts: what the shell expects after "*".                    *)
(***************************************************************************)
WellFormed(T) ==
  /\ T \in Seq(Char) /\ T[1] = "*" /\ Op(T) \in Ops /\ Len(T) = TextLen(Op(T))
  /\ Op(T) \in BusReads \cup BusWrites => T[6] \in Widths
  /\ \A k \in FieldPos(Op(T)) : T[k] \in Hex

\* Commands are as long as serialice.c takes them to be.
LEMMA TextLens == \A o : TextLen(o) \in {3, 6, 8, 10}
BY DEF TextLen

\* Where the fields of a command are, and how long it is.
LEMMA Layout ==
  /\ \A o \in BusReads  : FieldPos(o) = {4} /\ TextLen(o) = 6
  /\ \A o \in BusWrites : FieldPos(o) = {4, 8} /\ TextLen(o) = 8
  /\ \A o \in {RC, CI}  : FieldPos(o) = {4, 6} /\ TextLen(o) = 6
  /\ FieldPos(WC) = {4, 6, 8, 10} /\ TextLen(WC) = 10
  /\ \A o \in {MB, VI}  : FieldPos(o) = {} /\ TextLen(o) = 3
<1>1. \A o \in BusReads : FieldPos(o) = {4} /\ TextLen(o) = 6
  BY OpsDistinct DEF FieldPos, TextLen, Reads
<1>2. \A o \in BusWrites : FieldPos(o) = {4, 8} /\ TextLen(o) = 8
  BY OpsDistinct DEF FieldPos, TextLen
<1>3. \A o \in {RC, CI} : FieldPos(o) = {4, 6} /\ TextLen(o) = 6
  BY OpsDistinct DEF FieldPos, TextLen, Reads
<1>4. FieldPos(WC) = {4, 6, 8, 10} /\ TextLen(WC) = 10
  BY OpsDistinct DEF FieldPos, TextLen
<1>5. \A o \in {MB, VI} : FieldPos(o) = {} /\ TextLen(o) = 3
  BY OpsDistinct DEF FieldPos, TextLen
<1> QED
  BY <1>1, <1>2, <1>3, <1>4, <1>5

\* What the shell makes of a text, by kind of command.
LEMMA Decoded ==
  ASSUME NEW T
  PROVE  /\ Op(T) \in BusReads =>
              Decode(T) = [op |-> Op(T), width |-> T[6], args |-> <<Nibble(T[4])>>]
         /\ Op(T) \in BusWrites =>
              Decode(T) = [op |-> Op(T), width |-> T[6],
                           args |-> <<Nibble(T[4]), Nibble(T[8])>>]
         /\ Op(T) \in {RC, CI} =>
              Decode(T) = [op |-> Op(T), width |-> "none",
                           args |-> <<Nibble(T[4]), Nibble(T[6])>>]
         /\ Op(T) = WC =>
              Decode(T) = [op |-> Op(T), width |-> "none", args |->
                           <<Nibble(T[4]), IF Romcc THEN FixedKey ELSE Nibble(T[6]),
                             Nibble(T[8]), Nibble(T[10])>>]
<1>1. CASE Op(T) \in BusReads
  BY <1>1, OpsDistinct DEF Decode
<1>2. CASE Op(T) \in BusWrites
  <2>1. Op(T) \notin BusReads /\ Op(T) \notin {RC, CI} /\ Op(T) # WC
    BY <1>2, OpsDistinct
  <2> QED
    BY <1>2, <2>1 DEF Decode
<1>3. CASE Op(T) \in {RC, CI}
  <2>1. Op(T) \notin BusReads \cup BusWrites /\ Op(T) # WC
    BY <1>3, OpsDistinct
  <2> QED
    BY <1>3, <2>1 DEF Decode
<1>4. CASE Op(T) = WC
  <2>1. Op(T) \notin BusReads \cup BusWrites /\ Op(T) \notin {RC, CI}
    BY <1>4, OpsDistinct
  <2> QED
    BY <1>4, <2>1 DEF Decode
<1> QED
  BY <1>1, <1>2, <1>3, <1>4

\* Every command that serialice_inb ... serialice_cpuid format is well formed,
\* and the shell decodes it to the access it stands for.
LEMMA CommandFormed ==
  ASSUME NEW r \in Access
  PROVE  WellFormed(Command(r)) /\ Op(Command(r)) = r.op /\ Decode(Command(r)) = Effect(r)
<1> DEFINE T == Command(r)
<1>0. r.op \in Ops /\ r.op[1] \in Char /\ r.op[2] \in Char /\ r.op = <<r.op[1], r.op[2]>>
  BY AccessKinds, BusReadText, BusWriteText, CpuReadText, WriteMsrText, OpsChars
<1>1. CASE r.op \in BusReads
  <2>1. T = <<"*", r.op[1], r.op[2], r.args[1], ".", r.width>>
    BY <1>1, BusReadText
  <2>2. r.args[1] \in Hex /\ r.width \in Widths /\ r.args[1] \in Char /\ r.width \in Char
    BY <1>1, BusReadText, CharIn
  <2> HIDE DEF T
  <2>3. T \in Seq(Char) /\ Len(T) = 6 /\ T[1] = "*" /\ Op(T) = r.op
        /\ T[4] = r.args[1] /\ T[6] = r.width
    <3>0. "*" \in Char /\ "." \in Char /\ "=" \in Char
      BY CharIn
    <3>1. PICK a \in Char, b \in Char, c \in Char, d \in Char :
             /\ a = r.op[1] /\ b = r.op[2] /\ c = r.args[1]
             /\ d = r.width
             /\ T = <<"*", a, b, c, ".", d>>
      BY <1>0, <2>1, <2>2
    <3>2. T \in Seq(Char) /\ Len(T) = 6 /\ T[1] = "*" /\ Op(T) = <<a, b>>
      BY <3>0, <3>1 DEF Op
    <3>3. Op(T) = r.op
      BY <1>0, <3>1, <3>2, Zenon
    <3> QED
      BY <3>1, <3>2, <3>3
  <2>4. WellFormed(T)
    BY <1>0, <1>1, <2>2, <2>3, Layout DEF WellFormed
  <2>5. Decode(T) = r
    <3>1. Decode(T) = [op |-> r.op, width |-> r.width, args |-> <<r.args[1]>>]
      BY <1>1, <2>2, <2>3, Decoded, NibbleHex
    <3> QED
      BY <1>1, <3>1, BusReadText
  <2>6. Effect(r) = r
    BY <1>1, OpsDistinct DEF Effect
  <2> QED
    BY <2>3, <2>4, <2>5, <2>6 DEF T
<1>2. CASE r.op \in BusWrites
  <2>1. T = <<"*", r.op[1], r.op[2], r.args[1], ".", r.width, "=", r.args[2]>>
    BY <1>2, BusWriteText
  <2>2. /\ r.args[1] \in Hex /\ r.args[2] \in Hex /\ r.width \in Widths
        /\ r.args[1] \in Char /\ r.args[2] \in Char /\ r.width \in Char
    BY <1>2, BusWriteText, CharIn
  <2> HIDE DEF T
  <2>3. T \in Seq(Char) /\ Len(T) = 8 /\ T[1] = "*" /\ Op(T) = r.op
        /\ T[4] = r.args[1] /\ T[6] = r.width /\ T[8] = r.args[2]
    <3>0. "*" \in Char /\ "." \in Char /\ "=" \in Char
      BY CharIn
    <3>1. PICK a \in Char, b \in Char, c \in Char, d \in Char, e \in Char :
             /\ a = r.op[1] /\ b = r.op[2] /\ c = r.args[1]
             /\ d = r.width /\ e = r.args[2]
             /\ T = <<"*", a, b, c, ".", d, "=", e>>
      BY <1>0, <2>1, <2>2
    <3>2. T \in Seq(Char) /\ Len(T) = 8 /\ T[1] = "*" /\ Op(T) = <<a, b>>
      BY <3>0, <3>1 DEF Op
    <3>3. Op(T) = r.op
      BY <1>0, <3>1, <3>2, Zenon
    <3> QED
      BY <3>1, <3>2, <3>3
  <2>4. WellFormed(T)
    BY <1>0, <1>2, <2>2, <2>3, Layout DEF WellFormed
  <2>5. Decode(T) = r
    <3>1. Decode(T) = [op |-> r.op, width |-> r.width, args |-> <<r.args[1], r.args[2]>>]
      BY <1>2, <2>2, <2>3, Decoded, NibbleHex
    <3> QED
      BY <1>2, <3>1, BusWriteText
  <2>6. Effect(r) = r
    BY <1>2, OpsDistinct DEF Effect
  <2> QED
    BY <2>3, <2>4, <2>5, <2>6 DEF T
<1>3. CASE r.op \in {RC, CI}
  <2>1. T = <<"*", r.op[1], r.op[2], r.args[1], ".", r.args[2]>>
    BY <1>3, CpuReadText
  <2>2. /\ r.args[1] \in Hex /\ r.args[2] \in Hex
        /\ r.args[1] \in Char /\ r.args[2] \in Char
    BY <1>3, CpuReadText, CharIn
  <2> HIDE DEF T
  <2>3. T \in Seq(Char) /\ Len(T) = 6 /\ T[1] = "*" /\ Op(T) = r.op
        /\ T[4] = r.args[1] /\ T[6] = r.args[2]
    <3>0. "*" \in Char /\ "." \in Char /\ "=" \in Char
      BY CharIn
    <3>1. PICK a \in Char, b \in Char, c \in Char, d \in Char :
             /\ a = r.op[1] /\ b = r.op[2] /\ c = r.args[1]
             /\ d = r.args[2]
             /\ T = <<"*", a, b, c, ".", d>>
      BY <1>0, <2>1, <2>2
    <3>2. T \in Seq(Char) /\ Len(T) = 6 /\ T[1] = "*" /\ Op(T) = <<a, b>>
      BY <3>0, <3>1 DEF Op
    <3>3. Op(T) = r.op
      BY <1>0, <3>1, <3>2, Zenon
    <3> QED
      BY <3>1, <3>2, <3>3
  <2>4. WellFormed(T)
    <3>1. r.op \notin BusReads \cup BusWrites
      BY <1>3, OpsDistinct
    <3> QED
      BY <1>0, <1>3, <2>2, <2>3, <3>1, Layout DEF WellFormed
  <2>5. Decode(T) = r
    <3>1. Decode(T) = [op |-> r.op, width |-> "none", args |-> <<r.args[1], r.args[2]>>]
      BY <1>3, <2>2, <2>3, Decoded, NibbleHex
    <3> QED
      BY <1>3, <3>1, CpuReadText
  <2>6. Effect(r) = r
    BY <1>3, OpsDistinct DEF Effect
  <2> QED
    BY <2>3, <2>4, <2>5, <2>6 DEF T
<1>4. CASE r.op = WC
  <2>1. T = <<"*", r.op[1], r.op[2], r.args[1], ".", r.args[2], "=", r.args[3], ".", r.args[4]>>
    BY <1>4, WriteMsrText
  <2>2. /\ r.args[1] \in Hex /\ r.args[2] \in Hex /\ r.args[3] \in Hex /\ r.args[4] \in Hex
        /\ r.args[1] \in Char /\ r.args[2] \in Char /\ r.args[3] \in Char /\ r.args[4] \in Char
    BY <1>4, WriteMsrText, CharIn
  <2> HIDE DEF T
  <2>3. T \in Seq(Char) /\ Len(T) = 10 /\ T[1] = "*" /\ Op(T) = r.op
        /\ T[4] = r.args[1] /\ T[6] = r.args[2] /\ T[8] = r.args[3] /\ T[10] = r.args[4]
    <3>0. "*" \in Char /\ "." \in Char /\ "=" \in Char
      BY CharIn
    <3>1. PICK a \in Char, b \in Char, c \in Char, d \in Char, e \in Char, f \in Char :
             /\ a = r.op[1] /\ b = r.op[2] /\ c = r.args[1]
             /\ d = r.args[2] /\ e = r.args[3] /\ f = r.args[4]
             /\ T = <<"*", a, b, c, ".", d, "=", e, ".", f>>
      BY <1>0, <2>1, <2>2
    <3>2. T \in Seq(Char) /\ Len(T) = 10 /\ T[1] = "*" /\ Op(T) = <<a, b>>
      BY <3>0, <3>1 DEF Op
    <3>3. Op(T) = r.op
      BY <1>0, <3>1, <3>2, Zenon
    <3> QED
      BY <3>1, <3>2, <3>3
  <2>4. WellFormed(T)
    <3>1. r.op \notin BusReads \cup BusWrites
      BY <1>4, OpsDistinct
    <3> QED
      BY <1>0, <1>4, <2>2, <2>3, <3>1, Layout DEF WellFormed
  <2>5. Decode(T) = [op |-> WC, width |-> "none", args |->
                     <<r.args[1], IF Romcc THEN FixedKey ELSE r.args[2], r.args[3], r.args[4]>>]
    <3>1. Op(T) = WC
      BY <1>4, <2>3
    <3> QED
      BY <2>2, <2>3, <3>1, Decoded, NibbleHex
  <2>6. Effect(r) = [op |-> WC, width |-> "none", args |->
                     <<r.args[1], IF Romcc THEN FixedKey ELSE r.args[2], r.args[3], r.args[4]>>]
    BY <1>4, WriteMsrText DEF Effect
  <2> QED
    BY <2>3, <2>4, <2>5, <2>6 DEF T
<1> QED
  BY <1>1, <1>2, <1>3, <1>4, AccessKinds

\* A shell that has read a part of a well-formed command waits for the rest.
LEMMA PrefixWaits ==
  ASSUME NEW T, WellFormed(T), NEW n \in 0..Len(T) - 1
  PROVE  ~Complete(SubSeq(T, 1, n))
<1> DEFINE l == SubSeq(T, 1, n)
<1>1. Len(l) = n /\ \A k \in 1..n : l[k] = T[k]
  BY DEF WellFormed
<1>2. Len(T) \in {3, 6, 8, 10} /\ Len(T) = TextLen(Op(T))
  BY TextLens DEF WellFormed
<1>3. n >= 3 => Op(l) = Op(T)
  BY <1>1 DEF Op
<1> HIDE DEF l
<1>4. CASE n = 0
  BY <1>4, <1>1 DEF Complete, Need
<1>5. CASE n \in {1, 2}
  BY <1>5, <1>1 DEF Complete, Need, WellFormed
<1>6. CASE n >= 3
  <2>1. l # <<>> /\ l[1] = "*" /\ ~ (Len(l) < 3)
    BY <1>6, <1>1 DEF WellFormed
  <2>2. ~(Op(l) \in BusWrites /\ Len(l) >= 6 /\ l[6] \notin Widths)
    BY <1>6, <1>3, <1>1 DEF WellFormed
  <2>3. Need(l) = TextLen(Op(l))
    BY <2>1, <2>2 DEF Need
  <2>4. ~Complete(l)
    BY <2>3, <1>1, <1>2, <1>3, <1>6 DEF Complete
  <2> QED
    BY <2>4 DEF l
<1> QED
  BY <1>2, <1>4, <1>5, <1>6

\* A shell that has read all of it acts.
LEMMA WholeActs ==
  ASSUME NEW T, WellFormed(T)
  PROVE  Complete(T) /\ T # <<>> /\ Len(T) >= 3
<1>1. Len(T) \in {3, 6, 8, 10} /\ Len(T) = TextLen(Op(T))
  BY TextLens DEF WellFormed
<1> QED
  BY <1>1 DEF WellFormed, Complete, Need

\* The commands without parameters.
LEMMA PlainFormed ==
  /\ WellFormed(<<"*", "v", "i">>) /\ Op(<<"*", "v", "i">>) = VI
  /\ WellFormed(<<"*", "m", "b">>) /\ Op(<<"*", "m", "b">>) = MB
<1>1. Op(<<"*", "v", "i">>) = VI /\ Op(<<"*", "m", "b">>) = MB
  BY DEF Op, VI, MB
<1>2. <<"*", "v", "i">> \in Seq(Char) /\ <<"*", "m", "b">> \in Seq(Char)
  BY DEF Char, Widths
<1>3. VI \in Ops /\ MB \in Ops
  BY DEF Ops
<1>4. VI \notin BusReads \cup BusWrites /\ MB \notin BusReads \cup BusWrites
  BY OpsDistinct
<1> QED
  BY <1>1, <1>2, <1>3, <1>4, Layout DEF WellFormed

\* A character that is no "*" is acted on at once.
LEMMA TriggerActs ==
  /\ ~Complete(<<>>) /\ Complete(<<"@">>) /\ <<"@">>[1] # "*"
BY DEF Complete, Need
-----------------------------------------------------------------------------
(***************************************************************************)
(* Steps of the shell.                                                     *)
(***************************************************************************)

\* Without input, a shell that needs more of it does nothing.
LEMMA ShellIdles ==
  ASSUME h2t = <<>>, ~Complete(line)
  PROVE  ~ShellNext
BY DEF ShellNext, Recv, At, BusRead, BusWrite, CpuRead, WriteMsr, Mainboard, Version,
       Unknown, NotACommand

\* A shell that needs more input reads one character, and echoes it.
LEMMA ShellReads ==
  ASSUME NEW T, NEW n \in 0..Len(T) - 1, WellFormed(T) \/ T = <<"@">>,
         line = SubSeq(T, 1, n), h2t # <<>> => Head(h2t) = T[n + 1], t2h \in Seq(Char),
         ShellNext
  PROVE  /\ line' = SubSeq(T, 1, n + 1) /\ line' = Append(line, T[n + 1])
         /\ h2t # <<>> /\ h2t' = Tail(h2t) /\ t2h' = t2h \o <<T[n + 1]>>
         /\ up' = up /\ done' = done
<1>1. T \in Seq(Char)
  <2>1. "@" \in Char
    BY DEF Char
  <2> QED
    BY <2>1 DEF WellFormed
<1>2. T[n + 1] \in Char
  BY <1>1
<1>3. ~Complete(line)
  <2>1. CASE T = <<"@">>
    <3>1. line = <<>>
      BY <2>1
    <3> QED
      BY <3>1, TriggerActs
  <2> QED
    BY <2>1, PrefixWaits
<1>4. Recv
  BY <1>3 DEF ShellNext, At, BusRead, BusWrite, CpuRead, WriteMsr, Mainboard, Version,
              Unknown, NotACommand
<1> DEFINE c == T[n + 1]
           l == SubSeq(T, 1, n + 1)
<1>5. h2t # <<>> /\ Head(h2t) = c
  BY <1>4 DEF Recv
<1>6. Append(line, c) = l
  BY <1>1, <1>2
<1>7. Len(l) = n + 1 /\ \A k \in 1..n + 1 : l[k] = T[k]
  BY <1>1
<1>8. Len(l) >= 4 /\ Len(l) \in FieldPos(Op(l)) => c \in Hex
  <2>1. SUFFICES ASSUME n + 1 >= 4, n + 1 \in FieldPos(Op(l)) PROVE c \in Hex
    BY <1>7
  <2>2. WellFormed(T)
    BY <2>1
  <2>3. Op(l) = Op(T)
    BY <2>1, <1>7 DEF Op
  <2> QED
    BY <2>1, <2>2, <2>3 DEF WellFormed
<1>9. c \in Char
  BY <1>2
<1> HIDE DEF c, l
<1>10. line' = l /\ h2t' = Tail(h2t) /\ up' = up /\ done' = done
  BY <1>4, <1>5, <1>6 DEF Recv
<1>11. t2h' = t2h \o <<c>> \o <<>>
  BY <1>4, <1>5, <1>6, <1>8 DEF Recv
<1>12. t2h \o <<c>> \o <<>> = t2h \o <<c>>
  BY <1>9
<1> QED
  BY <1>5, <1>6, <1>10, <1>11, <1>12 DEF c, l

\* A shell that has read a whole command carries it out, once, and is back at
\* its prompt.
LEMMA ShellActs ==
  ASSUME NEW r \in Access, line = Command(r), ShellNext
  PROVE  \E out \in Results(r) :
           /\ done' = Append(done, [acc |-> Effect(r), out |-> out])
           /\ line' = <<>> /\ h2t' = h2t /\ up' = up
           /\ t2h' = t2h \o (IF r.op \in Reads THEN ReplyOf(out) ELSE <<>>) \o Prompt
<1>1. WellFormed(line) /\ Op(line) = r.op /\ Decode(line) = Effect(r)
  BY CommandFormed
<1>2. Complete(line) /\ line[1] = "*"
  BY <1>1, WholeActs DEF WellFormed
<1>3. r.op \in Ops \ {MB, VI}
  BY AccessKinds, OpsDistinct DEF Ops, Reads
<1>4. BusRead \/ BusWrite \/ CpuRead \/ WriteMsr
  BY <1>1, <1>2, <1>3 DEF ShellNext, Recv, At, Mainboard, Version, Unknown, NotACommand
<1>5. Results(r) = Outputs(r.op)
  BY DEF Results, Outputs
<1>6. CASE BusRead
  <2>1. r.op \in BusReads /\ line[6] \in Widths /\ r.op \in Reads
    BY <1>1, <1>6 DEF BusRead, At, WellFormed, Reads
  <2>2. Arity(r.op) = 1 /\ Arity(RM) = 1
    BY <2>1, OpsDistinct DEF Arity
  <2>3. Outputs(RM) = Results(r)
    BY <2>2, <1>5 DEF Outputs
  <2>4. PICK out \in Results(r) : Perform(out) /\ Finish(ReplyOf(out))
    BY <1>6, <2>1, <2>3 DEF BusRead
  <2> QED
    BY <1>1, <2>1, <2>4 DEF Perform, Finish
<1>7. CASE BusWrite
  <2>1. r.op \in BusWrites /\ line[6] \in Widths /\ r.op \notin Reads
    BY <1>1, <1>7, OpsDistinct DEF BusWrite, At, WellFormed
  <2>2. Arity(r.op) = 0
    BY <2>1, OpsDistinct DEF Arity, Reads
  <2>3. <<>> \in Results(r)
    BY <2>2 DEF Results
  <2> QED
    BY <1>1, <1>7, <2>1, <2>3 DEF BusWrite, Perform, Finish
<1>8. CASE CpuRead
  <2>1. r.op \in {RC, CI} /\ r.op \in Reads
    BY <1>1, <1>8 DEF CpuRead, At, Reads
  <2>2. PICK out \in Results(r) : Perform(out) /\ Finish(ReplyOf(out))
    BY <1>1, <1>5, <1>8 DEF CpuRead
  <2> QED
    BY <1>1, <2>1, <2>2 DEF Perform, Finish
<1>9. CASE WriteMsr
  <2>1. r.op = WC /\ r.op \notin Reads
    BY <1>1, <1>9, OpsDistinct DEF WriteMsr, At
  <2>2. Arity(r.op) = 0
    BY <2>1, OpsDistinct DEF Arity, Reads
  <2>3. <<>> \in Results(r)
    BY <2>2 DEF Results
  <2> QED
    BY <1>1, <1>9, <2>1, <2>3 DEF WriteMsr, Perform, Finish
<1> QED
  BY <1>4, <1>6, <1>7, <1>8, <1>9

\* The same for the trigger and the commands of the handshake.
LEMMA ShellAnswers ==
  ASSUME NEW T \in {<<"@">>, <<"*", "v", "i">>, <<"*", "m", "b">>}, line = T, ShellNext
  PROVE  /\ done' = done /\ line' = <<>> /\ h2t' = h2t /\ up' = up
         /\ t2h' = t2h \o (CASE T = <<"@">>          -> <<>>
                             [] T = <<"*", "v", "i">> -> Banner
                             [] OTHER                -> BoardName) \o Prompt
<1>1. CASE T = <<"@">>
  <2>1. NotACommand
    BY <1>1, TriggerActs
       DEF ShellNext, Recv, At, BusRead, BusWrite, CpuRead, WriteMsr, Mainboard, Version, Unknown
  <2> QED
    BY <1>1, <2>1 DEF NotACommand, Finish
<1>2. CASE T = <<"*", "v", "i">>
  <2>1. Complete(line) /\ line[1] = "*" /\ Op(line) = VI /\ VI \in Ops
    BY <1>2, PlainFormed, WholeActs DEF Ops
  <2>2. Version
    BY <2>1, OpsDistinct
       DEF ShellNext, Recv, At, BusRead, BusWrite, CpuRead, WriteMsr, Mainboard, Unknown, NotACommand
  <2>3. T # <<"@">>
    BY <1>2
  <2> QED
    BY <1>2, <2>2, <2>3 DEF Version, Finish
<1>3. CASE T = <<"*", "m", "b">>
  <2>1. Complete(line) /\ line[1] = "*" /\ Op(line) = MB /\ MB \in Ops
    BY <1>3, PlainFormed, WholeActs DEF Ops
  <2>2. Mainboard
    BY <2>1, OpsDistinct
       DEF ShellNext, Recv, At, BusRead, BusWrite, CpuRead, WriteMsr, Version, Unknown, NotACommand
  <2>3. T # <<"@">> /\ T # <<"*", "v", "i">>
    BY <1>3
  <2> QED
    BY <1>3, <2>2, <2>3 DEF Mainboard, Finish
<1> QED
  BY <1>1, <1>2, <1>3
=============================================================================
