-------------------------- MODULE SerialLinkProofs --------------------------
(***************************************************************************)
(* Theorems about the serial link: its state stays well typed whatever     *)
(* happens, and in a session without faults shell and driver never lose    *)
(* each other: Lockstep is inductive.                                      *)
(***************************************************************************)
EXTENDS SerialLink, SerialShellProofs, SequenceTheorems

AnyInit == WarmInit \/ ColdInit
-----------------------------------------------------------------------------
(***************************************************************************)
(* Types.                                                                  *)
(***************************************************************************)

\* Everything the shell prints consists of characters of the line.
LEMMA PrintedChars ==
  /\ Prompt \in Seq(Char) /\ Banner \in Seq(Char) /\ BoardName \in Seq(Char)
  /\ ErrorText \in Seq(Char) /\ ParseError \in Seq(Char)
<1>1. \E a, b, c \in Char : Prompt = <<a, b, c>>
  BY DEF Prompt, Char
<1>2. \E a, b \in Char : Banner = <<a, b, b, b, a>>
  BY DEF Banner, Char
<1>3. \E a, b, c \in Char : BoardName = <<a, b, b, b, b, b, b, c>>
  BY DEF BoardName, Char, Widths
<1>4. \E a, b \in Char : ErrorText = <<a, b>>
  BY DEF ErrorText, Char
<1>5. \E a, b \in Char : ParseError = <<a, b>>
  BY DEF ParseError, Char
<1> QED
  BY <1>1, <1>2, <1>3, <1>4, <1>5

\* So do the replies to reads.
LEMMA ReplyChars ==
  ASSUME NEW op \in Reads, NEW out \in Outputs(op)
  PROVE  ReplyOf(out) \in Seq(Char)
<1>1. "nl" \in Char /\ "." \in Char /\ Digits \subseteq Char
  BY CharIn DEF Char
<1>2. Arity(op) \in {1, 2, 4}
  BY DEF Arity, Reads
<1>3. out \in [1..Arity(op) -> Char] /\ Len(out) = Arity(op)
  BY <1>1, <1>2 DEF Outputs
<1>4. CASE Arity(op) = 1
  BY <1>1, <1>3, <1>4 DEF ReplyOf
<1>5. CASE Arity(op) = 2
  BY <1>1, <1>3, <1>5 DEF ReplyOf
<1>7. "0" \in Char
  BY <1>1, WireAssumption
<1>6. CASE Arity(op) = 4
  BY <1>1, <1>3, <1>6, <1>7 DEF ReplyOf
<1> QED
  BY <1>2, <1>4, <1>5, <1>6

\* What the shell performs is an access of its own kind, whatever it has read.
LEMMA DecodeType ==
  ASSUME NEW l, Op(l) \in Reads \cup BusWrites \cup {WC},
         Op(l) \in BusReads \cup BusWrites => l[6] \in Widths
  PROVE  Decode(l) \in [op : Ops, width : Char \cup {"none"}, args : Seq(Hex)]
<1>1. Op(l) \in Ops /\ FixedKey \in Hex
  BY CharIn DEF Ops
<1>2. \A c : Nibble(c) \in Hex
  BY NibbleHex
<1>3. CASE Op(l) \in BusReads \cup BusWrites
  <2>1. PICK w \in Widths, a \in Seq(Hex) :
          Decode(l) = [op |-> Op(l), width |-> w, args |-> a]
    <3>1. <<Nibble(l[4])>> \in Seq(Hex) /\ <<Nibble(l[4]), Nibble(l[8])>> \in Seq(Hex)
      BY <1>2
    <3> QED
      BY <1>3, <3>1, Decoded
  <2> QED
    BY <1>1, <2>1, CharIn
<1>4. CASE Op(l) \in {RC, CI, WC}
  <2>1. PICK a \in Seq(Hex) : Decode(l) = [op |-> Op(l), width |-> "none", args |-> a]
    <3>1. <<Nibble(l[4]), Nibble(l[6])>> \in Seq(Hex)
      BY <1>2
    <3>2. \A k \in Hex : <<Nibble(l[4]), k, Nibble(l[8]), Nibble(l[10])>> \in Seq(Hex)
      BY <1>2
    <3> QED
      BY <1>1, <1>2, <1>4, <3>1, <3>2, Decoded
  <2> QED
    BY <1>1, <2>1
<1> QED
  BY <1>3, <1>4 DEF Reads

\* A step of the shell keeps the types of its state and of the line.
LEMMA ShellTypes ==
  ASSUME LineTypeOK, ShellTypeOK, ShellNext
  PROVE  LineTypeOK' /\ ShellTypeOK'
<1> DEFINE Entry == [acc : [op : Ops, width : Char \cup {"none"}, args : Seq(Hex)],
                     out : UNION {Outputs(op) : op \in Ops}]
<1>0. /\ h2t \in Seq(Char) /\ t2h \in Seq(Char) /\ line \in Seq(Char)
      /\ up \in BOOLEAN /\ done \in Seq(Entry)
  BY DEF LineTypeOK, ShellTypeOK
<1>1. SUFFICES /\ h2t' \in Seq(Char) /\ t2h' \in Seq(Char) /\ line' \in Seq(Char)
               /\ up' \in BOOLEAN /\ done' \in Seq(Entry)
  BY DEF LineTypeOK, ShellTypeOK
<1>2. ASSUME NEW reply \in Seq(Char), Finish(reply)
      PROVE  h2t' \in Seq(Char) /\ t2h' \in Seq(Char) /\ line' \in Seq(Char) /\ up' \in BOOLEAN
  BY <1>0, <1>2, PrintedChars DEF Finish
<1>3. <<>> \in Seq(Char) /\ <<"nl">> \in Seq(Char)
  BY DEF Char
<1>4. ASSUME NEW op \in Ops, NEW out \in Outputs(op), Perform(out),
             Op(line) \in Reads \cup BusWrites \cup {WC},
             Op(line) \in BusReads \cup BusWrites => line[6] \in Widths
      PROVE  done' \in Seq(Entry)
  <2>1. [acc |-> Decode(line), out |-> out] \in Entry
    BY <1>4, DecodeType
  <2> HIDE DEF Entry
  <2> QED
    BY <1>0, <1>4, <2>1 DEF Perform
<1>5. \A op \in BusWrites \cup {WC} : <<>> \in Outputs(op) /\ op \in Ops
  BY OpsDistinct DEF Outputs, Arity, Ops, Reads
<1> HIDE DEF Entry
<1>6. CASE Recv
  <2>1. h2t # <<>> /\ Head(h2t) \in Char /\ Tail(h2t) \in Seq(Char)
    BY <1>0, <1>6 DEF Recv
  <2>2. h2t' = Tail(h2t) /\ line' = Append(line, Head(h2t)) /\ up' = up /\ done' = done
    BY <1>6 DEF Recv
  <2>3. PICK s \in {ParseError, <<>>} : t2h' = t2h \o <<Head(h2t)>> \o s
    BY <1>6 DEF Recv
  <2>4. s \in Seq(Char)
    BY <1>3, PrintedChars
  <2>5. t2h \o <<Head(h2t)>> \in Seq(Char)
    BY <1>0, <2>1
  <2> QED
    BY <1>0, <2>1, <2>2, <2>3, <2>4, <2>5
<1>7. CASE BusRead
  <2>1. Op(line) \in BusReads
    BY <1>7 DEF BusRead, At
  <2>2. CASE line[6] \in Widths
    <3>1. PICK out \in Outputs(RM) : Perform(out) /\ Finish(ReplyOf(out))
      BY <1>7, <2>2 DEF BusRead
    <3>2. RM \in Reads /\ RM \in Ops
      BY DEF Reads, Ops, BusReads
    <3>3. ReplyOf(out) \in Seq(Char)
      BY <3>2, ReplyChars
    <3> QED
      BY <1>2, <1>4, <2>1, <2>2, <3>1, <3>2, <3>3, OpsDistinct DEF Reads
  <2>3. CASE line[6] \notin Widths
    BY <1>0, <1>2, <1>3, <1>7, <2>3 DEF BusRead
  <2> QED
    BY <2>2, <2>3
<1>8. CASE BusWrite
  <2>1. Op(line) \in BusWrites /\ Finish(<<>>)
    BY <1>8 DEF BusWrite, At
  <2>2. CASE line[6] \in Widths
    BY <1>2, <1>3, <1>4, <1>5, <1>8, <2>1, <2>2 DEF BusWrite
  <2>3. CASE line[6] \notin Widths
    BY <1>0, <1>2, <1>3, <1>8, <2>1, <2>3 DEF BusWrite
  <2> QED
    BY <2>2, <2>3
<1>9. CASE CpuRead
  <2>1. Op(line) \in {RC, CI} /\ Op(line) \in Reads /\ Op(line) \in Ops
    BY <1>9 DEF CpuRead, At, Reads, Ops
  <2>2. PICK out \in Outputs(Op(line)) : Perform(out) /\ Finish(ReplyOf(out))
    BY <1>9 DEF CpuRead
  <2>3. Op(line) \notin BusReads \cup BusWrites
    BY <2>1, OpsDistinct
  <2>4. ReplyOf(out) \in Seq(Char)
    BY <2>1, ReplyChars
  <2> QED
    BY <1>2, <1>4, <2>1, <2>2, <2>3, <2>4
<1>10. CASE WriteMsr
  <2>1. Op(line) = WC /\ Finish(<<>>) /\ Perform(<<>>)
    BY <1>10 DEF WriteMsr, At
  <2>2. WC \notin BusReads \cup BusWrites
    BY OpsDistinct
  <2> QED
    BY <1>2, <1>3, <1>4, <1>5, <2>1, <2>2
<1>11. CASE Mainboard \/ Version \/ Unknown \/ NotACommand
  BY <1>0, <1>2, <1>3, <1>11, PrintedChars DEF Mainboard, Version, Unknown, NotACommand
<1> QED
  BY <1>6, <1>7, <1>8, <1>9, <1>10, <1>11 DEF ShellNext

\* What the driver is writing is the trigger or a well-formed command.
LEMMA TextFormed ==
  ASSUME HostTypeOK, stage # "off", stage = "active" => step # "idle"
  PROVE  /\ Text \in Seq(Char) /\ Len(Text) >= 1
         /\ stage \in Handshake => Text = <<"@">>
         /\ stage = "version" => Text = <<"*", "v", "i">>
         /\ stage = "mainboard" => Text = <<"*", "m", "b">>
         /\ stage = "active" => req \in Access /\ Text = Command(req)
         /\ stage \notin Handshake => WellFormed(Text)
<1>1. "@" \in Char
  BY DEF Char
<1>2. CASE stage \in Handshake
  <2>1. Text = <<"@">> /\ stage \notin {"version", "mainboard", "active"}
    BY <1>2 DEF Text, Handshake
  <2> QED
    BY <1>1, <1>2, <2>1
<1>3. CASE stage = "version"
  <2>1. Text = <<"*", "v", "i">> /\ stage \notin Handshake
    BY <1>3 DEF Text, Handshake
  <2>2. WellFormed(Text) /\ Len(Text) = 3
    BY <2>1, PlainFormed
  <2> QED
    BY <1>3, <2>1, <2>2 DEF WellFormed
<1>4. CASE stage = "mainboard"
  <2>1. Text = <<"*", "m", "b">> /\ stage \notin Handshake
    BY <1>4 DEF Text, Handshake
  <2>2. WellFormed(Text) /\ Len(Text) = 3
    BY <2>1, PlainFormed
  <2> QED
    BY <1>4, <2>1, <2>2 DEF WellFormed
<1>5. CASE stage = "active"
  <2>1. req \in Access /\ Text = Command(req) /\ stage \notin Handshake
    BY <1>5 DEF Text, Handshake, HostTypeOK
  <2>2. WellFormed(Text)
    BY <2>1, CommandFormed
  <2> QED
    BY <1>5, <2>1, <2>2, WholeActs DEF WellFormed
<1> QED
  BY <1>2, <1>3, <1>4, <1>5 DEF HostTypeOK, Stages

\* What is left of a queue consists of the same characters.
LEMMA QueueParts ==
  ASSUME NEW s \in Seq(Char)
  PROVE  /\ \A n \in Nat : n <= Len(s) => SubSeq(s, n + 1, Len(s)) \in Seq(Char)
         /\ Suffixes(s) \subseteq Seq(Char) /\ Prefixes(s) \subseteq Seq(Char)
<1>1. <<>> \in Seq(Char) /\ \A k \in 1..Len(s) + 1 : SubSeq(s, k, Len(s)) \in Seq(Char)
  OBVIOUS
<1>2. \A k \in 0..Len(s) : SubSeq(s, 1, k) \in Seq(Char)
  OBVIOUS
<1>3. \A n \in Nat : n <= Len(s) => n + 1 \in 1..Len(s) + 1
  OBVIOUS
<1>4. Suffixes(s) \subseteq Seq(Char)
  <2>1. \A k \in 1..Len(s) : SubSeq(s, k, Len(s)) \in Seq(Char)
    OBVIOUS
  <2> QED
    BY <1>1, <2>1 DEF Suffixes
<1> QED
  BY <1>1, <1>2, <1>3, <1>4 DEF Prefixes

\* The values of a reply are digits.
LEMMA ResultType == \A op, buf : Result(op, buf) \in Seq(Hex)
<1>1. \A op : Arity(op) \in Nat
  BY DEF Arity
<1> QED
  BY <1>1, NibbleHex DEF Result

\* A command is begun with its first character.
LEMMA TextBegins ==
  ASSUME stage' = stage \/ (stage = "alive" /\ stage' = "retrigger"), req' = req,
         HostTypeOK, stage # "off", step # "idle"
  PROVE  Len(Text') \in Nat /\ Len(Text') >= 1
<1>1. Text \in Seq(Char) /\ Len(Text) >= 1
  BY TextFormed
<1>2. CASE stage' = stage
  <2>1. Text' = Text
    BY <1>2 DEF Text
  <2> QED
    BY <1>1, <2>1
<1>3. CASE stage = "alive" /\ stage' = "retrigger"
  <2>1. Text' = <<"@">>
    BY <1>3 DEF Text, Handshake
  <2> QED
    BY <2>1
<1> QED
  BY <1>2, <1>3

\* A step of the driver keeps the types of its state and of the line.
LEMMA HostTypes ==
  ASSUME LineTypeOK, HostTypeOK, HostNext
  PROVE  LineTypeOK' /\ HostTypeOK'
<1> DEFINE Entry == [req : Access, res : Seq(Hex)]
           Top == IF step \in {"write", "readback"} THEN Len(Text) - 1 ELSE 0
<1>1. h2t \in Seq(Char) /\ t2h \in Seq(Char)
  BY DEF LineTypeOK
<1>2. /\ stage \in Stages /\ step \in Steps /\ (stage = "off" => step = "idle")
      /\ (IF stage = "active" /\ step # "idle" THEN req \in Access
                                                ELSE req \in Access \cup {NoAccess})
      /\ sent \in 0..Top /\ warned \in BOOLEAN
      /\ issued \in Seq(Access) /\ log \in Seq(Entry)
  BY DEF HostTypeOK, Steps
<1>3. SUFFICES
      /\ h2t' \in Seq(Char) /\ t2h' \in Seq(Char)
      /\ stage' \in Stages /\ step' \in Steps /\ (stage' = "off" => step' = "idle")
      /\ (IF stage' = "active" /\ step' # "idle" THEN req' \in Access
                                                  ELSE req' \in Access \cup {NoAccess})
      /\ sent' \in 0..Top' /\ warned' \in BOOLEAN
      /\ issued' \in Seq(Access) /\ log' \in Seq(Entry)
  BY DEF HostTypeOK, LineTypeOK, Steps
<1>4. \A n \in Nat : n <= Len(t2h) /\ Consume(n) => t2h' \in Seq(Char)
  BY <1>1, QueueParts DEF Consume
<1>5. CASE Open
  <2>1. /\ stage' = "trigger" /\ step' = "write" /\ sent' = 0
        /\ t2h' \in Seq(Char) /\ h2t' \in Seq(Char) /\ stage = "off"
        /\ UNCHANGED <<req, warned, issued, log>>
    BY <1>1, <1>5, QueueParts DEF Open
  <2>2. Text' = <<"@">>
    BY <2>1 DEF Text, Handshake
  <2>3. sent' \in 0..Top'
    BY <2>1, <2>2
  <2> QED
    BY <1>2, <2>1, <2>3 DEF Stages, Handshake, Steps
<1>6. CASE Write
  <2>1. /\ step = "write" /\ step' = "readback" /\ h2t' = Append(h2t, Text[sent + 1])
        /\ UNCHANGED <<stage, req, sent, warned, issued, log, t2h>>
    BY <1>6 DEF Write
  <2>2. Text' = Text
    BY <2>1 DEF Text
  <2>3. Text \in Seq(Char) /\ sent \in 0..Len(Text) - 1
    BY <1>2, <2>1, TextFormed
  <2>4. Text[sent + 1] \in Char
    BY <2>3
  <2>5. h2t' \in Seq(Char)
    BY <1>1, <2>1, <2>4
  <2>6. sent' \in 0..Top'
    BY <2>1, <2>2, <2>3
  <2> QED
    BY <1>1, <1>2, <2>1, <2>5, <2>6 DEF Steps
<1>7. CASE Readback
  <2>1. /\ step = "readback" /\ t2h # <<>> /\ Consume(1) /\ warned' \in BOOLEAN
        /\ UNCHANGED <<req, issued, log, h2t>>
    BY <1>7 DEF Readback
  <2>2. t2h' \in Seq(Char)
    BY <1>1, <1>4, <2>1
  <2>3. Text \in Seq(Char) /\ sent \in 0..Len(Text) - 1
    BY <1>2, <2>1, TextFormed
  <2>4. CASE sent + 1 < Len(Text)
    <3>1. step' = "write" /\ sent' = sent + 1 /\ stage' = stage
      BY <1>7, <2>4 DEF Readback
    <3>2. Text' = Text
      BY <2>1, <3>1 DEF Text
    <3>3. sent' \in 0..Top'
      BY <2>3, <2>4, <3>1, <3>2
    <3> QED
      BY <1>1, <1>2, <2>1, <2>2, <3>1, <3>3 DEF Steps
  <2>5. CASE ~(sent + 1 < Len(Text))
    <3>1. sent' = 0 /\ step' \in {"prompt", "reply"}
      BY <1>7, <2>5 DEF Readback
    <3>2. stage' = stage \/ stage' \in {"alive", "version"}
      BY <1>7, <2>5 DEF Readback
    <3> QED
      BY <1>1, <1>2, <2>1, <2>2, <3>1, <3>2 DEF Steps, Stages, Handshake
  <2> QED
    BY <2>4, <2>5
<1>8. CASE WaitPrompt
  <2>1. /\ step = "prompt" /\ step' = "write" /\ UNCHANGED <<req, sent, warned, issued, log, h2t>>
        /\ stage' = IF stage = "alive" THEN "retrigger" ELSE stage
    BY <1>8 DEF WaitPrompt
  <2>2. PICK k \in DOMAIN t2h : PromptAt(k) /\ Consume(k + 2)
    BY <1>8 DEF WaitPrompt
  <2>3. t2h' \in Seq(Char)
    BY <1>1, <1>4, <2>2 DEF PromptAt
  <2>4. Len(Text') \in Nat /\ Len(Text') >= 1
    BY <1>2, <2>1, TextBegins
  <2>5. sent' \in 0..Top'
    BY <1>2, <2>1, <2>4
  <2> QED
    BY <1>1, <1>2, <2>1, <2>3, <2>5 DEF Steps, Stages, Handshake
<1>9. CASE GetVersion
  <2>1. /\ step = "reply" /\ step' = "prompt" /\ stage' = "mainboard"
        /\ UNCHANGED <<req, sent, warned, issued, log, h2t>>
    BY <1>9 DEF GetVersion
  <2>2. PICK k \in DOMAIN t2h : Consume(k)
    BY <1>9 DEF GetVersion
  <2>3. t2h' \in Seq(Char)
    BY <1>1, <1>4, <2>2
  <2>4. sent' \in 0..Top'
    BY <1>2, <2>1
  <2> QED
    BY <1>1, <1>2, <2>1, <2>3, <2>4 DEF Steps, Stages
<1>10. CASE GetMainboard
  <2>1. /\ step = "reply" /\ step' = "idle" /\ stage' = "active" /\ stage = "mainboard"
        /\ Len(t2h) >= ReplyLen /\ Consume(ReplyLen)
        /\ UNCHANGED <<req, sent, warned, issued, log, h2t>>
    BY <1>10 DEF GetMainboard
  <2>2. ReplyLen = 7
    BY <2>1 DEF ReplyLen
  <2>3. t2h' \in Seq(Char)
    BY <1>1, <1>4, <2>1, <2>2
  <2>4. sent' \in 0..Top'
    BY <1>2, <2>1
  <2> QED
    BY <1>1, <1>2, <2>1, <2>3, <2>4 DEF Steps, Stages
<1>11. CASE Return
  <2>1. /\ step = "reply" /\ step' = "idle" /\ stage = "active"
        /\ Len(t2h) >= ReplyLen /\ Consume(ReplyLen)
        /\ UNCHANGED <<stage, req, sent, warned, issued, h2t>>
        /\ log' = Append(log, [req |-> req, res |-> Result(req.op, SubSeq(t2h, 1, ReplyLen))])
    BY <1>11 DEF Return
  <2>2. ReplyLen \in Nat
    BY <2>1 DEF ReplyLen, Arity, EndOf
  <2>3. t2h' \in Seq(Char)
    BY <1>1, <1>4, <2>1, <2>2
  <2>4. [req |-> req, res |-> Result(req.op, SubSeq(t2h, 1, ReplyLen))] \in Entry
    BY <1>2, <2>1, ResultType
  <2>5. log' \in Seq(Entry)
    BY <1>2, <2>1, <2>4
  <2>6. sent' \in 0..Top'
    BY <1>2, <2>1
  <2> QED
    BY <1>1, <1>2, <2>1, <2>3, <2>5, <2>6 DEF Steps
<1>12. ASSUME NEW r \in Guest, Issue(r)
       PROVE  /\ h2t' \in Seq(Char) /\ t2h' \in Seq(Char)
              /\ stage' \in Stages /\ step' \in Steps /\ (stage' = "off" => step' = "idle")
              /\ (IF stage' = "active" /\ step' # "idle" THEN req' \in Access
                                                  ELSE req' \in Access \cup {NoAccess})
              /\ sent' \in 0..Top' /\ warned' \in BOOLEAN
              /\ issued' \in Seq(Access) /\ log' \in Seq(Entry)
  <2>1. /\ stage = "active" /\ step = "idle" /\ step' = "prompt"
        /\ req' = r /\ issued' = Append(issued, r)
        /\ UNCHANGED <<stage, sent, warned, log, t2h, h2t>>
    BY <1>12 DEF Issue
  <2>2. r \in Access
    BY HostAssumption
  <2>3. sent' \in 0..Top'
    BY <1>2, <2>1
  <2> QED
    BY <1>1, <1>2, <2>1, <2>2, <2>3 DEF Steps
<1> QED
  BY <1>5, <1>6, <1>7, <1>8, <1>9, <1>10, <1>11, <1>12 DEF HostNext, Drive

\* No step leaves the types.
LEMMA TypeStep ==
  ASSUME TypeOK, [Next]_vars
  PROVE  TypeOK'
<1>1. CASE Shell
  <2>1. LineTypeOK' /\ ShellTypeOK'
    BY <1>1, ShellTypes DEF TypeOK, Shell
  <2>2. HostTypeOK'
    BY <1>1 DEF TypeOK, Shell, hostVars, HostTypeOK, Text
  <2> QED
    BY <1>1, <2>1, <2>2 DEF TypeOK, Shell
<1>2. CASE Host
  <2>1. LineTypeOK' /\ HostTypeOK'
    BY <1>2, HostTypes DEF TypeOK, Host
  <2>2. ShellTypeOK'
    BY <1>2 DEF TypeOK, Host, shellVars, ShellTypeOK
  <2> QED
    BY <1>2, <2>1, <2>2 DEF TypeOK, Host
<1>3. CASE Reset
  <2>1. /\ boots < MaxBoots /\ boots' = boots + 1 /\ UNCHANGED <<hostVars, kills>>
        /\ up' = TRUE /\ line' = <<>> /\ h2t' = <<>> /\ done' = done
    BY <1>3 DEF Reset, Boot
  <2>2. PICK s \in Prefixes(t2h) : t2h' = s \o Banner \o Prompt
    BY <1>3 DEF Reset, Boot
  <2>3. s \in Seq(Char)
    BY QueueParts DEF TypeOK, LineTypeOK
  <2>4. t2h' \in Seq(Char)
    BY <2>2, <2>3, PrintedChars
  <2>5. HostTypeOK'
    BY <2>1 DEF TypeOK, hostVars, HostTypeOK, Text
  <2>6. ShellTypeOK'
    BY <2>1 DEF TypeOK, ShellTypeOK
  <2>7. boots' \in 0..MaxBoots /\ kills' \in 0..MaxKills
    BY <2>1, LinkAssumption DEF TypeOK
  <2> QED
    BY <2>1, <2>4, <2>5, <2>6, <2>7 DEF TypeOK, LineTypeOK
<1>4. CASE KillHost
  <2>1. /\ kills < MaxKills /\ kills' = kills + 1 /\ UNCHANGED <<shellVars, boots>>
        /\ stage' = "off" /\ step' = "idle" /\ sent' = 0 /\ req' = NoAccess
        /\ UNCHANGED <<warned, issued, log, h2t, t2h>>
    BY <1>4 DEF KillHost, Kill
  <2>2. HostTypeOK'
    BY <2>1 DEF TypeOK, HostTypeOK, Stages
  <2>3. ShellTypeOK' /\ LineTypeOK'
    BY <2>1 DEF TypeOK, ShellTypeOK, LineTypeOK, shellVars
  <2>4. boots' \in 0..MaxBoots /\ kills' \in 0..MaxKills
    BY <2>1, LinkAssumption DEF TypeOK
  <2> QED
    BY <2>2, <2>3, <2>4 DEF TypeOK
<1>5. CASE UNCHANGED vars
  BY <1>5 DEF vars, TypeOK, LineTypeOK, ShellTypeOK, HostTypeOK, Text, shellVars, hostVars
<1> QED
  BY <1>1, <1>2, <1>3, <1>4, <1>5 DEF Next, Session

\* Both initial states are well typed.
LEMMA TypeInit ==
  ASSUME AnyInit
  PROVE  TypeOK
<1>1. /\ h2t = <<>> /\ t2h = <<>> /\ line = <<>> /\ up \in BOOLEAN /\ done = <<>>
      /\ HostInit /\ boots = 0 /\ kills = 0
  BY DEF AnyInit, WarmInit, ColdInit, Quiet, AtPrompt, PoweredOff
<1>2. LineTypeOK /\ ShellTypeOK
  BY <1>1 DEF LineTypeOK, ShellTypeOK
<1>3. HostTypeOK
  <2>1. /\ stage = "off" /\ step = "idle" /\ req = NoAccess /\ sent = 0
        /\ warned = FALSE /\ issued = <<>> /\ log = <<>>
    BY <1>1 DEF HostInit
  <2>2. /\ stage \in Stages /\ issued \in Seq(Access)
        /\ log \in Seq([req : Access, res : Seq(Hex)])
    BY <2>1 DEF Stages
  <2>3. warned \in BOOLEAN
    BY <2>1
  <2>4. sent \in 0..IF step \in {"write", "readback"} THEN Len(Text) - 1 ELSE 0
    BY <2>1
  <2> QED
    BY <2>1, <2>2, <2>3, <2>4, Zenon DEF HostTypeOK
<1> QED
  BY <1>1, <1>2, <1>3, LinkAssumption DEF TypeOK

\* Every state is well typed: whatever is started, reset or killed, and in
\* whatever order, shell and driver only ever handle characters of the line,
\* and the driver never reads past the end of the command it is sending.
THEOREM TypeCorrect == AnyInit /\ [][Next]_vars => []TypeOK
<1>1. AnyInit => TypeOK
  BY TypeInit
<1>2. TypeOK /\ [Next]_vars => TypeOK'
  BY TypeStep
<1> QED
  BY <1>1, <1>2, PTL
-----------------------------------------------------------------------------
(***************************************************************************)
(* Lockstep.  The induction goes phase by phase: which steps a phase       *)
(* allows, and which phase they lead to.                                   *)
(***************************************************************************)
Inv == TypeOK /\ Lockstep

\* The parts of the invariant that every phase needs.
LEMMA InvFacts ==
  ASSUME Inv
  PROVE  /\ up = TRUE /\ warned \in BOOLEAN /\ Recorded /\ Reachable
         /\ h2t \in Seq(Char) /\ t2h \in Seq(Char) /\ line \in Seq(Char)
         /\ done \in Seq([acc : [op : Ops, width : Char \cup {"none"}, args : Seq(Hex)],
                          out : UNION {Outputs(op) : op \in Ops}])
         /\ issued \in Seq(Access) /\ log \in Seq([req : Access, res : Seq(Hex)])
         /\ stage \in Stages /\ step \in Steps /\ (stage = "off" => step = "idle")
         /\ sent \in 0..IF step \in {"write", "readback"} THEN Len(Text) - 1 ELSE 0
BY DEF Inv, TypeOK, Lockstep, LineTypeOK, ShellTypeOK, HostTypeOK, Steps

\* While a command is on its way, its text is the trigger or well formed.
LEMMA CommandText ==
  ASSUME Inv, Commanding
  PROVE  /\ stage # "off" /\ Text \in Seq(Char) /\ Len(Text) >= 1
         /\ stage \in Handshake => Text = <<"@">>
         /\ stage = "version" => Text = <<"*", "v", "i">>
         /\ stage = "mainboard" => Text = <<"*", "m", "b">>
         /\ stage = "active" => req \in Access /\ Text = Command(req)
         /\ WellFormed(Text) \/ Text = <<"@">>
<1>1. step # "idle" /\ stage # "off" /\ HostTypeOK
  BY InvFacts DEF Commanding, Inv, TypeOK
<1> QED
  BY <1>1, TextFormed

\* A part of the text of a command does not make the shell act.
LEMMA PartWaits ==
  ASSUME Inv, Commanding, NEW n \in 0..Len(Text) - 1
  PROVE  ~Complete(SubSeq(Text, 1, n))
<1>1. CASE WellFormed(Text)
  BY <1>1, PrefixWaits
<1>2. CASE Text = <<"@">>
  <2>1. n = 0
    BY <1>2
  <2>2. SubSeq(Text, 1, n) = <<>>
    BY <1>2, <2>1
  <2> QED
    BY <2>2, TriggerActs
<1> QED
  BY <1>1, <1>2, CommandText

\* An access that the shell performs goes on record.
LEMMA RecordedOneMore ==
  ASSUME Inv, Len(done) < Len(issued), UNCHANGED hostVars,
         NEW out \in Results(issued[Len(done) + 1]),
         done' = Append(done, [acc |-> Effect(issued[Len(done) + 1]), out |-> out])
  PROVE  /\ Recorded' /\ Len(done') = Len(done) + 1 /\ done'[Len(done')].out = out
<1> DEFINE e == [acc |-> Effect(issued[Len(done) + 1]), out |-> out]
<1>1. e.acc = Effect(issued[Len(done) + 1]) /\ e.out = out
  OBVIOUS
<1> HIDE DEF e
<1>2. Len(done') = Len(done) + 1 /\ done'[Len(done')] = e
      /\ DOMAIN done' = 1..Len(done) + 1 /\ \A i \in 1..Len(done) : done'[i] = done[i]
  BY InvFacts DEF e
<1>3. \A i \in DOMAIN done' : /\ done'[i].acc = Effect(issued[i])
                              /\ done'[i].out \in Results(issued[i])
  <2>1. SUFFICES ASSUME NEW i \in 1..Len(done) + 1
                 PROVE  /\ done'[i].acc = Effect(issued[i])
                        /\ done'[i].out \in Results(issued[i])
    BY <1>2
  <2>2. CASE i = Len(done) + 1
    BY <1>1, <1>2, <2>2
  <2>3. CASE i # Len(done) + 1
    <3>1. i \in DOMAIN done /\ done'[i] = done[i]
      BY <1>2, <2>1, <2>3, InvFacts
    <3> QED
      BY <3>1, InvFacts DEF Recorded
  <2> QED
    BY <2>2, <2>3
<1>4. Len(done') <= Len(issued)
  BY <1>2, InvFacts
<1> QED
  BY <1>1, <1>2, <1>3, <1>4, InvFacts DEF Recorded, hostVars

\* Appending an answer to the echo.
LEMMA Joined ==
  ASSUME NEW a \in Seq(Char), NEW b \in Seq(Char)
  PROVE  a \o b \o Prompt = a \o (b \o Prompt) /\ a \o <<>> \o Prompt = a \o Prompt
         /\ <<>> \o Prompt = Prompt
<1>1. Prompt \in Seq(Char)
  BY PrintedChars
<1>2. a \o b \o Prompt = a \o (b \o Prompt)
  BY <1>1, ConcatAssociative
<1>3. a \o <<>> = a /\ <<>> \o Prompt = Prompt
  BY <1>1, ConcatEmptySeq
<1> QED
  BY <1>2, <1>3

\* The shell, having read the whole text, carries the command out once and
\* prints the answer the driver waits for.
LEMMA TextActs ==
  ASSUME Inv, Commanding, Shell, line = Text, Len(done) = Len(log)
  PROVE  /\ line' = <<>> /\ h2t' = h2t /\ up' = up /\ t2h' = t2h \o Answer'
         /\ Len(done') = Len(issued') /\ Recorded' /\ Answer' \in Seq(Char)
<1>1. ShellNext /\ UNCHANGED hostVars
  BY DEF Shell
<1>2. UNCHANGED <<stage, step, req, issued, log>>
  BY <1>1 DEF hostVars
<1>3. CASE stage = "active"
  <2>1. req \in Access /\ line = Command(req)
    BY <1>3, CommandText
  <2>2. Len(done) < Len(issued) /\ Len(issued) = Len(done) + 1 /\ req = issued[Len(done) + 1]
    BY <1>3, InvFacts DEF Commanding, Recorded
  <2>3. PICK out \in Results(req) :
          /\ done' = Append(done, [acc |-> Effect(req), out |-> out])
          /\ line' = <<>> /\ h2t' = h2t /\ up' = up
          /\ t2h' = t2h \o (IF req.op \in Reads THEN ReplyOf(out) ELSE <<>>) \o Prompt
    BY <1>1, <2>1, ShellActs
  <2>4. Recorded' /\ Len(done') = Len(done) + 1 /\ done'[Len(done')].out = out
    BY <1>1, <2>2, <2>3, RecordedOneMore
  <2>5. t2h' = t2h \o Answer' /\ Answer' \in Seq(Char)
    <3>1. CASE req.op \in Reads
      <4>1. ReplyOf(out) \in Seq(Char)
        BY <3>1, ReplyChars DEF Results, Outputs
      <4>2. Answer' = ReplyOf(out) \o Prompt
        BY <1>2, <1>3, <2>4, <3>1 DEF Answer
      <4> QED
        BY <2>3, <3>1, <4>1, <4>2, Joined, InvFacts, PrintedChars, ConcatProperties
    <3>2. CASE req.op \notin Reads
      <4>1. Answer' = Prompt
        BY <1>2, <1>3, <3>2 DEF Answer
      <4> QED
        BY <2>3, <3>2, <4>1, Joined, InvFacts, PrintedChars
    <3> QED
      BY <3>1, <3>2
  <2> QED
    BY <1>2, <2>2, <2>3, <2>4, <2>5
<1>4. CASE stage # "active"
  <2>1. issued = <<>> /\ Len(log) = 0 /\ Len(done) = 0
    BY <1>4, InvFacts DEF Recorded
  <2>2. line \in {<<"@">>, <<"*", "v", "i">>, <<"*", "m", "b">>}
    BY <1>4, CommandText, InvFacts DEF Stages
  <2>3. /\ done' = done /\ line' = <<>> /\ h2t' = h2t /\ up' = up
        /\ t2h' = t2h \o (CASE line = <<"@">>          -> <<>>
                            [] line = <<"*", "v", "i">> -> Banner
                            [] OTHER                   -> BoardName) \o Prompt
    BY <1>1, <2>2, ShellAnswers
  <2>4. t2h' = t2h \o Answer' /\ Answer' \in Seq(Char)
    <3>1. CASE stage \in Handshake
      <4>1. line = <<"@">>
        BY <3>1, CommandText
      <4>2. Answer' = Prompt
        BY <1>2, <3>1 DEF Answer, Handshake
      <4>3. t2h' = t2h \o <<>> \o Prompt
        BY <2>3, <4>1
      <4> QED
        BY <4>2, <4>3, Joined, InvFacts, PrintedChars
    <3>2. CASE stage = "version"
      <4>1. line = <<"*", "v", "i">> /\ line # <<"@">>
        BY <3>2, CommandText
      <4>2. Answer' = Banner \o Prompt
        BY <1>2, <3>2 DEF Answer
      <4>3. t2h' = t2h \o Banner \o Prompt
        BY <2>3, <4>1
      <4> QED
        BY <4>2, <4>3, Joined, InvFacts, PrintedChars, ConcatProperties
    <3>3. CASE stage = "mainboard"
      <4>1. line = <<"*", "m", "b">> /\ line # <<"@">> /\ line # <<"*", "v", "i">>
        BY <3>3, CommandText
      <4>2. Answer' = BoardName \o Prompt
        BY <1>2, <3>3 DEF Answer
      <4>3. t2h' = t2h \o BoardName \o Prompt
        BY <2>3, <4>1
      <4> QED
        BY <4>2, <4>3, Joined, InvFacts, PrintedChars, ConcatProperties
    <3> QED
      BY <1>4, <3>1, <3>2, <3>3, CommandText, InvFacts DEF Stages
  <2>5. Recorded'
    BY <1>2, <2>3, InvFacts DEF Recorded
  <2> QED
    BY <1>2, <2>1, <2>3, <2>4, <2>5
<1> QED
  BY <1>3, <1>4

\* The shell moves from phase to phase.
LEMMA ShellStep ==
  ASSUME Inv, Shell
  PROVE  Lockstep' /\ warned' = warned
<1>1. ShellNext /\ UNCHANGED <<stage, step, req, sent, warned, issued, log>>
  BY DEF Shell, hostVars
<1>2. Text' = Text /\ Reachable' /\ (Commanding => Commanding') /\ (Between => Between')
  BY <1>1, InvFacts DEF Text, Reachable, Commanding, Between
<1>3. h2t = <<>> => Complete(line)
  BY <1>1, ShellIdles
<1>4. SUFFICES /\ up' = TRUE /\ Recorded'
               /\ \/ Rest'
                  \/ Commanding' /\ (Echoed' \/ EchoedAndActed' \/ ReplyReady')
  BY <1>1, <1>2, InvFacts DEF Lockstep
<1>5. CASE Off
  BY <1>3, <1>5, TriggerActs DEF Off, Line
<1>6. CASE Rest
  BY <1>3, <1>6, TriggerActs DEF Rest
<1>7. CASE Posted
  <2>1. Between' /\ h2t = <<>> /\ t2h = <<>>
    BY <1>2, <1>7 DEF Posted, Line
  <2>2. <<>> \o <<>> \o Prompt = Prompt
    BY Joined, InvFacts
  <2>3. CASE stage \in {"alive", "version"} /\ line = <<"@">> /\ Len(done) = Len(log)
    <3>1. /\ done' = done /\ line' = <<>> /\ h2t' = h2t /\ up' = up
          /\ t2h' = t2h \o <<>> \o Prompt
      BY <1>1, <2>3, ShellAnswers
    <3>2. Recorded'
      BY <1>1, <3>1, InvFacts DEF Recorded
    <3> QED
      BY <1>1, <2>1, <2>2, <2>3, <3>1, <3>2, InvFacts DEF Rest
  <2>4. CASE /\ stage = "active" /\ Len(log) = Len(done) + 1
             /\ line = Command(issued[Len(log)]) /\ issued[Len(log)].op \notin Reads
    <3> DEFINE r == issued[Len(done) + 1]
    <3>1. Len(done) < Len(issued) /\ r \in Access /\ r.op \notin Reads /\ line = Command(r)
      BY <2>4, InvFacts DEF Recorded
    <3> HIDE DEF r
    <3>2. PICK out \in Results(r) :
            /\ done' = Append(done, [acc |-> Effect(r), out |-> out])
            /\ line' = <<>> /\ h2t' = h2t /\ up' = up
            /\ t2h' = t2h \o (IF r.op \in Reads THEN ReplyOf(out) ELSE <<>>) \o Prompt
      BY <1>1, <3>1, ShellActs
    <3>3. UNCHANGED hostVars
      BY DEF Shell
    <3>4. Recorded' /\ Len(done') = Len(done) + 1
      BY <3>1, <3>2, <3>3, RecordedOneMore DEF r
    <3>5. t2h' = Prompt /\ h2t' = <<>>
      BY <2>1, <2>2, <3>1, <3>2
    <3> QED
      BY <1>1, <2>1, <2>4, <3>2, <3>4, <3>5, InvFacts DEF Rest
  <2> QED
    BY <1>7, <2>3, <2>4 DEF Posted
<1>8. CASE Commanding /\ Writing
  <2>1. line = SubSeq(Text, 1, sent) /\ h2t = <<>> /\ sent \in 0..Len(Text) - 1
    BY <1>8, InvFacts, CommandText DEF Writing, Typed, Line
  <2> QED
    BY <1>3, <1>8, <2>1, PartWaits
<1>9. CASE Commanding /\ Unread
  <2>1. /\ line = SubSeq(Text, 1, sent) /\ sent \in 0..Len(Text) - 1
        /\ h2t = <<Text[sent + 1]>> /\ t2h = <<>> /\ Len(done) = Len(log) /\ step = "readback"
    BY <1>9, InvFacts, CommandText DEF Unread, Typed, Line
  <2>2. WellFormed(Text) \/ Text = <<"@">>
    BY <1>9, CommandText
  <2>3. /\ line' = SubSeq(Text, 1, sent + 1) /\ h2t' = <<>> /\ t2h' = <<Text[sent + 1]>>
        /\ up' = up /\ done' = done
    BY <1>1, <2>1, <2>2, ShellReads
  <2>4. Recorded'
    BY <1>1, <2>3, InvFacts DEF Recorded
  <2>5. Echoed'
    BY <1>1, <1>2, <2>1, <2>3 DEF Echoed, Typed, Line
  <2> QED
    BY <1>2, <1>9, <2>3, <2>4, <2>5, InvFacts
<1>10. CASE Commanding /\ Echoed
  <2>1. /\ step = "readback" /\ sent \in 0..Len(Text) - 1 /\ Len(Text) \in Nat
        /\ line = SubSeq(Text, 1, sent + 1) /\ Len(done) = Len(log)
        /\ h2t = <<>> /\ t2h = <<Text[sent + 1]>>
    BY <1>10, InvFacts, CommandText DEF Echoed, Typed, Line
  <2>2. CASE sent + 1 < Len(Text)
    <3>1. sent + 1 \in 0..Len(Text) - 1
      BY <2>1, <2>2
    <3> QED
      BY <1>3, <1>10, <2>1, <3>1, PartWaits
  <2>3. CASE sent + 1 = Len(Text)
    <3>1. line = Text
      BY <1>10, <2>1, <2>3, CommandText, SubSeqFull
    <3>2. /\ line' = <<>> /\ h2t' = h2t /\ up' = up /\ t2h' = t2h \o Answer'
          /\ Len(done') = Len(issued') /\ Recorded'
      BY <1>10, <2>1, <3>1, TextActs
    <3>3. EchoedAndActed'
      BY <1>1, <1>2, <2>1, <2>3, <3>2 DEF EchoedAndActed, Acted, Line
    <3> QED
      BY <1>2, <1>10, <3>2, <3>3, InvFacts
  <2>4. sent + 1 < Len(Text) \/ sent + 1 = Len(Text)
    BY <2>1
  <2> QED
    BY <2>2, <2>3, <2>4
<1>11. CASE Commanding /\ EchoedAndActed
  BY <1>3, <1>11, TriggerActs DEF EchoedAndActed, Acted, Line
<1>12. CASE Commanding /\ ToAct
  <2>1. /\ step = "reply" /\ sent = 0 /\ line = SubSeq(Text, 1, Len(Text))
        /\ Len(done) = Len(log) /\ h2t = <<>> /\ t2h = <<>>
    BY <1>12 DEF ToAct, Typed, Line
  <2>2. line = Text
    BY <1>12, <2>1, CommandText, SubSeqFull
  <2>3. /\ line' = <<>> /\ h2t' = h2t /\ up' = up /\ t2h' = t2h \o Answer'
        /\ Len(done') = Len(issued') /\ Recorded' /\ Answer' \in Seq(Char)
    BY <1>12, <2>1, <2>2, TextActs
  <2>4. t2h' = Answer'
    BY <2>1, <2>3, ConcatEmptySeq
  <2>5. ReplyReady'
    BY <1>1, <2>1, <2>3, <2>4 DEF ReplyReady, Acted, Line
  <2> QED
    BY <1>2, <1>12, <2>3, <2>5, InvFacts
<1>13. CASE Commanding /\ ReplyReady
  BY <1>3, <1>13, TriggerActs, InvFacts DEF ReplyReady, Acted, Line
<1> QED
  BY <1>5, <1>6, <1>7, <1>8, <1>9, <1>10, <1>11, <1>12, <1>13 DEF Inv, Lockstep
-----------------------------------------------------------------------------
(***************************************************************************)
(* What the driver waits for, as sequences.                                *)
(***************************************************************************)
LEMMA PromptShape == Prompt \in Seq(Char) /\ Len(Prompt) = 3 /\ Prompt[1] = "nl"
<1>1. Len(Prompt) = 3 /\ Prompt[1] = "nl"
  BY DEF Prompt
<1> QED
  BY <1>1, PrintedChars

LEMMA BannerShape ==
  /\ Banner \in Seq(Char) /\ Len(Banner) = 5
  /\ Banner[5] = "nl" /\ \A k \in 2..4 : Banner[k] # "nl"
<1>1. Len(Banner) = 5 /\ Banner[5] = "nl" /\ \A k \in 2..4 : Banner[k] # "nl"
  BY DEF Banner
<1> QED
  BY <1>1, PrintedChars

\* Two texts one after the other.
LEMMA Catenation ==
  ASSUME NEW a \in Seq(Char), NEW b \in Seq(Char)
  PROVE  /\ a \o b \in Seq(Char) /\ Len(a \o b) = Len(a) + Len(b)
         /\ \A i \in 1..Len(a) : (a \o b)[i] = a[i]
         /\ \A i \in 1..Len(b) : (a \o b)[Len(a) + i] = b[i]
<1>1. /\ Len(a \o b) = Len(a) + Len(b) /\ a \o b \in Seq(Char)
      /\ \A i \in 1..Len(a) + Len(b) : (a \o b)[i] = IF i <= Len(a) THEN a[i] ELSE b[i - Len(a)]
  BY ConcatProperties
<1> QED
  BY <1>1

\* Reading the first part of what is there leaves the second.
LEMMA Skip ==
  ASSUME NEW a \in Seq(Char), NEW b \in Seq(Char)
  PROVE  /\ SubSeq(a \o b, Len(a) + 1, Len(a \o b)) = b
         /\ Len(a \o b) = Len(a) + Len(b)
         /\ a # <<>> => Head(a \o b) = a[1]
<1>1. /\ Len(a \o b) = Len(a) + Len(b) /\ a \o b \in Seq(Char)
      /\ \A i \in 1..Len(a) + Len(b) : (a \o b)[i] = IF i <= Len(a) THEN a[i] ELSE b[i - Len(a)]
  BY ConcatProperties
<1>2. CASE b = <<>>
  BY <1>1, <1>2, SubSeqEmpty
<1>3. CASE b # <<>>
  <2>1. SubSeq(a \o b, Len(a) + 1, Len(a) + Len(b)) = SubSeq(b, 1, Len(b))
    BY <1>3, SubSeqOfConcat2
  <2> QED
    BY <1>1, <2>1, SubSeqFull
<1> QED
  BY <1>1, <1>2, <1>3

\* The driver finds the prompt at the front of the queue, or behind the last
\* character of the board name, and reads on from behind it.
LEMMA PromptFound ==
  ASSUME WaitPrompt, t2h \in {Prompt, <<"m">> \o Prompt}
  PROVE  t2h' = <<>>
<1>1. PICK k \in DOMAIN t2h :
        PromptAt(k) /\ (\A j \in 1..k - 1 : ~PromptAt(j)) /\ Consume(k + 2)
  BY DEF WaitPrompt
<1>2. k + 2 <= Len(t2h) /\ SubSeq(t2h, k, k + 2) = Prompt /\ k \in Nat \ {0}
  BY <1>1 DEF PromptAt
<1>3. "m" \in Char /\ <<"m">> \in Seq(Char)
  BY DEF Char
<1>4. CASE t2h = Prompt
  <2>1. k = 1
    BY <1>2, <1>4, PromptShape
  <2> QED
    BY <1>1, <1>4, <2>1, PromptShape DEF Consume
<1>5. CASE t2h = <<"m">> \o Prompt
  <2>1. Len(t2h) = 4 /\ t2h[1] = "m" /\ t2h \in Seq(Char)
    <3> DEFINE m == <<"m">>
    <3>1. Len(m) = 1 /\ m[1] = "m" /\ m \in Seq(Char)
      BY <1>3
    <3>2. t2h = m \o Prompt
      BY <1>5
    <3> HIDE DEF m
    <3>3. /\ m \o Prompt \in Seq(Char) /\ Len(m \o Prompt) = Len(m) + Len(Prompt)
          /\ \A i \in 1..Len(m) : (m \o Prompt)[i] = m[i]
      BY <3>1, PromptShape, Catenation, Zenon
    <3> QED
      BY <3>1, <3>2, <3>3, PromptShape
  <2>2. k # 1
    <3>1. SUFFICES ASSUME k = 1 PROVE FALSE
      OBVIOUS
    <3>2. SubSeq(t2h, 1, 3)[1] = "m"
      BY <2>1
    <3> QED
      BY <1>2, <3>1, <3>2, PromptShape
  <2>3. k = 2
    BY <1>2, <2>1, <2>2
  <2> QED
    BY <1>1, <2>1, <2>3 DEF Consume
<1> QED
  BY <1>4, <1>5

\* serialice_get_version reads the whole banner, and nothing else.
LEMMA BannerRead ==
  ASSUME GetVersion, t2h = Banner \o Prompt
  PROVE  t2h' = Prompt
<1>1. PICK k \in DOMAIN t2h :
        NewlineAt(k) /\ (\A j \in 1..k - 1 : ~NewlineAt(j)) /\ Consume(k)
  BY DEF GetVersion
<1>2. Len(t2h) = 8 /\ t2h \in Seq(Char) /\ \A i \in 1..5 : t2h[i] = Banner[i]
  <2>1. Banner \in Seq(Char) /\ Prompt \in Seq(Char)
    BY PromptShape, BannerShape
  <2>2. /\ Banner \o Prompt \in Seq(Char) /\ Len(Banner \o Prompt) = Len(Banner) + Len(Prompt)
        /\ \A i \in 1..Len(Banner) : (Banner \o Prompt)[i] = Banner[i]
    BY <2>1, Catenation, Zenon
  <2> QED
    BY <2>2, PromptShape, BannerShape
<1>3. k = 5
  <2>1. NewlineAt(5) /\ \A j \in 1..4 : ~NewlineAt(j)
    BY <1>2, BannerShape DEF NewlineAt
  <2>2. k \in 1..8
    BY <1>1, <1>2
  <2>3. ~(k < 5) /\ ~(k > 5)
    BY <1>1, <2>1, <2>2
  <2> QED
    BY <2>2, <2>3
<1> QED
  BY <1>1, <1>3, PromptShape, BannerShape, Skip DEF Consume

\* Of the board name, the last character stays in the queue.
LEMMA BoardRead ==
  ASSUME GetMainboard, t2h = BoardName \o Prompt
  PROVE  t2h' = <<"m">> \o Prompt
<1>1. Consume(7)
  BY DEF GetMainboard, ReplyLen
<1>2. "m" \in Char /\ <<"m">> \in Seq(Char) /\ Len(<<"m">>) = 1
  BY DEF Char
<1>3. PICK a \in Seq(Char) : Len(a) = 7 /\ BoardName = a \o <<"m">>
  <2>1. PICK a, b, c \in Char : BoardName = <<a, b, b, b, b, b, b, c>> /\ c = "m"
    BY DEF BoardName, Char, Widths
  <2> DEFINE front == <<a, b, b, b, b, b, b>>
  <2>2. front \in Seq(Char) /\ Len(front) = 7
    OBVIOUS
  <2>3. BoardName = Append(front, "m")
    BY <2>1
  <2> HIDE DEF front
  <2>4. Append(front, "m") = front \o <<"m">>
    BY <1>2, <2>2, AppendIsConcat
  <2> QED
    BY <2>2, <2>3, <2>4
<1>4. t2h = a \o (<<"m">> \o Prompt)
  BY <1>2, <1>3, PrintedChars, ConcatAssociative
<1>5. <<"m">> \o Prompt \in Seq(Char)
  BY <1>2, PrintedChars, Catenation
<1> QED
  BY <1>1, <1>3, <1>4, <1>5, Skip DEF Consume

\* The fields of a reply are where the driver looks for them.
LEMMA ReplyFields ==
  ASSUME NEW op \in Reads, NEW out \in Outputs(op)
  PROVE  /\ ReplyOf(out) \in Seq(Char) /\ Len(ReplyOf(out)) = EndOf(Arity(op))
         /\ Result(op, ReplyOf(out)) = out
<1>1. Arity(op) \in {1, 2, 4}
  BY DEF Arity, Reads
<1>2. out \in [1..Arity(op) -> Digits] /\ Len(out) = Arity(op)
  BY <1>1 DEF Outputs
<1>3. \A k \in 1..Arity(op) : out[k] \in Hex
  BY <1>2, CharIn
<1>4. Len(ReplyOf(out)) = EndOf(Arity(op)) /\ \A k \in 1..Arity(op) : ReplyOf(out)[EndOf(k)] = out[k]
  <2>1. CASE Arity(op) = 1
    BY <1>2, <2>1 DEF ReplyOf, EndOf
  <2>2. CASE Arity(op) = 2
    BY <1>2, <2>2 DEF ReplyOf, EndOf
  <2>3. CASE Arity(op) = 4
    BY <1>2, <2>3 DEF ReplyOf, EndOf
  <2> QED
    BY <1>1, <2>1, <2>2, <2>3
<1>5. Result(op, ReplyOf(out)) = [k \in 1..Arity(op) |-> out[k]]
  BY <1>3, <1>4, NibbleHex DEF Result
<1>6. [k \in 1..Arity(op) |-> out[k]] = out
  BY <1>2
<1> QED
  BY <1>4, <1>5, <1>6, ReplyChars

\* The driver returns the values that the shell has read, and nothing of the
\* reply stays behind.
LEMMA ReplyRead ==
  ASSUME Return, req \in Access, req.op \in Reads, NEW out \in Results(req),
         t2h = ReplyOf(out) \o Prompt
  PROVE  t2h' = Prompt /\ log' = Append(log, [req |-> req, res |-> out])
<1>1. out \in Outputs(req.op)
  BY DEF Results, Outputs
<1> DEFINE a == ReplyOf(out)
<1>2. a \in Seq(Char) /\ Len(a) = EndOf(Arity(req.op)) /\ Result(req.op, a) = out /\ t2h = a \o Prompt
  BY <1>1, ReplyFields
<1>3. stage = "active" /\ ReplyLen = Len(a)
  BY <1>2 DEF Return, ReplyLen
<1>4. /\ log' = Append(log, [req |-> req, res |-> Result(req.op, SubSeq(t2h, 1, Len(a)))])
      /\ t2h' = SubSeq(t2h, Len(a) + 1, Len(t2h))
  BY <1>3 DEF Return, Consume
<1> HIDE DEF a
<1>5. t2h' = Prompt
  BY <1>2, <1>4, PromptShape, Skip
<1>6. SubSeq(a \o Prompt, 1, Len(a)) = a
  <2>1. Len(a) > 0
    BY <1>2 DEF Reads, Arity, EndOf
  <2>2. SubSeq(a \o Prompt, 1, Len(a)) = SubSeq(a, 1, Len(a))
    BY <1>2, <2>1, PromptShape, SubSeqOfConcat1
  <2> QED
    BY <1>2, <2>2, SubSeqFull
<1> QED
  BY <1>2, <1>4, <1>5, <1>6

\* Which step the driver can take is a matter of where its command is.
LEMMA DriverActions ==
  ASSUME stage = "off" => step = "idle", Host
  PROVE  /\ UNCHANGED <<up, line, done>>
         /\ stage = "off" => Open
         /\ step = "write" => Write
         /\ step = "readback" => Readback
         /\ step = "reply" => (stage = "version" /\ GetVersion) \/ (stage = "mainboard" /\ GetMainboard)
                              \/ (stage = "active" /\ Return)
         /\ step = "prompt" => WaitPrompt
         /\ step = "idle" /\ stage # "off" => \E r \in Access : Issue(r)
<1>1. UNCHANGED <<up, line, done>> /\ HostNext
  BY DEF Host, shellVars
<1>2. stage = "off" => step = "idle"
  OBVIOUS
<1>3. stage = "off" => Open
  BY <1>1, <1>2
     DEF HostNext, Drive, Write, Readback, WaitPrompt, GetVersion, GetMainboard, Return, Issue
<1>4. stage # "off" => Drive \/ \E r \in Access : Issue(r)
  BY <1>1, HostAssumption DEF HostNext, Open
<1>5. \A r : Issue(r) => step = "idle"
  BY DEF Issue
<1>6. Drive => step # "idle"
  BY DEF Drive, Write, Readback, WaitPrompt, GetVersion, GetMainboard, Return
<1>7. step \in {"write", "readback", "reply", "prompt"} => Drive
  BY <1>2, <1>4, <1>5
<1>8. step = "idle" /\ stage # "off" => \E r \in Access : Issue(r)
  BY <1>4, <1>6
<1>9. /\ Drive /\ step = "write" => Write
      /\ Drive /\ step = "readback" => Readback
      /\ Drive /\ step = "prompt" => WaitPrompt
      /\ Drive /\ step = "reply" => (stage = "version" /\ GetVersion)
           \/ (stage = "mainboard" /\ GetMainboard) \/ (stage = "active" /\ Return)
  BY DEF Drive, Write, Readback, WaitPrompt, GetVersion, GetMainboard, Return
<1> QED
  BY <1>1, <1>3, <1>7, <1>8, <1>9

LEMMA HostActions ==
  ASSUME Inv, Host
  PROVE  /\ UNCHANGED <<up, line, done>>
         /\ stage = "off" => Open
         /\ step = "write" => Write
         /\ step = "readback" => Readback
         /\ step = "reply" => (stage = "version" /\ GetVersion) \/ (stage = "mainboard" /\ GetMainboard)
                              \/ (stage = "active" /\ Return)
         /\ step = "prompt" => WaitPrompt
         /\ step = "idle" /\ stage # "off" => \E r \in Access : Issue(r)
BY InvFacts, DriverActions

\* What the shell answers consists of characters of the line.
LEMMA AnswerType ==
  ASSUME Inv, Commanding, Acted
  PROVE  /\ Answer \in Seq(Char)
         /\ stage = "active" /\ req.op \in Reads =>
              \E out \in Results(req) : Answer = ReplyOf(out) \o Prompt /\ done[Len(done)].out = out
<1>1. CASE stage = "active" /\ req.op \in Reads
  <2>1. Len(issued) = Len(log) + 1 /\ Len(done) = Len(issued) /\ req = issued[Len(issued)]
    BY <1>1, InvFacts DEF Commanding, Acted, Recorded
  <2>2. done[Len(done)].out \in Results(req)
    <3>1. Len(done) \in DOMAIN done /\ issued[Len(done)] = req
      BY <2>1, InvFacts
    <3> QED
      BY <3>1, InvFacts DEF Recorded
  <2>3. Answer = ReplyOf(done[Len(done)].out) \o Prompt
    BY <1>1 DEF Answer
  <2>4. ReplyOf(done[Len(done)].out) \in Seq(Char)
    BY <1>1, <2>2, ReplyChars DEF Results, Outputs
  <2> QED
    BY <2>2, <2>3, <2>4, PrintedChars, Catenation
<1>2. CASE ~(stage = "active" /\ req.op \in Reads)
  <2>1. Answer \in {Prompt, Banner \o Prompt, BoardName \o Prompt}
    BY <1>2 DEF Answer
  <2> QED
    BY <1>2, <2>1, PrintedChars, Catenation
<1> QED
  BY <1>1, <1>2

\* Of the character it has sent the driver does not warn.
LEMMA EchoIsRight ==
  ASSUME Inv, Readback, Head(t2h) = Text[sent + 1]
  PROVE  warned' = warned
<1>1. warned' = (warned \/ (stage \notin Handshake /\ Head(t2h) # Text[sent + 1]))
  BY Zenon DEF Readback
<1>2. ~(stage \notin Handshake /\ Head(t2h) # Text[sent + 1])
  OBVIOUS
<1>3. warned \in BOOLEAN
  BY InvFacts
<1> QED
  BY <1>1, <1>2, <1>3, Zenon

\* When the answer is there, the driver takes all of it but the prompt.
LEMMA AfterReply ==
  ASSUME Inv, Host, Commanding, ReplyReady
  PROVE  Recorded' /\ Reachable' /\ warned' = warned /\ Rest'
<1>1. /\ step = "reply" /\ sent = 0 /\ line = <<>> /\ Len(done) = Len(issued)
      /\ h2t = <<>> /\ t2h = Answer /\ Acted
  BY DEF ReplyReady, Acted, Line
<1>2. UNCHANGED <<up, line, done>> /\ Recorded /\ Reachable
  BY HostActions, InvFacts
<1>3. \/ stage = "version" /\ GetVersion
      \/ stage = "mainboard" /\ GetMainboard
      \/ stage = "active" /\ Return
  BY <1>1, HostActions
<1>4. CASE stage = "version" /\ GetVersion
  <2>1. t2h' = Prompt
    BY <1>1, <1>4, BannerRead DEF Answer
  <2>2. stage' = "mainboard" /\ step' = "prompt" /\ UNCHANGED <<req, sent, warned, issued, log, h2t>>
    BY <1>4 DEF GetVersion
  <2>3. issued = <<>> /\ Len(log) = 0
    BY <1>2, <1>4, InvFacts DEF Recorded
  <2> QED
    BY <1>1, <1>2, <1>4, <2>1, <2>2, <2>3 DEF Rest, Between, Recorded, Reachable
<1>5. CASE stage = "mainboard" /\ GetMainboard
  <2>1. t2h' = <<"m">> \o Prompt
    BY <1>1, <1>5, BoardRead DEF Answer
  <2>2. stage' = "active" /\ step' = "idle" /\ UNCHANGED <<req, sent, warned, issued, log, h2t>>
    BY <1>5 DEF GetMainboard
  <2>3. issued = <<>> /\ Len(log) = 0
    BY <1>2, <1>5, InvFacts DEF Recorded
  <2> QED
    BY <1>1, <1>2, <1>5, <2>1, <2>2, <2>3 DEF Rest, Between, Recorded, Reachable
<1>6. CASE stage = "active" /\ Return
  <2>1. /\ step' = "idle" /\ UNCHANGED <<stage, req, sent, warned, issued, h2t>>
        /\ \E e : log' = Append(log, e)
    BY <1>6 DEF Return
  <2>2. Len(log') = Len(log) + 1 /\ Len(issued) = Len(log) + 1
    BY <1>6, <2>1, InvFacts DEF Commanding
  <2>3. t2h' = Prompt
    <3>1. req \in Access
      BY <1>6, CommandText
    <3>2. CASE req.op \in Reads
      BY <1>1, <1>6, <3>1, <3>2, AnswerType, ReplyRead
    <3>3. CASE req.op \notin Reads
      <4>1. Arity(req.op) = 0 /\ Answer = Prompt
        BY <1>6, <3>3 DEF Arity, Answer, Reads
      <4>2. ReplyLen = 0
        BY <1>6, <4>1 DEF ReplyLen, Arity, EndOf
      <4>3. t2h' = SubSeq(Prompt, 1, Len(Prompt))
        BY <1>1, <1>6, <4>1, <4>2 DEF Return, Consume
      <4> QED
        BY <4>3, PromptShape, SubSeqFull
    <3> QED
      BY <3>2, <3>3
  <2> QED
    BY <1>1, <1>2, <1>6, <2>1, <2>2, <2>3, InvFacts DEF Rest, Between, Recorded, Reachable
<1> QED
  BY <1>3, <1>4, <1>5, <1>6

\* Between two commands the driver finds a prompt and sends a text, or the
\* guest begins an access.
LEMMA BetweenCommands ==
  ASSUME Inv, Host, Posted \/ Rest
  PROVE  /\ Recorded' /\ Reachable' /\ warned' = warned
         /\ Posted' \/ Rest' \/ (Commanding' /\ Writing')
<1>1. /\ Between /\ step \in {"idle", "prompt"} /\ sent = 0 /\ stage # "off" /\ h2t = <<>>
      /\ Len(issued) = Len(log) + (IF stage = "active" /\ step = "prompt" THEN 1 ELSE 0)
  BY DEF Posted, Rest, Between, Line
<1>2. UNCHANGED <<up, line, done>> /\ Recorded /\ Reachable
  BY HostActions, InvFacts
<1>3. CASE step = "idle"
  <2>1. PICK r \in Access : Issue(r)
    BY <1>1, <1>3, HostActions
  <2>2. /\ stage = "active" /\ step' = "prompt" /\ req' = r /\ issued' = Append(issued, r)
        /\ UNCHANGED <<stage, sent, warned, log, t2h, h2t>>
    BY <2>1 DEF Issue
  <2>3. /\ Len(issued') = Len(issued) + 1 /\ issued'[Len(issued')] = r /\ issued' # <<>>
        /\ \A i \in 1..Len(issued) : issued'[i] = issued[i]
        /\ Len(issued) = Len(log) /\ Len(log) \in Nat /\ Len(issued) \in Nat
    <3>1. issued \in Seq(Access) /\ Len(issued) = Len(log) /\ Len(log) \in Nat
      BY <1>1, <1>3, InvFacts
    <3> QED
      BY <2>1, <2>2, <3>1, AppendProperties
  <2>4. Between'
    BY <1>1, <2>2, <2>3 DEF Between
  <2>5. Reachable'
    BY <1>2, <2>2 DEF Reachable
  <2>6. Recorded'
    <3>1. Len(log') <= Len(issued') /\ Len(done') <= Len(issued')
      BY <1>2, <2>2, <2>3, InvFacts DEF Recorded
    <3>2. \A i \in DOMAIN done' : i \in DOMAIN done /\ done'[i] = done[i] /\ issued'[i] = issued[i]
      <4>1. DOMAIN done = 1..Len(done) /\ Len(done) <= Len(issued) /\ Len(done) \in Nat
        BY <1>2, InvFacts DEF Recorded
      <4>2. \A i \in DOMAIN done : i \in 1..Len(issued)
        BY <2>3, <4>1
      <4> QED
        BY <1>2, <2>3, <4>2
    <3> QED
      BY <1>2, <2>2, <2>3, <3>1, <3>2 DEF Recorded
  <2>7. CASE Posted
    <3>1. /\ t2h = <<>> /\ Len(log) = Len(done) + 1 /\ line = Command(issued[Len(log)])
          /\ issued[Len(log)].op \notin Reads
      BY <2>2, <2>7 DEF Posted, Line
    <3>2. Len(log) \in 1..Len(issued)
      BY <2>3, <3>1, InvFacts
    <3>3. issued'[Len(log')] = issued[Len(log)]
      BY <2>2, <2>3, <3>2
    <3>4. Posted'
      BY <1>1, <1>2, <2>2, <2>4, <3>1, <3>3 DEF Posted, Line
    <3> QED
      BY <1>2, <2>2, <2>5, <2>6, <3>4
  <2>8. CASE Rest
    BY <1>2, <2>2, <2>4, <2>5, <2>6, <2>8 DEF Rest
  <2> QED
    BY <2>7, <2>8
<1>4. CASE step = "prompt"
  <2>1. WaitPrompt
    BY <1>4, HostActions
  <2>2. /\ step' = "write" /\ UNCHANGED <<req, sent, warned, issued, log, h2t>>
        /\ stage' = IF stage = "alive" THEN "retrigger" ELSE stage
    BY <2>1 DEF WaitPrompt
  <2>3. t2h # <<>>
    BY <2>1 DEF WaitPrompt
  <2>4. Rest
    BY <2>3 DEF Posted, Line
  <2>5. t2h' = <<>> /\ line = <<>> /\ Len(done) = Len(log)
    BY <2>1, <2>4, PromptFound DEF Rest
  <2>6. Len(Text') \in Nat /\ Len(Text') >= 1
    <3>1. HostTypeOK
      BY DEF Inv, TypeOK
    <3> QED
      BY <1>1, <1>4, <2>2, <3>1, TextBegins
  <2>7. SubSeq(Text', 1, 0) = <<>>
    BY <2>6
  <2>8. Writing'
    BY <1>1, <1>2, <2>2, <2>5, <2>6, <2>7 DEF Writing, Typed, Line
  <2>9. Commanding'
    BY <1>1, <1>4, <2>2 DEF Commanding
  <2>10. Reachable'
    BY <1>2, <1>4, <2>2 DEF Reachable, Stages, Handshake
  <2>11. Recorded'
    BY <1>2, <1>4, <2>2 DEF Recorded
  <2> QED
    BY <1>2, <2>2, <2>8, <2>9, <2>10, <2>11
<1> QED
  BY <1>1, <1>3, <1>4

\* An empty queue has nothing to lose.
LEMMA NothingToLose == Suffixes(<<>>) = {<<>>} /\ Prefixes(<<>>) = {<<>>}
<1>1. Len(<<>>) = 0 /\ 1..0 = {} /\ 0..0 = {0} /\ SubSeq(<<>>, 1, 0) = <<>>
  OBVIOUS
<1>2. Suffixes(<<>>) = {<<>>}
  BY <1>1 DEF Suffixes
<1>3. Prefixes(<<>>) = {<<>>}
  BY <1>1, Zenon DEF Prefixes
<1> QED
  BY <1>2, <1>3

\* The driver moves from phase to phase, and warns of no echo.
LEMMA HostStep ==
  ASSUME Inv, Host
  PROVE  Lockstep' /\ warned' = warned
<1>1. UNCHANGED <<up, line, done>> /\ up = TRUE /\ Recorded /\ Reachable
  BY HostActions, InvFacts
<1>2. SUFFICES /\ Recorded' /\ Reachable' /\ warned' = warned
               /\ \/ Posted' \/ Rest'
                  \/ Commanding' /\ (Writing' \/ Unread' \/ Echoed' \/ ToAct' \/ ReplyReady')
  BY <1>1 DEF Lockstep
<1>3. CASE Off
  <2>1. Open /\ h2t = <<>> /\ t2h = <<>> /\ line = <<>> /\ issued = <<>> /\ done = <<>> /\ log = <<>>
    BY <1>3, HostActions DEF Off, Line
  <2>2. Suffixes(<<>>) = {<<>>} /\ Prefixes(<<>>) = {<<>>}
    BY NothingToLose
  <2>3. /\ stage' = "trigger" /\ step' = "write" /\ sent' = 0 /\ h2t' = <<>> /\ t2h' = <<>>
        /\ line' = <<>> /\ done' = <<>> /\ UNCHANGED <<warned, issued, log>>
    BY <1>1, <2>1, <2>2 DEF Open
  <2>4. Text' = <<"@">>
    BY <2>3 DEF Text, Handshake
  <2>5. Writing'
    BY <2>1, <2>3, <2>4 DEF Writing, Typed, Line
  <2>6. Commanding' /\ Reachable' /\ Recorded'
    BY <2>1, <2>3 DEF Commanding, Reachable, Recorded, Stages, Handshake
  <2> QED
    BY <1>1, <2>3, <2>5, <2>6
<1>4. CASE Commanding /\ Writing
  <2>1. Write /\ h2t = <<>> /\ t2h = <<>> /\ sent \in Nat /\ sent < Len(Text) /\ Typed(sent)
    BY <1>4, HostActions, InvFacts DEF Writing, Line
  <2>2. /\ step' = "readback" /\ h2t' = <<Text[sent + 1]>>
        /\ UNCHANGED <<stage, req, sent, warned, issued, log, t2h>>
    BY <2>1 DEF Write
  <2>3. Text' = Text
    BY <2>2 DEF Text
  <2>4. Unread'
    BY <1>1, <2>1, <2>2, <2>3 DEF Unread, Typed, Line
  <2>5. Commanding' /\ Reachable' /\ Recorded'
    BY <1>1, <1>4, <2>2 DEF Writing, Commanding, Reachable, Recorded
  <2> QED
    BY <1>1, <2>2, <2>4, <2>5
<1>5. CASE Commanding /\ Unread
  BY <1>5, HostActions DEF Unread, Line, Readback
<1>6. CASE Commanding /\ Echoed
  <2>1. /\ Readback /\ step = "readback" /\ h2t = <<>> /\ t2h = <<Text[sent + 1]>>
        /\ sent \in Nat /\ sent < Len(Text) /\ Typed(sent + 1)
    BY <1>6, HostActions, InvFacts DEF Echoed, Line
  <2>2. /\ t2h' = <<>> /\ warned' = warned /\ h2t' = <<>>
        /\ UNCHANGED <<req, issued, log>>
    <3>1. Head(t2h) = Text[sent + 1] /\ SubSeq(t2h, 2, Len(t2h)) = <<>>
      BY <2>1
    <3>2. warned' = warned
      BY <2>1, <3>1, EchoIsRight
    <3> QED
      BY <2>1, <3>1, <3>2 DEF Readback, Consume
  <2>3. CASE sent + 1 < Len(Text)
    <3>1. step' = "write" /\ sent' = sent + 1 /\ stage' = stage
      BY <2>1, <2>3 DEF Readback
    <3>2. Text' = Text
      BY <2>2, <3>1 DEF Text
    <3>3. Writing'
      BY <1>1, <2>1, <2>2, <2>3, <3>1, <3>2 DEF Writing, Typed, Line
    <3>4. Commanding' /\ Reachable' /\ Recorded'
      BY <1>1, <1>6, <2>1, <2>2, <3>1 DEF Commanding, Reachable, Recorded
    <3> QED
      BY <2>2, <3>3, <3>4
  <2>4. CASE sent + 1 = Len(Text) /\ stage \in {"trigger", "retrigger"}
    <3>1. /\ sent' = 0 /\ step' = "prompt" /\ stage # "active"
          /\ stage' = IF stage = "trigger" THEN "alive" ELSE "version"
      BY <2>1, <2>4 DEF Readback
    <3>2. Text = <<"@">>
      BY <2>4 DEF Text, Handshake
    <3>3. line' = <<"@">> /\ Len(done') = Len(log')
      <4>1. sent + 1 = Len(Text)
        BY <2>4
      <4>2. SubSeq(Text, 1, Len(Text)) = Text
        BY <1>6, CommandText, SubSeqFull
      <4> QED
        BY <1>1, <2>1, <2>2, <3>2, <4>1, <4>2 DEF Typed
    <3>4. issued = <<>> /\ Len(log) = 0
      BY <1>1, <3>1, InvFacts DEF Recorded
    <3>5. Posted'
      BY <2>2, <3>1, <3>3, <3>4 DEF Posted, Between, Line
    <3>6. Reachable' /\ Recorded'
      BY <1>1, <2>2, <3>1 DEF Reachable, Recorded
    <3> QED
      BY <2>2, <3>5, <3>6
  <2>5. CASE sent + 1 = Len(Text) /\ stage \notin {"trigger", "retrigger"}
    <3>1. sent' = 0 /\ step' = "reply" /\ stage' = stage
      BY <2>1, <2>5 DEF Readback
    <3>2. Text' = Text
      BY <2>2, <3>1 DEF Text
    <3>3. ToAct'
      BY <1>1, <2>1, <2>2, <2>5, <3>1, <3>2 DEF ToAct, Typed, Line
    <3>4. Commanding' /\ Reachable' /\ Recorded'
      BY <1>1, <1>6, <2>1, <2>2, <2>5, <3>1
         DEF Commanding, Reachable, Recorded, Stages, Handshake
    <3> QED
      BY <2>2, <3>3, <3>4
  <2>6. Len(Text) \in Nat
    BY <1>6, CommandText
  <2>7. sent + 1 < Len(Text) \/ sent + 1 = Len(Text)
    BY <2>1, <2>6
  <2> QED
    BY <2>3, <2>4, <2>5, <2>7
<1>7. CASE Commanding /\ EchoedAndActed
  <2>1. /\ Readback /\ step = "readback" /\ h2t = <<>> /\ t2h = <<Text[sent + 1]>> \o Answer
        /\ sent = Len(Text) - 1 /\ Acted
    BY <1>7, HostActions DEF EchoedAndActed, Line
  <2>2. Text \in Seq(Char) /\ Len(Text) >= 1 /\ Text[sent + 1] \in Char
    BY <1>7, <2>1, CommandText
  <2>3. Answer \in Seq(Char)
    BY <1>7, <2>1, AnswerType
  <2>4. Head(t2h) = Text[sent + 1] /\ SubSeq(t2h, 2, Len(t2h)) = Answer
    <3> DEFINE a == <<Text[sent + 1]>>
    <3>1. a \in Seq(Char) /\ Len(a) = 1 /\ a # <<>> /\ a[1] = Text[sent + 1] /\ t2h = a \o Answer
      BY <2>1, <2>2
    <3> HIDE DEF a
    <3> QED
      BY <2>3, <3>1, Skip
  <2>5. /\ t2h' = Answer /\ warned' = warned /\ h2t' = <<>>
        /\ UNCHANGED <<req, issued, log>> /\ sent' = 0 /\ line' = <<>>
    <3>1. warned' = warned
      BY <2>1, <2>4, EchoIsRight
    <3>2. ~(sent + 1 < Len(Text))
      BY <2>1, <2>2
    <3> QED
      BY <1>1, <2>1, <2>4, <3>1, <3>2 DEF Readback, Consume, Acted
  <2>6. CASE stage \in {"trigger", "retrigger"}
    <3>1. /\ step' = "prompt" /\ stage # "active" /\ Answer = Prompt
          /\ stage' = IF stage = "trigger" THEN "alive" ELSE "version"
      BY <2>1, <2>2, <2>6 DEF Readback, Answer
    <3>2. issued = <<>> /\ Len(log) = 0 /\ Len(done) = 0
      BY <1>1, <2>1, <3>1, InvFacts DEF Recorded, Acted
    <3>3. Rest'
      BY <1>1, <2>5, <3>1, <3>2 DEF Rest, Between
    <3>4. Reachable' /\ Recorded'
      BY <1>1, <2>5, <3>1 DEF Reachable, Recorded
    <3> QED
      BY <2>5, <3>3, <3>4
  <2>7. CASE stage \notin {"trigger", "retrigger"}
    <3>1. step' = "reply" /\ stage' = stage
      BY <2>1, <2>2, <2>7 DEF Readback
    <3>2. Answer' = Answer
      BY <1>1, <2>5, <3>1 DEF Answer
    <3>3. ReplyReady'
      BY <1>1, <2>1, <2>5, <3>1, <3>2 DEF ReplyReady, Acted, Line
    <3>4. Commanding' /\ Reachable' /\ Recorded'
      BY <1>1, <1>7, <2>1, <2>5, <2>7, <3>1
         DEF Commanding, Reachable, Recorded, Stages, Handshake
    <3> QED
      BY <2>5, <3>3, <3>4
  <2> QED
    BY <2>6, <2>7
<1>8. CASE Commanding /\ ToAct
  <2>1. /\ step = "reply" /\ sent = 0 /\ h2t = <<>> /\ t2h = <<>>
        /\ line = SubSeq(Text, 1, Len(Text)) /\ Len(done) = Len(log)
    BY <1>8 DEF ToAct, Typed, Line
  <2>2. stage = "active" /\ Return
    BY <2>1, HostActions DEF GetVersion, GetMainboard, ReplyLen
  <2>3. /\ req \in Access /\ Text = Command(req) /\ line = Command(req)
        /\ Len(issued) = Len(log) + 1 /\ req = issued[Len(issued)]
    BY <1>1, <1>8, <2>1, <2>2, CommandText, SubSeqFull, InvFacts DEF Commanding, Recorded
  <2>4. req.op \notin Reads /\ ReplyLen = 0
    <3>1. ReplyLen = EndOf(Arity(req.op)) /\ ReplyLen <= 0
      BY <2>1, <2>2 DEF Return, ReplyLen
    <3> QED
      BY <3>1 DEF Arity, Reads, EndOf
  <2>5. /\ step' = "idle" /\ t2h' = <<>> /\ h2t' = <<>>
        /\ \E e : log' = Append(log, e)
        /\ UNCHANGED <<stage, req, sent, warned, issued>>
    BY <2>1, <2>2, <2>4 DEF Return, Consume
  <2>6. Len(log') = Len(log) + 1
    BY <2>5, InvFacts
  <2>7. Posted'
    BY <1>1, <2>1, <2>2, <2>3, <2>4, <2>5, <2>6, InvFacts DEF Posted, Between, Line
  <2>8. Reachable' /\ Recorded'
    BY <1>1, <2>2, <2>3, <2>5, <2>6, InvFacts DEF Reachable, Recorded
  <2> QED
    BY <1>1, <2>5, <2>7, <2>8
<1>9. CASE Commanding /\ ReplyReady
  BY <1>2, <1>9, AfterReply
<1>10. CASE Posted \/ Rest
  BY <1>2, <1>10, BetweenCommands
<1> QED
  BY <1>3, <1>4, <1>5, <1>6, <1>7, <1>8, <1>9, <1>10 DEF Inv, Lockstep

-----------------------------------------------------------------------------
LEMMA LockstepStays ==
  ASSUME Lockstep, UNCHANGED vars
  PROVE  Lockstep'
<1>1. UNCHANGED <<h2t, t2h, up, line, done, stage, step, req, sent, issued, log>>
  BY DEF vars, shellVars, hostVars
<1>2. Text' = Text /\ Answer' = Answer
  BY <1>1 DEF Text, Answer
<1> QED
  BY <1>1, <1>2 DEF Lockstep, Recorded, Reachable, Off, Posted, Rest, Between, Line, Commanding,
     Writing, Unread, Echoed, EchoedAndActed, ToAct, ReplyReady, Typed, Acted

\* Without faults, host and shell are always in step: what the driver takes
\* for an echo is the echo, what it takes for a reply is the reply, and the
\* accesses it began are those the shell performed.
LEMMA InvHolds == WarmSpec => [](Inv /\ ~warned)
<1>1. WarmInit => Inv /\ ~warned
  <2>1. SUFFICES ASSUME WarmInit PROVE Inv /\ ~warned
    OBVIOUS
  <2>2. /\ h2t = <<>> /\ t2h = <<>> /\ line = <<>> /\ up = TRUE /\ done = <<>>
        /\ stage = "off" /\ step = "idle" /\ sent = 0 /\ warned = FALSE
        /\ issued = <<>> /\ log = <<>>
    BY <2>1 DEF WarmInit, Quiet, AtPrompt, HostInit
  <2>3. TypeOK
    BY <2>1, TypeInit DEF AnyInit
  <2>4. Off /\ Recorded /\ Reachable
    BY <2>2 DEF Off, Line, Recorded, Reachable
  <2> QED
    BY <2>2, <2>3, <2>4 DEF Inv, Lockstep
<1>2. Inv /\ ~warned /\ [Session]_vars => (Inv /\ ~warned)'
  <2>1. SUFFICES ASSUME Inv, ~warned, [Session]_vars PROVE Inv' /\ ~warned'
    OBVIOUS
  <2>2. TypeOK'
    BY <2>1, TypeStep DEF Inv, Next
  <2>3. CASE Session
    BY <2>1, <2>2, <2>3, ShellStep, HostStep DEF Session, Inv
  <2>4. CASE UNCHANGED vars
    <3>1. UNCHANGED warned
      BY <2>4 DEF vars, hostVars
    <3>2. Lockstep'
      BY <2>1, <2>4, LockstepStays DEF Inv
    <3> QED
      BY <2>1, <2>2, <3>1, <3>2 DEF Inv
  <2> QED
    BY <2>1, <2>3, <2>4
<1> QED
  BY <1>1, <1>2, PTL DEF WarmSpec

\* Shell and driver never lose each other (serialice_command against main).
THEOREM LockstepHolds == WarmSpec => []Lockstep
<1>1. Inv => Lockstep
  BY DEF Inv
<1> QED
  BY <1>1, InvHolds, PTL

\* serialice_write never prints "Readback error!" in such a session.
THEOREM NeverWarns == WarmSpec => []NoReadbackError
<1>1. ~warned => NoReadbackError
  BY DEF NoReadbackError
<1> QED
  BY <1>1, InvHolds, PTL

LEMMA AtMostOneUnread == Lockstep => Len(h2t) <= 1
<1> SUFFICES ASSUME Lockstep PROVE Len(h2t) <= 1
  OBVIOUS
<1>1. h2t = <<>> \/ h2t = <<Text[sent + 1]>>
  BY DEF Lockstep, Off, Posted, Rest, Writing, Unread, Echoed, EchoedAndActed,
         ToAct, ReplyReady, Line
<1>2. Len(<<>>) = 0 /\ Len(<<Text[sent + 1]>>) = 1
  OBVIOUS
<1> QED
  BY <1>1, <1>2

\* In a session without faults the UART of the target never holds more than
\* one character, however many accesses there are: the echo that the driver
\* waits for is the flow control of the line.
THEOREM UnreadBounded == WarmSpec => []FewUnread
<1>1. Lockstep => FewUnread
  <2>1. Lockstep => Len(h2t) <= 1 /\ Len(h2t) \in Nat
    BY AtMostOneUnread DEF Lockstep, Off, Posted, Rest, Writing, Unread, Echoed,
       EchoedAndActed, ToAct, ReplyReady, Line
  <2> QED
    BY <2>1 DEF FewUnread
<1> QED
  BY <1>1, LockstepHolds, PTL

-----------------------------------------------------------------------------
(***************************************************************************)
(* The link implements direct access.                                      *)
(***************************************************************************)

\* The abstract specification speaks of the same accesses.
LEMMA RemoteWire ==
  /\ Remote!Access = Access /\ Remote!Reads = Reads
  /\ \A r : Remote!Results(r) = Results(r)
<1>1. /\ Remote!BusReads = BusReads /\ Remote!BusWrites = BusWrites /\ Remote!Reads = Reads
      /\ Remote!RC = RC /\ Remote!WC = WC /\ Remote!CI = CI
      /\ Remote!Hex = Hex /\ Remote!Widths = Widths
  BY DEF Remote!BusReads, BusReads, Remote!BusWrites, BusWrites, Remote!Reads, Reads,
         Remote!RC, RC, Remote!WC, WC, Remote!CI, CI, Remote!Hex, Hex, Remote!Widths, Widths,
         Remote!RM, RM, Remote!WM, WM, Remote!RI, RI, Remote!WI, WI
<1>2. Remote!Access = Access
  BY <1>1 DEF Remote!Access, Access
<1>3. \A op : Remote!Arity(op) = Arity(op)
  BY <1>1 DEF Remote!Arity, Arity
<1>4. \A r : Remote!Results(r) = Results(r)
  BY <1>3 DEF Remote!Results, Results
<1> QED
  BY <1>1, <1>2, <1>4

\* All accesses are the guest's.
GuestsOnly == \A i \in DOMAIN issued : issued[i] \in Guest

LEMMA GuestsStay ==
  ASSUME TypeOK, GuestsOnly, [Next]_vars
  PROVE  GuestsOnly'
<1>0. issued \in Seq(Access)
  BY DEF TypeOK, HostTypeOK
<1>1. CASE issued' = issued
  BY <1>1 DEF GuestsOnly
<1>2. ASSUME NEW r \in Guest, issued' = Append(issued, r)
      PROVE  GuestsOnly'
  BY <1>0, <1>2, HostAssumption DEF GuestsOnly
<1>3. issued' = issued \/ \E r \in Guest : issued' = Append(issued, r)
  <2>1. CASE Host
    BY <2>1 DEF Host, HostNext, Drive, Open, Issue, Write, Readback, WaitPrompt, GetVersion,
                GetMainboard, Return
  <2>2. CASE Shell \/ Reset \/ KillHost \/ UNCHANGED vars
    BY <2>2 DEF Shell, Reset, KillHost, Kill, hostVars, vars
  <2> QED
    BY <2>1, <2>2 DEF Next, Session
<1> QED
  BY <1>1, <1>2, <1>3

\* The shell performs at most one access in a step.
LEMMA ShellPerforms ==
  ASSUME ShellNext
  PROVE  done' = done \/ \E a, out : done' = Append(done, [acc |-> a, out |-> out])
BY DEF ShellNext, Recv, BusRead, BusWrite, CpuRead, WriteMsr, Mainboard, Version, Unknown,
       NotACommand, Perform

\* What the shell performs is the next access that was begun.
LEMMA ShellRefines ==
  ASSUME Inv, Inv', GuestsOnly, KeysHonoured, Shell
  PROVE  [Remote!Next]_Remote!vars
<1>1. UNCHANGED <<issued, log>> /\ ShellNext
  BY DEF Shell, hostVars
<1>2. CASE done' = done
  BY <1>1, <1>2 DEF Remote!vars
<1>3. ASSUME NEW a, NEW out, done' = Append(done, [acc |-> a, out |-> out])
      PROVE  Remote!Next
  <2> DEFINE n == Len(done) + 1
             r == issued[n]
  <2>1. Len(done') = n /\ n \in DOMAIN done' /\ done'[n].acc = a /\ done'[n].out = out /\ n \in Nat
    BY <1>3, InvFacts
  <2>2. Recorded'
    BY DEF Inv, Lockstep
  <2>3. a = Effect(r) /\ out \in Results(r) /\ n <= Len(issued)
    BY <1>1, <2>1, <2>2 DEF Recorded
  <2>4. r \in Access /\ Len(done) < Len(issued) /\ n \in DOMAIN issued
    BY <2>1, <2>3, InvFacts
  <2>6. a = r
    BY <2>3, <2>4 DEF GuestsOnly, KeysHonoured
  <2>5. Remote!Perform(out)
    BY <1>1, <1>3, <2>3, <2>6, <2>4, RemoteWire DEF Remote!Perform
  <2> QED
    BY <2>3, <2>4, <2>5, RemoteWire DEF Remote!Next
<1> QED
  BY <1>1, <1>2, <1>3, ShellPerforms

\* An access begins when the previous one has returned, and returns what the
\* shell made of it.
LEMMA HostRefines ==
  ASSUME Inv, Host
  PROVE  [Remote!Next]_Remote!vars
<1>1. UNCHANGED <<up, line, done>>
  BY HostActions
<1>2. ASSUME NEW r \in Access, Issue(r)
      PROVE  Remote!Next
  <2>1. stage = "active" /\ step = "idle" /\ issued' = Append(issued, r) /\ log' = log
    BY <1>2 DEF Issue
  <2>2. Between
    BY <2>1 DEF Inv, Lockstep, Off, Posted, Rest, Commanding
  <2>3. Len(log) = Len(issued)
    BY <2>1, <2>2, InvFacts DEF Between
  <2>4. Remote!Issue(r)
    BY <1>1, <2>1, <2>3 DEF Remote!Issue
  <2> QED
    BY <2>4, RemoteWire DEF Remote!Next
<1>3. CASE Return
  <2>1. /\ stage = "active" /\ step = "reply" /\ ReplyLen = EndOf(Arity(req.op))
        /\ Len(t2h) >= ReplyLen /\ issued' = issued
        /\ log' = Append(log, [req |-> req,
                               res |-> Result(req.op, SubSeq(t2h, 1, ReplyLen))])
    BY <1>3 DEF Return, ReplyLen
  <2>2. Commanding /\ (ToAct \/ ReplyReady)
    BY <2>1 DEF Inv, Lockstep, Off, Posted, Rest, Between, Writing, Unread, Echoed, EchoedAndActed
  <2>3. /\ req \in Access /\ Len(issued) = Len(log) + 1 /\ req = issued[Len(issued)]
        /\ Len(log) < Len(issued)
    BY <2>1, <2>2, CommandText, InvFacts DEF Commanding, Recorded
  <2>4. CASE req.op \in Reads
    <3>1. Arity(req.op) \in {1, 2, 4}
      BY <2>4 DEF Arity, Reads
    <3>2. ReplyReady
      <4>1. t2h # <<>>
        BY <2>1, <3>1 DEF EndOf
      <4> QED
        BY <2>2, <4>1 DEF ToAct, Line
    <3>3. Acted /\ t2h = Answer /\ Len(done) = Len(issued)
      BY <3>2 DEF ReplyReady, Acted, Line
    <3>4. log' = Append(log, [req |-> req, res |-> done[Len(done)].out])
      BY <1>3, <2>1, <2>2, <2>3, <2>4, <3>3, AnswerType, ReplyRead
    <3>5. Remote!Return
      BY <1>1, <2>1, <2>3, <2>4, <3>3, <3>4, RemoteWire DEF Remote!Return, Remote!Waits
    <3> QED
      BY <3>5 DEF Remote!Next
  <2>5. CASE req.op \notin Reads
    <3>1. Arity(req.op) = 0
      BY <2>5 DEF Arity, Reads
    <3>2. \A buf : Result(req.op, buf) = <<>>
      BY <3>1 DEF Result
    <3>3. log' = Append(log, [req |-> req, res |-> <<>>])
      BY <2>1, <3>2
    <3>4. Remote!Return
      BY <1>1, <2>1, <2>3, <2>5, <3>3, RemoteWire DEF Remote!Return, Remote!Waits
    <3> QED
      BY <3>4 DEF Remote!Next
  <2> QED
    BY <2>4, <2>5
<1>4. CASE Open \/ Write \/ Readback \/ WaitPrompt \/ GetVersion \/ GetMainboard
  BY <1>1, <1>4 DEF Remote!vars, Open, Write, Readback, WaitPrompt, GetVersion, GetMainboard
<1> QED
  BY <1>2, <1>3, <1>4, HostActions, InvFacts DEF Steps

\* The serial link implements RemoteAccess: every access of the guest happens
\* on the target exactly once, as it was asked for, and in order, and reads
\* return what it produced.  A shell compiled by romcc does so for guests that
\* write MSRs with its own key only.
THEOREM LinkIsTransparent == KeysHonoured => (WarmSpec => Transparent)
<1> SUFFICES ASSUME KeysHonoured PROVE WarmSpec => Transparent
  OBVIOUS
<1>1. WarmInit => Remote!Init /\ GuestsOnly
  BY DEF WarmInit, Quiet, HostInit, Remote!Init, GuestsOnly
<1>3. Inv /\ GuestsOnly /\ [Session]_vars => GuestsOnly'
  BY GuestsStay DEF Inv, Next
<1>2. Inv /\ Inv' /\ GuestsOnly /\ [Session]_vars => [Remote!Next]_Remote!vars
  <2>1. SUFFICES ASSUME Inv, Inv', GuestsOnly, [Session]_vars PROVE [Remote!Next]_Remote!vars
    OBVIOUS
  <2>2. CASE Session
    BY <2>1, <2>2, ShellRefines, HostRefines DEF Session
  <2>3. CASE UNCHANGED vars
    BY <2>3 DEF vars, shellVars, hostVars, Remote!vars
  <2> QED
    BY <2>1, <2>2, <2>3
<1> QED
  BY <1>1, <1>2, <1>3, InvHolds, PTL DEF WarmSpec, Transparent, Remote!Spec
=============================================================================
