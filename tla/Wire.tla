-------------------------------- MODULE Wire --------------------------------
(***************************************************************************)
(* The text protocol spoken over the serial line between the SerialICE     *)
(* shell (serialice.c, serial.c) and the host driver (serialice.c inside   *)
(* the QEMU patch): characters, command layout, replies and the prompt.    *)
(*                                                                         *)
(* A numeric field ("%04x", "%08x") is one character here: the number of   *)
(* digits changes how long a field takes, never what either side does with *)
(* it.  "nl" stands for the CR LF pair that serial_putstring sends and the *)
(* host tty (IGNCR) delivers as a single LF.                               *)
(***************************************************************************)
EXTENDS Sequences, Naturals

CONSTANTS
  Digits,    \* the hexadecimal digits a number may be written with
  Romcc,     \* TRUE for a shell compiled by romcc, FALSE for gcc
  FixedKey   \* the MSR key 9c5a203a compiled into a romcc shell

ASSUME WireAssumption ==
  /\ Digits \subseteq {"0", "1", "2", "3", "4", "5", "6", "7",
                       "8", "9", "a", "b", "c", "d", "e", "f"}
  /\ "0" \in Digits
  /\ Romcc \in BOOLEAN
  /\ FixedKey \in Digits

\* Two command letters are hexadecimal digits as well.
Hex == Digits \cup {"b", "c"}

\* The access widths that the host driver asks for.
Widths == {"b", "w", "l"}

Char == Hex \cup Widths \cup
        {"@", "*", "r", "m", "i", "v", ".", "=", "nl", ">", " ",
         "V", "M", "ERROR", "PARSE"}

\* Faulty variant: a character that is no digit is kept.
NibbleRaw(c) == c

\* serial_get_nibble and strtoul both take what is not a digit for zero.
Nibble(c) == IF c \in Hex THEN c ELSE "0"

(***************************************************************************)
(* Commands.                                                               *)
(***************************************************************************)
RM == <<"r", "m">>
WM == <<"w", "m">>
RI == <<"r", "i">>
WI == <<"w", "i">>
RC == <<"r", "c">>
WC == <<"w", "c">>
CI == <<"c", "i">>
MB == <<"m", "b">>
VI == <<"v", "i">>

BusReads  == {RM, RI}
BusWrites == {WM, WI}
Reads     == BusReads \cup {RC, CI}
Ops       == Reads \cup BusWrites \cup {WC, MB, VI}

\* A hardware access: what the host asks for and what the shell performs.
\* args are, in the order of the text: address; address and data; MSR and
\* key; MSR, key, high and low half; leaf and subleaf.
Access ==
  [op : BusReads, width : Widths, args : {<<a>> : a \in Hex}]
    \cup [op : BusWrites, width : Widths, args : Hex \X Hex]
    \cup [op : {RC, CI}, width : {"none"}, args : Hex \X Hex]
    \cup [op : {WC}, width : {"none"}, args : Hex \X Hex \X Hex \X Hex]

\* The command the host driver formats for access r (sprintf of s->command).
Command(r) ==
  LET o == r.op
      a == r.args
  IN  CASE o \in BusReads  -> <<"*", o[1], o[2], a[1], ".", r.width>>
        [] o \in BusWrites -> <<"*", o[1], o[2], a[1], ".", r.width, "=", a[2]>>
        [] o \in {RC, CI}  -> <<"*", o[1], o[2], a[1], ".", a[2]>>
        [] OTHER           -> <<"*", o[1], o[2], a[1], ".", a[2], "=", a[3], ".", a[4]>>

\* Texts are shortened so that which of two is the longer stays the same, and
\* whether a prompt is left over.  A starting shell prints 33 characters, banner
\* and prompt: 8 here.  The host reads up to 9 for a bus access (2), 18 for an
\* MSR (4), 36 for cpuid (9), and 32 of the 33 that name the board (7 of 8).
Prompt     == <<"nl", ">", " ">>
Banner     == <<"nl", "V", "V", "V", "nl">>                      \* serialice_version
BoardName  == <<"nl", "M", "M", "M", "M", "M", "M", "m">>        \* serialice_mainboard
ErrorText  == <<"ERROR", "nl">>                                  \* unknown command
ParseError == <<"PARSE", "nl">>                                  \* "ERROR: parsing number"

\* Values in a reply are separated by dots: 1, 2 or 4 of them.  The fourth is
\* written with two digits, to make this reply the longest.
ReplyOf(v) ==
  CASE Len(v) = 1 -> <<"nl", v[1]>>
    [] Len(v) = 2 -> <<"nl", v[1], ".", v[2]>>
    [] OTHER      -> <<"nl", v[1], ".", v[2], ".", v[3], ".", "0", v[4]>>

\* Value k is over with this character of the reply.
EndOf(k) == IF k = 4 THEN 9 ELSE 2 * k

\* The number of values an access returns.
Arity(op) == CASE op \in BusReads -> 1
               [] op = RC         -> 2
               [] op = CI         -> 4
               [] OTHER           -> 0

\* The access that the shell performs for a command made from r: compiled by
\* romcc it writes an MSR with a key of its own.
Effect(r)  == IF Romcc /\ r.op = WC THEN [r EXCEPT !.args[2] = FixedKey] ELSE r

\* The hardware may answer with any values.
Results(r) == [1..Arity(r.op) -> Digits]
=============================================================================
