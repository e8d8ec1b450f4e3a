-------------------------- MODULE LinkFaultProofs ---------------------------
(***************************************************************************)
(* Two faults that take shell and driver out of lockstep: the target is    *)
(* switched on while QEMU waits for it, or before; QEMU is killed and      *)
(* started again.                                                          *)
(***************************************************************************)
EXTENDS SerialLinkProofs
-----------------------------------------------------------------------------
(***************************************************************************)
(* A target that is switched on once, before or after QEMU is started.     *)
(* The handshake then reads what the shell said when it came up, and may   *)
(* run behind it by a whole command; the theorems say that it has caught   *)
(* up when the first access is made.  All that host and shell say to each  *)
(* other until then is known, so the invariant only counts how much of it  *)
(* was written, printed and read.                                          *)
(***************************************************************************)

\* What the shell prints, if the driver runs behind: banner and prompt, two
\* triggers and the version command with their echoes, answers and prompts.
Transcript ==
  << "nl", "V", "V", "V", "nl", "nl", ">", " ",
     "@", "nl", ">", " ",
     "@", "nl", ">", " ",
     "*", "v", "i", "nl", "V", "V", "V", "nl", "nl", ">", " " >>

\* What the driver writes meanwhile.
Typing == <<"@", "@", "*", "v", "i">>

\* What comes after the first a characters of s, up to the b-th.
Window(s, a, b) == SubSeq(s, a + 1, b)

\* The shell has read m characters, carried out the commands that the first a
\* are, and printed w.
ShellAt(m, w, a) ==
  \/ m = 0 /\ w = 8 /\ a = 0
  \/ m = 1 /\ w = 9 /\ a = 0
  \/ m = 1 /\ w = 12 /\ a = 1
  \/ m = 2 /\ w = 13 /\ a = 1
  \/ m \in 2..5 /\ w = 14 + m /\ a = 2
  \/ m = 5 /\ w = 27 /\ a = 5

\* The driver has written n characters and read r, or lost them on opening.
HostAt(n, r) ==
  \/ stage = "off" /\ step = "idle" /\ sent = 0 /\ n = 0 /\ r = 0
  \/ stage = "trigger" /\ step = "write" /\ sent = 0 /\ n = 0 /\ r \in 0..7
  \/ stage = "trigger" /\ step = "readback" /\ sent = 0 /\ n = 1 /\ r \in 0..7
  \/ stage = "alive" /\ step = "prompt" /\ sent = 0 /\ n = 1 /\ r \in 1..8
  \/ stage = "retrigger" /\ step = "write" /\ sent = 0 /\ n = 1 /\ r = 8
  \/ stage = "retrigger" /\ step = "readback" /\ sent = 0 /\ n = 2 /\ r = 8
  \/ stage = "version" /\ step = "prompt" /\ sent = 0 /\ n = 2 /\ r = 9
  \/ stage = "version" /\ step = "write" /\ sent \in 0..2 /\ n = 2 + sent /\ r = 12 + sent
  \/ stage = "version" /\ step = "readback" /\ sent \in 0..2 /\ n = 3 + sent /\ r = 12 + sent
  \/ stage = "version" /\ step = "reply" /\ sent = 0 /\ n = 5 /\ r = 15
  \/ stage = "mainboard" /\ step = "prompt" /\ sent = 0 /\ n = 5 /\ r = 20

\* What is on the line, in the shell and in the driver is part of the same
\* conversation.
Counts(n, r, m, w, a) ==
  /\ n \in 0..5 /\ m \in 0..n /\ a \in 0..m /\ w \in 0..27 /\ r \in 0..w
  /\ ShellAt(m, w, a)

OnLine(n, r, m, w, a) ==
  /\ h2t = Window(Typing, m, n)
  /\ line = Window(Typing, a, m)
  /\ t2h = Window(Transcript, r, w)

Behind(n, r, m, w, a) == Counts(n, r, m, w, a) /\ HostAt(n, r) /\ OnLine(n, r, m, w, a)

RunsBehind == \E n, r, m, w, a \in Nat : Behind(n, r, m, w, a)

NothingMadeYet == issued = <<>> /\ done = <<>> /\ log = <<>>

\* The target is off; a trigger may wait for it that it will never see.
Dark ==
  /\ up = FALSE /\ boots = 0 /\ line = <<>> /\ t2h = <<>> /\ sent = 0
  /\ \/ stage = "off" /\ step = "idle" /\ h2t = <<>>
     \/ stage = "trigger" /\ step = "write" /\ h2t = <<>>
     \/ stage = "trigger" /\ step = "readback" /\ h2t = <<"@">>

\* The trigger was lost when the target came up: the driver takes the first
\* character of the banner for its echo.
TriggerLost ==
  /\ line = <<>> /\ h2t = <<>> /\ sent = 0
  /\ \/ stage = "trigger" /\ step = "readback" /\ t2h = Window(Transcript, 0, 8)
     \/ stage = "alive" /\ step = "prompt" /\ t2h = Window(Transcript, 1, 8)

ColdInv ==
  /\ TypeOK
  /\ \/ NothingMadeYet /\ Dark
     \/ NothingMadeYet /\ up = TRUE /\ boots = 1 /\ (RunsBehind \/ TriggerLost)
     \/ boots = 1 /\ stage # "off" /\ Lockstep
-----------------------------------------------------------------------------
(***************************************************************************)
(* The conversation.                                                       *)
(***************************************************************************)
LEMMA TranscriptType == Transcript \in Seq(Char) /\ Len(Transcript) = 27
<1>1. {"nl", ">", " ", "V", "@", "*", "v", "i"} \subseteq Char
  BY DEF Char
<1>2. PICK p, q, x, y, z, b, c, d \in Char :
        p = "nl" /\ q = ">" /\ x = " " /\ y = "V" /\ z = "@" /\ b = "*" /\ c = "v" /\ d = "i"
  BY <1>1
<1>3. Transcript = <<p, y, y, y, p, p, q, x, z, p, q, x, z, p, q, x, b, c, d, p, y, y, y, p, p, q, x>>
  BY <1>2, Zenon DEF Transcript
<1>4. <<p, y, y, y, p, p, q, x, z, p, q, x, z, p, q, x, b, c, d, p, y, y, y, p, p, q, x>> \in Seq(Char)
  OBVIOUS
<1>5. Len(Transcript) = 27
  BY DEF Transcript
<1> QED
  BY <1>3, <1>4, <1>5

LEMMA TranscriptIs ==
  /\ Transcript[1] = "nl" /\ Transcript[2] = "V" /\ Transcript[3] = "V" /\ Transcript[4] = "V"
  /\ Transcript[5] = "nl" /\ Transcript[6] = "nl" /\ Transcript[7] = ">" /\ Transcript[8] = Prompt[3]
  /\ Transcript[9] = "@" /\ Transcript[10] = "nl" /\ Transcript[11] = ">" /\ Transcript[12] = Prompt[3]
  /\ Transcript[13] = "@" /\ Transcript[14] = "nl" /\ Transcript[15] = ">" /\ Transcript[16] = Prompt[3]
  /\ Transcript[17] = "*" /\ Transcript[18] = "v" /\ Transcript[19] = "i" /\ Transcript[20] = "nl"
  /\ Transcript[21] = "V" /\ Transcript[22] = "V" /\ Transcript[23] = "V" /\ Transcript[24] = "nl"
  /\ Transcript[25] = "nl" /\ Transcript[26] = ">" /\ Transcript[27] = Prompt[3]
<1>1. /\ Transcript[1] = "nl" /\ Transcript[2] = "V" /\ Transcript[3] = "V" /\ Transcript[4] = "V"
      /\ Transcript[5] = "nl" /\ Transcript[6] = "nl" /\ Transcript[7] = ">" /\ Transcript[8] = Prompt[3]
  BY Zenon DEF Transcript, Prompt
<1>2. /\ Transcript[9] = "@" /\ Transcript[10] = "nl" /\ Transcript[11] = ">" /\ Transcript[12] = Prompt[3]
      /\ Transcript[13] = "@" /\ Transcript[14] = "nl" /\ Transcript[15] = ">" /\ Transcript[16] = Prompt[3]
  BY Zenon DEF Transcript, Prompt
<1>3. /\ Transcript[17] = "*" /\ Transcript[18] = "v" /\ Transcript[19] = "i" /\ Transcript[20] = "nl"
      /\ Transcript[21] = "V" /\ Transcript[22] = "V" /\ Transcript[23] = "V" /\ Transcript[24] = "nl"
      /\ Transcript[25] = "nl" /\ Transcript[26] = ">" /\ Transcript[27] = Prompt[3]
  BY Zenon DEF Transcript, Prompt
<1> QED
  BY <1>1, <1>2, <1>3

LEMMA PromptIs == Prompt[1] = "nl" /\ Prompt[2] = ">" /\ Prompt[3] \notin {"nl", "@", ">"}
BY Zenon DEF Prompt

LEMMA TypingType == Typing \in Seq(Char) /\ Len(Typing) = 5
<1>1. {"@", "*", "v", "i"} \subseteq Char
  BY DEF Char
<1> QED
  BY <1>1 DEF Typing

LEMMA TypingIs ==
  /\ Typing[1] = "@" /\ Typing[2] = "@"
  /\ Typing[3] = "*" /\ Typing[4] = "v" /\ Typing[5] = "i"
BY DEF Typing

\* Reading from the front of a window, and printing behind it.
LEMMA WindowIs ==
  ASSUME NEW s \in Seq(Char), NEW a \in Nat, NEW b \in Nat, a <= b, b <= Len(s)
  PROVE  /\ Window(s, a, b) \in Seq(Char) /\ Len(Window(s, a, b)) = b - a
         /\ \A i \in 1..b - a : Window(s, a, b)[i] = s[a + i]
         /\ (Window(s, a, b) = <<>>) <=> (a = b)
<1>1. Window(s, a, b) \in Seq(Char) /\ Len(Window(s, a, b)) = b - a
  BY DEF Window
<1>2. \A i \in 1..b - a : Window(s, a, b)[i] = s[a + i]
  <2> TAKE i \in 1..b - a
  <2>1. i \in 1..b - (a + 1) + 1 /\ (a + 1) + i - 1 = a + i
    OBVIOUS
  <2> QED
    BY <2>1 DEF Window
<1>3. (Window(s, a, b) = <<>>) <=> (a = b)
  BY <1>1
<1> QED
  BY <1>1, <1>2, <1>3

LEMMA WindowEqual ==
  ASSUME NEW s \in Seq(Char), NEW a \in Nat, NEW b \in Nat, a <= b, b <= Len(s),
         NEW t \in Seq(Char), Len(t) = b - a, \A i \in 1..b - a : t[i] = s[a + i]
  PROVE  t = Window(s, a, b)
<1> DEFINE x == Window(s, a, b)
<1>1. x \in Seq(Char) /\ Len(x) = b - a /\ \A i \in 1..b - a : x[i] = s[a + i]
  BY WindowIs
<1> HIDE DEF x
<1>2. Len(x) = Len(t) /\ \A i \in 1..Len(t) : x[i] = t[i]
  BY <1>1
<1>3. t = x
  BY <1>1, <1>2, SeqEqual
<1> QED
  BY <1>3 DEF x

LEMMA WindowRead ==
  ASSUME NEW s \in Seq(Char), NEW a \in Nat, NEW b \in Nat, b <= Len(s),
         NEW n \in Nat, a <= b, a + n <= b
  PROVE  SubSeq(Window(s, a, b), n + 1, Len(Window(s, a, b))) = Window(s, a + n, b)
<1> DEFINE x == Window(s, a, b)
<1>0. a + n \in Nat
  OBVIOUS
<1>1. x \in Seq(Char) /\ Len(x) = b - a /\ \A i \in 1..b - a : x[i] = s[a + i]
  BY WindowIs, Zenon
<1> HIDE DEF x
<1> DEFINE t == SubSeq(x, n + 1, Len(x))
<1>2. t \in Seq(Char) /\ Len(t) = b - (a + n) /\ \A i \in 1..b - (a + n) : t[i] = x[n + i]
  BY <1>1
<1> HIDE DEF t
<1>3. \A i \in 1..b - (a + n) : t[i] = s[(a + n) + i]
  BY <1>1, <1>2
<1>4. t = Window(s, a + n, b)
  BY <1>0, <1>2, <1>3, WindowEqual, Zenon
<1> QED
  BY <1>4 DEF t, x

LEMMA WindowTail ==
  ASSUME NEW s \in Seq(Char), NEW a \in Nat, NEW b \in Nat, a < b, b <= Len(s)
  PROVE  /\ Window(s, a, b) # <<>> /\ Head(Window(s, a, b)) = s[a + 1]
         /\ Tail(Window(s, a, b)) = Window(s, a + 1, b)
<1> DEFINE x == Window(s, a, b)
           t == Tail(x)
<1>0. a <= b /\ a + 1 \in Nat /\ a + 1 <= b /\ a # b
  OBVIOUS
<1>1. /\ x \in Seq(Char) /\ Len(x) = b - a /\ \A i \in 1..b - a : x[i] = s[a + i]
      /\ x # <<>>
  BY <1>0, WindowIs, Zenon
<1> HIDE DEF x
<1>2. Head(x) = s[a + 1]
  BY <1>1
<1>3. t \in Seq(Char) /\ Len(t) = b - (a + 1) /\ \A i \in 1..b - (a + 1) : t[i] = x[i + 1]
  BY <1>1
<1> HIDE DEF t
<1>4. \A i \in 1..b - (a + 1) : t[i] = s[(a + 1) + i]
  BY <1>1, <1>3
<1>5. t = Window(s, a + 1, b)
  BY <1>0, <1>3, <1>4, WindowEqual, Zenon
<1> QED
  BY <1>1, <1>2, <1>5 DEF t, x

LEMMA WindowJoin ==
  ASSUME NEW s \in Seq(Char), NEW a \in Nat, NEW b \in Nat, NEW c \in Nat,
         a <= b, b <= c, c <= Len(s)
  PROVE  Window(s, a, b) \o Window(s, b, c) = Window(s, a, c)
<1> DEFINE x == Window(s, a, b)
           y == Window(s, b, c)
           t == x \o y
<1>0. b <= Len(s) /\ a <= c
  OBVIOUS
<1>1. /\ x \in Seq(Char) /\ Len(x) = b - a /\ \A i \in 1..b - a : x[i] = s[a + i]
      /\ y \in Seq(Char) /\ Len(y) = c - b /\ \A i \in 1..c - b : y[i] = s[b + i]
  BY <1>0, WindowIs, Zenon
<1> HIDE DEF x, y
<1>2. /\ t \in Seq(Char) /\ Len(t) = c - a
      /\ \A i \in 1..c - a : t[i] = IF i <= b - a THEN x[i] ELSE y[i - (b - a)]
  <2>1. /\ t \in Seq(Char) /\ Len(t) = Len(x) + Len(y)
        /\ \A i \in 1..Len(x) + Len(y) : t[i] = IF i <= Len(x) THEN x[i] ELSE y[i - Len(x)]
    BY <1>1, ConcatProperties, Zenon
  <2> QED
    BY <1>1, <2>1
<1> HIDE DEF t
<1>3. \A i \in 1..c - a : t[i] = s[a + i]
  <2> TAKE i \in 1..c - a
  <2>1. CASE i <= b - a
    BY <1>1, <1>2, <2>1
  <2>2. CASE i > b - a
    <3>1. i - (b - a) \in 1..c - b /\ b + (i - (b - a)) = a + i
      BY <2>2
    <3> QED
      BY <1>1, <1>2, <2>2, <3>1
  <2> QED
    BY <2>1, <2>2
<1>4. t = Window(s, a, c)
  BY <1>0, <1>2, <1>3, WindowEqual, Zenon
<1> QED
  BY <1>4 DEF t, x, y

\* One more character.
LEMMA WindowGrows ==
  ASSUME NEW s \in Seq(Char), NEW a \in Nat, NEW b \in Nat, a <= b, b < Len(s)
  PROVE  /\ Append(Window(s, a, b), s[b + 1]) = Window(s, a, b + 1)
         /\ Window(s, a, b) \o <<s[b + 1]>> = Window(s, a, b + 1)
<1> DEFINE x == Window(s, a, b)
<1>0. b <= Len(s) /\ b + 1 \in Nat /\ a <= b + 1 /\ b + 1 <= Len(s)
  OBVIOUS
<1>1. x \in Seq(Char) /\ Len(x) = b - a /\ \A i \in 1..b - a : x[i] = s[a + i]
  BY <1>0, WindowIs, Zenon
<1> HIDE DEF x
<1>2. s[b + 1] \in Char
  OBVIOUS
<1> DEFINE t == Append(x, s[b + 1])
<1>3. /\ t \in Seq(Char) /\ Len(t) = (b + 1) - a
      /\ \A i \in 1..(b + 1) - a : t[i] = IF i <= b - a THEN x[i] ELSE s[b + 1]
  BY <1>1, <1>2
<1> HIDE DEF t
<1>4. \A i \in 1..(b + 1) - a : t[i] = s[a + i]
  BY <1>1, <1>3
<1>5. t = Window(s, a, b + 1)
  BY <1>0, <1>3, <1>4, WindowEqual, Zenon
<1>6. x \o <<s[b + 1]>> = t
  BY <1>1, <1>2, AppendIsConcat DEF t
<1> QED
  BY <1>5, <1>6 DEF t, x

\* The first part of a window.
LEMMA WindowFront ==
  ASSUME NEW s \in Seq(Char), NEW a \in Nat, NEW b \in Nat, a <= b, b <= Len(s),
         NEW k \in Nat, k <= b - a
  PROVE  SubSeq(Window(s, a, b), 1, k) = Window(s, a, a + k)
<1> DEFINE x == Window(s, a, b)
<1>1. x \in Seq(Char) /\ Len(x) = b - a /\ \A i \in 1..b - a : x[i] = s[a + i]
  BY WindowIs, Zenon
<1> HIDE DEF x
<1> DEFINE t == SubSeq(x, 1, k)
<1>2. t \in Seq(Char) /\ Len(t) = (a + k) - a /\ \A i \in 1..(a + k) - a : t[i] = x[i]
  BY <1>1
<1> HIDE DEF t
<1>3. \A i \in 1..(a + k) - a : t[i] = s[a + i]
  <2> TAKE i \in 1..(a + k) - a
  <2>1. i \in 1..b - a
    OBVIOUS
  <2> QED
    BY <1>1, <1>2, <2>1, Zenon
<1>4. a + k \in Nat /\ a <= a + k /\ a + k <= Len(s)
  OBVIOUS
<1>5. t = Window(s, a, a + k)
  BY <1>2, <1>3, <1>4, WindowEqual, Zenon
<1> QED
  BY <1>5 DEF t, x

\* The same for the two sides of the conversation.
LEMMA Printed ==
  ASSUME NEW r \in 0..27, NEW w \in r..27
  PROVE  /\ Window(Transcript, r, w) \in Seq(Char) /\ Len(Window(Transcript, r, w)) = w - r
         /\ (Window(Transcript, r, w) = <<>>) <=> (r = w)
         /\ \A i \in 1..w - r : Window(Transcript, r, w)[i] = Transcript[r + i]
         /\ r < w => /\ Head(Window(Transcript, r, w)) = Transcript[r + 1]
                     /\ Tail(Window(Transcript, r, w)) = Window(Transcript, r + 1, w)
         /\ w < 27 => Window(Transcript, r, w) \o <<Transcript[w + 1]>> = Window(Transcript, r, w + 1)
         /\ \A v \in w..27 : Window(Transcript, r, w) \o Window(Transcript, w, v) = Window(Transcript, r, v)
<1>1. r \in Nat /\ w \in Nat /\ r <= w /\ w <= Len(Transcript) /\ Transcript \in Seq(Char)
  BY TranscriptType
<1>2. r < w => /\ Head(Window(Transcript, r, w)) = Transcript[r + 1]
               /\ Tail(Window(Transcript, r, w)) = Window(Transcript, r + 1, w)
  BY <1>1, WindowTail, Zenon
<1>3. ASSUME w < 27
      PROVE  Window(Transcript, r, w) \o <<Transcript[w + 1]>> = Window(Transcript, r, w + 1)
  <2>1. w < Len(Transcript)
    BY <1>3, TranscriptType
  <2> QED
    BY <1>1, <2>1, WindowGrows, Zenon
<1>4. ASSUME NEW v \in w..27
      PROVE  Window(Transcript, r, w) \o Window(Transcript, w, v) = Window(Transcript, r, v)
  <2>1. v \in Nat /\ w <= v /\ v <= Len(Transcript)
    BY TranscriptType
  <2> QED
    BY <1>1, <2>1, WindowJoin, Zenon
<1>5. /\ Window(Transcript, r, w) \in Seq(Char) /\ Len(Window(Transcript, r, w)) = w - r
      /\ (Window(Transcript, r, w) = <<>>) <=> (r = w)
      /\ \A i \in 1..w - r : Window(Transcript, r, w)[i] = Transcript[r + i]
  BY <1>1, WindowIs, Zenon
<1> QED
  BY <1>2, <1>3, <1>4, <1>5

LEMMA Typewritten ==
  ASSUME NEW m \in 0..5, NEW n \in m..5
  PROVE  /\ Window(Typing, m, n) \in Seq(Char) /\ Len(Window(Typing, m, n)) = n - m
         /\ \A i \in 1..n - m : Window(Typing, m, n)[i] = Typing[m + i]
         /\ (Window(Typing, m, n) = <<>>) <=> (m = n)
         /\ m < n => /\ Head(Window(Typing, m, n)) = Typing[m + 1]
                     /\ Tail(Window(Typing, m, n)) = Window(Typing, m + 1, n)
         /\ n < 5 => Append(Window(Typing, m, n), Typing[n + 1]) = Window(Typing, m, n + 1)
         /\ \A k \in 0..n - m : SubSeq(Window(Typing, m, n), 1, k) = Window(Typing, m, m + k)
<1>1. m \in Nat /\ n \in Nat /\ m <= n /\ n <= Len(Typing) /\ Typing \in Seq(Char)
  BY TypingType
<1>2. m < n => /\ Head(Window(Typing, m, n)) = Typing[m + 1]
               /\ Tail(Window(Typing, m, n)) = Window(Typing, m + 1, n)
  BY <1>1, WindowTail, Zenon
<1>3. ASSUME n < 5
      PROVE  Append(Window(Typing, m, n), Typing[n + 1]) = Window(Typing, m, n + 1)
  <2>1. n < Len(Typing)
    BY <1>3, TypingType
  <2> QED
    BY <1>1, <2>1, WindowGrows, Zenon
<1>4. ASSUME NEW k \in 0..n - m
      PROVE  SubSeq(Window(Typing, m, n), 1, k) = Window(Typing, m, m + k)
  <2>1. k \in Nat /\ k <= n - m
    OBVIOUS
  <2> QED
    BY <1>1, <2>1, WindowFront, Zenon
<1>5. /\ Window(Typing, m, n) \in Seq(Char) /\ Len(Window(Typing, m, n)) = n - m
      /\ \A i \in 1..n - m : Window(Typing, m, n)[i] = Typing[m + i]
      /\ (Window(Typing, m, n) = <<>>) <=> (m = n)
  BY <1>1, WindowIs, Zenon
<1> QED
  BY <1>2, <1>3, <1>4, <1>5

\* What is said, piece by piece.
LEMMA PromptAfter ==
  ASSUME NEW b \in 0..24,
         Transcript[b + 1] = "nl" /\ Transcript[b + 2] = ">" /\ Transcript[b + 3] = Prompt[3]
  PROVE  Prompt = Window(Transcript, b, b + 3)
<1>1. b \in Nat /\ b + 3 \in Nat /\ b <= b + 3 /\ b + 3 <= Len(Transcript)
  BY TranscriptType
<1>2. Prompt \in Seq(Char) /\ Len(Prompt) = (b + 3) - b
  BY PromptShape
<1>3. \A i \in 1..(b + 3) - b : Prompt[i] = Transcript[b + i]
  <2>1. \A i \in 1..(b + 3) - b : i \in {1, 2, 3}
    OBVIOUS
  <2>2. Prompt[1] = "nl" /\ Prompt[2] = ">"
    BY PromptIs
  <2> QED
    BY <2>1, <2>2
<1> QED
  BY <1>1, <1>2, <1>3, TranscriptType, WindowEqual, Zenon

LEMMA BannerAfter ==
  ASSUME NEW b \in 0..22, Transcript[b + 1] = "nl" /\ Transcript[b + 5] = "nl",
         Transcript[b + 2] = "V" /\ Transcript[b + 3] = "V" /\ Transcript[b + 4] = "V"
  PROVE  Banner = Window(Transcript, b, b + 5)
<1>1. b \in Nat /\ b + 5 \in Nat /\ b <= b + 5 /\ b + 5 <= Len(Transcript)
  BY TranscriptType
<1>2. Banner \in Seq(Char) /\ Len(Banner) = (b + 5) - b
  BY BannerShape
<1>3. \A i \in 1..(b + 5) - b : Banner[i] = Transcript[b + i]
  <2>1. \A i \in 1..(b + 5) - b : i \in {1, 2, 3, 4, 5}
    OBVIOUS
  <2>2. Banner[1] = "nl" /\ Banner[2] = "V" /\ Banner[3] = "V" /\ Banner[4] = "V"
        /\ Banner[5] = "nl"
    BY DEF Banner
  <2> QED
    BY <2>1, <2>2
<1> QED
  BY <1>1, <1>2, <1>3, TranscriptType, WindowEqual, Zenon

LEMMA Pieces ==
  /\ Prompt = Window(Transcript, 9, 12) /\ Prompt = Window(Transcript, 13, 16)
  /\ Banner \o Prompt = Window(Transcript, 0, 8)
  /\ Banner \o Prompt = Window(Transcript, 19, 27)
<1>1. Prompt = Window(Transcript, 5, 5 + 3) /\ Prompt = Window(Transcript, 9, 9 + 3)
  BY TranscriptIs, PromptAfter
<1>2. Prompt = Window(Transcript, 13, 13 + 3) /\ Prompt = Window(Transcript, 24, 24 + 3)
  BY TranscriptIs, PromptAfter
<1>3. Banner = Window(Transcript, 0, 0 + 5) /\ Banner = Window(Transcript, 19, 19 + 5)
  BY TranscriptIs, BannerAfter
<1>4. /\ Window(Transcript, 0, 5) \o Window(Transcript, 5, 8) = Window(Transcript, 0, 8)
      /\ Window(Transcript, 19, 24) \o Window(Transcript, 24, 27) = Window(Transcript, 19, 27)
  <2>1. 0 \in 0..27 /\ 5 \in 0..27 /\ 8 \in 5..27 /\ 19 \in 0..27 /\ 24 \in 19..27 /\ 27 \in 24..27
    OBVIOUS
  <2> QED
    BY <2>1, Printed
<1>5. /\ 5 + 3 = 8 /\ 9 + 3 = 12 /\ 13 + 3 = 16 /\ 24 + 3 = 27
      /\ 0 + 5 = 5 /\ 19 + 5 = 24
  OBVIOUS
<1> QED
  BY <1>1, <1>2, <1>3, <1>4, <1>5

LEMMA TypedCommands ==
  /\ Window(Typing, 0, 1) = <<"@">> /\ Window(Typing, 1, 2) = <<"@">>
  /\ Window(Typing, 2, 5) = <<"*", "v", "i">>
<1>1. /\ 0 \in 0..5 /\ 1 \in 0..5 /\ 2 \in 0..5 /\ 1 \in 0..5 /\ 2 \in 1..5 /\ 5 \in 2..5
  OBVIOUS
<1>2. ASSUME NEW k \in {0, 1}
      PROVE  Window(Typing, k, k + 1) = <<"@">>
  <2> DEFINE t == Window(Typing, k, k + 1)
  <2>1. k \in 0..5 /\ k + 1 \in k..5 /\ (k + 1 = 1 \/ k + 1 = 2)
    OBVIOUS
  <2>2. t \in Seq(Char) /\ Len(t) = (k + 1) - k /\ \A i \in 1..(k + 1) - k : t[i] = Typing[k + i]
    BY <2>1, Typewritten, Zenon
  <2> HIDE DEF t
  <2>3. Len(t) = 1 /\ t[1] = "@"
    BY <2>1, <2>2, TypingIs
  <2>4. t = <<"@">>
    BY <2>2, <2>3
  <2> QED
    BY <2>4 DEF t
<1>3. Window(Typing, 2, 5) = <<"*", "v", "i">>
  <2> DEFINE t == Window(Typing, 2, 5)
  <2>1. t \in Seq(Char) /\ Len(t) = 5 - 2 /\ \A i \in 1..5 - 2 : t[i] = Typing[2 + i]
    BY <1>1, Typewritten, Zenon
  <2> HIDE DEF t
  <2>2. Len(t) = 3 /\ t[1] = "*" /\ t[2] = "v" /\ t[3] = "i"
    BY <2>1, TypingIs
  <2>3. t = <<"*", "v", "i">>
    BY <2>1, <2>2
  <2> QED
    BY <2>3 DEF t
<1>4. Window(Typing, 0, 0 + 1) = <<"@">> /\ Window(Typing, 1, 1 + 1) = <<"@">> /\ 0 + 1 = 1 /\ 1 + 1 = 2
  BY <1>2
<1> QED
  BY <1>3, <1>4

\* Each character is echoed when it is read.
LEMMA Echoes ==
  ASSUME NEW m \in Nat, NEW w \in Nat, NEW a \in Nat, ShellAt(m, w, a),
         (m \in {0, 1} /\ a = m) \/ (m \in 2..4 /\ a = 2)
  PROVE  /\ w < 27 /\ m < 5 /\ ShellAt(m + 1, w + 1, a)
         /\ Transcript[w + 1] = Typing[m + 1]
         /\ m \in {0, 1} => Typing[m + 1] = "@"
         /\ m = 2 => Typing[m + 1] = "*"
         /\ m = 3 => Typing[m + 1] = "v"
         /\ m = 4 => Typing[m + 1] = "i"
<1>1. \/ m = 0 /\ w = 8 /\ a = 0
      \/ m = 1 /\ w = 12 /\ a = 1
      \/ m = 2 /\ w = 16 /\ a = 2
      \/ m = 3 /\ w = 17 /\ a = 2
      \/ m = 4 /\ w = 18 /\ a = 2
  BY DEF ShellAt
<1>2. w < 27 /\ m < 5 /\ ShellAt(m + 1, w + 1, a)
  BY <1>1 DEF ShellAt
<1>3. \/ m + 1 = 1 /\ w + 1 = 9
      \/ m + 1 = 2 /\ w + 1 = 13
      \/ m + 1 = 3 /\ w + 1 = 17
      \/ m + 1 = 4 /\ w + 1 = 18
      \/ m + 1 = 5 /\ w + 1 = 19
  BY <1>1
<1>4. Transcript[w + 1] = Typing[m + 1]
  BY <1>3, TranscriptIs, TypingIs, Zenon
<1>5. /\ m = 0 => m + 1 = 1
      /\ m = 1 => m + 1 = 2
      /\ m = 2 => m + 1 = 3
      /\ m = 3 => m + 1 = 4
      /\ m = 4 => m + 1 = 5
  OBVIOUS
<1>6. /\ m \in {0, 1} => Typing[m + 1] = "@"
      /\ m = 2 => Typing[m + 1] = "*"
      /\ m = 3 => Typing[m + 1] = "v"
      /\ m = 4 => Typing[m + 1] = "i"
  BY <1>5, TypingIs, Zenon
<1> QED
  BY <1>2, <1>4, <1>6
-----------------------------------------------------------------------------
(***************************************************************************)
(* The shell goes on with the conversation.                                *)
(***************************************************************************)
LEMMA ShellBehind ==
  ASSUME NEW n \in Nat, NEW r \in Nat, NEW m \in Nat, NEW w \in Nat, NEW a \in Nat,
         Behind(n, r, m, w, a), Shell
  PROVE  RunsBehind' /\ done' = done /\ up' = up
<1>1. ShellNext /\ UNCHANGED <<stage, step, sent>>
  BY DEF Shell, hostVars
<1>2. Counts(n, r, m, w, a) /\ HostAt(n, r) /\ OnLine(n, r, m, w, a)
  BY DEF Behind
<1>3. HostAt(n, r)'
  BY <1>1, <1>2 DEF HostAt
<1>4. m \in 0..5 /\ n \in m..5 /\ a \in 0..5 /\ m \in a..5 /\ r \in 0..27 /\ w \in r..27
      /\ ShellAt(m, w, a)
  BY <1>2 DEF Counts
<1>5. t2h \in Seq(Char)
  BY <1>2, <1>4, Printed DEF OnLine
<1>6. ASSUME NEW T, NEW k \in 0..Len(T) - 1, WellFormed(T) \/ T = <<"@">>,
             line = SubSeq(T, 1, k), T[k + 1] = Typing[m + 1],
             (m \in {0, 1} /\ a = m) \/ (m \in 2..4 /\ a = 2)
      PROVE  RunsBehind' /\ done' = done /\ up' = up
  <2>0. w < 27 /\ m < 5 /\ ShellAt(m + 1, w + 1, a) /\ Transcript[w + 1] = Typing[m + 1]
    BY <1>4, <1>6, Echoes
  <2>1. m < n => Head(h2t) = Typing[m + 1] /\ Tail(h2t) = Window(Typing, m + 1, n)
    BY <1>2, <1>4, Typewritten, Zenon DEF OnLine
  <2>2. m = n => h2t = <<>>
    BY <1>2, <1>4, Typewritten DEF OnLine
  <2>3. h2t # <<>> => Head(h2t) = T[k + 1]
    BY <1>4, <1>6, <2>1, <2>2
  <2>4. /\ line' = Append(line, T[k + 1]) /\ h2t # <<>> /\ h2t' = Tail(h2t)
        /\ t2h' = t2h \o <<T[k + 1]>> /\ up' = up /\ done' = done
    BY <1>1, <1>5, <1>6, <2>3, ShellReads
  <2>5. m < n
    BY <1>4, <2>2, <2>4
  <2>6. h2t' = Window(Typing, m + 1, n)
    BY <2>1, <2>4, <2>5
  <2>7. line' = Window(Typing, a, m + 1)
    <3>1. Append(Window(Typing, a, m), Typing[m + 1]) = Window(Typing, a, m + 1)
      BY <1>4, <2>0, Typewritten, Zenon
    <3> QED
      BY <1>2, <1>6, <2>4, <3>1 DEF OnLine
  <2>8. t2h' = Window(Transcript, r, w + 1)
    <3>1. Window(Transcript, r, w) \o <<Transcript[w + 1]>> = Window(Transcript, r, w + 1)
      BY <1>4, <2>0, Printed, Zenon
    <3> QED
      BY <1>2, <1>6, <2>0, <2>4, <3>1 DEF OnLine
  <2>9. Counts(n, r, m + 1, w + 1, a)
    <3>1. n \in 0..5 /\ m + 1 \in 0..n /\ a \in 0..m + 1
      BY <1>4, <2>5
    <3>2. w + 1 \in 0..27 /\ r \in 0..w + 1
      <4>1. r \in 0..27 /\ w \in r..27 /\ w < 27
        BY <1>4, <2>0, Zenon
      <4> QED
        BY <4>1
    <3> QED
      BY <2>0, <3>1, <3>2 DEF Counts
  <2>10. Behind(n, r, m + 1, w + 1, a)'
    BY <1>3, <2>6, <2>7, <2>8, <2>9 DEF Behind, OnLine, Counts, ShellAt
  <2>11. m + 1 \in Nat /\ w + 1 \in Nat
    OBVIOUS
  <2> QED
    BY <2>4, <2>10, <2>11 DEF RunsBehind
<1>7. ASSUME NEW T \in {<<"@">>, <<"*", "v", "i">>}, line = T, NEW w2 \in w..27,
             (IF T = <<"@">> THEN Prompt ELSE Banner \o Prompt) = Window(Transcript, w, w2),
             ShellAt(m, w2, m)
      PROVE  RunsBehind' /\ done' = done /\ up' = up
  <2>1. /\ done' = done /\ line' = <<>> /\ h2t' = h2t /\ up' = up
        /\ t2h' = t2h \o (CASE T = <<"@">>          -> <<>>
                            [] T = <<"*", "v", "i">> -> Banner
                            [] OTHER                -> BoardName) \o Prompt
    BY <1>1, <1>7, ShellAnswers
  <2>2. t2h' = t2h \o Window(Transcript, w, w2)
    <3>1. CASE T = <<"@">>
      <4>1. t2h \o <<>> \o Prompt = t2h \o Prompt
        BY <1>5, Joined, PrintedChars
      <4> QED
        BY <1>7, <2>1, <3>1, <4>1
    <3>2. CASE T = <<"*", "v", "i">>
      <4>1. T # <<"@">>
        BY <3>2
      <4>2. t2h \o Banner \o Prompt = t2h \o (Banner \o Prompt)
        BY <1>5, Joined, PrintedChars
      <4> QED
        BY <1>7, <2>1, <3>2, <4>1, <4>2
    <3> QED
      BY <1>7, <3>1, <3>2
  <2>3. t2h' = Window(Transcript, r, w2)
    BY <1>2, <1>4, <1>7, <2>2, Printed DEF OnLine
  <2>4. line' = Window(Typing, m, m)
    <3>1. m \in m..5
      BY <1>4
    <3> QED
      BY <1>4, <2>1, <3>1, Typewritten, Zenon
  <2>5. Counts(n, r, m, w2, m)
    BY <1>2, <1>7 DEF Counts
  <2>6. Behind(n, r, m, w2, m)'
    BY <1>2, <1>3, <2>1, <2>3, <2>4, <2>5 DEF Behind, OnLine, Counts, ShellAt
  <2>7. w2 \in Nat
    OBVIOUS
  <2> QED
    BY <2>1, <2>6, <2>7 DEF RunsBehind
<1>8. CASE m \in {0, 1} /\ a = m
  <2> DEFINE T == <<"@">>
  <2>1. line = <<>>
    BY <1>2, <1>4, <1>8, Typewritten DEF OnLine
  <2>2. SubSeq(T, 1, 0) = <<>> /\ 0 \in 0..Len(T) - 1 /\ T[0 + 1] = "@"
    OBVIOUS
  <2>3. Typing[m + 1] = "@"
    BY <1>4, <1>8, Echoes
  <2> QED
    BY <1>6, <1>8, <2>1, <2>2, <2>3
<1>9. CASE m \in 2..4 /\ a = 2
  <2> DEFINE T == <<"*", "v", "i">>
  <2>1. WellFormed(T) /\ Len(T) = 3 /\ T[1] = "*" /\ T[2] = "v" /\ T[3] = "i"
    BY PlainFormed
  <2>2. line = SubSeq(T, 1, m - 2)
    <3>1. SubSeq(Window(Typing, 2, 5), 1, m - 2) = Window(Typing, 2, 2 + (m - 2))
      <4>1. 2 \in 0..5 /\ 5 \in 2..5 /\ m - 2 \in 0..5 - 2
        BY <1>9
      <4> QED
        BY <4>1, Typewritten
    <3> QED
      BY <1>2, <1>9, <3>1, TypedCommands DEF OnLine
  <2> HIDE DEF T
  <2>3. m - 2 \in 0..Len(T) - 1 /\ T[(m - 2) + 1] = Typing[m + 1]
    <3>1. \/ m = 2 /\ m - 2 = 0 /\ (m - 2) + 1 = 1 /\ Typing[m + 1] = "*"
          \/ m = 3 /\ m - 2 = 1 /\ (m - 2) + 1 = 2 /\ Typing[m + 1] = "v"
          \/ m = 4 /\ m - 2 = 2 /\ (m - 2) + 1 = 3 /\ Typing[m + 1] = "i"
      BY <1>4, <1>9, Echoes
    <3> QED
      BY <2>1, <3>1
  <2> QED
    BY <1>6, <1>9, <2>1, <2>2, <2>3
<1>10. CASE m \in {1, 2} /\ a = m - 1
  <2> DEFINE T == <<"@">>
  <2>1. line = T
    BY <1>2, <1>10, TypedCommands DEF OnLine
  <2>2. \/ m = 1 /\ w = 9 /\ ShellAt(m, 12, m) /\ Prompt = Window(Transcript, w, 12)
        \/ m = 2 /\ w = 13 /\ ShellAt(m, 16, m) /\ Prompt = Window(Transcript, w, 16)
    BY <1>2, <1>10, Pieces DEF Counts, ShellAt
  <2> QED
    BY <1>7, <2>1, <2>2
<1>11. CASE m = 5 /\ a = 2
  <2> DEFINE T == <<"*", "v", "i">>
  <2>1. line = T /\ T # <<"@">>
    BY <1>2, <1>11, TypedCommands DEF OnLine
  <2>2. w = 19 /\ ShellAt(m, 27, m) /\ Banner \o Prompt = Window(Transcript, w, 27)
    BY <1>2, <1>11, Pieces DEF Counts, ShellAt
  <2> QED
    BY <1>7, <2>1, <2>2
<1>12. CASE m = 5 /\ a = 5
  <2>1. line = <<>> /\ h2t = <<>>
    BY <1>2, <1>4, <1>12, Typewritten DEF OnLine
  <2> QED
    BY <1>1, <2>1, ShellIdles, TriggerActs
<1> QED
  BY <1>2, <1>8, <1>9, <1>10, <1>11, <1>12 DEF Counts, ShellAt
-----------------------------------------------------------------------------
(***************************************************************************)
(* The driver goes on with the conversation, or catches up.                *)
(***************************************************************************)

\* Nothing is left on the line when the driver begins to write: from here on
\* both are in step.
LEMMA CaughtUp ==
  ASSUME NothingMadeYet, up = TRUE, UNCHANGED <<up, line, done, issued, log>>,
         stage' \in {"trigger", "retrigger", "mainboard"}, step' = "write", sent' = 0,
         line = <<>>, h2t' = <<>>, t2h' = <<>>
  PROVE  stage' # "off" /\ Lockstep'
<1>1. Len(Text') \in Nat /\ Len(Text') >= 1
  BY DEF Text, Handshake
<1>2. SubSeq(Text', 1, 0) = <<>>
  BY <1>1
<1>3. Writing'
  BY <1>1, <1>2 DEF NothingMadeYet, Writing, Typed, Line
<1>4. Commanding' /\ Recorded' /\ Reachable'
  BY DEF NothingMadeYet, Commanding, Recorded, Reachable, Stages, Handshake
<1> QED
  BY <1>3, <1>4 DEF Lockstep

\* Taking k characters from the queue.
LEMMA ReadOn ==
  ASSUME NEW r \in 0..27, NEW w \in r..27, t2h = Window(Transcript, r, w),
         NEW k \in 0..w - r
  PROVE  /\ Len(t2h) = w - r /\ SubSeq(t2h, k + 1, Len(t2h)) = Window(Transcript, r + k, w)
         /\ \A i \in 1..w - r : t2h[i] = Transcript[r + i]
<1>1. /\ Len(t2h) = w - r /\ \A i \in 1..w - r : t2h[i] = Transcript[r + i]
  BY Printed, Zenon
<1>2. /\ r \in Nat /\ w \in Nat /\ w <= Len(Transcript) /\ k \in Nat /\ r <= w /\ r + k <= w
      /\ Transcript \in Seq(Char)
  BY TranscriptType
<1>3. SubSeq(t2h, k + 1, Len(t2h)) = Window(Transcript, r + k, w)
  BY <1>2, WindowRead, Zenon
<1> QED
  BY <1>1, <1>3

LEMMA BehindOpens ==
  ASSUME NEW n \in Nat, NEW r \in Nat, NEW m \in Nat, NEW w \in Nat, NEW a \in Nat,
         Behind(n, r, m, w, a), NothingMadeYet, up = TRUE, UNCHANGED <<up, line, done>>,
         stage = "off", Open
  PROVE  NothingMadeYet' /\ (RunsBehind' \/ (stage' # "off" /\ Lockstep'))
<1>1. n = 0 /\ r = 0
  BY DEF Behind, HostAt
<1>2. m = 0 /\ w = 8 /\ a = 0
  BY <1>1 DEF Behind, Counts, ShellAt
<1>3. h2t = Window(Typing, 0, 0) /\ line = Window(Typing, 0, 0) /\ t2h = Window(Transcript, 0, 8)
  BY <1>1, <1>2 DEF Behind, OnLine
<1>4. h2t = <<>> /\ line = <<>>
  <2>1. 0 \in 0..5 /\ Window(Typing, 0, 0) = <<>>
    BY Typewritten
  <2> QED
    BY <1>3, <2>1
<1>5. /\ stage' = "trigger" /\ step' = "write" /\ sent' = 0 /\ h2t' = <<>>
      /\ t2h' \in Suffixes(t2h) /\ UNCHANGED <<issued, log>>
  BY <1>4, NothingToLose DEF Open
<1>6. CASE t2h' = <<>>
  BY <1>4, <1>5, <1>6, CaughtUp DEF NothingMadeYet
<1>7. ASSUME NEW k \in 1..Len(t2h), t2h' = SubSeq(t2h, k, Len(t2h))
      PROVE  RunsBehind'
  <2>1. 0 \in 0..27 /\ 8 \in 0..27 /\ Len(t2h) = 8
    <3>1. 0 \in 0..27 /\ 8 \in 0..27 /\ 0 \in 0..8 - 0 /\ 8 - 0 = 8
      OBVIOUS
    <3> QED
      BY <1>3, <3>1, ReadOn
  <2>2. k - 1 \in 0..8 - 0 /\ k = (k - 1) + 1 /\ 0 + (k - 1) = k - 1
    BY <2>1
  <2>3. t2h' = Window(Transcript, k - 1, 8)
    <3>1. SubSeq(t2h, (k - 1) + 1, Len(t2h)) = Window(Transcript, 0 + (k - 1), 8)
      BY <1>3, <2>1, <2>2, ReadOn
    <3> QED
      BY <1>7, <2>2, <3>1
  <2>4. k - 1 \in 0..7 /\ k - 1 \in Nat
    BY <2>1
  <2>5. HostAt(0, k - 1)'
    BY <1>5, <2>4 DEF HostAt
  <2>6. Counts(0, k - 1, 0, 8, 0)'
    BY <2>4 DEF Counts, ShellAt
  <2>7. OnLine(0, k - 1, 0, 8, 0)'
    BY <1>3, <1>4, <1>5, <2>3 DEF OnLine
  <2> QED
    BY <2>4, <2>5, <2>6, <2>7 DEF RunsBehind, Behind
<1> QED
  BY <1>5, <1>6, <1>7 DEF Suffixes, NothingMadeYet

LEMMA BehindWrites ==
  ASSUME NEW n \in Nat, NEW r \in Nat, NEW m \in Nat, NEW w \in Nat, NEW a \in Nat,
         Behind(n, r, m, w, a), UNCHANGED line, step = "write", Write
  PROVE  RunsBehind'
<1>1. /\ step' = "readback" /\ h2t' = Append(h2t, Text[sent + 1])
      /\ UNCHANGED <<stage, sent, t2h>>
  BY DEF Write
<1>2. n < 5 /\ HostAt(n + 1, r)' /\ Text[sent + 1] = Typing[n + 1]
  <2>1. \/ stage = "trigger" /\ sent = 0 /\ n = 0 /\ r \in 0..7
        \/ stage = "retrigger" /\ sent = 0 /\ n = 1 /\ r = 8
        \/ stage = "version" /\ sent \in 0..2 /\ n = 2 + sent /\ r = 12 + sent
    BY DEF Behind, HostAt
  <2>2. n < 5 /\ HostAt(n + 1, r)'
    BY <1>1, <2>1 DEF HostAt
  <2>3. CASE stage \in {"trigger", "retrigger"}
    <3>1. Text = <<"@">> /\ sent + 1 = 1 /\ (n + 1 = 1 \/ n + 1 = 2)
      BY <2>1, <2>3 DEF Text, Handshake
    <3>2. Text[sent + 1] = "@"
      BY <3>1
    <3>3. Typing[n + 1] = "@"
      BY <3>1, TypingIs, Zenon
    <3> QED
      BY <2>2, <3>2, <3>3
  <2>4. CASE stage = "version"
    <3>1. Text = <<"*", "v", "i">>
      BY <2>4 DEF Text, Handshake
    <3>2. \/ sent + 1 = 1 /\ n + 1 = 3
          \/ sent + 1 = 2 /\ n + 1 = 4
          \/ sent + 1 = 3 /\ n + 1 = 5
      BY <2>1, <2>4
    <3>3. Text[1] = "*" /\ Text[2] = "v" /\ Text[3] = "i"
      BY <3>1
    <3>4. CASE sent + 1 = 1 /\ n + 1 = 3
      <4>1. Text[sent + 1] = "*" /\ Typing[n + 1] = "*"
        BY <3>3, <3>4, TypingIs
      <4> QED
        BY <2>2, <4>1
    <3>5. CASE sent + 1 = 2 /\ n + 1 = 4
      <4>1. Text[sent + 1] = "v" /\ Typing[n + 1] = "v"
        BY <3>3, <3>5, TypingIs
      <4> QED
        BY <2>2, <4>1
    <3>6. CASE sent + 1 = 3 /\ n + 1 = 5
      <4>1. Text[sent + 1] = "i" /\ Typing[n + 1] = "i"
        BY <3>3, <3>6, TypingIs
      <4> QED
        BY <2>2, <4>1
    <3> QED
      BY <3>2, <3>4, <3>5, <3>6
  <2> QED
    BY <2>1, <2>2, <2>3, <2>4
<1>3. m \in 0..5 /\ n \in m..5 /\ Counts(n + 1, r, m, w, a)
  BY <1>2 DEF Behind, Counts
<1>4. h2t' = Window(Typing, m, n + 1)
  <2>1. Append(Window(Typing, m, n), Typing[n + 1]) = Window(Typing, m, n + 1)
    BY <1>2, <1>3, Typewritten, Zenon
  <2> QED
    BY <1>1, <1>2, <2>1 DEF Behind, OnLine
<1>5. Behind(n + 1, r, m, w, a)'
  BY <1>1, <1>2, <1>3, <1>4 DEF Behind, OnLine, Counts, ShellAt
<1>6. n + 1 \in Nat
  OBVIOUS
<1> QED
  BY <1>5, <1>6 DEF RunsBehind

LEMMA BehindReads ==
  ASSUME NEW n \in Nat, NEW r \in Nat, NEW m \in Nat, NEW w \in Nat, NEW a \in Nat,
         Behind(n, r, m, w, a), UNCHANGED line, step = "readback", Readback
  PROVE  RunsBehind'
<1>1. r \in 0..27 /\ w \in r..27 /\ t2h = Window(Transcript, r, w)
  BY DEF Behind, Counts, OnLine
<1>2. r # w
  <2>1. t2h # <<>>
    BY DEF Readback
  <2> QED
    BY <1>1, <2>1, Printed, Zenon
<1>3. 1 \in 0..w - r /\ 1 + 1 = 2
  BY <1>1, <1>2
<1>4. t2h' = Window(Transcript, r + 1, w) /\ h2t' = h2t
  BY <1>1, <1>3, ReadOn DEF Readback, Consume
<1>5. HostAt(n, r + 1)'
  <2>1. \/ stage = "trigger" /\ sent = 0 /\ n = 1 /\ r \in 0..7
        \/ stage = "retrigger" /\ sent = 0 /\ n = 2 /\ r = 8
        \/ stage = "version" /\ sent \in 0..2 /\ n = 3 + sent /\ r = 12 + sent
    BY DEF Behind, HostAt
  <2>2. CASE stage \in {"trigger", "retrigger"}
    <3>1. Text = <<"@">>
      BY <2>2 DEF Text, Handshake
    <3>2. sent' = 0 /\ step' = "prompt" /\ stage' = (IF stage = "trigger" THEN "alive" ELSE "version")
      BY <2>1, <2>2, <3>1 DEF Readback
    <3> QED
      BY <2>1, <2>2, <3>2 DEF HostAt
  <2>3. CASE stage = "version"
    <3>1. Len(Text) = 3
      BY <2>3 DEF Text, Handshake
    <3>2. CASE sent \in 0..1
      <4>1. step' = "write" /\ sent' = sent + 1 /\ stage' = stage
        BY <3>1, <3>2 DEF Readback
      <4> QED
        BY <2>1, <2>3, <3>2, <4>1 DEF HostAt
    <3>3. CASE sent = 2
      <4>1. step' = "reply" /\ sent' = 0 /\ stage' = stage
        BY <2>3, <3>1, <3>3 DEF Readback
      <4> QED
        BY <2>1, <2>3, <3>3, <4>1 DEF HostAt
    <3> QED
      BY <2>1, <2>3, <3>2, <3>3
  <2> QED
    BY <2>1, <2>2, <2>3
<1>6. Behind(n, r + 1, m, w, a)'
  <2>1. Counts(n, r + 1, m, w, a)'
    BY <1>1, <1>2 DEF Behind, Counts, ShellAt
  <2> QED
    BY <1>4, <1>5, <2>1 DEF Behind, OnLine
<1>7. r + 1 \in Nat
  OBVIOUS
<1> QED
  BY <1>6, <1>7 DEF RunsBehind

\* Where the prompts of the conversation are.
LEMMA PromptSpots ==
  /\ \A i \in 1..27 : Transcript[i] = ">" => i \in {7, 11, 15, 26}
  /\ \A q \in {5, 9, 13, 24} :
       Transcript[q + 1] = "nl" /\ Transcript[q + 2] = ">" /\ Transcript[q + 3] = Prompt[3]
<1>1. "V" # ">" /\ "nl" # ">" /\ "@" # ">" /\ "*" # ">" /\ "v" # ">" /\ "i" # ">" /\ Prompt[3] # ">"
  BY PromptIs
<1>2. ASSUME NEW i \in 1..27, i \notin {7, 11, 15, 26} PROVE Transcript[i] # ">"
  <2>1. CASE i \in 1..9
    <3>1. i \in {1, 2, 3, 4, 5, 6, 8, 9}
      BY <1>2, <2>1
    <3> QED
      BY <1>1, <3>1, TranscriptIs, Zenon
  <2>2. CASE i \in 10..18
    <3>1. i \in {10, 12, 13, 14, 16, 17, 18}
      BY <1>2, <2>2
    <3> QED
      BY <1>1, <3>1, TranscriptIs, Zenon
  <2>3. CASE i \in 19..27
    <3>1. i \in {19, 20, 21, 22, 23, 24, 25, 27}
      BY <1>2, <2>3
    <3> QED
      BY <1>1, <3>1, TranscriptIs, Zenon
  <2> QED
    BY <2>1, <2>2, <2>3
<1>3. ASSUME NEW q \in {5, 9, 13, 24}
      PROVE  Transcript[q + 1] = "nl" /\ Transcript[q + 2] = ">" /\ Transcript[q + 3] = Prompt[3]
  <2>1. \/ q + 1 = 6 /\ q + 2 = 7 /\ q + 3 = 8
        \/ q + 1 = 10 /\ q + 2 = 11 /\ q + 3 = 12
        \/ q + 1 = 14 /\ q + 2 = 15 /\ q + 3 = 16
        \/ q + 1 = 25 /\ q + 2 = 26 /\ q + 3 = 27
    OBVIOUS
  <2> QED
    BY <2>1, TranscriptIs, Zenon
<1> QED
  BY <1>2, <1>3, Zenon

\* Three characters in a row are a prompt.
LEMMA PromptSpelt ==
  ASSUME NEW s \in Seq(Char), NEW k \in 1..Len(s), k + 2 <= Len(s)
  PROVE  SubSeq(s, k, k + 2) = Prompt
         <=> s[k] = Prompt[1] /\ s[k + 1] = Prompt[2] /\ s[k + 2] = Prompt[3]
<1> DEFINE x == SubSeq(s, k, k + 2)
<1>1. x \in Seq(Char) /\ Len(x) = 3 /\ x[1] = s[k] /\ x[2] = s[k + 1] /\ x[3] = s[k + 2]
  OBVIOUS
<1> HIDE DEF x
<1>2. Prompt \in Seq(Char) /\ Len(Prompt) = 3
  BY PromptShape
<1>3. ASSUME x[1] = Prompt[1], x[2] = Prompt[2], x[3] = Prompt[3] PROVE x = Prompt
  <2>1. Len(x) = Len(Prompt) /\ \A i \in 1..Len(x) : x[i] = Prompt[i]
    BY <1>1, <1>2, <1>3
  <2> QED
    BY <1>1, <1>2, <2>1, SeqEqual
<1>4. x = Prompt <=> s[k] = Prompt[1] /\ s[k + 1] = Prompt[2] /\ s[k + 2] = Prompt[3]
  BY <1>1, <1>3, Zenon
<1> QED
  BY <1>4 DEF x

\* The driver finds the next prompt that there is.
LEMMA NextPrompt ==
  ASSUME NEW r \in 0..27, NEW w \in r..27, t2h = Window(Transcript, r, w), WaitPrompt
  PROVE  \E p \in {5, 9, 13, 24} :
            /\ r <= p /\ p + 3 <= w /\ t2h' = Window(Transcript, p + 3, w)
            /\ \A q \in {5, 9, 13, 24} : r <= q => p <= q
<1>1. PICK k \in DOMAIN t2h :
        PromptAt(k) /\ (\A j \in 1..k - 1 : ~PromptAt(j)) /\ Consume(k + 2)
  BY Zenon DEF WaitPrompt
<1>2. /\ t2h \in Seq(Char) /\ Len(t2h) = w - r
      /\ \A i \in 1..w - r : t2h[i] = Transcript[r + i]
  BY Printed, Zenon
<1>3. k \in 1..w - r /\ k + 2 <= w - r /\ k + 1 \in 1..w - r /\ k + 2 \in 0..w - r
  <2>1. k + 2 <= Len(t2h)
    BY <1>1, Zenon DEF PromptAt
  <2>2. k \in 1..Len(t2h)
    BY <1>2
  <2>3. k \in 1..w - r /\ k + 2 <= w - r /\ w - r \in Nat /\ k \in Nat
    BY <1>2, <2>1, <2>2
  <2> QED
    BY <2>3
<1>4. t2h[k] = Prompt[1] /\ t2h[k + 1] = Prompt[2]
  <2>1. k \in 1..Len(t2h) /\ k + 2 <= Len(t2h)
    BY <1>2, <1>3
  <2> QED
    BY <1>1, <1>2, <2>1, PromptSpelt, Zenon DEF PromptAt
<1>5. Transcript[r + (k + 1)] = ">"
  BY <1>2, <1>3, <1>4, PromptIs, Zenon
<1>6. r + (k + 1) \in {7, 11, 15, 26}
  <2>1. r + (k + 1) \in 1..27
    BY <1>3
  <2> QED
    BY <1>5, <2>1, PromptSpots, Zenon
<1> DEFINE p == r + k - 1
<1>7. p \in {5, 9, 13, 24} /\ r <= p /\ p + 3 <= w /\ p + 3 = r + (k + 2)
  BY <1>3, <1>6
<1>8. t2h' = Window(Transcript, r + (k + 2), w)
  <2>1. SubSeq(t2h, (k + 2) + 1, Len(t2h)) = Window(Transcript, r + (k + 2), w)
    BY <1>3, ReadOn, Zenon
  <2> QED
    BY <1>1, <2>1, Zenon DEF Consume
<1>9. ASSUME NEW q \in {5, 9, 13, 24}, r <= q PROVE p <= q
  <2>1. SUFFICES ASSUME q < p PROVE FALSE
    BY <1>3
  <2> DEFINE j == q + 1 - r
  <2>2. /\ j \in 1..k - 1 /\ j \in 1..w - r /\ j + 1 \in 1..w - r /\ j + 2 \in 1..w - r
        /\ j + 2 <= w - r /\ r + j = q + 1 /\ r + (j + 1) = q + 2 /\ r + (j + 2) = q + 3
    BY <1>3, <1>9, <2>1
  <2> HIDE DEF j
  <2>3. t2h[j] = Prompt[1] /\ t2h[j + 1] = Prompt[2] /\ t2h[j + 2] = Prompt[3]
    <3>1. /\ t2h[j] = Transcript[q + 1] /\ t2h[j + 1] = Transcript[q + 2]
          /\ t2h[j + 2] = Transcript[q + 3]
      BY <1>2, <2>2
    <3>2. /\ Transcript[q + 1] = "nl" /\ Transcript[q + 2] = ">"
          /\ Transcript[q + 3] = Prompt[3]
      BY PromptSpots, Zenon
    <3> QED
      BY <3>1, <3>2, PromptIs, Zenon
  <2>4. j \in 1..Len(t2h) /\ j + 2 <= Len(t2h)
    BY <1>2, <2>2
  <2>5. SubSeq(t2h, j, j + 2) = Prompt
    BY <1>2, <2>3, <2>4, PromptSpelt, Zenon
  <2>6. PromptAt(j)
    BY <2>4, <2>5, Zenon DEF PromptAt
  <2> QED
    BY <1>1, <2>2, <2>6, Zenon
<1> QED
  BY <1>7, <1>8, <1>9

LEMMA BehindWaits ==
  ASSUME NEW n \in Nat, NEW r \in Nat, NEW m \in Nat, NEW w \in Nat, NEW a \in Nat,
         Behind(n, r, m, w, a), NothingMadeYet, up = TRUE, UNCHANGED <<up, line, done>>,
         step = "prompt", WaitPrompt
  PROVE  NothingMadeYet' /\ (RunsBehind' \/ (stage' # "off" /\ Lockstep'))
<1>1. /\ step' = "write" /\ stage' = (IF stage = "alive" THEN "retrigger" ELSE stage)
      /\ UNCHANGED <<sent, issued, log, h2t>>
  BY Zenon DEF WaitPrompt
<1>2. NothingMadeYet'
  BY <1>1 DEF NothingMadeYet
<1>3. r \in 0..27 /\ w \in r..27 /\ t2h = Window(Transcript, r, w)
  BY DEF Behind, Counts, OnLine
<1>4. PICK p \in {5, 9, 13, 24} :
        /\ r <= p /\ p + 3 <= w /\ t2h' = Window(Transcript, p + 3, w)
        /\ \A q \in {5, 9, 13, 24} : r <= q => p <= q
  BY <1>3, NextPrompt
<1>5. \/ stage = "alive" /\ sent = 0 /\ n = 1 /\ r \in 1..8
      \/ stage = "version" /\ sent = 0 /\ n = 2 /\ r = 9
      \/ stage = "mainboard" /\ sent = 0 /\ n = 5 /\ r = 20
  BY DEF Behind, HostAt
<1>6. ASSUME w = p + 3, m = n, a = m, stage' \in {"retrigger", "mainboard"}
      PROVE  stage' # "off" /\ Lockstep'
  <2>1. m \in 0..5 /\ m \in m..5 /\ w \in 0..27 /\ w \in w..27
    BY <1>3, <1>6 DEF Behind, Counts
  <2>2. Window(Typing, m, m) = <<>> /\ Window(Transcript, w, w) = <<>>
    BY <2>1, Typewritten, Printed, Zenon
  <2>3. h2t = <<>> /\ line = <<>> /\ t2h' = <<>>
    BY <1>4, <1>6, <2>2 DEF Behind, OnLine
  <2> QED
    BY <1>1, <1>5, <1>6, <2>3, CaughtUp DEF NothingMadeYet
<1>7. ASSUME HostAt(n, p + 3)' PROVE RunsBehind'
  <2>1. p + 3 \in Nat /\ Counts(n, p + 3, m, w, a)
    BY <1>4 DEF Behind, Counts
  <2>2. OnLine(n, p + 3, m, w, a)'
    BY <1>1, <1>4 DEF Behind, OnLine
  <2>3. Behind(n, p + 3, m, w, a)'
    BY <1>7, <2>1, <2>2 DEF Behind, Counts, ShellAt
  <2> QED
    BY <2>1, <2>3 DEF RunsBehind
<1>8. CASE stage = "alive"
  <2>1. m \in 0..1 /\ ShellAt(m, w, a)
    BY <1>5, <1>8 DEF Behind, Counts
  <2>2. p = 5 \/ (p = 9 /\ w = 12 /\ m = 1 /\ a = 1)
    BY <1>4, <2>1 DEF ShellAt
  <2>3. CASE p = 5
    <3>1. HostAt(n, p + 3)'
      BY <1>1, <1>5, <1>8, <2>3 DEF HostAt
    <3> QED
      BY <1>2, <1>7, <3>1
  <2>4. CASE p = 9 /\ w = 12 /\ m = 1 /\ a = 1
    BY <1>1, <1>2, <1>5, <1>6, <1>8, <2>4
  <2> QED
    BY <2>2, <2>3, <2>4
<1>9. CASE stage = "version"
  <2>1. p = 9
    BY <1>4, <1>5, <1>9
  <2>2. HostAt(n, p + 3)'
    BY <1>1, <1>5, <1>9, <2>1 DEF HostAt
  <2> QED
    BY <1>2, <1>7, <2>2
<1>10. CASE stage = "mainboard"
  <2>1. p = 24 /\ w = 27 /\ n = 5
    BY <1>3, <1>4, <1>5, <1>10
  <2>2. m = 5 /\ a = 5
    BY <2>1 DEF Behind, Counts, ShellAt
  <2> QED
    BY <1>1, <1>2, <1>6, <1>10, <2>1, <2>2
<1> QED
  BY <1>5, <1>8, <1>9, <1>10

LEMMA BehindGetsVersion ==
  ASSUME NEW n \in Nat, NEW r \in Nat, NEW m \in Nat, NEW w \in Nat, NEW a \in Nat,
         Behind(n, r, m, w, a), UNCHANGED line, step = "reply", GetVersion
  PROVE  RunsBehind'
<1>1. /\ n = 5 /\ r = 15 /\ sent = 0 /\ stage' = "mainboard" /\ step' = "prompt"
      /\ UNCHANGED <<sent, h2t>>
  BY DEF Behind, HostAt, GetVersion
<1>2. r \in 0..27 /\ w \in r..27 /\ t2h = Window(Transcript, r, w)
  BY DEF Behind, Counts, OnLine
<1>3. PICK k \in DOMAIN t2h :
        NewlineAt(k) /\ (\A j \in 1..k - 1 : ~NewlineAt(j)) /\ Consume(k)
  BY Zenon DEF GetVersion
<1>4. /\ t2h \in Seq(Char) /\ Len(t2h) = w - r
      /\ \A i \in 1..w - r : t2h[i] = Transcript[r + i]
  BY <1>2, Printed, Zenon
<1>5. k \in 2..w - r /\ Transcript[r + k] = "nl"
  BY <1>3, <1>4 DEF NewlineAt
<1>6. k = 5
  <2>1. k \notin {2, 3, 4}
    <3>1. SUFFICES ASSUME k \in {2, 3, 4} PROVE FALSE
      OBVIOUS
    <3>2. r + k = 17 \/ r + k = 18 \/ r + k = 19
      BY <1>1, <3>1
    <3> QED
      BY <1>5, <3>2, TranscriptIs
  <2>2. ~(k > 5)
    <3>1. SUFFICES ASSUME k > 5 PROVE FALSE
      OBVIOUS
    <3>2. 5 \in 1..k - 1 /\ 5 \in 1..w - r /\ r + 5 = 20
      BY <1>1, <1>5, <3>1
    <3>3. t2h[5] = "nl"
      BY <1>4, <3>2, TranscriptIs, Zenon
    <3> QED
      BY <1>3, <3>2, <3>3 DEF NewlineAt
  <2> QED
    BY <1>5, <2>1, <2>2
<1>7. 20 \in 0..w /\ 5 \in 0..w - r /\ r + 5 = 20
  BY <1>1, <1>2, <1>5, <1>6
<1>8. t2h' = Window(Transcript, 20, w)
  <2>1. SubSeq(t2h, 5 + 1, Len(t2h)) = Window(Transcript, r + 5, w)
    BY <1>2, <1>7, ReadOn, Zenon
  <2> QED
    BY <1>3, <1>6, <1>7, <2>1 DEF Consume
<1>9. HostAt(n, 20)' /\ Counts(n, 20, m, w, a)
  BY <1>1, <1>7 DEF HostAt, Behind, Counts
<1>10. OnLine(n, 20, m, w, a)'
  BY <1>1, <1>8 DEF Behind, OnLine
<1>11. Behind(n, 20, m, w, a)'
  BY <1>9, <1>10 DEF Behind, Counts, ShellAt
<1> QED
  BY <1>11 DEF RunsBehind

LEMMA HostBehind ==
  ASSUME RunsBehind, NothingMadeYet, up = TRUE, Host
  PROVE  NothingMadeYet' /\ up' = TRUE /\ (RunsBehind' \/ (stage' # "off" /\ Lockstep'))
<1>1. PICK n, r, m, w, a \in Nat : Behind(n, r, m, w, a)
  BY DEF RunsBehind
<1>2. /\ stage = "off" => step = "idle"
      /\ step = "idle" => stage = "off"
      /\ step = "reply" => stage = "version"
      /\ step \in {"idle", "prompt", "write", "readback", "reply"}
  BY <1>1 DEF Behind, HostAt
<1>3. /\ UNCHANGED <<up, line, done>>
      /\ stage = "off" => Open
      /\ step = "write" => Write
      /\ step = "readback" => Readback
      /\ step = "reply" => GetVersion
      /\ step = "prompt" => WaitPrompt
  BY <1>2, DriverActions
<1>4. CASE step = "idle"
  BY <1>1, <1>2, <1>3, <1>4, BehindOpens
<1>5. CASE step = "prompt"
  BY <1>1, <1>3, <1>5, BehindWaits
<1>6. CASE step = "write"
  <2>1. UNCHANGED <<issued, log>>
    BY <1>3, <1>6 DEF Write
  <2> QED
    BY <1>1, <1>3, <1>6, <2>1, BehindWrites DEF NothingMadeYet
<1>7. CASE step = "readback"
  <2>1. UNCHANGED <<issued, log>>
    BY <1>3, <1>7 DEF Readback
  <2> QED
    BY <1>1, <1>3, <1>7, <2>1, BehindReads DEF NothingMadeYet
<1>8. CASE step = "reply"
  <2>1. UNCHANGED <<issued, log>>
    BY <1>3, <1>8 DEF GetVersion
  <2> QED
    BY <1>1, <1>3, <1>8, <2>1, BehindGetsVersion DEF NothingMadeYet
<1> QED
  BY <1>2, <1>4, <1>5, <1>6, <1>7, <1>8
-----------------------------------------------------------------------------
(***************************************************************************)
(* The target comes up.                                                    *)
(***************************************************************************)

\* A target that is off neither reads nor prints; the driver waits for an echo.
LEMMA DarkHost ==
  ASSUME Dark, NothingMadeYet, Host
  PROVE  NothingMadeYet' /\ Dark'
<1>1. /\ stage = "off" => step = "idle"
      /\ up = FALSE /\ boots = 0 /\ line = <<>> /\ t2h = <<>> /\ sent = 0
  BY DEF Dark
<1>2. /\ UNCHANGED <<up, line, done, boots>>
      /\ stage = "off" => Open
      /\ step = "write" => Write
      /\ step = "readback" => Readback
  BY <1>1, DriverActions DEF Host
<1>3. CASE stage = "off" /\ h2t = <<>>
  <2>1. /\ stage' = "trigger" /\ step' = "write" /\ sent' = 0
        /\ h2t' = <<>> /\ t2h' = <<>> /\ UNCHANGED <<issued, log>>
    BY <1>1, <1>2, <1>3, NothingToLose DEF Open
  <2> QED
    BY <1>1, <1>2, <2>1 DEF Dark, NothingMadeYet
<1>4. CASE stage = "trigger" /\ step = "write" /\ h2t = <<>>
  <2>1. /\ h2t' = Append(h2t, Text[sent + 1]) /\ step' = "readback"
        /\ UNCHANGED <<stage, sent, issued, log, t2h>>
    BY <1>2, <1>4 DEF Write
  <2>2. Text = <<"@">>
    BY <1>4 DEF Text, Handshake
  <2>3. h2t' = <<"@">>
    BY <1>1, <1>4, <2>1, <2>2
  <2> QED
    BY <1>1, <1>2, <1>4, <2>1, <2>3 DEF Dark, NothingMadeYet
<1>5. step # "readback"
  BY <1>1, <1>2 DEF Readback
<1> QED
  BY <1>3, <1>4, <1>5 DEF Dark

\* Switched on before the driver wrote its trigger, the shell will read it;
\* after that, the trigger is lost.
LEMMA DarkResets ==
  ASSUME Dark, NothingMadeYet, Reset
  PROVE  NothingMadeYet' /\ up' = TRUE /\ boots' = 1 /\ (RunsBehind' \/ TriggerLost')
<1>1. /\ up' = TRUE /\ boots' = 1 /\ line' = <<>> /\ h2t' = <<>>
      /\ \E p \in Prefixes(t2h) : t2h' = p \o Banner \o Prompt
      /\ UNCHANGED <<done, stage, step, sent, issued, log>>
  BY DEF Reset, Boot, Dark, hostVars
<1>2. t2h' = Window(Transcript, 0, 8)
  <2>1. t2h' = <<>> \o Banner \o Prompt
    BY <1>1, NothingToLose DEF Dark
  <2>2. <<>> \o Banner = Banner
    BY PrintedChars, ConcatEmptySeq
  <2> QED
    BY <2>1, <2>2, Pieces
<1>3. CASE step # "readback"
  <2>1. Window(Typing, 0, 0) = <<>>
    <3>1. 0 \in 0..5
      OBVIOUS
    <3> QED
      BY <3>1, Typewritten
  <2>2. HostAt(0, 0)'
    BY <1>1, <1>3 DEF HostAt, Dark
  <2>3. Counts(0, 0, 0, 8, 0)
    BY DEF Counts, ShellAt
  <2>4. OnLine(0, 0, 0, 8, 0)'
    BY <1>1, <1>2, <2>1 DEF OnLine
  <2>5. Behind(0, 0, 0, 8, 0)'
    BY <2>2, <2>3, <2>4 DEF Behind, Counts, ShellAt
  <2>6. RunsBehind'
    BY <2>5 DEF RunsBehind
  <2> QED
    BY <1>1, <2>6 DEF NothingMadeYet
<1>4. CASE step = "readback"
  <2>1. TriggerLost'
    BY <1>1, <1>2, <1>4 DEF TriggerLost, Dark
  <2> QED
    BY <1>1, <2>1 DEF NothingMadeYet
<1> QED
  BY <1>3, <1>4

\* Having lost its trigger the driver takes banner and prompt for the answer.
LEMMA LostHost ==
  ASSUME TriggerLost, NothingMadeYet, up = TRUE, Host
  PROVE  NothingMadeYet' /\ up' = TRUE /\ (TriggerLost' \/ (stage' # "off" /\ Lockstep'))
<1>1. stage # "off" /\ line = <<>> /\ h2t = <<>> /\ sent = 0
  BY DEF TriggerLost
<1>2. /\ UNCHANGED <<up, line, done>>
      /\ step = "readback" => Readback
      /\ step = "prompt" => WaitPrompt
  BY <1>1, DriverActions
<1>3. CASE stage = "trigger" /\ step = "readback" /\ t2h = Window(Transcript, 0, 8)
  <2>1. Text = <<"@">>
    BY <1>3 DEF Text, Handshake
  <2>2. /\ t2h' = SubSeq(t2h, 1 + 1, Len(t2h)) /\ sent' = 0 /\ step' = "prompt" /\ stage' = "alive"
        /\ UNCHANGED <<issued, log, h2t>>
    BY <1>1, <1>2, <1>3, <2>1 DEF Readback, Consume
  <2>3. t2h' = Window(Transcript, 1, 8)
    <3>1. 0 \in 0..27 /\ 8 \in 0..27 /\ 1 \in 0..8 - 0 /\ 0 + 1 = 1
      OBVIOUS
    <3>2. SubSeq(t2h, 1 + 1, Len(t2h)) = Window(Transcript, 0 + 1, 8)
      BY <1>3, <3>1, ReadOn, Zenon
    <3> QED
      BY <2>2, <3>1, <3>2
  <2> QED
    BY <1>1, <1>2, <2>2, <2>3 DEF TriggerLost, NothingMadeYet
<1>4. CASE stage = "alive" /\ step = "prompt" /\ t2h = Window(Transcript, 1, 8)
  <2>1. 1 \in 0..27 /\ 8 \in 1..27 /\ 8 \in 0..27 /\ 8 \in 8..27
    OBVIOUS
  <2>2. PICK p \in {5, 9, 13, 24} : p + 3 <= 8 /\ t2h' = Window(Transcript, p + 3, 8)
    BY <1>2, <1>4, <2>1, NextPrompt
  <2>3. t2h' = Window(Transcript, 8, 8)
    <3>1. p + 3 = 8
      BY <2>2
    <3> QED
      BY <2>2, <3>1
  <2>4. t2h' = <<>>
    BY <2>1, <2>3, Printed, Zenon
  <2>5. /\ stage' = "retrigger" /\ step' = "write"
        /\ UNCHANGED <<sent, issued, log, h2t>>
    BY <1>2, <1>4, Zenon DEF WaitPrompt
  <2> QED
    BY <1>1, <1>2, <2>4, <2>5, CaughtUp DEF NothingMadeYet
<1> QED
  BY <1>3, <1>4 DEF TriggerLost
-----------------------------------------------------------------------------
(***************************************************************************)
(* The theorems.                                                           *)
(***************************************************************************)

\* The target is not reset once it runs.
OnceOn == MaxBoots <= 1

LEMMA StaysOpen ==
  ASSUME HostNext, stage # "off"
  PROVE  stage' # "off"
BY DEF HostNext, Drive, Open, Write, Readback, WaitPrompt, GetVersion, GetMainboard, Return, Issue

LEMMA ColdBegins ==
  ASSUME ColdInit
  PROVE  ColdInv
<1>1. TypeOK
  BY TypeInit DEF AnyInit
<1>2. NothingMadeYet /\ Dark
  BY DEF ColdInit, Quiet, PoweredOff, HostInit, NothingMadeYet, Dark
<1> QED
  BY <1>1, <1>2 DEF ColdInv

\* Every step keeps the invariant; a step that warns is one of the handshake.
LEMMA ColdStep ==
  ASSUME OnceOn, ColdInv, [Session \/ Reset]_vars
  PROVE  /\ ColdInv' /\ (stage = "active" => warned' = warned)
         /\ NothingMadeYet' \/ (stage # "off" /\ Lockstep)
<1>0. TypeOK' /\ boots \in Nat
  BY TypeStep, LinkAssumption DEF ColdInv, TypeOK, Next
<1>2. Reset => boots = 0
  BY <1>0, LinkAssumption DEF OnceOn, Reset
<1>3. CASE NothingMadeYet /\ Dark
  <2>1. stage # "active"
    BY <1>3 DEF Dark
  <2>2. ~Shell
    BY <1>3 DEF Dark, Shell, ShellNext, Recv, At, BusRead, BusWrite, CpuRead, WriteMsr,
                Mainboard, Version, Unknown, NotACommand
  <2>3. CASE Host
    BY <1>0, <1>3, <2>1, <2>3, DarkHost DEF ColdInv
  <2>4. CASE Reset
    BY <1>0, <1>3, <2>1, <2>4, DarkResets DEF ColdInv
  <2>5. CASE UNCHANGED vars
    BY <1>0, <1>3, <2>1, <2>5 DEF ColdInv, Dark, NothingMadeYet, vars, shellVars, hostVars
  <2> QED
    BY <2>2, <2>3, <2>4, <2>5 DEF Session
<1>4. CASE NothingMadeYet /\ up = TRUE /\ boots = 1 /\ RunsBehind
  <2>1. PICK n, r, m, w, a \in Nat : Behind(n, r, m, w, a)
    BY <1>4 DEF RunsBehind
  <2>2. stage # "active"
    BY <2>1 DEF Behind, HostAt
  <2>3. CASE Shell
    <3>1. RunsBehind' /\ done' = done /\ up' = up
      BY <2>1, <2>3, ShellBehind
    <3> QED
      BY <1>0, <1>4, <2>2, <2>3, <3>1 DEF ColdInv, NothingMadeYet, Shell, hostVars
  <2>4. CASE Host
    <3>1. boots' = boots
      BY <2>4 DEF Host
    <3> QED
      BY <1>0, <1>4, <2>2, <2>4, <3>1, HostBehind DEF ColdInv
  <2>5. CASE UNCHANGED vars
    <3>1. Behind(n, r, m, w, a)'
      BY <2>1, <2>5 DEF Behind, Counts, ShellAt, HostAt, OnLine, vars, shellVars, hostVars
    <3>2. RunsBehind'
      BY <3>1 DEF RunsBehind
    <3> QED
      BY <1>0, <1>4, <2>2, <2>5, <3>2 DEF ColdInv, NothingMadeYet, vars, shellVars, hostVars
  <2> QED
    BY <1>2, <1>4, <2>3, <2>4, <2>5 DEF Session
<1>5. CASE NothingMadeYet /\ up = TRUE /\ boots = 1 /\ TriggerLost
  <2>1. stage # "active" /\ h2t = <<>> /\ line = <<>>
    BY <1>5 DEF TriggerLost
  <2>2. ~Shell
    BY <2>1, ShellIdles, TriggerActs DEF Shell
  <2>3. CASE Host
    <3>1. boots' = boots
      BY <2>3 DEF Host
    <3> QED
      BY <1>0, <1>5, <2>1, <2>3, <3>1, LostHost DEF ColdInv
  <2>4. CASE UNCHANGED vars
    BY <1>0, <1>5, <2>1, <2>4 DEF ColdInv, TriggerLost, NothingMadeYet, vars, shellVars, hostVars
  <2> QED
    BY <1>2, <1>5, <2>2, <2>3, <2>4 DEF Session
<1>6. CASE boots = 1 /\ stage # "off" /\ Lockstep
  <2>1. Inv
    BY <1>6 DEF Inv, ColdInv
  <2>2. CASE Shell
    <3>1. stage' = stage /\ boots' = boots
      BY <2>2 DEF Shell, hostVars
    <3> QED
      BY <1>0, <1>6, <2>1, <2>2, <3>1, ShellStep DEF ColdInv
  <2>3. CASE Host
    <3>1. stage' # "off" /\ boots' = boots
      BY <1>6, <2>3, StaysOpen DEF Host
    <3> QED
      BY <1>0, <1>6, <2>1, <2>3, <3>1, HostStep DEF ColdInv
  <2>4. CASE UNCHANGED vars
    <3>1. UNCHANGED <<stage, boots, warned>>
      BY <2>4 DEF vars, hostVars
    <3> QED
      BY <1>0, <1>6, <2>4, <3>1, LockstepStays DEF ColdInv
  <2> QED
    BY <1>2, <1>6, <2>2, <2>3, <2>4 DEF Session
<1> QED
  BY <1>3, <1>4, <1>5, <1>6 DEF ColdInv

\* However the start went, once QEMU lets the guest in no echo is wrong: the
\* prompts that serialice_init waits for bring the driver back in step.
THEOREM ColdSettles == OnceOn => (ColdSpec => SettledOnceActive)
<1> SUFFICES ASSUME OnceOn PROVE ColdSpec => SettledOnceActive
  OBVIOUS
<1>1. ColdInit => ColdInv
  BY ColdBegins
<1>2. ColdInv /\ [Session \/ Reset]_vars => ColdInv'
  BY ColdStep
<1>3. ColdInv /\ [Session \/ Reset]_vars => [stage = "active" => UNCHANGED warned]_vars
  BY ColdStep
<1> QED
  BY <1>1, <1>2, <1>3, PTL DEF ColdSpec, SettledOnceActive

\* No access is made before the driver has caught up, and then each one is
\* performed once, as it was asked for, in order, and returns what the target
\* answered it with; of romcc shells if the guest writes MSRs with their key.
THEOREM ColdTransparent == OnceOn /\ KeysHonoured => (ColdSpec => Transparent)
<1> SUFFICES ASSUME OnceOn, KeysHonoured PROVE ColdSpec => Transparent
  OBVIOUS
<1>1. ColdInit => ColdInv /\ Remote!Init /\ GuestsOnly
  <2>1. ColdInit => issued = <<>> /\ done = <<>> /\ log = <<>>
    BY DEF ColdInit, Quiet, HostInit
  <2> QED
    BY <2>1, ColdBegins DEF Remote!Init, GuestsOnly
<1>4. ColdInv /\ GuestsOnly /\ [Session \/ Reset]_vars => GuestsOnly'
  BY GuestsStay DEF ColdInv, Next
<1>2. ColdInv /\ [Session \/ Reset]_vars => ColdInv'
  BY ColdStep
<1>3. ColdInv /\ ColdInv' /\ GuestsOnly /\ [Session \/ Reset]_vars => [Remote!Next]_Remote!vars
  <2>1. SUFFICES ASSUME ColdInv, ColdInv', GuestsOnly, [Session \/ Reset]_vars PROVE [Remote!Next]_Remote!vars
    OBVIOUS
  <2>2. CASE NothingMadeYet /\ NothingMadeYet'
    BY <2>2 DEF NothingMadeYet, Remote!vars
  <2>3. CASE stage # "off" /\ Lockstep
    <3>1. Inv
      BY <2>1, <2>3 DEF ColdInv, Inv
    <3>2. CASE Shell
      <4>1. Inv'
        BY <2>1, <3>1, <3>2, ShellStep DEF ColdInv, Inv
      <4> QED
        BY <2>1, <3>1, <3>2, <4>1, ShellRefines
    <3>3. CASE Host
      BY <3>1, <3>3, HostRefines
    <3>4. CASE Reset \/ UNCHANGED vars
      BY <3>4 DEF Reset, Boot, vars, shellVars, hostVars, Remote!vars
    <3> QED
      BY <2>1, <3>2, <3>3, <3>4 DEF Session
  <2> QED
    BY <2>1, <2>2, <2>3, ColdStep DEF ColdInv
<1> QED
  BY <1>1, <1>2, <1>3, <1>4, PTL DEF ColdSpec, Transparent, Remote!Spec

\* The shell never has to catch up with more than the version command, which
\* the driver writes against older output: its UART cannot overflow.
THEOREM ColdUnread == OnceOn => (ColdSpec => []FewUnread)
<1> SUFFICES ASSUME OnceOn PROVE ColdSpec => []FewUnread
  OBVIOUS
<1>1. ColdInit => ColdInv
  BY ColdBegins
<1>2. ColdInv /\ [Session \/ Reset]_vars => ColdInv'
  BY ColdStep
<1>3. ColdInv => FewUnread
  <2>1. SUFFICES ASSUME ColdInv PROVE Len(h2t) <= 3
    BY DEF FewUnread
  <2>2. CASE Dark \/ TriggerLost
    <3>1. h2t = <<>> \/ h2t = <<"@">>
      BY <2>2 DEF Dark, TriggerLost
    <3>2. Len(<<>>) = 0 /\ Len(<<"@">>) = 1
      OBVIOUS
    <3> QED
      BY <3>1, <3>2
  <2>3. CASE RunsBehind
    <3>1. PICK n, r, m, w, a \in Nat : Behind(n, r, m, w, a)
      BY <2>3 DEF RunsBehind
    <3>2. m \in 0..5 /\ n \in m..5 /\ r <= w /\ ShellAt(m, w, a) /\ HostAt(n, r)
      BY <3>1 DEF Behind, Counts
    <3>3. Len(h2t) = n - m
      BY <3>1, <3>2, Typewritten, Zenon DEF Behind, OnLine
    <3>4. n <= 3 \/ r >= 13
      BY <3>2 DEF HostAt
    <3>5. n - m <= 3
      BY <3>2, <3>4 DEF ShellAt
    <3> QED
      BY <3>3, <3>5
  <2>4. CASE Lockstep
    <3>1. Len(h2t) <= 1 /\ h2t \in Seq(Char)
      BY <2>1, <2>4, AtMostOneUnread DEF ColdInv, TypeOK, LineTypeOK
    <3> QED
      BY <3>1
  <2> QED
    BY <2>1, <2>2, <2>3, <2>4 DEF ColdInv
<1> QED
  BY <1>1, <1>2, <1>3, PTL DEF ColdSpec
-----------------------------------------------------------------------------
(***************************************************************************)
(* QEMU is killed once and started again.  What its end leaves on the line *)
(* is the beginning of a text.  Either that is whole, and the shell reads  *)
(* whole texts for ever after; or the shell has it completed by the first  *)
(* trigger, and until then the driver waits for a prompt in vain.          *)
(***************************************************************************)

Plain == {<<"@">>, <<"*", "v", "i">>, <<"*", "m", "b">>}

\* What the driver may have been writing.
Spoken(T) == T \in Plain \/ \E j \in DOMAIN issued : T = Command(issued[j])

NoPromptIn(s) == \A k \in 1..Len(s) : s[k] # ">"

\* An access that was performed is this one, but perhaps for its last field.
Like(a, r) ==
  /\ a.op = r.op /\ a.width = r.width
  /\ \A k \in DOMAIN a.args : k < Len(a.args) => a.args[k] = r.args[k]

Asked == \A i \in DOMAIN done : \E j \in DOMAIN issued : Like(done[i].acc, Effect(issued[j]))

\* Text T is that of the i-th access, which was not performed yet, or belongs to
\* none.
Due(T, i) ==
  /\ i \in 0..Len(issued)
  /\ T \in Plain \/ (i > 0 /\ T = Command(issued[i]))
  /\ Len(done) + (IF T \in Plain THEN 0 ELSE 1) <= i

\* QEMU does not run.  Of text T it has sent n characters, m of which the
\* shell has read.
Cut(T, i, n, m) ==
  /\ stage = "off" /\ step = "idle" /\ sent = 0
  /\ Due(T, i) /\ n \in 0..Len(T) /\ m \in 0..n /\ n <= m + 1
  /\ line = Window(T, 0, m) /\ h2t = Window(T, m, n)
  /\ n > 0 => NoPromptIn(t2h)

\* The first n characters of T and the trigger.
Torn(T, n) == [k \in 1..n + 1 |-> IF k <= n THEN T[k] ELSE "@"]

\* Of these p were sent and m read.  No prompt is on its way.
Halted(T, i, n, m, p) ==
  /\ Due(T, i) /\ n \in 1..Len(T) - 1 /\ p \in n..n + 1 /\ m \in 0..p
  /\ line = Window(Torn(T, n), 0, m) /\ h2t = Window(Torn(T, n), m, p)
  /\ sent = 0 /\ NoPromptIn(t2h)
  /\ \/ p = n /\ stage = "trigger" /\ step = "write"
     \/ p = n + 1 /\ stage = "trigger" /\ step = "readback"
     \/ p = n + 1 /\ stage = "alive" /\ step = "prompt"

\* A character belongs to a text, and the text to the i-th access if it is one.
Tag == [text : Seq(Char), off : Nat, i : Nat]

GoodTag(t) ==
  /\ t.text \in Plain \/ (t.i > 0 /\ t.text = Command(issued[t.i]))
  /\ t.i <= Len(issued) /\ t.off >= 1 /\ t.off <= Len(t.text)

\* Characters are sent in the order of the text, texts in the order of accesses.
Follows(s, t) ==
  \/ t.text = s.text /\ t.i = s.i /\ t.off = s.off + 1
  \/ s.off = Len(s.text) /\ t.off = 1 /\ t.i >= s.i /\ (t.text \notin Plain => t.i > s.i)

\* Tag b is that of the last character read, tag c of the last one sent.
Queued(tg, b, c) ==
  /\ tg \in [Nat -> Tag] /\ b \in Nat /\ c \in Nat /\ b <= c /\ Len(h2t) = c - b
  /\ \A j \in 1..c - b : h2t[j] = tg[b + j].text[tg[b + j].off]

InOrder(tg, b, c) ==
  /\ \A j \in b..c : GoodTag(tg[j])
  /\ \A j \in b..c - 1 : Follows(tg[j], tg[j + 1])

\* The shell has read the text of t up to there, or has carried it out.
ShellHas(t) ==
  \/ line = <<>> /\ t.off = Len(t.text) /\ Len(done) <= t.i
  \/ /\ line # <<>> /\ line = Window(t.text, 0, t.off)
     /\ Len(done) + (IF t.text \in Plain THEN 0 ELSE 1) <= t.i

\* How much of its text the driver has sent.
Sent == IF step = "readback" THEN sent + 1 ELSE IF step = "write" THEN sent ELSE 0

\* The driver is at tag t.
HostHas(t) ==
  /\ IF 0 < Sent /\ Sent < Len(Text) THEN t.text = Text /\ t.off = Sent
     ELSE t.off = Len(t.text)
  /\ stage = "active" /\ (step = "prompt" \/ (step = "write" /\ sent = 0)) => t.i < Len(issued)
  /\ stage = "active" /\ step # "idle" => issued # <<>> /\ req = issued[Len(issued)]

Stream(tg, b, c) ==
  /\ stage # "off" /\ Queued(tg, b, c) /\ InOrder(tg, b, c)
  /\ ShellHas(tg[b]) /\ HostHas(tg[c])

KillInv ==
  /\ TypeOK /\ up = TRUE /\ Asked /\ Len(done) <= Len(issued)
  /\ \/ kills = 0 /\ Lockstep
     \/ kills = 1 /\ \E T, i, n, m : Cut(T, i, n, m)
     \/ kills = 1 /\ \E T, i, n, m, p : Halted(T, i, n, m, p)
     \/ kills = 1 /\ \E tg, b, c : Stream(tg, b, c)

\* The types of what the proof handles.
LEMMA Types ==
  ASSUME TypeOK
  PROVE  /\ h2t \in Seq(Char) /\ t2h \in Seq(Char) /\ line \in Seq(Char)
         /\ Len(done) \in Nat /\ DOMAIN done = 1..Len(done)
         /\ issued \in Seq(Access) /\ Len(issued) \in Nat /\ DOMAIN issued = 1..Len(issued)
         /\ stage \in Stages /\ step \in Steps /\ (stage = "off" => step = "idle")
         /\ sent \in 0..IF step \in {"write", "readback"} THEN Len(Text) - 1 ELSE 0
         /\ kills \in 0..MaxKills
<1>1. /\ \E S : done \in Seq(S)
      /\ issued \in Seq(Access) /\ h2t \in Seq(Char) /\ t2h \in Seq(Char) /\ line \in Seq(Char)
  BY DEF TypeOK, LineTypeOK, ShellTypeOK, HostTypeOK
<1>2. Len(done) \in Nat /\ DOMAIN done = 1..Len(done)
  BY <1>1
<1>3. Len(issued) \in Nat /\ DOMAIN issued = 1..Len(issued)
  BY <1>1
<1> QED
  BY <1>1, <1>2, <1>3 DEF TypeOK, HostTypeOK, Steps

\* Letters that are no prompt.
LEMMA Letters ==
  /\ ">" \notin Hex /\ ">" \notin Widths /\ "@" \notin Widths
  /\ \A o \in Ops : o[1] \notin {">", "@"} /\ o[2] \notin {">", "@"}
<1>1. ">" \notin Hex
  BY WireAssumption DEF Hex
<1>2. \A o \in {RM, RI, RC, CI, WM, WI, WC, MB, VI} :
        o[1] \notin {">", "@"} /\ o[2] \notin {">", "@"}
  BY DEF RM, RI, RC, CI, WM, WI, WC, MB, VI
<1> QED
  BY <1>1, <1>2 DEF Widths, Ops, Reads, BusReads, BusWrites

\* No command has a prompt in it.
LEMMA CommandPlain ==
  ASSUME NEW r \in Access
  PROVE  NoPromptIn(Command(r))
<1>1. r.op \in Ops /\ r.op[1] # ">" /\ r.op[2] # ">"
  BY AccessKinds, BusReadText, BusWriteText, CpuReadText, WriteMsrText, Letters
<1>2. CASE r.op \in BusReads
  BY <1>1, <1>2, BusReadText, Letters DEF NoPromptIn
<1>3. CASE r.op \in BusWrites
  BY <1>1, <1>3, BusWriteText, Letters DEF NoPromptIn
<1>4. CASE r.op \in {RC, CI}
  BY <1>1, <1>4, CpuReadText, Letters DEF NoPromptIn
<1>5. CASE r.op = WC
  BY <1>1, <1>5, WriteMsrText, Letters DEF NoPromptIn
<1> QED
  BY <1>2, <1>3, <1>4, <1>5, AccessKinds

\* What the driver writes.
LEMMA PlainSaid ==
  ASSUME NEW T \in Plain
  PROVE  T \in Seq(Char) /\ Len(T) \in {1, 3} /\ NoPromptIn(T) /\ (WellFormed(T) \/ T = <<"@">>)
<1>1. CASE T = <<"@">>
  BY <1>1 DEF NoPromptIn, Char
<1>2. CASE T = <<"*", "v", "i">>
  <2>1. WellFormed(T)  BY <1>2, PlainFormed
  <2> QED  BY <1>2, <2>1 DEF NoPromptIn, WellFormed
<1>3. CASE T = <<"*", "m", "b">>
  <2>1. WellFormed(T)  BY <1>3, PlainFormed
  <2> QED  BY <1>3, <2>1 DEF NoPromptIn, WellFormed
<1> QED
  BY <1>1, <1>2, <1>3 DEF Plain

LEMMA CommandSaid ==
  ASSUME NEW r \in Access
  PROVE  /\ Command(r) \in Seq(Char) /\ Len(Command(r)) >= 3
         /\ NoPromptIn(Command(r)) /\ WellFormed(Command(r))
BY CommandFormed, WholeActs, CommandPlain DEF WellFormed

LEMMA SpokenSaid ==
  ASSUME TypeOK, NEW T, Spoken(T)
  PROVE  /\ T \in Seq(Char) /\ Len(T) \in Nat /\ Len(T) >= 1 /\ NoPromptIn(T)
         /\ WellFormed(T) \/ T = <<"@">>
<1>1. CASE T \in Plain
  BY <1>1, PlainSaid
<1>2. CASE T \notin Plain
  <2>1. PICK j \in DOMAIN issued : T = Command(issued[j])
    BY <1>2 DEF Spoken
  <2>2. issued[j] \in Access
    BY <2>1, Types
  <2>3. T \in Seq(Char) /\ Len(T) >= 3 /\ NoPromptIn(T) /\ WellFormed(T)
    BY <2>1, <2>2, CommandSaid
  <2> QED  BY <2>3
<1> QED
  BY <1>1, <1>2

\* The shell acts on a whole text only.
LEMMA ActsOnWhole ==
  ASSUME NEW T \in Seq(Char), WellFormed(T) \/ T = <<"@">>, NEW n \in 0..Len(T),
         Complete(Window(T, 0, n))
  PROVE  n = Len(T) /\ Window(T, 0, n) = T
<1>0. Window(T, 0, n) = SubSeq(T, 1, n)
  BY DEF Window
<1>1. n = Len(T)
  <2>1. SUFFICES ASSUME n \in 0..Len(T) - 1 PROVE FALSE
    OBVIOUS
  <2>2. CASE WellFormed(T)
    BY <1>0, <2>1, <2>2, PrefixWaits
  <2>3. CASE T = <<"@">>
    <3>1. SubSeq(T, 1, n) = <<>>
      BY <2>1, <2>3
    <3> QED  BY <1>0, <3>1, TriggerActs
  <2> QED  BY <2>2, <2>3
<1> QED
  BY <1>0, <1>1, SubSeqFull

LEMMA WholeIsComplete ==
  ASSUME NEW T \in Seq(Char), WellFormed(T) \/ T = <<"@">>
  PROVE  Complete(T)
BY WholeActs, TriggerActs

\* What the shell prints while it reads is no prompt.
LEMMA EchoNoPrompt ==
  ASSUME Recv, h2t \in Seq(Char), t2h \in Seq(Char), NoPromptIn(t2h), Head(h2t) # ">"
  PROVE  NoPromptIn(t2h')
<1>1. PICK s \in {ParseError, <<>>} : t2h' = t2h \o <<Head(h2t)>> \o s
  BY DEF Recv
<1>2. h2t # <<>> /\ Head(h2t) \in Char
  BY DEF Recv
<1>3. s \in Seq(Char) /\ \A k \in 1..Len(s) : s[k] # ">"
  <2>1. CASE s = ParseError
    BY <2>1, PrintedChars DEF ParseError
  <2>2. CASE s = <<>>
    BY <2>2
  <2> QED  BY <2>1, <2>2
<1> DEFINE q == t2h \o <<Head(h2t)>>
<1>4. q \in Seq(Char) /\ \A k \in 1..Len(q) : q[k] # ">"
  BY <1>2 DEF NoPromptIn
<1> HIDE DEF q
<1>5. \A k \in 1..Len(q \o s) : (q \o s)[k] # ">"
  BY <1>3, <1>4
<1> QED
  BY <1>1, <1>5 DEF q, NoPromptIn

\* An action of the shell that is not serial_getc ends the command.
LEMMA ShellFinishes ==
  ASSUME ShellNext, ~Recv
  PROVE  /\ Complete(line) /\ line' = <<>> /\ h2t' = h2t /\ up' = up
         /\ \/ done' = done
            \/ /\ Op(line) \in Ops \ {MB, VI}
               /\ Op(line) \in BusReads \cup BusWrites => line[6] \in Widths
               /\ \E out : done' = Append(done, [acc |-> Decode(line), out |-> out])
<1>1. CASE BusRead
  <2>1. Op(line) \in BusReads /\ Complete(line)
    BY <1>1 DEF BusRead, At
  <2>2. Op(line) \in Ops \ {MB, VI}
    BY <2>1, OpsDistinct DEF Ops, Reads
  <2>3. CASE line[6] \in Widths
    BY <1>1, <2>1, <2>2, <2>3 DEF BusRead, Finish, Perform
  <2>4. CASE line[6] \notin Widths
    BY <1>1, <2>1, <2>4 DEF BusRead, Finish
  <2> QED  BY <2>3, <2>4
<1>2. CASE BusWrite
  <2>1. Op(line) \in BusWrites /\ Complete(line)
    BY <1>2 DEF BusWrite, At
  <2>2. Op(line) \in Ops \ {MB, VI}
    BY <2>1, OpsDistinct DEF Ops
  <2>3. CASE line[6] \in Widths
    BY <1>2, <2>1, <2>2, <2>3 DEF BusWrite, Finish, Perform
  <2>4. CASE line[6] \notin Widths
    BY <1>2, <2>1, <2>4 DEF BusWrite, Finish
  <2> QED  BY <2>3, <2>4
<1>3. CASE CpuRead
  <2>1. Op(line) \in {RC, CI} /\ Complete(line)
    BY <1>3 DEF CpuRead, At
  <2>2. Op(line) \in Ops \ {MB, VI} /\ Op(line) \notin BusReads \cup BusWrites
    BY <2>1, OpsDistinct DEF Ops, Reads
  <2> QED  BY <1>3, <2>1, <2>2 DEF CpuRead, Finish, Perform
<1>4. CASE WriteMsr
  <2>1. Op(line) = WC /\ Complete(line)
    BY <1>4 DEF WriteMsr, At
  <2>2. Op(line) \in Ops \ {MB, VI} /\ Op(line) \notin BusReads \cup BusWrites
    BY <2>1, OpsDistinct DEF Ops
  <2> QED  BY <1>4, <2>1, <2>2 DEF WriteMsr, Finish, Perform
<1>5. CASE Mainboard \/ Version \/ Unknown \/ NotACommand
  BY <1>5 DEF Mainboard, Version, Unknown, NotACommand, Finish, At
<1> QED
  BY <1>1, <1>2, <1>3, <1>4, <1>5 DEF ShellNext
-----------------------------------------------------------------------------
(***************************************************************************)
(* What the shell makes of a text that ends in a trigger.                  *)
(***************************************************************************)

LEMMA TornIs ==
  ASSUME NEW T \in Seq(Char), NEW n \in 1..Len(T) - 1
  PROVE  /\ Torn(T, n) \in Seq(Char) /\ Len(Torn(T, n)) = n + 1 /\ Torn(T, n)[n + 1] = "@"
         /\ \A k \in 1..n : Torn(T, n)[k] = T[k]
<1>1. "@" \in Char
  BY DEF Char
<1>2. \A k \in 1..n + 1 : (IF k <= n THEN T[k] ELSE "@") \in Char
  BY <1>1
<1>3. Torn(T, n) \in [1..n + 1 -> Char]
  BY <1>2 DEF Torn
<1>4. Torn(T, n) \in Seq(Char) /\ Len(Torn(T, n)) = n + 1
  BY <1>3
<1> QED
  BY <1>4 DEF Torn

\* Up to there it is the text.
LEMMA TornFront ==
  ASSUME NEW T \in Seq(Char), NEW n \in 1..Len(T) - 1, NEW a \in 0..n, NEW b \in a..n
  PROVE  Window(Torn(T, n), a, b) = Window(T, a, b)
<1> DEFINE U == Torn(T, n)
           x == Window(U, a, b)
<1>1. U \in Seq(Char) /\ Len(U) = n + 1 /\ \A k \in 1..n : U[k] = T[k]
  BY TornIs
<1> HIDE DEF U
<1>2. a \in Nat /\ b \in Nat /\ a <= b /\ b <= Len(U) /\ b <= Len(T)
  BY <1>1
<1>3. x \in Seq(Char) /\ Len(x) = b - a /\ \A i \in 1..b - a : x[i] = U[a + i]
  BY <1>1, <1>2, WindowIs, Zenon
<1> HIDE DEF x
<1>4. \A i \in 1..b - a : x[i] = T[a + i]
  BY <1>1, <1>3
<1>5. x = Window(T, a, b)
  BY <1>2, <1>3, <1>4, WindowEqual, Zenon
<1> QED
  BY <1>5 DEF x, U

\* If the shell takes it for an access, only the last field is not as it was
\* asked for.
LEMMA TornLike ==
  ASSUME NEW T, WellFormed(T), NEW n \in 1..Len(T) - 1, NEW U, U = Torn(T, n), Complete(U),
         Op(U) \in Ops \ {MB, VI}, Op(U) \in BusReads \cup BusWrites => U[6] \in Widths
  PROVE  Op(T) \notin {MB, VI} /\ Like(Decode(U), Decode(T))
<1>1. /\ T \in Seq(Char) /\ U \in Seq(Char) /\ Len(U) = n + 1 /\ U[n + 1] = "@"
      /\ \A k \in 1..n : U[k] = T[k]
  BY TornIs DEF WellFormed
<1>2. n >= 3
  <2>1. Op(U)[1] = U[2] /\ Op(U)[2] = U[3]
    BY DEF Op
  <2>2. U[2] # "@" /\ U[3] # "@"
    BY <2>1, Letters
  <2> QED  BY <1>1, <2>2
<1>3. Op(U) = Op(T) /\ U[1] = "*"
  BY <1>1, <1>2 DEF Op, WellFormed
<1>4. n + 1 = Len(T)
  <2>1. U # <<>> /\ ~(Len(U) < 3)
    BY <1>1, <1>2
  <2>2. ~(Op(U) \in BusWrites /\ Len(U) >= 6 /\ U[6] \notin Widths)
    OBVIOUS
  <2>3. Need(U) = TextLen(Op(U))
    BY <1>3, <2>1, <2>2 DEF Need
  <2>4. n + 1 >= Len(T)
    BY <1>1, <1>3, <2>3 DEF Complete, WellFormed
  <2> QED  BY <1>1, <2>4
<1>5. Len(T) = TextLen(Op(T))
  BY DEF WellFormed
<1>6. CASE Op(T) \in BusReads
  <2>1. Len(T) = 6
    BY <1>5, <1>6, Layout
  <2> QED  BY <1>1, <1>3, <1>4, <1>6, <2>1, Letters
<1>7. CASE Op(T) \in BusWrites
  <2>1. Len(T) = 8
    BY <1>5, <1>7, Layout
  <2>2. U[4] = T[4] /\ U[6] = T[6]
    BY <1>1, <1>4, <2>1
  <2>3. Decode(U) = [op |-> Op(T), width |-> T[6], args |-> <<Nibble(T[4]), Nibble(U[8])>>]
    BY <1>3, <1>7, <2>2, Decoded
  <2>4. Decode(T) = [op |-> Op(T), width |-> T[6], args |-> <<Nibble(T[4]), Nibble(T[8])>>]
    BY <1>7, Decoded
  <2> QED  BY <1>7, <2>3, <2>4, OpsDistinct DEF Like
<1>8. CASE Op(T) \in {RC, CI}
  <2>1. Len(T) = 6
    BY <1>5, <1>8, Layout
  <2>2. U[4] = T[4]
    BY <1>1, <1>4, <2>1
  <2>3. Decode(U) = [op |-> Op(T), width |-> "none", args |-> <<Nibble(T[4]), Nibble(U[6])>>]
    BY <1>3, <1>8, <2>2, Decoded
  <2>4. Decode(T) = [op |-> Op(T), width |-> "none", args |-> <<Nibble(T[4]), Nibble(T[6])>>]
    BY <1>8, Decoded
  <2> QED  BY <1>8, <2>3, <2>4, OpsDistinct DEF Like
<1>9. CASE Op(T) = WC
  <2>1. Len(T) = 10
    BY <1>5, <1>9, Layout
  <2>2. U[4] = T[4] /\ U[6] = T[6] /\ U[8] = T[8]
    BY <1>1, <1>4, <2>1
  <2> DEFINE key == IF Romcc THEN FixedKey ELSE Nibble(T[6])
  <2>3. Decode(U) = [op |-> Op(T), width |-> "none",
                     args |-> <<Nibble(T[4]), key, Nibble(T[8]), Nibble(U[10])>>]
    BY <1>3, <1>9, <2>2, Decoded
  <2>4. Decode(T) = [op |-> Op(T), width |-> "none",
                     args |-> <<Nibble(T[4]), key, Nibble(T[8]), Nibble(T[10])>>]
    BY <1>9, Decoded
  <2> HIDE DEF key
  <2> QED  BY <1>9, <2>3, <2>4, OpsDistinct DEF Like
<1> QED
  BY <1>3, <1>6, <1>7, <1>8, <1>9 DEF Ops, Reads

\* An access more was performed, and had been asked for.
LEMMA AskedMore ==
  ASSUME TypeOK, TypeOK', Asked, issued' = issued, NEW a, NEW out,
         done' = Append(done, [acc |-> a, out |-> out]),
         NEW j \in DOMAIN issued, Like(a, Effect(issued[j]))
  PROVE  Asked' /\ Len(done') = Len(done) + 1
<1> DEFINE e == [acc |-> a, out |-> out]
<1>0. e.acc = a
  OBVIOUS
<1> HIDE DEF e
<1>1. PICK S : done \in Seq(S)
  BY DEF TypeOK, ShellTypeOK
<1>2. /\ Len(done') = Len(done) + 1 /\ done'[Len(done) + 1] = e
      /\ DOMAIN done' = 1..Len(done) + 1 /\ \A i \in 1..Len(done) : done'[i] = done[i]
  BY <1>1 DEF e
<1>3. ASSUME NEW i \in DOMAIN done'
      PROVE  \E k \in DOMAIN issued : Like(done'[i].acc, Effect(issued[k]))
  <2>1. CASE i = Len(done) + 1
    BY <1>0, <1>2, <2>1
  <2>2. CASE i # Len(done) + 1
    <3>1. i \in DOMAIN done /\ done'[i] = done[i]
      BY <1>2, <2>2, Types
    <3> QED  BY <3>1 DEF Asked
  <2> QED  BY <2>1, <2>2
<1> QED
  BY <1>2, <1>3 DEF Asked

LEMMA AskedStays ==
  ASSUME TypeOK, Asked, done' = done,
         issued' = issued \/ \E r \in Access : issued' = Append(issued, r)
  PROVE  /\ Asked' /\ Len(issued') >= Len(issued) /\ Len(issued') \in Nat
         /\ \A k \in DOMAIN issued : k \in DOMAIN issued' /\ issued'[k] = issued[k]
<1>1. /\ Len(issued') >= Len(issued) /\ Len(issued') \in Nat
      /\ \A k \in DOMAIN issued : k \in DOMAIN issued' /\ issued'[k] = issued[k]
  BY Types
<1> QED
  BY <1>1 DEF Asked

\* The shell carries out a whole text.
LEMMA LikeSelf == \A r : Like(r, r)
BY DEF Like

LEMMA DueSpoken ==
  ASSUME TypeOK, NEW T, NEW i, Due(T, i)
  PROVE  Spoken(T)
BY Types DEF Due, Spoken

LEMMA TextDone ==
  ASSUME TypeOK, TypeOK', Asked, NEW T, NEW i, T \in Plain \/ (i \in 1..Len(issued) /\ T = Command(issued[i])),
         line = T, Shell
  PROVE  /\ line' = <<>> /\ h2t' = h2t /\ up' = up /\ Asked'
         /\ Len(done') = Len(done) + (IF T \in Plain THEN 0 ELSE 1)
<1>1. ShellNext /\ issued' = issued
  BY DEF Shell, hostVars
<1>2. CASE T \in Plain
  <2>1. done' = done /\ line' = <<>> /\ h2t' = h2t /\ up' = up
    BY <1>1, <1>2, ShellAnswers DEF Plain
  <2>2. Asked'
    BY <1>1, <2>1, AskedStays
  <2> QED  BY <1>2, <2>1, <2>2, Types
<1>3. CASE T \notin Plain
  <2>1. i \in DOMAIN issued /\ T = Command(issued[i])
    BY <1>3, Types
  <2> DEFINE r == issued[i]
  <2>2. r \in Access /\ line = Command(r)
    BY <2>1, Types
  <2> HIDE DEF r
  <2>3. PICK out \in Results(r) :
          /\ done' = Append(done, [acc |-> Effect(r), out |-> out])
          /\ line' = <<>> /\ h2t' = h2t /\ up' = up
    BY <1>1, <2>2, ShellActs
  <2>4. Like(Effect(r), Effect(issued[i]))
    BY LikeSelf DEF r
  <2>5. Asked' /\ Len(done') = Len(done) + 1
    BY <1>1, <2>1, <2>3, <2>4, AskedMore
  <2> QED  BY <1>3, <2>3, <2>5
<1> QED
  BY <1>2, <1>3
-----------------------------------------------------------------------------
(***************************************************************************)
(* QEMU is killed.                                                         *)
(***************************************************************************)

LEMMA NoPromptInOne ==
  /\ NoPromptIn(<<>>)
  /\ \A s \in Seq(Char) : \A k \in 1..Len(s) : NoPromptIn(s) => NoPromptIn(<<s[k]>>)
BY DEF NoPromptIn

LEMMA TriggerPlain == <<"@">> \in Plain /\ <<"@">> \in Seq(Char)
<1>1. <<"@">> \in Plain
  BY DEF Plain
<1> QED
  BY <1>1, PlainSaid

LEMMA PlainDue ==
  ASSUME Len(issued) \in Nat, Len(done) \in Nat, Len(done) <= Len(issued), NEW T \in Plain
  PROVE  Due(T, Len(issued))
<1>1. Len(done) + (IF T \in Plain THEN 0 ELSE 1) = Len(done)
  OBVIOUS
<1>2. Len(issued) \in 0..Len(issued)
  OBVIOUS
<1>3. Len(done) + (IF T \in Plain THEN 0 ELSE 1) <= Len(issued)
  BY <1>1
<1> QED
  BY <1>2, <1>3, Zenon DEF Due

LEMMA LockstepAsked ==
  ASSUME TypeOK, Lockstep
  PROVE  Asked /\ Len(done) <= Len(issued)
<1>1. Recorded
  BY DEF Lockstep
<1>2. \A i \in DOMAIN done : i \in DOMAIN issued /\ done[i].acc = Effect(issued[i])
  BY <1>1, Types DEF Recorded
<1> QED
  BY <1>1, <1>2, LikeSelf DEF Recorded, Asked

\* A command under way is due.
LEMMA CommandingDue ==
  ASSUME TypeOK, Lockstep, Commanding, Len(done) = Len(log)
  PROVE  Due(Text, Len(issued)) /\ Text \in Seq(Char) /\ Len(Text) \in Nat /\ NoPromptIn(Text)
<1>1. Inv
  BY DEF Inv
<1>2. /\ stage # "off" /\ Text \in Seq(Char) /\ Len(Text) >= 1
      /\ stage \in Handshake => Text = <<"@">>
      /\ stage = "version" => Text = <<"*", "v", "i">>
      /\ stage = "mainboard" => Text = <<"*", "m", "b">>
      /\ stage = "active" => req \in Access /\ Text = Command(req)
  BY <1>1, CommandText
<1>3. Recorded /\ Len(issued) \in Nat /\ Len(done) \in Nat /\ Len(done) <= Len(issued)
  BY Types, LockstepAsked DEF Lockstep
<1>4. Due(Text, Len(issued))
  <2>1. CASE stage = "active"
    <3>1. Len(issued) = Len(log) + 1 /\ req = issued[Len(issued)] /\ Len(issued) > 0
      BY <1>3, <2>1 DEF Commanding, Recorded
    <3>2. Len(done) + (IF Text \in Plain THEN 0 ELSE 1) <= Len(issued)
      BY <1>3, <3>1
    <3> QED  BY <1>2, <1>3, <2>1, <3>1, <3>2 DEF Due
  <2>2. CASE stage # "active"
    <3>1. stage \in Handshake \/ stage = "version" \/ stage = "mainboard"
      BY <1>2, <2>2, Types DEF Stages
    <3>2. Text \in Plain
      BY <1>2, <3>1 DEF Plain
    <3> QED  BY <1>3, <3>2, PlainDue
  <2> QED  BY <2>1, <2>2
<1>5. NoPromptIn(Text)
  BY <1>4, DueSpoken, SpokenSaid
<1> QED
  BY <1>2, <1>4, <1>5

LEMMA KillCuts ==
  ASSUME TypeOK, Lockstep, KillHost
  PROVE  \E T, i, n, m : Cut(T, i, n, m)'
<1>1. /\ stage # "off" /\ stage' = "off" /\ step' = "idle" /\ sent' = 0
      /\ line' = line /\ done' = done /\ issued' = issued /\ h2t' = h2t /\ t2h' = t2h
  BY DEF KillHost, Kill, shellVars
<1>2. ASSUME NEW T, NEW i, NEW n, NEW m, Due(T, i), n \in 0..Len(T), m \in 0..n, n <= m + 1,
             line = Window(T, 0, m), h2t = Window(T, m, n), n > 0 => NoPromptIn(t2h)
      PROVE  \E x, k, y, z : Cut(x, k, y, z)'
  <2>1. Cut(T, i, n, m)'
    BY <1>1, <1>2 DEF Cut, Due, NoPromptIn
  <2> QED  BY <2>1
<1>3. /\ Len(issued) \in Nat /\ Len(done) \in Nat /\ Len(done) <= Len(issued) /\ Recorded
      /\ issued \in Seq(Access)
  BY Types, LockstepAsked DEF Lockstep
<1>4. ASSUME line = <<>>, h2t = <<>>
      PROVE  \E x, k, y, z : Cut(x, k, y, z)'
  <2>1. Due(<<"@">>, Len(issued))
    BY <1>3, TriggerPlain, PlainDue
  <2>2. Window(<<"@">>, 0, 0) = <<>>
    BY DEF Window
  <2>3. 0 \in 0..Len(<<"@">>) /\ 0 \in 0..0 /\ 0 <= 0 + 1 /\ ~(0 > 0)
    OBVIOUS
  <2> QED  BY <1>2, <1>4, <2>1, <2>2, <2>3
<1>5. CASE Off
  BY <1>1, <1>5 DEF Off
<1>6. CASE Rest
  BY <1>4, <1>6 DEF Rest
<1>7. CASE Posted
  <2>1. h2t = <<>> /\ t2h = <<>> /\ Between
    BY <1>7 DEF Posted, Line
  <2>2. ASSUME NEW T, NEW i, Due(T, i), T \in Seq(Char), line = T
        PROVE  \E x, k, y, z : Cut(x, k, y, z)'
    <3>1. Len(T) \in Nat /\ Len(T) \in 0..Len(T) /\ Len(T) <= Len(T) + 1
      BY <2>2
    <3>2. Window(T, 0, Len(T)) = T /\ Window(T, Len(T), Len(T)) = <<>>
      <4>1. SubSeq(T, 1, Len(T)) = T
        BY <2>2, SubSeqFull
      <4>2. Window(T, Len(T), Len(T)) = <<>>
        BY <2>2, <3>1, WindowIs
      <4> QED  BY <4>1, <4>2 DEF Window
    <3> QED  BY <1>2, <2>1, <2>2, <3>1, <3>2, NoPromptInOne
  <2>3. CASE stage \in {"alive", "version"} /\ line = <<"@">> /\ Len(done) = Len(log)
    <3>1. Due(<<"@">>, Len(issued)) /\ <<"@">> \in Seq(Char)
      BY <1>3, TriggerPlain, PlainDue
    <3> QED  BY <2>2, <2>3, <3>1
  <2>4. CASE /\ stage = "active" /\ Len(log) = Len(done) + 1
             /\ line = Command(issued[Len(log)]) /\ issued[Len(log)].op \notin Reads
    <3>1. Len(log) \in 1..Len(issued)
      BY <1>3, <2>4 DEF Recorded
    <3>2. Due(Command(issued[Len(log)]), Len(log))
      BY <1>3, <2>4, <3>1 DEF Due
    <3>3. issued[Len(log)] \in Access
      BY <1>3, <3>1
    <3>4. Command(issued[Len(log)]) \in Seq(Char)
      BY <3>3, CommandSaid
    <3> QED  BY <2>2, <2>4, <3>2, <3>4
  <2> QED  BY <1>7, <2>3, <2>4 DEF Posted
<1>8. ASSUME Commanding, NEW n \in 0..Len(Text), NEW m \in 0..n, n <= m + 1, Len(done) = Len(log),
             line = Window(Text, 0, m), h2t = Window(Text, m, n),
             t2h = <<>> \/ \E k \in 1..Len(Text) : t2h = <<Text[k]>>
      PROVE  \E x, k, y, z : Cut(x, k, y, z)'
  <2>1. PICK T : T = Text
    OBVIOUS
  <2>2. Due(T, Len(issued)) /\ T \in Seq(Char) /\ NoPromptIn(T)
    BY <1>8, <2>1, CommandingDue
  <2>3. NoPromptIn(t2h)
    BY <1>8, <2>1, <2>2, NoPromptInOne
  <2> QED  BY <1>2, <1>8, <2>1, <2>2, <2>3
<1>9. Commanding /\ (Writing \/ Unread \/ Echoed \/ ToAct) => Text \in Seq(Char) /\ Len(Text) \in Nat
  BY CommandingDue DEF Writing, Unread, Echoed, ToAct, Typed
<1>10. CASE Commanding /\ Writing
  <2>1. Window(Text, sent, sent) = <<>> /\ Window(Text, 0, sent) = SubSeq(Text, 1, sent)
    BY <1>9, <1>10, Types, WindowIs DEF Window, Writing
  <2>2. sent \in 0..Len(Text) /\ sent \in 0..sent /\ sent <= sent + 1
    BY <1>9, <1>10, Types DEF Writing
  <2> QED  BY <1>8, <1>10, <2>1, <2>2 DEF Writing, Typed, Line
<1>11. CASE Commanding /\ Unread
  <2>0. sent \in Nat /\ sent + 1 <= Len(Text) /\ sent < Len(Text) /\ sent <= sent
    BY <1>9, <1>11, Types DEF Unread
  <2>1. Window(Text, sent, sent + 1) = <<Text[sent + 1]>>
    <3>1. Window(Text, sent, sent) = <<>>
      BY <1>9, <1>11, <2>0, WindowIs
    <3>2. Window(Text, sent, sent) \o <<Text[sent + 1]>> = Window(Text, sent, sent + 1)
      BY <1>9, <1>11, <2>0, WindowGrows, Zenon
    <3> QED  BY <1>9, <1>11, <2>0, <3>1, <3>2
  <2>2. Window(Text, 0, sent) = SubSeq(Text, 1, sent)
    BY <2>0 DEF Window
  <2>3. sent + 1 \in 0..Len(Text) /\ sent \in 0..sent + 1 /\ sent + 1 <= sent + 1
    BY <1>9, <1>11, <2>0
  <2> QED  BY <1>8, <1>11, <2>1, <2>2, <2>3 DEF Unread, Typed, Line
<1>12. CASE Commanding /\ Echoed
  <2>0. sent \in Nat /\ sent + 1 <= Len(Text)
    BY <1>9, <1>12, Types DEF Echoed
  <2>1. Window(Text, sent + 1, sent + 1) = <<>>
    BY <1>9, <1>12, <2>0, WindowIs
  <2>2. Window(Text, 0, sent + 1) = SubSeq(Text, 1, sent + 1)
    BY <2>0 DEF Window
  <2>3. sent + 1 \in 0..Len(Text) /\ sent + 1 \in 0..sent + 1 /\ sent + 1 <= (sent + 1) + 1
        /\ sent + 1 \in 1..Len(Text)
    BY <1>9, <1>12, <2>0
  <2> QED  BY <1>8, <1>12, <2>1, <2>2, <2>3 DEF Echoed, Typed, Line
<1>13. CASE Commanding /\ ToAct
  <2>1. Window(Text, Len(Text), Len(Text)) = <<>>
    BY <1>9, <1>13, WindowIs
  <2>2. Window(Text, 0, Len(Text)) = SubSeq(Text, 1, Len(Text))
    BY DEF Window
  <2>3. Len(Text) \in 0..Len(Text) /\ Len(Text) <= Len(Text) + 1
    BY <1>9, <1>13
  <2> QED  BY <1>8, <1>13, <2>1, <2>2, <2>3 DEF ToAct, Typed, Line
<1>14. CASE Commanding /\ (EchoedAndActed \/ ReplyReady)
  BY <1>4, <1>14 DEF EchoedAndActed, ReplyReady, Acted, Line
<1> QED
  BY <1>5, <1>6, <1>7, <1>10, <1>11, <1>12, <1>13, <1>14 DEF Lockstep

-----------------------------------------------------------------------------
(***************************************************************************)
(* QEMU does not run, and is started again.                                *)
(***************************************************************************)

LEMMA CutShell ==
  ASSUME TypeOK, TypeOK', Asked, Len(done) <= Len(issued), up = TRUE,
         NEW T, NEW i, NEW n, NEW m, Cut(T, i, n, m), Shell
  PROVE  Asked' /\ Len(done') <= Len(issued') /\ up' = TRUE /\ \E x, k, y, z : Cut(x, k, y, z)'
<1>1. ShellNext /\ UNCHANGED <<stage, step, sent, issued>>
  BY DEF Shell, hostVars
<1>2. T \in Seq(Char) /\ Len(T) \in Nat /\ NoPromptIn(T) /\ (WellFormed(T) \/ T = <<"@">>)
  BY DueSpoken, SpokenSaid DEF Cut
<1>3. Due(T, i) /\ n \in 0..Len(T) /\ m \in 0..n /\ n <= m + 1
      /\ line = Window(T, 0, m) /\ h2t = Window(T, m, n) /\ (n > 0 => NoPromptIn(t2h))
  BY DEF Cut
<1>4. CASE Recv
  <2>1. m < n
    <3>1. h2t # <<>>
      BY <1>4 DEF Recv
    <3>2. m \in Nat /\ n \in Nat /\ m <= n /\ n <= Len(T)
      BY <1>2, <1>3
    <3>3. (Window(T, m, n) = <<>>) <=> (m = n)
      BY <1>2, <3>2, WindowIs, Zenon
    <3> QED  BY <1>3, <3>1, <3>2, <3>3
  <2>2. Head(h2t) = T[m + 1] /\ Tail(h2t) = Window(T, m + 1, n)
    BY <1>2, <1>3, <2>1, WindowTail
  <2>3. line = SubSeq(T, 1, m) /\ m \in 0..Len(T) - 1 /\ t2h \in Seq(Char)
    BY <1>2, <1>3, <2>1, Types DEF Window
  <2>4. /\ line' = SubSeq(T, 1, m + 1) /\ h2t' = Tail(h2t) /\ up' = up /\ done' = done
    BY <1>1, <1>2, <2>2, <2>3, ShellReads
  <2>5. NoPromptIn(t2h')
    <3>1. T[m + 1] # ">"
      BY <1>2, <2>3 DEF NoPromptIn
    <3> QED  BY <1>3, <1>4, <2>1, <2>2, <3>1, EchoNoPrompt, Types
  <2>6. Cut(T, i, n, m + 1)'
    <3>1. Due(T, i)'
      BY <1>1, <1>3, <2>4 DEF Due
    <3>2. m + 1 \in 0..n /\ n <= (m + 1) + 1
      BY <1>3, <2>1
    <3>3. line' = Window(T, 0, m + 1)
      BY <2>4 DEF Window
    <3> QED  BY <1>1, <1>3, <2>2, <2>4, <2>5, <3>1, <3>2, <3>3 DEF Cut
  <2>7. Asked'
    BY <1>1, <2>4, AskedStays
  <2> QED  BY <1>1, <2>4, <2>6, <2>7
<1>5. CASE ~Recv
  <2>1. Complete(line) /\ h2t' = h2t
    BY <1>1, <1>5, ShellFinishes
  <2>2. m = Len(T) /\ line = T /\ n = m
    <3>1. m \in 0..Len(T)
      BY <1>2, <1>3
    <3>2. m = Len(T) /\ Window(T, 0, m) = T
      BY <1>2, <1>3, <2>1, <3>1, ActsOnWhole
    <3> QED  BY <1>2, <1>3, <3>2
  <2>3. h2t = <<>>
    BY <1>2, <1>3, <2>2, WindowIs
  <2>4. T \in Plain \/ (i \in 1..Len(issued) /\ T = Command(issued[i]))
    BY <1>3, Types DEF Due
  <2>5. /\ line' = <<>> /\ up' = up /\ Asked'
        /\ Len(done') = Len(done) + (IF T \in Plain THEN 0 ELSE 1)
    BY <2>2, <2>4, TextDone
  <2>6. Len(done') <= Len(issued') /\ Len(done') \in Nat /\ Len(issued') \in Nat
    BY <1>1, <1>3, <2>5, Types DEF Due
  <2>7. Due(<<"@">>, Len(issued))'
    <3>1. Len(issued') \in 0..Len(issued')
          /\ Len(done') + (IF <<"@">> \in Plain THEN 0 ELSE 1) <= Len(issued')
      BY <2>6, TriggerPlain
    <3> QED  BY <3>1, TriggerPlain, Zenon DEF Due
  <2>8. Window(<<"@">>, 0, 0) = <<>>
    BY DEF Window
  <2>9. Cut(<<"@">>, Len(issued), 0, 0)'
    BY <1>1, <1>3, <2>1, <2>3, <2>5, <2>7, <2>8 DEF Cut
  <2> QED  BY <2>5, <2>6, <2>9
<1> QED
  BY <1>4, <1>5

LEMMA LeftAlone ==
  ASSUME TypeOK, Asked, Len(done) <= Len(issued), done' = done, issued' = issued
  PROVE  Asked' /\ Len(done') <= Len(issued')
BY AskedStays

LEMMA WindowOf ==
  ASSUME NEW T \in Seq(Char), NEW a \in 0..Len(T), NEW b \in a..Len(T)
  PROVE  /\ Len(Window(T, a, b)) = b - a /\ \A j \in 1..b - a : Window(T, a, b)[j] = T[a + j]
         /\ Window(T, a, b) = <<>> <=> a = b
<1>1. a \in Nat /\ b \in Nat /\ a <= b /\ b <= Len(T)
  OBVIOUS
<1> QED
  BY <1>1, WindowIs, Zenon

\* A stream of one text, of which the shell has read up to a and the driver has
\* sent all.
LEMMA StreamBegins ==
  ASSUME TypeOK, NEW T, NEW i, Due(T, i), NEW a \in 0..Len(T), NEW b \in a..Len(T), b <= a + 1,
         b = Len(T), stage' \in {"trigger", "alive"},
         step' \in {"write", "readback", "prompt"}, sent' = 0,
         done' = done, issued' = issued, line' = Window(T, 0, a), h2t' = Window(T, a, b)
  PROVE  \E tg, x, y : Stream(tg, x, y)'
<1>1. T \in Seq(Char) /\ Len(T) \in Nat /\ Len(T) >= 1 /\ (WellFormed(T) \/ T = <<"@">>)
  BY DueSpoken, SpokenSaid
<1> DEFINE s == [text |-> T, off |-> IF a = 0 THEN b ELSE a, i |-> i]
           t == [text |-> T, off |-> b, i |-> i]
           tg == [k \in Nat |-> IF k = 0 THEN s ELSE t]
<1>2. i \in Nat /\ i <= Len(issued) /\ (T \in Plain \/ (i > 0 /\ T = Command(issued[i])))
      /\ Len(done) + (IF T \in Plain THEN 0 ELSE 1) <= i /\ Len(done) \in Nat
  BY Types DEF Due
<1>3. s \in Tag /\ t \in Tag /\ GoodTag(s)' /\ GoodTag(t)'
  BY <1>1, <1>2 DEF Tag, GoodTag
<1>4. s.text = T /\ t.text = T /\ s.i = i /\ t.i = i /\ t.off = b
      /\ (a = 0 => s.off = b) /\ (a # 0 => s.off = a)
  OBVIOUS
<1>5. tg \in [Nat -> Tag] /\ tg[0] = s /\ tg[1] = t /\ 0 \in Nat /\ b - a \in {0, 1}
  BY <1>3
<1>6. a = 0 => T = <<"@">>
  <2>1. a = 0 => Len(T) <= 1
    BY <1>1
  <2> QED  BY <1>1, <2>1, WholeActs
<1>7. b - a = 1 => Follows(s, t)
  <2>1. CASE a = 0
    BY <1>4, <1>6, <2>1, <1>2, TriggerPlain DEF Follows
  <2>2. CASE a # 0
    BY <1>4, <2>2, <1>1 DEF Follows
  <2> QED  BY <2>1, <2>2
<1>8. ShellHas(s)'
  <2>1. CASE a = 0
    <3>1. line' = <<>>
      BY <1>1, <2>1, WindowIs
    <3> QED  BY <1>2, <1>4, <2>1, <3>1 DEF ShellHas
  <2>2. CASE a # 0
    <3>1. line' # <<>>
      BY <1>1, <2>2, WindowIs
    <3> QED  BY <1>2, <1>4, <2>2, <3>1 DEF ShellHas
  <2> QED  BY <2>1, <2>2
<1>9. HostHas(tg[b - a])'
  <2>1. tg[b - a].off = Len(T) /\ tg[b - a].text = T
    BY <1>4, <1>5, <1>6
  <2>2. Len(Text') = 1
    BY DEF Text, Handshake
  <2>3. Sent' \in {0, 1}
    BY DEF Sent
  <2> HIDE DEF tg
  <2>4. stage' # "active"
    OBVIOUS
  <2> QED  BY <2>1, <2>2, <2>3, <2>4 DEF HostHas
<1>10. Len(h2t') = b - a /\ \A j \in 1..b - a : h2t'[j] = T[a + j]
  <2>1. Len(Window(T, a, b)) = b - a /\ \A j \in 1..b - a : Window(T, a, b)[j] = T[a + j]
    BY <1>1, WindowOf
  <2> QED  BY <2>1
<1> HIDE DEF s, t
<1>11. Queued(tg, 0, b - a)'
  <2>1. \A j \in 1..b - a : tg[0 + j].text[tg[0 + j].off] = T[a + j]
    BY <1>4, <1>5
  <2> HIDE DEF tg
  <2>2. \A j \in 1..b - a : h2t'[j] = tg[0 + j].text[tg[0 + j].off]
    BY <1>10, <2>1
  <2>3. b - a \in Nat /\ 0 <= b - a /\ Len(h2t') = (b - a) - 0
    BY <1>10
  <2>4. \A j \in 1..(b - a) - 0 : h2t'[j] = tg[0 + j].text[tg[0 + j].off]
    BY <2>2
  <2> QED  BY <1>5, <2>3, <2>4 DEF Queued
<1> HIDE DEF tg
<1>12. InOrder(tg, 0, b - a)'
  <2>1. \A j \in 0..b - a : GoodTag(tg[j])'
    BY <1>3, <1>5
  <2>2. \A j \in 0..(b - a) - 1 : Follows(tg[j], tg[j + 1])
    BY <1>5, <1>7
  <2> QED  BY <2>1, <2>2 DEF InOrder
<1>13. Stream(tg, 0, b - a)'
  BY <1>5, <1>8, <1>9, <1>11, <1>12 DEF Stream
<1> QED
  BY <1>13

\* A stream of nothing: the shell waits at its prompt.
LEMMA StreamIdle ==
  ASSUME TypeOK', Len(done') <= Len(issued'), line' = <<>>, h2t' = <<>>,
         stage' \in {"trigger", "alive"}, step' \in {"write", "readback", "prompt"}, sent' = 0
  PROVE  \E tg, x, y : Stream(tg, x, y)'
<1>1. Len(issued') \in Nat /\ Len(done') \in Nat
  BY Types
<1>2. PICK e : e = Len(issued')
  OBVIOUS
<1> DEFINE t == [text |-> <<"@">>, off |-> 1, i |-> e]
           tg == [k \in Nat |-> t]
<1>3. t.text = <<"@">> /\ t.off = 1 /\ t.i = e /\ Len(t.text) = 1 /\ t.text \in Plain /\ t \in Tag
  BY <1>1, <1>2, TriggerPlain DEF Tag
<1>4. 0 \in Nat /\ tg[0] = t
  OBVIOUS
<1>5. tg \in [Nat -> Tag]
  BY <1>3
<1> HIDE DEF t, tg
<1>6. GoodTag(t)' /\ ShellHas(t)'
  BY <1>1, <1>2, <1>3 DEF GoodTag, ShellHas
<1>7. HostHas(t)'
  <2>1. Len(Text') = 1
    BY DEF Text, Handshake
  <2>2. Sent' \in {0, 1}
    BY DEF Sent
  <2>3. stage' # "active"
    OBVIOUS
  <2> QED  BY <1>3, <2>1, <2>2, <2>3 DEF HostHas
<1>8. Queued(tg, 0, 0)'
  BY <1>5 DEF Queued
<1>9. InOrder(tg, 0, 0)'
  BY <1>4, <1>6 DEF InOrder
<1>10. Stream(tg, 0, 0)'
  BY <1>4, <1>6, <1>7, <1>8, <1>9 DEF Stream
<1> QED
  BY <1>10

\* What a flush leaves.
LEMMA Flushed ==
  ASSUME NEW s \in Seq(Char)
  PROVE  /\ \A q \in Prefixes(s) : \E k \in 0..Len(s) : q = SubSeq(s, 1, k)
         /\ \A q \in Suffixes(s) : NoPromptIn(s) => NoPromptIn(q)
<1>1. \A q \in Prefixes(s) : \E k \in 0..Len(s) : q = SubSeq(s, 1, k)
  BY DEF Prefixes
<1>2. ASSUME NEW q \in Suffixes(s), NoPromptIn(s) PROVE NoPromptIn(q)
  <2>1. CASE q = <<>>
    BY <2>1, NoPromptInOne
  <2>2. CASE q # <<>>
    <3>1. PICK l \in 1..Len(s) : q = SubSeq(s, l, Len(s))
      BY <1>2, <2>2 DEF Suffixes
    <3>2. Len(q) = Len(s) - l + 1 /\ \A k \in 1..Len(s) - l + 1 : q[k] = s[l + k - 1]
      BY <3>1
    <3>3. \A k \in 1..Len(s) - l + 1 : l + k - 1 \in 1..Len(s)
      OBVIOUS
    <3> QED  BY <1>2, <3>2, <3>3 DEF NoPromptIn
  <2> QED  BY <2>1, <2>2
<1> QED
  BY <1>1, <1>2

LEMMA CutOpens ==
  ASSUME TypeOK, TypeOK', Len(done) <= Len(issued), NEW T, NEW i, NEW n, NEW m,
         Cut(T, i, n, m), Host
  PROVE  \/ \E x, k, y, z, w : Halted(x, k, y, z, w)'
         \/ \E tg, x, y : Stream(tg, x, y)'
<1>1. UNCHANGED <<up, line, done>> /\ Open
  BY DriverActions, Types DEF Cut
<1>2. /\ stage' = "trigger" /\ step' = "write" /\ sent' = 0 /\ issued' = issued
      /\ t2h' \in Suffixes(t2h) /\ h2t' \in Prefixes(h2t)
  BY <1>1 DEF Open
<1>3. T \in Seq(Char) /\ Len(T) \in Nat /\ NoPromptIn(T)
  BY DueSpoken, SpokenSaid DEF Cut
<1>4. Due(T, i) /\ n \in 0..Len(T) /\ m \in 0..n /\ n <= m + 1
      /\ line = Window(T, 0, m) /\ h2t = Window(T, m, n) /\ (n > 0 => NoPromptIn(t2h))
  BY DEF Cut
<1>5. h2t \in Seq(Char) /\ t2h \in Seq(Char)
  BY Types
<1>6. PICK o \in m..n : h2t' = Window(T, m, o)
  <2>1. PICK k \in 0..Len(h2t) : h2t' = SubSeq(h2t, 1, k)
    BY <1>2, <1>5, Flushed
  <2>2. m \in 0..Len(T) /\ n \in m..Len(T)
    BY <1>3, <1>4
  <2>3. Len(h2t) = n - m
    BY <1>3, <1>4, <2>2, WindowOf
  <2>4. k \in Nat /\ k <= n - m /\ m \in Nat /\ n \in Nat /\ m <= n /\ n <= Len(T)
    BY <1>3, <1>4, <2>3
  <2>5. h2t' = Window(T, m, m + k)
    BY <1>3, <1>4, <2>1, <2>4, WindowFront
  <2>6. m + k \in m..n
    BY <2>4
  <2> QED  BY <2>5, <2>6
<1>7. o \in 0..Len(T) /\ o <= m + 1 /\ (o > 0 => n > 0) /\ m \in 0..o
  BY <1>3, <1>4
<1>8. CASE o = 0
  <2>1. m = 0
    BY <1>7, <1>8
  <2>2. line' = <<>> /\ h2t' = <<>>
    BY <1>1, <1>3, <1>4, <1>6, <1>7, <1>8, <2>1, WindowOf
  <2>3. Len(done') <= Len(issued')
    BY <1>1, <1>2
  <2> QED  BY <1>2, <2>2, <2>3, StreamIdle
<1>9. CASE o = Len(T)
  <2>1. m \in 0..Len(T) /\ o \in m..Len(T)
    BY <1>3, <1>7
  <2> QED  BY <1>1, <1>2, <1>4, <1>6, <1>7, <1>9, <2>1, StreamBegins
<1>10. CASE o # 0 /\ o # Len(T)
  <2>1. o \in 1..Len(T) - 1 /\ o \in o..o + 1 /\ m \in 0..o /\ 0 \in 0..o /\ o \in m..o /\ m \in 0..m
    BY <1>3, <1>7, <1>10
  <2>2. NoPromptIn(t2h')
    BY <1>2, <1>4, <1>5, <1>7, <2>1, Flushed
  <2>3. Window(Torn(T, o), 0, m) = Window(T, 0, m) /\ Window(Torn(T, o), m, o) = Window(T, m, o)
    BY <1>3, <2>1, TornFront
  <2>4. Due(T, i)'
    BY <1>1, <1>2, <1>4 DEF Due
  <2>5. Halted(T, i, o, m, o)'
    BY <1>1, <1>2, <1>4, <1>6, <2>1, <2>2, <2>3, <2>4 DEF Halted
  <2> QED  BY <2>5
<1> QED
  BY <1>8, <1>9, <1>10
-----------------------------------------------------------------------------
(***************************************************************************)
(* The first trigger is in the middle of a command.                        *)
(***************************************************************************)

LEMMA TriggerText ==
  /\ stage \in Handshake => Text = <<"@">> /\ Len(Text) = 1 /\ Text[1] = "@"
  /\ Len(<<"@">>) = 1
<1>1. ASSUME stage \in Handshake PROVE Text = <<"@">>
  BY <1>1 DEF Text, Handshake
<1>2. Len(<<"@">>) = 1 /\ <<"@">>[1] = "@"
  OBVIOUS
<1> QED
  BY <1>1, <1>2

LEMMA HaltedHost ==
  ASSUME TypeOK, NEW T, NEW i, NEW n, NEW m, NEW p, Halted(T, i, n, m, p), Host
  PROVE  done' = done /\ issued' = issued /\ up' = up /\ \E x, k, y, z, w : Halted(x, k, y, z, w)'
<1>1. T \in Seq(Char) /\ Len(T) \in Nat
  BY DueSpoken, SpokenSaid DEF Halted
<1>2. /\ Due(T, i) /\ n \in 1..Len(T) - 1 /\ p \in n..n + 1 /\ m \in 0..p
      /\ line = Window(Torn(T, n), 0, m) /\ h2t = Window(Torn(T, n), m, p)
      /\ sent = 0 /\ NoPromptIn(t2h)
  BY DEF Halted
<1> DEFINE U == Torn(T, n)
<1>3. U \in Seq(Char) /\ Len(U) = n + 1 /\ U[n + 1] = "@"
  BY <1>1, <1>2, TornIs
<1> HIDE DEF U
<1>4. UNCHANGED <<up, line, done>>
  BY DriverActions, Types
<1>5. stage \in {"trigger", "alive"} => Text = <<"@">> /\ Len(Text) = 1 /\ Text[1] = "@"
  BY TriggerText DEF Handshake
<1>6. CASE p = n /\ stage = "trigger" /\ step = "write"
  <2>1. Write
    BY <1>6, DriverActions
  <2>2. Text = <<"@">> /\ Text[sent + 1] = "@"
    BY <1>2, <1>5, <1>6
  <2>3. /\ h2t' = Append(h2t, "@") /\ step' = "readback"
        /\ UNCHANGED <<stage, sent, issued, t2h>>
    BY <2>1, <2>2 DEF Write
  <2>4. h2t' = Window(U, m, n + 1)
    <3>1. m \in Nat /\ n \in Nat /\ m <= n /\ n < Len(U)
      BY <1>2, <1>3, <1>6
    <3>2. Append(Window(U, m, n), U[n + 1]) = Window(U, m, n + 1)
      BY <1>3, <3>1, WindowGrows, Zenon
    <3> QED  BY <1>2, <1>3, <1>6, <2>3, <3>2 DEF U
  <2>5. n + 1 \in n..n + 1 /\ m \in 0..n + 1
    BY <1>2, <1>6
  <2>6. Due(T, i)'
    BY <1>2, <1>4, <2>3 DEF Due
  <2>7. Halted(T, i, n, m, n + 1)'
    BY <1>2, <1>4, <1>6, <2>3, <2>4, <2>5, <2>6 DEF Halted, U
  <2> QED  BY <1>4, <2>3, <2>7
<1>7. CASE p = n + 1 /\ stage = "trigger" /\ step = "readback"
  <2>1. Readback
    BY <1>7, DriverActions
  <2>2. Len(Text) = 1 /\ ~(sent + 1 < Len(Text))
    <3>1. sent = 0 /\ Len(Text) = 1
      BY <1>2, <1>5, <1>7
    <3> QED  BY <3>1
  <2>3. /\ t2h # <<>> /\ t2h' = SubSeq(t2h, 2, Len(t2h)) /\ stage' = "alive" /\ step' = "prompt"
        /\ sent' = 0 /\ UNCHANGED <<issued, h2t>>
    BY <1>7, <2>1, <2>2 DEF Readback, Consume
  <2>4. NoPromptIn(t2h')
    <3>1. t2h \in Seq(Char)
      BY Types
    <3>2. Len(t2h') = Len(t2h) - 1 /\ \A k \in 1..Len(t2h) - 1 : t2h'[k] = t2h[k + 1]
      BY <2>3, <3>1
    <3> QED  BY <1>2, <3>1, <3>2 DEF NoPromptIn
  <2>5. Due(T, i)'
    BY <1>2, <1>4, <2>3 DEF Due
  <2>6. Halted(T, i, n, m, p)'
    BY <1>2, <1>4, <1>7, <2>3, <2>4, <2>5 DEF Halted
  <2> QED  BY <1>4, <2>3, <2>6
<1>8. CASE p = n + 1 /\ stage = "alive" /\ step = "prompt"
  <2>1. WaitPrompt
    BY <1>8, DriverActions
  <2>2. PICK k \in DOMAIN t2h : PromptAt(k)
    BY <2>1 DEF WaitPrompt
  <2>3. t2h \in Seq(Char)
    BY Types
  <2>4. k \in 1..Len(t2h) /\ k + 2 <= Len(t2h) /\ SubSeq(t2h, k, k + 2)[2] = ">"
    BY <2>2, <2>3, PromptIs DEF PromptAt
  <2>5. SubSeq(t2h, k, k + 2)[2] = t2h[k + 1]
    BY <2>3, <2>4
  <2> QED  BY <1>2, <2>3, <2>4, <2>5 DEF NoPromptIn
<1> QED
  BY <1>6, <1>7, <1>8 DEF Halted

LEMMA HaltedShell ==
  ASSUME TypeOK, TypeOK', Asked, Len(done) <= Len(issued), up = TRUE,
         NEW T, NEW i, NEW n, NEW m, NEW p, Halted(T, i, n, m, p), Shell
  PROVE  /\ Asked' /\ Len(done') <= Len(issued') /\ up' = TRUE
         /\ \/ \E x, k, y, z, w : Halted(x, k, y, z, w)'
            \/ \E tg, x, y : Stream(tg, x, y)'
<1>1. ShellNext /\ UNCHANGED <<stage, step, sent, issued>>
  BY DEF Shell, hostVars
<1>2. T \in Seq(Char) /\ Len(T) \in Nat /\ NoPromptIn(T) /\ (WellFormed(T) \/ T = <<"@">>)
  BY DueSpoken, SpokenSaid DEF Halted
<1>3. /\ Due(T, i) /\ n \in 1..Len(T) - 1 /\ p \in n..n + 1 /\ m \in 0..p
      /\ line = Window(Torn(T, n), 0, m) /\ h2t = Window(Torn(T, n), m, p)
      /\ sent = 0 /\ NoPromptIn(t2h)
  BY DEF Halted
<1>4. WellFormed(T) /\ T # <<"@">>
  <2>1. T # <<"@">>
    <3>1. CASE T = <<"@">>
      <4>1. Len(T) = 1
        BY <3>1, TriggerText
      <4> QED  BY <1>3, <4>1
    <3> QED  BY <3>1
  <2> QED  BY <1>2, <2>1
<1> DEFINE U == Torn(T, n)
<1>5. U \in Seq(Char) /\ Len(U) = n + 1 /\ U[n + 1] = "@" /\ \A k \in 1..n : U[k] = T[k]
  BY <1>2, <1>3, TornIs
<1>6. line = Window(U, 0, m) /\ h2t = Window(U, m, p)
  BY <1>3
<1> HIDE DEF U
<1>7. m \in 0..Len(U) /\ p \in m..Len(U)
  BY <1>3, <1>5
<1>8. CASE Recv
  <2>1. h2t # <<>> /\ line' = Append(line, Head(h2t)) /\ h2t' = Tail(h2t) /\ up' = up /\ done' = done
    BY <1>8 DEF Recv
  <2>2. m < p /\ m + 1 \in 1..n + 1
    <3>1. m # p
      BY <1>5, <1>6, <1>7, <2>1, WindowOf
    <3> QED  BY <1>3, <1>7, <3>1
  <2>3. Head(h2t) = U[m + 1] /\ Tail(h2t) = Window(U, m + 1, p)
    <3>1. m \in Nat /\ p \in Nat /\ m < p /\ p <= Len(U)
      BY <1>3, <1>5, <1>7, <2>2
    <3> QED  BY <1>5, <1>6, <3>1, WindowTail, Zenon
  <2>4. Append(Window(U, 0, m), U[m + 1]) = Window(U, 0, m + 1)
    <3>1. 0 \in Nat /\ m \in Nat /\ 0 <= m /\ m < Len(U)
      BY <1>5, <1>7, <2>2
    <3> QED  BY <1>5, <3>1, WindowGrows, Zenon
  <2>5. Head(h2t) # ">"
    <3>1. CASE m + 1 \in 1..n
      <4>1. T[m + 1] # ">"
        BY <1>2, <1>3, <3>1 DEF NoPromptIn
      <4> QED  BY <1>5, <2>3, <3>1, <4>1
    <3>2. CASE m + 1 = n + 1
      <4>1. U[m + 1] = "@"
        BY <1>5, <3>2
      <4>2. "@" # ">"
        OBVIOUS
      <4>3. Head(h2t) = U[m + 1]
        BY <2>3
      <4> QED  BY <4>1, <4>2, <4>3, Zenon
    <3> QED  BY <1>3, <2>2, <3>1, <3>2
  <2>6. NoPromptIn(t2h')
    BY <1>3, <1>8, <2>5, EchoNoPrompt, Types
  <2>7. Due(T, i)'
    BY <1>1, <1>3, <2>1 DEF Due
  <2>8. m + 1 \in 0..p
    BY <1>3, <2>2
  <2>9. Halted(T, i, n, m + 1, p)'
    BY <1>1, <1>3, <1>6, <2>1, <2>3, <2>4, <2>6, <2>7, <2>8 DEF Halted, U
  <2>10. Asked'
    BY <1>1, <2>1, AskedStays
  <2> QED  BY <1>1, <2>1, <2>9, <2>10
<1>9. CASE ~Recv
  <2>1. /\ Complete(line) /\ line' = <<>> /\ h2t' = h2t /\ up' = up
        /\ \/ done' = done
           \/ /\ Op(line) \in Ops \ {MB, VI}
              /\ Op(line) \in BusReads \cup BusWrites => line[6] \in Widths
              /\ \E out : done' = Append(done, [acc |-> Decode(line), out |-> out])
    BY <1>1, <1>9, ShellFinishes
  <2>2. m = n + 1
    <3>1. SUFFICES ASSUME m \in 0..n PROVE FALSE
      BY <1>3
    <3>2. 0 \in 0..n /\ m \in 0..n
      BY <1>3, <3>1
    <3>3. line = Window(T, 0, m)
      BY <1>2, <1>3, <3>2, TornFront
    <3>4. m \in 0..Len(T)
      BY <1>3, <3>1
    <3>5. m = Len(T)
      BY <1>2, <2>1, <3>3, <3>4, ActsOnWhole
    <3> QED  BY <1>3, <3>1, <3>5
  <2>3. p = n + 1 /\ line = U /\ h2t = <<>>
    <3>1. p = n + 1
      BY <1>3, <2>2
    <3>2. Window(U, 0, n + 1) = U
      BY <1>5, SubSeqFull DEF Window
    <3>3. h2t = <<>>
      BY <1>5, <1>6, <1>7, <2>2, <3>1, WindowOf
    <3> QED  BY <1>6, <2>2, <3>1, <3>2, <3>3
  <2>4. Asked' /\ Len(done') <= Len(issued')
    <3>1. CASE done' = done
      BY <1>1, <3>1, AskedStays
    <3>2. CASE done' # done
      <4>1. PICK out : done' = Append(done, [acc |-> Decode(line), out |-> out])
        BY <2>1, <3>2
      <4>2. Op(T) \notin {MB, VI} /\ Like(Decode(U), Decode(T))
        BY <1>3, <1>4, <2>1, <2>3, <3>2, TornLike DEF U
      <4>3. T \notin Plain
        BY <1>4, <4>2, PlainFormed DEF Plain
      <4>4. i \in DOMAIN issued /\ T = Command(issued[i]) /\ Len(done) + 1 <= i /\ i <= Len(issued)
        BY <1>3, <4>3, Types DEF Due
      <4>5. issued[i] \in Access
        BY <4>4, Types
      <4>6. Decode(T) = Effect(issued[i])
        BY <4>4, <4>5, CommandFormed
      <4>7. Asked' /\ Len(done') = Len(done) + 1
        BY <1>1, <2>3, <4>1, <4>2, <4>4, <4>6, AskedMore
      <4> QED  BY <1>1, <4>4, <4>7, Types
    <3> QED  BY <3>1, <3>2
  <2>5. stage' \in {"trigger", "alive"} /\ step' \in {"write", "readback", "prompt"} /\ sent' = 0
    BY <1>1, <1>3 DEF Halted
  <2> QED  BY <2>1, <2>3, <2>4, <2>5, StreamIdle
<1> QED
  BY <1>8, <1>9
-----------------------------------------------------------------------------
(***************************************************************************)
(* Whole texts again.                                                      *)
(***************************************************************************)

LEMMA TagSaid ==
  ASSUME TypeOK, NEW t \in Tag, GoodTag(t)
  PROVE  /\ t.text \in Seq(Char) /\ Len(t.text) \in Nat /\ t.i \in Nat /\ t.i <= Len(issued)
         /\ t.off \in 1..Len(t.text) /\ NoPromptIn(t.text)
         /\ WellFormed(t.text) \/ t.text = <<"@">>
         /\ t.text \in Plain \/ (t.i \in 1..Len(issued) /\ t.text = Command(issued[t.i]))
<1>1. t.text \in Seq(Char) /\ Len(t.text) \in Nat /\ t.i \in Nat /\ t.off \in Nat
  BY DEF Tag
<1>2. t.i <= Len(issued) /\ t.off \in 1..Len(t.text)
  BY <1>1 DEF GoodTag
<1>3. t.text \in Plain \/ (t.i \in 1..Len(issued) /\ t.text = Command(issued[t.i]))
  BY <1>1, <1>2, Types DEF GoodTag
<1>4. Spoken(t.text)
  BY <1>3, Types DEF Spoken
<1> QED
  BY <1>1, <1>2, <1>3, <1>4, SpokenSaid

\* The shell takes the next character of a text, or the first of the next text.
LEMMA StreamRead ==
  ASSUME TypeOK, NEW s \in Tag, NEW t \in Tag, GoodTag(s), GoodTag(t), Follows(s, t),
         ShellHas(s), h2t # <<>>, Head(h2t) = t.text[t.off], Recv, issued' = issued
  PROVE  /\ ShellHas(t)' /\ h2t' = Tail(h2t) /\ up' = up /\ done' = done
<1>1. /\ s.text \in Seq(Char) /\ Len(s.text) \in Nat /\ s.i \in Nat /\ s.off \in 1..Len(s.text)
      /\ WellFormed(s.text) \/ s.text = <<"@">>
  BY TagSaid
<1>2. /\ t.text \in Seq(Char) /\ Len(t.text) \in Nat /\ t.i \in Nat /\ t.off \in 1..Len(t.text)
      /\ WellFormed(t.text) \/ t.text = <<"@">>
  BY TagSaid
<1>3. ShellNext /\ ~Complete(line) /\ t2h \in Seq(Char) /\ Len(done) \in Nat
  BY Types DEF Recv, ShellNext
<1>4. ASSUME NEW n \in 0..Len(t.text) - 1, line = SubSeq(t.text, 1, n), t.off = n + 1,
             Len(done) + (IF t.text \in Plain THEN 0 ELSE 1) <= t.i
      PROVE  /\ ShellHas(t)' /\ h2t' = Tail(h2t) /\ up' = up /\ done' = done
  <2>1. /\ line' = SubSeq(t.text, 1, n + 1) /\ line' = Append(line, t.text[n + 1])
        /\ h2t' = Tail(h2t) /\ up' = up /\ done' = done
    BY <1>2, <1>3, <1>4, ShellReads
  <2>2. line' # <<>>
    <3>1. line \in Seq(Char) /\ t.text[n + 1] \in Char
      BY <1>2, Types
    <3>2. Append(line, t.text[n + 1]) # <<>>
      BY <3>1
    <3> QED  BY <2>1, <3>2
  <2>3. line' = Window(t.text, 0, t.off)
    BY <1>4, <2>1 DEF Window
  <2> QED  BY <1>4, <2>1, <2>2, <2>3 DEF ShellHas
<1>5. CASE line = <<>>
  <2>1. s.off = Len(s.text) /\ Len(done) <= s.i
    BY <1>5 DEF ShellHas
  <2>2. t.off = 1 /\ t.i >= s.i /\ (t.text \notin Plain => t.i > s.i)
    BY <1>1, <1>2, <2>1 DEF Follows
  <2>3. 0 \in 0..Len(t.text) - 1 /\ line = SubSeq(t.text, 1, 0) /\ t.off = 0 + 1
    BY <1>2, <1>5, <2>2
  <2>4. Len(done) + (IF t.text \in Plain THEN 0 ELSE 1) <= t.i
    BY <1>1, <1>2, <1>3, <2>1, <2>2
  <2> QED  BY <1>4, <2>3, <2>4
<1>6. CASE line # <<>>
  <2>1. line = Window(s.text, 0, s.off) /\ Len(done) + (IF s.text \in Plain THEN 0 ELSE 1) <= s.i
    BY <1>6 DEF ShellHas
  <2>2. s.off # Len(s.text)
    <3>1. SUFFICES ASSUME s.off = Len(s.text) PROVE FALSE
      OBVIOUS
    <3>2. Window(s.text, 0, s.off) = s.text
      BY <1>1, <3>1, SubSeqFull DEF Window
    <3> QED  BY <1>1, <1>3, <2>1, <3>2, WholeIsComplete
  <2>3. t.text = s.text /\ t.i = s.i /\ t.off = s.off + 1
    BY <2>2 DEF Follows
  <2>4. s.off \in 0..Len(t.text) - 1 /\ line = SubSeq(t.text, 1, s.off)
    BY <1>1, <2>1, <2>2, <2>3 DEF Window
  <2> QED  BY <1>4, <2>1, <2>3, <2>4
<1> QED
  BY <1>5, <1>6

\* The shell carries a text out.
LEMMA StreamDone ==
  ASSUME TypeOK, TypeOK', Asked, NEW t \in Tag, GoodTag(t), ShellHas(t), Shell, ~Recv
  PROVE  /\ ShellHas(t)' /\ h2t' = h2t /\ up' = up
         /\ Asked' /\ Len(done') <= Len(issued')
<1>1. ShellNext /\ issued' = issued
  BY DEF Shell, hostVars
<1>2. /\ t.text \in Seq(Char) /\ Len(t.text) \in Nat /\ t.i \in Nat /\ t.i <= Len(issued)
      /\ t.off \in 1..Len(t.text)
      /\ WellFormed(t.text) \/ t.text = <<"@">>
      /\ t.text \in Plain \/ (t.i \in 1..Len(issued) /\ t.text = Command(issued[t.i]))
  BY TagSaid
<1>3. Complete(line) /\ line # <<>>
  BY <1>1, ShellFinishes, TriggerActs
<1>4. line = Window(t.text, 0, t.off) /\ Len(done) + (IF t.text \in Plain THEN 0 ELSE 1) <= t.i
  BY <1>3 DEF ShellHas
<1>5. t.off = Len(t.text) /\ line = t.text
  <2>1. t.off \in 0..Len(t.text) /\ Complete(Window(t.text, 0, t.off))
    BY <1>2, <1>3, <1>4
  <2>2. t.off = Len(t.text) /\ Window(t.text, 0, t.off) = t.text
    BY <1>2, <2>1, ActsOnWhole
  <2> QED  BY <1>4, <2>2
<1>6. /\ line' = <<>> /\ h2t' = h2t /\ up' = up /\ Asked'
      /\ Len(done') = Len(done) + (IF t.text \in Plain THEN 0 ELSE 1)
  BY <1>2, <1>5, TextDone
<1>7. Len(done') <= t.i /\ Len(done') \in Nat /\ Len(issued) \in Nat
  BY <1>4, <1>6, Types
<1>8. Len(done') <= Len(issued')
  BY <1>1, <1>2, <1>7
<1> QED
  BY <1>5, <1>6, <1>7, <1>8 DEF ShellHas

LEMMA StreamShell ==
  ASSUME TypeOK, TypeOK', Asked, Len(done) <= Len(issued), up = TRUE,
         NEW tg, NEW b, NEW c, Stream(tg, b, c), Shell
  PROVE  /\ Asked' /\ Len(done') <= Len(issued') /\ up' = TRUE
         /\ \E x, y, z : Stream(x, y, z)'
<1>1. ShellNext /\ UNCHANGED <<stage, step, req, sent, issued>>
  BY DEF Shell, hostVars
<1>2. /\ tg \in [Nat -> Tag] /\ b \in Nat /\ c \in Nat /\ b <= c /\ Len(h2t) = c - b
      /\ \A j \in 1..c - b : h2t[j] = tg[b + j].text[tg[b + j].off]
      /\ \A j \in b..c : GoodTag(tg[j])
      /\ \A j \in b..c - 1 : Follows(tg[j], tg[j + 1])
      /\ stage # "off" /\ ShellHas(tg[b]) /\ HostHas(tg[c])
  BY DEF Stream, Queued, InOrder
<1>3. HostHas(tg[c])'
  <2>1. Text' = Text
    BY <1>1 DEF Text
  <2> QED  BY <1>1, <1>2, <2>1 DEF HostHas, Sent
<1>4. \A j \in b..c : GoodTag(tg[j])'
  BY <1>1, <1>2 DEF GoodTag
<1>5. tg[b] \in Tag /\ GoodTag(tg[b])
  BY <1>2
<1>6. CASE Recv
  <2>1. h2t # <<>> /\ h2t \in Seq(Char)
    BY <1>6, Types DEF Recv
  <2>2. b < c /\ Head(h2t) = h2t[1]
    <3>1. Len(h2t) # 0
      BY <2>1
    <3> QED  BY <1>2, <2>1, <3>1
  <2>3. Head(h2t) = tg[b + 1].text[tg[b + 1].off]
    <3>1. 1 \in 1..c - b
      BY <1>2, <2>2
    <3> QED  BY <1>2, <2>2, <3>1
  <2>4. tg[b + 1] \in Tag /\ GoodTag(tg[b + 1]) /\ Follows(tg[b], tg[b + 1])
    <3>1. b + 1 \in Nat /\ b + 1 \in b..c /\ b \in b..c - 1
      BY <1>2, <2>2
    <3> QED  BY <1>2, <3>1
  <2>5. ShellHas(tg[b + 1])' /\ h2t' = Tail(h2t) /\ up' = up /\ done' = done
    BY <1>1, <1>2, <1>5, <1>6, <2>1, <2>3, <2>4, StreamRead
  <2>6. Queued(tg, b + 1, c)'
    <3>1. b + 1 \in Nat /\ b + 1 <= c /\ Len(h2t') = c - (b + 1)
      BY <1>2, <2>1, <2>2, <2>5
    <3>2. ASSUME NEW j \in 1..c - (b + 1)
          PROVE  h2t'[j] = tg[(b + 1) + j].text[tg[(b + 1) + j].off]
      <4>1. h2t'[j] = h2t[j + 1]
        BY <1>2, <2>1, <2>2, <2>5, <3>1
      <4>2. j + 1 \in 1..c - b /\ b + (j + 1) = (b + 1) + j
        <5>1. b \in Nat /\ c \in Nat /\ j \in Int /\ 1 <= j /\ j <= c - (b + 1)
          BY <1>2
        <5> QED  BY <5>1
      <4>3. h2t[j + 1] = tg[b + (j + 1)].text[tg[b + (j + 1)].off]
        BY <1>2, <4>2
      <4> QED  BY <4>1, <4>2, <4>3
    <3> QED  BY <1>2, <3>1, <3>2 DEF Queued
  <2>7. InOrder(tg, b + 1, c)'
    <3>1. \A j \in b + 1..c : GoodTag(tg[j])'
      BY <1>2, <1>4
    <3>2. \A j \in b + 1..c - 1 : Follows(tg[j], tg[j + 1])
      BY <1>2
    <3> QED  BY <3>1, <3>2 DEF InOrder
  <2>8. Stream(tg, b + 1, c)'
    BY <1>1, <1>2, <1>3, <2>5, <2>6, <2>7 DEF Stream
  <2>9. Asked'
    BY <1>1, <2>5, AskedStays
  <2> QED  BY <1>1, <2>5, <2>8, <2>9
<1>7. CASE ~Recv
  <2>1. /\ ShellHas(tg[b])' /\ h2t' = h2t /\ up' = up
        /\ Asked' /\ Len(done') <= Len(issued')
    BY <1>2, <1>5, <1>7, StreamDone
  <2>2. Queued(tg, b, c)'
    BY <1>2, <2>1 DEF Queued
  <2>3. InOrder(tg, b, c)'
    BY <1>2, <1>4 DEF InOrder
  <2>4. Stream(tg, b, c)'
    BY <1>1, <1>2, <1>3, <2>1, <2>2, <2>3 DEF Stream
  <2> QED  BY <2>1, <2>4
<1> QED
  BY <1>6, <1>7

\* The driver reads, or begins an access, and sends nothing.
LEMMA StreamKept ==
  ASSUME TypeOK, NEW tg, NEW b, NEW c, Stream(tg, b, c), UNCHANGED <<line, done, h2t>>,
         issued' = issued \/ \E r \in Access : issued' = Append(issued, r),
         stage' # "off", HostHas(tg[c])'
  PROVE  Stream(tg, b, c)'
<1>1. /\ tg \in [Nat -> Tag] /\ b \in Nat /\ c \in Nat /\ b <= c
      /\ \A j \in b..c : GoodTag(tg[j])
      /\ \A j \in b..c - 1 : Follows(tg[j], tg[j + 1])
      /\ ShellHas(tg[b]) /\ Queued(tg, b, c)
  BY DEF Stream, Queued, InOrder
<1>2. /\ Len(issued') >= Len(issued) /\ Len(issued') \in Nat
      /\ \A k \in DOMAIN issued : k \in DOMAIN issued' /\ issued'[k] = issued[k]
  BY Types
<1>3. ASSUME NEW j \in b..c PROVE GoodTag(tg[j])'
  <2>1. tg[j] \in Tag /\ GoodTag(tg[j])
    <3>1. j \in Nat
      BY <1>1
    <3> QED  BY <1>1, <3>1
  <2>2. /\ tg[j].i <= Len(issued') /\ tg[j].off \in 1..Len(tg[j].text)
        /\ tg[j].text \in Plain
           \/ (tg[j].i \in 1..Len(issued) /\ tg[j].text = Command(issued[tg[j].i]))
    BY <1>2, <2>1, TagSaid, Types
  <2>3. tg[j].text \in Plain \/ (tg[j].i > 0 /\ tg[j].text = Command(issued'[tg[j].i]))
    BY <1>2, <2>2, Types
  <2> QED  BY <2>2, <2>3 DEF GoodTag
<1>4. InOrder(tg, b, c)'
  BY <1>1, <1>3 DEF InOrder
<1>5. Queued(tg, b, c)' /\ ShellHas(tg[b])'
  BY <1>1 DEF Queued, ShellHas
<1> QED
  BY <1>4, <1>5 DEF Stream

\* The tag of the character that the driver sends.
LEMMA NextTag ==
  ASSUME TypeOK, NEW t \in Tag, GoodTag(t), HostHas(t), step = "write", stage # "off"
  PROVE  \E u \in Tag :
           /\ GoodTag(u) /\ Follows(t, u) /\ u.text = Text /\ u.off = sent + 1
<1>1. HostTypeOK /\ stage \in Stages /\ sent \in 0..Len(Text) - 1 /\ Len(issued) \in Nat
      /\ DOMAIN issued = 1..Len(issued)
  BY Types DEF TypeOK
<1>2. /\ Text \in Seq(Char) /\ Len(Text) >= 1
      /\ stage \in Handshake => Text = <<"@">>
      /\ stage = "version" => Text = <<"*", "v", "i">>
      /\ stage = "mainboard" => Text = <<"*", "m", "b">>
      /\ stage = "active" => req \in Access /\ Text = Command(req)
  BY <1>1, TextFormed
<1>3. PICK T : T = Text
  OBVIOUS
<1>4. T \in Seq(Char) /\ Len(T) \in Nat /\ sent \in Nat /\ sent + 1 <= Len(T)
  BY <1>1, <1>2, <1>3
<1>5. /\ t.text \in Seq(Char) /\ Len(t.text) \in Nat /\ t.i \in Nat /\ t.i <= Len(issued)
      /\ t.off \in 1..Len(t.text)
  BY TagSaid
<1>6. CASE sent = 0
  <2> DEFINE u == [text |-> T, off |-> 1, i |-> Len(issued)]
  <2>1. u \in Tag /\ u.text = T /\ u.off = 1 /\ u.i = Len(issued)
    BY <1>1, <1>4 DEF Tag
  <2> HIDE DEF u
  <2>2. T \in Plain \/ stage = "active"
    <3>1. stage \in Handshake \/ stage = "version" \/ stage = "mainboard" \/ stage = "active"
      BY <1>1 DEF Stages
    <3> QED  BY <1>2, <1>3, <3>1 DEF Plain
  <2>3. stage = "active" => issued # <<>> /\ req = issued[Len(issued)] /\ t.i < Len(issued)
    BY <1>6 DEF HostHas
  <2>4. stage = "active" => Len(issued) > 0 /\ T = Command(issued[Len(issued)])
    <3>1. stage = "active" => Len(issued) # 0
      BY <2>3, Types
    <3> QED  BY <1>1, <1>2, <1>3, <2>3, <3>1
  <2>5. t.off = Len(t.text)
    BY <1>6 DEF HostHas, Sent
  <2>6. GoodTag(u)
    BY <1>1, <1>4, <2>1, <2>2, <2>4 DEF GoodTag
  <2>7. Follows(t, u)
    BY <1>1, <1>5, <2>1, <2>2, <2>3, <2>5 DEF Follows
  <2> QED  BY <1>3, <1>6, <2>1, <2>6, <2>7
<1>7. CASE sent # 0
  <2> DEFINE u == [text |-> T, off |-> sent + 1, i |-> t.i]
  <2>1. u \in Tag /\ u.text = T /\ u.off = sent + 1 /\ u.i = t.i
    BY <1>4, <1>5 DEF Tag
  <2> HIDE DEF u
  <2>2. t.text = T /\ t.off = sent
    <3>1. Sent = sent /\ 0 < Sent /\ Sent < Len(Text)
      BY <1>3, <1>4, <1>7 DEF Sent
    <3> QED  BY <1>3, <3>1 DEF HostHas
  <2>3. GoodTag(u)
    BY <1>4, <1>5, <2>1, <2>2 DEF GoodTag
  <2>4. Follows(t, u)
    BY <2>1, <2>2 DEF Follows
  <2> QED  BY <1>3, <2>1, <2>3, <2>4
<1> QED
  BY <1>6, <1>7

LEMMA StreamWrites ==
  ASSUME TypeOK, NEW tg, NEW b, NEW c, Stream(tg, b, c), UNCHANGED <<line, done>>,
         step = "write", Write
  PROVE  \E x, y, z : Stream(x, y, z)'
<1>1. /\ tg \in [Nat -> Tag] /\ b \in Nat /\ c \in Nat /\ b <= c /\ Len(h2t) = c - b
      /\ \A j \in 1..c - b : h2t[j] = tg[b + j].text[tg[b + j].off]
      /\ \A j \in b..c : GoodTag(tg[j])
      /\ \A j \in b..c - 1 : Follows(tg[j], tg[j + 1])
      /\ stage # "off" /\ ShellHas(tg[b]) /\ HostHas(tg[c])
  BY DEF Stream, Queued, InOrder
<1>2. /\ h2t' = Append(h2t, Text[sent + 1]) /\ step' = "readback"
      /\ UNCHANGED <<stage, req, sent, issued>>
  BY DEF Write
<1>3. PICK u \in Tag : GoodTag(u) /\ Follows(tg[c], u) /\ u.text = Text /\ u.off = sent + 1
  <2>1. tg[c] \in Tag /\ GoodTag(tg[c])
    BY <1>1
  <2> QED  BY <1>1, <2>1, NextTag
<1> DEFINE th == [tg EXCEPT ![c + 1] = u]
<1>4. /\ th \in [Nat -> Tag] /\ th[c + 1] = u /\ \A j \in Nat : j # c + 1 => th[j] = tg[j]
      /\ c + 1 \in Nat
  BY <1>1
<1> HIDE DEF th
<1>5. \A j \in b..c : j \in Nat /\ j # c + 1 /\ th[j] = tg[j]
  BY <1>1, <1>4
<1>6. Text' = Text /\ sent \in Nat /\ Len(Text) \in Nat /\ sent + 1 <= Len(Text)
  <2>1. Text' = Text
    BY <1>2 DEF Text
  <2>2. u.text \in Seq(Char) /\ u.off \in 1..Len(u.text)
    BY <1>3, TagSaid
  <2>3. sent \in Nat
    BY Types
  <2>4. Len(Text) \in Nat /\ sent + 1 \in 1..Len(Text)
    BY <1>3, <2>2
  <2> QED  BY <2>1, <2>3, <2>4
<1>7. HostHas(u)'
  <2>1. Sent' = sent + 1
    BY <1>2 DEF Sent
  <2>2. IF 0 < Sent' /\ Sent' < Len(Text') THEN u.text = Text' /\ u.off = Sent'
        ELSE u.off = Len(u.text)
    BY <1>3, <1>6, <2>1
  <2>3. stage' = "active" /\ step' # "idle" => issued' # <<>> /\ req' = issued'[Len(issued')]
    <3>1. stage = "active" => issued # <<>> /\ req = issued[Len(issued)]
      BY <1>1 DEF HostHas
    <3> QED  BY <1>2, <3>1
  <2> QED  BY <1>2, <2>2, <2>3 DEF HostHas
<1>8. Queued(th, b, c + 1)'
  <2>1. h2t \in Seq(Char) /\ Text[sent + 1] \in Char
    <3>1. Text \in Seq(Char)
      BY <1>3 DEF Tag
    <3> QED  BY <1>6, <3>1, Types
  <2>2. Len(h2t') = (c + 1) - b /\ h2t'[c - b + 1] = Text[sent + 1]
        /\ \A j \in 1..c - b : h2t'[j] = h2t[j]
    BY <1>1, <1>2, <2>1
  <2>3. ASSUME NEW j \in 1..(c + 1) - b
        PROVE  h2t'[j] = th[b + j].text[th[b + j].off]
    <3>1. CASE j = (c + 1) - b
      <4>1. b + j = c + 1 /\ j = c - b + 1
        BY <1>1, <3>1
      <4> QED  BY <1>3, <1>4, <2>2, <4>1
    <3>2. CASE j # (c + 1) - b
      <4>1. j \in 1..c - b /\ b + j \in b..c
        BY <1>1, <3>2
      <4> QED  BY <1>1, <1>5, <2>2, <4>1
    <3> QED  BY <3>1, <3>2
  <2>4. c + 1 \in Nat /\ b <= c + 1
    BY <1>1
  <2> QED  BY <1>1, <1>4, <2>2, <2>3, <2>4 DEF Queued
<1>9. InOrder(th, b, c + 1)'
  <2>1. ASSUME NEW j \in b..c + 1 PROVE GoodTag(th[j])'
    <3>1. GoodTag(th[j])
      <4>1. CASE j = c + 1
        BY <1>3, <1>4, <4>1
      <4>2. CASE j # c + 1
        <5>1. j \in b..c
          BY <1>1, <4>2
        <5> QED  BY <1>1, <1>5, <5>1
      <4> QED  BY <4>1, <4>2
    <3> QED  BY <1>2, <3>1 DEF GoodTag
  <2>2. ASSUME NEW j \in b..(c + 1) - 1 PROVE Follows(th[j], th[j + 1])
    <3>1. CASE j = c
      BY <1>1, <1>3, <1>4, <1>5, <3>1
    <3>2. CASE j # c
      <4>1. j \in b..c - 1 /\ j \in b..c /\ j + 1 \in b..c
        BY <1>1, <3>2
      <4> QED  BY <1>1, <1>5, <4>1
    <3> QED  BY <3>1, <3>2
  <2> QED  BY <2>1, <2>2 DEF InOrder
<1>10. ShellHas(th[b])'
  <2>1. th[b] = tg[b]
    BY <1>1, <1>5
  <2> QED  BY <1>1, <2>1 DEF ShellHas
<1>11. Stream(th, b, c + 1)'
  BY <1>1, <1>2, <1>4, <1>7, <1>8, <1>9, <1>10 DEF Stream
<1> QED
  BY <1>11

LEMMA StreamHost ==
  ASSUME TypeOK, TypeOK', NEW tg, NEW b, NEW c, Stream(tg, b, c), Host
  PROVE  /\ UNCHANGED <<up, line, done>>
         /\ issued' = issued \/ \E r \in Access : issued' = Append(issued, r)
         /\ \E x, y, z : Stream(x, y, z)'
<1>1. /\ stage # "off" /\ step \in Steps
      /\ tg[c] \in Tag /\ GoodTag(tg[c]) /\ HostHas(tg[c])
  BY Types DEF Stream, Queued, InOrder
<1>2. PICK t \in Tag : t = tg[c]
  BY <1>1
<1>3. GoodTag(t) /\ HostHas(t)
  BY <1>1, <1>2
<1>4. /\ t.i \in Nat /\ t.i <= Len(issued) /\ Len(issued) \in Nat
  BY <1>3, TagSaid, Types
<1>5. /\ UNCHANGED <<up, line, done>>
      /\ step = "write" => Write
      /\ step = "readback" => Readback
      /\ step = "reply" => (stage = "version" /\ GetVersion) \/ (stage = "mainboard" /\ GetMainboard)
                           \/ (stage = "active" /\ Return)
      /\ step = "prompt" => WaitPrompt
      /\ step = "idle" => \E r \in Access : Issue(r)
  BY <1>1, DriverActions
<1>6. ASSUME stage' # "off", h2t' = h2t, HostHas(t)',
             issued' = issued \/ \E r \in Access : issued' = Append(issued, r)
      PROVE  \E x, y, z : Stream(x, y, z)'
  <2>1. HostHas(tg[c])'
    BY <1>2, <1>6
  <2>2. Stream(tg, b, c)'
    BY <1>5, <1>6, <2>1, StreamKept
  <2> QED  BY <2>2
<1>7. step \notin {"write", "readback"} => t.off = Len(t.text)
  BY <1>3 DEF HostHas, Sent
<1>8. step' \notin {"write", "readback"} \/ (step' = "write" /\ sent' = 0) => Sent' = 0
  BY DEF Sent
<1>9. stage = "active" /\ step # "idle" => issued # <<>> /\ req = issued[Len(issued)]
  BY <1>3 DEF HostHas
<1>15. issued' = issued \/ \E r \in Access : issued' = Append(issued, r)
  BY <1>1, <1>5 DEF Steps, Write, Readback, WaitPrompt, GetVersion, GetMainboard, Return, Issue
<1> SUFFICES \E x, y, z : Stream(x, y, z)'
  BY <1>5, <1>15
<1>10. CASE step = "write"
  BY <1>5, <1>10, StreamWrites DEF Write
<1>11. CASE step = "readback"
  <2>1. Readback
    BY <1>5, <1>11
  <2>2. UNCHANGED <<req, issued, h2t>> /\ sent \in Nat
    BY <2>1, Types DEF Readback
  <2>3. CASE sent + 1 < Len(Text)
    <3>1. step' = "write" /\ sent' = sent + 1 /\ stage' = stage
      BY <2>1, <2>3 DEF Readback
    <3>2. Text' = Text /\ Sent' = sent + 1 /\ Sent = sent + 1
      BY <1>11, <2>2, <3>1 DEF Text, Sent
    <3>3. t.text = Text /\ t.off = sent + 1
      BY <1>3, <2>2, <2>3, <3>2 DEF HostHas
    <3>4. IF 0 < Sent' /\ Sent' < Len(Text') THEN t.text = Text' /\ t.off = Sent'
          ELSE t.off = Len(t.text)
      BY <2>2, <2>3, <3>2, <3>3
    <3>5. sent' # 0
      BY <2>2, <3>1
    <3>6. HostHas(t)'
      BY <1>9, <1>11, <2>2, <3>1, <3>4, <3>5 DEF HostHas
    <3> QED  BY <1>1, <1>6, <2>2, <3>1, <3>6
  <2>4. CASE ~(sent + 1 < Len(Text))
    <3>1. /\ sent' = 0 /\ stage' # "off" /\ step' \in {"prompt", "reply"}
          /\ stage' = "active" => stage = "active" /\ step' = "reply"
      BY <1>1, <2>1, <2>4 DEF Readback
    <3>2. t.off = Len(t.text)
      <4>1. ~(Sent < Len(Text))
        BY <1>11, <2>4 DEF Sent
      <4> QED  BY <1>3, <4>1 DEF HostHas
    <3>3. Sent' = 0
      BY <1>8, <3>1
    <3>4. HostHas(t)'
      BY <1>9, <1>11, <2>2, <3>1, <3>2, <3>3 DEF HostHas
    <3> QED  BY <1>6, <2>2, <3>1, <3>4
  <2> QED  BY <2>3, <2>4
<1>12. CASE step = "prompt"
  <2>1. /\ step' = "write" /\ sent' = sent /\ UNCHANGED <<req, issued, h2t>> /\ stage' # "off"
        /\ stage' = "active" => stage = "active"
    BY <1>1, <1>5, <1>12 DEF WaitPrompt
  <2>2. Sent' = 0
    BY <1>8, <1>12, <2>1, Types
  <2>3. stage = "active" => t.i < Len(issued)
    BY <1>3, <1>12 DEF HostHas
  <2>4. HostHas(t)'
    BY <1>7, <1>9, <1>12, <2>1, <2>2, <2>3 DEF HostHas
  <2> QED  BY <1>6, <2>1, <2>4
<1>13. CASE step = "reply"
  <2>1. /\ UNCHANGED <<req, issued, h2t>> /\ stage' # "off"
        /\ (stage' = "mainboard" /\ step' = "prompt") \/ step' = "idle"
    BY <1>1, <1>5, <1>13 DEF GetVersion, GetMainboard, Return
  <2>2. Sent' = 0
    BY <1>8, <2>1
  <2>3. HostHas(t)'
    BY <1>7, <1>13, <2>1, <2>2 DEF HostHas
  <2> QED  BY <1>6, <2>1, <2>3
<1>14. CASE step = "idle"
  <2>1. PICK r \in Access : Issue(r)
    BY <1>5, <1>14
  <2>2. /\ req' = r /\ issued' = Append(issued, r) /\ step' = "prompt" /\ stage' = stage
        /\ h2t' = h2t
    BY <2>1 DEF Issue
  <2>3. Len(issued') = Len(issued) + 1 /\ issued' # <<>> /\ req' = issued'[Len(issued')]
    <3>1. issued \in Seq(Access)
      BY Types
    <3> QED  BY <2>2, <3>1
  <2>4. t.i < Len(issued')
    BY <1>4, <2>3
  <2>5. Sent' = 0
    BY <1>8, <2>2
  <2>6. HostHas(t)'
    BY <1>7, <1>14, <2>2, <2>3, <2>4, <2>5 DEF HostHas
  <2> QED  BY <1>1, <1>6, <2>2, <2>6
<1> QED
  BY <1>1, <1>10, <1>11, <1>12, <1>13, <1>14 DEF Steps

-----------------------------------------------------------------------------
(***************************************************************************)
(* The invariant.                                                          *)
(***************************************************************************)

LEMMA KillBegins ==
  ASSUME WarmInit
  PROVE  KillInv
<1>1. /\ h2t = <<>> /\ t2h = <<>> /\ line = <<>> /\ up = TRUE /\ done = <<>>
      /\ stage = "off" /\ step = "idle" /\ sent = 0 /\ issued = <<>> /\ log = <<>> /\ kills = 0
  BY DEF WarmInit, Quiet, AtPrompt, HostInit
<1>2. TypeOK
  BY TypeInit DEF AnyInit
<1>3. Off /\ Recorded /\ Reachable
  BY <1>1 DEF Off, Line, Recorded, Reachable
<1>4. Lockstep
  BY <1>1, <1>3 DEF Lockstep
<1>5. Asked /\ Len(done) <= Len(issued)
  BY <1>2, <1>4, LockstepAsked
<1> QED
  BY <1>1, <1>2, <1>4, <1>5 DEF KillInv

LEMMA KillStutters ==
  ASSUME KillInv, UNCHANGED vars
  PROVE  KillInv'
<1>1. /\ UNCHANGED <<h2t, t2h, up, line, done, stage, step, req, sent, warned, issued, log, kills>>
      /\ TypeOK'
  BY TypeStep DEF KillInv, vars, shellVars, hostVars
<1>2. Text' = Text
  BY <1>1 DEF Text
<1>3. Sent' = Sent
  BY <1>1 DEF Sent
<1>4. Asked' /\ Len(done') <= Len(issued')
  BY <1>1 DEF KillInv, Asked
<1>5. Lockstep => Lockstep'
  BY LockstepStays
<1>6. \A T, i : Due(T, i) => Due(T, i)'
  BY <1>1 DEF Due
<1>7. \A T, i, n, m : Cut(T, i, n, m) => Cut(T, i, n, m)'
  BY <1>1, <1>6 DEF Cut
<1>8. \A T, i, n, m, p : Halted(T, i, n, m, p) => Halted(T, i, n, m, p)'
  BY <1>1, <1>6 DEF Halted
<1>9. \A t : GoodTag(t) => GoodTag(t)'
  BY <1>1 DEF GoodTag
<1>10. \A t : ShellHas(t) => ShellHas(t)'
  BY <1>1 DEF ShellHas
<1>11. \A t : HostHas(t) => HostHas(t)'
  BY <1>1, <1>2, <1>3 DEF HostHas
<1>12. ASSUME NEW tg, NEW b, NEW c, Stream(tg, b, c) PROVE Stream(tg, b, c)'
  <2>1. Queued(tg, b, c)'
    BY <1>1, <1>12 DEF Stream, Queued
  <2>2. InOrder(tg, b, c)'
    BY <1>9, <1>12 DEF Stream, InOrder
  <2> QED  BY <1>1, <1>10, <1>11, <1>12, <2>1, <2>2 DEF Stream
<1>13. kills' = kills
  BY <1>1
<1>14. CASE kills = 0 /\ Lockstep
  BY <1>1, <1>4, <1>5, <1>14 DEF KillInv
<1>15. CASE kills = 1 /\ \E T, i, n, m : Cut(T, i, n, m)
  <2>1. \E T, i, n, m : Cut(T, i, n, m)'
    BY <1>7, <1>15
  <2> QED  BY <1>1, <1>4, <1>15, <2>1 DEF KillInv
<1>16. CASE kills = 1 /\ \E T, i, n, m, p : Halted(T, i, n, m, p)
  <2>1. \E T, i, n, m, p : Halted(T, i, n, m, p)'
    BY <1>8, <1>16
  <2> QED  BY <1>1, <1>4, <1>16, <2>1 DEF KillInv
<1>17. CASE kills = 1 /\ \E tg, b, c : Stream(tg, b, c)
  <2>1. \E tg, b, c : Stream(tg, b, c)'
    BY <1>12, <1>17
  <2> QED  BY <1>1, <1>4, <1>17, <2>1 DEF KillInv
<1> QED
  BY <1>14, <1>15, <1>16, <1>17 DEF KillInv

LEMMA KillStep ==
  ASSUME MaxKills <= 1, KillInv, [Session \/ KillHost]_vars
  PROVE  KillInv'
<1>1. TypeOK /\ up = TRUE /\ Asked /\ Len(done) <= Len(issued) /\ kills \in 0..MaxKills
  BY DEF KillInv, TypeOK
<1>2. TypeOK'
  BY <1>1, TypeStep DEF Next
<1>3. CASE Session /\ kills = 0
  <2>1. kills' = 0 /\ Inv
    BY <1>3 DEF KillInv, Inv, Session, Shell, Host
  <2>2. Lockstep'
    BY <1>3, <2>1, ShellStep, HostStep DEF Session
  <2>3. Asked' /\ Len(done') <= Len(issued') /\ up' = TRUE
    <3>1. Recorded' /\ up' = TRUE
      <4>1. up' \in BOOLEAN
        BY <1>2 DEF TypeOK, ShellTypeOK
      <4> QED  BY <2>2, <4>1 DEF Lockstep
    <3>2. /\ Len(done') \in Nat /\ DOMAIN done' = 1..Len(done')
          /\ Len(issued') \in Nat /\ DOMAIN issued' = 1..Len(issued')
      <4>1. \E S : done' \in Seq(S)
        BY <1>2 DEF TypeOK, ShellTypeOK
      <4>2. issued' \in Seq(Access)
        BY <1>2 DEF TypeOK, HostTypeOK
      <4> QED  BY <4>1, <4>2
    <3>3. \A i \in DOMAIN done' : i \in DOMAIN issued' /\ done'[i].acc = Effect(issued'[i])
      BY <3>1, <3>2 DEF Recorded
    <3>4. Asked'
      BY <3>3, LikeSelf DEF Asked
    <3> QED  BY <3>1, <3>4 DEF Recorded
  <2> QED  BY <1>2, <2>1, <2>2, <2>3 DEF KillInv
<1>4. CASE Session /\ kills = 1 /\ \E T, i, n, m : Cut(T, i, n, m)
  <2>1. PICK T, i, n, m : Cut(T, i, n, m)
    BY <1>4
  <2>2. kills' = 1
    BY <1>4 DEF Session, Shell, Host
  <2>3. CASE Shell
    <3>1. /\ Asked' /\ Len(done') <= Len(issued') /\ up' = TRUE
          /\ \E x, k, y, z : Cut(x, k, y, z)'
      BY <1>1, <1>2, <2>1, <2>3, CutShell
    <3> QED  BY <1>2, <2>2, <3>1 DEF KillInv
  <2>4. CASE Host
    <3>1. UNCHANGED <<up, line, done>> /\ Open
      BY <2>1, <2>4, DriverActions, <1>1, Types DEF Cut
    <3>2. Asked' /\ Len(done') <= Len(issued') /\ up' = TRUE
      BY <1>1, <3>1, LeftAlone DEF Open
    <3>3. \/ \E x, k, y, z, w : Halted(x, k, y, z, w)'
          \/ \E tg, x, y : Stream(tg, x, y)'
      BY <1>1, <1>2, <2>1, <2>4, CutOpens
    <3> QED  BY <1>2, <2>2, <3>2, <3>3 DEF KillInv
  <2> QED  BY <1>4, <2>3, <2>4 DEF Session
<1>5. CASE Session /\ kills = 1 /\ \E T, i, n, m, p : Halted(T, i, n, m, p)
  <2>1. PICK T, i, n, m, p : Halted(T, i, n, m, p)
    BY <1>5
  <2>2. kills' = 1
    BY <1>5 DEF Session, Shell, Host
  <2>3. CASE Shell
    <3>1. /\ Asked' /\ Len(done') <= Len(issued') /\ up' = TRUE
          /\ \/ \E x, k, y, z, w : Halted(x, k, y, z, w)'
             \/ \E tg, x, y : Stream(tg, x, y)'
      BY <1>1, <1>2, <2>1, <2>3, HaltedShell
    <3> QED  BY <1>2, <2>2, <3>1 DEF KillInv
  <2>4. CASE Host
    <3>1. /\ done' = done /\ issued' = issued /\ up' = up
          /\ \E x, k, y, z, w : Halted(x, k, y, z, w)'
      BY <1>1, <2>1, <2>4, HaltedHost
    <3>2. Asked' /\ Len(done') <= Len(issued') /\ up' = TRUE
      BY <1>1, <3>1, LeftAlone
    <3> QED  BY <1>2, <2>2, <3>1, <3>2 DEF KillInv
  <2> QED  BY <1>5, <2>3, <2>4 DEF Session
<1>6. CASE Session /\ kills = 1 /\ \E tg, b, c : Stream(tg, b, c)
  <2>1. PICK tg, b, c : Stream(tg, b, c)
    BY <1>6
  <2>2. kills' = 1
    BY <1>6 DEF Session, Shell, Host
  <2>3. CASE Shell
    <3>1. /\ Asked' /\ Len(done') <= Len(issued') /\ up' = TRUE
          /\ \E x, y, z : Stream(x, y, z)'
      BY <1>1, <1>2, <2>1, <2>3, StreamShell
    <3> QED  BY <1>2, <2>2, <3>1 DEF KillInv
  <2>4. CASE Host
    <3>1. /\ UNCHANGED <<up, line, done>>
          /\ issued' = issued \/ \E r \in Access : issued' = Append(issued, r)
          /\ \E x, y, z : Stream(x, y, z)'
      BY <1>1, <1>2, <2>1, <2>4, StreamHost
    <3>2. Asked' /\ Len(issued') >= Len(issued) /\ Len(issued') \in Nat /\ up' = TRUE
      BY <1>1, <3>1, AskedStays
    <3>3. Len(done') <= Len(issued')
      BY <1>1, <3>1, <3>2, Types
    <3> QED  BY <1>2, <2>2, <3>1, <3>2, <3>3 DEF KillInv
  <2> QED  BY <1>6, <2>3, <2>4 DEF Session
<1>7. CASE KillHost
  <2>1. kills = 0 /\ kills' = 1
    BY <1>1, <1>7, LinkAssumption DEF KillHost
  <2>2. Lockstep
    BY <2>1 DEF KillInv
  <2>3. \E T, i, n, m : Cut(T, i, n, m)'
    BY <1>1, <1>7, <2>2, KillCuts
  <2>4. UNCHANGED <<up, done, issued>>
    BY <1>7 DEF KillHost, Kill, shellVars
  <2>5. Asked' /\ Len(done') <= Len(issued') /\ up' = TRUE
    BY <1>1, <2>4, LeftAlone
  <2> QED  BY <1>2, <2>1, <2>3, <2>5 DEF KillInv
<1>8. CASE UNCHANGED vars
  BY <1>8, KillStutters
<1> QED
  BY <1>3, <1>4, <1>5, <1>6, <1>7, <1>8 DEF KillInv

\* If QEMU is killed once and started again, a command cut short by its end is
\* completed by the first trigger at worst: what the target performs was asked
\* for, but perhaps for its last field, and no more often than it was asked for.
THEOREM TornOnce == MaxKills <= 1 => (RelaunchSpec => []TornInLastField)
<1> SUFFICES ASSUME MaxKills <= 1 PROVE RelaunchSpec => []TornInLastField
  OBVIOUS
<1>1. WarmInit => KillInv
  BY KillBegins
<1>2. KillInv /\ [Session \/ KillHost]_vars => KillInv'
  BY KillStep
<1>3. KillInv => TornInLastField
  <2>1. SUFFICES ASSUME KillInv PROVE TornInLastField
    OBVIOUS
  <2>2. ASSUME NEW i \in DOMAIN done
        PROVE  \E q \in ToSet(issued) : Like(done[i].acc, Effect(q))
    <3>1. PICK j \in DOMAIN issued : Like(done[i].acc, Effect(issued[j]))
      BY <2>1, <2>2 DEF KillInv, Asked
    <3>2. issued[j] \in ToSet(issued)
      BY <3>1 DEF ToSet
    <3> QED  BY <3>1, <3>2
  <2> QED  BY <2>1, <2>2 DEF KillInv, TornInLastField, Like
<1> QED
  BY <1>1, <1>2, <1>3, PTL DEF RelaunchSpec
=============================================================================
