---------------------------- MODULE StackMachine ----------------------------
(***************************************************************************)
(* The part of an x86 processor with memory that compiled code needs for   *)
(* its stack: two registers, a stack of bytes with its top in front, and   *)
(* where the code is.  Words are sequences of four bytes, the lowest       *)
(* first.  One action per form of instruction.                             *)
(***************************************************************************)
EXTENDS Naturals, Sequences

CONSTANT Op(_, _)   \* what an instruction like xorl makes of two bytes

VARIABLES
  eax, edx,
  stack,
  pc,         \* address of the code that runs
  did         \* the instruction that was carried out last

stackVars == <<eax, edx, stack, pc, did>>

\* An instruction: what it does (mov, op or one of the others), how many bytes
\* are concerned, the register or immediate, the offset from the stack pointer.
Instr(form, alu, len, reg, at, imm) ==
  [form |-> form, alu |-> alu, len |-> len, reg |-> reg, at |-> at, imm |-> imm]

\* The lowest bytes of `old' after mov or op with `new'.
Alu(alu, len, old, new) ==
  [k \in DOMAIN old |-> IF k > len THEN old[k]
                        ELSE IF alu = "mov" THEN new[k] ELSE Op(old[k], new[k])]

\* movzbl, movzwl
Zero(len, word) == [k \in 1..4 |-> IF k > len THEN 0 ELSE word[k]]

\* N(%esp)
InFrame(i) == i.at + 4 <= Len(stack)
WordAt(n) == SubSeq(stack, n + 1, n + 4)
WithWordAt(n, w) == SubSeq(stack, 1, n) \o w \o SubSeq(stack, n + 5, Len(stack))

Operand(i) == IF i.reg = "eax" THEN eax ELSE IF i.reg = "edx" THEN edx ELSE i.imm

SetReg(reg, w) ==
  /\ eax' = IF reg = "eax" THEN w ELSE eax
  /\ edx' = IF reg = "edx" THEN w ELSE edx

Push(i) ==
  /\ i.form = "push"
  /\ stack' = Operand(i) \o stack
  /\ UNCHANGED <<eax, edx, pc>>

\* pushl N(%esp)
PushStack(i) ==
  /\ i.form = "push_stack" /\ InFrame(i)
  /\ stack' = WordAt(i.at) \o stack
  /\ UNCHANGED <<eax, edx, pc>>

Pop(i) ==
  /\ i.form = "pop" /\ Len(stack) >= 4
  /\ SetReg(i.reg, WordAt(0))
  /\ stack' = SubSeq(stack, 5, Len(stack))
  /\ UNCHANGED pc

Call(i) ==
  /\ i.form = "call"
  /\ stack' = i.imm \o stack
  /\ UNCHANGED <<eax, edx, pc>>

Ret(i) ==
  /\ i.form = "ret" /\ Len(stack) >= 4
  /\ pc' = WordAt(0)
  /\ stack' = SubSeq(stack, 5, Len(stack))
  /\ UNCHANGED <<eax, edx>>

\* movl %edx, N(%esp) and the like
Store(i) ==
  /\ i.form = "store" /\ InFrame(i)
  /\ stack' = WithWordAt(i.at, Alu(i.alu, i.len, WordAt(i.at), Operand(i)))
  /\ UNCHANGED <<eax, edx, pc>>

\* movl N(%esp), %edx and the like
Load(i) ==
  /\ i.form = "load" /\ InFrame(i)
  /\ SetReg(i.reg, Alu(i.alu, i.len, Operand(i), WordAt(i.at)))
  /\ UNCHANGED <<stack, pc>>

LoadZero(i) ==
  /\ i.form = "load_zero" /\ InFrame(i)
  /\ SetReg(i.reg, Zero(i.len, WordAt(i.at)))
  /\ UNCHANGED <<stack, pc>>

\* incl N(%esp) and the like: op with an operand of its own
Modify(i) ==
  /\ i.form = "modify" /\ InFrame(i)
  /\ stack' = WithWordAt(i.at, Alu("op", i.len, WordAt(i.at), i.imm))
  /\ UNCHANGED <<eax, edx, pc>>

\* subl $4, %esp: what is there now is arbitrary.
Alloc(i) ==
  /\ i.form = "alloc"
  /\ Len(stack') = Len(stack) + 4 /\ SubSeq(stack', 5, Len(stack')) = stack
  /\ UNCHANGED <<eax, edx, pc>>

Free(i) ==
  /\ i.form = "free" /\ Len(stack) >= 4
  /\ stack' = SubSeq(stack, 5, Len(stack))
  /\ UNCHANGED <<eax, edx, pc>>

CarriesOut(i) ==
  \/ Push(i) \/ PushStack(i) \/ Pop(i) \/ Call(i) \/ Ret(i) \/ Store(i)
  \/ Load(i) \/ LoadZero(i) \/ Modify(i) \/ Alloc(i) \/ Free(i)

\* Whatever instruction it is, it does what it says.
StackNext == CarriesOut(did')

StackSpec == [][StackNext]_stackVars
=============================================================================
