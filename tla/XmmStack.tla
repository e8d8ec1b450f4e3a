------------------------------ MODULE XmmStack ------------------------------
(***************************************************************************)
(* util/xmmstack.c rewrites compiled code so that it needs no memory: its  *)
(* stack is kept in the SSE (-xmm) or MMX registers.  Each instruction that *)
(* uses the stack becomes a sequence that saves what it is going to use in *)
(* debug registers and jumps, through esp, to one of a few routines.  They *)
(* reach a byte of the stack by jumping into a table with one entry for    *)
(* each byte.                                                              *)
(*                                                                         *)
(* dr0 saves eax, dr1 edx and dr3 esp; the lowest byte of dr2 is the stack *)
(* pointer, the next the byte that is to be reached.  At both ends of a    *)
(* table an entry loops for ever; beyond, anything is executed.            *)
(***************************************************************************)
EXTENDS Integers, Sequences

CONSTANTS
  Op(_, _),   \* what an instruction like xorl makes of two bytes
  Top,        \* the initial stack pointer: 0x7f
  Bytes,      \* how many bytes the registers have: 128, or 64 of MMX
  Room,       \* words of stack that the program uses
  Program,    \* instructions that it may contain
  MaxRun      \* how many of them are carried out

ASSUME StackAssumption ==
  /\ Top \in 0..255 /\ Bytes \in Nat \ {0} /\ Room \in Nat
  /\ 4 * Room < Top /\ 4 * Room <= Bytes /\ MaxRun \in Nat

VARIABLES
  r,          \* registers
  xmm,        \* the bytes of the registers that hold the stack
  todo,       \* what remains of the sequence under way
  wild,       \* a jump went where nothing was meant to be executed
  settled,    \* the program's view of its state after its last instruction
  now         \* the instruction under way and the number of those before

xmmVars == <<r, xmm, todo, wild, settled, now>>

RegName == {"eax", "edx", "esp", "dr0", "dr1", "dr2", "dr3"}

-----------------------------------------------------------------------------
(* Instructions of the sequences, on words                                 *)

Do(op, a, b, k, w) == [op |-> op, a |-> a, b |-> b, k |-> k, w |-> w]
Nil == <<0, 0, 0, 0>>

Mov(a, b) == Do("mov", a, b, 0, Nil)
Movzbl == Do("movzbl", "eax", "eax", 0, Nil)
AlToAh == Do("ah", "eax", "eax", 0, Nil)
AhToAl == Do("al", "eax", "eax", 0, Nil)
Lea(k) == Do("lea", "eax", "eax", k, Nil)
LeaEsp(k) == Do("lea", "esp", "eax", k, Nil)
Bswap == Do("bswap", "eax", "eax", 0, Nil)
Esp(w) == Do("esp", "esp", "esp", 0, w)
Put(k) == Do("put", "eax", "eax", k, Nil)
Get(k) == Do("get", "eax", "eax", k, Nil)
Back(w) == Do("back", "esp", "esp", 0, w)
Jmp == Do("jmp", "esp", "esp", 0, Nil)
DoAlu(alu, a, b, len) == Do(alu, a, b, len, Nil)
DoImm(alu, w, b, len) == Do(alu, "imm", b, len, w)
Zext(a, b, len) == Do("zext", a, b, len, Nil)

\* Address of the code behind a jump to a routine, and inside the tables.
Here == <<200, 9, 9, 9>>
InTable == <<201, 9, 9, 9>>

\* Numbers of which the low two bytes are looked at.
Low(w) == w[1] + 256 * w[2]
Plus(w, k) ==
  LET n == (Low(w) + k) % 65536 IN <<n % 256, n \div 256, w[3], w[4]>>

-----------------------------------------------------------------------------
(* The routines.  esp says where to go on.                                 *)

\* movl %edx,%dr1 ... and back
Routine(body, w) ==
  <<Mov("edx", "dr1"), Mov("esp", "dr3")>> \o body
    \o <<Mov("dr1", "edx"), Mov("dr3", "esp"), Back(w)>>

setxmm(len, w) ==
  Routine(CASE len = 1 -> <<Put(0)>>
            [] len = 2 -> <<Put(0), AhToAl, Put(1)>>
            [] len = 4 -> <<Put(0), AhToAl, Put(1), Bswap, Put(3), AhToAl, Put(2)>>, w)

getxmm(len, w) ==
  Routine(CASE len = 1 -> <<Get(0)>>
            [] len = 2 -> <<Get(1), AlToAh, Get(0)>>
            [] len = 4 -> <<Get(2), AlToAh, Get(3), Bswap, Get(1), AlToAh, Get(0)>>, w)

docall(w) ==
  <<Mov("eax", "dr0"), Mov("dr2", "eax"), Movzbl, Lea(-4), AlToAh, Mov("eax", "dr2"),
    LeaEsp(8)>> \o setxmm(4, w)

\* Faulty variant: takes the byte to be reached after moving the pointer.
dopopBehind ==
  <<Mov("eax", "dr0"), Mov("dr2", "eax"), Movzbl, Lea(4), AlToAh, Mov("eax", "dr2")>>
    \o getxmm(4, Here)

dopop ==
  <<Mov("eax", "dr0"), Mov("dr2", "eax"), Movzbl, AlToAh, Lea(4), Mov("eax", "dr2")>>
    \o getxmm(4, Here)

dopush ==
  <<Mov("eax", "dr3"), Mov("dr2", "eax"), Movzbl, Lea(-4), AlToAh, Mov("eax", "dr2"),
    Mov("dr3", "eax")>> \o setxmm(4, Here)

-----------------------------------------------------------------------------
(* main: what each instruction becomes                                     *)

\* The byte to be reached is n above the stack pointer.
Reach(n) ==
  <<Mov("eax", "dr0"), Mov("dr2", "eax"), Movzbl, AlToAh, Lea(256 * n),
    Mov("eax", "dr2"), Mov("dr0", "eax")>>

PushCode(i) ==
  <<Mov("eax", "dr0"),
    IF i.reg = "imm" THEN DoImm("mov", i.imm, "eax", 4) ELSE Mov(i.reg, "eax"),
    Esp(Here)>> \o dopush \o <<Mov("dr0", "eax")>>

PushStackCode(i) ==
  Reach(i.at) \o <<Esp(Here)>> \o getxmm(4, Here)
    \o <<Esp(Here)>> \o dopush \o <<Mov("dr0", "eax")>>

\* Unless the result is in it, eax gets its old value back.
Restore(i) == IF i.reg = "eax" THEN <<>> ELSE <<Mov("dr0", "eax")>>

PopCode(i) == <<Esp(Here)>> \o dopop \o <<Mov("eax", i.reg)>> \o Restore(i)

\* The return address is 8 behind the code that docall returns to.
CallCode(i) == <<Esp(Plus(i.imm, -8))>> \o docall(Plus(i.imm, -8)) \o <<Mov("dr0", "eax")>>

RetCode(i) ==
  <<Mov("eax", "dr0"), Mov("dr2", "eax"), Movzbl, AlToAh, Lea(4), Mov("eax", "dr2"),
    Esp(Here)>> \o getxmm(4, Here) \o <<Mov("eax", "esp"), Mov("dr0", "eax"), Jmp>>

\* Faulty variant: the operand is taken from eax when it is the stack's.
OperandOfEax(i) == <<DoAlu(i.alu, i.reg, "eax", i.len)>>

\* The operation, on eax instead of the stack.  If eax is its other operand,
\* edx stands in for it.
OnEax(i) ==
  IF i.reg = "imm" THEN <<DoImm(i.alu, i.imm, "eax", i.len)>>
  ELSE IF i.reg = "eax"
  THEN <<Mov("edx", "esp"), Mov("dr0", "edx"), DoAlu(i.alu, "edx", "eax", i.len),
         Mov("esp", "edx")>>
  ELSE <<DoAlu(i.alu, i.reg, "eax", i.len)>>

StoreCode(i) ==
  Reach(i.at) \o <<Esp(Here)>> \o getxmm(i.len, Here) \o OnEax(i)
    \o <<Esp(Here)>> \o setxmm(i.len, Here) \o <<Mov("dr0", "eax")>>

LoadCode(i) ==
  Reach(i.at) \o <<Esp(Here)>> \o getxmm(i.len, Here)
    \o <<DoAlu(i.alu, "eax", i.reg, i.len)>> \o Restore(i)

LoadZeroCode(i) ==
  Reach(i.at) \o <<Esp(Here)>> \o getxmm(i.len, Here)
    \o <<Zext("eax", i.reg, i.len)>> \o Restore(i)

ModifyCode(i) ==
  Reach(i.at) \o <<Esp(Here)>> \o getxmm(i.len, Here)
    \o <<DoImm("op", i.imm, "eax", i.len), Esp(Here)>> \o setxmm(i.len, Here)
    \o <<Mov("dr0", "eax")>>

\* subl and addl of esp, with dr2 in its place.
EspCode(k) ==
  <<Mov("dr2", "esp"), Do("lea", "esp", "esp", k, Nil), Mov("esp", "dr2")>>

Translation(i) ==
  CASE i.form = "push" -> PushCode(i)
    [] i.form = "push_stack" -> PushStackCode(i)
    [] i.form = "pop" -> PopCode(i)
    [] i.form = "call" -> CallCode(i)
    [] i.form = "ret" -> RetCode(i)
    [] i.form = "store" -> StoreCode(i)
    [] i.form = "load" -> LoadCode(i)
    [] i.form = "load_zero" -> LoadZeroCode(i)
    [] i.form = "modify" -> ModifyCode(i)
    [] i.form = "alloc" -> EspCode(-4)
    [] i.form = "free" -> EspCode(4)

-----------------------------------------------------------------------------
(* The program                                                             *)

Word(w) == w = <<w[1], w[2], w[3], w[4]>>

\* Instructions of the forms that main tells apart.  With eax on both sides,
\* only a move can be translated: the old value of eax is gone.
Translatable(i) ==
  /\ i.form \in {"push", "push_stack", "pop", "call", "ret", "store", "load", "load_zero",
                 "modify", "alloc", "free"}
  /\ i.alu \in {"mov", "op"} /\ i.len \in {1, 2, 4} /\ i.at \in Nat
  /\ i.reg \in {"eax", "edx", "imm"} /\ Word(i.imm)
  /\ i.form = "call" => i.imm[1] \in 0..255 /\ i.imm[2] \in 0..255
  /\ i.form \in {"pop", "load", "load_zero"} => i.reg # "imm"
  /\ i.form = "load" /\ i.reg = "eax" => i.alu = "mov"

ASSUME ProgramAssumption == \A i \in Program : Translatable(i)

-----------------------------------------------------------------------------
(* The processor                                                           *)

Now == Head(todo)

\* The byte of the stack at index n of the tables: in MMX registers, the upper
\* half of the table reaches the same bytes as the lower.
Slot(n) == n % Bytes

Index(i, g) == g.dr2[2] + i.k
Reached(i, g) == Index(i, g) \in 1..(Top - 1)

Source(i, g) == IF i.a = "imm" THEN i.w ELSE g[i.a]

\* The word that instruction i makes of registers g.
Compute(i, g) ==
  CASE i.op = "mov" /\ i.k = 0 -> Source(i, g)
    [] i.op \in {"mov", "op"} /\ i.k # 0 ->
         [j \in 1..4 |-> IF j > i.k THEN g[i.b][j]
                         ELSE IF i.op = "mov" THEN Source(i, g)[j]
                         ELSE Op(g[i.b][j], Source(i, g)[j])]
    [] i.op = "movzbl" -> <<g.eax[1], 0, 0, 0>>
    [] i.op = "zext" -> [j \in 1..4 |-> IF j > i.k THEN 0 ELSE g.eax[j]]
    [] i.op = "ah" -> [g.eax EXCEPT ![2] = g.eax[1]]
    [] i.op = "al" -> [g.eax EXCEPT ![1] = g.eax[2]]
    [] i.op = "lea" -> Plus(Source(i, g), i.k)
    [] i.op = "bswap" -> <<g.eax[4], g.eax[3], g.eax[2], g.eax[1]>>
    [] i.op = "esp" -> i.w

\* What the program sees of it, at pc1 after instruction i.
View(r1, xmm1, pc1, i) ==
  LET sp == r1.dr2[1]
  IN [eax |-> r1.eax, edx |-> r1.edx, pc |-> pc1, did |-> i,
      stack |-> [j \in 1..(Top - sp) |-> xmm1[Slot((sp + j) - 1)]]]

\* The next step of the sequence.  After the last one the program sees what its
\* instruction did.
Goes(r1, xmm1, pc1) ==
  /\ r' = r1 /\ xmm' = xmm1
  /\ todo' = Tail(todo)
  /\ settled' = IF Len(todo) = 1 THEN View(r1, xmm1, pc1, now.i) ELSE settled
  /\ UNCHANGED now

Calculate ==
  /\ todo # <<>> /\ Now.op \notin {"put", "get", "back", "jmp"}
  /\ Goes([r EXCEPT ![Now.b] = Compute(Now, r)], xmm, settled.pc)
  /\ UNCHANGED wild

\* Entries of the tables: pextrw to edx, movb, pinsrw, jmp *%esp.  The first
\* one and the last one loop, and anything may be behind the tables.
InTableRegs(g) == [g EXCEPT !.edx = InTable, !.esp = InTable]

PutByte ==
  /\ todo # <<>> /\ Now.op = "put"
  /\ Goes(InTableRegs(r), [xmm EXCEPT ![Slot(Index(Now, r))] = r.eax[1]], settled.pc)
  /\ wild' = (wild \/ ~Reached(Now, r))

GetByte ==
  /\ todo # <<>> /\ Now.op = "get"
  /\ Goes([InTableRegs(r) EXCEPT !.eax[1] = xmm[Slot(Index(Now, r))]], xmm, settled.pc)
  /\ wild' = (wild \/ ~Reached(Now, r))

\* jmp *%esp at the end of a routine
JumpBack ==
  /\ todo # <<>> /\ Now.op = "back"
  /\ Goes(r, xmm, settled.pc)
  /\ wild' = (wild \/ r.esp # Now.w)

\* and at the end of ret
JumpToCaller ==
  /\ todo # <<>> /\ Now.op = "jmp"
  /\ Goes(r, xmm, r.esp)
  /\ UNCHANGED wild

\* The program needs no more stack than it has, and no instruction uses more
\* of it than there is.
Fits(i) ==
  LET depth == Len(settled.stack)
  IN /\ i.form \in {"push", "push_stack", "call", "alloc"} => depth + 4 <= 4 * Room
     /\ i.form \in {"pop", "ret", "free"} => depth >= 4
     /\ i.form \in {"push_stack", "store", "load", "load_zero", "modify"} => i.at + 4 <= depth

NextInstruction ==
  /\ todo = <<>> /\ ~wild /\ now.n < MaxRun
  /\ \E i \in Program :
       /\ Fits(i)
       /\ todo' = Translation(i)
       /\ now' = [i |-> i, n |-> now.n + 1]
  /\ UNCHANGED <<r, xmm, wild, settled>>

\* Between two instructions, at any depth.  All bytes are different, and the
\* second byte of dr2 is what the last instruction left there.
XmmInit ==
  /\ \E depth \in 0..Room :
       r = [eax |-> <<301, 302, 303, 304>>, edx |-> <<305, 306, 307, 308>>,
            dr0 |-> <<309, 310, 311, 312>>, dr1 |-> <<313, 314, 315, 316>>,
            dr3 |-> <<317, 318, 319, 320>>, esp |-> <<321, 322, 323, 324>>,
            dr2 |-> <<Top - 4 * depth, 255, 325, 326>>]
  /\ xmm = [n \in 0..(Bytes - 1) |-> 400 + n]
  /\ todo = <<>> /\ wild = FALSE
  /\ now = [i |-> CHOOSE i \in Program : TRUE, n |-> 0]
  /\ settled = View(r, xmm, Here, now.i)

XmmNext ==
  \/ NextInstruction \/ Calculate \/ PutByte \/ GetByte \/ JumpBack \/ JumpToCaller

XmmSpec == XmmInit /\ [][XmmNext]_xmmVars

-----------------------------------------------------------------------------
(* Every sequence does what the instruction that it replaces says, to the  *)
(* registers and to a stack in memory: whatever was in the debug           *)
(* registers, whatever instruction came before, and with nothing else      *)
(* changed (xmmstack.c:579-757).                                           *)
Machine == INSTANCE StackMachine WITH
  eax <- settled.eax, edx <- settled.edx, stack <- settled.stack,
  pc <- settled.pc, did <- settled.did

StackKept == Machine!StackSpec

(* As long as the program has enough stack, every jump into a table goes to *)
(* the entry of a byte, and every routine ends where the sequence that used *)
(* it goes on: the one register that says where is reused by the routines   *)
(* for their own jumps (xmmstack.c:165-577).                                *)
NoWildJump == ~wild
=============================================================================
