----------------------------- MODULE MCXmmStack -----------------------------
(***************************************************************************)
(* XmmStack with three words of stack and runs of three instructions: what *)
(* one leaves in the debug registers is there for the next, and a word is  *)
(* written by one, moved by another and read by the third.                 *)
(***************************************************************************)
EXTENDS XmmStack

\* Any two operands make another result, and their order matters.
MCOp(a, b) == (31 * a + b) % 9973

I(form, alu, len, reg, at, imm) ==
  [form |-> form, alu |-> alu, len |-> len, reg |-> reg, at |-> at, imm |-> imm]

Label == <<100, 2, 3, 4>>
Number == <<501, 502, 503, 504>>

MCProgram ==
  {I("push", "mov", 4, reg, 0, Number) : reg \in {"eax", "edx", "imm"}}
    \cup {I("pop", "mov", 4, reg, 0, Nil) : reg \in {"eax", "edx"}}
    \cup {I(form, "mov", 4, "imm", 0, Nil) : form \in {"ret", "alloc", "free"}}
    \cup {I("call", "mov", 4, "imm", 0, Label)}
    \cup {I("push_stack", "mov", 4, "imm", 4, Nil)}
    \cup {I("store", alu, len, reg, 4, Number) :
            alu \in {"mov", "op"}, len \in {1, 4}, reg \in {"eax", "edx"}}
    \cup {I("store", "mov", 2, "imm", 0, Number), I("store", "op", 4, "imm", 2, Number)}
    \cup {I("load", "mov", len, reg, 4, Nil) : len \in {2, 4}, reg \in {"eax", "edx"}}
    \cup {I("load", "op", 4, "edx", 0, Nil), I("load_zero", "mov", 1, "edx", 5, Nil),
          I("load_zero", "mov", 2, "eax", 0, Nil)}
    \cup {I("modify", "op", len, "imm", 4, Number) : len \in {1, 4}}
=============================================================================
