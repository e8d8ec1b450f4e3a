--------------------------- MODULE XmmStackProofs ----------------------------
(***************************************************************************)
(* That the code which xmmstack.c makes does what the instructions say.    *)
(* Each sequence is run once, on values that stand for any; Leads says     *)
(* that a sequence leads from one state of the processor to another, and   *)
(* sequences are put together from parts as xmmstack.c does it.            *)
(***************************************************************************)
EXTENDS XmmStack, TLAPS, SequenceTheorems

(***************************************************************************)
(* Sequences                                                               *)
(***************************************************************************)

\* What an instruction of a sequence may name.
Words == {Nil, Here, InTable} \cup {i.imm : i \in Program} \cup {Plus(i.imm, -8) : i \in Program}

Ops == {"mov", "op", "movzbl", "zext", "ah", "al", "lea", "bswap", "esp", "put", "get", "back", "jmp"}
Regd == RegName \cup {"imm"}
Micro == [op : Ops, a : Regd, b : Regd, k : Int, w : Words]
Code == Seq(Micro)

\* A state: registers, bytes of the stack, and the address of a jump that
\* leaves the sequence.
State(g, x, to) == [g |-> g, x |-> x, to |-> to]

\* Instruction i leads from state s to t, and no jump of it goes astray.
Runs(i, s, t) ==
  /\ s.to = <<>>
  /\ \/ /\ i.op \notin {"put", "get", "back", "jmp"}
        /\ t = State([s.g EXCEPT ![i.b] = Compute(i, s.g)], s.x, <<>>)
     \/ /\ i.op = "put" /\ Reached(i, s.g)
        /\ t = State(InTableRegs(s.g), [s.x EXCEPT ![Slot(Index(i, s.g))] = s.g.eax[1]], <<>>)
     \/ /\ i.op = "get" /\ Reached(i, s.g)
        /\ t = State([InTableRegs(s.g) EXCEPT !.eax[1] = s.x[Slot(Index(i, s.g))]], s.x, <<>>)
     \/ i.op = "back" /\ s.g.esp = i.w /\ t = s
     \/ i.op = "jmp" /\ t = State(s.g, s.x, <<s.g.esp>>)

\* The whole of q leads from s to t.
Leads(q, s, t) ==
  \E tr : /\ tr[1] = s /\ tr[Len(q) + 1] = t
          /\ \A k \in 1..Len(q) : Runs(q[k], tr[k], tr[k + 1])

LEMMA LeadsNowhere == \A s, t : Leads(<<>>, s, t) => s = t
BY DEF Leads

LEMMA LeadsThen ==
  ASSUME NEW p \in Code, NEW q \in Code, NEW s, NEW t, NEW u, Leads(p, s, t), Leads(q, t, u)
  PROVE  Leads(p \o q, s, u) /\ p \o q \in Code
<1>1. PICK f : /\ f[1] = s /\ f[Len(p) + 1] = t
               /\ \A k \in 1..Len(p) : Runs(p[k], f[k], f[k + 1])
  BY DEF Leads
<1>2. PICK h : /\ h[1] = t /\ h[Len(q) + 1] = u
               /\ \A k \in 1..Len(q) : Runs(q[k], h[k], h[k + 1])
  BY DEF Leads
<1> DEFINE m == Len(p)
           tr == [k \in 1..(Len(p) + Len(q) + 1) |-> IF k <= m THEN f[k] ELSE h[k - m]]
<1>3. /\ Len(p \o q) = Len(p) + Len(q) /\ m \in Nat /\ Len(q) \in Nat
      /\ \A k \in 1..Len(p) + Len(q) : (p \o q)[k] = IF k <= m THEN p[k] ELSE q[k - m]
      /\ p \o q \in Code
  BY ConcatProperties DEF Code
<1>4. tr[1] = s
  BY <1>1, <1>2, <1>3
<1>5. tr[Len(p \o q) + 1] = u
  BY <1>1, <1>2, <1>3
<1>6. ASSUME NEW k \in 1..Len(p \o q)
      PROVE  Runs((p \o q)[k], tr[k], tr[k + 1])
  <2>0. k \in 1..m + Len(q) /\ k + 1 \in 1..(m + Len(q) + 1)
    BY <1>3
  <2>1. CASE k < m
    <3>1. k \in 1..Len(p) /\ k <= m /\ k + 1 <= m
      BY <1>3, <2>0, <2>1
    <3>2. tr[k] = f[k] /\ tr[k + 1] = f[k + 1] /\ (p \o q)[k] = p[k]
      BY <1>3, <2>0, <3>1
    <3> QED
      BY <1>1, <3>1, <3>2
  <2>2. CASE k = m
    <3>1. k \in 1..Len(p) /\ ~(k + 1 <= m) /\ (k + 1) - m = 1
      BY <1>3, <2>0, <2>2
    <3>2. tr[k] = f[k] /\ tr[k + 1] = h[1] /\ (p \o q)[k] = p[k]
      BY <1>3, <2>0, <2>2, <3>1
    <3>3. f[k + 1] = h[1]
      BY <1>1, <1>2, <2>2
    <3> QED
      BY <1>1, <3>1, <3>2, <3>3
  <2>3. CASE k > m
    <3>1. /\ k - m \in 1..Len(q) /\ ~(k <= m) /\ ~(k + 1 <= m) /\ (k + 1) - m = (k - m) + 1
      BY <1>3, <2>0, <2>3
    <3>2. tr[k] = h[k - m] /\ tr[k + 1] = h[(k - m) + 1] /\ (p \o q)[k] = q[k - m]
      BY <1>3, <2>0, <3>1
    <3> QED
      BY <1>2, <3>1, <3>2
  <2> QED
    BY <1>3, <2>0, <2>1, <2>2, <2>3
<1> HIDE DEF tr
<1> QED
  BY <1>3, <1>4, <1>5, <1>6 DEF Leads

\* The first instruction, and the others.
LEMMA LeadsOn ==
  ASSUME NEW q \in Code, NEW s, NEW u, Leads(q, s, u), q # <<>>
  PROVE  \E t : Runs(Head(q), s, t) /\ Leads(Tail(q), t, u)
<1>1. PICK f : /\ f[1] = s /\ f[Len(q) + 1] = u
               /\ \A k \in 1..Len(q) : Runs(q[k], f[k], f[k + 1])
  BY DEF Leads
<1>2. Len(q) \in Nat \ {0} /\ Head(q) = q[1] /\ Len(Tail(q)) = Len(q) - 1
      /\ \A k \in 1..Len(Tail(q)) : Tail(q)[k] = q[k + 1]
  BY DEF Code
<1> DEFINE h == [k \in 1..Len(q) |-> f[k + 1]]
<1>3. Runs(Head(q), s, f[2])
  <2>1. 1 \in 1..Len(q) /\ 1 + 1 = 2
    BY <1>2
  <2> QED
    BY <1>1, <1>2, <2>1
<1>4. h[1] = f[2] /\ h[Len(Tail(q)) + 1] = u
  BY <1>1, <1>2
<1>5. ASSUME NEW k \in 1..Len(Tail(q))
      PROVE  Runs(Tail(q)[k], h[k], h[k + 1])
  <2>1. k \in 1..Len(q) /\ k + 1 \in 1..Len(q) /\ h[k] = f[k + 1] /\ h[k + 1] = f[(k + 1) + 1]
    BY <1>2
  <2> QED
    BY <1>1, <1>2, <2>1
<1> HIDE DEF h
<1>6. Leads(Tail(q), f[2], u)
  BY <1>4, <1>5 DEF Leads
<1> QED
  BY <1>3, <1>6

\* Sequences written out.
LEMMA LeadsNext ==
  ASSUME NEW i \in Micro, NEW q \in Code, NEW s, NEW t, NEW u, Runs(i, s, t), Leads(q, t, u)
  PROVE  Leads(<<i>> \o q, s, u) /\ <<i>> \o q \in Code
<1>1. <<i>> \in Code
  BY DEF Code
<1>2. Leads(<<i>>, s, t)
  <2> DEFINE tr == <<s, t>>
  <2>1. tr[1] = s /\ tr[Len(<<i>>) + 1] = t /\ \A k \in 1..Len(<<i>>) : Runs(<<i>>[k], tr[k], tr[k + 1])
    OBVIOUS
  <2> QED
    BY <2>1 DEF Leads
<1> QED
  BY <1>1, <1>2, LeadsThen

\* The state with these registers.
Regs(a, d, e, d0, d1, d2, d3) ==
  [eax |-> a, edx |-> d, esp |-> e, dr0 |-> d0, dr1 |-> d1, dr2 |-> d2, dr3 |-> d3]

S(a, d, e, d0, d1, d2, d3, x) == State(Regs(a, d, e, d0, d1, d2, d3), x, <<>>)

LEMMA Movs ==
  ASSUME NEW a, NEW d, NEW e, NEW d0, NEW d1, NEW d2, NEW d3, NEW x
  PROVE  /\ Runs(Mov("eax", "dr0"), S(a, d, e, d0, d1, d2, d3, x), S(a, d, e, a, d1, d2, d3, x))
         /\ Runs(Mov("dr2", "eax"), S(a, d, e, d0, d1, d2, d3, x), S(d2, d, e, d0, d1, d2, d3, x))
         /\ Runs(Mov("eax", "dr2"), S(a, d, e, d0, d1, d2, d3, x), S(a, d, e, d0, d1, a, d3, x))
         /\ Runs(Mov("dr0", "eax"), S(a, d, e, d0, d1, d2, d3, x), S(d0, d, e, d0, d1, d2, d3, x))
         /\ Runs(Mov("edx", "dr1"), S(a, d, e, d0, d1, d2, d3, x), S(a, d, e, d0, d, d2, d3, x))
         /\ Runs(Mov("esp", "dr3"), S(a, d, e, d0, d1, d2, d3, x), S(a, d, e, d0, d1, d2, e, x))
         /\ Runs(Mov("dr1", "edx"), S(a, d, e, d0, d1, d2, d3, x), S(a, d1, e, d0, d1, d2, d3, x))
         /\ Runs(Mov("dr3", "esp"), S(a, d, e, d0, d1, d2, d3, x), S(a, d, d3, d0, d1, d2, d3, x))
         /\ Runs(Mov("eax", "dr3"), S(a, d, e, d0, d1, d2, d3, x), S(a, d, e, d0, d1, d2, a, x))
         /\ Runs(Mov("dr3", "eax"), S(a, d, e, d0, d1, d2, d3, x), S(d3, d, e, d0, d1, d2, d3, x))
         /\ Runs(Mov("edx", "esp"), S(a, d, e, d0, d1, d2, d3, x), S(a, d, d, d0, d1, d2, d3, x))
         /\ Runs(Mov("dr0", "edx"), S(a, d, e, d0, d1, d2, d3, x), S(a, d0, e, d0, d1, d2, d3, x))
         /\ Runs(Mov("esp", "edx"), S(a, d, e, d0, d1, d2, d3, x), S(a, e, e, d0, d1, d2, d3, x))
         /\ Runs(Mov("eax", "esp"), S(a, d, e, d0, d1, d2, d3, x), S(a, d, a, d0, d1, d2, d3, x))
         /\ Runs(Mov("eax", "eax"), S(a, d, e, d0, d1, d2, d3, x), S(a, d, e, d0, d1, d2, d3, x))
         /\ Runs(Mov("eax", "edx"), S(a, d, e, d0, d1, d2, d3, x), S(a, a, e, d0, d1, d2, d3, x))
         /\ Runs(Mov("edx", "eax"), S(a, d, e, d0, d1, d2, d3, x), S(d, d, e, d0, d1, d2, d3, x))
         /\ Runs(Mov("dr2", "esp"), S(a, d, e, d0, d1, d2, d3, x), S(a, d, d2, d0, d1, d2, d3, x))
         /\ Runs(Mov("esp", "dr2"), S(a, d, e, d0, d1, d2, d3, x), S(a, d, e, d0, d1, e, d3, x))
<1>1. Runs(Mov("eax", "dr0"), S(a, d, e, d0, d1, d2, d3, x), S(a, d, e, a, d1, d2, d3, x))
  BY DEF Runs, Mov, Do, Compute, Source, State, S, Regs
<1>2. Runs(Mov("dr2", "eax"), S(a, d, e, d0, d1, d2, d3, x), S(d2, d, e, d0, d1, d2, d3, x))
  BY DEF Runs, Mov, Do, Compute, Source, State, S, Regs
<1>3. Runs(Mov("eax", "dr2"), S(a, d, e, d0, d1, d2, d3, x), S(a, d, e, d0, d1, a, d3, x))
  BY DEF Runs, Mov, Do, Compute, Source, State, S, Regs
<1>4. Runs(Mov("dr0", "eax"), S(a, d, e, d0, d1, d2, d3, x), S(d0, d, e, d0, d1, d2, d3, x))
  BY DEF Runs, Mov, Do, Compute, Source, State, S, Regs
<1>5. Runs(Mov("edx", "dr1"), S(a, d, e, d0, d1, d2, d3, x), S(a, d, e, d0, d, d2, d3, x))
  BY DEF Runs, Mov, Do, Compute, Source, State, S, Regs
<1>6. Runs(Mov("esp", "dr3"), S(a, d, e, d0, d1, d2, d3, x), S(a, d, e, d0, d1, d2, e, x))
  BY DEF Runs, Mov, Do, Compute, Source, State, S, Regs
<1>7. Runs(Mov("dr1", "edx"), S(a, d, e, d0, d1, d2, d3, x), S(a, d1, e, d0, d1, d2, d3, x))
  BY DEF Runs, Mov, Do, Compute, Source, State, S, Regs
<1>8. Runs(Mov("dr3", "esp"), S(a, d, e, d0, d1, d2, d3, x), S(a, d, d3, d0, d1, d2, d3, x))
  BY DEF Runs, Mov, Do, Compute, Source, State, S, Regs
<1>9. Runs(Mov("eax", "dr3"), S(a, d, e, d0, d1, d2, d3, x), S(a, d, e, d0, d1, d2, a, x))
  BY DEF Runs, Mov, Do, Compute, Source, State, S, Regs
<1>10. Runs(Mov("dr3", "eax"), S(a, d, e, d0, d1, d2, d3, x), S(d3, d, e, d0, d1, d2, d3, x))
  BY DEF Runs, Mov, Do, Compute, Source, State, S, Regs
<1>11. Runs(Mov("edx", "esp"), S(a, d, e, d0, d1, d2, d3, x), S(a, d, d, d0, d1, d2, d3, x))
  BY DEF Runs, Mov, Do, Compute, Source, State, S, Regs
<1>12. Runs(Mov("dr0", "edx"), S(a, d, e, d0, d1, d2, d3, x), S(a, d0, e, d0, d1, d2, d3, x))
  BY DEF Runs, Mov, Do, Compute, Source, State, S, Regs
<1>13. Runs(Mov("esp", "edx"), S(a, d, e, d0, d1, d2, d3, x), S(a, e, e, d0, d1, d2, d3, x))
  BY DEF Runs, Mov, Do, Compute, Source, State, S, Regs
<1>14. Runs(Mov("eax", "esp"), S(a, d, e, d0, d1, d2, d3, x), S(a, d, a, d0, d1, d2, d3, x))
  BY DEF Runs, Mov, Do, Compute, Source, State, S, Regs
<1>15. Runs(Mov("eax", "eax"), S(a, d, e, d0, d1, d2, d3, x), S(a, d, e, d0, d1, d2, d3, x))
  BY DEF Runs, Mov, Do, Compute, Source, State, S, Regs
<1>16. Runs(Mov("eax", "edx"), S(a, d, e, d0, d1, d2, d3, x), S(a, a, e, d0, d1, d2, d3, x))
  BY DEF Runs, Mov, Do, Compute, Source, State, S, Regs
<1>17. Runs(Mov("edx", "eax"), S(a, d, e, d0, d1, d2, d3, x), S(d, d, e, d0, d1, d2, d3, x))
  BY DEF Runs, Mov, Do, Compute, Source, State, S, Regs
<1>18. Runs(Mov("dr2", "esp"), S(a, d, e, d0, d1, d2, d3, x), S(a, d, d2, d0, d1, d2, d3, x))
  BY DEF Runs, Mov, Do, Compute, Source, State, S, Regs
<1>19. Runs(Mov("esp", "dr2"), S(a, d, e, d0, d1, d2, d3, x), S(a, d, e, d0, d1, e, d3, x))
  BY DEF Runs, Mov, Do, Compute, Source, State, S, Regs
<1> QED
  BY <1>1, <1>2, <1>3, <1>4, <1>5, <1>6, <1>7, <1>8, <1>9, <1>10, <1>11, <1>12, <1>13, <1>14, <1>15, <1>16, <1>17, <1>18, <1>19

LEMMA Bytewise ==
  ASSUME NEW a1, NEW a2, NEW a3, NEW a4, NEW d, NEW e, NEW d0, NEW d1, NEW d2, NEW d3, NEW x
  PROVE  /\ Runs(Movzbl, S(<<a1, a2, a3, a4>>, d, e, d0, d1, d2, d3, x),
                         S(<<a1, 0, 0, 0>>, d, e, d0, d1, d2, d3, x))
         /\ Runs(AlToAh, S(<<a1, a2, a3, a4>>, d, e, d0, d1, d2, d3, x),
                         S(<<a1, a1, a3, a4>>, d, e, d0, d1, d2, d3, x))
         /\ Runs(AhToAl, S(<<a1, a2, a3, a4>>, d, e, d0, d1, d2, d3, x),
                         S(<<a2, a2, a3, a4>>, d, e, d0, d1, d2, d3, x))
         /\ Runs(Bswap, S(<<a1, a2, a3, a4>>, d, e, d0, d1, d2, d3, x),
                        S(<<a4, a3, a2, a1>>, d, e, d0, d1, d2, d3, x))
<1>1. Runs(Movzbl, S(<<a1, a2, a3, a4>>, d, e, d0, d1, d2, d3, x),
                   S(<<a1, 0, 0, 0>>, d, e, d0, d1, d2, d3, x))
  BY DEF Runs, Movzbl, Do, Compute, State, S, Regs
<1>2. Runs(AlToAh, S(<<a1, a2, a3, a4>>, d, e, d0, d1, d2, d3, x),
                   S(<<a1, a1, a3, a4>>, d, e, d0, d1, d2, d3, x))
  BY DEF Runs, AlToAh, Do, Compute, State, S, Regs
<1>3. Runs(AhToAl, S(<<a1, a2, a3, a4>>, d, e, d0, d1, d2, d3, x),
                   S(<<a2, a2, a3, a4>>, d, e, d0, d1, d2, d3, x))
  BY DEF Runs, AhToAl, Do, Compute, State, S, Regs
<1>4. Runs(Bswap, S(<<a1, a2, a3, a4>>, d, e, d0, d1, d2, d3, x),
                  S(<<a4, a3, a2, a1>>, d, e, d0, d1, d2, d3, x))
  BY DEF Runs, Bswap, Do, Compute, State, S, Regs
<1> QED
  BY <1>1, <1>2, <1>3, <1>4

\* Addition to the lower half of a word.
LEMMA Adds ==
  ASSUME NEW l \in 0..255, NEW h \in 0..255, NEW u, NEW v, NEW k \in Int,
         NEW l1 \in 0..255, NEW h1 \in 0..255, l1 + 256 * h1 = l + 256 * h + k
  PROVE  Plus(<<l, h, u, v>>, k) = <<l1, h1, u, v>>
<1>1. Low(<<l, h, u, v>>) + k = l1 + 256 * h1
  BY DEF Low
<1>2. (l1 + 256 * h1) % 65536 = l1 + 256 * h1
  OBVIOUS
<1>3. (l1 + 256 * h1) % 256 = l1 /\ (l1 + 256 * h1) \div 256 = h1
  OBVIOUS
<1> QED
  BY <1>1, <1>2, <1>3 DEF Plus

\* Sums that are not bytes wrap; xmmstack adds 8 to an address less 8.
Returned(w) == Plus(Plus(w, -8), 8) = w

LEMMA Returns ==
  ASSUME NEW l \in 0..255, NEW h \in 0..255, NEW u, NEW v
  PROVE  Returned(<<l, h, u, v>>)
<1> SUFFICES Plus(Plus(<<l, h, u, v>>, -8), 8) = <<l, h, u, v>>
  BY DEF Returned
<1>1. CASE l >= 8
  <2>1. Low(<<l, h, u, v>>) + -8 = (l - 8) + 256 * h
    BY DEF Low
  <2>2. /\ ((l - 8) + 256 * h) % 65536 = (l - 8) + 256 * h
        /\ ((l - 8) + 256 * h) % 256 = l - 8 /\ ((l - 8) + 256 * h) \div 256 = h
    BY <1>1
  <2>3. Plus(<<l, h, u, v>>, -8) = <<l - 8, h, u, v>>
    BY <2>1, <2>2 DEF Plus
  <2>4. Low(<<l - 8, h, u, v>>) + 8 = l + 256 * h
    BY <1>1 DEF Low
  <2>5. (l + 256 * h) % 65536 = l + 256 * h /\ (l + 256 * h) % 256 = l /\ (l + 256 * h) \div 256 = h
    OBVIOUS
  <2>6. Plus(<<l - 8, h, u, v>>, 8) = <<l, h, u, v>>
    BY <2>4, <2>5 DEF Plus
  <2> QED
    BY <2>3, <2>6
<1>2. CASE l < 8 /\ h > 0
  <2>1. Low(<<l, h, u, v>>) + -8 = (l + 248) + 256 * (h - 1)
    BY DEF Low
  <2>2. /\ ((l + 248) + 256 * (h - 1)) % 65536 = (l + 248) + 256 * (h - 1)
        /\ ((l + 248) + 256 * (h - 1)) % 256 = l + 248 /\ ((l + 248) + 256 * (h - 1)) \div 256 = h - 1
    BY <1>2
  <2>3. Plus(<<l, h, u, v>>, -8) = <<l + 248, h - 1, u, v>>
    BY <2>1, <2>2 DEF Plus
  <2>4. Low(<<l + 248, h - 1, u, v>>) + 8 = l + 256 * h
    BY <1>2 DEF Low
  <2>5. (l + 256 * h) % 65536 = l + 256 * h /\ (l + 256 * h) % 256 = l /\ (l + 256 * h) \div 256 = h
    OBVIOUS
  <2>6. Plus(<<l + 248, h - 1, u, v>>, 8) = <<l, h, u, v>>
    BY <2>4, <2>5 DEF Plus
  <2> QED
    BY <2>3, <2>6
<1>3. CASE l < 8 /\ h = 0
  <2>1. Low(<<l, h, u, v>>) + -8 = l - 8 /\ (l - 8) % 65536 = l + 65528
    BY <1>3 DEF Low
  <2>2. (l + 65528) % 256 = l + 248 /\ (l + 65528) \div 256 = 255
    BY <1>3
  <2>3. Plus(<<l, h, u, v>>, -8) = <<l + 248, 255, u, v>>
    BY <2>1, <2>2 DEF Plus
  <2>4. Low(<<l + 248, 255, u, v>>) + 8 = l + 65536 /\ (l + 65536) % 65536 = l
    BY <1>3 DEF Low
  <2>5. l % 256 = l /\ l \div 256 = 0
    BY <1>3
  <2>6. Plus(<<l + 248, 255, u, v>>, 8) = <<l, 0, u, v>>
    BY <2>4, <2>5 DEF Plus
  <2> QED
    BY <1>3, <2>3, <2>6
<1> QED
  BY <1>1, <1>2, <1>3

LEMMA Sums ==
  ASSUME NEW a, NEW d, NEW e, NEW d0, NEW d1, NEW d2, NEW d3, NEW x, NEW k \in Int, NEW w
  PROVE  /\ Runs(Lea(k), S(a, d, e, d0, d1, d2, d3, x), S(Plus(a, k), d, e, d0, d1, d2, d3, x))
         /\ Runs(LeaEsp(k), S(a, d, e, d0, d1, d2, d3, x), S(Plus(e, k), d, e, d0, d1, d2, d3, x))
         /\ Runs(Do("lea", "esp", "esp", k, Nil), S(a, d, e, d0, d1, d2, d3, x),
                 S(a, d, Plus(e, k), d0, d1, d2, d3, x))
         /\ Runs(Esp(w), S(a, d, e, d0, d1, d2, d3, x), S(a, d, w, d0, d1, d2, d3, x))
         /\ e = w => Runs(Back(w), S(a, d, e, d0, d1, d2, d3, x), S(a, d, e, d0, d1, d2, d3, x))
BY DEF Runs, Lea, LeaEsp, Esp, Back, Do, Compute, Source, State, S, Regs

\* The operation of the instruction, or a move, on a register.
LEMMA AluBytes ==
  ASSUME NEW i, i.op \in {"mov", "op"}, i.k \in {1, 2, 4}, NEW g, NEW w, w = Source(i, g),
         NEW b1, NEW b2, NEW b3, NEW b4, g[i.b] = <<b1, b2, b3, b4>>
  PROVE  Compute(i, g) = Machine!Alu(i.op, i.k, <<b1, b2, b3, b4>>, w)
<1>1. DOMAIN <<b1, b2, b3, b4>> = 1..4
  OBVIOUS
<1>2. Compute(i, g) = [j \in 1..4 |-> IF j > i.k THEN g[i.b][j]
                         ELSE IF i.op = "mov" THEN Source(i, g)[j]
                         ELSE Op(g[i.b][j], Source(i, g)[j])]
  BY DEF Compute
<1> QED
  BY <1>1, <1>2 DEF Machine!Alu

LEMMA Alus ==
  ASSUME NEW a, NEW d, NEW e, NEW d0, NEW d1, NEW d2, NEW d3, NEW x,
         NEW alu \in {"mov", "op"}, NEW len \in {1, 2, 4}, NEW w,
         NEW b1, NEW b2, NEW b3, NEW b4
  PROVE  /\ Runs(DoAlu(alu, "edx", "eax", len), S(<<b1, b2, b3, b4>>, d, e, d0, d1, d2, d3, x),
                 S(Machine!Alu(alu, len, <<b1, b2, b3, b4>>, d), d, e, d0, d1, d2, d3, x))
         /\ Runs(DoAlu(alu, "eax", "edx", len), S(a, <<b1, b2, b3, b4>>, e, d0, d1, d2, d3, x),
                 S(a, Machine!Alu(alu, len, <<b1, b2, b3, b4>>, a), e, d0, d1, d2, d3, x))
         /\ Runs(DoAlu(alu, "eax", "eax", len), S(<<b1, b2, b3, b4>>, d, e, d0, d1, d2, d3, x),
                 S(Machine!Alu(alu, len, <<b1, b2, b3, b4>>, <<b1, b2, b3, b4>>), d, e, d0, d1, d2, d3, x))
         /\ Runs(DoImm(alu, w, "eax", len), S(<<b1, b2, b3, b4>>, d, e, d0, d1, d2, d3, x),
                 S(Machine!Alu(alu, len, <<b1, b2, b3, b4>>, w), d, e, d0, d1, d2, d3, x))
<1>1. Runs(DoAlu(alu, "edx", "eax", len), S(<<b1, b2, b3, b4>>, d, e, d0, d1, d2, d3, x),
           S(Machine!Alu(alu, len, <<b1, b2, b3, b4>>, d), d, e, d0, d1, d2, d3, x))
  <2> DEFINE i == DoAlu(alu, "edx", "eax", len)
             g == Regs(<<b1, b2, b3, b4>>, d, e, d0, d1, d2, d3)
  <2>1. i.op = alu /\ i.k = len /\ i.a = "edx" /\ i.b = "eax"
    BY DEF DoAlu, Do
  <2>2. d = Source(i, g) /\ g[i.b] = <<b1, b2, b3, b4>>
    BY <2>1 DEF Source, Regs
  <2>3. Compute(i, g) = Machine!Alu(i.op, i.k, <<b1, b2, b3, b4>>, d)
    <3> HIDE DEF i, g
    <3> QED
      BY <2>1, <2>2, AluBytes
  <2>4. [g EXCEPT ![i.b] = Compute(i, g)] = Regs(Compute(i, g), d, e, d0, d1, d2, d3)
    BY <2>1 DEF Regs
  <2> HIDE DEF i
  <2> QED
    BY <2>1, <2>3, <2>4 DEF Runs, State, S, i
<1>2. Runs(DoAlu(alu, "eax", "edx", len), S(a, <<b1, b2, b3, b4>>, e, d0, d1, d2, d3, x),
           S(a, Machine!Alu(alu, len, <<b1, b2, b3, b4>>, a), e, d0, d1, d2, d3, x))
  <2> DEFINE i == DoAlu(alu, "eax", "edx", len)
             g == Regs(a, <<b1, b2, b3, b4>>, e, d0, d1, d2, d3)
  <2>1. i.op = alu /\ i.k = len /\ i.a = "eax" /\ i.b = "edx"
    BY DEF DoAlu, Do
  <2>2. a = Source(i, g) /\ g[i.b] = <<b1, b2, b3, b4>>
    BY <2>1 DEF Source, Regs
  <2>3. Compute(i, g) = Machine!Alu(i.op, i.k, <<b1, b2, b3, b4>>, a)
    <3> HIDE DEF i, g
    <3> QED
      BY <2>1, <2>2, AluBytes
  <2>4. [g EXCEPT ![i.b] = Compute(i, g)] = Regs(a, Compute(i, g), e, d0, d1, d2, d3)
    BY <2>1 DEF Regs
  <2> HIDE DEF i
  <2> QED
    BY <2>1, <2>3, <2>4 DEF Runs, State, S, i
<1>3. Runs(DoAlu(alu, "eax", "eax", len), S(<<b1, b2, b3, b4>>, d, e, d0, d1, d2, d3, x),
           S(Machine!Alu(alu, len, <<b1, b2, b3, b4>>, <<b1, b2, b3, b4>>), d, e, d0, d1, d2, d3, x))
  <2> DEFINE i == DoAlu(alu, "eax", "eax", len)
             g == Regs(<<b1, b2, b3, b4>>, d, e, d0, d1, d2, d3)
  <2>1. i.op = alu /\ i.k = len /\ i.a = "eax" /\ i.b = "eax"
    BY DEF DoAlu, Do
  <2>2. <<b1, b2, b3, b4>> = Source(i, g) /\ g[i.b] = <<b1, b2, b3, b4>>
    BY <2>1 DEF Source, Regs
  <2>3. Compute(i, g) = Machine!Alu(i.op, i.k, <<b1, b2, b3, b4>>, <<b1, b2, b3, b4>>)
    <3> HIDE DEF i, g
    <3> QED
      BY <2>1, <2>2, AluBytes
  <2>4. [g EXCEPT ![i.b] = Compute(i, g)] = Regs(Compute(i, g), d, e, d0, d1, d2, d3)
    BY <2>1 DEF Regs
  <2> HIDE DEF i
  <2> QED
    BY <2>1, <2>3, <2>4 DEF Runs, State, S, i
<1>4. Runs(DoImm(alu, w, "eax", len), S(<<b1, b2, b3, b4>>, d, e, d0, d1, d2, d3, x),
           S(Machine!Alu(alu, len, <<b1, b2, b3, b4>>, w), d, e, d0, d1, d2, d3, x))
  <2> DEFINE i == DoImm(alu, w, "eax", len)
             g == Regs(<<b1, b2, b3, b4>>, d, e, d0, d1, d2, d3)
  <2>1. i.op = alu /\ i.k = len /\ i.a = "imm" /\ i.b = "eax" /\ i.w = w
    BY DEF DoImm, Do
  <2>2. w = Source(i, g) /\ g[i.b] = <<b1, b2, b3, b4>>
    BY <2>1 DEF Source, Regs
  <2>3. Compute(i, g) = Machine!Alu(i.op, i.k, <<b1, b2, b3, b4>>, w)
    <3> HIDE DEF i, g
    <3> QED
      BY <2>1, <2>2, AluBytes
  <2>4. [g EXCEPT ![i.b] = Compute(i, g)] = Regs(Compute(i, g), d, e, d0, d1, d2, d3)
    BY <2>1 DEF Regs
  <2> HIDE DEF i
  <2> QED
    BY <2>1, <2>3, <2>4 DEF Runs, State, S, i
<1> QED
  BY <1>1, <1>2, <1>3, <1>4

LEMMA LeadsOne ==
  ASSUME NEW i1 \in Micro,
         NEW s0, NEW s1,
         Runs(i1, s0, s1)
  PROVE  Leads(<<i1>>, s0, s1) /\ <<i1>> \in Code
<1> DEFINE q == <<i1>>
           tr == <<s0, s1>>
<1>1. tr[1] = s0 /\ tr[Len(q) + 1] = s1 /\ Len(q) = 1
  OBVIOUS
<1>2. \A k \in 1..1 : Runs(q[k], tr[k], tr[k + 1])
  <2> TAKE k \in 1..1
  <2>1. k \in {1}
    OBVIOUS
  <2> QED
    BY <2>1
<1>3. q \in Code
  BY DEF Code
<1> HIDE DEF tr
<1> QED
  BY <1>1, <1>2, <1>3 DEF Leads

LEMMA LeadsTwo ==
  ASSUME NEW i1 \in Micro, NEW i2 \in Micro,
         NEW s0, NEW s1, NEW s2,
         Runs(i1, s0, s1), Runs(i2, s1, s2)
  PROVE  Leads(<<i1, i2>>, s0, s2) /\ <<i1, i2>> \in Code
<1> DEFINE q == <<i1, i2>>
           tr == <<s0, s1, s2>>
<1>1. tr[1] = s0 /\ tr[Len(q) + 1] = s2 /\ Len(q) = 2
  OBVIOUS
<1>2. \A k \in 1..2 : Runs(q[k], tr[k], tr[k + 1])
  <2> TAKE k \in 1..2
  <2>1. k \in {1, 2}
    OBVIOUS
  <2> QED
    BY <2>1
<1>3. q \in Code
  BY DEF Code
<1> HIDE DEF tr
<1> QED
  BY <1>1, <1>2, <1>3 DEF Leads

LEMMA LeadsThree ==
  ASSUME NEW i1 \in Micro, NEW i2 \in Micro, NEW i3 \in Micro,
         NEW s0, NEW s1, NEW s2, NEW s3,
         Runs(i1, s0, s1), Runs(i2, s1, s2), Runs(i3, s2, s3)
  PROVE  Leads(<<i1, i2, i3>>, s0, s3) /\ <<i1, i2, i3>> \in Code
<1> DEFINE q == <<i1, i2, i3>>
           tr == <<s0, s1, s2, s3>>
<1>1. tr[1] = s0 /\ tr[Len(q) + 1] = s3 /\ Len(q) = 3
  OBVIOUS
<1>2. \A k \in 1..3 : Runs(q[k], tr[k], tr[k + 1])
  <2> TAKE k \in 1..3
  <2>1. k \in {1, 2, 3}
    OBVIOUS
  <2> QED
    BY <2>1
<1>3. q \in Code
  BY DEF Code
<1> HIDE DEF tr
<1> QED
  BY <1>1, <1>2, <1>3 DEF Leads

LEMMA LeadsFour ==
  ASSUME NEW i1 \in Micro, NEW i2 \in Micro, NEW i3 \in Micro, NEW i4 \in Micro,
         NEW s0, NEW s1, NEW s2, NEW s3, NEW s4,
         Runs(i1, s0, s1), Runs(i2, s1, s2), Runs(i3, s2, s3), Runs(i4, s3, s4)
  PROVE  Leads(<<i1, i2, i3, i4>>, s0, s4) /\ <<i1, i2, i3, i4>> \in Code
<1> DEFINE q == <<i1, i2, i3, i4>>
           tr == <<s0, s1, s2, s3, s4>>
<1>1. tr[1] = s0 /\ tr[Len(q) + 1] = s4 /\ Len(q) = 4
  OBVIOUS
<1>2. \A k \in 1..4 : Runs(q[k], tr[k], tr[k + 1])
  <2> TAKE k \in 1..4
  <2>1. k \in {1, 2, 3, 4}
    OBVIOUS
  <2> QED
    BY <2>1
<1>3. q \in Code
  BY DEF Code
<1> HIDE DEF tr
<1> QED
  BY <1>1, <1>2, <1>3 DEF Leads

LEMMA LeadsSix ==
  ASSUME NEW i1 \in Micro, NEW i2 \in Micro, NEW i3 \in Micro, NEW i4 \in Micro, NEW i5 \in Micro, NEW i6 \in Micro,
         NEW s0, NEW s1, NEW s2, NEW s3, NEW s4, NEW s5, NEW s6,
         Runs(i1, s0, s1), Runs(i2, s1, s2), Runs(i3, s2, s3), Runs(i4, s3, s4), Runs(i5, s4, s5), Runs(i6, s5, s6)
  PROVE  Leads(<<i1, i2, i3, i4, i5, i6>>, s0, s6) /\ <<i1, i2, i3, i4, i5, i6>> \in Code
<1> DEFINE q == <<i1, i2, i3, i4, i5, i6>>
           tr == <<s0, s1, s2, s3, s4, s5, s6>>
<1>1. tr[1] = s0 /\ tr[Len(q) + 1] = s6 /\ Len(q) = 6
  OBVIOUS
<1>2. \A k \in 1..6 : Runs(q[k], tr[k], tr[k + 1])
  <2> TAKE k \in 1..6
  <2>1. k \in {1, 2, 3, 4, 5, 6}
    OBVIOUS
  <2> QED
    BY <2>1
<1>3. q \in Code
  BY DEF Code
<1> HIDE DEF tr
<1> QED
  BY <1>1, <1>2, <1>3 DEF Leads

LEMMA LeadsSeven ==
  ASSUME NEW i1 \in Micro, NEW i2 \in Micro, NEW i3 \in Micro, NEW i4 \in Micro, NEW i5 \in Micro, NEW i6 \in Micro, NEW i7 \in Micro,
         NEW s0, NEW s1, NEW s2, NEW s3, NEW s4, NEW s5, NEW s6, NEW s7,
         Runs(i1, s0, s1), Runs(i2, s1, s2), Runs(i3, s2, s3), Runs(i4, s3, s4), Runs(i5, s4, s5), Runs(i6, s5, s6), Runs(i7, s6, s7)
  PROVE  Leads(<<i1, i2, i3, i4, i5, i6, i7>>, s0, s7) /\ <<i1, i2, i3, i4, i5, i6, i7>> \in Code
<1> DEFINE q == <<i1, i2, i3, i4, i5, i6, i7>>
           tr == <<s0, s1, s2, s3, s4, s5, s6, s7>>
<1>1. tr[1] = s0 /\ tr[Len(q) + 1] = s7 /\ Len(q) = 7
  OBVIOUS
<1>2. \A k \in 1..7 : Runs(q[k], tr[k], tr[k + 1])
  <2> TAKE k \in 1..7
  <2>1. k \in {1, 2, 3, 4, 5, 6, 7}
    OBVIOUS
  <2> QED
    BY <2>1
<1>3. q \in Code
  BY DEF Code
<1> HIDE DEF tr
<1> QED
  BY <1>1, <1>2, <1>3 DEF Leads

\* Instructions are instructions.
LEMMA MicroTyped ==
  /\ \A a, b \in RegName : Mov(a, b) \in Micro
  /\ \A k \in Int : Lea(k) \in Micro /\ LeaEsp(k) \in Micro /\ Put(k) \in Micro /\ Get(k) \in Micro
  /\ Movzbl \in Micro /\ AlToAh \in Micro /\ AhToAl \in Micro /\ Bswap \in Micro /\ Jmp \in Micro
  /\ \A k \in Int : Do("lea", "esp", "esp", k, Nil) \in Micro
  /\ \A w \in Words : Esp(w) \in Micro /\ Back(w) \in Micro
  /\ \A alu \in {"mov", "op"}, a, b \in RegName, k \in Int : DoAlu(alu, a, b, k) \in Micro /\ Zext(a, b, k) \in Micro
  /\ \A alu \in {"mov", "op"}, b \in RegName, w \in Words, k \in Int : DoImm(alu, w, b, k) \in Micro
<1>1. Nil \in Words /\ 0 \in Int
  BY DEF Words
<1>2. \A a, b \in RegName : Mov(a, b) \in Micro
  BY <1>1 DEF Micro, Ops, Regd, RegName, Do, Mov
<1>3. \A k \in Int : Lea(k) \in Micro /\ LeaEsp(k) \in Micro
  BY <1>1 DEF Micro, Ops, Regd, RegName, Do, Lea, LeaEsp
<1>4. \A k \in Int : Put(k) \in Micro /\ Get(k) \in Micro
  BY <1>1 DEF Micro, Ops, Regd, RegName, Do, Put, Get
<1>5. Movzbl \in Micro /\ AlToAh \in Micro /\ AhToAl \in Micro /\ Bswap \in Micro /\ Jmp \in Micro
  BY <1>1 DEF Micro, Ops, Regd, RegName, Do, Movzbl, AlToAh, AhToAl, Bswap, Jmp
<1>6. \A k \in Int : Do("lea", "esp", "esp", k, Nil) \in Micro
  BY <1>1 DEF Micro, Ops, Regd, RegName, Do
<1>7. \A w \in Words : Esp(w) \in Micro /\ Back(w) \in Micro
  BY <1>1 DEF Micro, Ops, Regd, RegName, Do, Esp, Back
<1>8. \A alu \in {"mov", "op"}, a, b \in RegName, k \in Int : DoAlu(alu, a, b, k) \in Micro /\ Zext(a, b, k) \in Micro
  BY <1>1 DEF Micro, Ops, Regd, RegName, Do, DoAlu, Zext
<1>9. \A alu \in {"mov", "op"}, b \in RegName, w \in Words, k \in Int : DoImm(alu, w, b, k) \in Micro
  BY <1>1 DEF Micro, Ops, Regd, RegName, Do, DoImm
<1> QED
  BY <1>2, <1>3, <1>4, <1>5, <1>6, <1>7, <1>8, <1>9

(***************************************************************************)
(* The bytes of the stack                                                  *)
(***************************************************************************)

\* Two bytes that are less than the size of the table apart are not the same.
LEMMA Apart ==
  ASSUME NEW i \in Nat, NEW j \in Nat, i < j, j < i + Bytes
  PROVE  Slot(i) # Slot(j)
<1>1. Bytes \in Nat /\ Bytes > 0
  BY StackAssumption
<1>2. SUFFICES ASSUME i % Bytes = j % Bytes PROVE FALSE
  BY DEF Slot
<1> DEFINE a == i \div Bytes
           b == j \div Bytes
<1>3. i = Bytes * a + (i % Bytes) /\ j = Bytes * b + (j % Bytes) /\ a \in Int /\ b \in Int
  BY <1>1
<1> HIDE DEF a, b
<1>4. Bytes * b - Bytes * a = j - i
  BY <1>1, <1>2, <1>3
<1>5. Bytes * (b - a) = j - i
  BY <1>1, <1>3, <1>4
<1>6. CASE b - a <= 0
  BY <1>1, <1>3, <1>5, <1>6
<1>7. CASE b - a >= 1
  BY <1>1, <1>3, <1>5, <1>7
<1> QED
  BY <1>3, <1>6, <1>7

LEMMA SlotIn == \A n \in Nat : Slot(n) \in 0..(Bytes - 1)
BY StackAssumption DEF Slot

\* The bytes of the registers.
Mem(x) == x = [m \in 0..(Bytes - 1) |-> x[m]]

LEMMA Tables ==
  ASSUME NEW a1, NEW a2, NEW a3, NEW a4, NEW d, NEW e, NEW d0, NEW d1, NEW p, NEW n, NEW u, NEW v,
         NEW d3, NEW x, NEW k, n + k \in 1..(Top - 1)
  PROVE  /\ Runs(Put(k), S(<<a1, a2, a3, a4>>, d, e, d0, d1, <<p, n, u, v>>, d3, x),
                 S(<<a1, a2, a3, a4>>, InTable, InTable, d0, d1, <<p, n, u, v>>, d3,
                   [x EXCEPT ![Slot(n + k)] = a1]))
         /\ Runs(Get(k), S(<<a1, a2, a3, a4>>, d, e, d0, d1, <<p, n, u, v>>, d3, x),
                 S(<<x[Slot(n + k)], a2, a3, a4>>, InTable, InTable, d0, d1, <<p, n, u, v>>, d3, x))
<1> DEFINE g == Regs(<<a1, a2, a3, a4>>, d, e, d0, d1, <<p, n, u, v>>, d3)
<1>1. /\ Index(Put(k), g) = n + k /\ Index(Get(k), g) = n + k
      /\ g.eax = <<a1, a2, a3, a4>> /\ g.eax[1] = a1
  BY DEF Index, Put, Get, Do, Regs
<1>2. Reached(Put(k), g) /\ Reached(Get(k), g)
  BY <1>1 DEF Reached
<1>3. InTableRegs(g) = Regs(<<a1, a2, a3, a4>>, InTable, InTable, d0, d1, <<p, n, u, v>>, d3)
  <2>1. [g EXCEPT !.edx = InTable] = Regs(<<a1, a2, a3, a4>>, InTable, e, d0, d1, <<p, n, u, v>>, d3)
    BY DEF Regs
  <2>2. [Regs(<<a1, a2, a3, a4>>, InTable, e, d0, d1, <<p, n, u, v>>, d3) EXCEPT !.esp = InTable]
          = Regs(<<a1, a2, a3, a4>>, InTable, InTable, d0, d1, <<p, n, u, v>>, d3)
    BY DEF Regs
  <2>3. InTableRegs(g) = [[g EXCEPT !.edx = InTable] EXCEPT !.esp = InTable]
    BY DEF InTableRegs
  <2> QED
    BY <2>1, <2>2, <2>3
<1>4. \A y : [InTableRegs(g) EXCEPT !.eax[1] = y]
             = Regs(<<y, a2, a3, a4>>, InTable, InTable, d0, d1, <<p, n, u, v>>, d3)
  <2> TAKE y
  <2>1. [Regs(<<a1, a2, a3, a4>>, InTable, InTable, d0, d1, <<p, n, u, v>>, d3) EXCEPT !.eax[1] = y]
          = Regs(<<y, a2, a3, a4>>, InTable, InTable, d0, d1, <<p, n, u, v>>, d3)
    BY DEF Regs
  <2> HIDE DEF g
  <2> QED
    BY <1>3, <2>1
<1> HIDE DEF g
<1>5. Put(k).op = "put" /\ Get(k).op = "get"
  BY DEF Put, Get, Do
<1>6. S(<<a1, a2, a3, a4>>, d, e, d0, d1, <<p, n, u, v>>, d3, x) = State(g, x, <<>>)
  BY DEF S, g
<1>7. State(g, x, <<>>).g = g /\ State(g, x, <<>>).x = x /\ State(g, x, <<>>).to = <<>>
  BY DEF State
<1>8. Runs(Put(k), State(g, x, <<>>), State(InTableRegs(g), [x EXCEPT ![Slot(n + k)] = a1], <<>>))
  BY <1>1, <1>2, <1>5, <1>7 DEF Runs
<1>9. Runs(Get(k), State(g, x, <<>>), State([InTableRegs(g) EXCEPT !.eax[1] = x[Slot(n + k)]], x, <<>>))
  BY <1>1, <1>2, <1>5, <1>7 DEF Runs
<1> QED
  BY <1>3, <1>4, <1>6, <1>8, <1>9 DEF S

LEMMA Extends ==
  ASSUME NEW a1, NEW a2, NEW a3, NEW a4, NEW d, NEW e, NEW d0, NEW d1, NEW d2, NEW d3, NEW x,
         NEW len
  PROVE  /\ Runs(Zext("eax", "eax", len), S(<<a1, a2, a3, a4>>, d, e, d0, d1, d2, d3, x),
                 S(Machine!Zero(len, <<a1, a2, a3, a4>>), d, e, d0, d1, d2, d3, x))
         /\ Runs(Zext("eax", "edx", len), S(<<a1, a2, a3, a4>>, d, e, d0, d1, d2, d3, x),
                 S(<<a1, a2, a3, a4>>, Machine!Zero(len, <<a1, a2, a3, a4>>), e, d0, d1, d2, d3, x))
BY DEF Runs, Zext, Do, Compute, State, S, Regs, Machine!Zero

LEMMA Jumps ==
  ASSUME NEW a, NEW d, NEW e, NEW d0, NEW d1, NEW d2, NEW d3, NEW x
  PROVE  Runs(Jmp, S(a, d, e, d0, d1, d2, d3, x), State(Regs(a, d, e, d0, d1, d2, d3), x, <<e>>))
BY DEF Runs, Jmp, Do, State, S, Regs

(***************************************************************************)
(* The routines                                                            *)
(***************************************************************************)

\* y has the first len bytes of b from byte n of the stack on, and is x
\* elsewhere.
Stored(x, y, n, len, b) ==
  /\ Mem(y)
  /\ \A j \in 1..len : y[Slot((n + j) - 1)] = b[j]
  /\ \A m \in 0..(Bytes - 1) : (\A j \in 1..len : m # Slot((n + j) - 1)) => y[m] = x[m]

LEMMA StoreOne ==
  ASSUME NEW x, Mem(x), NEW n \in Nat, NEW a
  PROVE  Mem([x EXCEPT ![Slot(n)] = a])
BY SlotIn DEF Mem

\* Saving and restoring around the body of a routine.
LEMMA Routines ==
  ASSUME NEW body \in Code, NEW w \in Words, NEW a, NEW d, NEW d0, NEW d1, NEW d2, NEW d3, NEW x,
         NEW a9, NEW d9, NEW e9, NEW y,
         Leads(body, S(a, d, w, d0, d, d2, w, x), S(a9, d9, e9, d0, d, d2, w, y))
  PROVE  /\ Leads(Routine(body, w), S(a, d, w, d0, d1, d2, d3, x), S(a9, d, w, d0, d, d2, w, y))
         /\ Routine(body, w) \in Code
<1>1. {"eax", "edx", "esp", "dr0", "dr1", "dr2", "dr3"} = RegName
  BY DEF RegName
<1>2. /\ Mov("edx", "dr1") \in Micro /\ Mov("esp", "dr3") \in Micro
      /\ Mov("dr1", "edx") \in Micro /\ Mov("dr3", "esp") \in Micro /\ Back(w) \in Micro
  BY <1>1, MicroTyped
<1> DEFINE head == <<Mov("edx", "dr1"), Mov("esp", "dr3")>>
           end == <<Mov("dr1", "edx"), Mov("dr3", "esp"), Back(w)>>
<1>3. Leads(head, S(a, d, w, d0, d1, d2, d3, x), S(a, d, w, d0, d, d2, w, x)) /\ head \in Code
  <2>1. /\ Runs(Mov("edx", "dr1"), S(a, d, w, d0, d1, d2, d3, x), S(a, d, w, d0, d, d2, d3, x))
        /\ Runs(Mov("esp", "dr3"), S(a, d, w, d0, d, d2, d3, x), S(a, d, w, d0, d, d2, w, x))
    BY Movs
  <2> QED
    BY <1>2, <2>1, LeadsTwo
<1>4. Leads(end, S(a9, d9, e9, d0, d, d2, w, y), S(a9, d, w, d0, d, d2, w, y)) /\ end \in Code
  <2>1. /\ Runs(Mov("dr1", "edx"), S(a9, d9, e9, d0, d, d2, w, y), S(a9, d, e9, d0, d, d2, w, y))
        /\ Runs(Mov("dr3", "esp"), S(a9, d, e9, d0, d, d2, w, y), S(a9, d, w, d0, d, d2, w, y))
    BY Movs
  <2>2. Runs(Back(w), S(a9, d, w, d0, d, d2, w, y), S(a9, d, w, d0, d, d2, w, y))
    BY DEF Runs, Back, Do, State, S, Regs
  <2> QED
    BY <1>2, <2>1, <2>2, LeadsThree
<1> HIDE DEF head, end
<1>5. Leads(head \o body, S(a, d, w, d0, d1, d2, d3, x), S(a9, d9, e9, d0, d, d2, w, y)) /\ head \o body \in Code
  BY <1>3, LeadsThen
<1>6. Leads((head \o body) \o end, S(a, d, w, d0, d1, d2, d3, x), S(a9, d, w, d0, d, d2, w, y))
      /\ (head \o body) \o end \in Code
  BY <1>4, <1>5, LeadsThen
<1> QED
  BY <1>6 DEF Routine, head, end

\* What n bytes of room there are from byte n on.
InTheTable(n, len) == n \in 1..(Top - len)

LEMMA GetOne ==
  ASSUME NEW a1, NEW a2, NEW a3, NEW a4, NEW d, NEW d0, NEW d1, NEW p, NEW n, NEW u, NEW v, NEW d3,
         NEW x, NEW w \in Words, InTheTable(n, 1)
  PROVE  /\ Leads(getxmm(1, w), S(<<a1, a2, a3, a4>>, d, w, d0, d1, <<p, n, u, v>>, d3, x),
                  S(<<x[Slot(n)], a2, a3, a4>>, d, w, d0, d, <<p, n, u, v>>, w, x))
         /\ getxmm(1, w) \in Code
<1>0. n \in Nat /\ Top \in 0..255 /\ n + 0 \in 1..(Top - 1)
  BY StackAssumption DEF InTheTable
<1>1. /\ Runs(Get(0), S(<<a1, a2, a3, a4>>, d, w, d0, d, <<p, n, u, v>>, w, x),
              S(<<x[Slot(n + 0)], a2, a3, a4>>, InTable, InTable, d0, d, <<p, n, u, v>>, w, x))
  <2>1. Runs(Get(0), S(<<a1, a2, a3, a4>>, d, w, d0, d, <<p, n, u, v>>, w, x),
            S(<<x[Slot(n + 0)], a2, a3, a4>>, InTable, InTable, d0, d, <<p, n, u, v>>, w, x))
    BY <1>0, Tables
  <2> QED
    BY <2>1
<1>4. Get(0) \in Micro
  BY MicroTyped
<1>5. Leads(<<Get(0)>>, S(<<a1, a2, a3, a4>>, d, w, d0, d, <<p, n, u, v>>, w, x),
            S(<<x[Slot(n + 0)], a2, a3, a4>>, InTable, InTable, d0, d, <<p, n, u, v>>, w, x))
      /\ <<Get(0)>> \in Code
  BY <1>1, <1>4, LeadsOne
<1>6. getxmm(1, w) = Routine(<<Get(0)>>, w)
  BY DEF getxmm
<1>7. /\ Leads(getxmm(1, w), S(<<a1, a2, a3, a4>>, d, w, d0, d1, <<p, n, u, v>>, d3, x),
               S(<<x[Slot(n + 0)], a2, a3, a4>>, d, w, d0, d, <<p, n, u, v>>, w, x))
      /\ getxmm(1, w) \in Code
  BY <1>5, <1>6, Routines
<1> QED
  BY <1>0, <1>7

LEMMA GetTwo ==
  ASSUME NEW a1, NEW a2, NEW a3, NEW a4, NEW d, NEW d0, NEW d1, NEW p, NEW n, NEW u, NEW v, NEW d3,
         NEW x, NEW w \in Words, InTheTable(n, 2)
  PROVE  /\ Leads(getxmm(2, w), S(<<a1, a2, a3, a4>>, d, w, d0, d1, <<p, n, u, v>>, d3, x),
                  S(<<x[Slot(n)], x[Slot(n + 1)], a3, a4>>, d, w, d0, d, <<p, n, u, v>>, w, x))
         /\ getxmm(2, w) \in Code
<1>0. n \in Nat /\ Top \in 0..255 /\ n + 0 \in 1..(Top - 1) /\ n + 1 \in 1..(Top - 1)
  BY StackAssumption DEF InTheTable
<1>1. /\ Runs(Get(1), S(<<a1, a2, a3, a4>>, d, w, d0, d, <<p, n, u, v>>, w, x),
              S(<<x[Slot(n + 1)], a2, a3, a4>>, InTable, InTable, d0, d, <<p, n, u, v>>, w, x))
      /\ Runs(AlToAh, S(<<x[Slot(n + 1)], a2, a3, a4>>, InTable, InTable, d0, d, <<p, n, u, v>>, w, x),
              S(<<x[Slot(n + 1)], x[Slot(n + 1)], a3, a4>>, InTable, InTable, d0, d, <<p, n, u, v>>, w, x))
      /\ Runs(Get(0), S(<<x[Slot(n + 1)], x[Slot(n + 1)], a3, a4>>, InTable, InTable, d0, d, <<p, n, u, v>>, w, x),
              S(<<x[Slot(n + 0)], x[Slot(n + 1)], a3, a4>>, InTable, InTable, d0, d, <<p, n, u, v>>, w, x))
  <2>1. Runs(Get(1), S(<<a1, a2, a3, a4>>, d, w, d0, d, <<p, n, u, v>>, w, x),
            S(<<x[Slot(n + 1)], a2, a3, a4>>, InTable, InTable, d0, d, <<p, n, u, v>>, w, x))
    BY <1>0, Tables
  <2>2. Runs(AlToAh, S(<<x[Slot(n + 1)], a2, a3, a4>>, InTable, InTable, d0, d, <<p, n, u, v>>, w, x),
            S(<<x[Slot(n + 1)], x[Slot(n + 1)], a3, a4>>, InTable, InTable, d0, d, <<p, n, u, v>>, w, x))
    BY Bytewise
  <2>3. Runs(Get(0), S(<<x[Slot(n + 1)], x[Slot(n + 1)], a3, a4>>, InTable, InTable, d0, d, <<p, n, u, v>>, w, x),
            S(<<x[Slot(n + 0)], x[Slot(n + 1)], a3, a4>>, InTable, InTable, d0, d, <<p, n, u, v>>, w, x))
    BY <1>0, Tables
  <2> QED
    BY <2>1, <2>2, <2>3
<1>4. AlToAh \in Micro /\ Get(0) \in Micro /\ Get(1) \in Micro
  BY MicroTyped
<1>5. Leads(<<Get(1), AlToAh, Get(0)>>, S(<<a1, a2, a3, a4>>, d, w, d0, d, <<p, n, u, v>>, w, x),
            S(<<x[Slot(n + 0)], x[Slot(n + 1)], a3, a4>>, InTable, InTable, d0, d, <<p, n, u, v>>, w, x))
      /\ <<Get(1), AlToAh, Get(0)>> \in Code
  BY <1>1, <1>4, LeadsThree
<1>6. getxmm(2, w) = Routine(<<Get(1), AlToAh, Get(0)>>, w)
  BY DEF getxmm
<1>7. /\ Leads(getxmm(2, w), S(<<a1, a2, a3, a4>>, d, w, d0, d1, <<p, n, u, v>>, d3, x),
               S(<<x[Slot(n + 0)], x[Slot(n + 1)], a3, a4>>, d, w, d0, d, <<p, n, u, v>>, w, x))
      /\ getxmm(2, w) \in Code
  BY <1>5, <1>6, Routines
<1> QED
  BY <1>0, <1>7

LEMMA GetFour ==
  ASSUME NEW a1, NEW a2, NEW a3, NEW a4, NEW d, NEW d0, NEW d1, NEW p, NEW n, NEW u, NEW v, NEW d3,
         NEW x, NEW w \in Words, InTheTable(n, 4)
  PROVE  /\ Leads(getxmm(4, w), S(<<a1, a2, a3, a4>>, d, w, d0, d1, <<p, n, u, v>>, d3, x),
                  S(<<x[Slot(n)], x[Slot(n + 1)], x[Slot(n + 2)], x[Slot(n + 3)]>>, d, w, d0, d, <<p, n, u, v>>, w, x))
         /\ getxmm(4, w) \in Code
<1>0. n \in Nat /\ Top \in 0..255 /\ n + 0 \in 1..(Top - 1) /\ n + 1 \in 1..(Top - 1) /\ n + 2 \in 1..(Top - 1) /\ n + 3 \in 1..(Top - 1)
  BY StackAssumption DEF InTheTable
<1>1. /\ Runs(Get(2), S(<<a1, a2, a3, a4>>, d, w, d0, d, <<p, n, u, v>>, w, x),
              S(<<x[Slot(n + 2)], a2, a3, a4>>, InTable, InTable, d0, d, <<p, n, u, v>>, w, x))
      /\ Runs(AlToAh, S(<<x[Slot(n + 2)], a2, a3, a4>>, InTable, InTable, d0, d, <<p, n, u, v>>, w, x),
              S(<<x[Slot(n + 2)], x[Slot(n + 2)], a3, a4>>, InTable, InTable, d0, d, <<p, n, u, v>>, w, x))
      /\ Runs(Get(3), S(<<x[Slot(n + 2)], x[Slot(n + 2)], a3, a4>>, InTable, InTable, d0, d, <<p, n, u, v>>, w, x),
              S(<<x[Slot(n + 3)], x[Slot(n + 2)], a3, a4>>, InTable, InTable, d0, d, <<p, n, u, v>>, w, x))
      /\ Runs(Bswap, S(<<x[Slot(n + 3)], x[Slot(n + 2)], a3, a4>>, InTable, InTable, d0, d, <<p, n, u, v>>, w, x),
              S(<<a4, a3, x[Slot(n + 2)], x[Slot(n + 3)]>>, InTable, InTable, d0, d, <<p, n, u, v>>, w, x))
      /\ Runs(Get(1), S(<<a4, a3, x[Slot(n + 2)], x[Slot(n + 3)]>>, InTable, InTable, d0, d, <<p, n, u, v>>, w, x),
              S(<<x[Slot(n + 1)], a3, x[Slot(n + 2)], x[Slot(n + 3)]>>, InTable, InTable, d0, d, <<p, n, u, v>>, w, x))
      /\ Runs(AlToAh, S(<<x[Slot(n + 1)], a3, x[Slot(n + 2)], x[Slot(n + 3)]>>, InTable, InTable, d0, d, <<p, n, u, v>>, w, x),
              S(<<x[Slot(n + 1)], x[Slot(n + 1)], x[Slot(n + 2)], x[Slot(n + 3)]>>, InTable, InTable, d0, d, <<p, n, u, v>>, w, x))
      /\ Runs(Get(0), S(<<x[Slot(n + 1)], x[Slot(n + 1)], x[Slot(n + 2)], x[Slot(n + 3)]>>, InTable, InTable, d0, d, <<p, n, u, v>>, w, x),
              S(<<x[Slot(n + 0)], x[Slot(n + 1)], x[Slot(n + 2)], x[Slot(n + 3)]>>, InTable, InTable, d0, d, <<p, n, u, v>>, w, x))
  <2>1. Runs(Get(2), S(<<a1, a2, a3, a4>>, d, w, d0, d, <<p, n, u, v>>, w, x),
            S(<<x[Slot(n + 2)], a2, a3, a4>>, InTable, InTable, d0, d, <<p, n, u, v>>, w, x))
    BY <1>0, Tables
  <2>2. Runs(AlToAh, S(<<x[Slot(n + 2)], a2, a3, a4>>, InTable, InTable, d0, d, <<p, n, u, v>>, w, x),
            S(<<x[Slot(n + 2)], x[Slot(n + 2)], a3, a4>>, InTable, InTable, d0, d, <<p, n, u, v>>, w, x))
    BY Bytewise
  <2>3. Runs(Get(3), S(<<x[Slot(n + 2)], x[Slot(n + 2)], a3, a4>>, InTable, InTable, d0, d, <<p, n, u, v>>, w, x),
            S(<<x[Slot(n + 3)], x[Slot(n + 2)], a3, a4>>, InTable, InTable, d0, d, <<p, n, u, v>>, w, x))
    BY <1>0, Tables
  <2>4. Runs(Bswap, S(<<x[Slot(n + 3)], x[Slot(n + 2)], a3, a4>>, InTable, InTable, d0, d, <<p, n, u, v>>, w, x),
            S(<<a4, a3, x[Slot(n + 2)], x[Slot(n + 3)]>>, InTable, InTable, d0, d, <<p, n, u, v>>, w, x))
    BY Bytewise
  <2>5. Runs(Get(1), S(<<a4, a3, x[Slot(n + 2)], x[Slot(n + 3)]>>, InTable, InTable, d0, d, <<p, n, u, v>>, w, x),
            S(<<x[Slot(n + 1)], a3, x[Slot(n + 2)], x[Slot(n + 3)]>>, InTable, InTable, d0, d, <<p, n, u, v>>, w, x))
    BY <1>0, Tables
  <2>6. Runs(AlToAh, S(<<x[Slot(n + 1)], a3, x[Slot(n + 2)], x[Slot(n + 3)]>>, InTable, InTable, d0, d, <<p, n, u, v>>, w, x),
            S(<<x[Slot(n + 1)], x[Slot(n + 1)], x[Slot(n + 2)], x[Slot(n + 3)]>>, InTable, InTable, d0, d, <<p, n, u, v>>, w, x))
    BY Bytewise
  <2>7. Runs(Get(0), S(<<x[Slot(n + 1)], x[Slot(n + 1)], x[Slot(n + 2)], x[Slot(n + 3)]>>, InTable, InTable, d0, d, <<p, n, u, v>>, w, x),
            S(<<x[Slot(n + 0)], x[Slot(n + 1)], x[Slot(n + 2)], x[Slot(n + 3)]>>, InTable, InTable, d0, d, <<p, n, u, v>>, w, x))
    BY <1>0, Tables
  <2> QED
    BY <2>1, <2>2, <2>3, <2>4, <2>5, <2>6, <2>7
<1>4. AlToAh \in Micro /\ Bswap \in Micro /\ Get(0) \in Micro /\ Get(1) \in Micro /\ Get(2) \in Micro /\ Get(3) \in Micro
  BY MicroTyped
<1>5. Leads(<<Get(2), AlToAh, Get(3), Bswap, Get(1), AlToAh, Get(0)>>, S(<<a1, a2, a3, a4>>, d, w, d0, d, <<p, n, u, v>>, w, x),
            S(<<x[Slot(n + 0)], x[Slot(n + 1)], x[Slot(n + 2)], x[Slot(n + 3)]>>, InTable, InTable, d0, d, <<p, n, u, v>>, w, x))
      /\ <<Get(2), AlToAh, Get(3), Bswap, Get(1), AlToAh, Get(0)>> \in Code
  BY <1>1, <1>4, LeadsSeven
<1>6. getxmm(4, w) = Routine(<<Get(2), AlToAh, Get(3), Bswap, Get(1), AlToAh, Get(0)>>, w)
  BY DEF getxmm
<1>7. /\ Leads(getxmm(4, w), S(<<a1, a2, a3, a4>>, d, w, d0, d1, <<p, n, u, v>>, d3, x),
               S(<<x[Slot(n + 0)], x[Slot(n + 1)], x[Slot(n + 2)], x[Slot(n + 3)]>>, d, w, d0, d, <<p, n, u, v>>, w, x))
      /\ getxmm(4, w) \in Code
  BY <1>5, <1>6, Routines
<1> QED
  BY <1>0, <1>7

LEMMA SetOne ==
  ASSUME NEW a1, NEW a2, NEW a3, NEW a4, NEW d, NEW d0, NEW d1, NEW p, NEW n, NEW u, NEW v, NEW d3,
         NEW x, NEW w \in Words, InTheTable(n, 1), Mem(x), Bytes >= 1
  PROVE  \E a, y : /\ Stored(x, y, n, 1, <<a1, a2, a3, a4>>)
                  /\ Leads(setxmm(1, w), S(<<a1, a2, a3, a4>>, d, w, d0, d1, <<p, n, u, v>>, d3, x),
                           S(a, d, w, d0, d, <<p, n, u, v>>, w, y))
                  /\ setxmm(1, w) \in Code
<1>0. n \in Nat /\ Top \in 0..255 /\ n + 0 \in 1..(Top - 1)
  BY StackAssumption DEF InTheTable
<1> DEFINE y1 == [x EXCEPT ![Slot(n + 0)] = a1]
<1>1. /\ Runs(Put(0), S(<<a1, a2, a3, a4>>, d, w, d0, d, <<p, n, u, v>>, w, x),
              S(<<a1, a2, a3, a4>>, InTable, InTable, d0, d, <<p, n, u, v>>, w, y1))
  <2>1. Runs(Put(0), S(<<a1, a2, a3, a4>>, d, w, d0, d, <<p, n, u, v>>, w, x),
            S(<<a1, a2, a3, a4>>, InTable, InTable, d0, d, <<p, n, u, v>>, w, y1))
    BY <1>0, Tables
  <2> QED
    BY <2>1
<1>2. Mem(y1)
  BY <1>0, StoreOne
<1>3. Stored(x, y1, n, 1, <<a1, a2, a3, a4>>)
  <2>1. Slot(n + 0) \in 0..(Bytes - 1) /\ (n + 1) - 1 = n + 0 /\ \A j \in 1..1 : j = 1
    BY <1>0, SlotIn
  <2>2. y1[Slot(n + 0)] = a1 /\ \A m \in 0..(Bytes - 1) : m # Slot(n + 0) => y1[m] = x[m]
    BY <2>1 DEF Mem
  <2> HIDE DEF y1
  <2> QED
    BY <1>2, <2>1, <2>2 DEF Stored
<1> HIDE DEF y1
<1>4. Put(0) \in Micro
  BY MicroTyped
<1>5. Leads(<<Put(0)>>, S(<<a1, a2, a3, a4>>, d, w, d0, d, <<p, n, u, v>>, w, x),
            S(<<a1, a2, a3, a4>>, InTable, InTable, d0, d, <<p, n, u, v>>, w, y1))
      /\ <<Put(0)>> \in Code
  BY <1>1, <1>4, LeadsOne
<1>6. setxmm(1, w) = Routine(<<Put(0)>>, w)
  BY DEF setxmm
<1>7. /\ Leads(setxmm(1, w), S(<<a1, a2, a3, a4>>, d, w, d0, d1, <<p, n, u, v>>, d3, x),
               S(<<a1, a2, a3, a4>>, d, w, d0, d, <<p, n, u, v>>, w, y1))
      /\ setxmm(1, w) \in Code
  BY <1>5, <1>6, Routines
<1> QED
  BY <1>3, <1>7

LEMMA SetTwo ==
  ASSUME NEW a1, NEW a2, NEW a3, NEW a4, NEW d, NEW d0, NEW d1, NEW p, NEW n, NEW u, NEW v, NEW d3,
         NEW x, NEW w \in Words, InTheTable(n, 2), Mem(x), Bytes >= 2
  PROVE  \E a, y : /\ Stored(x, y, n, 2, <<a1, a2, a3, a4>>)
                  /\ Leads(setxmm(2, w), S(<<a1, a2, a3, a4>>, d, w, d0, d1, <<p, n, u, v>>, d3, x),
                           S(a, d, w, d0, d, <<p, n, u, v>>, w, y))
                  /\ setxmm(2, w) \in Code
<1>0. n \in Nat /\ Top \in 0..255 /\ n + 0 \in 1..(Top - 1) /\ n + 1 \in 1..(Top - 1)
  BY StackAssumption DEF InTheTable
<1> DEFINE y1 == [x EXCEPT ![Slot(n + 0)] = a1]
           y2 == [y1 EXCEPT ![Slot(n + 1)] = a2]
<1>1. /\ Runs(Put(0), S(<<a1, a2, a3, a4>>, d, w, d0, d, <<p, n, u, v>>, w, x),
              S(<<a1, a2, a3, a4>>, InTable, InTable, d0, d, <<p, n, u, v>>, w, y1))
      /\ Runs(AhToAl, S(<<a1, a2, a3, a4>>, InTable, InTable, d0, d, <<p, n, u, v>>, w, y1),
              S(<<a2, a2, a3, a4>>, InTable, InTable, d0, d, <<p, n, u, v>>, w, y1))
      /\ Runs(Put(1), S(<<a2, a2, a3, a4>>, InTable, InTable, d0, d, <<p, n, u, v>>, w, y1),
              S(<<a2, a2, a3, a4>>, InTable, InTable, d0, d, <<p, n, u, v>>, w, y2))
  <2>1. Runs(Put(0), S(<<a1, a2, a3, a4>>, d, w, d0, d, <<p, n, u, v>>, w, x),
            S(<<a1, a2, a3, a4>>, InTable, InTable, d0, d, <<p, n, u, v>>, w, y1))
    BY <1>0, Tables
  <2>2. Runs(AhToAl, S(<<a1, a2, a3, a4>>, InTable, InTable, d0, d, <<p, n, u, v>>, w, y1),
            S(<<a2, a2, a3, a4>>, InTable, InTable, d0, d, <<p, n, u, v>>, w, y1))
    BY Bytewise
  <2>3. Runs(Put(1), S(<<a2, a2, a3, a4>>, InTable, InTable, d0, d, <<p, n, u, v>>, w, y1),
            S(<<a2, a2, a3, a4>>, InTable, InTable, d0, d, <<p, n, u, v>>, w, y2))
    BY <1>0, Tables
  <2> QED
    BY <2>1, <2>2, <2>3
<1>2. Mem(y1) /\ Mem(y2)
  <2>1. n + 0 \in Nat /\ n + 1 \in Nat
    BY <1>0
  <2>2. Mem(y1)
    BY <2>1, StoreOne
  <2>3. Mem(y2)
    BY <2>1, <2>2, StoreOne
  <2> QED
    BY <2>2, <2>3
<1>3. Stored(x, y2, n, 2, <<a1, a2, a3, a4>>)
  <2>1. Slot(n + 0) \in 0..(Bytes - 1) /\ Slot(n + 1) \in 0..(Bytes - 1)
    BY <1>0, SlotIn
  <2>2. Slot(n + 0) # Slot(n + 1)
    BY <1>0, StackAssumption, Apart
  <2>3. y1[Slot(n + 0)] = a1 /\ \A m \in 0..(Bytes - 1) : m # Slot(n + 0) => y1[m] = x[m]
    BY <2>1 DEF Mem
  <2>4. y2[Slot(n + 1)] = a2 /\ \A m \in 0..(Bytes - 1) : m # Slot(n + 1) => y2[m] = y1[m]
    BY <1>2, <2>1 DEF Mem
  <2> HIDE DEF y1, y2
  <2>7. y2[Slot(n + 0)] = a1 /\ y2[Slot(n + 1)] = a2
    BY <2>1, <2>2, <2>3, <2>4
  <2>8. \A m \in 0..(Bytes - 1) : m # Slot(n + 0) /\ m # Slot(n + 1) => y2[m] = x[m]
    BY <2>3, <2>4
  <2>9. (n + 1) - 1 = n + 0 /\ (n + 2) - 1 = n + 1 /\ \A j \in 1..2 : j \in {1, 2}
    BY <1>0
  <2> QED
    BY <1>2, <2>7, <2>8, <2>9 DEF Stored
<1> HIDE DEF y1, y2
<1>4. AhToAl \in Micro /\ Put(0) \in Micro /\ Put(1) \in Micro
  BY MicroTyped
<1>5. Leads(<<Put(0), AhToAl, Put(1)>>, S(<<a1, a2, a3, a4>>, d, w, d0, d, <<p, n, u, v>>, w, x),
            S(<<a2, a2, a3, a4>>, InTable, InTable, d0, d, <<p, n, u, v>>, w, y2))
      /\ <<Put(0), AhToAl, Put(1)>> \in Code
  BY <1>1, <1>4, LeadsThree
<1>6. setxmm(2, w) = Routine(<<Put(0), AhToAl, Put(1)>>, w)
  BY DEF setxmm
<1>7. /\ Leads(setxmm(2, w), S(<<a1, a2, a3, a4>>, d, w, d0, d1, <<p, n, u, v>>, d3, x),
               S(<<a2, a2, a3, a4>>, d, w, d0, d, <<p, n, u, v>>, w, y2))
      /\ setxmm(2, w) \in Code
  BY <1>5, <1>6, Routines
<1> QED
  BY <1>3, <1>7

LEMMA SetFour ==
  ASSUME NEW a1, NEW a2, NEW a3, NEW a4, NEW d, NEW d0, NEW d1, NEW p, NEW n, NEW u, NEW v, NEW d3,
         NEW x, NEW w \in Words, InTheTable(n, 4), Mem(x), Bytes >= 4
  PROVE  \E a, y : /\ Stored(x, y, n, 4, <<a1, a2, a3, a4>>)
                  /\ Leads(setxmm(4, w), S(<<a1, a2, a3, a4>>, d, w, d0, d1, <<p, n, u, v>>, d3, x),
                           S(a, d, w, d0, d, <<p, n, u, v>>, w, y))
                  /\ setxmm(4, w) \in Code
<1>0. n \in Nat /\ Top \in 0..255 /\ n + 0 \in 1..(Top - 1) /\ n + 1 \in 1..(Top - 1) /\ n + 2 \in 1..(Top - 1) /\ n + 3 \in 1..(Top - 1)
  BY StackAssumption DEF InTheTable
<1> DEFINE y1 == [x EXCEPT ![Slot(n + 0)] = a1]
           y2 == [y1 EXCEPT ![Slot(n + 1)] = a2]
           y3 == [y2 EXCEPT ![Slot(n + 3)] = a4]
           y4 == [y3 EXCEPT ![Slot(n + 2)] = a3]
<1>1. /\ Runs(Put(0), S(<<a1, a2, a3, a4>>, d, w, d0, d, <<p, n, u, v>>, w, x),
              S(<<a1, a2, a3, a4>>, InTable, InTable, d0, d, <<p, n, u, v>>, w, y1))
      /\ Runs(AhToAl, S(<<a1, a2, a3, a4>>, InTable, InTable, d0, d, <<p, n, u, v>>, w, y1),
              S(<<a2, a2, a3, a4>>, InTable, InTable, d0, d, <<p, n, u, v>>, w, y1))
      /\ Runs(Put(1), S(<<a2, a2, a3, a4>>, InTable, InTable, d0, d, <<p, n, u, v>>, w, y1),
              S(<<a2, a2, a3, a4>>, InTable, InTable, d0, d, <<p, n, u, v>>, w, y2))
      /\ Runs(Bswap, S(<<a2, a2, a3, a4>>, InTable, InTable, d0, d, <<p, n, u, v>>, w, y2),
              S(<<a4, a3, a2, a2>>, InTable, InTable, d0, d, <<p, n, u, v>>, w, y2))
      /\ Runs(Put(3), S(<<a4, a3, a2, a2>>, InTable, InTable, d0, d, <<p, n, u, v>>, w, y2),
              S(<<a4, a3, a2, a2>>, InTable, InTable, d0, d, <<p, n, u, v>>, w, y3))
      /\ Runs(AhToAl, S(<<a4, a3, a2, a2>>, InTable, InTable, d0, d, <<p, n, u, v>>, w, y3),
              S(<<a3, a3, a2, a2>>, InTable, InTable, d0, d, <<p, n, u, v>>, w, y3))
      /\ Runs(Put(2), S(<<a3, a3, a2, a2>>, InTable, InTable, d0, d, <<p, n, u, v>>, w, y3),
              S(<<a3, a3, a2, a2>>, InTable, InTable, d0, d, <<p, n, u, v>>, w, y4))
  <2>1. Runs(Put(0), S(<<a1, a2, a3, a4>>, d, w, d0, d, <<p, n, u, v>>, w, x),
            S(<<a1, a2, a3, a4>>, InTable, InTable, d0, d, <<p, n, u, v>>, w, y1))
    BY <1>0, Tables
  <2>2. Runs(AhToAl, S(<<a1, a2, a3, a4>>, InTable, InTable, d0, d, <<p, n, u, v>>, w, y1),
            S(<<a2, a2, a3, a4>>, InTable, InTable, d0, d, <<p, n, u, v>>, w, y1))
    BY Bytewise
  <2>3. Runs(Put(1), S(<<a2, a2, a3, a4>>, InTable, InTable, d0, d, <<p, n, u, v>>, w, y1),
            S(<<a2, a2, a3, a4>>, InTable, InTable, d0, d, <<p, n, u, v>>, w, y2))
    BY <1>0, Tables
  <2>4. Runs(Bswap, S(<<a2, a2, a3, a4>>, InTable, InTable, d0, d, <<p, n, u, v>>, w, y2),
            S(<<a4, a3, a2, a2>>, InTable, InTable, d0, d, <<p, n, u, v>>, w, y2))
    BY Bytewise
  <2>5. Runs(Put(3), S(<<a4, a3, a2, a2>>, InTable, InTable, d0, d, <<p, n, u, v>>, w, y2),
            S(<<a4, a3, a2, a2>>, InTable, InTable, d0, d, <<p, n, u, v>>, w, y3))
    BY <1>0, Tables
  <2>6. Runs(AhToAl, S(<<a4, a3, a2, a2>>, InTable, InTable, d0, d, <<p, n, u, v>>, w, y3),
            S(<<a3, a3, a2, a2>>, InTable, InTable, d0, d, <<p, n, u, v>>, w, y3))
    BY Bytewise
  <2>7. Runs(Put(2), S(<<a3, a3, a2, a2>>, InTable, InTable, d0, d, <<p, n, u, v>>, w, y3),
            S(<<a3, a3, a2, a2>>, InTable, InTable, d0, d, <<p, n, u, v>>, w, y4))
    BY <1>0, Tables
  <2> QED
    BY <2>1, <2>2, <2>3, <2>4, <2>5, <2>6, <2>7
<1>2. Mem(y1) /\ Mem(y2) /\ Mem(y3) /\ Mem(y4)
  <2>1. n + 0 \in Nat /\ n + 1 \in Nat /\ n + 2 \in Nat /\ n + 3 \in Nat
    BY <1>0
  <2>2. Mem(y1)
    BY <2>1, StoreOne
  <2>3. Mem(y2)
    BY <2>1, <2>2, StoreOne
  <2>4. Mem(y3)
    BY <2>1, <2>3, StoreOne
  <2>5. Mem(y4)
    BY <2>1, <2>4, StoreOne
  <2> QED
    BY <2>2, <2>3, <2>4, <2>5
<1>3. Stored(x, y4, n, 4, <<a1, a2, a3, a4>>)
  <2>1. Slot(n + 0) \in 0..(Bytes - 1) /\ Slot(n + 1) \in 0..(Bytes - 1) /\ Slot(n + 2) \in 0..(Bytes - 1) /\ Slot(n + 3) \in 0..(Bytes - 1)
    BY <1>0, SlotIn
  <2>2. Slot(n + 0) # Slot(n + 1) /\ Slot(n + 0) # Slot(n + 2) /\ Slot(n + 0) # Slot(n + 3) /\ Slot(n + 1) # Slot(n + 2) /\ Slot(n + 1) # Slot(n + 3) /\ Slot(n + 2) # Slot(n + 3)
    BY <1>0, StackAssumption, Apart
  <2>3. y1[Slot(n + 0)] = a1 /\ \A m \in 0..(Bytes - 1) : m # Slot(n + 0) => y1[m] = x[m]
    BY <2>1 DEF Mem
  <2>4. y2[Slot(n + 1)] = a2 /\ \A m \in 0..(Bytes - 1) : m # Slot(n + 1) => y2[m] = y1[m]
    BY <1>2, <2>1 DEF Mem
  <2>5. y3[Slot(n + 3)] = a4 /\ \A m \in 0..(Bytes - 1) : m # Slot(n + 3) => y3[m] = y2[m]
    BY <1>2, <2>1 DEF Mem
  <2>6. y4[Slot(n + 2)] = a3 /\ \A m \in 0..(Bytes - 1) : m # Slot(n + 2) => y4[m] = y3[m]
    BY <1>2, <2>1 DEF Mem
  <2> HIDE DEF y1, y2, y3, y4
  <2>7. y4[Slot(n + 0)] = a1 /\ y4[Slot(n + 1)] = a2 /\ y4[Slot(n + 2)] = a3 /\ y4[Slot(n + 3)] = a4
    BY <2>1, <2>2, <2>3, <2>4, <2>5, <2>6
  <2>8. \A m \in 0..(Bytes - 1) : m # Slot(n + 0) /\ m # Slot(n + 1) /\ m # Slot(n + 2) /\ m # Slot(n + 3) => y4[m] = x[m]
    BY <2>3, <2>4, <2>5, <2>6
  <2>9. (n + 1) - 1 = n + 0 /\ (n + 2) - 1 = n + 1 /\ (n + 3) - 1 = n + 2 /\ (n + 4) - 1 = n + 3 /\ \A j \in 1..4 : j \in {1, 2, 3, 4}
    BY <1>0
  <2> QED
    BY <1>2, <2>7, <2>8, <2>9 DEF Stored
<1> HIDE DEF y1, y2, y3, y4
<1>4. AhToAl \in Micro /\ Bswap \in Micro /\ Put(0) \in Micro /\ Put(1) \in Micro /\ Put(2) \in Micro /\ Put(3) \in Micro
  BY MicroTyped
<1>5. Leads(<<Put(0), AhToAl, Put(1), Bswap, Put(3), AhToAl, Put(2)>>, S(<<a1, a2, a3, a4>>, d, w, d0, d, <<p, n, u, v>>, w, x),
            S(<<a3, a3, a2, a2>>, InTable, InTable, d0, d, <<p, n, u, v>>, w, y4))
      /\ <<Put(0), AhToAl, Put(1), Bswap, Put(3), AhToAl, Put(2)>> \in Code
  BY <1>1, <1>4, LeadsSeven
<1>6. setxmm(4, w) = Routine(<<Put(0), AhToAl, Put(1), Bswap, Put(3), AhToAl, Put(2)>>, w)
  BY DEF setxmm
<1>7. /\ Leads(setxmm(4, w), S(<<a1, a2, a3, a4>>, d, w, d0, d1, <<p, n, u, v>>, d3, x),
               S(<<a3, a3, a2, a2>>, d, w, d0, d, <<p, n, u, v>>, w, y4))
      /\ setxmm(4, w) \in Code
  BY <1>5, <1>6, Routines
<1> QED
  BY <1>3, <1>7

\* Where the stack pointer and the byte to be reached are.
LEMMA Above ==
  ASSUME NEW p \in 0..255, NEW h \in 0..255, NEW u, NEW v, p + 4 <= 255
  PROVE  Plus(<<p, h, u, v>>, 4) = <<p + 4, h, u, v>>
<1>1. Low(<<p, h, u, v>>) + 4 = (p + 4) + 256 * h
  BY DEF Low
<1>2. /\ ((p + 4) + 256 * h) % 65536 = (p + 4) + 256 * h
      /\ ((p + 4) + 256 * h) % 256 = p + 4 /\ ((p + 4) + 256 * h) \div 256 = h
  OBVIOUS
<1> QED
  BY <1>1, <1>2 DEF Plus

LEMMA Below ==
  ASSUME NEW p \in 0..255, NEW h \in 0..255, NEW u, NEW v, p >= 4
  PROVE  Plus(<<p, h, u, v>>, -4) = <<p - 4, h, u, v>>
<1>1. Low(<<p, h, u, v>>) + -4 = (p - 4) + 256 * h
  BY DEF Low
<1>2. /\ ((p - 4) + 256 * h) % 65536 = (p - 4) + 256 * h
      /\ ((p - 4) + 256 * h) % 256 = p - 4 /\ ((p - 4) + 256 * h) \div 256 = h
  OBVIOUS
<1> QED
  BY <1>1, <1>2 DEF Plus

LEMMA Downwards ==
  ASSUME NEW p \in 0..255, p >= 4
  PROVE  Plus(<<p, 0, 0, 0>>, -4) = <<p - 4, 0, 0, 0>>
<1>1. Low(<<p, 0, 0, 0>>) + -4 = p - 4
  BY DEF Low
<1>2. (p - 4) % 65536 = p - 4 /\ (p - 4) % 256 = p - 4 /\ (p - 4) \div 256 = 0
  OBVIOUS
<1> QED
  BY <1>1, <1>2 DEF Plus

LEMMA Upwards ==
  ASSUME NEW p \in 0..255, NEW h \in 0..255, NEW n \in Nat, h + n <= 255
  PROVE  Plus(<<p, h, 0, 0>>, 256 * n) = <<p, h + n, 0, 0>>
<1>1. Low(<<p, h, 0, 0>>) + 256 * n = p + 256 * (h + n)
  BY DEF Low
<1>2. /\ (p + 256 * (h + n)) % 65536 = p + 256 * (h + n)
      /\ (p + 256 * (h + n)) % 256 = p /\ (p + 256 * (h + n)) \div 256 = h + n
  OBVIOUS
<1> QED
  BY <1>1, <1>2 DEF Plus

LEMMA Reaches ==
  ASSUME NEW a, NEW d, NEW e, NEW d0, NEW d1, NEW d3, NEW x,
         NEW p \in 0..255, NEW h, NEW u, NEW v, NEW n \in Nat, p + n <= 255
  PROVE  /\ Leads(Reach(n), S(a, d, e, d0, d1, <<p, h, u, v>>, d3, x),
                  S(a, d, e, a, d1, <<p, p + n, 0, 0>>, d3, x))
         /\ Reach(n) \in Code
<1>1. /\ Runs(Mov("eax", "dr0"), S(a, d, e, d0, d1, <<p, h, u, v>>, d3, x), S(a, d, e, a, d1, <<p, h, u, v>>, d3, x))
      /\ Runs(Mov("dr2", "eax"), S(a, d, e, a, d1, <<p, h, u, v>>, d3, x),
              S(<<p, h, u, v>>, d, e, a, d1, <<p, h, u, v>>, d3, x))
      /\ Runs(Mov("eax", "dr2"), S(<<p, p + n, 0, 0>>, d, e, a, d1, <<p, h, u, v>>, d3, x),
              S(<<p, p + n, 0, 0>>, d, e, a, d1, <<p, p + n, 0, 0>>, d3, x))
      /\ Runs(Mov("dr0", "eax"), S(<<p, p + n, 0, 0>>, d, e, a, d1, <<p, p + n, 0, 0>>, d3, x),
              S(a, d, e, a, d1, <<p, p + n, 0, 0>>, d3, x))
  BY Movs
<1>2. /\ Runs(Movzbl, S(<<p, h, u, v>>, d, e, a, d1, <<p, h, u, v>>, d3, x),
              S(<<p, 0, 0, 0>>, d, e, a, d1, <<p, h, u, v>>, d3, x))
      /\ Runs(AlToAh, S(<<p, 0, 0, 0>>, d, e, a, d1, <<p, h, u, v>>, d3, x),
              S(<<p, p, 0, 0>>, d, e, a, d1, <<p, h, u, v>>, d3, x))
  BY Bytewise
<1>3. 256 * n \in Int /\ Plus(<<p, p, 0, 0>>, 256 * n) = <<p, p + n, 0, 0>>
  <2>1. Plus(<<p, p, 0, 0>>, 256 * n) = <<p, p + n, 0, 0>>
    BY Upwards
  <2> QED
    BY <2>1
<1>4. Runs(Lea(256 * n), S(<<p, p, 0, 0>>, d, e, a, d1, <<p, h, u, v>>, d3, x),
           S(<<p, p + n, 0, 0>>, d, e, a, d1, <<p, h, u, v>>, d3, x))
  BY <1>3, Sums
<1>5. /\ Mov("eax", "dr0") \in Micro /\ Mov("dr2", "eax") \in Micro /\ Mov("eax", "dr2") \in Micro
      /\ Mov("dr0", "eax") \in Micro /\ Movzbl \in Micro /\ AlToAh \in Micro /\ Lea(256 * n) \in Micro
  BY <1>3, MicroTyped DEF RegName
<1> QED
  BY <1>1, <1>2, <1>4, <1>5, LeadsSeven DEF Reach

LEMMA Pushes ==
  ASSUME NEW a1, NEW a2, NEW a3, NEW a4, NEW d, NEW d0, NEW d1, NEW d3, NEW x, Mem(x), Bytes >= 4,
         NEW p \in 5..Top, NEW h, NEW u, NEW v
  PROVE  \E a, y : /\ Stored(x, y, p - 4, 4, <<a1, a2, a3, a4>>)
                   /\ Leads(dopush, S(<<a1, a2, a3, a4>>, d, Here, d0, d1, <<p, h, u, v>>, d3, x),
                            S(a, d, Here, d0, d, <<p - 4, p - 4, 0, 0>>, Here, y))
                   /\ dopush \in Code
<1> DEFINE w == <<a1, a2, a3, a4>>
           c == <<Mov("eax", "dr3"), Mov("dr2", "eax"), Movzbl, Lea(-4), AlToAh, Mov("eax", "dr2"),
                  Mov("dr3", "eax")>>
<1>0. p \in 0..255 /\ p >= 4 /\ 0 \in 0..255 /\ InTheTable(p - 4, 4) /\ Here \in Words
  BY StackAssumption DEF InTheTable, Words
<1>1. /\ Runs(Mov("eax", "dr3"), S(w, d, Here, d0, d1, <<p, h, u, v>>, d3, x),
              S(w, d, Here, d0, d1, <<p, h, u, v>>, w, x))
      /\ Runs(Mov("dr2", "eax"), S(w, d, Here, d0, d1, <<p, h, u, v>>, w, x),
              S(<<p, h, u, v>>, d, Here, d0, d1, <<p, h, u, v>>, w, x))
      /\ Runs(Mov("eax", "dr2"), S(<<p - 4, p - 4, 0, 0>>, d, Here, d0, d1, <<p, h, u, v>>, w, x),
              S(<<p - 4, p - 4, 0, 0>>, d, Here, d0, d1, <<p - 4, p - 4, 0, 0>>, w, x))
      /\ Runs(Mov("dr3", "eax"), S(<<p - 4, p - 4, 0, 0>>, d, Here, d0, d1, <<p - 4, p - 4, 0, 0>>, w, x),
              S(w, d, Here, d0, d1, <<p - 4, p - 4, 0, 0>>, w, x))
  BY Movs
<1>2. /\ Runs(Movzbl, S(<<p, h, u, v>>, d, Here, d0, d1, <<p, h, u, v>>, w, x),
              S(<<p, 0, 0, 0>>, d, Here, d0, d1, <<p, h, u, v>>, w, x))
      /\ Runs(AlToAh, S(<<p - 4, 0, 0, 0>>, d, Here, d0, d1, <<p, h, u, v>>, w, x),
              S(<<p - 4, p - 4, 0, 0>>, d, Here, d0, d1, <<p, h, u, v>>, w, x))
  BY Bytewise
<1>3. Plus(<<p, 0, 0, 0>>, -4) = <<p - 4, 0, 0, 0>>
  BY <1>0, Downwards
<1>4. Runs(Lea(-4), S(<<p, 0, 0, 0>>, d, Here, d0, d1, <<p, h, u, v>>, w, x),
           S(<<p - 4, 0, 0, 0>>, d, Here, d0, d1, <<p, h, u, v>>, w, x))
  <2>1. -4 \in Int
    OBVIOUS
  <2> QED
    BY <1>3, <2>1, Sums
<1>5. /\ Mov("eax", "dr3") \in Micro /\ Mov("dr2", "eax") \in Micro /\ Mov("eax", "dr2") \in Micro
      /\ Mov("dr3", "eax") \in Micro /\ Movzbl \in Micro /\ AlToAh \in Micro /\ Lea(-4) \in Micro
  BY MicroTyped DEF RegName
<1>6. Leads(c, S(w, d, Here, d0, d1, <<p, h, u, v>>, d3, x),
            S(w, d, Here, d0, d1, <<p - 4, p - 4, 0, 0>>, w, x)) /\ c \in Code
  BY <1>1, <1>2, <1>4, <1>5, LeadsSeven
<1> HIDE DEF c
<1>7. PICK a, y : /\ Stored(x, y, p - 4, 4, <<a1, a2, a3, a4>>)
                  /\ Leads(setxmm(4, Here), S(w, d, Here, d0, d1, <<p - 4, p - 4, 0, 0>>, w, x),
                           S(a, d, Here, d0, d, <<p - 4, p - 4, 0, 0>>, Here, y))
                  /\ setxmm(4, Here) \in Code
  BY <1>0, SetFour
<1>8. dopush = c \o setxmm(4, Here)
  BY DEF dopush, c
<1> QED
  BY <1>6, <1>7, <1>8, LeadsThen

LEMMA Pops ==
  ASSUME NEW a, NEW d, NEW d0, NEW d1, NEW d3, NEW x, NEW p \in 1..(Top - 4), NEW h, NEW u, NEW v
  PROVE  /\ Leads(dopop, S(a, d, Here, d0, d1, <<p, h, u, v>>, d3, x),
                  S(<<x[Slot(p)], x[Slot(p + 1)], x[Slot(p + 2)], x[Slot(p + 3)]>>, d, Here, a, d,
                    <<p + 4, p, 0, 0>>, Here, x))
         /\ dopop \in Code
<1> DEFINE c == <<Mov("eax", "dr0"), Mov("dr2", "eax"), Movzbl, AlToAh, Lea(4), Mov("eax", "dr2")>>
<1>0. p \in 0..255 /\ p + 4 <= 255 /\ InTheTable(p, 4) /\ Here \in Words
  BY StackAssumption DEF InTheTable, Words
<1>1. /\ Runs(Mov("eax", "dr0"), S(a, d, Here, d0, d1, <<p, h, u, v>>, d3, x),
              S(a, d, Here, a, d1, <<p, h, u, v>>, d3, x))
      /\ Runs(Mov("dr2", "eax"), S(a, d, Here, a, d1, <<p, h, u, v>>, d3, x),
              S(<<p, h, u, v>>, d, Here, a, d1, <<p, h, u, v>>, d3, x))
      /\ Runs(Mov("eax", "dr2"), S(<<p + 4, p, 0, 0>>, d, Here, a, d1, <<p, h, u, v>>, d3, x),
              S(<<p + 4, p, 0, 0>>, d, Here, a, d1, <<p + 4, p, 0, 0>>, d3, x))
  BY Movs
<1>2. /\ Runs(Movzbl, S(<<p, h, u, v>>, d, Here, a, d1, <<p, h, u, v>>, d3, x),
              S(<<p, 0, 0, 0>>, d, Here, a, d1, <<p, h, u, v>>, d3, x))
      /\ Runs(AlToAh, S(<<p, 0, 0, 0>>, d, Here, a, d1, <<p, h, u, v>>, d3, x),
              S(<<p, p, 0, 0>>, d, Here, a, d1, <<p, h, u, v>>, d3, x))
  BY Bytewise
<1>3. Runs(Lea(4), S(<<p, p, 0, 0>>, d, Here, a, d1, <<p, h, u, v>>, d3, x),
           S(<<p + 4, p, 0, 0>>, d, Here, a, d1, <<p, h, u, v>>, d3, x))
  <2>1. Plus(<<p, p, 0, 0>>, 4) = <<p + 4, p, 0, 0>>
    BY <1>0, Above, Zenon
  <2>2. 4 \in Int
    OBVIOUS
  <2> QED
    BY <2>1, <2>2, Sums
<1>4. /\ Mov("eax", "dr0") \in Micro /\ Mov("dr2", "eax") \in Micro /\ Mov("eax", "dr2") \in Micro
      /\ Movzbl \in Micro /\ AlToAh \in Micro /\ Lea(4) \in Micro
  BY MicroTyped DEF RegName
<1>5. Leads(c, S(a, d, Here, d0, d1, <<p, h, u, v>>, d3, x),
            S(<<p + 4, p, 0, 0>>, d, Here, a, d1, <<p + 4, p, 0, 0>>, d3, x)) /\ c \in Code
  BY <1>1, <1>2, <1>3, <1>4, LeadsSix
<1> HIDE DEF c
<1>6. /\ Leads(getxmm(4, Here), S(<<p + 4, p, 0, 0>>, d, Here, a, d1, <<p + 4, p, 0, 0>>, d3, x),
               S(<<x[Slot(p)], x[Slot(p + 1)], x[Slot(p + 2)], x[Slot(p + 3)]>>, d, Here, a, d,
                    <<p + 4, p, 0, 0>>, Here, x))
      /\ getxmm(4, Here) \in Code
  BY <1>0, GetFour
<1>7. dopop = c \o getxmm(4, Here)
  BY DEF dopop, c
<1> QED
  BY <1>5, <1>6, <1>7, LeadsThen

Called(a, d, d0, d1, d3, x, p, h, u, v, w, a1, a2, a3, a4) ==
  \E a9, y : /\ Stored(x, y, p - 4, 4, <<a1, a2, a3, a4>>)
             /\ Leads(docall(w), S(a, d, w, d0, d1, <<p, h, u, v>>, d3, x),
                      S(a9, d, w, a, d, <<p - 4, p - 4, 0, 0>>, w, y))
             /\ docall(w) \in Code

LEMMA Calls ==
  ASSUME NEW a, NEW d, NEW d0, NEW d1, NEW d3, NEW x, Mem(x), Bytes >= 4,
         NEW p \in 5..Top, NEW h, NEW u, NEW v, NEW w \in Words,
         NEW a1, NEW a2, NEW a3, NEW a4, Plus(w, 8) = <<a1, a2, a3, a4>>
  PROVE  Called(a, d, d0, d1, d3, x, p, h, u, v, w, a1, a2, a3, a4)
<1> SUFFICES \E a9, y : /\ Stored(x, y, p - 4, 4, <<a1, a2, a3, a4>>)
                        /\ Leads(docall(w), S(a, d, w, d0, d1, <<p, h, u, v>>, d3, x),
                                 S(a9, d, w, a, d, <<p - 4, p - 4, 0, 0>>, w, y))
                        /\ docall(w) \in Code
  BY DEF Called
<1> DEFINE c == <<Mov("eax", "dr0"), Mov("dr2", "eax"), Movzbl, Lea(-4), AlToAh, Mov("eax", "dr2"),
                  LeaEsp(8)>>
<1>0. p \in 0..255 /\ p >= 4 /\ 0 \in 0..255 /\ InTheTable(p - 4, 4)
  BY StackAssumption DEF InTheTable
<1>1. /\ Runs(Mov("eax", "dr0"), S(a, d, w, d0, d1, <<p, h, u, v>>, d3, x),
              S(a, d, w, a, d1, <<p, h, u, v>>, d3, x))
      /\ Runs(Mov("dr2", "eax"), S(a, d, w, a, d1, <<p, h, u, v>>, d3, x),
              S(<<p, h, u, v>>, d, w, a, d1, <<p, h, u, v>>, d3, x))
      /\ Runs(Mov("eax", "dr2"), S(<<p - 4, p - 4, 0, 0>>, d, w, a, d1, <<p, h, u, v>>, d3, x),
              S(<<p - 4, p - 4, 0, 0>>, d, w, a, d1, <<p - 4, p - 4, 0, 0>>, d3, x))
  BY Movs
<1>2. /\ Runs(Movzbl, S(<<p, h, u, v>>, d, w, a, d1, <<p, h, u, v>>, d3, x),
              S(<<p, 0, 0, 0>>, d, w, a, d1, <<p, h, u, v>>, d3, x))
      /\ Runs(AlToAh, S(<<p - 4, 0, 0, 0>>, d, w, a, d1, <<p, h, u, v>>, d3, x),
              S(<<p - 4, p - 4, 0, 0>>, d, w, a, d1, <<p, h, u, v>>, d3, x))
  BY Bytewise
<1>3. /\ Runs(Lea(-4), S(<<p, 0, 0, 0>>, d, w, a, d1, <<p, h, u, v>>, d3, x),
              S(<<p - 4, 0, 0, 0>>, d, w, a, d1, <<p, h, u, v>>, d3, x))
      /\ Runs(LeaEsp(8), S(<<p - 4, p - 4, 0, 0>>, d, w, a, d1, <<p - 4, p - 4, 0, 0>>, d3, x),
              S(<<a1, a2, a3, a4>>, d, w, a, d1, <<p - 4, p - 4, 0, 0>>, d3, x))
  <2>1. Plus(<<p, 0, 0, 0>>, -4) = <<p - 4, 0, 0, 0>>
    BY <1>0, Downwards
  <2>2. -4 \in Int /\ 8 \in Int
    OBVIOUS
  <2> QED
    BY <2>1, <2>2, Sums
<1>4. /\ Mov("eax", "dr0") \in Micro /\ Mov("dr2", "eax") \in Micro /\ Mov("eax", "dr2") \in Micro
      /\ Movzbl \in Micro /\ AlToAh \in Micro /\ Lea(-4) \in Micro /\ LeaEsp(8) \in Micro
  BY MicroTyped DEF RegName
<1>5. Leads(c, S(a, d, w, d0, d1, <<p, h, u, v>>, d3, x),
            S(<<a1, a2, a3, a4>>, d, w, a, d1, <<p - 4, p - 4, 0, 0>>, d3, x)) /\ c \in Code
  BY <1>1, <1>2, <1>3, <1>4, LeadsSeven
<1> HIDE DEF c
<1>6. PICK a9, y : /\ Stored(x, y, p - 4, 4, <<a1, a2, a3, a4>>)
                   /\ Leads(setxmm(4, w), S(<<a1, a2, a3, a4>>, d, w, a, d1, <<p - 4, p - 4, 0, 0>>, d3, x),
                            S(a9, d, w, a, d, <<p - 4, p - 4, 0, 0>>, w, y))
                   /\ setxmm(4, w) \in Code
  BY <1>0, SetFour
<1>7. docall(w) = c \o setxmm(4, w)
  BY DEF docall, c
<1> QED
  BY <1>5, <1>6, <1>7, LeadsThen

(***************************************************************************)
(* The stack that the program sees                                         *)
(***************************************************************************)

\* The stack from byte p on.
Stack(p, x) == [j \in 1..(Top - p) |-> x[Slot((p + j) - 1)]]

LEMMA StackSeq ==
  ASSUME NEW x, NEW p \in 0..Top, NEW V, \A m \in 0..(Bytes - 1) : x[m] \in V
  PROVE  /\ Stack(p, x) \in Seq(V) /\ Len(Stack(p, x)) = Top - p
         /\ \A j \in 1..(Top - p) : Stack(p, x)[j] = x[Slot((p + j) - 1)]
<1>1. Top - p \in Nat
  BY StackAssumption
<1>2. \A j \in 1..(Top - p) : x[Slot((p + j) - 1)] \in V
  BY SlotIn, StackAssumption
<1>3. Stack(p, x) \in [1..(Top - p) -> V]
  BY <1>2 DEF Stack
<1> QED
  BY <1>1, <1>3 DEF Stack

LEMMA StackLength ==
  ASSUME NEW x, NEW p \in 0..Top
  PROVE  Len(Stack(p, x)) = Top - p
<1> DEFINE V == {x[m] : m \in 0..(Bytes - 1)}
<1>1. \A m \in 0..(Bytes - 1) : x[m] \in V
  OBVIOUS
<1> HIDE DEF V
<1> QED
  BY <1>1, StackSeq

LEMMA StackWord ==
  ASSUME NEW x, NEW p \in 0..Top, NEW n \in Nat, n + 4 <= Top - p
  PROVE  SubSeq(Stack(p, x), n + 1, n + 4)
           = <<x[Slot(p + n)], x[Slot(p + n + 1)], x[Slot(p + n + 2)], x[Slot(p + n + 3)]>>
<1> DEFINE V == {x[m] : m \in 0..(Bytes - 1)}
           s == Stack(p, x)
           w == <<x[Slot(p + n)], x[Slot(p + n + 1)], x[Slot(p + n + 2)], x[Slot(p + n + 3)]>>
<1>0. Top \in Nat /\ p \in Nat
  BY StackAssumption
<1>1. s \in Seq(V) /\ Len(s) = Top - p /\ \A j \in 1..(Top - p) : s[j] = x[Slot((p + j) - 1)]
  <2>1. \A m \in 0..(Bytes - 1) : x[m] \in V
    OBVIOUS
  <2> HIDE DEF V
  <2> QED
    BY <2>1, StackSeq
<1>2. \A j \in (n + 1)..(n + 4) : s[j] \in V
  <2> HIDE DEF V, s
  <2> QED
    BY <1>0, <1>1, ElementOfSeq
<1> HIDE DEF V, s
<1>3. /\ SubSeq(s, n + 1, n + 4) \in Seq(V) /\ Len(SubSeq(s, n + 1, n + 4)) = 4
      /\ \A j \in 1..4 : SubSeq(s, n + 1, n + 4)[j] = s[n + j]
  <2>1. n + 1 \in Int /\ n + 4 \in Int /\ (n + 4) - (n + 1) + 1 = 4 /\ n + 1 <= n + 4
        /\ \A j \in 1..4 : n + j = ((n + 1) + j) - 1
    OBVIOUS
  <2> QED
    BY <1>2, <2>1, SubSeqProperties
<1>4. s[n + 1] = x[Slot(p + n)] /\ s[n + 2] = x[Slot(p + n + 1)] /\ s[n + 3] = x[Slot(p + n + 2)]
      /\ s[n + 4] = x[Slot(p + n + 3)]
  <2>1. n + 1 \in 1..(Top - p) /\ n + 2 \in 1..(Top - p) /\ n + 3 \in 1..(Top - p) /\ n + 4 \in 1..(Top - p)
    BY <1>0
  <2>2. /\ (p + (n + 1)) - 1 = p + n /\ (p + (n + 2)) - 1 = p + n + 1
        /\ (p + (n + 3)) - 1 = p + n + 2 /\ (p + (n + 4)) - 1 = p + n + 3
    BY <1>0
  <2> QED
    BY <1>1, <2>1, <2>2
<1>5. w \in Seq(V) /\ Len(w) = 4
  <2>1. s[n + 1] \in V /\ s[n + 2] \in V /\ s[n + 3] \in V /\ s[n + 4] \in V
    BY <1>2
  <2> QED
    BY <1>4, <2>1
<1>6. \A j \in 1..4 : SubSeq(s, n + 1, n + 4)[j] = w[j]
  <2> TAKE j \in 1..4
  <2>1. j \in {1, 2, 3, 4}
    OBVIOUS
  <2> QED
    BY <1>3, <1>4, <2>1
<1>7. SubSeq(s, n + 1, n + 4) = w
  <2> HIDE DEF w
  <2> QED
    BY <1>3, <1>5, <1>6, SeqEqual
<1> QED
  BY <1>7 DEF s

\* A word that was put on top.
LEMMA StackPushed ==
  ASSUME NEW x, NEW y, NEW p \in 4..Top, (Top - p) + 4 <= Bytes,
         NEW b1, NEW b2, NEW b3, NEW b4, Stored(x, y, p - 4, 4, <<b1, b2, b3, b4>>)
  PROVE  Stack(p - 4, y) = <<b1, b2, b3, b4>> \o Stack(p, x)
<1> DEFINE V == {x[m] : m \in 0..(Bytes - 1)} \cup {y[m] : m \in 0..(Bytes - 1)} \cup {b1, b2, b3, b4}
           b == <<b1, b2, b3, b4>>
<1>0. Top \in Nat /\ Bytes \in Nat /\ p - 4 \in 0..Top /\ p \in 0..Top /\ p \in Nat
  BY StackAssumption
<1>1. b \in Seq(V) /\ Len(b) = 4
  OBVIOUS
<1>2. (\A m \in 0..(Bytes - 1) : x[m] \in V) /\ (\A m \in 0..(Bytes - 1) : y[m] \in V)
  OBVIOUS
<1>3. b[1] = b1 /\ b[2] = b2 /\ b[3] = b3 /\ b[4] = b4
  OBVIOUS
<1> HIDE DEF V, b
<1>4. /\ Stack(p, x) \in Seq(V) /\ Len(Stack(p, x)) = Top - p
      /\ \A j \in 1..(Top - p) : Stack(p, x)[j] = x[Slot((p + j) - 1)]
  BY <1>0, <1>2, StackSeq
<1>5. /\ Stack(p - 4, y) \in Seq(V) /\ Len(Stack(p - 4, y)) = (Top - p) + 4
      /\ \A j \in 1..((Top - p) + 4) : Stack(p - 4, y)[j] = y[Slot(((p - 4) + j) - 1)]
  <2>1. Top - (p - 4) = (Top - p) + 4
    BY <1>0
  <2>2. /\ Stack(p - 4, y) \in Seq(V) /\ Len(Stack(p - 4, y)) = Top - (p - 4)
        /\ \A j \in 1..(Top - (p - 4)) : Stack(p - 4, y)[j] = y[Slot(((p - 4) + j) - 1)]
    BY <1>0, <1>2, StackSeq
  <2> QED
    BY <2>1, <2>2
<1>6. /\ b \o Stack(p, x) \in Seq(V) /\ Len(b \o Stack(p, x)) = (Top - p) + 4
      /\ \A j \in 1..((Top - p) + 4) :
           (b \o Stack(p, x))[j] = IF j <= 4 THEN b[j] ELSE Stack(p, x)[j - 4]
  <2>1. 4 + (Top - p) = (Top - p) + 4
    BY <1>0
  <2> DEFINE s == Stack(p, x)
  <2>2. s \in Seq(V) /\ Len(s) = Top - p
    BY <1>4
  <2> HIDE DEF s
  <2>3. /\ b \o s \in Seq(V) /\ Len(b \o s) = Len(b) + Len(s)
        /\ \A j \in 1..Len(b) + Len(s) : (b \o s)[j] = IF j <= Len(b) THEN b[j] ELSE s[j - Len(b)]
    BY <1>1, <2>2, ConcatProperties
  <2>4. /\ b \o s \in Seq(V) /\ Len(b \o s) = (Top - p) + 4
        /\ \A j \in 1..((Top - p) + 4) : (b \o s)[j] = IF j <= 4 THEN b[j] ELSE s[j - 4]
    BY <1>1, <2>1, <2>2, <2>3
  <2> QED
    BY <2>4 DEF s
<1>7. ASSUME NEW j \in 1..((Top - p) + 4)
      PROVE  Stack(p - 4, y)[j] = (b \o Stack(p, x))[j]
  <2>1. CASE j <= 4
    <3>1. j \in 1..4
      BY <1>0, <2>1
    <3>2. y[Slot(((p - 4) + j) - 1)] = b[j]
      BY <3>1 DEF Stored, b
    <3> QED
      BY <1>5, <1>6, <2>1, <3>2
  <2>2. CASE j > 4
    <3>1. j - 4 \in 1..(Top - p) /\ (p + (j - 4)) - 1 = ((p - 4) + j) - 1 /\ ~(j <= 4)
          /\ ((p - 4) + j) - 1 \in Nat
      BY <1>0, <2>2
    <3> DEFINE m == ((p - 4) + j) - 1
    <3>2. \A k \in 1..4 : Slot(m) # Slot(((p - 4) + k) - 1)
      <4> TAKE k \in 1..4
      <4> DEFINE q == ((p - 4) + k) - 1
      <4>1. q \in Nat /\ m \in Nat /\ q < m /\ m < q + Bytes
        BY <1>0, <2>2
      <4> HIDE DEF q, m
      <4> QED
        BY <4>1, Apart DEF q
    <3>3. Slot(m) \in 0..(Bytes - 1)
      BY <3>1, SlotIn
    <3>4. y[Slot(m)] = x[Slot(m)]
      <4> HIDE DEF m
      <4> QED
        BY <3>2, <3>3 DEF Stored
    <3>5. Stack(p, x)[j - 4] = x[Slot(m)]
      BY <1>4, <3>1
    <3> QED
      BY <1>5, <1>6, <3>1, <3>4, <3>5
  <2>3. j <= 4 \/ j > 4
    BY <1>0
  <2> QED
    BY <2>1, <2>2, <2>3
<1>8. Stack(p - 4, y) = b \o Stack(p, x)
  BY <1>5, <1>6, <1>7, SeqEqual
<1> QED
  BY <1>8 DEF b

\* A word that was taken from the top, or dropped; seen from below, one that
\* was made room for.
LEMMA StackPopped ==
  ASSUME NEW x, NEW p \in 0..Top, p + 4 <= Top
  PROVE  /\ Stack(p + 4, x) = SubSeq(Stack(p, x), 5, Len(Stack(p, x)))
         /\ Len(Stack(p, x)) = Len(Stack(p + 4, x)) + 4
<1> DEFINE V == {x[m] : m \in 0..(Bytes - 1)}
           s == Stack(p, x)
<1>0. Top \in Nat /\ p \in Nat /\ p + 4 \in 0..Top
  BY StackAssumption
<1>1. \A m \in 0..(Bytes - 1) : x[m] \in V
  OBVIOUS
<1> HIDE DEF V
<1>2. s \in Seq(V) /\ Len(s) = Top - p /\ \A j \in 1..(Top - p) : s[j] = x[Slot((p + j) - 1)]
  BY <1>1, StackSeq
<1>3. /\ Stack(p + 4, x) \in Seq(V) /\ Len(Stack(p + 4, x)) = Top - (p + 4)
      /\ \A j \in 1..(Top - (p + 4)) : Stack(p + 4, x)[j] = x[Slot(((p + 4) + j) - 1)]
  BY <1>0, <1>1, StackSeq
<1> HIDE DEF s
<1>4. \A j \in 5..Len(s) : s[j] \in V
  BY <1>0, <1>2, ElementOfSeq
<1>5. /\ SubSeq(s, 5, Len(s)) \in Seq(V) /\ Len(SubSeq(s, 5, Len(s))) = Top - (p + 4)
      /\ \A j \in 1..(Top - (p + 4)) : SubSeq(s, 5, Len(s))[j] = s[j + 4]
  <2>1. /\ 5 \in Int /\ Len(s) \in Int /\ Len(s) - 5 + 1 = Top - (p + 4)
        /\ (5 > Len(s) => Top - (p + 4) = 0)
        /\ \A j \in 1..(Top - (p + 4)) : 5 + j - 1 = j + 4
    BY <1>0, <1>2
  <2> QED
    BY <1>4, <2>1, SubSeqProperties
<1>6. ASSUME NEW j \in 1..(Top - (p + 4))
      PROVE  SubSeq(s, 5, Len(s))[j] = Stack(p + 4, x)[j]
  <2>1. j + 4 \in 1..(Top - p) /\ (p + (j + 4)) - 1 = ((p + 4) + j) - 1
    BY <1>0
  <2> QED
    BY <1>2, <1>3, <1>5, <2>1
<1>7. Stack(p + 4, x) = SubSeq(s, 5, Len(s))
  BY <1>3, <1>5, <1>6, SeqEqual
<1>8. Len(s) = Len(Stack(p + 4, x)) + 4
  BY <1>0, <1>2, <1>3
<1> QED
  BY <1>7, <1>8 DEF s

\* Sequences in three parts.
Replaced(s, n, w) == (SubSeq(s, 1, n) \o w) \o SubSeq(s, n + 5, Len(s))

LEMMA ThreeParts ==
  ASSUME NEW V, NEW s \in Seq(V), NEW n \in Nat, n + 4 <= Len(s), NEW w \in Seq(V), Len(w) = 4
  PROVE  /\ Replaced(s, n, w) \in Seq(V) /\ Len(Replaced(s, n, w)) = Len(s)
         /\ \A j \in 1..Len(s) :
              Replaced(s, n, w)[j] = IF j <= n THEN s[j] ELSE IF j <= n + 4 THEN w[j - n] ELSE s[j]
<1> DEFINE a == SubSeq(s, 1, n)
           c == SubSeq(s, n + 5, Len(s))
<1>0. Len(s) \in Nat /\ \A j \in 1..Len(s) : s[j] \in V
  BY ElementOfSeq
<1>1. a \in Seq(V) /\ Len(a) = n /\ \A j \in 1..n : a[j] = s[j]
  <2>1. /\ 1 \in Int /\ n \in Int /\ n - 1 + 1 = n /\ (~(1 <= n) => n = 0) /\ \A j \in 1..n : s[j] \in V
        /\ \A j \in 1..n : 1 + j - 1 = j
    BY <1>0
  <2>2. /\ a \in Seq(V) /\ Len(a) = IF 1 <= n THEN n - 1 + 1 ELSE 0
        /\ \A j \in 1..n - 1 + 1 : a[j] = s[1 + j - 1]
    BY <2>1, SubSeqProperties
  <2> HIDE DEF a
  <2> QED
    BY <2>1, <2>2
<1>2. /\ c \in Seq(V) /\ Len(c) = Len(s) - (n + 4)
      /\ \A j \in 1..(Len(s) - (n + 4)) : c[j] = s[j + (n + 4)]
  <2>1. /\ n + 5 \in Int /\ Len(s) \in Int /\ Len(s) - (n + 5) + 1 = Len(s) - (n + 4)
        /\ (~(n + 5 <= Len(s)) => Len(s) - (n + 4) = 0)
        /\ \A j \in (n + 5)..Len(s) : s[j] \in V
        /\ \A j \in 1..(Len(s) - (n + 4)) : (n + 5) + j - 1 = j + (n + 4)
    BY <1>0
  <2>2. /\ c \in Seq(V) /\ Len(c) = IF n + 5 <= Len(s) THEN Len(s) - (n + 5) + 1 ELSE 0
        /\ \A j \in 1..Len(s) - (n + 5) + 1 : c[j] = s[(n + 5) + j - 1]
    <3> DEFINE lo == n + 5
               hi == Len(s)
    <3>1. lo \in Int /\ hi \in Int /\ \A j \in lo..hi : s[j] \in V
      BY <2>1
    <3>2. c = SubSeq(s, lo, hi)
      OBVIOUS
    <3> HIDE DEF lo, hi, c
    <3>3. /\ c \in Seq(V) /\ Len(c) = IF lo <= hi THEN hi - lo + 1 ELSE 0
          /\ \A j \in 1..hi - lo + 1 : c[j] = s[lo + j - 1]
      BY <3>1, <3>2, SubSeqProperties
    <3> QED
      BY <3>3 DEF lo, hi
  <2> HIDE DEF c
  <2> QED
    BY <2>1, <2>2
<1> HIDE DEF a, c
<1>3. /\ a \o w \in Seq(V) /\ Len(a \o w) = n + 4
      /\ \A j \in 1..(n + 4) : (a \o w)[j] = IF j <= n THEN s[j] ELSE w[j - n]
  <2>1. /\ a \o w \in Seq(V) /\ Len(a \o w) = Len(a) + Len(w)
        /\ \A j \in 1..Len(a) + Len(w) : (a \o w)[j] = IF j <= Len(a) THEN a[j] ELSE w[j - Len(a)]
    BY <1>1, ConcatProperties
  <2> QED
    BY <1>1, <2>1
<1> DEFINE b == a \o w
<1>4. b \in Seq(V) /\ Len(b) = n + 4
  BY <1>3
<1> HIDE DEF b
<1>5. /\ b \o c \in Seq(V) /\ Len(b \o c) = Len(b) + Len(c)
      /\ \A j \in 1..Len(b) + Len(c) : (b \o c)[j] = IF j <= Len(b) THEN b[j] ELSE c[j - Len(b)]
  <2>1. b \in Seq(V) /\ c \in Seq(V)
    BY <1>2, <1>4
  <2> QED
    BY <2>1, ConcatProperties
<1>6. Len(b) + Len(c) = Len(s)
  BY <1>0, <1>2, <1>4
<1>7. ASSUME NEW j \in 1..Len(s)
      PROVE  (b \o c)[j] = IF j <= n THEN s[j] ELSE IF j <= n + 4 THEN w[j - n] ELSE s[j]
  <2>0. (b \o c)[j] = IF j <= n + 4 THEN b[j] ELSE c[j - (n + 4)]
    BY <1>4, <1>5, <1>6
  <2>1. CASE j <= n
    BY <1>3, <2>0, <2>1 DEF b
  <2>2. CASE j > n /\ j <= n + 4
    BY <1>3, <2>0, <2>2 DEF b
  <2>3. CASE j > n + 4
    <3>1. j - (n + 4) \in 1..(Len(s) - (n + 4)) /\ (j - (n + 4)) + (n + 4) = j
      BY <1>0, <2>3
    <3> QED
      BY <1>2, <2>0, <2>3, <3>1
  <2>4. j <= n \/ (j > n /\ j <= n + 4) \/ j > n + 4
    OBVIOUS
  <2> QED
    BY <2>1, <2>2, <2>3, <2>4
<1> QED
  BY <1>5, <1>6, <1>7 DEF Replaced, a, b, c

\* A word of which the first bytes were stored.
LEMMA StackStored ==
  ASSUME NEW x, NEW y, NEW p \in 0..Top, Top - p <= Bytes, NEW n \in Nat, n + 4 <= Top - p,
         NEW len \in {1, 2, 4}, NEW b, Stored(x, y, p + n, len, b),
         NEW w1, NEW w2, NEW w3, NEW w4,
         \A j \in 1..4 : <<w1, w2, w3, w4>>[j] = IF j > len THEN x[Slot((p + n + j) - 1)] ELSE b[j]
  PROVE  Stack(p, y) = Replaced(Stack(p, x), n, <<w1, w2, w3, w4>>)
<1> DEFINE V == {x[m] : m \in 0..(Bytes - 1)} \cup {y[m] : m \in 0..(Bytes - 1)} \cup {w1, w2, w3, w4}
           s == Stack(p, x)
           w == <<w1, w2, w3, w4>>
           t == Replaced(s, n, w)
<1>0. Top \in Nat /\ Bytes \in Nat /\ p \in Nat
  BY StackAssumption
<1>1. w \in Seq(V) /\ Len(w) = 4
  OBVIOUS
<1>2. (\A m \in 0..(Bytes - 1) : x[m] \in V) /\ (\A m \in 0..(Bytes - 1) : y[m] \in V)
  OBVIOUS
<1>3. \A j \in 1..4 : w[j] = IF j > len THEN x[Slot((p + n + j) - 1)] ELSE b[j]
  OBVIOUS
<1> HIDE DEF V, w, s, t
<1>4. s \in Seq(V) /\ Len(s) = Top - p /\ \A j \in 1..(Top - p) : s[j] = x[Slot((p + j) - 1)]
  BY <1>2, StackSeq DEF s
<1>5. /\ Stack(p, y) \in Seq(V) /\ Len(Stack(p, y)) = Top - p
      /\ \A j \in 1..(Top - p) : Stack(p, y)[j] = y[Slot((p + j) - 1)]
  BY <1>2, StackSeq
<1>6. /\ t \in Seq(V) /\ Len(t) = Top - p
      /\ \A j \in 1..(Top - p) :
           t[j] = IF j <= n THEN s[j] ELSE IF j <= n + 4 THEN w[j - n] ELSE s[j]
  <2>1. n + 4 <= Len(s)
    BY <1>4
  <2>2. /\ t \in Seq(V) /\ Len(t) = Len(s)
        /\ \A j \in 1..Len(s) :
             t[j] = IF j <= n THEN s[j] ELSE IF j <= n + 4 THEN w[j - n] ELSE s[j]
    <3>1. s \in Seq(V)
      BY <1>4
    <3> QED
      BY <1>1, <2>1, <3>1, ThreeParts DEF t
  <2> QED
    BY <1>4, <2>2
<1>7. ASSUME NEW j \in 1..(Top - p)
      PROVE  Stack(p, y)[j] = t[j]
  <2> DEFINE m == (p + j) - 1
  <2>0. m \in Nat /\ Slot(m) \in 0..(Bytes - 1) /\ Stack(p, y)[j] = y[Slot(m)] /\ s[j] = x[Slot(m)]
    <3>1. m \in Nat
      BY <1>0
    <3>2. Slot(m) \in 0..(Bytes - 1)
      BY <3>1, SlotIn
    <3> QED
      BY <1>4, <1>5, <3>1, <3>2
  <2>1. CASE j \in (n + 1)..(n + len)
    <3>1. j - n \in 1..len /\ j - n \in 1..4 /\ ~(j <= n) /\ j <= n + 4 /\ ~(j - n > len)
          /\ ((p + n) + (j - n)) - 1 = m
      BY <1>0, <2>1
    <3>2. y[Slot(m)] = b[j - n]
      <4>1. \A k \in 1..len : y[Slot(((p + n) + k) - 1)] = b[k]
        BY DEF Stored
      <4> HIDE DEF m
      <4> QED
        BY <3>1, <4>1
    <3>3. t[j] = w[j - n] /\ w[j - n] = b[j - n]
      BY <1>3, <1>6, <3>1
    <3> QED
      BY <2>0, <3>2, <3>3
  <2>2. CASE ~(j \in (n + 1)..(n + len))
    <3>1. \A k \in 1..len : Slot(m) # Slot(((p + n) + k) - 1)
      <4> TAKE k \in 1..len
      <4> DEFINE q == ((p + n) + k) - 1
      <4>1. q \in Nat /\ m \in Nat /\ q # m /\ q < m + Bytes /\ m < q + Bytes
        BY <1>0, <2>2
      <4> HIDE DEF q, m
      <4>2. q < m \/ m < q
        BY <4>1
      <4> QED
        BY <4>1, <4>2, Apart DEF q
    <3>2. y[Slot(m)] = x[Slot(m)]
      <4> HIDE DEF m
      <4> QED
        BY <2>0, <3>1 DEF Stored
    <3>3. t[j] = x[Slot(m)]
      <4>1. CASE j <= n \/ j > n + 4
        BY <1>0, <1>6, <2>0, <4>1
      <4>2. CASE j > n /\ j <= n + 4
        <5>1. j - n \in 1..4 /\ j - n > len /\ (p + n + (j - n)) - 1 = m /\ ~(j <= n)
          BY <1>0, <2>2, <4>2
        <5> HIDE DEF m
        <5> QED
          BY <1>3, <1>6, <4>2, <5>1
      <4> QED
        BY <1>0, <4>1, <4>2
    <3> QED
      BY <2>0, <3>2, <3>3
  <2> QED
    BY <2>1, <2>2
<1>8. Stack(p, y) = t
  BY <1>5, <1>6, <1>7, SeqEqual
<1> QED
  BY <1>8 DEF s, t, w

(***************************************************************************)
(* Words                                                                   *)
(***************************************************************************)

LEMMA WordIs ==
  ASSUME NEW w, DOMAIN w = 1..4, w = [j \in DOMAIN w |-> w[j]]
  PROVE  Word(w)
<1> DEFINE V == {w[1], w[2], w[3], w[4]}
           t == <<w[1], w[2], w[3], w[4]>>
<1>1. t \in Seq(V) /\ Len(t) = 4
  OBVIOUS
<1>2. \A j \in 1..4 : w[j] = t[j]
  <2> TAKE j \in 1..4
  <2>1. j \in {1, 2, 3, 4}
    OBVIOUS
  <2> QED
    BY <2>1
<1>3. w \in [1..4 -> V]
  <2>1. \A j \in 1..4 : w[j] \in V
    <3> TAKE j \in 1..4
    <3>1. j \in {1, 2, 3, 4}
      OBVIOUS
    <3> QED
      BY <3>1
  <2> HIDE DEF V
  <2> QED
    BY <2>1
<1> HIDE DEF V, t
<1>4. w \in Seq(V) /\ Len(w) = 4
  <2>1. PICK n \in Nat : n = 4
    OBVIOUS
  <2>2. w \in [1..n -> V]
    BY <1>3, <2>1
  <2>3. w \in Seq(V) /\ Len(w) = n
    BY <2>2
  <2> QED
    BY <2>1, <2>3
<1>5. w = t
  BY <1>1, <1>2, <1>4, SeqEqual
<1> QED
  BY <1>5 DEF Word, t

LEMMA WordsEqual ==
  ASSUME NEW w, NEW z, Word(w), Word(z), w[1] = z[1], w[2] = z[2], w[3] = z[3], w[4] = z[4]
  PROVE  w = z
BY DEF Word

LEMMA TupleWord ==
  ASSUME NEW w1, NEW w2, NEW w3, NEW w4
  PROVE  /\ Word(<<w1, w2, w3, w4>>) /\ DOMAIN <<w1, w2, w3, w4>> = 1..4
         /\ <<w1, w2, w3, w4>>[1] = w1 /\ <<w1, w2, w3, w4>>[2] = w2
         /\ <<w1, w2, w3, w4>>[3] = w3 /\ <<w1, w2, w3, w4>>[4] = w4
BY DEF Word

LEMMA AluWord ==
  ASSUME NEW alu, NEW len, NEW w, Word(w), NEW z
  PROVE  /\ Word(Machine!Alu(alu, len, w, z))
         /\ \A k \in 1..4 : Machine!Alu(alu, len, w, z)[k] =
              IF k > len THEN w[k] ELSE IF alu = "mov" THEN z[k] ELSE Op(w[k], z[k])
<1>1. DOMAIN w = 1..4
  BY TupleWord DEF Word
<1> DEFINE f == Machine!Alu(alu, len, w, z)
<1>2. f = [k \in 1..4 |-> IF k > len THEN w[k] ELSE IF alu = "mov" THEN z[k] ELSE Op(w[k], z[k])]
  BY <1>1 DEF Machine!Alu
<1>3. DOMAIN f = 1..4 /\ f = [j \in DOMAIN f |-> f[j]]
  <2> HIDE DEF f
  <2> QED
    BY <1>2
<1>4. \A k \in 1..4 : f[k] = IF k > len THEN w[k] ELSE IF alu = "mov" THEN z[k] ELSE Op(w[k], z[k])
  <2> HIDE DEF f
  <2> QED
    BY <1>2
<1> HIDE DEF f
<1>5. Word(f)
  BY <1>3, WordIs
<1> QED
  BY <1>4, <1>5 DEF f

LEMMA ZeroWord ==
  ASSUME NEW len, NEW z
  PROVE  /\ Word(Machine!Zero(len, z))
         /\ \A k \in 1..4 : Machine!Zero(len, z)[k] = IF k > len THEN 0 ELSE z[k]
<1> DEFINE f == Machine!Zero(len, z)
<1>1. f = [k \in 1..4 |-> IF k > len THEN 0 ELSE z[k]]
  BY DEF Machine!Zero
<1> HIDE DEF f
<1>2. DOMAIN f = 1..4 /\ f = [j \in DOMAIN f |-> f[j]]
  BY <1>1
<1>3. \A k \in 1..4 : f[k] = IF k > len THEN 0 ELSE z[k]
  BY <1>1
<1>4. Word(f)
  BY <1>2, WordIs
<1> QED
  BY <1>3, <1>4 DEF f

(***************************************************************************)
(* What an instruction does: eax, edx, stack and address before and after. *)
(***************************************************************************)
Opnd(i, a, d) == IF i.reg = "eax" THEN a ELSE IF i.reg = "edx" THEN d ELSE i.imm

Sets(i, a, d, a9, d9, w) ==
  a9 = (IF i.reg = "eax" THEN w ELSE a) /\ d9 = (IF i.reg = "edx" THEN w ELSE d)

WordOf(s, n) == SubSeq(s, n + 1, n + 4)

Does(i, a, d, s, c, a9, d9, s9, c9) ==
  \/ i.form = "push" /\ s9 = Opnd(i, a, d) \o s /\ a9 = a /\ d9 = d /\ c9 = c
  \/ i.form = "push_stack" /\ i.at + 4 <= Len(s) /\ s9 = WordOf(s, i.at) \o s /\ a9 = a /\ d9 = d /\ c9 = c
  \/ i.form = "pop" /\ Len(s) >= 4 /\ Sets(i, a, d, a9, d9, WordOf(s, 0))
     /\ s9 = SubSeq(s, 5, Len(s)) /\ c9 = c
  \/ i.form = "call" /\ s9 = i.imm \o s /\ a9 = a /\ d9 = d /\ c9 = c
  \/ i.form = "ret" /\ Len(s) >= 4 /\ c9 = WordOf(s, 0) /\ s9 = SubSeq(s, 5, Len(s)) /\ a9 = a /\ d9 = d
  \/ i.form = "store" /\ i.at + 4 <= Len(s)
     /\ s9 = Replaced(s, i.at, Machine!Alu(i.alu, i.len, WordOf(s, i.at), Opnd(i, a, d)))
     /\ a9 = a /\ d9 = d /\ c9 = c
  \/ i.form = "load" /\ i.at + 4 <= Len(s)
     /\ Sets(i, a, d, a9, d9, Machine!Alu(i.alu, i.len, Opnd(i, a, d), WordOf(s, i.at)))
     /\ s9 = s /\ c9 = c
  \/ i.form = "load_zero" /\ i.at + 4 <= Len(s)
     /\ Sets(i, a, d, a9, d9, Machine!Zero(i.len, WordOf(s, i.at))) /\ s9 = s /\ c9 = c
  \/ i.form = "modify" /\ i.at + 4 <= Len(s)
     /\ s9 = Replaced(s, i.at, Machine!Alu("op", i.len, WordOf(s, i.at), i.imm))
     /\ a9 = a /\ d9 = d /\ c9 = c
  \/ i.form = "alloc" /\ Len(s9) = Len(s) + 4 /\ SubSeq(s9, 5, Len(s9)) = s /\ a9 = a /\ d9 = d /\ c9 = c
  \/ i.form = "free" /\ Len(s) >= 4 /\ s9 = SubSeq(s, 5, Len(s)) /\ a9 = a /\ d9 = d /\ c9 = c

\* That is what the processor with a stack in memory does.
LEMMA DoesIt ==
  ASSUME Does(settled'.did, settled.eax, settled.edx, settled.stack, settled.pc,
              settled'.eax, settled'.edx, settled'.stack, settled'.pc)
  PROVE  Machine!StackNext
<1>0. PICK i : i = settled'.did
  OBVIOUS
<1>00. Does(i, settled.eax, settled.edx, settled.stack, settled.pc,
           settled'.eax, settled'.edx, settled'.stack, settled'.pc)
  BY <1>0
<1>1. CASE i.form = "push"
  <2>1. Machine!Push(i)
    BY <1>00, <1>1 DEF Does, Machine!Push, Opnd, Machine!Operand
  <2> QED
    BY <1>0, <2>1 DEF Machine!StackNext, Machine!CarriesOut
<1>2. CASE i.form = "push_stack"
  <2>1. Machine!PushStack(i)
    BY <1>00, <1>2 DEF Does, Machine!PushStack, WordOf, Machine!InFrame, Machine!WordAt
  <2> QED
    BY <1>0, <2>1 DEF Machine!StackNext, Machine!CarriesOut
<1>3. CASE i.form = "pop"
  <2>1. Machine!Pop(i)
    BY <1>00, <1>3 DEF Does, Machine!Pop, Sets, WordOf, Machine!SetReg, Machine!WordAt
  <2> QED
    BY <1>0, <2>1 DEF Machine!StackNext, Machine!CarriesOut
<1>4. CASE i.form = "call"
  <2>1. Machine!Call(i)
    BY <1>00, <1>4 DEF Does, Machine!Call
  <2> QED
    BY <1>0, <2>1 DEF Machine!StackNext, Machine!CarriesOut
<1>5. CASE i.form = "ret"
  <2>1. Machine!Ret(i)
    BY <1>00, <1>5 DEF Does, Machine!Ret, WordOf, Machine!WordAt
  <2> QED
    BY <1>0, <2>1 DEF Machine!StackNext, Machine!CarriesOut
<1>6. CASE i.form = "store"
  <2>1. Machine!Store(i)
    BY <1>00, <1>6 DEF Does, Machine!Store, Opnd, WordOf, Replaced, Machine!InFrame, Machine!WordAt, Machine!WithWordAt, Machine!Operand
  <2> QED
    BY <1>0, <2>1 DEF Machine!StackNext, Machine!CarriesOut
<1>7. CASE i.form = "load"
  <2>1. Machine!Load(i)
    BY <1>00, <1>7 DEF Does, Machine!Load, Opnd, Sets, WordOf, Machine!InFrame, Machine!WordAt, Machine!Operand, Machine!SetReg
  <2> QED
    BY <1>0, <2>1 DEF Machine!StackNext, Machine!CarriesOut
<1>8. CASE i.form = "load_zero"
  <2>1. Machine!LoadZero(i)
    BY <1>00, <1>8 DEF Does, Machine!LoadZero, Sets, WordOf, Machine!InFrame, Machine!WordAt, Machine!SetReg
  <2> QED
    BY <1>0, <2>1 DEF Machine!StackNext, Machine!CarriesOut
<1>9. CASE i.form = "modify"
  <2>1. Machine!Modify(i)
    BY <1>00, <1>9 DEF Does, Machine!Modify, WordOf, Replaced, Machine!InFrame, Machine!WordAt, Machine!WithWordAt
  <2> QED
    BY <1>0, <2>1 DEF Machine!StackNext, Machine!CarriesOut
<1>10. CASE i.form = "alloc"
  <2>1. Machine!Alloc(i)
    BY <1>00, <1>10 DEF Does, Machine!Alloc
  <2> QED
    BY <1>0, <2>1 DEF Machine!StackNext, Machine!CarriesOut
<1>11. CASE i.form = "free"
  <2>1. Machine!Free(i)
    BY <1>00, <1>11 DEF Does, Machine!Free
  <2> QED
    BY <1>0, <2>1 DEF Machine!StackNext, Machine!CarriesOut
<1> QED
  BY <1>00, <1>1, <1>2, <1>3, <1>4, <1>5, <1>6, <1>7, <1>8, <1>9, <1>10, <1>11 DEF Does

(***************************************************************************)
(* The sequences                                                           *)
(***************************************************************************)

\* Registers and bytes between two instructions.
Sound(g, x) ==
  \E a, d, e, d0, d1, p, h, u, v, d3 :
    /\ g = Regs(a, d, e, d0, d1, <<p, h, u, v>>, d3)
    /\ Word(a) /\ Word(d) /\ Mem(x)
    /\ p \in (Top - 4 * Room)..Top /\ h \in 0..255

\* In state t, instruction i has been carried out; a, d and p are eax, edx and
\* the stack pointer at its beginning, x was the stack.
Ends(i, a, d, p, x, t) ==
  /\ Sound(t.g, t.x)
  /\ \A c : Does(i, a, d, Stack(p, x), c, t.g.eax, t.g.edx, Stack(t.g.dr2[1], t.x),
                 IF t.to = <<>> THEN c ELSE t.to[1])

\* Sequence c carries out instruction i.
Kept(c, i, a, d, e, d0, d1, p, h, u, v, d3, x) ==
  /\ c \in Code /\ c # <<>>
  /\ \E t : /\ Leads(c, S(a, d, e, d0, d1, <<p, h, u, v>>, d3, x), t)
            /\ Ends(i, a, d, p, x, t)

LEMMA NotEmpty ==
  ASSUME NEW c \in Code, NEW j \in Micro
  PROVE  c \o <<j>> # <<>>
<1>1. c \in Seq(Micro) /\ <<j>> \in Seq(Micro) /\ Len(<<j>>) = 1 /\ Len(c) \in Nat
  BY DEF Code
<1>2. Len(c \o <<j>>) = Len(c) + 1
  BY <1>1, ConcatProperties
<1>3. c \o <<j>> = <<>> => Len(c \o <<j>>) = 0
  OBVIOUS
<1> QED
  BY <1>1, <1>2, <1>3

LEMMA Arrives ==
  ASSUME NEW i, NEW a, NEW d, NEW p, NEW x, NEW a9, NEW d9, NEW e, NEW d0, NEW d1, NEW q, NEW h \in 0..255,
         NEW u, NEW v, NEW d3, NEW y, Word(a9), Word(d9), Mem(y), q \in (Top - 4 * Room)..Top,
         \A c : Does(i, a, d, Stack(p, x), c, a9, d9, Stack(q, y), c)
  PROVE  Ends(i, a, d, p, x, S(a9, d9, e, d0, d1, <<q, h, u, v>>, d3, y))
<1> DEFINE t == S(a9, d9, e, d0, d1, <<q, h, u, v>>, d3, y)
<1>1. /\ t.g = Regs(a9, d9, e, d0, d1, <<q, h, u, v>>, d3) /\ t.x = y /\ t.to = <<>>
      /\ t.g.eax = a9 /\ t.g.edx = d9 /\ t.g.dr2[1] = q
  BY DEF S, State, Regs
<1>2. Sound(Regs(a9, d9, e, d0, d1, <<q, h, u, v>>, d3), y)
  BY DEF Sound
<1> HIDE DEF t
<1> QED
  BY <1>1, <1>2 DEF Ends, t

LEMMA Room4 ==
  ASSUME NEW p \in (Top - 4 * Room)..Top
  PROVE  /\ p \in 1..Top /\ p \in 0..255 /\ p \in 0..Top /\ Top \in 0..255 /\ Bytes \in Nat
         /\ (Top - p) <= Bytes
         /\ (Top - p) + 4 <= 4 * Room =>
              /\ p \in 5..Top /\ p \in 4..Top /\ p - 4 \in (Top - 4 * Room)..Top /\ p - 4 \in 0..255
              /\ (Top - p) + 4 <= Bytes /\ Bytes >= 4
         /\ \A n \in Nat : n + 4 <= Top - p =>
              /\ Bytes >= 4 /\ p + n <= 255 /\ p + n \in 0..255
              /\ InTheTable(p + n, 1) /\ InTheTable(p + n, 2) /\ InTheTable(p + n, 4)
         /\ Top - p >= 4 => p \in 1..(Top - 4) /\ p + 4 \in (Top - 4 * Room)..Top /\ p + 4 <= 255
<1>1. Top \in 0..255 /\ Bytes \in Nat /\ Room \in Nat /\ 4 * Room < Top /\ 4 * Room <= Bytes
  BY StackAssumption
<1>2. p \in 1..Top /\ p \in 0..255 /\ p \in 0..Top /\ (Top - p) <= Bytes
  BY <1>1
<1>3. (Top - p) + 4 <= 4 * Room =>
        /\ p \in 5..Top /\ p \in 4..Top /\ p - 4 \in (Top - 4 * Room)..Top /\ p - 4 \in 0..255
        /\ (Top - p) + 4 <= Bytes /\ Bytes >= 4
  BY <1>1
<1>4. ASSUME NEW n \in Nat, n + 4 <= Top - p
      PROVE  /\ Bytes >= 4 /\ p + n <= 255 /\ p + n \in 0..255
             /\ InTheTable(p + n, 1) /\ InTheTable(p + n, 2) /\ InTheTable(p + n, 4)
  BY <1>1, <1>4 DEF InTheTable
<1>5. Top - p >= 4 => p \in 1..(Top - 4) /\ p + 4 \in (Top - 4 * Room)..Top /\ p + 4 <= 255
  BY <1>1
<1> QED
  BY <1>1, <1>2, <1>3, <1>4, <1>5

\* One instruction of a sequence of sequences.
LEMMA Ones ==
  ASSUME NEW a, NEW d, NEW e, NEW d0, NEW d1, NEW d2, NEW d3, NEW x
  PROVE  /\ Leads(<<Esp(Here)>>, S(a, d, e, d0, d1, d2, d3, x), S(a, d, Here, d0, d1, d2, d3, x))
         /\ <<Esp(Here)>> \in Code
         /\ Leads(<<Mov("dr0", "eax")>>, S(a, d, e, d0, d1, d2, d3, x), S(d0, d, e, d0, d1, d2, d3, x))
         /\ <<Mov("dr0", "eax")>> \in Code
<1>1. Here \in Words
  BY DEF Words
<1>2. Esp(Here) \in Micro /\ Mov("dr0", "eax") \in Micro
  BY <1>1, MicroTyped DEF RegName
<1>3. Runs(Esp(Here), S(a, d, e, d0, d1, d2, d3, x), S(a, d, Here, d0, d1, d2, d3, x))
  BY DEF Runs, Esp, Do, Compute, State, S, Regs
<1>4. Runs(Mov("dr0", "eax"), S(a, d, e, d0, d1, d2, d3, x), S(d0, d, e, d0, d1, d2, d3, x))
  BY Movs
<1> QED
  BY <1>2, <1>3, <1>4, LeadsOne

\* subl $4, %esp and addl $4, %esp
LEMMA EspMoves ==
  ASSUME NEW k \in Int, NEW a, NEW d, NEW e, NEW d0, NEW d1, NEW d2, NEW d3, NEW x
  PROVE  /\ Leads(EspCode(k), S(a, d, e, d0, d1, d2, d3, x),
                  S(a, d, Plus(d2, k), d0, d1, Plus(d2, k), d3, x))
         /\ EspCode(k) \in Code
<1> DEFINE q == Plus(d2, k)
<1>1. /\ Runs(Mov("dr2", "esp"), S(a, d, e, d0, d1, d2, d3, x), S(a, d, d2, d0, d1, d2, d3, x))
      /\ Runs(Mov("esp", "dr2"), S(a, d, q, d0, d1, d2, d3, x), S(a, d, q, d0, d1, q, d3, x))
  <2> HIDE DEF q
  <2> QED
    BY Movs
<1>2. Runs(Do("lea", "esp", "esp", k, Nil), S(a, d, d2, d0, d1, d2, d3, x), S(a, d, q, d0, d1, d2, d3, x))
  BY Sums
<1>3. Mov("dr2", "esp") \in Micro /\ Mov("esp", "dr2") \in Micro /\ Do("lea", "esp", "esp", k, Nil) \in Micro
  BY MicroTyped DEF RegName
<1> QED
  BY <1>1, <1>2, <1>3, LeadsThree DEF EspCode

LEMMA AllocRight ==
  ASSUME NEW i, i.form = "alloc",
         NEW a, Word(a), NEW d, Word(d), NEW e, NEW d0, NEW d1, NEW d3, NEW x, Mem(x),
         NEW p \in (Top - 4 * Room)..Top, NEW h \in 0..255, NEW u, NEW v, (Top - p) + 4 <= 4 * Room
  PROVE  Kept(EspCode(-4), i, a, d, e, d0, d1, p, h, u, v, d3, x)
<1>1. p \in 0..255 /\ p >= 4 /\ p - 4 \in (Top - 4 * Room)..Top /\ p - 4 \in 0..Top /\ (p - 4) + 4 = p
  BY Room4
<1>2. Plus(<<p, h, u, v>>, -4) = <<p - 4, h, u, v>>
  BY <1>1, Below
<1>3. -4 \in Int
  OBVIOUS
<1> DEFINE q == <<p - 4, h, u, v>>
           t == S(a, d, q, d0, d1, q, d3, x)
<1>4. Leads(EspCode(-4), S(a, d, e, d0, d1, <<p, h, u, v>>, d3, x), t) /\ EspCode(-4) \in Code
  BY <1>2, <1>3, EspMoves
<1>5. Len(Stack(p - 4, x)) = Len(Stack(p, x)) + 4
      /\ SubSeq(Stack(p - 4, x), 5, Len(Stack(p - 4, x))) = Stack(p, x)
  <2>1. (p - 4) + 4 <= Top /\ p - 4 \in 0..Top /\ (p - 4) + 4 = p
    BY <1>1
  <2>2. /\ Stack((p - 4) + 4, x) = SubSeq(Stack(p - 4, x), 5, Len(Stack(p - 4, x)))
        /\ Len(Stack(p - 4, x)) = Len(Stack((p - 4) + 4, x)) + 4
    BY <2>1, StackPopped
  <2> QED
    BY <2>1, <2>2
<1>6. \A c : Does(i, a, d, Stack(p, x), c, a, d, Stack(p - 4, x), c)
  BY <1>5 DEF Does
<1>7. Ends(i, a, d, p, x, t)
  BY <1>1, <1>6, Arrives
<1>8. EspCode(-4) # <<>>
  BY DEF EspCode
<1> QED
  BY <1>4, <1>7, <1>8 DEF Kept

LEMMA FreeRight ==
  ASSUME NEW i, i.form = "free",
         NEW a, Word(a), NEW d, Word(d), NEW e, NEW d0, NEW d1, NEW d3, NEW x, Mem(x),
         NEW p \in (Top - 4 * Room)..Top, NEW h \in 0..255, NEW u, NEW v, Top - p >= 4
  PROVE  Kept(EspCode(4), i, a, d, e, d0, d1, p, h, u, v, d3, x)
<1>1. p \in 0..255 /\ p + 4 <= 255 /\ p + 4 \in (Top - 4 * Room)..Top /\ p \in 0..Top /\ p + 4 <= Top
  BY Room4
<1>2. Plus(<<p, h, u, v>>, 4) = <<p + 4, h, u, v>>
  BY <1>1, Above, Zenon
<1>3. 4 \in Int
  OBVIOUS
<1> DEFINE q == <<p + 4, h, u, v>>
           t == S(a, d, q, d0, d1, q, d3, x)
<1>4. Leads(EspCode(4), S(a, d, e, d0, d1, <<p, h, u, v>>, d3, x), t) /\ EspCode(4) \in Code
  BY <1>2, <1>3, EspMoves
<1>5. /\ Stack(p + 4, x) = SubSeq(Stack(p, x), 5, Len(Stack(p, x)))
      /\ Len(Stack(p, x)) >= 4
  BY <1>1, StackPopped, StackLength
<1>6. \A c : Does(i, a, d, Stack(p, x), c, a, d, Stack(p + 4, x), c)
  BY <1>5 DEF Does
<1>7. Ends(i, a, d, p, x, t)
  BY <1>1, <1>6, Arrives
<1>8. EspCode(4) # <<>>
  BY DEF EspCode
<1> QED
  BY <1>4, <1>7, <1>8 DEF Kept

\* Of a word moved as a whole, nothing is left.
LEMMA MovWhole ==
  ASSUME NEW w, Word(w), NEW z, Word(z)
  PROVE  Machine!Alu("mov", 4, w, z) = z
<1> DEFINE f == Machine!Alu("mov", 4, w, z)
<1>1. Word(f) /\ \A k \in 1..4 : f[k] = IF k > 4 THEN w[k] ELSE z[k]
  BY AluWord
<1> HIDE DEF f
<1>2. f[1] = z[1] /\ f[2] = z[2] /\ f[3] = z[3] /\ f[4] = z[4]
  BY <1>1
<1> QED
  BY <1>1, <1>2, WordsEqual DEF f

\* pushl of a word that is in eax
Pushed(w, d, d0, d1, d3, x, p, h, u, v) ==
  \E a, y : /\ Stack(p - 4, y) = w \o Stack(p, x) /\ Mem(y)
            /\ Leads(dopush, S(w, d, Here, d0, d1, <<p, h, u, v>>, d3, x),
                     S(a, d, Here, d0, d, <<p - 4, p - 4, 0, 0>>, Here, y))
            /\ dopush \in Code

LEMMA PushWord ==
  ASSUME NEW w, Word(w), NEW d, NEW d0, NEW d1, NEW d3, NEW x, Mem(x),
         NEW p \in (Top - 4 * Room)..Top, (Top - p) + 4 <= 4 * Room, NEW h, NEW u, NEW v
  PROVE  Pushed(w, d, d0, d1, d3, x, p, h, u, v)
<1>1. p \in 5..Top /\ p \in 4..Top /\ Bytes >= 4 /\ (Top - p) + 4 <= Bytes
  BY Room4
<1>2. PICK w1, w2, w3, w4 : w = <<w1, w2, w3, w4>>
  BY DEF Word
<1>3. PICK a, y : /\ Stored(x, y, p - 4, 4, <<w1, w2, w3, w4>>)
                  /\ Leads(dopush, S(<<w1, w2, w3, w4>>, d, Here, d0, d1, <<p, h, u, v>>, d3, x),
                           S(a, d, Here, d0, d, <<p - 4, p - 4, 0, 0>>, Here, y))
                  /\ dopush \in Code
  BY <1>1, Pushes
<1>4. Stack(p - 4, y) = <<w1, w2, w3, w4>> \o Stack(p, x)
  BY <1>1, <1>3, StackPushed
<1>5. Mem(y)
  BY <1>3 DEF Stored
<1> QED
  BY <1>2, <1>3, <1>4, <1>5 DEF Pushed

LEMMA PushRight ==
  ASSUME NEW i \in Program, i.form = "push", i.reg \in {"eax", "edx", "imm"}, i.reg = "imm" => Word(i.imm),
         NEW a, Word(a), NEW d, Word(d), NEW e, NEW d0, NEW d1, NEW d3, NEW x, Mem(x),
         NEW p \in (Top - 4 * Room)..Top, NEW h \in 0..255, NEW u, NEW v, (Top - p) + 4 <= 4 * Room
  PROVE  Kept(PushCode(i), i, a, d, e, d0, d1, p, h, u, v, d3, x)
<1> DEFINE w == Opnd(i, a, d)
           m == IF i.reg = "imm" THEN DoImm("mov", i.imm, "eax", 4) ELSE Mov(i.reg, "eax")
<1>1. Word(w)
  BY DEF Opnd
<1>2. m \in Micro
  <2>1. i.imm \in Words /\ 4 \in Int
    BY DEF Words
  <2> QED
    BY <2>1, MicroTyped DEF RegName
<1>3. Runs(m, S(a, d, e, a, d1, <<p, h, u, v>>, d3, x), S(w, d, e, a, d1, <<p, h, u, v>>, d3, x))
  <2>1. CASE i.reg = "eax"
    BY <2>1, Movs DEF Opnd
  <2>2. CASE i.reg = "edx"
    BY <2>2, Movs DEF Opnd
  <2>3. CASE i.reg = "imm"
    <3>1. PICK a1, a2, a3, a4 : a = <<a1, a2, a3, a4>>
      BY DEF Word
    <3>2. 4 \in {1, 2, 4} /\ "mov" \in {"mov", "op"}
      OBVIOUS
    <3>3. Runs(DoImm("mov", i.imm, "eax", 4), S(a, d, e, a, d1, <<p, h, u, v>>, d3, x),
               S(Machine!Alu("mov", 4, a, i.imm), d, e, a, d1, <<p, h, u, v>>, d3, x))
      BY <3>1, <3>2, Alus
    <3>4. Machine!Alu("mov", 4, a, i.imm) = i.imm
      BY <2>3, MovWhole
    <3> QED
      BY <2>3, <3>3, <3>4 DEF Opnd
  <2> QED
    BY <2>1, <2>2, <2>3
<1> HIDE DEF w, m
<1>4. /\ Leads(<<Mov("eax", "dr0"), m, Esp(Here)>>, S(a, d, e, d0, d1, <<p, h, u, v>>, d3, x),
               S(w, d, Here, a, d1, <<p, h, u, v>>, d3, x))
      /\ <<Mov("eax", "dr0"), m, Esp(Here)>> \in Code
  <2>1. Runs(Mov("eax", "dr0"), S(a, d, e, d0, d1, <<p, h, u, v>>, d3, x), S(a, d, e, a, d1, <<p, h, u, v>>, d3, x))
    BY Movs
  <2>2. Runs(Esp(Here), S(w, d, e, a, d1, <<p, h, u, v>>, d3, x), S(w, d, Here, a, d1, <<p, h, u, v>>, d3, x))
    BY DEF Runs, Esp, Do, Compute, State, S, Regs
  <2>3. Mov("eax", "dr0") \in Micro /\ Esp(Here) \in Micro
    BY MicroTyped DEF RegName, Words
  <2> QED
    BY <1>2, <1>3, <2>1, <2>2, <2>3, LeadsThree
<1>50. Pushed(w, d, a, d1, d3, x, p, h, u, v)
  BY <1>1, PushWord, Zenon
<1>5. PICK a9, y : /\ Stack(p - 4, y) = w \o Stack(p, x) /\ Mem(y)
                   /\ Leads(dopush, S(w, d, Here, a, d1, <<p, h, u, v>>, d3, x),
                            S(a9, d, Here, a, d, <<p - 4, p - 4, 0, 0>>, Here, y))
                   /\ dopush \in Code
  BY <1>50 DEF Pushed
<1> DEFINE t == S(a, d, Here, a, d, <<p - 4, p - 4, 0, 0>>, Here, y)
<1>6. /\ Leads(<<Mov("eax", "dr0"), m, Esp(Here)>> \o dopush, S(a, d, e, d0, d1, <<p, h, u, v>>, d3, x),
               S(a9, d, Here, a, d, <<p - 4, p - 4, 0, 0>>, Here, y))
      /\ <<Mov("eax", "dr0"), m, Esp(Here)>> \o dopush \in Code
  BY <1>4, <1>5, LeadsThen
<1>7. /\ Leads((<<Mov("eax", "dr0"), m, Esp(Here)>> \o dopush) \o <<Mov("dr0", "eax")>>, S(a, d, e, d0, d1, <<p, h, u, v>>, d3, x), t)
      /\ (<<Mov("eax", "dr0"), m, Esp(Here)>> \o dopush) \o <<Mov("dr0", "eax")>> \in Code
  BY <1>6, Ones, LeadsThen
<1>8. \A c : Does(i, a, d, Stack(p, x), c, a, d, Stack(p - 4, y), c)
  BY <1>5 DEF Does, w
<1>9. Ends(i, a, d, p, x, t)
  <2>1. p - 4 \in (Top - 4 * Room)..Top /\ p - 4 \in 0..255
    BY Room4
  <2> QED
    BY <1>5, <1>8, <2>1, Arrives
<1>10. PushCode(i) = (<<Mov("eax", "dr0"), m, Esp(Here)>> \o dopush) \o <<Mov("dr0", "eax")>>
  BY DEF PushCode, m
<1>11. PushCode(i) # <<>>
  <2>1. Mov("dr0", "eax") \in Micro
    BY MicroTyped DEF RegName
  <2> QED
    BY <1>6, <1>10, <2>1, NotEmpty
<1> HIDE DEF t
<1> QED
  BY <1>7, <1>9, <1>10, <1>11 DEF Kept

LEMMA CallRight ==
  ASSUME NEW i \in Program, i.form = "call", NEW l \in 0..255, NEW g \in 0..255, NEW m, NEW n,
         i.imm = <<l, g, m, n>>,
         NEW a, Word(a), NEW d, Word(d), NEW e, NEW d0, NEW d1, NEW d3, NEW x, Mem(x),
         NEW p \in (Top - 4 * Room)..Top, NEW h \in 0..255, NEW u, NEW v, (Top - p) + 4 <= 4 * Room
  PROVE  Kept(CallCode(i), i, a, d, e, d0, d1, p, h, u, v, d3, x)
<1> DEFINE w == Plus(i.imm, -8)
<1>1. w \in Words
  BY DEF Words
<1>2. Plus(w, 8) = <<l, g, m, n>>
  <2>1. Returned(<<l, g, m, n>>)
    BY Returns, Zenon
  <2> QED
    BY <2>1 DEF Returned
<1> HIDE DEF w
<1>3. p \in 5..Top /\ p \in 4..Top /\ Bytes >= 4 /\ (Top - p) + 4 <= Bytes
      /\ p - 4 \in (Top - 4 * Room)..Top /\ p - 4 \in 0..255
  BY Room4
<1>4. Leads(<<Esp(w)>>, S(a, d, e, d0, d1, <<p, h, u, v>>, d3, x), S(a, d, w, d0, d1, <<p, h, u, v>>, d3, x)) /\ <<Esp(w)>> \in Code
  <2>1. Runs(Esp(w), S(a, d, e, d0, d1, <<p, h, u, v>>, d3, x), S(a, d, w, d0, d1, <<p, h, u, v>>, d3, x))
    BY DEF Runs, Esp, Do, Compute, State, S, Regs
  <2>2. Esp(w) \in Micro
    BY <1>1, MicroTyped
  <2> QED
    BY <2>1, <2>2, LeadsOne
<1>50. Called(a, d, d0, d1, d3, x, p, h, u, v, w, l, g, m, n)
  BY <1>1, <1>2, <1>3, Calls, Zenon
<1>5. PICK a9, y : /\ Stored(x, y, p - 4, 4, <<l, g, m, n>>)
                   /\ Leads(docall(w), S(a, d, w, d0, d1, <<p, h, u, v>>, d3, x),
                            S(a9, d, w, a, d, <<p - 4, p - 4, 0, 0>>, w, y))
                   /\ docall(w) \in Code
  BY <1>50 DEF Called
<1> DEFINE t == S(a, d, w, a, d, <<p - 4, p - 4, 0, 0>>, w, y)
<1>6. /\ Leads(<<Esp(w)>> \o docall(w), S(a, d, e, d0, d1, <<p, h, u, v>>, d3, x), S(a9, d, w, a, d, <<p - 4, p - 4, 0, 0>>, w, y))
      /\ <<Esp(w)>> \o docall(w) \in Code
  BY <1>4, <1>5, LeadsThen
<1>7. /\ Leads((<<Esp(w)>> \o docall(w)) \o <<Mov("dr0", "eax")>>, S(a, d, e, d0, d1, <<p, h, u, v>>, d3, x), t)
      /\ (<<Esp(w)>> \o docall(w)) \o <<Mov("dr0", "eax")>> \in Code
  BY <1>6, Ones, LeadsThen
<1>8. Stack(p - 4, y) = i.imm \o Stack(p, x) /\ Mem(y)
  BY <1>3, <1>5, StackPushed DEF Stored
<1>9. \A c : Does(i, a, d, Stack(p, x), c, a, d, Stack(p - 4, y), c)
  BY <1>8 DEF Does
<1>10. Ends(i, a, d, p, x, t)
  BY <1>3, <1>8, <1>9, Arrives
<1>11. CallCode(i) = (<<Esp(w)>> \o docall(w)) \o <<Mov("dr0", "eax")>>
  BY DEF CallCode, w
<1>12. CallCode(i) # <<>>
  <2>1. Mov("dr0", "eax") \in Micro
    BY MicroTyped DEF RegName
  <2> QED
    BY <1>6, <1>11, <2>1, NotEmpty
<1> HIDE DEF t
<1> QED
  BY <1>7, <1>10, <1>11, <1>12 DEF Kept

\* What is on top of the stack
LEMMA TopWord ==
  ASSUME NEW x, NEW p \in 0..Top, Top - p >= 4
  PROVE  WordOf(Stack(p, x), 0) = <<x[Slot(p)], x[Slot(p + 1)], x[Slot(p + 2)], x[Slot(p + 3)]>>
<1>1. 0 \in Nat /\ 0 + 4 <= Top - p /\ p + 0 = p /\ p + 0 + 1 = p + 1 /\ p + 0 + 2 = p + 2 /\ p + 0 + 3 = p + 3
  BY StackAssumption
<1>2. SubSeq(Stack(p, x), 0 + 1, 0 + 4)
        = <<x[Slot(p + 0)], x[Slot(p + 0 + 1)], x[Slot(p + 0 + 2)], x[Slot(p + 0 + 3)]>>
  BY <1>1, StackWord
<1> QED
  BY <1>1, <1>2 DEF WordOf

LEMMA PopRight ==
  ASSUME NEW i, i.form = "pop", i.reg \in {"eax", "edx"},
         NEW a, Word(a), NEW d, Word(d), NEW e, NEW d0, NEW d1, NEW d3, NEW x, Mem(x),
         NEW p \in (Top - 4 * Room)..Top, NEW h, NEW u, NEW v, Top - p >= 4
  PROVE  Kept(PopCode(i), i, a, d, e, d0, d1, p, h, u, v, d3, x)
<1> DEFINE w == <<x[Slot(p)], x[Slot(p + 1)], x[Slot(p + 2)], x[Slot(p + 3)]>>
           c == <<Esp(Here)>> \o dopop
           q == <<p + 4, p, 0, 0>>
<1>0. p \in 1..(Top - 4) /\ p \in 0..Top /\ p \in 0..255 /\ p + 4 \in (Top - 4 * Room)..Top /\ p + 4 <= Top
  BY Room4
<1>1. Word(w) /\ w = WordOf(Stack(p, x), 0)
  BY <1>0, TopWord, TupleWord
<1>2. Leads(dopop, S(a, d, Here, d0, d1, <<p, h, u, v>>, d3, x), S(w, d, Here, a, d, q, Here, x)) /\ dopop \in Code
  BY <1>0, Pops
<1> HIDE DEF w
<1>3. Leads(c, S(a, d, e, d0, d1, <<p, h, u, v>>, d3, x), S(w, d, Here, a, d, q, Here, x)) /\ c \in Code
  BY <1>2, Ones, LeadsThen
<1> HIDE DEF c
<1>4. /\ Stack(p + 4, x) = SubSeq(Stack(p, x), 5, Len(Stack(p, x)))
      /\ Len(Stack(p, x)) >= 4
  BY <1>0, StackPopped, StackLength
<1>7. Mov("eax", "eax") \in Micro /\ Mov("dr0", "eax") \in Micro
  BY MicroTyped DEF RegName
<1>5. CASE i.reg = "eax"
  <2> DEFINE t == S(w, d, Here, a, d, q, Here, x)
  <2>1. Leads(<<Mov("eax", "eax")>>, S(w, d, Here, a, d, q, Here, x), t) /\ <<Mov("eax", "eax")>> \in Code
    <3>1. Runs(Mov("eax", "eax"), S(w, d, Here, a, d, q, Here, x), t)
      BY Movs
    <3>2. Mov("eax", "eax") \in Micro
      BY MicroTyped DEF RegName
    <3> QED
      BY <3>1, <3>2, LeadsOne
  <2>2. Leads(c \o <<Mov("eax", "eax")>>, S(a, d, e, d0, d1, <<p, h, u, v>>, d3, x), t) /\ c \o <<Mov("eax", "eax")>> \in Code
    BY <1>3, <2>1, LeadsThen
  <2>3. PopCode(i) = c \o <<Mov("eax", "eax")>>
    <3>1. PopCode(i) = (c \o <<Mov("eax", "eax")>>) \o <<>>
      BY <1>5 DEF PopCode, Restore, c
    <3> QED
      BY <2>2, <3>1, ConcatEmptySeq DEF Code
  <2>4. \A c1 : Does(i, a, d, Stack(p, x), c1, w, d, Stack(p + 4, x), c1)
    BY <1>1, <1>4, <1>5 DEF Does, Sets
  <2>5. Ends(i, a, d, p, x, t)
    BY <1>0, <1>1, <2>4, Arrives
  <2> HIDE DEF t
  <2> QED
    BY <1>3, <1>7, <2>2, <2>3, <2>5, NotEmpty DEF Kept
<1>6. CASE i.reg = "edx"
  <2> DEFINE t == S(a, w, Here, a, d, q, Here, x)
  <2>1. Leads(<<Mov("eax", "edx")>>, S(w, d, Here, a, d, q, Here, x), S(w, w, Here, a, d, q, Here, x)) /\ <<Mov("eax", "edx")>> \in Code
    <3>1. Runs(Mov("eax", "edx"), S(w, d, Here, a, d, q, Here, x), S(w, w, Here, a, d, q, Here, x))
      BY Movs
    <3>2. Mov("eax", "edx") \in Micro
      BY MicroTyped DEF RegName
    <3> QED
      BY <3>1, <3>2, LeadsOne
  <2>2. Leads(c \o <<Mov("eax", "edx")>>, S(a, d, e, d0, d1, <<p, h, u, v>>, d3, x), S(w, w, Here, a, d, q, Here, x))
        /\ c \o <<Mov("eax", "edx")>> \in Code
    BY <1>3, <2>1, LeadsThen
  <2>3. Leads((c \o <<Mov("eax", "edx")>>) \o <<Mov("dr0", "eax")>>, S(a, d, e, d0, d1, <<p, h, u, v>>, d3, x), t)
        /\ (c \o <<Mov("eax", "edx")>>) \o <<Mov("dr0", "eax")>> \in Code
    BY <2>2, Ones, LeadsThen
  <2>4. PopCode(i) = (c \o <<Mov("eax", "edx")>>) \o <<Mov("dr0", "eax")>>
    BY <1>6 DEF PopCode, Restore, c
  <2>5. \A c1 : Does(i, a, d, Stack(p, x), c1, a, w, Stack(p + 4, x), c1)
    BY <1>1, <1>4, <1>6 DEF Does, Sets
  <2>6. Ends(i, a, d, p, x, t)
    BY <1>0, <1>1, <2>5, Arrives
  <2> HIDE DEF t
  <2> QED
    BY <1>7, <2>2, <2>3, <2>4, <2>6, NotEmpty DEF Kept
<1> QED
  BY <1>5, <1>6

LEMMA RetRight ==
  ASSUME NEW i, i.form = "ret",
         NEW a, Word(a), NEW d, Word(d), NEW e, NEW d0, NEW d1, NEW d3, NEW x, Mem(x),
         NEW p \in (Top - 4 * Room)..Top, NEW h, NEW u, NEW v, Top - p >= 4
  PROVE  Kept(RetCode(i), i, a, d, e, d0, d1, p, h, u, v, d3, x)
<1> DEFINE w == <<x[Slot(p)], x[Slot(p + 1)], x[Slot(p + 2)], x[Slot(p + 3)]>>
           c == <<Mov("eax", "dr0"), Mov("dr2", "eax"), Movzbl, AlToAh, Lea(4), Mov("eax", "dr2"), Esp(Here)>>
           b == <<Mov("eax", "esp"), Mov("dr0", "eax"), Jmp>>
           q == <<p + 4, p, 0, 0>>
           t == State(Regs(a, d, w, a, d, q, Here), x, <<w>>)
<1>0. /\ p \in 1..(Top - 4) /\ p \in 0..Top /\ p \in 0..255 /\ p + 4 \in (Top - 4 * Room)..Top /\ p + 4 <= Top
      /\ p + 4 <= 255 /\ InTheTable(p, 4) /\ Here \in Words
  BY Room4 DEF InTheTable, Words
<1>1. Word(w) /\ w = WordOf(Stack(p, x), 0)
  BY <1>0, TopWord, TupleWord
<1>2. /\ Runs(Mov("eax", "dr0"), S(a, d, e, d0, d1, <<p, h, u, v>>, d3, x),
              S(a, d, e, a, d1, <<p, h, u, v>>, d3, x))
      /\ Runs(Mov("dr2", "eax"), S(a, d, e, a, d1, <<p, h, u, v>>, d3, x),
              S(<<p, h, u, v>>, d, e, a, d1, <<p, h, u, v>>, d3, x))
      /\ Runs(Mov("eax", "dr2"), S(q, d, e, a, d1, <<p, h, u, v>>, d3, x),
              S(q, d, e, a, d1, q, d3, x))
  BY Movs
<1>3. /\ Runs(Movzbl, S(<<p, h, u, v>>, d, e, a, d1, <<p, h, u, v>>, d3, x),
              S(<<p, 0, 0, 0>>, d, e, a, d1, <<p, h, u, v>>, d3, x))
      /\ Runs(AlToAh, S(<<p, 0, 0, 0>>, d, e, a, d1, <<p, h, u, v>>, d3, x),
              S(<<p, p, 0, 0>>, d, e, a, d1, <<p, h, u, v>>, d3, x))
  BY Bytewise
<1>4. Runs(Lea(4), S(<<p, p, 0, 0>>, d, e, a, d1, <<p, h, u, v>>, d3, x),
           S(q, d, e, a, d1, <<p, h, u, v>>, d3, x))
  <2>1. Plus(<<p, p, 0, 0>>, 4) = <<p + 4, p, 0, 0>>
    BY <1>0, Above, Zenon
  <2>2. 4 \in Int
    OBVIOUS
  <2> QED
    BY <2>1, <2>2, Sums
<1>5. Runs(Esp(Here), S(q, d, e, a, d1, q, d3, x), S(q, d, Here, a, d1, q, d3, x))
  <2> HIDE DEF q
  <2> QED
    BY DEF Runs, Esp, Do, Compute, State, S, Regs
<1>6. /\ Mov("eax", "dr0") \in Micro /\ Mov("dr2", "eax") \in Micro /\ Mov("eax", "dr2") \in Micro
      /\ Movzbl \in Micro /\ AlToAh \in Micro /\ Lea(4) \in Micro /\ Esp(Here) \in Micro
      /\ Mov("eax", "esp") \in Micro /\ Mov("dr0", "eax") \in Micro /\ Jmp \in Micro
  BY <1>0, MicroTyped DEF RegName
<1>7. Leads(c, S(a, d, e, d0, d1, <<p, h, u, v>>, d3, x), S(q, d, Here, a, d1, q, d3, x)) /\ c \in Code
  BY <1>2, <1>3, <1>4, <1>5, <1>6, LeadsSeven
<1> HIDE DEF c
<1>8. /\ Leads(getxmm(4, Here), S(q, d, Here, a, d1, q, d3, x), S(w, d, Here, a, d, q, Here, x))
      /\ getxmm(4, Here) \in Code
  BY <1>0, GetFour
<1> HIDE DEF w, q
<1>9. Leads(b, S(w, d, Here, a, d, q, Here, x), t) /\ b \in Code
  <2>1. /\ Runs(Mov("eax", "esp"), S(w, d, Here, a, d, q, Here, x), S(w, d, w, a, d, q, Here, x))
        /\ Runs(Mov("dr0", "eax"), S(w, d, w, a, d, q, Here, x), S(a, d, w, a, d, q, Here, x))
    BY Movs
  <2>2. Runs(Jmp, S(a, d, w, a, d, q, Here, x), t)
    BY Jumps
  <2> HIDE DEF t
  <2> QED
    BY <1>6, <2>1, <2>2, LeadsThree
<1> HIDE DEF b
<1>10. Leads(c \o getxmm(4, Here), S(a, d, e, d0, d1, <<p, h, u, v>>, d3, x), S(w, d, Here, a, d, q, Here, x))
       /\ c \o getxmm(4, Here) \in Code
  BY <1>7, <1>8, LeadsThen
<1>11. Leads((c \o getxmm(4, Here)) \o b, S(a, d, e, d0, d1, <<p, h, u, v>>, d3, x), t)
       /\ (c \o getxmm(4, Here)) \o b \in Code
  BY <1>9, <1>10, LeadsThen
<1>12. RetCode(i) = (c \o getxmm(4, Here)) \o b
  BY DEF RetCode, c, b
<1>13. Ends(i, a, d, p, x, t)
  <2>1. /\ t.g = Regs(a, d, w, a, d, q, Here) /\ t.x = x /\ t.to = <<w>> /\ t.to # <<>> /\ t.to[1] = w
        /\ t.g.eax = a /\ t.g.edx = d /\ t.g.dr2[1] = p + 4
    BY DEF State, Regs, q
  <2>2. Sound(Regs(a, d, w, a, d, q, Here), x)
    BY <1>0 DEF Sound, q
  <2>3. /\ Stack(p + 4, x) = SubSeq(Stack(p, x), 5, Len(Stack(p, x)))
        /\ Len(Stack(p, x)) >= 4
    BY <1>0, StackPopped, StackLength
  <2>4. \A c1 : Does(i, a, d, Stack(p, x), c1, a, d, Stack(p + 4, x), w)
    BY <1>1, <2>3 DEF Does
  <2> HIDE DEF t
  <2> QED
    BY <2>1, <2>2, <2>4 DEF Ends
<1>14. RetCode(i) # <<>>
  <2>1. Len(c \o getxmm(4, Here)) \in Nat /\ Len(b) = 3
    BY <1>10 DEF Code, b
  <2>2. Len((c \o getxmm(4, Here)) \o b) = Len(c \o getxmm(4, Here)) + Len(b)
    <3>1. c \o getxmm(4, Here) \in Seq(Micro) /\ b \in Seq(Micro)
      BY <1>9, <1>10 DEF Code
    <3> QED
      BY <3>1, ConcatProperties
  <2> DEFINE l == (c \o getxmm(4, Here)) \o b
  <2>3. l = <<>> => Len(l) = 0
    OBVIOUS
  <2> QED
    BY <1>12, <2>1, <2>2, <2>3
<1> HIDE DEF t
<1> QED
  BY <1>11, <1>12, <1>13, <1>14 DEF Kept

(***************************************************************************)
(* What is under the top of the stack, brought to eax                      *)
(***************************************************************************)

\* The first len bytes of f are those of the word at n of stack s, the others
\* those of a.
Mixed(f, len, a, s, n) ==
  Word(f) /\ \A k \in 1..4 : f[k] = IF k > len THEN a[k] ELSE WordOf(s, n)[k]

Fetch(n, len) == (Reach(n) \o <<Esp(Here)>>) \o getxmm(len, Here)

Fetched(n, len, a, d, e, d0, d1, p, h, u, v, d3, x) ==
  \E f : /\ Mixed(f, len, a, Stack(p, x), n)
         /\ Leads(Fetch(n, len), S(a, d, e, d0, d1, <<p, h, u, v>>, d3, x),
                  S(f, d, Here, a, d, <<p, p + n, 0, 0>>, Here, x))
         /\ Fetch(n, len) \in Code

LEMMA WordUnder ==
  ASSUME NEW x, NEW p \in 0..Top, NEW n \in Nat, n + 4 <= Top - p
  PROVE  /\ Word(WordOf(Stack(p, x), n))
         /\ WordOf(Stack(p, x), n)[1] = x[Slot(p + n)]
         /\ WordOf(Stack(p, x), n)[2] = x[Slot(p + n + 1)]
         /\ WordOf(Stack(p, x), n)[3] = x[Slot(p + n + 2)]
         /\ WordOf(Stack(p, x), n)[4] = x[Slot(p + n + 3)]
<1>1. WordOf(Stack(p, x), n)
        = <<x[Slot(p + n)], x[Slot(p + n + 1)], x[Slot(p + n + 2)], x[Slot(p + n + 3)]>>
  BY StackWord DEF WordOf
<1> QED
  BY <1>1, TupleWord

LEMMA Fetches ==
  ASSUME NEW n \in Nat, NEW len \in {1, 2, 4}, NEW a, Word(a),
         NEW d, NEW e, NEW d0, NEW d1, NEW d3, NEW x,
         NEW p \in (Top - 4 * Room)..Top, NEW h, NEW u, NEW v, n + 4 <= Top - p
  PROVE  Fetched(n, len, a, d, e, d0, d1, p, h, u, v, d3, x)
<1> DEFINE m == p + n
           s == Stack(p, x)
           w == WordOf(s, n)
           c == Reach(n) \o <<Esp(Here)>>
<1>0. /\ p \in 0..255 /\ p \in 0..Top /\ m <= 255 /\ m \in Nat
      /\ InTheTable(m, 1) /\ InTheTable(m, 2) /\ InTheTable(m, 4) /\ Here \in Words
  BY Room4 DEF Words
<1>1. PICK a1, a2, a3, a4 : a = <<a1, a2, a3, a4>>
  BY DEF Word
<1>2. /\ Word(w) /\ w[1] = x[Slot(m)] /\ w[2] = x[Slot(m + 1)]
      /\ w[3] = x[Slot(m + 2)] /\ w[4] = x[Slot(m + 3)]
  BY <1>0, WordUnder
<1>3. Leads(Reach(n), S(a, d, e, d0, d1, <<p, h, u, v>>, d3, x), S(a, d, e, a, d1, <<p, m, 0, 0>>, d3, x))
      /\ Reach(n) \in Code
  BY <1>0, Reaches
<1> HIDE DEF m, w
<1>4. Leads(c, S(a, d, e, d0, d1, <<p, h, u, v>>, d3, x), S(a, d, Here, a, d1, <<p, m, 0, 0>>, d3, x)) /\ c \in Code
  BY <1>3, Ones, LeadsThen
<1> HIDE DEF c, s
<1>5. ASSUME NEW f, Mixed(f, len, a, s, n), getxmm(len, Here) \in Code,
             Leads(getxmm(len, Here), S(a, d, Here, a, d1, <<p, m, 0, 0>>, d3, x), S(f, d, Here, a, d, <<p, m, 0, 0>>, Here, x))
      PROVE  Fetched(n, len, a, d, e, d0, d1, p, h, u, v, d3, x)
  <2>1. Leads(c \o getxmm(len, Here), S(a, d, e, d0, d1, <<p, h, u, v>>, d3, x), S(f, d, Here, a, d, <<p, m, 0, 0>>, Here, x))
        /\ c \o getxmm(len, Here) \in Code
    BY <1>4, <1>5, LeadsThen
  <2>2. Fetch(n, len) = c \o getxmm(len, Here)
    BY DEF Fetch, c
  <2> QED
    BY <1>5, <2>1, <2>2 DEF Fetched, m, s
<1>6. CASE len = 1
  <2> DEFINE f == <<w[1], a2, a3, a4>>
  <2>1. /\ Leads(getxmm(1, Here), S(a, d, Here, a, d1, <<p, m, 0, 0>>, d3, x), S(f, d, Here, a, d, <<p, m, 0, 0>>, Here, x))
        /\ getxmm(1, Here) \in Code
    BY <1>0, <1>1, <1>2, GetOne
  <2>2. Mixed(f, 1, a, s, n)
    <3>1. Word(f) /\ f[1] = w[1] /\ f[2] = a[2] /\ f[3] = a[3] /\ f[4] = a[4]
      BY <1>1, TupleWord
    <3> HIDE DEF f
    <3>2. ASSUME NEW k \in 1..4 PROVE f[k] = IF k > 1 THEN a[k] ELSE w[k]
      <4>1. k \in {1, 2, 3, 4}
        OBVIOUS
      <4> QED
        BY <3>1, <4>1
    <3> QED
      BY <3>1, <3>2 DEF Mixed, w
  <2> HIDE DEF f
  <2> QED
    BY <1>5, <1>6, <2>1, <2>2
<1>7. CASE len = 2
  <2> DEFINE f == <<w[1], w[2], a3, a4>>
  <2>1. /\ Leads(getxmm(2, Here), S(a, d, Here, a, d1, <<p, m, 0, 0>>, d3, x), S(f, d, Here, a, d, <<p, m, 0, 0>>, Here, x))
        /\ getxmm(2, Here) \in Code
    BY <1>0, <1>1, <1>2, GetTwo
  <2>2. Mixed(f, 2, a, s, n)
    <3>1. Word(f) /\ f[1] = w[1] /\ f[2] = w[2] /\ f[3] = a[3] /\ f[4] = a[4]
      BY <1>1, TupleWord
    <3> HIDE DEF f
    <3>2. ASSUME NEW k \in 1..4 PROVE f[k] = IF k > 2 THEN a[k] ELSE w[k]
      <4>1. k \in {1, 2, 3, 4}
        OBVIOUS
      <4> QED
        BY <3>1, <4>1
    <3> QED
      BY <3>1, <3>2 DEF Mixed, w
  <2> HIDE DEF f
  <2> QED
    BY <1>5, <1>7, <2>1, <2>2
<1>8. CASE len = 4
  <2> DEFINE f == <<w[1], w[2], w[3], w[4]>>
  <2>1. /\ Leads(getxmm(4, Here), S(a, d, Here, a, d1, <<p, m, 0, 0>>, d3, x), S(f, d, Here, a, d, <<p, m, 0, 0>>, Here, x))
        /\ getxmm(4, Here) \in Code
    BY <1>0, <1>1, <1>2, GetFour
  <2>2. Mixed(f, 4, a, s, n)
    <3>1. Word(f) /\ f[1] = w[1] /\ f[2] = w[2] /\ f[3] = w[3] /\ f[4] = w[4]
      BY <1>1, TupleWord
    <3> HIDE DEF f
    <3>2. ASSUME NEW k \in 1..4 PROVE f[k] = IF k > 4 THEN a[k] ELSE w[k]
      <4>1. k \in {1, 2, 3, 4}
        OBVIOUS
      <4> QED
        BY <3>1, <4>1
    <3> QED
      BY <3>1, <3>2 DEF Mixed, w
  <2> HIDE DEF f
  <2> QED
    BY <1>5, <1>8, <2>1, <2>2
<1> QED
  BY <1>6, <1>7, <1>8

\* All of the word, if len is 4
LEMMA WholeWord ==
  ASSUME NEW f, NEW a, NEW s, NEW n, Word(WordOf(s, n)), Mixed(f, 4, a, s, n)
  PROVE  f = WordOf(s, n)
<1> DEFINE w == WordOf(s, n)
<1>1. Word(f) /\ f[1] = w[1] /\ f[2] = w[2] /\ f[3] = w[3] /\ f[4] = w[4]
  BY DEF Mixed
<1> HIDE DEF w
<1> QED
  BY <1>1, WordsEqual DEF w

\* ... and the first len bytes of eax, put there
Put1(len, z, d, d0, d1, p, n, d3, x) ==
  \E a, y : /\ Stored(x, y, n, len, z)
            /\ Leads(setxmm(len, Here), S(z, d, Here, d0, d1, <<p, n, 0, 0>>, d3, x),
                     S(a, d, Here, d0, d, <<p, n, 0, 0>>, Here, y))
            /\ setxmm(len, Here) \in Code

LEMMA Puts ==
  ASSUME NEW len \in {1, 2, 4}, NEW z, Word(z), NEW d, NEW d0, NEW d1, NEW p, NEW n,
         InTheTable(n, 1), InTheTable(n, 2), InTheTable(n, 4), Bytes >= 4, NEW d3, NEW x, Mem(x)
  PROVE  Put1(len, z, d, d0, d1, p, n, d3, x)
<1>0. Here \in Words /\ Bytes >= 1 /\ Bytes >= 2
  BY StackAssumption DEF Words
<1>1. PICK a1, a2, a3, a4 : z = <<a1, a2, a3, a4>>
  BY DEF Word
<1>2. CASE len = 1
  <2>1. \E a, y : /\ Stored(x, y, n, 1, <<a1, a2, a3, a4>>)
                  /\ Leads(setxmm(1, Here), S(<<a1, a2, a3, a4>>, d, Here, d0, d1, <<p, n, 0, 0>>, d3, x),
                           S(a, d, Here, d0, d, <<p, n, 0, 0>>, Here, y))
                  /\ setxmm(1, Here) \in Code
    BY <1>0, SetOne, SMTT(60)
  <2> QED
    BY <1>1, <1>2, <2>1 DEF Put1
<1>3. CASE len = 2
  <2>1. \E a, y : /\ Stored(x, y, n, 2, <<a1, a2, a3, a4>>)
                  /\ Leads(setxmm(2, Here), S(<<a1, a2, a3, a4>>, d, Here, d0, d1, <<p, n, 0, 0>>, d3, x),
                           S(a, d, Here, d0, d, <<p, n, 0, 0>>, Here, y))
                  /\ setxmm(2, Here) \in Code
    BY <1>0, SetTwo
  <2> QED
    BY <1>1, <1>3, <2>1 DEF Put1
<1>4. CASE len = 4
  <2>1. \E a, y : /\ Stored(x, y, n, 4, <<a1, a2, a3, a4>>)
                  /\ Leads(setxmm(4, Here), S(<<a1, a2, a3, a4>>, d, Here, d0, d1, <<p, n, 0, 0>>, d3, x),
                           S(a, d, Here, d0, d, <<p, n, 0, 0>>, Here, y))
                  /\ setxmm(4, Here) \in Code
    BY <1>0, SetFour
  <2> QED
    BY <1>1, <1>4, <2>1 DEF Put1
<1> QED
  BY <1>2, <1>3, <1>4

\* The word at n with its first bytes replaced by those of z
LEMMA StoredWord ==
  ASSUME NEW len \in {1, 2, 4}, NEW z, NEW x, NEW y, NEW p \in (Top - 4 * Room)..Top,
         NEW n \in Nat, n + 4 <= Top - p, Stored(x, y, p + n, len, z),
         NEW w, Word(w), \A k \in 1..4 : w[k] = IF k > len THEN WordOf(Stack(p, x), n)[k] ELSE z[k]
  PROVE  Stack(p, y) = Replaced(Stack(p, x), n, w) /\ Mem(y)
<1>0. p \in 0..Top /\ Top - p <= Bytes
  BY Room4
<1>1. /\ WordOf(Stack(p, x), n)[1] = x[Slot(p + n)]
      /\ WordOf(Stack(p, x), n)[2] = x[Slot(p + n + 1)]
      /\ WordOf(Stack(p, x), n)[3] = x[Slot(p + n + 2)]
      /\ WordOf(Stack(p, x), n)[4] = x[Slot(p + n + 3)]
  BY <1>0, WordUnder
<1>2. PICK w1, w2, w3, w4 : w = <<w1, w2, w3, w4>>
  BY DEF Word
<1>3. ASSUME NEW j \in 1..4
      PROVE  w[j] = IF j > len THEN x[Slot((p + n + j) - 1)] ELSE z[j]
  <2>1. /\ (p + n + 1) - 1 = p + n /\ (p + n + 2) - 1 = p + n + 1
        /\ (p + n + 3) - 1 = p + n + 2 /\ (p + n + 4) - 1 = p + n + 3
    BY <1>0, StackAssumption
  <2>2. WordOf(Stack(p, x), n)[j] = x[Slot((p + n + j) - 1)]
    <3>1. j \in {1, 2, 3, 4}
      OBVIOUS
    <3> QED
      BY <1>1, <2>1, <3>1
  <2> QED
    BY <2>2
<1>4. \A j \in 1..4 : <<w1, w2, w3, w4>>[j] = IF j > len THEN x[Slot((p + n + j) - 1)] ELSE z[j]
  BY <1>2, <1>3
<1>5. Stack(p, y) = Replaced(Stack(p, x), n, <<w1, w2, w3, w4>>)
  BY <1>0, <1>4, StackStored
<1>6. Mem(y)
  BY DEF Stored
<1> QED
  BY <1>2, <1>5, <1>6

\* Putting back what was made of it.
\* w is v with its first bytes replaced by those of z.
FirstOf(w, len, v, z) == \A k \in 1..4 : w[k] = IF k > len THEN v[k] ELSE z[k]

\* Instruction i replaces the word at n of stack s by w.
Replaces(i, a, d, s, n, w) == \A c : Does(i, a, d, s, c, a, d, Replaced(s, n, w), c)

LEMMA PutBack ==
  ASSUME NEW i, NEW c \in Code, NEW n \in Nat, NEW len \in {1, 2, 4}, NEW z, Word(z), NEW w, Word(w),
         NEW a, Word(a), NEW d, Word(d), NEW e, NEW d0, NEW d1, NEW d3, NEW x, Mem(x),
         NEW p \in (Top - 4 * Room)..Top, NEW h, NEW u, NEW v, n + 4 <= Top - p, NEW d9,
         Leads(c, S(a, d, e, d0, d1, <<p, h, u, v>>, d3, x), S(z, d, Here, a, d9, <<p, p + n, 0, 0>>, Here, x)),
         FirstOf(w, len, WordOf(Stack(p, x), n), z), Replaces(i, a, d, Stack(p, x), n, w)
  PROVE  Kept((c \o setxmm(len, Here)) \o <<Mov("dr0", "eax")>>, i, a, d, e, d0, d1, p, h, u, v, d3, x)
<1> DEFINE m == p + n
<1>0. /\ InTheTable(m, 1) /\ InTheTable(m, 2) /\ InTheTable(m, 4) /\ Bytes >= 4 /\ m \in 0..255
  BY Room4
<1> HIDE DEF m
<1>1. Put1(len, z, d, a, d9, p, m, Here, x)
  BY <1>0, Puts, Zenon
<1>2. PICK a9, y : /\ Stored(x, y, m, len, z)
                   /\ Leads(setxmm(len, Here), S(z, d, Here, a, d9, <<p, m, 0, 0>>, Here, x),
                            S(a9, d, Here, a, d, <<p, m, 0, 0>>, Here, y))
                   /\ setxmm(len, Here) \in Code
  BY <1>1 DEF Put1
<1> DEFINE t == S(a, d, Here, a, d, <<p, m, 0, 0>>, Here, y)
<1>3. Stack(p, y) = Replaced(Stack(p, x), n, w) /\ Mem(y)
  BY <1>2, StoredWord DEF m, FirstOf
<1>4. /\ Leads(c \o setxmm(len, Here), S(a, d, e, d0, d1, <<p, h, u, v>>, d3, x), S(a9, d, Here, a, d, <<p, m, 0, 0>>, Here, y))
      /\ c \o setxmm(len, Here) \in Code
  BY <1>2, LeadsThen DEF m
<1>5. /\ Leads((c \o setxmm(len, Here)) \o <<Mov("dr0", "eax")>>, S(a, d, e, d0, d1, <<p, h, u, v>>, d3, x), t)
      /\ (c \o setxmm(len, Here)) \o <<Mov("dr0", "eax")>> \in Code
  BY <1>4, Ones, LeadsThen
<1>6. \A c9 : Does(i, a, d, Stack(p, x), c9, a, d, Stack(p, y), c9)
  BY <1>3 DEF Replaces
<1>7. Ends(i, a, d, p, x, t)
  BY <1>0, <1>3, <1>6, Arrives
<1>8. (c \o setxmm(len, Here)) \o <<Mov("dr0", "eax")>> # <<>>
  <2>1. Mov("dr0", "eax") \in Micro
    BY MicroTyped DEF RegName
  <2> QED
    BY <1>4, <2>1, NotEmpty
<1> HIDE DEF t
<1> QED
  BY <1>5, <1>7, <1>8 DEF Kept

LEMMA PushStackRight ==
  ASSUME NEW i, i.form = "push_stack", i.at \in Nat,
         NEW a, Word(a), NEW d, Word(d), NEW e, NEW d0, NEW d1, NEW d3, NEW x, Mem(x),
         NEW p \in (Top - 4 * Room)..Top, NEW h, NEW u, NEW v,
         i.at + 4 <= Top - p, (Top - p) + 4 <= 4 * Room
  PROVE  Kept(PushStackCode(i), i, a, d, e, d0, d1, p, h, u, v, d3, x)
<1> DEFINE n == i.at
           m == p + n
           s == Stack(p, x)
           c == Fetch(n, 4)
<1>0. p \in 0..Top /\ p - 4 \in (Top - 4 * Room)..Top /\ p - 4 \in 0..255
  BY Room4
<1>1. Fetched(n, 4, a, d, e, d0, d1, p, h, u, v, d3, x)
  BY Fetches
<1>2. PICK f : /\ Mixed(f, 4, a, s, n)
               /\ Leads(c, S(a, d, e, d0, d1, <<p, h, u, v>>, d3, x),
                        S(f, d, Here, a, d, <<p, m, 0, 0>>, Here, x))
               /\ c \in Code
  BY <1>1 DEF Fetched
<1>3. Word(WordOf(s, n)) /\ Len(s) = Top - p
  BY <1>0, WordUnder, StackLength
<1> HIDE DEF c, s, m
<1>4. Word(f) /\ f = WordOf(s, n)
  BY <1>2, <1>3, WholeWord
<1>5. Leads(c \o <<Esp(Here)>>, S(a, d, e, d0, d1, <<p, h, u, v>>, d3, x), S(f, d, Here, a, d, <<p, m, 0, 0>>, Here, x))
      /\ c \o <<Esp(Here)>> \in Code
  BY <1>2, Ones, LeadsThen
<1>6. Pushed(f, d, a, d, Here, x, p, m, 0, 0)
  BY <1>4, PushWord, Zenon
<1>7. PICK a9, y : /\ Stack(p - 4, y) = f \o Stack(p, x) /\ Mem(y)
                   /\ Leads(dopush, S(f, d, Here, a, d, <<p, m, 0, 0>>, Here, x),
                            S(a9, d, Here, a, d, <<p - 4, p - 4, 0, 0>>, Here, y))
                   /\ dopush \in Code
  BY <1>6 DEF Pushed
<1> DEFINE t == S(a, d, Here, a, d, <<p - 4, p - 4, 0, 0>>, Here, y)
<1>8. /\ Leads((c \o <<Esp(Here)>>) \o dopush, S(a, d, e, d0, d1, <<p, h, u, v>>, d3, x),
               S(a9, d, Here, a, d, <<p - 4, p - 4, 0, 0>>, Here, y))
      /\ (c \o <<Esp(Here)>>) \o dopush \in Code
  BY <1>5, <1>7, LeadsThen
<1>9. /\ Leads(((c \o <<Esp(Here)>>) \o dopush) \o <<Mov("dr0", "eax")>>, S(a, d, e, d0, d1, <<p, h, u, v>>, d3, x), t)
      /\ ((c \o <<Esp(Here)>>) \o dopush) \o <<Mov("dr0", "eax")>> \in Code
  BY <1>8, Ones, LeadsThen
<1>10. PushStackCode(i) = ((c \o <<Esp(Here)>>) \o dopush) \o <<Mov("dr0", "eax")>>
  BY DEF PushStackCode, Fetch, c
<1>11. \A c9 : Does(i, a, d, Stack(p, x), c9, a, d, Stack(p - 4, y), c9)
  BY <1>3, <1>4, <1>7 DEF Does, s
<1>12. Ends(i, a, d, p, x, t)
  BY <1>0, <1>7, <1>11, Arrives
<1>13. PushStackCode(i) # <<>>
  <2>1. Mov("dr0", "eax") \in Micro
    BY MicroTyped DEF RegName
  <2> QED
    BY <1>8, <1>10, <2>1, NotEmpty
<1> HIDE DEF t
<1> QED
  BY <1>9, <1>10, <1>12, <1>13 DEF Kept

\* Bytes that the operation makes of those of the stack
LEMMA MadeBytes ==
  ASSUME NEW f, NEW a, NEW s, NEW n, NEW len, NEW alu, NEW o,
         Mixed(f, len, a, s, n), Word(WordOf(s, n)), NEW k \in 1..4
  PROVE  Machine!Alu(alu, len, WordOf(s, n), o)[k] =
           IF k > len THEN WordOf(s, n)[k] ELSE Machine!Alu(alu, len, f, o)[k]
<1> DEFINE w == WordOf(s, n)
<1>1. Machine!Alu(alu, len, w, o)[k] =
        IF k > len THEN w[k] ELSE IF alu = "mov" THEN o[k] ELSE Op(w[k], o[k])
  BY AluWord
<1>2. Machine!Alu(alu, len, f, o)[k] =
        IF k > len THEN f[k] ELSE IF alu = "mov" THEN o[k] ELSE Op(f[k], o[k])
  BY AluWord DEF Mixed
<1>3. f[k] = IF k > len THEN a[k] ELSE w[k]
  BY DEF Mixed
<1> HIDE DEF w
<1>4. CASE k > len
  BY <1>1, <1>4 DEF w
<1>5. CASE ~(k > len)
  BY <1>1, <1>2, <1>3, <1>5 DEF w
<1> QED
  BY <1>4, <1>5

Operated(i, f, a, d, d1, d2, d3, x) ==
  \E e : /\ Leads(OnEax(i), S(f, d, Here, a, d1, d2, d3, x),
                  S(Machine!Alu(i.alu, i.len, f, Opnd(i, a, d)), d, e, a, d1, d2, d3, x))
         /\ OnEax(i) \in Code

LEMMA Operates ==
  ASSUME NEW i \in Program, i.reg \in {"eax", "edx", "imm"}, i.alu \in {"mov", "op"}, i.len \in {1, 2, 4},
         NEW f, Word(f), NEW a, NEW d, NEW d1, NEW d2, NEW d3, NEW x
  PROVE  Operated(i, f, a, d, d1, d2, d3, x)
<1> DEFINE alu == i.alu
           len == i.len
<1>1. PICK f1, f2, f3, f4 : f = <<f1, f2, f3, f4>>
  BY DEF Word
<1>2. len \in Int /\ i.imm \in Words /\ alu \in {"mov", "op"} /\ len \in {1, 2, 4}
  BY DEF Words
<1>3. CASE i.reg = "imm"
  <2> DEFINE z == Machine!Alu(alu, len, f, i.imm)
  <2>1. Runs(DoImm(alu, i.imm, "eax", len), S(f, d, Here, a, d1, d2, d3, x), S(z, d, Here, a, d1, d2, d3, x))
    BY <1>1, <1>2, Alus
  <2>2. DoImm(alu, i.imm, "eax", len) \in Micro
    BY <1>2, MicroTyped DEF RegName
  <2> HIDE DEF z
  <2>3. Leads(<<DoImm(alu, i.imm, "eax", len)>>, S(f, d, Here, a, d1, d2, d3, x), S(z, d, Here, a, d1, d2, d3, x))
        /\ <<DoImm(alu, i.imm, "eax", len)>> \in Code
    BY <2>1, <2>2, LeadsOne
  <2>4. OnEax(i) = <<DoImm(alu, i.imm, "eax", len)>> /\ Opnd(i, a, d) = i.imm
    BY <1>3 DEF OnEax, Opnd
  <2> QED
    BY <2>3, <2>4 DEF Operated, z
<1>4. CASE i.reg = "edx"
  <2> DEFINE z == Machine!Alu(alu, len, f, d)
  <2>1. Runs(DoAlu(alu, "edx", "eax", len), S(f, d, Here, a, d1, d2, d3, x), S(z, d, Here, a, d1, d2, d3, x))
    BY <1>1, <1>2, Alus
  <2>2. DoAlu(alu, "edx", "eax", len) \in Micro
    BY <1>2, MicroTyped DEF RegName
  <2> HIDE DEF z
  <2>3. Leads(<<DoAlu(alu, "edx", "eax", len)>>, S(f, d, Here, a, d1, d2, d3, x), S(z, d, Here, a, d1, d2, d3, x))
        /\ <<DoAlu(alu, "edx", "eax", len)>> \in Code
    BY <2>1, <2>2, LeadsOne
  <2>4. OnEax(i) = <<DoAlu(alu, "edx", "eax", len)>> /\ Opnd(i, a, d) = d
    BY <1>4 DEF OnEax, Opnd
  <2> QED
    BY <2>3, <2>4 DEF Operated, z
<1>5. CASE i.reg = "eax"
  <2> DEFINE z == Machine!Alu(alu, len, f, a)
             c == <<Mov("edx", "esp"), Mov("dr0", "edx"), DoAlu(alu, "edx", "eax", len), Mov("esp", "edx")>>
  <2>1. Runs(DoAlu(alu, "edx", "eax", len), S(f, a, d, a, d1, d2, d3, x), S(z, a, d, a, d1, d2, d3, x))
    BY <1>1, <1>2, Alus
  <2>2. /\ DoAlu(alu, "edx", "eax", len) \in Micro /\ Mov("edx", "esp") \in Micro
        /\ Mov("dr0", "edx") \in Micro /\ Mov("esp", "edx") \in Micro
    BY <1>2, MicroTyped DEF RegName
  <2> HIDE DEF z
  <2>3. /\ Runs(Mov("edx", "esp"), S(f, d, Here, a, d1, d2, d3, x), S(f, d, d, a, d1, d2, d3, x))
        /\ Runs(Mov("dr0", "edx"), S(f, d, d, a, d1, d2, d3, x), S(f, a, d, a, d1, d2, d3, x))
        /\ Runs(Mov("esp", "edx"), S(z, a, d, a, d1, d2, d3, x), S(z, d, d, a, d1, d2, d3, x))
    BY Movs
  <2>4. Leads(c, S(f, d, Here, a, d1, d2, d3, x), S(z, d, d, a, d1, d2, d3, x)) /\ c \in Code
    BY <2>1, <2>2, <2>3, LeadsFour
  <2>5. OnEax(i) = c /\ Opnd(i, a, d) = a
    BY <1>5 DEF OnEax, Opnd
  <2> HIDE DEF c
  <2> QED
    BY <2>4, <2>5 DEF Operated, z
<1> QED
  BY <1>3, <1>4, <1>5

LEMMA StoreRight ==
  ASSUME NEW i \in Program, i.form = "store", i.at \in Nat,
         i.reg \in {"eax", "edx", "imm"}, i.alu \in {"mov", "op"}, i.len \in {1, 2, 4},
         NEW a, Word(a), NEW d, Word(d), NEW e, NEW d0, NEW d1, NEW d3, NEW x, Mem(x),
         NEW p \in (Top - 4 * Room)..Top, NEW h, NEW u, NEW v, i.at + 4 <= Top - p
  PROVE  Kept(StoreCode(i), i, a, d, e, d0, d1, p, h, u, v, d3, x)
<1> DEFINE n == i.at
           m == p + n
           s == Stack(p, x)
           len == i.len
           c == Fetch(n, len)
           o == Opnd(i, a, d)
           w == Machine!Alu(i.alu, len, WordOf(s, n), o)
           c2 == (c \o OnEax(i)) \o <<Esp(Here)>>
<1>0. p \in 0..Top /\ n \in Nat /\ len \in {1, 2, 4}
  BY Room4
<1>1. Fetched(n, len, a, d, e, d0, d1, p, h, u, v, d3, x)
  BY <1>0, Fetches, Zenon
<1>2. PICK f : /\ Mixed(f, len, a, s, n)
               /\ Leads(c, S(a, d, e, d0, d1, <<p, h, u, v>>, d3, x),
                        S(f, d, Here, a, d, <<p, m, 0, 0>>, Here, x))
               /\ c \in Code
  BY <1>1 DEF Fetched
<1>3. Word(WordOf(s, n)) /\ Len(s) = Top - p
  BY <1>0, WordUnder, StackLength
<1> DEFINE z == Machine!Alu(i.alu, len, f, o)
<1>4. Operated(i, f, a, d, d, <<p, m, 0, 0>>, Here, x)
  BY <1>2, Operates DEF Mixed
<1>5. PICK e9 : /\ Leads(OnEax(i), S(f, d, Here, a, d, <<p, m, 0, 0>>, Here, x), S(z, d, e9, a, d, <<p, m, 0, 0>>, Here, x))
                /\ OnEax(i) \in Code
  BY <1>4 DEF Operated
<1>6. Word(f) /\ Word(z) /\ Word(w)
  BY <1>2, <1>3, AluWord DEF Mixed
<1>7. FirstOf(w, len, WordOf(s, n), z)
  <2>1. ASSUME NEW k \in 1..4 PROVE w[k] = IF k > len THEN WordOf(s, n)[k] ELSE z[k]
    BY <1>2, <1>3, MadeBytes
  <2> HIDE DEF w, z
  <2> QED
    BY <2>1 DEF FirstOf
<1>8. Replaces(i, a, d, s, n, w)
  BY <1>3 DEF Does, Replaces
<1> HIDE DEF c, m, o, w, z
<1>9. Leads(c \o OnEax(i), S(a, d, e, d0, d1, <<p, h, u, v>>, d3, x), S(z, d, e9, a, d, <<p, m, 0, 0>>, Here, x))
      /\ c \o OnEax(i) \in Code
  BY <1>2, <1>5, LeadsThen
<1>10. Leads(c2, S(a, d, e, d0, d1, <<p, h, u, v>>, d3, x), S(z, d, Here, a, d, <<p, m, 0, 0>>, Here, x))
       /\ c2 \in Code
  BY <1>9, Ones, LeadsThen
<1>11. StoreCode(i) = (c2 \o setxmm(len, Here)) \o <<Mov("dr0", "eax")>>
  BY DEF StoreCode, Fetch, c
<1> HIDE DEF c2
<1>12. Kept((c2 \o setxmm(len, Here)) \o <<Mov("dr0", "eax")>>, i, a, d, e, d0, d1, p, h, u, v, d3, x)
  <2> HIDE DEF n, len
  <2>1. n \in Nat /\ len \in {1, 2, 4} /\ n + 4 <= Top - p
    BY <1>0 DEF n
  <2>2. Leads(c2, S(a, d, e, d0, d1, <<p, h, u, v>>, d3, x), S(z, d, Here, a, d, <<p, p + n, 0, 0>>, Here, x))
    BY <1>10 DEF m
  <2> QED
    BY <1>6, <1>7, <1>8, <1>10, <2>1, <2>2, PutBack, Zenon DEF s
<1> QED
  BY <1>11, <1>12

LEMMA ModifyRight ==
  ASSUME NEW i \in Program, i.form = "modify", i.at \in Nat, i.len \in {1, 2, 4},
         NEW a, Word(a), NEW d, Word(d), NEW e, NEW d0, NEW d1, NEW d3, NEW x, Mem(x),
         NEW p \in (Top - 4 * Room)..Top, NEW h, NEW u, NEW v, i.at + 4 <= Top - p
  PROVE  Kept(ModifyCode(i), i, a, d, e, d0, d1, p, h, u, v, d3, x)
<1> DEFINE n == i.at
           m == p + n
           s == Stack(p, x)
           len == i.len
           c == Fetch(n, len)
           o == i.imm
           w == Machine!Alu("op", len, WordOf(s, n), o)
           b == <<DoImm("op", o, "eax", len), Esp(Here)>>
           c2 == c \o b
<1>0. p \in 0..Top /\ n \in Nat /\ len \in {1, 2, 4} /\ len \in Int /\ o \in Words /\ "op" \in {"mov", "op"}
  BY Room4 DEF Words
<1>1. Fetched(n, len, a, d, e, d0, d1, p, h, u, v, d3, x)
  BY <1>0, Fetches, Zenon
<1>2. PICK f : /\ Mixed(f, len, a, s, n)
               /\ Leads(c, S(a, d, e, d0, d1, <<p, h, u, v>>, d3, x),
                        S(f, d, Here, a, d, <<p, m, 0, 0>>, Here, x))
               /\ c \in Code
  BY <1>1 DEF Fetched
<1>3. Word(WordOf(s, n)) /\ Len(s) = Top - p
  BY <1>0, WordUnder, StackLength
<1> DEFINE z == Machine!Alu("op", len, f, o)
<1>4. Runs(DoImm("op", o, "eax", len), S(f, d, Here, a, d, <<p, m, 0, 0>>, Here, x), S(z, d, Here, a, d, <<p, m, 0, 0>>, Here, x))
  <2>1. PICK f1, f2, f3, f4 : f = <<f1, f2, f3, f4>>
    BY <1>2 DEF Word, Mixed
  <2> QED
    BY <1>0, <2>1, Alus
<1>6. Word(f) /\ Word(z) /\ Word(w)
  BY <1>2, <1>3, AluWord DEF Mixed
<1>7. FirstOf(w, len, WordOf(s, n), z)
  <2>1. ASSUME NEW k \in 1..4 PROVE w[k] = IF k > len THEN WordOf(s, n)[k] ELSE z[k]
    BY <1>2, <1>3, MadeBytes
  <2> HIDE DEF w, z
  <2> QED
    BY <2>1 DEF FirstOf
<1>8. Replaces(i, a, d, s, n, w)
  BY <1>3 DEF Does, Replaces
<1> HIDE DEF c, m, w, z
<1>9. Leads(b, S(f, d, Here, a, d, <<p, m, 0, 0>>, Here, x), S(z, d, Here, a, d, <<p, m, 0, 0>>, Here, x)) /\ b \in Code
  <2>1. Runs(Esp(Here), S(z, d, Here, a, d, <<p, m, 0, 0>>, Here, x), S(z, d, Here, a, d, <<p, m, 0, 0>>, Here, x))
    BY DEF Runs, Esp, Do, Compute, State, S, Regs
  <2>2. DoImm("op", o, "eax", len) \in Micro /\ Esp(Here) \in Micro
    BY <1>0, MicroTyped DEF RegName, Words
  <2> QED
    BY <1>4, <2>1, <2>2, LeadsTwo
<1>11. ModifyCode(i) = (c2 \o setxmm(len, Here)) \o <<Mov("dr0", "eax")>>
  BY DEF ModifyCode, Fetch, c
<1> HIDE DEF b
<1>10. Leads(c2, S(a, d, e, d0, d1, <<p, h, u, v>>, d3, x), S(z, d, Here, a, d, <<p, m, 0, 0>>, Here, x))
       /\ c2 \in Code
  BY <1>2, <1>9, LeadsThen
<1> HIDE DEF c2
<1>12. Kept((c2 \o setxmm(len, Here)) \o <<Mov("dr0", "eax")>>, i, a, d, e, d0, d1, p, h, u, v, d3, x)
  <2> HIDE DEF n, len
  <2>1. n \in Nat /\ len \in {1, 2, 4} /\ n + 4 <= Top - p
    BY <1>0 DEF n
  <2>2. Leads(c2, S(a, d, e, d0, d1, <<p, h, u, v>>, d3, x), S(z, d, Here, a, d, <<p, p + n, 0, 0>>, Here, x))
    BY <1>10 DEF m
  <2> QED
    BY <1>6, <1>7, <1>8, <1>10, <2>1, <2>2, PutBack, Zenon DEF s
<1> QED
  BY <1>11, <1>12

\* Instruction i puts z in its register.
Lands(i, a, d, s, z) == \A c, a9, d9 : Sets(i, a, d, a9, d9, z) => Does(i, a, d, s, c, a9, d9, s, c)

IntoRegister(i) == i.reg \in {"eax", "edx"}

\* Instruction j of the sequence makes z of f, in the register of instruction i.
Gives(j, i, f, z, a, d, p, m, x) ==
  /\ i.reg = "eax" => Runs(j, S(f, d, Here, a, d, <<p, m, 0, 0>>, Here, x), S(z, d, Here, a, d, <<p, m, 0, 0>>, Here, x))
  /\ i.reg = "edx" => Runs(j, S(f, d, Here, a, d, <<p, m, 0, 0>>, Here, x), S(f, z, Here, a, d, <<p, m, 0, 0>>, Here, x))

LEMMA ToRegister ==
  ASSUME NEW i, IntoRegister(i), NEW c \in Code, NEW j \in Micro, NEW f, NEW z, Word(z),
         NEW a, Word(a), NEW d, Word(d), NEW e, NEW d0, NEW d1, NEW d3, NEW x, Mem(x),
         NEW p \in (Top - 4 * Room)..Top, NEW h, NEW u, NEW v, NEW m \in 0..255,
         Leads(c, S(a, d, e, d0, d1, <<p, h, u, v>>, d3, x), S(f, d, Here, a, d, <<p, m, 0, 0>>, Here, x)),
         Gives(j, i, f, z, a, d, p, m, x),
         Lands(i, a, d, Stack(p, x), z)
  PROVE  Kept((c \o <<j>>) \o Restore(i), i, a, d, e, d0, d1, p, h, u, v, d3, x)
<1>1. CASE i.reg = "eax"
  <2> DEFINE t == S(z, d, Here, a, d, <<p, m, 0, 0>>, Here, x)
  <2>1. Leads(<<j>>, S(f, d, Here, a, d, <<p, m, 0, 0>>, Here, x), t) /\ <<j>> \in Code
    BY <1>1, LeadsOne DEF Gives
  <2>2. Leads(c \o <<j>>, S(a, d, e, d0, d1, <<p, h, u, v>>, d3, x), t) /\ c \o <<j>> \in Code
    BY <2>1, LeadsThen
  <2>3. (c \o <<j>>) \o Restore(i) = c \o <<j>>
    <3>1. Restore(i) = <<>>
      BY <1>1 DEF Restore
    <3> QED
      BY <2>2, <3>1, ConcatEmptySeq DEF Code
  <2>4. \A c1 : Does(i, a, d, Stack(p, x), c1, z, d, Stack(p, x), c1)
    BY <1>1 DEF Lands, Sets
  <2>5. Ends(i, a, d, p, x, t)
    BY <2>4, Arrives
  <2> HIDE DEF t
  <2> QED
    BY <2>2, <2>3, <2>5, NotEmpty DEF Kept
<1>2. CASE i.reg = "edx"
  <2> DEFINE t == S(a, z, Here, a, d, <<p, m, 0, 0>>, Here, x)
  <2>1. Leads(<<j>>, S(f, d, Here, a, d, <<p, m, 0, 0>>, Here, x), S(f, z, Here, a, d, <<p, m, 0, 0>>, Here, x)) /\ <<j>> \in Code
    BY <1>2, LeadsOne DEF Gives
  <2>2. Leads(c \o <<j>>, S(a, d, e, d0, d1, <<p, h, u, v>>, d3, x), S(f, z, Here, a, d, <<p, m, 0, 0>>, Here, x)) /\ c \o <<j>> \in Code
    BY <2>1, LeadsThen
  <2>3. /\ Leads((c \o <<j>>) \o <<Mov("dr0", "eax")>>, S(a, d, e, d0, d1, <<p, h, u, v>>, d3, x), t)
        /\ (c \o <<j>>) \o <<Mov("dr0", "eax")>> \in Code
    BY <2>2, Ones, LeadsThen
  <2>4. Restore(i) = <<Mov("dr0", "eax")>>
    BY <1>2 DEF Restore
  <2>5. \A c1 : Does(i, a, d, Stack(p, x), c1, a, z, Stack(p, x), c1)
    BY <1>2 DEF Lands, Sets
  <2>6. Ends(i, a, d, p, x, t)
    BY <2>5, Arrives
  <2> HIDE DEF t
  <2>7. Mov("dr0", "eax") \in Micro
    BY MicroTyped DEF RegName
  <2> QED
    BY <2>2, <2>3, <2>4, <2>6, <2>7, NotEmpty DEF Kept
<1> QED
  BY <1>1, <1>2 DEF IntoRegister

LEMMA LoadZeroRight ==
  ASSUME NEW i \in Program, i.form = "load_zero", i.at \in Nat, i.reg \in {"eax", "edx"}, i.len \in {1, 2, 4},
         NEW a, Word(a), NEW d, Word(d), NEW e, NEW d0, NEW d1, NEW d3, NEW x, Mem(x),
         NEW p \in (Top - 4 * Room)..Top, NEW h, NEW u, NEW v, i.at + 4 <= Top - p
  PROVE  Kept(LoadZeroCode(i), i, a, d, e, d0, d1, p, h, u, v, d3, x)
<1> DEFINE n == i.at
           m == p + n
           s == Stack(p, x)
           len == i.len
           c == Fetch(n, len)
           j == Zext("eax", i.reg, len)
<1>0. p \in 0..Top /\ n \in Nat /\ len \in {1, 2, 4} /\ len \in Int /\ m \in 0..255
  <2> HIDE DEF n
  <2>1. n \in Nat /\ n + 4 <= Top - p
    BY DEF n
  <2>2. p \in 0..Top /\ m \in 0..255
    BY <2>1, Room4
  <2> QED
    BY <2>1, <2>2
<1>1. Fetched(n, len, a, d, e, d0, d1, p, h, u, v, d3, x)
  BY <1>0, Fetches, Zenon
<1>2. PICK f : /\ Mixed(f, len, a, s, n)
               /\ Leads(c, S(a, d, e, d0, d1, <<p, h, u, v>>, d3, x),
                        S(f, d, Here, a, d, <<p, m, 0, 0>>, Here, x))
               /\ c \in Code
  BY <1>1 DEF Fetched
<1>3. Word(WordOf(s, n)) /\ Len(s) = Top - p
  BY <1>0, WordUnder, StackLength
<1> DEFINE z == Machine!Zero(len, f)
<1> HIDE DEF c, m, s
<1>4. z = Machine!Zero(len, WordOf(s, n)) /\ Word(z)
  <2> DEFINE w == WordOf(s, n)
  <2>1. \A k \in 1..4 : z[k] = IF k > len THEN 0 ELSE f[k]
    BY ZeroWord
  <2>2. \A k \in 1..4 : Machine!Zero(len, w)[k] = IF k > len THEN 0 ELSE w[k]
    BY ZeroWord
  <2>3. \A k \in 1..4 : f[k] = IF k > len THEN a[k] ELSE w[k]
    BY <1>2 DEF Mixed
  <2>4. Word(z) /\ Word(Machine!Zero(len, w))
    BY ZeroWord
  <2> DEFINE y == Machine!Zero(len, w)
  <2> HIDE DEF w, y, z
  <2>5. z[1] = y[1] /\ z[2] = y[2] /\ z[3] = y[3] /\ z[4] = y[4]
    BY <2>1, <2>2, <2>3 DEF y
  <2> QED
    BY <2>4, <2>5, WordsEqual DEF y, w
<1>5. /\ i.reg = "eax" => Runs(j, S(f, d, Here, a, d, <<p, m, 0, 0>>, Here, x), S(z, d, Here, a, d, <<p, m, 0, 0>>, Here, x))
      /\ i.reg = "edx" => Runs(j, S(f, d, Here, a, d, <<p, m, 0, 0>>, Here, x), S(f, z, Here, a, d, <<p, m, 0, 0>>, Here, x))
  <2>1. PICK f1, f2, f3, f4 : f = <<f1, f2, f3, f4>>
    BY <1>2 DEF Word, Mixed
  <2> QED
    BY <2>1, Extends
<1>50. Gives(j, i, f, z, a, d, p, m, x)
  BY <1>5 DEF Gives
<1>6. j \in Micro
  <2>1. "mov" \in {"mov", "op"}
    OBVIOUS
  <2> QED
    BY <1>0, <2>1, MicroTyped DEF RegName
<1>7. Lands(i, a, d, s, z)
  <2> HIDE DEF z
  <2> QED
    BY <1>3, <1>4 DEF Does, Lands
<1> HIDE DEF z, j
<1>8. Kept((c \o <<j>>) \o Restore(i), i, a, d, e, d0, d1, p, h, u, v, d3, x)
  <2>1. m \in 0..255
    BY <1>0 DEF m
  <2>2. IntoRegister(i)
    BY DEF IntoRegister
  <2> QED
    BY <1>2, <1>4, <1>50, <1>6, <1>7, <2>1, <2>2, ToRegister DEF s
<1>9. LoadZeroCode(i) = (c \o <<j>>) \o Restore(i)
  BY DEF LoadZeroCode, Fetch, c, j
<1> QED
  BY <1>8, <1>9

\* An operation other than mov has eax as an operand of its own.
LEMMA LoadRight ==
  ASSUME NEW i \in Program, i.form = "load", i.at \in Nat, i.reg \in {"eax", "edx"}, i.len \in {1, 2, 4},
         i.alu \in {"mov", "op"}, i.reg = "eax" => i.alu = "mov",
         NEW a, Word(a), NEW d, Word(d), NEW e, NEW d0, NEW d1, NEW d3, NEW x, Mem(x),
         NEW p \in (Top - 4 * Room)..Top, NEW h, NEW u, NEW v, i.at + 4 <= Top - p
  PROVE  Kept(LoadCode(i), i, a, d, e, d0, d1, p, h, u, v, d3, x)
<1> DEFINE n == i.at
           m == p + n
           s == Stack(p, x)
           len == i.len
           c == Fetch(n, len)
           j == DoAlu(i.alu, "eax", i.reg, len)
           o == IF i.reg = "eax" THEN a ELSE d
           z == Machine!Alu(i.alu, len, o, WordOf(s, n))
<1>0. p \in 0..Top /\ n \in Nat /\ len \in {1, 2, 4} /\ len \in Int /\ m \in 0..255 /\ Word(o)
  <2> HIDE DEF n
  <2>1. n \in Nat /\ n + 4 <= Top - p
    BY DEF n
  <2>2. p \in 0..Top /\ m \in 0..255
    BY <2>1, Room4
  <2> QED
    BY <2>1, <2>2
<1>1. Fetched(n, len, a, d, e, d0, d1, p, h, u, v, d3, x)
  BY <1>0, Fetches, Zenon
<1>2. PICK f : /\ Mixed(f, len, a, s, n)
               /\ Leads(c, S(a, d, e, d0, d1, <<p, h, u, v>>, d3, x),
                        S(f, d, Here, a, d, <<p, m, 0, 0>>, Here, x))
               /\ c \in Code
  BY <1>1 DEF Fetched
<1>3. Word(WordOf(s, n)) /\ Len(s) = Top - p
  BY <1>0, WordUnder, StackLength
<1> HIDE DEF c, m, s
<1>4. /\ Word(z)
      /\ \A k \in 1..4 : z[k] = IF k > len THEN o[k] ELSE IF i.alu = "mov" THEN WordOf(s, n)[k]
                                ELSE Op(o[k], WordOf(s, n)[k])
  <2> HIDE DEF o
  <2> QED
    BY <1>0, AluWord
<1>5. Word(f) /\ \A k \in 1..4 : f[k] = IF k > len THEN a[k] ELSE WordOf(s, n)[k]
  BY <1>2 DEF Mixed
<1>6. i.reg = "eax" => Runs(j, S(f, d, Here, a, d, <<p, m, 0, 0>>, Here, x), S(z, d, Here, a, d, <<p, m, 0, 0>>, Here, x))
  <2> HAVE i.reg = "eax"
  <2>1. PICK f1, f2, f3, f4 : f = <<f1, f2, f3, f4>>
    BY <1>5 DEF Word
  <2> DEFINE y == Machine!Alu(i.alu, len, f, f)
  <2>2. Runs(j, S(f, d, Here, a, d, <<p, m, 0, 0>>, Here, x), S(y, d, Here, a, d, <<p, m, 0, 0>>, Here, x))
    BY <1>0, <2>1, Alus
  <2>3. Word(y) /\ \A k \in 1..4 : y[k] = IF k > len THEN f[k] ELSE IF i.alu = "mov" THEN f[k] ELSE Op(f[k], f[k])
    BY <1>5, AluWord
  <2>4. i.alu = "mov" /\ o = a
    OBVIOUS
  <2> HIDE DEF y, z, o
  <2>5. \A k \in 1..4 : y[k] = z[k]
    BY <1>4, <1>5, <2>3, <2>4
  <2>6. y = z
    BY <1>4, <2>3, <2>5, WordsEqual
  <2> QED
    BY <2>2, <2>6
<1>7. i.reg = "edx" => Runs(j, S(f, d, Here, a, d, <<p, m, 0, 0>>, Here, x), S(f, z, Here, a, d, <<p, m, 0, 0>>, Here, x))
  <2> HAVE i.reg = "edx"
  <2>1. PICK b1, b2, b3, b4 : d = <<b1, b2, b3, b4>>
    BY DEF Word
  <2> DEFINE y == Machine!Alu(i.alu, len, d, f)
  <2>2. Runs(j, S(f, d, Here, a, d, <<p, m, 0, 0>>, Here, x), S(f, y, Here, a, d, <<p, m, 0, 0>>, Here, x))
    BY <1>0, <2>1, Alus
  <2>3. Word(y) /\ \A k \in 1..4 : y[k] = IF k > len THEN d[k] ELSE IF i.alu = "mov" THEN f[k] ELSE Op(d[k], f[k])
    BY AluWord
  <2>4. o = d
    OBVIOUS
  <2> HIDE DEF y, z, o
  <2>5. \A k \in 1..4 : y[k] = z[k]
    BY <1>4, <1>5, <2>3, <2>4
  <2>6. y = z
    BY <1>4, <2>3, <2>5, WordsEqual
  <2> QED
    BY <2>2, <2>6
<1>70. Gives(j, i, f, z, a, d, p, m, x)
  BY <1>6, <1>7 DEF Gives
<1>8. j \in Micro
  BY <1>0, MicroTyped DEF RegName
<1>9. Lands(i, a, d, s, z)
  <2>1. z = Machine!Alu(i.alu, len, Opnd(i, a, d), WordOf(s, n))
    BY DEF Opnd
  <2> HIDE DEF z
  <2> QED
    BY <1>3, <2>1 DEF Does, Lands
<1> HIDE DEF z, j
<1>10. Kept((c \o <<j>>) \o Restore(i), i, a, d, e, d0, d1, p, h, u, v, d3, x)
  <2>1. m \in 0..255
    BY <1>0 DEF m
  <2>2. IntoRegister(i)
    BY DEF IntoRegister
  <2> QED
    BY <1>2, <1>4, <1>70, <1>8, <1>9, <2>1, <2>2, ToRegister DEF s
<1>11. LoadCode(i) = (c \o <<j>>) \o Restore(i)
  BY DEF LoadCode, Fetch, c, j
<1> QED
  BY <1>10, <1>11

(***************************************************************************)
(* The program                                                             *)
(***************************************************************************)

\* Whatever the instruction becomes carries it out.
LEMMA Translates ==
  ASSUME NEW i \in Program,
         NEW a, Word(a), NEW d, Word(d), NEW e, NEW d0, NEW d1, NEW d3, NEW x, Mem(x),
         NEW p \in (Top - 4 * Room)..Top, NEW h \in 0..255, NEW u, NEW v,
         i.form \in {"push", "push_stack", "call", "alloc"} => (Top - p) + 4 <= 4 * Room,
         i.form \in {"pop", "ret", "free"} => Top - p >= 4,
         i.form \in {"push_stack", "store", "load", "load_zero", "modify"} => i.at + 4 <= Top - p
  PROVE  Kept(Translation(i), i, a, d, e, d0, d1, p, h, u, v, d3, x)
<1>0. Translatable(i)
  BY ProgramAssumption
<1>1. CASE i.form = "push"
  <2>1. i.reg \in {"eax", "edx", "imm"} /\ Word(i.imm) /\ (Top - p) + 4 <= 4 * Room
    BY <1>0, <1>1 DEF Translatable
  <2>2. Translation(i) = PushCode(i)
    BY <1>1 DEF Translation
  <2> QED
    BY <1>1, <2>1, <2>2, PushRight
<1>2. CASE i.form = "push_stack"
  <2>1. i.at \in Nat /\ i.at + 4 <= Top - p /\ (Top - p) + 4 <= 4 * Room
    BY <1>0, <1>2 DEF Translatable
  <2>2. Translation(i) = PushStackCode(i)
    BY <1>2 DEF Translation
  <2> QED
    BY <1>2, <2>1, <2>2, PushStackRight
<1>3. CASE i.form = "pop"
  <2>1. i.reg \in {"eax", "edx"} /\ Top - p >= 4
    BY <1>0, <1>3 DEF Translatable
  <2>2. Translation(i) = PopCode(i)
    BY <1>3 DEF Translation
  <2> QED
    BY <1>3, <2>1, <2>2, PopRight
<1>4. CASE i.form = "call"
  <2>1. PICK l, g, m, n : i.imm = <<l, g, m, n>> /\ l \in 0..255 /\ g \in 0..255
    BY <1>0, <1>4 DEF Translatable, Word
  <2>2. Translation(i) = CallCode(i) /\ (Top - p) + 4 <= 4 * Room
    BY <1>4 DEF Translation
  <2> QED
    BY <1>4, <2>1, <2>2, CallRight
<1>5. CASE i.form = "ret"
  <2>1. Translation(i) = RetCode(i) /\ Top - p >= 4
    BY <1>5 DEF Translation
  <2> QED
    BY <1>5, <2>1, RetRight
<1>6. CASE i.form = "store"
  <2>1. /\ i.at \in Nat /\ i.reg \in {"eax", "edx", "imm"} /\ i.alu \in {"mov", "op"} /\ i.len \in {1, 2, 4}
        /\ i.at + 4 <= Top - p
    BY <1>0, <1>6 DEF Translatable
  <2>2. Translation(i) = StoreCode(i)
    BY <1>6 DEF Translation
  <2> QED
    BY <1>6, <2>1, <2>2, StoreRight
<1>7. CASE i.form = "load"
  <2>1. /\ i.at \in Nat /\ i.reg \in {"eax", "edx"} /\ i.alu \in {"mov", "op"} /\ i.len \in {1, 2, 4}
        /\ i.reg = "eax" => i.alu = "mov"
        /\ i.at + 4 <= Top - p
    BY <1>0, <1>7 DEF Translatable
  <2>2. Translation(i) = LoadCode(i)
    BY <1>7 DEF Translation
  <2> QED
    BY <1>7, <2>1, <2>2, LoadRight
<1>8. CASE i.form = "load_zero"
  <2>1. i.at \in Nat /\ i.reg \in {"eax", "edx"} /\ i.len \in {1, 2, 4} /\ i.at + 4 <= Top - p
    BY <1>0, <1>8 DEF Translatable
  <2>2. Translation(i) = LoadZeroCode(i)
    BY <1>8 DEF Translation
  <2> QED
    BY <1>8, <2>1, <2>2, LoadZeroRight
<1>9. CASE i.form = "modify"
  <2>1. i.at \in Nat /\ i.len \in {1, 2, 4} /\ i.at + 4 <= Top - p
    BY <1>0, <1>9 DEF Translatable
  <2>2. Translation(i) = ModifyCode(i)
    BY <1>9 DEF Translation
  <2> QED
    BY <1>9, <2>1, <2>2, ModifyRight
<1>10. CASE i.form = "alloc"
  <2>1. Translation(i) = EspCode(-4) /\ (Top - p) + 4 <= 4 * Room
    BY <1>10 DEF Translation
  <2> QED
    BY <1>10, <2>1, AllocRight
<1>11. CASE i.form = "free"
  <2>1. Translation(i) = EspCode(4) /\ Top - p >= 4
    BY <1>11 DEF Translation
  <2> QED
    BY <1>11, <2>1, FreeRight
<1> QED
  BY <1>0, <1>1, <1>2, <1>3, <1>4, <1>5, <1>6, <1>7, <1>8, <1>9, <1>10, <1>11 DEF Translatable

\* With fin, the instruction under way has been carried out since the program
\* last saw its state.
Settles(i, before, fin) ==
  Does(i, before.eax, before.edx, before.stack, before.pc,
       fin.g.eax, fin.g.edx, Stack(fin.g.dr2[1], fin.x),
       IF fin.to = <<>> THEN before.pc ELSE fin.to[1])

\* Inductive invariant.  Within a sequence, what remains of it leads to a
\* state between two instructions, in which the one under way was carried out.
StackInv ==
  /\ ~wild /\ todo \in Code
  /\ todo = <<>> => Sound(r, xmm) /\ settled = View(r, xmm, settled.pc, settled.did)
  /\ todo # <<>> => \E fin : /\ Leads(todo, State(r, xmm, <<>>), fin)
                             /\ Sound(fin.g, fin.x) /\ Settles(now.i, settled, fin)

LEMMA SoundRegs ==
  ASSUME NEW a, Word(a), NEW d, Word(d), NEW e, NEW d0, NEW d1, NEW d3, NEW x, Mem(x),
         NEW p \in (Top - 4 * Room)..Top, NEW h \in 0..255, NEW u, NEW v
  PROVE  Sound(Regs(a, d, e, d0, d1, <<p, h, u, v>>, d3), x)
BY DEF Sound

LEMMA Viewed ==
  ASSUME NEW g, NEW x, NEW c, NEW i, NEW s, s = View(g, x, c, i)
  PROVE  /\ s.eax = g.eax /\ s.edx = g.edx /\ s.pc = c /\ s.did = i
         /\ s.stack = Stack(g.dr2[1], x)
<1> DEFINE q == [j \in 1..(Top - g.dr2[1]) |-> x[Slot((g.dr2[1] + j) - 1)]]
<1>1. s = [eax |-> g.eax, edx |-> g.edx, pc |-> c, did |-> i, stack |-> q]
  BY DEF View
<1>2. q = Stack(g.dr2[1], x)
  BY DEF Stack
<1> HIDE DEF q
<1> QED
  BY <1>1, <1>2

LEMMA StackInit == XmmInit => StackInv
<1> SUFFICES ASSUME XmmInit PROVE StackInv
  OBVIOUS
<1>1. PICK depth \in 0..Room :
        r = [eax |-> <<301, 302, 303, 304>>, edx |-> <<305, 306, 307, 308>>,
             dr0 |-> <<309, 310, 311, 312>>, dr1 |-> <<313, 314, 315, 316>>,
             dr3 |-> <<317, 318, 319, 320>>, esp |-> <<321, 322, 323, 324>>,
             dr2 |-> <<Top - 4 * depth, 255, 325, 326>>]
  BY DEF XmmInit
<1>2. Sound(r, xmm)
  <2> DEFINE a == <<301, 302, 303, 304>>
             d == <<305, 306, 307, 308>>
             d0 == <<309, 310, 311, 312>>
             d1 == <<313, 314, 315, 316>>
             d3 == <<317, 318, 319, 320>>
             e == <<321, 322, 323, 324>>
             p == Top - 4 * depth
             h == 255
             u == 325
             v == 326
  <2>1. Word(a) /\ Word(d)
    BY TupleWord
  <2>2. r = Regs(a, d, e, d0, d1, <<p, h, u, v>>, d3)
    BY <1>1 DEF Regs
  <2>3. p \in (Top - 4 * Room)..Top /\ h \in 0..255
    BY StackAssumption
  <2>4. Mem(xmm)
    BY DEF XmmInit, Mem
  <2> HIDE DEF a, d, d0, d1, d3, e, p, h, u, v
  <2>5. Sound(Regs(a, d, e, d0, d1, <<p, h, u, v>>, d3), xmm)
    BY <2>1, <2>3, <2>4, SoundRegs, Zenon
  <2> QED
    BY <2>2, <2>5
<1>3. settled = View(r, xmm, settled.pc, settled.did)
  BY DEF XmmInit, View
<1> QED
  BY <1>2, <1>3 DEF XmmInit, StackInv, Code

\* A step of the sequence
LEMMA StepsOn ==
  ASSUME StackInv, todo # <<>>, NEW t, NEW fin, Leads(Tail(todo), t, fin),
         Sound(fin.g, fin.x), Settles(now.i, settled, fin),
         t = State(r', xmm', t.to), ~wild', todo' = Tail(todo), now' = now,
         settled' = IF Len(todo) = 1
                    THEN View(r', xmm', IF t.to = <<>> THEN settled.pc ELSE t.to[1], now.i) ELSE settled
  PROVE  StackInv' /\ (Machine!StackNext \/ settled' = settled)
<1>1. todo \in Seq(Micro)
  BY DEF StackInv, Code
<1>2. todo' \in Code /\ Len(todo) \in Nat \ {0} /\ Len(Tail(todo)) = Len(todo) - 1
  BY <1>1 DEF Code
<1>3. t.g = r' /\ t.x = xmm'
  BY DEF State
<1>4. CASE Len(todo) = 1
  <2>1. Tail(todo) = <<>>
    BY <1>1, <1>2, <1>4
  <2>2. t = fin
    BY <2>1, LeadsNowhere
  <2> DEFINE c == IF t.to = <<>> THEN settled.pc ELSE t.to[1]
  <2>3. settled' = View(r', xmm', c, now.i)
    BY <1>4
  <2>4. /\ settled'.eax = r'.eax /\ settled'.edx = r'.edx /\ settled'.pc = c /\ settled'.did = now.i
        /\ settled'.stack = Stack(r'.dr2[1], xmm')
    <3> HIDE DEF c
    <3> QED
      BY <2>3, Viewed
  <2>5. Does(now.i, settled.eax, settled.edx, settled.stack, settled.pc,
             r'.eax, r'.edx, Stack(r'.dr2[1], xmm'), c)
    BY <1>3, <2>2 DEF Settles
  <2>6. Machine!StackNext
    <3> HIDE DEF c
    <3>1. Does(settled'.did, settled.eax, settled.edx, settled.stack, settled.pc,
               settled'.eax, settled'.edx, settled'.stack, settled'.pc)
      BY <2>4, <2>5
    <3> QED
      BY <3>1, DoesIt
  <2>7. Sound(r', xmm')
    BY <1>3, <2>2
  <2>8. settled' = View(r', xmm', settled'.pc, settled'.did)
    <3> HIDE DEF c
    <3> QED
      BY <2>3, <2>4
  <2> QED
    BY <1>2, <2>1, <2>6, <2>7, <2>8 DEF StackInv
<1>5. CASE Len(todo) # 1
  <2>1. Tail(todo) # <<>>
    BY <1>2, <1>5
  <2>2. t.to = <<>>
    <3>1. PICK t1 : Runs(Head(Tail(todo)), t, t1)
      BY <1>2, <2>1, LeadsOn
    <3> QED
      BY <3>1 DEF Runs
  <2>3. Leads(todo', State(r', xmm', <<>>), fin)
    BY <2>2
  <2>4. settled' = settled
    BY <1>5
  <2> QED
    BY <1>2, <2>1, <2>3, <2>4 DEF StackInv
<1> QED
  BY <1>4, <1>5

\* What the first instruction of the rest of the sequence leads to
LEMMA FirstOfRest ==
  ASSUME StackInv, todo # <<>>
  PROVE  \E t, fin : /\ Runs(Now, State(r, xmm, <<>>), t) /\ Leads(Tail(todo), t, fin)
                     /\ Sound(fin.g, fin.x) /\ Settles(now.i, settled, fin)
<1>1. PICK fin : /\ Leads(todo, State(r, xmm, <<>>), fin)
                 /\ Sound(fin.g, fin.x) /\ Settles(now.i, settled, fin)
  BY DEF StackInv
<1>2. PICK t : Runs(Head(todo), State(r, xmm, <<>>), t) /\ Leads(Tail(todo), t, fin)
  BY <1>1, LeadsOn DEF StackInv
<1> QED
  BY <1>1, <1>2 DEF Now

LEMMA StackStep ==
  ASSUME StackInv, [XmmNext]_xmmVars
  PROVE  StackInv' /\ (Machine!StackNext \/ settled' = settled)
<1>1. CASE NextInstruction
  <2>1. PICK i \in Program : Fits(i) /\ todo' = Translation(i) /\ now' = [i |-> i, n |-> now.n + 1]
    BY <1>1 DEF NextInstruction
  <2>2. todo = <<>> /\ ~wild' /\ r' = r /\ xmm' = xmm /\ settled' = settled
    BY <1>1 DEF NextInstruction
  <2>3. PICK a, d, e, d0, d1, p, h, u, v, d3 :
          /\ r = Regs(a, d, e, d0, d1, <<p, h, u, v>>, d3)
          /\ Word(a) /\ Word(d) /\ Mem(xmm)
          /\ p \in (Top - 4 * Room)..Top /\ h \in 0..255
    BY <2>2 DEF StackInv, Sound
  <2>4. /\ settled.eax = a /\ settled.edx = d /\ settled.stack = Stack(p, xmm)
    <3>1. settled = View(r, xmm, settled.pc, settled.did)
      BY <2>2 DEF StackInv
    <3> DEFINE pc1 == settled.pc
               did1 == settled.did
    <3> HIDE DEF pc1, did1
    <3>2. settled = View(r, xmm, pc1, did1)
      BY <3>1 DEF pc1, did1
    <3>3. r.eax = a /\ r.edx = d /\ r.dr2[1] = p
      BY <2>3 DEF Regs
    <3> QED
      BY <3>2, <3>3, Viewed
  <2>5. Len(Stack(p, xmm)) = Top - p
    BY <2>3, Room4, StackLength
  <2>6. /\ i.form \in {"push", "push_stack", "call", "alloc"} => (Top - p) + 4 <= 4 * Room
        /\ i.form \in {"pop", "ret", "free"} => Top - p >= 4
        /\ i.form \in {"push_stack", "store", "load", "load_zero", "modify"} => i.at + 4 <= Top - p
    BY <2>1, <2>4, <2>5 DEF Fits
  <2>7. Kept(Translation(i), i, a, d, e, d0, d1, p, h, u, v, d3, xmm)
    BY <2>3, <2>6, Translates
  <2>8. PICK fin : /\ Leads(todo', S(a, d, e, d0, d1, <<p, h, u, v>>, d3, xmm), fin)
                   /\ Ends(i, a, d, p, xmm, fin)
    BY <2>1, <2>7 DEF Kept
  <2>9. Settles(i, settled, fin)
    BY <2>4, <2>8 DEF Settles, Ends
  <2>10. State(r', xmm', <<>>) = S(a, d, e, d0, d1, <<p, h, u, v>>, d3, xmm)
    BY <2>2, <2>3 DEF S
  <2>11. now'.i = i /\ todo' \in Code /\ todo' # <<>>
    BY <2>1, <2>7 DEF Kept
  <2>12. Settles(now'.i, settled', fin)
    BY <2>2, <2>9, <2>11
  <2>13. Sound(fin.g, fin.x)
    BY <2>8 DEF Ends
  <2> QED
    BY <2>2, <2>8, <2>10, <2>11, <2>12, <2>13 DEF StackInv
<1>2. CASE Calculate
  <2>1. todo # <<>>
    BY <1>2 DEF Calculate
  <2>2. PICK t, fin : /\ Runs(Now, State(r, xmm, <<>>), t) /\ Leads(Tail(todo), t, fin)
                      /\ Sound(fin.g, fin.x) /\ Settles(now.i, settled, fin)
    BY <2>1, FirstOfRest
  <2>3. t = State(r', xmm', <<>>) /\ t.to = <<>>
    BY <1>2, <2>2 DEF Calculate, Goes, Runs, State
  <2>4. t = State(r', xmm', t.to) /\ ~wild' /\ todo' = Tail(todo) /\ now' = now
    BY <1>2, <2>3 DEF Calculate, Goes, StackInv
  <2>5. settled' = IF Len(todo) = 1
                   THEN View(r', xmm', IF t.to = <<>> THEN settled.pc ELSE t.to[1], now.i) ELSE settled
    BY <1>2, <2>3 DEF Calculate, Goes
  <2> QED
    BY <2>1, <2>2, <2>4, <2>5, StepsOn
<1>3. CASE PutByte
  <2>1. todo # <<>>
    BY <1>3 DEF PutByte
  <2>2. PICK t, fin : /\ Runs(Now, State(r, xmm, <<>>), t) /\ Leads(Tail(todo), t, fin)
                      /\ Sound(fin.g, fin.x) /\ Settles(now.i, settled, fin)
    BY <2>1, FirstOfRest
  <2>3. t = State(r', xmm', <<>>) /\ t.to = <<>> /\ Reached(Now, r)
    BY <1>3, <2>2 DEF PutByte, Goes, Runs, State
  <2>4. t = State(r', xmm', t.to) /\ ~wild' /\ todo' = Tail(todo) /\ now' = now
    BY <1>3, <2>3 DEF PutByte, Goes, StackInv
  <2>5. settled' = IF Len(todo) = 1
                   THEN View(r', xmm', IF t.to = <<>> THEN settled.pc ELSE t.to[1], now.i) ELSE settled
    BY <1>3, <2>3 DEF PutByte, Goes
  <2> QED
    BY <2>1, <2>2, <2>4, <2>5, StepsOn
<1>4. CASE GetByte
  <2>1. todo # <<>>
    BY <1>4 DEF GetByte
  <2>2. PICK t, fin : /\ Runs(Now, State(r, xmm, <<>>), t) /\ Leads(Tail(todo), t, fin)
                      /\ Sound(fin.g, fin.x) /\ Settles(now.i, settled, fin)
    BY <2>1, FirstOfRest
  <2>3. t = State(r', xmm', <<>>) /\ t.to = <<>> /\ Reached(Now, r)
    BY <1>4, <2>2 DEF GetByte, Goes, Runs, State
  <2>4. t = State(r', xmm', t.to) /\ ~wild' /\ todo' = Tail(todo) /\ now' = now
    BY <1>4, <2>3 DEF GetByte, Goes, StackInv
  <2>5. settled' = IF Len(todo) = 1
                   THEN View(r', xmm', IF t.to = <<>> THEN settled.pc ELSE t.to[1], now.i) ELSE settled
    BY <1>4, <2>3 DEF GetByte, Goes
  <2> QED
    BY <2>1, <2>2, <2>4, <2>5, StepsOn
<1>5. CASE JumpBack
  <2>1. todo # <<>>
    BY <1>5 DEF JumpBack
  <2>2. PICK t, fin : /\ Runs(Now, State(r, xmm, <<>>), t) /\ Leads(Tail(todo), t, fin)
                      /\ Sound(fin.g, fin.x) /\ Settles(now.i, settled, fin)
    BY <2>1, FirstOfRest
  <2>3. t = State(r', xmm', <<>>) /\ t.to = <<>> /\ r.esp = Now.w
    BY <1>5, <2>2 DEF JumpBack, Goes, Runs, State
  <2>4. t = State(r', xmm', t.to) /\ ~wild' /\ todo' = Tail(todo) /\ now' = now
    BY <1>5, <2>3 DEF JumpBack, Goes, StackInv
  <2>5. settled' = IF Len(todo) = 1
                   THEN View(r', xmm', IF t.to = <<>> THEN settled.pc ELSE t.to[1], now.i) ELSE settled
    BY <1>5, <2>3 DEF JumpBack, Goes
  <2> QED
    BY <2>1, <2>2, <2>4, <2>5, StepsOn
<1>6. CASE JumpToCaller
  <2>1. todo # <<>>
    BY <1>6 DEF JumpToCaller
  <2>2. PICK t, fin : /\ Runs(Now, State(r, xmm, <<>>), t) /\ Leads(Tail(todo), t, fin)
                      /\ Sound(fin.g, fin.x) /\ Settles(now.i, settled, fin)
    BY <2>1, FirstOfRest
  <2>3. t = State(r', xmm', <<r.esp>>) /\ t.to # <<>> /\ t.to[1] = r.esp
    BY <1>6, <2>2 DEF JumpToCaller, Goes, Runs, State
  <2>4. t = State(r', xmm', t.to) /\ ~wild' /\ todo' = Tail(todo) /\ now' = now
    BY <1>6, <2>3 DEF JumpToCaller, Goes, StackInv, State
  <2>5. settled' = IF Len(todo) = 1
                   THEN View(r', xmm', IF t.to = <<>> THEN settled.pc ELSE t.to[1], now.i) ELSE settled
    BY <1>6, <2>3 DEF JumpToCaller, Goes
  <2> QED
    BY <2>1, <2>2, <2>4, <2>5, StepsOn
<1>7. CASE UNCHANGED xmmVars
  <2>1. r' = r /\ xmm' = xmm /\ todo' = todo /\ wild' = wild /\ settled' = settled /\ now' = now
    BY <1>7 DEF xmmVars
  <2> QED
    BY <2>1 DEF StackInv
<1> QED
  BY <1>1, <1>2, <1>3, <1>4, <1>5, <1>6, <1>7 DEF XmmNext

\* Every state of the model meets the invariant.
THEOREM XmmCorrect == XmmSpec => []StackInv
<1>1. StackInv /\ [XmmNext]_xmmVars => StackInv'
  BY StackStep
<1> QED
  BY <1>1, StackInit, PTL DEF XmmSpec

\* As long as the program has enough stack, every jump into a table goes to
\* the entry of a byte, and every routine ends where the sequence that used it
\* goes on, in any run of any program that can be translated.
THEOREM JumpsRight == XmmSpec => []NoWildJump
<1>1. StackInv => NoWildJump
  BY DEF StackInv, NoWildJump
<1> QED
  BY <1>1, XmmCorrect, PTL

\* Every sequence does what the instruction that it replaces says, as if the
\* stack were in memory, for any stack, program and operation.
THEOREM StackRefined == XmmSpec => StackKept
<1>1. StackInv /\ [XmmNext]_xmmVars => [Machine!StackNext]_(Machine!stackVars)
  <2> SUFFICES ASSUME StackInv, [XmmNext]_xmmVars
               PROVE  Machine!StackNext \/ UNCHANGED Machine!stackVars
    OBVIOUS
  <2>1. Machine!StackNext \/ settled' = settled
    BY StackStep
  <2>2. settled' = settled => UNCHANGED Machine!stackVars
    BY DEF Machine!stackVars
  <2> QED
    BY <2>1, <2>2
<1> QED
  BY <1>1, XmmCorrect, PTL DEF XmmSpec, StackKept, Machine!StackSpec

=============================================================================
