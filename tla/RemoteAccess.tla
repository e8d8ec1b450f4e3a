---------------------------- MODULE RemoteAccess ----------------------------
(***************************************************************************)
(* What SerialICE promises to the program running in QEMU: its accesses    *)
(* happen on the target, each exactly once, in program order, and a read   *)
(* returns the values that this very access produced.  Writes are posted:  *)
(* one may return before it happened, but nothing overtakes it.            *)
(***************************************************************************)
EXTENDS Wire

\* A write returns at once, a read with the values that were read.
Waits(r) == r.op \in Reads

VARIABLES
  issued,   \* accesses begun, in order
  done,     \* accesses performed on the target, in order
  log       \* accesses returned to the program, in order

vars == <<issued, done, log>>

Init == issued = <<>> /\ done = <<>> /\ log = <<>>

\* The program begins an access once the previous one has returned.
Issue(r) ==
  /\ Len(log) = Len(issued)
  /\ issued' = Append(issued, r)
  /\ UNCHANGED <<done, log>>

Perform(out) ==
  /\ Len(done) < Len(issued)
  /\ LET r == issued[Len(done) + 1]
     IN  /\ out \in Results(r)
         /\ done' = Append(done, [acc |-> r, out |-> out])
  /\ UNCHANGED <<issued, log>>

Return ==
  /\ Len(log) < Len(issued)
  /\ LET r == issued[Len(issued)]
     IN  \/ /\ Waits(r) /\ Len(done) = Len(issued)
            /\ log' = Append(log, [req |-> r, res |-> done[Len(done)].out])
         \/ /\ ~Waits(r)
            /\ log' = Append(log, [req |-> r, res |-> <<>>])
  /\ UNCHANGED <<issued, done>>

Next == \/ \E r \in Access : Issue(r)
        \/ \E r \in Access : \E out \in Results(r) : Perform(out)
        \/ Return

Spec == Init /\ [][Next]_vars
=============================================================================
