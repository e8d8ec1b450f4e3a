---------------------------- MODULE MCSerialLink ----------------------------
EXTENDS SerialLink

\* One access of every kind the guest can make, both widths of a bus access
\* and a data digit that is also a command letter.
MCGuest ==
  { [op |-> RM, width |-> "b", args |-> <<"1">>],
    [op |-> WM, width |-> "l", args |-> <<"1", "b">>],
    [op |-> RI, width |-> "w", args |-> <<"0">>],
    [op |-> WI, width |-> "b", args |-> <<"0", "1">>],
    [op |-> RC, width |-> "none", args |-> <<"1", "0">>],
    [op |-> WC, width |-> "none", args |-> <<"1", "1", "0", "c">>],
    [op |-> CI, width |-> "none", args |-> <<"1", "0">>] }

\* A read, a write, and one whose key a romcc shell replaces.
MCFew == { r \in MCGuest : r.op \in {RM, WM, WC} }

\* The same with the key that is compiled into such a shell.
MCKeyed == { r \in MCFew : r.op # WC }
           \cup { [op |-> WC, width |-> "none", args |-> <<"1", FixedKey, "0", "c">>] }
=============================================================================
