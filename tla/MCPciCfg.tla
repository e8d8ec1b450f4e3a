------------------------------ MODULE MCPciCfg ------------------------------
EXTENDS PciCfg

Key(reg, at, size, vetoes) == [reg |-> reg, range |-> <<at, size>>, vetoes |-> vetoes]

\* enable_hook_i82801fx: two bytes of a register are protected, and a BAR of a
\* word and one of the whole register are next to it.
MCHooks == { Key("LPC", 0, 1, TRUE), Key("LPC", 2, 1, TRUE),
             Key("LPC1", 0, 2, FALSE), Key("RCBA", 0, 4, FALSE) }
=============================================================================
