----------------------------- MODULE MCMemChain -----------------------------
EXTENDS HookChain, MemFilters

\* A BAR anywhere in the space for devices, over the UART and over RAM even;
\* the window for PCIe configuration where it belongs.
MCWindows == [ b \in MemBar |->
  CASE b = "mem_bar"    -> {"mmio", "uart", "ram", Nowhere}
    [] b = "pci_mm_cfg" -> {"mmcfg", Nowhere} ]

\* What NoneLost assumes holds of the filters of memory.
ASSUME MemClaimersDecide == ClaimersDecide
=============================================================================
