----------------------------- MODULE MemFilters -----------------------------
(***************************************************************************)
(* The filters of memory (memory.lua, mmio.lua, pci_cfg.lua and the script *)
(* of a mainboard): what each pre function may decide about an access.     *)
(***************************************************************************)
EXTENDS Sequences

\* One address of each kind: low RAM, the SMI and VGA window, high RAM that
\* QEMU keeps and that it does not, cache used as RAM, the two ROM windows, a
\* UART and the EC of a mainboard, the local APIC, its ICR, an IOAPIC, the
\* PCIe configuration window and addresses for BARs.
MemPort == {"ram", "vga", "high", "car", "rom", "uart", "ec", "lapic", "icr",
            "mmcfg", "mmio"}

MemBar    == {"mem_bar", "pci_mm_cfg"}
RamFilter == {"ram_low", "smi_vga", "ram_high"}
MemFilter == MemBar \cup RamFilter \cup
             {"fallback", "rom", "lapic", "car_region", "filter_uart", "ec_mem"}

MemFixed == [ f \in MemFilter \ MemBar |->
  CASE f \in {"fallback", "filter_uart"} -> MemPort
    [] f = "rom"        -> {"rom"}
    [] f = "lapic"      -> {"lapic", "icr"}
    [] f = "car_region" -> {"car"}
    [] f = "ec_mem"     -> {"ec"}
    [] f = "ram_low"    -> {"ram"}
    [] f = "smi_vga"    -> {"vga"}
    [] f = "ram_high"   -> {"high"} ]

Claim(does) == [does |-> does, claims |-> TRUE]
Pass(does)  == [does |-> does, claims |-> FALSE]

\* mem_undefined, mem_target_only
TargetPre == {Claim("target")}

\* mem_qemu_rom_pre, car_qemu_only, mem_qemu_only
QemuPre == {Claim("qemu")}

\* mem_smi_vga
SmiVgaPre(w) == IF w THEN {Claim("both")} ELSE {Claim("target")}

\* mem_lapic: a Start-Up IPI is faked.
LapicPre(w, p) ==
  IF w /\ p = "icr" THEN {Claim("handle"), Claim("fake")} ELSE {Claim("handle")}

\* uart_pre
UartPre(w, p) == IF w /\ p = "uart" THEN {Claim("drop")} ELSE {Pass("pass")}

\* handle_action as the pre function of a BAR
MemBarPre == {Pass("handle")}

\* pci_mm_cfg_pre, ec_mem_pre; a write to PCI configuration may be vetoed.
MmCfgPre(w) == {Claim("handle")} \cup (IF w THEN {Claim("veto")} ELSE {})
EcPre == {Claim("handle")}

MemPreDoes == [ f \in MemFilter |-> [ x \in BOOLEAN \X MemPort |->
  CASE f = "fallback"    -> TargetPre
    [] f \in {"rom", "car_region", "ram_low"} -> QemuPre
    [] f = "ram_high"    -> TargetPre
    [] f = "smi_vga"     -> SmiVgaPre(x[1])
    [] f = "lapic"       -> LapicPre(x[1], x[2])
    [] f = "filter_uart" -> UartPre(x[1], x[2])
    [] f = "mem_bar"     -> MemBarPre
    [] f = "pci_mm_cfg"  -> MmCfgPre(x[1])
    [] f = "ec_mem"      -> EcPre ] ]

\* ec_mem_post fakes what the guest reads back.
MemPostFakes == [ f \in MemFilter |-> IF f = "ec_mem" THEN {"ec"} ELSE {} ]

MemMovers == {"pci_mm_cfg"}

\* do_minimal_setup, do_default_setup, new_car_region and the mainboard.
MemSetup == <<"fallback", "rom", "lapic", "car_region", "filter_uart", "ec_mem">>

\* enable_ram
RamSetup == <<"ram_low", "smi_vga", "ram_high">>
=============================================================================
