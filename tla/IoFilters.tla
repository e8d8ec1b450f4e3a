----------------------------- MODULE IoFilters ------------------------------
(***************************************************************************)
(* The filters of the I/O ports that the default set-up and the script of  *)
(* the Lenovo X61 enable (core_io.lua, chipset/*.lua,                      *)
(* mainboard/lenovo_x61.lua): what each pre function may decide about an   *)
(* access.                                                                 *)
(***************************************************************************)
EXTENDS Sequences

CONSTANT CacheNvram   \* cache_nvram of user_env.lua

\* One port of each kind: a UART, the SuperIO's configuration ports, PCI
\* configuration data, an NVRAM and an RTC register, the GPIO 0x1680 that can
\* disconnect the dock with the UART, the timer port 0x61, the status of the
\* keyboard controller, and unclaimed ones.
IoPort == {"com", "superio", "pci", "nvram", "rtc", "dock", "timer", "kbd",
           "post", "free1", "free2"}

IoBar    == {"sio_ldn", "pci_bar", "smbus"}
IoFilter == IoBar \cup {"fallback", "pci_io_cfg", "i8042", "i8237", "nvram_io",
                        "debugport", "superio_cfg", "filter_com", "mainboard"}

IoFixed == [ f \in IoFilter \ IoBar |->
  CASE f \in {"fallback", "mainboard"} -> IoPort
    [] f = "pci_io_cfg"  -> {"pci"}
    [] f = "i8042"       -> {"timer", "kbd"}
    [] f \in {"i8237", "debugport"} -> {"post"}
    [] f = "nvram_io"    -> {"nvram", "rtc"}
    [] f = "superio_cfg" -> {"superio"}
    [] f = "filter_com"  -> {"com"} ]

Claim(does) == [does |-> does, claims |-> TRUE]
Pass(does)  == [does |-> does, claims |-> FALSE]

\* io_undefined
FallbackPre == {Claim("target")}

\* Faulty variant: handle_action returns true.
HandleClaims == {Claim("handle")}

\* handle_action as the pre function of the BARs and of the debug port: it
\* returns nothing, so the filters behind it decide as well.
BarPre == {Pass("handle")}

\* com_pre
ComPre == {Claim("drop")}

\* superio_pre: registers 02 and 24 are not written.
SuperioPre(w) == IF w THEN {Claim("handle"), Claim("drop")} ELSE {Claim("handle")}

\* pci_io_cfg_pre: a write to a protected register is vetoed by its hook.
PciIoCfgPre(w) == {Pass("pass"), Claim("handle")} \cup (IF w THEN {Claim("veto")} ELSE {})

\* nvram_write, nvram_read
NvramPre(p) == IF CacheNvram /\ p # "rtc" THEN {Claim("fake")} ELSE {Claim("handle")}

\* i8042_pre leaves the ports between 0x60 and 0x64 to others.
I8042Pre(p) == IF p = "kbd" THEN {Claim("handle")} ELSE {Pass("pass")}

\* i8237_pre leaves port 0x80 to others.
I8237Pre == {Pass("pass")}

\* mainboard_io_pre of the X61
MainboardPre(w, p) == IF w /\ p = "dock" THEN {Claim("drop")} ELSE {Pass("pass")}

\* intel_smbus_host_pre
SmbusPre == {Claim("handle")}

IoPreDoes == [ f \in IoFilter |-> [ x \in BOOLEAN \X IoPort |->
  CASE f = "fallback"    -> FallbackPre
    [] f \in {"sio_ldn", "pci_bar", "debugport"} -> BarPre
    [] f = "filter_com"  -> ComPre
    [] f = "superio_cfg" -> SuperioPre(x[1])
    [] f = "pci_io_cfg"  -> PciIoCfgPre(x[1])
    [] f = "nvram_io"    -> NvramPre(x[2])
    [] f = "i8042"       -> I8042Pre(x[2])
    [] f = "i8237"       -> I8237Pre
    [] f = "mainboard"   -> MainboardPre(x[1], x[2])
    [] f = "smbus"       -> SmbusPre ] ]

\* No post function of these filters fakes.
IoPostFakes == [ f \in IoFilter |-> {} ]

\* superio_post and the hooks of PCI configuration registers program BARs.
IoMovers == {"superio_cfg", "pci_io_cfg"}

\* enable_hook_pc80
Pc80Setup == <<"i8237", "i8042", "nvram_io", "debugport">>

\* do_minimal_setup, do_default_setup, then do_mainboard_setup of the X61, which
\* enables some of the default filters again and its own filter last.
IoSetup == <<"fallback", "pci_io_cfg">> \o Pc80Setup \o <<"superio_cfg", "filter_com">>
           \o Pc80Setup \o <<"pci_io_cfg", "mainboard">>
=============================================================================
