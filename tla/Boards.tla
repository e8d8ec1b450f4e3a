------------------------------- MODULE Boards -------------------------------
(***************************************************************************)
(* chipset_init of every supported board as a sequence of the accesses of  *)
(* PnpAccess.  What does not decide whether the shell gets its line (GPIOs *)
(* without a window of their own, flash decode, clock and interrupt        *)
(* routing of the chipset, where POST codes go) is left out, and so is the *)
(* data that a ROM strap holds.  A board that lets Kconfig choose the port *)
(* has it as a parameter; the others are written for 0x3f8.                *)
(*                                                                         *)
(* The Lenovo X60 is in DockConnect, the BMC of the Dell S1850 in          *)
(* BmcStartUp, as they branch and loop.                                    *)
(***************************************************************************)
EXTENDS PnpAccess

\* Faulty variant: the UART is not switched off before it is moved.
UartKeptOn(port, device, iobase, irq) ==
  pnp_set_logical_device(port, device)
    \o pnp_set_iobase0(port, iobase)
    \o pnp_set_irq0(port, irq)
    \o pnp_set_enable(port, 1)

\* The order in which every board programs a UART: off, base, interrupt, on.
Uart(port, device, iobase, irq) ==
  pnp_set_logical_device(port, device)
    \o pnp_set_enable(port, 0)
    \o pnp_set_iobase0(port, iobase)
    \o pnp_set_irq0(port, irq)
    \o pnp_set_enable(port, 1)

\* The same without an interrupt.
UartNoIrq(port, device, iobase) ==
  pnp_set_logical_device(port, device)
    \o pnp_set_enable(port, 0)
    \o pnp_set_iobase0(port, iobase)
    \o pnp_set_enable(port, 1)

\* LPC_EN of an ICH: bit 12 forwards 0x2e, bit 13 0x4e.  The bits that forward
\* UARTs are left out: a port they do not forward may still be subtractively
\* decoded.
LpcEnable(value) == <<Decode((value \div 4096) % 4)>>

\* Registers 0x44 and 0x48 of the LPC bridge of an SB600 to SB900.
AmdLpcDecode == <<Decode(3)>>

\* The watchdog of an ICH is halted through the ACPI window, at 0x60 in it.
HaltTco(tcobase) ==
  <<Use("acpi", tcobase + 8), Use("acpi", tcobase + 4), Use("acpi", tcobase + 6)>>

IchWatchdog(pmbase) == <<Map("acpi", pmbase)>> \o HaltTco(pmbase + \h60)

-----------------------------------------------------------------------------
(* southbridge/ and superio/                                               *)

intel_ich7 == LpcEnable(\h340b) \o IchWatchdog(\h500)

\* With CONFIG_POST_LPC, a register of RCBA is changed first.
intel_ich7_post == <<Map("rcba", 0), Use("rcba", 0)>> \o intel_ich7

\* The LPSS UART is mapped and released from reset when the board uses it;
\* else COM1 and COM2 are forwarded.
intel_sunrise(lpss) ==
  <<Map("p2sb", 0), Map("tco", \h400), Use("p2sb", 0)>>
    \o <<Use("tco", \h408), Use("tco", \h404), Use("tco", \h406)>>
    \o (IF lpss THEN <<Map("lpss", 0), Use("lpss", 0), Use("lpss", 0)>>
                ELSE <<Use("p2sb", 0), Use("p2sb", 0), Use("p2sb", 0)>>)
    \o LpcEnable(IF lpss THEN \h3c00 ELSE \h3c03)
    \o <<Use("p2sb", 0)>>

amd_sbxxx == <<Map("sbmmio", 0)>> \o AmdLpcDecode

sbxxx_enable_48mhzout ==
  <<Use("sbmmio", 0), Use("sbmmio", 0), Use("sbmmio", 0), Use("sbmmio", 0)>>

aspeed_ast(serial) ==
  <<Index(\h2e, \ha5), Index(\h2e, \ha5)>>
    \o UartNoIrq(\h2e, IF serial = \h3f8 THEN 2 ELSE 3, serial)
    \o pnp_exit_ext_func_mode(\h2e)

fintek_f71869ad ==
  pnp_enter_ext_func_mode_ite(\h2e)
    \o pnp_set_logical_device(\h2e, 7) \o pnp_write_register(\h2e, \h72, 0)
    \o Uart(\h2e, 1, \h3f8, 4)
    \o pnp_exit_ext_func_mode_ite(\h2e)

it8718f_sio_write(ldn, index, value) ==
  pnp_write_register(\h2e, 7, ldn) \o pnp_write_register(\h2e, index, value)

ite_it8718f ==
  <<Index(\h2e, \h87), Index(\h2e, 1), Index(\h2e, \h55), Index(\h2e, \h55)>>
    \o it8718f_sio_write(1, \h30, 1)
    \o it8718f_sio_write(2, \h30, 1)
    \o it8718f_sio_write(0, \h24, 0)
    \o it8718f_sio_write(0, 2, 2)

nuvoton_nct6776(port, serial) ==
  pnp_enter_ext_func_mode(port)
    \o pnp_write_register(port, \h2a, \h40)
    \o UartNoIrq(port, 2, serial)
    \o pnp_exit_ext_func_mode(port)

winbond_w83627thg ==
  pnp_enter_ext_func_mode(\h2e)
    \o Uart(\h2e, 2, \h3f8, 4) \o Uart(\h2e, 3, \h2f8, 3)
    \o pnp_exit_ext_func_mode(\h2e)
    \o pnp_enter_ext_func_mode(\h4e)
    \o Uart(\h4e, 2, \h3e8, 11) \o Uart(\h4e, 3, \h2e8, 10)
    \o pnp_exit_ext_func_mode(\h4e)

-----------------------------------------------------------------------------
(* mainboard/                                                              *)

\* A Winbond chip with one UART, perhaps after its clock is chosen.
Winbond(port, clock, device, serial) ==
  pnp_enter_ext_func_mode(port)
    \o (IF clock = 0 THEN <<>> ELSE pnp_write_register(port, \h24, clock))
    \o Uart(port, device, serial, 4)
    \o pnp_exit_ext_func_mode(port)

\* Faulty variant: the chip is left in its configuration mode.
SmscLeftOpen(device) ==
  pnp_enter_ext_func_mode_alt(\h2e)
    \o Uart(\h2e, device, \h3f8, 4)

\* An SMSC chip with one UART.
Smsc(device) ==
  pnp_enter_ext_func_mode_alt(\h2e)
    \o Uart(\h2e, device, \h3f8, 4)
    \o pnp_exit_ext_func_mode(\h2e)

acer_es1_572 == intel_sunrise(TRUE) \o <<Use("p2sb", 0), Use("p2sb", 0)>>
amd_serengeti_cheetah == Winbond(\h2e, 0, 2, \h3f8)
aopen_dxpl_plus == LpcEnable(\h1403) \o Smsc(4)
asrock_775i65g == LpcEnable(\h1408) \o Winbond(\h2e, \hc0, 2, \h3f8)
asrock_939a785gmh == AmdLpcDecode \o Winbond(\h2e, 0, 2, \h3f8)
asrock_h81m_hds(serial) == intel_ich7 \o nuvoton_nct6776(\h2e, serial)
asrock_p4i65gv == LpcEnable(\h1408) \o Winbond(\h2e, \hc0, 2, \h3f8)
asus_k8v_x == Winbond(\h2e, 0, 2, \h3f8)
asus_p2b(serial) == Winbond(\h3f0, 0, 2, serial)
asus_p4p800_vm == LpcEnable(\h1408) \o Winbond(\h2e, \h42, 2, \h3f8)
asus_p2_m3a3200 == amd_sbxxx \o ite_it8718f
jetway_nf81_t56n_lf == amd_sbxxx \o sbxxx_enable_48mhzout \o fintek_f71869ad
kontron_986lcd_m == intel_ich7_post \o winbond_w83627thg
supermicro_x11ssm_f(serial) == intel_sunrise(FALSE) \o aspeed_ast(serial)
thomson_ip1000 == <<Map("acpi", \h400), Use("acpi", \h468), Unmap("acpi")>> \o Smsc(4)
rca_rm4100 == <<Map("acpi", \h100), Use("acpi", \h168), Unmap("acpi")>> \o Smsc(4)
tyan_s2892(serial) == Winbond(\h2e, 0, 2, serial)
tyan_s2912 == Winbond(\h2e, 0, 2, \h3f8)
intel_d845gbv2 == LpcEnable(\h1403) \o Smsc(3)

\* The Super I/O's watchdog, then its UART, of an ITE chip.
Ite ==
  pnp_enter_ext_func_mode_ite(\h2e)
    \o pnp_set_logical_device(\h2e, 7) \o pnp_write_register(\h2e, \h72, 0)
    \o Uart(\h2e, 1, \h3f8, 4)
    \o pnp_exit_ext_func_mode_ite(\h2e)

\* Faulty variant: the SuperIO is programmed before its port is forwarded.
SuperioFirst == Ite \o AmdLpcDecode

asus_f2a85_m == amd_sbxxx \o sbxxx_enable_48mhzout \o Ite
asus_m2v_mx_se == Ite
asus_m4a77td_pro == AmdLpcDecode \o Ite

commell_lv_672 ==
  IchWatchdog(\h500)
    \o LpcEnable(\h1403)
    \o pnp_enter_ext_func_mode(\h2e)
    \o pnp_set_logical_device(\h2e, 0) \o pnp_write_register(\h2e, \h24, \hc2)
    \o Uart(\h2e, 2, \h3f8, 4)
    \o pnp_exit_ext_func_mode(\h2e)

\* bmc_foad waits for the BMC; see BmcStartUp.
dell_s1850 == LpcEnable(\h140f) \o <<Wait>> \o Winbond(\h2e, 0, 3, \h3f8)

hp_dl165_g6 ==
  pnp_enter_ext_func_mode_alt(\h162e)
    \o pnp_set_logical_device(\h162e, 6)
    \o pnp_set_iobase0(\h162e, \h70) \o pnp_set_iobase1(\h162e, \h72)
    \o pnp_set_enable(\h162e, 3)
    \o pnp_set_logical_device(\h162e, 3)
    \o pnp_set_iobase0(\h162e, \h80) \o pnp_set_enable(\h162e, 1)
    \o pnp_set_logical_device(\h162e, \ha)
    \o pnp_set_iobase0(\h162e, \h600) \o pnp_set_enable(\h162e, 1)
    \o pnp_exit_ext_func_mode(\h162e)
    \o <<Index(\h2e, \h5a)>> \o Uart(\h2e, 2, \h3f8, 4) \o <<Index(\h2e, \ha5)>>

\* The D945GCLF, the D945GNT and the D946GZIS; the last has no `pm'.
intel_d94x(com_port, pm) ==
  <<Map("rcba", 0), Use("rcba", 0)>>
    \o LpcEnable(\h140d)
    \o IchWatchdog(\h500)
    \o pnp_enter_ext_func_mode_alt(\h2e)
    \o Uart(\h2e, com_port, \h3f8, 4)
    \o (IF pm # 0 THEN Uart(\h2e, pm, \h680, 3) ELSE <<>>)
    \o pnp_exit_ext_func_mode(\h2e)

\* Both MSI boards compute the watchdog's address from the number of the
\* configuration register, 0x40, instead of the base written to it (and leave
\* the register that enables the window as it is).
msi_ms6178 ==
  <<Map("acpi", \h500)>> \o HaltTco(\h40 + \h60)
    \o LpcEnable(\h3003) \o Winbond(\h2e, \hc4, 2, \h3f8)
msi_ms7133 ==
  <<Map("acpi", \h500)>> \o HaltTco(\h40 + \h60)
    \o LpcEnable(\h3003) \o Winbond(\h4e, \hc6, 2, \h3f8)

\* A chip without logical devices.
roda_rk886ex ==
  <<Map("rcba", 0), Use("rcba", 0)>>
    \o LpcEnable(\h3f0f)
    \o IchWatchdog(\h500)
    \o pnp_enter_ext_func_mode_alt(\h2e)
    \o pnp_write_register(\h2e, 2, \h88)
    \o pnp_write_register(\h2e, \h24, \h3f8 \div 4)
    \o pnp_write_register(\h2e, \h25, \h2f8 \div 4)
    \o pnp_write_register(\h2e, \h30, \h600 \div 16)
    \o pnp_exit_ext_func_mode(\h2e)

\* Device 8 is the power management unit, whose window has the clock.
televideo_tc7010 ==
  UartNoIrq(\h2e, 8, \he8)
    \o <<Use("device", \he8), Use("device", \he9), Use("device", \he9), Wait>>
    \o Uart(\h2e, 6, \h3f8, 4)
    \o pnp_write_register(\h2e, \h21, 8)
    \o Uart(\h2e, 5, \h2f8, 3)

smsc_enable_serial(port, dev, iobase) ==
  pnp_enter_ext_func_mode_alt(port)
    \o UartNoIrq(port, dev, iobase)
    \o pnp_exit_ext_func_mode(port)

\* Device 10 holds GPIOs, one of which is changed before the UART is set up.
tyan_s2895(serial) ==
  smsc_enable_serial(\h2e, 10, \h400)
    \o <<Use("device", \h400 + \h77), Use("device", \h400 + \h77)>>
    \o smsc_enable_serial(\h2e, 4, serial)

via_epia_m850 ==
  pnp_enter_ext_func_mode(\h2e)
    \o UartNoIrq(\h2e, 0, \h3f8)
    \o pnp_exit_ext_func_mode(\h2e)

\* GPIO 8 and 9, which the UART uses, are in a window of their own; the UART
\* itself is mapped and enabled by MSRs.
wyse_s50 ==
  <<Map("gpio", \h6100), Use("gpio", \h6104), Use("gpio", \h6110),
    Use("gpio", \h6120), Use("gpio", \h6134), Use("gpio", \h6118), Map("uart", \h3f8)>>

zida_tx98_3d ==
  <<Index(\h370, IsaPnpKey), Index(\h370, InitValues)>>
    \o pnp_set_logical_device(\h370, 1)
    \o pnp_set_enable(\h370, 1)
    \o pnp_write_register(\h370, \h20, \h20)
=============================================================================
