------------------------------ MODULE MCBoards ------------------------------
(***************************************************************************)
(* What runs before the shell: the straight-line boards (StartUp), the     *)
(* Lenovo X60 (DockConnect) and the BMC of the Dell S1850 (BmcStartUp).    *)
(* They share nothing; each behaviour is one of one part, the other two    *)
(* are parked where they are over.                                         *)
(***************************************************************************)
EXTENDS StartUp, DockConnect, BmcStartUp

Com1 == \h3f8
Com2 == \h2f8

At2e(kind, device) == {SuperIO(\h2e, kind, {device})}

\* A board with one chip at 0x2e; `decodes' if its code opens the LPC decode.
Simple(steps, kind, device, decodes) ==
  Board(steps, Com1, At2e(kind, device), decodes, FALSE)

MCFixed ==
  { Simple(amd_serengeti_cheetah, "winbond", 2, FALSE),
    Simple(aopen_dxpl_plus, "smsc", 4, TRUE),
    Simple(asrock_775i65g, "winbond", 2, TRUE),
    Simple(asrock_939a785gmh, "winbond", 2, TRUE),
    Simple(asrock_p4i65gv, "winbond", 2, TRUE),
    Simple(asus_f2a85_m, "ite", 1, TRUE),
    Simple(asus_k8v_x, "winbond", 2, FALSE),
    Simple(asus_m2v_mx_se, "ite", 1, FALSE),
    Simple(asus_m4a77td_pro, "ite", 1, TRUE),
    Simple(asus_p4p800_vm, "winbond", 2, TRUE),
    Simple(commell_lv_672, "winbond", 2, TRUE),
    Simple(dell_s1850, "winbond", 3, TRUE),
    Simple(intel_d845gbv2, "smsc", 3, TRUE),
    Simple(intel_d94x(3, 0), "smsc", 3, TRUE),
    Simple(jetway_nf81_t56n_lf, "ite", 1, TRUE),
    Simple(rca_rm4100, "smsc", 4, FALSE),
    Simple(roda_rk886ex, "legacy", 0, TRUE),
    Simple(thomson_ip1000, "smsc", 4, FALSE),
    Simple(tyan_s2912, "winbond", 2, FALSE),
    Simple(via_epia_m850, "winbond", 0, FALSE) }

\* Boards with several devices or chips, or none.
MCOther ==
  { Board(intel_d94x(4, 10), Com1, {SuperIO(\h2e, "smsc", {4, 10})}, TRUE, FALSE),
    Board(intel_d94x(3, 4), Com1, {SuperIO(\h2e, "smsc", {3, 4})}, TRUE, FALSE),
    Board(televideo_tc7010, Com1, {SuperIO(\h2e, "open", {5, 6, 8})}, FALSE, FALSE),
    Board(zida_tx98_3d, Com1, {SuperIO(\h370, "isapnp", {1})}, FALSE, TRUE),
    Board(hp_dl165_g6, Com1, {SuperIO(\h162e, "smsc", {3, 6, 10}),
                              SuperIO(\h2e, "serverworks", {2})}, FALSE, TRUE),
    Board(acer_es1_572, Com1, {}, TRUE, FALSE),
    Board(wyse_s50, Com1, {}, TRUE, FALSE) }

\* Boards whose port Kconfig may change.
MCEither ==
  UNION { { Board(asrock_h81m_hds(c), c, At2e("winbond", 2), TRUE, FALSE),
            Board(asus_p2b(c), c, {SuperIO(\h3f0, "winbond", {2})}, FALSE, FALSE),
            Board(asus_p2_m3a3200, c, {SuperIO(\h2e, "ite", {1, 2})}, TRUE, TRUE),
            Board(kontron_986lcd_m, c, {SuperIO(\h2e, "winbond", {2, 3}),
                                        SuperIO(\h4e, "winbond", {2, 3})}, TRUE, FALSE),
            Board(supermicro_x11ssm_f(c), c, {SuperIO(\h2e, "aspeed", {2, 3})}, TRUE, FALSE),
            Board(tyan_s2892(c), c, At2e("winbond", 2), FALSE, FALSE),
            Board(tyan_s2895(c), c, {SuperIO(\h2e, "smsc", {4, 10})}, FALSE, FALSE) } :
          c \in {Com1, Com2} }

MCBoards == MCFixed \cup MCOther \cup MCEither

\* The two boards whose watchdog is not halted are not among them; see the
\* README.

-----------------------------------------------------------------------------

vars == <<startVars, dockVars, bmcVars>>

StartParked ==
  /\ board = Board(acer_es1_572, Com1, {}, TRUE, FALSE)
  /\ todo = <<>> /\ chips = [p \in {} |-> 0] /\ decoded = {}
  /\ window = [w \in Windows |-> IF w = "lpss" THEN 0 ELSE Closed]
  /\ settled = TRUE /\ lost = FALSE

DockParked ==
  /\ at = "shell" /\ timeout = Patience /\ saw = [p \in Poll |-> Unpolled]
  /\ present = FALSE /\ clocked = {"dlpc", "dock"} /\ dlpc = FALSE
  /\ switch = "off" /\ com1 = [on |-> FALSE, base |-> FALSE]

BmcParked ==
  script = <<>> /\ input = NoByte /\ phase = "read" /\ heard = Request /\ late = FALSE

MCInit ==
  \/ StartInit /\ DockParked /\ BmcParked
  \/ StartParked /\ DockInit /\ BmcParked
  \/ StartParked /\ DockParked /\ BmcInit

MCNext ==
  \/ StartNext /\ UNCHANGED <<dockVars, bmcVars>>
  \/ DockNext /\ UNCHANGED <<startVars, bmcVars>>
  \/ BmcNext /\ UNCHANGED <<startVars, dockVars>>

MCSpec == MCInit /\ [][MCNext]_vars /\ DockFairness /\ BmcFairness
=============================================================================
