----------------------------- MODULE MCIoChain ------------------------------
EXTENDS IoChain

\* The BAR of the SuperIO's serial port may move over the UART and away from
\* it, that of a PCI device over the port that disconnects the UART; the SMBus
\* controller uses a port of its own.
MCWindows == [ b \in IoBar |->
  CASE b = "sio_ldn" -> {"com", "free1", Nowhere}
    [] b = "pci_bar" -> {"dock", "free2", Nowhere}
    [] b = "smbus"   -> {"free2"} ]

MCNoRuntime == <<>>

\* What FakesStayOff assumes holds of the filters of I/O ports.
ASSUME IoFakersClaim == FakersClaim

\* ... what NoneLost does,
ASSUME IoClaimersDecide == ClaimersDecide

\* ... and what UartSafe does.
ASSUME IoIsInstance == IoInstance
=============================================================================
