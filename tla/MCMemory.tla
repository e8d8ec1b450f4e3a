------------------------------ MODULE MCMemory ------------------------------
EXTENDS MemoryRouting, MCMemChain

MCEarlySetup == MemSetup \o RamSetup
MCNoRuntime  == <<>>

MCRamPages == {"ram"}
MCCarPages == {"car"}

\* What MemoryCorrect assumes holds of the filters of memory.
ASSUME MemHaveHomes == HaveHomes
=============================================================================
