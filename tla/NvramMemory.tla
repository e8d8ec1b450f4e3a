---------------------------- MODULE NvramMemory -----------------------------
(***************************************************************************)
(* What NVRAM promises firmware: two banks of cells, each with an index;   *)
(* a cell reads as it was last written.  Only the cells of the clock change *)
(* by themselves.                                                          *)
(***************************************************************************)
CONSTANTS
  Bank,     \* of cells
  Idx,      \* indexes into a bank
  Clock,    \* the cells, as pairs of bank and index, of the clock
  Val       \* contents of a cell

VARIABLES
  idx,      \* the index of each bank
  mem,      \* the cells
  got       \* what the last read returned: a cell's contents or an index

memoryVars == <<idx, mem, got>>

MemoryInit ==
  /\ idx \in [Bank -> Idx]
  /\ mem \in [Bank \X Idx -> Val]
  /\ got \in Val \cup Idx

SetIndex(b, i) ==
  /\ idx' = [idx EXCEPT ![b] = i]
  /\ UNCHANGED <<mem, got>>

GetIndex(b) ==
  /\ got' = idx[b]
  /\ UNCHANGED <<idx, mem>>

Put(b, v) ==
  /\ mem' = [mem EXCEPT ![<<b, idx[b]>>] = v]
  /\ UNCHANGED <<idx, got>>

Get(b) ==
  /\ got' = mem[<<b, idx[b]>>]
  /\ UNCHANGED <<idx, mem>>

Tick ==
  /\ mem' \in [Bank \X Idx -> Val]
  /\ \A c \in (Bank \X Idx) \ Clock : mem'[c] = mem[c]
  /\ UNCHANGED <<idx, got>>

MemoryNext ==
  \/ \E b \in Bank : GetIndex(b) \/ Get(b)
  \/ \E b \in Bank, i \in Idx : SetIndex(b, i)
  \/ \E b \in Bank, v \in Val : Put(b, v)
  \/ Tick

MemorySpec == MemoryInit /\ [][MemoryNext]_memoryVars
=============================================================================
