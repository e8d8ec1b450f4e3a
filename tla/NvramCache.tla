----------------------------- MODULE NvramCache -----------------------------
(***************************************************************************)
(* The filter of the NVRAM ports (pc80.lua).  With cache_nvram set it      *)
(* answers for the target, from a table, except for the clock's registers: *)
(* what concerns these goes to the target, the index that selects one      *)
(* included.  Other indexes stay in the script, so the target's index is   *)
(* that of some earlier access.                                            *)
(*                                                                         *)
(* Each of the pairs of ports 0x70, 0x72 and 0x74 is an index and the data *)
(* behind it; the last two are the same bank.  Accesses are bytes.  The    *)
(* filter starts with index 0 in both banks and does not know those in the *)
(* target; firmware selects an index of a bank before it uses the bank.    *)
(***************************************************************************)
EXTENDS Naturals

CONSTANTS
  RtcIndex,   \* indexes below 0x0E: registers of the clock, in bank 1
  RamIndex,   \* the other indexes
  CellValue   \* contents of a cell

Empty == 0

ASSUME NvramAssumption ==
  /\ Empty \in CellValue
  /\ 0 \in RtcIndex
  /\ RtcIndex \cap RamIndex = {}

VARIABLES
  caching,     \* cache_nvram of user_env.lua
  index,       \* f.reg.p70 and f.reg.p72
  table,       \* f.nvram_data where f.nvram_set, else Empty
  indexThere,  \* the index registers of the target
  cells,       \* the cells of the target
  value,       \* what the guest's last read returned
  chosen       \* banks of which the guest has selected an index

nvramVars == <<caching, index, table, indexThere, cells, value, chosen>>

Banks == {1, 2}
NvIndex == RtcIndex \cup RamIndex
Cells == Banks \X NvIndex
Pair == {\h70, \h72, \h74}

\* nvram_bank
nvram_bank(pair) == IF pair = \h70 THEN 1 ELSE 2

\* rtc: an index of a register of the clock.
IsRtc(b, i) == b = 1 /\ i \in RtcIndex

\* The access is kept from the target.
Faked(b, i) == caching /\ ~IsRtc(b, i)

NvramInit ==
  /\ caching \in BOOLEAN
  /\ index = [b \in Banks |-> 0] /\ indexThere \in [Banks -> NvIndex]
  /\ table = [c \in Cells |-> Empty]
  /\ \E v \in CellValue : cells = [c \in Cells |-> v]
  /\ value = Empty
  /\ chosen = {}

\* Faulty variant: indexes never leave the script.
IndexStays(b, i) == indexThere

\* nvram_write: an index that is not faked reaches the target.
IndexSent(b, i) ==
  IF Faked(b, i) THEN indexThere ELSE [indexThere EXCEPT ![b] = i]

SelectIndex(pair, i) ==
  LET b == nvram_bank(pair)
  IN /\ index' = [index EXCEPT ![b] = i]
     /\ indexThere' = IndexSent(b, i)
     /\ chosen' = chosen \cup {b}
     /\ UNCHANGED <<caching, table, cells, value>>

\* nvram_read of an index port
ReadIndex(pair) ==
  LET b == nvram_bank(pair)
  IN /\ b \in chosen
     /\ value' = IF Faked(b, index[b]) THEN index[b] ELSE indexThere[b]
     /\ UNCHANGED <<caching, index, table, indexThere, cells, chosen>>

\* nvram_write to a data port; the target stores under its own index.
WriteCell(pair, v) ==
  LET b == nvram_bank(pair)
  IN /\ b \in chosen
     /\ table' = [table EXCEPT ![<<b, index[b]>>] = v]
     /\ cells' = IF Faked(b, index[b]) THEN cells
                 ELSE [cells EXCEPT ![<<b, indexThere[b]>>] = v]
     /\ UNCHANGED <<caching, index, indexThere, value, chosen>>

\* nvram_read of a data port
ReadCell(pair) ==
  LET b == nvram_bank(pair)
  IN /\ b \in chosen
     /\ value' = IF Faked(b, index[b]) THEN table[<<b, index[b]>>]
                 ELSE cells[<<b, indexThere[b]>>]
     /\ UNCHANGED <<caching, index, table, indexThere, cells, chosen>>

\* The clock of the target runs.
ClockRuns ==
  /\ \E i \in RtcIndex, v \in CellValue : cells' = [cells EXCEPT ![<<1, i>>] = v]
  /\ UNCHANGED <<caching, index, table, indexThere, value, chosen>>

NvramNext ==
  \/ \E p \in Pair : ReadIndex(p) \/ ReadCell(p)
  \/ \E p \in Pair, i \in NvIndex : SelectIndex(p, i)
  \/ \E p \in Pair, v \in CellValue : WriteCell(p, v)
  \/ ClockRuns

NvramSpec == NvramInit /\ [][NvramNext]_nvramVars

-----------------------------------------------------------------------------

\* A cell is where the filter reads it.
CellsSeen ==
  [c \in Cells |-> IF Faked(c[1], c[2]) THEN table[c] ELSE cells[c]]

Memory == INSTANCE NvramMemory WITH
  Bank <- Banks, Idx <- NvIndex, Clock <- {1} \X RtcIndex, Val <- CellValue,
  idx <- index, mem <- CellsSeen, got <- value

\* With and without the cache, firmware that selects an index before it uses a
\* bank cannot tell the two places in which cells are kept from one NVRAM: a
\* cell reads as it was last written, and what is written to the clock arrives
\* at the register that was selected.
CacheIsMemory == Memory!MemorySpec
=============================================================================
