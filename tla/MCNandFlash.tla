----------------------------- MODULE MCNandFlash -----------------------------
(* The host and the chips the runs of NandFlash use. *)
EXTENDS NandFlash

MCParamIndex == 0..3 \union {5, 63} \union 79..85 \union {100, 101}

\* A byte the host writes tells the cell it is meant for.
MCHostBytes == [i \in Nat |-> {160 + i}]

\* The parameter page: "ONFI", bus width, and a geometry of 2 + 1 bytes per page.
MCParamByte(wide, k) ==
  CASE k \in 0..3 -> <<79, 78, 70, 73>>[k + 1]
    [] k = 5      -> wide
    [] k = 63     -> 32
    [] k = 80     -> 2
    [] k = 84     -> 1
    [] k = 101    -> 35
    [] OTHER      -> 0

\* Each word tells the chip, the command it answers and its place.
MCChipWord(wide, c, cmd, k) ==
  CASE cmd = 236 -> MCParamByte(wide, k)
    [] cmd = 48  -> 16 * c + (k % 8) + 256 * (32 * c + (k % 8))
    [] cmd = 144 -> 128 + 16 * c + (k % 8)
    [] cmd = 112 -> 192 + c
    [] OTHER     -> X

\* Chip 1 has an 8-bit bus, chip 2 a 16-bit bus.
MCTwoWidths == [c \in Chip, cmd \in Byte, k \in Nat |-> MCChipWord(c - 1, c, cmd, k)]
MCNarrowWord == [c \in Chip, cmd \in Byte, k \in Nat |-> MCChipWord(0, c, cmd, k)]

\* The alphabets of the host, by the question a run asks.
MCTransfers == {2, 3, 5, 6, 7, 9, 24}
MCPrograms  == {4, 6, 7, 9, 17, 19, 24}
MCSome      == {1, 3, 4, 6, 9, 24}
MCWide      == {2, 6, 9, 24}
MCRegisters == {0} \union 8..24 \union {255}
MCBypass    == {3, 9, 21}
MCBypassByte == [i \in Nat |-> {255}]
MCReadByte   == [i \in Nat |-> {48}]
==============================================================================
