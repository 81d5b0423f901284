------------------------------ MODULE FileStore ------------------------------
(***************************************************************************)
(* What the file transfer (OtaServer) and the task that runs the program   *)
(* (PlcLoader) share: the three file areas of the external flash, the      *)
(* block gPlcRecFlash that says which program and recipe are the accepted  *)
(* ones, in memory and in flash, and the flags that ask for a reload.      *)
(*                                                                         *)
(* The contents of a file are its version; an area is a row of cells, each *)
(* as long as a chunk sent over TCP, SectorCells of them to a sector.  A   *)
(* cell holds the version it was programmed with, is Blank, or is Mixed:   *)
(* programmed with a version over another (src/Core/Src/w25q_mem.c).       *)
(***************************************************************************)
EXTENDS Integers

CONSTANTS NCells,       \* cells of a file
          SectorCells,  \* cells of a sector (8)
          MaxVersion,   \* bound: versions, 1 being what is installed
          MaxFaults     \* bound: flash errors, lost or repeated messages, refused
                        \* takes, power failures, saves by the LoRa task

ASSUME CellAssumption == NCells \in Nat \ {0} /\ SectorCells \in Nat \ {0}
ASSUME VersionAssumption == MaxVersion \in Nat \ {0}
ASSUME FaultAssumption == MaxFaults \in Nat

Logic    == {"plc", "rec"}
Files    == Logic \cup {"hex"}
Cells    == 1 .. NCells
Versions == 1 .. MaxVersion
None     == 0
Blank    == 0
Mixed    == -1
Contents == Versions \cup {Blank, Mixed}

Info    == [plc : Versions \cup {None}, rec : Versions \cup {None}, extract : BOOLEAN]
NoFiles == [plc |-> None, rec |-> None, extract |-> FALSE]
Writers == {"ota", "plc"}  \* the tasks that save the block

VARIABLES area,     \* file |-> cell |-> contents
          info,     \* gPlcRecFlash in memory
          block,    \* its sector: erased or programmed, and what it holds
          image,    \* writer |-> the copy it is programming
          flag,     \* PLC_RPOG_Flag and REC_RPOG_Flag
          touched,  \* files erased or programmed since they were accepted
          clean,    \* what is being loaded, or was, is what was accepted
          faults

storeVars == <<area, info, block, image, flag, touched, clean, faults>>

StoreInit ==
    /\ area = [f \in Files |-> [n \in Cells |-> IF f \in Logic THEN 1 ELSE Blank]]
    /\ info = [plc |-> 1, rec |-> 1, extract |-> FALSE]
    /\ block = [st |-> "good", val |-> info]
    /\ image = [w \in Writers |-> NoFiles]
    /\ flag = [f \in Logic |-> FALSE]
    /\ touched = {} /\ clean = FALSE
    /\ faults = 0

Fault == faults < MaxFaults /\ faults' = faults + 1

Whole(f, v) == \A n \in Cells : area[f][n] = v

\* Programming only clears bits.
Programmed(old, v) == IF old \in {Blank, v} THEN v ELSE Mixed

(* Mutant of VerifyOk: the sum is taken over all but the last cell. *)
VerifyOkShort(f, v) == v # None /\ \A n \in Cells \ {NCells} : area[f][n] = v

\* varify_OTA_CRC finds what the announced checksum says.  Over no bytes, or
\* without an announced checksum, it does not.
VerifyOk(f, v) == v # None /\ Whole(f, v)

(* Mutant of EraseBlock: the copy is what the sector held. *)
EraseBlockOld(w) ==
    /\ image' = [image EXCEPT ![w] = block.val]
    /\ block' = [block EXCEPT !.st = "erased"]

\* W25Q_Erase_Write_One_Sector of the block, from a copy taken before.
EraseBlock(w) ==
    /\ image' = [image EXCEPT ![w] = info]
    /\ block' = [block EXCEPT !.st = "erased"]

\* What a record reads as when two were programmed after one erasure: of a
\* file they do not agree on, the length and the checksum fit no file.
Merged(a, b) == [plc     |-> IF a.plc = b.plc THEN a.plc ELSE None,
                 rec     |-> IF a.rec = b.rec THEN a.rec ELSE None,
                 extract |-> a.extract /\ b.extract]

\* The first page of the record, which holds all that is kept of it here and
\* all that its reading checks; the recipe's values follow in others.
ProgramBlock(w) ==
    /\ block' = [st  |-> "good",
                 val |-> IF block.st = "erased" THEN image[w] ELSE Merged(block.val, image[w])]
    /\ image' = [image EXCEPT ![w] = NoFiles]
=============================================================================
