----------------------------- MODULE HistoryLog -----------------------------
(***************************************************************************)
(* The history log in external NOR flash and its UDP protocol:             *)
(* src/Core/Src/udpserver.c, the flash writes of w25q_mem.c it uses, its   *)
(* caller Build_Data_for_server (src/PCBPLC/src/pcbplc.c) and the timer    *)
(* task that ends a suspension (src/PCBPLC/src/pcbplcTimerTask.c).         *)
(*                                                                         *)
(* A record fills one slot of two pages; PerSector slots share an erase    *)
(* sector.  The run-time parameters (page counter and overwritten flag)    *)
(* live in RAM and in a flash sector of their own.  The default task logs  *)
(* under the flash semaphore; the UDP thread has the same priority and is  *)
(* time-sliced with it, so every flash operation and every update of the   *)
(* shared parameters is a step.  Power may fail between any two steps; it  *)
(* may also tear a record page being programmed or a sector being erased.  *)
(*                                                                         *)
(* Programming without erasing can only clear bits: a page programmed      *)
(* twice holds the conjunction of both contents, Mixed.                    *)
(***************************************************************************)
EXTENDS Integers, FiniteSets

CONSTANTS MaxPackets,  \* MAX_HISTORY_DATA_PACKETS
          PerSector,   \* records in an erase sector
          StopTicks,   \* ticks without a frame that end a suspension
          ByteMod,     \* number of values of gStopHistoricalDataStoreCounter
          TimerOn,     \* a PLC program was found: the timer task runs
          EraseRace,   \* ERASE may arrive while a record is being written
          MaxLogs,     \* bound: records logged
          MaxFrames,   \* bound: frames received
          MaxCrashes   \* bound: power failures

ASSUME PacketsAssumption ==
    /\ PerSector \in Nat \ {0}
    /\ MaxPackets \in Nat \ {0}
    /\ MaxPackets % PerSector = 0
ASSUME StopAssumption ==
    StopTicks \in Nat /\ ByteMod \in Nat /\ StopTicks + 1 < ByteMod
ASSUME SwitchAssumption == TimerOn \in BOOLEAN /\ EraseRace \in BOOLEAN
ASSUME BoundAssumption ==
    MaxLogs \in Nat /\ MaxFrames \in Nat /\ MaxCrashes \in Nat

Slots == 0 .. MaxPackets - 1
Blank == 0              \* an erased page; records are numbered from 1
Mixed == -1             \* a page that is not what one record wrote
Erased == <<Blank, Blank>>
Ones  == MaxPackets + 1 \* a counter field left erased: 0xFFFFFFFF

VARIABLES flash,   \* slot |-> its two pages
          para,    \* the parameter sector: <<>> when erased
          page,    \* s_ExtDataFlash_PageCounter
          over,    \* s_ExtDataFlash_IsDataLogOverwritten
          stop,    \* gStopHistoricalDataStore
          ticks,   \* gStopHistoricalDataStoreCounter
          wpc,     \* where ExtFlash_WriteHistoricalData is
          addr,    \* the slot of its WriteAddress
          upc,     \* where the ERASE handler is
          on,      \* power
          logged,  \* records handed to the log so far
          frames, crashes,
          known,   \* records the log answered for when it was last at rest
          tears    \* power failures that hit a write in progress

flashVars == <<flash, para>>
ramVars == <<page, over, stop, ticks>>
countVars == <<logged, frames, crashes>>
vars == <<flashVars, ramVars, wpc, addr, upc, on, countVars, known, tears>>

SectorOf(s) == {t \in Slots : t \div PerSector = s \div PerSector}

(* What GET_TOTAL_PACKETS answers. *)
Total == IF over = 1 THEN MaxPackets ELSE page

Init ==
    /\ flash = [s \in Slots |-> Erased]
    /\ para = [page |-> 0, over |-> 0]
    /\ page = 0 /\ over = 0
    /\ stop = 0 /\ ticks = 0
    /\ wpc = "rest" /\ addr = 0 /\ upc = "rest"
    /\ on = TRUE
    /\ logged = 0 /\ frames = 0 /\ crashes = 0
    /\ known = 0 /\ tears = 0
-----------------------------------------------------------------------------
(* Mutant of EraseSector: the command erases two sectors. *)
EraseSectorPair(s) ==
    [t \in Slots |-> IF t \in SectorOf(s) \cup SectorOf((s + PerSector)
                                                       % MaxPackets)
                     THEN Erased ELSE flash[t]]

(* Flash operations. *)
EraseSector(s) == [t \in Slots |-> IF t \in SectorOf(s) THEN Erased ELSE flash[t]]

ProgramPage(s, i, record) ==
    [flash EXCEPT ![s][i] = IF @ = Blank THEN record ELSE Mixed]

(* Programming p into the parameter sector, which may not be erased. *)
ProgramPara(p) ==
    IF para = <<>> THEN p
    ELSE [page |-> IF para.page = Ones THEN p.page ELSE para.page,
          over |-> para.over * p.over]
-----------------------------------------------------------------------------
(* ExtFlash_WriteHistoricalData, called with the semaphore held; nothing   *)
(* happens while the log is suspended.                                     *)
Begin ==
    /\ on /\ wpc = "rest" /\ stop = 0 /\ logged < MaxLogs
    /\ EraseRace \/ upc = "rest"
    /\ logged' = logged + 1
    /\ wpc' = IF page < MaxPackets THEN "address" ELSE "overwrite"
    /\ page' = IF page < MaxPackets THEN page ELSE 0
    /\ UNCHANGED <<flashVars, over, stop, ticks, addr, upc, on, frames,
                   crashes, known, tears>>

Overwrite ==
    /\ on /\ wpc = "overwrite"
    /\ over' = 1
    /\ wpc' = "address"
    /\ UNCHANGED <<flashVars, page, stop, ticks, addr, upc, on, countVars,
                   known, tears>>

(* Mutant of Address: only the log's first sector is erased. *)
AddressFirstSector ==
    /\ on /\ wpc = "address"
    /\ addr' = page
    /\ wpc' = IF page = 0 THEN "erase" ELSE "page1"
    /\ UNCHANGED <<flashVars, ramVars, upc, on, countVars, known, tears>>

(* Mutant of Address: the address is that of the next record. *)
AddressNext ==
    /\ on /\ wpc = "address"
    /\ addr' = (page + 1) % MaxPackets
    /\ wpc' = IF page % PerSector = 0 THEN "erase" ELSE "page1"
    /\ UNCHANGED <<flashVars, ramVars, upc, on, countVars, known, tears>>

Address ==
    /\ on /\ wpc = "address"
    /\ addr' = page
    /\ wpc' = IF page % PerSector = 0 THEN "erase" ELSE "page1"
    /\ UNCHANGED <<flashVars, ramVars, upc, on, countVars, known, tears>>

EraseSlots ==
    /\ on /\ wpc = "erase"
    /\ flash' = EraseSector(addr)
    /\ wpc' = "page1"
    /\ UNCHANGED <<para, ramVars, addr, upc, on, countVars, known, tears>>

ProgramRecord ==
    /\ on /\ wpc \in {"page1", "page2"}
    /\ flash' = ProgramPage(addr, IF wpc = "page1" THEN 1 ELSE 2, logged)
    /\ wpc' = IF wpc = "page1" THEN "page2" ELSE "count"
    /\ UNCHANGED <<para, ramVars, addr, upc, on, countVars, known, tears>>

CountRecord ==
    /\ on /\ wpc = "count"
    /\ page' = page + 1
    /\ wpc' = "paraErase"
    /\ UNCHANGED <<flashVars, over, stop, ticks, addr, upc, on, countVars,
                   known, tears>>

EraseParaSector ==
    /\ on /\ wpc = "paraErase"
    /\ para' = <<>>
    /\ wpc' = "paraWrite"
    /\ UNCHANGED <<flash, ramVars, addr, upc, on, countVars, known, tears>>

SavePara ==
    /\ on /\ wpc = "paraWrite"
    /\ para' = ProgramPara([page |-> page, over |-> over])
    /\ wpc' = "rest"
    /\ known' = Total
    /\ UNCHANGED <<flash, ramVars, addr, upc, on, countVars, tears>>

Writer == Begin \/ Overwrite \/ Address \/ EraseSlots \/ ProgramRecord
          \/ CountRecord \/ EraseParaSector \/ SavePara
-----------------------------------------------------------------------------
(* UDPFrameParser.  Every frame restarts the suspension timeout.           *)
Frame ==
    /\ on /\ upc = "rest" /\ frames < MaxFrames
    /\ frames' = frames + 1
    /\ ticks' = 0

(* GET_RTU_ID suspends the log. *)
GetRtuId ==
    /\ Frame
    /\ stop' = 1
    /\ UNCHANGED <<flashVars, page, over, wpc, addr, upc, on, logged,
                   crashes, known, tears>>

(* GET_TOTAL_PACKETS and GET_PACKET (under the semaphore, or an empty      *)
(* answer when it is not obtained) and frames for another unit.            *)
GetData ==
    /\ Frame
    /\ UNCHANGED <<flashVars, page, over, stop, wpc, addr, upc, on, logged,
                   crashes, known, tears>>

(* DONE resumes the log. *)
Done ==
    /\ Frame
    /\ stop' = 0
    /\ UNCHANGED <<flashVars, page, over, wpc, addr, upc, on, logged,
                   crashes, known, tears>>

(* ERASE forgets the log, without taking the semaphore: it clears the      *)
(* parameters, erases their sector and programs their first four bytes.    *)
EraseLog ==
    /\ Frame
    /\ EraseRace \/ wpc = "rest"
    /\ over' = 0
    /\ page' = 0
    /\ known' = 0
    /\ upc' = "paraErase"
    /\ UNCHANGED <<flashVars, stop, wpc, addr, on, logged, crashes, tears>>

EraseLogErase ==
    /\ on /\ upc = "paraErase"
    /\ para' = <<>>
    /\ upc' = "paraWrite"
    /\ UNCHANGED <<flash, ramVars, wpc, addr, on, countVars, known, tears>>

EraseLogWrite ==
    /\ on /\ upc = "paraWrite"
    /\ para' = ProgramPara([page |-> Ones, over |-> over])
    /\ stop' = 0
    /\ upc' = "rest"
    /\ UNCHANGED <<flash, page, over, ticks, wpc, addr, on, countVars,
                   known, tears>>

Udp == GetRtuId \/ GetData \/ Done \/ EraseLog \/ EraseLogErase \/ EraseLogWrite

(* Mutant of Tick: the timeout is beyond the range of the counter. *)
TickBeyond ==
    /\ on /\ TimerOn
    /\ ticks' = (ticks + 1) % ByteMod
    /\ stop' = IF ticks > ByteMod THEN 0 ELSE stop
    /\ UNCHANGED <<flashVars, page, over, wpc, addr, upc, on, countVars,
                   known, tears>>

(* One period of StartplcTimerTask. *)
Tick ==
    /\ on /\ TimerOn
    /\ ticks' = (ticks + 1) % ByteMod
    /\ stop' = IF ticks > StopTicks THEN 0 ELSE stop
    /\ UNCHANGED <<flashVars, page, over, wpc, addr, upc, on, countVars,
                   known, tears>>
-----------------------------------------------------------------------------
(* Power fails.  The page or sector being written may be left torn.        *)
Crash ==
    /\ on /\ crashes < MaxCrashes
    /\ crashes' = crashes + 1
    /\ on' = FALSE
    /\ tears' = IF wpc = "rest" THEN tears ELSE tears + 1
    /\ \/ UNCHANGED flash
       \/ /\ wpc = "erase"
          /\ flash' = [t \in Slots |-> IF t \in SectorOf(addr)
                                       THEN <<Mixed, Mixed>> ELSE flash[t]]
       \/ /\ wpc \in {"page1", "page2"}
          /\ flash' = ProgramPage(addr, IF wpc = "page1" THEN 1 ELSE 2, Mixed)
    /\ UNCHANGED <<para, ramVars, wpc, addr, upc, logged, frames, known>>

(* What ExtFlash_Read_RuntimePara finds: an erased sector gives an empty   *)
(* log.                                                                    *)
Stored == IF para = <<>> THEN [page |-> 0, over |-> 0] ELSE para

(* A counter out of range is clamped in RAM only. *)
RestoredPage(p) == IF p.page >= MaxPackets THEN 0 ELSE p.page

(* Mutant of RestoredOver: the flag is not restored. *)
RestoredOverZero(p) == 0

RestoredOver(p) == p.over

(* ExtFlash_Read_RuntimePara at boot: an erased sector is rewritten.       *)
Boot ==
    /\ ~on
    /\ on' = TRUE
    /\ para' = Stored
    /\ page' = RestoredPage(Stored)
    /\ over' = RestoredOver(Stored)
    /\ stop' = 0 /\ ticks' = 0
    /\ wpc' = "rest" /\ upc' = "rest"
    /\ known' = Total'
    /\ UNCHANGED <<flash, addr, countVars, tears>>

Next == Writer \/ Udp \/ Tick \/ Crash \/ Boot

Spec == Init /\ [][Next]_vars

(* The timer task is periodic. *)
FairSpec == Spec /\ WF_vars(Tick)
-----------------------------------------------------------------------------
Pages == Nat \cup {Mixed}

TypeOK ==
    /\ flash \in [Slots -> Pages \X Pages]
    /\ para \in {<<>>} \cup [page : 0 .. Ones, over : {0, 1}]
    /\ page \in 0 .. MaxPackets /\ over \in {0, 1}
    /\ stop \in {0, 1} /\ ticks \in 0 .. ByteMod - 1
    /\ wpc \in {"rest", "overwrite", "address", "erase", "page1", "page2",
                "count", "paraErase", "paraWrite"}
    /\ addr \in Slots
    /\ upc \in {"rest", "paraErase", "paraWrite"}
    /\ on \in BOOLEAN
    /\ logged \in Nat /\ frames \in Nat /\ crashes \in Nat
    /\ known \in 0 .. MaxPackets /\ tears \in Nat

AtRest == on /\ wpc = "rest" /\ upc = "rest"

Whole(s) == flash[s][1] = flash[s][2] /\ flash[s][1] \in 1 .. logged

(* Once the log has wrapped, the slots of the sector being refilled that   *)
(* follow the page counter are erased although they are counted.           *)
Open == IF over = 1 THEN {s \in SectorOf(page) : s >= page} ELSE {}

Readable == {s \in Slots : s < Total} \ Open

(* As long as no power failure has hit a write, the readable packets are   *)
(* exactly the last records logged, each in its slot: no record is lost,   *)
(* repeated, overwritten early or programmed over another, through laps,   *)
(* suspensions, ERASE commands and reboots                                 *)
(* (ExtFlash_WriteHistoricalData, ExtFlash_Read_RuntimePara).              *)
LogExact ==
    AtRest /\ tears = 0 =>
        \A s \in Readable :
            LET record == logged - page + s + 1 - (IF s < page THEN 0
                                                   ELSE MaxPackets)
            IN  flash[s] = <<record, record>>

(* Each power failure that hits a write spoils at most one packet the log  *)
(* later answers for.                                                      *)
DamageBounded ==
    AtRest => Cardinality({s \in Readable : ~Whole(s)}) <= tears

(* The packets are in the order they were logged, power failures or not:   *)
(* increasing up to the page counter, then the older lap, increasing too.  *)
LogOrder ==
    LET place(s) == IF s < page THEN s + MaxPackets ELSE s
    IN  AtRest =>
            \A s, t \in Readable :
                Whole(s) /\ Whole(t) /\ place(s) < place(t)
                    => flash[s][1] < flash[t][1]

(* A reboot keeps every packet the log answered for, unless power failed   *)
(* while the parameters were being rewritten or the log is exactly full    *)
(* and has not wrapped yet.                                                *)
RebootKeepsLog ==
    [][Boot /\ para # <<>> /\ para # [page |-> MaxPackets, over |-> 0]
         => Total' >= known]_vars

(* A suspension whose DONE is lost comes to an end by itself.              *)
SuspensionEnds == stop = 1 /\ on ~> stop = 0 \/ ~on

(* A power cycle between two records does not change the number of packets.*)
CleanRebootKeepsTotal ==
    [][Boot /\ tears = 0 => Total' = known]_vars
=============================================================================
