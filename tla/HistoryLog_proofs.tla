--------------------------- MODULE HistoryLog_proofs ---------------------------
(***************************************************************************)
(* The history log, for a log and sectors of any size, any number of       *)
(* records, frames and power failures.                                     *)
(***************************************************************************)
EXTENDS HistoryLog, TLAPS, FiniteSetTheorems

\* The types, with what keeps the address of a record inside the log.
Typed ==
    /\ TypeOK
    /\ wpc \notin {"rest", "paraErase", "paraWrite"} => page < MaxPackets

LEMMA PageFacts ==
    /\ 0 \in Slots /\ 0 \in 0 .. MaxPackets /\ Ones \in 0 .. Ones
    /\ \A p \in 0 .. MaxPackets : p \in 0 .. Ones /\ (p < MaxPackets => p \in Slots)
    /\ Erased \in Pages \X Pages /\ <<Mixed, Mixed>> \in Pages \X Pages
BY PacketsAssumption DEF Slots, Ones, Erased, Blank, Mixed, Pages

LEMMA ProgramPageType ==
    ASSUME flash \in [Slots -> Pages \X Pages], NEW s \in Slots, NEW i \in {1, 2},
           NEW record \in Pages
    PROVE  ProgramPage(s, i, record) \in [Slots -> Pages \X Pages]
<1>1. flash[s] \in Pages \X Pages /\ Mixed \in Pages
  BY DEF Pages
<1> DEFINE v == IF flash[s][i] = Blank THEN record ELSE Mixed
<1>2. v \in Pages
  BY <1>1
<1> HIDE DEF v
<1>3. [flash[s] EXCEPT ![i] = v] \in Pages \X Pages
  BY <1>1, <1>2
<1>4. ProgramPage(s, i, record) = [flash EXCEPT ![s] = [flash[s] EXCEPT ![i] = v]]
  BY DEF ProgramPage, v
<1> QED BY <1>3, <1>4

LEMMA EraseSectorType ==
    ASSUME flash \in [Slots -> Pages \X Pages], NEW s
    PROVE  EraseSector(s) \in [Slots -> Pages \X Pages]
BY PageFacts DEF EraseSector

Paras == [page : 0 .. Ones, over : {0, 1}]

LEMMA ProgramParaType ==
    ASSUME para \in {<<>>} \cup Paras, NEW p \in Paras
    PROVE  ProgramPara(p) \in Paras
<1>1. CASE para = <<>>
  BY <1>1 DEF ProgramPara
<1>2. CASE para # <<>>
  <2>1. para \in Paras
    BY <1>2
  <2>2. para.over * p.over \in {0, 1}
    BY <2>1 DEF Paras
  <2> QED BY <1>2, <2>1, <2>2 DEF ProgramPara, Paras
<1> QED BY <1>1, <1>2

LEMMA StoredType ==
    ASSUME para \in {<<>>} \cup Paras
    PROVE  /\ Stored \in Paras /\ RestoredOver(Stored) \in {0, 1}
           /\ RestoredPage(Stored) \in 0 .. MaxPackets
           /\ RestoredPage(Stored) < MaxPackets
<1>1. Stored \in Paras
  BY PageFacts DEF Stored, Paras
<1> QED BY <1>1, PacketsAssumption DEF Paras, Ones, RestoredOver, RestoredPage

LEMMA TotalType ==
    ASSUME page \in 0 .. MaxPackets PROVE Total \in 0 .. MaxPackets
BY PacketsAssumption DEF Total

LEMMA InitTyped == Init => Typed
<1> SUFFICES ASSUME Init PROVE Typed
  OBVIOUS
<1>1. flash \in [Slots -> Pages \X Pages]
  BY PageFacts DEF Init
<1>2. para \in [page : 0 .. Ones, over : {0, 1}]
  BY PageFacts DEF Init
<1>3. on \in BOOLEAN
  BY DEF Init
<1>4. page \in 0 .. MaxPackets /\ addr \in Slots /\ known \in 0 .. MaxPackets
      /\ ticks \in 0 .. ByteMod - 1
  BY PageFacts, StopAssumption DEF Init
<1> QED BY <1>1, <1>2, <1>3, <1>4 DEF Init, Typed, TypeOK

LEMMA NextTyped == ASSUME Typed, [Next]_vars PROVE Typed'
<1>0. /\ flash \in [Slots -> Pages \X Pages]
      /\ para \in {<<>>} \cup Paras
      /\ page \in 0 .. MaxPackets /\ over \in {0, 1} /\ logged \in Nat
      /\ logged \in Pages /\ logged + 1 \in Nat /\ crashes + 1 \in Nat /\ frames + 1 \in Nat
      /\ tears + 1 \in Nat
      /\ addr \in Slots /\ Mixed \in Pages /\ ticks \in 0 .. ByteMod - 1
  BY DEF Typed, TypeOK, Paras, Pages
<1>1. CASE UNCHANGED vars
  BY <1>1 DEF vars, flashVars, ramVars, countVars, Typed, TypeOK
<1>2. CASE Begin
  BY <1>0, <1>2, PacketsAssumption DEF Begin, flashVars, Typed, TypeOK
<1>3. CASE Overwrite
  BY <1>0, <1>3 DEF Overwrite, flashVars, countVars, Typed, TypeOK
<1>4. CASE Address
  <2>1. page \in Slots
    BY <1>0, <1>4, PageFacts DEF Address, Typed
  <2> QED BY <1>0, <1>4, <2>1 DEF Address, flashVars, ramVars, countVars, Typed, TypeOK
<1>5. CASE EraseSlots
  <2>1. flash' \in [Slots -> Pages \X Pages]
    BY <1>0, <1>5, EraseSectorType DEF EraseSlots
  <2> QED BY <1>0, <1>5, <2>1 DEF EraseSlots, ramVars, countVars, Typed, TypeOK
<1>6. CASE ProgramRecord
  <2>1. flash' \in [Slots -> Pages \X Pages]
    BY <1>0, <1>6, ProgramPageType DEF ProgramRecord
  <2> QED BY <1>0, <1>6, <2>1 DEF ProgramRecord, ramVars, countVars, Typed, TypeOK
<1>7. CASE CountRecord
  <2>1. page' \in 0 .. MaxPackets
    BY <1>0, <1>7, PacketsAssumption DEF CountRecord, Typed
  <2> QED BY <1>0, <1>7, <2>1 DEF CountRecord, flashVars, countVars, Typed, TypeOK
<1>8. CASE EraseParaSector
  BY <1>0, <1>8 DEF EraseParaSector, ramVars, countVars, Typed, TypeOK
<1>9. CASE SavePara
  <2>1. [page |-> page, over |-> over] \in Paras
    BY <1>0, PageFacts DEF Paras
  <2>2. para' \in Paras
    BY <1>0, <1>9, <2>1, ProgramParaType DEF SavePara
  <2>3. known' \in 0 .. MaxPackets
    BY <1>0, <1>9, TotalType DEF SavePara
  <2> QED BY <1>0, <1>9, <2>2, <2>3 DEF SavePara, ramVars, countVars, Typed, TypeOK, Paras
<1>10. CASE GetRtuId \/ GetData \/ Done
  <2>1. 0 \in 0 .. ByteMod - 1
    BY StopAssumption
  <2> QED BY <1>0, <1>10, <2>1 DEF GetRtuId, GetData, Done, Frame, flashVars, Typed, TypeOK
<1>11. CASE EraseLog
  <2>1. 0 \in 0 .. ByteMod - 1
    BY StopAssumption
  <2> QED BY <1>0, <1>11, <2>1, PageFacts, PacketsAssumption
          DEF EraseLog, Frame, flashVars, Typed, TypeOK
<1>12. CASE EraseLogErase
  BY <1>0, <1>12 DEF EraseLogErase, ramVars, countVars, Typed, TypeOK
<1>13. CASE EraseLogWrite
  <2>1. [page |-> Ones, over |-> over] \in Paras
    BY <1>0, PageFacts DEF Paras
  <2>2. para' \in Paras
    BY <1>0, <1>13, <2>1, ProgramParaType DEF EraseLogWrite
  <2> QED BY <1>0, <1>13, <2>2 DEF EraseLogWrite, countVars, Typed, TypeOK, Paras
<1>14. CASE Tick
  <2>1. ticks' \in 0 .. ByteMod - 1
    BY <1>0, <1>14, StopAssumption DEF Tick
  <2> QED BY <1>0, <1>14, <2>1 DEF Tick, flashVars, countVars, Typed, TypeOK
<1>15. CASE Crash
  <2>1. flash' \in [Slots -> Pages \X Pages]
    <3>1. [t \in Slots |-> IF t \in SectorOf(addr) THEN <<Mixed, Mixed>> ELSE flash[t]]
             \in [Slots -> Pages \X Pages]
      BY <1>0, PageFacts
    <3>2. \A i \in {1, 2} : ProgramPage(addr, i, Mixed) \in [Slots -> Pages \X Pages]
      BY <1>0, ProgramPageType
    <3> QED BY <1>0, <1>15, <3>1, <3>2 DEF Crash
  <2>2. tears' \in Nat /\ crashes' \in Nat
    BY <1>0, <1>15 DEF Crash, Typed, TypeOK
  <2> QED BY <1>0, <1>15, <2>1, <2>2 DEF Crash, ramVars, Typed, TypeOK
<1>16. CASE Boot
  <2>1. 0 \in 0 .. ByteMod - 1
    BY StopAssumption
  <2>2. page' \in 0 .. MaxPackets /\ over' \in {0, 1} /\ para' \in Paras
    BY <1>0, <1>16, StoredType DEF Boot
  <2>3. known' \in 0 .. MaxPackets
    <3>1. known' = IF over' = 1 THEN MaxPackets ELSE page'
      BY <1>16 DEF Boot, Total
    <3> QED BY <2>2, <3>1, PacketsAssumption
  <2> QED BY <1>0, <1>16, <2>1, <2>2, <2>3 DEF Boot, countVars, Typed, TypeOK, Paras
<1> QED BY <1>1, <1>2, <1>3, <1>4, <1>5, <1>6, <1>7, <1>8, <1>9, <1>10, <1>11, <1>12, <1>13,
           <1>14, <1>15, <1>16 DEF Next, Writer, Udp

-----------------------------------------------------------------------------
(* What a log f says to a reader whose page counter is p and whose         *)
(* overwritten flag is o, the last record counted being n.                 *)

\* The packets that can be read.
Counted(p, o) ==
    IF o = 1 THEN {s \in Slots : ~(s \in SectorOf(p) /\ s >= p)} ELSE {s \in Slots : s < p}

\* A packet read back as one record.
WholeIn(f, s) == f[s][1] = f[s][2] /\ f[s][1] >= 1

Place(p, s) == IF s < p THEN s + MaxPackets ELSE s
Number(p, n, s) == n - p + s + 1 - (IF s < p THEN 0 ELSE MaxPackets)

Ordered(f, p, o, n) ==
    /\ \A s \in Counted(p, o) : WholeIn(f, s) => f[s][1] <= n
    /\ \A s, t \in Counted(p, o) :
          WholeIn(f, s) /\ WholeIn(f, t) /\ Place(p, s) < Place(p, t) => f[s][1] < f[t][1]

Exact(f, p, o, n) ==
    \A s \in Counted(p, o) : f[s] = <<Number(p, n, s), Number(p, n, s)>>

Damage(f, p, o) == {s \in Counted(p, o) : ~WholeIn(f, s)}

\* The rest of the sector in use is erased, but perhaps for the next slot.
RawTail(f, p) == \A s \in SectorOf(p) : s > p => f[s] = Erased
Tail(f, p) == p % PerSector # 0 => RawTail(f, p)
Junk(f, p) == IF p % PerSector # 0 /\ f[p] # Erased THEN 1 ELSE 0

Logs == [Slots -> Pages \X Pages]

LEMMA CountedFacts ==
    ASSUME NEW p \in Slots, NEW o \in {0, 1}
    PROVE  /\ Counted(p, o) \subseteq Slots /\ p \notin Counted(p, o)
           /\ p % PerSector = 0 => Counted(p, o) \cap SectorOf(p) = {}
           /\ Counted(p + 1, o) \subseteq Counted(p, o) \cup {p}
<1>1. p \in Nat /\ PerSector \in Nat \ {0}
  BY PacketsAssumption DEF Slots
<1>2. Counted(p, o) \subseteq Slots /\ p \notin Counted(p, o)
  BY <1>1 DEF Counted, SectorOf, Slots
<1>3. ASSUME p % PerSector = 0, NEW s \in SectorOf(p) PROVE s >= p
  <2>1. s \in Nat /\ s \div PerSector = p \div PerSector
    BY PacketsAssumption DEF SectorOf, Slots
  <2> QED BY <1>1, <1>3, <2>1
<1>4. ASSUME NEW s \in Slots, s \in SectorOf(p), s > p PROVE s \in SectorOf(p + 1)
  <2>1. s \in Nat /\ s \div PerSector = p \div PerSector
    BY <1>4, PacketsAssumption DEF SectorOf, Slots
  <2>2. (p + 1) \div PerSector = p \div PerSector
    BY <1>1, <1>4, <2>1
  <2> QED BY <1>4, <2>1, <2>2 DEF SectorOf
<1>5. Counted(p + 1, o) \subseteq Counted(p, o) \cup {p}
  <2> SUFFICES ASSUME NEW s \in Counted(p + 1, o), s # p PROVE s \in Counted(p, o)
    OBVIOUS
  <2>1. s \in Slots /\ s \in Int
    BY DEF Counted, Slots
  <2>2. CASE o = 1
    BY <1>1, <1>4, <2>1, <2>2 DEF Counted
  <2>3. CASE o = 0
    BY <1>1, <2>1, <2>3 DEF Counted
  <2> QED BY <2>2, <2>3
<1>6. ASSUME p % PerSector = 0, NEW s \in Counted(p, o) PROVE s \notin SectorOf(p)
  <2>1. SUFFICES ASSUME s \in SectorOf(p) PROVE FALSE
    OBVIOUS
  <2>2. s >= p
    BY <1>3, <1>6, <2>1
  <2>3. s \in Int /\ ~(s < p)
    BY <1>1, <2>1, <2>2 DEF SectorOf, Slots
  <2> QED BY <2>1, <2>2, <2>3 DEF Counted
<1> QED BY <1>2, <1>5, <1>6

\* A full log: every slot is counted.
LEMMA FullFacts ==
    ASSUME NEW o \in {0, 1}, NEW r \in {0, 1}
    PROVE  /\ Counted(MaxPackets, o) = Slots /\ Counted(0, r) \subseteq Slots /\ Counted(0, 0) = {}
<1>1. ASSUME NEW s \in Slots PROVE s < MaxPackets /\ s \notin SectorOf(MaxPackets)
  <2>1. s \in Nat /\ s < MaxPackets /\ MaxPackets \in Nat /\ PerSector \in Nat \ {0}
    BY PacketsAssumption DEF Slots
  <2>2. s \div PerSector # MaxPackets \div PerSector
    BY <2>1, PacketsAssumption
  <2> QED BY <2>1, <2>2 DEF SectorOf
<1>2. Counted(0, 0) = {}
  BY DEF Counted, Slots
<1> QED BY <1>1, <1>2 DEF Counted

LEMMA DamageFinite ==
    ASSUME NEW f, NEW p, NEW o
    PROVE  IsFiniteSet(Damage(f, p, o)) /\ Cardinality(Damage(f, p, o)) \in Nat
<1>1. IsFiniteSet(Slots)
  BY FS_Interval, PacketsAssumption DEF Slots
<1>2. Damage(f, p, o) \subseteq Slots
  BY DEF Damage, Counted
<1> QED BY <1>1, <1>2, FS_Subset, FS_CardinalityType

\* Slots that are not counted may be written.
LEMMA SameCounted ==
    ASSUME NEW f, NEW g, NEW p, NEW o, NEW n, \A s \in Counted(p, o) : g[s] = f[s]
    PROVE  /\ Ordered(f, p, o, n) => Ordered(g, p, o, n)
           /\ Exact(f, p, o, n) => Exact(g, p, o, n)
           /\ Damage(g, p, o) = Damage(f, p, o)
<1>1. \A s \in Counted(p, o) : WholeIn(g, s) <=> WholeIn(f, s)
  BY DEF WholeIn
<1> QED BY <1>1 DEF Ordered, Exact, Damage

\* From a full log to its next lap, or to an empty one.
LEMMA NextLap ==
    ASSUME NEW f, NEW o \in {0, 1}, NEW r \in {0, 1}, NEW n \in Nat
    PROVE  /\ Ordered(f, MaxPackets, o, n) => Ordered(f, 0, r, n)
           /\ Exact(f, MaxPackets, o, n) => Exact(f, 0, r, n)
           /\ Cardinality(Damage(f, 0, r)) <= Cardinality(Damage(f, MaxPackets, o))
           /\ Tail(f, 0) /\ Junk(f, 0) = 0
<1>1. /\ Counted(0, r) \subseteq Counted(MaxPackets, o)
      /\ \A s \in Counted(0, r) : s \in Nat /\ s < MaxPackets
      /\ MaxPackets \in Nat /\ 0 % PerSector = 0
  BY FullFacts, PacketsAssumption DEF Slots
<1>2. \A s \in Counted(0, r) : /\ Place(0, s) = s /\ Place(MaxPackets, s) = s + MaxPackets
                              /\ Number(0, n, s) = Number(MaxPackets, n, s)
  BY <1>1 DEF Place, Number
<1>3. \A s, t \in Counted(0, r) : Place(0, s) < Place(0, t)
                                  => Place(MaxPackets, s) < Place(MaxPackets, t)
  BY <1>1, <1>2
<1>4. Damage(f, 0, r) \subseteq Damage(f, MaxPackets, o)
  BY <1>1 DEF Damage
<1>5. Cardinality(Damage(f, 0, r)) <= Cardinality(Damage(f, MaxPackets, o))
  BY <1>4, DamageFinite, FS_Subset
<1>6. Tail(f, 0) /\ Junk(f, 0) = 0
  BY <1>1 DEF Tail, Junk
<1>7. Ordered(f, MaxPackets, o, n) => Ordered(f, 0, r, n)
  BY <1>1, <1>3 DEF Ordered
<1>8. Exact(f, MaxPackets, o, n) => Exact(f, 0, r, n)
  BY <1>1, <1>2 DEF Exact
<1> QED BY <1>5, <1>6, <1>7, <1>8

LEMMA EmptyLog ==
    ASSUME NEW f, NEW n
    PROVE  /\ Ordered(f, 0, 0, n) /\ Exact(f, 0, 0, n) /\ Cardinality(Damage(f, 0, 0)) = 0
           /\ Tail(f, 0) /\ Junk(f, 0) = 0
<1>1. Counted(0, 0) = {} /\ 0 % PerSector = 0
  BY FullFacts, PacketsAssumption
<1>2. Damage(f, 0, 0) = {}
  BY <1>1 DEF Damage
<1> QED BY <1>1, <1>2, FS_EmptySet DEF Ordered, Exact, Tail, Junk

\* The record in the slot of the page counter is counted.
LEMMA NextPacket ==
    ASSUME NEW f \in Logs, NEW p \in Slots, NEW o \in {0, 1}, NEW n \in Nat,
           WholeIn(f, p) => f[p][1] = n + 1
    PROVE  /\ Ordered(f, p, o, n) => Ordered(f, p + 1, o, n + 1)
           /\ Exact(f, p, o, n) /\ f[p] = <<n + 1, n + 1>> => Exact(f, p + 1, o, n + 1)
           /\ Cardinality(Damage(f, p + 1, o))
                 <= Cardinality(Damage(f, p, o)) + (IF f[p] = <<n + 1, n + 1>> THEN 0 ELSE 1)
           /\ RawTail(f, p) => Tail(f, p + 1) /\ Junk(f, p + 1) = 0
<1>1. /\ p \in Nat /\ p < MaxPackets /\ MaxPackets \in Nat /\ PerSector \in Nat \ {0}
      /\ Counted(p + 1, o) \subseteq Counted(p, o) \cup {p} /\ p \notin Counted(p, o)
      /\ Counted(p, o) \subseteq Slots
      /\ \A s \in Slots : s \in Nat /\ s < MaxPackets /\ f[s][1] \in Int /\ f[s][2] \in Int
  BY CountedFacts, PacketsAssumption DEF Slots, Logs, Pages, Mixed
<1>2. /\ Place(p + 1, p) = p + MaxPackets
      /\ \A s \in Slots : s # p => Place(p + 1, s) = Place(p, s)
      /\ \A s \in Slots : s # p => Place(p, s) < p + MaxPackets /\ Place(p, s) \in Int
  <2>1. Place(p + 1, p) = p + MaxPackets
    BY <1>1 DEF Place
  <2>2. ASSUME NEW s \in Slots, s # p
        PROVE  Place(p + 1, s) = Place(p, s) /\ Place(p, s) < p + MaxPackets /\ Place(p, s) \in Int
    <3>1. s \in Nat /\ s < MaxPackets /\ (s < p + 1 <=> s < p)
      BY <1>1, <2>2
    <3>2. CASE s < p
      BY <1>1, <3>1, <3>2 DEF Place
    <3>3. CASE ~(s < p)
      BY <1>1, <2>2, <3>1, <3>3 DEF Place
    <3> QED BY <3>2, <3>3
  <2> QED BY <2>1, <2>2
<1>3. /\ Number(p + 1, n + 1, p) = n + 1
      /\ \A s \in Slots : s # p => Number(p + 1, n + 1, s) = Number(p, n, s)
  BY <1>1 DEF Number
<1>4. ASSUME Ordered(f, p, o, n) PROVE Ordered(f, p + 1, o, n + 1)
  <2>1. \A s \in Counted(p + 1, o) : WholeIn(f, s) =>
            f[s][1] <= n + 1 /\ (s # p => f[s][1] <= n) /\ (s = p => f[s][1] = n + 1)
    <3> SUFFICES ASSUME NEW s \in Counted(p + 1, o), WholeIn(f, s)
                 PROVE  /\ f[s][1] <= n + 1
                        /\ (s # p => f[s][1] <= n) /\ (s = p => f[s][1] = n + 1)
      OBVIOUS
    <3>1. CASE s = p
      BY <3>1
    <3>2. CASE s # p
      <4>1. s \in Counted(p, o) /\ f[s][1] \in Int
        BY <1>1, <3>2
      <4>2. f[s][1] <= n
        BY <1>4, <4>1 DEF Ordered
      <4> QED BY <3>2, <4>1, <4>2
    <3> QED BY <3>1, <3>2
  <2>2. ASSUME NEW s \in Counted(p + 1, o), NEW t \in Counted(p + 1, o),
               WholeIn(f, s), WholeIn(f, t), Place(p + 1, s) < Place(p + 1, t)
        PROVE  f[s][1] < f[t][1]
    <3>0. s \in Slots /\ t \in Slots
      BY <1>1
    <3>1. s # p
      <4>1. SUFFICES ASSUME s = p PROVE FALSE
        OBVIOUS
      <4>2. CASE t = p
        BY <1>1, <1>2, <2>2, <4>1, <4>2
      <4>3. CASE t # p
        <5>1. Place(p + 1, t) < p + MaxPackets /\ Place(p + 1, t) \in Int
          BY <1>2, <3>0, <4>3
        <5>2. p + MaxPackets < Place(p + 1, t) /\ p + MaxPackets \in Int
          BY <1>1, <1>2, <2>2, <4>1
        <5> QED BY <5>1, <5>2
      <4> QED BY <4>2, <4>3
    <3>2. CASE t = p
      <4>1. f[s][1] <= n /\ f[t][1] = n + 1
        BY <2>1, <2>2, <3>1, <3>2
      <4>2. f[s][1] \in Int
        BY <1>1, <3>0
      <4> QED BY <4>1, <4>2
    <3>3. CASE t # p
      <4>1. s \in Counted(p, o) /\ t \in Counted(p, o) /\ Place(p, s) < Place(p, t)
        BY <1>1, <1>2, <2>2, <3>0, <3>1, <3>3
      <4> QED BY <1>4, <2>2, <4>1 DEF Ordered
    <3> QED BY <3>2, <3>3
  <2> QED BY <2>1, <2>2 DEF Ordered
<1>5. Exact(f, p, o, n) /\ f[p] = <<n + 1, n + 1>> => Exact(f, p + 1, o, n + 1)
  BY <1>1, <1>3 DEF Exact
<1>6. Cardinality(Damage(f, p + 1, o))
         <= Cardinality(Damage(f, p, o)) + (IF f[p] = <<n + 1, n + 1>> THEN 0 ELSE 1)
  <2>1. CASE f[p] = <<n + 1, n + 1>>
    <3>1. WholeIn(f, p)
      BY <2>1 DEF WholeIn
    <3>2. Damage(f, p + 1, o) \subseteq Damage(f, p, o)
      BY <1>1, <3>1 DEF Damage
    <3>3. Cardinality(Damage(f, p + 1, o)) <= Cardinality(Damage(f, p, o))
      BY <3>2, DamageFinite, FS_Subset
    <3> QED BY <2>1, <3>3, DamageFinite
  <2>2. CASE f[p] # <<n + 1, n + 1>>
    <3>1. Damage(f, p + 1, o) \subseteq Damage(f, p, o) \cup {p} /\ p \notin Damage(f, p, o)
      BY <1>1 DEF Damage
    <3>2. /\ IsFiniteSet(Damage(f, p, o) \cup {p})
          /\ Cardinality(Damage(f, p, o) \cup {p}) = Cardinality(Damage(f, p, o)) + 1
      BY <3>1, DamageFinite, FS_AddElement
    <3>3. Cardinality(Damage(f, p + 1, o)) <= Cardinality(Damage(f, p, o) \cup {p})
      BY <3>1, <3>2, FS_Subset
    <3> QED BY <2>2, <3>2, <3>3
  <2> QED BY <2>1, <2>2
<1>7. ASSUME RawTail(f, p), (p + 1) % PerSector # 0
      PROVE  RawTail(f, p + 1) /\ f[p + 1] = Erased
  <2>1. (p + 1) \div PerSector = p \div PerSector
    BY <1>1, <1>7
  <2>2. p + 1 # MaxPackets
    BY <1>7, PacketsAssumption
  <2>3. p + 1 \in SectorOf(p) /\ SectorOf(p + 1) = SectorOf(p)
    BY <1>1, <2>1, <2>2 DEF SectorOf, Slots
  <2>4. \A s \in SectorOf(p) : s \in Nat
    BY <1>1 DEF SectorOf
  <2> QED BY <1>1, <1>7, <2>3, <2>4 DEF RawTail
<1> QED BY <1>4, <1>5, <1>6, <1>7 DEF Tail, Junk

-----------------------------------------------------------------------------
(* The inductive invariant, as long as ERASE does not meet a write.        *)

SavedPage == RestoredPage(Stored)
SavedOver == RestoredOver(Stored)

Opened == {"page1", "page2", "count"}
Writing == {"overwrite", "address", "erase"} \cup Opened

\* What is left of the record being written.
Expected == IF wpc = "page1" THEN Erased
            ELSE IF wpc = "page2" THEN <<logged, Blank>> ELSE <<logged, logged>>

NowOver == IF wpc = "overwrite" THEN 1 ELSE over
NowLast == IF wpc \in Writing THEN logged - 1 ELSE logged
NowJunk == IF wpc \in Opened THEN (IF flash[page] = Expected THEN 0 ELSE 1) ELSE Junk(flash, page)
SavedLast == IF wpc = "rest" THEN logged ELSE logged - 1
SavedJunk == IF wpc = "rest" THEN Junk(flash, SavedPage) ELSE IF on THEN 0 ELSE 1

\* j failures are reserved for a packet that is not counted yet.
Kept(f, p, o, n, j, b) ==
    /\ Ordered(f, p, o, n)
    /\ b = 0 => Exact(f, p, o, n)
    /\ Cardinality(Damage(f, p, o)) + j <= b

Places ==
    /\ wpc # "rest" => upc = "rest" /\ logged >= 1
    /\ ~on /\ wpc # "rest" => tears > 0
    /\ upc # "rest" => page = 0 /\ over = 0 /\ known = 0
    /\ wpc = "paraWrite" \/ upc = "paraWrite" => para = <<>>
    /\ wpc = "overwrite" => page = 0
    /\ wpc \in {"erase", "page1", "page2", "count"} => addr = page
    /\ wpc = "erase" => page % PerSector = 0

\* How the parameters in flash follow those in memory.
Related ==
    on =>
    /\ wpc = "rest" /\ upc = "rest" =>
          SavedOver = over /\ (SavedPage = page \/ (page = MaxPackets /\ SavedPage = 0))
    /\ wpc = "overwrite" => SavedPage = 0
    /\ wpc \in Writing \ {"overwrite"} =>
          \/ SavedPage = page /\ SavedOver = over
          \/ SavedPage = 0 /\ SavedOver = 0

InMemory ==
    on =>
    /\ Kept(flash, page, NowOver, NowLast, NowJunk, tears)
    /\ IF wpc \in Opened THEN RawTail(flash, page) ELSE Tail(flash, page)
    /\ wpc \in {"page2", "count"} => flash[page][1] \in {logged, Mixed}

InFlash ==
    /\ Kept(flash, SavedPage, SavedOver, SavedLast, SavedJunk, tears)
    /\ Tail(flash, SavedPage)

Known ==
    para # <<>> /\ para # [page |-> MaxPackets, over |-> 0] =>
        known <= (IF SavedOver = 1 THEN MaxPackets ELSE SavedPage)

IInv == Typed /\ Places /\ Related /\ InMemory /\ InFlash /\ Known

-----------------------------------------------------------------------------
(* The lemmas above, for logs that are kept.                               *)

LEMMA KeptEmpty ==
    ASSUME NEW f, NEW n, NEW b \in Nat
    PROVE  Kept(f, 0, 0, n, 0, b) /\ Tail(f, 0) /\ Junk(f, 0) = 0
BY EmptyLog DEF Kept

LEMMA KeptSame ==
    ASSUME NEW f, NEW g, NEW p, NEW o, NEW n, NEW j \in Nat, NEW b \in Nat,
           \A s \in Counted(p, o) : g[s] = f[s], Kept(f, p, o, n, j, b)
    PROVE  Kept(g, p, o, n, j, b)
BY SameCounted DEF Kept

LEMMA KeptLess ==
    ASSUME NEW f, NEW p, NEW o, NEW n, NEW i \in Nat, NEW j \in Nat, NEW b \in Nat, NEW c \in Nat,
           Kept(f, p, o, n, j, b), b <= c, i + b <= j + c
    PROVE  Kept(f, p, o, n, i, c)
<1>1. c = 0 => b = 0
  OBVIOUS
<1>2. Cardinality(Damage(f, p, o)) \in Nat
  BY DamageFinite
<1> QED BY <1>1, <1>2 DEF Kept

\* A power failure that hit a write allows the last record to be missing.
LEMMA KeptLater ==
    ASSUME NEW f \in Logs, NEW p, NEW o, NEW n \in Int, NEW j, NEW b \in Nat,
           Kept(f, p, o, n - 1, j, b), b > 0
    PROVE  Kept(f, p, o, n, j, b)
<1>1. \A s \in Counted(p, o) : f[s][1] \in Int
  BY DEF Counted, Logs, Pages, Mixed
<1>2. \A s \in Counted(p, o) : f[s][1] <= n - 1 => f[s][1] <= n
  BY <1>1
<1> QED BY <1>2 DEF Kept, Ordered

LEMMA KeptLap ==
    ASSUME NEW f, NEW o \in {0, 1}, NEW r \in {0, 1}, NEW n \in Nat, NEW j \in Nat, NEW b \in Nat,
           Kept(f, MaxPackets, o, n, j, b)
    PROVE  Kept(f, 0, r, n, j, b) /\ Tail(f, 0) /\ Junk(f, 0) = 0
<1>1. /\ Cardinality(Damage(f, 0, r)) \in Nat /\ Cardinality(Damage(f, MaxPackets, o)) \in Nat
      /\ Cardinality(Damage(f, 0, r)) <= Cardinality(Damage(f, MaxPackets, o))
  BY DamageFinite, NextLap
<1>2. Cardinality(Damage(f, 0, r)) + j <= b
  BY <1>1 DEF Kept
<1> QED BY <1>2, NextLap DEF Kept

LEMMA KeptNext ==
    ASSUME NEW f \in Logs, NEW p \in Slots, NEW o \in {0, 1}, NEW n \in Nat, NEW b \in Nat,
           f[p][1] \in {n + 1, Mixed}, RawTail(f, p),
           Kept(f, p, o, n, IF f[p] = <<n + 1, n + 1>> THEN 0 ELSE 1, b)
    PROVE  Kept(f, p + 1, o, n + 1, 0, b) /\ Tail(f, p + 1) /\ Junk(f, p + 1) = 0
<1>1. WholeIn(f, p) => f[p][1] = n + 1
  BY DEF WholeIn, Mixed
<1>2. /\ Cardinality(Damage(f, p, o)) \in Nat /\ Cardinality(Damage(f, p + 1, o)) \in Nat
      /\ Cardinality(Damage(f, p + 1, o))
            <= Cardinality(Damage(f, p, o)) + (IF f[p] = <<n + 1, n + 1>> THEN 0 ELSE 1)
  BY <1>1, DamageFinite, NextPacket
<1>3. Cardinality(Damage(f, p + 1, o)) + 0 <= b
  BY <1>2 DEF Kept
<1>4. b = 0 => f[p] = <<n + 1, n + 1>>
  BY <1>2 DEF Kept
<1> QED BY <1>1, <1>3, <1>4, NextPacket DEF Kept

-----------------------------------------------------------------------------
(* Every step preserves the invariant.                                     *)

LEMMA Types ==
    ASSUME Typed
    PROVE  /\ flash \in Logs /\ para \in {<<>>} \cup Paras
           /\ page \in 0 .. MaxPackets /\ page \in Nat /\ page <= MaxPackets /\ over \in {0, 1}
           /\ logged \in Nat /\ tears \in Nat /\ known \in 0 .. MaxPackets
           /\ addr \in Slots /\ on \in BOOLEAN
           /\ wpc \in {"rest", "paraErase", "paraWrite"} \cup Writing
           /\ upc \in {"rest", "paraErase", "paraWrite"}
           /\ SavedPage \in Slots /\ SavedPage \in Nat /\ SavedPage < MaxPackets
           /\ SavedOver \in {0, 1}
           /\ wpc \in Writing => page \in Slots
           /\ MaxPackets \in Nat \ {0} /\ PerSector \in Nat \ {0}
<1>1. para \in {<<>>} \cup Paras
  BY DEF Typed, TypeOK, Paras
<1>2. page \in 0 .. MaxPackets
  BY DEF Typed, TypeOK
<1>3. SavedPage \in Slots /\ SavedPage \in Nat /\ SavedPage < MaxPackets /\ SavedOver \in {0, 1}
  BY <1>1, StoredType, PacketsAssumption DEF SavedPage, SavedOver, Slots
<1>4. wpc \in Writing => page \in Slots
  BY <1>2, PageFacts DEF Typed, Writing, Opened
<1> QED BY <1>1, <1>2, <1>3, <1>4, PacketsAssumption DEF Typed, TypeOK, Logs, Writing, Opened

\* What the parameters in flash say depends on them alone.
LEMMA SavedFacts ==
    /\ para = <<>> => SavedPage = 0 /\ SavedOver = 0
    /\ para' = <<>> => SavedPage' = 0 /\ SavedOver' = 0
    /\ para' = para => SavedPage' = SavedPage /\ SavedOver' = SavedOver
    /\ para' = Stored => SavedPage' = SavedPage /\ SavedOver' = SavedOver
<1>1. 0 < MaxPackets /\ MaxPackets \in Nat
  BY PacketsAssumption
<1>2. Stored # <<>>
  BY DEF Stored
<1> QED BY <1>1, <1>2 DEF SavedPage, SavedOver, Stored, RestoredPage, RestoredOver

LEMMA JunkType == \A f, p : Junk(f, p) \in {0, 1}
BY DEF Junk

LEMMA NextPlaces ==
    ASSUME IInv, ~EraseRace, [Next]_vars PROVE Places'
<1>0. Typed /\ Places
  BY DEF IInv
<1>1. CASE UNCHANGED vars
  BY <1>0, <1>1 DEF vars, flashVars, ramVars, countVars, Places
<1>2. CASE Begin
  BY <1>0, <1>2, Types DEF Begin, flashVars, Places
<1>3. CASE Overwrite
  BY <1>0, <1>3 DEF Overwrite, flashVars, countVars, Places
<1>4. CASE Address
  BY <1>0, <1>4 DEF Address, flashVars, ramVars, countVars, Places
<1>5. CASE EraseSlots
  BY <1>0, <1>5 DEF EraseSlots, ramVars, countVars, Places
<1>6. CASE ProgramRecord
  BY <1>0, <1>6 DEF ProgramRecord, ramVars, countVars, Places
<1>7. CASE CountRecord
  BY <1>0, <1>7 DEF CountRecord, flashVars, countVars, Places
<1>8. CASE EraseParaSector
  BY <1>0, <1>8 DEF EraseParaSector, ramVars, countVars, Places
<1>9. CASE SavePara
  BY <1>0, <1>9 DEF SavePara, ramVars, countVars, Places
<1>10. CASE GetRtuId \/ GetData \/ Done
  BY <1>0, <1>10 DEF GetRtuId, GetData, Done, Frame, flashVars, Places
<1>11. CASE EraseLog
  BY <1>0, <1>11 DEF EraseLog, Frame, flashVars, Places
<1>12. CASE EraseLogErase
  BY <1>0, <1>12 DEF EraseLogErase, ramVars, countVars, Places
<1>13. CASE EraseLogWrite
  BY <1>0, <1>13 DEF EraseLogWrite, countVars, Places
<1>14. CASE Tick
  BY <1>0, <1>14 DEF Tick, flashVars, countVars, Places
<1>15. CASE Crash
  BY <1>0, <1>15, Types DEF Crash, ramVars, Places
<1>16. CASE Boot
  BY <1>0, <1>16 DEF Boot, countVars, Places
<1> QED BY <1>1, <1>2, <1>3, <1>4, <1>5, <1>6, <1>7, <1>8, <1>9, <1>10, <1>11, <1>12, <1>13,
           <1>14, <1>15, <1>16 DEF Next, Writer, Udp

\* The parameters saved by a record.
LEMMA SavedByRecord ==
    ASSUME Typed, para = <<>>, para' = ProgramPara([page |-> page, over |-> over])
    PROVE  /\ SavedOver' = over
           /\ SavedPage' = page \/ (page = MaxPackets /\ SavedPage' = 0)
           /\ para' # [page |-> MaxPackets, over |-> 0] => Total <= IF SavedOver' = 1
                                                     THEN MaxPackets ELSE SavedPage'
<1>1. para' = [page |-> page, over |-> over]
  BY DEF ProgramPara
<1>2. Stored' = [page |-> page, over |-> over]
  BY <1>1 DEF Stored
<1>3. SavedOver' = over /\ SavedPage' = IF page >= MaxPackets THEN 0 ELSE page
  BY <1>2 DEF SavedOver, SavedPage, RestoredOver, RestoredPage
<1> QED BY <1>1, <1>3, Types DEF Total

\* Those saved by ERASE.
LEMMA SavedByErase ==
    ASSUME para = <<>>, over = 0, para' = ProgramPara([page |-> Ones, over |-> over])
    PROVE  SavedOver' = 0 /\ SavedPage' = 0
<1>1. Stored' = [page |-> Ones, over |-> 0]
  BY DEF ProgramPara, Stored
<1>2. Ones >= MaxPackets
  BY PacketsAssumption DEF Ones
<1> QED BY <1>1, <1>2 DEF SavedOver, SavedPage, RestoredOver, RestoredPage

LEMMA NextRelated ==
    ASSUME IInv, ~EraseRace, [Next]_vars PROVE Related'
<1>0. Typed /\ Places /\ Related
  BY DEF IInv
<1>1. CASE UNCHANGED vars
  BY <1>0, <1>1, SavedFacts DEF vars, flashVars, ramVars, countVars, Related
<1>2. CASE Begin
  <2>1. SavedPage' = SavedPage /\ SavedOver' = SavedOver
    BY <1>2, SavedFacts DEF Begin, flashVars
  <2> QED BY <1>0, <1>2, <2>1, Types DEF Begin, Related, Writing
<1>3. CASE Overwrite
  <2>1. SavedPage' = SavedPage /\ SavedOver' = SavedOver
    BY <1>3, SavedFacts DEF Overwrite, flashVars
  <2> QED BY <1>0, <1>3, <2>1, Types DEF Overwrite, Related, Places, Writing
<1>4. CASE Address
  BY <1>0, <1>4, SavedFacts DEF Address, flashVars, ramVars, Related, Writing, Opened
<1>5. CASE EraseSlots
  BY <1>0, <1>5, SavedFacts DEF EraseSlots, ramVars, Related, Writing, Opened
<1>6. CASE ProgramRecord
  BY <1>0, <1>6, SavedFacts DEF ProgramRecord, ramVars, Related, Writing, Opened
<1>7. CASE CountRecord
  BY <1>0, <1>7 DEF CountRecord, Related, Writing, Opened
<1>8. CASE EraseParaSector
  BY <1>0, <1>8 DEF EraseParaSector, Related, Writing, Opened
<1>9. CASE SavePara
  <2>1. SavedOver' = over /\ (SavedPage' = page \/ (page = MaxPackets /\ SavedPage' = 0))
    BY <1>0, <1>9, SavedByRecord DEF SavePara, Places
  <2> QED BY <1>9, <2>1 DEF SavePara, ramVars, Related, Writing, Opened
<1>10. CASE GetRtuId \/ GetData \/ Done
  BY <1>0, <1>10, SavedFacts DEF GetRtuId, GetData, Done, Frame, flashVars, Related
<1>11. CASE EraseLog
  BY <1>0, <1>11 DEF EraseLog, Frame, Related, Writing, Opened
<1>12. CASE EraseLogErase
  BY <1>0, <1>12 DEF EraseLogErase, Related, Places, Writing, Opened
<1>13. CASE EraseLogWrite
  <2>1. SavedOver' = 0 /\ SavedPage' = 0 /\ page = 0 /\ over = 0 /\ wpc = "rest"
    BY <1>0, <1>13, SavedByErase, Types DEF EraseLogWrite, Places
  <2> QED BY <1>13, <2>1 DEF EraseLogWrite, Related, Writing, Opened
<1>14. CASE Tick
  BY <1>0, <1>14, SavedFacts DEF Tick, flashVars, Related
<1>15. CASE Crash
  BY <1>15 DEF Crash, Related
<1>16. CASE Boot
  <2>1. SavedPage' = SavedPage /\ SavedOver' = SavedOver
    BY <1>16, SavedFacts DEF Boot
  <2> QED BY <1>16, <2>1 DEF Boot, Related, SavedPage, SavedOver, Writing, Opened
<1> QED BY <1>1, <1>2, <1>3, <1>4, <1>5, <1>6, <1>7, <1>8, <1>9, <1>10, <1>11, <1>12, <1>13,
           <1>14, <1>15, <1>16 DEF Next, Writer, Udp

LEMMA NextKnown ==
    ASSUME IInv, ~EraseRace, [Next]_vars PROVE Known'
<1>0. Typed /\ Places /\ Known
  BY DEF IInv
<1>1. CASE para' = para /\ known' = known
  BY <1>0, <1>1, SavedFacts DEF Known
<1>2. CASE SavePara
  BY <1>0, <1>2, SavedByRecord DEF SavePara, Places, Known
<1>3. CASE EraseLog
  <2>1. known' = 0 /\ SavedPage' = SavedPage
    BY <1>3, SavedFacts DEF EraseLog, flashVars
  <2> QED BY <1>0, <2>1, Types DEF Known
<1>4. CASE EraseParaSector \/ EraseLogErase
  BY <1>4 DEF EraseParaSector, EraseLogErase, Known
<1>5. CASE EraseLogWrite
  <2>1. known' = 0 /\ SavedPage' = 0
    BY <1>0, <1>5, SavedByErase DEF EraseLogWrite, Places
  <2> QED BY <1>0, <2>1, Types DEF Known
<1>6. CASE Boot
  <2>1. SavedPage' = page' /\ SavedOver' = over' /\ known' = Total' /\ page' \in Nat
    BY <1>0, <1>6, SavedFacts, Types DEF Boot, SavedPage, SavedOver
  <2> QED BY <2>1, Types, <1>0 DEF Known, Total
<1>7. CASE Begin \/ Overwrite \/ Address \/ EraseSlots \/ ProgramRecord \/ CountRecord
           \/ GetRtuId \/ GetData \/ Done \/ Tick \/ Crash \/ UNCHANGED vars
  BY <1>1, <1>7 DEF Begin, Overwrite, Address, EraseSlots, ProgramRecord, CountRecord, GetRtuId,
                    GetData, Done, Frame, Tick, Crash, vars, flashVars
<1> QED BY <1>2, <1>3, <1>4, <1>5, <1>6, <1>7 DEF Next, Writer, Udp

\* The slots a record touches are not counted, in memory or in flash.
LEMMA NotCounted ==
    ASSUME Typed, Related, on, wpc \in Writing \ {"overwrite"}
    PROVE  /\ page \notin Counted(SavedPage, SavedOver)
           /\ page % PerSector = 0 => Counted(SavedPage, SavedOver) \cap SectorOf(page) = {}
<1>1. page \in Slots /\ SavedOver \in {0, 1}
  BY Types
<1>2. CASE SavedPage = page /\ SavedOver = over
  BY <1>1, <1>2, CountedFacts
<1>3. CASE SavedPage = 0 /\ SavedOver = 0
  BY <1>3, FullFacts
<1> QED BY <1>2, <1>3 DEF Related

\* Power returns: what the parameters in flash say is kept.
LEMMA KeptAtBoot ==
    ASSUME IInv, ~on
    PROVE  Kept(flash, SavedPage, SavedOver, logged, Junk(flash, SavedPage), tears)
<1>0. Typed /\ Places /\ InFlash
  BY DEF IInv
<1>1. flash \in Logs /\ logged \in Int /\ tears \in Nat
  BY <1>0, Types
<1>2. CASE wpc = "rest"
  BY <1>0, <1>2 DEF InFlash, SavedLast, SavedJunk
<1>3. CASE wpc # "rest"
  <2>1. Kept(flash, SavedPage, SavedOver, logged - 1, 1, tears) /\ tears > 0
    BY <1>0, <1>3 DEF InFlash, Places, SavedLast, SavedJunk
  <2>2. Kept(flash, SavedPage, SavedOver, logged, 1, tears)
    BY <1>1, <2>1, KeptLater
  <2>3. Junk(flash, SavedPage) \in Nat /\ Junk(flash, SavedPage) + tears <= 1 + tears
    BY <1>1, JunkType
  <2> QED BY <1>1, <2>2, <2>3, KeptLess
<1> QED BY <1>2, <1>3

\* Programming a page of one slot, and erasing the slots of a sector.
LEMMA Programmed ==
    ASSUME flash \in Logs, NEW s \in Slots, NEW i \in {1, 2}, NEW record \in Pages,
           flash' = ProgramPage(s, i, record)
    PROVE  /\ \A t \in Slots : t # s => flash'[t] = flash[t]
           /\ LET v == IF flash[s][i] = Blank THEN record ELSE Mixed
              IN  flash'[s] = IF i = 1 THEN <<v, flash[s][2]>> ELSE <<flash[s][1], v>>
<1>1. flash[s] \in Pages \X Pages /\ Mixed \in Pages
  BY DEF Pages, Logs
<1> DEFINE v == IF flash[s][i] = Blank THEN record ELSE Mixed
<1>2. flash' = [flash EXCEPT ![s] = [flash[s] EXCEPT ![i] = v]]
  BY DEF ProgramPage, v
<1>3. v \in Pages
  BY <1>1
<1> HIDE DEF v
<1>4. /\ \A t \in Slots : t # s => flash'[t] = flash[t]
      /\ flash'[s] = [flash[s] EXCEPT ![i] = v]
  BY <1>2 DEF Logs
<1>5. [flash[s] EXCEPT ![i] = v] = IF i = 1 THEN <<v, flash[s][2]>> ELSE <<flash[s][1], v>>
  BY <1>1, <1>3
<1> QED BY <1>4, <1>5 DEF v

LEMMA TailProgrammed ==
    ASSUME NEW f, NEW g, NEW p \in Slots, \A t \in Slots : t # p => g[t] = f[t], p \in Nat
    PROVE  (RawTail(f, p) => RawTail(g, p)) /\ (Tail(f, p) => Tail(g, p))
<1>1. \A s \in SectorOf(p) : s \in Slots /\ s \in Int
  BY DEF SectorOf, Slots
<1>2. \A s \in SectorOf(p) : s > p => s # p
  BY <1>1
<1> QED BY <1>1, <1>2 DEF RawTail, Tail

LEMMA NextInMemory ==
    ASSUME IInv, ~EraseRace, [Next]_vars PROVE InMemory'
<1>0. /\ Typed /\ Places /\ Related /\ InMemory
      /\ flash \in Logs /\ page \in Nat /\ logged \in Nat /\ tears \in Nat /\ over \in {0, 1}
      /\ NowJunk \in {0, 1} /\ logged - 1 + 1 = logged
  BY Types, JunkType DEF IInv, NowJunk
<1>1. CASE flash' = flash /\ page' = page /\ over' = over /\ wpc' = wpc /\ logged' = logged
           /\ tears' = tears /\ on' = on
  BY <1>0, <1>1 DEF InMemory, NowOver, NowLast, NowJunk, Expected
<1>2. CASE UNCHANGED vars \/ GetRtuId \/ GetData \/ Done \/ EraseLogErase \/ EraseLogWrite \/ Tick
  BY <1>1, <1>2 DEF vars, flashVars, ramVars, countVars, GetRtuId, GetData, Done, Frame,
                    EraseLogErase, EraseLogWrite, Tick
<1>3. CASE Begin
  <2>1. /\ Kept(flash, page, over, logged, Junk(flash, page), tears) /\ Tail(flash, page)
        /\ flash' = flash /\ tears' = tears /\ over' = over /\ logged' - 1 = logged
    BY <1>0, <1>3 DEF Begin, flashVars, InMemory, NowOver, NowLast, NowJunk, Writing, Opened
  <2>2. CASE page < MaxPackets
    BY <1>3, <2>1, <2>2 DEF Begin, InMemory, NowOver, NowLast, NowJunk, Writing, Opened
  <2>3. CASE ~(page < MaxPackets)
    <3>1. page = MaxPackets /\ page' = 0 /\ wpc' = "overwrite"
      BY <1>0, <1>3, <2>3, Types DEF Begin
    <3>2. /\ Kept(flash, 0, 1, logged, Junk(flash, page), tears)
          /\ Tail(flash, 0) /\ Junk(flash, 0) = 0
      BY <1>0, <2>1, <3>1, KeptLap, JunkType
    <3>3. Junk(flash, page) \in Nat /\ 0 + tears <= Junk(flash, page) + tears
      BY <1>0, JunkType
    <3>4. Kept(flash, 0, 1, logged, 0, tears)
      BY <1>0, <3>2, <3>3, KeptLess
    <3> QED BY <2>1, <3>1, <3>2, <3>4 DEF InMemory, NowOver, NowLast, NowJunk, Writing, Opened
  <2> QED BY <2>2, <2>3
<1>4. CASE Overwrite
  BY <1>0, <1>4 DEF Overwrite, flashVars, countVars, InMemory, NowOver, NowLast, NowJunk,
                    Writing, Opened
<1>5. CASE Address
  <2>1. /\ Kept(flash, page, over, logged - 1, Junk(flash, page), tears) /\ Tail(flash, page)
        /\ flash' = flash /\ page' = page /\ over' = over /\ tears' = tears /\ logged' = logged
    BY <1>0, <1>5 DEF Address, flashVars, ramVars, countVars, InMemory, NowOver, NowLast,
                      NowJunk, Writing, Opened
  <2>2. CASE page % PerSector = 0
    BY <1>5, <2>1, <2>2 DEF Address, InMemory, NowOver, NowLast, NowJunk, Writing, Opened
  <2>3. CASE page % PerSector # 0
    <3>1. wpc' = "page1" /\ NowJunk' = Junk(flash, page) /\ RawTail(flash, page)
      BY <1>5, <2>1, <2>3 DEF Address, NowJunk, Junk, Tail, Expected, Opened
    <3> QED BY <2>1, <3>1 DEF InMemory, NowOver, NowLast, Writing, Opened
  <2> QED BY <2>2, <2>3
<1>6. CASE EraseSlots
  <2>1. /\ page % PerSector = 0 /\ addr = page /\ page \in Slots /\ flash' = EraseSector(page)
        /\ page' = page /\ over' = over /\ tears' = tears /\ logged' = logged /\ wpc' = "page1"
    BY <1>0, <1>6, Types DEF EraseSlots, ramVars, countVars, Places, Writing
  <2>2. Kept(flash, page, over, logged - 1, NowJunk, tears)
    BY <1>0, <1>6 DEF EraseSlots, InMemory, NowOver, NowLast, Writing
  <2>3. /\ \A s \in SectorOf(page) : flash'[s] = Erased
        /\ \A s \in Slots : s \notin SectorOf(page) => flash'[s] = flash[s]
        /\ page \in SectorOf(page)
    BY <2>1 DEF EraseSector, SectorOf
  <2>4. Counted(page, over) \cap SectorOf(page) = {} /\ Counted(page, over) \subseteq Slots
    BY <1>0, <2>1, CountedFacts
  <2>5. Kept(flash', page, over, logged - 1, NowJunk, tears)
    BY <1>0, <2>2, <2>3, <2>4, KeptSame
  <2>6. 0 + tears <= NowJunk + tears /\ NowJunk \in Nat
    BY <1>0
  <2>7. Kept(flash', page, over, logged - 1, 0, tears)
    BY <1>0, <2>5, <2>6, KeptLess
  <2>8. NowJunk' = 0 /\ RawTail(flash', page)
    BY <2>1, <2>3 DEF NowJunk, Opened, Expected, RawTail
  <2> QED BY <2>1, <2>7, <2>8 DEF InMemory, NowOver, NowLast, Writing, Opened
<1>7. CASE ProgramRecord
  <2> DEFINE i == IF wpc = "page1" THEN 1 ELSE 2
  <2>1. /\ page \in Slots /\ addr = page /\ flash' = ProgramPage(page, i, logged)
        /\ page' = page /\ over' = over /\ tears' = tears /\ logged' = logged
        /\ i \in {1, 2} /\ logged \in Pages /\ on
        /\ (wpc = "page1" /\ wpc' = "page2") \/ (wpc = "page2" /\ wpc' = "count")
    BY <1>0, <1>7, Types DEF ProgramRecord, ramVars, countVars, Places, Writing, Opened, Pages
  <2>2. /\ Kept(flash, page, over, logged - 1, NowJunk, tears) /\ RawTail(flash, page)
        /\ wpc = "page2" => flash[page][1] \in {logged, Mixed}
    BY <1>0, <2>1 DEF InMemory, NowOver, NowLast, Writing, Opened
  <2>3. /\ \A t \in Slots : t # page => flash'[t] = flash[t]
        /\ LET v == IF flash[page][i] = Blank THEN logged ELSE Mixed
           IN  flash'[page] = IF i = 1 THEN <<v, flash[page][2]>> ELSE <<flash[page][1], v>>
    BY <1>0, <2>1, Programmed
  <2>4. page \notin Counted(page, over) /\ Counted(page, over) \subseteq Slots
    BY <1>0, <2>1, CountedFacts
  <2>5. Kept(flash', page, over, logged - 1, NowJunk, tears)
    BY <1>0, <2>2, <2>3, <2>4, KeptSame
  <2>6. flash[page] = Expected => flash'[page] = Expected'
    BY <2>1, <2>3 DEF Expected, Erased
  <2>7. NowJunk' = NowJunk \/ (NowJunk' = 0 /\ NowJunk = 1)
    BY <1>0, <2>1, <2>6 DEF NowJunk, Opened
  <2>8. Kept(flash', page, over, logged - 1, NowJunk', tears)
    <3>1. CASE NowJunk' = NowJunk
      BY <2>5, <3>1
    <3>2. CASE NowJunk' = 0 /\ NowJunk = 1
      <4>1. Kept(flash', page, over, logged - 1, 1, tears) /\ 0 + tears <= 1 + tears
        BY <1>0, <2>5, <3>2
      <4>2. Kept(flash', page, over, logged - 1, 0, tears)
        BY <1>0, <4>1, KeptLess
      <4> QED BY <3>2, <4>2
    <3> QED BY <2>7, <3>1, <3>2
  <2>9. RawTail(flash', page)
    BY <1>0, <2>1, <2>2, <2>3, TailProgrammed
  <2>10. flash'[page][1] \in {logged, Mixed}
    BY <2>1, <2>2, <2>3
  <2> QED BY <2>1, <2>8, <2>9, <2>10 DEF InMemory, NowOver, NowLast, Writing, Opened
<1>8. CASE CountRecord
  <2>1. /\ page \in Slots /\ flash' = flash /\ page' = page + 1 /\ over' = over /\ tears' = tears
        /\ logged' = logged /\ wpc' = "paraErase" /\ logged - 1 \in Nat
    BY <1>0, <1>8, Types DEF CountRecord, flashVars, countVars, Places, Writing, Opened
  <2>2. /\ Kept(flash, page, over, logged - 1, NowJunk, tears) /\ RawTail(flash, page)
        /\ flash[page][1] \in {logged, Mixed}
        /\ NowJunk = IF flash[page] = <<logged, logged>> THEN 0 ELSE 1
    BY <1>0, <1>8 DEF CountRecord, InMemory, NowOver, NowLast, NowJunk, Expected, Writing, Opened
  <2>3. /\ Kept(flash, page + 1, over, logged, 0, tears) /\ Tail(flash, page + 1)
        /\ Junk(flash, page + 1) = 0
    BY <1>0, <2>1, <2>2, KeptNext
  <2> QED BY <2>1, <2>3 DEF InMemory, NowOver, NowLast, NowJunk, Writing, Opened
<1>9. CASE EraseParaSector \/ SavePara
  BY <1>0, <1>9 DEF EraseParaSector, SavePara, ramVars, countVars, InMemory, NowOver, NowLast,
                    NowJunk, Writing, Opened
<1>10. CASE EraseLog
  <2>1. Kept(flash, 0, 0, logged, 0, tears) /\ Tail(flash, 0) /\ Junk(flash, 0) = 0
    BY <1>0, KeptEmpty
  <2>2. wpc = "rest"
    BY <1>10 DEF EraseLog
  <2> QED BY <1>10, <2>1, <2>2 DEF EraseLog, flashVars, InMemory, NowOver, NowLast, NowJunk,
                                  Writing, Opened
<1>11. CASE Crash
  BY <1>11 DEF Crash, InMemory
<1>12. CASE Boot
  <2>1. Kept(flash, SavedPage, SavedOver, logged, Junk(flash, SavedPage), tears)
    BY <1>12, KeptAtBoot DEF Boot
  <2>2. Tail(flash, SavedPage)
    BY DEF IInv, InFlash
  <2> QED BY <1>12, <2>1, <2>2 DEF Boot, countVars, InMemory, NowOver, NowLast, NowJunk, Writing,
                                  Opened, SavedPage, SavedOver
<1> QED BY <1>2, <1>3, <1>4, <1>5, <1>6, <1>7, <1>8, <1>9, <1>10, <1>11, <1>12
        DEF Next, Writer, Udp

LEMMA NextInFlash ==
    ASSUME IInv, ~EraseRace, [Next]_vars PROVE InFlash'
<1>0. /\ Typed /\ Places /\ Related /\ InMemory /\ InFlash
      /\ flash \in Logs /\ page \in Nat /\ logged \in Nat /\ tears \in Nat
      /\ over \in {0, 1} /\ SavedOver \in {0, 1}
  BY Types DEF IInv
<1>1. CASE flash' = flash /\ para' = para /\ logged' = logged /\ tears' = tears /\ wpc' = wpc
           /\ on' = on
  BY <1>0, <1>1, SavedFacts DEF InFlash, SavedLast, SavedJunk
<1>2. CASE UNCHANGED vars \/ GetRtuId \/ GetData \/ Done \/ EraseLog \/ Tick
  BY <1>1, <1>2 DEF vars, flashVars, ramVars, countVars, GetRtuId, GetData, Done, Frame,
                    EraseLog, Tick
<1>3. CASE Begin
  <2>1. /\ Kept(flash, SavedPage, SavedOver, logged, Junk(flash, SavedPage), tears)
        /\ flash' = flash /\ tears' = tears /\ logged' - 1 = logged /\ on' /\ wpc' # "rest"
        /\ SavedPage' = SavedPage /\ SavedOver' = SavedOver
    BY <1>0, <1>3, SavedFacts DEF Begin, flashVars, InFlash, SavedLast, SavedJunk
  <2>2. Junk(flash, SavedPage) \in Nat /\ 0 + tears <= Junk(flash, SavedPage) + tears
    BY <1>0, JunkType
  <2>3. Kept(flash, SavedPage, SavedOver, logged, 0, tears)
    BY <1>0, <2>1, <2>2, KeptLess
  <2> QED BY <1>0, <2>1, <2>3 DEF InFlash, SavedLast, SavedJunk
<1>4. CASE Overwrite \/ Address \/ CountRecord
  <2>1. /\ flash' = flash /\ para' = para /\ logged' = logged /\ tears' = tears /\ on' = on
        /\ wpc # "rest" /\ wpc' # "rest"
    BY <1>4 DEF Overwrite, Address, CountRecord, flashVars, countVars
  <2> QED BY <1>0, <2>1, SavedFacts DEF InFlash, SavedLast, SavedJunk
<1>5. CASE EraseSlots \/ ProgramRecord
  <2>1. /\ addr = page /\ page \in Slots /\ para' = para /\ logged' = logged /\ tears' = tears
        /\ on /\ on' /\ wpc \in Writing \ {"overwrite"} /\ wpc' # "rest" /\ wpc # "rest"
        /\ logged \in Pages
    BY <1>0, <1>5, Types DEF EraseSlots, ProgramRecord, ramVars, countVars, Places, Writing,
                            Opened, Pages
  <2>2. /\ \A s \in Counted(SavedPage, SavedOver) : flash'[s] = flash[s]
        /\ Tail(flash', SavedPage)
    <3>1. /\ page \notin Counted(SavedPage, SavedOver)
          /\ Counted(SavedPage, SavedOver) \subseteq Slots
          /\ page % PerSector = 0 => Counted(SavedPage, SavedOver) \cap SectorOf(page) = {}
          /\ SavedPage = page \/ SavedPage = 0
          /\ 0 % PerSector = 0 /\ Tail(flash, SavedPage)
      BY <1>0, <2>1, NotCounted, PacketsAssumption DEF Related, InFlash, Counted
    <3>2. CASE EraseSlots
      <4>1. page % PerSector = 0 /\ flash' = EraseSector(page)
        BY <1>0, <2>1, <3>2 DEF EraseSlots, Places
      <4> QED BY <3>1, <4>1 DEF EraseSector, Tail
    <3>3. CASE ProgramRecord
      <4>1. \A t \in Slots : t # page => flash'[t] = flash[t]
        BY <1>0, <2>1, <3>3, Programmed DEF ProgramRecord
      <4>2. Tail(flash', page) \/ SavedPage # page
        BY <1>0, <2>1, <3>1, <4>1, TailProgrammed
      <4> QED BY <3>1, <4>1, <4>2 DEF Tail
    <3> QED BY <1>5, <3>2, <3>3
  <2>3. Kept(flash, SavedPage, SavedOver, logged - 1, 0, tears)
    BY <1>0, <2>1 DEF InFlash, SavedLast, SavedJunk
  <2>4. Kept(flash', SavedPage, SavedOver, logged - 1, 0, tears)
    BY <1>0, <2>2, <2>3, KeptSame
  <2> QED BY <2>1, <2>2, <2>4, SavedFacts DEF InFlash, SavedLast, SavedJunk
<1>6. CASE EraseParaSector
  <2>1. /\ flash' = flash /\ logged' = logged /\ tears' = tears /\ on' /\ wpc' # "rest"
        /\ SavedPage' = 0 /\ SavedOver' = 0
    BY <1>6, SavedFacts DEF EraseParaSector, countVars
  <2> QED BY <1>0, <2>1, KeptEmpty DEF InFlash, SavedLast, SavedJunk
<1>7. CASE SavePara
  <2>1. /\ flash' = flash /\ logged' = logged /\ tears' = tears /\ wpc' = "rest"
        /\ SavedOver' = over /\ (SavedPage' = page \/ (page = MaxPackets /\ SavedPage' = 0))
    BY <1>0, <1>7, SavedByRecord DEF SavePara, countVars, Places
  <2>2. /\ Kept(flash, page, over, logged, Junk(flash, page), tears) /\ Tail(flash, page)
    BY <1>0, <1>7 DEF SavePara, InMemory, NowOver, NowLast, NowJunk, Writing, Opened
  <2>3. CASE SavedPage' = page
    BY <2>1, <2>2, <2>3 DEF InFlash, SavedLast, SavedJunk
  <2>4. CASE page = MaxPackets /\ SavedPage' = 0
    <3>1. /\ Kept(flash, 0, over, logged, Junk(flash, page), tears)
          /\ Tail(flash, 0) /\ Junk(flash, 0) = 0
      BY <1>0, <2>2, <2>4, KeptLap, JunkType
    <3>2. Junk(flash, page) \in Nat /\ 0 + tears <= Junk(flash, page) + tears
      BY <1>0, JunkType
    <3>3. Kept(flash, 0, over, logged, 0, tears)
      BY <1>0, <3>1, <3>2, KeptLess
    <3> QED BY <2>1, <2>4, <3>1, <3>3 DEF InFlash, SavedLast, SavedJunk
  <2> QED BY <2>1, <2>3, <2>4
<1>8. CASE EraseLogErase \/ EraseLogWrite
  <2>1. /\ flash' = flash /\ logged' = logged /\ tears' = tears /\ on' /\ wpc' = "rest"
    BY <1>0, <1>8 DEF EraseLogErase, EraseLogWrite, countVars, Places
  <2>2. SavedPage' = 0 /\ SavedOver' = 0
    BY <1>0, <1>8, SavedFacts, SavedByErase DEF EraseLogErase, EraseLogWrite, Places
  <2> QED BY <1>0, <2>1, <2>2, KeptEmpty DEF InFlash, SavedLast, SavedJunk
<1>9. CASE Crash
  <2>1. /\ para' = para /\ logged' = logged /\ on /\ ~on' /\ wpc' = wpc
        /\ SavedPage' = SavedPage /\ SavedOver' = SavedOver
        /\ tears' = IF wpc = "rest" THEN tears ELSE tears + 1
    BY <1>9, SavedFacts DEF Crash
  <2>2. CASE wpc = "rest"
    BY <1>0, <1>9, <2>1, <2>2 DEF Crash, InFlash, SavedLast, SavedJunk
  <2>3. CASE wpc # "rest"
    <3>1. /\ \A s \in Counted(SavedPage, SavedOver) : flash'[s] = flash[s]
          /\ Tail(flash', SavedPage)
      <4>1. CASE flash' = flash
        BY <1>0, <4>1 DEF InFlash
      <4>2. CASE flash' # flash
        <5>1. /\ wpc \in {"erase"} \cup Opened /\ wpc \in Writing \ {"overwrite"}
              /\ addr = page /\ page \in Slots /\ Mixed \in Pages
          BY <1>0, <1>9, <4>2, Types DEF Crash, Places, Writing, Opened, Pages
        <5>2. /\ page \notin Counted(SavedPage, SavedOver)
              /\ Counted(SavedPage, SavedOver) \subseteq Slots
              /\ page % PerSector = 0 => Counted(SavedPage, SavedOver) \cap SectorOf(page) = {}
              /\ SavedPage = page \/ SavedPage = 0
              /\ 0 % PerSector = 0 /\ Tail(flash, SavedPage)
          BY <1>0, <2>1, <5>1, NotCounted, PacketsAssumption DEF Related, InFlash, Counted
        <5>3. CASE wpc = "erase"
          <6>1. /\ page % PerSector = 0
                /\ flash' = [t \in Slots |-> IF t \in SectorOf(page) THEN <<Mixed, Mixed>>
                                             ELSE flash[t]]
            BY <1>0, <1>9, <4>2, <5>1, <5>3 DEF Crash, Places
          <6> QED BY <5>2, <6>1 DEF Tail
        <5>4. CASE wpc # "erase"
          <6>1. \A t \in Slots : t # page => flash'[t] = flash[t]
            BY <1>0, <1>9, <4>2, <5>1, <5>4, Programmed DEF Crash
          <6>2. Tail(flash', page) \/ SavedPage # page
            BY <1>0, <5>1, <5>2, <6>1, TailProgrammed
          <6> QED BY <5>2, <6>1, <6>2 DEF Tail
        <5> QED BY <5>3, <5>4
      <4> QED BY <4>1, <4>2
    <3>2. Kept(flash, SavedPage, SavedOver, logged - 1, 0, tears)
      BY <1>0, <2>1, <2>3 DEF InFlash, SavedLast, SavedJunk
    <3>3. Kept(flash', SavedPage, SavedOver, logged - 1, 0, tears)
      BY <1>0, <3>1, <3>2, KeptSame
    <3>4. tears + 1 \in Nat /\ tears <= tears + 1 /\ 1 + tears <= 0 + (tears + 1)
      BY <1>0
    <3>5. Kept(flash', SavedPage, SavedOver, logged - 1, 1, tears + 1)
      BY <1>0, <3>3, <3>4, KeptLess
    <3> QED BY <2>1, <2>3, <3>1, <3>5 DEF InFlash, SavedLast, SavedJunk
  <2> QED BY <2>2, <2>3
<1>10. CASE Boot
  <2>1. Kept(flash, SavedPage, SavedOver, logged, Junk(flash, SavedPage), tears)
    BY <1>10, KeptAtBoot DEF Boot
  <2>2. /\ SavedPage' = SavedPage /\ SavedOver' = SavedOver /\ flash' = flash /\ wpc' = "rest"
        /\ logged' = logged /\ tears' = tears
    BY <1>10, SavedFacts DEF Boot, countVars
  <2> QED BY <1>0, <2>1, <2>2 DEF InFlash, SavedLast, SavedJunk
<1> QED BY <1>2, <1>3, <1>4, <1>5, <1>6, <1>7, <1>8, <1>9, <1>10 DEF Next, Writer, Udp

LEMMA InitHolds == Init => IInv
<1> SUFFICES ASSUME Init PROVE IInv
  OBVIOUS
<1>1. /\ Typed /\ page = 0 /\ over = 0 /\ logged = 0 /\ tears = 0 /\ known = 0 /\ on
      /\ wpc = "rest" /\ upc = "rest" /\ para = [page |-> 0, over |-> 0]
  BY InitTyped DEF Init
<1>2. SavedPage = 0 /\ SavedOver = 0
  <2>1. Stored = [page |-> 0, over |-> 0]
    BY <1>1 DEF Stored
  <2> QED BY <2>1, PacketsAssumption DEF SavedPage, SavedOver, RestoredPage, RestoredOver
<1>3. Kept(flash, 0, 0, 0, 0, 0) /\ Tail(flash, 0) /\ Junk(flash, 0) = 0
  BY KeptEmpty
<1>4. Places /\ Related /\ Known
  BY <1>1, <1>2 DEF Places, Related, Known, Writing, Opened
<1>5. InMemory /\ InFlash
  BY <1>1, <1>2, <1>3 DEF InMemory, InFlash, NowOver, NowLast, NowJunk, SavedLast, SavedJunk,
                          Writing, Opened
<1> QED BY <1>1, <1>4, <1>5 DEF IInv

LEMMA SpecInvariant == ASSUME ~EraseRace PROVE Spec => []IInv
<1>1. Init => IInv
  BY InitHolds
<1>2. IInv /\ [Next]_vars => IInv'
  <2> SUFFICES ASSUME IInv, [Next]_vars PROVE IInv'
    OBVIOUS
  <2>1. Typed'
    BY NextTyped DEF IInv
  <2> QED BY <2>1, NextPlaces, NextRelated, NextInMemory, NextInFlash, NextKnown DEF IInv
<1> QED BY <1>1, <1>2, PTL DEF Spec

\* What a reader finds at rest.
LEMMA AtRestFacts ==
    ASSUME IInv, AtRest
    PROVE  /\ Readable = Counted(page, over) /\ Kept(flash, page, over, logged, 0, tears)
           /\ flash \in Logs /\ logged \in Nat /\ tears \in Nat
           /\ \A s \in Readable : Whole(s) <=> WholeIn(flash, s)
<1>1. /\ Typed /\ InMemory /\ flash \in Logs /\ logged \in Nat /\ tears \in Nat
      /\ page \in Nat /\ over \in {0, 1}
  BY Types DEF IInv
<1>2. Readable = Counted(page, over)
  <2>1. \A s \in Slots : s \in Nat /\ s < MaxPackets
    BY PacketsAssumption DEF Slots
  <2>2. CASE over = 1
    BY <2>1, <2>2 DEF Readable, Counted, Open, Total
  <2>3. CASE over = 0
    BY <1>1, <2>3 DEF Readable, Counted, Open, Total
  <2> QED BY <1>1, <2>2, <2>3
<1>3. Kept(flash, page, over, logged, Junk(flash, page), tears)
  BY <1>1 DEF AtRest, InMemory, NowOver, NowLast, NowJunk, Writing, Opened
<1>4. Junk(flash, page) \in Nat /\ 0 + tears <= Junk(flash, page) + tears
  BY <1>1, JunkType
<1>5. Kept(flash, page, over, logged, 0, tears)
  BY <1>1, <1>3, <1>4, KeptLess
<1>6. ASSUME NEW s \in Readable PROVE Whole(s) <=> WholeIn(flash, s)
  <2>1. flash[s][1] \in Int /\ (WholeIn(flash, s) => flash[s][1] <= logged)
    BY <1>1, <1>2, <1>5, <1>6 DEF Kept, Ordered, Counted, Logs, Pages, Mixed
  <2> QED BY <1>1, <2>1 DEF Whole, WholeIn
<1> QED BY <1>1, <1>2, <1>5, <1>6

-----------------------------------------------------------------------------
\* The type invariant, ERASE meeting a write or not.
THEOREM TypeCorrect == Spec => []TypeOK
<1>1. Init => Typed
  BY InitTyped
<1>2. Typed /\ [Next]_vars => Typed'
  BY NextTyped
<1>3. Typed => TypeOK
  BY DEF Typed
<1> QED BY <1>1, <1>2, <1>3, PTL DEF Spec

\* Until a power failure hits a write, the packets of the log are exactly the
\* last records, each in its slot (ExtFlash_WriteHistoricalData and
\* ExtFlash_Read_RuntimePara), if ERASE does not meet a write.
THEOREM ExactlyTheLast == ASSUME ~EraseRace PROVE Spec => []LogExact
<1>1. ASSUME IInv PROVE LogExact
  <2> SUFFICES ASSUME AtRest, tears = 0, NEW s \in Readable
               PROVE  flash[s] = <<Number(page, logged, s), Number(page, logged, s)>>
    BY DEF LogExact, Number
  <2> QED BY <1>1, AtRestFacts DEF Kept, Exact
<1> QED BY <1>1, SpecInvariant, PTL

\* The packets stay in the order in which they were logged, whatever power
\* failures there were.
THEOREM OrderKept == ASSUME ~EraseRace PROVE Spec => []LogOrder
<1>1. ASSUME IInv PROVE LogOrder
  <2> SUFFICES ASSUME AtRest, NEW s \in Readable, NEW t \in Readable, Whole(s), Whole(t),
                      Place(page, s) < Place(page, t)
               PROVE  flash[s][1] < flash[t][1]
    BY DEF LogOrder, Place
  <2> QED BY <1>1, AtRestFacts DEF Kept, Ordered
<1> QED BY <1>1, SpecInvariant, PTL

\* A power failure that hits a write spoils at most one packet.
THEOREM DamageIsBounded == ASSUME ~EraseRace PROVE Spec => []DamageBounded
<1>1. ASSUME IInv PROVE DamageBounded
  <2> SUFFICES ASSUME AtRest PROVE Cardinality({s \in Readable : ~Whole(s)}) <= tears
    BY DEF DamageBounded
  <2>1. {s \in Readable : ~Whole(s)} = Damage(flash, page, over)
    BY <1>1, AtRestFacts DEF Damage
  <2>2. Cardinality(Damage(flash, page, over)) + 0 <= tears /\ tears \in Nat
    BY <1>1, AtRestFacts DEF Kept
  <2> QED BY <2>1, <2>2, DamageFinite
<1> QED BY <1>1, SpecInvariant, PTL

\* A reboot keeps every packet, but when power failed with the parameter sector
\* erased or when the log was exactly full (ExtFlash_Read_RuntimePara).
THEOREM LogSurvivesReboot == ASSUME ~EraseRace PROVE Spec => RebootKeepsLog
<1>1. ASSUME IInv, [Next]_vars
      PROVE  [Boot /\ para # <<>> /\ para # [page |-> MaxPackets, over |-> 0]
                => Total' >= known]_vars
  <2> SUFFICES ASSUME Boot, para # <<>>, para # [page |-> MaxPackets, over |-> 0]
               PROVE  Total' >= known
    OBVIOUS
  <2>1. /\ Total' = IF SavedOver = 1 THEN MaxPackets ELSE SavedPage
        /\ known <= (IF SavedOver = 1 THEN MaxPackets ELSE SavedPage)
        /\ known \in Nat /\ SavedPage \in Nat /\ MaxPackets \in Nat
    BY <1>1, Types DEF IInv, Known, Boot, Total, SavedPage, SavedOver
  <2> QED BY <2>1
<1> QED BY <1>1, SpecInvariant, PTL DEF Spec, RebootKeepsLog
=============================================================================
