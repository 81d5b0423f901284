-------------------------- MODULE ConfigStore_proofs --------------------------
(***************************************************************************)
(* The configuration blocks, for any number of blocks, commands, factory   *)
(* resets and power failures.  The properties of a running device follow   *)
(* from what holds at every step of a boot, of a reset and of a save.      *)
(***************************************************************************)
EXTENDS ConfigStore, TLAPS

\* Block k has been read, or given its defaults, since power came on.
Known(k) ==
    \/ mode \in {"key", "reset", "run"}
    \/ mode = "read" /\ (k < at \/ k = write)

\* Where a write may be under way, and which blocks are valid.
Shape ==
    /\ write # 0 => /\ flash[write] = Torn \/ write \in Unsummed
                    /\ mode = "run" \/ write = at
    /\ mode \in {"off", "key"} => write = 0
    /\ mode = "reset" /\ write # 0 => at # Ota
    /\ \A k \in Blocks : Known(k) => k = write \/ flash[k] # Torn

\* Versions grow with the commands.
Recent ==
    /\ image.own <= changes + 1
    /\ \A k \in Blocks :
          /\ stored[k] <= changes + 1 /\ ram[k].own <= changes + 1
          /\ flash[k] # Torn => flash[k].own <= changes + 1

\* Only a block that was hit can differ from what was stored of it.
Faithful ==
    \A k \in Blocks \ hit :
        /\ k # write => flash[k] # Torn /\ flash[k].own = stored[k]
        /\ Known(k) => ram[k].own >= stored[k]
        /\ Known(k) /\ k = write => ram[k].own >= image.own

\* Settings of the inputs none of which is a default.
Set(c) == \A f \in Fields : c.ai[f] # 0

\* AI_Calibration never holds defaults, and General can replace it.
Backed ==
    ~exposed =>
        /\ mode # "reset"
        /\ flash[Cal] # Torn => Set(flash[Cal])
        /\ write = Cal => Set(image)
        /\ flash[Cal] = Torn /\ write # Cal => flash[General] # Torn /\ Set(flash[General])
        /\ mode = "read" /\ at = Cal /\ flash[Cal] = Torn => Set(ram[General])
        /\ Known(Cal) => Set(ram[General]) /\ Set(ram[Cal])

\* The settings of the inputs in block k are in flash, or will be.
Synced(k) ==
    \/ k \in pending
    \/ write = k /\ image.ai = ram[k].ai
    \/ write # k /\ flash[k] # Torn /\ flash[k].ai = ram[k].ai

\* The two copies agree in memory, and with the flash.
Agreed ==
    /\ Known(Cal) /\ ~apart /\ ~(mode = "reset" /\ (at = General \/ (at = Cal /\ write = 0)))
          => ram[General].ai = ram[Cal].ai
    /\ Known(Cal) => Synced(Cal)
    /\ mode = "run" => unbacked \/ Synced(General)
    /\ Known(General) /\ mode # "run" => unbacked \/ General \in pending

\* As long as no write was cut short the boots find the two copies alike.
Untorn ==
    hit = {} =>
        /\ ~unbacked
        /\ mode = "read" => write \in {0, Ota}
        /\ ~unsaved /\ ~apart /\ (mode = "off" \/ (mode = "read" /\ at \in {General, Cal} /\ write = 0))
              => flash[General].ai = flash[Cal].ai
        /\ mode = "read" /\ at = Cal => ram[General].ai = flash[General].ai

\* Later pages are erased only in a block whose checksum is not tested, once
\* power failed while it was written.
Complete ==
    /\ \A k \in Blocks \ {write} :
          flash[k] # Torn /\ flash[k].rest = "erased" => k \in Unsummed \cap hit
    /\ \A k \in Blocks : ram[k].rest = "erased" => k \in Unsummed \cap hit
    /\ write # 0 /\ image.rest = "erased" => write \in Unsummed \cap hit
    /\ write # 0 /\ flash[write] # Torn => write \in Unsummed

IInv == TypeOK /\ Shape /\ Recent /\ Faithful /\ Backed /\ Agreed /\ Untorn
        /\ Complete

-----------------------------------------------------------------------------
LEMMA BlockFacts ==
    /\ General \in Blocks /\ Cal \in Blocks /\ Ota \in Blocks /\ 0 \notin Blocks
    /\ General # Cal /\ Cal # Ota /\ General # Ota
    /\ General = 1 /\ Cal = 2 /\ Ota = NBlocks /\ NBlocks \in Nat /\ NBlocks >= 3
    /\ \A k \in Blocks : k \in Int /\ k >= 1 /\ k <= NBlocks
    /\ Unsummed \subseteq Blocks
    /\ General \notin Unsummed /\ Cal \notin Unsummed /\ Ota \notin Unsummed
BY BlocksAssumption, UnsummedAssumption DEF General, Cal, Ota, Blocks

LEMMA ContentsFacts ==
    /\ \A c \in Contents : c # Torn /\ c.own \in Versions /\ c.ai \in [Fields -> Versions]
    /\ \A v \in Versions : \A a \in [Fields -> Versions] : 
          \A q \in Rest : [own |-> v, ai |-> a, rest |-> q] \in Contents
    /\ \A v \in Versions : Fresh(v) \in Contents
    /\ {0, 1} \subseteq Versions
<1>1. \A c \in Contents : c # Torn
  BY DEF Contents, Torn
<1>2. 0 \in Versions /\ 1 \in Versions
  BY BoundAssumption DEF Versions
<1>3. \A v \in Versions : Fresh(v) \in Contents
  BY DEF Contents, Fresh, Rest
<1> QED BY <1>1, <1>2, <1>3 DEF Contents

LEMMA DefaultType ==
    ASSUME NEW k \in Blocks, ram \in [Blocks -> Contents]
    PROVE  /\ Default(k) \in Contents
           /\ Default(k).own = 0 /\ Default(k).rest = "kept"
           /\ Default(Cal).ai = ram[General].ai
<1>1. Default(Cal) = [own |-> 0, ai |-> ram[General].ai, rest |-> "kept"]
  BY DEF Default, Fresh
<1>2. ram[General].ai \in [Fields -> Versions] /\ 0 \in Versions /\ "kept" \in Rest
  BY BlockFacts, ContentsFacts DEF Rest
<1> QED BY <1>1, <1>2, ContentsFacts DEF Default, Fresh

LEMMA LoadedFacts ==
    ASSUME NEW k \in Blocks, TypeOK, flash[k] # Torn
    PROVE  /\ Loaded(k) \in [Blocks -> Contents]
           /\ Loaded(k)[k] = flash[k]
           /\ \A j \in Blocks : j # k /\ (j # General \/ k # Cal) => Loaded(k)[j] = ram[j]
           /\ k = Cal => /\ Loaded(k)[General].own = ram[General].own
                         /\ Loaded(k)[General].ai = flash[Cal].ai
<1>1. flash[k] \in Contents /\ ram \in [Blocks -> Contents]
  BY DEF TypeOK
<1>2. CASE k = Cal
  <2>1. flash[Cal].ai \in [Fields -> Versions] /\ ram[General] \in Contents
    BY <1>1, <1>2, BlockFacts, ContentsFacts
  <2>2. [ram[General] EXCEPT !.ai = flash[Cal].ai] \in Contents
    BY <2>1 DEF Contents
  <2>3. /\ [ram[General] EXCEPT !.ai = flash[Cal].ai].own = ram[General].own
        /\ [ram[General] EXCEPT !.ai = flash[Cal].ai].ai = flash[Cal].ai
    BY <2>1 DEF Contents
  <2>4. Loaded(k) = [ram EXCEPT ![Cal] = flash[Cal],
                                ![General] = [ram[General] EXCEPT !.ai = flash[Cal].ai]]
    BY <1>1, <1>2, BlockFacts DEF Loaded
  <2> QED BY <1>1, <1>2, <2>2, <2>3, <2>4, BlockFacts
<1>3. CASE k # Cal
  BY <1>1, <1>3 DEF Loaded
<1> QED BY <1>2, <1>3

-----------------------------------------------------------------------------
\* One setting of the inputs of block k changes.
With(r, k, f, v) == [r EXCEPT ![k].ai[f] = v]

LEMMA SetField ==
    ASSUME NEW r \in [Blocks -> Contents], NEW k \in Blocks,
           NEW f \in Fields, NEW v \in Versions
    PROVE  /\ With(r, k, f, v) \in [Blocks -> Contents]
           /\ With(r, k, f, v)[k].own = r[k].own /\ With(r, k, f, v)[k].rest = r[k].rest
           /\ With(r, k, f, v)[k].ai = [r[k].ai EXCEPT ![f] = v]
           /\ \A j \in Blocks : j # k => With(r, k, f, v)[j] = r[j]
<1> DEFINE c == [r[k] EXCEPT !.ai = [r[k].ai EXCEPT ![f] = v]]
<1>1. r[k] \in Contents
  OBVIOUS
<1>2. /\ c \in Contents /\ c.own = r[k].own /\ c.rest = r[k].rest
      /\ c.ai = [r[k].ai EXCEPT ![f] = v]
  BY <1>1 DEF Contents
<1>3. With(r, k, f, v) = [r EXCEPT ![k] = c]
  BY DEF With
<1> HIDE DEF c
<1> QED BY <1>2, <1>3

LEMMA CalibrateFacts ==
    ASSUME TypeOK, NEW p \in Points, Calibrate(p)
    PROVE  /\ ram' \in [Blocks -> Contents]
           /\ ram'[General].own = ram[General].own /\ ram'[Cal].own = ram[Cal].own
           /\ ram'[General].rest = ram[General].rest /\ ram'[Cal].rest = ram[Cal].rest
           /\ \A j \in Blocks : j # General /\ j # Cal => ram'[j] = ram[j]
           /\ ram'[General].ai = [ram[General].ai EXCEPT !["type"] = Version, ![p] = Version]
           /\ ram'[Cal].ai = [ram[Cal].ai EXCEPT !["type"] = Version, ![CalField(p)] = Version]
           /\ Version \in Versions
<1> DEFINE r1 == With(ram, General, "type", Version)
           r2 == With(r1, General, p, Version)
           r3 == With(r2, Cal, "type", Version)
           r4 == With(r3, Cal, CalField(p), Version)
<1>1. Version \in Versions
  BY BoundAssumption DEF Calibrate, Command, Version, Versions, TypeOK
<1>2. p \in Fields /\ "type" \in Fields /\ CalField(p) \in Fields
  BY DEF Fields, Points, CalField
<1>3. ram' = r4
  BY DEF Calibrate, With
<1>4. ram \in [Blocks -> Contents] /\ General \in Blocks /\ Cal \in Blocks /\ General # Cal
  BY BlockFacts DEF TypeOK
<1>5. /\ r1 \in [Blocks -> Contents] /\ r1[General].own = ram[General].own
      /\ r1[General].rest = ram[General].rest
      /\ r1[General].ai = [ram[General].ai EXCEPT !["type"] = Version]
      /\ \A j \in Blocks : j # General => r1[j] = ram[j]
  BY <1>1, <1>2, <1>4, SetField
<1> HIDE DEF r1
<1>6. /\ r2 \in [Blocks -> Contents] /\ r2[General].own = r1[General].own
      /\ r2[General].rest = r1[General].rest
      /\ r2[General].ai = [r1[General].ai EXCEPT ![p] = Version]
      /\ \A j \in Blocks : j # General => r2[j] = r1[j]
  BY <1>1, <1>2, <1>4, <1>5, SetField
<1> HIDE DEF r2
<1>7. /\ r3 \in [Blocks -> Contents] /\ r3[Cal].own = r2[Cal].own
      /\ r3[Cal].rest = r2[Cal].rest
      /\ r3[Cal].ai = [r2[Cal].ai EXCEPT !["type"] = Version]
      /\ \A j \in Blocks : j # Cal => r3[j] = r2[j]
  BY <1>1, <1>2, <1>4, <1>6, SetField
<1> HIDE DEF r3
<1>8. /\ r4 \in [Blocks -> Contents] /\ r4[Cal].own = r3[Cal].own
      /\ r4[Cal].rest = r3[Cal].rest
      /\ r4[Cal].ai = [r3[Cal].ai EXCEPT ![CalField(p)] = Version]
      /\ \A j \in Blocks : j # Cal => r4[j] = r3[j]
  BY <1>1, <1>2, <1>4, <1>7, SetField
<1> HIDE DEF r4
<1>9. ram'[General] = r2[General] /\ r2[Cal] = ram[Cal]
  BY <1>3, <1>4, <1>5, <1>6, <1>7, <1>8
<1>10. /\ r2[General].ai = [ram[General].ai EXCEPT !["type"] = Version, ![p] = Version]
       /\ r4[Cal].ai = [ram[Cal].ai EXCEPT !["type"] = Version, ![CalField(p)] = Version]
  BY <1>5, <1>6, <1>7, <1>8, <1>9
<1> QED BY <1>1, <1>3, <1>4, <1>5, <1>6, <1>7, <1>8, <1>9, <1>10

LEMMA FirstPageFacts ==
    ASSUME TypeOK, FirstPage
    PROVE  /\ write \in Blocks /\ write \in Unsummed /\ flash[write] = Torn
           /\ write # General /\ write # Cal /\ write # Ota
           /\ UNCHANGED <<write, image, stored, ram, pending, mode, at, changes>>
           /\ UNCHANGED <<hit, exposed, unbacked, unsaved, apart>>
           /\ flash' \in [Blocks -> Contents \cup {Torn}]
           /\ \A j \in Blocks : j # write => flash'[j] = flash[j]
           /\ flash'[write] # Torn /\ flash'[write].own = image.own
<1> DEFINE c == [image EXCEPT !.rest = "erased"]
<1>1. image \in Contents /\ write \in Blocks /\ flash \in [Blocks -> Contents \cup {Torn}]
  BY BlockFacts DEF FirstPage, TypeOK
<1>2. c \in Contents /\ c.own = image.own /\ c # Torn
  BY <1>1, ContentsFacts DEF Contents, Rest
<1>3. flash' = [flash EXCEPT ![write] = c]
  BY DEF FirstPage
<1> HIDE DEF c
<1> QED BY <1>1, <1>2, <1>3, BlockFacts
        DEF FirstPage, bootVars, countVars, ghostVars, lossVars

LEMMA NextBlockFacts ==
    ASSUME NextBlock, TypeOK
    PROVE  /\ at' \in Blocks
           /\ \/ at < NBlocks /\ at' = at + 1 /\ mode' = mode
              \/ at = NBlocks /\ at' = at /\ mode' = "key"
BY BlockFacts DEF NextBlock, TypeOK, Blocks

LEMMA ConfigureFacts ==
    ASSUME TypeOK, NEW k \in Blocks, Configure(k)
    PROVE  /\ ram' \in [Blocks -> Contents]
           /\ ram'[k].own = Version /\ \A j \in Blocks : ram'[j].ai = ram[j].ai
           /\ \A j \in Blocks : j # k => ram'[j] = ram[j]
           /\ ram'[k].rest \in {ram[k].rest, "kept"}
<1>1. PICK q \in {ram[k].rest, "kept"} :
        ram' = [ram EXCEPT ![k] = [[ram[k] EXCEPT !.own = Version] EXCEPT !.rest = q]]
  BY DEF Configure, TypeOK
<1>2. Version \in Versions /\ ram[k] \in Contents /\ q \in Rest
  BY <1>1, BoundAssumption DEF Configure, Command, Version, Versions, TypeOK, Contents, Rest
<1>3. \E c \in Contents : /\ ram' = [ram EXCEPT ![k] = c]
                          /\ c.own = Version /\ c.ai = ram[k].ai /\ c.rest = q
  <2> DEFINE c == [[ram[k] EXCEPT !.own = Version] EXCEPT !.rest = q]
  <2>1. c \in Contents /\ c.own = Version /\ c.ai = ram[k].ai /\ c.rest = q
    BY <1>2 DEF Contents
  <2>2. ram' = [ram EXCEPT ![k] = c]
    BY <1>1
  <2> HIDE DEF c
  <2> QED BY <2>1, <2>2
<1> QED BY <1>1, <1>3 DEF TypeOK

LEMMA TypeHolds == Init => TypeOK
<1> SUFFICES ASSUME Init PROVE TypeOK
  OBVIOUS
<1>1. Fresh(0) \in Contents /\ Fresh(1) \in Contents /\ 0 \in Nat /\ 1 \in Versions
  BY ContentsFacts
<1>2. 1 \in Blocks
  BY BlockFacts
<1> QED BY <1>1, <1>2, InputAssumption DEF Init, TypeOK

LEMMA TypeKeeps == ASSUME TypeOK, [Next]_vars PROVE TypeOK'
<1> USE DEF TypeOK
<1>1. CASE PowerOn
  BY <1>1, BlockFacts DEF PowerOn, flashVars, countVars, ghostVars, lossVars
<1>2. CASE ReadValid
  <2>1. ram' \in [Blocks -> Contents]
    BY <1>2, LoadedFacts DEF ReadValid
  <2>2. at' \in Blocks /\ mode' \in {"off", "read", "key", "reset", "run"}
    BY <1>2, NextBlockFacts DEF ReadValid, bootVars
  <2>3. /\ flash' \in [Blocks -> Contents \cup {Torn}] /\ write' \in Blocks \cup {0}
        /\ image' \in Contents /\ stored' \in [Blocks -> Versions]
    BY <1>2, BlockFacts DEF ReadValid, StartWrite, NoWrite, flashVars
  <2>4. pending' \subseteq Blocks /\ unbacked' \in BOOLEAN
    BY <1>2, BlockFacts DEF ReadValid
  <2> QED BY <1>2, <2>1, <2>2, <2>3, <2>4 DEF ReadValid, countVars
<1>3. CASE ReadTorn
  <2>1. ram' \in [Blocks -> Contents]
    BY <1>3, DefaultType DEF ReadTorn
  <2>2. /\ flash' \in [Blocks -> Contents \cup {Torn}] /\ write' \in Blocks \cup {0}
        /\ image' \in Contents /\ stored' \in [Blocks -> Versions]
    BY <1>3, DefaultType DEF ReadTorn, StartWrite
  <2> QED BY <1>3, <2>1, <2>2 DEF ReadTorn, countVars, bootVars
<1>4. CASE StartApplication
  BY <1>4 DEF StartApplication, flashVars, countVars, ghostVars, lossVars
<1>5. CASE FactoryReset
  BY <1>5, BlockFacts DEF FactoryReset, flashVars
<1>6. CASE ResetBlock
  <2>1. ram' \in [Blocks -> Contents]
    BY <1>6, DefaultType DEF ResetBlock
  <2>2. /\ flash' \in [Blocks -> Contents \cup {Torn}] /\ write' \in Blocks \cup {0}
        /\ image' \in Contents /\ stored' \in [Blocks -> Versions]
    BY <1>6, DefaultType DEF ResetBlock, StartWrite
  <2> QED BY <1>6, <2>1, <2>2 DEF ResetBlock, countVars, bootVars
<1>7. CASE EndReset
  BY <1>7 DEF EndReset, flashVars, countVars, ghostVars, lossVars
<1>8. CASE Program
  <2>1. image.own \in Versions
    BY ContentsFacts
  <2>2. at' \in Blocks /\ mode' \in {"off", "read", "key", "reset", "run"}
    BY <1>8, NextBlockFacts DEF Program, bootVars
  <2> QED BY <1>8, <2>1, <2>2 DEF Program, countVars, ghostVars, lossVars
<1>9. ASSUME NEW k \in Blocks, Configure(k) PROVE TypeOK'
  <2>1. Version \in Versions /\ changes' \in Nat
    BY <1>9, BoundAssumption DEF Configure, Command, Version, Versions
  <2>2. ram' \in [Blocks -> Contents]
    BY <1>9, <2>1, ConfigureFacts
  <2> QED BY <1>9, <2>1, <2>2 DEF Configure, Command, flashVars, bootVars, ghostVars, lossVars
<1>10. ASSUME NEW k \in Blocks, Save(k) PROVE TypeOK'
  BY <1>10 DEF Save, StartWrite, bootVars, countVars
<1>11. CASE ConfigureType
  <2>1. Version \in Versions /\ changes' \in Nat
    BY <1>11, BoundAssumption DEF ConfigureType, Command, Version, Versions
  <2>2. ram' \in [Blocks -> Contents]
    BY <1>11, <2>1 DEF ConfigureType, Contents
  <2> QED BY <1>11, <2>1, <2>2, BlockFacts
          DEF ConfigureType, Command, flashVars, bootVars, lossVars
<1>12. ASSUME NEW p \in Points, Calibrate(p) PROVE TypeOK'
  <2>1. ram' \in [Blocks -> Contents]
    BY <1>12, CalibrateFacts
  <2>2. changes' \in Nat
    BY <1>12 DEF Calibrate, Command
  <2> QED BY <1>12, <2>1, <2>2, BlockFacts
          DEF Calibrate, Command, flashVars, bootVars, lossVars
<1>13. CASE Crash
  <2>1. Fresh(0) \in Contents
    BY ContentsFacts
  <2> QED BY <1>13, <2>1 DEF Crash
<1>14. CASE UNCHANGED vars
  BY <1>14 DEF vars, flashVars, bootVars, countVars, lossVars, ghostVars
<1>15. CASE FirstPage
  BY <1>15, FirstPageFacts DEF FirstPage, countVars, ghostVars, lossVars
<1> QED BY <1>1, <1>2, <1>3, <1>4, <1>5, <1>6, <1>7, <1>8, <1>9, <1>10, <1>11, <1>12,
           <1>13, <1>14, <1>15 DEF Next, Boot, Application, Commands

-----------------------------------------------------------------------------
LEMMA ConfigureTypeFacts ==
    ASSUME TypeOK, ConfigureType
    PROVE  /\ ram'[General].own = ram[General].own
           /\ ram'[General].rest = ram[General].rest
           /\ ram'[General].ai = [ram[General].ai EXCEPT !["type"] = Version]
           /\ \A j \in Blocks : j # General => ram'[j] = ram[j]
<1>1. Version \in Versions
  BY BoundAssumption DEF ConfigureType, Command, Version, Versions, TypeOK
<1>2. ram' = With(ram, General, "type", Version)
  BY DEF ConfigureType, With
<1>3. "type" \in Fields /\ ram \in [Blocks -> Contents]
  BY DEF Fields, TypeOK
<1> QED BY <1>1, <1>2, <1>3, SetField, BlockFacts

LEMMA ShapeHolds == Init => Shape
BY DEF Init, Shape, Known

LEMMA ShapeKeeps == ASSUME TypeOK, Shape, [Next]_vars PROVE Shape'
<1> USE DEF Shape, Known, TypeOK
<1>1. CASE PowerOn
  BY <1>1, BlockFacts DEF PowerOn, flashVars
<1>2. CASE ReadValid
  <2>1. CASE at = Ota
    BY <1>2, <2>1, BlockFacts DEF ReadValid, StartWrite, bootVars
  <2>2. CASE at # Ota
    <3>1. NextBlock /\ UNCHANGED <<flash, write>> /\ write = 0 /\ flash[at] # Torn /\ mode = "read"
      BY <1>2, <2>2 DEF ReadValid, NoWrite, flashVars
    <3>2. at' = at + 1 /\ mode' = "read"
      BY <2>2, <3>1, NextBlockFacts, BlockFacts
    <3> QED BY <3>1, <3>2, BlockFacts
  <2> QED BY <2>1, <2>2
<1>3. CASE ReadTorn
  BY <1>3, BlockFacts DEF ReadTorn, StartWrite, bootVars
<1>4. CASE StartApplication
  BY <1>4 DEF StartApplication, flashVars
<1>5. CASE FactoryReset
  BY <1>5, BlockFacts DEF FactoryReset, flashVars
<1>6. CASE ResetBlock
  BY <1>6, BlockFacts DEF ResetBlock, StartWrite, bootVars
<1>7. CASE EndReset
  BY <1>7 DEF EndReset, flashVars
<1>8. CASE Program
  <2>1. /\ flash' = [flash EXCEPT ![write] = image] /\ write' = 0 /\ write \in Blocks
        /\ image # Torn
    BY <1>8, ContentsFacts DEF Program
  <2>2. \A k \in Blocks : flash'[k] # Torn <=> k = write \/ flash[k] # Torn
    BY <2>1
  <2>3. CASE mode = "run"
    BY <1>8, <2>1, <2>2, <2>3 DEF Program, bootVars
  <2>4. CASE mode # "run"
    <3>1. NextBlock /\ write = at /\ mode \in {"read", "reset"}
      BY <1>8, <2>1, <2>4, BlockFacts DEF Program
    <3>2. CASE mode = "read"
      <4>1. \A k \in Blocks : k < at \/ k = at => flash'[k] # Torn
        BY <2>2, <3>1, <3>2
      <4> QED BY <2>1, <3>1, <3>2, <4>1, NextBlockFacts, BlockFacts
    <3>3. CASE mode = "reset"
      <4>1. \A k \in Blocks : flash'[k] # Torn
        BY <2>2, <3>1, <3>3
      <4> QED BY <2>1, <3>1, <3>3, <4>1, NextBlockFacts, BlockFacts
    <3> QED BY <3>1, <3>2, <3>3
  <2> QED BY <2>3, <2>4
<1>9. ASSUME NEW k \in Blocks, Configure(k) PROVE Shape'
  BY <1>9 DEF Configure, Command, flashVars, bootVars
<1>10. ASSUME NEW k \in Blocks, Save(k) PROVE Shape'
  BY <1>10, BlockFacts DEF Save, StartWrite, bootVars
<1>11. CASE ConfigureType
  BY <1>11 DEF ConfigureType, Command, flashVars, bootVars
<1>12. ASSUME NEW p \in Points, Calibrate(p) PROVE Shape'
  BY <1>12 DEF Calibrate, Command, flashVars, bootVars
<1>13. CASE Crash
  BY <1>13 DEF Crash
<1>14. CASE UNCHANGED vars
  BY <1>14 DEF vars, flashVars, bootVars
<1>15. CASE FirstPage
  BY <1>15, FirstPageFacts
<1> QED BY <1>1, <1>2, <1>3, <1>4, <1>5, <1>6, <1>7, <1>8, <1>9, <1>10, <1>11, <1>12,
           <1>13, <1>14, <1>15 DEF Next, Boot, Application, Commands
-----------------------------------------------------------------------------
LEMMA RecentHolds == Init => Recent
BY ContentsFacts DEF Init, Recent, Fresh

LEMMA DefaultOwn ==
    ASSUME ram \in [Blocks -> Contents]
    PROVE  \A k \in Blocks : Default(k).own = 0 /\ Default(k) # Torn
BY DefaultType, ContentsFacts

LEMMA RecentKeeps == ASSUME TypeOK, Recent, [Next]_vars PROVE Recent'
<1>0. /\ changes \in Nat /\ write \in Blocks \cup {0} /\ at \in Blocks
      /\ ram \in [Blocks -> Contents] /\ stored \in [Blocks -> Versions]
      /\ flash \in [Blocks -> Contents \cup {Torn}] /\ image \in Contents
      /\ \A k \in Blocks : ram[k].own \in Int /\ stored[k] \in Int
      /\ image.own \in Int
  BY ContentsFacts DEF TypeOK, Versions
<1>1. CASE PowerOn
  BY <1>1 DEF PowerOn, Recent, flashVars, countVars
<1>2. CASE ReadValid
  <2>1. flash[at] # Torn /\ changes' = changes /\ ram' = Loaded(at) /\ UNCHANGED stored
    BY <1>2 DEF ReadValid, StartWrite, NoWrite, flashVars, countVars
  <2>2. \A k \in Blocks : ram'[k].own = IF k = at THEN flash[at].own ELSE ram[k].own
    BY <1>0, <2>1, LoadedFacts
  <2>3. \/ flash' = flash /\ image' = image
        \/ flash' = [flash EXCEPT ![at] = Torn] /\ image' = flash[at]
    BY <1>2 DEF ReadValid, StartWrite, NoWrite, flashVars
  <2> QED BY <1>0, <2>1, <2>2, <2>3 DEF Recent
<1>3. CASE ReadTorn
  <2>1. /\ ram' = [ram EXCEPT ![at] = Default(at)] /\ image' = Default(at)
        /\ flash' = [flash EXCEPT ![at] = Torn] /\ UNCHANGED <<stored, changes>>
    BY <1>3 DEF ReadTorn, StartWrite, countVars
  <2> QED BY <1>0, <2>1, DefaultOwn DEF Recent
<1>4. CASE StartApplication
  BY <1>4 DEF StartApplication, Recent, flashVars, countVars
<1>5. CASE FactoryReset
  BY <1>5 DEF FactoryReset, Recent, flashVars
<1>6. CASE ResetBlock
  <2>1. /\ ram' = [ram EXCEPT ![at] = Default(at)] /\ image' = Default(at)
        /\ flash' = [flash EXCEPT ![at] = Torn] /\ UNCHANGED <<stored, changes>>
    BY <1>6 DEF ResetBlock, StartWrite, countVars
  <2> QED BY <1>0, <2>1, DefaultOwn DEF Recent
<1>7. CASE EndReset
  BY <1>7 DEF EndReset, Recent, flashVars, countVars
<1>8. CASE Program
  BY <1>0, <1>8 DEF Program, Recent, countVars
<1>9. ASSUME NEW k \in Blocks, Configure(k) PROVE Recent'
  <2>1. /\ changes' = changes + 1 /\ Version = changes + 2
        /\ UNCHANGED <<flash, image, stored>>
    BY <1>9 DEF Configure, Command, Version, flashVars
  <2>2. \A j \in Blocks : ram'[j].own = IF j = k THEN Version ELSE ram[j].own
    BY <1>9, ConfigureFacts
  <2>3. \A n \in Int : n <= changes + 1 => n <= changes + 2
    BY <1>0
  <2>4. \A j \in Blocks : flash[j] # Torn => flash[j].own \in Int
    BY <1>0, ContentsFacts DEF Versions
  <2> QED BY <1>0, <2>1, <2>2, <2>3, <2>4 DEF Recent
<1>10. ASSUME NEW k \in Blocks, Save(k) PROVE Recent'
  BY <1>0, <1>10 DEF Save, StartWrite, Recent, countVars
<1>11. CASE ConfigureType
  <2>1. changes' = changes + 1 /\ UNCHANGED <<flash, image, stored>>
    BY <1>11 DEF ConfigureType, Command, flashVars
  <2>2. \A j \in Blocks : ram'[j].own = ram[j].own
    BY <1>11, ConfigureTypeFacts
  <2>4. \A j \in Blocks : flash[j] # Torn => flash[j].own \in Int
    BY <1>0, ContentsFacts DEF Versions
  <2> QED BY <1>0, <2>1, <2>2, <2>4 DEF Recent
<1>12. ASSUME NEW p \in Points, Calibrate(p) PROVE Recent'
  <2>1. changes' = changes + 1 /\ UNCHANGED <<flash, image, stored>>
    BY <1>12 DEF Calibrate, Command, flashVars
  <2>2. \A j \in Blocks : ram'[j].own = ram[j].own
    BY <1>12, CalibrateFacts
  <2>4. \A j \in Blocks : flash[j] # Torn => flash[j].own \in Int
    BY <1>0, ContentsFacts DEF Versions
  <2> QED BY <1>0, <2>1, <2>2, <2>4 DEF Recent
<1>13. CASE Crash
  BY <1>0, <1>13 DEF Crash, Recent, Fresh
<1>14. CASE UNCHANGED vars
  BY <1>14 DEF vars, Recent, flashVars, countVars
<1>15. CASE FirstPage
  BY <1>0, <1>15, FirstPageFacts DEF Recent
<1> QED BY <1>1, <1>2, <1>3, <1>4, <1>5, <1>6, <1>7, <1>8, <1>9, <1>10, <1>11, <1>12,
           <1>13, <1>14, <1>15 DEF Next, Boot, Application, Commands

-----------------------------------------------------------------------------
\* What the steps of a boot do, block by block.
LEMMA ReadValidFacts ==
    ASSUME TypeOK, ReadValid
    PROVE  /\ mode = "read" /\ write = 0 /\ flash[at] # Torn /\ at \in Blocks
           /\ \/ /\ at = Ota /\ flash' = [flash EXCEPT ![at] = Torn] /\ write' = at
                 /\ image' = flash[at] /\ stored' = stored /\ at' = at /\ mode' = mode
              \/ /\ at < NBlocks /\ at' = at + 1 /\ mode' = mode
                 /\ UNCHANGED <<flash, write, image, stored>>
           /\ ram'[at] = flash[at]
           /\ \A j \in Blocks : j # at /\ (j # General \/ at # Cal) => ram'[j] = ram[j]
           /\ at = Cal => /\ ram'[General].own = ram[General].own
                          /\ ram'[General].ai = flash[Cal].ai
           /\ \A k \in Blocks : Known(k)' <=> k = at \/ Known(k)
<1>1. mode = "read" /\ write = 0 /\ flash[at] # Torn /\ at \in Blocks /\ ram' = Loaded(at)
  BY DEF ReadValid, TypeOK
<1>2. \/ /\ at = Ota /\ flash' = [flash EXCEPT ![at] = Torn] /\ write' = at
         /\ image' = flash[at] /\ stored' = stored /\ at' = at /\ mode' = mode
      \/ /\ at < NBlocks /\ at' = at + 1 /\ mode' = mode
         /\ UNCHANGED <<flash, write, image, stored>>
  <2>1. CASE at = Ota
    BY <2>1 DEF ReadValid, StartWrite, bootVars
  <2>2. CASE at # Ota
    BY <2>2, NextBlockFacts, BlockFacts DEF ReadValid, NoWrite, flashVars
  <2> QED BY <2>1, <2>2
<1>3. \A k \in Blocks : Known(k)' <=> k = at \/ Known(k)
  BY <1>1, <1>2, BlockFacts DEF Known
<1> QED BY <1>1, <1>2, <1>3, LoadedFacts

LEMMA ReadTornFacts ==
    ASSUME TypeOK, ReadTorn
    PROVE  /\ mode = "read" /\ write = 0 /\ flash[at] = Torn /\ at \in Blocks
           /\ flash' = [flash EXCEPT ![at] = Torn] /\ write' = at
           /\ image' = Default(at) /\ stored' = stored /\ at' = at /\ mode' = mode
           /\ ram' = [ram EXCEPT ![at] = Default(at)]
           /\ \A k \in Blocks : Known(k)' <=> k = at \/ Known(k)
<1>1. /\ mode = "read" /\ write = 0 /\ flash[at] = Torn /\ at \in Blocks
      /\ flash' = [flash EXCEPT ![at] = Torn] /\ write' = at
      /\ image' = Default(at) /\ stored' = stored /\ at' = at /\ mode' = mode
      /\ ram' = [ram EXCEPT ![at] = Default(at)]
  BY DEF ReadTorn, StartWrite, bootVars, TypeOK
<1>2. \A k \in Blocks : Known(k)' <=> k = at \/ Known(k)
  BY <1>1, BlockFacts DEF Known
<1> QED BY <1>1, <1>2

LEMMA ResetBlockFacts ==
    ASSUME TypeOK, ResetBlock
    PROVE  /\ mode = "reset" /\ write = 0 /\ at \in Blocks /\ at # Ota
           /\ flash' = [flash EXCEPT ![at] = Torn] /\ write' = at
           /\ image' = Default(at) /\ stored' = stored /\ at' = at /\ mode' = mode
           /\ ram' = [ram EXCEPT ![at] = Default(at)]
           /\ hit' = hit \cup {at}
           /\ \A k \in Blocks : Known(k)' /\ Known(k)
BY DEF ResetBlock, StartWrite, bootVars, TypeOK, Known

LEMMA ProgramFacts ==
    ASSUME TypeOK, Shape, Program
    PROVE  /\ write \in Blocks /\ write' = 0 /\ ram' = ram /\ image \in Contents
           /\ flash' = [flash EXCEPT ![write] = image]
           /\ stored' = [stored EXCEPT ![write] = image.own]
           /\ \/ mode = "run" /\ mode' = mode /\ at' = at
              \/ mode \in {"read", "reset"} /\ write = at /\ at < NBlocks
                 /\ at' = at + 1 /\ mode' = mode
              \/ mode = "read" /\ write = at /\ at = NBlocks /\ at' = at /\ mode' = "key"
           /\ \A k \in Blocks : Known(k)' <=> Known(k)
<1>1. /\ write \in Blocks /\ write' = 0 /\ ram' = ram /\ image \in Contents
      /\ flash' = [flash EXCEPT ![write] = image]
      /\ stored' = [stored EXCEPT ![write] = image.own]
  BY DEF Program, TypeOK
<1>2. \/ mode = "run" /\ mode' = mode /\ at' = at
      \/ mode \in {"read", "reset"} /\ write = at /\ at < NBlocks
         /\ at' = at + 1 /\ mode' = mode
      \/ mode = "read" /\ write = at /\ at = NBlocks /\ at' = at /\ mode' = "key"
  <2>1. CASE mode = "run"
    BY <2>1 DEF Program, bootVars
  <2>2. CASE mode # "run"
    <3>1. /\ NextBlock /\ write = at /\ mode \in {"read", "reset"}
          /\ mode = "reset" => at # Ota
      BY <1>1, <2>2, BlockFacts DEF Program, Shape, TypeOK
    <3> QED BY <3>1, NextBlockFacts, BlockFacts
  <2> QED BY <2>1, <2>2
<1>3. \A k \in Blocks : Known(k)' <=> Known(k)
  BY <1>1, <1>2, BlockFacts DEF Known
<1> QED BY <1>1, <1>2, <1>3

-----------------------------------------------------------------------------
LEMMA FaithfulHolds == Init => Faithful
BY ContentsFacts, BlockFacts DEF Init, Faithful, Fresh, Known

LEMMA FaithfulKeeps ==
    ASSUME TypeOK, Shape, Recent, Faithful, [Next]_vars
    PROVE  Faithful'
<1>0. /\ changes \in Nat /\ write \in Blocks \cup {0} /\ 0 \notin Blocks
      /\ ram \in [Blocks -> Contents] /\ stored \in [Blocks -> Versions]
      /\ flash \in [Blocks -> Contents \cup {Torn}] /\ image \in Contents
      /\ \A k \in Blocks : ram[k].own \in Int /\ stored[k] \in Int
      /\ image.own \in Int
  BY ContentsFacts, BlockFacts DEF TypeOK, Versions
<1>1. CASE PowerOn
  <2>1. write = 0 /\ mode' = "read" /\ at' = 1 /\ UNCHANGED <<flash, write, stored, ram, hit>>
    BY <1>1 DEF PowerOn, Shape, flashVars, ghostVars, lossVars
  <2>2. \A k \in Blocks : ~Known(k)'
    BY <1>0, <2>1, BlockFacts DEF Known
  <2> QED BY <1>0, <2>1, <2>2 DEF Faithful
<1>2. CASE ReadValid
  <2>1. hit' = hit
    BY <1>2 DEF ReadValid
  <2>2. \A k \in Blocks : ram'[k].own = IF k = at THEN flash[at].own ELSE ram[k].own
    BY <1>0, <1>2, ReadValidFacts
  <2>3. \A k \in Blocks \ hit : flash[k] # Torn /\ flash[k].own = stored[k]
    BY <1>0, <1>2, ReadValidFacts DEF Faithful
  <2>4. \A k \in Blocks \ hit : Known(k)' => ram'[k].own >= stored[k]
    BY <1>0, <1>2, <2>2, <2>3, ReadValidFacts DEF Faithful
  <2>5. /\ stored' = stored
        /\ \A k \in Blocks : k # write' => flash'[k] = flash[k]
        /\ \A k \in Blocks : k = write' => image'.own = ram'[k].own
    BY <1>0, <1>2, <2>2, ReadValidFacts
  <2> QED BY <1>0, <2>1, <2>2, <2>3, <2>4, <2>5 DEF Faithful
<1>3. CASE ReadTorn
  <2>1. hit' = hit /\ at \in hit
    BY <1>0, <1>3, ReadTornFacts DEF ReadTorn, Faithful
  <2> QED BY <1>0, <1>3, <2>1, ReadTornFacts DEF Faithful
<1>4. CASE StartApplication
  BY <1>4 DEF StartApplication, Faithful, Known, flashVars, ghostVars, lossVars
<1>5. CASE FactoryReset
  BY <1>5 DEF FactoryReset, Faithful, Known, flashVars
<1>6. CASE ResetBlock
  BY <1>0, <1>6, ResetBlockFacts DEF Faithful
<1>7. CASE EndReset
  BY <1>7 DEF EndReset, Faithful, Known, flashVars, ghostVars, lossVars
<1>8. CASE Program
  <2>1. hit' = hit
    BY <1>8 DEF Program, ghostVars, lossVars
  <2>2. image # Torn
    BY <1>0, ContentsFacts
  <2>3. \A k \in Blocks : Known(k)' <=> Known(k)
    BY <1>8, ProgramFacts
  <2>4. /\ write \in Blocks /\ write' = 0 /\ ram' = ram
        /\ flash' = [flash EXCEPT ![write] = image]
        /\ stored' = [stored EXCEPT ![write] = image.own]
    BY <1>8, ProgramFacts
  <2> QED BY <1>0, <2>1, <2>2, <2>3, <2>4 DEF Faithful
<1>9. ASSUME NEW k \in Blocks, Configure(k) PROVE Faithful'
  <2>1. /\ Version = changes + 2 /\ mode = "run"
        /\ UNCHANGED <<flash, write, image, stored, mode, at, hit>>
    BY <1>9 DEF Configure, Command, Version, flashVars, bootVars, ghostVars, lossVars
  <2>2. \A j \in Blocks : ram'[j].own = IF j = k THEN Version ELSE ram[j].own
    BY <1>9, ConfigureFacts
  <2>3. \A j \in Blocks : stored[j] <= changes + 1 /\ image.own <= changes + 1
    BY DEF Recent
  <2>4. \A j \in Blocks : Known(j) /\ Known(j)'
    BY <2>1 DEF Known
  <2>5. \A j \in Blocks \ hit : ram'[j].own >= stored[j] /\ (j = write => ram'[j].own >= image.own)
    BY <1>0, <2>1, <2>2, <2>3, <2>4 DEF Faithful
  <2> QED BY <2>1, <2>5 DEF Faithful
<1>10. ASSUME NEW k \in Blocks, Save(k) PROVE Faithful'
  <2>1. /\ mode = "run" /\ write = 0 /\ flash' = [flash EXCEPT ![k] = Torn]
        /\ write' = k /\ image' = ram[k] /\ UNCHANGED <<stored, ram, mode, at, hit>>
    BY <1>10 DEF Save, StartWrite, bootVars
  <2> QED BY <1>0, <2>1 DEF Faithful, Known
<1>11. CASE ConfigureType
  <2>1. mode = "run" /\ UNCHANGED <<flash, write, image, stored, mode, at, hit>>
    BY <1>11 DEF ConfigureType, Command, flashVars, bootVars, lossVars
  <2>2. \A j \in Blocks : ram'[j].own = ram[j].own
    BY <1>11, ConfigureTypeFacts
  <2> QED BY <2>1, <2>2 DEF Faithful, Known
<1>12. ASSUME NEW p \in Points, Calibrate(p) PROVE Faithful'
  <2>1. mode = "run" /\ UNCHANGED <<flash, write, image, stored, mode, at, hit>>
    BY <1>12 DEF Calibrate, Command, flashVars, bootVars, lossVars
  <2>2. \A j \in Blocks : ram'[j].own = ram[j].own
    BY <1>12, CalibrateFacts
  <2> QED BY <2>1, <2>2 DEF Faithful, Known
<1>13. CASE Crash
  BY <1>0, <1>13 DEF Crash, Faithful, Known
<1>14. CASE UNCHANGED vars
  BY <1>14 DEF vars, Faithful, Known, flashVars, bootVars, ghostVars, lossVars
<1>15. CASE FirstPage
  BY <1>0, <1>15, FirstPageFacts DEF Faithful, Known
<1> QED BY <1>1, <1>2, <1>3, <1>4, <1>5, <1>6, <1>7, <1>8, <1>9, <1>10, <1>11, <1>12,
           <1>13, <1>14, <1>15 DEF Next, Boot, Application, Commands

-----------------------------------------------------------------------------
LEMMA SetFacts ==
    /\ \A c, d \in Contents : c.ai = d.ai => (Set(c) <=> Set(d))
    /\ ~Set(Fresh(0)) /\ Set(Fresh(1))
BY DEF Set, Fresh, Fields

LEMMA BackedHolds == Init => Backed
BY SetFacts, BlockFacts, ContentsFacts DEF Init, Backed, Known, Torn, Fresh

LEMMA BackedKeeps ==
    ASSUME TypeOK, Shape, Backed, [Next]_vars
    PROVE  Backed'
<1>0. /\ write \in Blocks \cup {0} /\ 0 \notin Blocks /\ at \in Blocks
      /\ ram \in [Blocks -> Contents] /\ image \in Contents
      /\ flash \in [Blocks -> Contents \cup {Torn}]
      /\ General \in Blocks /\ Cal \in Blocks /\ Ota \in Blocks
      /\ General = 1 /\ Cal = 2 /\ Ota >= 3 /\ Ota = NBlocks
      /\ \A k \in Blocks : k \in Int /\ k >= 1
  BY BlockFacts DEF TypeOK
<1>1. CASE PowerOn
  <2>1. /\ write = 0 /\ mode' = "read" /\ at' = 1
        /\ UNCHANGED <<flash, write, image, ram, exposed>>
    BY <1>1 DEF PowerOn, Shape, flashVars, ghostVars, lossVars
  <2>2. ~Known(Cal)' /\ at' # Cal
    BY <1>0, <2>1 DEF Known
  <2> QED BY <1>0, <2>1, <2>2 DEF Backed
<1>2. CASE ReadValid
  <2> SUFFICES ASSUME ~exposed PROVE Backed'
    BY <1>2 DEF ReadValid, Backed
  <2>1. exposed' = exposed /\ flash[at] # Torn /\ mode = "read" /\ mode' # "reset" /\ write = 0
    BY <1>0, <1>2, ReadValidFacts DEF ReadValid
  <2>2. write' # Cal /\ flash'[Cal] = flash[Cal] /\ flash'[General] = flash[General]
    BY <1>0, <1>2, <2>1, ReadValidFacts
  <2>3. CASE at = General
    <3>1. ~Known(Cal)' /\ ram'[General] = flash[General]
      BY <1>0, <1>2, <2>1, <2>3, ReadValidFacts DEF Known
    <3> QED BY <1>0, <2>1, <2>2, <3>1 DEF Backed
  <2>4. CASE at = Cal
    <3>1. Set(flash[Cal]) /\ flash[Cal] \in Contents
      BY <1>0, <2>1, <2>4 DEF Backed
    <3>2. ram'[Cal] = flash[Cal] /\ ram'[General].ai = flash[Cal].ai
      BY <1>0, <1>2, <2>4, ReadValidFacts
    <3>3. ram'[General] \in Contents
      BY <1>2, TypeKeeps, BlockFacts DEF TypeOK
    <3>4. Set(ram'[General]) /\ Set(ram'[Cal])
      BY <3>1, <3>2, <3>3, SetFacts
    <3> QED BY <1>0, <2>1, <2>2, <2>4, <3>4 DEF Backed
  <2>5. CASE at # General /\ at # Cal
    <3>1. ram'[General] = ram[General] /\ ram'[Cal] = ram[Cal] /\ (Known(Cal)' <=> Known(Cal))
      BY <1>0, <1>2, <2>5, ReadValidFacts
    <3>2. at' # Cal
      BY <1>0, <1>2, <2>5, ReadValidFacts
    <3> QED BY <1>0, <2>1, <2>2, <3>1, <3>2 DEF Backed
  <2> QED BY <2>3, <2>4, <2>5
<1>3. CASE ReadTorn
  <2> SUFFICES ASSUME ~exposed PROVE Backed'
    BY <1>3 DEF ReadTorn, Backed
  <2>1. /\ exposed' = exposed /\ flash[at] = Torn /\ mode = "read" /\ mode' = mode
        /\ write = 0 /\ write' = at /\ at' = at /\ image' = Default(at)
        /\ flash' = [flash EXCEPT ![at] = Torn] /\ ram' = [ram EXCEPT ![at] = Default(at)]
        /\ (Known(Cal)' <=> at = Cal \/ Known(Cal))
    BY <1>0, <1>3, ReadTornFacts DEF ReadTorn
  <2>3. CASE at = General
    <3>1. ~Known(Cal)' /\ flash[Cal] # Torn
      BY <1>0, <2>1, <2>3 DEF Known, Backed
    <3> QED BY <1>0, <2>1, <2>3, <3>1 DEF Backed
  <2>4. CASE at = Cal
    <3>1. Set(ram[General]) /\ flash[General] # Torn /\ Set(flash[General])
      BY <1>0, <2>1, <2>4 DEF Backed
    <3>2. Default(Cal).ai = ram[General].ai /\ Default(Cal) \in Contents /\ ram[General] \in Contents
      BY <1>0, DefaultType DEF Default
    <3>3. Set(Default(Cal))
      BY <3>1, <3>2, SetFacts
    <3> QED BY <1>0, <2>1, <2>4, <3>1, <3>3 DEF Backed
  <2>5. CASE at # General /\ at # Cal
    BY <1>0, <2>1, <2>5 DEF Backed
  <2> QED BY <2>3, <2>4, <2>5
<1>4. CASE StartApplication
  BY <1>4 DEF StartApplication, Backed, Known, flashVars, ghostVars, lossVars
<1>5. CASE FactoryReset
  BY <1>5 DEF FactoryReset, Backed
<1>6. CASE ResetBlock
  BY <1>6 DEF ResetBlock, Backed
<1>7. CASE EndReset
  BY <1>7 DEF EndReset, Backed, ghostVars, lossVars
<1>8. CASE Program
  <2> SUFFICES ASSUME ~exposed PROVE Backed'
    BY <1>8 DEF Program, Backed, ghostVars, lossVars
  <2>1. exposed' = exposed
    BY <1>8 DEF Program, ghostVars, lossVars
  <2>2. /\ write \in Blocks /\ write' = 0 /\ ram' = ram /\ image # Torn
        /\ flash' = [flash EXCEPT ![write] = image] 
        /\ (write \in {General, Cal} => flash[write] = Torn)
        /\ (Known(Cal)' <=> Known(Cal))
    BY <1>0, <1>8, ProgramFacts, ContentsFacts, BlockFacts DEF Shape
  <2>3. mode # "reset" /\ mode' # "reset"
    BY <1>8, ProgramFacts DEF Backed
  <2>4. mode' = "read" /\ at' = Cal => write = General
    BY <1>0, <1>8, <2>3, ProgramFacts, BlockFacts
  <2>5. CASE write = Cal
    BY <1>0, <2>1, <2>2, <2>3, <2>5 DEF Backed
  <2>6. CASE write = General
    <3>1. flash[Cal] # Torn /\ flash'[Cal] = flash[Cal]
      BY <1>0, <2>2, <2>6 DEF Backed
    <3> QED BY <1>0, <2>1, <2>2, <2>3, <3>1 DEF Backed
  <2>7. CASE write # Cal /\ write # General
    BY <1>0, <2>1, <2>2, <2>3, <2>4, <2>7 DEF Backed
  <2> QED BY <2>5, <2>6, <2>7
<1>9. ASSUME NEW k \in Blocks, Configure(k) PROVE Backed'
  <2>1. mode = "run" /\ UNCHANGED <<flash, write, image, mode, at, exposed>>
    BY <1>9 DEF Configure, Command, flashVars, bootVars, ghostVars, lossVars
  <2>2. /\ ram'[General].ai = ram[General].ai /\ ram'[Cal].ai = ram[Cal].ai
    BY <1>0, <1>9, ConfigureFacts
  <2> QED BY <2>1, <2>2 DEF Backed, Known, Set
<1>10. ASSUME NEW k \in Blocks, Save(k) PROVE Backed'
  <2>1. /\ mode = "run" /\ write = 0 /\ flash' = [flash EXCEPT ![k] = Torn]
        /\ write' = k /\ image' = ram[k] /\ UNCHANGED <<ram, mode, at, exposed>>
    BY <1>10 DEF Save, StartWrite, bootVars
  <2>2. flash[Cal] # Torn /\ flash[General] # Torn /\ Known(Cal) /\ Known(Cal)'
    BY <1>0, <2>1 DEF Shape, Known
  <2> QED BY <1>0, <2>1, <2>2 DEF Backed
<1>11. CASE ConfigureType
  <2>1. mode = "run" /\ UNCHANGED <<flash, write, image, mode, at, exposed>>
    BY <1>11 DEF ConfigureType, Command, flashVars, bootVars, lossVars
  <2>2. /\ ram'[General].ai = [ram[General].ai EXCEPT !["type"] = Version]
        /\ ram'[Cal] = ram[Cal]
    BY <1>0, <1>11, ConfigureTypeFacts
  <2>3. Version # 0 /\ ram[General].ai \in [Fields -> Versions]
    BY <1>0, ContentsFacts DEF Version, TypeOK
  <2> QED BY <2>1, <2>2, <2>3 DEF Backed, Known, Set
<1>12. ASSUME NEW p \in Points, Calibrate(p) PROVE Backed'
  <2>1. mode = "run" /\ UNCHANGED <<flash, write, image, mode, at, exposed>>
    BY <1>12 DEF Calibrate, Command, flashVars, bootVars, lossVars
  <2>2. /\ ram'[General].ai = [ram[General].ai EXCEPT !["type"] = Version, ![p] = Version]
        /\ ram'[Cal].ai = [ram[Cal].ai EXCEPT !["type"] = Version, ![CalField(p)] = Version]
    BY <1>12, CalibrateFacts
  <2>3. /\ Version # 0 /\ ram[General].ai \in [Fields -> Versions]
        /\ ram[Cal].ai \in [Fields -> Versions]
    BY <1>0, ContentsFacts DEF Version, TypeOK
  <2> QED BY <2>1, <2>2, <2>3 DEF Backed, Known, Set
<1>13. CASE Crash
  <2>1. ~Known(Cal)'
    BY <1>13 DEF Crash, Known
  <2>2. ~exposed' => ~exposed /\ (write = Cal => HasSettings(General))
    BY <1>13 DEF Crash
  <2>3. HasSettings(General) => flash[General] # Torn /\ Set(flash[General])
    BY DEF HasSettings, Set
  <2>4. UNCHANGED flash /\ write' = 0 /\ mode' = "off"
    BY <1>13 DEF Crash
  <2> QED BY <1>0, <2>1, <2>2, <2>3, <2>4 DEF Backed
<1>14. CASE UNCHANGED vars
  BY <1>14 DEF vars, Backed, Known, flashVars, bootVars, ghostVars, lossVars
<1>15. CASE FirstPage
  BY <1>0, <1>15, FirstPageFacts DEF Backed, Known
<1> QED BY <1>1, <1>2, <1>3, <1>4, <1>5, <1>6, <1>7, <1>8, <1>9, <1>10, <1>11, <1>12,
           <1>13, <1>14, <1>15 DEF Next, Boot, Application, Commands

-----------------------------------------------------------------------------
LEMMA AgreedHolds == Init => Agreed
BY DEF Init, Agreed, Known

LEMMA AgreedKeeps ==
    ASSUME TypeOK, Shape, Agreed, [Next]_vars
    PROVE  Agreed'
<1>0. /\ write \in Blocks \cup {0} /\ 0 \notin Blocks /\ at \in Blocks
      /\ ram \in [Blocks -> Contents] /\ image \in Contents
      /\ flash \in [Blocks -> Contents \cup {Torn}]
      /\ General \in Blocks /\ Cal \in Blocks /\ Ota \in Blocks
      /\ General = 1 /\ Cal = 2 /\ Ota >= 3 /\ Ota = NBlocks
      /\ \A k \in Blocks : k \in Int /\ k >= 1
  BY BlockFacts DEF TypeOK
<1>1. CASE PowerOn
  <2>1. write = 0 /\ mode' = "read" /\ at' = 1 /\ write' = 0
    BY <1>1 DEF PowerOn, Shape, flashVars
  <2>2. ~Known(Cal)' /\ ~Known(General)'
    BY <1>0, <2>1 DEF Known
  <2> QED BY <2>1, <2>2 DEF Agreed
<1>2. CASE ReadValid
  <2>1. /\ mode = "read" /\ mode' \in {"read", "key"} /\ write = 0 /\ apart' = apart
        /\ write' # Cal /\ flash'[Cal] = flash[Cal] /\ flash[at] # Torn
        /\ (Known(Cal)' <=> at = Cal \/ Known(Cal))
        /\ (Known(General)' <=> at = General \/ Known(General))
        /\ pending \subseteq pending' /\ (at = General => General \in pending')
        /\ (at # General => unbacked' = unbacked)
    <3>1. /\ apart' = apart /\ pending \subseteq pending' /\ (at = General => General \in pending')
          /\ (at # General => unbacked' = unbacked)
      BY <1>2 DEF ReadValid
    <3>2. /\ mode = "read" /\ mode' \in {"read", "key"} /\ write = 0 /\ flash[at] # Torn
          /\ write' # Cal /\ flash'[Cal] = flash[Cal]
      BY <1>0, <1>2, ReadValidFacts
    <3>3. /\ (Known(Cal)' <=> at = Cal \/ Known(Cal))
          /\ (Known(General)' <=> at = General \/ Known(General))
      BY <1>0, <1>2, ReadValidFacts
    <3> QED BY <3>1, <3>2, <3>3
  <2>2. Known(General)' => unbacked' \/ General \in pending'
    BY <2>1 DEF Agreed
  <2>3. CASE at = Cal
    <3>1. ram'[Cal] = flash[Cal] /\ ram'[General].ai = flash[Cal].ai
      BY <1>0, <1>2, <2>3, ReadValidFacts
    <3> QED BY <2>1, <2>2, <2>3, <3>1 DEF Agreed, Synced
  <2>4. CASE at = General
    <3>1. ~Known(Cal)'
      BY <1>0, <2>1, <2>4 DEF Known
    <3> QED BY <2>1, <2>2, <3>1 DEF Agreed
  <2>5. CASE at # General /\ at # Cal
    <3>1. ram'[General] = ram[General] /\ ram'[Cal] = ram[Cal]
      BY <1>0, <1>2, <2>5, ReadValidFacts
    <3> QED BY <1>0, <2>1, <2>2, <2>5, <3>1 DEF Agreed, Synced
  <2> QED BY <2>3, <2>4, <2>5
<1>3. CASE ReadTorn
  <2>1. /\ mode = "read" /\ mode' = mode /\ write = 0 /\ write' = at /\ at' = at
        /\ image' = Default(at) /\ flash' = [flash EXCEPT ![at] = Torn]
        /\ ram' = [ram EXCEPT ![at] = Default(at)]
        /\ apart' = apart /\ pending' = pending
        /\ (Known(Cal)' <=> at = Cal \/ Known(Cal))
        /\ (Known(General)' <=> at = General \/ Known(General))
        /\ (unbacked' = IF at = General THEN TRUE ELSE unbacked)
    BY <1>0, <1>3, ReadTornFacts DEF ReadTorn
  <2>2. Known(General)' => unbacked' \/ General \in pending'
    BY <2>1 DEF Agreed
  <2>3. CASE at = Cal
    <3>1. ram'[Cal].ai = ram[General].ai /\ ram'[General] = ram[General] /\ image' = ram'[Cal]
      BY <1>0, <2>1, <2>3 DEF Default
    <3> QED BY <2>1, <2>2, <2>3, <3>1 DEF Agreed, Synced
  <2>4. CASE at = General
    <3>1. ~Known(Cal)'
      BY <1>0, <2>1, <2>4 DEF Known
    <3> QED BY <2>1, <2>2, <3>1 DEF Agreed
  <2>5. CASE at # General /\ at # Cal
    BY <1>0, <2>1, <2>2, <2>5 DEF Agreed, Synced
  <2> QED BY <2>3, <2>4, <2>5
<1>4. CASE StartApplication
  <2>1. mode = "key" /\ mode' = "run"
        /\ UNCHANGED <<flash, write, image, ram, pending, at, unbacked, apart>>
    BY <1>4 DEF StartApplication, flashVars, ghostVars, lossVars
  <2> QED BY <2>1 DEF Agreed, Known, Synced
<1>5. CASE FactoryReset
  <2>1. mode = "key" /\ mode' = "reset" /\ at' = General
        /\ UNCHANGED <<flash, write, image, ram, pending, unbacked, apart>>
    BY <1>0, <1>5 DEF FactoryReset, flashVars
  <2> QED BY <2>1 DEF Agreed, Known, Synced
<1>6. CASE ResetBlock
  <2>1. /\ mode = "reset" /\ mode' = mode /\ write = 0 /\ write' = at /\ at' = at
        /\ image' = Default(at) /\ flash' = [flash EXCEPT ![at] = Torn]
        /\ ram' = [ram EXCEPT ![at] = Default(at)]
        /\ apart' = apart /\ pending' = pending /\ unbacked' = unbacked
        /\ Known(Cal) /\ Known(General) /\ Known(Cal)' /\ Known(General)'
    BY <1>0, <1>6, ResetBlockFacts DEF ResetBlock
  <2>2. unbacked' \/ General \in pending'
    BY <2>1 DEF Agreed
  <2>3. CASE at = Cal
    <3>1. ram'[Cal].ai = ram[General].ai /\ ram'[General] = ram[General] /\ image' = ram'[Cal]
      BY <1>0, <2>1, <2>3 DEF Default
    <3> QED BY <2>1, <2>2, <2>3, <3>1 DEF Agreed, Synced
  <2>4. CASE at = General
    BY <1>0, <2>1, <2>2, <2>4 DEF Agreed, Synced
  <2>5. CASE at # General /\ at # Cal
    BY <1>0, <2>1, <2>2, <2>5 DEF Agreed, Synced
  <2> QED BY <2>3, <2>4, <2>5
<1>7. CASE EndReset
  <2>1. mode = "reset" /\ mode' = "run" /\ at = Ota
        /\ UNCHANGED <<flash, write, image, ram, pending, at, unbacked, apart>>
    BY <1>7 DEF EndReset, flashVars, ghostVars, lossVars
  <2> QED BY <1>0, <2>1 DEF Agreed, Known, Synced
<1>8. CASE Program
  <2>1. /\ write \in Blocks /\ write' = 0 /\ ram' = ram /\ image # Torn
        /\ flash' = [flash EXCEPT ![write] = image]
        /\ (Known(Cal)' <=> Known(Cal)) /\ (Known(General)' <=> Known(General))
        /\ (mode' = "run" <=> mode = "run")
    BY <1>0, <1>8, ProgramFacts, ContentsFacts
  <2>2. UNCHANGED <<pending, unbacked, apart>>
    BY <1>8 DEF Program, ghostVars, lossVars
  <2>3. \A k \in Blocks : Synced(k) => Synced(k)'
    BY <1>0, <2>1, <2>2 DEF Synced
  <2>4. ~(mode' = "reset" /\ (at' = General \/ at' = Cal))
           => ~(mode = "reset" /\ (at = General \/ (at = Cal /\ write = 0)))
    BY <1>0, <1>8, <2>1, ProgramFacts
  <2> QED BY <1>0, <2>1, <2>2, <2>3, <2>4 DEF Agreed
<1>9. ASSUME NEW k \in Blocks, Configure(k) PROVE Agreed'
  <2>1. /\ mode = "run" /\ UNCHANGED <<flash, write, image, mode, at, unbacked, apart>>
        /\ pending' = pending \cup {k}
    BY <1>9 DEF Configure, Command, flashVars, bootVars, ghostVars, lossVars
  <2>2. \A j \in Blocks : ram'[j].ai = ram[j].ai
    BY <1>9, ConfigureFacts
  <2>3. \A j \in Blocks : Synced(j) => Synced(j)'
    BY <2>1, <2>2 DEF Synced
  <2> QED BY <1>0, <2>1, <2>2, <2>3 DEF Agreed, Known
<1>10. ASSUME NEW k \in Blocks, Save(k) PROVE Agreed'
  <2>1. /\ mode = "run" /\ write = 0 /\ flash' = [flash EXCEPT ![k] = Torn]
        /\ write' = k /\ image' = ram[k] /\ UNCHANGED <<ram, mode, at, apart>>
        /\ pending' = pending \ {k}
        /\ (unbacked' = IF k = General THEN FALSE ELSE unbacked)
    BY <1>10 DEF Save, StartWrite, bootVars
  <2>2. \A j \in Blocks : Synced(j) \/ j = k => Synced(j)'
    BY <1>0, <2>1 DEF Synced
  <2> QED BY <1>0, <2>1, <2>2 DEF Agreed, Known
<1>11. CASE ConfigureType
  <2>1. /\ mode = "run" /\ UNCHANGED <<flash, write, image, mode, at, unbacked>>
        /\ pending' = pending \cup {General} /\ apart'
    BY <1>11 DEF ConfigureType, Command, flashVars, bootVars, lossVars
  <2>2. ram'[Cal] = ram[Cal]
    BY <1>0, <1>11, ConfigureTypeFacts
  <2>3. (Synced(Cal) => Synced(Cal)') /\ Synced(General)'
    BY <2>1, <2>2 DEF Synced
  <2> QED BY <1>0, <2>1, <2>2, <2>3 DEF Agreed, Known
<1>12. ASSUME NEW p \in Points, Calibrate(p) PROVE Agreed'
  <2>1. /\ mode = "run" /\ UNCHANGED <<flash, write, image, mode, at, unbacked>>
        /\ pending' = pending \cup {General, Cal}
        /\ (~apart' => ~apart /\ CalField(p) = p)
    BY <1>12 DEF Calibrate, Command, flashVars, bootVars, lossVars
  <2>2. /\ ram'[General].ai = [ram[General].ai EXCEPT !["type"] = Version, ![p] = Version]
        /\ ram'[Cal].ai = [ram[Cal].ai EXCEPT !["type"] = Version, ![CalField(p)] = Version]
    BY <1>12, CalibrateFacts
  <2>3. Synced(Cal)' /\ Synced(General)'
    BY <2>1 DEF Synced
  <2>4. ~apart' => ram'[General].ai = ram'[Cal].ai
    BY <2>1, <2>2 DEF Agreed, Known
  <2> QED BY <2>1, <2>3, <2>4 DEF Agreed
<1>13. CASE Crash
  BY <1>13 DEF Crash, Known, Agreed
<1>14. CASE UNCHANGED vars
  BY <1>14 DEF vars, Agreed, Known, Synced, flashVars, bootVars, ghostVars, lossVars
<1>15. CASE FirstPage
  BY <1>0, <1>15, FirstPageFacts DEF Agreed, Known, Synced
<1> QED BY <1>1, <1>2, <1>3, <1>4, <1>5, <1>6, <1>7, <1>8, <1>9, <1>10, <1>11, <1>12,
           <1>13, <1>14, <1>15 DEF Next, Boot, Application, Commands
-----------------------------------------------------------------------------
LEMMA UntornHolds == Init => Untorn
BY BlockFacts DEF Init, Untorn, Fresh

LEMMA UntornKeeps ==
    ASSUME TypeOK, Shape, Faithful, Agreed, Untorn, [Next]_vars
    PROVE  Untorn'
<1>0. /\ write \in Blocks \cup {0} /\ 0 \notin Blocks /\ at \in Blocks
      /\ ram \in [Blocks -> Contents] /\ image \in Contents
      /\ flash \in [Blocks -> Contents \cup {Torn}]
      /\ General \in Blocks /\ Cal \in Blocks /\ Ota \in Blocks
      /\ General = 1 /\ Cal = 2 /\ Ota >= 3 /\ Ota = NBlocks
      /\ \A k \in Blocks : k \in Int /\ k >= 1
  BY BlockFacts DEF TypeOK
<1>1. CASE PowerOn
  <2>1. /\ mode = "off" /\ write = 0 /\ mode' = "read" /\ at' = 1
        /\ UNCHANGED <<flash, write, hit, unbacked, unsaved, apart>>
    BY <1>1 DEF PowerOn, Shape, flashVars, ghostVars, lossVars
  <2> QED BY <1>0, <2>1 DEF Untorn
<1>2. CASE ReadValid
  <2> SUFFICES ASSUME hit = {} PROVE Untorn'
    BY <1>2 DEF ReadValid, Untorn
  <2>1. /\ UNCHANGED <<hit, unsaved, apart>> /\ (unbacked => unbacked') /\ ~unbacked'
        /\ mode = "read" /\ write = 0 /\ write' \in {0, Ota} /\ mode' \in {"read", "key"}
        /\ flash'[General] = flash[General] /\ flash'[Cal] = flash[Cal]
    BY <1>0, <1>2, ReadValidFacts DEF ReadValid, Untorn
  <2>2. at' = Cal => at = General /\ ram'[General] = flash[General]
    <3>1. at' = at + 1 \/ (at = Ota /\ at' = at)
      BY <1>2, ReadValidFacts
    <3>2. at' = Cal => at = General
      BY <1>0, <3>1
    <3> QED BY <1>2, <3>2, ReadValidFacts
  <2>3. at' # General
    BY <1>0, <1>2, ReadValidFacts
  <2> QED BY <1>0, <2>1, <2>2, <2>3 DEF Untorn
<1>3. CASE ReadTorn
  <2>1. hit' = hit /\ at \in hit
    BY <1>0, <1>3, ReadTornFacts DEF ReadTorn, Faithful
  <2> QED BY <2>1 DEF Untorn
<1>4. CASE StartApplication
  BY <1>4 DEF StartApplication, Untorn, flashVars, ghostVars, lossVars
<1>5. CASE FactoryReset
  BY <1>5 DEF FactoryReset, Untorn, flashVars
<1>6. CASE ResetBlock
  BY <1>6 DEF ResetBlock, Untorn
<1>7. CASE EndReset
  BY <1>7 DEF EndReset, Untorn, flashVars, ghostVars, lossVars
<1>8. CASE Program
  <2>1. UNCHANGED <<hit, unbacked, unsaved, apart>>
    BY <1>8 DEF Program, ghostVars, lossVars
  <2>2. write' = 0 /\ mode' # "off"
    BY <1>8, ProgramFacts
  <2>3. hit = {} /\ mode' = "read" => at' # General /\ at' # Cal
    BY <1>0, <1>8, ProgramFacts DEF Untorn
  <2> QED BY <2>1, <2>2, <2>3 DEF Untorn
<1>9. ASSUME NEW k \in Blocks, Configure(k) PROVE Untorn'
  BY <1>9 DEF Configure, Command, Untorn, bootVars, ghostVars, lossVars
<1>10. ASSUME NEW k \in Blocks, Save(k) PROVE Untorn'
  BY <1>10 DEF Save, Untorn, bootVars
<1>11. CASE ConfigureType
  BY <1>11 DEF ConfigureType, Command, Untorn, bootVars, lossVars
<1>12. ASSUME NEW p \in Points, Calibrate(p) PROVE Untorn'
  BY <1>12 DEF Calibrate, Command, Untorn, bootVars, lossVars
<1>13. CASE Crash
  <2> SUFFICES ASSUME hit' = {}, ~unsaved', ~apart'
               PROVE  ~unbacked' /\ flash'[General].ai = flash'[Cal].ai
    BY <1>13 DEF Crash, Untorn
  <2>1. /\ UNCHANGED <<flash, unbacked, apart>> /\ hit = {} /\ write = 0 /\ pending = {}
        /\ mode # "off" /\ (mode = "run" \/ ~unsaved)
    BY <1>13 DEF Crash
  <2>2. ~unbacked
    BY <2>1 DEF Untorn
  <2>3. CASE mode = "run"
    <3>1. /\ Known(Cal) /\ Synced(Cal) /\ Synced(General) /\ ram[General].ai = ram[Cal].ai
      BY <2>1, <2>2, <2>3 DEF Agreed, Known
    <3> QED BY <1>0, <2>1, <2>2, <3>1 DEF Synced
  <2>4. CASE mode # "run"
    <3>1. ~Known(General)
      BY <2>1, <2>2, <2>4 DEF Agreed
    <3>2. mode = "read" /\ at = General
      BY <1>0, <2>1, <2>4, <3>1 DEF Known, TypeOK
    <3> QED BY <1>0, <2>1, <2>2, <2>4, <3>2 DEF Untorn
  <2> QED BY <2>3, <2>4
<1>14. CASE UNCHANGED vars
  BY <1>14 DEF vars, Untorn, flashVars, bootVars, ghostVars, lossVars
<1>15. CASE FirstPage
  BY <1>0, <1>15, FirstPageFacts DEF Untorn
<1> QED BY <1>1, <1>2, <1>3, <1>4, <1>5, <1>6, <1>7, <1>8, <1>9, <1>10, <1>11, <1>12,
           <1>13, <1>14, <1>15 DEF Next, Boot, Application, Commands
-----------------------------------------------------------------------------
LEMMA CompleteHolds == Init => Complete
BY BlockFacts DEF Init, Complete, Fresh

LEMMA CompleteKeeps ==
    ASSUME TypeOK, Shape, Complete, [Next]_vars
    PROVE  Complete'
<1>0. /\ write \in Blocks \cup {0} /\ 0 \notin Blocks /\ at \in Blocks
      /\ ram \in [Blocks -> Contents] /\ image \in Contents
      /\ flash \in [Blocks -> Contents \cup {Torn}]
      /\ General \in Blocks /\ Cal \in Blocks /\ Ota \in Blocks
  BY BlockFacts DEF TypeOK
<1>1. CASE PowerOn
  BY <1>1 DEF PowerOn, Complete, flashVars, ghostVars, lossVars
<1>2. CASE ReadValid
  <2>1. hit' = hit /\ write = 0 /\ ram' = Loaded(at)
    BY <1>2 DEF ReadValid
  <2>2. \A k \in Blocks : ram'[k].rest = IF k = at THEN flash[at].rest ELSE ram[k].rest
    <3>1. /\ ram'[at] = flash[at]
          /\ \A k \in Blocks : k # at /\ (k # General \/ at # Cal) => ram'[k] = ram[k]
      BY <1>2, ReadValidFacts
    <3>2. at = Cal => ram'[General].rest = ram[General].rest
      <4>1. ASSUME at = Cal
            PROVE  ram' = [ram EXCEPT ![Cal] = flash[Cal],
                                      ![General] = [ram[General] EXCEPT !.ai = flash[Cal].ai]]
        BY <1>0, <2>1, <4>1, BlockFacts DEF Loaded
      <4>2. [ram[General] EXCEPT !.ai = flash[Cal].ai].rest = ram[General].rest
        BY <1>0 DEF Contents
      <4> QED BY <1>0, <4>1, <4>2, BlockFacts
    <3> QED BY <1>0, <3>1, <3>2
  <2>3. at \in Blocks \ {write} /\ flash[at] # Torn
    BY <1>0, <1>2, <2>1, ReadValidFacts
  <2>4. /\ \A k \in Blocks : k # write' => flash'[k] = flash[k]
        /\ write' # 0 => image'.rest = flash[write'].rest /\ flash'[write'] = Torn /\ write' = at
    BY <1>0, <1>2, ReadValidFacts
  <2> QED BY <1>0, <2>1, <2>2, <2>3, <2>4 DEF Complete
<1>3. CASE ReadTorn
  <2>1. hit' = hit /\ Default(at).rest = "kept"
    BY <1>0, <1>3, DefaultType DEF ReadTorn
  <2> QED BY <1>0, <1>3, <2>1, ReadTornFacts DEF Complete
<1>4. CASE StartApplication
  BY <1>4 DEF StartApplication, Complete, flashVars, ghostVars, lossVars
<1>5. CASE FactoryReset
  BY <1>5 DEF FactoryReset, Complete, flashVars
<1>6. CASE ResetBlock
  <2>1. Default(at).rest = "kept"
    BY <1>0, DefaultType
  <2> QED BY <1>0, <1>6, <2>1, ResetBlockFacts DEF Complete
<1>7. CASE EndReset
  BY <1>7 DEF EndReset, Complete, flashVars, ghostVars, lossVars
<1>8. CASE Program
  <2>1. hit' = hit
    BY <1>8 DEF Program, ghostVars, lossVars
  <2> QED BY <1>0, <1>8, <2>1, ProgramFacts DEF Complete
<1>9. ASSUME NEW k \in Blocks, Configure(k) PROVE Complete'
  <2>1. UNCHANGED <<flash, write, image, hit>>
    BY <1>9 DEF Configure, flashVars, ghostVars, lossVars
  <2>2. \A j \in Blocks : ram'[j].rest \in {ram[j].rest, "kept"}
    BY <1>9, ConfigureFacts
  <2> QED BY <2>1, <2>2 DEF Complete
<1>10. ASSUME NEW k \in Blocks, Save(k) PROVE Complete'
  BY <1>0, <1>10 DEF Save, StartWrite, Complete
<1>11. CASE ConfigureType
  <2>1. UNCHANGED <<flash, write, image, hit>>
    BY <1>11 DEF ConfigureType, flashVars, lossVars
  <2>2. \A j \in Blocks : ram'[j].rest = ram[j].rest
    BY <1>11, ConfigureTypeFacts
  <2> QED BY <2>1, <2>2 DEF Complete
<1>12. ASSUME NEW p \in Points, Calibrate(p) PROVE Complete'
  <2>1. UNCHANGED <<flash, write, image, hit>>
    BY <1>12 DEF Calibrate, flashVars, lossVars
  <2>2. \A j \in Blocks : ram'[j].rest = ram[j].rest
    BY <1>12, CalibrateFacts
  <2> QED BY <2>1, <2>2 DEF Complete
<1>13. CASE Crash
  <2>1. /\ UNCHANGED <<flash, image>> /\ write' = 0
        /\ hit' = IF write = 0 THEN hit ELSE hit \cup {write}
        /\ \A k \in Blocks : ram'[k].rest = "kept"
    BY <1>13 DEF Crash, Fresh
  <2> QED BY <1>0, <2>1 DEF Complete
<1>14. CASE UNCHANGED vars
  BY <1>14 DEF vars, Complete, flashVars, bootVars, ghostVars, lossVars
<1>15. CASE FirstPage
  BY <1>0, <1>15, FirstPageFacts DEF Complete
<1> QED BY <1>1, <1>2, <1>3, <1>4, <1>5, <1>6, <1>7, <1>8, <1>9, <1>10, <1>11, <1>12,
           <1>13, <1>14, <1>15 DEF Next, Boot, Application, Commands
-----------------------------------------------------------------------------
LEMMA SpecInvariant == Spec => []IInv
<1>1. Init => IInv
  BY TypeHolds, ShapeHolds, RecentHolds, FaithfulHolds, BackedHolds, AgreedHolds, UntornHolds,
     CompleteHolds DEF IInv
<1>2. IInv /\ [Next]_vars => IInv'
  BY TypeKeeps, ShapeKeeps, RecentKeeps, FaithfulKeeps, BackedKeeps, AgreedKeeps, UntornKeeps,
     CompleteKeeps DEF IInv
<1> QED BY <1>1, <1>2, PTL DEF Spec

\* Every variable keeps its type, versions their bound.
THEOREM TypeCorrect == Spec => []TypeOK
<1>1. IInv => TypeOK
  BY DEF IInv
<1> QED BY <1>1, SpecInvariant, PTL

\* The two copies of the calibration back one another up through any number of
\* power failures (ExtFlash_Read_EPROM_AI_Calibration).
THEOREM CalibrationKept == Spec => []CalibrationBackedUp
<1>1. IInv => CalibrationBackedUp
  BY DEF IInv, CalibrationBackedUp, Backed, Known, Set
<1> QED BY <1>1, SpecInvariant, PTL

\* A block that was not being written when power failed keeps what was last
\* saved of it, through any number of boots (the ExtFlash_Read_... functions).
THEOREM OthersKept == Spec => []OthersUntouched
<1>1. IInv => OthersUntouched
  BY DEF IInv, OthersUntouched, Faithful, Known
<1> QED BY <1>1, SpecInvariant, PTL

\* Boot leaves no block that the next boot would find invalid, and only a block
\* whose checksum is not tested, caught by a power failure between its pages,
\* runs with half of its contents (the default branches of the same functions).
THEOREM BootRepaired == Spec => []BootRepairs
<1>1. IInv => BootRepairs
  BY DEF IInv, BootRepairs, Shape, Complete, Known
<1> QED BY <1>1, SpecInvariant, PTL

\* The copies agree in flash once everything is saved.
THEOREM CopiesSaved == Spec => []CopiesAgree
<1>1. ASSUME IInv PROVE CopiesAgree
  <2> SUFFICES ASSUME mode = "run", write = 0, pending = {}, ~unbacked, ~apart
               PROVE  flash[General].ai = flash[Cal].ai
    BY DEF CopiesAgree
  <2>1. Synced(General) /\ Synced(Cal) /\ ram[General].ai = ram[Cal].ai
    BY <1>1 DEF IInv, Agreed, Known
  <2> QED BY <2>1, BlockFacts DEF Synced
<1> QED BY <1>1, SpecInvariant, PTL

\* A boot gives General the settings of the inputs it was saved with.
THEOREM BootKept == Spec => BootKeepsInputs
<1>1. ASSUME IInv, [Next]_vars
      PROVE  [ReadValid /\ at = Cal /\ ~unsaved /\ hit = {} /\ ~apart
                => ram'[General].ai = ram[General].ai]_vars
  <2> SUFFICES ASSUME ReadValid, at = Cal, ~unsaved, hit = {}, ~apart
               PROVE  ram'[General].ai = ram[General].ai
    OBVIOUS
  <2>1. TypeOK /\ Untorn
    BY <1>1 DEF IInv
  <2>2. ram'[General].ai = flash[Cal].ai /\ mode = "read" /\ write = 0
    BY <2>1, ReadValidFacts
  <2>3. flash[General].ai = flash[Cal].ai /\ ram[General].ai = flash[General].ai
    BY <2>1, <2>2 DEF Untorn
  <2> QED BY <2>2, <2>3
<1> QED BY <1>1, SpecInvariant, PTL DEF Spec, BootKeepsInputs
=============================================================================
