----------------------------- MODULE ConfigStore -----------------------------
(***************************************************************************)
(* The configuration blocks in external flash: how they are read at boot   *)
(* (the ExtFlash_Read_... functions of src/Core/Src/Configuration.c in the *)
(* order of main, src/Core/Src/main.c), defaulted when they do not         *)
(* validate, saved (ExtFlash_update_...), changed by commands              *)
(* (src/Core/Src/json_parser.c) and reset to the factory's defaults.       *)
(*                                                                         *)
(* A save erases the block's sectors and then programs their pages: power  *)
(* may fail in between.  With nothing programmed the checkbyte is missing  *)
(* and the block is Torn.  Where only the first page is programmed the     *)
(* checksum tells, for the blocks whose checksum is tested: these are Torn *)
(* until the last page is written.  That of gPlcRecFlash is not tested     *)
(* (the code is commented out), so that it reads as valid with its later   *)
(* pages, the recipe's values, erased; neither is that of OTA_store_Data,  *)
(* but its 212 bytes fit in one page.                                      *)
(*                                                                         *)
(* The settings of the analog inputs have two copies, one in General and   *)
(* one in AI_Calibration, each of which serves as a backup of the other.   *)
(*                                                                         *)
(* Settings are versions: 0 is the default, 1 what the device was          *)
(* commissioned with, and each change has a number of its own.             *)
(***************************************************************************)
EXTENDS Integers

CONSTANTS NBlocks,      \* blocks, in the order they are read
          InputKinds,   \* what the calibrated input may measure
          Unsummed,     \* blocks of several pages whose checksum is not tested
          TypeConfig,   \* the input type is configured by a CONF command
          MaxChanges,   \* bound: commands
          MaxResets,    \* bound: factory resets
          MaxCrashes    \* bound: power failures

ASSUME BlocksAssumption == NBlocks \in Nat /\ NBlocks >= 3
ASSUME InputAssumption ==
    InputKinds \subseteq {"voltage", "current"} /\ TypeConfig \in BOOLEAN
ASSUME BoundAssumption ==
    MaxChanges \in Nat /\ MaxResets \in Nat /\ MaxCrashes \in Nat

Blocks  == 1 .. NBlocks
General == 1        \* EPROM_General
Cal     == 2        \* EPROM_AI_Calibration
Ota     == NBlocks  \* OTA_store_Data; those between are alike, but for
                    \* gPlcRecFlash, which is Unsummed

ASSUME UnsummedAssumption == Unsummed \subseteq Blocks \ {General, Cal, Ota}

Points == {"mid", "high"}       \* calibration points
Fields == Points \cup {"type"}  \* what General and AI_Calibration share

Versions == 0 .. MaxChanges + 1
Rest == {"kept", "erased"}      \* the pages after the first
Contents == [own : Versions, ai : [Fields -> Versions], rest : Rest]
Torn == <<>>

Fresh(v) == [own |-> v, ai |-> [f \in Fields |-> v], rest |-> "kept"]

VARIABLES flash,    \* block |-> its contents in flash, or Torn
          ram,      \* block |-> the structure in memory
          pending,  \* blocks to be saved
          mode, at, \* off, reading or resetting block at, looking at the
                    \* key, or running
          write,    \* the block erased and not yet all programmed, or 0
          image,    \* what it will be programmed with
          changes, resets, crashes,
          stored,   \* block |-> version last programmed
          hit,      \* blocks torn by a power failure, or reset
          input,    \* what the calibrated input measures
          apart,    \* a command has written the two copies differently
          exposed,  \* a copy of the inputs' settings was torn or reset while
                    \* the other could not replace it
          unbacked, \* General was defaulted and not saved since
          unsaved   \* a block was still to be saved when the application
                    \* last lost power

flashVars == <<flash, write, image, stored>>
bootVars == <<mode, at>>
countVars == <<changes, resets, crashes>>
lossVars == <<hit, exposed, unbacked, unsaved>>
ghostVars == <<lossVars, input, apart>>
vars == <<flashVars, ram, pending, bootVars, countVars, ghostVars>>

Init ==
    /\ flash = [k \in Blocks |-> Fresh(1)]
    /\ ram = [k \in Blocks |-> Fresh(0)]
    /\ pending = {}
    /\ mode = "off" /\ at = 1
    /\ write = 0 /\ image = Fresh(0)
    /\ changes = 0 /\ resets = 0 /\ crashes = 0
    /\ stored = [k \in Blocks |-> 1]
    /\ hit = {} /\ exposed = FALSE /\ unbacked = FALSE /\ unsaved = FALSE
    /\ input \in InputKinds /\ apart = FALSE

(* W25Q_Erase_Write_One_Sector: erase, then program. *)
StartWrite(k, contents) ==
    /\ flash' = [flash EXCEPT ![k] = Torn]
    /\ write' = k
    /\ image' = contents
    /\ UNCHANGED stored

NoWrite == UNCHANGED flashVars
-----------------------------------------------------------------------------
PowerOn ==
    /\ mode = "off"
    /\ mode' = "read" /\ at' = 1
    /\ UNCHANGED <<flashVars, ram, pending, countVars, ghostVars>>

(* Mutant of NextBlock: the last block is not told from the others. *)
NextBlockAlways ==
    at' = at + 1 /\ mode' = IF at = NBlocks THEN "key" ELSE mode

(* The block after at, or a look at the key after the last. *)
NextBlock ==
    IF at < NBlocks THEN at' = at + 1 /\ mode' = mode
    ELSE at' = at /\ mode' = "key"

(* Mutant of Default: AI_Calibration has defaults of its own. *)
DefaultFresh(k) == Fresh(0)

(* What a default branch makes of a block: AI_Calibration takes the        *)
(* settings of the inputs from General.                                    *)
Default(k) ==
    IF k = Cal THEN [Fresh(0) EXCEPT !.ai = ram[General].ai] ELSE Fresh(0)

(* Mutant of Loaded: the whole of AI_Calibration is copied. *)
LoadedWhole(k) ==
    IF k = Cal THEN [ram EXCEPT ![Cal] = flash[Cal], ![General] = flash[Cal]]
    ELSE [ram EXCEPT ![k] = flash[k]]

(* Mutant of Loaded: General keeps its own settings of the inputs. *)
LoadedApart(k) == [ram EXCEPT ![k] = flash[k]]

(* Memory after a valid block was read: AI_Calibration's settings of the   *)
(* inputs replace those of General.                                        *)
Loaded(k) ==
    IF k = Cal THEN [ram EXCEPT ![Cal] = flash[Cal],
                                ![General].ai = flash[Cal].ai]
    ELSE [ram EXCEPT ![k] = flash[k]]

(* A valid block is read, its later pages erased or not.  General is to be *)
(* saved again (its count of reboots has changed); OTA_store_Data is       *)
(* written back at once.                                                   *)
ReadValid ==
    /\ mode = "read" /\ write = 0 /\ flash[at] # Torn
    /\ ram' = Loaded(at)
    /\ pending' = IF at = General THEN pending \cup {General} ELSE pending
    /\ IF at = Ota THEN StartWrite(Ota, flash[Ota]) /\ UNCHANGED bootVars
       ELSE NextBlock /\ NoWrite
    /\ unbacked' = IF at = General THEN FALSE ELSE unbacked
    /\ UNCHANGED <<countVars, hit, exposed, unsaved, input,
                   apart>>

(* Mutant of ReadTorn: the defaults are not written. *)
ReadTornInMemory ==
    /\ mode = "read" /\ write = 0 /\ flash[at] = Torn
    /\ ram' = [ram EXCEPT ![at] = Default(at)]
    /\ NextBlock /\ NoWrite
    /\ unbacked' = IF at = General THEN TRUE ELSE unbacked
    /\ UNCHANGED <<pending, countVars, hit, exposed, unsaved, input,
                   apart>>

(* A block that does not validate gets its defaults, in flash too. *)
ReadTorn ==
    /\ mode = "read" /\ write = 0 /\ flash[at] = Torn
    /\ ram' = [ram EXCEPT ![at] = Default(at)]
    /\ StartWrite(at, Default(at))
    /\ unbacked' = IF at = General THEN TRUE ELSE unbacked
    /\ UNCHANGED <<pending, bootVars, countVars, hit, exposed, unsaved, input,
                   apart>>

(* Everything is read.  If the key is not held the application starts. *)
StartApplication ==
    /\ mode = "key"
    /\ mode' = "run"
    /\ UNCHANGED <<flashVars, ram, pending, at, countVars, ghostVars>>

(* If it is, every block but OTA_store_Data is given its defaults in turn. *)
FactoryReset ==
    /\ mode = "key" /\ resets < MaxResets
    /\ resets' = resets + 1
    /\ mode' = "reset" /\ at' = 1
    /\ exposed' = TRUE
    /\ UNCHANGED <<flashVars, ram, pending, changes, crashes, hit, unbacked,
                   unsaved, input, apart>>

ResetBlock ==
    /\ mode = "reset" /\ write = 0 /\ at # Ota
    /\ ram' = [ram EXCEPT ![at] = Default(at)]
    /\ StartWrite(at, Default(at))
    /\ hit' = hit \cup {at}
    /\ UNCHANGED <<pending, bootVars, countVars, exposed, unbacked, unsaved,
                   input, apart>>

EndReset ==
    /\ mode = "reset" /\ write = 0 /\ at = Ota
    /\ mode' = "run"
    /\ UNCHANGED <<flashVars, ram, pending, at, countVars, ghostVars>>

(* The first page of a block whose checksum is not tested makes it valid. *)
FirstPage ==
    /\ write \in Unsummed /\ flash[write] = Torn
    /\ flash' = [flash EXCEPT ![write] = [image EXCEPT !.rest = "erased"]]
    /\ UNCHANGED <<write, image, stored, ram, pending, bootVars, countVars,
                   ghostVars>>

(* The block is programmed; at boot, the next one follows. *)
Program ==
    /\ write # 0 /\ (write \in Unsummed => flash[write] # Torn)
    /\ flash' = [flash EXCEPT ![write] = image]
    /\ stored' = [stored EXCEPT ![write] = image.own]
    /\ write' = 0
    /\ IF mode = "run" THEN UNCHANGED bootVars ELSE NextBlock
    /\ UNCHANGED <<image, ram, pending, countVars, ghostVars>>
-----------------------------------------------------------------------------
(* The application: commands change the structures and ask for their       *)
(* saves, which the LoRa task makes one at a time.                         *)
Version == changes + 2

Command == mode = "run" /\ changes < MaxChanges /\ changes' = changes + 1

(* A setting that only one block holds.  A file accepted changes only the  *)
(* first page of gPlcRecFlash; a recipe extracted fills the others.        *)
Configure(k) ==
    /\ Command
    /\ k # Cal
    /\ \E rest \in {ram[k].rest, "kept"} :
          ram' = [ram EXCEPT ![k].own = Version, ![k].rest = rest]
    /\ pending' = pending \cup {k}
    /\ UNCHANGED <<flashVars, bootVars, resets, crashes, ghostVars>>

(* The CONF command sets an input's type in General. *)
ConfigureType ==
    /\ TypeConfig
    /\ Command
    /\ ram' = [ram EXCEPT ![General].ai["type"] = Version]
    /\ pending' = pending \cup {General}
    /\ apart' = TRUE
    /\ UNCHANGED <<flashVars, bootVars, resets, crashes, lossVars, input>>

(* The field of AI_Calibration that the AI_CAL command writes for a point: *)
(* for a current, the fourth point goes where the third one does.          *)
CalField(p) == IF input = "current" /\ p = "high" THEN "mid" ELSE p

(* Mutant of Calibrate: only General is to be saved. *)
CalibrateGeneral(p) ==
    /\ Command
    /\ ram' = [ram EXCEPT ![General].ai["type"] = Version,
                          ![General].ai[p] = Version,
                          ![Cal].ai["type"] = Version,
                          ![Cal].ai[CalField(p)] = Version]
    /\ pending' = pending \cup {General}
    /\ apart' = (apart \/ CalField(p) # p)
    /\ UNCHANGED <<flashVars, bootVars, resets, crashes, lossVars, input>>

(* The AI_CAL command sets the type and a point in both structures. *)
Calibrate(p) ==
    /\ Command
    /\ ram' = [ram EXCEPT ![General].ai["type"] = Version,
                          ![General].ai[p] = Version,
                          ![Cal].ai["type"] = Version,
                          ![Cal].ai[CalField(p)] = Version]
    /\ pending' = pending \cup {General, Cal}
    /\ apart' = (apart \/ CalField(p) # p)
    /\ UNCHANGED <<flashVars, bootVars, resets, crashes, lossVars, input>>

Save(k) ==
    /\ mode = "run" /\ write = 0 /\ k \in pending
    /\ StartWrite(k, ram[k])
    /\ pending' = pending \ {k}
    /\ unbacked' = IF k = General THEN FALSE ELSE unbacked
    /\ UNCHANGED <<ram, bootVars, countVars, hit, exposed, unsaved, input,
                   apart>>
-----------------------------------------------------------------------------
(* Whether block k holds settings of the inputs that could replace the     *)
(* other copy.                                                             *)
HasSettings(k) == flash[k] # Torn /\ \A f \in Fields : flash[k].ai[f] # 0

(* Power fails. *)
Crash ==
    /\ mode # "off" /\ crashes < MaxCrashes
    /\ crashes' = crashes + 1
    /\ mode' = "off"
    /\ pending' = {}
    /\ unsaved' = ((mode # "run" /\ unsaved) \/ pending # {})
    /\ write' = 0
    /\ ram' = [k \in Blocks |-> Fresh(0)]
    /\ hit' = IF write = 0 THEN hit ELSE hit \cup {write}
    /\ exposed' = (\/ exposed
                   \/ write = General /\ ~HasSettings(Cal)
                   \/ write = Cal /\ ~HasSettings(General))
    /\ UNCHANGED <<flash, image, stored, at, changes, resets, unbacked, input,
                   apart>>

Boot == PowerOn \/ ReadValid \/ ReadTorn \/ StartApplication
        \/ FactoryReset \/ ResetBlock \/ EndReset
Application == \E k \in Blocks : Configure(k) \/ Save(k)
Commands == ConfigureType \/ \E p \in Points : Calibrate(p)

Next == Boot \/ FirstPage \/ Program \/ Application \/ Commands \/ Crash

Spec == Init /\ [][Next]_vars
-----------------------------------------------------------------------------
TypeOK ==
    /\ flash \in [Blocks -> Contents \cup {Torn}]
    /\ ram \in [Blocks -> Contents]
    /\ pending \subseteq Blocks
    /\ mode \in {"off", "read", "key", "reset", "run"} /\ at \in Blocks
    /\ write \in Blocks \cup {0} /\ image \in Contents
    /\ changes \in Nat /\ resets \in Nat /\ crashes \in Nat
    /\ stored \in [Blocks -> Versions]
    /\ hit \subseteq Blocks
    /\ input \in {"voltage", "current"} /\ apart \in BOOLEAN
    /\ exposed \in BOOLEAN /\ unbacked \in BOOLEAN /\ unsaved \in BOOLEAN

(* A running device has lost the calibration of its inputs only if one of  *)
(* its two copies was torn while the other could not replace it, however   *)
(* many power failures there were and wherever they fell, boots included   *)
(* (ExtFlash_Read_EPROM_General, ExtFlash_Read_EPROM_AI_Calibration).      *)
CalibrationBackedUp ==
    mode = "run" /\ ~exposed =>
        \A f \in Fields : ram[General].ai[f] # 0 /\ ram[Cal].ai[f] # 0

(* A block keeps what was last saved of it unless power failed during one  *)
(* of its own writes, whatever befell the others.                          *)
OthersUntouched ==
    mode = "run" => \A k \in Blocks \ hit : ram[k].own >= stored[k]

(* Once the device runs, every block but the one being saved passes the    *)
(* test of the next boot: this one has rewritten those that did not.  Only *)
(* a block whose checksum is not tested may then lack its later pages, and *)
(* only if power failed while it was being written: no other block runs,   *)
(* or is saved again, with half of its contents (the default branches of   *)
(* the ExtFlash_Read_... functions).                                       *)
BootRepairs ==
    mode = "run" =>
        /\ \A k \in Blocks \ {write} : flash[k] # Torn
        /\ \A k \in Blocks \ {write} :
              flash[k].rest = "erased" => k \in Unsummed \cap hit
        /\ \A k \in Blocks : ram[k].rest = "erased" => k \in Unsummed \cap hit

(* The two copies of the inputs' settings agree in flash whenever nothing  *)
(* is left to save, except after a boot that defaulted General (its copy   *)
(* is then restored in memory only, and no save is asked for) or a command *)
(* that writes them differently: a type by CONF, point 4 of a current.     *)
CopiesAgree ==
    mode = "run" /\ write = 0 /\ pending = {} /\ ~unbacked /\ ~apart =>
        flash[General].ai = flash[Cal].ai

(* A boot does not change the settings of the inputs that General has been *)
(* saved with, when power failed with nothing left to save and the         *)
(* commands wrote the two copies alike.                                    *)
BootKeepsInputs ==
    [][ReadValid /\ at = Cal /\ ~unsaved /\ hit = {} /\ ~apart
         => ram'[General].ai = ram[General].ai]_vars

(* The same whatever the commands: a calibration, once saved, is what the  *)
(* next boot restores (json_parser.c, "AI Channel Calibration Command      *)
(* Request").                                                              *)
BootKeepsCalibration ==
    [][ReadValid /\ at = Cal /\ ~unsaved /\ hit = {}
         => ram'[General].ai = ram[General].ai]_vars
=============================================================================
