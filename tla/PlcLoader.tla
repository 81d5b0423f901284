------------------------------ MODULE PlcLoader ------------------------------
(***************************************************************************)
(* The default task as it loads a PLC program and its recipe: service_start *)
(* and checkFileAvibility (src/PCBPLC/src/pcbplcService.c), Extract_Alloc  *)
(* (src/PCBPLC/src/pcbplccomm.c), PcbPlc_FileReadAndParse, ReadRecipeFile  *)
(* and WriteModifiedRecipeFile (src/PCBPLC/src/pcbplc.c); with the LoRa    *)
(* task's save of the recipe's values (src/Core/Src/RAK_Lora.c).           *)
(*                                                                         *)
(* The recipe file gives names, limits and first values of the program's   *)
(* variables.  Their current values are kept in a sector of their own,     *)
(* written from the file when a new one has been accepted.                 *)
(***************************************************************************)
EXTENDS FileStore

VARIABLES ld,      \* where the task is, what it has read of a file
          prog,    \* the program and recipe in memory; Mixed if no file
          vals,    \* the recipe the values in memory come from
          recipe,  \* the same for their sector
          sem,     \* who holds sendExternalFlashSemaphore
          missed   \* the last reload did not read the files

loaderVars == <<ld, prog, vals, recipe, sem, missed>>

NoProgram == [plc |-> None, rec |-> None]

LoaderInit ==
    /\ ld = [at |-> "check", f |-> "plc", got |-> {}, i |-> 1]
    /\ prog = NoProgram /\ vals = None /\ recipe = 1
    /\ sem = "none" /\ missed = FALSE

Give == sem' = "none"

At(a) == ld.at = a
To(a) == ld' = [at |-> a, f |-> "plc", got |-> {}, i |-> 1]

\* The other users of the semaphore may hold it for longer than one waits.
Refused == Fault
KeepStore == UNCHANGED <<area, info, block, image, touched>>

\* checkFileAvibility of the program, then of the recipe, at start-up.
Check ==
    /\ At("check")
    /\ LET good == info[ld.f] # None /\ VerifyOk(ld.f, info[ld.f]) IN
       \/ /\ sem = "none" /\ good /\ ld.f = "plc"
          /\ ld' = [ld EXCEPT !.f = "rec"] /\ clean' = TRUE
          /\ UNCHANGED <<flag, faults>>
       \/ /\ sem = "none" /\ good /\ ld.f = "rec"
          /\ To("extract") /\ flag' = [flag EXCEPT !.plc = FALSE]
          /\ UNCHANGED <<clean, faults>>
       \/ /\ sem = "none" /\ ~good /\ To("loop") /\ clean' = FALSE
          /\ UNCHANGED <<flag, faults>>
       \/ Refused /\ To("loop") /\ clean' = FALSE /\ UNCHANGED flag
    /\ KeepStore
    /\ UNCHANGED <<prog, vals, recipe, sem, missed>>

(* Mutant of Reload: the reload is left to the next start. *)
ReloadAtStart ==
    /\ At("loop") /\ \A f \in Logic : flag[f]
    /\ To("loop") /\ flag' = [f \in Logic |-> FALSE]
    /\ clean' = (touched \cap Logic = {})
    /\ KeepStore
    /\ UNCHANGED <<faults, prog, vals, recipe, sem, missed>>

\* A pass of the loop that finds both flags up lowers one, then the other.
Reload ==
    /\ At("loop") /\ \A f \in Logic : flag[f]
    /\ To("lower") /\ flag' = [flag EXCEPT !.plc = FALSE]
    /\ clean' = (touched \cap Logic = {})
    /\ KeepStore
    /\ UNCHANGED <<faults, prog, vals, recipe, sem, missed>>

Lower ==
    /\ At("lower") /\ To("extract") /\ flag' = [flag EXCEPT !.rec = FALSE]
    /\ KeepStore
    /\ UNCHANGED <<faults, clean, prog, vals, recipe, sem, missed>>

(* Mutant of Reading: the buffer is not cleared. *)
ReadingOn(f) == ld' = [at |-> "read", f |-> f, got |-> ld.got, i |-> 1]

Reading(f) == ld' = [at |-> "read", f |-> f, got |-> {}, i |-> 1]

\* Extract_Alloc: nothing if the program's flag is up again; otherwise all
\* is forgotten and, if the semaphore can be had, the files are read.  Both
\* have a length: they were checked, or accepted.
Extract ==
    /\ At("extract")
    /\ \/ /\ flag.plc /\ To("restore") /\ missed' = TRUE /\ clean' = FALSE
          /\ UNCHANGED <<prog, sem, faults>>
       \/ /\ ~flag.plc /\ sem = "none"
          /\ prog' = NoProgram /\ sem' = "loader" /\ missed' = FALSE
          /\ Reading("plc")
          /\ UNCHANGED <<clean, faults>>
       \/ /\ ~flag.plc /\ Refused
          /\ prog' = NoProgram /\ missed' = TRUE /\ clean' = FALSE
          /\ To("restore")
          /\ UNCHANGED sem
    /\ KeepStore
    /\ UNCHANGED <<flag, vals, recipe>>

\* What the cells of a file say, read one after the other.
FileOf(got) == IF got \subseteq Versions /\ \A v, w \in got : v = w
               THEN CHOOSE v \in got : TRUE ELSE Mixed

(* Mutant of MoreCells: one cell more than the file has. *)
MoreCellsLong == ld.i <= NCells

MoreCells == ld.i < NCells

\* PcbPlc_FileReadAndParse: a reading that fails is not noticed.
ReadCell ==
    /\ At("read")
    /\ \E ok \in BOOLEAN :
        LET got == ld.got \cup {IF ok THEN area[ld.f][ld.i] ELSE Mixed} IN
        /\ IF ok THEN UNCHANGED <<faults, clean>> ELSE Fault /\ clean' = FALSE
        /\ IF MoreCells
           THEN ld' = [ld EXCEPT !.got = got, !.i = @ + 1] /\ UNCHANGED prog
           ELSE /\ prog' = [prog EXCEPT ![ld.f] = FileOf(got)]
                /\ IF ld.f = "plc" THEN Reading("rec") ELSE To("parsed")
    /\ KeepStore
    /\ UNCHANGED <<flag, vals, recipe, sem, missed>>

\* A new recipe gives its values, and is noted as extracted.
Parsed ==
    /\ At("parsed")
    /\ IF info.extract
       THEN /\ vals' = prog.rec
            /\ info' = [info EXCEPT !.extract = FALSE]
            /\ To("save") /\ UNCHANGED sem
       ELSE /\ To("restore") /\ Give
            /\ UNCHANGED <<vals, info>>
    /\ UNCHANGED <<area, block, image, touched, flag, clean, faults>>
    /\ UNCHANGED <<prog, recipe, missed>>

\* The note is saved first (ExtFlash_update_gPlcRecFlash)...
SaveNote ==
    /\ \/ At("save") /\ EraseBlock("plc") /\ To("saved")
       \/ At("saved") /\ ProgramBlock("plc") /\ To("wipe")
    /\ UNCHANGED <<area, info, touched, flag, clean, faults>>
    /\ UNCHANGED <<prog, vals, recipe, sem, missed>>

\* ... and then the values (WriteModifiedRecipeFile).
WriteRecipe ==
    /\ \/ At("wipe") /\ recipe' = None /\ To("write") /\ UNCHANGED sem
       \/ At("write") /\ recipe' = vals /\ To("restore") /\ Give
    /\ KeepStore
    /\ UNCHANGED <<flag, clean, faults, prog, vals, missed>>

\* ReadRecipeFile: an erased sector gives no values.
Restore ==
    /\ At("restore") /\ To("loop")
    /\ \/ /\ sem = "none" /\ vals' = IF recipe = None THEN vals ELSE recipe
          /\ UNCHANGED faults
       \/ Refused /\ UNCHANGED vals
    /\ KeepStore
    /\ UNCHANGED <<flag, clean, prog, recipe, sem, missed>>

\* The LoRa task saves the values in memory, on a command or before a reboot
\* (RAK_Lora.c:1145-1150).
SaveValues ==
    /\ \/ sem = "none" /\ Fault /\ sem' = "lora" /\ recipe' = None
       \/ sem = "lora" /\ sem' = "none" /\ recipe' = vals /\ UNCHANGED faults
    /\ KeepStore
    /\ UNCHANGED <<flag, clean, ld, prog, vals, missed>>

Loader == Check \/ Reload \/ Lower \/ Extract \/ ReadCell \/ Parsed \/ SaveNote
          \/ WriteRecipe \/ Restore

\* A reset.  The block is read, and defaulted when its first page is erased:
\* neither its sum nor its other pages are looked at.
LoaderReset ==
    /\ info' = IF block.st = "good" THEN block.val ELSE NoFiles
    /\ block' = [st |-> "good", val |-> info']
    /\ flag' = [f \in Logic |-> FALSE]
    /\ clean' = FALSE
    /\ ld' = [at |-> "check", f |-> "plc", got |-> {}, i |-> 1]
    /\ prog' = NoProgram /\ vals' = None /\ sem' = "none"
    /\ missed' = FALSE
    \* an acceptance that was not saved is lost
    /\ touched' = touched \cup {f \in Logic : info'[f] # info[f]}
    /\ image' = [w \in Writers |-> NoFiles]
    /\ UNCHANGED <<area, recipe>>
=============================================================================
