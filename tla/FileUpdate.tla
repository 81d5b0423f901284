----------------------------- MODULE FileUpdate ------------------------------
(***************************************************************************)
(* File transfers, the task that loads what they bring, and power          *)
(* failures.                                                               *)
(***************************************************************************)
EXTENDS OtaServer, PlcLoader

VARIABLE harm  \* what went wrong that the code does not guard against:
               \* a save cut short, of the block or of the values, or two
               \* saves of the block at once

vars == <<storeVars, srvVars, loaderVars, harm>>

Init == StoreInit /\ ServerInit /\ LoaderInit /\ harm = {}

Saving == {w \in Writers : IF w = "ota" THEN srv.at = "saved" ELSE ld.at = "saved"}
\* The note of a new recipe is dropped although what was read is another's.
Mistaken == ld.at = "parsed" /\ info.extract /\ ~clean
Harm == harm' = harm \cup (IF Saving' = Writers THEN {"overlap"} ELSE {})
                     \cup (IF Mistaken THEN {"values"} ELSE {})

ClientStep == (Client \/ Hear) /\ UNCHANGED <<loaderVars, harm>>
ServerStep == Server /\ UNCHANGED loaderVars /\ Harm
LoaderStep == Loader /\ UNCHANGED srvVars /\ Harm
ValuesStep == SaveValues /\ UNCHANGED <<srvVars, harm>>

\* From the note that a recipe was extracted to the writing of its values.
Extracting == ld.at \in {"save", "saved", "wipe", "write"} \/ sem = "lora"
Cut == harm' = harm \cup (IF Saving # {} THEN {"block"} ELSE {})
                    \cup (IF Extracting THEN {"values"} ELSE {})
Reset == ServerReset /\ LoaderReset /\ Cut

\* The restart into a new firmware (reboot_device_func).
Restart == srv.at = "reboot" /\ Reset /\ UNCHANGED faults

PowerFailure == Fault /\ Reset

Next == ClientStep \/ ServerStep \/ LoaderStep \/ ValuesStep \/ Restart \/ PowerFailure

Fairness == WF_vars(LoaderStep)
         /\ WF_vars(ServerStep)
         /\ WF_vars(sem = "lora" /\ ValuesStep)

Spec == Init /\ [][Next]_vars /\ Fairness
-----------------------------------------------------------------------------
TypeOK ==
    /\ area \in [Files -> [Cells -> Contents]]
    /\ info \in Info
    /\ block \in [st : {"erased", "good"}, val : Info]
    /\ image \in [Writers -> Info]
    /\ flag \in [Logic -> BOOLEAN]
    /\ touched \subseteq Files /\ clean \in BOOLEAN
    /\ faults \in 0 .. MaxFaults
    /\ crc \in Versions \cup {None} /\ known \subseteq Files
    /\ fresh \in Versions \cup {None} /\ otaFlash \in Contents
    /\ prog \in [Logic -> Contents] /\ vals \in Contents /\ recipe \in Contents
    /\ sem \in {"none", "loader", "lora"}
    /\ ld.f \in Logic /\ ld.i \in Cells

\* A file that has been accepted, and not been sent again since, is in the
\* flash as it was when its checksum was found right: whatever fails, no task
\* writes the area of a file that is in use (OTA.c, pcbplc.c).
AcceptedIsWhole ==
    \A f \in Logic : f \notin touched /\ info[f] # None => Whole(f, info[f])

\* The program and the recipe in memory are the accepted ones when nothing was
\* sent, and no read failed, while they were loaded: the files are read one
\* after the other, without a checksum, while the block may be written.
LoadedIsAccepted ==
    clean /\ ld.at \in {"restore", "loop"} => \A f \in Logic : prog[f] = info[f]

\* The values of the recipe's variables are those of the accepted recipe, once
\* it is loaded, or there are none: they are kept apart from the recipe, are
\* written from it by one task and saved by another, and the note that they
\* were written is made before.  A failure in between is not guarded against.
ValuesFollowRecipe ==
    clean /\ ld.at = "loop" /\ harm = {} => vals \in {None, info.rec}

\* A client told that its chunk was stored finds it stored as long as it goes
\* on: chunks share sectors that are erased (OTA.c:150-317).  The exceptions
\* are results the code does not look at (unseen), a chunk that is being
\* written over itself, and a client about to be told no.
Denied == (srv.at = "answer" /\ ~ack) \/ \E i \in 1 .. Len(outbox) : ~outbox[i].ok
AckMeansStored ==
    client.on /\ ~unseen /\ ~Rewriting /\ ~Denied =>
        \A n \in client.acked : \A c \in ChunkCells(client.last.mode, n) \cap Cells :
            area[client.last.file][c] = client.last.ver

\* A client that got the last answer has its file in use, after a power failure
\* too: the block is saved before it is told (OTA.c:57-108, tcpserver.c:156).
\* But the block has no second copy, so a failure while it is being saved (by
\* a repeated verification, say) loses it, and so may two tasks saving it.
FinalMeansAccepted ==
    /\ client.on /\ client.told = "final" /\ client.last.file \in Logic
    /\ harm \cap {"block", "overlap"} = {}
    => info[client.last.file] = client.last.ver

\* What the flash says of the accepted files is what memory says, whenever no
\* task is about to save it: each change of gPlcRecFlash is followed by a save,
\* and its two writers do not lose one another's change unless their saves
\* overlap (OTA.c:57-108, pcbplc.c:1066-1073).
RecordSurvives ==
    /\ srv.at \notin {"save", "saved"} /\ ld.at \notin {"save", "saved"}
    /\ "overlap" \notin harm
    => block = [st |-> "good", val |-> info]

\* The device restarts into a firmware image that is whole, and recorded as
\* such (OTA.c:109-135, Modem_MQTT.c:226).
InstallsWhole ==
    srv.at = "reboot" => otaFlash \in Versions /\ Whole("hex", otaFlash)

\* When both flags are up the files are read, or the semaphore refused,
\* unless the device restarts: neither the other users of the semaphore nor a
\* transfer stops the task for ever (pcbplcService.c:54-68, pcbplccomm.c:1423).
FlagsServed ==
    (\A f \in Logic : flag[f]) ~>
        \/ ld.at = "check"
        \/ ld.at = "loop" /\ (missed \/ \A f \in Logic : prog[f] # None)
=============================================================================
