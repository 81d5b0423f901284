--------------------------- MODULE FileUpdate_proofs ---------------------------
(***************************************************************************)
(* Accepted, recorded, loaded and installed files, for any number of cells *)
(* and versions and any faults.  The server alone writes the files, and    *)
(* between its finding a checksum right and its acceptance writes nothing; *)
(* the block that records the acceptance has a save to come for every      *)
(* change; and what is loaded while nothing is sent does not change.       *)
(***************************************************************************)
EXTENDS FileUpdate, TLAPS, SequenceTheorems

Frame == [state : {START, IN_PROGRESS, VERIFICATION, FINISH}, file : Files, n : Nat,
          ver : Versions, mode : {"tcp", "mqtt"}]

ServerPlaces == {"idle", "erase", "program", "fill", "verify", "accept", "save", "saved",
                 "saveHex", "savedHex", "answer", "reboot"}
LoaderPlaces == {"check", "loop", "lower", "extract", "read", "parsed", "save", "saved",
                 "wipe", "write", "restore"}

IsClient(c) == c \in [on : BOOLEAN, last : Frame, acked : SUBSET Nat,
                     told : {"none", "verified", "final"}]

\* The types the properties depend on.
Typed ==
    /\ TypeOK
    /\ IsClient(client)
    /\ inbox \in Seq(Frame)
    /\ srv \in [at : ServerPlaces, frame : Frame, ret : {"none", "ok", "err"}]
    /\ crcMatch \in BOOLEAN
    /\ ld \in [at : LoaderPlaces, f : Logic, got : SUBSET Contents, i : Cells]

\* What the server is about to accept, or has just accepted, is whole.
Checked ==
    /\ srv.at \in {"verify", "accept", "save", "saved"} => srv.frame.state = VERIFICATION
    /\ srv.at = "accept" => crc # None /\ Whole(File, crc)
    /\ crcMatch => /\ srv.at \in {"save", "saved", "saveHex", "savedHex", "answer"}
                   /\ srv.frame.state = VERIFICATION
                   /\ File = "hex" => /\ srv.at \notin {"save", "saved"}
                                      /\ fresh # None /\ Whole("hex", fresh)
                                      /\ srv.at = "answer" => otaFlash = fresh

\* A change of the block has a save to come.
Saved ==
    "overlap" \notin harm =>
        /\ Saving # Writers
        /\ srv.at = "saved" =>
              block.st = "erased" /\ (image["ota"] = info \/ ld.at = "save")
        /\ ld.at = "saved" =>
              block.st = "erased" /\ (image["plc"] = info \/ srv.at = "save")
        /\ Saving = {} =>
              block.st = "good" /\ (block.val = info \/ srv.at = "save" \/ ld.at = "save")

\* What is being loaded is what was accepted, and is in flash.
Kept(f) == info[f] # None /\ Whole(f, info[f])

Loading ==
    /\ \A f \in Logic : flag[f] => info[f] # None
    /\ clean => IF ld.at = "check" THEN ld.f = "rec" /\ Kept("plc")
                ELSE \A f \in Logic : Kept(f)
    /\ clean /\ ld.at = "read" =>
          /\ ld.got \subseteq {info[ld.f]}
          /\ ld.f = "rec" => prog["plc"] = info["plc"]
    /\ clean /\ ld.at \in {"parsed", "save", "saved", "wipe", "write", "restore", "loop"}
          => \A f \in Logic : prog[f] = info[f]

IInv == Typed /\ Checked /\ AcceptedIsWhole /\ InstallsWhole /\ Saved /\ Loading

-----------------------------------------------------------------------------
(* Types. *)
LEMMA AfterType == ASSUME NEW fr \in Frame PROVE After(fr) \in Frame
<1>1. [fr EXCEPT !.state = VERIFICATION, !.n = 0] \in Frame
  BY DEF Frame
<1>2. [fr EXCEPT !.state = IN_PROGRESS, !.n = fr.n + 1] \in Frame
  <2>1. fr.n + 1 \in Nat
    BY DEF Frame
  <2> DEFINE m == fr.n + 1
  <2> HIDE DEF m
  <2>2. [fr EXCEPT !.state = IN_PROGRESS, !.n = m] \in Frame
    BY <2>1 DEF Frame, m
  <2> QED BY <2>2 DEF m
<1> QED BY <1>1, <1>2 DEF After

LEMMA NoFrameType == NoFrame \in Frame /\ 1 \in Versions
BY VersionAssumption DEF NoFrame, Frame, Files, Logic, Versions

LEMMA IdleType ==
    ASSUME NEW m \in {"tcp", "mqtt"}, NEW v \in Versions
    PROVE  IsClient(Idle(m, v))
<1> DEFINE fr == [NoFrame EXCEPT !.mode = m, !.ver = v]
<1>1. fr \in Frame
  BY NoFrameType DEF Frame
<1> HIDE DEF fr
<1>2. [on |-> TRUE, last |-> fr, acked |-> {}, told |-> "none"]
         \in [on : BOOLEAN, last : Frame, acked : SUBSET Nat, told : {"none", "verified", "final"}]
  BY <1>1
<1>3. Idle(m, v) = [[on |-> TRUE, last |-> fr, acked |-> {}, told |-> "none"] EXCEPT !.on = FALSE]
  BY DEF Idle, Sending, fr
<1> QED BY <1>2, <1>3 DEF IsClient

LEMMA SendingType == ASSUME NEW fr \in Frame PROVE IsClient(Sending(fr))
BY DEF Sending, IsClient

LEMMA FaultType == ASSUME faults \in 0 .. MaxFaults, Fault PROVE faults' \in 0 .. MaxFaults
BY FaultAssumption DEF Fault

LEMMA InfoFacts ==
    ASSUME NEW i \in Info, NEW f \in Logic, NEW v \in Versions \cup {None}
    PROVE  /\ [i EXCEPT ![f] = v] \in Info /\ [i EXCEPT ![f] = v][f] = v
           /\ \A g \in Logic : g # f => [i EXCEPT ![f] = v][g] = i[g]
           /\ i[f] \in Versions \cup {None}
BY DEF Info, Logic

LEMMA ProgrammedType ==
    ASSUME NEW old \in Contents, NEW v \in Versions PROVE Programmed(old, v) \in Contents
BY DEF Programmed, Contents

LEMMA GotoType ==
    ASSUME srv \in [at : ServerPlaces, frame : Frame, ret : {"none", "ok", "err"}],
           NEW a \in ServerPlaces, Goto(a)
    PROVE  /\ srv' \in [at : ServerPlaces, frame : Frame, ret : {"none", "ok", "err"}]
           /\ srv'.at = a
           /\ a # "idle" => srv'.frame = srv.frame
BY NoFrameType DEF Goto, Waiting, ServerPlaces

LEMMA ToType ==
    ASSUME NEW a \in LoaderPlaces, To(a)
    PROVE  /\ ld' \in [at : LoaderPlaces, f : Logic, got : SUBSET Contents, i : Cells]
           /\ ld'.at = a /\ ld'.f = "plc"
BY CellAssumption DEF To, Logic, Cells

LEMMA TypedHolds == Init => Typed
<1> SUFFICES ASSUME Init PROVE Typed
  OBVIOUS
<1>1. 1 \in Versions /\ 1 \in Cells /\ 1 \in Contents /\ NoFrame \in Frame
  BY NoFrameType, CellAssumption DEF Cells, Contents
<1>2. TypeOK
  <2>1. NoProgram = [f \in Logic |-> None] /\ None \in Contents
    BY DEF NoProgram, Logic, Contents, None, Blank
  <2>2. NoFiles \in Info /\ info \in Info
    BY <1>1 DEF Init, StoreInit, NoFiles, Info
  <2>3. area \in [Files -> [Cells -> Contents]]
    BY <1>1 DEF Init, StoreInit, Contents
  <2>4. block \in [st : {"erased", "good"}, val : Info] /\ image \in [Writers -> Info]
    BY <2>2 DEF Init, StoreInit
  <2>7. /\ flag \in [Logic -> BOOLEAN] /\ touched \subseteq Files /\ clean \in BOOLEAN
    BY Zenon DEF Init, StoreInit
  <2>8. faults \in 0 .. MaxFaults
    BY FaultAssumption DEF Init, StoreInit
  <2>5. /\ prog \in [Logic -> Contents] /\ vals \in Contents /\ recipe \in Contents
        /\ sem \in {"none", "loader", "lora"} /\ ld.f \in Logic /\ ld.i \in Cells
    BY <1>1, <2>1 DEF Init, LoaderInit, Logic
  <2>6. crc \in Versions \cup {None} /\ known \subseteq Files
        /\ fresh \in Versions \cup {None} /\ otaFlash \in Contents
    BY <2>1 DEF Init, ServerInit
  <2> QED BY <2>2, <2>3, <2>4, <2>5, <2>6, <2>7, <2>8 DEF TypeOK
<1>3. \E m \in Modes : client = Idle(m, 1)
  BY DEF Init, ServerInit
<1>4. IsClient(client)
  BY <1>1, <1>3, IdleType, ServerAssumption
<1>5. srv \in [at : ServerPlaces, frame : Frame, ret : {"none", "ok", "err"}]
  BY <1>1 DEF Init, ServerInit, Waiting, ServerPlaces
<1>6. ld \in [at : LoaderPlaces, f : Logic, got : SUBSET Contents, i : Cells]
  BY <1>1 DEF Init, LoaderInit, LoaderPlaces, Logic
<1>7. inbox \in Seq(Frame)
  BY DEF Init, ServerInit
<1>8. crcMatch \in BOOLEAN
  BY Zenon DEF Init, ServerInit
<1> QED BY <1>2, <1>4, <1>5, <1>6, <1>7, <1>8 DEF Typed

\* The client changes what it says, and its count of faults.
LEMMA ClientTyped == ASSUME Typed, ClientStep PROVE Typed'
<1>0. /\ faults \in 0 .. MaxFaults /\ IsClient(client) /\ inbox \in Seq(Frame)
      /\ client.last \in Frame /\ client.last.mode \in {"tcp", "mqtt"}
      /\ client.last.ver \in Versions
  BY DEF Typed, TypeOK, IsClient, Frame
<1>1. ASSUME NEW fr \in Frame, SendFrame(fr)
      PROVE  inbox' \in Seq(Frame) /\ UNCHANGED <<srv, otaVars>>
  BY <1>0, <1>1, AppendProperties DEF SendFrame
<1> DEFINE Rest == /\ UNCHANGED <<area, info, block, image, flag, touched, clean, srv, otaVars>>
                   /\ faults' \in 0 .. MaxFaults /\ IsClient(client') /\ inbox' \in Seq(Frame)
<1> SUFFICES Rest
  <2>1. UNCHANGED <<loaderVars, harm>>
    BY DEF ClientStep
  <2> QED BY <2>1 DEF Typed, TypeOK, otaVars, loaderVars
<1>2. ASSUME NEW f \in Files, Announce(f) PROVE Rest
  <2> DEFINE fr == [state |-> START, file |-> f, n |-> 0, ver |-> client.last.ver + 1,
                    mode |-> client.last.mode]
  <2>1. fr \in Frame
    BY <1>0, <1>2, VersionAssumption DEF Announce, Frame, Versions
  <2>2. client' = Sending(fr) /\ SendFrame(fr) /\ UNCHANGED storeVars
    BY <1>2 DEF Announce
  <2> HIDE DEF fr
  <2> QED BY <1>0, <1>1, <2>1, <2>2, SendingType DEF storeVars
<1>3. CASE Repeat
  BY <1>0, <1>1, <1>3, FaultType DEF Repeat
<1>4. CASE GiveUp
  BY <1>0, <1>4, IdleType DEF GiveUp, storeVars
<1>5. CASE AskFinish
  <2>1. [client.last EXCEPT !.state = FINISH, !.file = "hex"] \in Frame
    BY <1>0 DEF Frame, Files
  <2> QED BY <1>0, <1>1, <1>5, <2>1, FaultType DEF AskFinish
<1>6. CASE Hear
  <2>1. After(client.last) \in Frame /\ IsClient(Idle(client.last.mode, client.last.ver))
    BY <1>0, AfterType, IdleType
  <2>2. IsClient([client EXCEPT !.told = IF client.on THEN "final" ELSE @])
        /\ IsClient([client EXCEPT !.told = "verified"])
    BY <1>0 DEF IsClient
  <2>3. \A x \in SUBSET Nat : IsClient([client EXCEPT !.last = After(client.last), !.acked = x])
    <3> DEFINE a == After(client.last)
    <3> HIDE DEF a
    <3>1. a \in Frame
      BY <2>1 DEF a
    <3>2. \A x \in SUBSET Nat : IsClient([client EXCEPT !.last = a, !.acked = x])
      BY <1>0, <3>1 DEF IsClient
    <3> QED BY <3>2 DEF a
  <2>6. client.acked \in SUBSET Nat /\ client.last.n \in Nat
    BY <1>0 DEF IsClient, Frame
  <2>4. Append(inbox, After(client.last)) \in Seq(Frame)
    BY <1>0, <2>1, AppendProperties
  <2>7. PICK a : a = Head(outbox)
    OBVIOUS
  <2> DEFINE mine == client.on /\ a.state = client.last.state /\ a.n = client.last.n
             next == After(client.last)
  <2>8. \/ client' = [client EXCEPT !.told = IF client.on THEN "final" ELSE @] /\ UNCHANGED inbox
        \/ UNCHANGED <<client, inbox>>
        \/ client' = Idle(client.last.mode, client.last.ver) /\ UNCHANGED inbox
        \/ client' = [client EXCEPT !.told = "verified"] /\ UNCHANGED inbox
        \/ /\ a.n = client.last.n
           /\ client' = [client EXCEPT !.last = next,
                                       !.acked = @ \cup (IF a.n = 0 THEN {} ELSE {a.n})]
           /\ inbox' = Append(inbox, next)
    BY <1>6, <2>7 DEF Hear
  <2>9. a.n = client.last.n => IsClient([client EXCEPT !.last = next,
                                         !.acked = @ \cup (IF a.n = 0 THEN {} ELSE {a.n})])
    BY <2>3, <2>6
  <2>5. IsClient(client') /\ inbox' \in Seq(Frame)
    BY <1>0, <2>1, <2>2, <2>4, <2>8, <2>9
  <2> QED BY <1>0, <1>6, <2>5 DEF Hear, storeVars
<1> HIDE DEF Rest
<1> QED BY <1>2, <1>3, <1>4, <1>5, <1>6 DEF ClientStep, Client

StoreTyped ==
    /\ area \in [Files -> [Cells -> Contents]] /\ info \in Info
    /\ block \in [st : {"erased", "good"}, val : Info]
    /\ image \in [Writers -> Info] /\ flag \in [Logic -> BOOLEAN]
    /\ touched \subseteq Files /\ clean \in BOOLEAN /\ faults \in 0 .. MaxFaults

ServerTyped ==
    /\ crc \in Versions \cup {None} /\ known \subseteq Files
    /\ fresh \in Versions \cup {None} /\ otaFlash \in Contents
    /\ IsClient(client) /\ inbox \in Seq(Frame)
    /\ srv \in [at : ServerPlaces, frame : Frame, ret : {"none", "ok", "err"}]
    /\ crcMatch \in BOOLEAN

LoaderTyped ==
    /\ prog \in [Logic -> Contents] /\ vals \in Contents /\ recipe \in Contents
    /\ sem \in {"none", "loader", "lora"}
    /\ ld \in [at : LoaderPlaces, f : Logic, got : SUBSET Contents, i : Cells]

LEMMA TypedParts ==
    /\ Typed <=> StoreTyped /\ ServerTyped /\ LoaderTyped
    /\ Typed' <=> StoreTyped' /\ ServerTyped' /\ LoaderTyped'
BY DEF Typed, TypeOK, StoreTyped, ServerTyped, LoaderTyped

LEMMA StoreSame == ASSUME StoreTyped, UNCHANGED storeVars PROVE StoreTyped'
BY DEF StoreTyped, storeVars

\* Writing in the area of the file at hand.
LEMMA TouchTyped ==
    ASSUME StoreTyped, ServerTyped, NEW cs \in [Cells -> Contents], Touch(cs)
    PROVE  /\ area' \in [Files -> [Cells -> Contents]] /\ touched' \subseteq Files
           /\ clean' \in BOOLEAN /\ UNCHANGED <<info, block, image, flag>>
<1>1. File \in Files
  BY DEF ServerTyped, File, Frame
<1>2. clean' \in BOOLEAN
  BY Zenon DEF Touch
<1> QED BY <1>1, <1>2 DEF Touch, StoreTyped

LEMMA EraseTyped ==
    ASSUME StoreTyped, ServerTyped, NEW cells, EraseCells(cells), faults' \in 0 .. MaxFaults
    PROVE  StoreTyped'
<1> DEFINE cs == [c \in Cells |-> IF c \in cells THEN Blank ELSE area[File][c]]
<1>1. File \in Files /\ Blank \in Contents
  BY DEF ServerTyped, File, Frame, Contents
<1>2. cs \in [Cells -> Contents]
  BY <1>1 DEF StoreTyped
<1>3. Touch(cs)
  BY DEF EraseCells
<1> HIDE DEF cs
<1>4. /\ area' \in [Files -> [Cells -> Contents]] /\ touched' \subseteq Files
      /\ clean' \in BOOLEAN /\ UNCHANGED <<info, block, image, flag>>
  BY <1>2, <1>3, TouchTyped
<1> QED BY <1>4 DEF StoreTyped

LEMMA ProgramTyped ==
    ASSUME StoreTyped, ServerTyped, NEW cells, ProgramCells(cells), faults' \in 0 .. MaxFaults
    PROVE  StoreTyped'
<1> DEFINE cs == [c \in Cells |-> IF c \in cells THEN Programmed(area[File][c], srv.frame.ver)
                                  ELSE area[File][c]]
<1>1. File \in Files /\ srv.frame.ver \in Versions
  BY DEF ServerTyped, File, Frame
<1>2. cs \in [Cells -> Contents]
  BY <1>1, ProgrammedType DEF StoreTyped
<1>3. Touch(cs)
  BY DEF ProgramCells
<1> HIDE DEF cs
<1>4. /\ area' \in [Files -> [Cells -> Contents]] /\ touched' \subseteq Files
      /\ clean' \in BOOLEAN /\ UNCHANGED <<info, block, image, flag>>
  BY <1>2, <1>3, TouchTyped
<1> QED BY <1>4 DEF StoreTyped

LEMMA UntouchedTyped ==
    ASSUME StoreTyped, NoTouch, faults' \in 0 .. MaxFaults
    PROVE  StoreTyped'
BY DEF NoTouch, StoreTyped

LEMMA MergedType == ASSUME NEW a \in Info, NEW b \in Info PROVE Merged(a, b) \in Info
<1>1. (a.extract /\ b.extract) \in BOOLEAN
  BY Zenon
<1>2. \A f \in {"plc", "rec"} : (IF a[f] = b[f] THEN a[f] ELSE None) \in Versions \cup {None}
  BY DEF Info
<1> QED BY <1>1, <1>2 DEF Merged, Info

\* A save erases the block and keeps a copy, then programs the copy.
LEMMA SaveTyped ==
    ASSUME StoreTyped, NEW w \in Writers, EraseBlock(w) \/ ProgramBlock(w),
           UNCHANGED <<area, info, flag, touched, clean, faults>>
    PROVE  StoreTyped'
<1>1. NoFiles \in Info
  BY DEF NoFiles, Info
<1>2. block' \in [st : {"erased", "good"}, val : Info]
  <2>1. CASE EraseBlock(w)
    BY <2>1 DEF EraseBlock, StoreTyped
  <2>2. CASE ProgramBlock(w)
    <3>1. image[w] \in Info
      BY DEF StoreTyped
    <3>2. Merged(block.val, image[w]) \in Info
      BY <3>1, MergedType DEF StoreTyped
    <3> QED BY <2>2, <3>1, <3>2 DEF ProgramBlock
  <2> QED BY <2>1, <2>2
<1>3. image' \in [Writers -> Info]
  BY <1>1 DEF EraseBlock, ProgramBlock, StoreTyped
<1> QED BY <1>2, <1>3 DEF StoreTyped

LEMMA GotoTyped ==
    ASSUME ServerTyped, NEW a \in ServerPlaces, Goto(a), UNCHANGED <<client, inbox>>,
           crc' \in Versions \cup {None}, known' \subseteq Files,
           fresh' \in Versions \cup {None}, otaFlash' \in Contents, crcMatch' \in BOOLEAN
    PROVE  ServerTyped'
<1>1. srv' \in [at : ServerPlaces, frame : Frame, ret : {"none", "ok", "err"}]
  BY GotoType DEF ServerTyped
<1> QED BY <1>1 DEF ServerTyped

LEMMA ReceiveTyped == ASSUME StoreTyped, ServerTyped, Receive PROVE StoreTyped' /\ ServerTyped'
<1>1. PICK fr : fr = Head(inbox)
  OBVIOUS
<1>2. fr \in Frame /\ inbox' \in Seq(Frame)
  BY <1>1, HeadTailProperties DEF Receive, ServerTyped
<1>3. srv' = [frame |-> fr, ret |-> "none",
              at |-> CASE fr.state = VERIFICATION -> "verify"
                       [] fr.n > 0 /\ EraseFirst(fr) -> "erase"
                       [] fr.n > 0 /\ ~EraseFirst(fr) -> "program"
                       [] OTHER -> "answer"]
  BY <1>1 DEF Receive
<1>4. srv'.at \in {"verify", "erase", "program", "answer"}
  BY <1>3
<1>5. srv' \in [at : ServerPlaces, frame : Frame, ret : {"none", "ok", "err"}]
  BY <1>2, <1>3, <1>4 DEF ServerPlaces
<1>6. crc' \in Versions \cup {None} /\ known' \subseteq Files
  BY <1>1, <1>2 DEF Receive, ServerTyped, Frame
<1> QED BY <1>2, <1>5, <1>6, StoreSame DEF Receive, ServerTyped

\* A frame that does not parse is taken, and leaves all but the answers alone.
LEMMA GarbledKeeps ==
    ASSUME ServerTyped, Garbled
    PROVE  /\ inbox # <<>> /\ inbox' = Tail(inbox) /\ inbox' \in Seq(Frame) /\ Fault
           /\ srv.at = "idle"
           /\ UNCHANGED <<client, response, srv, otaVars, unseen>>
           /\ UNCHANGED <<ack, crc, known, crcMatch, fresh, otaFlash>> /\ NoTouch
BY HeadTailProperties DEF Garbled, ServerTyped, otaVars, NoTouch

LEMMA AcceptTyped == ASSUME StoreTyped, ServerTyped, Accept PROVE StoreTyped' /\ ServerTyped'
<1>1. File \in Files /\ crc \in Versions \cup {None} /\ info \in Info
  BY DEF ServerTyped, StoreTyped, File, Frame
<1>2. /\ UNCHANGED <<area, block, image, clean, faults, client, inbox, crc, known, otaFlash>>
      /\ touched' \subseteq Files
  BY DEF Accept, KeepAnnounced, clientVars, StoreTyped
<1>3. crcMatch' \in BOOLEAN
  BY Zenon DEF Accept
<1>4. CASE File = "hex"
  <2>1. fresh' = crc /\ Goto("saveHex") /\ UNCHANGED <<info, flag>>
    BY <1>4 DEF Accept
  <2>2. ServerTyped'
    BY <1>1, <1>2, <1>3, <2>1, GotoTyped DEF ServerPlaces, ServerTyped
  <2> QED BY <1>2, <2>1, <2>2 DEF StoreTyped
<1>5. CASE File # "hex"
  <2>1. /\ info' = Recorded(File) /\ flag' = [flag EXCEPT ![File] = TRUE]
        /\ Goto("save") /\ UNCHANGED fresh
    BY <1>5 DEF Accept
  <2>2. File \in Logic
    BY <1>1, <1>5 DEF Files
  <2>3. info' \in Info
    <3>1. [info EXCEPT ![File] = crc] \in Info
      BY <1>1, <2>2, InfoFacts
    <3>2. (info.extract \/ File = "rec") \in BOOLEAN
      BY Zenon
    <3> DEFINE i == [info EXCEPT ![File] = crc]
               x == info.extract \/ File = "rec"
    <3>3. Recorded(File) = [i EXCEPT !.extract = x]
      BY <1>1, <2>2 DEF Recorded, Logic, Info
    <3> HIDE DEF i, x
    <3>4. [i EXCEPT !.extract = x] \in Info
      BY <3>1, <3>2 DEF Info, i, x
    <3> QED BY <2>1, <3>3, <3>4
  <2>4. flag' \in [Logic -> BOOLEAN]
    BY <2>1, <2>2 DEF StoreTyped
  <2>5. ServerTyped'
    BY <1>1, <1>2, <1>3, <2>1, GotoTyped DEF ServerPlaces, ServerTyped
  <2> QED BY <1>2, <2>3, <2>4, <2>5 DEF StoreTyped
<1> QED BY <1>4, <1>5

\* The actions of the server.
LEMMA ServerKeepsTypes == ASSUME Typed, ServerStep PROVE Typed'
<1>0. StoreTyped /\ ServerTyped /\ LoaderTyped /\ faults \in 0 .. MaxFaults
  BY TypedParts DEF StoreTyped
<1>1. LoaderTyped'
  BY <1>0 DEF ServerStep, LoaderTyped, loaderVars
<1> SUFFICES StoreTyped' /\ ServerTyped'
  BY <1>1, TypedParts
<1>2. Server
  BY DEF ServerStep
<1>3. CASE Receive
  BY <1>0, <1>3, ReceiveTyped
<1>13. CASE Garbled
  BY <1>0, <1>13, GarbledKeeps, UntouchedTyped, FaultType DEF ServerTyped
<1>4. CASE Erase
  <2>1. StoreTyped'
    BY <1>0, <1>4, EraseTyped, UntouchedTyped, FaultType DEF Erase
  <2>2. srv' \in [at : ServerPlaces, frame : Frame, ret : {"none", "ok", "err"}]
    BY <1>0, <1>4 DEF Erase, ServerTyped, ServerPlaces
  <2> QED BY <1>0, <1>4, <2>1, <2>2 DEF Erase, clientVars, otaVars, ServerTyped
<1>5. CASE ProgramTcp
  <2>1. StoreTyped'
    BY <1>0, <1>5, ProgramTyped, UntouchedTyped, FaultType DEF ProgramTcp
  <2>2. UNCHANGED <<client, inbox, crc, known, crcMatch, fresh, otaFlash>> /\ Goto("answer")
    BY <1>5 DEF ProgramTcp, KeepAnnounced, KeepFirmware, clientVars
  <2> QED BY <1>0, <2>1, <2>2, GotoTyped DEF ServerPlaces, ServerTyped
<1>6. CASE EraseMqtt
  <2>1. StoreTyped'
    BY <1>0, <1>6, EraseTyped, UntouchedTyped, FaultType DEF EraseMqtt
  <2>2. /\ UNCHANGED <<client, inbox, crc, known, crcMatch, fresh, otaFlash>>
        /\ Goto("fill") \/ Goto("answer")
    BY <1>6 DEF EraseMqtt, KeepAnnounced, KeepFirmware, clientVars
  <2> QED BY <1>0, <2>1, <2>2, GotoTyped DEF ServerPlaces, ServerTyped
<1>7. CASE FillMqtt
  <2>1. StoreTyped'
    BY <1>0, <1>7, ProgramTyped, UntouchedTyped, FaultType DEF FillMqtt
  <2>2. UNCHANGED <<client, inbox, crc, known, crcMatch, fresh, otaFlash>> /\ Goto("answer")
    BY <1>7 DEF FillMqtt, KeepAnnounced, KeepFirmware, clientVars
  <2> QED BY <1>0, <2>1, <2>2, GotoTyped DEF ServerPlaces, ServerTyped
<1>8. CASE Verify
  <2>1. StoreTyped'
    BY <1>0, <1>8, UntouchedTyped, FaultType DEF Verify
  <2>2. /\ UNCHANGED <<client, inbox, crc, known, fresh, otaFlash>>
        /\ Goto("accept") \/ Goto("answer")
    BY <1>8 DEF Verify, KeepAnnounced, clientVars
  <2>3. crcMatch' \in {crcMatch, FALSE}
    BY <1>8 DEF Verify
  <2>4. crcMatch' \in BOOLEAN
    BY <1>0, <2>3 DEF ServerTyped
  <2> QED BY <1>0, <2>1, <2>2, <2>4, GotoTyped DEF ServerPlaces, ServerTyped
<1>9. CASE Accept
  BY <1>0, <1>9, AcceptTyped
<1>10. CASE Save
  <2>1. StoreTyped'
    BY <1>0, <1>10, SaveTyped DEF Save, Writers
  <2>2. /\ UNCHANGED <<client, inbox, crc, known, crcMatch, fresh, otaFlash>>
        /\ Goto("saved") \/ Goto("answer")
    BY <1>10 DEF Save, clientVars, otaVars
  <2> QED BY <1>0, <2>1, <2>2, GotoTyped DEF ServerPlaces, ServerTyped
<1>11. CASE SaveHex
  <2>1. /\ UNCHANGED <<client, inbox, crc, known, crcMatch, fresh, storeVars>>
        /\ Goto("savedHex") \/ Goto("idle") \/ Goto("answer")
        /\ otaFlash' \in {Mixed, fresh}
    BY <1>11 DEF SaveHex, KeepAnnounced, clientVars
  <2>2. otaFlash' \in Contents
    BY <1>0, <2>1 DEF ServerTyped, Contents, None, Blank
  <2> QED BY <1>0, <2>1, <2>2, GotoTyped, StoreSame DEF ServerPlaces, ServerTyped
<1>12. CASE Answer
  <2>1. /\ UNCHANGED <<client, inbox, crc, known, fresh, otaFlash>> /\ NoTouch
        /\ Goto("saveHex") \/ Goto("reboot") \/ Goto("idle")
        /\ UNCHANGED faults \/ Fault
        /\ crcMatch' \in BOOLEAN
    BY <1>12 DEF Answer, KeepAnnounced
  <2>2. StoreTyped'
    BY <1>0, <2>1, UntouchedTyped, FaultType
  <2> QED BY <1>0, <2>1, <2>2, GotoTyped DEF ServerPlaces, ServerTyped
<1> QED BY <1>2, <1>3, <1>4, <1>5, <1>6, <1>7, <1>8, <1>9, <1>10, <1>11, <1>12, <1>13
       DEF Server

\* The actions of the task that loads a program.
LEMMA ReadTyped == ASSUME StoreTyped, LoaderTyped, ReadCell PROVE StoreTyped' /\ LoaderTyped'
<1>1. PICK ok \in BOOLEAN :
        LET got == ld.got \cup {IF ok THEN area[ld.f][ld.i] ELSE Mixed} IN
        /\ IF ok THEN UNCHANGED <<faults, clean>> ELSE Fault /\ clean' = FALSE
        /\ IF MoreCells
           THEN ld' = [ld EXCEPT !.got = got, !.i = @ + 1] /\ UNCHANGED prog
           ELSE /\ prog' = [prog EXCEPT ![ld.f] = FileOf(got)]
                /\ IF ld.f = "plc" THEN Reading("rec") ELSE To("parsed")
  BY DEF ReadCell
<1> DEFINE got == ld.got \cup {IF ok THEN area[ld.f][ld.i] ELSE Mixed}
<1>2. got \in SUBSET Contents /\ ld.f \in Logic /\ ld.f \in Files /\ ld.i \in Cells
  BY DEF StoreTyped, LoaderTyped, Contents, Files
<1>3. UNCHANGED <<area, info, block, image, touched, flag, vals, recipe, sem>>
  BY DEF ReadCell, KeepStore
<1>4. StoreTyped'
  <2>1. faults' \in 0 .. MaxFaults
    BY <1>1, FaultType DEF StoreTyped
  <2>2. clean' \in {clean, FALSE}
    BY <1>1
  <2>3. clean' \in BOOLEAN
    BY <2>2 DEF StoreTyped
  <2> QED BY <1>3, <2>1, <2>3 DEF StoreTyped
<1> HIDE DEF got
<1>5. FileOf(got) \in Contents
  <2>1. CASE got \subseteq Versions /\ \A v, w \in got : v = w
    <3>1. got # {}
      BY DEF got
    <3> QED BY <2>1, <3>1 DEF FileOf, Contents
  <2>2. CASE ~(got \subseteq Versions /\ \A v, w \in got : v = w)
    BY <2>2 DEF FileOf, Contents
  <2> QED BY <2>1, <2>2
<1>6. CASE MoreCells
  <2>1. ld' = [ld EXCEPT !.got = got, !.i = @ + 1] /\ UNCHANGED prog
    BY <1>1, <1>6 DEF got
  <2>2. ld.i + 1 \in Cells
    BY <1>2, <1>6, CellAssumption DEF MoreCells, Cells
  <2>3. ld' \in [at : LoaderPlaces, f : Logic, got : SUBSET Contents, i : Cells]
    BY <1>2, <2>1, <2>2 DEF LoaderTyped
  <2> QED BY <1>3, <1>4, <2>1, <2>3 DEF LoaderTyped
<1>7. CASE ~MoreCells
  <2>1. /\ prog' = [prog EXCEPT ![ld.f] = FileOf(got)]
        /\ Reading("rec") \/ To("parsed")
    BY <1>1, <1>7 DEF got
  <2>2. prog' \in [Logic -> Contents]
    BY <1>2, <1>5, <2>1 DEF LoaderTyped
  <2>3. ld' \in [at : LoaderPlaces, f : Logic, got : SUBSET Contents, i : Cells]
    BY <2>1, ToType, CellAssumption DEF Reading, LoaderPlaces, Logic, Cells
  <2> QED BY <1>3, <1>4, <2>2, <2>3 DEF LoaderTyped
<1> QED BY <1>6, <1>7

\* Actions that touch nothing of the store but flags.
LEMMA KeptTyped ==
    ASSUME StoreTyped, KeepStore, flag' \in [Logic -> BOOLEAN], clean' \in BOOLEAN,
           faults' \in 0 .. MaxFaults
    PROVE  StoreTyped'
BY DEF StoreTyped, KeepStore

LEMMA FlagsTyped ==
    ASSUME StoreTyped, NEW f \in Logic
    PROVE  [flag EXCEPT ![f] = FALSE] \in [Logic -> BOOLEAN]
BY DEF StoreTyped

LEMMA NoneTyped ==
    /\ NoProgram \in [Logic -> Contents] /\ None \in Contents /\ NoFiles \in Info
    /\ "plc" \in Logic /\ "rec" \in Logic /\ 1 \in Cells
<1>1. None \in Contents
  BY DEF Contents, None, Blank
<1>2. NoProgram = [f \in Logic |-> None]
  BY DEF NoProgram, Logic
<1> QED BY <1>1, <1>2, CellAssumption DEF Logic, Cells, NoFiles, Info

LEMMA LoaderKeepsTypes == ASSUME Typed, LoaderStep PROVE Typed'
<1>0. /\ StoreTyped /\ ServerTyped /\ LoaderTyped /\ faults \in 0 .. MaxFaults
      /\ flag \in [Logic -> BOOLEAN] /\ clean \in BOOLEAN
  BY TypedParts DEF StoreTyped
<1>1. ServerTyped'
  BY <1>0 DEF LoaderStep, ServerTyped, srvVars, clientVars, otaVars
<1> SUFFICES StoreTyped' /\ LoaderTyped'
  BY <1>1, TypedParts
<1>2. Loader
  BY DEF LoaderStep
<1>3. CASE Check
  <2>1. /\ KeepStore /\ UNCHANGED <<prog, vals, recipe, sem>>
        /\ flag' = flag \/ flag' = [flag EXCEPT !.plc = FALSE]
        /\ faults' = faults \/ Fault
        /\ clean' \in {clean, TRUE, FALSE}
        /\ ld' = [ld EXCEPT !.f = "rec"] \/ To("extract") \/ To("loop")
    BY <1>3 DEF Check, Refused
  <2>2. ld' \in [at : LoaderPlaces, f : Logic, got : SUBSET Contents, i : Cells]
    BY <1>0, <2>1, ToType, NoneTyped DEF LoaderTyped, LoaderPlaces
  <2>3. clean' \in BOOLEAN
    BY <1>0, <2>1
  <2>4. flag' \in [Logic -> BOOLEAN] /\ faults' \in 0 .. MaxFaults
    BY <1>0, <2>1, FlagsTyped, FaultType, NoneTyped
  <2> QED BY <1>0, <2>1, <2>2, <2>3, <2>4, KeptTyped DEF LoaderTyped
<1>4. CASE Reload
  <2>1. clean' \in BOOLEAN
    BY <1>4, Zenon DEF Reload
  <2>2. flag' \in [Logic -> BOOLEAN]
    BY <1>0, <1>4, FlagsTyped, NoneTyped DEF Reload
  <2>3. ld' \in [at : LoaderPlaces, f : Logic, got : SUBSET Contents, i : Cells]
    BY <1>4, ToType DEF Reload, LoaderPlaces
  <2> QED BY <1>0, <1>4, <2>1, <2>2, <2>3, KeptTyped DEF Reload, LoaderTyped
<1>5. CASE Lower
  <2>2. flag' \in [Logic -> BOOLEAN]
    BY <1>0, <1>5, FlagsTyped, NoneTyped DEF Lower
  <2>3. ld' \in [at : LoaderPlaces, f : Logic, got : SUBSET Contents, i : Cells]
    BY <1>5, ToType DEF Lower, LoaderPlaces
  <2> QED BY <1>0, <1>5, <2>2, <2>3, KeptTyped DEF Lower, LoaderTyped
<1>6. CASE Extract
  <2>1. /\ KeepStore /\ UNCHANGED <<flag, vals, recipe>>
        /\ prog' \in {prog, NoProgram} /\ sem' \in {sem, "loader"}
        /\ faults' = faults \/ Fault
        /\ clean' \in {clean, FALSE}
        /\ To("restore") \/ Reading("plc")
    BY <1>6 DEF Extract, Refused
  <2>2. ld' \in [at : LoaderPlaces, f : Logic, got : SUBSET Contents, i : Cells]
    BY <2>1, ToType, NoneTyped DEF Reading, LoaderPlaces
  <2>3. clean' \in BOOLEAN
    BY <1>0, <2>1
  <2>4. faults' \in 0 .. MaxFaults /\ flag' \in [Logic -> BOOLEAN]
    BY <1>0, <2>1, FaultType
  <2>5. prog' \in [Logic -> Contents] /\ sem' \in {"none", "loader", "lora"}
    BY <1>0, <2>1, NoneTyped DEF LoaderTyped
  <2> QED BY <1>0, <2>1, <2>2, <2>3, <2>4, <2>5, KeptTyped DEF LoaderTyped
<1>7. CASE ReadCell
  BY <1>0, <1>7, ReadTyped
<1>8. CASE Parsed
  <2>1. /\ UNCHANGED <<area, block, image, touched, flag, clean, faults, prog, recipe>>
        /\ info' = info \/ info' = [info EXCEPT !.extract = FALSE]
        /\ vals' \in {vals, prog.rec} /\ sem' \in {sem, "none"}
        /\ To("save") \/ To("restore")
    BY <1>8 DEF Parsed, Give
  <2>2. ld' \in [at : LoaderPlaces, f : Logic, got : SUBSET Contents, i : Cells]
    BY <2>1, ToType DEF LoaderPlaces
  <2>3. info' \in Info
    BY <1>0, <2>1 DEF StoreTyped, Info
  <2>4. vals' \in Contents /\ sem' \in {"none", "loader", "lora"}
    BY <1>0, <2>1, NoneTyped DEF LoaderTyped
  <2> QED BY <1>0, <2>1, <2>2, <2>3, <2>4 DEF StoreTyped, LoaderTyped
<1>9. CASE SaveNote
  <2>1. StoreTyped'
    BY <1>0, <1>9, SaveTyped DEF SaveNote, Writers
  <2>2. ld' \in [at : LoaderPlaces, f : Logic, got : SUBSET Contents, i : Cells]
    BY <1>9, ToType DEF SaveNote, LoaderPlaces
  <2> QED BY <1>0, <1>9, <2>1, <2>2 DEF SaveNote, LoaderTyped
<1>10. CASE WriteRecipe
  <2>1. /\ KeepStore /\ UNCHANGED <<flag, clean, faults, prog, vals>>
        /\ recipe' \in {None, vals} /\ sem' \in {sem, "none"}
        /\ To("write") \/ To("restore")
    BY <1>10 DEF WriteRecipe, Give
  <2>2. ld' \in [at : LoaderPlaces, f : Logic, got : SUBSET Contents, i : Cells]
    BY <2>1, ToType DEF LoaderPlaces
  <2> QED BY <1>0, <2>1, <2>2, KeptTyped, NoneTyped DEF LoaderTyped
<1>11. CASE Restore
  <2>1. /\ KeepStore /\ UNCHANGED <<flag, clean, prog, recipe, sem>>
        /\ vals' \in {vals, recipe} /\ To("loop")
        /\ faults' = faults \/ Fault
    BY <1>11 DEF Restore, Refused
  <2>2. ld' \in [at : LoaderPlaces, f : Logic, got : SUBSET Contents, i : Cells]
    BY <2>1, ToType DEF LoaderPlaces
  <2>3. faults' \in 0 .. MaxFaults
    BY <1>0, <2>1, FaultType
  <2> QED BY <1>0, <2>1, <2>2, <2>3, KeptTyped DEF LoaderTyped
<1> QED BY <1>2, <1>3, <1>4, <1>5, <1>6, <1>7, <1>8, <1>9, <1>10, <1>11 DEF Loader

LEMMA ValuesKeepsTypes == ASSUME Typed, ValuesStep PROVE Typed'
<1>0. /\ StoreTyped /\ ServerTyped /\ LoaderTyped /\ faults \in 0 .. MaxFaults
  BY TypedParts DEF StoreTyped
<1>1. ServerTyped'
  BY <1>0 DEF ValuesStep, ServerTyped, srvVars, clientVars, otaVars
<1>2. faults' \in 0 .. MaxFaults
  BY <1>0, FaultType DEF ValuesStep, SaveValues
<1>3. /\ recipe' \in {None, vals} /\ sem' \in {"lora", "none"}
      /\ KeepStore /\ UNCHANGED <<flag, clean, ld, prog, vals>>
  BY DEF ValuesStep, SaveValues
<1>4. LoaderTyped'
  BY <1>0, <1>3, NoneTyped DEF LoaderTyped
<1>5. StoreTyped'
  BY <1>0, <1>2, <1>3 DEF StoreTyped, KeepStore
<1> QED BY <1>1, <1>4, <1>5, TypedParts

LEMMA ResetKeepsTypes == ASSUME Typed, Restart \/ PowerFailure PROVE Typed'
<1>0. /\ StoreTyped /\ ServerTyped /\ LoaderTyped /\ faults \in 0 .. MaxFaults
  BY TypedParts DEF StoreTyped
<1>1. faults' \in 0 .. MaxFaults /\ ServerReset /\ LoaderReset
  BY <1>0, FaultType DEF Restart, PowerFailure, Reset
<1>2. StoreTyped'
  <2>1. info' \in Info
    BY <1>0, <1>1, NoneTyped DEF StoreTyped, LoaderReset
  <2>2. block' \in [st : {"erased", "good"}, val : Info]
    BY <1>1, <2>1 DEF LoaderReset
  <2>3. image' \in [Writers -> Info]
    BY <1>1, NoneTyped DEF LoaderReset
  <2>4. flag' \in [Logic -> BOOLEAN] /\ clean' \in BOOLEAN
    BY <1>1, Zenon DEF LoaderReset
  <2>5. touched' \subseteq Files /\ UNCHANGED area
    BY <1>0, <1>1 DEF LoaderReset, StoreTyped, Files
  <2> QED BY <1>0, <1>1, <2>1, <2>2, <2>3, <2>4, <2>5 DEF StoreTyped
<1>3. LoaderTyped'
  <2>1. ld' \in [at : LoaderPlaces, f : Logic, got : SUBSET Contents, i : Cells]
    BY <1>1, NoneTyped DEF LoaderReset, LoaderPlaces
  <2>2. UNCHANGED recipe /\ vals' = None /\ prog' = NoProgram /\ sem' = "none"
    BY <1>1 DEF LoaderReset
  <2> QED BY <1>0, <2>1, <2>2, NoneTyped DEF LoaderTyped
<1>4. ServerTyped'
  <2>1. IsClient(client')
    <3>1. client.last.mode \in {"tcp", "mqtt"} /\ client.last.ver \in Versions
      BY <1>0 DEF ServerTyped, IsClient, Frame
    <3> QED BY <1>0, <1>1, <3>1, IdleType DEF ServerReset, ServerTyped
  <2>2. inbox' \in Seq(Frame) /\ crc' \in Versions \cup {None} /\ known' \subseteq Files
    BY <1>1 DEF ServerReset
  <2>3. crcMatch' \in BOOLEAN
    BY <1>1, Zenon DEF ServerReset
  <2>4. srv' \in [at : ServerPlaces, frame : Frame, ret : {"none", "ok", "err"}]
    BY <1>1, NoFrameType DEF ServerReset, Waiting, ServerPlaces
  <2>5. otaFlash \in Versions \cup {None, Mixed}
    BY <1>0 DEF ServerTyped, Contents, None, Blank
  <2>6. fresh' \in Versions \cup {None} /\ otaFlash' = fresh'
    BY <1>1, <2>5 DEF ServerReset
  <2>7. otaFlash' \in Contents
    BY <2>6 DEF Contents, None, Blank
  <2> QED BY <2>1, <2>2, <2>3, <2>4, <2>6, <2>7 DEF ServerTyped
<1> QED BY <1>2, <1>3, <1>4, TypedParts

LEMMA NextKeepsTypes == ASSUME Typed, [Next]_vars PROVE Typed'
<1>1. CASE UNCHANGED vars
  BY <1>1, TypedParts DEF vars, storeVars, srvVars, clientVars, otaVars, loaderVars,
                          Typed, TypeOK
<1>2. CASE Next
  BY <1>2, ClientTyped, ServerKeepsTypes, LoaderKeepsTypes, ValuesKeepsTypes, ResetKeepsTypes
     DEF Next
<1> QED BY <1>1, <1>2

-----------------------------------------------------------------------------
(* What is accepted, or installed, is whole. *)
Safe == Checked /\ AcceptedIsWhole /\ InstallsWhole

LEMMA GotoFacts ==
    ASSUME ServerTyped, NEW a \in ServerPlaces, Goto(a)
    PROVE  /\ srv'.at = a
           /\ a # "idle" => srv'.frame = srv.frame
BY DEF Goto, Waiting, ServerTyped

\* A step that leaves the files alone, and accepts or forgets none but those
\* it marks as touched.
LEMMA AcceptedKept ==
    ASSUME AcceptedIsWhole, UNCHANGED area, touched \subseteq touched',
           \A f \in Logic : info'[f] = info[f] \/ f \in touched'
    PROVE  AcceptedIsWhole'
BY DEF AcceptedIsWhole, Whole

LEMMA SafeOthers ==
    ASSUME Safe, UNCHANGED <<srv, crc, crcMatch, fresh, otaFlash, area, touched>>,
           \A f \in Logic : info'[f] = info[f]
    PROVE  Safe'
<1>1. AcceptedIsWhole'
  BY AcceptedKept DEF Safe
<1>2. Checked'
  BY DEF Safe, Checked, Whole, File
<1>3. InstallsWhole'
  BY DEF Safe, InstallsWhole, Whole
<1> QED BY <1>1, <1>2, <1>3 DEF Safe

\* A step of the server while nothing is being accepted.
LEMMA SafeQuiet ==
    ASSUME Safe, AcceptedIsWhole', ~crcMatch',
           srv'.at \notin {"verify", "accept", "save", "saved", "reboot"}
    PROVE  Safe'
BY DEF Safe, Checked, InstallsWhole

LEMMA WrittenAccepted ==
    ASSUME StoreTyped, ServerTyped, AcceptedIsWhole, NEW cs, Touch(cs)
    PROVE  AcceptedIsWhole'
<1>1. \A f \in Files : f # File => area'[f] = area[f]
  BY DEF Touch, StoreTyped
<1>2. touched' = touched \cup {File} /\ info' = info
  BY DEF Touch
<1>3. Logic \subseteq Files
  BY DEF Files
<1> QED BY <1>1, <1>2, <1>3 DEF AcceptedIsWhole, Whole

LEMMA UnwrittenAccepted ==
    ASSUME AcceptedIsWhole, NoTouch
    PROVE  AcceptedIsWhole'
BY AcceptedKept DEF NoTouch

\* Writing: the checksum has not been found right.
LEMMA WritingSafe ==
    ASSUME Typed, Safe, Erase \/ ProgramTcp \/ EraseMqtt \/ FillMqtt
    PROVE  Safe'
<1>1. StoreTyped /\ ServerTyped /\ AcceptedIsWhole
  BY TypedParts DEF Safe
<1>2. AcceptedIsWhole'
  BY <1>1, WrittenAccepted, UnwrittenAccepted
     DEF Erase, ProgramTcp, EraseMqtt, FillMqtt, EraseCells, ProgramCells
<1>3. srv.at \in {"erase", "program", "fill"} /\ UNCHANGED crcMatch
  BY DEF Erase, ProgramTcp, EraseMqtt, FillMqtt, otaVars, KeepFirmware
<1>4. ~crcMatch
  BY <1>3 DEF Safe, Checked
<1>5. srv'.at \in {"program", "fill", "answer"}
  <2>1. CASE Erase
    BY <1>1, <2>1 DEF Erase, ServerTyped
  <2>2. CASE ProgramTcp \/ EraseMqtt \/ FillMqtt
    BY <1>1, <2>2, GotoFacts DEF ProgramTcp, EraseMqtt, FillMqtt, ServerPlaces
  <2> QED BY <2>1, <2>2
<1> QED BY <1>2, <1>3, <1>4, <1>5, SafeQuiet

LEMMA ReceiveSafe == ASSUME Typed, Safe, Receive PROVE Safe'
<1>1. srv.at = "idle" /\ UNCHANGED <<crcMatch, area, info, touched>>
  BY DEF Receive, storeVars
<1>2. ~crcMatch'
  BY <1>1 DEF Safe, Checked
<1>3. AcceptedIsWhole'
  BY <1>1, AcceptedKept DEF Safe
<1>4. PICK fr : fr = Head(inbox)
  OBVIOUS
<1>5. srv' = [frame |-> fr, ret |-> "none",
              at |-> CASE fr.state = VERIFICATION -> "verify"
                       [] fr.n > 0 /\ EraseFirst(fr) -> "erase"
                       [] fr.n > 0 /\ ~EraseFirst(fr) -> "program"
                       [] OTHER -> "answer"]
  BY <1>4 DEF Receive
<1>6. srv'.at \in {"verify", "erase", "program", "answer"}
      /\ (srv'.at = "verify" => srv'.frame.state = VERIFICATION)
  BY <1>5
<1> QED BY <1>2, <1>3, <1>6 DEF Safe, Checked, InstallsWhole

LEMMA GarbledSafe == ASSUME Typed, Safe, Garbled PROVE Safe'
<1>1. srv.at = "idle" /\ UNCHANGED <<srv, crcMatch>> /\ NoTouch
  BY TypedParts, GarbledKeeps
<1>2. ~crcMatch
  BY <1>1 DEF Safe, Checked
<1>3. AcceptedIsWhole'
  BY <1>1, UnwrittenAccepted DEF Safe
<1> QED BY <1>1, <1>2, <1>3, SafeQuiet

LEMMA VerifySafe == ASSUME Typed, Safe, Verify PROVE Safe'
<1>1. StoreTyped /\ ServerTyped /\ AcceptedIsWhole /\ Checked
  BY TypedParts DEF Safe
<1>2. AcceptedIsWhole' /\ UNCHANGED <<area, crc>>
  BY <1>1, UnwrittenAccepted DEF Verify, NoTouch, KeepAnnounced
<1>3. ~crcMatch'
  BY <1>1 DEF Verify, Checked
<1>4. \/ Verified /\ Goto("accept")
      \/ Goto("answer")
  BY DEF Verify
<1>5. CASE Goto("answer")
  <2>1. srv'.at = "answer"
    BY <1>1, <1>5, GotoFacts DEF ServerPlaces
  <2> QED BY <1>2, <1>3, <2>1, SafeQuiet
<1>6. CASE Verified /\ Goto("accept")
  <2>1. srv'.at = "accept" /\ srv'.frame = srv.frame
    BY <1>1, <1>6, GotoFacts DEF ServerPlaces
  <2>2. srv.frame.state = VERIFICATION
    BY <1>1 DEF Verify, Checked
  <2>3. crc' # None /\ Whole(File, crc)'
    BY <1>2, <1>6, <2>1 DEF Verified, VerifyOk, File, Whole
  <2>4. Checked'
    BY <1>3, <2>1, <2>2, <2>3 DEF Checked
  <2> QED BY <1>2, <2>1, <2>4 DEF Safe, InstallsWhole
<1> QED BY <1>4, <1>5, <1>6

LEMMA RecordedFacts ==
    ASSUME StoreTyped, ServerTyped, File \in Logic
    PROVE  /\ Recorded(File)[File] = crc
           /\ \A f \in Logic : f # File => Recorded(File)[f] = info[f]
BY DEF StoreTyped, Recorded, Info, Logic

LEMMA AcceptSafe == ASSUME Typed, Safe, Accept PROVE Safe'
<1>1. StoreTyped /\ ServerTyped /\ AcceptedIsWhole /\ Checked
  BY TypedParts DEF Safe
<1>2. crc # None /\ Whole(File, crc) /\ srv.frame.state = VERIFICATION
  BY <1>1 DEF Accept, Checked
<1>3. /\ UNCHANGED <<area, crc, otaFlash>> /\ touched' = touched \ {File}
  BY DEF Accept, KeepAnnounced
<1>4. CASE File = "hex"
  <2>1. fresh' = crc /\ Goto("saveHex") /\ UNCHANGED info
    BY <1>4 DEF Accept
  <2>2. srv'.at = "saveHex" /\ srv'.frame = srv.frame
    BY <1>1, <2>1, GotoFacts DEF ServerPlaces
  <2>3. Whole("hex", fresh)'
    BY <1>2, <1>3, <1>4, <2>1 DEF Whole
  <2>4. Checked'
    BY <1>2, <2>1, <2>2, <2>3 DEF Checked, File
  <2>5. AcceptedIsWhole'
    BY <1>1, <1>3, <1>4, <2>1 DEF AcceptedIsWhole, Whole, Logic
  <2> QED BY <2>2, <2>4, <2>5 DEF Safe, InstallsWhole
<1>5. CASE File # "hex"
  <2>1. File \in Logic
    BY <1>1, <1>5 DEF ServerTyped, File, Frame, Files
  <2>2. info' = Recorded(File) /\ Goto("save")
    BY <1>5 DEF Accept
  <2>3. srv'.at = "save" /\ srv'.frame = srv.frame
    BY <1>1, <2>2, GotoFacts DEF ServerPlaces
  <2>4. Checked'
    BY <1>2, <1>5, <2>3 DEF Checked, File
  <2>5. AcceptedIsWhole'
    BY <1>1, <1>2, <1>3, <2>1, <2>2, RecordedFacts DEF AcceptedIsWhole, Whole
  <2> QED BY <2>3, <2>4, <2>5 DEF Safe, InstallsWhole
<1> QED BY <1>4, <1>5

LEMMA SaveSafe == ASSUME Typed, Safe, Save PROVE Safe'
<1>1. StoreTyped /\ ServerTyped /\ AcceptedIsWhole /\ Checked
  BY TypedParts DEF Safe
<1>2. UNCHANGED <<area, info, touched, crc, crcMatch, fresh, otaFlash>>
  BY DEF Save, otaVars
<1>3. /\ srv.at \in {"save", "saved"} /\ srv'.frame = srv.frame
      /\ srv'.at \in {"saved", "answer"}
  BY <1>1, GotoFacts DEF Save, ServerPlaces
<1>4. srv.frame.state = VERIFICATION /\ (crcMatch => File # "hex")
  BY <1>1, <1>3 DEF Checked
<1>5. AcceptedIsWhole'
  BY <1>1, <1>2, AcceptedKept
<1>6. Checked'
  BY <1>2, <1>3, <1>4 DEF Checked, File
<1> QED BY <1>3, <1>5, <1>6 DEF Safe, InstallsWhole

LEMMA SaveHexSafe == ASSUME Typed, Safe, SaveHex PROVE Safe'
<1>1. StoreTyped /\ ServerTyped /\ AcceptedIsWhole /\ Checked
  BY TypedParts DEF Safe
<1>2. UNCHANGED <<area, info, touched, crc, crcMatch, fresh>>
  BY DEF SaveHex, KeepAnnounced, storeVars
<1>3. AcceptedIsWhole'
  BY <1>1, <1>2, AcceptedKept
<1>4. CASE srv.at = "saveHex"
  <2>1. srv'.at = "savedHex" /\ srv'.frame = srv.frame
    BY <1>1, <1>4, GotoFacts DEF SaveHex, ServerPlaces
  <2>2. Checked'
    BY <1>1, <1>2, <1>4, <2>1 DEF Checked, File, Whole
  <2> QED BY <1>3, <2>1, <2>2 DEF Safe, InstallsWhole
<1>5. CASE srv.at = "savedHex"
  <2>1. otaFlash' = fresh /\ Goto(IF srv.frame.state = FINISH THEN "idle" ELSE "answer")
    BY <1>5 DEF SaveHex
  <2>2. CASE srv.frame.state = FINISH
    <3>1. srv'.at = "idle"
      BY <1>1, <2>1, <2>2, GotoFacts DEF ServerPlaces
    <3>2. ~crcMatch
      BY <1>1, <2>2 DEF Checked, FINISH, VERIFICATION
    <3> QED BY <1>2, <1>3, <3>1, <3>2, SafeQuiet
  <2>3. CASE srv.frame.state # FINISH
    <3>1. srv'.at = "answer" /\ srv'.frame = srv.frame
      BY <1>1, <2>1, <2>3, GotoFacts DEF ServerPlaces
    <3>2. Checked'
      BY <1>1, <1>2, <1>5, <2>1, <3>1 DEF Checked, File, Whole
    <3> QED BY <1>3, <3>1, <3>2 DEF Safe, InstallsWhole
  <2> QED BY <2>2, <2>3
<1> QED BY <1>4, <1>5 DEF SaveHex

LEMMA AnswerSafe == ASSUME Typed, Safe, Answer PROVE Safe'
<1>1. StoreTyped /\ ServerTyped /\ AcceptedIsWhole /\ Checked
  BY TypedParts DEF Safe
<1>2. AcceptedIsWhole' /\ UNCHANGED <<area, crc, fresh, otaFlash>>
  BY <1>1, UnwrittenAccepted DEF Answer, NoTouch, KeepAnnounced
<1> DEFINE done == srv.frame.state = FINISH /\ File = "hex" /\ Mode = "tcp"
<1>3. /\ srv.at = "answer"
      /\ crcMatch' = (crcMatch /\ ~Finished /\ ~done)
      /\ Goto(IF done THEN "saveHex"
              ELSE IF Finished /\ File = "hex" THEN "reboot" ELSE "idle")
  BY DEF Answer
<1>4. ~crcMatch'
  BY <1>1, <1>3 DEF Checked, Finished
<1>5. CASE Finished /\ File = "hex" /\ ~done
  <2>1. srv'.at = "reboot"
    BY <1>1, <1>3, <1>5, GotoFacts DEF ServerPlaces
  <2>2. fresh # None /\ Whole("hex", fresh) /\ otaFlash = fresh
    BY <1>1, <1>3, <1>5 DEF Checked, Finished
  <2>3. otaFlash' \in Versions /\ Whole("hex", otaFlash)'
    BY <1>1, <1>2, <2>2 DEF ServerTyped, Whole
  <2>4. Checked'
    BY <1>4, <2>1 DEF Checked
  <2> QED BY <1>2, <2>3, <2>4 DEF Safe, InstallsWhole
<1>6. CASE ~(Finished /\ File = "hex" /\ ~done)
  <2>1. srv'.at \in {"saveHex", "idle"}
    BY <1>1, <1>3, <1>6, GotoFacts DEF ServerPlaces
  <2> QED BY <1>2, <1>4, <2>1, SafeQuiet
<1> QED BY <1>5, <1>6

\* The loader notes at most that a recipe was extracted.
LEMMA LoaderInfo ==
    ASSUME Typed, LoaderStep
    PROVE  UNCHANGED <<area, touched>> /\ \A f \in Logic : info'[f] = info[f]
<1>1. info \in Info
  BY TypedParts DEF StoreTyped
<1>2. UNCHANGED <<area, touched>> /\ info' \in {info, [info EXCEPT !.extract = FALSE]}
  BY DEF LoaderStep, Loader, Check, Reload, Lower, Extract, ReadCell, Parsed, SaveNote,
         WriteRecipe, Restore, KeepStore
<1> QED BY <1>1, <1>2 DEF Info, Logic

LEMMA ResetSafe == ASSUME Typed, Safe, Reset PROVE Safe'
<1>1. /\ srv'.at = "idle" /\ ~crcMatch' /\ UNCHANGED area
      /\ touched' = touched \cup {f \in Logic : info'[f] # info[f]}
  BY DEF Reset, ServerReset, LoaderReset, Waiting
<1>2. AcceptedIsWhole'
  BY <1>1, AcceptedKept DEF Safe
<1> QED BY <1>1, <1>2, SafeQuiet

LEMMA NextKeepsSafe == ASSUME Typed, Safe, [Next]_vars PROVE Safe'
<1>1. CASE ClientStep \/ ValuesStep \/ UNCHANGED vars
  <2>1. UNCHANGED <<srv, crc, crcMatch, fresh, otaFlash, area, touched, info>>
    BY <1>1 DEF ClientStep, Client, Hear, Announce, Repeat, GiveUp, AskFinish, SendFrame,
                ValuesStep, SaveValues, KeepStore, vars, srvVars, otaVars, storeVars
  <2> QED BY <2>1, SafeOthers
<1>2. CASE LoaderStep
  BY <1>2, LoaderInfo, SafeOthers DEF LoaderStep, srvVars, otaVars
<1>3. CASE ServerStep
  BY <1>3, ReceiveSafe, GarbledSafe, WritingSafe, VerifySafe, AcceptSafe, SaveSafe, SaveHexSafe, AnswerSafe
     DEF ServerStep, Server
<1>4. CASE Restart \/ PowerFailure
  BY <1>4, ResetSafe DEF Restart, PowerFailure
<1> QED BY <1>1, <1>2, <1>3, <1>4 DEF Next

LEMMA InitSafe == Init => Safe
<1> SUFFICES ASSUME Init PROVE Safe
  OBVIOUS
<1>1. /\ srv.at = "idle" /\ ~crcMatch /\ \A f \in Logic : info[f] = 1
      /\ area = [f \in Files |-> [n \in Cells |-> IF f \in Logic THEN 1 ELSE Blank]]
  BY DEF Init, ServerInit, StoreInit, Waiting, Logic
<1>2. AcceptedIsWhole
  BY <1>1 DEF AcceptedIsWhole, Whole, Files
<1> QED BY <1>1, <1>2 DEF Safe, Checked, InstallsWhole

-----------------------------------------------------------------------------
(* The block says what memory says, or a save is to come. *)
LEMMA SavedForm ==
    Saved <=>
        ("overlap" \notin harm =>
            /\ ~(srv.at = "saved" /\ ld.at = "saved")
            /\ srv.at = "saved" =>
                  block.st = "erased" /\ (image["ota"] = info \/ ld.at = "save")
            /\ ld.at = "saved" =>
                  block.st = "erased" /\ (image["plc"] = info \/ srv.at = "save")
            /\ srv.at # "saved" /\ ld.at # "saved" =>
                  block.st = "good" /\ (block.val = info \/ srv.at = "save" \/ ld.at = "save"))
<1>1. "ota" \in Saving <=> srv.at = "saved"
  BY DEF Saving, Writers
<1>2. "plc" \in Saving <=> ld.at = "saved"
  BY DEF Saving, Writers
<1>3. Saving \subseteq {"ota", "plc"} /\ Writers = {"ota", "plc"}
  BY DEF Saving, Writers
<1>4. Saving = Writers <=> srv.at = "saved" /\ ld.at = "saved"
  BY <1>1, <1>2, <1>3
<1>5. Saving = {} <=> srv.at # "saved" /\ ld.at # "saved"
  BY <1>1, <1>2, <1>3
<1> QED BY <1>4, <1>5 DEF Saved

LEMMA HarmFacts ==
    ASSUME Harm
    PROVE  /\ harm \subseteq harm'
           /\ srv'.at = "saved" /\ ld'.at = "saved" => "overlap" \in harm'
<1>1. srv'.at = "saved" /\ ld'.at = "saved" => Saving' = Writers
  BY DEF Saving, Writers
<1> QED BY <1>1 DEF Harm

SavedNext ==
    "overlap" \notin harm' =>
        /\ ~(srv'.at = "saved" /\ ld'.at = "saved")
        /\ srv'.at = "saved" =>
              block'.st = "erased" /\ (image'["ota"] = info' \/ ld'.at = "save")
        /\ ld'.at = "saved" =>
              block'.st = "erased" /\ (image'["plc"] = info' \/ srv'.at = "save")
        /\ srv'.at # "saved" /\ ld'.at # "saved" =>
              block'.st = "good" /\ (block'.val = info' \/ srv'.at = "save" \/ ld'.at = "save")

LEMMA SavedFormNext == SavedNext => Saved'
<1>1. "ota" \in Saving' <=> srv'.at = "saved"
  BY DEF Saving, Writers
<1>2. "plc" \in Saving' <=> ld'.at = "saved"
  BY DEF Saving, Writers
<1>3. Saving' \subseteq {"ota", "plc"} /\ Writers = {"ota", "plc"}
  BY DEF Saving, Writers
<1>4. Saving' = Writers <=> srv'.at = "saved" /\ ld'.at = "saved"
  BY <1>1, <1>2, <1>3
<1>5. Saving' = {} <=> srv'.at # "saved" /\ ld'.at # "saved"
  BY <1>1, <1>2, <1>3
<1> QED BY <1>4, <1>5 DEF Saved, SavedNext

\* Erasing and programming, as seen by the one who does it.
LEMMA SaveFacts ==
    ASSUME StoreTyped, NEW w \in Writers
    PROVE  /\ EraseBlock(w) => block'.st = "erased" /\ image'[w] = info
           /\ ProgramBlock(w) /\ block.st = "erased" => block' = [st |-> "good", val |-> image[w]]
BY DEF EraseBlock, ProgramBlock, StoreTyped

LEMMA ServerSaved == ASSUME Typed, Saved, ServerStep PROVE Saved'
<1>1. StoreTyped /\ ServerTyped
  BY TypedParts
<1>2. /\ harm \subseteq harm' /\ UNCHANGED ld
      /\ srv'.at = "saved" /\ ld'.at = "saved" => "overlap" \in harm'
  BY HarmFacts DEF ServerStep, loaderVars
<1>3. CASE Accept
  <2>1. UNCHANGED <<block, image>> /\ srv.at = "accept"
    BY <1>3 DEF Accept
  <2>2. \/ UNCHANGED info /\ srv'.at = "saveHex"
        \/ srv'.at = "save"
    BY <1>1, <1>3, GotoFacts DEF Accept, ServerPlaces
  <2>3. SavedNext
    BY <1>2, <2>1, <2>2, SavedForm DEF SavedNext
  <2> QED BY <2>3, SavedFormNext
<1>4. CASE Save
  <2>1. CASE srv.at = "save"
    <3>1. /\ EraseBlock("ota") /\ srv'.at = "saved" /\ UNCHANGED info
      BY <1>1, <1>4, <2>1, GotoFacts DEF Save, ServerPlaces
    <3>2. block'.st = "erased" /\ image'["ota"] = info
      BY <1>1, <3>1, SaveFacts DEF Writers
    <3>3. SavedNext
      BY <1>2, <2>1, <3>1, <3>2, SavedForm DEF SavedNext
    <3> QED BY <3>3, SavedFormNext
  <2>2. CASE srv.at = "saved"
    <3>1. /\ ProgramBlock("ota") /\ srv'.at = "answer" /\ UNCHANGED info
      BY <1>1, <1>4, <2>2, GotoFacts DEF Save, ServerPlaces
    <3>2. block.st = "erased" => block' = [st |-> "good", val |-> image["ota"]]
      BY <1>1, <3>1, SaveFacts DEF Writers
    <3>3. SavedNext
      BY <1>2, <2>2, <3>1, <3>2, SavedForm DEF SavedNext
    <3> QED BY <3>3, SavedFormNext
  <2> QED BY <1>4, <2>1, <2>2 DEF Save
<1>5. CASE \/ Receive \/ Garbled \/ Erase \/ ProgramTcp \/ EraseMqtt \/ FillMqtt \/ Verify
           \/ SaveHex \/ Answer
  <2>1. UNCHANGED <<block, image, info>>
    BY <1>5 DEF Receive, Garbled, Erase, ProgramTcp, EraseMqtt, FillMqtt, Verify, SaveHex, Answer,
                NoTouch, EraseCells, ProgramCells, Touch, storeVars
  <2>2. srv.at \notin {"save", "saved"} /\ srv'.at \notin {"save", "saved"}
    <3>1. CASE Receive
      <4>1. srv'.at \in {"verify", "erase", "program", "answer"}
        BY <3>1 DEF Receive
      <4> QED BY <3>1, <4>1 DEF Receive
    <3>7. CASE Garbled
      BY <1>1, <3>7, GarbledKeeps
    <3>2. CASE Erase
      BY <1>1, <3>2 DEF Erase, ServerTyped
    <3>3. CASE ProgramTcp \/ EraseMqtt \/ FillMqtt
      BY <1>1, <3>3, GotoFacts DEF ProgramTcp, EraseMqtt, FillMqtt, ServerPlaces
    <3>4. CASE Verify
      BY <1>1, <3>4, GotoFacts DEF Verify, ServerPlaces
    <3>5. CASE SaveHex
      BY <1>1, <3>5, GotoFacts DEF SaveHex, ServerPlaces
    <3>6. CASE Answer
      <4>1. srv.at = "answer" /\ (Goto("saveHex") \/ Goto("reboot") \/ Goto("idle"))
        BY <3>6 DEF Answer
      <4> QED BY <1>1, <4>1, GotoFacts DEF ServerPlaces
    <3> QED BY <1>5, <3>1, <3>2, <3>3, <3>4, <3>5, <3>6, <3>7
  <2>3. SavedNext
    BY <1>2, <2>1, <2>2, SavedForm DEF SavedNext
  <2> QED BY <2>3, SavedFormNext
<1> QED BY <1>3, <1>4, <1>5 DEF ServerStep, Server

LEMMA LoaderSaved == ASSUME Typed, Saved, LoaderStep PROVE Saved'
<1>1. StoreTyped /\ LoaderTyped
  BY TypedParts
<1>2. /\ harm \subseteq harm' /\ UNCHANGED srv
      /\ srv'.at = "saved" /\ ld'.at = "saved" => "overlap" \in harm'
  BY HarmFacts DEF LoaderStep, srvVars
<1>3. CASE Parsed
  <2>1. UNCHANGED <<block, image>> /\ ld.at = "parsed"
    BY <1>3 DEF Parsed, At
  <2>2. \/ UNCHANGED info /\ ld'.at = "restore"
        \/ ld'.at = "save"
    BY <1>3 DEF Parsed, To
  <2>3. SavedNext
    BY <1>2, <2>1, <2>2, SavedForm DEF SavedNext
  <2> QED BY <2>3, SavedFormNext
<1>4. CASE SaveNote
  <2>1. CASE ld.at = "save"
    <3>1. /\ EraseBlock("plc") /\ ld'.at = "saved" /\ UNCHANGED info
      BY <1>4, <2>1 DEF SaveNote, At, To
    <3>2. block'.st = "erased" /\ image'["plc"] = info
      BY <1>1, <3>1, SaveFacts DEF Writers
    <3>3. SavedNext
      BY <1>2, <2>1, <3>1, <3>2, SavedForm DEF SavedNext
    <3> QED BY <3>3, SavedFormNext
  <2>2. CASE ld.at = "saved"
    <3>1. /\ ProgramBlock("plc") /\ ld'.at = "wipe" /\ UNCHANGED info
      BY <1>4, <2>2 DEF SaveNote, At, To
    <3>2. block.st = "erased" => block' = [st |-> "good", val |-> image["plc"]]
      BY <1>1, <3>1, SaveFacts DEF Writers
    <3>3. SavedNext
      BY <1>2, <2>2, <3>1, <3>2, SavedForm DEF SavedNext
    <3> QED BY <3>3, SavedFormNext
  <2> QED BY <1>4, <2>1, <2>2 DEF SaveNote, At
<1>5. CASE Check \/ Reload \/ Lower \/ Extract \/ ReadCell \/ WriteRecipe \/ Restore
  <2>1. UNCHANGED <<block, image, info>>
    BY <1>5 DEF Check, Reload, Lower, Extract, ReadCell, WriteRecipe, Restore, KeepStore
  <2>2. ld.at \notin {"save", "saved"} /\ ld'.at \notin {"save", "saved"}
    <3>1. CASE Check
      <4>1. ld' = [ld EXCEPT !.f = "rec"] \/ To("extract") \/ To("loop")
        BY <3>1 DEF Check
      <4> QED BY <1>1, <3>1, <4>1 DEF Check, At, To, LoaderTyped
    <3>2. CASE ReadCell
      <4>1. \/ \E got : ld' = [ld EXCEPT !.got = got, !.i = @ + 1]
            \/ Reading("rec") \/ To("parsed")
        BY <3>2 DEF ReadCell
      <4>2. ld.at = "read" /\ ld \in [at : LoaderPlaces, f : Logic, got : SUBSET Contents, i : Cells]
        BY <1>1, <3>2 DEF ReadCell, At, LoaderTyped
      <4>3. \A g : [ld EXCEPT !.got = g, !.i = @ + 1].at = "read"
        BY <4>2
      <4>4. Reading("rec") \/ To("parsed") => ld'.at \in {"read", "parsed"}
        BY DEF Reading, To
      <4>5. ld'.at \in {"read", "parsed"}
        BY <4>1, <4>3, <4>4
      <4> QED BY <3>2, <4>5 DEF ReadCell, At
    <3>3. CASE Reload \/ Lower \/ Extract \/ WriteRecipe \/ Restore
      BY <3>3 DEF Reload, Lower, Extract, WriteRecipe, Restore, At, To, Reading
    <3> QED BY <1>5, <3>1, <3>2, <3>3
  <2>3. SavedNext
    BY <1>2, <2>1, <2>2, SavedForm DEF SavedNext
  <2> QED BY <2>3, SavedFormNext
<1> QED BY <1>3, <1>4, <1>5 DEF LoaderStep, Loader

LEMMA NextKeepsSaved == ASSUME Typed, Saved, [Next]_vars PROVE Saved'
<1>1. CASE ClientStep \/ ValuesStep \/ UNCHANGED vars
  <2>1. UNCHANGED <<srv, ld, harm, block, image, info>>
    BY <1>1 DEF ClientStep, Client, Hear, Announce, Repeat, GiveUp, AskFinish, SendFrame,
                ValuesStep, SaveValues, KeepStore, vars, srvVars, storeVars, loaderVars
  <2> QED BY <2>1 DEF Saved, Saving
<1>2. CASE Restart \/ PowerFailure
  <2>1. srv'.at = "idle" /\ ld'.at = "check" /\ block' = [st |-> "good", val |-> info']
    BY <1>2 DEF Restart, PowerFailure, Reset, ServerReset, LoaderReset, Waiting
  <2>2. SavedNext
    BY <2>1 DEF SavedNext
  <2> QED BY <2>2, SavedFormNext
<1> QED BY <1>1, <1>2, ServerSaved, LoaderSaved DEF Next

LEMMA InitSaved == Init => Saved
BY SavedForm DEF Init, StoreInit, ServerInit, LoaderInit, Waiting

-----------------------------------------------------------------------------
(* What is loaded is what is accepted. *)

\* A step that changes neither the files nor where the loader is.
LEMMA LoadingSame ==
    ASSUME LoaderTyped, Loading, UNCHANGED <<ld, prog, area, clean, flag>>,
           \A f \in Logic : info'[f] = info[f]
    PROVE  Loading'
<1>1. \A f \in Logic : Kept(f) => Kept(f)'
  BY DEF Kept, Whole
<1>2. ld.f \in Logic
  BY DEF LoaderTyped
<1>3. info'["plc"] = info["plc"] /\ "plc" \in Logic
  BY DEF Logic
<1>4. \A f \in Logic : flag'[f] => info'[f] # None
  BY DEF Loading
<1>5. clean' => IF ld'.at = "check" THEN ld'.f = "rec" /\ Kept("plc")'
                ELSE \A f \in Logic : Kept(f)'
  BY <1>1, <1>3 DEF Loading
<1> QED BY <1>2, <1>3, <1>4, <1>5 DEF Loading

\* When a program is being loaded, or was, its file is not sent.
LEMMA LoadingTouched ==
    ASSUME StoreTyped, ServerTyped, Loading, NEW cs, Touch(cs), UNCHANGED <<ld, prog>>
    PROVE  Loading'
<1>1. /\ \A f \in Files : f # File => area'[f] = area[f]
      /\ clean' = (clean /\ File \notin Logic) /\ UNCHANGED <<info, flag>>
  BY DEF Touch, StoreTyped
<1>2. Logic \subseteq Files /\ "plc" \in Logic
  BY DEF Files, Logic
<1>3. CASE clean'
  <2>1. clean /\ \A f \in Logic : Kept(f) => Kept(f)'
    BY <1>1, <1>2, <1>3 DEF Kept, Whole
  <2> QED BY <1>1, <1>2, <2>1 DEF Loading
<1>4. CASE ~clean'
  BY <1>1, <1>4 DEF Loading
<1> QED BY <1>3, <1>4

LEMMA LoadingAccept ==
    ASSUME StoreTyped, ServerTyped, LoaderTyped, Checked, Loading, Accept, UNCHANGED <<ld, prog>>
    PROVE  Loading'
<1>1. crc # None /\ Whole(File, crc) /\ UNCHANGED <<area, clean>>
  BY DEF Checked, Accept
<1>2. CASE File = "hex"
  BY <1>1, <1>2, LoadingSame DEF Accept
<1>3. CASE File # "hex"
  <2>1. File \in Logic
    BY <1>3 DEF ServerTyped, File, Frame, Files
  <2>2. /\ info'[File] = crc /\ \A f \in Logic : f # File => info'[f] = info[f]
        /\ \A f \in Logic : flag'[f] => f = File \/ flag[f]
    BY <1>3, <2>1, RecordedFacts DEF Accept, StoreTyped
  <2>3. Kept(File) => crc = info[File]
    BY <1>1, CellAssumption DEF Kept, Whole, Cells
  <2>4. \A f \in Logic : f = File \/ Kept(f) => Kept(f)'
    <3>1. \A f \in Logic : f = File => Kept(f)'
      BY <1>1, <2>2 DEF Kept, Whole
    <3>2. \A f \in Logic : f # File /\ Kept(f) => Kept(f)'
      BY <1>1, <2>2 DEF Kept, Whole
    <3> QED BY <3>1, <3>2
  <2>7. \A f \in Logic : Kept(f) => info'[f] = info[f]
    BY <2>2, <2>3
  <2>5. \A f \in Logic : flag'[f] => info'[f] # None
    BY <1>1, <2>2 DEF Loading
  <2>6. "plc" \in Logic /\ ld.f \in Logic
    BY DEF LoaderTyped, Logic
  <2> QED BY <1>1, <2>4, <2>5, <2>6, <2>7 DEF Loading
<1> QED BY <1>2, <1>3

LEMMA ServerLoading == ASSUME Typed, Safe, Loading, ServerStep PROVE Loading'
<1>1. StoreTyped /\ ServerTyped /\ LoaderTyped /\ Checked /\ UNCHANGED <<ld, prog>>
  BY TypedParts DEF ServerStep, loaderVars, Safe
<1>2. CASE Accept
  BY <1>1, <1>2, LoadingAccept
<1>3. CASE Receive \/ Garbled \/ Save \/ SaveHex \/ Verify \/ Answer
  <2>1. UNCHANGED <<area, clean, flag, info>>
    BY <1>3 DEF Receive, Garbled, Save, SaveHex, Verify, Answer, storeVars, NoTouch
  <2> QED BY <1>1, <2>1, LoadingSame
<1>4. CASE Erase \/ ProgramTcp \/ EraseMqtt \/ FillMqtt
  <2>1. NoTouch \/ \E cs : Touch(cs)
    BY <1>4 DEF Erase, ProgramTcp, EraseMqtt, FillMqtt, EraseCells, ProgramCells
  <2>2. NoTouch => UNCHANGED <<area, clean, flag, info>>
    BY DEF NoTouch
  <2> QED BY <1>1, <2>1, <2>2, LoadingTouched, LoadingSame
<1> QED BY <1>2, <1>3, <1>4 DEF ServerStep, Server

LEMMA LoaderCheck ==
    ASSUME StoreTyped, LoaderTyped, Loading, Check PROVE Loading'
<1>1. /\ UNCHANGED <<area, info, prog>> /\ ld.at = "check" /\ ld.f \in Logic
      /\ \A f \in Logic : flag'[f] => flag[f]
  BY DEF Check, KeepStore, At, StoreTyped, LoaderTyped, Logic
<1>2. \A f \in Logic : Kept(f) => Kept(f)'
  BY <1>1 DEF Kept, Whole
<1>3. \A f \in Logic : flag'[f] => info'[f] # None
  BY <1>1 DEF Loading
<1>4. \/ Kept(ld.f) /\ ld.f = "plc" /\ ld' = [ld EXCEPT !.f = "rec"]
      \/ Kept(ld.f) /\ ld.f = "rec" /\ To("extract") /\ UNCHANGED clean
      \/ ~clean'
  BY DEF Check, VerifyOk, Kept
<1>5. CASE Kept(ld.f) /\ ld.f = "plc" /\ ld' = [ld EXCEPT !.f = "rec"]
  <2>1. ld'.at = "check" /\ ld'.f = "rec"
    BY <1>1, <1>5 DEF LoaderTyped
  <2> QED BY <1>1, <1>2, <1>3, <1>5, <2>1 DEF Loading
<1>6. CASE Kept(ld.f) /\ ld.f = "rec" /\ To("extract") /\ UNCHANGED clean
  <2>1. ld'.at = "extract"
    BY <1>6 DEF To
  <2>2. clean => \A f \in Logic : Kept(f)
    BY <1>1, <1>6 DEF Loading, Logic
  <2> QED BY <1>2, <1>3, <1>6, <2>1, <2>2 DEF Loading
<1>7. CASE ~clean'
  BY <1>3, <1>7 DEF Loading
<1> QED BY <1>4, <1>5, <1>6, <1>7

LEMMA LoaderReload ==
    ASSUME StoreTyped, LoaderTyped, AcceptedIsWhole, Loading, Reload PROVE Loading'
<1>1. /\ UNCHANGED <<area, info, prog>> /\ \A f \in Logic : flag[f]
      /\ \A f \in Logic : flag'[f] => flag[f]
      /\ clean' = (touched \cap Logic = {}) /\ ld'.at = "lower"
  BY DEF Reload, KeepStore, StoreTyped, Logic, To
<1>2. \A f \in Logic : info[f] # None
  BY <1>1 DEF Loading
<1>3. clean' => \A f \in Logic : Kept(f)'
  BY <1>1, <1>2 DEF AcceptedIsWhole, Kept, Whole
<1> QED BY <1>1, <1>2, <1>3 DEF Loading

LEMMA LoaderRead ==
    ASSUME StoreTyped, LoaderTyped, Loading, ReadCell PROVE Loading'
<1>1. /\ UNCHANGED <<area, info, flag>> /\ ld.at = "read"
      /\ ld.f \in Logic /\ ld.i \in Cells /\ "plc" \in Logic /\ "rec" \in Logic
  BY DEF ReadCell, KeepStore, At, LoaderTyped, Logic
<1>2. \A f \in Logic : flag'[f] => info'[f] # None
  BY <1>1 DEF Loading
<1>3. PICK ok \in BOOLEAN :
        LET got == ld.got \cup {IF ok THEN area[ld.f][ld.i] ELSE Mixed} IN
        /\ IF ok THEN UNCHANGED <<faults, clean>> ELSE Fault /\ clean' = FALSE
        /\ IF MoreCells
           THEN ld' = [ld EXCEPT !.got = got, !.i = @ + 1] /\ UNCHANGED prog
           ELSE /\ prog' = [prog EXCEPT ![ld.f] = FileOf(got)]
                /\ IF ld.f = "plc" THEN Reading("rec") ELSE To("parsed")
  BY DEF ReadCell
<1>4. CASE ~clean'
  BY <1>2, <1>4 DEF Loading
<1>5. CASE clean'
  <2>1. ok /\ clean
    BY <1>3, <1>5
  <2>2. \A f \in Logic : Kept(f) /\ Kept(f)'
    BY <1>1, <2>1 DEF Loading, Kept, Whole
  <2>3. area[ld.f][ld.i] = info[ld.f]
    BY <1>1, <2>2 DEF Kept, Whole
  <2> DEFINE got == ld.got \cup {area[ld.f][ld.i]}
  <2>4. got = {info[ld.f]}
    BY <1>1, <2>1, <2>3 DEF Loading
  <2>5. ld.f = "rec" => prog["plc"] = info["plc"]
    BY <1>1, <2>1 DEF Loading
  <2> HIDE DEF got
  <2>6. CASE MoreCells
    <3>1. ld' = [ld EXCEPT !.got = got, !.i = @ + 1] /\ UNCHANGED prog
      BY <1>3, <2>1, <2>6 DEF got
    <3>2. ld'.at = "read" /\ ld'.f = ld.f /\ ld'.got = got
      BY <1>1, <3>1 DEF LoaderTyped
    <3> QED BY <1>1, <1>2, <2>2, <2>4, <2>5, <3>1, <3>2 DEF Loading
  <2>7. CASE ~MoreCells
    <3>1. /\ prog' = [prog EXCEPT ![ld.f] = FileOf(got)]
          /\ IF ld.f = "plc" THEN Reading("rec") ELSE To("parsed")
      BY <1>3, <2>1, <2>7 DEF got
    <3>2. FileOf(got) = info[ld.f]
      <4>1. info[ld.f] \in Versions
        BY <1>1, <2>2 DEF Kept, StoreTyped, Info, Logic
      <4> QED BY <2>4, <4>1 DEF FileOf
    <3>3. prog'[ld.f] = info[ld.f] /\ \A f \in Logic : f # ld.f => prog'[f] = prog[f]
      BY <1>1, <3>1, <3>2 DEF LoaderTyped
    <3>4. CASE ld.f = "plc"
      <4>1. ld'.at = "read" /\ ld'.f = "rec" /\ ld'.got = {}
        BY <3>1, <3>4 DEF Reading
      <4> QED BY <1>1, <1>2, <2>2, <3>3, <3>4, <4>1 DEF Loading
    <3>5. CASE ld.f = "rec"
      <4>1. ld'.at = "parsed"
        BY <3>1, <3>5 DEF To
      <4>2. \A f \in Logic : prog'[f] = info'[f]
        BY <1>1, <2>5, <3>3, <3>5 DEF Logic
      <4> QED BY <1>2, <2>2, <4>1, <4>2 DEF Loading
    <3> QED BY <1>1, <3>4, <3>5 DEF Logic
  <2> QED BY <2>6, <2>7
<1> QED BY <1>4, <1>5

LEMMA LoaderLoading == ASSUME Typed, Safe, Loading, LoaderStep PROVE Loading'
<1>1. StoreTyped /\ LoaderTyped /\ AcceptedIsWhole
  BY TypedParts DEF Safe
<1>2. UNCHANGED area /\ \A f \in Logic : info'[f] = info[f]
  BY LoaderInfo
<1>3. \A f \in Logic : Kept(f) => Kept(f)'
  BY <1>2 DEF Kept, Whole
<1>4. CASE Check
  BY <1>1, <1>4, LoaderCheck
<1>5. CASE Reload
  BY <1>1, <1>5, LoaderReload
<1>6. CASE ReadCell
  BY <1>1, <1>6, LoaderRead
<1>7. CASE Lower
  <2>1. /\ \A f \in Logic : flag'[f] => flag[f]
        /\ ld.at = "lower" /\ ld'.at = "extract" /\ UNCHANGED clean
    BY <1>1, <1>7 DEF Lower, At, To, StoreTyped, Logic
  <2> QED BY <1>2, <1>3, <2>1 DEF Loading
<1>8. CASE Extract
  <2>1. /\ UNCHANGED flag /\ ld.at = "extract"
        /\ \/ ~clean'
           \/ UNCHANGED clean /\ ld'.at = "read" /\ ld'.got = {} /\ ld'.f = "plc"
    BY <1>8 DEF Extract, At, To, Reading
  <2> QED BY <1>2, <1>3, <2>1 DEF Loading
<1>9. CASE Parsed \/ SaveNote \/ WriteRecipe \/ Restore
  <2>1. /\ UNCHANGED <<flag, clean, prog>>
        /\ ld.at \in {"parsed", "save", "saved", "wipe", "write", "restore"}
        /\ ld'.at \in {"save", "saved", "wipe", "write", "restore", "loop"}
    BY <1>9 DEF Parsed, SaveNote, WriteRecipe, Restore, At, To
  <2> QED BY <1>2, <1>3, <2>1 DEF Loading
<1> QED BY <1>4, <1>5, <1>6, <1>7, <1>8, <1>9 DEF LoaderStep, Loader

LEMMA NextKeepsLoading == ASSUME Typed, Safe, Loading, [Next]_vars PROVE Loading'
<1>1. CASE ClientStep \/ ValuesStep \/ UNCHANGED vars
  <2>1. UNCHANGED <<ld, prog, area, clean, flag, info>>
    BY <1>1 DEF ClientStep, Client, Hear, Announce, Repeat, GiveUp, AskFinish, SendFrame,
                ValuesStep, SaveValues, KeepStore, vars, srvVars, storeVars, loaderVars
  <2> QED BY <2>1, LoadingSame, TypedParts
<1>2. CASE Restart \/ PowerFailure
  BY <1>2 DEF Restart, PowerFailure, Reset, LoaderReset, Loading
<1> QED BY <1>1, <1>2, ServerLoading, LoaderLoading DEF Next

-----------------------------------------------------------------------------
LEMMA Invariant == Spec => []IInv
<1>1. Init => IInv
  BY TypedHolds, InitSafe, InitSaved DEF IInv, Safe, Init, StoreInit, LoaderInit, Loading
<1>2. IInv /\ [Next]_vars => IInv'
  BY NextKeepsTypes, NextKeepsSafe, NextKeepsSaved, NextKeepsLoading DEF IInv, Safe
<1> QED BY <1>1, <1>2, PTL DEF Spec

(* For any files, versions, transports and faults, every variable keeps    *)
(* its type (FileStore, OtaServer, PlcLoader).                             *)
THEOREM TypeCorrect == Spec => []TypeOK
<1>1. IInv => TypeOK
  BY DEF IInv, Typed
<1> QED BY <1>1, Invariant, PTL

(* Whatever fails, a file that has been accepted and not been sent again   *)
(* is in the flash as it was when its checksum was found right.            *)
THEOREM AcceptedStays == Spec => []AcceptedIsWhole
<1>1. IInv => AcceptedIsWhole
  BY DEF IInv
<1> QED BY <1>1, Invariant, PTL

(* The device restarts only into an image that is whole and recorded.      *)
THEOREM OnlyWholeInstalled == Spec => []InstallsWhole
<1>1. IInv => InstallsWhole
  BY DEF IInv
<1> QED BY <1>1, Invariant, PTL

(* The record in flash is the one in memory whenever no task is about to   *)
(* save it, unless the two tasks that do saved it at once.                 *)
THEOREM RecordKept == Spec => []RecordSurvives
<1>1. ASSUME IInv PROVE RecordSurvives
  <2> SUFFICES ASSUME srv.at \notin {"save", "saved"}, ld.at \notin {"save", "saved"},
                      "overlap" \notin harm
               PROVE  block = [st |-> "good", val |-> info]
    BY DEF RecordSurvives
  <2>1. block.st = "good" /\ block.val = info
    BY <1>1, SavedForm DEF IInv
  <2> QED BY <1>1, <2>1 DEF IInv, Typed, TypeOK
<1> QED BY <1>1, Invariant, PTL

(* The program and recipe in memory are the accepted ones if nothing was   *)
(* sent, and no read failed, while they were loaded.                       *)
THEOREM AcceptedLoaded == Spec => []LoadedIsAccepted
<1>1. IInv => LoadedIsAccepted
  BY DEF IInv, Loading, LoadedIsAccepted
<1> QED BY <1>1, Invariant, PTL
=============================================================================
