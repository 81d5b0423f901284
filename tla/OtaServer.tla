------------------------------ MODULE OtaServer ------------------------------
(***************************************************************************)
(* The transfer of a PLC program, a recipe or a firmware image: the parser *)
(* of OTA frames (src/Core/Src/json_parser.c), Ota_File_write_ack          *)
(* (src/Core/Src/OTA.c) and the answers of the TCP thread                  *)
(* (src/Core/Src/tcpserver.c) and of the MQTT task                         *)
(* (src/Core/Src/Modem_MQTT.c).                                            *)
(*                                                                         *)
(* A client announces a file, sends its chunks and asks for verification,  *)
(* waiting for each answer; it may repeat what it sent last, and give up,  *)
(* and begins another transfer when nothing is under way.                  *)
(* Over MQTT a chunk is a sector, over TCP a cell; a client uses one.      *)
(***************************************************************************)
EXTENDS FileStore, Sequences

CONSTANT Modes  \* transports in use: "tcp", "mqtt"

ASSUME ServerAssumption == Modes \subseteq {"tcp", "mqtt"}

\* CMDState: OTA_STATE of src/Core/Inc/OTA.h.
START == 0
IN_PROGRESS == 1
VERIFICATION == 2
FINISH == 3

Chunks(m) == IF m = "tcp" THEN NCells ELSE (NCells + SectorCells - 1) \div SectorCells
ChunkCells(m, n) ==
    IF m = "tcp" THEN {n} ELSE {c \in Cells : (c - 1) \div SectorCells = n - 1}

VARIABLES client,    \* what the client is sending, and has been told
          inbox,     \* frames not read yet
          outbox,    \* answers the client has not read yet
          response,  \* the buffer of the answers on this TCP connection
          srv,       \* where the handler is, and the frame it handles
          ack,       \* OTA_ACK_Data.OtaACK: the last chunk was stored
          crc,       \* CRC_value: the version whose checksum was announced
          known,     \* files whose size was announced
          crcMatch,
          fresh,     \* firmware verified: OTA_store_Data in memory
          otaFlash,  \* and in flash; Mixed when torn
          unseen     \* a chunk of this transfer may not be stored, and no
                     \* answer shows it

clientVars == <<client, inbox, outbox, response>>
otaVars == <<ack, crc, known, crcMatch, fresh, otaFlash>>
srvVars == <<clientVars, srv, otaVars, unseen>>

Sending(fr) == [on |-> TRUE, last |-> fr, acked |-> {}, told |-> "none"]
NoFrame == [state |-> START, file |-> "plc", n |-> 0, ver |-> 1, mode |-> "tcp"]
Idle(m, v) == [Sending([NoFrame EXCEPT !.mode = m, !.ver = v]) EXCEPT !.on = FALSE]
Waiting == [at |-> "idle", frame |-> NoFrame, ret |-> "none"]

ServerInit ==
    /\ \E m \in Modes : client = Idle(m, 1)
    /\ inbox = <<>> /\ outbox = <<>> /\ response = <<>>
    /\ srv = Waiting
    /\ ack = FALSE /\ crc = None /\ known = {}
    /\ crcMatch = FALSE
    /\ fresh = None /\ otaFlash = None /\ unseen = FALSE
-----------------------------------------------------------------------------
(* The client. *)
SendFrame(fr) ==
    /\ inbox' = Append(inbox, fr)
    /\ UNCHANGED <<outbox, srv, otaVars>>

\* Over TCP a transfer has a connection of its own.
Announce(f) ==
    /\ ~client.on /\ client.last.ver < MaxVersion
    /\ inbox = <<>> /\ outbox = <<>> /\ srv.at = "idle"
    /\ LET fr == [state |-> START, file |-> f, n |-> 0, ver |-> client.last.ver + 1,
                  mode |-> client.last.mode]
       IN client' = Sending(fr) /\ SendFrame(fr)
    /\ response' = <<>> /\ unseen' = FALSE
    /\ UNCHANGED storeVars

Repeat ==
    /\ client.on /\ Len(inbox) < 2 /\ Fault
    /\ SendFrame(client.last)
    /\ UNCHANGED <<client, response, unseen, area, info, block, image, flag, touched, clean>>

\* What follows a frame that was answered well.
After(fr) ==
    IF fr.state = VERIFICATION \/ fr.n = Chunks(fr.mode)
    THEN [fr EXCEPT !.state = VERIFICATION, !.n = 0]
    ELSE [fr EXCEPT !.state = IN_PROGRESS, !.n = fr.n + 1]

\* An answer names the state and the chunk it is for, not the file.  The
\* client takes a negative one for whatever it is sending.
Hear ==
    /\ outbox # <<>> /\ Len(inbox) < 2
    /\ LET a == Head(outbox)
           mine == client.on /\ a.state = client.last.state /\ a.n = client.last.n
           next == After(client.last)
       IN \/ /\ a.state = FINISH
             /\ client' = [client EXCEPT !.told = IF client.on THEN "final" ELSE @]
             /\ UNCHANGED inbox
          \/ /\ a.state # FINISH /\ ~mine /\ a.ok
             /\ UNCHANGED <<client, inbox>>
          \/ /\ a.state # FINISH /\ ~a.ok
             /\ client' = Idle(client.last.mode, client.last.ver)
             /\ UNCHANGED inbox
          \/ /\ mine /\ a.ok /\ a.state = VERIFICATION
             /\ client' = [client EXCEPT !.told = "verified"]
             /\ UNCHANGED inbox
          \/ /\ mine /\ a.ok /\ a.state \in {START, IN_PROGRESS}
             /\ client' = [client EXCEPT !.last = next,
                                         !.acked = @ \cup (IF a.n = 0 THEN {} ELSE {a.n})]
             /\ inbox' = Append(inbox, next)
    /\ outbox' = Tail(outbox)
    /\ UNCHANGED <<response, srv, otaVars, unseen, storeVars>>

GiveUp ==
    /\ client.on
    /\ client' = Idle(client.last.mode, client.last.ver)
    /\ UNCHANGED <<inbox, outbox, response, srv, otaVars, unseen, storeVars>>
-----------------------------------------------------------------------------
(* Mutant of EraseFirst: the sector is erased at its last chunk. *)
EraseFirstLate(fr) ==
    IF fr.file \in Logic THEN fr.n = 1 ELSE fr.mode = "tcp" /\ fr.n % SectorCells = 0

\* The first chunk of a program or recipe erases its area, the first chunk of
\* each sector of an image sent over TCP the sector.
EraseFirst(fr) ==
    IF fr.file \in Logic THEN fr.n = 1
    ELSE fr.mode = "tcp" /\ (fr.n - 1) % SectorCells = 0

(* parse_JSON_frame: CMD_OTA, then the head of Ota_File_write_ack. *)
Receive ==
    /\ srv.at = "idle" /\ inbox # <<>>
    /\ LET fr == Head(inbox) IN
          /\ srv' = [frame |-> fr, ret |-> "none",
                     at |-> CASE fr.state = VERIFICATION -> "verify"
                              [] fr.n > 0 /\ EraseFirst(fr) -> "erase"
                              [] fr.n > 0 /\ ~EraseFirst(fr) -> "program"
                              [] OTHER -> "answer"]
          /\ IF fr.state = START
             THEN crc' = fr.ver /\ known' = known \cup {fr.file}
             ELSE UNCHANGED <<crc, known>>
          /\ ack' = IF fr.state # VERIFICATION /\ fr.n = 0 THEN TRUE ELSE ack
    /\ inbox' = Tail(inbox)
    /\ UNCHANGED <<client, outbox, response, crcMatch, fresh, otaFlash, unseen, storeVars>>

\* A frame that does not parse.  Over TCP what is in the buffer is sent again,
\* twice for a frame that comes in two segments; over MQTT nothing is.
Garbled ==
    /\ srv.at = "idle" /\ inbox # <<>> /\ Fault
    /\ inbox' = Tail(inbox)
    /\ \E again \in IF Head(inbox).mode = "tcp" THEN {response, response \o response} ELSE {<<>>} :
        outbox' = outbox \o again
    /\ UNCHANGED <<client, response, srv, otaVars, unseen>>
    /\ UNCHANGED <<area, info, block, image, flag, touched, clean>>

Mode == srv.frame.mode
File == srv.frame.file
Number == srv.frame.n

\* A program being loaded is no longer what was accepted.
Touch(contents) ==
    /\ area' = [area EXCEPT ![File] = contents]
    /\ touched' = touched \cup {File}
    /\ clean' = (clean /\ File \notin Logic)
    /\ UNCHANGED <<info, block, image, flag>>

NoTouch == UNCHANGED <<area, touched, clean, info, block, image, flag>>

EraseCells(cells) ==
    Touch([c \in Cells |-> IF c \in cells THEN Blank ELSE area[File][c]])

ProgramCells(cells) ==
    Touch([c \in Cells |-> IF c \in cells THEN Programmed(area[File][c], srv.frame.ver)
                           ELSE area[File][c]])

\* The whole area of a program or recipe, a sector of a firmware image.
EraseSet ==
    IF File = "hex" THEN {c \in Cells : (c - 1) \div SectorCells = (Number - 1) \div SectorCells}
    ELSE Cells

Goto(at) == srv' = IF at = "idle" THEN Waiting ELSE [srv EXCEPT !.at = at]
KeepAnnounced == UNCHANGED <<crc, known>>
KeepFirmware == UNCHANGED <<crcMatch, fresh, otaFlash>>

\* Erase_RECsector, twice if it fails.
Erase ==
    /\ srv.at = "erase"
    /\ \/ /\ EraseCells(EraseSet)
          /\ srv' = [srv EXCEPT !.at = "program", !.ret = "ok"]
          /\ UNCHANGED <<faults, unseen>>
       \/ /\ NoTouch /\ Fault /\ unseen' = TRUE
          /\ srv' = [srv EXCEPT !.at = "program", !.ret = "err"]
    /\ UNCHANGED <<clientVars, otaVars>>

\* The answer without a result of the write: but for a program it is the one
\* before; for a program it is the erasure's, or is whatever was on the stack.
UnsetAck ==
    IF File # "plc" \/ srv.ret = "err" THEN {ack}
    ELSE IF srv.ret = "ok" THEN {TRUE}
    ELSE {ack, TRUE}

\* W25Q_Write_continous, twice if it fails.  What a failed attempt leaves is
\* what the next one writes: the cell counts as not written.  A chunk with an
\* odd number of digits is not written, and sets no result.
ProgramTcp ==
    /\ srv.at = "program" /\ Mode = "tcp"
    /\ \/ ProgramCells({Number}) /\ ack' = TRUE /\ UNCHANGED <<faults, unseen>>
       \/ NoTouch /\ Fault /\ ack' = FALSE /\ UNCHANGED unseen
       \/ NoTouch /\ Fault /\ ack' \in UnsetAck /\ unseen' = TRUE
    /\ Goto("answer")
    /\ KeepAnnounced /\ KeepFirmware
    /\ UNCHANGED clientVars

\* W25Q_Erase_Write_One_Sector, whose result is not looked at: the sector is
\* erased, then programmed.
EraseMqtt ==
    /\ srv.at = "program" /\ Mode = "mqtt"
    /\ \/ /\ EraseCells(ChunkCells(Mode, Number)) /\ Goto("fill")
          /\ UNCHANGED <<ack, faults, unseen>>
       \/ /\ NoTouch /\ Fault /\ unseen' = TRUE /\ Goto("answer")
          /\ ack' \in UnsetAck
    /\ KeepAnnounced /\ KeepFirmware
    /\ UNCHANGED clientVars

FillMqtt ==
    /\ srv.at = "fill"
    /\ \/ ProgramCells(ChunkCells(Mode, Number)) /\ UNCHANGED <<faults, unseen>>
       \/ NoTouch /\ Fault /\ unseen' = TRUE
    /\ ack' \in UnsetAck
    /\ Goto("answer")
    /\ KeepAnnounced /\ KeepFirmware
    /\ UNCHANGED clientVars
-----------------------------------------------------------------------------
\* The checksum is that of the file last announced, the length that of this.
Verified == File \in known /\ VerifyOk(File, crc)

\* Verification reads the file, and again if the sum is wrong.  Should the
\* second reading be right, a firmware image is accepted; for the others
\* nothing is done, and the answer is the one before.
Verify ==
    /\ srv.at = "verify"
    /\ \/ /\ Verified /\ Goto("accept")
          /\ UNCHANGED <<ack, crcMatch, faults, unseen>>
       \/ /\ ~Verified /\ Goto("answer")
          /\ ack' = FALSE /\ crcMatch' = FALSE
          /\ UNCHANGED <<faults, unseen>>
       \/ /\ Verified /\ Fault
          /\ Goto(IF File = "hex" THEN "accept" ELSE "answer")
          /\ unseen' = (unseen \/ File # "hex")
          /\ UNCHANGED <<ack, crcMatch>>
    /\ NoTouch /\ KeepAnnounced
    /\ UNCHANGED <<clientVars, fresh, otaFlash>>

(* Mutant of Recorded: a new recipe is not noted as one. *)
RecordedPlain(f) == [info EXCEPT ![f] = crc]

Recorded(f) == [info EXCEPT ![f] = crc, !.extract = @ \/ f = "rec"]

\* The file becomes the accepted one, and a reload is asked for, before the
\* block that says so is saved.
Accept ==
    /\ srv.at = "accept"
    /\ ack' = TRUE /\ crcMatch' = TRUE
    /\ touched' = touched \ {File}
    /\ IF File = "hex"
       THEN fresh' = crc /\ Goto("saveHex") /\ UNCHANGED <<info, flag>>
       ELSE /\ info' = Recorded(File)
            /\ flag' = [flag EXCEPT ![File] = TRUE]
            /\ Goto("save")
            /\ UNCHANGED fresh
    /\ KeepAnnounced
    /\ UNCHANGED <<clientVars, otaFlash, unseen, area, block, image, clean, faults>>

\* ExtFlash_update_gPlcRecFlash.
Save ==
    /\ \/ srv.at = "save" /\ EraseBlock("ota") /\ Goto("saved")
       \/ srv.at = "saved" /\ ProgramBlock("ota") /\ Goto("answer")
    /\ UNCHANGED <<clientVars, otaVars, unseen, area, info, flag, touched, clean, faults>>

(* Mutant of SaveHex: what was erased is not programmed. *)
SaveHexErased ==
    /\ srv.at = "saveHex" /\ otaFlash' = Mixed
    /\ Goto(IF srv.frame.state = FINISH THEN "idle" ELSE "answer")
    /\ KeepAnnounced
    /\ UNCHANGED <<clientVars, ack, crcMatch, fresh, unseen, storeVars>>

\* ExtFlash_update_OTA_Data, after verification or after the client's FINISH.
SaveHex ==
    /\ \/ srv.at = "saveHex" /\ otaFlash' = Mixed /\ Goto("savedHex")
       \/ srv.at = "savedHex" /\ otaFlash' = fresh
          /\ Goto(IF srv.frame.state = FINISH THEN "idle" ELSE "answer")
    /\ KeepAnnounced
    /\ UNCHANGED <<clientVars, ack, crcMatch, fresh, unseen, storeVars>>
-----------------------------------------------------------------------------
AckAnswer   == [state |-> srv.frame.state, n |-> Number, ok |-> ack]
FinalAnswer == [state |-> FINISH, n |-> 0, ok |-> TRUE]

(* Mutant of Finished: verification is taken for success. *)
FinishedAsked == srv.frame.state = VERIFICATION

Finished == crcMatch /\ srv.frame.state = VERIFICATION

\* The answer, and a last one when a file has just been accepted, after which
\* the device restarts for a firmware image.  A publication may be lost.
Answer ==
    /\ srv.at = "answer"
    /\ LET done == srv.frame.state = FINISH /\ File = "hex" /\ Mode = "tcp"
           said == IF done THEN <<FinalAnswer, FinalAnswer>>
                   ELSE <<AckAnswer>> \o (IF Finished THEN <<FinalAnswer>> ELSE <<>>)
       IN /\ crcMatch' = (crcMatch /\ ~Finished /\ ~done)
          /\ Goto(IF done THEN "saveHex"
                  ELSE IF Finished /\ File = "hex" THEN "reboot" ELSE "idle")
          /\ \/ outbox' = outbox \o said /\ UNCHANGED faults
             \/ /\ Mode = "mqtt" /\ Fault
                /\ \E i \in 1 .. Len(said) :
                    outbox' = outbox \o SubSeq(said, 1, i - 1)
                                     \o SubSeq(said, i + 1, Len(said))
          /\ response' = IF Mode = "tcp" THEN <<said[Len(said)]>> ELSE response
    /\ NoTouch /\ KeepAnnounced
    /\ UNCHANGED <<client, inbox, ack, fresh, otaFlash, unseen>>

\* FINISH for a firmware image, sent by itself: the device has restarted.
AskFinish ==
    /\ ~client.on /\ inbox = <<>> /\ outbox = <<>> /\ srv.at = "idle"
    /\ SendFrame([client.last EXCEPT !.state = FINISH, !.file = "hex"])
    /\ Fault
    /\ UNCHANGED <<client, response, unseen, area, info, block, image, flag, touched, clean>>

Client == (\E f \in Files : Announce(f)) \/ Repeat \/ GiveUp \/ AskFinish
Server ==
    \/ Receive \/ Garbled \/ Erase \/ ProgramTcp \/ EraseMqtt \/ FillMqtt
    \/ Verify \/ Accept \/ Save \/ SaveHex \/ Answer

\* A chunk the client sent again is being written over itself.
Rewriting == srv.at \in {"program", "fill"} /\ Number \in client.acked

\* A reset: what was in memory is gone, and so is a TCP connection.
ServerReset ==
    /\ client' = IF client.last.mode = "mqtt" THEN client ELSE Idle(client.last.mode, client.last.ver)
    /\ inbox' = <<>> /\ outbox' = <<>> /\ response' = <<>>
    /\ srv' = Waiting
    /\ ack' = FALSE /\ crc' = None /\ known' = {}
    /\ crcMatch' = FALSE
    \* ExtFlash_Read_OTA_Data: defaults when torn, and saved again at once
    /\ fresh' = IF otaFlash = Mixed THEN None ELSE otaFlash
    /\ otaFlash' = fresh'
    /\ unseen' = (unseen \/ Rewriting)
=============================================================================
