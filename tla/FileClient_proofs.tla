-------------------------- MODULE FileClient_proofs --------------------------
(***************************************************************************)
(* What the client of a file transfer may conclude from the answers it     *)
(* gets, and that the values of the recipe's variables are those of the    *)
(* accepted recipe, for any number of cells, versions and faults.          *)
(***************************************************************************)
EXTENDS FileUpdate_proofs

(***************************************************************************)
(* The values follow the recipe.  They are in memory and in a sector of    *)
(* their own, the recipe they should be of is in the record in memory, in  *)
(* flash, or in the copy being saved; a record with the note that a recipe *)
(* is to be extracted asks nothing of the values.                          *)
(***************************************************************************)
Follows(i, v) == ~i.extract => v \in {None, i.rec}

\* The loader is between the note that a recipe was extracted and the end of
\* the writing of its values.
Writing == ld.at \in {"save", "saved", "wipe", "write"}

\* Record i is what a reset would find, or find once the save under way ends.
Copy(i) ==
    \/ srv.at # "saved" /\ ld.at # "saved" /\ i = block.val
    \/ srv.at = "saved" /\ i = image["ota"]
    \/ ld.at = "saved" /\ i = image["plc"]

RecordFollowed(i) == Follows(i, vals) /\ (~Writing => Follows(i, recipe))

\* Of a program that was loaded clean the values follow the recipe even if
\* its file is verified once more, which asks for its extraction again.
LoadedFollowed ==
    /\ clean /\ (Writing \/ ld.at \in {"restore", "loop"}) => vals \in {None, info.rec}
    /\ clean /\ ld.at = "restore" => recipe \in {None, info.rec}

ValuesInv ==
    harm = {} =>
        /\ RecordFollowed(info)
        /\ ld.at # "save" => \A i \in Info : Copy(i) => RecordFollowed(i)
        /\ LoadedFollowed

LEMMA ValuesInit == Init => ValuesInv
BY DEF Init, StoreInit, ServerInit, LoaderInit, Waiting, ValuesInv, RecordFollowed, Follows,
       Writing, Copy, LoadedFollowed

\* A step that leaves the values and the loader's place alone, and whose
\* records are followed if those before it are.
LEMMA ValuesKept ==
    ASSUME ValuesInv, harm \subseteq harm', UNCHANGED <<ld, vals, recipe>>,
           harm' = {} => \/ info' = info
                         \/ info'.extract /\ (clean /\ ld.at # "check" => info'.rec = info.rec)
                         \/ info'.extract = info.extract /\ info'.rec = info.rec,
           harm' = {} => \A i \in Info : Copy(i)' => Copy(i) \/ i = info,
           clean' => clean
    PROVE  ValuesInv'
<1> SUFFICES ASSUME harm' = {} PROVE ValuesInv'
  BY DEF ValuesInv
<1>1. harm = {}
  OBVIOUS
<1>2. RecordFollowed(info) /\ LoadedFollowed
      /\ (ld.at # "save" => \A i \in Info : Copy(i) => RecordFollowed(i))
  BY <1>1 DEF ValuesInv
<1>3. RecordFollowed(info)'
  BY <1>2 DEF RecordFollowed, Follows, Writing
<1>4. LoadedFollowed'
  <2>1. CASE ~clean'
    BY <2>1 DEF LoadedFollowed
  <2>2. CASE clean'
    <3>1. ld.at # "check" => info'.rec = info.rec
      BY <2>2
    <3> QED BY <1>2, <2>2, <3>1 DEF LoadedFollowed, Writing
  <2> QED BY <2>1, <2>2
<1>5. ld.at # "save" => \A i \in Info : Copy(i)' => RecordFollowed(i)'
  <2>1. \A i \in Info : RecordFollowed(i) => RecordFollowed(i)'
    BY DEF RecordFollowed, Follows, Writing
  <2> QED BY <1>2, <2>1
<1> QED BY <1>3, <1>4, <1>5 DEF ValuesInv

\* The places of the two tasks in a step that does not save.
LEMMA ServerPlace ==
    ASSUME ServerTyped, Server, ~Accept, ~Save
    PROVE  srv.at \notin {"save", "saved"} /\ srv'.at \notin {"save", "saved"}
           /\ UNCHANGED <<block, image, info>>
<1>0. \/ Receive \/ Garbled \/ Erase \/ ProgramTcp \/ EraseMqtt \/ FillMqtt \/ Verify
      \/ SaveHex \/ Answer
  BY DEF Server
<1>1. UNCHANGED <<block, image, info>>
  BY <1>0 DEF Receive, Garbled, Erase, ProgramTcp, EraseMqtt, FillMqtt, Verify, SaveHex, Answer,
              NoTouch, EraseCells, ProgramCells, Touch, storeVars
<1>2. CASE Receive
  <2>1. srv'.at \in {"verify", "erase", "program", "answer"}
    BY <1>2 DEF Receive
  <2> QED BY <1>1, <1>2, <2>1 DEF Receive
<1>8. CASE Garbled
  BY <1>1, <1>8, GarbledKeeps
<1>3. CASE Erase
  BY <1>1, <1>3 DEF Erase, ServerTyped
<1>4. CASE ProgramTcp \/ EraseMqtt \/ FillMqtt
  BY <1>1, <1>4, GotoFacts DEF ProgramTcp, EraseMqtt, FillMqtt, ServerPlaces
<1>5. CASE Verify
  BY <1>1, <1>5, GotoFacts DEF Verify, ServerPlaces
<1>6. CASE SaveHex
  BY <1>1, <1>6, GotoFacts DEF SaveHex, ServerPlaces
<1>7. CASE Answer
  <2>1. srv.at = "answer" /\ (Goto("saveHex") \/ Goto("reboot") \/ Goto("idle"))
    BY <1>7 DEF Answer
  <2> QED BY <1>1, <2>1, GotoFacts DEF ServerPlaces
<1> QED BY <1>0, <1>2, <1>3, <1>4, <1>5, <1>6, <1>7, <1>8

LEMMA AcceptValues ==
    ASSUME Typed, Safe, Loading, Accept
    PROVE  \/ info' = info
           \/ info'.extract /\ (clean /\ ld.at # "check" => info'.rec = info.rec)
           \/ info'.extract = info.extract /\ info'.rec = info.rec
<1>1. /\ StoreTyped /\ ServerTyped /\ crc # None /\ Whole(File, crc) /\ info \in Info
  BY TypedParts DEF Accept, Safe, Checked, StoreTyped
<1>2. CASE File = "hex"
  BY <1>2 DEF Accept
<1>3. CASE File = "plc"
  <2>1. info' = Recorded("plc")
    BY <1>3 DEF Accept
  <2>2. info'.extract = info.extract /\ info'.rec = info.rec
    BY <1>1, <2>1 DEF Recorded, Info
  <2> QED BY <2>2
<1>4. CASE File = "rec"
  <2>1. info' = Recorded("rec")
    BY <1>4 DEF Accept
  <2>2. info'.extract /\ info'.rec = crc
    BY <1>1, <2>1 DEF Recorded, Info
  <2>3. clean /\ ld.at # "check" => info["rec"] = crc
    BY <1>1, <1>4, CellAssumption DEF Loading, Kept, Whole, Cells, Logic
  <2> QED BY <2>2, <2>3
<1> QED BY <1>1, <1>2, <1>3, <1>4 DEF ServerTyped, File, Frame, Files, Logic

LEMMA ServerValues ==
    ASSUME Typed, Safe, Saved, Loading, ValuesInv, ServerStep PROVE ValuesInv'
<1>1. /\ StoreTyped /\ ServerTyped /\ harm \subseteq harm' /\ Server
      /\ UNCHANGED <<ld, vals, recipe>>
      /\ srv'.at = "saved" /\ ld'.at = "saved" => "overlap" \in harm'
  BY TypedParts, HarmFacts DEF ServerStep, loaderVars
<1>2. clean' => clean
  BY <1>1 DEF Server, Receive, Garbled, Erase, ProgramTcp, EraseMqtt, FillMqtt, Verify, Accept, Save,
              SaveHex, Answer, NoTouch, EraseCells, ProgramCells, Touch, storeVars
<1>3. CASE Accept
  <2>1. UNCHANGED <<block, image>> /\ srv.at = "accept" /\ srv'.at \in {"save", "saveHex"}
    BY <1>1, <1>3, GotoFacts DEF Accept, ServerPlaces
  <2>2. \A i \in Info : Copy(i)' => Copy(i)
    BY <1>1, <2>1 DEF Copy
  <2> QED BY <1>1, <1>2, <1>3, <2>2, AcceptValues, ValuesKept
<1>4. CASE Save
  <2>1. UNCHANGED info
    BY <1>4 DEF Save
  <2>2. ASSUME harm' = {} PROVE \A i \in Info : Copy(i)' => Copy(i) \/ i = info
    <3>1. ld.at # "saved" \/ srv'.at # "saved"
      BY <1>1, <2>2
    <3>2. CASE srv.at = "save"
      <4>1. srv'.at = "saved" /\ image'["ota"] = info
        BY <1>1, <1>4, <3>2, GotoFacts, SaveFacts DEF Save, ServerPlaces, Writers
      <4> QED BY <1>1, <3>1, <4>1 DEF Copy
    <3>3. CASE srv.at = "saved"
      <4>1. srv'.at = "answer" /\ ProgramBlock("ota")
        BY <1>1, <1>4, <3>3, GotoFacts DEF Save, ServerPlaces
      <4>2. block.st = "erased" /\ ld.at # "saved"
        BY <1>1, <2>2, <3>3, SavedForm
      <4>3. block'.val = image["ota"]
        BY <1>1, <4>1, <4>2, SaveFacts DEF Writers
      <4> QED BY <1>1, <3>3, <4>1, <4>2, <4>3 DEF Copy
    <3> QED BY <1>4, <3>2, <3>3 DEF Save
  <2> QED BY <1>1, <1>2, <2>1, <2>2, ValuesKept
<1>5. CASE ~Accept /\ ~Save
  <2>1. /\ srv.at \notin {"save", "saved"} /\ srv'.at \notin {"save", "saved"}
        /\ UNCHANGED <<block, image, info>>
    BY <1>1, <1>5, ServerPlace
  <2>2. \A i \in Info : Copy(i)' => Copy(i)
    BY <1>1, <2>1 DEF Copy
  <2> QED BY <1>1, <1>2, <2>1, <2>2, ValuesKept
<1> QED BY <1>3, <1>4, <1>5

\* The loader.  In what follows nothing has gone wrong.
LEMMA ParsedValues ==
    ASSUME Typed, Saved, Loading, ValuesInv, Parsed, Harm, UNCHANGED srvVars, harm' = {}
    PROVE  ValuesInv'
<1>1. /\ harm = {} /\ info \in Info /\ ld.at = "parsed"
      /\ UNCHANGED <<srv, block, image, recipe, clean, prog>>
  BY TypedParts, HarmFacts DEF Parsed, At, StoreTyped, srvVars
<1>2. RecordFollowed(info) /\ \A i \in Info : Copy(i) => RecordFollowed(i)
  BY <1>1 DEF ValuesInv
<1>3. CASE info.extract
  <2>1. clean
    BY <1>1, <1>3 DEF Harm, Mistaken
  <2>2. vals' = prog.rec /\ info' = [info EXCEPT !.extract = FALSE] /\ ld'.at = "save"
    BY <1>3 DEF Parsed, To
  <2>3. prog["rec"] = info["rec"]
    BY <1>1, <2>1 DEF Loading, Logic
  <2>4. info'.rec = info.rec
    BY <1>1, <2>2 DEF Info
  <2> QED BY <2>2, <2>3, <2>4 DEF ValuesInv, RecordFollowed, Follows, Writing, LoadedFollowed
<1>4. CASE ~info.extract
  <2>1. UNCHANGED <<vals, info>> /\ ld'.at = "restore"
    BY <1>4 DEF Parsed, To
  <2>2. \A i \in Info : Copy(i)' => Copy(i)
    BY <1>1, <2>1 DEF Copy
  <2>3. \A i \in Info : RecordFollowed(i) => RecordFollowed(i)'
    BY <1>1, <2>1 DEF RecordFollowed, Follows, Writing
  <2>4. vals \in {None, info.rec} /\ recipe \in {None, info.rec}
    BY <1>1, <1>2, <1>4 DEF RecordFollowed, Follows, Writing
  <2>5. LoadedFollowed'
    BY <1>1, <2>1, <2>4 DEF LoadedFollowed
  <2> QED BY <1>1, <1>2, <2>1, <2>2, <2>3, <2>5 DEF ValuesInv
<1> QED BY <1>3, <1>4

LEMMA SaveNoteValues ==
    ASSUME Typed, Saved, ValuesInv, SaveNote, Harm, UNCHANGED srvVars, harm' = {}
    PROVE  ValuesInv'
<1>1. /\ harm = {} /\ info \in Info /\ StoreTyped /\ ld.at \in {"save", "saved"}
      /\ UNCHANGED <<srv, info, vals, recipe, clean>>
      /\ ~(srv'.at = "saved" /\ ld'.at = "saved")
  BY TypedParts, HarmFacts DEF SaveNote, At, StoreTyped, srvVars
<1>2. RecordFollowed(info) /\ LoadedFollowed
  BY <1>1 DEF ValuesInv
<1>3. ld'.at \in {"saved", "wipe"} /\ Writing /\ Writing'
  BY <1>1 DEF SaveNote, To, Writing
<1>4. \A i \in Info : RecordFollowed(i)' <=> RecordFollowed(i)
  BY <1>1, <1>3 DEF RecordFollowed, Follows
<1>5. LoadedFollowed'
  BY <1>1, <1>2, <1>3 DEF LoadedFollowed
<1>6. CASE ld.at = "save"
  <2>1. EraseBlock("plc") /\ ld'.at = "saved"
    BY <1>6 DEF SaveNote, At, To
  <2>2. image'["plc"] = info
    BY <1>1, <2>1, SaveFacts DEF Writers
  <2>3. \A i \in Info : Copy(i)' => i = info
    BY <1>1, <2>1, <2>2 DEF Copy
  <2>4. RecordFollowed(info)'
    BY <1>1, <1>2, <1>4
  <2> QED BY <1>1, <1>2, <1>4, <1>5, <2>3, <2>4 DEF ValuesInv
<1>7. CASE ld.at = "saved"
  <2>1. ProgramBlock("plc") /\ ld'.at = "wipe"
    BY <1>7 DEF SaveNote, At, To
  <2>2. block.st = "erased" /\ srv.at # "saved"
    BY <1>1, <1>7, SavedForm
  <2>3. block'.val = image["plc"]
    BY <1>1, <2>1, <2>2, SaveFacts DEF Writers
  <2>4. \A i \in Info : Copy(i)' => Copy(i)
    BY <1>1, <1>7, <2>1, <2>2, <2>3 DEF Copy
  <2>5. \A i \in Info : Copy(i) => RecordFollowed(i)
    BY <1>1, <1>7 DEF ValuesInv
  <2>6. RecordFollowed(info)'
    BY <1>1, <1>2, <1>4
  <2> QED BY <1>1, <1>4, <1>5, <2>4, <2>5, <2>6 DEF ValuesInv
<1> QED BY <1>1, <1>6, <1>7

\* The steps that load a program; none that ends loading otherwise leaves it
\* counted as clean.
LEMMA LoadingPlaces ==
    ASSUME LoaderTyped, Check \/ Reload \/ Lower \/ Extract \/ ReadCell
    PROVE  /\ UNCHANGED <<vals, recipe, info, block, image>> /\ ~Writing /\ ~Writing'
           /\ ld'.at \in {"restore", "loop"} => ~clean'
<1>1. UNCHANGED <<vals, recipe, info, block, image>>
  BY DEF Check, Reload, Lower, Extract, ReadCell, KeepStore
<1>2. CASE Check
  <2>1. ld.at = "check" /\ ld \in [at : LoaderPlaces, f : Logic, got : SUBSET Contents, i : Cells]
    BY <1>2 DEF Check, At, LoaderTyped
  <2>2. \/ ld' = [ld EXCEPT !.f = "rec"]
        \/ To("extract")
        \/ To("loop") /\ ~clean'
    BY <1>2 DEF Check
  <2> QED BY <1>1, <2>1, <2>2 DEF To, Writing
<1>3. CASE ReadCell
  <2>1. \/ \E got : ld' = [ld EXCEPT !.got = got, !.i = @ + 1]
        \/ Reading("rec") \/ To("parsed")
    BY <1>3 DEF ReadCell
  <2>2. ld.at = "read" /\ ld \in [at : LoaderPlaces, f : Logic, got : SUBSET Contents, i : Cells]
    BY <1>3 DEF ReadCell, At, LoaderTyped
  <2>3. \A g : [ld EXCEPT !.got = g, !.i = @ + 1].at = "read"
    BY <2>2
  <2>4. Reading("rec") \/ To("parsed") => ld'.at \in {"read", "parsed"}
    BY DEF Reading, To
  <2>5. ld'.at \in {"read", "parsed"}
    BY <2>1, <2>3, <2>4
  <2> QED BY <1>1, <2>2, <2>5 DEF Writing
<1>4. CASE Reload \/ Lower \/ Extract
  <2>1. ld.at \in {"loop", "lower", "extract"} /\ ld'.at \in {"lower", "extract", "read", "restore"}
        /\ (ld'.at = "restore" => ~clean')
    BY <1>4 DEF Reload, Lower, Extract, At, To, Reading
  <2> QED BY <1>1, <2>1 DEF Writing
<1> QED BY <1>2, <1>3, <1>4

LEMMA LoaderValues ==
    ASSUME Typed, Saved, Loading, ValuesInv, LoaderStep PROVE ValuesInv'
<1> SUFFICES ASSUME harm' = {} PROVE ValuesInv'
  BY DEF ValuesInv
<1>1. /\ harm = {} /\ info \in Info /\ LoaderTyped /\ Loader /\ Harm
      /\ UNCHANGED srvVars /\ UNCHANGED srv
  BY TypedParts, HarmFacts DEF LoaderStep, StoreTyped, srvVars
<1>2. /\ RecordFollowed(info) /\ LoadedFollowed
      /\ ld.at # "save" => \A i \in Info : Copy(i) => RecordFollowed(i)
  BY <1>1 DEF ValuesInv
<1>3. CASE Check \/ Reload \/ Lower \/ Extract \/ ReadCell
  <2>1. /\ UNCHANGED <<vals, recipe, info, block, image>> /\ ~Writing /\ ~Writing'
        /\ ld'.at \in {"restore", "loop"} => ~clean'
    BY <1>1, <1>3, LoadingPlaces
  <2>2. \A i \in Info : Copy(i)' => Copy(i)
    BY <1>1, <2>1 DEF Copy, Writing
  <2>3. \A i \in Info : RecordFollowed(i) => RecordFollowed(i)'
    BY <2>1 DEF RecordFollowed, Follows
  <2>4. LoadedFollowed'
    BY <2>1 DEF LoadedFollowed
  <2>5. RecordFollowed(info)'
    BY <1>1, <1>2, <2>1, <2>3
  <2>6. \A i \in Info : Copy(i)' => RecordFollowed(i)'
    BY <1>2, <2>1, <2>2, <2>3 DEF Writing
  <2> QED BY <2>4, <2>5, <2>6 DEF ValuesInv
<1>4. CASE Parsed
  BY <1>1, <1>4, ParsedValues
<1>5. CASE SaveNote
  BY <1>1, <1>5, SaveNoteValues
<1>6. CASE WriteRecipe \/ Restore
  <2>1. /\ UNCHANGED <<info, block, image, clean>>
        /\ ld.at \in {"wipe", "write", "restore"} /\ ld'.at \in {"write", "restore", "loop"}
        /\ \A i \in Info : Copy(i) => RecordFollowed(i)
    BY <1>2, <1>6 DEF WriteRecipe, Restore, KeepStore, At, To
  <2>2. \A i \in Info : Copy(i)' => Copy(i)
    BY <1>1, <2>1 DEF Copy
  <2>3. \/ Writing' /\ UNCHANGED vals /\ ld.at = "wipe" /\ ld'.at = "write"
        \/ recipe' = vals /\ UNCHANGED vals /\ ld.at = "write" /\ ld'.at = "restore"
        \/ UNCHANGED recipe /\ vals' \in {vals, recipe} /\ ld.at = "restore" /\ ld'.at = "loop"
    BY <1>6 DEF WriteRecipe, Restore, At, To, Writing
  <2>4. \A i \in Info : RecordFollowed(i) => RecordFollowed(i)'
    BY <2>3 DEF RecordFollowed, Follows, Writing
  <2>5. LoadedFollowed'
    BY <1>2, <2>1, <2>3 DEF LoadedFollowed, Writing
  <2>6. RecordFollowed(info)'
    BY <1>1, <1>2, <2>1, <2>4
  <2>7. \A i \in Info : Copy(i)' => RecordFollowed(i)'
    BY <2>1, <2>2, <2>4
  <2> QED BY <2>5, <2>6, <2>7 DEF ValuesInv
<1> QED BY <1>1, <1>3, <1>4, <1>5, <1>6 DEF Loader

\* The LoRa task writes what is in memory.
LEMMA ValuesValues == ASSUME Typed, ValuesInv, ValuesStep PROVE ValuesInv'
<1> SUFFICES ASSUME harm' = {} PROVE ValuesInv'
  BY DEF ValuesInv
<1>1. /\ harm = {} /\ info \in Info /\ UNCHANGED <<info, block, image, clean, ld, vals, srv>>
      /\ recipe' \in {None, vals}
  BY TypedParts DEF ValuesStep, SaveValues, KeepStore, StoreTyped, srvVars
<1>2. /\ RecordFollowed(info) /\ LoadedFollowed
      /\ ld.at # "save" => \A i \in Info : Copy(i) => RecordFollowed(i)
  BY <1>1 DEF ValuesInv
<1>3. \A i \in Info : (Copy(i)' => Copy(i)) /\ (RecordFollowed(i) => RecordFollowed(i)')
  BY <1>1 DEF Copy, RecordFollowed, Follows, Writing
<1>4. LoadedFollowed'
  BY <1>1, <1>2 DEF LoadedFollowed, Writing
<1>5. RecordFollowed(info)'
  BY <1>1, <1>2, <1>3
<1>6. ld'.at # "save" => \A i \in Info : Copy(i)' => RecordFollowed(i)'
  BY <1>1, <1>2, <1>3
<1> QED BY <1>4, <1>5, <1>6 DEF ValuesInv

\* A reset that hits neither a save nor an extraction.
LEMMA ResetValues == ASSUME Typed, Saved, ValuesInv, Reset PROVE ValuesInv'
<1> SUFFICES ASSUME harm' = {} PROVE ValuesInv'
  BY DEF ValuesInv
<1>1. harm = {} /\ Saving = {} /\ ~Extracting
  BY DEF Reset, Cut
<1>2. srv.at # "saved" /\ ~Writing
  BY <1>1 DEF Saving, Writers, Extracting, Writing
<1>3. block.st = "good" /\ block.val \in Info /\ Copy(block.val)
  BY <1>1, <1>2, SavedForm, TypedParts DEF StoreTyped, Copy, Writing
<1>4. RecordFollowed(block.val)
  BY <1>1, <1>2, <1>3 DEF ValuesInv, Writing
<1>5. /\ info' = block.val /\ block' = [st |-> "good", val |-> info'] /\ vals' = None
      /\ UNCHANGED recipe /\ ld'.at = "check" /\ srv'.at = "idle" /\ ~clean'
  BY <1>3 DEF Reset, ServerReset, LoaderReset, Waiting
<1>6. RecordFollowed(info)' /\ \A i \in Info : Copy(i)' => i = info'
  BY <1>2, <1>4, <1>5 DEF RecordFollowed, Follows, Writing, Copy
<1>7. LoadedFollowed'
  BY <1>5 DEF LoadedFollowed
<1>8. info' \in Info
  BY <1>3, <1>5
<1> QED BY <1>6, <1>7, <1>8 DEF ValuesInv

LEMMA NextKeepsValues ==
    ASSUME Typed, Safe, Saved, Loading, ValuesInv, [Next]_vars PROVE ValuesInv'
<1>1. CASE ClientStep \/ UNCHANGED vars
  <2>1. UNCHANGED <<srv, ld, harm, block, image, info, vals, recipe, clean>>
    BY <1>1 DEF ClientStep, Client, Hear, Announce, Repeat, GiveUp, AskFinish, SendFrame,
                vars, srvVars, storeVars, loaderVars
  <2> QED BY <2>1, ValuesKept DEF Copy
<1>2. CASE Restart \/ PowerFailure
  BY <1>2, ResetValues DEF Restart, PowerFailure
<1> QED BY <1>1, <1>2, ServerValues, LoaderValues, ValuesValues DEF Next

\* Once a recipe that was accepted is loaded, the values of its variables
\* are its own or there are none, unless a failure hit the save of the block
\* or of the values (pcbplc.c:1050-1076, pcbplccomm.c:1423-1530).
THEOREM ValuesCorrect == Spec => []ValuesFollowRecipe
<1>1. ValuesInv => ValuesFollowRecipe
  BY DEF ValuesInv, LoadedFollowed, ValuesFollowRecipe
<1>2. Init => ValuesInv
  BY ValuesInit
<1>3. IInv /\ ValuesInv /\ [Next]_vars => ValuesInv'
  BY NextKeepsValues DEF IInv, Safe
<1> QED BY <1>1, <1>2, <1>3, Invariant, PTL DEF Spec

(***************************************************************************)
(* Frames and answers in their order.                                      *)
(***************************************************************************)
Reply == [state : {START, IN_PROGRESS, VERIFICATION, FINISH}, n : Nat, ok : BOOLEAN]

RepliesTyped == outbox \in Seq(Reply) /\ response \in Seq(Reply) /\ ack \in BOOLEAN

\* The answers on their way, and the one that may be sent again.
Said == {outbox[i] : i \in 1 .. Len(outbox)} \cup {response[i] : i \in 1 .. Len(response)}

\* The frame at hand is the client's FINISH for an image sent over TCP.
Done == srv.frame.state = FINISH /\ File = "hex" /\ Mode = "tcp"

\* Taking the first element, and putting one at the end.
LEMMA TakenFrom ==
    ASSUME NEW S, NEW s \in Seq(S), s # <<>>
    PROVE  /\ Tail(s) \in Seq(S) /\ 1 \in 1 .. Len(s) /\ Head(s) = s[1] /\ Head(s) \in S
           /\ \A i \in 1 .. Len(Tail(s)) : i + 1 \in 1 .. Len(s) /\ Tail(s)[i] = s[i + 1]
           /\ \A i \in 1 .. Len(s) : i # 1 => i - 1 \in 1 .. Len(Tail(s)) /\ Tail(s)[i - 1] = s[i]
OBVIOUS

LEMMA PutAtEnd ==
    ASSUME NEW S, NEW s \in Seq(S), NEW e \in S
    PROVE  /\ Append(s, e) \in Seq(S) /\ Len(s) \in Nat /\ Len(Append(s, e)) = Len(s) + 1
           /\ \A i \in 1 .. Len(s) : i \in 1 .. Len(Append(s, e)) /\ Append(s, e)[i] = s[i]
           /\ \A i \in 1 .. Len(Append(s, e)) :
                 (i \in 1 .. Len(s) /\ Append(s, e)[i] = s[i]) \/ (i = Len(s) + 1 /\ Append(s, e)[i] = e)
OBVIOUS

LEMMA Joined ==
    ASSUME NEW S, NEW s \in Seq(S), NEW t \in Seq(S)
    PROVE  /\ s \o t \in Seq(S) /\ Len(s) \in Nat /\ Len(t) \in Nat
           /\ \A i \in 1 .. Len(s) : i \in 1 .. Len(s \o t) /\ (s \o t)[i] = s[i]
           /\ \A i \in 1 .. Len(t) :
                 Len(s) + i \in 1 .. Len(s \o t) /\ (s \o t)[Len(s) + i] = t[i]
           /\ \A i \in 1 .. Len(s \o t) :
                 \/ i \in 1 .. Len(s) /\ (s \o t)[i] = s[i]
                 \/ \E j \in 1 .. Len(t) : i = Len(s) + j /\ (s \o t)[i] = t[j]
<1>1. /\ s \o t \in Seq(S) /\ Len(s \o t) = Len(s) + Len(t) /\ Len(s) \in Nat /\ Len(t) \in Nat
      /\ \A i \in 1 .. Len(s) + Len(t) :
            (s \o t)[i] = IF i <= Len(s) THEN s[i] ELSE t[i - Len(s)]
  BY ConcatProperties, LenProperties
<1>2. ASSUME NEW i \in 1 .. Len(t)
      PROVE  Len(s) + i \in 1 .. Len(s \o t) /\ (s \o t)[Len(s) + i] = t[i]
  <2>1. Len(s) + i \in 1 .. Len(s) + Len(t) /\ ~(Len(s) + i <= Len(s)) /\ (Len(s) + i) - Len(s) = i
    BY <1>1
  <2> QED BY <1>1, <2>1
<1>3. ASSUME NEW i \in 1 .. Len(s \o t), ~(i <= Len(s))
      PROVE  \E j \in 1 .. Len(t) : i = Len(s) + j /\ (s \o t)[i] = t[j]
  <2>1. i - Len(s) \in 1 .. Len(t) /\ i = Len(s) + (i - Len(s)) /\ (s \o t)[i] = t[i - Len(s)]
    BY <1>1, <1>3
  <2> QED BY <2>1
<1>4. \A i \in 1 .. Len(s) : i \in 1 .. Len(s \o t) /\ (s \o t)[i] = s[i]
  BY <1>1
<1>5. \A i \in 1 .. Len(s \o t) : i <= Len(s) => i \in 1 .. Len(s)
  BY <1>1
<1> QED BY <1>1, <1>2, <1>3, <1>4, <1>5

LEMMA SaidTyped == RepliesTyped => Said \subseteq Reply
BY ElementOfSeq DEF RepliesTyped, Said

LEMMA SaidNone == outbox' = <<>> /\ response' = <<>> => Said' = {}
<1> SUFFICES ASSUME outbox' = <<>>, response' = <<>> PROVE Said' = {}
  OBVIOUS
<1>1. 1 .. Len(outbox') = {} /\ 1 .. Len(response') = {}
  OBVIOUS
<1> QED BY <1>1 DEF Said

LEMMA SaidSame == ASSUME UNCHANGED <<outbox, response>> PROVE Said' = Said
BY DEF Said

\* Hearing an answer, and sending the last one again, says nothing new.
LEMMA SaidHeard ==
    ASSUME RepliesTyped, outbox # <<>>, outbox' = Tail(outbox), response' = response
    PROVE  outbox[1] \in Said /\ Said' \subseteq Said
<1>1. 1 \in 1 .. Len(outbox)
      /\ \A i \in 1 .. Len(outbox') : i + 1 \in 1 .. Len(outbox) /\ outbox'[i] = outbox[i + 1]
  BY TakenFrom DEF RepliesTyped
<1> QED BY <1>1 DEF Said

LEMMA GarbledSaid ==
    ASSUME ServerTyped, RepliesTyped, Garbled
    PROVE  /\ RepliesTyped' /\ Said' \subseteq Said
           /\ \A i \in 1 .. Len(outbox) : i \in 1 .. Len(outbox') /\ outbox'[i] = outbox[i]
<1>1. outbox \in Seq(Reply) /\ response \in Seq(Reply) /\ UNCHANGED <<response, ack>>
  BY GarbledKeeps DEF RepliesTyped
<1> DEFINE S == {response[i] : i \in 1 .. Len(response)}
<1>2. response \in Seq(S) /\ <<>> \in Seq(S)
  BY <1>1
<1>3. S \subseteq Reply
  BY <1>1, ElementOfSeq
<1> HIDE DEF S
<1>4. PICK again \in {response, response \o response, <<>>} : outbox' = outbox \o again
  BY DEF Garbled
<1>5. again \in Seq(S) /\ again \in Seq(Reply)
  <2>1. response \o response \in Seq(S)
    BY <1>2, Joined
  <2>2. response \o response \in Seq(Reply)
    BY <1>1, Joined
  <2>3. <<>> \in Seq(Reply) /\ <<>> \in Seq(S)
    OBVIOUS
  <2>4. again = response \/ again = response \o response \/ again = <<>>
    BY <1>4
  <2> QED BY <1>1, <1>2, <2>1, <2>2, <2>3, <2>4
<1>6. \A j \in 1 .. Len(again) : again[j] \in S
  BY <1>5, ElementOfSeq
<1>7. /\ outbox' \in Seq(Reply)
      /\ \A i \in 1 .. Len(outbox) : i \in 1 .. Len(outbox') /\ outbox'[i] = outbox[i]
      /\ \A i \in 1 .. Len(outbox') :
            \/ i \in 1 .. Len(outbox) /\ outbox'[i] = outbox[i]
            \/ \E j \in 1 .. Len(again) : i = Len(outbox) + j /\ outbox'[i] = again[j]
  BY <1>1, <1>4, <1>5, Joined
<1>8. Said' \subseteq Said
  <2>1. S \subseteq Said
    BY DEF Said, S
  <2>2. \A i \in 1 .. Len(outbox') : outbox'[i] \in Said
    <3>1. \A i \in 1 .. Len(outbox) : outbox[i] \in Said
      BY DEF Said
    <3> QED BY <1>6, <1>7, <2>1, <3>1
  <2>3. \A i \in 1 .. Len(response') : response'[i] \in Said
    BY <1>1 DEF Said
  <2> QED BY <2>2, <2>3 DEF Said
<1> QED BY <1>1, <1>7, <1>8 DEF RepliesTyped

\* What an answer adds: the answer proper, a last one if a file has just
\* been accepted, and over TCP nothing is lost.
LEMMA AnswerAdds ==
    ASSUME ServerTyped, RepliesTyped, Answer
    PROVE  /\ RepliesTyped'
           /\ \A i \in 1 .. Len(outbox) : i \in 1 .. Len(outbox') /\ outbox'[i] = outbox[i]
           /\ \A a \in Said' : \/ a \in Said
                               \/ ~Done /\ a = AckAnswer
                               \/ (Done \/ Finished) /\ a = FinalAnswer
           /\ Mode = "tcp" /\ ~Done => \E i \in 1 .. Len(outbox') : outbox'[i] = AckAnswer
<1> DEFINE said == IF Done THEN <<FinalAnswer, FinalAnswer>>
                   ELSE <<AckAnswer>> \o (IF Finished THEN <<FinalAnswer>> ELSE <<>>)
           But(i) == SubSeq(said, 1, i - 1) \o SubSeq(said, i + 1, Len(said))
<1>1. AckAnswer \in Reply /\ FinalAnswer \in Reply
  BY DEF AckAnswer, FinalAnswer, Reply, RepliesTyped, ServerTyped, Number, Frame
<1>2. /\ said \in Seq(Reply)
      /\ \A i \in 1 .. Len(said) : \/ ~Done /\ said[i] = AckAnswer
                                   \/ (Done \/ Finished) /\ said[i] = FinalAnswer
      /\ ~Done => 1 \in 1 .. Len(said) /\ said[1] = AckAnswer
  <2>1. CASE Done
    BY <1>1, <2>1
  <2>2. CASE ~Done /\ Finished
    <3>1. said = <<AckAnswer>> \o <<FinalAnswer>>
      BY <2>2
    <3> HIDE DEF said
    <3> DEFINE s == <<AckAnswer>>
               t == <<FinalAnswer>>
    <3>4. /\ s \in Seq(Reply) /\ t \in Seq(Reply) /\ Len(s) = 1 /\ Len(t) = 1
          /\ s[1] = AckAnswer /\ t[1] = FinalAnswer
      BY <1>1
    <3> HIDE DEF s, t
    <3>5. said = s \o t
      BY <3>1 DEF s, t
    <3>2. Len(said) = 2 /\ said[1] = AckAnswer /\ said[2] = FinalAnswer /\ said \in Seq(Reply)
      BY <3>4, <3>5, ConcatProperties
    <3>3. \A i \in 1 .. Len(said) : i = 1 \/ i = 2
      BY <3>2
    <3> QED BY <2>2, <3>2, <3>3
  <2>3. CASE ~Done /\ ~Finished
    <3>1. said = <<AckAnswer>>
      BY <1>1, <2>3
    <3> QED BY <1>1, <2>3, <3>1
  <2> QED BY <2>1, <2>2, <2>3
<1>3. \/ outbox' = outbox \o said
      \/ Mode = "mqtt" /\ \E i \in 1 .. Len(said) : outbox' = (outbox \o SubSeq(said, 1, i - 1))
                                                          \o SubSeq(said, i + 1, Len(said))
  BY DEF Answer, Done
<1>10. response' = IF Mode = "tcp" THEN <<said[Len(said)]>> ELSE response
  BY DEF Answer, Done
<1>11. Len(said) \in 1 .. Len(said)
  BY <1>1
<1> HIDE DEF said
<1>4. ack' = ack
  BY DEF Answer
<1>9. /\ response' \in Seq(Reply)
      /\ \A i \in 1 .. Len(response') :
            \/ i \in 1 .. Len(response) /\ response'[i] = response[i]
            \/ ~Done /\ response'[i] = AckAnswer
            \/ (Done \/ Finished) /\ response'[i] = FinalAnswer
  <2>1. CASE response' = response
    BY <2>1 DEF RepliesTyped
  <2>2. CASE response' = <<said[Len(said)]>>
    <3>1. said[Len(said)] \in Reply
      BY <1>2, <1>11, ElementOfSeq
    <3>2. response' \in Seq(Reply) /\ Len(response') = 1 /\ response'[1] = said[Len(said)]
      BY <2>2, <3>1
    <3> QED BY <1>2, <1>11, <3>2
  <2> QED BY <1>10, <2>1, <2>2
<1>5. ASSUME NEW t \in Seq(Reply), outbox' = outbox \o t,
             \A i \in 1 .. Len(t) : \E j \in 1 .. Len(said) : t[i] = said[j]
      PROVE  /\ RepliesTyped'
             /\ \A i \in 1 .. Len(outbox) : i \in 1 .. Len(outbox') /\ outbox'[i] = outbox[i]
             /\ \A a \in Said' : \/ a \in Said
                                 \/ ~Done /\ a = AckAnswer
                                 \/ (Done \/ Finished) /\ a = FinalAnswer
  <2>1. outbox \in Seq(Reply)
    BY DEF RepliesTyped
  <2>2. /\ outbox' \in Seq(Reply)
        /\ \A i \in 1 .. Len(outbox) : i \in 1 .. Len(outbox') /\ outbox'[i] = outbox[i]
        /\ \A i \in 1 .. Len(outbox') :
              \/ i \in 1 .. Len(outbox) /\ outbox'[i] = outbox[i]
              \/ \E j \in 1 .. Len(t) : i = Len(outbox) + j /\ outbox'[i] = t[j]
    BY <1>5, <2>1, Joined
  <2>3. RepliesTyped'
    BY <1>4, <1>9, <2>2 DEF RepliesTyped
  <2>4. \A i \in 1 .. Len(t) : \/ ~Done /\ t[i] = AckAnswer
                               \/ (Done \/ Finished) /\ t[i] = FinalAnswer
    BY <1>2, <1>5
  <2>5. ASSUME NEW a \in Said'
        PROVE  a \in Said \/ (~Done /\ a = AckAnswer) \/ ((Done \/ Finished) /\ a = FinalAnswer)
    <3>1. CASE \E i \in 1 .. Len(outbox') : a = outbox'[i]
      BY <2>2, <2>4, <3>1 DEF Said
    <3>2. CASE \E i \in 1 .. Len(response') : a = response'[i]
      BY <1>9, <3>2 DEF Said
    <3> QED BY <2>5, <3>1, <3>2 DEF Said
  <2> QED BY <2>2, <2>3, <2>5
<1>6. CASE outbox' = outbox \o said
  <2>1. outbox \in Seq(Reply)
    BY DEF RepliesTyped
  <2>2. \A i \in 1 .. Len(said) : Len(outbox) + i \in 1 .. Len(outbox') /\ outbox'[Len(outbox) + i] = said[i]
    BY <1>2, <1>6, <2>1, Joined
  <2>3. ~Done => \E i \in 1 .. Len(outbox') : outbox'[i] = AckAnswer
    BY <1>2, <2>2
  <2> QED BY <1>2, <1>5, <1>6, <2>3
<1>7. ASSUME NEW i \in 1 .. Len(said), Mode = "mqtt",
             outbox' = (outbox \o SubSeq(said, 1, i - 1)) \o SubSeq(said, i + 1, Len(said))
      PROVE  \E t \in Seq(Reply) : /\ outbox' = outbox \o t
                                   /\ \A k \in 1 .. Len(t) : \E j \in 1 .. Len(said) : t[k] = said[j]
  <2> DEFINE a == SubSeq(said, 1, i - 1)
             b == SubSeq(said, i + 1, Len(said))
  <2>1. Len(said) \in Nat /\ (\A k \in 1 .. Len(said) : said[k] \in Reply) /\ i \in 1 .. Len(said)
    BY <1>2
  <2>2. /\ a \in Seq(Reply) /\ Len(a) = i - 1 /\ \A k \in 1 .. i - 1 : a[k] = said[k]
    BY <2>1, <1>2
  <2>3. /\ b \in Seq(Reply) /\ Len(b) = Len(said) - i
        /\ \A k \in 1 .. Len(said) - i : b[k] = said[i + k]
    BY <2>1, <1>2
  <2> HIDE DEF a, b
  <2>4. outbox' = (outbox \o a) \o b
    BY <1>7 DEF a, b
  <2>5. (outbox \o a) \o b = outbox \o (a \o b)
    <3>1. outbox \in Seq(Reply)
      BY DEF RepliesTyped
    <3> QED BY <2>2, <2>3, <3>1, ConcatAssociative
  <2>6. a \o b \in Seq(Reply)
    BY <2>2, <2>3
  <2> DEFINE T == {said[j] : j \in 1 .. Len(said)}
  <2>7. a \in Seq(T)
    <3>1. \A k \in 1 .. Len(a) : a[k] \in T
      BY <2>1, <2>2
    <3> HIDE DEF T
    <3> QED BY <2>2, <3>1
  <2>8. b \in Seq(T)
    <3>1. \A k \in 1 .. Len(b) : b[k] \in T
      BY <2>1, <2>3
    <3> HIDE DEF T
    <3> QED BY <2>3, <3>1
  <2>9. \A k \in 1 .. Len(a \o b) : (a \o b)[k] \in T
    <3> HIDE DEF T
    <3> QED BY <2>7, <2>8, ConcatProperties, ElementOfSeq
  <2>10. \A k \in 1 .. Len(a \o b) : \E j \in 1 .. Len(said) : (a \o b)[k] = said[j]
    BY <2>9
  <2> QED BY <2>4, <2>5, <2>6, <2>10
<1>8. Mode # "mqtt" \/ Mode # "tcp"
  OBVIOUS
<1> QED BY <1>3, <1>5, <1>6, <1>7, <1>8

\* What an answer or a frame b is for comes no earlier than what a is for.
UpTo(a, b) == b.state = VERIFICATION \/ (a.state # VERIFICATION /\ a.n <= b.n)

Busy == srv.at # "idle"

\* A frame of the present transfer: the one being handled, those on their
\* way, and what the client sent last and may send again.
Under(fr) ==
    \/ fr = client.last
    \/ Busy /\ fr = srv.frame
    \/ \E i \in 1 .. Len(inbox) : fr = inbox[i]

OfTransfer(fr) ==
    /\ fr.file = client.last.file /\ fr.ver = client.last.ver /\ fr.mode = client.last.mode
    /\ \/ fr.state \in {START, VERIFICATION} /\ fr.n = 0
       \/ fr.state = IN_PROGRESS /\ fr.n > 0

\* It comes after the chunks the client had an answer for, right after them,
\* and after those whose answer it has not read, or may get again.
Place(fr) ==
    /\ OfTransfer(fr) /\ UpTo(fr, client.last)
    /\ 1 .. (fr.n - 1) \subseteq client.acked
    /\ \A n \in client.acked : fr.state = VERIFICATION \/ n <= fr.n
    /\ \A a \in Said : a.state # FINISH => UpTo(a, fr)

\* The announcement has been read, since when the checksum is that of this
\* transfer, or none after a reset.
Begun == client.last.state # START \/ Busy \/ Said # {}

InOrder ==
    client.on =>
        /\ \A fr \in Frame : Under(fr) => Place(fr)
        /\ Busy => \A i \in 1 .. Len(inbox) : UpTo(srv.frame, inbox[i])
        /\ \A i, j \in 1 .. Len(inbox) : i <= j => UpTo(inbox[i], inbox[j])
        /\ \A a \in Said : a.state = FINISH => a.ok
        /\ Begun => crc \in {None, client.last.ver}

LEMMA OrderInit == Init => InOrder /\ RepliesTyped
<1> SUFFICES ASSUME Init PROVE InOrder /\ RepliesTyped
  OBVIOUS
<1>1. PICK m \in Modes : client = Idle(m, 1)
  BY DEF Init, ServerInit
<1>2. ~client.on
  BY <1>1 DEF Idle, Sending
<1>3. RepliesTyped
  <2>1. outbox = <<>> /\ response = <<>> /\ ack = FALSE
    BY DEF Init, ServerInit
  <2>2. outbox \in Seq(Reply) /\ response \in Seq(Reply)
    BY <2>1
  <2> QED BY <2>1, <2>2 DEF RepliesTyped
<1> QED BY <1>2, <1>3 DEF InOrder

\* A step between reading a frame and answering it.
LEMMA OrderQuiet ==
    ASSUME InOrder, Busy, UNCHANGED <<client, inbox, crc>>, Said' = Said,
           srv'.at = "idle" \/ srv'.frame = srv.frame
    PROVE  InOrder'
<1> SUFFICES ASSUME client.on PROVE InOrder'
  BY DEF InOrder
<1>1. \A fr \in Frame : Under(fr)' => Place(fr)
  BY DEF InOrder, Under, Busy
<1>2. \A fr \in Frame : Place(fr) => Place(fr)'
  BY DEF Place, OfTransfer, UpTo
<1>3. Busy' => \A i \in 1 .. Len(inbox') : UpTo(srv.frame, inbox[i])'
  BY DEF InOrder, Busy, UpTo
<1>4. \A i, j \in 1 .. Len(inbox') : i <= j => UpTo(inbox[i], inbox[j])'
  BY DEF InOrder, UpTo
<1>5. Begun
  BY DEF Begun
<1> QED BY <1>1, <1>2, <1>3, <1>4, <1>5 DEF InOrder, Begun

LEMMA ReceiveOrder ==
    ASSUME ServerTyped, InOrder, Receive PROVE InOrder'
<1> SUFFICES ASSUME client.on PROVE InOrder'
  BY DEF InOrder, Receive
<1>0. /\ UNCHANGED client /\ Said' = Said /\ inbox \in Seq(Frame) /\ inbox # <<>>
      /\ inbox' = Tail(inbox) /\ ~Busy
  BY SaidSame DEF Receive, ServerTyped, Busy
<1>1. /\ 1 \in 1 .. Len(inbox) /\ Head(inbox) = inbox[1] /\ inbox[1] \in Frame
      /\ \A i \in 1 .. Len(inbox') : i + 1 \in 1 .. Len(inbox) /\ inbox'[i] = inbox[i + 1]
  BY <1>0, TakenFrom
<1>2. srv'.frame = inbox[1] /\ (IF inbox[1].state = START THEN crc' = inbox[1].ver ELSE crc' = crc)
  BY <1>1 DEF Receive
<1>3. \A fr \in Frame : Under(fr)' => Place(fr)
  BY <1>0, <1>1, <1>2 DEF InOrder, Under
<1>4. \A fr \in Frame : Place(fr) => Place(fr)'
  BY <1>0 DEF Place, OfTransfer, UpTo
<1>5. \A i \in 1 .. Len(inbox') : UpTo(srv.frame, inbox[i])'
  <2>1. \A i \in 1 .. Len(inbox') : 1 <= i + 1 /\ UpTo(inbox[1], inbox[i + 1])
    BY <1>0, <1>1 DEF InOrder
  <2> QED BY <1>1, <1>2, <2>1 DEF UpTo
<1>6. \A i, j \in 1 .. Len(inbox') : i <= j => UpTo(inbox[i], inbox[j])'
  <2>1. \A i, j \in 1 .. Len(inbox') : i <= j => UpTo(inbox[i + 1], inbox[j + 1])
    BY <1>0, <1>1 DEF InOrder
  <2> QED BY <1>1, <2>1 DEF UpTo
<1>7. crc' \in {None, client'.last.ver}
  <2>1. Place(inbox[1]) /\ Place(client.last) /\ client.last \in Frame
    BY <1>1 DEF InOrder, Under, ServerTyped, IsClient
  <2>2. inbox[1].ver = client.last.ver /\ (inbox[1].state # START => client.last.state # START)
    BY <2>1, <1>1 DEF Place, OfTransfer, UpTo, START, IN_PROGRESS, VERIFICATION, Frame
  <2>3. client.last.state # START => crc \in {None, client.last.ver}
    BY DEF InOrder, Begun
  <2> QED BY <1>0, <1>2, <2>2, <2>3
<1>8. \A a \in Said' : a.state = FINISH => a.ok
  BY <1>0 DEF InOrder
<1> QED BY <1>3, <1>4, <1>5, <1>6, <1>7, <1>8 DEF InOrder

LEMMA GarbledOrder ==
    ASSUME ServerTyped, RepliesTyped, InOrder, Garbled PROVE InOrder'
<1>0. /\ UNCHANGED <<client, srv, crc>> /\ inbox \in Seq(Frame) /\ inbox # <<>>
      /\ inbox' = Tail(inbox) /\ ~Busy /\ ~Busy' /\ Said' \subseteq Said
  BY GarbledKeeps, GarbledSaid DEF ServerTyped, Busy
<1> SUFFICES ASSUME client.on PROVE InOrder'
  BY <1>0 DEF InOrder
<1>1. \A i \in 1 .. Len(inbox') : i + 1 \in 1 .. Len(inbox) /\ inbox'[i] = inbox[i + 1]
  BY <1>0, TakenFrom
<1>2. \A fr \in Frame : (Under(fr)' => Under(fr)) /\ (Place(fr) => Place(fr)')
  BY <1>0, <1>1 DEF Under, Place, OfTransfer, UpTo
<1>3. \A i, j \in 1 .. Len(inbox') : i <= j => UpTo(inbox[i], inbox[j])'
  <2>1. \A i, j \in 1 .. Len(inbox') : i <= j => UpTo(inbox[i + 1], inbox[j + 1])
    BY <1>0, <1>1 DEF InOrder
  <2> QED BY <1>1, <2>1 DEF UpTo
<1>4. Begun' => Begun
  BY <1>0 DEF Begun
<1>5. \A a \in Said' : a.state = FINISH => a.ok
  BY <1>0 DEF InOrder
<1>6. \A fr \in Frame : Under(fr)' => Place(fr)'
  BY <1>2 DEF InOrder
<1>7. Begun' => crc' \in {None, client'.last.ver}
  BY <1>0, <1>4 DEF InOrder
<1> QED BY <1>0, <1>3, <1>5, <1>6, <1>7 DEF InOrder

LEMMA AnswerOrder ==
    ASSUME ServerTyped, RepliesTyped, InOrder, Answer PROVE InOrder'
<1> SUFFICES ASSUME client.on PROVE InOrder'
  BY DEF InOrder, Answer
<1>0. /\ UNCHANGED <<client, inbox, crc>> /\ Busy /\ srv.frame \in Frame
      /\ (srv'.at = "idle" \/ srv'.frame = srv.frame)
  <2>1. Goto("saveHex") \/ Goto("reboot") \/ Goto("idle")
    BY DEF Answer
  <2>2. srv'.at = "idle" \/ srv'.frame = srv.frame
    BY <2>1, GotoFacts DEF ServerPlaces
  <2> QED BY <2>2 DEF Answer, KeepAnnounced, Busy, ServerTyped
<1>1. Place(srv.frame)
  BY <1>0 DEF InOrder, Under
<1>2. srv.frame.state # FINISH
  BY <1>1 DEF Place, OfTransfer, START, VERIFICATION, IN_PROGRESS, FINISH
<1>3. \A a \in Said' : \/ a \in Said
                       \/ a.state = srv.frame.state /\ a.n = srv.frame.n
                       \/ a.state = FINISH /\ a.ok
  <2>1. AckAnswer.state = srv.frame.state /\ AckAnswer.n = srv.frame.n
    BY DEF AckAnswer, Number
  <2>2. FinalAnswer.state = FINISH /\ FinalAnswer.ok
    BY DEF FinalAnswer
  <2> HIDE DEF AckAnswer, FinalAnswer
  <2>3. \A a \in Said' : a \in Said \/ a = AckAnswer \/ a = FinalAnswer
    BY AnswerAdds
  <2> QED BY <2>1, <2>2, <2>3
<1>4. \A fr \in Frame : Under(fr)' => Under(fr)
  BY <1>0 DEF Under, Busy
<1>5. \A fr \in Frame : Under(fr) => UpTo(srv.frame, fr)
  <2>1. UpTo(srv.frame, client.last)
    BY <1>1 DEF Place
  <2>2. UpTo(srv.frame, srv.frame)
    BY <1>0 DEF UpTo, Frame
  <2> QED BY <1>0, <2>1, <2>2 DEF InOrder, Under
<1>6. \A fr \in Frame : Place(fr) /\ UpTo(srv.frame, fr) => Place(fr)'
  <2> SUFFICES ASSUME NEW fr \in Frame, Place(fr), UpTo(srv.frame, fr) PROVE Place(fr)'
    OBVIOUS
  <2>1. \A a \in Said' : a.state # FINISH => UpTo(a, fr)
    BY <1>3 DEF Place, UpTo
  <2> QED BY <1>0, <2>1 DEF Place, OfTransfer, UpTo
<1>7. \A fr \in Frame : Under(fr)' => Place(fr)'
  <2>1. \A fr \in Frame : Under(fr) => Place(fr)
    BY DEF InOrder
  <2> QED BY <1>4, <1>5, <1>6, <2>1
<1>8. \A a \in Said' : a.state = FINISH => a.ok
  BY <1>2, <1>3 DEF InOrder
<1>9. Busy' => \A i \in 1 .. Len(inbox') : UpTo(srv.frame, inbox[i])'
  BY <1>0 DEF InOrder, Busy, UpTo
<1>10. \A i, j \in 1 .. Len(inbox') : i <= j => UpTo(inbox[i], inbox[j])'
  BY <1>0 DEF InOrder, UpTo
<1>11. crc' \in {None, client'.last.ver}
  BY <1>0 DEF InOrder, Begun
<1> QED BY <1>7, <1>8, <1>9, <1>10, <1>11 DEF InOrder

\* The steps of the server between reading a frame and answering it.
LEMMA ServerQuiet ==
    ASSUME ServerTyped, RepliesTyped, Server, ~Receive, ~Garbled, ~Answer
    PROVE  /\ Busy /\ UNCHANGED <<client, inbox, outbox, response, crc>> /\ RepliesTyped'
           /\ srv'.at = "idle" \/ srv'.frame = srv.frame
<1>0. Erase \/ ProgramTcp \/ EraseMqtt \/ FillMqtt \/ Verify \/ Accept \/ Save \/ SaveHex
  BY DEF Server
<1>1. UNCHANGED <<client, inbox, outbox, response, crc>>
  BY <1>0 DEF Erase, ProgramTcp, EraseMqtt, FillMqtt, Verify, Accept, Save, SaveHex,
              clientVars, otaVars, KeepAnnounced
<1>2. Busy
  BY <1>0 DEF Erase, ProgramTcp, EraseMqtt, FillMqtt, Verify, Accept, Save, SaveHex, Busy
<1>3. srv'.at = "idle" \/ srv'.frame = srv.frame
  <2>1. CASE Erase
    BY <2>1 DEF Erase, ServerTyped
  <2>2. \A a \in ServerPlaces : Goto(a) => srv'.at = "idle" \/ srv'.frame = srv.frame
    BY GotoFacts
  <2>3. CASE ProgramTcp \/ EraseMqtt \/ FillMqtt \/ Verify \/ Accept \/ Save \/ SaveHex
    <3>1. \/ Goto("answer") \/ Goto("fill") \/ Goto("accept") \/ Goto("save") \/ Goto("saveHex")
          \/ Goto("saved") \/ Goto("savedHex") \/ Goto("idle")
      BY <2>3 DEF ProgramTcp, EraseMqtt, FillMqtt, Verify, Accept, Save, SaveHex
    <3> QED BY <2>2, <3>1 DEF ServerPlaces
  <2> QED BY <1>0, <2>1, <2>3
<1>4. ack' \in BOOLEAN
  <2>1. ack' \in {ack, TRUE, FALSE}
    BY <1>0, Zenon DEF Erase, ProgramTcp, EraseMqtt, FillMqtt, Verify, Accept, Save, SaveHex,
                otaVars, UnsetAck
  <2> QED BY <2>1, Zenon DEF RepliesTyped
<1> QED BY <1>1, <1>2, <1>3, <1>4 DEF RepliesTyped

LEMMA ServerOrder ==
    ASSUME ServerTyped, RepliesTyped, InOrder, Server PROVE InOrder' /\ RepliesTyped'
<1>1. CASE Receive
  <2>1. UNCHANGED <<outbox, response>>
    BY <1>1 DEF Receive
  <2>2. ack' \in BOOLEAN
    BY <1>1, Zenon DEF Receive, RepliesTyped
  <2> QED BY <1>1, <2>1, <2>2, ReceiveOrder DEF RepliesTyped
<1>2. CASE Answer
  BY <1>2, AnswerOrder, AnswerAdds
<1>4. CASE Garbled
  BY <1>4, GarbledOrder, GarbledSaid
<1>3. CASE ~Receive /\ ~Garbled /\ ~Answer
  BY <1>3, ServerQuiet, OrderQuiet, SaidSame
<1> QED BY <1>1, <1>2, <1>3, <1>4

\* The client.
LEMMA AfterFacts ==
    ASSUME NEW fr \in Frame, NEW next, next = After(fr), fr.state \in {START, IN_PROGRESS},
           fr.state = START => fr.n = 0
    PROVE  /\ next.file = fr.file /\ next.ver = fr.ver /\ next.mode = fr.mode /\ next \in Frame
           /\ \/ next.state = VERIFICATION /\ next.n = 0
              \/ next.state = IN_PROGRESS /\ next.n = fr.n + 1
<1>1. fr.state # VERIFICATION
  BY DEF START, IN_PROGRESS, VERIFICATION
<1>2. CASE fr.n = Chunks(fr.mode)
  <2>1. next = [fr EXCEPT !.state = VERIFICATION, !.n = 0]
    BY <1>2 DEF After
  <2> QED BY <2>1, AfterType DEF Frame
<1>3. CASE fr.n # Chunks(fr.mode)
  <2> DEFINE m == fr.n + 1
  <2>1. next = [fr EXCEPT !.state = IN_PROGRESS, !.n = m]
    BY <1>1, <1>3 DEF After
  <2> HIDE DEF m
  <2>2. /\ next.file = fr.file /\ next.ver = fr.ver /\ next.mode = fr.mode
        /\ next.state = IN_PROGRESS /\ next.n = m
    BY <2>1 DEF Frame
  <2> QED BY <2>2, AfterType DEF m
<1> QED BY <1>2, <1>3

LEMMA AnnounceOrder ==
    ASSUME ServerTyped, NEW f \in Files, Announce(f)
    PROVE  InOrder' /\ outbox' = <<>> /\ Said' = {} /\ client'.told = "none" /\ client'.acked = {}
           /\ client'.last.state = START /\ client'.last.file = f
<1> DEFINE fr == [state |-> START, file |-> f, n |-> 0, ver |-> client.last.ver + 1,
                  mode |-> client.last.mode]
<1>1. /\ client' = Sending(fr) /\ inbox' = Append(inbox, fr) /\ inbox = <<>> /\ outbox = <<>>
      /\ outbox' = <<>> /\ response' = <<>> /\ srv' = srv /\ srv.at = "idle"
  BY DEF Announce, SendFrame
<1>2. fr.state = START /\ fr.n = 0 /\ fr.file = f
  OBVIOUS
<1> HIDE DEF fr
<1>3. /\ client'.last = fr /\ client'.acked = {} /\ client'.told = "none" /\ client'.on
      /\ ~Busy' /\ inbox' = <<fr>>
  BY <1>1 DEF Sending, Busy
<1>4. Len(inbox') = 1 /\ inbox'[1] = fr /\ Said' = {}
  <2>1. Said' = {}
    BY <1>1, SaidNone
  <2> QED BY <1>3, <2>1
<1>5. \A x \in Frame : Under(x)' => x = fr
  BY <1>3, <1>4 DEF Under
<1>6. Place(client.last)'
  BY <1>2, <1>3, <1>4 DEF Place, OfTransfer, UpTo
<1>7. \A x \in Frame : Under(x)' => Place(x)'
  <2>1. \A x \in Frame : x = client'.last => Place(x)'
    BY <1>6 DEF Place, OfTransfer, UpTo
  <2> QED BY <1>3, <1>5, <2>1
<1>8. \A i, j \in 1 .. Len(inbox') : i <= j => UpTo(inbox[i], inbox[j])'
  BY <1>2, <1>4 DEF UpTo
<1>9. ~Begun'
  BY <1>1, <1>2, <1>3, <1>4 DEF Begun
<1>10. InOrder'
  BY <1>3, <1>4, <1>7, <1>8, <1>9 DEF InOrder
<1> QED BY <1>1, <1>2, <1>3, <1>4, <1>10

LEMMA RepeatOrder ==
    ASSUME ServerTyped, InOrder, Repeat PROVE InOrder'
<1>1. /\ client.on /\ UNCHANGED <<client, srv, crc>> /\ Said' = Said
      /\ inbox' = Append(inbox, client.last) /\ inbox \in Seq(Frame) /\ client.last \in Frame
  BY SaidSame DEF Repeat, SendFrame, otaVars, ServerTyped, IsClient
<1>2. \A i \in 1 .. Len(inbox') :
        \/ i \in 1 .. Len(inbox) /\ inbox'[i] = inbox[i]
        \/ i = Len(inbox) + 1 /\ inbox'[i] = client.last
  BY <1>1, PutAtEnd
<1>3. \A fr \in Frame : (Under(fr)' => Under(fr)) /\ (Place(fr) => Place(fr)')
  BY <1>1, <1>2 DEF Under, Busy, Place, OfTransfer, UpTo
<1>4. \A fr \in Frame : Under(fr) => UpTo(fr, client.last)
  BY <1>1 DEF InOrder, Place
<1>5. UpTo(client.last, client.last) /\ Len(inbox) \in Nat
  BY <1>1 DEF UpTo, Frame
<1>6. (\A i \in 1 .. Len(inbox) : UpTo(inbox[i], client.last)) /\ (Busy => UpTo(srv.frame, client.last))
  <2>1. \A i \in 1 .. Len(inbox) : inbox[i] \in Frame /\ Under(inbox[i])
    BY <1>1 DEF Under
  <2>2. Busy => srv.frame \in Frame /\ Under(srv.frame)
    BY DEF Under, ServerTyped
  <2> QED BY <1>4, <2>1, <2>2
<1>7. Busy' => \A i \in 1 .. Len(inbox') : UpTo(srv.frame, inbox[i])'
  BY <1>1, <1>2, <1>6 DEF InOrder, Busy, UpTo
<1>8. \A i, j \in 1 .. Len(inbox') : i <= j => UpTo(inbox[i], inbox[j])'
  <2> SUFFICES ASSUME NEW i \in 1 .. Len(inbox'), NEW j \in 1 .. Len(inbox'), i <= j
               PROVE  UpTo(inbox[i], inbox[j])'
    OBVIOUS
  <2>1. CASE j \in 1 .. Len(inbox)
    <3>1. i \in 1 .. Len(inbox)
      BY <1>2, <1>5, <2>1
    <3>2. inbox'[i] = inbox[i] /\ inbox'[j] = inbox[j] /\ UpTo(inbox[i], inbox[j])
      BY <1>1, <1>2, <1>5, <2>1, <3>1 DEF InOrder
    <3> QED BY <3>2 DEF UpTo
  <2>2. CASE inbox'[j] = client.last
    BY <1>2, <1>5, <1>6, <2>2 DEF UpTo
  <2> QED BY <1>2, <2>1, <2>2
<1>9. Begun' => crc' \in {None, client'.last.ver}
  BY <1>1 DEF InOrder, Begun, Busy
<1>10. \A fr \in Frame : Under(fr)' => Place(fr)'
  BY <1>1, <1>3 DEF InOrder
<1> QED BY <1>1, <1>7, <1>8, <1>9, <1>10 DEF InOrder

\* What the client makes of the first answer: nothing but what it has been
\* told, or it gives up, or it sends what comes next.
Told(a) ==
    /\ client'.on = client.on /\ client'.last = client.last /\ client'.acked = client.acked
    /\ inbox' = inbox /\ (a.state = FINISH \/ a.ok)
    /\ client'.told = "final" => client.told = "final" \/ a.state = FINISH

Advanced(a) ==
    /\ client.on /\ client'.on /\ a.ok /\ a.state = client.last.state /\ a.n = client.last.n
    /\ a.state \in {START, IN_PROGRESS}
    /\ client'.last = After(client.last) /\ client'.told = client.told
    /\ client'.acked = client.acked \cup (IF a.n = 0 THEN {} ELSE {a.n})
    /\ inbox' = Append(inbox, After(client.last))

LEMMA HearForms ==
    ASSUME ServerTyped, RepliesTyped, Hear
    PROVE  /\ outbox # <<>> /\ outbox[1] \in Reply /\ outbox' = Tail(outbox)
           /\ outbox[1] \in Said /\ Said' \subseteq Said
           /\ UNCHANGED <<response, srv, otaVars, unseen, storeVars>>
           /\ ~client'.on \/ Told(outbox[1]) \/ Advanced(outbox[1])
<1>1. /\ outbox # <<>> /\ outbox' = Tail(outbox)
      /\ UNCHANGED <<response, srv, otaVars, unseen, storeVars>>
  BY DEF Hear
<1>10. outbox[1] \in Said /\ Said' \subseteq Said
  BY <1>1, SaidHeard
<1>2. Head(outbox) = outbox[1] /\ outbox[1] \in Reply
  BY <1>1, TakenFrom DEF RepliesTyped
<1>3. client \in [on : BOOLEAN, last : Frame, acked : SUBSET Nat,
                  told : {"none", "verified", "final"}]
  BY DEF ServerTyped, IsClient
<1> DEFINE a == outbox[1]
           mine == client.on /\ a.state = client.last.state /\ a.n = client.last.n
           next == After(client.last)
<1>4. \/ /\ a.state = FINISH
         /\ client' = [client EXCEPT !.told = IF client.on THEN "final" ELSE @]
         /\ UNCHANGED inbox
      \/ a.state # FINISH /\ ~mine /\ a.ok /\ UNCHANGED <<client, inbox>>
      \/ client' = Idle(client.last.mode, client.last.ver)
      \/ /\ mine /\ a.ok /\ a.state = VERIFICATION
         /\ client' = [client EXCEPT !.told = "verified"] /\ UNCHANGED inbox
      \/ /\ mine /\ a.ok /\ a.state \in {START, IN_PROGRESS}
         /\ client' = [client EXCEPT !.last = next,
                                     !.acked = @ \cup (IF a.n = 0 THEN {} ELSE {a.n})]
         /\ inbox' = Append(inbox, next)
  BY <1>2 DEF Hear
<1> HIDE DEF a, next
<1>5. CASE /\ a.state = FINISH
           /\ client' = [client EXCEPT !.told = IF client.on THEN "final" ELSE @]
           /\ UNCHANGED inbox
  <2>1. client'.on = client.on /\ client'.last = client.last /\ client'.acked = client.acked
    BY <1>3, <1>5
  <2> QED BY <1>1, <1>2, <1>10, <1>5, <2>1 DEF Told, a
<1>6. CASE a.state # FINISH /\ ~mine /\ a.ok /\ UNCHANGED <<client, inbox>>
  BY <1>1, <1>2, <1>10, <1>6 DEF Told, a
<1>7. CASE client' = Idle(client.last.mode, client.last.ver)
  BY <1>1, <1>2, <1>10, <1>7 DEF Idle, Sending
<1>8. CASE /\ mine /\ a.ok /\ a.state = VERIFICATION
           /\ client' = [client EXCEPT !.told = "verified"] /\ UNCHANGED inbox
  <2>1. /\ client'.on = client.on /\ client'.last = client.last /\ client'.acked = client.acked
        /\ client'.told = "verified"
    BY <1>3, <1>8
  <2> QED BY <1>1, <1>2, <1>10, <1>8, <2>1 DEF Told, a
<1>9. CASE /\ mine /\ a.ok /\ a.state \in {START, IN_PROGRESS}
           /\ client' = [client EXCEPT !.last = next,
                                       !.acked = @ \cup (IF a.n = 0 THEN {} ELSE {a.n})]
           /\ inbox' = Append(inbox, next)
  <2>1. /\ client'.on = client.on /\ client'.last = next /\ client'.told = client.told
        /\ client'.acked = client.acked \cup (IF a.n = 0 THEN {} ELSE {a.n})
    BY <1>3, <1>9
  <2> QED BY <1>1, <1>2, <1>10, <1>9, <2>1 DEF Advanced, a, next
<1> QED BY <1>1, <1>2, <1>4, <1>5, <1>6, <1>7, <1>8, <1>9, <1>10

LEMMA ToldOrder ==
    ASSUME ServerTyped, InOrder, Said' \subseteq Said, UNCHANGED <<srv, crc>>,
           NEW a \in Said, Told(a)
    PROVE  InOrder'
<1> SUFFICES ASSUME client.on PROVE InOrder'
  BY DEF InOrder, Told
<1>2. /\ client'.on /\ client'.last = client.last /\ client'.acked = client.acked
      /\ inbox' = inbox
  BY DEF Told
<1>3. \A fr \in Frame : (Under(fr)' => Under(fr)) /\ (Place(fr) => Place(fr)')
  BY <1>2 DEF Under, Busy, Place, OfTransfer, UpTo
<1>4. \A b \in Said' : b.state = FINISH => b.ok
  BY DEF InOrder
<1>5. /\ Busy' => \A i \in 1 .. Len(inbox') : UpTo(srv.frame, inbox[i])'
      /\ \A i, j \in 1 .. Len(inbox') : i <= j => UpTo(inbox[i], inbox[j])'
  BY <1>2 DEF InOrder, UpTo, Busy
<1>6. crc' \in {None, client'.last.ver}
  BY <1>2 DEF InOrder, Begun
<1>7. \A fr \in Frame : Under(fr)' => Place(fr)'
  BY <1>3 DEF InOrder
<1> QED BY <1>4, <1>5, <1>6, <1>7 DEF InOrder

\* The chunk that was answered is the last the client sent, and none before
\* it is under way.
LEMMA AdvancedOrder ==
    ASSUME ServerTyped, RepliesTyped, InOrder, Said' \subseteq Said, UNCHANGED <<srv, crc>>,
           NEW a \in Said, Advanced(a)
    PROVE  InOrder'
<1>2. client.last \in Frame /\ inbox \in Seq(Frame) /\ client.acked \subseteq Nat
      /\ a.state # FINISH /\ a.state # VERIFICATION
  BY DEF ServerTyped, IsClient, Advanced, START, IN_PROGRESS, FINISH, VERIFICATION
<1>3. PICK next \in Frame :
        /\ next = After(client.last) /\ next.file = client.last.file /\ next.ver = client.last.ver
        /\ next.mode = client.last.mode
        /\ \/ next.state = VERIFICATION /\ next.n = 0
           \/ next.state = IN_PROGRESS /\ next.n = client.last.n + 1
  <2>1. Place(client.last)
    BY <1>2 DEF InOrder, Under, Advanced
  <2>2. client.last.state \in {START, IN_PROGRESS} /\ (client.last.state = START => client.last.n = 0)
    BY <2>1 DEF Advanced, Place, OfTransfer, START, IN_PROGRESS
  <2> QED BY <1>2, <2>2, AfterFacts
<1>4. /\ client.on /\ client'.on /\ client'.last = next /\ inbox' = Append(inbox, next)
      /\ client'.acked = client.acked \cup (IF a.n = 0 THEN {} ELSE {a.n})
      /\ a.state = client.last.state /\ a.n = client.last.n
  BY <1>3 DEF Advanced
<1>5. \A i \in 1 .. Len(inbox') :
        \/ i \in 1 .. Len(inbox) /\ inbox'[i] = inbox[i]
        \/ i = Len(inbox) + 1 /\ inbox'[i] = next
  BY <1>2, <1>4, PutAtEnd
<1>6. \A fr \in Frame : Under(fr)' => fr = next \/ Under(fr)
  BY <1>4, <1>5 DEF Under, Busy
<1>7. \A fr \in Frame : Under(fr) => Place(fr) /\ UpTo(a, fr)
  BY <1>2, <1>4 DEF InOrder, Place
<1>8. Place(client.last) /\ Under(client.last)
  BY <1>2, <1>7 DEF Under
<1>9. \A fr \in Frame : UpTo(fr, client.last) => UpTo(fr, next)
  BY <1>2, <1>3, <1>4 DEF UpTo, Frame
<1>10. ASSUME NEW fr \in Frame, Place(fr), UpTo(a, fr) PROVE Place(fr)'
  <2>1. OfTransfer(fr)'
    BY <1>3, <1>4, <1>10 DEF Place, OfTransfer
  <2>2. UpTo(fr, next)
    BY <1>9, <1>10 DEF Place
  <2>3. \A n \in client'.acked : fr.state = VERIFICATION \/ n <= fr.n
    BY <1>2, <1>4, <1>10 DEF Place, UpTo
  <2>4. \A b \in Said' : b.state # FINISH => UpTo(b, fr)
    BY <1>10 DEF Place
  <2>5. 1 .. (fr.n - 1) \subseteq client'.acked
    BY <1>4, <1>10 DEF Place
  <2> QED BY <1>4, <2>1, <2>2, <2>3, <2>4, <2>5 DEF Place, UpTo
<1>11. Place(next)'
  <2>1. OfTransfer(next)'
    BY <1>2, <1>3, <1>4 DEF OfTransfer, Frame
  <2>2. UpTo(next, next)
    BY <1>3 DEF UpTo, Frame
  <2>3. 1 .. (next.n - 1) \subseteq client'.acked
    BY <1>2, <1>3, <1>4, <1>8 DEF Place, Frame
  <2>4. \A n \in client'.acked : next.state = VERIFICATION \/ n <= next.n
    BY <1>2, <1>3, <1>4, <1>8 DEF Place, Frame
  <2>5. \A b \in Said' : b.state # FINISH => UpTo(b, next)
    <3>1. \A b \in Said : b.state # FINISH => UpTo(b, client.last)
      BY <1>8 DEF Place
    <3>2. \A b \in Said : b.n \in Nat
      BY SaidTyped DEF Reply
    <3>3. \A b \in Said : UpTo(b, client.last) => UpTo(b, next)
      BY <1>2, <1>3, <1>4, <3>2 DEF UpTo, Frame
    <3> QED BY <3>1, <3>3
  <2> QED BY <1>4, <2>1, <2>2, <2>3, <2>4, <2>5 DEF Place, UpTo
<1>12. \A fr \in Frame : Under(fr)' => Place(fr)'
  <2>1. \A fr \in Frame : fr = next => Place(fr)'
    BY <1>11 DEF Place, OfTransfer, UpTo
  <2> QED BY <1>6, <1>7, <1>10, <2>1
<1>13. (\A i \in 1 .. Len(inbox) : UpTo(inbox[i], next)) /\ (Busy => UpTo(srv.frame, next))
  <2>1. \A i \in 1 .. Len(inbox) : inbox[i] \in Frame /\ Under(inbox[i])
    BY <1>2 DEF Under
  <2>2. Busy => srv.frame \in Frame /\ Under(srv.frame)
    BY DEF Under, ServerTyped
  <2> QED BY <1>7, <1>9, <2>1, <2>2 DEF Place
<1>14. Busy' => \A i \in 1 .. Len(inbox') : UpTo(srv.frame, inbox[i])'
  BY <1>4, <1>5, <1>13 DEF InOrder, Busy, UpTo
<1>15. \A i, j \in 1 .. Len(inbox') : i <= j => UpTo(inbox[i], inbox[j])'
  <2> SUFFICES ASSUME NEW i \in 1 .. Len(inbox'), NEW j \in 1 .. Len(inbox'), i <= j
               PROVE  UpTo(inbox[i], inbox[j])'
    OBVIOUS
  <2>1. CASE j \in 1 .. Len(inbox)
    <3>1. i \in 1 .. Len(inbox) /\ j # Len(inbox) + 1
      BY <1>2, <1>5, <2>1
    <3>2. inbox'[i] = inbox[i] /\ inbox'[j] = inbox[j] /\ UpTo(inbox[i], inbox[j])
      BY <1>2, <1>4, <1>5, <2>1, <3>1 DEF InOrder
    <3> QED BY <3>2 DEF UpTo
  <2>2. CASE inbox'[j] = next
    <3>1. UpTo(next, next)
      BY <1>3 DEF UpTo, Frame
    <3> QED BY <1>5, <1>13, <2>2, <3>1 DEF UpTo
  <2> QED BY <1>5, <2>1, <2>2
<1>16. crc' \in {None, client'.last.ver}
  BY <1>3, <1>4 DEF InOrder, Begun
<1>17. \A b \in Said' : b.state = FINISH => b.ok
  BY <1>4 DEF InOrder
<1> QED BY <1>12, <1>14, <1>15, <1>16, <1>17 DEF InOrder

LEMMA ClientOrder ==
    ASSUME ServerTyped, RepliesTyped, InOrder, ClientStep PROVE InOrder' /\ RepliesTyped'
<1>1. ASSUME NEW f \in Files, Announce(f) PROVE InOrder' /\ RepliesTyped'
  <2>1. outbox' = <<>> /\ response' = <<>> /\ ack' = ack
    BY <1>1 DEF Announce, SendFrame, otaVars
  <2>2. outbox' \in Seq(Reply) /\ response' \in Seq(Reply)
    BY <2>1
  <2> QED BY <1>1, <2>1, <2>2, AnnounceOrder DEF RepliesTyped
<1>2. CASE Repeat
  <2>1. UNCHANGED <<outbox, response, ack>>
    BY <1>2 DEF Repeat, SendFrame, otaVars
  <2> QED BY <1>2, <2>1, RepeatOrder DEF RepliesTyped
<1>3. CASE GiveUp \/ AskFinish
  <2>1. UNCHANGED <<outbox, response, ack>> /\ ~client'.on
    BY <1>3 DEF GiveUp, AskFinish, SendFrame, otaVars, Idle, Sending
  <2> QED BY <2>1 DEF InOrder, RepliesTyped
<1>4. CASE Hear
  <2>1. RepliesTyped'
    BY <1>4, HearForms, TakenFrom DEF RepliesTyped, otaVars
  <2>2. UNCHANGED <<srv, crc>>
    BY <1>4, HearForms DEF otaVars
  <2>3. ~client'.on => InOrder'
    BY DEF InOrder
  <2> QED BY <1>4, <2>1, <2>2, <2>3, HearForms, ToldOrder, AdvancedOrder
<1> QED BY <1>1, <1>2, <1>3, <1>4 DEF ClientStep, Client

\* A reset: nothing is under way, and no checksum is known.
LEMMA ResetOrder ==
    ASSUME ServerTyped, InOrder, ServerReset PROVE InOrder' /\ RepliesTyped'
<1>1. /\ inbox' = <<>> /\ outbox' = <<>> /\ response' = <<>> /\ srv'.at = "idle" /\ ack' = FALSE
      /\ crc' = None /\ Said' = {}
      /\ client' = client \/ ~client'.on
  BY SaidNone DEF ServerReset, Waiting, Idle, Sending
<1>2. RepliesTyped'
  <2>1. outbox' \in Seq(Reply) /\ response' \in Seq(Reply)
    BY <1>1
  <2> QED BY <1>1, <2>1 DEF RepliesTyped
<1>3. ASSUME client.on, client' = client PROVE InOrder'
  <2>1. \A fr \in Frame : Under(fr)' => Place(fr)
    BY <1>1, <1>3 DEF InOrder, Under, Busy
  <2>2. \A fr \in Frame : Place(fr) => Place(fr)'
    BY <1>1, <1>3 DEF Place, OfTransfer, UpTo
  <2> QED BY <1>1, <1>3, <2>1, <2>2 DEF InOrder, Busy
<1> QED BY <1>1, <1>2, <1>3 DEF InOrder

LEMMA NextKeepsOrder ==
    ASSUME Typed, RepliesTyped, InOrder, [Next]_vars PROVE InOrder' /\ RepliesTyped'
<1>1. ServerTyped
  BY TypedParts
<1>2. CASE LoaderStep \/ ValuesStep \/ UNCHANGED vars
  <2>1. UNCHANGED <<client, inbox, outbox, response, srv, crc, ack>> /\ Said' = Said
    BY <1>2, SaidSame DEF LoaderStep, ValuesStep, vars, srvVars, clientVars, otaVars
  <2>2. \A fr \in Frame : (Under(fr)' => Under(fr)) /\ (Place(fr) => Place(fr)')
    BY <2>1 DEF Under, Busy, Place, OfTransfer, UpTo
  <2> QED BY <2>1, <2>2 DEF InOrder, UpTo, Busy, Begun, RepliesTyped
<1>3. CASE Restart \/ PowerFailure
  BY <1>1, <1>3, ResetOrder DEF Restart, PowerFailure, Reset
<1> QED BY <1>1, <1>2, <1>3, ClientOrder, ServerOrder DEF Next, ServerStep

(***************************************************************************)
(* The last answer.                                                        *)
(***************************************************************************)
\* Version v of program or recipe f is the accepted one, and stays it over a
\* reset.
InUse(f, v) == info[f] = v /\ \A i \in Info : Copy(i) => i[f] = v

\* The client got the last answer, or may yet.
SomeFinal ==
    client.told = "final" \/ \E a \in Said : a.state = FINISH

\* The copy the server saves is of what it accepted, which it will answer for
\* once it is saved.
FinalInv ==
    /\ srv.at \in {"saveHex", "savedHex"} => File = "hex"
    /\ harm \cap {"block", "overlap"} = {} =>
         /\ srv.at = "saved" => \A f \in Logic : image["ota"][f] = info[f]
         /\ crcMatch /\ File \in Logic => info[File] = crc /\ crc # None
         /\ crcMatch /\ File \in Logic /\ srv.at = "answer" => InUse(File, crc)
         /\ client.on /\ client.last.file \in Logic /\ SomeFinal
               => InUse(client.last.file, client.last.ver)

LEMMA FinalInit == Init => FinalInv
<1> SUFFICES ASSUME Init PROVE FinalInv
  OBVIOUS
<1>1. PICK m \in Modes : client = Idle(m, 1)
  BY DEF Init, ServerInit
<1>2. ~client.on
  BY <1>1 DEF Idle, Sending
<1> QED BY <1>2 DEF Init, ServerInit, Waiting, FinalInv

\* A step that keeps what the record says of the files, in memory and in its
\* copies.
LEMMA InUseKept ==
    ASSUME \A f \in Logic : info'[f] = info[f],
           \A i \in Info : Copy(i)' => Copy(i) \/ \A f \in Logic : i[f] = info[f]
    PROVE  \A v : \A f \in Logic : InUse(f, v) => InUse(f, v)'
BY DEF InUse

\* While the client goes on, the frame at hand is of its transfer.
LEMMA OwnFrame ==
    ASSUME ServerTyped, InOrder, Busy, client.on
    PROVE  /\ Place(srv.frame) /\ File = client.last.file /\ srv.frame.ver = client.last.ver
           /\ Mode = client.last.mode /\ srv.frame.state # FINISH /\ ~Done
           /\ crc \in {None, client.last.ver}
<1>1. srv.frame \in Frame /\ Under(srv.frame)
  BY DEF Under, ServerTyped
<1>2. Place(srv.frame) /\ crc \in {None, client.last.ver}
  BY <1>1 DEF InOrder, Begun
<1> QED BY <1>2 DEF Place, OfTransfer, File, Mode, Done, START, IN_PROGRESS, VERIFICATION, FINISH

\* Steps that leave the server's place, its checksum and the record alone.
LEMMA FinalKept ==
    ASSUME FinalInv, harm \subseteq harm',
           srv' = srv, crc' = crc, crcMatch' = crcMatch, image'["ota"] = image["ota"],
           \A f \in Logic : info'[f] = info[f],
           harm' \cap {"block", "overlap"} = {} =>
               \A i \in Info : Copy(i)' => Copy(i) \/ \A f \in Logic : i[f] = info[f],
           client'.on /\ SomeFinal' => /\ client.on /\ SomeFinal
                                       /\ client'.last.file = client.last.file
                                       /\ client'.last.ver = client.last.ver
    PROVE  FinalInv'
<1>1. (srv.at \in {"saveHex", "savedHex"} => File = "hex")'
  BY DEF FinalInv, File
<1>2. ASSUME harm' \cap {"block", "overlap"} = {}
      PROVE  /\ srv'.at = "saved" => \A f \in Logic : image'["ota"][f] = info'[f]
             /\ crcMatch' /\ File' \in Logic => info'[File'] = crc' /\ crc' # None
             /\ crcMatch' /\ File' \in Logic /\ srv'.at = "answer" => InUse(File, crc)'
             /\ client'.on /\ client'.last.file \in Logic /\ SomeFinal'
                   => InUse(client.last.file, client.last.ver)'
  <2>1. harm \cap {"block", "overlap"} = {} /\ File' = File
    BY <1>2 DEF File
  <2>2. \A v : \A f \in Logic : InUse(f, v) => InUse(f, v)'
    BY <1>2, InUseKept
  <2>3. crcMatch' /\ File' \in Logic /\ srv'.at = "answer" => InUse(File, crc)'
    <3>1. crcMatch' /\ File' \in Logic /\ srv'.at = "answer" => InUse(File, crc)
      BY <2>1 DEF FinalInv
    <3>2. \A v : \A f \in Logic : f = File /\ v = crc /\ InUse(f, v)' => InUse(File, crc)'
      BY <2>1 DEF InUse
    <3> QED BY <2>1, <2>2, <3>1, <3>2
  <2>4. client'.on /\ client'.last.file \in Logic /\ SomeFinal'
           => InUse(client.last.file, client.last.ver)'
    <3>1. client'.on /\ client'.last.file \in Logic /\ SomeFinal'
             => InUse(client.last.file, client.last.ver)
      BY <2>1 DEF FinalInv
    <3>2. \A v : \A f \in Logic :
            f = client'.last.file /\ v = client'.last.ver /\ InUse(f, v)'
               => InUse(client.last.file, client.last.ver)'
      BY DEF InUse
    <3> QED BY <2>2, <3>1, <3>2
  <2> QED BY <2>1, <2>3, <2>4 DEF FinalInv
<1> QED BY <1>1, <1>2 DEF FinalInv

LEMMA ClientFinal ==
    ASSUME ServerTyped, RepliesTyped, FinalInv, ClientStep PROVE FinalInv'
<1>1. /\ UNCHANGED <<srv, crc, crcMatch, image, info, block, harm, ld>>
  BY DEF ClientStep, Client, Announce, Repeat, GiveUp, AskFinish, Hear, SendFrame, storeVars,
         otaVars, loaderVars
<1>2. \A i \in Info : Copy(i)' => Copy(i)
  BY <1>1 DEF Copy
<1>3. client'.on /\ SomeFinal' => /\ client.on /\ SomeFinal
                                  /\ client'.last.file = client.last.file
                                  /\ client'.last.ver = client.last.ver
  <2>1. ASSUME NEW f \in Files, Announce(f) PROVE ~SomeFinal'
    <3>1. Said' = {} /\ client'.told = "none"
      BY <2>1, AnnounceOrder
    <3> QED BY <3>1 DEF SomeFinal
  <2>2. CASE Repeat
    BY <2>2, SaidSame DEF Repeat, SendFrame, SomeFinal
  <2>3. CASE GiveUp \/ AskFinish
    BY <2>3 DEF GiveUp, AskFinish, Idle, Sending
  <2>4. CASE Hear
    <3>1. ~client'.on \/ Told(outbox[1]) \/ Advanced(outbox[1])
      BY <2>4, HearForms
    <3>2. outbox[1] \in Said /\ Said' \subseteq Said
      BY <2>4, HearForms
    <3>3. CASE Told(outbox[1])
      BY <3>2, <3>3 DEF Told, SomeFinal
    <3>4. CASE Advanced(outbox[1])
      <4>1. client.last.state \in {START, IN_PROGRESS} /\ client.last \in Frame
        BY <3>4 DEF Advanced, ServerTyped, IsClient
      <4>2. After(client.last).file = client.last.file /\ After(client.last).ver = client.last.ver
        <5> DEFINE m == client.last.n + 1
        <5>1. \/ After(client.last) = [client.last EXCEPT !.state = VERIFICATION, !.n = 0]
              \/ After(client.last) = [client.last EXCEPT !.state = IN_PROGRESS, !.n = m]
          BY DEF After
        <5> HIDE DEF m
        <5> QED BY <4>1, <5>1 DEF Frame
      <4> QED BY <3>2, <3>4, <4>2 DEF Advanced, SomeFinal
    <3> QED BY <3>1, <3>3, <3>4
  <2> QED BY <2>1, <2>2, <2>3, <2>4 DEF ClientStep, Client
<1> QED BY <1>1, <1>2, <1>3, FinalKept

\* What the loader does to the record in flash is save it.
LEMMA LoaderCopies ==
    ASSUME Typed, Saved, LoaderStep, "overlap" \notin harm'
    PROVE  \A i \in Info : Copy(i)' => Copy(i) \/ i = info
<1>1. /\ StoreTyped /\ LoaderTyped /\ "overlap" \notin harm /\ srv' = srv /\ Loader
      /\ ~(srv'.at = "saved" /\ ld'.at = "saved")
  BY TypedParts, HarmFacts DEF LoaderStep, srvVars
<1>2. CASE SaveNote
  <2>1. CASE ld.at = "save"
    <3>1. EraseBlock("plc") /\ ld'.at = "saved" /\ image'["plc"] = info
      BY <1>1, <1>2, <2>1, SaveFacts DEF SaveNote, At, To, Writers
    <3> QED BY <1>1, <3>1 DEF Copy
  <2>2. CASE ld.at = "saved"
    <3>1. ProgramBlock("plc") /\ ld'.at = "wipe"
      BY <1>2, <2>2 DEF SaveNote, At, To
    <3>2. block.st = "erased" /\ srv.at # "saved"
      BY <1>1, <2>2, SavedForm
    <3>3. block'.val = image["plc"]
      BY <1>1, <3>1, <3>2, SaveFacts DEF Writers
    <3> QED BY <1>1, <2>2, <3>1, <3>2, <3>3 DEF Copy
  <2> QED BY <1>2, <2>1, <2>2 DEF SaveNote, At
<1>3. CASE Check \/ Reload \/ Lower \/ Extract \/ ReadCell
  BY <1>1, <1>3, LoadingPlaces DEF Writing, Copy
<1>4. CASE Parsed \/ WriteRecipe \/ Restore
  <2>1. /\ UNCHANGED <<block, image>> /\ ld.at # "saved" /\ ld'.at # "saved"
    BY <1>4 DEF Parsed, WriteRecipe, Restore, KeepStore, At, To
  <2> QED BY <1>1, <2>1 DEF Copy
<1> QED BY <1>1, <1>2, <1>3, <1>4 DEF Loader

LEMMA LoaderFinal ==
    ASSUME Typed, Saved, FinalInv, LoaderStep PROVE FinalInv'
<1>1. /\ UNCHANGED <<srv, crc, crcMatch, client>> /\ Said' = Said /\ harm \subseteq harm'
      /\ \A f \in Logic : info'[f] = info[f]
  BY LoaderInfo, HarmFacts, SaidSame DEF LoaderStep, srvVars, clientVars, otaVars
<1>2. image'["ota"] = image["ota"]
  <2>1. image' = image \/ \E x : image' = [image EXCEPT !["plc"] = x]
    BY DEF LoaderStep, Loader, Check, Reload, Lower, Extract, ReadCell, Parsed, SaveNote,
           WriteRecipe, Restore, KeepStore, EraseBlock, ProgramBlock
  <2> QED BY <2>1, TypedParts DEF StoreTyped, Writers
<1>3. "overlap" \notin harm' => \A i \in Info : Copy(i)' => Copy(i) \/ i = info
  BY LoaderCopies
<1>4. client'.on /\ SomeFinal' => /\ client.on /\ SomeFinal
                                  /\ client'.last.file = client.last.file
                                  /\ client'.last.ver = client.last.ver
  BY <1>1 DEF SomeFinal
<1>5. harm' \cap {"block", "overlap"} = {} =>
        \A i \in Info : Copy(i)' => Copy(i) \/ \A f \in Logic : i[f] = info[f]
  BY <1>3
<1> QED BY <1>1, <1>2, <1>4, <1>5, FinalKept

\* A reset that does not hit the save of the block.
LEMMA ResetFinal ==
    ASSUME Typed, Saved, FinalInv, Reset PROVE FinalInv'
<1>1. /\ srv'.at = "idle" /\ ~crcMatch' /\ Said' = {} /\ ld'.at = "check"
      /\ client' = client \/ ~client'.on
  BY SaidNone DEF Reset, ServerReset, LoaderReset, Waiting, Idle, Sending
<1>2. ASSUME harm' \cap {"block", "overlap"} = {}, client' = client, client.on,
             client.last.file \in Logic, SomeFinal'
      PROVE  InUse(client.last.file, client.last.ver)'
  <2>1. harm \cap {"block", "overlap"} = {} /\ Saving = {}
    BY <1>2 DEF Reset, Cut
  <2>2. srv.at # "saved" /\ ld.at # "saved"
    BY <2>1 DEF Saving, Writers
  <2>3. block.st = "good" /\ block.val \in Info /\ Copy(block.val)
    BY <2>1, <2>2, SavedForm, TypedParts DEF StoreTyped, Copy
  <2>4. info' = block.val /\ block'.val = info'
    BY <2>3 DEF Reset, LoaderReset
  <2>6. SomeFinal
    BY <1>1, <1>2 DEF SomeFinal
  <2>7. InUse(client.last.file, client.last.ver)
    BY <1>2, <2>1, <2>6 DEF FinalInv
  <2> QED BY <1>1, <1>2, <2>3, <2>4, <2>7 DEF InUse, Copy
<1> QED BY <1>1, <1>2 DEF FinalInv

\* The server.  A record in the making is answered for once it is saved.
LEMMA AcceptFinal ==
    ASSUME Typed, Safe, InOrder, FinalInv, Accept, UNCHANGED ld, harm \subseteq harm'
    PROVE  FinalInv'
<1>1. /\ StoreTyped /\ ServerTyped /\ crc # None /\ srv.at = "accept" /\ Busy
      /\ UNCHANGED <<crc, client, block, image>> /\ Said' = Said
  BY TypedParts, SaidSame DEF Accept, Safe, Checked, clientVars, KeepAnnounced, Busy
<1>2. \A i \in Info : Copy(i)' => Copy(i)
  <2>1. srv'.at \in {"save", "saveHex"}
    BY <1>1, GotoFacts DEF Accept, ServerPlaces
  <2> QED BY <1>1, <2>1 DEF Copy
<1>3. srv'.frame = srv.frame /\ File' = File
  <2>1. Goto("save") \/ Goto("saveHex")
    BY DEF Accept
  <2> QED BY <1>1, <2>1, GotoFacts DEF ServerPlaces, File
<1>4. CASE File = "hex"
  <2>1. srv'.at = "saveHex" /\ info' = info
    BY <1>1, <1>4, GotoFacts DEF Accept, ServerPlaces
  <2>2. File' \notin Logic
    BY <1>3, <1>4 DEF Logic
  <2>3. \A v : \A f \in Logic : InUse(f, v) => InUse(f, v)'
    BY <1>2, <2>1, InUseKept
  <2>4. harm' \cap {"block", "overlap"} = {} /\ client'.on /\ client'.last.file \in Logic /\ SomeFinal'
           => InUse(client.last.file, client.last.ver)'
    <3>1. harm' \cap {"block", "overlap"} = {} /\ client'.on /\ client'.last.file \in Logic /\ SomeFinal'
             => InUse(client.last.file, client.last.ver)
      BY <1>1 DEF FinalInv, SomeFinal
    <3>2. \A v : \A f \in Logic :
            f = client'.last.file /\ v = client'.last.ver /\ InUse(f, v)'
               => InUse(client.last.file, client.last.ver)'
      BY DEF InUse
    <3> QED BY <1>1, <2>3, <3>1, <3>2
  <2> QED BY <1>3, <1>4, <2>1, <2>2, <2>4 DEF FinalInv
<1>5. CASE File # "hex"
  <2>1. File \in Logic /\ srv'.at = "save"
    BY <1>1, <1>5, GotoFacts DEF Accept, ServerPlaces, ServerTyped, File, Frame, Files
  <2>2. info'[File] = crc /\ \A f \in Logic : f # File => info'[f] = info[f]
    BY <1>1, <1>5, <2>1, RecordedFacts DEF Accept
  <2>3. ASSUME harm' \cap {"block", "overlap"} = {}, client'.on, client'.last.file \in Logic, SomeFinal'
        PROVE  InUse(client.last.file, client.last.ver)'
    <3>1. InUse(client.last.file, client.last.ver)
      BY <1>1, <2>3 DEF FinalInv, SomeFinal
    <3>2. client.last.file = File /\ crc = client.last.ver
      BY <1>1, <2>3, OwnFrame
    <3> QED BY <1>1, <1>2, <2>2, <3>1, <3>2 DEF InUse
  <2> QED BY <1>1, <1>3, <2>1, <2>2, <2>3 DEF FinalInv
<1> QED BY <1>4, <1>5

LEMMA SaveFinal ==
    ASSUME Typed, Saved, FinalInv, Save, UNCHANGED ld, harm \subseteq harm',
           srv'.at = "saved" /\ ld'.at = "saved" => "overlap" \in harm'
    PROVE  FinalInv'
<1>1. /\ StoreTyped /\ ServerTyped /\ UNCHANGED <<crc, crcMatch, client, info>> /\ Said' = Said
  BY TypedParts, SaidSame DEF Save, clientVars, otaVars
<1>2. srv'.frame = srv.frame /\ File' = File /\ srv'.at \in {"saved", "answer"}
  <2>1. Goto("saved") \/ Goto("answer")
    BY DEF Save
  <2> QED BY <1>1, <2>1, GotoFacts DEF ServerPlaces, File
<1> SUFFICES ASSUME harm' \cap {"block", "overlap"} = {}
             PROVE  /\ srv'.at = "saved" => \A f \in Logic : image'["ota"][f] = info'[f]
                    /\ crcMatch' /\ File' \in Logic => info'[File'] = crc' /\ crc' # None
                    /\ crcMatch' /\ File' \in Logic /\ srv'.at = "answer" => InUse(File, crc)'
                    /\ client'.on /\ client'.last.file \in Logic /\ SomeFinal'
                          => InUse(client.last.file, client.last.ver)'
  BY <1>2 DEF FinalInv
<1>3. harm \cap {"block", "overlap"} = {} /\ ~(srv'.at = "saved" /\ ld'.at = "saved")
  OBVIOUS
<1>4. (client'.on /\ client'.last.file \in Logic /\ SomeFinal'
         => InUse(client.last.file, client.last.ver))
      /\ (crcMatch' /\ File' \in Logic => info'[File'] = crc' /\ crc' # None)
  BY <1>1, <1>2, <1>3 DEF FinalInv, SomeFinal
<1>5. \A v : \A f \in Logic : f = client'.last.file /\ v = client'.last.ver /\ InUse(f, v)'
                                => InUse(client.last.file, client.last.ver)'
  BY DEF InUse
<1>6. CASE srv.at = "save"
  <2>1. srv'.at = "saved" /\ image'["ota"] = info
    BY <1>1, <1>6, GotoFacts, SaveFacts DEF Save, ServerPlaces, Writers
  <2>2. \A i \in Info : Copy(i)' => i = info
    BY <1>1, <1>3, <2>1 DEF Copy
  <2>3. \A v : \A f \in Logic : InUse(f, v) => InUse(f, v)'
    BY <1>1, <2>2, InUseKept
  <2> QED BY <1>1, <1>4, <1>5, <2>1, <2>3
<1>7. CASE srv.at = "saved"
  <2>1. srv'.at = "answer" /\ ProgramBlock("ota")
    BY <1>1, <1>7, GotoFacts DEF Save, ServerPlaces
  <2>2. block.st = "erased" /\ ld.at # "saved" /\ \A f \in Logic : image["ota"][f] = info[f]
    BY <1>3, <1>7, SavedForm DEF FinalInv
  <2>3. block'.val = image["ota"]
    BY <1>1, <2>1, <2>2, SaveFacts DEF Writers
  <2>4. \A i \in Info : Copy(i)' => \A f \in Logic : i[f] = info[f]
    BY <1>1, <2>1, <2>2, <2>3 DEF Copy
  <2>5. \A v : \A f \in Logic : InUse(f, v) => InUse(f, v)'
    BY <1>1, <2>4, InUseKept
  <2>6. crcMatch' /\ File' \in Logic => InUse(File, crc)'
    BY <1>1, <1>4, <2>4 DEF InUse
  <2> QED BY <1>1, <1>4, <1>5, <2>1, <2>5, <2>6
<1> QED BY <1>6, <1>7 DEF Save

\* The answer after an acceptance is the last one; it clears crcMatch.
LEMMA AnswerFinal ==
    ASSUME Typed, RepliesTyped, Safe, InOrder, FinalInv, Answer, UNCHANGED ld, harm \subseteq harm'
    PROVE  FinalInv'
<1>1. /\ StoreTyped /\ ServerTyped /\ UNCHANGED <<crc, client, info, block, image>> /\ Busy
      /\ srv.at = "answer"
  BY TypedParts DEF Answer, NoTouch, KeepAnnounced, Busy
<1>2. /\ srv'.at \in {"saveHex", "reboot", "idle"}
      /\ srv'.at = "saveHex" => File' = "hex"
  <2>1. (Goto("saveHex") /\ File = "hex") \/ Goto("reboot") \/ Goto("idle")
    BY DEF Answer
  <2> QED BY <1>1, <2>1, GotoFacts DEF ServerPlaces, File
<1>3. ~crcMatch'
  <2>1. crcMatch => Finished
    BY DEF Safe, Checked, Finished
  <2>2. crcMatch' = (crcMatch /\ ~Finished /\ ~Done)
    BY DEF Answer, Done
  <2> QED BY <2>1, <2>2
<1>4. \A i \in Info : Copy(i)' => Copy(i)
  BY <1>1, <1>2 DEF Copy
<1>5. \A v : \A f \in Logic : InUse(f, v) => InUse(f, v)'
  BY <1>1, <1>4, InUseKept
<1>6. ASSUME harm' \cap {"block", "overlap"} = {}, client'.on, client'.last.file \in Logic, SomeFinal'
      PROVE  InUse(client.last.file, client.last.ver)'
  <2>1. InUse(client.last.file, client.last.ver)
    <3>1. harm \cap {"block", "overlap"} = {} /\ client.on /\ client.last.file \in Logic
      BY <1>1, <1>6
    <3>2. CASE SomeFinal
      BY <3>1, <3>2 DEF FinalInv
    <3>3. CASE ~SomeFinal
      <4>1. PICK a \in Said' : a.state = FINISH
        BY <1>1, <1>6, <3>3 DEF SomeFinal
      <4>2. \/ a \in Said
            \/ ~Done /\ a = AckAnswer
            \/ (Done \/ Finished) /\ a = FinalAnswer
        BY <1>1, AnswerAdds
      <4>3. /\ File = client.last.file /\ srv.frame.state # FINISH /\ ~Done
            /\ crc \in {None, client.last.ver}
        BY <1>1, <3>1, OwnFrame
      <4>4. Finished
        BY <3>3, <4>1, <4>2, <4>3 DEF SomeFinal, AckAnswer
      <4>5. InUse(File, crc) /\ crc # None
        BY <1>1, <3>1, <4>3, <4>4 DEF FinalInv, Finished
      <4> QED BY <4>3, <4>5
    <3> QED BY <3>2, <3>3
  <2>2. \A v : \A f \in Logic : f = client'.last.file /\ v = client'.last.ver /\ InUse(f, v)'
                                => InUse(client.last.file, client.last.ver)'
    BY DEF InUse
  <2> QED BY <1>1, <1>5, <1>6, <2>1, <2>2
<1> QED BY <1>2, <1>3, <1>6 DEF FinalInv

\* In the other steps nothing is being accepted, or an image is.
LEMMA OtherFinal ==
    ASSUME Typed, RepliesTyped, Safe, FinalInv, Server, ~Accept, ~Save, ~Answer, UNCHANGED ld,
           harm \subseteq harm'
    PROVE  FinalInv'
<1>1. /\ StoreTyped /\ ServerTyped /\ srv.at # "saved" /\ srv'.at # "saved"
      /\ UNCHANGED <<block, image, info>>
  BY TypedParts, ServerPlace
<1>2. UNCHANGED client /\ Said' \subseteq Said
  BY ServerQuiet, GarbledSaid, GarbledKeeps, SaidSame, <1>1 DEF Receive
<1>3. srv'.at \in {"saveHex", "savedHex"} => File' = "hex"
  <2>1. CASE Receive
    <3>1. srv'.at \in {"verify", "erase", "program", "answer"}
      BY <2>1 DEF Receive
    <3> QED BY <3>1
  <2>2. CASE Erase
    BY <1>1, <2>2 DEF Erase, ServerTyped
  <2>3. CASE ProgramTcp \/ EraseMqtt \/ FillMqtt \/ Verify
    <3>1. Goto("answer") \/ Goto("fill") \/ Goto("accept")
      BY <2>3 DEF ProgramTcp, EraseMqtt, FillMqtt, Verify
    <3> QED BY <1>1, <3>1, GotoFacts DEF ServerPlaces
  <2>4. CASE SaveHex
    <3>1. File = "hex"
      BY <2>4 DEF SaveHex, FinalInv
    <3>2. Goto("savedHex") \/ Goto("idle") \/ Goto("answer")
      BY <2>4 DEF SaveHex
    <3> QED BY <1>1, <3>1, <3>2, GotoFacts DEF ServerPlaces, File
  <2>5. CASE Garbled
    BY <1>1, <2>5, GarbledKeeps
  <2> QED BY <2>1, <2>2, <2>3, <2>4, <2>5 DEF Server
<1>4. crcMatch' => File' \notin Logic
  <2>4. CASE Garbled
    <3>1. crcMatch' = crcMatch /\ srv.at = "idle"
      BY <1>1, <2>4, GarbledKeeps
    <3> QED BY <3>1 DEF Safe, Checked
  <2>1. CASE Receive \/ Erase \/ ProgramTcp \/ EraseMqtt \/ FillMqtt
    <3>1. crcMatch' = crcMatch /\ srv.at \in {"idle", "erase", "program", "fill"}
      BY <2>1 DEF Receive, Erase, ProgramTcp, EraseMqtt, FillMqtt, KeepFirmware, otaVars
    <3> QED BY <3>1 DEF Safe, Checked
  <2>2. CASE Verify
    <3>1. crcMatch' \in {crcMatch, FALSE} /\ srv.at = "verify"
      BY <2>2 DEF Verify
    <3> QED BY <3>1 DEF Safe, Checked
  <2>3. CASE SaveHex
    <3>1. File = "hex" /\ crcMatch' = crcMatch /\ srv.at \in {"saveHex", "savedHex"}
      BY <2>3 DEF SaveHex, FinalInv
    <3>2. Goto("savedHex") \/ Goto("idle") \/ Goto("answer")
      BY <2>3 DEF SaveHex
    <3>3. srv'.at = "idle" \/ srv'.frame = srv.frame
      BY <1>1, <3>2, GotoFacts DEF ServerPlaces
    <3>4. srv'.at = "idle" => ~crcMatch'
      BY <1>1, <3>1, SaveHexSafe, GotoFacts, <2>3 DEF Safe, Checked
    <3> QED BY <3>1, <3>3, <3>4 DEF File, Logic
  <2> QED BY <2>1, <2>2, <2>3, <2>4 DEF Server
<1>5. \A i \in Info : Copy(i)' => Copy(i)
  BY <1>1 DEF Copy
<1>6. \A v : \A f \in Logic : InUse(f, v) => InUse(f, v)'
  BY <1>1, <1>5, InUseKept
<1>7. \A v : \A f \in Logic : f = client'.last.file /\ v = client'.last.ver /\ InUse(f, v)'
                                => InUse(client.last.file, client.last.ver)'
  BY DEF InUse
<1>8. harm' \cap {"block", "overlap"} = {} /\ client'.on /\ client'.last.file \in Logic /\ SomeFinal'
         => InUse(client.last.file, client.last.ver)
  BY <1>2 DEF FinalInv, SomeFinal
<1> QED BY <1>1, <1>2, <1>3, <1>4, <1>6, <1>7, <1>8 DEF FinalInv

LEMMA ServerFinal ==
    ASSUME Typed, RepliesTyped, Safe, Saved, InOrder, FinalInv, ServerStep PROVE FinalInv'
<1>1. /\ harm \subseteq harm' /\ Server /\ UNCHANGED ld
      /\ srv'.at = "saved" /\ ld'.at = "saved" => "overlap" \in harm'
  BY HarmFacts DEF ServerStep, loaderVars
<1> QED BY <1>1, AcceptFinal, SaveFinal, AnswerFinal, OtherFinal

LEMMA NextKeepsFinal ==
    ASSUME Typed, RepliesTyped, Safe, Saved, InOrder, FinalInv, [Next]_vars PROVE FinalInv'
<1>1. CASE ValuesStep \/ UNCHANGED vars
  <2>1. UNCHANGED <<srv, crc, crcMatch, image, info, block, ld, harm, client>> /\ Said' = Said
    BY <1>1, SaidSame DEF ValuesStep, SaveValues, KeepStore, vars, storeVars, srvVars, clientVars, otaVars,
                loaderVars
  <2>2. \A i \in Info : Copy(i)' => Copy(i)
    BY <2>1 DEF Copy
  <2>3. SomeFinal' => SomeFinal
    BY <2>1 DEF SomeFinal
  <2> QED BY <2>1, <2>2, <2>3, FinalKept
<1>2. CASE Restart \/ PowerFailure
  BY <1>2, ResetFinal DEF Restart, PowerFailure
<1>3. ServerTyped
  BY TypedParts
<1> QED BY <1>1, <1>2, <1>3, ClientFinal, ServerFinal, LoaderFinal DEF Next

LEMMA ClientInvariant == Spec => [](IInv /\ RepliesTyped /\ InOrder /\ FinalInv)
<1>1. Init => RepliesTyped /\ InOrder /\ FinalInv
  BY OrderInit, FinalInit
<1>2. IInv /\ RepliesTyped /\ InOrder /\ FinalInv /\ [Next]_vars
        => RepliesTyped' /\ InOrder' /\ FinalInv'
  BY NextKeepsOrder, NextKeepsFinal DEF IInv, Safe
<1> QED BY <1>1, <1>2, Invariant, PTL DEF Spec

\* A client that got the last answer has its program or recipe accepted,
\* after any power failure that did not hit a save of the block, and unless
\* two tasks saved it at once (OTA.c:57-108, tcpserver.c:156).
THEOREM FinalCorrect == Spec => []FinalMeansAccepted
<1>1. FinalInv => FinalMeansAccepted
  BY DEF FinalInv, FinalMeansAccepted, SomeFinal, InUse
<1> QED BY <1>1, ClientInvariant, PTL

(***************************************************************************)
(* Chunks that were acknowledged.                                          *)
(***************************************************************************)
\* Cells c and n are in one sector.
SameSector(n, c) == (c - 1) \div SectorCells = (n - 1) \div SectorCells

ChunkNumbers == Nat \ {0}

\* The client was told that chunk n was stored, or will be.
Promised(n) ==
    \/ n \in client.acked
    \/ \E a \in Said : a.state = IN_PROGRESS /\ a.n = n
    \/ srv.at = "answer" /\ srv.frame.state = IN_PROGRESS /\ Number = n

\* Chunk n is at hand, its cells being written.
Moving(n) == srv.at \in {"program", "fill"} /\ Number = n

Stored(n) ==
    \A c \in ChunkCells(client.last.mode, n) \cap Cells : area[client.last.file][c] = client.last.ver

\* What an erasure for chunk n would erase holds nothing but this transfer.
Fresh(n) ==
    \A c \in Cells : (client.last.file = "hex" => SameSector(n, c))
                       => area[client.last.file][c] \in {Blank, client.last.ver}

\* The handler erases a sector at its first chunk, and fills what is blank.
Places ==
    /\ srv.at = "erase" => EraseFirst(srv.frame) /\ Number > 0
    /\ srv.at \in {"program", "fill"} => Number > 0
    /\ srv.at = "fill" => Mode = "mqtt" /\ \A c \in ChunkCells(Mode, Number) \cap Cells :
                                               area[File][c] = Blank
    /\ srv.at \in {"saveHex", "savedHex"} => srv.frame.state # IN_PROGRESS

\* What is at hand, or was promised, is on clean ground, and what was promised
\* is stored, is being written again, or the client is about to be refused.
ChunkInv(n) ==
    /\ client.last.mode = "tcp" /\ (Promised(n) \/ (srv.at = "program" /\ Number = n)) => Fresh(n)
    /\ Promised(n) => Stored(n) \/ Moving(n) \/ (client.last.mode = "tcp" /\ Denied)

StoredInv ==
    client.on => Places /\ (~unseen => \A n \in ChunkNumbers : ChunkInv(n))

\* Sectors and the chunks they begin with.
LEMMA Division ==
    ASSUME NEW a \in Nat, NEW s \in Nat \ {0}
    PROVE  /\ a \div s \in Nat /\ a % s \in Nat /\ a % s < s
           /\ a % s = a - s * (a \div s)
<1>1. a \div s \in Nat /\ a % s \in Nat /\ a % s < s
  OBVIOUS
<1>2. a % s = a - s * (a \div s)
  OBVIOUS
<1> QED BY <1>1, <1>2

LEMMA SectorFirst ==
    ASSUME NEW n \in Nat \ {0}, NEW k \in Nat \ {0}, n <= k,
           (k - 1) % SectorCells = 0, SameSector(k, n)
    PROVE  n = k
<1>1. SectorCells \in Nat \ {0} /\ n - 1 \in Nat /\ k - 1 \in Nat
  BY CellAssumption
<1> DEFINE q == (k - 1) \div SectorCells
           p == SectorCells * q
           r == (n - 1) % SectorCells
<1>2. k - 1 = p /\ n - 1 = p + r /\ r \in Nat /\ p \in Int
  <2>1. q = (n - 1) \div SectorCells /\ q \in Nat
    BY <1>1, Division DEF SameSector
  <2>2. r = n - 1 - p /\ r \in Nat
    BY <1>1, <2>1, Division
  <2>3. 0 = k - 1 - p /\ p \in Int
    BY <1>1, <2>1, Division
  <2> HIDE DEF q, p, r
  <2> QED BY <1>1, <2>2, <2>3
<1> HIDE DEF q, p, r
<1> QED BY <1>1, <1>2

LEMMA Uniquely ==
    ASSUME NEW s \in Nat \ {0}, NEW q \in Nat, NEW r \in Nat, r < s
    PROVE  (s * q + r) \div s = q
OBVIOUS

LEMMA SectorNext ==
    ASSUME NEW n \in Nat \ {0}, (n - 1) % SectorCells # 0
    PROVE  n - 1 \in Nat \ {0} /\ \A c : SameSector(n, c) <=> SameSector(n - 1, c)
<1>1. SectorCells \in Nat \ {0} /\ n - 1 \in Nat
  BY CellAssumption
<1> DEFINE q == (n - 1) \div SectorCells
           r == (n - 1) % SectorCells
           p == SectorCells * q
<1>2. n - 1 = p + r /\ r \in Nat /\ r # 0 /\ r < SectorCells /\ q \in Nat /\ p \in Int
  <2>1. r = n - 1 - p /\ r \in Nat /\ r # 0 /\ r < SectorCells /\ q \in Nat
    BY <1>1, Division
  <2>2. p \in Int
    <3> HIDE DEF q
    <3> QED BY <1>1, <2>1
  <2> HIDE DEF q, p, r
  <2> QED BY <1>1, <2>1, <2>2
<1>3. n - 1 \in Nat \ {0}
  <2>1. 0 % SectorCells = 0
    BY <1>1
  <2> QED BY <1>1, <2>1
<1>4. (p + (r - 1)) \div SectorCells = q
  <2>1. r - 1 \in Nat /\ r - 1 < SectorCells
    BY <1>1, <1>2
  <2> HIDE DEF q, r
  <2> QED BY <1>1, <1>2, <2>1, Uniquely
<1>5. (n - 1) - 1 = p + (r - 1)
  <2> HIDE DEF q, r, p
  <2> QED BY <1>1, <1>2
<1> QED BY <1>3, <1>4, <1>5 DEF SameSector

\* Chunks sent over MQTT are sectors.
LEMMA ChunkApart ==
    ASSUME NEW m \in {"tcp", "mqtt"}, NEW n \in Nat, NEW k \in Nat, n # k,
           NEW c \in ChunkCells(m, n)
    PROVE  c \notin ChunkCells(m, k)
BY DEF ChunkCells

LEMMA StoredInit == Init => StoredInv
<1> SUFFICES ASSUME Init PROVE StoredInv
  OBVIOUS
<1>1. PICK m \in Modes : client = Idle(m, 1)
  BY DEF Init, ServerInit
<1>2. ~client.on
  BY <1>1 DEF Idle, Sending
<1> QED BY <1>2 DEF StoredInv

\* A step that writes no cell of the file and promises nothing new.
LEMMA StoredKept ==
    ASSUME StoredInv, client.on, Places', area' = area,
           client'.last.file = client.last.file, client'.last.ver = client.last.ver,
           client'.last.mode = client.last.mode, ~unseen' => ~unseen,
           \A n \in ChunkNumbers : Promised(n)' => Promised(n),
           ~unseen' => \A n \in ChunkNumbers : Promised(n)' /\ Moving(n) => Moving(n)',
           srv'.at = "program" =>
               \/ srv' = srv
               \/ ~unseen' /\ client.last.mode = "tcp" /\ Number' \in ChunkNumbers => Fresh(Number'),
           client.last.mode = "tcp" /\ Denied => Denied'
    PROVE  StoredInv'
<1> SUFFICES ASSUME ~unseen', NEW n \in ChunkNumbers PROVE ChunkInv(n)'
  BY DEF StoredInv
<1>1. ChunkInv(n)
  BY DEF StoredInv
<1>2. (Fresh(n) => Fresh(n)') /\ (Stored(n) => Stored(n)')
  BY DEF Fresh, Stored
<1>3. srv' = srv => Number' = Number
  BY DEF Number
<1> QED BY <1>1, <1>2, <1>3 DEF ChunkInv

LEMMA PlacesSame == ASSUME Places, UNCHANGED <<srv, area>> PROVE Places'
<1>1. Number' = Number /\ Mode' = Mode /\ File' = File
  BY DEF Number, Mode, File
<1> QED BY <1>1 DEF Places

LEMMA StoredUnseen == ASSUME unseen', Places' PROVE StoredInv'
BY DEF StoredInv

\* The client: a repeated frame, an answer heard.
LEMMA AnnounceStored ==
    ASSUME ServerTyped, NEW f \in Files, Announce(f) PROVE StoredInv'
<1>1. Said' = {} /\ client'.acked = {} /\ srv' = srv /\ srv.at = "idle"
  BY AnnounceOrder DEF Announce, SendFrame
<1>3. \A n \in ChunkNumbers : ~Promised(n)'
  BY <1>1 DEF Promised
<1>4. \A n \in ChunkNumbers : ChunkInv(n)'
  BY <1>1, <1>3 DEF ChunkInv
<1> QED BY <1>1, <1>4 DEF StoredInv, Places

LEMMA HearStored ==
    ASSUME ServerTyped, RepliesTyped, InOrder, StoredInv, Hear PROVE StoredInv'
<1> SUFFICES ASSUME client'.on PROVE StoredInv'
  BY DEF StoredInv
<1>1. /\ outbox # <<>> /\ outbox[1] \in Reply /\ outbox' = Tail(outbox)
      /\ outbox[1] \in Said /\ Said' \subseteq Said
      /\ UNCHANGED <<srv, ack, unseen, area>>
      /\ Told(outbox[1]) \/ Advanced(outbox[1])
  BY HearForms DEF otaVars, storeVars
<1>2. /\ \A i \in 1 .. Len(outbox') : i + 1 \in 1 .. Len(outbox) /\ outbox'[i] = outbox[i + 1]
      /\ \A i \in 1 .. Len(outbox) : i # 1 => i - 1 \in 1 .. Len(outbox') /\ outbox'[i - 1] = outbox[i]
      /\ 1 \in 1 .. Len(outbox)
  BY <1>1, TakenFrom DEF RepliesTyped
<1>3. client.on
  BY <1>1 DEF Told, Advanced
<1>4. outbox[1].ok
  BY <1>1, <1>2, <1>3 DEF Told, Advanced, InOrder
<1>5. Denied => Denied'
  BY <1>1, <1>2, <1>4 DEF Denied
<1>6. client.last \in Frame /\ Place(client.last)
  BY <1>3 DEF InOrder, Under, ServerTyped, IsClient
<1>7. \A n \in client'.acked : \/ n \in client.acked
                               \/ n = 0
                               \/ outbox[1].state = IN_PROGRESS /\ outbox[1].n = n
  <2>1. CASE Told(outbox[1])
    <3>1. client'.acked = client.acked
      BY <2>1 DEF Told
    <3> QED BY <3>1
  <2>2. CASE Advanced(outbox[1])
    <3>1. outbox[1].n # 0 => outbox[1].state = IN_PROGRESS
      BY <1>6, <2>2 DEF Advanced, Place, OfTransfer
    <3>2. client'.acked = client.acked \cup (IF outbox[1].n = 0 THEN {} ELSE {outbox[1].n})
      BY <2>2 DEF Advanced
    <3> QED BY <3>1, <3>2
  <2> QED BY <1>1, <2>1, <2>2
<1>8. \A n \in ChunkNumbers : (Promised(n)' => Promised(n)) /\ (Moving(n) => Moving(n)')
  BY <1>1, <1>7 DEF Promised, Moving, Number, ChunkNumbers
<1>9. /\ client'.last.file = client.last.file /\ client'.last.ver = client.last.ver
      /\ client'.last.mode = client.last.mode
  <2>1. CASE Told(outbox[1])
    BY <2>1 DEF Told
  <2>2. CASE Advanced(outbox[1])
    <3>1. client.last.state \in {START, IN_PROGRESS} /\ (client.last.state = START => client.last.n = 0)
      BY <1>6, <2>2 DEF Advanced, Place, OfTransfer, START, IN_PROGRESS, VERIFICATION
    <3> QED BY <1>6, <2>2, <3>1, AfterFacts DEF Advanced
  <2> QED BY <1>1, <2>1, <2>2
<1>10. Places'
  BY <1>1, <1>3, PlacesSame DEF StoredInv
<1> QED BY <1>1, <1>3, <1>5, <1>8, <1>9, <1>10, StoredKept

\* Steps that change nothing of the transfer but what is on its way.
LEMMA StoredSame ==
    ASSUME StoredInv, UNCHANGED <<client, srv, ack, unseen, area>>, Said' \subseteq Said,
           \A i \in 1 .. Len(outbox) : i \in 1 .. Len(outbox') /\ outbox'[i] = outbox[i]
    PROVE  StoredInv'
<1> SUFFICES ASSUME client.on PROVE StoredInv'
  BY DEF StoredInv
<1>1. Places'
  BY PlacesSame DEF StoredInv
<1>2. \A n \in ChunkNumbers : (Promised(n)' => Promised(n)) /\ (Moving(n) => Moving(n)')
  BY DEF Promised, Moving, Number
<1>3. Denied => Denied'
  BY DEF Denied
<1> QED BY <1>1, <1>2, <1>3, StoredKept

LEMMA ClientStored ==
    ASSUME ServerTyped, RepliesTyped, InOrder, StoredInv, ClientStep PROVE StoredInv'
<1>1. CASE Repeat
  <2>1. UNCHANGED <<client, outbox, response, srv, ack, unseen, area>>
    BY <1>1 DEF Repeat, SendFrame, otaVars
  <2> QED BY <2>1, StoredSame, SaidSame
<1>2. CASE GiveUp \/ AskFinish
  <2>1. ~client'.on
    BY <1>2 DEF GiveUp, AskFinish, Idle, Sending
  <2> QED BY <2>1 DEF StoredInv
<1> QED BY <1>1, <1>2, AnnounceStored, HearStored DEF ClientStep, Client

\* A reset: what was being written over itself counts as not seen, and a
\* client that was told no goes with its connection.
LEMMA ResetStored ==
    ASSUME StoredInv, Reset PROVE StoredInv'
<1>1. /\ Said' = {} /\ srv'.at = "idle" /\ area' = area
      /\ (client' = client /\ client.last.mode = "mqtt") \/ ~client'.on
      /\ unseen \/ Rewriting => unseen'
  BY SaidNone DEF Reset, ServerReset, LoaderReset, Waiting, Idle, Sending
<1> SUFFICES ASSUME client.on, client' = client, client.last.mode = "mqtt" PROVE StoredInv'
  BY <1>1 DEF StoredInv
<1>2. Places'
  BY <1>1 DEF Places
<1>3. \A n \in ChunkNumbers : Promised(n)' => Promised(n)
  BY <1>1, <1>2 DEF Promised
<1>4. ~unseen' => \A n \in ChunkNumbers : ~(Promised(n)' /\ Moving(n))
  BY <1>1, <1>2 DEF Promised, Moving, Rewriting
<1> QED BY <1>1, <1>2, <1>3, <1>4, StoredKept

\* What was promised is not after the chunk at hand.
LEMMA PromisedBefore ==
    ASSUME ServerTyped, InOrder, Busy, client.on, srv.frame.state = IN_PROGRESS,
           NEW n \in ChunkNumbers, Promised(n)
    PROVE  n <= Number
<1>1. Place(srv.frame) /\ srv.frame.n \in Nat
  BY OwnFrame DEF ServerTyped, Frame
<1>2. srv.frame.state # VERIFICATION /\ IN_PROGRESS # FINISH
  BY DEF VERIFICATION, IN_PROGRESS, FINISH
<1>3. CASE n \in client.acked
  BY <1>1, <1>2, <1>3 DEF Place, Number
<1>4. CASE \E a \in Said : a.state = IN_PROGRESS /\ a.n = n
  BY <1>1, <1>2, <1>4 DEF Place, UpTo, Number
<1>5. CASE Number = n
  BY <1>5 DEF ChunkNumbers
<1> QED BY <1>3, <1>4, <1>5 DEF Promised

\* A chunk that erases nothing follows one in the same sector, or file.
LEMMA ReceiveStored ==
    ASSUME ServerTyped, InOrder, StoredInv, Receive PROVE StoredInv'
<1> SUFFICES ASSUME client.on PROVE StoredInv'
  BY DEF StoredInv, Receive
<1> DEFINE fr == srv'.frame
<1>1. /\ UNCHANGED <<client, outbox, unseen, area>> /\ Said' = Said /\ srv.at = "idle"
      /\ inbox # <<>>
      /\ fr = Head(inbox)
      /\ srv'.at = CASE fr.state = VERIFICATION -> "verify"
                     [] fr.n > 0 /\ EraseFirst(fr) -> "erase"
                     [] fr.n > 0 /\ ~EraseFirst(fr) -> "program"
                     [] OTHER -> "answer"
  BY SaidSame DEF Receive, storeVars
<1>2. inbox \in Seq(Frame)
  BY DEF ServerTyped
<1>3. fr \in Frame /\ Under(fr)
  BY <1>1, <1>2, TakenFrom DEF Under
<1>4. Place(fr) /\ fr.n \in Nat
  BY <1>3 DEF InOrder, Frame
<1> HIDE DEF fr
<1>5. /\ srv'.at \in {"verify", "erase", "program", "answer"}
      /\ srv'.at = "erase" => fr.n > 0 /\ EraseFirst(fr)
      /\ srv'.at = "program" => fr.n > 0 /\ ~EraseFirst(fr)
      /\ srv'.at = "answer" => ~(fr.n > 0)
  BY <1>1, <1>4 DEF Place, OfTransfer
<1>6. Number' = fr.n
  BY DEF Number, fr
<1>7. Places'
  BY <1>5, <1>6 DEF Places, fr
<1>8. \A n \in ChunkNumbers : Promised(n)' => Promised(n)
  BY <1>1, <1>4, <1>5, <1>6 DEF Promised, ChunkNumbers
<1>9. \A n \in ChunkNumbers : ~Moving(n)
  BY <1>1 DEF Moving
<1>10. Denied => Denied'
  BY <1>1 DEF Denied
<1>11. ASSUME srv'.at = "program", ~unseen', client.last.mode = "tcp", Number' \in ChunkNumbers
       PROVE  Fresh(Number')
  <2> DEFINE n == fr.n
             m == n - 1
  <2>1. n \in ChunkNumbers /\ ~EraseFirst(fr) /\ fr.file = client.last.file /\ fr.mode = "tcp"
        /\ fr.file \in Files
    BY <1>3, <1>4, <1>5, <1>6, <1>11 DEF Place, OfTransfer, Frame
  <2>2. m \in ChunkNumbers /\ (fr.file = "hex" => \A c : SameSector(n, c) <=> SameSector(m, c))
    <3>1. CASE fr.file \in Logic
      <4>1. fr.n # 1 /\ fr.file # "hex"
        BY <2>1, <3>1 DEF EraseFirst, Logic
      <4> QED BY <2>1, <4>1 DEF ChunkNumbers
    <3>2. CASE fr.file \notin Logic
      <4>1. (n - 1) % SectorCells # 0
        BY <2>1, <3>2 DEF EraseFirst
      <4> QED BY <2>1, <4>1, SectorNext DEF ChunkNumbers
    <3> QED BY <3>1, <3>2
  <2>3. m \in client.acked
    <3>1. m \in 1 .. (fr.n - 1)
      BY <1>4, <2>2 DEF ChunkNumbers
    <3> QED BY <1>4, <3>1 DEF Place
  <2>4. Fresh(m)
    BY <1>1, <1>11, <2>2, <2>3 DEF StoredInv, ChunkInv, Promised
  <2>5. Fresh(n)
    BY <2>1, <2>2, <2>4 DEF Fresh
  <2> QED BY <1>6, <2>5
<1> QED BY <1>1, <1>7, <1>8, <1>9, <1>10, <1>11, StoredKept

LEMMA GarbledStored ==
    ASSUME ServerTyped, RepliesTyped, StoredInv, Garbled PROVE StoredInv'
BY GarbledKeeps, GarbledSaid, StoredSame DEF NoTouch

\* Verification, acceptance and saves: neither a chunk nor its answer.
LEMMA VerifiedStored ==
    ASSUME ServerTyped, InOrder, Checked, StoredInv, Verify \/ Accept \/ Save \/ SaveHex
    PROVE  StoredInv'
<1> SUFFICES ASSUME client.on PROVE StoredInv'
  BY DEF StoredInv, Verify, Accept, Save, SaveHex, clientVars
<1>1. /\ UNCHANGED <<client, outbox, area>> /\ Said' = Said /\ (unseen => unseen')
      /\ srv.at \in {"verify", "accept", "save", "saved", "saveHex", "savedHex"}
  <2>1. unseen => unseen'
    <3>1. unseen' = unseen \/ unseen' = (unseen \/ File # "hex")
      BY DEF Verify, Accept, Save, SaveHex
    <3> QED BY <3>1, Zenon
  <2> QED BY <2>1, SaidSame DEF Verify, Accept, Save, SaveHex, clientVars, NoTouch, storeVars
<1>2. srv.frame.state # IN_PROGRESS
  BY <1>1 DEF Checked, StoredInv, Places, VERIFICATION, IN_PROGRESS
<1>3. /\ srv'.at \in {"accept", "save", "saved", "saveHex", "savedHex", "answer", "idle"}
      /\ srv'.at = "idle" \/ srv'.frame = srv.frame
  <2>1. \/ Goto("accept") \/ Goto("save") \/ Goto("saved") \/ Goto("saveHex") \/ Goto("savedHex")
        \/ Goto("answer") \/ Goto("idle")
    BY DEF Verify, Accept, Save, SaveHex
  <2>2. \A a \in ServerPlaces : Goto(a) => srv'.at = a /\ (srv'.at = "idle" \/ srv'.frame = srv.frame)
    BY GotoFacts
  <2> QED BY <2>1, <2>2 DEF ServerPlaces
<1>4. Places'
  BY <1>2, <1>3 DEF Places
<1>5. \A n \in ChunkNumbers : (Promised(n)' => Promised(n)) /\ ~Moving(n)
  BY <1>1, <1>2, <1>3 DEF Promised, Moving
<1>6. Denied => Denied'
  BY <1>1 DEF Denied
<1> QED BY <1>1, <1>3, <1>4, <1>5, <1>6, StoredKept

\* An answer sent over TCP is not lost, a refusal included.
LEMMA AnswerStored ==
    ASSUME ServerTyped, RepliesTyped, InOrder, StoredInv, Answer PROVE StoredInv'
<1> SUFFICES ASSUME client.on PROVE StoredInv'
  BY DEF StoredInv, Answer
<1>1. /\ UNCHANGED <<client, area, unseen, ack>> /\ srv.at = "answer" /\ Busy
  BY DEF Answer, NoTouch, Busy
<1>2. Mode = client.last.mode /\ ~Done
  BY <1>1, OwnFrame
<1>3. srv'.at \in {"reboot", "idle"}
  <2>1. Goto("reboot") \/ Goto("idle")
    BY <1>2 DEF Answer, Done
  <2> QED BY <2>1, GotoFacts DEF ServerPlaces
<1>4. \A n \in ChunkNumbers : (Promised(n)' => Promised(n)) /\ ~Moving(n)
  <2>1. \A a \in Said' : \/ a \in Said
                         \/ a.state = srv.frame.state /\ a.n = Number
                         \/ a.state # IN_PROGRESS
    <3>1. AckAnswer.state = srv.frame.state /\ AckAnswer.n = Number
      BY DEF AckAnswer
    <3>2. FinalAnswer.state # IN_PROGRESS
      BY DEF FinalAnswer, FINISH, IN_PROGRESS
    <3>3. \A a \in Said' : a \in Said \/ a = AckAnswer \/ a = FinalAnswer
      BY AnswerAdds
    <3> QED BY <3>1, <3>2, <3>3
  <2> QED BY <1>1, <1>3, <2>1 DEF Promised, Moving
<1>5. client.last.mode = "tcp" /\ Denied => Denied'
  <2>1. CASE ~ack /\ client.last.mode = "tcp"
    BY <1>2, <2>1, AnswerAdds DEF AckAnswer, Denied
  <2>2. CASE \E i \in 1 .. Len(outbox) : ~outbox[i].ok
    BY <2>2, AnswerAdds DEF Denied
  <2> QED BY <2>1, <2>2 DEF Denied
<1>6. Places'
  BY <1>3 DEF Places
<1> QED BY <1>1, <1>3, <1>4, <1>5, <1>6, StoredKept

\* Writing in the file at hand.
LEMMA CellsErased ==
    ASSUME StoreTyped, ServerTyped, NEW cells, EraseCells(cells), NEW c \in Cells
    PROVE  area'[File][c] = IF c \in cells THEN Blank ELSE area[File][c]
<1>1. File \in Files
  BY DEF ServerTyped, File, Frame
<1> QED BY <1>1 DEF EraseCells, Touch, StoreTyped

LEMMA CellsProgrammed ==
    ASSUME StoreTyped, ServerTyped, NEW cells, ProgramCells(cells), NEW c \in Cells
    PROVE  area'[File][c] = IF c \in cells THEN Programmed(area[File][c], srv.frame.ver)
                            ELSE area[File][c]
<1>1. File \in Files
  BY DEF ServerTyped, File, Frame
<1> QED BY <1>1 DEF ProgramCells, Touch, StoreTyped

\* The chunk at hand, while the client goes on.
LEMMA AtHand ==
    ASSUME ServerTyped, InOrder, StoredInv, client.on, srv.at \in {"erase", "program", "fill"}
    PROVE  /\ Places /\ Number \in ChunkNumbers /\ srv.frame.state = IN_PROGRESS
           /\ File = client.last.file /\ srv.frame.ver = client.last.ver /\ Mode = client.last.mode
           /\ \A n \in ChunkNumbers : Promised(n) => n <= Number
<1>1. Busy /\ Places
  BY DEF Busy, StoredInv
<1>2. /\ Place(srv.frame) /\ File = client.last.file /\ srv.frame.ver = client.last.ver
      /\ Mode = client.last.mode
  BY <1>1, OwnFrame
<1>3. Number > 0 /\ Number \in Nat
  BY <1>1 DEF Places, Number, ServerTyped, Frame
<1>4. srv.frame.state = IN_PROGRESS
  BY <1>2, <1>3 DEF Place, OfTransfer, Number
<1> QED BY <1>1, <1>2, <1>3, <1>4, PromisedBefore DEF ChunkNumbers

\* The erasure takes what was written of this transfer only if the chunk was
\* sent before: the others of its sector come after it.
LEMMA EraseStored ==
    ASSUME StoreTyped, ServerTyped, InOrder, StoredInv, Erase PROVE StoredInv'
<1> SUFFICES ASSUME client.on PROVE StoredInv'
  BY DEF StoredInv, Erase, clientVars
<1>1. /\ UNCHANGED <<client, outbox, ack>> /\ Said' = Said
      /\ srv.at = "erase" /\ srv'.at = "program" /\ srv'.frame = srv.frame /\ Number' = Number
  BY SaidSame DEF Erase, clientVars, otaVars, ServerTyped, Number
<1>2. /\ Number \in ChunkNumbers /\ File = client.last.file /\ Mode = client.last.mode
      /\ EraseFirst(srv.frame) /\ \A n \in ChunkNumbers : Promised(n) => n <= Number
  BY <1>1, AtHand DEF Places
<1>3. Places'
  BY <1>1, <1>2 DEF Places, ChunkNumbers
<1>4. CASE unseen'
  BY <1>3, <1>4, StoredUnseen
<1>5. CASE ~unseen'
  <2>1. EraseCells(EraseSet) /\ ~unseen
    BY <1>5 DEF Erase
  <2>2. \A c \in Cells : area'[File][c] = IF c \in EraseSet THEN Blank ELSE area[File][c]
    BY <2>1, CellsErased
  <2>3. \A n \in ChunkNumbers : Promised(n)' => Promised(n)
    BY <1>1 DEF Promised
  <2>4. Denied => Denied'
    BY <1>1 DEF Denied
  <2>5. ASSUME NEW n \in ChunkNumbers, Fresh(n) PROVE Fresh(n)'
    BY <1>1, <1>2, <2>2, <2>5 DEF Fresh
  <2>6. Fresh(Number)'
    BY <1>1, <1>2, <2>2 DEF Fresh, EraseSet, SameSector
  <2>7. ASSUME NEW n \in ChunkNumbers, Promised(n), Stored(n), n # Number PROVE Stored(n)'
    <3>1. n < Number /\ n \in Nat /\ Number \in Nat
      BY <1>2, <2>7 DEF ChunkNumbers
    <3>2. File = "hex" /\ Mode = "tcp" /\ (Number - 1) % SectorCells = 0
      BY <1>2, <3>1 DEF EraseFirst, File, Mode, Number, Logic, ServerTyped, Frame, Files, ChunkNumbers
    <3>3. n \notin EraseSet
      <4>1. ~SameSector(Number, n)
        BY <1>2, <3>1, <3>2, SectorFirst DEF ChunkNumbers
      <4> QED BY <3>2, <4>1 DEF EraseSet, SameSector
    <3> QED BY <1>1, <1>2, <2>2, <2>7, <3>2, <3>3 DEF Stored, ChunkCells
  <2>8. ASSUME NEW n \in ChunkNumbers PROVE ChunkInv(n)'
    <3>1. ChunkInv(n) /\ ~Moving(n)
      BY <1>1, <2>1 DEF StoredInv, Moving
    <3>2. Number = n => Moving(n)'
      BY <1>1 DEF Moving
    <3>3. /\ client'.last.mode = "tcp" /\ (Promised(n)' \/ (srv'.at = "program" /\ Number' = n)) => Fresh(n)'
      <4>1. CASE n = Number
        BY <1>1, <2>6, <4>1 DEF Fresh
      <4>2. CASE n # Number
        BY <1>1, <2>3, <2>5, <3>1, <4>2 DEF ChunkInv
      <4> QED BY <4>1, <4>2
    <3>4. Promised(n)' => Stored(n)' \/ Moving(n)' \/ (client'.last.mode = "tcp" /\ Denied')
      BY <1>1, <2>3, <2>4, <2>7, <3>1, <3>2 DEF ChunkInv
    <3> QED BY <3>3, <3>4 DEF ChunkInv
  <2> QED BY <1>3, <2>8 DEF StoredInv
<1> QED BY <1>4, <1>5

\* Over TCP the chunk lands on what is blank or its own, or is refused.
LEMMA ProgramStored ==
    ASSUME StoreTyped, ServerTyped, InOrder, StoredInv, ProgramTcp PROVE StoredInv'
<1> SUFFICES ASSUME client.on PROVE StoredInv'
  BY DEF StoredInv, ProgramTcp, clientVars
<1>1. /\ UNCHANGED <<client, outbox>> /\ Said' = Said /\ srv.at = "program"
      /\ srv'.at = "answer" /\ srv'.frame = srv.frame /\ Number' = Number /\ Mode = "tcp"
      /\ unseen' \/ unseen' = unseen
  BY GotoFacts, SaidSame DEF ProgramTcp, clientVars, ServerPlaces, Number
<1>2. /\ Number \in ChunkNumbers /\ File = client.last.file /\ client.last.mode = "tcp"
      /\ srv.frame.ver = client.last.ver
  BY <1>1, AtHand
<1>3. Places'
  BY <1>1 DEF Places
<1>4. CASE unseen'
  BY <1>3, <1>4, StoredUnseen
<1>5. ASSUME ~unseen', NEW n \in ChunkNumbers PROVE ChunkInv(n)'
  <2>1. /\ ChunkInv(n)
        /\ Promised(n)' => (Promised(n) \/ Number = n) /\ Fresh(n)
    BY <1>1, <1>2, <1>5 DEF StoredInv, ChunkInv, Promised, Moving
  <2>2. ChunkInv(Number) /\ Fresh(Number)
    BY <1>1, <1>2, <1>5 DEF StoredInv, ChunkInv
  <2>3. CASE ProgramCells({Number}) /\ ack' = TRUE
    <3>1. \A c \in Cells : area'[File][c] = IF c = Number THEN Programmed(area[File][c], srv.frame.ver)
                                             ELSE area[File][c]
      BY <2>3, CellsProgrammed
    <3>2. Number \in Cells => area'[File][Number] = client.last.ver
      <4>1. SameSector(Number, Number)
        BY DEF SameSector
      <4> QED BY <1>2, <2>2, <3>1, <4>1 DEF Fresh, Programmed
    <3>3. Fresh(n) => Fresh(n)'
      BY <1>1, <1>2, <3>1, <3>2 DEF Fresh
    <3>4. n # Number /\ Stored(n) => Stored(n)'
      BY <1>1, <1>2, <3>1 DEF Stored, ChunkCells
    <3>5. n = Number => Stored(n)'
      BY <1>1, <1>2, <3>2 DEF Stored, ChunkCells
    <3>6. Denied => Denied'
      BY <1>1 DEF Denied
    <3>7. Promised(n)' => Stored(n)' \/ Denied'
      <4>1. n # Number => ~Moving(n)
        BY DEF Moving
      <4> QED BY <2>1, <3>4, <3>5, <3>6, <4>1 DEF ChunkInv
    <3> QED BY <1>1, <1>2, <2>1, <3>3, <3>7 DEF ChunkInv
  <2>4. CASE NoTouch /\ ack' = FALSE
    <3>1. Denied' /\ area' = area
      BY <1>1, <2>4 DEF Denied, NoTouch
    <3>2. Fresh(n) => Fresh(n)'
      BY <1>1, <3>1 DEF Fresh
    <3> QED BY <1>1, <1>2, <2>1, <3>1, <3>2 DEF ChunkInv
  <2> QED BY <1>5, <2>3, <2>4 DEF ProgramTcp
<1> QED BY <1>3, <1>4, <1>5 DEF StoredInv

\* Over MQTT the chunk's own sector is erased, then filled.
LEMMA SectorStored ==
    ASSUME StoreTyped, ServerTyped, InOrder, StoredInv, EraseMqtt \/ FillMqtt PROVE StoredInv'
<1> SUFFICES ASSUME client.on PROVE StoredInv'
  BY DEF StoredInv, EraseMqtt, FillMqtt, clientVars
<1>1. UNCHANGED <<client, outbox>> /\ Said' = Said /\ srv.at \in {"program", "fill"}
  BY SaidSame DEF EraseMqtt, FillMqtt, clientVars
<1>2. /\ Number \in ChunkNumbers /\ File = client.last.file /\ Mode = client.last.mode
      /\ srv.frame.ver = client.last.ver /\ Mode = "mqtt" /\ Places
  BY <1>1, AtHand DEF EraseMqtt, FillMqtt, Places
<1>3. /\ srv'.at \in {"fill", "answer"} /\ srv'.frame = srv.frame /\ Number' = Number
      /\ Mode' = Mode /\ File' = File
  <2>1. Goto("fill") \/ Goto("answer")
    BY DEF EraseMqtt, FillMqtt
  <2> QED BY <2>1, GotoFacts DEF ServerPlaces, Number, Mode, File
<1> DEFINE Rest == /\ ~unseen
                   /\ \A c \in Cells : c \notin ChunkCells(Mode, Number) => area'[File][c] = area[File][c]
                   /\ srv'.at = "answer" => Stored(Number)'
<1>4. Places' /\ (unseen' \/ Rest)
  <2>1. CASE EraseMqtt /\ EraseCells(ChunkCells(Mode, Number)) /\ Goto("fill") /\ unseen' = unseen
    <3>1. \A c \in Cells : area'[File][c] = IF c \in ChunkCells(Mode, Number) THEN Blank ELSE area[File][c]
      BY <2>1, CellsErased
    <3>2. srv'.at = "fill"
      BY <2>1, GotoFacts DEF ServerPlaces
    <3>3. Places'
      BY <1>2, <1>3, <3>1, <3>2 DEF Places, ChunkNumbers
    <3> QED BY <2>1, <3>1, <3>2, <3>3
  <2>2. CASE FillMqtt /\ ProgramCells(ChunkCells(Mode, Number)) /\ Goto("answer") /\ unseen' = unseen
    <3>1. \A c \in Cells : area'[File][c] = IF c \in ChunkCells(Mode, Number)
                                             THEN Programmed(area[File][c], srv.frame.ver)
                                             ELSE area[File][c]
      BY <2>2, CellsProgrammed
    <3>2. srv'.at = "answer" /\ srv.at = "fill"
      BY <2>2, GotoFacts DEF FillMqtt, ServerPlaces
    <3>3. \A c \in ChunkCells(Mode, Number) \cap Cells : area[File][c] = Blank
      BY <1>2, <3>2 DEF Places
    <3>4. Stored(Number)'
      BY <1>1, <1>2, <1>3, <3>1, <3>3 DEF Stored, Programmed
    <3> QED BY <2>2, <3>1, <3>2, <3>4 DEF Places
  <2>3. CASE Goto("answer") /\ unseen' = TRUE
    <3>1. srv'.at = "answer"
      BY <2>3, GotoFacts DEF ServerPlaces
    <3> QED BY <2>3, <3>1 DEF Places
  <2> QED BY <2>1, <2>2, <2>3 DEF EraseMqtt, FillMqtt
<1> HIDE DEF Rest
<1>5. CASE unseen'
  BY <1>4, <1>5, StoredUnseen
<1>6. ASSUME Rest, NEW n \in ChunkNumbers PROVE ChunkInv(n)'
  <2>1. client'.last.mode # "tcp"
    BY <1>1, <1>2
  <2>2. CASE n = Number
    BY <1>3, <1>6, <2>1, <2>2 DEF Rest, ChunkInv, Moving, Stored, Number
  <2>3. CASE n # Number
    <3>1. Promised(n)' => Promised(n) /\ ~Moving(n)
      BY <1>1, <1>3, <2>3 DEF Promised, Moving
    <3>2. ChunkInv(n)
      BY <1>6 DEF Rest, StoredInv
    <3>3. Stored(n) => Stored(n)'
      <4>1. \A c \in ChunkCells(Mode, n) : c \notin ChunkCells(Mode, Number)
        BY <1>2, <2>3, ChunkApart DEF ChunkNumbers
      <4> QED BY <1>1, <1>2, <1>6, <4>1 DEF Rest, Stored
    <3> QED BY <1>1, <2>1, <3>1, <3>2, <3>3 DEF ChunkInv
  <2> QED BY <2>2, <2>3
<1> QED BY <1>4, <1>5, <1>6 DEF StoredInv

LEMMA NextKeepsStored ==
    ASSUME Typed, RepliesTyped, Checked, InOrder, StoredInv, [Next]_vars PROVE StoredInv'
<1>1. StoreTyped /\ ServerTyped
  BY TypedParts
<1>2. CASE LoaderStep \/ ValuesStep \/ UNCHANGED vars
  <2>1. UNCHANGED <<client, outbox, response, srv, ack, unseen, area>>
    BY <1>2 DEF LoaderStep, Loader, Check, Reload, Lower, Extract, ReadCell, Parsed, SaveNote,
                WriteRecipe, Restore, ValuesStep, SaveValues, KeepStore, vars, srvVars, clientVars,
                otaVars, storeVars
  <2> QED BY <2>1, StoredSame, SaidSame
<1>3. CASE Restart \/ PowerFailure
  BY <1>3, ResetStored DEF Restart, PowerFailure
<1>4. CASE ServerStep
  BY <1>1, <1>4, ReceiveStored, GarbledStored, EraseStored, ProgramStored, SectorStored, VerifiedStored,
     AnswerStored DEF ServerStep, Server
<1> QED BY <1>1, <1>2, <1>3, <1>4, ClientStored DEF Next

\* A client that goes on finds every chunk it was told was stored in the
\* flash, whatever sectors were erased since, unless an error no answer shows
\* hit its transfer, the chunk is being written once more, or it is about to
\* be refused (OTA.c:150-317).
THEOREM AckCorrect == Spec => []AckMeansStored
<1>1. ASSUME IInv, StoredInv PROVE AckMeansStored
  <2> SUFFICES ASSUME client.on, ~unseen, ~Rewriting, ~Denied, NEW n \in client.acked,
                      NEW c \in ChunkCells(client.last.mode, n) \cap Cells
               PROVE  area[client.last.file][c] = client.last.ver
    BY DEF AckMeansStored
  <2>1. n \in Nat
    BY <1>1 DEF IInv, Typed, IsClient
  <2>2. n # 0
    <3>1. c \in Cells /\ SectorCells \in Nat \ {0} /\ c - 1 \in Nat /\ c # 0
      BY CellAssumption DEF Cells
    <3>2. (c - 1) \div SectorCells \in Nat
      BY <3>1, Division
    <3> QED BY <3>1, <3>2 DEF ChunkCells
  <2>3. n \in ChunkNumbers /\ Promised(n) /\ ~Moving(n)
    BY <2>1, <2>2 DEF ChunkNumbers, Promised, Moving, Rewriting
  <2>4. Stored(n)
    BY <1>1, <2>3 DEF StoredInv, ChunkInv
  <2> QED BY <2>4 DEF Stored
<1>2. Init => StoredInv
  BY StoredInit
<1>3. IInv /\ RepliesTyped /\ InOrder /\ StoredInv /\ [Next]_vars => StoredInv'
  BY NextKeepsStored DEF IInv
<1> QED BY <1>1, <1>2, <1>3, ClientInvariant, PTL DEF Spec
=============================================================================
