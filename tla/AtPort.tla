------------------------------- MODULE AtPort -------------------------------
(***************************************************************************)
(* The AT port of the LTE modem, shared by the task that keeps the device  *)
(* on the network (LteTask) and the one that keeps the MQTT session        *)
(* (MqttTask): the two semaphores, the command in progress, the lines the  *)
(* parser of src/Core/Src/RxRingProcess.c reads and what they do.          *)
(*                                                                         *)
(* A task sends a command, waits for the port semaphore, which the parser  *)
(* gives on the final OK or ERROR, and then polls a variable the parser    *)
(* sets from the line that reports the result.  Nothing ties an answer to  *)
(* its command: a late one releases the wait of a later command.           *)
(*                                                                         *)
(* The modem is modelled from how the code drives it.  What may go wrong   *)
(* (a wait that times out before its answer, an error, a refusal, a lost   *)
(* connection) costs a fault, of which there are MaxFaults.                *)
(***************************************************************************)
EXTENDS Integers, Sequences

CONSTANTS MaxFaults,   \* bound: things that go wrong
          MaxPipe      \* bound: lines the parser has not read yet

ASSUME PortAssumption ==
    MaxFaults \in Nat /\ MaxPipe \in Nat /\ MaxPipe >= 2

VARIABLES
    seq,      \* modem_SequenceBlockSemaphore can be taken
    port,     \* modem_PortBlockSemaphore can be taken
    cmd,      \* Modem_AT_Command
    tmp,      \* the variable ..._t of the field asked for: "ok", "fail", or
              \* "none" yet (the others are set before they are read)
    cl,       \* mqtt[0]
    wire,     \* the command the modem is about to read, if any
    pipe,     \* lines on their way to the parser
    link,     \* the modem's MQTT client
    data,     \* the message the modem waits for the payload of, or 0
    owed,     \* results of accepted requests not reported yet
    faults,
    accepted, \* the broker has accepted a connection since the last request
    acked,    \* the broker has acknowledged message cl.id
    misled,   \* a connection report without return code has been parsed, or the
              \* modem was reset under a session
    crossed   \* a result that is not its own was about when the modem read the
              \* last request for a connection, or has been stored as its result

semVars   == <<seq, port, cmd>>
modemVars == <<link, data, owed>>
ghostVars == <<accepted, acked, misled, crossed>>
portVars  == <<semVars, tmp, cl, wire, pipe, modemVars, faults, ghostVars>>

Fields == {"phy", "sim", "reg", "gatt", "gact"}
\* The commands that ask for a field's value.
Query == [CPIN |-> "sim", CGREG |-> "reg", CGATT |-> "gatt", CGACT |-> "gact"]

Commands == DOMAIN Query \cup
    {"AT", "ATE0", "CSQ", "CGATT0", "CGATT1", "CGACT0", "CGDCONT", "CGACT1",
     "CGPADDR", "RESET", "QRESET", "CGMR", "CGSN", "CGMI", "CGMM", "QPWR",
     "QSCLK", "CFG", "CLOSE", "OPEN", "CONN", "DISC", "SUB", "PUBEX", "MSG"}

\* A line: its kind, the result it carries and the message it is about.
Line(k, r, id) == [k |-> k, r |-> r, id |-> id]
Ok    == Line("OK", "none", 0)
Error == Line("ERROR", "none", 0)
Stat  == Line("stat", "none", 0)

NoClient == [open |-> "none", openTmp |-> "none", ret |-> "none",
             retTmp |-> "none", sent |-> "none", id |-> 0, up |-> FALSE]

PortInit ==
    /\ seq = TRUE /\ port = TRUE /\ cmd = "IDLE"
    /\ tmp = "none"
    /\ cl = NoClient
    /\ wire = <<>> /\ pipe = <<>>
    /\ link = "closed" /\ data = 0 /\ owed = {}
    /\ faults = 0
    /\ accepted = FALSE /\ acked = FALSE /\ misled = FALSE /\ crossed = FALSE

Fault == faults < MaxFaults /\ faults' = faults + 1

(***************************************************************************)
(* What the tasks do with the port.                                        *)
(***************************************************************************)
\* The task that holds the port sets the command and sends it, for message
\* id if it is about one.
SendFor(c, id) ==
    /\ cmd' = c
    /\ wire' = <<[c |-> c, id |-> id]>>
    /\ UNCHANGED <<pipe, modemVars, ghostVars>>

Send(c) == SendFor(c, 0)

Take == port /\ port' = FALSE

\* A sequence of commands begins when no other is in progress, and takes the
\* port for its first command.
BeginSequence(c, id) ==
    seq /\ seq' = FALSE /\ Take /\ SendFor(c, id) /\ UNCHANGED faults

\* Mutant: the port is not given back.
EndSequenceHeld ==
    /\ seq' = TRUE /\ cmd' = "IDLE"
    /\ UNCHANGED <<port, wire, pipe, modemVars, ghostVars>>

\* It ends with the port given back whatever its state.
EndSequence ==
    /\ seq' = TRUE /\ port' = TRUE /\ cmd' = "IDLE"
    /\ UNCHANGED <<wire, pipe, modemVars, ghostVars>>

\* The command has been answered; its result is still to come.
Answered ==
    /\ Take
    /\ UNCHANGED <<seq, cmd, tmp, cl, wire, pipe, modemVars, faults, ghostVars>>

\* A wait that times out while what it waits for is coming is a fault.
GiveUp(coming) == IF coming THEN Fault ELSE UNCHANGED faults

Coming == pipe # <<>>

\* A wait for the port times out.
Lost == ~port /\ GiveUp(Coming)

(***************************************************************************)
(* The parser: one line of the modem.                                      *)
(***************************************************************************)
\* The line releases the port: OK or ERROR of any command, the prompt of a
\* publication, and any line at all while the SIM is asked for.
Gives(l) ==
    \/ l.k \in {"OK", "ERROR"}
    \/ l.k = "prompt" /\ cmd = "PUBEX"
    \/ l.k # "prompt" /\ cmd = "CPIN"

\* A number that is not there reads 0, which is "connection accepted".
ReadCode(r) == IF r \in {"again", "fail"} THEN "accepted" ELSE r
\* Mutant: the return code is taken for the result.
ReadSentCode(r) == r
ReadSent(r) == IF r \in {"again", "fail"} THEN r ELSE "ok"

\* Mutant: the number of the message is not compared.
IsOwnAny(l) == l.k \in {"sub", "pub"}
\* The line is the result of the message in progress.
IsOwn(l) == l.k \in {"sub", "pub"} /\ l.id = cl.id

\* Mutant: the report of the lost session is not read.
IsDownGet(l) == l.k = "conn" /\ cmd # "CONN"
\* The line says that there is no session.
IsDown(l) == l.k = "stat" \/ (l.k = "conn" /\ cmd # "CONN")

ParseSession(l) ==
    CASE l.k = "open" /\ cmd = "OPEN" -> [cl EXCEPT !.openTmp = l.r]
      [] l.k = "conn" /\ cmd = "CONN" ->
            [cl EXCEPT !.sent = ReadSent(l.r), !.retTmp = ReadCode(l.r),
                       !.up = ReadCode(l.r) = "accepted"]
      [] IsDown(l) -> [cl EXCEPT !.up = FALSE]
      [] IsOwn(l) -> [cl EXCEPT !.sent = l.r]
      [] OTHER -> cl

\* While the modem's presence is tested every line tells it, and only OK
\* tells that it is there.
ParseField(l) ==
    CASE cmd \in {"AT", "ATE0"} /\ l.k # "prompt" -> IF l.k = "OK" THEN "ok" ELSE "fail"
      [] cmd \in DOMAIN Query /\ l.k = Query[cmd] -> l.r
      [] OTHER -> tmp

Parse(l) ==
    /\ port' = (port \/ Gives(l))
    /\ cl' = ParseSession(l)
    /\ tmp' = ParseField(l)
    /\ UNCHANGED <<seq, cmd, wire, modemVars, accepted, acked>>

Deliver ==
    /\ pipe # <<>>
    /\ Parse(Head(pipe))
    /\ pipe' = Tail(pipe)
    /\ misled' = (misled \/ (Head(pipe).k = "conn" /\ cmd = "CONN"
                             /\ Head(pipe).r \in {"again", "fail"}))
    /\ crossed' = (crossed \/ (cmd = "CONN" /\ IsOwn(Head(pipe))))
    /\ UNCHANGED faults

\* The LoRa module answers one of its own commands.
Stray ==
    /\ Fault
    /\ Parse(Ok)
    /\ UNCHANGED <<pipe, misled, crossed>>

(***************************************************************************)
(* The modem (external).                                                   *)
(***************************************************************************)
Answer(ls) == pipe' = pipe \o ls

\* The client moves on; what it still owed is dropped when it closes.
Move(to) == link' = to /\ owed' = IF to = "closed" THEN {} ELSE owed

\* Detaching from the network closes the session; the modem reports it.
Detach ==
    /\ Move("closed")
    /\ Answer(IF link = "closed" THEN <<Ok>> ELSE <<Stat, Ok>>)

Accept(from, c, to) ==
    /\ wire[1].c = c
    /\ IF link \in from THEN Move(to) /\ Answer(<<Ok>>)
                        ELSE UNCHANGED <<link, owed>> /\ Answer(<<Error>>)
    /\ UNCHANGED data

Understand ==
    LET c == wire[1].c IN
    \/ /\ c \in DOMAIN Query
       /\ Answer(<<Line(Query[c], "ok", 0), Ok>>)
       /\ UNCHANGED <<link, data, owed>>
    \/ c \in {"CGATT0", "CGACT0"} /\ Detach /\ UNCHANGED data
    \/ c = "RESET" /\ Move("closed") /\ Answer(<<Ok>>) /\ UNCHANGED data
    \/ Accept({"opening", "open", "connecting", "connected"}, "CLOSE", "closed")
    \/ Accept({"closed"}, "OPEN", "opening")
    \/ Accept({"open"}, "CONN", "connecting")
    \/ Accept({"connected"}, "DISC", "closed")
    \/ /\ c = "SUB" /\ link = "connected"
       /\ owed' = owed \cup {[k |-> "sub", id |-> wire[1].id]}
       /\ Answer(<<Ok>>) /\ UNCHANGED <<link, data>>
    \/ /\ c = "PUBEX" /\ link = "connected" /\ data' = wire[1].id
       /\ Answer(<<Line("prompt", "none", 0)>>) /\ UNCHANGED <<link, owed>>
    \/ /\ c \in {"SUB", "PUBEX"} /\ link # "connected"
       /\ Answer(<<Error>>) /\ UNCHANGED <<link, data, owed>>
    \/ /\ c = "MSG" /\ UNCHANGED <<pipe, link, data, owed>>  \* not a command
    \/ /\ c \notin DOMAIN Query \cup {"CGATT0", "CGACT0", "RESET", "CLOSE",
                                      "OPEN", "CONN", "DISC", "SUB", "PUBEX", "MSG"}
       /\ Answer(<<Ok>>) /\ UNCHANGED <<link, data, owed>>

\* Bytes sent while the modem waits for a payload are that payload: those of
\* the message, or of whatever command comes next.
Swallow ==
    /\ data' = 0
    /\ owed' = owed \cup {[k |-> "pub", id |-> data]}
    /\ Answer(<<Ok>>)
    /\ UNCHANGED link

\* The result of an earlier request for a connection is about.
ResultAbout == cl.retTmp # "none" \/ \E i \in 1 .. Len(pipe) : pipe[i].k = "conn"

NewRequest ==
    /\ crossed' = IF wire[1].c = "CONN" THEN ResultAbout ELSE crossed
    /\ accepted' = (accepted /\ wire[1].c # "CONN")
    /\ acked' = (acked /\ wire[1].c \notin {"SUB", "PUBEX"})

Hear ==
    /\ wire # <<>> /\ Len(pipe) <= MaxPipe - 2
    /\ wire' = <<>>
    /\ IF data # 0 THEN Swallow ELSE Understand
    /\ misled' = (misled \/ (link = "connected" /\ wire[1].c = "RESET"))
    /\ NewRequest
    /\ UNCHANGED <<seq, port, cmd, tmp, cl, faults>>

\* The modem answers with an error, gives a bad value, or does not answer.
HearFault ==
    /\ wire # <<>> /\ Len(pipe) <= MaxPipe - 2
    /\ data = 0
    /\ Fault
    /\ wire' = <<>>
    /\ \/ Answer(<<Error>>)
       \/ wire[1].c \in DOMAIN Query
          /\ Answer(<<Line(Query[wire[1].c], "fail", 0), Ok>>)
       \/ UNCHANGED pipe
    /\ NewRequest
    /\ UNCHANGED <<seq, port, cmd, tmp, cl, modemVars, misled>>

ReportTo(l, to) ==
    /\ Len(pipe) < MaxPipe
    /\ Answer(<<l>>)
    /\ Move(to)
    /\ UNCHANGED <<semVars, tmp, cl, wire, data, misled, crossed>>

ReportOpen ==
    /\ link = "opening"
    /\ ReportTo(Line("open", "ok", 0), "open")
    /\ UNCHANGED <<faults, accepted, acked>>

ReportConn ==
    /\ link = "connecting"
    /\ ReportTo(Line("conn", "accepted", 0), "connected")
    /\ accepted' = TRUE
    /\ UNCHANGED <<faults, acked>>

\* The result r of a message leaves the modem.
ReportOn(o, r) ==
    /\ Len(pipe) < MaxPipe
    /\ Answer(<<Line(o.k, r, o.id)>>)
    /\ owed' = owed \ {o}
    /\ UNCHANGED <<semVars, tmp, cl, wire, link, data, accepted, misled, crossed>>

ReportOwed ==
    \E o \in owed :
        ReportOn(o, "ok") /\ acked' = (acked \/ o.id = cl.id) /\ UNCHANGED faults

\* An open or a connection fails, with the return code or, when the packet
\* was not sent or is being sent again, without; or the session is lost; or
\* a message fails.
ReportFault ==
    /\ Fault
    /\ UNCHANGED acked
    /\ \/ /\ \/ link = "opening" /\ ReportTo(Line("open", "fail", 0), "closed")
             \/ link = "connecting" /\ ReportTo(Line("conn", "refused", 0), "closed")
             \/ link = "connecting" /\ ReportTo(Line("conn", "fail", 0), "closed")
             \/ link = "connecting" /\ ReportTo(Line("conn", "again", 0), "connecting")
             \/ link \in {"open", "connected"} /\ ReportTo(Stat, "closed")
          /\ UNCHANGED accepted
       \/ \E o \in owed : ReportOn(o, "fail")

Report == ReportOpen \/ ReportConn \/ ReportOwed
=============================================================================
