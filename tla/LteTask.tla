------------------------------ MODULE LteTask -------------------------------
(***************************************************************************)
(* The task that keeps the device on the network: StartEC200UTask and the  *)
(* sequences of src/Core/Src/EC200U.c.  It reboots the modem, connects,    *)
(* checks the connection every 120 passes and connects again when the      *)
(* check finds it down.                                                    *)
(***************************************************************************)
EXTENDS AtPort

CONSTANT RebootAfter  \* passes without a connection before a reboot (3600)

ASSUME LteAssumption == RebootAfter \in Nat

VARIABLES net,       \* field |-> its status is good
          lte,       \* where the task is
          downs,     \* network_reconnectCount
          wantReset  \* flag_modem_reboot

lteVars == <<net, lte, downs, wantReset>>

\* One command of a sequence: the field its answer sets, whether the
\* sequence goes on only if that is good, and how many statuses are given
\* up, from the last, when no answer comes and when it is bad.
Step(c, field, gate, lost, bad) ==
    [c |-> c, field |-> field, gate |-> gate, lost |-> lost, bad |-> bad]

ConnectSteps ==
    <<Step("ATE0", "phy", TRUE, 5, 5),    Step("CPIN", "sim", TRUE, 4, 4),
      Step("CSQ", "none", FALSE, 3, 3),   Step("CGREG", "reg", FALSE, 3, 3),
      Step("CGATT0", "none", FALSE, 2, 2), Step("CGATT1", "none", FALSE, 2, 2),
      Step("CGATT", "gatt", TRUE, 2, 1),  Step("CGACT0", "none", FALSE, 1, 1),
      Step("CGDCONT", "none", FALSE, 1, 1), Step("CGACT1", "none", FALSE, 1, 1),
      Step("CGACT", "gact", TRUE, 1, 0),  Step("CGPADDR", "none", FALSE, 0, 0)>>

CheckSteps ==
    <<Step("AT", "phy", TRUE, 5, 5),      Step("CPIN", "sim", TRUE, 3, 3),
      Step("CSQ", "none", FALSE, 3, 3),   Step("CGREG", "reg", TRUE, 2, 2),
      Step("CGATT", "gatt", TRUE, 2, 1),  Step("CGACT", "gact", TRUE, 0, 0),
      Step("CGPADDR", "none", FALSE, 0, 0)>>

Steps(run) == IF run = "connect" THEN ConnectSteps ELSE CheckSteps

\* The sequences that send without waiting for answers; QPWR is sent up to
\* three times.
Blind == [reboot |-> <<"RESET", "QRESET">>,
          info |-> <<"CGMR", "CGSN", "CGMI", "CGMM", "QPWR", "QPWR", "QPWR">>]

Rank == [phy |-> 1, sim |-> 2, reg |-> 3, gatt |-> 4, gact |-> 5]

LteInit ==
    /\ net = [f \in Fields |-> FALSE]
    /\ lte = [at |-> "boot", run |-> "none", i |-> 0, poll |-> FALSE]
    /\ downs = 0
    /\ wantReset = FALSE

Idle == lte.run = "none"
Now  == Steps(lte.run)[lte.i]

\* The command is sent with the field it asks for set to "no answer yet".
AskFor(c) == tmp' = "none" /\ Send(c)

Begin(run, c) ==
    /\ Idle
    /\ BeginSequence(c, 0)
    /\ tmp' = "none"
    /\ lte' = [lte EXCEPT !.run = run, !.i = 1]
    /\ UNCHANGED <<cl, net, downs, wantReset>>

BeginReboot ==
    /\ lte.at = "boot" \/ (lte.at = "top" /\ wantReset)
    /\ Begin("reboot", "RESET")

BeginInfo == lte.at = "info" /\ Begin("info", "CGMR")

BeginConnect ==
    /\ lte.at = "pass" \/ (lte.at = "top" /\ ~wantReset)
    /\ ~net.gact
    /\ Begin("connect", "ATE0")

BeginCheck == lte.at = "due" /\ Begin("check", "AT")

\* A pass while connected; the check becomes due.
Pass ==
    /\ Idle
    /\ lte.at = "pass" \/ (lte.at = "top" /\ ~wantReset)
    /\ net.gact
    /\ downs' = 0
    /\ \E at \in {"top", "due"} : lte' = [lte EXCEPT !.at = at]
    /\ UNCHANGED <<net, wantReset, portVars>>

\* The next command of a reboot or of the modem's information.
BlindStep ==
    /\ lte.run \in DOMAIN Blind
    /\ lte.i < Len(Blind[lte.run])
    /\ Send(Blind[lte.run][lte.i + 1])
    /\ lte' = [lte EXCEPT !.i = @ + 1]
    /\ UNCHANGED <<seq, port, tmp, cl, faults, net, downs, wantReset>>

BlindEnd ==
    /\ lte.run \in DOMAIN Blind
    /\ lte.i >= (IF lte.run = "reboot" THEN 2 ELSE 5)
    /\ EndSequence
    /\ lte' = [at |-> CASE lte.run = "info" -> "top"
                        [] lte.at = "boot" -> "info"
                        [] OTHER -> "pass",
               run |-> "none", i |-> 0, poll |-> FALSE]
    /\ IF lte.run = "reboot" /\ lte.at = "top"
       THEN wantReset' = FALSE
            /\ net' = [net EXCEPT !.reg = FALSE, !.gact = FALSE]
       ELSE UNCHANGED <<wantReset, net>>
    /\ UNCHANGED <<tmp, cl, faults, downs>>

\* Mutant: a label gives up its own status only.
GivenUpFirst(k) == {f \in Fields : Rank[f] = 6 - k}
\* The labels at the end of a sequence, each running on into the next, give
\* up the last k statuses.
GivenUp(k) == {f \in Fields : Rank[f] > 5 - k}

\* The end of a sequence; with the network the MQTT session counts as down.
Finish(k, now) ==
    /\ EndSequence
    /\ net' = [f \in Fields |-> now[f] /\ f \notin GivenUp(k)]
    /\ cl' = [cl EXCEPT !.up = @ /\ k = 0]
    /\ lte' = [at |-> IF lte.run = "connect" THEN "due" ELSE "top",
               run |-> "none", i |-> 0, poll |-> FALSE]
    /\ IF lte.run = "connect"
       THEN /\ wantReset' = (wantReset \/ downs > RebootAfter)
            /\ downs' = IF downs > RebootAfter THEN downs ELSE downs + 1
       ELSE UNCHANGED <<wantReset, downs>>
    /\ tmp' = "none"

\* The fields whose answer is polled for after the port is released, and
\* when the polling has seen it.
Polled == {"sim", "reg", "gatt", "gact"}
Seen(f) == tmp = "ok" \/ (f \in {"sim", "reg"} /\ tmp = "fail")

InSteps == lte.run \in {"connect", "check"}

Await ==
    /\ InSteps /\ ~lte.poll /\ Now.field \in Polled
    /\ Answered
    /\ lte' = [lte EXCEPT !.poll = TRUE]
    /\ UNCHANGED <<net, downs, wantReset>>

\* The command is done with, its result in or given up.
Done ==
    \/ ~lte.poll /\ Now.field \notin Polled /\ port /\ UNCHANGED faults
    \/ lte.poll /\ Seen(Now.field) /\ UNCHANGED faults
    \/ lte.poll /\ ~Seen(Now.field) /\ GiveUp(Coming)

\* The statuses with that result.
Updated == IF Now.field = "none" THEN net
           ELSE [net EXCEPT ![Now.field] = tmp = "ok"]
Good == Now.gate => Updated[Now.field]
AtEnd == lte.i = Len(Steps(lte.run))

Advance ==
    /\ InSteps /\ Done /\ Good /\ ~AtEnd
    /\ port' = (port /\ lte.poll)
    /\ AskFor(Steps(lte.run)[lte.i + 1].c)
    /\ lte' = [lte EXCEPT !.i = @ + 1, !.poll = FALSE]
    /\ net' = Updated
    /\ UNCHANGED <<seq, cl, downs, wantReset>>

Conclude ==
    /\ InSteps /\ Done /\ (AtEnd \/ ~Good)
    /\ Finish(IF Good THEN 0 ELSE Now.bad, Updated)

Unanswered == InSteps /\ ~lte.poll /\ Lost /\ Finish(Now.lost, net)

LteNext ==
    \/ BeginReboot \/ BeginInfo \/ BeginConnect \/ BeginCheck
    \/ Pass \/ BlindStep \/ BlindEnd
    \/ Await \/ Advance \/ Conclude \/ Unanswered
=============================================================================
