----------------------------- MODULE ModemSystem ----------------------------
(***************************************************************************)
(* The LTE modem's port with the two tasks that use it.                    *)
(***************************************************************************)
EXTENDS MqttTask

vars == <<portVars, lteVars, mqVars>>

Init == PortInit /\ LteInit /\ MqttInit

\* The modem reads a command as it is sent; its answers take their time.
Modem == wire # <<>> /\ (Hear \/ HearFault) /\ UNCHANGED <<lteVars, mqVars>>
Ready == wire = <<>>

\* Unless the modem has no room for its answer, the parser comes after it.
Parser == (Ready \/ Len(pipe) > MaxPipe - 2) /\ Deliver /\ UNCHANGED <<lteVars, mqVars>>
Reports == Ready /\ Report /\ UNCHANGED <<lteVars, mqVars>>
Trouble == Ready /\ (Stray \/ ReportFault) /\ UNCHANGED <<lteVars, mqVars>>
Lte  == Ready /\ LteNext /\ UNCHANGED mqVars
Mqtt == Ready /\ MqttNext /\ UNCHANGED lteVars
Other == Ready /\ RequestReconnect /\ UNCHANGED lteVars

Next == Modem \/ Parser \/ Reports \/ Trouble \/ Lte \/ Mqtt \/ Other

\* The modem's lines arrive, and each task gets to run.
Fairness == WF_vars(Modem \/ Parser \/ Reports) /\ WF_vars(Lte) /\ WF_vars(Mqtt)

Spec == Init /\ [][Next]_vars /\ Fairness

\* The places where the MQTT task is in no sequence.
Between == {"loop", "drop", "make", "subscribe", "publish", "published", "sleep",
            "asleep"}

\* Every variable has its type; the results the parser stores are results.
TypeOK ==
    /\ seq \in BOOLEAN /\ port \in BOOLEAN
    /\ cmd \in Commands \cup {"IDLE"}
    /\ tmp \in {"none", "ok", "fail"}
    /\ cl \in [open : {"none", "ok", "fail"}, openTmp : {"none", "ok", "fail"},
               ret : {"none", "accepted", "refused"},
               retTmp : {"none", "accepted", "refused"},
               sent : {"none", "ok", "again", "fail"},
               id : 0 .. MsgIds, up : BOOLEAN]
    /\ Len(wire) <= 1 /\ Len(pipe) <= MaxPipe
    /\ data \in 0 .. MsgIds
    /\ net \in [Fields -> BOOLEAN]
    /\ lte \in [at : {"boot", "info", "top", "pass", "due"},
                run : {"none", "reboot", "info", "connect", "check"},
                i : 0 .. Len(ConnectSteps), poll : BOOLEAN]

\* At most one task is in a sequence, whoever's answers come when, and when
\* none is, the port is free and no command in progress: a task that has the
\* modem for itself never finds the port taken (EC200U.c:197-220,
\* Modem_MQTT.c:411-600).
OneSequence ==
    /\ seq <=> Idle /\ mq \in Between
    /\ ~Idle => mq \in Between
    /\ seq => port /\ cmd = "IDLE"

\* Between two sequences the network counts as up only if the modem answers,
\* its SIM is ready and it is attached: the labels each sequence ends with
\* give up every status above the one that failed (EC200U.c:563-575,
\* 857-870).
Cascade == Idle /\ net.gact => net.phy /\ net.sim /\ net.gatt

\* The session is really up, or the report that it is not is on its way, or
\* it is being dropped on purpose.
SessionUp ==
    \/ link = "connected"
    \/ \E i \in 1 .. Len(pipe) : pipe[i].k = "stat"
    \/ mq \in {"disc", "discAgain"} /\ dropping

\* The session counts as connected only if it is, however late the answers,
\* unless a connection report came without its return code or the modem was
\* reset under the session (RxRingProcess.c:2064-2077, EC200U.c:573, 866).
ConnectedIsReal == cl.up /\ ~misled => SessionUp

\* "MQTT is connected" (Modem_MQTT.h:125), whatever was reported.
ConnectedMeansAccepted == cl.up => SessionUp

\* The connection is taken for made, and the topic subscribed to, only if
\* the broker has accepted the request of this very sequence: no time-out,
\* error or report without return code makes the task believe it.  Only a
\* result of something else can, one of an earlier request that is about
\* when the modem reads this one, or one of the last message, which the
\* parser stores in the same variable (Modem_MQTT.c:478-600,
\* RxRingProcess.c:2053-2077, 2122).
ResultIsReal == mq \in {"end3", "subscribe"} => accepted \/ crossed

\* The result a message is given is its own, never that of an earlier one
\* that was given up (RxRingProcess.c:2122, 2173).
AckIsOwn ==
    mq \in {"prompt", "msg", "pubPoll", "sub", "subPoll"} /\ cl.sent = "ok" => acked

\* Whatever goes wrong, the modem is given back again and again: no wait of
\* either task is without end.
Releases == []<>seq
=============================================================================
