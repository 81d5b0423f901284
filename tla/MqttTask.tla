------------------------------ MODULE MqttTask ------------------------------
(***************************************************************************)
(* The task that keeps the MQTT session: StartModem_MQTTTask and the       *)
(* sequences of src/Core/Src/Modem_MQTT.c.  While the network is up and    *)
(* the session is not, it disconnects, opens, connects and subscribes;     *)
(* once the session is up it publishes what is due, puts the modem to      *)
(* sleep and does nothing any more.                                        *)
(***************************************************************************)
EXTENDS LteTask

CONSTANT MsgIds  \* message numbers before they begin again at 1 (2^32)

ASSUME MqttAssumption == MsgIds \in Nat /\ MsgIds >= 2

VARIABLES mq,            \* where the task is
          dropping,      \* the disconnection was asked for by another task
          wantReconnect  \* flag_modem_MQTT_Reconnect

taskVars == <<dropping, wantReconnect>>
mqVars == <<mq, taskVars>>

MqttInit ==
    /\ mq = "loop" /\ dropping = FALSE
    /\ wantReconnect = FALSE

\* A command changed the broker's address (json_parser.c).
RequestReconnect ==
    /\ ~wantReconnect
    /\ wantReconnect' = TRUE
    /\ UNCHANGED <<portVars, mq, dropping>>

\* The first command of a sequence, and a later one.
First(c, id, p) == BeginSequence(c, id) /\ mq' = p /\ UNCHANGED <<tmp, taskVars>>
Later(c, p) == Send(c) /\ mq' = p /\ UNCHANGED <<seq, tmp, taskVars>>

\* A result is polled for in vain.
PollOver ==
    GiveUp(Coming \/ owed # {} \/ link \in {"opening", "connecting"})

\* The port is released, and the polling of the result begins.
Wait(p, q) ==
    /\ mq = p /\ mq' = q
    /\ Answered
    /\ UNCHANGED taskVars

End(p) == EndSequence /\ mq' = p /\ UNCHANGED <<tmp, taskVars>>

\* A pass begins with what the task reads; by the time it has the modem for
\* itself that may no longer be so.
Reconnect ==
    /\ mq = "loop" /\ wantReconnect
    /\ mq' = "drop"
    /\ dropping' = TRUE /\ wantReconnect' = FALSE
    /\ UNCHANGED portVars

PassDown ==
    /\ mq = "loop" /\ ~wantReconnect /\ net.gact /\ ~cl.up
    /\ mq' = "drop"
    /\ UNCHANGED <<portVars, taskVars>>

\* Something is due to be published, or nothing is.
PassUp ==
    /\ mq = "loop" /\ ~wantReconnect /\ net.gact /\ cl.up
    /\ mq' \in {"publish", "published"}
    /\ UNCHANGED <<portVars, taskVars>>

(***************************************************************************)
(* modem_MQTT_disconnect                                                   *)
(***************************************************************************)
Disconnect == mq = "drop" /\ First("DISC", 0, "disc") /\ UNCHANGED cl

DisconnectHeard == Wait("disc", "discAgain")

Disconnected ==
    /\ \/ mq = "discAgain" /\ port /\ UNCHANGED faults
       \/ mq \in {"disc", "discAgain"} /\ Lost
    /\ cl' = [cl EXCEPT !.open = "none", !.ret = "none", !.up = @ /\ ~dropping]
    /\ EndSequence
    /\ mq' = IF dropping THEN "loop" ELSE "make"
    /\ dropping' = FALSE
    /\ UNCHANGED <<tmp, wantReconnect>>

(***************************************************************************)
(* modem_make_mqttConnection, after the disconnection                      *)
(***************************************************************************)
Configure == mq = "make" /\ First("CFG", 0, "cfg") /\ UNCHANGED cl

Close == mq = "cfg" /\ Take /\ Later("CLOSE", "close") /\ UNCHANGED <<cl, faults>>

\* Mutant: the wait for an answer is repeated.
SkipCloseRetry ==
    /\ mq = "cfg" /\ Lost
    /\ UNCHANGED <<mq, semVars, tmp, cl, wire, pipe, modemVars, ghostVars, taskVars>>

SkipClose ==
    /\ mq = "cfg" /\ Lost
    /\ mq' = "close"
    /\ UNCHANGED <<semVars, tmp, cl, wire, pipe, modemVars, ghostVars, taskVars>>

\* The link is opened unless it is open already.
Open ==
    /\ mq = "close" /\ port
    /\ UNCHANGED faults
    /\ IF cl.open = "ok"
       THEN /\ mq' = "open"
            /\ UNCHANGED <<seq, port, cmd, tmp, cl, wire, pipe, modemVars, ghostVars,
                           taskVars>>
       ELSE /\ Take
            /\ cl' = [cl EXCEPT !.openTmp = "none"]
            /\ Later("OPEN", "open")

OpenHeard == Wait("open", "openPoll")

OpenResult == IF cl.open = "ok" THEN "ok" ELSE cl.openTmp

\* The polling of the result of the opening ends.
Opened ==
    /\ mq = "openPoll"
    /\ IF OpenResult = "none" THEN PollOver ELSE UNCHANGED faults

Connect ==
    /\ Opened /\ OpenResult = "ok"
    /\ cl' = [cl EXCEPT !.open = "ok", !.retTmp = "none", !.sent = "none"]
    /\ Later("CONN", "conn")
    /\ UNCHANGED port

NotOpened ==
    /\ Opened /\ OpenResult # "ok"
    /\ cl' = [cl EXCEPT !.open = OpenResult]
    /\ mq' = "end1"
    /\ UNCHANGED <<semVars, tmp, wire, pipe, modemVars, ghostVars, taskVars>>

\* No answer to the command that should open the link or connect.
NoAnswer ==
    /\ mq \in {"close", "open", "conn"} /\ Lost
    /\ mq' = "end1"
    /\ UNCHANGED <<semVars, tmp, cl, wire, pipe, modemVars, ghostVars, taskVars>>

ConnectHeard == Wait("conn", "connPoll")

\* The message was reported to be sent again: its result is polled for.
Retransmitted ==
    /\ mq = "connPoll" /\ cl.sent = "again"
    /\ mq' = "connPoll2"
    /\ UNCHANGED <<portVars, taskVars>>

ConnectSeen ==
    \/ mq = "connPoll" /\ cl.sent # "again" /\ (cl.retTmp # "none" \/ cl.sent # "none")
    \/ mq = "connPoll2" /\ (cl.retTmp # "none" \/ cl.sent # "again")

\* Mutant: whether the packet was sent is not looked at.
PacketSentAny == TRUE
PacketSent == cl.sent = "ok"

Concluded ==
    /\ mq \in {"connPoll", "connPoll2"}
    /\ IF ConnectSeen THEN UNCHANGED faults
                      ELSE (mq = "connPoll" => cl.sent # "again") /\ PollOver
    /\ IF PacketSent /\ cl.retTmp # "none"
       THEN /\ cl' = [cl EXCEPT !.ret = cl.retTmp]
            /\ mq' = IF cl.retTmp = "accepted" THEN "end3" ELSE "end2"
       ELSE UNCHANGED cl /\ mq' = "end2"
    /\ UNCHANGED <<semVars, tmp, wire, pipe, modemVars, ghostVars, taskVars>>

\* The labels End1 to End3 and the result.
MakeEnd ==
    /\ mq \in {"end1", "end2", "end3"}
    /\ cl' = [cl EXCEPT !.open = IF mq = "end1" THEN "none" ELSE @,
                        !.ret = IF mq = "end3" THEN @ ELSE "none",
                        !.openTmp = "none", !.retTmp = "none", !.sent = "none"]
    /\ UNCHANGED faults
    /\ End(IF cl'.open # "none" /\ cl'.ret # "none" THEN "subscribe" ELSE "loop")

(***************************************************************************)
(* modem_MQTTsubscribe, MQTT_PUB_Routine and modem_MQTT_publish            *)
(***************************************************************************)
NextId == (cl.id % MsgIds) + 1
NextMessage == cl' = [cl EXCEPT !.id = NextId, !.sent = "none"]

Subscribe == mq = "subscribe" /\ NextMessage /\ First("SUB", NextId, "sub")

SubscribeHeard == Wait("sub", "subPoll")

\* A message is over: answered, or given up at some point.
Settled(p) == mq = p /\ IF cl.sent = "none" THEN PollOver ELSE UNCHANGED faults

SubscribeEnd ==
    /\ Settled("subPoll") \/ (mq = "sub" /\ Lost)
    /\ End("loop") /\ cl' = [cl EXCEPT !.sent = "none"]

Publish == mq = "publish" /\ NextMessage /\ First("PUBEX", NextId, "prompt")

Payload == mq = "prompt" /\ Take /\ Later("MSG", "msg") /\ UNCHANGED <<cl, faults>>

PayloadHeard == Wait("msg", "pubPoll")

PublishEnd ==
    /\ Settled("pubPoll") \/ (mq \in {"prompt", "msg"} /\ Lost)
    /\ End("published") /\ cl' = [cl EXCEPT !.sent = "none"]

(***************************************************************************)
(* The end of the pass: modem_sleep_mode and sleep_enable                  *)
(***************************************************************************)
CheckUp ==
    /\ mq = "published"
    /\ mq' = IF cl.up THEN "sleep" ELSE "loop"
    /\ UNCHANGED <<portVars, taskVars>>

Sleep == mq = "sleep" /\ First("QSCLK", 0, "sleeping") /\ UNCHANGED cl

Asleep == mq = "sleeping" /\ End("asleep") /\ UNCHANGED <<cl, faults>>

MqttNext ==
    \/ Reconnect \/ PassDown \/ PassUp
    \/ Disconnect \/ DisconnectHeard \/ Disconnected
    \/ Configure \/ Close \/ SkipClose \/ Open \/ OpenHeard \/ Connect
    \/ NotOpened \/ NoAnswer \/ ConnectHeard \/ Retransmitted \/ Concluded
    \/ MakeEnd \/ Subscribe \/ SubscribeHeard \/ SubscribeEnd
    \/ Publish \/ Payload \/ PayloadHeard \/ PublishEnd
    \/ CheckUp \/ Sleep \/ Asleep
=============================================================================
