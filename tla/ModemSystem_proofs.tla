------------------------- MODULE ModemSystem_proofs -------------------------
(***************************************************************************)
(* What holds of the two tasks and the modem for any number of things that *)
(* go wrong, any delay of the answers and any numbers of the messages: the *)
(* tasks never use the modem at the same time, the statuses of the network *)
(* stay in their order, every variable keeps its type, and a connection    *)
(* that is taken for made was accepted unless the result of another        *)
(* request was about. The result of a message and the session itself are   *)
(* real as long as no result of an earlier request is on its way when one  *)
(* is made: nothing in the code ties a result to its request but the       *)
(* command in progress and the number of the message, so these two         *)
(* theorems name what they need.                                           *)
(*                                                                         *)
(* OneSequence is inductive once the place of the LTE task has its type:   *)
(* a sequence begins only by taking seq, every way out of one gives seq    *)
(* and the port back, and nothing in between, the parser included, takes a *)
(* free port or touches seq.                                               *)
(***************************************************************************)
EXTENDS ModemSystem, TLAPS

\* Where the LTE task is.
LteType ==
    lte \in [at : {"boot", "info", "top", "pass", "due"},
             run : {"none", "reboot", "info", "connect", "check"},
             i : Nat, poll : BOOLEAN]

IInv == LteType /\ OneSequence

LEMMA InitHolds == Init => IInv
BY DEF Init, PortInit, LteInit, MqttInit, IInv, LteType, OneSequence, Idle, Between

\* The parser may give the port, never take it.
LEMMA ParseKeeps ==
    ASSUME IInv, NEW l, Parse(l), UNCHANGED <<lteVars, mqVars>>
    PROVE  IInv'
BY DEF IInv, LteType, OneSequence, Idle, Between, Parse, lteVars, mqVars, taskVars

\* Nothing but the tasks begins or ends a sequence.
LEMMA OthersKeep ==
    ASSUME IInv, Modem \/ Parser \/ Reports \/ Trouble \/ Other
    PROVE  IInv'
<1>1. CASE Modem
  <2>1. UNCHANGED <<seq, port, cmd, lte, mq>>
    BY <1>1 DEF Modem, Hear, HearFault, lteVars, mqVars
  <2> QED BY <2>1 DEF IInv, LteType, OneSequence, Idle, Between
<1>2. CASE Parser
  BY <1>2, ParseKeeps DEF Parser, Deliver
<1>3. CASE Reports
  <2>1. UNCHANGED <<seq, port, cmd, lte, mq>>
    BY <1>3 DEF Reports, Report, ReportOpen, ReportConn, ReportOwed, ReportTo, ReportOn,
                semVars, lteVars, mqVars
  <2> QED BY <2>1 DEF IInv, LteType, OneSequence, Idle, Between
<1>4. CASE Trouble
  <2>1. CASE Stray /\ UNCHANGED <<lteVars, mqVars>>
    BY <2>1, ParseKeeps DEF Stray
  <2>2. CASE ReportFault /\ UNCHANGED <<lteVars, mqVars>>
    <3>1. UNCHANGED <<seq, port, cmd, lte, mq>>
      BY <2>2 DEF ReportFault, ReportTo, ReportOn, semVars, lteVars, mqVars
    <3> QED BY <3>1 DEF IInv, LteType, OneSequence, Idle, Between
  <2> QED BY <1>4, <2>1, <2>2 DEF Trouble
<1>5. CASE Other
  BY <1>5 DEF Other, RequestReconnect, portVars, semVars, lteVars,
              IInv, LteType, OneSequence, Idle, Between
<1> QED BY <1>1, <1>2, <1>3, <1>4, <1>5

(***************************************************************************)
(* The LTE task.                                                           *)
(***************************************************************************)
\* Beginning a sequence.
LEMMA BeginKeeps ==
    ASSUME IInv, NEW run \in {"reboot", "info", "connect", "check"}, NEW c,
           Begin(run, c), UNCHANGED mqVars
    PROVE  IInv'
BY DEF Begin, BeginSequence, SendFor, Take, IInv, LteType, OneSequence, Idle, Between,
       mqVars, taskVars

\* A step inside a sequence.
LEMMA InsideKeeps ==
    ASSUME IInv, ~Idle, UNCHANGED <<seq, mqVars>>,
           lte' \in [at : {lte.at}, run : {lte.run}, i : Nat, poll : BOOLEAN]
    PROVE  IInv'
BY DEF IInv, LteType, OneSequence, Idle, Between, mqVars, taskVars

\* The end of one.
LEMMA EndKeeps ==
    ASSUME IInv, ~Idle, EndSequence, UNCHANGED mqVars,
           lte' \in [at : {"info", "top", "pass", "due"}, run : {"none"},
                     i : Nat, poll : BOOLEAN]
    PROVE  IInv'
BY DEF EndSequence, IInv, LteType, OneSequence, Idle, Between, mqVars, taskVars

LEMMA FinishKeeps ==
    ASSUME IInv, InSteps, NEW k, NEW now, Finish(k, now), UNCHANGED mqVars
    PROVE  IInv'
<1>1. lte' \in [at : {"info", "top", "pass", "due"}, run : {"none"},
                i : Nat, poll : BOOLEAN]
  BY DEF Finish
<1>2. ~Idle BY DEF InSteps, Idle
<1> QED BY <1>1, <1>2, EndKeeps DEF Finish

LEMMA LteKeeps ==
    ASSUME IInv, LteNext, UNCHANGED mqVars
    PROVE  IInv'
<1> USE DEF Blind
<1>1. CASE BeginReboot BY <1>1, BeginKeeps DEF BeginReboot
<1>2. CASE BeginInfo BY <1>2, BeginKeeps DEF BeginInfo
<1>3. CASE BeginConnect BY <1>3, BeginKeeps DEF BeginConnect
<1>4. CASE BeginCheck BY <1>4, BeginKeeps DEF BeginCheck
<1>5. CASE Pass
  BY <1>5 DEF Pass, portVars, semVars, IInv, LteType, OneSequence, Idle, Between,
              mqVars, taskVars
<1>6. CASE BlindStep
  <2>1. ~Idle BY <1>6 DEF BlindStep, Idle
  <2>2. lte' \in [at : {lte.at}, run : {lte.run}, i : Nat, poll : BOOLEAN]
    BY <1>6 DEF BlindStep, IInv, LteType
  <2> QED BY <1>6, <2>1, <2>2, InsideKeeps DEF BlindStep
<1>7. CASE BlindEnd
  <2>1. ~Idle BY <1>7 DEF BlindEnd, Idle
  <2>2. lte' \in [at : {"info", "top", "pass", "due"}, run : {"none"},
                  i : Nat, poll : BOOLEAN]
    BY <1>7 DEF BlindEnd
  <2> QED BY <1>7, <2>1, <2>2, EndKeeps DEF BlindEnd
<1>8. CASE Await
  <2>1. ~Idle BY <1>8 DEF Await, InSteps, Idle
  <2>2. lte' \in [at : {lte.at}, run : {lte.run}, i : Nat, poll : BOOLEAN]
    BY <1>8 DEF Await, IInv, LteType
  <2> QED BY <1>8, <2>1, <2>2, InsideKeeps DEF Await, Answered
<1>9. CASE Advance
  <2>1. ~Idle BY <1>9 DEF Advance, InSteps, Idle
  <2>2. lte' \in [at : {lte.at}, run : {lte.run}, i : Nat, poll : BOOLEAN]
    <3>1. lte' = [lte EXCEPT !.i = @ + 1, !.poll = FALSE] BY <1>9 DEF Advance
    <3>2. LteType BY DEF IInv
    <3>3. lte.i \in Nat BY <3>2 DEF LteType
    <3>4. lte' = [at |-> lte.at, run |-> lte.run, i |-> lte.i + 1, poll |-> FALSE]
      BY <3>1, <3>2 DEF LteType
    <3> QED BY <3>3, <3>4
  <2> QED BY <1>9, <2>1, <2>2, InsideKeeps DEF Advance
<1>10. CASE Conclude BY <1>10, FinishKeeps DEF Conclude
<1>11. CASE Unanswered BY <1>11, FinishKeeps DEF Unanswered
<1> QED
  BY <1>1, <1>2, <1>3, <1>4, <1>5, <1>6, <1>7, <1>8, <1>9, <1>10, <1>11 DEF LteNext

(***************************************************************************)
(* The MQTT task.                                                          *)
(***************************************************************************)
\* Outside a sequence it leaves the port alone.
LEMMA OutsideStep ==
    ASSUME IInv, UNCHANGED <<seq, port, cmd, lte>>, mq \in Between, mq' \in Between
    PROVE  IInv'
BY DEF IInv, LteType, OneSequence, Idle

LEMMA FirstStep ==
    ASSUME IInv, NEW c, NEW id, NEW p, p \notin Between, First(c, id, p), mq \in Between,
           UNCHANGED lte
    PROVE  IInv'
BY DEF First, BeginSequence, SendFor, Take, IInv, LteType, OneSequence, Idle

LEMMA InsideStep ==
    ASSUME IInv, UNCHANGED <<seq, lte>>, mq \notin Between, mq' \notin Between
    PROVE  IInv'
BY DEF IInv, LteType, OneSequence, Idle

LEMMA EndStep ==
    ASSUME IInv, EndSequence, UNCHANGED lte, mq \notin Between, mq' \in Between
    PROVE  IInv'
BY DEF EndSequence, IInv, LteType, OneSequence, Idle

LEMMA MqttKeeps ==
    ASSUME IInv, MqttNext, UNCHANGED lteVars
    PROVE  IInv'
<1> USE DEF Between
<1>0. UNCHANGED lte BY DEF lteVars
<1>1. CASE Reconnect \/ PassDown \/ PassUp \/ CheckUp
  <2>1. UNCHANGED <<seq, port, cmd>> /\ mq \in Between /\ mq' \in Between
    BY <1>1 DEF Reconnect, PassDown, PassUp, CheckUp, portVars, semVars
  <2> QED BY <1>0, <2>1, OutsideStep
<1>2. CASE Disconnect \/ Configure \/ Subscribe \/ Publish \/ Sleep
  <2>1. CASE Disconnect BY <1>0, <2>1, FirstStep DEF Disconnect
  <2>2. CASE Configure BY <1>0, <2>2, FirstStep DEF Configure
  <2>3. CASE Subscribe BY <1>0, <2>3, FirstStep DEF Subscribe
  <2>4. CASE Publish BY <1>0, <2>4, FirstStep DEF Publish
  <2>5. CASE Sleep BY <1>0, <2>5, FirstStep DEF Sleep
  <2> QED BY <1>2, <2>1, <2>2, <2>3, <2>4, <2>5
<1>3. CASE DisconnectHeard \/ OpenHeard \/ ConnectHeard \/ SubscribeHeard \/ PayloadHeard
  <2>1. UNCHANGED seq /\ mq \notin Between /\ mq' \notin Between
    BY <1>3 DEF DisconnectHeard, OpenHeard, ConnectHeard, SubscribeHeard, PayloadHeard,
                Wait, Answered
  <2> QED BY <1>0, <2>1, InsideStep
<1>4. CASE Close \/ Open \/ Connect \/ Payload
  <2>1. UNCHANGED seq /\ mq \notin Between /\ mq' \notin Between
    BY <1>4 DEF Close, Open, Connect, Opened, Payload, Later
  <2> QED BY <1>0, <2>1, InsideStep
<1>5. CASE SkipClose \/ NotOpened \/ NoAnswer \/ Retransmitted \/ Concluded
  <2>1. UNCHANGED seq /\ mq \notin Between /\ mq' \notin Between
    BY <1>5 DEF SkipClose, NotOpened, Opened, NoAnswer, Retransmitted, Concluded,
                portVars, semVars
  <2> QED BY <1>0, <2>1, InsideStep
<1>6. CASE Disconnected \/ MakeEnd \/ SubscribeEnd \/ PublishEnd \/ Asleep
  <2>1. EndSequence /\ mq \notin Between /\ mq' \in Between
    BY <1>6 DEF Disconnected, MakeEnd, SubscribeEnd, Settled, PublishEnd, Asleep, End
  <2> QED BY <1>0, <2>1, EndStep
<1> QED BY <1>1, <1>2, <1>3, <1>4, <1>5, <1>6 DEF MqttNext

LEMMA StepHolds == IInv /\ [Next]_vars => IInv'
<1> SUFFICES ASSUME IInv, [Next]_vars PROVE IInv'
  OBVIOUS
<1>1. CASE Lte BY <1>1, LteKeeps DEF Lte
<1>2. CASE Mqtt BY <1>2, MqttKeeps DEF Mqtt
<1>3. CASE Modem \/ Parser \/ Reports \/ Trouble \/ Other BY <1>3, OthersKeep
<1>4. CASE UNCHANGED vars
  BY <1>4 DEF vars, portVars, semVars, lteVars, mqVars, IInv, LteType, OneSequence,
              Idle, Between
<1> QED BY <1>1, <1>2, <1>3, <1>4 DEF Next

\* At most one of the two tasks is in a sequence, and outside sequences the
\* port is free: EC200U.c and Modem_MQTT.c, every sequence.
THEOREM OneSequenceCorrect == Spec => []OneSequence
<1>1. IInv => OneSequence BY DEF IInv
<1> QED BY <1>1, InitHolds, StepHolds, PTL DEF Spec

(***************************************************************************)
(* The statuses between two sequences.  Cascade is not inductive: what a   *)
(* sequence ends with depends on what it has passed.  A step is passed     *)
(* only if its field is good, no later step has that field, and a step     *)
(* that fails gives up at least gact unless all that gact rests on has     *)
(* been passed.                                                            *)
(***************************************************************************)
NetType == net \in [Fields -> BOOLEAN]

\* The connection counts as up only on top of what it rests on.
Rests(n) == n.gact => n.phy /\ n.sim /\ n.gatt

\* What step i of a sequence finds good, when it asks for the presence of
\* the modem, its SIM and its attachment at the steps 1, 2 and g.
Found(g) ==
    /\ lte.i >= 2 => net.phy
    /\ lte.i >= 3 => net.sim
    /\ lte.i > g => net.gatt

CInv ==
    /\ LteType /\ NetType
    /\ lte.run \notin {"connect", "check"} => Rests(net)
    /\ lte.run = "connect" => lte.i \in 1 .. 12 /\ Found(7)
    /\ lte.run = "check" => lte.i \in 1 .. 7 /\ Found(5)

\* The commands of the other task, and of this one.
MqttCommands == {"CFG", "CLOSE", "OPEN", "CONN", "DISC", "SUB", "PUBEX", "MSG", "QSCLK"}
LteCommands == Commands \ MqttCommands

\* Step n, the i-th of a sequence whose last is m, asks for the attachment if
\* i is g and for the connection if i is h.
Follows(n, i, g, h, m) ==
    /\ n.c \in LteCommands /\ n.field \in Fields \cup {"none"}
    /\ n.gate \in BOOLEAN /\ n.lost \in 0 .. 5 /\ n.bad \in 0 .. 5
    /\ n.field = "phy" <=> i = 1
    /\ n.field = "sim" <=> i = 2
    /\ n.field = "gatt" <=> i = g
    /\ n.field = "gact" <=> i = h
    /\ i \in {1, 2, g, h} => n.gate
    /\ i <= g => n.lost >= 1
    /\ n.gate /\ i # h => n.bad >= 1
    /\ i = m => ~n.gate

LEMMA ConnectTable ==
    ASSUME NEW i \in 1 .. 12
    PROVE  Follows(ConnectSteps[i], i, 7, 11, 12)
<1>1. CASE i = 1
  <2>1. ConnectSteps[i] = Step("ATE0", "phy", TRUE, 5, 5)
    BY <1>1 DEF ConnectSteps
  <2> QED BY <1>1, <2>1 DEF Follows, Fields, Step, LteCommands,
                                                 MqttCommands, Commands, Query
<1>2. CASE i = 2
  <2>1. ConnectSteps[i] = Step("CPIN", "sim", TRUE, 4, 4)
    BY <1>2 DEF ConnectSteps
  <2> QED BY <1>2, <2>1 DEF Follows, Fields, Step, LteCommands,
                                                 MqttCommands, Commands, Query
<1>3. CASE i = 3
  <2>1. ConnectSteps[i] = Step("CSQ", "none", FALSE, 3, 3)
    BY <1>3 DEF ConnectSteps
  <2> QED BY <1>3, <2>1 DEF Follows, Fields, Step, LteCommands,
                                                 MqttCommands, Commands, Query
<1>4. CASE i = 4
  <2>1. ConnectSteps[i] = Step("CGREG", "reg", FALSE, 3, 3)
    BY <1>4 DEF ConnectSteps
  <2> QED BY <1>4, <2>1 DEF Follows, Fields, Step, LteCommands,
                                                 MqttCommands, Commands, Query
<1>5. CASE i = 5
  <2>1. ConnectSteps[i] = Step("CGATT0", "none", FALSE, 2, 2)
    BY <1>5 DEF ConnectSteps
  <2> QED BY <1>5, <2>1 DEF Follows, Fields, Step, LteCommands,
                                                 MqttCommands, Commands, Query
<1>6. CASE i = 6
  <2>1. ConnectSteps[i] = Step("CGATT1", "none", FALSE, 2, 2)
    BY <1>6 DEF ConnectSteps
  <2> QED BY <1>6, <2>1 DEF Follows, Fields, Step, LteCommands,
                                                 MqttCommands, Commands, Query
<1>7. CASE i = 7
  <2>1. ConnectSteps[i] = Step("CGATT", "gatt", TRUE, 2, 1)
    BY <1>7 DEF ConnectSteps
  <2> QED BY <1>7, <2>1 DEF Follows, Fields, Step, LteCommands,
                                                 MqttCommands, Commands, Query
<1>8. CASE i = 8
  <2>1. ConnectSteps[i] = Step("CGACT0", "none", FALSE, 1, 1)
    BY <1>8 DEF ConnectSteps
  <2> QED BY <1>8, <2>1 DEF Follows, Fields, Step, LteCommands,
                                                 MqttCommands, Commands, Query
<1>9. CASE i = 9
  <2>1. ConnectSteps[i] = Step("CGDCONT", "none", FALSE, 1, 1)
    BY <1>9 DEF ConnectSteps
  <2> QED BY <1>9, <2>1 DEF Follows, Fields, Step, LteCommands,
                                                 MqttCommands, Commands, Query
<1>10. CASE i = 10
  <2>1. ConnectSteps[i] = Step("CGACT1", "none", FALSE, 1, 1)
    BY <1>10 DEF ConnectSteps
  <2> QED BY <1>10, <2>1 DEF Follows, Fields, Step, LteCommands,
                                                 MqttCommands, Commands, Query
<1>11. CASE i = 11
  <2>1. ConnectSteps[i] = Step("CGACT", "gact", TRUE, 1, 0)
    BY <1>11 DEF ConnectSteps
  <2> QED BY <1>11, <2>1 DEF Follows, Fields, Step, LteCommands,
                                                 MqttCommands, Commands, Query
<1>12. CASE i = 12
  <2>1. ConnectSteps[i] = Step("CGPADDR", "none", FALSE, 0, 0)
    BY <1>12 DEF ConnectSteps
  <2> QED BY <1>12, <2>1 DEF Follows, Fields, Step, LteCommands,
                                                 MqttCommands, Commands, Query
<1> QED BY <1>1, <1>2, <1>3, <1>4, <1>5, <1>6, <1>7, <1>8, <1>9, <1>10, <1>11, <1>12

LEMMA CheckTable ==
    ASSUME NEW i \in 1 .. 7
    PROVE  Follows(CheckSteps[i], i, 5, 6, 7)
<1>1. CASE i = 1
  <2>1. CheckSteps[i] = Step("AT", "phy", TRUE, 5, 5)
    BY <1>1 DEF CheckSteps
  <2> QED BY <1>1, <2>1 DEF Follows, Fields, Step, LteCommands,
                                                 MqttCommands, Commands, Query
<1>2. CASE i = 2
  <2>1. CheckSteps[i] = Step("CPIN", "sim", TRUE, 3, 3)
    BY <1>2 DEF CheckSteps
  <2> QED BY <1>2, <2>1 DEF Follows, Fields, Step, LteCommands,
                                                 MqttCommands, Commands, Query
<1>3. CASE i = 3
  <2>1. CheckSteps[i] = Step("CSQ", "none", FALSE, 3, 3)
    BY <1>3 DEF CheckSteps
  <2> QED BY <1>3, <2>1 DEF Follows, Fields, Step, LteCommands,
                                                 MqttCommands, Commands, Query
<1>4. CASE i = 4
  <2>1. CheckSteps[i] = Step("CGREG", "reg", TRUE, 2, 2)
    BY <1>4 DEF CheckSteps
  <2> QED BY <1>4, <2>1 DEF Follows, Fields, Step, LteCommands,
                                                 MqttCommands, Commands, Query
<1>5. CASE i = 5
  <2>1. CheckSteps[i] = Step("CGATT", "gatt", TRUE, 2, 1)
    BY <1>5 DEF CheckSteps
  <2> QED BY <1>5, <2>1 DEF Follows, Fields, Step, LteCommands,
                                                 MqttCommands, Commands, Query
<1>6. CASE i = 6
  <2>1. CheckSteps[i] = Step("CGACT", "gact", TRUE, 0, 0)
    BY <1>6 DEF CheckSteps
  <2> QED BY <1>6, <2>1 DEF Follows, Fields, Step, LteCommands,
                                                 MqttCommands, Commands, Query
<1>7. CASE i = 7
  <2>1. CheckSteps[i] = Step("CGPADDR", "none", FALSE, 0, 0)
    BY <1>7 DEF CheckSteps
  <2> QED BY <1>7, <2>1 DEF Follows, Fields, Step, LteCommands,
                                                 MqttCommands, Commands, Query
<1> QED BY <1>1, <1>2, <1>3, <1>4, <1>5, <1>6, <1>7

\* How far into the sequence the task is.
Places(g, h, m) ==
    /\ g \in 3 .. m /\ h \in 3 .. m /\ m \in Nat /\ g < h /\ h < m
    /\ lte.i \in 1 .. m /\ Len(Steps(lte.run)) = m
    /\ Found(g) /\ Follows(Now, lte.i, g, h, m)

LEMMA InPlace ==
    ASSUME CInv, InSteps
    PROVE  \E g, h, m : /\ Places(g, h, m)
                        /\ lte.run = "connect" => g = 7 /\ m = 12
                        /\ lte.run = "check" => g = 5 /\ m = 7
<1>1. Len(ConnectSteps) = 12 /\ Len(CheckSteps) = 7
  BY DEF ConnectSteps, CheckSteps
<1>2. CASE lte.run = "connect"
  <2>1. lte.i \in 1 .. 12 /\ Found(7) /\ Steps(lte.run) = ConnectSteps
    BY <1>2 DEF CInv, Steps
  <2>2. Places(7, 11, 12)
    BY <1>1, <2>1, ConnectTable DEF Places, Now
  <2> QED BY <1>2, <2>2
<1>3. CASE lte.run = "check"
  <2>1. lte.i \in 1 .. 7 /\ Found(5) /\ Steps(lte.run) = CheckSteps
    BY <1>3 DEF CInv, Steps
  <2>2. Places(5, 6, 7)
    BY <1>1, <2>1, CheckTable DEF Places, Now
  <2> QED BY <1>3, <2>2
<1> QED BY <1>2, <1>3 DEF InSteps

\* The statuses stay statuses.
LEMMA UpdatedType ==
    ASSUME CInv, InSteps
    PROVE  /\ Updated \in [Fields -> BOOLEAN]
           /\ Now.field # "none" => Now.field \in Fields
           /\ Now.field # "none" => Updated = [net EXCEPT ![Now.field] = tmp = "ok"]
           /\ Now.field = "none" => Updated = net
<1>1. Now.field \in Fields \cup {"none"}
  BY InPlace DEF Places, Follows
<1>2. (tmp = "ok") \in BOOLEAN
  OBVIOUS
<1> QED BY <1>1, <1>2 DEF Updated, CInv, NetType, Fields

\* The end of a sequence, with k statuses given up.
LEMMA FinishRests ==
    ASSUME CInv, InSteps, NEW k \in 0 .. 5, NEW now \in [Fields -> BOOLEAN],
           Finish(k, now), k >= 1 \/ Rests(now)
    PROVE  CInv'
<1>1. net' = [f \in Fields |-> now[f] /\ f \notin GivenUp(k)]
  BY DEF Finish
<1>2. NetType' BY <1>1 DEF NetType
<1>3. lte' = [at |-> IF lte.run = "connect" THEN "due" ELSE "top",
              run |-> "none", i |-> 0, poll |-> FALSE]
  BY DEF Finish
<1>4. Rests(net')
  <2>1. CASE k >= 1
    <3>1. "gact" \in GivenUp(k)
      BY <2>1 DEF GivenUp, Rank, Fields
    <3> QED BY <1>1, <3>1 DEF Rests, Fields
  <2>2. CASE k = 0
    <3>1. GivenUp(k) = {}
      BY <2>2 DEF GivenUp, Rank, Fields
    <3> QED BY <1>1, <2>2, <3>1 DEF Rests, Fields
  <2> QED BY <2>1, <2>2
<1>5. lte'.run = "none" BY <1>3
<1>6. LteType' BY <1>3 DEF LteType
<1> QED BY <1>2, <1>4, <1>5, <1>6 DEF CInv

LEMMA ConcludeRests == ASSUME CInv, Conclude PROVE CInv'
<1>1. InSteps /\ (AtEnd \/ ~Good) /\ Finish(IF Good THEN 0 ELSE Now.bad, Updated)
  BY DEF Conclude
<1>2. PICK g, h, m : Places(g, h, m) BY <1>1, InPlace
<1>3. Updated \in [Fields -> BOOLEAN] BY <1>1, UpdatedType
<1>4. CASE Good
  <2>1. lte.i = m BY <1>1, <1>2, <1>4 DEF AtEnd, Places
  <2>2. Found(g) /\ m \in Nat /\ g \in Nat /\ m > g /\ m >= 3 BY <1>2 DEF Places
  <2>3. net.phy /\ net.sim /\ net.gatt BY <2>1, <2>2 DEF Found
  <2>4. Now.field \notin {"phy", "sim", "gatt"}
    BY <1>2, <2>1 DEF Places, Follows
  <2>5. Updated.phy /\ Updated.sim /\ Updated.gatt
    BY <1>1, <2>3, <2>4, UpdatedType DEF CInv, NetType, Fields
  <2>6. Rests(Updated) BY <2>5 DEF Rests
  <2> QED BY <1>1, <1>3, <1>4, <2>6, FinishRests
<1>5. CASE ~Good
  <2>1. Now.gate /\ ~Updated[Now.field] BY <1>5 DEF Good
  <2>2. Now.bad \in 0 .. 5 BY <1>2 DEF Places, Follows
  <2>3. CASE lte.i = h
    <3>1. Now.field = "gact" BY <1>2, <2>3 DEF Places, Follows
    <3>2. Rests(Updated) BY <2>1, <3>1 DEF Rests
    <3> QED BY <1>1, <1>3, <1>5, <2>2, <3>2, FinishRests
  <2>4. CASE lte.i # h
    <3>1. Now.bad >= 1 BY <1>2, <2>1, <2>4 DEF Places, Follows
    <3> QED BY <1>1, <1>3, <1>5, <2>2, <3>1, FinishRests
  <2> QED BY <2>3, <2>4
<1> QED BY <1>4, <1>5

LEMMA UnansweredRests == ASSUME CInv, Unanswered PROVE CInv'
<1>1. InSteps /\ Finish(Now.lost, net) BY DEF Unanswered
<1>2. PICK g, h, m : Places(g, h, m) BY <1>1, InPlace
<1>3. Now.lost \in 0 .. 5 BY <1>2 DEF Places, Follows
<1>4. Now.lost >= 1 \/ Rests(net)
  <2>1. CASE lte.i <= g BY <1>2, <2>1 DEF Places, Follows
  <2>2. CASE lte.i > g BY <1>2, <2>2 DEF Places, Found, Rests
  <2> QED BY <1>2, <2>1, <2>2 DEF Places
<1>5. net \in [Fields -> BOOLEAN] BY DEF CInv, NetType
<1> QED BY <1>1, <1>3, <1>4, <1>5, FinishRests

LEMMA AdvanceFound == ASSUME CInv, Advance PROVE CInv'
<1>1. /\ InSteps /\ Good /\ ~AtEnd
      /\ lte' = [lte EXCEPT !.i = @ + 1, !.poll = FALSE]
      /\ net' = Updated
  BY DEF Advance
<1>2. PICK g, h, m : /\ Places(g, h, m)
                     /\ lte.run = "connect" => g = 7 /\ m = 12
                     /\ lte.run = "check" => g = 5 /\ m = 7
  BY <1>1, InPlace
<1>3. lte \in [at : {"boot", "info", "top", "pass", "due"},
               run : {"none", "reboot", "info", "connect", "check"},
               i : Nat, poll : BOOLEAN]
  BY DEF CInv, LteType
<1>4. lte' = [at |-> lte.at, run |-> lte.run, i |-> lte.i + 1, poll |-> FALSE]
  BY <1>1, <1>3
<1>5. LteType' BY <1>3, <1>4 DEF LteType
<1>6. NetType' BY <1>1, UpdatedType DEF NetType
<1>7. lte.i + 1 \in 1 .. m BY <1>1, <1>2 DEF AtEnd, Places
<1>8. Found(g)'
  <2>1. lte'.i = lte.i + 1 /\ lte.i \in 1 .. m BY <1>2, <1>4 DEF Places
  <2>2. Found(g) /\ g >= 3 /\ g \in Nat BY <1>2 DEF Places
  <2>3. /\ Now.field = "phy" <=> lte.i = 1
        /\ Now.field = "sim" <=> lte.i = 2
        /\ Now.field = "gatt" <=> lte.i = g
        /\ lte.i \in {1, 2, g} => Now.gate
    BY <1>2 DEF Places, Follows
  <2>4. ASSUME NEW f \in Fields, net[f], f # Now.field PROVE net'[f]
    BY <1>1, <2>4, UpdatedType DEF CInv, NetType
  <2>5. lte.i \in {1, 2, g} => net'[Now.field] BY <1>1, <2>3 DEF Good
  <2>6. lte'.i >= 2 => net'.phy
    <3>1. CASE lte.i = 1 BY <2>3, <2>5, <3>1
    <3>2. CASE lte.i >= 2 BY <2>2, <2>3, <2>4, <3>2 DEF Found, Fields
    <3> QED BY <2>1, <3>1, <3>2
  <2>7. lte'.i >= 3 => net'.sim
    <3>1. CASE lte.i = 2 BY <2>3, <2>5, <3>1
    <3>2. CASE lte.i >= 3 BY <2>2, <2>3, <2>4, <3>2 DEF Found, Fields
    <3> QED BY <2>1, <3>1, <3>2
  <2>8. lte'.i > g => net'.gatt
    <3>1. CASE lte.i = g BY <2>3, <2>5, <3>1
    <3>2. CASE lte.i > g BY <2>2, <2>3, <2>4, <3>2 DEF Found, Fields
    <3> QED BY <2>1, <2>2, <3>1, <3>2
  <2> QED BY <2>6, <2>7, <2>8 DEF Found
<1>9. lte'.run = lte.run /\ lte'.i = lte.i + 1 BY <1>4
<1>10. lte.run \in {"connect", "check"} BY <1>1 DEF InSteps
<1>11. CASE lte.run = "connect"
  BY <1>2, <1>5, <1>6, <1>7, <1>8, <1>9, <1>11 DEF CInv
<1>12. CASE lte.run = "check"
  BY <1>2, <1>5, <1>6, <1>7, <1>8, <1>9, <1>12 DEF CInv
<1> QED BY <1>10, <1>11, <1>12

LEMMA BeginFound ==
    ASSUME CInv, NEW run \in {"reboot", "info", "connect", "check"}, NEW c, Begin(run, c)
    PROVE  CInv'
<1>1. lte' = [lte EXCEPT !.run = run, !.i = 1] /\ net' = net /\ lte.run = "none"
  BY DEF Begin, Idle
<1>2. Rests(net) BY <1>1 DEF CInv
<1>3. LteType' /\ NetType' /\ lte'.run = run /\ lte'.i = 1
  BY <1>1 DEF CInv, LteType, NetType
<1> QED BY <1>1, <1>2, <1>3 DEF CInv, Found

LEMMA LteFound == ASSUME CInv, LteNext PROVE CInv'
<1> USE DEF Blind
<1>1. CASE BeginReboot BY <1>1, BeginFound DEF BeginReboot
<1>2. CASE BeginInfo BY <1>2, BeginFound DEF BeginInfo
<1>3. CASE BeginConnect BY <1>3, BeginFound DEF BeginConnect
<1>4. CASE BeginCheck BY <1>4, BeginFound DEF BeginCheck
<1>5. CASE Pass
  <2>1. net' = net /\ lte.run = "none" /\ Rests(net)
    BY <1>5 DEF Pass, Idle, CInv
  <2>2. LteType' /\ lte'.run = "none"
    BY <1>5, <2>1 DEF Pass, CInv, LteType
  <2> QED BY <2>1, <2>2 DEF CInv, NetType
<1>6. CASE BlindStep
  <2>1. net' = net /\ lte.run \in {"reboot", "info"} /\ lte' = [lte EXCEPT !.i = @ + 1]
    BY <1>6 DEF BlindStep
  <2>2. LteType' /\ lte'.run = lte.run
    BY <2>1 DEF CInv, LteType
  <2> QED BY <2>1, <2>2 DEF CInv, NetType
<1>7. CASE BlindEnd
  <2>1. lte.run \in {"reboot", "info"} /\ Rests(net)
    BY <1>7 DEF BlindEnd, CInv
  <2>2. LteType' /\ lte'.run = "none"
    BY <1>7 DEF BlindEnd, LteType
  <2>3. NetType' /\ Rests(net')
    <3>1. net' = net \/ net' = [net EXCEPT !.reg = FALSE, !.gact = FALSE]
      BY <1>7 DEF BlindEnd
    <3> QED BY <2>1, <3>1 DEF CInv, NetType, Rests, Fields
  <2> QED BY <2>2, <2>3 DEF CInv
<1>8. CASE Await
  <2>1. net' = net /\ lte' = [lte EXCEPT !.poll = TRUE]
    BY <1>8 DEF Await
  <2>2. LteType' /\ lte'.run = lte.run /\ lte'.i = lte.i
    BY <2>1 DEF CInv, LteType
  <2> QED BY <2>1, <2>2 DEF CInv, NetType, Found
<1>9. CASE Advance BY <1>9, AdvanceFound
<1>10. CASE Conclude BY <1>10, ConcludeRests
<1>11. CASE Unanswered BY <1>11, UnansweredRests
<1> QED
  BY <1>1, <1>2, <1>3, <1>4, <1>5, <1>6, <1>7, <1>8, <1>9, <1>10, <1>11 DEF LteNext

LEMMA CInitHolds == Init => CInv
BY DEF Init, LteInit, CInv, LteType, NetType, Rests, Fields

LEMMA CStepHolds == CInv /\ [Next]_vars => CInv'
<1> SUFFICES ASSUME CInv, [Next]_vars PROVE CInv'
  OBVIOUS
<1>1. CASE Lte BY <1>1, LteFound DEF Lte
<1>2. CASE ~Lte
  <2>1. UNCHANGED <<lte, net>>
    BY <1>2 DEF Next, Modem, Parser, Reports, Trouble, Mqtt, Other, lteVars, vars
  <2> QED BY <2>1 DEF CInv, LteType, NetType, Found
<1> QED BY <1>1, <1>2

\* Whatever goes wrong and however often, between two sequences the network
\* counts as up only on top of what it rests on (EC200U.c:563-575, 857-870).
THEOREM CascadeCorrect == Spec => []Cascade
<1>1. CInv => Cascade
  BY DEF CInv, LteType, Rests, Cascade, Idle
<1> QED BY <1>1, CInitHolds, CStepHolds, PTL DEF Spec

(***************************************************************************)
(* The types.  They rest on what the lines on their way may carry, and on  *)
(* the place in a sequence being one of its steps (CInv).                  *)
(***************************************************************************)
Ids == 0 .. MsgIds

Lines ==
    [k : {"OK", "ERROR", "prompt", "stat"}, r : {"none"}, id : {0}] \cup
    [k : {"conn"}, r : {"accepted", "refused", "again", "fail"}, id : {0}] \cup
    [k : {"sim", "reg", "gatt", "gact", "open", "sub", "pub"}, r : {"ok", "fail"}, id : Ids]

Client ==
    [open : {"none", "ok", "fail"}, openTmp : {"none", "ok", "fail"},
     ret : {"none", "accepted", "refused"}, retTmp : {"none", "accepted", "refused"},
     sent : {"none", "ok", "again", "fail"}, id : Ids, up : BOOLEAN]

Wires == {<<>>} \cup {<<w>> : w \in [c : Commands, id : Ids]}
Owed == [k : {"sub", "pub"}, id : Ids]

SemType  == seq \in BOOLEAN /\ port \in BOOLEAN /\ cmd \in Commands \cup {"IDLE"}
TmpType  == tmp \in {"none", "ok", "fail"}
ClType   == cl \in Client
PipeType == pipe \in Seq(Lines) /\ Len(pipe) <= MaxPipe
ModType  == data \in Ids /\ owed \in SUBSET Owed

TInv == SemType /\ TmpType /\ ClType /\ wire \in Wires /\ PipeType /\ ModType
        /\ LteType /\ lte.i <= 12

LEMMA TInvTypes == TInv /\ CInv => TypeOK
<1> SUFFICES ASSUME TInv, CInv PROVE TypeOK
  OBVIOUS
<1>1. Len(ConnectSteps) = 12 BY DEF ConnectSteps
<1>2. Len(wire) <= 1
  <2>1. CASE wire = <<>> BY <2>1
  <2>2. CASE wire # <<>>
    <3>1. PICK w \in [c : Commands, id : Ids] : wire = <<w>>
      BY <2>2 DEF TInv, Wires
    <3> QED BY <3>1
  <2> QED BY <2>1, <2>2
<1>3. /\ lte \in [at : {"boot", "info", "top", "pass", "due"},
                  run : {"none", "reboot", "info", "connect", "check"},
                  i : 0 .. Len(ConnectSteps), poll : BOOLEAN]
  BY <1>1 DEF TInv, LteType
<1> QED
  BY <1>2, <1>3 DEF TypeOK, TInv, CInv, NetType, SemType, TmpType, ClType, Client, Ids,
                    PipeType, ModType

LEMMA TypesInit == Init => TInv
<1> SUFFICES ASSUME Init PROVE TInv
  OBVIOUS
<1>1. Len(pipe) <= MaxPipe BY PortAssumption DEF Init, PortInit
<1>2. 0 \in Ids BY MqttAssumption DEF Ids
<1>3. ClType BY <1>2 DEF Init, PortInit, ClType, Client, NoClient
<1>4. SemType /\ TmpType /\ wire \in Wires /\ pipe \in Seq(Lines) /\ ModType
  BY <1>2 DEF Init, PortInit, SemType, TmpType, Wires, ModType
<1>5. LteType /\ lte.i <= 12 BY DEF Init, LteInit, LteType
<1> QED BY <1>1, <1>3, <1>4, <1>5 DEF TInv, PipeType

(***************************************************************************)
(* The modem's lines.                                                      *)
(***************************************************************************)
LEMMA Zero == 0 \in Ids
BY MqttAssumption DEF Ids

LEMMA OneLine ==
    ASSUME PipeType, NEW a \in Lines, Len(pipe) < MaxPipe, Answer(<<a>>)
    PROVE  PipeType'
<1>1. <<a>> \in Seq(Lines) /\ Len(<<a>>) = 1 OBVIOUS
<1>2. pipe' = pipe \o <<a>> BY DEF Answer
<1>3. pipe' \in Seq(Lines) /\ Len(pipe') = Len(pipe) + 1
  BY <1>1, <1>2 DEF PipeType
<1>4. Len(pipe) \in Nat BY DEF PipeType
<1> QED BY <1>3, <1>4, PortAssumption DEF PipeType

LEMMA TwoLines ==
    ASSUME PipeType, NEW a \in Lines, NEW b \in Lines, Len(pipe) <= MaxPipe - 2,
           Answer(<<a, b>>)
    PROVE  PipeType'
<1>1. <<a, b>> \in Seq(Lines) /\ Len(<<a, b>>) = 2 OBVIOUS
<1>2. pipe' = pipe \o <<a, b>> BY DEF Answer
<1>3. pipe' \in Seq(Lines) /\ Len(pipe') = Len(pipe) + 2
  BY <1>1, <1>2 DEF PipeType
<1>4. Len(pipe) \in Nat BY DEF PipeType
<1> QED BY <1>3, <1>4, PortAssumption DEF PipeType

LEMMA Short == ASSUME PipeType, Len(pipe) <= MaxPipe - 2 PROVE Len(pipe) < MaxPipe
<1>1. Len(pipe) \in Nat BY DEF PipeType
<1> QED BY <1>1, PortAssumption

LEMMA PlainLines ==
    /\ Ok \in Lines /\ Error \in Lines /\ Stat \in Lines
    /\ Line("prompt", "none", 0) \in Lines
    /\ \A c \in DOMAIN Query : \A r \in {"ok", "fail"} : Line(Query[c], r, 0) \in Lines
    /\ \A k \in {"sub", "pub", "open"}, r \in {"ok", "fail"}, i \in Ids :
           Line(k, r, i) \in Lines
    /\ \A r \in {"accepted", "refused", "again", "fail"} : Line("conn", r, 0) \in Lines
BY Zero DEF Ok, Error, Stat, Line, Lines, Query

\* The parser stores no more than the line carries.
LEMMA ParseTypes ==
    ASSUME TInv, NEW l \in Lines, Parse(l)
    PROVE  SemType' /\ TmpType' /\ ClType' /\ (wire \in Wires)' /\ ModType'
<1>1. TmpType'
  <2>1. tmp' = ParseField(l) BY DEF Parse
  <2>2. TmpType BY DEF TInv
  <2>3. ASSUME cmd \in DOMAIN Query, l.k = Query[cmd] PROVE l.r \in {"ok", "fail"}
    <3>1. l.k \in {"sim", "reg", "gatt", "gact"} BY <2>3 DEF Query
    <3> QED BY <3>1 DEF Lines
  <2> QED BY <2>1, <2>2, <2>3 DEF ParseField, TmpType
<1>2. ClType'
  <2>1. cl' = ParseSession(l) /\ cl \in Client BY DEF Parse, TInv, ClType
  <2>2. CASE l.k = "open" /\ cmd = "OPEN"
    <3>1. l.r \in {"ok", "fail"} BY <2>2 DEF Lines
    <3>2. cl' = [cl EXCEPT !.openTmp = l.r] BY <2>1, <2>2 DEF ParseSession, IsDown, IsOwn
    <3> QED BY <2>1, <3>1, <3>2 DEF Client, ClType
  <2>3. CASE l.k = "conn" /\ cmd = "CONN"
    <3>1. l.r \in {"accepted", "refused", "again", "fail"} BY <2>3 DEF Lines
    <3>2. ReadSent(l.r) \in {"none", "ok", "again", "fail"}
      BY <3>1 DEF ReadSent
    <3>3. ReadCode(l.r) \in {"none", "accepted", "refused"}
      BY <3>1 DEF ReadCode
    <3>4. (ReadCode(l.r) = "accepted") \in BOOLEAN OBVIOUS
    <3>5. cl' = [cl EXCEPT !.sent = ReadSent(l.r), !.retTmp = ReadCode(l.r),
                           !.up = ReadCode(l.r) = "accepted"]
      BY <2>1, <2>3 DEF ParseSession, IsDown, IsOwn
    <3> QED BY <2>1, <3>2, <3>3, <3>4, <3>5 DEF Client, ClType
  <2>4. CASE ~(l.k = "open" /\ cmd = "OPEN") /\ ~(l.k = "conn" /\ cmd = "CONN")
    <3>1. \/ cl' = [cl EXCEPT !.up = FALSE]
          \/ cl' = cl
          \/ IsOwn(l) /\ cl' = [cl EXCEPT !.sent = l.r]
      BY <2>1, <2>4 DEF ParseSession, IsDown, IsOwn
    <3>2. CASE IsOwn(l) /\ cl' = [cl EXCEPT !.sent = l.r]
      <4>1. l.r \in {"ok", "fail"} BY <3>2 DEF IsOwn, Lines
      <4> QED BY <2>1, <3>2, <4>1 DEF Client, ClType
    <3>3. CASE cl' = [cl EXCEPT !.up = FALSE] BY <2>1, <3>3 DEF Client, ClType
    <3> QED BY <2>1, <3>1, <3>2, <3>3 DEF ClType
  <2> QED BY <2>2, <2>3, <2>4
<1>3. SemType'
  <2>1. port' = (port \/ Gives(l)) /\ UNCHANGED <<seq, cmd>> BY DEF Parse
  <2>2. (port \/ Gives(l)) \in BOOLEAN OBVIOUS
  <2> QED BY <2>1, <2>2 DEF SemType, TInv
<1>4. (wire \in Wires)' /\ ModType' BY DEF Parse, modemVars, TInv, ModType
<1> QED BY <1>1, <1>2, <1>3, <1>4

\* Nothing of the tasks' own changes.
LEMMA TasksStay ==
    ASSUME TInv, UNCHANGED lteVars, SemType', TmpType', ClType', (wire \in Wires)',
           PipeType', ModType'
    PROVE  TInv'
BY DEF TInv, lteVars, LteType

LEMMA ParserTypes == ASSUME TInv, Parser PROVE TInv'
<1>1. Deliver /\ UNCHANGED lteVars BY DEF Parser
<1>2. pipe # <<>> /\ Parse(Head(pipe)) /\ pipe' = Tail(pipe) BY <1>1 DEF Deliver
<1>3. PipeType BY DEF TInv
<1>4. Head(pipe) \in Lines BY <1>2, <1>3 DEF PipeType
<1>5. PipeType'
  <2>1. Tail(pipe) \in Seq(Lines) /\ Len(Tail(pipe)) = Len(pipe) - 1 /\ Len(pipe) \in Nat
    BY <1>2, <1>3 DEF PipeType
  <2> QED BY <1>2, <1>3, <2>1, PortAssumption DEF PipeType
<1> QED BY <1>1, <1>2, <1>4, <1>5, ParseTypes, TasksStay

LEMMA StrayTypes == ASSUME TInv, Stray, UNCHANGED lteVars PROVE TInv'
<1>1. Parse(Ok) /\ pipe' = pipe BY DEF Stray
<1>2. PipeType' BY <1>1 DEF PipeType, TInv
<1> QED BY <1>1, <1>2, PlainLines, ParseTypes, TasksStay

\* What the modem has understood or swallowed.
LEMMA AcceptTypes ==
    ASSUME TInv, Len(pipe) <= MaxPipe - 2, NEW from, NEW c, NEW to, Accept(from, c, to)
    PROVE  PipeType' /\ ModType'
<1>1. PipeType /\ ModType BY DEF TInv
<1>2. Answer(<<Ok>>) \/ Answer(<<Error>>) BY DEF Accept
<1>3. PipeType' BY <1>1, <1>2, Short, PlainLines, OneLine
<1>4. ModType' BY <1>1 DEF Accept, Move, ModType
<1> QED BY <1>3, <1>4

LEMMA UnderstandTypes ==
    ASSUME TInv, wire # <<>>, Len(pipe) <= MaxPipe - 2, Understand
    PROVE  PipeType' /\ ModType'
<1>1. PipeType /\ ModType /\ Len(pipe) < MaxPipe BY Short DEF TInv
<1>2. PICK w \in [c : Commands, id : Ids] : wire = <<w>>
  BY DEF TInv, Wires
<1>3. wire[1].c = w.c /\ wire[1].id \in Ids BY <1>2
<1>4. CASE /\ w.c \in DOMAIN Query /\ UNCHANGED <<link, data, owed>>
           /\ Answer(<<Line(Query[w.c], "ok", 0), Ok>>)
  <2>1. Line(Query[w.c], "ok", 0) \in Lines BY <1>4, PlainLines
  <2> QED BY <1>1, <1>4, <2>1, TwoLines, PlainLines DEF ModType
<1>5. CASE Detach /\ UNCHANGED data
  <2>1. Answer(<<Ok>>) \/ Answer(<<Stat, Ok>>) BY <1>5 DEF Detach
  <2>2. PipeType' BY <1>1, <2>1, OneLine, TwoLines, PlainLines
  <2> QED BY <1>1, <1>5, <2>2 DEF Detach, Move, ModType
<1>6. CASE Move("closed") /\ Answer(<<Ok>>) /\ UNCHANGED data
  <2>1. PipeType' BY <1>1, <1>6, OneLine, PlainLines
  <2> QED BY <1>1, <1>6, <2>1 DEF Move, ModType
<1>7. CASE \E from, c, to : Accept(from, c, to)
  BY <1>7, AcceptTypes
<1>8. CASE /\ owed' = owed \cup {[k |-> "sub", id |-> wire[1].id]}
           /\ Answer(<<Ok>>) /\ UNCHANGED <<link, data>>
  <2>1. PipeType' BY <1>1, <1>8, OneLine, PlainLines
  <2> QED BY <1>1, <1>3, <1>8, <2>1 DEF ModType, Owed
<1>9. CASE /\ data' = wire[1].id /\ Answer(<<Line("prompt", "none", 0)>>)
           /\ UNCHANGED <<link, owed>>
  <2>1. PipeType' BY <1>1, <1>9, OneLine, PlainLines
  <2> QED BY <1>1, <1>3, <1>9, <2>1 DEF ModType
<1>10. CASE (Answer(<<Error>>) \/ Answer(<<Ok>>)) /\ UNCHANGED <<link, data, owed>>
  <2>1. PipeType' BY <1>1, <1>10, OneLine, PlainLines
  <2> QED BY <1>1, <1>10, <2>1 DEF ModType
<1>11. CASE UNCHANGED <<pipe, link, data, owed>>
  BY <1>1, <1>11 DEF PipeType, ModType
<1> QED
  <2>1. \/ /\ w.c \in DOMAIN Query /\ UNCHANGED <<link, data, owed>>
           /\ Answer(<<Line(Query[w.c], "ok", 0), Ok>>)
        \/ Detach /\ UNCHANGED data
        \/ Move("closed") /\ Answer(<<Ok>>) /\ UNCHANGED data
        \/ Accept({"opening", "open", "connecting", "connected"}, "CLOSE", "closed")
        \/ Accept({"closed"}, "OPEN", "opening")
        \/ Accept({"open"}, "CONN", "connecting")
        \/ Accept({"connected"}, "DISC", "closed")
        \/ /\ owed' = owed \cup {[k |-> "sub", id |-> wire[1].id]}
           /\ Answer(<<Ok>>) /\ UNCHANGED <<link, data>>
        \/ /\ data' = wire[1].id /\ Answer(<<Line("prompt", "none", 0)>>)
           /\ UNCHANGED <<link, owed>>
        \/ (Answer(<<Error>>) \/ Answer(<<Ok>>)) /\ UNCHANGED <<link, data, owed>>
        \/ UNCHANGED <<pipe, link, data, owed>>
    BY <1>3, Zenon DEF Understand
  <2> QED BY <1>4, <1>5, <1>6, <1>7, <1>8, <1>9, <1>10, <1>11, <2>1

LEMMA SwallowTypes ==
    ASSUME TInv, Len(pipe) <= MaxPipe - 2, Swallow
    PROVE  PipeType' /\ ModType'
<1>1. PipeType /\ ModType /\ Len(pipe) < MaxPipe BY Short DEF TInv
<1>2. PipeType' BY <1>1, OneLine, PlainLines DEF Swallow
<1>3. ModType' BY <1>1, Zero DEF Swallow, ModType, Owed
<1> QED BY <1>2, <1>3

LEMMA HearTypes == ASSUME TInv, Modem PROVE TInv'
<1>1. wire # <<>> /\ (Hear \/ HearFault) /\ UNCHANGED lteVars BY DEF Modem
<1>2. wire' = <<>> /\ Len(pipe) <= MaxPipe - 2 /\ UNCHANGED <<seq, port, cmd, tmp, cl>>
  BY <1>1 DEF Hear, HearFault
<1>3. SemType' /\ TmpType' /\ ClType' /\ (wire \in Wires)'
  BY <1>2 DEF TInv, SemType, TmpType, ClType, Wires
<1>4. PipeType' /\ ModType'
  <2>1. CASE Hear
    BY <1>1, <1>2, <2>1, UnderstandTypes, SwallowTypes DEF Hear
  <2>2. CASE HearFault
    <3>1. PipeType /\ ModType /\ Len(pipe) < MaxPipe BY <1>2, Short DEF TInv
    <3>2. ModType' BY <2>2, <3>1 DEF HearFault, modemVars, ModType
    <3>3. \/ Answer(<<Error>>)
          \/ \E c \in DOMAIN Query : Answer(<<Line(Query[c], "fail", 0), Ok>>)
          \/ UNCHANGED pipe
      BY <2>2 DEF HearFault
    <3>4. PipeType'
      <4>1. CASE Answer(<<Error>>) BY <3>1, <4>1, OneLine, PlainLines
      <4>2. ASSUME NEW c \in DOMAIN Query, Answer(<<Line(Query[c], "fail", 0), Ok>>)
            PROVE  PipeType'
        <5>1. Line(Query[c], "fail", 0) \in Lines BY PlainLines
        <5> QED BY <1>2, <3>1, <4>2, <5>1, TwoLines, PlainLines
      <4>3. CASE UNCHANGED pipe BY <3>1, <4>3 DEF PipeType
      <4> QED BY <3>3, <4>1, <4>2, <4>3
    <3> QED BY <3>2, <3>4
  <2> QED BY <1>1, <2>1, <2>2
<1> QED BY <1>1, <1>3, <1>4, TasksStay

\* What it reports of its own accord.
LEMMA ReportKeeps ==
    ASSUME TInv, UNCHANGED lteVars, NEW l \in Lines, NEW to, ReportTo(l, to)
    PROVE  TInv'
<1>1. PipeType' BY OneLine DEF ReportTo, TInv
<1>2. ModType' BY DEF ReportTo, Move, TInv, ModType
<1>3. SemType' /\ TmpType' /\ ClType' /\ (wire \in Wires)'
  BY DEF ReportTo, semVars, TInv, SemType, TmpType, ClType
<1> QED BY <1>1, <1>2, <1>3, TasksStay

LEMMA OwedKeeps ==
    ASSUME TInv, UNCHANGED lteVars, NEW o \in owed, NEW r \in {"ok", "fail"}, ReportOn(o, r)
    PROVE  TInv'
<1>1. PipeType'
  <2>1. o \in Owed BY DEF TInv, ModType
  <2>2. Line(o.k, r, o.id) \in Lines BY <2>1, PlainLines DEF Owed
  <2> QED BY <2>2, OneLine DEF ReportOn, TInv
<1>2. ModType' BY DEF ReportOn, TInv, ModType
<1>3. SemType' /\ TmpType' /\ ClType' /\ (wire \in Wires)'
  BY DEF ReportOn, semVars, TInv, SemType, TmpType, ClType
<1> QED BY <1>1, <1>2, <1>3, TasksStay

LEMMA ReportsTypes == ASSUME TInv, Reports PROVE TInv'
<1>1. Report /\ UNCHANGED lteVars BY DEF Reports
<1>2. CASE ReportOpen BY <1>1, <1>2, ReportKeeps, PlainLines, Zero DEF ReportOpen
<1>3. CASE ReportConn BY <1>1, <1>3, ReportKeeps, PlainLines DEF ReportConn
<1>4. CASE ReportOwed BY <1>1, <1>4, OwedKeeps DEF ReportOwed
<1> QED BY <1>1, <1>2, <1>3, <1>4 DEF Report

LEMMA TroubleTypes == ASSUME TInv, Trouble PROVE TInv'
<1>1. (Stray \/ ReportFault) /\ UNCHANGED lteVars BY DEF Trouble
<1>2. CASE Stray BY <1>1, <1>2, StrayTypes
<1>3. CASE ReportFault
  <2>1. CASE \E l \in Lines, to \in {"closed", "connecting"} : ReportTo(l, to)
    BY <1>1, <2>1, ReportKeeps
  <2>2. CASE \E o \in owed : ReportOn(o, "fail")
    BY <1>1, <2>2, OwedKeeps
  <2> QED BY <1>3, <2>1, <2>2, PlainLines, Zero DEF ReportFault
<1> QED BY <1>1, <1>2, <1>3

LEMMA OtherTypes == ASSUME TInv, Other PROVE TInv'
<1>1. UNCHANGED <<portVars, lteVars>> BY DEF Other, RequestReconnect
<1>2. UNCHANGED <<seq, port, cmd, tmp, cl, wire, pipe, data, owed>>
  BY <1>1 DEF portVars, semVars, modemVars
<1> QED BY <1>1, <1>2, TasksStay DEF TInv, SemType, TmpType, ClType, PipeType, ModType

(***************************************************************************)
(* The tasks.                                                              *)
(***************************************************************************)
\* A command is sent, or the sequence ends.
LEMMA SendTypes ==
    ASSUME TInv, NEW c \in Commands, NEW id \in Ids, SendFor(c, id)
    PROVE  /\ cmd' \in Commands \cup {"IDLE"} /\ (wire \in Wires)'
           /\ PipeType' /\ ModType'
<1>1. UNCHANGED <<pipe, data, owed>> BY DEF SendFor, modemVars
<1>2. [c |-> c, id |-> id] \in [c : Commands, id : Ids] OBVIOUS
<1>3. (wire \in Wires)' BY <1>2 DEF SendFor, Wires
<1> QED BY <1>1, <1>3 DEF SendFor, TInv, PipeType, ModType

LEMMA EndTypes ==
    ASSUME TInv, EndSequence
    PROVE  SemType' /\ (wire \in Wires)' /\ PipeType' /\ ModType'
BY DEF EndSequence, modemVars, TInv, SemType, PipeType, ModType

LEMMA NextCommand ==
    ASSUME CInv, InSteps, ~AtEnd
    PROVE  Steps(lte.run)[lte.i + 1].c \in LteCommands
<1>1. PICK g, h, m : /\ Places(g, h, m)
                     /\ lte.run = "connect" => g = 7 /\ m = 12
                     /\ lte.run = "check" => g = 5 /\ m = 7
  BY InPlace
<1>2. lte.i + 1 \in 1 .. m BY <1>1 DEF Places, AtEnd
<1>3. CASE lte.run = "connect"
  <2>1. Follows(ConnectSteps[lte.i + 1], lte.i + 1, 7, 11, 12)
    BY <1>1, <1>2, <1>3, ConnectTable
  <2> QED BY <1>3, <2>1 DEF Steps, Follows
<1>4. CASE lte.run = "check"
  <2>1. Follows(CheckSteps[lte.i + 1], lte.i + 1, 5, 6, 7)
    BY <1>1, <1>2, <1>4, CheckTable
  <2> QED BY <1>4, <2>1 DEF Steps, Follows
<1> QED BY <1>3, <1>4 DEF InSteps

LEMMA BeginTypes ==
    ASSUME TInv, NEW run \in {"reboot", "info", "connect", "check"}, NEW c \in Commands,
           Begin(run, c)
    PROVE  TInv'
<1>1. /\ seq' = FALSE /\ port' = FALSE /\ SendFor(c, 0) /\ tmp' = "none" /\ cl' = cl
      /\ lte' = [lte EXCEPT !.run = run, !.i = 1]
  BY DEF Begin, BeginSequence, Take
<1>2. LteType' /\ lte'.i = 1 BY <1>1 DEF TInv, LteType
<1>3. cmd' \in Commands \cup {"IDLE"} /\ (wire \in Wires)' /\ PipeType' /\ ModType'
  BY <1>1, Zero, SendTypes
<1>4. SemType' /\ TmpType' /\ ClType'
  BY <1>1, <1>3 DEF TInv, SemType, TmpType, ClType
<1> QED BY <1>2, <1>3, <1>4 DEF TInv

LEMMA FinishTypes ==
    ASSUME TInv, NEW k, NEW now, Finish(k, now)
    PROVE  TInv'
<1>1. EndSequence /\ cl' = [cl EXCEPT !.up = @ /\ k = 0] /\ tmp' = "none"
  BY DEF Finish
<1>2. lte' = [at |-> IF lte.run = "connect" THEN "due" ELSE "top",
              run |-> "none", i |-> 0, poll |-> FALSE]
  BY DEF Finish
<1>3. LteType' /\ lte'.i <= 12 BY <1>2 DEF LteType
<1>4. ClType'
  <2>1. cl \in Client /\ (cl.up /\ k = 0) \in BOOLEAN BY DEF TInv, ClType
  <2> QED BY <1>1, <2>1 DEF Client, ClType
<1> QED BY <1>1, <1>3, <1>4, EndTypes DEF TInv, TmpType

LEMMA LteTypes ==
    ASSUME TInv, CInv, LteNext
    PROVE  TInv'
<1> USE DEF Blind
<1>0. {"RESET", "QRESET", "CGMR", "CGSN", "CGMI", "CGMM", "QPWR", "AT", "ATE0"} \subseteq Commands
  BY DEF Commands
<1>1. CASE BeginReboot BY <1>0, <1>1, BeginTypes DEF BeginReboot
<1>2. CASE BeginInfo BY <1>0, <1>2, BeginTypes DEF BeginInfo
<1>3. CASE BeginConnect BY <1>0, <1>3, BeginTypes DEF BeginConnect
<1>4. CASE BeginCheck BY <1>0, <1>4, BeginTypes DEF BeginCheck
<1>5. CASE Pass
  <2>1. UNCHANGED <<seq, port, cmd, tmp, cl, wire, pipe, data, owed>>
    BY <1>5 DEF Pass, portVars, semVars, modemVars
  <2>2. LteType' /\ lte'.i = lte.i BY <1>5 DEF Pass, TInv, LteType
  <2> QED BY <2>1, <2>2 DEF TInv, SemType, TmpType, ClType, PipeType, ModType
<1>6. CASE BlindStep
  <2>1. /\ lte.run \in {"reboot", "info"} /\ lte.i < Len(Blind[lte.run])
        /\ Send(Blind[lte.run][lte.i + 1]) /\ lte' = [lte EXCEPT !.i = @ + 1]
        /\ UNCHANGED <<seq, port, tmp, cl>>
    BY <1>6 DEF BlindStep
  <2>2. lte.i \in Nat BY DEF TInv, LteType
  <2>3. Blind[lte.run][lte.i + 1] \in Commands /\ lte.i + 1 <= 12
    <3>1. CASE lte.run = "reboot"
      <4>1. lte.i \in {0, 1} BY <2>1, <2>2, <3>1
      <4> QED BY <1>0, <3>1, <4>1
    <3>2. CASE lte.run = "info"
      <4>1. lte.i \in 0 .. 6 BY <2>1, <2>2, <3>2
      <4> QED BY <1>0, <3>2, <4>1
    <3> QED BY <2>1, <3>1, <3>2
  <2>4. LteType' /\ lte'.i = lte.i + 1 BY <2>1 DEF TInv, LteType
  <2>5. SendFor(Blind[lte.run][lte.i + 1], 0) BY <2>1 DEF Send
  <2> QED BY <2>1, <2>3, <2>4, <2>5, Zero, SendTypes DEF TInv, SemType, TmpType, ClType
<1>7. CASE BlindEnd
  <2>1. EndSequence /\ UNCHANGED <<tmp, cl>> BY <1>7 DEF BlindEnd
  <2>2. LteType' /\ lte'.i = 0 BY <1>7 DEF BlindEnd, LteType
  <2> QED BY <2>1, <2>2, EndTypes DEF TInv, TmpType, ClType
<1>8. CASE Await
  <2>1. port' = FALSE /\ UNCHANGED <<seq, cmd, tmp, cl, wire, pipe, data, owed>>
        /\ lte' = [lte EXCEPT !.poll = TRUE]
    BY <1>8 DEF Await, Answered, Take, modemVars
  <2>2. LteType' /\ lte'.i = lte.i BY <2>1 DEF TInv, LteType
  <2> QED BY <2>1, <2>2 DEF TInv, SemType, TmpType, ClType, PipeType, ModType
<1>9. CASE Advance
  <2> DEFINE c == Steps(lte.run)[lte.i + 1].c
  <2>1. /\ InSteps /\ ~AtEnd /\ port' = (port /\ lte.poll) /\ tmp' = "none" /\ SendFor(c, 0)
        /\ lte' = [lte EXCEPT !.i = @ + 1, !.poll = FALSE]
        /\ UNCHANGED <<seq, cl>>
    BY <1>9 DEF Advance, AskFor, Send
  <2>2. c \in Commands BY <2>1, NextCommand DEF LteCommands
  <2>3. LteType' /\ lte'.i <= 12
    <3>1. CInv' BY <1>9, AdvanceFound
    <3>2. lte'.run = lte.run BY <2>1 DEF TInv, LteType
    <3>3. lte'.run \in {"connect", "check"} BY <2>1, <3>2 DEF InSteps
    <3>4. lte'.i \in 1 .. 12 BY <3>1, <3>3 DEF CInv
    <3> QED BY <3>1, <3>4 DEF CInv
  <2>4. (port /\ lte.poll) \in BOOLEAN OBVIOUS
  <2> HIDE DEF c
  <2>5. cmd' \in Commands \cup {"IDLE"} /\ (wire \in Wires)' /\ PipeType' /\ ModType'
    BY <2>1, <2>2, Zero, SendTypes
  <2>6. SemType' /\ TmpType' /\ ClType'
    BY <2>1, <2>4, <2>5 DEF TInv, SemType, TmpType, ClType
  <2> QED BY <2>3, <2>5, <2>6 DEF TInv
<1>10. CASE Conclude BY <1>10, FinishTypes DEF Conclude
<1>11. CASE Unanswered BY <1>11, FinishTypes DEF Unanswered
<1> QED
  BY <1>1, <1>2, <1>3, <1>4, <1>5, <1>6, <1>7, <1>8, <1>9, <1>10, <1>11 DEF LteNext

\* A step of the MQTT task that keeps what the port holds typed.
LEMMA MqttStay ==
    ASSUME TInv, UNCHANGED lteVars, seq' \in BOOLEAN, port' \in BOOLEAN,
           cmd' \in Commands \cup {"IDLE"}, tmp' = tmp, ClType', (wire \in Wires)',
           PipeType', ModType'
    PROVE  TInv'
BY TasksStay DEF TInv, SemType, TmpType

LEMMA FirstTypes ==
    ASSUME TInv, UNCHANGED lteVars, NEW c \in Commands, NEW id \in Ids, NEW p,
           First(c, id, p), ClType'
    PROVE  TInv'
<1>1. seq' = FALSE /\ port' = FALSE /\ tmp' = tmp /\ SendFor(c, id)
  BY DEF First, BeginSequence, Take
<1> QED BY <1>1, SendTypes, MqttStay

LEMMA LaterTypes ==
    ASSUME TInv, UNCHANGED lteVars, NEW c \in Commands, NEW p, Later(c, p),
           port' \in BOOLEAN, ClType'
    PROVE  TInv'
<1>1. seq' \in BOOLEAN /\ tmp' = tmp /\ SendFor(c, 0)
  BY DEF Later, Send, TInv, SemType
<1> QED BY <1>1, Zero, SendTypes, MqttStay

LEMMA EndsTypes ==
    ASSUME TInv, UNCHANGED lteVars, EndSequence, tmp' = tmp, ClType'
    PROVE  TInv'
BY EndTypes, MqttStay DEF SemType

\* Only the session's record and the port may change.
LEMMA QuietTypes ==
    ASSUME TInv, UNCHANGED lteVars, UNCHANGED <<seq, cmd, tmp, wire, pipe, data, owed>>,
           port' \in BOOLEAN, ClType'
    PROVE  TInv'
BY MqttStay DEF TInv, SemType, PipeType, ModType

LEMMA NextIdType == ASSUME TInv PROVE NextId \in Ids
<1>1. cl.id \in 0 .. MsgIds BY DEF TInv, ClType, Client, Ids
<1>2. cl.id % MsgIds \in 0 .. (MsgIds - 1) BY <1>1, MqttAssumption
<1> QED BY <1>2, MqttAssumption DEF NextId, Ids

LEMMA MqttTypes ==
    ASSUME TInv, MqttNext, UNCHANGED lteVars
    PROVE  TInv'
<1>0. /\ cl \in Client /\ seq \in BOOLEAN /\ port \in BOOLEAN
      /\ {"DISC", "CFG", "CLOSE", "OPEN", "CONN", "SUB", "PUBEX", "MSG", "QSCLK"} \subseteq Commands
  BY DEF TInv, ClType, SemType, Commands
<1>a. cl' = cl => ClType' BY <1>0 DEF ClType
<1>1. CASE Reconnect \/ PassDown \/ PassUp \/ CheckUp \/ Retransmitted
  <2>1. UNCHANGED portVars
    BY <1>1 DEF Reconnect, PassDown, PassUp, CheckUp, Retransmitted
  <2> QED BY <1>0, <1>a, <2>1, QuietTypes DEF portVars, semVars, modemVars
<1>2. CASE Disconnect BY <1>0, <1>a, <1>2, Zero, FirstTypes DEF Disconnect
<1>3. CASE Configure BY <1>0, <1>a, <1>3, Zero, FirstTypes DEF Configure
<1>4. CASE Sleep BY <1>0, <1>a, <1>4, Zero, FirstTypes DEF Sleep
<1>5. CASE Subscribe \/ Publish
  <2>1. NextMessage /\ \E p : First("SUB", NextId, p) \/ First("PUBEX", NextId, p)
    BY <1>5 DEF Subscribe, Publish
  <2>2. cl' \in Client BY <1>0, <2>1, NextIdType DEF NextMessage, Client
  <2> QED BY <1>0, <2>1, <2>2, NextIdType, FirstTypes DEF ClType
<1>6. CASE DisconnectHeard \/ OpenHeard \/ ConnectHeard \/ SubscribeHeard \/ PayloadHeard
  <2>1. Answered
    BY <1>6 DEF DisconnectHeard, OpenHeard, ConnectHeard, SubscribeHeard, PayloadHeard, Wait
  <2> QED BY <1>0, <1>a, <2>1, QuietTypes DEF Answered, Take, modemVars
<1>7. CASE Disconnected
  <2>1. /\ cl' = [cl EXCEPT !.open = "none", !.ret = "none", !.up = @ /\ ~dropping]
        /\ EndSequence /\ tmp' = tmp
    BY <1>7 DEF Disconnected
  <2>2. (cl.up /\ ~dropping) \in BOOLEAN OBVIOUS
  <2>3. cl' \in Client BY <1>0, <2>1, <2>2 DEF Client
  <2> QED BY <2>1, <2>3, EndsTypes DEF ClType
<1>8. CASE Close
  <2>1. port' = FALSE /\ Later("CLOSE", "close") /\ cl' = cl BY <1>8 DEF Close, Take
  <2> QED BY <1>0, <1>a, <2>1, LaterTypes
<1>9. CASE SkipClose \/ NoAnswer
  BY <1>0, <1>a, <1>9, QuietTypes DEF SkipClose, NoAnswer, semVars, modemVars
<1>10. CASE Open
  <2>1. CASE UNCHANGED <<seq, port, cmd, tmp, cl, wire, pipe, modemVars>>
    BY <1>0, <1>a, <2>1, QuietTypes DEF modemVars
  <2>2. CASE Take /\ cl' = [cl EXCEPT !.openTmp = "none"] /\ Later("OPEN", "open")
    <3>1. cl' \in Client BY <1>0, <2>2 DEF Client
    <3> QED BY <1>0, <2>2, <3>1, LaterTypes DEF Take, ClType
  <2> QED BY <1>10, <2>1, <2>2 DEF Open
<1>11. CASE Connect
  <2>1. /\ cl' = [cl EXCEPT !.open = "ok", !.retTmp = "none", !.sent = "none"]
        /\ Later("CONN", "conn") /\ port' = port
    BY <1>11 DEF Connect
  <2>2. cl' \in Client BY <1>0, <2>1 DEF Client
  <2> QED BY <1>0, <2>1, <2>2, LaterTypes DEF ClType
<1>12. CASE NotOpened
  <2>1. /\ cl' = [cl EXCEPT !.open = OpenResult]
        /\ UNCHANGED <<semVars, tmp, wire, pipe, modemVars>>
    BY <1>12 DEF NotOpened
  <2>2. OpenResult \in {"none", "ok", "fail"} BY <1>0 DEF OpenResult, Client
  <2>3. cl' \in Client BY <1>0, <2>1, <2>2 DEF Client
  <2> QED BY <1>0, <2>1, <2>3, QuietTypes DEF ClType, semVars, modemVars
<1>13. CASE Concluded
  <2>1. /\ cl' = cl \/ cl' = [cl EXCEPT !.ret = cl.retTmp]
        /\ UNCHANGED <<semVars, tmp, wire, pipe, modemVars>>
    BY <1>13 DEF Concluded
  <2>2. cl' \in Client BY <1>0, <2>1 DEF Client
  <2> QED BY <1>0, <2>1, <2>2, QuietTypes DEF ClType, semVars, modemVars
<1>14. CASE MakeEnd
  <2>1. /\ cl' = [cl EXCEPT !.open = IF mq = "end1" THEN "none" ELSE @,
                            !.ret = IF mq = "end3" THEN @ ELSE "none",
                            !.openTmp = "none", !.retTmp = "none", !.sent = "none"]
        /\ EndSequence /\ tmp' = tmp
    BY <1>14 DEF MakeEnd, End
  <2>2. cl' \in Client BY <1>0, <2>1 DEF Client
  <2> QED BY <2>1, <2>2, EndsTypes DEF ClType
<1>15. CASE SubscribeEnd \/ PublishEnd
  <2>1. EndSequence /\ tmp' = tmp /\ cl' = [cl EXCEPT !.sent = "none"]
    BY <1>15 DEF SubscribeEnd, PublishEnd, End
  <2>2. cl' \in Client BY <1>0, <2>1 DEF Client
  <2> QED BY <2>1, <2>2, EndsTypes DEF ClType
<1>16. CASE Payload
  <2>1. port' = FALSE /\ Later("MSG", "msg") /\ cl' = cl BY <1>16 DEF Payload, Take
  <2> QED BY <1>0, <1>a, <2>1, LaterTypes
<1>17. CASE Asleep
  <2>1. EndSequence /\ tmp' = tmp /\ cl' = cl BY <1>17 DEF Asleep, End
  <2> QED BY <1>a, <2>1, EndsTypes
<1> QED
  BY <1>1, <1>2, <1>3, <1>4, <1>5, <1>6, <1>7, <1>8, <1>9, <1>10, <1>11, <1>12, <1>13,
     <1>14, <1>15, <1>16, <1>17 DEF MqttNext

LEMMA TypesStep == TInv /\ CInv /\ [Next]_vars => TInv'
<1> SUFFICES ASSUME TInv, CInv, [Next]_vars PROVE TInv'
  OBVIOUS
<1>1. CASE Modem BY <1>1, HearTypes
<1>2. CASE Parser BY <1>2, ParserTypes
<1>3. CASE Reports BY <1>3, ReportsTypes
<1>4. CASE Trouble BY <1>4, TroubleTypes
<1>5. CASE Lte BY <1>5, LteTypes DEF Lte
<1>6. CASE Mqtt BY <1>6, MqttTypes DEF Mqtt
<1>7. CASE Other BY <1>7, OtherTypes
<1>8. CASE UNCHANGED vars
  <2>1. UNCHANGED lteVars BY <1>8 DEF vars
  <2>2. UNCHANGED <<seq, port, cmd, tmp, cl, wire, pipe, data, owed>>
    BY <1>8 DEF vars, portVars, semVars, modemVars
  <2> QED BY <2>1, <2>2, TasksStay DEF TInv, SemType, TmpType, ClType, PipeType, ModType
<1> QED BY <1>1, <1>2, <1>3, <1>4, <1>5, <1>6, <1>7, <1>8 DEF Next

\* Every variable of the port and of the tasks keeps its type, and no more
\* than MaxPipe lines and one command are ever under way.
THEOREM TypesCorrect == Spec => []TypeOK
<1>1. Init => TInv /\ CInv BY TypesInit, CInitHolds
<1>2. TInv /\ CInv /\ [Next]_vars => (TInv /\ CInv)' BY TypesStep, CStepHolds
<1> QED BY <1>1, <1>2, TInvTypes, PTL DEF Spec

(***************************************************************************)
(* Whose result it is. Nothing in the code ties a result to its request    *)
(* but the command in progress and the number of the message, so the       *)
(* theorems on a message and on the session name what must not be on its   *)
(* way when a request is made; that on the connection holds of every       *)
(* behaviour.                                                              *)
(***************************************************************************)
\* A result of message i is on its way.
ResultComing(i) ==
    \/ data # 0 /\ data = i
    \/ \E o \in owed : o.id = i
    \/ \E j \in 1 .. Len(pipe) : pipe[j].k \in {"sub", "pub"} /\ pipe[j].id = i

\* A message takes a number no result of which is on its way.
NumberFresh == cl'.id # cl.id => ~ResultComing(cl'.id)

\* When a connection is asked for, no report of an earlier one is on its way.
ReportFresh ==
    cmd' = "CONN" /\ cmd # "CONN" => \A j \in 1 .. Len(pipe) : pipe[j].k # "conn"

\* What is on its way to the modem is the command in progress, and the place
\* of the MQTT task tells which it is.
Requests ==
    /\ wire # <<>> => wire[1].c = cmd
    /\ mq \in {"sub", "subPoll"} => cmd = "SUB"
    /\ mq = "prompt" => cmd = "PUBEX"
    /\ mq \in {"msg", "pubPoll"} => cmd = "MSG"
    /\ mq \in {"conn", "connPoll", "connPoll2"} => cmd = "CONN"
    /\ cmd = "CONN" => mq \in {"conn", "connPoll", "connPoll2", "end1", "end2", "end3"}
    /\ wire # <<>> /\ cmd = "CLOSE" => mq = "close"
    /\ wire # <<>> /\ cmd = "DISC" => mq = "disc"
    /\ wire # <<>> /\ cmd = "CONN" => mq = "conn"

Base == IInv /\ CInv /\ TInv /\ Requests

\* What the LTE task may change of the port.
LEMMA LteFrame ==
    ASSUME Base, Lte
    PROVE  /\ wire = <<>> /\ UNCHANGED <<pipe, modemVars, ghostVars, mqVars>>
           /\ \A f \in {"open", "openTmp", "ret", "retTmp", "sent", "id"} : cl'[f] = cl[f]
           /\ cl'.up => cl.up
           /\ \/ UNCHANGED <<wire, cmd, cl>>
              \/ wire' = <<>> /\ cmd' \in {cmd, "IDLE"} /\ mq \in Between
              \/ /\ mq \in Between /\ cmd' \in LteCommands
                 /\ wire' = <<[c |-> cmd', id |-> 0]>>
<1> USE DEF Blind
<1>0. wire = <<>> /\ LteNext /\ UNCHANGED mqVars /\ cl \in Client
  BY DEF Lte, Ready, Base, TInv, ClType
<1>1. /\ ~Idle => mq \in Between
      /\ seq => mq \in Between
  BY DEF Base, IInv, OneSequence
<1>2. {"RESET", "QRESET", "CGMR", "CGSN", "CGMI", "CGMM", "QPWR", "AT", "ATE0"}
        \subseteq LteCommands
  BY DEF LteCommands, MqttCommands, Commands
<1> DEFINE Same == \A f \in {"open", "openTmp", "ret", "retTmp", "sent", "id"} : cl'[f] = cl[f]
           Goes(c) == /\ UNCHANGED <<pipe, modemVars, ghostVars>>
                      /\ wire' = <<[c |-> c, id |-> 0]>> /\ cmd' = c
<1>3. ASSUME NEW run, NEW c \in LteCommands, Begin(run, c)
      PROVE  Goes(c) /\ UNCHANGED cl /\ mq \in Between /\ cmd' \in LteCommands
  BY <1>1, <1>3 DEF Begin, BeginSequence, SendFor
<1>4. ASSUME NEW k, NEW now, Finish(k, now), ~Idle
      PROVE  /\ UNCHANGED <<pipe, modemVars, ghostVars, wire>> /\ cmd' = "IDLE"
             /\ Same /\ (cl'.up => cl.up) /\ mq \in Between
  <2>1. cl' = [cl EXCEPT !.up = @ /\ k = 0] /\ EndSequence BY <1>4 DEF Finish
  <2>2. Same /\ (cl'.up => cl.up) BY <1>0, <2>1 DEF Client
  <2> QED BY <1>1, <1>4, <2>1, <2>2 DEF EndSequence
<1>5. CASE BeginReboot \/ BeginInfo \/ BeginConnect \/ BeginCheck
  BY <1>0, <1>2, <1>3, <1>5 DEF BeginReboot, BeginInfo, BeginConnect, BeginCheck
<1>6. CASE Pass
  BY <1>0, <1>6 DEF Pass, portVars, semVars
<1>7. CASE BlindStep
  <2>1. /\ lte.run \in {"reboot", "info"} /\ lte.i < Len(Blind[lte.run])
        /\ Send(Blind[lte.run][lte.i + 1]) /\ cl' = cl
    BY <1>7 DEF BlindStep
  <2>2. lte.i \in Nat BY DEF Base, TInv, LteType
  <2>3. Blind[lte.run][lte.i + 1] \in LteCommands
    <3>1. CASE lte.run = "reboot"
      <4>1. lte.i \in {0, 1} BY <2>1, <2>2, <3>1
      <4> QED BY <1>2, <3>1, <4>1
    <3>2. CASE lte.run = "info"
      <4>1. lte.i \in 0 .. 6 BY <2>1, <2>2, <3>2
      <4> QED BY <1>2, <3>2, <4>1
    <3> QED BY <2>1, <3>1, <3>2
  <2>4. ~Idle BY <2>1 DEF Idle
  <2> QED BY <1>0, <1>1, <2>1, <2>3, <2>4 DEF Send, SendFor
<1>8. CASE BlindEnd
  <2>1. EndSequence /\ cl' = cl /\ ~Idle BY <1>8 DEF BlindEnd, Idle
  <2> QED BY <1>0, <1>1, <2>1 DEF EndSequence
<1>9. CASE Await
  BY <1>0, <1>9 DEF Await, Answered
<1>10. CASE Advance
  <2> DEFINE c == Steps(lte.run)[lte.i + 1].c
  <2>1. InSteps /\ ~AtEnd /\ SendFor(c, 0) /\ cl' = cl
    BY <1>10 DEF Advance, AskFor, Send
  <2>2. c \in LteCommands BY <2>1, NextCommand DEF Base
  <2>3. ~Idle BY <2>1 DEF InSteps, Idle
  <2> HIDE DEF c
  <2> QED BY <1>0, <1>1, <2>1, <2>2, <2>3 DEF SendFor
<1>11. CASE Conclude \/ Unanswered
  <2>1. ~Idle BY <1>11 DEF Conclude, Unanswered, InSteps, Idle
  <2> QED BY <1>0, <1>4, <1>11, <2>1 DEF Conclude, Unanswered
<1> QED BY <1>0, <1>5, <1>6, <1>7, <1>8, <1>9, <1>10, <1>11 DEF LteNext

LEMMA RequestsInit == Init => Requests
BY DEF Init, PortInit, LteInit, MqttInit, Requests

LEMMA MqttRequests == ASSUME Base, Mqtt PROVE Requests'
<1>0. wire = <<>> /\ MqttNext /\ Requests BY DEF Mqtt, Ready, Base
<1>1. CASE Reconnect \/ PassDown \/ PassUp \/ CheckUp \/ Retransmitted
  BY <1>0, <1>1 DEF Reconnect, PassDown, PassUp, CheckUp, Retransmitted, portVars, semVars,
                    Requests
<1>2. CASE Disconnect \/ Configure \/ Subscribe \/ Publish \/ Sleep
  <2>1. \/ \E id : First("DISC", id, "disc")
        \/ \E id : First("CFG", id, "cfg")
        \/ \E id : First("SUB", id, "sub")
        \/ \E id : First("PUBEX", id, "prompt")
        \/ \E id : First("QSCLK", id, "sleeping")
    BY <1>2 DEF Disconnect, Configure, Subscribe, Publish, Sleep
  <2> QED BY <2>1 DEF First, BeginSequence, SendFor, Requests
<1>3. CASE DisconnectHeard \/ OpenHeard \/ ConnectHeard \/ SubscribeHeard \/ PayloadHeard
  BY <1>0, <1>3 DEF DisconnectHeard, OpenHeard, ConnectHeard, SubscribeHeard, PayloadHeard,
                    Wait, Answered, Requests
<1>4. CASE Close \/ Connect \/ Payload
  BY <1>4 DEF Close, Connect, Payload, Later, Send, SendFor, Requests
<1>5. CASE Open
  <2>1. CASE mq' = "open" /\ UNCHANGED <<cmd, wire>>
    BY <1>0, <1>5, <2>1 DEF Open, Requests
  <2>2. CASE Later("OPEN", "open")
    BY <2>2 DEF Later, Send, SendFor, Requests
  <2> QED BY <1>5, <2>1, <2>2 DEF Open
<1>6. CASE SkipClose \/ NotOpened \/ NoAnswer \/ Concluded
  BY <1>0, <1>6 DEF SkipClose, NotOpened, Opened, NoAnswer, Concluded, semVars, Requests
<1>7. CASE Disconnected \/ MakeEnd \/ SubscribeEnd \/ PublishEnd \/ Asleep
  <2>1. EndSequence /\ mq' \in Between
    BY <1>7 DEF Disconnected, MakeEnd, SubscribeEnd, Settled, PublishEnd, Asleep, End, Between
  <2> QED BY <1>0, <2>1 DEF EndSequence, Between, Requests
<1> QED BY <1>0, <1>1, <1>2, <1>3, <1>4, <1>5, <1>6, <1>7 DEF MqttNext

LEMMA RequestsStep == ASSUME Base, [Next]_vars PROVE Requests'
<1>0. Requests BY DEF Base
<1>1. CASE Modem
  BY <1>0, <1>1 DEF Modem, Hear, HearFault, mqVars, Requests
<1>2. CASE Parser
  BY <1>0, <1>2 DEF Parser, Deliver, Parse, mqVars, Requests
<1>3. CASE Reports \/ Trouble
  <2>1. UNCHANGED <<wire, cmd, mq>>
    BY <1>3 DEF Reports, Report, ReportOpen, ReportConn, ReportOwed, Trouble, Stray, Parse,
                ReportFault, ReportTo, ReportOn, semVars, mqVars
  <2> QED BY <1>0, <2>1 DEF Requests
<1>4. CASE Lte
  <2>1. mq' = mq BY <1>4, LteFrame DEF mqVars
  <2> QED BY <1>0, <1>4, <2>1, LteFrame DEF Requests, Between, LteCommands, MqttCommands
<1>5. CASE Mqtt BY <1>5, MqttRequests
<1>6. CASE Other \/ UNCHANGED vars
  BY <1>0, <1>6 DEF Other, RequestReconnect, vars, portVars, semVars, mqVars, Requests
<1> QED BY <1>1, <1>2, <1>3, <1>4, <1>5, <1>6 DEF Next

\* What the theorems below rest on, whatever is on its way.
LEMMA BaseInit == Init => Base
BY InitHolds, CInitHolds, TypesInit, RequestsInit DEF Base

LEMMA BaseStep == Base /\ [Next]_vars => Base'
<1> SUFFICES ASSUME Base, [Next]_vars PROVE Base'
  OBVIOUS
<1> QED BY StepHolds, CStepHolds, TypesStep, RequestsStep DEF Base

(***************************************************************************)
(* How the lines on their way change.                                      *)
(***************************************************************************)
LEMMA Appended ==
    ASSUME PipeType, NEW ls \in Seq(Lines), Answer(ls)
    PROVE  /\ Len(pipe') = Len(pipe) + Len(ls) /\ Len(pipe) \in Nat /\ Len(ls) \in Nat
           /\ \A j \in 1 .. Len(pipe) : j \in 1 .. Len(pipe') /\ pipe'[j] = pipe[j]
           /\ \A j \in 1 .. Len(ls) :
                  Len(pipe) + j \in 1 .. Len(pipe') /\ pipe'[Len(pipe) + j] = ls[j]
           /\ \A j \in 1 .. Len(pipe') :
                  j \in 1 .. Len(pipe) \/ \E i \in 1 .. Len(ls) : j = Len(pipe) + i
<1>1. pipe \in Seq(Lines) /\ pipe' = pipe \o ls BY DEF PipeType, Answer
<1>2. Len(pipe') = Len(pipe) + Len(ls) /\ Len(pipe) \in Nat /\ Len(ls) \in Nat
  BY <1>1
<1>3. \A j \in 1 .. Len(pipe) : j \in 1 .. Len(pipe') /\ pipe'[j] = pipe[j]
  BY <1>1, <1>2
<1>4. ASSUME NEW j \in 1 .. Len(ls)
      PROVE  Len(pipe) + j \in 1 .. Len(pipe') /\ pipe'[Len(pipe) + j] = ls[j]
  BY <1>1, <1>2
<1>5. ASSUME NEW j \in 1 .. Len(pipe'), j \notin 1 .. Len(pipe)
      PROVE  \E i \in 1 .. Len(ls) : j = Len(pipe) + i
  <2>1. j - Len(pipe) \in 1 .. Len(ls) /\ j = Len(pipe) + (j - Len(pipe)) BY <1>2, <1>5
  <2> QED BY <2>1
<1> QED BY <1>2, <1>3, <1>4, <1>5

LEMMA Taken ==
    ASSUME PipeType, pipe # <<>>, pipe' = Tail(pipe)
    PROVE  /\ 1 \in 1 .. Len(pipe) /\ Head(pipe) = pipe[1] /\ Head(pipe) \in Lines
           /\ \A j \in 1 .. Len(pipe') : j + 1 \in 1 .. Len(pipe) /\ pipe'[j] = pipe[j + 1]
           /\ \A j \in 1 .. Len(pipe) :
                  j # 1 => j - 1 \in 1 .. Len(pipe') /\ pipe'[j - 1] = pipe[j]
BY DEF PipeType

LEMMA OneAppended ==
    ASSUME PipeType, NEW l \in Lines, Answer(<<l>>)
    PROVE  /\ Len(pipe') = Len(pipe) + 1 /\ Len(pipe) \in Nat /\ pipe'[Len(pipe')] = l
           /\ \A j \in 1 .. Len(pipe) : j \in 1 .. Len(pipe') /\ pipe'[j] = pipe[j]
           /\ \A j \in 1 .. Len(pipe') : j \in 1 .. Len(pipe) \/ j = Len(pipe')
<1>1. <<l>> \in Seq(Lines) /\ Len(<<l>>) = 1 /\ <<l>>[1] = l OBVIOUS
<1>2. \A i \in 1 .. Len(<<l>>) : i = 1 BY <1>1
<1>3. 1 \in 1 .. Len(<<l>>) BY <1>1
<1> QED BY <1>1, <1>2, <1>3, Appended

\* The modem has answered ls: nothing about messages or connections, and if
\* that was the end of the session it says so, unless it was asked for it or
\* was reset.
AnsweredBy(ls) ==
    /\ ls \in Seq(Lines) /\ Answer(ls)
    /\ \A i \in 1 .. Len(ls) : ls[i].k \notin {"sub", "pub", "conn"}
    /\ link = "connected" =>
           \/ link' = "connected" \/ misled' \/ wire[1].c \in {"CLOSE", "DISC"}
           \/ \E i \in 1 .. Len(ls) : ls[i].k = "stat"

LEMMA OneAnswer ==
    ASSUME NEW l \in Lines, l.k \notin {"sub", "pub", "conn"}, Answer(<<l>>),
           link = "connected" => link' = "connected" \/ misled' \/ wire[1].c \in {"CLOSE", "DISC"}
    PROVE  \E ls : AnsweredBy(ls)
<1>1. <<l>> \in Seq(Lines) /\ Len(<<l>>) = 1 /\ <<l>>[1] = l OBVIOUS
<1>2. AnsweredBy(<<l>>) BY <1>1 DEF AnsweredBy
<1> QED BY <1>2

LEMMA TwoAnswers ==
    ASSUME NEW a \in Lines, NEW b \in Lines, a.k \notin {"sub", "pub", "conn"},
           b.k \notin {"sub", "pub", "conn"}, Answer(<<a, b>>),
           link = "connected" => link' = "connected" \/ a.k = "stat"
    PROVE  \E ls : AnsweredBy(ls)
<1>1. /\ <<a, b>> \in Seq(Lines) /\ Len(<<a, b>>) = 2
      /\ <<a, b>>[1] = a /\ <<a, b>>[2] = b
  OBVIOUS
<1>2. 1 \in 1 .. 2 /\ \A i \in 1 .. 2 : i = 1 \/ i = 2 OBVIOUS
<1>3. AnsweredBy(<<a, b>>) BY <1>1, <1>2 DEF AnsweredBy
<1> QED BY <1>3

LEMMA NoAnswers ==
    ASSUME PipeType, UNCHANGED <<pipe, link>>
    PROVE  \E ls : AnsweredBy(ls)
<1>1. <<>> \in Seq(Lines) /\ Len(<<>>) = 0 /\ pipe' = pipe \o <<>> BY DEF PipeType
<1>2. AnsweredBy(<<>>) BY <1>1 DEF AnsweredBy, Answer
<1> QED BY <1>2

LEMMA PlainKinds ==
    /\ Ok.k = "OK" /\ Error.k = "ERROR" /\ Stat.k = "stat"
    /\ Line("prompt", "none", 0).k = "prompt"
    /\ \A c \in DOMAIN Query, r \in {"ok", "fail"} :
           Line(Query[c], r, 0).k \notin {"sub", "pub", "conn"}
BY DEF Ok, Error, Stat, Line, Query

LEMMA ModemFrame ==
    ASSUME TInv, Modem
    PROVE  /\ wire # <<>> /\ wire' = <<>> /\ UNCHANGED <<cmd, cl, lteVars, mqVars>>
           /\ NewRequest /\ (misled => misled')
           /\ \E ls : AnsweredBy(ls)
<1>1. /\ wire # <<>> /\ wire' = <<>> /\ UNCHANGED <<cmd, cl, lteVars, mqVars>>
      /\ NewRequest /\ (misled => misled')
  <2>1. CASE Hear BY <2>1 DEF Modem, Hear
  <2>2. CASE HearFault BY <2>2 DEF Modem, HearFault
  <2> QED BY <2>1, <2>2 DEF Modem
<1> SUFFICES \E ls : AnsweredBy(ls)
  BY <1>1
<1>2. PICK w \in [c : Commands, id : Ids] : wire = <<w>> BY <1>1 DEF TInv, Wires
<1>3. wire[1].c = w.c BY <1>2
<1>4. CASE HearFault
  <2>1. UNCHANGED <<link, misled>> BY <1>4 DEF HearFault, modemVars
  <2>2. CASE Answer(<<Error>>) BY <2>1, <2>2, OneAnswer, PlainLines, PlainKinds
  <2>3. ASSUME NEW c \in DOMAIN Query, Answer(<<Line(Query[c], "fail", 0), Ok>>)
        PROVE  \E ls : AnsweredBy(ls)
    <3>1. /\ Line(Query[c], "fail", 0) \in Lines
          /\ Line(Query[c], "fail", 0).k \notin {"sub", "pub", "conn"}
      BY PlainLines, PlainKinds
    <3> QED BY <2>1, <2>3, <3>1, TwoAnswers, PlainLines, PlainKinds
  <2>4. CASE UNCHANGED pipe BY <2>1, <2>4, NoAnswers DEF TInv
  <2> QED BY <1>4, <2>2, <2>3, <2>4 DEF HearFault
<1>5. CASE Hear
  <2>1. misled' = (misled \/ (link = "connected" /\ w.c = "RESET")) BY <1>3, <1>5 DEF Hear
  <2>2. CASE Swallow
    BY <2>2, OneAnswer, PlainLines, PlainKinds DEF Swallow
  <2>3. CASE Understand
    <3>1. CASE w.c \in DOMAIN Query /\ UNCHANGED link /\ Answer(<<Line(Query[w.c], "ok", 0), Ok>>)
      <4>1. /\ Line(Query[w.c], "ok", 0) \in Lines
            /\ Line(Query[w.c], "ok", 0).k \notin {"sub", "pub", "conn"}
        BY <3>1, PlainLines, PlainKinds
      <4> QED BY <3>1, <4>1, TwoAnswers, PlainLines, PlainKinds
    <3>2. CASE Detach
      <4>1. CASE link = "closed" /\ Answer(<<Ok>>)
        BY <4>1, OneAnswer, PlainLines, PlainKinds
      <4>2. CASE Answer(<<Stat, Ok>>)
        BY <4>2, TwoAnswers, PlainLines, PlainKinds
      <4> QED BY <3>2, <4>1, <4>2 DEF Detach
    <3>3. CASE w.c = "RESET" /\ Answer(<<Ok>>)
      BY <2>1, <3>3, OneAnswer, PlainLines, PlainKinds
    <3>4. CASE \E from, to :
                   /\ Accept(from, w.c, to)
                   /\ "connected" \in from => w.c \in {"CLOSE", "DISC"}
      <4>1. Answer(<<Ok>>) \/ Answer(<<Error>>) BY <3>4 DEF Accept
      <4>2. link = "connected" => link' = "connected" \/ w.c \in {"CLOSE", "DISC"}
        BY <3>4 DEF Accept, Move
      <4> QED BY <1>3, <4>1, <4>2, OneAnswer, PlainLines, PlainKinds
    <3>5. CASE UNCHANGED link /\ \E l \in {Ok, Error, Line("prompt", "none", 0)} : Answer(<<l>>)
      BY <3>5, OneAnswer, PlainLines, PlainKinds
    <3>6. CASE UNCHANGED <<pipe, link>> BY <3>6, NoAnswers DEF TInv
    <3>7. \/ w.c \in DOMAIN Query /\ UNCHANGED link /\ Answer(<<Line(Query[w.c], "ok", 0), Ok>>)
          \/ Detach
          \/ w.c = "RESET" /\ Answer(<<Ok>>)
          \/ Accept({"opening", "open", "connecting", "connected"}, "CLOSE", "closed")
          \/ Accept({"closed"}, "OPEN", "opening")
          \/ Accept({"open"}, "CONN", "connecting")
          \/ Accept({"connected"}, "DISC", "closed")
          \/ UNCHANGED link /\ (Answer(<<Ok>>) \/ Answer(<<Error>>)
                                \/ Answer(<<Line("prompt", "none", 0)>>))
          \/ UNCHANGED <<pipe, link>>
      BY <1>3, <2>3, Zenon DEF Understand
    <3>8. CASE Accept({"opening", "open", "connecting", "connected"}, "CLOSE", "closed")
      <4>1. w.c = "CLOSE" BY <1>3, <3>8 DEF Accept
      <4> QED BY <3>4, <3>8, <4>1
    <3>9. CASE Accept({"closed"}, "OPEN", "opening")
      <4>1. w.c = "OPEN" BY <1>3, <3>9 DEF Accept
      <4>2. "connected" \notin {"closed"} OBVIOUS
      <4> QED BY <3>4, <3>9, <4>1, <4>2
    <3>10. CASE Accept({"open"}, "CONN", "connecting")
      <4>1. w.c = "CONN" BY <1>3, <3>10 DEF Accept
      <4>2. "connected" \notin {"open"} OBVIOUS
      <4> QED BY <3>4, <3>10, <4>1, <4>2
    <3>11. CASE Accept({"connected"}, "DISC", "closed")
      <4>1. w.c = "DISC" BY <1>3, <3>11 DEF Accept
      <4> QED BY <3>4, <3>11, <4>1
    <3> QED BY <3>1, <3>2, <3>3, <3>5, <3>6, <3>7, <3>8, <3>9, <3>10, <3>11
  <2> QED BY <1>5, <2>2, <2>3 DEF Hear
<1> QED BY <1>1, <1>4, <1>5 DEF Modem

(***************************************************************************)
(* The result a message is given is its own.                               *)
(***************************************************************************)
\* The good results of the message in progress that the parser has yet to
\* read, and the one it has stored, are the broker's to this very message;
\* none is there before the modem has read the request.
AckInv ==
    /\ \A j \in 1 .. Len(pipe) : IsOwn(pipe[j]) /\ pipe[j].r = "ok" => acked
    /\ wire # <<>> /\ cmd \in {"SUB", "PUBEX"} => ~ResultComing(cl.id) /\ cl.sent = "none"
    /\ AckIsOwn

LEMMA AckInit == Init => AckInv
BY DEF Init, PortInit, MqttInit, AckInv, AckIsOwn

\* A task leaves what the modem has said alone; it keeps the number of the
\* message and at most forgets its result.
LEMMA SameMessage ==
    ASSUME AckInv, UNCHANGED <<pipe, modemVars, ghostVars>>, cl'.id = cl.id,
           cl'.sent \in {cl.sent, "none"},
           mq' \in {"prompt", "msg", "pubPoll", "sub", "subPoll"} =>
               mq \in {"prompt", "msg", "pubPoll", "sub", "subPoll"},
           wire' # <<>> => cmd' \notin {"SUB", "PUBEX"}
    PROVE  AckInv'
BY DEF AckInv, AckIsOwn, IsOwn, ghostVars

\* A new one.
LEMMA NewMessage ==
    ASSUME Base, AckInv, NextMessage, UNCHANGED <<pipe, modemVars, ghostVars>>,
           cl'.id # cl.id => ~ResultComing(cl'.id)
    PROVE  AckInv'
<1>1. cl'.id = NextId /\ cl'.sent = "none" BY DEF NextMessage, Base, TInv, ClType, Client
<1>2. NextId # cl.id
  <2>1. cl.id \in 0 .. MsgIds BY DEF Base, TInv, ClType, Client, Ids
  <2>2. CASE cl.id = MsgIds
    <3>1. NextId = 1 BY <2>2, MqttAssumption DEF NextId
    <3> QED BY <2>2, <3>1, MqttAssumption
  <2>3. CASE cl.id < MsgIds
    <3>1. NextId = cl.id + 1 BY <2>1, <2>3, MqttAssumption DEF NextId
    <3> QED BY <2>1, <3>1, MqttAssumption
  <2> QED BY <2>1, <2>2, <2>3, MqttAssumption
<1>3. ~ResultComing(cl'.id) BY <1>1, <1>2
<1>4. ~ResultComing(cl.id)' BY <1>3 DEF ResultComing, modemVars
<1>5. \A j \in 1 .. Len(pipe') : ~IsOwn(pipe[j])' BY <1>4 DEF ResultComing, IsOwn
<1> QED BY <1>1, <1>4, <1>5 DEF AckInv, AckIsOwn

LEMMA MqttAck ==
    ASSUME Base, AckInv, Mqtt, cl'.id # cl.id => ~ResultComing(cl'.id)
    PROVE  AckInv'
<1>0. wire = <<>> /\ MqttNext /\ cl \in Client BY DEF Mqtt, Ready, Base, TInv, ClType
<1>1. CASE Reconnect \/ PassDown \/ PassUp \/ CheckUp \/ Retransmitted
  <2>1. /\ UNCHANGED <<pipe, modemVars, ghostVars, wire, cl>>
        /\ mq' \notin {"prompt", "msg", "pubPoll", "sub", "subPoll"}
    BY <1>1 DEF Reconnect, PassDown, PassUp, CheckUp, Retransmitted, portVars
  <2> QED BY <1>0, <2>1, SameMessage
<1>2. CASE Disconnect \/ Configure \/ Sleep
  <2>1. PICK c \in {"DISC", "CFG", "QSCLK"} :
            \E p \in {"disc", "cfg", "sleeping"} : First(c, 0, p) /\ UNCHANGED cl
    BY <1>2 DEF Disconnect, Configure, Sleep
  <2>2. /\ UNCHANGED <<pipe, modemVars, ghostVars, cl>> /\ cmd' = c
        /\ mq' \in {"disc", "cfg", "sleeping"}
    BY <2>1 DEF First, BeginSequence, SendFor
  <2> QED BY <2>2, SameMessage
<1>3. CASE Subscribe \/ Publish
  <2>1. NextMessage /\ UNCHANGED <<pipe, modemVars, ghostVars>>
    BY <1>3 DEF Subscribe, Publish, First, BeginSequence, SendFor
  <2> QED BY <2>1, NewMessage
<1>4. CASE DisconnectHeard \/ OpenHeard \/ ConnectHeard \/ SubscribeHeard \/ PayloadHeard
  <2>1. /\ UNCHANGED <<pipe, modemVars, ghostVars, wire, cl>>
        /\ mq' \in {"subPoll", "pubPoll"} => mq \in {"sub", "msg"}
        /\ mq' \in {"discAgain", "openPoll", "connPoll", "subPoll", "pubPoll"}
    BY <1>4 DEF DisconnectHeard, OpenHeard, ConnectHeard, SubscribeHeard, PayloadHeard,
                Wait, Answered
  <2> QED BY <1>0, <2>1, SameMessage
<1>5. CASE Close \/ Payload
  <2>1. /\ UNCHANGED <<pipe, modemVars, ghostVars, cl>> /\ cmd' \in {"CLOSE", "MSG"}
        /\ mq' = "msg" => mq = "prompt"
        /\ mq' \in {"close", "msg"}
    BY <1>5 DEF Close, Payload, Later, Send, SendFor
  <2> QED BY <2>1, SameMessage
<1>6. CASE Open
  <2>1. CASE UNCHANGED <<pipe, modemVars, ghostVars, wire, cl>> /\ mq' = "open"
    BY <1>0, <2>1, SameMessage
  <2>2. CASE cl' = [cl EXCEPT !.openTmp = "none"] /\ Later("OPEN", "open")
    <3>1. cl'.id = cl.id /\ cl'.sent = cl.sent BY <1>0, <2>2 DEF Client
    <3>2. UNCHANGED <<pipe, modemVars, ghostVars>> /\ cmd' = "OPEN" /\ mq' = "open"
      BY <2>2 DEF Later, Send, SendFor
    <3> QED BY <3>1, <3>2, SameMessage
  <2> QED BY <1>6, <2>1, <2>2 DEF Open
<1>7. CASE Connect
  <2>1. cl'.id = cl.id /\ cl'.sent = "none" BY <1>0, <1>7 DEF Connect, Client
  <2>2. UNCHANGED <<pipe, modemVars, ghostVars>> /\ cmd' = "CONN" /\ mq' = "conn"
    BY <1>7 DEF Connect, Later, Send, SendFor
  <2> QED BY <2>1, <2>2, SameMessage
<1>8. CASE SkipClose \/ NotOpened \/ NoAnswer \/ Concluded
  <2>1. cl'.id = cl.id /\ cl'.sent = cl.sent
    BY <1>0, <1>8 DEF SkipClose, NotOpened, NoAnswer, Concluded, Client
  <2>2. /\ UNCHANGED <<pipe, modemVars, ghostVars, wire>>
        /\ mq' \in {"close", "end1", "end2", "end3"}
    BY <1>8 DEF SkipClose, NotOpened, NoAnswer, Concluded
  <2> QED BY <1>0, <2>1, <2>2, SameMessage
<1>9. CASE Disconnected \/ MakeEnd \/ SubscribeEnd \/ PublishEnd \/ Asleep
  <2>1. EndSequence /\ mq' \in Between
    BY <1>9 DEF Disconnected, MakeEnd, SubscribeEnd, Settled, PublishEnd, Asleep, End, Between
  <2>2. UNCHANGED <<pipe, modemVars, ghostVars, wire>> BY <2>1 DEF EndSequence
  <2>3. cl'.id = cl.id /\ cl'.sent \in {cl.sent, "none"}
    BY <1>0, <1>9 DEF Disconnected, MakeEnd, SubscribeEnd, PublishEnd, Asleep, Client
  <2> QED BY <1>0, <2>1, <2>2, <2>3, SameMessage DEF Between
<1> QED BY <1>0, <1>1, <1>2, <1>3, <1>4, <1>5, <1>6, <1>7, <1>8, <1>9 DEF MqttNext

\* The parser: it stores a result of the message from a line of its own, and
\* one of a connection only while that is asked for.
LEMMA ParseSent ==
    ASSUME Base, NEW l \in Lines, Parse(l)
    PROVE  /\ cl'.id = cl.id
           /\ \/ cl'.sent = cl.sent
              \/ IsOwn(l) /\ cl'.sent = l.r
              \/ l.k = "conn" /\ cmd = "CONN" /\ cl'.sent = ReadSent(l.r)
BY DEF Parse, ParseSession, IsDown, Base, TInv, ClType, Client

LEMMA ParserAck == ASSUME Base, AckInv, Parser PROVE AckInv'
<1>1. /\ pipe # <<>> /\ Parse(Head(pipe)) /\ pipe' = Tail(pipe) /\ mq' = mq
      /\ UNCHANGED <<cmd, wire, modemVars, acked>>
  BY DEF Parser, Deliver, Parse, mqVars
<1> DEFINE l == Head(pipe)
<1>2. PipeType BY DEF Base, TInv
<1>3. /\ 1 \in 1 .. Len(pipe) /\ l = pipe[1] /\ l \in Lines
      /\ \A j \in 1 .. Len(pipe') : j + 1 \in 1 .. Len(pipe) /\ pipe'[j] = pipe[j + 1]
  BY <1>1, <1>2, Taken
<1> HIDE DEF l
<1>4. cl'.id = cl.id /\ (cl'.sent = cl.sent \/ (IsOwn(l) /\ cl'.sent = l.r) \/ cmd = "CONN")
  BY <1>1, <1>3, ParseSent DEF l
<1>5. ASSUME NEW j \in 1 .. Len(pipe'), IsOwn(pipe[j])', pipe'[j].r = "ok" PROVE acked'
  <2>1. IsOwn(pipe[j + 1]) /\ pipe[j + 1].r = "ok" BY <1>3, <1>4, <1>5 DEF IsOwn
  <2> QED BY <1>1, <1>3, <2>1 DEF AckInv
<1>6. ResultComing(cl.id)' => ResultComing(cl.id)
  BY <1>1, <1>3, <1>4 DEF ResultComing, modemVars
<1>7. ASSUME wire' # <<>>, cmd' \in {"SUB", "PUBEX"}
      PROVE  ~ResultComing(cl.id)' /\ cl'.sent = "none"
  <2>1. ~ResultComing(cl.id) /\ cl.sent = "none" BY <1>1, <1>7 DEF AckInv
  <2>2. ~IsOwn(l) BY <1>3, <2>1 DEF ResultComing, IsOwn
  <2> QED BY <1>1, <1>4, <1>6, <1>7, <2>1, <2>2
<1>8. AckIsOwn'
  <2>1. SUFFICES ASSUME mq \in {"prompt", "msg", "pubPoll", "sub", "subPoll"}, cl'.sent = "ok"
                 PROVE  acked
    BY <1>1 DEF AckIsOwn
  <2>2. cmd # "CONN" BY <2>1 DEF Base, Requests
  <2>3. CASE cl'.sent = cl.sent BY <2>1, <2>3 DEF AckInv, AckIsOwn
  <2>4. CASE IsOwn(l) /\ cl'.sent = l.r BY <1>3, <2>1, <2>4 DEF AckInv
  <2> QED BY <1>4, <2>2, <2>3, <2>4
<1> QED BY <1>5, <1>7, <1>8 DEF AckInv

LEMMA ModemAck == ASSUME Base, AckInv, Modem PROVE AckInv'
<1>1. /\ wire # <<>> /\ wire' = <<>> /\ UNCHANGED <<cmd, cl, mqVars>> /\ NewRequest
  BY ModemFrame DEF Base
<1>2. PICK ls : AnsweredBy(ls) BY ModemFrame DEF Base
<1>3. PipeType BY DEF Base, TInv
<1>4. /\ \A j \in 1 .. Len(ls) : pipe'[Len(pipe) + j] = ls[j]
      /\ \A j \in 1 .. Len(pipe) : pipe'[j] = pipe[j]
      /\ \A j \in 1 .. Len(pipe') :
             j \in 1 .. Len(pipe) \/ \E i \in 1 .. Len(ls) : j = Len(pipe) + i
  BY <1>2, <1>3, Appended DEF AnsweredBy
<1>5. acked' = (acked /\ cmd \notin {"SUB", "PUBEX"})
  BY <1>1 DEF NewRequest, Base, Requests
<1>6. ASSUME NEW j \in 1 .. Len(pipe'), IsOwn(pipe[j])'
      PROVE  j \in 1 .. Len(pipe) /\ IsOwn(pipe[j]) /\ pipe'[j] = pipe[j]
  <2>1. \A i \in 1 .. Len(ls) : ls[i].k \notin {"sub", "pub"} BY <1>2 DEF AnsweredBy
  <2>2. pipe'[j].k \in {"sub", "pub"} BY <1>6 DEF IsOwn
  <2>3. j \in 1 .. Len(pipe) BY <1>4, <2>1, <2>2
  <2> QED BY <1>1, <1>4, <1>6, <2>3 DEF IsOwn
<1>7. CASE cmd \in {"SUB", "PUBEX"}
  <2>1. ~ResultComing(cl.id) /\ cl.sent = "none" BY <1>1, <1>7 DEF AckInv
  <2>2. \A j \in 1 .. Len(pipe) : ~IsOwn(pipe[j]) BY <2>1 DEF ResultComing, IsOwn
  <2>3. \A j \in 1 .. Len(pipe') : ~IsOwn(pipe[j])' BY <1>6, <2>2
  <2> QED BY <1>1, <2>1, <2>3 DEF AckInv, AckIsOwn
<1>8. CASE cmd \notin {"SUB", "PUBEX"}
  <2>1. \A j \in 1 .. Len(pipe') : IsOwn(pipe[j])' /\ pipe'[j].r = "ok" => acked'
    BY <1>5, <1>6, <1>8 DEF AckInv
  <2>2. AckIsOwn' BY <1>1, <1>5, <1>8 DEF AckInv, AckIsOwn, mqVars
  <2> QED BY <1>1, <2>1, <2>2 DEF AckInv
<1> QED BY <1>7, <1>8

\* A line is added, an own good one only with the broker's acknowledgement.
LEMMA LineAck ==
    ASSUME Base, AckInv, wire = <<>>, UNCHANGED <<wire, cl, mq>>, NEW l \in Lines, Answer(<<l>>),
           acked => acked', IsOwn(l) /\ l.r = "ok" => acked'
    PROVE  AckInv'
<1>1. PipeType BY DEF Base, TInv
<1>2. \A j \in 1 .. Len(pipe') : IsOwn(pipe[j])' /\ pipe'[j].r = "ok" => acked'
  BY <1>1, OneAppended DEF AckInv, IsOwn
<1>3. AckIsOwn' BY DEF AckInv, AckIsOwn
<1> QED BY <1>2, <1>3 DEF AckInv

LEMMA ReportsAck == ASSUME Base, AckInv, Reports PROVE AckInv'
<1>0. wire = <<>> /\ mq' = mq /\ Report BY DEF Reports, Ready, mqVars
<1>1. CASE ReportOpen
  <2>1. Line("open", "ok", 0) \in Lines /\ Line("open", "ok", 0).k = "open"
    BY PlainLines, Zero DEF Line
  <2> QED BY <1>0, <1>1, <2>1, LineAck DEF ReportOpen, ReportTo, IsOwn
<1>2. CASE ReportConn
  <2>1. Line("conn", "accepted", 0) \in Lines /\ Line("conn", "accepted", 0).k = "conn"
    BY PlainLines DEF Line
  <2> QED BY <1>0, <1>2, <2>1, LineAck DEF ReportConn, ReportTo, IsOwn
<1>3. CASE ReportOwed
  <2>1. PICK o \in owed : ReportOn(o, "ok") /\ acked' = (acked \/ o.id = cl.id)
    BY <1>3 DEF ReportOwed
  <2>2. o \in Owed BY DEF Base, TInv, ModType
  <2>3. Line(o.k, "ok", o.id) \in Lines /\ Line(o.k, "ok", o.id).id = o.id
    BY <2>2, PlainLines DEF Owed, Line
  <2> QED BY <1>0, <2>1, <2>3, LineAck DEF ReportOn, IsOwn
<1> QED BY <1>0, <1>1, <1>2, <1>3 DEF Report

LEMMA TroubleAck == ASSUME Base, AckInv, Trouble PROVE AckInv'
<1>0. wire = <<>> /\ mq' = mq /\ (Stray \/ ReportFault) BY DEF Trouble, Ready, mqVars
<1>1. CASE Stray
  <2>1. Parse(Ok) /\ UNCHANGED <<pipe, wire, acked>> BY <1>1 DEF Stray, Parse
  <2>2. cl' = cl BY <2>1, PlainKinds DEF Parse, ParseSession, IsDown, IsOwn
  <2> QED BY <1>0, <2>1, <2>2 DEF AckInv, AckIsOwn, IsOwn
<1>2. CASE ReportFault
  <2>1. CASE \E l \in Lines, to \in {"closed", "connecting"} :
                 l.k \in {"open", "conn", "stat"} /\ ReportTo(l, to)
    <3>1. PICK l \in Lines, to \in {"closed", "connecting"} :
              l.k \in {"open", "conn", "stat"} /\ ReportTo(l, to)
      BY <2>1
    <3> QED BY <1>0, <1>2, <3>1, LineAck DEF ReportFault, ReportTo, IsOwn
  <2>2. CASE \E o \in owed : ReportOn(o, "fail")
    <3>1. PICK o \in owed : ReportOn(o, "fail") BY <2>2
    <3>2. o \in Owed BY DEF Base, TInv, ModType
    <3>3. Line(o.k, "fail", o.id) \in Lines /\ Line(o.k, "fail", o.id).r = "fail"
      BY <3>2, PlainLines DEF Owed, Line
    <3> QED BY <1>0, <1>2, <3>1, <3>3, LineAck DEF ReportFault, ReportOn
  <2>3. /\ Line("open", "fail", 0).k = "open"
        /\ \A r : Line("conn", r, 0).k = "conn"
    BY DEF Line
  <2> QED BY <1>2, <2>1, <2>2, <2>3, PlainLines, PlainKinds, Zero DEF ReportFault
<1> QED BY <1>0, <1>1, <1>2

LEMMA AckStep == Base /\ AckInv /\ [Next]_vars /\ [NumberFresh]_vars => AckInv'
<1> SUFFICES ASSUME Base, AckInv, [Next]_vars, [NumberFresh]_vars PROVE AckInv'
  OBVIOUS
<1>1. CASE Modem BY <1>1, ModemAck
<1>2. CASE Parser BY <1>2, ParserAck
<1>3. CASE Reports BY <1>3, ReportsAck
<1>4. CASE Trouble BY <1>4, TroubleAck
<1>5. CASE Lte
  <2>1. /\ UNCHANGED <<pipe, modemVars, ghostVars, mq>> /\ wire = <<>>
        /\ cl'.id = cl.id /\ cl'.sent = cl.sent
        /\ wire' # <<>> => cmd' \in LteCommands
    BY <1>5, LteFrame DEF mqVars
  <2> QED BY <2>1, SameMessage DEF LteCommands, MqttCommands
<1>6. CASE Mqtt
  <2>1. cl'.id # cl.id => ~ResultComing(cl'.id)
    BY DEF NumberFresh, vars, portVars
  <2> QED BY <1>6, <2>1, MqttAck
<1>7. CASE Other \/ UNCHANGED vars
  <2>1. UNCHANGED <<portVars, mq>> BY <1>7 DEF Other, RequestReconnect, vars, mqVars
  <2> QED BY <2>1 DEF portVars, semVars, modemVars, ghostVars, AckInv, AckIsOwn, IsOwn,
                      ResultComing
<1> QED BY <1>1, <1>2, <1>3, <1>4, <1>5, <1>6, <1>7 DEF Next

\* The result a message is given is its own, if no message takes a number a
\* result of which is still on its way (RxRingProcess.c:2122, 2173): with
\* 2^32 numbers and a session's few messages under way, that is a matter of
\* the numbers beginning again at 1.
THEOREM AckIsOwnCorrect == Spec /\ [][NumberFresh]_vars => []AckIsOwn
<1>1. Base /\ AckInv => AckIsOwn BY DEF AckInv
<1>2. Init => Base /\ AckInv BY BaseInit, AckInit
<1>3. Base /\ AckInv /\ [Next]_vars /\ [NumberFresh]_vars => (Base /\ AckInv)'
  BY BaseStep, AckStep
<1> QED BY <1>1, <1>2, <1>3, PTL DEF Spec

(***************************************************************************)
(* The session counts as connected only if it is.                          *)
(***************************************************************************)
\* Where the MQTT task knows that the session is down, or drops it because
\* another task has asked for that, and where it has seen to that.
Dropping == {"drop", "disc", "discAgain"}
Making == {"make", "cfg", "close", "open", "openPoll"}

\* From position j on a line says that there is no session.
DownFrom(j) == \E i \in j .. Len(pipe) : pipe[i].k = "stat"

\* Line j says that a connection was accepted.
Accepts(j) == pipe[j].k = "conn" /\ pipe[j].r = "accepted"

\* An acceptance that the parser will believe is still true, or comes before
\* the report that it no longer is.
LinkInv ==
    /\ mq \in Dropping => dropping \/ ~cl.up
    /\ mq \in Making => ~cl.up
    /\ cmd = "CONN" /\ ~misled =>
           \A j \in 1 .. Len(pipe) : Accepts(j) => link = "connected" \/ DownFrom(j)
    /\ ConnectedIsReal

LEMMA LinkInit == Init => LinkInv
BY DEF Init, PortInit, MqttInit, NoClient, LinkInv, ConnectedIsReal, Dropping, Making

\* A task leaves the modem and its lines alone.
LEMMA SameLink ==
    ASSUME LinkInv, UNCHANGED <<pipe, link, misled>>, cl'.up => cl.up,
           cmd' = "CONN" => cmd = "CONN",
           mq' \in Dropping => dropping' \/ ~cl'.up,
           mq' \in Making => ~cl'.up,
           mq \in {"disc", "discAgain"} =>
               (mq' \in {"disc", "discAgain"} /\ dropping' = dropping) \/ ~cl'.up
    PROVE  LinkInv'
BY DEF LinkInv, ConnectedIsReal, SessionUp, Accepts, DownFrom

LEMMA LteLink == ASSUME Base, LinkInv, Lte PROVE LinkInv'
<1>1. /\ UNCHANGED <<pipe, link, misled, mq, dropping>> /\ (cl'.up => cl.up)
      /\ cmd' \in {cmd, "IDLE"} \/ cmd' \in LteCommands
  BY LteFrame DEF mqVars, taskVars, modemVars, ghostVars
<1>2. cmd' = "CONN" => cmd = "CONN" BY <1>1 DEF LteCommands, MqttCommands
<1> QED BY <1>1, <1>2, SameLink DEF LinkInv

LEMMA MqttLink ==
    ASSUME Base, LinkInv, Mqtt,
           cmd' = "CONN" /\ cmd # "CONN" => \A j \in 1 .. Len(pipe) : pipe[j].k # "conn"
    PROVE  LinkInv'
<1> USE DEF Dropping, Making
<1>0. MqttNext /\ cl \in Client /\ cl.up \in BOOLEAN BY DEF Mqtt, Base, TInv, ClType, Client
<1>1. CASE Reconnect \/ PassDown
  <2>1. /\ UNCHANGED <<pipe, link, misled, cl, cmd>> /\ mq = "loop" /\ mq' = "drop"
        /\ dropping' \/ ~cl.up
    BY <1>1 DEF Reconnect, PassDown, portVars, semVars, modemVars, ghostVars
  <2> QED BY <2>1, SameLink
<1>2. CASE PassUp \/ CheckUp \/ Retransmitted
  <2>1. /\ UNCHANGED <<pipe, link, misled, cl, cmd>> /\ mq \notin {"disc", "discAgain"}
        /\ mq' \notin Dropping \cup Making
    BY <1>2 DEF PassUp, CheckUp, Retransmitted, portVars, semVars, modemVars, ghostVars
  <2> QED BY <2>1, SameLink
<1>3. CASE Disconnect \/ Configure \/ Subscribe \/ Publish \/ Sleep
  <2>2. UNCHANGED <<pipe, link, misled, dropping>> /\ cmd' # "CONN"
    BY <1>3 DEF Disconnect, Configure, Subscribe, Publish, Sleep, First, BeginSequence,
                SendFor, modemVars, ghostVars, taskVars
  <2>3. cl'.up = cl.up
    BY <1>0, <1>3 DEF Disconnect, Configure, Subscribe, Publish, Sleep, NextMessage, Client
  <2>4. /\ mq \notin {"disc", "discAgain"}
        /\ mq' \in Dropping => mq = "drop" /\ mq' = "disc"
        /\ mq' \in Making => mq = "make"
    BY <1>3 DEF Disconnect, Configure, Subscribe, Publish, Sleep, First
  <2> QED BY <2>2, <2>3, <2>4, SameLink DEF LinkInv
<1>4. CASE DisconnectHeard \/ OpenHeard \/ ConnectHeard \/ SubscribeHeard \/ PayloadHeard
  <2>1. /\ UNCHANGED <<pipe, link, misled, cl, cmd, dropping>>
        /\ mq' \in Dropping => mq = "disc" /\ mq' = "discAgain"
        /\ mq' \in Making => mq = "open"
        /\ mq \in {"disc", "discAgain"} => mq' = "discAgain"
    BY <1>4 DEF DisconnectHeard, OpenHeard, ConnectHeard, SubscribeHeard, PayloadHeard,
                Wait, Answered, modemVars, ghostVars, taskVars
  <2> QED BY <2>1, SameLink DEF LinkInv
<1>5. CASE Close \/ Payload
  <2>1. /\ UNCHANGED <<pipe, link, misled, cl, dropping>> /\ cmd' # "CONN"
        /\ mq \notin {"disc", "discAgain"} /\ mq' \notin Dropping
        /\ mq' \in Making => mq \in Making
    BY <1>5 DEF Close, Payload, Later, Send, SendFor, modemVars, ghostVars, taskVars
  <2> QED BY <2>1, SameLink DEF LinkInv
<1>6. CASE Open
  <2>1. mq = "close" /\ mq' = "open" /\ UNCHANGED <<pipe, link, misled>> /\ cmd' \in {cmd, "OPEN"}
    BY <1>6 DEF Open, Later, Send, SendFor, modemVars, ghostVars
  <2>2. cl'.up = cl.up BY <1>0, <1>6 DEF Open, Client
  <2> QED BY <2>1, <2>2, SameLink DEF LinkInv
<1>7. CASE Connect
  <2>1. /\ mq = "openPoll" /\ mq' = "conn" /\ cmd' = "CONN" /\ pipe' = pipe
        /\ cl'.up = cl.up
    BY <1>0, <1>7 DEF Connect, Opened, Later, Send, SendFor, Client
  <2>2. cmd # "CONN" BY <2>1 DEF Base, Requests
  <2>3. \A j \in 1 .. Len(pipe') : ~Accepts(j)' BY <2>1, <2>2 DEF Accepts
  <2> QED BY <2>1, <2>3 DEF LinkInv, ConnectedIsReal
<1>8. CASE SkipClose \/ NotOpened \/ NoAnswer \/ Concluded
  <2>1. cl'.up = cl.up BY <1>0, <1>8 DEF SkipClose, NotOpened, NoAnswer, Concluded, Client
  <2>2. /\ UNCHANGED <<pipe, link, misled, cmd>> /\ mq \notin {"disc", "discAgain"}
        /\ mq' \notin Dropping /\ (mq' \in Making => mq = "cfg")
    BY <1>8 DEF SkipClose, NotOpened, Opened, NoAnswer, Concluded, semVars, modemVars, ghostVars
  <2> QED BY <2>1, <2>2, SameLink DEF LinkInv
<1>9. CASE Disconnected
  <2>1. /\ mq \in {"disc", "discAgain"} /\ mq' \in {"loop", "make"} /\ EndSequence
        /\ cl' = [cl EXCEPT !.open = "none", !.ret = "none", !.up = @ /\ ~dropping]
    BY <1>9 DEF Disconnected
  <2>2. ~cl'.up BY <1>0, <2>1 DEF LinkInv, Client
  <2>3. UNCHANGED <<pipe, link, misled>> /\ cmd' = "IDLE"
    BY <2>1 DEF EndSequence, modemVars, ghostVars
  <2> QED BY <2>1, <2>2, <2>3, SameLink
<1>10. CASE MakeEnd \/ SubscribeEnd \/ PublishEnd \/ Asleep
  <2>1. EndSequence /\ mq \notin {"disc", "discAgain"} /\ mq' \notin Dropping \cup Making
    BY <1>10 DEF MakeEnd, SubscribeEnd, Settled, PublishEnd, Asleep, End
  <2>2. cl'.up = cl.up BY <1>0, <1>10 DEF MakeEnd, SubscribeEnd, PublishEnd, Asleep, Client
  <2>3. UNCHANGED <<pipe, link, misled>> /\ cmd' = "IDLE"
    BY <2>1 DEF EndSequence, modemVars, ghostVars
  <2> QED BY <2>1, <2>2, <2>3, SameLink
<1> QED
  BY <1>0, <1>1, <1>2, <1>3, <1>4, <1>5, <1>6, <1>7, <1>8, <1>9, <1>10 DEF MqttNext

LEMMA ParseUp ==
    ASSUME Base, NEW l \in Lines, Parse(l)
    PROVE  cl'.up => \/ cl.up /\ l.k # "stat"
                     \/ l.k = "conn" /\ cmd = "CONN" /\ ReadCode(l.r) = "accepted"
<1>1. cl' = ParseSession(l) /\ cl \in Client BY DEF Parse, Base, TInv, ClType
<1>2. CASE l.k = "open" /\ cmd = "OPEN"
  <2>1. cl' = [cl EXCEPT !.openTmp = l.r]
    BY <1>1, <1>2 DEF ParseSession, IsDown, IsOwn
  <2> QED BY <1>1, <1>2, <2>1 DEF Client
<1>3. CASE l.k = "conn" /\ cmd = "CONN"
  <2>1. cl' = [cl EXCEPT !.sent = ReadSent(l.r), !.retTmp = ReadCode(l.r),
                         !.up = ReadCode(l.r) = "accepted"]
    BY <1>1, <1>3 DEF ParseSession, IsDown, IsOwn
  <2> QED BY <1>1, <1>3, <2>1 DEF Client
<1>4. CASE IsDown(l)
  <2>1. cl' = [cl EXCEPT !.up = FALSE]
    BY <1>1, <1>4 DEF ParseSession, IsDown, IsOwn
  <2> QED BY <1>1, <2>1 DEF Client
<1>5. CASE /\ ~(l.k = "open" /\ cmd = "OPEN") /\ ~(l.k = "conn" /\ cmd = "CONN")
           /\ ~IsDown(l)
  <2>1. cl' = cl \/ cl' = [cl EXCEPT !.sent = l.r]
    BY <1>1, <1>5 DEF ParseSession
  <2> QED BY <1>1, <1>5, <2>1 DEF Client, IsDown
<1> QED BY <1>2, <1>3, <1>4, <1>5

LEMMA ParserLink == ASSUME Base, LinkInv, Parser PROVE LinkInv'
<1> DEFINE l == Head(pipe)
<1>1. /\ pipe # <<>> /\ Parse(l) /\ pipe' = Tail(pipe)
      /\ UNCHANGED <<cmd, link, mq, dropping>>
      /\ misled' = (misled \/ (l.k = "conn" /\ cmd = "CONN" /\ l.r \in {"again", "fail"}))
  BY DEF Parser, Deliver, Parse, mqVars, taskVars, modemVars
<1>2. PipeType BY DEF Base, TInv
<1>3. /\ 1 \in 1 .. Len(pipe) /\ l = pipe[1] /\ l \in Lines
      /\ \A j \in 1 .. Len(pipe') : j + 1 \in 1 .. Len(pipe) /\ pipe'[j] = pipe[j + 1]
      /\ \A j \in 1 .. Len(pipe) :
             j # 1 => j - 1 \in 1 .. Len(pipe') /\ pipe'[j - 1] = pipe[j]
  BY <1>1, <1>2, Taken
<1>4. cl'.up => \/ cl.up /\ l.k # "stat"
                \/ l.k = "conn" /\ cmd = "CONN" /\ ReadCode(l.r) = "accepted"
  BY <1>1, <1>3, ParseUp
<1> HIDE DEF l
<1>5. ASSUME NEW j \in 2 .. Len(pipe), DownFrom(j) PROVE DownFrom(j - 1)'
  <2>1. PICK i \in j .. Len(pipe) : pipe[i].k = "stat" BY <1>5 DEF DownFrom
  <2>2. i \in 1 .. Len(pipe) /\ i # 1 /\ i - 1 >= j - 1 BY <2>1
  <2>3. i - 1 \in 1 .. Len(pipe') /\ pipe'[i - 1].k = "stat" BY <1>3, <2>1, <2>2
  <2>4. i - 1 \in (j - 1) .. Len(pipe') BY <2>2, <2>3
  <2> QED BY <2>3, <2>4 DEF DownFrom
<1>6. l.k # "stat" /\ DownFrom(1) => DownFrom(1)'
  <2>1. SUFFICES ASSUME l.k # "stat", DownFrom(1) PROVE DownFrom(1)'
    OBVIOUS
  <2>2. PICK i \in 1 .. Len(pipe) : pipe[i].k = "stat" BY <2>1 DEF DownFrom
  <2>3. i # 1 BY <1>3, <2>1, <2>2
  <2>4. i - 1 \in 1 .. Len(pipe') /\ pipe'[i - 1].k = "stat" BY <1>3, <2>2, <2>3
  <2> QED BY <2>4 DEF DownFrom
<1>7. cl'.up => cl.up \/ cmd = "CONN" BY <1>4
<1>8. /\ mq' \in Dropping => dropping' \/ ~cl'.up
      /\ mq' \in Making => ~cl'.up
  BY <1>1, <1>7 DEF Base, Requests, LinkInv, Dropping, Making
<1>9. ASSUME cmd' = "CONN", ~misled', NEW j \in 1 .. Len(pipe'), Accepts(j)'
      PROVE  link' = "connected" \/ DownFrom(j)'
  <2>1. j + 1 \in 1 .. Len(pipe) /\ Accepts(j + 1) BY <1>3, <1>9 DEF Accepts
  <2>2. link = "connected" \/ DownFrom(j + 1) BY <1>1, <1>9, <2>1 DEF LinkInv
  <2>3. j + 1 \in 2 .. Len(pipe) /\ (j + 1) - 1 = j BY <2>1
  <2>4. DownFrom(j + 1) => DownFrom(j)' BY <1>5, <2>3
  <2> QED BY <1>1, <2>2, <2>4
<1>10. ConnectedIsReal'
  <2>1. SUFFICES ASSUME cl'.up, ~misled' PROVE SessionUp'
    BY DEF ConnectedIsReal
  <2>2. CASE cl.up /\ l.k # "stat"
    <3>1. SessionUp BY <1>1, <2>1, <2>2 DEF LinkInv, ConnectedIsReal
    <3> QED BY <1>1, <1>6, <2>2, <3>1 DEF SessionUp, DownFrom
  <2>3. CASE l.k = "conn" /\ cmd = "CONN" /\ ReadCode(l.r) = "accepted"
    <3>1. l.r = "accepted" BY <1>1, <2>1, <2>3 DEF ReadCode
    <3>2. Accepts(1) BY <1>3, <2>3, <3>1 DEF Accepts
    <3>3. link = "connected" \/ DownFrom(1) BY <1>1, <1>3, <2>1, <2>3, <3>2 DEF LinkInv
    <3>4. link' = "connected" \/ DownFrom(1)' BY <1>1, <1>6, <2>3, <3>3
    <3> QED BY <3>4 DEF SessionUp, DownFrom
  <2> QED BY <1>4, <2>1, <2>2, <2>3
<1> QED BY <1>8, <1>9, <1>10 DEF LinkInv

\* Lines are added, and if the session ends one says so.
LEMMA AddedLink ==
    ASSUME Base, LinkInv, UNCHANGED <<mq, dropping, cmd, cl>>, misled => misled',
           NEW ls \in Seq(Lines), Answer(ls),
           \/ link = "connected" => link' = "connected"
           \/ \E i \in 1 .. Len(ls) : ls[i].k = "stat"
           \/ misled'
           \/ cmd # "CONN" /\ (cl.up => mq \in {"disc", "discAgain"} /\ dropping),
           \A i \in 1 .. Len(ls) : ls[i].k = "conn" /\ ls[i].r = "accepted" => link' = "connected"
    PROVE  LinkInv'
<1>1. PipeType BY DEF Base, TInv
<1>2. /\ Len(pipe') = Len(pipe) + Len(ls) /\ Len(pipe) \in Nat /\ Len(ls) \in Nat
      /\ \A j \in 1 .. Len(pipe) : j \in 1 .. Len(pipe') /\ pipe'[j] = pipe[j]
      /\ \A j \in 1 .. Len(ls) :
             Len(pipe) + j \in 1 .. Len(pipe') /\ pipe'[Len(pipe) + j] = ls[j]
      /\ \A j \in 1 .. Len(pipe') :
             j \in 1 .. Len(pipe) \/ \E i \in 1 .. Len(ls) : j = Len(pipe) + i
  BY <1>1, Appended
<1>3. ASSUME NEW j \in 1 .. (Len(pipe) + 1), DownFrom(j) PROVE DownFrom(j)'
  <2>1. PICK i \in j .. Len(pipe) : pipe[i].k = "stat" BY <1>3 DEF DownFrom
  <2>2. i \in 1 .. Len(pipe) BY <1>2, <2>1
  <2>3. i \in 1 .. Len(pipe') /\ pipe'[i].k = "stat" BY <1>2, <2>1, <2>2
  <2>4. i \in j .. Len(pipe') BY <2>1, <2>3
  <2> QED BY <2>3, <2>4 DEF DownFrom
<1>4. ASSUME NEW i \in 1 .. Len(ls), ls[i].k = "stat", NEW j \in 1 .. (Len(pipe) + 1)
      PROVE  DownFrom(j)'
  <2>1. Len(pipe) + i \in j .. Len(pipe') BY <1>2, <1>4
  <2>2. pipe'[Len(pipe) + i].k = "stat" BY <1>2, <1>4
  <2> QED BY <2>1, <2>2 DEF DownFrom
<1>5. ConnectedIsReal'
  <2>1. SUFFICES ASSUME cl.up, ~misled' PROVE SessionUp'
    BY DEF ConnectedIsReal
  <2>2. SessionUp /\ 1 \in 1 .. (Len(pipe) + 1)
    BY <1>2, <2>1 DEF LinkInv, ConnectedIsReal
  <2>3. link = "connected" \/ DownFrom(1) \/ (mq \in {"disc", "discAgain"} /\ dropping)
    BY <2>2 DEF SessionUp, DownFrom
  <2>4. link' = "connected" \/ DownFrom(1)' \/ (mq \in {"disc", "discAgain"} /\ dropping)
    BY <1>3, <1>4, <2>1, <2>2, <2>3
  <2> QED BY <2>4 DEF SessionUp, DownFrom
<1>6. ASSUME cmd = "CONN", ~misled', NEW j \in 1 .. Len(pipe'), Accepts(j)'
      PROVE  link' = "connected" \/ DownFrom(j)'
  <2>1. CASE j \in 1 .. Len(pipe)
    <3>1. Accepts(j) BY <1>2, <1>6, <2>1 DEF Accepts
    <3>2. link = "connected" \/ DownFrom(j) BY <1>6, <2>1, <3>1 DEF LinkInv
    <3>3. j \in 1 .. (Len(pipe) + 1) BY <1>2, <2>1
    <3> QED BY <1>3, <1>4, <1>6, <3>2, <3>3
  <2>2. CASE \E i \in 1 .. Len(ls) : j = Len(pipe) + i
    BY <1>2, <1>6, <2>2 DEF Accepts
  <2> QED BY <1>2, <2>1, <2>2
<1> QED BY <1>5, <1>6 DEF LinkInv

LEMMA ModemLink == ASSUME Base, LinkInv, Modem PROVE LinkInv'
<1>1. /\ wire # <<>> /\ UNCHANGED <<cmd, cl, mq, dropping>> /\ (misled => misled')
  BY ModemFrame DEF Base, mqVars, taskVars
<1>2. PICK ls : AnsweredBy(ls) BY ModemFrame DEF Base
<1>3. ASSUME wire[1].c \in {"CLOSE", "DISC"}
      PROVE  cmd # "CONN" /\ (cl.up => mq \in {"disc", "discAgain"} /\ dropping)
  <2>1. cmd = wire[1].c BY <1>1 DEF Base, Requests
  <2>2. mq = "close" \/ mq = "disc" BY <1>1, <1>3, <2>1 DEF Base, Requests
  <2> QED BY <1>3, <2>1, <2>2 DEF LinkInv, Dropping, Making
<1> QED BY <1>1, <1>2, <1>3, AddedLink DEF AnsweredBy

LEMMA LineLink ==
    ASSUME Base, LinkInv, UNCHANGED <<mq, dropping, cmd, cl, misled>>, NEW l \in Lines,
           Answer(<<l>>), link = "connected" => link' = "connected" \/ l.k = "stat",
           l.k = "conn" /\ l.r = "accepted" => link' = "connected"
    PROVE  LinkInv'
<1>1. <<l>> \in Seq(Lines) /\ 1 \in 1 .. Len(<<l>>) /\ <<l>>[1] = l
      /\ \A i \in 1 .. Len(<<l>>) : i = 1
  OBVIOUS
<1> QED BY <1>1, AddedLink

LEMMA ReportsLink == ASSUME Base, LinkInv, Reports PROVE LinkInv'
<1>0. UNCHANGED <<mq, dropping>> /\ Report BY DEF Reports, mqVars, taskVars
<1>1. CASE ReportOpen
  <2>1. Line("open", "ok", 0) \in Lines /\ Line("open", "ok", 0).k = "open"
    BY PlainLines, Zero DEF Line
  <2> QED BY <1>0, <1>1, <2>1, LineLink DEF ReportOpen, ReportTo, semVars
<1>2. CASE ReportConn
  <2>1. Line("conn", "accepted", 0) \in Lines /\ Line("conn", "accepted", 0).k = "conn"
    BY PlainLines DEF Line
  <2> QED BY <1>0, <1>2, <2>1, LineLink DEF ReportConn, ReportTo, Move, semVars
<1>3. CASE ReportOwed
  <2>1. PICK o \in owed : ReportOn(o, "ok") BY <1>3 DEF ReportOwed
  <2>2. o \in Owed BY DEF Base, TInv, ModType
  <2>3. Line(o.k, "ok", o.id) \in Lines /\ Line(o.k, "ok", o.id).k \in {"sub", "pub"}
    BY <2>2, PlainLines DEF Owed, Line
  <2> QED BY <1>0, <2>1, <2>3, LineLink DEF ReportOn, semVars
<1> QED BY <1>0, <1>1, <1>2, <1>3 DEF Report

LEMMA TroubleLink == ASSUME Base, LinkInv, Trouble PROVE LinkInv'
<1>0. UNCHANGED <<mq, dropping>> /\ (Stray \/ ReportFault) BY DEF Trouble, mqVars, taskVars
<1>1. CASE Stray
  <2>1. Parse(Ok) /\ UNCHANGED <<pipe, misled, cmd, link>> BY <1>1 DEF Stray, Parse, modemVars
  <2>2. cl' = cl BY <2>1, PlainKinds DEF Parse, ParseSession, IsDown, IsOwn
  <2> QED BY <1>0, <2>1, <2>2 DEF LinkInv, ConnectedIsReal, SessionUp, Accepts, DownFrom
<1>2. CASE ReportFault
  <2>1. CASE \E l \in Lines, to \in {"closed", "connecting"} :
                 /\ ReportTo(l, to)
                 /\ l.k = "conn" => l.r # "accepted"
                 /\ link = "connected" => l.k = "stat"
    BY <1>0, <2>1, LineLink DEF ReportTo, semVars
  <2>2. CASE \E o \in owed : ReportOn(o, "fail")
    <3>1. PICK o \in owed : ReportOn(o, "fail") BY <2>2
    <3>2. o \in Owed BY DEF Base, TInv, ModType
    <3>3. Line(o.k, "fail", o.id) \in Lines /\ Line(o.k, "fail", o.id).k \in {"sub", "pub"}
      BY <3>2, PlainLines DEF Owed, Line
    <3> QED BY <1>0, <3>1, <3>3, LineLink DEF ReportOn, semVars
  <2>3. \A k, r : Line(k, r, 0).k = k /\ Line(k, r, 0).r = r BY DEF Line
  <2>4. \/ link = "opening" /\ ReportTo(Line("open", "fail", 0), "closed")
        \/ link = "connecting" /\ ReportTo(Line("conn", "refused", 0), "closed")
        \/ link = "connecting" /\ ReportTo(Line("conn", "fail", 0), "closed")
        \/ link = "connecting" /\ ReportTo(Line("conn", "again", 0), "connecting")
        \/ ReportTo(Stat, "closed")
        \/ \E o \in owed : ReportOn(o, "fail")
    BY <1>2, Zenon DEF ReportFault
  <2>5. CASE link = "opening" /\ ReportTo(Line("open", "fail", 0), "closed")
    BY <2>1, <2>3, <2>5, PlainLines, Zero
  <2>6. ASSUME NEW to \in {"closed", "connecting"},
               NEW r \in {"refused", "fail", "again"}, link = "connecting",
               ReportTo(Line("conn", r, 0), to)
        PROVE  LinkInv'
    BY <2>1, <2>3, <2>6, PlainLines
  <2>7. CASE ReportTo(Stat, "closed")
    BY <2>1, <2>7, PlainLines, PlainKinds
  <2> QED BY <2>2, <2>4, <2>5, <2>6, <2>7
<1> QED BY <1>0, <1>1, <1>2

LEMMA LinkStep == Base /\ LinkInv /\ [Next]_vars /\ [ReportFresh]_vars => LinkInv'
<1> SUFFICES ASSUME Base, LinkInv, [Next]_vars, [ReportFresh]_vars PROVE LinkInv'
  OBVIOUS
<1>1. CASE Mqtt
  <2>1. cmd' = "CONN" /\ cmd # "CONN" => \A j \in 1 .. Len(pipe) : pipe[j].k # "conn"
    BY DEF ReportFresh, vars, portVars, semVars
  <2> QED BY <1>1, <2>1, MqttLink
<1>2. CASE Other \/ UNCHANGED vars
  <2>1. UNCHANGED <<portVars, mq, dropping>>
    BY <1>2 DEF Other, RequestReconnect, vars, mqVars, taskVars
  <2> QED BY <2>1 DEF portVars, semVars, modemVars, ghostVars, LinkInv, ConnectedIsReal,
                      SessionUp, Accepts, DownFrom
<1> QED
  BY <1>1, <1>2, ModemLink, ParserLink, ReportsLink, TroubleLink, LteLink DEF Next

\* The session counts as connected only if it is (RxRingProcess.c:2064-2077,
\* EC200U.c:573, 866), if no report of an earlier connection is on its way
\* when one is asked for: a task that is given such a report believes it.
THEOREM ConnectedIsRealCorrect == Spec /\ [][ReportFresh]_vars => []ConnectedIsReal
<1>1. Base /\ LinkInv => ConnectedIsReal BY DEF LinkInv
<1>2. Init => Base /\ LinkInv BY BaseInit, LinkInit
<1>3. Base /\ LinkInv /\ [Next]_vars /\ [ReportFresh]_vars => (Base /\ LinkInv)'
  BY BaseStep, LinkStep
<1> QED BY <1>1, <1>2, <1>3, PTL DEF Spec

(***************************************************************************)
(* The result of a connection is that of the request made.                 *)
(***************************************************************************)
Asking == {"conn", "connPoll", "connPoll2"}

\* Once the modem has read the request, a packet that was sent and accepted
\* by what the parser has stored, and an acceptance still to be read, are the
\* broker's to this very request, or those of something else were about.
ResultInv ==
    /\ mq \in Asking /\ wire = <<>> /\ cl.retTmp = "accepted" /\ cl.sent = "ok" =>
           accepted \/ crossed
    /\ cmd = "CONN" /\ wire = <<>> =>
           \A j \in 1 .. Len(pipe) : Accepts(j) => accepted \/ crossed
    /\ ResultIsReal

LEMMA ResultInit == Init => ResultInv
BY DEF Init, PortInit, MqttInit, ResultInv, ResultIsReal, Asking

\* A task leaves what the modem has said, and the result it has stored, alone.
LEMMA SameResult ==
    ASSUME ResultInv, wire = <<>>, UNCHANGED <<pipe, accepted, crossed>>,
           cmd' = "CONN" /\ wire' = <<>> => cmd = "CONN",
           mq' \in Asking /\ wire' = <<>> =>
               mq \in Asking /\ cl'.retTmp = cl.retTmp /\ cl'.sent = cl.sent,
           mq' \in {"end3", "subscribe"} =>
               \/ mq \in {"end3", "subscribe"}
               \/ mq \in Asking /\ cl.retTmp = "accepted" /\ cl.sent = "ok"
    PROVE  ResultInv'
BY DEF ResultInv, ResultIsReal, Accepts

LEMMA LteResult == ASSUME Base, ResultInv, Lte PROVE ResultInv'
<1>1. /\ UNCHANGED <<pipe, accepted, crossed, mq>> /\ wire = <<>>
      /\ cl'.retTmp = cl.retTmp /\ cl'.sent = cl.sent
      /\ \/ wire' = <<>> /\ cmd' \in {cmd, "IDLE"}
         \/ cmd' \in LteCommands
  BY LteFrame DEF Lte, Ready, mqVars, ghostVars
<1>2. cmd' = "CONN" => cmd = "CONN"
  BY <1>1 DEF LteCommands, MqttCommands
<1> QED BY <1>1, <1>2, SameResult

LEMMA MqttResult == ASSUME Base, ResultInv, Mqtt PROVE ResultInv'
<1> USE DEF Asking
<1>0. wire = <<>> /\ MqttNext /\ cl \in Client BY DEF Mqtt, Ready, Base, TInv, ClType
<1>1. CASE Reconnect \/ PassDown \/ PassUp \/ CheckUp \/ Retransmitted
  <2>1. /\ UNCHANGED <<pipe, accepted, crossed, cl, cmd, wire>>
        /\ mq' \notin {"end3", "subscribe"} /\ (mq' \in Asking => mq = "connPoll")
    BY <1>1 DEF Reconnect, PassDown, PassUp, CheckUp, Retransmitted, portVars, semVars, ghostVars
  <2> QED BY <1>0, <2>1, SameResult
<1>2. CASE Disconnect \/ Configure \/ Subscribe \/ Publish \/ Sleep
  <2>1. /\ UNCHANGED <<pipe, accepted, crossed>> /\ cmd' # "CONN"
        /\ mq' \in {"disc", "cfg", "sub", "prompt", "sleeping"}
    BY <1>2 DEF Disconnect, Configure, Subscribe, Publish, Sleep, First, BeginSequence,
                SendFor, ghostVars
  <2> QED BY <1>0, <2>1, SameResult
<1>3. CASE DisconnectHeard \/ OpenHeard \/ ConnectHeard \/ SubscribeHeard \/ PayloadHeard
  <2>1. /\ UNCHANGED <<pipe, accepted, crossed, cl, cmd, wire>> /\ mq' \notin {"end3", "subscribe"}
        /\ mq' \in Asking => mq = "conn"
    BY <1>3 DEF DisconnectHeard, OpenHeard, ConnectHeard, SubscribeHeard, PayloadHeard,
                Wait, Answered, ghostVars
  <2> QED BY <1>0, <2>1, SameResult
<1>4. CASE Close \/ Payload
  <2>1. UNCHANGED <<pipe, accepted, crossed>> /\ cmd' # "CONN" /\ mq' \in {"close", "msg"}
    BY <1>4 DEF Close, Payload, Later, Send, SendFor, ghostVars
  <2> QED BY <1>0, <2>1, SameResult
<1>5. CASE Open
  <2>1. /\ mq = "close" /\ mq' = "open" /\ UNCHANGED <<pipe, accepted, crossed>>
        /\ (cmd' = cmd /\ wire' = wire) \/ cmd' = "OPEN"
    BY <1>5 DEF Open, Later, Send, SendFor, ghostVars
  <2> QED BY <1>0, <2>1, SameResult
<1>6. CASE Connect
  <2>1. UNCHANGED <<pipe, accepted, crossed>> /\ mq' = "conn" /\ wire' # <<>>
    BY <1>6 DEF Connect, Later, Send, SendFor, ghostVars
  <2> QED BY <1>0, <2>1, SameResult
<1>7. CASE SkipClose \/ NotOpened \/ NoAnswer
  <2>1. /\ UNCHANGED <<pipe, accepted, crossed, cmd, wire>> /\ mq' \in {"close", "end1"}
    BY <1>7 DEF SkipClose, NotOpened, NoAnswer, semVars, ghostVars
  <2> QED BY <1>0, <2>1, SameResult
<1>8. CASE Concluded
  <2>1. /\ UNCHANGED <<pipe, accepted, crossed, cmd, wire>> /\ mq \in Asking
        /\ mq' \in {"end2", "end3"}
        /\ mq' = "end3" => cl.sent = "ok" /\ cl.retTmp = "accepted"
    BY <1>8 DEF Concluded, PacketSent, semVars, ghostVars
  <2> QED BY <1>0, <2>1, SameResult
<1>9. CASE MakeEnd
  <2>1. /\ EndSequence /\ mq \in {"end1", "end2", "end3"}
        /\ cl' = [cl EXCEPT !.open = IF mq = "end1" THEN "none" ELSE @,
                            !.ret = IF mq = "end3" THEN @ ELSE "none",
                            !.openTmp = "none", !.retTmp = "none", !.sent = "none"]
        /\ mq' = IF cl'.open # "none" /\ cl'.ret # "none" THEN "subscribe" ELSE "loop"
    BY <1>9 DEF MakeEnd, End
  <2>2. mq # "end3" => cl'.ret = "none" BY <1>0, <2>1 DEF Client
  <2>3. UNCHANGED <<pipe, accepted, crossed>> /\ cmd' = "IDLE" BY <2>1 DEF EndSequence, ghostVars
  <2> QED BY <1>0, <2>1, <2>2, <2>3, SameResult
<1>10. CASE Disconnected \/ SubscribeEnd \/ PublishEnd \/ Asleep
  <2>1. EndSequence /\ mq' \in {"loop", "make", "published", "asleep"}
    BY <1>10 DEF Disconnected, SubscribeEnd, PublishEnd, Asleep, End
  <2>2. UNCHANGED <<pipe, accepted, crossed>> /\ cmd' = "IDLE" BY <2>1 DEF EndSequence, ghostVars
  <2> QED BY <1>0, <2>1, <2>2, SameResult
<1> QED
  BY <1>0, <1>1, <1>2, <1>3, <1>4, <1>5, <1>6, <1>7, <1>8, <1>9, <1>10 DEF MqttNext

LEMMA ParseResult ==
    ASSUME Base, NEW l \in Lines, Parse(l)
    PROVE  \/ /\ l.k = "conn" /\ cmd = "CONN"
              /\ cl'.sent = ReadSent(l.r) /\ cl'.retTmp = ReadCode(l.r)
           \/ /\ cl'.retTmp = cl.retTmp
              /\ cl'.sent = cl.sent \/ (IsOwn(l) /\ cl'.sent = l.r)
<1>1. cl' = ParseSession(l) /\ cl \in Client BY DEF Parse, Base, TInv, ClType
<1>2. CASE l.k = "open" /\ cmd = "OPEN"
  <2>1. cl' = [cl EXCEPT !.openTmp = l.r]
    BY <1>1, <1>2 DEF ParseSession, IsDown, IsOwn
  <2>2. cl'.retTmp = cl.retTmp /\ cl'.sent = cl.sent BY <1>1, <2>1 DEF Client
  <2> QED BY <2>2
<1>3. CASE l.k = "conn" /\ cmd = "CONN"
  <2>1. cl' = [cl EXCEPT !.sent = ReadSent(l.r), !.retTmp = ReadCode(l.r),
                         !.up = ReadCode(l.r) = "accepted"]
    BY <1>1, <1>3 DEF ParseSession, IsDown, IsOwn
  <2> QED BY <1>1, <1>3, <2>1 DEF Client
<1>4. CASE ~(l.k = "open" /\ cmd = "OPEN") /\ ~(l.k = "conn" /\ cmd = "CONN")
  <2>1. \/ cl' = [cl EXCEPT !.up = FALSE]
        \/ cl' = cl
        \/ IsOwn(l) /\ cl' = [cl EXCEPT !.sent = l.r]
    BY <1>1, <1>4 DEF ParseSession, IsDown, IsOwn
  <2>2. cl'.retTmp = cl.retTmp BY <1>1, <2>1 DEF Client
  <2>3. cl'.sent = cl.sent \/ (IsOwn(l) /\ cl'.sent = l.r) BY <1>1, <2>1 DEF Client
  <2> QED BY <2>2, <2>3
<1> QED BY <1>2, <1>3, <1>4

LEMMA ParserResult == ASSUME Base, ResultInv, Parser PROVE ResultInv'
<1> DEFINE l == Head(pipe)
<1>1. /\ pipe # <<>> /\ Parse(l) /\ pipe' = Tail(pipe)
      /\ UNCHANGED <<cmd, wire, mq, accepted>>
      /\ crossed' = (crossed \/ (cmd = "CONN" /\ IsOwn(l)))
  BY DEF Parser, Deliver, Parse, mqVars
<1>2. PipeType BY DEF Base, TInv
<1>3. /\ 1 \in 1 .. Len(pipe) /\ l = pipe[1] /\ l \in Lines
      /\ \A j \in 1 .. Len(pipe') : j + 1 \in 1 .. Len(pipe) /\ pipe'[j] = pipe[j + 1]
  BY <1>1, <1>2, Taken
<1>4. \/ /\ l.k = "conn" /\ cmd = "CONN"
         /\ cl'.sent = ReadSent(l.r) /\ cl'.retTmp = ReadCode(l.r)
      \/ /\ cl'.retTmp = cl.retTmp
         /\ cl'.sent = cl.sent \/ (IsOwn(l) /\ cl'.sent = l.r)
  BY <1>1, <1>3, ParseResult
<1> HIDE DEF l
<1>5. ASSUME mq \in Asking, wire = <<>>, cl'.retTmp = "accepted", cl'.sent = "ok"
      PROVE  accepted \/ crossed'
  <2>1. cmd = "CONN" BY <1>5 DEF Base, Requests, Asking
  <2>2. CASE l.k = "conn" /\ cl'.sent = ReadSent(l.r) /\ cl'.retTmp = ReadCode(l.r)
    <3>1. l.r \in {"accepted", "refused", "again", "fail"} BY <1>3, <2>2 DEF Lines
    <3>2. l.r = "accepted" BY <1>5, <2>2, <3>1 DEF ReadCode, ReadSent
    <3> QED BY <1>1, <1>3, <1>5, <2>1, <2>2, <3>2 DEF ResultInv, Accepts
  <2>3. CASE IsOwn(l) BY <1>1, <2>1, <2>3
  <2>4. CASE cl'.retTmp = cl.retTmp /\ cl'.sent = cl.sent
    BY <1>1, <1>5, <2>4 DEF ResultInv
  <2> QED BY <1>4, <2>2, <2>3, <2>4
<1>6. cmd = "CONN" /\ wire = <<>> =>
          \A j \in 1 .. Len(pipe') : Accepts(j)' => accepted \/ crossed
  BY <1>3 DEF ResultInv, Accepts
<1>7. mq \in {"end3", "subscribe"} => accepted \/ crossed BY DEF ResultInv, ResultIsReal
<1> QED BY <1>1, <1>5, <1>6, <1>7 DEF ResultInv, ResultIsReal

\* Lines are added, an acceptance only with the broker's.
LEMMA AddedResult ==
    ASSUME Base, ResultInv, wire = <<>>, UNCHANGED <<mq, cmd, cl, crossed, wire>>,
           accepted => accepted', NEW ls \in Seq(Lines), Answer(ls),
           \A i \in 1 .. Len(ls) : ls[i].k = "conn" /\ ls[i].r = "accepted" => accepted'
    PROVE  ResultInv'
<1>1. PipeType BY DEF Base, TInv
<1>2. /\ \A j \in 1 .. Len(pipe) : pipe'[j] = pipe[j]
      /\ \A j \in 1 .. Len(ls) : pipe'[Len(pipe) + j] = ls[j]
      /\ \A j \in 1 .. Len(pipe') :
             j \in 1 .. Len(pipe) \/ \E i \in 1 .. Len(ls) : j = Len(pipe) + i
  BY <1>1, Appended
<1>3. cmd = "CONN" => \A j \in 1 .. Len(pipe') : Accepts(j)' => accepted' \/ crossed
  BY <1>2 DEF ResultInv, Accepts
<1> QED BY <1>3 DEF ResultInv, ResultIsReal

\* The modem reads a command.  If it is a request for a connection, what is
\* about then is of an earlier one, and the answer itself is no report.
LEMMA ModemResult == ASSUME Base, ResultInv, Modem PROVE ResultInv'
<1>1. /\ wire # <<>> /\ wire' = <<>> /\ UNCHANGED <<cmd, cl, mq>> /\ NewRequest
      /\ wire[1].c = cmd
  BY ModemFrame DEF Base, mqVars, Requests
<1>2. PICK ls : AnsweredBy(ls) BY ModemFrame DEF Base
<1>3. PipeType BY DEF Base, TInv
<1>4. /\ \A j \in 1 .. Len(pipe) : j \in 1 .. Len(pipe') /\ pipe'[j] = pipe[j]
      /\ \A j \in 1 .. Len(ls) : pipe'[Len(pipe) + j] = ls[j]
      /\ \A j \in 1 .. Len(pipe') :
             j \in 1 .. Len(pipe) \/ \E i \in 1 .. Len(ls) : j = Len(pipe) + i
  BY <1>2, <1>3, Appended DEF AnsweredBy
<1>5. CASE cmd = "CONN"
  <2>1. crossed' = ResultAbout BY <1>1, <1>5 DEF NewRequest
  <2>2. mq = "conn" BY <1>1, <1>5 DEF Base, Requests
  <2>3. ASSUME NEW j \in 1 .. Len(pipe'), Accepts(j)' PROVE crossed'
    <3>1. CASE j \in 1 .. Len(pipe)
      BY <1>4, <2>1, <2>3, <3>1 DEF Accepts, ResultAbout
    <3>2. CASE \E i \in 1 .. Len(ls) : j = Len(pipe) + i
      BY <1>2, <1>4, <2>3, <3>2 DEF Accepts, AnsweredBy
    <3> QED BY <1>4, <3>1, <3>2
  <2>4. cl.retTmp # "none" => crossed' BY <2>1 DEF ResultAbout
  <2> QED BY <1>1, <2>2, <2>3, <2>4 DEF ResultInv, ResultIsReal
<1>6. CASE cmd # "CONN"
  <2>1. crossed' = crossed BY <1>1, <1>6 DEF NewRequest
  <2>2. accepted => accepted' BY <1>1, <1>6 DEF NewRequest
  <2>3. mq \notin Asking BY <1>6 DEF Base, Requests, Asking
  <2> QED BY <1>1, <1>6, <2>1, <2>2, <2>3 DEF ResultInv, ResultIsReal
<1> QED BY <1>5, <1>6

LEMMA LineResult ==
    ASSUME Base, ResultInv, wire = <<>>, UNCHANGED <<mq, cmd, cl, crossed, wire>>,
           accepted => accepted', NEW l \in Lines, Answer(<<l>>),
           l.k = "conn" /\ l.r = "accepted" => accepted'
    PROVE  ResultInv'
<1>1. <<l>> \in Seq(Lines) /\ 1 \in 1 .. Len(<<l>>) /\ <<l>>[1] = l
      /\ \A i \in 1 .. Len(<<l>>) : i = 1
  OBVIOUS
<1> QED BY <1>1, AddedResult

LEMMA ReportsResult == ASSUME Base, ResultInv, Reports PROVE ResultInv'
<1>0. wire = <<>> /\ mq' = mq /\ Report BY DEF Reports, Ready, mqVars
<1>1. CASE ReportOpen
  <2>1. Line("open", "ok", 0) \in Lines /\ Line("open", "ok", 0).k = "open"
    BY PlainLines, Zero DEF Line
  <2> QED BY <1>0, <1>1, <2>1, LineResult DEF ReportOpen, ReportTo, semVars
<1>2. CASE ReportConn
  <2>1. Line("conn", "accepted", 0) \in Lines BY PlainLines
  <2> QED BY <1>0, <1>2, <2>1, LineResult DEF ReportConn, ReportTo, semVars
<1>3. CASE ReportOwed
  <2>1. PICK o \in owed : ReportOn(o, "ok") BY <1>3 DEF ReportOwed
  <2>2. o \in Owed BY DEF Base, TInv, ModType
  <2>3. Line(o.k, "ok", o.id) \in Lines /\ Line(o.k, "ok", o.id).k \in {"sub", "pub"}
    BY <2>2, PlainLines DEF Owed, Line
  <2> QED BY <1>0, <2>1, <2>3, LineResult DEF ReportOn, semVars
<1> QED BY <1>0, <1>1, <1>2, <1>3 DEF Report

LEMMA TroubleResult == ASSUME Base, ResultInv, Trouble PROVE ResultInv'
<1>0. wire = <<>> /\ mq' = mq /\ (Stray \/ ReportFault) BY DEF Trouble, Ready, mqVars
<1>1. CASE Stray
  <2>1. Parse(Ok) /\ UNCHANGED <<pipe, cmd, wire, accepted, crossed>> BY <1>1 DEF Stray, Parse
  <2>2. cl' = cl BY <2>1, PlainKinds DEF Parse, ParseSession, IsDown, IsOwn
  <2> QED BY <1>0, <2>1, <2>2 DEF ResultInv, ResultIsReal, Accepts
<1>2. CASE ReportFault
  <2>1. CASE \E l \in Lines, to \in {"closed", "connecting"} :
                 /\ ReportTo(l, to) /\ UNCHANGED accepted
                 /\ l.k = "conn" => l.r # "accepted"
    BY <1>0, <2>1, LineResult DEF ReportTo, semVars
  <2>2. CASE \E o \in owed : ReportOn(o, "fail")
    <3>1. PICK o \in owed : ReportOn(o, "fail") BY <2>2
    <3>2. o \in Owed BY DEF Base, TInv, ModType
    <3>3. Line(o.k, "fail", o.id) \in Lines /\ Line(o.k, "fail", o.id).k \in {"sub", "pub"}
      BY <3>2, PlainLines DEF Owed, Line
    <3> QED BY <1>0, <3>1, <3>3, LineResult DEF ReportOn, semVars
  <2>3. \A k, r : Line(k, r, 0).k = k /\ Line(k, r, 0).r = r BY DEF Line
  <2>4. \/ ReportTo(Line("open", "fail", 0), "closed") /\ UNCHANGED accepted
        \/ ReportTo(Line("conn", "refused", 0), "closed") /\ UNCHANGED accepted
        \/ ReportTo(Line("conn", "fail", 0), "closed") /\ UNCHANGED accepted
        \/ ReportTo(Line("conn", "again", 0), "connecting") /\ UNCHANGED accepted
        \/ ReportTo(Stat, "closed") /\ UNCHANGED accepted
        \/ \E o \in owed : ReportOn(o, "fail")
    BY <1>2, Zenon DEF ReportFault
  <2>5. CASE ReportTo(Line("open", "fail", 0), "closed") /\ UNCHANGED accepted
    BY <2>1, <2>3, <2>5, PlainLines, Zero
  <2>6. ASSUME NEW to \in {"closed", "connecting"}, NEW r \in {"refused", "fail", "again"},
               ReportTo(Line("conn", r, 0), to), UNCHANGED accepted
        PROVE  ResultInv'
    BY <2>1, <2>3, <2>6, PlainLines
  <2>7. CASE ReportTo(Stat, "closed") /\ UNCHANGED accepted
    BY <2>1, <2>7, PlainLines, PlainKinds
  <2> QED BY <2>2, <2>4, <2>5, <2>6, <2>7
<1> QED BY <1>0, <1>1, <1>2

LEMMA ResultStep == Base /\ ResultInv /\ [Next]_vars => ResultInv'
<1> SUFFICES ASSUME Base, ResultInv, [Next]_vars PROVE ResultInv'
  OBVIOUS
<1>1. CASE Other \/ UNCHANGED vars
  <2>1. UNCHANGED <<portVars, mq>> BY <1>1 DEF Other, RequestReconnect, vars, mqVars
  <2> QED BY <2>1 DEF portVars, semVars, ghostVars, ResultInv, ResultIsReal, Accepts
<1> QED
  BY <1>1, MqttResult, ModemResult, ParserResult, ReportsResult, TroubleResult, LteResult
  DEF Next

\* The connection is taken for made only if the broker has accepted the
\* request of this very sequence (Modem_MQTT.c:478-600), whatever times out,
\* fails or is reported without its return code, unless a result of another
\* request was about when the modem read this one or is stored in its place.
THEOREM ResultIsRealCorrect == Spec => []ResultIsReal
<1>1. Base /\ ResultInv => ResultIsReal BY DEF ResultInv
<1>2. Init => Base /\ ResultInv BY BaseInit, ResultInit
<1>3. Base /\ ResultInv /\ [Next]_vars => (Base /\ ResultInv)' BY BaseStep, ResultStep
<1> QED BY <1>1, <1>2, <1>3, PTL DEF Spec
=============================================================================
