------------------------- MODULE ChatSession_proofs -------------------------
(***************************************************************************)
(* Proofs about ChatSession, for every configuration and any number of     *)
(* keys, messages and lost connections.                                    *)
(***************************************************************************)
EXTENDS ChatSession, SequenceTheorems, TLAPS

USE DEF app, ui_vars, conn, session, mqtt_vars, server, history

\* Beginning a task leaves the rest of the queue.
LEMMA BeginTaskType ==
  ASSUME NEW kind, BeginTask(kind), TypeOK
  PROVE  pc = "loop" /\ main_tasks' \in Seq(TaskKind)
BY HeadTailProperties DEF BeginTask, TypeOK

\* What a thread adds to the queue is a task.
LEMMA ScheduleType ==
  ASSUME NEW kind \in TaskKind, TypeOK
  PROVE  Append(main_tasks, kind) \in Seq(TaskKind)
BY AppendProperties DEF TypeOK

\* Receiving a message takes a well-formed one and leaves the rest.
LEMMA ReceiveType ==
  ASSUME NEW type, Receive(type), TypeOK
  PROVE  /\ inbox' \in Seq(Message)
         /\ type = "hello" => Head(inbox).session \in Session
<1>1. Head(inbox) \in Message /\ Tail(inbox) \in Seq(Message)
  BY HeadTailProperties DEF Receive, TypeOK
<1> QED BY <1>1 DEF Receive, Message

\* Becoming idle keeps the types.
LEMMA EnterIdleType ==
  ASSUME TypeOK, EnterIdle
  PROVE  device_state' \in DeviceState /\ processor' \in BOOLEAN
BY DEF TypeOK, EnterIdle, DeviceState

LEMMA NetworkErrorType ==
  ASSUME TypeOK, NetworkError
  PROVE  /\ device_state' \in DeviceState
         /\ processor' \in BOOLEAN
         /\ listening_mode' \in {"auto", "realtime"}
         /\ aborted' \in BOOLEAN
BY EnterIdleType DEF NetworkError, TypeOK

LEMMA InitIInv == Init => IInv
<1> SUFFICES ASSUME Init PROVE IInv
  OBVIOUS
<1>1. <<>> \in Seq(TaskKind) /\ <<>> \in Seq(Message)
  BY EmptySeq
<1>2. 0 \in 0..MaxKeys /\ 0 \in 0..MaxServerMsgs /\ 0 \in 0..MaxDrops
  BY BoundsAssumption
<1>3. TypeOK
  BY <1>1, <1>2, ConfigsAssumption DEF Init, TypeOK, DeviceState, MainPC
<1>4. StateByPC /\ AtRest /\ HelloOrder /\ ModeIsConfigured
  BY DEF Init, StateByPC, AtRest, HelloOrder, ModeIsConfigured, Opening
<1>5. MicAnnounced /\ ChannelKeepsItsKeys
  BY DEF Init, MicAnnounced, Opening, ChannelKeepsItsKeys
<1>6. OneAnswer
  BY DEF Init, OneAnswer, Hellos
<1> QED BY <1>3, <1>4, <1>5, <1>6 DEF IInv

(***************************************************************************)
(* Types.                                                                  *)
(***************************************************************************)
LEMMA StartType ==
  TypeOK /\ (StartProtocol \/ StartProcessor \/ StartIdle) => TypeOK'
<1> SUFFICES ASSUME TypeOK, StartProtocol \/ StartProcessor \/ StartIdle
             PROVE  TypeOK'
  OBVIOUS
<1>1. <<>> \in Seq(Message)
  BY EmptySeq
<1> QED
  BY <1>1 DEF TypeOK, StartProtocol, StartProcessor, StartIdle, NewClient, Connect,
              NetworkError, EnterIdle, MainPC, DeviceState

LEMMA OpenType ==
  /\ TypeOK
  /\ \/ OpenBegin \/ OpenMqtt \/ OpenResetSession \/ OpenResetFlag \/ OpenHello
     \/ HelloArrived \/ HelloTimeout \/ OpenUdp \/ Listen \/ ListenCommand
  => TypeOK'
<1> USE DEF TypeOK, MainPC
<1>1. ASSUME TypeOK, OpenBegin PROVE TypeOK'
  BY <1>1, BeginTaskType DEF OpenBegin, DeviceState
<1>2. ASSUME TypeOK, OpenMqtt PROVE TypeOK'
  <2>1. <<>> \in Seq(Message)
    BY EmptySeq
  <2>2. /\ device_state' \in DeviceState
        /\ processor' \in BOOLEAN
        /\ listening_mode' \in {"auto", "realtime"}
        /\ aborted' \in BOOLEAN
    BY <1>2, NetworkErrorType DEF OpenMqtt, NewClient, Connect
  <2>3. /\ link' \in {"none", "down", "connecting", "up"}
        /\ connected' \in BOOLEAN
        /\ drops' \in 0..MaxDrops
        /\ inbox' \in Seq(Message)
        /\ pc' \in MainPC
    BY <1>2, <2>1 DEF OpenMqtt, NewClient, Connect
  <2> QED BY <1>2, <2>2, <2>3 DEF OpenMqtt
<1>3. ASSUME TypeOK, OpenResetSession \/ OpenResetFlag PROVE TypeOK'
  <2>1. CASE OpenResetSession
    BY <1>3, <2>1 DEF OpenResetSession
  <2>2. CASE OpenResetFlag
    <3>1. hello_responsed' \in BOOLEAN /\ pc' \in MainPC
      BY <2>2 DEF OpenResetFlag
    <3> QED BY <1>3, <2>2, <3>1 DEF OpenResetFlag
  <2> QED BY <1>3, <2>1, <2>2
<1>4. ASSUME TypeOK, OpenHello PROVE TypeOK'
  <2>1. hellos + 1 \in Nat \ {0}
    BY <1>4
  <2>2. /\ device_state' \in DeviceState
        /\ processor' \in BOOLEAN
        /\ listening_mode' \in {"auto", "realtime"}
        /\ aborted' \in BOOLEAN
    BY <1>4, NetworkErrorType DEF OpenHello
  <2>3. hellos' \in Nat /\ unanswered' \subseteq Session
    BY <1>4, <2>1 DEF OpenHello, Session
  <2>4. pc' \in MainPC /\ server_msgs' \in 0..MaxServerMsgs
    BY <1>4 DEF OpenHello
  <2> QED BY <1>4, <2>2, <2>3, <2>4 DEF OpenHello
<1>5. ASSUME TypeOK, HelloArrived \/ HelloTimeout PROVE TypeOK'
  <2>1. CASE HelloArrived
    BY <1>5, <2>1 DEF HelloArrived
  <2>2. CASE HelloTimeout
    BY <1>5, <2>2, NetworkErrorType DEF HelloTimeout
  <2> QED BY <1>5, <2>1, <2>2
<1>6. ASSUME TypeOK, OpenUdp PROVE TypeOK'
  <2>1. /\ pc' \in MainPC
        /\ udp' \in {"none", "live", "inert"}
        /\ told' \in BOOLEAN
        /\ peer' \in Session \cup {NoSession}
    BY <1>6 DEF OpenUdp
  <2> QED BY <1>6, <2>1 DEF OpenUdp
<1>7. ASSUME TypeOK, Listen PROVE TypeOK'
  BY <1>7 DEF Listen, DeviceState
<1>8. ASSUME TypeOK, ListenCommand PROVE TypeOK'
  <2>1. /\ device_state' \in DeviceState
        /\ processor' \in BOOLEAN
        /\ listening_mode' \in {"auto", "realtime"}
        /\ aborted' \in BOOLEAN
        /\ told' \in BOOLEAN
        /\ stray' \in BOOLEAN
    BY <1>8 DEF ListenCommand, SendStartListening, DeviceState
  <2> QED BY <1>8, <2>1 DEF ListenCommand
<1> QED
  BY <1>1, <1>2, <1>3, <1>4, <1>5, <1>6, <1>7, <1>8

LEMMA TaskType ==
  /\ TypeOK
  /\ Abort \/ CloseBegin \/ CloseSend \/ BecomeIdle \/ TtsStart \/ TtsStop
  => TypeOK'
<1> USE DEF TypeOK, MainPC
<1>1. ASSUME TypeOK, Abort \/ CloseBegin \/ BecomeIdle \/ TtsStart \/ TtsStop
      PROVE  TypeOK'
  <2>1. main_tasks' \in Seq(TaskKind)
    BY <1>1, BeginTaskType DEF Abort, CloseBegin, BecomeIdle, TtsStart, TtsStop
  <2>2. CASE Abort \/ BecomeIdle
    <3>1. /\ pc' \in MainPC
          /\ device_state' \in DeviceState
          /\ processor' \in BOOLEAN
          /\ aborted' \in BOOLEAN
          /\ listening_mode' \in {"auto", "realtime"}
      BY <1>1, <2>2, EnterIdleType DEF Abort, SendAbortSpeaking, BecomeIdle
    <3>2. UNCHANGED <<config, ui_vars, conn, session, udp, mqtt_vars, inbox,
                      server, history>>
      BY <2>2 DEF Abort, BecomeIdle
    <3> QED BY <1>1, <2>1, <3>1, <3>2
  <2>3. CASE CloseBegin
    <3>1. pc' \in MainPC /\ udp' \in {"none", "live", "inert"}
      BY <1>1, <2>3 DEF CloseBegin
    <3> QED BY <1>1, <2>1, <2>3, <3>1 DEF CloseBegin
  <2>4. CASE TtsStart \/ TtsStop
    <3>1. /\ pc' \in MainPC
          /\ device_state' \in DeviceState
          /\ processor' \in BOOLEAN
          /\ aborted' \in BOOLEAN
      BY <1>1, <2>4, BeginTaskType DEF TtsStart, TtsStop, DeviceState
    <3>2. UNCHANGED <<config, listening_mode, ui_vars, conn, session, udp,
                      mqtt_vars, inbox, server, history>>
      BY <2>4 DEF TtsStart, TtsStop
    <3> QED BY <1>1, <2>1, <3>1, <3>2
  <2> QED BY <1>1, <2>2, <2>3, <2>4
<1>2. ASSUME TypeOK, CloseSend PROVE TypeOK'
  <2>1. main_tasks' \in Seq(TaskKind)
    BY <1>2, ScheduleType DEF CloseSend, TaskKind
  <2> QED BY <1>2, <2>1, NetworkErrorType DEF CloseSend
<1> QED BY <1>1, <1>2

LEMMA UiType == TypeOK /\ Ui => TypeOK'
<1>1. ASSUME TypeOK, PressKey PROVE TypeOK'
  <2>1. ui' \in TaskKind \cup {"none"}
    BY <1>1 DEF PressKey, ToggleTask, TaskKind
  <2>2. keys' \in 0..MaxKeys
    BY <1>1, BoundsAssumption DEF PressKey, TypeOK
  <2> QED BY <1>1, <2>1, <2>2 DEF PressKey, TypeOK
<1>2. ASSUME TypeOK, ScheduleKey PROVE TypeOK'
  <2>1. main_tasks' \in Seq(TaskKind)
    BY <1>2, ScheduleType DEF ScheduleKey, TypeOK
  <2> QED BY <1>2, <2>1 DEF ScheduleKey, TypeOK
<1> QED BY <1>1, <1>2 DEF Ui

LEMMA MqttType == TypeOK /\ Mqtt => TypeOK'
<1>1. ASSUME TypeOK, ReceiveHello PROVE TypeOK'
  <2>1. inbox' \in Seq(Message) /\ Head(inbox).session \in Session
    BY <1>1, ReceiveType DEF ReceiveHello
  <2> QED BY <1>1, <2>1 DEF ReceiveHello, TypeOK
<1>2. ASSUME TypeOK, HelloParams \/ HelloFlag PROVE TypeOK'
  <2>1. CASE HelloParams
    BY <1>2, <2>1 DEF HelloParams, TypeOK
  <2>2. CASE HelloFlag
    BY <1>2, <2>2 DEF HelloFlag, TypeOK
  <2> QED BY <1>2, <2>1, <2>2
<1>3. ASSUME TypeOK, ReceiveGoodbye PROVE TypeOK'
  <2>1. inbox' \in Seq(Message)
    BY <1>3, ReceiveType DEF ReceiveGoodbye
  <2>2. main_tasks' \in Seq(TaskKind)
    <3>1. Append(main_tasks, "close") \in Seq(TaskKind)
      BY <1>3, ScheduleType DEF TaskKind
    <3> QED BY <1>3, <3>1 DEF ReceiveGoodbye, TypeOK
  <2> QED BY <1>3, <2>1, <2>2 DEF ReceiveGoodbye, TypeOK
<1>4. ASSUME TypeOK, ReceiveTts PROVE TypeOK'
  <2> PICK type \in {"tts_start", "tts_stop"} :
             Receive(type) /\ main_tasks' = Append(main_tasks, type)
    BY <1>4 DEF ReceiveTts
  <2>1. inbox' \in Seq(Message)
    BY <1>4, ReceiveType
  <2>2. main_tasks' \in Seq(TaskKind)
    BY <1>4, ScheduleType DEF TaskKind
  <2> QED BY <1>4, <2>1, <2>2 DEF ReceiveTts, TypeOK
<1> QED BY <1>1, <1>2, <1>3, <1>4 DEF Mqtt

LEMMA EnvironmentType == TypeOK /\ Environment => TypeOK'
<1>1. ASSUME TypeOK, ServerHello PROVE TypeOK'
  <2> PICK s \in unanswered :
             /\ unanswered' = unanswered \ {s}
             /\ inbox' = Append(inbox, [type |-> "hello", session |-> s])
    BY <1>1 DEF ServerHello
  <2>1. [type |-> "hello", session |-> s] \in Message
    BY <1>1 DEF TypeOK, Message
  <2>2. inbox' \in Seq(Message)
    BY <1>1, <2>1, AppendProperties DEF TypeOK
  <2> QED BY <1>1, <2>2 DEF ServerHello, TypeOK
<1>2. ASSUME TypeOK, ServerSends PROVE TypeOK'
  <2> PICK s \in (1..hellos) \ unanswered :
             \E m \in {[type |-> "goodbye", session |-> s],
                       [type |-> "goodbye", session |-> NoSession],
                       [type |-> "tts_start"], [type |-> "tts_stop"]} :
               inbox' = Append(inbox, m)
    BY <1>2 DEF ServerSends
  <2> PICK m \in {[type |-> "goodbye", session |-> s],
                  [type |-> "goodbye", session |-> NoSession],
                  [type |-> "tts_start"], [type |-> "tts_stop"]} :
             inbox' = Append(inbox, m)
    OBVIOUS
  <2>1. s \in Session
    BY <1>2 DEF TypeOK, Session
  <2>2. m \in Message
    BY <2>1 DEF Message
  <2>3. inbox' \in Seq(Message)
    BY <1>2, <2>2, AppendProperties DEF TypeOK
  <2>4. server_msgs' \in 0..MaxServerMsgs
    BY <1>2, BoundsAssumption DEF ServerSends, TypeOK
  <2> QED BY <1>2, <2>3, <2>4 DEF ServerSends, TypeOK
<1>3. ASSUME TypeOK, Connected \/ ConnectFailed PROVE TypeOK'
  <2>1. CASE Connected
    BY <1>3, <2>1 DEF Connected, TypeOK
  <2>2. CASE ConnectFailed
    BY <1>3, <2>2 DEF ConnectFailed, TypeOK
  <2> QED BY <1>3, <2>1, <2>2
<1>4. ASSUME TypeOK, ConnectionLost PROVE TypeOK'
  <2>1. <<>> \in Seq(Message)
    BY EmptySeq
  <2>2. drops' \in 0..MaxDrops
    BY <1>4, BoundsAssumption DEF ConnectionLost, Connect, TypeOK
  <2> QED BY <1>4, <2>1, <2>2 DEF ConnectionLost, Connect, TypeOK
<1> QED BY <1>1, <1>2, <1>3, <1>4 DEF Environment

LEMMA NextType == TypeOK /\ [Next]_vars => TypeOK'
<1>1. TypeOK /\ UNCHANGED vars => TypeOK'
  BY DEF TypeOK, vars
<1> QED
  BY <1>1, StartType, OpenType, TaskType, UiType, MqttType, EnvironmentType
     DEF Next, Main

(***************************************************************************)
(* The rest of the inductive invariant.  Only the main thread touches the  *)
(* chat state; what it knows of it is in its program counter.              *)
(***************************************************************************)
Rest == StateByPC /\ AtRest /\ HelloOrder /\ ModeIsConfigured

LEMMA MainRest == IInv /\ Main => Rest'
<1> USE DEF IInv, Rest, TypeOK, StateByPC, AtRest, HelloOrder,
            ModeIsConfigured, Opening, HasTopic
<1>1. ASSUME IInv, StartProtocol PROVE Rest'
  BY <1>1 DEF StartProtocol, NewClient, Connect, NetworkError, EnterIdle
<1>2. ASSUME IInv, StartProcessor PROVE Rest'
  BY <1>2 DEF StartProcessor
<1>3. ASSUME IInv, StartIdle PROVE Rest'
  BY <1>3 DEF StartIdle, EnterIdle
<1>4. ASSUME IInv, OpenBegin PROVE Rest'
  BY <1>4 DEF OpenBegin, BeginTask
<1>5. ASSUME IInv, OpenMqtt PROVE Rest'
  BY <1>5 DEF OpenMqtt, NewClient, Connect, NetworkError, EnterIdle
<1>6. ASSUME IInv, OpenResetSession \/ OpenResetFlag PROVE Rest'
  BY <1>6 DEF OpenResetSession, OpenResetFlag
<1>7. ASSUME IInv, OpenHello PROVE Rest'
  BY <1>7 DEF OpenHello, NetworkError, EnterIdle
<1>8. ASSUME IInv, HelloArrived \/ HelloTimeout PROVE Rest'
  <2>1. CASE HelloArrived
    BY <1>8, <2>1 DEF HelloArrived
  <2>2. CASE HelloTimeout
    BY <1>8, <2>2 DEF HelloTimeout, NetworkError, EnterIdle
  <2> QED BY <1>8, <2>1, <2>2
<1>9. ASSUME IInv, OpenUdp \/ Listen PROVE Rest'
  BY <1>9 DEF OpenUdp, Listen
<1>10. ASSUME IInv, ListenCommand PROVE Rest'
  BY <1>10 DEF ListenCommand, SendStartListening, SendFails
<1>11. ASSUME IInv, Abort PROVE Rest'
  BY <1>11 DEF Abort, SendAbortSpeaking, BeginTask, EnterIdle
<1>12. ASSUME IInv, CloseBegin \/ CloseSend PROVE Rest'
  <2>1. CASE CloseBegin
    BY <1>12, <2>1 DEF CloseBegin, BeginTask
  <2>2. CASE CloseSend
    BY <1>12, <2>2 DEF CloseSend, NetworkError, EnterIdle
  <2> QED BY <1>12, <2>1, <2>2
<1>13. ASSUME IInv, BecomeIdle PROVE Rest'
  BY <1>13 DEF BecomeIdle, BeginTask, EnterIdle
<1>14. ASSUME IInv, TtsStart PROVE Rest'
  BY <1>14, RealtimeAssumption DEF TtsStart, BeginTask
<1>15. ASSUME IInv, TtsStop PROVE Rest'
  BY <1>15 DEF TtsStop, BeginTask
<1> QED
  BY <1>1, <1>2, <1>3, <1>4, <1>5, <1>6, <1>7, <1>8, <1>9, <1>10, <1>11, <1>12,
     <1>13, <1>14, <1>15
  DEF Main

LEMMA OthersRest == IInv /\ (Ui \/ Mqtt \/ Environment \/ UNCHANGED vars) => Rest'
<1> USE DEF IInv, Rest, TypeOK, StateByPC, AtRest, HelloOrder,
            ModeIsConfigured, HasTopic
<1>1. ASSUME IInv, Ui PROVE Rest'
  BY <1>1 DEF Ui, PressKey, ScheduleKey
<1>2. ASSUME IInv, ReceiveHello PROVE Rest'
  <2>1. Head(inbox).session # NoSession
    BY <1>2, ReceiveType DEF ReceiveHello, Session, NoSession
  <2> QED BY <1>2, <2>1 DEF ReceiveHello
<1>3. ASSUME IInv, HelloParams PROVE Rest'
  BY <1>3 DEF HelloParams
<1>4. ASSUME IInv, HelloFlag PROVE Rest'
  BY <1>4 DEF HelloFlag
<1>5. ASSUME IInv, ReceiveGoodbye \/ ReceiveTts PROVE Rest'
  BY <1>5 DEF ReceiveGoodbye, ReceiveTts, Receive
<1>6. ASSUME IInv, Environment PROVE Rest'
  BY <1>6 DEF Environment, ServerHello, ServerSends, Connected, ConnectFailed,
              ConnectionLost
<1>7. ASSUME IInv, UNCHANGED vars PROVE Rest'
  BY <1>7 DEF vars
<1> QED
  BY <1>1, <1>2, <1>3, <1>4, <1>5, <1>6, <1>7 DEF Mqtt

(***************************************************************************)
(* The microphone: it is only turned on by Start and by ListenCommand.     *)
(***************************************************************************)
LEMMA MicNext == IInv /\ [Next]_vars => MicAnnounced'
<1> USE DEF IInv, TypeOK, StateByPC, MicAnnounced, Opening, HasTopic
<1>1. ASSUME IInv, StartProtocol \/ StartProcessor \/ StartIdle PROVE MicAnnounced'
  <2>1. CASE StartProtocol
    <3>1. pc = "start_mqtt" /\ pc' = "start_processor"
      BY <2>1 DEF StartProtocol, NewClient, Connect
    <3>2. ~processor'
      BY <1>1, <2>1 DEF StartProtocol, NewClient, Connect, NetworkError, EnterIdle
    <3> QED BY <3>1, <3>2
  <2>2. CASE StartProcessor
    BY <1>1, <2>2 DEF StartProcessor
  <2>3. CASE StartIdle
    BY <1>1, <2>3 DEF StartIdle, EnterIdle
  <2> QED BY <1>1, <2>1, <2>2, <2>3
<1>2. ASSUME IInv, OpenBegin PROVE MicAnnounced'
  BY <1>2 DEF OpenBegin, BeginTask
<1>3. ASSUME IInv, OpenMqtt \/ OpenHello \/ HelloTimeout PROVE MicAnnounced'
  <2>1. CASE OpenMqtt
    <3>1. /\ pc = "open_mqtt" /\ pc' \in {"loop", "open_session"}
          /\ UNCHANGED <<config, told, stray>>
      BY <2>1 DEF OpenMqtt, NewClient, Connect
    <3>2. processor' => processor
      BY <1>3, <2>1 DEF OpenMqtt, NewClient, Connect, NetworkError, EnterIdle
    <3> QED BY <1>3, <3>1, <3>2
  <2>2. CASE OpenHello
    <3>1. /\ pc = "open_hello" /\ pc' \in {"loop", "hello_wait"}
          /\ UNCHANGED <<config, told, stray>>
      BY <2>2 DEF OpenHello
    <3>2. processor' => processor
      BY <1>3, <2>2 DEF OpenHello, NetworkError, EnterIdle
    <3> QED BY <1>3, <3>1, <3>2
  <2>3. CASE HelloTimeout
    BY <1>3, <2>3 DEF HelloTimeout, NetworkError, EnterIdle
  <2> QED BY <1>3, <2>1, <2>2, <2>3
<1>4. ASSUME IInv, OpenResetSession \/ OpenResetFlag \/ HelloArrived \/ Listen
      PROVE  MicAnnounced'
  BY <1>4 DEF OpenResetSession, OpenResetFlag, HelloArrived, Listen
<1>5. ASSUME IInv, OpenUdp PROVE MicAnnounced'
  BY <1>5 DEF OpenUdp
<1>6. ASSUME IInv, ListenCommand PROVE MicAnnounced'
  BY <1>6 DEF ListenCommand, SendStartListening, SendFails
<1>7. ASSUME IInv, Abort \/ BecomeIdle PROVE MicAnnounced'
  BY <1>7 DEF Abort, SendAbortSpeaking, BecomeIdle, BeginTask, EnterIdle
<1>8. ASSUME IInv, CloseBegin \/ CloseSend PROVE MicAnnounced'
  BY <1>8 DEF CloseBegin, BeginTask, CloseSend, NetworkError, EnterIdle
<1>9. ASSUME IInv, TtsStart PROVE MicAnnounced'
  BY <1>9 DEF TtsStart, BeginTask
<1>10. ASSUME IInv, TtsStop PROVE MicAnnounced'
  BY <1>10 DEF TtsStop, BeginTask
<1>11. Ui \/ Mqtt \/ Environment => UNCHANGED <<config, pc, processor, told, stray>>
  BY DEF Ui, PressKey, ScheduleKey, Mqtt, ReceiveHello, HelloParams, HelloFlag,
     ReceiveGoodbye, ReceiveTts, Environment, ServerHello, ServerSends, Connected,
     ConnectFailed, ConnectionLost
<1>12. UNCHANGED vars => UNCHANGED <<config, pc, processor, told, stray>>
  BY DEF vars
<1>13. IInv /\ UNCHANGED <<config, pc, processor, told, stray>> => MicAnnounced'
  OBVIOUS
<1> QED
  BY <1>1, <1>2, <1>3, <1>4, <1>5, <1>6, <1>7, <1>8, <1>9, <1>10, <1>11, <1>12, <1>13
  DEF Next, Main

(***************************************************************************)
(* The hellos on their way.                                                *)
(***************************************************************************)
LEMMA HellosType == TypeOK => Hellos \subseteq Nat \ {0}
BY DEF TypeOK, Hellos

LEMMA ReceiveHellos ==
  ASSUME TypeOK, NEW type, Receive(type)
  PROVE  /\ \A i \in Hellos' : /\ i \in Nat \ {0} /\ i + 1 \in Hellos
                               /\ inbox'[i] = inbox[i + 1]
         /\ type = "hello" => 1 \in Hellos /\ Head(inbox) = inbox[1]
<1>1. /\ inbox \in Seq(Message) /\ inbox # <<>> /\ inbox' = Tail(inbox)
      /\ Head(inbox).type = type
  BY DEF TypeOK, Receive
<1>2. Len(inbox) \in Nat \ {0} /\ Len(inbox') = Len(inbox) - 1
      /\ \A i \in 1..Len(inbox') : inbox'[i] = inbox[i + 1]
  BY <1>1, HeadTailProperties, EmptySeq
<1>3. DOMAIN inbox = 1..Len(inbox) /\ DOMAIN inbox' = 1..Len(inbox')
  BY <1>1, HeadTailProperties
<1>4. inbox[1].type = type /\ Head(inbox) = inbox[1]
  BY <1>1
<1> QED BY <1>2, <1>3, <1>4 DEF Hellos

LEMMA SendHellos ==
  ASSUME TypeOK, NEW m \in Message, inbox' = Append(inbox, m)
  PROVE  /\ m.type # "hello" => Hellos' = Hellos
         /\ Hellos' \subseteq Hellos \cup {Len(inbox) + 1}
         /\ inbox'[Len(inbox) + 1] = m
         /\ \A i \in Hellos : inbox'[i] = inbox[i]
<1>1. inbox \in Seq(Message) /\ inbox' \in Seq(Message)
  BY AppendProperties DEF TypeOK
<1>2. Len(inbox) \in Nat /\ Len(inbox') = Len(inbox) + 1
      /\ inbox'[Len(inbox) + 1] = m /\ \A i \in 1..Len(inbox) : inbox'[i] = inbox[i]
  BY <1>1, AppendProperties
<1>3. DOMAIN inbox = 1..Len(inbox) /\ DOMAIN inbox' = 1..Len(inbox')
  BY <1>1
<1> QED BY <1>2, <1>3 DEF Hellos

LEMMA AnswerNext == IInv /\ [Next]_vars => OneAnswer'
<1> SUFFICES ASSUME IInv, [Next]_vars PROVE OneAnswer'
  OBVIOUS
<1>0. TypeOK /\ OneAnswer
  BY DEF IInv
<1>1. CASE /\ UNCHANGED <<unanswered, inbox, mqtt_pc, parsing, gave_up, hellos, session>>
           /\ pc # "open_flag" /\ pc' \notin {"hello_wait", "open_hello"}
           /\ pc # "hello_wait" \/ hello_responsed
  BY <1>0, <1>1 DEF OneAnswer, Hellos, session
<1>2. CASE UNCHANGED <<unanswered, inbox, mqtt_pc, parsing, gave_up, hellos, session, pc>>
  BY <1>0, <1>2 DEF OneAnswer, Hellos, session
<1>3. StartProcessor \/ StartIdle \/ OpenBegin \/ HelloArrived \/ OpenUdp \/ Listen
        \/ ListenCommand
      => /\ UNCHANGED <<unanswered, inbox, mqtt_pc, parsing, gave_up, hellos, session>>
         /\ pc # "open_flag" /\ pc' \notin {"hello_wait", "open_hello"}
         /\ pc # "hello_wait" \/ hello_responsed
  BY DEF StartProcessor, StartIdle, OpenBegin, BeginTask, HelloArrived, OpenUdp,
     Listen, ListenCommand, mqtt_vars, server, session
<1>4. Abort \/ CloseBegin \/ CloseSend \/ BecomeIdle \/ TtsStart \/ TtsStop
      => /\ UNCHANGED <<unanswered, inbox, mqtt_pc, parsing, gave_up, hellos, session>>
         /\ pc # "open_flag" /\ pc' \notin {"hello_wait", "open_hello"}
         /\ pc # "hello_wait" \/ hello_responsed
  BY DEF Abort, CloseBegin, CloseSend, BecomeIdle, TtsStart, TtsStop, BeginTask,
     mqtt_vars, server, session, history
<1>5. Ui \/ Connected \/ ConnectFailed \/ UNCHANGED vars
      => UNCHANGED <<unanswered, inbox, mqtt_pc, parsing, gave_up, hellos, session, pc>>
  BY DEF Ui, PressKey, ScheduleKey, Connected, ConnectFailed, vars, mqtt_vars, server,
     session, history
<1>16. CASE OpenResetSession
  <2>1. /\ UNCHANGED <<unanswered, inbox, mqtt_pc, parsing, gave_up, hellos, params,
                       hello_responsed>>
        /\ pc = "open_session" /\ pc' = "open_flag"
    BY <1>16 DEF OpenResetSession, mqtt_vars, server, history
  <2> QED BY <1>0, <2>1 DEF OneAnswer, Hellos
<1>17. CASE OpenResetFlag
  <2>1. /\ UNCHANGED <<unanswered, inbox, mqtt_pc, parsing, gave_up, hellos, params>>
        /\ pc = "open_flag" /\ pc' = "open_hello" /\ ~hello_responsed'
    BY <1>17 DEF OpenResetFlag, mqtt_vars, server, history
  <2> QED BY <1>0, <2>1 DEF OneAnswer, Hellos
<1>6. CASE StartProtocol \/ OpenMqtt
  <2>1. /\ UNCHANGED <<unanswered, mqtt_pc, parsing, gave_up, hellos, session>>
        /\ inbox' \in {inbox, <<>>}
        /\ pc \notin {"hello_wait", "open_flag"}
        /\ pc' \notin {"hello_wait", "open_hello", "open_flag"}
    BY <1>6 DEF StartProtocol, OpenMqtt, NewClient, Connect, mqtt_vars, server, history
  <2> QED BY <1>0, <2>1 DEF OneAnswer, Hellos, session
<1>7. CASE OpenHello
  <2>1. CASE pc' = "loop"
    <3>1. /\ UNCHANGED <<unanswered, inbox, mqtt_pc, parsing, gave_up, hellos, session>>
          /\ pc = "open_hello"
      BY <1>7, <2>1 DEF OpenHello, mqtt_vars, server, history
    <3> QED BY <1>1, <2>1, <3>1
  <2>2. CASE pc' = "hello_wait"
    <3>1. /\ UNCHANGED <<inbox, mqtt_pc, gave_up, hello_responsed>> /\ pc = "open_hello"
          /\ unanswered' = unanswered \cup {hellos'}
      BY <1>7, <2>2 DEF OpenHello, mqtt_vars, session, history
    <3>2. Hellos' = Hellos
      BY <3>1 DEF Hellos
    <3>3. ~gave_up' => /\ Hellos' = {} /\ mqtt_pc' = "idle" /\ unanswered' = {hellos'}
                       /\ ~hello_responsed'
      BY <1>0, <3>1, <3>2 DEF OneAnswer
    <3> QED BY <2>2, <3>3 DEF OneAnswer
  <2> QED BY <1>7, <2>1, <2>2 DEF OpenHello
<1>8. CASE HelloTimeout
  BY <1>8 DEF HelloTimeout, OneAnswer
<1>9. CASE ReceiveHello
  <2>1. /\ Receive("hello") /\ UNCHANGED <<unanswered, gave_up, hellos, pc, hello_responsed>>
        /\ session_id' = Head(inbox).session /\ parsing' = Head(inbox).session
        /\ mqtt_pc' = "hello_params"
    BY <1>9 DEF ReceiveHello, server, history
  <2>2. /\ 1 \in Hellos /\ \A i \in Hellos' : i \in Nat \ {0} /\ i + 1 \in Hellos
        /\ Head(inbox) = inbox[1]
    BY <1>0, <2>1, ReceiveHellos
  <2>3. ~gave_up => Hellos' = {}
    <3>1. ASSUME ~gave_up, NEW i \in Hellos' PROVE FALSE
      <4>1. i + 1 = 1
        BY <1>0, <2>2, <3>1 DEF OneAnswer
      <4> QED BY <2>2, <4>1
    <3> QED BY <3>1
  <2>4. ~gave_up => /\ session_id' = hellos /\ parsing' = hellos
                    /\ pc = "hello_wait" /\ ~hello_responsed /\ unanswered = {}
    BY <1>0, <2>1, <2>2 DEF OneAnswer
  <2> QED BY <2>1, <2>3, <2>4 DEF OneAnswer
<1>10. CASE HelloParams
  <2>1. /\ UNCHANGED <<unanswered, inbox, gave_up, hellos, pc, session_id, parsing,
                       hello_responsed>>
        /\ mqtt_pc # "idle" /\ (mqtt_pc' = "idle" \/ params' = parsing)
    BY <1>10 DEF HelloParams, server, history
  <2>2. Hellos' = Hellos
    BY <2>1 DEF Hellos
  <2>3. ~gave_up => /\ pc = "hello_wait" /\ ~hello_responsed
                    /\ Hellos = {} /\ unanswered = {}
                    /\ session_id = hellos /\ parsing = hellos
    BY <1>0, <2>1 DEF OneAnswer
  <2> QED BY <2>1, <2>2, <2>3 DEF OneAnswer
<1>11. CASE HelloFlag
  <2>1. /\ UNCHANGED <<unanswered, inbox, gave_up, hellos, pc, session_id, params>>
        /\ mqtt_pc = "hello_flag" /\ mqtt_pc' = "idle"
    BY <1>11 DEF HelloFlag, server, history
  <2>2. Hellos' = Hellos
    BY <2>1 DEF Hellos
  <2>3. ~gave_up => /\ pc = "hello_wait" /\ Hellos = {} /\ unanswered = {}
                    /\ session_id = hellos /\ params = hellos
    BY <1>0, <2>1 DEF OneAnswer
  <2> QED BY <2>1, <2>2, <2>3 DEF OneAnswer
<1>12. CASE ReceiveGoodbye \/ ReceiveTts
  <2>1. \E type : Receive(type)
    BY <1>12 DEF ReceiveGoodbye, ReceiveTts
  <2>2. UNCHANGED <<unanswered, mqtt_pc, parsing, gave_up, hellos, session, pc>>
    BY <1>12 DEF ReceiveGoodbye, ReceiveTts, mqtt_vars, server, history
  <2>3. \A i \in Hellos' : /\ i \in Nat \ {0} /\ i + 1 \in Hellos
                           /\ inbox'[i] = inbox[i + 1]
    BY <1>0, <2>1, ReceiveHellos
  <2>4. ~gave_up => /\ \A i, j \in Hellos' : i = j
                    /\ \A i \in Hellos' : inbox'[i].session = hellos
    <3>1. ASSUME ~gave_up, NEW i \in Hellos', NEW j \in Hellos' PROVE i = j
      <4>1. i + 1 = j + 1
        BY <1>0, <2>3, <3>1 DEF OneAnswer
      <4> QED BY <2>3, <4>1
    <3>2. ASSUME ~gave_up, NEW i \in Hellos' PROVE inbox'[i].session = hellos
      BY <1>0, <2>3, <3>2 DEF OneAnswer
    <3> QED BY <3>1, <3>2
  <2>5. Hellos' # {} => Hellos # {}
    BY <2>3
  <2> QED BY <1>0, <2>2, <2>4, <2>5 DEF OneAnswer, session
<1>13. CASE ServerHello
  <2> PICK s \in unanswered :
             /\ unanswered' = unanswered \ {s}
             /\ inbox' = Append(inbox, [type |-> "hello", session |-> s])
    BY <1>13 DEF ServerHello
  <2>1. UNCHANGED <<mqtt_pc, gave_up, hellos, pc, hello_responsed>>
    BY <1>13 DEF ServerHello, mqtt_vars, session, history
  <2>2. [type |-> "hello", session |-> s] \in Message
    BY <1>0 DEF TypeOK, Message
  <2>3. /\ Hellos' \subseteq Hellos \cup {Len(inbox) + 1}
        /\ inbox'[Len(inbox) + 1].session = s
    BY <1>0, <2>2, SendHellos
  <2>4. ~gave_up => /\ unanswered' = {} /\ s = hellos /\ Hellos = {} /\ mqtt_pc = "idle"
                    /\ pc = "hello_wait" /\ ~hello_responsed
    BY <1>0 DEF OneAnswer
  <2> QED BY <2>1, <2>3, <2>4 DEF OneAnswer
<1>14. CASE ServerSends
  <2> PICK s \in (1..hellos) \ unanswered :
             \E m \in {[type |-> "goodbye", session |-> s],
                       [type |-> "goodbye", session |-> NoSession],
                       [type |-> "tts_start"], [type |-> "tts_stop"]} :
               inbox' = Append(inbox, m)
    BY <1>14 DEF ServerSends
  <2> PICK m \in {[type |-> "goodbye", session |-> s],
                  [type |-> "goodbye", session |-> NoSession],
                  [type |-> "tts_start"], [type |-> "tts_stop"]} :
             inbox' = Append(inbox, m)
    OBVIOUS
  <2>1. s \in Session
    BY <1>0 DEF TypeOK, Session
  <2>2. m \in Message /\ m.type # "hello"
    BY <2>1 DEF Message
  <2>3. Hellos' = Hellos /\ \A i \in Hellos : inbox'[i] = inbox[i]
    BY <1>0, <2>2, SendHellos
  <2>4. UNCHANGED <<unanswered, mqtt_pc, parsing, gave_up, hellos, session, pc>>
    BY <1>14 DEF ServerSends, mqtt_vars, history
  <2> QED BY <1>0, <2>3, <2>4 DEF OneAnswer, session
<1>15. CASE ConnectionLost
  <2>1. /\ inbox' = <<>>
        /\ UNCHANGED <<unanswered, mqtt_pc, parsing, gave_up, hellos, session, pc>>
    BY <1>15 DEF ConnectionLost, Connect, mqtt_vars, server, history
  <2> QED BY <1>0, <2>1 DEF OneAnswer, Hellos, session
<1> QED
  BY <1>1, <1>2, <1>3, <1>4, <1>5, <1>6, <1>7, <1>8, <1>9, <1>10, <1>11, <1>12, <1>13,
     <1>14, <1>15, <1>16, <1>17 DEF Next, Main, Mqtt, Environment

(***************************************************************************)
(* The session of the channel.                                             *)
(***************************************************************************)
LEMMA KeysNext == IInv /\ [Next]_vars => ChannelKeepsItsKeys'
<1> SUFFICES ASSUME IInv, [Next]_vars PROVE ChannelKeepsItsKeys'
  OBVIOUS
<1> USE DEF ChannelKeepsItsKeys
<1>0. TypeOK /\ ChannelKeepsItsKeys /\ HelloOrder /\ OneAnswer
  BY DEF IInv
<1>1. CASE /\ UNCHANGED <<udp, peer, params, session_id, gave_up>>
           /\ pc \in {"hello_wait", "open_udp", "dead"}
                => pc' \in {"hello_wait", "open_udp", "dead"}
  BY <1>0, <1>1
<1>2. StartProtocol \/ StartProcessor \/ StartIdle \/ OpenBegin \/ OpenMqtt
        \/ OpenResetFlag \/ OpenHello \/ HelloArrived \/ Listen \/ ListenCommand
      => /\ UNCHANGED <<udp, peer, params, session_id, gave_up>>
         /\ pc \in {"hello_wait", "open_udp", "dead"}
              => pc' \in {"hello_wait", "open_udp", "dead"}
  BY DEF StartProtocol, StartProcessor, StartIdle, OpenBegin, BeginTask, OpenMqtt,
     OpenResetFlag, OpenHello, HelloArrived, Listen, ListenCommand, session, history
<1>3. Abort \/ CloseSend \/ BecomeIdle \/ TtsStart \/ TtsStop
      => /\ UNCHANGED <<udp, peer, params, session_id, gave_up>>
         /\ pc \in {"hello_wait", "open_udp", "dead"}
              => pc' \in {"hello_wait", "open_udp", "dead"}
  BY DEF Abort, CloseSend, BecomeIdle, TtsStart, TtsStop, BeginTask, session, history
<1>4. Ui \/ HelloFlag \/ ReceiveGoodbye \/ ReceiveTts \/ Environment \/ UNCHANGED vars
      => UNCHANGED <<udp, peer, params, session_id, gave_up, pc>>
  BY DEF Ui, PressKey, ScheduleKey, HelloFlag, ReceiveGoodbye, ReceiveTts,
     Environment, ServerHello, ServerSends, Connected, ConnectFailed,
     ConnectionLost, Connect, session, history, vars
<1>5. CASE CloseBegin
  BY <1>0, <1>5 DEF CloseBegin, session, history
<1>6. CASE HelloTimeout
  BY <1>0, <1>6 DEF HelloTimeout, session
<1>7. CASE OpenResetSession
  BY <1>0, <1>7 DEF OpenResetSession, history
\* The channel is opened with the parameters that came with the session's name.
<1>8. CASE OpenUdp
  <2>1. params # NoSession /\ UNCHANGED <<params, session_id, gave_up>>
    BY <1>0, <1>8 DEF OpenUdp, HelloOrder, session
  <2>2. \/ pc' = "dead" /\ UNCHANGED <<udp, peer>>
        \/ peer' = params
    BY <1>8 DEF OpenUdp
  <2>3. ~gave_up => session_id = params
    BY <1>0, <1>8 DEF OpenUdp, HelloOrder, OneAnswer
  <2> QED BY <1>0, <2>1, <2>2, <2>3
\* A hello that comes in is one that the main thread waits for.
<1>9. CASE ReceiveHello
  <2>1. Receive("hello") /\ UNCHANGED <<udp, peer, params, gave_up, pc>>
    BY <1>9 DEF ReceiveHello, history
  <2>2. 1 \in Hellos
    BY <1>0, <2>1, ReceiveHellos
  <2>3. ~gave_up => pc = "hello_wait"
    BY <1>0, <2>2 DEF OneAnswer
  <2> QED BY <1>0, <2>1, <2>3
<1>10. CASE HelloParams
  <2>1. UNCHANGED <<udp, peer, session_id, gave_up, pc>> /\ mqtt_pc # "idle"
    BY <1>10 DEF HelloParams, history
  <2>2. ~gave_up => pc = "hello_wait"
    BY <1>0, <2>1 DEF OneAnswer
  <2> QED BY <1>0, <2>1, <2>2
<1> QED
  BY <1>1, <1>2, <1>3, <1>4, <1>5, <1>6, <1>7, <1>8, <1>9, <1>10 DEF Next, Main, Mqtt

\* IInv holds in every reachable state of the chat session.
THEOREM Invariance == Spec => []IInv
<1>1. IInv /\ [Next]_vars => IInv'
  <2>1. IInv /\ [Next]_vars => TypeOK'
    BY NextType DEF IInv
  <2>2. IInv /\ [Next]_vars => Rest'
    BY MainRest, OthersRest DEF Next
  <2> QED BY <2>1, <2>2, MicNext, AnswerNext, KeysNext DEF IInv, Rest
<1> QED BY <1>1, InitIInv, PTL DEF Spec

\* Every variable keeps its type.
THEOREM TypeCorrect == Spec => []TypeOK
BY Invariance, PTL DEF IInv

\* Between tasks the audio processor runs when the device listens, and does
\* not when it speaks outside real time.
THEOREM MicrophoneFollowsState == Spec => []MicFollowsState
<1>1. IInv => MicFollowsState
  BY DEF IInv, AtRest, MicFollowsState
<1> QED BY <1>1, Invariance, PTL

\* Whoever listens has told the server, unless the microphone was on before.
THEOREM ListeningIsAnnounced == Spec => []ListensAfterTelling
<1>1. IInv => ListensAfterTelling
  BY DEF IInv, AtRest, MicAnnounced, ListensAfterTelling
<1> QED BY <1>1, Invariance, PTL

\* As long as no hello can be late the channel keeps the session it was opened for.
THEOREM KeysAreTheChannels == Spec => []ChannelKeepsItsKeys
<1>1. IInv => ChannelKeepsItsKeys
  BY DEF IInv
<1> QED BY <1>1, Invariance, PTL

\* As long as no hello can be late, OpenAudioChannel goes on with the parameters of
\* the answer to the hello it has just sent.
THEOREM AnswersThisHello == Spec => []AnswerIsToThisHello
<1>1. IInv => AnswerIsToThisHello
  BY DEF IInv, HelloOrder, OneAnswer, AnswerIsToThisHello
<1> QED BY <1>1, Invariance, PTL

\* The connecting state does not outlive its task while there is a topic.
THEOREM ConnectingDoesNotLast == Spec => []ConnectingIsTransient
<1>1. IInv => ConnectingIsTransient
  BY DEF IInv, AtRest, ConnectingIsTransient
<1> QED BY <1>1, Invariance, PTL

\* No UDP client is connected before an address has been received.
THEOREM AddressIsReady == Spec => []AddressReady
<1>1. IInv => AddressReady
  BY DEF IInv, HelloOrder, AddressReady
<1> QED BY <1>1, Invariance, PTL

\* The device state moves along the edges of LegalTransitions only.
THEOREM TransitionsAreLegal == Spec => LegalTransitions
<1>1. IInv /\ [Next]_vars =>
        [device_state' # device_state => <<device_state, device_state'>> \in Edges]_vars
  <2> SUFFICES ASSUME IInv, [Next]_vars, device_state' # device_state
               PROVE  <<device_state, device_state'>> \in Edges
    OBVIOUS
  <2>1. device_state' = "idle" => <<device_state, device_state'>> \in Edges
    BY DEF IInv, TypeOK, DeviceState, Edges
  <2>2. CASE Main
    <3> USE DEF IInv, TypeOK, StateByPC, DeviceState, Opening, Edges
    <3>1. CASE StartProtocol \/ StartProcessor \/ StartIdle
      BY <2>1, <3>1 DEF StartProtocol, StartProcessor, StartIdle, NewClient, Connect,
                        NetworkError, EnterIdle
    <3>2. CASE OpenBegin
      BY <3>2 DEF OpenBegin, BeginTask
    <3>3. CASE OpenMqtt \/ OpenHello \/ HelloTimeout
      BY <2>1, <3>3 DEF OpenMqtt, OpenHello, HelloTimeout, NewClient, Connect,
                        NetworkError, EnterIdle
    <3>4. CASE \/ OpenResetSession \/ OpenResetFlag \/ HelloArrived \/ OpenUdp
               \/ CloseBegin
      BY <3>4 DEF OpenResetSession, OpenResetFlag, HelloArrived, OpenUdp,
                  CloseBegin
    <3>5. CASE Listen
      BY <3>5 DEF Listen
    <3>6. CASE ListenCommand
      BY <2>1, <3>6 DEF ListenCommand, SendStartListening
    <3>7. CASE Abort \/ CloseSend \/ BecomeIdle
      BY <2>1, <3>7 DEF Abort, SendAbortSpeaking, CloseSend, BecomeIdle, NetworkError,
         EnterIdle
    <3>8. CASE TtsStart \/ TtsStop
      BY <3>8 DEF TtsStart, TtsStop
    <3> QED
      BY <2>2, <3>1, <3>2, <3>3, <3>4, <3>5, <3>6, <3>7, <3>8 DEF Main
  <2>3. CASE Ui \/ Mqtt \/ Environment
    BY <2>3 DEF Ui, PressKey, ScheduleKey, Mqtt, ReceiveHello, HelloParams,
                HelloFlag, ReceiveGoodbye, ReceiveTts, Environment, ServerHello,
                ServerSends, Connected, ConnectFailed, ConnectionLost
  <2>4. CASE UNCHANGED vars
    BY <2>4 DEF vars
  <2> QED BY <2>2, <2>3, <2>4 DEF Next
<1> QED BY <1>1, Invariance, PTL DEF Spec, LegalTransitions
=============================================================================
