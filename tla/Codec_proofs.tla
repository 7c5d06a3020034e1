---------------------------- MODULE Codec_proofs ----------------------------
(***************************************************************************)
(* Proofs about Codec and UiThread, for any sizes, sample rates and hellos *)
(* the assumptions allow.                                                  *)
(***************************************************************************)
EXTENDS Codec, TLAPS

(***************************************************************************)
(* Remainders.                                                             *)
(***************************************************************************)
LEMMA ModRange == ASSUME NEW a \in Int, NEW b \in Nat \ {0}
                  PROVE a % b \in 0..(b - 1)
  BY SMT

LEMMA SmallMod == ASSUME NEW a \in Nat, NEW b \in Nat, a < b
                  PROVE a % b = a
  BY SMT

\* compute_mod brings an index that is less than a round back into the ring.
LEMMA ComputeModInRing ==
  ASSUME NEW a \in Int, NEW b \in Nat, -b < a, a < b
  PROVE ComputeMod(a, b) \in 0..(b - 1)
<1>1. CASE a < 0
  <2>1. -a \in Nat /\ -a < b
    BY <1>1
  <2>2. (-a) % b = -a
    BY <2>1, SmallMod
  <2> QED BY <1>1, <2>2 DEF ComputeMod, Remainder
<1>2. CASE ~(a < 0)
  <2>1. a \in Nat
    BY <1>2
  <2>2. a % b = a
    BY <2>1, SmallMod
  <2> QED BY <1>2, <2>1, <2>2 DEF ComputeMod, Remainder
<1> QED BY <1>1, <1>2

LEMMA DelayInRing == Delay \in Nat /\ Delay < ArraySize
<1>1. OutBuffer \div 2 \in Nat
  BY ArrayAssumption
<1> QED BY <1>1, ArrayAssumption DEF Delay

\* Whatever the index, the samples drawn are in the ring.
LEMMA DrawnInRing ==
  ASSUME NEW index \in 0..(ArraySize - 1)
  PROVE Drawn(index) \subseteq 0..(ArraySize - 1)
<1>1. ArraySize \in Nat \ {0} /\ Width < ArraySize /\ Width \in Nat
  BY DelayInRing, ArrayAssumption DEF Delay
<1>2. ComputeMod(index - Delay, ArraySize) \in 0..(ArraySize - 1)
  BY <1>1, DelayInRing, ComputeModInRing
<1>3. DrawStarts(index) \subseteq 0..(ArraySize - 1)
  <2> DEFINE x == ComputeMod(index - Delay, ArraySize)
  <2>1. x \in 0..(ArraySize - 1)
    BY <1>2
  <2>2. DrawStarts(index) =
          {0, x} \cup {(ArraySize + x - i) % ArraySize : i \in 0..(Search - 1)}
    BY DEF DrawStarts
  <2> HIDE DEF x
  <2>3. ASSUME NEW i \in 0..(Search - 1)
        PROVE (ArraySize + x - i) % ArraySize \in 0..(ArraySize - 1)
    <3>1. ArraySize + x - i \in Int
      BY <1>1, <2>1, ArrayAssumption
    <3> QED BY <1>1, <3>1, ModRange
  <2> QED BY <1>1, <2>1, <2>2, <2>3
<1>4. ASSUME NEW start \in DrawStarts(index), NEW i \in 0..(Width - 1)
      PROVE (IF start + i >= ArraySize THEN start + i - ArraySize ELSE start + i)
              \in 0..(ArraySize - 1)
  <2>1. start \in 0..(ArraySize - 1)
    BY <1>3
  <2> QED BY <1>1, <2>1
<1> QED BY <1>4 DEF Drawn

LEMMA DisplayType ==
  ASSUME sample_array_index \in 0..(ArraySize - 1), NEW size \in Nat,
         UpdateSampleDisplay(size)
  PROVE sample_array_index' \in 0..(ArraySize - 1)
BY ModRange, DelayInRing, ArrayAssumption DEF UpdateSampleDisplay
-----------------------------------------------------------------------------
(***************************************************************************)
(* Init.                                                                   *)
(***************************************************************************)
LEMMA InitIInv == Init => IInv
<1> SUFFICES ASSUME Init PROVE IInv
  OBVIOUS
<1>1. TypeOK
  <2>1. UiTypeOK
    <3>1. 0 \in 0..(ArraySize - 1)
      BY DelayInRing, ArrayAssumption
    <3> QED BY <3>1 DEF Init, UiInit, UiTypeOK
  <2>2. 0 \in 0..1 /\ 0 \in 0..(FrameSize + 1) /\ 0 \in 0..MaxUnanswered
        /\ ServerFormat \in Formats
    BY FormatAssumption, FrameAssumption, BoundAssumption
  <2>3. streams = {} /\ running = {} /\ DOMAIN source = Stream
    BY DEF Init
  <2> QED BY <2>1, <2>2, <2>3, Zenon DEF Init, TypeOK
<1>2. DrawnInBounds
  BY <1>1, DrawnInRing DEF DrawnInBounds, TypeOK, UiTypeOK
<1>3. Handshake /\ BootIsQuiet /\ CallOwner /\ Switching
  BY DEF Init, UiInit, Handshake, BootIsQuiet, CallOwner, Switching, Formatting
<1>4. OneAnswer /\ FormatIsServers /\ NoPhantomFrames
  BY BoundAssumption DEF Init, OneAnswer, Pending, FormatIsServers, NoPhantomFrames
<1> QED BY <1>1, <1>2, <1>3, <1>4 DEF IInv
-----------------------------------------------------------------------------
(***************************************************************************)
(* Types, one step per actor.                                              *)
(***************************************************************************)
LEMMA UiType ==
  ASSUME UiTypeOK, [Next]_vars, TypeOK
  PROVE UiTypeOK'
<1> USE DEF UiTypeOK, ui_thread, start_vars, shown, vars
<1>1. CASE StartUi
  BY <1>1 DEF StartUi, Start, CreateThread, CheckInited, SpuriousWakeup, Publish,
     Leave, Join
<1>2. CASE EnableOutput
  BY <1>2 DEF EnableOutput, SwitchDevice, SetFlag, SetLight, TypeOK
<1>3. CASE Main
  BY <1>3 DEF Main, StartCodec, OpenDevices, EnableBoth, FinishStart,
     ResetDecoder, SwitchState, Task,
     CloseChannel, PublishHello, HelloTimeout, OpenUdp, OnAudioChannelOpened,
     DropDecoder, MakeDecoder, TestOutput, PauseOutput, SetFormat, ResumeOutput, Listen
<1>4. CASE ReadAudio
  <2>1. Got \in Nat
    BY FrameAssumption DEF Got, TypeOK
  <2>2. sample_array_index' \in 0..(ArraySize - 1)
    BY <1>4, <2>1, DisplayType DEF ReadAudio
  <2> QED BY <1>4, <2>2 DEF ReadAudio
<1>5. CASE SkipInput \/ SkipOutput \/ DisableOutput \/ ScheduleDecode
  BY <1>5 DEF SkipInput, SkipOutput, DisableOutput, ScheduleDecode
<1>6. CASE Write
  <2>1. sample_array_index' \in 0..(ArraySize - 1)
    <3>1. ASSUME NEW samples \in 1..FrameSize, UpdateSampleDisplay(samples)
          PROVE sample_array_index' \in 0..(ArraySize - 1)
      BY <3>1, DisplayType, FrameAssumption
    <3> QED BY <1>6, <3>1 DEF Write
  <2> QED BY <1>6, <2>1 DEF Write
<1>7. CASE BeginDecode \/ EndDecode \/ Mqtt \/ Record
  BY <1>7 DEF BeginDecode, EndDecode, Mqtt, Alert, ReceiveHello, HelloFlag, Record
<1>8. CASE UNCHANGED vars
  BY <1>8
<1> QED BY <1>1, <1>2, <1>3, <1>4, <1>5, <1>6, <1>7, <1>8 DEF Next, AudioLoop, Worker

LEMMA CodecType ==
  ASSUME TypeOK, [Next]_vars, UiTypeOK'
  PROVE TypeOK'
<1> USE DEF TypeOK, ui_thread, start_vars, devices, flags, decoding, app, call, input,
     work, hello, vars
<1>1. CASE StartUi
  BY <1>1 DEF StartUi
<1>2. CASE EnableOutput
  <2>1. ASSUME Return
        PROVE /\ holder' \in Thread \cup {"none"} /\ enable' \in BOOLEAN
              /\ at' \in {"device", "flag", "light"}
              /\ main' \in {"run", main} /\ loop' \in {"input", loop}
              /\ mqtt' \in {"idle", mqtt}
    BY <2>1 DEF Return
  <2>2. CASE SwitchDevice
    <3>1. CASE enable = output_enabled
      BY <2>1, <2>2, <3>1 DEF SwitchDevice
    <3>2. CASE enable # output_enabled
      <4>1. running' \in SUBSET streams
        BY <2>2, <3>2 DEF SwitchDevice
      <4> QED BY <2>2, <3>2, <4>1 DEF SwitchDevice
    <3> QED BY <3>1, <3>2
  <2>3. CASE SetFlag
    BY <2>3 DEF SetFlag
  <2>4. CASE SetLight
    BY <2>1, <2>4 DEF SetLight
  <2> QED BY <1>2, <2>2, <2>3, <2>4 DEF EnableOutput
<1> DEFINE Caller(t) == holder' = t /\ enable' \in BOOLEAN /\ at' = "device"
                        /\ crossed' \in BOOLEAN
<1>3. ASSUME NEW t \in Thread, NEW b \in BOOLEAN, Enter(t, b) PROVE Caller(t)
  BY <1>3 DEF Enter, Formatting
<1> HIDE DEF Caller
<1>4. CASE StartCodec
  <2>1. streams' \in SUBSET Stream /\ running' \in SUBSET streams'
    BY <1>4 DEF StartCodec, OpenDevices, EnableBoth, Stream
  <2> QED BY <1>4, <2>1, FormatAssumption DEF StartCodec, OpenDevices, EnableBoth
<1>5. CASE FinishStart \/ SwitchState
  BY <1>5 DEF FinishStart, SwitchState
<1>6. CASE ResetDecoder
  <2>1. Caller("main")
    BY <1>3, <1>6 DEF ResetDecoder, Thread
  <2> QED BY <1>6, <2>1 DEF ResetDecoder, Caller, Thread
<1>7. CASE Task \/ CloseChannel \/ Listen
  BY <1>7 DEF Task, SetDeviceState, CloseChannel, Listen
<1>8. CASE PublishHello
  <2>1. unanswered' \in 0..MaxUnanswered
    BY <1>8, BoundAssumption DEF PublishHello
  <2>2. /\ device_state' \in {"idle", device_state} /\ main' \in {"wait", "hello"}
        /\ responded' \in BOOLEAN
    BY <1>8 DEF PublishHello, SetDeviceState
  <2> QED BY <1>8, <2>1, <2>2 DEF PublishHello, Opening
<1>9. CASE HelloTimeout \/ OpenUdp
  BY <1>9 DEF HelloTimeout, OpenUdp, SetDeviceState, Opening
<1>10. CASE OnAudioChannelOpened \/ DropDecoder \/ MakeDecoder
  BY <1>10 DEF OnAudioChannelOpened, DropDecoder, MakeDecoder, Opening
<1>11. CASE TestOutput \/ PauseOutput \/ ResumeOutput
  <2>1. running' \in SUBSET streams' /\ crossed' \in BOOLEAN
    BY <1>11 DEF TestOutput, PauseOutput, ResumeOutput
  <2> QED BY <1>11, <2>1 DEF TestOutput, PauseOutput, ResumeOutput, Opening,
       Formatting
<1>12. CASE SetFormat
  <2>1. DOMAIN source' = Stream
    BY <1>12 DEF SetFormat
  <2> QED BY <1>12, <2>1 DEF SetFormat, Opening, Formatting
<1>13. CASE ReadAudio
  <2>1. Got \in 0..available
    BY FrameAssumption DEF Got
  <2>2. available' \in 0..(FrameSize + 1)
    BY <1>13, <2>1, FrameAssumption DEF ReadAudio
  <2> QED BY <1>13, <2>2 DEF ReadAudio
<1>14. CASE SkipInput \/ SkipOutput \/ ScheduleDecode
  BY <1>14 DEF SkipInput, SkipOutput, ScheduleDecode
<1>15. CASE DisableOutput
  <2>1. Caller("loop")
    BY <1>3, <1>15 DEF DisableOutput, Thread
  <2> QED BY <1>15, <2>1 DEF DisableOutput, Caller, Thread
<1>16. CASE Worker
  BY <1>16 DEF Worker, BeginDecode, EndDecode, Write
<1>17. CASE Alert
  <2>1. Caller("mqtt")
    BY <1>3, <1>17 DEF Alert, Thread
  <2> QED BY <1>17, <2>1 DEF Alert, Caller, Thread
<1>18. CASE ReceiveHello
  <2>1. unanswered' \in 0..MaxUnanswered
    BY <1>18, BoundAssumption DEF ReceiveHello
  <2> QED BY <1>18, <2>1 DEF ReceiveHello
<1>19. CASE HelloFlag
  <2>1. responded' \in BOOLEAN
    BY <1>19, Zenon DEF HelloFlag
  <2> QED BY <1>19, <2>1 DEF HelloFlag
<1>20. CASE Record
  BY <1>20, FrameAssumption DEF Record
<1>21. CASE UNCHANGED vars
  BY <1>21
<1> QED BY <1>1, <1>2, <1>4, <1>5, <1>6, <1>7, <1>8, <1>9, <1>10, <1>11, <1>12, <1>13,
     <1>14, <1>15, <1>16, <1>17, <1>18, <1>19, <1>20, <1>21
     DEF Next, Main, AudioLoop, Mqtt
-----------------------------------------------------------------------------
(***************************************************************************)
(* The other parts of the invariant.                                       *)
(***************************************************************************)
LEMMA HandshakeNext ==
  ASSUME UiTypeOK, Handshake, [Next]_vars
  PROVE Handshake'
<1>1. CASE StartUi
  BY <1>1 DEF Handshake, UiTypeOK, StartUi, Start, CreateThread, CheckInited,
     SpuriousWakeup, Publish, Leave, Join
<1>2. CASE UNCHANGED start_vars
  BY <1>2 DEF start_vars, Handshake
<1> USE DEF ui_thread, vars
<1>3. EnableOutput => UNCHANGED start_vars
  BY DEF EnableOutput, SwitchDevice, SetFlag, SetLight
<1>4. Main => UNCHANGED start_vars
  BY DEF Main, StartCodec, OpenDevices, EnableBoth, FinishStart, ResetDecoder,
     SwitchState, Task,
     CloseChannel, PublishHello, HelloTimeout, OpenUdp, OnAudioChannelOpened,
     DropDecoder, MakeDecoder, TestOutput, PauseOutput, SetFormat, ResumeOutput, Listen
<1>5. AudioLoop => UNCHANGED start_vars
  BY DEF AudioLoop, SkipInput, ReadAudio, SkipOutput, DisableOutput, ScheduleDecode
<1>6. Worker \/ Mqtt \/ Record => UNCHANGED start_vars
  BY DEF Worker, BeginDecode, EndDecode, Write, Mqtt, Alert, ReceiveHello, HelloFlag,
     Record
<1> QED BY <1>1, <1>2, <1>3, <1>4, <1>5, <1>6 DEF Next

LEMMA BootNext ==
  ASSUME TypeOK, BootIsQuiet, [Next]_vars
  PROVE BootIsQuiet'
<1> USE DEF BootIsQuiet, ui_thread, start_vars, shown, devices, flags, decoding, app,
     call, input, work, hello, vars
<1>1. CASE StartUi
  BY <1>1 DEF StartUi
<1>2. CASE EnableOutput
  BY <1>2 DEF EnableOutput, SwitchDevice, SetFlag, SetLight, Return
<1>3. CASE Main
  BY <1>3 DEF Main, StartCodec, OpenDevices, EnableBoth, FinishStart,
     ResetDecoder, Enter, SwitchState, Task,
     SetDeviceState, CloseChannel, PublishHello, HelloTimeout, OpenUdp,
     OnAudioChannelOpened, DropDecoder, MakeDecoder, TestOutput, PauseOutput, SetFormat,
     ResumeOutput, Listen
<1>4. CASE AudioLoop
  BY <1>4 DEF AudioLoop, SkipInput, ReadAudio, SkipOutput, DisableOutput, Enter,
     ScheduleDecode
<1>5. CASE Worker
  BY <1>5 DEF Worker, BeginDecode, EndDecode, Write
<1>6. CASE Mqtt
  <2>1. /\ UNCHANGED <<app, running, input_enabled, output_enabled, ui_output_enabled,
                       phantom>>
        /\ main = "boot" => UNCHANGED holder
    BY <1>6 DEF Mqtt, Alert, ReceiveHello, HelloFlag
  <2> QED BY <2>1
<1>7. CASE Record
  BY <1>7 DEF Record
<1>8. CASE UNCHANGED vars
  BY <1>8
<1> QED BY <1>1, <1>2, <1>3, <1>4, <1>5, <1>6, <1>7, <1>8 DEF Next

LEMMA OwnerNext ==
  ASSUME TypeOK, CallOwner, [Next]_vars
  PROVE CallOwner'
<1> USE DEF CallOwner, devices, flags, decoding, app, call, input, work, hello, vars
<1>1. CASE StartUi
  BY <1>1 DEF StartUi
<1>2. CASE EnableOutput
  BY <1>2 DEF EnableOutput, SwitchDevice, SetFlag, SetLight, Return, TypeOK, Thread
<1>3. CASE Main
  BY <1>3 DEF Main, StartCodec, OpenDevices, EnableBoth, FinishStart,
     ResetDecoder, Enter, SwitchState, Task,
     SetDeviceState, CloseChannel, PublishHello, HelloTimeout, OpenUdp,
     OnAudioChannelOpened, DropDecoder, MakeDecoder, TestOutput, PauseOutput, SetFormat,
     ResumeOutput, Listen
<1>4. CASE AudioLoop
  BY <1>4 DEF AudioLoop, SkipInput, ReadAudio, SkipOutput, DisableOutput, Enter,
     ScheduleDecode
<1>5. CASE Worker \/ Mqtt \/ Record
  BY <1>5 DEF Worker, BeginDecode, EndDecode, Write, Mqtt, Alert, Enter, ReceiveHello,
     HelloFlag, Record
<1>6. CASE UNCHANGED vars
  BY <1>6
<1> QED BY <1>1, <1>2, <1>3, <1>4, <1>5, <1>6 DEF Next

LEMMA SwitchingNext ==
  ASSUME TypeOK, BootIsQuiet, CallOwner, Switching, [Next]_vars
  PROVE Switching'
<1> USE DEF Switching, ui_thread, start_vars, shown, devices, flags, decoding, app, call,
     input, work, hello, vars
<1>1. CASE StartUi
  BY <1>1 DEF StartUi
<1>2. CASE SwitchDevice
  BY <1>2 DEF SwitchDevice, Return, Formatting, TypeOK, CallOwner
<1>3. CASE SetFlag
  <2>1. at = "flag" /\ at' = "light" /\ output_enabled' = enable
    BY <1>3 DEF SetFlag
  <2>2. UNCHANGED <<ui_output_enabled, running, streams, main, enable, holder, crossed>>
    BY <1>3 DEF SetFlag
  <2>3. ~crossed => main \notin Formatting
    BY <1>3 DEF SetFlag
  <2> QED BY <2>1, <2>2, <2>3 DEF Formatting
<1>4. CASE SetLight
  BY <1>4 DEF SetLight, Return, Formatting, CallOwner
<1>5. CASE StartCodec
  BY <1>5 DEF StartCodec, OpenDevices, EnableBoth, BootIsQuiet, CallOwner, Formatting
<1>6. CASE ResetDecoder \/ Alert \/ DisableOutput
  <2>1. at = "device" /\ at' = "device" /\ (~crossed' => ~crossed /\ main \notin Formatting)
    BY <1>6 DEF ResetDecoder, Alert, DisableOutput, Enter, CallOwner
  <2>2. main' \in {main, "resetting"}
    BY <1>6 DEF ResetDecoder, Alert, DisableOutput
  <2>3. UNCHANGED <<ui_output_enabled, running, streams, output_enabled>>
    BY <1>6 DEF ResetDecoder, Alert, DisableOutput
  <2> QED BY <2>1, <2>2, <2>3 DEF Formatting
<1>7. CASE TestOutput
  BY <1>7 DEF TestOutput, CallOwner, Formatting
<1>8. CASE PauseOutput
  BY <1>8 DEF PauseOutput, CallOwner, Formatting
<1>9. CASE SetFormat
  BY <1>9 DEF SetFormat, CallOwner, Formatting
<1>10. CASE ResumeOutput
  BY <1>10 DEF ResumeOutput, CallOwner, Formatting
<1>11. CASE FinishStart \/ SwitchState \/ Task \/ CloseChannel \/ Listen
  BY <1>11 DEF FinishStart, SwitchState, Task, SetDeviceState, CloseChannel, Listen,
     Formatting
<1>12. CASE PublishHello \/ HelloTimeout \/ OpenUdp \/ OnAudioChannelOpened
  BY <1>12 DEF PublishHello, SetDeviceState, HelloTimeout, OpenUdp,
     OnAudioChannelOpened,
     Formatting
<1>13. CASE DropDecoder \/ MakeDecoder
  BY <1>13 DEF DropDecoder, MakeDecoder, Formatting
<1>14. CASE SkipInput \/ ReadAudio \/ SkipOutput \/ ScheduleDecode
  BY <1>14 DEF SkipInput, ReadAudio, SkipOutput, ScheduleDecode
<1>15. CASE Worker \/ ReceiveHello \/ HelloFlag \/ Record
  <2>1. UNCHANGED <<ui_output_enabled, running, streams, output_enabled, main, call,
                    crossed>>
    BY <1>15 DEF Worker, BeginDecode, EndDecode, Write, ReceiveHello,
       HelloFlag, Record
  <2> QED BY <2>1
<1>16. CASE UNCHANGED vars
  BY <1>16
<1> QED BY <1>1, <1>2, <1>3, <1>4, <1>5, <1>6, <1>7, <1>8, <1>9, <1>10, <1>11, <1>12,
     <1>13, <1>14, <1>15, <1>16 DEF Next, EnableOutput, Main, AudioLoop, Mqtt
LEMMA AnswerNext ==
  ASSUME TypeOK, CallOwner, OneAnswer, [Next]_vars
  PROVE OneAnswer'
<1> USE DEF OneAnswer, Pending, app, call, input, work, hello, vars
<1>0. unanswered \in Nat
  BY BoundAssumption DEF TypeOK
<1>1. CASE UNCHANGED <<main, mqtt, unanswered, responded, gave_up>>
  BY <1>1
<1>2. StartUi \/ SetFlag \/ Record \/ Worker => UNCHANGED <<main, hello>>
  BY DEF StartUi, SetFlag, Record, Worker, BeginDecode, EndDecode, Write
<1>3. CASE SwitchDevice \/ SetLight
  <2>1. /\ UNCHANGED <<unanswered, responded, gave_up>>
        /\ (main' = main \/ (holder = "main" /\ main' = "run"))
        /\ (mqtt' = mqtt \/ (holder = "mqtt" /\ mqtt' = "idle"))
    <3>1. ASSUME Return
          PROVE /\ (main' = main \/ (holder = "main" /\ main' = "run"))
                /\ (mqtt' = mqtt \/ (holder = "mqtt" /\ mqtt' = "idle"))
      BY <3>1 DEF Return
    <3>2. CASE SwitchDevice
      BY <3>1, <3>2 DEF SwitchDevice
    <3>3. CASE SetLight
      BY <3>1, <3>3 DEF SetLight
    <3> QED BY <1>3, <3>2, <3>3
  <2> QED BY <1>0, <2>1 DEF CallOwner
<1>4. CASE PublishHello
  <2>1. CASE main' = "wait"
    BY <1>4, <2>1 DEF PublishHello, SetDeviceState
  <2>2. CASE main' = "hello"
    BY <1>0, <1>4, <2>2 DEF PublishHello, SetDeviceState
  <2> QED BY <1>4, <2>1, <2>2 DEF PublishHello, SetDeviceState
<1>5. CASE HelloTimeout
  BY <1>5 DEF HelloTimeout
<1>6. CASE OpenUdp
  BY <1>0, <1>6 DEF OpenUdp, TypeOK
<1>7. CASE StartCodec \/ FinishStart \/ ResetDecoder \/ SwitchState \/ Task
           \/ CloseChannel \/ Listen
  <2>1. main # "hello" /\ main' # "hello" /\ UNCHANGED hello
    BY <1>7 DEF StartCodec, OpenDevices, EnableBoth, FinishStart, ResetDecoder,
       SwitchState, Task,
       SetDeviceState, CloseChannel, Listen
  <2> QED BY <2>1
<1>8. CASE OnAudioChannelOpened \/ DropDecoder \/ MakeDecoder \/ TestOutput
           \/ PauseOutput \/ SetFormat \/ ResumeOutput
  <2>1. main # "hello" /\ main' # "hello" /\ UNCHANGED hello
    BY <1>8 DEF OnAudioChannelOpened, DropDecoder, MakeDecoder, TestOutput,
       PauseOutput, SetFormat, ResumeOutput
  <2> QED BY <2>1
<1>9. AudioLoop => UNCHANGED <<main, hello>>
  BY DEF AudioLoop, SkipInput, ReadAudio, SkipOutput, DisableOutput, ScheduleDecode
<1>10. CASE Alert
  BY <1>10 DEF Alert
<1>11. CASE ReceiveHello
  BY <1>0, <1>11 DEF ReceiveHello
<1>12. CASE HelloFlag
  <2>1. /\ UNCHANGED <<main, unanswered, gave_up>>
        /\ mqtt = "hello" /\ mqtt' = "idle" /\ responded' \in {responded, TRUE}
    BY <1>12 DEF HelloFlag
  <2> QED BY <1>0, <2>1 DEF TypeOK
<1> QED BY <1>1, <1>2, <1>3, <1>4, <1>5, <1>6, <1>7, <1>8, <1>9, <1>10, <1>11, <1>12
     DEF Next, EnableOutput, Main, Mqtt

LEMMA FormatNext ==
  ASSUME TypeOK, BootIsQuiet, CallOwner, OneAnswer, FormatIsServers, [Next]_vars
  PROVE FormatIsServers'
<1> USE DEF FormatIsServers, decoding, app, hello, vars
<1>1. CASE UNCHANGED <<main, channel, asked, decoder, server, gave_up>>
  BY <1>1
<1>2. StartUi \/ SetFlag \/ Record \/ Worker \/ Alert \/ HelloFlag
        => UNCHANGED <<main, channel, asked, decoder, server, gave_up>>
  BY DEF StartUi, SetFlag, Record, Worker, BeginDecode, EndDecode, Write,
     Alert, HelloFlag
<1>3. CASE SwitchDevice \/ SetLight
  <2>1. /\ UNCHANGED <<channel, asked, decoder, server, gave_up>>
        /\ (main' = main \/ (holder = "main" /\ main' = "run"))
    <3>1. ASSUME Return PROVE (main' = main \/ (holder = "main" /\ main' = "run"))
      BY <3>1 DEF Return
    <3>2. CASE SwitchDevice
      BY <3>1, <3>2 DEF SwitchDevice
    <3>3. CASE SetLight
      BY <3>1, <3>3 DEF SetLight
    <3> QED BY <1>3, <3>2, <3>3
  <2> QED BY <2>1 DEF CallOwner
<1>4. CASE StartCodec
  BY <1>4 DEF StartCodec, OpenDevices, EnableBoth, BootIsQuiet
<1>5. CASE FinishStart \/ ResetDecoder \/ SwitchState \/ Task \/ PublishHello \/ Listen
  <2>1. /\ UNCHANGED <<channel, asked, decoder, server, gave_up>>
        /\ main \in {"start", "reset", "wait", "run", "open", "listen"}
        /\ main' \notin {"drop", "make"}
    BY <1>5 DEF FinishStart, ResetDecoder, SwitchState, Task, SetDeviceState,
       PublishHello, Listen
  <2> QED BY <2>1
<1>6. CASE CloseChannel
  BY <1>6 DEF CloseChannel
<1>7. CASE HelloTimeout
  BY <1>7 DEF HelloTimeout
<1>8. CASE OpenUdp
  BY <1>8 DEF OpenUdp
<1>9. CASE OnAudioChannelOpened
  BY <1>9 DEF OnAudioChannelOpened
<1>10. CASE DropDecoder \/ MakeDecoder
  BY <1>10 DEF DropDecoder, MakeDecoder
<1>11. CASE TestOutput \/ PauseOutput \/ SetFormat \/ ResumeOutput
  <2>1. /\ UNCHANGED <<channel, asked, decoder, server, gave_up>>
        /\ main \in {"test", "pause", "format", "resume"}
        /\ main' \in {"pause", "format", "resume", "listen"}
    BY <1>11 DEF TestOutput, PauseOutput, SetFormat, ResumeOutput
  <2> QED BY <2>1
<1>12. AudioLoop => UNCHANGED <<main, channel, asked, decoder, server, gave_up>>
  BY DEF AudioLoop, SkipInput, ReadAudio, SkipOutput, DisableOutput, ScheduleDecode
<1>13. CASE ReceiveHello
  <2>1. UNCHANGED <<main, channel, asked, decoder, gave_up>> /\ unanswered > 0
    BY <1>13 DEF ReceiveHello
  <2>2. ~gave_up => main = "hello"
    BY <2>1 DEF OneAnswer
  <2> QED BY <2>1, <2>2
<1> QED BY <1>1, <1>2, <1>3, <1>4, <1>5, <1>6, <1>7, <1>8, <1>9, <1>10, <1>11, <1>12,
     <1>13 DEF Next, EnableOutput, Main, Mqtt

LEMMA PhantomNext ==
  ASSUME TypeOK, BootIsQuiet, NoPhantomFrames, [Next]_vars
  PROVE NoPhantomFrames'
<1> USE DEF NoPhantomFrames, devices, input, vars
<1>1. CASE UNCHANGED <<streams, phantom>>
  BY <1>1
<1>2. StartUi \/ EnableOutput => UNCHANGED <<streams, phantom>>
  BY DEF StartUi, EnableOutput, SwitchDevice, SetFlag, SetLight
<1>3. CASE StartCodec
  BY <1>3 DEF StartCodec, OpenDevices, EnableBoth, BootIsQuiet
<1>4. Main => StartCodec \/ UNCHANGED <<streams, phantom>>
  BY DEF Main, FinishStart, ResetDecoder, SwitchState, Task,
     CloseChannel, PublishHello, HelloTimeout, OpenUdp, OnAudioChannelOpened,
     DropDecoder, MakeDecoder, TestOutput, PauseOutput, SetFormat, ResumeOutput, Listen
<1>5. CASE ReadAudio
  <2>1. ASSUME "in" \in streams PROVE phantom' = phantom
    <3>1. 2 * available \in Nat /\ 2 * available < SizeLimit
      BY FrameAssumption DEF TypeOK
    <3>2. Bytes % SizeLimit = 2 * available
      BY <2>1, <3>1, SmallMod, FrameAssumption DEF Bytes
    <3>3. available > FrameSize /\ FeedSize = FrameSize
      BY <1>5, <3>2, FrameAssumption DEF ReadAudio, FeedSize, TypeOK
    <3>4. input_enabled
      BY <1>5 DEF ReadAudio, BootIsQuiet
    <3>5. Got = FrameSize
      BY <2>1, <3>3, <3>4, FrameAssumption DEF Got, TypeOK
    <3>6. ~(Got < FeedSize)
      BY <3>3, <3>5, FrameAssumption
    <3>7. phantom' = (phantom \/ Got < FeedSize)
      BY <1>5 DEF ReadAudio
    <3> QED BY <3>6, <3>7, Zenon DEF TypeOK
  <2>2. UNCHANGED streams
    BY <1>5 DEF ReadAudio
  <2> QED BY <2>1, <2>2
<1>6. AudioLoop => ReadAudio \/ UNCHANGED <<streams, phantom>>
  BY DEF AudioLoop, SkipInput, SkipOutput, DisableOutput, ScheduleDecode
<1>7. Worker \/ Mqtt \/ Record => UNCHANGED <<streams, phantom>>
  BY DEF Worker, BeginDecode, EndDecode, Write, Mqtt, Alert, ReceiveHello, HelloFlag,
     Record
<1> QED BY <1>1, <1>2, <1>3, <1>4, <1>5, <1>6, <1>7 DEF Next
-----------------------------------------------------------------------------
(***************************************************************************)
(* The theorems.                                                           *)
(***************************************************************************)
\* IInv is invariant: the handshake of the start, who is in EnableOutput, what
\* the device, the flag and the window are at each point of a call, and what a
\* hello may still change.
THEOREM Invariance == Spec => []IInv
<1>1. IInv /\ [Next]_vars => IInv'
  <2> SUFFICES ASSUME IInv, [Next]_vars PROVE IInv'
    OBVIOUS
  <2>1. /\ TypeOK /\ UiTypeOK /\ Handshake /\ BootIsQuiet /\ CallOwner /\ Switching
        /\ OneAnswer /\ FormatIsServers /\ NoPhantomFrames
    BY DEF IInv, TypeOK
  <2>2. UiTypeOK'
    BY <2>1, UiType
  <2>3. TypeOK'
    BY <2>1, <2>2, CodecType
  <2>4. DrawnInBounds'
    BY <2>2, DrawnInRing DEF DrawnInBounds, UiTypeOK
  <2>5. Handshake' /\ BootIsQuiet' /\ CallOwner' /\ Switching'
    BY <2>1, HandshakeNext, BootNext, OwnerNext, SwitchingNext
  <2>6. OneAnswer' /\ FormatIsServers' /\ NoPhantomFrames'
    BY <2>1, AnswerNext, FormatNext, PhantomNext
  <2> QED BY <2>3, <2>4, <2>5, <2>6 DEF IInv
<1> QED BY <1>1, InitIInv, PTL DEF Spec

\* Between two calls the device, the flag and the window agree.
THEOREM SpeakerFollows == Spec => []SpeakerFollowsFlag
<1>1. IInv => SpeakerFollowsFlag
  BY DEF IInv, CallOwner, Switching, SpeakerFollowsFlag
<1> QED BY <1>1, Invariance, PTL

\* Packets are decoded with the format the server has named.
THEOREM DecoderMatches == Spec => []DecoderMatchesServer
<1>1. IInv => DecoderMatchesServer
  BY DEF IInv, FormatIsServers, DecoderMatchesServer, Opening
<1> QED BY <1>1, Invariance, PTL

\* With a microphone, only what it recorded is fed.
THEOREM OnlyRecordedFrames == Spec => []NoPhantomFrames
<1>1. IInv => NoPhantomFrames
  BY DEF IInv
<1> QED BY <1>1, Invariance, PTL

\* Drawing looks at no sample outside of the rings.
THEOREM DrawingInBounds == Spec => []DrawnInBounds
<1>1. IInv => DrawnInBounds
  BY DEF IInv
<1> QED BY <1>1, Invariance, PTL
=============================================================================
