------------------------------ MODULE Requests ------------------------------
(***************************************************************************)
(* From a request to its response: exec_command (server/parsing.c) on      *)
(* every line, with the LED and the light sensor behind it (device/led,    *)
(* device/light).                                                          *)
(*                                                                         *)
(* The main thread waits for each task it gives the LED's or the sensor's  *)
(* worker, so a call is one step; DeviceWorker has the inside of it.  The  *)
(* buzzer's and the display's calls answer here and have modules of their  *)
(* own.  A response is its first word with the values in it.               *)
(***************************************************************************)
EXTENDS Command, DeviceResult

CONSTANTS
  MaxTokens,     \* bound: the tokens of a line
  LastWord       \* bound: what a fourth token is; only whether there is one
                 \* makes a difference

ASSUME RequestsConstants == MaxTokens \in Nat /\ LastWord \subseteq Word

VARIABLES
  pc, line, response,
  led_state, pwm_started,      \* led.c
  level, duty,                 \* the pin; softPwm's thread on it
  last_light_value,            \* light.c
  \* history
  sensed,                      \* what the sensor last read
  before                       \* the pin when the request began

plugin == <<led_state, pwm_started>>
pin == <<level, duty>>
light == <<last_light_value, sensed>>
vars == <<pc, line, response, plugin, pin, light, before>>

NoPwm == -1              \* no thread drives the pin
NoValue == -1
NoResponse == "NONE"

Init ==
  /\ pc = "read" /\ line = << >> /\ response = [head |-> NoResponse]
  /\ led_state = FALSE /\ pwm_started = FALSE
  /\ level = "LOW" /\ duty = NoPwm
  /\ last_light_value = NoValue /\ sensed = NoValue
  /\ before = pin

-----------------------------------------------------------------------------
(* led.c and light.c *)

(* softPwmStop, if softPwm's thread was started, and the level. *)
DrivePin(l) == pwm_started' = FALSE /\ duty' = NoPwm /\ level' = l

(* Mutant: PWM is not stopped. *)
LedOnKeepsPwm ==
  level' = "HIGH" /\ led_state' = TRUE /\ UNCHANGED <<pwm_started, duty>>

LedOn == DrivePin("HIGH") /\ led_state' = TRUE
LedOff == DrivePin("LOW") /\ led_state' = FALSE

(* Mutant: the LED counts as on at any brightness. *)
LedOnBrightIsOn(brightness) ==
  /\ pwm_started' = TRUE /\ duty' = brightness /\ level' = "LOW"
  /\ led_state' = TRUE

(* softPwmCreate drives the pin LOW before its thread starts. *)
LedOnBright(brightness) ==
  /\ pwm_started' = TRUE /\ duty' = brightness /\ level' = "LOW"
  /\ led_state' = (brightness > 0)

(* light_read; nothing but the light decides what it is. *)
LightRead(v) == last_light_value' = v /\ sensed' = v

-----------------------------------------------------------------------------
(* Requests *)

ReadToken ==
  /\ pc = "read" /\ Len(line) < MaxTokens
  /\ \E w \in IF Len(line) = 3 THEN LastWord ELSE Word : line' = Append(line, w)
  /\ UNCHANGED <<pc, response, plugin, pin, light, before>>

(* What the device modules' functions are asked to do. *)
command == command_parse(line)

Answer(r) ==
  /\ pc' = "answered" /\ response' = r
  /\ UNCHANGED <<line, before>>

Ok(value) == [head |-> "OK", type |-> command.type, value |-> value]
DeviceError(result) == [head |-> "ERR", type |-> result]

(* A task cannot be created, or the copy of its argument. *)
SubmitFails ==
  /\ command.type \in {"LED_ON", "LED_ON_BRIGHT", "LED_OFF", "LIGHT_READ",
                       "BUZZER_MUSIC", "BUZZER_ON", "BUZZER_BEEP"}
  /\ Answer(DeviceError("DEVICE_FAILED"))
  /\ UNCHANGED <<plugin, pin, light>>

Reject ==
  /\ command.type \in Rejection
  /\ Answer([head |-> "ERR", type |-> command.type])
  /\ UNCHANGED <<plugin, pin, light>>

(* The commands whose text does not depend on the LED or the sensor. *)
ExecuteElsewhere ==
  /\ command.type \in {"HELP", "BUZZER_MUSIC", "BUZZER_ON", "BUZZER_OFF",
                       "BUZZER_BEEP", "SEG_DISPLAY", "SEG_CLEAR"}
  /\ Answer(Ok(command.value))
  /\ UNCHANGED <<plugin, pin, light>>

(* The server runs only with every plugin loaded. *)
PluginList ==
  /\ command.type = "PLUGIN_LIST"
  /\ Answer([head |-> "DATA", type |-> "PLUGINS"])
  /\ UNCHANGED <<plugin, pin, light>>

(* device_get_status *)
Status ==
  /\ command.type = "STATUS"
  /\ Answer([head |-> "DATA", type |-> "STATUS", led |-> led_state,
             light |-> last_light_value])
  /\ UNCHANGED <<plugin, pin, light>>

ExecuteLedOn ==
  /\ command.type = "LED_ON"
  /\ LedOn /\ Answer(Ok(0)) /\ UNCHANGED light

ExecuteLedOff ==
  /\ command.type = "LED_OFF"
  /\ LedOff /\ Answer(Ok(0)) /\ UNCHANGED light

ExecuteLedBright ==
  /\ command.type = "LED_ON_BRIGHT"
  /\ LedOnBright(command.value) /\ Answer(Ok(command.value)) /\ UNCHANGED light

(* softPwmCreate fails and leaves the pin as it is. *)
LedBrightFails ==
  /\ command.type = "LED_ON_BRIGHT" /\ ~pwm_started
  /\ Answer(DeviceError("DEVICE_FAILED"))
  /\ UNCHANGED <<plugin, pin, light>>

(* The sensor is read, and the LED then turned on or off by it. *)
ExecuteLightRead ==
  /\ command.type = "LIGHT_READ"
  /\ \E v \in {0, 1} :
       /\ LightRead(v)
       /\ IF v = 0 THEN LedOn ELSE LedOff
       /\ Answer([head |-> "DATA", type |-> "LIGHT", led |-> v = 0, light |-> v])

(* The LED's task cannot be created: the sensor was read all the same. *)
LightReadHalf ==
  /\ command.type = "LIGHT_READ"
  /\ \E v \in {0, 1} : LightRead(v)
  /\ Answer(DeviceError("DEVICE_FAILED"))
  /\ UNCHANGED <<plugin, pin>>

ExecuteQuit ==
  /\ command.type = "QUIT" /\ Answer(Ok(0))
  /\ UNCHANGED <<plugin, pin, light>>

NextRequest ==
  /\ pc = "answered" /\ command.type # "QUIT"
  /\ pc' = "read" /\ line' = << >> /\ response' = [head |-> NoResponse]
  /\ before' = pin
  /\ UNCHANGED <<plugin, pin, light>>

(* After QUIT, device_cleanup: led_cleanup and light_cleanup. *)
Cleanup ==
  /\ pc = "answered" /\ command.type = "QUIT"
  /\ pc' = "down" /\ DrivePin("LOW") /\ led_state' = FALSE
  /\ last_light_value' = NoValue /\ sensed' = NoValue
  /\ UNCHANGED <<line, response, before>>

-----------------------------------------------------------------------------
Rest == pc = "down" /\ UNCHANGED vars

Execute ==
  /\ pc = "read"
  /\ \/ SubmitFails \/ Reject \/ ExecuteElsewhere \/ PluginList \/ Status
     \/ ExecuteLedOn \/ ExecuteLedOff \/ ExecuteLedBright \/ LedBrightFails
     \/ ExecuteLightRead \/ LightReadHalf \/ ExecuteQuit

Next == ReadToken \/ Execute \/ NextRequest \/ Cleanup \/ Rest

Spec == Init /\ [][Next]_vars

-----------------------------------------------------------------------------
(* Properties *)

TypeOK ==
  /\ pc \in {"read", "answered", "down"}
  /\ line \in Seq(Word) /\ Len(line) <= MaxTokens
  /\ led_state \in BOOLEAN /\ pwm_started \in BOOLEAN
  /\ level \in {"LOW", "HIGH"} /\ duty \in {NoPwm} \cup 0..255
  /\ last_light_value \in {NoValue, 0, 1} /\ sensed \in {NoValue, 0, 1}

(* The numerals in a documented range. *)
In(S) == {n \in Numeral : ValueOf[n] \in S}

(* The lines the command table of the manual lists (docs/main.typ:172-186) *)
(* with the command each stands for.                                       *)
Documented ==
  { <<<<"HELP">>, "HELP">>, <<<<"STATUS">>, "STATUS">>,
    <<<<"PLUGIN", "LIST">>, "PLUGIN_LIST">>,
    <<<<"DEVICE", "LIST">>, "PLUGIN_LIST">>,
    <<<<"LED", "ON">>, "LED_ON">>, <<<<"LED", "OFF">>, "LED_OFF">>,
    <<<<"BUZZER", "ON">>, "BUZZER_ON">>,
    <<<<"BUZZER", "OFF">>, "BUZZER_OFF">>,
    <<<<"LIGHT", "READ">>, "LIGHT_READ">>,
    <<<<"SEG", "CLEAR">>, "SEG_CLEAR">>, <<<<"QUIT">>, "QUIT">> }
  \cup {<<<<"LED", "BRIGHT", n>>, "LED_ON_BRIGHT">> : n \in In(0..255)}
  \cup {<<<<"BUZZER", "BEEP", n>>, "BUZZER_BEEP">> : n \in In(1..10000)}
  \cup {<<<<"SEG", "DISPLAY", n>>, "SEG_DISPLAY">> : n \in In(0..9)}
  \cup {<<<<"BUZZER", "MUSIC", f>>, "BUZZER_MUSIC">> : f \in Word}

(* The parser accepts what the manual lists, as the command it lists, with *)
(* the argument that was given, and nothing else, in lines of less than    *)
(* 256 characters (docs/main.typ:216); only the tokens behind the file of  *)
(* BUZZER MUSIC are not looked at.                                         *)
AcceptsTheManual ==
  LET isMusic == command.type = "BUZZER_MUSIC"
      seen == IF isMusic /\ Len(line) > 3 THEN SubSeq(line, 1, 3) ELSE line
  IN /\ ~TooLong(line) =>
          \A d \in Documented : d[1] = line => command.type = d[2]
     /\ command.type \notin Rejection =>
          /\ ~TooLong(line)
          /\ \E d \in Documented : d[1] = seen /\ d[2] = command.type
          /\ command.type \in {"LED_ON_BRIGHT", "BUZZER_BEEP", "SEG_DISPLAY"} =>
               command.value = ValueOf[line[3]]
          /\ isMusic => command.str = line[3]

IsLit == IF duty = NoPwm THEN level = "HIGH" ELSE duty > 0

(* A response tells what the devices do: an OK to an LED command is given  *)
(* with the LED as commanded, whatever drove it before; the state and the  *)
(* values in a DATA response are those of the pin and the sensor; and an   *)
(* ERR is given with the LED as it was.                                    *)
ResponseIsTrue ==
  pc = "answered" =>
    IF response.head = "ERR" THEN pin = before
    ELSE CASE command.type \in {"STATUS", "LIGHT_READ"} ->
                response.led = IsLit /\ response.light = sensed
           [] command.type = "LED_ON" -> level = "HIGH" /\ duty = NoPwm
           [] command.type = "LED_OFF" -> ~IsLit
           [] command.type = "LED_ON_BRIGHT" -> duty = ValueOf[line[3]]
           [] OTHER -> pin = before

(* What the plugins remember is what the pins do, so that STATUS cannot be *)
(* wrong later: the LED's state with every brightness, the thread of       *)
(* softPwm, the sensor's last value.  Cleaned up, the LED is dark and no   *)
(* thread is left to light it.                                             *)
StatusIsTrue ==
  /\ led_state = IsLit /\ pwm_started = (duty # NoPwm)
  /\ last_light_value = sensed
  /\ pc = "down" => ~IsLit /\ duty = NoPwm

(* What holds in every state and is kept by every step. *)
IInv ==
  /\ TypeOK /\ ResponseIsTrue /\ StatusIsTrue
  /\ pc = "read" => before = pin

=============================================================================
