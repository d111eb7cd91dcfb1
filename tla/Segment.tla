------------------------------ MODULE Segment ------------------------------
(***************************************************************************)
(* The seven-segment countdown: segment_refresh_loop and the SEG commands  *)
(* of device_manager.c, and the pins as device/segment/segment.c writes    *)
(* them.                                                                   *)
(*                                                                         *)
(* The countdown is shared under segment_lock, the eight pins are not:     *)
(* the refresh thread and the main thread each write them one by one, with *)
(* no lock around a digit.  A critical section, and the write of one pin,  *)
(* is one action.  Sleeping is a state the thread leaves at some time.     *)
(* The digit the plugin caches for itself is read by nobody and left out.  *)
(***************************************************************************)
EXTENDS Naturals

CONSTANTS
  MaxDigit,      \* bound: the largest value SEG DISPLAY is given, 9 at most
  MaxCommands    \* bound: the SEG commands given

ASSUME SegmentConstants == MaxDigit \in 0..9 /\ MaxCommands \in Nat

VARIABLES
  segment_thread_running, segment_countdown_enabled, segment_countdown_value,
  tpc, value, tpin,     \* refresh thread: pc, its copy of the value, next pin
  pc, mpin,             \* main thread: pc, next pin
  pins,                 \* the level of each pin
  commands,             \* how many SEG commands were given
  fresh,                \* history: a countdown was started, not yet ended
  cleared               \* history: SEG CLEAR returned, nothing started since

countdownVars == <<segment_thread_running, segment_countdown_enabled,
                   segment_countdown_value>>
threadVars == <<tpc, value, tpin>>
mainVars == <<pc, mpin, commands>>
histVars == <<fresh, cleared>>
vars == <<countdownVars, threadVars, mainVars, pins, histVars>>

Level == {"LOW", "HIGH"}
Digit == 0..MaxDigit

(* Pins are numbered as in segment_pins: G F E D C B A DP. *)
Pin == 0..7

(* digit_patterns: the pins whose bit is set *)
DigitPattern ==
  <<1..6, {4, 5}, {0, 2, 3, 5, 6}, {0, 3, 4, 5, 6}, {0, 1, 4, 5},
    {0, 1, 3, 4, 6}, {0, 1, 2, 3, 4, 6}, {4, 5, 6}, 0..6, {0, 1, 3, 4, 5, 6}>>

Blank == 10             \* stands for segment_all_off among the digits
Segments(g) == IF g = Blank THEN {} ELSE DigitPattern[g + 1]

(* segment_all_off writes SEGMENT_OFF_LEVEL to every pin;                   *)
(* segment_write_pattern writes it to the pins of the pattern.              *)
Levels(g) ==
  [i \in Pin |-> IF g = Blank \/ i \in Segments(g) THEN "LOW" ELSE "HIGH"]

AllOff == Levels(Blank)

ThreadPC == {"read", "idle", "idleSleep", "show", "sleep", "tick", "zero",
             "beep", "last", "exited"}

(* start_segment_thread has run and device_init has returned. *)
Init ==
  /\ segment_thread_running = TRUE
  /\ segment_countdown_enabled = FALSE /\ segment_countdown_value = 0
  /\ tpc = "read" /\ value = 0 /\ tpin = 0
  /\ pc = "ready" /\ mpin = 0 /\ commands = 0
  /\ pins = AllOff
  /\ fresh = FALSE /\ cleared = FALSE

-----------------------------------------------------------------------------
(* The main thread *)

(* device_segment_display *)
SegmentDisplay(v) ==
  /\ pc = "ready" /\ commands < MaxCommands
  /\ segment_countdown_value' = v /\ segment_countdown_enabled' = TRUE
  /\ commands' = commands + 1
  /\ fresh' = TRUE /\ cleared' = FALSE
  /\ UNCHANGED <<segment_thread_running, threadVars, pc, mpin, pins>>

(* device_segment_clear: the countdown ends, then plugins.segment.clear.   *)
SegmentClear ==
  /\ pc = "ready" /\ commands < MaxCommands
  /\ segment_countdown_enabled' = FALSE /\ segment_countdown_value' = 0
  /\ pc' = "clear" /\ mpin' = 0 /\ commands' = commands + 1
  /\ fresh' = FALSE
  /\ UNCHANGED <<segment_thread_running, threadVars, pins, cleared>>

(* One digitalWrite of segment_all_off, called by SEG CLEAR or at the end  *)
(* by segment_cleanup.                                                     *)
MainWritesPin ==
  /\ pc \in {"clear", "cleanup"}
  /\ pins' = [pins EXCEPT ![mpin] = "LOW"]
  /\ IF mpin < 7
       THEN mpin' = mpin + 1 /\ UNCHANGED <<pc, cleared>>
       ELSE /\ mpin' = 0
            /\ pc' = IF pc = "clear" THEN "ready" ELSE "down"
            /\ cleared' = (pc = "clear")
  /\ UNCHANGED <<countdownVars, threadVars, commands, fresh>>

(* device_cleanup, stop_segment_thread *)
StopThread ==
  /\ pc = "ready"
  /\ segment_thread_running' = FALSE /\ segment_countdown_enabled' = FALSE
  /\ pc' = "join"
  /\ fresh' = FALSE
  /\ UNCHANGED <<segment_countdown_value, threadVars, mpin, commands, pins,
                 cleared>>

(* Mutant: the pins are cleared while the thread still runs. *)
ThreadNotJoined ==
  /\ pc = "join"
  /\ pc' = "cleanup" /\ mpin' = 0
  /\ UNCHANGED <<countdownVars, threadVars, commands, pins, histVars>>

ThreadJoined ==
  /\ pc = "join" /\ tpc = "exited"
  /\ pc' = "cleanup" /\ mpin' = 0
  /\ UNCHANGED <<countdownVars, threadVars, commands, pins, histVars>>

-----------------------------------------------------------------------------
(* The refresh thread *)

(* The copies made under the lock decide what this round does. *)
ReadCountdown ==
  /\ tpc = "read"
  /\ value' = segment_countdown_value
  /\ tpc' = IF ~segment_thread_running THEN "last"
            ELSE IF ~segment_countdown_enabled THEN "idle" ELSE "show"
  /\ tpin' = 0
  /\ UNCHANGED <<countdownVars, mainVars, pins, histVars>>

(* What the thread writes at this point, and where it goes when it is done. *)

(* Mutant: an idle round writes the value it has read. *)
GlyphWhenIdle == IF tpc \in {"show", "idle"} THEN value ELSE Blank
Glyph == IF tpc = "show" THEN value ELSE Blank

Writing == tpc \in {"idle", "show", "zero", "last"}

AfterWriting ==
  [idle |-> "idleSleep", show |-> "sleep", zero |-> "beep", last |-> "exited"]

ThreadWritesPin ==
  /\ Writing
  /\ pins' = [pins EXCEPT ![tpin] = Levels(Glyph)[tpin]]
  /\ IF tpin < 7
       THEN tpin' = tpin + 1 /\ UNCHANGED tpc
       ELSE tpin' = 0 /\ tpc' = AfterWriting[tpc]
  /\ UNCHANGED <<countdownVars, value, mainVars, histVars>>

(* sleep_ms(SEGMENT_IDLE_DELAY_MS), sleep_ms(SEGMENT_REFRESH_DELAY_MS) *)
Wake ==
  /\ tpc \in {"idleSleep", "sleep"}
  /\ tpc' = IF tpc = "sleep" THEN "tick" ELSE "read"
  /\ UNCHANGED <<countdownVars, value, tpin, mainVars, pins, histVars>>

(* Mutant: the end of the countdown is decided on the copies made before   *)
(* the sleep.                                                              *)
TickZeroOnCopy ==
  /\ tpc = "tick" /\ value = 0
  /\ segment_countdown_enabled' = FALSE
  /\ tpc' = "zero" /\ fresh' = FALSE
  /\ UNCHANGED <<segment_thread_running, segment_countdown_value, value, tpin,
                 mainVars, pins, cleared>>

TickZero ==
  /\ tpc = "tick"
  /\ segment_thread_running /\ segment_countdown_enabled
  /\ segment_countdown_value = 0
  /\ segment_countdown_enabled' = FALSE
  /\ tpc' = "zero" /\ fresh' = FALSE
  /\ UNCHANGED <<segment_thread_running, segment_countdown_value, value, tpin,
                 mainVars, pins, cleared>>

(* Mutant: the thread counts its own copy down, not the shared value. *)
TickDownCopy ==
  /\ tpc = "tick"
  /\ segment_thread_running /\ segment_countdown_enabled
  /\ segment_countdown_value > 0
  /\ value' = IF value > 0 THEN value - 1 ELSE value
  /\ tpc' = "read"
  /\ UNCHANGED <<countdownVars, tpin, mainVars, pins, histVars>>

TickDown ==
  /\ tpc = "tick"
  /\ segment_thread_running /\ segment_countdown_enabled
  /\ segment_countdown_value > 0
  /\ segment_countdown_value' = segment_countdown_value - 1
  /\ tpc' = "read"
  /\ UNCHANGED <<segment_thread_running, segment_countdown_enabled, value,
                 tpin, mainVars, pins, histVars>>

(* The countdown was cleared, or the thread stopped, during the sleep. *)
TickNothing ==
  /\ tpc = "tick"
  /\ ~(segment_thread_running /\ segment_countdown_enabled)
  /\ tpc' = "read"
  /\ UNCHANGED <<countdownVars, value, tpin, mainVars, pins, histVars>>

(* device_buzzer_beep(200) *)
Beep ==
  /\ tpc = "beep"
  /\ tpc' = "read"
  /\ UNCHANGED <<countdownVars, value, tpin, mainVars, pins, histVars>>

-----------------------------------------------------------------------------
ThreadStep ==
  \/ ReadCountdown \/ ThreadWritesPin \/ Wake
  \/ TickZero \/ TickDown \/ TickNothing \/ Beep

MainStep == MainWritesPin \/ ThreadJoined

(* The server is down. *)
Rest == pc = "down" /\ UNCHANGED vars

Next ==
  \/ \E v \in Digit : SegmentDisplay(v)
  \/ SegmentClear \/ StopThread \/ MainStep
  \/ ThreadStep
  \/ Rest

SafeSpec == Init /\ [][Next]_vars

(* Both threads go on when they can, and every sleep ends; no command need *)
(* come.                                                                   *)
Spec == SafeSpec /\ WF_vars(ThreadStep) /\ WF_vars(MainStep)

-----------------------------------------------------------------------------
(* Properties *)

TypeOK ==
  /\ segment_thread_running \in BOOLEAN
  /\ segment_countdown_enabled \in BOOLEAN
  /\ segment_countdown_value \in Digit
  /\ tpc \in ThreadPC /\ value \in Digit /\ tpin \in Pin
  /\ pc \in {"ready", "clear", "join", "cleanup", "down"} /\ mpin \in Pin
  /\ pins \in [Pin -> Level] /\ commands \in 0..MaxCommands
  /\ fresh \in BOOLEAN /\ cleared \in BOOLEAN

(* A countdown ends, with its beep, only if it was started and neither     *)
(* cleared nor ended since: a SEG CLEAR during the last second prevents    *)
(* the beep, and no countdown beeps twice.                                 *)
BeepEndsCountdown == [][tpc = "tick" /\ tpc' = "zero" => fresh]_vars

(* The refresh thread is gone and the display off once the server is down: *)
(* no thread writes a pin behind segment_cleanup.                          *)
DownIsOff == pc = "down" => tpc = "exited" /\ pins = AllOff

(* What holds in every state and is kept by every step: a countdown runs   *)
(* exactly while it has not been ended; the main thread is only beyond its *)
(* join when the refresh thread has exited, and then has cleared the pins  *)
(* it has come past.                                                       *)
IInv ==
  /\ TypeOK
  /\ segment_countdown_enabled = fresh
  /\ pc \in {"cleanup", "down"} => tpc = "exited"
  /\ pc = "cleanup" => \A i \in Pin : i < mpin => pins[i] = "LOW"
  /\ pc = "down" => \A i \in Pin : pins[i] = "LOW"

(* A countdown that gets no further command ends. *)
CountdownEnds == segment_countdown_enabled ~> ~segment_countdown_enabled

(* While no countdown runs the display goes off, also after a race with    *)
(* SEG CLEAR has left some of a digit on it.                               *)
IdleGoesOff ==
  ~segment_countdown_enabled ~> segment_countdown_enabled \/ pins = AllOff

(* "Clears the seven-segment display" (device_manager.h:94): after SEG     *)
(* CLEAR has returned, and until a countdown is started, no digit is       *)
(* written.  A refresh thread that read the countdown before it was        *)
(* cleared goes on to write the digit, for a second.                       *)
ClearStaysOff == cleared => pins = AllOff

=============================================================================
