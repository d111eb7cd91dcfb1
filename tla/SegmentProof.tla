---------------------------- MODULE SegmentProof ----------------------------
(***************************************************************************)
(* Proofs about Segment, for any largest digit and any number of commands: *)
(* the invariant IInv with one step per action, and from it that the       *)
(* server goes down with the display off, that only a countdown beeps, and *)
(* how late SEG CLEAR may be.                                              *)
(***************************************************************************)
EXTENDS Segment, TLAPS

USE SegmentConstants

-----------------------------------------------------------------------------
(* Operators *)

(* A level is what is driven, whatever is shown. *)
LEMMA LevelsType ==
  ASSUME NEW g, NEW i \in Pin
  PROVE  Levels(g)[i] \in Level /\ AllOff[i] = "LOW"
BY DEF Levels, AllOff, Level, Blank

(* The display is off when every pin is LOW. *)
LEMMA OffPinByPin ==
  ASSUME pins \in [Pin -> Level], \A i \in Pin : pins[i] = "LOW"
  PROVE  pins = AllOff
BY DEF AllOff, Levels, Blank

-----------------------------------------------------------------------------
(* The invariant *)

LEMMA InitIInv == Init => IInv
<1> SUFFICES ASSUME Init PROVE IInv
  OBVIOUS
<1>1. pins \in [Pin -> Level]
  BY DEF Init, AllOff, Levels, Level
<1>2. 0 \in Digit /\ 0 \in Pin /\ 0 \in 0..MaxCommands
  BY DEF Digit, Pin
<1>3. QED
  BY <1>1, <1>2 DEF Init, IInv, TypeOK, ThreadPC

LEMMA NextIInv == IInv /\ [Next]_vars => IInv'
<1> SUFFICES ASSUME IInv, [Next]_vars PROVE IInv'
  OBVIOUS
<1> USE DEF IInv, TypeOK, ThreadPC, Pin, Digit, Level
<1>1. ASSUME NEW v \in Digit, SegmentDisplay(v) PROVE IInv'
  <2>1. commands' \in 0..MaxCommands
    BY <1>1 DEF SegmentDisplay
  <2>2. QED
    BY <1>1, <2>1 DEF SegmentDisplay, threadVars
<1>2. CASE SegmentClear
  <2>1. commands' \in 0..MaxCommands
    BY <1>2 DEF SegmentClear
  <2>2. 0 \in 0..MaxDigit /\ 0 \in 0..7
    OBVIOUS
  <2>3. QED
    BY <1>2, <2>1, <2>2 DEF SegmentClear, threadVars
<1>3. CASE MainWritesPin
  <2>1. /\ mpin \in 0..7 /\ pins' = [pins EXCEPT ![mpin] = "LOW"]
        /\ UNCHANGED <<countdownVars, threadVars, commands, fresh>>
    BY <1>3 DEF MainWritesPin
  <2>2. CASE mpin < 7
    BY <1>3, <2>1, <2>2 DEF MainWritesPin, countdownVars, threadVars
  <2>3. CASE mpin = 7
    BY <1>3, <2>1, <2>3 DEF MainWritesPin, countdownVars, threadVars
  <2>4. QED
    BY <2>1, <2>2, <2>3
<1>4. CASE StopThread
  BY <1>4 DEF StopThread, threadVars
<1>5. CASE ThreadJoined
  BY <1>5 DEF ThreadJoined, countdownVars, threadVars, histVars
<1>6. CASE ReadCountdown
  BY <1>6 DEF ReadCountdown, countdownVars, mainVars, histVars
<1>7. CASE ThreadWritesPin
  <2>1. /\ pc \notin {"cleanup", "down"} /\ tpin \in 0..7
        /\ UNCHANGED <<countdownVars, value, mainVars, histVars>>
    BY <1>7 DEF ThreadWritesPin, Writing
  <2>2. pins' \in [Pin -> Level]
    BY <1>7, LevelsType DEF ThreadWritesPin
  <2>3. tpin' \in Pin /\ tpc' \in ThreadPC
    BY <1>7 DEF ThreadWritesPin, Writing, AfterWriting
  <2>4. QED
    BY <2>1, <2>2, <2>3 DEF countdownVars, mainVars, histVars
<1>8. CASE Wake
  BY <1>8 DEF Wake, countdownVars, mainVars, histVars
<1>9. CASE TickZero
  BY <1>9 DEF TickZero, mainVars
<1>10. CASE TickDown
  <2>1. segment_countdown_value' \in 0..MaxDigit
    BY <1>10 DEF TickDown
  <2>2. QED
    BY <1>10, <2>1 DEF TickDown, mainVars, histVars
<1>11. CASE TickNothing
  BY <1>11 DEF TickNothing, countdownVars, mainVars, histVars
<1>12. CASE Beep
  BY <1>12 DEF Beep, countdownVars, mainVars, histVars
<1>13. CASE Rest \/ UNCHANGED vars
  BY <1>13 DEF Rest, vars, countdownVars, threadVars, mainVars, histVars
<1>14. QED
  BY <1>1, <1>2, <1>3, <1>4, <1>5, <1>6, <1>7, <1>8, <1>9, <1>10, <1>11,
    <1>12, <1>13 DEF Next, MainStep, ThreadStep

(* IInv holds in every state, however the two threads interleave. *)
THEOREM Inductive == SafeSpec => []IInv
BY InitIInv, NextIInv, PTL DEF SafeSpec

(* Every variable keeps its type; the countdown stays among the digits.    *)
THEOREM TypeCorrect == SafeSpec => []TypeOK
<1>1. IInv => TypeOK
  BY DEF IInv
<1>2. QED
  BY <1>1, Inductive, PTL

(* Once the server is down the refresh thread is gone and every segment is *)
(* off: segment_cleanup, after the join, has the pins to itself.           *)
THEOREM OffWhenDown == SafeSpec => []DownIsOff
<1>1. IInv => DownIsOff
  BY OffPinByPin DEF IInv, TypeOK, DownIsOff
<1>2. QED
  BY <1>1, Inductive, PTL

(* A beep ends a countdown that was started and neither cleared, nor       *)
(* stopped, nor ended before.                                              *)
THEOREM OneBeepPerCountdown == SafeSpec => BeepEndsCountdown
<1>1. IInv /\ [Next]_vars => [tpc = "tick" /\ tpc' = "zero" => fresh]_vars
  <2> SUFFICES ASSUME IInv, Next, tpc = "tick", tpc' = "zero" PROVE fresh
    OBVIOUS
  <2>1. TickZero
    BY DEF Next, MainStep, ThreadStep, SegmentDisplay, SegmentClear,
      StopThread, MainWritesPin, ThreadJoined, ReadCountdown, ThreadWritesPin,
      Writing, Wake, TickDown, TickNothing, Beep, Rest, vars, threadVars
  <2>2. QED
    BY <2>1 DEF IInv, TickZero
<1>2. QED
  BY <1>1, Inductive, PTL DEF SafeSpec, BeepEndsCountdown

-----------------------------------------------------------------------------
(* How late SEG CLEAR may be                                               *)

(* A round without a digit leaves behind it what it has come past, and the *)
(* end of one everything, off: no other thread writes a digit.             *)
RoundInv ==
  /\ ~Writing => tpin = 0
  /\ tpc \in {"idle", "zero", "last"} => \A i \in Pin : i < tpin => pins[i] = "LOW"
  /\ tpc \in {"idleSleep", "beep", "exited"} => \A i \in Pin : pins[i] = "LOW"

ClearInv == cleared \/ pc = "clear" => ~segment_countdown_enabled

LEMMA InitLate == Init => RoundInv /\ ClearInv
BY DEF Init, RoundInv, ClearInv, Writing, Pin

LEMMA NextRound == IInv /\ RoundInv /\ [Next]_vars => RoundInv'
<1> SUFFICES ASSUME IInv, RoundInv, [Next]_vars PROVE RoundInv'
  OBVIOUS
<1> USE DEF RoundInv, Writing
<1>1. CASE ThreadWritesPin
  <2>1. /\ Writing /\ tpin \in 0..7 /\ pins \in [Pin -> Level]
        /\ pins' = [pins EXCEPT ![tpin] = Levels(Glyph)[tpin]]
        /\ IF tpin < 7 THEN tpin' = tpin + 1 /\ tpc' = tpc
                       ELSE tpin' = 0 /\ tpc' = AfterWriting[tpc]
    BY <1>1 DEF ThreadWritesPin, IInv, TypeOK, Pin
  <2>2. CASE tpc = "show"
    BY <2>1, <2>2 DEF AfterWriting
  <2>3. CASE tpc \in {"idle", "zero", "last"}
    <3>1. Levels(Glyph)[tpin] = "LOW"
      BY <2>1, <2>3 DEF Glyph, Levels, Pin
    <3>2. \A i \in 0..7 : i <= tpin => pins'[i] = "LOW"
      BY <2>1, <2>3, <3>1 DEF Pin
    <3>3. CASE tpin < 7
      BY <2>1, <2>3, <3>2, <3>3 DEF Pin
    <3>4. CASE tpin = 7
      BY <2>1, <2>3, <3>2, <3>4 DEF Pin, AfterWriting
    <3>5. QED
      BY <2>1, <3>3, <3>4
  <2>4. QED
    BY <2>1, <2>2, <2>3
<1>2. CASE MainWritesPin
  <2>1. /\ pins \in [Pin -> Level] /\ pins' = [pins EXCEPT ![mpin] = "LOW"]
        /\ tpc' = tpc /\ tpin' = tpin
    BY <1>2 DEF MainWritesPin, threadVars, IInv, TypeOK
  <2>2. \A i \in Pin : pins[i] = "LOW" => pins'[i] = "LOW"
    BY <2>1
  <2>3. QED
    BY <2>1, <2>2
<1>3. CASE ReadCountdown
  <2>1. tpin' = 0 /\ tpc' \in {"last", "idle", "show"}
    BY <1>3 DEF ReadCountdown
  <2>2. QED
    BY <2>1 DEF Pin
<1>4. CASE TickZero
  <2>1. /\ tpc' = "zero" /\ tpin' = tpin /\ pins' = pins
    BY <1>4 DEF TickZero
  <2>2. tpin = 0
    BY <1>4 DEF TickZero
  <2>3. QED
    BY <2>1, <2>2 DEF Pin
<1>5. CASE Wake \/ TickDown \/ TickNothing \/ Beep
  BY <1>5 DEF Wake, TickDown, TickNothing, Beep
<1>6. CASE \/ \E v \in Digit : SegmentDisplay(v)
           \/ SegmentClear \/ StopThread \/ ThreadJoined \/ Rest \/ UNCHANGED vars
  BY <1>6 DEF SegmentDisplay, SegmentClear, StopThread, ThreadJoined, Rest, vars,
    threadVars
<1>7. QED
  BY <1>1, <1>2, <1>3, <1>4, <1>5, <1>6 DEF Next, MainStep, ThreadStep

LEMMA NextClear == ClearInv /\ [Next]_vars => ClearInv'
<1> SUFFICES ASSUME ClearInv, [Next]_vars PROVE ClearInv'
  OBVIOUS
<1> USE DEF ClearInv
<1>1. CASE ThreadStep
  BY <1>1 DEF ThreadStep, ReadCountdown, ThreadWritesPin, Wake, TickZero, TickDown,
    TickNothing, Beep, countdownVars, mainVars, histVars
<1>2. CASE MainStep
  BY <1>2 DEF MainStep, MainWritesPin, ThreadJoined, countdownVars, histVars
<1>3. CASE SegmentClear \/ StopThread \/ \E v \in Digit : SegmentDisplay(v)
  BY <1>3 DEF SegmentClear, StopThread, SegmentDisplay
<1>4. CASE Rest \/ UNCHANGED vars
  BY <1>4 DEF Rest, vars, countdownVars, mainVars, histVars
<1>5. QED
  BY <1>1, <1>2, <1>3, <1>4 DEF Next

LEMMA Late == SafeSpec => [](IInv /\ RoundInv /\ ClearInv)
BY InitIInv, InitLate, NextIInv, NextRound, NextClear, PTL DEF SafeSpec

(* Every segment is off at the end of a round that shows no digit.         *)
OffAfterRound == tpc \in {"idleSleep", "beep", "exited"} => pins = AllOff

(* The refresh thread's round without a countdown turns off whatever an    *)
(* earlier one, or a race with SEG CLEAR, left on the display: nobody else *)
(* writes a digit meanwhile.  This is how IdleGoesOff comes about.         *)
THEOREM RoundsTurnOff == SafeSpec => []OffAfterRound
<1>1. IInv /\ RoundInv => OffAfterRound
  BY OffPinByPin DEF IInv, TypeOK, RoundInv, OffAfterRound
<1>2. QED
  BY <1>1, Late, PTL

(* Once SEG CLEAR has returned, and until the next SEG DISPLAY, the        *)
(* refresh thread ends the round it is in and shows no other digit; a      *)
(* display that is off by then stays off.                                  *)
ClearAtMostLate ==
  [][cleared /\ tpc # "show" =>
       tpc' # "show" /\ (pins = AllOff => pins' = AllOff)]_vars

(* So wrong can ClearStaysOff be, and no more: the digit that is written   *)
(* after SEG CLEAR is of the one round whose read was before it.           *)
THEOREM ClearIsAtMostLate == SafeSpec => ClearAtMostLate
<1> DEFINE A == cleared /\ tpc # "show" =>
                  tpc' # "show" /\ (pins = AllOff => pins' = AllOff)
<1>1. IInv /\ IInv' /\ ClearInv /\ [Next]_vars => [A]_vars
  <2> SUFFICES ASSUME IInv, IInv', ClearInv, Next, cleared, tpc # "show"
               PROVE  tpc' # "show" /\ (pins = AllOff => pins' = AllOff)
    OBVIOUS
  <2>1. tpc' # "show"
    <3>1. ~segment_countdown_enabled
      BY DEF ClearInv
    <3>2. CASE ThreadWritesPin
      <4>1. tpc \in {"idle", "zero", "last"} /\ tpc' \in {tpc, AfterWriting[tpc]}
        BY <3>2 DEF ThreadWritesPin, Writing
      <4>2. QED
        BY <4>1 DEF AfterWriting
    <3>3. CASE ThreadStep /\ ~ThreadWritesPin
      BY <3>1, <3>3 DEF ThreadStep, ReadCountdown, Wake, TickZero, TickDown,
        TickNothing, Beep
    <3>4. CASE ~ThreadStep
      BY <3>4 DEF Next, MainStep, SegmentDisplay, SegmentClear, StopThread,
        MainWritesPin, ThreadJoined, Rest, vars, threadVars
    <3>5. QED
      BY <3>2, <3>3, <3>4
  <2>2. ASSUME pins = AllOff PROVE pins' = AllOff
    <3>1. CASE ThreadWritesPin
      <4>1. tpin \in Pin /\ Glyph = Blank
        BY <3>1 DEF Glyph, IInv, TypeOK
      <4>2. pins' = [AllOff EXCEPT ![tpin] = AllOff[tpin]]
        BY <2>2, <3>1, <4>1 DEF ThreadWritesPin, AllOff
      <4>3. QED
        BY <4>1, <4>2 DEF AllOff, Levels
    <3>2. CASE MainWritesPin
      <4>1. mpin \in Pin /\ AllOff[mpin] = "LOW"
        BY LevelsType DEF IInv, TypeOK
      <4>2. pins' = [AllOff EXCEPT ![mpin] = AllOff[mpin]]
        BY <2>2, <3>2, <4>1 DEF MainWritesPin
      <4>3. QED
        BY <4>1, <4>2 DEF AllOff, Levels
    <3>3. CASE ~ThreadWritesPin /\ ~MainWritesPin
      BY <2>2, <3>3 DEF Next, MainStep, ThreadStep, SegmentDisplay, SegmentClear,
        StopThread, ThreadJoined, ReadCountdown, Wake, TickZero, TickDown,
        TickNothing, Beep, Rest, vars
    <3>4. QED
      BY <3>1, <3>2, <3>3
  <2>3. QED
    BY <2>1, <2>2
<1>2. QED
  BY <1>1, Late, PTL DEF SafeSpec, ClearAtMostLate

=============================================================================
