---------------------------- MODULE PitchTracker ----------------------------
(***************************************************************************)
(* From a window of samples to the pitch that is played: pitch_detect_note *)
(* (pitch_detector.c), the tracker that smooths its results, and the       *)
(* lengths of windows, hops and notes (buzzer.c).                          *)
(*                                                                         *)
(* A window is what the detector makes of it: loud enough or not, and a    *)
(* score for each note.  A note's frequency follows from its number, so    *)
(* the tracker keeps numbers.  The detector never reports a fallback.      *)
(***************************************************************************)
EXTENDS Integers, FiniteSetsExt

CONSTANTS
  Note,          \* MIDI notes, DETECTOR_MIN_MIDI_NOTE..DETECTOR_MAX_MIDI_NOTE
  NoteHz         \* their frequencies, rounded to a Hz

ASSUME NotesAscend ==
  /\ Note \subseteq Nat /\ NoteHz \in [Note -> Nat \ {0}]
  /\ \A m, n \in Note : m < n => NoteHz[m] <= NoteHz[n]

NoNote == -1
Score == 0..2           \* none, below DETECTOR_MIN_SCORE, above it
MinScore == 2

HoldHops == 4
ConfirmHops == 1
JitterPercent == 8

Least(a, b) == IF a < b THEN a ELSE b

(* The notes below half the sample rate. *)
Audible(rate) == {n \in Note : 2 * NoteHz[n] < rate}

(* The note with the highest score, the lowest of several; NoNote for a    *)
(* window that is too quiet or has no clear note.                          *)
DetectNote(isLoud, score, rate) ==
  LET heard == {n \in Audible(rate) : score[n] >= MinScore}
      best == {n \in heard : \A m \in Audible(rate) : score[m] <= score[n]}
  IN IF isLoud /\ best # {} THEN Min(best) ELSE NoNote

Detections(rate) ==
  {DetectNote(l, s, rate) : l \in BOOLEAN, s \in [Audible(rate) -> Score]}

Hz(n) == IF n = NoNote THEN 0 ELSE NoteHz[n]

(* pitches_are_close *)
AreClose(hz, previous) ==
  /\ hz > 0 /\ previous > 0
  /\ (IF hz > previous THEN hz - previous ELSE previous - hz) * 100
       <= previous * JitterPercent

(* A tracker after pitch_tracker_clear_pending: no note is a candidate. *)
Playing(n, missing) ==
  [stable |-> n, missing |-> missing, pending |-> NoNote, hops |-> 0]

(* pitch_tracker_init *)
NewTracker == Playing(NoNote, 0)

(* pitch_tracker_hold_or_silence; the pitch to play is that of `stable'. *)
HoldOrSilence(t) ==
  IF t.stable # NoNote /\ t.missing < HoldHops
  THEN Playing(t.stable, t.missing + 1)
  ELSE Playing(NoNote, 0)

(* Mutant: a note that goes on does not end the gap before it. *)
KeepKeepsMissing(t) == Playing(t.stable, t.missing)

Keep(t) == Playing(t.stable, 0)

(* A note that is not the one playing has to be heard ConfirmHops times. *)
Confirm(t, n) ==
  LET hops == IF n = t.pending THEN t.hops + 1 ELSE 1
  IN IF hops >= ConfirmHops THEN Playing(n, 0)
     ELSE [t EXCEPT !.pending = n, !.hops = hops]

(* pitch_tracker_update *)
Update(t, n) ==
  IF n = NoNote THEN HoldOrSilence(t)
  ELSE IF t.stable # NoNote /\ (n = t.stable \/ AreClose(Hz(n), Hz(t.stable)))
    THEN Keep(t)
  ELSE Confirm(t, n)

-----------------------------------------------------------------------------
(* Lengths *)

(* samples_for_duration *)
SamplesFor(rate, ms, lo, hi) ==
  Least(Max({(rate * ms + 999) \div 1000, lo}), hi)

(* 96 ms, within 768 and 4096 samples *)
WindowSamples(rate) == SamplesFor(rate, 96, 768, 4096)

(* 20 ms, within 128 samples and a window, of which a whole one is halved *)
HopSamples(rate) ==
  LET window == WindowSamples(rate)
      hop == SamplesFor(rate, 20, 128, window)
  IN IF hop >= window THEN window \div 2 ELSE hop

(* Mutant: rounded down. *)
DurationMsDown(samples, rate) == Max({1, (samples * 1000) \div rate})

(* samples_to_duration_ms, rounded up *)
DurationMs(samples, rate) ==
  Max({1, (samples * 1000 + rate - 1) \div rate})

=============================================================================
