------------------------------- MODULE Music -------------------------------
(***************************************************************************)
(* What buzzer_music does with its file before it plays: it reads the      *)
(* header chunk by chunk, then slides a window over the samples and turns  *)
(* each hop into a note (buzzer.c, wav_reader.c, pitch_detector.c).        *)
(*                                                                         *)
(* Module Buzzer has the same call as one step among the other commands;   *)
(* here the file is looked at and everything else is stop_requested.       *)
(***************************************************************************)
EXTENDS WavReader, PitchTracker

CONSTANTS
  WavFile,          \* the files
  StrayHeader,      \* the chunks a misplaced header may be taken for
  InitialCapacity,  \* MELODY_INITIAL_CAPACITY
  UIntMod           \* 2^32, what an unsigned int is counted modulo

(* A hop is at most 128 samples at 1 Hz, 128000 ms: the cast at the end of *)
(* samples_to_duration_ms loses nothing.                                   *)
ASSUME MusicConstants ==
  /\ InitialCapacity \in Nat \ {0}
  /\ UIntMod \in Nat /\ UIntMod > 128000
  /\ \A f \in WavFile : IsWavFile(f)
  /\ StrayHeader \subseteq WavChunk

VARIABLES
  pc, result,
  file, pos,            \* the open file
  info,                 \* WavInfo: the last fmt chunk, the data chunk
  remaining,            \* remaining_data_size
  active,               \* active_samples
  tracker,
  melody, capacity,     \* notes with their durations; the size of the array
  stop_requested,
  \* history
  played,               \* the samples that have become notes
  heard, gap            \* the last note detected, the hops since without one

header == <<file, pos, info>>
samples == <<remaining, active, played>>
music == <<tracker, melody, capacity, heard, gap>>
vars == <<pc, result, header, samples, music, stop_requested>>

NoFmt == [audio_format |-> 0, channels |-> 0, sample_rate |-> 0,
          block_align |-> 0, bits_per_sample |-> 0]

Init ==
  /\ pc = "open" /\ result = "NONE"
  /\ file \in WavFile /\ pos = 0
  /\ info = [fmt |-> NoFmt, hasFmt |-> FALSE, offset |-> 0, size |-> 0]
  /\ remaining = 0 /\ active = 0 /\ played = 0
  /\ tracker = NewTracker /\ melody = << >> /\ capacity = 0
  /\ stop_requested = FALSE
  /\ heard = NoNote /\ gap = 0

Return(r) == pc' = "done" /\ result' = r

-----------------------------------------------------------------------------
(* The header *)

OpenFails ==
  /\ pc = "open" /\ Return("DEVICE_FAILED")
  /\ UNCHANGED <<header, samples, music, stop_requested>>

(* fopen, and the first twelve bytes *)
ReadRiff ==
  /\ pc = "open"
  /\ IF file.riff /\ file.length >= RiffSize
     THEN pc' = "header" /\ pos' = RiffSize /\ UNCHANGED result
     ELSE Return("INVALID_VALUE") /\ UNCHANGED pos
  /\ UNCHANGED <<file, info, samples, music, stop_requested>>

Headers == HeadersAt(file, pos, StrayHeader)

(* Mutant: the failed read is tried again. *)
NoHeaderAgain == pc = "header" /\ Headers = {} /\ UNCHANGED vars

(* There is no header left to read and no data chunk was found. *)
NoHeader ==
  /\ pc = "header" /\ Headers = {}
  /\ Return("INVALID_VALUE")
  /\ UNCHANGED <<header, samples, music, stop_requested>>

FmtChunk ==
  /\ pc = "header"
  /\ \E c \in Headers :
       /\ c.id = "fmt"
       /\ IF c.size < FmtSize \/ pos + HeaderSize + FmtSize > file.length
          THEN Return("INVALID_VALUE") /\ UNCHANGED <<info, pos>>
          ELSE /\ info' = [info EXCEPT !.fmt = c.fmt, !.hasFmt = TRUE]
               /\ pos' = AfterFmt(pos, c.size)
               /\ UNCHANGED <<pc, result>>
  /\ UNCHANGED <<file, samples, music, stop_requested>>

OtherChunk ==
  /\ pc = "header"
  /\ \E c \in Headers : c.id = "other" /\ pos' = pos + HeaderSize + Padded(c.size)
  /\ UNCHANGED <<pc, result, file, info, samples, music, stop_requested>>

(* The first data chunk ends the header; it is then found playable or not. *)
DataChunk ==
  /\ pc = "header"
  /\ \E c \in Headers :
       /\ c.id = "data"
       /\ IF info.hasFmt /\ Supported(info.fmt)
          THEN /\ info' = [info EXCEPT !.offset = pos + HeaderSize, !.size = c.size]
               /\ pc' = "build" /\ UNCHANGED result
          ELSE Return("INVALID_VALUE") /\ UNCHANGED info
  /\ UNCHANGED <<file, pos, samples, music, stop_requested>>

-----------------------------------------------------------------------------
(* The melody *)

Rate == info.fmt.sample_rate

(* Mutant: a window is filled without regard to what it still holds. *)
RefillWhole(kept, from, left) ==
  LET r == ReadSamples(file, info.fmt, from, WindowSamples(Rate), left)
  IN active' = kept + r.frames /\ pos' = r.pos /\ remaining' = r.remaining

(* read_window_samples behind the `kept' samples of the window *)
Refill(kept, from, left) ==
  LET r == ReadSamples(file, info.fmt, from, WindowSamples(Rate) - kept, left)
  IN active' = kept + r.frames /\ pos' = r.pos /\ remaining' = r.remaining

(* The fseek to the data and the first window. *)
BuildBegins ==
  /\ pc = "build" /\ pc' = "hop"
  /\ Refill(0, info.offset, info.size)
  /\ UNCHANGED <<result, file, info, played, music, stop_requested>>

Extends(hz) == melody # << >> /\ melody[Len(melody)].hz = hz
IsFull == Len(melody) >= capacity

(* melody_buffer_append; the duration of a note that is lengthened is an   *)
(* unsigned int, and wraps.                                                *)
AppendNote(hz, ms) ==
  IF Extends(hz)
  THEN /\ melody' = [melody EXCEPT ![Len(melody)] =
                       [hz |-> hz, ms |-> (@.ms + ms) % UIntMod]]
       /\ UNCHANGED capacity
  ELSE /\ melody' = Append(melody, [hz |-> hz, ms |-> ms])
       /\ capacity' = IF ~IsFull THEN capacity
                      ELSE IF capacity = 0 THEN InitialCapacity ELSE 2 * capacity

(* What is played of a window that holds n samples. *)
PlaySamples == Least(HopSamples(Rate), active)

(* One turn of the loop.  (Its test for the last window only saves a read  *)
(* of nothing.)                                                            *)
Hop ==
  /\ pc = "hop" /\ active > 0 /\ ~stop_requested
  /\ \E n \in Detections(Rate) :
       /\ tracker' = Update(tracker, n)
       /\ AppendNote(Hz(tracker'.stable), DurationMs(PlaySamples, Rate))
       /\ heard' = IF n = NoNote THEN heard ELSE n
       /\ gap' = IF n = NoNote THEN gap + 1 ELSE 0
  /\ played' = played + PlaySamples
  /\ Refill(active - PlaySamples, pos, remaining)
  /\ UNCHANGED <<pc, result, file, info, stop_requested>>

(* realloc fails: the next note is a new one and the array is full. *)
NoMemory ==
  /\ pc = "hop" /\ active > 0 /\ ~stop_requested /\ IsFull
  /\ \E n \in Detections(Rate) :
       /\ tracker' = Update(tracker, n)
       /\ ~Extends(Hz(tracker'.stable))
  /\ Return("DEVICE_FAILED")
  /\ UNCHANGED <<header, samples, melody, capacity, heard, gap, stop_requested>>

BuildStopped ==
  /\ pc = "hop" /\ active > 0 /\ stop_requested
  /\ Return("OK")
  /\ UNCHANGED <<header, samples, music, stop_requested>>

(* Mutant: the loop ends with the data, the window is not played out. *)
BuildDoneWithData ==
  /\ pc = "hop" /\ (active = 0 \/ remaining = 0)
  /\ Return("OK")
  /\ UNCHANGED <<header, samples, music, stop_requested>>

BuildDone ==
  /\ pc = "hop" /\ active = 0
  /\ Return("OK")
  /\ UNCHANGED <<header, samples, music, stop_requested>>

(* BUZZER OFF or the end of the server, from another thread *)
RequestStop ==
  /\ pc \in {"build", "hop"} /\ ~stop_requested /\ stop_requested' = TRUE
  /\ UNCHANGED <<pc, result, header, samples, music>>

-----------------------------------------------------------------------------
Step ==
  \/ OpenFails \/ ReadRiff \/ NoHeader \/ FmtChunk \/ OtherChunk \/ DataChunk
  \/ BuildBegins \/ Hop \/ NoMemory \/ BuildStopped \/ BuildDone

Rest == pc = "done" /\ UNCHANGED vars

Next == Step \/ RequestStop \/ Rest

Spec == Init /\ [][Next]_vars /\ WF_vars(Step)

-----------------------------------------------------------------------------
(* Properties *)

Pcs == {"open", "header", "build", "hop", "done"}
BuzzerNote == [hz : Nat, ms : 0..(UIntMod - 1)]

(* The types, with the bounds of the two arrays: the window, on the stack, *)
(* is never filled beyond its 4096 samples, nor a note written behind the  *)
(* melody's array.                                                         *)
TypeOK ==
  /\ pc \in Pcs /\ result \in {"NONE", "OK", "INVALID_VALUE", "DEVICE_FAILED"}
  /\ file \in WavFile /\ pos \in Nat
  /\ info \in [fmt : WavFmt, hasFmt : BOOLEAN, offset : Nat, size : Nat]
  /\ remaining \in Nat /\ played \in Nat
  /\ active \in 0..4096 /\ active <= WindowSamples(Rate)
  /\ tracker \in [stable : Note \cup {NoNote}, missing : 0..HoldHops,
                  pending : Note \cup {NoNote}, hops : Nat]
  /\ melody \in Seq(BuzzerNote) /\ capacity \in Nat
  /\ Len(melody) <= capacity
  /\ heard \in Note \cup {NoNote} /\ gap \in Nat /\ stop_requested \in BOOLEAN

(* A file is accepted exactly if its chunks say it can be played, and the  *)
(* samples are looked for where its first data chunk is, in the format of  *)
(* the fmt chunk before it, whatever other chunks there are and wherever   *)
(* the file was cut off.  A fmt chunk of odd size above 16 is excepted:    *)
(* its pad byte is skipped twice.                                          *)
HeaderMatchesReference ==
  ~HasOddFmt(file) =>
    /\ result = "INVALID_VALUE" => ~IsPlayable(file)
    /\ pc \in {"build", "hop"} \/ result = "OK" =>
         /\ IsPlayable(file)
         /\ LET d == FirstData(file) IN
              /\ info.offset = file.start[d] + HeaderSize
              /\ info.size = file.chunks[d].size
              /\ info.fmt = file.chunks[Max(FmtsBefore(file, d))].fmt

AllFrames == FramesFrom(file, info.fmt, info.offset, info.size)

(* Every whole frame that is there becomes part of the melody once: those  *)
(* played, those in the window and those still to be read are all of them. *)
(* Adjacent notes differ, so that none is struck twice.                    *)
MelodyCoversMusic ==
  pc = "hop" \/ result = "OK" =>
    /\ played + active + FramesFrom(file, info.fmt, pos, remaining) = AllFrames
    /\ result = "OK" /\ ~stop_requested => played = AllFrames
    /\ \A i \in 1..(Len(melody) - 1) : melody[i].hz # melody[i + 1].hz

(* For each i, how long the first i notes last. *)
LastsUpTo(notes) ==
  LET upTo[i \in 0..Len(notes)] ==
        IF i = 0 THEN 0 ELSE upTo[i - 1] + notes[i].ms
  IN upTo

TotalMs == LastsUpTo(melody)[Len(melody)]

(* The least and the most the samples played may last, in milliseconds. *)
Hops == (played + HopSamples(Rate) - 1) \div HopSamples(Rate)
LeastMs == (played * 1000 + Rate - 1) \div Rate
MostMs == (played * 1000) \div Rate + Hops

(* The melody lasts as long as the samples played, at most one millisecond *)
(* a hop longer, but for the turns that unsigned ints have made: whole     *)
(* multiples of 2^32 ms, 49 days, are missing from notes that last longer, *)
(* and nothing from any other melody.                                      *)
MelodyLasts ==
  pc = "hop" \/ result = "OK" =>
    \E ms \in LeastMs..MostMs : ms >= TotalMs /\ ms % UIntMod = TotalMs % UIntMod

(* A gap of up to four hops in a melody is bridged and a longer one is     *)
(* silent; what sounds is within 8 % of the last note heard, however the   *)
(* notes wandered before.                                                  *)
GapsBridged ==
  melody # << >> =>
    LET hz == melody[Len(melody)].hz
    IN /\ hz = 0 <=> heard = NoNote \/ gap > HoldHops
       /\ hz # 0 => AreClose(Hz(heard), hz)

(* What holds in every state and is kept by every step. *)

(* The chunks before the k-th were seen for what they are. *)
ReadUpTo(k) ==
  /\ pos = file.start[k]
  /\ \A i \in 1..(k - 1) :
       /\ file.chunks[i].id # "data"
       /\ file.chunks[i].id = "fmt" => file.chunks[i].size >= FmtSize
  /\ info.hasFmt <=> FmtsBefore(file, k) # {}
  /\ info.hasFmt => info.fmt = file.chunks[Max(FmtsBefore(file, k))].fmt

HeaderInv ==
  /\ pc # "done" => result = "NONE"
  /\ pc = "open" => ~info.hasFmt
  /\ pc = "header" /\ ~HasOddFmt(file) =>
       file.riff /\ \E k \in DOMAIN file.start : ReadUpTo(k)
  /\ pc \in {"build", "hop"} \/ result = "OK" => Supported(info.fmt)
  /\ pc \in {"open", "header", "build"} => melody = << >> /\ active = 0 /\ played = 0

(* A window that is not full holds the last of the samples; and only the   *)
(* last hop is shorter than the others.                                    *)
WindowInv ==
  pc = "hop" =>
    /\ active < WindowSamples(Rate) => FramesFrom(file, info.fmt, pos, remaining) = 0
    /\ active > 0 => played % HopSamples(Rate) = 0

(* The note that sounds is the tracker's; a gap is as long as it counted. *)
TrackInv ==
  pc # "done" =>
    /\ melody # << >> => melody[Len(melody)].hz = Hz(tracker.stable)
    /\ IF tracker.stable = NoNote THEN heard = NoNote \/ gap > HoldHops
       ELSE /\ heard # NoNote /\ gap = tracker.missing
            /\ AreClose(Hz(heard), Hz(tracker.stable))

IInv ==
  /\ TypeOK /\ HeaderInv /\ HeaderMatchesReference
  /\ MelodyCoversMusic /\ WindowInv /\ TrackInv /\ GapsBridged

(* The call ends for every file, cut off or misread as it may be. *)
BuildEnds == <>(pc = "done")

=============================================================================
