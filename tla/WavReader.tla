----------------------------- MODULE WavReader -----------------------------
(***************************************************************************)
(* wav_reader.c: where the chunks of a WAV file lie and what may be read   *)
(* of its data.                                                            *)
(*                                                                         *)
(* A file is the sequence of chunks its writer laid out, with the place    *)
(* where each begins, and the number of bytes that are there (a copy may   *)
(* have been cut short).  Samples have no values here, only positions.     *)
(***************************************************************************)
EXTENDS Integers, Sequences, FiniteSetsExt

RiffSize == 12          \* "RIFF", its size, "WAVE"
HeaderSize == 8         \* a chunk's id and size
FmtSize == 16           \* the part of a fmt chunk that is read

WavFmt == [audio_format : Nat, channels : Nat, sample_rate : Nat,
           block_align : Nat, bits_per_sample : Nat]
WavChunk == [id : {"fmt", "data", "other"}, size : Nat, fmt : WavFmt]

(* What a writer makes: chunk behind chunk, each padded to an even size.   *)
(* No bytes are behind the last one.                                       *)
IsWavFile(f) ==
  /\ f.riff \in BOOLEAN /\ f.length \in Nat /\ f.chunks \in Seq(WavChunk)
  /\ f.start \in [1..(Len(f.chunks) + 1) -> Nat] /\ f.start[1] = RiffSize
  /\ \A i \in DOMAIN f.chunks :
       LET size == f.chunks[i].size
       IN f.start[i + 1] = f.start[i] + HeaderSize + size + (size % 2)
  /\ f.length <= f.start[Len(f.chunks) + 1]

(* Mutant: the pad byte of an odd chunk is not counted. *)
PaddedToItself(size) == size

(* skip_bytes: a payload of odd size is followed by a pad byte. *)
Padded(size) == size + (size % 2)

(* read_chunk_header at pos: the headers it may see there.  Off the start  *)
(* of a chunk it takes other bytes for one, any of `stray'; too near the   *)
(* end it sees none.                                                       *)
HeadersAt(f, pos, stray) ==
  LET here == {i \in DOMAIN f.chunks : f.start[i] = pos}
  IN IF pos + HeaderSize > f.length THEN {}
     ELSE IF here # {} THEN {f.chunks[i] : i \in here} ELSE stray

(* The end of a fmt chunk whose header is at pos.  When there is more than *)
(* the 16 bytes, skip_bytes skips the rest with its pad, and the else      *)
(* branch behind it skips the pad of an odd size once again.               *)
AfterFmt(pos, size) ==
  pos + HeaderSize + FmtSize
  + (IF size > FmtSize THEN Padded(size - FmtSize) ELSE 0) + (size % 2)

(* wav_frame_size, 0 for none *)
FrameSize(fmt) ==
  IF fmt.bits_per_sample % 8 # 0 THEN 0
  ELSE fmt.channels * (fmt.bits_per_sample \div 8)

(* The last condition of wav_read_header. *)
Supported(fmt) ==
  /\ fmt.audio_format = 1 /\ fmt.channels \in 1..2 /\ fmt.sample_rate # 0
  /\ fmt.bits_per_sample \in {8, 16} /\ fmt.block_align = FrameSize(fmt)

(* The whole frames between pos and the end of the data and of the file. *)
FramesFrom(f, fmt, pos, remaining) ==
  Max({0, Min({remaining, f.length - pos})}) \div FrameSize(fmt)

(* wav_read_samples: reading stops at max frames, before a frame the data  *)
(* chunk does not hold whole, or in the frame in which the file ends; the  *)
(* channels of that frame that were there are gone too.                    *)
ReadSamples(f, fmt, pos, max, remaining) ==
  LET frames == Min({max, FramesFrom(f, fmt, pos, remaining)})
      used == frames * FrameSize(fmt)
      isCut == frames < Min({max, remaining \div FrameSize(fmt)})
      sample == FrameSize(fmt) \div fmt.channels
      part == Max({0, f.length - pos - used}) \div sample
  IN [frames |-> frames,
      pos |-> IF isCut THEN Max({pos, f.length}) ELSE pos + used,
      remaining |-> remaining - used - (IF isCut THEN part * sample ELSE 0)]

-----------------------------------------------------------------------------
(* What a WAV file means, from its chunks alone: the format is the last    *)
(* fmt chunk before the first data chunk.                                  *)

FirstData(f) == Min({i \in DOMAIN f.chunks : f.chunks[i].id = "data"})
FmtsBefore(f, d) == {i \in 1..(d - 1) : f.chunks[i].id = "fmt"}
HasData(f) == \E i \in DOMAIN f.chunks : f.chunks[i].id = "data"

IsPlayable(f) ==
  /\ f.riff /\ HasData(f)
  /\ LET d == FirstData(f) IN
       /\ f.start[d] + HeaderSize <= f.length
       /\ FmtsBefore(f, d) # {}
       /\ \A i \in FmtsBefore(f, d) : f.chunks[i].size >= FmtSize
       /\ Supported(f.chunks[Max(FmtsBefore(f, d))].fmt)

(* A fmt chunk of this kind before the data is the one the reader gets     *)
(* wrong.                                                                  *)
HasOddFmt(f) ==
  \E i \in DOMAIN f.chunks :
    f.chunks[i].id = "fmt" /\ f.chunks[i].size > FmtSize /\ f.chunks[i].size % 2 = 1

=============================================================================
