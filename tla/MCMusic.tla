------------------------------ MODULE MCMusic ------------------------------
(* Music with short files that are all header, up to three chunks of every *)
(* kind and cut anywhere a read can notice, and long ones with one format  *)
(* each, of up to eight hops.                                              *)
EXTENDS Music, TLC

MCNoteHz == 69 :> 440 @@ 70 :> 466 @@ 72 :> 523
MCNote == DOMAIN MCNoteHz

Pcm(channels, bits, rate) ==
  [audio_format |-> 1, channels |-> channels, sample_rate |-> rate,
   block_align |-> channels * (bits \div 8), bits_per_sample |-> bits]

Mono == Pcm(1, 8, 8000)
Stereo == Pcm(2, 16, 44100)

Chunk(id, size, fmt) == [id |-> id, size |-> size, fmt |-> fmt]
Fmt(size, fmt) == Chunk("fmt", size, fmt)
Data(size) == Chunk("data", size, NoFmt)
Other(size) == Chunk("other", size, NoFmt)

Formats == {Fmt(16, Mono), Fmt(18, Stereo), Fmt(17, Mono), Fmt(14, Mono),
            Fmt(16, [Mono EXCEPT !.audio_format = 3]),
            Fmt(16, [Stereo EXCEPT !.block_align = 2])}
SmallChunks == Formats \cup {Data(6), Data(1), Other(1), Other(2)}

(* Where the i-th chunk begins, as the file's writer lays them out. *)
Start(chunks, i) ==
  RiffSize + MapThenSumSet(
    LAMBDA j : HeaderSize + chunks[j].size + (chunks[j].size % 2), 1..(i - 1))
End(chunks) == Start(chunks, Len(chunks) + 1)

File(riff, chunks, length) ==
  [riff |-> riff, chunks |-> chunks, length |-> length,
   start |-> [i \in 1..(Len(chunks) + 1) |-> Start(chunks, i)]]

(* The whole file, and one cut within the last chunk's payload, its header *)
(* or the chunk before.                                                    *)
Cuts(chunks) == {End(chunks) - n : n \in {0, 2, 3, 8, 13}}

SmallFiles ==
  UNION {{File(TRUE, c, n) : n \in Cuts(c)} :
         c \in UNION {[1..k -> SmallChunks] : k \in 1..3}}

LongFile(fmt, frames, missing) ==
  LET c == <<Fmt(16, fmt), Other(3), Data(frames * FrameSize(fmt))>>
  IN File(TRUE, c, End(c) - missing)

(* 8000 Hz: seven hops of 160 samples.  850 Hz: no note is below half the  *)
(* rate, and hops of the least length, which are no whole number of        *)
(* milliseconds; whole files, and one that ends in a frame and lies about  *)
(* its size.  1000 Hz: only the lowest note.  400000 Hz: windows of the    *)
(* greatest length, cut to half.  1 Hz: no note at all, and a rest that    *)
(* lasts longer than a duration can count, with UIntMod at 200 seconds.    *)
LongFiles ==
  { LongFile(Mono, 1100, 0), LongFile(Pcm(1, 16, 850), 1500, 0),
    LongFile(Pcm(1, 8, 1000), 900, 0), LongFile(Pcm(2, 16, 850), 1500, 1401),
    LongFile(Pcm(1, 8, 400000), 5000, 0), LongFile(Pcm(2, 8, 1), 300, 0) }

MCWavFile ==
  SmallFiles \cup LongFiles
  \cup {File(FALSE, <<Fmt(16, Mono), Data(6)>>, 50)}
  \cup {File(TRUE, << >>, n) : n \in {0, 11, 12}}

MCStrayHeader == {Fmt(16, Mono), Data(6), Other(0), Other(60000)}

=============================================================================
